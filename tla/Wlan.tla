-------------------------------- MODULE Wlan --------------------------------
(***************************************************************************)
(* apctl_connect of src/app/main.c: associating with the access point.  It *)
(* samples the adapter's state every 200 ms and gives up when that state   *)
(* has been DISCONNECTED too often in a row or no address came in time.    *)
(*                                                                         *)
(* The adapter is external and may report any state at any time.           *)
(***************************************************************************)
EXTENDS Integers, Sequences

CONSTANTS
  MaxPolls,    \* 100 in the code, "up to ~20 s"
  StuckPolls   \* 25 in the code, "~5 s stuck"

ASSUME WlanAssumption == MaxPolls \in Nat \ {0} /\ StuckPolls \in Nat \ {0}

VARIABLES
  wlan,  \* where apctl_connect stands, its counters, what it returned
  seen   \* history: the states sampled since sceNetApctlConnect

\* SCANNING stands for every state between the two that matter; "error" is a
\* failing sceNetApctlGetState.
States == {"DISCONNECTED", "SCANNING", "GOT_IP", "error"}

WlanIdle == [at |-> "start", i |-> 0, disconnected_ticks |-> 0, rc |-> 0]
WlanInit == wlan = WlanIdle /\ seen = <<>>

Return(rc) == wlan' = [wlan EXCEPT !.at = "done", !.rc = rc]

\* Switched off, already associated, refused, or begun.
WlanBegin ==
  /\ wlan.at = "start"
  /\ \/ Return(-1)
     \/ Return(0)
     \/ wlan' = [wlan EXCEPT !.at = "poll"]
  /\ UNCHANGED seen

\* Slip: disconnected_ticks counts all samples, not those in a row.
WlanPoll_NoReset(s) ==
  /\ wlan.at = "poll" /\ wlan.i < MaxPolls
  /\ seen' = Append(seen, s)
  /\ LET ticks == wlan.disconnected_ticks + IF s = "DISCONNECTED" THEN 1 ELSE 0 IN
     CASE s = "error"  -> Return(-1)
       [] s = "GOT_IP" -> Return(0)
       [] OTHER        -> IF ticks >= StuckPolls THEN Return(-1)
                          ELSE wlan' = [wlan EXCEPT !.i = @ + 1, !.disconnected_ticks = ticks]

\* One round of the loop.
WlanPoll(s) ==
  /\ wlan.at = "poll" /\ wlan.i < MaxPolls
  /\ seen' = Append(seen, s)
  /\ LET ticks == IF s = "DISCONNECTED" THEN wlan.disconnected_ticks + 1 ELSE 0 IN
     CASE s = "error"  -> Return(-1)
       [] s = "GOT_IP" -> Return(0)
       [] OTHER        -> IF ticks >= StuckPolls THEN Return(-1)
                          ELSE wlan' = [wlan EXCEPT !.i = @ + 1, !.disconnected_ticks = ticks]

WlanTimeout ==
  /\ wlan.at = "poll" /\ wlan.i = MaxPolls
  /\ Return(-1)
  /\ UNCHANGED seen

WlanStep == WlanBegin \/ (\E s \in States : WlanPoll(s)) \/ WlanTimeout

-----------------------------------------------------------------------------
WlanTypeOK ==
  /\ wlan \in [at : {"start", "poll", "done"}, i : 0 .. MaxPolls,
               disconnected_ticks : 0 .. StuckPolls - 1, rc : {0, -1}]
  /\ seen \in Seq(States) /\ Len(seen) <= MaxPolls

\* What the samples say, without counters: the first address wins; otherwise
\* the wait is given up at the first run of StuckPolls samples DISCONNECTED, at a
\* sample that fails, or after MaxPolls samples - and at nothing else, so that an
\* association that drops and comes back in time is waited for
\* (main.c 236-266).
StuckAt(k) ==
  k >= StuckPolls /\ \A j \in k - StuckPolls + 1 .. k : seen[j] = "DISCONNECTED"
EndsAt(k) == seen[k] \in {"GOT_IP", "error"} \/ StuckAt(k) \/ k = MaxPolls
WlanVerdict ==
  LET k == Len(seen) IN
  /\ \A j \in 1 .. k - 1 : ~EndsAt(j)
  /\ wlan.at = "done" /\ k > 0 => EndsAt(k) /\ (wlan.rc = 0 <=> seen[k] = "GOT_IP")
=============================================================================
