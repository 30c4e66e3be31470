----------------------------- MODULE AppProofs -----------------------------
(***************************************************************************)
(* App and the association it contains (Wlan): what the runs check on      *)
(* small instances, for every number of polls, every configuration file    *)
(* and every text.                                                         *)
(***************************************************************************)
EXTENDS App, TLAPS

-----------------------------------------------------------------------------
(* The association.  WlanVerdict speaks of the samples alone; what it takes *)
(* to keep it is what the two counters say of them.                         *)

\* disconnected_ticks is the length of the run of DISCONNECTED samples that ends
\* at the last one.
RunIs(t, k) ==
  /\ t <= k
  /\ \A j \in k - t + 1 .. k : seen[j] = "DISCONNECTED"
  /\ t < k => seen[k - t] # "DISCONNECTED"
RunCounted == RunIs(wlan.disconnected_ticks, Len(seen))

\* No sample so far has ended the wait; MaxPolls is left to WlanTimeout.
StillWaiting ==
  \A j \in 1 .. Len(seen) : seen[j] \notin {"GOT_IP", "error"} /\ ~StuckAt(j)

WlanInv ==
  /\ WlanTypeOK
  /\ wlan.at = "start" => wlan = WlanIdle /\ seen = <<>>
  /\ wlan.at = "poll"  => wlan.i = Len(seen) /\ RunCounted /\ StillWaiting
  /\ WlanVerdict

\* No sample has been taken.
LEMMA WlanInvInit == WlanInit => WlanInv
  BY WlanAssumption
  DEF WlanInit, WlanIdle, WlanInv, WlanTypeOK, WlanVerdict

\* StuckAt looks at the samples up to k only, so that one more sample changes
\* nothing of it.
LEMMA StuckAppend ==
  ASSUME seen \in Seq(States), NEW s \in States, seen' = Append(seen, s)
  PROVE  /\ Len(seen') = Len(seen) + 1 /\ seen' \in Seq(States)
         /\ seen'[Len(seen) + 1] = s
         /\ \A j \in 1 .. Len(seen) : seen'[j] = seen[j] /\ (StuckAt(j)' <=> StuckAt(j))
<1>1. /\ Len(seen') = Len(seen) + 1 /\ seen' \in Seq(States)
      /\ seen'[Len(seen) + 1] = s
      /\ \A j \in 1 .. Len(seen) : seen'[j] = seen[j]
  OBVIOUS
<1> QED  BY <1>1, WlanAssumption DEF StuckAt

\* A sample (main.c 109-131): both counters count what was seen.
LEMMA WlanPollKeeps ==
  ASSUME WlanInv, NEW s \in States, WlanPoll(s)
  PROVE  WlanInv'
<1>1. PICK k, run : k = Len(seen) /\ run = wlan.disconnected_ticks
  OBVIOUS
<1>2. PICK ticks : ticks = IF s = "DISCONNECTED" THEN run + 1 ELSE 0
  OBVIOUS
<1>3. /\ k \in Nat /\ k < MaxPolls /\ run \in 0 .. StuckPolls - 1 /\ wlan.i = k
      /\ RunCounted /\ StillWaiting
  BY <1>1 DEF WlanInv, WlanPoll, WlanTypeOK
<1>4. /\ Len(seen') = k + 1 /\ seen' \in Seq(States) /\ seen'[k + 1] = s
      /\ \A j \in 1 .. k : seen'[j] = seen[j] /\ (StuckAt(j)' <=> StuckAt(j))
  <2>1. seen \in Seq(States) /\ seen' = Append(seen, s)
    BY DEF WlanInv, WlanTypeOK, WlanPoll
  <2> QED  BY <1>1, <2>1, StuckAppend
<1>5. ticks \in Nat /\ ticks <= StuckPolls /\ ticks <= k + 1
  BY <1>1, <1>2, <1>3, WlanAssumption DEF RunCounted, RunIs
<1>6. /\ \A j \in k + 1 - ticks + 1 .. k + 1 : seen'[j] = "DISCONNECTED"
      /\ ticks < k + 1 => seen'[k + 1 - ticks] # "DISCONNECTED"
  <2>1. /\ run <= k /\ \A j \in k - run + 1 .. k : seen[j] = "DISCONNECTED"
        /\ run < k => seen[k - run] # "DISCONNECTED"
    BY <1>1, <1>3 DEF RunCounted, RunIs
  <2>2. CASE s = "DISCONNECTED"
    BY <1>2, <1>3, <1>4, <2>1, <2>2
  <2>3. CASE s # "DISCONNECTED"
    BY <1>2, <1>3, <1>4, <2>1, <2>3
  <2> QED  BY <2>2, <2>3
<1>7. StuckAt(k + 1)' <=> ticks >= StuckPolls
  <2>1. CASE ticks >= StuckPolls
    BY <1>3, <1>5, <1>6, <2>1, WlanAssumption DEF StuckAt
  <2>2. CASE ticks < StuckPolls
    BY <1>3, <1>5, <1>6, <2>2, WlanAssumption DEF StuckAt
  <2> QED  BY <1>5, <2>1, <2>2, WlanAssumption
<1>8. \A j \in 1 .. k : ~EndsAt(j)'
  BY <1>1, <1>3, <1>4 DEF StillWaiting, EndsAt
<1>9. ASSUME NEW rc \in {0, -1}, rc = 0 <=> s = "GOT_IP", EndsAt(k + 1)', Return(rc)
      PROVE  WlanInv'
  <2>1. /\ wlan' \in [at : {"start", "poll", "done"}, i : 0 .. MaxPolls,
                       disconnected_ticks : 0 .. StuckPolls - 1, rc : {0, -1}]
        /\ wlan'.at = "done" /\ wlan'.rc = rc
    BY <1>9 DEF WlanInv, WlanTypeOK, Return
  <2>2. WlanTypeOK'
    BY <1>3, <1>4, <2>1, WlanAssumption DEF WlanTypeOK
  <2>3. WlanVerdict'
    BY <1>3, <1>4, <1>8, <1>9, <2>1 DEF WlanVerdict
  <2> QED  BY <2>1, <2>2, <2>3 DEF WlanInv
<1>10. CASE s = "error"
  BY <1>4, <1>9, <1>10 DEF WlanPoll, EndsAt
<1>11. CASE s = "GOT_IP"
  BY <1>4, <1>9, <1>11 DEF WlanPoll, EndsAt
<1>12. CASE s \notin {"error", "GOT_IP"} /\ ticks >= StuckPolls
  BY <1>1, <1>2, <1>7, <1>9, <1>12 DEF WlanPoll, EndsAt
<1>13. CASE s \notin {"error", "GOT_IP"} /\ ~(ticks >= StuckPolls)
  <2>1. wlan' = [wlan EXCEPT !.i = wlan.i + 1, !.disconnected_ticks = ticks]
    BY <1>1, <1>2, <1>13 DEF WlanPoll
  <2>2. /\ wlan' \in [at : {"start", "poll", "done"}, i : 0 .. MaxPolls,
                       disconnected_ticks : 0 .. StuckPolls - 1, rc : {0, -1}]
        /\ wlan'.at = "poll" /\ wlan'.i = k + 1 /\ wlan'.disconnected_ticks = ticks
    <3>1. ticks \in 0 .. StuckPolls - 1 /\ k + 1 \in 0 .. MaxPolls
      BY <1>3, <1>5, <1>13, WlanAssumption
    <3>2. wlan.at = "poll"
      BY DEF WlanPoll
    <3> QED  BY <1>3, <2>1, <3>1, <3>2 DEF WlanInv, WlanTypeOK
  <2>3. WlanTypeOK'
    BY <1>3, <1>4, <2>2, WlanAssumption DEF WlanTypeOK
  <2>4. RunCounted'
    <3>1. RunIs(ticks, k + 1)'
      BY <1>3, <1>5, <1>6 DEF RunIs
    <3> QED  BY <1>4, <2>2, <3>1 DEF RunCounted
  <2>5. StillWaiting'
    BY <1>1, <1>3, <1>4, <1>7, <1>13 DEF StillWaiting
  <2>6. WlanVerdict'
    BY <1>3, <1>4, <1>8, <2>2 DEF WlanVerdict
  <2> QED  BY <1>4, <2>2, <2>3, <2>4, <2>5, <2>6 DEF WlanInv
<1> QED  BY <1>10, <1>11, <1>12, <1>13

\* Any step of the association.
LEMMA WlanStepKeeps ==
  ASSUME WlanInv, WlanStep
  PROVE  WlanInv'
<1>1. CASE WlanBegin
  <2>1. /\ wlan = WlanIdle /\ seen = <<>> /\ seen' = seen
        /\ \/ wlan' = [wlan EXCEPT !.at = "done", !.rc = -1]
           \/ wlan' = [wlan EXCEPT !.at = "done", !.rc = 0]
           \/ wlan' = [wlan EXCEPT !.at = "poll"]
    BY <1>1 DEF WlanBegin, Return, WlanInv
  <2>2. /\ wlan' \in [at : {"poll", "done"}, i : {0}, disconnected_ticks : {0}, rc : {0, -1}]
        /\ seen' = <<>>
    BY <2>1 DEF WlanIdle
  <2>3. WlanTypeOK' /\ WlanVerdict'
    BY <2>2, WlanAssumption DEF WlanTypeOK, WlanVerdict
  <2>4. wlan'.i = Len(seen') /\ RunCounted' /\ StillWaiting'
    BY <2>2 DEF RunCounted, RunIs, StillWaiting
  <2> QED  BY <2>2, <2>3, <2>4 DEF WlanInv
<1>2. ASSUME NEW s \in States, WlanPoll(s)
      PROVE  WlanInv'
  BY <1>2, WlanPollKeeps
<1>3. CASE WlanTimeout
  <2>1. /\ Len(seen) = MaxPolls /\ StillWaiting /\ seen' = seen
        /\ wlan' = [wlan EXCEPT !.at = "done", !.rc = -1]
    BY <1>3 DEF WlanTimeout, Return, WlanInv
  <2>2. /\ wlan' \in [at : {"start", "poll", "done"}, i : 0 .. MaxPolls,
                       disconnected_ticks : 0 .. StuckPolls - 1, rc : {0, -1}]
        /\ wlan'.at = "done" /\ wlan'.rc = -1
    BY <2>1 DEF WlanInv, WlanTypeOK
  <2>3. WlanTypeOK'
    BY <2>1, <2>2 DEF WlanInv, WlanTypeOK
  <2>4. WlanVerdict'
    <3>1. /\ \A j \in 1 .. MaxPolls - 1 : ~EndsAt(j)
          /\ EndsAt(MaxPolls) /\ seen[MaxPolls] # "GOT_IP"
      BY <2>1, WlanAssumption DEF EndsAt, StillWaiting
    <3> QED  BY <2>1, <2>2, <3>1 DEF WlanVerdict, EndsAt, StuckAt
  <2> QED  BY <2>2, <2>3, <2>4 DEF WlanInv
<1> QED  BY <1>1, <1>2, <1>3 DEF WlanStep

-----------------------------------------------------------------------------
(* The program around it. *)

\* What a step outside the dialog and the association leaves of TypeOK.
Typed ==
  /\ at \in {"menu", "osk", "init_net", "wlan", "connect", "handshake", "session",
             "hold", "exited"}
  /\ file \in ConfigFiles /\ cfg \in [Kept -> Words] /\ edited \subseteq Kept
  /\ sel \in 0 .. F_COUNT - 1
  /\ pad \subseteq Buttons /\ sample \subseteq Buttons /\ old \subseteq Buttons
  /\ caller \in {"none", "menu", "session"}
  /\ dialog \in {"NONE", "START", "INIT", "VISIBLE", "QUIT", "FINISHED"}
  /\ disp \in {"base", "second"} /\ shown \in {"base", "second"}
  /\ sock \in {"none", "open", "closed"}
  /\ lines \in 0 .. MaxLines /\ cb \in BOOLEAN

\* The display belongs to the debug screen outside the dialog and the session,
\* and the socket is opened on the way to the session only.
BeforeSocket == {"menu", "init_net", "wlan", "connect"}
Settled ==
  /\ at \in BeforeSocket \cup {"handshake"} => shown = "base"
  /\ at \in BeforeSocket => sock = "none"
  /\ at = "osk" /\ caller = "menu" => sock = "none"
  /\ at = "hold" => sock # "open"
  /\ at = "osk" /\ caller = "session" => lines < MaxLines

AppInv == WlanInv /\ Typed /\ Settled

\* Where main begins.
LEMMA AppInvInit == Init => AppInv
<1> SUFFICES ASSUME Init PROVE AppInv
  OBVIOUS
<1>1. WlanInv
  BY WlanInvInit DEF Init
<1>2. cfg \in [Kept -> Words]
  BY DEF Init, load_config, Words
<1> QED  BY <1>1, <1>2, AppAssumption
         DEF Init, AppInv, Typed, Settled, BeforeSocket, F_COUNT, Buttons

\* The rest of the program leaves the association alone.
LEMMA WlanKept ==
  ASSUME WlanInv, UNCHANGED <<wlan, seen>>
  PROVE  WlanInv'
  BY DEF WlanInv, WlanTypeOK, WlanVerdict, EndsAt, StuckAt, RunCounted, RunIs, StillWaiting

\* Any step of the program.
LEMMA AppStep ==
  ASSUME AppInv, [Next]_vars
  PROVE  AppInv'
<1> USE AppAssumption DEF AppInv, Elsewhere, menu, screen, net, input
<1>1. CASE User
  BY <1>1, WlanKept DEF User, Typed, Settled, Buttons
<1>2. CASE MenuHome
  BY <1>2, WlanKept DEF MenuHome, Typed, Settled, BeforeSocket
<1>3. CASE MenuRound
  <2>1. Moved \in 0 .. F_COUNT - 1
    BY DEF Moved, F_COUNT, Typed
  <2> QED  BY <1>3, <2>1, WlanKept DEF MenuRound, EndRound, Typed, Settled, BeforeSocket
<1>4. CASE OskFrame
  <2>1. Onward[dialog] \subseteq {"NONE", "INIT", "VISIBLE", "QUIT", "FINISHED"}
    BY <1>4 DEF OskFrame, Onward, Typed
  <2> QED  BY <1>4, <2>1, WlanKept DEF OskFrame, Swap, Other, Typed, Settled, BeforeSocket
<1>5. CASE MenuEdited
  <2>1. cfg' \in [Kept -> Words] /\ edited' \subseteq Kept
    BY <1>5 DEF MenuEdited, Typed, Words
  <2> QED  BY <1>5, <2>1, WlanKept
           DEF MenuEdited, OskEnds, Other, EndRound, Typed, Settled, BeforeSocket
<1>6. CASE InitNet
  BY <1>6, WlanKept DEF InitNet, Typed, Settled, BeforeSocket
<1>7. CASE apctl_connect
  BY <1>7, WlanStepKeeps DEF apctl_connect, Typed, Settled, BeforeSocket
<1>8. CASE Connect
  BY <1>8, WlanKept DEF Connect, Typed, Settled, BeforeSocket
<1>9. CASE Handshake
  BY <1>9, WlanKept DEF Handshake, Typed, Settled, BeforeSocket
<1>10. CASE SessionReturns
  BY <1>10, WlanKept DEF SessionReturns, Typed, Settled, BeforeSocket
<1>11. CASE Hold
  BY <1>11, WlanKept DEF Hold, Typed, Settled, BeforeSocket
<1>12. CASE exit_callback
  BY <1>12, WlanKept DEF exit_callback, Typed, Settled, BeforeSocket
<1>13. CASE InLineRest
  BY <1>13, WlanKept DEF InLineRest, HandOut, Shell, Typed, Settled, BeforeSocket
<1>14. CASE InLineOsk
  BY <1>14, WlanKept DEF InLineOsk, Shell, Typed, Settled, BeforeSocket
<1>15. CASE LineTyped
  <2>1. lines' \in 0 .. MaxLines
    BY <1>15 DEF LineTyped, OskEnds, Typed, Settled
  <2> QED  BY <1>15, <2>1, WlanKept DEF LineTyped, OskEnds, LastShown, Other, Typed, Settled, BeforeSocket
<1>16. CASE UNCHANGED vars
  BY <1>16, WlanKept DEF vars, Typed, Settled, BeforeSocket
<1> QED  BY <1>1, <1>2, <1>3, <1>4, <1>5, <1>6, <1>7, <1>8, <1>9, <1>10, <1>11, <1>12,
            <1>13, <1>14, <1>15, <1>16
         DEF Next, Program

\* The invariant holds throughout.
LEMMA AppInvariant == Spec => []AppInv
  BY AppInvInit, AppStep, PTL DEF Spec

\* The variables of main.c and osk.c keep their types, the association's counters
\* their bounds.
THEOREM AppTypeCorrect == Spec => []TypeOK
<1>1. AppInv => TypeOK
  BY DEF AppInv, WlanInv, Typed, TypeOK
<1> QED  BY <1>1, AppInvariant, PTL

\* apctl_connect returns 0 at the first address, and gives up at the first run of
\* StuckPolls samples DISCONNECTED, at a sample that fails or after MaxPolls, and
\* at nothing else, whatever the adapter reports (main.c 236-266).
THEOREM WlanVerdictHolds == Spec => []WlanVerdict
<1>1. AppInv => WlanVerdict
  BY DEF AppInv, WlanInv
<1> QED  BY <1>1, AppInvariant, PTL

\* From the menu to the handshake the buffer displayed is the one main prints to
\* (main.c 396, osk.c 133-140).
THEOREM MenuAlwaysVisible == Spec => []MenuVisible
<1>1. AppInv => MenuVisible
  BY DEF AppInv, Settled, BeforeSocket, MenuVisible
<1> QED  BY <1>1, AppInvariant, PTL

\* main reaches its last screen with no socket open (main.c 450-484).
THEOREM SocketAlwaysClosed == Spec => []SocketClosed
<1>1. AppInv => SocketClosed
  BY DEF AppInv, Settled, SocketClosed
<1> QED  BY <1>1, AppInvariant, PTL
=============================================================================
