---------------------------- MODULE Interactive -----------------------------
(***************************************************************************)
(* An interactive session: sshe_client_run of src/ssh/client.c with the    *)
(* in_line of src/app/main.c as its in_fn, one thread.  While the keyboard *)
(* runs, the pump stands still and the server goes on.                     *)
(*                                                                         *)
(* App and Client are the components, here sharing the turn of the pump;   *)
(* what Client takes for the user's typing is a call of in_line that       *)
(* returns characters.                                                     *)
(***************************************************************************)
EXTENDS Integers, Sequences

CONSTANTS
  MaxPolls, StuckPolls, ConfigFiles, Texts, Lengths, ChunkSize, MaxLines, MaxHeld,  \* App's
  MaxOut, MaxChunks, NoiseKinds, MaxNoise, Refusals, LinkMayFail,                   \* Client's
  SessionButtons    \* bound: the buttons the user touches in a session

VARIABLES
  at, file, cfg, edited, sel, pad, sample, old, caller, dialog, disp, shown,
  wlan, seen, sock, pending, entered, handed, lines, cb,
  pc, want, printed, fetched, typed, srv, link, noise, upSent, upRcvd, dnSent, dnRcvd,
  chunks   \* history: what each call of in_line returned, if anything

appVars    == <<at, file, cfg, edited, sel, pad, sample, old, caller, dialog, disp, shown,
                wlan, seen, sock, pending, entered, handed, lines, cb>>
clientVars == <<pc, want, printed, fetched, typed, srv, link, noise,
                upSent, upRcvd, dnSent, dnRcvd>>
vars       == <<appVars, clientVars, chunks>>

A == INSTANCE App
C == INSTANCE Client WITH
  mode <- "shell", Modes <- {"shell"}, shown <- printed, MaxLines <- MaxChunks

ASSUME InteractiveAssumption == A!AppAssumption /\ C!ClientAssumption

-----------------------------------------------------------------------------
\* main calls sshe_client_run with no command: associated, connected, START just
\* pressed.  The callback thread runs: it need not act, so that nothing is lost.
Init ==
  /\ at = "session" /\ sock = "open"
  /\ wlan = [A!WlanIdle EXCEPT !.at = "done"] /\ seen = <<>>
  /\ file \in {f \in ConfigFiles : f["cmd"] = <<>> /\ f["host"] # <<>> /\ f["user"] # <<>>}
  /\ cfg = A!load_config(file) /\ edited = {}
  /\ sel = 0 /\ sample = {} /\ old = {"START"} /\ pad = {}
  /\ caller = "none" /\ dialog = "NONE"
  /\ disp = "base" /\ shown = "base"
  /\ pending = <<>> /\ entered = <<>> /\ handed = <<>> /\ lines = 0
  /\ cb = TRUE
  /\ C!Init
  /\ chunks = <<>>

\* The pump may call in_line: nothing fetched waits to be sent.
AtInput == at = "session" /\ pc = "input" /\ fetched = typed

\* sshe_client_run up to its next call of in_line, and the sending of what the last
\* one returned.
PumpStep ==
  /\ at = "session" /\ ~AtInput
  /\ C!ClientStep
  /\ UNCHANGED <<appVars, chunks>>

\* in_line returns these characters.
Returned == SubSeq(handed', Len(handed) + 1, Len(handed'))
Returns ==
  /\ C!UserTypes
  /\ chunks' = Append(chunks, Returned)

InLineRest ==
  /\ AtInput
  /\ A!InLineRest
  /\ Returns

\* Slip: the keyboard is asked for although a line is left over, which it replaces.
InLineOsk_Always ==
  /\ AtInput /\ "CROSS" \in pad /\ lines < MaxLines
  /\ at' = "osk" /\ caller' = "session" /\ dialog' = "START"
  /\ UNCHANGED <<file, cfg, edited, sel, pad, sample, old, disp, shown,
                 wlan, seen, sock, pending, entered, handed, lines, cb>>
  /\ UNCHANGED <<clientVars, chunks>>

\* X is held: osk_input runs inside in_line.
InLineOsk ==
  /\ AtInput
  /\ A!InLineOsk
  /\ UNCHANGED <<clientVars, chunks>>

\* Slip: after a dialog that was cancelled, in_line looks at X again.
LineTyped_AsksAgain ==
  /\ A!LineTyped
  /\ IF lines' = lines THEN UNCHANGED <<clientVars, chunks>> ELSE Returns

\* Slip: the pump goes on to its next turn with what a dialog took for it.
LineTyped_PollsFirst ==
  /\ A!LineTyped
  /\ pc' = "poll"
  /\ IF lines' = lines THEN UNCHANGED <<typed, chunks>>
                       ELSE typed' = typed + 1 /\ chunks' = Append(chunks, Returned)
  /\ UNCHANGED <<want, printed, fetched, srv, link, noise, upSent, upRcvd, dnSent, dnRcvd>>

\* The dialog is gone: in_line returns the line, or 0.
LineTyped ==
  /\ A!LineTyped
  /\ IF lines' = lines THEN C!NoInput /\ UNCHANGED chunks ELSE Returns

\* No line and no wish for one (or none left to the user).
NoLine ==
  /\ AtInput /\ pending = <<>> /\ ("CROSS" \notin pad \/ lines = MaxLines)
  /\ C!NoInput
  /\ UNCHANGED <<appVars, chunks>>

SessionReturns ==
  /\ pc \in {"closed", "error"}
  /\ A!SessionReturns
  /\ UNCHANGED <<clientVars, chunks>>

OskFrame == A!OskFrame /\ UNCHANGED <<clientVars, chunks>>

\* Around the thread: the user, the callback, the last screen, and the other end (what
\* else a server may say has nothing to do with in_line).
Hands ==
  /\ A!User /\ pad' \subseteq SessionButtons
  /\ UNCHANGED <<clientVars, chunks>>

Leave ==
  /\ A!Hold \/ A!exit_callback
  /\ UNCHANGED <<clientVars, chunks>>

OtherEnd ==
  /\ C!ServerStep \/ C!ProgramStep \/ C!ShellRests \/ C!LinkLost
  /\ UNCHANGED <<appVars, chunks>>

InLine == InLineRest \/ InLineOsk \/ LineTyped \/ NoLine

Next ==
  \/ PumpStep \/ InLine \/ OskFrame \/ SessionReturns
  \/ Hands \/ Leave
  \/ OtherEnd

\* The thread runs, the user does not leave a dialog open for ever, the other end
\* reads, answers and writes, and a connection that is lost is reset.
DialogMoves == OskFrame /\ dialog' # dialog
Fairness ==
  /\ WF_vars(PumpStep) /\ WF_vars(InLine) /\ WF_vars(DialogMoves)
  /\ WF_vars(C!ServerStep /\ UNCHANGED <<appVars, chunks>>)
  /\ WF_vars(C!ProgramStep /\ UNCHANGED <<appVars, chunks>>)
  /\ SF_vars(PumpStep /\ C!RecvFails)

Spec == Init /\ [][Next]_vars /\ Fairness

-----------------------------------------------------------------------------
(* Correctness. *)

\* What the server has read of the input is what the user entered, from the first
\* character on, with no line lost, doubled, split wrongly or overtaken, although
\* a line may take several turns of the pump and X may be pressed meanwhile.
Flat[k \in 0 .. MaxChunks] == IF k = 0 THEN <<>> ELSE Flat[k - 1] \o chunks[k]
TypedReachesServer ==
  LET got == Flat[srv.input] IN
  Len(got) <= Len(entered) /\ got = SubSeq(entered, 1, Len(got))

\* A session the server ends cleanly, which main reports as "session closed", has
\* sent all it took from the user, also when the server closed during a dialog: the
\* line goes out in the turn that took it, before the pump reads on.  Only the rest
\* of a line that did not fit the buffer stays behind (client.c 206-288, main.c
\* 317-324).
Sent == {upSent[i].n : i \in {j \in 1 .. Len(upSent) : upSent[j].type = "channel_data"}}
CloseLosesNothing ==
  pc \in {"eof", "close", "closed"} =>
    /\ 1 .. Len(chunks) \subseteq Sent
    /\ Flat[Len(chunks)] \o pending = entered

Over == at \in {"hold", "exited"} \/ pc \in {"eof", "close", "closed", "error"}

\* X held down brings up the keyboard although in_line looks at it only once a turn:
\* whether the server talks, is idle or has stopped answering, and whatever is left of
\* the line before, the pump comes round to it (main.c 304-307, client.c 204-207).
KeyboardOpens ==
  "CROSS" \in pad ~> at = "osk" \/ "CROSS" \notin pad \/ lines = MaxLines \/ Over

\* Neither direction starves the other, also when the user holds X and so opens one
\* dialog after the other: in_line returns after each, and the pump reads a packet
\* before it asks again, so that what the program writes is printed; and what was
\* entered is sent on to the last character (main.c 304-325, client.c 206-288).
Caught == pending = <<>> /\ srv.input = typed
NeitherStarves ==
  /\ \A k \in 1 .. MaxOut : srv.written >= k ~> printed >= k \/ Over
  /\ \A k \in 1 .. MaxLines : lines >= k ~> Caught \/ Over
=============================================================================
