------------------------------ MODULE Client -------------------------------
(***************************************************************************)
(* src/ssh/client.c: sshe_client_run, from the service request to the end  *)
(* of the session, over the channel that transport.c provides              *)
(* (SecureChannel, which Transport implements).  Every message the client  *)
(* or the server sends is a step of that channel.                          *)
(*                                                                         *)
(* The server is external: an SSH server that follows RFC 4252 and 4254,   *)
(* with one program behind one session channel.  Output is counted in      *)
(* pieces of 32768 bytes, the largest packet the client allows.            *)
(***************************************************************************)
EXTENDS Integers, Sequences, FiniteSets

CONSTANTS
  Modes,        \* "exec" (cmd given, no in_fn) and "shell" (cmd NULL, in_fn = in_line)
  MaxOut,       \* bound: pieces of output the remote program writes
  MaxLines,     \* bound: lines the user types
  NoiseKinds,   \* messages the server may send of its own accord
  MaxNoise,     \* bound: how many of them
  Refusals,     \* requests the server may refuse
  LinkMayFail   \* may the connection be lost?

ASSUME ClientAssumption ==
  /\ Modes \subseteq {"exec", "shell"}
  /\ MaxOut \in Nat /\ MaxLines \in Nat /\ MaxNoise \in Nat
  /\ NoiseKinds \subseteq {"banner", "ignore", "debug", "global", "global_wants_reply",
                           "keepalive", "window_adjust", "extended_data", "kexinit"}
  /\ Refusals \subseteq {"userauth_request", "channel_open", "pty_req", "exec"}
  /\ LinkMayFail \in BOOLEAN

VARIABLES
  mode,     \* the caller's choice
  pc,       \* where sshe_client_run stands
  want,     \* the message expect_msg waits for; "any" in the data pump
  shown,    \* pieces given to out_fn
  fetched,  \* lines in_fn has handed out
  typed,    \* lines the user has typed
  srv,      \* the server, as one record
  link, noise,
  upSent, upRcvd, dnSent, dnRcvd   \* the secure channel

client  == <<mode, pc, want, shown, fetched>>
channel == <<upSent, upRcvd, dnSent, dnRcvd>>
vars    == <<client, typed, srv, link, noise, channel>>

-----------------------------------------------------------------------------
(* Messages and the channel they travel on. *)

Msg(t)  == [type |-> t, n |-> 0]
Data(k) == [type |-> "channel_data", n |-> k]   \* the k-th piece or line

Chan == INSTANCE SecureChannel WITH Payloads <- {}, secured <- TRUE

Send(m)  == Chan!SendUp(m)
Receive  == Chan!RecvDown
Arrived  == Len(dnRcvd) < Len(dnSent)
Incoming == dnSent[Len(dnRcvd) + 1]

\* WIN_SIZE in pieces of 32768 bytes: all the client ever grants.
Window == 131072 \div 32768

-----------------------------------------------------------------------------
(* The opening requests: what is sent at each stage, what answers it.      *)

Stages == {"service_request", "userauth_request", "channel_open", "pty_req", "request"}

Request == [s \in Stages |-> IF s = "request" THEN mode ELSE s]

Answer ==
  [service_request  |-> "service_accept",
   userauth_request |-> "userauth_success",
   channel_open     |-> "channel_open_confirmation",
   pty_req          |-> "channel_success"]

NextStage ==
  [service_accept            |-> "userauth_request",
   userauth_success          |-> "channel_open",
   channel_open_confirmation |-> IF mode = "shell" THEN "pty_req" ELSE "request",
   channel_success           |-> "request"]

Init ==
  /\ mode \in Modes
  /\ pc = "service_request" /\ want = "none"
  /\ shown = 0 /\ fetched = 0 /\ typed = 0
  /\ srv = [at |-> "service", owes |-> <<>>, written |-> 0, input |-> 0, done |-> FALSE,
            client |-> "open", asleep |-> FALSE]
  /\ link = TRUE /\ noise = 0
  /\ upSent = <<>> /\ upRcvd = <<>> /\ dnSent = <<>> /\ dnRcvd = <<>>

-----------------------------------------------------------------------------
(* do_auth and the channel requests. *)

SendRequest ==
  /\ pc \in Stages
  /\ Send(Msg(Request[pc]))
  /\ IF pc = "request"
       THEN pc' = "poll" /\ want' = "any"
       ELSE pc' = "expect" /\ want' = Answer[pc]
  /\ UNCHANGED <<mode, shown, fetched, typed, srv, link, noise>>

\* The send of a request, or of input, fails.
SendFails ==
  /\ pc \in Stages \/ (pc = "input" /\ fetched < typed)
  /\ ~link
  /\ pc' = "error"
  /\ UNCHANGED <<mode, want, shown, fetched, typed, srv, link, noise, channel>>

\* Slip: no banner expected during authentication.
Skipped_NoBanner == {"ignore", "debug", "unimplemented"}

\* expect_msg: the wanted message, or one to skip, or a request to decline.
Skipped == {"banner", "ignore", "debug", "unimplemented"}

ExpectWanted ==
  /\ pc = "expect" /\ Arrived /\ Incoming.type = want
  /\ Receive
  /\ pc' = NextStage[want] /\ want' = "none"
  /\ UNCHANGED <<mode, shown, fetched, typed, srv, link, noise>>

ExpectSkip ==
  /\ pc = "expect" /\ Arrived /\ Incoming.type \in Skipped \cup {"global"}
  /\ Receive
  /\ UNCHANGED <<client, typed, srv, link, noise>>

ExpectGlobal ==
  /\ pc = "expect" /\ Arrived /\ Incoming.type = "global_wants_reply"
  /\ Receive
  /\ pc' = "decline"
  /\ UNCHANGED <<mode, want, shown, fetched, typed, srv, link, noise>>

ExpectUnexpected ==
  /\ pc = "expect" /\ Arrived
  /\ Incoming.type \notin {want, "global", "global_wants_reply"} \cup Skipped
  /\ Receive
  /\ pc' = "error"
  /\ UNCHANGED <<mode, want, shown, fetched, typed, srv, link, noise>>

\* REQUEST_FAILURE, from expect_msg or from the pump; a failed send is ignored.
Decline ==
  /\ pc = "decline"
  /\ Send(Msg("request_failure")) \/ (~link /\ UNCHANGED channel)
  /\ pc' = IF want = "any" THEN "input" ELSE "expect"
  /\ UNCHANGED <<mode, want, shown, fetched, typed, srv, link, noise>>

\* Slip: a connection that ends is taken for a session that ends.
RecvFails_Clean ==
  /\ pc \in {"expect", "poll"} /\ ~link
  /\ pc' = "closed"
  /\ UNCHANGED <<mode, want, shown, fetched, typed, srv, link, noise, channel>>

\* A read or the poll fails.
RecvFails ==
  /\ pc \in {"expect", "poll"} /\ ~link
  /\ pc' = "error"
  /\ UNCHANGED <<mode, want, shown, fetched, typed, srv, link, noise, channel>>

-----------------------------------------------------------------------------
(* The data pump: poll, read at most one packet, then ask in_fn. *)

\* Slip: in_fn asked only after a packet.
PollTimeout_Retry ==
  /\ pc = "poll" /\ ~Arrived
  /\ UNCHANGED vars

PollTimeout ==
  /\ pc = "poll" /\ ~Arrived
  /\ pc' = "input"
  /\ UNCHANGED <<mode, want, shown, fetched, typed, srv, link, noise, channel>>

PumpData ==
  /\ pc = "poll" /\ Arrived /\ Incoming.type = "channel_data"
  /\ Receive
  /\ shown' = shown + 1
  /\ pc' = "input"
  /\ UNCHANGED <<mode, want, fetched, typed, srv, link, noise>>

Ignored == {"window_adjust", "channel_success", "channel_failure", "exit_status",
            "keepalive", "global", "ignore", "debug", "unimplemented"}

PumpIgnored ==
  /\ pc = "poll" /\ Arrived /\ Incoming.type \in Ignored
  /\ Receive
  /\ pc' = "input"
  /\ UNCHANGED <<mode, want, shown, fetched, typed, srv, link, noise>>

\* Slip: want_reply not looked at.
PumpGlobal_Ignored ==
  /\ pc = "poll" /\ Arrived /\ Incoming.type = "global_wants_reply"
  /\ Receive
  /\ pc' = "input"
  /\ UNCHANGED <<mode, want, shown, fetched, typed, srv, link, noise>>

PumpGlobal ==
  /\ pc = "poll" /\ Arrived /\ Incoming.type = "global_wants_reply"
  /\ Receive
  /\ pc' = "decline"
  /\ UNCHANGED <<mode, want, shown, fetched, typed, srv, link, noise>>

PumpEof ==
  /\ pc = "poll" /\ Arrived /\ Incoming.type = "eof"
  /\ Receive
  /\ pc' = "eof"
  /\ UNCHANGED <<mode, want, shown, fetched, typed, srv, link, noise>>

\* Slip: CLOSE sent before EOF.
SendEof_CloseFirst ==
  /\ pc \in {"eof", "close"}
  /\ Send(Msg(IF pc = "eof" THEN "close" ELSE "eof")) \/ (~link /\ UNCHANGED channel)
  /\ pc' = IF pc = "eof" THEN "close" ELSE "closed"
  /\ UNCHANGED <<mode, want, shown, fetched, typed, srv, link, noise>>

\* EOF, then CLOSE, then return 0: failed sends are ignored.
SendEof ==
  /\ pc \in {"eof", "close"}
  /\ Send(Msg(pc)) \/ (~link /\ UNCHANGED channel)
  /\ pc' = IF pc = "eof" THEN "close" ELSE "closed"
  /\ UNCHANGED <<mode, want, shown, fetched, typed, srv, link, noise>>

\* Slip: only EOF ends the session.
PumpClose_Ignored ==
  /\ pc = "poll" /\ Arrived /\ Incoming.type = "close"
  /\ Receive
  /\ pc' = "input"
  /\ UNCHANGED <<mode, want, shown, fetched, typed, srv, link, noise>>

PumpClose ==
  /\ pc = "poll" /\ Arrived /\ Incoming.type = "close"
  /\ Receive
  /\ pc' = "closed"
  /\ UNCHANGED <<mode, want, shown, fetched, typed, srv, link, noise>>

PumpUnexpected ==
  /\ pc = "poll" /\ Arrived
  /\ Incoming.type \notin Ignored \cup {"channel_data", "global_wants_reply", "eof", "close"}
  /\ Receive
  /\ pc' = "error"
  /\ UNCHANGED <<mode, want, shown, fetched, typed, srv, link, noise>>

\* Slip: in_fn hands out a line although none was typed.
InputLine_Unasked ==
  /\ pc = "input" /\ mode = "shell" /\ fetched < MaxLines
  /\ Send(Data(fetched + 1))
  /\ fetched' = fetched + 1
  /\ pc' = "poll"
  /\ UNCHANGED <<mode, want, shown, typed, srv, link, noise>>

\* in_fn has a line, which is sent, or has none.
InputLine ==
  /\ pc = "input" /\ mode = "shell" /\ fetched < typed
  /\ Send(Data(fetched + 1))
  /\ fetched' = fetched + 1
  /\ pc' = "poll"
  /\ UNCHANGED <<mode, want, shown, typed, srv, link, noise>>

NoInput ==
  /\ pc = "input" /\ fetched = typed
  /\ pc' = "poll"
  /\ UNCHANGED <<mode, want, shown, fetched, typed, srv, link, noise, channel>>

UserTypes ==
  /\ mode = "shell" /\ typed < MaxLines /\ pc \in {"poll", "input", "decline"} /\ want = "any"
  /\ typed' = typed + 1
  /\ UNCHANGED <<client, srv, link, noise, channel>>

-----------------------------------------------------------------------------
(* The server (external). *)

Pending == upSent[Len(upRcvd) + 1]

\* At each phase the server takes one request, to which it owes an answer;
\* <<phase, request, phase after, what it owes>>.
Granted ==
  {<<"service", "service_request", "auth", <<"service_accept">>>>,
   <<"auth", "userauth_request", "conn", <<"userauth_success">>>>,
   <<"conn", "channel_open", "channel", <<"channel_open_confirmation">>>>,
   <<"channel", "pty_req", "channel", <<"channel_success">>>>,
   <<"channel", "exec", "running", <<"window_adjust", "channel_success">>>>,
   <<"channel", "shell", "running", <<"window_adjust">>>>}

Refused ==
  {r \in {<<"auth", "userauth_request", "auth", <<"userauth_failure">>>>,
          <<"conn", "channel_open", "conn", <<"channel_open_failure">>>>,
          <<"channel", "pty_req", "channel", <<"channel_failure">>>>,
          <<"channel", "exec", "channel", <<"channel_failure">>>>} : r[2] \in Refusals}

ServerReads == link /\ srv.owes = <<>> /\ Len(upRcvd) < Len(upSent) /\ srv.at # "surprised"

ServerTakes ==
  /\ ServerReads
  /\ Chan!RecvUp
  /\ \E r \in Granted \cup Refused :
       /\ srv.at = r[1] /\ Pending.type = r[2]
       /\ srv' = [srv EXCEPT !.at = r[3], !.owes = r[4]]
  /\ UNCHANGED <<client, typed, link, noise>>

\* Everything else a client may say while a program runs, and after.
Welcome ==
  CASE Pending.type = "request_failure"       -> srv.at \in {"conn", "channel", "running"}
    [] Pending.type \in {"eof", "channel_data"} ->
         srv.at = "running" /\ srv.client = "open"
    [] Pending.type = "close"                 ->
         srv.at = "running" /\ srv.client # "close"
    [] OTHER                                  -> FALSE

ServerNotes ==
  /\ ServerReads
  /\ Chan!RecvUp
  /\ ~ \E r \in Granted : srv.at = r[1] /\ Pending.type = r[2]
  /\ srv' = IF Welcome
              THEN [srv EXCEPT
                     !.input = IF Pending.type = "channel_data" THEN Pending.n ELSE @,
                     !.client = IF Pending.type \in {"eof", "close"} THEN Pending.type ELSE @]
              ELSE [srv EXCEPT !.at = "surprised"]
  /\ UNCHANGED <<client, typed, link, noise>>

ServerAnswers ==
  /\ link /\ srv.owes # <<>>
  /\ Chan!SendDown(Msg(Head(srv.owes)))
  /\ srv' = [srv EXCEPT !.owes = Tail(@)]
  /\ UNCHANGED <<client, typed, link, noise>>

\* The program writes as long as the client's window has room.
ProgramWrites ==
  /\ link /\ srv.at = "running" /\ srv.owes = <<>> /\ ~srv.done /\ ~srv.asleep
  /\ srv.written < MaxOut /\ srv.written < Window
  /\ Chan!SendDown(Data(srv.written + 1))
  /\ srv' = [srv EXCEPT !.written = @ + 1]
  /\ UNCHANGED <<client, typed, link, noise>>

\* It exits when it has written everything; some servers skip EOF.
Endings == {<<"exit_status", "eof", "close">>, <<"eof", "exit_status", "close">>,
            <<"exit_status", "close">>}

ProgramExits ==
  /\ link /\ srv.at = "running" /\ srv.owes = <<>> /\ ~srv.done /\ ~srv.asleep
  /\ srv.written = MaxOut
  /\ \E e \in Endings : srv' = [srv EXCEPT !.done = TRUE, !.owes = e]
  /\ UNCHANGED <<client, typed, link, noise, channel>>

\* A shell at its prompt says nothing more for good.
ShellRests ==
  /\ link /\ srv.at = "running" /\ mode = "shell" /\ ~srv.done /\ ~srv.asleep
  /\ srv' = [srv EXCEPT !.asleep = TRUE]
  /\ UNCHANGED <<client, typed, link, noise, channel>>

\* When a server may send what it need not send.
Timely(k) ==
  CASE k \in {"ignore", "debug"}               -> TRUE
    [] k = "banner"                           -> srv.at = "auth" /\ srv.owes = <<>>
    [] k \in {"global", "global_wants_reply"} ->
         srv.at \in {"conn", "channel", "running"} /\ srv.owes = <<>>
    [] OTHER                                  ->
         srv.at = "running" /\ srv.owes = <<>> /\ ~srv.done

ServerNoise ==
  /\ link /\ noise < MaxNoise /\ srv.at # "surprised"
  /\ \E k \in NoiseKinds : Timely(k) /\ Chan!SendDown(Msg(k))
  /\ noise' = noise + 1
  /\ UNCHANGED <<client, typed, srv, link>>

LinkLost ==
  /\ LinkMayFail /\ link
  /\ link' = FALSE
  /\ UNCHANGED <<client, typed, srv, noise, channel>>

\* SSH_MSG_DISCONNECT, after which the server is gone.
ServerDisconnects ==
  /\ LinkMayFail /\ link
  /\ Chan!SendDown(Msg("disconnect"))
  /\ link' = FALSE
  /\ UNCHANGED <<client, typed, srv, noise>>

-----------------------------------------------------------------------------
ClientStep ==
  \/ SendRequest \/ SendFails \/ RecvFails
  \/ ExpectWanted \/ ExpectSkip \/ ExpectGlobal \/ ExpectUnexpected
  \/ Decline
  \/ PollTimeout \/ PumpData \/ PumpIgnored \/ PumpGlobal \/ PumpEof
  \/ PumpClose \/ PumpUnexpected \/ SendEof
  \/ InputLine \/ NoInput

ServerStep ==
  \/ ServerTakes \/ ServerNotes \/ ServerAnswers

ProgramStep == ProgramWrites \/ ProgramExits

Next ==
  \/ ClientStep
  \/ ServerStep
  \/ ProgramStep
  \/ ShellRests
  \/ UserTypes
  \/ ServerNoise
  \/ ServerDisconnects
  \/ LinkLost

Spec == Init /\ [][Next]_vars

\* The client is one thread that never waits without a timeout in the pump; the
\* server keeps reading and answering, and a program that is not waiting for
\* input goes on to its end.  A connection that was lost is reset at some time,
\* which poll and recv report.
Fairness ==
  /\ WF_vars(ClientStep) /\ WF_vars(ServerStep) /\ WF_vars(ProgramStep)
  /\ SF_vars(RecvFails)
FairSpec == Spec /\ Fairness

-----------------------------------------------------------------------------
(* Correctness. *)

MessageTypes ==
  (Stages \ {"request"}) \cup Modes \cup
  {"request_failure", "channel_data", "eof", "close", "exit_status",
   "service_accept", "userauth_success", "userauth_failure",
   "channel_open_confirmation", "channel_open_failure",
   "channel_success", "channel_failure", "window_adjust", "disconnect"} \cup NoiseKinds
Messages == [type : MessageTypes, n : 0 .. MaxOut + MaxLines]

TypeOK ==
  /\ mode \in Modes
  /\ pc \in Stages \cup {"expect", "decline", "poll", "input", "eof", "close",
                         "closed", "error"}
  /\ want \in {"none", "any", "service_accept", "userauth_success",
               "channel_open_confirmation", "channel_success"}
  /\ shown \in 0 .. MaxOut /\ typed \in 0 .. MaxLines /\ fetched \in 0 .. typed
  /\ srv \in [at : {"service", "auth", "conn", "channel", "running", "surprised"},
              owes : Seq(MessageTypes), written : 0 .. MaxOut, input : 0 .. MaxLines,
              done : BOOLEAN, client : {"open", "eof", "close"},
              asleep : BOOLEAN]
  /\ link \in BOOLEAN /\ noise \in 0 .. MaxNoise
  /\ \A s \in {upSent, upRcvd, dnSent, dnRcvd} : s \in Seq(Messages)

\* Output arrives complete and in order, and 0 means that all of it did
\* (client.c 206-288, client.h 12).
Sess == INSTANCE Session WITH
  written <- srv.written, finished <- srv.done,
  result <- CASE pc \in {"eof", "close", "closed"} -> "0"
              [] pc = "error" -> "-1"
              [] OTHER -> "none"
SessionSpec == Sess!Spec

\* No interleaving of requests, replies, output, input and closing makes the
\* client say something the server's phase does not allow: a request before
\* its predecessor was granted, an answer to nothing, input after its CLOSE.
ServerNeverSurprised == srv.at # "surprised"

\* Every SSH_MSG_GLOBAL_REQUEST that wants a reply gets exactly one
\* REQUEST_FAILURE, in the opening as in the pump (client.c 71-87, 252-266).
Count(s, t) == Cardinality({i \in 1 .. Len(s) : s[i].type = t})
GlobalRequestsAnswered ==
  link => Count(upSent, "request_failure") + (IF pc = "decline" THEN 1 ELSE 0)
            = Count(dnRcvd, "global_wants_reply")

\* -1 is returned only when the connection was lost or the server refused
\* (client.h 12).
WasRefused ==
  \E i \in 1 .. Len(dnRcvd) :
    dnRcvd[i].type \in {"userauth_failure", "channel_open_failure", "channel_failure"}
ErrorHasCause == pc = "error" => ~link \/ WasRefused

\* A program that runs to its end ends the session (client.c 204-289), and the
\* opening ends whatever the server answers (client.c 131-201).
SessionEnds == <>(pc \in {"closed", "error"} \/ srv.asleep)

\* Input is serviced also while the server is idle (comment client.c 204-205) and
\* while it talks: a typed line reaches the server unless the session ends first.
InputServiced ==
  \A k \in 1 .. MaxLines :
    typed >= k ~> srv.input >= k \/ pc \in {"eof", "close", "closed", "error"}
=============================================================================
