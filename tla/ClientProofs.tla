---------------------------- MODULE ClientProofs ----------------------------
(***************************************************************************)
(* Client: its types, that the server is never surprised, that every       *)
(* global request is answered, that -1 has a cause, and that it implements *)
(* Session - for every amount of output and input, every set of messages   *)
(* the server may interject and of requests it may refuse.                 *)
(***************************************************************************)
EXTENDS Client, TLAPS, FiniteSetTheorems

-----------------------------------------------------------------------------
(* What is on its way. *)

UpComing == Len(upRcvd) + 1 .. Len(upSent)
DnComing == Len(dnRcvd) + 1 .. Len(dnSent)
Up(i) == upSent[i].type
Dn(i) == dnSent[i].type

Opening == Stages \ {"request"}
Asking  == Opening \cup {"exec", "shell"}   \* as the messages are called

\* The server's phase at which it takes a request, and the one it goes on to.
Phase ==
  [service_request |-> "service", userauth_request |-> "auth", channel_open |-> "conn",
   pty_req |-> "channel", request |-> "channel", exec |-> "channel", shell |-> "channel"]
Granting ==
  [service_request |-> "auth", userauth_request |-> "conn", channel_open |-> "channel",
   pty_req |-> "channel"]
Failure ==
  [service_request |-> "none", userauth_request |-> "userauth_failure",
   channel_open |-> "channel_open_failure", pty_req |-> "channel_failure"]

Failures == {"userauth_failure", "channel_open_failure", "channel_failure"}
Replies  == {Answer[s] : s \in Opening} \cup Failures

\* Messages only a program's server sends.
OfPrograms == {"channel_data", "eof", "close", "exit_status", "window_adjust", "keepalive",
               "extended_data", "kexinit"}

NoRequest == \A i \in UpComing : Up(i) \notin Asking
NoReply   == \A i \in DnComing : Dn(i) \notin Replies

\* What a server may owe: the rest of an answer or of an ending.
Debts ==
  {<<>>} \cup {<<r>> : r \in Replies \cup {"window_adjust", "close"}} \cup
  {<<"window_adjust", "channel_success">>, <<"eof", "close">>,
   <<"exit_status", "eof", "close">>, <<"eof", "exit_status", "close">>,
   <<"exit_status", "close">>}
Owes(t) == \E i \in 1 .. Len(srv.owes) : srv.owes[i] = t

-----------------------------------------------------------------------------
(* The inductive invariant. *)

StateTyped ==
  /\ mode \in Modes
  /\ pc \in Stages \cup {"expect", "decline", "poll", "input", "eof", "close",
                         "closed", "error"}
  /\ want \in {"none", "any"} \cup {Answer[s] : s \in Opening}
  /\ shown \in Nat /\ typed \in 0 .. MaxLines /\ fetched \in 0 .. typed
  /\ srv \in [at : {"service", "auth", "conn", "channel", "running"},
              owes : Debts, written : 0 .. MaxOut, input : 0 .. MaxLines,
              done : BOOLEAN, client : {"open", "eof", "close"},
              asleep : BOOLEAN]
  /\ link \in BOOLEAN /\ noise \in 0 .. MaxNoise

ChannelTyped ==
  /\ upSent \in Seq(Messages) /\ upRcvd \in Seq(Messages) /\ Len(upRcvd) <= Len(upSent)
  /\ dnSent \in Seq(Messages) /\ dnRcvd \in Seq(Messages) /\ Len(dnRcvd) <= Len(dnSent)
  /\ \A i \in 1 .. Len(upSent) : Up(i) = "channel_data" => upSent[i].n <= MaxLines

Typed == StateTyped /\ ChannelTyped

\* Whatever is on its way to the server will be welcome when it is read.
UpWelcome ==
  /\ \A i \in UpComing :
       /\ Up(i) \in Asking \cup {"request_failure", "channel_data", "eof", "close"}
       /\ Up(i) \in Asking =>
            /\ srv.at = Phase[Up(i)] /\ srv.owes = <<>>
            /\ \A j \in UpComing : j < i => Up(j) = "request_failure"
       /\ Up(i) = "request_failure" => srv.at \in {"conn", "channel", "running"}
       /\ Up(i) = "channel_data" =>
            /\ mode = "shell" /\ srv.client = "open"
            /\ srv.at = "running" \/ \E j \in UpComing : j < i /\ Up(j) = "shell"
       /\ Up(i) = "eof"   => srv.at = "running" /\ srv.client = "open"
       /\ Up(i) = "close" => srv.at = "running" /\ srv.client # "close"
  /\ \A i, j \in UpComing : i < j =>
       /\ Up(j) \in {"eof", "channel_data"} => Up(i) \notin {"eof", "close"}
       /\ Up(j) = "close" => Up(i) # "close"

\* Requests and answers alternate: the request is on its way, or the server owes
\* the answer, or the answer is on its way.
Awaited(s) ==
  \/ /\ \E i \in UpComing : Up(i) = s
     /\ NoReply
  \/ /\ NoRequest /\ NoReply
     /\ \/ srv.owes = <<Answer[s]>> /\ srv.at = Granting[s]
        \/ srv.owes = <<Failure[s]>> /\ srv.at = Phase[s]
  \/ /\ NoRequest /\ srv.owes = <<>>
     /\ \E i \in DnComing :
          /\ \A j \in DnComing : Dn(j) \in Replies => j = i
          /\ \/ Dn(i) = Answer[s] /\ srv.at = Granting[s]
             \/ Dn(i) = Failure[s] /\ srv.at = Phase[s]

Alternating ==
  /\ pc \in Stages =>
       /\ want = "none" /\ srv.at = Phase[pc] /\ srv.owes = <<>> /\ NoRequest /\ NoReply
       /\ pc = "pty_req" => mode = "shell"
  /\ \A s \in Opening :
       pc \in {"expect", "decline"} /\ want = Answer[s] =>
         Awaited(s) /\ (s = "pty_req" => mode = "shell")
  /\ pc = "expect" => want \in {Answer[s] : s \in Opening}
  /\ pc = "decline" => want # "none"
  /\ pc \in {"poll", "input", "eof", "close", "closed"} => want = "any"
  /\ \A i \in UpComing : Up(i) \in Opening => want = Answer[Up(i)]

\* Once the program is asked for.
Asked ==
  /\ want = "any" =>
       /\ srv.at = "running" \/ (srv.at = "channel" /\ mode = "exec")
          \/ \E i \in UpComing : Up(i) = mode
       /\ \A i \in DnComing : Dn(i) \in Replies => Dn(i) \in {"channel_success", "channel_failure"}
       /\ \A t \in Replies : Owes(t) => t \in {"channel_success", "channel_failure"}
  /\ srv.at = "running" => want = "any"
  /\ \A i \in UpComing : Up(i) \in {"exec", "shell"} => want = "any" /\ Up(i) = mode
  /\ pc = "decline" => srv.at \in {"conn", "channel", "running"}
  /\ pc \in Stages \cup {"expect", "decline", "poll", "input", "eof"} =>
       srv.client = "open" /\ \A i \in UpComing : Up(i) \notin {"eof", "close"}
  /\ pc = "close" => srv.client # "close" /\ \A i \in UpComing : Up(i) # "close"
  /\ pc \in {"eof", "close"} => srv.at = "running"

\* What comes down comes at its time.
DnTimely ==
  /\ srv.done => srv.at = "running"
  /\ srv.at # "running" =>
       /\ \A i \in DnComing : Dn(i) \notin OfPrograms
       /\ \A t \in OfPrograms : ~Owes(t)
  /\ Owes("eof") \/ Owes("close") => srv.done
  /\ \A i \in DnComing :
       /\ Dn(i) \in Replies \cup OfPrograms \cup Skipped \cup
                    {"global", "global_wants_reply", "disconnect"}
       /\ Dn(i) \in {"eof", "close"} => srv.done
       /\ Dn(i) \in {"eof", "close"} => \A j \in DnComing : Dn(j) = "channel_data" => j < i
       /\ Dn(i) = "global_wants_reply" => srv.at \in {"conn", "channel", "running"}
       /\ Dn(i) = "disconnect" => ~link

\* Banners come while the client authenticates.
Authenticating == want \in {"service_accept", "userauth_success"} \/ pc = "userauth_request"
BannersEarly ==
  /\ srv.at = "auth" /\ pc # "error" => Authenticating
  /\ \A i \in DnComing : Dn(i) = "banner" /\ pc # "error" =>
       Authenticating /\ \A j \in DnComing : Dn(j) = "userauth_success" => i < j

\* Output comes down complete and in order.
OutputInOrder ==
  /\ shown <= srv.written
  /\ \A i \in DnComing : Dn(i) = "channel_data" => dnSent[i].n \in shown + 1 .. srv.written
  /\ \A i, j \in DnComing :
       Dn(i) = "channel_data" /\ Dn(j) = "channel_data" /\ i < j => dnSent[i].n < dnSent[j].n
  /\ \A k \in shown + 1 .. srv.written :
       \E i \in DnComing : Dn(i) = "channel_data" /\ dnSent[i].n = k

\* -1 has a cause, if it is only one the client cannot do without.
Lacked == {"extended_data", "kexinit"}
ErrorCaused ==
  pc = "error" =>
    ~link \/ WasRefused \/ \E i \in 1 .. Len(dnRcvd) : dnRcvd[i].type \in Lacked

Inv ==
  /\ Typed /\ UpWelcome /\ Alternating /\ Asked /\ DnTimely /\ BannersEarly
  /\ OutputInOrder /\ ErrorCaused

-----------------------------------------------------------------------------
(* The channel's steps, as seen by what is on its way. *)

\* What is on its way lies within what was sent.
LEMMA Coming ==
  ASSUME Typed
  PROVE  /\ Len(upSent) \in Nat /\ Len(upRcvd) \in Nat /\ UpComing \subseteq 1 .. Len(upSent)
         /\ Len(dnSent) \in Nat /\ Len(dnRcvd) \in Nat /\ DnComing \subseteq 1 .. Len(dnSent)
         /\ \A i \in 1 .. Len(upSent) : upSent[i] \in Messages
         /\ \A i \in 1 .. Len(dnSent) : dnSent[i] \in Messages
  BY DEF Typed, ChannelTyped, UpComing, DnComing

\* A request goes to the end of the client's stream.
LEMMA SendUp ==
  ASSUME Typed, NEW m \in Messages, Send(m)
  PROVE  /\ UNCHANGED <<upRcvd, dnSent, dnRcvd>>
         /\ UpComing' = UpComing \cup {Len(upSent) + 1} /\ DnComing' = DnComing
         /\ Len(upSent') = Len(upSent) + 1
         /\ \A i \in UpComing : i < Len(upSent) + 1
         /\ \A i \in 1 .. Len(upSent) : upSent'[i] = upSent[i]
         /\ upSent'[Len(upSent) + 1] = m
         /\ (m.type = "channel_data" => m.n <= MaxLines) => ChannelTyped'
<1>1. /\ upSent' = Append(upSent, m) /\ UNCHANGED <<upRcvd, dnSent, dnRcvd>>
  BY DEF Send, Chan!SendUp
<1>2. /\ upSent' \in Seq(Messages) /\ Len(upSent') = Len(upSent) + 1
      /\ \A i \in 1 .. Len(upSent) : upSent'[i] = upSent[i]
      /\ upSent'[Len(upSent) + 1] = m
  BY <1>1 DEF Typed, ChannelTyped
<1>3. Len(upSent) \in Nat /\ Len(upRcvd) \in Nat /\ Len(upRcvd) <= Len(upSent)
  BY DEF Typed, ChannelTyped
<1>4. (m.type = "channel_data" => m.n <= MaxLines) => ChannelTyped'
  BY <1>1, <1>2, <1>3 DEF Typed, ChannelTyped, Up
<1> QED  BY <1>1, <1>2, <1>3, <1>4 DEF UpComing, DnComing

\* The client takes the first of the server's messages on their way.
LEMMA RecvDown ==
  ASSUME Typed, Receive
  PROVE  /\ Len(dnRcvd) + 1 \in DnComing /\ Incoming \in Messages
         /\ UNCHANGED <<upSent, upRcvd, dnSent>>
         /\ DnComing' = DnComing \ {Len(dnRcvd) + 1} /\ UpComing' = UpComing
         /\ \A i \in DnComing' : i > Len(dnRcvd) + 1
         /\ Len(dnRcvd') = Len(dnRcvd) + 1
         /\ \A i \in 1 .. Len(dnRcvd) : dnRcvd'[i] = dnRcvd[i]
         /\ dnRcvd'[Len(dnRcvd) + 1] = Incoming
         /\ Dn(Len(dnRcvd) + 1) = Incoming.type
         /\ ChannelTyped'
<1>1. /\ Len(dnRcvd) < Len(dnSent) /\ UNCHANGED <<upSent, upRcvd, dnSent>>
      /\ dnRcvd' = Append(dnRcvd, Incoming)
  BY DEF Receive, Chan!RecvDown, Incoming
<1>2. /\ Len(dnSent) \in Nat /\ Len(dnRcvd) \in Nat /\ Len(dnRcvd) + 1 \in 1 .. Len(dnSent)
  BY <1>1 DEF Typed, ChannelTyped
<1>3. Incoming \in Messages
  BY <1>2 DEF Incoming, Typed, ChannelTyped
<1>4. /\ dnRcvd' \in Seq(Messages) /\ Len(dnRcvd') = Len(dnRcvd) + 1
      /\ \A i \in 1 .. Len(dnRcvd) : dnRcvd'[i] = dnRcvd[i]
      /\ dnRcvd'[Len(dnRcvd) + 1] = Incoming
  BY <1>1, <1>3 DEF Typed, ChannelTyped
<1>5. Dn(Len(dnRcvd) + 1) = Incoming.type
  BY DEF Dn, Incoming
<1>6. ChannelTyped'
  BY <1>1, <1>2, <1>4 DEF Typed, ChannelTyped, Up
<1> QED  BY <1>1, <1>2, <1>3, <1>4, <1>5, <1>6 DEF UpComing, DnComing

\* The server takes the first of the client's.
LEMMA RecvUp ==
  ASSUME Typed, Chan!RecvUp
  PROVE  /\ Len(upRcvd) + 1 \in UpComing /\ Pending \in Messages
         /\ UNCHANGED <<upSent, dnSent, dnRcvd>>
         /\ UpComing' = UpComing \ {Len(upRcvd) + 1} /\ DnComing' = DnComing
         /\ \A i \in UpComing' : i > Len(upRcvd) + 1
         /\ Up(Len(upRcvd) + 1) = Pending.type
         /\ ChannelTyped'
<1>1. /\ Len(upRcvd) < Len(upSent) /\ UNCHANGED <<upSent, dnSent, dnRcvd>>
      /\ upRcvd' = Append(upRcvd, Pending)
  BY DEF Chan!RecvUp, Pending
<1>2. /\ Len(upSent) \in Nat /\ Len(upRcvd) \in Nat /\ Len(upRcvd) + 1 \in 1 .. Len(upSent)
  BY <1>1 DEF Typed, ChannelTyped
<1>3. Pending \in Messages
  BY <1>2 DEF Pending, Typed, ChannelTyped
<1>4. upRcvd' \in Seq(Messages) /\ Len(upRcvd') = Len(upRcvd) + 1
  BY <1>1, <1>3 DEF Typed, ChannelTyped
<1>5. Up(Len(upRcvd) + 1) = Pending.type
  BY DEF Up, Pending
<1>6. ChannelTyped'
  BY <1>1, <1>2, <1>4 DEF Typed, ChannelTyped, Up
<1> QED  BY <1>1, <1>2, <1>3, <1>4, <1>5, <1>6 DEF UpComing, DnComing

\* A message goes to the end of the server's stream.
LEMMA SendDown ==
  ASSUME Typed, NEW m \in Messages, Chan!SendDown(m)
  PROVE  /\ UNCHANGED <<upSent, upRcvd, dnRcvd>>
         /\ DnComing' = DnComing \cup {Len(dnSent) + 1} /\ UpComing' = UpComing
         /\ \A i \in DnComing : i < Len(dnSent) + 1
         /\ \A i \in 1 .. Len(dnSent) : dnSent'[i] = dnSent[i]
         /\ dnSent'[Len(dnSent) + 1] = m
         /\ ChannelTyped'
<1>1. /\ dnSent' = Append(dnSent, m) /\ UNCHANGED <<upSent, upRcvd, dnRcvd>>
  BY DEF Chan!SendDown
<1>2. /\ dnSent' \in Seq(Messages) /\ Len(dnSent') = Len(dnSent) + 1
      /\ \A i \in 1 .. Len(dnSent) : dnSent'[i] = dnSent[i]
      /\ dnSent'[Len(dnSent) + 1] = m
  BY <1>1 DEF Typed, ChannelTyped
<1>3. Len(dnSent) \in Nat /\ Len(dnRcvd) \in Nat /\ Len(dnRcvd) <= Len(dnSent)
  BY DEF Typed, ChannelTyped
<1>4. ChannelTyped'
  BY <1>1, <1>2, <1>3 DEF Typed, ChannelTyped, Up
<1> QED  BY <1>1, <1>2, <1>3, <1>4 DEF UpComing, DnComing

-----------------------------------------------------------------------------
(* Names. *)

\* The tables of stages, requests and replies, spelt out for the provers.
LEMMA Names ==
  /\ Opening = {"service_request", "userauth_request", "channel_open", "pty_req"}
  /\ Stages = Opening \cup {"request"}
  /\ Replies = {"service_accept", "userauth_success", "channel_open_confirmation",
                "channel_success", "userauth_failure", "channel_open_failure",
                "channel_failure"}
  /\ Answer["service_request"] = "service_accept"
  /\ Answer["userauth_request"] = "userauth_success"
  /\ Answer["channel_open"] = "channel_open_confirmation"
  /\ Answer["pty_req"] = "channel_success"
  /\ Failure["service_request"] = "none"
  /\ Failure["userauth_request"] = "userauth_failure"
  /\ Failure["channel_open"] = "channel_open_failure"
  /\ Failure["pty_req"] = "channel_failure"
  /\ Phase["service_request"] = "service" /\ Phase["userauth_request"] = "auth"
  /\ Phase["channel_open"] = "conn" /\ Phase["pty_req"] = "channel"
  /\ Phase["request"] = "channel" /\ Phase["exec"] = "channel" /\ Phase["shell"] = "channel"
  /\ Granting["service_request"] = "auth" /\ Granting["userauth_request"] = "conn"
  /\ Granting["channel_open"] = "channel" /\ Granting["pty_req"] = "channel"
<1>1. Opening = {"service_request", "userauth_request", "channel_open", "pty_req"}
  BY DEF Opening, Stages
<1> QED  BY <1>1 DEF Stages, Replies, Failures, Answer, Failure, Phase, Granting

\* The stage behind each answer.
LEMMA StageNames ==
  /\ NextStage["service_accept"] = "userauth_request"
  /\ NextStage["userauth_success"] = "channel_open"
  /\ NextStage["channel_open_confirmation"] = IF mode = "shell" THEN "pty_req" ELSE "request"
  /\ NextStage["channel_success"] = "request"
  /\ \A s \in Opening : Request[s] = s
  /\ Request["request"] = mode
  BY DEF NextStage, Request, Stages, Opening

\* The messages the model is written with are messages.
LEMMA MessageForms ==
  /\ \A s \in Opening \cup Modes \cup {"request_failure", "eof", "close", "disconnect"} \cup NoiseKinds :
       Msg(s) \in Messages /\ Msg(s).type = s
  /\ \A k \in 1 .. MaxOut + MaxLines :
       Data(k) \in Messages /\ Data(k).type = "channel_data" /\ Data(k).n = k
<1>1. 0 \in 0 .. MaxOut + MaxLines /\ \A k \in 1 .. MaxOut + MaxLines : k \in 0 .. MaxOut + MaxLines
  BY ClientAssumption
<1> QED  BY <1>1 DEF Msg, Data, Messages, MessageTypes, Opening

-----------------------------------------------------------------------------
(* What a step leaves alone. *)

\* Steps that move no output keep it in order.
LEMMA OutputKept ==
  ASSUME OutputInOrder, UNCHANGED <<dnSent, dnRcvd, shown>>, srv'.written = srv.written
  PROVE  OutputInOrder'
  BY DEF OutputInOrder, Dn, DnComing

-----------------------------------------------------------------------------
(* The opening. *)

\* A request of the opening, or the one for a program (client.c 58-201).
LEMMA SendRequestKeeps ==
  ASSUME Inv, SendRequest
  PROVE  Inv'
<1> DEFINE new == Len(upSent) + 1
           m == Msg(Request[pc])
<1>1. /\ pc \in Stages /\ Send(m)
      /\ IF pc = "request" THEN pc' = "poll" /\ want' = "any"
                           ELSE pc' = "expect" /\ want' = Answer[pc]
      /\ UNCHANGED <<mode, shown, fetched, typed, srv, link, noise>>
  BY DEF SendRequest
<1>2. Typed /\ mode \in {"exec", "shell"} /\ mode \in Modes
  BY ClientAssumption DEF Inv, Typed, StateTyped
<1>3. /\ m.type = (IF pc = "request" THEN mode ELSE pc) /\ m \in Messages
      /\ m.type \in Asking /\ srv.at = Phase[m.type]
  BY <1>1, <1>2, Names, StageNames, MessageForms DEF Inv, Alternating, Asking
<1>4. /\ want = "none" /\ srv.at = Phase[pc] /\ srv.owes = <<>> /\ NoRequest /\ NoReply
      /\ pc = "pty_req" => mode = "shell"
  BY <1>1 DEF Inv, Alternating
<1> HIDE DEF m
<1>5. Typed'
  <2>1. StateTyped'
    BY <1>1, <1>2, Names DEF Typed, StateTyped
  <2> QED  BY <1>1, <1>2, <1>3, <2>1, SendUp, Names DEF Typed, Asking
<1>6. UpWelcome'
  <2>1. \A j \in UpComing : Up(j) = "request_failure"
    BY <1>1, <1>4, Names DEF Inv, UpWelcome, Asked, NoRequest, Asking
  <2>2. \A i \in UpComing' : Up(i)' \in {"request_failure", m.type}
    BY <1>1, <1>2, <1>3, <2>1, SendUp, Coming DEF Up
  <2>3. \A i, j \in UpComing' : j < i => Up(j)' = "request_failure"
    BY <1>1, <1>2, <1>3, <2>1, SendUp, Coming DEF Up
  <2>4. m.type \notin {"request_failure", "channel_data", "eof", "close"}
    BY <1>3, Names DEF Asking
  <2>5. \A i \in UpComing : srv.at \in {"conn", "channel", "running"}
    BY <2>1 DEF Inv, UpWelcome
  <2>6. \A i \in UpComing' : Up(i)' = "request_failure" => i \in UpComing
    BY <1>1, <1>2, <1>3, <2>4, SendUp DEF Up
  <2>7. "request_failure" \notin Asking /\ srv' = srv
    BY <1>1, Names DEF Asking
  <2>8. ASSUME NEW i \in UpComing'
        PROVE  /\ Up(i)' \in Asking \cup {"request_failure"}
               /\ Up(i)' \in Asking => Up(i)' = m.type
               /\ Up(i)' = "request_failure" => srv.at \in {"conn", "channel", "running"}
    BY <1>3, <2>2, <2>5, <2>6, <2>7
  <2>9. \A i \in UpComing' : Up(i)' \notin {"eof", "close", "channel_data"}
    BY <2>2, <2>4
  <2> QED  BY <1>3, <1>4, <2>3, <2>7, <2>8, <2>9 DEF UpWelcome
<1>7. Alternating'
  BY <1>1, <1>2, <1>3, <1>4, SendUp, Coming, Names DEF Inv, Alternating, Awaited, Up, NoReply, Dn
<1>8. Asked'
  BY <1>1, <1>2, <1>3, <1>4, SendUp, Coming, Names DEF Inv, Asked, Up, Dn, Owes, NoReply
<1>9. DnTimely'
  BY <1>1, <1>2, <1>3, SendUp, Coming DEF Inv, DnTimely, Dn, Owes
<1>10. BannersEarly'
  BY <1>1, <1>2, <1>3, <1>4, SendUp, Coming, Names DEF Inv, BannersEarly, Authenticating, Dn
<1>11. OutputInOrder'
  BY <1>1, <1>2, <1>3, SendUp, OutputKept DEF Inv
<1>12. ErrorCaused'
  BY <1>1, Names DEF ErrorCaused
<1> QED  BY <1>5, <1>6, <1>7, <1>8, <1>9, <1>10, <1>11, <1>12 DEF Inv

\* What receiving a message disturbs of the invariant, whatever the client makes of it.
LEMMA Received ==
  ASSUME Inv, Receive, UNCHANGED <<mode, srv, link>>
  PROVE  /\ UpWelcome' /\ DnTimely'
         /\ Incoming.type # "channel_data" /\ shown' = shown => OutputInOrder'
         /\ NoReply => NoReply'
         /\ (NoRequest' <=> NoRequest)
<1>1. Typed
  BY DEF Inv
<1>2. UpWelcome' /\ (NoRequest' <=> NoRequest)
  BY <1>1, RecvDown DEF Inv, UpWelcome, Up, NoRequest
<1>3. DnTimely'
  BY <1>1, RecvDown DEF Inv, DnTimely, Dn, Owes
<1>4. ASSUME Incoming.type # "channel_data", shown' = shown
      PROVE  OutputInOrder'
  <2>1. \A i \in DnComing : Dn(i) = "channel_data" => i \in DnComing'
    BY <1>1, <1>4, RecvDown
  <2>2. DnComing' \subseteq DnComing /\ dnSent' = dnSent
    BY <1>1, RecvDown
  <2> QED  BY <1>4, <2>1, <2>2 DEF Inv, OutputInOrder, Dn
<1>5. NoReply => NoReply'
  BY <1>1, RecvDown DEF NoReply, Dn
<1> QED  BY <1>2, <1>3, <1>4, <1>5

\* An answer that is awaited stays so while other messages come.
LEMMA AwaitedKept ==
  ASSUME Inv, Receive, UNCHANGED <<mode, srv, link>>, Incoming.type \notin Replies,
         NEW s \in Opening, Awaited(s)
  PROVE  Awaited(s)'
<1>1. Typed
  BY DEF Inv
<1>2. /\ NoReply => NoReply'
      /\ NoRequest' <=> NoRequest
      /\ UpComing' = UpComing /\ upSent' = upSent
  BY <1>1, Received, RecvDown
<1>3. CASE (\E i \in UpComing : Up(i) = s) /\ NoReply
  BY <1>2, <1>3 DEF Awaited, Up
<1>4. CASE /\ NoRequest /\ NoReply
           /\ \/ srv.owes = <<Answer[s]>> /\ srv.at = Granting[s]
              \/ srv.owes = <<Failure[s]>> /\ srv.at = Phase[s]
  BY <1>2, <1>4 DEF Awaited
<1>5. ASSUME NoRequest, srv.owes = <<>>,
             NEW i \in DnComing, \A j \in DnComing : Dn(j) \in Replies => j = i,
             \/ Dn(i) = Answer[s] /\ srv.at = Granting[s]
             \/ Dn(i) = Failure[s] /\ srv.at = Phase[s]
      PROVE  Awaited(s)'
  <2>1. i # Len(dnRcvd) + 1
    BY <1>1, <1>5, RecvDown, Names DEF Inv, DnTimely, Skipped, OfPrograms
  <2>2. i \in DnComing' /\ DnComing' \subseteq DnComing /\ dnSent' = dnSent
    BY <1>1, <2>1, RecvDown
  <2>3. \A j \in DnComing' : Dn(j)' \in Replies => j = i
    BY <1>5, <2>2 DEF Dn
  <2> QED  BY <1>2, <1>5, <2>2, <2>3 DEF Awaited, Dn
<1> QED  BY <1>3, <1>4, <1>5 DEF Awaited

\* The reply that was waited for.
LEMMA ExpectWantedKeeps ==
  ASSUME Inv, ExpectWanted
  PROVE  Inv'
<1>1. /\ pc = "expect" /\ Receive /\ Incoming.type = want
      /\ pc' = NextStage[want] /\ want' = "none"
      /\ UNCHANGED <<mode, shown, fetched, typed, srv, link, noise>>
  BY DEF ExpectWanted
<1>2. Typed /\ mode \in {"exec", "shell"}
  BY ClientAssumption DEF Inv, Typed, StateTyped
<1>3. PICK s \in Opening : want = Answer[s]
  BY <1>1 DEF Inv, Alternating
<1>4. Awaited(s) /\ (s = "pty_req" => mode = "shell")
  BY <1>1, <1>3 DEF Inv, Alternating
<1>5. /\ NoRequest /\ srv.owes = <<>> /\ srv.at = Granting[s]
      /\ \A j \in DnComing : Dn(j) \in Replies => j = Len(dnRcvd) + 1
  BY <1>1, <1>2, <1>3, <1>4, RecvDown, Names DEF Awaited, NoReply
<1>6. /\ pc' \in Stages /\ srv.at = Phase[pc'] /\ (pc' = "pty_req" => mode = "shell")
      /\ s = "service_request" => pc' = "userauth_request"
      /\ s # "service_request" => srv.at # "auth"
  BY <1>1, <1>2, <1>3, <1>5, Names, StageNames
<1>7. NoReply' /\ NoRequest'
  BY <1>1, <1>2, <1>5, RecvDown, Received DEF NoReply, Dn
<1>8. Typed'
  BY <1>1, <1>2, <1>6, RecvDown DEF Typed, StateTyped
<1>9. Alternating'
  BY <1>1, <1>5, <1>6, <1>7, Names DEF Alternating, NoRequest, Asking
<1>10. Asked'
  BY <1>1, <1>2, <1>3, <1>6, <1>7, RecvDown, Names DEF Inv, Asked, Up, NoRequest, Asking
<1>11. BannersEarly'
  <2>1. s = "userauth_request" => \A i \in DnComing : Dn(i) # "banner"
    BY <1>1, <1>2, <1>3, RecvDown, Coming, Names DEF Inv, BannersEarly, DnComing
  <2>2. s \notin {"service_request", "userauth_request"} => ~Authenticating
    BY <1>1, <1>3, Names DEF Authenticating
  <2>3. s # "service_request" => \A i \in DnComing' : Dn(i)' # "banner"
    BY <1>1, <1>2, <2>1, <2>2, RecvDown DEF Inv, BannersEarly, Dn
  <2>4. \A j \in DnComing' : Dn(j)' # "userauth_success"
    BY <1>7, Names DEF NoReply
  <2> QED  BY <1>1, <1>6, <2>3, <2>4 DEF BannersEarly, Authenticating
<1>12. ErrorCaused'
  BY <1>6, Names DEF ErrorCaused
<1> QED  BY <1>1, <1>3, <1>8, <1>9, <1>10, <1>11, <1>12, Names, Received DEF Inv

\* A message that expect_msg reads past.
LEMMA ExpectSkipKeeps ==
  ASSUME Inv, ExpectSkip
  PROVE  Inv'
<1>1. /\ pc = "expect" /\ Receive /\ Incoming.type \in Skipped \cup {"global"}
      /\ UNCHANGED <<mode, pc, want, shown, fetched, typed, srv, link, noise>>
  BY DEF ExpectSkip, client
<1>2. Typed /\ Incoming.type \notin Replies /\ Incoming.type # "channel_data"
  BY <1>1, Names DEF Inv, Skipped
<1>3. Typed'
  BY <1>1, <1>2, RecvDown DEF Typed, StateTyped
<1>4. Alternating'
  BY <1>1, <1>2, AwaitedKept, Received, RecvDown, Names DEF Inv, Alternating, Up
<1>5. Asked'
  BY <1>1, <1>2, RecvDown DEF Inv, Asked, Up, Dn, Owes
<1>6. BannersEarly'
  BY <1>1, <1>2, RecvDown DEF Inv, BannersEarly, Authenticating, Dn
<1>7. ErrorCaused'
  BY <1>1 DEF ErrorCaused
<1> QED  BY <1>1, <1>2, <1>3, <1>4, <1>5, <1>6, <1>7, Received DEF Inv

\* A global request met while waiting.
LEMMA ExpectGlobalKeeps ==
  ASSUME Inv, ExpectGlobal
  PROVE  Inv'
<1>1. /\ pc = "expect" /\ Receive /\ Incoming.type = "global_wants_reply" /\ pc' = "decline"
      /\ UNCHANGED <<mode, want, shown, fetched, typed, srv, link, noise>>
  BY DEF ExpectGlobal
<1>2. Typed /\ Incoming.type \notin Replies /\ Incoming.type # "channel_data"
  BY <1>1, Names DEF Inv
<1>3. Typed'
  BY <1>1, <1>2, RecvDown DEF Typed, StateTyped
<1>4. Alternating'
  BY <1>1, <1>2, AwaitedKept, Received, RecvDown, Names DEF Inv, Alternating, Up
<1>5. Asked'
  <2>1. srv.at \in {"conn", "channel", "running"}
    BY <1>1, <1>2, RecvDown DEF Inv, DnTimely
  <2> QED  BY <1>1, <1>2, <2>1, RecvDown DEF Inv, Asked, Up, Dn, Owes
<1>6. BannersEarly'
  BY <1>1, <1>2, RecvDown, Names DEF Inv, BannersEarly, Authenticating, Dn
<1>7. ErrorCaused'
  BY <1>1 DEF ErrorCaused
<1> QED  BY <1>1, <1>2, <1>3, <1>4, <1>5, <1>6, <1>7, Received DEF Inv

\* The client gives up: only the cause is to be shown.
LEMMA GivingUp ==
  ASSUME Inv, pc' = "error", ChannelTyped', UpComing' = UpComing, UNCHANGED upSent,
         DnComing' \subseteq DnComing, UNCHANGED <<dnSent, mode, want, shown, fetched, typed,
                                                  srv, link, noise>>
  PROVE  Typed' /\ Alternating' /\ Asked' /\ BannersEarly'
<1>1. Typed'
  BY DEF Inv, Typed, StateTyped
<1>2. Alternating'
  BY Names DEF Inv, Alternating, Up
<1>3. Asked'
  BY Names DEF Inv, Asked, Up, Dn, Owes
<1>4. BannersEarly'
  BY DEF BannersEarly
<1> QED  BY <1>1, <1>2, <1>3, <1>4

\* A message that ends the opening.
LEMMA ExpectUnexpectedKeeps ==
  ASSUME Inv, ExpectUnexpected
  PROVE  Inv'
<1>1. /\ pc = "expect" /\ Receive /\ pc' = "error"
      /\ Incoming.type \notin {want, "global", "global_wants_reply"} \cup Skipped
      /\ UNCHANGED <<mode, want, shown, fetched, typed, srv, link, noise>>
  BY DEF ExpectUnexpected
<1>2. Typed
  BY DEF Inv
<1>3. PICK s \in Opening : want = Answer[s] /\ Awaited(s)
  BY <1>1 DEF Inv, Alternating
<1>4. want # "any" /\ srv.at # "running"
  BY <1>3, Names DEF Inv, Asked
<1>5. Incoming.type \in Replies \cup {"disconnect"}
  BY <1>1, <1>2, <1>4, RecvDown DEF Inv, DnTimely
<1>6. ASSUME Incoming.type \in Replies
      PROVE  Incoming.type \in Failures
  <2>1. PICK k \in DnComing : Dn(k) = Incoming.type
    BY <1>1, <1>2, RecvDown
  <2>2. Dn(k) \in Replies
    BY <1>6, <2>1
  <2>3. ~NoReply
    BY <2>2 DEF NoReply
  <2>4. PICK i \in DnComing :
          /\ \A j \in DnComing : Dn(j) \in Replies => j = i
          /\ Dn(i) = Answer[s] \/ Dn(i) = Failure[s]
    BY <1>3, <2>3 DEF Awaited
  <2>5. k = i
    BY <2>2, <2>4
  <2>6. Incoming.type \in {Answer[s], Failure[s]}
    BY <2>1, <2>4, <2>5
  <2> QED  BY <1>1, <1>3, <1>6, <2>6, Names DEF Failures
<1>7. ErrorCaused'
  <2>1. CASE Incoming.type = "disconnect"
    <3>1. ~link
      BY <1>1, <1>2, <2>1, RecvDown DEF Inv, DnTimely
    <3> QED  BY <1>1, <3>1 DEF ErrorCaused
  <2>2. CASE Incoming.type \in Failures
    <3>1. /\ Len(dnRcvd) + 1 \in 1 .. Len(dnRcvd') /\ dnRcvd'[Len(dnRcvd) + 1] = Incoming
      BY <1>1, <1>2, RecvDown, Coming
    <3> QED  BY <2>2, <3>1 DEF ErrorCaused, WasRefused, Failures
  <2> QED  BY <1>5, <1>6, <2>1, <2>2
<1>8. Incoming.type # "channel_data"
  BY <1>5, Names
<1> QED  BY <1>1, <1>2, <1>7, <1>8, GivingUp, Received, RecvDown DEF Inv

-----------------------------------------------------------------------------
(* Steps that leave the channel alone. *)

\* What only moves the client from place to place, or loses the connection.
LEMMA Quiet ==
  ASSUME Inv, UNCHANGED <<mode, shown, channel>>, link' = link \/ ~link',
         UNCHANGED <<srv.at, srv.owes, srv.client, srv.written, srv.done>>
  PROVE  UpWelcome' /\ DnTimely' /\ OutputInOrder' /\ UpComing' = UpComing /\ DnComing' = DnComing
<1>1. UpComing' = UpComing /\ DnComing' = DnComing
  BY DEF channel, UpComing, DnComing
<1>2. UpWelcome'
  BY <1>1 DEF Inv, UpWelcome, Up, channel
<1>3. DnTimely'
  BY <1>1 DEF Inv, DnTimely, Dn, Owes, channel
<1> QED  BY <1>1, <1>2, <1>3, OutputKept DEF channel, Inv

\* A call on a connection that is lost.
LEMMA ClosesDown ==
  ASSUME Inv, SendFails \/ RecvFails
  PROVE  Inv'
<1>1. /\ pc' = "error" /\ ~link
      /\ UNCHANGED <<mode, want, shown, fetched, typed, srv, link, noise, channel>>
  BY DEF SendFails, RecvFails
<1>2. ChannelTyped'
  BY <1>1 DEF Inv, Typed, ChannelTyped, channel, Up
<1>3. ErrorCaused'
  BY <1>1 DEF ErrorCaused
<1> QED  BY <1>1, <1>2, <1>3, Quiet, GivingUp DEF Inv, channel

\* Steps that send and receive nothing.
LEMMA Idling ==
  ASSUME Inv, PollTimeout \/ NoInput \/ UserTypes \/ ShellRests \/ LinkLost \/ UNCHANGED vars
  PROVE  Inv'
<1>1. /\ pc' = pc \/ (pc = "poll" /\ pc' = "input") \/ (pc = "input" /\ pc' = "poll")
      /\ link' = link \/ ~link'
      /\ UNCHANGED <<mode, want, shown, fetched, noise, channel>>
      /\ UNCHANGED <<srv.at, srv.owes, srv.client, srv.written, srv.done>>
  BY DEF PollTimeout, NoInput, UserTypes, ShellRests, LinkLost, vars, client, Inv, Typed, StateTyped
<1>2. StateTyped'
  <2>1. StateTyped /\ MaxLines \in Nat
    BY ClientAssumption DEF Inv, Typed
  <2>2. CASE PollTimeout \/ NoInput \/ LinkLost \/ UNCHANGED vars
    BY <2>1, <2>2 DEF PollTimeout, NoInput, LinkLost, vars, client, StateTyped
  <2>3. CASE UserTypes
    <3>1. typed < MaxLines /\ typed' = typed + 1 /\ UNCHANGED <<client, srv, link, noise>>
      BY <2>3 DEF UserTypes
    <3>2. typed' \in 0 .. MaxLines /\ fetched' \in 0 .. typed'
      BY <2>1, <3>1 DEF StateTyped, client
    <3> QED  BY <2>1, <3>1, <3>2 DEF StateTyped, client
  <2>4. CASE ShellRests
    <3>1. srv' = [srv EXCEPT !.asleep = TRUE] /\ UNCHANGED <<client, typed, link, noise>>
      BY <2>4 DEF ShellRests
    <3> QED  BY <2>1, <3>1 DEF StateTyped, client
  <2> QED  BY <2>2, <2>3, <2>4
<1>3. Typed'
  BY <1>1, <1>2 DEF Inv, Typed, ChannelTyped, channel, Up
<1>4. UpComing' = UpComing /\ DnComing' = DnComing
  BY <1>1, Quiet
<1>5. Alternating'
  BY <1>1, <1>4, Names DEF Inv, Alternating, Awaited, NoReply, NoRequest, Up, Dn, channel
<1>6. Asked'
  BY <1>1, <1>4, Names DEF Inv, Asked, Up, Dn, Owes, channel
<1>7. BannersEarly'
  BY <1>1, <1>4 DEF Inv, BannersEarly, Authenticating, Dn, channel
<1>8. ErrorCaused'
  BY <1>1 DEF Inv, ErrorCaused, WasRefused, channel
<1> QED  BY <1>1, <1>3, <1>5, <1>6, <1>7, <1>8, Quiet DEF Inv

\* What sending a message disturbs that is neither a request nor the end.
LEMMA Added ==
  ASSUME Inv, NEW m \in Messages, Send(m), UNCHANGED <<mode, want, shown, srv, link>>,
         m.type \in {"request_failure", "channel_data"},
         m.type = "request_failure" => srv.at \in {"conn", "channel", "running"},
         m.type = "channel_data" =>
           /\ mode = "shell" /\ srv.client = "open" /\ m.n <= MaxLines
           /\ srv.at = "running" \/ \E j \in UpComing : Up(j) = "shell"
           /\ \A i \in UpComing : Up(i) \notin {"eof", "close"}
  PROVE  /\ ChannelTyped' /\ UpWelcome' /\ DnTimely' /\ OutputInOrder'
         /\ NoRequest' <=> NoRequest
         /\ NoReply' <=> NoReply
         /\ \A s \in Opening : Awaited(s) => Awaited(s)'
         /\ \A i \in UpComing : i \in UpComing' /\ Up(i)' = Up(i)
         /\ \A i \in UpComing' : i \in UpComing \/ Up(i)' = m.type
         /\ DnComing' = DnComing /\ dnSent' = dnSent /\ dnRcvd' = dnRcvd
<1>1. Typed
  BY DEF Inv
<1>2. /\ \A i \in UpComing : i \in UpComing' /\ Up(i)' = Up(i)
      /\ \A i \in UpComing' : i \in UpComing \/ Up(i)' = m.type
      /\ DnComing' = DnComing /\ dnSent' = dnSent /\ dnRcvd' = dnRcvd
  BY <1>1, SendUp, Coming DEF Up
<1>3. ChannelTyped'
  BY <1>1, SendUp
<1>4. m.type \notin Asking
  BY Names DEF Asking
<1>5. (NoRequest' <=> NoRequest) /\ (NoReply' <=> NoReply)
  BY <1>2, <1>4 DEF NoRequest, NoReply, Dn
<1>6. \A s \in Opening : Awaited(s) => Awaited(s)'
  BY <1>2, <1>5 DEF Awaited, Dn
<1>7. UpWelcome'
  <2>1. \A i \in UpComing, j \in UpComing' : j < i => j \in UpComing
    BY <1>1, SendUp, Coming
  <2>2. \A i \in UpComing : i < Len(upSent) + 1
    BY <1>1, SendUp
  <2>3. \A i \in UpComing' : i \in UpComing \/ (i = Len(upSent) + 1 /\ Up(i)' = m.type)
    BY <1>1, SendUp DEF Up
  <2>4. \A i \in UpComing' :
          /\ Up(i)' \in Asking \cup {"request_failure", "channel_data", "eof", "close"}
          /\ Up(i)' \in Asking =>
               /\ srv.at = Phase[Up(i)'] /\ srv.owes = <<>>
               /\ \A j \in UpComing' : j < i => Up(j)' = "request_failure"
          /\ Up(i)' = "request_failure" => srv.at \in {"conn", "channel", "running"}
          /\ Up(i)' = "eof"   => srv.at = "running" /\ srv.client = "open"
          /\ Up(i)' = "close" => srv.at = "running" /\ srv.client # "close"
    BY <1>2, <1>4, <2>1, <2>3 DEF Inv, UpWelcome
  <2>5. \A i \in UpComing' : Up(i)' = "channel_data" =>
          /\ mode = "shell" /\ srv.client = "open"
          /\ srv.at = "running" \/ \E j \in UpComing' : j < i /\ Up(j)' = "shell"
    BY <1>2, <2>2, <2>3 DEF Inv, UpWelcome
  <2>6. \A i, j \in UpComing' : i < j =>
          /\ Up(j)' \in {"eof", "channel_data"} => Up(i)' \notin {"eof", "close"}
          /\ Up(j)' = "close" => Up(i)' # "close"
    BY <1>2, <2>1, <2>3 DEF Inv, UpWelcome
  <2> QED  BY <2>4, <2>5, <2>6 DEF UpWelcome
<1>8. DnTimely'
  BY <1>2 DEF Inv, DnTimely, Dn, Owes
<1>9. OutputInOrder'
  BY <1>2, OutputKept DEF Inv
<1> QED  BY <1>2, <1>3, <1>5, <1>6, <1>7, <1>8, <1>9

\* A global request is declined.
LEMMA DeclineKeeps ==
  ASSUME Inv, Decline
  PROVE  Inv'
<1> DEFINE m == Msg("request_failure")
<1>1. /\ pc = "decline" /\ (Send(m) \/ (~link /\ UNCHANGED channel))
      /\ pc' = IF want = "any" THEN "input" ELSE "expect"
      /\ UNCHANGED <<mode, want, shown, fetched, typed, srv, link, noise>>
  BY DEF Decline
<1>2. m \in Messages /\ m.type = "request_failure"
  BY MessageForms
<1>3. /\ srv.at \in {"conn", "channel", "running"} /\ want # "none"
      /\ want \in {"any"} \cup {Answer[s] : s \in Opening}
  <2>1. srv.at \in {"conn", "channel", "running"}
    BY <1>1 DEF Inv, Asked
  <2>2. want # "none"
    BY <1>1 DEF Inv, Alternating
  <2> QED  BY <2>1, <2>2 DEF Inv, Typed, StateTyped
<1>4. /\ want = "any" <=> want \notin {Answer[s] : s \in Opening}
      /\ pc' \in {"input", "expect"} /\ (pc' = "input" <=> want = "any")
      /\ pc' \notin Stages /\ pc \notin Stages
  BY <1>1, <1>3, Names
<1> HIDE DEF m
<1>5. /\ ChannelTyped' /\ UpWelcome' /\ DnTimely' /\ OutputInOrder'
      /\ \A s \in Opening : Awaited(s) => Awaited(s)'
      /\ \A i \in UpComing : i \in UpComing' /\ Up(i)' = Up(i)
      /\ \A i \in UpComing' : i \in UpComing \/ Up(i)' = "request_failure"
      /\ DnComing' = DnComing /\ dnSent' = dnSent /\ dnRcvd' = dnRcvd
  <2>1. CASE Send(m)
    BY <1>1, <1>2, <1>3, <2>1, Added
  <2>2. CASE UNCHANGED channel
    <3>1. UpWelcome' /\ DnTimely' /\ OutputInOrder' /\ UpComing' = UpComing /\ DnComing' = DnComing
      BY <1>1, <2>2, Quiet
    <3>2. ChannelTyped'
      BY <2>2 DEF Inv, Typed, ChannelTyped, channel, Up
    <3>3. \A s \in Opening : Awaited(s) => Awaited(s)'
      BY <1>1, <2>2, <3>1 DEF Awaited, NoRequest, NoReply, Up, Dn, channel
    <3> QED  BY <2>2, <3>1, <3>2, <3>3 DEF channel, Up
  <2> QED  BY <1>1, <2>1, <2>2
<1>6. Typed'
  BY <1>1, <1>5 DEF Inv, Typed, StateTyped
<1>7. Alternating'
  <2>1. \A s \in Opening : want = Answer[s] => Awaited(s) /\ (s = "pty_req" => mode = "shell")
    BY <1>1 DEF Inv, Alternating
  <2>2. \A i \in UpComing : Up(i) \in Opening => want = Answer[Up(i)]
    BY DEF Inv, Alternating
  <2>3. "request_failure" \notin Opening
    BY Names
  <2>4. \A i \in UpComing' : Up(i)' \in Opening => want = Answer[Up(i)']
    BY <1>5, <2>2, <2>3
  <2>5. UNCHANGED <<want, mode>>
    BY <1>1
  <2> QED  BY <1>3, <1>4, <1>5, <2>1, <2>4, <2>5 DEF Alternating
<1>8. Asked'
  <2>1. "request_failure" \notin {"exec", "shell", "eof", "close"}
    OBVIOUS
  <2>2. /\ UNCHANGED <<want, mode, srv>>
        /\ srv.client = "open" /\ \A i \in UpComing : Up(i) \notin {"eof", "close"}
    BY <1>1 DEF Inv, Asked
  <2>3. \A i \in UpComing' : Up(i)' \notin {"eof", "close"}
    BY <1>5, <2>1, <2>2
  <2>4. \A i \in UpComing' : Up(i)' \in {"exec", "shell"} => want = "any" /\ Up(i)' = mode
    BY <1>5, <2>1 DEF Inv, Asked
  <2> QED  BY <1>3, <1>4, <1>5, <2>2, <2>3, <2>4 DEF Inv, Asked, Dn, Owes
<1>9. BannersEarly'
  <2>1. Authenticating' <=> Authenticating
    BY <1>1, <1>4, Names DEF Authenticating
  <2>2. pc # "error" /\ pc' # "error" /\ srv' = srv
    BY <1>1, <1>4
  <2> QED  BY <1>5, <2>1, <2>2 DEF Inv, BannersEarly, Dn
<1>10. ErrorCaused'
  BY <1>1 DEF ErrorCaused
<1> QED  BY <1>5, <1>6, <1>7, <1>8, <1>9, <1>10 DEF Inv

-----------------------------------------------------------------------------
(* The data pump. *)

\* What the pump disturbs, whatever it reads.
LEMMA Pumping ==
  ASSUME Inv, Receive, pc = "poll", pc' \in {"input", "decline", "eof", "closed"},
         UNCHANGED <<mode, want, fetched, typed, srv, link, noise>>, shown' \in Nat,
         pc' = "decline" => srv.at \in {"conn", "channel", "running"},
         pc' = "eof" => srv.at = "running"
  PROVE  Typed' /\ UpWelcome' /\ Alternating' /\ Asked' /\ DnTimely' /\ BannersEarly' /\ ErrorCaused'
<1>1. Typed /\ want = "any" /\ want \notin {Answer[s] : s \in Opening}
  BY Names DEF Inv, Alternating
<1>2. pc \notin Stages /\ pc' \notin Stages
  BY Names
<1>3. Typed'
  BY <1>1, RecvDown DEF Typed, StateTyped
<1>4. Alternating'
  <2>1. \A i \in UpComing' : Up(i)' \in Opening => want' = Answer[Up(i)']
    BY <1>1, RecvDown DEF Inv, Alternating, Up
  <2> QED  BY <1>1, <1>2, <2>1 DEF Alternating
<1>5. Asked'
  BY <1>1, <1>2, RecvDown DEF Inv, Asked, Up, Dn, Owes
<1>6. BannersEarly'
  <2>1. srv.at # "auth" /\ ~Authenticating
    BY <1>1 DEF Inv, BannersEarly, Authenticating
  <2>2. \A i \in DnComing' : Dn(i)' # "banner"
    BY <1>1, <2>1, RecvDown DEF Inv, BannersEarly, Dn
  <2> QED  BY <2>1, <2>2 DEF BannersEarly
<1>7. ErrorCaused'
  BY DEF ErrorCaused
<1> QED  BY <1>3, <1>4, <1>5, <1>6, <1>7, Received

\* The piece that arrives is the next one to show.
LEMMA NextPiece ==
  ASSUME Inv, Receive, Incoming.type = "channel_data"
  PROVE  Incoming.n = shown + 1 /\ shown < srv.written
<1> DEFINE h == Len(dnRcvd) + 1
<1>1. Typed
  BY DEF Inv
<1>2. /\ h \in DnComing /\ Dn(h) = "channel_data" /\ Incoming = dnSent[h] /\ h \in Nat
      /\ \A i \in DnComing : i \in Nat /\ (i = h \/ h < i)
  BY <1>1, RecvDown, Coming DEF Incoming, DnComing
<1>3. shown \in Nat /\ srv.written \in Nat
  BY <1>1 DEF Typed, StateTyped
<1> HIDE DEF h
<1>4. dnSent[h].n \in shown + 1 .. srv.written
  BY <1>2 DEF Inv, OutputInOrder
<1>5. shown + 1 \in shown + 1 .. srv.written
  BY <1>3, <1>4
<1>6. PICK i \in DnComing : Dn(i) = "channel_data" /\ dnSent[i].n = shown + 1
  BY <1>5 DEF Inv, OutputInOrder
<1>7. h < i => dnSent[h].n < dnSent[i].n
  BY <1>2, <1>6 DEF Inv, OutputInOrder
<1> QED  BY <1>2, <1>3, <1>4, <1>6, <1>7

\* Output is printed.
LEMMA PumpDataKeeps ==
  ASSUME Inv, PumpData
  PROVE  Inv'
<1>1. /\ pc = "poll" /\ Receive /\ Incoming.type = "channel_data" /\ pc' = "input"
      /\ shown' = shown + 1 /\ UNCHANGED <<mode, want, fetched, typed, srv, link, noise>>
  BY DEF PumpData
<1>2. Typed /\ shown \in Nat /\ srv.written \in Nat
  BY DEF Inv, Typed, StateTyped
<1>3. Incoming.n = shown + 1 /\ shown < srv.written
  BY <1>1, NextPiece
<1>4. PICK h \in DnComing :
        /\ dnSent[h].n = shown + 1 /\ Dn(h) = "channel_data" /\ DnComing' = DnComing \ {h}
        /\ \A i \in DnComing' : h < i
  BY <1>1, <1>2, <1>3, RecvDown DEF Incoming
<1>5. OutputInOrder'
  <2>1. dnSent' = dnSent /\ srv' = srv
    BY <1>1, <1>2, RecvDown
  <2>2. \A i \in DnComing : Dn(i) = "channel_data" => dnSent[i].n \in shown + 1 .. srv.written
    BY DEF Inv, OutputInOrder
  <2>3. \A i \in DnComing' : Dn(i) = "channel_data" => shown + 1 < dnSent[i].n
    BY <1>4 DEF Inv, OutputInOrder
  <2>4. \A i \in DnComing' : Dn(i) = "channel_data" => dnSent[i].n \in shown + 2 .. srv.written
    BY <1>2, <1>4, <2>2, <2>3
  <2>5. ASSUME NEW k \in shown + 2 .. srv.written
        PROVE  \E i \in DnComing' : Dn(i) = "channel_data" /\ dnSent[i].n = k
    <3>1. k \in shown + 1 .. srv.written /\ k # shown + 1
      BY <1>2, <2>5
    <3>2. PICK i \in DnComing : Dn(i) = "channel_data" /\ dnSent[i].n = k
      BY <3>1 DEF Inv, OutputInOrder
    <3> QED  BY <1>4, <3>1, <3>2
  <2>6. \A i, j \in DnComing' :
          Dn(i) = "channel_data" /\ Dn(j) = "channel_data" /\ i < j => dnSent[i].n < dnSent[j].n
    BY <1>4 DEF Inv, OutputInOrder
  <2>7. shown' + 1 = shown + 2 /\ shown' <= srv.written
    BY <1>1, <1>2, <1>3
  <2>8. \A i : Dn(i)' = Dn(i)
    BY <2>1 DEF Dn
  <2> QED  BY <2>1, <2>4, <2>5, <2>6, <2>7, <2>8 DEF OutputInOrder
<1>6. shown' \in Nat
  BY <1>1, <1>2
<1> QED  BY <1>1, <1>5, <1>6, Pumping DEF Inv

\* The other messages the pump knows.
LEMMA PumpKeeps ==
  ASSUME Inv, PumpIgnored \/ PumpGlobal \/ PumpEof \/ PumpClose
  PROVE  Inv'
<1>1. /\ pc = "poll" /\ Receive /\ Incoming.type # "channel_data"
      /\ pc' \in {"input", "decline", "eof", "closed"}
      /\ pc' = "decline" => Incoming.type = "global_wants_reply"
      /\ pc' = "eof" => Incoming.type = "eof"
      /\ UNCHANGED <<mode, want, shown, fetched, typed, srv, link, noise>>
  BY DEF PumpIgnored, PumpGlobal, PumpEof, PumpClose, Ignored
<1>2. Typed
  BY DEF Inv
<1>3. pc' = "decline" => srv.at \in {"conn", "channel", "running"}
  BY <1>1, <1>2, RecvDown DEF Inv, DnTimely
<1>4. pc' = "eof" => srv.at = "running"
  BY <1>1, <1>2, RecvDown DEF Inv, DnTimely
<1>5. shown' \in Nat
  BY <1>1 DEF Inv, Typed, StateTyped
<1> QED  BY <1>1, <1>3, <1>4, <1>5, Pumping, Received DEF Inv

\* A message the pump does not know ends the session.
LEMMA PumpUnexpectedKeeps ==
  ASSUME Inv, PumpUnexpected
  PROVE  Inv'
<1>1. /\ pc = "poll" /\ Receive /\ pc' = "error"
      /\ Incoming.type \notin Ignored \cup {"channel_data", "global_wants_reply", "eof", "close"}
      /\ UNCHANGED <<mode, want, shown, fetched, typed, srv, link, noise>>
  BY DEF PumpUnexpected
<1>2. Typed /\ want = "any"
  BY <1>1 DEF Inv, Alternating
<1>3. ~Authenticating
  BY <1>1, <1>2 DEF Authenticating
<1>4. PICK h \in DnComing : Dn(h) = Incoming.type
  BY <1>1, <1>2, RecvDown
<1>5. Incoming.type # "banner"
  BY <1>1, <1>3, <1>4 DEF Inv, BannersEarly
<1>6. Incoming.type \in Replies => Incoming.type \in {"channel_success", "channel_failure"}
  BY <1>2, <1>4 DEF Inv, Asked
<1>7. Incoming.type \in Lacked \cup {"disconnect"}
  BY <1>1, <1>4, <1>5, <1>6 DEF Inv, DnTimely, Ignored, Skipped, OfPrograms, Lacked
<1>8. ErrorCaused'
  <2>1. CASE Incoming.type = "disconnect"
    <3>1. ~link
      BY <1>4, <2>1 DEF Inv, DnTimely
    <3> QED  BY <1>1, <3>1 DEF ErrorCaused
  <2>2. CASE Incoming.type \in Lacked
    <3>1. Len(dnRcvd) + 1 \in 1 .. Len(dnRcvd') /\ dnRcvd'[Len(dnRcvd) + 1] = Incoming
      BY <1>1, <1>2, RecvDown, Coming
    <3> QED  BY <2>2, <3>1 DEF ErrorCaused
  <2> QED  BY <1>7, <2>1, <2>2
<1> QED  BY <1>1, <1>2, <1>8, GivingUp, Received, RecvDown DEF Inv

\* The end of input, announced.
LEMMA SendEofKeeps ==
  ASSUME Inv, SendEof
  PROVE  Inv'
<1> DEFINE m == Msg(pc)
<1>1. /\ pc \in {"eof", "close"}
      /\ Send(m) \/ (~link /\ UNCHANGED channel)
      /\ pc' = IF pc = "eof" THEN "close" ELSE "closed"
      /\ UNCHANGED <<mode, want, shown, fetched, typed, srv, link, noise>>
  BY DEF SendEof
<1>2. Typed /\ m \in Messages /\ m.type = pc /\ want = "any" /\ srv.at = "running"
  BY <1>1, MessageForms DEF Inv, Alternating, Asked
<1>3. /\ pc \notin Stages /\ pc' \notin Stages /\ want \notin {Answer[s] : s \in Opening}
      /\ pc \notin Asking /\ pc \notin Opening
  BY <1>1, <1>2, Names DEF Asking
<1>4. /\ srv.client # "close" /\ \A i \in UpComing : Up(i) # "close"
      /\ pc = "eof" => srv.client = "open" /\ \A i \in UpComing : Up(i) \notin {"eof", "close"}
  BY <1>1 DEF Inv, Asked
<1> HIDE DEF m
<1>5. /\ ChannelTyped' /\ UpWelcome' /\ DnTimely' /\ OutputInOrder'
      /\ \A i \in UpComing' : (i \in UpComing /\ Up(i)' = Up(i)) \/ Up(i)' = pc
      /\ \A i \in UpComing : i \in UpComing' /\ Up(i)' = Up(i)
      /\ DnComing' = DnComing /\ dnSent' = dnSent
  <2>1. CASE UNCHANGED channel
    <3>1. ChannelTyped'
      BY <1>2, <2>1 DEF Typed, ChannelTyped, channel, Up
    <3> QED  BY <1>1, <2>1, <3>1, Quiet DEF channel, Up
  <2>2. CASE Send(m)
    <3>1. /\ \A i \in UpComing' : (i \in UpComing /\ Up(i)' = Up(i)) \/ (i = Len(upSent) + 1 /\ Up(i)' = pc)
          /\ \A i \in UpComing : i \in UpComing' /\ Up(i)' = Up(i) /\ i < Len(upSent) + 1
          /\ DnComing' = DnComing /\ dnSent' = dnSent /\ dnRcvd' = dnRcvd
          /\ \A i \in UpComing, j \in UpComing' : j < i => j \in UpComing
      BY <1>2, <2>2, SendUp, Coming DEF Up
    <3>2. ChannelTyped'
      BY <1>1, <1>2, <2>2, SendUp
    <3>3. DnTimely'
      BY <1>1, <3>1 DEF Inv, DnTimely, Dn, Owes
    <3>4. OutputInOrder'
      BY <1>1, <3>1, OutputKept DEF Inv
    <3>5. \A i, j \in UpComing' : i < j =>
            /\ Up(j)' \in {"eof", "channel_data"} => Up(i)' \notin {"eof", "close"}
            /\ Up(j)' = "close" => Up(i)' # "close"
      BY <1>1, <1>4, <3>1 DEF Inv, UpWelcome
    <3>6. \A i \in UpComing' :
            /\ Up(i)' \in Asking \cup {"request_failure", "channel_data", "eof", "close"}
            /\ Up(i)' \in Asking =>
                 /\ srv.at = Phase[Up(i)'] /\ srv.owes = <<>>
                 /\ \A j \in UpComing' : j < i => Up(j)' = "request_failure"
            /\ Up(i)' = "request_failure" => srv.at \in {"conn", "channel", "running"}
            /\ Up(i)' = "channel_data" =>
                 /\ mode = "shell" /\ srv.client = "open"
                 /\ srv.at = "running" \/ \E j \in UpComing' : j < i /\ Up(j)' = "shell"
      BY <1>1, <1>3, <3>1 DEF Inv, UpWelcome
    <3>7. \A i \in UpComing' :
            /\ Up(i)' = "eof"   => srv.at = "running" /\ srv.client = "open"
            /\ Up(i)' = "close" => srv.at = "running" /\ srv.client # "close"
      BY <1>1, <1>2, <1>4, <3>1 DEF Inv, UpWelcome
    <3>8. UpWelcome'
      BY <1>1, <3>5, <3>6, <3>7 DEF UpWelcome
    <3> QED  BY <3>1, <3>2, <3>3, <3>4, <3>8
  <2> QED  BY <1>1, <2>1, <2>2
<1>6. Typed'
  BY <1>1, <1>5 DEF Inv, Typed, StateTyped
<1>7. Alternating'
  <2>1. \A i \in UpComing' : Up(i)' \in Opening => want' = Answer[Up(i)']
    BY <1>1, <1>3, <1>5 DEF Inv, Alternating
  <2> QED  BY <1>1, <1>2, <1>3, <2>1 DEF Alternating
<1>8. Asked'
  <2>1. \A i \in UpComing' : Up(i)' \in {"exec", "shell"} => want = "any" /\ Up(i)' = mode
    BY <1>1, <1>5 DEF Inv, Asked
  <2>2. pc = "eof" => \A i \in UpComing' : Up(i)' # "close"
    BY <1>4, <1>5
  <2> QED  BY <1>1, <1>2, <1>3, <1>4, <1>5, <2>1, <2>2 DEF Inv, Asked, Dn, Owes
<1>9. BannersEarly'
  <2>1. ~Authenticating /\ pc # "error" /\ srv' = srv
    BY <1>1, <1>2 DEF Authenticating
  <2> QED  BY <1>2, <1>5, <2>1 DEF Inv, BannersEarly, Dn
<1>10. ErrorCaused'
  BY <1>1 DEF ErrorCaused
<1> QED  BY <1>5, <1>6, <1>7, <1>8, <1>9, <1>10 DEF Inv

\* Input is sent.
LEMMA InputLineKeeps ==
  ASSUME Inv, InputLine
  PROVE  Inv'
<1> DEFINE m == Data(fetched + 1)
<1>1. /\ pc = "input" /\ mode = "shell" /\ fetched < typed /\ Send(m)
      /\ fetched' = fetched + 1 /\ pc' = "poll"
      /\ UNCHANGED <<mode, want, shown, typed, srv, link, noise>>
  BY DEF InputLine
<1>2. /\ typed \in 0 .. MaxLines /\ fetched \in 0 .. typed /\ MaxLines \in Nat /\ MaxOut \in Nat
  BY ClientAssumption DEF Inv, Typed, StateTyped
<1>3. fetched + 1 \in 1 .. MaxOut + MaxLines /\ fetched + 1 <= MaxLines /\ fetched' \in 0 .. typed
  BY <1>1, <1>2
<1>4. m \in Messages /\ m.type = "channel_data" /\ m.n <= MaxLines
  BY <1>3, MessageForms
<1>5. want = "any" /\ srv.client = "open" /\ \A i \in UpComing : Up(i) \notin {"eof", "close"}
  BY <1>1 DEF Inv, Alternating, Asked
<1>6. srv.at = "running" \/ \E j \in UpComing : Up(j) = "shell"
  BY <1>1, <1>5 DEF Inv, Asked
<1> HIDE DEF m
<1>7. /\ ChannelTyped' /\ UpWelcome' /\ DnTimely' /\ OutputInOrder'
      /\ \A i \in UpComing : i \in UpComing' /\ Up(i)' = Up(i)
      /\ \A i \in UpComing' : i \in UpComing \/ Up(i)' = "channel_data"
      /\ DnComing' = DnComing /\ dnSent' = dnSent
  BY <1>1, <1>4, <1>5, <1>6, Added
<1>8. Typed'
  BY <1>1, <1>3, <1>7 DEF Inv, Typed, StateTyped
<1>9. /\ pc \notin Stages /\ pc' \notin Stages /\ want \notin {Answer[s] : s \in Opening}
      /\ "channel_data" \notin Opening
  BY <1>1, <1>5, Names
<1>10. Alternating'
  <2>1. \A i \in UpComing' : Up(i)' \in Opening => want' = Answer[Up(i)']
    BY <1>1, <1>7, <1>9 DEF Inv, Alternating
  <2> QED  BY <1>1, <1>5, <1>9, <2>1 DEF Alternating
<1>11. Asked'
  <2>1. \A i \in UpComing' : Up(i)' \in {"exec", "shell"} => want = "any" /\ Up(i)' = mode
    BY <1>1, <1>7 DEF Inv, Asked
  <2>2. \A i \in UpComing' : Up(i)' \notin {"eof", "close"}
    BY <1>5, <1>7
  <2> QED  BY <1>1, <1>5, <1>7, <1>9, <2>1, <2>2 DEF Inv, Asked, Dn, Owes
<1>12. BannersEarly'
  <2>1. ~Authenticating /\ pc # "error" /\ srv' = srv
    BY <1>1, <1>5 DEF Authenticating
  <2> QED  BY <1>5, <1>7, <2>1 DEF Inv, BannersEarly, Dn
<1>13. ErrorCaused'
  BY <1>1 DEF ErrorCaused
<1> QED  BY <1>7, <1>8, <1>10, <1>11, <1>12, <1>13 DEF Inv

-----------------------------------------------------------------------------
(* The server. *)

\* A request is taken: what the server makes of it.
LEMMA Taking ==
  ASSUME Inv, ServerTakes
  PROVE  \E t, a, o :
           /\ t \in Asking /\ Pending.type = t /\ srv.at = Phase[t] /\ srv.at # "running"
           /\ srv' = [srv EXCEPT !.at = a, !.owes = o] /\ srv.owes = <<>>
           /\ o # <<>> /\ o \in Debts
           /\ \/ t \in Opening /\ a = Granting[t] /\ o = <<Answer[t]>>
              \/ t \in Opening /\ a = Phase[t] /\ o = <<Failure[t]>>
              \/ /\ t \in {"exec", "shell"} /\ a = "running"
                 /\ o \in {<<"window_adjust", "channel_success">>, <<"window_adjust">>}
              \/ t = "exec" /\ a = "channel" /\ o = <<"channel_failure">>
<1>1. PICK r \in Granted \cup Refused :
        /\ srv.at = r[1] /\ Pending.type = r[2]
        /\ srv' = [srv EXCEPT !.at = r[3], !.owes = r[4]]
  BY DEF ServerTakes
<1>2. srv.owes = <<>>
  BY DEF ServerTakes, ServerReads
<1>3. /\ r[2] \in Asking /\ r[1] = Phase[r[2]] /\ r[1] # "running"
      /\ \/ r[2] \in Opening /\ r[3] = Granting[r[2]] /\ r[4] = <<Answer[r[2]]>>
         \/ r[2] \in Opening /\ r[3] = Phase[r[2]] /\ r[4] = <<Failure[r[2]]>>
         \/ /\ r[2] \in {"exec", "shell"} /\ r[3] = "running"
            /\ r[4] \in {<<"window_adjust", "channel_success">>, <<"window_adjust">>}
         \/ r[2] = "exec" /\ r[3] = "channel" /\ r[4] = <<"channel_failure">>
      /\ r[4] # <<>>
  <2>0. \A s \in Opening \cup {"exec", "shell"} : s \in Asking
    BY DEF Asking
  <2>1. CASE r = <<"service", "service_request", "auth", <<"service_accept">>>>
    BY <2>0, <2>1, Names
  <2>2. CASE r = <<"auth", "userauth_request", "conn", <<"userauth_success">>>>
    BY <2>0, <2>2, Names
  <2>3. CASE r = <<"conn", "channel_open", "channel", <<"channel_open_confirmation">>>>
    BY <2>0, <2>3, Names
  <2>4. CASE r = <<"channel", "pty_req", "channel", <<"channel_success">>>>
    BY <2>0, <2>4, Names
  <2>5. CASE r = <<"channel", "exec", "running", <<"window_adjust", "channel_success">>>>
    BY <2>0, <2>5, Names
  <2>6. CASE r = <<"channel", "shell", "running", <<"window_adjust">>>>
    BY <2>0, <2>6, Names
  <2>7. CASE r = <<"auth", "userauth_request", "auth", <<"userauth_failure">>>>
    BY <2>0, <2>7, Names
  <2>8. CASE r = <<"conn", "channel_open", "conn", <<"channel_open_failure">>>>
    BY <2>0, <2>8, Names
  <2>9. CASE r = <<"channel", "pty_req", "channel", <<"channel_failure">>>>
    BY <2>0, <2>9, Names
  <2>10. CASE r = <<"channel", "exec", "channel", <<"channel_failure">>>>
    BY <2>0, <2>10, Names
  <2> QED
    BY <2>1, <2>2, <2>3, <2>4, <2>5, <2>6, <2>7, <2>8, <2>9, <2>10 DEF Granted, Refused
<1>4. r[4] \in Debts
  <2>1. CASE r \in Granted
    BY <2>1, Names DEF Granted, Debts
  <2>2. CASE r \in Refused
    BY <2>2, Names DEF Refused, Debts
  <2> QED  BY <2>1, <2>2
<1> QED  BY <1>1, <1>2, <1>3, <1>4

\* The server takes a request, which it owes an answer to.
LEMMA ServerTakesKeeps ==
  ASSUME Inv, ServerTakes
  PROVE  Inv'
<1>1. /\ Chan!RecvUp /\ UNCHANGED <<mode, pc, want, shown, fetched, typed, link, noise>>
  BY DEF ServerTakes, client
<1>2. PICK t, a, o :
           /\ t \in Asking /\ Pending.type = t /\ srv.at = Phase[t] /\ srv.at # "running"
           /\ srv' = [srv EXCEPT !.at = a, !.owes = o] /\ srv.owes = <<>>
           /\ o # <<>> /\ o \in Debts
           /\ \/ t \in Opening /\ a = Granting[t] /\ o = <<Answer[t]>>
              \/ t \in Opening /\ a = Phase[t] /\ o = <<Failure[t]>>
              \/ /\ t \in {"exec", "shell"} /\ a = "running"
                 /\ o \in {<<"window_adjust", "channel_success">>, <<"window_adjust">>}
              \/ t = "exec" /\ a = "channel" /\ o = <<"channel_failure">>
  BY Taking
<1>3. Typed
  BY DEF Inv
<1>4. PICK h \in UpComing :
        /\ Up(h) = t /\ UpComing' = UpComing \ {h} /\ \A i \in UpComing' : i > h
  BY <1>1, <1>2, <1>3, RecvUp
<1>5. upSent' = upSent /\ dnSent' = dnSent /\ dnRcvd' = dnRcvd /\ DnComing' = DnComing /\ ChannelTyped'
  BY <1>1, <1>3, RecvUp
<1>6. NoRequest' /\ \A i \in UpComing : Up(i) \in Asking => i = h
  <2>1. "request_failure" \notin Asking
    BY Names DEF Asking
  <2>2. ASSUME NEW i \in UpComing, Up(i) \in Asking PROVE i = h
    <3>1. i # h => h < i
      BY <1>4
    <3>2. h < i => Up(h) = "request_failure"
      BY <1>4, <2>2 DEF Inv, UpWelcome
    <3> QED  BY <1>2, <1>4, <2>1, <3>1, <3>2
  <2> QED  BY <1>4, <1>5, <2>2 DEF NoRequest, Up
<1>7. /\ srv'.at = a /\ srv'.owes = o
      /\ srv'.client = srv.client /\ srv'.written = srv.written /\ srv'.done = srv.done
      /\ srv' \in [at : {"service", "auth", "conn", "channel", "running"},
              owes : Debts, written : 0 .. MaxOut, input : 0 .. MaxLines,
              done : BOOLEAN, client : {"open", "eof", "close"},
              asleep : BOOLEAN]
  <2>1. a \in {"service", "auth", "conn", "channel", "running"}
    BY <1>2, Names
  <2> QED  BY <1>2, <1>3, <2>1 DEF Typed, StateTyped
<1>8. /\ srv.at \in {"conn", "channel"} => a \in {"conn", "channel", "running"}
      /\ t \in Opening => a # "running" /\ \A s \in OfPrograms : o # <<s>>
      /\ a = "running" => t \in {"exec", "shell"}
  BY <1>2, Names DEF OfPrograms
<1>9. srv.done = FALSE
  BY <1>2, <1>3 DEF Inv, DnTimely, Typed, StateTyped
<1>10. Typed'
  BY <1>1, <1>3, <1>5, <1>7 DEF Typed, StateTyped
<1>11. UpWelcome'
  <2>1. ASSUME NEW i \in UpComing'
        PROVE  /\ Up(i)' \notin Asking /\ Up(i)' \notin {"eof", "close"}
               /\ Up(i)' \in {"request_failure", "channel_data"}
               /\ Up(i)' = "request_failure" => a \in {"conn", "channel", "running"}
               /\ Up(i)' = "channel_data" => mode = "shell" /\ srv.client = "open" /\ a = "running"
    <3>1. i \in UpComing /\ Up(i)' = Up(i) /\ Up(i)' \notin Asking
      BY <1>4, <1>5, <1>6 DEF Up, NoRequest
    <3>2. Up(i) \notin {"eof", "close"} /\ Up(i) \in {"request_failure", "channel_data"}
      BY <1>2, <3>1 DEF Inv, UpWelcome
    <3>3. Up(i) = "request_failure" => a \in {"conn", "channel", "running"}
      BY <1>2, <1>8, <3>1 DEF Inv, UpWelcome
    <3>4. Up(i) = "channel_data" => mode = "shell" /\ srv.client = "open" /\ t = "shell"
      BY <1>2, <1>4, <1>6, <3>1, Names DEF Inv, UpWelcome, Asking
    <3> QED  BY <1>2, <3>1, <3>2, <3>3, <3>4, Names
  <2> QED  BY <1>1, <1>7, <2>1 DEF UpWelcome
<1>12. \A s \in Opening : Awaited(s) => NoReply
  <2>1. ~NoRequest
    BY <1>2, <1>4 DEF NoRequest
  <2> QED  BY <2>1 DEF Awaited
<1>13. Alternating'
  <2>1. pc \notin Stages
    BY <1>2, <1>4 DEF Inv, Alternating, NoRequest
  <2>2. t \in Opening => want = Answer[t]
    BY <1>4 DEF Inv, Alternating
  <2>3. t \in {"exec", "shell"} => want = "any"
    BY <1>4 DEF Inv, Asked
  <2>4. ASSUME NEW s \in Opening, pc \in {"expect", "decline"}, want = Answer[s]
        PROVE  Awaited(s)' /\ (s = "pty_req" => mode = "shell")
    <3>1. Awaited(s) /\ (s = "pty_req" => mode = "shell")
      BY <2>4 DEF Inv, Alternating
    <3>2. NoReply'
      BY <1>5, <1>12, <3>1 DEF NoReply, Dn
    <3>3. s = t
      BY <1>2, <2>2, <2>3, <2>4, Names DEF Asking
    <3>4. \/ a = Granting[s] /\ o = <<Answer[s]>>
          \/ a = Phase[s] /\ o = <<Failure[s]>>
      BY <1>2, <3>3, Names
    <3> QED  BY <1>6, <1>7, <3>1, <3>2, <3>4 DEF Awaited
  <2>5. \A i \in UpComing' : Up(i)' \notin Opening
    BY <1>6 DEF NoRequest, Asking
  <2> QED  BY <1>1, <2>1, <2>4, <2>5 DEF Inv, Alternating
<1>14. Asked'
  <2>1. t \in Opening => want # "any"
    BY <1>4, Names DEF Inv, Alternating
  <2>2. t \in {"exec", "shell"} => want = "any" /\ t = mode
    BY <1>4 DEF Inv, Asked
  <2>3. want = "any" => a = "running" \/ (a = "channel" /\ mode = "exec")
    BY <1>2, <2>1, <2>2
  <2>4. want = "any" => \A s \in Replies : Owes(s)' => s \in {"channel_success", "channel_failure"}
    BY <1>2, <1>7, <2>1, Names DEF Owes
  <2>5. pc \notin {"eof", "close"}
    BY <1>2 DEF Inv, Asked
  <2>6. pc = "decline" => a \in {"conn", "channel", "running"}
    BY <1>2, <1>8 DEF Inv, Asked
  <2>7. \A i \in UpComing' : Up(i)' \notin {"exec", "shell"}
    BY <1>6 DEF NoRequest, Asking
  <2>8. /\ want = "any" => \A i \in DnComing' :
                             Dn(i)' \in Replies => Dn(i)' \in {"channel_success", "channel_failure"}
        /\ pc \in Stages \cup {"expect", "decline", "poll", "input", "eof"} =>
             srv.client = "open" /\ \A i \in UpComing' : Up(i)' \notin {"eof", "close"}
    BY <1>4, <1>5 DEF Inv, Asked, Up, Dn
  <2>9. a = "running" => want = "any"
    BY <1>8, <2>2
  <2> QED  BY <1>1, <1>7, <2>3, <2>4, <2>5, <2>6, <2>7, <2>8, <2>9 DEF Asked
<1>15. DnTimely'
  <2>1. \A i \in DnComing : Dn(i) \notin OfPrograms
    BY <1>2 DEF Inv, DnTimely
  <2>2. a # "running" => \A s \in OfPrograms : ~Owes(s)'
    BY <1>2, <1>7, Names DEF Owes, OfPrograms
  <2>3. ~Owes("eof")' /\ ~Owes("close")'
    BY <1>2, <1>7, Names DEF Owes
  <2>4. \A i \in DnComing :
          /\ Dn(i) \in Replies \cup OfPrograms \cup Skipped \cup
                       {"global", "global_wants_reply", "disconnect"}
          /\ Dn(i) \notin {"eof", "close"}
          /\ Dn(i) = "global_wants_reply" => a \in {"conn", "channel", "running"}
          /\ Dn(i) = "disconnect" => ~link
    BY <1>2, <1>8, <2>1 DEF Inv, DnTimely, OfPrograms
  <2>5. \A i : Dn(i)' = Dn(i)
    BY <1>5 DEF Dn
  <2> QED  BY <1>1, <1>5, <1>7, <1>9, <2>1, <2>2, <2>3, <2>4, <2>5 DEF DnTimely
<1>16. BannersEarly'
  <2>1. a = "auth" => srv.at = "auth" \/ t = "service_request"
    BY <1>2, Names
  <2>2. t = "service_request" => want = "service_accept"
    BY <1>4, Names DEF Inv, Alternating
  <2>3. Authenticating' <=> Authenticating
    BY <1>1 DEF Authenticating
  <2> QED  BY <1>1, <1>5, <1>7, <2>1, <2>2, <2>3 DEF Inv, BannersEarly, Authenticating, Dn
<1>17. OutputInOrder'
  BY <1>1, <1>5, <1>7, OutputKept DEF Inv
<1>18. ErrorCaused'
  BY <1>1, <1>5 DEF Inv, ErrorCaused, WasRefused
<1> QED  BY <1>10, <1>11, <1>13, <1>14, <1>15, <1>16, <1>17, <1>18 DEF Inv

\* Everything else the server reads is welcome.
LEMMA Noting ==
  ASSUME Inv, ServerNotes
  PROVE  /\ Welcome /\ Pending.type \in {"request_failure", "channel_data", "eof", "close"}
         /\ srv.owes = <<>>
<1>1. /\ Chan!RecvUp /\ srv.owes = <<>>
      /\ \A r \in Granted : ~(srv.at = r[1] /\ Pending.type = r[2])
  BY DEF ServerNotes, ServerReads
<1>2. Typed
  BY DEF Inv
<1>3. PICK h \in UpComing :
        /\ Up(h) = Pending.type /\ \A i \in UpComing : i = h \/ i > h
        /\ h \in Nat /\ \A i \in UpComing : i \in Nat
  BY <1>1, <1>2, RecvUp, Coming
<1>4. Up(h) \notin Asking
  <2>1. \A c \in Asking : \E r \in Granted : r[1] = Phase[c] /\ r[2] = c
    <3>1. ASSUME NEW c \in Asking
          PROVE  \E a, o : <<Phase[c], c, a, o>> \in Granted
      BY <3>1, Names DEF Asking, Granted
    <3>2. ASSUME NEW c \in Asking
          PROVE  \E r \in Granted : r[1] = Phase[c] /\ r[2] = c
      <4>1. PICK a, o : <<Phase[c], c, a, o>> \in Granted
        BY <3>1, <3>2
      <4>2. /\ <<Phase[c], c, a, o>>[1] = Phase[c]
            /\ <<Phase[c], c, a, o>>[2] = c
        OBVIOUS
      <4> QED  BY <4>1, <4>2
    <3> QED  BY <3>2
  <2>2. Up(h) \in Asking => srv.at = Phase[Up(h)]
    BY DEF Inv, UpWelcome
  <2> QED  BY <1>1, <1>3, <2>1, <2>2
<1>5. Up(h) \in {"request_failure", "channel_data", "eof", "close"}
  BY <1>4 DEF Inv, UpWelcome
<1>6. ~ \E j \in UpComing : j < h
  BY <1>3
<1>7. /\ Up(h) = "request_failure" => srv.at \in {"conn", "channel", "running"}
      /\ Up(h) = "channel_data" => srv.at = "running" /\ srv.client = "open"
      /\ Up(h) = "eof"   => srv.at = "running" /\ srv.client = "open"
      /\ Up(h) = "close" => srv.at = "running" /\ srv.client # "close"
  BY <1>6 DEF Inv, UpWelcome
<1> QED  BY <1>1, <1>3, <1>5, <1>7 DEF Welcome

\* The server takes a message it need not answer.
LEMMA ServerNotesKeeps ==
  ASSUME Inv, ServerNotes
  PROVE  Inv'
<1> DEFINE given == IF Pending.type = "channel_data" THEN Pending.n ELSE srv.input
           ended == IF Pending.type \in {"eof", "close"} THEN Pending.type ELSE srv.client
<1>1. /\ Chan!RecvUp /\ UNCHANGED <<mode, pc, want, shown, fetched, typed, link, noise>>
      /\ srv' = [srv EXCEPT !.input = given, !.client = ended]
      /\ srv.owes = <<>> /\ Pending.type \in {"request_failure", "channel_data", "eof", "close"}
  BY Noting DEF ServerNotes, client
<1>2. Typed
  BY DEF Inv
<1>3. PICK h \in UpComing :
        /\ Up(h) = Pending.type /\ UpComing' = UpComing \ {h} /\ \A i \in UpComing' : i > h
        /\ Pending.type = "channel_data" => Pending.n <= MaxLines
  <2>1. Len(upRcvd) + 1 \in 1 .. Len(upSent)
    BY <1>1, <1>2, RecvUp, Coming
  <2>2. Pending.type = "channel_data" => Pending.n <= MaxLines
    BY <1>2, <2>1 DEF Typed, ChannelTyped, Pending, Up
  <2> QED  BY <1>1, <1>2, <2>2, RecvUp
<1>4. upSent' = upSent /\ dnSent' = dnSent /\ dnRcvd' = dnRcvd /\ DnComing' = DnComing /\ ChannelTyped'
  BY <1>1, <1>2, RecvUp
<1>5. given \in 0 .. MaxLines
  <2>1. Pending \in Messages /\ MaxLines \in Nat /\ MaxOut \in Nat
    BY <1>1, <1>2, RecvUp, ClientAssumption
  <2>2. Pending.n \in 0 .. MaxOut + MaxLines
    BY <2>1 DEF Messages
  <2> QED  BY <1>2, <1>3, <2>1, <2>2 DEF Typed, StateTyped
<1>6. ended \in {"open", "eof", "close"}
  BY <1>2 DEF Typed, StateTyped
<1> HIDE DEF given
<1>7. /\ srv'.at = srv.at /\ srv'.owes = srv.owes /\ srv'.written = srv.written
      /\ srv'.done = srv.done /\ srv'.client = ended
      /\ srv' \in [at : {"service", "auth", "conn", "channel", "running"},
              owes : Debts, written : 0 .. MaxOut, input : 0 .. MaxLines,
              done : BOOLEAN, client : {"open", "eof", "close"},
              asleep : BOOLEAN]
  BY <1>1, <1>2, <1>5, <1>6 DEF Typed, StateTyped
<1>8. Typed'
  BY <1>1, <1>2, <1>4, <1>7 DEF Typed, StateTyped
<1>9. /\ Up(h) \notin Asking
      /\ \A i \in UpComing' : i \in UpComing /\ Up(i)' = Up(i)
      /\ \A i \in UpComing : Up(i) \in Asking => i \in UpComing'
  BY <1>1, <1>3, <1>4, Names DEF Asking, Up
<1>10. \A i \in UpComing' :
         /\ Up(i) \in {"eof", "channel_data"} => ended = srv.client
         /\ Up(i) = "close" /\ srv.client # "close" => ended # "close"
  BY <1>3, <1>9 DEF Inv, UpWelcome
<1>11. UpWelcome'
  <2>1. \A i \in UpComing' : Up(i)' = "channel_data" =>
          /\ mode = "shell" /\ ended = "open"
          /\ srv.at = "running" \/ \E j \in UpComing' : j < i /\ Up(j)' = "shell"
    BY <1>9, <1>10 DEF Inv, UpWelcome, Asking
  <2>2. \A i \in UpComing' :
          /\ Up(i)' \in Asking \cup {"request_failure", "channel_data", "eof", "close"}
          /\ Up(i)' \in Asking =>
               /\ srv.at = Phase[Up(i)'] /\ srv.owes = <<>>
               /\ \A j \in UpComing' : j < i => Up(j)' = "request_failure"
          /\ Up(i)' = "request_failure" => srv.at \in {"conn", "channel", "running"}
          /\ Up(i)' = "eof"   => srv.at = "running" /\ ended = "open"
          /\ Up(i)' = "close" => srv.at = "running" /\ ended # "close"
    BY <1>9, <1>10 DEF Inv, UpWelcome
  <2>3. \A i, j \in UpComing' : i < j =>
          /\ Up(j)' \in {"eof", "channel_data"} => Up(i)' \notin {"eof", "close"}
          /\ Up(j)' = "close" => Up(i)' # "close"
    BY <1>9 DEF Inv, UpWelcome
  <2> QED  BY <1>1, <1>7, <2>1, <2>2, <2>3 DEF UpWelcome
<1>12. (NoRequest' <=> NoRequest) /\ (NoReply' <=> NoReply)
  BY <1>4, <1>9 DEF NoRequest, NoReply, Dn
<1>13. Alternating'
  <2>1. \A s \in Opening : Awaited(s) => Awaited(s)'
    BY <1>4, <1>7, <1>9, <1>12 DEF Awaited, Dn, Asking
  <2> QED  BY <1>1, <1>7, <1>9, <1>12, <2>1 DEF Inv, Alternating
<1>14. Asked'
  <2>1. mode \in Asking
    BY <1>2, ClientAssumption DEF Typed, StateTyped, Asking
  <2>2. want = "any" =>
          srv.at = "running" \/ (srv.at = "channel" /\ mode = "exec")
             \/ \E i \in UpComing' : Up(i)' = mode
    BY <1>9, <2>1 DEF Inv, Asked
  <2>3. pc \in Stages \cup {"expect", "decline", "poll", "input", "eof"} =>
          ended = "open" /\ \A i \in UpComing' : Up(i)' \notin {"eof", "close"}
    BY <1>3, <1>9 DEF Inv, Asked
  <2>4. pc = "close" => ended # "close" /\ \A i \in UpComing' : Up(i)' # "close"
    BY <1>3, <1>9 DEF Inv, Asked
  <2>5. \A i \in UpComing' : Up(i)' \in {"exec", "shell"} => want = "any" /\ Up(i)' = mode
    BY <1>9 DEF Inv, Asked
  <2>6. \A s : (Owes(s)' <=> Owes(s)) /\ \A i : Dn(i)' = Dn(i)
    BY <1>4, <1>7 DEF Owes, Dn
  <2> QED  BY <1>1, <1>4, <1>7, <2>2, <2>3, <2>4, <2>5, <2>6 DEF Inv, Asked
<1>15. DnTimely'
  BY <1>1, <1>4, <1>7 DEF Inv, DnTimely, Dn, Owes
<1>16. BannersEarly'
  BY <1>1, <1>4, <1>7 DEF Inv, BannersEarly, Authenticating, Dn
<1>17. OutputInOrder'
  BY <1>1, <1>4, <1>7, OutputKept DEF Inv
<1>18. ErrorCaused'
  BY <1>1, <1>4 DEF Inv, ErrorCaused, WasRefused
<1> QED  BY <1>8, <1>11, <1>13, <1>14, <1>15, <1>16, <1>17, <1>18 DEF Inv

\* A message goes down: what is on its way after it.
LEMMA Told ==
  ASSUME Inv, NEW m \in Messages, Chan!SendDown(m)
  PROVE  /\ \A i \in DnComing : i \in DnComing' /\ Dn(i)' = Dn(i) /\ dnSent'[i] = dnSent[i]
         /\ \E n \in DnComing' :
              /\ dnSent'[n] = m /\ Dn(n)' = m.type /\ ~(n < n)
              /\ \A i \in DnComing : i < n /\ ~(n < i) /\ i # n
              /\ \A i \in DnComing' : i \in DnComing \/ i = n
         /\ UpComing' = UpComing /\ \A i : Up(i)' = Up(i)
         /\ NoRequest' <=> NoRequest
         /\ dnRcvd' = dnRcvd /\ ChannelTyped'
         /\ m.type # "channel_data" /\ shown' = shown /\ srv'.written = srv.written
              => OutputInOrder'
         /\ pc' = pc /\ (link' => link) => ErrorCaused'
<1>1. Typed
  BY DEF Inv
<1>2. \A i \in DnComing : i \in DnComing' /\ Dn(i)' = Dn(i) /\ dnSent'[i] = dnSent[i]
  BY <1>1, SendDown, Coming DEF Dn
<1>3. PICK n \in DnComing' :
        /\ dnSent'[n] = m /\ Dn(n)' = m.type /\ ~(n < n)
        /\ \A i \in DnComing : i < n /\ ~(n < i) /\ i # n
        /\ \A i \in DnComing' : i \in DnComing \/ i = n
  <2>1. Len(dnSent) + 1 \in Nat /\ \A i \in DnComing : i \in Nat
    BY <1>1, Coming
  <2> QED  BY <1>1, <2>1, SendDown DEF Dn
<1>4. UpComing' = UpComing /\ upSent' = upSent /\ dnRcvd' = dnRcvd /\ ChannelTyped'
  BY <1>1, SendDown
<1>5. (\A i : Up(i)' = Up(i)) /\ (NoRequest' <=> NoRequest)
  BY <1>4 DEF Up, NoRequest
<1>6. ASSUME m.type # "channel_data", shown' = shown, srv'.written = srv.written
      PROVE  OutputInOrder'
  <2>1. \A i \in DnComing' : Dn(i)' = "channel_data" =>
          i \in DnComing /\ Dn(i) = "channel_data" /\ dnSent'[i] = dnSent[i]
    BY <1>2, <1>3, <1>6
  <2>2. \A k \in shown + 1 .. srv.written :
          \E i \in DnComing' : Dn(i)' = "channel_data" /\ dnSent'[i].n = k
    BY <1>2 DEF Inv, OutputInOrder
  <2> QED  BY <1>6, <2>1, <2>2 DEF Inv, OutputInOrder
<1>7. pc' = pc /\ (link' => link) => ErrorCaused'
  BY <1>4 DEF Inv, ErrorCaused, WasRefused
<1> QED  BY <1>2, <1>3, <1>4, <1>5, <1>6, <1>7

\* What a server may owe is a sequence of replies.
LEMMA DebtsTyped == Debts \subseteq Seq(MessageTypes)
<1>1. /\ Replies \cup {"window_adjust", "close"} \subseteq MessageTypes
      /\ {"eof", "exit_status", "channel_success"} \subseteq MessageTypes
  BY Names DEF MessageTypes
<1>2. \A r \in MessageTypes : <<r>> \in Seq(MessageTypes)
  OBVIOUS
<1>3. \A r, q \in MessageTypes : <<r, q>> \in Seq(MessageTypes)
  OBVIOUS
<1>4. \A r, q, p \in MessageTypes : <<r, q, p>> \in Seq(MessageTypes)
  OBVIOUS
<1>5. <<>> \in Seq(MessageTypes)
  OBVIOUS
<1> QED  BY <1>1, <1>2, <1>3, <1>4, <1>5 DEF Debts

\* The server grants or refuses what it owes first.
LEMMA ServerAnswersKeeps ==
  ASSUME Inv, ServerAnswers
  PROVE  Inv'
<1> DEFINE t == Head(srv.owes)
           rest == Tail(srv.owes)
<1>1. /\ srv.owes # <<>> /\ Chan!SendDown(Msg(t)) /\ srv' = [srv EXCEPT !.owes = rest]
      /\ UNCHANGED <<mode, pc, want, shown, fetched, typed, link, noise>>
  BY DEF ServerAnswers, client
<1>2. Typed /\ srv.owes \in Debts
  BY DEF Inv, Typed, StateTyped
<1>0. \A r : srv.owes = <<r>> => t = r /\ rest = <<>>
  OBVIOUS
<1>3. /\ rest \in Debts /\ t \in Replies \cup OfPrograms /\ Owes(t)
      /\ t \notin {"channel_data", "keepalive", "extended_data", "kexinit"}
  <2>1. ASSUME NEW r, srv.owes = <<r>>
        PROVE  t = r /\ rest = <<>> /\ Owes(r)
    BY <2>1 DEF Owes
  <2>2. ASSUME NEW r, NEW q, srv.owes = <<r, q>>
        PROVE  t = r /\ rest = <<q>> /\ Owes(r)
    BY <2>2 DEF Owes
  <2>3. ASSUME NEW r, NEW q, NEW p, srv.owes = <<r, q, p>>
        PROVE  t = r /\ rest = <<q, p>> /\ Owes(r)
    BY <2>3 DEF Owes
  <2> HIDE DEF t, rest
  <2>4. ASSUME NEW r \in Replies \cup {"window_adjust", "close"}, srv.owes = <<r>>
        PROVE  /\ rest \in Debts /\ t \in Replies \cup OfPrograms /\ Owes(t)
               /\ t \notin {"channel_data", "keepalive", "extended_data", "kexinit"}
    <3>1. t = r /\ rest = <<>> /\ Owes(t)
      BY <2>1, <2>4
    <3>2. <<>> \in Debts
      BY DEF Debts
    <3> QED  BY <3>1, <3>2, Names DEF OfPrograms
  <2>5. /\ <<"channel_success">> \in Debts /\ <<"close">> \in Debts /\ <<"eof", "close">> \in Debts
        /\ <<"exit_status", "close">> \in Debts
    BY Names DEF Debts
  <2>6. CASE srv.owes = <<"window_adjust", "channel_success">>
    BY <2>2, <2>5, <2>6, Names DEF OfPrograms
  <2>7. CASE srv.owes = <<"eof", "close">>
    BY <2>2, <2>5, <2>7, Names DEF OfPrograms
  <2>8. CASE srv.owes = <<"exit_status", "eof", "close">>
    BY <2>3, <2>5, <2>8, Names DEF OfPrograms
  <2>9. CASE srv.owes = <<"eof", "exit_status", "close">>
    <3>1. t = "eof" /\ rest = <<"exit_status", "close">> /\ Owes("eof")
      BY <2>3, <2>9
    <3> QED  BY <2>5, <3>1, Names DEF OfPrograms
  <2>10. CASE srv.owes = <<"exit_status", "close">>
    BY <2>2, <2>5, <2>10, Names DEF OfPrograms
  <2>11. CASE \E r \in Replies \cup {"window_adjust", "close"} : srv.owes = <<r>>
    BY <2>4, <2>11
  <2>12. \/ \E r \in Replies \cup {"window_adjust", "close"} : srv.owes = <<r>>
         \/ srv.owes = <<"window_adjust", "channel_success">>
         \/ srv.owes = <<"eof", "close">>
         \/ srv.owes = <<"exit_status", "eof", "close">>
         \/ srv.owes = <<"eof", "exit_status", "close">>
         \/ srv.owes = <<"exit_status", "close">>
    BY <1>1, <1>2 DEF Debts
  <2> QED  BY <2>6, <2>7, <2>8, <2>9, <2>10, <2>11, <2>12
<1>4. Msg(t) \in Messages /\ Msg(t).type = t
  <2>1. t \in MessageTypes
    BY <1>3, Names DEF MessageTypes, OfPrograms
  <2>2. 0 \in 0 .. MaxOut + MaxLines
    BY ClientAssumption
  <2> QED  BY <2>1, <2>2 DEF Msg, Messages
<1>5. \A s : Owes(s)' => Owes(s)
  <2>1. srv'.owes = rest /\ srv.owes \in Seq(MessageTypes) /\ srv.owes # <<>>
    BY <1>1, <1>2, DebtsTyped DEF Typed, StateTyped
  <2>2. Len(rest) \in Nat /\ Len(srv.owes) = Len(rest) + 1
        /\ \A i \in 1 .. Len(rest) : rest[i] = srv.owes[i + 1]
    BY <2>1
  <2> HIDE DEF rest
  <2>3. \A i \in 1 .. Len(rest) : i + 1 \in 1 .. Len(srv.owes)
    BY <2>2
  <2> QED  BY <2>1, <2>2, <2>3 DEF Owes
<1> HIDE DEF t, rest
<1>6. /\ srv'.at = srv.at /\ srv'.owes = rest /\ srv'.written = srv.written
      /\ srv'.done = srv.done /\ srv'.client = srv.client
      /\ srv' \in [at : {"service", "auth", "conn", "channel", "running"},
              owes : Debts, written : 0 .. MaxOut, input : 0 .. MaxLines,
              done : BOOLEAN, client : {"open", "eof", "close"},
              asleep : BOOLEAN]
  BY <1>1, <1>2, <1>3 DEF Typed, StateTyped
<1>7. PICK n \in DnComing' :
        /\ Dn(n)' = t
        /\ \A i \in DnComing : i < n /\ ~(n < i) /\ i # n
        /\ \A i \in DnComing' : i \in DnComing \/ i = n
  BY <1>1, <1>4, Told
<1>8. /\ \A i \in DnComing : i \in DnComing' /\ Dn(i)' = Dn(i)
      /\ UpComing' = UpComing /\ \A i : Up(i)' = Up(i)
      /\ (NoRequest' <=> NoRequest) /\ ChannelTyped'
  BY <1>1, <1>4, Told
<1>9. OutputInOrder' /\ ErrorCaused'
  BY <1>1, <1>3, <1>4, <1>6, Told
<1>10. Typed'
  BY <1>1, <1>2, <1>6, <1>8 DEF Typed, StateTyped
<1>11. NoRequest
  BY <1>1 DEF Inv, UpWelcome, NoRequest
<1>12. UpWelcome'
  BY <1>1, <1>6, <1>8, <1>11 DEF Inv, UpWelcome, NoRequest
<1>13. Alternating'
  <2>1. pc \notin Stages
    BY <1>1 DEF Inv, Alternating
  <2>2. ASSUME NEW s \in Opening, Awaited(s)
        PROVE  Awaited(s)'
    <3>1. s \in Asking
      BY <2>2 DEF Asking
    <3>2. /\ NoReply
          /\ \/ srv.owes = <<Answer[s]>> /\ srv.at = Granting[s]
             \/ srv.owes = <<Failure[s]>> /\ srv.at = Phase[s]
      BY <1>1, <1>11, <2>2, <3>1 DEF Awaited, NoRequest
    <3>3. /\ rest = <<>>
          /\ \/ t = Answer[s] /\ srv.at = Granting[s]
             \/ t = Failure[s] /\ srv.at = Phase[s]
      BY <1>0, <3>2
    <3>4. \A j \in DnComing' : Dn(j)' \in Replies => j = n
      BY <1>7, <1>8, <3>2 DEF NoReply
    <3> QED  BY <1>6, <1>7, <1>8, <1>11, <3>3, <3>4 DEF Awaited
  <2> QED  BY <1>1, <1>8, <2>1, <2>2 DEF Inv, Alternating
<1>14. Asked'
  <2>1. want = "any" => /\ \A i \in DnComing' : Dn(i)' \in Replies => Dn(i)' \in {"channel_success", "channel_failure"}
                        /\ \A s \in Replies : Owes(s)' => s \in {"channel_success", "channel_failure"}
    BY <1>3, <1>5, <1>7, <1>8 DEF Inv, Asked
  <2> QED  BY <1>1, <1>6, <1>8, <2>1 DEF Inv, Asked
<1>15. DnTimely'
  <2>1. srv.at # "running" => t \notin OfPrograms
    BY <1>3 DEF Inv, DnTimely
  <2>2. t \in {"eof", "close"} => srv.done
    BY <1>3 DEF Inv, DnTimely
  <2>3. ASSUME NEW i \in DnComing'
        PROVE  /\ Dn(i)' \in Replies \cup OfPrograms \cup Skipped \cup
                    {"global", "global_wants_reply", "disconnect"}
               /\ Dn(i)' \in {"eof", "close"} => srv.done
               /\ Dn(i)' = "global_wants_reply" => srv.at \in {"conn", "channel", "running"}
               /\ Dn(i)' = "disconnect" => ~link
    BY <1>3, <1>7, <1>8, <2>2, Names DEF Inv, DnTimely, OfPrograms
  <2>4. ASSUME NEW i \in DnComing', NEW j \in DnComing',
               Dn(i)' \in {"eof", "close"}, Dn(j)' = "channel_data"
        PROVE  j < i
    <3>1. j \in DnComing /\ Dn(j) = "channel_data"
      BY <1>3, <1>7, <1>8, <2>4
    <3> QED  BY <1>7, <1>8, <2>4, <3>1 DEF Inv, DnTimely
  <2>5. srv.at # "running" => \A i \in DnComing' : Dn(i)' \notin OfPrograms
    BY <1>7, <1>8, <2>1 DEF Inv, DnTimely
  <2> QED  BY <1>1, <1>5, <1>6, <2>3, <2>4, <2>5 DEF Inv, DnTimely
<1>16. BannersEarly'
  <2>1. t # "banner"
    BY <1>3, Names DEF OfPrograms
  <2> QED  BY <1>1, <1>6, <1>7, <1>8, <2>1 DEF Inv, BannersEarly, Authenticating
<1> QED  BY <1>9, <1>10, <1>12, <1>13, <1>14, <1>15, <1>16 DEF Inv

\* The program writes a piece.
LEMMA ProgramWritesKeeps ==
  ASSUME Inv, ProgramWrites
  PROVE  Inv'
<1> DEFINE k == srv.written + 1
           m == Data(k)
<1>1. /\ srv.at = "running" /\ srv.owes = <<>> /\ ~srv.done /\ srv.written < MaxOut
      /\ Chan!SendDown(m) /\ srv' = [srv EXCEPT !.written = k]
      /\ UNCHANGED <<mode, pc, want, shown, fetched, typed, link, noise>>
  BY DEF ProgramWrites, client
<1>2. /\ Typed /\ srv.written \in 0 .. MaxOut /\ MaxOut \in Nat /\ MaxLines \in Nat
      /\ shown \in Nat /\ shown <= srv.written
  BY ClientAssumption DEF Inv, Typed, StateTyped, OutputInOrder
<1>3. k \in 1 .. MaxOut /\ k \in 1 .. MaxOut + MaxLines
  BY <1>1, <1>2
<1>4. m \in Messages /\ m.type = "channel_data" /\ m.n = k
  BY <1>3, MessageForms
<1> HIDE DEF m
<1>5. /\ srv'.at = srv.at /\ srv'.owes = srv.owes /\ srv'.written = k
      /\ srv'.done = srv.done /\ srv'.client = srv.client
      /\ srv' \in [at : {"service", "auth", "conn", "channel", "running"},
              owes : Debts, written : 0 .. MaxOut, input : 0 .. MaxLines,
              done : BOOLEAN, client : {"open", "eof", "close"},
              asleep : BOOLEAN]
  BY <1>1, <1>2, <1>3 DEF Typed, StateTyped
<1>6. PICK n \in DnComing' :
        /\ dnSent'[n] = m /\ Dn(n)' = m.type /\ ~(n < n)
        /\ \A i \in DnComing : i < n /\ ~(n < i) /\ i # n
        /\ \A i \in DnComing' : i \in DnComing \/ i = n
  BY <1>1, <1>4, Told
<1>7. /\ \A i \in DnComing : i \in DnComing' /\ Dn(i)' = Dn(i) /\ dnSent'[i] = dnSent[i]
      /\ UpComing' = UpComing /\ \A i : Up(i)' = Up(i)
      /\ (NoRequest' <=> NoRequest) /\ ChannelTyped' /\ ErrorCaused'
  BY <1>1, <1>4, Told
<1>8. Typed'
  BY <1>1, <1>2, <1>5, <1>7 DEF Typed, StateTyped
<1>9. UpWelcome'
  BY <1>1, <1>5, <1>7 DEF Inv, UpWelcome
<1>10. want = "any" /\ pc \notin Stages /\ want \notin {Answer[s] : s \in Opening}
  <2>1. want = "any"
    BY <1>1 DEF Inv, Asked
  <2> QED  BY <2>1, Names DEF Inv, Alternating
<1>11. Alternating'
  BY <1>1, <1>7, <1>10 DEF Inv, Alternating
<1>12. "channel_data" \notin Replies
  BY Names
<1>13. Asked'
  BY <1>1, <1>4, <1>5, <1>6, <1>7, <1>10, <1>12 DEF Inv, Asked, Owes
<1>14. DnTimely'
  <2>1. \A i \in DnComing' : i \in DnComing \/ Dn(i)' = "channel_data"
    BY <1>4, <1>6
  <2>2. ASSUME NEW i \in DnComing'
        PROVE  /\ Dn(i)' \in Replies \cup OfPrograms \cup Skipped \cup
                    {"global", "global_wants_reply", "disconnect"}
               /\ Dn(i)' \notin {"eof", "close"}
               /\ Dn(i)' = "disconnect" => ~link
    BY <1>1, <1>7, <2>1 DEF Inv, DnTimely, OfPrograms
  <2> QED  BY <1>1, <1>5, <2>2 DEF Inv, DnTimely, Owes
<1>15. BannersEarly'
  BY <1>1, <1>4, <1>5, <1>6, <1>7 DEF Inv, BannersEarly, Authenticating
<1>16. OutputInOrder'
  <2>1. \A i \in DnComing : Dn(i) = "channel_data" =>
          dnSent[i].n \in shown + 1 .. srv.written
    BY DEF Inv, OutputInOrder
  <2>2. \A i \in DnComing' : Dn(i)' = "channel_data" => dnSent'[i].n \in shown + 1 .. k
    <3>1. \A i \in DnComing : Dn(i) = "channel_data" => dnSent[i].n \in shown + 1 .. k
      BY <1>2, <2>1
    <3>2. k \in shown + 1 .. k
      BY <1>2
    <3> QED  BY <1>4, <1>6, <1>7, <3>1, <3>2
  <2>3. \A i \in DnComing : Dn(i) = "channel_data" => dnSent[i].n < k
    BY <1>2, <2>1
  <2>4. \A i, j \in DnComing' :
          Dn(i)' = "channel_data" /\ Dn(j)' = "channel_data" /\ i < j => dnSent'[i].n < dnSent'[j].n
    <3>1. \A i, j \in DnComing' : i < j => i \in DnComing
      BY <1>6, <1>7
    <3>2. \A i, j \in DnComing :
            Dn(i) = "channel_data" /\ Dn(j) = "channel_data" /\ i < j => dnSent[i].n < dnSent[j].n
      BY DEF Inv, OutputInOrder
    <3> QED  BY <1>4, <1>6, <1>7, <2>3, <3>1, <3>2
  <2>5. ASSUME NEW l \in shown + 1 .. k
        PROVE  \E i \in DnComing' : Dn(i)' = "channel_data" /\ dnSent'[i].n = l
    <3>1. CASE l = k
      BY <1>4, <1>6, <3>1
    <3>2. CASE l # k
      <4>1. l \in shown + 1 .. srv.written
        BY <1>2, <2>5, <3>2
      <4> QED  BY <1>7, <4>1 DEF Inv, OutputInOrder
    <3> QED  BY <3>1, <3>2
  <2>6. shown <= k
    BY <1>2
  <2> QED  BY <1>1, <1>5, <2>2, <2>4, <2>5, <2>6 DEF OutputInOrder
<1> QED  BY <1>7, <1>8, <1>9, <1>11, <1>13, <1>14, <1>15, <1>16 DEF Inv

\* The program ends: its EOF and CLOSE follow its output.
LEMMA ProgramExitsKeeps ==
  ASSUME Inv, ProgramExits
  PROVE  Inv'
<1>1. PICK e \in Endings :
        /\ srv.at = "running" /\ srv.owes = <<>> /\ ~srv.done
        /\ srv' = [srv EXCEPT !.done = TRUE, !.owes = e]
        /\ UNCHANGED <<mode, pc, want, shown, fetched, typed, link, noise, channel>>
  BY DEF ProgramExits, client
<1>2. Typed
  BY DEF Inv
<1>3. e \in Debts /\ \A i \in 1 .. Len(e) : e[i] \in {"exit_status", "eof", "close"}
  <2>1. e \in Debts
    BY DEF Endings, Debts
  <2>2. CASE e = <<"exit_status", "eof", "close">>
    BY <2>1, <2>2
  <2>3. CASE e = <<"eof", "exit_status", "close">>
    BY <2>1, <2>3
  <2>4. CASE e = <<"exit_status", "close">>
    BY <2>1, <2>4
  <2> QED  BY <2>2, <2>3, <2>4 DEF Endings
<1>4. /\ srv'.at = srv.at /\ srv'.owes = e /\ srv'.written = srv.written
      /\ srv'.done = TRUE /\ srv'.client = srv.client
      /\ srv' \in [at : {"service", "auth", "conn", "channel", "running"},
              owes : Debts, written : 0 .. MaxOut, input : 0 .. MaxLines,
              done : BOOLEAN, client : {"open", "eof", "close"},
              asleep : BOOLEAN]
  BY <1>1, <1>2, <1>3 DEF Typed, StateTyped
<1>5. /\ upSent' = upSent /\ upRcvd' = upRcvd /\ dnSent' = dnSent /\ dnRcvd' = dnRcvd
      /\ UpComing' = UpComing /\ DnComing' = DnComing
      /\ \A i : Up(i)' = Up(i) /\ Dn(i)' = Dn(i)
  BY <1>1 DEF channel, UpComing, DnComing, Up, Dn
<1>6. Typed'
  BY <1>1, <1>2, <1>4, <1>5 DEF Typed, StateTyped, ChannelTyped
<1>7. \A i \in UpComing : Up(i) \notin Asking
  <2>1. \A t \in Asking : Phase[t] # "running"
    BY Names DEF Asking
  <2> QED  BY <1>1, <2>1 DEF Inv, UpWelcome
<1>8. UpWelcome'
  BY <1>1, <1>4, <1>5, <1>7 DEF Inv, UpWelcome
<1>9. want = "any" /\ pc \notin Stages /\ want \notin {Answer[s] : s \in Opening}
  <2>1. want = "any"
    BY <1>1 DEF Inv, Asked
  <2> QED  BY <2>1, Names DEF Inv, Alternating
<1>10. Alternating'
  BY <1>1, <1>5, <1>9 DEF Inv, Alternating
<1>11. \A t : Owes(t)' => t \in {"exit_status", "eof", "close"}
  BY <1>3, <1>4 DEF Owes
<1>12. Asked'
  BY <1>1, <1>4, <1>5, <1>9, <1>11, Names DEF Inv, Asked
<1>13. DnTimely'
  BY <1>1, <1>4, <1>5 DEF Inv, DnTimely
<1>14. BannersEarly'
  BY <1>1, <1>4, <1>5 DEF Inv, BannersEarly, Authenticating
<1>15. OutputInOrder'
  BY <1>1, <1>4, <1>5, OutputKept DEF Inv
<1>16. ErrorCaused'
  BY <1>1, <1>5 DEF Inv, ErrorCaused, WasRefused
<1> QED  BY <1>6, <1>8, <1>10, <1>12, <1>13, <1>14, <1>15, <1>16 DEF Inv

\* What the server interjects, a DISCONNECT included, when it is timely.
LEMMA Interjected ==
  ASSUME Inv, NEW m \in Messages, Chan!SendDown(m),
         UNCHANGED <<mode, pc, want, shown, fetched, typed, srv>>,
         noise' \in 0 .. MaxNoise, link' \in BOOLEAN, link' => link,
         m.type \in Skipped \cup {"global", "global_wants_reply", "disconnect",
                                  "keepalive", "window_adjust", "extended_data", "kexinit"},
         m.type = "banner" => srv.at = "auth" /\ srv.owes = <<>>,
         m.type = "global_wants_reply" => srv.at \in {"conn", "channel", "running"},
         m.type \in OfPrograms => srv.at = "running",
         m.type = "disconnect" => ~link'
  PROVE  Inv'
<1>1. PICK n \in DnComing' :
        /\ Dn(n)' = m.type
        /\ \A i \in DnComing : i < n /\ ~(n < i) /\ i # n
        /\ \A i \in DnComing' : i \in DnComing \/ i = n
  BY Told
<1>2. /\ m.type \notin Replies \cup {"channel_data", "eof", "close"}
      /\ m.type \in OfPrograms \cup Skipped \cup {"global", "global_wants_reply", "disconnect"}
  BY Names DEF Skipped, OfPrograms
<1>3. /\ \A i \in DnComing : i \in DnComing' /\ Dn(i)' = Dn(i)
      /\ UpComing' = UpComing /\ \A i : Up(i)' = Up(i)
      /\ (NoRequest' <=> NoRequest) /\ ChannelTyped' /\ ErrorCaused'
  BY Told
<1>4. OutputInOrder'
  BY <1>2, Told
<1>5. Typed'
  BY <1>3 DEF Inv, Typed, StateTyped
<1>6. UpWelcome'
  BY <1>3 DEF Inv, UpWelcome
<1>7. NoReply => NoReply'
  BY <1>1, <1>2, <1>3 DEF NoReply
<1>8. ASSUME NEW s \in Opening, Awaited(s)
      PROVE  Awaited(s)'
  <2>1. CASE (\E i \in UpComing : Up(i) = s) /\ NoReply
    BY <1>3, <1>7, <2>1 DEF Awaited
  <2>2. CASE /\ NoRequest /\ NoReply
             /\ \/ srv.owes = <<Answer[s]>> /\ srv.at = Granting[s]
                \/ srv.owes = <<Failure[s]>> /\ srv.at = Phase[s]
    BY <1>3, <1>7, <2>2 DEF Awaited
  <2>3. ASSUME NoRequest, srv.owes = <<>>, NEW i \in DnComing,
               \A j \in DnComing : Dn(j) \in Replies => j = i,
               \/ Dn(i) = Answer[s] /\ srv.at = Granting[s]
               \/ Dn(i) = Failure[s] /\ srv.at = Phase[s]
        PROVE  Awaited(s)'
    <3>1. \A j \in DnComing' : Dn(j)' \in Replies => j = i
      BY <1>1, <1>2, <1>3, <2>3
    <3> QED  BY <1>3, <2>3, <3>1 DEF Awaited
  <2> QED  BY <1>8, <2>1, <2>2, <2>3 DEF Awaited
<1>9. Alternating'
  BY <1>3, <1>7, <1>8 DEF Inv, Alternating
<1>10. Asked'
  <2>1. \A t : Owes(t)' <=> Owes(t)
    BY DEF Owes
  <2>2. want = "any" => \A i \in DnComing' :
          Dn(i)' \in Replies => Dn(i)' \in {"channel_success", "channel_failure"}
    BY <1>1, <1>2, <1>3 DEF Inv, Asked
  <2> QED  BY <1>3, <2>1, <2>2 DEF Inv, Asked
<1>11. DnTimely'
  <2>1. \A t : Owes(t)' <=> Owes(t)
    BY DEF Owes
  <2>2. ASSUME NEW i \in DnComing'
        PROVE  /\ Dn(i)' \in Replies \cup OfPrograms \cup Skipped \cup
                    {"global", "global_wants_reply", "disconnect"}
               /\ Dn(i)' \in {"eof", "close"} => srv.done
               /\ Dn(i)' = "global_wants_reply" => srv.at \in {"conn", "channel", "running"}
               /\ Dn(i)' = "disconnect" => ~link'
    <3>1. CASE i \in DnComing
      BY <1>3, <3>1 DEF Inv, DnTimely
    <3>2. CASE i = n
      BY <1>1, <1>2, <3>2
    <3> QED  BY <1>1, <3>1, <3>2
  <2>3. \A i, j \in DnComing' :
          Dn(i)' \in {"eof", "close"} /\ Dn(j)' = "channel_data" => j < i
    BY <1>1, <1>2, <1>3 DEF Inv, DnTimely
  <2>4. srv.at # "running" => \A i \in DnComing' : Dn(i)' \notin OfPrograms
    BY <1>1, <1>3 DEF Inv, DnTimely
  <2> QED  BY <2>1, <2>2, <2>3, <2>4 DEF Inv, DnTimely
<1>12. BannersEarly'
  <2>1. ASSUME srv.at = "auth", srv.owes = <<>>, Authenticating, pc # "error"
        PROVE  \A i \in DnComing : Dn(i) # "userauth_success"
    <3>1. "userauth_success" \in Replies
      BY Names
    <3>2. CASE pc = "userauth_request"
      BY <3>1, <3>2, Names DEF Inv, Alternating, NoReply
    <3>3. CASE pc # "userauth_request"
      <4>1. PICK s \in Opening :
              want = Answer[s] /\ s \in {"service_request", "userauth_request"}
        BY <2>1, <3>3, Names DEF Authenticating
      <4>2. pc \in {"expect", "decline"}
        BY <2>1, <3>3, <4>1, Names DEF Inv, Alternating, Typed, StateTyped, Authenticating
      <4>3. Awaited(s)
        BY <4>1, <4>2 DEF Inv, Alternating
      <4> QED  BY <2>1, <3>1, <4>1, <4>3, Names DEF Awaited, NoReply
    <3> QED  BY <3>2, <3>3
  <2>2. m.type # "userauth_success"
    BY <1>2, Names
  <2>3. Authenticating' <=> Authenticating
    BY DEF Authenticating
  <2> QED  BY <1>1, <1>3, <2>1, <2>2, <2>3 DEF Inv, BannersEarly
<1> QED  BY <1>3, <1>4, <1>5, <1>6, <1>9, <1>10, <1>11, <1>12 DEF Inv

\* A message nobody asked for, or the end of the connection.
LEMMA ServerSpeaks ==
  ASSUME Inv, ServerNoise \/ ServerDisconnects
  PROVE  Inv'
<1>1. /\ link \in BOOLEAN /\ noise \in 0 .. MaxNoise /\ MaxNoise \in Nat
  BY ClientAssumption DEF Inv, Typed, StateTyped
<1>2. CASE ServerNoise
  <2>1. PICK k \in NoiseKinds : Timely(k) /\ Chan!SendDown(Msg(k))
    BY <1>2 DEF ServerNoise
  <2>2. Msg(k) \in Messages /\ Msg(k).type = k
    BY <2>1, MessageForms
  <2>3. /\ k \in {"banner", "ignore", "debug", "global", "global_wants_reply",
                  "keepalive", "window_adjust", "extended_data", "kexinit"}
        /\ k = "banner" => srv.at = "auth" /\ srv.owes = <<>>
        /\ k = "global_wants_reply" => srv.at \in {"conn", "channel", "running"}
        /\ k \in OfPrograms => srv.at = "running"
    BY <2>1, ClientAssumption DEF Timely, OfPrograms
  <2>4. noise < MaxNoise /\ noise' = noise + 1 /\ UNCHANGED <<client, typed, srv, link>>
    BY <1>2 DEF ServerNoise
  <2>5. noise' \in 0 .. MaxNoise
    BY <1>1, <2>4
  <2> QED  BY <1>1, <2>1, <2>2, <2>3, <2>4, <2>5, Interjected DEF Skipped, client
<1>3. CASE ServerDisconnects
  <2>1. /\ Chan!SendDown(Msg("disconnect")) /\ link' = FALSE
        /\ UNCHANGED <<client, typed, srv, noise>>
    BY <1>3 DEF ServerDisconnects
  <2>2. Msg("disconnect") \in Messages /\ Msg("disconnect").type = "disconnect"
    BY MessageForms
  <2> QED  BY <1>1, <2>1, <2>2, Interjected DEF OfPrograms, client
<1> QED  BY <1>2, <1>3

-----------------------------------------------------------------------------
(* The invariant, and what follows from it at once. *)

\* Where the session begins.
LEMMA InvInit == Init => Inv
<1> SUFFICES ASSUME Init PROVE Inv
  OBVIOUS
<1>1. /\ upSent = <<>> /\ upRcvd = <<>> /\ dnSent = <<>> /\ dnRcvd = <<>>
      /\ pc = "service_request" /\ want = "none" /\ mode \in Modes
      /\ shown = 0 /\ fetched = 0 /\ typed = 0 /\ link = TRUE /\ noise = 0
  BY DEF Init
<1>2. UpComing = {} /\ DnComing = {}
  BY <1>1 DEF UpComing, DnComing
<1>3. /\ srv.at = "service" /\ srv.owes = <<>> /\ srv.written = 0 /\ srv.done = FALSE
      /\ srv.client = "open" /\ ~ \E t : Owes(t)
  BY DEF Init, Owes
<1>4. Typed
  <2>1. <<>> \in Debts /\ MaxLines \in Nat /\ MaxOut \in Nat /\ MaxNoise \in Nat
    BY ClientAssumption DEF Debts
  <2>2. srv \in [at : {"service", "auth", "conn", "channel", "running"},
              owes : Debts, written : 0 .. MaxOut, input : 0 .. MaxLines,
              done : BOOLEAN, client : {"open", "eof", "close"},
              asleep : BOOLEAN]
    BY <2>1 DEF Init
  <2>3. StateTyped
    BY <1>1, <2>1, <2>2, Names DEF StateTyped
  <2> QED  BY <1>1, <2>3 DEF Typed, ChannelTyped
<1>5. UpWelcome
  BY <1>2 DEF UpWelcome
<1>6. Alternating
  BY <1>1, <1>2, <1>3, Names DEF Alternating, NoRequest, NoReply
<1>7. Asked
  BY <1>1, <1>2, <1>3 DEF Asked
<1>8. DnTimely
  BY <1>2, <1>3 DEF DnTimely
<1>9. BannersEarly
  BY <1>2, <1>3 DEF BannersEarly
<1>10. OutputInOrder
  BY <1>1, <1>2, <1>3 DEF OutputInOrder
<1>11. ErrorCaused
  BY <1>1 DEF ErrorCaused
<1> QED  BY <1>4, <1>5, <1>6, <1>7, <1>8, <1>9, <1>10, <1>11 DEF Inv

\* Any step keeps the invariant.
LEMMA InvStep == Inv /\ [Next]_vars => Inv'
<1> SUFFICES ASSUME Inv, [Next]_vars PROVE Inv'
  OBVIOUS
<1>1. CASE ClientStep
  BY <1>1, SendRequestKeeps, ClosesDown, ExpectWantedKeeps, ExpectSkipKeeps,
     ExpectGlobalKeeps, ExpectUnexpectedKeeps, DeclineKeeps, Idling, PumpDataKeeps,
     PumpKeeps, PumpUnexpectedKeeps, SendEofKeeps, InputLineKeeps
  DEF ClientStep
<1>2. CASE ServerStep \/ ProgramStep
  BY <1>2, ServerTakesKeeps, ServerNotesKeeps, ServerAnswersKeeps, ProgramWritesKeeps,
     ProgramExitsKeeps
  DEF ServerStep, ProgramStep
<1>3. CASE ShellRests \/ UserTypes \/ LinkLost \/ UNCHANGED vars
  BY <1>3, Idling
<1>4. CASE ServerNoise \/ ServerDisconnects
  BY <1>4, ServerSpeaks
<1> QED  BY <1>1, <1>2, <1>3, <1>4 DEF Next

\* The invariant holds throughout.
LEMMA InvHolds == Spec => []Inv
  BY InvInit, InvStep, PTL DEF Spec

\* Every variable of the session keeps its type, and out_fn never gets more than the
\* remote program wrote.
THEOREM ClientTypeCorrect == Spec => []TypeOK
<1>1. Inv => TypeOK
  <2> SUFFICES ASSUME Inv PROVE TypeOK
    OBVIOUS
  <2>1. StateTyped /\ ChannelTyped
    BY DEF Inv, Typed
  <2>2. shown \in 0 .. MaxOut
    <3>1. shown \in Nat /\ srv.written \in 0 .. MaxOut /\ shown <= srv.written /\ MaxOut \in Nat
      BY <2>1, ClientAssumption DEF Inv, StateTyped, OutputInOrder
    <3> QED  BY <3>1
  <2>3. srv \in [at : {"service", "auth", "conn", "channel", "running", "surprised"},
              owes : Seq(MessageTypes), written : 0 .. MaxOut, input : 0 .. MaxLines,
              done : BOOLEAN, client : {"open", "eof", "close"},
              asleep : BOOLEAN]
    BY <2>1, DebtsTyped DEF StateTyped
  <2>4. want \in {"none", "any", "service_accept", "userauth_success",
               "channel_open_confirmation", "channel_success"}
    BY <2>1, Names DEF StateTyped
  <2>5. \A s \in {upSent, upRcvd, dnSent, dnRcvd} : s \in Seq(Messages)
    BY <2>1 DEF ChannelTyped
  <2> QED  BY <2>1, <2>2, <2>3, <2>4, <2>5 DEF TypeOK, StateTyped
<1> QED  BY <1>1, InvHolds, PTL

\* Nothing the client says is out of place for the server, in any interleaving.
THEOREM ServerNotSurprised == Spec => []ServerNeverSurprised
<1>1. Inv => ServerNeverSurprised
  BY DEF Inv, Typed, StateTyped, ServerNeverSurprised
<1> QED  BY <1>1, InvHolds, PTL

\* -1 is returned only for a lost connection or a refusal, unless the server sends
\* what the client cannot do without: stderr or a new key exchange.
THEOREM ErrorExplained ==
  ASSUME Lacked \cap NoiseKinds = {}
  PROVE  Spec => []ErrorHasCause
<1>1. Lacked \cap MessageTypes = {}
  BY ClientAssumption, Names DEF Lacked, MessageTypes, Stages
<1>2. Inv => ErrorHasCause
  <2> SUFFICES ASSUME Inv PROVE ErrorHasCause
    OBVIOUS
  <2>1. \A i \in 1 .. Len(dnRcvd) : dnRcvd[i] \in Messages
    BY DEF Inv, Typed, ChannelTyped
  <2>2. \A m \in Messages : m.type \in MessageTypes
    BY DEF Messages
  <2>3. \A i \in 1 .. Len(dnRcvd) : dnRcvd[i].type \notin Lacked
    BY <1>1, <2>1, <2>2
  <2> QED  BY <2>3 DEF Inv, ErrorCaused, ErrorHasCause
<1> QED  BY <1>2, InvHolds, PTL

-----------------------------------------------------------------------------
(* Global requests and the answers to them are counted. *)

\* A message more counts where it has that type.
LEMMA CountAppend ==
  ASSUME NEW s \in Seq(Messages), NEW m \in Messages, NEW t
  PROVE  /\ Count(s, t) \in Nat
         /\ Count(Append(s, m), t) = IF m.type = t THEN Count(s, t) + 1 ELSE Count(s, t)
<1> DEFINE n == Len(s)
           S == {i \in 1 .. n : s[i].type = t}
           r == Append(s, m)
           T == {i \in 1 .. Len(r) : r[i].type = t}
<1>1. n \in Nat /\ Len(r) = n + 1 /\ r[n + 1] = m /\ \A i \in 1 .. n : r[i] = s[i]
  OBVIOUS
<1>2. S \subseteq 1 .. n /\ IsFiniteSet(S) /\ Cardinality(S) \in Nat /\ n + 1 \notin S
  <2>1. IsFiniteSet(1 .. n)
    BY <1>1, FS_Interval
  <2>2. IsFiniteSet(S)
    BY <2>1, FS_Subset
  <2> QED  BY <1>1, <2>2, FS_CardinalityType
<1>3. Count(s, t) = Cardinality(S) /\ Count(Append(s, m), t) = Cardinality(T)
  BY DEF Count
<1>4. 1 .. Len(r) = (1 .. n) \cup {n + 1}
  BY <1>1
<1>5. CASE m.type = t
  <2>1. T = S \cup {n + 1}
    BY <1>1, <1>4, <1>5
  <2>2. Cardinality(S \cup {n + 1}) = Cardinality(S) + 1
    BY <1>2, FS_AddElement
  <2> QED  BY <1>2, <1>3, <1>5, <2>1, <2>2
<1>6. CASE m.type # t
  <2>1. T = S
    BY <1>1, <1>4, <1>6
  <2> QED  BY <1>2, <1>3, <1>6, <2>1
<1> QED  BY <1>5, <1>6

\* What a step does to the two counts.
Balanced ==
  Count(upSent, "request_failure") + (IF pc = "decline" THEN 1 ELSE 0)
    = Count(dnRcvd, "global_wants_reply")

\* Sending, of which only declining answers a request.
LEMMA BalanceSent ==
  ASSUME Inv, NEW m \in Messages, Send(m), Balanced,
         m.type = "request_failure" <=> pc = "decline",
         pc' # "decline"
  PROVE  Balanced'
<1>1. /\ upSent \in Seq(Messages) /\ dnRcvd \in Seq(Messages)
      /\ upSent' = Append(upSent, m) /\ dnRcvd' = dnRcvd
  BY DEF Inv, Typed, ChannelTyped, Send, Chan!SendUp
<1>2. /\ Count(upSent, "request_failure") \in Nat
      /\ Count(upSent', "request_failure") =
           IF pc = "decline" THEN Count(upSent, "request_failure") + 1
                             ELSE Count(upSent, "request_failure")
  BY <1>1, CountAppend
<1>3. Count(dnRcvd', "global_wants_reply") = Count(dnRcvd, "global_wants_reply")
  BY <1>1
<1> QED  BY <1>2, <1>3 DEF Balanced, Count

\* Receiving, of which only a global request asks for an answer.
LEMMA BalanceReceived ==
  ASSUME Inv, Receive, Balanced, pc # "decline",
         Incoming.type = "global_wants_reply" <=> pc' = "decline"
  PROVE  Balanced'
<1>1. /\ upSent \in Seq(Messages) /\ dnRcvd \in Seq(Messages) /\ Incoming \in Messages
      /\ dnRcvd' = Append(dnRcvd, Incoming) /\ upSent' = upSent
  BY RecvDown DEF Inv, Typed, ChannelTyped, Receive, Chan!RecvDown, Incoming
<1>2. /\ Count(dnRcvd, "global_wants_reply") \in Nat
      /\ Count(dnRcvd', "global_wants_reply") =
           IF pc' = "decline" THEN Count(dnRcvd, "global_wants_reply") + 1
                              ELSE Count(dnRcvd, "global_wants_reply")
      /\ Count(upSent, "request_failure") \in Nat
  BY <1>1, CountAppend
<1>3. Count(upSent', "request_failure") = Count(upSent, "request_failure")
  BY <1>1
<1> QED  BY <1>2, <1>3 DEF Balanced, Count

\* Everything else.
LEMMA BalanceKept ==
  ASSUME Balanced, upSent' = upSent, dnRcvd' = dnRcvd, pc' = "decline" <=> pc = "decline"
  PROVE  Balanced'
  BY DEF Balanced, Count

\* Each step keeps the balance; one that ends the link need not.
LEMMA BalanceStep ==
  ASSUME Inv, Balanced, Next, link'
  PROVE  Balanced'
<1>1. Typed /\ link \in BOOLEAN
  BY DEF Inv, Typed, StateTyped
<1>2. "decline" \notin Stages
  BY Names
<1>3. CASE SendRequest
  <2>1. pc \in Stages /\ Send(Msg(Request[pc])) /\ pc' \in {"poll", "expect"}
    BY <1>3 DEF SendRequest
  <2>2. Request[pc] \in Opening \cup Modes
    BY <1>1, <2>1, Names, StageNames DEF Typed, StateTyped
  <2>3. Msg(Request[pc]) \in Messages /\ Msg(Request[pc]).type = Request[pc]
    BY <2>2, MessageForms
  <2>4. Request[pc] # "request_failure"
    BY <2>2, Names, ClientAssumption
  <2> QED  BY <1>2, <2>1, <2>3, <2>4, BalanceSent
<1>4. CASE Decline
  <2>1. pc = "decline" /\ pc' # "decline" /\ link' = link
    BY <1>4 DEF Decline
  <2>2. Send(Msg("request_failure"))
    BY <1>4, <2>1 DEF Decline
  <2>3. Msg("request_failure") \in Messages /\ Msg("request_failure").type = "request_failure"
    BY MessageForms
  <2> QED  BY <2>1, <2>2, <2>3, BalanceSent
<1>5. CASE SendEof
  <2>1. pc \in {"eof", "close"} /\ pc' # "decline" /\ link' = link
    BY <1>5 DEF SendEof
  <2>2. Send(Msg(pc))
    BY <1>5, <2>1 DEF SendEof
  <2>3. Msg(pc) \in Messages /\ Msg(pc).type = pc
    BY <2>1, MessageForms
  <2> QED  BY <2>1, <2>2, <2>3, BalanceSent
<1>6. CASE InputLine
  <2>1. pc = "input" /\ pc' = "poll" /\ fetched < typed /\ Send(Data(fetched + 1))
    BY <1>6 DEF InputLine
  <2>2. fetched + 1 \in 1 .. MaxOut + MaxLines
    BY <1>1, <2>1, ClientAssumption DEF Typed, StateTyped
  <2>3. Data(fetched + 1) \in Messages /\ Data(fetched + 1).type = "channel_data"
    BY <2>2, MessageForms
  <2> QED  BY <2>1, <2>3, BalanceSent
<1>7. CASE ExpectWanted
  <2>1. /\ pc = "expect" /\ Receive /\ Incoming.type = want /\ pc' = NextStage[want]
    BY <1>7 DEF ExpectWanted
  <2>2. want \in {Answer[s] : s \in Opening}
    BY <2>1 DEF Inv, Alternating
  <2>3. want # "global_wants_reply" /\ pc' # "decline"
    BY <2>1, <2>2, Names, StageNames
  <2> QED  BY <2>1, <2>3, BalanceReceived
<1>8. CASE ExpectSkip
  <2>1. pc = "expect" /\ Receive /\ Incoming.type # "global_wants_reply" /\ pc' = pc
    BY <1>8 DEF ExpectSkip, Skipped, client
  <2> QED  BY <2>1, BalanceReceived
<1>9. CASE ExpectGlobal \/ ExpectUnexpected
  <2>1. /\ pc = "expect" /\ Receive
        /\ Incoming.type = "global_wants_reply" <=> pc' = "decline"
    BY <1>9 DEF ExpectGlobal, ExpectUnexpected
  <2> QED  BY <2>1, BalanceReceived
<1>10. CASE PumpData \/ PumpIgnored \/ PumpGlobal \/ PumpEof \/ PumpClose \/ PumpUnexpected
  <2>1. /\ pc = "poll" /\ Receive
        /\ Incoming.type = "global_wants_reply" <=> pc' = "decline"
    BY <1>10 DEF PumpData, PumpIgnored, PumpGlobal, PumpEof, PumpClose, PumpUnexpected, Ignored
  <2> QED  BY <2>1, BalanceReceived
<1>11. CASE SendFails \/ RecvFails \/ PollTimeout \/ NoInput
  <2>1. upSent' = upSent /\ dnRcvd' = dnRcvd /\ pc # "decline" /\ pc' # "decline"
    BY <1>2, <1>11 DEF SendFails, RecvFails, PollTimeout, NoInput, channel
  <2> QED  BY <2>1, BalanceKept
<1>12. CASE ServerStep
  <2>1. upSent' = upSent /\ dnRcvd' = dnRcvd /\ pc' = pc
    BY <1>12 DEF ServerStep, ServerTakes, ServerNotes, ServerAnswers, Chan!RecvUp, Chan!SendDown,
                 client
  <2> QED  BY <2>1, BalanceKept
<1>13. CASE ProgramStep \/ ShellRests \/ UserTypes \/ ServerNoise \/ ServerDisconnects \/ LinkLost
  <2>1. upSent' = upSent /\ dnRcvd' = dnRcvd /\ pc' = pc
    BY <1>13 DEF ProgramStep, ProgramWrites, ProgramExits, ShellRests, UserTypes, ServerNoise,
                 ServerDisconnects, LinkLost, Chan!SendDown, channel, client
  <2> QED  BY <2>1, BalanceKept
<1> QED  BY <1>3, <1>4, <1>5, <1>6, <1>7, <1>8, <1>9, <1>10, <1>11, <1>12, <1>13
         DEF Next, ClientStep

\* Every global request that wants a reply gets exactly one REQUEST_FAILURE, as long as
\* the connection lasts.
THEOREM GlobalRequestsCounted == Spec => []GlobalRequestsAnswered
<1>1. Init => GlobalRequestsAnswered
  <2> SUFFICES ASSUME Init PROVE Balanced
    BY DEF GlobalRequestsAnswered, Balanced
  <2>1. upSent = <<>> /\ dnRcvd = <<>> /\ pc # "decline"
    BY DEF Init
  <2>2. \A t : Count(<<>>, t) = 0
    <3>1. \A t : {i \in 1 .. Len(<<>>) : <<>>[i].type = t} = {}
      OBVIOUS
    <3> QED  BY <3>1, FS_EmptySet DEF Count
  <2> QED  BY <2>1, <2>2 DEF Balanced
<1>2. Inv /\ GlobalRequestsAnswered /\ [Next]_vars => GlobalRequestsAnswered'
  <2> SUFFICES ASSUME Inv, GlobalRequestsAnswered, [Next]_vars, link'
               PROVE  Balanced'
    BY DEF GlobalRequestsAnswered, Balanced
  <2>1. CASE Next
    <3>1. link' => link
      <4>1. link \in BOOLEAN
        BY DEF Inv, Typed, StateTyped
      <4> QED  BY <2>1, <4>1 DEF Next, ClientStep, ServerStep, ProgramStep, SendRequest, SendFails,
         RecvFails, ExpectWanted, ExpectSkip, ExpectGlobal, ExpectUnexpected, Decline,
         PollTimeout, PumpData, PumpIgnored, PumpGlobal, PumpEof, PumpClose, PumpUnexpected,
         SendEof, InputLine, NoInput, ServerTakes, ServerNotes, ServerAnswers, ProgramWrites,
         ProgramExits, ShellRests, UserTypes, ServerNoise, ServerDisconnects, LinkLost
    <3>2. Balanced
      BY <3>1 DEF GlobalRequestsAnswered, Balanced
    <3> QED  BY <2>1, <3>2, BalanceStep
  <2>2. CASE UNCHANGED vars
    BY <2>2, BalanceKept DEF vars, channel, client, GlobalRequestsAnswered, Balanced
  <2> QED  BY <2>1, <2>2
<1> QED  BY <1>1, <1>2, InvHolds, PTL DEF Spec

-----------------------------------------------------------------------------
(* Client implements Session. *)

Result == CASE pc \in {"eof", "close", "closed"} -> "0"
            [] pc = "error" -> "-1"
            [] OTHER -> "none"

\* What sshe_client_run returns from where it stands.
LEMMA Results ==
  /\ pc \in {"eof", "close", "closed"} => Result = "0"
  /\ pc = "error" => Result = "-1"
  /\ pc \in Stages \cup {"expect", "decline", "poll", "input"} => Result = "none"
  BY Names DEF Result

\* The same, a step later.
LEMMA ResultsNext ==
  /\ pc' \in {"eof", "close", "closed"} => Result' = "0"
  /\ pc' = "error" => Result' = "-1"
  /\ pc' \in Stages \cup {"expect", "decline", "poll", "input"} => Result' = "none"
  /\ pc' = pc => Result' = Result
  BY Names DEF Result

\* At EOF or CLOSE the program is done and all it wrote was shown.
LEMMA AllShown ==
  ASSUME Inv, Receive, Incoming.type \in {"eof", "close"}
  PROVE  srv.done /\ shown = srv.written
<1>1. Typed /\ shown \in Nat /\ srv.written \in Nat /\ shown <= srv.written
  BY DEF Inv, Typed, StateTyped, OutputInOrder
<1>2. PICK h \in DnComing :
        /\ Dn(h) \in {"eof", "close"} /\ h \in Nat
        /\ \A i \in DnComing : i \in Nat /\ ~(i < h)
  <2>1. \A i \in DnComing : i \in Nat /\ ~(i < Len(dnRcvd) + 1)
    BY <1>1, Coming DEF DnComing
  <2> QED  BY <1>1, <2>1, RecvDown, Coming
<1>3. srv.done /\ \A i \in DnComing : Dn(i) # "channel_data"
  BY <1>2 DEF Inv, DnTimely
<1>4. ~ \E k \in shown + 1 .. srv.written : TRUE
  BY <1>3 DEF Inv, OutputInOrder
<1>5. shown < srv.written => shown + 1 \in shown + 1 .. srv.written
  BY <1>1
<1> QED  BY <1>1, <1>3, <1>4, <1>5

\* out_fn gets the output in order, and 0 means that all of it came: every step of the
\* session is one of the promise's, or none.
THEOREM ClientImplementsSession == Spec => SessionSpec
<1> DEFINE quiet == srv'.written = srv.written /\ srv'.done = srv.done /\ shown' = shown
<1>1. Init => Sess!Init
  <2>1. Init => pc \in Stages
    BY Names DEF Init
  <2> QED  BY <2>1, Results DEF Init, Sess!Init, Result
<1>2. Inv /\ [Next]_vars => [Sess!Next]_(Sess!vars)
  <2> SUFFICES ASSUME Inv, [Next]_vars
               PROVE  \/ Sess!Next
                      \/ quiet /\ Result' = Result
    BY DEF Sess!vars, Result
  <2>1. CASE SendRequest
    BY <2>1, Results, ResultsNext DEF SendRequest
  <2>2. CASE ExpectWanted
    <3>1. pc = "expect" /\ want \in {Answer[s] : s \in Opening}
      BY <2>2 DEF ExpectWanted, Inv, Alternating
    <3>2. NextStage[want] \in Stages
      BY <3>1, Names, StageNames
    <3> QED  BY <2>2, <3>1, <3>2, Results, ResultsNext DEF ExpectWanted
  <2>3. CASE ExpectSkip \/ UserTypes \/ LinkLost \/ ServerNoise \/ ServerDisconnects \/ UNCHANGED vars
    BY <2>3, ResultsNext DEF ExpectSkip, UserTypes, LinkLost, ServerNoise, ServerDisconnects,
       vars, client
  <2>4. CASE ExpectGlobal \/ Decline \/ PollTimeout \/ PumpIgnored \/ PumpGlobal \/ InputLine \/ NoInput
    <3>1. /\ pc \in {"expect", "decline", "poll", "input"}
          /\ pc' \in {"expect", "decline", "poll", "input"} /\ quiet
      BY <2>4 DEF ExpectGlobal, Decline, PollTimeout, PumpIgnored, PumpGlobal, InputLine, NoInput
    <3> QED  BY <3>1, Results, ResultsNext
  <2>5. CASE SendFails \/ RecvFails \/ ExpectUnexpected \/ PumpUnexpected
    <3>1. /\ pc \in Stages \cup {"input", "expect", "poll"} /\ pc' = "error" /\ quiet
      BY <2>5 DEF SendFails, RecvFails, ExpectUnexpected, PumpUnexpected
    <3>2. Sess!GiveUp
      BY <3>1, Results, ResultsNext DEF Sess!GiveUp, Result
    <3> QED  BY <3>2 DEF Sess!Next
  <2>6. CASE PumpData
    <3>1. /\ pc = "poll" /\ pc' = "input" /\ Receive /\ Incoming.type = "channel_data"
          /\ shown' = shown + 1 /\ UNCHANGED srv
      BY <2>6 DEF PumpData
    <3>2. shown < srv.written
      BY <3>1, NextPiece
    <3>3. Sess!Show
      BY <3>1, <3>2, Results, ResultsNext DEF Sess!Show, Result
    <3> QED  BY <3>3 DEF Sess!Next
  <2>7. CASE PumpEof \/ PumpClose
    <3>1. /\ pc = "poll" /\ pc' \in {"eof", "closed"} /\ Receive
          /\ Incoming.type \in {"eof", "close"} /\ quiet
      BY <2>7 DEF PumpEof, PumpClose
    <3>2. srv.done /\ shown = srv.written
      BY <3>1, AllShown
    <3>3. Sess!Close
      BY <3>1, <3>2, Results, ResultsNext DEF Sess!Close, Result
    <3> QED  BY <3>3 DEF Sess!Next
  <2>8. CASE SendEof
    BY <2>8, Results, ResultsNext DEF SendEof
  <2>9. CASE ServerTakes \/ ServerNotes \/ ServerAnswers \/ ShellRests
    <3>1. srv.written = srv'.written /\ srv.done = srv'.done
      <4>1. srv \in [at : {"service", "auth", "conn", "channel", "running"},
              owes : Debts, written : 0 .. MaxOut, input : 0 .. MaxLines,
              done : BOOLEAN, client : {"open", "eof", "close"},
              asleep : BOOLEAN]
        BY DEF Inv, Typed, StateTyped
      <4>2. CASE ServerTakes
        BY <4>1, <4>2 DEF ServerTakes
      <4>3. CASE ServerNotes
        BY <4>1, <4>3, Noting DEF ServerNotes
      <4>4. CASE ServerAnswers \/ ShellRests
        BY <4>1, <4>4 DEF ServerAnswers, ShellRests
      <4> QED  BY <2>9, <4>2, <4>3, <4>4
    <3>2. pc' = pc /\ shown' = shown
      BY <2>9 DEF ServerTakes, ServerNotes, ServerAnswers, ShellRests, client
    <3> QED  BY <3>1, <3>2, ResultsNext
  <2>10. CASE ProgramWrites
    <3>1. /\ ~srv.done /\ srv'.written = srv.written + 1 /\ srv'.done = srv.done
          /\ shown' = shown /\ pc' = pc
      BY <2>10 DEF ProgramWrites, client, Inv, Typed, StateTyped
    <3>2. Sess!Write
      BY <3>1, ResultsNext DEF Sess!Write, Result
    <3> QED  BY <3>2 DEF Sess!Next
  <2>11. CASE ProgramExits
    <3>1. /\ ~srv.done /\ srv'.written = srv.written /\ srv'.done = TRUE
          /\ shown' = shown /\ pc' = pc
      BY <2>11 DEF ProgramExits, client, Inv, Typed, StateTyped
    <3>2. Sess!Finish
      BY <3>1, ResultsNext DEF Sess!Finish, Result
    <3> QED  BY <3>2 DEF Sess!Next
  <2> QED
    BY <2>1, <2>2, <2>3, <2>4, <2>5, <2>6, <2>7, <2>8, <2>9, <2>10, <2>11
    DEF Next, ClientStep, ServerStep, ProgramStep
<1> QED  BY <1>1, <1>2, InvHolds, PTL DEF Spec, SessionSpec, Sess!Spec
=============================================================================
