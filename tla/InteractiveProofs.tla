-------------------------- MODULE InteractiveProofs -------------------------
(***************************************************************************)
(* The composition for every script of texts, every chunk size and every   *)
(* liberty of the server: what the server reads is what the user entered,  *)
(* and a session that ends cleanly has sent it.  What is proved of Client  *)
(* alone is used here too.                                                 *)
(***************************************************************************)
EXTENDS Interactive, SequenceTheorems, Induction

\* Client again, with its theorems.
CP == INSTANCE ClientProofs WITH
  mode <- "shell", Modes <- {"shell"}, shown <- printed, MaxLines <- MaxChunks

\* The steps of the composition are those of Client, or none: Client's types can be
\* used of it.
LEMMA ClientWithin == Spec => C!Spec
<1>1. Init => C!Init
  BY DEF Init
<1>2. ASSUME [Next]_vars PROVE [C!Next]_(C!vars)
  <2>1. CASE PumpStep
    BY <2>1 DEF PumpStep, C!Next
  <2>2. CASE InLineRest
    BY <2>2 DEF InLineRest, Returns, C!Next
  <2>3. CASE LineTyped
    BY <2>3 DEF LineTyped, Returns, C!Next, C!ClientStep
  <2>4. CASE NoLine
    BY <2>4 DEF NoLine, C!Next, C!ClientStep
  <2>5. CASE OtherEnd
    BY <2>5 DEF OtherEnd, C!Next
  <2>6. CASE UNCHANGED clientVars
    BY <2>6 DEF clientVars, C!vars, C!client, C!channel
  <2>7. InLineOsk \/ OskFrame \/ SessionReturns \/ Hands \/ Leave \/ UNCHANGED vars => UNCHANGED clientVars
    BY DEF InLineOsk, OskFrame, SessionReturns, Hands, Leave, vars
  <2> QED  BY <1>2, <2>1, <2>2, <2>3, <2>4, <2>5, <2>6, <2>7 DEF Next, InLine
<1> QED  BY <1>1, <1>2, PTL DEF Spec, C!Spec

-----------------------------------------------------------------------------
(* The two instances of Client are one, so that its invariants hold here.  *)

\* The two instances of Client are one specification.
LEMMA SameClient ==
  /\ C!Init <=> CP!Init
  /\ C!Next <=> CP!Next
  /\ C!vars = CP!vars
<1>1. C!Init <=> CP!Init
  BY DEF C!Init, CP!Init
<1>2. C!vars = CP!vars
  BY DEF C!vars, CP!vars, C!client, CP!client, C!channel, CP!channel
<1>3. C!SendRequest <=> CP!SendRequest
  BY DEF C!SendRequest, CP!SendRequest, C!Stages, CP!Stages, C!Send, CP!Send,
         C!Chan!SendUp, CP!Chan!SendUp, C!Msg, CP!Msg, C!Request, CP!Request,
         C!Answer, CP!Answer
<1>4. C!SendFails <=> CP!SendFails
  BY DEF C!SendFails, CP!SendFails, C!Stages, CP!Stages, C!channel, CP!channel
<1>5. C!RecvFails <=> CP!RecvFails
  BY DEF C!RecvFails, CP!RecvFails, C!channel, CP!channel
<1>6. C!ExpectWanted <=> CP!ExpectWanted
  BY DEF C!ExpectWanted, CP!ExpectWanted, C!Arrived, CP!Arrived, C!Incoming,
         CP!Incoming, C!Receive, CP!Receive, C!Chan!RecvDown, CP!Chan!RecvDown,
         C!NextStage, CP!NextStage
<1>7. C!ExpectSkip <=> CP!ExpectSkip
  BY DEF C!ExpectSkip, CP!ExpectSkip, C!Arrived, CP!Arrived, C!Incoming,
         CP!Incoming, C!Skipped, CP!Skipped, C!Receive, CP!Receive,
         C!Chan!RecvDown, CP!Chan!RecvDown, C!client, CP!client
<1>8. C!ExpectGlobal <=> CP!ExpectGlobal
  BY DEF C!ExpectGlobal, CP!ExpectGlobal, C!Arrived, CP!Arrived, C!Incoming,
         CP!Incoming, C!Receive, CP!Receive, C!Chan!RecvDown, CP!Chan!RecvDown
<1>9. C!ExpectUnexpected <=> CP!ExpectUnexpected
  BY DEF C!ExpectUnexpected, CP!ExpectUnexpected, C!Arrived, CP!Arrived,
         C!Incoming, CP!Incoming, C!Skipped, CP!Skipped, C!Receive, CP!Receive,
         C!Chan!RecvDown, CP!Chan!RecvDown
<1>10. C!Decline <=> CP!Decline
  BY DEF C!Decline, CP!Decline, C!Send, CP!Send, C!Chan!SendUp, CP!Chan!SendUp,
         C!Msg, CP!Msg, C!channel, CP!channel
<1>11. C!PollTimeout <=> CP!PollTimeout
  BY DEF C!PollTimeout, CP!PollTimeout, C!Arrived, CP!Arrived, C!client, CP!client,
         C!channel, CP!channel
<1>12. C!PumpData <=> CP!PumpData
  BY DEF C!PumpData, CP!PumpData, C!Arrived, CP!Arrived, C!Incoming, CP!Incoming,
         C!Receive, CP!Receive, C!Chan!RecvDown, CP!Chan!RecvDown
<1>13. C!PumpIgnored <=> CP!PumpIgnored
  BY DEF C!PumpIgnored, CP!PumpIgnored, C!Arrived, CP!Arrived, C!Incoming,
         CP!Incoming, C!Ignored, CP!Ignored, C!Receive, CP!Receive,
         C!Chan!RecvDown, CP!Chan!RecvDown
<1>14. C!PumpGlobal <=> CP!PumpGlobal
  BY DEF C!PumpGlobal, CP!PumpGlobal, C!Arrived, CP!Arrived, C!Incoming,
         CP!Incoming, C!Receive, CP!Receive, C!Chan!RecvDown, CP!Chan!RecvDown
<1>15. C!PumpEof <=> CP!PumpEof
  BY DEF C!PumpEof, CP!PumpEof, C!Arrived, CP!Arrived, C!Incoming, CP!Incoming,
         C!Receive, CP!Receive, C!Chan!RecvDown, CP!Chan!RecvDown
<1>16. C!PumpClose <=> CP!PumpClose
  BY DEF C!PumpClose, CP!PumpClose, C!Arrived, CP!Arrived, C!Incoming, CP!Incoming,
         C!Receive, CP!Receive, C!Chan!RecvDown, CP!Chan!RecvDown
<1>17. C!PumpUnexpected <=> CP!PumpUnexpected
  BY DEF C!PumpUnexpected, CP!PumpUnexpected, C!Arrived, CP!Arrived, C!Incoming,
         CP!Incoming, C!Ignored, CP!Ignored, C!Receive, CP!Receive,
         C!Chan!RecvDown, CP!Chan!RecvDown
<1>18. C!SendEof <=> CP!SendEof
  BY DEF C!SendEof, CP!SendEof, C!Send, CP!Send, C!Chan!SendUp, CP!Chan!SendUp,
         C!Msg, CP!Msg, C!channel, CP!channel
<1>19. C!InputLine <=> CP!InputLine
  BY DEF C!InputLine, CP!InputLine, C!Send, CP!Send, C!Chan!SendUp, CP!Chan!SendUp,
         C!Data, CP!Data
<1>20. C!NoInput <=> CP!NoInput
  BY DEF C!NoInput, CP!NoInput, C!channel, CP!channel
<1>21. C!ServerTakes <=> CP!ServerTakes
  BY DEF C!ServerTakes, CP!ServerTakes, C!ServerReads, CP!ServerReads,
         C!Chan!RecvUp, CP!Chan!RecvUp, C!Granted, CP!Granted, C!channel,
         CP!channel, C!Refused, CP!Refused, C!Pending, CP!Pending, C!client,
         CP!client
<1>22. C!ServerNotes <=> CP!ServerNotes
  BY DEF C!ServerNotes, CP!ServerNotes, C!ServerReads, CP!ServerReads,
         C!Chan!RecvUp, CP!Chan!RecvUp, C!Granted, CP!Granted, C!channel,
         CP!channel, C!Pending, CP!Pending, C!Welcome, CP!Welcome, C!client,
         CP!client
<1>23. C!ServerAnswers <=> CP!ServerAnswers
  BY DEF C!ServerAnswers, CP!ServerAnswers, C!Chan!SendDown, CP!Chan!SendDown,
         C!Msg, CP!Msg, C!client, CP!client
<1>24. C!ProgramWrites <=> CP!ProgramWrites
  BY DEF C!ProgramWrites, CP!ProgramWrites, C!Window, CP!Window, C!Chan!SendDown,
         CP!Chan!SendDown, C!Data, CP!Data, C!client, CP!client
<1>25. C!ProgramExits <=> CP!ProgramExits
  BY DEF C!ProgramExits, CP!ProgramExits, C!Endings, CP!Endings, C!client,
         CP!client, C!channel, CP!channel
<1>26. C!ShellRests <=> CP!ShellRests
  BY DEF C!ShellRests, CP!ShellRests, C!client, CP!client, C!channel, CP!channel
<1>27. C!UserTypes <=> CP!UserTypes
  BY DEF C!UserTypes, CP!UserTypes, C!client, CP!client, C!channel, CP!channel
<1>28. C!ServerNoise <=> CP!ServerNoise
  BY DEF C!ServerNoise, CP!ServerNoise, C!Timely, CP!Timely, C!channel, CP!channel,
         C!Chan!SendDown, CP!Chan!SendDown, C!Msg, CP!Msg, C!client, CP!client
<1>29. C!ServerDisconnects <=> CP!ServerDisconnects
  BY DEF C!ServerDisconnects, CP!ServerDisconnects, C!Chan!SendDown,
         CP!Chan!SendDown, C!Msg, CP!Msg, C!client, CP!client
<1>30. C!LinkLost <=> CP!LinkLost
  BY DEF C!LinkLost, CP!LinkLost, C!client, CP!client, C!channel, CP!channel
<1> QED
  BY <1>1, <1>2, <1>3, <1>4, <1>5, <1>6, <1>7, <1>8, <1>9, <1>10, <1>11, <1>12,
     <1>13, <1>14, <1>15, <1>16, <1>17, <1>18, <1>19, <1>20, <1>21, <1>22,
     <1>23, <1>24, <1>25, <1>26, <1>27, <1>28, <1>29, <1>30
  DEF C!Next, CP!Next, C!ClientStep, CP!ClientStep, C!ServerStep, CP!ServerStep,
      C!ProgramStep, CP!ProgramStep

\* What is proved of Client holds of the client inside the composition.
LEMMA ClientTyped == Spec => []C!TypeOK
<1>1. CP!Spec => []CP!TypeOK
  <2>1. CP!ClientAssumption
    BY InteractiveAssumption
  <2> QED  BY <2>1, CP!ClientTypeCorrect, PTL
<1>2. C!Spec => CP!Spec
  <2>1. C!Init => CP!Init
    BY SameClient
  <2>2. [C!Next]_(C!vars) => [CP!Next]_(CP!vars)
    <3>1. C!Next <=> CP!Next
      BY SameClient
    <3>2. UNCHANGED C!vars <=> UNCHANGED CP!vars
      BY DEF C!vars, CP!vars, C!client, CP!client, C!channel, CP!channel
    <3> QED  BY <3>1, <3>2
  <2> QED  BY <2>1, <2>2, PTL DEF C!Spec, CP!Spec
<1>3. CP!TypeOK => C!TypeOK
  BY DEF CP!TypeOK, C!TypeOK, CP!Messages, C!Messages, CP!MessageTypes, C!MessageTypes, C!Stages, CP!Stages
<1> QED  BY <1>1, <1>2, <1>3, ClientWithin, PTL


-----------------------------------------------------------------------------
(* What has been typed, on its way from the keyboard to the server. *)

Chars == Nat \X Nat

\* The first k chunks put together, for each k.
Joins(f, parts) ==
  /\ f[0] = <<>>
  /\ \A k \in 1 .. Len(parts) : f[k] = f[k - 1] \o parts[k]

Begins(s, t) == s \in Seq(Chars) /\ Len(s) <= Len(t) /\ s = SubSeq(t, 1, Len(s))

\* in_line: what was entered is what was handed out and what waits, and a dialog
\* is opened only when nothing waits.
InLineInv ==
  /\ pending \in Seq(Chars) /\ entered \in Seq(Chars) /\ handed \in Seq(Chars)
  /\ lines \in Nat
  /\ handed \o pending = entered
  /\ caller = "session" => pending = <<>>

\* Each call that returned characters is one line of Client's user; together they
\* returned what was handed out.
Joined(parts, all) ==
  \E f : /\ Joins(f, parts) /\ f[Len(parts)] = all
         /\ \A k \in 0 .. Len(parts) : Begins(f[k], all)
ChunksInv ==
  /\ chunks \in Seq(Seq(Chars)) /\ Len(chunks) = typed
  /\ Joined(chunks, handed)

\* The server has read no line the client has not fetched.
ReadInv ==
  /\ \A i \in 1 .. Len(upSent) : upSent[i].n <= fetched
  /\ srv.input <= fetched

TypingInv == InLineInv /\ ChunksInv /\ ReadInv

\* A beginning stays one when the sequence grows.
LEMMA BeginsGrows ==
  ASSUME NEW s, NEW t \in Seq(Chars), NEW r \in Seq(Chars), Begins(s, t)
  PROVE  Begins(s, t \o r)
<1>1. s \in Seq(Chars) /\ Len(s) \in Nat /\ Len(s) <= Len(t)
  BY DEF Begins
<1>2. t \o r \in Seq(Chars) /\ Len(t \o r) = Len(t) + Len(r)
  BY ConcatProperties
<1>3. \A i \in 1 .. Len(s) : (t \o r)[i] = t[i]
  BY <1>1, ConcatProperties
<1>4. SubSeq(t \o r, 1, Len(s)) = SubSeq(t, 1, Len(s))
  BY <1>1, <1>2, <1>3
<1> QED  BY <1>1, <1>2, <1>4 DEF Begins

\* Every sequence begins itself.
LEMMA BeginsItself ==
  ASSUME NEW t \in Seq(Chars)
  PROVE  Begins(t, t)
  BY DEF Begins

\* A call more returns r: the joined lines grow by r.
LEMMA JoinedGrows ==
  ASSUME NEW parts \in Seq(Seq(Chars)), NEW all \in Seq(Chars), NEW r \in Seq(Chars),
         Joined(parts, all)
  PROVE  Joined(Append(parts, r), all \o r)
<1>1. PICK f : /\ Joins(f, parts) /\ f[Len(parts)] = all
               /\ \A k \in 0 .. Len(parts) : Begins(f[k], all)
  BY DEF Joined
<1>2. PICK m \in Nat : m = Len(parts)
  OBVIOUS
<1>3. PICK longer : longer = Append(parts, r)
  OBVIOUS
<1>4. /\ Len(longer) = m + 1 /\ longer[m + 1] = r
      /\ \A k \in 1 .. m : longer[k] = parts[k]
  BY <1>2, <1>3
<1>5. PICK g : g = [k \in 0 .. m + 1 |-> IF k <= m THEN f[k] ELSE all \o r]
  OBVIOUS
<1>6. /\ \A k \in 0 .. m : g[k] = f[k]
      /\ g[m + 1] = all \o r
  BY <1>5
<1>7. Joins(g, longer)
  <2>1. g[0] = <<>>
    BY <1>1, <1>6 DEF Joins
  <2>2. ASSUME NEW k \in 1 .. m + 1 PROVE g[k] = g[k - 1] \o longer[k]
    <3>1. CASE k <= m
      <4>1. k \in 0 .. m /\ k - 1 \in 0 .. m /\ k \in 1 .. m
        BY <3>1
      <4>2. f[k] = f[k - 1] \o parts[k]
        BY <1>1, <1>2, <4>1 DEF Joins
      <4> QED  BY <1>4, <1>6, <4>1, <4>2
    <3>2. CASE k = m + 1
      <4>1. k - 1 = m /\ m \in 0 .. m
        BY <3>2
      <4>2. g[k - 1] = all
        BY <1>1, <1>2, <1>6, <4>1
      <4>3. g[k] = all \o r /\ longer[k] = r
        BY <1>4, <1>6, <3>2
      <4> QED  BY <4>2, <4>3
    <3>3. k <= m \/ k = m + 1
      OBVIOUS
    <3> QED  BY <3>1, <3>2, <3>3
  <2> QED  BY <1>4, <2>1, <2>2 DEF Joins
<1>8. all \o r \in Seq(Chars)
  BY ConcatProperties
<1>9. ASSUME NEW k \in 0 .. m + 1 PROVE Begins(g[k], all \o r)
  <2>1. CASE k <= m
    BY <1>1, <1>2, <1>6, <2>1, BeginsGrows
  <2>2. CASE k = m + 1
    BY <1>6, <1>8, <2>2, BeginsItself
  <2> QED  BY <2>1, <2>2
<1> QED  BY <1>3, <1>4, <1>6, <1>7, <1>9 DEF Joined

\* Joining three pieces: in either order.
LEMMA Associates ==
  ASSUME NEW r \in Seq(Chars), NEW s \in Seq(Chars), NEW t \in Seq(Chars)
  PROVE  (r \o s) \o t = r \o (s \o t)
<1> DEFINE Elements == Chars
<1> HIDE DEF Elements
<1>1. r \in Seq(Elements) /\ s \in Seq(Elements) /\ t \in Seq(Elements)
  BY DEF Elements
<1> QED  BY <1>1, ConcatAssociative

\* main.c 315-324: what fits is handed out, the rest waits.
LEMMA HandOutSplits ==
  ASSUME NEW c \in Seq(Chars), handed \in Seq(Chars), A!HandOut(c)
  PROVE  \E r \in Seq(Chars) : /\ handed' = handed \o r
                               /\ pending' \in Seq(Chars)
                               /\ r \o pending' = c
                               /\ Returned = r
<1>1. ChunkSize \in Nat \ {0}
  BY InteractiveAssumption DEF A!AppAssumption
<1>2. PICK r : r = A!Fits(c)
  OBVIOUS
<1>3. PICK q : q = IF Len(c) <= ChunkSize THEN <<>> ELSE SubSeq(c, ChunkSize + 1, Len(c))
  OBVIOUS
<1>4. handed' = handed \o r /\ pending' = q
  BY <1>2, <1>3 DEF A!HandOut
<1>5. r \in Seq(Chars) /\ q \in Seq(Chars) /\ r \o q = c
  <2>1. CASE Len(c) <= ChunkSize
    <3>1. r = c
      BY <1>1, <1>2, <2>1 DEF A!Fits
    <3>2. q = <<>>
      BY <1>3, <2>1
    <3> QED  BY <3>1, <3>2, ConcatEmptySeq
  <2>2. CASE Len(c) > ChunkSize
    <3>1. r = SubSeq(c, 1, ChunkSize) /\ q = SubSeq(c, ChunkSize + 1, Len(c))
      BY <1>1, <1>2, <1>3, <2>2 DEF A!Fits
    <3>2. r \in Seq(Chars) /\ Len(r) = ChunkSize /\ \A i \in 1 .. ChunkSize : r[i] = c[i]
      BY <1>1, <2>2, <3>1
    <3>3. /\ q \in Seq(Chars) /\ Len(q) = Len(c) - ChunkSize
          /\ \A i \in 1 .. Len(c) - ChunkSize : q[i] = c[ChunkSize + i]
      <4>1. PICK a \in Nat, b \in Nat : a = ChunkSize + 1 /\ b = Len(c) /\ a <= b
        BY <1>1, <2>2
      <4>2. \A i \in a .. b : c[i] \in Chars
        <5>1. \A i \in a .. b : i \in 1 .. Len(c)
          BY <1>1, <4>1
        <5> QED  BY <5>1
      <4>3. /\ SubSeq(c, a, b) \in Seq(Chars) /\ Len(SubSeq(c, a, b)) = b - a + 1
            /\ \A i \in 1 .. b - a + 1 : SubSeq(c, a, b)[i] = c[a + i - 1]
        BY <4>1, <4>2, SubSeqProperties
      <4>4. q = SubSeq(c, a, b) /\ b - a + 1 = Len(c) - ChunkSize
        BY <1>1, <3>1, <4>1
      <4>5. \A i \in 1 .. Len(c) - ChunkSize : a + i - 1 = ChunkSize + i
        BY <1>1, <4>1
      <4> QED  BY <4>3, <4>4, <4>5
    <3>4. r \o q \in Seq(Chars) /\ Len(r \o q) = Len(c)
      <4>1. r \o q \in Seq(Chars) /\ Len(r \o q) = Len(r) + Len(q)
        BY <3>2, <3>3, ConcatProperties
      <4>2. Len(r) + Len(q) = Len(c)
        BY <1>1, <3>2, <3>3
      <4> QED  BY <4>1, <4>2
    <3>5. ASSUME NEW i \in 1 .. Len(c) PROVE (r \o q)[i] = c[i]
      <4>1. CASE i <= ChunkSize
        BY <1>1, <3>2, <3>3, <4>1, ConcatProperties
      <4>2. CASE i > ChunkSize
        <5>1. (r \o q)[i] = q[i - ChunkSize] /\ i - ChunkSize \in 1 .. Len(c) - ChunkSize
          <6>1. i - ChunkSize \in 1 .. Len(c) - ChunkSize /\ i \in 1 .. Len(r) + Len(q) /\ ~(i <= Len(r))
            BY <1>1, <3>2, <3>3, <4>2
          <6>2. (r \o q)[i] = q[i - Len(r)]
            BY <3>2, <3>3, <6>1, ConcatProperties
          <6> QED  BY <3>2, <6>1, <6>2
        <5>2. ChunkSize + (i - ChunkSize) = i
          BY <1>1
        <5> QED  BY <3>3, <5>1, <5>2
      <4>3. i <= ChunkSize \/ i > ChunkSize
        BY <1>1
      <4> QED  BY <4>1, <4>2, <4>3
    <3> QED  BY <3>2, <3>3, <3>4, <3>5, SeqEqual
  <2> QED  BY <1>1, <2>1, <2>2
<1>6. Returned = r
  <2>1. Returned = SubSeq(handed \o r, Len(handed) + 1, Len(handed \o r))
    BY <1>4 DEF Returned
  <2>2. handed \o r \in Seq(Chars) /\ Len(handed \o r) = Len(handed) + Len(r)
    BY <1>5, ConcatProperties
  <2>3. PICK s : s = SubSeq(handed \o r, Len(handed) + 1, Len(handed) + Len(r))
    OBVIOUS
  <2>4. /\ s \in Seq(Chars) /\ Len(s) = Len(r)
        /\ \A i \in 1 .. Len(r) : s[i] = (handed \o r)[Len(handed) + i]
    BY <1>5, <2>2, <2>3
  <2>5. \A i \in 1 .. Len(r) : s[i] = r[i]
    BY <1>5, <2>4, ConcatProperties
  <2>6. s = r
    BY <1>5, <2>4, <2>5, SeqEqual
  <2> QED  BY <2>1, <2>2, <2>3, <2>6
<1> QED  BY <1>4, <1>5, <1>6


\* The pump and the other end: a line is sent when it is fetched and read once it
\* was sent; everything else the client says counts nothing.
LEMMA ReadKept ==
  ASSUME C!TypeOK, ReadInv, C!Next \/ UNCHANGED clientVars
  PROVE  ReadInv'
<1>1. /\ upSent \in Seq(C!Messages) /\ fetched \in Nat /\ typed \in Nat
      /\ srv \in [at : {"service", "auth", "conn", "channel", "running", "surprised"},
                  owes : Seq(C!MessageTypes), written : 0 .. MaxOut, input : 0 .. MaxChunks,
                  done : BOOLEAN, client : {"open", "eof", "close"}, asleep : BOOLEAN]
  <2>1. MaxChunks \in Nat
    BY InteractiveAssumption DEF C!ClientAssumption
  <2> QED  BY <2>1 DEF C!TypeOK
<1>2. (\A i \in 1 .. Len(upSent) : upSent[i].n <= fetched) /\ srv.input <= fetched
  BY DEF ReadInv
<1>3. ASSUME NEW m, C!Send(m), m.n <= fetched', fetched' \in Nat, fetched <= fetched', srv' = srv
      PROVE  ReadInv'
  <2>1. upSent' = Append(upSent, m)
    BY <1>3 DEF C!Send, C!Chan!SendUp
  <2>2. /\ Len(upSent') = Len(upSent) + 1 /\ upSent'[Len(upSent) + 1] = m
        /\ \A i \in 1 .. Len(upSent) : upSent'[i] = upSent[i]
    BY <1>1, <2>1
  <2>3. Len(upSent) \in Nat
    BY <1>1
  <2>4. ASSUME NEW i \in 1 .. Len(upSent') PROVE upSent'[i].n <= fetched'
    <3>1. CASE i = Len(upSent) + 1
      BY <1>3, <2>2, <3>1
    <3>2. CASE i # Len(upSent) + 1
      <4>1. i \in 1 .. Len(upSent)
        BY <2>2, <2>3, <3>2
      <4>2. upSent[i] \in C!Messages
        BY <1>1, <4>1
      <4>3. upSent[i].n \in Int
        BY <4>2 DEF C!Messages
      <4> QED  BY <1>1, <1>2, <1>3, <2>2, <4>1, <4>3
    <3> QED  BY <3>1, <3>2
  <2> QED  BY <1>1, <1>2, <1>3, <2>4 DEF ReadInv
<1>4. ASSUME UNCHANGED <<upSent, fetched>>, srv'.input = srv.input
      PROVE  ReadInv'
  BY <1>2, <1>4 DEF ReadInv
<1>5. ASSUME C!ClientStep PROVE ReadInv'
  <2>1. CASE C!SendRequest
    BY <1>1, <1>3, <2>1 DEF C!SendRequest, C!Msg
  <2>2. CASE C!Decline
    BY <1>1, <1>3, <1>4, <2>2 DEF C!Decline, C!Msg, C!channel
  <2>3. CASE C!SendEof
    BY <1>1, <1>3, <1>4, <2>3 DEF C!SendEof, C!Msg, C!channel
  <2>4. CASE C!InputLine
    BY <1>1, <1>3, <2>4 DEF C!InputLine, C!Data
  <2>5. CASE C!SendFails \/ C!RecvFails \/ C!PollTimeout \/ C!NoInput
    BY <1>4, <2>5 DEF C!SendFails, C!RecvFails, C!PollTimeout, C!NoInput, C!channel
  <2>6. CASE \/ C!ExpectWanted \/ C!ExpectSkip \/ C!ExpectGlobal \/ C!ExpectUnexpected
             \/ C!PumpData \/ C!PumpIgnored \/ C!PumpGlobal \/ C!PumpEof \/ C!PumpClose
             \/ C!PumpUnexpected
    BY <1>4, <2>6
    DEF C!ExpectWanted, C!ExpectSkip, C!ExpectGlobal, C!ExpectUnexpected, C!PumpData,
        C!PumpIgnored, C!PumpGlobal, C!PumpEof, C!PumpClose, C!PumpUnexpected,
        C!Receive, C!Chan!RecvDown, C!client
  <2> QED  BY <1>5, <2>1, <2>2, <2>3, <2>4, <2>5, <2>6 DEF C!ClientStep
<1>6. ASSUME C!ServerStep PROVE ReadInv'
  <2>1. CASE C!ServerTakes
    <3>1. UNCHANGED <<upSent, fetched>>
      BY <2>1 DEF C!ServerTakes, C!Chan!RecvUp, C!client
    <3>2. PICK a, o : srv' = [srv EXCEPT !.at = a, !.owes = o]
      BY <2>1 DEF C!ServerTakes
    <3>3. srv'.input = srv.input
      BY <1>1, <3>2
    <3> QED  BY <1>4, <3>1, <3>3
  <2>2. CASE C!ServerNotes
    <3>1. /\ UNCHANGED <<upSent, fetched>> /\ Len(upRcvd) < Len(upSent)
          /\ srv' = IF C!Welcome
                      THEN [srv EXCEPT
                             !.input = IF C!Pending.type = "channel_data" THEN C!Pending.n ELSE @,
                             !.client = IF C!Pending.type \in {"eof", "close"} THEN C!Pending.type ELSE @]
                      ELSE [srv EXCEPT !.at = "surprised"]
      BY <2>2 DEF C!ServerNotes, C!Chan!RecvUp, C!client
    <3>2. srv'.input = srv.input \/ srv'.input = C!Pending.n
      BY <1>1, <3>1
    <3>3. Len(upRcvd) + 1 \in 1 .. Len(upSent)
      BY <1>1, <3>1 DEF C!TypeOK
    <3>4. C!Pending.n <= fetched
      BY <1>2, <3>3 DEF C!Pending
    <3> QED  BY <1>2, <3>1, <3>2, <3>4 DEF ReadInv
  <2>3. CASE C!ServerAnswers
    BY <1>1, <1>4, <2>3 DEF C!ServerAnswers, C!Chan!SendDown, C!client
  <2> QED  BY <1>6, <2>1, <2>2, <2>3 DEF C!ServerStep
<1>7. ASSUME \/ C!ProgramStep \/ C!ShellRests \/ C!UserTypes \/ C!ServerNoise
             \/ C!ServerDisconnects \/ C!LinkLost
      PROVE  ReadInv'
  <2>1. CASE C!ProgramWrites
    BY <1>1, <1>4, <2>1 DEF C!ProgramWrites, C!Chan!SendDown, C!client
  <2>2. CASE C!ProgramExits
    <3>1. PICK e : srv' = [srv EXCEPT !.done = TRUE, !.owes = e]
      BY <2>2 DEF C!ProgramExits
    <3> QED  BY <1>1, <1>4, <2>2, <3>1 DEF C!ProgramExits, C!channel, C!client
  <2>3. CASE C!ShellRests
    BY <1>1, <1>4, <2>3 DEF C!ShellRests, C!channel, C!client
  <2>4. CASE C!UserTypes
    BY <1>4, <2>4 DEF C!UserTypes, C!channel, C!client
  <2>5. CASE C!ServerNoise \/ C!ServerDisconnects
    BY <1>4, <2>5 DEF C!ServerNoise, C!ServerDisconnects, C!Chan!SendDown, C!client
  <2>6. CASE C!LinkLost
    BY <1>4, <2>6 DEF C!LinkLost, C!channel, C!client
  <2> QED  BY <1>7, <2>1, <2>2, <2>3, <2>4, <2>5, <2>6 DEF C!ProgramStep
<1>8. ASSUME UNCHANGED clientVars PROVE ReadInv'
  BY <1>4, <1>8 DEF clientVars
<1> QED  BY <1>5, <1>6, <1>7, <1>8 DEF C!Next


\* A step that hands nothing out and enters nothing.
LEMMA TypingQuiet ==
  ASSUME InLineInv, ChunksInv, UNCHANGED <<pending, entered, handed, lines, chunks, typed>>,
         caller' = "session" => caller = "session" \/ pending = <<>>
  PROVE  InLineInv' /\ ChunksInv'
<1>1. InLineInv'
  BY DEF InLineInv
<1>2. ChunksInv'
  BY DEF ChunksInv
<1> QED  BY <1>1, <1>2

\* in_line returns characters r: they were handed out, and are a line of Client's.
LEMMA TypingMore ==
  ASSUME ChunksInv, handed \in Seq(Chars),
         NEW r \in Seq(Chars), handed' = handed \o r, Returned = r, Returns
  PROVE  ChunksInv'
<1>1. chunks' = Append(chunks, r) /\ typed' = typed + 1
  BY DEF Returns, C!UserTypes
<1>2. chunks \in Seq(Seq(Chars)) /\ Len(chunks) = typed /\ Joined(chunks, handed)
  BY DEF ChunksInv
<1>3. chunks' \in Seq(Seq(Chars)) /\ Len(chunks') = typed'
  BY <1>1, <1>2
<1>4. Joined(chunks', handed')
  <2>1. Joined(Append(chunks, r), handed \o r)
    BY <1>2, JoinedGrows
  <2> QED  BY <1>1, <2>1
<1> QED  BY <1>3, <1>4 DEF ChunksInv

\* The rest of a line is handed out (main.c 317-332).
LEMMA InLineRestKeeps ==
  ASSUME InLineInv, ChunksInv, InLineRest
  PROVE  InLineInv' /\ ChunksInv'
<1>1. /\ A!HandOut(pending) /\ Returns /\ pending # <<>>
      /\ UNCHANGED <<caller, entered, lines>>
  BY DEF InLineRest, A!InLineRest
<1>2. /\ pending \in Seq(Chars) /\ handed \in Seq(Chars) /\ entered \in Seq(Chars)
      /\ lines \in Nat /\ handed \o pending = entered
      /\ caller # "session"
  BY <1>1 DEF InLineInv
<1>3. PICK r \in Seq(Chars) : /\ handed' = handed \o r
                              /\ pending' \in Seq(Chars)
                              /\ r \o pending' = pending
                              /\ Returned = r
  BY <1>1, <1>2, HandOutSplits
<1>4. handed' \o pending' = entered'
  <2>1. PICK a, b : a = handed /\ b = pending'
    OBVIOUS
  <2>2. a \in Seq(Chars) /\ b \in Seq(Chars) /\ r \in Seq(Chars)
    BY <1>2, <1>3, <2>1
  <2>3. (a \o r) \o b = a \o (r \o b)
    BY <2>2, Associates
  <2>4. (handed \o r) \o pending' = handed \o (r \o pending')
    BY <2>1, <2>3
  <2> QED  BY <1>1, <1>2, <1>3, <2>4
<1>5. handed' \in Seq(Chars)
  BY <1>2, <1>3, ConcatProperties
<1>6. InLineInv'
  BY <1>1, <1>2, <1>3, <1>4, <1>5 DEF InLineInv
<1>7. ChunksInv'
  BY <1>1, <1>2, <1>3, TypingMore
<1> QED  BY <1>6, <1>7

\* A line leaves the keyboard, as far as the buffer takes it.
LEMMA LineTypedKeeps ==
  ASSUME InLineInv, ChunksInv, LineTyped
  PROVE  InLineInv' /\ ChunksInv'
<1>1. /\ pending \in Seq(Chars) /\ handed \in Seq(Chars) /\ entered \in Seq(Chars)
      /\ lines \in Nat /\ handed \o pending = entered
      /\ caller = "session" => pending = <<>>
  BY DEF InLineInv
<1>2. caller = "session" /\ caller' = "none"
  BY DEF LineTyped, A!LineTyped, A!OskEnds
<1>3. /\ \/ UNCHANGED <<pending, entered, handed, lines>>
         \/ /\ \E len \in Lengths \ {0} :
                 /\ A!HandOut(A!Line(lines + 1, len))
                 /\ entered' = entered \o A!Line(lines + 1, len)
            /\ lines' = lines + 1
      /\ IF lines' = lines THEN C!NoInput /\ UNCHANGED chunks ELSE Returns
  BY DEF LineTyped, A!LineTyped, A!input
<1>4. CASE UNCHANGED <<pending, entered, handed, lines>>
  <2>1. C!NoInput /\ UNCHANGED chunks
    BY <1>3, <1>4
  <2>2. UNCHANGED typed
    BY <2>1 DEF C!NoInput
  <2> QED  BY <1>2, <1>4, <2>1, <2>2, TypingQuiet
<1>5. CASE /\ \E len \in Lengths \ {0} :
                /\ A!HandOut(A!Line(lines + 1, len))
                /\ entered' = entered \o A!Line(lines + 1, len)
           /\ lines' = lines + 1
  <2>1. PICK len \in Lengths \ {0} : /\ A!HandOut(A!Line(lines + 1, len))
                                     /\ entered' = entered \o A!Line(lines + 1, len)
    BY <1>5
  <2>2. PICK c : c = A!Line(lines + 1, len)
    OBVIOUS
  <2>3. c \in Seq(Chars)
    <3>1. len \in Nat
      BY InteractiveAssumption DEF A!AppAssumption
    <3>2. c = [i \in 1 .. len + 1 |-> <<lines + 1, i>>]
      BY <2>2 DEF A!Line
    <3>3. \A i \in 1 .. len + 1 : <<lines + 1, i>> \in Chars
      <4>1. lines + 1 \in Nat /\ \A i \in 1 .. len + 1 : i \in Nat
        BY <1>1, <3>1
      <4>2. \A x, y \in Nat : <<x, y>> \in Nat \X Nat
        OBVIOUS
      <4> QED  BY <4>1, <4>2 DEF Chars
    <3>4. len + 1 \in Nat /\ c \in [1 .. len + 1 -> Chars]
      BY <3>1, <3>2, <3>3
    <3> QED  BY <3>4
  <2>4. PICK r \in Seq(Chars) : /\ handed' = handed \o r
                                /\ pending' \in Seq(Chars)
                                /\ r \o pending' = c
                                /\ Returned = r
    BY <1>1, <2>1, <2>2, <2>3, HandOutSplits
  <2>5. handed' \o pending' = entered'
    <3>1. handed = entered
      BY <1>1, <1>2, ConcatEmptySeq
    <3>2. PICK a, b : a = handed /\ b = pending'
      OBVIOUS
    <3>3. a \in Seq(Chars) /\ b \in Seq(Chars) /\ r \in Seq(Chars)
      BY <1>1, <2>4, <3>2
    <3>4. (a \o r) \o b = a \o (r \o b)
      BY <3>3, Associates
    <3>5. (handed \o r) \o pending' = handed \o (r \o pending')
      BY <3>2, <3>4
    <3> QED  BY <2>1, <2>2, <2>4, <3>1, <3>5
  <2>6. handed' \in Seq(Chars) /\ entered' \in Seq(Chars)
    BY <1>1, <2>1, <2>2, <2>3, <2>4, ConcatProperties
  <2>7. lines' \in Nat /\ lines' # lines
    BY <1>1, <1>5
  <2>8. InLineInv'
    BY <1>2, <2>4, <2>5, <2>6, <2>7 DEF InLineInv
  <2>9. Returns
    BY <1>3, <2>7
  <2>10. ChunksInv'
    BY <1>1, <2>4, <2>9, TypingMore
  <2> QED  BY <2>8, <2>10
<1> QED  BY <1>3, <1>4, <1>5

\* Only in_line hands out characters.
LEMMA PumpTypesNothing ==
  ASSUME C!ClientStep \/ C!ServerStep \/ C!ProgramStep \/ C!ShellRests \/ C!LinkLost
  PROVE  UNCHANGED typed
  BY DEF C!ClientStep, C!SendRequest, C!SendFails, C!RecvFails, C!ExpectWanted, C!ExpectSkip,
         C!ExpectGlobal, C!ExpectUnexpected, C!Decline, C!PollTimeout, C!PumpData,
         C!PumpIgnored, C!PumpGlobal, C!PumpEof, C!PumpClose, C!PumpUnexpected, C!SendEof,
         C!InputLine, C!NoInput, C!ServerStep, C!ServerTakes, C!ServerNotes, C!ServerAnswers,
         C!ProgramStep, C!ProgramWrites, C!ProgramExits, C!ShellRests, C!LinkLost

\* The invariant holds throughout.
LEMMA TypingInvHolds == Spec => []TypingInv
<1>1. Init => TypingInv
  <2> SUFFICES ASSUME Init PROVE TypingInv
    OBVIOUS
  <2>1. /\ pending = <<>> /\ entered = <<>> /\ handed = <<>> /\ lines = 0 /\ caller = "none"
        /\ chunks = <<>> /\ typed = 0 /\ fetched = 0 /\ upSent = <<>>
    BY DEF Init, C!Init
  <2>2. srv.input = 0
    BY DEF Init, C!Init
  <2>3. InLineInv
    BY <2>1, ConcatEmptySeq DEF InLineInv
  <2>4. Joined(<<>>, <<>>)
    <3>1. PICK f : f = [k \in 0 .. 0 |-> <<>>]
      OBVIOUS
    <3>2. Joins(f, <<>>) /\ f[0] = <<>>
      BY <3>1 DEF Joins
    <3>3. Begins(<<>>, <<>>)
      BY DEF Begins
    <3> QED  BY <3>2, <3>3 DEF Joined
  <2>5. ChunksInv
    BY <2>1, <2>4 DEF ChunksInv
  <2>6. ReadInv
    BY <2>1, <2>2 DEF ReadInv
  <2> QED  BY <2>3, <2>5, <2>6 DEF TypingInv
<1>2. ASSUME TypingInv, C!TypeOK, [Next]_vars, [C!Next]_(C!vars)
      PROVE  TypingInv'
  <2>1. InLineInv /\ ChunksInv /\ ReadInv
    BY <1>2 DEF TypingInv
  <2>2. ReadInv'
    <3>1. C!Next \/ UNCHANGED clientVars
      BY <1>2 DEF C!vars, C!client, C!channel, clientVars
    <3> QED  BY <1>2, <2>1, <3>1, ReadKept
  <2>3. CASE InLineRest
    BY <2>1, <2>2, <2>3, InLineRestKeeps DEF TypingInv
  <2>4. CASE LineTyped
    BY <2>1, <2>2, <2>4, LineTypedKeeps DEF TypingInv
  <2>5. ASSUME UNCHANGED <<pending, entered, handed, lines, chunks, typed>>,
               caller' = "session" => caller = "session" \/ pending = <<>>
        PROVE  TypingInv'
    BY <2>1, <2>2, <2>5, TypingQuiet DEF TypingInv
  <2>6. CASE PumpStep
    BY <2>5, <2>6, PumpTypesNothing DEF PumpStep, appVars
  <2>7. CASE InLineOsk
    BY <2>5, <2>7 DEF InLineOsk, A!InLineOsk, A!input, clientVars
  <2>8. CASE NoLine
    BY <2>5, <2>8 DEF NoLine, C!NoInput, appVars
  <2>9. CASE OskFrame \/ SessionReturns
    BY <2>5, <2>9 DEF OskFrame, SessionReturns, A!OskFrame, A!SessionReturns, A!Elsewhere,
                      A!input, clientVars
  <2>10. CASE Hands \/ Leave
    BY <2>5, <2>10 DEF Hands, Leave, A!User, A!Hold, A!exit_callback, A!Elsewhere, A!input,
                       clientVars
  <2>11. CASE OtherEnd
    BY <2>5, <2>11, PumpTypesNothing DEF OtherEnd, appVars
  <2>12. CASE UNCHANGED vars
    BY <2>5, <2>12 DEF vars, appVars, clientVars
  <2> QED
    BY <1>2, <2>3, <2>4, <2>6, <2>7, <2>8, <2>9, <2>10, <2>11, <2>12 DEF Next, InLine
<1> QED  BY <1>1, <1>2, ClientTyped, ClientWithin, PTL DEF Spec, C!Spec

-----------------------------------------------------------------------------
(* Flat, a recursive function of the state, is one of the functions that    *)
(* join the chunks.                                                         *)

Flattens(f, parts) ==
  f = [k \in 0 .. MaxChunks |-> IF k = 0 THEN <<>> ELSE f[k - 1] \o parts[k]]

\* A function that Flat's equation defines exists: extended by one argument after
\* the other.
LEMMA FlatExists ==
  ASSUME NEW parts
  PROVE  \E f : Flattens(f, parts)
<1> DEFINE Right(f, m) == /\ f[0] = <<>>
                          /\ \A k \in 1 .. m : f[k] = f[k - 1] \o parts[k]
           S == {m \in 0 .. MaxChunks : \E f : Right(f, m)}
<1>1. MaxChunks \in Nat
  BY InteractiveAssumption DEF C!ClientAssumption
<1>2. 0 \in S
  <2>1. PICK f : f = [k \in 0 .. 0 |-> <<>>]
    OBVIOUS
  <2>2. Right(f, 0)
    BY <2>1
  <2>3. \E h : Right(h, 0)
    <3> HIDE DEF Right
    <3> QED  BY <2>2
  <2>4. 0 \in 0 .. MaxChunks
    BY <1>1
  <2> HIDE DEF Right
  <2> QED  BY <2>3, <2>4
<1>3. ASSUME NEW m \in 1 .. MaxChunks, m - 1 \in S PROVE m \in S
  <2>1. PICK f : Right(f, m - 1)
    BY <1>3
  <2>2. PICK g : g = [k \in 0 .. m |-> IF k = m THEN f[m - 1] \o parts[m] ELSE f[k]]
    OBVIOUS
  <2>3. g[m] = f[m - 1] \o parts[m] /\ \A k \in 0 .. m - 1 : g[k] = f[k]
    BY <2>2
  <2>4. ASSUME NEW k \in 1 .. m PROVE g[k] = g[k - 1] \o parts[k]
    <3>1. CASE k = m
      <4>1. g[k - 1] = f[m - 1]
        BY <2>3, <3>1
      <4> QED  BY <2>3, <3>1, <4>1
    <3>2. CASE k # m
      <4>1. k \in 1 .. m - 1 /\ k \in 0 .. m - 1 /\ k - 1 \in 0 .. m - 1
        BY <3>2
      <4>2. f[k] = f[k - 1] \o parts[k]
        BY <2>1, <4>1
      <4> QED  BY <2>3, <4>1, <4>2
    <3> QED  BY <3>1, <3>2
  <2>5. g[0] = <<>>
    BY <2>1, <2>3
  <2>6. Right(g, m)
    BY <2>4, <2>5
  <2>7. \E h : Right(h, m)
    <3> HIDE DEF Right
    <3> QED  BY <2>6
  <2>8. m \in 0 .. MaxChunks
    BY <1>1
  <2> HIDE DEF Right
  <2> QED  BY <2>7, <2>8
<1>4. \A m \in 0 .. MaxChunks : m \in S
  <2> HIDE DEF S
  <2> QED  BY <1>1, <1>2, <1>3, Upto
<1>5. PICK f : Right(f, MaxChunks)
  <2>1. MaxChunks \in 0 .. MaxChunks
    BY <1>1
  <2>2. MaxChunks \in S
    <3> HIDE DEF S
    <3> QED  BY <1>4, <2>1
  <2> QED  BY <2>2
<1>6. PICK g : g = [k \in 0 .. MaxChunks |-> f[k]]
  OBVIOUS
<1>7. \A k \in 0 .. MaxChunks : f[k] = IF k = 0 THEN <<>> ELSE g[k - 1] \o parts[k]
  <2>1. ASSUME NEW k \in 1 .. MaxChunks PROVE f[k] = g[k - 1] \o parts[k]
    <3>1. k - 1 \in 0 .. MaxChunks
      BY <1>1
    <3>2. g[k - 1] = f[k - 1]
      BY <1>6, <3>1
    <3> QED  BY <1>5, <3>2
  <2>2. f[0] = <<>>
    BY <1>5
  <2>3. \A k \in 0 .. MaxChunks : k = 0 \/ k \in 1 .. MaxChunks
    BY <1>1
  <2> QED  BY <2>1, <2>2, <2>3
<1>8. g = [k \in 0 .. MaxChunks |-> IF k = 0 THEN <<>> ELSE g[k - 1] \o parts[k]]
  <2>1. [k \in 0 .. MaxChunks |-> f[k]]
          = [k \in 0 .. MaxChunks |-> IF k = 0 THEN <<>> ELSE g[k - 1] \o parts[k]]
    BY <1>7
  <2> QED  BY <1>6, <2>1
<1> QED  BY <1>8 DEF Flattens

\* Two functions that join the same parts agree.
LEMMA JoinsAgree ==
  ASSUME NEW parts, Len(parts) \in Nat, Len(parts) <= MaxChunks,
         NEW f, Joins(f, parts), NEW g, Flattens(g, parts)
  PROVE  \A k \in 0 .. Len(parts) : g[k] = f[k]
<1> DEFINE S == {k \in 0 .. Len(parts) : g[k] = f[k]}
<1>1. MaxChunks \in Nat
  BY InteractiveAssumption DEF C!ClientAssumption
<1>2. \A k \in 0 .. MaxChunks : g[k] = IF k = 0 THEN <<>> ELSE g[k - 1] \o parts[k]
  BY DEF Flattens
<1>3. 0 \in S
  BY <1>1, <1>2 DEF Joins
<1>4. ASSUME NEW k \in 1 .. Len(parts), k - 1 \in S PROVE k \in S
  <2>1. k \in 0 .. MaxChunks /\ k # 0
    BY <1>1
  <2>2. g[k] = g[k - 1] \o parts[k]
    BY <1>2, <2>1
  <2>3. f[k] = f[k - 1] \o parts[k]
    BY DEF Joins
  <2>4. g[k - 1] = f[k - 1]
    BY <1>4
  <2>5. g[k] = f[k]
    BY <2>2, <2>3, <2>4
  <2> QED  BY <2>5
<1>5. \A k \in 0 .. Len(parts) : k \in S
  <2> HIDE DEF S
  <2> QED  BY <1>3, <1>4, Upto
<1> QED  BY <1>5

\* Flat is such a function of the chunks.
LEMMA FlatFlattens == Flattens(Flat, chunks)
<1>1. PICK parts : parts = chunks
  OBVIOUS
<1>2. Flat = CHOOSE g : Flattens(g, parts)
  BY <1>1 DEF Flat, Flattens
<1>3. \E g : Flattens(g, parts)
  BY FlatExists
<1> QED  BY <1>1, <1>2, <1>3

\* All chunks joined are what was handed out.
LEMMA FlatIsHanded ==
  ASSUME ChunksInv, C!TypeOK
  PROVE  Flat[Len(chunks)] = handed
<1>1. PICK m \in Nat : m = Len(chunks) /\ m <= MaxChunks
  <2>1. MaxChunks \in Nat
    BY InteractiveAssumption DEF C!ClientAssumption
  <2>2. typed \in 0 .. MaxChunks /\ Len(chunks) = typed
    BY <2>1 DEF C!TypeOK, ChunksInv
  <2> QED  BY <2>1, <2>2
<1>2. PICK f : Joins(f, chunks) /\ f[Len(chunks)] = handed
  BY DEF ChunksInv, Joined
<1>3. \A k \in 0 .. Len(chunks) : Flat[k] = f[k]
  BY <1>1, <1>2, FlatFlattens, JoinsAgree
<1> QED  BY <1>1, <1>2, <1>3

\* What the server has read is the beginning of what was entered.
THEOREM TypedAlwaysArrives == Spec => []TypedReachesServer
<1>1. ASSUME TypingInv, C!TypeOK PROVE TypedReachesServer
  <2>1. PICK k \in Nat, m \in Nat : k = srv.input /\ m = Len(chunks) /\ k <= m /\ m <= MaxChunks
    <3>1. MaxChunks \in Nat
      BY InteractiveAssumption DEF C!ClientAssumption
    <3>2. srv.input \in Nat /\ typed \in 0 .. MaxChunks /\ fetched \in 0 .. typed
      BY <1>1, <3>1 DEF C!TypeOK
    <3>3. Len(chunks) = typed /\ srv.input <= fetched
      BY <1>1 DEF TypingInv, ChunksInv, ReadInv
    <3> QED  BY <3>1, <3>2, <3>3
  <2>2. PICK f : /\ Joins(f, chunks) /\ f[Len(chunks)] = handed
                 /\ \A i \in 0 .. Len(chunks) : Begins(f[i], handed)
    BY <1>1 DEF TypingInv, ChunksInv, Joined
  <2>3. Flattens(Flat, chunks)
    BY FlatFlattens
  <2>4. PICK got : got = Flat[k]
    OBVIOUS
  <2>5. got = f[k]
    BY <2>1, <2>2, <2>3, <2>4, JoinsAgree
  <2>6. Begins(got, handed)
    BY <2>1, <2>2, <2>5
  <2>7. handed \in Seq(Chars) /\ pending \in Seq(Chars) /\ handed \o pending = entered
    BY <1>1 DEF TypingInv, InLineInv
  <2>8. Begins(got, entered)
    BY <2>6, <2>7, BeginsGrows
  <2>9. Len(got) <= Len(entered) /\ got = SubSeq(entered, 1, Len(got))
    BY <2>8 DEF Begins
  <2> QED  BY <2>1, <2>4, <2>9 DEF TypedReachesServer
<1> QED  BY <1>1, TypingInvHolds, ClientTyped, PTL

-----------------------------------------------------------------------------
(* What was taken from the user has been sent when the session ends.        *)

\* Every line fetched is among what was sent.
SentInv ==
  \A k \in 1 .. fetched :
    \E i \in 1 .. Len(upSent) : upSent[i].type = "channel_data" /\ upSent[i].n = k

\* The pump goes on only when what in_line returned has been sent, and stands still
\* while the keyboard runs.
PumpInv ==
  /\ typed = fetched \/ (typed = fetched + 1 /\ pc \in {"input", "error"})
  /\ caller = "session" => at # "session" /\ pc = "input" /\ fetched = typed

\* Sending takes nothing back, and a line fetched is a line sent (client.c 279-287).
LEMMA SentKept ==
  ASSUME C!TypeOK, SentInv, C!Next \/ UNCHANGED clientVars
  PROVE  SentInv'
<1>1. upSent \in Seq(C!Messages) /\ fetched \in Nat /\ Len(upSent) \in Nat
  <2>1. MaxChunks \in Nat
    BY InteractiveAssumption DEF C!ClientAssumption
  <2> QED  BY <2>1 DEF C!TypeOK
<1>2. ASSUME UNCHANGED <<upSent, fetched>>
      PROVE  SentInv'
  BY <1>2 DEF SentInv
<1>3. ASSUME NEW m, C!Send(m),
             fetched' = fetched \/ (fetched' = fetched + 1 /\ m.type = "channel_data" /\ m.n = fetched')
      PROVE  SentInv'
  <2>1. upSent' = Append(upSent, m)
    BY <1>3 DEF C!Send, C!Chan!SendUp
  <2>2. /\ Len(upSent') = Len(upSent) + 1 /\ upSent'[Len(upSent) + 1] = m
        /\ \A i \in 1 .. Len(upSent) : upSent'[i] = upSent[i]
    BY <1>1, <2>1
  <2>3. ASSUME NEW k \in 1 .. fetched'
        PROVE  \E i \in 1 .. Len(upSent') : upSent'[i].type = "channel_data" /\ upSent'[i].n = k
    <3>1. CASE k \in 1 .. fetched
      <4>1. PICK i \in 1 .. Len(upSent) : upSent[i].type = "channel_data" /\ upSent[i].n = k
        BY <3>1 DEF SentInv
      <4>2. i \in 1 .. Len(upSent') /\ upSent'[i] = upSent[i]
        BY <1>1, <2>2, <4>1
      <4> QED  BY <4>1, <4>2
    <3>2. CASE k \notin 1 .. fetched
      <4>1. k = fetched' /\ m.type = "channel_data" /\ m.n = k
        BY <1>1, <1>3, <3>2
      <4>2. Len(upSent) + 1 \in 1 .. Len(upSent')
        BY <1>1, <2>2
      <4> QED  BY <2>2, <4>1, <4>2
    <3> QED  BY <3>1, <3>2
  <2> QED  BY <2>3 DEF SentInv
<1>4. CASE C!InputLine
  BY <1>3, <1>4 DEF C!InputLine, C!Data
<1>5. CASE C!SendRequest \/ C!Decline \/ C!SendEof
  BY <1>2, <1>3, <1>5 DEF C!SendRequest, C!Decline, C!SendEof, C!channel
<1>6. CASE C!SendFails \/ C!RecvFails \/ C!PollTimeout \/ C!NoInput
  BY <1>2, <1>6 DEF C!SendFails, C!RecvFails, C!PollTimeout, C!NoInput, C!channel
<1>7. CASE \/ C!ExpectWanted \/ C!ExpectSkip \/ C!ExpectGlobal \/ C!ExpectUnexpected
           \/ C!PumpData \/ C!PumpIgnored \/ C!PumpGlobal \/ C!PumpEof \/ C!PumpClose
           \/ C!PumpUnexpected
  BY <1>2, <1>7
  DEF C!ExpectWanted, C!ExpectSkip, C!ExpectGlobal, C!ExpectUnexpected, C!PumpData,
      C!PumpIgnored, C!PumpGlobal, C!PumpEof, C!PumpClose, C!PumpUnexpected,
      C!Receive, C!Chan!RecvDown, C!client
<1>8. CASE C!ServerStep \/ C!ProgramStep \/ C!ServerNoise \/ C!ServerDisconnects
  BY <1>2, <1>8
  DEF C!ServerStep, C!ServerTakes, C!ServerNotes, C!ServerAnswers, C!ProgramStep,
      C!ProgramWrites, C!ProgramExits, C!ServerNoise, C!ServerDisconnects,
      C!Chan!RecvUp, C!Chan!SendDown, C!client, C!channel
<1>9. CASE C!ShellRests \/ C!UserTypes \/ C!LinkLost \/ UNCHANGED clientVars
  BY <1>2, <1>9 DEF C!ShellRests, C!UserTypes, C!LinkLost, C!client, C!channel, clientVars
<1> QED  BY <1>4, <1>5, <1>6, <1>7, <1>8, <1>9 DEF C!Next, C!ClientStep

\* One turn of the pump.
LEMMA PumpKept ==
  ASSUME C!TypeOK, PumpInv, [Next]_vars
  PROVE  PumpInv'
<1>1. typed \in Nat /\ fetched \in Nat
  <2>1. MaxChunks \in Nat
    BY InteractiveAssumption DEF C!ClientAssumption
  <2> QED  BY <2>1 DEF C!TypeOK
<1>2. CASE PumpStep
  <2>1. caller # "session" /\ caller' = caller /\ C!ClientStep
    BY <1>2 DEF PumpStep, PumpInv, appVars
  <2>2. typed' = typed
    BY <2>1, PumpTypesNothing
  <2>3. typed' = fetched' \/ (typed' = fetched' + 1 /\ pc' \in {"input", "error"})
    <3>1. CASE C!InputLine
      BY <1>1, <2>2, <3>1 DEF PumpInv, C!InputLine
    <3>2. CASE C!SendRequest \/ C!Decline \/ C!SendEof \/ C!SendFails
      BY <2>2, <3>2
      DEF PumpInv, C!SendRequest, C!Decline, C!SendEof, C!SendFails, C!Stages
    <3>3. CASE C!RecvFails \/ C!PollTimeout \/ C!NoInput
      BY <1>1, <2>2, <3>3 DEF PumpInv, C!RecvFails, C!PollTimeout, C!NoInput
    <3>4. CASE C!ExpectWanted \/ C!ExpectSkip \/ C!ExpectGlobal \/ C!ExpectUnexpected
      BY <2>2, <3>4
      DEF PumpInv, C!ExpectWanted, C!ExpectSkip, C!ExpectGlobal, C!ExpectUnexpected, C!client
    <3>5. CASE \/ C!PumpData \/ C!PumpIgnored \/ C!PumpGlobal \/ C!PumpEof \/ C!PumpClose
               \/ C!PumpUnexpected
      BY <2>2, <3>5
      DEF PumpInv, C!PumpData, C!PumpIgnored, C!PumpGlobal, C!PumpEof, C!PumpClose,
          C!PumpUnexpected
    <3> QED  BY <2>1, <3>1, <3>2, <3>3, <3>4, <3>5 DEF C!ClientStep
  <2> QED  BY <2>1, <2>3 DEF PumpInv
<1>3. CASE InLineRest
  <2>1. caller' # "session" /\ pc' = "input" /\ fetched' = fetched /\ typed' = fetched + 1
    BY <1>3 DEF InLineRest, AtInput, A!InLineRest, Returns, C!UserTypes, C!client, PumpInv
  <2> QED  BY <2>1 DEF PumpInv
<1>4. CASE InLineOsk
  BY <1>4 DEF InLineOsk, AtInput, A!InLineOsk, clientVars, PumpInv
<1>5. CASE LineTyped
  <2>1. caller = "session" /\ caller' = "none"
    BY <1>5 DEF LineTyped, A!LineTyped, A!OskEnds
  <2>2. pc = "input" /\ fetched = typed
    BY <2>1 DEF PumpInv
  <2>3. C!NoInput \/ C!UserTypes
    BY <1>5 DEF LineTyped, Returns
  <2>4. CASE C!NoInput
    BY <2>1, <2>2, <2>4 DEF C!NoInput, PumpInv
  <2>5. CASE C!UserTypes
    BY <2>1, <2>2, <2>5 DEF C!UserTypes, C!client, PumpInv
  <2> QED  BY <2>3, <2>4, <2>5
<1>6. CASE NoLine
  BY <1>6 DEF NoLine, AtInput, C!NoInput, appVars, PumpInv
<1>7. CASE OskFrame \/ SessionReturns
  BY <1>7 DEF OskFrame, SessionReturns, A!OskFrame, A!SessionReturns, A!Elsewhere, clientVars, PumpInv
<1>8. CASE Hands \/ Leave
  BY <1>8 DEF Hands, Leave, A!User, A!Hold, A!exit_callback, A!Elsewhere, clientVars, PumpInv
<1>9. CASE OtherEnd
  <2>1. UNCHANGED <<pc, fetched>>
    BY <1>9 DEF OtherEnd, C!ServerStep, C!ServerTakes, C!ServerNotes, C!ServerAnswers,
                C!ProgramStep, C!ProgramWrites, C!ProgramExits, C!ShellRests, C!LinkLost, C!client
  <2> QED  BY <1>9, <2>1, PumpTypesNothing DEF OtherEnd, appVars, PumpInv
<1>10. CASE UNCHANGED vars
  BY <1>10 DEF vars, appVars, clientVars, PumpInv
<1> QED  BY <1>2, <1>3, <1>4, <1>5, <1>6, <1>7, <1>8, <1>9, <1>10 DEF Next, InLine

\* Both hold throughout.
LEMMA PumpInvHolds == Spec => [](SentInv /\ PumpInv)
<1>1. Init => SentInv /\ PumpInv
  BY DEF Init, C!Init, SentInv, PumpInv
<1>2. ASSUME SentInv, PumpInv, C!TypeOK, [Next]_vars, [C!Next]_(C!vars)
      PROVE  SentInv' /\ PumpInv'
  <2>1. C!Next \/ UNCHANGED clientVars
    BY <1>2 DEF C!vars, C!client, C!channel, clientVars
  <2> QED  BY <1>2, <2>1, SentKept, PumpKept
<1> QED  BY <1>1, <1>2, ClientTyped, ClientWithin, PTL DEF Spec, C!Spec

\* A session that ends cleanly has sent every line in_line returned, which together
\* with what in_line still holds are what the user entered (client.c 206-288, main.c
\* 300-325).
THEOREM CloseNeverLoses == Spec => []CloseLosesNothing
<1>1. ASSUME TypingInv, C!TypeOK, SentInv, PumpInv, pc \in {"eof", "close", "closed"}
      PROVE  1 .. Len(chunks) \subseteq Sent /\ Flat[Len(chunks)] \o pending = entered
  <2>1. Len(chunks) = fetched
    BY <1>1 DEF PumpInv, TypingInv, ChunksInv
  <2>2. 1 .. Len(chunks) \subseteq Sent
    <3>1. ASSUME NEW k \in 1 .. fetched PROVE k \in Sent
      <4>1. PICK i \in 1 .. Len(upSent) : upSent[i].type = "channel_data" /\ upSent[i].n = k
        BY <1>1 DEF SentInv
      <4> QED  BY <4>1 DEF Sent
    <3> QED  BY <2>1, <3>1
  <2>3. Flat[Len(chunks)] = handed
    BY <1>1, FlatIsHanded DEF TypingInv
  <2> QED  BY <1>1, <2>2, <2>3 DEF TypingInv, InLineInv
<1>2. ASSUME TypingInv, C!TypeOK, SentInv, PumpInv PROVE CloseLosesNothing
  BY <1>1, <1>2 DEF CloseLosesNothing
<1> QED  BY <1>2, TypingInvHolds, ClientTyped, PumpInvHolds, PTL
=============================================================================
