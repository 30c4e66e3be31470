-------------------------- MODULE TransportChannel --------------------------
(***************************************************************************)
(* Transport implements SecureChannel, for every set of payload sizes and  *)
(* paddings and every bound on faults: in each direction the payloads      *)
(* handed out are, one by one, those handed over.                          *)
(*                                                                         *)
(* What a reader has handed out is what Sizes counts up to its index.      *)
(* Sizes is a recursive function; that it exists, and what it counts, is   *)
(* shown by induction over the packets of a wire (Upto), which the library *)
(* states for sets as well-foundedness of < on Nat.                        *)
(*                                                                         *)
(* The second part shows why a handshake can fail.                         *)
(***************************************************************************)
EXTENDS TransportProofs, SequenceTheorems, Induction

-----------------------------------------------------------------------------
(* What Sizes counts. *)

Unfolds(f, wire) ==
  f = [k \in 0 .. Len(wire) |->
        IF k = 0 THEN <<>>
        ELSE IF wire[k].msg.type = "data" THEN Append(f[k - 1], wire[k].msg.size) ELSE f[k - 1]]

\* The first packets of a wire have their sizes counted.
Counts(f, wire, n) ==
  /\ f[0] = <<>>
  /\ \A k \in 1 .. n :
       f[k] = IF wire[k].msg.type = "data" THEN Append(f[k - 1], wire[k].msg.size) ELSE f[k - 1]

\* Sizes is the function its definition describes: one exists.
LEMMA SizesUnfold ==
  ASSUME NEW wire \in Seq(Packets)
  PROVE  Counts(Sizes(wire), wire, Len(wire))
<1> DEFINE S == {n \in 0 .. Len(wire) : \E g : DOMAIN g = 0 .. n /\ Counts(g, wire, n)}
<1>1. Len(wire) \in Nat
  OBVIOUS
<1>2. 0 \in S
  <2> DEFINE g == [k \in 0 .. 0 |-> <<>>]
  <2>1. DOMAIN g = 0 .. 0 /\ Counts(g, wire, 0)
    BY DEF Counts
  <2> QED  BY <1>1, <2>1
<1>3. ASSUME NEW n \in 1 .. Len(wire), n - 1 \in S PROVE n \in S
  <2>1. PICK g : DOMAIN g = 0 .. n - 1 /\ Counts(g, wire, n - 1)
    BY <1>3
  <2> DEFINE x == IF wire[n].msg.type = "data" THEN Append(g[n - 1], wire[n].msg.size) ELSE g[n - 1]
             h == [k \in 0 .. n |-> IF k = n THEN x ELSE g[k]]
  <2>2. DOMAIN h = 0 .. n /\ h[n] = x /\ \A k \in 0 .. n - 1 : h[k] = g[k]
    OBVIOUS
  <2>3. n - 1 \in 0 .. n - 1 /\ 0 \in 0 .. n - 1 /\ \A k \in 1 .. n : k # n => k \in 1 .. n - 1 /\ k - 1 \in 0 .. n - 1
    OBVIOUS
  <2>4. Counts(h, wire, n)
    <3> HIDE DEF h
    <3>1. h[n] = IF wire[n].msg.type = "data" THEN Append(h[n - 1], wire[n].msg.size) ELSE h[n - 1]
      BY <2>2, <2>3
    <3>2. h[0] = <<>>
      BY <2>1, <2>2, <2>3 DEF Counts
    <3>3. ASSUME NEW k \in 1 .. n, k # n
          PROVE  h[k] = IF wire[k].msg.type = "data" THEN Append(h[k - 1], wire[k].msg.size) ELSE h[k - 1]
      <4>1. k \in 1 .. n - 1 /\ k \in 0 .. n - 1 /\ k - 1 \in 0 .. n - 1
        BY <3>3
      <4>2. h[k] = g[k] /\ h[k - 1] = g[k - 1]
        BY <2>2, <4>1
      <4> QED  BY <2>1, <4>1, <4>2 DEF Counts
    <3> QED  BY <3>1, <3>2, <3>3 DEF Counts
  <2> QED  BY <2>2, <2>4
<1>4. Len(wire) \in S
  <2> HIDE DEF S
  <2>1. \A k \in 0 .. Len(wire) : k \in S
    BY <1>1, <1>2, <1>3, Upto
  <2> QED  BY <1>1, <2>1
<1>5. PICK g : DOMAIN g = 0 .. Len(wire) /\ Counts(g, wire, Len(wire))
  BY <1>4
<1> DEFINE f == [k \in 0 .. Len(wire) |-> g[k]]
<1>6. Unfolds(f, wire)
  <2>1. ASSUME NEW k \in 0 .. Len(wire)
        PROVE  f[k] = IF k = 0 THEN <<>>
                      ELSE IF wire[k].msg.type = "data" THEN Append(f[k - 1], wire[k].msg.size)
                                                        ELSE f[k - 1]
    <3>1. CASE k = 0
      BY <1>5, <3>1 DEF Counts
    <3>2. CASE k # 0
      <4>1. k \in 1 .. Len(wire) /\ k - 1 \in 0 .. Len(wire)
        BY <3>2
      <4>2. f[k] = g[k] /\ f[k - 1] = g[k - 1]
        BY <4>1
      <4> HIDE DEF f
      <4> QED  BY <1>5, <3>2, <4>1, <4>2 DEF Counts
    <3> QED  BY <3>1, <3>2
  <2>2. DOMAIN f = 0 .. Len(wire)
    OBVIOUS
  <2> QED  BY <2>1 DEF Unfolds
<1>7. Sizes(wire) = CHOOSE e : Unfolds(e, wire)
  BY DEF Sizes, Unfolds
<1>8. Unfolds(Sizes(wire), wire)
  <2> HIDE DEF f
  <2> QED  BY <1>6, <1>7
<1> HIDE DEF f
<1>9. \A k \in 0 .. Len(wire) :
        Sizes(wire)[k] = IF k = 0 THEN <<>>
                         ELSE IF wire[k].msg.type = "data"
                                THEN Append(Sizes(wire)[k - 1], wire[k].msg.size)
                                ELSE Sizes(wire)[k - 1]
  <2> DEFINE s == Sizes(wire)
  <2> HIDE DEF s
  <2>1. Unfolds(s, wire)
    BY <1>8 DEF s
  <2>2. \A k \in 0 .. Len(wire) :
          s[k] = IF k = 0 THEN <<>>
                 ELSE IF wire[k].msg.type = "data" THEN Append(s[k - 1], wire[k].msg.size) ELSE s[k - 1]
    BY <2>1 DEF Unfolds
  <2> QED  BY <2>2 DEF s
<1> QED  BY <1>1, <1>9 DEF Counts


\* One after another; those of the first packets begin those of more.
StartOf(s, t) == Len(s) <= Len(t) /\ \A i \in 1 .. Len(s) : s[i] = t[i]

\* One packet more.
LEMMA SizesNext ==
  ASSUME NEW wire \in Seq(Packets), NEW k \in 1 .. Len(wire)
  PROVE  Sizes(wire)[k] = IF wire[k].msg.type = "data"
                            THEN Append(Sizes(wire)[k - 1], wire[k].msg.size)
                            ELSE Sizes(wire)[k - 1]
  BY SizesUnfold DEF Counts

\* No packet.
LEMMA SizesNone ==
  ASSUME NEW wire \in Seq(Packets)
  PROVE  Sizes(wire)[0] = <<>>
  BY SizesUnfold DEF Counts

\* Its values are sequences of payloads.
LEMMA SizesTyped ==
  ASSUME NEW wire \in Seq(Packets)
  PROVE  \A k \in 0 .. Len(wire) : Sizes(wire)[k] \in Seq(Payloads)
<1> DEFINE S == {k \in 0 .. Len(wire) : Sizes(wire)[k] \in Seq(Payloads)}
<1>1. Len(wire) \in Nat
  OBVIOUS
<1>2. 0 \in S
  <2>1. Sizes(wire)[0] = <<>> /\ <<>> \in Seq(Payloads)
    BY SizesNone
  <2>2. Sizes(wire)[0] \in Seq(Payloads)
    BY <2>1, Zenon
  <2> QED  BY <1>1, <2>2
<1>3. ASSUME NEW k \in 1 .. Len(wire), k - 1 \in S PROVE k \in S
  <2>1. wire[k] \in Packets
    BY <1>3
  <2>2. wire[k].msg.type = "data" => wire[k].msg.size \in Payloads
    <3>1. wire[k].msg \in Messages
      BY <2>1 DEF Packets
    <3> QED  BY <3>1, FieldTypes
  <2>3. Sizes(wire)[k - 1] \in Seq(Payloads)
    BY <1>3
  <2>4. Sizes(wire)[k] \in Seq(Payloads)
    <3>1. CASE wire[k].msg.type = "data"
      <4>1. Sizes(wire)[k] = Append(Sizes(wire)[k - 1], wire[k].msg.size)
        BY <1>3, <3>1, SizesNext
      <4> QED  BY <2>2, <2>3, <3>1, <4>1
    <3>2. CASE wire[k].msg.type # "data"
      BY <1>3, <2>3, <3>2, SizesNext
    <3> QED  BY <3>1, <3>2
  <2> QED  BY <1>3, <2>4
<1> HIDE DEF S
<1>4. \A k \in 0 .. Len(wire) : k \in S
  BY <1>1, <1>2, <1>3, Upto
<1> QED  BY <1>4 DEF S

\* A longer stream begins with what a shorter one carried.
LEMMA SizesGrow ==
  ASSUME NEW wire \in Seq(Packets), NEW j \in 0 .. Len(wire)
  PROVE  \A k \in 0 .. Len(wire) : j <= k => StartOf(Sizes(wire)[j], Sizes(wire)[k])
<1> DEFINE S == {k \in 0 .. Len(wire) : j <= k => StartOf(Sizes(wire)[j], Sizes(wire)[k])}
<1>1. Len(wire) \in Nat /\ Sizes(wire)[j] \in Seq(Payloads)
  BY SizesTyped
<1>2. 0 \in S
  BY <1>1 DEF StartOf
<1>3. ASSUME NEW k \in 1 .. Len(wire), k - 1 \in S PROVE k \in S
  <2>1. CASE k < j
    BY <1>3, <2>1
  <2>2. CASE k = j
    BY <1>1, <1>3, <2>2 DEF StartOf
  <2>3. CASE j < k
    <3>1. k - 1 \in 0 .. Len(wire) /\ j <= k - 1
      BY <1>3, <2>3
    <3>2. StartOf(Sizes(wire)[j], Sizes(wire)[k - 1])
      BY <1>3, <3>1
    <3>3. Sizes(wire)[k - 1] \in Seq(Payloads) /\ Sizes(wire)[k] \in Seq(Payloads)
      BY <1>3, <3>1, SizesTyped
    <3>4. StartOf(Sizes(wire)[k - 1], Sizes(wire)[k])
      <4>1. CASE wire[k].msg.type = "data"
        <5>1. Sizes(wire)[k] = Append(Sizes(wire)[k - 1], wire[k].msg.size)
          BY <1>3, <4>1, SizesNext
        <5> QED  BY <3>3, <5>1 DEF StartOf
      <4>2. CASE wire[k].msg.type # "data"
        <5>1. Sizes(wire)[k] = Sizes(wire)[k - 1]
          BY <1>3, <4>2, SizesNext
        <5> QED  BY <3>3, <5>1 DEF StartOf
      <4> QED  BY <4>1, <4>2
    <3>5. StartOf(Sizes(wire)[j], Sizes(wire)[k])
      BY <1>1, <3>2, <3>3, <3>4 DEF StartOf
    <3> QED  BY <1>3, <3>5
  <2> QED  BY <1>3, <2>1, <2>2, <2>3
<1> HIDE DEF S
<1>4. \A k \in 0 .. Len(wire) : k \in S
  BY <1>1, <1>2, <1>3, Upto
<1> QED  BY <1>4 DEF S

\* Two wires that carry the same data up to a packet count the same there.
LEMMA SizesSame ==
  ASSUME NEW v \in Seq(Packets), NEW w \in Seq(Packets), NEW n \in Nat,
         n <= Len(v), n <= Len(w),
         \A i \in 1 .. n : /\ v[i].msg.type = "data" <=> w[i].msg.type = "data"
                           /\ v[i].msg.type = "data" => v[i].msg.size = w[i].msg.size
  PROVE  \A k \in 0 .. n : Sizes(v)[k] = Sizes(w)[k]
<1> DEFINE S == {k \in 0 .. n : Sizes(v)[k] = Sizes(w)[k]}
<1>1. 0 \in S
  BY SizesNone
<1>2. ASSUME NEW k \in 1 .. n, k - 1 \in S PROVE k \in S
  <2>1. k \in 1 .. Len(v) /\ k \in 1 .. Len(w)
    BY <1>2
  <2>2. Sizes(v)[k - 1] = Sizes(w)[k - 1]
    BY <1>2
  <2> QED  BY <1>2, <2>1, <2>2, SizesNext
<1> HIDE DEF S
<1>3. \A k \in 0 .. n : k \in S
  BY <1>1, <1>2, Upto
<1> QED  BY <1>3 DEF S


-----------------------------------------------------------------------------
(* What happens to a wire. *)

DataSealed(wire) == \A i \in 1 .. Len(wire) : wire[i].msg.type = "data" => wire[i].enc

\* Two at once are one after the other.
LEMMA AppendTwo ==
  ASSUME NEW S, NEW s \in Seq(S), NEW a \in S, NEW b \in S
  PROVE  s \o <<a, b>> = Append(Append(s, a), b)
<1> DEFINE u == s \o <<a, b>>
           v == Append(Append(s, a), b)
<1>1. u \in Seq(S) /\ v \in Seq(S) /\ Len(u) = Len(s) + 2 /\ Len(v) = Len(s) + 2
  OBVIOUS
<1>2. ASSUME NEW i \in 1 .. Len(u) PROVE u[i] = v[i]
  <2>1. i \in 1 .. Len(s) \/ i = Len(s) + 1 \/ i = Len(s) + 2
    BY <1>1
  <2> QED  BY <2>1
<1> HIDE DEF u, v
<1>3. u = v
  BY <1>1, <1>2, SeqEqual
<1> QED  BY <1>3 DEF u, v

\* A packet more adds its payload and changes nothing before.
LEMMA WireGrows ==
  ASSUME NEW wire \in Seq(Packets), NEW p \in Packets
  PROVE  /\ \A k \in 0 .. Len(wire) : Sizes(Append(wire, p))[k] = Sizes(wire)[k]
         /\ p.msg.type = "data" => DataIn(Append(wire, p)) = Append(DataIn(wire), p.msg.size)
         /\ p.msg.type # "data" => DataIn(Append(wire, p)) = DataIn(wire)
         /\ DataSealed(wire) /\ (p.msg.type = "data" => p.enc) => DataSealed(Append(wire, p))
<1> DEFINE w == Append(wire, p)
<1>1. /\ w \in Seq(Packets) /\ Len(wire) \in Nat /\ Len(w) = Len(wire) + 1
      /\ w[Len(wire) + 1] = p /\ \A i \in 1 .. Len(wire) : w[i] = wire[i]
  OBVIOUS
<1> HIDE DEF w
<1>2. \A k \in 0 .. Len(wire) : Sizes(w)[k] = Sizes(wire)[k]
  BY <1>1, SizesSame
<1>3. Len(w) \in 1 .. Len(w) /\ Len(w) - 1 = Len(wire) /\ Len(wire) \in 0 .. Len(wire)
  BY <1>1
<1>4. Sizes(w)[Len(w) - 1] = DataIn(wire)
  BY <1>2, <1>3 DEF DataIn
<1>5. /\ p.msg.type = "data" => DataIn(w) = Append(DataIn(wire), p.msg.size)
      /\ p.msg.type # "data" => DataIn(w) = DataIn(wire)
  BY <1>1, <1>3, <1>4, SizesNext DEF DataIn
<1>6. DataSealed(wire) /\ (p.msg.type = "data" => p.enc) => DataSealed(w)
  <2>1. \A i \in 1 .. Len(w) : i \in 1 .. Len(wire) \/ i = Len(wire) + 1
    BY <1>1
  <2> QED  BY <1>1, <2>1 DEF DataSealed
<1> QED  BY <1>2, <1>5, <1>6 DEF w

\* Damage neither makes data nor destroys it: what is sealed keeps its content,
\* and what is in clear does not become data.
LEMMA WireDamaged ==
  ASSUME NEW wire \in Seq(Packets), DataSealed(wire), NEW j \in 1 .. Len(wire),
         NEW q \in DamagedForms(wire[j])
  PROVE  /\ \A k \in 0 .. Len(wire) : Sizes([wire EXCEPT ![j] = q])[k] = Sizes(wire)[k]
         /\ DataIn([wire EXCEPT ![j] = q]) = DataIn(wire)
         /\ DataSealed([wire EXCEPT ![j] = q])
<1> DEFINE w == [wire EXCEPT ![j] = q]
<1>1. wire[j] \in Packets /\ wire[j].msg \in Messages
  <2>1. wire[j] \in Packets
    OBVIOUS
  <2> QED  BY <2>1 DEF Packets
<1>2. /\ q \in Packets /\ q.enc = wire[j].enc
      /\ q.msg = wire[j].msg \/ (~wire[j].enc /\ q.msg \in GarbledForms(wire[j].msg))
  BY <1>1, DamagedTypes
<1>3. q.msg \in GarbledForms(wire[j].msg) => q.msg.type # "data"
  BY DEF GarbledForms, KexInit, EcdhInit, EcdhReply, Garbled
<1>4. /\ wire[j].msg.type = "data" => q.msg = wire[j].msg
      /\ q.msg.type = "data" => q.msg = wire[j].msg
  BY <1>2, <1>3 DEF DataSealed
<1>5. /\ w \in Seq(Packets) /\ Len(w) = Len(wire) /\ Len(wire) \in Nat
      /\ w[j] = q /\ \A i \in 1 .. Len(wire) : i # j => w[i] = wire[i]
  <2>1. q \in Packets
    BY <1>2
  <2> QED  BY <2>1
<1> HIDE DEF w
<1>6. \A i \in 1 .. Len(wire) : /\ w[i].msg.type = "data" <=> wire[i].msg.type = "data"
                                /\ w[i].msg.type = "data" => w[i].msg.size = wire[i].msg.size
                                /\ w[i].enc = wire[i].enc
  <2> SUFFICES ASSUME NEW i \in 1 .. Len(wire)
               PROVE  /\ w[i].msg.type = "data" <=> wire[i].msg.type = "data"
                      /\ w[i].msg.type = "data" => w[i].msg.size = wire[i].msg.size
                      /\ w[i].enc = wire[i].enc
    OBVIOUS
  <2>1. CASE i = j
    <3>1. q.msg.type = "data" <=> wire[j].msg.type = "data"
      BY <1>4
    <3>2. q.msg.type = "data" => q.msg.size = wire[j].msg.size
      BY <1>4
    <3> QED  BY <1>2, <1>5, <2>1, <3>1, <3>2
  <2>2. CASE i # j
    BY <1>5, <2>2
  <2> QED  BY <2>1, <2>2
<1>7. \A k \in 0 .. Len(wire) : Sizes(w)[k] = Sizes(wire)[k]
  <2>1. /\ Len(wire) <= Len(w) /\ Len(wire) <= Len(wire)
        /\ \A i \in 1 .. Len(wire) : /\ w[i].msg.type = "data" <=> wire[i].msg.type = "data"
                                     /\ w[i].msg.type = "data" => w[i].msg.size = wire[i].msg.size
    BY <1>5, <1>6
  <2>2. w \in Seq(Packets) /\ Len(wire) \in Nat
    BY <1>5
  <2> QED  BY <2>1, <2>2, SizesSame
<1>8. DataIn(w) = DataIn(wire)
  <2>1. Len(wire) \in 0 .. Len(wire) /\ Len(w) = Len(wire)
    BY <1>5
  <2> QED  BY <1>7, <2>1 DEF DataIn
<1>9. DataSealed(w)
  <2> SUFFICES ASSUME NEW i \in 1 .. Len(wire), w[i].msg.type = "data" PROVE w[i].enc
    BY <1>5 DEF DataSealed
  <2> QED  BY <1>6 DEF DataSealed
<1> QED  BY <1>7, <1>8, <1>9 DEF w

\* A reader takes the next packet: one that is not data adds nothing to what it
\* has handed out, one that is adds what comes next in what was handed over.
LEMMA WireRead ==
  ASSUME NEW wire \in Seq(Packets), NEW rd \in Nat, rd < Len(wire)
  PROVE  /\ wire[rd + 1].msg.type # "data" => Sizes(wire)[rd + 1] = Sizes(wire)[rd]
         /\ wire[rd + 1].msg.type = "data" =>
              /\ Sizes(wire)[rd + 1] = Append(Sizes(wire)[rd], wire[rd + 1].msg.size)
              /\ Len(Sizes(wire)[rd]) < Len(DataIn(wire))
              /\ DataIn(wire)[Len(Sizes(wire)[rd]) + 1] = wire[rd + 1].msg.size
<1>1. /\ Len(wire) \in Nat /\ rd + 1 \in 1 .. Len(wire) /\ (rd + 1) - 1 = rd
      /\ rd \in 0 .. Len(wire) /\ rd + 1 \in 0 .. Len(wire) /\ Len(wire) \in 0 .. Len(wire)
  OBVIOUS
<1>2. /\ wire[rd + 1].msg.type # "data" => Sizes(wire)[rd + 1] = Sizes(wire)[rd]
      /\ wire[rd + 1].msg.type = "data" =>
           Sizes(wire)[rd + 1] = Append(Sizes(wire)[rd], wire[rd + 1].msg.size)
  BY <1>1, SizesNext
<1>3. ASSUME wire[rd + 1].msg.type = "data"
      PROVE  /\ Len(Sizes(wire)[rd]) < Len(DataIn(wire))
             /\ DataIn(wire)[Len(Sizes(wire)[rd]) + 1] = wire[rd + 1].msg.size
  <2> DEFINE s == Sizes(wire)[rd]
             n == wire[rd + 1].msg.size
             t == DataIn(wire)
  <2>1. s \in Seq(Payloads) /\ t \in Seq(Payloads)
    BY <1>1, SizesTyped DEF DataIn
  <2>2. n \in Payloads
    <3>1. wire[rd + 1] \in Packets
      BY <1>1
    <3>2. wire[rd + 1].msg \in Messages
      BY <3>1 DEF Packets
    <3> QED  BY <1>3, <3>2, FieldTypes
  <2>3. StartOf(Append(s, n), t)
    <3>1. StartOf(Sizes(wire)[rd + 1], Sizes(wire)[Len(wire)])
      BY <1>1, SizesGrow
    <3> QED  BY <1>2, <1>3, <3>1 DEF DataIn
  <2> HIDE DEF s, n, t
  <2>4. Len(Append(s, n)) = Len(s) + 1 /\ Append(s, n)[Len(s) + 1] = n /\ Len(s) \in Nat
    BY <2>1, <2>2
  <2>5. Len(s) + 1 <= Len(t) /\ t[Len(s) + 1] = n
    BY <2>3, <2>4 DEF StartOf
  <2>6. Len(s) < Len(t)
    BY <2>1, <2>4, <2>5
  <2> QED  BY <2>5, <2>6 DEF s, n, t
<1> QED  BY <1>2, <1>3


-----------------------------------------------------------------------------
(* The invariant.  Data travels sealed and after the keys; what each reader *)
(* has handed out is what its wire carried up to where it reads.            *)

Sealing ==
  /\ pc \in {"newkeys_wait", "open"} => c2s.enc
  /\ peer.at \in {"newkeys", "open"} => peer.tx.enc

UpCarried ==
  /\ DataSealed(up)
  /\ \A i \in 1 .. Len(up) : up[i].msg.type = "newkeys" => session_id # NoHash
  /\ peer.at = "open" => session_id # NoHash
  /\ peer.rcvd = Sizes(up)[upRd]

DnCarried ==
  /\ DataSealed(dn)
  /\ pc # "failed" => received = Sizes(dn)[dnRd]

Carried == Sealing /\ UpCarried /\ DnCarried


\* What SecureChannel sees of one direction.
LEMMA UpQuiet ==
  ASSUME UpCarried, UNCHANGED <<up, upRd>>, peer'.rcvd = peer.rcvd,
         peer'.at = "open" => peer.at = "open", session_id # NoHash => session_id' # NoHash
  PROVE  UpCarried' /\ DataIn(up') = DataIn(up)
  BY DEF UpCarried

\* Steps that leave the server's direction alone.
LEMMA DnQuiet ==
  ASSUME DnCarried, UNCHANGED <<dn, dnRd, received>>, pc' # "failed" => pc # "failed"
  PROVE  DnCarried' /\ DataIn(dn') = DataIn(dn)
  BY DEF DnCarried

\* The client's packet goes to the end of what it sent.
LEMMA UpSent ==
  ASSUME TypeOK, UpCarried, NEW m \in Messages, NEW next, NEW lost,
         SendPayload(m, next, lost), UNCHANGED session_id,
         m.type = "data" => c2s.enc, m.type = "newkeys" => session_id # NoHash
  PROVE  /\ UpCarried'
         /\ m.type = "data" => DataIn(up') = Append(DataIn(up), m.size)
         /\ m.type # "data" => DataIn(up') = DataIn(up)
<1> DEFINE p == [Seal(c2s, m, WireSize(m)) EXCEPT !.whole = link]
<1>1. p \in Packets /\ p.msg = m /\ p.enc = c2s.enc
  <2>1. p \in Packets
    BY SealTypes, WireSizes DEF TypeOK
  <2> QED  BY <2>1 DEF Seal
<1>2. up' = Append(up, p) /\ upRd' = upRd /\ peer' = peer
  BY DEF SendPayload
<1>3. up \in Seq(Packets) /\ upRd \in 0 .. Len(up)
  BY DEF TypeOK
<1> HIDE DEF p
<1>4. /\ Sizes(up')[upRd'] = Sizes(up)[upRd]
      /\ m.type = "data" => DataIn(up') = Append(DataIn(up), m.size)
      /\ m.type # "data" => DataIn(up') = DataIn(up)
      /\ DataSealed(up')
  BY <1>1, <1>2, <1>3, WireGrows DEF UpCarried
<1>5. \A i \in 1 .. Len(up') : (i \in 1 .. Len(up) /\ up'[i] = up[i]) \/ up'[i] = p
  BY <1>1, <1>2, <1>3
<1> QED  BY <1>1, <1>2, <1>4, <1>5 DEF UpCarried

\* The server's does.
LEMMA DnSent ==
  ASSUME TypeOK, DnCarried, NEW m \in Messages, NEW total \in Nat, PeerSend(m, total),
         UNCHANGED <<pc, received, dnRd>>, m.type = "data" => peer.tx.enc
  PROVE  /\ DnCarried'
         /\ m.type = "data" => DataIn(dn') = Append(DataIn(dn), m.size)
         /\ m.type # "data" => DataIn(dn') = DataIn(dn)
<1> DEFINE p == Seal(peer.tx, m, total)
<1>1. p \in Packets /\ p.msg = m /\ p.enc = peer.tx.enc
  <2>1. peer.tx \in Dirs
    BY DEF TypeOK
  <2> QED  BY <2>1, SealFields
<1>2. dn' = Append(dn, p)
  BY DEF PeerSend
<1>3. dn \in Seq(Packets) /\ dnRd \in 0 .. Len(dn)
  BY DEF TypeOK
<1> HIDE DEF p
<1>4. /\ Sizes(dn')[dnRd'] = Sizes(dn)[dnRd]
      /\ m.type = "data" => DataIn(dn') = Append(DataIn(dn), m.size)
      /\ m.type # "data" => DataIn(dn') = DataIn(dn)
      /\ DataSealed(dn')
  BY <1>1, <1>2, <1>3, WireGrows DEF DnCarried
<1> QED  BY <1>4 DEF DnCarried

\* The server reads a packet without data.
LEMMA UpTaken ==
  ASSUME TypeOK, UpCarried, PeerReads, UNCHANGED <<up, session_id>>, upRd' = upRd + 1,
         up[upRd + 1].msg.type # "data", peer'.rcvd = peer.rcvd,
         peer'.at = "open" => up[upRd + 1].msg.type = "newkeys"
  PROVE  UpCarried' /\ DataIn(up') = DataIn(up)
<1>1. up \in Seq(Packets) /\ upRd \in Nat /\ upRd < Len(up) /\ upRd + 1 \in 1 .. Len(up)
  BY DEF TypeOK, PeerReads
<1>2. Sizes(up)[upRd + 1] = Sizes(up)[upRd]
  BY <1>1, WireRead
<1> QED  BY <1>1, <1>2 DEF UpCarried

\* The client does.
LEMMA DnTaken ==
  ASSUME TypeOK, DnCarried, Arrived, RecvPacket, pc # "failed",
         dn[dnRd + 1].msg.type # "data", UNCHANGED received
  PROVE  DnCarried' /\ DataIn(dn') = DataIn(dn)
<1>1. dn \in Seq(Packets) /\ dnRd \in Nat /\ dnRd < Len(dn) /\ dn' = dn /\ dnRd' = dnRd + 1
  BY DEF TypeOK, Arrived, RecvPacket
<1>2. Sizes(dn)[dnRd + 1] = Sizes(dn)[dnRd]
  BY <1>1, WireRead
<1> QED  BY <1>1, <1>2 DEF DnCarried

-----------------------------------------------------------------------------
(* Every step keeps the invariant and is a step of SecureChannel or none. *)

Observed == <<session_id # NoHash, DataIn(up), peer.rcvd, DataIn(dn), received>>

\* Before the first packet both channels are empty.
LEMMA CarriedInit == Init => Carried /\ Channel!Init
<1> SUFFICES ASSUME Init PROVE Carried /\ Channel!Init
  OBVIOUS
<1>1. /\ up = <<>> /\ dn = <<>> /\ upRd = 0 /\ dnRd = 0 /\ received = <<>>
      /\ session_id = NoHash /\ pc = "ident" /\ peer.at = "ident" /\ peer.rcvd = <<>>
  BY DEF Init
<1>2. <<>> \in Seq(Packets) /\ Len(<<>>) = 0
  OBVIOUS
<1>3. Sizes(<<>>)[0] = <<>>
  BY <1>2, SizesNone
<1>4. DataIn(<<>>) = <<>>
  BY <1>2, <1>3 DEF DataIn
<1> QED  BY <1>1, <1>2, <1>3, <1>4
         DEF Carried, Sealing, UpCarried, DnCarried, DataSealed, Channel!Init


\* Every step is one of SecureChannel's, or none of its.
LEMMA CarriedStep ==
  ASSUME TypeOK, TypeOK', Transcript, Transcript', Carried, [Next]_vars
  PROVE  Carried' /\ (Channel!Next \/ UNCHANGED Observed)
<1> USE DEF Carried
<1>0. /\ up \in Seq(Packets) /\ dn \in Seq(Packets) /\ upRd \in Nat /\ dnRd \in Nat
      /\ c2s \in Dirs /\ s2c \in Dirs /\ peer.tx \in Dirs
  BY DEF TypeOK
<1>1. CASE SendIdent
  <2>1. /\ UNCHANGED <<up, upRd, dn, dnRd, received, session_id, peer, c2s>>
        /\ pc # "failed" /\ pc' \in {"ident_wait", "failed"}
    BY <1>1 DEF SendIdent
  <2>2. UpCarried' /\ DataIn(up') = DataIn(up)
    BY <2>1, UpQuiet
  <2>3. DnCarried' /\ DataIn(dn') = DataIn(dn)
    BY <2>1, DnQuiet
  <2> QED  BY <2>1, <2>2, <2>3 DEF Observed, Sealing
<1>2. CASE RecvIdent
  <2>1. /\ UNCHANGED <<up, upRd, dn, dnRd, received, session_id, peer, c2s>>
        /\ pc # "failed" /\ pc' = "kexinit"
    BY <1>2 DEF RecvIdent
  <2>2. UpCarried' /\ DataIn(up') = DataIn(up)
    BY <2>1, UpQuiet
  <2>3. DnCarried' /\ DataIn(dn') = DataIn(dn)
    BY <2>1, DnQuiet
  <2> QED  BY <2>1, <2>2, <2>3 DEF Observed, Sealing
<1>3. ASSUME SendKexInit \/ SendEcdhInit
      PROVE  Carried' /\ (Channel!Next \/ UNCHANGED Observed)
  <2>1. PICK m \in {KexInit("ic"), EcdhInit("qc")}, next \in {"kexinit_wait", "ecdh_wait"} :
          SendPayload(m, next, {"failed"}) /\ pc' \in {next, "failed"}
    BY <1>3 DEF SendKexInit, SendEcdhInit, SendPayload
  <2>2. /\ UNCHANGED <<dn, dnRd, received, session_id, peer>>
        /\ pc # "failed" /\ pc' \in {"kexinit_wait", "ecdh_wait", "failed"}
    BY <1>3, <2>1 DEF SendKexInit, SendEcdhInit, SendPayload
  <2>3. m \in Messages /\ m.type \notin {"data", "newkeys"}
    BY MessageTypes DEF KexInit, EcdhInit
  <2>4. UpCarried' /\ DataIn(up') = DataIn(up)
    BY <2>1, <2>2, <2>3, UpSent
  <2>5. DnCarried' /\ DataIn(dn') = DataIn(dn)
    BY <2>2, DnQuiet
  <2> QED  BY <2>2, <2>4, <2>5 DEF Observed, Sealing
<1>4. CASE SendNewKeys
  <2>1. /\ SendPayload(NewKeys, "newkeys_wait", {"failed"})
        /\ pc = "newkeys" /\ pc' \in {"newkeys_wait", "failed"}
        /\ c2s' = [AfterSend(c2s, Block) EXCEPT !.enc = (pc' = "newkeys_wait")]
        /\ UNCHANGED <<dn, dnRd, received, session_id, peer>>
    BY <1>4 DEF SendNewKeys, SendPayload
  <2>2. session_id # NoHash
    BY <2>1 DEF Transcript, ClientKeyed, AfterKeys
  <2>3. NewKeys \in Messages /\ NewKeys.type = "newkeys"
    BY MessageTypes DEF NewKeys
  <2>4. UpCarried' /\ DataIn(up') = DataIn(up)
    BY <2>1, <2>2, <2>3, UpSent
  <2>5. DnCarried' /\ DataIn(dn') = DataIn(dn)
    BY <2>1, DnQuiet
  <2>6. c2s'.enc = (pc' = "newkeys_wait")
    <3>1. AfterSend(c2s, Block) \in Dirs
      BY <1>0, DirTypes, WireSizes
    <3> QED  BY <2>1, <3>1 DEF Dirs
  <2> QED  BY <2>1, <2>4, <2>5, <2>6 DEF Observed, Sealing
<1>5. ASSUME NEW n \in Payloads, SendData(n)
      PROVE  Carried' /\ (Channel!Next \/ UNCHANGED Observed)
  <2>1. /\ SendPayload(Data(n), "open", {"failed"})
        /\ pc = "open" /\ pc' \in {"open", "failed"}
        /\ c2s' = AfterSend(c2s, Total(n, PadLen(n)))
        /\ UNCHANGED <<dn, dnRd, received, session_id, peer>>
    BY <1>5 DEF SendData, SendPayload
  <2>2. session_id # NoHash /\ c2s.enc
    BY <2>1 DEF Transcript, ClientKeyed, AfterKeys, Sealing
  <2>3. Data(n) \in Messages /\ Data(n).type = "data" /\ Data(n).size = n
    BY MessageTypes DEF Data
  <2>4. UpCarried' /\ DataIn(up') = Append(DataIn(up), n)
    BY <2>1, <2>2, <2>3, UpSent
  <2>5. DnCarried' /\ DataIn(dn') = DataIn(dn)
    BY <2>1, DnQuiet
  <2>6. c2s'.enc
    BY <1>0, <2>1, <2>2 DEF AfterSend, Dirs
  <2>7. Channel!SendUp(n)
    BY <2>1, <2>2, <2>4, <2>5 DEF Channel!SendUp
  <2> QED  BY <2>1, <2>4, <2>5, <2>6, <2>7 DEF Channel!Next, Sealing
<1>6. CASE RecvKexInit
  <2>1. /\ Arrived /\ RecvPacket /\ dn[dnRd + 1].msg.type # "data"
        /\ pc = "kexinit_wait" /\ pc' = "ecdh"
        /\ UNCHANGED <<up, upRd, received, session_id, peer, c2s>>
    BY <1>6 DEF RecvKexInit, RecvPacket
  <2>2. DnCarried' /\ DataIn(dn') = DataIn(dn)
    BY <2>1, DnTaken
  <2>3. UpCarried' /\ DataIn(up') = DataIn(up)
    BY <2>1, UpQuiet
  <2> QED  BY <2>1, <2>2, <2>3 DEF Observed, Sealing
<1>7. CASE RecvEcdhReply
  <2>1. /\ Arrived /\ RecvPacket /\ dn[dnRd + 1].msg.type # "data"
        /\ pc = "ecdh_wait" /\ pc' = "newkeys"
        /\ UNCHANGED <<up, upRd, received, peer>>
    BY <1>7 DEF RecvEcdhReply, RecvPacket
  <2>2. session_id = NoHash /\ session_id' # NoHash
    BY <2>1 DEF Transcript, ClientUnkeyed, ClientKeyed, BeforeKeys, AfterKeys
  <2>3. DnCarried' /\ DataIn(dn') = DataIn(dn)
    BY <2>1, DnTaken
  <2>4. UpCarried' /\ DataIn(up') = DataIn(up)
    BY <2>1, <2>2, UpQuiet
  <2>5. Channel!Secure
    BY <2>1, <2>2, <2>3, <2>4 DEF Channel!Secure
  <2> QED  BY <2>1, <2>3, <2>4, <2>5 DEF Channel!Next, Sealing
<1>8. CASE RecvNewKeys
  <2>1. /\ Arrived /\ RecvPacket /\ dn[dnRd + 1].msg.type # "data"
        /\ pc = "newkeys_wait" /\ pc' = "open"
        /\ UNCHANGED <<up, upRd, received, session_id, peer, c2s>>
    BY <1>8 DEF RecvNewKeys, RecvPacket
  <2>2. DnCarried' /\ DataIn(dn') = DataIn(dn)
    BY <2>1, DnTaken
  <2>3. UpCarried' /\ DataIn(up') = DataIn(up)
    BY <2>1, UpQuiet
  <2> QED  BY <2>1, <2>2, <2>3 DEF Observed, Sealing
<1>9. CASE RecvData
  <2> DEFINE p == dn[dnRd + 1]
  <2>1. /\ Arrived /\ RecvPacket /\ p.msg.type = "data" /\ Opens(s2c, p)
        /\ pc = "open" /\ received' = Append(received, PayloadRead(s2c, p))
        /\ UNCHANGED <<up, upRd, dn, pc, session_id, peer, c2s>> /\ dnRd' = dnRd + 1
    BY <1>9 DEF RecvData, RecvPacket
  <2>2. dnRd < Len(dn) /\ dnRd + 1 \in 1 .. Len(dn)
    BY <1>0, <2>1 DEF Arrived
  <2>3. p.enc
    BY <2>1, <2>2 DEF DnCarried, DataSealed
  <2>4. PayloadRead(s2c, p) = p.msg.size
    BY <2>1, <2>3 DEF Opens, PayloadRead
  <2>5. received = Sizes(dn)[dnRd]
    BY <2>1 DEF DnCarried
  <2>6. /\ Sizes(dn)[dnRd + 1] = Append(received, p.msg.size)
        /\ Len(received) < Len(DataIn(dn))
        /\ DataIn(dn)[Len(received) + 1] = p.msg.size
    BY <1>0, <2>1, <2>2, <2>5, WireRead
  <2>7. DnCarried' /\ DataIn(dn') = DataIn(dn)
    BY <2>1, <2>4, <2>6 DEF DnCarried
  <2>8. UpCarried' /\ DataIn(up') = DataIn(up)
    BY <2>1, UpQuiet
  <2>9. Channel!RecvDown
    BY <2>1, <2>4, <2>6, <2>7, <2>8 DEF Channel!RecvDown
  <2> QED  BY <2>1, <2>7, <2>8, <2>9 DEF Channel!Next, Sealing
<1>10. ASSUME RecvRejected \/ RecvText \/ RecvLost
       PROVE  Carried' /\ (Channel!Next \/ UNCHANGED Observed)
  <2>1. /\ UNCHANGED <<up, upRd, dn, received, session_id, peer, c2s>> /\ pc' = "failed"
    BY <1>10 DEF RecvRejected, RecvText, RecvLost, RecvPacket, Fail, conn
  <2>2. UpCarried' /\ DataIn(up') = DataIn(up)
    BY <2>1, UpQuiet
  <2>3. DnCarried' /\ DataIn(dn') = DataIn(dn)
    BY <2>1 DEF DnCarried
  <2> QED  BY <2>1, <2>2, <2>3 DEF Observed, Sealing

<1>11. ASSUME NEW n \in Payloads, PeerSendData(n)
       PROVE  Carried' /\ (Channel!Next \/ UNCHANGED Observed)
  <2>1. PICK pad \in PeerPads : /\ PeerSend(Data(n), Total(n, pad))
                                /\ peer' = [peer EXCEPT !.tx = AfterSend(@, Total(n, pad))]
    BY <1>11 DEF PeerSendData
  <2>2. /\ peer.at = "open" /\ UNCHANGED <<up, upRd, dnRd, received, pc, session_id, c2s>>
    BY <1>11 DEF PeerSendData, client
  <2>3. /\ peer'.at = peer.at /\ peer'.rcvd = peer.rcvd
        /\ peer'.tx = AfterSend(peer.tx, Total(n, pad))
    BY <2>1 DEF TypeOK
  <2>4. session_id # NoHash /\ peer.tx.enc
    BY <2>2 DEF UpCarried, Sealing
  <2>5. /\ Data(n) \in Messages /\ Data(n).type = "data" /\ Data(n).size = n
        /\ Total(n, pad) \in Nat
    BY MessageTypes, WireSizes DEF Data
  <2>6. DnCarried' /\ DataIn(dn') = Append(DataIn(dn), n)
    BY <2>1, <2>2, <2>4, <2>5, DnSent
  <2>7. UpCarried' /\ DataIn(up') = DataIn(up)
    BY <2>2, <2>3, UpQuiet
  <2>8. peer'.tx.enc
    BY <1>0, <2>3, <2>4 DEF AfterSend, Dirs
  <2>9. Channel!SendDown(n)
    BY <2>2, <2>3, <2>4, <2>6, <2>7 DEF Channel!SendDown
  <2> QED  BY <2>2, <2>6, <2>7, <2>8, <2>9 DEF Channel!Next, Sealing
<1>12. CASE PeerIdent
  <2>1. /\ UNCHANGED <<up, upRd, dn, dnRd, received, session_id, c2s, pc>>
        /\ peer'.at = "kexinit" /\ peer'.rcvd = peer.rcvd
    BY <1>12 DEF PeerIdent, client, TypeOK
  <2>2. UpCarried' /\ DataIn(up') = DataIn(up)
    BY <2>1, UpQuiet
  <2>3. DnCarried' /\ DataIn(dn') = DataIn(dn)
    BY <2>1, DnQuiet
  <2> QED  BY <2>1, <2>2, <2>3 DEF Observed, Sealing
<1>13. ASSUME PeerKexInit \/ PeerNoise
       PROVE  Carried' /\ (Channel!Next \/ UNCHANGED Observed)
  <2>1. PICK m \in {KexInit(peer.kex), Ignore} : PeerSend(m, Block)
    BY <1>13 DEF PeerKexInit, PeerNoise
  <2>2. /\ UNCHANGED <<up, upRd, dnRd, received, session_id, c2s, pc>>
        /\ peer.at \in {"kexinit", "kex"} /\ peer'.at \in {"kexinit", "kex"}
        /\ peer'.rcvd = peer.rcvd
    BY <1>13 DEF PeerKexInit, PeerNoise, client, TypeOK
  <2>3. m \in Messages /\ m.type # "data" /\ Block \in Nat
    <3>1. peer.kex \in {"is", "noalgs"}
      BY DEF TypeOK
    <3>2. KexInit(peer.kex) \in Messages /\ KexInit(peer.kex).type # "data"
      BY <3>1, MessageTypes DEF KexInit
    <3>3. Ignore \in Messages /\ Ignore.type # "data"
      BY MessageTypes DEF Ignore
    <3> QED  BY <2>1, <3>2, <3>3, WireSizes
  <2>4. DnCarried' /\ DataIn(dn') = DataIn(dn)
    BY <2>1, <2>2, <2>3, DnSent
  <2>5. UpCarried' /\ DataIn(up') = DataIn(up)
    BY <2>2, UpQuiet
  <2> QED  BY <2>2, <2>4, <2>5 DEF Observed, Sealing
<1>14. ASSUME PeerRecvKexInit \/ PeerRecvNewKeys
       PROVE  Carried' /\ (Channel!Next \/ UNCHANGED Observed)
  <2>1. /\ UNCHANGED <<up, dn, dnRd, received, session_id, c2s, pc>>
        /\ PeerReads /\ upRd' = upRd + 1 /\ up[upRd + 1].msg.type # "data"
        /\ peer'.rcvd = peer.rcvd /\ peer'.tx = peer.tx
        /\ \/ peer'.at = "kex"
           \/ peer.at = "newkeys" /\ up[upRd + 1].msg.type = "newkeys"
    BY <1>14 DEF PeerRecvKexInit, PeerRecvNewKeys, client, TypeOK
  <2>2. UpCarried' /\ DataIn(up') = DataIn(up)
    BY <2>1, UpTaken
  <2>3. DnCarried' /\ DataIn(dn') = DataIn(dn)
    BY <2>1, DnQuiet
  <2> QED  BY <2>1, <2>2, <2>3 DEF Observed, Sealing
<1>15. CASE PeerRecvEcdhInit
  <2> DEFINE h == [vs |-> "ident", ic |-> peer.ic, is |-> peer.kex,
                   ks |-> "ks", qc |-> up[upRd + 1].msg.qc, qs |-> "qs"]
             reply == EcdhReply("ks", "qs", [pk |-> "ks", hash |-> h])
             tx1 == AfterSend(peer.tx, Block)
             p1 == Seal(peer.tx, reply, Block)
             p2 == Seal(tx1, NewKeys, Block)
  <2>1. /\ UNCHANGED <<up, dnRd, received, session_id, c2s, pc>>
        /\ PeerReads /\ upRd' = upRd + 1 /\ up[upRd + 1].msg.type = "ecdh_init"
        /\ dn' = dn \o <<p1, p2>>
    BY <1>15 DEF PeerRecvEcdhInit, client
  <2>2. peer'.at = "newkeys" /\ peer'.rcvd = peer.rcvd /\ peer'.tx.enc
    <3> DEFINE rx == [AfterRecv(peer.rx, up[upRd + 1].total) EXCEPT !.keys = KeysC2S(h), !.ctr = 0]
               d  == AfterSend(tx1, Block)
               tx == [d EXCEPT !.keys = KeysS2C(h), !.ctr = 0, !.enc = TRUE]
    <3>1. peer' = [peer EXCEPT !.at = "newkeys", !.hash = h, !.rx = rx, !.tx = tx]
      BY <1>15 DEF PeerRecvEcdhInit
    <3>2. d \in Dirs
      BY <1>0, DirTypes, WireSizes
    <3>3. tx.enc
      <4> HIDE DEF d, h
      <4> QED  BY <3>2 DEF Dirs
    <3> HIDE DEF rx, tx, h
    <3> QED  BY <3>1, <3>3 DEF TypeOK
  <2>3. reply \in Messages /\ reply.type # "data"
    <3>1. up[upRd + 1].msg.qc \in {"qc", "garbled"}
      BY <2>1, PeerRecvTypes, FieldTypes
    <3>2. h \in Hashes
      BY <3>1 DEF TypeOK, Hashes, Kexes
    <3> HIDE DEF h
    <3> QED  BY <3>2 DEF Messages, EcdhReply
  <2>4. NewKeys \in Messages /\ NewKeys.type # "data"
    BY MessageTypes DEF NewKeys
  <2>5. tx1 \in Dirs
    BY <1>0, DirTypes, WireSizes
  <2>6. /\ p1 \in Packets /\ p1.msg.type # "data"
        /\ p2 \in Packets /\ p2.msg.type # "data"
    <3> HIDE DEF reply, tx1
    <3> QED  BY <1>0, <2>3, <2>4, <2>5, SealFields, WireSizes
  <2> HIDE DEF p1, p2
  <2>7. dn' = Append(Append(dn, p1), p2) /\ Append(dn, p1) \in Seq(Packets)
        /\ Len(Append(dn, p1)) = Len(dn) + 1 /\ dnRd \in 0 .. Len(dn)
    <3>1. dn' = Append(Append(dn, p1), p2)
      BY <1>0, <2>1, <2>6, AppendTwo
    <3> QED  BY <1>0, <2>6, <3>1 DEF TypeOK
  <2>8. /\ Sizes(dn')[dnRd] = Sizes(dn)[dnRd] /\ DataIn(dn') = DataIn(dn) /\ DataSealed(dn')
    <3>1. /\ Sizes(Append(dn, p1))[dnRd] = Sizes(dn)[dnRd]
          /\ DataIn(Append(dn, p1)) = DataIn(dn) /\ DataSealed(Append(dn, p1))
      BY <1>0, <2>6, <2>7, WireGrows DEF DnCarried
    <3>2. dnRd \in 0 .. Len(Append(dn, p1))
      BY <1>0, <2>7
    <3> QED  BY <2>6, <2>7, <3>1, <3>2, WireGrows
  <2>9. DnCarried' /\ DataIn(dn') = DataIn(dn)
    BY <2>1, <2>8 DEF DnCarried
  <2>10. UpCarried' /\ DataIn(up') = DataIn(up)
    BY <2>1, <2>2, UpTaken
  <2> QED  BY <2>1, <2>2, <2>9, <2>10 DEF Observed, Sealing
<1>16. CASE PeerRecvData
  <2> DEFINE p == up[upRd + 1]
  <2>1. /\ UNCHANGED <<up, dn, dnRd, received, session_id, c2s, pc>>
        /\ upRd < Len(up) /\ upRd' = upRd + 1 /\ p.msg.type = "data" /\ Opens(peer.rx, p)
    BY <1>16 DEF PeerRecvData, PeerReads, client
  <2>2. upRd + 1 \in 1 .. Len(up)
    BY <1>0, <2>1
  <2>3. p.enc
    BY <2>1, <2>2 DEF UpCarried, DataSealed
  <2>4. PayloadRead(peer.rx, p) = p.msg.size
    BY <2>1, <2>3 DEF Opens, PayloadRead
  <2>5. /\ peer.at = "open" /\ peer'.at = "open" /\ peer'.tx = peer.tx
        /\ peer'.rcvd = Append(peer.rcvd, p.msg.size)
    <3> DEFINE x == PayloadRead(peer.rx, p)
               r == AfterRecv(peer.rx, p.total)
    <3>1. peer' = [peer EXCEPT !.rcvd = Append(@, x), !.rx = r] /\ peer.at = "open"
      BY <1>16 DEF PeerRecvData
    <3>2. x = p.msg.size
      BY <2>4
    <3> HIDE DEF x, r
    <3> QED  BY <3>1, <3>2 DEF TypeOK
  <2>6. peer.rcvd = Sizes(up)[upRd]
    BY DEF UpCarried
  <2>7. /\ Sizes(up)[upRd + 1] = Append(peer.rcvd, p.msg.size)
        /\ Len(peer.rcvd) < Len(DataIn(up))
        /\ DataIn(up)[Len(peer.rcvd) + 1] = p.msg.size
    BY <1>0, <2>1, <2>6, WireRead
  <2>8. UpCarried' /\ DataIn(up') = DataIn(up)
    BY <2>1, <2>5, <2>7 DEF UpCarried
  <2>9. DnCarried' /\ DataIn(dn') = DataIn(dn)
    BY <2>1, DnQuiet
  <2>10. Channel!RecvUp
    BY <2>1, <2>5, <2>7, <2>8, <2>9 DEF Channel!RecvUp
  <2> QED  BY <2>1, <2>5, <2>8, <2>9, <2>10 DEF Channel!Next, Sealing
<1>17. ASSUME PeerHangsUp \/ LinkLost
       PROVE  Carried' /\ (Channel!Next \/ UNCHANGED Observed)
  <2>1. /\ UNCHANGED <<up, upRd, dn, dnRd, received, session_id, c2s, pc>>
        /\ peer'.rcvd = peer.rcvd /\ (peer' = peer \/ peer'.at = "gone")
    BY <1>17 DEF PeerHangsUp, LinkLost, client, TypeOK
  <2>2. UpCarried' /\ DataIn(up') = DataIn(up)
    BY <2>1, UpQuiet
  <2>3. DnCarried' /\ DataIn(dn') = DataIn(dn)
    BY <2>1, DnQuiet
  <2> QED  BY <2>1, <2>2, <2>3 DEF Observed, Sealing
<1>18. CASE Damage
  <2>1. UNCHANGED <<upRd, dnRd, received, session_id, c2s, pc, peer>>
    BY <1>18 DEF Damage, client
  <2>2. UpCarried' /\ DataIn(up') = DataIn(up)
    <3>1. CASE up' = up
      BY <2>1, <3>1, UpQuiet
    <3>2. CASE DamageUp
      <4>1. PICK i \in upRd + 1 .. Len(up) : \E q \in DamagedForms(up[i]) : up' = [up EXCEPT ![i] = q]
        BY <3>2 DEF DamageUp
      <4>2. PICK q \in DamagedForms(up[i]) : up' = [up EXCEPT ![i] = q]
        BY <4>1
      <4>3. i \in 1 .. Len(up) /\ upRd \in 0 .. Len(up) /\ up[i] \in Packets
        <5>1. i \in 1 .. Len(up) /\ upRd \in 0 .. Len(up)
          BY <1>0 DEF TypeOK
        <5> QED  BY <1>0, <5>1
      <4>4. Sizes(up')[upRd] = Sizes(up)[upRd] /\ DataIn(up') = DataIn(up) /\ DataSealed(up')
        BY <1>0, <4>2, <4>3, WireDamaged DEF UpCarried
      <4>5. q.msg.type = "newkeys" => up[i].msg.type = "newkeys"
        BY <4>3, DamagedPacket
      <4>6. /\ Len(up') = Len(up) /\ up'[i] = q
            /\ \A k \in 1 .. Len(up) : k # i => up'[k] = up[k]
        BY <1>0, <4>2, <4>3
      <4>7. \A k \in 1 .. Len(up') : up'[k].msg.type = "newkeys" => session_id # NoHash
        BY <4>3, <4>5, <4>6 DEF UpCarried
      <4> QED  BY <2>1, <4>4, <4>7 DEF UpCarried
    <3> QED  BY <1>18, <3>1, <3>2 DEF Damage, DamageDown
  <2>3. DnCarried' /\ DataIn(dn') = DataIn(dn)
    <3>1. CASE dn' = dn
      BY <2>1, <3>1, DnQuiet
    <3>2. CASE DamageDown
      <4>1. PICK i \in dnRd + 1 .. Len(dn) : \E q \in DamagedForms(dn[i]) : dn' = [dn EXCEPT ![i] = q]
        BY <3>2 DEF DamageDown
      <4>2. PICK q \in DamagedForms(dn[i]) : dn' = [dn EXCEPT ![i] = q]
        BY <4>1
      <4>3. i \in 1 .. Len(dn) /\ dnRd \in 0 .. Len(dn)
        BY <1>0 DEF TypeOK
      <4>4. Sizes(dn')[dnRd] = Sizes(dn)[dnRd] /\ DataIn(dn') = DataIn(dn) /\ DataSealed(dn')
        BY <1>0, <4>2, <4>3, WireDamaged DEF DnCarried
      <4> QED  BY <2>1, <4>4 DEF DnCarried
    <3> QED  BY <1>18, <3>1, <3>2 DEF Damage, DamageUp
  <2> QED  BY <2>1, <2>2, <2>3 DEF Observed, Sealing
<1>19. CASE UNCHANGED vars
  <2>1. UNCHANGED <<up, upRd, dn, dnRd, received, session_id, c2s, pc, peer>>
    BY <1>19 DEF vars, client, conn
  <2>2. UpCarried' /\ DataIn(up') = DataIn(up)
    BY <2>1, UpQuiet
  <2>3. DnCarried' /\ DataIn(dn') = DataIn(dn)
    BY <2>1, DnQuiet
  <2> QED  BY <2>1, <2>2, <2>3 DEF Observed, Sealing
<1> QED
  BY <1>1, <1>2, <1>3, <1>4, <1>5, <1>6, <1>7, <1>8, <1>9, <1>10, <1>11, <1>12, <1>13, <1>14,
     <1>15, <1>16, <1>17, <1>18, <1>19
  DEF Next, Handshake, Recv, PeerStep

-----------------------------------------------------------------------------
\* In each direction the payloads handed out are those handed over: none is
\* lost, doubled, reordered or made up, however packets are padded, damaged or
\* cut off on the way, and nothing is handed over before the keys are agreed
\* (sshe_tx_send_payload and sshe_tx_recv_packet, transport.c 114-262).
THEOREM TransportImplementsChannel == Spec => ChannelSpec
<1>1. Init => Carried /\ Channel!Init
  BY CarriedInit
<1>2. TypeOK /\ TypeOK' /\ Transcript /\ Transcript' /\ Carried /\ [Next]_vars
      => Carried' /\ [Channel!Next]_(Channel!vars)
  BY CarriedStep DEF Channel!vars, Observed
<1> QED
  BY <1>1, <1>2, TypeCorrect, TranscriptInvariant, PTL DEF Spec, ChannelSpec, Channel!Spec

-----------------------------------------------------------------------------
(***************************************************************************)
(* Why a handshake fails.  With a peer that sends nothing it need not send *)
(* Transport fails only for a cause: as long as none has come up, the two  *)
(* wires carry the handshake's messages in their order, undamaged, and     *)
(* everybody is where they lead.                                           *)
(***************************************************************************)

(* The script. *)

\* No cause for a failure has come up.
Fine == damage = 0 /\ peer.kex = "is" /\ (LinkMayFail => link)

Agreed == [vs |-> "ident", ic |-> "ic", is |-> "is", ks |-> "ks", qc |-> "qc", qs |-> "qs"]
Reply  == EcdhReply("ks", "qs", [pk |-> "ks", hash |-> Agreed])

\* What the i-th packet of each wire says.
UpTurn(i) ==
  CASE i = 1 -> {KexInit("ic")}
    [] i = 2 -> {EcdhInit("qc")}
    [] i = 3 -> {NewKeys}
    [] OTHER -> {Data(n) : n \in Payloads}
DnTurn(i) ==
  CASE i = 1 -> {KexInit("is")}
    [] i = 2 -> {Reply}
    [] i = 3 -> {NewKeys}
    [] OTHER -> {Data(n) : n \in Payloads}

UpScript == \A i \in 1 .. Len(up) : Unharmed(up[i]) /\ up[i].msg \in UpTurn(i)
DnScript == \A i \in 1 .. Len(dn) : Unharmed(dn[i]) /\ dn[i].msg \in DnTurn(i)

\* How far the client is: what it has sent, read and learned.
ClientStage ==
  /\ pc \in {"ident", "ident_wait", "kexinit"} => Len(up) = 0
  /\ pc \in {"kexinit_wait", "ecdh"} => Len(up) = 1
  /\ pc \in {"ecdh_wait", "newkeys"} => Len(up) = 2
  /\ pc = "newkeys_wait" => Len(up) = 3
  /\ pc = "open" => Len(up) >= 3
  /\ pc \in {"ident", "ident_wait", "kexinit", "kexinit_wait"} => dnRd = 0
  /\ pc \in {"ecdh", "ecdh_wait"} => dnRd = 1 /\ server_kex = "is"
  /\ pc \in {"newkeys", "newkeys_wait"} => dnRd = 2
  /\ pc = "open" => dnRd >= 3

\* How far the peer is.
PeerStage ==
  /\ peer.at \in {"ident", "kexinit"} => Len(dn) = 0 /\ upRd = 0 /\ peer.ic = "none"
  /\ peer.at = "kex" => Len(dn) = 1
  /\ peer.at = "kex" /\ peer.ic = "none" => upRd = 0
  /\ peer.at = "kex" /\ peer.ic # "none" => upRd = 1 /\ peer.ic = "ic"
  /\ peer.at = "newkeys" => Len(dn) = 3 /\ upRd = 2
  /\ peer.at = "open" => Len(dn) >= 3 /\ upRd >= 3

\* The server's identification comes once and is read before anything else.
Greeting ==
  /\ lines \in {<<>>, <<"ident">>}
  /\ peer.at = "ident" => lines = <<>>
  /\ peer.at = "ident" \/ lines # <<>> => pc \in {"ident", "ident_wait"}
  /\ pc \notin {"ident", "ident_wait"} => server_id = "ident"

Alive == pc # "failed" /\ peer.at # "gone" /\ link

Script == Alive /\ UpScript /\ DnScript /\ ClientStage /\ PeerStage /\ Greeting

OnScript == Fine => Script


\* Whose turn it is to say what, spelt out.
LEMMA Turns ==
  /\ UpTurn(1) = {KexInit("ic")} /\ UpTurn(2) = {EcdhInit("qc")} /\ UpTurn(3) = {NewKeys}
  /\ DnTurn(1) = {KexInit("is")} /\ DnTurn(2) = {Reply} /\ DnTurn(3) = {NewKeys}
  /\ \A i \in Nat : i > 3 => /\ UpTurn(i) = {Data(n) : n \in Payloads}
                            /\ DnTurn(i) = {Data(n) : n \in Payloads}
  BY DEF UpTurn, DnTurn

\* The fields of those messages, spelt out.
LEMMA Says ==
  /\ \A k : KexInit(k).type = "kexinit" /\ KexInit(k).kex = k
  /\ \A q : EcdhInit(q).type = "ecdh_init" /\ EcdhInit(q).qc = q
  /\ NewKeys.type = "newkeys"
  /\ \A n : Data(n).type = "data"
  /\ Reply.type = "ecdh_reply" /\ Reply.ks = "ks" /\ Reply.qs = "qs"
  /\ Reply.sig = [pk |-> "ks", hash |-> Agreed]
  BY DEF KexInit, EcdhInit, NewKeys, Data, Reply, EcdhReply

\* The reply is a message.
LEMMA ReplyTyped == Reply \in Messages
<1>1. Agreed \in Hashes
  BY DEF Agreed, Hashes, Kexes
<1> QED  BY <1>1 DEF Reply, EcdhReply, Messages

\* A cause, once up, stays.
LEMMA FineBefore ==
  ASSUME TypeOK, [Next]_vars, Fine'
  PROVE  Fine
<1>0. /\ damage \in Nat /\ MaxDamage \in Nat
      /\ peer \in [at : {"ident", "kexinit", "kex", "newkeys", "open", "gone"},
               kex : {"is", "noalgs"}, ic : Kexes, hash : Hashes,
               rx : Dirs, tx : Dirs, rcvd : Seq(Nat)]
  BY TransportAssumption DEF TypeOK
<1>1. CASE Handshake
  BY <1>1 DEF Handshake, SendIdent, RecvIdent, SendKexInit, RecvKexInit, SendEcdhInit,
              RecvEcdhReply, SendNewKeys, RecvNewKeys, SendPayload, RecvPacket, Fine
<1>2. CASE Recv
  BY <1>2 DEF Recv, RecvData, RecvRejected, RecvText, RecvLost, RecvPacket, conn, Fine
<1>3. ASSUME NEW n \in Payloads, SendData(n) \/ PeerSendData(n) PROVE Fine
  BY <1>0, <1>3 DEF SendData, PeerSendData, SendPayload, Fine
<1>4. CASE PeerStep
  <2>1. damage' = damage /\ (link' = link \/ link' = FALSE)
    BY <1>4 DEF PeerStep, PeerIdent, PeerKexInit, PeerRecvKexInit, PeerRecvEcdhInit,
                PeerRecvNewKeys, PeerRecvData, PeerHangsUp
  <2>2. peer'.kex = peer.kex
    <3>1. CASE PeerIdent \/ PeerKexInit \/ PeerRecvKexInit \/ PeerHangsUp
      BY <1>0, <3>1 DEF PeerIdent, PeerKexInit, PeerRecvKexInit, PeerHangsUp
    <3>2. CASE PeerRecvEcdhInit
      BY <1>0, <3>2 DEF PeerRecvEcdhInit
    <3>3. CASE PeerRecvNewKeys \/ PeerRecvData
      BY <1>0, <3>3 DEF PeerRecvNewKeys, PeerRecvData
    <3> QED  BY <1>4, <3>1, <3>2, <3>3 DEF PeerStep
  <2> QED  BY <2>1, <2>2 DEF Fine
<1>5. CASE PeerNoise
  BY <1>0, <1>5 DEF PeerNoise, Fine
<1>6. CASE LinkLost
  BY <1>6 DEF LinkLost, Fine
<1>7. CASE Damage
  <2>1. damage' = damage + 1 /\ damage' = 0
    BY <1>7 DEF Damage, Fine
  <2> QED  BY <1>0, <2>1
<1>8. CASE UNCHANGED vars
  BY <1>8 DEF vars, conn, Fine
<1> QED
  BY <1>1, <1>2, <1>3, <1>4, <1>5, <1>6, <1>7, <1>8 DEF Next

\* The next packet of a wire, when it is its turn.
LEMMA UpSays ==
  ASSUME TypeOK, UpScript, link, NEW m \in Messages, m \in UpTurn(Len(up) + 1),
         NEW next, NEW lost, SendPayload(m, next, lost)
  PROVE  UpScript' /\ Len(up') = Len(up) + 1 /\ pc' = next
<1> DEFINE p == [Seal(c2s, m, WireSize(m)) EXCEPT !.whole = link]
<1>1. p \in Packets /\ p.msg = m /\ Unharmed(p)
  <2>1. p \in Packets
    BY SealTypes, WireSizes DEF TypeOK
  <2> QED  BY <2>1 DEF Seal, Unharmed
<1>2. up' = Append(up, p) /\ pc' = next /\ up \in Seq(Packets)
  BY DEF SendPayload, TypeOK
<1> HIDE DEF p
<1>3. /\ Len(up') = Len(up) + 1 /\ Len(up) \in Nat
      /\ up'[Len(up) + 1] = p /\ \A i \in 1 .. Len(up) : up'[i] = up[i]
  BY <1>1, <1>2
<1>4. \A i \in 1 .. Len(up') : i \in 1 .. Len(up) \/ i = Len(up) + 1
  BY <1>3
<1> QED  BY <1>1, <1>2, <1>3, <1>4 DEF UpScript

\* The server's next packet is the one whose turn it is.
LEMMA DnSays ==
  ASSUME TypeOK, DnScript, NEW m \in Messages, m \in DnTurn(Len(dn) + 1),
         NEW total \in Nat, PeerSend(m, total)
  PROVE  DnScript' /\ Len(dn') = Len(dn) + 1
<1> DEFINE p == Seal(peer.tx, m, total)
<1>1. p \in Packets /\ p.msg = m /\ Unharmed(p)
  <2>1. peer.tx \in Dirs
    BY DEF TypeOK
  <2>2. p \in Packets
    BY <2>1, SealTypes
  <2> QED  BY <2>2 DEF Seal, Unharmed
<1>2. dn' = Append(dn, p) /\ dn \in Seq(Packets)
  BY DEF PeerSend, TypeOK
<1> HIDE DEF p
<1>3. /\ Len(dn') = Len(dn) + 1 /\ Len(dn) \in Nat
      /\ dn'[Len(dn) + 1] = p /\ \A i \in 1 .. Len(dn) : dn'[i] = dn[i]
  BY <1>1, <1>2
<1>4. \A i \in 1 .. Len(dn') : i \in 1 .. Len(dn) \/ i = Len(dn) + 1
  BY <1>3
<1> QED  BY <1>1, <1>3, <1>4 DEF DnScript

\* What comes up to be read opens and is what it should be.
LEMMA DnNext ==
  ASSUME TypeOK, InSync, Script, Arrived
  PROVE  /\ Opens(s2c, dn[dnRd + 1])
         /\ dnRd = 0 => dn[dnRd + 1].msg = KexInit("is")
         /\ dnRd = 1 => dn[dnRd + 1].msg = Reply
         /\ dnRd = 2 => dn[dnRd + 1].msg = NewKeys
         /\ dnRd >= 3 => dn[dnRd + 1].msg.type = "data"
<1>1. /\ dnRd \in Nat /\ Len(dn) \in Nat /\ dnRd < Len(dn) /\ dnRd + 1 \in 1 .. Len(dn)
  BY DEF TypeOK, Arrived
<1>2. Unharmed(dn[dnRd + 1]) /\ dn[dnRd + 1].msg \in DnTurn(dnRd + 1)
  BY <1>1 DEF Script, DnScript
<1>3. Opens(s2c, dn[dnRd + 1])
  BY <1>1, <1>2 DEF InSync, Script, Alive
<1>4. dnRd >= 3 => dnRd + 1 > 3 /\ dnRd + 1 \in Nat
  BY <1>1
<1> QED  BY <1>1, <1>2, <1>3, <1>4, Turns, Says

\* The packet the server reads next opens, and is the one it expects.
LEMMA UpNext ==
  ASSUME TypeOK, InSync, Script, PeerReads
  PROVE  /\ Opens(peer.rx, up[upRd + 1])
         /\ upRd = 0 => up[upRd + 1].msg = KexInit("ic")
         /\ upRd = 1 => up[upRd + 1].msg = EcdhInit("qc")
         /\ upRd = 2 => up[upRd + 1].msg = NewKeys
         /\ upRd >= 3 => up[upRd + 1].msg.type = "data"
<1>1. /\ upRd \in Nat /\ Len(up) \in Nat /\ upRd < Len(up) /\ upRd + 1 \in 1 .. Len(up)
  BY DEF TypeOK, PeerReads
<1>2. Unharmed(up[upRd + 1]) /\ up[upRd + 1].msg \in UpTurn(upRd + 1)
  BY <1>1 DEF Script, UpScript
<1>3. Opens(peer.rx, up[upRd + 1])
  BY <1>2 DEF InSync
<1>4. upRd >= 3 => upRd + 1 > 3 /\ upRd + 1 \in Nat
  BY <1>1
<1> QED  BY <1>1, <1>2, <1>3, <1>4, Turns, Says


\* A step that leaves the connection as it is and neither end failed.
LEMMA ScriptStep ==
  ASSUME MaxNoise = 0, MaxPreLines = 0, TypeOK, TypeOK', InSync, Script, Fine, Fine',
         [Next]_vars
  PROVE  Script'
<1> USE DEF Script
<1>0. /\ up \in Seq(Packets) /\ dn \in Seq(Packets) /\ upRd \in Nat /\ dnRd \in Nat
      /\ Len(up) \in Nat /\ Len(dn) \in Nat
      /\ c2s \in Dirs /\ s2c \in Dirs /\ peer.tx \in Dirs /\ link /\ pc # "failed"
      /\ peer \in [at : {"ident", "kexinit", "kex", "newkeys", "open", "gone"},
               kex : {"is", "noalgs"}, ic : Kexes, hash : Hashes,
               rx : Dirs, tx : Dirs, rcvd : Seq(Nat)]
  BY DEF TypeOK, Alive
<1>1. CASE SendIdent
  BY <1>0, <1>1 DEF SendIdent, Alive, UpScript, DnScript, ClientStage, PeerStage, Greeting
<1>2. CASE RecvIdent
  <2>1. lines = <<"ident">> /\ server_id' = "ident" /\ lines' = <<>> /\ peer.at # "ident"
    BY <1>2 DEF RecvIdent, Greeting
  <2> QED
    BY <1>0, <1>2, <2>1 DEF RecvIdent, Alive, UpScript, DnScript, ClientStage, PeerStage, Greeting
<1>3. CASE SendKexInit
  <2>1. SendPayload(KexInit("ic"), "kexinit_wait", {"failed"}) /\ pc = "kexinit" /\ Len(up) = 0
    BY <1>3 DEF SendKexInit, ClientStage
  <2>2. KexInit("ic") \in Messages /\ KexInit("ic") \in UpTurn(Len(up) + 1)
    BY <2>1, MessageTypes, Turns
  <2>3. UpScript' /\ Len(up') = 1 /\ pc' = "kexinit_wait"
    BY <1>0, <2>1, <2>2, UpSays
  <2> QED
    BY <1>0, <1>3, <2>1, <2>3
    DEF SendKexInit, SendPayload, Alive, DnScript, ClientStage, PeerStage, Greeting
<1>4. CASE RecvKexInit
  <2>1. /\ Arrived /\ RecvPacket /\ pc = "kexinit_wait" /\ pc' = "ecdh" /\ dnRd = 0
        /\ server_kex' = dn[dnRd + 1].msg.kex /\ Len(up) = 1
    BY <1>4 DEF RecvKexInit, ClientStage
  <2>2. server_kex' = "is"
    BY <2>1, DnNext, Says
  <2> QED
    BY <1>0, <1>4, <2>1, <2>2
    DEF RecvKexInit, RecvPacket, Alive, UpScript, DnScript, ClientStage, PeerStage, Greeting
<1>5. CASE SendEcdhInit
  <2>1. SendPayload(EcdhInit("qc"), "ecdh_wait", {"failed"}) /\ pc = "ecdh" /\ Len(up) = 1
        /\ UNCHANGED <<server_kex, server_id>>
    BY <1>5 DEF SendEcdhInit, ClientStage
  <2>2. EcdhInit("qc") \in Messages /\ EcdhInit("qc") \in UpTurn(Len(up) + 1)
    BY <2>1, MessageTypes, Turns
  <2>3. UpScript' /\ Len(up') = 2 /\ pc' = "ecdh_wait"
    BY <1>0, <2>1, <2>2, UpSays
  <2> QED
    BY <1>0, <2>1, <2>3
    DEF SendPayload, Alive, DnScript, ClientStage, PeerStage, Greeting
<1>6. CASE RecvEcdhReply
  BY <1>0, <1>6
  DEF RecvEcdhReply, RecvPacket, Alive, UpScript, DnScript, ClientStage, PeerStage, Greeting
<1>7. CASE SendNewKeys
  <2>1. SendPayload(NewKeys, "newkeys_wait", {"failed"}) /\ pc = "newkeys" /\ Len(up) = 2
        /\ UNCHANGED <<server_kex, server_id>>
    BY <1>7 DEF SendNewKeys, ClientStage
  <2>2. NewKeys \in Messages /\ NewKeys \in UpTurn(Len(up) + 1)
    BY <2>1, MessageTypes, Turns
  <2>3. UpScript' /\ Len(up') = 3 /\ pc' = "newkeys_wait"
    BY <1>0, <2>1, <2>2, UpSays
  <2> QED
    BY <1>0, <2>1, <2>3
    DEF SendPayload, Alive, DnScript, ClientStage, PeerStage, Greeting
<1>8. CASE RecvNewKeys
  <2>1. /\ pc = "newkeys_wait" /\ pc' = "open" /\ dnRd = 2 /\ dnRd' = dnRd + 1 /\ Len(up) = 3
        /\ UNCHANGED <<server_id, server_kex, lines, up, upRd, dn, link, peer>>
    BY <1>8 DEF RecvNewKeys, RecvPacket, ClientStage
  <2>2. UpScript' /\ DnScript' /\ PeerStage'
    BY <2>1 DEF UpScript, DnScript, PeerStage
  <2>3. dnRd' = 3 /\ Len(up') = 3 /\ ClientStage'
    <3>1. dnRd' = 3 /\ Len(up') = 3 /\ pc' = "open"
      BY <2>1
    <3> QED  BY <3>1 DEF ClientStage
  <2> QED  BY <1>0, <2>1, <2>2, <2>3 DEF Alive, Greeting
<1>9. ASSUME NEW n \in Payloads, SendData(n) PROVE Script'
  <2>1. SendPayload(Data(n), "open", {"failed"}) /\ pc = "open" /\ Len(up) >= 3
        /\ UNCHANGED <<server_kex, server_id>>
    BY <1>9 DEF SendData, ClientStage
  <2>2. Data(n) \in Messages /\ Data(n) \in UpTurn(Len(up) + 1)
    BY <1>0, <2>1, MessageTypes, Turns
  <2>3. UpScript' /\ Len(up') >= 3 /\ pc' = "open"
    BY <1>0, <2>1, <2>2, UpSays
  <2> QED
    BY <1>0, <2>1, <2>3
    DEF SendPayload, Alive, DnScript, ClientStage, PeerStage, Greeting
<1>10. CASE RecvData
  <2>1. /\ pc = "open" /\ dnRd >= 3 /\ dnRd' = dnRd + 1
        /\ UNCHANGED <<pc, server_id, server_kex, lines, up, upRd, dn, link, peer>>
    BY <1>10 DEF RecvData, RecvPacket, ClientStage
  <2>2. UpScript' /\ DnScript' /\ PeerStage'
    BY <2>1 DEF UpScript, DnScript, PeerStage
  <2> QED  BY <1>0, <2>1, <2>2 DEF Alive, ClientStage, Greeting
<1>11. CASE RecvRejected
  <2> DEFINE p == dn[dnRd + 1]
  <2>1. Receiving /\ Arrived /\ Rejects(p)
    BY <1>11 DEF RecvRejected
  <2>2. Opens(s2c, p)
    BY <2>1, DnNext
  <2>3. CASE pc = "kexinit_wait"
    <3>1. p.msg = KexInit("is")
      BY <2>1, <2>3, DnNext DEF ClientStage
    <3> QED  BY <2>1, <2>2, <2>3, <3>1, Says DEF Rejects, Expected, check_server_algs
  <2>4. CASE pc = "ecdh_wait"
    <3>1. p.msg = Reply /\ server_kex = "is" /\ server_id = "ident"
      BY <2>1, <2>4, DnNext DEF ClientStage, Greeting
    <3>2. ClientHash(p.msg) = Agreed
      BY <3>1, Says DEF ClientHash, Agreed
    <3>3. SignatureVerifies(p.msg)
      BY <3>1, <3>2, Says DEF SignatureVerifies
    <3> QED  BY <2>1, <2>2, <2>4, <3>1, <3>3, Says DEF Rejects, Expected
  <2>5. CASE pc = "newkeys_wait"
    <3>1. p.msg = NewKeys
      BY <2>1, <2>5, DnNext DEF ClientStage
    <3> QED  BY <2>1, <2>2, <2>5, <3>1, Says DEF Rejects, Expected
  <2>6. CASE pc = "open"
    <3>1. p.msg.type = "data"
      BY <2>1, <2>6, DnNext DEF ClientStage
    <3> QED  BY <2>1, <2>2, <2>6, <3>1, Says DEF Rejects, Expected
  <2> QED  BY <2>1, <2>3, <2>4, <2>5, <2>6 DEF Receiving
<1>12. CASE RecvText
  BY <1>12 DEF RecvText, Receiving, Greeting
<1>13. CASE RecvLost
  BY <1>0, <1>13 DEF RecvLost
<1>14. CASE PeerIdent
  <2>1. PICK k \in 0 .. MaxPreLines : lines' = Append([i \in 1 .. k |-> "pre"], "ident")
    BY <1>14 DEF PeerIdent
  <2>2. k = 0 /\ [i \in 1 .. 0 |-> "pre"] = <<>>
    OBVIOUS
  <2>3. lines' = <<"ident">>
    BY <2>1, <2>2
  <2>4. peer.at = "ident" /\ pc \in {"ident", "ident_wait"} /\ peer' = [peer EXCEPT !.at = "kexinit"]
        /\ UNCHANGED <<pc, server_id, server_kex, up, upRd, dn, dnRd, link>>
    BY <1>14 DEF PeerIdent, Greeting, client
  <2>5. peer'.at = "kexinit" /\ peer'.ic = peer.ic
    BY <1>0, <2>4
  <2> QED
    BY <1>0, <2>3, <2>4, <2>5 DEF Alive, UpScript, DnScript, ClientStage, PeerStage, Greeting
<1>15. CASE PeerKexInit
  <2>1. /\ PeerSend(KexInit(peer.kex), Block) /\ peer.at = "kexinit" /\ peer.kex = "is"
        /\ Len(dn) = 0 /\ upRd = 0 /\ peer.ic = "none"
        /\ UNCHANGED <<pc, server_id, server_kex, lines, up, upRd, dnRd, link>>
    BY <1>15 DEF PeerKexInit, PeerStage, Fine, client
  <2>2. KexInit("is") \in Messages /\ KexInit("is") \in DnTurn(Len(dn) + 1)
    BY <2>1, MessageTypes, Turns
  <2>3. DnScript' /\ Len(dn') = 1
    BY <2>1, <2>2, DnSays, WireSizes
  <2>4. peer'.at = "kex" /\ peer'.ic = "none"
    BY <1>0, <1>15, <2>1 DEF PeerKexInit
  <2> QED
    BY <1>0, <2>1, <2>3, <2>4 DEF Alive, UpScript, ClientStage, PeerStage, Greeting
<1>16. CASE PeerNoise
  BY <1>16 DEF PeerNoise, TypeOK
<1>17. CASE PeerRecvKexInit
  <2>1. /\ PeerReads /\ peer.at = "kex" /\ peer.ic = "none" /\ Len(dn) = 1 /\ upRd = 0
        /\ upRd' = upRd + 1
        /\ UNCHANGED <<pc, server_id, server_kex, lines, up, dn, dnRd, link>>
    BY <1>17 DEF PeerRecvKexInit, PeerStage, client
  <2>2. up[upRd + 1].msg.kex = "ic"
    BY <2>1, UpNext, Says
  <2>3. peer'.at = "kex" /\ peer'.ic = "ic"
    BY <1>0, <1>17, <2>1, <2>2 DEF PeerRecvKexInit
  <2>4. UpScript' /\ DnScript' /\ ClientStage'
    BY <2>1 DEF UpScript, DnScript, ClientStage
  <2>5. upRd' = 1
    BY <2>1
  <2> QED  BY <1>0, <2>1, <2>3, <2>4, <2>5 DEF Alive, PeerStage, Greeting
<1>18. CASE PeerRecvEcdhInit
  <2> DEFINE h == [vs |-> "ident", ic |-> peer.ic, is |-> peer.kex,
                   ks |-> "ks", qc |-> up[upRd + 1].msg.qc, qs |-> "qs"]
             reply == EcdhReply("ks", "qs", [pk |-> "ks", hash |-> h])
             tx1 == AfterSend(peer.tx, Block)
             p1 == Seal(peer.tx, reply, Block)
             p2 == Seal(tx1, NewKeys, Block)
  <2>1. /\ PeerReads /\ peer.at = "kex" /\ peer.ic = "ic" /\ Len(dn) = 1 /\ upRd = 1
        /\ peer.kex = "is" /\ upRd' = 2 /\ dn' = dn \o <<p1, p2>>
        /\ UNCHANGED <<pc, server_id, server_kex, lines, up, dnRd, link>>
    BY <1>18 DEF PeerRecvEcdhInit, PeerStage, Fine, client
  <2>2. up[upRd + 1].msg.qc = "qc"
    BY <2>1, UpNext, Says
  <2>3. reply = Reply
    BY <2>1, <2>2 DEF Reply, Agreed
  <2>4. p1.msg = Reply /\ Unharmed(p1) /\ p2.msg = NewKeys /\ Unharmed(p2)
    BY <2>3 DEF Seal, Unharmed
  <2>5. p1 \in Packets /\ p2 \in Packets
    <3>1. tx1 \in Dirs
      BY <1>0, DirTypes, WireSizes
    <3> HIDE DEF tx1, reply
    <3> QED  BY <1>0, <2>3, <3>1, SealTypes, ReplyTyped, MessageTypes, WireSizes
  <2> HIDE DEF p1, p2
  <2>6. Len(dn') = 3 /\ dn'[1] = dn[1] /\ dn'[2] = p1 /\ dn'[3] = p2
    <3>1. dn \in Seq(Packets) /\ Len(dn) = 1 /\ <<p1, p2>> \in Seq(Packets) /\ Len(<<p1, p2>>) = 2
      BY <1>0, <2>1, <2>5
    <3> DEFINE q == <<p1, p2>>
    <3>2. q[1] = p1 /\ q[2] = p2
      OBVIOUS
    <3> HIDE DEF q
    <3>3. /\ dn' = dn \o q /\ q \in Seq(Packets) /\ Len(q) = 2
          /\ dn \in Seq(Packets) /\ Len(dn) = 1
      BY <2>1, <3>1 DEF q
    <3>4. /\ Len(dn \o q) = Len(dn) + Len(q)
          /\ \A i \in 1 .. Len(dn) + Len(q) :
               (dn \o q)[i] = IF i <= Len(dn) THEN dn[i] ELSE q[i - Len(dn)]
      BY <3>3, ConcatProperties
    <3>5. Len(dn') = 3 /\ \A i \in 1 .. 3 : dn'[i] = IF i <= 1 THEN dn[i] ELSE q[i - 1]
      BY <3>3, <3>4
    <3>6. dn'[1] = dn[1] /\ dn'[2] = q[1] /\ dn'[3] = q[2]
      BY <3>5
    <3> QED  BY <3>2, <3>5, <3>6
  <2>7. \A i \in 1 .. Len(dn') : i = 1 \/ i = 2 \/ i = 3
    BY <2>6
  <2>8. Unharmed(dn[1]) /\ dn[1].msg \in DnTurn(1)
    BY <2>1 DEF DnScript
  <2>9. DnScript'
    BY <2>4, <2>6, <2>7, <2>8, Turns DEF DnScript
  <2>10. peer'.at = "newkeys"
    BY <1>0, <1>18 DEF PeerRecvEcdhInit
  <2> QED
    BY <1>0, <2>1, <2>6, <2>9, <2>10 DEF Alive, UpScript, ClientStage, PeerStage, Greeting
<1>19. CASE PeerRecvNewKeys
  <2>1. /\ PeerReads /\ peer.at = "newkeys" /\ Len(dn) = 3 /\ upRd = 2 /\ upRd' = upRd + 1
        /\ UNCHANGED <<pc, server_id, server_kex, lines, up, dn, dnRd, link>>
    BY <1>19 DEF PeerRecvNewKeys, PeerStage, client
  <2>2. peer'.at = "open"
    BY <1>0, <1>19 DEF PeerRecvNewKeys
  <2>3. UpScript' /\ DnScript' /\ ClientStage'
    BY <2>1 DEF UpScript, DnScript, ClientStage
  <2>4. PeerStage'
    <3>1. upRd' = 3 /\ Len(dn') = 3
      BY <2>1
    <3> QED  BY <2>2, <3>1 DEF PeerStage
  <2>5. Greeting'
    BY <2>1, <2>2 DEF Greeting
  <2> QED  BY <1>0, <2>1, <2>2, <2>3, <2>4, <2>5 DEF Alive
<1>20. CASE PeerRecvData
  <2>1. /\ peer.at = "open" /\ Len(dn) >= 3 /\ upRd >= 3 /\ upRd' = upRd + 1
        /\ UNCHANGED <<pc, server_id, server_kex, lines, up, dn, dnRd, link>>
    BY <1>20 DEF PeerRecvData, PeerStage, client
  <2>2. peer'.at = "open"
    BY <1>0, <1>20 DEF PeerRecvData
  <2> QED
    BY <1>0, <2>1, <2>2 DEF Alive, UpScript, DnScript, ClientStage, PeerStage, Greeting
<1>21. ASSUME NEW n \in Payloads, PeerSendData(n) PROVE Script'
  <2>1. PICK pad \in PeerPads : /\ PeerSend(Data(n), Total(n, pad))
                                /\ peer' = [peer EXCEPT !.tx = AfterSend(@, Total(n, pad))]
    BY <1>21 DEF PeerSendData
  <2>2. /\ peer.at = "open" /\ Len(dn) >= 3 /\ upRd >= 3
        /\ UNCHANGED <<pc, server_id, server_kex, lines, up, upRd, dnRd, link>>
    BY <1>21 DEF PeerSendData, PeerStage, client
  <2>3. Data(n) \in Messages /\ Data(n) \in DnTurn(Len(dn) + 1) /\ Total(n, pad) \in Nat
    <3>1. Len(dn) + 1 \in Nat /\ Len(dn) + 1 > 3
      BY <1>0, <2>2
    <3>2. Data(n) \in DnTurn(Len(dn) + 1)
      BY <3>1, Turns
    <3> QED  BY <3>2, MessageTypes, WireSizes
  <2>4. DnScript' /\ Len(dn') >= 3
    BY <1>0, <2>1, <2>2, <2>3, DnSays
  <2>5. peer'.at = "open"
    BY <1>0, <2>1, <2>2
  <2> QED
    BY <1>0, <2>2, <2>4, <2>5 DEF Alive, UpScript, ClientStage, PeerStage, Greeting
<1>22. CASE PeerHangsUp
  <2> DEFINE p == up[upRd + 1]
  <2>1. PeerReads /\ (~Opens(peer.rx, p) \/ ~PeerExpects(p))
    BY <1>22 DEF PeerHangsUp
  <2>2. Opens(peer.rx, p)
    BY <2>1, UpNext
  <2>3. CASE peer.at = "kex" /\ peer.ic = "none"
    <3>1. p.msg = KexInit("ic")
      BY <2>1, <2>3, UpNext DEF PeerStage
    <3> QED  BY <2>1, <2>2, <2>3, <3>1, Says DEF PeerExpects
  <2>4. CASE peer.at = "kex" /\ peer.ic # "none"
    <3>1. p.msg = EcdhInit("qc")
      BY <2>1, <2>4, UpNext DEF PeerStage
    <3> QED  BY <2>1, <2>2, <2>4, <3>1, Says DEF PeerExpects
  <2>5. CASE peer.at = "newkeys"
    <3>1. p.msg = NewKeys
      BY <2>1, <2>5, UpNext DEF PeerStage
    <3> QED  BY <2>1, <2>2, <2>5, <3>1, Says DEF PeerExpects
  <2>6. CASE peer.at = "open"
    <3>1. p.msg.type = "data"
      BY <2>1, <2>6, UpNext DEF PeerStage
    <3> QED  BY <2>1, <2>2, <2>6, <3>1, Says DEF PeerExpects
  <2> QED  BY <2>1, <2>3, <2>4, <2>5, <2>6 DEF PeerReads
<1>23. CASE LinkLost
  BY <1>23 DEF LinkLost, Fine
<1>24. CASE Damage
  <2>1. damage' = damage + 1 /\ damage = 0 /\ damage' = 0
    BY <1>24 DEF Damage, Fine
  <2> QED  BY <2>1
<1>25. CASE UNCHANGED vars
  BY <1>25
  DEF vars, client, conn, Alive, UpScript, DnScript, ClientStage, PeerStage, Greeting
<1> QED
  BY <1>1, <1>2, <1>3, <1>4, <1>5, <1>6, <1>7, <1>8, <1>9, <1>10, <1>11, <1>12, <1>13, <1>14,
     <1>15, <1>16, <1>17, <1>18, <1>19, <1>20, <1>21, <1>22, <1>23, <1>24, <1>25
  DEF Next, Handshake, Recv, PeerStep

-----------------------------------------------------------------------------
\* With a peer that sends neither text before its identification nor
\* MSG_IGNORE, the handshake and the packet layer fail for one of three reasons
\* only - the connection, damage, a server without the algorithms - and for
\* none of the many others for which the code returns -1 (transport.c 182-262,
\* 396-620): no packet, its type, padding, counter or signature is ever taken
\* for wrong when it is right.
THEOREM FailuresExplained ==
  ASSUME MaxNoise = 0, MaxPreLines = 0
  PROVE  Spec => []FailureHasCause
<1>1. Init => OnScript
  <2> SUFFICES ASSUME Init PROVE Script
    BY DEF OnScript
  <2>1. /\ up = <<>> /\ dn = <<>> /\ upRd = 0 /\ dnRd = 0 /\ lines = <<>>
        /\ pc = "ident" /\ peer.at = "ident" /\ peer.ic = "none" /\ link
    BY DEF Init
  <2> QED
    BY <2>1 DEF Script, Alive, UpScript, DnScript, ClientStage, PeerStage, Greeting
<1>2. TypeOK /\ TypeOK' /\ InSync /\ OnScript /\ [Next]_vars => OnScript'
  BY FineBefore, ScriptStep DEF OnScript
<1>3. TypeOK /\ OnScript => FailureHasCause
  <2> SUFFICES ASSUME TypeOK, OnScript, pc = "failed" \/ peer.at = "gone"
               PROVE  (LinkMayFail /\ ~link) \/ damage > 0 \/ peer.kex = "noalgs"
    BY DEF FailureHasCause
  <2>1. ~Fine
    BY DEF OnScript, Script, Alive
  <2>2. damage \in Nat /\ peer.kex \in {"is", "noalgs"}
    BY TransportAssumption DEF TypeOK
  <2> QED  BY <2>1, <2>2 DEF Fine
<1> QED  BY <1>1, <1>2, <1>3, TypeCorrect, CipherStatesInSync, PTL DEF Spec
=============================================================================
