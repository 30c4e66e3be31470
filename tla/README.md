# PSPSSH in TLA+

A model of PSPSSH, the SSH-2 client for the PSP: the packet layer and key
exchange of `src/src/ssh/transport.c`, the authentication and session of
`src/src/ssh/client.c`, and the program around them in `src/src/app/`. The
modules are checked with TLC on small instances, and the safety of each part is
proved with TLAPS for every value of the constants.

Paths below are relative to the repository (`transport.c` is
`src/ssh/transport.c`, `main.c` is `src/app/main.c`, and so on).

## 1. The system

PSPSSH is one thread of C. `main` loads a configuration, runs a menu, brings up
the network, associates with an access point, opens a TCP socket, performs the
SSH handshake and hands the socket to `sshe_client_run`, which returns when the
session is over. A second thread exists only to run the firmware's exit
callback when HOME is pressed. Everything hard comes from the other actors: an
SSH server that sends whenever it likes, a TCP connection that may fail between
any two calls, a remote program with output of its own, an on-screen keyboard
that owns the display while it runs, and a user.

| Component | State | Operations | Talks to |
|---|---|---|---|
| Packet layer, `transport.c` 75-261 | per direction: keys, CTR counter, 32-bit sequence number, encryption switch (`sshe_dir`) | `sshe_tx_send_payload`, `sshe_tx_recv_packet`, `raw_send`, `raw_recv` | socket below, handshake and client above |
| Handshake, `transport.c` 263-621 | server id, both KEXINITs, exchange hash and session id, host key | `sshe_tx_handshake`, `check_server_algs`, `derive_key` | server through the packet layer |
| Session client, `client.c` | stage of opening, nothing in the pump but the channel number | `do_auth`, `expect_msg`, `sshe_client_run` | server through the packet layer; `out_fn` and `in_fn` of the application |
| Application, `main.c`, `osk.c` | configuration, menu selection and buttons, display buffer, pending input line, socket | `load_config`, `menu_run`, `osk_input`, `in_line`, `hold`, `exit_callback`, `main` | everything |
| WLAN association, `main.c` 209-267 | poll counter, run of `DISCONNECTED` samples | `apctl_connect` | the adapter |
| Socket layer, `net_psp.c`, `net_host.c` | a descriptor | connect, send, recv, poll, close | system |
| Wire buffers, `buf.c` | bytes, length, capacity, read position | append and get | all of ssh/ |
| Key derivation and MAC, `sshcrypto.c`, `transport.c` 336-394 | none | HMAC, CTR, `mpint_encode`, `derive_key` | vendored AES, SHA, TweetNaCl |
| Vendored cryptography, `crypto/` | contexts of the hashes | SHA-1, SHA-256, SHA-512, AES, X25519, Ed25519 | - |

### What is hard, and what makes it correct

* **Packet layer.** The sender encrypts a packet in one call, the receiver
  decrypts it in two; the CTR counter, the sequence number and the encryption
  switch of the two ends are never exchanged and have to agree after any number
  of packets of any size and padding. A send that fails has already moved the
  sender's state, and several callers ignore the failure and send again. Length
  and padding come from the other end. *Correct:* what is sent is legal and is
  read back exactly; no header that is accepted makes `recv` read outside the
  packet; the cipher states never drift apart; no keystream is used twice.
* **Handshake.** Messages before NEWKEYS carry no MAC. *Correct:* a handshake
  that succeeds leaves both ends with the same transcript and keys, and one that
  fails has a reason; nobody waits for ever.
* **Session client.** Replies, requests, output, errors and the end of the
  session arrive in any order the server likes, interleaved with typed input.
  *Correct:* the client never sends what the server must not see at that
  moment, answers what it must answer, shows the output in order, returns 0 or
  -1 for the right reason, and returns.
* **Application.** The keyboard swaps frame buffers an unknown number of times;
  each of seven steps to a session may fail. *Correct:* the user sees what is
  printed, the socket is closed, HOME ends the program.
* **An interactive session.** The keyboard runs inside the pump's call for input;
  a line may be longer than the buffer it is fetched with; meanwhile the server
  writes, closes or is gone. *Correct:* the server reads what the user entered,
  every character once and in order; output is printed however often the
  keyboard is opened; a held X is noticed; a session closed by the server has sent
  what was typed.
* **Socket and wire buffers.** A call moves any part of what it was asked to; a
  buffer is reused and grows; lengths in a message come from the other end.
  *Correct:* the stream is cut into the packets that were sent, nothing of an
  earlier packet is left, a message cut short is refused.
* **Keys, hashes, curves.** Arithmetic whose boundaries random tests do not hit:
  bytes that spill into another block, secrets with leading zeros, carries out of
  signed limbs. *Correct:* messages are padded as the standards prescribe,
  secrets encoded as both ends expect, and every number is the one meant.
* **WLAN association.** Two counters race: samples in all, and samples in a row
  without an association.

## 2. The modules

| Module | Models | Abstract specification |
|---|---|---|
| `Packet` | padding, header checks, extraction, one direction's cipher state, sealing and opening a packet: constant operators | - |
| `PacketCheck` | the same operators over every payload size of a set and every padding a peer may choose | - |
| `Buf` | the wire buffer, the parse of a reply, name lists: constant operators | - |
| `Hash` | which blocks SHA-1, SHA-256, SHA-512 and HMAC hand to the transform: constant operators | - |
| `Keys` | `mpint_encode`, `derive_key`: constant operators | RFC 4251 and 4253, in `Formats` |
| `Field`, `Curves` (extends it), `Order` | TweetNaCl's numbers modulo 2^255 - 19 in limbs, the two curves and the check of a signature, and the reduction modulo the group's order: constant operators | modular arithmetic and the curves' group laws, in `Formats` |
| `Screen` | `out_print`: a constant operator | - |
| `Stream` (extends `PacketCheck`, `Buf`) | `raw_send`, `raw_recv` and the two packet calls around them, byte by byte, over sockets that move what they like | what `Transport` takes for granted |
| `Formats` (extends `Stream`, `Hash`) | nothing: the properties of the constant operators, over the cases of `Stream` | - |
| `Transport` | `sshe_tx_handshake` and the packet layer, a peer, the connection | `SecureChannel`: two reliable FIFOs that carry nothing before keys are agreed |
| `Client` | `do_auth`, `expect_msg`, `sshe_client_run`, a server with one program | `Session`: the contract of `client.h` |
| `Wlan` | `apctl_connect` | `WlanVerdict`, a statement over the samples alone |
| `App` (extends `Wlan`) | `main`, menu, keyboard and display, `in_line`, `hold`, exit callback | - |
| `Interactive` (instances of `App` and `Client`) | the pump with `in_line` and the keyboard inside it | - |
| `Induction` | lemmas: induction up to a number, recursive functions | - |
| `StreamProofs` | proofs about `PacketCheck`, `Stream` and `Formats`, and `Field` at the code's size | - |
| `FieldProofs` | proofs about `Field` and `Curves` for limbs of any number and width | - |
| `TransportProofs`, `TransportChannel` (extends it) | proofs about `Transport` alone, and that it implements `SecureChannel` | - |
| `ClientProofs`, `AppProofs`, `InteractiveProofs` | proofs about `Client`, about `App` with `Wlan`, about their composition | - |
| `MCStream`, `MCTransport`, `MCClient`, `MCApp`, `MCInteractive` | values of the constants for TLC | - |

The layers are composed by contract. `Client` stands on `SecureChannel`: its two
message queues are the FIFOs that `Transport` is shown to implement, so that it
need not know about packets. `App` stands on the handshake succeeding or
failing and on `sshe_client_run` asking for input and returning; `Client` on
`in_fn` returning something or nothing. What one thread makes of the two is what
`Interactive` is for: its state is that of both modules, its actions are theirs,
joined where that thread joins them. Its properties are about what neither module
can say alone.

### Correspondence with the code

*Stream.* `snd` and `rcv` are the two ends' calls: `at` says which `raw_send` or
`raw_recv` is under way and `off` is that function's `off`. `given` and `taken`
count bytes put on and read off the connection. One action is one turn of a
loop, `sshe_net_send` or `sshe_net_recv` with what follows up to the next such
call. `ReadDone` is the code behind each of the three reads: the first block is
decrypted before the body is asked for, the sequence number moves only once the
MAC is there. The reader is `sshe_tx_recv_packet`; the writer is
`sshe_tx_send_payload` with any padding, so that both directions are covered.
The lengths a packet is read by are those of `Packet`.

*Formats.* `Buf`, `Hash`, `Keys`, `Screen`, `Field`, `Curves` and `Order` have a
definition per function of the code, and its name. They are checked over the
cases of `Stream`: `n` is the size of a message, or the number of a case. A
message byte is its offset and a digest the blocks it was made of; a secret is
its bytes; a field element its limbs. `Ring` and `Prime` are the two sizes
`Field` and `Curves` are checked with. A loop with an accumulator is a recursive
function that carries it.

*Transport.* `pc` is the point `sshe_tx_handshake` has reached; `c2s`, `s2c`,
`server_id`, `server_kex`, `session_id`, `server_pk` are the fields of `sshe_tx`
and its locals. Each `Send...` action is one `sshe_tx_send_payload` and each
`Recv...` one `sshe_tx_recv_packet` together with what the caller does with the
result up to its next call; no other thread touches `sshe_tx`, so nothing can
come between. A failing receive (`RecvRejected`, `RecvLost`) leaves the cipher
state in any of the places an early return can leave it. A packet records the
state it was sealed with, and `Opens` compares that with the reader's. Keys are
the letters of RFC 4253 7.2 and the hash; a signature is its key and the hash it
covers. `peer` is the server.

*Client.* `pc` is a stage of the opening with its `send` and `expect`, or `pump`.
Receiving and handling a message is one action; the end of a turn of the pump
(`in_fn`) is another, since the server moves meanwhile. The pump's `poll` is the
choice between a message there and `PollTimeout`. Output is counted in pieces
of 32768 bytes, the maximum packet size the client announces, so that WIN_SIZE
is 4. The server's state is `srv`.

*App.* `at` is the place in `main`. `disp` is the buffer the GU library takes for
displayed, `shown` the one that is; `osk_restore_debug_display` changes only
`shown`, which is why the parity of the frames matters. `sample` is `pad` as
`menu_run` read it before the keyboard opened: after the dialog the round goes
on with it. `in_line` hands out characters told apart by line and position.

*Interactive.* The pump is at `in_line` where `pc = "input"` and nothing fetched
waits to be sent (`AtInput`); only there may `InLineRest`, `InLineOsk` or
`NoLine` happen, one a turn, and from `InLineOsk` to `LineTyped` the pump stands
still while `OtherEnd` goes on. A call that returns characters is the step by
which `Client`'s user types. `chunks` remembers what each returned, so that what
the server has read can be compared with what was entered.

## 3. The runs

| Run | Shows |
|---|---|
| `Stream` | for every size: legal minimal padding (`PaddingLegal`), exact round trip with any legal padding (`RoundTrip`), whatever length and padding a header names, only payload is handed out (`ReadsInside`), the largest data message fits (`LargestDataFits`), decrypting in two calls moves the counter like encrypting in one (`CountersAgree`). Byte by byte: both ends stand at packet boundaries between calls however the sockets cut the stream (`FramesAligned`), a receive that fails leaves the cipher state where `Transport` lets it be (`CipherAsModelled`), a buffer used again holds this packet's payload alone (`OutIsPayload`), what is sent is received (`Delivered`). For messages: a reply cut short anywhere is refused (`TruncationNoticed`), `namelist_has` is exact (`NamesFound`), the hashes pad as FIPS 180-4 prescribes, alone and under HMAC (`HashPadded`), `out_print` shows what can be shown however output is cut, but for lines past its buffer (`OutputRendered`). For keys and numbers: secrets are encoded one to one and keys derived as RFC 4253 says, up to a digest's length (`KeyMaterial`); packed numbers and products are exact whatever the limbs hold (`FieldExact`); the ladder, packing, unpacking, multiples and signatures are those of the curves, and a hash is reduced modulo the group's order (`CurvesExact`) |
| `TransportFaults` | with loss, damage, ignore messages, lines before the identification and odd paddings: `TypeOK`, `TranscriptAgreement`, `InSync`, `KeystreamFresh`, and `Transport` implements `SecureChannel` |
| `TransportLive` | without those: neither end gives up (`FailureHasCause`), the handshake completes, everything sent arrives |
| `TransportBanner` | **violation.** One line before the identification, which RFC 4253 4.2 allows: the client takes it for the identification and fails |
| `Client` | commands and shells, refusals, noise, output up to the window, failing connections: `ServerNeverSurprised`, `GlobalRequestsAnswered`, `ErrorHasCause`; `Client` implements `Session`; every session whose program ends or whose connection is lost does end (`SessionEnds`); typed input is serviced (`InputServiced`) |
| `Interactive` | what the server reads is what was entered (`TypedReachesServer`); a session the server closes, also during a dialog, has sent what was typed (`CloseLosesNothing`); X held down brings up the keyboard, whatever the server does (`KeyboardOpens`); neither output nor input is starved by a user who holds X down (`NeitherStarves`) |
| `ClientWindow` | **violation.** More output than WIN_SIZE: no WINDOW_ADJUST is sent, the session hangs |
| `ClientStderr` | **violation.** EXTENDED_DATA falls to `default` and the session returns -1 |
| `ClientExecRefused` | **violation.** `exec` refused: nobody notices, the pump runs for ever |
| `AppFlow` | `WlanVerdict`, `MenuVisible`, `SocketClosed` from the menu to the last screen; a user who keeps HOME down leaves the program, or without the callback thread it stays for ever in a dialog, the network or a session (`HomeExits`) |
| `AppSessionOsk` | **violation.** After a line was typed in a session the display may show the dialog's buffer |
| `AppCommand` | **violation.** `cmd uname -a` in the configuration file runs `uname` |

Every property of a passing run has a mutant: an operator marked `Slip:` just
before the definition it replaces, a mistake one could make in that function,
under which the run must fail.

### Bounds, and why they are enough

* `SeqSpace = 4` in `Transport`'s runs (2^32 in the code): the sequence number
  wraps within a run, after the handshake's three packets and one more.
* Payload sizes 1 and 12, paddings around them: one block, and two blocks, the
  smallest case where `recv` decrypts in two calls and extracts from two
  buffers. `Stream` takes sizes around every boundary, among them the
  largest data message and 35000, and the theorems take all. For `ReadsInside` each
  size is a header's length, tried with all 256 padding bytes.
* `Streamed`, `MaxStreamed`: payloads of 1, 11 and 20 bytes travel byte by byte,
  in packets of at most two blocks - a body of no bytes, the largest payload in
  the first block, and one in both parts - followed by a second packet.
  `Chunks` = {7, 15}: a call moves 7 or 15 bytes or all it can, so that reads
  are cut at odd places, just short of the block and of the MAC; with every
  length allowed the same places are reached in more ways.
* `FirstCap = 4` (256 in the code), so that small payloads make the buffer grow.
* `MaxHashed = 200` takes in four hash blocks, each with the bit count fitting
  and not; `MaxParsed = 8` bytes in three strings, cut anywhere; `MaxNames = 5`
  characters from two letters and the comma, every list.
* `MaxPrinted = 5` characters, every text of two letters, LF, CR and another, cut
  anywhere, with a line buffer of `LineMax = 2` (255): lines that fit, fill and
  pass it.
* `SecretLen = 3` (32) bytes from 0, 1, 127, 128, 255: any number of leading
  zeros, each side of the high bit. Derived keys of 1 to 175 bytes: up to six
  digests of `DigestLen = 32`.
* `Ring` has three limbs of 7 bits (16 of 16), so that there is a lowest, a middle and
  a topmost one; `MCLimbCases` and `MCOtherLimbs` take them to both ends of their range, to
  numbers between P and 2^20 and well outside, negative ones among them, as far as three
  times what a product leaves, 495, the most `add` multiplies. `Prime` has two of 6 bits,
  since 2^11 - 19 = 2029 is a prime, 5 modulo 8 as 2^255 - 19 is, which the
  square roots in `unpackneg` rely on. 2 is not a square there, as D must not be
  for the addition to have no exceptions. `MCScalars` has no bit, each end's and all of
  them set. `Order` has its real size: 32 bytes of quotient from extreme values.
* `MaxData = 2` payloads a direction where order matters; one lost connection;
  up to two damaged packets, any unread ones, at any time; one ignore message; one line
  before the identification.
* `Window = 4` pieces. `Client` allows four pieces of output, exactly the window, with
  one line of input and one everyday message in between; `ClientWindow` one piece more.
* `Interactive` has two lines of three characters for a buffer of two, hence two
  calls each, and two pieces of output. The buttons touched are X and HOME; noise
  and refusals, which have nothing to do with input, are left to `Client`, and
  the association is over. The callback thread runs: without it HOME does
  nothing, and it never has to act.
* `MaxPolls = 4`, `StuckPolls = 2` (100 and 25): runs of samples that are broken
  and begin again fit in.
* `MaxHeld = 1` button held at once. Presses and releases still fall anywhere;
  a second button held makes the run ten times longer and was tried once.
* `ChunkSize` is smaller than a line, so that `in_line` needs several calls. With
  the 256 bytes of `client.c` and the keyboard's 127 characters one suffices; the
  branch in `main.c` 321-323 is checked for callers with less room.
* No symmetry sets: the values are few and tell different things.

`CHECK_DEADLOCK FALSE` is in every configuration whose system may stop: a
session ends, a connection dies, the program exits, the two packets of `Stream`
have been sent.

### Fairness

In `Stream` the loops of `raw_send` and `raw_recv` are weakly fair: the caller
blocks in them. Nobody is obliged to send, and a connection that was lost
excuses `Delivered`.

One thread runs `sshe_tx_handshake` and the pump without ever yielding to
another part of the program: weak fairness of the handshake's steps and of
receiving (`Transport`), and of the client's steps (`Client`). A live server
answers and its program runs: weak fairness of `PeerStep`, `ServerStep` and
`ProgramStep`; a program that waits for input (`ShellRests`) is excused, and
nobody is obliged to send noise, data or typed input. In `App` only the steps
`HomeExits` needs are fair: the rounds of the menu that look at HOME, the end of
a keyboard that is gone, `hold` and the callback.

In `Interactive` the thread runs (`PumpStep`, `InLine`), a user does not leave a
dialog open for ever (`DialogMoves`: the firmware's dialog moves on), and the
other end is as in `Client`. The user may hold X down all the time.

A connection that is lost is reset at some time, and `poll` and `recv` report
it: strong fairness of `RecvFails` in `Client` and `Interactive`. One that dies
without a reset cannot be noticed: `raw_recv` has no timeout and nothing is
sent. That is a limitation of the code, not one the model hides. `TransportLive`
assumes a connection that holds.

## 4. The proofs

For every value of the constants: every set of payload sizes and paddings, every
amount of output and input, every bound on faults, on polls and on texts. Every
safety property and every refinement a passing run checks is a theorem, but for
the one named at the end.

**Packets** (`StreamProofs`). The padding
chosen is legal and minimal (`PaddingIsLegal`); every packet within the limit,
whatever its legal padding, is accepted and read back exactly
(`PayloadsRoundTrip`); the largest data message fits (`LargestDataAlwaysFits`);
whatever length and padding byte a header names, `recv` hands out bytes it
received and none of the header or the padding (`ReadsAreInside`, for every
length and every byte); the two ways of moving the counter agree (`CountersAlwaysAgree`). They hold in every
state because `PacketCheck`'s variables only name a case.

**The byte stream** (`StreamProofs`): `FramesStayAligned`, `CipherStaysAsModelled`
and `OutStaysPayload` follow from one invariant, `StreamInv`. `FramesAligned`
speaks of the moments between calls; in the middle of one, alignment rests on how
far both ends are. `SenderOk` and `ReceiverOk` say so: with `BeforeOf(k)` the
bytes before packet k and `StateOf(k)` the cipher state there, `given` and `taken`
are that start plus what the call at hand has moved, and the reader's state is
that start, half or all of the packet further, by the read it is in. `OutOk` bounds the buffer,
whose capacity doubles (`DoublesExists`).

**Messages and keys** (`StreamProofs`). A reply of three strings of any lengths
is refused wherever it is cut (`TruncationAlwaysNoticed`); `namelist_has` is exact
on lists of any length (`NamesAlwaysFound`: from each comma the scan finds what
stands from there on, by induction from the end of the list); a secret of any
length goes into the hash as its shortest non-negative encoding, and keys of up
to 255 bytes are as long as asked for and chained (`KeyMaterialRight`). For the
number itself: leading zeros add nothing to it (`NumberShifted`). For the chain: after j turns of `derive_key` the
pieces add up to what was taken, which is all or j digests (`KeyInv`).
Every hash sees its message in the blocks FIPS 180-4 prescribes, alone and under
HMAC (`HashesAlwaysPadded`). `Fed` is the invariant of a context: after `len` bytes
it has q whole blocks and r bytes in the buffer. A call of `update` keeps it from
any fill of the buffer (`FedMore`), which HMAC needs, since its second call starts
on a buffer that the first may have left in any state; and from `Fed`, `final` ends
in the prescribed blocks whether the bit count still fits or not (`FinalRight`).
What `out_print` has shown and still holds is what can be shown of the output
(`OutputAlwaysRendered`). The invariant of its loop, `Collected`, says so of every
prefix, and that the line's length is the distance to the last line end or
`LineMax`; it is applied to one text and to two in turn, whose lines are short
because those of the whole are (`PartsShort`).

**Arithmetic modulo P** (`FieldProofs`, and `StreamProofs` for the sizes). Limbs
are signed, out of range between operations, and nothing in the code checks
them. Proved for any number of limbs, and any width of 6 bits or more:

* A pass of carries changes a number by a multiple of P alone (`CarExact`): `Chain`
  is what passes each limb, all of them computed from the lowest up, and the one
  that leaves the top comes back as 38. A product is the sum of its rows, each a
  multiple of the other operand shifted round, so that `M` multiplies modulo P,
  whatever its limbs hold (`MExact`).
* Two passes leave each limb but the lowest between 0 and `Base - 1`, and that one
  between -38 and `Base + 37`, when the operands' limbs are within `Fits`
  (`MReduced`). Three make digits of a number below 2 (P + 19), and each of two
  subtractions takes P off if it can, `LessP` borrowing from limb to limb, so that
  what `pack25519` leaves is the number below P (`PackExact`, `PackWide`).
* `Narrow` is what a product leaves, `Wide` three times that, which is the most the
  code ever multiplies: `add` takes d + c with d twice a product. Each turn of the
  ladder and of `scalarmult`, and of the two powers, multiplies `Wide` limbs only
  and ends with `Narrow` ones (`TurnStays`, `AddStays`, `PowerStays`); so do all
  turns, by induction.

Instantiated with `Ring`'s size this is `FieldAlwaysExact`, for every vector of limbs
within `FormatsAssumption`. With 16 limbs of 16 bits it is `LimbsStayInRange`: of `Wide`
operands no partial sum of a product, no 38-fold of one and no limb on its way through the
carries passes 2^45 (the code adds 2^16 to a limb before it shifts it), where an `i64` holds
2^63. `SecretPacked` and `MultiplesStayInRange` say that the ladder, for every scalar and every
32 bytes a peer may send, and the Edwards multiplication start and end each turn within what
that asks for.

**The handshake** (`TransportProofs`).
`TypeCorrect`: `TypeOK` is inductive; one lemma per kind of step.
`TranscriptsAgree`: `TranscriptAgreement` alone is not inductive, since that the
client's hash is the peer's follows from the signature it checked, and that the
signature covers the peer's hash has to be known of every reply on its way.
`Transcript` adds: a client before the reply has no hash and one after has; a
client that has a hash agrees with the peer on it and on the keys; the peer has
its hash and keys from the moment it signed; every reply on its way is signed
over the peer's hash or has a damaged signature that verifies for nothing.
`CipherStatesInSync` and `KeystreamAlwaysFresh`: `InSync` says something of the
next packet only, so it cannot be inductive: what the reader's state will be two
packets on depends on packets it has not seen. `Sync` says it of the whole
stream. In each direction the packets form a chain: each records the state it
was sealed in, the next one's is where that leads (`Follows`), the sender's
state stands at the end and the reader's at the first packet not read (`Stands`).
`Switches`, `Encrypted`, `KeyedUp` and `KeyedDown` say when each end encrypts and
that encrypted packets carry the agreed keys. Sending extends the chain
(`ChainSend`); reading goes one link along it, because one call of CTR and two
move the counter alike (`ChainRead`, from `CryptSplits`); damage moves nothing
and cannot make up a NEWKEYS (`ChainDamage`). `KeystreamFresh` follows from
`Consumed`, which the chain also carries: a packet's blocks lie before the
counter of every later one.

**The secure channel** (`TransportChannel`). `TransportImplementsChannel`: the
FIFOs of `SecureChannel` are the payloads of the data packets on each wire
(`DataIn`), and every step of `Transport` puts one more in, takes the first out,
or is none of theirs. `Carried` is what it takes: data is sealed
only under keys, and what a reader has handed out is `Sizes` at its index.
`FailuresExplained`: while the connection holds and nothing is damaged, both
sides follow a script (`UpTurn`, `DnTurn`: which message is the i-th), so that no
`return -1` of the handshake or of the packet layer is reached. It is proved for a server that
sends neither lines before its identification nor MSG_IGNORE during the key
exchange; with them it is false, as `TransportBanner` shows for the first.

**The session** (`ClientProofs`). One invariant, `Inv`, carries all of it. That the
server is never surprised rests on `UpWelcome`: each message on its way to it
will be allowed when it is read; a request, because only declined requests are before it,
and because requests and answers alternate (`Alternating`: the request is on its
way, or the server owes the answer, or the answer is on its way). `DnTimely`
keeps messages of a running program from a server that has none, `BannersEarly`
banners from a client that no longer skips them, `OutputInOrder` says that the
pieces on their way are the next ones, in order and all there, `ErrorCaused`
names the causes of -1. From it: `ClientTypeCorrect`, `ServerNotSurprised`,
`ErrorExplained` (for a server that interjects neither stderr nor a new key
exchange, for which `ClientStderr` shows it false), `GlobalRequestsCounted` (with
`Balanced`, which counts the messages of a type), and
`ClientImplementsSession`, the refinement of `Session`.

**The application** (`AppProofs`). `WlanVerdictHolds`: the verdict speaks of the
samples alone; `RunCounted` says that the counter is the length of the run of
samples without an association, `StillWaiting` that no earlier sample ended it.
`MenuAlwaysVisible` and `SocketAlwaysClosed` need `Settled`, which says of the keyboard whence
it was opened, and `AppTypeCorrect` the parts of `TypeOK` that it changes.

**The composition** (`InteractiveProofs`). Its steps are made of `Client`'s, so that
what is proved of `Client` holds inside it: `ClientTyped` takes the types from
`ClientProofs` by instantiating that module (`ClientWithin`, a lemma that follows
from the definitions).
`TypedAlwaysArrives` rests on `TypingInv`: what was entered is what was handed
out and what still waits (`InLineInv`), what was handed out is the calls'
results put together (`ChunksInv`), and the server has read no more of them than
the client has fetched (`ReadInv`). `CloseNeverLoses` adds that what was fetched was
sent (`SentInv`), and that the pump leaves `in_line` only with nothing unsent and
stands still while the keyboard runs (`PumpInv`).

Recursive functions (`Sizes`, `Flat`, the loops of `Keys`, `Buf` and `Field`) are
reasoned about with `Upto` of `Induction`: what holds of 0, and of each number up
to n when it does of the one before, holds of them all, stated for a set, which
the provers can instantiate. Each function is first shown to exist.

Assumptions: those in the modules that declare the constants
(`SeqSpaceAssumption`, `TransportAssumption`, `ClientAssumption`,
`FormatsAssumption` and so on), which give constants their types and bounds the
code gives them, and the hypotheses of the two theorems on failures.
Cryptography is ideal in the model (a hash is its preimage, a signature cannot
be damaged into one that verifies); the proofs inherit that.

Only model-checked: liveness, which is out of the prover's reach (fairness
speaks of ENABLED); and of `Formats` `CurvesExact`. That the ladder computes
multiples on a curve is algebra of rational functions over a prime field, which
the provers do not have; `FieldProofs` proves the arithmetic it is made of. The
reduction modulo the group's order is in `CurvesExact` too.

## 5. Abstractions, and what is not modelled

* `Transport` receives a message whole or not at all, except where a failure
  leaves part of it decrypted. `Stream` shows, for two small packets, that this is
  what the loops over partial transfers amount to.
* Allocations succeed. The callers of `sshe_buf_raw` ignore it when they do not.
* Sizes are far from the largest `size_t`. On the PSP it has 32 bits, and the sum
  `pos + n` in `sshe_buf_get_str` wraps for lengths near 2^32.
* Messages of the handshake take one block. Their sizes matter only under
  encryption, which comes after.
* The contents of requests are not distinguished; parsing always succeeds on
  what a correct server sends. `TruncationNoticed` looks at one reply alone.
* For keys of more than 32 bytes `derive_key` hashes the letter again and the last
  digest only, unlike its own comment (`transport.c` 336-338, 374-393), and with
  256 bytes left to derive it would not end, `take` being a byte. No key is that
  long: `KeyMaterial` says what RFC 4253 does up to 32 bytes, and stops before 256.
* A shared secret of zero, which a point of low order gives, is encoded as one
  byte and not as none. `KeyMaterial` excludes it.
* `menu_render` and `net_info` format text and change no state. They are left out.
* Byte order in `buf.c`, the `sshe_buf_free` that ends a buffer's life, and the
  unused `sshe_buf_name_list_has`.
* `net_host.c` is the test build's copy of `net_psp.c`.
* The transforms of the hashes and AES itself are tables and bit operations
  without a state or an edge: test vectors reach them, and they stay symbolic.
  What the program does not call of TweetNaCl (Salsa20, Poly1305, boxes, signing) is left out.

Disagreements met on the way that have no run: the handshake's `recv` calls
accept one type only, so that a server's MSG_IGNORE during the key exchange ends
it (`transport.c` 441, 472, 609), although `client.c` skips it later; the server's
window and maximum packet size are read and dropped (`client.c` 169); keepalive
requests that want a reply get none (`client.c` 248-251); a server that starts a
new key exchange gets -1 (`client.c` 271); a CLOSE is not answered with a CLOSE
(`client.c` 239); `main.c` 7 promises a return to the menu after a command, where
`main` goes to its last screen.

## 6. Plan

In the order of importance, with what is done marked.

1. Packet layer, with proofs - done.
2. `Transport` with `SecureChannel`; type and transcript theorems - done.
3. `Client` with `Session` - done.
4. `App` with `Wlan` - done.
5. `InSync` and `KeystreamFresh` as theorems - done.
6. `Stream`: `raw_send` and `raw_recv` over sockets that move any number of
   bytes - done for two packets, with proofs for every size.
7. `Buf` and `Hash` - done; sizes at the two widths of `size_t` are left.
8. Key derivation, HMAC with long keys, field and curve arithmetic, `out_print` -
   done.
9. `App` and `Client` together: the pump calls `in_line`, which runs the keyboard
   while the server goes on - done.
10. Theorems about `Client`, `App`, `Wlan` and the composition - done.
11. `Transport` implements `SecureChannel`, and why it fails, as theorems - done.
12. `Stream`'s and `Formats`' properties as theorems - done but for `CurvesExact`.
13. A window for input.
