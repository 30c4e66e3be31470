-------------------------------- MODULE Hash --------------------------------
(***************************************************************************)
(* The block structure of the hashes (src/crypto/sha256.c, sha1.c and      *)
(* crypto_hash, SHA-512, of tweetnacl.c) and of HMAC on top of them        *)
(* (src/crypto/sshcrypto.c), as constant-level operators: which bytes      *)
(* reach the transform, and in which blocks.  The transform is symbolic:   *)
(* a digest is the sequence of blocks it was given.                        *)
(*                                                                         *)
(* A message byte is its offset; other bytes are the names below.  The     *)
(* context's buffer keeps what was in it, as the C array does.             *)
(***************************************************************************)
EXTENDS Integers, Sequences

HashBlock == 64
Mark   == -1   \* the byte 0x80
Zero   == -2
Length == -3   \* one of the eight bytes of the bit count
Stale  == -4   \* whatever the stack held
Digest == -5   \* a byte of a digest

sha256_init ==
  [datalen |-> 0, bitlen |-> 0, data |-> [i \in 0 .. 63 |-> Stale], blocks |-> <<>>]

\* Adds message bytes from, from + 1, ... to the buffer, which is transformed
\* whenever it is full.
sha256_update(ctx, from, bytes) ==
  LET all    == ctx.datalen + bytes
      full   == all \div HashBlock
      byte   == [i \in 0 .. all - 1 |->
                   IF i < ctx.datalen THEN ctx.data[i] ELSE from + (i - ctx.datalen)]
      \* the last byte written at place i of the buffer
      at(i)  == LET left == all % HashBlock
                    j == IF i < left THEN HashBlock * full + i
                                     ELSE HashBlock * (full - 1) + i
                IN IF j >= 0 THEN byte[j] ELSE ctx.data[i]
  IN [datalen |-> all % HashBlock,
      bitlen  |-> ctx.bitlen + 512 * full,
      data    |-> [i \in 0 .. 63 |-> at(i)],
      blocks  |-> ctx.blocks \o
                  [b \in 1 .. full |-> [i \in 0 .. 63 |-> byte[HashBlock * (b - 1) + i]]]]

\* Slip: the mark does fit in byte 56 of the block the bit count goes to.
sha256_final_At56(ctx) ==
  LET marked(end) ==
        [i \in 0 .. 63 |-> IF i < ctx.datalen THEN ctx.data[i]
                           ELSE IF i < 56 \/ end = 64
                                THEN IF i = ctx.datalen THEN Mark ELSE Zero ELSE Length]
      last == [i \in 0 .. 63 |-> IF i < 56 THEN Zero ELSE Length]
  IN [blocks |-> ctx.blocks \o IF ctx.datalen <= 56 THEN <<marked(56)>> ELSE <<marked(64), last>>,
      bits   |-> ctx.bitlen + 8 * ctx.datalen]

\* The mark, zeros and the number of bits, in one block if they fit in this one.
sha256_final(ctx) ==
  LET marked(end) ==
        [i \in 0 .. 63 |-> IF i < ctx.datalen THEN ctx.data[i]
                           ELSE IF i = ctx.datalen THEN Mark
                           ELSE IF i < end THEN Zero ELSE Length]
      last == [i \in 0 .. 63 |-> IF i < 56 THEN Zero ELSE Length]
  IN [blocks |-> ctx.blocks \o IF ctx.datalen < 56 THEN <<marked(56)>> ELSE <<marked(64), last>>,
      bits   |-> ctx.bitlen + 8 * ctx.datalen]

ssh_sha256(bytes) == sha256_final(sha256_update(sha256_init, 0, bytes))

\* SHA-1's context is handled as SHA-256's, line for line.
sha1_init == sha256_init
sha1_update(ctx, from, bytes) == sha256_update(ctx, from, bytes)
sha1_final(ctx) == sha256_final(ctx)

\* crypto_hash: whole blocks of 128 from the message, then x with the rest.
crypto_hash(bytes) ==
  LET rest == bytes % 128
      full == bytes \div 128
      size == IF rest < 112 THEN 128 ELSE 256
      x(i) == CASE i < rest -> 128 * full + i [] i = rest -> Mark
                [] i >= size - 9 -> Length [] OTHER -> Zero
  IN [blocks |-> [b \in 1 .. full |-> [i \in 0 .. 127 |-> 128 * (b - 1) + i]]
                 \o [b \in 1 .. size \div 128 |-> [i \in 0 .. 127 |-> x(128 * (b - 1) + i)]],
      bits   |-> 8 * bytes]

\* hmac_block: the key, or its digest of size bytes, fills a block with zeros behind
\* it; that block, masked, goes ahead of the message and ahead of the inner digest.
hmac_block(keylen, msglen, size) ==
  LET behind(from, bytes) ==
        sha256_final(sha256_update(sha256_update(sha256_init, 0, HashBlock), from, bytes))
  IN [k     |-> [i \in 0 .. 63 |->
                   IF keylen > 64 THEN IF i < size THEN Digest ELSE Zero
                   ELSE IF i < keylen THEN i ELSE Zero],
      inner |-> behind(HashBlock, msglen),
      outer |-> behind(HashBlock, size)]
=============================================================================
