------------------------------ MODULE MCStream ------------------------------
(* Sizes around the first block's boundary, around a hash block, around    *)
(* what one byte of padding can fill, around the largest the client can be *)
(* sent, and on both sides of the limit of 35000.                          *)
EXTENDS Formats
MCSizes ==
  (1 .. 80) \cup (116 .. 130) \cup (174 .. 176) \cup (254 .. 270)
  \cup (32770 .. 32780) \cup {34980} \cup (34995 .. 35002)
MCChunks == {7, 15}

\* Limbs at the ends of their range and outside it, as differences and sums leave them.
MCLimbCases == <<0, 1, 18, 19, 109, 127, 128, 165, -1, -38, 495, -203>>
MCOtherLimbs == {-127, -1, 0, 63, 127, 254}
MCScalars == {0, 1, 7, 8, 1024, 4095}
MCSecretBytes == {0, 1, 127, 128, 255}
=============================================================================
