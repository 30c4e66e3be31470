------------------------------- MODULE MCApp --------------------------------
(* Instances of App for TLC. *)
EXTENDS App

\* A value is a sequence of words; none or one is enough for most questions.
NoFile == [f \in Kept |-> <<>>]
HostAndUser == [f \in Kept |-> IF f = "cmd" THEN <<>> ELSE <<"a">>]
PlainFiles == {NoFile, HostAndUser}

\* README: "cmd uname -a".
ReadmeFiles == {[f \in Kept |-> IF f = "cmd" THEN <<"uname", "-a">> ELSE <<"a">>]}

MCTexts == {<<>>, <<"a">>}
MCLengths == {0, 1, 2}
=============================================================================
