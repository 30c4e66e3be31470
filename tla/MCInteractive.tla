--------------------------- MODULE MCInteractive ----------------------------
(* Instances of Interactive for TLC. *)
EXTENDS Interactive

ShellFile == {[f \in {"host", "user", "cmd"} |-> IF f = "cmd" THEN <<>> ELSE <<"a">>]}
NoTexts == {<<>>}
TwoCharacters == {2}
None == {}
CrossAndHome == {"CROSS", "HOME"}
=============================================================================
