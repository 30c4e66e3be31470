------------------------------- MODULE Screen -------------------------------
(***************************************************************************)
(* out_print of src/app/main.c: how a piece of the session's output is put *)
(* on the debug screen.  Characters that can be shown are themselves; CR,  *)
(* LF and ESC, which stands for all other bytes, are told apart.           *)
(***************************************************************************)
EXTENDS Integers, Sequences

CONSTANT LineMax   \* 255 in the code: char line[256]; at least 1

\* Slip: what follows the last line feed waits for the next piece.
out_print_WholeLines(d) ==
  LET loop[i \in 0 .. Len(d)] ==
        IF i = 0 THEN [shown |-> <<>>, line |-> <<>>]
        ELSE LET s == loop[i - 1] IN
             IF d[i] = "LF" THEN [shown |-> s.shown \o s.line \o <<"LF">>, line |-> <<>>]
             ELSE IF d[i] \in {"CR", "ESC"} \/ Len(s.line) = LineMax THEN s
             ELSE [s EXCEPT !.line = Append(@, d[i])]
  IN loop[Len(d)].shown

\* line collects a line, as much as fits; a line feed or the end prints it.
out_print(d) ==
  LET loop[i \in 0 .. Len(d)] ==
        IF i = 0 THEN [shown |-> <<>>, line |-> <<>>]
        ELSE LET s == loop[i - 1] IN
             IF d[i] = "LF" THEN [shown |-> s.shown \o s.line \o <<"LF">>, line |-> <<>>]
             ELSE IF d[i] \in {"CR", "ESC"} \/ Len(s.line) = LineMax THEN s
             ELSE [s EXCEPT !.line = Append(@, d[i])]
  IN loop[Len(d)].shown \o loop[Len(d)].line
=============================================================================
