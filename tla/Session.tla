------------------------------ MODULE Session ------------------------------
(***************************************************************************)
(* What src/ssh/client.h promises of sshe_client_run: the output of the    *)
(* remote program reaches out_fn in order, and 0 is returned only when the *)
(* program is done and all it wrote has been handed over; otherwise -1.    *)
(***************************************************************************)
EXTENDS Naturals

VARIABLES
  written,   \* pieces of output the remote program has produced
  finished,  \* the program is done
  shown,     \* pieces handed to out_fn
  result     \* "none" while running, then "0" or "-1"

vars == <<written, finished, shown, result>>

Init == written = 0 /\ finished = FALSE /\ shown = 0 /\ result = "none"

Write ==
  /\ ~finished
  /\ written' = written + 1
  /\ UNCHANGED <<finished, shown, result>>

Finish ==
  /\ ~finished
  /\ finished' = TRUE
  /\ UNCHANGED <<written, shown, result>>

Show ==
  /\ result = "none" /\ shown < written
  /\ shown' = shown + 1
  /\ UNCHANGED <<written, finished, result>>

Close ==
  /\ result = "none" /\ finished /\ shown = written
  /\ result' = "0"
  /\ UNCHANGED <<written, finished, shown>>

GiveUp ==
  /\ result = "none"
  /\ result' = "-1"
  /\ UNCHANGED <<written, finished, shown>>

Next == Write \/ Finish \/ Show \/ Close \/ GiveUp

Spec == Init /\ [][Next]_vars
=============================================================================
