------------------------------ MODULE Commands ------------------------------
(***************************************************************************)
(* What the display makes of the mug's commands, whatever happens to the   *)
(* line between them: a command may be lost, but none is carried out twice *)
(* and none after a later one, and nothing the mug has not sent as it is.  *)
(***************************************************************************)
EXTENDS Naturals, Sequences

VARIABLES
  sent,     \* the commands sent, numbered from 1
  done      \* the commands carried out

Init == sent = 0 /\ done = << >>

Issue == sent' = sent + 1 /\ UNCHANGED done
Execute ==
  /\ \E n \in 1 .. sent :
       (\A k \in DOMAIN done : done[k] < n) /\ done' = Append(done, n)
  /\ UNCHANGED sent

Spec == Init /\ [][Issue \/ Execute]_<<sent, done>>
=============================================================================
