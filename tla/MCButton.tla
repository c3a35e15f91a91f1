------------------------------ MODULE MCButton ------------------------------
(***************************************************************************)
(* Button with its delays scaled down: the real ones are 10..1000 ms for a *)
(* short press and 3000..65535 ms for a long one.  The scaled ranges leave *)
(* room on both sides for the measuring error, so that every conclusion of *)
(* ReportedAsMade is reached.                                              *)
(***************************************************************************)
EXTENDS Button
=============================================================================
