----------------------------- MODULE MCBattery -----------------------------
(***************************************************************************)
(* Battery on a short scale: thresholds three apart, so a reading with its *)
(* noise reaches across one, and readings below and above all of them.     *)
(***************************************************************************)
EXTENDS Battery
=============================================================================
