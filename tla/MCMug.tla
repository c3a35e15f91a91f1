------------------------------- MODULE MCMug -------------------------------
(***************************************************************************)
(* The instances of Mug that TLC checks: what the environment may do.      *)
(***************************************************************************)
EXTENDS MugInv

ButtonOnly      == {"short", "long"}
ButtonAndCable  == {"short", "long", "usb"}
ButtonAndMotion == {"short", "long", "gesture"}
Session         == {"short", "usb", "radio", "q", "a", "s"}
=============================================================================
