----------------------------- MODULE MCXBeeLink -----------------------------
(***************************************************************************)
(* XBeeLink with messages of four characters, which a display command      *)
(* takes, and of five, which fill msgReceive; the two characters an overrun leaves of a message are too   *)
(* few to be shown; the line buffer is as long as the longest message and  *)
(* two characters more.                                                    *)
(***************************************************************************)
EXTENDS XBeeLink
=============================================================================
