----------------------------- MODULE MCConsole ------------------------------
(***************************************************************************)
(* Console with two lines from the host, of which the first quits and the  *)
(* second is longer than the buffer, ended by a carriage return alone or   *)
(* with a line feed.  The command shows the selected message. *)
(***************************************************************************)
EXTENDS Console

MCLineLengths == <<1, 3>>
MCLineEnds == {<<CR>>, <<CR, NL>>}
MCPayloads == {<<7>>}
=============================================================================
