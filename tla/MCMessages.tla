----------------------------- MODULE MCMessages -----------------------------
(***************************************************************************)
(* Messages with three slots of eight bytes and lines of three characters: *)
(* a text may have one word, several, a word that fills a line, or be cut, *)
(* and the display takes one character less than the longest selection.    *)
(* The configuration is a name and a sleep time; a letter is 97 or 98.     *)
(***************************************************************************)
EXTENDS Messages

MCTexts == {<< >>, <<97>>, <<97, 32, 98, 97>>, <<97, 98, 97, 98, 97, 98, 97>>}
(* The messages; Count; refused; and after the overflow of 16 bits: refused *)
(* no more and far behind the end (slot 64), and message 2 again.           *)
MCIndices == {0, 1, 2, 3, 4, 40000, 65282}
MCSleeps == {0, 256, 257}
MCJunk == {[k \in 1 .. MsgSize |-> 97], [k \in 1 .. MsgSize |-> 0]}
MCFields == {"name"}
MCFieldAt == [f \in MCFields |-> 0]
MCFieldSize == [f \in MCFields |-> 3]
MCWild == {MsgSize + 3, ConfigAt}

(* Message 0 empty, message 1 "ab b", message 2 "b"; the name "a". *)
Programmed ==
  LET slot(t) == t \o [k \in 1 .. MsgSize - Len(t) |-> NUL]
  IN  slot(<< >>) \o slot(<<97, 98, 32, 98>>) \o slot(<<98>>) \o <<97, 0, 0, 30>>
MCInitialEep == [a \in Addresses |-> Programmed[a + 1]]
=============================================================================
