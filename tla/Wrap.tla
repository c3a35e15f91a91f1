-------------------------------- MODULE Wrap --------------------------------
(***************************************************************************)
(* The line breaking of mugSendMessage, one pass of its loop per step.  A  *)
(* text is a sequence of character codes; the code's msg[k] is text[k+1].  *)
(* The loop looks at a character, remembers the last space, and at the end *)
(* of a line turns that space, or the character it has reached, into a new *)
(* line; after a break at a space it goes back to just behind it.          *)
(***************************************************************************)
EXTENDS Integers, Sequences

CONSTANT LineWidth      \* 18 in main.c

ASSUME WrapAssumption == LineWidth \in Nat /\ LineWidth > 1

NUL == 0
NL == 10
SPACE == 32

VARIABLES
  raw,          \* history: the text before any line was broken
  text,         \* char msg[128]
  i, j,         \* position in the text, and in its line
  foundSpace,   \* last space of the line, 0 when there is none
  lineStart     \* history: where the last break was put

wrapVars == <<raw, text, i, j, foundSpace, lineStart>>

StartWrap(t) ==
  /\ raw' = t /\ text' = t
  /\ i' = 1 /\ j' = 0
  /\ foundSpace' = 0 /\ lineStart' = 0

Wrapping == i < Len(text)

(* j == 18, or j >= 18.  Mutant: a line too long by one. *)
AfterLineEnd == j > LineWidth
AtLineEnd == j = LineWidth

(* A break at a space goes back behind it: i = foundSpace + 1, and i++.     *)
(* Mutant: foundSpace is not reset.                                         *)
BreakAtSpaceAgain ==
  /\ AtLineEnd /\ foundSpace # 0
  /\ text' = [text EXCEPT ![foundSpace + 1] = NL]
  /\ i' = foundSpace + 2 /\ j' = 1
  /\ lineStart' = foundSpace
  /\ UNCHANGED foundSpace
BreakAtSpace ==
  /\ AtLineEnd /\ foundSpace # 0
  /\ text' = [text EXCEPT ![foundSpace + 1] = NL]
  /\ i' = foundSpace + 2 /\ j' = 1
  /\ lineStart' = foundSpace
  /\ foundSpace' = 0

(* Without a space the character itself becomes the new line. *)
BreakHere ==
  /\ AtLineEnd /\ foundSpace = 0
  /\ text' = [text EXCEPT ![i + 1] = NL]
  /\ i' = i + 1 /\ j' = 1
  /\ lineStart' = i
  /\ UNCHANGED foundSpace

(* Mutant: the position behind the space. *)
LastSpaceBehind == IF text[i + 1] = SPACE THEN i + 1 ELSE foundSpace
LastSpace == IF text[i + 1] = SPACE THEN i ELSE foundSpace

LookAt ==
  /\ ~AtLineEnd
  /\ foundSpace' = LastSpace
  /\ i' = i + 1 /\ j' = j + 1
  /\ UNCHANGED <<text, lineStart>>

WrapStep == Wrapping /\ (BreakAtSpace \/ BreakHere \/ LookAt) /\ UNCHANGED raw

(***************************************************************************)
(* Properties of a wrapped text.                                           *)
(***************************************************************************)

(* A text that has been wrapped has no line longer than LineWidth, and its *)
(* first line, which the loop starts at the second character, at most one  *)
(* more: of any LineWidth + 1 characters behind the first, one ends a line.*)
(* The receiving screens have room for 22 (bfr in mugDisplayDisplay.fnc).  *)
LinesFit ==
  ~Wrapping => \A a \in 2 .. Len(text) - LineWidth :
                 \E c \in a .. a + LineWidth : text[c] = NL

(* No word of the text fills a line. *)
ShortWords(t) ==
  \A a \in 1 .. Len(t) - LineWidth + 1 :
    \E c \in a .. a + LineWidth - 1 : t[c] = SPACE

(* At any time, the text differs from what was to be sent in nothing but   *)
(* spaces that have become line ends: a break never costs a letter, as     *)
(* long as no word fills a line (a longer word loses one where it is cut). *)
OnlySpacesLost ==
  ShortWords(raw) => \A c \in 1 .. Len(raw) :
                       text[c] = raw[c] \/ (raw[c] = SPACE /\ text[c] = NL)

(* The loop moves its index back, with interrupts disabled; it still ends, *)
(* because it never goes back to a line it has ended: every step ends one  *)
(* more line, or gets further in the line it is in.                        *)
Advances == lineStart' > lineStart \/ (lineStart' = lineStart /\ i' > i)
=============================================================================
