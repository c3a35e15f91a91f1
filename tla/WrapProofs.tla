----------------------------- MODULE WrapProofs -----------------------------
(***************************************************************************)
(* The line breaking of mugSendMessage, for every text and line width.     *)
(***************************************************************************)
EXTENDS Wrap, TLAPS

(***************************************************************************)
(* The invariant of the loop.  lineStart is the last break; the line so    *)
(* far has j characters, or one more when a break has skipped one.         *)
(***************************************************************************)
WrapTypes ==
  /\ raw \in Seq(0 .. 255) /\ text \in Seq(0 .. 255) /\ Len(raw) = Len(text)
  /\ i \in Nat \ {0} /\ j \in 0 .. LineWidth
  /\ foundSpace \in 0 .. i - 1 /\ lineStart \in 0 .. i - 1

InLine == lineStart + j <= i /\ i <= lineStart + 1 + j

(* The lines ended so far fit. *)
EndedLinesFit ==
  \A a \in 2 .. lineStart + 1 :
    \E c \in a .. a + LineWidth : c <= lineStart + 1 /\ text[c] = NL

(* foundSpace is a space of this line; without it the line has no space    *)
(* yet, but for the character a break has skipped.                         *)
SpaceRemembered ==
  /\ foundSpace # 0 => lineStart < foundSpace /\ text[foundSpace + 1] = SPACE
  /\ foundSpace = 0 => \A c \in i - j + 2 .. i : text[c] # SPACE

(* Behind the last break nothing has been changed. *)
RestAsSent == \A c \in 1 .. Len(raw) : c > lineStart + 1 => text[c] = raw[c]

WrapInv ==
  /\ WrapTypes /\ InLine /\ EndedLinesFit /\ SpaceRemembered /\ RestAsSent
  /\ OnlySpacesLost

-----------------------------------------------------------------------------

(* A text begins to be wrapped in the invariant. *)
LEMMA WrapStarts ==
  ASSUME NEW t \in Seq(0 .. 255), StartWrap(t)
  PROVE  WrapInv'
<1> USE WrapAssumption DEF WrapAssumption, StartWrap
<1>1. WrapTypes' /\ InLine'
  BY DEF WrapTypes, InLine
<1>2. EndedLinesFit' /\ SpaceRemembered' /\ RestAsSent' /\ OnlySpacesLost'
  BY DEF EndedLinesFit, SpaceRemembered, RestAsSent, OnlySpacesLost
<1> QED BY <1>1, <1>2 DEF WrapInv

(* A step of the loop keeps it, and gets further. *)
LEMMA WrapKeeps ==
  ASSUME WrapInv, WrapStep
  PROVE  WrapInv' /\ Advances
<1> USE WrapAssumption DEF WrapAssumption, Wrapping
<1>t. /\ Len(text) \in Nat /\ Len(raw) = Len(text) /\ i < Len(text) /\ raw' = raw
      /\ i \in Nat \ {0} /\ j \in Nat /\ foundSpace \in Nat /\ lineStart \in Nat
      /\ LineWidth \in Nat
  BY DEF WrapInv, WrapTypes, WrapStep
<1>1. CASE BreakAtSpace
  <2>1. /\ foundSpace \in 1 .. i - 1 /\ lineStart < foundSpace
        /\ i <= lineStart + 1 + LineWidth
        /\ text[foundSpace + 1] = SPACE
    BY <1>1, <1>t DEF BreakAtSpace, AtLineEnd, WrapInv, WrapTypes, InLine, SpaceRemembered
  <2>2. /\ text' = [text EXCEPT ![foundSpace + 1] = NL]
        /\ i' = foundSpace + 2 /\ j' = 1 /\ lineStart' = foundSpace /\ foundSpace' = 0
    BY <1>1 DEF BreakAtSpace
  <2>3. /\ text' \in Seq(0 .. 255) /\ Len(text') = Len(text)
        /\ text'[foundSpace + 1] = NL
        /\ \A c \in 1 .. Len(text) : c # foundSpace + 1 => text'[c] = text[c]
    BY <2>1, <2>2, <1>t DEF WrapInv, WrapTypes, NL
  <2>4. WrapTypes' /\ InLine'
    BY <2>1, <2>2, <2>3, <1>t DEF WrapTypes, InLine, WrapInv
  <2>5. EndedLinesFit'
    <3> SUFFICES ASSUME NEW a \in 2 .. foundSpace + 1
                 PROVE  \E c \in a .. a + LineWidth : c <= foundSpace + 1 /\ text'[c] = NL
      BY <2>2 DEF EndedLinesFit
    <3>1. CASE a <= lineStart + 1
      <4>a. a \in 2 .. lineStart + 1
        BY <3>1, <1>t
      <4>1. PICK c \in a .. a + LineWidth : c <= lineStart + 1 /\ text[c] = NL
        BY <4>a DEF WrapInv, EndedLinesFit
      <4>2. text'[c] = NL
        BY <4>1, <2>1, <2>3, <1>t
      <4> QED BY <4>1, <4>2, <2>1, <1>t
    <3>2. CASE a > lineStart + 1
      BY <3>2, <2>1, <2>3, <1>t
    <3> QED BY <3>1, <3>2, <1>t
  <2>6. SpaceRemembered'
    BY <2>2, <2>1, <1>t DEF SpaceRemembered
  <2>7. RestAsSent'
    BY <2>1, <2>2, <2>3, <1>t DEF WrapInv, RestAsSent
  <2>8. OnlySpacesLost'
    <3>1. raw[foundSpace + 1] = SPACE
      BY <2>1, <1>t DEF WrapInv, RestAsSent
    <3> QED BY <3>1, <2>1, <2>2, <2>3, <1>t DEF WrapInv, OnlySpacesLost, NL, SPACE
  <2>9. Advances
    BY <2>1, <2>2 DEF Advances
  <2> QED BY <2>4, <2>5, <2>6, <2>7, <2>8, <2>9 DEF WrapInv
<1>2. CASE BreakHere
  <2>1. /\ j = LineWidth /\ foundSpace = 0 /\ lineStart < i
        /\ lineStart + LineWidth <= i /\ i <= lineStart + 1 + LineWidth
        /\ \A c \in i - LineWidth + 2 .. i : text[c] # SPACE
    BY <1>2, <1>t DEF BreakHere, AtLineEnd, WrapInv, WrapTypes, InLine, SpaceRemembered
  <2>2. /\ text' = [text EXCEPT ![i + 1] = NL]
        /\ i' = i + 1 /\ j' = 1 /\ lineStart' = i /\ foundSpace' = 0
    BY <1>2, <2>1 DEF BreakHere
  <2>3. /\ text' \in Seq(0 .. 255) /\ Len(text') = Len(text)
        /\ text'[i + 1] = NL
        /\ \A c \in 1 .. Len(text) : c # i + 1 => text'[c] = text[c]
    BY <2>1, <2>2, <1>t DEF WrapInv, WrapTypes, NL
  <2>4. WrapTypes' /\ InLine'
    BY <2>1, <2>2, <2>3, <1>t DEF WrapTypes, InLine, WrapInv
  <2>5. EndedLinesFit'
    <3> SUFFICES ASSUME NEW a \in 2 .. i + 1
                 PROVE  \E c \in a .. a + LineWidth : c <= i + 1 /\ text'[c] = NL
      BY <2>2 DEF EndedLinesFit
    <3>1. CASE a <= lineStart + 1
      <4>a. a \in 2 .. lineStart + 1
        BY <3>1, <1>t
      <4>1. PICK c \in a .. a + LineWidth : c <= lineStart + 1 /\ text[c] = NL
        BY <4>a DEF WrapInv, EndedLinesFit
      <4>2. text'[c] = NL
        BY <4>1, <2>1, <2>3, <1>t
      <4> QED BY <4>1, <4>2, <2>1, <1>t
    <3>2. CASE a > lineStart + 1
      BY <3>2, <2>1, <2>3, <1>t
    <3> QED BY <3>1, <3>2, <1>t
  <2>6. SpaceRemembered'
    BY <2>2, <2>1, <1>t DEF SpaceRemembered
  <2>7. RestAsSent'
    BY <2>1, <2>2, <2>3, <1>t DEF WrapInv, RestAsSent
  <2>8. OnlySpacesLost'
    <3>1. ASSUME ShortWords(raw)
          PROVE  raw[i + 1] = SPACE
      <4>1. i - LineWidth + 2 \in 1 .. Len(raw) - LineWidth + 1
        BY <2>1, <1>t
      <4>2. PICK c \in i - LineWidth + 2 .. i + 1 : raw[c] = SPACE
        BY <3>1, <4>1, <1>t DEF ShortWords
      <4>3. c \in 1 .. Len(raw) /\ c > lineStart + 1
        BY <4>2, <2>1, <1>t
      <4>4. text[c] = SPACE
        BY <4>2, <4>3 DEF WrapInv, RestAsSent
      <4> QED BY <4>2, <4>4, <2>1, <1>t
    <3> QED BY <3>1, <2>1, <2>2, <2>3, <1>t DEF WrapInv, OnlySpacesLost, NL, SPACE
  <2>9. Advances
    BY <2>1, <2>2 DEF Advances
  <2> QED BY <2>4, <2>5, <2>6, <2>7, <2>8, <2>9 DEF WrapInv
<1>3. CASE LookAt
  <2>1. /\ j < LineWidth /\ text' = text /\ lineStart' = lineStart
        /\ i' = i + 1 /\ j' = j + 1
        /\ foundSpace' = IF text[i + 1] = SPACE THEN i ELSE foundSpace
    BY <1>3, <1>t DEF LookAt, AtLineEnd, WrapInv, WrapTypes, LastSpace
  <2>2. WrapTypes' /\ InLine'
    BY <2>1, <1>t DEF WrapTypes, InLine, WrapInv
  <2>3. EndedLinesFit' /\ RestAsSent' /\ OnlySpacesLost'
    BY <2>1, <1>t DEF WrapInv, EndedLinesFit, RestAsSent, OnlySpacesLost
  <2>4. SpaceRemembered'
    <3>1. CASE text[i + 1] = SPACE
      BY <3>1, <2>1, <1>t DEF WrapInv, WrapTypes, SpaceRemembered
    <3>2. CASE text[i + 1] # SPACE
      <4>1. foundSpace' = foundSpace
        BY <3>2, <2>1
      <4>2. CASE foundSpace # 0
        BY <4>1, <4>2, <2>1 DEF WrapInv, SpaceRemembered
      <4>3. CASE foundSpace = 0
        <5>1. \A c \in i - j + 2 .. i : text[c] # SPACE
          BY <4>3 DEF WrapInv, SpaceRemembered
        <5>2. \A c \in i' - j' + 2 .. i' : c \in i - j + 2 .. i \/ c = i + 1
          BY <2>1, <1>t
        <5> QED BY <4>1, <4>3, <5>1, <5>2, <3>2, <2>1 DEF SpaceRemembered
      <4> QED BY <4>2, <4>3
    <3> QED BY <3>1, <3>2
  <2>5. Advances
    BY <2>1, <1>t DEF Advances
  <2> QED BY <2>2, <2>3, <2>4, <2>5 DEF WrapInv
<1> QED BY <1>1, <1>2, <1>3 DEF WrapStep

(* When the loop has ended, every line fits. *)
LEMMA WrapFits ==
  ASSUME WrapInv
  PROVE  LinesFit
<1> SUFFICES ASSUME ~Wrapping, NEW a \in 2 .. Len(text) - LineWidth
             PROVE  \E c \in a .. a + LineWidth : text[c] = NL
  BY DEF LinesFit
<1>1. /\ Len(text) \in Nat /\ LineWidth \in Nat /\ lineStart \in Nat /\ i \in Nat
      /\ Len(text) <= i /\ i <= lineStart + 1 + j /\ j \in 0 .. LineWidth
  BY WrapAssumption DEF WrapAssumption, WrapInv, WrapTypes, InLine, Wrapping
<1>2. a \in 2 .. lineStart + 1
  BY <1>1
<1> QED BY <1>2 DEF WrapInv, EndedLinesFit

(* The invariant speaks of the variables of the loop only. *)
LEMMA WrapFrame ==
  ASSUME WrapInv, UNCHANGED wrapVars
  PROVE  WrapInv'
BY DEF wrapVars, WrapInv, WrapTypes, InLine, EndedLinesFit, SpaceRemembered, RestAsSent,
       OnlySpacesLost
=============================================================================
