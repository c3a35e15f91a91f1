--------------------------- MODULE MessagesProofs ---------------------------
(***************************************************************************)
(* The stored messages, for every number and size of messages, layout of   *)
(* the configuration, texts, leftovers of the stack and wild addresses.    *)
(***************************************************************************)
EXTENDS Messages, WrapProofs, FiniteSetTheorems, WellFoundedInduction

(* What the assumption says of the sizes. *)
LEMMA Sizes ==
  /\ Count \in Nat \ {0} /\ MsgSize \in Nat /\ MsgSize > 4 /\ FrameText \in Nat
  /\ ConfigSize \in Nat /\ EepSize \in Nat /\ ConfigAt + ConfigSize <= EepSize
  /\ SleepAt \in 0 .. ConfigSize - 1 /\ MaxWrites \in Nat
BY MessagesAssumption DEF MessagesAssumption

(***************************************************************************)
(* Strings.                                                                *)
(***************************************************************************)

(* A set of numbers has a least one: of the intervals from 0 to a member,  *)
(* one has no other strictly inside.                                       *)
LEMMA LeastElement ==
  ASSUME NEW A \in SUBSET Nat, NEW n \in A
  PROVE  \E m \in A : \A k \in A : m <= k
<1> DEFINE Below(s) == 0 .. s
           Downsets == {Below(s) : s \in A}
<1>1. IsWellFoundedOn(StrictSubsetOrdering(Nat), FiniteSubsetsOf(Nat))
  BY FS_StrictSubsetOrderingWellFounded
<1>2. Downsets \subseteq FiniteSubsetsOf(Nat)
  <2>1. \A s \in A : IsFiniteSet(Below(s)) /\ Below(s) \in SUBSET Nat
    BY FS_Interval
  <2> QED BY <2>1 DEF FiniteSubsetsOf
<1>3. Downsets # {}
  OBVIOUS
<1>4. PICK x \in Downsets : \A y \in Downsets : <<y, x>> \notin StrictSubsetOrdering(Nat)
  BY <1>1, <1>2, <1>3, WFMin
<1>5. PICK m \in A : x = Below(m)
  BY <1>4
<1>6. ASSUME NEW k \in A, k < m
      PROVE  FALSE
  <2>1. Below(k) \subseteq Below(m) /\ m \in Below(m) /\ m \notin Below(k)
    BY <1>6
  <2>2. <<Below(k), Below(m)>> \in StrictSubsetOrdering(Nat)
    BY <2>1 DEF StrictSubsetOrdering
  <2> QED BY <1>4, <1>5, <2>2
<1>7. \A k \in A : m <= k
  BY <1>6
<1> QED BY <1>7

(* The string in a block of bytes ends at the first NUL, or at the end. *)
LEMMA StrLenDef ==
  ASSUME NEW b \in Seq(Bytes)
  PROVE  /\ StrLen(b) \in 0 .. Len(b)
         /\ \A k \in 1 .. StrLen(b) : b[k] # NUL
         /\ StrLen(b) < Len(b) => b[StrLen(b) + 1] = NUL
<1> DEFINE P(n) == /\ \A k \in 1 .. n : b[k] # NUL
                   /\ n < Len(b) => b[n + 1] = NUL
           A == {n \in Nat : n = Len(b) \/ (n < Len(b) /\ b[n + 1] = NUL)}
<1>1. Len(b) \in A
  OBVIOUS
<1>2. PICK m \in A : \A k \in A : m <= k
  BY <1>1, LeastElement
<1>3. m \in 0 .. Len(b) /\ P(m)
  <2>1. m \in 0 .. Len(b) /\ (m < Len(b) => b[m + 1] = NUL)
    BY <1>1, <1>2
  <2>2. ASSUME NEW k \in 1 .. m, b[k] = NUL
        PROVE  FALSE
    <3>1. k - 1 \in Nat /\ k - 1 < Len(b) /\ (k - 1) + 1 = k
      BY <2>1
    <3>2. k - 1 \in A
      BY <2>2, <3>1
    <3> QED BY <1>2, <3>2, <2>1
  <2> QED BY <2>1, <2>2
<1>4. \E n \in 0 .. Len(b) : P(n)
  BY <1>3
<1>5. StrLen(b) = CHOOSE n \in 0 .. Len(b) : P(n)
  BY DEF StrLen
<1>6. StrLen(b) \in 0 .. Len(b) /\ P(StrLen(b))
  BY <1>4, <1>5
<1> QED BY <1>6

LEMMA StrType ==
  ASSUME NEW b \in Seq(Bytes)
  PROVE  Str(b) \in Seq(Bytes) /\ Len(Str(b)) <= Len(b)
BY StrLenDef DEF Str

LEMMA CutType ==
  ASSUME NEW t \in Seq(Bytes), NEW n \in Nat
  PROVE  Cut(t, n) \in Seq(Bytes) /\ Len(Cut(t, n)) <= n
BY DEF Cut

LEMMA MarkType ==
  ASSUME NEW t \in Seq(Bytes)
  PROVE  Mark(t) \in Seq(Bytes) /\ Len(Mark(t)) <= MsgSize - 2
<1>1. <<GT, SPACE>> \in Seq(Bytes)
  BY DEF GT, SPACE, Bytes
<1>2. <<GT, SPACE>> \o t \in Seq(Bytes)
  BY <1>1
<1>3. MsgSize - 2 \in Nat
  BY Sizes
<1> QED BY <1>2, <1>3, CutType DEF Mark

(* Copying a string into a block keeps the block's bytes and size. *)
LEMMA CopyType ==
  ASSUME NEW b \in Seq(Bytes), NEW from \in Nat, NEW size \in Nat \ {0},
         NEW t \in Seq(Bytes)
  PROVE  Copy(b, from, size, t) \in Seq(Bytes) /\ Len(Copy(b, from, size, t)) = Len(b)
<1> DEFINE s == Cut(t, size - 1)
           byte(k) == IF k - from \in 1 .. Len(s) THEN s[k - from]
                      ELSE IF k - from = Len(s) + 1 THEN NUL ELSE b[k]
<1>1. s \in Seq(Bytes)
  BY CutType
<1>2. ASSUME NEW k \in 1 .. Len(b)
      PROVE  byte(k) \in Bytes
  <2>1. b[k] \in Bytes
    OBVIOUS
  <2>3. NUL \in Bytes
    BY DEF NUL, Bytes
  <2>2. ASSUME k - from \in 1 .. Len(s)
        PROVE  s[k - from] \in Bytes
    BY <1>1, <2>2
  <2> QED BY <2>1, <2>2, <2>3
<1>3. DOMAIN b = 1 .. Len(b)
  OBVIOUS
<1>4. Copy(b, from, size, t) = [k \in 1 .. Len(b) |-> byte(k)]
  BY <1>3, Zenon DEF Copy
<1> HIDE DEF byte
<1> QED BY <1>2, <1>4

(***************************************************************************)
(* The EEPROM.                                                             *)
(***************************************************************************)
EepType == eep \in [Addresses -> Bytes]

LEMMA BlockType ==
  ASSUME EepType, NEW address \in Nat, NEW n \in Nat, address + n <= EepSize
  PROVE  Block(address, n) \in Seq(Bytes) /\ Len(Block(address, n)) = n
<1>1. \A k \in 1 .. n : address + k - 1 \in Addresses
  BY Sizes DEF Addresses
<1>2. \A k \in 1 .. n : eep[address + k - 1] \in Bytes
  BY <1>1 DEF EepType
<1> QED BY <1>2 DEF Block

(* Every message lies in front of the configuration. *)
LEMMA SlotRange ==
  ASSUME NEW k \in 0 .. Count - 1
  PROVE  k * MsgSize \in Nat /\ k * MsgSize + MsgSize <= ConfigAt /\ ConfigAt \in Nat
<1>1. Count \in Nat /\ MsgSize \in Nat /\ k \in Nat /\ k + 1 <= Count
  BY Sizes
<1>2. \A a, b, m \in Nat : a + 1 <= b => a * m + m <= b * m /\ a * m \in Nat /\ b * m \in Nat
  BY SMT
<1> QED BY <1>1, <1>2 DEF ConfigAt

LEMMA TextType ==
  ASSUME EepType, NEW k \in 0 .. Count - 1
  PROVE  Text(k) \in Seq(Bytes)
<1>1. k * MsgSize + MsgSize <= EepSize
  BY SlotRange, Sizes
<1> QED BY <1>1, SlotRange, Sizes, BlockType, StrType DEF Text

LEMMA ReadConfigType ==
  ASSUME EepType
  PROVE  ReadConfig \in Seq(Bytes) /\ Len(ReadConfig) = ConfigSize
<1>1. 0 \in 0 .. Count - 1
  BY Sizes
<1>2. ConfigAt \in Nat
  BY <1>1, SlotRange
<1> QED BY <1>2, BlockType, Sizes DEF ReadConfig

(* The search stops at the first stored message it comes to, and wraps to  *)
(* the empty one when there is none behind.                                *)
LEMMA FirstStoredDef ==
  ASSUME NEW from \in 0 .. Count - 1
  PROVE  /\ FirstStored(from) \in 0 .. Count - 1
         /\ \/ /\ FirstStored(from) >= from
               /\ \A k \in from .. FirstStored(from) - 1 : ~Accepted(k)
            \/ /\ FirstStored(from) = 0
               /\ \A k \in from .. Count - 1 : ~Accepted(k)
<1> DEFINE A == {k \in from .. Count - 1 : Accepted(k)}
           Q(k) == Accepted(k) /\ \A l \in from .. k - 1 : ~Accepted(l)
<1>0. Count \in Nat \ {0}
  BY Sizes
<1>1. CASE A = {}
  <2>1. FirstStored(from) = 0
    BY <1>1 DEF FirstStored
  <2> QED BY <2>1, <1>1, <1>0
<1>2. CASE A # {}
  <2>a. A \in SUBSET Nat /\ \E n \in A : TRUE
    BY <1>2, <1>0
  <2>1. PICK m \in A : \A k \in A : m <= k
    BY <2>a, LeastElement
  <2>2. m \in from .. Count - 1 /\ Q(m)
    BY <2>1, <1>0
  <2>3. FirstStored(from) = CHOOSE k \in from .. Count - 1 : Q(k)
    BY <2>2, Zenon DEF FirstStored
  <2>4. FirstStored(from) \in from .. Count - 1 /\ Q(FirstStored(from))
    BY <2>2, <2>3
  <2> QED BY <2>4, <1>0
<1> QED BY <1>1, <1>2

(***************************************************************************)
(* The invariant.                                                          *)
(***************************************************************************)

(* A write under way, unless it is a wild one, is of the configuration,    *)
(* with its strings terminated, or ends in front of it.                    *)
WriteInv ==
  pc = "write" =>
    /\ Len(image) <= EepSize
    /\ ~wild => \/ dest = ConfigAt /\ Len(image) = ConfigSize /\ ConfigWhole(image)
                \/ dest + Len(image) <= ConfigAt

MInv == TypeOK /\ WrapInv /\ WriteInv /\ SelectionCurrent /\ ConfigTerminated

(* What a boot and a press make of the selection. *)
LEMMA SelectInv ==
  ASSUME EepType, NEW from \in 0 .. Count - 1, Select(from), UNCHANGED eep
  PROVE  /\ msgIndex' \in 0 .. Count - 1
         /\ selected' \in Seq(Bytes) /\ Len(selected') <= MsgSize - 2
         /\ shown' \in Seq(Bytes) /\ fresh' = TRUE
         /\ SelectionCurrent'
<1>1. /\ msgIndex' = FirstStored(from) /\ selected' = Mark(Text(msgIndex'))
      /\ shown' = Framed(selected') /\ fresh' = TRUE
  BY DEF Select
<1>2. msgIndex' \in 0 .. Count - 1
  BY <1>1, FirstStoredDef
<1>3. selected' \in Seq(Bytes) /\ Len(selected') <= MsgSize - 2
  BY <1>1, <1>2, TextType, MarkType
<1>4. SelectionCurrent'
  BY <1>1 DEF SelectionCurrent, Text, Block
<1>5. shown' \in Seq(Bytes)
  BY <1>1, <1>3, Sizes, CutType DEF Framed
<1> QED BY <1>1, <1>2, <1>3, <1>4, <1>5

(* Setting a field leaves the configuration whole: the field's last byte   *)
(* is the end of the new text or the zero it was, the others are apart.    *)
LEMMA CopyWhole ==
  ASSUME NEW b \in Seq(Bytes), Len(b) = ConfigSize, ConfigWhole(b),
         NEW f \in Fields, NEW t \in Seq(Bytes)
  PROVE  ConfigWhole(Copy(b, FieldAt[f], FieldSize[f], t))
<1> DEFINE s == Cut(t, FieldSize[f] - 1)
           c == Copy(b, FieldAt[f], FieldSize[f], t)
<1>1. /\ FieldAt[f] \in Nat /\ FieldSize[f] \in Nat \ {0}
      /\ FieldAt[f] + FieldSize[f] <= ConfigSize
      /\ SleepAt \notin FieldAt[f] .. FieldAt[f] + FieldSize[f] - 1
  BY MessagesAssumption DEF MessagesAssumption
<1>2. s \in Seq(Bytes) /\ Len(s) \in Nat /\ Len(s) <= FieldSize[f] - 1
  BY <1>1, CutType
<1>3. DOMAIN b = 1 .. ConfigSize
  OBVIOUS
<1>4. c = [k \in 1 .. ConfigSize |->
             IF k - FieldAt[f] \in 1 .. Len(s) THEN s[k - FieldAt[f]]
             ELSE IF k - FieldAt[f] = Len(s) + 1 THEN NUL ELSE b[k]]
  BY <1>3, Zenon DEF Copy
<1> HIDE DEF s, c
<1>5. \A k \in 1 .. ConfigSize :
        k - FieldAt[f] \notin 1 .. FieldSize[f] => c[k] = b[k]
  BY <1>1, <1>2, <1>4
<1>6. c[SleepAt + 1] = b[SleepAt + 1]
  <2>1. SleepAt + 1 \in 1 .. ConfigSize /\ (SleepAt + 1) - FieldAt[f] \notin 1 .. FieldSize[f]
    BY <1>1, Sizes
  <2> QED BY <2>1, <1>5
<1>7. ASSUME NEW g \in Fields
      PROVE  Terminated(c, g)
  <2>1. /\ FieldAt[g] \in Nat /\ FieldSize[g] \in Nat \ {0}
        /\ FieldAt[g] + FieldSize[g] <= ConfigSize
        /\ f = g \/ FieldAt[f] + FieldSize[f] <= FieldAt[g]
                 \/ FieldAt[g] + FieldSize[g] <= FieldAt[f]
    BY MessagesAssumption DEF MessagesAssumption
  <2>2. b[FieldAt[g] + FieldSize[g]] = NUL
    BY DEF ConfigWhole, Terminated
  <2>3. CASE f = g
    BY <2>1, <2>2, <2>3, <1>1, <1>2, <1>4 DEF Terminated
  <2>4. CASE f # g
    <3>1. /\ FieldAt[g] + FieldSize[g] \in 1 .. ConfigSize
          /\ (FieldAt[g] + FieldSize[g]) - FieldAt[f] \notin 1 .. FieldSize[f]
      BY <2>1, <2>4, <1>1
    <3> QED BY <3>1, <2>2, <1>5 DEF Terminated
  <2> QED BY <2>3, <2>4
<1> QED BY <1>6, <1>7 DEF ConfigWhole, c

-----------------------------------------------------------------------------

LEMMA InitInv == Init => MInv
<1> SUFFICES ASSUME Init
             PROVE  MInv
  OBVIOUS
<1> USE DEF Init
<1>1. /\ InitialEep \in [Addresses -> Bytes]
      /\ \A f \in Fields : InitialEep[ConfigAt + FieldAt[f] + FieldSize[f] - 1] = NUL
      /\ InitialEep[ConfigAt + SleepAt] # 0
      /\ \A f \in Fields : FieldAt[f] \in Nat /\ FieldSize[f] \in Nat \ {0}
                          /\ FieldAt[f] + FieldSize[f] <= ConfigSize
  BY MessagesAssumption DEF MessagesAssumption
<1>2. /\ 0 \in Addresses /\ ConfigAt \in Nat /\ 0 \in 0 .. Count - 1
  <2>1. 0 \in 0 .. Count - 1
    BY Sizes
  <2>2. ConfigAt \in Nat /\ 0 * MsgSize + MsgSize <= ConfigAt
    BY <2>1, SlotRange
  <2> QED BY <2>1, <2>2, Sizes DEF Addresses
<1>3. TypeOK
  <2>1. << >> \in Seq(Bytes) /\ Len(<< >>) = 0
    OBVIOUS
  <2>2. eep \in [Addresses -> Bytes] /\ wild \in BOOLEAN /\ fresh \in BOOLEAN
    BY <1>1
  <2>3. config = << >> /\ selected = << >> /\ shown = << >> /\ image = << >> /\ raw = << >> /\ text = << >>
    OBVIOUS
  <2>4. /\ pc = "off" /\ msgIndex \in 0 .. Count - 1 /\ dest \in Addresses
        /\ at = 0 /\ to = "radio" /\ writes \in 0 .. MaxWrites
    BY <1>2, Sizes
  <2>5. 0 <= MsgSize - 2 /\ 0 \in 0 .. 0
    BY Sizes
  <2> HIDE DEF Init
  <2> QED BY <2>1, <2>2, <2>3, <2>4, <2>5 DEF TypeOK
<1>4. WrapInv
  BY WrapAssumption DEF WrapAssumption, WrapInv, WrapTypes, InLine, EndedLinesFit,
     SpaceRemembered, RestAsSent, OnlySpacesLost
<1>5. WriteInv /\ SelectionCurrent
  BY DEF WriteInv, SelectionCurrent
<1>6. ConfigWhole(ReadConfig)
  <2>1. ReadConfig = [k \in 1 .. ConfigSize |-> InitialEep[ConfigAt + k - 1]]
    BY DEF ReadConfig, Block
  <2>2. ReadConfig[SleepAt + 1] # 0
    <3>1. SleepAt + 1 \in 1 .. ConfigSize /\ ConfigAt + (SleepAt + 1) - 1 = ConfigAt + SleepAt
      BY Sizes, <1>2
    <3> QED BY <3>1, <2>1, <1>1
  <2>3. ASSUME NEW f \in Fields
        PROVE  Terminated(ReadConfig, f)
    <3>1. /\ FieldAt[f] + FieldSize[f] \in 1 .. ConfigSize
          /\ ConfigAt + (FieldAt[f] + FieldSize[f]) - 1 = ConfigAt + FieldAt[f] + FieldSize[f] - 1
      BY <1>1, <1>2, Sizes
    <3> QED BY <3>1, <2>1, <1>1 DEF Terminated
  <2> QED BY <2>2, <2>3 DEF ConfigWhole
<1>7. ConfigTerminated
  BY <1>6 DEF ConfigTerminated
<1> QED BY <1>3, <1>4, <1>5, <1>7 DEF MInv

(* The parts of the invariant that a step which writes nothing keeps. *)
LEMMA QuietStep ==
  ASSUME MInv, UNCHANGED store, pc' # "write",
         pc' = "off" \/ config' = ReadConfig \/ (pc # "off" /\ config' = config)
  PROVE  WriteInv' /\ ConfigTerminated'
<1>1. WriteInv'
  BY DEF WriteInv
<1>2. ReadConfig' = ReadConfig /\ wild' = wild
  BY DEF store, ReadConfig, Block
<1>3. ~wild => ConfigWhole(ReadConfig) /\ (pc # "off" => ConfigWhole(config))
  BY DEF MInv, ConfigTerminated
<1>4. ConfigTerminated'
  BY <1>2, <1>3 DEF ConfigTerminated, ConfigWhole, Terminated
<1> QED BY <1>1, <1>4

(* Of the parts that a step which leaves the selection alone keeps. *)
LEMMA SameSelection ==
  ASSUME MInv, pc # "off", UNCHANGED <<eep, selection>>
  PROVE  SelectionCurrent'
BY DEF MInv, SelectionCurrent, selection, Text, Block

(* The texts a gesture makes are texts. *)
LEMMA TextsToSend ==
  ASSUME MInv, pc # "off"
  PROVE  RadioText \in Seq(Bytes) /\ ScreenText \in Seq(Bytes)
<1>1. selected \in Seq(Bytes) /\ config \in Seq(Bytes) /\ Len(config) = ConfigSize
  BY DEF MInv, TypeOK
<1>2. /\ FieldAt["name"] \in Nat /\ FieldSize["name"] \in Nat \ {0}
      /\ FieldAt["name"] + FieldSize["name"] <= ConfigSize
  BY MessagesAssumption DEF MessagesAssumption
<1>3. SubSeq(config, FieldAt["name"] + 1, FieldAt["name"] + FieldSize["name"]) \in Seq(Bytes)
  BY <1>1, <1>2
<1>4. Field("name") \in Seq(Bytes)
  BY <1>3, StrType DEF Field
<1>5. <<42>> \in Seq(Bytes) /\ <<47, 109, 101>> \in Seq(Bytes)
  BY DEF Bytes
<1> QED BY <1>1, <1>4, <1>5 DEF RadioText, ScreenText

LEMMA BootInv == MInv /\ Boot => MInv'
<1> SUFFICES ASSUME MInv, Boot
             PROVE  MInv'
  OBVIOUS
<1> USE DEF Boot, store, writing
<1>1. EepType /\ 0 \in 0 .. Count - 1
  BY Sizes DEF MInv, TypeOK, EepType
<1>2. Select(0) /\ UNCHANGED eep
  OBVIOUS
<1>3. /\ msgIndex' \in 0 .. Count - 1
      /\ selected' \in Seq(Bytes) /\ Len(selected') <= MsgSize - 2
      /\ shown' \in Seq(Bytes) /\ fresh' = TRUE
      /\ SelectionCurrent'
  BY <1>1, <1>2, SelectInv
<1>4. config' \in Seq(Bytes) /\ Len(config') = ConfigSize
  BY <1>1, ReadConfigType
<1>5. TypeOK'
  BY <1>3, <1>4 DEF MInv, TypeOK, wrapVars
<1>6. WrapInv'
  BY WrapFrame DEF MInv
<1>7. WriteInv' /\ ConfigTerminated'
  BY QuietStep
<1> QED BY <1>3, <1>5, <1>6, <1>7 DEF MInv

LEMMA PowerLossInv == MInv /\ PowerLoss => MInv'
<1> SUFFICES ASSUME MInv, PowerLoss
             PROVE  MInv'
  OBVIOUS
<1> USE DEF PowerLoss, store
<1>1. 0 \in Addresses /\ 0 \in 0 .. Count - 1
  <2>1. 0 \in 0 .. Count - 1
    BY Sizes
  <2> QED BY <2>1, Sizes, SlotRange DEF Addresses
<1>a. << >> \in Seq(Bytes) /\ << >> \in Seq(0 .. 255) /\ Len(<< >>) = 0
  OBVIOUS
<1>b. StartWrap(<< >>)
  OBVIOUS
<1>2. TypeOK'
  <2>1. text' = << >> /\ raw' = << >>
    BY <1>b DEF StartWrap
  <2>2. /\ eep' \in [Addresses -> Bytes] /\ wild' \in BOOLEAN /\ writes' \in 0 .. MaxWrites
    BY DEF MInv, TypeOK
  <2>3. /\ config' = << >> /\ selected' = << >> /\ shown' = << >> /\ image' = << >>
        /\ msgIndex' = 0 /\ dest' = 0 /\ at' = 0 /\ fresh' = FALSE
        /\ pc' = "off" /\ to' = "radio"
    OBVIOUS
  <2>4. 0 <= MsgSize - 2 /\ 0 \in 0 .. 0
    BY Sizes
  <2>5. fresh' \in BOOLEAN
    BY <2>3, Zenon
  <2> HIDE DEF PowerLoss
  <2> QED BY <1>1, <1>a, <2>1, <2>2, <2>3, <2>4, <2>5 DEF TypeOK
<1>3. WrapInv'
  BY <1>a, <1>b, WrapStarts
<1>4. WriteInv' /\ ConfigTerminated'
  BY QuietStep
<1>5. SelectionCurrent'
  BY DEF SelectionCurrent
<1> QED BY <1>2, <1>3, <1>4, <1>5 DEF MInv

LEMMA NextOfPressRange ==
  ASSUME MInv
  PROVE  NextOfPress \in 0 .. Count - 1
BY Sizes DEF NextOfPress, MInv, TypeOK

LEMMA ShortPressInv == MInv /\ ShortPress => MInv'
<1> SUFFICES ASSUME MInv, ShortPress
             PROVE  MInv'
  OBVIOUS
<1> USE DEF ShortPress, store, writing
<1>1. EepType
  BY DEF MInv, TypeOK, EepType
<1>2. /\ msgIndex' \in 0 .. Count - 1
      /\ selected' \in Seq(Bytes) /\ Len(selected') <= MsgSize - 2
      /\ shown' \in Seq(Bytes) /\ fresh' = TRUE
      /\ SelectionCurrent'
  BY <1>1, NextOfPressRange, SelectInv
<1>3. TypeOK'
  BY <1>2 DEF MInv, TypeOK, wrapVars
<1>4. WrapInv'
  BY WrapFrame DEF MInv
<1>5. WriteInv' /\ ConfigTerminated'
  BY QuietStep
<1> QED BY <1>2, <1>3, <1>4, <1>5 DEF MInv

LEMMA CancelInv == MInv /\ CancelShutdown => MInv'
<1> SUFFICES ASSUME MInv, CancelShutdown
             PROVE  MInv'
  OBVIOUS
<1> USE DEF CancelShutdown, store, writing
<1>1. Notice \in Seq(Bytes)
  BY DEF Notice, Bytes
<1>2. TypeOK'
  BY <1>1 DEF MInv, TypeOK, wrapVars
<1>3. WrapInv'
  BY WrapFrame DEF MInv
<1>4. WriteInv' /\ ConfigTerminated'
  BY QuietStep
<1>5. SelectionCurrent'
  BY DEF MInv, SelectionCurrent, Text, Block
<1> QED BY <1>2, <1>3, <1>4, <1>5 DEF MInv

LEMMA GestureInv == MInv /\ Gesture => MInv'
<1> SUFFICES ASSUME MInv, Gesture
             PROVE  MInv'
  OBVIOUS
<1> USE DEF Gesture, store, selection, writing
<1>1. RadioText \in Seq(Bytes)
  BY TextsToSend
<1>2. TypeOK'
  BY <1>1 DEF MInv, TypeOK, StartWrap
<1>3. WrapInv'
  BY <1>1, WrapStarts DEF Bytes
<1>4. WriteInv' /\ ConfigTerminated'
  BY QuietStep
<1>5. SelectionCurrent'
  BY SameSelection
<1> QED BY <1>2, <1>3, <1>4, <1>5 DEF MInv

LEMMA WrapTextInv == MInv /\ WrapText => MInv' /\ Advances
<1> SUFFICES ASSUME MInv, WrapText
             PROVE  MInv' /\ Advances
  OBVIOUS
<1> USE DEF WrapText, store, selection, writing
<1>1. WrapInv' /\ Advances
  BY WrapKeeps DEF MInv
<1>2. TypeOK'
  BY <1>1 DEF MInv, TypeOK, WrapInv, WrapTypes, Bytes
<1>3. WriteInv' /\ ConfigTerminated'
  BY QuietStep
<1>4. SelectionCurrent'
  BY SameSelection
<1> QED BY <1>1, <1>2, <1>3, <1>4 DEF MInv

LEMMA SendInv == MInv /\ Send => MInv'
<1> SUFFICES ASSUME MInv, Send
             PROVE  MInv'
  OBVIOUS
<1> USE DEF Send, store, selection, writing
<1>1. ScreenText \in Seq(Bytes)
  BY TextsToSend
<1>2. TypeOK' /\ WrapInv'
  <2>1. CASE to = "radio"
    <3>1. StartWrap(ScreenText)
      BY <2>1
    <3>2. WrapInv'
      BY <1>1, <3>1, WrapStarts DEF Bytes
    <3>3. TypeOK'
      BY <2>1, <1>1 DEF MInv, TypeOK, StartWrap
    <3> QED BY <3>2, <3>3
  <2>2. CASE to # "radio"
    <3>1. WrapInv'
      BY <2>2, WrapFrame DEF MInv
    <3>2. TypeOK'
      BY <2>2 DEF MInv, TypeOK, wrapVars
    <3> QED BY <3>1, <3>2
  <2> QED BY <2>1, <2>2
<1>3. pc' # "write" /\ pc' # "off" /\ pc # "off"
  OBVIOUS
<1>4. WriteInv' /\ ConfigTerminated'
  BY <1>3, QuietStep
<1>5. SelectionCurrent'
  BY <1>3, SameSelection
<1> QED BY <1>2, <1>4, <1>5 DEF MInv

(***************************************************************************)
(* A write begins: what it will write, and where.                          *)
(***************************************************************************)
LEMMA WriteBegins ==
  ASSUME MInv, NEW address \in Addresses, NEW block \in Seq(Bytes),
         WriteBlock(address, block), Len(block) > 0, Len(block) <= EepSize,
         config' \in Seq(Bytes), Len(config') = ConfigSize,
         wild' \in BOOLEAN, (wild' = wild) \/ wild',
         ~wild' => ConfigWhole(config'),
         ~wild' => \/ address = ConfigAt /\ Len(block) = ConfigSize /\ ConfigWhole(block)
                  \/ address + Len(block) <= ConfigAt,
         UNCHANGED <<eep, selection, to, wrapVars>>
  PROVE  MInv'
<1> USE DEF WriteBlock, selection
<1>1. TypeOK'
  <2>1. /\ eep' \in [Addresses -> Bytes] /\ msgIndex' \in 0 .. Count - 1
        /\ selected' \in Seq(Bytes) /\ Len(selected') <= MsgSize - 2
        /\ shown' \in Seq(Bytes) /\ to' \in {"radio", "screen"}
        /\ text' \in Seq(Bytes) /\ raw' \in Seq(Bytes) /\ Len(raw') = Len(text')
    BY DEF MInv, TypeOK, wrapVars
  <2>2. fresh' \in BOOLEAN
    <3>1. fresh \in BOOLEAN /\ fresh' = fresh
      BY Zenon DEF MInv, TypeOK
    <3> QED BY <3>1, Zenon
  <2>3. writes' \in 0 .. MaxWrites
    BY Sizes DEF MInv, TypeOK
  <2>4. /\ image' \in Seq(Bytes) /\ dest' \in Addresses /\ pc' = "write"
        /\ at' = 0 /\ 0 < Len(image')
    OBVIOUS
  <2>5. /\ pc' \in {"off", "idle", "write", "wrap"}
        /\ Len(config') = IF pc' = "off" THEN 0 ELSE ConfigSize
        /\ at' \in 0 .. Len(image') /\ (pc' = "write" => at' < Len(image'))
    BY <2>4
  <2> HIDE DEF WriteBlock, selection
  <2> QED BY <2>1, <2>2, <2>3, <2>4, <2>5 DEF TypeOK
<1>2. WrapInv'
  BY WrapFrame DEF MInv
<1>3. WriteInv'
  <2>1. image' = block /\ dest' = address
    OBVIOUS
  <2> QED BY <2>1 DEF WriteInv, ConfigWhole, Terminated
<1>4. SelectionCurrent'
  BY SameSelection
<1>5. ConfigTerminated'
  <2>1. ReadConfig' = ReadConfig
    BY DEF ReadConfig, Block
  <2>2. ~wild => ConfigWhole(ReadConfig)
    BY DEF MInv, ConfigTerminated
  <2>3. ~wild' => ~wild
    OBVIOUS
  <2> QED BY <2>1, <2>2, <2>3 DEF ConfigTerminated, ConfigWhole, Terminated
<1> QED BY <1>1, <1>2, <1>3, <1>4, <1>5 DEF MInv

(* Whatever number is typed, a byte is left of it. *)
LEMMA ByteOfIndex ==
  ASSUME NEW n \in Indices
  PROVE  Int16(n) % 256 \in Nat
<1>1. n \in Nat
  BY MessagesAssumption DEF MessagesAssumption
<1>2. Int16(n) \in Int
  BY <1>1 DEF Int16
<1>3. \A m \in Int : m % 256 \in Nat
  OBVIOUS
<1> QED BY <1>2, <1>3

LEMMA StoreMessageInv ==
  ASSUME MInv, NEW n \in Indices, NEW t \in Texts, StoreMessage(n, t)
  PROVE  MInv'
<1> DEFINE k == Int16(n) % 256
<1>1. PICK junk \in Junk :
        LET block == Copy(junk, 0, MsgSize - 1, t)
        IN  \/ k < Count /\ WriteBlock(k * MsgSize, block) /\ UNCHANGED wild
            \/ k >= Count /\ wild' = TRUE
               /\ \E a \in WildAddresses : WriteBlock(a, block)
  BY DEF StoreMessage
<1>0. k \in Nat
  BY ByteOfIndex
<1> HIDE DEF k
<1> DEFINE block == Copy(junk, 0, MsgSize - 1, t)
<1>2. UNCHANGED <<eep, config, selection, to, wrapVars>> /\ pc = "idle"
  BY DEF StoreMessage
<1>3. t \in Seq(Bytes) /\ junk \in [1 .. MsgSize -> Bytes] /\ WildAddresses \subseteq Addresses
  BY MessagesAssumption DEF MessagesAssumption
<1>4. junk \in Seq(Bytes) /\ Len(junk) = MsgSize
  BY <1>3, Sizes
<1>5. block \in Seq(Bytes) /\ Len(block) = MsgSize
  BY <1>3, <1>4, Sizes, CopyType
<1>6. MsgSize > 0 /\ MsgSize <= EepSize
  <2>1. 0 \in 0 .. Count - 1
    BY Sizes
  <2>2. 0 * MsgSize \in Nat /\ 0 * MsgSize + MsgSize <= ConfigAt /\ ConfigAt \in Nat
    BY <2>1, SlotRange
  <2> QED BY <2>2, Sizes
<1>7. /\ config' \in Seq(Bytes) /\ Len(config') = ConfigSize
      /\ ~wild => ConfigWhole(config')
  BY <1>2 DEF MInv, TypeOK, ConfigTerminated
<1>8. wild \in BOOLEAN
  BY DEF MInv, TypeOK
<1> HIDE DEF block
<1>9. CASE k < Count /\ WriteBlock(k * MsgSize, block) /\ UNCHANGED wild
  <2>1. k \in 0 .. Count - 1
    BY <1>0, <1>9, Sizes
  <2>2. k * MsgSize \in Addresses /\ k * MsgSize + MsgSize <= ConfigAt
    BY <2>1, SlotRange, Sizes DEF Addresses
  <2> QED BY <1>9, <2>2, <1>2, <1>5, <1>6, <1>7, <1>8, WriteBegins
<1>10. CASE k >= Count /\ wild' = TRUE /\ \E a \in WildAddresses : WriteBlock(a, block)
  <2>1. PICK a \in WildAddresses : WriteBlock(a, block)
    BY <1>10
  <2>2. wild' \in BOOLEAN /\ wild'
    BY <1>10, Zenon
  <2> QED BY <2>1, <2>2, <1>2, <1>3, <1>5, <1>6, <1>7, WriteBegins
<1> QED BY <1>1, <1>9, <1>10 DEF block

LEMMA ConfigAddress ==
  ConfigAt \in Addresses /\ ConfigSize > 0 /\ ConfigSize <= EepSize
<1>1. 0 \in 0 .. Count - 1
  BY Sizes
<1> QED BY <1>1, SlotRange, Sizes DEF Addresses

LEMMA SetFieldInv ==
  ASSUME MInv, NEW f \in Fields, NEW t \in Texts, SetField(f, t)
  PROVE  MInv'
<1>1. /\ config' = Copy(config, FieldAt[f], FieldSize[f], t)
      /\ WriteBlock(ConfigAt, config')
      /\ UNCHANGED <<eep, wild, selection, to, wrapVars>> /\ pc = "idle"
  BY DEF SetField, store
<1>2. config \in Seq(Bytes) /\ Len(config) = ConfigSize /\ (~wild => ConfigWhole(config))
      /\ wild \in BOOLEAN
  BY <1>1 DEF MInv, TypeOK, ConfigTerminated
<1>3. t \in Seq(Bytes) /\ FieldAt[f] \in Nat /\ FieldSize[f] \in Nat \ {0}
  BY MessagesAssumption DEF MessagesAssumption
<1>4. config' \in Seq(Bytes) /\ Len(config') = ConfigSize
  BY <1>1, <1>2, <1>3, CopyType
<1>5. ~wild => ConfigWhole(config')
  BY <1>1, <1>2, <1>3, CopyWhole
<1> QED BY <1>1, <1>2, <1>4, <1>5, ConfigAddress, WriteBegins

LEMMA SetSleepInv ==
  ASSUME MInv, NEW n \in Sleeps, SetSleep(n)
  PROVE  MInv'
<1>1. /\ config' = [config EXCEPT ![SleepAt + 1] = SleepValue(n)]
      /\ SleepValue(n) # 0
      /\ WriteBlock(ConfigAt, config')
      /\ UNCHANGED <<eep, wild, selection, to, wrapVars>> /\ pc = "idle"
  BY DEF SetSleep, store, SleepRefused
<1>2. config \in Seq(Bytes) /\ Len(config) = ConfigSize /\ (~wild => ConfigWhole(config))
      /\ wild \in BOOLEAN
  BY <1>1 DEF MInv, TypeOK, ConfigTerminated
<1>3. SleepValue(n) \in Bytes
  <2>1. n \in Nat
    BY MessagesAssumption DEF MessagesAssumption
  <2> QED BY <2>1 DEF SleepValue, Bytes
<1>4. /\ config' \in Seq(Bytes) /\ Len(config') = ConfigSize
      /\ config'[SleepAt + 1] # 0
      /\ \A k \in 1 .. ConfigSize : k # SleepAt + 1 => config'[k] = config[k]
  BY <1>1, <1>2, <1>3, Sizes
<1>5. ASSUME ~wild, NEW f \in Fields
      PROVE  Terminated(config', f)
  <2>1. /\ FieldAt[f] \in Nat /\ FieldSize[f] \in Nat \ {0}
        /\ FieldAt[f] + FieldSize[f] <= ConfigSize
        /\ SleepAt \notin FieldAt[f] .. FieldAt[f] + FieldSize[f] - 1
    BY MessagesAssumption DEF MessagesAssumption
  <2>2. FieldAt[f] + FieldSize[f] \in 1 .. ConfigSize /\ FieldAt[f] + FieldSize[f] # SleepAt + 1
    BY <2>1, Sizes
  <2> QED BY <2>2, <1>2, <1>4, <1>5 DEF ConfigWhole, Terminated
<1>6. ~wild => ConfigWhole(config')
  BY <1>4, <1>5 DEF ConfigWhole
<1> QED BY <1>1, <1>2, <1>4, <1>6, ConfigAddress, WriteBegins

(***************************************************************************)
(* A byte is written.                                                      *)
(***************************************************************************)
LEMMA TargetRange ==
  ASSUME MInv, pc = "write"
  PROVE  Target \in Addresses
<1>1. dest \in 0 .. EepSize - 1 /\ at \in Nat /\ at < Len(image) /\ Len(image) <= EepSize
      /\ Len(image) \in Nat /\ EepSize \in Nat
  BY Sizes DEF MInv, TypeOK, WriteInv, Addresses
<1> QED BY <1>1 DEF Target, Addresses

(* The configuration in the EEPROM stays whole: what is written there is   *)
(* whole itself, and what is not, is written in front of it.               *)
LEMMA ByteKeepsConfig ==
  ASSUME MInv, WriteByte, ~wild
  PROVE  ConfigWhole(ReadConfig')
<1>1. /\ pc = "write" /\ eep \in [Addresses -> Bytes] /\ at \in Nat /\ at < Len(image)
      /\ dest \in Nat /\ image \in Seq(Bytes) /\ Len(image) \in Nat
      /\ eep' = [eep EXCEPT ![Target] = image[at + 1]]
  BY Sizes DEF WriteByte, MInv, TypeOK, Addresses
<1>2. /\ ConfigWhole(ReadConfig)
      /\ \/ dest = ConfigAt /\ Len(image) = ConfigSize /\ ConfigWhole(image)
         \/ dest + Len(image) <= ConfigAt
  BY <1>1 DEF MInv, ConfigTerminated, WriteInv
<1>3. /\ ConfigAt \in Nat /\ ConfigSize \in Nat /\ ConfigAt + ConfigSize <= EepSize
      /\ EepSize \in Nat
  BY Sizes, ConfigAddress DEF Addresses
<1>4. Target = dest + at
  BY <1>1, <1>2, <1>3 DEF Target
<1>5. /\ ReadConfig = [k \in 1 .. ConfigSize |-> eep[ConfigAt + k - 1]]
      /\ ReadConfig' = [k \in 1 .. ConfigSize |-> eep'[ConfigAt + k - 1]]
  BY DEF ReadConfig, Block
<1>6. ASSUME NEW k \in 1 .. ConfigSize
      PROVE  \/ ReadConfig'[k] = ReadConfig[k]
             \/ ReadConfig'[k] = image[k] /\ ConfigWhole(image)
  <2>1. ConfigAt + k - 1 \in Addresses
    BY <1>3 DEF Addresses
  <2>2. CASE Target = ConfigAt + k - 1
    <3>1. dest = ConfigAt /\ ConfigWhole(image) /\ at + 1 = k
      BY <2>2, <1>1, <1>2, <1>3, <1>4
    <3>2. eep'[ConfigAt + k - 1] = image[k]
      BY <2>1, <2>2, <3>1, <1>1
    <3> QED BY <3>1, <3>2, <1>5
  <2>3. CASE Target # ConfigAt + k - 1
    <3>1. eep'[ConfigAt + k - 1] = eep[ConfigAt + k - 1]
      BY <2>1, <2>3, <1>1
    <3> QED BY <3>1, <1>5
  <2> QED BY <2>2, <2>3
<1>7. SleepAt + 1 \in 1 .. ConfigSize
  BY Sizes
<1>8. \A f \in Fields : FieldAt[f] + FieldSize[f] \in 1 .. ConfigSize
  BY MessagesAssumption DEF MessagesAssumption
<1> QED BY <1>2, <1>6, <1>7, <1>8 DEF ConfigWhole, Terminated

LEMMA WriteByteInv == MInv /\ WriteByte => MInv'
<1> SUFFICES ASSUME MInv, WriteByte
             PROVE  MInv'
  OBVIOUS
<1>1. /\ pc = "write" /\ eep \in [Addresses -> Bytes]
      /\ at \in Nat /\ at < Len(image) /\ Len(image) \in Nat
      /\ image \in Seq(Bytes) /\ dest \in Addresses
      /\ msgIndex \in 0 .. Count - 1
      /\ config \in Seq(Bytes) /\ Len(config) = ConfigSize
  BY DEF WriteByte, MInv, TypeOK
<1>2. /\ eep' = [eep EXCEPT ![Target] = image[at + 1]]
      /\ fresh' = (fresh /\ Target \notin Slot(msgIndex))
      /\ UNCHANGED <<wild, msgIndex, selected, shown, to, writes, wrapVars>>
      /\ \/ /\ at + 1 < Len(image) /\ at' = at + 1
            /\ UNCHANGED <<pc, image, dest, config>>
         \/ /\ pc' = "idle" /\ image' = << >> /\ dest' = 0 /\ at' = 0
            /\ config' = IF dest = ConfigAt THEN ReadConfig' ELSE config
  BY DEF WriteByte
<1>3. Target \in Addresses /\ image[at + 1] \in Bytes /\ 0 \in Addresses
  BY <1>1, TargetRange, ConfigAddress, Sizes DEF Addresses
<1>4. eep' \in [Addresses -> Bytes]
  BY <1>1, <1>2, <1>3
<1>5. ReadConfig' \in Seq(Bytes) /\ Len(ReadConfig') = ConfigSize
  <2>1. \A k \in 1 .. ConfigSize : ConfigAt + k - 1 \in Addresses
    BY ConfigAddress, Sizes DEF Addresses
  <2>2. \A k \in 1 .. ConfigSize : eep'[ConfigAt + k - 1] \in Bytes
    BY <2>1, <1>4
  <2>3. ReadConfig' = [k \in 1 .. ConfigSize |-> eep'[ConfigAt + k - 1]]
    BY DEF ReadConfig, Block
  <2> QED BY <2>2, <2>3, Sizes
<1>6. config' \in Seq(Bytes) /\ Len(config') = ConfigSize
  BY <1>1, <1>2, <1>5
<1>7. fresh' \in BOOLEAN
  BY <1>2, Zenon
<1>8. TypeOK'
  <2>1. /\ msgIndex' \in 0 .. Count - 1
        /\ selected' \in Seq(Bytes) /\ Len(selected') <= MsgSize - 2
        /\ shown' \in Seq(Bytes) /\ to' \in {"radio", "screen"}
        /\ writes' \in 0 .. MaxWrites
        /\ text' \in Seq(Bytes) /\ raw' \in Seq(Bytes) /\ Len(raw') = Len(text')
    BY <1>2 DEF MInv, TypeOK, wrapVars
  <2>2. wild' \in BOOLEAN
    <3>1. wild \in BOOLEAN /\ wild' = wild
      BY <1>2 DEF MInv, TypeOK
    <3> QED BY <3>1, Zenon
  <2>3. /\ pc' \in {"off", "idle", "write", "wrap"} /\ pc' # "off"
        /\ image' \in Seq(Bytes) /\ dest' \in Addresses
        /\ at' \in 0 .. Len(image') /\ (pc' = "write" => at' < Len(image'))
    <3>1. CASE /\ at + 1 < Len(image) /\ at' = at + 1
               /\ UNCHANGED <<pc, image, dest, config>>
      BY <3>1, <1>1
    <3>2. CASE pc' = "idle" /\ image' = << >> /\ dest' = 0 /\ at' = 0
      <4>1. << >> \in Seq(Bytes) /\ 0 \in 0 .. Len(<< >>)
        OBVIOUS
      <4> QED BY <3>2, <4>1, <1>3
    <3> QED BY <3>1, <3>2, <1>2
  <2> QED BY <2>1, <2>2, <2>3, <1>4, <1>6, <1>7 DEF TypeOK
<1>9. WrapInv'
  BY <1>2, WrapFrame DEF MInv
<1>10. WriteInv'
  <2>1. CASE pc' = "idle"
    BY <2>1 DEF WriteInv
  <2>2. CASE UNCHANGED <<pc, image, dest, config>>
    BY <2>2, <1>2 DEF MInv, WriteInv, ConfigWhole, Terminated
  <2> QED BY <2>1, <2>2, <1>2
<1>11. SelectionCurrent'
  <2>1. shown' \in {Framed(selected'), Notice}
    BY <1>1, <1>2 DEF MInv, SelectionCurrent
  <2>2. ASSUME fresh'
        PROVE  selected' = Mark(Text(msgIndex))'
    <3>1. fresh /\ Target \notin Slot(msgIndex) /\ selected = Mark(Text(msgIndex))
      BY <2>2, <1>1, <1>2 DEF MInv, SelectionCurrent
    <3>2. ASSUME NEW k \in 1 .. MsgSize
          PROVE  eep'[msgIndex * MsgSize + k - 1] = eep[msgIndex * MsgSize + k - 1]
      <4>1. msgIndex * MsgSize \in Nat
        BY <1>1, SlotRange
      <4>2. msgIndex * MsgSize + k - 1 \in Slot(msgIndex)
        BY <4>1, Sizes DEF Slot
      <4> QED BY <4>2, <3>1, <1>1, <1>2
    <3>3. Block(msgIndex * MsgSize, MsgSize)' = Block(msgIndex * MsgSize, MsgSize)
      BY <3>2, <1>2 DEF Block
    <3> QED BY <3>1, <3>3, <1>2 DEF Text
  <2> QED BY <2>1, <2>2 DEF SelectionCurrent
<1>12. ConfigTerminated'
  <2>1. ASSUME ~wild
        PROVE  ConfigWhole(ReadConfig') /\ ConfigWhole(config')
    <3>1. ConfigWhole(ReadConfig')
      BY <2>1, ByteKeepsConfig
    <3>2. ConfigWhole(config)
      BY <2>1, <1>1 DEF MInv, ConfigTerminated
    <3> QED BY <3>1, <3>2, <1>2
  <2> QED BY <2>1, <1>2 DEF ConfigTerminated, ConfigWhole, Terminated
<1> QED BY <1>8, <1>9, <1>10, <1>11, <1>12 DEF MInv

(***************************************************************************)
(* The theorems.                                                           *)
(***************************************************************************)
LEMMA NextInv == MInv /\ [Next]_vars => MInv'
<1> SUFFICES ASSUME MInv, [Next]_vars
             PROVE  MInv'
  OBVIOUS
<1>1. CASE UNCHANGED vars
  <2>1. WrapInv'
    BY <1>1, WrapFrame DEF MInv, vars
  <2>2. TypeOK' /\ WriteInv' /\ SelectionCurrent' /\ ConfigTerminated'
    BY <1>1 DEF MInv, vars, store, selection, writing, wrapVars, TypeOK, WriteInv,
       SelectionCurrent, ConfigTerminated, ConfigWhole, Terminated, ReadConfig, Text, Block
  <2> QED BY <2>1, <2>2 DEF MInv
<1>2. CASE Next
  BY <1>2, BootInv, PowerLossInv, ShortPressInv, CancelInv, GestureInv, WrapTextInv,
     SendInv, StoreMessageInv, SetFieldInv, SetSleepInv, WriteByteInv DEF Next
<1> QED BY <1>1, <1>2

(* The invariant of the proofs holds. *)
THEOREM MessagesInvariant == Spec => []MInv
BY InitInv, NextInv, PTL DEF Spec

(* Every value keeps its type. *)
THEOREM MessagesTypes == Spec => []TypeOK
<1>1. MInv => TypeOK
  BY DEF MInv
<1> QED BY <1>1, MessagesInvariant, PTL

(* Whatever text is sent, its lines fit: main.c 784. *)
THEOREM LinesAlwaysFit == Spec => []LinesFit
<1>1. MInv => LinesFit
  BY WrapFits DEF MInv
<1> QED BY <1>1, MessagesInvariant, PTL

(* Breaking lines costs no letter as long as no word fills a line. *)
THEOREM NoLetterLost == Spec => []OnlySpacesLost
<1>1. MInv => OnlySpacesLost
  BY DEF MInv, WrapInv
<1> QED BY <1>1, MessagesInvariant, PTL

(* The selected text is the stored message it was taken from. *)
THEOREM SelectionAlwaysCurrent == Spec => []SelectionCurrent
<1>1. MInv => SelectionCurrent
  BY DEF MInv
<1> QED BY <1>1, MessagesInvariant, PTL

(* The strings of the configuration end, after any loss of power. *)
THEOREM ConfigAlwaysTerminated == Spec => []ConfigTerminated
<1>1. MInv => ConfigTerminated
  BY DEF MInv
<1> QED BY <1>1, MessagesInvariant, PTL

(* The loop that goes back ends. *)
THEOREM WrapAlwaysAdvances == Spec => WrapAdvances
<1>1. MInv /\ [Next]_vars => [WrapText => Advances]_vars
  BY WrapTextInv
<1> QED BY <1>1, MessagesInvariant, PTL DEF Spec, WrapAdvances

(* A press passes over no stored message. *)
THEOREM NothingEverSkipped == Spec => NothingSkipped
<1>1. ASSUME MInv, ShortPress, NEW k \in 1 .. Count - 1, Between(msgIndex, msgIndex', k)
      PROVE  Text(k) = << >>
  <2>1. msgIndex \in 0 .. Count - 1 /\ Count \in Nat \ {0}
    BY <1>1, Sizes DEF MInv, TypeOK
  <2>2. msgIndex' = FirstStored(NextOfPress)
    BY <1>1 DEF ShortPress, Select
  <2>3. NextOfPress \in 0 .. Count - 1
    BY <1>1, NextOfPressRange
  <2>4. ~Accepted(k)
    <3>1. CASE msgIndex >= Count - 1
      <4>1. NextOfPress = 0
        BY <3>1 DEF NextOfPress
      <4>2. Accepted(0)
        BY DEF Accepted
      <4>3. msgIndex' = 0
        BY <4>1, <4>2, <2>1, <2>2, <2>3, FirstStoredDef
      <4> QED BY <4>3, <3>1, <2>1, <1>1 DEF Between
    <3>2. CASE msgIndex < Count - 1
      <4>1. NextOfPress = msgIndex + 1
        BY <3>2, <2>1 DEF NextOfPress
      <4> QED BY <4>1, <2>1, <2>2, <2>3, <1>1, FirstStoredDef DEF Between
    <3> QED BY <3>1, <3>2, <2>1
  <2> QED BY <2>4 DEF Accepted
<1>2. MInv /\ [Next]_vars =>
        [ShortPress => \A k \in 1 .. Count - 1 :
                         Between(msgIndex, msgIndex', k) => Text(k) = << >>]_vars
  BY <1>1
<1> QED BY <1>2, MessagesInvariant, PTL DEF Spec, NothingSkipped
=============================================================================
