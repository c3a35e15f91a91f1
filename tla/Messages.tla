------------------------------ MODULE Messages ------------------------------
(***************************************************************************)
(* The stored messages: the EEPROM with its Count messages and the block   *)
(* of the configuration behind them, written byte by byte from the         *)
(* terminal and cut short when the power fails; the message the button     *)
(* selects and the display shows; the texts a gesture makes of it.         *)
(* Texts are sequences of character codes without NUL.                     *)
(***************************************************************************)
EXTENDS Wrap

CONSTANTS
  Count,              \* MUG_EMSG_COUNT
  MsgSize,            \* MUG_MAX_MESSAGE_SIZE
  FrameText,          \* characters of a text that a display command takes
  Fields, FieldAt, FieldSize,  \* the strings of mugConfig, their place and size
  SleepAt, ConfigSize,         \* sleepTime, and sizeof(mugConfig)
  EepSize,            \* bytes of EEPROM
  Texts,              \* what the user types as a message or a setting
  Indices,            \* what the user types as the number of a message
  Sleeps,             \* what the user types as a sleep time
  Junk,               \* what the stack may hold where msg[] comes to lie
  WildAddresses,      \* what is read as an address behind the end of eMugMsgs
  InitialEep,         \* the EEPROM as it was programmed
  MaxWrites           \* bound: writes from the terminal

ConfigAt == Count * MsgSize
Bytes == 0 .. 255
Addresses == 0 .. EepSize - 1

ASSUME MessagesAssumption ==
  /\ Count \in Nat \ {0} /\ MsgSize \in Nat /\ MsgSize > 4 /\ FrameText \in Nat
  /\ ConfigSize \in Nat /\ EepSize \in Nat /\ ConfigAt + ConfigSize <= EepSize
  /\ "name" \in Fields
  /\ FieldAt \in [Fields -> Nat] /\ FieldSize \in [Fields -> Nat \ {0}]
  /\ \A f \in Fields : FieldAt[f] + FieldSize[f] <= ConfigSize
  /\ \A f, g \in Fields : \/ f = g
                          \/ FieldAt[f] + FieldSize[f] <= FieldAt[g]
                          \/ FieldAt[g] + FieldSize[g] <= FieldAt[f]
  /\ SleepAt \in 0 .. ConfigSize - 1
  /\ \A f \in Fields : SleepAt \notin FieldAt[f] .. FieldAt[f] + FieldSize[f] - 1
  /\ Texts \subseteq Seq(Bytes \ {NUL}) /\ Sleeps \subseteq Nat /\ Indices \subseteq Nat
  /\ Junk \subseteq [1 .. MsgSize -> Bytes]
  /\ WildAddresses \subseteq Addresses
  /\ InitialEep \in [Addresses -> Bytes]
  /\ \A f \in Fields : InitialEep[ConfigAt + FieldAt[f] + FieldSize[f] - 1] = NUL
  /\ InitialEep[ConfigAt + SleepAt] # 0
  /\ MaxWrites \in Nat

VARIABLES
  eep,                  \* the EEPROM
  config,               \* aMug.config, byte by byte
  msgIndex, selected,   \* aMug.msgIndex and aMug.selectedMessage
  shown,                \* the display's line for the selected message
  pc,                   \* off, idle, write or wrap
  image, dest, at,      \* eeprom_write_block: what, where, how far
  to,                   \* who the text being wrapped is for: radio or screen
  fresh,                \* history: the selected slot is as it was selected
  wild,                 \* history: a message was stored behind eMugMsgs
  writes                \* bound

store == <<eep, wild>>
selection == <<msgIndex, selected, shown, fresh>>
writing == <<image, dest, at>>
vars == <<store, config, selection, pc, writing, to, writes, wrapVars>>

(***************************************************************************)
(* C strings in memory.                                                    *)
(***************************************************************************)
Cut(t, n) == IF Len(t) <= n THEN t ELSE SubSeq(t, 1, n)

(* The string at the start of a block of bytes. *)
StrLen(b) ==
  CHOOSE n \in 0 .. Len(b) :
    /\ \A k \in 1 .. n : b[k] # NUL
    /\ n < Len(b) => b[n + 1] = NUL
Str(b) == SubSeq(b, 1, StrLen(b))

(* snprintf(to, size, "%s", t): what follows the NUL stays as it was.       *)
(* Mutant: the text is copied without room for its end.                     *)
CopyFull(b, from, size, t) ==
  [k \in DOMAIN b |-> IF k - from \in 1 .. Len(Cut(t, size)) THEN t[k - from]
                      ELSE IF k - from = Len(Cut(t, size)) + 1 THEN NUL ELSE b[k]]
Copy(b, from, size, t) ==
  LET s == Cut(t, size - 1)
  IN  [k \in DOMAIN b |-> IF k - from \in 1 .. Len(s) THEN s[k - from]
                          ELSE IF k - from = Len(s) + 1 THEN NUL ELSE b[k]]

Block(address, n) == [k \in 1 .. n |-> eep[address + k - 1]]
Text(k) == Str(Block(k * MsgSize, MsgSize))     \* mugReadMessage(k)
ReadConfig == Block(ConfigAt, ConfigSize)

(***************************************************************************)
(* mugSelectMessage: the next stored message, or the empty one, number 0.  *)
(***************************************************************************)
GT == 62
MarkWhole(t) == <<GT, SPACE>> \o t      \* mutant: not cut
Mark(t) == Cut(<<GT, SPACE>> \o t, MsgSize - 2)

Accepted(k) == k = 0 \/ Text(k) # << >>
LastStored(from) == IF \E k \in from .. Count - 1 : Accepted(k)
                    THEN CHOOSE k \in from .. Count - 1 :
                           Accepted(k) /\ \A l \in k + 1 .. Count - 1 : ~Accepted(l)
                    ELSE 0
FirstStored(from) == IF \E k \in from .. Count - 1 : Accepted(k)
                     THEN CHOOSE k \in from .. Count - 1 :
                            Accepted(k) /\ \A l \in from .. k - 1 : ~Accepted(l)
                     ELSE 0

(* What OLEDConstructMessage passes on of a text: 59 characters, where the  *)
(* selection may have 62.                                                   *)
Framed(t) == Cut(t, FrameText)

(* Mutant: the index is taken from the press, not from the search. *)
SelectAsPressed(from) ==
  /\ msgIndex' = from
  /\ selected' = Mark(Text(FirstStored(from)))
  /\ shown' = Framed(selected')
  /\ fresh' = TRUE
Select(from) ==
  /\ msgIndex' = FirstStored(from)
  /\ selected' = Mark(Text(FirstStored(from)))
  /\ shown' = Framed(selected')
  /\ fresh' = TRUE

Init ==
  /\ eep = InitialEep /\ wild = FALSE /\ writes = 0
  /\ pc = "off"
  /\ config = << >> /\ msgIndex = 0 /\ selected = << >> /\ shown = << >> /\ fresh = FALSE
  /\ image = << >> /\ dest = 0 /\ at = 0 /\ to = "radio"
  /\ raw = << >> /\ text = << >> /\ i = 1 /\ j = 0 /\ foundSpace = 0 /\ lineStart = 0

(* main up to its loop: mugReadConfig, mugSelectMessage, the selection shown. *)
Boot ==
  /\ pc = "off" /\ pc' = "idle"
  /\ config' = ReadConfig
  /\ Select(0)
  /\ UNCHANGED <<store, writing, to, writes, wrapVars>>

(* The power fails, in the middle of a write too: what is written stays. *)
PowerLoss ==
  /\ pc # "off" /\ pc' = "off"
  /\ config' = << >> /\ msgIndex' = 0 /\ selected' = << >> /\ shown' = << >> /\ fresh' = FALSE
  /\ image' = << >> /\ dest' = 0 /\ at' = 0 /\ to' = "radio"
  /\ StartWrap(<< >>)
  /\ UNCHANGED <<store, writes>>

(* mugHandleShortButtonPress, in the states that select. *)
NextOfPress == IF msgIndex >= Count - 1 THEN 0 ELSE msgIndex + 1
ShortPress ==
  /\ pc = "idle"
  /\ Select(NextOfPress)
  /\ UNCHANGED <<store, config, pc, writing, to, writes, wrapVars>>

(* mugPowerDown(0) writes its notice where the selection is shown. *)
Notice == <<33>>
CancelShutdown ==
  /\ pc = "idle"
  /\ shown' = Notice
  /\ UNCHANGED <<store, config, msgIndex, selected, fresh, pc, writing, to, writes, wrapVars>>

(***************************************************************************)
(* mugSendMessage: two texts, wrapped one after the other.                 *)
(***************************************************************************)
Field(f) == Str(SubSeq(config, FieldAt[f] + 1, FieldAt[f] + FieldSize[f]))
RadioText == <<42>> \o Field("name") \o selected      \* "*%s%s"
ScreenText == <<47, 109, 101>> \o selected            \* "/me%s"

Gesture ==
  /\ pc = "idle" /\ msgIndex # 0
  /\ pc' = "wrap" /\ to' = "radio"
  /\ StartWrap(RadioText)
  /\ UNCHANGED <<store, config, selection, writing, writes>>

WrapText ==
  /\ pc = "wrap" /\ WrapStep
  /\ UNCHANGED <<store, config, selection, pc, writing, to, writes>>

Send ==
  /\ pc = "wrap" /\ ~Wrapping
  /\ IF to = "radio"
     THEN to' = "screen" /\ StartWrap(ScreenText) /\ UNCHANGED pc
     ELSE pc' = "idle" /\ UNCHANGED <<to, wrapVars>>
  /\ UNCHANGED <<store, config, selection, writing, writes>>

(***************************************************************************)
(* Writes from the terminal.                                               *)
(***************************************************************************)
WriteBlock(address, block) ==
  /\ pc = "idle" /\ pc' = "write"
  /\ writes < MaxWrites /\ writes' = writes + 1
  /\ dest' = address /\ image' = block /\ at' = 0

(* m w index text.  The index is an int of 16 bits, which atoi overflows;  *)
(* its check lets Count and every negative number through, and what is     *)
(* left of it is a byte.  Behind the end of eMugMsgs the address is what   *)
(* happens to lie there in memory, under Count the first two characters of *)
(* the message read last.                                                  *)
Int16(n) == IF n % 65536 < 32768 THEN n % 65536 ELSE (n % 65536) - 65536
IndexRefused(n) == Int16(n) > Count
StoreMessage(n, t) ==
  /\ pc = "idle" /\ ~IndexRefused(n)
  /\ \E junk \in Junk :
       LET block == Copy(junk, 0, MsgSize - 1, t)
           k == Int16(n) % 256
       IN  \/ k < Count /\ WriteBlock(k * MsgSize, block) /\ UNCHANGED wild
           \/ k >= Count /\ wild' = TRUE
              /\ \E a \in WildAddresses : WriteBlock(a, block)
  /\ UNCHANGED <<eep, config, selection, to, wrapVars>>

(* g n s, g i s, g p s, g c s: the field in memory, then the whole block. *)
SetField(f, t) ==
  /\ pc = "idle"
  /\ config' = Copy(config, FieldAt[f], FieldSize[f], t)
  /\ WriteBlock(ConfigAt, config')
  /\ UNCHANGED <<store, selection, to, wrapVars>>

(* g s s: an 8-bit number, 0 refused. *)
SleepValue(n) == n % 256
SleepRefused(n) == SleepValue(n) = 0
SetSleep(n) ==
  /\ pc = "idle" /\ ~SleepRefused(n)
  /\ config' = [config EXCEPT ![SleepAt + 1] = SleepValue(n)]
  /\ WriteBlock(ConfigAt, config')
  /\ UNCHANGED <<store, selection, to, wrapVars>>

(* One byte of eeprom_write_block, erased and written in one: a failure of  *)
(* the power leaves it old or new.  Behind the last one of the              *)
(* configuration mugReadConfig.                                             *)
Target == IF dest + at < EepSize THEN dest + at ELSE dest + at - EepSize
Slot(k) == k * MsgSize .. k * MsgSize + MsgSize - 1
WriteByte ==
  /\ pc = "write"
  /\ eep' = [eep EXCEPT ![Target] = image[at + 1]]
  /\ fresh' = (fresh /\ Target \notin Slot(msgIndex))
  /\ IF at + 1 < Len(image)
     THEN at' = at + 1 /\ UNCHANGED <<pc, image, dest, config>>
     ELSE /\ pc' = "idle" /\ image' = << >> /\ dest' = 0 /\ at' = 0
          /\ config' = IF dest = ConfigAt THEN ReadConfig' ELSE config
  /\ UNCHANGED <<wild, msgIndex, selected, shown, to, writes, wrapVars>>

Next ==
  \/ Boot \/ PowerLoss \/ ShortPress \/ CancelShutdown
  \/ Gesture \/ WrapText \/ Send
  \/ \E n \in Indices, t \in Texts : StoreMessage(n, t)
  \/ \E f \in Fields, t \in Texts : SetField(f, t)
  \/ \E n \in Sleeps : SetSleep(n)
  \/ WriteByte

Spec == Init /\ [][Next]_vars

(***************************************************************************)
(* Properties.                                                             *)
(***************************************************************************)
TypeOK ==
  /\ eep \in [Addresses -> Bytes] /\ wild \in BOOLEAN
  /\ config \in Seq(Bytes) /\ Len(config) = (IF pc = "off" THEN 0 ELSE ConfigSize)
  /\ msgIndex \in 0 .. Count - 1
  /\ selected \in Seq(Bytes) /\ Len(selected) <= MsgSize - 2
  /\ shown \in Seq(Bytes) /\ fresh \in BOOLEAN
  /\ pc \in {"off", "idle", "write", "wrap"}
  /\ image \in Seq(Bytes) /\ dest \in Addresses
  /\ at \in 0 .. Len(image) /\ (pc = "write" => at < Len(image))
  /\ to \in {"radio", "screen"} /\ writes \in 0 .. MaxWrites
  /\ text \in Seq(Bytes) /\ raw \in Seq(Bytes) /\ Len(raw) = Len(text)

(* While the mug is on, the selected text is the message of the slot whose *)
(* number is kept, if that slot was not written since; and the display     *)
(* shows as much of the selected text as a frame takes, or the notice that *)
(* a shutdown was cancelled.  Through presses, writes, failures of power   *)
(* and boots.                                                              *)
SelectionCurrent ==
  pc # "off" => /\ fresh => selected = Mark(Text(msgIndex))
                /\ shown \in {Framed(selected), Notice}

(* A press passes over no stored message: whatever lies between the        *)
(* selection it leaves and the one it comes to, around the end, is empty.  *)
Between(a, b, k) == IF a < b THEN a < k /\ k < b ELSE a < k \/ k < b
NothingSkipped ==
  [][ShortPress => \A k \in 1 .. Count - 1 :
                     Between(msgIndex, msgIndex', k) => Text(k) = << >>]_vars

(* Unless a message was stored behind the end of eMugMsgs, every           *)
(* string of the configuration ends inside its field and the sleep time is *)
(* not zero: in memory, and in the EEPROM after any loss of power.         *)
Terminated(b, f) == b[FieldAt[f] + FieldSize[f]] = NUL
ConfigWhole(b) == b[SleepAt + 1] # 0 /\ \A f \in Fields : Terminated(b, f)
ConfigTerminated ==
  ~wild => ConfigWhole(ReadConfig) /\ (pc # "off" => ConfigWhole(config))

(* Each step of the wrap gets further. *)
WrapAdvances == [][WrapText => Advances]_vars
=============================================================================
