------------------------------ MODULE XBeeLink ------------------------------
(***************************************************************************)
(* The serial line between mug and radio module (xbee.c and its callers):  *)
(* the commands of the boot, each of which waits for one line, and the     *)
(* main loop, which reads a line as soon as a byte has come and blocks     *)
(* until its carriage return.  While the mug does something else, for up   *)
(* to half a second with interrupts disabled, nobody reads and bytes are   *)
(* overrun.  A byte is the message it belongs to and its place in it, the  *)
(* answers of the module being message 0.                                  *)
(***************************************************************************)
EXTENDS Uart, FiniteSets

CONSTANTS
  MinShown,       \* strlen(msg) >= 5
  MsgSize,        \* MUG_MAX_MESSAGE_SIZE, the size of msgReceive
  FrameText,      \* characters of a text that a display command takes
  BufferSize,     \* char buffer[128] of xbee.c
  Lengths,        \* of the messages other mugs send
  MaxMessages,    \* bound: messages from the radio
  MaxLost         \* bound: packets with a carriage return that are lost

(* An answer of the module has two characters: too few to be shown.  The    *)
(* longest message of a mug is a star, its name and the selected text, 78   *)
(* characters for a buffer of 128.  A display command takes 59, fewer than  *)
(* the 64 of msgReceive.                                                    *)
ASSUME XBeeLinkAssumption ==
  /\ MinShown \in Nat /\ MinShown > 2 /\ BufferSize \in Nat
  /\ MsgSize \in Nat /\ FrameText \in Nat /\ FrameText <= MsgSize
  /\ Lengths \subseteq Nat
  /\ \A n \in Lengths \union {2} : n > 0 /\ n + 2 < BufferSize
  /\ MaxMessages \in Nat /\ MaxLost \in Nat

VARIABLES
  phase,      \* what main is doing: send, answer (of the boot), loop, read, busy
  step,       \* the next, or current, step of the boot
  line,       \* what the module has still to send over the line
  fifo,       \* the receiver of the mug's port
  buffer,     \* xbee->buffer up to xbee->length
  received,   \* aMug.msgReceive, as far as the display will be given it
  sizes,      \* history: the lengths of the messages from the radio
  lost,       \* history: the messages whose carriage return was lost
  damaged     \* history: the messages that have lost a byte to an overrun

vars == <<phase, step, line, fifo, buffer, received, sizes, lost, damaged>>

Char(m, n) == [msg |-> m, at |-> n]
CR == 0                            \* the place of a carriage return
Answer == <<Char(0, 1), Char(0, 2), Char(0, CR)>>        \* "OK\r"
Chars(m, n) == [k \in 1 .. n |-> Char(m, k)]

(***************************************************************************)
(* mugInitializeXBee: enter command mode, ATDH with DL, ATMY, ATID, ATCH,  *)
(* ATCE, ATA1, one more line for the display, and ATCN.  The number is of  *)
(* the answers the module gives.  Mutant: DL is not sent along.            *)
(***************************************************************************)
DialogueWithoutDL == <<1, 1, 1, 1, 1, 1, 1, 0, 1>>
Dialogue == <<1, 2, 1, 1, 1, 1, 1, 0, 1>>
Answers(n) == IF n = 0 THEN << >> ELSE IF n = 1 THEN Answer ELSE Answer \o Answer

Init ==
  /\ phase = "send" /\ step = 1
  /\ line = << >> /\ fifo = << >> /\ buffer = << >> /\ received = << >>
  /\ sizes = << >> /\ lost = {} /\ damaged = {}

(* XBeeSendMessage: the command is out, XBeeWaitForResponse begins. *)
SendCommand ==
  /\ phase = "send"
  /\ phase' = "answer" /\ buffer' = << >>
  /\ line' = line \o Answers(Dialogue[step])
  /\ UNCHANGED <<step, fifo, received, sizes, lost, damaged>>

(* The loop of main sees a byte: XBeeRetrieveMessage.                       *)
(* Mutant: the buffer goes on where the last message ended.                 *)
StartOfBufferKept == buffer
StartOfBuffer == << >>
Poll ==
  /\ phase = "loop" /\ fifo # << >>
  /\ phase' = "read" /\ buffer' = StartOfBuffer
  /\ UNCHANGED <<step, line, fifo, received, sizes, lost, damaged>>

Reading == phase \in {"answer", "read"}

ReadByte ==
  /\ Reading /\ fifo # << >> /\ Head(fifo).at # CR
  /\ buffer' = Append(buffer, Head(fifo))
  /\ fifo' = Tail(fifo)
  /\ UNCHANGED <<phase, step, line, received, sizes, lost, damaged>>

(* The line read ends a step of the boot; the eighth sends nothing. *)
NextStep ==
  IF step = Len(Dialogue) THEN phase' = "loop" /\ UNCHANGED step
  ELSE /\ step' = step + 1
       /\ phase' = IF Dialogue[step + 1] = 0 THEN "answer" ELSE "send"

(* strncpy into msgReceive, and what OLEDConstructMessage passes on of it.  *)
(* A text of MsgSize or more has no end in msgReceive, and strlen runs on   *)
(* into what follows; but what is copied ends before that.                  *)
Kept(t) == IF Len(t) <= FrameText THEN t ELSE SubSeq(t, 1, FrameText)

ReadEnd ==
  /\ Reading /\ fifo # << >> /\ Head(fifo).at = CR
  /\ fifo' = Tail(fifo)
  /\ IF phase = "answer"
     THEN NextStep /\ buffer' = << >> /\ UNCHANGED received
     ELSE /\ phase' = "loop" /\ UNCHANGED <<step, buffer>>
          /\ received' = IF Len(buffer) >= MinShown THEN Kept(buffer) ELSE received
  /\ UNCHANGED <<line, sizes, lost, damaged>>

(* The rest of the loop: display commands, a gesture, the terminal. *)
GetBusy ==
  /\ phase = "loop" /\ phase' = "busy"
  /\ UNCHANGED <<step, line, fifo, buffer, received, sizes, lost, damaged>>
GetDone ==
  /\ phase = "busy" /\ phase' = "loop"
  /\ UNCHANGED <<step, line, fifo, buffer, received, sizes, lost, damaged>>

(* A message from the radio; its carriage return, sent on its own, may be   *)
(* in a packet that is lost.                                                *)
Radio(n) ==
  LET m == Len(sizes) + 1
  IN  /\ m <= MaxMessages
      /\ sizes' = Append(sizes, n)
      /\ \/ line' = line \o Chars(m, n) \o <<Char(m, CR)>> /\ UNCHANGED lost
         \/ /\ Cardinality(lost) < MaxLost
            /\ line' = line \o Chars(m, n) /\ lost' = lost \union {m}
      /\ UNCHANGED <<phase, step, fifo, buffer, received, damaged>>

(* A byte comes over the line: a millisecond each, in which a mug that is   *)
(* not busy has long read the one before.                                   *)
Arrive ==
  /\ line # << >>
  /\ phase \in {"send", "busy"} \/ fifo = << >>
  /\ fifo' = Receive(fifo, Head(line))
  /\ damaged' = IF Full(fifo) THEN damaged \union {fifo[Depth].msg} ELSE damaged
  /\ line' = Tail(line)
  /\ UNCHANGED <<phase, step, buffer, received, sizes, lost>>

Next ==
  \/ SendCommand \/ Poll \/ ReadByte \/ ReadEnd \/ GetBusy \/ GetDone
  \/ \E n \in Lengths : Radio(n)
  \/ Arrive

(* The processor goes on, and the module sends what it has. *)
Fairness ==
  /\ WF_vars(SendCommand) /\ WF_vars(Poll) /\ WF_vars(ReadByte) /\ WF_vars(ReadEnd)
  /\ WF_vars(GetDone) /\ WF_vars(Arrive)

Spec == Init /\ [][Next]_vars /\ Fairness

(***************************************************************************)
(* Properties.                                                             *)
(***************************************************************************)
Byte == [msg : 0 .. MaxMessages, at : Nat]

TypeOK ==
  /\ phase \in {"send", "answer", "loop", "read", "busy"}
  /\ step \in 1 .. Len(Dialogue)
  /\ \A s \in {line, fifo, buffer, received} : s \in Seq(Byte)
  /\ Len(fifo) <= Depth
  /\ Len(sizes) <= MaxMessages
  /\ lost \subseteq 1 .. Len(sizes) /\ damaged \subseteq 0 .. Len(sizes)

(* From wherever it is the mug comes back to its loop.  The boot ends:      *)
(* seven commands have eight answers between them, and the line too many is *)
(* taken for the display before the last command; whatever the radio brings *)
(* meanwhile, there is a line for every wait.  And the read of a message    *)
(* ends, whatever was overrun while nobody read.  Only a message without    *)
(* its end may keep the mug.                                                *)
ComesBack == phase # "loop" ~> (phase = "loop" \/ lost # {})

(* Without a lost end a line overruns no buffer, though the bytes of one    *)
(* message may be left standing in front of the next: at most two are.      *)
LineFits == lost = {} => Len(buffer) < BufferSize

(* What is shown of messages that came undamaged is one message, from its   *)
(* first character on, and as much of it as a display command takes; and it *)
(* is a message, never an answer of the module.                             *)
ShownWhole ==
  LET from == {received[k].msg : k \in DOMAIN received}
  IN  from \intersect (lost \union damaged) = {}
        => \A m \in from : m \in DOMAIN sizes /\ received = Kept(Chars(m, sizes[m]))
=============================================================================
