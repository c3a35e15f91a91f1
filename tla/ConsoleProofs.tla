---------------------------- MODULE ConsoleProofs ----------------------------
(***************************************************************************)
(* Proofs about Console, for every size of the terminal's buffer, lines    *)
(* and line ends of the host, commands and numbers of garbled bytes: each  *)
(* command gets its own answer and the terminal carries out whole lines    *)
(* until an answer is disturbed; and where nothing disturbs one, display   *)
(* and mug implement Commands.                                             *)
(***************************************************************************)
EXTENDS Console, FiniteSetTheorems, WellFoundedInduction, SequenceTheorems, TLAPS

(***************************************************************************)
(* Who sends what.                                                         *)
(***************************************************************************)
Lines == DOMAIN LineLengths
HostByte(l, n) ==
  Byte("host", l, n, IF n <= LineLengths[l] THEN LETTER ELSE end[n - LineLengths[l]])

HostBytes ==
  {b \in [from : {"host"}, id : Lines, at : Nat, val : {LETTER, NL, CR}] :
     b.at \in 1 .. LineLengths[b.id] + Len(end) /\ b = HostByte(b.id, b.at)}
Heard == HostBytes \union {Byte("display", 0, 0, LETTER), Byte("display", 0, 0, NL)}
MugBytes == [from : {"mug"}, id : Nat, at : {0}, val : Nat]

(* The last byte of a line of the display, and no other, is its end. *)
Ends(s, k) == s[k].val = NL <=> k = Len(s)

MugTypes ==
  /\ pc \in {"loop", "flushed", "output", "send", "wait"}
  /\ mode \in {"idle", "terminal", "leaving"}
  /\ mux \in {"oled", "host"} /\ back \in {"oled", "host"}
  /\ pc = "send" <=> frame # << >>
  /\ pc \in {"send", "wait"} => mux = "oled"
  /\ frame \in Seq(MugBytes) /\ tx \in Seq(MugBytes) /\ Len(tx) <= 2
QueueTypes ==
  /\ fifo \in Seq(Heard) /\ buf \in Seq(Heard)
  /\ Len(fifo) <= Depth /\ Len(buf) <= BufferSize
  /\ \A k \in 1 .. Len(buf) : buf[k].val \notin {NL, CR}
DisplayTypes ==
  /\ pack \in Seq(MugBytes) /\ reply \in Seq(Heard)
  /\ \A k \in 1 .. Len(reply) : reply[k].from = "display"
  /\ disp \in {"hunt", "pack", "full", "answer"} /\ (disp = "full" => pack # << >>)
  /\ comError \in BOOLEAN
HostTypes ==
  /\ end \in LineEnds /\ typed[1] \in 1 .. Len(LineLengths) + 1 /\ typed[2] \in Nat
  /\ IF typed[1] \in Lines THEN typed[2] < LineLengths[typed[1]] + Len(end) ELSE typed[2] = 0
HistoryTypes ==
  /\ sent \in 0 .. MaxCommands /\ done \in Seq(Nat) /\ errors \in 0 .. MaxErrors
  /\ disturbed \in BOOLEAN

TypesInv == MugTypes /\ QueueTypes /\ DisplayTypes /\ HostTypes /\ HistoryTypes

(***************************************************************************)
(* The exchange with the display.                                          *)
(***************************************************************************)
FrameOf(p, n) ==
  LET bytes == <<DOLLAR, Len(p) + 1>> \o p \o <<(256 - (Sum(p) % 256)) % 256>>
  IN  [k \in DOMAIN bytes |-> Byte("mug", n, 0, bytes[k])]

Wire == tx \o frame
Junk(b) == b.id = 0 /\ b.val # DOLLAR
HostOnly == \A k \in 1 .. Len(fifo) : fifo[k].from = "host"
Answered == sent = 0 \/ (done # << >> /\ done[Len(done)] = sent)

(* The mug does something else: nothing but the terminal's text is on its   *)
(* way, and the display waits for a command.                                *)
AtRest ==
  /\ ~comError /\ reply = << >> /\ disp = "hunt"
  /\ \A k \in 1 .. Len(tx) : Junk(tx[k])
  /\ HostOnly /\ Answered

(* The frame is on its way, and i of its bytes have come; if that is less   *)
(* than none, text of the terminal comes first.                             *)
OnItsWay(f, i) ==
  /\ i <= Len(f) /\ Len(Wire) = Len(f) - i
  /\ \A k \in 1 .. Len(Wire) : IF i + k >= 1 THEN Wire[k] = f[i + k] ELSE Junk(Wire[k])
  /\ disp = IF i <= 0 THEN "hunt" ELSE IF i < Len(f) THEN "pack" ELSE "full"
  /\ i >= 1 => Len(pack) = i - 1 /\ \A k \in 1 .. Len(pack) : pack[k] = f[k + 1]
Asked ==
  /\ ~comError /\ reply = << >> /\ HostOnly /\ sent > 0
  /\ \E p \in Payloads : \E i \in Int : OnItsWay(FrameOf(p, sent), i)
  /\ \A k \in 1 .. Len(done) : done[k] < sent

(* The answer is on its way: some of it is to come, or its end has come. *)
Answering ==
  /\ pc = "wait" /\ ~comError /\ Answered /\ tx = << >>
  /\ \/ /\ reply # << >> /\ disp \in {"hunt", "answer"}
        /\ \A k \in 1 .. Len(reply) : Ends(reply, k)
        /\ HostOnly \/ (Len(fifo) = 1 /\ fifo[1].val # NL)
     \/ /\ reply = << >> /\ disp = "hunt"
        /\ Len(fifo) = 1 /\ fifo[1].from = "display" /\ fifo[1].val = NL

Carried == \A k \in 1 .. Len(done) : done[k] \in 1 .. sent
HostLine == \A k \in 1 .. Len(buf) : buf[k].from = "host"

ExchangeInv ==
  ~disturbed => /\ IF pc \in {"send", "wait"} THEN Asked \/ Answering ELSE AtRest
                /\ Carried /\ HostLine

(***************************************************************************)
(* The lines of the host.                                                  *)
(***************************************************************************)
Earlier(l, n, m, q) == l < m \/ (l = m /\ n < q)
Before(a, b) == Earlier(a.id, a.at, b.id, b.at)
Placed(u) == \A k \in 1 .. Len(u) : u[k].id \in Lines /\ u[k].at \in Nat /\ u[k].at > 0

(* The letters and the carriage return are the bytes that count. *)
Key(l, n) == l \in Lines /\ n \in 1 .. LineLengths[l] + 1
Fine(l, lost) == l \notin lost /\ (l - 1) \notin lost
Boundary(n) == \E t \in 0 .. n : n - 1 = t * BufferSize

(* Bytes are in order, and c is to come behind them. *)
Ordered(u, c) ==
  /\ \A k \in 1 .. Len(u) : Before(u[k], c)
  /\ \A j \in 1 .. Len(u), k \in 1 .. Len(u) : j < k => Before(u[j], u[k])

(* A byte that is missing between them has damaged its line. *)
NoGap(u, c, lost) ==
  \A k \in 1 .. Len(u) : \A l \in Lines : \A n \in 1 .. LineLengths[l] + 1 :
    Earlier(u[k].id, u[k].at, l, n) /\ Earlier(l, n, c.id, c.at) =>
      l \in lost \/ \E j \in 1 .. Len(u) : u[j].id = l /\ u[j].at = n

(* What was taken away before them is whole buffers of a line. *)
First(u, c) == IF Len(u) = 0 THEN c ELSE u[1]
WellBegun(b, lost) == Key(b.id, b.at) /\ Fine(b.id, lost) => Boundary(b.at)

(* The terminal's line is a piece of one line and starts where it may. *)
OneLine(u, lost) ==
  \A j \in 1 .. Len(u) : Fine(u[j].id, lost) =>
    /\ \A k \in 1 .. Len(u) : u[k].id = u[j].id /\ u[k].at = u[1].at + k - 1
    /\ Boundary(u[1].at)

(* What the mug has of the lines, and the byte to be typed next. *)
LineFrom(b, f) == IF \A k \in 1 .. Len(f) : f[k].from = "host" THEN b \o f ELSE b
Line == LineFrom(buf, fifo)
Coming == [id |-> typed[1], at |-> typed[2] + 1]

LinesInv ==
  ~disturbed => /\ Ordered(Line, Coming) /\ NoGap(Line, Coming, damaged)
                /\ WellBegun(First(Line, Coming), damaged) /\ OneLine(buf, damaged)

ConsoleInv == TypesInv /\ ExchangeInv /\ LinesInv /\ RunsWholeLines
-----------------------------------------------------------------------------
(***************************************************************************)
(* The sum of a sequence of bytes.                                         *)
(***************************************************************************)

(* A set of numbers that has a member has a least one. *)
LEMMA LeastNumber ==
  ASSUME NEW A \in SUBSET Nat, NEW n \in A
  PROVE  \E m \in A : \A k \in A : m <= k
<1> DEFINE Below(s) == 0 .. s
           D == {Below(s) : s \in A}
<1>1. D # {} /\ D \subseteq FiniteSubsetsOf(Nat)
  <2>1. \A s \in A : IsFiniteSet(Below(s)) /\ Below(s) \in SUBSET Nat
    BY FS_Interval
  <2> QED BY <2>1 DEF FiniteSubsetsOf
<1>2. PICK x \in D : \A y \in D : <<y, x>> \notin StrictSubsetOrdering(Nat)
  BY <1>1, FS_StrictSubsetOrderingWellFounded, WFMin
<1>3. PICK m \in A : x = Below(m)
  BY <1>2
<1>4. ASSUME NEW k \in A, k < m
      PROVE  FALSE
  <2>1. Below(k) \subseteq Below(m) /\ m \in Below(m) /\ m \notin Below(k)
    BY <1>4
  <2>2. <<Below(k), Below(m)>> \in StrictSubsetOrdering(Nat)
    BY <2>1 DEF StrictSubsetOrdering
  <2> QED BY <1>2, <1>3, <2>2
<1> QED BY <1>4

IsSums(s, n, g) ==
  /\ g \in [0 .. n -> Nat] /\ g[0] = 0
  /\ \A k \in 1 .. n : g[k] = g[k - 1] + s[k]

(* The loop comes to the end of every sequence. *)
LEMMA SumsExist ==
  ASSUME NEW s \in Seq(Nat)
  PROVE  \A n \in 0 .. Len(s) : \E g : IsSums(s, n, g)
<1> DEFINE A == {n \in 0 .. Len(s) : ~ \E g : IsSums(s, n, g)}
<1>1. SUFFICES ASSUME A # {} PROVE FALSE
  OBVIOUS
<1>2. PICK m \in A : \A k \in A : m <= k
  <2>1. A \in SUBSET Nat
    OBVIOUS
  <2> QED BY <1>1, <2>1, LeastNumber
<1>3. m # 0
  <2>1. IsSums(s, 0, [k \in 0 .. 0 |-> 0])
    BY DEF IsSums
  <2> QED BY <1>2, <2>1
<1>4. PICK g : IsSums(s, m - 1, g)
  <2>1. m - 1 \in 0 .. Len(s) /\ ~(m <= m - 1)
    BY <1>2, <1>3
  <2> QED BY <1>2, <2>1
<1> DEFINE h == [k \in 0 .. m |-> IF k = m THEN g[m - 1] + s[m] ELSE g[k]]
<1>5. m \in 1 .. Len(s) /\ s[m] \in Nat /\ g[m - 1] \in Nat
  BY <1>2, <1>3, <1>4 DEF IsSums
<1>6. IsSums(s, m, h)
  <2>1. h \in [0 .. m -> Nat] /\ h[0] = 0
    BY <1>4, <1>5 DEF IsSums
  <2>2. ASSUME NEW k \in 1 .. m PROVE h[k] = h[k - 1] + s[k]
    <3>1. /\ k \in 0 .. m /\ k - 1 \in 0 .. m /\ k - 1 # m
          /\ h[k - 1] = g[k - 1] /\ h[k] = IF k = m THEN g[m - 1] + s[m] ELSE g[k]
      BY <1>5
    <3>2. k # m => k \in 1 .. m - 1 /\ g[k] = g[k - 1] + s[k]
      BY <1>4, <1>5 DEF IsSums
    <3> QED BY <3>1, <3>2
  <2> QED BY <2>1, <2>2 DEF IsSums
<1> QED BY <1>2, <1>6

(* Sums is it. *)
LEMMA SumsAre ==
  ASSUME NEW s \in Seq(Nat)
  PROVE  IsSums(s, Len(s), Sums(s))
<1> DEFINE F(g) == [k \in 0 .. Len(s) |-> IF k = 0 THEN 0 ELSE g[k - 1] + s[k]]
<1>1. PICK g : IsSums(s, Len(s), g)
  BY SumsExist
<1>2. g = F(g)
  BY <1>1 DEF IsSums
<1>3. Sums(s) = CHOOSE f : f = F(f)
  BY DEF Sums
<1> DEFINE t == Sums(s)
<1>4. t = F(t)
  BY <1>2, <1>3
<1> HIDE DEF t
<1>5. t[0] = 0 /\ (\A k \in 1 .. Len(s) : t[k] = t[k - 1] + s[k]) /\ DOMAIN t = 0 .. Len(s)
  BY <1>4
<1>6. \A k \in 0 .. Len(s) : t[k] \in Nat
  <2> DEFINE A == {k \in 0 .. Len(s) : t[k] \notin Nat}
  <2>1. SUFFICES ASSUME A # {} PROVE FALSE
    OBVIOUS
  <2>2. PICK m \in A : \A k \in A : m <= k
    <3>1. A \in SUBSET Nat
      OBVIOUS
    <3> QED BY <2>1, <3>1, LeastNumber
  <2>3. m # 0
    BY <1>5, <2>2
  <2>4. m - 1 \in 0 .. Len(s) /\ m - 1 \notin A /\ m \in 1 .. Len(s)
    BY <2>2, <2>3
  <2> QED BY <1>5, <2>2, <2>4
<1>7. t \in [0 .. Len(s) -> Nat]
  <2>1. t = [k \in 0 .. Len(s) |-> t[k]]
    BY <1>4
  <2> QED BY <1>6, <2>1
<1> QED BY <1>5, <1>7 DEF t, IsSums

(* One byte more. *)
LEMMA SumAppend ==
  ASSUME NEW s \in Seq(Nat), NEW n \in Nat
  PROVE  Sum(s) \in Nat /\ Sum(Append(s, n)) = Sum(s) + n
<1> DEFINE u == Append(s, n)
           f == Sums(s)
           g == Sums(u)
<1>1. u \in Seq(Nat) /\ Len(u) = Len(s) + 1 /\ u[Len(s) + 1] = n /\ Len(s) \in Nat
      /\ \A k \in 1 .. Len(s) : u[k] = s[k]
  BY AppendProperties
<1>2. IsSums(s, Len(s), f) /\ IsSums(u, Len(s) + 1, g)
  BY <1>1, SumsAre
<1> HIDE DEF u, f, g
<1>3. \A k \in 0 .. Len(s) : f[k] = g[k]
  <2> DEFINE A == {k \in 0 .. Len(s) : f[k] # g[k]}
  <2>1. SUFFICES ASSUME A # {} PROVE FALSE
    OBVIOUS
  <2>2. PICK m \in A : \A k \in A : m <= k
    <3>1. A \in SUBSET Nat
      BY <1>1
    <3> QED BY <2>1, <3>1, LeastNumber
  <2>3. m # 0
    BY <1>2, <2>2 DEF IsSums
  <2>4. m - 1 \in 0 .. Len(s) /\ m - 1 \notin A /\ m \in 1 .. Len(s)
    BY <1>1, <2>2, <2>3
  <2>5. f[m] = f[m - 1] + s[m] /\ g[m] = g[m - 1] + u[m] /\ u[m] = s[m]
    BY <1>1, <1>2, <2>4 DEF IsSums
  <2> QED BY <2>2, <2>4, <2>5
<1>4. f[Len(s)] \in Nat /\ g[Len(s) + 1] = g[Len(s)] + n
  <2>1. Len(s) + 1 \in 1 .. Len(s) + 1 /\ (Len(s) + 1) - 1 = Len(s) /\ Len(s) \in 0 .. Len(s)
    BY <1>1
  <2>2. g[Len(s) + 1] = g[(Len(s) + 1) - 1] + u[Len(s) + 1]
    BY <1>2, <2>1 DEF IsSums
  <2>3. f[Len(s)] \in Nat
    BY <1>2, <2>1 DEF IsSums
  <2> QED BY <1>1, <2>1, <2>2, <2>3
<1>5. g[Len(u)] = f[Len(s)] + n
  BY <1>1, <1>3, <1>4
<1> QED BY <1>4, <1>5 DEF Sum, u, f, g
-----------------------------------------------------------------------------
(***************************************************************************)
(* Bytes and frames.                                                       *)
(***************************************************************************)

(* What the assumption says of the constants. *)
LEMMA Constants ==
  /\ BufferSize \in Nat /\ BufferSize > 0 /\ MaxCommands \in Nat /\ MaxErrors \in Nat
  /\ LineLengths \in Seq(Nat \ {0})
  /\ \A l \in Lines : LineLengths[l] \in Nat /\ LineLengths[l] > 0
  /\ Lines = 1 .. Len(LineLengths)
BY ConsoleAssumption DEF ConsoleAssumption, Lines

(* What the host may end a line with. *)
LEMMA EndIs ==
  ASSUME end \in LineEnds
  PROVE  end[1] = CR /\ Len(end) \in 1 .. 2 /\ (Len(end) = 2 => end[2] = NL)
BY ConsoleAssumption DEF ConsoleAssumption

(* Behind the letters of a line there are one or two bytes. *)
LEMMA EndCases ==
  ASSUME NEW n \in Nat, NEW k \in Nat, NEW e \in 1 .. 2, n \in 1 .. k + e
  PROVE  n > k => n - k = 1 \/ (n - k = 2 /\ e = 2)
<1>1. CASE e = 1
  BY <1>1
<1>2. CASE e = 2
  BY <1>2
<1> QED BY <1>1, <1>2

(* What a byte is that the mug hears. *)
LEMMA HeardIs ==
  ASSUME end \in LineEnds, NEW b \in Heard
  PROVE  /\ b.from \in {"host", "display"} /\ b.val \in Nat /\ b.val \in {LETTER, NL, CR}
         /\ b.from = "display" => b.val # CR
         /\ b.from = "host" =>
              /\ b.id \in Lines /\ b.id \in Nat /\ b.at \in Nat
              /\ b.at \in 1 .. LineLengths[b.id] + Len(end)
              /\ b = HostByte(b.id, b.at)
              /\ b.val = LETTER <=> b.at <= LineLengths[b.id]
              /\ b.val = CR <=> b.at = LineLengths[b.id] + 1
              /\ b.val = NL <=> b.at > LineLengths[b.id] + 1
<1>1. CASE b \in {Byte("display", 0, 0, LETTER), Byte("display", 0, 0, NL)}
  BY <1>1 DEF Byte, LETTER, NL, CR
<1>2. CASE b \in HostBytes
  <2> DEFINE l == b.id
             n == b.at
  <2>1. /\ b.from = "host" /\ l \in Lines /\ n \in Nat /\ b.val \in {LETTER, NL, CR}
        /\ n \in 1 .. LineLengths[l] + Len(end) /\ b = HostByte(l, n)
    BY <1>2 DEF HostBytes
  <2>2. b.val = IF n <= LineLengths[l] THEN LETTER ELSE end[n - LineLengths[l]]
    BY <2>1 DEF HostByte, Byte
  <2> HIDE DEF l, n
  <2>3. LineLengths[l] \in Nat /\ Len(end) \in Nat /\ Len(end) \in 1 .. 2 /\ l \in Nat
    BY <2>1, Constants, EndIs
  <2>4. n > LineLengths[l] => n - LineLengths[l] = 1 \/ (n - LineLengths[l] = 2 /\ Len(end) = 2)
    BY <2>1, <2>3, EndCases
  <2>5. /\ b.val = LETTER <=> n <= LineLengths[l]
        /\ b.val = CR <=> n = LineLengths[l] + 1
        /\ b.val = NL <=> n > LineLengths[l] + 1
    BY <2>1, <2>2, <2>3, <2>4, EndIs DEF LETTER, NL, CR
  <2> QED BY <2>1, <2>3, <2>5 DEF l, n, LETTER, NL, CR
<1> QED BY <1>1, <1>2 DEF Heard

(* The other direction. *)
LEMMA HostByteHeard ==
  ASSUME end \in LineEnds, NEW l \in Lines, NEW n \in 1 .. LineLengths[l] + Len(end)
  PROVE  HostByte(l, n) \in Heard /\ HostByte(l, n).from = "host"
         /\ HostByte(l, n).id = l /\ HostByte(l, n).at = n
<1>1. LineLengths[l] \in Nat /\ Len(end) \in Nat /\ Len(end) \in 1 .. 2
  BY Constants, EndIs
<1>2. n \in Nat /\ n <= LineLengths[l] + Len(end)
  BY <1>1
<1>3. n > LineLengths[l] => n - LineLengths[l] = 1 \/ (n - LineLengths[l] = 2 /\ Len(end) = 2)
  BY <1>1, <1>2, EndCases
<1>4. (IF n <= LineLengths[l] THEN LETTER ELSE end[n - LineLengths[l]]) \in {LETTER, NL, CR}
  <2>1. n <= LineLengths[l] \/ n > LineLengths[l]
    BY <1>1, <1>2
  <2>2. n > LineLengths[l] => ~(n <= LineLengths[l])
    BY <1>1, <1>2
  <2>3. CASE n > LineLengths[l]
    <3>1. end[n - LineLengths[l]] \in {NL, CR}
      BY <1>3, <2>3, EndIs
    <3> QED BY <2>2, <2>3, <3>1
  <2> QED BY <2>1, <2>3
<1> QED BY <1>2, <1>4 DEF Heard, HostBytes, HostByte, Byte

(* What OLEDConstructMessage makes. *)
LEMMA FrameIs ==
  ASSUME NEW p \in Payloads, NEW n \in Nat
  PROVE  /\ FrameOf(p, n) \in Seq(MugBytes) /\ Len(FrameOf(p, n)) = Len(p) + 3
         /\ p \in Seq(Nat) /\ Len(p) \in Nat /\ Len(p) > 0 /\ Constructed(p)
         /\ \A k \in 1 .. Len(p) + 3 : FrameOf(p, n)[k].id = n
         /\ FrameOf(p, n)[1].val = DOLLAR /\ FrameOf(p, n)[2].val = Len(p) + 1
         /\ \A k \in 1 .. Len(p) : FrameOf(p, n)[k + 2].val = p[k]
         /\ \E c \in Nat : FrameOf(p, n)[Len(p) + 3].val = c /\ (Sum(p) + c) % 256 = 0
<1> DEFINE c == (256 - (Sum(p) % 256)) % 256
           bytes == <<DOLLAR, Len(p) + 1>> \o p \o <<c>>
<1>1. p \in Seq(0 .. 255) /\ Constructed(p)
  BY ConsoleAssumption DEF ConsoleAssumption
<1>2. p \in Seq(Nat) /\ Len(p) \in Nat /\ Len(p) > 0
  <2>1. p \in Seq(Nat)
    <3>1. (0 .. 255) \subseteq Nat
      OBVIOUS
    <3>2. ASSUME NEW S, S \subseteq Nat, p \in Seq(S)
          PROVE  p \in Seq(Nat)
      BY <3>2, SeqMonotonic
    <3> QED BY <1>1, <3>1, <3>2
  <2> QED BY <1>1, <2>1 DEF Constructed
<1>3. Sum(p) \in Nat
  BY <1>2, SumAppend
<1>4. c \in Nat /\ (Sum(p) + c) % 256 = 0
  BY <1>3
<1> HIDE DEF c
<1>5. <<DOLLAR, Len(p) + 1>> \in Seq(Nat) /\ Len(<<DOLLAR, Len(p) + 1>>) = 2 /\ <<c>> \in Seq(Nat)
  BY <1>2, <1>4 DEF DOLLAR
<1>6. /\ bytes \in Seq(Nat) /\ Len(bytes) = Len(p) + 3
      /\ bytes[1] = DOLLAR /\ bytes[2] = Len(p) + 1 /\ bytes[Len(p) + 3] = c
      /\ \A k \in 1 .. Len(p) : bytes[k + 2] = p[k]
  BY <1>2, <1>4, <1>5
<1> HIDE DEF bytes
<1>7. DOMAIN bytes = 1 .. Len(p) + 3 /\ \A k \in 1 .. Len(p) + 3 : bytes[k] \in Nat
  BY <1>6
<1>8. FrameOf(p, n) = [k \in 1 .. Len(p) + 3 |-> Byte("mug", n, 0, bytes[k])]
  BY <1>7 DEF FrameOf, bytes, c
<1>9. \A k \in 1 .. Len(p) + 3 : Byte("mug", n, 0, bytes[k]) \in MugBytes
  BY <1>7 DEF Byte, MugBytes
<1>10. FrameOf(p, n) \in Seq(MugBytes) /\ Len(FrameOf(p, n)) = Len(p) + 3
  BY <1>2, <1>8, <1>9
<1>11. \A k \in 1 .. Len(p) + 3 : FrameOf(p, n)[k].id = n /\ FrameOf(p, n)[k].val = bytes[k]
  BY <1>8 DEF Byte
<1>12. /\ 1 \in 1 .. Len(p) + 3 /\ 2 \in 1 .. Len(p) + 3 /\ Len(p) + 3 \in 1 .. Len(p) + 3
       /\ \A k \in 1 .. Len(p) : k + 2 \in 1 .. Len(p) + 3
  BY <1>2
<1> QED BY <1>1, <1>2, <1>4, <1>6, <1>10, <1>11, <1>12
-----------------------------------------------------------------------------
(***************************************************************************)
(* What the variables hold.                                                *)
(***************************************************************************)

(* The receiver takes a byte: at its end, or in the place of the last. *)
LEMMA Received ==
  ASSUME NEW S, NEW u \in Seq(S), Len(u) <= Depth, NEW b \in S
  PROVE  /\ Receive(u, b) \in Seq(S)
         /\ Len(Receive(u, b)) = IF Len(u) = Depth THEN Depth ELSE Len(u) + 1
         /\ Len(Receive(u, b)) \in 1 .. Depth
         /\ \A k \in 1 .. Len(Receive(u, b)) :
              Receive(u, b)[k] = IF k = Len(Receive(u, b)) THEN b ELSE u[k]
<1>1. CASE Len(u) = Depth
  <2>1. Depth \in 1 .. Len(u) /\ Depth \in Nat /\ Receive(u, b) = [u EXCEPT ![Depth] = b]
    BY <1>1 DEF Depth, Receive, Full
  <2> QED BY <1>1, <2>1, ExceptSeq
<1>2. CASE Len(u) # Depth
  <2>1. Receive(u, b) = Append(u, b) /\ Len(u) + 1 \in 1 .. Depth /\ Len(u) \in Nat
    <3>1. Len(u) \in Nat
      BY LenProperties
    <3>2. Receive(u, b) = Append(u, b)
      BY <1>2 DEF Receive, Full
    <3>3. \A n \in Nat : n <= 3 /\ n # 3 => n + 1 \in 1 .. 3
      OBVIOUS
    <3> QED BY <1>2, <3>1, <3>2, <3>3 DEF Depth
  <2>2. /\ Append(u, b) \in Seq(S) /\ Len(Append(u, b)) = Len(u) + 1
        /\ \A k \in 1 .. Len(u) : Append(u, b)[k] = u[k]
        /\ Append(u, b)[Len(u) + 1] = b
    BY AppendProperties
  <2> QED BY <1>2, <2>1, <2>2
<1> QED BY <1>1, <1>2

(* What the display answers. *)
LEMMA TextIs ==
  ASSUME NEW n \in Nat
  PROVE  /\ Text(n) \in Seq(Heard) /\ Len(Text(n)) = n
         /\ \A k \in 1 .. n : Text(n)[k].from = "display" /\ Ends(Text(n), k)
<1>1. \A k \in 1 .. n : Byte("display", 0, 0, IF k = n THEN NL ELSE LETTER) \in Heard
  BY DEF Heard
<1>2. Text(n) \in Seq(Heard) /\ Len(Text(n)) = n
  BY <1>1 DEF Text
<1> QED BY <1>2 DEF Text, Ends, Byte, NL, LETTER

(* Nothing but the line end says what the mug can hear. *)
LEMMA HeardStill ==
  ASSUME end' = end
  PROVE  Heard' = Heard
BY DEF Heard, HostBytes, HostByte

(* What does not change keeps its types: the mug, ... *)
LEMMA MugStill ==
  ASSUME MugTypes, UNCHANGED <<mug, tx>>
  PROVE  MugTypes'
BY DEF MugTypes, mug

(* ... what it has received, ... *)
LEMMA QueueStill ==
  ASSUME QueueTypes, UNCHANGED <<fifo, buf, end>>
  PROVE  QueueTypes'
BY HeardStill DEF QueueTypes

(* ... the display, ... *)
LEMMA DisplayStill ==
  ASSUME DisplayTypes, UNCHANGED <<display, end>>
  PROVE  DisplayTypes'
BY HeardStill DEF DisplayTypes, display

(* ... the host, ... *)
LEMMA HostStill ==
  ASSUME HostTypes, UNCHANGED host
  PROVE  HostTypes'
BY DEF HostTypes, host

(* ... and the histories. *)
LEMMA HistoryStill ==
  ASSUME HistoryTypes, UNCHANGED <<sent, done, errors, disturbed>>
  PROVE  HistoryTypes'
BY DEF HistoryTypes

(* A command is started. *)
LEMMA StartTypes ==
  ASSUME MugTypes, HistoryTypes, StartCommand, mode' \in {"idle", "terminal", "leaving"},
         tx' \in Seq(MugBytes), Len(tx') <= 2, UNCHANGED <<done, errors, disturbed>>
  PROVE  MugTypes' /\ HistoryTypes'
<1>1. sent \in Nat /\ sent + 1 \in Nat /\ sent + 1 \in 0 .. MaxCommands /\ sent' = sent + 1
  BY Constants DEF StartCommand, HistoryTypes
<1>2. PICK p \in Payloads : frame' = FrameOf(p, sent + 1)
  BY DEF StartCommand, Frame, FrameOf
<1>3. frame' \in Seq(MugBytes) /\ Len(frame') > 0
  BY <1>1, <1>2, FrameIs
<1>4. frame' # << >>
  BY <1>3
<1>5. MugTypes'
  BY <1>3, <1>4 DEF MugTypes, StartCommand
<1> QED BY <1>1, <1>5 DEF HistoryTypes

(* A byte comes down a line. *)
LEMMA ArrivesTypes ==
  ASSUME QueueTypes, NEW b \in Heard, fifo' = Arrives(b), UNCHANGED <<buf, end>>
  PROVE  QueueTypes'
<1>1. fifo' \in Seq(Heard) /\ Len(fifo') <= Depth
  <2>1. fifo' = fifo \/ fifo' = Receive(fifo, b)
    BY DEF Arrives
  <2>2. Receive(fifo, b) \in Seq(Heard) /\ Len(Receive(fifo, b)) <= Depth
    <3>1. fifo \in Seq(Heard) /\ Len(fifo) <= Depth
      BY DEF QueueTypes
    <3> HIDE DEF Heard, Depth
    <3>2. Receive(fifo, b) \in Seq(Heard) /\ Len(Receive(fifo, b)) \in 1 .. Depth
      BY <3>1, Received
    <3>3. \A n \in 1 .. Depth : n <= Depth
      BY DEF Depth
    <3> QED BY <3>2, <3>3
  <2> QED BY <2>1, <2>2 DEF QueueTypes
<1> QED BY <1>1, HeardStill DEF QueueTypes

(* The byte the mug takes from the receiver. *)
LEMMA Taken ==
  ASSUME QueueTypes, fifo # << >>, fifo' = Tail(fifo), end' = end
  PROVE  /\ Head(fifo) \in Heard /\ Head(fifo) = fifo[1]
         /\ fifo' \in Seq(Heard) /\ fifo' \in Seq(Heard)' /\ Len(fifo') = Len(fifo) - 1
         /\ Len(fifo') <= Depth /\ Len(fifo) \in Nat /\ Len(fifo) > 0
         /\ \A k \in 1 .. Len(fifo') : fifo'[k] = fifo[k + 1]
BY HeardStill, HeadTailProperties DEF QueueTypes, Depth

(* The host types a byte. *)
LEMMA TypedIs ==
  ASSUME HostTypes, Type
  PROVE  \E b \in Heard :
           /\ b = HostByte(typed[1], typed[2] + 1) /\ b.from = "host"
           /\ b.id = typed[1] /\ b.at = typed[2] + 1 /\ b.at \in Nat /\ b.id \in Lines
           /\ b.at \in 1 .. LineLengths[b.id] + Len(end)
           /\ fifo' = Arrives(b) /\ Damage(LostFor(b))
           /\ typed' = IF b.at = LineLengths[b.id] + Len(end) THEN <<b.id + 1, 0>> ELSE <<b.id, b.at>>
<1>1. typed[1] \in Lines
  BY Constants DEF HostTypes, Type
<1>2. typed[2] + 1 \in 1 .. LineLengths[typed[1]] + Len(end) /\ typed[2] + 1 \in Nat
  BY <1>1, Constants, EndIs DEF HostTypes
<1> DEFINE b == HostByte(typed[1], typed[2] + 1)
<1>3. b \in Heard /\ b.from = "host" /\ b.id = typed[1] /\ b.at = typed[2] + 1
  BY <1>1, <1>2, HostByteHeard DEF HostTypes
<1>4. /\ fifo' = Arrives(b) /\ Damage(LostFor(b))
      /\ typed' = IF typed[2] + 1 = LineLengths[typed[1]] + Len(end)
                  THEN <<typed[1] + 1, 0>> ELSE <<typed[1], typed[2] + 1>>
  BY DEF Type, HostByte
<1> HIDE DEF b
<1> QED BY <1>1, <1>2, <1>3, <1>4 DEF b

(* Every step keeps the types. *)
LEMMA TypesNext ==
  ASSUME TypesInv, [Next]_vars
  PROVE  TypesInv'
<1> USE DEF TypesInv
<1>1. CASE Command
  <2>1. MugTypes' /\ HistoryTypes'
    BY <1>1, StartTypes DEF Command, MugTypes, history
  <2> QED BY <1>1, <2>1, QueueStill, DisplayStill, HostStill DEF Command, host
<1>2. CASE SendByte
  <2>1. frame \in Seq(MugBytes) /\ frame # << >> /\ tx \in Seq(MugBytes) /\ Len(tx) < 2
    BY <1>2 DEF SendByte, MugTypes
  <2>2. Head(frame) \in MugBytes /\ Tail(frame) \in Seq(MugBytes)
    BY <2>1, HeadTailProperties
  <2>3. tx' \in Seq(MugBytes) /\ Len(tx') <= 2 /\ frame' \in Seq(MugBytes)
    BY <1>2, <2>1, <2>2 DEF SendByte
  <2>4. MugTypes'
    BY <1>2, <2>3 DEF SendByte, MugTypes
  <2> QED BY <1>2, <2>4, QueueStill, DisplayStill, HostStill, HistoryStill DEF SendByte, host, history
<1>3. CASE WaitRead
  <2>1. MugTypes'
    BY <1>3 DEF WaitRead, MugTypes
  <2>2. QueueTypes'
    BY <1>3, Taken, HeardStill DEF WaitRead, QueueTypes, host
  <2>3. HistoryTypes'
    BY <1>3 DEF WaitRead, HistoryTypes
  <2> QED BY <1>3, <2>1, <2>2, <2>3, DisplayStill, HostStill DEF WaitRead, host
<1>4. CASE EnterTerminal
  <2>1. MugTypes'
    BY <1>4 DEF EnterTerminal, MugTypes
  <2>2. QueueTypes'
    BY <1>4, HeardStill, Constants DEF EnterTerminal, QueueTypes, host
  <2> QED BY <1>4, <2>1, <2>2, DisplayStill, HostStill, HistoryStill DEF EnterTerminal, host
<1>5. CASE Flush
  <2>1. MugTypes'
    BY <1>5 DEF Flush, MugTypes
  <2>2. QueueTypes'
    BY <1>5, HeardStill DEF Flush, QueueTypes, host, Depth
  <2> QED BY <1>5, <2>1, <2>2, DisplayStill, HostStill, HistoryStill DEF Flush, host
<1>6. CASE LeaveTerminal
  <2>1. MugTypes'
    BY <1>6 DEF LeaveTerminal, MugTypes
  <2> QED BY <1>6, <2>1, QueueStill, DisplayStill, HostStill, HistoryStill DEF LeaveTerminal, host, history
<1>7. CASE GiveUpLine
  <2>1. MugTypes'
    BY <1>7 DEF GiveUpLine, TerminalReads, MugTypes
  <2>2. QueueTypes'
    BY <1>7, HeardStill, Constants DEF GiveUpLine, StartOfLine, QueueTypes, host
  <2> QED BY <1>7, <2>1, <2>2, DisplayStill, HostStill, HistoryStill DEF GiveUpLine, host, history
<1>8. CASE ReadChar
  <2>1. /\ fifo # << >> /\ fifo' = Tail(fifo) /\ pc = "loop" /\ Len(buf) < BufferSize
        /\ Len(tx) < 2 /\ tx' = Append(tx, Byte("mug", 0, 0, Head(fifo).val))
    BY <1>8, Constants DEF ReadChar, TerminalReads, Overflow, QueueTypes
  <2>2. Head(fifo) \in Heard /\ Head(fifo).val \in Nat /\ fifo' \in Seq(Heard) /\ Len(fifo') <= Depth
    BY <1>8, <2>1, Taken, HeardIs DEF ReadChar, host, HostTypes
  <2>3. tx' \in Seq(MugBytes) /\ Len(tx') <= 2
    <3>1. Byte("mug", 0, 0, Head(fifo).val) \in MugBytes
      BY <2>2 DEF Byte, MugBytes
    <3> QED BY <2>1, <3>1 DEF MugTypes
  <2>4. CASE Head(fifo).val \notin {NL, CR}
    <3>1. buf' = Append(buf, Head(fifo)) /\ UNCHANGED <<mug, sent>> /\ Len(buf) \in Nat
      BY <1>8, <2>4 DEF ReadChar, QueueTypes
    <3>2. buf' \in Seq(Heard) /\ Len(buf') = Len(buf) + 1 /\ Len(buf') <= BufferSize
      BY <2>1, <2>2, <3>1, Constants DEF QueueTypes
    <3>3. \A k \in 1 .. Len(buf') : buf'[k].val \notin {NL, CR}
      BY <2>2, <2>4, <3>1 DEF QueueTypes
    <3>4. QueueTypes'
      BY <1>8, <2>2, <3>2, <3>3, HeardStill DEF ReadChar, QueueTypes, host
    <3>5. MugTypes'
      BY <2>3, <3>1 DEF MugTypes, mug
    <3> QED BY <1>8, <3>1, <3>4, <3>5, DisplayStill, HostStill, HistoryStill DEF ReadChar, host
  <2>5. CASE Head(fifo).val \in {NL, CR} /\ buf = << >>
    <3>1. UNCHANGED <<mug, buf, sent>>
      BY <1>8, <2>5 DEF ReadChar
    <3>2. QueueTypes'
      BY <1>8, <2>2, <3>1, HeardStill DEF ReadChar, QueueTypes, host
    <3>3. MugTypes'
      BY <2>3, <3>1 DEF MugTypes, mug
    <3> QED BY <1>8, <3>1, <3>2, <3>3, DisplayStill, HostStill, HistoryStill DEF ReadChar, host
  <2>6. CASE Head(fifo).val \in {NL, CR} /\ buf # << >>
    <3>1. /\ buf' = << >>
          /\ \/ StartCommand /\ mode' = "leaving"
             \/ pc' = "output" /\ UNCHANGED <<mode, mux, back, frame, sent>>
      BY <1>8, <2>6 DEF ReadChar
    <3>2. QueueTypes'
      BY <1>8, <2>2, <3>1, HeardStill, Constants DEF ReadChar, QueueTypes, host
    <3>3. MugTypes' /\ HistoryTypes'
      <4>1. CASE StartCommand /\ mode' = "leaving"
        BY <1>8, <2>3, <4>1, StartTypes DEF ReadChar
      <4>2. CASE pc' = "output" /\ UNCHANGED <<mode, mux, back, frame, sent>>
        BY <1>8, <2>1, <2>3, <4>2 DEF ReadChar, MugTypes, HistoryTypes
      <4> QED BY <3>1, <4>1, <4>2
    <3> QED BY <1>8, <3>2, <3>3, DisplayStill, HostStill DEF ReadChar, host
  <2> QED BY <2>4, <2>5, <2>6
<1>9. CASE OutputDone
  <2>1. LineOut \in Seq(MugBytes) /\ Len(LineOut) = 2
    BY DEF LineOut, MugBytes, Byte, NL, CR
  <2>2. MugTypes'
    BY <1>9, <2>1 DEF OutputDone, MugTypes
  <2> QED BY <1>9, <2>2, QueueStill, DisplayStill, HostStill, HistoryStill DEF OutputDone, host, history
<1>10. CASE Type
  <2>1. MugTypes' /\ DisplayTypes' /\ HistoryTypes'
    BY <1>10, MugStill, DisplayStill, HistoryStill DEF Type, mug
  <2>2. PICK b \in Heard :
          /\ b.id = typed[1] /\ b.at = typed[2] + 1 /\ b.at \in Nat /\ b.id \in Lines
          /\ b.at \in 1 .. LineLengths[b.id] + Len(end) /\ fifo' = Arrives(b)
          /\ typed' = IF b.at = LineLengths[b.id] + Len(end) THEN <<b.id + 1, 0>> ELSE <<b.id, b.at>>
    BY <1>10, TypedIs
  <2>3. QueueTypes'
    BY <1>10, <2>2, ArrivesTypes DEF Type
  <2>4. HostTypes'
    <3>1. end' = end /\ b.id \in 1 .. Len(LineLengths) /\ Len(LineLengths) \in Nat
          /\ LineLengths[b.id] \in Nat /\ Len(end) \in 1 .. 2
      BY <1>10, <2>2, Constants, EndIs DEF Type, HostTypes
    <3>2. CASE b.at = LineLengths[b.id] + Len(end)
      <4>1. typed' = <<b.id + 1, 0>> /\ typed'[1] = b.id + 1 /\ typed'[2] = 0
        BY <2>2, <3>2
      <4>2. b.id + 1 \in 1 .. Len(LineLengths) + 1
        BY <3>1
      <4>3. b.id + 1 \in Lines => 0 < LineLengths[b.id + 1] + Len(end)
        BY <3>1, Constants
      <4> QED BY <3>1, <4>1, <4>2, <4>3 DEF HostTypes
    <3>3. CASE b.at # LineLengths[b.id] + Len(end)
      <4>1. typed' = <<b.id, b.at>> /\ typed'[1] = b.id /\ typed'[2] = b.at
        BY <2>2, <3>3
      <4>2. b.at < LineLengths[b.id] + Len(end) /\ b.id \in 1 .. Len(LineLengths) + 1
        BY <2>2, <3>1, <3>3
      <4> QED BY <2>2, <3>1, <4>1, <4>2 DEF HostTypes
    <3> QED BY <3>2, <3>3
  <2> QED BY <2>1, <2>3, <2>4
<1>11. CASE Transmit
  <2>1. Head(tx) \in MugBytes /\ tx' \in Seq(MugBytes) /\ Len(tx') <= 2
    BY <1>11, HeadTailProperties DEF Transmit, MugTypes
  <2>2. MugTypes'
    BY <1>11, <2>1 DEF Transmit, MugTypes, mug
  <2>3. pack' \in Seq(MugBytes) /\ disp' \in {"hunt", "pack", "full", "answer"} /\ (disp' = "full" => pack' # << >>)
    <3>1. CASE UNCHANGED <<disp, pack>>
      BY <3>1 DEF DisplayTypes
    <3>2. CASE pack' = << >> /\ disp' \in {"hunt", "pack"}
      BY <3>2
    <3>3. CASE pack' = Append(pack, Head(tx)) /\ disp' \in {"full", "pack"}
      BY <2>1, <3>3 DEF DisplayTypes
    <3> QED BY <1>11, <3>1, <3>2, <3>3 DEF Transmit, DisplayTakes
  <2>4. DisplayTypes'
    BY <1>11, <2>3, HeardStill DEF Transmit, DisplayTypes, host
  <2> QED BY <1>11, <2>2, <2>4, QueueStill, HostStill, HistoryStill DEF Transmit, host, history
<1>12. CASE Garble
  <2>1. tx' \in Seq(MugBytes) /\ Len(tx') <= 2
    BY <1>12, HeadTailProperties DEF Garble, MugTypes
  <2>2. MugTypes'
    BY <1>12, <2>1 DEF Garble, MugTypes, mug
  <2>3. DisplayTypes'
    BY <1>12, HeardStill DEF Garble, DisplayTypes, host
  <2>4. HistoryTypes'
    BY <1>12, Constants DEF Garble, HistoryTypes
  <2> QED BY <1>12, <2>2, <2>3, <2>4, QueueStill, HostStill DEF Garble, host
<1>13. CASE DisplayError
  <2>1. reply' \in Seq(Heard) /\ \A k \in 1 .. Len(reply') : reply'[k].from = "display"
    BY <1>13, TextIs DEF DisplayError, Refusal, Nack
  <2>2. DisplayTypes'
    <3>1. pack' = << >> /\ disp' = "hunt" /\ comError' = FALSE /\ end' = end
      BY <1>13 DEF DisplayError, host
    <3>2. reply' \in Seq(Heard)'
      BY <2>1, <3>1, HeardStill
    <3>3. pack' \in Seq(MugBytes) /\ disp' \in {"hunt", "pack", "full", "answer"} /\ disp' # "full"
      BY <3>1
    <3>4. comError' \in BOOLEAN
      BY <3>1, Zenon
    <3>5. Seq(MugBytes)' = Seq(MugBytes)
      BY DEF MugBytes
    <3> QED BY <2>1, <3>2, <3>3, <3>4, <3>5, Zenon DEF DisplayTypes
  <2> QED BY <1>13, <2>2, MugStill, QueueStill, HostStill, HistoryStill DEF DisplayError, host, history
<1>14. CASE DisplayCommand
  <2>1. reply' \in Seq(Heard) /\ \A k \in 1 .. Len(reply') : reply'[k].from = "display"
    BY <1>14, TextIs DEF DisplayCommand, Ack, Nack
  <2>2. DisplayTypes'
    <3>1. pack' = << >> /\ disp' = "answer" /\ comError' = comError /\ end' = end
      BY <1>14 DEF DisplayCommand, host
    <3>2. reply' \in Seq(Heard)'
      BY <2>1, <3>1, HeardStill
    <3>3. pack' \in Seq(MugBytes) /\ disp' \in {"hunt", "pack", "full", "answer"} /\ disp' # "full"
      BY <3>1
    <3>4. comError' \in BOOLEAN
      BY <3>1, Zenon DEF DisplayTypes
    <3>5. Seq(MugBytes)' = Seq(MugBytes)
      BY DEF MugBytes
    <3> QED BY <2>1, <3>2, <3>3, <3>4, <3>5, Zenon DEF DisplayTypes
  <2>3. Origin \in Nat
    <3>1. pack \in Seq(MugBytes) /\ pack # << >>
      BY <1>14 DEF DisplayCommand, DisplayTypes
    <3>2. pack[1] \in MugBytes
      BY <3>1
    <3>3. pack[1].id \in Nat
      BY <3>2 DEF MugBytes
    <3> QED BY <3>3 DEF Origin
  <2>4. done' \in Seq(Nat)
    BY <1>14, <2>3 DEF DisplayCommand, HistoryTypes
  <2>5. HistoryTypes'
    BY <1>14, <2>4 DEF DisplayCommand, HistoryTypes, history
  <2> QED BY <1>14, <2>2, <2>5, MugStill, QueueStill, HostStill DEF DisplayCommand, host
<1>15. CASE DisplayAnswers
  <2>1. reply # << >> /\ reply' = Tail(reply) /\ fifo' = Arrives(Head(reply))
        /\ UNCHANGED <<mug, tx, buf, comError, host, sent, done, errors, disturbed>>
    BY <1>15 DEF DisplayAnswers
  <2>2. /\ Head(reply) \in Heard /\ reply' \in Seq(Heard) /\ Len(reply') = Len(reply) - 1
        /\ \A k \in 1 .. Len(reply') : reply'[k] = reply[k + 1]
    BY <2>1, HeadTailProperties DEF DisplayTypes
  <2>3. \A k \in 1 .. Len(reply') : reply'[k].from = "display"
    BY <2>2 DEF DisplayTypes
  <2>4. disp' \in {"hunt", "pack", "full", "answer"} /\ pack' \in Seq(MugBytes) /\ (disp' = "full" => pack' # << >>)
    <3>1. (disp' = "hunt" /\ pack' = << >>) \/ (disp' = disp /\ pack' = pack)
      BY <1>15 DEF DisplayAnswers
    <3>2. pack \in Seq(MugBytes) /\ disp \in {"hunt", "pack", "full", "answer"} /\ (disp = "full" => pack # << >>)
      BY DEF DisplayTypes
    <3>3. << >> \in Seq(MugBytes)
      OBVIOUS
    <3> QED BY <3>1, <3>2, <3>3
  <2>5. DisplayTypes'
    BY <2>1, <2>2, <2>3, <2>4, HeardStill DEF DisplayTypes, host
  <2>6. QueueTypes'
    BY <2>1, <2>2, ArrivesTypes DEF host
  <2> QED BY <2>1, <2>5, <2>6, MugStill, HostStill, HistoryStill
<1>16. CASE UNCHANGED vars
  BY <1>16, MugStill, QueueStill, DisplayStill, HostStill, HistoryStill DEF vars, host, history
<1>17. CASE LeaveUnswitched
  <2>1. MugTypes'
    BY <1>17 DEF LeaveUnswitched, MugTypes
  <2> QED BY <1>17, <2>1, QueueStill, DisplayStill, HostStill, HistoryStill DEF LeaveUnswitched, host, history
<1> QED
  BY <1>1, <1>2, <1>3, <1>4, <1>5, <1>6, <1>7, <1>8, <1>9, <1>10, <1>11, <1>12, <1>13, <1>14, <1>15, <1>16,
     <1>17 DEF Next

(* In the first state a line of the display is to come. *)
LEMMA TypesInit == Init => TypesInv
<1>1. SUFFICES ASSUME Init PROVE TypesInv
  OBVIOUS
<1>2. reply = Text(3) /\ 3 \in Nat
  BY <1>1 DEF Init, Ack
<1>3. reply \in Seq(Heard) /\ \A k \in 1 .. Len(reply) : reply[k].from = "display"
  BY <1>2, TextIs
<1>4. DisplayTypes
  <2>1. pack \in Seq(MugBytes)
    BY <1>1 DEF Init
  <2>2. disp \in {"hunt", "pack", "full", "answer"} /\ disp # "full"
    BY <1>1 DEF Init
  <2>3. comError \in BOOLEAN
    BY <1>1, Zenon DEF Init
  <2> QED BY <1>3, <2>1, <2>2, <2>3, Zenon DEF DisplayTypes
<1>5. HostTypes
  <2>1. typed[1] = 1 /\ typed[2] = 0 /\ end \in LineEnds /\ Len(end) \in 1 .. 2 /\ Len(LineLengths) \in Nat
    BY <1>1, EndIs, Constants DEF Init
  <2>2. 1 \in Lines => 0 < LineLengths[1] + Len(end)
    BY <2>1, Constants
  <2> QED BY <2>1, <2>2 DEF HostTypes
<1>6. MugTypes
  BY <1>1 DEF Init, MugTypes
<1>7. QueueTypes
  <2>1. fifo = << >> /\ buf = << >>
    BY <1>1 DEF Init
  <2> QED BY <2>1, Constants DEF QueueTypes, Depth
<1>8. HistoryTypes
  <2>1. sent \in 0 .. MaxCommands /\ errors \in 0 .. MaxErrors /\ done \in Seq(Nat)
    BY <1>1, Constants DEF Init
  <2>2. disturbed \in BOOLEAN
    BY <1>1, Zenon DEF Init
  <2> QED BY <2>1, <2>2, Zenon DEF HistoryTypes
<1> QED BY <1>4, <1>5, <1>6, <1>7, <1>8 DEF TypesInv

(* Console's type invariant: the switch is the display's while the mug     *)
(* sends or waits, and neither the line nor the receiver nor the terminal's *)
(* buffer ever holds more than there is room for.                          *)
THEOREM ConsoleTypes == Spec => []TypeOK
<1>1. TypesInv => TypeOK
  BY DEF TypesInv, MugTypes, QueueTypes, DisplayTypes, HistoryTypes, TypeOK
<1> QED BY <1>1, TypesInit, TypesNext, PTL DEF Spec

-----------------------------------------------------------------------------
(***************************************************************************)
(* Commands and answers.                                                   *)
(***************************************************************************)

(* What the mug has heard of the host alone it still has of the host alone. *)
LEMMA HostOnlyStill ==
  ASSUME TypesInv, HostOnly,
         \/ fifo' = fifo \/ fifo' = << >> \/ (fifo # << >> /\ fifo' = Tail(fifo))
         \/ \E b \in Heard : b.from = "host" /\ fifo' = Arrives(b)
  PROVE  HostOnly'
<1>1. fifo \in Seq(Heard) /\ Len(fifo) <= Depth
  BY DEF TypesInv, QueueTypes
<1>2. CASE fifo' = fifo
  BY <1>2 DEF HostOnly
<1>3. CASE fifo' = << >>
  BY <1>3 DEF HostOnly
<1>4. CASE fifo # << >> /\ fifo' = Tail(fifo)
  BY <1>1, <1>4, HeadTailProperties DEF HostOnly
<1>5. CASE \E b \in Heard : b.from = "host" /\ fifo' = Arrives(b)
  <2>1. PICK b \in Heard : b.from = "host" /\ (fifo' = fifo \/ fifo' = Receive(fifo, b))
    BY <1>5 DEF Arrives
  <2>2. /\ Receive(fifo, b) \in Seq(Heard)
        /\ Len(Receive(fifo, b)) = IF Len(fifo) = Depth THEN Depth ELSE Len(fifo) + 1
        /\ \A k \in 1 .. Len(Receive(fifo, b)) :
             Receive(fifo, b)[k] = IF k = Len(Receive(fifo, b)) THEN b ELSE fifo[k]
    BY <1>1, Received
  <2>3. CASE fifo' = Receive(fifo, b)
    <3>1. \A k \in 1 .. Len(fifo') : k # Len(fifo') => k \in 1 .. Len(fifo)
      BY <1>1, <2>2, <2>3 DEF Depth
    <3> QED BY <2>1, <2>2, <2>3, <3>1 DEF HostOnly
  <2> QED BY <1>2, <2>1, <2>3
<1> QED BY <1>2, <1>3, <1>4, <1>5

(* A frame is handed to the port; the terminal's text goes before it. *)
LEMMA StartAsked ==
  ASSUME TypesInv, StartCommand, Carried, ~comError', reply' = << >>, disp' = "hunt",
         tx' \in Seq(MugBytes), \A k \in 1 .. Len(tx') : Junk(tx'[k]), HostOnly', done' = done
  PROVE  Asked' /\ Carried'
<1>1. sent \in Nat /\ sent' = sent + 1 /\ done \in Seq(Nat)
  BY DEF StartCommand, TypesInv, HistoryTypes
<1>2. PICK p \in Payloads : frame' = Frame(p)
  BY DEF StartCommand
<1>3. PICK n \in Nat : n = sent'
  BY <1>1
<1>4. PICK f \in Seq(MugBytes) : f = FrameOf(p, n) /\ Len(f) \in Nat /\ Len(f) > 0
  <2>1. FrameOf(p, n) \in Seq(MugBytes) /\ Len(FrameOf(p, n)) = Len(p) + 3 /\ Len(p) \in Nat
    BY FrameIs
  <2> QED BY <2>1
<1>5. frame' = f
  BY <1>1, <1>2, <1>3, <1>4 DEF Frame, FrameOf
<1>6. PICK i \in Int : i = 0 - Len(tx')
  BY LenProperties
<1>7. /\ Wire' \in Seq(MugBytes) /\ Len(Wire') = Len(tx') + Len(f) /\ Len(tx') \in Nat
      /\ \A k \in 1 .. Len(Wire') : Wire'[k] = IF k <= Len(tx') THEN tx'[k] ELSE f[k - Len(tx')]
  BY <1>4, <1>5, ConcatProperties DEF Wire
<1>8. i <= 0 /\ Len(Wire') = Len(f) - i /\ i <= Len(f)
  BY <1>4, <1>7, <1>6
<1>9. ASSUME NEW k \in 1 .. Len(Wire')
      PROVE  IF i + k >= 1 THEN Wire'[k] = f[i + k] ELSE Junk(Wire'[k])
  <2>1. CASE k <= Len(tx')
    <3>1. ~(i + k >= 1) /\ k \in 1 .. Len(tx')
      BY <1>7, <1>6, <2>1
    <3> QED BY <1>7, <2>1, <3>1
  <2>2. CASE ~(k <= Len(tx'))
    <3>1. i + k >= 1 /\ i + k = k - Len(tx')
      BY <1>7, <1>6, <2>2
    <3> QED BY <1>7, <2>2, <3>1
  <2> QED BY <2>1, <2>2
<1>10. OnItsWay(f, i)'
  BY <1>8, <1>9 DEF OnItsWay
<1>11. \A k \in 1 .. Len(done') : done'[k] < sent' /\ done'[k] \in 1 .. sent'
  BY <1>1 DEF Carried
<1>12. (\E q \in Payloads : \E j \in Int : OnItsWay(FrameOf(q, sent), j))'
  BY <1>3, <1>4, <1>10
<1> QED BY <1>1, <1>11, <1>12 DEF Asked, Carried

(* What is asked, and how far it has come. *)
LEMMA AskedBy ==
  ASSUME TypesInv, Asked
  PROVE  \E p \in Payloads : \E f \in Seq(MugBytes) : \E i \in Int :
           f = FrameOf(p, sent) /\ Len(f) = Len(p) + 3 /\ Len(p) \in Nat /\ OnItsWay(f, i)
<1>1. PICK p \in Payloads, i \in Int : OnItsWay(FrameOf(p, sent), i)
  BY DEF Asked
<1>2. sent \in Nat
  BY DEF TypesInv, HistoryTypes
<1>3. FrameOf(p, sent) \in Seq(MugBytes) /\ Len(FrameOf(p, sent)) = Len(p) + 3 /\ Len(p) \in Nat
  BY <1>2, FrameIs
<1> QED BY <1>1, <1>3

(* A frame that is still on its way is still asked for. *)
LEMMA AskedStill ==
  ASSUME Asked, UNCHANGED <<comError, reply, sent, done>>, HostOnly',
         NEW p \in Payloads, NEW f, f = FrameOf(p, sent), NEW i \in Int, OnItsWay(f, i)'
  PROVE  Asked'
<1>1. (\E q \in Payloads : \E j \in Int : OnItsWay(FrameOf(q, sent), j))'
  BY DEF FrameOf
<1> QED BY <1>1 DEF Asked

(* The port takes a byte of the frame. *)
LEMMA WireStill ==
  ASSUME TypesInv, SendByte
  PROVE  Wire' = Wire
<1>1. /\ frame \in Seq(MugBytes) /\ frame # << >> /\ tx \in Seq(MugBytes)
      /\ tx' = Append(tx, Head(frame)) /\ frame' = Tail(frame)
  BY DEF SendByte, TypesInv, MugTypes
<1>2. /\ tx' \in Seq(MugBytes) /\ Len(tx') = Len(tx) + 1
      /\ \A k \in 1 .. Len(tx) : tx'[k] = tx[k]
      /\ tx'[Len(tx) + 1] = frame[1] /\ Len(tx) \in Nat
  BY <1>1, AppendProperties, HeadTailProperties
<1>3. /\ frame' \in Seq(MugBytes) /\ Len(frame') = Len(frame) - 1 /\ Len(frame) \in Nat /\ Len(frame) > 0
      /\ \A k \in 1 .. Len(frame') : frame'[k] = frame[k + 1]
  BY <1>1, HeadTailProperties
<1>4. /\ Wire \in Seq(MugBytes) /\ Len(Wire) = Len(tx) + Len(frame)
      /\ \A k \in 1 .. Len(Wire) : Wire[k] = IF k <= Len(tx) THEN tx[k] ELSE frame[k - Len(tx)]
  BY <1>1, ConcatProperties DEF Wire
<1>5. /\ Wire' \in Seq(MugBytes) /\ Len(Wire') = Len(tx') + Len(frame')
      /\ \A k \in 1 .. Len(Wire') : Wire'[k] = IF k <= Len(tx') THEN tx'[k] ELSE frame'[k - Len(tx')]
  <2>1. tx' \in Seq(MugBytes) /\ frame' \in Seq(MugBytes)
    BY <1>2, <1>3
  <2> QED BY <2>1, ConcatProperties DEF Wire
<1>6. Len(Wire') = Len(Wire)
  BY <1>2, <1>3, <1>4, <1>5
<1>7. ASSUME NEW k \in 1 .. Len(Wire) PROVE Wire'[k] = Wire[k]
  <2>1. CASE k <= Len(tx)
    <3>1. k \in 1 .. Len(tx) /\ k <= Len(tx')
      BY <1>2, <2>1
    <3> QED BY <1>2, <1>4, <1>5, <1>6, <3>1
  <2>2. CASE k = Len(tx) + 1
    <3>1. ~(k <= Len(tx)) /\ k <= Len(tx') /\ k - Len(tx) = 1
      BY <1>2, <2>2
    <3> QED BY <1>2, <1>4, <1>5, <1>6, <2>2, <3>1
  <2>3. CASE k > Len(tx) + 1
    <3>1. /\ ~(k <= Len(tx)) /\ ~(k <= Len(tx')) /\ k - Len(tx) = (k - Len(tx')) + 1
          /\ k - Len(tx') \in 1 .. Len(frame')
      BY <1>2, <1>3, <1>4, <2>3
    <3> QED BY <1>3, <1>4, <1>5, <1>6, <3>1
  <2>4. k <= Len(tx) \/ k = Len(tx) + 1 \/ k > Len(tx) + 1
    BY <1>2
  <2> QED BY <2>1, <2>2, <2>3, <2>4
<1> QED BY <1>4, <1>5, <1>6, <1>7, SeqEqual

(* A byte comes to the display. *)
LEMMA Comes ==
  ASSUME TypesInv, NEW n \in Nat, NEW p \in Payloads, NEW f \in Seq(MugBytes), f = FrameOf(p, n),
         NEW i \in Int, OnItsWay(f, i), tx # << >>, tx' = Tail(tx), frame' = frame,
         ~comError, DisplayTakes(Head(tx))
  PROVE  OnItsWay(f, i + 1)'
<1>1. /\ Len(f) = Len(p) + 3 /\ Len(p) \in Nat /\ Len(p) > 0
      /\ f[1].val = DOLLAR /\ f[2].val = Len(p) + 1
  BY FrameIs
<1>2. /\ frame \in Seq(MugBytes) /\ tx \in Seq(MugBytes) /\ pack \in Seq(MugBytes)
  BY DEF TypesInv, MugTypes, DisplayTypes
<1>3. /\ tx' \in Seq(MugBytes) /\ Len(tx') = Len(tx) - 1 /\ Len(tx) \in Nat /\ Len(tx) > 0
      /\ (\A k \in 1 .. Len(tx') : tx'[k] = tx[k + 1]) /\ Head(tx) = tx[1] /\ tx[1] \in MugBytes
  BY <1>2, HeadTailProperties
<1>4. /\ Wire \in Seq(MugBytes) /\ Len(Wire) = Len(tx) + Len(frame) /\ Len(frame) \in Nat
      /\ \A k \in 1 .. Len(Wire) : Wire[k] = IF k <= Len(tx) THEN tx[k] ELSE frame[k - Len(tx)]
  BY <1>2, ConcatProperties DEF Wire
<1>5. /\ Wire' \in Seq(MugBytes) /\ Len(Wire') = Len(tx') + Len(frame)
      /\ \A k \in 1 .. Len(Wire') : Wire'[k] = IF k <= Len(tx') THEN tx'[k] ELSE frame[k - Len(tx')]
  BY <1>2, <1>3, ConcatProperties DEF Wire
<1>6. Len(Wire') = Len(Wire) - 1 /\ Len(Wire) \in Nat /\ 1 \in 1 .. Len(Wire) /\ Wire[1] = Head(tx)
  BY <1>3, <1>4, <1>5
<1>7. ASSUME NEW k \in 1 .. Len(Wire') PROVE Wire'[k] = Wire[k + 1]
  <2>1. k + 1 \in 1 .. Len(Wire)
    BY <1>6
  <2>2. CASE k <= Len(tx')
    <3>1. k \in 1 .. Len(tx') /\ k + 1 <= Len(tx)
      BY <1>3, <2>2
    <3> QED BY <1>3, <1>4, <1>5, <2>1, <3>1
  <2>3. CASE ~(k <= Len(tx'))
    <3>1. ~(k + 1 <= Len(tx)) /\ (k + 1) - Len(tx) = k - Len(tx')
      BY <1>3, <2>3
    <3> QED BY <1>4, <1>5, <2>1, <2>3, <3>1
  <2> QED BY <2>2, <2>3
<1>8. /\ i <= Len(f) /\ Len(Wire) = Len(f) - i
      /\ \A k \in 1 .. Len(Wire) : IF i + k >= 1 THEN Wire[k] = f[i + k] ELSE Junk(Wire[k])
  BY DEF OnItsWay
<1>9. i + 1 <= Len(f) /\ Len(Wire') = Len(f) - (i + 1)
  BY <1>1, <1>6, <1>8
<1>10. ASSUME NEW k \in 1 .. Len(Wire')
       PROVE  IF i + 1 + k >= 1 THEN Wire'[k] = f[i + 1 + k] ELSE Junk(Wire'[k])
  <2>1. k + 1 \in 1 .. Len(Wire) /\ i + 1 + k = i + (k + 1)
    BY <1>6
  <2> QED BY <1>7, <1>8, <2>1
<1>11. /\ disp' = IF i + 1 <= 0 THEN "hunt" ELSE IF i + 1 < Len(f) THEN "pack" ELSE "full"
       /\ i + 1 >= 1 => Len(pack') = (i + 1) - 1 /\ \A k \in 1 .. Len(pack') : pack'[k] = f[k + 1]
  <2>1. CASE i + 1 <= 0
    <3>1. Junk(Head(tx)) /\ disp = "hunt"
      BY <1>6, <1>8, <2>1 DEF OnItsWay
    <3>2. disp' = "hunt"
      BY <3>1 DEF DisplayTakes, Junk
    <3> QED BY <2>1, <3>2
  <2>2. CASE i = 0
    <3>1. Head(tx) = f[1] /\ disp = "hunt"
      BY <1>6, <1>8, <2>2 DEF OnItsWay
    <3>2. disp' = "pack" /\ pack' = << >>
      BY <1>1, <3>1 DEF DisplayTakes
    <3> QED BY <1>1, <2>2, <3>2
  <2>3. CASE i >= 1
    <3>1. Head(tx) = f[i + 1] /\ i < Len(f)
      BY <1>1, <1>6, <1>8, <2>3
    <3>2. disp = "pack" /\ Len(pack) = i - 1 /\ \A k \in 1 .. Len(pack) : pack[k] = f[k + 1]
      BY <2>3, <3>1 DEF OnItsWay
    <3>3. /\ pack' = Append(pack, f[i + 1])
          /\ disp' = IF Len(pack') = pack'[1].val + 1 THEN "full" ELSE "pack"
      BY <3>1, <3>2 DEF DisplayTakes
    <3>4. /\ Len(pack') = i
          /\ \A k \in 1 .. i - 1 : pack'[k] = pack[k]
          /\ pack'[i] = f[i + 1]
      BY <1>2, <1>3, <3>1, <3>2, <3>3, AppendProperties
    <3>5. \A k \in 1 .. Len(pack') : pack'[k] = f[k + 1]
      <4>1. \A k \in 1 .. i : k \in 1 .. i - 1 \/ k = i
        BY <2>3
      <4> QED BY <3>2, <3>4, <4>1
    <3>6. pack'[1].val = Len(p) + 1
      <4>1. 1 \in 1 .. Len(pack') /\ 1 + 1 = 2
        BY <2>3, <3>4
      <4> QED BY <1>1, <3>5, <4>1
    <3>7. Len(pack') = pack'[1].val + 1 <=> ~(i + 1 < Len(f))
      BY <1>1, <3>1, <3>4, <3>6
    <3> QED BY <1>1, <2>3, <3>3, <3>4, <3>5, <3>7
  <2> QED BY <2>1, <2>2, <2>3
<1> QED BY <1>9, <1>10, <1>11 DEF OnItsWay

(* The display takes a whole frame for what it is. *)
LEMMA Accepted ==
  ASSUME pack \in Seq(MugBytes), NEW n \in Nat, NEW p \in Payloads, NEW f, f = FrameOf(p, n),
         Len(pack) = Len(f) - 1, \A k \in 1 .. Len(pack) : pack[k] = f[k + 1]
  PROVE  ChecksumGood /\ Parsed /\ Origin = n
<1>1. /\ Len(f) = Len(p) + 3 /\ p \in Seq(Nat) /\ Len(p) \in Nat /\ Len(p) > 0 /\ Constructed(p)
      /\ (\A k \in 1 .. Len(p) + 3 : f[k].id = n) /\ \A k \in 1 .. Len(p) : f[k + 2].val = p[k]
  BY FrameIs
<1>2. PICK c \in Nat : f[Len(p) + 3].val = c /\ (Sum(p) + c) % 256 = 0
  BY FrameIs
<1>3. Len(pack) = Len(p) + 2 /\ pack # << >>
  BY <1>1
<1>4. /\ Tail(pack) \in Seq(MugBytes) /\ Len(Tail(pack)) = Len(p) + 1
      /\ \A k \in 1 .. Len(p) + 1 : Tail(pack)[k] = f[k + 2]
  <2>1. /\ Tail(pack) \in Seq(MugBytes) /\ Len(Tail(pack)) = Len(p) + 1
        /\ \A k \in 1 .. Len(p) + 1 : Tail(pack)[k] = pack[k + 1]
    BY <1>1, <1>3, HeadTailProperties
  <2>2. \A k \in 1 .. Len(p) + 1 : k + 1 \in 1 .. Len(pack) /\ (k + 1) + 1 = k + 2
    BY <1>1, <1>3
  <2> QED BY <2>1, <2>2
<1>5. Values(Tail(pack)) = Append(p, c)
  <2> DEFINE t == Tail(pack)
             a == Append(p, c)
  <2>1. a \in Seq(Nat) /\ Len(a) = Len(p) + 1 /\ (\A k \in 1 .. Len(p) : a[k] = p[k]) /\ a[Len(p) + 1] = c
    BY <1>1, <1>2, AppendProperties
  <2>2. a = [k \in 1 .. Len(p) + 1 |-> a[k]]
    <3>1. a \in [1 .. Len(a) -> Nat]
      BY <2>1, LenProperties
    <3> QED BY <2>1, <3>1
  <2> HIDE DEF a
  <2>3. Values(t) = [k \in 1 .. Len(p) + 1 |-> t[k].val]
    BY <1>4 DEF Values
  <2> HIDE DEF t
  <2>4. ASSUME NEW k \in 1 .. Len(p) + 1 PROVE t[k].val = a[k]
    <3>1. t[k] = f[k + 2]
      BY <1>4 DEF t
    <3>2. CASE k \in 1 .. Len(p)
      BY <1>1, <2>1, <3>1, <3>2
    <3>3. CASE k = Len(p) + 1
      <4>1. k + 2 = Len(p) + 3
        BY <1>1, <3>3
      <4> QED BY <1>2, <2>1, <3>1, <3>3, <4>1
    <3>4. k \in 1 .. Len(p) \/ k = Len(p) + 1
      BY <1>1
    <3> QED BY <3>2, <3>3, <3>4
  <2> QED BY <2>2, <2>3, <2>4 DEF t, a
<1>6. ChecksumGood
  <2>1. Sum(Append(p, c)) = Sum(p) + c
    BY <1>1, <1>2, SumAppend
  <2> QED BY <1>2, <1>5, <2>1 DEF ChecksumGood
<1>7. Parsed
  <2>1. pack[2] = f[3] /\ f[3].val = p[1]
    <3>1. 1 \in 1 .. Len(p) /\ 2 \in 1 .. Len(pack) /\ 1 + 2 = 3 /\ 2 + 1 = 3
      BY <1>1, <1>3
    <3> QED BY <1>1, <3>1
  <2>2. pack[2].val = p[1] /\ Len(pack) - 3 = Len(p) - 1 /\ Len(pack) > 2
    BY <1>1, <1>3, <2>1
  <2> QED BY <1>1, <2>2 DEF Parsed, Constructed
<1>8. Origin = n
  <2>1. \A k \in 1 .. Len(pack) : pack[k].id = n
    <3>1. \A k \in 1 .. Len(pack) : k + 1 \in 1 .. Len(p) + 3
      BY <1>1, <1>3
    <3> QED BY <1>1, <3>1
  <2>2. DOMAIN pack = 1 .. Len(pack) /\ 1 \in 1 .. Len(pack)
    BY <1>1, <1>3
  <2> QED BY <2>1, <2>2 DEF Origin
<1> QED BY <1>6, <1>7, <1>8

(* Where the mug does something else, it changes nothing about that. *)
LEMMA RestStill ==
  ASSUME AtRest, UNCHANGED <<comError, reply, disp, sent, done>>, HostOnly',
         \A k \in 1 .. Len(tx') : Junk(tx'[k])
  PROVE  AtRest'
BY DEF AtRest, Answered

(* Every step keeps the exchange in order. *)
LEMMA ExchangeNext ==
  ASSUME TypesInv, TypesInv', ExchangeInv, [Next]_vars
  PROVE  ExchangeInv'
<1> SUFFICES ASSUME ~disturbed'
             PROVE  /\ IF pc' \in {"send", "wait"} THEN Asked' \/ Answering' ELSE AtRest'
                    /\ Carried' /\ HostLine'
  BY DEF ExchangeInv
<1>0. /\ IF pc \in {"send", "wait"} THEN Asked \/ Answering ELSE AtRest
      /\ Carried /\ HostLine
  <2>1. ~disturbed
    BY DEF Next, vars, Command, SendByte, WaitRead, EnterTerminal, LeaveUnswitched, Flush, LeaveTerminal,
           GiveUpLine, ReadChar, OutputDone, Type, Transmit, Garble, DisplayError, DisplayCommand, DisplayAnswers, history
  <2> QED BY <2>1 DEF ExchangeInv
<1>1. CASE Command
  <2>1. AtRest /\ StartCommand
    BY <1>0, <1>1 DEF Command
  <2>2. /\ ~comError' /\ reply' = << >> /\ disp' = "hunt" /\ tx' \in Seq(MugBytes)
        /\ (\A k \in 1 .. Len(tx') : Junk(tx'[k])) /\ HostOnly' /\ done' = done
    BY <1>1, <2>1, HostOnlyStill DEF Command, display, AtRest, TypesInv, MugTypes
  <2>3. Asked' /\ Carried'
    BY <1>0, <2>1, <2>2, StartAsked
  <2>4. pc' = "send" /\ HostLine'
    BY <1>0, <1>1 DEF Command, StartCommand, HostLine
  <2> QED BY <2>3, <2>4
<1>2. CASE SendByte
  <2>1. Asked /\ pc' \in {"send", "wait"}
    BY <1>0, <1>2 DEF SendByte, Answering
  <2>2. Wire' = Wire /\ HostOnly' /\ UNCHANGED <<comError, reply, sent, done, disp, pack, fifo, buf>>
    BY <1>2, <2>1, WireStill, HostOnlyStill DEF SendByte, display, Asked
  <2>3. PICK p \in Payloads, f \in Seq(MugBytes), i \in Int : f = FrameOf(p, sent) /\ OnItsWay(f, i)
    BY <2>1, AskedBy
  <2>4. OnItsWay(f, i)'
    BY <2>2, <2>3 DEF OnItsWay
  <2>5. Asked'
    BY <2>1, <2>2, <2>3, <2>4, AskedStill
  <2> QED BY <1>0, <2>1, <2>2, <2>5 DEF Carried, HostLine
<1>3. CASE WaitRead
  <2>1. /\ pc = "wait" /\ fifo # << >> /\ fifo' = Tail(fifo) /\ Head(fifo) = fifo[1]
        /\ pc' = IF Head(fifo).val = NL THEN "loop" ELSE pc
        /\ UNCHANGED <<tx, frame, buf, disp, pack, comError, reply, sent, done>>
        /\ ~(Head(fifo).from = "host" /\ Head(fifo).val = NL)
    <3>1. pc = "wait" /\ fifo # << >> /\ fifo' = Tail(fifo) /\ Head(fifo) = fifo[1]
      BY <1>3, Taken DEF WaitRead, TypesInv, host
    <3>2. disturbed' = (disturbed \/ (Head(fifo).from = "host" /\ Head(fifo).val = NL))
      BY <1>3, Zenon DEF WaitRead
    <3>3. ~(Head(fifo).from = "host" /\ Head(fifo).val = NL)
      BY <3>2, Zenon
    <3>4. pc' = IF Head(fifo).val = NL THEN "loop" ELSE pc
      BY <1>3 DEF WaitRead, EndsWait
    <3>5. UNCHANGED <<tx, frame, buf, disp, pack, comError, reply, sent, done>>
      BY <1>3 DEF WaitRead, display
    <3> QED BY <3>1, <3>3, <3>4, <3>5
  <2>2. Carried' /\ HostLine'
    BY <1>0, <2>1 DEF Carried, HostLine
  <2>3. Len(fifo) \in Nat /\ Len(fifo) > 0 /\ 1 \in 1 .. Len(fifo)
    BY <2>1 DEF TypesInv, QueueTypes
  <2>4. CASE Asked
    <3>1. HostOnly' /\ pc' = "wait"
      BY <2>1, <2>3, <2>4, HostOnlyStill DEF Asked, HostOnly
    <3>2. PICK p \in Payloads, f \in Seq(MugBytes), i \in Int : f = FrameOf(p, sent) /\ OnItsWay(f, i)
      BY <2>4, AskedBy
    <3>3. OnItsWay(f, i)'
      BY <2>1, <3>2 DEF OnItsWay, Wire
    <3>4. Asked'
      BY <2>1, <2>4, <3>1, <3>2, <3>3, AskedStill
    <3> QED BY <2>2, <3>1, <3>4
  <2>5. CASE Answering /\ reply # << >>
    <3>1. HostOnly' /\ pc' = "wait"
      <4>1. CASE HostOnly
        BY <2>1, <2>3, <4>1, HostOnlyStill DEF HostOnly
      <4>2. CASE Len(fifo) = 1 /\ fifo[1].val # NL
        <5>1. Len(fifo') = 0
          BY <2>1, <4>2, HeadTailProperties DEF TypesInv, QueueTypes
        <5>2. HostOnly'
          BY <5>1 DEF HostOnly
        <5> QED BY <2>1, <4>2, <5>2
      <4> QED BY <2>5, <4>1, <4>2 DEF Answering
    <3>2. Answering'
      BY <2>1, <2>5, <3>1 DEF Answering, Answered, Ends
    <3> QED BY <2>2, <3>1, <3>2
  <2>6. CASE Answering /\ reply = << >>
    <3>1. Len(fifo') = 0 /\ fifo[1].val = NL
      BY <2>1, <2>6, HeadTailProperties DEF Answering, TypesInv, QueueTypes
    <3>2. pc' = "loop" /\ HostOnly'
      <4>1. HostOnly'
        BY <3>1 DEF HostOnly
      <4> QED BY <2>1, <3>1, <4>1
    <3>3. AtRest'
      BY <2>1, <2>6, <3>2 DEF Answering, AtRest, Answered
    <3> QED BY <2>2, <3>2, <3>3
  <2> QED BY <1>0, <2>1, <2>4, <2>5, <2>6
<1>4. CASE EnterTerminal
  <2>1. AtRest /\ pc' = "output" /\ buf' = << >> /\ UNCHANGED <<fifo, tx, comError, reply, disp, sent, done>>
    BY <1>0, <1>4 DEF EnterTerminal, display
  <2>2. AtRest'
    BY <2>1, HostOnlyStill, RestStill DEF AtRest
  <2> QED BY <1>0, <2>1, <2>2 DEF Carried, HostLine
<1>5. CASE Flush
  <2>1. AtRest /\ pc' = "flushed" /\ fifo' = << >> /\ UNCHANGED <<buf, tx, comError, reply, disp, sent, done>>
    BY <1>0, <1>5 DEF Flush, display
  <2>2. AtRest'
    BY <2>1, HostOnlyStill, RestStill DEF AtRest
  <2> QED BY <1>0, <2>1, <2>2 DEF Carried, HostLine
<1>6. CASE LeaveTerminal
  <2>1. AtRest /\ pc' = "loop" /\ UNCHANGED <<fifo, buf, tx, comError, reply, disp, sent, done>>
    BY <1>0, <1>6 DEF LeaveTerminal, display
  <2>2. AtRest'
    BY <2>1, HostOnlyStill, RestStill DEF AtRest
  <2> QED BY <1>0, <2>1, <2>2 DEF Carried, HostLine
<1>7. CASE GiveUpLine
  <2>1. AtRest /\ pc' = "output" /\ buf' = << >> /\ UNCHANGED <<fifo, tx, comError, reply, disp, sent, done>>
    BY <1>0, <1>7 DEF GiveUpLine, TerminalReads, StartOfLine, display
  <2>2. AtRest'
    BY <2>1, HostOnlyStill, RestStill DEF AtRest
  <2> QED BY <1>0, <2>1, <2>2 DEF Carried, HostLine
<1>8. CASE ReadChar
  <2>1. /\ AtRest /\ fifo # << >> /\ fifo' = Tail(fifo) /\ pc = "loop"
        /\ tx' = Append(tx, Byte("mug", 0, 0, Head(fifo).val))
        /\ UNCHANGED <<comError, reply, disp, done, end>>
    BY <1>0, <1>8 DEF ReadChar, TerminalReads, display, host
  <2>2. /\ Head(fifo) \in Heard /\ Head(fifo).from = "host" /\ Head(fifo).val \in {LETTER, NL, CR}
    <3>1. Head(fifo) \in Heard /\ Head(fifo) = fifo[1] /\ 1 \in 1 .. Len(fifo)
      BY <2>1, Taken DEF TypesInv
    <3>2. end \in LineEnds
      BY DEF TypesInv, HostTypes
    <3> QED BY <2>1, <3>1, <3>2, HeardIs DEF AtRest, HostOnly
  <2>3. tx' \in Seq(MugBytes) /\ \A k \in 1 .. Len(tx') : Junk(tx'[k])
    <3>1. tx \in Seq(MugBytes) /\ tx' \in Seq(MugBytes) /\ \A k \in 1 .. Len(tx) : Junk(tx[k])
      BY <2>1 DEF TypesInv, MugTypes, AtRest
    <3>2. Junk(Byte("mug", 0, 0, Head(fifo).val))
      BY <2>2 DEF Junk, Byte, LETTER, NL, CR, DOLLAR
    <3>3. \A k \in 1 .. Len(tx') : k \in 1 .. Len(tx) \/ k = Len(tx) + 1
      BY <2>1, <3>1
    <3> HIDE DEF Junk
    <3> QED BY <2>1, <3>1, <3>2, <3>3
  <2>4. HostOnly'
    BY <2>1, HostOnlyStill DEF AtRest
  <2>5. HostLine'
    <3>1. CASE buf' = Append(buf, Head(fifo))
      <4>1. buf \in Seq(Heard)
        BY DEF TypesInv, QueueTypes
      <4>2. \A k \in 1 .. Len(buf') : k \in 1 .. Len(buf) \/ k = Len(buf) + 1
        BY <3>1, <4>1
      <4> QED BY <1>0, <2>2, <3>1, <4>1, <4>2 DEF HostLine
    <3>2. CASE buf' = buf \/ buf' = << >>
      BY <1>0, <3>2 DEF HostLine
    <3>3. buf' = Append(buf, Head(fifo)) \/ buf' = buf \/ buf' = << >>
      BY <1>8 DEF ReadChar
    <3> QED BY <3>1, <3>2, <3>3
  <2>6. CASE StartCommand
    <3>1. Asked' /\ Carried'
      BY <1>0, <2>1, <2>3, <2>4, <2>6, StartAsked DEF AtRest
    <3> QED BY <2>5, <2>6, <3>1 DEF StartCommand
  <2>7. CASE sent' = sent /\ pc' \in {"loop", "output"}
    <3>1. AtRest'
      BY <2>1, <2>3, <2>4, <2>7, RestStill
    <3> QED BY <1>0, <2>1, <2>5, <2>7, <3>1 DEF Carried
  <2>8. StartCommand \/ (sent' = sent /\ pc' \in {"loop", "output"})
    BY <1>8, <2>1 DEF ReadChar, mug
  <2> QED BY <2>6, <2>7, <2>8
<1>9. CASE OutputDone
  <2>1. AtRest /\ pc' = "loop" /\ tx' = LineOut /\ UNCHANGED <<fifo, buf, comError, reply, disp, sent, done>>
    BY <1>0, <1>9 DEF OutputDone, display
  <2>2. \A k \in 1 .. Len(tx') : Junk(tx'[k])
    BY <2>1 DEF LineOut, Junk, Byte, NL, CR, DOLLAR
  <2>3. AtRest'
    BY <2>1, <2>2, HostOnlyStill, RestStill DEF AtRest
  <2> QED BY <1>0, <2>1, <2>3 DEF Carried, HostLine
<1>10. CASE Type
  <2>1. /\ \E b \in Heard : b.from = "host" /\ fifo' = Arrives(b)
        /\ UNCHANGED <<pc, mux, frame, buf, tx, disp, pack, comError, reply, sent, done>>
    BY <1>10, TypedIs DEF Type, mug, display, TypesInv
  <2>2. Carried' /\ HostLine'
    BY <1>0, <2>1 DEF Carried, HostLine
  <2>3. CASE pc \in {"send", "wait"}
    <3>1. fifo' = fifo
      BY <2>1, <2>3 DEF Arrives, TypesInv, MugTypes
    <3>2. Asked => Asked'
      <4>1. SUFFICES ASSUME Asked PROVE Asked'
        OBVIOUS
      <4>2. PICK p \in Payloads, f \in Seq(MugBytes), i \in Int : f = FrameOf(p, sent) /\ OnItsWay(f, i)
        BY <4>1, AskedBy
      <4>3. OnItsWay(f, i)' /\ HostOnly'
        BY <2>1, <3>1, <4>1, <4>2 DEF OnItsWay, Wire, Asked, HostOnly
      <4> QED BY <2>1, <4>1, <4>2, <4>3, AskedStill
    <3>3. Answering => Answering'
      BY <2>1, <3>1 DEF Answering, Answered, Ends, HostOnly
    <3> QED BY <1>0, <2>1, <2>2, <2>3, <3>2, <3>3
  <2>4. CASE pc \notin {"send", "wait"}
    <3>1. AtRest /\ HostOnly'
      BY <1>0, <2>1, <2>4, HostOnlyStill DEF AtRest
    <3>2. AtRest'
      BY <2>1, <3>1, RestStill DEF AtRest
    <3> QED BY <2>1, <2>2, <2>4, <3>2
  <2> QED BY <2>3, <2>4
<1>11. CASE Transmit
  <2>1. /\ tx # << >> /\ tx' = Tail(tx)
        /\ IF mux = "oled" THEN DisplayTakes(Head(tx)) ELSE UNCHANGED <<disp, pack>>
        /\ UNCHANGED <<pc, mux, frame, fifo, buf, comError, reply, sent, done>>
    BY <1>11 DEF Transmit, mug
  <2>2. Carried' /\ HostLine'
    BY <1>0, <2>1 DEF Carried, HostLine
  <2>3. CASE pc \in {"send", "wait"}
    <3>1. Asked /\ mux = "oled" /\ ~comError
      BY <1>0, <2>1, <2>3 DEF Answering, Asked, TypesInv, MugTypes
    <3>2. PICK p \in Payloads, f \in Seq(MugBytes), i \in Int : f = FrameOf(p, sent) /\ OnItsWay(f, i)
      BY <3>1, AskedBy
    <3>3. OnItsWay(f, i + 1)'
      <4>1. sent \in Nat
        BY DEF TypesInv, HistoryTypes
      <4> QED BY <2>1, <3>1, <3>2, <4>1, Comes
    <3>4. HostOnly' /\ i + 1 \in Int
      BY <2>1, <3>1 DEF Asked, HostOnly
    <3>5. Asked'
      BY <2>1, <3>1, <3>2, <3>3, <3>4, AskedStill
    <3> QED BY <2>1, <2>2, <2>3, <3>5
  <2>4. CASE pc \notin {"send", "wait"}
    <3>1. AtRest /\ HostOnly'
      BY <1>0, <2>1, <2>4 DEF AtRest, HostOnly
    <3>2. /\ \A k \in 1 .. Len(tx') : Junk(tx'[k])
          /\ Junk(Head(tx))
      <4>1. tx \in Seq(MugBytes)
        BY DEF TypesInv, MugTypes
      <4>2. /\ Head(tx) = tx[1] /\ 1 \in 1 .. Len(tx)
            /\ \A k \in 1 .. Len(tx') : tx'[k] = tx[k + 1] /\ k + 1 \in 1 .. Len(tx)
        BY <2>1, <4>1, HeadTailProperties
      <4> QED BY <3>1, <4>2 DEF AtRest
    <3>3. disp' = disp
      BY <2>1, <3>1, <3>2 DEF DisplayTakes, AtRest, Junk
    <3>4. AtRest'
      BY <2>1, <3>1, <3>2, <3>3, RestStill
    <3> QED BY <2>1, <2>2, <2>4, <3>4
  <2> QED BY <2>3, <2>4
<1>12. CASE Garble
  BY <1>12 DEF Garble
<1>13. CASE DisplayError
  BY <1>0, <1>13 DEF DisplayError, AtRest, Asked, Answering
<1>14. CASE DisplayCommand
  <2>1. /\ reply = << >> /\ ~comError /\ disp = "full" /\ disp' = "answer"
        /\ UNCHANGED <<pc, frame, tx, fifo, buf, comError, sent>>
    BY <1>14 DEF DisplayCommand, DisplayFree, mug
  <2>2. Asked
    BY <1>0, <2>1 DEF AtRest, Answering
  <2>3. PICK p \in Payloads, f \in Seq(MugBytes), i \in Int :
          f = FrameOf(p, sent) /\ Len(f) = Len(p) + 3 /\ Len(p) \in Nat /\ OnItsWay(f, i)
    BY <2>2, AskedBy
  <2>4. i = Len(f)
    BY <2>1, <2>3 DEF OnItsWay
  <2>5. Len(Wire) = 0 /\ Len(pack) = Len(f) - 1 /\ \A k \in 1 .. Len(pack) : pack[k] = f[k + 1]
    BY <2>3, <2>4 DEF OnItsWay
  <2>6. tx = << >> /\ frame = << >>
    <3>1. tx \in Seq(MugBytes) /\ frame \in Seq(MugBytes)
      BY DEF TypesInv, MugTypes
    <3>2. Len(Wire) = Len(tx) + Len(frame) /\ Len(tx) \in Nat /\ Len(frame) \in Nat
      BY <3>1, ConcatProperties DEF Wire
    <3>3. Len(tx) = 0 /\ Len(frame) = 0
      <4>1. Len(Wire) = 0
        BY <2>5
      <4>2. \A a \in Nat, b \in Nat : a + b = 0 => a = 0 /\ b = 0
        OBVIOUS
      <4> QED BY <3>2, <4>1, <4>2
    <3> QED BY <3>1, <3>3
  <2>7. pc = "wait"
    BY <1>0, <2>2, <2>6, <2>1 DEF TypesInv, MugTypes, AtRest
  <2>8. sent \in Nat /\ pack \in Seq(MugBytes) /\ done \in Seq(Nat) /\ sent > 0
    BY <2>2 DEF TypesInv, HistoryTypes, DisplayTypes, Asked
  <2>9. done' = Append(done, sent) /\ reply' = Text(3)
    <3>1. ChecksumGood /\ Parsed /\ Origin = sent
      BY <2>3, <2>5, <2>8, Accepted
    <3> QED BY <1>14, <3>1 DEF DisplayCommand, Ack
  <2>10. /\ Len(reply') = 3 /\ reply' # << >> /\ \A k \in 1 .. Len(reply') : Ends(reply', k)
    <3>1. 3 \in Nat /\ reply' = Text(3)
      BY <2>9
    <3>2. Len(reply') = 3 /\ \A k \in 1 .. Len(reply') : Ends(reply', k)
      BY <3>1, TextIs
    <3>3. reply' # << >>
      BY <3>2, EmptySeq
    <3> QED BY <3>2, <3>3
  <2>11. Len(done') = Len(done) + 1 /\ Len(done) \in Nat /\ done' # << >> /\ done'[Len(done')] = sent
         /\ \A k \in 1 .. Len(done') : (k \in 1 .. Len(done) /\ done'[k] = done[k]) \/ done'[k] = sent
    <3>1. /\ done' \in Seq(Nat) /\ done' # << >> /\ Len(done') = Len(done) + 1 /\ Len(done) \in Nat
          /\ done'[Len(done) + 1] = sent
      BY <2>8, <2>9, AppendProperties
    <3>2. \A k \in 1 .. Len(done) : done'[k] = done[k]
      BY <2>8, <2>9, AppendProperties
    <3>3. \A k \in 1 .. Len(done') : k \in 1 .. Len(done) \/ k = Len(done) + 1
      BY <3>1
    <3> QED BY <3>1, <3>2, <3>3
  <2>12. Carried' /\ HostLine'
    BY <1>0, <2>1, <2>8, <2>11 DEF Carried, HostLine
  <2>13. Answering'
    BY <2>1, <2>2, <2>6, <2>7, <2>10, <2>11 DEF Answering, Answered, Asked, HostOnly, Ends
  <2> QED BY <2>1, <2>7, <2>12, <2>13
<1>15. CASE DisplayAnswers
  <2>1. /\ reply # << >> /\ reply' = Tail(reply) /\ fifo' = Arrives(Head(reply))
        /\ pc = "wait" => fifo = << >>
        /\ IF reply' = << >> /\ disp = "answer" THEN disp' = "hunt" ELSE disp' = disp
        /\ UNCHANGED <<pc, tx, buf, comError, sent, done>>
    BY <1>15 DEF DisplayAnswers, mug
  <2>2. Answering
    BY <1>0, <2>1 DEF AtRest, Asked
  <2>3. /\ fifo = << >> /\ mux = "oled" /\ disp \in {"hunt", "answer"} /\ pc = "wait"
        /\ \A k \in 1 .. Len(reply) : Ends(reply, k)
    BY <2>1, <2>2 DEF Answering, TypesInv, MugTypes
  <2>4. /\ Head(reply) \in Heard /\ Head(reply) = reply[1] /\ Head(reply).from = "display"
        /\ Len(reply') = Len(reply) - 1 /\ Len(reply) \in Nat /\ Len(reply) > 0 /\ reply' \in Seq(Heard)
        /\ \A k \in 1 .. Len(reply') : reply'[k] = reply[k + 1]
    BY <2>1, HeadTailProperties DEF TypesInv, DisplayTypes
  <2>5. Len(fifo') = 1 /\ fifo'[1] = Head(reply)
    BY <2>1, <2>3, <2>4 DEF Arrives, Receive, Full, Depth
  <2>6. Carried' /\ HostLine'
    BY <1>0, <2>1 DEF Carried, HostLine
  <2>7. Head(reply).val = NL <=> Len(reply') = 0
    <3>1. Ends(reply, 1) /\ 1 \in 1 .. Len(reply)
      BY <2>3, <2>4
    <3> QED BY <2>4, <3>1 DEF Ends
  <2>8. \A k \in 1 .. Len(reply') : Ends(reply', k)
    <3>1. ASSUME NEW k \in 1 .. Len(reply') PROVE Ends(reply', k)
      <4>1. Ends(reply, k + 1) /\ reply'[k] = reply[k + 1] /\ (k + 1 = Len(reply) <=> k = Len(reply'))
        BY <2>3, <2>4
      <4> QED BY <4>1 DEF Ends
    <3> QED BY <3>1
  <2>9. CASE reply' = << >>
    <3>1. disp' = "hunt" /\ Head(reply).val = NL
      BY <2>1, <2>3, <2>7, <2>9
    <3> QED BY <2>1, <2>2, <2>3, <2>4, <2>5, <2>6, <2>9, <3>1 DEF Answering, Answered
  <2>10. CASE reply' # << >>
    <3>1. disp' = disp /\ Head(reply).val # NL
      BY <2>1, <2>4, <2>7, <2>10
    <3> QED BY <2>1, <2>2, <2>3, <2>5, <2>6, <2>8, <2>10, <3>1 DEF Answering, Answered, Ends
  <2> QED BY <2>9, <2>10
<1>16. CASE UNCHANGED vars
  <2>1. UNCHANGED <<pc, frame, tx, fifo, buf, disp, pack, comError, reply, sent, done>>
    BY <1>16 DEF vars, mug, display
  <2>2. Asked => Asked'
    <3>1. SUFFICES ASSUME Asked PROVE Asked'
      OBVIOUS
    <3>2. PICK p \in Payloads, f \in Seq(MugBytes), i \in Int : f = FrameOf(p, sent) /\ OnItsWay(f, i)
      BY <3>1, AskedBy
    <3>3. OnItsWay(f, i)' /\ HostOnly'
      BY <2>1, <3>1, <3>2 DEF OnItsWay, Wire, Asked, HostOnly
    <3> QED BY <2>1, <3>1, <3>2, <3>3, AskedStill
  <2> QED BY <1>0, <2>1, <2>2 DEF Carried, HostLine, AtRest, Answering, Answered, Ends, HostOnly
<1>17. CASE LeaveUnswitched
  <2>1. AtRest /\ UNCHANGED <<pc, fifo, buf, tx, comError, reply, disp, sent, done>>
    BY <1>0, <1>17 DEF LeaveUnswitched, display
  <2>2. AtRest'
    BY <2>1, HostOnlyStill, RestStill DEF AtRest
  <2> QED BY <1>0, <1>17, <2>1, <2>2 DEF Carried, HostLine, LeaveUnswitched
<1> QED
  BY <1>1, <1>2, <1>3, <1>4, <1>5, <1>6, <1>7, <1>8, <1>9, <1>10, <1>11, <1>12, <1>13, <1>14, <1>15, <1>16,
     <1>17 DEF Next

(* The display comes up, and has its first line to send. *)
LEMMA ExchangeInit ==
  ASSUME Init
  PROVE  ExchangeInv
<1>1. /\ pc = "wait" /\ fifo = << >> /\ tx = << >> /\ buf = << >> /\ reply = Text(3) /\ ~comError
      /\ disp = "hunt" /\ sent = 0 /\ done = << >>
  BY DEF Init, Ack
<1>2. Len(reply) = 3 /\ \A k \in 1 .. Len(reply) : Ends(reply, k)
  <2>1. 3 \in Nat
    OBVIOUS
  <2> QED BY <1>1, <2>1, TextIs
<1>3. Answering
  <2>1. reply # << >>
    BY <1>2
  <2> QED BY <1>1, <1>2, <2>1 DEF Answering, Answered, HostOnly
<1> QED BY <1>1, <1>3 DEF ExchangeInv, Carried, HostLine

(* Until a byte was garbled or a line feed of the host came for an answer, *)
(* a mug that goes on after a command has had the answer to that command   *)
(* and no other: OLEDWaitForResponse, which takes any line for the answer, *)
(* never takes one that was left over.                                     *)
THEOREM EachGetsItsOwn == Spec => []AnsweredByItsOwn
<1>1. Init => TypesInv /\ ExchangeInv
  BY TypesInit, ExchangeInit
<1>2. TypesInv /\ ExchangeInv /\ [Next]_vars => (TypesInv /\ ExchangeInv)'
  BY TypesNext, ExchangeNext
<1>3. TypesInv /\ ExchangeInv => AnsweredByItsOwn
  <2>1. DOMAIN buf = 1 .. Len(buf) \/ ~TypesInv
    BY DEF TypesInv, QueueTypes
  <2> QED BY <2>1 DEF ExchangeInv, AtRest, Answered, HostLine, AnsweredByItsOwn
<1> QED BY <1>1, <1>2, <1>3, PTL DEF Spec

-----------------------------------------------------------------------------
(***************************************************************************)
(* Lines of the host.                                                      *)
(***************************************************************************)

(* The places of bytes are numbers. *)
LEMMA Places ==
  ASSUME NEW u, Placed(u), NEW k \in 1 .. Len(u)
  PROVE  u[k].id \in Lines /\ u[k].id \in Nat /\ u[k].at \in Nat /\ u[k].at > 0
         /\ LineLengths[u[k].id] \in Nat
BY Constants DEF Placed

(* Between a byte and the one behind it no byte of a whole line is missing. *)
LEMMA NoneBetween ==
  ASSUME NEW u, Len(u) \in Nat, Placed(u), NEW c, c.id \in Nat, c.at \in Nat, NEW lost,
         Ordered(u, c), NoGap(u, c, lost), NEW q \in 1 .. Len(u),
         NEW b, b = IF q = Len(u) THEN c ELSE u[q + 1],
         NEW l \in Lines, NEW n \in 1 .. LineLengths[l] + 1, l \notin lost,
         Earlier(u[q].id, u[q].at, l, n), Earlier(l, n, b.id, b.at)
  PROVE  FALSE
<1>1. l \in Nat /\ n \in Nat /\ LineLengths[l] \in Nat
  BY Constants
<1>2. Earlier(l, n, c.id, c.at)
  <2>1. CASE q = Len(u)
    BY <2>1
  <2>2. CASE q # Len(u)
    <3>1. q + 1 \in 1 .. Len(u) /\ b = u[q + 1]
      BY <2>2
    <3>2. Earlier(b.id, b.at, c.id, c.at) /\ b.id \in Nat /\ b.at \in Nat
      BY <3>1, Places DEF Ordered, Before
    <3> QED BY <1>1, <3>2 DEF Earlier
  <2> QED BY <2>1, <2>2
<1>3. PICK j \in 1 .. Len(u) : u[j].id = l /\ u[j].at = n
  BY <1>2 DEF NoGap
<1>4. u[q].id \in Nat /\ u[q].at \in Nat
  BY Places
<1>5. CASE j <= q
  <2>1. j = q \/ Earlier(l, n, u[q].id, u[q].at)
    BY <1>3, <1>5 DEF Ordered, Before
  <2> QED BY <1>1, <1>3, <1>4, <2>1 DEF Earlier
<1>6. CASE j > q
  <2>1. q + 1 \in 1 .. Len(u) /\ b = u[q + 1] /\ (j = q + 1 \/ q + 1 < j)
    BY <1>6
  <2>2. b.id \in Nat /\ b.at \in Nat
    BY <2>1, Places
  <2>3. j = q + 1 \/ Earlier(b.id, b.at, l, n)
    BY <1>3, <2>1 DEF Ordered, Before
  <2>4. j = q + 1 => b.id = l /\ b.at = n
    BY <1>3, <2>1
  <2> QED BY <1>1, <2>2, <2>3, <2>4 DEF Earlier
<1> QED BY <1>5, <1>6

(* So a byte of a whole line starts it or comes right behind another. *)
LEMMA Follows ==
  ASSUME NEW u, Len(u) \in Nat, Placed(u), NEW c, c.id \in Nat, c.at \in Nat, NEW lost,
         Ordered(u, c), NoGap(u, c, lost), NEW q \in 1 .. Len(u),
         NEW b, b = IF q = Len(u) THEN c ELSE u[q + 1],
         Key(b.id, b.at), b.id \notin lost
  PROVE  b.at = 1 \/ (u[q].id = b.id /\ u[q].at = b.at - 1)
<1>1. b.id \in Lines /\ b.id \in Nat /\ b.at \in Nat /\ LineLengths[b.id] \in Nat /\ b.at \in 1 .. LineLengths[b.id] + 1
  BY Constants DEF Key
<1>2. u[q].id \in Nat /\ u[q].at \in Nat
  BY Places
<1>3. Earlier(u[q].id, u[q].at, b.id, b.at)
  <2>1. CASE q = Len(u)
    BY <2>1 DEF Ordered, Before
  <2>2. CASE q # Len(u)
    <3>1. q + 1 \in 1 .. Len(u) /\ b = u[q + 1] /\ q < q + 1
      BY <2>2
    <3> QED BY <3>1 DEF Ordered, Before
  <2> QED BY <2>1, <2>2
<1>4. CASE b.at # 1
  <2>1. b.at - 1 \in 1 .. LineLengths[b.id] + 1 /\ Earlier(b.id, b.at - 1, b.id, b.at)
    BY <1>1, <1>4 DEF Earlier
  <2>2. ~Earlier(u[q].id, u[q].at, b.id, b.at - 1)
    BY <1>1, <2>1, NoneBetween
  <2> QED BY <1>1, <1>2, <1>3, <2>2 DEF Earlier
<1> QED BY <1>4

(* v is what is left of u at the places g; a byte that is not left is before *)
(* all of them, or its line is damaged, or it does not count.                *)
LEMMA Thinned ==
  ASSUME NEW u, NEW v, Len(u) \in Nat, Len(v) \in Nat, Placed(u), NEW c, NEW lost, NEW more, lost \subseteq more,
         Ordered(u, c), NoGap(u, c, lost), NEW g \in [1 .. Len(v) -> 1 .. Len(u)],
         \A k \in 1 .. Len(v) : v[k] = u[g[k]],
         \A j \in 1 .. Len(v), k \in 1 .. Len(v) : j < k => g[j] < g[k],
         \A j \in 1 .. Len(u) : \/ \E k \in 1 .. Len(v) : g[k] = j
                                \/ u[j].id \in more \/ ~Key(u[j].id, u[j].at)
                                \/ \A k \in 1 .. Len(v) : j < g[k]
  PROVE  Placed(v) /\ Ordered(v, c) /\ NoGap(v, c, more)
<1>1. \A k \in 1 .. Len(v) : g[k] \in 1 .. Len(u)
  OBVIOUS
<1>2. Placed(v)
  BY <1>1 DEF Placed
<1>3. Ordered(v, c)
  BY <1>1 DEF Ordered
<1>4. ASSUME NEW k \in 1 .. Len(v), NEW l \in Lines, NEW n \in 1 .. LineLengths[l] + 1,
             Earlier(v[k].id, v[k].at, l, n), Earlier(l, n, c.id, c.at)
      PROVE  l \in more \/ \E j \in 1 .. Len(v) : v[j].id = l /\ v[j].at = n
  <2>1. l \in lost \/ \E j \in 1 .. Len(u) : u[j].id = l /\ u[j].at = n
    BY <1>1, <1>4 DEF NoGap
  <2>2. CASE l \in lost
    BY <2>2
  <2>3. CASE l \notin lost
    <3>1. PICK j \in 1 .. Len(u) : u[j].id = l /\ u[j].at = n
      BY <2>1, <2>3
    <3>2. Key(u[j].id, u[j].at)
      BY <3>1 DEF Key
    <3>3. ~(j < g[k])
      <4>1. l \in Nat /\ n \in Nat /\ LineLengths[l] \in Nat /\ v[k].id \in Nat /\ v[k].at \in Nat /\ v[k] = u[g[k]]
        BY <1>2, Constants, Places
      <4>2. j < g[k] => Earlier(l, n, v[k].id, v[k].at)
        BY <1>1, <3>1, <4>1 DEF Ordered, Before
      <4> QED BY <1>4, <4>1, <4>2 DEF Earlier
    <3> QED BY <1>1, <3>1, <3>2, <3>3
  <2> QED BY <2>2, <2>3
<1>5. NoGap(v, c, more)
  BY <1>4 DEF NoGap
<1> QED BY <1>2, <1>3, <1>5

(* After the byte c the byte e is to come. *)
Succeeds(c, e) ==
  \/ e.id = c.id /\ e.at = c.at + 1
  \/ e.id = c.id + 1 /\ e.at = 1 /\ c.at > LineLengths[c.id]

(* Nothing lies between the two. *)
LEMMA OnlyThat ==
  ASSUME NEW c, c.id \in Lines, c.at \in Nat, NEW e, Succeeds(c, e),
         NEW l \in Lines, NEW n \in 1 .. LineLengths[l] + 1, Earlier(l, n, e.id, e.at)
  PROVE  Earlier(l, n, c.id, c.at) \/ (l = c.id /\ n = c.at)
<1>1. l \in Nat /\ n \in Nat /\ c.id \in Nat /\ LineLengths[l] \in Nat
  BY Constants
<1>2. CASE e.id = c.id /\ e.at = c.at + 1
  BY <1>1, <1>2 DEF Earlier
<1>3. CASE e.id = c.id + 1 /\ e.at = 1 /\ c.at > LineLengths[c.id]
  BY <1>1, <1>3 DEF Earlier
<1> QED BY <1>2, <1>3 DEF Succeeds

(* A byte is typed and lost. *)
LEMMA TypedLost ==
  ASSUME NEW u, Len(u) \in Nat, Placed(u), NEW c, c.id \in Lines, c.at \in Nat, NEW e, Succeeds(c, e),
         NEW lost, NEW more, lost \subseteq more, Ordered(u, c), NoGap(u, c, lost),
         c.id \in more \/ ~Key(c.id, c.at)
  PROVE  Ordered(u, e) /\ NoGap(u, e, more)
<1>1. c.id \in Nat
  BY Constants
<1>2. ASSUME NEW k \in 1 .. Len(u) PROVE Before(u[k], e)
  <2>1. Earlier(u[k].id, u[k].at, c.id, c.at) /\ u[k].id \in Nat /\ u[k].at \in Nat
    BY Places DEF Ordered, Before
  <2> QED BY <1>1, <2>1 DEF Earlier, Before, Succeeds
<1>3. ASSUME NEW k \in 1 .. Len(u), NEW l \in Lines, NEW n \in 1 .. LineLengths[l] + 1,
             Earlier(u[k].id, u[k].at, l, n), Earlier(l, n, e.id, e.at)
      PROVE  l \in more \/ \E j \in 1 .. Len(u) : u[j].id = l /\ u[j].at = n
  <2>1. Earlier(l, n, c.id, c.at) \/ (l = c.id /\ n = c.at)
    BY <1>3, OnlyThat
  <2>2. CASE Earlier(l, n, c.id, c.at)
    BY <1>3, <2>2 DEF NoGap
  <2>3. CASE l = c.id /\ n = c.at
    BY <2>3 DEF Key
  <2> QED BY <2>1, <2>2, <2>3
<1> QED BY <1>2, <1>3 DEF Ordered, NoGap

(* A byte is typed and arrives. *)
LEMMA TypedHeard ==
  ASSUME NEW u, NEW v, Len(u) \in Nat, Placed(u), NEW c, c.id \in Lines, c.at \in Nat, c.at > 0,
         NEW e, Succeeds(c, e), NEW lost, Ordered(u, c), NoGap(u, c, lost),
         Len(v) = Len(u) + 1, \A k \in 1 .. Len(u) : v[k] = u[k],
         v[Len(v)].id = c.id, v[Len(v)].at = c.at
  PROVE  Placed(v) /\ Ordered(v, e) /\ NoGap(v, e, lost)
<1>1. c.id \in Nat
  BY Constants
<1>2. \A k \in 1 .. Len(v) : k \in 1 .. Len(u) \/ k = Len(v)
  OBVIOUS
<1>3. Placed(v)
  BY <1>2 DEF Placed
<1>4. ASSUME NEW k \in 1 .. Len(v) PROVE Before(v[k], e)
  <2>1. v[k].id \in Nat /\ v[k].at \in Nat
    BY <1>3, Places
  <2>2. Earlier(v[k].id, v[k].at, c.id, c.at) \/ (v[k].id = c.id /\ v[k].at = c.at)
    BY <1>2 DEF Ordered, Before
  <2> QED BY <1>1, <2>1, <2>2 DEF Earlier, Before, Succeeds
<1>5. ASSUME NEW j \in 1 .. Len(v), NEW k \in 1 .. Len(v), j < k PROVE Before(v[j], v[k])
  <2>1. j \in 1 .. Len(u)
    BY <1>5
  <2>2. CASE k \in 1 .. Len(u)
    BY <1>5, <2>1, <2>2 DEF Ordered
  <2>3. CASE k = Len(v)
    BY <2>1, <2>3 DEF Ordered, Before
  <2> QED BY <1>2, <2>2, <2>3
<1>6. ASSUME NEW k \in 1 .. Len(v), NEW l \in Lines, NEW n \in 1 .. LineLengths[l] + 1,
             Earlier(v[k].id, v[k].at, l, n), Earlier(l, n, e.id, e.at)
      PROVE  l \in lost \/ \E j \in 1 .. Len(v) : v[j].id = l /\ v[j].at = n
  <2>1. Earlier(l, n, c.id, c.at) \/ (l = c.id /\ n = c.at)
    BY <1>6, OnlyThat
  <2>2. CASE l = c.id /\ n = c.at
    <3>1. Len(v) \in 1 .. Len(v)
      OBVIOUS
    <3> QED BY <2>2, <3>1
  <2>3. CASE Earlier(l, n, c.id, c.at)
    <3>1. k \in 1 .. Len(u)
      <4>1. l \in Nat /\ n \in Nat /\ LineLengths[l] \in Nat
        BY Constants
      <4>2. k = Len(v) => Earlier(c.id, c.at, l, n)
        BY <1>6
      <4> QED BY <1>1, <1>2, <2>3, <4>1, <4>2 DEF Earlier
    <3>2. l \in lost \/ \E j \in 1 .. Len(u) : u[j].id = l /\ u[j].at = n
      BY <1>6, <2>3, <3>1 DEF NoGap
    <3>3. \A j \in 1 .. Len(u) : j \in 1 .. Len(v) /\ v[j] = u[j]
      OBVIOUS
    <3> QED BY <3>2, <3>3
  <2> QED BY <2>1, <2>2, <2>3
<1> QED BY <1>3, <1>4, <1>5, <1>6 DEF Ordered, NoGap

(* The first byte of a line starts at no byte lost. *)
LEMMA AtOne == Boundary(1)
<1>1. 1 - 1 = 0 * BufferSize /\ 0 \in 0 .. 1
  BY Constants
<1> QED BY <1>1 DEF Boundary

(* Behind a byte that has damaged its line, or was the end of it, comes the *)
(* first byte of a whole line, if one of a whole line comes.                *)
LEMMA BegunAfter ==
  ASSUME NEW u, Len(u) \in Nat, Placed(u), NEW c, c.id \in Nat, c.at \in Nat,
         NEW lost, NEW more, lost \subseteq more, Ordered(u, c), NoGap(u, c, lost), NEW q \in 1 .. Len(u),
         NEW b, b = IF q = Len(u) THEN c ELSE u[q + 1],
         u[q].id \in more \/ u[q].at > LineLengths[u[q].id]
  PROVE  WellBegun(b, more)
<1>1. SUFFICES ASSUME Key(b.id, b.at), Fine(b.id, more) PROVE Boundary(b.at)
  BY DEF WellBegun
<1>2. b.id \notin more /\ b.id \notin lost
  BY <1>1 DEF Fine
<1>3. b.at = 1 \/ (u[q].id = b.id /\ u[q].at = b.at - 1)
  <2>1. Key(b.id, b.at) /\ b.id \notin lost
    BY <1>1, <1>2
  <2> QED BY <2>1, Follows, SMTT(60)
<1>4. CASE u[q].id = b.id /\ u[q].at = b.at - 1
  <2>1. b.id \in Lines /\ LineLengths[b.id] \in Nat /\ b.at \in 1 .. LineLengths[b.id] + 1
    BY <1>1, Constants DEF Key
  <2> QED BY <1>2, <1>4, <2>1
<1> QED BY <1>3, <1>4, AtOne

(* The first q bytes are gone. *)
LEMMA Dropped ==
  ASSUME NEW u, NEW v, Len(u) \in Nat, Placed(u), NEW c, NEW lost, NEW more, lost \subseteq more,
         Ordered(u, c), NoGap(u, c, lost), NEW q \in 0 .. Len(u),
         Len(v) = Len(u) - q, \A k \in 1 .. Len(v) : v[k] = u[q + k]
  PROVE  Placed(v) /\ Ordered(v, c) /\ NoGap(v, c, more)
<1> DEFINE g == [k \in 1 .. Len(v) |-> q + k]
<1>1. Len(v) \in Nat /\ g \in [1 .. Len(v) -> 1 .. Len(u)]
  OBVIOUS
<1>2. \A k \in 1 .. Len(v) : g[k] = q + k
  OBVIOUS
<1>3. ASSUME NEW j \in 1 .. Len(u)
      PROVE  (\E k \in 1 .. Len(v) : g[k] = j) \/ \A k \in 1 .. Len(v) : j < g[k]
  <2>1. CASE j <= q
    BY <1>1, <1>2, <2>1
  <2>2. CASE j > q
    <3>1. j - q \in 1 .. Len(v) /\ q + (j - q) = j
      BY <1>1, <2>2
    <3> QED BY <1>2, <3>1
  <2> QED BY <2>1, <2>2
<1>4. \A k \in 1 .. Len(v) : v[k] = u[g[k]]
  BY <1>2
<1>5. \A j \in 1 .. Len(v), k \in 1 .. Len(v) : j < k => g[j] < g[k]
  BY <1>1, <1>2
<1> HIDE DEF g
<1> QED BY <1>1, <1>3, <1>4, <1>5, Thinned

(* The byte behind them is the first. *)
LEMMA FirstLeft ==
  ASSUME NEW u, NEW v, Len(u) \in Nat, NEW c, NEW q \in 0 .. Len(u),
         Len(v) = Len(u) - q, \A k \in 1 .. Len(v) : v[k] = u[q + k]
  PROVE  First(v, c) = IF q = Len(u) THEN c ELSE u[q + 1]
<1>1. CASE q = Len(u)
  BY <1>1 DEF First
<1>2. CASE q # Len(u)
  <2>1. Len(v) # 0 /\ 1 \in 1 .. Len(v)
    BY <1>2
  <2> QED BY <1>2, <2>1 DEF First
<1> QED BY <1>1, <1>2

(* The byte r is gone. *)
LEMMA DroppedOne ==
  ASSUME NEW u, NEW v, Len(u) \in Nat, Placed(u), NEW c, NEW lost, NEW more, lost \subseteq more,
         Ordered(u, c), NoGap(u, c, lost), NEW r \in 1 .. Len(u), Len(v) = Len(u) - 1,
         \A k \in 1 .. Len(v) : v[k] = IF k < r THEN u[k] ELSE u[k + 1],
         u[r].id \in more \/ ~Key(u[r].id, u[r].at)
  PROVE  Placed(v) /\ Ordered(v, c) /\ NoGap(v, c, more)
<1> DEFINE g == [k \in 1 .. Len(v) |-> IF k < r THEN k ELSE k + 1]
<1>1. Len(v) \in Nat /\ g \in [1 .. Len(v) -> 1 .. Len(u)]
  OBVIOUS
<1>2. \A k \in 1 .. Len(v) : g[k] = IF k < r THEN k ELSE k + 1
  OBVIOUS
<1>3. ASSUME NEW j \in 1 .. Len(u)
      PROVE  (\E k \in 1 .. Len(v) : g[k] = j) \/ j = r
  <2>1. CASE j < r
    <3>1. j \in 1 .. Len(v)
      BY <2>1
    <3> QED BY <1>2, <2>1, <3>1
  <2>2. CASE j > r
    <3>1. j - 1 \in 1 .. Len(v) /\ ~(j - 1 < r) /\ (j - 1) + 1 = j
      BY <2>2
    <3> QED BY <1>2, <3>1
  <2> QED BY <2>1, <2>2
<1>4. \A k \in 1 .. Len(v) : v[k] = u[g[k]]
  BY <1>2
<1>5. \A j \in 1 .. Len(v), k \in 1 .. Len(v) : j < k => g[j] < g[k]
  BY <1>1, <1>2
<1> HIDE DEF g
<1>6. \A j \in 1 .. Len(u) : \/ \E k \in 1 .. Len(v) : g[k] = j
                             \/ u[j].id \in more \/ ~Key(u[j].id, u[j].at)
                             \/ \A k \in 1 .. Len(v) : j < g[k]
  BY <1>3
<1> QED BY <1>1, <1>4, <1>5, <1>6, Thinned

(* The bytes behind q are gone. *)
LEMMA CutOff ==
  ASSUME NEW u, NEW v, Len(u) \in Nat, Placed(u), NEW c, NEW lost, NEW more, lost \subseteq more,
         Ordered(u, c), NoGap(u, c, lost), NEW q \in 0 .. Len(u), Len(v) = q,
         \A k \in 1 .. Len(v) : v[k] = u[k],
         \A j \in q + 1 .. Len(u) : u[j].id \in more \/ ~Key(u[j].id, u[j].at)
  PROVE  Placed(v) /\ Ordered(v, c) /\ NoGap(v, c, more)
<1> DEFINE g == [k \in 1 .. Len(v) |-> k]
<1>1. Len(v) \in Nat /\ g \in [1 .. Len(v) -> 1 .. Len(u)]
  OBVIOUS
<1>2. \A k \in 1 .. Len(v) : g[k] = k
  OBVIOUS
<1>3. \A j \in 1 .. Len(u) : (\E k \in 1 .. Len(v) : g[k] = j) \/ j \in q + 1 .. Len(u)
  <2>1. \A j \in 1 .. Len(u) : j \in 1 .. Len(v) \/ j \in q + 1 .. Len(u)
    BY <1>1
  <2> QED BY <1>2, <2>1
<1>4. \A k \in 1 .. Len(v) : v[k] = u[g[k]]
  BY <1>2
<1>5. \A j \in 1 .. Len(v), k \in 1 .. Len(v) : j < k => g[j] < g[k]
  BY <1>2
<1> HIDE DEF g
<1>6. \A j \in 1 .. Len(u) : \/ \E k \in 1 .. Len(v) : g[k] = j
                             \/ u[j].id \in more \/ ~Key(u[j].id, u[j].at)
                             \/ \A k \in 1 .. Len(v) : j < g[k]
  BY <1>3
<1> QED BY <1>1, <1>4, <1>5, <1>6, Thinned

(* Which lines are damaged when bytes are lost. *)
LEMMA InLinesOf ==
  ASSUME NEW S, NEW s \in Seq(S), NEW k \in 1 .. Len(s), s[k].from = "host", s[k].val # NL
  PROVE  s[k].id \in LinesOf(s)
<1>1. k \in {l \in DOMAIN s : s[l].from = "host" /\ s[l].val # NL}
  OBVIOUS
<1> QED BY <1>1 DEF LinesOf

(* What the mug has of the lines. *)
LEMMA LineIs ==
  ASSUME NEW S, NEW b \in Seq(S), NEW f \in Seq(S), \A k \in 1 .. Len(f) : f[k].from = "host"
  PROVE  /\ LineFrom(b, f) \in Seq(S) /\ Len(LineFrom(b, f)) = Len(b) + Len(f)
         /\ Len(b) \in Nat /\ Len(f) \in Nat
         /\ \A k \in 1 .. Len(b) : LineFrom(b, f)[k] = b[k]
         /\ \A k \in 1 .. Len(f) : LineFrom(b, f)[Len(b) + k] = f[k]
<1>1. LineFrom(b, f) = b \o f
  BY DEF LineFrom
<1>2. /\ b \o f \in Seq(S) /\ Len(b \o f) = Len(b) + Len(f) /\ Len(b) \in Nat /\ Len(f) \in Nat
      /\ \A k \in 1 .. Len(b) + Len(f) : (b \o f)[k] = IF k <= Len(b) THEN b[k] ELSE f[k - Len(b)]
  BY ConcatProperties
<1>3. \A k \in 1 .. Len(b) : k \in 1 .. Len(b) + Len(f) /\ k <= Len(b)
  BY <1>2
<1>4. \A k \in 1 .. Len(f) : /\ Len(b) + k \in 1 .. Len(b) + Len(f) /\ ~(Len(b) + k <= Len(b))
                             /\ (Len(b) + k) - Len(b) = k
  BY <1>2
<1> QED BY <1>1, <1>2, <1>3, <1>4

(* While the receiver is empty or has a byte of the display, it has buf. *)
LEMMA LineAlone ==
  ASSUME NEW S, NEW b \in Seq(S), NEW f, f = << >> \/ \E k \in 1 .. Len(f) : f[k].from # "host"
  PROVE  LineFrom(b, f) = b
<1>1. CASE f = << >>
  <2>1. LineFrom(b, f) = b \o << >> \/ LineFrom(b, f) = b
    BY <1>1 DEF LineFrom
  <2> QED BY <2>1, ConcatEmptySeq
<1>2. CASE \E k \in 1 .. Len(f) : f[k].from # "host"
  BY <1>2 DEF LineFrom
<1> QED BY <1>1, <1>2

(* The letters in the terminal's buffer. *)
LEMMA Letters ==
  ASSUME TypesInv, HostLine, NEW k \in 1 .. Len(buf)
  PROVE  /\ buf[k].from = "host" /\ buf[k].val = LETTER /\ buf[k].val # NL
         /\ buf[k].id \in Lines /\ buf[k].at \in 1 .. LineLengths[buf[k].id] /\ buf[k].at \in Nat
         /\ LineLengths[buf[k].id] \in Nat /\ buf[k].at > 0
         /\ buf[k] = Byte("host", buf[k].id, buf[k].at, LETTER)
<1>1. buf[k] \in Heard /\ end \in LineEnds /\ buf[k].val \notin {NL, CR} /\ buf[k].from = "host"
  BY DEF TypesInv, QueueTypes, HostTypes, HostLine
<1>2. /\ buf[k].val = LETTER /\ buf[k].id \in Lines /\ buf[k].at \in Nat /\ buf[k].at > 0
      /\ buf[k].at <= LineLengths[buf[k].id] /\ buf[k] = HostByte(buf[k].id, buf[k].at)
  <2>1. /\ buf[k].val \in {LETTER, NL, CR} /\ buf[k].id \in Lines /\ buf[k].at \in Nat
        /\ buf[k].at \in 1 .. LineLengths[buf[k].id] + Len(end) /\ buf[k] = HostByte(buf[k].id, buf[k].at)
        /\ buf[k].val = LETTER <=> buf[k].at <= LineLengths[buf[k].id]
    BY <1>1, HeardIs
  <2>2. buf[k].val = LETTER
    BY <1>1, <2>1
  <2> QED BY <2>1, <2>2
<1>3. LineLengths[buf[k].id] \in Nat
  BY <1>2, Constants
<1> QED BY <1>1, <1>2, <1>3 DEF HostByte, LETTER, NL

(* The bytes of the host in the receiver. *)
LEMMA Queued ==
  ASSUME TypesInv, NEW k \in 1 .. Len(fifo), fifo[k].from = "host"
  PROVE  /\ fifo[k].id \in Lines /\ fifo[k].at \in Nat /\ fifo[k].at > 0
         /\ LineLengths[fifo[k].id] \in Nat
         /\ fifo[k].val = LETTER <=> fifo[k].at <= LineLengths[fifo[k].id]
         /\ fifo[k].val # LETTER <=> fifo[k].at > LineLengths[fifo[k].id]
         /\ fifo[k].val = NL => ~Key(fifo[k].id, fifo[k].at)
         /\ fifo[k].val \in {LETTER, NL, CR}
<1>1. fifo[k] \in Heard /\ end \in LineEnds
  BY DEF TypesInv, QueueTypes, HostTypes
<1>2. /\ fifo[k].id \in Lines /\ fifo[k].at \in Nat
      /\ fifo[k].at \in 1 .. LineLengths[fifo[k].id] + Len(end)
      /\ fifo[k].val = LETTER <=> fifo[k].at <= LineLengths[fifo[k].id]
      /\ fifo[k].val = NL <=> fifo[k].at > LineLengths[fifo[k].id] + 1
      /\ fifo[k].val \in {LETTER, NL, CR}
  BY <1>1, HeardIs
<1>3. LineLengths[fifo[k].id] \in Nat /\ Len(end) \in Nat
  BY <1>1, <1>2, Constants, EndIs
<1>4. fifo[k].val = NL => ~Key(fifo[k].id, fifo[k].at)
  BY <1>2, <1>3 DEF Key
<1>5. fifo[k].at > 0 /\ (fifo[k].at <= LineLengths[fifo[k].id] <=> ~(fifo[k].at > LineLengths[fifo[k].id]))
  BY <1>2, <1>3
<1> QED BY <1>2, <1>3, <1>4, <1>5

(* Where the mug heard nobody but the host. *)
LEMMA LineBoth ==
  ASSUME TypesInv, HostOnly
  PROVE  /\ Len(Line) = Len(buf) + Len(fifo) /\ Len(buf) \in Nat /\ Len(fifo) \in Nat
         /\ \A k \in 1 .. Len(buf) : Line[k] = buf[k]
         /\ \A k \in 1 .. Len(fifo) : Line[Len(buf) + k] = fifo[k]
<1>1. buf \in Seq(Heard) /\ fifo \in Seq(Heard)
  BY DEF TypesInv, QueueTypes
<1>2. \A k \in 1 .. Len(fifo) : fifo[k].from = "host"
  BY DEF HostOnly
<1> QED BY <1>1, <1>2, LineIs DEF Line

(* All of them are somewhere in the lines. *)
LEMMA LinePlaced ==
  ASSUME TypesInv, HostLine
  PROVE  /\ Placed(Line) /\ Len(Line) \in Nat /\ Line \in Seq(Heard)
         /\ Coming.id \in Nat /\ Coming.at \in Nat /\ Coming.at > 0
<1>1. buf \in Seq(Heard) /\ fifo \in Seq(Heard)
  BY DEF TypesInv, QueueTypes
<1>2. Placed(buf)
  BY Letters DEF Placed
<1>3. CASE HostOnly
  <2>1. /\ Line \in Seq(Heard) /\ Len(Line) = Len(buf) + Len(fifo) /\ Len(buf) \in Nat /\ Len(fifo) \in Nat
        /\ \A k \in 1 .. Len(buf) : Line[k] = buf[k]
        /\ \A k \in 1 .. Len(fifo) : Line[Len(buf) + k] = fifo[k]
    BY <1>1, <1>3, LineIs DEF HostOnly, Line
  <2>2. ASSUME NEW k \in 1 .. Len(Line) PROVE Line[k].id \in Lines /\ Line[k].at \in Nat /\ Line[k].at > 0
    <3>1. CASE k <= Len(buf)
      <4>1. k \in 1 .. Len(buf)
        BY <2>1, <3>1
      <4> QED BY <1>2, <2>1, <4>1 DEF Placed
    <3>2. CASE k > Len(buf)
      <4>1. k - Len(buf) \in 1 .. Len(fifo) /\ Len(buf) + (k - Len(buf)) = k
        BY <2>1, <3>2
      <4>2. Line[k] = fifo[k - Len(buf)] /\ fifo[k - Len(buf)].from = "host"
        BY <1>3, <2>1, <4>1 DEF HostOnly
      <4> QED BY <4>1, <4>2, Queued
    <3> QED BY <2>1, <3>1, <3>2
  <2> QED BY <2>1, <2>2 DEF Placed, Coming, TypesInv, HostTypes
<1>4. CASE ~HostOnly
  <2>1. Line = buf
    BY <1>1, <1>4, LineAlone DEF HostOnly, Line
  <2> QED BY <1>1, <1>2, <2>1 DEF Coming, TypesInv, HostTypes
<1> QED BY <1>3, <1>4

(* Lines can only get worse. *)
LEMMA Worse ==
  ASSUME NEW lost, NEW more, lost \subseteq more
  PROVE  /\ \A l : Fine(l, more) => Fine(l, lost)
         /\ \A b : WellBegun(b, lost) => WellBegun(b, more)
         /\ \A u : OneLine(u, lost) => OneLine(u, more)
         /\ \A u, c : NoGap(u, c, lost) => NoGap(u, c, more)
<1>1. \A l : Fine(l, more) => Fine(l, lost)
  BY DEF Fine
<1>2. \A u, c : NoGap(u, c, lost) => NoGap(u, c, more)
  BY DEF NoGap
<1> QED BY <1>1, <1>2 DEF WellBegun, OneLine

(* The inductive invariant of the lines, where nothing was disturbed. *)
Sound ==
  /\ Ordered(Line, Coming) /\ NoGap(Line, Coming, damaged)
  /\ WellBegun(First(Line, Coming), damaged) /\ OneLine(buf, damaged)

(* Nothing happens to the lines. *)
LEMMA LinesStill ==
  ASSUME Sound, Line' = Line, UNCHANGED <<buf, typed>>, damaged \subseteq damaged'
  PROVE  Sound'
<1>1. Coming' = Coming
  BY DEF Coming
<1> QED BY <1>1, Worse DEF Sound

(* A mug that waits takes a byte of the host for one of the answer. *)
LEMMA LinesWaitRead ==
  ASSUME TypesInv, HostLine, Sound, ExchangeInv, ~disturbed, ~disturbed', WaitRead
  PROVE  Sound'
<1>1. /\ pc = "wait" /\ fifo # << >> /\ fifo' = Tail(fifo) /\ Head(fifo) = fifo[1] /\ UNCHANGED <<buf, typed>>
      /\ buf \in Seq(Heard) /\ fifo \in Seq(Heard) /\ fifo' \in Seq(Heard)
      /\ Len(fifo) \in Nat /\ Len(fifo) > 0 /\ Len(fifo') = Len(fifo) - 1
      /\ \A k \in 1 .. Len(fifo') : fifo'[k] = fifo[k + 1]
  BY Taken DEF WaitRead, TypesInv, QueueTypes, host
<1>2. damaged' = damaged \union LinesOf(<<fifo[1]>>)
  BY <1>1 DEF WaitRead, Damage
<1>3. Coming' = Coming
  BY <1>1 DEF Coming
<1>4. CASE ~HostOnly
  <2>1. Len(fifo) = 1
    BY <1>1, <1>4 DEF ExchangeInv, Asked, Answering, HostOnly
  <2>2. fifo' = << >> /\ Line = buf
    <3>1. Len(fifo') = 0
      BY <1>1, <2>1
    <3>2. fifo' = << >>
      BY <1>1, <3>1
    <3> QED BY <1>1, <1>4, <3>2, LineAlone DEF HostOnly, Line
  <2>3. Line' = Line
    BY <1>1, <2>2, LineAlone DEF Line
  <2> QED BY <1>1, <1>2, <2>3, LinesStill
<1>5. CASE HostOnly
  <2>1. 1 \in 1 .. Len(fifo) /\ fifo[1].from = "host" /\ fifo[1].val # NL
    <3>1. 1 \in 1 .. Len(fifo) /\ fifo[1].from = "host"
      BY <1>1, <1>5 DEF HostOnly
    <3>2. disturbed' = (disturbed \/ (Head(fifo).from = "host" /\ Head(fifo).val = NL))
      BY Zenon DEF WaitRead
    <3>3. ~(Head(fifo).from = "host" /\ Head(fifo).val = NL)
      BY <3>2, Zenon
    <3> QED BY <1>1, <3>1, <3>3
  <2>2. fifo[1].id \in damaged'
    <3>1. <<fifo[1]>> \in Seq(Heard) /\ 1 \in 1 .. Len(<<fifo[1]>>) /\ <<fifo[1]>>[1] = fifo[1]
      BY <1>1, <2>1
    <3> QED BY <1>2, <2>1, <3>1, InLinesOf
  <2>3. \A k \in 1 .. Len(fifo') : fifo'[k].from = "host"
    BY <1>1, <1>5 DEF HostOnly
  <2> DEFINE u == Line
             v == LineFrom(buf, fifo')
             r == Len(buf) + 1
  <2>4. /\ Len(u) = Len(buf) + Len(fifo) /\ Len(buf) \in Nat
        /\ \A k \in 1 .. Len(buf) : u[k] = buf[k]
        /\ \A k \in 1 .. Len(fifo) : u[Len(buf) + k] = fifo[k]
    BY <1>5, LineBoth
  <2>5. /\ Len(v) = Len(buf) + Len(fifo')
        /\ \A k \in 1 .. Len(buf) : v[k] = buf[k]
        /\ \A k \in 1 .. Len(fifo') : v[Len(buf) + k] = fifo'[k]
    <3>1. buf \in Seq(Heard) /\ fifo' \in Seq(Heard)
      BY <1>1
    <3> QED BY <2>3, <3>1, LineIs
  <2>6. Line' = v
    BY <1>1 DEF Line
  <2>7. /\ Len(u) \in Nat /\ Placed(u) /\ Coming.id \in Nat /\ Coming.at \in Nat
        /\ Ordered(u, Coming) /\ NoGap(u, Coming, damaged) /\ WellBegun(First(u, Coming), damaged)
    BY LinePlaced DEF Sound
  <2> HIDE DEF u, v
  <2>8. r \in 1 .. Len(u) /\ Len(v) = Len(u) - 1 /\ u[r] = fifo[1]
    BY <1>1, <2>1, <2>4, <2>5
  <2>9. ASSUME NEW k \in 1 .. Len(v) PROVE v[k] = IF k < r THEN u[k] ELSE u[k + 1]
    <3>1. CASE k < r
      <4>1. k \in 1 .. Len(buf)
        BY <2>4, <3>1
      <4> QED BY <2>4, <2>5, <3>1, <4>1
    <3>2. CASE ~(k < r)
      <4>1. /\ k - Len(buf) \in 1 .. Len(fifo') /\ Len(buf) + (k - Len(buf)) = k
            /\ (k - Len(buf)) + 1 \in 1 .. Len(fifo) /\ Len(buf) + ((k - Len(buf)) + 1) = k + 1
        BY <1>1, <2>4, <2>5, <3>2
      <4>2. v[k] = fifo'[k - Len(buf)]
        BY <2>5, <4>1
      <4>3. u[k + 1] = fifo[(k - Len(buf)) + 1]
        BY <2>4, <4>1
      <4>4. fifo'[k - Len(buf)] = fifo[(k - Len(buf)) + 1]
        BY <1>1, <4>1
      <4> QED BY <3>2, <4>2, <4>3, <4>4
    <3> QED BY <3>1, <3>2
  <2>10. damaged \subseteq damaged' /\ u[r].id \in damaged'
    BY <1>2, <2>2, <2>8
  <2> HIDE DEF r
  <2>11. Ordered(v, Coming) /\ NoGap(v, Coming, damaged')
    BY <2>7, <2>8, <2>9, <2>10, DroppedOne
  <2>12. WellBegun(First(v, Coming), damaged')
    <3>1. CASE Len(buf) = 0
      <4>1. r = 1
        BY <3>1 DEF r
      <4>2. First(v, Coming) = IF 1 = Len(u) THEN Coming ELSE u[2]
        <5>1. CASE Len(v) = 0
          BY <2>7, <2>8, <5>1 DEF First
        <5>2. CASE Len(v) # 0
          <6>1. 1 \in 1 .. Len(v) /\ 1 # Len(u)
            BY <2>7, <2>8, <5>2
          <6> QED BY <2>9, <4>1, <5>2, <6>1 DEF First
        <5> QED BY <5>1, <5>2
      <4>3. 1 \in 1 .. Len(u) /\ 1 + 1 = 2
        BY <2>8, <4>1
      <4> QED BY <2>7, <2>10, <4>1, <4>2, <4>3, BegunAfter
    <3>2. CASE Len(buf) # 0
      <4>1. 1 \in 1 .. Len(v) /\ 1 < r /\ Len(v) # 0 /\ Len(u) # 0
        BY <2>4, <2>5, <2>7, <2>8, <3>2, <1>1 DEF r
      <4>2. First(v, Coming) = First(u, Coming)
        BY <2>9, <4>1 DEF First
      <4> QED BY <2>7, <2>10, <4>2, Worse
    <3> QED BY <3>1, <3>2
  <2>13. OneLine(buf, damaged')
    BY <2>10, Worse DEF Sound
  <2> QED BY <1>1, <1>3, <2>6, <2>11, <2>12, <2>13 DEF Sound
<1> QED BY <1>4, <1>5

(* What is left of the lines when the terminal's buffer is empty. *)
LEMMA LineEmptyBuf ==
  ASSUME NEW S, NEW f \in Seq(S), \A k \in 1 .. Len(f) : f[k].from = "host"
  PROVE  /\ Len(LineFrom(<< >>, f)) = Len(f)
         /\ \A k \in 1 .. Len(f) : LineFrom(<< >>, f)[k] = f[k]
<1>1. PICK b \in Seq(S) : b = << >> /\ Len(b) = 0
  <2>1. << >> \in Seq(S) /\ Len(<< >>) = 0
    BY EmptySeq
  <2> QED BY <2>1
<1>2. /\ Len(LineFrom(b, f)) = Len(b) + Len(f) /\ Len(f) \in Nat
      /\ \A k \in 1 .. Len(f) : LineFrom(b, f)[Len(b) + k] = f[k]
  BY LineIs
<1> QED BY <1>1, <1>2

(* The mug turns to the terminal: the line it had there is gone. *)
LEMMA LinesEnter ==
  ASSUME TypesInv, HostLine, HostOnly, Sound, ~disturbed', EnterTerminal
  PROVE  Sound'
<1>1. /\ buf' = << >> /\ UNCHANGED <<fifo, typed>> /\ buf \in Seq(Heard) /\ fifo \in Seq(Heard)
      /\ damaged' = damaged \union LinesOf(buf)
  BY DEF EnterTerminal, TypesInv, QueueTypes, host, Damage
<1>2. Coming' = Coming
  BY <1>1 DEF Coming
<1> DEFINE u == Line
           v == LineFrom(<< >>, fifo)
           q == Len(buf)
<1>3. /\ Len(u) = Len(buf) + Len(fifo) /\ Len(buf) \in Nat /\ Len(fifo) \in Nat
      /\ \A k \in 1 .. Len(buf) : u[k] = buf[k]
      /\ \A k \in 1 .. Len(fifo) : u[Len(buf) + k] = fifo[k]
  BY LineBoth
<1>4. Len(v) = Len(fifo) /\ \A k \in 1 .. Len(fifo) : v[k] = fifo[k]
  <2>1. \A k \in 1 .. Len(fifo) : fifo[k].from = "host"
    BY DEF HostOnly
  <2> QED BY <1>1, <2>1, LineEmptyBuf
<1>5. Line' = v
  BY <1>1 DEF Line
<1>6. /\ Len(u) \in Nat /\ Placed(u) /\ Coming.id \in Nat /\ Coming.at \in Nat
      /\ Ordered(u, Coming) /\ NoGap(u, Coming, damaged) /\ WellBegun(First(u, Coming), damaged)
  BY LinePlaced DEF Sound
<1> HIDE DEF u, v
<1>7. /\ damaged \subseteq damaged' /\ q \in 0 .. Len(u) /\ Len(v) = Len(u) - q
      /\ \A k \in 1 .. Len(v) : v[k] = u[q + k]
  BY <1>1, <1>3, <1>4
<1> HIDE DEF q
<1>8. /\ Ordered(v, Coming) /\ NoGap(v, Coming, damaged')
      /\ First(v, Coming) = IF q = Len(u) THEN Coming ELSE u[q + 1]
  <2>1. Placed(v) /\ Ordered(v, Coming) /\ NoGap(v, Coming, damaged')
    BY <1>6, <1>7, Dropped
  <2>2. First(v, Coming) = IF q = Len(u) THEN Coming ELSE u[q + 1]
    BY <1>6, <1>7, FirstLeft
  <2> QED BY <2>1, <2>2
<1>9. WellBegun(First(v, Coming), damaged')
  <2>1. CASE q = 0
    <3>1. First(v, Coming) = First(u, Coming)
      BY <1>6, <1>8, <2>1 DEF First
    <3> QED BY <1>6, <1>7, <3>1, Worse
  <2>2. CASE q # 0
    <3>1. q \in 1 .. Len(buf) /\ q \in 1 .. Len(u) /\ u[q] = buf[q]
      BY <1>3, <1>7, <2>2 DEF q
    <3>2. u[q].id \in damaged'
      BY <1>1, <3>1, Letters, InLinesOf
    <3> QED BY <1>6, <1>7, <1>8, <3>1, <3>2, BegunAfter
  <2> QED BY <2>1, <2>2
<1>10. OneLine(buf', damaged')
  BY <1>1 DEF OneLine
<1> QED BY <1>2, <1>5, <1>8, <1>9, <1>10 DEF Sound

(* The mug turns from the terminal: what was not read is gone. *)
LEMMA LinesFlush ==
  ASSUME TypesInv, HostLine, HostOnly, Sound, ~disturbed', Flush
  PROVE  Sound'
<1>1. /\ fifo' = << >> /\ UNCHANGED <<buf, typed>> /\ buf \in Seq(Heard) /\ fifo \in Seq(Heard)
      /\ damaged' = damaged \union LinesOf(fifo)
  BY DEF Flush, TypesInv, QueueTypes, host, Damage
<1>2. Coming' = Coming
  BY <1>1 DEF Coming
<1> DEFINE u == Line
<1>3. /\ Len(u) = Len(buf) + Len(fifo) /\ Len(buf) \in Nat /\ Len(fifo) \in Nat
      /\ \A k \in 1 .. Len(buf) : u[k] = buf[k]
      /\ \A k \in 1 .. Len(fifo) : u[Len(buf) + k] = fifo[k]
  BY LineBoth
<1>4. Line' = buf
  BY <1>1, LineAlone DEF Line
<1>5. /\ Len(u) \in Nat /\ Placed(u) /\ Coming.id \in Nat /\ Coming.at \in Nat
      /\ Ordered(u, Coming) /\ NoGap(u, Coming, damaged) /\ WellBegun(First(u, Coming), damaged)
  BY LinePlaced DEF Sound
<1> HIDE DEF u
<1>6. ASSUME NEW k \in 1 .. Len(fifo)
      PROVE  fifo[k].id \in damaged' \/ (fifo[k].val = NL /\ ~Key(fifo[k].id, fifo[k].at)
                                         /\ fifo[k].at > LineLengths[fifo[k].id])
  <2>1. fifo[k].from = "host"
    BY DEF HostOnly
  <2>2. CASE fifo[k].val # NL
    BY <1>1, <2>1, <2>2, InLinesOf
  <2>3. CASE fifo[k].val = NL
    BY <2>1, <2>3, Queued DEF NL, LETTER
  <2> QED BY <2>2, <2>3
<1>7. ASSUME NEW j \in Len(buf) + 1 .. Len(u)
      PROVE  u[j].id \in damaged' \/ (~Key(u[j].id, u[j].at) /\ u[j].at > LineLengths[u[j].id])
  <2>1. j - Len(buf) \in 1 .. Len(fifo) /\ Len(buf) + (j - Len(buf)) = j
    BY <1>3
  <2>2. u[j] = fifo[j - Len(buf)]
    BY <1>3, <2>1
  <2> QED BY <1>6, <2>1, <2>2
<1>8. damaged \subseteq damaged' /\ Len(buf) \in 0 .. Len(u)
  BY <1>1, <1>3
<1>9. Ordered(buf, Coming) /\ NoGap(buf, Coming, damaged')
  BY <1>3, <1>5, <1>7, <1>8, CutOff
<1>10. WellBegun(First(buf, Coming), damaged')
  <2>1. CASE Len(buf) # 0
    <3>1. 1 \in 1 .. Len(buf) /\ Len(u) # 0
      BY <1>3, <2>1
    <3>2. First(buf, Coming) = First(u, Coming)
      BY <1>3, <2>1, <3>1 DEF First
    <3> QED BY <1>5, <1>8, <3>2, Worse
  <2>2. CASE Len(buf) = 0 /\ Len(u) = 0
    <3>1. First(buf, Coming) = First(u, Coming)
      BY <2>2 DEF First
    <3> QED BY <1>5, <1>8, <3>1, Worse
  <2>3. CASE Len(buf) = 0 /\ Len(u) # 0
    <3>1. Len(u) \in 1 .. Len(u) /\ Len(u) \in Len(buf) + 1 .. Len(u)
      BY <1>5, <2>3
    <3>2. u[Len(u)].id \in damaged' \/ u[Len(u)].at > LineLengths[u[Len(u)].id]
      BY <1>7, <3>1
    <3>3. WellBegun(Coming, damaged')
      BY <1>5, <1>8, <3>1, <3>2, BegunAfter
    <3> QED BY <2>3, <3>3 DEF First
  <2> QED BY <2>1, <2>2, <2>3
<1>11. OneLine(buf, damaged')
  BY <1>8, Worse DEF Sound
<1> QED BY <1>1, <1>2, <1>4, <1>9, <1>10, <1>11 DEF Sound

(* A whole buffer of a line was taken away: the next starts where it may. *)
LEMMA NextBuffer ==
  ASSUME NEW n \in Nat, NEW m \in Nat, Boundary(n), m = n + BufferSize
  PROVE  Boundary(m)
<1>1. PICK t \in 0 .. n : n - 1 = t * BufferSize
  BY DEF Boundary
<1>2. BufferSize \in Nat /\ BufferSize > 0 /\ t \in Nat
  BY Constants
<1>3. (t + 1) * BufferSize = t * BufferSize + BufferSize
  BY <1>2
<1>4. t * BufferSize \in Nat
  BY <1>2
<1>5. m - 1 = (t + 1) * BufferSize
  BY <1>1, <1>2, <1>3, <1>4
<1>6. t + 1 \in 0 .. m
  BY <1>2
<1> QED BY <1>5, <1>6 DEF Boundary

(* A full buffer is given up. *)
LEMMA LinesGiveUp ==
  ASSUME TypesInv, HostLine, HostOnly, Sound, GiveUpLine
  PROVE  Sound'
<1>1. /\ buf' = << >> /\ UNCHANGED <<fifo, typed, damaged>> /\ buf \in Seq(Heard) /\ fifo \in Seq(Heard)
      /\ Len(buf) = BufferSize
  BY Constants DEF GiveUpLine, Overflow, StartOfLine, TypesInv, QueueTypes, host, history
<1>2. Coming' = Coming
  BY <1>1 DEF Coming
<1> DEFINE u == Line
           v == LineFrom(<< >>, fifo)
           q == Len(buf)
<1>3. /\ Len(u) = Len(buf) + Len(fifo) /\ Len(buf) \in Nat /\ Len(fifo) \in Nat
      /\ \A k \in 1 .. Len(buf) : u[k] = buf[k]
      /\ \A k \in 1 .. Len(fifo) : u[Len(buf) + k] = fifo[k]
  BY LineBoth
<1>4. Len(v) = Len(fifo) /\ \A k \in 1 .. Len(fifo) : v[k] = fifo[k]
  <2>1. \A k \in 1 .. Len(fifo) : fifo[k].from = "host"
    BY DEF HostOnly
  <2> QED BY <1>1, <2>1, LineEmptyBuf
<1>5. Line' = v
  BY <1>1 DEF Line
<1>6. /\ Len(u) \in Nat /\ Placed(u) /\ Coming.id \in Nat /\ Coming.at \in Nat
      /\ Ordered(u, Coming) /\ NoGap(u, Coming, damaged)
  BY LinePlaced DEF Sound
<1> HIDE DEF u, v
<1>7. /\ q \in 0 .. Len(u) /\ Len(v) = Len(u) - q
      /\ \A k \in 1 .. Len(v) : v[k] = u[q + k]
  BY <1>3, <1>4
<1> DEFINE b == IF q = Len(u) THEN Coming ELSE u[q + 1]
<1>8. q \in 1 .. Len(u) /\ q \in 1 .. Len(buf) /\ q = BufferSize /\ u[q] = buf[q]
  BY <1>1, <1>3, Constants
<1> HIDE DEF q
<1>9. Ordered(v, Coming) /\ NoGap(v, Coming, damaged)
  BY <1>6, <1>7, Dropped
<1>10. First(v, Coming) = b
  <2>1. Len(u) \in Nat
    BY <1>6
  <2>2. First(v, Coming) = IF q = Len(u) THEN Coming ELSE u[q + 1]
    BY <1>7, <2>1, FirstLeft, SMTT(60)
  <2> QED BY <2>2
<1>11. WellBegun(b, damaged)
  <2>1. SUFFICES ASSUME Key(b.id, b.at), Fine(b.id, damaged) PROVE Boundary(b.at)
    BY DEF WellBegun
  <2>2. b.id \notin damaged
    BY <2>1 DEF Fine
  <2> HIDE DEF b
  <2>3. b.at = 1 \/ (u[q].id = b.id /\ u[q].at = b.at - 1)
    BY <1>6, <1>8, <2>1, <2>2, Follows DEF b
  <2>4. CASE u[q].id = b.id /\ u[q].at = b.at - 1
    <3>1. buf[q].at = buf[1].at + q - 1 /\ Boundary(buf[1].at)
      BY <1>8, <2>1, <2>4 DEF Sound, OneLine
    <3>2. 1 \in 1 .. Len(buf)
      BY <1>3, <1>8
    <3>3. buf[1].at \in Nat /\ buf[q].at \in Nat
      BY <1>8, <3>2, Letters
    <3>4. b.at \in Nat
      BY <2>1, Constants DEF Key
    <3>5. b.at = buf[1].at + BufferSize
      <4>1. buf[q].at = b.at - 1 /\ buf[q].at = buf[1].at + BufferSize - 1
        BY <1>8, <2>4, <3>1
      <4>2. \A x \in Nat, y \in Nat, z \in Nat : x - 1 = y + z - 1 => x = y + z
        OBVIOUS
      <4>3. BufferSize \in Nat /\ b.at - 1 = buf[1].at + BufferSize - 1
        BY <4>1, Constants
      <4> QED BY <3>3, <3>4, <4>2, <4>3
    <3> QED BY <3>1, <3>3, <3>4, <3>5, NextBuffer
  <2> QED BY <2>3, <2>4, AtOne
<1>12. OneLine(buf', damaged)
  BY <1>1 DEF OneLine
<1> QED BY <1>1, <1>2, <1>5, <1>9, <1>10, <1>11, <1>12 DEF Sound

(* The terminal reads a byte that is no letter: what it had is done with. *)
LEMMA LinesEndRead ==
  ASSUME TypesInv, HostLine, HostOnly, Sound, ReadChar, Head(fifo).val \in {NL, CR}
  PROVE  Sound'
<1>1. /\ buf' = << >> /\ fifo # << >> /\ fifo' = Tail(fifo) /\ Head(fifo) = fifo[1] /\ UNCHANGED <<typed, damaged>>
      /\ Len(fifo) \in Nat /\ Len(fifo) > 0 /\ Len(fifo') = Len(fifo) - 1 /\ fifo' \in Seq(Heard)
      /\ \A k \in 1 .. Len(fifo') : fifo'[k] = fifo[k + 1]
  BY Taken DEF ReadChar, TerminalReads, TypesInv, host
<1>2. Coming' = Coming
  BY <1>1 DEF Coming
<1>3. \A k \in 1 .. Len(fifo') : fifo'[k].from = "host"
  BY <1>1 DEF HostOnly
<1> DEFINE u == Line
           v == LineFrom(<< >>, fifo')
           q == Len(buf) + 1
<1>4. /\ Len(u) = Len(buf) + Len(fifo) /\ Len(buf) \in Nat /\ Len(fifo) \in Nat
      /\ \A k \in 1 .. Len(buf) : u[k] = buf[k]
      /\ \A k \in 1 .. Len(fifo) : u[Len(buf) + k] = fifo[k]
  BY LineBoth
<1>5. Len(v) = Len(fifo') /\ \A k \in 1 .. Len(fifo') : v[k] = fifo'[k]
  BY <1>1, <1>3, LineEmptyBuf
<1>6. Line' = v
  BY <1>1 DEF Line
<1>7. /\ Len(u) \in Nat /\ Placed(u) /\ Coming.id \in Nat /\ Coming.at \in Nat
      /\ Ordered(u, Coming) /\ NoGap(u, Coming, damaged)
  BY LinePlaced DEF Sound
<1> HIDE DEF u, v
<1>8. q \in 0 .. Len(u) /\ q \in 1 .. Len(u) /\ Len(v) = Len(u) - q
  BY <1>1, <1>4, <1>5
<1>9. ASSUME NEW k \in 1 .. Len(v) PROVE v[k] = u[q + k]
  <2>1. k + 1 \in 1 .. Len(fifo) /\ Len(buf) + (k + 1) = q + k /\ k \in 1 .. Len(fifo')
    BY <1>1, <1>4, <1>5
  <2>2. u[Len(buf) + (k + 1)] = fifo[k + 1]
    BY <1>4, <2>1
  <2> QED BY <1>1, <1>5, <2>1, <2>2
<1>10. u[q] = fifo[1] /\ u[q].at > LineLengths[u[q].id]
  <2>1. 1 \in 1 .. Len(fifo) /\ fifo[1].from = "host" /\ fifo[1].val # LETTER
    BY <1>1 DEF HostOnly, NL, CR, LETTER
  <2>2. u[q] = fifo[1]
    BY <1>4, <2>1
  <2> QED BY <2>1, <2>2, Queued
<1> DEFINE b == IF q = Len(u) THEN Coming ELSE u[q + 1]
<1> HIDE DEF q
<1>11. Ordered(v, Coming) /\ NoGap(v, Coming, damaged)
  BY <1>7, <1>8, <1>9, Dropped
<1>12. First(v, Coming) = b
  <2>1. Len(u) \in Nat
    BY <1>7
  <2>2. First(v, Coming) = IF q = Len(u) THEN Coming ELSE u[q + 1]
    BY <1>8, <1>9, <2>1, FirstLeft, SMTT(60)
  <2> QED BY <2>2
<1>13. WellBegun(b, damaged)
  BY <1>7, <1>8, <1>10, BegunAfter
<1>14. OneLine(buf', damaged)
  BY <1>1 DEF OneLine
<1> QED BY <1>1, <1>2, <1>6, <1>11, <1>12, <1>13, <1>14 DEF Sound

(* A letter of a whole line comes right behind the letters before it. *)
LEMMA RightBehind ==
  ASSUME TypesInv, HostLine, HostOnly, Sound, Len(buf) > 0, Len(fifo) > 0, fifo[1].val = LETTER,
         Fine(buf[Len(buf)].id, damaged) \/ Fine(fifo[1].id, damaged)
  PROVE  /\ Fine(buf[Len(buf)].id, damaged)
         /\ fifo[1].id = buf[Len(buf)].id /\ fifo[1].at = buf[Len(buf)].at + 1
<1> DEFINE q == Len(buf)
           u == Line
           p == buf[q]
           h == fifo[1]
<1>1. /\ Len(u) = q + Len(fifo) /\ q \in Nat /\ Len(fifo) \in Nat
      /\ \A k \in 1 .. q : u[k] = buf[k]
      /\ \A k \in 1 .. Len(fifo) : u[q + k] = fifo[k]
  BY LineBoth
<1>2. /\ Len(u) \in Nat /\ Placed(u) /\ Coming.id \in Nat /\ Coming.at \in Nat
      /\ Ordered(u, Coming) /\ NoGap(u, Coming, damaged)
  BY LinePlaced DEF Sound
<1> HIDE DEF u
<1>3. q \in 1 .. q /\ q \in 1 .. Len(u) /\ q + 1 \in 1 .. Len(u) /\ q # Len(u) /\ 1 \in 1 .. Len(fifo)
  BY <1>1
<1>4. u[q] = p /\ u[q + 1] = h
  BY <1>1, <1>3
<1>5. /\ p.id \in Lines /\ p.id \in Nat /\ p.at \in Nat /\ p.at > 0 /\ p.at <= LineLengths[p.id]
      /\ LineLengths[p.id] \in Nat
  BY <1>3, Letters, Constants
<1>6. /\ h.id \in Lines /\ h.id \in Nat /\ h.at \in Nat /\ h.at > 0 /\ h.at <= LineLengths[h.id]
      /\ LineLengths[h.id] \in Nat
  BY <1>3, Queued, Constants DEF HostOnly
<1>7. Earlier(p.id, p.at, h.id, h.at)
  <2>1. q < q + 1
    BY <1>1
  <2> QED BY <1>2, <1>3, <1>4, <2>1 DEF Ordered, Before
<1>8. h = IF q = Len(u) THEN Coming ELSE u[q + 1]
  BY <1>3, <1>4
<1> HIDE DEF q, p, h
<1>9. ASSUME NEW l \in Lines, NEW n \in 1 .. LineLengths[l] + 1, l \notin damaged,
             Earlier(p.id, p.at, l, n), Earlier(l, n, h.id, h.at)
      PROVE  FALSE
  BY <1>2, <1>3, <1>4, <1>8, <1>9, NoneBetween
<1>10. h.id = p.id
  <2>1. SUFFICES ASSUME h.id # p.id PROVE FALSE
    OBVIOUS
  <2>2. p.id < h.id
    BY <1>5, <1>6, <1>7, <2>1 DEF Earlier
  <2>3. CASE Fine(p.id, damaged)
    <3>1. LineLengths[p.id] + 1 \in 1 .. LineLengths[p.id] + 1 /\ p.id \notin damaged
      BY <1>5, <2>3 DEF Fine
    <3>2. Earlier(p.id, p.at, p.id, LineLengths[p.id] + 1)
      BY <1>5 DEF Earlier
    <3>3. Earlier(p.id, LineLengths[p.id] + 1, h.id, h.at)
      BY <2>2 DEF Earlier
    <3> QED BY <1>5, <1>9, <3>1, <3>2, <3>3
  <2>4. CASE Fine(h.id, damaged)
    <3> DEFINE l == h.id - 1
    <3>1. l \in Lines /\ l \in Nat /\ LineLengths[l] \in Nat
      <4>1. Lines = 1 .. Len(LineLengths) /\ Len(LineLengths) \in Nat
        BY Constants
      <4>2. l \in Lines /\ l \in Nat
        BY <1>5, <1>6, <2>2, <4>1
      <4> HIDE DEF l
      <4> QED BY <4>2, Constants
    <3>2. l \notin damaged
      BY <2>4 DEF Fine
    <3>3. l < h.id /\ (p.id < l \/ p.id = l)
      BY <1>5, <1>6, <2>2
    <3> HIDE DEF l
    <3>4. LineLengths[l] + 1 \in 1 .. LineLengths[l] + 1
      BY <3>1
    <3>5. Earlier(p.id, p.at, l, LineLengths[l] + 1)
      BY <1>5, <3>1, <3>3 DEF Earlier
    <3>6. Earlier(l, LineLengths[l] + 1, h.id, h.at)
      BY <3>3 DEF Earlier
    <3> QED BY <1>9, <3>1, <3>2, <3>4, <3>5, <3>6
  <2> QED BY <2>3, <2>4 DEF p, h, q
<1>11. Fine(p.id, damaged)
  BY <1>10 DEF p, h, q
<1>12. h.at = p.at + 1
  <2>1. p.id \notin damaged /\ h.id \notin damaged
    BY <1>10, <1>11 DEF Fine
  <2>2. Key(h.id, h.at)
    BY <1>6 DEF Key
  <2>3. h.at = 1 \/ (u[q].id = h.id /\ u[q].at = h.at - 1)
    BY <1>2, <1>3, <1>8, <2>1, <2>2, Follows
  <2>4. h.at # 1
    BY <1>5, <1>6, <1>7, <1>10 DEF Earlier
  <2> QED BY <1>4, <1>5, <1>6, <2>3, <2>4
<1> QED BY <1>10, <1>11, <1>12 DEF p, h, q

(* The terminal reads a letter. *)
LEMMA LinesLetter ==
  ASSUME TypesInv, HostLine, HostOnly, Sound, ReadChar, Head(fifo).val \notin {NL, CR}
  PROVE  Sound'
<1> DEFINE q == Len(buf)
           h == fifo[1]
           w == Append(buf, h)
<1>1. /\ buf' = w /\ fifo # << >> /\ fifo' = Tail(fifo) /\ Head(fifo) = h /\ UNCHANGED <<typed, damaged>>
      /\ Len(fifo) \in Nat /\ Len(fifo) > 0 /\ Len(fifo') = Len(fifo) - 1 /\ fifo' \in Seq(Heard)
      /\ h \in Heard
      /\ \A k \in 1 .. Len(fifo') : fifo'[k] = fifo[k + 1]
  BY Taken DEF ReadChar, TerminalReads, TypesInv, host
<1>2. Coming' = Coming
  BY <1>1 DEF Coming
<1>3. buf \in Seq(Heard) /\ q \in Nat
  BY DEF TypesInv, QueueTypes
<1>4. /\ w \in Seq(Heard) /\ Len(w) = q + 1 /\ w[q + 1] = h
      /\ \A k \in 1 .. q : w[k] = buf[k]
  BY <1>1, <1>3, AppendProperties
<1> HIDE DEF w
<1>5. \A k \in 1 .. Len(fifo') : fifo'[k].from = "host"
  BY <1>1 DEF HostOnly
<1> DEFINE u == Line
           v == LineFrom(w, fifo')
<1>6. /\ Len(u) = q + Len(fifo) /\ Len(fifo) \in Nat
      /\ \A k \in 1 .. q : u[k] = buf[k]
      /\ \A k \in 1 .. Len(fifo) : u[q + k] = fifo[k]
  BY LineBoth
<1>7. /\ v \in Seq(Heard) /\ Len(v) = Len(w) + Len(fifo')
      /\ \A k \in 1 .. Len(w) : v[k] = w[k]
      /\ \A k \in 1 .. Len(fifo') : v[Len(w) + k] = fifo'[k]
  <2>1. w \in Seq(Heard) /\ fifo' \in Seq(Heard)
    BY <1>1, <1>4
  <2>2. LineFrom(w, fifo') \in Seq(Heard)
    BY <1>5, <2>1, LineIs
  <2>3. /\ Len(LineFrom(w, fifo')) = Len(w) + Len(fifo')
        /\ \A k \in 1 .. Len(w) : LineFrom(w, fifo')[k] = w[k]
        /\ \A k \in 1 .. Len(fifo') : LineFrom(w, fifo')[Len(w) + k] = fifo'[k]
    BY <1>5, <2>1, LineIs
  <2> QED BY <2>2, <2>3
<1>8. u \in Seq(Heard)
  BY LinePlaced
<1>9. Line' = v
  BY <1>1 DEF Line
<1> HIDE DEF u, v, h
<1>10. v = u
  <2>1. Len(v) = Len(u)
    BY <1>1, <1>3, <1>4, <1>6, <1>7
  <2>2. ASSUME NEW k \in 1 .. Len(u) PROVE v[k] = u[k]
    <3>1. CASE k \in 1 .. q
      <4>1. k \in 1 .. Len(w)
        BY <1>3, <1>4, <3>1
      <4> QED BY <1>4, <1>6, <1>7, <3>1, <4>1
    <3>2. CASE k = q + 1
      <4>1. k \in 1 .. Len(w) /\ 1 \in 1 .. Len(fifo)
        BY <1>1, <1>3, <1>4, <3>2
      <4>2. v[k] = h /\ u[k] = fifo[1]
        BY <1>4, <1>6, <1>7, <3>2, <4>1
      <4> QED BY <4>2 DEF h
    <3>3. CASE k > q + 1
      <4>1. /\ k - (q + 1) \in 1 .. Len(fifo') /\ Len(w) + (k - (q + 1)) = k
            /\ (k - (q + 1)) + 1 \in 1 .. Len(fifo) /\ q + ((k - (q + 1)) + 1) = k
        BY <1>1, <1>3, <1>4, <1>6, <3>3
      <4>2. v[k] = fifo'[k - (q + 1)]
        BY <1>7, <4>1
      <4>3. u[k] = fifo[(k - (q + 1)) + 1]
        BY <1>6, <4>1
      <4>4. fifo'[k - (q + 1)] = fifo[(k - (q + 1)) + 1]
        BY <1>1, <4>1
      <4> QED BY <4>2, <4>3, <4>4
    <3>4. k \in 1 .. q \/ k = q + 1 \/ k > q + 1
      BY <1>3
    <3> QED BY <3>1, <3>2, <3>3, <3>4
  <2> QED BY <1>7, <1>8, <2>1, <2>2, SeqEqual
<1>11. h = fifo[1] /\ 1 \in 1 .. Len(fifo) /\ fifo[1].from = "host" /\ h.val = LETTER
  <2>1. h = fifo[1] /\ 1 \in 1 .. Len(fifo) /\ fifo[1].from = "host" /\ h.val \notin {NL, CR}
    BY <1>1 DEF h, HostOnly
  <2>2. fifo[1].val \in {LETTER, NL, CR}
    BY <2>1, Queued
  <2> QED BY <2>1, <2>2
<1>12. /\ h.id \in Lines /\ h.at \in Nat /\ h.at > 0 /\ LineLengths[h.id] \in Nat /\ h.at <= LineLengths[h.id]
  BY <1>11, Queued
<1>13. OneLine(w, damaged)
  <2>1. SUFFICES ASSUME NEW j \in 1 .. Len(w), Fine(w[j].id, damaged)
                 PROVE  /\ \A k \in 1 .. Len(w) : w[k].id = w[j].id /\ w[k].at = w[1].at + k - 1
                        /\ Boundary(w[1].at)
    BY DEF OneLine
  <2>2. CASE q = 0
    <3>1. j = 1 /\ w[1] = h /\ \A k \in 1 .. Len(w) : k = 1
      BY <1>4, <2>2
    <3>2. First(u, Coming) = h
      <4>1. Len(u) # 0 /\ u[0 + 1] = fifo[1] /\ 0 + 1 = 1
        BY <1>1, <1>6, <1>11, <2>2
      <4> QED BY <1>11, <4>1 DEF First
    <3>3. Key(h.id, h.at)
      BY <1>12 DEF Key
    <3>4. Boundary(h.at)
      BY <2>1, <3>1, <3>2, <3>3 DEF Sound, WellBegun, u
    <3> QED BY <1>12, <3>1, <3>4
  <2>3. CASE q # 0
    <3>1. q \in 1 .. q /\ Len(buf) > 0
      BY <1>3, <2>3
    <3>2. Fine(buf[q].id, damaged) \/ Fine(h.id, damaged)
      <4>1. CASE j \in 1 .. q
        BY <1>4, <2>1, <3>1, <4>1 DEF Sound, OneLine
      <4>2. CASE j = q + 1
        BY <1>4, <2>1, <4>2
      <4>3. j \in 1 .. q \/ j = q + 1
        BY <1>3, <1>4
      <4> QED BY <4>1, <4>2, <4>3
    <3>3. Fine(buf[q].id, damaged) /\ h.id = buf[q].id /\ h.at = buf[q].at + 1
      BY <1>1, <1>11, <3>1, <3>2, RightBehind
    <3>4. /\ \A k \in 1 .. q : buf[k].id = buf[q].id /\ buf[k].at = buf[1].at + k - 1
          /\ Boundary(buf[1].at)
      BY <3>1, <3>3 DEF Sound, OneLine
    <3>5. 1 \in 1 .. q /\ w[1] = buf[1] /\ w[1].at \in Nat
      <4>1. 1 \in 1 .. q
        BY <1>3, <2>3
      <4> QED BY <1>4, <4>1, Letters
    <3>6. ASSUME NEW k \in 1 .. Len(w) PROVE w[k].id = buf[q].id /\ w[k].at = w[1].at + k - 1
      <4>1. CASE k \in 1 .. q
        BY <1>4, <3>4, <3>5, <4>1
      <4>2. CASE k = q + 1
        <5>1. h.at = (buf[1].at + q - 1) + 1
          BY <3>1, <3>3, <3>4
        <5>2. h.at = w[1].at + (q + 1) - 1
          BY <1>3, <3>5, <5>1
        <5> QED BY <1>4, <3>3, <4>2, <5>2
      <4>3. k \in 1 .. q \/ k = q + 1
        BY <1>3, <1>4
      <4> QED BY <4>1, <4>2, <4>3
    <3> QED BY <2>1, <3>4, <3>5, <3>6
  <2> QED BY <2>2, <2>3
<1>14. Ordered(u, Coming) /\ NoGap(u, Coming, damaged) /\ WellBegun(First(u, Coming), damaged)
  BY DEF Sound, u
<1> QED BY <1>1, <1>2, <1>9, <1>10, <1>13, <1>14 DEF Sound

(* What the terminal carries out is a whole line, but for whole buffers. *)
LEMMA WholeLine ==
  ASSUME TypesInv, HostLine, HostOnly, Sound, Len(fifo) > 0, fifo[1].val \in {NL, CR},
         NEW l \in LinesOf(buf), Fine(l, damaged)
  PROVE  \E skipped \in {n * BufferSize : n \in 0 .. LineLengths[l]} :
           buf = [k \in 1 .. LineLengths[l] - skipped |-> Byte("host", l, skipped + k, LETTER)]
<1> DEFINE q == Len(buf)
           u == Line
           p == buf[q]
           h == fifo[1]
<1>1. buf \in Seq(Heard) /\ q \in Nat
  BY DEF TypesInv, QueueTypes
<1>2. PICK j \in 1 .. q : buf[j].id = l
  BY <1>1 DEF LinesOf
<1>3. /\ \A k \in 1 .. q : buf[k].id = l /\ buf[k].at = buf[1].at + k - 1
      /\ Boundary(buf[1].at)
  BY <1>2 DEF Sound, OneLine
<1>4. /\ Len(u) = q + Len(fifo) /\ Len(fifo) \in Nat
      /\ \A k \in 1 .. q : u[k] = buf[k]
      /\ \A k \in 1 .. Len(fifo) : u[q + k] = fifo[k]
  BY LineBoth
<1>5. /\ Len(u) \in Nat /\ Placed(u) /\ Coming.id \in Nat /\ Coming.at \in Nat
      /\ Ordered(u, Coming) /\ NoGap(u, Coming, damaged)
  BY LinePlaced DEF Sound
<1> HIDE DEF u
<1>6. q \in 1 .. q /\ 1 \in 1 .. q /\ q \in 1 .. Len(u) /\ q + 1 \in 1 .. Len(u) /\ q # Len(u) /\ 1 \in 1 .. Len(fifo)
  BY <1>1, <1>2, <1>4
<1>7. u[q] = p /\ u[q + 1] = h /\ p.id = l
  BY <1>3, <1>4, <1>6
<1>8. /\ l \in Lines /\ l \in Nat /\ p.at \in Nat /\ p.at <= LineLengths[l] /\ LineLengths[l] \in Nat
      /\ buf[1].at \in Nat /\ buf[1].at > 0
  <2>1. p.id \in Lines /\ p.at \in Nat /\ p.at <= LineLengths[p.id] /\ LineLengths[p.id] \in Nat
    BY <1>6, Letters
  <2>2. buf[1].at \in Nat /\ buf[1].at > 0
    BY <1>6, Letters
  <2> QED BY <1>7, <2>1, <2>2, Constants
<1>9. /\ h.id \in Lines /\ h.id \in Nat /\ h.at \in Nat /\ h.at > LineLengths[h.id] /\ LineLengths[h.id] \in Nat
  <2>1. fifo[1].from = "host" /\ fifo[1].val # LETTER
    BY <1>6 DEF HostOnly, LETTER, NL, CR
  <2> QED BY <1>6, <2>1, Queued, Constants
<1>10. Earlier(l, p.at, h.id, h.at)
  <2>1. q < q + 1
    BY <1>1
  <2> QED BY <1>5, <1>6, <1>7, <2>1 DEF Ordered, Before
<1>11. h = IF q = Len(u) THEN Coming ELSE u[q + 1]
  BY <1>6, <1>7
<1>12. p.at = buf[1].at + q - 1
  BY <1>3, <1>6
<1> HIDE DEF q, p, h
<1>13. p.at = LineLengths[l]
  <2>1. SUFFICES ASSUME p.at # LineLengths[l] PROVE FALSE
    OBVIOUS
  <2>2. p.at + 1 \in 1 .. LineLengths[l] + 1 /\ p.at + 1 <= LineLengths[l] /\ Earlier(l, p.at, l, p.at + 1)
    BY <1>8, <2>1 DEF Earlier
  <2>3. Earlier(l, p.at + 1, h.id, h.at)
    BY <1>8, <1>9, <1>10, <2>2 DEF Earlier
  <2>4. l \notin damaged
    BY DEF Fine
  <2> QED BY <1>5, <1>6, <1>7, <1>8, <1>11, <2>2, <2>3, <2>4, NoneBetween
<1> DEFINE s == buf[1].at - 1
<1>14. PICK t \in 0 .. buf[1].at : s = t * BufferSize
  BY <1>3 DEF Boundary
<1>15. t \in 0 .. LineLengths[l]
  <2>1. buf[1].at <= LineLengths[l]
    BY <1>6, <1>7, <1>8, <1>12, <1>13, <1>1 DEF q
  <2> QED BY <1>8, <2>1
<1>16. LineLengths[l] - s = q /\ s \in Nat
  <2>1. q \in Nat
    BY <1>1 DEF q
  <2>2. \A x \in Nat, y \in Nat, z \in Nat : x > 0 /\ z = x + y - 1 => z - (x - 1) = y /\ x - 1 \in Nat
    OBVIOUS
  <2> QED BY <1>8, <1>12, <1>13, <2>1, <2>2
<1>17. \A k \in 1 .. q : buf[k] = Byte("host", l, s + k, LETTER)
  <2>1. ASSUME NEW k \in 1 .. q PROVE buf[k] = Byte("host", l, s + k, LETTER)
    <3>1. buf[k] = Byte("host", buf[k].id, buf[k].at, LETTER) /\ buf[k].id = l /\ buf[k].at = buf[1].at + k - 1
      BY <1>3, Letters DEF q
    <3>2. buf[1].at + k - 1 = s + k
      BY <1>8
    <3> QED BY <3>1, <3>2
  <2> QED BY <2>1
<1> HIDE DEF s
<1>18. buf = [k \in 1 .. q |-> Byte("host", l, s + k, LETTER)]
  <2>1. buf = [k \in 1 .. q |-> buf[k]]
    BY <1>1, LenProperties DEF q
  <2> QED BY <1>17, <2>1
<1> QED BY <1>14, <1>15, <1>16, <1>18

(* The host types a byte, and the receiver has it or it is lost. *)
LEMMA LinesType ==
  ASSUME TypesInv, ExchangeInv, HostLine, ~disturbed, ~disturbed', Sound, Type
  PROVE  Sound'
<1>1. PICK b \in Heard :
        /\ b.from = "host" /\ b.id = typed[1] /\ b.at = typed[2] + 1 /\ b.at \in Nat /\ b.id \in Lines
        /\ b.at \in 1 .. LineLengths[b.id] + Len(end)
        /\ fifo' = Arrives(b) /\ Damage(LostFor(b))
        /\ typed' = IF b.at = LineLengths[b.id] + Len(end) THEN <<b.id + 1, 0>> ELSE <<b.id, b.at>>
  BY TypedIs DEF TypesInv
<1>2. /\ buf' = buf /\ damaged' = damaged \union LostFor(b) /\ damaged \subseteq damaged'
      /\ buf \in Seq(Heard) /\ fifo \in Seq(Heard) /\ Len(fifo) <= Depth
  BY <1>1 DEF Type, Damage, TypesInv, QueueTypes
<1>3. LineLengths[b.id] \in Nat /\ Len(end) \in 1 .. 2 /\ b.at > 0 /\ b.id \in Nat
  BY <1>1, EndIs, Constants DEF TypesInv, HostTypes
<1>4. b.val = NL => ~Key(b.id, b.at)
  <2>1. b.val = NL => b.at > LineLengths[b.id] + 1
    BY <1>1, HeardIs DEF TypesInv, HostTypes
  <2> QED BY <1>3, <2>1 DEF Key
<1> DEFINE c == Coming
           e == Coming'
           u == Line
<1>5. c.id = b.id /\ c.at = b.at
  BY <1>1 DEF Coming
<1>6. Succeeds(c, e)
  <2>1. CASE b.at = LineLengths[b.id] + Len(end)
    <3>1. typed'[1] = b.id + 1 /\ typed'[2] = 0
      BY <1>1, <2>1
    <3>2. e.id = b.id + 1 /\ e.at = 1
      BY <3>1 DEF Coming
    <3>3. b.at > LineLengths[b.id]
      <4>1. \A x \in Nat : \A y \in 1 .. 2 : x + y > x
        OBVIOUS
      <4> QED BY <1>3, <2>1, <4>1
    <3> QED BY <1>5, <3>2, <3>3 DEF Succeeds
  <2>2. CASE b.at # LineLengths[b.id] + Len(end)
    <3>1. typed'[1] = b.id /\ typed'[2] = b.at
      BY <1>1, <2>2
    <3>2. e.id = b.id /\ e.at = b.at + 1
      BY <3>1 DEF Coming
    <3> QED BY <1>5, <3>2 DEF Succeeds
  <2> QED BY <2>1, <2>2
<1>7. /\ Len(u) \in Nat /\ Placed(u) /\ u \in Seq(Heard)
      /\ Ordered(u, c) /\ NoGap(u, c, damaged) /\ WellBegun(First(u, c), damaged)
  BY LinePlaced DEF Sound
<1>8. OneLine(buf', damaged')
  BY <1>2, Worse DEF Sound
<1> HIDE DEF c, e, u
<1>9. CASE mux # "host"
  <2>1. fifo' = fifo /\ LostFor(b) = LinesOf(<<b>>)
    BY <1>1, <1>9 DEF Arrives, LostFor
  <2>2. Line' = u
    BY <1>2, <2>1 DEF Line, u
  <2>3. b.id \in damaged' \/ ~Key(b.id, b.at)
    <3>1. <<b>> \in Seq(Heard) /\ 1 \in 1 .. Len(<<b>>) /\ <<b>>[1] = b
      OBVIOUS
    <3>2. b.val # NL => b.id \in LinesOf(<<b>>)
      BY <1>1, <3>1, InLinesOf
    <3> QED BY <1>2, <1>4, <2>1, <3>2
  <2>4. Ordered(u, e) /\ NoGap(u, e, damaged')
    BY <1>1, <1>2, <1>5, <1>6, <1>7, <2>3, TypedLost
  <2>5. WellBegun(First(u, e), damaged')
    <3>1. CASE Len(u) # 0
      <4>1. First(u, e) = First(u, c)
        BY <3>1 DEF First
      <4> QED BY <1>2, <1>7, <4>1, Worse
    <3>2. CASE Len(u) = 0
      <4>1. SUFFICES ASSUME Key(e.id, e.at), Fine(e.id, damaged') PROVE Boundary(e.at)
        BY <3>2 DEF First, WellBegun
      <4>2. CASE e.id = c.id /\ e.at = c.at + 1
        <5>1. Key(b.id, b.at)
          BY <1>1, <1>3, <1>5, <4>1, <4>2 DEF Key
        <5> QED BY <1>5, <2>3, <4>1, <4>2, <5>1 DEF Fine
      <4>3. CASE e.at = 1
        BY <4>3, AtOne
      <4> QED BY <1>6, <4>2, <4>3 DEF Succeeds
    <3> QED BY <3>1, <3>2
  <2> QED BY <1>8, <2>2, <2>4, <2>5 DEF Sound, e
<1>10. CASE mux = "host"
  <2>1. HostOnly
    BY <1>10 DEF ExchangeInv, AtRest, TypesInv, MugTypes
  <2>2. fifo' = Receive(fifo, b)
    BY <1>1, <1>10 DEF Arrives
  <2>3. /\ Len(u) = Len(buf) + Len(fifo) /\ Len(buf) \in Nat /\ Len(fifo) \in Nat
        /\ \A k \in 1 .. Len(buf) : u[k] = buf[k]
        /\ \A k \in 1 .. Len(fifo) : u[Len(buf) + k] = fifo[k]
    BY <2>1, LineBoth DEF u
  <2>4. /\ fifo' \in Seq(Heard)
        /\ Len(fifo') = IF Len(fifo) = Depth THEN Depth ELSE Len(fifo) + 1
        /\ \A k \in 1 .. Len(fifo') : fifo'[k] = IF k = Len(fifo') THEN b ELSE fifo[k]
    <3>1. fifo \in Seq(Heard) /\ Len(fifo) <= Depth
      BY <1>2
    <3>2. /\ Receive(fifo, b) \in Seq(Heard)
          /\ Len(Receive(fifo, b)) = IF Len(fifo) = Depth THEN Depth ELSE Len(fifo) + 1
          /\ \A k \in 1 .. Len(Receive(fifo, b)) :
               Receive(fifo, b)[k] = IF k = Len(Receive(fifo, b)) THEN b ELSE fifo[k]
      BY <3>1, Received
    <3> QED BY <2>2, <3>2
  <2>5. \A k \in 1 .. Len(fifo') : k # Len(fifo') => k \in 1 .. Len(fifo)
    BY <1>2, <2>3, <2>4 DEF Depth
  <2>6. \A k \in 1 .. Len(fifo') : fifo'[k].from = "host"
    BY <1>1, <2>1, <2>4, <2>5 DEF HostOnly
  <2> DEFINE v == LineFrom(buf, fifo')
  <2>7. Line' = v
    BY <1>2 DEF Line
  <2>8. /\ Len(v) = Len(buf) + Len(fifo')
        /\ \A k \in 1 .. Len(buf) : v[k] = buf[k]
        /\ \A k \in 1 .. Len(fifo') : v[Len(buf) + k] = fifo'[k]
    <3>1. buf \in Seq(Heard) /\ fifo' \in Seq(Heard)
      BY <1>2, <2>4
    <3>2. /\ Len(LineFrom(buf, fifo')) = Len(buf) + Len(fifo')
          /\ \A k \in 1 .. Len(buf) : LineFrom(buf, fifo')[k] = buf[k]
          /\ \A k \in 1 .. Len(fifo') : LineFrom(buf, fifo')[Len(buf) + k] = fifo'[k]
      <4>1. PICK f \in Seq(Heard) : f = fifo'
        BY <3>1
      <4>2. \A k \in 1 .. Len(f) : f[k].from = "host"
        BY <2>6, <4>1
      <4>3. PICK g \in Seq(Heard) : g = buf
        BY <3>1
      <4>4. /\ Len(LineFrom(g, f)) = Len(g) + Len(f)
            /\ \A k \in 1 .. Len(g) : LineFrom(g, f)[k] = g[k]
            /\ \A k \in 1 .. Len(f) : LineFrom(g, f)[Len(g) + k] = f[k]
        BY <4>2, LineIs
      <4> QED BY <4>1, <4>3, <4>4
    <3> QED BY <3>2
  <2> HIDE DEF v
  <2>9. Len(fifo') \in 1 .. Len(fifo')
    BY <2>3, <2>4 DEF Depth
  <2>10. v[Len(v)] = b
    BY <2>4, <2>8, <2>9
  <2>11. ASSUME NEW k \in 1 .. Len(v), k # Len(v) PROVE k \in 1 .. Len(u) /\ v[k] = u[k]
    <3>1. CASE k \in 1 .. Len(buf)
      BY <2>3, <2>8, <3>1
    <3>2. CASE k \notin 1 .. Len(buf)
      <4>1. k - Len(buf) \in 1 .. Len(fifo') /\ k - Len(buf) # Len(fifo') /\ Len(buf) + (k - Len(buf)) = k
        BY <2>3, <2>8, <2>9, <2>11, <3>2
      <4>2. k - Len(buf) \in 1 .. Len(fifo)
        BY <2>5, <4>1
      <4>3. v[k] = fifo'[k - Len(buf)]
        BY <2>8, <4>1
      <4>4. u[k] = fifo[k - Len(buf)]
        BY <2>3, <4>1, <4>2
      <4>5. fifo'[k - Len(buf)] = fifo[k - Len(buf)]
        BY <2>4, <4>1
      <4>6. k \in 1 .. Len(u)
        BY <2>3, <4>1, <4>2
      <4> QED BY <4>3, <4>4, <4>5, <4>6
    <3> QED BY <3>1, <3>2
  <2>12. CASE Len(fifo) # Depth
    <3>1. Len(v) = Len(u) + 1 /\ \A k \in 1 .. Len(u) : v[k] = u[k]
      <4>1. Len(v) = Len(u) + 1
        BY <2>3, <2>4, <2>8, <2>12
      <4>2. \A k \in 1 .. Len(u) : k \in 1 .. Len(v) /\ k # Len(v)
        BY <1>7, <4>1
      <4> QED BY <2>11, <4>1, <4>2
    <3>2. Ordered(v, e) /\ NoGap(v, e, damaged)
      BY <1>1, <1>3, <1>5, <1>6, <1>7, <2>10, <3>1, TypedHeard
    <3>3. WellBegun(First(v, e), damaged)
      <4>1. CASE Len(u) # 0
        <5>1. First(v, e) = First(u, c)
          <6>1. 1 \in 1 .. Len(u) /\ Len(v) # 0
            BY <1>7, <3>1, <4>1
          <6> QED BY <3>1, <4>1, <6>1 DEF First
        <5> QED BY <1>7, <5>1
      <4>2. CASE Len(u) = 0
        <5>1. First(v, e) = b /\ First(u, c) = c
          BY <2>10, <3>1, <4>2 DEF First
        <5> QED BY <1>5, <1>7, <5>1 DEF WellBegun
      <4> QED BY <4>1, <4>2
    <3>4. NoGap(v, e, damaged') /\ WellBegun(First(v, e), damaged')
      BY <1>2, <3>2, <3>3, Worse
    <3> QED BY <1>8, <2>7, <3>2, <3>4 DEF Sound, e
  <2>13. CASE Len(fifo) = Depth
    <3> DEFINE n == Len(u)
               w == SubSeq(u, 1, n - 1)
    <3>1. 3 \in 1 .. Len(fifo) /\ Len(fifo) = 3 /\ n \in Nat /\ n >= 3 /\ Len(v) = n /\ u[n] = fifo[3]
      <4>1. 3 \in 1 .. Len(fifo) /\ Len(fifo) = 3
        BY <2>13 DEF Depth
      <4>2. n = Len(buf) + 3 /\ Len(v) = Len(buf) + 3
        BY <2>3, <2>4, <2>8, <2>13, <4>1
      <4> QED BY <2>3, <4>1, <4>2
    <3> HIDE DEF n
    <3>2. /\ Len(w) = n - 1 /\ \A k \in 1 .. n - 1 : w[k] = u[k]
      <4>1. \A k \in 1 .. n - 1 : u[k] \in Heard
        BY <1>7, <3>1 DEF n
      <4>2. 1 \in Int /\ n - 1 \in Int
        BY <3>1
      <4>3. /\ Len(SubSeq(u, 1, n - 1)) = IF 1 <= n - 1 THEN (n - 1) - 1 + 1 ELSE 0
            /\ \A k \in 1 .. (n - 1) - 1 + 1 : SubSeq(u, 1, n - 1)[k] = u[1 + k - 1]
        BY <4>1, <4>2, SubSeqProperties
      <4>4. 1 <= n - 1 /\ (n - 1) - 1 + 1 = n - 1
        BY <3>1
      <4>5. \A k \in 1 .. n - 1 : 1 + k - 1 = k
        BY <3>1
      <4> QED BY <4>3, <4>4, <4>5
    <3> HIDE DEF w
    <3>3. u[n].id \in damaged' \/ ~Key(u[n].id, u[n].at)
      <4>1. fifo[3].from = "host"
        BY <2>1, <3>1 DEF HostOnly
      <4>2. CASE fifo[3].val = NL
        BY <3>1, <4>1, <4>2, Queued
      <4>3. CASE fifo[3].val # NL
        <5>1. Full(fifo) /\ fifo[Depth] = fifo[3]
          BY <2>13 DEF Full, Depth
        <5>2. Arrives(b) # fifo
          <6>1. SUFFICES ASSUME Arrives(b) = fifo PROVE FALSE
            OBVIOUS
          <6>2. fifo[3] = b
            BY <1>1, <2>4, <2>13, <3>1, <6>1 DEF Depth
          <6>3. Earlier(b.id, b.at, b.id, b.at)
            <7>1. n \in 1 .. Len(u)
              BY <3>1 DEF n
            <7> QED BY <1>5, <1>7, <3>1, <6>2, <7>1 DEF Ordered, Before, Earlier
          <6> QED BY <1>1, <1>3, <6>3 DEF Earlier
        <5>3. LostFor(b) = LinesOf(<<fifo[3]>>)
          BY <1>10, <5>1, <5>2 DEF LostFor
        <5>4. <<fifo[3]>> \in Seq(Heard) /\ 1 \in 1 .. Len(<<fifo[3]>>) /\ <<fifo[3]>>[1] = fifo[3]
          <6>1. fifo[3] \in Heard
            <7>1. fifo \in Seq(Heard) /\ 3 \in 1 .. Len(fifo)
              BY <1>2, <3>1
            <7> QED BY <7>1, ElementOfSeq
          <6> QED BY <6>1
        <5>5. fifo[3].id \in LinesOf(<<fifo[3]>>)
          BY <4>1, <4>3, <5>4, InLinesOf
        <5> QED BY <1>2, <3>1, <5>3, <5>5
      <4> QED BY <4>2, <4>3
    <3>4. Placed(w) /\ Ordered(w, c) /\ NoGap(w, c, damaged')
      <4>1. n - 1 \in 0 .. Len(u) /\ Len(w) = n - 1
        BY <3>1, <3>2 DEF n
      <4>2. \A j \in (n - 1) + 1 .. Len(u) : u[j].id \in damaged' \/ ~Key(u[j].id, u[j].at)
        <5>1. \A j \in (n - 1) + 1 .. Len(u) : j = n
          BY <3>1 DEF n
        <5> QED BY <3>3, <5>1
      <4>3. \A k \in 1 .. Len(w) : w[k] = u[k]
        BY <3>2
      <4> QED BY <1>2, <1>7, <4>1, <4>2, <4>3, CutOff
    <3>5. Len(w) \in Nat /\ Len(v) = Len(w) + 1 /\ \A k \in 1 .. Len(w) : v[k] = w[k]
      <4>1. Len(w) \in Nat /\ Len(v) = Len(w) + 1
        BY <3>1, <3>2
      <4>2. \A k \in 1 .. Len(w) : k \in 1 .. Len(v) /\ k # Len(v)
        BY <4>1
      <4> QED BY <2>11, <3>2, <4>1, <4>2
    <3>6. Ordered(v, e) /\ NoGap(v, e, damaged')
      BY <1>1, <1>3, <1>5, <1>6, <2>10, <3>4, <3>5, TypedHeard
    <3>7. First(v, e) = First(u, c)
      <4>1. 1 \in 1 .. Len(w) /\ 1 \in 1 .. n - 1 /\ Len(v) # 0 /\ Len(u) # 0
        BY <3>1, <3>2 DEF n
      <4>2. v[1] = u[1]
        BY <3>2, <3>5, <4>1
      <4> QED BY <4>1, <4>2 DEF First
    <3>8. WellBegun(First(v, e), damaged')
      BY <1>2, <1>7, <3>7, Worse
    <3> QED BY <1>8, <2>7, <3>6, <3>8 DEF Sound, e
  <2> QED BY <2>12, <2>13
<1> QED BY <1>9, <1>10

(* An answer that is not disturbed after a step was not before it. *)
LEMMA Undisturbed ==
  ASSUME [Next]_vars, ~disturbed'
  PROVE  ~disturbed
BY DEF Next, vars, Command, SendByte, WaitRead, EnterTerminal, LeaveUnswitched, Flush, LeaveTerminal,
       GiveUpLine, ReadChar, OutputDone, Type, Transmit, Garble, DisplayError, DisplayCommand, DisplayAnswers, history

(* A byte of the display comes to a mug that waits and has read all. *)
LEMMA LinesAnswer ==
  ASSUME TypesInv, ExchangeInv, ~disturbed, ~disturbed', Sound, DisplayAnswers
  PROVE  Sound'
<1>1. /\ reply # << >> /\ fifo' = Arrives(Head(reply)) /\ (pc = "wait" => fifo = << >>)
      /\ UNCHANGED <<mux, buf, typed>> /\ damaged \subseteq damaged'
  BY DEF DisplayAnswers, mug, host, Damage
<1>2. pc = "wait" /\ mux = "oled"
  BY <1>1 DEF ExchangeInv, AtRest, Asked, Answering, TypesInv, MugTypes
<1>3. Head(reply).from = "display" /\ buf \in Seq(Heard)
  <2>1. reply \in Seq(Heard) /\ Head(reply) = reply[1] /\ 1 \in 1 .. Len(reply)
    BY <1>1 DEF TypesInv, DisplayTypes
  <2> QED BY <2>1 DEF TypesInv, DisplayTypes, QueueTypes
<1>4. Len(fifo') = 1 /\ fifo'[1] = Head(reply)
  BY <1>1, <1>2, <1>3 DEF Arrives, Receive, Full, Depth
<1>5. PICK b \in Seq(Heard) : b = buf
  BY <1>3
<1>6. LineFrom(b, fifo) = b
  BY <1>1, <1>2, LineAlone
<1>7. LineFrom(b, fifo') = b
  <2>1. \E k \in 1 .. Len(fifo') : fifo'[k].from # "host"
    BY <1>3, <1>4
  <2> QED BY <2>1, LineAlone
<1>8. Line' = Line
  BY <1>1, <1>5, <1>6, <1>7 DEF Line
<1> QED BY <1>1, <1>8, LinesStill

(* Every step keeps the lines in order. *)
LEMMA LinesNext ==
  ASSUME TypesInv, ExchangeInv, LinesInv, [Next]_vars
  PROVE  LinesInv'
<1> SUFFICES ASSUME ~disturbed'
             PROVE  Sound'
  BY DEF LinesInv, Sound
<1>0. ~disturbed /\ HostLine /\ Sound
  <2>1. ~disturbed
    BY Undisturbed
  <2> QED BY <2>1 DEF ExchangeInv, LinesInv, Sound
<1>1. pc \notin {"send", "wait"} => HostOnly
  BY <1>0 DEF ExchangeInv, AtRest
<1>2. CASE UNCHANGED <<buf, fifo, typed, damaged>>
  <2>1. Line' = Line
    BY <1>2 DEF Line
  <2> QED BY <1>0, <1>2, <2>1, LinesStill
<1>3. CASE Command \/ SendByte \/ LeaveUnswitched \/ LeaveTerminal \/ OutputDone \/ Transmit
           \/ DisplayError \/ DisplayCommand \/ UNCHANGED vars
  <2>1. UNCHANGED <<buf, fifo, typed, damaged>>
    BY <1>3 DEF Command, SendByte, LeaveUnswitched, LeaveTerminal, OutputDone, Transmit, DisplayError,
                DisplayCommand, vars, host, history
  <2> QED BY <1>2, <2>1
<1>4. CASE WaitRead
  BY <1>0, <1>4, LinesWaitRead
<1>5. CASE EnterTerminal
  <2>1. HostOnly
    BY <1>1, <1>5 DEF EnterTerminal
  <2> QED BY <1>0, <1>5, <2>1, LinesEnter
<1>6. CASE Flush
  <2>1. HostOnly
    BY <1>1, <1>6 DEF Flush
  <2> QED BY <1>0, <1>6, <2>1, LinesFlush
<1>7. CASE GiveUpLine
  <2>1. HostOnly
    BY <1>1, <1>7 DEF GiveUpLine, TerminalReads
  <2> QED BY <1>0, <1>7, <2>1, LinesGiveUp
<1>8. CASE ReadChar
  <2>1. HostOnly
    BY <1>1, <1>8 DEF ReadChar, TerminalReads
  <2>2. CASE Head(fifo).val \notin {NL, CR}
    BY <1>0, <1>8, <2>1, <2>2, LinesLetter
  <2>3. CASE Head(fifo).val \in {NL, CR}
    BY <1>0, <1>8, <2>1, <2>3, LinesEndRead
  <2> QED BY <2>2, <2>3
<1>9. CASE Type
  BY <1>0, <1>9, LinesType
<1>10. CASE Garble
  BY <1>10 DEF Garble
<1>11. CASE DisplayAnswers
  BY <1>0, <1>11, LinesAnswer
<1> QED BY <1>3, <1>4, <1>5, <1>6, <1>7, <1>8, <1>9, <1>10, <1>11 DEF Next

(* The first byte of the first line is to come. *)
LEMMA LinesInit ==
  ASSUME Init
  PROVE  LinesInv
<1>1. fifo = << >> /\ buf = << >> /\ typed = <<1, 0>> /\ << >> \in Seq(Heard) /\ Len(<< >>) = 0
  BY EmptySeq DEF Init
<1>2. Line = << >>
  <2>1. LineFrom(<< >>, << >>) = << >>
    BY <1>1, LineAlone
  <2> QED BY <1>1, <2>1 DEF Line
<1>3. Coming.at = 1
  BY <1>1 DEF Coming
<1>4. WellBegun(First(Line, Coming), damaged)
  BY <1>1, <1>2, <1>3, AtOne DEF First, WellBegun
<1>5. Ordered(Line, Coming) /\ NoGap(Line, Coming, damaged) /\ OneLine(buf, damaged)
  BY <1>1, <1>2 DEF Ordered, NoGap, OneLine
<1> QED BY <1>4, <1>5 DEF LinesInv

(* What was carried out stays as it was while more lines are damaged. *)
LEMMA RanStill ==
  ASSUME RunsWholeLines, ~disturbed, ran' = ran, damaged \subseteq damaged'
  PROVE  RunsWholeLines'
<1> SUFFICES ASSUME (LinesOf(ran) \union {l - 1 : l \in LinesOf(ran)}) \intersect damaged' = {}
             PROVE  (LinesOf(ran) \union {l - 1 : l \in LinesOf(ran)}) \intersect damaged = {}
  BY DEF RunsWholeLines, LinesOf
<1> QED OBVIOUS

(* Nothing was carried out, or what was is forgotten. *)
LEMMA RanNothing ==
  ASSUME ran = << >>
  PROVE  RunsWholeLines
<1>1. LinesOf(ran) = {} /\ Len(ran) = 0 /\ 0 < BufferSize
  BY Constants DEF LinesOf
<1> QED BY <1>1 DEF RunsWholeLines

(* Every step keeps what was carried out whole. *)
LEMMA RunsNext ==
  ASSUME TypesInv, ExchangeInv, LinesInv, RunsWholeLines, [Next]_vars
  PROVE  RunsWholeLines'
<1> SUFFICES ASSUME ~disturbed'
             PROVE  RunsWholeLines'
  BY DEF RunsWholeLines
<1>0. ~disturbed
  BY Undisturbed
<1>1. CASE ran' = << >>
  <2>1. (ran = << >> => RunsWholeLines)'
    BY RanNothing, PTL
  <2> QED BY <1>1, <2>1
<1>2. CASE ran' = ran /\ damaged \subseteq damaged'
  BY <1>0, <1>2, RanStill
<1>3. CASE ReadChar /\ ran' # ran
  <2>1. /\ TerminalReads /\ ~Overflow /\ Head(fifo).val \in {NL, CR} /\ ran' = buf /\ damaged' = damaged
    BY <1>0, <1>3 DEF ReadChar
  <2>2. HostOnly /\ HostLine /\ Sound
    BY <1>0, <2>1 DEF TerminalReads, ExchangeInv, AtRest, LinesInv, Sound
  <2>3. Len(fifo) > 0 /\ fifo[1].val \in {NL, CR} /\ buf \in Seq(Heard)
    BY <2>1 DEF TerminalReads, TypesInv, QueueTypes
  <2>4. Len(buf) < BufferSize
    BY <2>1, <2>3, Constants DEF Overflow
  <2>5. ASSUME (LinesOf(buf) \union {l - 1 : l \in LinesOf(buf)}) \intersect damaged = {}, NEW l \in LinesOf(buf)
        PROVE  \E skipped \in {n * BufferSize : n \in 0 .. LineLengths[l]} :
                 buf = [k \in 1 .. LineLengths[l] - skipped |-> Byte("host", l, skipped + k, LETTER)]
    <3>1. Fine(l, damaged)
      BY <2>5 DEF Fine
    <3> QED BY <2>2, <2>3, <3>1, WholeLine
  <2> QED BY <2>1, <2>4, <2>5 DEF RunsWholeLines, LinesOf
<1>4. ran' = << >> \/ (ran' = ran /\ damaged \subseteq damaged') \/ (ReadChar /\ ran' # ran)
  <2>1. CASE Command \/ SendByte \/ GiveUpLine \/ LeaveUnswitched \/ LeaveTerminal \/ OutputDone
             \/ Transmit \/ DisplayError \/ DisplayCommand \/ UNCHANGED vars
    BY <2>1 DEF Command, SendByte, GiveUpLine, LeaveUnswitched, LeaveTerminal, OutputDone, Transmit,
                DisplayError, DisplayCommand, vars, history
  <2>2. CASE WaitRead
    BY <2>2 DEF WaitRead, Damage
  <2>3. CASE EnterTerminal \/ Flush \/ Type \/ DisplayAnswers
    BY <2>3 DEF EnterTerminal, Flush, Type, DisplayAnswers, Damage
  <2>4. CASE ReadChar
    BY <2>4 DEF ReadChar
  <2>5. CASE Garble
    BY <2>5 DEF Garble
  <2> QED BY <2>1, <2>2, <2>3, <2>4, <2>5 DEF Next
<1> QED BY <1>1, <1>2, <1>3, <1>4

(* Of a line that lost no byte, like the one before it, the terminal       *)
(* carries out the whole, but for as many bytes as the buffer was given up  *)
(* with, and never a piece of two lines in one (mugTerminal, whose buffer   *)
(* starts again with the byte it was too small for), until an answer of     *)
(* the display is disturbed.                                                *)
THEOREM OnlyWholeLines == Spec => []RunsWholeLines
<1>1. Init => ConsoleInv
  <2>1. Init => ran = << >>
    BY DEF Init
  <2> QED BY <2>1, TypesInit, ExchangeInit, LinesInit, RanNothing DEF ConsoleInv
<1>2. ConsoleInv /\ [Next]_vars => ConsoleInv'
  BY TypesNext, ExchangeNext, LinesNext, RunsNext DEF ConsoleInv
<1>3. ConsoleInv => RunsWholeLines
  BY DEF ConsoleInv
<1> QED BY <1>1, <1>2, <1>3, PTL DEF Spec

-----------------------------------------------------------------------------
(***************************************************************************)
(* Commands.                                                               *)
(***************************************************************************)

(* What the display carries out is what it was asked. *)
LEMMA CarriesOutAsked ==
  ASSUME TypesInv, ExchangeInv, ~disturbed, DisplayCommand
  PROVE  Asked /\ done' = Append(done, sent) /\ sent' = sent
<1>1. reply = << >> /\ disp = "full" /\ sent' = sent
  BY DEF DisplayCommand, DisplayFree
<1>2. Asked
  BY <1>1 DEF ExchangeInv, AtRest, Answering
<1>3. PICK p \in Payloads, f \in Seq(MugBytes), i \in Int :
        f = FrameOf(p, sent) /\ Len(f) = Len(p) + 3 /\ Len(p) \in Nat /\ OnItsWay(f, i)
  BY <1>2, AskedBy
<1>4. Len(pack) = Len(f) - 1 /\ \A k \in 1 .. Len(pack) : pack[k] = f[k + 1]
  <2>1. i = Len(f)
    BY <1>1, <1>3 DEF OnItsWay
  <2> QED BY <1>3, <2>1 DEF OnItsWay
<1>5. sent \in Nat /\ pack \in Seq(MugBytes)
  BY DEF TypesInv, HistoryTypes, DisplayTypes
<1>6. ChecksumGood /\ Parsed /\ Origin = sent
  BY <1>3, <1>4, <1>5, Accepted
<1> QED BY <1>1, <1>2, <1>6 DEF DisplayCommand

(* Until an answer is disturbed, display and mug together implement        *)
(* Commands: each step is one of its steps or leaves the commands alone,    *)
(* so that every command is carried out once, as it was sent and in order.  *)
THEOREM ImplementsUndisturbed ==
  Spec => Abstract!Init /\ [][disturbed' \/ Abstract!Issue \/ Abstract!Execute]_<<sent, done>>
<1>1. Init => Abstract!Init
  BY DEF Init, Abstract!Init
<1>2. ASSUME TypesInv, ExchangeInv, [Next]_vars, ~disturbed', ~UNCHANGED <<sent, done>>
      PROVE  Abstract!Issue \/ Abstract!Execute
  <2>1. ~disturbed
    BY <1>2, Undisturbed
  <2>2. CASE Command
    BY <2>2 DEF Command, StartCommand, Abstract!Issue
  <2>3. CASE ReadChar
    BY <1>2, <2>3 DEF ReadChar, StartCommand, mug, Abstract!Issue
  <2>4. CASE DisplayCommand
    <3>1. Asked /\ done' = Append(done, sent) /\ sent' = sent
      BY <1>2, <2>1, <2>4, CarriesOutAsked
    <3>2. sent \in 1 .. sent /\ done \in Seq(Nat)
      <4>1. sent \in Nat /\ sent > 0 /\ done \in Seq(Nat)
        BY <1>2, <3>1, Constants DEF Asked, TypesInv, HistoryTypes
      <4> QED BY <4>1
    <3>3. \A k \in DOMAIN done : done[k] < sent
      BY <3>1, <3>2 DEF Asked
    <3> QED BY <3>1, <3>2, <3>3 DEF Abstract!Execute
  <2>5. Command \/ ReadChar \/ DisplayCommand
    BY <1>2 DEF Next, vars, SendByte, WaitRead, EnterTerminal, LeaveUnswitched, Flush, LeaveTerminal,
                GiveUpLine, OutputDone, Type, Transmit, Garble, DisplayError, DisplayAnswers
  <2> QED BY <2>2, <2>3, <2>4, <2>5
<1>3. TypesInv /\ ExchangeInv /\ [Next]_vars =>
        [disturbed' \/ Abstract!Issue \/ Abstract!Execute]_<<sent, done>>
  BY <1>2, Zenon
<1>4. Init => TypesInv /\ ExchangeInv
  BY TypesInit, ExchangeInit
<1>5. TypesInv /\ ExchangeInv /\ [Next]_vars => (TypesInv /\ ExchangeInv)'
  BY TypesNext, ExchangeNext
<1> QED BY <1>1, <1>3, <1>4, <1>5, PTL DEF Spec

(* Nothing disturbs an answer where the line garbles nothing and the host   *)
(* ends its lines without a line feed.                                      *)
LEMMA QuietNext ==
  ASSUME MaxErrors = 0, LineEnds \subseteq {<<CR>>}, TypesInv, ~disturbed, [Next]_vars
  PROVE  ~disturbed'
<1>1. CASE WaitRead
  <2>1. /\ Head(fifo) \in Heard /\ end \in LineEnds
        /\ disturbed' = (disturbed \/ (Head(fifo).from = "host" /\ Head(fifo).val = NL))
    <3>1. Head(fifo) \in Heard /\ end \in LineEnds
      BY <1>1, Taken DEF WaitRead, TypesInv, HostTypes, host
    <3>2. disturbed' = (disturbed \/ (Head(fifo).from = "host" /\ Head(fifo).val = NL))
      BY <1>1, Zenon DEF WaitRead
    <3> QED BY <3>1, <3>2, Zenon
  <2>2. ~(Head(fifo).from = "host" /\ Head(fifo).val = NL)
    <3>1. SUFFICES ASSUME Head(fifo).from = "host", Head(fifo).val = NL PROVE FALSE
      OBVIOUS
    <3> DEFINE b == Head(fifo)
    <3>2. b \in Heard /\ b.from = "host" /\ b.val = NL
      BY <2>1, <3>1
    <3> HIDE DEF b
    <3>3. /\ b.id \in Lines /\ b.at \in 1 .. LineLengths[b.id] + Len(end)
          /\ b.at > LineLengths[b.id] + 1
      BY <2>1, <3>2, HeardIs
    <3>4. Len(end) = 1 /\ LineLengths[b.id] \in Nat
      BY <2>1, <3>3, Constants
    <3> QED BY <3>3, <3>4
  <2> QED BY <2>1, <2>2, Zenon
<1>2. CASE Garble
  BY <1>2 DEF Garble, TypesInv, HistoryTypes
<1>3. CASE ~WaitRead /\ ~Garble
  <2>1. disturbed' = disturbed
    BY <1>3, Zenon
    DEF Next, vars, Command, SendByte, EnterTerminal, LeaveUnswitched, Flush, LeaveTerminal, GiveUpLine,
        ReadChar, OutputDone, Type, Transmit, DisplayError, DisplayCommand, DisplayAnswers, history
  <2> QED BY <2>1, Zenon
<1> QED BY <1>1, <1>2, <1>3

(* And so display and mug implement Commands there.                        *)
THEOREM ImplementsQuiet ==
  ASSUME MaxErrors = 0, LineEnds \subseteq {<<CR>>}
  PROVE  Spec => ImplementsCommands
<1>1. Init => TypesInv /\ ~disturbed
  BY TypesInit DEF Init
<1>2. TypesInv /\ ~disturbed /\ [Next]_vars => (TypesInv /\ ~disturbed)'
  BY TypesNext, QuietNext
<1>3. Spec => [](~disturbed)
  BY <1>1, <1>2, PTL DEF Spec
<1>4. ~disturbed' /\ [disturbed' \/ Abstract!Issue \/ Abstract!Execute]_<<sent, done>>
        => [Abstract!Issue \/ Abstract!Execute]_<<sent, done>>
  BY Zenon
<1> QED BY <1>3, <1>4, ImplementsUndisturbed, PTL DEF ImplementsCommands, Abstract!Spec

=============================================================================
