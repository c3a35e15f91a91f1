--------------------------- MODULE XBeeLinkProofs ---------------------------
(***************************************************************************)
(* Proofs about XBeeLink, for every number of messages, their lengths and  *)
(* the places where bytes are overrun and carriage returns lost: no line   *)
(* overruns the buffer while no carriage return is lost, and what is shown *)
(* of undamaged messages is one whole message.                             *)
(***************************************************************************)
EXTENDS XBeeLink, SequenceTheorems, TLAPS

(***************************************************************************)
(* The invariant.  What is still to be read, from the start of the line    *)
(* that is being read, is one sequence of bytes.                           *)
(***************************************************************************)
Size(m, sz) == IF m = 0 THEN 2 ELSE sz[m]
Sent(sz) == {b \in [msg : 0 .. Len(sz), at : Nat] : b.at <= Size(b.msg, sz)}

Taken == IF Reading THEN buffer \o fifo ELSE fifo
Coming == Taken \o line

After(b, sz) == Char(b.msg, IF b.at = Size(b.msg, sz) THEN CR ELSE b.at + 1)
Before(b, sz) == Char(b.msg, IF b.at = CR THEN Size(b.msg, sz) ELSE b.at - 1)

(* Each byte of a message that is not in bad stands behind the one before  *)
(* it and in front of the one after it.                                    *)
HasBefore(s, k, sz) == s[k].at # 1 => k > 1 /\ s[k - 1] = Before(s[k], sz)
HasAfter(s, k, sz) == s[k].at # CR => k < Len(s) /\ s[k + 1] = After(s[k], sz)
Whole(s, sz, bad) ==
  \A k \in 1 .. Len(s) : s[k].msg \notin bad => HasBefore(s, k, sz) /\ HasAfter(s, k, sz)

(* From some place on, the bytes are those the module has sent, none       *)
(* missing, up to a carriage return.                                       *)
Follows(a, b, sz) == IF a.at = CR THEN b.at = 1 ELSE b = After(a, sz)
Run(s, from, sz) ==
  /\ \A k \in 1 .. Len(s) : k >= from /\ k < Len(s) => Follows(s[k], s[k + 1], sz)
  /\ s # << >> => s[Len(s)].at = CR

(* Nothing is overrun while a line is read: at most the two bytes that were *)
(* there before the last one are out of order.                              *)
RunStart(n) == IF n = 0 THEN 1 ELSE IF n < 3 THEN n ELSE 3

TypesInv ==
  /\ phase \in {"send", "answer", "loop", "read", "busy"}
  /\ step \in 1 .. Len(Dialogue)
  /\ sizes \in Seq(Lengths) /\ Len(sizes) <= MaxMessages
  /\ line \in Seq(Sent(sizes)) /\ fifo \in Seq(Sent(sizes)) /\ buffer \in Seq(Sent(sizes))
  /\ received \in Seq(Byte)
  /\ Len(fifo) <= Depth
  /\ lost \subseteq 1 .. Len(sizes) /\ damaged \subseteq 0 .. Len(sizes)

Bad == lost \union damaged

WholeInv == Whole(Coming, sizes, Bad)

(* The line being read has no end yet, and begins with an undamaged message *)
(* only if it is the beginning of that message.                             *)
BufferInv ==
  /\ \A k \in 1 .. Len(buffer) : buffer[k].at # CR
  /\ buffer # << >> /\ buffer[1].msg \notin Bad =>
       /\ Len(buffer) <= Size(buffer[1].msg, sizes)
       /\ \A k \in 1 .. Len(buffer) : buffer[k] = Char(buffer[1].msg, k)

RunInv ==
  lost = {} => /\ Run(Coming, RunStart(Len(Taken)), sizes)
               /\ Len(buffer) >= 3 => buffer[Len(buffer)].at >= Len(buffer) - 2

LinkInv == TypesInv /\ WholeInv /\ BufferInv /\ RunInv /\ ShownWhole

-----------------------------------------------------------------------------
(***************************************************************************)
(* Sequences of bytes.                                                     *)
(***************************************************************************)

LEMMA LengthsAre == \A n \in Lengths \union {2} : n \in Nat /\ n > 0 /\ n + 2 < BufferSize
BY XBeeLinkAssumption DEF XBeeLinkAssumption

(* What a byte of a message that has been sent is. *)
LEMMA SentByte ==
  ASSUME NEW sz \in Seq(Lengths), NEW b \in Sent(sz)
  PROVE  /\ b.msg \in 0 .. Len(sz) /\ b.at \in Nat
         /\ Size(b.msg, sz) \in Nat /\ Size(b.msg, sz) > 0
         /\ b.at <= Size(b.msg, sz) /\ Size(b.msg, sz) + 2 < BufferSize
         /\ b = Char(b.msg, b.at)
<1>1. b.msg \in 0 .. Len(sz) /\ b.at \in Nat /\ b.at <= Size(b.msg, sz) /\ b = Char(b.msg, b.at)
  BY DEF Sent, Char
<1>2. b.msg # 0 => sz[b.msg] \in Lengths
  BY <1>1
<1>3. Size(b.msg, sz) \in Lengths \union {2}
  BY <1>1, <1>2 DEF Size
<1>4. Size(b.msg, sz) \in Nat /\ Size(b.msg, sz) > 0 /\ Size(b.msg, sz) + 2 < BufferSize
  BY <1>3, LengthsAre
<1> QED BY <1>1, <1>4

(* Which bytes are those of messages that have been sent. *)
LEMMA CharSent ==
  ASSUME NEW sz \in Seq(Lengths), NEW m \in 0 .. Len(sz), NEW n \in Nat, n <= Size(m, sz)
  PROVE  Char(m, n) \in Sent(sz)
BY DEF Char, Sent

(* A message more changes nothing about the bytes sent before. *)
LEMMA SentStill ==
  ASSUME NEW sz \in Seq(Lengths), NEW n \in Lengths, NEW b \in Sent(sz)
  PROVE  /\ b \in Sent(Append(sz, n))
         /\ Size(b.msg, Append(sz, n)) = Size(b.msg, sz)
         /\ After(b, Append(sz, n)) = After(b, sz)
         /\ Before(b, Append(sz, n)) = Before(b, sz)
<1>1. b.msg \in 0 .. Len(sz) /\ b \in [msg : 0 .. Len(sz), at : Nat] /\ b.at <= Size(b.msg, sz)
  BY DEF Sent
<1>2. Size(b.msg, Append(sz, n)) = Size(b.msg, sz)
  BY <1>1 DEF Size
<1>3. Len(Append(sz, n)) = Len(sz) + 1
  OBVIOUS
<1> QED BY <1>1, <1>2, <1>3 DEF Sent, After, Before

(* So for a sequence of bytes. *)
LEMMA SentSeqStill ==
  ASSUME NEW sz \in Seq(Lengths), NEW n \in Lengths, NEW s \in Seq(Sent(sz))
  PROVE  s \in Seq(Sent(Append(sz, n)))
<1>1. Sent(sz) \subseteq Sent(Append(sz, n))
  BY SentStill
<1> QED BY <1>1, SeqMonotonic

(* Whole messages behind whole messages. *)
LEMMA WholeConcat ==
  ASSUME NEW S, NEW s \in Seq(S), NEW t \in Seq(S), NEW sz, NEW bad,
         Whole(s, sz, bad), Whole(t, sz, bad)
  PROVE  Whole(s \o t, sz, bad)
<1> DEFINE u == s \o t
<1>1. /\ Len(u) = Len(s) + Len(t)
      /\ \A k \in 1 .. Len(s) : u[k] = s[k]
      /\ \A k \in 1 .. Len(t) : u[Len(s) + k] = t[k]
      /\ Len(s) \in Nat /\ Len(t) \in Nat
  OBVIOUS
<1> HIDE DEF u
<1>2. ASSUME NEW k \in 1 .. Len(u), u[k].msg \notin bad
      PROVE  HasBefore(u, k, sz) /\ HasAfter(u, k, sz)
  <2>1. CASE k \in 1 .. Len(s)
    <3>1. HasBefore(s, k, sz) /\ HasAfter(s, k, sz) /\ u[k] = s[k]
      BY <1>1, <1>2, <2>1 DEF Whole
    <3>2. HasBefore(u, k, sz)
      <4>1. k > 1 => k - 1 \in 1 .. Len(s)
        BY <1>1, <2>1
      <4> QED BY <1>1, <3>1, <4>1 DEF HasBefore
    <3>3. HasAfter(u, k, sz)
      <4>1. k < Len(s) => k + 1 \in 1 .. Len(s) /\ k < Len(u)
        BY <1>1, <2>1
      <4> QED BY <1>1, <3>1, <4>1 DEF HasAfter
    <3> QED BY <3>2, <3>3
  <2>2. CASE k > Len(s)
    <3>1. PICK l \in 1 .. Len(t) : k = Len(s) + l
      <4>1. k - Len(s) \in 1 .. Len(t) /\ k = Len(s) + (k - Len(s))
        BY <1>1, <2>2
      <4> QED BY <4>1
    <3>2. HasBefore(t, l, sz) /\ HasAfter(t, l, sz) /\ u[k] = t[l]
      BY <1>1, <1>2, <3>1 DEF Whole
    <3>3. HasBefore(u, k, sz)
      <4>1. l > 1 => l - 1 \in 1 .. Len(t) /\ k - 1 = Len(s) + (l - 1)
        BY <1>1, <3>1
      <4> QED BY <1>1, <3>1, <3>2, <4>1 DEF HasBefore
    <3>4. HasAfter(u, k, sz)
      <4>1. l < Len(t) => l + 1 \in 1 .. Len(t) /\ k + 1 = Len(s) + (l + 1) /\ k < Len(u)
        BY <1>1, <3>1
      <4> QED BY <1>1, <3>1, <3>2, <4>1 DEF HasAfter
    <3> QED BY <3>3, <3>4
  <2> QED BY <1>1, <2>1, <2>2
<1> QED BY <1>2 DEF Whole, u

(* What is to come stays whole when a message more is sent. *)
LEMMA WholeStill ==
  ASSUME NEW sz \in Seq(Lengths), NEW s \in Seq(Sent(sz)), NEW n \in Lengths,
         NEW bad, NEW worse, bad \subseteq worse, Whole(s, sz, bad)
  PROVE  Whole(s, Append(sz, n), worse)
<1>1. ASSUME NEW k \in 1 .. Len(s), s[k].msg \notin worse
      PROVE  HasBefore(s, k, Append(sz, n)) /\ HasAfter(s, k, Append(sz, n))
  <2>1. HasBefore(s, k, sz) /\ HasAfter(s, k, sz)
    BY <1>1 DEF Whole
  <2>2. s[k] \in Sent(sz)
    OBVIOUS
  <2> QED BY <2>1, <2>2, SentStill DEF HasBefore, HasAfter
<1> QED BY <1>1 DEF Whole

(* More messages may be bad. *)
LEMMA WholeWorse ==
  ASSUME NEW s, NEW sz, NEW bad, NEW worse, bad \subseteq worse, Whole(s, sz, bad)
  PROVE  Whole(s, sz, worse)
BY DEF Whole

(* v is u without the byte at q. *)
Without(u, q, v) ==
  /\ Len(v) = Len(u) - 1
  /\ \A k \in 1 .. Len(v) : v[k] = IF k < q THEN u[k] ELSE u[k + 1]

(* Take a byte away, and what is left is whole but for its message. *)
LEMMA WholeWithout ==
  ASSUME NEW S, NEW u \in Seq(S), NEW v \in Seq(S), NEW q \in 1 .. Len(u),
         Without(u, q, v), NEW sz, NEW bad, Whole(u, sz, bad)
  PROVE  Whole(v, sz, bad \union {u[q].msg})
<1>1. ASSUME NEW k \in 1 .. Len(v), v[k].msg \notin bad \union {u[q].msg}
      PROVE  HasBefore(v, k, sz) /\ HasAfter(v, k, sz)
  <2>1. CASE k < q
    <3>1. v[k] = u[k] /\ k \in 1 .. Len(u) /\ HasBefore(u, k, sz) /\ HasAfter(u, k, sz)
      BY <1>1, <2>1 DEF Without, Whole
    <3>2. HasBefore(v, k, sz)
      BY <2>1, <3>1 DEF HasBefore, Without
    <3>3. HasAfter(v, k, sz)
      <4>1. v[k].at # CR => k + 1 # q
        BY <1>1, <3>1 DEF HasAfter, After, Char
      <4> QED BY <2>1, <3>1, <4>1 DEF HasAfter, Without
    <3> QED BY <3>2, <3>3
  <2>2. CASE k >= q
    <3>1. /\ v[k] = u[k + 1] /\ k + 1 \in 1 .. Len(u)
          /\ HasBefore(u, k + 1, sz) /\ HasAfter(u, k + 1, sz)
      BY <1>1, <2>2 DEF Without, Whole
    <3>2. HasBefore(v, k, sz)
      <4>1. v[k].at # 1 => k # q
        BY <1>1, <3>1 DEF HasBefore, Before, Char
      <4> QED BY <2>2, <3>1, <4>1 DEF HasBefore, Without
    <3>3. HasAfter(v, k, sz)
      BY <2>2, <3>1 DEF HasAfter, Without
    <3> QED BY <3>2, <3>3
  <2> QED BY <2>1, <2>2
<1> QED BY <1>1 DEF Whole

(* v is what stands behind the byte at q. *)
Behind(u, q, v) ==
  /\ Len(v) = Len(u) - q
  /\ \A k \in 1 .. Len(v) : v[k] = u[q + k]

(* Take a line away, and what is left is whole. *)
LEMMA WholeBehind ==
  ASSUME NEW sz \in Seq(Lengths), NEW u \in Seq(Sent(sz)), NEW v \in Seq(Sent(sz)),
         NEW q \in 1 .. Len(u), Behind(u, q, v), u[q].at = CR,
         NEW bad, Whole(u, sz, bad)
  PROVE  Whole(v, sz, bad)
<1>1. ASSUME NEW k \in 1 .. Len(v), v[k].msg \notin bad
      PROVE  HasBefore(v, k, sz) /\ HasAfter(v, k, sz)
  <2>1. /\ v[k] = u[q + k] /\ q + k \in 1 .. Len(u)
        /\ HasBefore(u, q + k, sz) /\ HasAfter(u, q + k, sz)
    BY <1>1 DEF Behind, Whole
  <2>2. HasBefore(v, k, sz)
    <3>1. v[k] \in Sent(sz)
      OBVIOUS
    <3>2. ASSUME k = 1, v[k].at # 1
          PROVE  FALSE
      <4>1. q + k - 1 = q /\ q \in Nat
        BY <3>2
      <4>2. u[q] = Before(v[k], sz)
        BY <2>1, <3>2, <4>1 DEF HasBefore
      <4>3. v[k].at \in Nat /\ Size(v[k].msg, sz) > 0
        BY <3>1, SentByte
      <4>4. Before(v[k], sz).at # 0
        BY <3>2, <4>3 DEF Before, Char, CR
      <4> QED BY <4>2, <4>4 DEF CR
    <3>3. v[k].at # 1 => k - 1 \in 1 .. Len(v) /\ v[k - 1] = u[q + (k - 1)]
      <4>1. v[k].at # 1 => k - 1 \in 1 .. Len(v)
        BY <3>2
      <4> QED BY <4>1 DEF Behind
    <3>4. q + (k - 1) = q + k - 1
      OBVIOUS
    <3> QED BY <2>1, <3>3, <3>4 DEF HasBefore
  <2>3. HasAfter(v, k, sz)
    <3>1. q + k < Len(u) => k < Len(v) /\ k + 1 \in 1 .. Len(v) /\ q + (k + 1) = (q + k) + 1
      BY DEF Behind
    <3> QED BY <2>1, <3>1 DEF HasAfter, Behind
  <2> QED BY <2>2, <2>3
<1> QED BY <1>1 DEF Whole

(* A message as the module sends it, with its carriage return or without. *)
Letters(m, sz) == Chars(m, Size(m, sz))
Message(m, sz) == Letters(m, sz) \o <<Char(m, CR)>>

(* Where the bytes of a message stand. *)
LEMMA MessageIs ==
  ASSUME NEW sz \in Seq(Lengths), NEW m \in 0 .. Len(sz)
  PROVE  /\ Size(m, sz) \in Nat /\ Size(m, sz) > 0
         /\ Letters(m, sz) \in Seq(Sent(sz)) /\ Message(m, sz) \in Seq(Sent(sz))
         /\ Len(Letters(m, sz)) = Size(m, sz)
         /\ Len(Message(m, sz)) = Size(m, sz) + 1
         /\ \A k \in 1 .. Size(m, sz) :
              Letters(m, sz)[k] = Char(m, k) /\ Message(m, sz)[k] = Char(m, k)
         /\ Message(m, sz)[Size(m, sz) + 1] = Char(m, CR)
<1> DEFINE n == Size(m, sz)
           s == Letters(m, sz)
<1>1. n \in Nat /\ n > 0
  <2>1. m # 0 => sz[m] \in Lengths
    OBVIOUS
  <2> QED BY <2>1, LengthsAre DEF Size
<1>2. s \in Seq(Sent(sz)) /\ Len(s) = n /\ \A k \in 1 .. n : s[k] = Char(m, k)
  BY <1>1, CharSent DEF Chars, Letters
<1>3. Char(m, CR) \in Sent(sz)
  BY <1>1, CharSent DEF CR
<1> HIDE DEF s, n
<1>4. /\ Message(m, sz) \in Seq(Sent(sz)) /\ Len(Message(m, sz)) = n + 1
      /\ \A k \in 1 .. n : Message(m, sz)[k] = s[k]
      /\ Message(m, sz)[n + 1] = Char(m, CR)
  BY <1>1, <1>2, <1>3 DEF Message, s
<1> QED BY <1>1, <1>2, <1>4 DEF s, n

(* A message is whole, and one without its end is, too, once it is bad. *)
LEMMA WholeMessage ==
  ASSUME NEW sz \in Seq(Lengths), NEW m \in 0 .. Len(sz), NEW bad
  PROVE  /\ Whole(Message(m, sz), sz, bad)
         /\ m \in bad => Whole(Letters(m, sz), sz, bad)
<1> DEFINE n == Size(m, sz)
           s == Message(m, sz)
<1>1. /\ n \in Nat /\ n > 0 /\ Len(s) = n + 1
      /\ \A k \in 1 .. n : s[k] = Char(m, k)
      /\ s[n + 1] = Char(m, CR)
  BY MessageIs
<1>2. m \in bad => Whole(Letters(m, sz), sz, bad)
  <2>1. \A k \in 1 .. Len(Letters(m, sz)) : Letters(m, sz)[k] = Char(m, k)
    BY MessageIs
  <2>2. ASSUME NEW k \in 1 .. Len(Letters(m, sz)) PROVE Letters(m, sz)[k].msg = m
    <3>1. Letters(m, sz)[k] = Char(m, k) /\ Char(m, k).msg = m
      BY <2>1 DEF Char
    <3> QED BY <3>1
  <2> QED BY <2>2 DEF Whole
<1> HIDE DEF s, n
<1>5. ASSUME NEW k \in 1 .. Len(s)
      PROVE  HasBefore(s, k, sz) /\ HasAfter(s, k, sz)
  <2>1. CASE k = n + 1
    BY <1>1, <2>1 DEF HasBefore, HasAfter, Before, Char, n, CR
  <2>2. CASE k < n + 1
    <3>1. s[k] = Char(m, k) /\ k \in 1 .. n
      BY <1>1, <2>2
    <3>2. HasBefore(s, k, sz)
      BY <1>1, <3>1 DEF HasBefore, Before, Char, CR
    <3>3. HasAfter(s, k, sz)
      BY <1>1, <3>1 DEF HasAfter, After, Char, CR, n
    <3> QED BY <3>2, <3>3
  <2> QED BY <1>1, <2>1, <2>2
<1>6. Whole(s, sz, bad)
  BY <1>5 DEF Whole
<1> QED BY <1>2, <1>6 DEF s

(***************************************************************************)
(* Bytes none of which is missing.                                         *)
(***************************************************************************)
LEMMA RunStill ==
  ASSUME NEW sz \in Seq(Lengths), NEW s \in Seq(Sent(sz)), NEW n \in Lengths, NEW from \in Nat,
         Run(s, from, sz)
  PROVE  Run(s, from, Append(sz, n))
<1>1. ASSUME NEW k \in 1 .. Len(s), k >= from, k < Len(s)
      PROVE  Follows(s[k], s[k + 1], Append(sz, n))
  <2>1. Follows(s[k], s[k + 1], sz) /\ s[k] \in Sent(sz)
    BY <1>1 DEF Run
  <2> QED BY <2>1, SentStill DEF Follows
<1> QED BY <1>1 DEF Run

(* A run may be taken to begin later. *)
LEMMA RunLater ==
  ASSUME NEW s, NEW sz, NEW from \in Nat, NEW later \in Nat, from <= later, Len(s) \in Nat,
         Run(s, from, sz)
  PROVE  Run(s, later, sz)
BY DEF Run

(* A run goes on with what begins at the first byte of a message. *)
LEMMA RunConcat ==
  ASSUME NEW S, NEW s \in Seq(S), NEW t \in Seq(S), NEW sz, NEW from \in Nat,
         Run(s, from, sz), Run(t, 1, sz), t # << >> => t[1].at = 1
  PROVE  Run(s \o t, from, sz)
<1> DEFINE u == s \o t
<1>1. /\ Len(u) = Len(s) + Len(t)
      /\ \A k \in 1 .. Len(s) : u[k] = s[k]
      /\ \A k \in 1 .. Len(t) : u[Len(s) + k] = t[k]
      /\ Len(s) \in Nat /\ Len(t) \in Nat
      /\ (u = << >> => Len(u) = 0) /\ (s # << >> <=> Len(s) > 0) /\ (t # << >> <=> Len(t) > 0)
  OBVIOUS
<1> HIDE DEF u
<1>2. ASSUME NEW k \in 1 .. Len(u), k >= from, k < Len(u)
      PROVE  Follows(u[k], u[k + 1], sz)
  <2>1. CASE k < Len(s)
    <3>1. k \in 1 .. Len(s) /\ k + 1 \in 1 .. Len(s)
      BY <1>1, <2>1
    <3>2. Follows(s[k], s[k + 1], sz)
      BY <1>2, <2>1, <3>1 DEF Run
    <3> QED BY <1>1, <3>1, <3>2
  <2>2. CASE k = Len(s)
    <3>1. u[k] = s[k] /\ s[k].at = CR
      BY <1>1, <1>2, <2>2 DEF Run
    <3>2. u[k + 1] = t[1] /\ t[1].at = 1
      BY <1>1, <1>2, <2>2
    <3> QED BY <3>1, <3>2 DEF Follows
  <2>3. CASE k > Len(s)
    <3>1. PICK l \in 1 .. Len(t) : k = Len(s) + l /\ l < Len(t)
      <4>1. k - Len(s) \in 1 .. Len(t) /\ k = Len(s) + (k - Len(s)) /\ k - Len(s) < Len(t)
        BY <1>1, <1>2, <2>3
      <4> QED BY <4>1
    <3>2. Follows(t[l], t[l + 1], sz)
      BY <3>1 DEF Run
    <3>3. l + 1 \in 1 .. Len(t) /\ k + 1 = Len(s) + (l + 1)
      BY <1>1, <3>1
    <3> QED BY <1>1, <3>1, <3>2, <3>3
  <2> QED BY <1>1, <2>1, <2>2, <2>3
<1>3. u # << >> => u[Len(u)].at = CR
  <2>1. CASE Len(t) = 0
    BY <1>1, <2>1 DEF Run, u
  <2>2. CASE Len(t) > 0
    <3>1. Len(t) \in 1 .. Len(t) /\ t[Len(t)].at = CR
      BY <1>1, <2>2 DEF Run
    <3> QED BY <1>1, <3>1
  <2> QED BY <1>1, <2>1, <2>2
<1> QED BY <1>2, <1>3 DEF Run, u

(* Without the byte at its start, a run begins one later. *)
LEMMA RunWithout ==
  ASSUME NEW S, NEW u \in Seq(S), NEW v \in Seq(S), NEW q \in 1 .. Len(u), q < Len(u),
         Without(u, q, v), NEW sz, Run(u, q, sz)
  PROVE  Run(v, q, sz)
<1>1. ASSUME NEW k \in 1 .. Len(v), k >= q, k < Len(v)
      PROVE  Follows(v[k], v[k + 1], sz)
  <2>1. v[k] = u[k + 1] /\ v[k + 1] = u[(k + 1) + 1] /\ k + 1 \in 1 .. Len(u) /\ k + 1 < Len(u)
    BY <1>1 DEF Without
  <2> QED BY <1>1, <2>1 DEF Run
<1>2. v[Len(v)] = u[Len(u)] /\ u # << >>
  BY DEF Without
<1> QED BY <1>1, <1>2 DEF Run

(* Behind the bytes thrown away a run begins so much earlier. *)
LEMMA RunBehind ==
  ASSUME NEW S, NEW u \in Seq(S), NEW v \in Seq(S), NEW q \in 1 .. Len(u), Behind(u, q, v),
         NEW sz, NEW from \in Nat, NEW to \in Nat, from <= q + to, Run(u, from, sz)
  PROVE  Run(v, to, sz)
<1>1. ASSUME NEW k \in 1 .. Len(v), k >= to, k < Len(v)
      PROVE  Follows(v[k], v[k + 1], sz)
  <2>1. /\ v[k] = u[q + k] /\ v[k + 1] = u[q + (k + 1)] /\ q + (k + 1) = (q + k) + 1
        /\ q + k \in 1 .. Len(u) /\ q + k < Len(u) /\ q + k >= from
    BY <1>1 DEF Behind
  <2> QED BY <1>1, <2>1 DEF Run
<1>2. ASSUME v # << >> PROVE v[Len(v)] = u[Len(u)] /\ u # << >>
  <2>1. Len(v) \in 1 .. Len(v) /\ q + Len(v) = Len(u)
    BY <1>2 DEF Behind
  <2> QED BY <2>1 DEF Behind
<1> QED BY <1>1, <1>2 DEF Run

(* A message with its end is a run. *)
LEMMA RunMessage ==
  ASSUME NEW sz \in Seq(Lengths), NEW m \in 0 .. Len(sz)
  PROVE  Run(Message(m, sz), 1, sz) /\ Message(m, sz)[1].at = 1
<1> DEFINE n == Size(m, sz)
           s == Message(m, sz)
<1>1. /\ n \in Nat /\ n > 0 /\ Len(s) = n + 1
      /\ \A k \in 1 .. n : s[k] = Char(m, k)
      /\ s[n + 1] = Char(m, CR)
  BY MessageIs
<1> HIDE DEF s, n
<1>3. ASSUME NEW k \in 1 .. Len(s), k < Len(s)
      PROVE  Follows(s[k], s[k + 1], sz)
  <2>1. s[k] = Char(m, k) /\ k \in 1 .. n /\ k # CR
    BY <1>1, <1>3 DEF CR
  <2>2. s[k + 1] = Char(m, IF k = n THEN CR ELSE k + 1)
    BY <1>1, <1>3
  <2> QED BY <2>1, <2>2 DEF Follows, After, Char, n
<1>4. s[Len(s)] = Char(m, CR) /\ s[1] = Char(m, 1)
  BY <1>1
<1>5. Run(s, 1, sz)
  BY <1>3, <1>4 DEF Run, Char
<1> QED BY <1>4, <1>5 DEF s, Char
-----------------------------------------------------------------------------
(***************************************************************************)
(* The steps.                                                              *)
(***************************************************************************)
LEMMA StreamTypes ==
  ASSUME TypesInv
  PROVE  /\ Taken \in Seq(Sent(sizes)) /\ Coming \in Seq(Sent(sizes))
         /\ Len(Taken) = (IF Reading THEN Len(buffer) ELSE 0) + Len(fifo)
         /\ Len(Coming) = Len(Taken) + Len(line)
BY DEF TypesInv, Taken, Coming

(* What a step does to the bytes still to be read: nothing, if it only     *)
(* moves them from one place to the next.                                  *)
Moves == UNCHANGED <<sizes, lost, damaged, received>> /\ Coming' = Coming /\ Len(Taken') >= Len(Taken)

(* XBeeRetrieveMessage begins: the line starts empty. *)
LEMMA PollMoves == ASSUME TypesInv, Poll PROVE Moves /\ Len(Taken') = Len(Taken)
<1>1. Taken = fifo /\ Taken' = << >> \o fifo
  BY DEF Poll, Taken, Reading, StartOfBuffer
<1>2. Taken' = Taken
  BY <1>1 DEF TypesInv
<1> QED BY <1>2 DEF Moves, Coming, Poll

(* A byte goes from the receiver to the buffer. *)
LEMMA ReadByteMoves == ASSUME TypesInv, ReadByte PROVE Moves /\ Len(Taken') = Len(Taken)
<1>1. Taken = buffer \o fifo /\ Taken' = Append(buffer, Head(fifo)) \o Tail(fifo)
  BY DEF ReadByte, Taken, Reading
<1>2. Taken' = Taken
  <2>1. fifo # << >> /\ buffer \in Seq(Sent(sizes)) /\ fifo \in Seq(Sent(sizes))
    BY DEF ReadByte, TypesInv
  <2> QED BY <1>1, <2>1
<1> QED BY <1>2 DEF Moves, Coming, ReadByte

(* The rest of the loop of main touches no byte. *)
LEMMA BusyMoves == ASSUME TypesInv, GetBusy \/ GetDone PROVE Moves /\ Len(Taken') = Len(Taken)
<1>1. Taken' = Taken
  BY DEF GetBusy, GetDone, Taken, Reading
<1> QED BY <1>1 DEF Moves, Coming, GetBusy, GetDone

(* A byte goes from the line to a receiver with room. *)
LEMMA ArriveMoves == ASSUME TypesInv, Arrive, ~Full(fifo) PROVE Moves /\ Len(Taken') = Len(Taken) + 1
<1>1. /\ line # << >> /\ line \in Seq(Sent(sizes)) /\ fifo \in Seq(Sent(sizes))
      /\ buffer \in Seq(Sent(sizes)) /\ Head(line) \in Sent(sizes)
      /\ fifo' = Append(fifo, Head(line)) /\ line' = Tail(line) /\ UNCHANGED <<phase, buffer>>
  BY DEF Arrive, TypesInv, Receive
<1>2. /\ Taken' \in Seq(Sent(sizes)) /\ Taken' = Append(Taken, Head(line))
  <2>1. CASE Reading
    BY <1>1, <2>1 DEF Taken, Reading
  <2>2. CASE ~Reading
    BY <1>1, <2>2 DEF Taken, Reading
  <2> QED BY <2>1, <2>2
<1>3. Taken \in Seq(Sent(sizes)) /\ Append(Taken, Head(line)) \o Tail(line) = Taken \o line
  BY <1>1, StreamTypes
<1>4. Coming' = Coming /\ Len(Taken') = Len(Taken) + 1
  BY <1>1, <1>2, <1>3 DEF Coming
<1> QED BY <1>3, <1>4 DEF Moves, Arrive

(* A full receiver stays one of three bytes. *)
LEMMA StillFull ==
  ASSUME NEW S, NEW f \in Seq(S), Len(f) = 3, NEW e \in S
  PROVE  /\ [f EXCEPT ![3] = e] \in Seq(S) /\ Len([f EXCEPT ![3] = e]) = 3
         /\ [f EXCEPT ![3] = e][1] = f[1] /\ [f EXCEPT ![3] = e][2] = f[2]
         /\ [f EXCEPT ![3] = e][3] = e
<1>1. [f EXCEPT ![3] = e] \in Seq(S)
  OBVIOUS
<1>2. Len([f EXCEPT ![3] = e]) = 3
  OBVIOUS
<1>3. DOMAIN f = 1 .. 3
  BY LenProperties
<1>4. [f EXCEPT ![3] = e][1] = f[1] /\ [f EXCEPT ![3] = e][2] = f[2] /\ [f EXCEPT ![3] = e][3] = e
  BY <1>3
<1> QED BY <1>1, <1>2, <1>4

(* The third byte of a full receiver goes, and the next of the line comes. *)
LEMMA Replaced ==
  ASSUME NEW S, NEW f \in Seq(S), NEW l \in Seq(S), Len(f) = 3, l # << >>
  PROVE  /\ [f EXCEPT ![3] = Head(l)] \o Tail(l) \in Seq(S)
         /\ Len([f EXCEPT ![3] = Head(l)]) = 3 /\ Len(f \o l) > 3 /\ (f \o l)[3] = f[3]
         /\ Without(f \o l, 3, [f EXCEPT ![3] = Head(l)] \o Tail(l))
<1> DEFINE g == [f EXCEPT ![3] = Head(l)]
           t == Tail(l)
           u == f \o l
           v == g \o t
<1>1. /\ Len(l) \in Nat /\ Len(l) > 0 /\ Head(l) = l[1] /\ Head(l) \in S
      /\ t \in Seq(S) /\ Len(t) = Len(l) - 1 /\ \A k \in 1 .. Len(t) : t[k] = l[k + 1]
  BY HeadTailProperties
<1>2. g \in Seq(S) /\ Len(g) = 3 /\ g[1] = f[1] /\ g[2] = f[2] /\ g[3] = l[1]
  BY <1>1, StillFull
<1>3. /\ Len(u) = 3 + Len(l)
      /\ \A k \in 1 .. 3 + Len(l) : u[k] = IF k <= 3 THEN f[k] ELSE l[k - 3]
  <2>1. /\ Len(u) = Len(f) + Len(l)
        /\ \A k \in 1 .. Len(f) + Len(l) : u[k] = IF k <= Len(f) THEN f[k] ELSE l[k - Len(f)]
    BY ConcatProperties
  <2> HIDE DEF u
  <2> QED BY <2>1
<1> HIDE DEF g, t, u
<1>4. /\ v \in Seq(S) /\ Len(v) = 3 + Len(t)
      /\ \A k \in 1 .. 3 + Len(t) : v[k] = IF k <= 3 THEN g[k] ELSE t[k - 3]
  <2>1. /\ v \in Seq(S) /\ Len(v) = Len(g) + Len(t)
        /\ \A k \in 1 .. Len(g) + Len(t) : v[k] = IF k <= Len(g) THEN g[k] ELSE t[k - Len(g)]
    BY <1>1, <1>2, ConcatProperties
  <2> HIDE DEF v
  <2> QED BY <1>2, <2>1
<1> HIDE DEF v
<1>5. ASSUME NEW k \in 1 .. Len(v)
      PROVE  v[k] = IF k < 3 THEN u[k] ELSE u[k + 1]
  <2>1. CASE k \in 1 .. 2
    BY <1>1, <1>2, <1>3, <1>4, <2>1
  <2>2. CASE k = 3
    BY <1>1, <1>2, <1>3, <1>4, <2>2
  <2>3. CASE k > 3
    <3>1. v[k] = t[k - 3] /\ k - 3 \in 1 .. Len(t)
      BY <1>1, <1>4, <2>3
    <3>2. u[k + 1] = l[k + 1 - 3] /\ k + 1 - 3 = (k - 3) + 1
      BY <1>1, <1>3, <1>4, <2>3
    <3> QED BY <1>1, <2>3, <3>1, <3>2
  <2> QED BY <1>1, <1>4, <2>1, <2>2, <2>3
<1>6. Without(u, 3, v)
  BY <1>1, <1>3, <1>4, <1>5 DEF Without
<1> QED BY <1>1, <1>2, <1>3, <1>4, <1>6 DEF u, v, g, t

(* A byte that comes when the receiver is full takes the place of another. *)
LEMMA Overruns ==
  ASSUME TypesInv, Arrive, Full(fifo)
  PROVE  /\ UNCHANGED <<sizes, lost, received, buffer, phase>>
         /\ damaged' = damaged \union {Coming[3].msg}
         /\ Len(Coming) > 3 /\ Len(Taken) = 3 /\ Len(Taken') = 3
         /\ Coming' \in Seq(Sent(sizes)) /\ Without(Coming, 3, Coming')
<1>1. /\ line # << >> /\ line \in Seq(Sent(sizes)) /\ fifo \in Seq(Sent(sizes)) /\ Len(fifo) = 3
      /\ line' = Tail(line) /\ UNCHANGED <<sizes, lost, received, buffer, phase>>
  BY DEF Arrive, TypesInv, Full, Depth
<1>2. fifo' = [fifo EXCEPT ![3] = Head(line)] /\ damaged' = damaged \union {fifo[3].msg}
  BY DEF Arrive, Receive, Full, Depth
<1>3. ~Reading /\ ~Reading'
  <2>1. fifo # << >>
    <3>1. Len(<< >>) # 3
      OBVIOUS
    <3>2. Len(fifo) = 3
      BY <1>1
    <3> QED BY <3>1, <3>2, Zenon
  <2>2. phase \in {"send", "busy"}
    BY <2>1 DEF Arrive
  <2> QED BY <1>1, <2>2 DEF Reading
<1>4. Coming = fifo \o line /\ Coming' = [fifo EXCEPT ![3] = Head(line)] \o Tail(line)
      /\ Taken = fifo /\ Taken' = [fifo EXCEPT ![3] = Head(line)]
  BY <1>1, <1>2, <1>3 DEF Coming, Taken
<1> QED BY <1>1, <1>2, <1>4, Replaced

(* The carriage return that ends a line is thrown away with the line. *)
LEMMA EndsLine ==
  ASSUME TypesInv, ReadEnd
  PROVE  /\ UNCHANGED <<sizes, lost, damaged>>
         /\ Coming' \in Seq(Sent(sizes)) /\ Behind(Coming, Len(buffer) + 1, Coming')
         /\ Len(buffer) + 1 \in 1 .. Len(Coming) /\ Coming[Len(buffer) + 1].at = CR
         /\ Len(Taken) = Len(buffer) + 1 + Len(Taken')
<1>1. /\ fifo # << >> /\ fifo \in Seq(Sent(sizes)) /\ buffer \in Seq(Sent(sizes)) /\ line \in Seq(Sent(sizes))
      /\ Len(fifo) \in Nat /\ Len(fifo) > 0 /\ Len(buffer) \in Nat
      /\ Head(fifo).at = CR /\ fifo' = Tail(fifo) /\ line' = line /\ Reading
      /\ UNCHANGED <<sizes, lost, damaged>>
  BY DEF ReadEnd, TypesInv
<1>2. Taken' = fifo'
  <2>1. CASE phase = "answer"
    <3>1. buffer' = << >>
      BY <2>1 DEF ReadEnd
    <3> QED BY <1>1, <3>1 DEF Taken
  <2>2. CASE phase # "answer"
    BY <2>2 DEF ReadEnd, Taken, Reading
  <2> QED BY <2>1, <2>2
<1>3. Coming = (buffer \o fifo) \o line /\ Coming' = Tail(fifo) \o line
  BY <1>1, <1>2 DEF Coming, Taken
<1>4. /\ Coming' \in Seq(Sent(sizes)) /\ Len(Coming') = Len(fifo) - 1 + Len(line)
      /\ Len(Coming) = Len(buffer) + Len(fifo) + Len(line)
      /\ Coming[Len(buffer) + 1] = Head(fifo)
      /\ \A k \in 1 .. Len(Coming') : Coming'[k] = Coming[Len(buffer) + 1 + k]
  BY <1>1, <1>3
<1>5. Behind(Coming, Len(buffer) + 1, Coming')
  <2>1. Len(Coming') = Len(Coming) - (Len(buffer) + 1)
    BY <1>1, <1>4
  <2> QED BY <1>4, <2>1 DEF Behind
<1>6. Len(Taken) = Len(buffer) + 1 + Len(Taken')
  <2>1. Taken = buffer \o fifo /\ Taken' = Tail(fifo)
    BY <1>1, <1>2 DEF Taken
  <2> QED BY <1>1, <2>1
<1> QED BY <1>1, <1>4, <1>5, <1>6

(* Where a run has to begin, as bytes come to the mug and go. *)
LEMMA RunStartGrows ==
  /\ \A n \in Nat : RunStart(n) \in Nat /\ RunStart(n) >= 1 /\ RunStart(n) <= 3
  /\ \A n \in Nat, l \in Nat : n <= l => RunStart(n) <= RunStart(l)
  /\ \A n \in Nat, t \in Nat : RunStart(n + 1 + t) <= n + 1 + RunStart(t)
BY DEF RunStart

(* A step that only moves bytes leaves what is to come as it was. *)
LEMMA MovesKeep ==
  ASSUME TypesInv, WholeInv, RunInv, ShownWhole, Moves
  PROVE  /\ WholeInv' /\ ShownWhole'
         /\ lost' = {} => Run(Coming', RunStart(Len(Taken')), sizes')
<1>1. Len(Taken) \in Nat /\ Len(Coming) \in Nat
  BY StreamTypes
<1>2. WholeInv' /\ ShownWhole'
  BY DEF Moves, WholeInv, ShownWhole, Bad
<1>3. ASSUME lost' = {}
      PROVE  Run(Coming', RunStart(Len(Taken')), sizes')
  <2>1. Run(Coming, RunStart(Len(Taken)), sizes) /\ Coming' = Coming /\ sizes' = sizes
    BY <1>3 DEF RunInv, Moves
  <2>2. Len(Taken') \in Nat /\ Len(Taken') >= Len(Taken)
    BY DEF Moves
  <2>3. RunStart(Len(Taken)) \in Nat /\ RunStart(Len(Taken')) \in Nat
        /\ RunStart(Len(Taken)) <= RunStart(Len(Taken'))
    BY <1>1, <2>2, RunStartGrows
  <2> QED BY <1>1, <2>1, <2>3, RunLater
<1> QED BY <1>2, <1>3

(* The line being read stays as it is, whatever comes. *)
LEMMA BufferStill ==
  ASSUME TypesInv, BufferInv, buffer' = buffer, Bad \subseteq Bad',
         sizes' = sizes \/ \E n \in Lengths : sizes' = Append(sizes, n)
  PROVE  BufferInv'
<1>1. ASSUME buffer # << >>
      PROVE  Size(buffer[1].msg, sizes') = Size(buffer[1].msg, sizes)
  <2>1. buffer[1] \in Sent(sizes) /\ sizes \in Seq(Lengths)
    BY <1>1 DEF TypesInv
  <2> QED BY <2>1, SentStill
<1> QED BY <1>1 DEF BufferInv

(* Nothing is on its way when the boot begins. *)
LEMMA LinkBegins == ASSUME Init PROVE LinkInv
<1>1. Coming = << >> /\ Len(<< >>) = 0
  BY DEF Init, Coming, Taken, Reading
<1>2. TypesInv
  <2>1. 1 \in 1 .. Len(Dialogue) /\ MaxMessages \in Nat
    BY XBeeLinkAssumption DEF Dialogue, XBeeLinkAssumption
  <2> QED BY <1>1, <2>1 DEF Init, TypesInv, Depth
<1>3. WholeInv
  BY <1>1 DEF WholeInv, Whole
<1>4. BufferInv
  BY <1>1 DEF Init, BufferInv
<1>5. RunInv
  BY <1>1 DEF Init, RunInv, Run
<1>6. ShownWhole
  BY <1>1 DEF Init, ShownWhole
<1> QED BY <1>2, <1>3, <1>4, <1>5, <1>6 DEF LinkInv

(* The answer, taken together from its letters and its end. *)
LEMMA OneMore ==
  ASSUME NEW a, NEW b, NEW c
  PROVE  <<a, b>> \o <<c>> = <<a, b, c>>
<1> DEFINE S == {a, b, c}
<1>1. /\ <<a, b>> \in Seq(S) /\ <<c>> \in Seq(S) /\ <<a, b, c>> \in Seq(S)
      /\ Len(<<a, b>>) = 2 /\ Len(<<c>>) = 1 /\ Len(<<a, b, c>>) = 3
  OBVIOUS
<1> DEFINE u == <<a, b>> \o <<c>>
<1>2. Len(u) = 3 /\ u \in Seq(S)
  BY <1>1, ConcatProperties
<1>3. u[1] = a /\ u[2] = b /\ u[3] = c
  BY <1>1, ConcatProperties
<1> HIDE DEF u
<1>4. \A i \in 1 .. 3 : u[i] = <<a, b, c>>[i]
  BY <1>3
<1>5. u = <<a, b, c>>
  BY <1>1, <1>2, <1>4, SeqEqual
<1> QED BY <1>5 DEF u

(* The answers of the module are messages of number 0. *)
LEMMA AnswersAre ==
  ASSUME NEW sz \in Seq(Lengths), NEW n, NEW bad
  PROVE  /\ Answers(n) \in Seq(Sent(sz)) /\ Whole(Answers(n), sz, bad)
         /\ Run(Answers(n), 1, sz) /\ (Answers(n) # << >> => Answers(n)[1].at = 1)
<1>1. Answer = Message(0, sz)
  <2>1. Letters(0, sz) = <<Char(0, 1), Char(0, 2)>>
    BY DEF Letters, Chars, Size
  <2>2. <<Char(0, 1), Char(0, 2)>> \o <<Char(0, CR)>> = Answer
    BY OneMore DEF Answer
  <2> QED BY <2>1, <2>2 DEF Message
<1>2. 0 \in 0 .. Len(sz)
  OBVIOUS
<1>3. /\ Answer \in Seq(Sent(sz)) /\ Whole(Answer, sz, bad)
      /\ Run(Answer, 1, sz) /\ Answer[1].at = 1 /\ Len(Answer) = 3
  BY <1>1, <1>2, MessageIs, WholeMessage, RunMessage DEF Size
<1>4. /\ << >> \in Seq(Sent(sz)) /\ Whole(<< >>, sz, bad) /\ Run(<< >>, 1, sz)
  <2>1. Len(<< >>) = 0
    OBVIOUS
  <2> QED BY <2>1 DEF Whole, Run
<1>5. /\ Answer \o Answer \in Seq(Sent(sz)) /\ Whole(Answer \o Answer, sz, bad)
      /\ Run(Answer \o Answer, 1, sz) /\ (Answer \o Answer)[1].at = 1
  <2>1. (Answer \o Answer)[1] = Answer[1]
    <3>1. 1 \in 1 .. Len(Answer) + Len(Answer) /\ 1 <= Len(Answer)
      BY <1>3
    <3>2. ASSUME NEW i \in 1 .. Len(Answer) + Len(Answer), i <= Len(Answer)
          PROVE  (Answer \o Answer)[i] = Answer[i]
      BY <1>3, <3>2, ConcatProperties
    <3> QED BY <3>1, <3>2
  <2>2. Answer \o Answer \in Seq(Sent(sz))
    BY <1>3
  <2>3. Whole(Answer \o Answer, sz, bad)
    BY <1>3, WholeConcat
  <2>4. Run(Answer \o Answer, 1, sz)
    <3>1. 1 \in Nat
      OBVIOUS
    <3> QED BY <1>3, <3>1, RunConcat
  <2> QED BY <1>3, <2>1, <2>2, <2>3, <2>4
<1> QED BY <1>3, <1>4, <1>5 DEF Answers

(* What the module has to send goes behind what it had. *)
LEMMA MoreComes ==
  ASSUME NEW S, Taken \in Seq(S), line \in Seq(S), NEW t \in Seq(S),
         Taken' = Taken, line' = line \o t
  PROVE  Coming' = Coming \o t
BY ConcatAssociative DEF Coming

(* A command of the boot: its answers go behind what the module has to send. *)
LEMMA SendCommandKeeps == ASSUME LinkInv, SendCommand PROVE LinkInv'
<1> DEFINE t == Answers(Dialogue[step])
<1>1. TypesInv /\ WholeInv /\ BufferInv /\ RunInv /\ ShownWhole
  BY DEF LinkInv
<1>2. /\ UNCHANGED <<step, fifo, received, sizes, lost, damaged>>
      /\ phase = "send" /\ phase' = "answer" /\ buffer' = << >> /\ line' = line \o t
  BY DEF SendCommand
<1>3. /\ sizes \in Seq(Lengths) /\ line \in Seq(Sent(sizes)) /\ fifo \in Seq(Sent(sizes))
      /\ Len(<< >>) = 0
  BY <1>1 DEF TypesInv
<1>4. /\ t \in Seq(Sent(sizes)) /\ Whole(t, sizes, Bad)
      /\ Run(t, 1, sizes) /\ (t # << >> => t[1].at = 1)
  BY <1>3, AnswersAre
<1> HIDE DEF t
<1>5. Taken' = Taken
  BY <1>2, <1>3 DEF Taken, Reading
<1>6. Coming' = Coming \o t
  BY <1>1, <1>2, <1>3, <1>4, <1>5, StreamTypes, MoreComes
<1>7. TypesInv'
  BY <1>1, <1>2, <1>3, <1>4 DEF TypesInv
<1>8. WholeInv'
  BY <1>1, <1>2, <1>3, <1>4, <1>6, StreamTypes, WholeConcat DEF WholeInv, Bad
<1>9. BufferInv'
  BY <1>2, <1>3 DEF BufferInv
<1>10. RunInv'
  <2>1. RunStart(Len(Taken)) \in Nat
    BY <1>1, StreamTypes, RunStartGrows
  <2>2. lost = {} => Run(Coming \o t, RunStart(Len(Taken)), sizes)
    BY <1>1, <1>4, <2>1, StreamTypes, RunConcat DEF RunInv
  <2> QED BY <1>2, <1>3, <1>5, <1>6, <2>2 DEF RunInv
<1>11. ShownWhole'
  BY <1>1, <1>2 DEF ShownWhole
<1> QED BY <1>7, <1>8, <1>9, <1>10, <1>11 DEF LinkInv

(* The loop of main begins to read a line. *)
LEMMA PollKeeps == ASSUME LinkInv, Poll PROVE LinkInv'
<1>1. TypesInv /\ WholeInv /\ BufferInv /\ RunInv /\ ShownWhole /\ Moves
  BY PollMoves DEF LinkInv
<1>2. /\ UNCHANGED <<step, line, fifo, received, sizes, lost, damaged>>
      /\ phase' = "read" /\ buffer' = << >> /\ Len(<< >>) = 0
  BY DEF Poll, StartOfBuffer
<1>3. TypesInv'
  BY <1>1, <1>2 DEF TypesInv
<1>4. BufferInv'
  BY <1>2 DEF BufferInv
<1>5. RunInv'
  BY <1>1, <1>2, MovesKeep DEF RunInv
<1> QED BY <1>1, <1>3, <1>4, <1>5, MovesKeep DEF LinkInv

(* The loop of main does something else. *)
LEMMA BusyKeeps == ASSUME LinkInv, GetBusy \/ GetDone PROVE LinkInv'
<1>1. TypesInv /\ WholeInv /\ BufferInv /\ RunInv /\ ShownWhole /\ Moves
  BY BusyMoves DEF LinkInv
<1>2. UNCHANGED <<step, line, fifo, buffer, received, sizes, lost, damaged>> /\ phase' \in {"loop", "busy"}
  BY DEF GetBusy, GetDone
<1>3. TypesInv'
  BY <1>1, <1>2 DEF TypesInv
<1>4. BufferInv'
  BY <1>1, <1>2, BufferStill DEF Bad
<1>5. RunInv'
  BY <1>1, <1>2, MovesKeep DEF RunInv
<1> QED BY <1>1, <1>3, <1>4, <1>5, MovesKeep DEF LinkInv

(* What ReadByte takes is the first byte to come behind those of the line. *)
LEMMA ReadByteTakes ==
  ASSUME TypesInv, ReadByte
  PROVE  /\ UNCHANGED <<phase, step, line, received, sizes, lost, damaged>>
         /\ Len(buffer) \in Nat /\ Len(buffer) < Len(Coming) /\ Len(buffer) < Len(Taken)
         /\ \A k \in 1 .. Len(buffer) : Coming[k] = buffer[k] /\ buffer'[k] = buffer[k]
         /\ Coming[Len(buffer) + 1] = Head(fifo) /\ Head(fifo) \in Sent(sizes) /\ Head(fifo).at # CR
         /\ buffer' \in Seq(Sent(sizes)) /\ fifo' \in Seq(Sent(sizes)) /\ Len(fifo') < Len(fifo)
         /\ Len(buffer') = Len(buffer) + 1 /\ buffer'[Len(buffer) + 1] = Head(fifo)
<1>1. /\ fifo # << >> /\ fifo \in Seq(Sent(sizes)) /\ buffer \in Seq(Sent(sizes)) /\ line \in Seq(Sent(sizes))
      /\ Head(fifo).at # CR /\ fifo' = Tail(fifo) /\ buffer' = Append(buffer, Head(fifo)) /\ Reading
      /\ UNCHANGED <<phase, step, line, received, sizes, lost, damaged>>
  BY DEF ReadByte, TypesInv
<1>2. /\ Head(fifo) \in Sent(sizes) /\ Tail(fifo) \in Seq(Sent(sizes)) /\ Len(Tail(fifo)) = Len(fifo) - 1
      /\ Len(fifo) \in Nat /\ Len(fifo) > 0 /\ Head(fifo) = fifo[1] /\ Len(buffer) \in Nat
  BY <1>1
<1>3. Coming = (buffer \o fifo) \o line
  BY <1>1 DEF Coming, Taken
<1>4. /\ Len(Coming) = Len(buffer) + Len(fifo) + Len(line) /\ Len(line) \in Nat
      /\ Coming[Len(buffer) + 1] = fifo[1]
      /\ \A k \in 1 .. Len(buffer) : Coming[k] = buffer[k]
  BY <1>1, <1>2, <1>3
<1>5. Len(Taken) = Len(buffer) + Len(fifo)
  BY <1>1, StreamTypes
<1>6. /\ buffer' \in Seq(Sent(sizes)) /\ Len(buffer') = Len(buffer) + 1
      /\ \A k \in 1 .. Len(buffer) : buffer'[k] = buffer[k]
      /\ buffer'[Len(buffer) + 1] = Head(fifo)
  BY <1>1, <1>2, AppendProperties
<1> QED BY <1>1, <1>2, <1>4, <1>5, <1>6

(* A byte is read: it continues the message the line begins with. *)
LEMMA ReadByteKeeps == ASSUME LinkInv, ReadByte PROVE LinkInv'
<1> DEFINE n == Len(buffer)
           h == Head(fifo)
<1>1. TypesInv /\ WholeInv /\ BufferInv /\ RunInv /\ ShownWhole /\ Moves
  BY ReadByteMoves DEF LinkInv
<1>2. /\ UNCHANGED <<phase, step, line, received, sizes, lost, damaged>>
      /\ n \in Nat /\ n < Len(Coming) /\ n < Len(Taken)
      /\ \A k \in 1 .. n : Coming[k] = buffer[k] /\ buffer'[k] = buffer[k]
      /\ Coming[n + 1] = h /\ h \in Sent(sizes) /\ h.at # CR
      /\ buffer' \in Seq(Sent(sizes)) /\ fifo' \in Seq(Sent(sizes)) /\ Len(fifo') < Len(fifo)
      /\ Len(buffer') = n + 1 /\ buffer'[n + 1] = h
  BY <1>1, ReadByteTakes
<1>3. /\ Len(Coming) \in Nat /\ Len(Taken) \in Nat /\ sizes \in Seq(Lengths)
      /\ buffer \in Seq(Sent(sizes))
  BY <1>1, StreamTypes DEF TypesInv
<1> HIDE DEF n, h
<1>4. TypesInv'
  <2>1. Len(fifo') <= Depth
    BY <1>1, <1>2 DEF TypesInv, Depth
  <2> QED BY <1>1, <1>2, <2>1 DEF TypesInv
<1>5. BufferInv'
  <2>1. \A k \in 1 .. Len(buffer') : buffer'[k].at # CR
    <3>1. \A k \in 1 .. n : buffer'[k].at # CR
      BY <1>1, <1>2 DEF BufferInv, n
    <3> QED BY <1>2, <3>1
  <2>2. ASSUME buffer'[1].msg \notin Bad
        PROVE  /\ Len(buffer') <= Size(buffer'[1].msg, sizes)
               /\ \A k \in 1 .. Len(buffer') : buffer'[k] = Char(buffer'[1].msg, k)
    <3>1. n + 1 \in 1 .. Len(Coming) /\ (n > 0 => n \in 1 .. Len(Coming))
      BY <1>2, <1>3
    <3>2. CASE n = 0
      <4>1. buffer'[1] = h /\ Coming[1] = h /\ Len(buffer') = 1 /\ 1 \in 1 .. Len(Coming)
        BY <1>2, <3>1, <3>2
      <4>2. h.at = 1
        BY <1>1, <2>2, <4>1 DEF WholeInv, Whole, HasBefore
      <4>3. h = Char(h.msg, 1) /\ 1 <= Size(h.msg, sizes)
        BY <1>2, <1>3, <4>2, SentByte
      <4> QED BY <4>1, <4>3
    <3>3. CASE n > 0
      <4> DEFINE b == buffer[1].msg
      <4>1. buffer # << >> /\ buffer'[1] = buffer[1] /\ 1 \in 1 .. n /\ n \in 1 .. n
        BY <1>2, <3>3 DEF n
      <4>2. n <= Size(b, sizes) /\ \A k \in 1 .. n : buffer[k] = Char(b, k)
        BY <1>1, <2>2, <4>1 DEF BufferInv, n
      <4>3. Coming[n] = Char(b, n) /\ Coming[n].msg = b /\ Coming[n].at = n
        BY <1>2, <4>1, <4>2 DEF Char
      <4>4. h = After(Coming[n], sizes)
        <5>1. HasAfter(Coming, n, sizes)
          BY <1>1, <2>2, <3>1, <3>3, <4>1, <4>3 DEF WholeInv, Whole
        <5> QED BY <1>2, <3>3, <4>3, <5>1 DEF HasAfter, CR
      <4>5. n # Size(b, sizes) /\ h = Char(b, n + 1)
        BY <1>2, <4>3, <4>4 DEF After, Char
      <4>6. Size(b, sizes) \in Nat
        BY <1>3, <4>1, SentByte DEF n
      <4>7. \A k \in 1 .. n + 1 : buffer'[k] = Char(b, k)
        BY <1>2, <4>2, <4>5
      <4> QED BY <1>2, <4>1, <4>2, <4>5, <4>6, <4>7
    <3> QED BY <1>2, <3>2, <3>3
  <2> QED BY <1>2, <2>1, <2>2 DEF BufferInv, Bad
<1>6. ASSUME lost = {}, n + 1 >= 3
      PROVE  h.at >= n - 1
  <2>1. h.at \in Nat /\ h.at # 0
    BY <1>2, <1>3, SentByte DEF CR
  <2>2. CASE n = 2
    BY <2>1, <2>2
  <2>3. CASE n >= 3
    <3>1. RunStart(Len(Taken)) <= n /\ n \in 1 .. Len(Coming) /\ n \in 1 .. n
      <4>1. RunStart(Len(Taken)) <= 3 /\ RunStart(Len(Taken)) \in Nat
        BY <1>3, RunStartGrows
      <4> QED BY <1>2, <1>3, <2>3, <4>1
    <3>2. Follows(Coming[n], h, sizes) /\ buffer[n].at >= n - 2
      BY <1>1, <1>2, <1>6, <2>3, <3>1 DEF RunInv, Run, n
    <3>3. Coming[n] = buffer[n] /\ buffer[n].at # CR
      BY <1>1, <1>2, <3>1 DEF BufferInv, n
    <3>4. h = After(buffer[n], sizes)
      BY <3>2, <3>3 DEF Follows
    <3>5. buffer[n].at \in Nat /\ h.at = buffer[n].at + 1
      BY <1>2, <1>3, <3>1, <3>4, SentByte DEF After, Char, n
    <3> QED BY <1>2, <3>2, <3>5
  <2> QED BY <1>2, <1>6, <2>2, <2>3
<1>7. RunInv'
  <2>1. lost' = {} => Run(Coming', RunStart(Len(Taken')), sizes')
    BY <1>1, MovesKeep
  <2> QED BY <1>2, <1>6, <2>1 DEF RunInv
<1> QED BY <1>1, <1>4, <1>5, <1>7, MovesKeep DEF LinkInv

(* A byte that finds room, and one that does not. *)
LEMMA ArriveKeeps == ASSUME LinkInv, Arrive PROVE LinkInv'
<1>1. TypesInv /\ WholeInv /\ BufferInv /\ RunInv /\ ShownWhole
  BY DEF LinkInv
<1>2. /\ line # << >> /\ line' = Tail(line) /\ line' \in Seq(Sent(sizes)) /\ Head(line) \in Sent(sizes)
      /\ fifo' = Receive(fifo, Head(line)) /\ Len(fifo) \in Nat
      /\ damaged' = IF Full(fifo) THEN damaged \union {fifo[Depth].msg} ELSE damaged
      /\ UNCHANGED <<phase, step, buffer, received, sizes, lost>>
  BY <1>1 DEF Arrive, TypesInv
<1>3. CASE ~Full(fifo)
  <2>1. Moves
    BY <1>1, <1>3, ArriveMoves
  <2>2. fifo' \in Seq(Sent(sizes)) /\ Len(fifo') <= Depth /\ damaged' = damaged
    <3>1. fifo' = Append(fifo, Head(line)) /\ fifo \in Seq(Sent(sizes)) /\ damaged' = damaged
      BY <1>1, <1>2, <1>3 DEF Receive, TypesInv
    <3>2. Len(fifo) <= Depth /\ Len(fifo) # Depth /\ Depth \in Nat
      BY <1>1, <1>3 DEF Full, TypesInv, Depth
    <3>3. fifo' \in Seq(Sent(sizes)) /\ Len(fifo') = Len(fifo) + 1
      <4>1. Head(line) \in Sent(sizes)
        BY <1>2
      <4> QED BY <3>1, <4>1, AppendProperties
    <3> QED BY <1>2, <3>1, <3>2, <3>3
  <2>3. TypesInv'
    BY <1>1, <1>2, <2>2 DEF TypesInv
  <2>4. BufferInv'
    BY <1>1, <1>2, <2>2, BufferStill DEF Bad
  <2>5. RunInv'
    BY <1>1, <1>2, <2>1, MovesKeep DEF RunInv
  <2> QED BY <1>1, <2>1, <2>3, <2>4, <2>5, MovesKeep DEF LinkInv
<1>4. CASE Full(fifo)
  <2>1. /\ damaged' = damaged \union {Coming[3].msg}
        /\ Len(Coming) > 3 /\ Len(Taken) = 3 /\ Len(Taken') = 3
        /\ Coming' \in Seq(Sent(sizes)) /\ Without(Coming, 3, Coming')
    BY <1>1, <1>4, Overruns
  <2>2. Coming \in Seq(Sent(sizes)) /\ 3 \in 1 .. Len(Coming) /\ RunStart(3) = 3
    BY <1>1, <2>1, StreamTypes DEF RunStart
  <2>3. TypesInv'
    <3>1. fifo \in Seq(Sent(sizes)) /\ Len(fifo) = 3 /\ fifo[3] \in Sent(sizes) /\ sizes \in Seq(Lengths)
      <4>1. fifo \in Seq(Sent(sizes)) /\ sizes \in Seq(Lengths)
        BY <1>1 DEF TypesInv
      <4>2. Len(fifo) = 3
        BY <1>4 DEF Full, Depth
      <4>3. 3 \in 1 .. Len(fifo)
        BY <4>2
      <4> QED BY <4>1, <4>2, <4>3, ElementOfSeq
    <3>2. fifo' = [fifo EXCEPT ![3] = Head(line)]
      BY <1>2, <1>4 DEF Receive, Depth
    <3>3. fifo' \in Seq(Sent(sizes)) /\ Len(fifo') <= Depth
      <4>1. Head(line) \in Sent(sizes)
        BY <1>2
      <4>2. fifo' \in Seq(Sent(sizes)) /\ Len(fifo') = 3
        BY <3>1, <3>2, <4>1, StillFull
      <4> QED BY <4>2 DEF Depth
    <3>4. damaged' \subseteq 0 .. Len(sizes)
      <4>1. fifo[3].msg \in 0 .. Len(sizes)
        BY <3>1, SentByte
      <4> QED BY <1>1, <1>2, <1>4, <4>1 DEF TypesInv, Depth
    <3> QED BY <1>1, <1>2, <3>3, <3>4 DEF TypesInv
  <2>4. WholeInv'
    <3>1. Whole(Coming', sizes, Bad \union {Coming[3].msg})
      BY <1>1, <2>1, <2>2, WholeWithout DEF WholeInv
    <3>2. Bad' = Bad \union {Coming[3].msg}
      BY <1>2, <2>1 DEF Bad
    <3> QED BY <1>2, <3>1, <3>2 DEF WholeInv
  <2>5. BufferInv'
    BY <1>1, <1>2, <2>1, BufferStill DEF Bad
  <2>6. RunInv'
    <3>1. ASSUME lost = {} PROVE Run(Coming', 3, sizes)
      <4>1. Run(Coming, 3, sizes)
        BY <1>1, <2>1, <2>2, <3>1 DEF RunInv
      <4> QED BY <2>1, <2>2, <4>1, RunWithout
    <3> QED BY <1>1, <1>2, <2>1, <2>2, <3>1 DEF RunInv
  <2>7. ShownWhole'
    BY <1>1, <1>2, <2>1 DEF ShownWhole
  <2> QED BY <2>3, <2>4, <2>5, <2>6, <2>7 DEF LinkInv
<1> QED BY <1>3, <1>4

(* A message from the radio, with its carriage return or without. *)
LEMMA RadioKeeps == ASSUME LinkInv, NEW n \in Lengths, Radio(n) PROVE LinkInv'
<1> DEFINE m == Len(sizes) + 1
           sz == Append(sizes, n)
<1>1. TypesInv /\ WholeInv /\ BufferInv /\ RunInv /\ ShownWhole
  BY DEF LinkInv
<1>2. /\ m <= MaxMessages /\ sizes' = sz
      /\ \/ line' = line \o Chars(m, n) \o <<Char(m, CR)>> /\ UNCHANGED lost
         \/ line' = line \o Chars(m, n) /\ lost' = lost \union {m}
      /\ UNCHANGED <<phase, step, fifo, buffer, received, damaged>>
  BY DEF Radio
<1>3. /\ sizes \in Seq(Lengths) /\ sz \in Seq(Lengths) /\ Len(sizes) \in Nat /\ Len(sz) = m
      /\ m \in 0 .. Len(sz) /\ m # 0 /\ Size(m, sz) = n
  BY <1>1 DEF TypesInv, Size
<1>0. m = Len(sizes) + 1 /\ sz = Append(sizes, n)
  OBVIOUS
<1> HIDE DEF m, sz
<1>4. /\ Letters(m, sz) = Chars(m, n) /\ Letters(m, sz) \in Seq(Sent(sz))
      /\ Message(m, sz) = Chars(m, n) \o <<Char(m, CR)>> /\ Message(m, sz) \in Seq(Sent(sz))
      /\ <<Char(m, CR)>> \in Seq(Sent(sz))
  <2>1. Char(m, CR) \in Sent(sz)
    <3>1. Size(m, sz) \in Nat
      BY <1>3, MessageIs
    <3> QED BY <1>3, <3>1, CharSent DEF CR
  <2>2. Letters(m, sz) = Chars(m, n) /\ Message(m, sz) = Chars(m, n) \o <<Char(m, CR)>>
    BY <1>3 DEF Letters, Message
  <2>3. Letters(m, sz) \in Seq(Sent(sz)) /\ Message(m, sz) \in Seq(Sent(sz))
    BY <1>3, MessageIs
  <2> QED BY <2>1, <2>2, <2>3
<1>5. /\ line \in Seq(Sent(sz)) /\ fifo \in Seq(Sent(sz)) /\ buffer \in Seq(Sent(sz))
      /\ Taken \in Seq(Sent(sz)) /\ Coming \in Seq(Sent(sizes)) /\ Coming \in Seq(Sent(sz))
      /\ Len(Taken) \in Nat
  BY <1>0, <1>1, <1>3, StreamTypes, SentSeqStill DEF TypesInv
<1>6. Taken' = Taken
  BY <1>2 DEF Taken, Reading
<1>7. \/ Coming' = Coming \o Message(m, sz) /\ line' = line \o Message(m, sz) /\ UNCHANGED lost
      \/ Coming' = Coming \o Letters(m, sz) /\ line' = line \o Letters(m, sz) /\ lost' = lost \union {m}
  <2>1. CASE line' = line \o Chars(m, n) \o <<Char(m, CR)>> /\ UNCHANGED lost
    <3>1. line' = line \o Message(m, sz)
      BY <1>4, <1>5, <2>1, ConcatAssociative
    <3> QED BY <1>4, <1>5, <1>6, <2>1, <3>1, MoreComes
  <2>2. CASE line' = line \o Chars(m, n) /\ lost' = lost \union {m}
    BY <1>4, <1>5, <1>6, <2>2, MoreComes
  <2> QED BY <1>2, <2>1, <2>2
<1>8. TypesInv'
  <2>1. line' \in Seq(Sent(sz))
    <3>1. line \in Seq(Sent(sz)) /\ Message(m, sz) \in Seq(Sent(sz)) /\ Letters(m, sz) \in Seq(Sent(sz))
      BY <1>4, <1>5
    <3> QED BY <1>7, <3>1, ConcatProperties
  <2>2. lost' \subseteq 1 .. m /\ damaged' \subseteq 0 .. m
    <3>1. lost \subseteq 1 .. Len(sizes) /\ damaged \subseteq 0 .. Len(sizes)
      BY <1>1 DEF TypesInv
    <3>2. /\ 1 .. Len(sizes) \subseteq 1 .. m /\ 0 .. Len(sizes) \subseteq 0 .. m /\ m \in 1 .. m
      BY <1>0, <1>3
    <3> QED BY <1>2, <1>7, <3>1, <3>2
  <2> QED BY <1>1, <1>2, <1>3, <1>5, <2>1, <2>2 DEF TypesInv
<1>9. Whole(Coming, sz, Bad') /\ Bad \subseteq Bad'
  <2>1. Bad \subseteq Bad'
    BY <1>2, <1>7 DEF Bad
  <2> QED BY <1>1, <1>3, <1>5, <2>1, WholeStill DEF WholeInv, sz
<1>10. WholeInv'
  <2>1. Whole(Message(m, sz), sz, Bad') /\ (m \in Bad' => Whole(Letters(m, sz), sz, Bad'))
    BY <1>3, WholeMessage
  <2>2. lost' = lost \union {m} => m \in Bad'
    BY DEF Bad
  <2>3. Whole(Coming', sz, Bad')
    BY <1>4, <1>5, <1>7, <1>9, <2>1, <2>2, WholeConcat
  <2> QED BY <1>2, <2>3 DEF WholeInv
<1>11. BufferInv'
  <2>1. \E k \in Lengths : sizes' = Append(sizes, k)
    BY <1>2 DEF sz
  <2> QED BY <1>1, <1>2, <1>9, <2>1, BufferStill
<1>12. RunInv'
  <2>1. ASSUME lost' = {}
        PROVE  Run(Coming', RunStart(Len(Taken)), sz)
    <3>1. lost = {} /\ Coming' = Coming \o Message(m, sz)
      BY <1>7, <2>1
    <3>2. RunStart(Len(Taken)) \in Nat
      BY <1>5, RunStartGrows
    <3>3. Run(Coming, RunStart(Len(Taken)), sz)
      BY <1>1, <1>3, <1>5, <3>1, <3>2, RunStill DEF RunInv, sz
    <3>4. Run(Message(m, sz), 1, sz) /\ Message(m, sz)[1].at = 1
      BY <1>3, RunMessage
    <3> QED BY <1>4, <1>5, <3>1, <3>2, <3>3, <3>4, RunConcat
  <2>2. lost' = {} => lost = {}
    BY <1>7
  <2> QED BY <1>1, <1>2, <1>6, <2>1, <2>2 DEF RunInv
<1>13. ShownWhole'
  <2>1. lost \subseteq lost'
    BY <1>7
  <2>2. \A k \in DOMAIN sizes : k \in DOMAIN sizes' /\ sizes'[k] = sizes[k]
    BY <1>2, <1>3 DEF sz
  <2> QED BY <1>1, <1>2, <2>1, <2>2 DEF ShownWhole
<1> QED BY <1>8, <1>10, <1>11, <1>12, <1>13 DEF LinkInv

(* The line that is read, when its end has come and nothing is wrong with   *)
(* the message it begins with, is that message.                             *)
LEMMA LineIsMessage ==
  ASSUME LinkInv, ReadEnd, buffer # << >>, buffer[1].msg \notin Bad
  PROVE  /\ Len(buffer) = Size(buffer[1].msg, sizes)
         /\ \A k \in 1 .. Len(buffer) : buffer[k] = Char(buffer[1].msg, k)
<1> DEFINE n == Len(buffer)
           b == buffer[1].msg
<1>1. TypesInv /\ WholeInv /\ BufferInv
  BY DEF LinkInv
<1>2. /\ buffer \in Seq(Sent(sizes)) /\ sizes \in Seq(Lengths) /\ n \in Nat /\ n > 0
  BY <1>1 DEF TypesInv
<1>3. n <= Size(b, sizes) /\ \A k \in 1 .. n : buffer[k] = Char(b, k)
  BY <1>1 DEF BufferInv
<1>4. /\ Coming[n + 1].at = CR /\ n + 1 \in 1 .. Len(Coming) /\ n \in 1 .. Len(Coming)
      /\ Coming[n] = Char(b, n)
  <2>1. Coming[n + 1].at = CR /\ n + 1 \in 1 .. Len(Coming)
    BY <1>1, EndsLine
  <2>2. Coming[n] = buffer[n]
    <3>1. Reading /\ fifo \in Seq(Sent(sizes)) /\ line \in Seq(Sent(sizes))
      BY <1>1 DEF ReadEnd, TypesInv
    <3>2. Coming = (buffer \o fifo) \o line
      BY <3>1 DEF Coming, Taken
    <3> QED BY <1>2, <3>1, <3>2
  <2>3. n \in 1 .. n /\ n \in 1 .. Len(Coming)
    BY <1>2, <2>1
  <2> QED BY <1>3, <2>1, <2>2, <2>3
<1> HIDE DEF n, b
<1>5. Char(b, n).msg = b /\ Char(b, n).at = n /\ n # CR
  BY <1>2 DEF Char, CR
<1>6. Coming[n + 1] = After(Char(b, n), sizes)
  <2>1. HasAfter(Coming, n, sizes)
    BY <1>1, <1>4, <1>5 DEF WholeInv, Whole, b
  <2> QED BY <1>4, <1>5, <2>1 DEF HasAfter
<1>7. n = Size(b, sizes)
  <2>1. n + 1 # CR
    BY <1>2 DEF CR
  <2> QED BY <1>4, <1>5, <1>6, <2>1 DEF After, Char
<1> QED BY <1>3, <1>7 DEF n, b

(* What is kept of a line are its first characters. *)
LEMMA KeptIs ==
  ASSUME NEW S, NEW t \in Seq(S)
  PROVE  /\ Kept(t) \in Seq(S) /\ Len(Kept(t)) \in Nat
         /\ \A k \in 1 .. Len(Kept(t)) : k <= Len(t) /\ Kept(t)[k] = t[k] /\ Kept(t)[1] = t[1]
<1>1. Len(t) \in Nat /\ FrameText \in Nat
  BY XBeeLinkAssumption DEF XBeeLinkAssumption
<1>2. CASE Len(t) <= FrameText
  BY <1>1, <1>2 DEF Kept
<1>3. CASE ~(Len(t) <= FrameText)
  <2>1. \A k \in 1 .. FrameText : t[k] \in S
    BY <1>1, <1>3
  <2>2. /\ Kept(t) \in Seq(S) /\ Len(Kept(t)) = FrameText
        /\ \A k \in 1 .. FrameText : Kept(t)[k] = t[k]
    BY <1>1, <1>3, <2>1 DEF Kept
  <2> QED BY <1>1, <1>3, <2>2
<1> QED BY <1>2, <1>3

(* A line is read to its end, and shown if it is long enough. *)
LEMMA ReadEndKeeps == ASSUME LinkInv, ReadEnd PROVE LinkInv'
<1> DEFINE n == Len(buffer)
<1>1. TypesInv /\ WholeInv /\ BufferInv /\ RunInv /\ ShownWhole
  BY DEF LinkInv
<1>2. /\ UNCHANGED <<line, sizes, lost, damaged>>
      /\ fifo # << >> /\ fifo' = Tail(fifo)
      /\ \/ phase = "answer" /\ NextStep /\ buffer' = << >> /\ received' = received
         \/ /\ phase' = "loop" /\ UNCHANGED <<step, buffer>>
            /\ received' = IF n >= MinShown THEN Kept(buffer) ELSE received
  BY DEF ReadEnd
<1>3. /\ Coming' \in Seq(Sent(sizes)) /\ Behind(Coming, n + 1, Coming')
      /\ n + 1 \in 1 .. Len(Coming) /\ Coming[n + 1].at = CR
      /\ Len(Taken) = n + 1 + Len(Taken')
  BY <1>1, EndsLine
<1>4. /\ buffer \in Seq(Sent(sizes)) /\ fifo \in Seq(Sent(sizes)) /\ sizes \in Seq(Lengths)
      /\ Coming \in Seq(Sent(sizes)) /\ n \in Nat /\ Len(fifo) \in Nat
      /\ Len(<< >>) = 0 /\ << >> \in Seq(Sent(sizes))
  BY <1>1, StreamTypes DEF TypesInv
<1>5. Len(Taken') \in Nat
  <2>1. Reading' => buffer' \in Seq(Sent(sizes))
    BY <1>2, <1>4
  <2>2. fifo' \in Seq(Sent(sizes))
    BY <1>2, <1>4
  <2> QED BY <2>1, <2>2 DEF Taken
<1> HIDE DEF n
<1>6. Kept(buffer) \in Seq(Byte)
  <2>1. Sent(sizes) \subseteq Byte
    BY <1>1, XBeeLinkAssumption DEF Sent, Byte, TypesInv, XBeeLinkAssumption
  <2> QED BY <1>4, <2>1, KeptIs, SeqMonotonic
<1>7. TypesInv'
  <2>1. NextStep => step' \in 1 .. Len(Dialogue) /\ phase' \in {"loop", "answer", "send"}
    <3>1. step \in 1 .. Len(Dialogue) /\ Len(Dialogue) = 9
      BY <1>1 DEF TypesInv, Dialogue
    <3> QED BY <3>1 DEF NextStep
  <2>2. fifo' \in Seq(Sent(sizes)) /\ Len(fifo') <= Depth /\ buffer' \in Seq(Sent(sizes))
    <3>1. fifo' \in Seq(Sent(sizes)) /\ Len(fifo') = Len(fifo) - 1
      BY <1>2, <1>4, HeadTailProperties
    <3>2. Len(fifo) <= Depth /\ Depth \in Nat
      BY <1>1 DEF TypesInv, Depth
    <3>3. buffer' \in Seq(Sent(sizes))
      BY <1>2, <1>4
    <3> QED BY <1>4, <3>1, <3>2, <3>3
  <2>3. received' \in Seq(Byte)
    BY <1>1, <1>2, <1>6 DEF TypesInv
  <2>4. step' \in 1 .. Len(Dialogue) /\ phase' \in {"send", "answer", "loop", "read", "busy"}
    BY <1>1, <1>2, <2>1 DEF TypesInv
  <2> QED BY <1>1, <1>2, <2>2, <2>3, <2>4 DEF TypesInv
<1>8. WholeInv'
  BY <1>1, <1>2, <1>3, <1>4, WholeBehind DEF WholeInv, Bad
<1>9. BufferInv'
  <2>1. CASE buffer' = << >>
    BY <1>4, <2>1 DEF BufferInv
  <2>2. CASE buffer' = buffer
    BY <1>1, <1>2, <2>2, BufferStill DEF Bad
  <2> QED BY <1>2, <2>1, <2>2
<1>10. RunInv'
  <2>1. /\ RunStart(Len(Taken)) \in Nat /\ RunStart(Len(Taken')) \in Nat
        /\ RunStart(Len(Taken)) <= (n + 1) + RunStart(Len(Taken'))
    BY <1>3, <1>4, <1>5, RunStartGrows
  <2>2. ASSUME lost' = {} PROVE Run(Coming', RunStart(Len(Taken')), sizes)
    <3>1. Run(Coming, RunStart(Len(Taken)), sizes)
      BY <1>1, <1>2, <2>2 DEF RunInv
    <3> QED BY <1>3, <1>4, <2>1, <3>1, RunBehind
  <2>3. buffer' = << >> \/ buffer' = buffer
    BY <1>2
  <2> QED BY <1>1, <1>2, <1>4, <2>2, <2>3 DEF RunInv
<1>11. ShownWhole'
  <2>1. CASE received' = received
    BY <1>1, <1>2, <2>1 DEF ShownWhole
  <2>2. CASE n >= MinShown /\ received' = Kept(buffer)
    <3> DEFINE r == Kept(buffer)
               from == {r[k].msg : k \in DOMAIN r}
    <3>1. SUFFICES ASSUME from \intersect Bad = {}, NEW m \in from
                   PROVE  m \in DOMAIN sizes /\ r = Kept(Chars(m, sizes[m]))
      BY <1>2, <2>2 DEF ShownWhole, Bad
    <3> DEFINE b == buffer[1].msg
    <3>2. PICK k \in DOMAIN r : m = r[k].msg
      BY <3>1
    <3>3. /\ Len(r) \in Nat /\ DOMAIN r = 1 .. Len(r)
          /\ \A l \in 1 .. Len(r) : l <= n /\ r[l] = buffer[l] /\ r[1] = buffer[1]
      <4>1. r \in Seq(Sent(sizes))
        BY <1>4, KeptIs
      <4>2. \A l \in 1 .. Len(r) : l <= n /\ r[l] = buffer[l] /\ r[1] = buffer[1]
        BY <1>4, KeptIs DEF n
      <4> HIDE DEF r
      <4> QED BY <4>1, <4>2, LenProperties
    <3>4. k \in 1 .. Len(r) /\ k <= n /\ r[k] = buffer[k] /\ r[1] = buffer[1] /\ 1 \in 1 .. Len(r)
      <4> HIDE DEF r
      <4> QED BY <3>2, <3>3
    <3>5. b \in 0 .. Len(sizes) /\ n > 2
      <4>1. n > 2
        BY <1>4, <2>2, XBeeLinkAssumption DEF XBeeLinkAssumption
      <4>2. buffer[1] \in Sent(sizes)
        BY <1>4, <4>1 DEF n
      <4>3. b \in 0 .. Len(sizes)
        BY <1>4, <4>2, SentByte
      <4> QED BY <4>1, <4>3
    <3>6. b \notin Bad
      <4>1. r[1].msg \in from
        BY <3>3, <3>4, <3>5
      <4> QED BY <3>1, <3>4, <4>1
    <3>7. /\ n = Size(b, sizes)
          /\ \A l \in 1 .. n : buffer[l] = Char(b, l)
      <4>1. buffer # << >>
        BY <1>4, <3>5 DEF n
      <4> QED BY <3>6, <4>1, LineIsMessage DEF n
    <3> HIDE DEF r, b
    <3>8. m = b
      <4>1. buffer[k] = Char(b, k) /\ Char(b, k).msg = b
        BY <1>4, <3>4, <3>7 DEF Char
      <4> QED BY <3>2, <3>4, <4>1
    <3>9. b \in DOMAIN sizes /\ n = sizes[b]
      BY <1>4, <3>5, <3>7 DEF Size
    <3>10. buffer = Chars(b, sizes[b])
      BY <1>4, <3>7, <3>9 DEF Chars, n
    <3> QED BY <3>8, <3>9, <3>10 DEF r
  <2> QED BY <1>2, <2>1, <2>2
<1> QED BY <1>7, <1>8, <1>9, <1>10, <1>11 DEF LinkInv
-----------------------------------------------------------------------------
(***************************************************************************)
(* The theorems.                                                           *)
(***************************************************************************)

(* What the invariant says at every moment, of the bytes still to be read   *)
(* and of the line being read, holds however steps of mug, module and radio *)
(* follow each other.                                                       *)
THEOREM LinkInvariance == Spec => []LinkInv
<1>1. Init => LinkInv
  BY LinkBegins
<1>2. LinkInv /\ [Next]_vars => LinkInv'
  <2> SUFFICES ASSUME LinkInv, [Next]_vars PROVE LinkInv'
    OBVIOUS
  <2>1. CASE SendCommand
    BY <2>1, SendCommandKeeps
  <2>2. CASE Poll
    BY <2>2, PollKeeps
  <2>3. CASE ReadByte
    BY <2>3, ReadByteKeeps
  <2>4. CASE ReadEnd
    BY <2>4, ReadEndKeeps
  <2>5. CASE GetBusy \/ GetDone
    BY <2>5, BusyKeeps
  <2>6. ASSUME NEW n \in Lengths, Radio(n) PROVE LinkInv'
    BY <2>6, RadioKeeps
  <2>7. CASE Arrive
    BY <2>7, ArriveKeeps
  <2>8. CASE UNCHANGED vars
    BY <2>8 DEF vars, LinkInv, TypesInv, WholeInv, Bad, BufferInv, RunInv, ShownWhole,
                Coming, Taken, Reading
  <2> QED BY <2>1, <2>2, <2>3, <2>4, <2>5, <2>6, <2>7, <2>8 DEF Next
<1> QED BY <1>1, <1>2, PTL DEF Spec

(* Every variable of the link keeps its type, and the receiver its depth. *)
THEOREM LinkTypes == Spec => []TypeOK
<1>1. LinkInv => TypeOK
  <2> SUFFICES ASSUME TypesInv PROVE TypeOK
    BY DEF LinkInv
  <2>1. Sent(sizes) \subseteq Byte
    BY XBeeLinkAssumption DEF Sent, Byte, TypesInv, XBeeLinkAssumption
  <2>2. line \in Seq(Byte) /\ fifo \in Seq(Byte) /\ buffer \in Seq(Byte)
    BY <2>1, SeqMonotonic DEF TypesInv
  <2> QED BY <2>2 DEF TypesInv, TypeOK
<1> QED BY <1>1, LinkInvariance, PTL

(* XBeeRetrieveMessage checks no bounds of the 128 bytes it reads into; it  *)
(* needs none while every carriage return comes: what an overrun leaves of  *)
(* one message in front of the next is two bytes, and no more.              *)
THEOREM NoOverrun == Spec => []LineFits
<1>1. LinkInv => LineFits
  <2> SUFFICES ASSUME LinkInv, lost = {} PROVE Len(buffer) < BufferSize
    BY DEF LineFits
  <2>1. buffer \in Seq(Sent(sizes)) /\ sizes \in Seq(Lengths) /\ Len(buffer) \in Nat
    BY DEF LinkInv, TypesInv
  <2>2. BufferSize \in Nat /\ 4 < BufferSize
    BY XBeeLinkAssumption DEF XBeeLinkAssumption
  <2>3. CASE Len(buffer) >= 3
    <3> DEFINE c == buffer[Len(buffer)]
    <3>1. c \in Sent(sizes)
      BY <2>1, <2>3
    <3>2. c.at >= Len(buffer) - 2
      BY <2>3 DEF LinkInv, RunInv
    <3>3. c.at \in Nat /\ Size(c.msg, sizes) \in Nat
          /\ c.at <= Size(c.msg, sizes) /\ Size(c.msg, sizes) + 2 < BufferSize
      BY <2>1, <3>1, SentByte
    <3> HIDE DEF c
    <3> QED BY <2>1, <2>2, <3>2, <3>3
  <2> QED BY <2>1, <2>2, <2>3
<1> QED BY <1>1, LinkInvariance, PTL

(* What the display is given of messages that came undamaged is one message *)
(* from its first character to its last (or as far as a command takes it),  *)
(* and never an answer of the module, whichever lines were cut, run together or *)
(* overrun before it.                                                       *)
THEOREM ShownAlwaysWhole == Spec => []ShownWhole
<1>1. LinkInv => ShownWhole
  BY DEF LinkInv
<1> QED BY <1>1, LinkInvariance, PTL
=============================================================================
