---------------------------- MODULE ConsoleProofs ----------------------------
(***************************************************************************)
(* The console client, for buffers, sockets and streams of any size: what  *)
(* it shows are the lines it was sent, and two processes writing to one    *)
(* socket do not get into each other's lines.                              *)
(***************************************************************************)
EXTENDS Console, SequenceTheorems, WellFoundedInduction, TLAPS

-----------------------------------------------------------------------------
(* What is sent                                                            *)

Writers == {"run", "parent", "child"}
Pieces == [by : Writers, n : Nat, part : {"text", "end", "bare"}]

(* Every text has its line end behind it.                                  *)
Ended(s) ==
    \A i \in DOMAIN s :
        s[i].part = "text" => i + 1 \in DOMAIN s /\ s[i + 1] = LineEnd(s[i])

(* Only run() leaves a line end for later without noting it, and until it  *)
(* has sent all its lines nobody else has anything to send.                *)
WritingInv ==
    /\ rest \in [Writers -> Seq(Pieces)]
    /\ sent \in Seq(Pieces)
    /\ held \in 0..Room
    /\ peer \in {"open", "shut", "reset"}
    /\ torn \in BOOLEAN
    /\ typed \in Nat
    /\ \A who \in Writers : Ended(rest[who])
    /\ ~Registered => rest["parent"] = <<>> /\ rest["child"] = <<>>
    /\ LinesApart
    /\ ~torn /\ peer = "open" /\ sent # <<>> =>
         (Last(sent).part = "text" =>
            ~Registered /\ Head(rest["run"]) = LineEnd(Last(sent)))

-----------------------------------------------------------------------------
(* What is shown                                                           *)

Current == Len(shown) + 1

(* recv has not gone past the end of the line being received, and has seen *)
(* that end when it is there.                                              *)
ReadingExact ==
    /\ Len(shown) <= Len(ends)
    /\ taken - Len(buf) + 1 = Start(Current)
    /\ ~IsLF(taken + 1)
    /\ Current <= Len(ends) =>
          /\ taken <= ends[Current]
          /\ taken = ends[Current] => HasDelim(buf)

ReadingInv ==
    /\ ends \in Streams
    /\ arrived \in 0..Last(ends)
    /\ taken \in 0..arrived
    /\ shown \in Seq(Seq(Nat))
    /\ split \in BOOLEAN
    /\ buf \in Seq(Nat) /\ Len(buf) <= taken
    /\ \A i \in DOMAIN buf : buf[i] = taken - Len(buf) + i
    /\ split \/ LongUpTo(Len(shown)) \/ ReadingExact
    /\ ShownWhole

ConsoleInv == ReadingInv /\ WritingInv

-----------------------------------------------------------------------------
(* Numbers, streams and pieces of them                                     *)

(* A set of numbers that is not empty has a least one.                     *)
LEMMA LeastNumber ==
    ASSUME NEW T, T \subseteq Nat, T # {}
    PROVE  \E x \in T : \A y \in T : x <= y
<1>1. PICK x \in T : \A y \in T : ~ (<<y, x>> \in OpToRel(<, Nat))
  BY NatLessThanWellFounded, WFMin
<1>2. ASSUME NEW y \in T
      PROVE  x <= y
  <2>1. ~ (y < x)
    BY <1>1 DEF OpToRel
  <2> QED
    BY <2>1
<1> QED
  BY <1>2

(* Line ends are positions at least two apart.                             *)
LEMMA StreamFacts ==
    ASSUME NEW e \in Streams
    PROVE  /\ e \in Seq(Nat) /\ DOMAIN e = 1..Len(e)
           /\ Len(e) \in Nat /\ Len(e) > 0 /\ Last(e) = e[Len(e)]
           /\ \A k \in 1..Len(e) : e[k] \in Nat /\ e[k] >= 2
           /\ \A k, l \in 1..Len(e) : k < l => e[k] + 2 <= e[l]
BY StreamAssumption DEF Last

LEMMA BytesFacts ==
    ASSUME NEW first \in Nat, NEW last \in Nat, first <= last + 1
    PROVE  /\ Bytes(first, last) \in Seq(Nat)
           /\ Len(Bytes(first, last)) = last + 1 - first
           /\ DOMAIN Bytes(first, last) = 1..(last + 1 - first)
           /\ \A i \in 1..(last + 1 - first) :
                Bytes(first, last)[i] = first + i - 1
  BY DEF Bytes

(* Bytes in their order that end with the same one as those before.        *)
LEMMA ConcatBytes ==
    ASSUME NEW a \in Seq(Nat), NEW b \in Seq(Nat), NEW t \in Nat,
           Len(a) + Len(b) <= t,
           \A i \in DOMAIN a : a[i] = t - (Len(a) + Len(b)) + i,
           \A i \in DOMAIN b : b[i] = t - Len(b) + i
    PROVE  /\ a \o b \in Seq(Nat)
           /\ Len(a \o b) = Len(a) + Len(b)
           /\ \A i \in 1..(Len(a) + Len(b)) :
                 (a \o b)[i] = t - (Len(a) + Len(b)) + i
<1>1. /\ a \o b \in Seq(Nat) /\ Len(a \o b) = Len(a) + Len(b)
      /\ Len(a) \in Nat /\ Len(b) \in Nat
      /\ DOMAIN a = 1..Len(a) /\ DOMAIN b = 1..Len(b)
      /\ \A i \in 1..(Len(a) + Len(b)) :
            (a \o b)[i] = IF i <= Len(a) THEN a[i] ELSE b[i - Len(a)]
  BY ConcatProperties
<1>2. ASSUME NEW i \in 1..(Len(a) + Len(b))
      PROVE  (a \o b)[i] = t - (Len(a) + Len(b)) + i
  <2>1. CASE i <= Len(a)
    <3>1. i \in DOMAIN a /\ (a \o b)[i] = a[i]
      BY <2>1, <1>1
    <3> QED
      BY <3>1
  <2>2. CASE i > Len(a)
    <3>1. i - Len(a) \in 1..Len(b) /\ (a \o b)[i] = b[i - Len(a)]
      <4>1. i \in Nat /\ ~(i <= Len(a)) /\ i <= Len(a) + Len(b)
        BY <2>2, <1>1
      <4>2. (a \o b)[i] = b[i - Len(a)]
        BY <4>1, <1>1
      <4>3. i - Len(a) \in 1..Len(b)
        BY <4>1, <1>1
      <4> QED
        BY <4>2, <4>3
    <3>2. PICK j \in DOMAIN b : j = i - Len(a)
      BY <3>1, <1>1
    <3>3. (a \o b)[i] = t - Len(b) + j
      BY <3>1, <3>2
    <3> QED
      BY <3>2, <3>3, <1>1
  <2> QED
    BY <2>1, <2>2, <1>1
<1> QED
  BY <1>1, <1>2

(* What recv takes of a peek: a part of it from the front, which ends with *)
(* the first line end, if there is one, and is all of it otherwise.        *)
LEMMA ChunkFacts ==
    ASSUME NEW s \in Seq(Nat), s # <<>>
    PROVE  \E m \in 1..Len(s) :
             /\ Chunk(s) = SubSeq(s, 1, m)
             /\ HasDelim(s) =>
                  /\ m >= 2 /\ DelimAt(s, m - 1)
                  /\ \A j \in 1..(m - 2) : ~DelimAt(s, j)
             /\ ~HasDelim(s) => m = Len(s)
<1>1. CASE HasDelim(s)
  <2> DEFINE T == {i \in DOMAIN s : DelimAt(s, i)}
             First(i) == DelimAt(s, i) /\ \A j \in 1..(i - 1) : ~DelimAt(s, j)
  <2>1. T \subseteq Nat /\ T # {}
    BY <1>1 DEF HasDelim
  <2>2. PICK x \in T : \A y \in T : x <= y
    BY <2>1, LeastNumber
  <2>3. x \in DOMAIN s /\ First(x)
    <3>1. x \in Nat /\ x \in 1..Len(s) /\ DelimAt(s, x)
      BY <2>2
    <3>2. ASSUME NEW j \in 1..(x - 1), DelimAt(s, j)
          PROVE  FALSE
      <4>1. j \in T
        BY <3>1, <3>2
      <4> QED
        BY <4>1, <2>2, <3>1
    <3> QED
      BY <3>1, <3>2
  <2>4. PICK i : i = CHOOSE j \in DOMAIN s : First(j)
    OBVIOUS
  <2>5. i \in DOMAIN s /\ First(i)
    BY <2>3, <2>4
  <2>6. Chunk(s) = SubSeq(s, 1, 1 + i)
    BY <1>1, <2>4 DEF Chunk
  <2>7. PICK m \in 2..Len(s) : m = 1 + i /\ m - 1 = i /\ m - 2 = i - 1
    <3>1. i \in 1..Len(s) /\ i + 1 \in 1..Len(s)
      BY <2>5 DEF DelimAt
    <3> QED
      BY <3>1
  <2>8. DelimAt(s, m - 1) /\ \A j \in 1..(m - 2) : ~DelimAt(s, j)
    BY <2>5, <2>7
  <2>9. m \in 1..Len(s) /\ m >= 2 /\ Chunk(s) = SubSeq(s, 1, m)
    BY <2>6, <2>7
  <2> QED
    BY <1>1, <2>8, <2>9, Zenon
<1>2. CASE ~HasDelim(s)
  <2>1. Chunk(s) = s /\ SubSeq(s, 1, Len(s)) = s /\ Len(s) \in 1..Len(s)
    BY <1>2 DEF Chunk
  <2> QED
    BY <1>2, <2>1
<1> QED
  BY <1>1, <1>2

-----------------------------------------------------------------------------
(* Reading                                                                 *)

LEMMA InitReading == Init => ReadingInv
<1> SUFFICES ASSUME Init
             PROVE  ReadingInv
  OBVIOUS
<1>1. /\ ends \in Streams /\ arrived = 0 /\ taken = 0 /\ buf = <<>>
      /\ shown = <<>> /\ split = FALSE
  BY DEF Init
<1>2. /\ Last(ends) \in Nat /\ Len(ends) > 0 /\ Len(ends) \in Nat
      /\ \A k \in 1..Len(ends) : ends[k] \in Nat /\ ends[k] >= 2
      /\ DOMAIN ends = 1..Len(ends)
  BY <1>1, StreamFacts
<1>3. ReadingExact
  <2>1. ~IsLF(taken + 1)
    BY <1>1, <1>2 DEF IsLF
  <2> QED
    BY <1>1, <1>2, <2>1 DEF ReadingExact, Current, Start
<1>4. arrived \in 0..Last(ends) /\ taken \in 0..arrived
  BY <1>1, <1>2
<1>5. <<>> \in Seq(Nat) /\ <<>> \in Seq(Seq(Nat)) /\ Len(<<>>) = 0
  OBVIOUS
<1>6. DOMAIN buf = {} /\ Len(buf) <= taken
  BY <1>1
<1>7. ShownWhole
  <2>1. DOMAIN shown = {}
    BY <1>1
  <2> QED
    BY <2>1 DEF ShownWhole
<1> QED
  BY <1>1, <1>3, <1>4, <1>5, <1>6, <1>7 DEF ReadingInv

(* A step that leaves alone what has been taken and shown.                 *)
LEMMA SameReading ==
    ASSUME ReadingInv, ends' = ends, arrived' \in arrived..Last(ends),
           taken' = taken, buf' = buf, shown' = shown, split' = split
    PROVE  ReadingInv'
<1>1. arrived \in Nat /\ Last(ends) \in Nat /\ taken \in Nat
  BY SMTT(30), StreamFacts DEF ReadingInv
<1>2. taken' \in 0..arrived' /\ arrived' \in 0..Last(ends)' /\ ends' \in Streams
  BY <1>1 DEF ReadingInv, Last
<1>3. (split \/ LongUpTo(Len(shown)) \/ ReadingExact)'
  BY DEF ReadingInv, ReadingExact, LongUpTo, Long, Current, Start, HasDelim,
         DelimAt, IsLF
<1>4. ShownWhole'
  BY DEF ReadingInv, ShownWhole, LongUpTo, Long, Bytes, Start
<1> QED
  BY <1>2, <1>3, <1>4 DEF ReadingInv

(* Something has been collected, or there is more to come, and what is     *)
(* collected holds no line end: the end of the line is two bytes away.     *)
LEMMA EndAhead ==
    ASSUME ReadingInv, ReadingExact, ~HasDelim(buf),
           taken < arrived \/ buf # <<>>
    PROVE  /\ Current \in 1..Len(ends)
           /\ ends[Current] >= taken + 2
<1>1. /\ Len(ends) \in Nat /\ taken \in Nat /\ arrived \in Nat
      /\ Len(shown) \in Nat /\ Len(shown) <= Len(ends)
      /\ Len(ends) > 0 /\ arrived <= ends[Len(ends)] /\ taken <= arrived
      /\ \A k \in 1..Len(ends) : ends[k] \in Nat
      /\ DOMAIN ends = 1..Len(ends)
      /\ Len(buf) \in Nat /\ (buf # <<>> => Len(buf) > 0)
  BY SMTT(30), StreamFacts DEF ReadingInv, ReadingExact
<1>2. Len(shown) # Len(ends)
  <2>1. ASSUME Len(shown) = Len(ends)
        PROVE  FALSE
    <3>1. Start(Current) = ends[Len(ends)] + 1
      BY <2>1, <1>1 DEF Current, Start
    <3>2. taken - Len(buf) = ends[Len(ends)]
      BY <3>1, <1>1 DEF ReadingExact
    <3> QED
      BY <3>2, <1>1
  <2> QED
    BY <2>1
<1>3. Current \in 1..Len(ends)
  BY <1>1, <1>2 DEF Current
<1>4. taken < ends[Current]
  BY <1>1, <1>3 DEF ReadingExact
<1>5. taken + 1 # ends[Current]
  BY <1>1, <1>3 DEF ReadingExact, IsLF
<1> QED
  BY <1>1, <1>3, <1>4, <1>5

(* A line end in what is collected is that of the line being received.     *)
LEMMA EndSeen ==
    ASSUME ReadingInv, ReadingExact, HasDelim(buf)
    PROVE  /\ Current \in 1..Len(ends)
           /\ taken = ends[Current]
<1>1. /\ Len(ends) \in Nat /\ taken \in Nat /\ Len(shown) \in Nat
      /\ Len(shown) <= Len(ends) /\ taken <= ends[Len(ends)] /\ Len(ends) > 0
      /\ \A k \in 1..Len(ends) : ends[k] \in Nat
      /\ \A k, l \in 1..Len(ends) : k < l => ends[k] + 2 <= ends[l]
      /\ DOMAIN ends = 1..Len(ends)
      /\ buf \in Seq(Nat) /\ DOMAIN buf = 1..Len(buf) /\ Len(buf) \in Nat
      /\ Len(buf) <= taken
  BY SMTT(30), StreamFacts DEF ReadingInv, ReadingExact
<1>2. PICK i \in 1..Len(buf) :
         i + 1 \in 1..Len(buf) /\ IsLF(buf[i] + 1) /\ buf[i + 1] = buf[i] + 1
  <2>1. PICK i \in DOMAIN buf : DelimAt(buf, i)
    BY DEF HasDelim
  <2>2. i + 1 \in DOMAIN buf
    BY <2>1 DEF DelimAt
  <2> QED
    BY <2>1, <2>2, <1>1 DEF DelimAt
<1>3. PICK k \in 1..Len(ends) : buf[i + 1] = ends[k]
  BY <1>1, <1>2 DEF IsLF
<1>4. ends[k] <= taken /\ ends[k] >= Start(Current)
  <2>1. buf[i + 1] = taken - Len(buf) + (i + 1)
    BY <1>1, <1>2 DEF ReadingInv
  <2>2. Start(Current) = taken - Len(buf) + 1
    BY DEF ReadingExact
  <2> QED
    BY <1>1, <1>2, <1>3, <2>1, <2>2
<1>5. k >= Current
  <2>1. ASSUME k < Current
        PROVE  FALSE
    <3>1. Current > 1 /\ Current - 1 \in 1..Len(ends) /\ k <= Current - 1
      BY <2>1, <1>1 DEF Current
    <3>2. Start(Current) = ends[Current - 1] + 1
      BY <3>1 DEF Start
    <3>3. ends[k] <= ends[Current - 1]
      <4>1. CASE k = Current - 1
        BY <4>1, <3>1, <1>1
      <4>2. CASE k < Current - 1
        BY <4>2, <3>1, <1>1
      <4> QED
        BY <4>1, <4>2, <3>1
    <3> QED
      BY <3>1, <3>2, <3>3, <1>1, <1>4
  <2> QED
    BY <2>1, <1>1 DEF Current
<1>6. Current \in 1..Len(ends)
  BY <1>1, <1>5 DEF Current
<1>7. ends[Current] <= ends[k]
  BY SMTT(30), <1>1, <1>5, <1>6
<1>8. taken <= ends[Current]
  BY <1>6 DEF ReadingExact
<1> QED
  BY <1>1, <1>4, <1>6, <1>7, <1>8

(* recv takes m bytes, and takes the end of the line being received only   *)
(* as the last of them.                                                    *)
LEMMA TakeFacts ==
    ASSUME ReadingInv, Take
    PROVE  \E m \in Nat \ {0} :
             /\ m <= arrived - taken
             /\ taken' = taken + m
             /\ buf' \in Seq(Nat) /\ Len(buf') = Len(buf) + m
             /\ \A i \in 1..Len(buf') : buf'[i] = taken' - Len(buf') + i
             /\ split' = (split \/ IsLF(taken' + 1))
             /\ ReadingExact => taken + m <= ends[Current]
<1>1. /\ buf \in Seq(Nat) /\ taken \in Nat /\ arrived \in Nat
      /\ Len(buf) \in Nat /\ Len(buf) <= taken /\ taken <= arrived
      /\ BufSize \in Nat /\ BufSize > 0
  BY StreamFacts, SizeAssumption DEF ReadingInv
<1>2. arrived - taken > 0 /\ ~HasDelim(buf)
  <2>1. Bytes(taken + 1, arrived) # <<>> /\ ~HasDelim(buf)
    BY DEF Take, Collecting, Pending
  <2>2. arrived # taken
    BY <2>1, <1>1 DEF Bytes
  <2> QED
    BY <2>1, <2>2, <1>1
<1>3. /\ Pending \in Seq(Nat) /\ Len(Pending) = arrived - taken
      /\ \A i \in 1..(arrived - taken) : Pending[i] = taken + i
  <2>1. PICK f \in Nat : f = taken + 1 /\ f <= arrived + 1
    BY <1>1
  <2>2. /\ Bytes(f, arrived) \in Seq(Nat)
        /\ Len(Bytes(f, arrived)) = arrived + 1 - f
        /\ \A i \in 1..(arrived + 1 - f) : Bytes(f, arrived)[i] = f + i - 1
    BY <1>1, <2>1, BytesFacts
  <2>3. Pending = Bytes(f, arrived)
    BY <2>1 DEF Pending
  <2>4. /\ arrived + 1 - f = arrived - taken
        /\ \A i \in 1..(arrived - taken) : f + i - 1 = taken + i
    BY <1>1, <2>1
  <2> QED
    BY <2>2, <2>3, <2>4
<1>4. PICK w \in Nat : w = IF BufSize < Len(Pending) THEN BufSize ELSE Len(Pending)
  <2>1. Len(Pending) \in Nat
    BY <1>1, <1>2, <1>3
  <2>2. (IF BufSize < Len(Pending) THEN BufSize ELSE Len(Pending)) \in Nat
    BY <1>1, <2>1
  <2> QED
    BY <2>2
<1>5. w > 0 /\ w <= arrived - taken
  BY <1>1, <1>2, <1>3, <1>4
<1>6. PICK peek : peek = Peeked
  OBVIOUS
<1>7. /\ peek \in Seq(Nat) /\ Len(peek) = w
      /\ \A i \in 1..w : peek[i] = taken + i
  <2>1. /\ SubSeq(Pending, 1, w) \in Seq(Nat) /\ Len(SubSeq(Pending, 1, w)) = w
        /\ \A i \in 1..w : SubSeq(Pending, 1, w)[i] = Pending[i]
    BY <1>3, <1>5
  <2>2. \A i \in 1..w : i \in 1..(arrived - taken)
    BY <1>1, <1>5
  <2>3. peek = SubSeq(Pending, 1, w)
    BY <1>4, <1>6 DEF Peeked
  <2> QED
    BY <1>3, <2>1, <2>2, <2>3
<1>8. PICK m \in 1..w :
         /\ Chunk(peek) = SubSeq(peek, 1, m)
         /\ HasDelim(peek) =>
              /\ m >= 2 /\ DelimAt(peek, m - 1)
              /\ \A j \in 1..(m - 2) : ~DelimAt(peek, j)
         /\ ~HasDelim(peek) => m = Len(peek)
  <2>1. peek # <<>>
    BY <1>5, <1>7
  <2> QED
    BY <1>7, <2>1, ChunkFacts
<1>9. PICK chunk : chunk = Chunk(peek)
  OBVIOUS
<1>10. /\ chunk \in Seq(Nat) /\ Len(chunk) = m
       /\ \A i \in 1..m : chunk[i] = taken + i
  <2>1. /\ SubSeq(peek, 1, m) \in Seq(Nat) /\ Len(SubSeq(peek, 1, m)) = m
        /\ \A i \in 1..m : SubSeq(peek, 1, m)[i] = peek[i]
    BY <1>7
  <2>2. \A i \in 1..m : i \in 1..w
    OBVIOUS
  <2> QED
    BY <1>7, <1>8, <1>9, <2>1, <2>2
<1>11. Last(chunk) = taken + m
  BY <1>10 DEF Last
<1>12. /\ buf' = buf \o chunk /\ taken' = taken + m
       /\ split' = (split \/ IsLF(taken + m + 1)) /\ ends' = ends
  BY <1>6, <1>9, <1>10, <1>11 DEF Take, server
<1>13. /\ buf' \in Seq(Nat) /\ Len(buf') = Len(buf) + m
       /\ \A i \in 1..Len(buf') : buf'[i] = taken' - Len(buf') + i
  <2>1. PICK t \in Nat : t = taken + m
    BY <1>1
  <2>2. /\ Len(buf) + Len(chunk) <= t
        /\ \A i \in DOMAIN buf : buf[i] = t - (Len(buf) + Len(chunk)) + i
        /\ \A i \in DOMAIN chunk : chunk[i] = t - Len(chunk) + i
    BY <1>1, <1>10, <2>1 DEF ReadingInv
  <2>3. /\ buf \o chunk \in Seq(Nat) /\ Len(buf \o chunk) = Len(buf) + Len(chunk)
        /\ \A i \in 1..(Len(buf) + Len(chunk)) :
             (buf \o chunk)[i] = t - (Len(buf) + Len(chunk)) + i
    BY <1>1, <1>10, <2>2, ConcatBytes
  <2> QED
    BY <1>10, <1>12, <2>1, <2>3
<1>14. ASSUME ReadingExact
       PROVE  taken + m <= ends[Current]
  <2>1. Current \in 1..Len(ends) /\ ends[Current] >= taken + 2
    BY <1>1, <1>2, <1>14, EndAhead
  <2>2. ends[Current] \in Nat
    BY <2>1, StreamFacts DEF ReadingInv
  <2>3. ASSUME ends[Current] < taken + m
        PROVE  FALSE
    <3>1. PICK i \in 1..(m - 2) : i = ends[Current] - taken - 1
      BY <1>1, <2>1, <2>2, <2>3
    <3>2. i \in 1..w /\ i + 1 \in 1..w
      OBVIOUS
    <3>3. peek[i] + 1 = ends[Current] /\ peek[i + 1] = ends[Current]
      <4>1. peek[i] = taken + i /\ peek[i + 1] = taken + (i + 1)
        BY <1>7, <3>2
      <4> QED
        BY SMTT(30), <4>1, <1>1, <2>2, <3>1
    <3>4. {i, i + 1} \subseteq DOMAIN peek
      BY <1>7, <3>2
    <3>5. Current \in DOMAIN ends
      BY <2>1, StreamFacts DEF ReadingInv
    <3>6. DelimAt(peek, i)
      BY <3>3, <3>4, <3>5 DEF DelimAt, IsLF
    <3>7. HasDelim(peek)
      BY <3>4, <3>6 DEF HasDelim
    <3> QED
      BY <1>8, <3>1, <3>6, <3>7
  <2> QED
    BY <1>1, <2>2, <2>3
<1> QED
  BY <1>5, <1>12, <1>13, <1>14, <1>1, <1>2

LEMMA TakeReading ==
    ASSUME ReadingInv, Take
    PROVE  ReadingInv'
<1>1. PICK m \in Nat \ {0} :
         /\ m <= arrived - taken
         /\ taken' = taken + m
         /\ buf' \in Seq(Nat) /\ Len(buf') = Len(buf) + m
         /\ \A i \in 1..Len(buf') : buf'[i] = taken' - Len(buf') + i
         /\ split' = (split \/ IsLF(taken' + 1))
         /\ ReadingExact => taken + m <= ends[Current]
  BY TakeFacts
<1>2. /\ ends' = ends /\ arrived' = arrived /\ shown' = shown /\ ~HasDelim(buf)
  BY DEF Take, Collecting, server
<1>3. /\ taken \in Nat /\ arrived \in Nat /\ Len(buf) \in Nat
      /\ Len(buf) <= taken /\ buf \in Seq(Nat)
      /\ DOMAIN ends = 1..Len(ends)
      /\ \A k \in 1..Len(ends) : ends[k] \in Nat
  BY StreamFacts DEF ReadingInv
<1>4. /\ taken' \in 0..arrived /\ Len(buf') <= taken' /\ split' \in BOOLEAN
      /\ taken' - Len(buf') = taken - Len(buf)
  BY <1>1, <1>3 DEF IsLF
<1>5. ShownWhole'
  <2>1. ~split' => ~split
    BY <1>1, Zenon
  <2>2. ASSUME NEW i
        PROVE  LongUpTo(i)' = LongUpTo(i)
    BY <1>2 DEF LongUpTo, Long, Start
  <2>3. ASSUME NEW i
        PROVE  Bytes(Start(i), ends[i] - 2)' = Bytes(Start(i), ends[i] - 2)
    BY <1>2 DEF Bytes, Start
  <2> QED
    BY <1>2, <2>1, <2>2, <2>3 DEF ReadingInv, ShownWhole
<1>6. LongUpTo(Len(shown))' = LongUpTo(Len(shown))
  BY <1>2 DEF LongUpTo, Long, Start
<1>7. ASSUME ~split', ReadingExact
      PROVE  ReadingExact'
  <2>1. taken < arrived /\ ~IsLF(taken' + 1)
    <3>1. taken < arrived
      BY <1>1, <1>3
    <3>2. ~IsLF(taken' + 1)
      BY <1>1, <1>7, Zenon
    <3> QED
      BY <3>1, <3>2
  <2>2. /\ Current \in 1..Len(ends) /\ ends[Current] >= taken + 2
        /\ taken' <= ends[Current] /\ ends[Current] \in Nat
    BY <1>1, <1>2, <1>3, <1>7, <2>1, EndAhead
  <2>3. ASSUME taken' = ends[Current]
        PROVE  HasDelim(buf')
    <3>1. m >= 2
      BY <1>1, <1>3, <2>2, <2>3
    <3>2. PICK i \in 1..Len(buf') : i = Len(buf') - 1 /\ i + 1 \in 1..Len(buf')
      <4>1. Len(buf') \in Nat /\ Len(buf') >= 2
        BY <1>1, <1>3, <3>1
      <4>2. Len(buf') - 1 \in 1..Len(buf') /\ (Len(buf') - 1) + 1 \in 1..Len(buf')
        BY <4>1
      <4> QED
        BY <4>2
    <3>3. buf'[i] + 1 = taken' /\ buf'[i + 1] = taken'
      <4>1. /\ buf'[i] = taken' - Len(buf') + i
            /\ buf'[i + 1] = taken' - Len(buf') + (i + 1)
        BY <1>1, <3>2
      <4>2. taken' \in Nat /\ Len(buf') \in Nat
        BY <1>1, <1>3
      <4> QED
        BY <3>2, <4>1, <4>2
    <3>4. DOMAIN buf' = 1..Len(buf') /\ IsLF(buf'[i] + 1)
      <4>1. DOMAIN buf' = 1..Len(buf') /\ Current \in DOMAIN ends
        BY <1>1, <1>3, <2>2
      <4>2. buf'[i] + 1 = ends[Current]
        BY <2>3, <3>3
      <4> QED
        BY <4>1, <4>2 DEF IsLF
    <3>5. DelimAt(buf', i)
      <4>1. {i, i + 1} \subseteq DOMAIN buf' /\ buf'[i + 1] = buf'[i] + 1
        BY <3>2, <3>3, <3>4
      <4> QED
        BY <3>4, <4>1 DEF DelimAt
    <3>6. i \in DOMAIN buf'
      BY <3>2, <3>4
    <3> QED
      BY <3>5, <3>6, Zenon DEF HasDelim
  <2>4. Current' = Current /\ Start(Current)' = Start(Current)
    BY <1>2 DEF Current, Start
  <2>5. ~IsLF(taken + 1)'
    BY <1>2, <2>1 DEF IsLF
  <2>6. HasDelim(buf)' = HasDelim(buf')
    BY <1>2 DEF HasDelim, DelimAt, IsLF
  <2> QED
    BY <1>2, <1>4, <1>7, <2>2, <2>3, <2>4, <2>5, <2>6 DEF ReadingExact
<1>8. (split \/ LongUpTo(Len(shown)) \/ ReadingExact)'
  BY <1>1, <1>6, <1>7 DEF ReadingInv
<1>9. \A i \in DOMAIN buf' : buf'[i] = taken' - Len(buf') + i
  BY <1>1
<1>10. Last(ends)' = Last(ends)
  BY <1>2 DEF Last
<1> QED
  BY <1>1, <1>2, <1>4, <1>5, <1>8, <1>9, <1>10 DEF ReadingInv

(* The line is shown: it is the one that was being received, or it is the  *)
(* front of one that does not fit c_buf.                                   *)
LEMMA ShowReading ==
    ASSUME ReadingInv, Show
    PROVE  ReadingInv'
<1>1. PICK line : line = SubSeq(buf, 1, Len(buf) - 2)
  OBVIOUS
<1>2. /\ shown' = Append(shown, line) /\ buf' = <<>> /\ ends' = ends
      /\ arrived' = arrived /\ taken' = taken /\ split' = split
      /\ HasDelim(buf) \/ Len(buf) >= BufSize
  BY <1>1 DEF Show, server
<1>3. /\ taken \in Nat /\ arrived \in Nat /\ Len(buf) \in Nat
      /\ Len(buf) <= taken /\ buf \in Seq(Nat) /\ DOMAIN buf = 1..Len(buf)
      /\ shown \in Seq(Seq(Nat)) /\ Len(shown) \in Nat
      /\ ends \in Seq(Nat) /\ DOMAIN ends = 1..Len(ends) /\ Len(ends) \in Nat
      /\ \A k \in 1..Len(ends) : ends[k] \in Nat
      /\ \A k, l \in 1..Len(ends) : k < l => ends[k] + 2 <= ends[l]
      /\ BufSize \in Nat /\ BufSize > 1
  BY StreamFacts, SizeAssumption DEF ReadingInv
<1>4. Len(buf) >= 2
  <2>1. CASE HasDelim(buf)
    <3>1. PICK i \in DOMAIN buf : i + 1 \in DOMAIN buf
      BY <2>1 DEF HasDelim, DelimAt
    <3> QED
      BY <3>1, <1>3
  <2>2. CASE Len(buf) >= BufSize
    BY <2>2, <1>3
  <2> QED
    BY <2>1, <2>2, <1>2
<1>5. /\ line \in Seq(Nat) /\ Len(line) = Len(buf) - 2
      /\ \A i \in 1..(Len(buf) - 2) : line[i] = taken - Len(buf) + i
  <2>1. PICK n \in Nat : n = Len(buf) - 2 /\ n <= Len(buf)
    <3>1. Len(buf) - 2 \in Nat /\ Len(buf) - 2 <= Len(buf)
      BY <1>3, <1>4
    <3> QED
      BY <3>1
  <2>2. /\ SubSeq(buf, 1, n) \in Seq(Nat) /\ Len(SubSeq(buf, 1, n)) = n
        /\ \A i \in 1..n : SubSeq(buf, 1, n)[i] = buf[i]
    BY SMTT(30), <1>3, <2>1
  <2>3. \A i \in 1..n : buf[i] = taken - Len(buf) + i
    <3>1. \A i \in 1..n : i \in DOMAIN buf
      BY <1>3, <2>1
    <3> QED
      BY <3>1 DEF ReadingInv
  <2> QED
    BY <1>1, <2>1, <2>2, <2>3
<1>6. /\ shown' \in Seq(Seq(Nat)) /\ Len(shown') = Len(shown) + 1
      /\ DOMAIN shown' = 1..(Len(shown) + 1) /\ DOMAIN shown = 1..Len(shown)
      /\ \A k \in 1..Len(shown) : shown'[k] = shown[k]
      /\ shown'[Len(shown) + 1] = line
  BY <1>2, <1>3, <1>5
<1>7. ASSUME NEW k
      PROVE  /\ LongUpTo(k)' = LongUpTo(k)
             /\ Bytes(Start(k), ends[k] - 2)' = Bytes(Start(k), ends[k] - 2)
  BY <1>2 DEF LongUpTo, Long, Start, Bytes
<1>8. Current \in Nat /\ Current = Len(shown')
  BY <1>3, <1>6 DEF Current
<1>9. ASSUME ReadingExact, HasDelim(buf)
      PROVE  /\ Current \in DOMAIN ends
             /\ line = Bytes(Start(Current), ends[Current] - 2)
             /\ ReadingExact'
  <2>1. /\ Current \in 1..Len(ends) /\ taken = ends[Current]
        /\ Start(Current) = taken - Len(buf) + 1 /\ ~IsLF(taken + 1)
    BY <1>9, EndSeen DEF ReadingExact
  <2>2. Bytes(Start(Current), ends[Current] - 2)
           = [i \in 1..(Len(buf) - 2) |-> taken - Len(buf) + i]
    <3>1. Bytes(Start(Current), ends[Current] - 2)
             = Bytes(taken - Len(buf) + 1, taken - 2)
      BY <2>1
    <3>2. /\ (taken - 2) + 1 - (taken - Len(buf) + 1) = Len(buf) - 2
          /\ \A i \in 1..(Len(buf) - 2) :
                (taken - Len(buf) + 1) + i - 1 = taken - Len(buf) + i
      BY <1>3
    <3> QED
      BY <3>1, <3>2 DEF Bytes
  <2>3. line = [i \in 1..(Len(buf) - 2) |-> taken - Len(buf) + i]
    <3>1. line = [i \in 1..Len(line) |-> line[i]]
      BY <1>5
    <3> QED
      BY <3>1, <1>5
  <2>4. Current' = Current + 1
    BY <1>3, <1>6 DEF Current
  <2>5. Start(Current)' = taken + 1
    BY <1>2, <1>8, <2>1, <2>4 DEF Start
  <2>6. Current' <= Len(ends) => taken + 2 <= ends[Current']
    BY <1>3, <2>1, <2>4
  <2>7. Current' <= Len(ends)' =>
           /\ taken' <= ends'[Current']
           /\ taken' = ends'[Current'] => HasDelim(buf)'
    BY <1>2, <1>3, <1>8, <2>4, <2>6
  <2>8. ~IsLF(taken + 1)' /\ Len(shown') <= Len(ends')
    BY <1>2, <1>8, <2>1 DEF IsLF
  <2>9. taken' - Len(buf') + 1 = Start(Current)'
    BY <1>2, <1>3, <2>5
  <2> QED
    BY <2>1, <1>3, <2>2, <2>3, <2>7, <2>8, <2>9 DEF ReadingExact
<1>10. ASSUME ReadingExact, ~HasDelim(buf)
       PROVE  LongUpTo(Current)
  <2>1. Len(buf) >= BufSize /\ buf # <<>>
    BY <1>2, <1>3, <1>4, <1>10
  <2>2. /\ Current \in 1..Len(ends) /\ ends[Current] >= taken + 2
        /\ Start(Current) = taken - Len(buf) + 1 /\ ends[Current] \in Nat
    BY <1>3, <1>10, <2>1, EndAhead DEF ReadingExact
  <2>3. Long(Current)
    BY <1>3, <2>1, <2>2 DEF Long
  <2>4. Current \in DOMAIN ends /\ Current <= Current
    BY <1>3, <1>8, <2>2
  <2> QED
    BY <2>3, <2>4, Zenon DEF LongUpTo
<1>11. ASSUME LongUpTo(Len(shown))
       PROVE  LongUpTo(Current)
  BY <1>3, <1>11 DEF LongUpTo, Current
<1>12. split \/ LongUpTo(Current) \/ (ReadingExact /\ HasDelim(buf))
  BY <1>10, <1>11 DEF ReadingInv
<1>13. (split \/ LongUpTo(Len(shown)) \/ ReadingExact)'
  BY <1>2, <1>7, <1>8, <1>9, <1>12
<1>14. ShownWhole'
  <2>1. ASSUME ~split, NEW k \in DOMAIN shown', ~LongUpTo(k)
        PROVE  k \in DOMAIN ends /\ shown'[k] = Bytes(Start(k), ends[k] - 2)
    <3>1. CASE k = Current
      BY <2>1, <3>1, <1>6, <1>9, <1>12 DEF Current
    <3>2. CASE k \in 1..Len(shown)
      BY <2>1, <3>2, <1>6 DEF ReadingInv, ShownWhole
    <3> QED
      BY <3>1, <3>2, <1>3, <1>6 DEF Current
  <2> QED
    BY <2>1, <1>2, <1>7 DEF ShownWhole
<1>15. /\ buf' \in Seq(Nat) /\ Len(buf') <= taken' /\ DOMAIN buf' = {}
       /\ Last(ends)' = Last(ends)
  BY <1>2, <1>3 DEF Last
<1>16. /\ ends' \in Streams /\ arrived' \in 0..Last(ends)'
       /\ taken' \in 0..arrived' /\ split' \in BOOLEAN
  BY <1>2, <1>15 DEF ReadingInv
<1>17. \A i \in DOMAIN buf' : buf'[i] = taken' - Len(buf') + i
  BY <1>15
<1> QED
  BY <1>6, <1>13, <1>14, <1>15, <1>16, <1>17 DEF ReadingInv

LEMMA NextReading ==
    ASSUME ReadingInv, [Next]_vars
    PROVE  ReadingInv'
<1>1. arrived \in Nat /\ Last(ends) \in Nat /\ arrived <= Last(ends)
  <2>1. Len(ends) \in 1..Len(ends) /\ Last(ends) \in Nat
    BY StreamFacts DEF ReadingInv
  <2> QED
    BY <2>1 DEF ReadingInv
<1>2. arrived \in arrived..Last(ends)
  BY <1>1
<1>3. ASSUME NEW n \in 1..Last(ends), Arrive(n)
      PROVE  ReadingInv'
  <2>1. arrived' \in arrived..Last(ends)
    BY <1>1, <1>3 DEF Arrive
  <2> QED
    BY <1>3, <2>1, SameReading DEF Arrive, server
<1>4. CASE UNCHANGED <<ends, reading>>
  BY <1>2, <1>4, SameReading DEF reading
<1>5. CASE ServerReads \/ (\E how \in {"shut", "reset"} : ServerCloses(how))
  BY <1>4, <1>5 DEF ServerReads, ServerCloses, server
<1>6. ASSUME NEW who \in DOMAIN rest, Send(who) \/ SendInVain(who)
      PROVE  ReadingInv'
  BY <1>4, <1>6 DEF Send, SendInVain, server
<1>7. CASE Overread \/ Return
  BY <1>4, <1>7 DEF Overread, Return, server
<1>8. ASSUME NEW length \in 0..2, Type(length)
      PROVE  ReadingInv'
  BY <1>4, <1>8 DEF Type, server
<1>9. CASE UNCHANGED vars
  BY <1>4, <1>9 DEF vars, server
<1> QED
  BY <1>3, <1>5, <1>6, <1>7, <1>8, <1>9, TakeReading, ShowReading
  DEF Next, Parent

-----------------------------------------------------------------------------
(* Writing                                                                 *)

Apart(s) ==
    \A i \in DOMAIN s :
        s[i].part = "text" /\ i < Len(s) => s[i + 1] = LineEnd(s[i])

LEMMA LineEndFacts ==
    ASSUME NEW p \in Pieces
    PROVE  LineEnd(p) \in Pieces /\ LineEnd(p).part = "end"
BY DEF Pieces, LineEnd

LEMMA TextFacts ==
    ASSUME NEW by \in Writers, NEW n \in Nat, NEW length
    PROVE  Text(by, n, length) \in Seq(Pieces) /\ Ended(Text(by, n, length))
<1> DEFINE P(part) == Piece(by, n, part)
<1>1. \A part \in {"text", "end", "bare"} : P(part) \in Pieces /\ P(part).part = part
  BY DEF Piece, Pieces
<1>2. LineEnd(P("text")) = P("end")
  BY DEF LineEnd, Piece
<1>3. CASE length = 0
  <2>1. Text(by, n, length) = <<P("end")>>
    BY <1>3 DEF Text
  <2> HIDE DEF P
  <2> QED
    BY <1>1, <2>1 DEF Ended
<1>4. CASE length = 1
  <2>1. Text(by, n, length) = <<P("bare")>>
    BY <1>4 DEF Text
  <2> HIDE DEF P
  <2> QED
    BY <1>1, <2>1 DEF Ended
<1>5. CASE length # 0 /\ length # 1
  <2>1. Text(by, n, length) = <<P("text"), P("end")>>
    BY <1>5 DEF Text
  <2> HIDE DEF P
  <2> QED
    BY <1>1, <1>2, <2>1 DEF Ended
<1> QED
  BY <1>3, <1>4, <1>5

(* What is left when some of it has been sent.                             *)
LEMMA RestFacts ==
    ASSUME NEW s \in Seq(Pieces), NEW n \in 1..Len(s), Ended(s)
    PROVE  /\ SubSeq(s, n + 1, Len(s)) \in Seq(Pieces)
           /\ Ended(SubSeq(s, n + 1, Len(s)))
           /\ SubSeq(s, n + 1, Len(s)) = <<>> <=> n = Len(s)
           /\ n < Len(s) => Head(SubSeq(s, n + 1, Len(s))) = s[n + 1]
<1>1. PICK r : r = SubSeq(s, n + 1, Len(s))
  OBVIOUS
<1>2. PICK l \in Nat : l = Len(s) - n
  <2>1. Len(s) - n \in Nat
    OBVIOUS
  <2> QED
    BY <2>1
<1>3. /\ r \in Seq(Pieces) /\ Len(r) = l /\ DOMAIN r = 1..l
      /\ \A i \in 1..l : r[i] = s[n + i]
  BY <1>1, <1>2
<1>4. Ended(r)
  <2>1. ASSUME NEW i \in 1..l, r[i].part = "text"
        PROVE  i + 1 \in 1..l /\ r[i + 1] = LineEnd(r[i])
    <3>1. PICK j \in DOMAIN s : j = n + i /\ r[i] = s[j]
      BY <1>2, <1>3
    <3>2. j + 1 \in DOMAIN s /\ s[j + 1] = LineEnd(s[j])
      BY <2>1, <3>1 DEF Ended
    <3>3. i + 1 \in 1..l
      BY <1>2, <3>1, <3>2
    <3>4. r[i + 1] = s[n + (i + 1)] /\ n + (i + 1) = j + 1
      BY <1>3, <3>1, <3>3
    <3> QED
      BY <3>1, <3>2, <3>3, <3>4
  <2> QED
    BY <1>3, <2>1 DEF Ended
<1>5. r = <<>> <=> n = Len(s)
  BY <1>2, <1>3
<1>6. n < Len(s) => Head(r) = s[n + 1]
  BY <1>2, <1>3
<1> QED
  BY <1>1, <1>3, <1>4, <1>5, <1>6

(* What has been sent when some of it is sent, too.                        *)
LEMMA SentFacts ==
    ASSUME NEW q \in Seq(Pieces), NEW s \in Seq(Pieces), NEW n \in 1..Len(s),
           Apart(q), Ended(s),
           q # <<>> /\ Last(q).part = "text" => s[1] = LineEnd(Last(q))
    PROVE  /\ q \o SubSeq(s, 1, n) \in Seq(Pieces)
           /\ Apart(q \o SubSeq(s, 1, n))
           /\ Last(q \o SubSeq(s, 1, n)) = s[n]
           /\ s[n].part = "text" => n < Len(s) /\ s[n + 1] = LineEnd(s[n])
<1>1. PICK f : f = SubSeq(s, 1, n)
  OBVIOUS
<1>2. /\ f \in Seq(Pieces) /\ Len(f) = n /\ \A i \in 1..n : f[i] = s[i]
  BY <1>1
<1>3. PICK out : out = q \o f
  OBVIOUS
<1>4. /\ out \in Seq(Pieces) /\ Len(out) = Len(q) + n
      /\ DOMAIN out = 1..(Len(q) + n)
      /\ Len(q) \in Nat /\ DOMAIN q = 1..Len(q)
      /\ \A i \in 1..(Len(q) + n) :
           out[i] = IF i <= Len(q) THEN q[i] ELSE f[i - Len(q)]
  BY <1>2, <1>3, ConcatProperties
<1>5. /\ \A i \in 1..Len(q) : out[i] = q[i]
      /\ \A i \in 1..n : out[Len(q) + i] = s[i]
  <2>1. ASSUME NEW i \in 1..n
        PROVE  out[Len(q) + i] = s[i]
    <3>0. Len(q) \in Nat /\ n \in Nat
      BY <1>4
    <3>1. PICK j \in 1..(Len(q) + n) : j = Len(q) + i /\ ~(j <= Len(q))
      BY <3>0
    <3>2. out[j] = f[j - Len(q)] /\ j - Len(q) = i
      BY <1>4, <3>1
    <3> QED
      BY <1>2, <3>1, <3>2
  <2>2. ASSUME NEW i \in 1..Len(q)
        PROVE  out[i] = q[i]
    BY <1>4
  <2> QED
    BY <2>1, <2>2
<1>6. s[n].part = "text" => n < Len(s) /\ s[n + 1] = LineEnd(s[n])
  <2>1. n \in DOMAIN s
    OBVIOUS
  <2>2. ASSUME s[n].part = "text"
        PROVE  n + 1 \in 1..Len(s) /\ s[n + 1] = LineEnd(s[n])
    BY <2>1, <2>2 DEF Ended
  <2> QED
    BY <2>2
<1>7. Last(out) = s[n]
  <2>1. n \in 1..n /\ Last(out) = out[Len(q) + n]
    BY <1>4 DEF Last
  <2> QED
    BY <1>5, <2>1
<1>8. ASSUME NEW i \in DOMAIN out, out[i].part = "text", i < Len(out)
      PROVE  out[i + 1] = LineEnd(out[i])
  <2>1. CASE i < Len(q)
    <3>1. i \in 1..Len(q) /\ i + 1 \in 1..Len(q)
      BY <2>1, <1>4
    <3>2. out[i] = q[i] /\ out[i + 1] = q[i + 1]
      BY <1>5, <3>1
    <3> QED
      BY <1>4, <1>8, <2>1, <3>1, <3>2 DEF Apart
  <2>2. CASE i = Len(q)
    <3>1. q # <<>> /\ Last(q) = q[i] /\ i \in 1..Len(q) /\ 1 \in 1..n
      BY <2>2, <1>4 DEF Last
    <3>2. out[i] = q[i] /\ out[i + 1] = s[1]
      BY <1>5, <2>2, <3>1
    <3> QED
      BY <1>8, <3>1, <3>2
  <2>3. CASE i > Len(q)
    <3>1. PICK j \in 1..n : i = Len(q) + j
      <4>1. i \in Nat /\ i > Len(q) /\ i <= Len(q) + n
        BY <2>3, <1>4
      <4>2. Len(q) \in Nat /\ n \in Nat
        BY <1>4
      <4>3. i - Len(q) \in 1..n /\ i = Len(q) + (i - Len(q))
        BY <4>1, <4>2
      <4> QED
        BY <4>3
    <3>2. j + 1 \in 1..n /\ i + 1 = Len(q) + (j + 1) /\ j \in DOMAIN s
      BY <1>4, <1>8, <3>1
    <3>3. out[i] = s[j] /\ out[i + 1] = s[j + 1]
      BY <1>5, <3>1, <3>2
    <3> QED
      BY <1>8, <3>2, <3>3 DEF Ended
  <2> QED
    BY <2>1, <2>2, <2>3, <1>4
<1>9. Apart(out)
  BY <1>8 DEF Apart
<1> QED
  BY <1>1, <1>3, <1>4, <1>6, <1>7, <1>9

LEMMA EndedConcat ==
    ASSUME NEW a \in Seq(Pieces), NEW b \in Seq(Pieces), Ended(a), Ended(b)
    PROVE  a \o b \in Seq(Pieces) /\ Ended(a \o b)
<1>1. PICK out : out = a \o b
  OBVIOUS
<1>2. /\ out \in Seq(Pieces) /\ DOMAIN out = 1..(Len(a) + Len(b))
      /\ Len(a) \in Nat /\ Len(b) \in Nat
      /\ DOMAIN a = 1..Len(a) /\ DOMAIN b = 1..Len(b)
      /\ \A i \in 1..(Len(a) + Len(b)) :
           out[i] = IF i <= Len(a) THEN a[i] ELSE b[i - Len(a)]
  BY <1>1, ConcatProperties
<1>3. ASSUME NEW i \in 1..(Len(a) + Len(b)), out[i].part = "text"
      PROVE  i + 1 \in 1..(Len(a) + Len(b)) /\ out[i + 1] = LineEnd(out[i])
  <2>1. CASE i <= Len(a)
    <3>1. i \in DOMAIN a /\ out[i] = a[i]
      BY <1>2, <2>1
    <3>2. i + 1 \in 1..Len(a) /\ a[i + 1] = LineEnd(a[i])
      BY <1>2, <1>3, <3>1 DEF Ended
    <3>3. i + 1 \in 1..(Len(a) + Len(b)) /\ i + 1 <= Len(a)
      BY <1>2, <3>2
    <3> QED
      BY <1>2, <3>1, <3>2, <3>3
  <2>2. CASE i > Len(a)
    <3>1. PICK j \in 1..Len(b) : j = i - Len(a)
      <4>1. i - Len(a) \in 1..Len(b)
        BY <1>2, <2>2
      <4> QED
        BY <4>1
    <3>2. out[i] = b[j]
      <4>1. ~(i <= Len(a))
        BY <1>2, <2>2
      <4> QED
        BY <1>2, <3>1, <4>1
    <3>3. j + 1 \in 1..Len(b) /\ b[j + 1] = LineEnd(b[j])
      BY <1>2, <1>3, <3>2 DEF Ended
    <3>4. PICK k \in 1..(Len(a) + Len(b)) :
             k = i + 1 /\ ~(k <= Len(a)) /\ k - Len(a) = j + 1
      BY <1>2, <2>2, <3>1, <3>3
    <3>5. out[k] = b[j + 1]
      BY <1>2, <3>4
    <3> QED
      BY <3>2, <3>3, <3>4, <3>5
  <2> QED
    BY <2>1, <2>2, <1>2
<1> QED
  BY <1>1, <1>2, <1>3 DEF Ended

LEMMA FirstLinesFacts == FirstLines \in Seq(Pieces) /\ Ended(FirstLines)
<1>1. "run" \in Writers
  BY DEF Writers
<1> QED
  BY <1>1, TextFacts, EndedConcat DEF FirstLines

LEMMA InitWriting == Init => WritingInv
<1> SUFFICES ASSUME Init
             PROVE  WritingInv
  OBVIOUS
<1>1. /\ rest = [run |-> FirstLines, parent |-> <<>>, child |-> <<>>]
      /\ sent = <<>> /\ held = 0 /\ peer = "open" /\ torn = FALSE /\ typed = 0
  BY DEF Init
<1>2. <<>> \in Seq(Pieces) /\ Ended(<<>>) /\ DOMAIN sent = {}
  BY <1>1 DEF Ended
<1>3. /\ DOMAIN rest = Writers /\ rest["run"] = FirstLines
      /\ rest["parent"] = <<>> /\ rest["child"] = <<>>
  BY <1>1 DEF Writers
<1>4. rest \in [Writers -> Seq(Pieces)] /\ \A who \in Writers : Ended(rest[who])
  BY <1>1, <1>2, <1>3, FirstLinesFacts DEF Writers
<1>5. LinesApart
  BY <1>2 DEF LinesApart
<1>6. <<>> \in Seq(Pieces) /\ held \in 0..Room
  BY <1>1, SizeAssumption
<1>7. sent \in Seq(Pieces) /\ ~(sent # <<>>) /\ typed \in Nat
  BY <1>1, <1>6
<1> QED
  BY <1>1, <1>3, <1>4, <1>5, <1>6, <1>7 DEF WritingInv

(* A step in which nothing is sent, and what there is to send is new only  *)
(* for the parent or the child, after run() has sent its lines.            *)
LEMMA SameSent ==
    ASSUME WritingInv, sent' = sent, torn' = torn, held' \in 0..Room,
           typed' \in Nat, peer' \in {"open", "shut", "reset"},
           peer' = "open" => peer = "open",
           rest' \in [Writers -> Seq(Pieces)],
           \A who \in Writers : Ended(rest'[who]),
           peer' = "open" => rest'["run"] = rest["run"],
           rest'["run"] # <<>> => rest'["parent"] = <<>> /\ rest'["child"] = <<>>
    PROVE  WritingInv'
<1>1. LinesApart'
  BY DEF WritingInv, LinesApart, LineEnd
<1>2. (\A who \in Writers : Ended(rest[who]))'
  BY DEF Ended, LineEnd
<1>3. (~Registered => rest["parent"] = <<>> /\ rest["child"] = <<>>)'
  BY DEF Registered
<1>4. (~torn /\ peer = "open" /\ sent # <<>> =>
         (Last(sent).part = "text" =>
            ~Registered /\ Head(rest["run"]) = LineEnd(Last(sent))))'
  BY DEF WritingInv, Registered, Last, LineEnd
<1> QED
  BY <1>1, <1>2, <1>3, <1>4 DEF WritingInv

LEMMA SendWriting ==
    ASSUME WritingInv, NEW who \in Writers, Send(who)
    PROVE  WritingInv'
<1>1. /\ rest[who] \in Seq(Pieces) /\ Ended(rest[who]) /\ sent \in Seq(Pieces)
      /\ held \in 0..Room /\ Room \in Nat /\ DOMAIN rest = Writers
      /\ Len(rest[who]) \in Nat /\ torn \in BOOLEAN
  BY SizeAssumption DEF WritingInv
<1>2. PICK n \in 1..Room :
         /\ n <= Room - held
         /\ n <= Len(rest[who])
         /\ held' = held + n
         /\ sent' = sent \o SubSeq(rest[who], 1, n)
         /\ rest' = [rest EXCEPT ![who] = SubSeq(rest[who], n + 1, Len(rest[who]))]
         /\ torn' = (torn \/ (n < Len(rest[who]) /\ who # "run"))
  BY DEF Send
<1>3. peer = "open" /\ peer' = peer /\ typed' = typed /\ rest[who] # <<>>
  BY DEF Send, server
<1>4. n \in 1..Len(rest[who]) /\ held' \in 0..Room
  BY <1>1, <1>2
<1>5. PICK s : s = rest[who]
  OBVIOUS
<1>6. PICK r : r = SubSeq(s, n + 1, Len(s))
  OBVIOUS
<1>7. /\ r \in Seq(Pieces) /\ Ended(r) /\ (r = <<>> <=> n = Len(s))
      /\ n < Len(s) => Head(r) = s[n + 1]
  BY <1>1, <1>4, <1>5, <1>6, RestFacts
<1>8. rest' = [rest EXCEPT ![who] = r]
  BY <1>2, <1>5, <1>6
<1>9. /\ rest' \in [Writers -> Seq(Pieces)]
      /\ \A w \in Writers : Ended(rest'[w])
  BY <1>1, <1>7, <1>8 DEF WritingInv
<1>10. ASSUME rest'["run"] # <<>>
       PROVE  rest'["parent"] = <<>> /\ rest'["child"] = <<>>
  <2>1. who = "run" \/ rest["run"] # <<>>
    BY <1>1, <1>8, <1>10 DEF Writers
  <2>2. rest["run"] # <<>>
    BY <1>3, <2>1
  <2>3. rest["parent"] = <<>> /\ rest["child"] = <<>>
    BY <2>2 DEF WritingInv, Registered
  <2>4. who # "parent" /\ who # "child"
    BY <1>3, <2>3
  <2> QED
    BY <1>1, <1>8, <2>3, <2>4 DEF Writers
<1>11. ASSUME ~torn
       PROVE  /\ sent' \in Seq(Pieces)
              /\ Apart(sent')
              /\ Last(sent') = s[n]
              /\ s[n].part = "text" => n < Len(s) /\ s[n + 1] = LineEnd(s[n])
  <2>1. Apart(sent)
    BY <1>11 DEF WritingInv, LinesApart, Apart
  <2>2. sent # <<>> /\ Last(sent).part = "text" => s[1] = LineEnd(Last(sent))
    <3>1. ASSUME sent # <<>>, Last(sent).part = "text"
          PROVE  s[1] = LineEnd(Last(sent))
      <4>1. rest["run"] # <<>> /\ Head(rest["run"]) = LineEnd(Last(sent))
        BY <1>3, <1>11, <3>1 DEF WritingInv, Registered
      <4>2. rest["parent"] = <<>> /\ rest["child"] = <<>>
        BY <4>1 DEF WritingInv, Registered
      <4>3. who = "run"
        BY <1>3, <4>2 DEF Writers
      <4>4. Head(s) = s[1]
        BY <1>1, <1>5
      <4> QED
        BY <1>5, <4>1, <4>3, <4>4
    <3> QED
      BY <3>1
  <2>3. s \in Seq(Pieces) /\ Ended(s) /\ n \in 1..Len(s)
    BY <1>1, <1>4, <1>5
  <2>4. sent' = sent \o SubSeq(s, 1, n)
    BY <1>2, <1>5
  <2> QED
    BY <1>1, <2>1, <2>2, <2>3, <2>4, SentFacts
<1>12. sent' \in Seq(Pieces)
  <2>1. SubSeq(rest[who], 1, n) \in Seq(Pieces)
    BY <1>1, <1>4
  <2> QED
    BY <1>1, <1>2, <2>1
<1>13. torn' \in BOOLEAN /\ (~torn' => ~torn)
  BY <1>2, Zenon
<1>14. LinesApart'
  <2>1. ASSUME ~torn'
        PROVE  Apart(sent')
    BY <1>11, <1>13, <2>1
  <2> QED
    BY <2>1 DEF LinesApart, Apart, LineEnd
<1>15. ASSUME ~torn', Last(sent').part = "text"
       PROVE  rest'["run"] # <<>> /\ Head(rest'["run"]) = LineEnd(Last(sent'))
  <2>1. n < Len(s) /\ s[n + 1] = LineEnd(Last(sent'))
    BY <1>11, <1>13, <1>15
  <2>2. n < Len(rest[who])
    BY <1>5, <2>1
  <2>3. who = "run"
    BY <1>2, <1>15, <2>2, Zenon
  <2>4. rest'["run"] = r
    BY <1>1, <1>8, <2>3
  <2>5. r # <<>>
    BY <1>7, <2>1
  <2> QED
    BY <1>7, <2>1, <2>4, <2>5
<1>16. (~Registered => rest["parent"] = <<>> /\ rest["child"] = <<>>)'
  BY <1>10 DEF Registered
<1>17. (\A w \in Writers : Ended(rest[w]))'
  BY <1>9 DEF Ended, LineEnd
<1>18. (~torn /\ peer = "open" /\ sent # <<>> =>
          (Last(sent).part = "text" =>
             ~Registered /\ Head(rest["run"]) = LineEnd(Last(sent))))'
  BY <1>15 DEF Registered, Last, LineEnd
<1> QED
  BY <1>3, <1>4, <1>9, <1>12, <1>13, <1>14, <1>16, <1>17, <1>18 DEF WritingInv

(* The text is lost, and nothing gets through any more.                    *)
LEMMA SendInVainWriting ==
    ASSUME WritingInv, NEW who \in Writers, SendInVain(who)
    PROVE  WritingInv'
<1>1. /\ rest' = [rest EXCEPT ![who] = <<>>] /\ peer' = "reset" /\ held' = held
      /\ sent' = sent /\ torn' = torn /\ typed' = typed
  BY DEF SendInVain
<1>2. rest \in [Writers -> Seq(Pieces)] /\ <<>> \in Seq(Pieces) /\ Ended(<<>>)
  BY DEF WritingInv, Ended
<1>3. /\ rest' \in [Writers -> Seq(Pieces)]
      /\ \A w \in Writers : rest'[w] = rest[w] \/ rest'[w] = <<>>
  BY <1>1, <1>2
<1>4. \A w \in Writers : Ended(rest'[w])
  BY <1>2, <1>3 DEF WritingInv
<1>5. rest'["run"] # <<>> => rest'["parent"] = <<>> /\ rest'["child"] = <<>>
  BY <1>3 DEF WritingInv, Registered, Writers
<1> QED
  BY <1>1, <1>3, <1>4, <1>5, SameSent DEF WritingInv

(* A line is typed, or a PING answered: run() has sent its lines.          *)
LEMMA NewTextWriting ==
    ASSUME WritingInv, Registered, NEW who \in {"parent", "child"},
           NEW n \in Nat, NEW length,
           rest' = [rest EXCEPT ![who] = Text(who, n, length)],
           sent' = sent, torn' = torn, held' = held, peer' = peer,
           typed' \in Nat
    PROVE  WritingInv'
<1>1. who \in Writers /\ who # "run" /\ "run" \in Writers
  BY DEF Writers
<1>2. PICK t : t = Text(who, n, length)
  OBVIOUS
<1>3. t \in Seq(Pieces) /\ Ended(t)
  BY <1>1, <1>2, TextFacts
<1>4. /\ rest' \in [Writers -> Seq(Pieces)] /\ rest'["run"] = rest["run"]
      /\ \A w \in Writers : rest'[w] = rest[w] \/ rest'[w] = t
  BY <1>1, <1>2, <1>3 DEF WritingInv
<1>5. \A w \in Writers : Ended(rest'[w])
  BY <1>3, <1>4 DEF WritingInv
<1>6. rest'["run"] = <<>>
  BY <1>4 DEF Registered
<1> QED
  BY <1>4, <1>5, <1>6, SameSent DEF WritingInv

LEMMA NextWriting ==
    ASSUME ReadingInv, WritingInv, [Next]_vars
    PROVE  WritingInv'
<1>1. /\ rest \in [Writers -> Seq(Pieces)] /\ DOMAIN rest = Writers
      /\ held \in 0..Room /\ typed \in Nat
      /\ \A who \in Writers : Ended(rest[who])
      /\ rest["run"] # <<>> => rest["parent"] = <<>> /\ rest["child"] = <<>>
  BY DEF WritingInv, Registered
<1>2. ASSUME rest' = rest, sent' = sent, torn' = torn, held' \in 0..Room,
             typed' \in Nat, peer' \in {"open", "shut", "reset"},
             peer' = "open" => peer = "open"
      PROVE  WritingInv'
  BY <1>1, <1>2, SameSent
<1>3. CASE UNCHANGED <<peer, writing>>
  BY <1>1, <1>2, <1>3 DEF writing, WritingInv
<1>4. ASSUME NEW n \in 1..Last(ends), Arrive(n)
      PROVE  WritingInv'
  BY <1>3, <1>4 DEF Arrive, server
<1>5. CASE ServerReads
  BY <1>1, <1>2, <1>5, SizeAssumption DEF ServerReads, server, WritingInv
<1>6. ASSUME NEW how \in {"shut", "reset"}, ServerCloses(how)
      PROVE  WritingInv'
  BY <1>1, <1>2, <1>6 DEF ServerCloses, writing
<1>7. ASSUME NEW who \in DOMAIN rest, Send(who) \/ SendInVain(who)
      PROVE  WritingInv'
  BY <1>1, <1>7, SendWriting, SendInVainWriting
<1>8. CASE Take \/ Overread \/ Return
  BY <1>3, <1>8 DEF Take, Overread, Return, server
<1>9. CASE Show
  <2>1. CASE rest' = rest
    BY <1>3, <1>9, <2>1 DEF Show, server, writing
  <2>2. CASE rest' = [rest EXCEPT !["parent"] = Text("parent", Len(shown'), 9)]
    <3>1. Len(shown') \in Nat
      BY <1>9, ShowReading DEF ReadingInv
    <3> QED
      BY <1>1, <1>9, <2>2, <3>1, NewTextWriting DEF Show, server
  <2> QED
    BY <1>9, <2>1, <2>2 DEF Show
<1>10. ASSUME NEW length \in 0..2, Type(length)
       PROVE  WritingInv'
  <2>1. /\ typed' \in Nat /\ Registered
        /\ rest' = [rest EXCEPT !["child"] = Text("child", typed', length)]
        /\ sent' = sent /\ torn' = torn /\ held' = held /\ peer' = peer
    BY <1>1, <1>10 DEF Type, server
  <2>2. PICK n \in Nat : n = typed'
    BY <2>1
  <2> QED
    BY <2>1, <2>2, NewTextWriting
<1>11. CASE UNCHANGED vars
  BY <1>3, <1>11 DEF vars, server
<1> QED
  BY <1>4, <1>5, <1>6, <1>7, <1>8, <1>9, <1>10, <1>11 DEF Next, Parent

-----------------------------------------------------------------------------
(* The theorems                                                            *)

(* recv of the console client never runs past a line end, and only run()   *)
(* leaves a line end to be sent later.                                     *)
THEOREM ConsoleInvariant == Spec => []ConsoleInv
<1>1. Init => ConsoleInv
  BY InitReading, InitWriting DEF ConsoleInv
<1>2. ConsoleInv /\ [Next]_vars => ConsoleInv'
  BY NextReading, NextWriting DEF ConsoleInv
<1> QED
  BY <1>1, <1>2, PTL DEF Spec

(* Every line shown is the line of the server of that number, whole, up to *)
(* the first one that does not fit the buffer, unless a read has ended     *)
(* between CR and LF.                                                      *)
THEOREM LinesShownWhole == Spec => []ShownWhole
<1>1. ConsoleInv => ShownWhole
  BY DEF ConsoleInv, ReadingInv
<1> QED
  BY <1>1, ConsoleInvariant, PTL

(* Parent, child and run() send through one socket and every text is       *)
(* followed by its own line end, unless the socket was full.               *)
THEOREM TextsStayApart == Spec => []LinesApart
<1>1. ConsoleInv => LinesApart
  BY DEF ConsoleInv, WritingInv
<1> QED
  BY <1>1, ConsoleInvariant, PTL
==============================================================================
