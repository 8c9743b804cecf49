---------------------------- MODULE ReceiveProofs ----------------------------
(***************************************************************************)
(* Lines come out of _recv as they went in, for streams and buffers of any *)
(* size.                                                                   *)
(***************************************************************************)
EXTENDS Receive, SequenceTheorems, WellFoundedInduction, TLAPS

(* The line that is being received.                                        *)
Current == Len(lines) + 1

TypeOK ==
    /\ ends \in Streams
    /\ blocking \in BOOLEAN
    /\ arrived \in 0..ends[Len(ends)]
    /\ taken \in 0..arrived
    /\ peer \in {"open", "shut", "reset"}
    /\ buffer \in Seq(Nat)
    /\ buf \in Seq(Nat)
    /\ pc \in {"select", "recv", "gone"}
    /\ lines \in Seq(Seq(Nat))
    /\ dropped \subseteq 1..Current
    /\ split \in BOOLEAN

(* What is kept and what is collected are the last bytes taken, in order,  *)
(* and fewer than the buffer holds.                                        *)
HeldAreLast ==
    /\ Collected <= taken
    /\ Collected < BufSize
    /\ \A i \in DOMAIN buffer : buffer[i] = taken - Collected + i
    /\ \A i \in DOMAIN buf : buf[i] = taken - Len(buf) + i
    /\ pc = "select" => buf = <<>>

(* The lines are made of the bytes before those, each used once.           *)
UsedInOrder ==
    /\ \A k \in DOMAIN lines : \A i \in DOMAIN lines[k] :
          lines[k][i] <= taken - Collected
    /\ InOrder(lines)

(* As long as recv has not stopped between a CR and its LF it has not gone *)
(* past the end of the line being received, and has seen that end when it  *)
(* is there.                                                               *)
LinesExact ==
    /\ Len(lines) <= Len(ends)
    /\ \A k \in DOMAIN lines : lines[k] \in Due(k)
    /\ taken - Collected + 1 >= StartOf(Current)
    /\ Current \in dropped \/ taken - Collected + 1 = StartOf(Current)
    /\ ~IsCR(taken)
    /\ Current <= Len(ends) =>
          /\ taken <= ends[Current]
          /\ taken = ends[Current] => HasDelim(buf)

RInv ==
    /\ TypeOK
    /\ HeldAreLast
    /\ UsedInOrder
    /\ split \/ LinesExact
    /\ ShortLinesKeepConnection

-----------------------------------------------------------------------------
(* Numbers, streams and pieces of them                                     *)

(* A set of numbers that is not empty has a least one.                     *)
LEMMA LeastNumber ==
    ASSUME NEW T, T \subseteq Nat, T # {}
    PROVE  \E x \in T : \A y \in T : x <= y
<1>1. PICK x \in T : \A y \in T : ~ (<<y, x>> \in OpToRel(<, Nat))
  BY NatLessThanWellFounded, WFMin
<1>2. ASSUME NEW y \in T
      PROVE  x <= y
  <2>1. ~ (y < x)
    BY <1>1 DEF OpToRel
  <2> QED
    BY <2>1
<1> QED
  BY <1>2

(* Line ends are positions at least two apart.                             *)
LEMMA StreamFacts ==
    ASSUME NEW e \in Streams
    PROVE  /\ e \in Seq(Nat)
           /\ Len(e) \in Nat /\ Len(e) > 0
           /\ \A k \in 1..Len(e) : e[k] \in Nat /\ e[k] >= 2
           /\ \A k, l \in 1..Len(e) : k < l => e[k] + 2 <= e[l]
<1>1. PICK n \in 1..MaxLines : e \in [1..n -> 2..MaxBytes]
  BY DEF Streams
<1>2. e \in Seq(Nat) /\ Len(e) = n
  BY <1>1, StreamAssumption
<1> QED
  BY <1>1, <1>2, StreamAssumption DEF Streams

LEMMA BytesFacts ==
    ASSUME NEW first \in Nat, NEW last \in Nat, first <= last + 1
    PROVE  /\ Bytes(first, last) \in Seq(Nat)
           /\ Len(Bytes(first, last)) = last + 1 - first
           /\ DOMAIN Bytes(first, last) = 1..(last + 1 - first)
           /\ \A i \in 1..(last + 1 - first) :
                Bytes(first, last)[i] = first + i - 1
  BY DEF Bytes

(* Bytes in their order that end with the same one as those before.        *)
LEMMA ConcatBytes ==
    ASSUME NEW a \in Seq(Nat), NEW b \in Seq(Nat), NEW t \in Nat,
           Len(a) + Len(b) <= t,
           \A i \in DOMAIN a : a[i] = t - (Len(a) + Len(b)) + i,
           \A i \in DOMAIN b : b[i] = t - Len(b) + i
    PROVE  /\ a \o b \in Seq(Nat)
           /\ Len(a \o b) = Len(a) + Len(b)
           /\ \A i \in 1..(Len(a) + Len(b)) :
                 (a \o b)[i] = t - (Len(a) + Len(b)) + i
<1>1. /\ a \o b \in Seq(Nat) /\ Len(a \o b) = Len(a) + Len(b)
      /\ Len(a) \in Nat /\ Len(b) \in Nat
      /\ DOMAIN a = 1..Len(a) /\ DOMAIN b = 1..Len(b)
      /\ \A i \in 1..(Len(a) + Len(b)) :
            (a \o b)[i] = IF i <= Len(a) THEN a[i] ELSE b[i - Len(a)]
  BY ConcatProperties
<1>2. ASSUME NEW i \in 1..(Len(a) + Len(b))
      PROVE  (a \o b)[i] = t - (Len(a) + Len(b)) + i
  <2>1. CASE i <= Len(a)
    <3>1. i \in DOMAIN a /\ (a \o b)[i] = a[i]
      BY <2>1, <1>1
    <3> QED
      BY <3>1
  <2>2. CASE i > Len(a)
    <3>1. i - Len(a) \in 1..Len(b) /\ (a \o b)[i] = b[i - Len(a)]
      <4>1. i \in Nat /\ ~(i <= Len(a)) /\ i <= Len(a) + Len(b)
        BY <2>2, <1>1
      <4>2. (a \o b)[i] = b[i - Len(a)]
        BY <4>1, <1>1
      <4>3. i - Len(a) \in 1..Len(b)
        BY <4>1, <1>1
      <4> QED
        BY <4>2, <4>3
    <3>2. PICK j \in DOMAIN b : j = i - Len(a)
      BY <3>1, <1>1
    <3>3. (a \o b)[i] = t - Len(b) + j
      BY <3>1, <3>2
    <3> QED
      BY <3>2, <3>3, <1>1
  <2> QED
    BY <2>1, <2>2, <1>1
<1> QED
  BY <1>1, <1>2

(* A text of later bytes, in their order, at the end.                      *)
LEMMA AppendInOrder ==
    ASSUME NEW texts \in Seq(Seq(Nat)), NEW x \in Seq(Nat), NEW n \in Nat,
           InOrder(texts),
           \A k \in DOMAIN texts : \A i \in DOMAIN texts[k] : texts[k][i] <= n,
           \A i \in DOMAIN x : x[i] = n + i
    PROVE  InOrder(Append(texts, x))
<1> DEFINE all == Append(texts, x)
<1>1. /\ Len(texts) \in Nat /\ DOMAIN all = 1..(Len(texts) + 1)
      /\ DOMAIN texts = 1..Len(texts) /\ DOMAIN x \subseteq Nat
      /\ all[Len(texts) + 1] = x
      /\ \A k \in 1..Len(texts) : all[k] = texts[k]
  OBVIOUS
<1> HIDE DEF all
<1>2. ASSUME NEW k \in DOMAIN all, NEW l \in DOMAIN all,
             NEW i \in DOMAIN all[k], NEW j \in DOMAIN all[l],
             k < l \/ (k = l /\ i < j)
      PROVE  all[k][i] < all[l][j]
  <2>1. CASE k = Len(texts) + 1
    <3>1. l = k /\ i < j /\ all[k] = x
      BY <1>1, <1>2, <2>1
    <3> QED
      BY <3>1, <1>1
  <2>2. CASE k \in 1..Len(texts) /\ l = Len(texts) + 1
    <3>1. all[k] = texts[k] /\ all[l] = x /\ texts[k] \in Seq(Nat)
      BY <1>1, <2>2
    <3>2. texts[k][i] <= n /\ x[j] = n + j /\ j \in Nat /\ j >= 1
      BY <3>1, <2>2, <1>1
    <3>3. texts[k][i] \in Nat
      BY SMTT(30), <3>1
    <3> QED
      BY <3>1, <3>2, <3>3
  <2>3. CASE k \in 1..Len(texts) /\ l \in 1..Len(texts)
    <3>1. all[k] = texts[k] /\ all[l] = texts[l]
      BY <1>1, <2>3
    <3> QED
      BY <3>1, <1>1, <1>2, <2>3 DEF InOrder
  <2> QED
    BY <2>1, <2>2, <2>3, <1>1
<1> QED
  BY <1>2 DEF InOrder, all

(* What recv takes of a peek: a part of it from the front, which ends with *)
(* the first line end, if there is one, and is all of it otherwise.        *)
LEMMA ChunkFacts ==
    ASSUME NEW s \in Seq(Nat), s # <<>>
    PROVE  \E m \in 1..Len(s) :
             /\ Chunk(s) = SubSeq(s, 1, m)
             /\ HasDelim(s) =>
                  /\ m >= 2 /\ DelimAt(s, m - 1)
                  /\ \A j \in 1..(m - 2) : ~DelimAt(s, j)
             /\ ~HasDelim(s) => m = Len(s)
<1>1. CASE HasDelim(s)
  <2> DEFINE T == {i \in DOMAIN s : DelimAt(s, i)}
             First(i) == DelimAt(s, i) /\ \A j \in 1..(i - 1) : ~DelimAt(s, j)
  <2>1. T \subseteq Nat /\ T # {}
    BY <1>1 DEF HasDelim
  <2>2. PICK x \in T : \A y \in T : x <= y
    BY <2>1, LeastNumber
  <2>3. x \in DOMAIN s /\ First(x)
    <3>1. x \in Nat /\ x \in 1..Len(s) /\ DelimAt(s, x)
      BY <2>2
    <3>2. ASSUME NEW j \in 1..(x - 1), DelimAt(s, j)
          PROVE  FALSE
      <4>1. j \in T
        BY <3>1, <3>2
      <4> QED
        BY <4>1, <2>2, <3>1
    <3> QED
      BY <3>1, <3>2
  <2>4. PICK i : i = CHOOSE j \in DOMAIN s : First(j)
    OBVIOUS
  <2>5. i \in DOMAIN s /\ First(i)
    BY <2>3, <2>4
  <2>6. Chunk(s) = SubSeq(s, 1, 1 + i)
    BY <1>1, <2>4 DEF Chunk
  <2>7. PICK m \in 2..Len(s) : m = 1 + i /\ m - 1 = i /\ m - 2 = i - 1
    BY <2>5 DEF DelimAt
  <2>8. DelimAt(s, m - 1) /\ \A j \in 1..(m - 2) : ~DelimAt(s, j)
    BY <2>5, <2>7
  <2>9. m \in 1..Len(s) /\ m >= 2 /\ Chunk(s) = SubSeq(s, 1, m)
    BY <2>6, <2>7
  <2> QED
    BY <1>1, <2>8, <2>9, Zenon
<1>2. CASE ~HasDelim(s)
  <2>1. Chunk(s) = s /\ SubSeq(s, 1, Len(s)) = s /\ Len(s) \in 1..Len(s)
    BY <1>2 DEF Chunk
  <2> QED
    BY <1>2, <2>1
<1> QED
  BY <1>1, <1>2

-----------------------------------------------------------------------------
(* The steps                                                               *)

LEMMA InitRInv == Init => RInv
<1> SUFFICES ASSUME Init
             PROVE  RInv
  OBVIOUS
<1> USE DEF Init
<1>1. ends \in Seq(Nat) /\ Len(ends) \in 1..Len(ends) /\ ends[Len(ends)] \in Nat
  <2>1. ends \in Streams
    OBVIOUS
  <2> QED
    BY <2>1, StreamFacts
<1>2. TypeOK
  <2>1. arrived \in 0..ends[Len(ends)] /\ taken \in 0..arrived
    BY <1>1
  <2>2. <<>> \in Seq(Nat) /\ <<>> \in Seq(Seq(Nat))
    OBVIOUS
  <2> QED
    BY <2>1, <2>2 DEF TypeOK
<1>3. HeldAreLast
  BY SizeAssumption DEF HeldAreLast, Collected
<1>4. UsedInOrder
  BY DEF UsedInOrder, InOrder
<1>5. LinesExact
  <2>1. ~IsCR(taken) /\ ends[1] >= 2
    BY StreamFacts DEF IsCR
  <2> QED
    BY <2>1, <1>1 DEF LinesExact, Current, StartOf, Collected
<1> QED
  BY <1>2, <1>3, <1>4, <1>5 DEF RInv, ShortLinesKeepConnection

(* A step that leaves alone what has been taken and what became of it.     *)
LEMMA SameBytes ==
    ASSUME RInv, ends' = ends, taken' = taken, buffer' = buffer, buf' = buf,
           lines' = lines, dropped' = dropped, split' = split
    PROVE  /\ UsedInOrder'
           /\ (split \/ LinesExact)'
           /\ pc' # "select" => HeldAreLast'
  BY DEF RInv, HeldAreLast, UsedInOrder, InOrder, LinesExact, Current, Collected,
         Due, LineSent, Bytes, StartOf, HasDelim, DelimAt, IsCR, IsLF

LEMMA ArriveRInv ==
    ASSUME RInv, NEW n \in 1..MaxBytes, Arrive(n)
    PROVE  RInv'
<1> USE DEF Arrive, stream, executed
<1>1. TypeOK'
  BY StreamFacts, StreamAssumption DEF RInv, TypeOK, Current
<1>2. HeldAreLast'
  BY DEF RInv, HeldAreLast, Collected
<1>3. UsedInOrder' /\ (split \/ LinesExact)'
  BY SameBytes
<1>4. ShortLinesKeepConnection'
  BY DEF RInv, ShortLinesKeepConnection, StartOf
<1> QED
  BY <1>1, <1>2, <1>3, <1>4 DEF RInv

LEMMA HangupRInv ==
    ASSUME RInv, NEW how \in {"shut", "reset"}, Hangup(how)
    PROVE  RInv'
<1> USE DEF Hangup, stream, executed
<1>1. TypeOK'
  BY DEF RInv, TypeOK, Current
<1>2. HeldAreLast'
  BY DEF RInv, HeldAreLast, Collected
<1>3. UsedInOrder' /\ (split \/ LinesExact)'
  BY SameBytes
<1>4. ShortLinesKeepConnection'
  BY DEF RInv, ShortLinesKeepConnection, StartOf
<1> QED
  BY <1>1, <1>2, <1>3, <1>4 DEF RInv

LEMMA ReadableRInv ==
    ASSUME RInv, Readable
    PROVE  RInv'
<1> USE DEF Readable, stream, executed
<1>1. TypeOK'
  BY DEF RInv, TypeOK, Current
<1>2. buf' = buf
  BY DEF RInv, HeldAreLast
<1>3. UsedInOrder' /\ (split \/ LinesExact)' /\ HeldAreLast'
  BY <1>2, SameBytes
<1>4. ShortLinesKeepConnection'
  BY DEF ShortLinesKeepConnection
<1> QED
  BY <1>1, <1>3, <1>4 DEF RInv

(* EAGAIN: what is collected is now kept.                                  *)
LEMMA PieceKept ==
    ASSUME RInv, WouldBlock, KeepPiece
    PROVE  /\ HeldAreLast' /\ Collected' = Collected
           /\ dropped' = dropped
<1> USE DEF WouldBlock, KeepPiece, stream
<1>2. /\ Len(buffer') = Collected /\ buf' = <<>> /\ Collected' = Collected
      /\ \A i \in 1..Len(buffer') : buffer'[i] = taken - Collected + i
      /\ buffer' \in Seq(Nat)
  <2>1. buffer \in Seq(Nat) /\ buf \in Seq(Nat) /\ taken \in Nat
    BY DEF RInv, TypeOK
  <2>2. /\ Len(buffer') = Len(buffer) + Len(buf) /\ Len(buf') = 0
        /\ \A i \in 1..Len(buffer') :
             buffer'[i] = IF i <= Len(buffer) THEN buffer[i]
                          ELSE buf[i - Len(buffer)]
    BY <2>1
  <2>3. /\ \A i \in 1..Len(buffer) : buffer[i] = taken - Collected + i
        /\ \A i \in 1..Len(buf) : buf[i] = taken - Len(buf) + i
    BY SMTT(30), <2>1 DEF RInv, HeldAreLast
  <2>4. ASSUME NEW i \in 1..Len(buffer')
        PROVE  buffer'[i] = taken - Collected + i
    <3>1. CASE i <= Len(buffer)
      BY <3>1, <2>1, <2>2, <2>3
    <3>2. CASE i > Len(buffer)
      <4>1. i - Len(buffer) \in 1..Len(buf)
        BY <3>2, <2>1, <2>2
      <4> QED
        BY <4>1, <3>2, <2>1, <2>2, <2>3 DEF Collected
    <3> QED
      BY <3>1, <3>2, <2>1, <2>2
  <2> QED
    BY <2>1, <2>2, <2>4 DEF Collected
<1> QED
  BY SMTT(30), <1>2 DEF RInv, TypeOK, HeldAreLast, Collected

(* EAGAIN, and the piece is a NICK: nothing is kept.                       *)
LEMMA PieceDropped ==
    ASSUME RInv, WouldBlock, NickPiece
    PROVE  /\ HeldAreLast' /\ Collected' = 0
           /\ dropped' = dropped \cup {Current}
  BY SizeAssumption
     DEF WouldBlock, NickPiece, RInv, TypeOK, HeldAreLast, Collected, Current

LEMMA WouldBlockRInv ==
    ASSUME RInv, WouldBlock
    PROVE  RInv'
<1>1. /\ ends' = ends /\ taken' = taken /\ lines' = lines /\ split' = split
      /\ pc' = "select" /\ peer' = peer /\ blocking' = blocking
      /\ arrived' = arrived /\ buf' = <<>> /\ ~HasDelim(buf)
  BY DEF WouldBlock, Collecting, stream
<1>2. /\ HeldAreLast' /\ dropped \subseteq dropped'
      /\ dropped' \subseteq dropped \cup {Current}
      /\ \/ Collected' = Collected /\ dropped' = dropped
         \/ Collected' = 0 /\ Current \in dropped'
  BY PieceKept, PieceDropped DEF WouldBlock
<1>3. /\ Collected \in Nat /\ taken \in Nat /\ Collected <= taken
      /\ Current \in Nat /\ Current >= 1 /\ Current' = Current
  BY <1>1, StreamFacts DEF RInv, TypeOK, HeldAreLast, Collected, Current
<1>4. TypeOK'
  <2>1. buffer' \in Seq(Nat)
    <3>1. buffer \in Seq(Nat) /\ buf \in Seq(Nat)
      BY DEF RInv, TypeOK
    <3>2. buffer \o buf \in Seq(Nat) /\ <<>> \in Seq(Nat)
      BY <3>1
    <3>3. buffer' = buffer \o buf \/ buffer' = <<>>
      BY DEF WouldBlock, KeepPiece, NickPiece
    <3> QED
      BY <3>2, <3>3
  <2>2. dropped' \subseteq 1..Current'
    BY <1>2, <1>3 DEF RInv, TypeOK
  <2> QED
    BY <1>1, <2>1, <2>2 DEF RInv, TypeOK
<1>5. UsedInOrder'
  <2>1. taken - Collected <= taken - Collected' /\ taken - Collected' \in Int
    BY <1>2, <1>3
  <2>2. \A k \in DOMAIN lines : \A i \in DOMAIN lines[k] :
            lines[k][i] \in Nat /\ lines[k][i] <= taken - Collected
    BY DEF RInv, TypeOK, UsedInOrder
  <2>3. \A k \in DOMAIN lines : \A i \in DOMAIN lines[k] :
            lines[k][i] <= taken - Collected'
    BY <1>3, <2>1, <2>2
  <2> QED
    BY <1>1, <2>3 DEF RInv, UsedInOrder, InOrder
<1>6. ASSUME ~split
      PROVE  LinesExact'
  <2>1. LinesExact
    BY <1>6 DEF RInv
  <2>2. StartOf(Current)' = StartOf(Current) /\ ~IsCR(taken)'
    BY <1>1, <1>3, <2>1 DEF StartOf, LinesExact, IsCR
  <2>3. \A k \in DOMAIN lines : Due(k)' = Due(k)
    <3>1. \A k \in DOMAIN lines : k # Current
      BY DEF RInv, TypeOK, Current
    <3>2. \A k \in DOMAIN lines : k \in dropped' <=> k \in dropped
      BY <1>2, <3>1
    <3> QED
      BY <1>1, <3>2 DEF Due, LineSent, Bytes, StartOf
  <2>4. /\ taken' - Collected' + 1 >= StartOf(Current)'
        /\ Current' \in dropped' \/ taken' - Collected' + 1 = StartOf(Current)'
    <3>1. StartOf(Current) \in Nat
      BY <2>1, StreamFacts DEF StartOf, Current, LinesExact, RInv, TypeOK
    <3> QED
      BY <1>1, <1>2, <1>3, <2>1, <2>2, <3>1 DEF LinesExact
  <2>5. Current <= Len(ends) => taken <= ends[Current] /\ taken # ends[Current]
    BY <1>1, <2>1 DEF LinesExact
  <2> QED
    BY <1>1, <1>3, <2>1, <2>2, <2>3, <2>4, <2>5 DEF LinesExact
<1>7. ShortLinesKeepConnection'
  BY <1>1 DEF ShortLinesKeepConnection
<1> QED
  BY <1>1, <1>2, <1>4, <1>5, <1>6, <1>7 DEF RInv

(* There is more to come and no line end in what is collected: the end of  *)
(* the line being received is at least two bytes away.                     *)
LEMMA EndAhead ==
    ASSUME RInv, LinesExact, ~HasDelim(buf), taken < arrived
    PROVE  /\ Current \in 1..Len(ends)
           /\ ends[Current] >= taken + 2
<1> USE DEF RInv, TypeOK
<1>1. /\ Len(ends) \in Nat /\ taken \in Nat /\ arrived \in Nat
      /\ Len(lines) \in Nat /\ Len(lines) <= Len(ends)
      /\ Len(ends) > 0 /\ arrived <= ends[Len(ends)]
      /\ \A k \in 1..Len(ends) : ends[k] \in Nat
  BY StreamFacts DEF LinesExact
<1> HIDE DEF RInv, TypeOK
<1>2. Len(lines) # Len(ends)
  <2>1. ASSUME Len(lines) = Len(ends)
        PROVE  FALSE
    <3>1. StartOf(Current) = ends[Len(ends)] + 1
      BY <2>1, <1>1 DEF Current, StartOf
    <3>2. Collected \in Nat
      BY DEF Collected, RInv, TypeOK
    <3> QED
      BY <3>1, <3>2, <1>1 DEF LinesExact
  <2> QED
    BY <2>1
<1>3. Current \in 1..Len(ends)
  BY <1>1, <1>2 DEF Current
<1>4. taken < ends[Current]
  BY <1>1, <1>3 DEF LinesExact
<1>5. taken + 1 # ends[Current]
  BY <1>3, StreamFacts DEF LinesExact, IsCR, RInv, TypeOK
<1> QED
  BY <1>1, <1>3, <1>4, <1>5

(* A line end in what is collected is that of the line being received.     *)
LEMMA EndSeen ==
    ASSUME RInv, LinesExact, HasDelim(buf)
    PROVE  /\ Current \in 1..Len(ends)
           /\ taken = ends[Current]
<1> USE DEF RInv, TypeOK
<1>1. /\ Len(ends) \in Nat /\ taken \in Nat /\ arrived \in Nat
      /\ Len(lines) \in Nat /\ Len(lines) <= Len(ends)
      /\ Len(ends) > 0 /\ taken <= ends[Len(ends)]
      /\ \A k \in 1..Len(ends) : ends[k] \in Nat
      /\ \A k, l \in 1..Len(ends) : k < l => ends[k] + 2 <= ends[l]
      /\ buf \in Seq(Nat) /\ Len(buffer) \in Nat
      /\ DOMAIN ends = 1..Len(ends)
  BY SMTT(30), StreamFacts DEF LinesExact
<1> HIDE DEF TypeOK
<1>9. /\ \A i \in 1..Len(buf) : buf[i] = taken - Len(buf) + i
      /\ StartOf(Current) <= taken - (Len(buffer) + Len(buf)) + 1
      /\ StartOf(Current) \in Nat
  <2>1. DOMAIN buf = 1..Len(buf)
    BY <1>1
  <2>2. \A i \in 1..Len(buf) : buf[i] = taken - Len(buf) + i
    BY <2>1 DEF HeldAreLast
  <2> HIDE DEF RInv
  <2>3. taken - Collected + 1 >= StartOf(Current)
    BY DEF LinesExact
  <2>4. StartOf(Current) \in Nat
    BY <1>1 DEF StartOf, Current
  <2> QED
    BY <1>1, <2>2, <2>3, <2>4 DEF Collected
<1> HIDE DEF RInv
<1>2. PICK i \in 1..Len(buf) : i + 1 \in 1..Len(buf) /\ IsLF(buf[i + 1])
  <2>1. DOMAIN buf = 1..Len(buf)
    BY <1>1
  <2>2. PICK i \in DOMAIN buf : DelimAt(buf, i)
    BY DEF HasDelim
  <2> QED
    BY <2>1, <2>2 DEF DelimAt
<1>3. buf[i + 1] = taken - Len(buf) + i + 1
  <2>1. PICK j \in 1..Len(buf) : j = i + 1
    BY <1>2
  <2> QED
    BY <1>1, <1>9, <2>1
<1>4. buf[i + 1] <= taken /\ buf[i + 1] >= StartOf(Current)
  BY SMTT(30), <1>1, <1>2, <1>3, <1>9
<1>5. PICK k \in 1..Len(ends) : buf[i + 1] = ends[k]
  BY <1>1, <1>2 DEF IsLF
<1>6. k >= Current
  <2>1. ASSUME k < Current
        PROVE  FALSE
    <3>1. Current > 1 /\ Current - 1 \in 1..Len(ends) /\ k <= Current - 1
      BY <2>1, <1>1 DEF Current
    <3>2. StartOf(Current) = ends[Current - 1] + 1
      BY <3>1 DEF StartOf
    <3>3. ends[k] <= ends[Current - 1]
      <4>1. CASE k = Current - 1
        BY <4>1, <3>1, <1>1
      <4>2. CASE k < Current - 1
        BY <4>2, <3>1, <1>1
      <4> QED
        BY <4>1, <4>2, <3>1
    <3> QED
      BY <3>1, <3>2, <3>3, <1>1, <1>4, <1>5
  <2> QED
    BY <2>1, <1>1 DEF Current
<1>7. Current \in 1..Len(ends)
  BY <1>1, <1>6 DEF Current
<1>8. ends[Current] <= ends[k]
  <2>1. CASE k = Current
    BY <2>1, <1>1, <1>7
  <2>2. CASE Current < k
    BY <2>2, <1>1, <1>7
  <2> QED
    BY <2>1, <2>2, <1>6, <1>7
<1> QED
  BY SMTT(30), <1>1, <1>4, <1>5, <1>7, <1>8 DEF LinesExact

(* recv fails, finds the connection closed or is given the length 0; the   *)
(* last is possible only when the line does not fit.                       *)
LEMMA ThrowRInv ==
    ASSUME RInv, Throw
    PROVE  RInv'
<1> USE DEF Throw, stream, executed
<1>1. TypeOK'
  BY DEF RInv, TypeOK, Current
<1>2. UsedInOrder' /\ (split \/ LinesExact)' /\ HeldAreLast'
  BY SameBytes
<1>3. ASSUME peer = "open", ~split
      PROVE  \E k \in DOMAIN ends : ends[k] - StartOf(k) + 1 >= BufSize
  <2>1. LinesExact /\ ~HasDelim(buf) /\ Room = 0 /\ Pending # <<>>
    BY <1>3 DEF RInv, Collecting
  <2>2. taken < arrived
    BY <2>1 DEF RInv, TypeOK, Pending, Bytes
  <2>3. Current \in 1..Len(ends) /\ ends[Current] >= taken + 2
    BY <2>1, <2>2, EndAhead
  <2>4. /\ taken \in Nat /\ Collected \in Nat
        /\ ends[Current] \in Nat /\ StartOf(Current) \in Nat
    <3>1. ends \in Streams /\ arrived \in Nat /\ taken \in Nat
          /\ Len(buffer) \in Nat /\ Len(buf) \in Nat
      BY StreamFacts DEF RInv, TypeOK
    <3>2. /\ Len(ends) \in Nat
          /\ \A k \in 1..Len(ends) : ends[k] \in Nat
      BY <3>1, StreamFacts
    <3>3. Current = 1 \/ (Current - 1 \in 1..Len(ends))
      BY <2>3, <3>2
    <3>4. StartOf(Current) \in Nat
      BY <3>2, <3>3 DEF StartOf
    <3> QED
      BY <2>3, <3>1, <3>2, <3>4 DEF Collected
  <2>5. ends[Current] - StartOf(Current) + 1 >= BufSize
    BY <2>1, <2>3, <2>4, SizeAssumption DEF LinesExact, Room
  <2> QED
    BY <2>3, <2>4, <2>5
<1>4. ShortLinesKeepConnection'
  BY <1>3 DEF ShortLinesKeepConnection, StartOf
<1> QED
  BY <1>1, <1>2, <1>4 DEF RInv

(* The line end has come: what is kept and collected, without the line     *)
(* end, is handed over.                                                    *)
LEMMA ReturnRInv ==
    ASSUME RInv, Return
    PROVE  RInv'
<1>1. /\ buffer \in Seq(Nat) /\ buf \in Seq(Nat) /\ lines \in Seq(Seq(Nat))
      /\ taken \in Nat /\ Len(lines) \in Nat /\ Len(buf) \in Nat
      /\ Len(buffer) \in Nat /\ Collected = Len(buffer) + Len(buf)
      /\ Collected <= taken
  BY DEF RInv, TypeOK, HeldAreLast, Collected
<1>2. /\ lines' = Append(lines, Line) /\ buffer' = <<>> /\ buf' = <<>>
      /\ pc' = "select" /\ ends' = ends /\ taken' = taken /\ split' = split
      /\ blocking' = blocking /\ arrived' = arrived /\ peer' = peer
      /\ dropped' = dropped
  BY DEF Return, stream
<1>3. HasDelim(buf)
  BY DEF RInv, HeldAreLast, Return, Collecting
<1>4. Len(buf) >= 2
  <2>1. PICK i \in DOMAIN buf : DelimAt(buf, i)
    BY <1>3 DEF HasDelim
  <2> QED
    BY <2>1, <1>1 DEF DelimAt
<1>5. /\ Line \in Seq(Nat) /\ Len(Line) = Collected - 2
      /\ DOMAIN Line = 1..(Collected - 2)
      /\ \A i \in 1..(Collected - 2) : Line[i] = taken - Collected + i
  <2>1. /\ buffer \o buf \in Seq(Nat) /\ Len(buffer \o buf) = Collected
        /\ \A i \in 1..Collected : (buffer \o buf)[i] = taken - Collected + i
    <3>1. /\ \A i \in DOMAIN buffer :
                buffer[i] = taken - (Len(buffer) + Len(buf)) + i
          /\ \A i \in DOMAIN buf : buf[i] = taken - Len(buf) + i
      BY DEF RInv, HeldAreLast, Collected
    <3> QED
      BY ZenonT(60), <3>1, <1>1, ConcatBytes
  <2>2. PICK all : all = buffer \o buf
    OBVIOUS
  <2>3. Line = SubSeq(all, 1, Collected - 2)
    BY <2>2 DEF Line
  <2>4. /\ all \in Seq(Nat) /\ Len(all) = Collected
        /\ \A i \in 1..Collected : all[i] = taken - Collected + i
    BY <2>1, <2>2
  <2>5. /\ Line \in Seq(Nat) /\ Len(Line) = Collected - 2
        /\ \A i \in 1..(Collected - 2) : Line[i] = all[i]
    <3>1. PICK n \in Nat : n = Collected - 2
      <4>1. Collected \in Nat /\ Collected >= 2
        BY <1>1, <1>4
      <4>2. Collected - 2 \in Nat
        BY <4>1
      <4> QED
        BY <4>2
    <3>2. n <= Len(all) /\ Line = SubSeq(all, 1, n)
      BY <3>1, <2>3, <2>4, <1>1
    <3>3. /\ SubSeq(all, 1, n) \in Seq(Nat) /\ Len(SubSeq(all, 1, n)) = n
          /\ \A i \in 1..n : SubSeq(all, 1, n)[i] = all[i]
      BY <2>4, <3>2
    <3> QED
      BY <3>1, <3>2, <3>3
  <2>6. \A i \in 1..(Collected - 2) : i \in 1..Collected
    BY <1>1
  <2> QED
    BY <2>4, <2>5, <2>6
<1>6. /\ lines' \in Seq(Seq(Nat)) /\ Len(lines') = Len(lines) + 1
      /\ DOMAIN lines' = 1..(Len(lines) + 1) /\ DOMAIN lines = 1..Len(lines)
      /\ \A k \in 1..Len(lines) : lines'[k] = lines[k]
      /\ lines'[Len(lines) + 1] = Line
  BY <1>1, <1>2, <1>5
<1>7. TypeOK'
  <2>1. Current' = Current + 1 /\ Current \in Nat
    BY <1>1, <1>6 DEF Current
  <2>2. dropped' \subseteq 1..Current'
    BY <1>2, <2>1 DEF RInv, TypeOK
  <2> QED
    BY <1>2, <1>6, <2>2 DEF RInv, TypeOK
<1>8. Collected' = 0 /\ HeldAreLast'
  BY <1>1, <1>2, SizeAssumption DEF HeldAreLast, Collected
<1>9. UsedInOrder'
  <2>1. taken - Collected \in Nat
    BY <1>1
  <2>2. \A k \in DOMAIN lines : \A i \in DOMAIN lines[k] :
            lines[k][i] <= taken - Collected /\ lines[k][i] \in Nat
    BY <1>1 DEF RInv, UsedInOrder
  <2>3. InOrder(lines)'
    <3>1. InOrder(Append(lines, Line))
      BY <2>1, <2>2, <1>1, <1>5, AppendInOrder DEF RInv, UsedInOrder
    <3> QED
      BY <3>1, <1>2 DEF InOrder
  <2>4. ASSUME NEW k \in DOMAIN lines', NEW i \in DOMAIN lines'[k]
        PROVE  lines'[k][i] <= taken
    <3>1. CASE k = Len(lines) + 1
      <4>1. lines'[k] = Line
        BY <3>1, <1>6
      <4>2. i \in 1..(Collected - 2) /\ lines'[k][i] = taken - Collected + i
        BY <4>1, <2>4, <1>5
      <4> QED
        BY <4>2, <1>1
    <3>2. CASE k \in 1..Len(lines)
      <4>1. lines'[k] = lines[k]
        BY <3>2, <1>6
      <4>2. lines[k][i] <= taken - Collected /\ lines[k][i] \in Nat
        BY <4>1, <3>2, <2>2, <1>6
      <4> QED
        BY <4>1, <4>2, <1>1
    <3> QED
      BY <3>1, <3>2, <1>1, <1>6
  <2> QED
    BY <2>3, <2>4, <1>1, <1>2, <1>8 DEF UsedInOrder
<1>10. ASSUME ~split
       PROVE  LinesExact'
  <2>1. LinesExact
    BY <1>10 DEF RInv
  <2>2. /\ Current \in 1..Len(ends) /\ taken = ends[Current]
        /\ StartOf(Current) <= taken - Collected + 1
        /\ Current \in dropped \/ StartOf(Current) = taken - Collected + 1
    BY <2>1, <1>3, EndSeen DEF LinesExact
  <2>3. /\ \A k \in 1..Len(ends) : ends[k] \in Nat
        /\ \A k, l \in 1..Len(ends) : k < l => ends[k] + 2 <= ends[l]
        /\ Len(ends) \in Nat /\ DOMAIN ends = 1..Len(ends)
    BY StreamFacts DEF RInv, TypeOK
  <2>4. Line \in Due(Current)
    <3>1. PICK first \in Nat : first = taken - Collected + 1
      <4>1. Collected \in Nat
        BY <1>1
      <4>2. taken - Collected + 1 \in Nat
        BY <4>1, <1>1
      <4> QED
        BY <4>2
    <3>2. Line = Bytes(first, ends[Current] - 2)
      <4>1. /\ (taken - 2) + 1 - first = Collected - 2
            /\ \A i \in 1..(Collected - 2) : first + i - 1 = taken - Collected + i
        BY <1>1, <3>1
      <4>2. Bytes(first, taken - 2)
              = [i \in 1..(Collected - 2) |-> taken - Collected + i]
        BY <4>1 DEF Bytes
      <4>3. Line = [i \in DOMAIN Line |-> Line[i]]
        BY <1>5
      <4>4. Line = Bytes(first, taken - 2)
        BY <4>2, <4>3, <1>5
      <4> QED
        BY <2>2, <4>4, Zenon
    <3>3. StartOf(Current) \in Nat /\ ends[Current] \in Nat
      BY <2>2, <2>3 DEF StartOf, Current
    <3>4. first \in StartOf(Current)..(ends[Current] - 1)
      <4>1. Collected \in Nat /\ Collected >= 2
        BY <1>1, <1>4
      <4>2. first <= taken - 1
        BY <4>1, <1>1, <3>1
      <4>3. PICK e \in Nat : e = ends[Current] /\ e = taken
        BY <2>2, <3>3
      <4>4. PICK b \in Nat : b = StartOf(Current) /\ b <= first
        BY <2>2, <3>1, <3>3
      <4> QED
        BY <4>2, <4>3, <4>4
    <3>5. CASE Current \in dropped
      BY <3>2, <3>4, <3>5 DEF Due
    <3>6. CASE Current \notin dropped
      BY <2>2, <3>1, <3>2, <3>6 DEF Due, LineSent
    <3> QED
      BY <3>5, <3>6
  <2>5. ASSUME NEW k
        PROVE  Due(k)' = Due(k)
    BY <1>2 DEF Due, LineSent, Bytes, StartOf
  <2>6. ASSUME NEW k \in DOMAIN lines'
        PROVE  lines'[k] \in Due(k)'
    <3>1. CASE k = Current
      BY <3>1, <2>4, <2>5, <1>6 DEF Current
    <3>2. CASE k \in 1..Len(lines)
      BY <3>2, <2>1, <2>5, <1>6 DEF LinesExact
    <3> QED
      BY <3>1, <3>2, <1>1, <1>6 DEF Current
  <2>7. Current' = Current + 1 /\ Current \in Nat
    BY <1>1, <1>6 DEF Current
  <2>8. StartOf(Current)' = taken + 1
    BY <2>2, <2>7, <1>1, <1>2 DEF StartOf
  <2>9. ~IsCR(taken)'
    BY <2>1, <1>2 DEF LinesExact, IsCR
  <2>10. Current' <= Len(ends) => taken + 2 <= ends[Current']
    BY <2>2, <2>3, <2>7
  <2>11. Current' <= Len(ends)' =>
           /\ taken' <= ends'[Current']
           /\ taken' = ends'[Current'] => HasDelim(buf)'
    BY <2>3, <2>7, <2>10, <1>1, <1>2
  <2>12. Len(lines') <= Len(ends')
    BY <2>2, <1>2, <1>6 DEF Current
  <2>13. taken' - Collected' + 1 = StartOf(Current)'
    BY <2>8, <1>1, <1>2, <1>8
  <2>14. taken' - Collected' + 1 >= StartOf(Current)'
    BY <2>8, <1>1, <1>2, <1>8
  <2> QED
    BY <2>6, <2>9, <2>11, <2>12, <2>13, <2>14, <1>2 DEF LinesExact
<1>11. ShortLinesKeepConnection'
  BY <1>2 DEF ShortLinesKeepConnection
<1> QED
  BY <1>2, <1>7, <1>8, <1>9, <1>10, <1>11 DEF RInv

(* The first w of the bytes that are there.                                *)
LEMMA PeekFacts ==
    ASSUME TypeOK, NEW w \in Nat, w <= arrived - taken
    PROVE  /\ SubSeq(Pending, 1, w) \in Seq(Nat)
           /\ Len(SubSeq(Pending, 1, w)) = w
           /\ \A i \in 1..w : SubSeq(Pending, 1, w)[i] = taken + i
<1>1. taken \in Nat /\ arrived \in Nat /\ taken <= arrived
  BY StreamFacts DEF TypeOK
<1>2. /\ Pending \in Seq(Nat) /\ Len(Pending) = arrived - taken
      /\ \A i \in 1..(arrived - taken) : Pending[i] = taken + i
  <2>1. /\ taken + 1 \in Nat /\ taken + 1 <= arrived + 1
        /\ arrived + 1 - (taken + 1) = arrived - taken
        /\ \A i \in 1..(arrived - taken) : taken + 1 + i - 1 = taken + i
    BY <1>1
  <2>2. PICK f \in Nat : f = taken + 1
    BY <2>1
  <2>3. /\ Bytes(f, arrived) \in Seq(Nat)
        /\ Len(Bytes(f, arrived)) = arrived + 1 - f
        /\ \A i \in 1..(arrived + 1 - f) : Bytes(f, arrived)[i] = f + i - 1
    BY <1>1, <2>1, <2>2, BytesFacts
  <2>4. Pending = Bytes(f, arrived)
    BY <2>2 DEF Pending
  <2> QED
    BY <2>1, <2>2, <2>3, <2>4
<1>3. /\ SubSeq(Pending, 1, w) \in Seq(Nat) /\ Len(SubSeq(Pending, 1, w)) = w
      /\ \A i \in 1..w : SubSeq(Pending, 1, w)[i] = Pending[i]
  BY <1>2
<1>4. \A i \in 1..w : i \in 1..(arrived - taken)
  BY <1>1
<1> QED
  BY <1>2, <1>3, <1>4

(* recv takes m bytes, and takes the end of the line being received only   *)
(* as the last of them.                                                    *)
LEMMA TakeFacts ==
    ASSUME RInv, Take
    PROVE  \E m \in Nat \ {0} :
             /\ m <= Room /\ m <= arrived - taken
             /\ taken' = taken + m
             /\ buf' \in Seq(Nat) /\ Len(buf') = Len(buf) + m
             /\ \A i \in 1..Len(buf') : buf'[i] = taken' - Len(buf') + i
             /\ split' = (split \/ IsCR(taken'))
             /\ LinesExact => taken + m <= ends[Current]
<1>1. /\ buf \in Seq(Nat) /\ taken \in Nat /\ arrived \in Nat
      /\ Collected \in Nat /\ Len(buf) \in Nat /\ Len(buf) <= taken
      /\ taken <= arrived /\ TypeOK
  BY StreamFacts DEF RInv, TypeOK, HeldAreLast, Collected
<1>2. Room \in Nat /\ Room > 0 /\ arrived - taken > 0 /\ ~HasDelim(buf)
  <2>1. Room > 0 /\ Bytes(taken + 1, arrived) # <<>> /\ ~HasDelim(buf)
    BY DEF Take, Collecting, Pending
  <2>2. arrived # taken
    BY <2>1, <1>1 DEF Bytes
  <2> QED
    BY <2>1, <2>2, <1>1, SizeAssumption DEF Room
<1>3. Len(Pending) = arrived - taken
  BY <1>1 DEF Pending, Bytes
<1>4. PICK w \in Nat : w = IF Room < Len(Pending) THEN Room ELSE Len(Pending)
  BY SMTT(30), <1>1, <1>2, <1>3
<1>5. w > 0 /\ w <= Room /\ w <= arrived - taken
  BY <1>1, <1>2, <1>3, <1>4
<1>6. PICK peek : peek = SubSeq(Pending, 1, w)
  OBVIOUS
<1>7. /\ peek \in Seq(Nat) /\ Len(peek) = w
      /\ \A i \in 1..w : peek[i] = taken + i
  BY <1>1, <1>5, <1>6, PeekFacts
<1>8. PICK m \in 1..w :
         /\ Chunk(peek) = SubSeq(peek, 1, m)
         /\ HasDelim(peek) =>
              /\ m >= 2 /\ DelimAt(peek, m - 1)
              /\ \A j \in 1..(m - 2) : ~DelimAt(peek, j)
         /\ ~HasDelim(peek) => m = Len(peek)
  <2>1. peek # <<>>
    BY <1>5, <1>7
  <2> QED
    BY <1>7, <2>1, ChunkFacts
<1>9. PICK chunk : chunk = Chunk(peek)
  OBVIOUS
<1>10. /\ chunk \in Seq(Nat) /\ Len(chunk) = m
       /\ \A i \in 1..m : chunk[i] = taken + i
  <2>1. /\ SubSeq(peek, 1, m) \in Seq(Nat) /\ Len(SubSeq(peek, 1, m)) = m
        /\ \A i \in 1..m : SubSeq(peek, 1, m)[i] = peek[i]
    BY <1>7
  <2>2. \A i \in 1..m : i \in 1..w
    OBVIOUS
  <2> QED
    BY <1>7, <1>8, <1>9, <2>1, <2>2
<1>11. Last(chunk) = taken + m
  BY <1>10 DEF Last
<1>12. /\ buf' = buf \o chunk /\ taken' = taken + m
       /\ split' = (split \/ IsCR(taken + m)) /\ ends' = ends
  BY <1>4, <1>6, <1>9, <1>10, <1>11 DEF Take, stream
<1>13. /\ buf' \in Seq(Nat) /\ Len(buf') = Len(buf) + m
       /\ \A i \in 1..Len(buf') : buf'[i] = taken' - Len(buf') + i
  <2>1. PICK t \in Nat : t = taken + m
    BY <1>1
  <2>2. /\ Len(buf) + Len(chunk) <= t
        /\ \A i \in DOMAIN buf : buf[i] = t - (Len(buf) + Len(chunk)) + i
        /\ \A i \in DOMAIN chunk : chunk[i] = t - Len(chunk) + i
    BY <1>1, <1>10, <2>1 DEF RInv, HeldAreLast
  <2>3. /\ buf \o chunk \in Seq(Nat) /\ Len(buf \o chunk) = Len(buf) + Len(chunk)
        /\ \A i \in 1..(Len(buf) + Len(chunk)) :
             (buf \o chunk)[i] = t - (Len(buf) + Len(chunk)) + i
    BY <1>1, <1>10, <2>2, ConcatBytes
  <2> QED
    BY <1>10, <1>12, <2>1, <2>3
<1>14. ASSUME LinesExact
       PROVE  taken + m <= ends[Current]
  <2>1. Current \in 1..Len(ends) /\ ends[Current] >= taken + 2
    BY <1>1, <1>2, <1>14, EndAhead
  <2>2. ends[Current] \in Nat
    BY <2>1, StreamFacts DEF RInv, TypeOK
  <2>3. ASSUME ends[Current] < taken + m
        PROVE  FALSE
    <3>1. PICK i \in 1..(m - 2) : i = ends[Current] - taken - 1
      BY <1>1, <2>1, <2>2, <2>3
    <3>2. peek[i] + 1 = ends[Current] /\ peek[i + 1] = ends[Current]
      <4>1. i \in 1..w /\ i + 1 \in 1..w
        OBVIOUS
      <4>2. peek[i] = taken + i /\ peek[i + 1] = taken + (i + 1)
        BY <1>7, <4>1
      <4> QED
        BY SMTT(30), <4>2, <1>1, <2>2, <3>1
    <3>3. i \in DOMAIN peek /\ i + 1 \in DOMAIN peek
      BY <1>7, <3>1
    <3>4. Current \in DOMAIN ends
      BY <2>1 DEF RInv, TypeOK, Streams
    <3>5. DelimAt(peek, i)
      BY <3>2, <3>3, <3>4 DEF DelimAt, IsCR, IsLF
    <3>6. HasDelim(peek)
      BY <3>3, <3>5 DEF HasDelim
    <3> QED
      BY <1>8, <3>1, <3>5, <3>6
  <2> QED
    BY <1>1, <2>2, <2>3
<1> QED
  BY <1>5, <1>12, <1>13, <1>14, <1>1, <1>2

LEMMA TakeRInv ==
    ASSUME RInv, Take
    PROVE  RInv'
<1>1. PICK m \in Nat \ {0} :
         /\ m <= Room /\ m <= arrived - taken
         /\ taken' = taken + m
         /\ buf' \in Seq(Nat) /\ Len(buf') = Len(buf) + m
         /\ \A i \in 1..Len(buf') : buf'[i] = taken' - Len(buf') + i
         /\ split' = (split \/ IsCR(taken'))
         /\ LinesExact => taken + m <= ends[Current]
  BY TakeFacts
<1>2. /\ ends' = ends /\ blocking' = blocking /\ arrived' = arrived
      /\ peer' = peer /\ buffer' = buffer /\ pc' = pc /\ lines' = lines
      /\ dropped' = dropped /\ pc = "recv" /\ ~HasDelim(buf) /\ Pending # <<>>
  BY DEF Take, Collecting, stream, executed
<1>3. /\ taken \in Nat /\ arrived \in Nat /\ Len(buf) \in Nat
      /\ Len(buffer) \in Nat /\ Collected = Len(buffer) + Len(buf)
      /\ Collected <= taken /\ Room = BufSize - 1 - Collected
      /\ buffer \in Seq(Nat) /\ BufSize \in Nat
  BY StreamFacts, SizeAssumption
  DEF RInv, TypeOK, HeldAreLast, Collected, Room
<1>4. TypeOK'
  <2>1. taken' \in 0..arrived
    BY <1>1, <1>3
  <2>2. split' \in BOOLEAN
    BY <1>1 DEF IsCR
  <2> QED
    BY <1>1, <1>2, <2>1, <2>2 DEF RInv, TypeOK, Current
<1>5. /\ Collected' = Collected + m /\ Collected' < BufSize
      /\ taken' - Collected' = taken - Collected
  <2>1. Collected' = Collected + m
    BY <1>1, <1>2, <1>3 DEF Collected
  <2> QED
    BY <1>1, <1>3, <2>1
<1>6. HeldAreLast'
  <2>1. \A i \in DOMAIN buffer' : buffer'[i] = taken' - Collected' + i
    BY <1>2, <1>5 DEF RInv, HeldAreLast
  <2>2. \A i \in DOMAIN buf' : buf'[i] = taken' - Len(buf') + i
    BY <1>1
  <2>3. Collected' <= taken'
    BY <1>1, <1>3, <1>5
  <2> QED
    BY <1>2, <1>5, <2>1, <2>2, <2>3 DEF HeldAreLast
<1>7. UsedInOrder'
  BY <1>2, <1>5 DEF RInv, UsedInOrder, InOrder
<1>8. ASSUME ~split'
      PROVE  LinesExact'
  <2>1. LinesExact /\ ~IsCR(taken')
    BY <1>1, <1>8 DEF RInv
  <2>2. taken < arrived
    BY <1>1, <1>3
  <2>3. /\ Current \in 1..Len(ends) /\ ends[Current] >= taken + 2
        /\ taken' <= ends[Current]
    BY <1>1, <1>2, <2>1, <2>2, EndAhead
  <2>4. ends[Current] \in Nat /\ Current \in DOMAIN ends
    BY <2>3, StreamFacts DEF RInv, TypeOK
  <2>5. ASSUME taken' = ends[Current]
        PROVE  HasDelim(buf')
    <3>1. m >= 2
      BY <1>1, <1>3, <2>3, <2>4, <2>5
    <3>2. PICK i \in 1..Len(buf') : i = Len(buf') - 1 /\ i + 1 \in 1..Len(buf')
      <4>1. Len(buf') \in Nat /\ Len(buf') >= 2
        BY <1>1, <1>3, <3>1
      <4>2. Len(buf') - 1 \in 1..Len(buf') /\ (Len(buf') - 1) + 1 \in 1..Len(buf')
        BY <4>1
      <4> QED
        BY <4>2
    <3>3. buf'[i] = taken' - 1 /\ buf'[i + 1] = taken'
      <4>1. /\ buf'[i] = taken' - Len(buf') + i
            /\ buf'[i + 1] = taken' - Len(buf') + (i + 1)
        BY <1>1, <3>2
      <4>2. taken' \in Nat /\ Len(buf') \in Nat
        BY <1>1, <1>3
      <4> QED
        BY <3>2, <4>1, <4>2
    <3>4. buf'[i] + 1 = ends[Current]
      BY SMTT(30), <1>1, <1>3, <2>5, <3>3
    <3>5. DOMAIN buf' = 1..Len(buf')
      BY <1>1
    <3>6. DelimAt(buf', i)
      BY <2>4, <2>5, <3>2, <3>3, <3>4, <3>5 DEF DelimAt, IsCR, IsLF
    <3> QED
      BY <3>2, <3>5, <3>6 DEF HasDelim
  <2>6. Current' = Current /\ StartOf(Current)' = StartOf(Current)
    BY <1>2 DEF Current, StartOf
  <2>7. \A k \in DOMAIN lines : Due(k)' = Due(k)
    BY <1>2 DEF Due, LineSent, Bytes, StartOf
  <2>8. ~IsCR(taken)'
    BY <1>2, <2>1 DEF IsCR
  <2>9. HasDelim(buf)' = HasDelim(buf')
    BY <1>2 DEF HasDelim, DelimAt, IsCR, IsLF
  <2> QED
    BY <1>2, <1>5, <2>1, <2>3, <2>5, <2>6, <2>7, <2>8, <2>9 DEF LinesExact
<1>9. ShortLinesKeepConnection'
  BY <1>2 DEF ShortLinesKeepConnection
<1> QED
  BY <1>4, <1>6, <1>7, <1>8, <1>9 DEF RInv

(* What the bytes say of the lines.                                        *)
LEMMA RInvLinesWhole ==
    ASSUME RInv
    PROVE  LinesWhole
<1>1. PICK rest : rest = buffer \o buf
  OBVIOUS
<1>2. /\ lines \in Seq(Seq(Nat)) /\ taken \in Nat /\ Collected \in Nat
      /\ Collected <= taken
  BY DEF RInv, TypeOK, HeldAreLast, Collected
<1>3. PICK n \in Nat : n = taken - Collected
  BY <1>2
<1>4. /\ rest \in Seq(Nat) /\ \A i \in DOMAIN rest : rest[i] = n + i
  <2>1. /\ buffer \in Seq(Nat) /\ buf \in Seq(Nat)
        /\ Len(buffer) + Len(buf) <= taken
        /\ \A i \in DOMAIN buffer :
              buffer[i] = taken - (Len(buffer) + Len(buf)) + i
        /\ \A i \in DOMAIN buf : buf[i] = taken - Len(buf) + i
    BY DEF RInv, TypeOK, HeldAreLast, Collected
  <2>2. /\ rest \in Seq(Nat) /\ Len(rest) = Len(buffer) + Len(buf)
        /\ \A i \in 1..(Len(buffer) + Len(buf)) :
             rest[i] = taken - (Len(buffer) + Len(buf)) + i
    BY ZenonT(60), <1>1, <1>2, <2>1, ConcatBytes
  <2> QED
    BY <1>3, <2>2 DEF Collected
<1>5. InOrder(Append(lines, rest))
  BY <1>2, <1>3, <1>4, AppendInOrder DEF RInv, UsedInOrder
<1> QED
  BY <1>1, <1>5 DEF LinesWhole, RInv, LinesExact

-----------------------------------------------------------------------------
(* The theorems                                                            *)

(* The bytes kept and collected are the last ones taken, every byte taken  *)
(* earlier was used at most once, recv never runs past a line end, and of  *)
(* the line being received nothing is missing but what NICK has dropped.   *)
THEOREM ReceiveInvariant == Spec => []RInv
<1>1. Init => RInv
  BY InitRInv
<1>2. RInv /\ [Next]_vars => RInv'
  <2> SUFFICES ASSUME RInv, [Next]_vars
               PROVE  RInv'
    OBVIOUS
  <2>1. ASSUME NEW n \in 1..MaxBytes, Arrive(n)
        PROVE  RInv'
    BY <2>1, ArriveRInv
  <2>2. ASSUME NEW how \in {"shut", "reset"}, Hangup(how)
        PROVE  RInv'
    BY <2>2, HangupRInv
  <2>3. ASSUME Server
        PROVE  RInv'
    BY <2>3, ReadableRInv, TakeRInv, WouldBlockRInv, ThrowRInv, ReturnRInv
    DEF Server
  <2>4. CASE UNCHANGED vars
    <3>1. UsedInOrder' /\ (split \/ LinesExact)' /\ TypeOK'
      BY <2>4, SameBytes DEF vars, RInv, TypeOK, Current
    <3>2. HeldAreLast' /\ ShortLinesKeepConnection'
      BY <2>4 DEF vars, RInv, HeldAreLast, Collected,
                  ShortLinesKeepConnection, StartOf
    <3> QED
      BY <3>1, <3>2 DEF RInv
  <2> QED
    BY <2>1, <2>2, <2>3, <2>4 DEF Next
<1> QED
  BY <1>1, <1>2, PTL DEF Spec

(* Whatever the sizes, however the bytes come in and whether the socket    *)
(* blocks or not: unless a read has ended between CR and LF, the lines     *)
(* executed are the lines sent, save the beginning of a line of which a    *)
(* piece has been taken for a NICK; and no byte is ever used twice.        *)
THEOREM LinesComeWhole == Spec => []LinesWhole
BY ReceiveInvariant, RInvLinesWhole, PTL

(* A client whose lines are shorter than the buffer is not disconnected by *)
(* _recv.                                                                  *)
THEOREM ShortLinesAreSafe == Spec => []ShortLinesKeepConnection
<1>1. RInv => ShortLinesKeepConnection
  BY DEF RInv
<1> QED
  BY <1>1, ReceiveInvariant, PTL
==============================================================================
