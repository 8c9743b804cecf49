---------------------------- MODULE MessageProofs ----------------------------
(***************************************************************************)
(* The parser keeps to the grammar, loses no letter and reads what the     *)
(* server relays, whatever the length of the line and the letters in it.   *)
(*                                                                         *)
(* Everything comes down to how _split reads a string with one delimiter   *)
(* in it (SplitConcat) and one without (SplitFree), and to the fields it   *)
(* finds being the grammar's words (SplitIsWords).  Where something holds  *)
(* because a string is read character by character, it is shown that there *)
(* is no shortest string, or least position, for which it does not.        *)
(***************************************************************************)
EXTENDS Message, SequenceTheorems, FiniteSetTheorems, WellFoundedInduction,
        TLAPS

-----------------------------------------------------------------------------
(* Numbers                                                                 *)

(* A set of numbers that is not empty has a least one.                     *)
LEMMA LeastNumber ==
    ASSUME NEW T, T \subseteq Nat, T # {}
    PROVE  \E x \in T : \A y \in T : x <= y
<1>1. PICK x \in T : \A y \in T : ~ (<<y, x>> \in OpToRel(<, Nat))
  BY NatLessThanWellFounded, WFMin
<1>2. ASSUME NEW y \in T
      PROVE  x <= y
  <2>1. ~ (y < x)
    BY <1>1 DEF OpToRel
  <2> QED
    BY <2>1
<1> QED
  BY <1>2

LEMMA MaxFacts ==
    ASSUME NEW n \in Nat, NEW s \in SUBSET (1..n), s # {}
    PROVE  /\ Max(s) \in s /\ Max(s) \in 1..n
           /\ \A y \in s : y <= Max(s)
           /\ s \ {Max(s)} \in SUBSET (1..(Max(s) - 1))
<1> DEFINE T == {n - y : y \in s}
<1>1. PICK t \in T : \A u \in T : t <= u
  <2>1. T \subseteq Nat /\ T # {}
    OBVIOUS
  <2> HIDE DEF T
  <2> QED
    BY <2>1, LeastNumber
<1>2. PICK x \in s : t = n - x
  BY <1>1
<1>3. \A y \in s : x >= y
  <2> TAKE y \in s
  <2>1. n - x <= n - y
    BY <1>1, <1>2
  <2> QED
    BY <2>1
<1>4. Max(s) \in s /\ \A y \in s : Max(s) >= y
  BY <1>2, <1>3 DEF Max
<1>5. PICK m \in 1..n : m = Max(s)
  BY <1>4
<1>6. ASSUME NEW y \in s
      PROVE  y <= m /\ (y # m => y \in 1..(m - 1))
  BY <1>4, <1>5
<1> QED
  BY <1>4, <1>5, <1>6

-----------------------------------------------------------------------------
(* The fold over a string.  It is the value of a recursive function on the *)
(* sets of positions, of which it has to be shown that it exists and that  *)
(* its values depend on those positions only.                              *)

Reads(f, str, delimiter, n) ==
    f = [s \in SUBSET (1..n) |->
            IF s = {} THEN NothingRead
            ELSE ReadCharacter(f[s \ {Max(s)}], str[Max(s)], delimiter)]

(* What the values depend on: the first n elements.                        *)
Agree(s, t, n) == \A i \in 1..n : s[i] = t[i]

LEMMA ReadsExists ==
    ASSUME NEW str, NEW delimiter, NEW n \in Nat
    PROVE  \E f : Reads(f, str, delimiter, n)
<1> DEFINE Bad == {k \in Nat : ~ \E f : Reads(f, str, delimiter, k)}
<1> SUFFICES ASSUME Bad # {} PROVE FALSE
  OBVIOUS
<1>1. PICK k \in Bad : \A y \in Bad : k <= y
  <2>1. Bad \subseteq Nat
    OBVIOUS
  <2> HIDE DEF Bad
  <2> QED
    BY <2>1, LeastNumber
<1>2. CASE k = 0
  <2> DEFINE e == [s \in SUBSET (1..0) |-> NothingRead]
  <2>1. \A s \in SUBSET (1..0) : s = {}
    OBVIOUS
  <2>2. Reads(e, str, delimiter, 0)
    BY <2>1 DEF Reads
  <2> QED
    BY <1>1, <1>2, <2>2
<1>3. CASE k # 0
  <2>1. k \in Nat /\ k - 1 \in Nat /\ k - 1 \notin Bad
    BY <1>1, <1>3
  <2>2. PICK f : Reads(f, str, delimiter, k - 1)
    BY <2>1
  <2> DEFINE g == [s \in SUBSET (1..k) |->
                     IF k \in s THEN ReadCharacter(f[s \ {k}], str[k], delimiter)
                     ELSE f[s]]
  <2>3. ASSUME NEW s \in SUBSET (1..k)
        PROVE  g[s] = IF s = {} THEN NothingRead
                      ELSE ReadCharacter(g[s \ {Max(s)}], str[Max(s)], delimiter)
    <3>1. CASE k \in s
      <4>1. /\ Max(s) \in s /\ k <= Max(s) /\ Max(s) \in 1..k
            /\ s # {}
        BY <2>1, <3>1, MaxFacts
      <4>2. Max(s) = k
        BY <2>1, <4>1
      <4>3. s \ {k} \in SUBSET (1..k) /\ k \notin s \ {k}
        OBVIOUS
      <4>4. g[s \ {k}] = f[s \ {k}]
        BY <4>3
      <4> QED
        BY <3>1, <4>1, <4>2, <4>4
    <3>2. CASE k \notin s
      <4>1. s \in SUBSET (1..(k - 1)) /\ g[s] = f[s]
        BY <2>1, <3>2
      <4>2. f[s] = IF s = {} THEN NothingRead
                   ELSE ReadCharacter(f[s \ {Max(s)}], str[Max(s)], delimiter)
        BY <2>2, <4>1 DEF Reads
      <4>3. s \ {Max(s)} \in SUBSET (1..k) /\ k \notin s \ {Max(s)}
        BY <3>2
      <4>4. g[s \ {Max(s)}] = f[s \ {Max(s)}]
        BY <4>3
      <4> QED
        BY <4>1, <4>2, <4>4
    <3> QED
      BY <3>1, <3>2
  <2>4. g = [s \in SUBSET (1..k) |-> g[s]]
    OBVIOUS
  <2> HIDE DEF g
  <2>5. Reads(g, str, delimiter, k)
    BY <2>3, <2>4 DEF Reads
  <2> QED
    BY <1>1, <2>5
<1> QED
  BY <1>2, <1>3

LEMMA ReadsAgree ==
    ASSUME NEW str, NEW other, NEW delimiter, NEW n \in Nat, NEW m \in Nat,
           n <= m, Agree(str, other, n),
           NEW f, Reads(f, str, delimiter, n),
           NEW g, Reads(g, other, delimiter, m)
    PROVE  f[1..n] = g[1..n]
<1> DEFINE Bad == {k \in 0..n : \E s \in SUBSET (1..k) : f[s] # g[s]}
<1>1. Bad = {}
  <2> SUFFICES ASSUME Bad # {} PROVE FALSE
    OBVIOUS
  <2>1. PICK k \in Bad : \A y \in Bad : k <= y
    <3>1. Bad \subseteq Nat
      OBVIOUS
    <3> HIDE DEF Bad
    <3> QED
      BY <3>1, LeastNumber
  <2>2. PICK s \in SUBSET (1..k) : f[s] # g[s]
    BY <2>1
  <2>3. k \in Nat /\ k <= n /\ s \in SUBSET (1..n) /\ s \in SUBSET (1..m)
    BY <2>1
  <2>4. f[s] = IF s = {} THEN NothingRead
               ELSE ReadCharacter(f[s \ {Max(s)}], str[Max(s)], delimiter)
    BY <2>3 DEF Reads
  <2>5. g[s] = IF s = {} THEN NothingRead
               ELSE ReadCharacter(g[s \ {Max(s)}], other[Max(s)], delimiter)
    BY <2>3 DEF Reads
  <2>6. CASE s # {}
    <3>1. Max(s) \in 1..k /\ s \ {Max(s)} \in SUBSET (1..(Max(s) - 1))
      BY <2>3, <2>6, MaxFacts
    <3>2. PICK j \in 0..n : j = Max(s) - 1
      BY <2>3, <3>1
    <3>3. j < k
      BY <2>3, <3>1, <3>2
    <3>6. j \notin Bad
      <4>1. k \in Nat /\ j \in Nat
        BY <2>3, <3>2
      <4> HIDE DEF Bad
      <4> QED
        BY <2>1, <3>3, <4>1
    <3>4. f[s \ {Max(s)}] = g[s \ {Max(s)}]
      BY <3>1, <3>2, <3>6
    <3>5. str[Max(s)] = other[Max(s)]
      BY <2>3, <3>1 DEF Agree
    <3> QED
      BY <2>2, <2>4, <2>5, <2>6, <3>4, <3>5
  <2> QED
    BY <2>2, <2>4, <2>5, <2>6
<1>2. n \notin Bad /\ 1..n \in SUBSET (1..n)
  BY <1>1
<1> QED
  BY <1>2

LEMMA ReadIsFold ==
    ASSUME NEW S, NEW str \in Seq(S), NEW delimiter
    PROVE  \E f : /\ Reads(f, str, delimiter, Len(str))
                  /\ Read(str, delimiter) = f[1..Len(str)]
<1>1. DOMAIN str = 1..Len(str) /\ Len(str) \in Nat
  OBVIOUS
<1>2. PICK f : f = CHOOSE g : Reads(g, str, delimiter, Len(str))
  OBVIOUS
<1>3. Reads(f, str, delimiter, Len(str))
  BY <1>1, <1>2, ReadsExists
<1>4. Read(str, delimiter) = f[1..Len(str)]
  BY <1>1, <1>2 DEF Read, FoldLeft, MapThenFoldSet, Reads
<1> QED
  BY <1>3, <1>4

(* getline() goes on from where it is.                                     *)
LEMMA ReadAppend ==
    ASSUME NEW S, NEW str \in Seq(S), NEW c \in S, NEW delimiter
    PROVE  Read(Append(str, c), delimiter)
             = ReadCharacter(Read(str, delimiter), c, delimiter)
<1>1. PICK n \in Nat : n = Len(str)
  OBVIOUS
<1>2. PICK m \in Nat : m = n + 1
  OBVIOUS
<1>3. PICK long : long = Append(str, c)
  OBVIOUS
<1>4. /\ long \in Seq(S) /\ Len(long) = m /\ long[m] = c
      /\ \A i \in 1..n : str[i] = long[i]
  BY <1>1, <1>2, <1>3
<1>5. PICK f : Reads(f, str, delimiter, n) /\ Read(str, delimiter) = f[1..n]
  BY <1>1, ReadIsFold
<1>6. PICK g : Reads(g, long, delimiter, m) /\ Read(long, delimiter) = g[1..m]
  BY <1>4, ReadIsFold
<1>7. f[1..n] = g[1..n]
  <2>1. n <= m
    BY <1>2
  <2>2. Agree(str, long, n)
    BY <1>4 DEF Agree
  <2> QED
    BY <1>5, <1>6, <2>1, <2>2, ReadsAgree
<1>8. 1..m \in SUBSET (1..m) /\ m \in 1..m /\ (1..m) \ {m} = 1..n
  <2>1. m \in 1..m
    BY <1>2
  <2>2. (1..m) \ {m} = 1..n
    BY <1>2
  <2> QED
    BY <2>1, <2>2
<1>9. Max(1..m) = m
  <2>1. 1..m # {}
    BY <1>8
  <2>2. m <= Max(1..m) /\ Max(1..m) \in 1..m
    BY <1>8, <2>1, MaxFacts
  <2> QED
    BY <2>2
<1>10. g[1..m] = ReadCharacter(g[1..n], long[m], delimiter)
  <2>1. 1..m # {}
    BY <1>8
  <2> QED
    BY <1>6, <1>8, <1>9, <2>1 DEF Reads
<1> QED
  BY <1>3, <1>4, <1>5, <1>6, <1>7, <1>10

LEMMA ReadNothing ==
    ASSUME NEW delimiter
    PROVE  Read(<<>>, delimiter) = NothingRead
<1>1. PICK f : Reads(f, <<>>, delimiter, 0) /\ Read(<<>>, delimiter) = f[1..0]
  <2>1. <<>> \in Seq({}) /\ Len(<<>>) = 0
    OBVIOUS
  <2> QED
    BY <2>1, ReadIsFold
<1>2. 1..0 = {} /\ 1..0 \in SUBSET (1..0)
  OBVIOUS
<1> QED
  BY <1>1, <1>2 DEF Reads

-----------------------------------------------------------------------------
(* Pieces put together.  FlattenSeq is the last value of another recursive *)
(* function.                                                               *)

Flattens(f, s, n) ==
    f = [i \in 1..n |-> IF i = 1 THEN s[i] ELSE f[i - 1] \o s[i]]

LEMMA FlattensExists ==
    ASSUME NEW s, NEW n \in Nat
    PROVE  \E f : Flattens(f, s, n)
<1> DEFINE Bad == {k \in Nat : ~ \E f : Flattens(f, s, k)}
<1> SUFFICES ASSUME Bad # {} PROVE FALSE
  OBVIOUS
<1>1. PICK k \in Bad : \A y \in Bad : k <= y
  <2>1. Bad \subseteq Nat
    OBVIOUS
  <2> HIDE DEF Bad
  <2> QED
    BY <2>1, LeastNumber
<1>2. CASE k = 0
  <2> DEFINE e == [i \in 1..0 |-> s]
  <2>1. Flattens(e, s, 0)
    BY DEF Flattens
  <2> QED
    BY <1>1, <1>2, <2>1
<1>3. CASE k # 0
  <2>1. k \in Nat /\ k - 1 \in Nat /\ k - 1 \notin Bad
    BY <1>1, <1>3
  <2>2. PICK f : Flattens(f, s, k - 1)
    BY <2>1
  <2> DEFINE g == [i \in 1..k |-> IF i = k THEN (IF k = 1 THEN s[1] ELSE f[k - 1] \o s[k])
                                           ELSE f[i]]
  <2>3. ASSUME NEW i \in 1..k
        PROVE  g[i] = IF i = 1 THEN s[i] ELSE g[i - 1] \o s[i]
    <3>1. CASE i = k
      <4>1. CASE k = 1
        BY <3>1, <4>1
      <4>2. CASE k # 1
        <5>1. k - 1 \in 1..k /\ g[k - 1] = f[k - 1]
          BY <2>1, <4>2
        <5> QED
          BY <2>1, <3>1, <4>2, <5>1
      <4> QED
        BY <4>1, <4>2
    <3>2. CASE i # k
      <4>1. i \in 1..(k - 1) /\ g[i] = f[i]
        BY <2>1, <3>2
      <4>2. f[i] = IF i = 1 THEN s[i] ELSE f[i - 1] \o s[i]
        BY <2>2, <4>1 DEF Flattens
      <4>3. i # 1 => i - 1 \in 1..k /\ g[i - 1] = f[i - 1]
        BY <2>1, <4>1
      <4> QED
        BY <4>1, <4>2, <4>3
    <3> QED
      BY <3>1, <3>2
  <2>4. g = [i \in 1..k |-> g[i]]
    OBVIOUS
  <2> HIDE DEF g
  <2>5. Flattens(g, s, k)
    BY <2>3, <2>4 DEF Flattens
  <2> QED
    BY <1>1, <2>5
<1> QED
  BY <1>2, <1>3

LEMMA FlattensAgree ==
    ASSUME NEW s, NEW t, NEW n \in Nat, NEW m \in Nat, n <= m, Agree(s, t, n),
           NEW f, Flattens(f, s, n), NEW g, Flattens(g, t, m)
    PROVE  Agree(f, g, n)
<1> DEFINE Bad == {i \in 1..n : f[i] # g[i]}
<1> SUFFICES ASSUME Bad # {} PROVE FALSE
  BY DEF Agree
<1>1. PICK k \in Bad : \A y \in Bad : k <= y
  <2>1. Bad \subseteq Nat
    OBVIOUS
  <2> HIDE DEF Bad
  <2> QED
    BY <2>1, LeastNumber
<1>2. k \in 1..n /\ k \in 1..m /\ f[k] # g[k]
  BY <1>1
<1>0. s[k] = t[k]
  BY <1>2 DEF Agree
<1>3. f[k] = IF k = 1 THEN s[k] ELSE f[k - 1] \o s[k]
  BY <1>2 DEF Flattens
<1>4. g[k] = IF k = 1 THEN t[k] ELSE g[k - 1] \o t[k]
  BY <1>2 DEF Flattens
<1>5. k # 1 => f[k - 1] = g[k - 1]
  <2> SUFFICES ASSUME k # 1, f[k - 1] # g[k - 1] PROVE FALSE
    OBVIOUS
  <2>1. k - 1 \in Bad
    BY <1>2
  <2> QED
    BY <1>1, <1>2, <2>1
<1> QED
  BY <1>0, <1>2, <1>3, <1>4, <1>5

LEMMA FlattenIsLast ==
    ASSUME NEW s, Len(s) \in Nat \ {0}
    PROVE  \E f : Flattens(f, s, Len(s)) /\ FlattenSeq(s) = f[Len(s)]
<1>1. PICK f : f = CHOOSE g : Flattens(g, s, Len(s))
  OBVIOUS
<1>2. Flattens(f, s, Len(s))
  BY <1>1, FlattensExists
<1>3. FlattenSeq(s) = f[Len(s)]
  BY <1>1 DEF FlattenSeq, Flattens
<1> QED
  BY <1>2, <1>3

LEMMA FlattenAppend ==
    ASSUME NEW T, NEW s \in Seq(Seq(T)), NEW x \in Seq(T)
    PROVE  /\ FlattenSeq(Append(s, x)) = FlattenSeq(s) \o x
           /\ FlattenSeq(<<>>) = <<>>
<1>1. FlattenSeq(<<>>) = <<>>
  BY DEF FlattenSeq
<1>2. PICK t : t = Append(s, x)
  OBVIOUS
<1>3. PICK n : n = Len(s)
  OBVIOUS
<1>4. /\ n \in Nat /\ Len(t) = n + 1 /\ t[n + 1] = x
      /\ \A i \in 1..n : t[i] = s[i]
  BY <1>2, <1>3
<1>5. PICK g : Flattens(g, t, n + 1) /\ FlattenSeq(t) = g[n + 1]
  BY <1>4, FlattenIsLast
<1>6. g[n + 1] = IF n + 1 = 1 THEN x ELSE g[n] \o x
  <2>1. n + 1 \in 1..(n + 1) /\ (n + 1) - 1 = n
    BY <1>4
  <2>2. g[n + 1] = IF n + 1 = 1 THEN t[n + 1] ELSE g[(n + 1) - 1] \o t[n + 1]
    BY <1>5, <2>1 DEF Flattens
  <2> QED
    BY <1>4, <2>1, <2>2
<1>7. CASE n = 0
  <2>1. s = <<>>
    BY <1>3, <1>7, EmptySeq
  <2> QED
    BY <1>1, <1>2, <1>5, <1>6, <1>7, <2>1
<1>8. CASE n # 0
  <2>1. PICK f : Flattens(f, s, n) /\ FlattenSeq(s) = f[n]
    BY <1>3, <1>4, <1>8, FlattenIsLast
  <2>2. f[n] = g[n]
    <3>1. \A i \in 1..n : f[i] = g[i]
      <4>1. PICK m : m = n + 1
        OBVIOUS
      <4>2. m \in Nat /\ n <= m /\ Agree(s, t, n)
        BY <1>4, <4>1 DEF Agree
      <4>3. Flattens(g, t, m)
        BY <1>5, <4>1
      <4> QED
        <5>1. Agree(f, g, n)
          BY <1>4, <2>1, <4>2, <4>3, FlattensAgree
        <5> QED
          BY <5>1 DEF Agree
    <3> QED
      BY <1>4, <1>8, <3>1
  <2> QED
    BY <1>1, <1>2, <1>4, <1>5, <1>6, <1>8, <2>1, <2>2
<1> QED
  BY <1>7, <1>8

-----------------------------------------------------------------------------
(* Strings, one character after the other                                  *)

(* What holds of the empty string and of one more character holds of all.  *)
LEMMA StringInduction ==
    ASSUME NEW S, NEW G, <<>> \in G,
           \A s \in Seq(S), c \in S : s \in G => Append(s, c) \in G
    PROVE  \A s \in Seq(S) : s \in G
<1> DEFINE Bad == {Len(s) : s \in Seq(S) \ G}
<1> SUFFICES ASSUME Bad # {} PROVE FALSE
  OBVIOUS
<1>1. PICK k \in Bad : \A y \in Bad : k <= y
  <2>1. Bad \subseteq Nat
    OBVIOUS
  <2> HIDE DEF Bad
  <2> QED
    BY <2>1, LeastNumber
<1>2. PICK s \in Seq(S) \ G : Len(s) = k
  BY <1>1
<1>3. PICK t \in Seq(S), c \in S : s = Append(t, c)
  BY <1>2, SequenceEmptyOrAppend
<1>4. Len(t) + 1 = k /\ Len(t) \in Nat
  BY <1>2, <1>3
<1>5. t \in G
  <2> SUFFICES ASSUME t \notin G PROVE FALSE
    OBVIOUS
  <2>1. Len(t) \in Bad
    OBVIOUS
  <2> QED
    BY <1>1, <1>4, <2>1
<1> QED
  BY <1>2, <1>3, <1>5

(* Concatenation from the right.                                           *)
LEMMA ConcatAppend ==
    ASSUME NEW S, NEW s \in Seq(S), NEW t \in Seq(S), NEW c \in S
    PROVE  s \o Append(t, c) = Append(s \o t, c)
<1>1. <<c>> \in Seq(S) /\ s \o t \in Seq(S)
  OBVIOUS
<1>2. s \o (t \o <<c>>) = (s \o t) \o <<c>>
  BY <1>1, ConcatAssociative
<1> QED
  BY <1>1, <1>2, AppendIsConcat

(* Fields have characters, none of which is the delimiter.                 *)
Fields(S) == Seq(S) \ {<<>>}

Readings(S) == [fields : Seq(Fields(S)), field : Seq(S)]

LEMMA PushedType ==
    ASSUME NEW S, NEW r \in Readings(S)
    PROVE  Pushed(r) \in Seq(Fields(S))
  BY DEF Pushed, Fields, Readings

LEMMA ReadType ==
    ASSUME NEW S, NEW str \in Seq(S), NEW d
    PROVE  Read(str, d) \in Readings(S \ {d})
<1> DEFINE R == Readings(S \ {d})
           G == {s \in Seq(S) : Read(s, d) \in R}
<1>1. <<>> \in G
  <2>1. <<>> \in Seq(S \ {d}) /\ <<>> \in Seq(Fields(S \ {d})) /\ <<>> \in Seq(S)
    BY EmptySeq
  <2>2. NothingRead \in R
    BY <2>1 DEF NothingRead, Readings
  <2>3. Read(<<>>, d) = NothingRead
    BY ReadNothing
  <2> QED
    BY <2>1, <2>2, <2>3
<1>2. ASSUME NEW s \in Seq(S), NEW c \in S, s \in G
      PROVE  Append(s, c) \in G
  <2>1. PICK r \in R : r = Read(s, d)
    BY <1>2
  <2>2. Pushed(r) \in Seq(Fields(S \ {d}))
    BY PushedType
  <2>3. ReadCharacter(r, c, d) \in R
    <3>1. CASE c = d
      BY <2>2, <3>1, EmptySeq DEF ReadCharacter, Readings
    <3>2. CASE c # d
      BY <3>2 DEF ReadCharacter, Readings
    <3> QED
      BY <3>1, <3>2
  <2>4. Read(Append(s, c), d) \in R
    BY <2>1, <2>3, ReadAppend
  <2> QED
    BY <2>4
<1> HIDE DEF G
<1>3. \A s \in Seq(S) : s \in G
  BY <1>1, <1>2, StringInduction
<1> QED
  BY <1>3 DEF G

LEMMA SplitType ==
    ASSUME NEW S, NEW str \in Seq(S), NEW d
    PROVE  Split(str, d) \in Seq(Fields(S \ {d}))
  BY ReadType, PushedType DEF Split

(* A string without the delimiter is one field.                            *)
LEMMA ReadFree ==
    ASSUME NEW S, NEW str \in Seq(S), NEW d, d \notin S
    PROVE  Read(str, d) = [fields |-> <<>>, field |-> str]
<1> DEFINE G == {s \in Seq(S) : Read(s, d) = [fields |-> <<>>, field |-> s]}
<1>1. <<>> \in G
  BY ReadNothing DEF NothingRead
<1>2. ASSUME NEW s \in Seq(S), NEW c \in S, s \in G
      PROVE  Append(s, c) \in G
  BY <1>2, ReadAppend DEF ReadCharacter
<1> HIDE DEF G
<1>3. \A s \in Seq(S) : s \in G
  BY <1>1, <1>2, StringInduction
<1> QED
  BY <1>3 DEF G

LEMMA SplitFree ==
    ASSUME NEW S, NEW str \in Seq(S), NEW d, d \notin S
    PROVE  Split(str, d) = IF str = <<>> THEN <<>> ELSE <<str>>
<1>1. Read(str, d) = [fields |-> <<>>, field |-> str]
  BY ReadFree
<1>2. Append(<<>>, str) = <<str>>
  OBVIOUS
<1> QED
  BY <1>1, <1>2 DEF Split, Pushed

(* What is read after the fields h.                                        *)
Behind(h, r) == [fields |-> h \o r.fields, field |-> r.field]

LEMMA PushedBehind ==
    ASSUME NEW S, NEW h \in Seq(Fields(S)), NEW r \in Readings(S)
    PROVE  Pushed(Behind(h, r)) = h \o Pushed(r)
<1>1. r.fields \in Seq(Fields(S)) /\ r.field \in Seq(S)
  BY DEF Readings
<1>2. CASE r.field = <<>>
  BY <1>2 DEF Pushed, Behind
<1>3. CASE r.field # <<>>
  <2>1. r.field \in Fields(S)
    BY <1>1, <1>3 DEF Fields
  <2>2. h \o Append(r.fields, r.field) = Append(h \o r.fields, r.field)
    BY <1>1, <2>1, ConcatAppend
  <2> QED
    BY <1>3, <2>2 DEF Pushed, Behind
<1> QED
  BY <1>2, <1>3

LEMMA ReadBehind ==
    ASSUME NEW S, NEW h \in Seq(Fields(S)), NEW r \in Readings(S), NEW c, NEW d
    PROVE  ReadCharacter(Behind(h, r), c, d) = Behind(h, ReadCharacter(r, c, d))
<1>1. CASE c = d
  BY <1>1, PushedBehind DEF ReadCharacter, Behind
<1>2. CASE c # d
  BY <1>2 DEF ReadCharacter, Behind
<1> QED
  BY <1>1, <1>2

(* A delimiter is where what comes before and after may be read apart.     *)
LEMMA ReadConcat ==
    ASSUME NEW S, NEW left \in Seq(S), NEW right \in Seq(S), NEW d \in S
    PROVE  Read(Append(left, d) \o right, d) = Behind(Split(left, d), Read(right, d))
<1>0. PICK h \in Seq(Fields(S \ {d})) : h = Split(left, d)
  BY SplitType
<1>1. PICK first \in Seq(S) : first = Append(left, d)
  BY AppendProperties
<1> DEFINE G == {s \in Seq(S) : Read(first \o s, d) = Behind(h, Read(s, d))}
<1>2. <<>> \in G
  <2>1. first \o <<>> = first /\ h \o <<>> = h /\ <<>> \in Seq(S)
    BY <1>0, <1>1, ConcatEmptySeq, EmptySeq
  <2>2. Read(first, d) = [fields |-> h, field |-> <<>>]
    BY <1>0, <1>1, ReadAppend DEF ReadCharacter, Split
  <2>3. Behind(h, NothingRead) = [fields |-> h, field |-> <<>>]
    BY <2>1 DEF NothingRead, Behind
  <2>4. Read(<<>>, d) = NothingRead
    BY ReadNothing
  <2> QED
    BY <2>1, <2>2, <2>3, <2>4
<1>3. ASSUME NEW s \in Seq(S), NEW c \in S, s \in G
      PROVE  Append(s, c) \in G
  <2>1. Read(s, d) \in Readings(S \ {d})
    BY ReadType
  <2>2. first \o Append(s, c) = Append(first \o s, c) /\ first \o s \in Seq(S)
    BY ConcatAppend
  <2>3. Read(first \o Append(s, c), d) = ReadCharacter(Behind(h, Read(s, d)), c, d)
    BY <1>3, <2>2, ReadAppend
  <2>4. Read(Append(s, c), d) = ReadCharacter(Read(s, d), c, d)
    BY ReadAppend
  <2>5. Append(s, c) \in Seq(S)
    OBVIOUS
  <2> QED
    BY <2>1, <2>3, <2>4, <2>5, ReadBehind
<1> HIDE DEF G
<1>4. \A s \in Seq(S) : s \in G
  BY <1>2, <1>3, StringInduction
<1> QED
  BY <1>0, <1>1, <1>4 DEF G

LEMMA SplitConcat ==
    ASSUME NEW S, NEW left \in Seq(S), NEW right \in Seq(S), NEW d \in S
    PROVE  Split(Append(left, d) \o right, d) = Split(left, d) \o Split(right, d)
<1>1. Read(right, d) \in Readings(S \ {d}) /\ Split(left, d) \in Seq(Fields(S \ {d}))
  BY ReadType, SplitType
<1>2. Read(Append(left, d) \o right, d) = Behind(Split(left, d), Read(right, d))
  BY ReadConcat
<1> QED
  BY <1>1, <1>2, PushedBehind DEF Split

LEMMA FlattenType ==
    ASSUME NEW T, NEW ss \in Seq(Seq(T))
    PROVE  FlattenSeq(ss) \in Seq(T)
<1> DEFINE G == {s \in Seq(Seq(T)) : FlattenSeq(s) \in Seq(T)}
<1>1. <<>> \in G
  <2>1. <<>> \in Seq(Seq(T)) /\ <<>> \in Seq(T)
    BY EmptySeq
  <2>2. FlattenSeq(<<>>) = <<>>
    BY <2>1, FlattenAppend
  <2> QED
    BY <2>1, <2>2
<1>2. ASSUME NEW s \in Seq(Seq(T)), NEW x \in Seq(T), s \in G
      PROVE  Append(s, x) \in G
  <2>1. FlattenSeq(Append(s, x)) = FlattenSeq(s) \o x
    BY FlattenAppend
  <2>2. FlattenSeq(s) \o x \in Seq(T)
    BY <1>2, ConcatProperties
  <2>3. Append(s, x) \in Seq(Seq(T))
    BY AppendProperties
  <2> QED
    BY <2>1, <2>2, <2>3
<1> HIDE DEF G
<1>3. \A s \in Seq(Seq(T)) : s \in G
  BY <1>1, <1>2, StringInduction
<1> QED
  BY <1>3 DEF G

LEMMA FlattenConcat ==
    ASSUME NEW T, NEW ss \in Seq(Seq(T)), NEW tt \in Seq(Seq(T))
    PROVE  FlattenSeq(ss \o tt) = FlattenSeq(ss) \o FlattenSeq(tt)
<1> DEFINE G == {s \in Seq(Seq(T)) :
                    FlattenSeq(ss \o s) = FlattenSeq(ss) \o FlattenSeq(s)}
<1>0. FlattenSeq(ss) \in Seq(T)
  BY FlattenType
<1>1. <<>> \in G
  <2>1. <<>> \in Seq(Seq(T)) /\ <<>> \in Seq(T)
    BY EmptySeq
  <2>2. FlattenSeq(<<>>) = <<>>
    BY <2>1, FlattenAppend
  <2>3. ss \o <<>> = ss
    BY ConcatEmptySeq
  <2>4. FlattenSeq(ss) \o <<>> = FlattenSeq(ss)
    BY <1>0, ConcatEmptySeq
  <2> QED
    BY <2>1, <2>2, <2>3, <2>4
<1>2. ASSUME NEW s \in Seq(Seq(T)), NEW x \in Seq(T), s \in G
      PROVE  Append(s, x) \in G
  <2>1. Append(s, x) \in Seq(Seq(T)) /\ ss \o s \in Seq(Seq(T))
    BY AppendProperties, ConcatProperties
  <2>2. ss \o Append(s, x) = Append(ss \o s, x)
    BY ConcatAppend
  <2>3. FlattenSeq(Append(ss \o s, x)) = FlattenSeq(ss \o s) \o x
    BY <2>1, FlattenAppend
  <2>4. FlattenSeq(Append(s, x)) = FlattenSeq(s) \o x
    BY FlattenAppend
  <2>5. (FlattenSeq(ss) \o FlattenSeq(s)) \o x = FlattenSeq(ss) \o (FlattenSeq(s) \o x)
    <3>1. PICK a \in Seq(T) : a = FlattenSeq(ss)
      BY <1>0
    <3>2. PICK b \in Seq(T) : b = FlattenSeq(s)
      BY FlattenType
    <3>3. (a \o b) \o x = a \o (b \o x)
      BY ConcatAssociative
    <3> QED
      BY <3>1, <3>2, <3>3
  <2> QED
    BY <1>2, <2>1, <2>2, <2>3, <2>4, <2>5
<1> HIDE DEF G
<1>3. \A s \in Seq(Seq(T)) : s \in G
  BY <1>1, <1>2, StringInduction
<1> QED
  BY <1>3 DEF G

LEMMA FlattenOne ==
    ASSUME NEW T, NEW x \in Seq(T)
    PROVE  FlattenSeq(<<x>>) = x /\ FlattenSeq(<<>>) = <<>>
<1>1. <<>> \in Seq(Seq(T)) /\ <<x>> = Append(<<>>, x)
  BY EmptySeq
<1>2. FlattenSeq(<<x>>) = <<>> \o x /\ FlattenSeq(<<>>) = <<>>
  BY <1>1, FlattenAppend
<1> QED
  BY <1>2, ConcatEmptySeq

-----------------------------------------------------------------------------
(* Letters                                                                 *)

Letter(c) == IF c \in Letters THEN <<c>> ELSE <<>>

LEMMA LettersAppend ==
    ASSUME NEW S, NEW s \in Seq(S), NEW c \in S
    PROVE  /\ LettersOf(Append(s, c)) = LettersOf(s) \o Letter(c)
           /\ LettersOf(s) \in Seq(Letters)
           /\ LettersOf(<<>>) = <<>>
<1>1. PICK t \in Seq(S) : t = Append(s, c)
  BY AppendProperties
<1>2. PICK n \in Nat : n = Len(s)
  OBVIOUS
<1> DEFINE M(u) == [i \in DOMAIN u |-> IF u[i] \in Letters THEN <<u[i]>> ELSE <<>>]
<1>3. ASSUME NEW u \in Seq(S)
      PROVE  M(u) \in Seq(Seq(Letters)) /\ Len(M(u)) = Len(u)
  <2>1. DOMAIN u = 1..Len(u) /\ Len(u) \in Nat
    OBVIOUS
  <2>2. ASSUME NEW i \in 1..Len(u)
        PROVE  (IF u[i] \in Letters THEN <<u[i]>> ELSE <<>>) \in Seq(Letters)
    BY EmptySeq
  <2> QED
    BY <2>1, <2>2
<1>4. Letter(c) \in Seq(Letters)
  BY EmptySeq DEF Letter
<1>5. M(t) = Append(M(s), Letter(c))
  <2>1. /\ Len(t) = n + 1 /\ t[n + 1] = c /\ DOMAIN t = 1..(n + 1)
        /\ \A i \in 1..n : t[i] = s[i]
    BY <1>1, <1>2
  <2>2. PICK ms \in Seq(Seq(Letters)) : ms = M(s)
    BY <1>3
  <2>3. PICK mt \in Seq(Seq(Letters)) : mt = M(t)
    BY <1>3
  <2>4. Len(ms) = n /\ Len(mt) = n + 1
    BY <1>2, <1>3, <2>1, <2>2, <2>3
  <2>5. \A i \in 1..n : mt[i] = ms[i]
    BY <1>2, <2>1, <2>2, <2>3
  <2>6. mt[n + 1] = Letter(c)
    BY <2>1, <2>3 DEF Letter
  <2> HIDE DEF M
  <2>7. mt = Append(ms, Letter(c))
    BY <1>4, <2>4, <2>5, <2>6
  <2> QED
    BY <2>2, <2>3, <2>7
<1>6. LettersOf(t) = FlattenSeq(M(t)) /\ LettersOf(s) = FlattenSeq(M(s))
  BY DEF LettersOf
<1>7. LettersOf(<<>>) = FlattenSeq(<<>>)
  <2>1. <<>> \in Seq(S) /\ LettersOf(<<>>) = FlattenSeq(M(<<>>))
    BY EmptySeq DEF LettersOf
  <2>2. M(<<>>) = <<>>
    BY <1>3, <2>1, EmptySeq
  <2> QED
    BY <2>1, <2>2
<1> HIDE DEF M
<1>8. FlattenSeq(Append(M(s), Letter(c))) = FlattenSeq(M(s)) \o Letter(c)
  BY <1>3, <1>4, FlattenAppend
<1>9. FlattenSeq(M(s)) \in Seq(Letters)
  BY <1>3, FlattenType
<1>10. FlattenSeq(<<>>) = <<>>
  BY <1>3, <1>4, FlattenAppend
<1> QED
  BY <1>1, <1>5, <1>6, <1>7, <1>8, <1>9, <1>10

LEMMA LettersType ==
    ASSUME NEW S, NEW s \in Seq(S)
    PROVE  LettersOf(s) \in Seq(Letters) /\ LettersOf(<<>>) = <<>>
<1>1. s \in Seq(S \cup {" "}) /\ " " \in S \cup {" "}
  BY SeqMonotonic
<1> QED
  BY <1>1, LettersAppend

LEMMA LettersConcat ==
    ASSUME NEW S, NEW s \in Seq(S), NEW t \in Seq(S)
    PROVE  LettersOf(s \o t) = LettersOf(s) \o LettersOf(t)
<1> DEFINE G == {u \in Seq(S) : LettersOf(s \o u) = LettersOf(s) \o LettersOf(u)}
<1>0. LettersOf(s) \in Seq(Letters) /\ LettersOf(<<>>) = <<>>
  BY LettersType
<1>1. <<>> \in G
  <2>1. <<>> \in Seq(S) /\ s \o <<>> = s
    BY EmptySeq, ConcatEmptySeq
  <2>2. LettersOf(s) \o <<>> = LettersOf(s)
    BY <1>0, ConcatEmptySeq
  <2> QED
    BY <1>0, <2>1, <2>2
<1>2. ASSUME NEW u \in Seq(S), NEW c \in S, u \in G
      PROVE  Append(u, c) \in G
  <2>1. Append(u, c) \in Seq(S) /\ s \o u \in Seq(S)
    BY AppendProperties, ConcatProperties
  <2>2. s \o Append(u, c) = Append(s \o u, c)
    BY ConcatAppend
  <2>3. LettersOf(Append(s \o u, c)) = LettersOf(s \o u) \o Letter(c)
    BY <2>1, LettersAppend
  <2>4. LettersOf(Append(u, c)) = LettersOf(u) \o Letter(c)
    BY LettersAppend
  <2>5. (LettersOf(s) \o LettersOf(u)) \o Letter(c)
          = LettersOf(s) \o (LettersOf(u) \o Letter(c))
    <3>1. LettersOf(u) \in Seq(Letters) /\ Letter(c) \in Seq(Letters)
      BY LettersType, EmptySeq DEF Letter
    <3> QED
      BY <1>0, <3>1, ConcatAssociative, SMTT(30)
  <2> QED
    BY <1>2, <2>1, <2>2, <2>3, <2>4, <2>5
<1> HIDE DEF G
<1>3. \A u \in Seq(S) : u \in G
  BY <1>1, <1>2, StringInduction
<1> QED
  BY <1>3 DEF G

(* A delimiter is no letter, so the fields have the letters of the string. *)
LEMMA SplitLetters ==
    ASSUME NEW S, NEW str \in Seq(S), NEW d, d \notin Letters
    PROVE  LettersOf(FlattenSeq(Split(str, d))) = LettersOf(str)
<1> DEFINE Kept(s) == LettersOf(FlattenSeq(Read(s, d).fields)) \o LettersOf(Read(s, d).field)
           G == {s \in Seq(S) : Kept(s) = LettersOf(s)}
<1>0. ASSUME NEW r \in Readings(S)
      PROVE  /\ FlattenSeq(r.fields) \in Seq(S) /\ r.field \in Seq(S)
             /\ LettersOf(FlattenSeq(Pushed(r)))
                   = LettersOf(FlattenSeq(r.fields)) \o LettersOf(r.field)
  <2>1. r.fields \in Seq(Seq(S)) /\ r.field \in Seq(S)
    <3>1. Fields(S) \subseteq Seq(S)
      BY DEF Fields
    <3> QED
      BY <3>1, SeqMonotonic DEF Readings
  <2>2. FlattenSeq(r.fields) \in Seq(S)
    BY <2>1, FlattenType
  <2>3. CASE r.field = <<>>
    <3>1. LettersOf(r.field) = <<>> /\ LettersOf(FlattenSeq(r.fields)) \in Seq(Letters)
      BY <2>2, <2>3, LettersType
    <3> QED
      BY <2>1, <2>2, <2>3, <3>1, ConcatEmptySeq DEF Pushed
  <2>4. CASE r.field # <<>>
    <3>1. FlattenSeq(Append(r.fields, r.field)) = FlattenSeq(r.fields) \o r.field
      BY <2>1, FlattenAppend
    <3> QED
      BY <2>1, <2>2, <2>4, <3>1, LettersConcat DEF Pushed
  <2> QED
    BY <2>1, <2>2, <2>3, <2>4
<1>1. ASSUME NEW s \in Seq(S)
      PROVE  Read(s, d) \in Readings(S)
  <2>1. Read(s, d) \in Readings(S \ {d})
    BY ReadType
  <2>2. Seq(S \ {d}) \subseteq Seq(S) /\ Seq(Fields(S \ {d})) \subseteq Seq(Fields(S))
    <3>1. Fields(S \ {d}) \subseteq Fields(S)
      BY SeqMonotonic DEF Fields
    <3> QED
      BY <3>1, SeqMonotonic
  <2> QED
    BY <2>1, <2>2 DEF Readings
<1>2. <<>> \in G
  <2>1. <<>> \in Seq(S) /\ <<>> \in Seq(Seq(S)) /\ <<>> \in Seq(Letters)
    BY EmptySeq
  <2>2. Read(<<>>, d).fields = <<>> /\ Read(<<>>, d).field = <<>>
    BY ReadNothing DEF NothingRead
  <2>3. FlattenSeq(<<>>) = <<>> /\ LettersOf(<<>>) = <<>> /\ <<>> \o <<>> = <<>>
    BY <2>1, FlattenOne, LettersType, ConcatEmptySeq
  <2> QED
    BY <2>1, <2>2, <2>3
<1>3. ASSUME NEW s \in Seq(S), NEW c \in S, s \in G
      PROVE  Append(s, c) \in G
  <2>1. PICK r \in Readings(S) : r = Read(s, d)
    BY <1>1
  <2>2. Read(Append(s, c), d) = ReadCharacter(r, c, d)
    BY <2>1, ReadAppend
  <2>3. LettersOf(Append(s, c)) = Kept(s) \o Letter(c)
    BY <1>3, LettersAppend
  <2>4. Append(s, c) \in Seq(S)
    BY AppendProperties
  <2>5. PICK l \in Seq(Letters) : l = LettersOf(FlattenSeq(r.fields))
    BY <1>0, LettersType
  <2>6. PICK k \in Seq(Letters) : k = LettersOf(r.field)
    BY <1>0, LettersType
  <2>7. Kept(s) = l \o k
    BY <2>1, <2>5, <2>6
  <2>8. Kept(Append(s, c)) = (l \o k) \o Letter(c)
    <3>1. CASE c = d
      <4>1. /\ ReadCharacter(r, c, d).fields = Pushed(r)
            /\ ReadCharacter(r, c, d).field = <<>>
        BY <3>1 DEF ReadCharacter
      <4>2. LettersOf(<<>>) = <<>> /\ Letter(c) = <<>>
        BY <2>4, <3>1, LettersType DEF Letter
      <4>3. LettersOf(FlattenSeq(Pushed(r))) = l \o k /\ l \o k \in Seq(Letters)
        BY <1>0, <2>5, <2>6, ConcatProperties
      <4> QED
        BY <2>2, <4>1, <4>2, <4>3
    <3>2. CASE c # d
      <4>1. /\ ReadCharacter(r, c, d).fields = r.fields
            /\ ReadCharacter(r, c, d).field = Append(r.field, c)
        BY <3>2 DEF ReadCharacter
      <4>2. LettersOf(Append(r.field, c)) = k \o Letter(c)
        BY <1>0, <2>6, LettersAppend
      <4>3. Letter(c) \in Seq(Letters)
        BY EmptySeq DEF Letter
      <4>4. l \o (k \o Letter(c)) = (l \o k) \o Letter(c)
        BY <4>3, ConcatAssociative, SMTT(30)
      <4> QED
        BY <2>2, <2>5, <4>1, <4>2, <4>4
    <3> QED
      BY <3>1, <3>2
  <2> HIDE DEF Kept
  <2> QED
    BY <2>3, <2>4, <2>7, <2>8
<1> HIDE DEF G
<1>4. \A s \in Seq(S) : s \in G
  BY <1>2, <1>3, StringInduction
<1>5. LettersOf(FlattenSeq(Pushed(Read(str, d)))) = Kept(str)
  BY <1>0, <1>1
<1> QED
  BY <1>4, <1>5 DEF G, Split

-----------------------------------------------------------------------------
(* Words                                                                   *)

LEMMA FlattenHead ==
    ASSUME NEW T, NEW ss \in Seq(Seq(T)), ss # <<>>
    PROVE  FlattenSeq(ss) = Head(ss) \o FlattenSeq(Tail(ss))
<1>1. Head(ss) \in Seq(T) /\ Tail(ss) \in Seq(Seq(T)) /\ <<Head(ss)>> \in Seq(Seq(T))
  BY HeadTailProperties
<1>2. ss = <<Head(ss)>> \o Tail(ss)
  OBVIOUS
<1>3. FlattenSeq(<<Head(ss)>> \o Tail(ss)) = FlattenSeq(<<Head(ss)>>) \o FlattenSeq(Tail(ss))
  BY <1>1, FlattenConcat
<1>4. FlattenSeq(<<Head(ss)>>) = Head(ss)
  BY <1>1, FlattenOne
<1> QED
  BY <1>2, <1>3, <1>4

(* What a word is read as.                                                 *)
Pieces(w) == IF "," \in Range(w) THEN Split(w, ",") ELSE <<w>>

LEMMA PiecesType ==
    ASSUME NEW S, NEW w \in Seq(S)
    PROVE  Pieces(w) \in Seq(Seq(S))
<1>1. <<w>> \in Seq(Seq(S))
  OBVIOUS
<1>2. Split(w, ",") \in Seq(Seq(S))
  <2>1. Split(w, ",") \in Seq(Fields(S \ {","}))
    BY SplitType
  <2>2. Fields(S \ {","}) \subseteq Seq(S)
    BY SeqMonotonic DEF Fields
  <2> QED
    BY <2>1, <2>2, SeqMonotonic
<1> QED
  BY <1>1, <1>2 DEF Pieces

LEMMA ParametersAppend ==
    ASSUME NEW S, NEW ws \in Seq(Seq(S)), NEW w \in Seq(S)
    PROVE  /\ Parameters(Append(ws, w)) = Parameters(ws) \o Pieces(w)
           /\ Parameters(ws) \in Seq(Seq(S))
           /\ Parameters(<<>>) = <<>>
<1>1. PICK t \in Seq(Seq(S)) : t = Append(ws, w)
  BY AppendProperties
<1>2. PICK n \in Nat : n = Len(ws)
  OBVIOUS
<1> DEFINE M(u) == [i \in DOMAIN u |-> Pieces(u[i])]
<1>3. ASSUME NEW u \in Seq(Seq(S))
      PROVE  M(u) \in Seq(Seq(Seq(S))) /\ Len(M(u)) = Len(u)
  <2>1. DOMAIN u = 1..Len(u) /\ Len(u) \in Nat
    OBVIOUS
  <2>2. \A i \in 1..Len(u) : Pieces(u[i]) \in Seq(Seq(S))
    BY PiecesType
  <2> QED
    BY <2>1, <2>2
<1>4. Pieces(w) \in Seq(Seq(S))
  BY PiecesType
<1>5. M(t) = Append(M(ws), Pieces(w))
  <2>1. /\ Len(t) = n + 1 /\ t[n + 1] = w /\ DOMAIN t = 1..(n + 1)
        /\ \A i \in 1..n : t[i] = ws[i]
    BY <1>1, <1>2
  <2>2. PICK ms \in Seq(Seq(Seq(S))) : ms = M(ws)
    BY <1>3
  <2>3. PICK mt \in Seq(Seq(Seq(S))) : mt = M(t)
    BY <1>3
  <2>4. Len(ms) = n /\ Len(mt) = n + 1
    BY <1>2, <1>3, <2>1, <2>2, <2>3
  <2>5. \A i \in 1..n : mt[i] = ms[i]
    BY <1>2, <2>1, <2>2, <2>3
  <2>6. mt[n + 1] = Pieces(w)
    BY <2>1, <2>3
  <2> HIDE DEF M
  <2>7. mt = Append(ms, Pieces(w))
    BY <1>4, <2>4, <2>5, <2>6
  <2> QED
    BY <2>2, <2>3, <2>7
<1>6. Parameters(t) = FlattenSeq(M(t)) /\ Parameters(ws) = FlattenSeq(M(ws))
  BY DEF Parameters, Pieces
<1>7. Parameters(<<>>) = FlattenSeq(<<>>)
  <2>1. <<>> \in Seq(Seq(S)) /\ Parameters(<<>>) = FlattenSeq(M(<<>>))
    BY EmptySeq DEF Parameters, Pieces
  <2>2. M(<<>>) = <<>>
    BY <1>3, <2>1, EmptySeq
  <2> QED
    BY <2>1, <2>2
<1> HIDE DEF M
<1>8. FlattenSeq(Append(M(ws), Pieces(w))) = FlattenSeq(M(ws)) \o Pieces(w)
  BY <1>3, <1>4, FlattenAppend
<1>9. FlattenSeq(M(ws)) \in Seq(Seq(S))
  BY <1>3, FlattenType
<1>10. FlattenSeq(<<>>) = <<>>
  BY <1>3, <1>4, FlattenAppend
<1> QED
  BY <1>1, <1>5, <1>6, <1>7, <1>8, <1>9, <1>10

LEMMA ParametersType ==
    ASSUME NEW S, NEW ws \in Seq(Seq(S))
    PROVE  Parameters(ws) \in Seq(Seq(S)) /\ Parameters(<<>>) = <<>>
<1>1. <<>> \in Seq(S)
  BY EmptySeq
<1> QED
  BY <1>1, ParametersAppend

(* The comma is no letter.                                                 *)
LEMMA PiecesLetters ==
    ASSUME NEW S, NEW w \in Seq(S)
    PROVE  LettersOf(FlattenSeq(Pieces(w))) = LettersOf(w)
<1>1. "," \notin Letters
  BY LettersAssumption
<1> QED
  BY <1>1, SplitLetters, FlattenOne DEF Pieces

LEMMA ParametersLetters ==
    ASSUME NEW S, NEW words \in Seq(Seq(S))
    PROVE  LettersOf(FlattenSeq(Parameters(words))) = LettersOf(FlattenSeq(words))
<1> DEFINE P(ws) == LettersOf(FlattenSeq(Parameters(ws)))
           G == {ws \in Seq(Seq(S)) : P(ws) = LettersOf(FlattenSeq(ws))}
<1>1. <<>> \in G
  <2>1. <<>> \in Seq(Seq(S)) /\ Parameters(<<>>) = <<>>
    BY EmptySeq, ParametersType
  <2> QED
    BY <2>1
<1>2. ASSUME NEW ws \in Seq(Seq(S)), NEW w \in Seq(S), ws \in G
      PROVE  Append(ws, w) \in G
  <2>1. Append(ws, w) \in Seq(Seq(S))
    BY AppendProperties
  <2>2. PICK p \in Seq(Seq(S)) : p = Parameters(ws)
    BY ParametersType
  <2>3. PICK q \in Seq(Seq(S)) : q = Pieces(w)
    BY PiecesType
  <2>4. Parameters(Append(ws, w)) = p \o q
    BY <2>2, <2>3, ParametersAppend
  <2>5. FlattenSeq(p \o q) = FlattenSeq(p) \o FlattenSeq(q)
    BY FlattenConcat
  <2>6. LettersOf(FlattenSeq(p) \o FlattenSeq(q))
          = LettersOf(FlattenSeq(p)) \o LettersOf(FlattenSeq(q))
    <3>1. FlattenSeq(p) \in Seq(S) /\ FlattenSeq(q) \in Seq(S)
      BY FlattenType
    <3> QED
      BY <3>1, LettersConcat
  <2>7. LettersOf(FlattenSeq(q)) = LettersOf(w)
    BY <2>3, PiecesLetters
  <2>8. FlattenSeq(Append(ws, w)) = FlattenSeq(ws) \o w /\ FlattenSeq(ws) \in Seq(S)
    BY FlattenAppend, FlattenType
  <2>9. LettersOf(FlattenSeq(ws) \o w) = LettersOf(FlattenSeq(ws)) \o LettersOf(w)
    BY <2>8, LettersConcat
  <2> QED
    BY <1>2, <2>1, <2>2, <2>4, <2>5, <2>6, <2>7, <2>8, <2>9
<1> HIDE DEF G
<1>3. \A ws \in Seq(Seq(S)) : ws \in G
  BY <1>1, <1>2, StringInduction
<1> QED
  BY <1>3 DEF G

-----------------------------------------------------------------------------
(* Lines                                                                   *)

(* The words from the command on.                                          *)
Named(words, isPrefix) == IF isPrefix /\ words # <<>> THEN Tail(words) ELSE words

LEMMA UtilityParts ==
    ASSUME NEW T, Nickname \in Fields(T), NEW words \in Seq(Fields(T)), NEW isPrefix
    PROVE  LET u == Utility(words, isPrefix)
               named == Named(words, isPrefix)
           IN  /\ u = [prefix |-> u.prefix, command |-> u.command,
                       parameters |-> u.parameters]
               /\ named \in Seq(Fields(T))
               /\ u.prefix = IF isPrefix /\ words # <<>> THEN Head(words) ELSE Nickname
               /\ u.prefix \in Fields(T)
               /\ named = <<>> => u.command = <<>> /\ u.parameters = <<>>
               /\ named # <<>> => /\ u.command = Head(named)
                                  /\ u.parameters = Parameters(Tail(named))
               /\ u.command \in Seq(T)
               /\ u.parameters \in Seq(Seq(T))
<1> DEFINE u == Utility(words, isPrefix)
           named == Named(words, isPrefix)
<1>1. /\ u = [prefix |-> IF isPrefix /\ words # <<>> THEN Head(words) ELSE Nickname,
              command    |-> IF named = <<>> THEN <<>> ELSE Head(named),
              parameters |-> IF named = <<>> THEN <<>> ELSE Parameters(Tail(named))]
  BY DEF Utility, Named
<1>2. /\ u.prefix = IF isPrefix /\ words # <<>> THEN Head(words) ELSE Nickname
      /\ named = <<>> => u.command = <<>> /\ u.parameters = <<>>
      /\ named # <<>> => u.command = Head(named) /\ u.parameters = Parameters(Tail(named))
      /\ u = [prefix |-> u.prefix, command |-> u.command, parameters |-> u.parameters]
  BY <1>1
<1>3. named \in Seq(Fields(T))
  BY DEF Named
<1>4. Fields(T) \subseteq Seq(T)
  BY DEF Fields
<1> HIDE DEF u, named
<1>5. u.prefix \in Fields(T)
  <2>1. words # <<>> => Head(words) \in Fields(T)
    BY HeadTailProperties
  <2> QED
    BY <1>2, <2>1
<1>6. u.command \in Seq(T)
  <2>1. named # <<>> => Head(named) \in Fields(T)
    BY <1>3, HeadTailProperties
  <2>2. <<>> \in Seq(T)
    BY EmptySeq
  <2> QED
    BY <1>2, <1>4, <2>1, <2>2
<1>7. u.parameters \in Seq(Seq(T))
  <2>1. named # <<>> => Tail(named) \in Seq(Seq(T))
    BY <1>3, <1>4, HeadTailProperties, SeqMonotonic
  <2>2. <<>> \in Seq(Seq(T))
    BY EmptySeq
  <2>3. \A ws \in Seq(Seq(T)) : Parameters(ws) \in Seq(Seq(T))
    BY ParametersType
  <2> QED
    BY <1>2, <2>1, <2>2, <2>3
<1> QED
  BY <1>2, <1>3, <1>5, <1>6, <1>7 DEF u, named

(* What a line without text is read as has the letters of its words.       *)
MessageLetters(msg) == LettersOf(msg.prefix \o msg.command \o FlattenSeq(msg.parameters))

LEMMA NicknameLetters == LettersOf(Nickname) = <<>>
<1>1. LettersOf(Append(<<>>, "nick")) = LettersOf(<<>>) \o Letter("nick")
  BY EmptySeq, LettersAppend
<1>2. Nickname = Append(<<>>, "nick") /\ Nickname[1] = "nick"
  BY DEF Nickname
<1>3. Letter("nick") = <<>>
  BY <1>2, NicknameAssumption DEF Letter
<1>4. LettersOf(<<>>) = <<>>
  BY EmptySeq, LettersType
<1> QED
  BY <1>1, <1>2, <1>3, <1>4

LEMMA UtilityLetters ==
    ASSUME NEW T, Nickname \in Fields(T), NEW words \in Seq(Fields(T)), NEW isPrefix
    PROVE  LET u == Utility(words, isPrefix)
           IN  /\ u.prefix \o u.command \o FlattenSeq(u.parameters) \in Seq(T)
               /\ MessageLetters(u) = LettersOf(FlattenSeq(words))
<1>1. PICK u : u = Utility(words, isPrefix)
  OBVIOUS
<1>2. PICK named : named = Named(words, isPrefix)
  OBVIOUS
<1>3. Fields(T) \subseteq Seq(T)
  BY DEF Fields
<1>4. /\ named \in Seq(Seq(T)) /\ words \in Seq(Seq(T))
      /\ u.prefix \in Seq(T) /\ u.command \in Seq(T) /\ u.parameters \in Seq(Seq(T))
      /\ u.prefix = IF isPrefix /\ words # <<>> THEN Head(words) ELSE Nickname
      /\ named = <<>> => u.command = <<>> /\ u.parameters = <<>>
      /\ named # <<>> => u.command = Head(named) /\ u.parameters = Parameters(Tail(named))
  BY <1>1, <1>2, <1>3, UtilityParts, SeqMonotonic
<1>5. PICK p \in Seq(T) : p = FlattenSeq(u.parameters)
  BY <1>4, FlattenType
<1>6. PICK l \in Seq(T) : l = FlattenSeq(named)
  BY <1>4, FlattenType
<1>7. LettersOf(u.command \o p) = LettersOf(l)
  <2>1. CASE named = <<>>
    <3>1. <<>> \in Seq(T) /\ FlattenSeq(<<>>) = <<>> /\ <<>> \o <<>> = <<>>
      BY EmptySeq, FlattenOne, ConcatEmptySeq
    <3> QED
      BY <1>4, <1>5, <1>6, <2>1, <3>1
  <2>2. CASE named # <<>>
    <3>1. PICK rest \in Seq(Seq(T)) : rest = Tail(named)
      BY <1>4, <2>2, HeadTailProperties
    <3>2. FlattenSeq(named) = u.command \o FlattenSeq(rest) /\ FlattenSeq(rest) \in Seq(T)
      BY <1>4, <2>2, <3>1, FlattenHead, FlattenType
    <3>3. LettersOf(p) = LettersOf(FlattenSeq(rest))
      BY <1>4, <1>5, <2>2, <3>1, ParametersLetters
    <3>4. LettersOf(u.command \o p) = LettersOf(u.command) \o LettersOf(p)
      BY <1>4, LettersConcat
    <3>5. LettersOf(u.command \o FlattenSeq(rest))
            = LettersOf(u.command) \o LettersOf(FlattenSeq(rest))
      BY <1>4, <3>2, LettersConcat
    <3> QED
      BY <1>6, <3>2, <3>3, <3>4, <3>5
  <2> QED
    BY <2>1, <2>2
<1>8. u.command \o p \in Seq(T) /\ u.prefix \o (u.command \o p) \in Seq(T)
  BY <1>4, ConcatProperties
<1>9. LettersOf(u.prefix \o (u.command \o p)) = LettersOf(u.prefix) \o LettersOf(l)
  <2>1. PICK x \in Seq(T) : x = u.prefix
    BY <1>4
  <2>2. PICK y \in Seq(T) : y = u.command \o p
    BY <1>8
  <2>3. LettersOf(x \o y) = LettersOf(x) \o LettersOf(y)
    BY LettersConcat
  <2> QED
    BY <1>7, <2>1, <2>2, <2>3
<1>10. LettersOf(u.prefix) \o LettersOf(l) = LettersOf(FlattenSeq(words))
  <2>1. CASE isPrefix /\ words # <<>>
    <3>1. named = Tail(words) /\ u.prefix = Head(words)
      BY <1>2, <1>4, <2>1 DEF Named
    <3>2. FlattenSeq(words) = u.prefix \o l
      BY <1>4, <1>6, <2>1, <3>1, FlattenHead
    <3> QED
      BY <1>4, <3>2, LettersConcat
  <2>2. CASE ~(isPrefix /\ words # <<>>)
    <3>1. named = words /\ u.prefix = Nickname
      BY <1>2, <1>4, <2>2 DEF Named
    <3>2. LettersOf(l) \in Seq(Letters)
      BY LettersType
    <3>3. <<>> \o LettersOf(l) = LettersOf(l)
      BY <3>2, ConcatEmptySeq
    <3> QED
      BY <1>6, <3>1, <3>3, NicknameLetters
  <2> QED
    BY <2>1, <2>2
<1>11. (u.prefix \o u.command) \o p = u.prefix \o (u.command \o p)
  <2>1. PICK x \in Seq(T) : x = u.prefix
    BY <1>4
  <2>2. PICK y \in Seq(T) : y = u.command
    BY <1>4
  <2>3. (x \o y) \o p = x \o (y \o p)
    BY ConcatAssociative, SMTT(30)
  <2> QED
    BY <2>1, <2>2, <2>3
<1> QED
  BY <1>1, <1>5, <1>8, <1>9, <1>10, <1>11 DEF MessageLetters

LEMMA Wider ==
    ASSUME NEW S, NEW T, S \subseteq T
    PROVE  /\ Seq(S) \subseteq Seq(T)
           /\ Seq(Seq(S)) \subseteq Seq(Seq(T))
           /\ Fields(S) \subseteq Fields(T) /\ Fields(S) \subseteq Seq(T)
           /\ Seq(Fields(S)) \subseteq Seq(Fields(T))
           /\ Seq(Fields(S)) \subseteq Seq(Seq(T))
<1>1. \A A, B : A \subseteq B => Seq(A) \subseteq Seq(B)
  BY SeqMonotonic
<1>2. Fields(S) \subseteq Fields(T) /\ Fields(S) \subseteq Seq(T)
  BY <1>1 DEF Fields
<1> QED
  BY <1>1, <1>2

(* The two ways _parse goes.                                               *)
Prefixed(str) == str # <<>> /\ Head(str) = ":"

LEMMA ParsePlain ==
    ASSUME NEW S, NEW str \in Seq(S), ":" \notin Range(str)
    PROVE  /\ str \in Seq(S \ {":"})
           /\ Split(str, " ") \in Seq(Fields(S \ {":", " "}))
           /\ Parse(str) = Utility(Split(str, " "), FALSE)
           /\ ~Prefixed(str)
<1>1. str \in Seq(S \ {":"})
  BY DEF Range
<1>2. (S \ {":"}) \ {" "} = S \ {":", " "}
  OBVIOUS
<1>3. Split(str, " ") \in Seq(Fields(S \ {":", " "}))
  BY <1>1, <1>2, SplitType
<1>4. ~Prefixed(str)
  <2> SUFFICES ASSUME Prefixed(str) PROVE FALSE
    OBVIOUS
  <2>1. 1 \in DOMAIN str /\ str[1] = ":"
    BY DEF Prefixed
  <2> QED
    BY <2>1 DEF Range
<1>5. Parse(str) = Utility(Split(str, " "), Prefixed(str))
  BY DEF Parse, Prefixed
<1>6. Prefixed(str) = FALSE
  BY <1>4 DEF Prefixed
<1> QED
  BY <1>1, <1>3, <1>5, <1>6

(* What _parse makes of the words before the text and the text.            *)
Composed(msg, words, isPrefix, text) ==
    /\ msg.prefix = Utility(words, isPrefix).prefix
    /\ msg.command = Utility(words, isPrefix).command
    /\ msg.parameters = Append(Utility(words, isPrefix).parameters, text)

LEMMA ParseText ==
    ASSUME NEW S, NEW str \in Seq(S), ":" \in Range(str), Split(str, ":") # <<>>
    PROVE  LET fields == Split(str, ":")
               words == Split(Head(fields), " ")
           IN  /\ fields \in Seq(Fields(S \ {":"}))
               /\ Head(fields) \in Fields(S \ {":"})
               /\ words \in Seq(Fields(S \ {":", " "}))
               /\ Text(fields) \in Seq(S \ {":"})
               /\ Parse(str) = [prefix     |-> Parse(str).prefix,
                                command    |-> Parse(str).command,
                                parameters |-> Parse(str).parameters]
               /\ Composed(Parse(str), words, Prefixed(str), Text(fields))
<1> DEFINE fields == Split(str, ":")
           words == Split(Head(fields), " ")
           u == Utility(words, Prefixed(str))
<1>1. fields \in Seq(Fields(S \ {":"}))
  BY SplitType
<1>2. Head(fields) \in Fields(S \ {":"}) /\ Tail(fields) \in Seq(Fields(S \ {":"}))
  BY <1>1, HeadTailProperties
<1>3. (S \ {":"}) \ {" "} = S \ {":", " "} /\ Fields(S \ {":"}) \subseteq Seq(S \ {":"})
  BY DEF Fields
<1>4. words \in Seq(Fields(S \ {":", " "}))
  BY <1>2, <1>3, SplitType
<1>5. Text(fields) \in Seq(S \ {":"})
  <2>1. Tail(fields) \in Seq(Seq(S \ {":"}))
    BY <1>2, Wider
  <2> QED
    BY <2>1, FlattenType DEF Text
<1>6. Parse(str) = [u EXCEPT !.parameters = Append(@, Text(fields))]
  BY DEF Parse, Prefixed
<1>7. u = [prefix |-> u.prefix, command |-> u.command, parameters |-> u.parameters]
  BY DEF Utility
<1> HIDE DEF u
<1>8. Parse(str) = [prefix |-> u.prefix, command |-> u.command,
                    parameters |-> Append(u.parameters, Text(fields))]
  BY <1>6, <1>7
<1>9. /\ Parse(str) = [prefix |-> Parse(str).prefix, command |-> Parse(str).command,
                       parameters |-> Parse(str).parameters]
      /\ Parse(str).prefix = u.prefix
      /\ Parse(str).command = u.command
      /\ Parse(str).parameters = Append(u.parameters, Text(fields))
  BY <1>8
<1> QED
  BY <1>1, <1>2, <1>4, <1>5, <1>9 DEF u, Composed

(* The prefix is a word, and no parameter has a colon in it.               *)
LEMMA ParseType ==
    ASSUME NEW S, Nickname \in Fields(S \ {":", " "}), NEW str \in Seq(S), Parsable(str)
    PROVE  /\ Parse(str).prefix \in Fields(S \ {":", " "})
           /\ Parse(str).parameters \in Seq(Seq(S \ {":"}))
<1>1. PICK W : W = S \ {":", " "}
  OBVIOUS
<1>2. PICK C : C = S \ {":"}
  OBVIOUS
<1>3. Seq(Seq(W)) \subseteq Seq(Seq(C))
  <2>1. W \subseteq C
    BY <1>1, <1>2
  <2> QED
    BY <2>1, Wider
<1>4. ASSUME NEW words \in Seq(Fields(W)), NEW isPrefix
      PROVE  /\ Utility(words, isPrefix).prefix \in Fields(W)
             /\ Utility(words, isPrefix).parameters \in Seq(Seq(C))
  BY <1>1, <1>3, UtilityParts
<1>5. CASE ":" \notin Range(str)
  <2>1. Split(str, " ") \in Seq(Fields(W)) /\ Parse(str) = Utility(Split(str, " "), FALSE)
    BY <1>1, <1>5, ParsePlain
  <2> QED
    BY <1>1, <1>2, <1>4, <2>1
<1>6. CASE ":" \in Range(str)
  <2>1. PICK words \in Seq(Fields(W)), text \in Seq(C) :
            Composed(Parse(str), words, Prefixed(str), text)
    BY <1>1, <1>2, <1>6, ParseText DEF Parsable
  <2>2. PICK params \in Seq(Seq(C)) : params = Utility(words, Prefixed(str)).parameters
    BY <1>4
  <2>3. Append(params, text) \in Seq(Seq(C))
    BY AppendProperties
  <2> QED
    BY <1>1, <1>2, <1>4, <2>1, <2>2, <2>3 DEF Composed
<1> QED
  BY <1>5, <1>6

(* With a name for \o the provers do not expand it.                        *)
Joined(s, t) == s \o t

LEMMA LettersJoined ==
    ASSUME NEW S, NEW x \in Seq(S), NEW y \in Seq(S), NEW z \in Seq(S)
    PROVE  LettersOf(Joined(x, Joined(y, z)))
             = Joined(LettersOf(Joined(x, y)), LettersOf(z))
<1>1. (x \o y) \o z = x \o (y \o z)
  BY ConcatAssociative
<1>2. x \o y \in Seq(S)
  BY ConcatProperties
<1> QED
  BY <1>1, <1>2, LettersConcat DEF Joined

(* The words of the first field, then the other fields.                    *)
LEMMA TextLetters ==
    ASSUME NEW S, NEW W \in SUBSET S, NEW C \in SUBSET S, Nickname \in Fields(W),
           NEW fields \in Seq(Fields(C)), fields # <<>>,
           NEW words \in Seq(Fields(W)),
           LettersOf(FlattenSeq(words)) = LettersOf(Head(fields)),
           NEW isPrefix, NEW msg, Composed(msg, words, isPrefix, Text(fields))
    PROVE  MessageLetters(msg) = LettersOf(FlattenSeq(fields))
<1>1. /\ Seq(W) \subseteq Seq(S) /\ Fields(W) \subseteq Seq(S)
      /\ Seq(Seq(W)) \subseteq Seq(Seq(S))
      /\ Seq(C) \subseteq Seq(S) /\ Fields(C) \subseteq Seq(S)
      /\ Seq(Fields(C)) \subseteq Seq(Seq(S))
  BY Wider
<1>2. PICK first \in Seq(S) : first = Head(fields)
  BY <1>1, HeadTailProperties
<1>3. PICK text \in Seq(S) : text = Text(fields)
  <2>1. Tail(fields) \in Seq(Seq(S))
    BY <1>1, HeadTailProperties
  <2> QED
    BY <2>1, FlattenType DEF Text
<1>4. PICK u : u = Utility(words, isPrefix)
  OBVIOUS
<1>5. u.prefix \in Fields(W) /\ u.command \in Seq(W) /\ u.parameters \in Seq(Seq(W))
  BY <1>4, UtilityParts
<1>6. PICK params \in Seq(Seq(S)) : params = u.parameters
  BY <1>1, <1>5
<1>7. PICK x \in Seq(S) : x = u.prefix \o u.command
  <2>1. u.prefix \in Seq(S) /\ u.command \in Seq(S)
    BY <1>1, <1>5
  <2> QED
    BY <2>1, ConcatProperties
<1>8. PICK p \in Seq(S) : p = FlattenSeq(params)
  BY FlattenType
<1>9. FlattenSeq(Append(params, text)) = p \o text
  BY <1>8, FlattenAppend
<1>10. MessageLetters(msg) = LettersOf(x \o (p \o text))
  BY <1>3, <1>4, <1>6, <1>7, <1>9 DEF MessageLetters, Composed
<1>11. LettersOf(x \o (p \o text)) = LettersOf(x \o p) \o LettersOf(text)
  <2>1. LettersOf(Joined(x, Joined(p, text)))
          = Joined(LettersOf(Joined(x, p)), LettersOf(text))
    BY LettersJoined
  <2> QED
    BY <2>1 DEF Joined
<1>12. LettersOf(x \o p) = LettersOf(first)
  BY <1>2, <1>4, <1>6, <1>7, <1>8, UtilityLetters DEF MessageLetters
<1>13. FlattenSeq(fields) = first \o text
  BY <1>1, <1>2, <1>3, FlattenHead DEF Text
<1>14. LettersOf(first \o text) = LettersOf(first) \o LettersOf(text)
  BY LettersConcat
<1> QED
  BY <1>10, <1>11, <1>12, <1>13, <1>14

LEMMA ParseLetters ==
    ASSUME NEW S, Nickname \in Fields(S \ {":", " "}), NEW str \in Seq(S), Parsable(str)
    PROVE  MessageLetters(Parse(str)) = LettersOf(str)
<1>1. ":" \notin Letters /\ " " \notin Letters
  BY LettersAssumption
<1>2. PICK W : W = S \ {":", " "}
  OBVIOUS
<1>3. PICK C : C = S \ {":"}
  OBVIOUS
<1>4. Nickname \in Fields(W) /\ W \subseteq S /\ C \subseteq S
  BY <1>2, <1>3
<1>5. /\ Seq(W) \subseteq Seq(S) /\ Fields(W) \subseteq Seq(S)
      /\ Seq(Seq(W)) \subseteq Seq(Seq(S))
      /\ Seq(C) \subseteq Seq(S) /\ Fields(C) \subseteq Seq(S)
      /\ Seq(Fields(C)) \subseteq Seq(Seq(S))
  BY <1>4, Wider
<1>6. CASE ":" \notin Range(str)
  <2>1. Split(str, " ") \in Seq(Fields(W)) /\ Parse(str) = Utility(Split(str, " "), FALSE)
    BY <1>2, <1>6, ParsePlain
  <2>2. MessageLetters(Parse(str)) = LettersOf(FlattenSeq(Split(str, " ")))
    BY <1>4, <2>1, UtilityLetters
  <2> QED
    BY <1>1, <2>2, SplitLetters
<1>7. CASE ":" \in Range(str)
  <2>1. PICK fields \in Seq(Fields(C)) : fields = Split(str, ":") /\ fields # <<>>
    BY <1>3, <1>7, ParseText DEF Parsable
  <2>2. PICK words \in Seq(Fields(W)) : words = Split(Head(fields), " ")
    BY <1>2, <1>7, <2>1, ParseText
  <2>3. LettersOf(FlattenSeq(words)) = LettersOf(Head(fields))
    <3>1. Head(fields) \in Seq(S)
      BY <1>5, <2>1, HeadTailProperties
    <3> QED
      BY <1>1, <2>2, <3>1, SplitLetters
  <2>4. PICK msg : msg = Parse(str)
    OBVIOUS
  <2>5. Composed(msg, words, Prefixed(str), Text(fields))
    BY <1>7, <2>1, <2>2, <2>4, ParseText
  <2>6. MessageLetters(msg) = LettersOf(FlattenSeq(fields))
    <3>1. PICK isPrefix : isPrefix = Prefixed(str)
      OBVIOUS
    <3> QED
      BY <1>4, <2>1, <2>3, <2>5, <3>1, TextLetters, ZenonT(60)
  <2>7. LettersOf(FlattenSeq(fields)) = LettersOf(str)
    BY <1>1, <2>1, SplitLetters
  <2> QED
    BY <2>4, <2>6, <2>7
<1> QED
  BY <1>6, <1>7

-----------------------------------------------------------------------------
(* What is typed                                                           *)

Characters == Letters \cup {":", ",", " "}

LEMMA LineType == Spec => [](line \in Seq(Characters))
<1>1. Init => line \in Seq(Characters)
  BY EmptySeq DEF Init
<1>2. line \in Seq(Characters) /\ [Next]_line => (line \in Seq(Characters))'
  <2> SUFFICES ASSUME line \in Seq(Characters), [Next]_line
               PROVE  line' \in Seq(Characters)
    OBVIOUS
  <2>1. ASSUME NEW c \in Characters, Type(c)
        PROVE  line' \in Seq(Characters)
    BY <2>1, AppendProperties DEF Type
  <2> QED
    BY <2>1 DEF Next, Characters
<1> QED
  BY <1>1, <1>2, PTL DEF Spec

(* Whatever line is typed, its letters are those of the message it is read *)
(* as, each once and in their order.                                       *)
THEOREM NoLetterLost == Spec => []LettersKept
<1>1. line \in Seq(Characters) => LettersKept
  <2> SUFFICES ASSUME line \in Seq(Characters), Parsable(line)
               PROVE  LettersOf(line) = MessageLetters(Parse(line))
    BY DEF LettersKept, MessageLetters
  <2>1. line \in Seq(Characters \cup {"nick"})
    BY SeqMonotonic
  <2>2. Nickname \in Fields((Characters \cup {"nick"}) \ {":", " "})
    BY DEF Nickname, Fields
  <2> QED
    BY <2>1, <2>2, ParseLetters
<1> QED
  BY <1>1, LineType, PTL

-----------------------------------------------------------------------------
(* The line the receivers read                                             *)

(* A delimiter at the end changes nothing.                                 *)
LEMMA SplitEnd ==
    ASSUME NEW S, NEW str \in Seq(S), NEW d \in S
    PROVE  Split(Append(str, d), d) = Split(str, d)
<1>1. Read(Append(str, d), d) = [fields |-> Split(str, d), field |-> <<>>]
  BY ReadAppend DEF ReadCharacter, Split
<1> QED
  BY <1>1 DEF Split, Pushed

LEMMA SplitWord ==
    ASSUME NEW S, NEW d, NEW x \in Fields(S \ {d})
    PROVE  Split(x, d) = <<x>> /\ x \in Seq(S)
<1>1. x \in Seq(S \ {d}) /\ x # <<>> /\ x \in Seq(S)
  BY SeqMonotonic DEF Fields
<1>2. d \notin S \ {d}
  OBVIOUS
<1> QED
  BY <1>1, <1>2, SplitFree

(* What comes before a delimiter, the delimiter and what comes after it.   *)
After(left, d, right) == Append(left, d) \o right

LEMMA SplitAfter ==
    ASSUME NEW S, NEW left \in Seq(S), NEW right \in Seq(S), NEW d \in S
    PROVE  /\ Split(After(left, d, right), d) = Joined(Split(left, d), Split(right, d))
           /\ After(left, d, right) \in Seq(S)
<1>1. Append(left, d) \o right \in Seq(S)
  BY AppendProperties, ConcatProperties
<1> QED
  BY <1>1, SplitConcat DEF After, Joined

LEMMA AppendFields ==
    ASSUME NEW x, NEW y, NEW z
    PROVE  /\ Append(<<x>>, y) = <<x, y>>
           /\ Append(<<x, y>>, z) = <<x, y, z>>
<1>1. PICK T : T = {x, y, z}
  OBVIOUS
<1>2. x \in T /\ y \in T /\ z \in T
  BY <1>1
<1>3. /\ <<x>> \in Seq(T) /\ Len(<<x>>) = 1
      /\ <<x, y>> \in Seq(T) /\ Len(<<x, y>>) = 2
      /\ <<x, y, z>> \in Seq(T) /\ Len(<<x, y, z>>) = 3
  BY <1>2
<1>4. Append(<<x>>, y) = <<x, y>>
  <2>1. PICK s \in Seq(T) : s = Append(<<x>>, y)
    BY <1>2, <1>3, AppendProperties
  <2>2. PICK t \in Seq(T) : t = <<x, y>>
    BY <1>3
  <2>3. Len(s) = 2 /\ s[1] = x /\ s[2] = y
    BY <2>1
  <2>4. Len(t) = 2 /\ t[1] = x /\ t[2] = y
    BY <2>2
  <2>5. s = t
    BY <2>3, <2>4, SeqEqual
  <2> QED
    BY <2>1, <2>2, <2>5
<1>5. Append(<<x, y>>, z) = <<x, y, z>>
  <2>1. PICK s \in Seq(T) : s = Append(<<x, y>>, z)
    BY <1>2, <1>3, AppendProperties
  <2>2. PICK t \in Seq(T) : t = <<x, y, z>>
    BY <1>3
  <2>3. Len(s) = 3 /\ s[1] = x /\ s[2] = y /\ s[3] = z
    BY <2>1
  <2>4. Len(t) = 3 /\ t[1] = x /\ t[2] = y /\ t[3] = z
    BY <2>2
  <2>5. s = t
    BY <2>3, <2>4, SeqEqual
  <2> QED
    BY <2>1, <2>2, <2>5
<1> QED
  BY <1>4, <1>5

LEMMA JoinedFields ==
    ASSUME NEW x, NEW y, NEW z
    PROVE  /\ Joined(<<x>>, <<>>) = <<x>>
           /\ Joined(<<x>>, <<y>>) = <<x, y>>
           /\ Joined(<<x, y>>, <<z>>) = <<x, y, z>>
<1>1. PICK T : T = {x, y, z}
  OBVIOUS
<1>2. <<x>> \in Seq(T) /\ <<x, y>> \in Seq(T) /\ y \in T /\ z \in T
  BY <1>1
<1>3. <<x>> \o <<>> = <<x>>
  BY <1>2, ConcatEmptySeq
<1>4. Append(<<x>>, y) = <<x>> \o <<y>> /\ Append(<<x, y>>, z) = <<x, y>> \o <<z>>
  BY <1>2, AppendIsConcat
<1>5. <<x>> \o <<y>> = <<x, y>>
  BY <1>4, AppendFields, Zenon
<1>6. <<x, y>> \o <<z>> = <<x, y, z>>
  BY <1>4, AppendFields, Zenon
<1> QED
  BY <1>3, <1>5, <1>6 DEF Joined

LEMMA SplitThree ==
    ASSUME NEW S, NEW d \in S, NEW x \in Fields(S \ {d}), NEW y \in Fields(S \ {d}),
           NEW z \in Fields(S \ {d})
    PROVE  /\ Split(Append(After(After(x, d, y), d, z), d), d) = <<x, y, z>>
           /\ Append(After(After(x, d, y), d, z), d) \in Seq(S)
<1>1. x \in Seq(S) /\ y \in Seq(S) /\ z \in Seq(S)
  BY SplitWord
<1>2. PICK v \in Seq(S) : v = After(x, d, y)
  BY <1>1, SplitAfter
<1>3. PICK w \in Seq(S) : w = After(v, d, z)
  BY <1>1, SplitAfter
<1>4. Split(Append(w, d), d) = Split(w, d)
  BY SplitEnd
<1>5. Split(w, d) = Joined(Split(v, d), <<z>>)
  <2>1. Split(w, d) = Joined(Split(v, d), Split(z, d))
    BY <1>1, <1>3, SplitAfter
  <2>2. Split(z, d) = <<z>>
    BY SplitWord
  <2> QED
    BY <2>1, <2>2
<1>6. Split(v, d) = Joined(<<x>>, <<y>>)
  <2>1. Split(v, d) = Joined(Split(x, d), Split(y, d))
    BY <1>1, <1>2, SplitAfter
  <2>2. Split(x, d) = <<x>> /\ Split(y, d) = <<y>>
    BY SplitWord
  <2> QED
    BY <2>1, <2>2
<1>7. Split(w, d) = <<x, y, z>>
  BY <1>5, <1>6, JoinedFields
<1>8. Append(w, d) \in Seq(S)
  BY AppendProperties
<1> QED
  BY <1>2, <1>3, <1>4, <1>7, <1>8

(* A colon, a field, a colon and what has no colon.                        *)
LEMMA SplitText ==
    ASSUME NEW S, NEW c \in S, NEW x \in Fields(S \ {c}), NEW text \in Seq(S \ {c})
    PROVE  LET fields == Split(After(x, c, text), c)
           IN  fields # <<>> /\ Head(fields) = x /\ Text(fields) = text
<1>1. x \in Seq(S) /\ text \in Seq(S)
  BY SplitWord, SeqMonotonic
<1>2. PICK fields : fields = Split(After(x, c, text), c)
  OBVIOUS
<1>3. fields = Joined(<<x>>, Split(text, c))
  <2>1. fields = Joined(Split(x, c), Split(text, c))
    BY <1>1, <1>2, SplitAfter
  <2>2. Split(x, c) = <<x>>
    BY SplitWord
  <2> QED
    BY <2>1, <2>2
<1>4. c \notin S \ {c}
  OBVIOUS
<1>5. Split(text, c) = IF text = <<>> THEN <<>> ELSE <<text>>
  BY <1>4, SplitFree
<1>6. CASE text = <<>>
  <2>1. fields = <<x>>
    BY <1>3, <1>5, <1>6, JoinedFields
  <2>2. fields # <<>> /\ Head(fields) = x /\ Tail(fields) = <<>>
    BY <2>1
  <2>3. FlattenSeq(<<>>) = <<>>
    BY <1>1, FlattenOne
  <2> QED
    BY <1>2, <1>6, <2>2, <2>3 DEF Text
<1>7. CASE text # <<>>
  <2>1. fields = <<x, text>>
    BY <1>3, <1>5, <1>7, JoinedFields
  <2>2. fields # <<>> /\ Head(fields) = x /\ Tail(fields) = <<text>>
    BY <2>1
  <2>3. FlattenSeq(<<text>>) = text
    BY <1>1, FlattenOne
  <2> QED
    BY <1>2, <2>2, <2>3 DEF Text
<1> QED
  BY <1>6, <1>7

LEMMA SplitLine ==
    ASSUME NEW S, NEW c \in S, NEW rest \in Seq(S)
    PROVE  Split(After(<<>>, c, rest), c) = Split(rest, c)
<1>1. <<>> \in Seq(S)
  BY EmptySeq
<1>2. Split(After(<<>>, c, rest), c) = Joined(Split(<<>>, c), Split(rest, c))
  BY <1>1, SplitAfter, ZenonT(60)
<1>3. Split(<<>>, c) = <<>>
  BY ReadNothing DEF Split, Pushed, NothingRead
<1>4. Split(rest, c) \in Seq(Fields(S \ {c}))
  BY SplitType
<1>5. Joined(<<>>, Split(rest, c)) = Split(rest, c)
  BY <1>4, ConcatEmptySeq DEF Joined
<1> QED
  BY <1>2, <1>3, <1>5

(* A prefix, a command and a receiver, each with the delimiter behind it.  *)
Addressed(p, d, k, r) == Append(After(After(p, d, <<k>>), d, r), d)

(* A line that begins with a colon and says a text after another.          *)
Spoken(c, x, text) == After(<<>>, c, After(x, c, text))

(* The line of Relay, whatever its delimiters are.                         *)
Relayed(c, p, d, k, r, t) == <<c>> \o p \o <<d, k, d>> \o r \o <<d, c>> \o t

LEMMA RelayPieces ==
    ASSUME NEW T, NEW p \in Seq(T), NEW r \in Seq(T), NEW t \in Seq(T),
           NEW c \in T, NEW d \in T, NEW k \in T
    PROVE  Relayed(c, p, d, k, r, t) = Spoken(c, Addressed(p, d, k, r), t)
<1>1. PICK lhs : lhs = <<c>> \o p \o <<d, k, d>> \o r \o <<d, c>> \o t
  OBVIOUS
<1>2. PICK rhs :
          rhs = Append(<<>>, c) \o
                (Append(Append(Append(Append(p, d) \o <<k>>, d) \o r, d), c) \o t)
  OBVIOUS
<1>3. lhs \in Seq(T)
  BY <1>1
<1>4. rhs \in Seq(T)
  BY <1>2
<1>5. Len(lhs) = Len(p) + Len(r) + Len(t) + 6
  BY <1>1
<1>6. Len(rhs) = Len(p) + Len(r) + Len(t) + 6
  BY <1>2
<1>7. ASSUME NEW i \in 1..Len(lhs)
      PROVE  lhs[i] = rhs[i]
  <2>1. CASE i = 1
    BY <1>1, <1>2, <2>1
  <2>2. CASE i \in 2..(Len(p) + 1)
    BY <1>1, <1>2, <1>5, <1>6, <2>2
  <2>3. CASE i = Len(p) + 2
    BY <1>1, <1>2, <1>5, <1>6, <2>3
  <2>4. CASE i = Len(p) + 3
    BY <1>1, <1>2, <1>5, <1>6, <2>4
  <2>5. CASE i = Len(p) + 4
    BY <1>1, <1>2, <1>5, <1>6, <2>5
  <2>6. CASE i \in (Len(p) + 5)..(Len(p) + Len(r) + 4)
    BY <1>1, <1>2, <1>5, <1>6, <2>6
  <2>7. CASE i = Len(p) + Len(r) + 5
    BY <1>1, <1>2, <1>5, <1>6, <2>7
  <2>8. CASE i = Len(p) + Len(r) + 6
    BY <1>1, <1>2, <1>5, <1>6, <2>8
  <2>9. CASE i \in (Len(p) + Len(r) + 7)..Len(lhs)
    BY <1>1, <1>2, <1>5, <1>6, <2>9
  <2>10. PICK a \in Nat, b \in Nat, e \in Nat : a = Len(p) /\ b = Len(r) /\ e = Len(t)
    BY LenProperties
  <2>11. i \in 1..(a + b + e + 6)
    BY <1>5, <2>10
  <2>12. \/ i = 1 \/ i \in 2..(a + 1) \/ i = a + 2 \/ i = a + 3 \/ i = a + 4
         \/ i \in (a + 5)..(a + b + 4) \/ i = a + b + 5 \/ i = a + b + 6
         \/ i \in (a + b + 7)..(a + b + e + 6)
    BY <2>11
  <2> QED
    BY <1>5, <2>1, <2>2, <2>3, <2>4, <2>5, <2>6, <2>7, <2>8, <2>9, <2>10, <2>12
<1>8. lhs = rhs
  BY <1>3, <1>4, <1>5, <1>6, <1>7, SeqEqual
<1> QED
  BY <1>1, <1>2, <1>8, Zenon DEF After, Spoken, Addressed, Relayed

(* Words that are no lists.                                                *)
NoComma(S) == "," \notin S

LEMMA PiecesPlain ==
    ASSUME NEW S, NoComma(S), NEW w \in Seq(S)
    PROVE  Pieces(w) = <<w>>
<1>1. "," \notin Range(w)
  BY RangeOfSeq DEF NoComma
<1> QED
  BY <1>1 DEF Pieces

LEMMA ParametersOne ==
    ASSUME NEW S, NoComma(S), NEW w \in Seq(S)
    PROVE  Parameters(<<w>>) = <<w>>
<1>1. <<>> \in Seq(Seq(S)) /\ <<w>> \in Seq(Seq(S))
  BY EmptySeq
<1>2. <<w>> = Append(<<>>, w)
  OBVIOUS
<1>3. Parameters(<<w>>) = Parameters(<<>>) \o Pieces(w) /\ Parameters(<<>>) = <<>>
  BY <1>1, <1>2, ParametersAppend
<1>4. Pieces(w) = <<w>>
  BY PiecesPlain
<1>5. <<>> \o <<w>> = <<w>>
  BY <1>1, ConcatEmptySeq
<1> QED
  BY <1>3, <1>4, <1>5

(* A prefix, a command and a receiver: what _parseUtility makes of them.   *)
Says(words, p, k, parameters) ==
    /\ Utility(words, TRUE).prefix = p
    /\ Utility(words, TRUE).command = k
    /\ Utility(words, TRUE).parameters = parameters

LEMMA UtilityThree ==
    ASSUME NEW T, Nickname \in Fields(T),
           NEW p \in Fields(T), NEW k \in Fields(T), NEW r \in Fields(T),
           NEW R, NoComma(R), r \in Seq(R)
    PROVE  Says(<<p, k, r>>, p, k, <<r>>)
<1>1. PICK words : words = <<p, k, r>>
  OBVIOUS
<1>2. PICK named : named = <<k, r>>
  OBVIOUS
<1>3. words \in Seq(Fields(T)) /\ words # <<>> /\ Head(words) = p /\ Tail(words) = named
  BY <1>1, <1>2
<1>4. named # <<>> /\ Head(named) = k /\ Tail(named) = <<r>>
  BY <1>2
<1>5. Named(words, TRUE) = named
  BY <1>3 DEF Named
<1>6. PICK u : u = Utility(words, TRUE)
  OBVIOUS
<1>7. u.prefix = p /\ u.command = k /\ u.parameters = Parameters(<<r>>)
  BY <1>3, <1>4, <1>5, <1>6, UtilityParts
<1>8. Parameters(<<r>>) = <<r>>
  BY ParametersOne
<1> QED
  BY <1>1, <1>6, <1>7, <1>8 DEF Says

LEMMA OneField ==
    ASSUME NEW S, NEW a \in S
    PROVE  <<a>> \in Fields(S) /\ <<a>> \in Seq(S)
<1>1. <<a>> \in Seq(S) /\ <<a>> # <<>>
  OBVIOUS
<1> QED
  BY <1>1 DEF Fields

LEMMA AfterNothing ==
    ASSUME NEW S, NEW c \in S, NEW rest \in Seq(S)
    PROVE  LET str == After(<<>>, c, rest)
           IN  str \in Seq(S) /\ str # <<>> /\ Head(str) = c /\ c \in Range(str)
<1>1. PICK str : str = Append(<<>>, c) \o rest
  OBVIOUS
<1>2. Len(str) = Len(rest) + 1 /\ str[1] = c /\ str \in Seq(S)
  BY <1>1
<1>3. str # <<>> /\ Head(str) = c /\ 1 \in DOMAIN str
  BY <1>2
<1>4. c \in Range(str)
  BY <1>2, <1>3 DEF Range
<1> QED
  BY <1>1, <1>2, <1>3, <1>4 DEF After

(* The fields of such a line, whatever its delimiters are.                 *)
LEMMA AddressedFields ==
    ASSUME NEW C, NEW d \in C, NEW p \in Fields(C \ {d}), NEW k,
           <<k>> \in Fields(C \ {d}), NEW r \in Fields(C \ {d})
    PROVE  /\ Split(Addressed(p, d, k, r), d) = <<p, <<k>>, r>>
           /\ Addressed(p, d, k, r) \in Fields(C)
<1>1. /\ Split(Addressed(p, d, k, r), d) = <<p, <<k>>, r>>
      /\ Addressed(p, d, k, r) \in Seq(C)
  BY SplitThree, Zenon DEF Addressed
<1>2. Split(<<>>, d) = <<>>
  <2>1. <<>> \in Seq(C)
    BY EmptySeq
  <2> QED
    BY <2>1, ReadNothing DEF Split, Pushed, NothingRead
<1>3. <<p, <<k>>, r>> # <<>>
  OBVIOUS
<1>4. Addressed(p, d, k, r) # <<>>
  BY <1>1, <1>2, <1>3, Zenon
<1> QED
  BY <1>1, <1>4, Zenon DEF Fields

(* How such a line is split at its colons.                                 *)
Voiced(S, str, c, x, text) ==
    /\ str \in Seq(S) /\ str # <<>> /\ Head(str) = c /\ c \in Range(str)
    /\ Split(str, c) # <<>> /\ Head(Split(str, c)) = x
    /\ Text(Split(str, c)) = text

LEMMA SpokenFields ==
    ASSUME NEW S, NEW c \in S, NEW x \in Fields(S \ {c}), NEW text \in Seq(S \ {c})
    PROVE  Voiced(S, Spoken(c, x, text), c, x, text)
<1>1. x \in Seq(S) /\ text \in Seq(S)
  <2>1. S \ {c} \subseteq S
    OBVIOUS
  <2>2. Seq(S \ {c}) \subseteq Seq(S) /\ Fields(S \ {c}) \subseteq Seq(S)
    BY <2>1, Wider, Zenon
  <2> QED
    BY <2>2, Zenon
<1>2. PICK rest \in Seq(S) : rest = After(x, c, text)
  BY <1>1, SplitAfter, Zenon
<1>3. Spoken(c, x, text) = After(<<>>, c, rest)
  BY <1>2, Zenon DEF Spoken
<1>4. PICK str : str = After(<<>>, c, rest)
  OBVIOUS
<1>5. str \in Seq(S) /\ str # <<>> /\ Head(str) = c /\ c \in Range(str)
  BY <1>4, AfterNothing, Zenon
<1>6. Split(str, c) = Split(rest, c)
  BY <1>4, SplitLine, Zenon
<1>7. LET fields == Split(After(x, c, text), c)
      IN  fields # <<>> /\ Head(fields) = x /\ Text(fields) = text
  BY SplitText, Zenon
<1>8. Split(rest, c) # <<>> /\ Head(Split(rest, c)) = x /\ Text(Split(rest, c)) = text
  BY <1>2, <1>7, Zenon
<1> QED
  BY <1>3, <1>4, <1>5, <1>6, <1>8, Zenon DEF Voiced

(* Behind a name the provers take a character for any character.           *)
Colon == ":"
Blank == " "

LEMMA ParseSpoken ==
    ASSUME NEW S, NEW str \in Seq(S), Colon \in Range(str), Split(str, Colon) # <<>>,
           str # <<>>, Head(str) = Colon
    PROVE  /\ Composed(Parse(str), Split(Head(Split(str, Colon)), Blank), TRUE,
                       Text(Split(str, Colon)))
           /\ Parse(str) = [prefix |-> Parse(str).prefix, command |-> Parse(str).command,
                            parameters |-> Parse(str).parameters]
<1>1. Prefixed(str) = TRUE
  BY DEF Prefixed, Colon
<1> QED
  BY <1>1, ParseText, Zenon DEF Colon, Blank

LEMMA RelayUtility ==
    ASSUME NEW T, Nickname \in Fields(T), NEW p \in Fields(T), NEW k \in Fields(T),
           NEW a \in T, NoComma({a})
    PROVE  Says(<<p, k, <<a>>>>, p, k, <<<<a>>>>)
<1>1. PICK R : R = {a}
  OBVIOUS
<1>2. a \in R /\ NoComma(R)
  BY <1>1
<1>3. PICK r \in Fields(T) : r = <<a>>
  BY OneField, Zenon
<1>4. r \in Seq(R)
  BY <1>2, <1>3, OneField, Zenon
<1>5. Says(<<p, k, r>>, p, k, <<r>>)
  BY <1>2, <1>4, UtilityThree
<1> QED
  BY <1>3, <1>5, Zenon

(* From whom, to whom and with which text.                                 *)
Heard(str, p, k, r, text) ==
    Parse(str) = [prefix |-> p, command |-> <<k>>, parameters |-> <<r, text>>]

LEMMA RelayRead ==
    ASSUME NEW S, Colon \in S, Blank \in S \ {Colon},
           NEW p \in Fields((S \ {Colon}) \ {Blank}),
           NEW k, <<k>> \in Fields((S \ {Colon}) \ {Blank}),
           NEW a \in (S \ {Colon}) \ {Blank}, NoComma({a}),
           Nickname \in Fields((S \ {Colon}) \ {Blank}),
           NEW text \in Seq(S \ {Colon})
    PROVE  Heard(Spoken(Colon, Addressed(p, Blank, k, <<a>>), text), p, k, <<a>>, text)
<1>1. PICK r \in Fields((S \ {Colon}) \ {Blank}) : r = <<a>>
  BY OneField, Zenon
<1>2. /\ Split(Addressed(p, Blank, k, r), Blank) = <<p, <<k>>, r>>
      /\ Addressed(p, Blank, k, r) \in Fields(S \ {Colon})
  BY AddressedFields, Zenon
<1>3. PICK x \in Fields(S \ {Colon}) : x = Addressed(p, Blank, k, r)
  BY <1>2, Zenon
<1>4. PICK str : str = Spoken(Colon, x, text)
  OBVIOUS
<1>5. Voiced(S, str, Colon, x, text)
  BY <1>4, SpokenFields
<1>6. /\ Composed(Parse(str), Split(x, Blank), TRUE, text)
      /\ Parse(str) = [prefix |-> Parse(str).prefix, command |-> Parse(str).command,
                       parameters |-> Parse(str).parameters]
  BY <1>5, ParseSpoken, Zenon DEF Voiced
<1>7. Says(<<p, <<k>>, r>>, p, <<k>>, <<r>>)
  BY <1>1, RelayUtility
<1>8. /\ Parse(str).prefix = p /\ Parse(str).command = <<k>>
      /\ Parse(str).parameters = Append(<<r>>, text)
  BY <1>2, <1>3, <1>6, <1>7, Zenon DEF Composed, Says
<1>9. Append(<<r>>, text) = <<r, text>>
  BY AppendFields, Zenon
<1> QED
  BY <1>1, <1>3, <1>4, <1>6, <1>8, <1>9, Zenon DEF Heard

(* What the server relays is read as it was meant, whatever was typed.     *)
THEOREM RelayedIsRead == Spec => []RelayedReadsTheSame
<1>1. line \in Seq(Characters) => RelayedReadsTheSame
  <2> SUFFICES ASSUME line \in Seq(Characters), Parsable(line),
                      Parse(line).parameters # <<>>, NEW a \in Letters
               PROVE  Parse(Relay(Parse(line), <<a>>)) =
                          [prefix     |-> Parse(line).prefix,
                           command    |-> <<"P">>,
                           parameters |-> <<<<a>>, Last(Parse(line).parameters)>>]
    BY DEF RelayedReadsTheSame
  <2>1. PICK S : S = Characters \cup {"nick", "P"}
    OBVIOUS
  <2>2. PICK C : C = S \ {":"}
    OBVIOUS
  <2>3. PICK W : W = C \ {" "}
    OBVIOUS
  <2>4. line \in Seq(S)
    BY <2>1, SeqMonotonic
  <2>5. /\ "nick" \in W /\ "P" \in W /\ a \in W /\ a # ","
        /\ ":" \in S /\ " " \in C /\ W = S \ {":", " "}
    BY <2>1, <2>2, <2>3, LettersAssumption DEF Characters
  <2>6. Nickname \in Fields(W) /\ <<"P">> \in Fields(W) /\ <<a>> \in Fields(W)
    BY <2>5, OneField, Zenon DEF Nickname
  <2>7. PICK msg : msg = Parse(line)
    OBVIOUS
  <2>8. msg.prefix \in Fields(W) /\ msg.parameters \in Seq(Seq(C))
    <3>1. Nickname \in Fields(S \ {":", " "})
      BY <2>5, <2>6
    <3>2. /\ Parse(line).prefix \in Fields(S \ {":", " "})
          /\ Parse(line).parameters \in Seq(Seq(S \ {":"}))
      BY <2>4, <3>1, ParseType, Zenon
    <3> QED
      BY <2>2, <2>5, <2>7, <3>2
  <2>9. PICK p \in Fields(W) : p = msg.prefix
    BY <2>8, Zenon
  <2>10. PICK text \in Seq(C) : text = Last(msg.parameters)
    <3>1. PICK ps \in Seq(Seq(C)) : ps = msg.parameters
      BY <2>8, Zenon
    <3>2. ps # <<>>
      BY <2>7, <3>1, Zenon
    <3>3. Last(ps) \in Seq(C)
      BY <3>2 DEF Last
    <3> QED
      BY <3>1, <3>3, Zenon
  <2>11. Parse(Spoken(Colon, Addressed(p, Blank, "P", <<a>>), text))
           = [prefix |-> p, command |-> <<"P">>, parameters |-> <<<<a>>, text>>]
    <3>1. (S \ {Colon}) \ {Blank} = W /\ S \ {Colon} = C
      BY <2>2, <2>3 DEF Colon, Blank
    <3>2. Colon \in S /\ Blank \in S \ {Colon} /\ NoComma({a})
      BY <2>2, <2>5 DEF Colon, Blank, NoComma
    <3>3. /\ p \in Fields((S \ {Colon}) \ {Blank}) /\ a \in (S \ {Colon}) \ {Blank}
          /\ <<"P">> \in Fields((S \ {Colon}) \ {Blank})
          /\ Nickname \in Fields((S \ {Colon}) \ {Blank})
      BY <2>5, <2>6, <3>1
    <3>4. text \in Seq(S \ {Colon})
      BY <3>1
    <3>5. PICK k : k = "P"
      OBVIOUS
    <3>6. <<k>> \in Fields((S \ {Colon}) \ {Blank})
      BY <3>3, <3>5
    <3>7. Heard(Spoken(Colon, Addressed(p, Blank, k, <<a>>), text), p, k, <<a>>, text)
      BY <3>2, <3>3, <3>4, <3>6, RelayRead
    <3> QED
      BY <3>5, <3>7, Zenon DEF Heard
  <2>12. Relay(msg, <<a>>) = Spoken(Colon, Addressed(p, Blank, "P", <<a>>), text)
    <3>1. p \in Seq(S) /\ <<a>> \in Seq(S) /\ text \in Seq(S)
      <4>1. W \subseteq S /\ C \subseteq S
        BY <2>2, <2>3
      <4>2. Fields(W) \subseteq Seq(S) /\ Seq(C) \subseteq Seq(S)
        BY <4>1, Wider, Zenon
      <4> QED
        BY <2>6, <4>2, Zenon
    <3>2. "P" \in S /\ Blank \in S /\ Colon \in S
      BY <2>2, <2>5, <2>3 DEF Blank, Colon
    <3>3. Relay(msg, <<a>>)
            = Relayed(Colon, p, Blank, "P", <<a>>, text)
      BY <2>9, <2>10, Zenon DEF Relay, Relayed, Colon, Blank
    <3>4. PICK r \in Seq(S) : r = <<a>>
      BY <3>1
    <3>5. PICK k \in S : k = "P"
      BY <3>2
    <3>6. Relayed(Colon, p, Blank, k, r, text) = Spoken(Colon, Addressed(p, Blank, k, r), text)
      BY <3>1, <3>2, RelayPieces
    <3> QED
      BY <3>3, <3>4, <3>5, <3>6
  <2> QED
    BY <2>7, <2>9, <2>10, <2>11, <2>12, Zenon
<1> QED
  BY <1>1, LineType, PTL

-----------------------------------------------------------------------------
(* The grammar: fields are the longest stretches without the delimiter     *)

(* The beginnings b and ends e of the m stretches of s without d, in       *)
(* order.                                                                  *)
Listed(s, d, m, b, e) ==
    /\ Len(s) \in Nat /\ m \in Nat /\ b \in [1..m -> Nat \ {0}] /\ e \in [1..m -> Nat]
    /\ \A x \in 1..m :
        /\ b[x] <= e[x] /\ e[x] <= Len(s)
        /\ \A k \in b[x]..e[x] : ~Apart(s, {d}, k)
        /\ Apart(s, {d}, b[x] - 1) /\ Apart(s, {d}, e[x] + 1)
    /\ \A x, y \in 1..m : x < y => b[x] < b[y]
    /\ \A i \in Starts(s, {d}) : \E x \in 1..m : i = b[x]

LEMMA RankOfBeginning ==
    ASSUME NEW m \in Nat, NEW b \in [1..m -> Nat],
           \A x, y \in 1..m : x < y => b[x] < b[y], NEW n \in 0..m
    PROVE  Cardinality({b[x] : x \in 1..n}) = n
<1> DEFINE T == {b[x] : x \in 1..n}
           f == [x \in 1..n |-> b[x]]
<1>1. IsFiniteSet(1..n) /\ Cardinality(1..n) = n
  BY FS_Interval
<1>2. \A x, y \in 1..n : x # y => f[x] # f[y]
  <2> TAKE x, y \in 1..n
  <2>1. x < y \/ y < x \/ x = y
    OBVIOUS
  <2>2. x \in 1..m /\ y \in 1..m /\ b[x] \in Nat /\ b[y] \in Nat
    OBVIOUS
  <2> QED
    BY <2>1, <2>2
<1>3. f \in Bijection(1..n, T)
  BY <1>2 DEF Bijection, Injection, Surjection, IsInjective
<1>4. ExistsBijection(1..n, T)
  BY <1>3 DEF ExistsBijection
<1> QED
  BY <1>1, <1>4, FS_Bijection

LEMMA ListedOne ==
    ASSUME NEW s, NEW d, NEW m, NEW b, NEW e, Listed(s, d, m, b, e), NEW x \in 1..m
    PROVE  /\ b[x] \in Nat \ {0} /\ e[x] \in Nat /\ b[x] <= e[x] /\ e[x] <= Len(s)
           /\ \A k \in b[x]..e[x] : ~Apart(s, {d}, k)
           /\ Apart(s, {d}, b[x] - 1) /\ Apart(s, {d}, e[x] + 1)
<1>1. b \in [1..m -> Nat \ {0}] /\ e \in [1..m -> Nat]
  BY DEF Listed
<1>2. b[x] \in Nat \ {0} /\ e[x] \in Nat
  BY <1>1
<1>3. /\ b[x] <= e[x] /\ e[x] <= Len(s)
      /\ \A k \in b[x]..e[x] : ~Apart(s, {d}, k)
      /\ Apart(s, {d}, b[x] - 1) /\ Apart(s, {d}, e[x] + 1)
  BY Zenon DEF Listed
<1> QED
  BY <1>1, <1>2, <1>3

LEMMA ListedStart ==
    ASSUME NEW s, NEW d, NEW m, NEW b, NEW e, Listed(s, d, m, b, e)
    PROVE  /\ Starts(s, {d}) = {b[x] : x \in 1..m}
           /\ Cardinality(Starts(s, {d})) = m
           /\ \A n \in 1..m : Start(s, {d}, n) = b[n]
<1>0. /\ m \in Nat /\ b \in [1..m -> Nat]
      /\ \A x, y \in 1..m : x < y => b[x] < b[y]
  BY DEF Listed
<1>1. Starts(s, {d}) = {b[x] : x \in 1..m}
  <2>1. ASSUME NEW x \in 1..m
        PROVE  b[x] \in Starts(s, {d})
    <3>0. /\ b[x] \in Nat \ {0} /\ e[x] \in Nat /\ b[x] <= e[x]
          /\ \A k \in b[x]..e[x] : ~Apart(s, {d}, k)
          /\ Apart(s, {d}, b[x] - 1)
      BY ListedOne
    <3>1. b[x] \in b[x]..e[x] /\ ~Apart(s, {d}, b[x]) /\ Apart(s, {d}, b[x] - 1)
      BY <3>0
    <3>2. b[x] \in DOMAIN s
      BY <3>1 DEF Apart
    <3> QED
      BY <3>1, <3>2 DEF Starts
  <2> QED
    BY <2>1, ZenonT(60) DEF Listed
<1>2. \A n \in 0..m : Cardinality({b[x] : x \in 1..n}) = n
  BY <1>0, RankOfBeginning
<1>3. ASSUME NEW y \in 1..m
      PROVE  Cardinality({j \in Starts(s, {d}) : j <= b[y]}) = y
  <2>1. {j \in Starts(s, {d}) : j <= b[y]} = {b[x] : x \in 1..y}
    <3>1. ASSUME NEW x \in 1..m PROVE b[x] <= b[y] <=> x <= y
      <4>1. b[x] \in Nat /\ b[y] \in Nat /\ (x < y \/ x = y \/ y < x)
        BY <1>0
      <4> QED
        BY <1>0, <4>1
    <3>2. ASSUME NEW j, j \in Starts(s, {d}), j <= b[y] PROVE j \in {b[x] : x \in 1..y}
      <4>1. PICK x \in 1..m : j = b[x]
        BY <1>1, <3>2
      <4>2. x \in 1..y
        BY <3>1, <3>2, <4>1
      <4> QED
        BY <4>1, <4>2
    <3>3. ASSUME NEW x \in 1..y PROVE b[x] \in Starts(s, {d}) /\ b[x] <= b[y]
      <4>1. x \in 1..m
        BY <1>0
      <4> QED
        BY <1>1, <3>1, <4>1
    <3> QED
      BY <3>2, <3>3
  <2>2. y \in 0..m
    BY <1>0
  <2> QED
    BY <1>2, <2>1, <2>2
<1>4. Cardinality(Starts(s, {d})) = m
  <2>1. m \in 0..m
    BY <1>0
  <2> QED
    BY <1>1, <1>2, <2>1
<1>5. ASSUME NEW n \in 1..m
      PROVE  Start(s, {d}, n) = b[n]
  <2>1. b[n] \in Starts(s, {d}) /\ Cardinality({j \in Starts(s, {d}) : j <= b[n]}) = n
    BY <1>1, <1>3
  <2>2. \A i \in Starts(s, {d}) :
            Cardinality({j \in Starts(s, {d}) : j <= i}) = n => i = b[n]
    BY <1>1, <1>3
  <2> QED
    BY <2>1, <2>2 DEF Start
<1> QED
  BY <1>1, <1>4, <1>5

(* The stretches themselves.                                               *)
Stretches(s, m, b, e) == [x \in 1..m |-> SubSeq(s, b[x], e[x])]

LEMMA ListedWords ==
    ASSUME NEW s, NEW d, NEW m, NEW b, NEW e, Listed(s, d, m, b, e)
    PROVE  Words(s, {d}) = Stretches(s, m, b, e)
<1>1. Cardinality(Starts(s, {d})) = m /\ \A n \in 1..m : Start(s, {d}, n) = b[n]
  BY ListedStart, Zenon
<1>2. \A n \in 1..m : End(s, {d}, b[n]) = e[n]
  <2> TAKE n \in 1..m
  <2>0. Len(s) \in Nat
    BY DEF Listed
  <2>1. /\ b[n] \in Nat /\ e[n] \in Nat
        /\ b[n] <= e[n] /\ e[n] <= Len(s)
        /\ \A k \in b[n]..e[n] : ~Apart(s, {d}, k)
        /\ Apart(s, {d}, e[n] + 1)
    BY ListedOne
  <2> DEFINE Last1(j) == (\A k \in b[n]..j : ~Apart(s, {d}, k)) /\ Apart(s, {d}, j + 1)
  <2>2. e[n] \in b[n]..Len(s) /\ Last1(e[n])
    <3>1. e[n] \in b[n]..Len(s)
      BY <2>0, <2>1
    <3>2. Last1(e[n])
      BY <2>1, Zenon
    <3> QED
      BY <3>1, <3>2
  <2>3. ASSUME NEW j \in b[n]..Len(s), Last1(j)
        PROVE  j = e[n]
    <3>1. CASE j < e[n]
      <4>1. j + 1 \in b[n]..e[n]
        BY <2>1, <3>1
      <4> QED
        BY <2>1, <2>3, <4>1
    <3>2. CASE j > e[n]
      <4>1. e[n] + 1 \in b[n]..j
        BY <2>1, <3>2
      <4> QED
        BY <2>1, <2>3, <4>1
    <3> QED
      BY <2>1, <3>1, <3>2
  <2>4. End(s, {d}, b[n]) = CHOOSE j \in b[n]..Len(s) : Last1(j)
    BY DEF End
  <2> HIDE DEF Last1
  <2> QED
    BY <2>2, <2>3, <2>4
<1>3. Words(s, {d}) = [n \in 1..m |->
        SubSeq(s, Start(s, {d}, n), End(s, {d}, Start(s, {d}, n)))]
  BY <1>1 DEF Words
<1> QED
  BY <1>1, <1>2, <1>3 DEF Stretches

LEMMA SubSeqAppend ==
    ASSUME NEW S, NEW s \in Seq(S), NEW c \in S, NEW a \in 1..(Len(s) + 1)
    PROVE  /\ \A z \in 1..Len(s) : SubSeq(Append(s, c), a, z) = SubSeq(s, a, z)
           /\ SubSeq(Append(s, c), a, Len(s) + 1) = Append(SubSeq(s, a, Len(s)), c)
<1>1. PICK t \in Seq(S) : t = Append(s, c)
  BY AppendProperties
<1>2. PICK n \in Nat : n = Len(s)
  OBVIOUS
<1>3. Len(t) = n + 1 /\ \A i \in 1..n : t[i] = s[i]
  BY <1>1, <1>2
<1>4. t[n + 1] = c
  BY <1>1, <1>2
<1>5. ASSUME NEW z \in 1..n
      PROVE  SubSeq(t, a, z) = SubSeq(s, a, z)
  BY <1>2, <1>3, <1>5
<1>6. SubSeq(t, a, n + 1) = Append(SubSeq(s, a, n), c)
  <2>0. a \in 1..(n + 1)
    BY <1>2
  <2>1. PICK u \in Seq(S) : /\ u = SubSeq(s, a, n) /\ Len(u) = n + 1 - a
                            /\ \A i \in 1..(n + 1 - a) : u[i] = s[a + i - 1]
    <3>1. \A i \in a..n : s[i] \in S
      BY <1>2, <2>0
    <3>2. /\ SubSeq(s, a, n) \in Seq(S)
          /\ Len(SubSeq(s, a, n)) = IF a <= n THEN n - a + 1 ELSE 0
          /\ \A i \in 1..(n - a + 1) : SubSeq(s, a, n)[i] = s[a + i - 1]
      BY <2>0, <3>1, SubSeqProperties
    <3>3. n - a + 1 = n + 1 - a /\ (a <= n \/ n - a + 1 = 0)
      BY <2>0
    <3> QED
      BY <3>2, <3>3
  <2>2. Len(u) = n + 1 - a /\ \A i \in 1..(n + 1 - a) : u[i] = s[a + i - 1]
    BY <2>1
  <2>3. PICK v \in Seq(S) : /\ v = SubSeq(t, a, n + 1) /\ Len(v) = n + 2 - a
                            /\ \A i \in 1..(n + 2 - a) : v[i] = t[a + i - 1]
    <3>1. \A i \in a..(n + 1) : t[i] \in S
      BY <1>3, <2>0
    <3>2. /\ SubSeq(t, a, n + 1) \in Seq(S)
          /\ Len(SubSeq(t, a, n + 1)) = IF a <= n + 1 THEN (n + 1) - a + 1 ELSE 0
          /\ \A i \in 1..((n + 1) - a + 1) : SubSeq(t, a, n + 1)[i] = t[a + i - 1]
      <4>1. n + 1 \in Int /\ a \in Int
        BY <2>0
      <4> QED
        BY <3>1, <4>1, SubSeqProperties
    <3>3. (n + 1) - a + 1 = n + 2 - a /\ a <= n + 1
      BY <2>0
    <3> QED
      BY <3>2, <3>3
  <2>4. Len(v) = n + 2 - a /\ \A i \in 1..(n + 2 - a) : v[i] = t[a + i - 1]
    BY <2>3
  <2>5. PICK w \in Seq(S) : w = Append(u, c)
    BY AppendProperties
  <2>6. Len(w) = n + 2 - a /\ w[n + 2 - a] = c /\ \A i \in 1..(n + 1 - a) : w[i] = u[i]
    BY <2>2, <2>5, <1>2
  <2>7. ASSUME NEW i \in 1..(n + 2 - a)
        PROVE  v[i] = w[i]
    <3>1. CASE i = n + 2 - a
      <4>1. a + i - 1 = n + 1
        BY <1>2, <3>1
      <4> QED
        BY <1>4, <2>4, <2>6, <3>1, <4>1
    <3>2. CASE i \in 1..(n + 1 - a)
      <4>1. a + i - 1 \in 1..n
        BY <1>2, <3>2
      <4> QED
        BY <1>3, <2>2, <2>4, <2>6, <3>2, <4>1
    <3> QED
      BY <2>0, <3>1, <3>2, SMTT(30)
  <2>8. v = w
    BY <2>4, <2>6, <2>7, SeqEqual
  <2> QED
    BY <2>1, <2>3, <2>5, <2>8
<1> QED
  BY <1>1, <1>2, <1>5, <1>6

LEMMA ApartAppend ==
    ASSUME NEW S, NEW s \in Seq(S), NEW c \in S, NEW d
    PROVE  /\ \A i \in 0..Len(s) : Apart(Append(s, c), {d}, i) <=> Apart(s, {d}, i)
           /\ Apart(Append(s, c), {d}, Len(s) + 1) <=> c = d
           /\ Apart(s, {d}, Len(s) + 1) /\ Apart(Append(s, c), {d}, Len(s) + 2)
           /\ \A i \in Starts(Append(s, c), {d}) :
                 \/ i \in Starts(s, {d})
                 \/ i = Len(s) + 1 /\ c # d /\ Apart(s, {d}, Len(s))
<1>1. PICK t \in Seq(S) : t = Append(s, c)
  BY AppendProperties
<1>2. PICK n \in Nat : n = Len(s)
  OBVIOUS
<1>3. Len(t) = n + 1 /\ t[n + 1] = c /\ \A i \in 1..n : t[i] = s[i]
  BY <1>1, <1>2
<1>4. DOMAIN s = 1..n /\ DOMAIN t = 1..(n + 1)
  BY <1>2, <1>3
<1>5. \A i \in 0..n : Apart(t, {d}, i) <=> Apart(s, {d}, i)
  BY <1>3, <1>4 DEF Apart
<1>6. Apart(t, {d}, n + 1) <=> c = d
  BY <1>3, <1>4 DEF Apart
<1>7. Apart(s, {d}, n + 1) /\ Apart(t, {d}, n + 2)
  BY <1>4 DEF Apart
<1>8. ASSUME NEW i \in Starts(t, {d})
      PROVE  i \in Starts(s, {d}) \/ (i = n + 1 /\ c # d /\ Apart(s, {d}, n))
  <2>1. i \in 1..(n + 1) /\ ~Apart(t, {d}, i) /\ Apart(t, {d}, i - 1)
    BY <1>4 DEF Starts
  <2>2. CASE i \in 1..n
    <3>1. i \in 0..n /\ i - 1 \in 0..n
      BY <2>2
    <3>2. ~Apart(s, {d}, i) /\ Apart(s, {d}, i - 1)
      BY <1>5, <2>1, <3>1
    <3>3. i \in DOMAIN s
      BY <1>4, <2>2
    <3>4. i \in Starts(s, {d})
      BY <3>2, <3>3, Zenon DEF Starts
    <3> QED
      BY <3>4
  <2>3. CASE i = n + 1
    <3>1. i - 1 = n /\ n \in 0..n
      BY <2>3
    <3> QED
      BY <1>5, <1>6, <2>1, <2>3, <3>1
  <2> QED
    BY <2>1, <2>2, <2>3
<1> QED
  BY <1>1, <1>2, <1>5, <1>6, <1>7, <1>8

(* What has been read of s is what lies between those positions.           *)
Follows(s, d, r, m, b, e) ==
    /\ Listed(s, d, m, b, e)
    /\ Len(Pushed(r)) = m
    /\ \A x \in 1..m : Pushed(r)[x] = SubSeq(s, b[x], e[x])
    /\ r.field = <<>> => Apart(s, {d}, Len(s))
    /\ r.field # <<>> => m # 0 /\ e[m] = Len(s)

(* A stretch that begins before another ends before it.                    *)
LEMMA ListedApart ==
    ASSUME NEW s, NEW d, NEW m, NEW b, NEW e, Listed(s, d, m, b, e),
           NEW x \in 1..m, NEW y \in 1..m, x < y
    PROVE  e[x] < b[y]
<1>1. b[x] \in Nat /\ e[x] \in Nat /\ b[y] \in Nat /\ b[x] < b[y]
  <2>1. b \in [1..m -> Nat \ {0}] /\ e \in [1..m -> Nat] /\ b[x] < b[y]
    BY Zenon DEF Listed
  <2> QED
    BY <2>1
<1>2. Apart(s, {d}, b[y] - 1) /\ \A k \in b[x]..e[x] : ~Apart(s, {d}, k)
  BY ListedOne
<1>3. b[y] - 1 \notin b[x]..e[x]
  BY <1>2
<1> QED
  BY <1>1, <1>3

LEMMA FollowsDelimiter ==
    ASSUME NEW S, NEW s \in Seq(S), NEW d \in S, NEW r \in Readings(S),
           NEW m, NEW b, NEW e, Follows(s, d, r, m, b, e)
    PROVE  Follows(Append(s, d), d, ReadCharacter(r, d, d), m, b, e)
<1>1. PICK t \in Seq(S) : t = Append(s, d)
  BY AppendProperties
<1>2. PICK n \in Nat : n = Len(s)
  OBVIOUS
<1>3. PICK now : now = ReadCharacter(r, d, d)
  OBVIOUS
<1>4. Len(t) = n + 1
  BY <1>1, <1>2
<1>5. /\ \A i \in 0..n : Apart(t, {d}, i) <=> Apart(s, {d}, i)
      /\ Apart(t, {d}, n + 1) /\ Apart(s, {d}, n + 1)
      /\ \A i \in Starts(t, {d}) : i \in Starts(s, {d})
  BY <1>1, <1>2, ApartAppend
<1>6. Listed(s, d, m, b, e)
  BY DEF Follows
<1>7. /\ m \in Nat /\ b \in [1..m -> Nat \ {0}] /\ e \in [1..m -> Nat]
      /\ \A x, y \in 1..m : x < y => b[x] < b[y]
      /\ \A i \in Starts(s, {d}) : \E x \in 1..m : i = b[x]
  BY <1>6, Zenon DEF Listed
<1>8. ASSUME NEW x \in 1..m
      PROVE  /\ b[x] <= e[x] /\ e[x] <= Len(t)
             /\ \A k \in b[x]..e[x] : ~Apart(t, {d}, k)
             /\ Apart(t, {d}, b[x] - 1) /\ Apart(t, {d}, e[x] + 1)
             /\ SubSeq(t, b[x], e[x]) = SubSeq(s, b[x], e[x])
  <2>1. /\ b[x] \in Nat \ {0} /\ e[x] \in Nat /\ b[x] <= e[x] /\ e[x] <= n
        /\ \A k \in b[x]..e[x] : ~Apart(s, {d}, k)
        /\ Apart(s, {d}, b[x] - 1) /\ Apart(s, {d}, e[x] + 1)
    BY <1>2, <1>6, ListedOne
  <2>2. /\ b[x] - 1 \in 0..n /\ (e[x] + 1 \in 0..n \/ e[x] + 1 = n + 1)
        /\ \A k \in b[x]..e[x] : k \in 0..n
    BY <2>1, SMTT(30)
  <2>3. SubSeq(t, b[x], e[x]) = SubSeq(s, b[x], e[x])
    <3>1. b[x] \in 1..(n + 1) /\ e[x] \in 1..n
      BY <2>1
    <3> QED
      BY <1>1, <1>2, <3>1, SubSeqAppend
  <2>4. \A k \in b[x]..e[x] : ~Apart(t, {d}, k)
    BY <1>5, <2>1, <2>2
  <2>5. Apart(t, {d}, b[x] - 1) /\ Apart(t, {d}, e[x] + 1)
    BY <1>5, <2>1, <2>2
  <2>6. b[x] <= e[x] /\ e[x] <= Len(t)
    BY <1>4, <2>1
  <2> QED
    BY <2>3, <2>4, <2>5, <2>6
<1>9. Listed(t, d, m, b, e)
  <2>1. Len(t) \in Nat
    BY <1>4
  <2>2. \A i \in Starts(t, {d}) : \E x \in 1..m : i = b[x]
    BY <1>5, <1>7, Zenon
  <2>3. \A x \in 1..m :
            /\ b[x] <= e[x] /\ e[x] <= Len(t)
            /\ \A k \in b[x]..e[x] : ~Apart(t, {d}, k)
            /\ Apart(t, {d}, b[x] - 1) /\ Apart(t, {d}, e[x] + 1)
    BY <1>8, Zenon
  <2> QED
    BY <1>7, <2>1, <2>2, <2>3, Zenon DEF Listed
<1>10. now.field = <<>> /\ Pushed(now) = Pushed(r)
  BY <1>3 DEF ReadCharacter, Pushed
<1>11. /\ Len(Pushed(r)) = m
       /\ \A x \in 1..m : Pushed(r)[x] = SubSeq(s, b[x], e[x])
  BY DEF Follows
<1>12. Apart(t, {d}, Len(t))
  BY <1>4, <1>5
<1> QED
  BY <1>1, <1>3, <1>8, <1>9, <1>10, <1>11, <1>12, Zenon DEF Follows

LEMMA FollowsFirst ==
    ASSUME NEW S, NEW s \in Seq(S), NEW c \in S, NEW d, c # d, NEW r \in Readings(S),
           NEW m, NEW b, NEW e, Follows(s, d, r, m, b, e), r.field = <<>>
    PROVE  Follows(Append(s, c), d, ReadCharacter(r, c, d), m + 1,
                   [x \in 1..(m + 1) |-> IF x = m + 1 THEN Len(s) + 1 ELSE b[x]],
                   [x \in 1..(m + 1) |-> IF x = m + 1 THEN Len(s) + 1 ELSE e[x]])
<1>1. PICK t \in Seq(S) : t = Append(s, c)
  BY AppendProperties
<1>2. PICK n \in Nat : n = Len(s)
  OBVIOUS
<1>3. PICK now : now = ReadCharacter(r, c, d)
  OBVIOUS
<1>4. Len(t) = n + 1
  BY <1>1, <1>2
<1>5. /\ \A i \in 0..n : Apart(t, {d}, i) <=> Apart(s, {d}, i)
      /\ ~Apart(t, {d}, n + 1) /\ Apart(t, {d}, n + 2)
      /\ \A i \in Starts(t, {d}) : i \in Starts(s, {d}) \/ i = n + 1
  <2>1. /\ \A i \in 0..n : Apart(t, {d}, i) <=> Apart(s, {d}, i)
        /\ Apart(t, {d}, n + 1) <=> c = d
        /\ Apart(t, {d}, n + 2)
        /\ \A i \in Starts(t, {d}) :
              \/ i \in Starts(s, {d})
              \/ i = n + 1 /\ c # d /\ Apart(s, {d}, n)
    BY <1>1, <1>2, ApartAppend, ZenonT(60)
  <2> QED
    BY <2>1, Zenon
<1>6. Listed(s, d, m, b, e) /\ Apart(s, {d}, n)
  BY <1>2, Zenon DEF Follows
<1>7. /\ m \in Nat /\ b \in [1..m -> Nat \ {0}] /\ e \in [1..m -> Nat]
      /\ \A x, y \in 1..m : x < y => b[x] < b[y]
      /\ \A i \in Starts(s, {d}) : \E x \in 1..m : i = b[x]
  BY <1>6, Zenon DEF Listed
<1>8. PICK b2 : b2 = [x \in 1..(m + 1) |-> IF x = m + 1 THEN n + 1 ELSE b[x]]
  OBVIOUS
<1>9. PICK e2 : e2 = [x \in 1..(m + 1) |-> IF x = m + 1 THEN n + 1 ELSE e[x]]
  OBVIOUS
<1>10. /\ b2 \in [1..(m + 1) -> Nat \ {0}] /\ e2 \in [1..(m + 1) -> Nat]
       /\ b2[m + 1] = n + 1 /\ e2[m + 1] = n + 1
       /\ \A x \in 1..m : b2[x] = b[x] /\ e2[x] = e[x]
  BY <1>7, <1>8, <1>9
<1>11. ASSUME NEW x \in 1..m
       PROVE  /\ b[x] <= e[x] /\ e[x] <= n /\ b[x] <= n
              /\ \A k \in b[x]..e[x] : ~Apart(t, {d}, k)
              /\ Apart(t, {d}, b[x] - 1) /\ Apart(t, {d}, e[x] + 1)
              /\ SubSeq(t, b[x], e[x]) = SubSeq(s, b[x], e[x])
  <2>1. /\ b[x] \in Nat \ {0} /\ e[x] \in Nat /\ b[x] <= e[x] /\ e[x] <= n
        /\ \A k \in b[x]..e[x] : ~Apart(s, {d}, k)
        /\ Apart(s, {d}, b[x] - 1) /\ Apart(s, {d}, e[x] + 1)
    BY <1>2, <1>6, ListedOne
  <2>2. e[x] # n
    <3>0. e[x] \in b[x]..e[x]
      BY <2>1
    <3>1. ~Apart(s, {d}, e[x])
      BY <2>1, <3>0
    <3> QED
      BY <1>6, <3>1
  <2>3. /\ b[x] - 1 \in 0..n /\ e[x] + 1 \in 0..n
        /\ \A k \in b[x]..e[x] : k \in 0..n
    BY <2>1, <2>2
  <2>4. SubSeq(t, b[x], e[x]) = SubSeq(s, b[x], e[x])
    <3>1. b[x] \in 1..(n + 1) /\ e[x] \in 1..n
      BY <2>1
    <3> QED
      BY <1>1, <1>2, <3>1, SubSeqAppend
  <2>5. \A k \in b[x]..e[x] : ~Apart(t, {d}, k)
    BY <1>5, <2>1, <2>3
  <2>6. Apart(t, {d}, b[x] - 1) /\ Apart(t, {d}, e[x] + 1)
    BY <1>5, <2>1, <2>3
  <2>7. b[x] <= e[x] /\ e[x] <= n /\ b[x] <= n
    BY <2>1
  <2> QED
    BY <2>4, <2>5, <2>6, <2>7
<1>12. Listed(t, d, m + 1, b2, e2)
  <2>1. Len(t) \in Nat /\ m + 1 \in Nat
    BY <1>4, <1>7
  <2>2. ASSUME NEW i \in Starts(t, {d})
        PROVE  \E x \in 1..(m + 1) : i = b2[x]
    <3>1. CASE i = n + 1
      BY <1>7, <1>10, <3>1
    <3>2. CASE i \in Starts(s, {d})
      <4>1. PICK x \in 1..m : i = b[x]
        BY <1>7, <3>2
      <4>2. x \in 1..(m + 1) /\ i = b2[x]
        BY <1>7, <1>10, <4>1
      <4> QED
        BY <4>2
    <3> QED
      BY <1>5, <3>1, <3>2
  <2>3. ASSUME NEW x \in 1..(m + 1)
        PROVE  /\ b2[x] <= e2[x] /\ e2[x] <= Len(t)
               /\ \A k \in b2[x]..e2[x] : ~Apart(t, {d}, k)
               /\ Apart(t, {d}, b2[x] - 1) /\ Apart(t, {d}, e2[x] + 1)
    <3>1. CASE x = m + 1
      <4>1. b2[x] = n + 1 /\ e2[x] = n + 1
        BY <1>10, <3>1
      <4>2. Apart(t, {d}, n)
        <5>1. n \in 0..n
          OBVIOUS
        <5> QED
          BY <1>5, <1>6, <5>1
      <4>3. \A k \in (n + 1)..(n + 1) : k = n + 1
        OBVIOUS
      <4>4. n + 1 - 1 = n /\ (n + 1) + 1 = n + 2 /\ n + 1 <= n + 1
        OBVIOUS
      <4> QED
        BY <1>4, <1>5, <4>1, <4>2, <4>3, <4>4
    <3>2. CASE x \in 1..m
      <4>1. b2[x] = b[x] /\ e2[x] = e[x]
        BY <1>10, <3>2
      <4>2. e[x] <= n + 1
        <5>1. e[x] \in Nat /\ e[x] <= n
          BY <1>7, <1>11, <3>2
        <5> QED
          BY <5>1
      <4> QED
        BY <1>4, <1>11, <3>2, <4>1, <4>2
    <3>3. x = m + 1 \/ x \in 1..m
      BY <1>7
    <3> QED
      BY <3>1, <3>2, <3>3, Zenon
  <2>4. ASSUME NEW x \in 1..(m + 1), NEW y \in 1..(m + 1), x < y
        PROVE  b2[x] < b2[y]
    <3>0. x \in 1..m /\ b[x] \in Nat /\ b2[x] = b[x]
      BY <1>7, <1>10, <2>4
    <3>1. CASE y = m + 1
      BY <1>10, <1>11, <3>0, <3>1
    <3>2. CASE y \in 1..m
      BY <1>7, <1>10, <2>4, <3>0, <3>2
    <3> QED
      BY <1>7, <3>1, <3>2
  <2> QED
    BY <1>10, <2>1, <2>2, <2>3, <2>4, Zenon DEF Listed
<1>13. /\ r.fields \in Seq(Fields(S)) /\ Pushed(r) = r.fields
       /\ now.fields = r.fields /\ now.field = <<c>>
  <2>1. Append(<<>>, c) = <<c>>
    OBVIOUS
  <2> QED
    BY <1>3, <2>1 DEF Readings, ReadCharacter, Pushed
<1>14. Pushed(now) = Append(r.fields, <<c>>) /\ <<c>> \in Fields(S) /\ now.field # <<>>
  <2>1. <<c>> # <<>> /\ <<c>> \in Fields(S)
    BY OneField DEF Fields
  <2> QED
    BY <1>13, <2>1 DEF Pushed
<1>15. Len(r.fields) = m /\ \A x \in 1..m : r.fields[x] = SubSeq(s, b[x], e[x])
  BY <1>13 DEF Follows
<1>16. /\ Len(Pushed(now)) = m + 1 /\ Pushed(now)[m + 1] = <<c>>
       /\ \A x \in 1..m : Pushed(now)[x] = SubSeq(s, b[x], e[x])
  <2>1. PICK f \in Seq(Fields(S)) : f = r.fields
    BY <1>13
  <2>2. PICK w \in Fields(S) : w = <<c>>
    BY <1>14
  <2>3. Len(f) = m /\ \A x \in 1..m : f[x] = SubSeq(s, b[x], e[x])
    BY <1>15, <2>1
  <2>4. /\ Len(Append(f, w)) = Len(f) + 1 /\ Append(f, w)[Len(f) + 1] = w
        /\ \A x \in 1..Len(f) : Append(f, w)[x] = f[x]
    BY AppendProperties
  <2> QED
    BY <1>14, <2>1, <2>2, <2>3, <2>4
<1>17. SubSeq(t, n + 1, n + 1) = <<c>>
  <2>1. n + 1 \in 1..(n + 1)
    OBVIOUS
  <2>2. SubSeq(t, n + 1, n + 1) = Append(SubSeq(s, n + 1, n), c)
    BY <1>1, <1>2, <2>1, SubSeqAppend
  <2>3. SubSeq(s, n + 1, n) = <<>>
    <3>1. n + 1 \in Int /\ n \in Int /\ n < n + 1
      OBVIOUS
    <3> QED
      BY <3>1, SubSeqEmpty, Zenon
  <2>4. Append(<<>>, c) = <<c>>
    OBVIOUS
  <2> QED
    BY <2>2, <2>3, <2>4
<1>18. \A x \in 1..(m + 1) : Pushed(now)[x] = SubSeq(t, b2[x], e2[x])
  <2> TAKE x \in 1..(m + 1)
  <2>1. CASE x = m + 1
    BY <1>10, <1>16, <1>17, <2>1
  <2>2. CASE x \in 1..m
    BY <1>10, <1>11, <1>16, <2>2
  <2> QED
    BY <1>7, <2>1, <2>2
<1>19. m + 1 # 0 /\ e2[m + 1] = Len(t)
  BY <1>4, <1>7, <1>10
<1>20. Follows(t, d, now, m + 1, b2, e2)
  BY <1>12, <1>14, <1>16, <1>18, <1>19, Zenon DEF Follows
<1> QED
  BY <1>1, <1>2, <1>3, <1>8, <1>9, <1>20, Zenon

LEMMA FollowsNext ==
    ASSUME NEW S, NEW s \in Seq(S), NEW c \in S, NEW d, c # d, NEW r \in Readings(S),
           NEW m, NEW b, NEW e, Follows(s, d, r, m, b, e), r.field # <<>>
    PROVE  Follows(Append(s, c), d, ReadCharacter(r, c, d), m, b,
                   [x \in 1..m |-> IF x = m THEN Len(s) + 1 ELSE e[x]])
<1>1. PICK t \in Seq(S) : t = Append(s, c)
  BY AppendProperties
<1>2. PICK n \in Nat : n = Len(s)
  OBVIOUS
<1>3. PICK now : now = ReadCharacter(r, c, d)
  OBVIOUS
<1>4. Len(t) = n + 1
  BY <1>1, <1>2
<1>5. /\ \A i \in 0..n : Apart(t, {d}, i) <=> Apart(s, {d}, i)
      /\ ~Apart(t, {d}, n + 1) /\ Apart(t, {d}, n + 2)
      /\ \A i \in Starts(t, {d}) : i \in Starts(s, {d}) \/ Apart(s, {d}, n)
  <2>1. /\ \A i \in 0..n : Apart(t, {d}, i) <=> Apart(s, {d}, i)
        /\ Apart(t, {d}, n + 1) <=> c = d
        /\ Apart(t, {d}, n + 2)
        /\ \A i \in Starts(t, {d}) :
              \/ i \in Starts(s, {d})
              \/ i = n + 1 /\ c # d /\ Apart(s, {d}, n)
    BY <1>1, <1>2, ApartAppend, ZenonT(60)
  <2> QED
    BY <2>1, Zenon
<1>0. Listed(s, d, m, b, e)
  BY Zenon DEF Follows
<1>6. Listed(s, d, m, b, e) /\ m # 0 /\ e[m] = n
  BY <1>2, Zenon DEF Follows
<1>7. /\ m \in Nat /\ b \in [1..m -> Nat \ {0}] /\ e \in [1..m -> Nat]
      /\ \A x, y \in 1..m : x < y => b[x] < b[y]
      /\ \A i \in Starts(s, {d}) : \E x \in 1..m : i = b[x]
  BY <1>6, Zenon DEF Listed
<1>8. m \in 1..m
  BY <1>6, <1>7
<1>9. PICK e2 : e2 = [x \in 1..m |-> IF x = m THEN n + 1 ELSE e[x]]
  OBVIOUS
<1>10. /\ e2 \in [1..m -> Nat] /\ e2[m] = n + 1
       /\ \A x \in 1..m : x # m => e2[x] = e[x]
  BY <1>7, <1>8, <1>9
<1>11. ASSUME NEW x \in 1..m
       PROVE  /\ b[x] \in Nat \ {0} /\ e[x] \in Nat /\ b[x] <= e[x] /\ e[x] <= n
              /\ \A k \in b[x]..e[x] : ~Apart(t, {d}, k)
              /\ Apart(t, {d}, b[x] - 1)
  <2>1. /\ b[x] \in Nat \ {0} /\ e[x] \in Nat /\ b[x] <= e[x] /\ e[x] <= n
        /\ \A k \in b[x]..e[x] : ~Apart(s, {d}, k)
        /\ Apart(s, {d}, b[x] - 1) /\ Apart(s, {d}, e[x] + 1)
    BY <1>2, <1>0, ListedOne
  <2>2. /\ b[x] - 1 \in 0..n
        /\ \A k \in b[x]..e[x] : k \in 0..n
    BY <2>1
  <2> QED
    BY <1>5, <2>1, <2>2
<1>12. ASSUME NEW x \in 1..m, x # m
       PROVE  Apart(t, {d}, e[x] + 1) /\ SubSeq(t, b[x], e[x]) = SubSeq(s, b[x], e[x])
  <2>1. /\ b[x] \in Nat \ {0} /\ e[x] \in Nat /\ b[x] <= e[x] /\ e[x] <= n
        /\ Apart(s, {d}, e[x] + 1)
    BY <1>2, <1>0, ListedOne
  <2>2. e[x] < n
    <3>1. x < m
      BY <1>7, <1>12
    <3>2. e[x] < b[m]
      BY <1>6, <1>8, <3>1, ListedApart
    <3>3. b[m] \in Nat /\ b[m] <= n
      BY <1>6, <1>8, <1>11
    <3> QED
      BY <2>1, <3>2, <3>3
  <2>3. e[x] + 1 \in 0..n /\ b[x] \in 1..(n + 1) /\ e[x] \in 1..n
    BY <2>1, <2>2
  <2>4. Apart(t, {d}, e[x] + 1)
    BY <1>5, <2>1, <2>3
  <2>5. SubSeq(t, b[x], e[x]) = SubSeq(s, b[x], e[x])
    BY <1>1, <1>2, <2>3, SubSeqAppend
  <2> QED
    BY <2>4, <2>5
<1>13. ~Apart(s, {d}, n)
  <2>1. /\ b[m] \in Nat /\ b[m] <= n /\ \A k \in b[m]..n : ~Apart(t, {d}, k)
    BY <1>6, <1>8, <1>11
  <2>2. n \in b[m]..n /\ n \in 0..n
    BY <2>1
  <2> QED
    BY <1>5, <2>1, <2>2
<1>14. Listed(t, d, m, b, e2)
  <2>1. Len(t) \in Nat
    BY <1>4
  <2>2. \A i \in Starts(t, {d}) : \E x \in 1..m : i = b[x]
    BY <1>5, <1>7, <1>13, Zenon
  <2>3. ASSUME NEW x \in 1..m
        PROVE  /\ b[x] <= e2[x] /\ e2[x] <= Len(t)
               /\ \A k \in b[x]..e2[x] : ~Apart(t, {d}, k)
               /\ Apart(t, {d}, b[x] - 1) /\ Apart(t, {d}, e2[x] + 1)
    <3>1. CASE x = m
      <4>1. e2[x] = n + 1 /\ e[x] = n
        BY <1>6, <1>10, <3>1
      <4>2. /\ b[x] \in Nat \ {0} /\ b[x] <= n
            /\ \A k \in b[x]..n : ~Apart(t, {d}, k)
            /\ Apart(t, {d}, b[x] - 1)
        BY <1>11, <4>1
      <4>3. \A k \in b[x]..(n + 1) : k \in b[x]..n \/ k = n + 1
        BY <4>2
      <4>4. (n + 1) + 1 = n + 2 /\ b[x] <= n + 1 /\ n + 1 <= n + 1
        BY <4>2
      <4> QED
        BY <1>4, <1>5, <4>1, <4>2, <4>3, <4>4
    <3>2. CASE x # m
      <4>1. e2[x] = e[x]
        BY <1>10, <3>2
      <4>2. e[x] <= n + 1
        BY <1>11
      <4> QED
        BY <1>4, <1>11, <1>12, <3>2, <4>1, <4>2
    <3> QED
      BY <3>1, <3>2
  <2> QED
    BY <1>7, <1>10, <2>1, <2>2, <2>3, Zenon DEF Listed
<1>15. PICK f \in Seq(Fields(S)), w \in Seq(S) : f = r.fields /\ w = r.field
  BY DEF Readings
<1>16. w \in Fields(S) /\ Append(w, c) \in Fields(S)
  <2>1. w # <<>>
    BY <1>15
  <2>2. Append(w, c) \in Seq(S) /\ Append(w, c) # <<>>
    BY AppendProperties
  <2> QED
    BY <2>1, <2>2 DEF Fields
<1>17. Pushed(r) = Append(f, w) /\ Pushed(now) = Append(f, Append(w, c))
       /\ now.field # <<>>
  <2>1. now.fields = f /\ now.field = Append(w, c)
    BY <1>3, <1>15 DEF ReadCharacter
  <2>2. Append(w, c) # <<>>
    BY <1>16 DEF Fields
  <2> QED
    BY <1>15, <2>1, <2>2 DEF Pushed
<1>18. Len(f) = m - 1 /\ w = SubSeq(s, b[m], n)
       /\ \A x \in 1..m : x # m => f[x] = SubSeq(s, b[x], e[x])
  <2>1. Len(Append(f, w)) = m /\ \A x \in 1..m : Append(f, w)[x] = SubSeq(s, b[x], e[x])
    BY <1>17 DEF Follows
  <2>2. /\ Len(Append(f, w)) = Len(f) + 1 /\ Append(f, w)[Len(f) + 1] = w
        /\ \A x \in 1..Len(f) : Append(f, w)[x] = f[x]
    BY <1>16, AppendProperties
  <2>3. Len(f) \in Nat
    OBVIOUS
  <2>4. m = Len(f) + 1
    BY <2>1, <2>2
  <2>5. \A x \in 1..m : x # m => x \in 1..Len(f)
    BY <2>3, <2>4
  <2>6. Append(f, w)[m] = SubSeq(s, b[m], e[m])
    BY <1>8, <2>1
  <2>7. w = SubSeq(s, b[m], n)
    BY <1>6, <2>2, <2>4, <2>6
  <2>8. \A x \in 1..m : x # m => f[x] = SubSeq(s, b[x], e[x])
    BY <2>1, <2>2, <2>5
  <2>9. Len(f) = m - 1
    BY <2>3, <2>4
  <2> QED
    BY <2>7, <2>8, <2>9
<1>19. SubSeq(t, b[m], n + 1) = Append(w, c)
  <2>1. b[m] \in 1..(n + 1)
    <3>1. b[m] \in Nat \ {0} /\ b[m] <= n
      BY <1>6, <1>8, <1>11
    <3> QED
      BY <3>1
  <2> QED
    BY <1>1, <1>2, <1>18, <2>1, SubSeqAppend
<1>20. /\ Len(Pushed(now)) = m /\ Pushed(now)[m] = Append(w, c)
       /\ \A x \in 1..m : x # m => Pushed(now)[x] = f[x]
  <2>1. PICK v \in Fields(S) : v = Append(w, c)
    BY <1>16
  <2>2. /\ Len(Append(f, v)) = Len(f) + 1 /\ Append(f, v)[Len(f) + 1] = v
        /\ \A x \in 1..Len(f) : Append(f, v)[x] = f[x]
    BY AppendProperties
  <2>3. Len(f) + 1 = m
    BY <1>7, <1>18
  <2>4. \A x \in 1..m : x # m => x \in 1..Len(f)
    BY <1>7, <1>18
  <2> QED
    BY <1>17, <2>1, <2>2, <2>3, <2>4
<1>21. \A x \in 1..m : Pushed(now)[x] = SubSeq(t, b[x], e2[x])
  <2> TAKE x \in 1..m
  <2>1. CASE x = m
    BY <1>10, <1>19, <1>20, <2>1
  <2>2. CASE x # m
    BY <1>10, <1>12, <1>18, <1>20, <2>2
  <2> QED
    BY <2>1, <2>2
<1>22. e2[m] = Len(t)
  BY <1>4, <1>10
<1>23. Follows(t, d, now, m, b, e2)
  BY <1>6, <1>14, <1>17, <1>20, <1>21, <1>22, Zenon DEF Follows
<1> QED
  BY <1>1, <1>2, <1>3, <1>9, <1>23, Zenon

(* What _split finds are the longest stretches without the delimiter.      *)
THEOREM SplitIsWords ==
    ASSUME NEW S, NEW str \in Seq(S), NEW d
    PROVE  Split(str, d) = Words(str, {d})
<1> DEFINE G == {s \in Seq(S) : \E m, b, e : Follows(s, d, Read(s, d), m, b, e)}
<1>1. <<>> \in G
  <2>1. Read(<<>>, d) = NothingRead /\ <<>> \in Seq(S)
    BY ReadNothing, EmptySeq
  <2>2. Pushed(NothingRead) = <<>> /\ NothingRead.field = <<>>
    BY DEF Pushed, NothingRead
  <2>3. PICK b : b = [x \in 1..0 |-> 1]
    OBVIOUS
  <2>4. b \in [1..0 -> Nat \ {0}] /\ b \in [1..0 -> Nat]
    BY <2>3
  <2>5. Starts(<<>>, {d}) = {} /\ Apart(<<>>, {d}, 0) /\ Len(<<>>) = 0
    BY DEF Starts, Apart
  <2>6. \A x \in 1..0 : FALSE
    OBVIOUS
  <2>7. Listed(<<>>, d, 0, b, b)
    BY <2>4, <2>5, <2>6 DEF Listed
  <2>8. Follows(<<>>, d, NothingRead, 0, b, b)
    BY <2>2, <2>5, <2>6, <2>7 DEF Follows
  <2> QED
    BY <2>1, <2>8
<1>2. ASSUME NEW s \in Seq(S), NEW c \in S, s \in G
      PROVE  Append(s, c) \in G
  <2>1. PICK m, b, e : Follows(s, d, Read(s, d), m, b, e)
    BY <1>2
  <2>2. PICK r \in Readings(S) : r = Read(s, d)
    <3>1. Read(s, d) \in Readings(S \ {d})
      BY ReadType
    <3>2. S \ {d} \subseteq S
      OBVIOUS
    <3>3. Seq(Fields(S \ {d})) \subseteq Seq(Fields(S)) /\ Seq(S \ {d}) \subseteq Seq(S)
      BY <3>2, Wider
    <3> QED
      BY <3>1, <3>3 DEF Readings
  <2>3. Read(Append(s, c), d) = ReadCharacter(r, c, d)
    BY <2>2, ReadAppend
  <2>4. \E m2, b2, e2 : Follows(Append(s, c), d, ReadCharacter(r, c, d), m2, b2, e2)
    <3>1. CASE c = d
      BY <2>1, <2>2, <3>1, FollowsDelimiter
    <3>2. CASE c # d /\ r.field = <<>>
      BY <2>1, <2>2, <3>2, FollowsFirst, Zenon
    <3>3. CASE c # d /\ r.field # <<>>
      BY <2>1, <2>2, <3>3, FollowsNext, Zenon
    <3> QED
      BY <3>1, <3>2, <3>3
  <2>5. Append(s, c) \in Seq(S)
    BY AppendProperties
  <2> QED
    BY <2>3, <2>4, <2>5
<1> HIDE DEF G
<1>3. \A s \in Seq(S) : s \in G
  BY <1>1, <1>2, StringInduction
<1>4. PICK m, b, e : Follows(str, d, Read(str, d), m, b, e)
  BY <1>3 DEF G
<1>0. Listed(str, d, m, b, e)
  BY <1>4, Zenon DEF Follows
<1>5. /\ Len(Split(str, d)) = m
      /\ \A x \in 1..m : Split(str, d)[x] = SubSeq(str, b[x], e[x])
  BY <1>4, Zenon DEF Follows, Split
<1>6. Words(str, {d}) = Stretches(str, m, b, e)
  BY <1>0, ListedWords, Zenon
<1>7. PICK w \in Seq(Fields(S \ {d})) : w = Split(str, d)
  BY SplitType
<1>8. w = [x \in 1..Len(w) |-> w[x]]
  OBVIOUS
<1>9. [x \in 1..m |-> w[x]] = [x \in 1..m |-> SubSeq(str, b[x], e[x])]
  BY <1>5, <1>7
<1> QED
  BY <1>5, <1>6, <1>7, <1>8, <1>9 DEF Stretches

-----------------------------------------------------------------------------
(* Where a line is cut                                                     *)

Before(s, k) == SubSeq(s, 1, k - 1)
Beyond(s, k) == SubSeq(s, k + 1, Len(s))

(* The string s is l, its k-th character, and r.                           *)
Cut(S, s, k, l, r) ==
    /\ l \in Seq(S) /\ r \in Seq(S)
    /\ Len(l) = k - 1 /\ \A i \in 1..(k - 1) : l[i] = s[i]
    /\ Len(r) = Len(s) - k /\ \A i \in 1..(Len(s) - k) : r[i] = s[k + i]
    /\ s = After(l, s[k], r)

LEMMA CutAt ==
    ASSUME NEW S, NEW s \in Seq(S), NEW k \in 1..Len(s)
    PROVE  Cut(S, s, k, Before(s, k), Beyond(s, k))
<1>0. PICK l, r : l = SubSeq(s, 1, k - 1) /\ r = SubSeq(s, k + 1, Len(s))
  OBVIOUS
<1>1. PICK n \in Nat : n = Len(s)
  OBVIOUS
<1>2. k \in 1..n /\ \A i \in 1..n : s[i] \in S
  BY <1>1
<1>3. l \in Seq(S) /\ Len(l) = k - 1 /\ \A i \in 1..(k - 1) : l[i] = s[i]
  <2>1. k - 1 \in Int /\ 1 \in Int /\ \A i \in 1..(k - 1) : s[i] \in S
    BY <1>2
  <2>2. /\ SubSeq(s, 1, k - 1) \in Seq(S)
        /\ Len(SubSeq(s, 1, k - 1)) = IF 1 <= k - 1 THEN (k - 1) - 1 + 1 ELSE 0
        /\ \A i \in 1..((k - 1) - 1 + 1) : SubSeq(s, 1, k - 1)[i] = s[1 + i - 1]
    BY <2>1, SubSeqProperties
  <2>3. (k - 1) - 1 + 1 = k - 1 /\ (1 <= k - 1 \/ k - 1 = 0)
    BY <1>2
  <2>4. \A i \in 1..(k - 1) : 1 + i - 1 = i
    OBVIOUS
  <2> QED
    BY <1>0, <2>2, <2>3, <2>4
<1>4. r \in Seq(S) /\ Len(r) = n - k /\ \A i \in 1..(n - k) : r[i] = s[k + i]
  <2>1. k + 1 \in Int /\ n \in Int /\ \A i \in (k + 1)..n : s[i] \in S
    BY <1>2
  <2>2. /\ SubSeq(s, k + 1, n) \in Seq(S)
        /\ Len(SubSeq(s, k + 1, n)) = IF k + 1 <= n THEN n - (k + 1) + 1 ELSE 0
        /\ \A i \in 1..(n - (k + 1) + 1) : SubSeq(s, k + 1, n)[i] = s[(k + 1) + i - 1]
    BY <2>1, SubSeqProperties
  <2>3. n - (k + 1) + 1 = n - k /\ (k + 1 <= n \/ n - k = 0)
    BY <1>2
  <2>4. \A i \in 1..(n - k) : (k + 1) + i - 1 = k + i
    BY <1>2
  <2> QED
    BY <1>0, <1>1, <2>2, <2>3, <2>4
<1>5. PICK a \in Seq(S) : a = l
  BY <1>3
<1>6. PICK z \in Seq(S) : z = r
  BY <1>4
<1>7. PICK c \in S : c = s[k]
  BY <1>2
<1>8. PICK v \in Seq(S) : v = Append(a, c)
  BY AppendProperties
<1>9. Len(v) = k /\ v[k] = c /\ \A i \in 1..(k - 1) : v[i] = s[i]
  BY <1>2, <1>3, <1>5, <1>8
<1>10. PICK w \in Seq(S) : w = v \o z
  BY ConcatProperties
<1>11. /\ Len(w) = n /\ \A i \in 1..k : w[i] = v[i]
       /\ \A i \in (k + 1)..n : w[i] = z[i - k]
  <2>1. /\ Len(v \o z) = Len(v) + Len(z)
        /\ \A i \in 1..Len(v) : (v \o z)[i] = v[i]
        /\ \A i \in (Len(v) + 1)..(Len(v) + Len(z)) : (v \o z)[i] = z[i - Len(v)]
    OBVIOUS
  <2>2. Len(v) = k /\ Len(z) = n - k /\ k + (n - k) = n
    BY <1>2, <1>4, <1>6, <1>9
  <2> QED
    BY <1>10, <2>1, <2>2, Zenon
<1>12. ASSUME NEW i \in 1..n
       PROVE  w[i] = s[i]
  <2>1. CASE i \in 1..(k - 1)
    BY <1>2, <1>9, <1>11, <2>1
  <2>2. CASE i = k
    BY <1>2, <1>7, <1>9, <1>11, <2>2
  <2>3. CASE i \in (k + 1)..n
    <3>1. i - k \in 1..(n - k) /\ k + (i - k) = i
      BY <1>2, <2>3
    <3> QED
      BY <1>4, <1>6, <1>11, <2>3, <3>1
  <2> QED
    BY <1>2, <2>1, <2>2, <2>3
<1>13. w = s
  BY <1>1, <1>11, <1>12, SeqEqual
<1>14. s = After(l, s[k], r)
  BY <1>5, <1>6, <1>7, <1>8, <1>10, <1>13, Zenon DEF After
<1>15. Cut(S, s, k, l, r)
  BY <1>1, <1>3, <1>4, <1>14, Zenon DEF Cut
<1> QED
  BY <1>0, <1>15, Zenon DEF Before, Beyond

LEMMA RangeType ==
    ASSUME NEW S, NEW s \in Seq(S), NEW c, \A i \in 1..Len(s) : s[i] # c
    PROVE  s \in Seq(S \ {c}) /\ c \notin Range(s)
<1>1. \A i \in 1..Len(s) : s[i] \in S \ {c}
  OBVIOUS
<1>2. s \in Seq(S \ {c})
  BY <1>1
<1>3. c \notin Range(s)
  BY DEF Range
<1> QED
  BY <1>2, <1>3

(* The first place of a delimiter.                                         *)
LEMMA FirstPlace ==
    ASSUME NEW S, NEW s \in Seq(S), NEW d, d \in Range(s)
    PROVE  \E l \in Seq(S \ {d}), r \in Seq(S) : s = After(l, d, r)
<1> DEFINE T == {i \in 1..Len(s) : s[i] = d}
<1>1. T # {} /\ T \subseteq Nat
  BY DEF Range
<1> HIDE DEF T
<1>2. PICK k \in T : \A i \in T : k <= i
  BY <1>1, LeastNumber
<1>3. k \in 1..Len(s) /\ s[k] = d
  BY DEF T
<1>4. PICK l, r : Cut(S, s, k, l, r)
  BY <1>3, CutAt
<1>5. /\ l \in Seq(S) /\ r \in Seq(S)
      /\ Len(l) = k - 1 /\ \A i \in 1..(k - 1) : l[i] = s[i]
      /\ s = After(l, d, r)
  <2>1. /\ l \in Seq(S) /\ r \in Seq(S)
        /\ Len(l) = k - 1 /\ \A i \in 1..(k - 1) : l[i] = s[i]
        /\ s = After(l, s[k], r)
    BY <1>4, Zenon DEF Cut
  <2> QED
    BY <1>3, <2>1
<1>6. \A i \in 1..Len(l) : l[i] # d
  <2> SUFFICES ASSUME NEW i \in 1..(k - 1), l[i] = d PROVE FALSE
    BY <1>5
  <2>1. i \in 1..Len(s) /\ i < k /\ s[i] = d
    BY <1>3, <1>5
  <2>2. i \in T
    BY <2>1 DEF T
  <2> QED
    BY <1>2, <1>3, <2>1, <2>2
<1>7. l \in Seq(S \ {d})
  BY <1>5, <1>6, RangeType
<1> QED
  BY <1>5, <1>7

LEMMA BeforeAfter ==
    ASSUME NEW S, NEW c \in S, NEW l \in Seq(S), NEW d \in S, NEW r \in Seq(S)
    PROVE  After(<<>>, c, After(l, d, r)) = After(After(<<>>, c, l), d, r)
<1>1. PICK h \in Seq(S) : h = Append(<<>>, c)
  BY EmptySeq, AppendProperties
<1>2. PICK m \in Seq(S) : m = Append(l, d)
  BY AppendProperties
<1>3. h \o (m \o r) = (h \o m) \o r
  <2>1. h \in Seq(S) /\ m \in Seq(S)
    BY <1>1, <1>2
  <2> QED
    BY <2>1, ConcatAssociative, SMTT(30)
<1>4. h \o m = Append(h \o l, d)
  BY <1>1, <1>2, ConcatAppend
<1> QED
  BY <1>1, <1>2, <1>3, <1>4, Zenon DEF After

(* The first word and the others.                                          *)
Begins(T, words, x, q) ==
    /\ words \in Seq(T) /\ words # <<>> /\ Head(words) = x /\ Tail(words) = q
    /\ words[1] = x /\ Len(words) = Len(q) + 1
    /\ \A i \in 1..Len(q) : words[i + 1] = q[i]

LEMMA JoinedOne ==
    ASSUME NEW T, NEW x \in T, NEW q \in Seq(T)
    PROVE  Begins(T, Joined(<<x>>, q), x, q)
<1>1. PICK w : w = <<x>> \o q
  OBVIOUS
<1>2. w \in Seq(T) /\ Len(w) = Len(q) + 1 /\ w[1] = x
  BY <1>1
<1>3. \A i \in 1..Len(q) : w[i + 1] = q[i]
  BY <1>1
<1>4. w # <<>> /\ Head(w) = x
  BY <1>2
<1>5. Tail(w) = q
  <2>1. PICK t \in Seq(T) : t = Tail(w)
    BY <1>2, <1>4, HeadTailProperties
  <2>2. Len(t) = Len(q) /\ \A i \in 1..Len(q) : t[i] = w[i + 1]
    BY <1>2, <1>4, <2>1, HeadTailProperties
  <2>3. t = q
    BY <1>3, <2>2, SeqEqual
  <2> QED
    BY <2>1, <2>3
<1> QED
  BY <1>1, <1>2, <1>3, <1>4, <1>5, Zenon DEF Joined, Begins

LEMMA AfterNothingTail ==
    ASSUME NEW S, NEW c \in S, NEW rest \in Seq(S)
    PROVE  Tail(After(<<>>, c, rest)) = rest
<1>1. Append(<<>>, c) = <<c>>
  OBVIOUS
<1>2. After(<<>>, c, rest) = Joined(<<c>>, rest)
  BY <1>1, Zenon DEF After, Joined
<1> QED
  <2>1. Begins(S, Joined(<<c>>, rest), c, rest)
    BY JoinedOne
  <2> QED
    BY <1>2, <2>1, Zenon DEF Begins

(* A character in front of the first word becomes a part of it.            *)
Prefixing(S, c, d, mid, l, q) ==
    /\ l \in Fields(S \ {d}) /\ q \in Seq(Fields(S \ {d}))
    /\ Split(mid, d) = Joined(<<l>>, q)
    /\ Split(After(<<>>, c, mid), d) = Joined(<<After(<<>>, c, l)>>, q)
    /\ After(<<>>, c, l) \in Fields(S \ {d})
    /\ Tail(After(<<>>, c, l)) = l

LEMMA PrefixWord ==
    ASSUME NEW S, NEW c \in S, NEW d \in S, c # d,
           NEW mid \in Seq(S), mid # <<>>, mid[1] # d, d \in Range(mid)
    PROVE  \E l, q : Prefixing(S, c, d, mid, l, q)
<1>1. PICK l \in Seq(S \ {d}), r \in Seq(S) : mid = After(l, d, r)
  BY FirstPlace
<1>2. l # <<>>
  <2> SUFFICES ASSUME l = <<>> PROVE FALSE
    OBVIOUS
  <2>1. mid = Append(<<>>, d) \o r
    BY <1>1 DEF After
  <2>2. mid[1] = d
    BY <2>1
  <2> QED
    BY <2>2
<1>3. l \in Fields(S \ {d})
  BY <1>2 DEF Fields
<1>4. Split(l, d) = <<l>> /\ l \in Seq(S)
  BY <1>3, SplitWord
<1>5. PICK q \in Seq(Fields(S \ {d})) : q = Split(r, d)
  BY SplitType
<1>6. Split(mid, d) = Joined(<<l>>, q)
  <2>1. Split(After(l, d, r), d) = Joined(Split(l, d), Split(r, d))
    <3>1. r \in Seq(S)
      BY <1>1
    <3> QED
      BY <1>4, <3>1, SplitAfter, ZenonT(100)
  <2> QED
    BY <1>1, <1>4, <1>5, <2>1
<1>7. PICK k : k = After(<<>>, c, l)
  OBVIOUS
<1>8. k \in Fields(S \ {d}) /\ Tail(k) = l /\ k \in Seq(S)
  <2>1. c \in S \ {d}
    OBVIOUS
  <2>2. k \in Seq(S \ {d}) /\ k # <<>>
    BY <1>7, <2>1, AfterNothing
  <2>5. Tail(k) = l
    <3>1. l \in Seq(S \ {d})
      BY <1>1
    <3> QED
      BY <1>7, <2>1, <3>1, AfterNothingTail
  <2>6. k \in Seq(S)
    BY <1>4, <1>7, AfterNothing
  <2> QED
    BY <2>2, <2>5, <2>6 DEF Fields
<1>9. After(<<>>, c, mid) = After(k, d, r)
  <2>1. r \in Seq(S)
    BY <1>1
  <2>2. After(<<>>, c, After(l, d, r)) = After(After(<<>>, c, l), d, r)
    BY <1>4, <2>1, BeforeAfter
  <2> QED
    BY <1>1, <1>7, <2>2
<1>10. Split(k, d) = <<k>>
  BY <1>8, SplitWord
<1>11. Split(After(<<>>, c, mid), d) = Joined(<<k>>, q)
  <2>1. Split(After(k, d, r), d) = Joined(Split(k, d), Split(r, d))
    BY <1>1, <1>8, SplitAfter
  <2> QED
    BY <1>5, <1>9, <1>10, <2>1
<1> QED
  BY <1>3, <1>5, <1>6, <1>7, <1>8, <1>11, Zenon DEF Prefixing

(* The field before the text and the text, whichever way the field is read.*)
TextRead(str, c, x, text) ==
    /\ Split(str, c) # <<>> /\ Head(Split(str, c)) = x
    /\ Text(Split(str, c)) = text

OneWord(str, c, x) == Split(str, c) = <<x>>

LEMMA SplitTextOf ==
    ASSUME NEW S, NEW c \in S, NEW pre \in Seq(S), NEW x \in Seq(S),
           OneWord(pre, c, x), NEW text \in Seq(S \ {c})
    PROVE  TextRead(After(pre, c, text), c, x, text)
<1>1. text \in Seq(S)
  BY SeqMonotonic
<1>2. PICK fields : fields = Split(After(pre, c, text), c)
  OBVIOUS
<1>3. fields = Joined(<<x>>, Split(text, c))
  <2>1. fields = Joined(Split(pre, c), Split(text, c))
    BY <1>1, <1>2, SplitAfter
  <2>2. Split(pre, c) = <<x>>
    BY DEF OneWord
  <2> QED
    BY <2>1, <2>2
<1>4. c \notin S \ {c}
  OBVIOUS
<1>5. Split(text, c) = IF text = <<>> THEN <<>> ELSE <<text>>
  BY <1>4, SplitFree
<1>6. CASE text = <<>>
  <2>1. fields = <<x>>
    BY <1>3, <1>5, <1>6, JoinedFields
  <2>2. fields # <<>> /\ Head(fields) = x /\ Tail(fields) = <<>>
    BY <2>1
  <2>3. FlattenSeq(<<>>) = <<>>
    BY <1>1, FlattenOne
  <2> QED
    BY <1>2, <1>6, <2>2, <2>3, Zenon DEF Text, TextRead
<1>7. CASE text # <<>>
  <2>1. fields = <<x, text>>
    BY <1>3, <1>5, <1>7, JoinedFields
  <2>2. fields # <<>> /\ Head(fields) = x /\ Tail(fields) = <<text>>
    BY <2>1
  <2>3. FlattenSeq(<<text>>) = text
    BY <1>1, FlattenOne
  <2> QED
    BY <1>2, <2>2, <2>3, Zenon DEF Text, TextRead
<1> QED
  BY <1>6, <1>7

-----------------------------------------------------------------------------
(* The grammar: the parts of a line                                        *)

(* What the grammar makes of the words from the n-th on.                   *)
ListsFrom(words, n) ==
    FlattenSeq([i \in 1..(Len(words) - n) |-> Words(words[n + i], {","})])

LEMMA Without ==
    ASSUME NEW S, NEW s \in Seq(S), NEW c, c \notin Range(s)
    PROVE  s \in Seq(S \ {c})
  BY DEF Range

LEMMA PiecesWords ==
    ASSUME NEW S, NEW w \in Fields(S)
    PROVE  Pieces(w) = Words(w, {","})
<1>1. w \in Seq(S) /\ w # <<>>
  BY DEF Fields
<1>2. Split(w, ",") = Words(w, {","})
  BY <1>1, SplitIsWords
<1>3. CASE "," \in Range(w)
  BY <1>2, <1>3 DEF Pieces
<1>4. CASE "," \notin Range(w)
  <2>2. w \in Seq(S \ {","})
    BY <1>1, <1>4, Without
  <2>3. PICK R : R = S \ {","}
    OBVIOUS
  <2>4. "," \notin R /\ w \in Seq(R)
    BY <2>2, <2>3
  <2>5. Split(w, ",") = <<w>>
    BY <1>1, <2>4, SplitFree
  <2> QED
    BY <1>2, <1>4, <2>5 DEF Pieces
<1> QED
  BY <1>3, <1>4

LEMMA ListsAreParameters ==
    ASSUME NEW S, NEW words \in Seq(Fields(S)), NEW q \in Seq(Fields(S)), q # <<>>,
           NEW n \in Nat, Len(words) = n + Len(q) - 1,
           \A i \in 1..Len(q) : words[n + i - 1] = q[i]
    PROVE  words[n] = Head(q) /\ ListsFrom(words, n) = Parameters(Tail(q))
<1>1. Len(q) \in Nat \ {0}
  BY EmptySeq
<1>2. words[n] = Head(q)
  <2>1. words[n + 1 - 1] = q[1] /\ n + 1 - 1 = n
    BY <1>1
  <2> QED
    BY <2>1
<1>3. PICK t \in Seq(Fields(S)) : t = Tail(q)
  BY HeadTailProperties
<1>4. Len(t) = Len(q) - 1 /\ \A i \in 1..Len(t) : t[i] = q[i + 1]
  BY <1>1, <1>3, HeadTailProperties
<1>5. Len(words) - n = Len(t) /\ Len(t) \in Nat
  BY <1>1, <1>4
<1>6. ASSUME NEW i \in 1..Len(t)
      PROVE  Words(words[n + i], {","}) = Pieces(t[i])
  <2>1. i + 1 \in 1..Len(q) /\ n + (i + 1) - 1 = n + i
    BY <1>1, <1>4, <1>5
  <2>2. words[n + i] = t[i]
    BY <1>4, <2>1
  <2>3. t[i] \in Fields(S)
    BY <1>3
  <2> QED
    BY <2>2, <2>3, PiecesWords
<1>7. [i \in 1..(Len(words) - n) |-> Words(words[n + i], {","})]
        = [i \in DOMAIN t |-> Pieces(t[i])]
  <2>1. DOMAIN t = 1..Len(t)
    OBVIOUS
  <2> QED
    BY <1>5, <1>6, <2>1
<1>8. ListsFrom(words, n) = Parameters(t)
  BY <1>7, Zenon DEF ListsFrom, Parameters, Pieces
<1> QED
  BY <1>2, <1>3, <1>8

(* A message by its parts.                                                 *)
Means(msg, p, k, ps) == msg = [prefix |-> p, command |-> k, parameters |-> ps]

LEMMA MeaningParts ==
    ASSUME NEW str
    PROVE  LET words == AheadWords(str)
               text == <<Beyond(str, TextColon(str))>>
           IN  /\ ~HasPrefix(str) /\ ~HasText(str) =>
                      Means(Meaning(str), Nickname, words[1],
                            Joined(ListsFrom(words, 1), <<>>))
               /\ ~HasPrefix(str) /\ HasText(str) =>
                      Means(Meaning(str), Nickname, words[1],
                            Joined(ListsFrom(words, 1), text))
               /\ HasPrefix(str) /\ HasText(str) =>
                      Means(Meaning(str), Tail(words[1]), words[2],
                            Joined(ListsFrom(words, 2), text))
<1>1. ASSUME ~HasPrefix(str), ~HasText(str)
      PROVE  Means(Meaning(str), Nickname, AheadWords(str)[1],
                   Joined(ListsFrom(AheadWords(str), 1), <<>>))
  BY <1>1, Zenon DEF Means, Meaning, Joined, ListsFrom
<1>2. ASSUME ~HasPrefix(str), HasText(str)
      PROVE  Means(Meaning(str), Nickname, AheadWords(str)[1],
                   Joined(ListsFrom(AheadWords(str), 1), <<Beyond(str, TextColon(str))>>))
  BY <1>2, Zenon DEF Means, Meaning, Joined, ListsFrom, Beyond
<1>3. ASSUME HasPrefix(str), HasText(str)
      PROVE  Means(Meaning(str), Tail(AheadWords(str)[1]), AheadWords(str)[2],
                   Joined(ListsFrom(AheadWords(str), 2), <<Beyond(str, TextColon(str))>>))
  BY <1>3, Zenon DEF Means, Meaning, Joined, ListsFrom, Beyond
<1> QED
  BY <1>1, <1>2, <1>3, Zenon

LEMMA UtilityPlain ==
    ASSUME NEW T, Nickname \in Fields(T), NEW q \in Seq(Fields(T)), q # <<>>
    PROVE  Means(Utility(q, FALSE), Nickname, Head(q), Parameters(Tail(q)))
<1>1. Named(q, FALSE) = q
  BY DEF Named
<1>2. PICK u : u = Utility(q, FALSE)
  OBVIOUS
<1>3. /\ u = [prefix |-> u.prefix, command |-> u.command, parameters |-> u.parameters]
      /\ u.prefix = Nickname /\ u.command = Head(q) /\ u.parameters = Parameters(Tail(q))
  <2>1. u = [prefix |-> u.prefix, command |-> u.command, parameters |-> u.parameters]
    BY <1>2 DEF Utility
  <2>2. u.prefix = Nickname
    BY <1>2 DEF Utility
  <2>3. u.command = Head(q) /\ u.parameters = Parameters(Tail(q))
    BY <1>2 DEF Utility
  <2> QED
    BY <2>1, <2>2, <2>3
<1> QED
  BY <1>2, <1>3, Zenon DEF Means

LEMMA UtilityPrefixed ==
    ASSUME NEW T, Nickname \in Fields(T), NEW x \in Fields(T),
           NEW q \in Seq(Fields(T)), q # <<>>
    PROVE  Means(Utility(Joined(<<x>>, q), TRUE), x, Head(q), Parameters(Tail(q)))
<1>1. PICK words : words = Joined(<<x>>, q)
  OBVIOUS
<1>2. /\ words \in Seq(Fields(T)) /\ words # <<>>
      /\ Head(words) = x /\ Tail(words) = q
  <2>1. Begins(Fields(T), Joined(<<x>>, q), x, q)
    BY JoinedOne
  <2> QED
    BY <1>1, <2>1, Zenon DEF Begins
<1>3. Named(words, TRUE) = q
  BY <1>2 DEF Named
<1>4. PICK u : u = Utility(words, TRUE)
  OBVIOUS
<1>5. /\ u = [prefix |-> u.prefix, command |-> u.command, parameters |-> u.parameters]
      /\ u.prefix = x /\ u.command = Head(q) /\ u.parameters = Parameters(Tail(q))
  BY <1>2, <1>3, <1>4, UtilityParts
<1> QED
  BY <1>1, <1>4, <1>5, Zenon DEF Means

(* The text becomes the last parameter.                                    *)
LEMMA ComposedMeans ==
    ASSUME NEW msg, msg = [prefix |-> msg.prefix, command |-> msg.command,
                           parameters |-> msg.parameters],
           NEW words, NEW isPrefix, NEW text, Composed(msg, words, isPrefix, text),
           NEW p, NEW k, NEW ps, Means(Utility(words, isPrefix), p, k, ps)
    PROVE  Means(msg, p, k, Append(ps, text))
<1>1. PICK u : u = Utility(words, isPrefix)
  OBVIOUS
<1>2. u.prefix = p /\ u.command = k /\ u.parameters = ps
  BY <1>1 DEF Means
<1>3. /\ msg.prefix = p /\ msg.command = k /\ msg.parameters = Append(ps, text)
  BY <1>1, <1>2, Zenon DEF Composed
<1> QED
  BY <1>3, Zenon DEF Means

LEMMA AppendJoined ==
    ASSUME NEW T, NEW s \in Seq(T), NEW x \in T
    PROVE  Append(s, x) = Joined(s, <<x>>) /\ s = Joined(s, <<>>)
<1>1. Append(s, x) = s \o <<x>>
  BY AppendIsConcat
<1>2. s \o <<>> = s
  BY ConcatEmptySeq
<1> QED
  BY <1>1, <1>2, Zenon DEF Joined

(* A line is said in words x, then text.                                   *)
Told(S, str, c, x, text) ==
    /\ x \in Fields(S \ {c}) /\ text \in Seq(S \ {c}) /\ c \in Range(str)
    /\ Split(str, c) # <<>> /\ Head(Split(str, c)) = x
    /\ Text(Split(str, c)) = text

LEMMA ToldLine ==
    ASSUME NEW S, NEW str \in Seq(S), NEW c, NEW k \in 2..Len(str), str[k] = c,
           \A i \in 1..Len(str) : str[i] = c => i = k
    PROVE  Told(S, str, c, Before(str, k), Beyond(str, k))
<1>1. PICK l, r : l = Before(str, k) /\ r = Beyond(str, k)
  OBVIOUS
<1>2. k \in 1..Len(str) /\ c \in S
  OBVIOUS
<1>3. Cut(S, str, k, l, r)
  BY <1>1, <1>2, CutAt
<1>4. /\ l \in Seq(S) /\ r \in Seq(S)
      /\ Len(l) = k - 1 /\ \A i \in 1..(k - 1) : l[i] = str[i]
      /\ Len(r) = Len(str) - k /\ \A i \in 1..(Len(str) - k) : r[i] = str[k + i]
      /\ str = After(l, c, r)
  BY <1>3 DEF Cut
<1>5. l \in Seq(S \ {c})
  <2>1. \A i \in 1..Len(l) : l[i] # c
    BY <1>4
  <2> QED
    BY <1>4, <2>1, RangeType
<1>6. r \in Seq(S \ {c})
  <2>1. \A i \in 1..Len(r) : r[i] # c
    BY <1>4
  <2> QED
    BY <1>4, <2>1, RangeType
<1>7. l # <<>>
  BY <1>4
<1>8. l \in Fields(S \ {c})
  BY <1>5, <1>7 DEF Fields
<1>9. /\ Split(str, c) # <<>> /\ Head(Split(str, c)) = l
      /\ Text(Split(str, c)) = r
  <2>1. LET fields == Split(After(l, c, r), c)
        IN  fields # <<>> /\ Head(fields) = l /\ Text(fields) = r
    BY <1>2, <1>6, <1>8, SplitText
  <2> QED
    BY <1>4, <2>1, Zenon
<1>10. c \in Range(str)
  <2>1. k \in DOMAIN str
    BY <1>2
  <2> QED
    BY <2>1 DEF Range
<1> QED
  BY <1>1, <1>6, <1>8, <1>9, <1>10, Zenon DEF Told

(* A line that names who says it: the words before the text are read with  *)
(* the first character and without it.                                     *)
SaidBy(S, str, c, d, before, l, q, mid, text) ==
    /\ Voiced(S, str, c, mid, text) /\ text \in Seq(S \ {c})
    /\ before \in Seq(S) /\ q \in Seq(Fields(S \ {d})) /\ l \in Fields(S \ {d})
    /\ Split(mid, d) = Joined(<<l>>, q)
    /\ Split(before, d) = Joined(<<After(<<>>, c, l)>>, q)
    /\ After(<<>>, c, l) \in Fields(S \ {d})
    /\ Tail(After(<<>>, c, l)) = l

LEMMA PrefixedLine ==
    ASSUME NEW S, NEW str \in Seq(S), NEW c, NEW d, c # d,
           NEW k \in 2..Len(str), str[k] = c, str[1] = c,
           str[2] # d, str[k - 1] = d,
           \A i \in 1..Len(str) : str[i] = c => i = 1 \/ i = k
    PROVE  \E l, q, mid :
              SaidBy(S, str, c, d, Before(str, k), l, q, mid, Beyond(str, k))
<1>1. PICK w, r : w = Before(str, k) /\ r = Beyond(str, k)
  OBVIOUS
<1>2. k \in 1..Len(str) /\ c \in S /\ d \in S /\ k > 3 /\ 1 \in 1..Len(str)
  OBVIOUS
<1>3. Cut(S, str, k, w, r)
  BY <1>1, <1>2, CutAt
<1>4. /\ w \in Seq(S) /\ r \in Seq(S)
      /\ Len(w) = k - 1 /\ \A i \in 1..(k - 1) : w[i] = str[i]
      /\ Len(r) = Len(str) - k /\ \A i \in 1..(Len(str) - k) : r[i] = str[k + i]
      /\ str = After(w, c, r)
  BY <1>3 DEF Cut
<1>5. r \in Seq(S \ {c})
  <2>1. \A i \in 1..Len(r) : r[i] # c
    BY <1>2, <1>4
  <2> QED
    BY <1>4, <2>1, RangeType
<1>6. PICK mid \in Seq(S) :
        /\ w = After(<<>>, c, mid)
        /\ Len(mid) = k - 2 /\ \A i \in 1..(k - 2) : mid[i] = w[1 + i]
  <2>1. 1 \in 1..Len(w) /\ w[1] = c
    BY <1>2, <1>4
  <2>2. PICK no, mid : Cut(S, w, 1, no, mid)
    BY <1>4, <2>1, CutAt
  <2>3. /\ no \in Seq(S) /\ Len(no) = 1 - 1 /\ mid \in Seq(S)
        /\ Len(mid) = Len(w) - 1 /\ \A i \in 1..(Len(w) - 1) : mid[i] = w[1 + i]
        /\ w = After(no, c, mid)
    BY <2>1, <2>2 DEF Cut
  <2>4. no = <<>>
    BY <2>3, EmptySeq
  <2>5. Len(w) - 1 = k - 2
    BY <1>2, <1>4
  <2> QED
    BY <2>3, <2>4, <2>5
<1>7. /\ mid # <<>> /\ mid[1] # d /\ mid[k - 2] = d /\ k - 2 \in 1..Len(mid)
      /\ \A i \in 1..Len(mid) : mid[i] # c
  <2>1. \A i \in 1..(k - 2) : 1 + i \in 1..(k - 1) /\ mid[i] = str[1 + i]
    BY <1>2, <1>4, <1>6
  <2>2. mid[1] = str[2] /\ mid[k - 2] = str[k - 1]
    BY <1>2, <2>1
  <2>3. \A i \in 1..(k - 2) : mid[i] # c
    BY <1>2, <2>1
  <2>4. mid # <<>> /\ k - 2 \in 1..Len(mid)
    BY <1>2, <1>6
  <2> QED
    BY <1>6, <2>2, <2>3, <2>4
<1>8. d \in Range(mid)
  BY <1>7 DEF Range
<1>9. PICK l, q : Prefixing(S, c, d, mid, l, q)
  BY <1>2, <1>7, <1>8, PrefixWord
<1>10. mid \in Fields(S \ {c})
  <2>1. mid \in Seq(S \ {c})
    BY <1>7, RangeType
  <2> QED
    BY <1>7, <2>1 DEF Fields
<1>11. OneWord(w, c, mid)
  <2>1. Split(After(<<>>, c, mid), c) = Split(mid, c)
    BY <1>2, SplitLine
  <2>2. Split(mid, c) = <<mid>>
    BY <1>10, SplitWord
  <2> QED
    BY <1>6, <2>1, <2>2, Zenon DEF OneWord
<1>12. TextRead(str, c, mid, r)
  <2>1. TextRead(After(w, c, r), c, mid, r)
    BY <1>2, <1>4, <1>5, <1>11, SplitTextOf
  <2> QED
    BY <1>4, <2>1, Zenon
<1>13. str # <<>> /\ Head(str) = c /\ c \in Range(str)
  <2>1. k \in DOMAIN str
    BY <1>2
  <2>2. str # <<>> /\ Head(str) = str[1]
    BY <1>2
  <2> QED
    BY <2>1, <2>2 DEF Range
<1>14. Voiced(S, str, c, mid, r)
  BY <1>12, <1>13, Zenon DEF Voiced, TextRead
<1>15. SaidBy(S, str, c, d, w, l, q, mid, r)
  BY <1>4, <1>5, <1>6, <1>9, <1>14, Zenon DEF SaidBy, Prefixing
<1> QED
  BY <1>1, <1>15

-----------------------------------------------------------------------------
(* The grammar: the three kinds of lines                                   *)

(* Where the text of a line begins.                                        *)
LEMMA TextColonFacts ==
    ASSUME NEW S, NEW str \in Seq(S), HasText(str)
    PROVE  /\ TextColon(str) \in 2..Len(str)
           /\ str[TextColon(str)] = Colon /\ str[TextColon(str) - 1] = Blank
<1>0. DOMAIN str = 1..Len(str)
  OBVIOUS
<1>1. TextColons(str) \subseteq Nat /\ TextColons(str) # {}
  <2>1. TextColons(str) \subseteq DOMAIN str
    BY Zenon DEF TextColons, Colons
  <2> QED
    BY <1>0, <2>1 DEF HasText
<1>2. PICK k \in TextColons(str) : \A j \in TextColons(str) : k <= j
  BY <1>1, LeastNumber
<1>3. TextColon(str) \in TextColons(str)
  BY <1>2 DEF TextColon
<1>4. /\ TextColon(str) \in DOMAIN str \ {1}
      /\ str[TextColon(str)] = Colon /\ str[TextColon(str) - 1] = Blank
  BY <1>3, Zenon DEF TextColons, Colons, Colon, Blank
<1> QED
  BY <1>0, <1>4

(* A command and its parameters; the same and a text; the same with a      *)
(* prefix.  There is no prefix without a text (Regular).                   *)
Plain(str) ==
    ~HasPrefix(str) /\ ~HasText(str) /\ Colon \notin Range(str) /\ Len(AheadWords(str)) > 0

Speaks(str) ==
    /\ ~HasPrefix(str) /\ HasText(str) /\ Len(AheadWords(str)) > 0
    /\ \A i \in 1..Len(str) : str[i] = Colon => i = TextColon(str)

SpeaksFor(str) ==
    /\ HasPrefix(str) /\ HasText(str) /\ Len(AheadWords(str)) > 1
    /\ str[1] = Colon /\ str[2] # Blank
    /\ \A i \in 1..Len(str) : str[i] = Colon => i = 1 \/ i = TextColon(str)

LEMMA RegularKinds ==
    ASSUME NEW S, NEW str \in Seq(S), Regular(str)
    PROVE  Plain(str) \/ Speaks(str) \/ SpeaksFor(str)
<1>1. /\ NamesCommand(str)
      /\ Colons(str) \subseteq {1} \cup IF HasText(str) THEN {TextColon(str)} ELSE {}
      /\ HasPrefix(str) => HasText(str) /\ str[2] # Blank
  BY Zenon DEF Regular, Blank
<1>2. DOMAIN str = 1..Len(str)
  OBVIOUS
<1>3. CASE ~HasPrefix(str) /\ ~HasText(str)
  <2>1. Colons(str) = {}
    BY <1>1, <1>3 DEF HasPrefix
  <2>2. Colon \notin Range(str)
    BY <2>1 DEF Colons, Colon, Range
  <2>3. Len(AheadWords(str)) > 0
    BY <1>1, <1>3 DEF NamesCommand
  <2> QED
    BY <1>3, <2>2, <2>3 DEF Plain
<1>4. CASE ~HasPrefix(str) /\ HasText(str)
  <2>1. \A i \in Colons(str) : i = TextColon(str)
    BY <1>1, <1>4 DEF HasPrefix
  <2>2. \A i \in 1..Len(str) : str[i] = Colon => i = TextColon(str)
    BY <1>2, <2>1 DEF Colons, Colon
  <2>3. Len(AheadWords(str)) > 0
    BY <1>1, <1>4 DEF NamesCommand
  <2> QED
    BY <1>4, <2>2, <2>3 DEF Speaks
<1>5. CASE HasPrefix(str) /\ HasText(str)
  <2>1. \A i \in Colons(str) : i = 1 \/ i = TextColon(str)
    BY <1>1, <1>5
  <2>2. \A i \in 1..Len(str) : str[i] = Colon => i = 1 \/ i = TextColon(str)
    BY <1>2, <2>1 DEF Colons, Colon
  <2>3. Len(AheadWords(str)) > 1
    BY <1>1, <1>5 DEF NamesCommand
  <2>4. str[1] = Colon
    BY <1>5 DEF HasPrefix, Colons, Colon
  <2> QED
    BY <1>1, <1>5, <2>2, <2>3, <2>4 DEF SpeaksFor
<1> QED
  BY <1>1, <1>3, <1>4, <1>5, Zenon

(* The words before the text.                                              *)
LEMMA AheadSplit ==
    ASSUME NEW S, NEW str \in Seq(S)
    PROVE  /\ ~HasText(str) => AheadWords(str) = Split(str, Blank)
           /\ HasText(str) => AheadWords(str) = Split(Before(str, TextColon(str)), Blank)
<1>1. ASSUME ~HasText(str) PROVE AheadWords(str) = Split(str, Blank)
  <2>1. Split(str, Blank) = Words(str, {Blank})
    BY SplitIsWords
  <2> QED
    BY <1>1, <2>1, Zenon DEF AheadWords, Ahead, Blank
<1>2. ASSUME HasText(str)
      PROVE  AheadWords(str) = Split(Before(str, TextColon(str)), Blank)
  <2>1. TextColon(str) \in 1..Len(str)
    BY <1>2, TextColonFacts
  <2>2. Cut(S, str, TextColon(str), Before(str, TextColon(str)), Beyond(str, TextColon(str)))
    BY <2>1, CutAt
  <2>3. PICK w \in Seq(S) : w = Before(str, TextColon(str))
    BY <2>2, Zenon DEF Cut
  <2>4. Split(w, Blank) = Words(w, {Blank})
    BY <2>3, SplitIsWords
  <2>5. Ahead(str) = w
    BY <1>2, <2>3, Zenon DEF Ahead, Before
  <2> QED
    BY <2>3, <2>4, <2>5, Zenon DEF AheadWords, Blank
<1> QED
  BY <1>1, <1>2

(* The words from the first on, and from the second on: the grammar makes  *)
(* of them what the parser makes of them.                                  *)
LEMMA AllWords ==
    ASSUME NEW T, NEW words \in Seq(Fields(T)), Len(words) > 0
    PROVE  words # <<>> /\ words[1] = Head(words)
           /\ ListsFrom(words, 1) = Parameters(Tail(words))
<1>1. words # <<>> /\ Len(words) = 1 + Len(words) - 1 /\ 1 \in Nat
  BY EmptySeq
<1>2. \A i \in 1..Len(words) : words[1 + i - 1] = words[i]
  <2> SUFFICES ASSUME NEW i \in 1..Len(words) PROVE words[1 + i - 1] = words[i]
    OBVIOUS
  <2>1. 1 + i - 1 = i
    OBVIOUS
  <2> QED
    BY <2>1
<1> QED
  BY <1>1, <1>2, ListsAreParameters

LEMMA LaterWords ==
    ASSUME NEW T, NEW x \in Fields(T), NEW q \in Seq(Fields(T)),
           Len(Joined(<<x>>, q)) > 1
    PROVE  LET words == Joined(<<x>>, q)
           IN  /\ q # <<>> /\ words[1] = x /\ words[2] = Head(q)
               /\ ListsFrom(words, 2) = Parameters(Tail(q))
<1>1. PICK words : words = Joined(<<x>>, q)
  OBVIOUS
<1>2. PICK F : F = Fields(T)
  OBVIOUS
<1>3. /\ words \in Seq(F) /\ words[1] = x /\ Len(words) = Len(q) + 1
      /\ \A i \in 1..Len(q) : words[i + 1] = q[i]
  <2>1. x \in F /\ q \in Seq(F)
    BY <1>2
  <2> QED
    <3>1. Begins(F, Joined(<<x>>, q), x, q)
      BY <2>1, JoinedOne
    <3> QED
      BY <1>1, <3>1, Zenon DEF Begins
<1>4. Len(q) \in Nat /\ q # <<>>
  BY <1>1, <1>3
<1>5. Len(words) = 2 + Len(q) - 1
  BY <1>3, <1>4
<1>6. \A i \in 1..Len(q) : words[2 + i - 1] = q[i]
  <2> SUFFICES ASSUME NEW i \in 1..Len(q) PROVE words[2 + i - 1] = q[i]
    OBVIOUS
  <2>1. 2 + i - 1 = i + 1
    OBVIOUS
  <2> QED
    BY <1>3, <2>1
<1>7. words \in Seq(Fields(T)) /\ 2 \in Nat
  BY <1>2, <1>3
<1>8. words[2] = Head(q) /\ ListsFrom(words, 2) = Parameters(Tail(q))
  BY <1>4, <1>5, <1>6, <1>7, ListsAreParameters
<1> QED
  BY <1>1, <1>3, <1>4, <1>8

LEMMA ReadPlain ==
    ASSUME NEW S, NEW str \in Seq(S), Nickname \in Fields(S \ {Blank}), Plain(str)
    PROVE  Parse(str) = Meaning(str)
<1>1. ~HasPrefix(str) /\ ~HasText(str) /\ Colon \notin Range(str) /\ Len(AheadWords(str)) > 0
  BY DEF Plain
<1>2. PICK T : T = S \ {Blank}
  OBVIOUS
<1>3. PICK words \in Seq(Fields(T)) : words = Split(str, Blank)
  BY <1>2, SplitType
<1>4. words = AheadWords(str)
  BY <1>1, <1>3, AheadSplit
<1>5. words # <<>> /\ words[1] = Head(words) /\ ListsFrom(words, 1) = Parameters(Tail(words))
  BY <1>1, <1>4, AllWords
<1>6. Parse(str) = Utility(words, FALSE)
  BY <1>1, <1>3, ParsePlain DEF Colon, Blank
<1>7. PICK ps : ps = Parameters(Tail(words))
  OBVIOUS
<1>8. ps = Joined(ps, <<>>)
  <2>1. Tail(words) \in Seq(Seq(T))
    <3>1. Tail(words) \in Seq(Fields(T))
      BY <1>5, HeadTailProperties
    <3> QED
      BY <3>1, Wider
  <2>2. ps \in Seq(Seq(T))
    BY <1>7, <2>1, ParametersType
  <2>3. ps \o <<>> = ps
    BY <2>2, ConcatEmptySeq
  <2> QED
    BY <2>3, Zenon DEF Joined
<1>9. Means(Utility(words, FALSE), Nickname, Head(words), ps)
  BY <1>2, <1>5, <1>7, UtilityPlain
<1>10. Means(Meaning(str), Nickname, words[1], Joined(ListsFrom(words, 1), <<>>))
  BY <1>1, <1>4, MeaningParts, Zenon
<1> QED
  BY <1>5, <1>6, <1>7, <1>8, <1>9, <1>10, Zenon DEF Means

LEMMA ReadTold ==
    ASSUME NEW S, NEW str \in Seq(S), Nickname \in Fields(S \ {Blank}), Speaks(str)
    PROVE  Parse(str) = Meaning(str)
<1>1. /\ ~HasPrefix(str) /\ HasText(str) /\ Len(AheadWords(str)) > 0
      /\ \A i \in 1..Len(str) : str[i] = Colon => i = TextColon(str)
  BY DEF Speaks
<1>2. PICK k \in 2..Len(str) : k = TextColon(str) /\ str[k] = Colon
  BY <1>1, TextColonFacts
<1>3. PICK x, text : x = Before(str, k) /\ text = Beyond(str, k)
  OBVIOUS
<1>4. Told(S, str, Colon, x, text)
  BY <1>1, <1>2, <1>3, ToldLine
<1>5. /\ x \in Fields(S \ {Colon}) /\ text \in Seq(S \ {Colon}) /\ Colon \in Range(str)
      /\ Split(str, Colon) # <<>> /\ Head(Split(str, Colon)) = x
      /\ Text(Split(str, Colon)) = text
  BY <1>4, Zenon DEF Told
<1>6. Prefixed(str) = FALSE
  <2>1. str[1] # ":"
    BY <1>1, <1>2 DEF HasPrefix, Colons
  <2> QED
    BY <2>1, <1>2 DEF Prefixed
<1>7. PICK T : T = S \ {Blank}
  OBVIOUS
<1>8. x \in Seq(S) /\ text \in Seq(S)
  <2>1. S \ {Colon} \subseteq S
    OBVIOUS
  <2>2. Fields(S \ {Colon}) \subseteq Seq(S) /\ Seq(S \ {Colon}) \subseteq Seq(S)
    BY <2>1, Wider, Zenon
  <2> QED
    BY <1>5, <2>2
<1>9. PICK words \in Seq(Fields(T)) : words = Split(x, Blank)
  BY <1>7, <1>8, SplitType
<1>10. words = AheadWords(str)
  BY <1>1, <1>2, <1>3, <1>9, AheadSplit
<1>11. words # <<>> /\ words[1] = Head(words) /\ ListsFrom(words, 1) = Parameters(Tail(words))
  BY <1>1, <1>10, AllWords
<1>12. PICK ps : ps = Parameters(Tail(words))
  OBVIOUS
<1>13. Means(Utility(words, FALSE), Nickname, Head(words), ps)
  BY <1>7, <1>11, <1>12, UtilityPlain
<1>14. /\ Composed(Parse(str), words, FALSE, text)
       /\ Parse(str) = [prefix |-> Parse(str).prefix, command |-> Parse(str).command,
                        parameters |-> Parse(str).parameters]
  BY <1>5, <1>6, <1>9, ParseText, Zenon DEF Colon, Blank
<1>15. Means(Parse(str), Nickname, Head(words), Append(ps, text))
  BY <1>13, <1>14, ComposedMeans
<1>16. Append(ps, text) = Joined(ps, <<text>>)
  <2>1. Tail(words) \in Seq(Seq(S))
    <3>1. Tail(words) \in Seq(Fields(T)) /\ T \subseteq S
      BY <1>7, <1>11, HeadTailProperties
    <3> QED
      BY <3>1, Wider
  <2>2. ps \in Seq(Seq(S))
    BY <1>12, <2>1, ParametersType
  <2> QED
    BY <1>8, <2>2, AppendJoined
<1>17. Means(Meaning(str), Nickname, words[1], Joined(ListsFrom(words, 1), <<text>>))
  BY <1>1, <1>2, <1>3, <1>10, MeaningParts, Zenon
<1> QED
  BY <1>11, <1>12, <1>15, <1>16, <1>17, Zenon DEF Means

LEMMA ReadToldFor ==
    ASSUME NEW S, NEW str \in Seq(S), Nickname \in Fields(S \ {Blank}), SpeaksFor(str)
    PROVE  Parse(str) = Meaning(str)
<1>1. /\ HasPrefix(str) /\ HasText(str) /\ Len(AheadWords(str)) > 1
      /\ str[1] = Colon /\ str[2] # Blank
      /\ \A i \in 1..Len(str) : str[i] = Colon => i = 1 \/ i = TextColon(str)
  BY DEF SpeaksFor
<1>2. PICK k \in 2..Len(str) :
        k = TextColon(str) /\ str[k] = Colon /\ str[k - 1] = Blank
  BY <1>1, TextColonFacts
<1>3. PICK w, text : w = Before(str, k) /\ text = Beyond(str, k)
  OBVIOUS
<1>4. PICK l, q, mid : SaidBy(S, str, Colon, Blank, w, l, q, mid, text)
  <2>1. Colon # Blank
    BY DEF Colon, Blank
  <2> QED
    BY <1>1, <1>2, <1>3, <2>1, PrefixedLine
<1>5. PICK T : T = S \ {Blank}
  OBVIOUS
<1>6. PICK x : x = After(<<>>, Colon, l)
  OBVIOUS
<1>7. /\ Voiced(S, str, Colon, mid, text) /\ text \in Seq(S \ {Colon})
      /\ q \in Seq(Fields(T)) /\ l \in Fields(T) /\ x \in Fields(T)
      /\ Split(mid, Blank) = Joined(<<l>>, q)
      /\ Split(w, Blank) = Joined(<<x>>, q) /\ Tail(x) = l
  BY <1>4, <1>5, <1>6, Zenon DEF SaidBy
<1>8. AheadWords(str) = Joined(<<x>>, q)
  BY <1>1, <1>2, <1>3, <1>7, AheadSplit
<1>9. /\ q # <<>> /\ Joined(<<x>>, q)[1] = x /\ Joined(<<x>>, q)[2] = Head(q)
      /\ ListsFrom(Joined(<<x>>, q), 2) = Parameters(Tail(q))
  BY <1>1, <1>7, <1>8, LaterWords
<1>10. PICK ps : ps = Parameters(Tail(q))
  OBVIOUS
<1>11. Means(Utility(Joined(<<l>>, q), TRUE), l, Head(q), ps)
  BY <1>5, <1>7, <1>9, <1>10, UtilityPrefixed
<1>12. /\ Composed(Parse(str), Joined(<<l>>, q), TRUE, text)
       /\ Parse(str) = [prefix |-> Parse(str).prefix, command |-> Parse(str).command,
                        parameters |-> Parse(str).parameters]
  BY <1>7, ParseSpoken, Zenon DEF Voiced
<1>13. Means(Parse(str), l, Head(q), Append(ps, text))
  BY <1>11, <1>12, ComposedMeans
<1>14. Append(ps, text) = Joined(ps, <<text>>)
  <2>1. Tail(q) \in Seq(Seq(S))
    <3>1. Tail(q) \in Seq(Fields(T)) /\ T \subseteq S
      BY <1>5, <1>7, <1>9, HeadTailProperties
    <3> QED
      BY <3>1, Wider
  <2>2. ps \in Seq(Seq(S))
    BY <1>10, <2>1, ParametersType
  <2>3. text \in Seq(S)
    <3>1. S \ {Colon} \subseteq S
      OBVIOUS
    <3> QED
      BY <1>7, <3>1, Wider
  <2> QED
    BY <2>2, <2>3, AppendJoined
<1>15. Means(Meaning(str), Tail(AheadWords(str)[1]), AheadWords(str)[2],
             Joined(ListsFrom(AheadWords(str), 2), <<text>>))
  BY <1>1, <1>2, <1>3, MeaningParts, Zenon
<1>16. Means(Meaning(str), l, Head(q), Joined(ps, <<text>>))
  BY <1>7, <1>8, <1>9, <1>10, <1>15, Zenon
<1> QED
  BY <1>13, <1>14, <1>16, Zenon DEF Means

(* A line of the grammar means to the parser what it means to the grammar. *)
THEOREM GrammarIsKept == Spec => []KeepsToGrammar
<1>1. line \in Seq(Characters) => KeepsToGrammar
  <2> SUFFICES ASSUME line \in Seq(Characters), Regular(line)
               PROVE  Parse(line) = Meaning(line)
    BY DEF KeepsToGrammar
  <2>1. PICK S : S = Characters \cup {"nick"}
    OBVIOUS
  <2>2. line \in Seq(S)
    BY <2>1, SeqMonotonic
  <2>3. "nick" \in S \ {Blank}
    BY <2>1 DEF Blank
  <2>4. Nickname \in Fields(S \ {Blank})
    BY <2>3, OneField, Zenon DEF Nickname
  <2>5. Plain(line) \/ Speaks(line) \/ SpeaksFor(line)
    BY <2>2, RegularKinds
  <2> QED
    BY <2>2, <2>4, <2>5, ReadPlain, ReadTold, ReadToldFor
<1> QED
  BY <1>1, LineType, PTL
=============================================================================
