---------------------------- MODULE SendingProofs ----------------------------
(***************************************************************************)
(* However little send() takes at a time, however often it fails and       *)
(* whatever the capacity of the kernel and the length of the messages: no  *)
(* byte is lost unnoticed, and what is kept for later ends in a line end.  *)
(* SendingInv is inductive.                                                *)
(***************************************************************************)
EXTENDS Sending, SequenceTheorems, WellFoundedInduction, TLAPS

-----------------------------------------------------------------------------
(* Sequences of bytes                                                      *)

LEMMA JoinedFacts ==
    ASSUME NEW s \in Seq(Bytes), NEW e \in Seq(Bytes)
    PROVE  /\ s \o e \in Seq(Bytes)
           /\ Range(s \o e) = Range(s) \cup Range(e)
           /\ e # <<>> => Last(s \o e) = Last(e)
<1>1. /\ s \o e \in Seq(Bytes) /\ Len(s \o e) = Len(s) + Len(e)
      /\ \A i \in 1..Len(s) : (s \o e)[i] = s[i]
      /\ \A i \in 1..Len(e) : (s \o e)[Len(s) + i] = e[i]
      /\ \A i \in DOMAIN (s \o e) : \/ i \in 1..Len(s)
                                    \/ i - Len(s) \in 1..Len(e)
  OBVIOUS
<1>2. Range(s \o e) = Range(s) \cup Range(e)
  <2>1. ASSUME NEW x \in Range(s \o e) PROVE x \in Range(s) \cup Range(e)
    <3>1. PICK i \in DOMAIN (s \o e) : (s \o e)[i] = x
      BY DEF Range
    <3>2. CASE i \in 1..Len(s)
      BY <1>1, <3>1, <3>2 DEF Range
    <3>3. CASE i - Len(s) \in 1..Len(e)
      <4>1. x = e[i - Len(s)]
        BY <1>1, <3>1, <3>3
      <4> QED
        BY <3>3, <4>1 DEF Range
    <3> QED
      BY <1>1, <3>2, <3>3
  <2>2. Range(s) \subseteq Range(s \o e)
    BY <1>1 DEF Range
  <2>3. ASSUME NEW x \in Range(e) PROVE x \in Range(s \o e)
    <3>1. PICK i \in 1..Len(e) : e[i] = x
      BY DEF Range
    <3>2. Len(s) + i \in DOMAIN (s \o e) /\ (s \o e)[Len(s) + i] = x
      BY <1>1, <3>1
    <3> QED
      BY <3>2 DEF Range
  <2> QED
    BY <2>1, <2>2, <2>3
<1>3. e # <<>> => Last(s \o e) = Last(e)
  BY <1>1 DEF Last
<1> QED
  BY <1>1, <1>2, <1>3

(* What send() takes and what it leaves are all of it, and the end is left *)
(* until the end.                                                          *)
LEMMA TakenFacts ==
    ASSUME NEW s \in Seq(Bytes), NEW n \in 1..Len(s)
    PROVE  /\ SubSeq(s, n + 1, Len(s)) \in Seq(Bytes)
           /\ Range(s) \subseteq Range(SubSeq(s, 1, n))
                                   \cup Range(SubSeq(s, n + 1, Len(s)))
           /\ SubSeq(s, n + 1, Len(s)) # <<>> =>
                Last(SubSeq(s, n + 1, Len(s))) = Last(s)
<1> DEFINE a == SubSeq(s, 1, n)
           b == SubSeq(s, n + 1, Len(s))
<1>1. /\ b \in Seq(Bytes) /\ Len(a) = n /\ Len(b) = Len(s) - n
      /\ \A i \in 1..n : a[i] = s[i]
      /\ \A i \in 1..(Len(s) - n) : b[i] = s[n + i]
      /\ DOMAIN a = 1..n /\ DOMAIN b = 1..(Len(s) - n)
  OBVIOUS
<1> HIDE DEF a, b
<1>2. ASSUME NEW x \in Range(s) PROVE x \in Range(a) \cup Range(b)
  <2>1. PICK i \in 1..Len(s) : s[i] = x
    BY DEF Range
  <2>2. CASE i <= n
    <3>1. i \in DOMAIN a /\ a[i] = x
      BY <1>1, <2>1, <2>2
    <3> QED
      BY <3>1 DEF Range
  <2>3. CASE i > n
    <3>1. i - n \in 1..(Len(s) - n) /\ n + (i - n) = i
      BY <2>1, <2>3
    <3>2. b[i - n] = x
      BY <1>1, <2>1, <3>1
    <3> QED
      BY <1>1, <3>1, <3>2 DEF Range
  <2> QED
    BY <2>1, <2>2, <2>3
<1>3. b # <<>> => Last(b) = Last(s)
  <2> SUFFICES ASSUME b # <<>> PROVE b[Len(b)] = s[Len(s)]
    BY DEF Last
  <2>1. Len(b) \in 1..(Len(s) - n) /\ n + Len(b) = Len(s)
    BY <1>1
  <2> QED
    BY <1>1, <2>1
<1> QED
  BY <1>1, <1>2, <1>3 DEF a, b

LEMMA EmptyRange == Range(<<>>) = {}
  BY DEF Range

-----------------------------------------------------------------------------
(* Line ends                                                               *)

LEMMA LineEnd ==
    ASSUME NEW m \in Nat, NEW l \in Nat \ {0}
    PROVE  /\ <<Byte(m, 4 * l - 1), Byte(m, 4 * l)>> \in Seq(Bytes)
           /\ IsLF(Last(<<Byte(m, 4 * l - 1), Byte(m, 4 * l)>>))
  BY DEF Byte, Bytes, IsLF, Last

(* A message that comes without its last line end is given it, even if it  *)
(* has others: what is handed over is the whole message.                   *)
LEMMA MessageIsDelimited ==
    ASSUME NEW m \in Nat, NEW l \in Nat \ {0}
    PROVE  LET text == [i \in 1..(4 * l - 2) |-> Byte(m, i)]
               end  == <<Byte(m, 4 * l - 1), Byte(m, 4 * l)>>
           IN  /\ Delimited(text, end) \in Seq(Bytes)
               /\ Delimited(text, end) = [i \in 1..(4 * l) |-> Byte(m, i)]
               /\ \A i \in 1..(4 * l) : Byte(m, i) \in Range(Delimited(text, end))
               /\ IsLF(Last(Delimited(text, end)))
<1> DEFINE text == [i \in 1..(4 * l - 2) |-> Byte(m, i)]
           end  == <<Byte(m, 4 * l - 1), Byte(m, 4 * l)>>
<1>1. /\ text \in Seq(Bytes) /\ Len(text) = 4 * l - 2
      /\ \A i \in 1..(4 * l - 2) : text[i] = Byte(m, i)
  BY DEF Byte, Bytes
<1>2. ~EndsLine(text)
  <2>1. text[Len(text) - 1].place = 4 * l - 3
    BY <1>1 DEF Byte
  <2>2. (4 * l - 3) % 4 # 3
    OBVIOUS
  <2>3. ~IsCR(text[Len(text) - 1])
    BY <2>1, <2>2 DEF IsCR
  <2> HIDE DEF text
  <2>4. ~DelimAt(text, Len(text) - 1)
    BY <2>3 DEF DelimAt
  <2>5. Len(text) # 1
    BY <1>1
  <2> QED
    BY <2>4, <2>5 DEF EndsLine
<1>3. Delimited(text, end) = text \o end
  BY <1>2 DEF Delimited
<1>4. end \in Seq(Bytes) /\ IsLF(Last(end)) /\ end # <<>>
  BY LineEnd
<1>5. \A i \in 1..(4 * l) : Byte(m, i) \in Range(text) \cup Range(end)
  <2> TAKE i \in 1..(4 * l)
  <2>1. CASE i \in 1..(4 * l - 2)
    <3>1. i \in DOMAIN text /\ text[i] = Byte(m, i)
      BY <1>1, <2>1
    <3> QED
      BY <3>1 DEF Range
  <2>2. CASE i = 4 * l - 1
    <3>1. 1 \in DOMAIN end /\ end[1] = Byte(m, i)
      BY <2>2
    <3> QED
      BY <3>1 DEF Range
  <2>3. CASE i = 4 * l
    <3>1. 2 \in DOMAIN end /\ end[2] = Byte(m, i)
      BY <2>3
    <3> QED
      BY <3>1 DEF Range
  <2> QED
    BY <2>1, <2>2, <2>3
<1>8. text \o end = [i \in 1..(4 * l) |-> Byte(m, i)]
  <2>1. PICK n : n = 4 * l
    OBVIOUS
  <2>2. n \in Nat /\ n - 1 \in Nat /\ n - 2 \in Nat
    BY <2>1
  <2>3. PICK whole : whole = [i \in 1..n |-> Byte(m, i)]
    OBVIOUS
  <2>4. /\ whole \in Seq(Bytes) /\ Len(whole) = n
        /\ \A i \in 1..n : whole[i] = Byte(m, i)
    BY <2>2, <2>3 DEF Byte, Bytes
  <2>5. Len(end) = 2 /\ end[1] = Byte(m, n - 1) /\ end[2] = Byte(m, n)
    BY <2>1
  <2>6. Len(text) = n - 2 /\ \A i \in 1..(n - 2) : text[i] = Byte(m, i)
    BY <1>1, <2>1
  <2> HIDE DEF text, end
  <2>7. PICK a, b : a = text /\ b = end
    OBVIOUS
  <2>8. /\ a \o b \in Seq(Bytes) /\ Len(a \o b) = n
        /\ \A i \in 1..n : (a \o b)[i] = IF i <= n - 2 THEN a[i] ELSE b[i - (n - 2)]
    <3>1. a \in Seq(Bytes) /\ b \in Seq(Bytes) /\ Len(a) = n - 2 /\ Len(b) = 2
      BY <1>1, <1>4, <2>5, <2>6, <2>7
    <3>2. Len(a) + Len(b) = n
      BY <2>2, <3>1
    <3>3. /\ a \o b \in Seq(Bytes) /\ Len(a \o b) = Len(a) + Len(b)
          /\ \A i \in 1..(Len(a) + Len(b)) :
               (a \o b)[i] = IF i <= Len(a) THEN a[i] ELSE b[i - Len(a)]
      BY <3>1, ConcatProperties
    <3>4. \A i \in 1..n : (a \o b)[i] = IF i <= n - 2 THEN a[i] ELSE b[i - (n - 2)]
      BY <3>1, <3>2, <3>3
    <3> QED
      BY <3>2, <3>3, <3>4
  <2>9. ASSUME NEW i \in 1..n
        PROVE  (a \o b)[i] = Byte(m, i)
    <3>1. CASE i <= n - 2
      BY <2>2, <2>6, <2>7, <2>8, <3>1
    <3>2. CASE i = n - 1
      <4>1. i - (n - 2) = 1 /\ ~ (i <= n - 2)
        BY <2>2, <3>2
      <4> QED
        BY <2>5, <2>7, <2>8, <3>2, <4>1
    <3>3. CASE i = n
      <4>1. i - (n - 2) = 2 /\ ~ (i <= n - 2)
        BY <2>2, <3>3
      <4> QED
        BY <2>5, <2>7, <2>8, <3>3, <4>1
    <3>4. i <= n - 2 \/ i = n - 1 \/ i = n
      BY <2>2
    <3> QED
      BY <3>1, <3>2, <3>3, <3>4
  <2>10. a \o b = whole
    BY <2>4, <2>8, <2>9, SeqEqual
  <2> QED
    BY <2>1, <2>3, <2>7, <2>10
<1> HIDE DEF text, end
<1>6. /\ text \o end \in Seq(Bytes)
      /\ Range(text \o end) = Range(text) \cup Range(end)
      /\ Last(text \o end) = Last(end)
  BY <1>1, <1>4, JoinedFacts
<1>7. /\ Delimited(text, end) \in Seq(Bytes)
      /\ Delimited(text, end) = [i \in 1..(4 * l) |-> Byte(m, i)]
      /\ \A i \in 1..(4 * l) : Byte(m, i) \in Range(Delimited(text, end))
      /\ IsLF(Last(Delimited(text, end)))
  BY <1>3, <1>4, <1>5, <1>6, <1>8
<1> QED
  BY <1>7 DEF text, end

-----------------------------------------------------------------------------
(* Messages one after the other.  FlattenSeq is the last value of a        *)
(* recursive function, of which it has to be shown that it exists and what *)
(* its values are; both by the least number for which it is not so.        *)

Flattens(f, s, n) ==
    f = [i \in 1..n |-> IF i = 1 THEN s[i] ELSE f[i - 1] \o s[i]]

LEMMA LeastNumber ==
    ASSUME NEW T, T \subseteq Nat, T # {}
    PROVE  \E x \in T : \A y \in T : x <= y
<1>1. PICK x \in T : \A y \in T : ~ (<<y, x>> \in OpToRel(<, Nat))
  BY NatLessThanWellFounded, WFMin
<1>2. ASSUME NEW y \in T
      PROVE  x <= y
  <2>1. ~ (y < x)
    BY <1>1 DEF OpToRel
  <2> QED
    BY <2>1
<1> QED
  BY <1>2

LEMMA FlattensExists ==
    ASSUME NEW s, NEW n \in Nat
    PROVE  \E f : Flattens(f, s, n)
<1> DEFINE Bad == {k \in Nat : ~ \E f : Flattens(f, s, k)}
<1> SUFFICES ASSUME Bad # {} PROVE FALSE
  OBVIOUS
<1>1. PICK k \in Bad : \A y \in Bad : k <= y
  <2>1. Bad \subseteq Nat
    OBVIOUS
  <2> HIDE DEF Bad
  <2> QED
    BY <2>1, LeastNumber
<1>2. CASE k = 0
  <2> DEFINE e == [i \in 1..0 |-> s]
  <2>1. Flattens(e, s, 0)
    BY DEF Flattens
  <2> QED
    BY <1>1, <1>2, <2>1
<1>3. CASE k # 0
  <2>1. k \in Nat /\ k - 1 \in Nat /\ k - 1 \notin Bad
    BY <1>1, <1>3
  <2>2. PICK f : Flattens(f, s, k - 1)
    BY <2>1
  <2> DEFINE g == [i \in 1..k |-> IF i = k THEN (IF k = 1 THEN s[1] ELSE f[k - 1] \o s[k])
                                           ELSE f[i]]
  <2>3. ASSUME NEW i \in 1..k
        PROVE  g[i] = IF i = 1 THEN s[i] ELSE g[i - 1] \o s[i]
    <3>1. CASE i = k
      <4>1. CASE k = 1
        BY <3>1, <4>1
      <4>2. CASE k # 1
        <5>1. k - 1 \in 1..k /\ g[k - 1] = f[k - 1]
          BY <2>1, <4>2
        <5> QED
          BY <2>1, <3>1, <4>2, <5>1
      <4> QED
        BY <4>1, <4>2
    <3>2. CASE i # k
      <4>1. i \in 1..(k - 1) /\ g[i] = f[i]
        BY <2>1, <3>2
      <4>2. f[i] = IF i = 1 THEN s[i] ELSE f[i - 1] \o s[i]
        BY <2>2, <4>1 DEF Flattens
      <4>3. i # 1 => i - 1 \in 1..k /\ g[i - 1] = f[i - 1]
        BY <2>1, <4>1
      <4> QED
        BY <4>1, <4>2, <4>3
    <3> QED
      BY <3>1, <3>2
  <2>4. g = [i \in 1..k |-> g[i]]
    OBVIOUS
  <2> HIDE DEF g
  <2>5. Flattens(g, s, k)
    BY <2>3, <2>4 DEF Flattens
  <2> QED
    BY <1>1, <2>5
<1> QED
  BY <1>2, <1>3

(* Its values depend on what has been flattened only.                      *)
Agree(s, t, n) == \A i \in 1..n : s[i] = t[i]

LEMMA FlattensAgree ==
    ASSUME NEW s, NEW t, NEW n \in Nat, NEW m \in Nat, n <= m, Agree(s, t, n),
           NEW f, Flattens(f, s, n), NEW g, Flattens(g, t, m)
    PROVE  Agree(f, g, n)
<1> DEFINE Bad == {i \in 1..n : f[i] # g[i]}
<1> SUFFICES ASSUME Bad # {} PROVE FALSE
  BY DEF Agree
<1>1. PICK k \in Bad : \A y \in Bad : k <= y
  <2>1. Bad \subseteq Nat
    OBVIOUS
  <2> HIDE DEF Bad
  <2> QED
    BY <2>1, LeastNumber
<1>2. k \in 1..n /\ k \in 1..m /\ f[k] # g[k]
  BY <1>1
<1>0. s[k] = t[k]
  BY <1>2 DEF Agree
<1>3. f[k] = IF k = 1 THEN s[k] ELSE f[k - 1] \o s[k]
  BY <1>2 DEF Flattens
<1>4. g[k] = IF k = 1 THEN t[k] ELSE g[k - 1] \o t[k]
  BY <1>2 DEF Flattens
<1>5. k # 1 => f[k - 1] = g[k - 1]
  <2> SUFFICES ASSUME k # 1, f[k - 1] # g[k - 1] PROVE FALSE
    OBVIOUS
  <2>1. k - 1 \in Bad
    BY <1>2
  <2> QED
    BY <1>1, <1>2, <2>1
<1> QED
  BY <1>0, <1>2, <1>3, <1>4, <1>5

LEMMA FlattenIsLast ==
    ASSUME NEW s, Len(s) \in Nat \ {0}
    PROVE  \E f : Flattens(f, s, Len(s)) /\ FlattenSeq(s) = f[Len(s)]
<1>1. PICK f : f = CHOOSE g : Flattens(g, s, Len(s))
  OBVIOUS
<1>2. Flattens(f, s, Len(s))
  BY <1>1, FlattensExists
<1>3. FlattenSeq(s) = f[Len(s)]
  BY <1>1 DEF FlattenSeq, Flattens
<1> QED
  BY <1>2, <1>3

(* One message more goes to the end.                                       *)
LEMMA FlattenAppend ==
    ASSUME NEW T, NEW s \in Seq(Seq(T)), NEW x \in Seq(T)
    PROVE  /\ FlattenSeq(Append(s, x)) = FlattenSeq(s) \o x
           /\ FlattenSeq(<<>>) = <<>>
<1>1. FlattenSeq(<<>>) = <<>>
  BY DEF FlattenSeq
<1>2. PICK t : t = Append(s, x)
  OBVIOUS
<1>3. PICK n : n = Len(s)
  OBVIOUS
<1>4. /\ n \in Nat /\ Len(t) = n + 1 /\ t[n + 1] = x
      /\ \A i \in 1..n : t[i] = s[i]
  BY <1>2, <1>3
<1>5. PICK g : Flattens(g, t, n + 1) /\ FlattenSeq(t) = g[n + 1]
  BY <1>4, FlattenIsLast
<1>6. g[n + 1] = IF n + 1 = 1 THEN x ELSE g[n] \o x
  <2>1. n + 1 \in 1..(n + 1) /\ (n + 1) - 1 = n
    BY <1>4
  <2>2. g[n + 1] = IF n + 1 = 1 THEN t[n + 1] ELSE g[(n + 1) - 1] \o t[n + 1]
    BY <1>5, <2>1 DEF Flattens
  <2> QED
    BY <1>4, <2>1, <2>2
<1>7. CASE n = 0
  <2>1. s = <<>>
    BY <1>3, <1>7, EmptySeq
  <2> QED
    BY <1>1, <1>2, <1>5, <1>6, <1>7, <2>1
<1>8. CASE n # 0
  <2>1. PICK f : Flattens(f, s, n) /\ FlattenSeq(s) = f[n]
    BY <1>3, <1>4, <1>8, FlattenIsLast
  <2>2. f[n] = g[n]
    <3>1. \A i \in 1..n : f[i] = g[i]
      <4>1. PICK m : m = n + 1
        OBVIOUS
      <4>2. m \in Nat /\ n <= m /\ Agree(s, t, n)
        BY <1>4, <4>1 DEF Agree
      <4>3. Flattens(g, t, m)
        BY <1>5, <4>1
      <4> QED
        <5>1. Agree(f, g, n)
          BY <1>4, <2>1, <4>2, <4>3, FlattensAgree
        <5> QED
          BY <5>1 DEF Agree
    <3> QED
      BY <1>4, <1>8, <3>1
  <2> QED
    BY <1>1, <1>2, <1>4, <1>5, <1>6, <1>8, <2>1, <2>2
<1> QED
  BY <1>7, <1>8

-----------------------------------------------------------------------------
(* The steps                                                               *)

LEMMA SendInv ==
    ASSUME SendingInv, NEW lines \in Shapes, Send(lines)
    PROVE  SendingInv'
<1> DEFINE m == Len(messages) + 1
<1>1. /\ messages \in Seq(Nat \ {0}) /\ lines \in Nat \ {0} /\ m \in Nat
      /\ rest = <<>> /\ messages' = Append(messages, lines)
      /\ UNCHANGED <<buffer, open, reached, lost>>
  BY ShapesAssumption DEF SendingInv, Send, Quiet, history
<1>2. /\ rest' \in Seq(Bytes) /\ IsLF(Last(rest'))
      /\ \A i \in 1..(4 * lines) : Byte(m, i) \in Range(rest')
  <2>1. rest' = Delimited([i \in 1..(4 * lines - 2) |-> Byte(m, i)],
                          <<Byte(m, 4 * lines - 1), Byte(m, 4 * lines)>>)
    BY DEF Send
  <2> HIDE DEF m
  <2> QED
    BY <1>1, <2>1, MessageIsDelimited
<1>3. /\ messages' \in Seq(Nat \ {0})
      /\ DOMAIN messages' = DOMAIN messages \cup {m}
      /\ messages'[m] = lines
      /\ \A k \in DOMAIN messages : messages'[k] = messages[k]
  BY <1>1
<1> HIDE DEF m
<1>4. BytesSent' \subseteq BytesSent \cup Range(rest')
  <2> SUFFICES ASSUME NEW k \in DOMAIN messages', NEW x \in Range(Whole(k)')
               PROVE  x \in BytesSent \cup Range(rest')
    BY DEF BytesSent
  <2>1. CASE k = m
    <3>1. PICK i \in 1..(4 * lines) : x = Byte(m, i)
      BY <1>3, <2>1 DEF Whole, Range
    <3> QED
      BY <1>2, <3>1
  <2>2. CASE k # m
    <3>1. k \in DOMAIN messages /\ Whole(k)' = Whole(k)
      BY <1>3, <2>2 DEF Whole
    <3> QED
      BY <3>1 DEF BytesSent
  <2> QED
    BY <2>1, <2>2
<1>5. Conserved'
  <2>1. Range(rest) = {}
    BY <1>1, EmptyRange
  <2> QED
    BY <1>1, <1>4, <2>1 DEF SendingInv, Conserved
<1>6. KeptToLineEnd'
  BY <1>1, <1>2 DEF SendingInv, KeptToLineEnd
<1> QED
  BY <1>1, <1>2, <1>3, <1>5, <1>6 DEF SendingInv

(* Bytes stay accounted for if each is still somewhere.                    *)
LEMMA ConservedStep ==
    ASSUME Conserved, messages' = messages, open' => open,
           Range(rest) \cup Range(buffer) \cup reached \cup lost
             \subseteq Range(rest') \cup Range(buffer') \cup reached' \cup lost'
    PROVE  Conserved'
<1>1. BytesSent' = BytesSent
  BY DEF BytesSent, Whole
<1> QED
  BY <1>1 DEF Conserved

LEMMA ResendInv ==
    ASSUME SendingInv, Resend
    PROVE  SendingInv'
<1>1. /\ rest = <<>> /\ buffer # <<>> /\ buffer \in Seq(Bytes)
      /\ IsLF(Last(buffer))
      /\ UNCHANGED <<messages, buffer, open, reached, lost>>
  BY DEF SendingInv, KeptToLineEnd, Resend, Quiet, history
<1> DEFINE end == <<Byte(0, 3), Byte(0, 4)>>
<1>2. end \in Seq(Bytes) /\ end # <<>> /\ IsLF(Last(end))
  BY DEF Byte, Bytes, IsLF, Last
<1>3. rest' = buffer \/ rest' = buffer \o end
  BY DEF Resend, Delimited
<1> HIDE DEF end
<1>4. rest' \in Seq(Bytes) /\ IsLF(Last(rest'))
  BY <1>1, <1>2, <1>3, JoinedFacts
<1>5. Conserved'
  <2>1. Range(rest) = {}
    BY <1>1, EmptyRange
  <2> QED
    BY <1>1, <2>1, ConservedStep DEF SendingInv
<1>6. KeptToLineEnd'
  BY <1>1, <1>4 DEF KeptToLineEnd
<1> QED
  BY <1>1, <1>4, <1>5, <1>6 DEF SendingInv

LEMMA TakeInv ==
    ASSUME SendingInv, Take
    PROVE  SendingInv'
<1>1. PICK n \in 1..Capacity :
         /\ n <= Len(rest)
         /\ rest' = SubSeq(rest, n + 1, Len(rest))
         /\ reached' = reached \cup Range(SubSeq(rest, 1, n))
  BY DEF Take
<1>2. UNCHANGED <<messages, buffer, open, lost>>
  BY DEF Take
<1>3. rest \in Seq(Bytes) /\ n \in 1..Len(rest)
  BY <1>1, CapacityAssumption DEF SendingInv
<1>4. /\ rest' \in Seq(Bytes)
      /\ Range(rest) \subseteq Range(SubSeq(rest, 1, n)) \cup Range(rest')
      /\ rest' # <<>> => Last(rest') = Last(rest)
  BY <1>1, <1>3, TakenFacts
<1>5. Conserved'
  BY <1>1, <1>2, <1>4, ConservedStep DEF SendingInv
<1>6. KeptToLineEnd'
  <2>1. rest # <<>>
    BY <1>3
  <2> QED
    BY <1>2, <1>4, <2>1 DEF SendingInv, KeptToLineEnd
<1> QED
  BY <1>2, <1>4, <1>5, <1>6 DEF SendingInv

LEMMA WouldBlockInv ==
    ASSUME SendingInv, WouldBlock
    PROVE  SendingInv'
<1>1. /\ buffer' = rest /\ rest' = <<>>
      /\ lost' = lost \cup (Range(buffer) \ (Range(rest) \cup reached))
      /\ UNCHANGED <<messages, open, reached>>
  BY DEF WouldBlock, Kept
<1>2. Conserved'
  BY <1>1, ConservedStep DEF SendingInv
<1>3. KeptToLineEnd'
  BY <1>1 DEF SendingInv, KeptToLineEnd
<1> QED
  BY <1>1, <1>2, <1>3 DEF SendingInv

LEMMA CopiedInv ==
    ASSUME SendingInv, Copied
    PROVE  SendingInv'
<1>1. /\ buffer' = <<>> /\ lost' = lost \cup (Range(buffer) \ reached)
      /\ UNCHANGED <<messages, rest, open, reached>>
  BY DEF Copied
<1>2. Conserved'
  BY <1>1, ConservedStep DEF SendingInv
<1>3. KeptToLineEnd'
  BY <1>1 DEF SendingInv, KeptToLineEnd
<1> QED
  BY <1>1, <1>2, <1>3 DEF SendingInv

(* The client reads or goes, or the server finds that it has gone.         *)
LEMMA ClientInv ==
    ASSUME SendingInv, Read \/ Leave \/ Broken \/ UNCHANGED vars
    PROVE  SendingInv'
<1>1. UNCHANGED <<messages, buffer>> /\ (rest' = rest \/ rest' = <<>>)
  BY DEF Read, Leave, Broken, vars
<1>2. Conserved'
  <2>1. CASE Read \/ UNCHANGED vars
    BY <2>1, ConservedStep DEF Read, vars, history, SendingInv
  <2>2. CASE Leave \/ Broken
    BY <2>2 DEF Leave, Broken, Conserved
  <2> QED
    BY <2>1, <2>2
<1>3. KeptToLineEnd'
  BY <1>1 DEF SendingInv, KeptToLineEnd
<1>4. messages' \in Seq(Nat \ {0}) /\ buffer' \in Seq(Bytes)
  BY <1>1 DEF SendingInv
<1>5. rest' \in Seq(Bytes)
  <2>1. rest \in Seq(Bytes) /\ <<>> \in Seq(Bytes)
    BY DEF SendingInv
  <2> QED
    BY <1>1, <2>1
<1> QED
  BY <1>2, <1>3, <1>4, <1>5 DEF SendingInv

LEMMA SendingInitInv == Init => SendingInv
<1> SUFFICES ASSUME Init PROVE SendingInv
  OBVIOUS
<1>1. messages = <<>> /\ rest = <<>> /\ buffer = <<>>
  BY DEF Init
<1>2. BytesSent = {}
  BY <1>1 DEF BytesSent
<1> QED
  BY <1>1, <1>2 DEF SendingInv, Conserved, KeptToLineEnd

LEMMA SendingNextInv == SendingInv /\ [Next]_vars => SendingInv'
<1> SUFFICES ASSUME SendingInv, [Next]_vars PROVE SendingInv'
  OBVIOUS
<1> QED
  BY SendInv, ResendInv, TakeInv, WouldBlockInv, CopiedInv, ClientInv DEF Next

LEMMA SendingInvariant == Spec => []SendingInv
  BY SendingInitInv, SendingNextInv, PTL DEF Spec

(* Every byte of every message has been taken by the kernel, is being      *)
(* handed over, is kept for later, or was dropped with a buffer.           *)
THEOREM BytesAreConserved == Spec => []Conserved
<1>1. SendingInv => Conserved
  BY DEF SendingInv
<1> QED
  BY <1>1, SendingInvariant, PTL

(* What is kept, and what is being sent, goes on to the end of a line.     *)
THEOREM KeptLinesEnd == Spec => []KeptToLineEnd
<1>1. SendingInv => KeptToLineEnd
  BY DEF SendingInv
<1> QED
  BY <1>1, SendingInvariant, PTL
-----------------------------------------------------------------------------
(* In order.                                                               *)

Wholes == [m \in DOMAIN messages |-> Whole(m)]

LEMMA WholesFacts ==
    ASSUME SendingInv
    PROVE  Wholes \in Seq(Seq(Bytes))
<1>1. messages \in Seq(Nat \ {0})
  BY DEF SendingInv
<1>2. ASSUME NEW m \in DOMAIN messages PROVE Whole(m) \in Seq(Bytes)
  <2>1. PICK n : n = 4 * messages[m]
    OBVIOUS
  <2>2. n \in Nat /\ m \in Nat
    BY <1>1, <2>1
  <2>3. Whole(m) = [i \in 1..n |-> [message |-> m, place |-> i]]
    BY <2>1 DEF Whole, Byte
  <2> QED
    BY <2>2, <2>3 DEF Bytes
<1> QED
  BY <1>1, <1>2 DEF Wholes

LEMMA SendOrder ==
    ASSUME SendingInv, OrderInv, NEW lines \in Shapes, Send(lines)
    PROVE  OrderInv'
<1>1. /\ messages \in Seq(Nat \ {0}) /\ lines \in Nat \ {0}
      /\ rest = <<>> /\ messages' = Append(messages, lines)
      /\ UNCHANGED <<buffer, open, stream, clogged>>
  BY ShapesAssumption DEF SendingInv, Send, Quiet, history
<1>2. PICK m : m = Len(messages) + 1
  OBVIOUS
<1>3. PICK w : w = [i \in 1..(4 * lines) |-> Byte(m, i)]
  OBVIOUS
<1>4. m \in Nat
  BY <1>1, <1>2
<1>5. rest' = w /\ w \in Seq(Bytes)
  <2>1. rest' = Delimited([i \in 1..(4 * lines - 2) |-> Byte(m, i)],
                          <<Byte(m, 4 * lines - 1), Byte(m, 4 * lines)>>)
    BY <1>2 DEF Send
  <2> QED
    BY <1>1, <1>3, <1>4, <2>1, MessageIsDelimited
<1>6. Wholes' = Append(Wholes, w)
  <2>1. /\ DOMAIN messages' = 1..m /\ DOMAIN messages = 1..(m - 1)
        /\ messages'[m] = lines
        /\ \A k \in 1..(m - 1) : messages'[k] = messages[k]
    BY <1>1, <1>2
  <2>2. Whole(m)' = w
    BY <1>3, <2>1 DEF Whole
  <2>3. \A k \in 1..(m - 1) : Whole(k)' = Whole(k)
    BY <2>1 DEF Whole
  <2>4. Wholes' = [k \in 1..m |-> Whole(k)'] /\ Wholes = [k \in 1..(m - 1) |-> Whole(k)]
    BY <2>1 DEF Wholes
  <2>5. PICK old : old = Wholes
    OBVIOUS
  <2>6. PICK new : new = Wholes'
    OBVIOUS
  <2>7. /\ old = [k \in 1..(m - 1) |-> old[k]]
        /\ new = [k \in 1..m |-> IF k = m THEN w ELSE old[k]]
    BY <1>4, <2>2, <2>3, <2>4, <2>5, <2>6
  <2>8. old \in Seq(Seq(Bytes)) /\ Len(old) = m - 1
    <3>1. old \in Seq(Seq(Bytes))
      BY <2>5, WholesFacts
    <3>2. DOMAIN old = 1..(m - 1) /\ m - 1 \in Nat
      BY <1>1, <1>2, <2>7
    <3> QED
      BY <3>1, <3>2
  <2>9. new = Append(old, w)
    <3>1. PICK app : app = Append(old, w)
      OBVIOUS
    <3>2. /\ app \in Seq(Seq(Bytes)) /\ Len(app) = m /\ app[m] = w
          /\ \A k \in 1..(m - 1) : app[k] = old[k]
      BY <1>4, <1>5, <2>8, <3>1
    <3>3. DOMAIN app = 1..m /\ app = [k \in DOMAIN app |-> app[k]]
      BY <1>4, <3>2
    <3>4. \A k \in 1..m : k = m \/ k \in 1..(m - 1)
      BY <1>4
    <3>5. \A k \in 1..m : app[k] = new[k]
      BY <2>7, <3>2, <3>4
    <3>6. DOMAIN new = 1..m /\ new = [k \in DOMAIN new |-> new[k]]
      BY <2>7
    <3> QED
      BY <3>1, <3>3, <3>5, <3>6
  <2> QED
    BY <2>5, <2>6, <2>9
<1>7. FlattenSeq(Wholes') = FlattenSeq(Wholes) \o w
  <2>1. PICK old : old = Wholes
    OBVIOUS
  <2>2. old \in Seq(Seq(Bytes))
    BY <2>1, WholesFacts
  <2>3. FlattenSeq(Append(old, w)) = FlattenSeq(old) \o w
    BY <1>5, <2>2, FlattenAppend
  <2> QED
    BY <1>6, <2>1, <2>3
<1>8. InOrder'
  <2> SUFFICES ASSUME open, ~clogged
               PROVE  stream \o w = FlattenSeq(Wholes) \o w
    BY <1>1, <1>5, <1>7 DEF InOrder, Wholes
  <2>1. stream \o <<>> = FlattenSeq(Wholes)
    BY <1>1 DEF OrderInv, InOrder, Wholes
  <2>2. stream \o <<>> = stream
    BY ConcatEmptySeq DEF OrderInv
  <2> QED
    BY <2>1, <2>2
<1> QED
  BY <1>1, <1>8 DEF OrderInv

LEMMA TakeOrder ==
    ASSUME SendingInv, OrderInv, Take
    PROVE  OrderInv'
<1>1. PICK n \in 1..Capacity :
         /\ n <= Len(rest)
         /\ rest' = SubSeq(rest, n + 1, Len(rest))
         /\ stream' = IF clogged THEN stream ELSE stream \o SubSeq(rest, 1, n)
  BY DEF Take
<1>2. UNCHANGED <<messages, buffer, open, clogged>>
  BY DEF Take
<1>3. PICK r : r = rest
  OBVIOUS
<1>4. PICK a, b : a = SubSeq(r, 1, n) /\ b = SubSeq(r, n + 1, Len(r))
  OBVIOUS
<1>5. r \in Seq(Bytes) /\ n \in 1..Len(r)
  BY <1>1, <1>3, CapacityAssumption DEF SendingInv
<1>6. a \in Seq(Bytes) /\ b \in Seq(Bytes)
  BY <1>4, <1>5
<1>7. a \o b = r
  <2>1. 1 \in 1..(Len(r) + 1) /\ n \in 0..Len(r) /\ Len(r) \in n..Len(r)
    BY <1>5
  <2>2. a \o b = SubSeq(r, 1, Len(r))
    BY <1>4, <1>5, <2>1, ConcatAdjacentSubSeq
  <2> QED
    BY <1>5, <2>2, SubSeqFull
<1>8. (stream \o a) \o b = stream \o r
  <2>1. (stream \o a) \o b = stream \o (a \o b)
    BY <1>6, ConcatAssociative DEF OrderInv
  <2> QED
    BY <1>7, <2>1
<1>9. stream' \in Seq(Bytes)
  BY <1>1, <1>3, <1>4, <1>6, ConcatProperties DEF OrderInv
<1>10. Wholes' = Wholes
  BY <1>2 DEF Wholes, Whole
<1>11. InOrder'
  <2> SUFFICES ASSUME open, ~clogged
               PROVE  stream' \o rest' = FlattenSeq(Wholes)
    BY <1>2, <1>10 DEF InOrder, Wholes
  <2>1. stream \o r = FlattenSeq(Wholes)
    BY <1>3 DEF OrderInv, InOrder, Wholes
  <2>2. stream' = stream \o a /\ rest' = b
    BY <1>1, <1>3, <1>4
  <2> QED
    BY <1>8, <2>1, <2>2
<1> QED
  BY <1>2, <1>9, <1>11 DEF OrderInv

(* Every other step leaves the bytes alone, or leaves nothing to be said   *)
(* of their order.                                                         *)
LEMMA OtherOrder ==
    ASSUME OrderInv,
           \/ Resend \/ WouldBlock \/ Broken \/ Copied
           \/ Read \/ Leave \/ UNCHANGED vars
    PROVE  OrderInv'
<1>1. stream' = stream /\ messages' = messages
  BY DEF Resend, WouldBlock, Broken, Copied, Read, Leave, vars, history
<1>2. Wholes' = Wholes
  BY <1>1 DEF Wholes, Whole
<1>3. ~clogged' => buffer' = <<>>
  BY DEF OrderInv, Resend, WouldBlock, Broken, Copied, Read, Leave, vars, history
<1>4. open' /\ ~clogged' => open /\ ~clogged /\ rest' = rest
  BY DEF OrderInv, Resend, WouldBlock, Broken, Copied, Read, Leave, vars, history
<1>5. InOrder'
  BY <1>1, <1>2, <1>4 DEF OrderInv, InOrder, Wholes
<1> QED
  BY <1>1, <1>3, <1>5 DEF OrderInv

(* Until send() fails the client is sent the messages, each of them once,  *)
(* in order and with one line end, however little send() takes at a time.  *)
THEOREM MessagesStayInOrder == Spec => []InOrder
<1>1. Init => OrderInv
  <2> SUFFICES ASSUME Init PROVE OrderInv
    OBVIOUS
  <2>1. /\ messages = <<>> /\ rest = <<>> /\ buffer = <<>> /\ stream = <<>>
    BY DEF Init
  <2>2. Wholes = <<>>
    BY <2>1 DEF Wholes
  <2>3. FlattenSeq(<<>>) = <<>> /\ <<>> \o <<>> = <<>>
    BY DEF FlattenSeq
  <2> QED
    BY <2>1, <2>2, <2>3 DEF OrderInv, InOrder, Wholes
<1>2. SendingInv /\ OrderInv /\ [Next]_vars => OrderInv'
  BY SendOrder, TakeOrder, OtherOrder DEF Next
<1>3. OrderInv => InOrder
  BY DEF OrderInv
<1> QED
  BY <1>1, <1>2, <1>3, SendingInvariant, PTL DEF Spec
=============================================================================
