------------------------------ MODULE BotProofs ------------------------------
(***************************************************************************)
(* Whatever the sizes of the sockets, the length of the files and the      *)
(* number of questions, and although the bot is sent its own answers to    *)
(* private questions: a question has one answer at most.  BotInv of Bot is *)
(* inductive: a question on its way to the bot counts as much as its       *)
(* answer.                                                                 *)
(***************************************************************************)
EXTENDS Bot, SequenceTheorems, FiniteSetTheorems, TLAPS

-----------------------------------------------------------------------------
(* Counting                                                                *)

Hits(s, T) == {i \in DOMAIN s : s[i] \in T}
One(x, T) == IF x \in T THEN 1 ELSE 0

LEMMA HitsFinite ==
    ASSUME NEW S, NEW s \in Seq(S), NEW T
    PROVE  /\ IsFiniteSet(Hits(s, T))
           /\ Count(s, T) = Cardinality(Hits(s, T))
           /\ Count(s, T) \in Nat /\ Count(s, T) <= Len(s)
<1>1. Hits(s, T) \subseteq 1..Len(s) /\ Len(s) \in Nat
  BY DEF Hits
<1>2. IsFiniteSet(1..Len(s)) /\ Cardinality(1..Len(s)) = Len(s)
  <2>1. PICK n : n = Len(s)
    OBVIOUS
  <2>2. IsFiniteSet(1..n) /\ Cardinality(1..n) = n
    <3>1. n \in Nat
      BY <1>1, <2>1
    <3>2. IsFiniteSet(1..n) /\ Cardinality(1..n) = IF 1 > n THEN 0 ELSE n - 1 + 1
      BY <3>1, FS_Interval
    <3> QED
      BY <3>1, <3>2
  <2> QED
    BY <2>1, <2>2
<1>3. IsFiniteSet(Hits(s, T)) /\ Cardinality(Hits(s, T)) <= Len(s)
  BY <1>1, <1>2, FS_Subset
<1>4. Cardinality(Hits(s, T)) \in Nat
  BY <1>3, FS_CardinalityType
<1> QED
  BY <1>3, <1>4 DEF Count, Hits

LEMMA CountEmpty == \A T : Count(<<>>, T) = 0
<1> TAKE T
<1>1. {i \in DOMAIN <<>> : <<>>[i] \in T} = {}
  OBVIOUS
<1> QED
  BY <1>1, FS_EmptySet DEF Count

LEMMA CountNone ==
    ASSUME NEW S, NEW s \in Seq(S), NEW T, S \cap T = {}
    PROVE  Count(s, T) = 0
<1>1. {i \in DOMAIN s : s[i] \in T} = {}
  OBVIOUS
<1> QED
  BY <1>1, FS_EmptySet DEF Count

LEMMA CountAppend ==
    ASSUME NEW S, NEW s \in Seq(S), NEW x \in S, NEW T
    PROVE  Count(Append(s, x), T) = Count(s, T) + One(x, T)
<1>1. PICK t, n : t = Append(s, x) /\ n = Len(s) + 1
  OBVIOUS
<1>2. /\ t \in Seq(S) /\ n \in Nat \ {0} /\ DOMAIN t = 1..n /\ DOMAIN s = 1..(n - 1)
      /\ t[n] = x
      /\ \A i \in 1..(n - 1) : t[i] = s[i]
  BY <1>1
<1>3. n \notin Hits(s, T)
  BY <1>2 DEF Hits
<1>4. Hits(t, T) = IF x \in T THEN Hits(s, T) \cup {n} ELSE Hits(s, T)
  <2>1. \A i : i \in 1..n <=> i \in 1..(n - 1) \/ i = n
    BY <1>2
  <2>2. \A i : i \in Hits(t, T) <=> i \in Hits(s, T) \/ (i = n /\ x \in T)
    BY <1>2, <2>1 DEF Hits
  <2> QED
    BY <2>2
<1>5. Cardinality(Hits(t, T)) = Cardinality(Hits(s, T)) + One(x, T)
  <2>1. IsFiniteSet(Hits(s, T)) /\ Cardinality(Hits(s, T)) \in Nat
    BY HitsFinite, FS_CardinalityType
  <2>2. Cardinality(Hits(s, T) \cup {n}) = Cardinality(Hits(s, T)) + 1
    BY <1>3, <2>1, FS_AddElement
  <2> QED
    BY <1>4, <2>1, <2>2 DEF One
<1> QED
  BY <1>1, <1>2, <1>5, HitsFinite

LEMMA CountOne ==
    ASSUME NEW x, NEW T
    PROVE  Count(<<x>>, T) = One(x, T)
<1>1. <<>> \in Seq({x}) /\ <<x>> = Append(<<>>, x)
  OBVIOUS
<1>2. Count(Append(<<>>, x), T) = Count(<<>>, T) + One(x, T)
  BY <1>1, CountAppend
<1> QED
  BY <1>1, <1>2, CountEmpty DEF One

(* The rest of a sequence has the hits of it without that of its head.     *)
LEMMA CountTail ==
    ASSUME NEW S, NEW s \in Seq(S), s # <<>>, NEW T
    PROVE  Count(Tail(s), T) + One(Head(s), T) <= Count(s, T)
<1>1. PICK t : t = Tail(s)
  OBVIOUS
<1>2. PICK n : n = Len(s)
  OBVIOUS
<1>3. /\ n \in Nat \ {0} /\ t \in Seq(S) /\ DOMAIN s = 1..n /\ DOMAIN t = 1..(n - 1)
      /\ Head(s) = s[1]
      /\ \A i \in 1..(n - 1) : t[i] = s[i + 1]
  BY <1>1, <1>2, HeadTailProperties
<1> DEFINE f == [i \in Hits(t, T) |-> i + 1]
<1>4. f \in Injection(Hits(t, T), Hits(s, T) \ {1})
  <2>1. \A i \in Hits(t, T) : i \in 1..(n - 1) /\ i + 1 \in Hits(s, T) \ {1}
    BY <1>3 DEF Hits
  <2>2. \A i, j \in Hits(t, T) : f[i] = f[j] => i = j
    BY <2>1
  <2> QED
    BY <2>1, <2>2 DEF Injection, IsInjective
<1> HIDE DEF f
<1>5. IsFiniteSet(Hits(s, T)) /\ Cardinality(Hits(s, T)) \in Nat
  BY HitsFinite, FS_CardinalityType
<1>6. IsFiniteSet(Hits(s, T) \ {1})
  BY <1>5, FS_Subset
<1>7. Cardinality(Hits(t, T)) <= Cardinality(Hits(s, T) \ {1})
  BY <1>4, <1>6, FS_Injection
<1>8. Cardinality(Hits(s, T) \ {1}) = Cardinality(Hits(s, T)) - One(Head(s), T)
  <2>1. 1 \in Hits(s, T) <=> Head(s) \in T
    BY <1>3 DEF Hits
  <2>2. PICK c, d : c = Cardinality(Hits(s, T)) /\ d = Cardinality(Hits(s, T) \ {1})
    OBVIOUS
  <2>3. c \in Nat /\ d = IF Head(s) \in T THEN c - 1 ELSE c
    BY <1>5, <2>1, <2>2, FS_RemoveElement
  <2>4. d = c - One(Head(s), T)
    BY <2>3 DEF One
  <2> QED
    BY <2>2, <2>4
<1>9. /\ Cardinality(Hits(t, T)) \in Nat /\ Count(t, T) = Cardinality(Hits(t, T))
      /\ Count(s, T) = Cardinality(Hits(s, T))
  BY <1>3, HitsFinite
<1>10. One(Head(s), T) \in Nat
  BY DEF One
<1>11. Count(t, T) + One(Head(s), T) <= Count(s, T)
  BY <1>5, <1>7, <1>8, <1>9, <1>10
<1> QED
  BY <1>1, <1>11

-----------------------------------------------------------------------------
(* The budget: Length lines for each question, read or not.                *)

LEMMA Times ==
    ASSUME NEW L \in Nat, NEW x \in Nat, NEW y \in Nat, x <= y
    PROVE  L * x <= L * y /\ L * (y + 1) = L * y + L /\ L * x \in Nat /\ L * y \in Nat
<1>1. PICK d \in Nat : y = x + d
  <2>1. y - x \in Nat /\ y = x + (y - x)
    OBVIOUS
  <2> QED
    BY <2>1
<1>2. L * (x + d) = L * x + L * d /\ L * d \in Nat /\ L * x \in Nat
  OBVIOUS
<1>3. L * (y + 1) = L * y + L /\ L * y \in Nat
  OBVIOUS
<1> QED
  BY <1>1, <1>2, <1>3

LEMMA Budget ==
    ASSUME NEW L \in Nat,
           NEW a \in Nat, NEW p \in Nat, NEW q \in Nat, a + L * p <= L * q,
           NEW b \in Nat, NEW r \in Nat, NEW t \in Nat,
           \/ b <= a /\ r <= p /\ t = q
           \/ b <= a /\ r <= p + 1 /\ t = q + 1
           \/ b <= a + L /\ r + 1 <= p /\ t = q
    PROVE  b + L * r <= L * t
<1>1. CASE b <= a /\ r <= p /\ t = q
  <2>1. L * r <= L * p /\ L * r \in Nat /\ L * p \in Nat
    BY <1>1, Times
  <2> QED
    BY <1>1, <2>1
<1>2. CASE b <= a /\ r <= p + 1 /\ t = q + 1
  <2>1. L * r <= L * (p + 1) /\ L * r \in Nat
    BY <1>2, Times
  <2>2. L * (p + 1) = L * p + L /\ L * (q + 1) = L * q + L /\ L * p \in Nat /\ L * q \in Nat
    BY Times
  <2>3. L * t = L * q + L
    BY <1>2, <2>2
  <2> QED
    BY <1>2, <2>1, <2>2, <2>3
<1>3. CASE b <= a + L /\ r + 1 <= p /\ t = q
  <2>1. L * (r + 1) <= L * p /\ L * p \in Nat
    BY <1>3, Times
  <2>2. L * (r + 1) = L * r + L /\ L * r \in Nat
    BY Times
  <2> QED
    BY <1>3, <2>1, <2>2
<1> QED
  BY <1>1, <1>2, <1>3

-----------------------------------------------------------------------------
(* Lines                                                                   *)

Spent(to) == Arrived(to) + OnTheWay(AnswersTo(to))

InBudget(to) == Spent(to) + Length * Pending(to) <= Length * Questions(to)

LEMMA CountsAreNumbers ==
    ASSUME LinesTyped, NEW to \in Receivers
    PROVE  /\ \A T : /\ Count(toBot, T) \in Nat /\ Count(fromBot, T) \in Nat
                     /\ Count(saying, T) \in Nat /\ Count(sending, T) \in Nat
           /\ Arrived(to) \in Nat /\ Spent(to) \in Nat
           /\ Pending(to) \in Nat /\ Questions(to) \in Nat
<1>1. \A T : /\ Count(toBot, T) \in Nat /\ Count(fromBot, T) \in Nat
             /\ Count(saying, T) \in Nat /\ Count(sending, T) \in Nat
             /\ Count(asked, T) \in Nat
  BY HitsFinite DEF LinesTyped
<1>2. Arrived(to) \in Nat
  BY DEF Arrived, LinesTyped
<1>3. OnTheWay(AnswersTo(to)) \in Nat /\ Pending(to) \in Nat /\ Questions(to) \in Nat
  BY <1>1 DEF OnTheWay, Pending, Questions
<1> QED
  BY <1>1, <1>2, <1>3 DEF Spent

(* Which lines count as what.                                              *)
LEMMA Kinds ==
    ASSUME NEW to \in Receivers
    PROVE  /\ \A x \in AnswersTo(to) : x.word = "answer" /\ x.to = to
           /\ \A x \in QuestionTo(to) : x.word = "question" /\ x.to = to
           /\ \A x \in RelayedTo(to) : x.word = "question" /\ x.to = to /\ x.relayed
           /\ \A w : Line(w).word = w
  BY DEF AnswersTo, QuestionTo, RelayedTo, Line

LEMMA ReactionFacts ==
    ASSUME NEW line \in LinesToBot
    PROVE  /\ Reaction(line) \in Seq(LinesFromBot)
           /\ \A to \in Receivers :
                Count(Reaction(line), AnswersTo(to)) <= Length * One(line, QuestionTo(to))
<1>1. Length \in Nat
  BY RoomAssumption
<1>2. CASE IsQuestion(line) /\ files
  <2>1. line \in [word : {"question", "text", "ping", "long"}, to : Receivers]
    BY <1>2, Kinds DEF LinesToBot, IsQuestion, Answers, Receivers
  <2>2. line.word = "question" /\ line.to \in Receivers /\ line = [word |-> "question", to |-> line.to]
    BY <1>2, <2>1 DEF IsQuestion
  <2>3. PICK answer : answer = AnswerTo(line.to)
    OBVIOUS
  <2>4. /\ answer \in Seq(AnswersTo(line.to)) /\ Len(answer) = Length
    BY <1>1, <2>3 DEF AnswerTo, Answer, AnswersTo
  <2>5. Reaction(line) = answer
    <3>1. <<>> \o answer = answer
      BY <2>4, ConcatEmptySeq
    <3> QED
      BY <1>2, <2>2, <2>3, <3>1 DEF Reaction
  <2>6. answer \in Seq(LinesFromBot)
    <3>1. AnswersTo(line.to) \subseteq LinesFromBot
      BY <2>2 DEF LinesFromBot, Answers, Receivers
    <3> QED
      BY <2>4, <3>1, SeqMonotonic
  <2>7. ASSUME NEW to \in Receivers
        PROVE  Count(answer, AnswersTo(to)) <= Length * One(line, QuestionTo(to))
    <3>1. CASE to = line.to
      <4>1. One(line, QuestionTo(to)) = 1
        BY <2>2, <3>1 DEF One, QuestionTo
      <4>2. Count(answer, AnswersTo(to)) <= Length
        BY <2>4, HitsFinite
      <4> QED
        BY <1>1, <4>1, <4>2
    <3>2. CASE to # line.to
      <4>1. AnswersTo(line.to) \cap AnswersTo(to) = {}
        BY <3>2 DEF AnswersTo
      <4>2. Count(answer, AnswersTo(to)) = 0
        BY <2>4, <4>1, CountNone
      <4>3. One(line, QuestionTo(to)) \in {0, 1}
        BY DEF One
      <4> QED
        BY <1>1, <4>2, <4>3
    <3> QED
      BY <3>1, <3>2
  <2> QED
    BY <2>5, <2>6, <2>7
<1>3. CASE ~ (IsQuestion(line) /\ files)
  <2>1. Reaction(line) \in {<<>>, <<Line("PONG")>>, <<Line("JOIN")>>}
    <3>1. line.word = "ping" => line.word # "invite" /\ ~ IsQuestion(line)
      BY DEF IsQuestion
    <3>2. /\ <<>> \o <<Line("JOIN")>> = <<Line("JOIN")>>
          /\ <<Line("PONG")>> \o <<>> = <<Line("PONG")>>
          /\ <<>> \o <<>> = <<>>
      OBVIOUS
    <3> QED
      BY <1>3, <3>1, <3>2 DEF Reaction
  <2>2. {Line("PONG"), Line("JOIN")} \subseteq LinesFromBot
    BY DEF Line, LinesFromBot
  <2>3. Reaction(line) \in Seq(LinesFromBot)
    <3>1. <<>> \in Seq(LinesFromBot)
      OBVIOUS
    <3>2. \A x \in LinesFromBot : <<x>> \in Seq(LinesFromBot)
      OBVIOUS
    <3> QED
      BY <2>1, <2>2, <3>1, <3>2
  <2>4. ASSUME NEW to \in Receivers
        PROVE  Count(Reaction(line), AnswersTo(to)) <= Length * One(line, QuestionTo(to))
    <3>1. Line("PONG") \notin AnswersTo(to) /\ Line("JOIN") \notin AnswersTo(to)
      BY Kinds
    <3>2. /\ Count(<<>>, AnswersTo(to)) = 0
          /\ Count(<<Line("PONG")>>, AnswersTo(to)) = 0
          /\ Count(<<Line("JOIN")>>, AnswersTo(to)) = 0
      BY <3>1, CountEmpty, CountOne DEF One
    <3>3. Count(Reaction(line), AnswersTo(to)) = 0
      BY <2>1, <3>2
    <3>4. Length * One(line, QuestionTo(to)) \in Nat
      BY <1>1 DEF One
    <3> QED
      BY <3>3, <3>4
  <2> QED
    BY <2>3, <2>4
<1> QED
  BY <1>2, <1>3

-----------------------------------------------------------------------------
(* The steps.  Each keeps to the budget of a receiver in one of three ways *)
(* that Budget is about.                                                   *)

Thrifty(to) ==
    \/ Spent(to)' <= Spent(to) /\ Pending(to)' <= Pending(to)
       /\ Questions(to)' = Questions(to)
    \/ Spent(to)' <= Spent(to) /\ Pending(to)' <= Pending(to) + 1
       /\ Questions(to)' = Questions(to) + 1
    \/ Spent(to)' <= Spent(to) + Length /\ Pending(to)' + 1 <= Pending(to)
       /\ Questions(to)' = Questions(to)

Sound == LinesTyped' /\ \A to \in Receivers : Thrifty(to)

LEMMA ThriftPays ==
    ASSUME BotInv, Sound
    PROVE  BotInv'
<1>1. LinesTyped /\ LinesTyped'
  BY DEF BotInv, Sound
<1>2. ASSUME NEW to \in Receivers
      PROVE  InBudget(to)'
  <2>1. PICK a, p, q : a = Spent(to) /\ p = Pending(to) /\ q = Questions(to)
    OBVIOUS
  <2>2. PICK b, r, t : b = Spent(to)' /\ r = Pending(to)' /\ t = Questions(to)'
    OBVIOUS
  <2>3. a \in Nat /\ p \in Nat /\ q \in Nat
    BY <1>1, <2>1, CountsAreNumbers
  <2>4. b \in Nat /\ r \in Nat /\ t \in Nat
    <3>1. (LinesTyped => Spent(to) \in Nat /\ Pending(to) \in Nat /\ Questions(to) \in Nat)'
      BY CountsAreNumbers, PTL
    <3> QED
      BY <1>1, <2>2, <3>1
  <2>5. a + Length * p <= Length * q
    BY <2>1 DEF BotInv, Spent
  <2>6. \/ b <= a /\ r <= p /\ t = q
        \/ b <= a /\ r <= p + 1 /\ t = q + 1
        \/ b <= a + Length /\ r + 1 <= p /\ t = q
    BY <2>1, <2>2 DEF Sound, Thrifty
  <2>7. Length \in Nat
    BY RoomAssumption
  <2>8. b + Length * r <= Length * t
    BY <2>3, <2>4, <2>5, <2>6, <2>7, Budget
  <2> QED
    BY <2>2, <2>8 DEF InBudget
<1> QED
  BY <1>1, <1>2 DEF BotInv, InBudget, Spent

(* The parts of Spent and Pending, as numbers.                             *)
LEMMA SpentParts ==
    ASSUME NEW to \in Receivers
    PROVE  /\ Spent(to) = Arrived(to)
                + (Count(toBot, AnswersTo(to)) + Count(fromBot, AnswersTo(to))
                   + Count(saying, AnswersTo(to)) + Count(sending, AnswersTo(to)))
           /\ Pending(to) = Count(toBot, QuestionTo(to)) + Count(sending, QuestionTo(to))
           /\ Questions(to) = Count(asked, RelayedTo(to))
  BY DEF Spent, OnTheWay, Pending, Questions

LEMMA SpentPartsNext ==
    ASSUME NEW to \in Receivers
    PROVE  /\ Spent(to)' = Arrived(to)'
                + (Count(toBot', AnswersTo(to)) + Count(fromBot', AnswersTo(to))
                   + Count(saying', AnswersTo(to)) + Count(sending', AnswersTo(to)))
           /\ Pending(to)' = Count(toBot', QuestionTo(to)) + Count(sending', QuestionTo(to))
           /\ Questions(to)' = Count(asked', RelayedTo(to))
  BY DEF Spent, OnTheWay, Pending, Questions

LEMMA CountsNext ==
    ASSUME LinesTyped'
    PROVE  \A T : /\ Count(toBot', T) \in Nat /\ Count(fromBot', T) \in Nat
                  /\ Count(saying', T) \in Nat /\ Count(sending', T) \in Nat
  BY HitsFinite DEF LinesTyped

LEMMA ReadSound ==
    ASSUME LinesTyped, Read
    PROVE  Sound
<1>1. PICK line : line = Head(toBot)
  OBVIOUS
<1>2. /\ toBot \in Seq(LinesToBot) /\ toBot # <<>>
      /\ line \in LinesToBot
      /\ toBot' = Tail(toBot) /\ toBot' \in Seq(LinesToBot)
  BY <1>1, HeadTailProperties DEF LinesTyped, Read
<1>3. saying' = Reaction(line) /\ saying' \in Seq(LinesFromBot) /\ saying = <<>>
  <2>1. Reaction(line) \in Seq(LinesFromBot) /\ Reaction(line) \o <<>> = Reaction(line)
    BY <1>2, ReactionFacts, ConcatEmptySeq
  <2> QED
    BY <1>1, <2>1 DEF Read, Silent
<1>4. UNCHANGED <<fromBot, sending, logged, member, asked, heard>>
  BY DEF Read, serverVars
<1>5. LinesTyped'
  BY <1>2, <1>3, <1>4 DEF LinesTyped
<1>6. ASSUME NEW to \in Receivers
      PROVE  Thrifty(to)
  <2>1. /\ Count(toBot', AnswersTo(to)) + One(line, AnswersTo(to)) <= Count(toBot, AnswersTo(to))
        /\ Count(toBot', QuestionTo(to)) + One(line, QuestionTo(to)) <= Count(toBot, QuestionTo(to))
    BY <1>1, <1>2, CountTail
  <2>2. Count(saying, AnswersTo(to)) = 0
    BY <1>3, CountEmpty
  <2>3. Count(saying', AnswersTo(to)) <= Length * One(line, QuestionTo(to))
    BY <1>2, <1>3, ReactionFacts
  <2>4. One(line, AnswersTo(to)) \in Nat /\ One(line, QuestionTo(to)) \in {0, 1}
    BY DEF One
  <2>5. /\ Count(toBot', AnswersTo(to)) <= Count(toBot, AnswersTo(to))
        /\ Length \in Nat
    BY <1>5, <2>1, <2>4, CountsAreNumbers, CountsNext, RoomAssumption
  <2>6. Arrived(to)' = Arrived(to)
    BY <1>4 DEF Arrived
  <2>7. CASE One(line, QuestionTo(to)) = 0
    BY <1>4, <1>5, <2>1, <2>2, <2>3, <2>5, <2>6, <2>7,
       SpentParts, SpentPartsNext, CountsAreNumbers, CountsNext DEF Thrifty
  <2>8. CASE One(line, QuestionTo(to)) = 1
    BY <1>4, <1>5, <2>1, <2>2, <2>3, <2>5, <2>6, <2>8,
       SpentParts, SpentPartsNext, CountsAreNumbers, CountsNext DEF Thrifty
  <2> QED
    BY <2>4, <2>7, <2>8
<1> QED
  BY <1>5, <1>6 DEF Sound

LEMMA SaySound ==
    ASSUME LinesTyped, Say
    PROVE  Sound
<1>1. PICK line : line = Head(saying)
  OBVIOUS
<1>2. /\ saying \in Seq(LinesFromBot) /\ saying # <<>> /\ fromBot \in Seq(LinesFromBot)
      /\ line \in LinesFromBot
      /\ saying' = Tail(saying) /\ saying' \in Seq(LinesFromBot)
      /\ fromBot' = Append(fromBot, line) /\ fromBot' \in Seq(LinesFromBot)
  BY <1>1, HeadTailProperties DEF LinesTyped, Say
<1>3. UNCHANGED <<toBot, sending, logged, member, asked, heard>>
  BY DEF Say, serverVars
<1>4. LinesTyped'
  BY <1>2, <1>3 DEF LinesTyped
<1>5. ASSUME NEW to \in Receivers
      PROVE  Thrifty(to)
  <2>1. /\ Count(saying', AnswersTo(to)) + One(line, AnswersTo(to)) <= Count(saying, AnswersTo(to))
        /\ Count(fromBot', AnswersTo(to)) = Count(fromBot, AnswersTo(to)) + One(line, AnswersTo(to))
    BY <1>1, <1>2, CountTail, CountAppend
  <2>2. One(line, AnswersTo(to)) \in Nat
    BY DEF One
  <2>3. Arrived(to)' = Arrived(to)
    BY <1>3 DEF Arrived
  <2> QED
    BY <1>3, <1>4, <2>1, <2>2, <2>3,
       SpentParts, SpentPartsNext, CountsAreNumbers, CountsNext DEF Thrifty
<1> QED
  BY <1>4, <1>5 DEF Sound

LEMMA DeliverSound ==
    ASSUME LinesTyped, Deliver
    PROVE  Sound
<1>1. PICK line : line = Head(sending)
  OBVIOUS
<1>2. /\ sending \in Seq(LinesToBot) /\ sending # <<>> /\ toBot \in Seq(LinesToBot)
      /\ line \in LinesToBot
      /\ sending' = Tail(sending) /\ sending' \in Seq(LinesToBot)
      /\ toBot' \in {toBot, Append(toBot, line)} /\ toBot' \in Seq(LinesToBot)
  BY <1>1, HeadTailProperties DEF LinesTyped, Deliver, Waits
<1>3. UNCHANGED <<fromBot, saying, logged, member, asked, heard>>
  BY DEF Deliver, botVars
<1>4. LinesTyped'
  BY <1>2, <1>3 DEF LinesTyped
<1>5. ASSUME NEW to \in Receivers
      PROVE  Thrifty(to)
  <2>1. \A T : /\ Count(sending', T) + One(line, T) <= Count(sending, T)
               /\ Count(toBot', T) <= Count(toBot, T) + One(line, T)
    <3> TAKE T
    <3>1. Count(sending', T) + One(line, T) <= Count(sending, T)
      BY <1>1, <1>2, CountTail
    <3>2. Count(Append(toBot, line), T) = Count(toBot, T) + One(line, T)
      BY <1>2, CountAppend
    <3>3. One(line, T) \in Nat /\ Count(toBot, T) \in Nat
      BY <1>2, HitsFinite DEF One
    <3>4. CASE toBot' = toBot
      BY <3>1, <3>3, <3>4
    <3>5. CASE toBot' = Append(toBot, line)
      <4>1. Count(toBot', T) = Count(Append(toBot, line), T)
        BY <3>5
      <4> QED
        BY <3>1, <3>2, <3>3, <4>1
    <3> QED
      BY <1>2, <3>4, <3>5
  <2>2. \A T : One(line, T) \in Nat
    BY DEF One
  <2>3. Arrived(to)' = Arrived(to)
    BY <1>3 DEF Arrived
  <2> QED
    BY <1>3, <1>4, <2>1, <2>2, <2>3,
       SpentParts, SpentPartsNext, CountsAreNumbers, CountsNext DEF Thrifty
<1> QED
  BY <1>4, <1>5 DEF Sound

(* The user sends a line, and the server is about at most one to the bot.  *)
LEMMA AskedSound ==
    ASSUME LinesTyped, sending = <<>>,
           UNCHANGED <<toBot, fromBot, saying, logged, heard>>, member' \in BOOLEAN,
           NEW q \in LinesAsked, asked' = Append(asked, q),
           NEW l \in LinesToBot, sending' = <<l>> \/ sending' = <<>>,
           \A to \in Receivers :
             /\ l \notin AnswersTo(to)
             /\ sending' = <<l>> => (l \in QuestionTo(to) <=> q \in RelayedTo(to))
             /\ sending' = <<>> => q \notin RelayedTo(to)
    PROVE  Sound
<1>1. asked \in Seq(LinesAsked) /\ asked' \in Seq(LinesAsked)
  BY DEF LinesTyped
<1>2. sending' \in Seq(LinesToBot)
  <2>1. <<l>> \in Seq(LinesToBot) /\ <<>> \in Seq(LinesToBot)
    OBVIOUS
  <2> QED
    BY <2>1
<1>3. LinesTyped'
  BY <1>1, <1>2 DEF LinesTyped
<1>4. ASSUME NEW to \in Receivers
      PROVE  Thrifty(to)
  <2>1. \A T : Count(sending, T) = 0
    BY CountEmpty
  <2>2. Count(sending', AnswersTo(to)) = 0
    <3>1. Count(<<l>>, AnswersTo(to)) = 0
      BY CountOne DEF One
    <3> QED
      BY <3>1, CountEmpty
  <2>3. Count(asked', RelayedTo(to)) = Count(asked, RelayedTo(to)) + One(q, RelayedTo(to))
    BY <1>1, CountAppend
  <2>4. Count(sending', QuestionTo(to)) = One(q, RelayedTo(to))
    <3>1. CASE sending' = <<l>>
      <4>1. Count(sending', QuestionTo(to)) = One(l, QuestionTo(to))
        BY <3>1, CountOne
      <4> QED
        BY <3>1, <4>1 DEF One
    <3>2. CASE sending' = <<>>
      <4>1. Count(sending', QuestionTo(to)) = 0
        BY <3>2, CountEmpty
      <4> QED
        BY <3>2, <4>1 DEF One
    <3> QED
      BY <3>1, <3>2
  <2>5. Arrived(to)' = Arrived(to)
    BY DEF Arrived
  <2>6. One(q, RelayedTo(to)) \in {0, 1}
    BY DEF One
  <2>7. toBot' = toBot /\ fromBot' = fromBot /\ saying' = saying
    OBVIOUS
  <2>8. Spent(to)' = Spent(to)
    BY <2>1, <2>2, <2>5, <2>7, SpentParts, SpentPartsNext
  <2>9. Pending(to)' = Pending(to) + One(q, RelayedTo(to))
    <3>1. Count(toBot, QuestionTo(to)) \in Nat
      BY CountsAreNumbers
    <3> QED
      BY <2>1, <2>4, <2>6, <2>7, <3>1, SpentParts, SpentPartsNext
  <2>10. Questions(to)' = Questions(to) + One(q, RelayedTo(to))
    BY <2>3, SpentParts, SpentPartsNext
  <2>11. Spent(to) \in Nat /\ Pending(to) \in Nat /\ Questions(to) \in Nat
    BY CountsAreNumbers
  <2> QED
    BY <2>6, <2>8, <2>9, <2>10, <2>11 DEF Thrifty
<1> QED
  BY <1>3, <1>4 DEF Sound

LEMMA AskSound ==
    ASSUME LinesTyped,
           NEW word \in {"question", "text", "ping", "long"}, NEW dest \in Receivers,
           NEW by \in {"PRIVMSG", "NOTICE"}, Ask(word, dest, by)
    PROVE  Sound
<1>1. PICK r : r = IF dest = "bot" THEN logged ELSE member
  OBVIOUS
<1>2. PICK q : q = [word |-> word, to |-> dest, by |-> by, relayed |-> r]
  OBVIOUS
<1>3. PICK l : l = [word |-> word, to |-> dest]
  OBVIOUS
<1>4. r \in BOOLEAN
  BY <1>1 DEF LinesTyped
<1>5. q \in LinesAsked
  BY <1>2, <1>4 DEF LinesAsked
<1>6. l \in LinesToBot
  BY <1>3 DEF LinesToBot
<1>7. /\ asked' = Append(asked, q) /\ sending = <<>>
      /\ UNCHANGED <<toBot, fromBot, saying, logged, heard, member>>
      /\ sending' = IF Last(asked').relayed THEN <<l>> ELSE <<>>
  BY <1>1, <1>2, <1>3 DEF Ask, Waits, botVars
<1>8. Last(asked').relayed = r
  <2>1. asked \in Seq(LinesAsked)
    BY DEF LinesTyped
  <2>2. Last(Append(asked, q)) = q
    BY <1>5, <2>1 DEF Last
  <2> QED
    BY <1>2, <1>7, <2>2
<1>9. ASSUME NEW to \in Receivers
      PROVE  /\ l \notin AnswersTo(to)
             /\ sending' = <<l>> => (l \in QuestionTo(to) <=> q \in RelayedTo(to))
             /\ sending' = <<>> => q \notin RelayedTo(to)
  <2>1. l.word = word /\ l.to = dest
    BY <1>3
  <2>2. l \notin AnswersTo(to)
    BY <2>1, Kinds
  <2>3. l \in QuestionTo(to) <=> word = "question" /\ dest = to
    BY <1>3 DEF QuestionTo
  <2>4. q \in RelayedTo(to) <=> word = "question" /\ dest = to /\ r = TRUE
    BY <1>2 DEF RelayedTo
  <2>5. <<l>> # <<>>
    OBVIOUS
  <2>6. CASE r = TRUE
    <3>1. sending' = <<l>>
      BY <1>7, <1>8, <2>6
    <3> QED
      BY <2>2, <2>3, <2>4, <2>5, <2>6, <3>1
  <2>7. CASE r = FALSE
    <3>1. sending' = <<>>
      BY <1>7, <1>8, <2>7
    <3> QED
      BY <2>2, <2>4, <2>5, <2>7, <3>1
  <2> QED
    BY <1>4, <2>6, <2>7
<1>10. sending' = <<l>> \/ sending' = <<>>
  BY <1>7
<1>11. member' \in BOOLEAN
  BY <1>7 DEF LinesTyped
<1> QED
  BY <1>5, <1>6, <1>7, <1>9, <1>10, <1>11, AskedSound

LEMMA InviteOrKickSound ==
    ASSUME LinesTyped, Invite \/ Kick
    PROVE  Sound
<1>1. PICK w \in {"invite", "kick"}, by \in {"INVITE", "KICK"} :
         /\ asked' = Append(asked, [word |-> w, to |-> "bot", by |-> by, relayed |-> TRUE])
         /\ sending' = <<Line(w)>>
  BY DEF Invite, Kick
<1>2. PICK q, l : q = [word |-> w, to |-> "bot", by |-> by, relayed |-> TRUE] /\ l = Line(w)
  OBVIOUS
<1>3. /\ UNCHANGED <<toBot, fromBot, saying, logged, heard>>
      /\ sending = <<>> /\ member' \in BOOLEAN
  BY DEF Invite, Kick, Waits, botVars, LinesTyped
<1>4. q \in LinesAsked /\ l \in LinesToBot
  BY <1>2 DEF LinesAsked, Receivers, LinesToBot, Line
<1>5. ASSUME NEW to \in Receivers
      PROVE  l \notin AnswersTo(to) /\ l \notin QuestionTo(to) /\ q \notin RelayedTo(to)
  <2>1. l.word = w /\ q.word = w
    BY <1>2 DEF Line
  <2> QED
    BY <2>1, Kinds
<1>6. asked' = Append(asked, q) /\ sending' = <<l>>
  BY <1>1, <1>2
<1> QED
  BY <1>3, <1>4, <1>5, <1>6, AskedSound

(* The server reads a line of the bot and sends it a line, or none.        *)
LEMMA TakenSound ==
    ASSUME LinesTyped, Take, sending = <<>>,
           saying' = saying, logged' \in BOOLEAN, member' \in BOOLEAN,
           heard' \in Seq(Nat),
           NEW l \in LinesToBot, sending' = <<l>> \/ sending' = <<>>,
           \A to \in Receivers :
             /\ l \notin QuestionTo(to)
             /\ \/ /\ Arrived(to)' = Arrived(to)
                   /\ sending' = <<l>> => (l \in AnswersTo(to) => Head(fromBot) \in AnswersTo(to))
                \/ /\ Arrived(to)' = Arrived(to) + One(Head(fromBot), AnswersTo(to))
                   /\ sending' = <<>>
    PROVE  Sound
<1>1. PICK h : h = Head(fromBot)
  OBVIOUS
<1>2. /\ fromBot \in Seq(LinesFromBot) /\ fromBot # <<>>
      /\ fromBot' = Tail(fromBot) /\ fromBot' \in Seq(LinesFromBot)
  BY HeadTailProperties DEF LinesTyped, Take
<1>3. toBot' = toBot /\ asked' = asked
  BY DEF Take
<1>4. sending' \in Seq(LinesToBot)
  <2>1. <<l>> \in Seq(LinesToBot) /\ <<>> \in Seq(LinesToBot)
    OBVIOUS
  <2> QED
    BY <2>1
<1>5. LinesTyped'
  BY <1>2, <1>3, <1>4 DEF LinesTyped
<1>6. ASSUME NEW to \in Receivers
      PROVE  Thrifty(to)
  <2>1. /\ Count(fromBot', AnswersTo(to)) + One(h, AnswersTo(to)) <= Count(fromBot, AnswersTo(to))
        /\ One(h, AnswersTo(to)) \in {0, 1}
    BY <1>1, <1>2, CountTail DEF One
  <2>2. Count(sending, AnswersTo(to)) = 0 /\ Count(sending, QuestionTo(to)) = 0
    BY CountEmpty
  <2>3. Count(sending', QuestionTo(to)) = 0
    <3>1. Count(<<l>>, QuestionTo(to)) = 0
      BY CountOne DEF One
    <3> QED
      BY <3>1, CountEmpty
  <2>4. Arrived(to)' + Count(sending', AnswersTo(to)) <= Arrived(to) + One(h, AnswersTo(to))
    <3>1. Arrived(to) \in Nat
      BY CountsAreNumbers
    <3>2. CASE sending' = <<>>
      <4>1. Count(sending', AnswersTo(to)) = 0
        BY <3>2, CountEmpty
      <4> QED
        BY <1>1, <2>1, <3>1, <4>1
    <3>3. CASE sending' = <<l>>
      <4>1. Count(sending', AnswersTo(to)) = One(l, AnswersTo(to))
        BY <3>3, CountOne
      <4>2. /\ Arrived(to)' = Arrived(to)
            /\ l \in AnswersTo(to) => h \in AnswersTo(to)
        <5>1. <<l>> # <<>>
          OBVIOUS
        <5> QED
          BY <1>1, <3>3, <5>1
      <4>3. One(l, AnswersTo(to)) <= One(h, AnswersTo(to)) /\ One(l, AnswersTo(to)) \in {0, 1}
        BY <4>2 DEF One
      <4> QED
        BY <2>1, <3>1, <4>1, <4>2, <4>3
    <3> QED
      BY <3>2, <3>3
  <2>5. /\ Arrived(to) \in Nat /\ Arrived(to)' \in Nat
        /\ \A T : /\ Count(toBot, T) \in Nat /\ Count(saying, T) \in Nat
                  /\ Count(fromBot, T) \in Nat /\ Count(fromBot', T) \in Nat
                  /\ Count(sending', T) \in Nat
    <3>1. Arrived(to)' \in Nat
      BY <1>5 DEF Arrived, LinesTyped
    <3> QED
      BY <1>5, <3>1, CountsAreNumbers, CountsNext
  <2>6. Spent(to)' <= Spent(to)
    <3>1. /\ Count(toBot', AnswersTo(to)) = Count(toBot, AnswersTo(to))
          /\ Count(saying', AnswersTo(to)) = Count(saying, AnswersTo(to))
      BY <1>3
    <3>2. /\ Spent(to) = Arrived(to)
                + (Count(toBot, AnswersTo(to)) + Count(fromBot, AnswersTo(to))
                   + Count(saying, AnswersTo(to)) + Count(sending, AnswersTo(to)))
          /\ Spent(to)' = Arrived(to)'
                + (Count(toBot', AnswersTo(to)) + Count(fromBot', AnswersTo(to))
                   + Count(saying', AnswersTo(to)) + Count(sending', AnswersTo(to)))
      BY SpentParts, SpentPartsNext
    <3>3. One(h, AnswersTo(to)) \in Nat
      BY <2>1
    <3> QED
      BY SMTT(30), <2>1, <2>2, <2>4, <2>5, <3>1, <3>2, <3>3
  <2>7. Pending(to)' = Pending(to) /\ Questions(to)' = Questions(to)
    BY <1>3, <2>2, <2>3, SpentParts, SpentPartsNext
  <2>8. Pending(to) \in Nat
    BY CountsAreNumbers
  <2> QED
    BY <2>6, <2>7, <2>8 DEF Thrifty
<1> QED
  BY <1>5, <1>6 DEF Sound

LEMMA ReplySound ==
    ASSUME LinesTyped, Nick \/ Join
    PROVE  Sound
<1>1. PICK l : l = Line("reply")
  OBVIOUS
<1>2. /\ Take /\ sending = <<>> /\ saying' = saying
      /\ logged' \in BOOLEAN /\ member' \in BOOLEAN /\ heard' = heard
      /\ sending' = <<l>>
  BY <1>1 DEF Nick, Join, Take, Waits, botVars, LinesTyped
<1>3. l \in LinesToBot
  BY <1>1 DEF LinesToBot, Line
<1>4. ASSUME NEW to \in Receivers
      PROVE  l \notin QuestionTo(to) /\ l \notin AnswersTo(to) /\ Arrived(to)' = Arrived(to)
  BY <1>1, <1>2, Kinds DEF Arrived
<1>5. heard' \in Seq(Nat)
  BY <1>2 DEF LinesTyped
<1> QED
  BY <1>2, <1>3, <1>4, <1>5, TakenSound

LEMMA NothingSound ==
    ASSUME LinesTyped, Nothing
    PROVE  Sound
<1>1. PICK l : l = Line("reply")
  OBVIOUS
<1>2. /\ Take /\ sending = <<>> /\ saying' = saying
      /\ logged' \in BOOLEAN /\ member' \in BOOLEAN /\ heard' = heard
      /\ sending' = <<>>
  BY DEF Nothing, Take, Waits, botVars, LinesTyped
<1>3. l \in LinesToBot
  BY <1>1 DEF LinesToBot, Line
<1>4. ASSUME NEW to \in Receivers
      PROVE  l \notin QuestionTo(to) /\ l \notin AnswersTo(to) /\ Arrived(to)' = Arrived(to)
  BY <1>1, <1>2, Kinds DEF Arrived
<1>5. heard' \in Seq(Nat)
  BY <1>2 DEF LinesTyped
<1> QED
  BY <1>2, <1>3, <1>4, <1>5, TakenSound

LEMMA PrivmsgSound ==
    ASSUME LinesTyped, Privmsg
    PROVE  Sound
<1>1. PICK h : h = Head(fromBot)
  OBVIOUS
<1>2. /\ Take /\ sending = <<>> /\ saying' = saying
      /\ logged' \in BOOLEAN /\ member' \in BOOLEAN
      /\ h.word = "answer"
      /\ heard' = IF h.to = "channel" THEN Append(heard, h.n) ELSE heard
      /\ sending' = IF h.to = "bot" THEN <<h>> ELSE <<>>
  BY <1>1 DEF Privmsg, Take, Waits, botVars, LinesTyped
<1>3. h \in Answers
  <2>1. h \in LinesFromBot
    BY <1>1, <1>2, HeadTailProperties DEF LinesTyped, Take
  <2>2. h \notin [word : {"PASS", "USER", "NICK", "PONG", "JOIN"}]
    BY <1>2
  <2> QED
    BY <2>1, <2>2 DEF LinesFromBot
<1>4. h \in LinesToBot /\ h.n \in Nat /\ h.to \in Receivers
  BY <1>3 DEF LinesToBot, Answers, AnswersTo, Receivers
<1>5. heard \in Seq(Nat)
  BY DEF LinesTyped
<1>6. heard' \in Seq(Nat)
  BY <1>2, <1>4, <1>5
<1>7. ASSUME NEW to \in Receivers
      PROVE  /\ h \notin QuestionTo(to)
             /\ \/ /\ Arrived(to)' = Arrived(to)
                   /\ sending' = <<h>> => (h \in AnswersTo(to) => Head(fromBot) \in AnswersTo(to))
                \/ /\ Arrived(to)' = Arrived(to) + One(Head(fromBot), AnswersTo(to))
                   /\ sending' = <<>>
  <2>1. h \notin QuestionTo(to)
    BY <1>2, Kinds
  <2>2. CASE h.to = "bot"
    <3>1. Arrived(to)' = Arrived(to)
      BY <1>2, <2>2 DEF Arrived
    <3> QED
      BY <1>1, <2>1, <3>1
  <2>3. CASE h.to = "channel"
    <3>1. sending' = <<>> /\ heard' = Append(heard, h.n)
      BY <1>2, <2>3
    <3>2. Len(heard') = Len(heard) + 1
      BY <1>4, <1>5, <3>1
    <3>3. One(h, AnswersTo(to)) = IF to = "channel" THEN 1 ELSE 0
      <4>1. h \in AnswersTo("channel")
        BY <1>3, <2>3, Kinds DEF Answers, Receivers
      <4>2. h \in AnswersTo(to) <=> to = "channel"
        BY <2>3, <4>1, Kinds
      <4> QED
        BY <4>2 DEF One
    <3>4. Arrived(to)' = Arrived(to) + One(h, AnswersTo(to))
      <4>1. Arrived(to) \in Nat
        BY CountsAreNumbers
      <4> QED
        BY <3>2, <3>3, <4>1 DEF Arrived
    <3> QED
      BY <1>1, <2>1, <3>1, <3>4
  <2> QED
    BY <1>4, <2>2, <2>3 DEF Receivers
<1>8. sending' = <<h>> \/ sending' = <<>>
  BY <1>2
<1> QED
  BY <1>2, <1>4, <1>6, <1>7, <1>8, TakenSound

LEMMA IdleSound ==
    ASSUME LinesTyped, Hangup \/ UNCHANGED vars
    PROVE  Sound
<1>1. /\ UNCHANGED <<toBot, fromBot, saying, sending, asked, heard>>
      /\ logged' \in BOOLEAN /\ member' \in BOOLEAN
  BY DEF Hangup, vars, botVars, LinesTyped
<1>2. LinesTyped'
  BY <1>1 DEF LinesTyped
<1>3. ASSUME NEW to \in Receivers
      PROVE  Thrifty(to)
  <2>1. /\ Spent(to)' = Spent(to) /\ Pending(to)' = Pending(to)
        /\ Questions(to)' = Questions(to)
    BY <1>1 DEF Spent, Arrived, OnTheWay, Pending, Questions
  <2>2. Spent(to) \in Nat /\ Pending(to) \in Nat
    BY CountsAreNumbers
  <2> QED
    BY <2>1, <2>2 DEF Thrifty
<1> QED
  BY <1>2, <1>3 DEF Sound

LEMMA BotInitInv == Init => BotInv
<1> SUFFICES ASSUME Init PROVE BotInv
  OBVIOUS
<1>1. /\ toBot = <<>> /\ fromBot = <<>> /\ sending = <<>> /\ asked = <<>> /\ heard = <<>>
      /\ saying = <<Line("PASS"), Line("USER"), Line("NICK")>>
      /\ logged = FALSE /\ member = FALSE
  BY DEF Init
<1>2. saying \in Seq([word : {"PASS", "USER", "NICK"}])
  BY <1>1 DEF Line
<1>3. [word : {"PASS", "USER", "NICK"}] \subseteq LinesFromBot
  BY DEF LinesFromBot
<1>4. saying \in Seq(LinesFromBot)
  BY <1>2, <1>3, SeqMonotonic
<1>5. LinesTyped
  <2>1. \A X : <<>> \in Seq(X)
    OBVIOUS
  <2> QED
    BY <1>1, <1>4, <2>1 DEF LinesTyped
<1>6. ASSUME NEW to \in Receivers
      PROVE  Spent(to) = 0 /\ Pending(to) = 0 /\ Questions(to) = 0
  <2>1. [word : {"PASS", "USER", "NICK"}] \cap AnswersTo(to) = {}
    BY Kinds
  <2>2. Count(saying, AnswersTo(to)) = 0
    BY <1>2, <2>1, CountNone
  <2>3. Arrived(to) = 0
    BY <1>1 DEF Arrived
  <2> QED
    BY <1>1, <2>2, <2>3, CountEmpty, SpentParts
<1>7. Length * 0 = 0
  BY RoomAssumption
<1> QED
  BY <1>5, <1>6, <1>7 DEF BotInv, Spent

LEMMA BotNextInv == BotInv /\ [Next]_vars => BotInv'
<1> SUFFICES ASSUME BotInv, [Next]_vars PROVE BotInv'
  OBVIOUS
<1>1. LinesTyped
  BY DEF BotInv
<1>2. Sound
  BY <1>1, ReadSound, SaySound, DeliverSound, AskSound, InviteOrKickSound,
     ReplySound, NothingSound, PrivmsgSound, IdleSound
     DEF Next, User, Server, Receivers
<1> QED
  BY <1>2, ThriftPays

LEMMA BotInvariant == Spec => []BotInv
  BY BotInitInv, BotNextInv, PTL DEF Spec

(* A question is answered once at most, for any size of sockets and files: *)
(* the lines of answers the user has got, with all those on their way,     *)
(* are never more than Length for each question, although the answers to   *)
(* private questions come back to the bot.                                 *)
THEOREM OneAnswerAtMost == Spec => []NoAnswerToAnswers
<1>1. BotInv => NoAnswerToAnswers
  <2> SUFFICES ASSUME BotInv, NEW to \in Receivers
               PROVE  Spent(to) <= Length * Questions(to)
    BY DEF NoAnswerToAnswers, Spent
  <2>1. /\ LinesTyped
        /\ Spent(to) + Length * Pending(to) <= Length * Questions(to)
    BY DEF BotInv, Spent
  <2>2. Spent(to) \in Nat /\ Pending(to) \in Nat /\ Questions(to) \in Nat /\ Length \in Nat
    BY <2>1, CountsAreNumbers, RoomAssumption
  <2>3. Length * Pending(to) \in Nat /\ Length * Questions(to) \in Nat
    BY <2>2
  <2> QED
    BY <2>1, <2>2, <2>3
<1> QED
  BY <1>1, BotInvariant, PTL
=============================================================================
