----------------------------- MODULE SweepProofs -----------------------------
(***************************************************************************)
(* The erase loop computes Swept, for any set of channels: SweepLoop's     *)
(* invariant is inductive.  The handlers of Registry use Swept.  And it    *)
(* ends: every iteration has a next one that is nearer to the end.         *)
(***************************************************************************)
EXTENDS SweepLoop, WellFoundedInduction, TLAPS

(* Every reachable state of the loop satisfies SweepInv at its start.      *)
LEMMA SweepInvInit == SInit => SweepInv
  BY DEF SInit, SweepInv, Swept, SteppedOver

(* Passing over a channel with users keeps SweepInv.                       *)
LEMMA SweepInvKeep ==
    ASSUME NEW x \in Chans, SweepInv, Keep(x)
    PROVE  SweepInv'
<1> USE ChansAssumption DEF First
<1>1. /\ pc = "loop" /\ x \in chit /\ x \notin empties
      /\ chit' = chit \ {x}
      /\ names' = names /\ empties' = empties /\ left' = left /\ pc' = pc
      /\ \A y \in chit : x <= y
  BY DEF Keep
<1>2. x \in left /\ x \in names /\ x \in Swept(names, empties)
  BY <1>1 DEF SweepInv, Swept
<1>3. (left \ chit)' \subseteq Swept(names, empties)
  BY <1>1, <1>2 DEF SweepInv
<1>4. \A y \in chit', z \in left' : y <= z => z \in chit'
  <2> SUFFICES ASSUME NEW y \in chit', NEW z \in left', y <= z
               PROVE  z \in chit'
    OBVIOUS
  <2>1. y \in chit /\ y # x /\ z \in chit
    BY <1>1 DEF SweepInv
  <2>2. x \in Nat /\ y \in Nat /\ z \in Nat
    BY <1>2, <2>1 DEF SweepInv
  <2>3. x <= y
    BY <1>1, <2>1
  <2>4. z # x
    BY <2>1, <2>2, <2>3
  <2> QED
    BY <1>1, <2>1, <2>4
<1>5. \/ left' = names' /\ chit' = names'
      \/ \E f \in names' \ empties' : First(names', f)
      \/ \E a \in names' \ left', b \in left' \ chit' :
            First(names', a) /\ First(names' \ {a}, b)
      \/ left' = {}
  <2>1. CASE left = names /\ chit = names
    BY <2>1, <1>1, <1>2
  <2>2. CASE ~(left = names /\ chit = names)
    BY <2>2, <1>1 DEF SweepInv
  <2> QED
    BY <2>1, <2>2
<1> QED
  BY <1>1, <1>2, <1>3, <1>4, <1>5 DEF SweepInv

(* Erasing a channel and stepping over the new beginning keeps SweepInv.   *)
LEMMA SweepInvErase ==
    ASSUME NEW x \in Chans, SweepInv, Erase(x)
    PROVE  SweepInv'
<1> USE ChansAssumption DEF First
<1>1. /\ pc = "loop" /\ x \in chit /\ x \in empties
      /\ left' = left \ {x}
      /\ names' = names /\ empties' = empties
      /\ \A y \in chit : x <= y
  BY DEF Erase
<1>2. /\ x \in left /\ x \in names /\ x \in Nat
      /\ names \subseteq Nat /\ left \subseteq names
      /\ names \ left \subseteq empties
      /\ Swept(names, empties) \subseteq left
      /\ left \ chit \subseteq Swept(names, empties)
  BY <1>1 DEF SweepInv
<1>3. x \notin Swept(names, empties)
  <2> SUFFICES ASSUME NEW f \in names, f \in empties, f < x,
                      \A z \in names \ {f} : x <= z
               PROVE  FALSE
    BY <1>1 DEF Swept, SteppedOver
  <2>1. CASE left = names /\ chit = names
    BY <2>1, <1>1, <1>2
  <2>2. CASE \E a \in names \ empties : First(names, a)
    <3> PICK a \in names \ empties : First(names, a)
      BY <2>2
    <3>1. a # f /\ a # x
      BY <1>1
    <3> QED
      BY <1>1, <1>2, <3>1
  <2>3. CASE \E a \in names \ left, b \in left \ chit :
                First(names, a) /\ First(names \ {a}, b)
    <3> PICK a \in names \ left, b \in left \ chit :
                First(names, a) /\ First(names \ {a}, b)
      BY <2>3
    <3>1. x # b /\ x # a /\ a # b /\ b \in names
      BY <1>1, <1>2
    <3>2. CASE f = a
      BY <3>1, <3>2, <1>2
    <3>3. CASE f # a
      BY <3>1, <3>3, <1>2
    <3> QED
      BY <3>2, <3>3
  <2>4. CASE left = {}
    BY <2>4, <1>2
  <2> QED
    BY <2>1, <2>2, <2>3, <2>4 DEF SweepInv
<1>4. Swept(names, empties) \subseteq left'
  BY <1>1, <1>2, <1>3
<1>5. CASE left' = {}
  <2>1. chit' = {} /\ pc' = "done"
    BY <1>5 DEF Erase
  <2> QED
    BY <1>1, <1>2, <1>4, <1>5, <2>1 DEF SweepInv
<1>6. CASE left' # {}
  <2>1. PICK y \in left' : First(left', y) /\ chit' = left' \ {y}
    BY <1>6 DEF Erase
  <2>2. pc' = "loop"
    BY <1>1, <1>6 DEF Erase
  <2>3. y \in names /\ y # x /\ y \in Nat
    BY <1>1, <1>2, <2>1
  <2>4. /\ y \in Swept(names, empties)
        /\ \/ \E f \in names \ empties : First(names, f)
           \/ \E a \in names \ left', b \in left' \ chit' :
                 First(names, a) /\ First(names \ {a}, b)
    <3>1. CASE left = names /\ chit = names
      <4>1. x \in names \ left' /\ First(names, x) /\ x < y
        BY <3>1, <1>1, <1>2, <2>3
      <4>2. y \in left' \ chit' /\ First(names \ {x}, y)
        BY <3>1, <1>1, <2>1
      <4>3. SteppedOver(names, empties, y)
        BY <4>1, <4>2, <1>1 DEF SteppedOver
      <4> QED
        BY <4>1, <4>2, <4>3, <2>3 DEF Swept
    <3>2. CASE \E f \in names \ empties : First(names, f)
      <4> PICK f \in names \ empties : First(names, f)
        BY <3>2
      <4>1. f \in left'
        BY <1>1, <1>2
      <4>2. y = f
        BY <4>1, <2>1, <2>3, <1>2
      <4> QED
        BY <4>2, <3>2 DEF Swept
    <3>3. CASE \E a \in names \ left, b \in left \ chit :
                  First(names, a) /\ First(names \ {a}, b)
      <4> PICK a \in names \ left, b \in left \ chit :
                  First(names, a) /\ First(names \ {a}, b)
        BY <3>3
      <4>1. b \in left' /\ b \in names /\ a \notin left'
        BY <1>1, <1>2
      <4>2. b <= y /\ y <= b
        BY <4>1, <2>1, <2>3
      <4>3. y = b
        BY <4>1, <4>2, <2>3, <1>2
      <4>4. b \in left' \ chit'
        BY <4>1, <4>3, <2>1
      <4>5. \E a1 \in names \ left', b1 \in left' \ chit' :
               First(names, a1) /\ First(names \ {a1}, b1)
        BY <4>1, <4>4
      <4> QED
        BY <4>3, <4>5, <1>2
    <3>4. CASE left = {}
      BY <3>4, <1>2
    <3> QED
      BY <3>1, <3>2, <3>3, <3>4 DEF SweepInv
  <2>5. (left \ chit)' \subseteq Swept(names, empties)
    BY <2>1, <2>4
  <2>6. \A u \in chit', z \in left' : u <= z => z \in chit'
    <3> SUFFICES ASSUME NEW u \in chit', NEW z \in left', u <= z
                 PROVE  z \in chit'
      OBVIOUS
    <3>1. y <= u /\ u # y /\ u \in Nat
      BY <2>1, <1>1, <1>2
    <3>2. z # y
      BY <3>1, <2>3
    <3> QED
      BY <3>2, <2>1
  <2> QED
    <3>1. names' \subseteq Chans /\ empties' \subseteq names'
      BY <1>1 DEF SweepInv
    <3>2. left' \subseteq names' /\ chit' \subseteq left'
      BY <1>1, <1>2, <2>1
    <3>3. names' \ left' \subseteq empties'
      BY <1>1, <1>2
    <3> QED
      BY <3>1, <3>2, <3>3, <1>1, <1>4, <2>2, <2>4, <2>5, <2>6 DEF SweepInv
<1> QED
  BY <1>5, <1>6

(* SweepInv is an invariant of the loop.                                   *)
THEOREM SweepInvariant == SSpec => []SweepInv
<1>1. SInit => SweepInv
  BY SweepInvInit
<1>2. SweepInv /\ [SNext]_svars => SweepInv'
  <2> SUFFICES ASSUME SweepInv, [SNext]_svars PROVE SweepInv'
    OBVIOUS
  <2>1. CASE Exit
    BY <2>1 DEF Exit, SweepInv
  <2>2. ASSUME NEW x \in Chans, Keep(x) PROVE SweepInv'
    BY <2>2, SweepInvKeep
  <2>3. ASSUME NEW x \in Chans, Erase(x) PROVE SweepInv'
    BY <2>3, SweepInvErase
  <2>4. CASE UNCHANGED svars
    BY <2>4 DEF svars, SweepInv
  <2> QED
    BY <2>1, <2>2, <2>3, <2>4 DEF SNext
<1> QED
  BY <1>1, <1>2, PTL DEF SSpec

(* When the loop of _removeUser ends, the channels left are Swept of the   *)
(* channels there were: whatever channels exist, the loop erases exactly   *)
(* the empty ones, but for the second channel when the first is empty.     *)
THEOREM SweepIsSwept == SSpec => []SweepResult
<1>1. SweepInv => SweepResult
  BY DEF SweepInv, SweepResult
<1> QED
  BY <1>1, SweepInvariant, PTL

-----------------------------------------------------------------------------
(* Why the loop ends                                                       *)

(* A channel less; or as many channels, and one less to be looked at; or   *)
(* the end.                                                                *)
GetsOn ==
    \/ left' \subseteq left /\ left' # left
    \/ left' = left /\ chit' \subseteq chit /\ chit' # chit
    \/ left' = left /\ chit' = chit /\ pc = "loop" /\ pc' = "done"

(* Although an erase sets the iterator back, the loop never comes back to  *)
(* where it was: whatever it does brings it nearer to its end.             *)
THEOREM SweepGetsOn == SSpec => [][GetsOn]_svars
<1>1. SweepInv /\ [SNext]_svars => [GetsOn]_svars
  <2> SUFFICES ASSUME SweepInv, SNext PROVE GetsOn
    OBVIOUS
  <2>1. CASE Exit
    BY <2>1 DEF Exit, GetsOn
  <2>2. ASSUME NEW x \in Chans, Keep(x) PROVE GetsOn
    BY <2>2 DEF Keep, First, GetsOn
  <2>3. ASSUME NEW x \in Chans, Erase(x) PROVE GetsOn
    <3>1. x \in chit /\ left' = left \ {x}
      BY <2>3 DEF Erase, First
    <3>2. x \in left
      BY <3>1 DEF SweepInv
    <3> QED
      BY <3>1, <3>2 DEF GetsOn
  <2> QED
    BY <2>1, <2>2, <2>3 DEF SNext
<1> QED
  BY <1>1, SweepInvariant, PTL DEF SSpec

(* Channels that are there have a first one.                               *)
LEMMA FirstExists ==
    ASSUME NEW S, S \subseteq Nat, S # {}
    PROVE  \E x \in S : First(S, x)
<1>1. PICK x \in S : \A y \in S : ~ (<<y, x>> \in OpToRel(<, Nat))
  BY NatLessThanWellFounded, WFMin
<1>2. ASSUME NEW y \in S PROVE x <= y
  <2>1. ~ (y < x)
    BY <1>1 DEF OpToRel
  <2> QED
    BY <2>1
<1> QED
  BY <1>2 DEF First

(* The guards of Exit, and of Keep or Erase.                               *)
CanGoOn ==
    \/ chit = {}
    \/ \E x \in chit :
          /\ First(chit, x)
          /\ x \in empties /\ left \ {x} # {} =>
                \E y \in left \ {x} : First(left \ {x}, y)

(* Until it is done the loop has a next step: the iterator points to a     *)
(* channel that is there, and begin() is one when it is set back to it.    *)
THEOREM SweepGoesOn == SSpec => [](pc = "loop" => CanGoOn)
<1>1. SweepInv => CanGoOn
  <2> SUFFICES ASSUME SweepInv, chit # {} PROVE CanGoOn
    BY DEF CanGoOn
  <2>1. left \subseteq Nat /\ chit \subseteq Nat
    BY ChansAssumption DEF SweepInv
  <2>2. PICK x \in chit : First(chit, x)
    BY <2>1, FirstExists
  <2>3. left \ {x} # {} => \E y \in left \ {x} : First(left \ {x}, y)
    <3>1. left \ {x} \subseteq Nat
      BY <2>1
    <3> QED
      BY <3>1, FirstExists
  <2> QED
    BY <2>2, <2>3 DEF CanGoOn
<1> QED
  BY <1>1, SweepInvariant, PTL
=============================================================================
