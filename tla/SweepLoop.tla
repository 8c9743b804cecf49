------------------------------ MODULE SweepLoop ------------------------------
(***************************************************************************)
(* The loop at the end of IRCServer::_removeUser(nick), statement by       *)
(* statement: `left' are the keys still in _channels, and the iterator     *)
(* `chit' is the set of keys from its element to the end, so that begin()  *)
(* is left and end() is {}.  Whether a channel is empty does not change    *)
(* while the loop runs.                                                    *)
(***************************************************************************)
EXTENDS Sweep, FiniteSets

CONSTANT Chans      \* channel names, in the order of std::map

ASSUME ChansAssumption == Chans \subseteq Nat /\ IsFiniteSet(Chans)

VARIABLES
    names,      \* the channels when the loop starts
    empties,    \* those of them without users
    left,       \* the channels now
    chit,       \* the iterator
    pc          \* "loop" at the loop's test, "done" after it

svars == <<names, empties, left, chit, pc>>

First(S, x) == x \in S /\ \A y \in S : x <= y

SInit ==
    /\ names \in SUBSET Chans
    /\ empties \in SUBSET names
    /\ left = names
    /\ chit = left
    /\ pc = "loop"

(* chit == end()                                                           *)
Exit ==
    /\ pc = "loop"
    /\ chit = {}
    /\ pc' = "done"
    /\ UNCHANGED <<names, empties, left, chit>>

(* Mutant of Keep: the iterator is not advanced.                           *)
KeepStays(x) ==
    /\ pc = "loop"
    /\ First(chit, x)
    /\ x \notin empties
    /\ UNCHANGED svars

(* A channel with users: ++chit.                                           *)
Keep(x) ==
    /\ pc = "loop"
    /\ First(chit, x)
    /\ x \notin empties
    /\ chit' = chit \ {x}
    /\ UNCHANGED <<names, empties, left, pc>>

(* Mutant of Erase: the loop looks at begin() after an erase.              *)
EraseRestarts(x) ==
    /\ pc = "loop"
    /\ First(chit, x)
    /\ x \in empties
    /\ left' = left \ {x}
    /\ chit' = left'
    /\ UNCHANGED <<names, empties, pc>>

(* A channel without users is erased, chit is set to begin(), and unless   *)
(* that is end() the loop's ++ follows.                                    *)
Erase(x) ==
    /\ pc = "loop"
    /\ First(chit, x)
    /\ x \in empties
    /\ left' = left \ {x}
    /\ IF left' = {}
       THEN chit' = left' /\ pc' = "done"
       ELSE pc' = pc /\ \E y \in left' : First(left', y) /\ chit' = left' \ {y}
    /\ UNCHANGED <<names, empties>>

SNext == Exit \/ \E x \in Chans : Keep(x) \/ Erase(x)

SSpec == SInit /\ [][SNext]_svars

(* Nothing in the loop blocks.                                             *)
SFairSpec == SSpec /\ WF_svars(SNext)

-----------------------------------------------------------------------------
(* What the loop computes is the closed form the handlers use: the empty   *)
(* channels are gone, except for the second of all channels when the first *)
(* is empty too.                                                           *)
SweepResult == pc = "done" => left = Swept(names, empties)

(* Although an erase moves the iterator back to the beginning, the loop    *)
(* ends, whatever channels there are.                                      *)
SweepEnds == <>(pc = "done")

(* The argument: what the iterator has passed is what stays, and the       *)
(* beginning it is reset to is an element that stays (the first of all     *)
(* channels, or the second when the first has been erased).                *)
SweepInv ==
    /\ names \subseteq Chans
    /\ empties \subseteq names
    /\ left \subseteq names
    /\ chit \subseteq left
    /\ pc \in {"loop", "done"}
    /\ names \ left \subseteq empties
    /\ Swept(names, empties) \subseteq left
    /\ left \ chit \subseteq Swept(names, empties)
    /\ \A x \in chit, y \in left : x <= y => y \in chit
    /\ \/ left = names /\ chit = names
       \/ \E x \in names \ empties : First(names, x)
       \/ \E a \in names \ left, b \in left \ chit :
             First(names, a) /\ First(names \ {a}, b)
       \/ left = {}
    /\ pc = "done" => chit = {}
=============================================================================
