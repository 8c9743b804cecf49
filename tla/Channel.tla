------------------------------- MODULE Channel -------------------------------
(***************************************************************************)
(* The data structure `class Channel' (server/srcs/Channel.cpp) as         *)
(* operators on a channel's fields.                                        *)
(*                                                                         *)
(* A nickname, a channel name, a connection and a channel key are natural  *)
(* numbers; 0 is the empty string (or "nobody").  A `User *' kept by a     *)
(* channel is the number of the connection whose node it points to: the    *)
(* node is entered under the nickname it has at that moment, so an entry   *)
(* n |-> c is the address of the node of connection c with key n, and the  *)
(* pointer dangles as soon as c has no node with that key (see MembersLive *)
(* in Registry).                                                           *)
(***************************************************************************)
EXTENDS Naturals, Sequences, FiniteSets, SequencesExt

CONSTANT LimitUsers     \* Channel::_limit_users, 10 in the code

ASSUME LimitAssumption == LimitUsers \in Nat

(* std::map::erase(key): the map without the key, if it was there.         *)
RemoveUser(members, n) == [m \in DOMAIN members \ {n} |-> members[m]]

(* Mutant of AddUser: the size is compared one too late.                   *)
AddUserLate(members, n, c) ==
    IF Cardinality(DOMAIN members) > LimitUsers + 1 \/ n \in DOMAIN members
    THEN members
    ELSE [m \in DOMAIN members \cup {n} |-> IF m = n THEN c ELSE members[m]]

(* addUser: refused when the map already holds more than the limit; insert *)
(* leaves an entry that exists alone.                                      *)
AddUser(members, n, c) ==
    IF Cardinality(DOMAIN members) > LimitUsers \/ n \in DOMAIN members
    THEN members
    ELSE [m \in DOMAIN members \cup {n} |-> IF m = n THEN c ELSE members[m]]

(* _chops is a vector of copies of User objects of which only the nickname *)
(* is ever read.                                                           *)
AddChop(chops, n) == Append(chops, n)

IsChop(chops, n) == \E i \in 1..Len(chops) : chops[i] = n

RemoveChop(chops, n) == RemoveFirst(chops, n)

(* What _JOIN builds for a name that is not in use: constructor, addUser,  *)
(* addChop and setPass.  `founder' is a history field: the connection that *)
(* created the channel.                                                    *)
NewChannel(n, c, key) ==
    [users   |-> AddUser([m \in {} |-> 0], n, c),
     chops   |-> AddChop(<<>>, n),
     pass    |-> key,
     founder |-> c]

(* Mutant of Renamed: the operator entry keeps the old nickname.           *)
RenamedChopForgotten(channel, old, n, c) ==
    [channel EXCEPT
        !.users = IF old \in DOMAIN @
                  THEN AddUser(RemoveUser(@, old), n, c) ELSE @]

(* The body of the loop over _channels in _NICK: the operator entry and    *)
(* the member entry move from the old to the new nickname, the member      *)
(* entry now pointing to the new node.                                     *)
Renamed(channel, old, n, c) ==
    [channel EXCEPT
        !.chops = IF IsChop(@, old) THEN AddChop(RemoveChop(@, old), n) ELSE @,
        !.users = IF old \in DOMAIN @
                  THEN AddUser(RemoveUser(@, old), n, c) ELSE @]

WithoutUser(channel, n) == [channel EXCEPT !.users = RemoveUser(@, n)]

WithUser(channel, n, c) == [channel EXCEPT !.users = AddUser(@, n, c)]

IsEmptyChannel(channel) == DOMAIN channel.users = {}
=============================================================================
