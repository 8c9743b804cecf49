-------------------------------- MODULE Sweep --------------------------------
(***************************************************************************)
(* The loop at the end of IRCServer::_removeUser(nick) that is to erase    *)
(* the channels left without users (server/srcs/IRCServer.cpp, 261-271),   *)
(* in closed form.  After an erase the iterator is set to begin() and the  *)
(* loop's ++ steps over that element before it is looked at.  SweepLoop    *)
(* models the loop step by step; its proof shows that it ends in Swept.    *)
(***************************************************************************)
EXTENDS Naturals

(* name is the second of all names, and the first of them is empty: the    *)
(* loop erases the first, makes name its new beginning and steps over it.  *)
SteppedOver(names, empties, name) ==
    \E first \in names :
        /\ first \in empties
        /\ first < name
        /\ \A x \in names \ {first} : name <= x

Swept(names, empties) ==
    {name \in names : name \in empties => SteppedOver(names, empties, name)}
=============================================================================
