------------------------------ MODULE ChatRooms ------------------------------
(***************************************************************************)
(* What the server promises its clients, without its tables: clients are   *)
(* known by the connection they came with, a room is a set of clients, and *)
(* a nickname is only a label.  In particular a rename moves nobody in or  *)
(* out of a room, whoever goes is gone from every room at once, and nobody *)
(* is in a room without having entered it.  Registry implements this.      *)
(***************************************************************************)
CONSTANTS Conns, Nicks, Rooms, NoNick

VARIABLES
    online,     \* the clients the server has a record of
    name,       \* client |-> its nickname, NoNick before the first NICK
    rooms       \* room |-> the clients in it

cvars == <<online, name, rooms>>

Without(c, S) == [r \in Rooms |-> IF r \in S THEN rooms[r] \ {c} ELSE rooms[r]]

Arrive(c) ==
    /\ c \notin online
    /\ online' = online \cup {c}
    /\ UNCHANGED <<name, rooms>>

(* The label is free; everything else stays.                               *)
Rename(c, n) ==
    /\ c \in online
    /\ \A d \in online : name[d] # n
    /\ name' = [name EXCEPT ![c] = n]
    /\ UNCHANGED <<online, rooms>>

Enter(c, r) ==
    /\ c \in online
    /\ name[c] # NoNick
    /\ rooms' = [rooms EXCEPT ![r] = @ \cup {c}]
    /\ UNCHANGED <<online, name>>

Leave(c, S) ==
    /\ c \in online
    /\ rooms' = Without(c, S)
    /\ UNCHANGED <<online, name>>

(* Only somebody in the room may show a client the door.                   *)
Expel(by, c, r) ==
    /\ by \in rooms[r]
    /\ rooms' = Without(c, {r})
    /\ UNCHANGED <<online, name>>

Depart(c) ==
    /\ c \in online
    /\ online' = online \ {c}
    /\ name' = [name EXCEPT ![c] = NoNick]
    /\ rooms' = Without(c, Rooms)

CInit ==
    /\ online = {}
    /\ name = [c \in Conns |-> NoNick]
    /\ rooms = [r \in Rooms |-> {}]

CNext ==
    \E c \in Conns :
        \/ Arrive(c)
        \/ \E n \in Nicks : Rename(c, n)
        \/ \E r \in Rooms : Enter(c, r)
        \/ \E S \in SUBSET Rooms : Leave(c, S)
        \/ \E by \in Conns, r \in Rooms : Expel(by, c, r)
        \/ Depart(c)

CSpec == CInit /\ [][CNext]_cvars
=============================================================================
