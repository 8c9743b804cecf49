---------------------------- MODULE Conversation ----------------------------
(***************************************************************************)
(* ChatRooms with what is said in the rooms and what is written over their *)
(* doors.  `asked' is whom the speaker has named in a step, `heard' what   *)
(* the clients hear in it.  Messaging implements this.                     *)
(***************************************************************************)
EXTENDS ChatRooms, Integers

CONSTANTS
    Topics, NoTopic,
    OtherNames,     \* names a speaker may use besides its own
    Lists           \* the receivers a line may name: sequences of
                    \* <<"nick", name>> and <<"room", room>>

VARIABLES
    topics,     \* room |-> its topic
    asked,      \* the receivers the last step's line has named, in order
    heard       \* texts the last step has brought to clients' ears

tvars == <<cvars, topics, asked, heard>>

(* Whom a text is meant for: who has the name, or everybody in the room    *)
(* but those whose name is on the text.                                    *)
MeantFor(r, as) ==
    IF r[1] = "nick" THEN {c \in online : name[c] = r[2]}
    ELSE {c \in rooms[r[2]] : name[c] # as}

Where(r) == IF r[1] = "nick" THEN {} ELSE {r[2]}

Heard(r, as) ==
    {[to |-> c, who |-> as, where |-> Where(r)] : c \in MeantFor(r, as)}

(* Nobody has the name, or there is nobody in the room.                    *)
Nobody(r) ==
    IF r[1] = "nick" THEN \A c \in online : name[c] # r[2] ELSE rooms[r[2]] = {}

(* A text goes to its receivers in order, up to one where there is nobody; *)
(* `reached' are the places in the list it gets to.                        *)
Say(c, as, list, reached) ==
    /\ asked' = list
    /\ c \in online
    /\ as \in {name[c]} \cup OtherNames
    /\ as # NoNick
    /\ \A i \in reached : 1..i \subseteq reached
    /\ \A i \in DOMAIN list \ reached : \E j \in 1..i : Nobody(list[j])
    /\ heard' = UNION {Heard(list[i], as) : i \in reached}
    /\ UNCHANGED <<cvars, topics>>

SetTopic(c, r, t) ==
    /\ c \in online
    /\ topics' = [topics EXCEPT ![r] = t]
    /\ asked' = <<>> /\ heard' = {}
    /\ UNCHANGED cvars

(* Clients come, go and move; a room that is empty may lose its topic.     *)
Move ==
    /\ asked' = <<>> /\ heard' = {}
    /\ CNext \/ UNCHANGED cvars
    /\ \E lost \in SUBSET {r \in Rooms : rooms'[r] = {}} :
         topics' = [r \in Rooms |-> IF r \in lost THEN NoTopic ELSE topics[r]]

TInit ==
    /\ CInit
    /\ topics = [r \in Rooms |-> NoTopic]
    /\ asked = <<>> /\ heard = {}

TNext ==
    \/ Move
    \/ \E list \in Lists, c \in Conns, as \in Nicks :
            \E reached \in SUBSET DOMAIN list : Say(c, as, list, reached)
    \/ \E c \in Conns, r \in Rooms, t \in Topics \cup {NoTopic} : SetTopic(c, r, t)

TSpec == TInit /\ [][TNext]_tvars
=============================================================================
