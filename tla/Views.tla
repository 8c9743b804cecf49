-------------------------------- MODULE Views -------------------------------
(***************************************************************************)
(* The clients' side of Messaging: the list of nicknames a client keeps    *)
(* for each channel it is on, made of nothing but the messages it has      *)
(* received.  The clients are not part of the repository; this one does    *)
(* what an IRC client does with JOIN, PART, KICK, NICK, QUIT and the list  *)
(* that NAMES and JOIN answer with.                                        *)
(***************************************************************************)
EXTENDS Messaging

VARIABLES
    view,       \* client |-> channel |-> the nicknames in its list, {} for
                \* a channel it is not on
    informed    \* client |-> the channels it is on of which it has received
                \* the list since it has entered

wvars == <<mvars, view, informed>>

Inbox(c, kinds) == {m \in told' : m.to = c /\ m.kind \in kinds}
About(messages, ch) == {m \in messages : ch \in m.where}
Whom(messages) == {m.who : m \in messages}

Connected(c) == \E fd \in Fds : peer[fd] = c

(* The nicknames after the renames among the messages.                     *)
Relabelled(c, names) ==
    UNION {LET now == {m \in Inbox(c, {"NICK"}) : m.who = n}
           IN  IF now = {} THEN {n} ELSE UNION {m.names : m \in now} : n \in names}

NextView(c, ch) ==
    LET come == Whom(About(Inbox(c, {"JOIN"}), ch))
        gone == Whom(About(Inbox(c, {"PART", "KICK"}), ch)
                        \cup Inbox(c, {"QUIT"}))
        told353 == UNION {m.names : m \in About(Inbox(c, {"NAMES"}), ch)}
        was == view[c][ch]
    IN  IF \/ ~Connected(c)'
           \/ NameOf(c) \in gone
           \/ was = {} /\ NameOf(c) \notin come
        THEN {}
        ELSE Relabelled(c, (was \ gone) \cup come \cup told353)

NextInformed(c, ch) ==
    /\ view'[c][ch] # {}
    /\ ch \in informed[c] \/ About(Inbox(c, {"NAMES"}), ch) # {}

WInit ==
    /\ MInit
    /\ view = [c \in Conns |-> [ch \in Chans |-> {}]]
    /\ informed = [c \in Conns |-> {}]

WNext ==
    /\ MNext
    /\ view' = [c \in Conns |-> [ch \in Chans |-> NextView(c, ch)]]
    /\ informed' = [c \in Conns |-> {ch \in Chans : NextInformed(c, ch)}]

WSpec == WInit /\ [][WNext]_wvars

-----------------------------------------------------------------------------
(* Properties, of channels that addUser lets everybody into.               *)

Members(ch) == IF ch \in DOMAIN channels THEN DOMAIN channels[ch].users ELSE {}

(* What the server sends is enough for a client to know who is where:      *)
(* through renames, partings, kicks, quits and disconnections of anybody,  *)
(* nobody is in its list that is not on the channel, it knows whether it   *)
(* is on it itself, and when it has received the list of the channel once  *)
(* its own is exact from then on.                                          *)
ListsExact ==
    \A c \in DOMAIN users, ch \in Chans :
        /\ view[c][ch] \subseteq Members(ch)
        /\ users[c].nick \in view[c][ch] <=> c \in RoomOf(ch)
        /\ ch \in informed[c] => view[c][ch] = Members(ch)

(* Also when the list is never sent, no two clients share a channel        *)
(* without one of them knowing it.                                         *)
OneSeesTheOther ==
    \A ch \in DOMAIN channels : \A c, d \in RoomOf(ch) :
        \/ users[d].nick \in view[c][ch]
        \/ users[c].nick \in view[d][ch]

-----------------------------------------------------------------------------
(* The inductive invariant (proved in MessagingProofs), by connection, so  *)
(* that it says of those who are gone that they have no lists.             *)

(* addUser refuses nobody, neither now nor in the next step.               *)
RoomForAll ==
    \A ch \in DOMAIN channels :
        Cardinality(DOMAIN channels[ch].users) <= LimitUsers

ViewsInv ==
    \A c \in Conns, ch \in Chans :
        /\ c \notin RoomOf(ch) => view[c][ch] = {}
        /\ c \in RoomOf(ch) => NameOf(c) \in view[c][ch]
        /\ view[c][ch] \subseteq Members(ch)
        /\ ch \in informed[c] => c \in RoomOf(ch) /\ view[c][ch] = Members(ch)
=============================================================================
