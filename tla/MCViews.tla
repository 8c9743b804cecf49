------------------------------- MODULE MCViews ------------------------------
(***************************************************************************)
(* Instances of Messaging and Views for TLC, and the sentences of the      *)
(* repository about messages that the code does not keep.                  *)
(***************************************************************************)
EXTENDS Views

(* What has been sent in the last step, and to whom it was addressed, is   *)
(* never read: two states that differ in it alone are one.                 *)
Seen == <<vars, topic, listed, view, informed>>

(* Bounds: one client at most has not logged in yet (the instances of      *)
(* Registry have more); one nickname at most is an operator's, and nobody  *)
(* enters a channel while there is an operator (KILL tells the clients     *)
(* what QUIT does, and the channels it acts on are there before).          *)
FewStrangers ==
    /\ Cardinality({c \in DOMAIN users : ~users[c].logged}) <= 1
    /\ operators \subseteq {1}
    /\ operators # {} => job = Idle

-----------------------------------------------------------------------------
(* Sentences of the repository that the code does not keep: TLC refutes    *)
(* them (the README says in which instance).                               *)

(* README: JOIN: "when users enter a channel, they will receive a          *)
(* notification about all users on the channel".  Violated: when a channel *)
(* further down the list refuses the client, no list is sent at all.       *)
EntrantsInformed ==
    job = Idle => \A ch \in DOMAIN channels : \A c \in RoomOf(ch) : ch \in informed[c]

(* README: INVITE: "if the channel is open, then only the channel operator *)
(* can invite to it".  Violated: nobody asks whether the sender is one.    *)
InviteByOperator ==
    \A m \in told : m.kind = "INVITE" =>
        \A ch \in m.where \cap DOMAIN channels : IsChop(channels[ch].chops, m.who)

(* cmds.cpp: the reply ":You're not on that channel" to an INVITE.         *)
(* Violated: the channel that is looked at is the first one, not the one   *)
(* that is named.                                                          *)
InviteByMember ==
    \A m \in told : m.kind = "INVITE" =>
        \A ch \in m.where \cap DOMAIN channels : m.who \in DOMAIN channels[ch].users

(* cmds.cpp addresses the reply 407 to the sender of the PRIVMSG: its      *)
(* first parameter is usr.getNickname().  Violated: it is written to the   *)
(* socket of the receiver that is named twice.                             *)
ResponseToSender ==
    \A m \in told : m.kind = "407" =>
        m.to \in DOMAIN users /\ users[m.to].nick = m.who

(* Channel.cpp: "the limit of users is reached".  Violated: a client that  *)
(* addUser has turned away is announced to the channel all the same.       *)
AnnouncedHasEntered ==
    \A m \in told : m.kind = "JOIN" =>
        \A ch \in m.where : m.who \in DOMAIN channels[ch].users
=============================================================================
