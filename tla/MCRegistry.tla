------------------------------ MODULE MCRegistry -----------------------------
(***************************************************************************)
(* Instances of Registry for TLC, and the sentences of the repository that *)
(* the code does not keep.                                                 *)
(***************************************************************************)
EXTENDS Registry

-----------------------------------------------------------------------------
(* Sentences of the repository that the code does not keep: TLC refutes    *)
(* them (the README says in which instance).                               *)

(* cmds.cpp: "if group is empty - del it"; IRCServer.cpp: "removing        *)
(* channel".  Violated: the sweep after a QUIT steps over a channel.       *)
NoEmptyChannel == \A ch \in DOMAIN channels : ~IsEmptyChannel(channels[ch])

(* cmds.cpp, in _QUIT before close() and _removeUser(): "removing the      *)
(* user".  Violated: a client that goes before its NICK leaves its own     *)
(* node behind, and takes the oldest anonymous one with it.                *)
QuitterRemoved == \A c \in DOMAIN users : peer[users[c].sock] = c

(* README: OPER is "used to take operator rights. parameters are used to   *)
(* identify the user".  Violated: the nickname of an operator who has gone *)
(* stays in _operators and whoever takes it next is an operator.           *)
OperatorRightsEarned ==
    \A c \in DOMAIN users : users[c].nick \in operators => users[c].oper

(* Channel.cpp: "the limit of users is reached", said of _limit_users.     *)
(* Violated by one: the size is compared with > before the insertion.      *)
ChannelLimit ==
    \A ch \in DOMAIN channels :
        Cardinality(DOMAIN channels[ch].users) <= LimitUsers

(* cmds.cpp: "if more than 10 groups".  Violated by one, for the same      *)
(* reason.                                                                 *)
GroupLimit == \A n \in Nicks : Groups(n) <= MaxGroups
=============================================================================
