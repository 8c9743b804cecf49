----------------------------- MODULE MCEventLoop ----------------------------
(***************************************************************************)
(* Instances of EventLoop for TLC, and the sentence of the repository      *)
(* about idle clients that the code does not keep.                         *)
(***************************************************************************)
EXTENDS EventLoop

(* Bounds of the run of the safety properties: four connections are what   *)
(* it takes for a client to be killed in the round in which it has written *)
(* while a record is left with its socket (Late).  So that they fit, one   *)
(* connection waits and one client at most keeps the server waiting at a   *)
(* time, two are readable together, SIGINT comes before the fourth, two at *)
(* most have no nickname yet, NICK comes before USER, only the first       *)
(* nickname is an operator's and only the second connection stops in the   *)
(* middle of a line.                                                       *)
Narrow ==
    /\ waiting <= 1
    /\ Cardinality(sending) <= 1
    /\ exitFlag => accepted < MaxConns
    /\ Cardinality({fd \in Fds : input[fd] # "none"}) <= 2
    /\ \A fd \in Fds : input[fd] = "half" => peer[fd] = 2
    /\ Cardinality({c \in DOMAIN users : users[c].nick = NoNick}) <= 2
    /\ \A c \in DOMAIN users : users[c].isUser => users[c].isNick
    /\ operators \subseteq {1}

(* README: PING / PONG: "this message is sent at regular intervals unless  *)
(* other activity is noticed from the connection. if the client does not   *)
(* send PONG in response to PING, the connection is closed".  Violated:    *)
(* select() has no timeout and no PING is ever sent; a client that says    *)
(* nothing stays.                                                          *)
SilentClientGoes ==
    \A fd \in Fds, c \in Conns :
        peer[fd] = c ~> (peer[fd] # c \/ input[fd] # "none" \/ Crashed \/ exitFlag)
=============================================================================
