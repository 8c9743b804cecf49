------------------------------- MODULE Registry ------------------------------
(***************************************************************************)
(* The tables of class IRCServer and the handlers that change them:        *)
(*                                                                         *)
(*   _users      std::multimap<nick, User>     `users'                     *)
(*   _operators  std::map<nick, User*>         `operators'                 *)
(*   _channels   std::map<name, Channel>       `channels'                  *)
(*   _client_fds and the kernel's sockets      `peer'                      *)
(*                                                                         *)
(* The server is one thread: a command is executed to its end before the   *)
(* next one is read, so a handler is one action.  JOIN, whose loop over    *)
(* the listed channels may stop half way, takes one step per channel while *)
(* `job' keeps everything else from happening.                             *)
(*                                                                         *)
(* The order in which clients are served is left open (any descriptor may  *)
(* be readable).  Replies, which change no table, are left out; a command  *)
(* that is answered by an error numeric, or that only reports, is the      *)
(* action Ignored.                                                         *)
(*                                                                         *)
(* Nicknames and channel names are numbers in the order of std::string, 0  *)
(* is the empty string.  A connection is numbered when it is accepted, so  *)
(* the numbers of the nodes with key "" are in the order in which the      *)
(* multimap keeps them.  The key of a node always equals the nickname in   *)
(* its User, and both are the field `nick'.                                *)
(***************************************************************************)
EXTENDS Channel, Sweep

CONSTANTS
    MaxConns,       \* bound: connections accepted in a behaviour
    Fds,            \* descriptors the process may use for clients
    Nicks,          \* nicknames that pass _isCorrectNick
    Chans,          \* channel names
    Keys,           \* channel passwords a client may send
    MaxGroups,      \* the 10 of "if more than 10 groups" in _JOIN
    MaxJoin,        \* bound: channels listed in one JOIN
    PassRequired,   \* _password is not empty
    EarlyDrop       \* environment: a client may go away before its NICK

ASSUME ConnsAssumption == MaxConns \in Nat
ASSUME NamesAssumption ==
    /\ Nicks \subseteq Nat \ {0}
    /\ Chans \subseteq Nat
    /\ Keys \subseteq Nat \ {0}
    /\ Fds \subseteq Nat
ASSUME FiniteAssumption == IsFiniteSet(Chans) /\ IsFiniteSet(Fds)
ASSUME BoundsAssumption ==
    /\ MaxGroups \in Nat
    /\ MaxJoin \in Nat
    /\ PassRequired \in BOOLEAN
    /\ EarlyDrop \in BOOLEAN

VARIABLES
    users,      \* connection |-> User, for the connections with a node
    operators,  \* the keys of _operators (its pointers are never read)
    channels,   \* name |-> Channel, for the channels that exist
    peer,       \* descriptor |-> connection at its other end, 0 if closed
    accepted,   \* number of connections accepted so far
    job,        \* the handler the thread is in the middle of
    up          \* FALSE once the process has ended

vars == <<users, operators, channels, peer, accepted, job, up>>

Conns  == 1..MaxConns
NoNick == 0
NoConn == 0
NoKey  == 0

Target == [ch : Chans, key : Keys \cup {NoKey}]

User == [sock : Fds, nick : Nicks \cup {NoNick},
         password : BOOLEAN, isNick : BOOLEAN, isUser : BOOLEAN,
         logged : BOOLEAN,
         oper : BOOLEAN]    \* history: this client has passed OPER

Job == [kind : {"idle", "join", "tail", "blank"}, conn : Conns \cup {NoConn},
        fd : Fds \cup {0}, rest : Seq(Target)]

Idle == [kind |-> "idle", conn |-> NoConn, fd |-> 0, rest |-> <<>>]

(* Between two iterations of the loop over the channels of a JOIN.         *)
Joining(u, rest) ==
    [kind |-> "join", conn |-> u, fd |-> 0, rest |-> rest]

(* start() has handled a closed connection and goes on to _execute what it *)
(* had read of an unfinished line.                                         *)
TailOf(fd) == [kind |-> "tail", conn |-> NoConn, fd |-> fd, rest |-> <<>>]

(* The same when nothing has been read.                                    *)
BlankOf(fd) == [kind |-> "blank", conn |-> NoConn, fd |-> fd, rest |-> <<>>]

-----------------------------------------------------------------------------
(* Lookups                                                                 *)

(* _users.find(n) returns v: the first node with that key.                 *)
Found(n, v) ==
    /\ v \in DOMAIN users
    /\ users[v].nick = n
    /\ \A w \in DOMAIN users : users[w].nick = n => v <= w

(* _getUser(fd), and the same loop in _execute and _removeUser(sockfd),    *)
(* return u: the first node of the multimap with that socket.              *)
GetUser(fd, u) ==
    /\ u \in DOMAIN users
    /\ users[u].sock = fd
    /\ \A w \in DOMAIN users : users[w].sock = fd =>
            \/ users[u].nick < users[w].nick
            \/ users[u].nick = users[w].nick /\ u <= w

(* The first lines of _execute: an empty server password counts as given.  *)
Passworded(u) == users[u].password \/ ~PassRequired

LoggedIn(u) == Passworded(u) /\ users[u].logged

Touch(u) == [users EXCEPT ![u].password = Passworded(u)]

(* Number of channels with an entry for nickname n.                        *)
Groups(n) ==
    Cardinality({ch \in DOMAIN channels : n \in DOMAIN channels[ch].users})

-----------------------------------------------------------------------------
(* Connections                                                             *)

(* _accept: the kernel returns the lowest free descriptor.                 *)
Accept(fd) ==
    /\ up /\ job = Idle
    /\ accepted < MaxConns
    /\ peer[fd] = NoConn
    /\ \A g \in Fds : peer[g] = NoConn => fd <= g
    /\ accepted' = accepted + 1
    /\ peer' = [peer EXCEPT ![fd] = accepted + 1]
    /\ users' = [c \in DOMAIN users \cup {accepted + 1} |->
                    IF c = accepted + 1
                    THEN [sock |-> fd, nick |-> NoNick, password |-> FALSE,
                          isNick |-> FALSE, isUser |-> FALSE,
                          logged |-> FALSE, oper |-> FALSE]
                    ELSE users[c]]
    /\ UNCHANGED <<operators, channels, job, up>>

(* accept() fails when no descriptor is left; _accept throws, nothing in   *)
(* start() catches it and main() returns.                                  *)
AcceptFails ==
    /\ up /\ job = Idle
    /\ accepted < MaxConns
    /\ \A fd \in Fds : peer[fd] # NoConn
    /\ up' = FALSE
    /\ UNCHANGED <<users, operators, channels, peer, accepted, job>>

(* Mutant of QuitUser: the socket is left open.                            *)
QuitUserKeepsSocket(q, v) ==
    LET n == users[q].nick
        left == [ch \in DOMAIN channels |-> WithoutUser(channels[ch], n)]
        empties == {ch \in DOMAIN left : IsEmptyChannel(left[ch])}
    IN  /\ Found(n, v)
        /\ users' = [c \in DOMAIN users \ {v} |-> users[c]]
        /\ channels' = [ch \in Swept(DOMAIN left, empties) |-> left[ch]]
        /\ UNCHANGED <<operators, peer, accepted, up>>

(* Mutant of QuitUser: the node is erased and the channels keep their      *)
(* pointers to it.                                                         *)
QuitUserStaysOnChannels(q, v) ==
    /\ Found(users[q].nick, v)
    /\ peer' = [peer EXCEPT ![users[q].sock] = NoConn]
    /\ users' = [c \in DOMAIN users \ {v} |-> users[c]]
    /\ UNCHANGED <<operators, channels, accepted, up>>

(* Mutant of QuitUser: the socket is closed and the node stays.            *)
QuitUserOnlyCloses(q, v) ==
    /\ Found(users[q].nick, v)
    /\ peer' = [peer EXCEPT ![users[q].sock] = NoConn]
    /\ UNCHANGED <<users, operators, channels, accepted, up>>

(* The table changes of _QUIT for user q: its socket is closed, its        *)
(* nickname leaves every channel, and the node v that _users.find returns  *)
(* for that nickname is erased.  For q without a nickname v is the oldest  *)
(* node with key "", which need not be q.                                  *)
QuitUser(q, v) ==
    LET n == users[q].nick
        left == [ch \in DOMAIN channels |-> WithoutUser(channels[ch], n)]
        empties == {ch \in DOMAIN left : IsEmptyChannel(left[ch])}
    IN  /\ Found(n, v)
        /\ peer' = [peer EXCEPT ![users[q].sock] = NoConn]
        /\ users' = [c \in DOMAIN users \ {v} |-> users[c]]
        /\ channels' = [ch \in Swept(DOMAIN left, empties) |-> left[ch]]
        /\ UNCHANGED <<operators, accepted, up>>

(* recv returns 0 or fails: start() runs _QUIT and then _execute, which    *)
(* finds somebody if a node with this socket is still there.               *)
Disconnect(fd, u, v) ==
    /\ up /\ job = Idle
    /\ peer[fd] # NoConn
    /\ GetUser(fd, u)
    /\ EarlyDrop \/ users[u].nick # NoNick
    /\ QuitUser(u, v)
    /\ job' = IF \E w \in DOMAIN users \ {v} : users[w].sock = fd
              THEN TailOf(fd) ELSE Idle

(* A descriptor that a KILL has closed earlier in the round is still the   *)
(* socket of another record, one that was left when its client went before *)
(* its NICK: start() takes that record for the client, recv fails with     *)
(* EBADF, and _QUIT closes nothing but erases a node as above.             *)
Expired(fd, u, v) ==
    /\ up /\ job = Idle
    /\ EarlyDrop
    /\ peer[fd] = NoConn
    /\ GetUser(fd, u)
    /\ QuitUser(u, v)
    /\ job' = IF \E w \in DOMAIN users \ {v} : users[w].sock = fd
              THEN BlankOf(fd) ELSE Idle

(* _execute after that, of an empty line: no command matches.              *)
Blank(fd, u) ==
    /\ up /\ job = BlankOf(fd)
    /\ GetUser(fd, u)
    /\ users' = Touch(u)
    /\ job' = Idle
    /\ UNCHANGED <<operators, channels, peer, accepted, up>>

(* A descriptor without a node is readable: start() dereferences           *)
(* _users.end().  Either the process dies of it or, the garbage looking    *)
(* like an empty buffer, _recv and _execute find no user and return.       *)
ReadOrphan(fd) ==
    /\ up /\ job = Idle
    /\ peer[fd] # NoConn
    /\ \A w \in DOMAIN users : users[w].sock # fd
    /\ up' \in BOOLEAN
    /\ UNCHANGED <<users, operators, channels, peer, accepted, job>>

-----------------------------------------------------------------------------
(* Commands: what _execute does for the user u it finds for descriptor fd  *)

Executing(fd, u) ==
    /\ up
    /\ \/ job = Idle /\ peer[fd] # NoConn
       \/ job = TailOf(fd)
    /\ GetUser(fd, u)

(* A line is read past the end of something: Message splits a line of      *)
(* colons into no words and reads the first, PRIVMSG answers 407 to the    *)
(* user that is named twice, whether there is one or not, and NAMES looks  *)
(* at buf_string[i] after elements have been taken off it.  The process    *)
(* dies of it; a process that does not has done what Ignored does.         *)
Misread(fd, u) ==
    /\ Executing(fd, u)
    /\ up' = FALSE
    /\ UNCHANGED <<users, operators, channels, peer, accepted, job>>

(* CAP, PING, PRIVMSG, NOTICE, LIST, NAMES, TOPIC, INVITE, an unknown      *)
(* command, and every command that is refused.                             *)
Ignored(fd, u) ==
    /\ Executing(fd, u)
    /\ users' = Touch(u)
    /\ job' = Idle
    /\ UNCHANGED <<operators, channels, peer, accepted, up>>

(* _PASS with the server's password.                                       *)
Pass(fd, u) ==
    /\ Executing(fd, u)
    /\ ~Passworded(u)
    /\ users' = [users EXCEPT ![u].password = TRUE]
    /\ job' = Idle
    /\ UNCHANGED <<operators, channels, peer, accepted, up>>

(* Mutant of Nick: nobody checks that the nickname is free.                *)
NickUnchecked(fd, u, n) ==
    /\ Executing(fd, u)
    /\ Passworded(u)
    /\ users' = [users EXCEPT ![u].nick = n, ![u].password = TRUE,
                    ![u].isNick = TRUE,
                    ![u].logged = users[u].logged \/ users[u].isUser]
    /\ job' = Idle
    /\ UNCHANGED <<operators, channels, peer, accepted, up>>

(* Mutant of Nick: _operators keeps the old nickname.                      *)
NickForgetsOper(fd, u, n) ==
    LET old == users[u].nick IN
    /\ Executing(fd, u)
    /\ Passworded(u)
    /\ \A w \in DOMAIN users : users[w].nick # n
    /\ users' = [users EXCEPT ![u].nick = n, ![u].password = TRUE,
                    ![u].isNick = TRUE,
                    ![u].logged = users[u].logged \/ users[u].isUser]
    /\ channels' = IF old = NoNick THEN channels
                   ELSE [ch \in DOMAIN channels |->
                            Renamed(channels[ch], old, n, u)]
    /\ job' = Idle
    /\ UNCHANGED <<operators, peer, accepted, up>>

(* _NICK with a correct nickname nobody has: the node is erased and a copy *)
(* inserted under the new key, and the channels and _operators follow.     *)
Nick(fd, u, n) ==
    LET old == users[u].nick IN
    /\ Executing(fd, u)
    /\ Passworded(u)
    /\ \A w \in DOMAIN users : users[w].nick # n
    /\ users' = [users EXCEPT
                    ![u].nick = n,
                    ![u].password = TRUE,
                    ![u].isNick = TRUE,
                    ![u].logged = users[u].logged \/ users[u].isUser]
    /\ channels' = IF old = NoNick THEN channels
                   ELSE [ch \in DOMAIN channels |->
                            Renamed(channels[ch], old, n, u)]
    /\ operators' = IF old \in operators
                    THEN (operators \ {old}) \cup {n} ELSE operators
    /\ job' = Idle
    /\ UNCHANGED <<peer, accepted, up>>

(* Mutant of UserCmd: the client is logged in without a nickname.          *)
UserCmdLogsIn(fd, u) ==
    /\ Executing(fd, u)
    /\ Passworded(u)
    /\ ~users[u].isUser
    /\ users' = [users EXCEPT ![u].password = TRUE, ![u].isUser = TRUE,
                              ![u].logged = TRUE]
    /\ job' = Idle
    /\ UNCHANGED <<operators, channels, peer, accepted, up>>

(* _USER with enough parameters, the first time.                           *)
UserCmd(fd, u) ==
    /\ Executing(fd, u)
    /\ Passworded(u)
    /\ ~users[u].isUser
    /\ users' = [users EXCEPT
                    ![u].password = TRUE,
                    ![u].isUser = TRUE,
                    ![u].logged = users[u].logged \/ users[u].isNick]
    /\ job' = Idle
    /\ UNCHANGED <<operators, channels, peer, accepted, up>>

(* _QUIT as a command.                                                     *)
Quit(fd, u, v) ==
    /\ Executing(fd, u)
    /\ LoggedIn(u)
    /\ QuitUser(u, v)
    /\ job' = Idle

(* _KILL by somebody whose nickname is in _operators; q = u is possible    *)
(* (_execute then reads two flags of the freed node, and no handler after  *)
(* that matches the command, whatever it reads).                           *)
Kill(fd, u, q) ==
    /\ Executing(fd, u)
    /\ LoggedIn(u)
    /\ users[u].nick \in operators
    /\ users[q].nick # NoNick
    /\ QuitUser(q, q)
    /\ job' = Idle

(* Mutant of Oper: open to clients that are not logged in.                 *)
OperAnyone(fd, u) ==
    /\ Executing(fd, u)
    /\ operators' = operators \cup {users[u].nick}
    /\ users' = [Touch(u) EXCEPT ![u].oper = TRUE]
    /\ job' = Idle
    /\ UNCHANGED <<channels, peer, accepted, up>>

(* _OPER with the own nickname and the server's password.                  *)
Oper(fd, u) ==
    /\ Executing(fd, u)
    /\ LoggedIn(u)
    /\ operators' = operators \cup {users[u].nick}
    /\ users' = [Touch(u) EXCEPT ![u].oper = TRUE]
    /\ job' = Idle
    /\ UNCHANGED <<channels, peer, accepted, up>>

(* Mutant of Part: channels left without users are not erased.             *)
PartKeepsEmpty(fd, u, S) ==
    LET n == users[u].nick
        after(ch) == WithoutUser(channels[ch], n)
    IN  /\ Executing(fd, u)
        /\ LoggedIn(u)
        /\ channels' = [ch \in DOMAIN channels |->
                           IF ch \in S THEN after(ch) ELSE channels[ch]]
        /\ users' = Touch(u)
        /\ job' = Idle
        /\ UNCHANGED <<operators, peer, accepted, up>>

(* _PART for a list of channels, of which S are those the user is on.  The *)
(* iterations touch different channels, so their order does not matter.    *)
Part(fd, u, S) ==
    LET n == users[u].nick
        on(ch) == ch \in S /\ n \in DOMAIN channels[ch].users
        after(ch) == WithoutUser(channels[ch], n)
    IN  /\ Executing(fd, u)
        /\ LoggedIn(u)
        /\ channels' =
             [ch \in {c \in DOMAIN channels :
                        on(c) => ~IsEmptyChannel(after(c))} |->
                IF on(ch) THEN after(ch) ELSE channels[ch]]
        /\ users' = Touch(u)
        /\ job' = Idle
        /\ UNCHANGED <<operators, peer, accepted, up>>

(* _KICK of nickname n by a channel operator.                              *)
Kick(fd, u, ch, n) ==
    LET after == WithoutUser(channels[ch], n) IN
    /\ Executing(fd, u)
    /\ LoggedIn(u)
    /\ ch \in DOMAIN channels
    /\ users[u].nick \in DOMAIN channels[ch].users
    /\ IsChop(channels[ch].chops, users[u].nick)
    /\ n \in DOMAIN channels[ch].users
    /\ channels' = IF IsEmptyChannel(after)
                   THEN [c \in DOMAIN channels \ {ch} |-> channels[c]]
                   ELSE [channels EXCEPT ![ch] = after]
    /\ users' = Touch(u)
    /\ job' = Idle
    /\ UNCHANGED <<operators, peer, accepted, up>>

-----------------------------------------------------------------------------
(* _JOIN: the loop over the listed channels                                *)

(* The keys of a JOIN are matched with the channels by position, so they   *)
(* cover the first channels of the list.                                   *)
JoinLists ==
    {list \in UNION {[1..k -> Target] : k \in 1..MaxJoin} :
        \A i, j \in DOMAIN list :
            i < j /\ list[i].key = NoKey => list[j].key = NoKey}

Join(fd, u, list) ==
    /\ Executing(fd, u)
    /\ LoggedIn(u)
    /\ users' = Touch(u)
    /\ job' = Joining(u, list)
    /\ UNCHANGED <<operators, channels, peer, accepted, up>>

InJoin == up /\ job.kind = "join" /\ job.rest # <<>>
Joiner == job.conn
JoinNick == users[job.conn].nick
JoinTarget == Head(job.rest)

JoinNext == Joining(job.conn, Tail(job.rest))

(* The returns from within the loop.  A channel key that was not sent is   *)
(* compared like the empty string.                                         *)
MayNotEnter(t) ==
    \/ channels[t.ch].pass # t.key
    \/ JoinNick \in DOMAIN channels[t.ch].users
    \/ Groups(JoinNick) > MaxGroups

JoinRefused ==
    /\ InJoin
    /\ JoinTarget.ch \in DOMAIN channels
    /\ MayNotEnter(JoinTarget)
    /\ job' = Idle
    /\ UNCHANGED <<users, operators, channels, peer, accepted, up>>

(* addUser may refuse; the loop goes on as if it had not.                  *)
JoinEnter ==
    /\ InJoin
    /\ JoinTarget.ch \in DOMAIN channels
    /\ ~MayNotEnter(JoinTarget)
    /\ channels' = [channels EXCEPT
                      ![JoinTarget.ch] = WithUser(@, JoinNick, Joiner)]
    /\ job' = JoinNext
    /\ UNCHANGED <<users, operators, peer, accepted, up>>

JoinCreate ==
    /\ InJoin
    /\ JoinTarget.ch \notin DOMAIN channels
    /\ Groups(JoinNick) <= MaxGroups
    /\ JoinNick # NoNick
    /\ channels' = [ch \in DOMAIN channels \cup {JoinTarget.ch} |->
                      IF ch = JoinTarget.ch
                      THEN NewChannel(JoinNick, Joiner, JoinTarget.key)
                      ELSE channels[ch]]
    /\ job' = JoinNext
    /\ UNCHANGED <<users, operators, peer, accepted, up>>

(* Too many channels, and the name is new: the 405 reply is built from     *)
(* _channels.end()->first.  The process dies of it or returns.             *)
JoinTooMany ==
    /\ InJoin
    /\ JoinTarget.ch \notin DOMAIN channels
    /\ Groups(JoinNick) > MaxGroups
    /\ up' \in BOOLEAN
    /\ job' = Idle
    /\ UNCHANGED <<users, operators, channels, peer, accepted>>

(* The loop is done; the NAMES lists are sent.                             *)
JoinDone ==
    /\ up /\ job.kind = "join" /\ job.rest = <<>>
    /\ job' = Idle
    /\ UNCHANGED <<users, operators, channels, peer, accepted, up>>

-----------------------------------------------------------------------------
Init ==
    /\ users = [c \in {} |-> 0]
    /\ operators = {}
    /\ channels = [ch \in {} |-> 0]
    /\ peer = [fd \in Fds |-> NoConn]
    /\ accepted = 0
    /\ job = Idle
    /\ up = TRUE

(* Commands after which every socket is still open.                        *)
Remains(fd, u) ==
    \/ Ignored(fd, u)
    \/ Pass(fd, u)
    \/ \E n \in Nicks : Nick(fd, u, n)
    \/ UserCmd(fd, u)
    \/ Oper(fd, u)
    \/ \E S \in SUBSET Chans : Part(fd, u, S)
    \/ \E ch \in Chans, n \in Nicks : Kick(fd, u, ch, n)
    \/ \E list \in JoinLists : Join(fd, u, list)

Command(fd, u) ==
    \/ Remains(fd, u)
    \/ \E v \in DOMAIN users : Quit(fd, u, v)
    \/ \E q \in DOMAIN users : Kill(fd, u, q)

JoinLoop ==
    JoinRefused \/ JoinEnter \/ JoinCreate \/ JoinTooMany \/ JoinDone

Next ==
    \/ AcceptFails
    \/ \E fd \in Fds :
         \/ Accept(fd)
         \/ ReadOrphan(fd)
         \/ \E u \in DOMAIN users :
              \/ Misread(fd, u)
              \/ Command(fd, u)
              \/ Blank(fd, u)
              \/ \E v \in DOMAIN users : Disconnect(fd, u, v) \/ Expired(fd, u, v)
    \/ JoinLoop

Spec == Init /\ [][Next]_vars

-----------------------------------------------------------------------------
(* Properties                                                              *)

IsChannel(c) ==
    /\ c = [users |-> c.users, chops |-> c.chops,
            pass |-> c.pass, founder |-> c.founder]
    /\ DOMAIN c.users \subseteq Nicks
    /\ c.users \in [DOMAIN c.users -> Conns]
    /\ c.chops \in Seq(Nicks)
    /\ c.pass \in Keys \cup {NoKey}
    /\ c.founder \in Conns

TypeOK ==
    /\ DOMAIN users \subseteq 1..accepted
    /\ users \in [DOMAIN users -> User]
    /\ operators \subseteq Nicks
    /\ DOMAIN channels \subseteq Chans
    /\ channels = [ch \in DOMAIN channels |-> channels[ch]]
    /\ \A ch \in DOMAIN channels : IsChannel(channels[ch])
    /\ peer \in [Fds -> Conns \cup {NoConn}]
    /\ accepted \in 0..MaxConns
    /\ job \in Job
    /\ up \in BOOLEAN

(* README: "there can be no two identical nicknames on the server".        *)
NickUnique ==
    \A c, d \in DOMAIN users :
        users[c].nick = users[d].nick /\ users[c].nick # NoNick => c = d

(* A client is logged in exactly when it has passed both NICK and USER,    *)
(* has a nickname exactly when it has passed NICK, and has passed neither  *)
(* without the password (README: "a password must be set before any        *)
(* attempt").  The flags survive the copy of the User that _NICK makes.    *)
RegistrationOrder ==
    \A c \in DOMAIN users :
        /\ users[c].logged <=> users[c].isNick /\ users[c].isUser
        /\ users[c].isNick <=> users[c].nick # NoNick
        /\ users[c].isNick \/ users[c].isUser => users[c].password

(* No User* of a channel dangles: every entry of every channel points to   *)
(* a node that is still in _users, under the key the node has now, and its *)
(* client is registered.  _sendToChannel, _NAMES and _KICK dereference     *)
(* these pointers; _NICK frees the node and QUIT and KILL erase it.        *)
MembersLive ==
    \A ch \in DOMAIN channels : \A n \in DOMAIN channels[ch].users :
        LET c == channels[ch].users[n] IN
        /\ c \in DOMAIN users
        /\ users[c].nick = n
        /\ users[c].logged

(* The creator of a channel stays its one and only channel operator as     *)
(* long as it is connected, through renames, PART, KICK and re-joining.    *)
FounderKeepsChop ==
    \A ch \in DOMAIN channels :
        /\ Len(channels[ch].chops) = 1
        /\ channels[ch].founder \in DOMAIN users =>
             channels[ch].chops[1] = users[channels[ch].founder].nick

(* A client that has passed OPER is an operator until it goes, whatever    *)
(* nicknames it takes and whoever else comes and goes.                     *)
OperKeepsRights ==
    \A c \in DOMAIN users : users[c].oper => users[c].nick \in operators

(* Whatever the members of the channels do, at most one channel is left    *)
(* without a member (the one the loop of _removeUser steps over).          *)
AtMostOneEmptyChannel ==
    \A ch, dh \in DOMAIN channels :
        IsEmptyChannel(channels[ch]) /\ IsEmptyChannel(channels[dh])
            => ch = dh

(* The limits the code enforces: one more user than _limit_users on a      *)
(* channel, one more channel than MaxGroups for a user, and neither a      *)
(* rename nor a JOIN of several channels gets past them.                   *)
LimitsHold ==
    /\ \A ch \in DOMAIN channels :
         Cardinality(DOMAIN channels[ch].users) <= LimitUsers + 1
    /\ \A n \in Nicks : Groups(n) <= MaxGroups + 1

(* _users holds no more records than there are open connections, also when *)
(* clients go away before they have a nickname and _removeUser("") erases  *)
(* somebody else's node.                                                   *)
NoNodeLeak ==
    Cardinality(DOMAIN users) <= Cardinality({fd \in Fds : peer[fd] # NoConn})

(* Every open descriptor is served as the client at its other end, and     *)
(* every node's socket is open and its own: no client speaks, or is spoken *)
(* to, as another one.                                                     *)
SocketOwned ==
    /\ \A fd \in Fds : peer[fd] # NoConn =>
         /\ peer[fd] \in DOMAIN users
         /\ users[peer[fd]].sock = fd
    /\ \A c \in DOMAIN users : peer[users[c].sock] = c

-----------------------------------------------------------------------------
(* The inductive invariant (proved in RegistryProofs), table by table.     *)

(* The records: nicknames are unique and an operator's is in _operators.   *)
UsersInv ==
    /\ DOMAIN users \subseteq 1..accepted
    /\ users \in [DOMAIN users -> User]
    /\ operators \subseteq Nicks
    /\ NickUnique
    /\ RegistrationOrder
    /\ OperKeepsRights

(* The channels: as many users as fit, so that a rename, which takes one   *)
(* out and puts one in, is never refused.                                  *)
ChannelsInv ==
    /\ DOMAIN channels \subseteq Chans
    /\ channels = [ch \in DOMAIN channels |-> channels[ch]]
    /\ \A ch \in DOMAIN channels :
         /\ IsChannel(channels[ch])
         /\ IsFiniteSet(DOMAIN channels[ch].users)
         /\ channels[ch].founder <= accepted
    /\ MembersLive
    /\ FounderKeepsChop
    /\ LimitsHold

(* The thread: while it is in a JOIN the joining client is logged in.      *)
ThreadInv ==
    /\ peer \in [Fds -> Conns \cup {NoConn}]
    /\ accepted \in 0..MaxConns
    /\ job \in Job
    /\ job.kind = "join" => job.conn \in DOMAIN users /\ users[job.conn].logged
    /\ up \in BOOLEAN

IInv == UsersInv /\ ChannelsInv /\ ThreadInv

-----------------------------------------------------------------------------
(* The abstract state: the clients in a channel are those its entries      *)
(* point to, a channel that does not exist is a room without clients.      *)

RoomOf(ch) ==
    IF ch \in DOMAIN channels
    THEN {channels[ch].users[n] : n \in DOMAIN channels[ch].users} ELSE {}

NameOf(c) == IF c \in DOMAIN users THEN users[c].nick ELSE NoNick

Promise == INSTANCE ChatRooms WITH
    Rooms  <- Chans,
    online <- DOMAIN users,
    name   <- [c \in Conns |-> NameOf(c)],
    rooms  <- [ch \in Chans |-> RoomOf(ch)]

(* The handlers implement ChatRooms: the nickname-keyed tables behave like *)
(* sets of clients, so that NICK keeps everybody in their channels, PART   *)
(* and KICK take out one client, QUIT, KILL and a closed connection take   *)
(* the client whose record goes out of every channel, and only JOIN lets   *)
(* somebody in.                                                            *)
ImplementsChatRooms == Promise!CSpec
=============================================================================
