------------------------------ MODULE EventLoop -----------------------------
(***************************************************************************)
(* IRCServer::start(): in which order, and when, the handlers of Registry  *)
(* are run.  Each time select() returns, the descriptors it has found      *)
(* readable are gone through in ascending order, then at most one          *)
(* connection is accepted.  What has been found readable is a snapshot: a  *)
(* handler may close a descriptor that is still to come, a connection that *)
(* is waiting may be gone when it is accepted, SIGINT may come at any      *)
(* time, and a handler that writes to a blocking socket waits when its     *)
(* client does not read.                                                   *)
(*                                                                         *)
(* Every step of the loop is a step of Registry or leaves its tables       *)
(* alone, so what holds for Registry holds here (RegistryProofs).          *)
(***************************************************************************)
EXTENDS Registry

CONSTANT
    Blocking        \* connections whose socket is blocking: all of them on
                    \* Linux; on BSD and macOS, where an accepted socket
                    \* inherits O_NONBLOCK, those accepted before the flag is
                    \* set on the listener, that is the first one

VARIABLES
    watched,    \* descriptors of clients in _client_fds
    listening,  \* the listener is in _client_fds
    round,      \* descriptors in select_fds that are still to be handled
    reported,   \* descriptor |-> the connection select has found readable
    bell,       \* the listener is in select_fds
    input,      \* descriptor |-> what its client has sent: "none", "half" a
                \* line, a "line", or the client has "closed"
    waiting,    \* connections waiting to be accepted
    exitFlag,   \* set by sigintCatcher
    sending,    \* descriptors the handler under way still has to write to
                \* and cannot, their clients having left no room
    pc          \* "select", "round", "stopped" by SIGINT or "failed"

lvars == <<vars, watched, listening, round, reported, bell, input, waiting,
           exitFlag, sending, pc>>
env  == <<input, waiting, exitFlag>>
fds  == <<watched, listening, reported, bell>>

Open(fd) == peer[fd] # NoConn

-----------------------------------------------------------------------------
(* The clients, the network and the user at the server's terminal          *)

Connect ==
    /\ waiting + accepted < MaxConns
    /\ waiting' = waiting + 1
    /\ UNCHANGED <<vars, fds, round, input, exitFlag, sending, pc>>

(* A client gives up before it has been accepted.                          *)
Abort ==
    /\ waiting > 0
    /\ waiting' = waiting - 1
    /\ UNCHANGED <<vars, fds, round, input, exitFlag, sending, pc>>

Write(fd) ==
    /\ Open(fd) /\ input[fd] = "none"
    /\ \E what \in {"half", "line"} : input' = [input EXCEPT ![fd] = what]
    /\ UNCHANGED <<vars, fds, round, waiting, exitFlag, sending, pc>>

Complete(fd) ==
    /\ Open(fd) /\ input[fd] = "half"
    /\ input' = [input EXCEPT ![fd] = "line"]
    /\ UNCHANGED <<vars, fds, round, waiting, exitFlag, sending, pc>>

Close(fd) ==
    /\ Open(fd) /\ input[fd] # "closed"
    /\ EarlyDrop \/ (\E u \in DOMAIN users :
                        GetUser(fd, u) /\ users[u].nick # NoNick)
    /\ input' = [input EXCEPT ![fd] = "closed"]
    /\ UNCHANGED <<vars, fds, round, waiting, exitFlag, sending, pc>>

(* The client reads, or goes: send() has room, or fails.                   *)
Read(fd) ==
    /\ fd \in sending
    /\ sending' = sending \ {fd}
    /\ UNCHANGED <<vars, fds, round, input, waiting, exitFlag, pc>>

(* A select() that waits is interrupted, the loop ends and main() returns; *)
(* anything else goes on (signal() restarts recv, send and accept).        *)
Sigint ==
    /\ pc \in {"select", "round"}
    /\ exitFlag' = TRUE
    /\ pc' = pc \/ (pc = "select" /\ pc' = "stopped")
    /\ UNCHANGED <<vars, fds, round, input, waiting, sending>>

Clients ==
    \/ Connect \/ Abort \/ Sigint
    \/ \E fd \in Fds : Write(fd) \/ Complete(fd) \/ Close(fd) \/ Read(fd)

-----------------------------------------------------------------------------
(* The loop                                                                *)

Readable == {fd \in watched : input[fd] # "none"}

(* Mutant of Taken: only the first descriptor is handled.                  *)
TakenFirst == {fd \in Readable : \A g \in Readable : fd <= g}

Taken == Readable

(* Mutant of Rings: the listener counts only when no client has anything.  *)
RingsWhenQuiet == listening /\ waiting > 0 /\ Readable = {}

Rings == listening /\ waiting > 0

(* Mutant of StopLeaves: only the listener is taken out.                   *)
StopLeavesClients == watched

(* _stop() takes everything out of _client_fds; its _QUIT, given a Message *)
(* without a command, does nothing.                                        *)
StopLeaves == {}

(* select() fails when a closed descriptor has been left in _client_fds.   *)
SelectWorks == \A fd \in watched : Open(fd)

(* It waits for something to read, and ends the loop if it fails.          *)
Select ==
    /\ up /\ pc = "select"
    /\ SelectWorks => Readable # {} \/ Rings
    /\ round' = Taken
    /\ reported' = peer
    /\ bell' = Rings
    /\ watched' = IF exitFlag THEN StopLeaves ELSE watched
    /\ listening' = (listening /\ ~exitFlag)
    /\ pc' = IF SelectWorks THEN "round" ELSE "failed"
    /\ UNCHANGED <<vars, env, sending>>

(* Mutant of InRound: send() never waits.                                  *)
InRoundSending == up /\ pc = "round"

InRound == up /\ pc = "round" /\ sending = {}

(* To whom the handler writes on a blocking socket, and who of them has    *)
(* left no room, is open; it waits for all of them before anything else is *)
(* done.  (The other sockets never make it wait: Sending.)                 *)
Writes == sending' \in SUBSET {fd \in Fds : peer[fd] \in Blocking}

(* The descriptor whose turn it is.                                        *)
First(fd) ==
    /\ InRound /\ job = Idle
    /\ fd \in round
    /\ \A g \in round : fd <= g

(* Mutant of Stale: the turn does not pass on.                             *)
StaleAgain(fd) ==
    /\ First(fd)
    /\ ~Open(fd)
    /\ UNCHANGED lvars

(* A KILL earlier in the round has closed it and no record has it as its   *)
(* socket: start() dereferences _users.end().  The process dies of it or   *)
(* nothing happens.                                                        *)
Stale(fd) ==
    /\ First(fd)
    /\ ~Open(fd)
    /\ \A u \in DOMAIN users : users[u].sock # fd
    /\ round' = round \ {fd}
    /\ pc' \in {"round", "failed"}
    /\ UNCHANGED <<vars, fds, env, sending>>

(* recv has something to return.  On a blocking socket half a line holds   *)
(* up the thread until the rest comes or the client goes; on another one   *)
(* the half is kept and _execute is given what there is.                   *)
Received(fd) ==
    /\ First(fd)
    /\ Open(fd)
    /\ \/ input[fd] = "line"
       \/ input[fd] = "half" /\ peer[fd] \notin Blocking

Unwatch(fd) == watched' = watched \ {fd}

(* Mutant of Unwatched: close() without FD_CLR.                            *)
UnwatchedNot(u) == UNCHANGED watched

(* _QUIT, for the user it is called with.                                  *)
Unwatched(u) == Unwatch(users[u].sock)

Goes(fd, u) ==
    \/ Remains(fd, u) /\ UNCHANGED watched
    \/ \E v \in DOMAIN users : Quit(fd, u, v) /\ Unwatched(u)
    \/ \E q \in DOMAIN users : Kill(fd, u, q) /\ Unwatched(q)

(* Closed as well, but a record is left that has it as its socket.         *)
Late(fd) ==
    /\ First(fd)
    /\ \E u, v \in DOMAIN users : Expired(fd, u, v) /\ Unwatched(u)
    /\ Writes
    /\ round' = round \ {fd}
    /\ UNCHANGED <<listening, reported, bell, env, pc>>

Serve(fd) ==
    /\ Received(fd)
    /\ \/ \E u \in DOMAIN users : Goes(fd, u)
       \/ (ReadOrphan(fd) \/ \E u \in DOMAIN users : Misread(fd, u)) /\ UNCHANGED watched
    /\ Writes
    /\ input' = [input EXCEPT ![fd] = "none"]
    /\ round' = round \ {fd}
    /\ UNCHANGED <<listening, reported, bell, waiting, exitFlag, pc>>

Hangup(fd) ==
    /\ First(fd)
    /\ Open(fd) /\ input[fd] = "closed"
    /\ \/ \E u, v \in DOMAIN users : Disconnect(fd, u, v) /\ Unwatched(u)
       \/ ReadOrphan(fd) /\ UNCHANGED watched
    /\ Writes
    /\ round' = round \ {fd}
    /\ UNCHANGED <<listening, reported, bell, env, pc>>

(* The handler under way goes on: the loop of a JOIN, or _execute after a  *)
(* closed connection.                                                      *)
Continue ==
    /\ InRound /\ job # Idle
    /\ \/ JoinLoop /\ UNCHANGED watched
       \/ \E fd \in Fds, u \in DOMAIN users :
            \/ job = TailOf(fd) /\ Goes(fd, u)
            \/ job = TailOf(fd) /\ Misread(fd, u) /\ UNCHANGED watched
            \/ Blank(fd, u) /\ UNCHANGED watched
    /\ Writes
    /\ UNCHANGED <<listening, round, reported, bell, env, pc>>

(* Mutant of ScanDone: the listener comes first.                           *)
ScanAnyTime == InRound /\ job = Idle

ScanDone == InRound /\ job = Idle /\ round = {}

TakeIn ==
    /\ ScanDone /\ bell /\ waiting > 0
    /\ \/ \E fd \in Fds :
            /\ Accept(fd)
            /\ watched' = watched \cup {fd}
            /\ input' = [input EXCEPT ![fd] = "none"]
       \/ AcceptFails /\ UNCHANGED <<watched, input>>
    /\ waiting' = waiting - 1
    /\ bell' = FALSE
    /\ UNCHANGED <<listening, round, reported, exitFlag, sending, pc>>

(* Nobody is waiting any more: after the first accept() the listener does  *)
(* not block, _accept() throws and main() returns.  The first one waits.   *)
TakeInNobody ==
    /\ ScanDone /\ bell /\ waiting = 0
    /\ accepted > 0
    /\ pc' = "failed"
    /\ UNCHANGED <<vars, fds, round, env, sending>>

EndRound ==
    /\ ScanDone /\ ~bell
    /\ pc' = "select"
    /\ UNCHANGED <<vars, fds, round, env, sending>>

Server ==
    \/ Select
    \/ \E fd \in Fds : Stale(fd) \/ Late(fd) \/ Serve(fd) \/ Hangup(fd)
    \/ Continue \/ TakeIn \/ TakeInNobody \/ EndRound

LInit ==
    /\ Init
    /\ watched = {} /\ listening = TRUE
    /\ round = {} /\ bell = FALSE
    /\ reported = peer
    /\ input = [fd \in Fds |-> "none"]
    /\ waiting = 0
    /\ exitFlag = FALSE
    /\ sending = {}
    /\ pc = "select"

LNext == Clients \/ Server

LSpec == LInit /\ [][LNext]_lvars

(* The thread runs whenever it is not in a call that waits.                *)
ServerFair == LSpec /\ WF_lvars(Server)

(* What is assumed of the clients.  One that has sent half a line sends    *)
(* the rest or goes: recv() on a blocking socket waits for it.  And one    *)
(* that is written to reads or goes: so does send().                       *)
LinesEnd == \A fd \in Fds : WF_lvars(Complete(fd))
ClientsRead == \A fd \in Fds : WF_lvars(Read(fd))

FairLSpec == ServerFair /\ LinesEnd /\ ClientsRead

-----------------------------------------------------------------------------
(* Properties                                                              *)

(* Until SIGINT is noticed exactly the open connections are watched: none  *)
(* is forgotten, and select() is never given a descriptor that is closed   *)
(* (it would fail and end the server with everybody on it).                *)
WatchedIsOpen ==
    listening => watched = {fd \in Fds : Open(fd)}

(* Whoever is served, or waited for, is the client whose input select()    *)
(* has seen: a descriptor that is closed and used again within a round     *)
(* does not pass on its turn.                                              *)
TurnsNotInherited ==
    pc = "round" => \A fd \in round :
        Open(fd) => peer[fd] = reported[fd] /\ input[fd] # "none"

(* From the round in which SIGINT is noticed on: whoever is still served,  *)
(* the rest of that round included, is served for the last time, since its *)
(* descriptor is not watched any more; nobody who was connected is watched *)
(* again, though no connection has been closed; and one connection at most *)
(* is taken in, the one that rang in that round.                           *)
StopDeafens ==
    ~listening =>
        /\ round \cap watched = {}
        /\ \A fd \in watched : watched = {fd} /\ reported[fd] # peer[fd]
        /\ bell => pc # "select" /\ watched = {}

(* The process dies: accept() fails, start() dereferences _users.end(), a  *)
(* line is misread.                                                        *)
Crashed == ~up \/ pc = "failed"

(* Unless the process dies: a client that has sent a line is served,       *)
(* whatever the others send and however often, if none leaves half a line  *)
(* and all read what they are sent, unless it goes itself, is killed or    *)
(* SIGINT comes.                                                           *)
EverybodyServed ==
    []~Crashed =>
    \A fd \in Fds :
        (Open(fd) /\ input[fd] = "line" /\ listening)
            ~> (input[fd] # "line" \/ ~Open(fd) \/ ~listening \/ pc = "stopped")

(* Unless the process dies: a connection that waits is accepted, however   *)
(* busy the others keep the server, or the client gives up, or SIGINT      *)
(* comes.                                                                  *)
EverybodyAccepted ==
    []~Crashed =>
    ((waiting > 0 /\ listening) ~> (waiting = 0 \/ ~listening \/ pc = "stopped"))

(* The first accept() waits for somebody else when the one who was waiting *)
(* has gone.                                                               *)
FirstAccept == accepted = 0 /\ waiting = 0

(* Unless the process dies: a round comes to its end and the server goes   *)
(* back to select(), whatever has been closed on the way.                  *)
RoundsEnd ==
    []~Crashed => ((pc = "round") ~> (pc = "select" \/ FirstAccept))
-----------------------------------------------------------------------------
(* The inductive invariant (proved in RegistryProofs).                     *)

LoopTypeOK ==
    /\ watched \subseteq Fds /\ round \subseteq Fds
    /\ reported \in [Fds -> Conns \cup {NoConn}]
    /\ input \in [Fds -> {"none", "half", "line", "closed"}]
    /\ listening \in BOOLEAN /\ bell \in BOOLEAN /\ exitFlag \in BOOLEAN
    /\ sending \subseteq Fds
    /\ pc \in {"select", "round", "stopped", "failed"}

(* Connections are numbered as they come: the next one is no one that      *)
(* select() has seen.                                                      *)
NumbersPast ==
    \A fd \in Fds : peer[fd] <= accepted /\ reported[fd] <= accepted

(* While the listener is still to be looked at in the round in which it    *)
(* was taken out nobody is watched; afterwards it rings no more.           *)
Stopping ==
    /\ bell => pc # "select"
    /\ ~listening =>
         /\ exitFlag
         /\ round \cap watched = {}
         /\ bell => watched = {}
         /\ \A fd \in watched : watched = {fd} /\ reported[fd] # peer[fd]

LoopInv ==
    LoopTypeOK /\ NumbersPast /\ WatchedIsOpen /\ TurnsNotInherited /\ Stopping
=============================================================================
