------------------------------- MODULE Receive -------------------------------
(***************************************************************************)
(* How the bytes of one client become command lines: IRCServer::_recv with *)
(* User::_buffer, called by start() whenever select() finds the client's   *)
(* socket readable.                                                        *)
(*                                                                         *)
(* The client sends lines, each followed by CR LF.  A byte is its position *)
(* in what the client sends, so that a byte that is lost, taken twice or   *)
(* put into another line shows; ends[k] is the position of the LF of line  *)
(* k.  The network delivers the bytes in order in segments of any size.    *)
(*                                                                         *)
(* _accept sets O_NONBLOCK on the listening socket.  An accepted socket    *)
(* inherits the flag on BSD and macOS and does not on Linux; `blocking' is *)
(* either.  Bytes are not NUL.  What a line does is the subject of         *)
(* Registry, a command that ends the connection included; but NICK makes a *)
(* copy of the User, which leaves _buffer behind, and that matters here.   *)
(***************************************************************************)
EXTENDS Naturals, Sequences, SequencesExt

CONSTANTS
    BufSize,        \* sizeof(c_buf), 512 in the code
    MaxBytes,       \* bound: bytes the client sends
    MaxLines        \* bound: lines the client sends

ASSUME SizeAssumption == BufSize \in Nat /\ BufSize > 2
ASSUME StreamAssumption == MaxBytes \in Nat /\ MaxLines \in Nat

VARIABLES
    ends,       \* what the client sends
    blocking,   \* O_NONBLOCK is not set on the socket
    arrived,    \* number of bytes that have reached the server's kernel
    taken,      \* number of bytes recv has taken out of it
    peer,       \* "open", or the client has closed ("shut") or "reset"
    buffer,     \* User::_buffer
    buf,        \* buf of the call of _recv under way
    pc,         \* "select", "recv", or "gone" after _QUIT
    lines,      \* history: the lines _execute has been given so far
    dropped,    \* history: the lines of which NICK has dropped the beginning
    split       \* history: recv has stopped between a CR and its LF

stream == <<ends, blocking>>
executed == <<lines, dropped>>
vars == <<ends, blocking, arrived, taken, peer, buffer, buf, pc, lines, dropped,
          split>>

Bytes(first, last) == [i \in 1..(last + 1 - first) |-> first + i - 1]

IsLF(b) == \E k \in DOMAIN ends : b = ends[k]
IsCR(b) == \E k \in DOMAIN ends : b + 1 = ends[k]

(* s.find("\r\n") returns i - 1.                                           *)
DelimAt(s, i) == i + 1 \in DOMAIN s /\ IsCR(s[i]) /\ IsLF(s[i + 1])
HasDelim(s) == \E i \in DOMAIN s : DelimAt(s, i)

Pending == Bytes(taken + 1, arrived)
Collected == Len(buffer) + Len(buf)

(* What is left of the length given to recv; with 0 it returns 0.          *)
Room == BufSize - 1 - Collected

-----------------------------------------------------------------------------
(* The client and the network                                              *)

Arrive(n) ==
    /\ peer = "open"
    /\ arrived + n <= ends[Len(ends)]
    /\ arrived' = arrived + n
    /\ UNCHANGED <<stream, taken, peer, buffer, buf, pc, executed, split>>

Hangup(how) ==
    /\ peer = "open"
    /\ peer' = how
    /\ UNCHANGED <<stream, arrived, taken, buffer, buf, pc, executed, split>>

-----------------------------------------------------------------------------
(* The server                                                              *)

(* select() reports the socket and start() calls _recv.                    *)
Readable ==
    /\ pc = "select"
    /\ Pending # <<>> \/ peer # "open"
    /\ buf' = <<>>
    /\ pc' = "recv"
    /\ UNCHANGED <<stream, arrived, taken, peer, buffer, executed, split>>

(* The condition of the outer loop.                                        *)
Collecting == pc = "recv" /\ ~HasDelim(buf) /\ Collected < BufSize

(* What recv takes after the peek has returned s: up to the first line end *)
(* in s, or all of s.  (A line end of which buf holds the CR and s the LF  *)
(* is not seen.)                                                           *)
Chunk(s) ==
    IF HasDelim(s)
    THEN SubSeq(s, 1, 1 + CHOOSE i \in DOMAIN s :
                        DelimAt(s, i) /\ \A j \in 1..(i - 1) : ~DelimAt(s, j))
    ELSE s

(* Mutant of Take: recv takes all it has peeked at.                        *)
TakeAll ==
    LET chunk == SubSeq(Pending, 1, IF Room < Len(Pending) THEN Room
                                    ELSE Len(Pending))
    IN  /\ Collecting
        /\ Room > 0 /\ Pending # <<>> /\ peer # "reset"
        /\ buf' = buf \o chunk
        /\ taken' = taken + Len(chunk)
        /\ split' = (split \/ IsCR(Last(chunk)))
        /\ UNCHANGED <<stream, arrived, peer, buffer, pc, executed>>

(* One iteration: the peek finds bytes and recv takes them.                *)
Take ==
    LET chunk == Chunk(SubSeq(Pending, 1, IF Room < Len(Pending) THEN Room
                                          ELSE Len(Pending)))
    IN  /\ Collecting
        /\ Room > 0 /\ Pending # <<>> /\ peer # "reset"
        /\ buf' = buf \o chunk
        /\ taken' = taken + Len(chunk)
        /\ split' = (split \/ IsCR(Last(chunk)))
        /\ UNCHANGED <<stream, arrived, peer, buffer, pc, executed>>

KeepPiece == buffer' = buffer \o buf /\ dropped' = dropped

(* The piece reads as a NICK that succeeds: the User is replaced by a copy *)
(* without _buffer.                                                        *)
NickPiece ==
    /\ buf # <<>>
    /\ buffer' = <<>>
    /\ dropped' = dropped \cup {Len(lines) + 1}

(* EAGAIN: what this call has collected is kept for the next one, and      *)
(* start() hands it to _execute all the same, where it may be taken for    *)
(* any command.                                                            *)
WouldBlock ==
    /\ Collecting
    /\ ~blocking /\ Pending = <<>> /\ peer = "open"
    /\ KeepPiece \/ NickPiece
    /\ buf' = <<>>
    /\ pc' = "select"
    /\ UNCHANGED <<stream, arrived, taken, peer, lines, split>>

(* The peek returns 0 or fails and _recv throws: the client has gone, or   *)
(* there is no room and recv has been given the length 0.                  *)
Throw ==
    /\ Collecting
    /\ \/ peer = "reset"
       \/ peer = "shut" /\ Pending = <<>>
       \/ Room = 0 /\ Pending # <<>>
    /\ pc' = "gone"
    /\ UNCHANGED <<stream, arrived, taken, peer, buffer, buf, executed, split>>

Line == SubSeq(buffer \o buf, 1, Collected - 2)

(* Mutant of Return: _buffer is not cleared.                               *)
ReturnKeepsBuffer ==
    /\ pc = "recv" /\ ~Collecting
    /\ lines' = Append(lines, Line)
    /\ buffer' = buffer \o buf
    /\ buf' = <<>>
    /\ pc' = "select"
    /\ UNCHANGED <<stream, arrived, taken, peer, dropped, split>>

(* The loop ends: what was kept and what was collected, without the last   *)
(* two bytes, is the line start() hands to _execute.                       *)
Return ==
    /\ pc = "recv" /\ ~Collecting
    /\ lines' = Append(lines, Line)
    /\ buffer' = <<>>
    /\ buf' = <<>>
    /\ pc' = "select"
    /\ UNCHANGED <<stream, arrived, taken, peer, dropped, split>>

-----------------------------------------------------------------------------
Streams ==
    {e \in UNION {[1..n -> 2..MaxBytes] : n \in 1..MaxLines} :
        \A k, l \in DOMAIN e : k < l => e[k] + 2 <= e[l]}

Init ==
    /\ ends \in Streams
    /\ blocking \in BOOLEAN
    /\ arrived = 0
    /\ taken = 0
    /\ peer = "open"
    /\ buffer = <<>>
    /\ buf = <<>>
    /\ pc = "select"
    /\ lines = <<>>
    /\ dropped = {}
    /\ split = FALSE

Server == Readable \/ Take \/ WouldBlock \/ Throw \/ Return

Next ==
    \/ \E n \in 1..MaxBytes : Arrive(n)
    \/ \E how \in {"shut", "reset"} : Hangup(how)
    \/ Server

Spec == Init /\ [][Next]_vars

(* The thread runs as long as it has something to do.                      *)
FairSpec == Spec /\ WF_vars(Server)

-----------------------------------------------------------------------------
(* Properties                                                              *)

StartOf(k) == IF k = 1 THEN 1 ELSE ends[k - 1] + 1
LineSent(k) == Bytes(StartOf(k), ends[k] - 2)

(* Every byte comes after those before it in the text, and after those of  *)
(* earlier texts.                                                          *)
InOrder(texts) ==
    \A k, l \in DOMAIN texts :
       \A i \in DOMAIN texts[k], j \in DOMAIN texts[l] :
          k < l \/ (k = l /\ i < j) => texts[k][i] < texts[l][j]

(* What line k may be executed as: what the client has sent, or, when NICK *)
(* has dropped its beginning, an end of it.                                *)
Due(k) ==
    IF k \in dropped
    THEN {Bytes(first, ends[k] - 2) : first \in StartOf(k)..(ends[k] - 1)}
    ELSE {LineSent(k)}

(* However the bytes come in, and with sockets of either kind, as long as  *)
(* recv does not stop between a CR and its LF: the lines executed are      *)
(* those the client has sent, in order and each once (apart from the       *)
(* pieces that EAGAIN lets through), and whole, except that a line of      *)
(* which a piece has been taken for a NICK lacks its beginning; the lines  *)
(* after it are whole again.  And whatever happens no byte gets into two   *)
(* lines, or in front of an earlier one.                                   *)
LinesWhole ==
    /\ ~split => /\ Len(lines) <= Len(ends)
                 /\ \A k \in DOMAIN lines : lines[k] \in Due(k)
    /\ InOrder(Append(lines, buffer \o buf))

(* A client whose lines, CR LF included, are shorter than the buffer by    *)
(* one loses the connection only if it closes it.                          *)
ShortLinesKeepConnection ==
    pc = "gone" =>
        \/ peer # "open"
        \/ split
        \/ \E k \in DOMAIN ends : ends[k] - StartOf(k) + 1 >= BufSize

(* A line that has arrived is executed, without waiting for bytes that     *)
(* come after it.                                                          *)
LinesServed ==
    \A k \in 1..MaxLines :
        (k \in DOMAIN ends /\ arrived >= ends[k])
            ~> (Len(lines) >= k \/ pc = "gone" \/ split)
=============================================================================
