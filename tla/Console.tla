------------------------------- MODULE Console ------------------------------
(***************************************************************************)
(* The console client (client/Client.cpp).  It sends its first lines and   *)
(* forks: the parent reads lines from the server, shows them and answers a *)
(* PING; the child sends what is typed.  Both use one socket, which        *)
(* blocks.                                                                 *)
(*                                                                         *)
(* What the server sends is bytes as in Receive: a byte is its position,   *)
(* ends[k] the LF of line k, and the first byte of a line in `pings'       *)
(* stands for the word PING.  What the client sends is pieces: a text and  *)
(* the line end after it.                                                  *)
(***************************************************************************)
EXTENDS Naturals, Sequences, SequencesExt

CONSTANTS
    BufSize,        \* sizeof(c_buf), 512 in the code
    Room,           \* pieces that fit in the socket
    Streams,        \* what the server may send: positions of its LFs
    MaxTexts        \* bound: lines typed

ASSUME SizeAssumption ==
    BufSize \in Nat /\ BufSize > 1 /\ Room \in Nat \ {0} /\ MaxTexts \in Nat

(* A line end is two bytes.                                                *)
ASSUME StreamAssumption ==
    \A e \in Streams :
        /\ e \in Seq(Nat) /\ e # <<>>
        /\ \A k \in DOMAIN e : e[k] >= 2
        /\ \A k, l \in DOMAIN e : k < l => e[k] + 2 <= e[l]

VARIABLES
    ends, pings,
    arrived,    \* bytes that have reached the client's kernel
    taken,      \* bytes that recv has taken out of it
    peer,       \* "open", or the server has closed ("shut") or "reset"
    buf,        \* the parent's buf in _recv
    parent,     \* "recv", "send", or how it ended: "returned", "killed"
    child,      \* the child runs
    typed,      \* lines typed
    rest,       \* what run(), the parent and the child have still to send
    held,       \* pieces the server has not read
    sent,       \* history: the pieces in the order the kernel took them
    shown,      \* history: what the parent has shown
    split,      \* history: recv has stopped between a CR and its LF
    torn        \* history: send() has had to wait in the middle of a text

server == <<ends, pings, peer>>
reading == <<arrived, taken, buf, shown, split>>
writing == <<typed, rest, held, sent, torn>>
vars == <<server, reading, writing, parent, child>>

Bytes(first, last) == [i \in 1..(last + 1 - first) |-> first + i - 1]
Start(k) == IF k = 1 THEN 1 ELSE ends[k - 1] + 1

IsLF(b) == \E k \in DOMAIN ends : b = ends[k]
DelimAt(s, i) == {i, i + 1} \subseteq DOMAIN s /\ IsLF(s[i] + 1) /\ s[i + 1] = s[i] + 1
HasDelim(s) == \E i \in DOMAIN s : DelimAt(s, i)

(* One send() is one call for a text and the line end; the first three     *)
(* lines are one text, too.  A text of one character gets no line end: the *)
(* comparison in _send wraps (see Sending).                                *)
Piece(by, n, part) == [by |-> by, n |-> n, part |-> part]
Text(by, n, length) ==
    CASE length = 0 -> <<Piece(by, n, "end")>>
      [] length = 1 -> <<Piece(by, n, "bare")>>
      [] OTHER      -> <<Piece(by, n, "text"), Piece(by, n, "end")>>
FirstLines == Text("run", 1, 9) \o Text("run", 2, 9) \o Text("run", 3, 9) \o Text("run", 4, 0)

(* run() has sent the first lines and forks.                               *)
Registered == rest["run"] = <<>>

-----------------------------------------------------------------------------
(* The server and the network                                              *)

Arrive(n) ==
    /\ peer = "open"
    /\ arrived + n <= Last(ends)
    /\ arrived' = arrived + n
    /\ UNCHANGED <<server, taken, buf, shown, split, writing, parent, child>>

ServerReads ==
    /\ held > 0
    /\ held' = held - 1
    /\ UNCHANGED <<server, reading, typed, rest, sent, torn, parent, child>>

ServerCloses(how) ==
    /\ peer = "open"
    /\ peer' = how
    /\ UNCHANGED <<ends, pings, reading, writing, parent, child>>

-----------------------------------------------------------------------------
(* _send, by run() before the fork, by the parent or by the child          *)

(* Mutant of Send: the text and the line end are handed over one by one.   *)
SendByPieces(who) ==
    /\ rest[who] # <<>> /\ peer = "open"
    /\ held < Room
    /\ held' = held + 1
    /\ sent' = Append(sent, Head(rest[who]))
    /\ rest' = [rest EXCEPT ![who] = Tail(@)]
    /\ parent' = IF who = "parent" /\ rest'[who] = <<>> THEN "recv" ELSE parent
    /\ UNCHANGED <<server, reading, typed, torn, child>>

(* The kernel takes what there is room for and send() waits with the rest. *)
Send(who) ==
    /\ rest[who] # <<>> /\ peer = "open"
    /\ \E n \in 1..Room :
         /\ n <= Room - held
         /\ n < Len(rest[who]) => n = Room - held
         /\ n <= Len(rest[who])
         /\ held' = held + n
         /\ sent' = sent \o SubSeq(rest[who], 1, n)
         /\ rest' = [rest EXCEPT ![who] = SubSeq(@, n + 1, Len(@))]
         /\ torn' = (torn \/ (n < Len(rest[who]) /\ who # "run"))
    /\ parent' = IF who = "parent" /\ rest'[who] = <<>> THEN "recv" ELSE parent
    /\ UNCHANGED <<server, reading, typed, child>>

(* The server has closed: the text is lost, and the reset it brings about  *)
(* ends the next process that sends (the client leaves SIGPIPE as it is).  *)
SendInVain(who) ==
    /\ rest[who] # <<>> /\ peer # "open"
    /\ rest' = [rest EXCEPT ![who] = <<>>]
    /\ peer' = "reset"
    /\ parent' = CASE peer = "reset" /\ who # "child" -> "killed"
                   [] peer = "shut" /\ who = "parent" -> "recv"
                   [] OTHER -> parent
    /\ child' = (child /\ (peer = "reset" => who = "parent"))
    /\ UNCHANGED <<ends, pings, reading, typed, held, sent, torn>>

-----------------------------------------------------------------------------
(* The parent                                                              *)

Pending == Bytes(taken + 1, arrived)
Peeked == SubSeq(Pending, 1, IF BufSize < Len(Pending) THEN BufSize ELSE Len(Pending))

Collecting ==
    parent = "recv" /\ Registered /\ ~HasDelim(buf) /\ Len(buf) < BufSize

(* Up to the first line end in what the peek returned, or all of it.       *)
Chunk(s) ==
    IF HasDelim(s)
    THEN SubSeq(s, 1, 1 + CHOOSE i \in DOMAIN s :
                        DelimAt(s, i) /\ \A j \in 1..(i - 1) : ~DelimAt(s, j))
    ELSE s

(* Mutant of Take: recv takes all that the peek returned.                  *)
TakeAll ==
    /\ Collecting
    /\ Pending # <<>>
    /\ buf' = buf \o Peeked
    /\ taken' = taken + Len(Peeked)
    /\ split' = (split \/ IsLF(Last(buf') + 1))
    /\ UNCHANGED <<server, arrived, shown, writing, parent, child>>

Take ==
    LET chunk == Chunk(Peeked) IN
    /\ Collecting
    /\ Pending # <<>>
    /\ buf' = buf \o chunk
    /\ taken' = taken + Len(chunk)
    /\ split' = (split \/ IsLF(Last(chunk) + 1))
    /\ UNCHANGED <<server, arrived, shown, writing, parent, child>>

(* A peek that fills c_buf leaves no NUL in it: with no line end in it the *)
(* search goes on behind c_buf, and the process may end there.             *)
Overread ==
    /\ Collecting
    /\ Len(Peeked) = BufSize /\ ~HasDelim(Peeked)
    /\ parent' = "killed"
    /\ UNCHANGED <<server, reading, writing, child>>

(* Mutant of Return: the peek returns 0 before everything has been read.   *)
ReturnAtOnce ==
    /\ Collecting
    /\ peer # "open"
    /\ parent' = "returned"
    /\ UNCHANGED <<server, reading, writing, child>>

(* recv() returns 0 or fails: _recv throws, run() closes the socket and    *)
(* returns.  The child goes on.                                            *)
Return ==
    /\ Collecting
    /\ peer = "reset" \/ (peer = "shut" /\ Pending = <<>>)
    /\ parent' = "returned"
    /\ UNCHANGED <<server, reading, writing, child>>

(* Mutant of HasPing: find() > 0.                                          *)
HasPingInside(s) == \E i \in DOMAIN s : i > 1 /\ s[i] \in {Start(k) : k \in pings}

HasPing(s) == \E i \in DOMAIN s : s[i] \in {Start(k) : k \in pings}

(* The last two bytes are taken for the line end, whatever they are.       *)
Show ==
    LET line == SubSeq(buf, 1, Len(buf) - 2) IN
    /\ parent = "recv" /\ Registered
    /\ HasDelim(buf) \/ Len(buf) >= BufSize
    /\ shown' = Append(shown, line)
    /\ buf' = <<>>
    /\ IF HasPing(line)
       THEN /\ rest' = [rest EXCEPT !["parent"] = Text("parent", Len(shown'), 9)]
            /\ parent' = "send"
       ELSE UNCHANGED <<rest, parent>>
    /\ UNCHANGED <<server, arrived, taken, split, typed, held, sent, torn, child>>

-----------------------------------------------------------------------------
(* The child: a line is typed; at the end of the input it is an empty one, *)
(* again and again.                                                        *)
Type(length) ==
    /\ child /\ Registered
    /\ rest["child"] = <<>>
    /\ typed < MaxTexts
    /\ typed' = typed + 1
    /\ rest' = [rest EXCEPT !["child"] = Text("child", typed', length)]
    /\ UNCHANGED <<server, reading, held, sent, torn, parent, child>>

-----------------------------------------------------------------------------
Init ==
    /\ ends \in Streams
    /\ pings \in SUBSET {k \in DOMAIN ends : ends[k] > Start(k) + 1}
    /\ arrived = 0 /\ taken = 0 /\ peer = "open"
    /\ buf = <<>> /\ parent = "recv" /\ child = TRUE
    /\ typed = 0 /\ held = 0
    /\ rest = [run |-> FirstLines, parent |-> <<>>, child |-> <<>>]
    /\ sent = <<>> /\ shown = <<>> /\ split = FALSE /\ torn = FALSE

Parent == Take \/ Overread \/ Return \/ Show

Next ==
    \/ \E n \in 1..Last(ends) : Arrive(n)
    \/ ServerReads
    \/ \E how \in {"shut", "reset"} : ServerCloses(how)
    \/ \E who \in DOMAIN rest : Send(who) \/ SendInVain(who)
    \/ Parent
    \/ \E length \in 0..2 : Type(length)

Spec == Init /\ [][Next]_vars

(* The processes go on when they can, and the server reads.                *)
FairSpec ==
    /\ Spec
    /\ WF_vars(ServerReads) /\ WF_vars(Parent)
    /\ \A who \in {"run", "parent", "child"} : WF_vars(Send(who) \/ SendInVain(who))

-----------------------------------------------------------------------------
(* Properties                                                              *)

Long(k) == ends[k] + 1 - Start(k) > BufSize
LongUpTo(k) == \E j \in DOMAIN ends : j <= k /\ Long(j)

LineNumbers == UNION {DOMAIN stream : stream \in Streams}

(* The lines shown are those of the server, in order and whole, as long as *)
(* no line is longer than c_buf and no read ends between CR and LF.        *)
ShownWhole ==
    ~split => \A i \in DOMAIN shown :
        ~LongUpTo(i) =>
            i \in DOMAIN ends /\ shown[i] = Bytes(Start(i), ends[i] - 2)

LineEnd(piece) == [piece EXCEPT !.part = "end"]

(* Two processes write to one socket, and yet no line of one gets into a   *)
(* line of the other, unless the socket was full.                          *)
LinesApart ==
    ~torn => \A i \in DOMAIN sent :
        sent[i].part = "text" /\ i < Len(sent) =>
            sent[i + 1] = LineEnd(sent[i])

(* What the server has sent is shown to the last line, also if it closes   *)
(* the connection then, and unless that is reset.                          *)
EverythingShown ==
    \A k \in LineNumbers :
        k \in DOMAIN ends /\ arrived >= ends[k] ~>
            \/ Len(shown) >= k
            \/ split \/ peer = "reset" \/ LongUpTo(k)

(* A PING is answered, whatever is typed meanwhile, unless the server has  *)
(* gone.                                                                   *)
PingsAnswered ==
    \A k \in LineNumbers :
        k \in pings /\ arrived >= ends[k] ~>
            \/ Piece("parent", k, "end") \in Range(sent)
            \/ split \/ peer # "open" \/ LongUpTo(k)
=============================================================================
