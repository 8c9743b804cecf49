------------------------------- MODULE Sending ------------------------------
(***************************************************************************)
(* How messages become bytes on one client's connection: IRCServer::_send  *)
(* with User::_sendBuffer, and start(), which sends the buffer again       *)
(* whenever the client's socket is readable.                               *)
(*                                                                         *)
(* A message is one line or several (the welcome 001 to 005 is one _send). *)
(* A line is four bytes, two of text, CR and LF; a byte is the number of   *)
(* its message and its place in it, so that one that is lost, repeated or  *)
(* out of order shows.  The kernel keeps up to Capacity bytes that the     *)
(* client has not read.  As in Receive, `blocking' is either.              *)
(***************************************************************************)
EXTENDS Naturals, Sequences, SequencesExt

CONSTANTS
    Capacity,       \* bytes the kernel holds for the client
    Shapes,         \* lines a message may have
    MaxMessages,    \* bound: messages sent
    MaxBuffer       \* bound: length of a buffer that is sent again

ASSUME CapacityAssumption == Capacity \in Nat \ {0}
ASSUME ShapesAssumption == Shapes \subseteq Nat \ {0} /\ {MaxMessages, MaxBuffer} \subseteq Nat

VARIABLES
    blocking,   \* O_NONBLOCK is not set on the socket
    messages,   \* history: the number of lines of each message sent
    rest,       \* what the call of _send under way has still to hand over
    buffer,     \* User::_sendBuffer
    held,       \* bytes in the kernel that the client has not read
    open,       \* the client is there
    reached,    \* history: the bytes the kernel has taken
    stream,     \* history: the same in order, until send() fails first
    clogged,    \* history: send() has failed with EAGAIN
    lost        \* history: bytes that were in _sendBuffer and are not sent

vars == <<blocking, messages, rest, buffer, held, open,
          reached, stream, clogged, lost>>

Byte(m, i) == [message |-> m, place |-> i]
IsCR(b) == b.place % 4 = 3
IsLF(b) == b.place % 4 = 0

Whole(m) == [i \in 1..(4 * messages[m]) |-> Byte(m, i)]

DelimAt(s, i) == {i, i + 1} \subseteq DOMAIN s /\ IsCR(s[i]) /\ IsLF(s[i + 1])

(* s.find(delim) == s.length() - delim.length(): the first line end is the *)
(* last thing in s; or there is none and s has one byte, both sides of the *)
(* comparison then being the greatest size_t.                              *)
EndsLine(s) ==
    \/ /\ DelimAt(s, Len(s) - 1)
       /\ \A i \in DOMAIN s : DelimAt(s, i) => i = Len(s) - 1
    \/ Len(s) = 1 /\ \A i \in DOMAIN s : ~DelimAt(s, i)

(* Mutant of Delimited: whatever ends in a line end is left alone, but     *)
(* looking for it from the front of a text of several lines.               *)
DelimitedOnce(s, end) == IF \E i \in DOMAIN s : DelimAt(s, i) THEN s ELSE s \o end

Delimited(s, end) == IF EndsLine(s) THEN s ELSE s \o end

Free == Capacity - held
Quiet == rest = <<>>
history == <<reached, stream, clogged, lost>>

-----------------------------------------------------------------------------
(* The client                                                              *)

Read ==
    /\ open /\ held > 0
    /\ \E n \in 1..held : held' = held - n
    /\ UNCHANGED <<blocking, messages, rest, buffer, open, history>>

Leave ==
    /\ open
    /\ open' = FALSE
    /\ UNCHANGED <<blocking, messages, rest, buffer, held, history>>

-----------------------------------------------------------------------------
(* The server                                                              *)

(* A handler calls _send with a message; its last line end is missing.     *)
Send(lines) ==
    LET m == Len(messages) + 1 IN
    /\ Quiet
    /\ m <= MaxMessages
    /\ messages' = Append(messages, lines)
    /\ rest' = Delimited([i \in 1..(4 * lines - 2) |-> Byte(m, i)],
                         <<Byte(m, 4 * lines - 1), Byte(m, 4 * lines)>>)
    /\ UNCHANGED <<blocking, buffer, held, open, history>>

(* The client has sent something, start() sends _sendBuffer, which stays   *)
(* as it is.  A line end appended now belongs to no message.               *)
Resend ==
    /\ Quiet
    /\ buffer # <<>>
    /\ Len(buffer) <= MaxBuffer
    /\ rest' = Delimited(buffer, <<Byte(0, 3), Byte(0, 4)>>)
    /\ UNCHANGED <<blocking, messages, buffer, held, open, history>>

(* send() takes some of it.                                                *)
Take ==
    /\ open
    /\ \E n \in 1..Capacity :
         /\ n <= Free /\ n <= Len(rest)
         /\ rest' = SubSeq(rest, n + 1, Len(rest))
         /\ held' = held + n
         /\ reached' = reached \cup Range(SubSeq(rest, 1, n))
         /\ stream' = IF clogged THEN stream ELSE stream \o SubSeq(rest, 1, n)
    /\ UNCHANGED <<blocking, messages, buffer, open, clogged, lost>>

(* Mutant of Kept: the pointer is one too far.                             *)
KeptShort == Tail(rest)

Kept == rest

(* EAGAIN: what is left takes the place of what was in the buffer.         *)
WouldBlock ==
    /\ ~Quiet /\ Free = 0 /\ ~blocking /\ open
    /\ buffer' = Kept
    /\ lost' = lost \cup (Range(buffer) \ (Range(Kept) \cup reached))
    /\ rest' = <<>>
    /\ clogged' = TRUE
    /\ UNCHANGED <<blocking, messages, held, open, reached, stream>>

(* Any other error: the loop breaks.  (SIGPIPE is ignored.)                *)
Broken ==
    /\ ~Quiet /\ ~open
    /\ rest' = <<>>
    /\ UNCHANGED <<blocking, messages, buffer, held, open, history>>

(* _NICK replaces the User by a copy, made by a constructor that leaves    *)
(* the buffers out.                                                        *)
Copied ==
    /\ Quiet
    /\ buffer # <<>>
    /\ buffer' = <<>>
    /\ lost' = lost \cup (Range(buffer) \ reached)
    /\ UNCHANGED <<blocking, messages, rest, held, open, reached, stream, clogged>>

Init ==
    /\ blocking \in BOOLEAN
    /\ messages = <<>> /\ rest = <<>> /\ buffer = <<>>
    /\ held = 0 /\ open = TRUE
    /\ reached = {} /\ stream = <<>> /\ clogged = FALSE /\ lost = {}

Next ==
    \/ Read \/ Leave
    \/ \E lines \in Shapes : Send(lines)
    \/ Resend \/ Take \/ WouldBlock \/ Broken \/ Copied

Spec == Init /\ [][Next]_vars

(* The thread goes on when it can; the client reads, and now and then it   *)
(* sends something.                                                        *)
FairSpec ==
    /\ Spec
    /\ WF_vars(Take \/ WouldBlock \/ Broken)
    /\ WF_vars(Read)
    /\ WF_vars(Resend)

-----------------------------------------------------------------------------
(* Properties                                                              *)

BytesSent == UNION {Range(Whole(m)) : m \in DOMAIN messages}

(* As long as send() does not fail, however little it takes at a time,     *)
(* the client is sent exactly the messages, in order, each ended by one    *)
(* line end: always, if the socket is blocking.                            *)
InOrder ==
    open /\ ~clogged =>
        stream \o rest = FlattenSeq([m \in DOMAIN messages |-> Whole(m)])

(* Afterwards a byte of a message is lost only with a buffer that was      *)
(* overwritten by another message or left behind by NICK.                  *)
Conserved ==
    open => BytesSent \subseteq reached \cup Range(rest) \cup Range(buffer) \cup lost

(* What is kept goes on to the end of a line, so sending it again does not *)
(* leave the client in the middle of one.                                  *)
KeptToLineEnd ==
    \A s \in {rest, buffer} : s # <<>> => IsLF(Last(s))

(* What is not lost arrives, if the client keeps reading and writing (as   *)
(* far as the bound lets a buffer be sent again).                          *)
EverythingArrives ==
    \A m \in 1..MaxMessages :
        m \in DOMAIN messages ~>
            \/ ~open \/ Len(buffer) > MaxBuffer
            \/ m \in DOMAIN messages /\ Range(Whole(m)) \subseteq reached \cup lost
-----------------------------------------------------------------------------
(* The inductive invariant (proved in SendingProofs).                      *)

Bytes == [message : Nat, place : Nat]

SendingInv ==
    /\ messages \in Seq(Nat \ {0})
    /\ rest \in Seq(Bytes) /\ buffer \in Seq(Bytes)
    /\ KeptToLineEnd
    /\ Conserved

(* For InOrder, on top of it: before send() fails nothing has been kept    *)
(* that could be sent a second time.                                       *)
OrderInv ==
    /\ stream \in Seq(Bytes)
    /\ ~clogged => buffer = <<>>
    /\ InOrder
=============================================================================
