------------------------------ MODULE Messaging -----------------------------
(***************************************************************************)
(* What the handlers of Registry tell the clients, and the commands that   *)
(* only tell something: PRIVMSG, NOTICE, NAMES, TOPIC and INVITE.          *)
(*                                                                         *)
(* `told' is what the last step has sent.  A message is received by        *)
(* whoever is at the other end of the socket it is written to.  Sending to *)
(* several clients is a loop of _send over pointers kept in the channels;  *)
(* the order of the recipients shows to nobody and is left out, and so are *)
(* the replies to the sender of a command that no property is about.       *)
(* Whether the bytes get there is the subject of Sending.                  *)
(***************************************************************************)
EXTENDS Registry

CONSTANTS
    Topics,         \* topics a client may set
    OtherNames,     \* nicknames a client may put in front of a line
    MaxTargets      \* bound: receivers named in one PRIVMSG

ASSUME MessagesAssumption ==
    /\ Topics \subseteq Nat \ {0}
    /\ OtherNames \subseteq Nicks
    /\ MaxTargets \in Nat

VARIABLES
    topic,      \* channel |-> its topic, 0 if it has none
    listed,     \* the channels of the JOIN under way
    asked,      \* history: the receivers named by the line of the last
                \* step, if it was a text
    told        \* the messages sent in the last step

mvars == <<vars, topic, listed, asked, told>>

NoTopic == 0

(* A message to each of the clients: `who' it is about or from, the        *)
(* channel it is about, if any, and the nicknames it lists.                *)
Tell(clients, kind, who, where, names) ==
    {[to |-> peer[users[c].sock], kind |-> kind, who |-> who,
      where |-> where, names |-> names] : c \in clients}

(* Mutant of ToChannel: the sender is not left out.                        *)
ToChannelAll(ch, nick) ==
    {channels[ch].users[m] : m \in DOMAIN channels[ch].users}

(* Mutant of ToChannel: to everybody on the server.                        *)
ToChannelEverybody(ch, nick) == {c \in DOMAIN users : users[c].nick # nick}

(* _sendToChannel: everybody on the channel, save who has that nickname.   *)
ToChannel(ch, nick) ==
    {channels[ch].users[m] : m \in DOMAIN channels[ch].users \ {nick}}

JoinedChannels(nick) ==
    {ch \in DOMAIN channels : nick \in DOMAIN channels[ch].users}

(* _sendToJoinedChannels, and the loop of _QUIT over the channels.         *)
ToJoinedChannels(nick) ==
    UNION {ToChannel(ch, nick) : ch \in JoinedChannels(nick)}

(* A topic is a field of its Channel and goes with it.                     *)
KeepTopics ==
    topic' = [ch \in DOMAIN channels' |->
                IF ch \in DOMAIN channels THEN topic[ch] ELSE NoTopic]

KeepListed == listed' = IF job'.kind = "join" THEN listed ELSE {}

Post(messages, list) ==
    told' = messages /\ asked' = list /\ KeepTopics /\ KeepListed

Send(messages) == Post(messages, <<>>)

-----------------------------------------------------------------------------
(* The handlers of Registry                                                *)

(* Mutant of QuitMessages: nobody is told.                                 *)
NoQuitMessages(q) == {}

QuitMessages(q) ==
    Tell(ToJoinedChannels(users[q].nick), "QUIT", users[q].nick, {}, {})

(* The new nickname is known to the channels by the time it is announced.  *)
NickMessages(u, n) ==
    Tell(ToJoinedChannels(n)' \cup {u}, "NICK", users[u].nick, {}, {n})

PartMessages(u, S) ==
    UNION {Tell(ToChannel(ch, NoNick), "PART", users[u].nick, {ch}, {}) :
            ch \in S \cap JoinedChannels(users[u].nick)}

(* To the one who is kicked, then to those who stay, if any.               *)
KickMessages(ch, n) == Tell(ToChannel(ch, NoNick), "KICK", n, {ch}, {})

(* Mutant of JoinMessages: the channel is not told.                        *)
JoinMessagesToSelf(ch) == Tell({Joiner}, "JOIN", JoinNick, {ch}, {})

(* After addUser, whether it has entered the client or not.                *)
JoinMessages(ch) == Tell(ToChannel(ch, NoNick)', "JOIN", JoinNick, {ch}, {})

(* A list is read off the nodes the channel points to.                     *)
NamesMessages(u, S) ==
    UNION {Tell({u}, "NAMES", NoNick, {ch},
                {users[c].nick : c \in ToChannel(ch, NoNick)}) :
            ch \in S \cap DOMAIN channels}

-----------------------------------------------------------------------------
(* The commands that change no table but the topic                         *)

(* A receiver is a nickname or a channel; one that does not exist ends the *)
(* loop, what has been sent before it stays sent.                          *)
Receivers == {<<"nick", n>> : n \in Nicks} \cup {<<"room", ch>> : ch \in Chans}

ReceiverLists ==
    {list \in UNION {[1..k -> Receivers] : k \in 1..MaxTargets} :
        IsInjective(list)}

Named(n) == {c \in DOMAIN users : users[c].nick = n}

Exists(r) ==
    IF r[1] = "nick" THEN Named(r[2]) # {} ELSE r[2] \in DOMAIN channels

(* Mutant of Text: a private text goes to all who share a channel with its *)
(* receiver.                                                               *)
TextOverheard(as, r) ==
    IF r[1] = "nick"
    THEN Tell(Named(r[2]) \cup ToJoinedChannels(r[2]), "TEXT", as, {}, {})
    ELSE Tell(ToChannel(r[2], as), "TEXT", as, {r[2]}, {})

Text(as, r) ==
    IF r[1] = "nick" THEN Tell(Named(r[2]), "TEXT", as, {}, {})
    ELSE Tell(ToChannel(r[2], as), "TEXT", as, {r[2]}, {})

Reached(list) ==
    {i \in DOMAIN list : \A j \in 1..i : Exists(list[j])}

(* _PRIVMSG, and _NOTICE, which sends the same PRIVMSG, to receivers of    *)
(* which none is named twice.  The sender need not be on the channel.  The *)
(* name on the text, and on the one left out, is the one the line begins   *)
(* with, if it begins with one.                                            *)
Privmsg(fd, u, as, list) ==
    /\ Ignored(fd, u)
    /\ LoggedIn(u)
    /\ as \in {users[u].nick} \cup OtherNames
    /\ Post(UNION {Text(as, list[i]) : i \in Reached(list)}, list)

(* _PRIVMSG to a nickname that is named twice: the reply goes there.       *)
Duplicate(fd, u, n) ==
    /\ Ignored(fd, u)
    /\ LoggedIn(u)
    /\ Named(n) # {}
    /\ Send(Tell(Named(n), "407", users[u].nick, {}, {}))

Names(fd, u, S) ==
    /\ Ignored(fd, u)
    /\ LoggedIn(u)
    /\ Send(NamesMessages(u, S))

(* _TOPIC with a topic, which may be empty: nobody else is told.           *)
Topic(fd, u, ch, t) ==
    /\ Ignored(fd, u)
    /\ LoggedIn(u)
    /\ ch \in DOMAIN channels
    /\ topic' = [topic EXCEPT ![ch] = t]
    /\ told' = {} /\ asked' = <<>>
    /\ KeepListed

(* _INVITE: whatever channel is named, the one that is looked at is the    *)
(* first of all.                                                           *)
Invite(fd, u, n, ch) ==
    /\ Ignored(fd, u)
    /\ LoggedIn(u)
    /\ Named(n) # {}
    /\ \E first \in DOMAIN channels :
         /\ \A x \in DOMAIN channels : first <= x
         /\ users[u].nick \in DOMAIN channels[first].users
         /\ n \notin DOMAIN channels[first].users
    /\ Send(Tell(Named(n), "INVITE", users[u].nick, {ch}, {}))

-----------------------------------------------------------------------------
MInit ==
    /\ Init
    /\ topic = [ch \in {} |-> NoTopic]
    /\ listed = {}
    /\ asked = <<>> /\ told = {}

Leaving(fd, u) ==
    \/ \E v \in DOMAIN users : Disconnect(fd, u, v) /\ Send(QuitMessages(u))
    \/ \E v \in DOMAIN users : Expired(fd, u, v) /\ Send(QuitMessages(u))
    \/ \E v \in DOMAIN users : Quit(fd, u, v) /\ Send(QuitMessages(u))
    \/ \E q \in DOMAIN users : Kill(fd, u, q) /\ Send(QuitMessages(q))

Announced(fd, u) ==
    \/ \E n \in Nicks : Nick(fd, u, n) /\ Send(NickMessages(u, n))
    \/ \E S \in SUBSET Chans : Part(fd, u, S) /\ Send(PartMessages(u, S))
    \/ \E ch \in Chans, n \in Nicks :
            Kick(fd, u, ch, n) /\ Send(KickMessages(ch, n))
    \/ \E list \in JoinLists :
            /\ Join(fd, u, list)
            /\ told' = {} /\ asked' = <<>> /\ KeepTopics
            /\ listed' = {list[i].ch : i \in DOMAIN list}

Reporting(fd, u) ==
    \/ \E as \in Nicks, list \in ReceiverLists : Privmsg(fd, u, as, list)
    \/ \E n \in Nicks : Duplicate(fd, u, n)
    \/ \E S \in SUBSET Chans : Names(fd, u, S)
    \/ \E ch \in Chans, t \in Topics \cup {NoTopic} : Topic(fd, u, ch, t)
    \/ \E n \in Nicks, ch \in Chans : Invite(fd, u, n, ch)

Unannounced(fd, u) ==
    /\ \/ Misread(fd, u) \/ Blank(fd, u) \/ Ignored(fd, u) \/ Pass(fd, u)
       \/ UserCmd(fd, u) \/ Oper(fd, u)
    /\ Send({})

Joins ==
    \/ (JoinRefused \/ JoinTooMany) /\ Send({})
    \/ \E ch \in Chans :
            (JoinEnter \/ JoinCreate) /\ ch = JoinTarget.ch /\ Send(JoinMessages(ch))
    \/ JoinDone /\ Send(NamesMessages(Joiner, listed))

MNext ==
    \/ AcceptFails /\ Send({})
    \/ \E fd \in Fds :
         \/ (Accept(fd) \/ ReadOrphan(fd)) /\ Send({})
         \/ \E u \in DOMAIN users :
              \/ Leaving(fd, u) \/ Announced(fd, u)
              \/ Reporting(fd, u) \/ Unannounced(fd, u)
    \/ Joins

MSpec == MInit /\ [][MNext]_mvars

-----------------------------------------------------------------------------
(* Properties                                                              *)

TopicOf(ch) == IF ch \in DOMAIN topic THEN topic[ch] ELSE NoTopic

Talk == INSTANCE Conversation WITH
    Rooms  <- Chans,
    online <- DOMAIN users,
    name   <- [c \in Conns |-> NameOf(c)],
    rooms  <- [ch \in Chans |-> RoomOf(ch)],
    topics <- [ch \in Chans |-> TopicOf(ch)],
    Lists  <- ReceiverLists,
    heard  <- {[to |-> m.to, who |-> m.who, where |-> m.where] :
                 m \in {x \in told : x.kind = "TEXT"}}

(* A text reaches exactly the clients it is meant for, by the connections  *)
(* they came with: for each receiver the line names, everybody in the room *)
(* but the one whose name is on it, or the one who has the nickname; none  *)
(* is left out unless there is nobody at it or at one before it; and       *)
(* nobody hears anything else.  A room keeps its topic, through renames,   *)
(* JOIN, PART, KICK, QUIT and KILL, until somebody sets another or the     *)
(* room is empty.                                                          *)
ImplementsConversation == Talk!TSpec

(* Whatever is said of a channel, other than an invitation, is said to     *)
(* clients that are on it before or after the step: nobody receives the    *)
(* messages of a channel it is not on, also when the step takes somebody   *)
(* out, and a list goes to the one who asks for it.                        *)
OnlyMembersTold ==
    [][\A m \in told' :
         m.kind \in {"TEXT", "JOIN", "PART", "KICK"} => \A ch \in m.where :
            m.to \in RoomOf(ch) \cup RoomOf(ch)']_mvars
-----------------------------------------------------------------------------
(* The inductive invariant (proved in MessagingProofs): every channel that *)
(* exists has a topic, if only the empty one, and no other has.            *)
TopicsMatch ==
    /\ DOMAIN topic = DOMAIN channels
    /\ topic = [ch \in DOMAIN topic |-> topic[ch]]
=============================================================================
