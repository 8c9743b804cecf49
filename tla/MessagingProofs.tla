--------------------------- MODULE MessagingProofs ---------------------------
(***************************************************************************)
(* What is said reaches those it is meant for: the steps of Messaging are  *)
(* steps of Conversation for any number of clients, nicknames, channels    *)
(* and receivers.  The tables are those of Registry, so its theorems       *)
(* apply; what is new is that a socket is its client's own (SocketOwned),  *)
(* that an entry of a channel and its record have one nickname             *)
(* (MembersLive), and that a topic lives as long as its channel            *)
(* (TopicsMatch).                                                          *)
(*                                                                         *)
(* And clients that follow what they are sent know who is on their         *)
(* channels: ViewsInv of Views is inductive.                               *)
(***************************************************************************)
EXTENDS Views, RegistryProofs

-----------------------------------------------------------------------------
(* The steps are those of Registry                                         *)

LEMMA StepIsRegistryStep == [MNext]_mvars => [Next]_vars
<1> SUFFICES ASSUME [MNext]_mvars PROVE [Next]_vars
  OBVIOUS
<1>1. CASE AcceptFails \/ Joins \/ UNCHANGED mvars
  BY <1>1 DEF Joins, JoinLoop, Next, mvars
<1>2. ASSUME NEW fd \in Fds, Accept(fd) \/ ReadOrphan(fd) PROVE Next
  BY <1>2 DEF Next
<1>3. ASSUME NEW fd \in Fds, NEW u \in DOMAIN users,
             Leaving(fd, u) \/ Announced(fd, u)
      PROVE  Next
  BY <1>3 DEF Leaving, Announced, Command, Remains, Next
<1>4. ASSUME NEW fd \in Fds, NEW u \in DOMAIN users,
             Reporting(fd, u) \/ Unannounced(fd, u)
      PROVE  Next
  BY <1>4 DEF Reporting, Privmsg, Duplicate, Names, Topic, Invite,
              Unannounced, Command, Remains, Next
<1> QED
  BY <1>1, <1>2, <1>3, <1>4 DEF MNext

(* Whatever is proved of Registry holds while messages are sent.           *)
LEMMA MessagingImplementsRegistry == MSpec => Spec
<1>1. MInit => Init
  BY DEF MInit
<1> QED
  BY <1>1, StepIsRegistryStep, PTL DEF MSpec, Spec

-----------------------------------------------------------------------------
(* Kinds of steps                                                          *)

(* Nobody is sent a text, and the topics stay with their channels.         *)
Silent == KeepTopics /\ asked' = <<>> /\ \A m \in told' : m.kind # "TEXT"

LEMMA TellKind ==
    ASSUME NEW clients, NEW kind, NEW who, NEW where, NEW names
    PROVE  \A m \in Tell(clients, kind, who, where, names) :
              m.kind = kind /\ m.where = where
  BY DEF Tell

LEMMA LeavingSilent ==
    ASSUME NEW fd \in Fds, NEW u \in DOMAIN users, Leaving(fd, u)
    PROVE  Silent /\ \A m \in told' : m.kind = "QUIT"
<1>1. \A q : \A m \in QuitMessages(q) : m.kind = "QUIT"
  BY TellKind DEF QuitMessages
<1> QED
  BY <1>1 DEF Leaving, Send, Post, Silent

LEMMA NamesKind ==
    ASSUME NEW u, NEW S, NEW m \in NamesMessages(u, S)
    PROVE  m.kind = "NAMES"
<1>1. PICK ch \in S \cap DOMAIN channels :
         m \in Tell({u}, "NAMES", NoNick, {ch},
                   {users[c].nick : c \in ToChannel(ch, NoNick)})
  BY DEF NamesMessages
<1> QED
  BY <1>1, TellKind

(* Who parts tells the channels it was on.                                 *)
LEMMA PartKind ==
    ASSUME NEW u, NEW S, NEW m \in PartMessages(u, S)
    PROVE  /\ m.kind = "PART"
           /\ \E ch \in S \cap JoinedChannels(users[u].nick) :
                m \in Tell(ToChannel(ch, NoNick), "PART", users[u].nick, {ch}, {})
<1>1. PICK ch \in S \cap JoinedChannels(users[u].nick) :
         m \in Tell(ToChannel(ch, NoNick), "PART", users[u].nick, {ch}, {})
  BY DEF PartMessages
<1>2. m.kind = "PART"
  BY <1>1, TellKind
<1> QED
  BY <1>1, <1>2

LEMMA JoinsSilent ==
    ASSUME Joins
    PROVE  Silent
<1>1. \A ch : \A m \in JoinMessages(ch) : m.kind = "JOIN"
  BY TellKind DEF JoinMessages
<1> QED
  BY <1>1, NamesKind DEF Joins, Send, Post, Silent

LEMMA AnnouncedSilent ==
    ASSUME NEW fd \in Fds, NEW u \in DOMAIN users, Announced(fd, u)
    PROVE  Silent
<1>1. \A n : \A m \in NickMessages(u, n) : m.kind = "NICK"
  BY TellKind DEF NickMessages
<1>2. \A S : \A m \in PartMessages(u, S) : m.kind = "PART"
  BY PartKind
<1>3. \A ch, n : \A m \in KickMessages(ch, n) : m.kind = "KICK"
  BY TellKind DEF KickMessages
<1> QED
  BY <1>1, <1>2, <1>3 DEF Announced, Send, Post, Silent

LEMMA ReportingKinds ==
    ASSUME NEW fd \in Fds, NEW u \in DOMAIN users, Reporting(fd, u)
    PROVE  \/ Silent
           \/ \E alias \in Nicks, list \in ReceiverLists : Privmsg(fd, u, alias, list)
           \/ \E ch \in Chans, t \in Topics \cup {NoTopic} : Topic(fd, u, ch, t)
<1>1. \A n : \A m \in Tell(Named(n), "407", users[u].nick, {}, {}) : m.kind = "407"
  BY TellKind
<1>2. \A n, ch : \A m \in Tell(Named(n), "INVITE", users[u].nick, {ch}, {}) :
                    m.kind = "INVITE"
  BY TellKind
<1> QED
  BY <1>1, <1>2, NamesKind DEF Reporting, Duplicate, Names, Invite, Send, Post, Silent

LEMMA MessageKinds ==
    ASSUME MNext
    PROVE  \/ Silent
           \/ \E fd \in Fds, u \in DOMAIN users :
                \/ \E alias \in Nicks, list \in ReceiverLists :
                        Privmsg(fd, u, alias, list)
                \/ \E ch \in Chans, t \in Topics \cup {NoTopic} :
                        Topic(fd, u, ch, t)
<1>1. CASE Send({})
  BY <1>1 DEF Send, Post, Silent
<1> QED
  BY <1>1, LeavingSilent, AnnouncedSilent, ReportingKinds, JoinsSilent
     DEF MNext, Unannounced

-----------------------------------------------------------------------------
(* Topics                                                                  *)

LEMMA TopicsInv == TopicsMatch /\ [MNext]_mvars => TopicsMatch'
<1> SUFFICES ASSUME TopicsMatch, [MNext]_mvars PROVE TopicsMatch'
  OBVIOUS
<1>1. CASE KeepTopics
  BY <1>1 DEF KeepTopics, TopicsMatch
<1>2. ASSUME NEW fd \in Fds, NEW u \in DOMAIN users, NEW ch \in Chans, NEW t,
             Topic(fd, u, ch, t)
      PROVE  TopicsMatch'
  BY <1>2 DEF Topic, Ignored, TopicsMatch
<1>3. CASE UNCHANGED mvars
  BY <1>3 DEF mvars, vars, TopicsMatch
<1> QED
  BY <1>1, <1>2, <1>3, MessageKinds DEF Silent, Privmsg, Send, Post

(* While the channels stay as they are, so do the topics.                  *)
LEMMA TopicsKept ==
    ASSUME TopicsMatch, KeepTopics, channels' = channels
    PROVE  topic' = topic
  BY DEF TopicsMatch, KeepTopics

-----------------------------------------------------------------------------
(* The clients' view                                                       *)

TopicsOf == [ch \in Chans |-> TopicOf(ch)]

HeardOf == {[to |-> m.to, who |-> m.who, where |-> m.where] :
              m \in {x \in told : x.kind = "TEXT"}}

LEMMA SameView ==
    (Promise!CNext \/ UNCHANGED Promise!cvars)
        => (Talk!CNext \/ UNCHANGED Talk!cvars)
<1>1. UNCHANGED Promise!cvars => UNCHANGED Talk!cvars
  BY DEF Promise!cvars, Talk!cvars
<1>2. ASSUME NEW c \in Conns
      PROVE  /\ Promise!Arrive(c) => Talk!Arrive(c)
             /\ \A n \in Nicks : Promise!Rename(c, n) => Talk!Rename(c, n)
             /\ \A r \in Chans : Promise!Enter(c, r) => Talk!Enter(c, r)
  BY DEF Promise!Arrive, Talk!Arrive, Promise!Rename, Talk!Rename,
         Promise!Enter, Talk!Enter
<1>3. ASSUME NEW c \in Conns
      PROVE  /\ \A S \in SUBSET Chans : Promise!Leave(c, S) => Talk!Leave(c, S)
             /\ \A by \in Conns, r \in Chans : Promise!Expel(by, c, r) => Talk!Expel(by, c, r)
             /\ Promise!Depart(c) => Talk!Depart(c)
  BY DEF Promise!Leave, Talk!Leave, Promise!Expel, Talk!Expel,
         Promise!Depart, Talk!Depart, Promise!Without, Talk!Without
<1> QED
  BY <1>1, <1>2, <1>3 DEF Promise!CNext, Talk!CNext

(* A step without a text: somebody comes, goes or moves, and only a room   *)
(* that is empty afterwards may lose its topic.                            *)
LEMMA SilentMoves ==
    ASSUME IInv, TopicsMatch, [Next]_vars, Silent
    PROVE  Talk!Move
<1>1. Talk!CNext \/ UNCHANGED Talk!cvars
  BY NextImplements, SameView
<1> DEFINE lost == Chans \ DOMAIN channels'
<1>2. \A ch \in Chans :
         TopicOf(ch)' = IF ch \in lost THEN NoTopic ELSE TopicOf(ch)
  BY DEF Silent, KeepTopics, TopicOf, TopicsMatch
<1>3. TopicsOf' = [ch \in Chans |-> IF ch \in lost THEN NoTopic ELSE TopicsOf[ch]]
  BY <1>2 DEF TopicsOf
<1>4. \A ch \in lost : [x \in Chans |-> RoomOf(x)]'[ch] = {}
  BY DEF RoomOf
<1>5. HeardOf' = {} /\ asked' = <<>>
  BY DEF HeardOf, Silent
<1>6. lost \in SUBSET {ch \in Chans : [x \in Chans |-> RoomOf(x)]'[ch] = {}}
  BY <1>4
<1> HIDE DEF lost
<1> QED
  BY <1>1, <1>3, <1>5, <1>6 DEF Talk!Move, TopicsOf, HeardOf

(* A message to clients is received by these clients, and by all of them.  *)
LEMMA TellToThem ==
    ASSUME SocketOwned, NEW clients \in SUBSET DOMAIN users,
           NEW kind, NEW who, NEW where, NEW names,
           NEW m \in Tell(clients, kind, who, where, names)
    PROVE  /\ m.to \in clients /\ m.kind = kind /\ m.who = who
           /\ m.where = where /\ m.names = names
<1>1. PICK c \in clients :
         m = [to |-> peer[users[c].sock], kind |-> kind, who |-> who,
              where |-> where, names |-> names]
  BY DEF Tell
<1>2. peer[users[c].sock] = c
  BY DEF SocketOwned
<1> QED
  BY <1>1, <1>2

MessageTo(c, kind, who, where, names) ==
    [to |-> c, kind |-> kind, who |-> who, where |-> where, names |-> names]

LEMMA TellToAll ==
    ASSUME SocketOwned, NEW clients \in SUBSET DOMAIN users,
           NEW kind, NEW who, NEW where, NEW names, NEW c \in clients
    PROVE  MessageTo(c, kind, who, where, names)
              \in Tell(clients, kind, who, where, names)
<1>1. peer[users[c].sock] = c
  BY DEF SocketOwned
<1> QED
  BY <1>1 DEF Tell, MessageTo

(* Both at once, for all the messages of a step.                           *)
LEMMA TellReaches ==
    ASSUME SocketOwned, NEW people \in SUBSET DOMAIN users,
           NEW kind, NEW who, NEW where, NEW names,
           NEW messages, messages = Tell(people, kind, who, where, names)
    PROVE  /\ \A m \in messages :
                 /\ m.to \in people /\ m.kind = kind /\ m.who = who
                 /\ m.where = where /\ m.names = names
           /\ \A c \in people : \E m \in messages : m.to = c /\ m.where = where
<1>1. \A m \in messages : /\ m.to \in people /\ m.kind = kind /\ m.who = who
                          /\ m.where = where /\ m.names = names
  BY TellToThem
<1>2. ASSUME NEW c \in people
      PROVE  \E m \in messages : m.to = c /\ m.where = where
  <2>1. MessageTo(c, kind, who, where, names) \in messages
    BY TellToAll
  <2>2. /\ MessageTo(c, kind, who, where, names).to = c
        /\ MessageTo(c, kind, who, where, names).where = where
    BY DEF MessageTo
  <2> QED
    BY <2>1, <2>2
<1> QED
  BY <1>1, <1>2

(* The entries of a channel but the one with a name are the clients in the *)
(* room but those that have it.                                            *)
LEMMA ToChannelIsRoom ==
    ASSUME IInv, NEW ch \in DOMAIN channels, NEW alias
    PROVE  /\ ToChannel(ch, alias) = {c \in RoomOf(ch) : NameOf(c) # alias}
           /\ ToChannel(ch, alias) \subseteq DOMAIN users
           /\ RoomOf(ch) \subseteq Conns
<1> DEFINE entries == channels[ch].users
<1>1. \A m \in DOMAIN entries :
         /\ entries[m] \in DOMAIN users /\ users[entries[m]].nick = m
         /\ entries[m] \in Conns
  BY DEF IInv, ChannelsInv, MembersLive, IsChannel
<1>2. \A m \in DOMAIN entries : NameOf(entries[m]) = m
  BY <1>1 DEF NameOf
<1>3. /\ RoomOf(ch) = {entries[m] : m \in DOMAIN entries}
      /\ ToChannel(ch, alias) = {entries[m] : m \in DOMAIN entries \ {alias}}
  BY DEF RoomOf, ToChannel
<1> HIDE DEF entries
<1> QED
  BY <1>1, <1>2, <1>3

LEMMA TextCounts ==
    ASSUME NEW c, NEW who, NEW where,
           MessageTo(c, "TEXT", who, where, {}) \in told'
    PROVE  [to |-> c, who |-> who, where |-> where] \in HeardOf'
<1> DEFINE m == MessageTo(c, "TEXT", who, where, {})
<1>1. m.to = c /\ m.kind = "TEXT" /\ m.who = who /\ m.where = where
  BY DEF MessageTo
<1>2. m \in told'
  OBVIOUS
<1> HIDE DEF m
<1>3. m \in {x \in told' : x.kind = "TEXT"}
  BY <1>1, <1>2
<1>4. [to |-> m.to, who |-> m.who, where |-> m.where] \in HeardOf'
  BY <1>3 DEF HeardOf
<1> QED
  BY <1>1, <1>4

(* A receiver that exists: what is sent to it is heard by those the text   *)
(* is meant for.                                                           *)
LEMMA TextReaches ==
    ASSUME IInv, SocketOwned, NEW alias, NEW r \in Receivers, Exists(r)
    PROVE  /\ Talk!MeantFor(r, alias) \in SUBSET DOMAIN users
           /\ Text(alias, r) = Tell(Talk!MeantFor(r, alias), "TEXT", alias, Talk!Where(r), {})
<1>1. ASSUME NEW n \in Nicks, r = <<"nick", n>>
      PROVE  /\ Talk!MeantFor(r, alias) \in SUBSET DOMAIN users
             /\ Text(alias, r) = Tell(Talk!MeantFor(r, alias), "TEXT", alias, Talk!Where(r), {})
  <2>1. Talk!MeantFor(r, alias) = Named(n)
    BY <1>1, UsersAreConns DEF Talk!MeantFor, Named, NameOf
  <2>2. Talk!Where(r) = {}
    BY <1>1 DEF Talk!Where
  <2>3. Text(alias, r) = Tell(Named(n), "TEXT", alias, {}, {})
    BY <1>1 DEF Text
  <2>4. Named(n) \in SUBSET DOMAIN users
    BY DEF Named
  <2> QED
    BY <2>1, <2>2, <2>3, <2>4
<1>2. ASSUME NEW ch \in Chans, r = <<"room", ch>>
      PROVE  /\ Talk!MeantFor(r, alias) \in SUBSET DOMAIN users
             /\ Text(alias, r) = Tell(Talk!MeantFor(r, alias), "TEXT", alias, Talk!Where(r), {})
  <2>1. ch \in DOMAIN channels
    BY <1>2 DEF Exists
  <2>2. /\ ToChannel(ch, alias) = {c \in RoomOf(ch) : NameOf(c) # alias}
        /\ ToChannel(ch, alias) \subseteq DOMAIN users
        /\ RoomOf(ch) \subseteq Conns
    BY <2>1, ToChannelIsRoom
  <2>3. Talk!MeantFor(r, alias) = ToChannel(ch, alias)
    BY <1>2, <2>2 DEF Talk!MeantFor
  <2>4. Talk!Where(r) = {ch}
    BY <1>2 DEF Talk!Where
  <2>5. Text(alias, r) = Tell(ToChannel(ch, alias), "TEXT", alias, {ch}, {})
    BY <1>2 DEF Text
  <2> QED
    BY <2>2, <2>3, <2>4, <2>5
<1> QED
  BY <1>1, <1>2 DEF Receivers

LEMMA TextIsHeard ==
    ASSUME IInv, SocketOwned, NEW alias, NEW list \in ReceiverLists,
           told' = UNION {Text(alias, list[i]) : i \in Reached(list)}
    PROVE  HeardOf' = UNION {Talk!Heard(list[i], alias) : i \in Reached(list)}
<1>1. ASSUME NEW i \in Reached(list)
      PROVE  /\ Talk!MeantFor(list[i], alias) \in SUBSET DOMAIN users
             /\ Text(alias, list[i])
                  = Tell(Talk!MeantFor(list[i], alias), "TEXT", alias, Talk!Where(list[i]), {})
  <2>1. list[i] \in Receivers /\ Exists(list[i])
    BY DEF Reached, ReceiverLists
  <2> QED
    BY <2>1, TextReaches
<1>2. ASSUME NEW h \in HeardOf'
      PROVE  \E i \in Reached(list) : h \in Talk!Heard(list[i], alias)
  <2>1. PICK m \in told' : h = [to |-> m.to, who |-> m.who, where |-> m.where]
    BY <1>2 DEF HeardOf
  <2>2. PICK i \in Reached(list) : m \in Text(alias, list[i])
    BY <2>1
  <2>3. PICK people, place : people = Talk!MeantFor(list[i], alias) /\ place = Talk!Where(list[i])
    OBVIOUS
  <2>4. people \in SUBSET DOMAIN users /\ m \in Tell(people, "TEXT", alias, place, {})
    BY <1>1, <2>2, <2>3
  <2>5. m.to \in people /\ m.who = alias /\ m.where = place
    BY <2>4, TellToThem
  <2>6. h \in Talk!Heard(list[i], alias)
    BY <2>1, <2>3, <2>5 DEF Talk!Heard
  <2> QED
    BY <2>2, <2>6
<1>3. ASSUME NEW i \in Reached(list), NEW h \in Talk!Heard(list[i], alias)
      PROVE  h \in HeardOf'
  <2>1. PICK people, place : people = Talk!MeantFor(list[i], alias) /\ place = Talk!Where(list[i])
    OBVIOUS
  <2>2. PICK c \in people : h = [to |-> c, who |-> alias, where |-> place]
    BY <1>3, <2>1 DEF Talk!Heard
  <2>3. people \in SUBSET DOMAIN users /\ Text(alias, list[i]) = Tell(people, "TEXT", alias, place, {})
    BY <1>1, <2>1
  <2>4. MessageTo(c, "TEXT", alias, place, {}) \in Text(alias, list[i])
    BY <2>2, <2>3, TellToAll
  <2>5. MessageTo(c, "TEXT", alias, place, {}) \in told'
    BY <2>4
  <2> QED
    BY <2>2, <2>5, TextCounts
<1> QED
  BY <1>2, <1>3

(* A receiver that does not exist is a name nobody has or a room without   *)
(* anybody in it.                                                          *)
LEMMA MissingIsNobody ==
    ASSUME IInv, NEW r \in Receivers, ~Exists(r)
    PROVE  Talk!Nobody(r)
<1>1. ASSUME NEW n \in Nicks, r = <<"nick", n>> PROVE Talk!Nobody(r)
  BY <1>1, UsersAreConns DEF Exists, Named, Talk!Nobody, NameOf
<1>2. ASSUME NEW ch \in Chans, r = <<"room", ch>> PROVE Talk!Nobody(r)
  BY <1>2 DEF Exists, Talk!Nobody, RoomOf
<1> QED
  BY <1>1, <1>2 DEF Receivers

(* What is reached is the list up to the first receiver that is missing.   *)
LEMMA ReachedIsPrefix ==
    ASSUME IInv, NEW list \in ReceiverLists
    PROVE  /\ Reached(list) \in SUBSET DOMAIN list
           /\ \A i \in Reached(list) : 1..i \subseteq Reached(list)
           /\ \A i \in DOMAIN list \ Reached(list) : \E j \in 1..i : Talk!Nobody(list[j])
<1>1. PICK k \in 1..MaxTargets : list \in [1..k -> Receivers]
  BY DEF ReceiverLists
<1>2. k \in Nat /\ DOMAIN list = 1..k
  BY <1>1, MessagesAssumption
<1>3. ASSUME NEW i \in Reached(list) PROVE 1..i \subseteq Reached(list)
  BY <1>2 DEF Reached
<1>4. ASSUME NEW i \in DOMAIN list \ Reached(list)
      PROVE  \E j \in 1..i : Talk!Nobody(list[j])
  <2>1. PICK j \in 1..i : ~Exists(list[j])
    BY DEF Reached
  <2>2. list[j] \in Receivers
    BY <1>1, <1>2
  <2> QED
    BY <2>1, <2>2, MissingIsNobody
<1> QED
  BY <1>3, <1>4 DEF Reached

(* A client speaks: those it speaks to hear it, and nobody moves.          *)
LEMMA PrivmsgSays ==
    ASSUME IInv, SocketOwned, TopicsMatch,
           NEW fd \in Fds, NEW u \in DOMAIN users,
           NEW alias \in Nicks, NEW list \in ReceiverLists,
           Privmsg(fd, u, alias, list)
    PROVE  Talk!TNext
<1>1. /\ u \in Conns /\ users[u].logged /\ users[u].nick \in Nicks
      /\ NameOf(u) = users[u].nick /\ alias # NoNick
  BY UsersAreConns, NamesAssumption
     DEF Privmsg, LoggedIn, IInv, UsersInv, RegistrationOrder, User, NameOf, NoNick
<1>2. UNCHANGED Promise!cvars /\ channels' = channels
  BY TouchFacts, TouchedNamesKept, ChannelsKeepRooms, Stutters
     DEF Privmsg, Ignored, IInv
<1>3. UNCHANGED Talk!cvars
  BY <1>2 DEF Promise!cvars, Talk!cvars
<1>4. topic' = topic
  BY <1>2, TopicsKept DEF Privmsg, Send, Post
<1>5. TopicsOf' = TopicsOf
  BY <1>4 DEF TopicsOf, TopicOf
<1>6. HeardOf' = UNION {Talk!Heard(list[i], alias) : i \in Reached(list)}
  BY TextIsHeard DEF Privmsg, Post
<1>7. asked' = list
  BY DEF Privmsg, Post
<1>8. alias \in {NameOf(u)} \cup OtherNames
  BY <1>1 DEF Privmsg
<1>9. PICK reached \in SUBSET DOMAIN list :
         /\ reached = Reached(list)
         /\ \A i \in reached : 1..i \subseteq reached
         /\ \A i \in DOMAIN list \ reached : \E j \in 1..i : Talk!Nobody(list[j])
  BY ReachedIsPrefix
<1>10. Talk!Say(u, alias, list, reached)
  BY <1>1, <1>3, <1>5, <1>6, <1>7, <1>8, <1>9 DEF Talk!Say, HeardOf, TopicsOf
<1> QED
  BY <1>1, <1>9, <1>10 DEF Talk!TNext

LEMMA TopicSets ==
    ASSUME IInv, TopicsMatch, NEW fd \in Fds, NEW u \in DOMAIN users,
           NEW ch \in Chans, NEW t \in Topics \cup {NoTopic},
           Topic(fd, u, ch, t)
    PROVE  Talk!TNext
<1>1. UNCHANGED Promise!cvars
  BY TouchFacts, TouchedNamesKept, ChannelsKeepRooms, Stutters
     DEF Topic, Ignored, IInv
<1>2. UNCHANGED Talk!cvars
  BY <1>1 DEF Promise!cvars, Talk!cvars
<1>3. TopicsOf' = [TopicsOf EXCEPT ![ch] = t]
  BY DEF Topic, TopicsOf, TopicOf, TopicsMatch
<1>4. HeardOf' = {} /\ asked' = <<>>
  BY DEF Topic, HeardOf
<1>5. u \in Conns
  BY UsersAreConns
<1>6. Talk!SetTopic(u, ch, t)
  BY <1>2, <1>3, <1>4, <1>5 DEF Talk!SetTopic, TopicsOf, HeardOf
<1> QED
  BY <1>5, <1>6 DEF Talk!TNext

LEMMA ConversationStep ==
    IInv /\ SocketOwned /\ TopicsMatch /\ [MNext]_mvars
        => [Talk!TNext]_(Talk!tvars)
<1> SUFFICES ASSUME IInv, SocketOwned, TopicsMatch, [MNext]_mvars
             PROVE  Talk!TNext \/ UNCHANGED Talk!tvars
  OBVIOUS
<1>1. CASE UNCHANGED mvars
  <2>1. UNCHANGED Promise!cvars
    BY <1>1, ChannelsKeepRooms, Stutters DEF mvars, vars, NamesKept
  <2>2. TopicsOf' = TopicsOf /\ HeardOf' = HeardOf /\ asked' = asked
    BY <1>1 DEF mvars, TopicsOf, TopicOf, HeardOf
  <2> QED
    BY <2>1, <2>2 DEF Talk!tvars, Talk!cvars, Promise!cvars, TopicsOf, HeardOf
<1>2. CASE MNext
  BY <1>2, MessageKinds, SilentMoves, StepIsRegistryStep, PrivmsgSays, TopicSets
     DEF Talk!TNext
<1> QED
  BY <1>1, <1>2

LEMMA ConversationInit == MInit => Talk!TInit
<1> SUFFICES ASSUME MInit PROVE Talk!TInit
  OBVIOUS
<1>1. Talk!CInit
  BY InitImplements DEF MInit, Promise!CInit, Talk!CInit
<1>2. TopicsOf = [ch \in Chans |-> NoTopic] /\ HeardOf = {} /\ asked = <<>>
  BY DEF MInit, TopicsOf, TopicOf, HeardOf
<1> QED
  BY <1>1, <1>2 DEF Talk!TInit, TopicsOf, HeardOf

LEMMA MessagingInvariant ==
    ASSUME ~EarlyDrop
    PROVE  MSpec => [](IInv /\ SocketOwned /\ TopicsMatch)
<1>1. MSpec => []IInv /\ []SocketOwned
  BY MessagingImplementsRegistry, Invariant, SocketsAreOwned, PTL
<1>2. MInit => TopicsMatch
  BY DEF MInit, Init, TopicsMatch
<1> QED
  BY <1>1, <1>2, TopicsInv, PTL DEF MSpec

(* A text is received by exactly those it is meant for and a topic stays   *)
(* with its channel, for any number of clients, channels and receivers, as *)
(* long as nobody goes before its first NICK: without that a descriptor    *)
(* may be another client's than its record says.                           *)
THEOREM MessagesReachTheirClients ==
    ASSUME ~EarlyDrop
    PROVE  MSpec => ImplementsConversation
<1>1. MSpec => [](IInv /\ SocketOwned /\ TopicsMatch)
  BY MessagingInvariant
<1> QED
  BY <1>1, ConversationInit, ConversationStep, PTL
     DEF MSpec, ImplementsConversation, Talk!TSpec

-----------------------------------------------------------------------------
(* Who is told of a channel                                                *)

Discreet ==
    \A m \in told' :
        m.kind \in {"TEXT", "JOIN", "PART", "KICK"} => \A ch \in m.where :
            m.to \in RoomOf(ch) \cup RoomOf(ch)'

LEMMA RoomTold ==
    ASSUME IInv, SocketOwned, NEW ch \in DOMAIN channels, NEW nick,
           NEW kind, NEW who,
           NEW m \in Tell(ToChannel(ch, nick), kind, who, {ch}, {})
    PROVE  m.where = {ch} /\ m.to \in RoomOf(ch)
<1> DEFINE people == ToChannel(ch, nick)
<1>1. people \in SUBSET DOMAIN users /\ people \subseteq RoomOf(ch)
  BY ToChannelIsRoom
<1>2. m \in Tell(people, kind, who, {ch}, {})
  OBVIOUS
<1> HIDE DEF people
<1>3. m.where = {ch} /\ m.to \in people
  BY <1>1, <1>2, TellToThem
<1> QED
  BY <1>1, <1>3

LEMMA AnnouncedDiscreet ==
    ASSUME IInv, SocketOwned, NEW fd \in Fds, NEW u \in DOMAIN users,
           Announced(fd, u)
    PROVE  Discreet
<1>1. ASSUME NEW n, told' = NickMessages(u, n) PROVE Discreet
  <2>1. \A m \in told' : m.kind = "NICK"
    BY <1>1, TellKind DEF NickMessages
  <2> QED
    BY <2>1 DEF Discreet
<1>2. ASSUME NEW S, told' = PartMessages(u, S) PROVE Discreet
  <2> SUFFICES ASSUME NEW m \in PartMessages(u, S), NEW x \in m.where
               PROVE  m.to \in RoomOf(x)
    BY <1>2 DEF Discreet
  <2>1. PICK ch \in S \cap JoinedChannels(users[u].nick) :
           m \in Tell(ToChannel(ch, NoNick), "PART", users[u].nick, {ch}, {})
    BY PartKind
  <2>2. ch \in DOMAIN channels
    BY DEF JoinedChannels
  <2> QED
    BY <2>1, <2>2, RoomTold
<1>3. ASSUME NEW ch \in DOMAIN channels, NEW n, told' = KickMessages(ch, n)
      PROVE  Discreet
  BY <1>3, RoomTold DEF KickMessages, Discreet
<1>4. CASE told' = {}
  BY <1>4 DEF Discreet
<1> QED
  BY <1>1, <1>2, <1>3, <1>4 DEF Announced, Kick, Send, Post

(* The channel is told of a JOIN as it is after addUser.                   *)
LEMMA JoinsDiscreet ==
    ASSUME IInv, SocketOwned, Joins
    PROVE  Discreet
<1>1. CASE told' = {}
  BY <1>1 DEF Discreet
<1>2. ASSUME NEW ch \in Chans, JoinEnter \/ JoinCreate, ch = JoinTarget.ch,
             told' = JoinMessages(ch)
      PROVE  Discreet
  <2>1. users' = users /\ peer' = peer /\ ch \in DOMAIN channels'
    BY <1>2 DEF JoinEnter, JoinCreate, IInv, ChannelsInv
  <2>2. (IInv /\ SocketOwned)'
    <3>1. [Next]_vars
      BY <1>2 DEF JoinLoop, Next
    <3>2. IInv'
      BY <3>1, NextInv
    <3>3. SocketOwned'
      BY <2>1 DEF SocketOwned
    <3> QED
      BY <3>2, <3>3
  <2>3. ToChannel(ch, NoNick)' \subseteq RoomOf(ch)' /\ ToChannel(ch, NoNick)' \subseteq DOMAIN users
    <3>1. \A m \in DOMAIN channels'[ch].users : channels'[ch].users[m] \in DOMAIN users'
      BY <2>1, <2>2 DEF IInv, ChannelsInv, MembersLive
    <3> QED
      BY <2>1, <3>1 DEF ToChannel, RoomOf
  <2> DEFINE people == ToChannel(ch, NoNick)'
  <2>4. people \in SUBSET DOMAIN users /\ told' = Tell(people, "JOIN", JoinNick, {ch}, {})
    BY <1>2, <2>3 DEF JoinMessages
  <2>5. \A m \in told' : m.where = {ch} /\ m.to \in people
    <3> HIDE DEF people
    <3> QED
      BY <2>4, TellToThem
  <2> QED
    BY <2>3, <2>5 DEF Discreet
<1>3. ASSUME NEW S, told' = NamesMessages(Joiner, S) PROVE Discreet
  <2>1. \A m \in told' : m.kind = "NAMES"
    BY <1>3, NamesKind
  <2> QED
    BY <2>1 DEF Discreet
<1> QED
  BY <1>1, <1>2, <1>3 DEF Joins, Send, Post

LEMMA TextDiscreet ==
    ASSUME IInv, SocketOwned, NEW fd \in Fds, NEW u \in DOMAIN users,
           NEW alias \in Nicks, NEW list \in ReceiverLists,
           Privmsg(fd, u, alias, list)
    PROVE  Discreet
<1> SUFFICES ASSUME NEW m \in told', NEW x \in m.where
             PROVE  m.to \in RoomOf(x)
  BY DEF Discreet
<1>1. PICK i \in Reached(list) : m \in Text(alias, list[i])
  BY DEF Privmsg, Send, Post
<1>2. list[i] \in Receivers /\ Exists(list[i])
  BY DEF Reached, ReceiverLists
<1>3. ASSUME NEW n \in Nicks, list[i] = <<"nick", n>> PROVE FALSE
  <2>1. m \in Tell(Named(n), "TEXT", alias, {}, {})
    BY <1>1, <1>3 DEF Text
  <2>2. m.where = {}
    BY <2>1, TellKind
  <2> QED
    BY <2>2
<1>4. ASSUME NEW r \in Chans, list[i] = <<"room", r>>
      PROVE  m.to \in RoomOf(x)
  <2>1. m \in Tell(ToChannel(r, alias), "TEXT", alias, {r}, {}) /\ r \in DOMAIN channels
    BY <1>1, <1>2, <1>4 DEF Text, Exists
  <2> QED
    BY <2>1, RoomTold
<1> QED
  BY <1>2, <1>3, <1>4 DEF Receivers

LEMMA ReportingDiscreet ==
    ASSUME IInv, SocketOwned, NEW fd \in Fds, NEW u \in DOMAIN users,
           Reporting(fd, u)
    PROVE  Discreet
<1>1. ASSUME NEW n, told' = Tell(Named(n), "407", users[u].nick, {}, {})
      PROVE  Discreet
  <2>1. \A m \in told' : m.kind = "407"
    BY <1>1, TellKind
  <2> QED
    BY <2>1 DEF Discreet
<1>2. ASSUME NEW S, told' = NamesMessages(u, S) PROVE Discreet
  <2>1. \A m \in told' : m.kind = "NAMES"
    BY <1>2, NamesKind
  <2> QED
    BY <2>1 DEF Discreet
<1>3. ASSUME NEW n, NEW ch, told' = Tell(Named(n), "INVITE", users[u].nick, {ch}, {})
      PROVE  Discreet
  <2>1. \A m \in told' : m.kind = "INVITE"
    BY <1>3, TellKind
  <2> QED
    BY <2>1 DEF Discreet
<1>4. CASE told' = {}
  BY <1>4 DEF Discreet
<1> QED
  BY <1>1, <1>2, <1>3, <1>4, TextDiscreet
     DEF Reporting, Duplicate, Names, Topic, Invite, Send, Post

LEMMA DiscreetStep ==
    IInv /\ SocketOwned /\ [MNext]_mvars => [Discreet]_mvars
<1> SUFFICES ASSUME IInv, SocketOwned, MNext PROVE Discreet
  OBVIOUS
<1>1. CASE Send({})
  BY <1>1 DEF Send, Post, Discreet
<1>2. ASSUME NEW fd \in Fds, NEW u \in DOMAIN users, Leaving(fd, u)
      PROVE  Discreet
  <2>1. \A m \in told' : m.kind = "QUIT"
    BY <1>2, LeavingSilent
  <2> QED
    BY <2>1 DEF Discreet
<1> QED
  BY <1>1, <1>2, AnnouncedDiscreet, ReportingDiscreet, JoinsDiscreet
     DEF MNext, Unannounced

(* What is said of a channel is said to nobody who is not on it, however   *)
(* many clients come, go and are renamed meanwhile.                        *)
THEOREM NobodyElseIsTold ==
    ASSUME ~EarlyDrop
    PROVE  MSpec => OnlyMembersTold
<1>1. MSpec => [](IInv /\ SocketOwned /\ TopicsMatch)
  BY MessagingInvariant
<1> QED
  BY <1>1, DiscreetStep, PTL DEF MSpec, OnlyMembersTold, Discreet

-----------------------------------------------------------------------------
(* The lists the clients keep                                              *)

(* What a client does with the messages of a step.                         *)
ViewStep ==
    /\ view' = [c \in Conns |-> [ch \in Chans |-> NextView(c, ch)]]
    /\ informed' = [c \in Conns |-> {ch \in Chans : NextInformed(c, ch)}]

(* A message that may change the list a client keeps for channel ch.       *)
Concerns(m, ch) ==
    \/ m.kind \in {"QUIT", "NICK"}
    \/ m.kind \in {"JOIN", "PART", "KICK", "NAMES"} /\ ch \in m.where

(* Nothing new makes a list complete.                                      *)
NotMoreInformed(c, ch) ==
    ch \in informed'[c] => ch \in informed[c] /\ view'[c][ch] # {}

LEMMA NobodyRenamed ==
    ASSUME NEW c, \A m \in told' : m.to = c => m.kind # "NICK", NEW names
    PROVE  Relabelled(c, names) = names
<1>1. \A n : {m \in Inbox(c, {"NICK"}) : m.who = n} = {}
  BY DEF Inbox
<1>2. Relabelled(c, names) = UNION {{n} : n \in names}
  BY <1>1 DEF Relabelled
<1> QED
  BY <1>2

LEMMA NoListReceived ==
    ASSUME NEW c \in Conns, NEW ch \in Chans, ViewStep,
           \A m \in told' : m.to = c /\ m.kind = "NAMES" => ch \notin m.where
    PROVE  NotMoreInformed(c, ch)
<1>1. About(Inbox(c, {"NAMES"}), ch) = {}
  BY DEF About, Inbox
<1> QED
  BY <1>1 DEF ViewStep, NextInformed, NotMoreInformed

LEMMA ViewKept ==
    ASSUME NEW c \in Conns, NEW ch \in Chans, ViewStep,
           view[c][ch] # {} => Connected(c)',
           \A m \in told' : m.to = c => ~Concerns(m, ch)
    PROVE  view'[c][ch] = view[c][ch] /\ NotMoreInformed(c, ch)
<1>1. /\ About(Inbox(c, {"JOIN"}), ch) = {}
      /\ About(Inbox(c, {"PART", "KICK"}), ch) = {}
      /\ Inbox(c, {"QUIT"}) = {}
      /\ About(Inbox(c, {"NAMES"}), ch) = {}
  BY DEF About, Inbox, Concerns
<1>2. \A names : Relabelled(c, names) = names
  BY NobodyRenamed DEF Concerns
<1>3. view'[c][ch] = NextView(c, ch)
  BY DEF ViewStep
<1>4. NextView(c, ch) = view[c][ch]
  BY <1>1, <1>2 DEF NextView, Whom
<1>5. NotMoreInformed(c, ch)
  BY NoListReceived DEF Concerns
<1> QED
  BY <1>3, <1>4, <1>5

(* Somebody goes, and whoever has it in its list is told.                  *)
LEMMA ViewThinned ==
    ASSUME NEW c \in Conns, NEW ch \in Chans, NEW n, ViewStep,
           view[c][ch] # {} => Connected(c)',
           n # NameOf(c),
           \A m \in told' : m.to = c => m.kind \in {"QUIT", "PART", "KICK"},
           \A m \in told' : m.to = c /\ Concerns(m, ch) => m.who = n,
           n \in view[c][ch] => \E m \in told' : m.to = c /\ Concerns(m, ch)
    PROVE  view'[c][ch] = view[c][ch] \ {n} /\ NotMoreInformed(c, ch)
<1> DEFINE gone == Whom(About(Inbox(c, {"PART", "KICK"}), ch) \cup Inbox(c, {"QUIT"}))
<1>1. /\ About(Inbox(c, {"JOIN"}), ch) = {}
      /\ About(Inbox(c, {"NAMES"}), ch) = {}
  BY DEF About, Inbox
<1>2. \A names : Relabelled(c, names) = names
  BY NobodyRenamed
<1>3. gone \subseteq {n}
  BY DEF Whom, About, Inbox, Concerns
<1>4. n \in view[c][ch] => n \in gone
  BY DEF Whom, About, Inbox, Concerns
<1>5. view'[c][ch] = NextView(c, ch)
  BY DEF ViewStep
<1>6. NextView(c, ch) = IF ~Connected(c)' \/ NameOf(c) \in gone \/ view[c][ch] = {}
                        THEN {} ELSE view[c][ch] \ gone
  BY <1>1, <1>2 DEF NextView, Whom
<1>7. NextView(c, ch) = view[c][ch] \ {n}
  <2> HIDE DEF gone
  <2> QED
    BY <1>3, <1>4, <1>6
<1>8. NotMoreInformed(c, ch)
  BY NoListReceived
<1> QED
  BY <1>5, <1>7, <1>8

(* A client is told that it is out itself.                                 *)
LEMMA ViewClosed ==
    ASSUME NEW c \in Conns, NEW ch \in Chans, ViewStep,
           \E m \in told' : /\ m.to = c /\ m.who = NameOf(c)
                            /\ m.kind \in {"PART", "KICK"} /\ ch \in m.where
    PROVE  view'[c][ch] = {} /\ NotMoreInformed(c, ch)
<1>1. NameOf(c) \in Whom(About(Inbox(c, {"PART", "KICK"}), ch)
                            \cup Inbox(c, {"QUIT"}))
  BY DEF Whom, About, Inbox
<1>2. view'[c][ch] = {}
  BY <1>1 DEF ViewStep, NextView
<1>3. ch \notin informed'[c]
  BY <1>2 DEF ViewStep, NextInformed
<1> QED
  BY <1>2, <1>3 DEF NotMoreInformed

(* A list of a client that is not connected is empty.                      *)
LEMMA ViewLost ==
    ASSUME NEW c \in Conns, NEW ch \in Chans, ViewStep, ~Connected(c)'
    PROVE  view'[c][ch] = {} /\ NotMoreInformed(c, ch)
<1>1. view'[c][ch] = {}
  BY DEF ViewStep, NextView
<1>2. ch \notin informed'[c]
  BY <1>1 DEF ViewStep, NextInformed
<1> QED
  BY <1>1, <1>2 DEF NotMoreInformed

(* Somebody comes, if only the client itself.                              *)
LEMMA ViewGained ==
    ASSUME NEW c \in Conns, NEW ch \in Chans, NEW n, ViewStep, Connected(c)',
           view[c][ch] # {} \/ n = NameOf(c),
           \A m \in told' : m.to = c => m.kind = "JOIN",
           \A m \in told' : m.to = c /\ ch \in m.where => m.who = n,
           \E m \in told' : m.to = c /\ ch \in m.where
    PROVE  view'[c][ch] = view[c][ch] \cup {n} /\ NotMoreInformed(c, ch)
<1>1. /\ About(Inbox(c, {"PART", "KICK"}), ch) = {}
      /\ Inbox(c, {"QUIT"}) = {}
      /\ About(Inbox(c, {"NAMES"}), ch) = {}
  BY DEF About, Inbox
<1>2. \A names : Relabelled(c, names) = names
  BY NobodyRenamed
<1>3. Whom(About(Inbox(c, {"JOIN"}), ch)) = {n}
  BY DEF Whom, About, Inbox
<1>4. view'[c][ch] = NextView(c, ch)
  BY DEF ViewStep
<1>5. Whom({} \cup {}) = {}
  BY DEF Whom
<1> DEFINE come == Whom(About(Inbox(c, {"JOIN"}), ch))
           gone == Whom(About(Inbox(c, {"PART", "KICK"}), ch) \cup Inbox(c, {"QUIT"}))
           listing == UNION {m.names : m \in About(Inbox(c, {"NAMES"}), ch)}
<1>6. NextView(c, ch) = view[c][ch] \cup {n}
  <2>1. NextView(c, ch) =
           IF ~Connected(c)' \/ NameOf(c) \in gone \/ (view[c][ch] = {} /\ NameOf(c) \notin come)
           THEN {} ELSE Relabelled(c, ((view[c][ch] \ gone) \cup come) \cup listing)
    BY DEF NextView
  <2>2. come = {n} /\ gone = {} /\ listing = {}
    BY <1>1, <1>3, <1>5
  <2> HIDE DEF come, gone, listing
  <2> QED
    BY <1>2, <2>1, <2>2
<1>7. NotMoreInformed(c, ch)
  BY NoListReceived
<1> QED
  BY <1>4, <1>6, <1>7

(* The list of the channel is sent.                                        *)
LEMMA ViewListed ==
    ASSUME NEW c \in Conns, NEW ch \in Chans, NEW names, ViewStep,
           view[c][ch] # {} => Connected(c)',
           view[c][ch] \subseteq names,
           \A m \in told' : m.to = c => m.kind = "NAMES",
           \A m \in told' : m.to = c /\ ch \in m.where => m.names = names,
           \E m \in told' : m.to = c /\ ch \in m.where
    PROVE  /\ view[c][ch] = {} => view'[c][ch] = {} /\ NotMoreInformed(c, ch)
           /\ view[c][ch] # {} => view'[c][ch] = names
<1>1. /\ About(Inbox(c, {"PART", "KICK"}), ch) = {}
      /\ Inbox(c, {"QUIT"}) = {}
      /\ About(Inbox(c, {"JOIN"}), ch) = {}
  BY DEF About, Inbox
<1>2. \A some : Relabelled(c, some) = some
  BY NobodyRenamed
<1>3. UNION {m.names : m \in About(Inbox(c, {"NAMES"}), ch)} = names
  BY DEF About, Inbox
<1>4. view'[c][ch] = NextView(c, ch)
  BY DEF ViewStep
<1>5. Whom({}) = {} /\ Whom({} \cup {}) = {}
  BY DEF Whom
<1>6. NextView(c, ch) = IF ~Connected(c)' \/ view[c][ch] = {} THEN {} ELSE names
  BY <1>1, <1>2, <1>3, <1>5 DEF NextView
<1>7. view'[c][ch] = {} => NotMoreInformed(c, ch)
  BY DEF ViewStep, NextInformed, NotMoreInformed
<1> QED
  BY <1>4, <1>6, <1>7

(* The list with n in place of old.                                        *)
ListWith(c, ch, old, n) == {IF x = old THEN n ELSE x : x \in view[c][ch]}

(* Somebody has another name, and whoever has it in its list is told.      *)
LEMMA ViewRelabelled ==
    ASSUME NEW c \in Conns, NEW ch \in Chans, NEW old, NEW n, ViewStep,
           view[c][ch] # {} => Connected(c)',
           \A m \in told' : m.to = c => m.kind = "NICK" /\ m.who = old /\ m.names = {n},
           old \in view[c][ch] => \E m \in told' : m.to = c
    PROVE  /\ view'[c][ch] = ListWith(c, ch, old, n)
           /\ NotMoreInformed(c, ch)
<1>1. /\ About(Inbox(c, {"PART", "KICK"}), ch) = {}
      /\ Inbox(c, {"QUIT"}) = {}
      /\ About(Inbox(c, {"JOIN"}), ch) = {}
      /\ About(Inbox(c, {"NAMES"}), ch) = {}
  BY DEF About, Inbox
<1> DEFINE now(x) == {m \in Inbox(c, {"NICK"}) : m.who = x}
           label(x) == IF now(x) = {} THEN {x} ELSE UNION {m.names : m \in now(x)}
<1>2. \A x \in view[c][ch] : label(x) = {IF x = old THEN n ELSE x}
  <2> TAKE x \in view[c][ch]
  <2>1. CASE x # old
    <3>1. now(x) = {}
      BY <2>1 DEF Inbox
    <3> QED
      BY <2>1, <3>1
  <2>2. CASE x = old
    <3>1. now(x) # {} /\ \A m \in now(x) : m.names = {n}
      BY <2>2 DEF Inbox
    <3> HIDE DEF now
    <3>2. UNION {m.names : m \in now(x)} = {n}
      BY <3>1
    <3> QED
      BY <2>2, <3>1, <3>2
  <2> QED
    BY <2>1, <2>2
<1>3. Relabelled(c, view[c][ch]) = UNION {label(x) : x \in view[c][ch]}
  BY DEF Relabelled
<1>4. Relabelled(c, view[c][ch]) = {IF x = old THEN n ELSE x : x \in view[c][ch]}
  <2> HIDE DEF label
  <2> QED
    BY <1>2, <1>3
<1>5. view'[c][ch] = NextView(c, ch)
  BY DEF ViewStep
<1>6. Whom({}) = {} /\ Whom({} \cup {}) = {}
  BY DEF Whom
<1>7. NextView(c, ch) = IF ~Connected(c)' \/ view[c][ch] = {} THEN {}
                        ELSE Relabelled(c, view[c][ch])
  <2>1. ((view[c][ch] \ {}) \cup {}) \cup UNION {} = view[c][ch]
    OBVIOUS
  <2>2. UNION {m.names : m \in {}} = {}
    OBVIOUS
  <2> QED
    BY <1>1, <1>6, <2>1, <2>2 DEF NextView
<1>8. NotMoreInformed(c, ch)
  BY NoListReceived
<1>9. view'[c][ch] = ListWith(c, ch, old, n)
  BY <1>4, <1>5, <1>7 DEF ListWith
<1> QED
  BY <1>8, <1>9

-----------------------------------------------------------------------------
(* The lists and the rooms                                                 *)

(* Of two clients in a room one has the other in its list.                 *)
Acquainted ==
    \A ch \in Chans : \A c, d \in RoomOf(ch) :
        NameOf(d) \in view[c][ch] \/ NameOf(c) \in view[d][ch]

LEMMA RoomFacts ==
    ASSUME IInv, NEW ch, NEW c \in RoomOf(ch)
    PROVE  /\ c \in DOMAIN users /\ c \in Conns
           /\ NameOf(c) = users[c].nick /\ NameOf(c) \in Nicks /\ NameOf(c) # NoNick
           /\ \A d \in Conns : NameOf(d) = NameOf(c) => d = c
<1>1. PICK m \in DOMAIN channels[ch].users :
         ch \in DOMAIN channels /\ c = channels[ch].users[m]
  BY DEF RoomOf
<1>2. c \in DOMAIN users /\ users[c].nick = m /\ m \in Nicks
  BY <1>1 DEF IInv, ChannelsInv, MembersLive, IsChannel
<1>3. m # NoNick
  BY <1>2, NamesAssumption DEF NoNick
<1> QED
  BY <1>2, <1>3, UsersAreConns DEF NameOf, IInv, UsersInv, NickUnique

(* The nicknames on a channel are those of the clients in the room.        *)
LEMMA MembersAreNamed ==
    IInv => \A ch \in Chans : Members(ch) = {NameOf(c) : c \in RoomOf(ch)}
<1> SUFFICES ASSUME IInv, NEW ch \in Chans
             PROVE  Members(ch) = {NameOf(c) : c \in RoomOf(ch)}
  OBVIOUS
<1>1. CASE ch \notin DOMAIN channels
  BY <1>1 DEF Members, RoomOf
<1>2. CASE ch \in DOMAIN channels
  <2> DEFINE entries == channels[ch].users
  <2>1. \A m \in DOMAIN entries : entries[m] \in DOMAIN users /\ users[entries[m]].nick = m
    BY <1>2 DEF IInv, ChannelsInv, MembersLive
  <2>2. \A m \in DOMAIN entries : NameOf(entries[m]) = m
    BY <2>1 DEF NameOf
  <2>3. /\ RoomOf(ch) = {entries[m] : m \in DOMAIN entries}
        /\ Members(ch) = DOMAIN entries
    BY <1>2 DEF RoomOf, Members
  <2> HIDE DEF entries
  <2> QED
    BY <2>2, <2>3
<1> QED
  BY <1>1, <1>2

LEMMA MembersNamedNext ==
    IInv' => \A ch \in Chans : Members(ch)' = {NameOf(c)' : c \in RoomOf(ch)'}
<1>1. (IInv => \A ch \in Chans : Members(ch) = {NameOf(c) : c \in RoomOf(ch)})'
  BY MembersAreNamed, PTL
<1> QED
  BY <1>1

(* The invariants of the lists, client by client.                          *)
ListIs(c, ch) ==
    /\ c \notin RoomOf(ch) => view[c][ch] = {}
    /\ c \in RoomOf(ch) => NameOf(c) \in view[c][ch]
    /\ view[c][ch] \subseteq Members(ch)
    /\ ch \in informed[c] => c \in RoomOf(ch) /\ view[c][ch] = Members(ch)

(* Nobody moves: a list stays as it is, or it is the list of the channel.  *)
LEMMA RoomsKeptLists ==
    ASSUME IInv, IInv', ViewsInv, Acquainted,
           RoomsKept, \A c \in Conns : NameOf(c)' = NameOf(c),
           \A c \in Conns, ch \in Chans :
              \/ view'[c][ch] = view[c][ch] /\ NotMoreInformed(c, ch)
              \/ c \in RoomOf(ch) /\ view'[c][ch] = Members(ch)
    PROVE  ViewsInv' /\ Acquainted'
<1>1. \A ch \in Chans : RoomOf(ch)' = RoomOf(ch) /\ RoomOf(ch) \subseteq Conns
  BY RoomFacts DEF RoomsKept
<1>2. \A ch \in Chans : Members(ch)' = Members(ch)
  BY <1>1, MembersAreNamed, MembersNamedNext
<1>3. \A ch \in Chans : \A c \in RoomOf(ch) : NameOf(c) \in Members(ch)
  BY MembersAreNamed
<1>4. ViewsInv'
  <2> SUFFICES ASSUME NEW c \in Conns, NEW ch \in Chans PROVE ListIs(c, ch)'
    BY DEF ViewsInv, ListIs
  <2>1. ListIs(c, ch)
    BY DEF ViewsInv, ListIs
  <2> QED
    BY <1>1, <1>2, <1>3, <2>1 DEF ListIs, NotMoreInformed
<1>5. Acquainted'
  <2> SUFFICES ASSUME NEW ch \in Chans, NEW c \in RoomOf(ch)', NEW d \in RoomOf(ch)'
               PROVE  NameOf(d)' \in view'[c][ch] \/ NameOf(c)' \in view'[d][ch]
    BY DEF Acquainted
  <2>1. /\ c \in Conns /\ d \in Conns /\ c \in RoomOf(ch) /\ d \in RoomOf(ch)
        /\ NameOf(c)' = NameOf(c) /\ NameOf(d)' = NameOf(d)
    BY <1>1
  <2>2. NameOf(d) \in view[c][ch] \/ NameOf(c) \in view[d][ch]
    BY <2>1 DEF Acquainted
  <2>3. view[c][ch] \subseteq view'[c][ch] /\ view[d][ch] \subseteq view'[d][ch]
    BY <2>1 DEF ViewsInv
  <2> QED
    BY <2>1, <2>2, <2>3
<1> QED
  BY <1>4, <1>5

(* Client v is out of the rooms S, and off the lists.                      *)
LEMMA RoomsLeftLists ==
    ASSUME IInv, IInv', ViewsInv, Acquainted,
           NEW v \in Conns, NEW S \in SUBSET Chans, RoomsLeft(v, S),
           \A c \in Conns \ {v} : NameOf(c)' = NameOf(c),
           NameOf(v)' = NameOf(v) \/ S = Chans,
           \A c \in Conns, ch \in Chans :
              /\ view'[c][ch] = IF ch \in S
                                THEN IF c = v THEN {} ELSE view[c][ch] \ {NameOf(v)}
                                ELSE view[c][ch]
              /\ NotMoreInformed(c, ch)
    PROVE  ViewsInv' /\ Acquainted'
<1>1. \A ch \in Chans :
         /\ RoomOf(ch)' = IF ch \in S THEN RoomOf(ch) \ {v} ELSE RoomOf(ch)
         /\ RoomOf(ch) \subseteq Conns
  BY RoomFacts DEF RoomsLeft
<1>2. \A ch \in Chans : \A c \in RoomOf(ch)' : c \in RoomOf(ch) /\ NameOf(c)' = NameOf(c)
  BY <1>1
<1>3. \A ch \in Chans : \A c \in RoomOf(ch) : c # v => NameOf(c) # NameOf(v)
  BY RoomFacts
<1>4. \A ch \in Chans :
         Members(ch)' = IF ch \in S THEN Members(ch) \ {NameOf(v)} ELSE Members(ch)
  <2> TAKE ch \in Chans
  <2>1. Members(ch)' = {NameOf(c) : c \in RoomOf(ch)'}
    BY <1>2, MembersNamedNext
  <2>2. Members(ch) = {NameOf(c) : c \in RoomOf(ch)}
    BY MembersAreNamed
  <2>3. CASE ch \in S
    <3>1. RoomOf(ch)' = RoomOf(ch) \ {v}
      BY <1>1, <2>3
    <3>2. {NameOf(c) : c \in RoomOf(ch) \ {v}} = {NameOf(c) : c \in RoomOf(ch)} \ {NameOf(v)}
      BY <1>3
    <3> QED
      BY <2>1, <2>2, <2>3, <3>1, <3>2
  <2>4. CASE ch \notin S
    BY <1>1, <2>1, <2>2, <2>4
  <2> QED
    BY <2>3, <2>4
<1>5. ViewsInv'
  <2> SUFFICES ASSUME NEW c \in Conns, NEW ch \in Chans PROVE ListIs(c, ch)'
    BY DEF ViewsInv, ListIs
  <2>1. ListIs(c, ch)
    BY DEF ViewsInv, ListIs
  <2>2. c \in RoomOf(ch) /\ c # v => NameOf(c) # NameOf(v)
    BY <1>3
  <2>3. /\ view'[c][ch] = IF ch \in S
                          THEN IF c = v THEN {} ELSE view[c][ch] \ {NameOf(v)}
                          ELSE view[c][ch]
        /\ NotMoreInformed(c, ch)
    OBVIOUS
  <2>4. /\ RoomOf(ch)' = IF ch \in S THEN RoomOf(ch) \ {v} ELSE RoomOf(ch)
        /\ Members(ch)' = IF ch \in S THEN Members(ch) \ {NameOf(v)} ELSE Members(ch)
        /\ c \in RoomOf(ch)' => NameOf(c)' = NameOf(c)
    BY <1>1, <1>2, <1>4
  <2>5. c \notin RoomOf(ch)' => view'[c][ch] = {}
    BY <2>1, <2>2, <2>3, <2>4 DEF ListIs
  <2>6. c \in RoomOf(ch)' => NameOf(c)' \in view'[c][ch]
    BY <2>1, <2>2, <2>3, <2>4 DEF ListIs
  <2>7. view'[c][ch] \subseteq Members(ch)'
    BY <2>1, <2>2, <2>3, <2>4 DEF ListIs
  <2>8. ch \in informed'[c] => c \in RoomOf(ch)' /\ view'[c][ch] = Members(ch)'
    BY <2>1, <2>2, <2>3, <2>4 DEF ListIs, NotMoreInformed
  <2> QED
    BY <2>5, <2>6, <2>7, <2>8 DEF ListIs
<1>6. Acquainted'
  <2> SUFFICES ASSUME NEW ch \in Chans, NEW c \in RoomOf(ch)', NEW d \in RoomOf(ch)'
               PROVE  NameOf(d)' \in view'[c][ch] \/ NameOf(c)' \in view'[d][ch]
    BY DEF Acquainted
  <2>1. /\ c \in Conns /\ d \in Conns /\ c \in RoomOf(ch) /\ d \in RoomOf(ch)
        /\ NameOf(c)' = NameOf(c) /\ NameOf(d)' = NameOf(d)
    BY <1>1, <1>2
  <2>2. NameOf(d) \in view[c][ch] \/ NameOf(c) \in view[d][ch]
    BY <2>1 DEF Acquainted
  <2>3. ch \in S => c # v /\ d # v /\ NameOf(c) # NameOf(v) /\ NameOf(d) # NameOf(v)
    BY <1>1, <1>3, <2>1
  <2>4. \A x \in {c, d} :
           view'[x][ch] = IF ch \in S
                          THEN IF x = v THEN {} ELSE view[x][ch] \ {NameOf(v)}
                          ELSE view[x][ch]
    BY <2>1
  <2> QED
    BY <2>1, <2>2, <2>3, <2>4
<1> QED
  BY <1>5, <1>6

(* Client u has another name, in the rooms and on the lists.               *)
LEMMA RenamedLists ==
    ASSUME IInv, IInv', ViewsInv, Acquainted, RoomsKept,
           NEW u \in Conns, NEW n,
           \A c \in Conns : NameOf(c)' = IF c = u THEN n ELSE NameOf(c),
           \A c \in Conns, ch \in Chans :
              /\ view'[c][ch] = {IF x = NameOf(u) THEN n ELSE x : x \in view[c][ch]}
              /\ NotMoreInformed(c, ch)
    PROVE  ViewsInv' /\ Acquainted'
<1> DEFINE label(x) == IF x = NameOf(u) THEN n ELSE x
<1>1. \A ch \in Chans : RoomOf(ch)' = RoomOf(ch) /\ RoomOf(ch) \subseteq Conns
  BY RoomFacts DEF RoomsKept
<1>2. \A ch \in Chans : \A c \in RoomOf(ch) : NameOf(c)' = label(NameOf(c))
  <2> TAKE ch \in Chans
  <2> TAKE c \in RoomOf(ch)
  <2>1. c # u => NameOf(c) # NameOf(u)
    BY RoomFacts
  <2> QED
    BY <1>1, <2>1
<1>3. \A c \in Conns, ch \in Chans : view'[c][ch] = {label(x) : x \in view[c][ch]}
  OBVIOUS
<1> HIDE DEF label
<1>4. \A ch \in Chans : Members(ch)' = {label(x) : x \in Members(ch)}
  <2> TAKE ch \in Chans
  <2>1. Members(ch)' = {label(NameOf(c)) : c \in RoomOf(ch)}
    BY <1>1, <1>2, MembersNamedNext
  <2>2. Members(ch) = {NameOf(c) : c \in RoomOf(ch)}
    BY MembersAreNamed
  <2> QED
    BY <2>1, <2>2
<1>5. ViewsInv'
  <2> SUFFICES ASSUME NEW c \in Conns, NEW ch \in Chans PROVE ListIs(c, ch)'
    BY DEF ViewsInv, ListIs
  <2>1. ListIs(c, ch)
    BY DEF ViewsInv, ListIs
  <2>2. c \in RoomOf(ch) => NameOf(c)' = label(NameOf(c))
    BY <1>2
  <2>3. view'[c][ch] = {label(x) : x \in view[c][ch]} /\ NotMoreInformed(c, ch)
    BY <1>3
  <2>4. /\ RoomOf(ch)' = RoomOf(ch)
        /\ Members(ch)' = {label(x) : x \in Members(ch)}
    BY <1>1, <1>4
  <2>5. c \notin RoomOf(ch)' => view'[c][ch] = {}
    BY <2>1, <2>2, <2>3, <2>4 DEF ListIs
  <2>6. c \in RoomOf(ch)' => NameOf(c)' \in view'[c][ch]
    BY <2>1, <2>2, <2>3, <2>4 DEF ListIs
  <2>7. view'[c][ch] \subseteq Members(ch)'
    BY <2>1, <2>2, <2>3, <2>4 DEF ListIs
  <2>8. ch \in informed'[c] => c \in RoomOf(ch)' /\ view'[c][ch] = Members(ch)'
    BY <2>1, <2>2, <2>3, <2>4 DEF ListIs, NotMoreInformed
  <2> QED
    BY <2>5, <2>6, <2>7, <2>8 DEF ListIs
<1>6. Acquainted'
  <2> SUFFICES ASSUME NEW ch \in Chans, NEW c \in RoomOf(ch)', NEW d \in RoomOf(ch)'
               PROVE  NameOf(d)' \in view'[c][ch] \/ NameOf(c)' \in view'[d][ch]
    BY DEF Acquainted
  <2>1. /\ c \in Conns /\ d \in Conns /\ c \in RoomOf(ch) /\ d \in RoomOf(ch)
        /\ NameOf(c)' = label(NameOf(c)) /\ NameOf(d)' = label(NameOf(d))
    BY <1>1, <1>2
  <2>2. NameOf(d) \in view[c][ch] \/ NameOf(c) \in view[d][ch]
    BY <2>1 DEF Acquainted
  <2> QED
    BY <1>3, <2>1, <2>2
<1> QED
  BY <1>5, <1>6

(* Client u is in room r too, and everybody there has it on its list.      *)
LEMMA EnteredLists ==
    ASSUME IInv, IInv', ViewsInv, Acquainted,
           NEW u \in Conns, NEW r \in Chans, u \notin RoomOf(r),
           \A c \in Conns : NameOf(c)' = NameOf(c),
           \A ch \in Chans :
              RoomOf(ch)' = IF ch = r THEN RoomOf(ch) \cup {u} ELSE RoomOf(ch),
           \A c \in Conns, ch \in Chans :
              /\ view'[c][ch] = IF ch = r /\ c \in RoomOf(r) \cup {u}
                                THEN view[c][ch] \cup {NameOf(u)} ELSE view[c][ch]
              /\ NotMoreInformed(c, ch)
    PROVE  ViewsInv' /\ Acquainted'
<1>1. \A ch \in Chans : RoomOf(ch)' \subseteq Conns /\ RoomOf(ch) \subseteq Conns
  BY RoomFacts
<1>2. \A ch \in Chans :
         Members(ch)' = IF ch = r THEN Members(ch) \cup {NameOf(u)} ELSE Members(ch)
  <2> TAKE ch \in Chans
  <2>1. Members(ch)' = {NameOf(c) : c \in RoomOf(ch)'}
    BY <1>1, MembersNamedNext
  <2>2. Members(ch) = {NameOf(c) : c \in RoomOf(ch)}
    BY MembersAreNamed
  <2> QED
    BY <2>1, <2>2
<1>3. ViewsInv'
  <2> SUFFICES ASSUME NEW c \in Conns, NEW ch \in Chans PROVE ListIs(c, ch)'
    BY DEF ViewsInv, ListIs
  <2>1. ListIs(c, ch)
    BY DEF ViewsInv, ListIs
  <2>2. /\ view'[c][ch] = IF ch = r /\ c \in RoomOf(r) \cup {u}
                          THEN view[c][ch] \cup {NameOf(u)} ELSE view[c][ch]
        /\ NotMoreInformed(c, ch)
    OBVIOUS
  <2>3. /\ RoomOf(ch)' = IF ch = r THEN RoomOf(ch) \cup {u} ELSE RoomOf(ch)
        /\ NameOf(c)' = NameOf(c)
    OBVIOUS
  <2>4. Members(ch)' = IF ch = r THEN Members(ch) \cup {NameOf(u)} ELSE Members(ch)
    BY <1>2
  <2>5. c \notin RoomOf(ch)' => view'[c][ch] = {}
    BY <2>1, <2>2, <2>3, <2>4 DEF ListIs
  <2>6. c \in RoomOf(ch)' => NameOf(c)' \in view'[c][ch]
    BY <2>1, <2>2, <2>3, <2>4 DEF ListIs
  <2>7. view'[c][ch] \subseteq Members(ch)'
    BY <2>1, <2>2, <2>3, <2>4 DEF ListIs
  <2>8. ch \in informed'[c] => c \in RoomOf(ch)' /\ view'[c][ch] = Members(ch)'
    BY <2>1, <2>2, <2>3, <2>4 DEF ListIs, NotMoreInformed
  <2> QED
    BY <2>5, <2>6, <2>7, <2>8 DEF ListIs
<1>4. Acquainted'
  <2> SUFFICES ASSUME NEW ch \in Chans, NEW c \in RoomOf(ch)', NEW d \in RoomOf(ch)'
               PROVE  NameOf(d)' \in view'[c][ch] \/ NameOf(c)' \in view'[d][ch]
    BY DEF Acquainted
  <2>1. /\ c \in Conns /\ d \in Conns
        /\ NameOf(c)' = NameOf(c) /\ NameOf(d)' = NameOf(d)
    BY <1>1
  <2>2. c \in RoomOf(ch) /\ d \in RoomOf(ch) =>
           NameOf(d) \in view[c][ch] \/ NameOf(c) \in view[d][ch]
    BY DEF Acquainted
  <2>3. ch = r /\ d = u => NameOf(d) \in view'[c][ch]
    BY <2>1
  <2>4. ch = r /\ c = u => NameOf(c) \in view'[d][ch]
    BY <2>1
  <2>5. view[c][ch] \subseteq view'[c][ch] /\ view[d][ch] \subseteq view'[d][ch]
    BY <2>1
  <2> QED
    BY <2>1, <2>2, <2>3, <2>4, <2>5
<1> QED
  BY <1>3, <1>4

-----------------------------------------------------------------------------
(* What the steps do to the lists                                          *)

ListsGood == IInv /\ SocketOwned /\ ViewsInv /\ Acquainted

(* The next state, apart from what is to be shown of it.                   *)
ListsStep == IInv' /\ SocketOwned' /\ ViewStep

Still == RoomsKept /\ \A c \in Conns : NameOf(c)' = NameOf(c)

LEMMA ConnectedNext ==
    ASSUME IInv', SocketOwned', NEW c \in Conns
    PROVE  Connected(c)' <=> c \in DOMAIN users'
<1>1. \A fd \in Fds : peer'[fd] = c => c \in DOMAIN users'
  BY DEF SocketOwned, Conns, NoConn
<1>2. c \in DOMAIN users' => users'[c].sock \in Fds /\ peer'[users'[c].sock] = c
  BY DEF SocketOwned, IInv, UsersInv, User
<1> QED
  BY <1>1, <1>2 DEF Connected

LEMMA StaysConnected ==
    ASSUME IInv, ListsStep, NEW c \in Conns, NEW ch, c \in RoomOf(ch),
           NameOf(c)' # NoNick
    PROVE  Connected(c)'
<1>1. c \in DOMAIN users'
  BY DEF NameOf
<1> QED
  BY <1>1, ConnectedNext DEF ListsStep

(* Whose list somebody is on is in a room with it.                         *)
LEMMA ListedTogether ==
    ASSUME IInv, ViewsInv, NEW c \in Conns, NEW ch \in Chans, NEW v \in Conns,
           NameOf(v) \in view[c][ch]
    PROVE  c \in RoomOf(ch) /\ v \in RoomOf(ch)
<1>1. c \in RoomOf(ch) /\ NameOf(v) \in Members(ch)
  BY DEF ViewsInv
<1>2. PICK d \in RoomOf(ch) : NameOf(v) = NameOf(d)
  BY <1>1, MembersAreNamed
<1> QED
  BY <1>1, <1>2, RoomFacts

(* Nobody moves and nobody is told anything about channels.                *)
LEMMA StillLists ==
    ASSUME ListsGood, ListsStep, Still,
           \A m \in told' :
              m.kind \notin {"JOIN", "PART", "KICK", "NICK", "QUIT", "NAMES"}
    PROVE  ViewsInv' /\ Acquainted'
<1>1. ASSUME NEW c \in Conns, NEW ch \in Chans
      PROVE  view'[c][ch] = view[c][ch] /\ NotMoreInformed(c, ch)
  <2>1. view[c][ch] # {} => Connected(c)'
    <3> SUFFICES ASSUME view[c][ch] # {} PROVE Connected(c)'
      OBVIOUS
    <3>1. c \in RoomOf(ch)
      BY DEF ListsGood, ViewsInv
    <3>2. NameOf(c)' # NoNick
      BY <3>1, RoomFacts DEF ListsGood, Still
    <3> QED
      BY <3>1, <3>2, StaysConnected DEF ListsGood
  <2> QED
    BY <2>1, ViewKept DEF ListsStep, Concerns
<1> QED
  BY <1>1, RoomsKeptLists DEF ListsGood, ListsStep, Still

(* A client asks for the lists of some channels.                           *)
LEMMA NamesLists ==
    ASSUME ListsGood, ListsStep, Still, NEW u \in DOMAIN users, NEW S,
           told' = NamesMessages(u, S)
    PROVE  ViewsInv' /\ Acquainted'
<1>1. ASSUME NEW ch \in DOMAIN channels
      PROVE  {users[c].nick : c \in ToChannel(ch, NoNick)} = Members(ch)
  <2>1. /\ ToChannel(ch, NoNick) = {c \in RoomOf(ch) : NameOf(c) # NoNick}
        /\ ch \in Chans
    BY ToChannelIsRoom DEF ListsGood, IInv, ChannelsInv
  <2>2. \A c \in RoomOf(ch) : NameOf(c) = users[c].nick /\ NameOf(c) # NoNick
    BY RoomFacts DEF ListsGood
  <2>3. Members(ch) = {NameOf(c) : c \in RoomOf(ch)}
    BY <2>1, MembersAreNamed DEF ListsGood
  <2> QED
    BY <2>1, <2>2, <2>3
<1>2. ASSUME NEW m \in told'
      PROVE  /\ m.kind = "NAMES" /\ m.to = u
             /\ \E ch \in S \cap DOMAIN channels : m.where = {ch} /\ m.names = Members(ch)
  <2>1. PICK ch \in S \cap DOMAIN channels : m \in Tell({u}, "NAMES", NoNick, {ch}, Members(ch))
    BY <1>1 DEF NamesMessages
  <2> QED
    BY <2>1, TellToThem DEF ListsGood
<1>3. ASSUME NEW ch \in S \cap DOMAIN channels
      PROVE  \E m \in told' : m.to = u /\ ch \in m.where
  <2>1. Tell({u}, "NAMES", NoNick, {ch}, Members(ch)) \subseteq told'
    BY <1>1 DEF NamesMessages
  <2>2. \E m \in Tell({u}, "NAMES", NoNick, {ch}, Members(ch)) : m.to = u /\ m.where = {ch}
    BY TellReaches DEF ListsGood
  <2> QED
    BY <2>1, <2>2
<1>4. ASSUME NEW c \in Conns, NEW ch \in Chans
      PROVE  \/ view'[c][ch] = view[c][ch] /\ NotMoreInformed(c, ch)
             \/ c \in RoomOf(ch) /\ view'[c][ch] = Members(ch)
  <2>1. view[c][ch] # {} => c \in RoomOf(ch) /\ Connected(c)'
    <3> SUFFICES ASSUME view[c][ch] # {} PROVE c \in RoomOf(ch) /\ Connected(c)'
      OBVIOUS
    <3>1. c \in RoomOf(ch)
      BY DEF ListsGood, ViewsInv
    <3>2. NameOf(c)' # NoNick
      BY <3>1, RoomFacts DEF ListsGood, Still
    <3> QED
      BY <3>1, <3>2, StaysConnected DEF ListsGood
  <2>2. CASE c = u /\ ch \in S \cap DOMAIN channels
    <3>1. view[c][ch] \subseteq Members(ch)
      BY DEF ListsGood, ViewsInv
    <3>2. PICK names : names = Members(ch)
      OBVIOUS
    <3>3. \A m \in told' : m.to = c => m.kind = "NAMES"
      BY <1>2
    <3>4. \A m \in told' : m.to = c /\ ch \in m.where => m.names = names
      BY <1>2, <3>2
    <3>5. \E m \in told' : m.to = c /\ ch \in m.where
      BY <1>3, <2>2
    <3>6. /\ view[c][ch] = {} => view'[c][ch] = {} /\ NotMoreInformed(c, ch)
          /\ view[c][ch] # {} => view'[c][ch] = names
      BY <2>1, <3>1, <3>2, <3>3, <3>4, <3>5, ViewListed DEF ListsStep
    <3> QED
      BY <2>1, <3>2, <3>6
  <2>3. CASE ~(c = u /\ ch \in S \cap DOMAIN channels)
    <3>1. \A m \in told' : m.to = c => ~Concerns(m, ch)
      BY <1>2, <2>3 DEF Concerns
    <3> QED
      BY <2>1, <3>1, ViewKept DEF ListsStep
  <2> QED
    BY <2>2, <2>3
<1> QED
  BY <1>4, RoomsKeptLists DEF ListsGood, ListsStep, Still

(* Client v is out of some rooms, and everybody there is told, itself      *)
(* included.                                                               *)
LEMMA OutLists ==
    ASSUME ListsGood, ListsStep, NEW v \in Conns, NEW S \in SUBSET Chans,
           RoomsLeft(v, S), \A c \in Conns : NameOf(c)' = NameOf(c),
           NameOf(v) # NoNick,
           \A m \in told' :
              /\ m.kind \in {"PART", "KICK"} /\ m.who = NameOf(v)
              /\ \E x \in S : v \in RoomOf(x) /\ m.where = {x} /\ m.to \in RoomOf(x),
           \A x \in S : v \in RoomOf(x) => \A c \in RoomOf(x) :
              \E m \in told' : m.to = c /\ m.where = {x}
    PROVE  ViewsInv' /\ Acquainted'
<1>1. ASSUME NEW c \in Conns, NEW ch \in Chans
      PROVE  /\ view'[c][ch] = IF ch \in S
                               THEN IF c = v THEN {} ELSE view[c][ch] \ {NameOf(v)}
                               ELSE view[c][ch]
             /\ NotMoreInformed(c, ch)
  <2>1. view[c][ch] # {} => c \in RoomOf(ch) /\ Connected(c)'
    <3> SUFFICES ASSUME view[c][ch] # {} PROVE c \in RoomOf(ch) /\ Connected(c)'
      OBVIOUS
    <3>1. c \in RoomOf(ch)
      BY DEF ListsGood, ViewsInv
    <3>2. NameOf(c)' # NoNick
      BY <3>1, RoomFacts DEF ListsGood
    <3> QED
      BY <3>1, <3>2, StaysConnected DEF ListsGood
  <2>2. CASE ch \notin S \/ (c = v /\ v \notin RoomOf(ch))
    <3>1. \A m \in told' : m.to = c => ~Concerns(m, ch)
      BY <2>2 DEF Concerns
    <3>2. view'[c][ch] = view[c][ch] /\ NotMoreInformed(c, ch)
      BY <2>1, <3>1, ViewKept DEF ListsStep
    <3>3. v \notin RoomOf(ch) => view[v][ch] = {}
      BY DEF ListsGood, ViewsInv
    <3> QED
      BY <2>2, <3>2, <3>3
  <2>3. CASE ch \in S /\ c = v /\ v \in RoomOf(ch)
    <3>1. \E m \in told' : /\ m.to = c /\ m.who = NameOf(c)
                           /\ m.kind \in {"PART", "KICK"} /\ ch \in m.where
      BY <2>3
    <3>2. view'[c][ch] = {} /\ NotMoreInformed(c, ch)
      BY <3>1, ViewClosed DEF ListsStep
    <3> QED
      BY <2>3, <3>2
  <2>4. CASE ch \in S /\ c # v
    <3>1. PICK n : n = NameOf(v)
      OBVIOUS
    <3>2. n # NameOf(c)
      <4>1. v \in DOMAIN users
        BY DEF NameOf
      <4>2. c \in DOMAIN users => users[c].nick # users[v].nick
        BY <2>4, <4>1 DEF NameOf, ListsGood, IInv, UsersInv, NickUnique
      <4> QED
        BY <3>1, <4>1, <4>2 DEF NameOf
    <3>3. n \in view[c][ch] => \E m \in told' : m.to = c /\ Concerns(m, ch)
      <4> SUFFICES ASSUME n \in view[c][ch]
                   PROVE  \E m \in told' : m.to = c /\ Concerns(m, ch)
        OBVIOUS
      <4>1. c \in RoomOf(ch) /\ v \in RoomOf(ch)
        BY <3>1, ListedTogether DEF ListsGood
      <4>2. PICK m \in told' : m.to = c /\ m.where = {ch}
        BY <2>4, <4>1
      <4> QED
        BY <4>2 DEF Concerns
    <3>4. /\ \A m \in told' : m.to = c => m.kind \in {"QUIT", "PART", "KICK"}
          /\ \A m \in told' : m.to = c /\ Concerns(m, ch) => m.who = n
      BY <3>1
    <3>5. view[c][ch] # {} => Connected(c)'
      BY <2>1
    <3>6. view'[c][ch] = view[c][ch] \ {n} /\ NotMoreInformed(c, ch)
      BY <3>2, <3>3, <3>4, <3>5, ViewThinned DEF ListsStep
    <3> QED
      BY <2>4, <3>1, <3>6
  <2> QED
    BY <2>2, <2>3, <2>4
<1>2. /\ \A c \in Conns \ {v} : NameOf(c)' = NameOf(c)
      /\ NameOf(v)' = NameOf(v) \/ S = Chans
  OBVIOUS
<1>3. IInv /\ IInv' /\ ViewsInv /\ Acquainted
  BY DEF ListsGood, ListsStep
<1> QED
  BY <1>1, <1>2, <1>3, RoomsLeftLists

(* Client u is in room r, and everybody there is told, itself included.    *)
LEMMA InLists ==
    ASSUME ListsGood, ListsStep, NEW u \in Conns, NEW r \in Chans,
           u \notin RoomOf(r), NameOf(u) # NoNick,
           \A c \in Conns : NameOf(c)' = NameOf(c),
           \A ch \in Chans :
              RoomOf(ch)' = IF ch = r THEN RoomOf(ch) \cup {u} ELSE RoomOf(ch),
           \A m \in told' :
              /\ m.kind = "JOIN" /\ m.who = NameOf(u) /\ m.where = {r}
              /\ m.to \in RoomOf(r) \cup {u},
           \A c \in RoomOf(r) \cup {u} : \E m \in told' : m.to = c
    PROVE  ViewsInv' /\ Acquainted'
<1>1. ASSUME NEW c \in Conns, NEW ch \in Chans
      PROVE  /\ view'[c][ch] = IF ch = r /\ c \in RoomOf(r) \cup {u}
                               THEN view[c][ch] \cup {NameOf(u)} ELSE view[c][ch]
             /\ NotMoreInformed(c, ch)
  <2>1. c \in RoomOf(ch) \cup {u} => Connected(c)'
    <3>1. c \in RoomOf(ch) \cup {u} => NameOf(c)' # NoNick
      BY RoomFacts DEF ListsGood
    <3>2. NameOf(c)' # NoNick => c \in DOMAIN users'
      BY DEF NameOf
    <3> QED
      BY <3>1, <3>2, ConnectedNext DEF ListsStep
  <2>2. view[c][ch] # {} => c \in RoomOf(ch)
    BY DEF ListsGood, ViewsInv
  <2>3. CASE ch = r /\ c \in RoomOf(r) \cup {u}
    <3>1. PICK n : n = NameOf(u)
      OBVIOUS
    <3>2. view[c][ch] # {} \/ n = NameOf(c)
      BY <2>3, <3>1 DEF ListsGood, ViewsInv
    <3>3. /\ \A m \in told' : m.to = c => m.kind = "JOIN"
          /\ \A m \in told' : m.to = c /\ ch \in m.where => m.who = n
          /\ \E m \in told' : m.to = c /\ ch \in m.where
      BY <2>3, <3>1
    <3>4. view'[c][ch] = view[c][ch] \cup {n} /\ NotMoreInformed(c, ch)
      BY <2>1, <2>3, <3>2, <3>3, ViewGained DEF ListsStep
    <3> QED
      BY <2>3, <3>1, <3>4
  <2>4. CASE ~(ch = r /\ c \in RoomOf(r) \cup {u})
    <3>1. \A m \in told' : m.to = c => ~Concerns(m, ch)
      BY <2>4 DEF Concerns
    <3>2. view'[c][ch] = view[c][ch] /\ NotMoreInformed(c, ch)
      BY <2>1, <2>2, <3>1, ViewKept DEF ListsStep
    <3> QED
      BY <2>4, <3>2
  <2> QED
    BY <2>3, <2>4
<1> QED
  BY <1>1, EnteredLists DEF ListsGood, ListsStep

(* The channels a client is on are told when it goes or is renamed.        *)
JoinedAreTold(q, nick) ==
    /\ ToJoinedChannels(nick) \subseteq DOMAIN users
    /\ \A ch \in Chans :
         q \in RoomOf(ch) => RoomOf(ch) \ {q} \subseteq ToJoinedChannels(nick)

LEMMA JoinedChannelsTold ==
    IInv => \A q \in Conns, nick \in Nicks : NameOf(q) = nick => JoinedAreTold(q, nick)
<1> SUFFICES ASSUME IInv, NEW q \in Conns, NEW nick \in Nicks, NameOf(q) = nick
             PROVE  JoinedAreTold(q, nick)
  OBVIOUS
<1>1. ToJoinedChannels(nick) \subseteq DOMAIN users
  BY ToChannelIsRoom DEF ToJoinedChannels, JoinedChannels
<1>2. ASSUME NEW ch \in Chans, q \in RoomOf(ch), NEW c \in RoomOf(ch) \ {q}
      PROVE  c \in ToJoinedChannels(nick)
  <2>1. ch \in DOMAIN channels
    BY <1>2 DEF RoomOf
  <2>2. NameOf(c) # nick
    BY <1>2, RoomFacts
  <2>3. c \in ToChannel(ch, nick)
    BY <1>2, <2>1, <2>2, ToChannelIsRoom
  <2>4. nick \in Members(ch)
    BY <1>2, MembersAreNamed
  <2>5. ch \in JoinedChannels(nick)
    BY <2>1, <2>4 DEF Members, JoinedChannels
  <2> QED
    BY <2>3, <2>5 DEF ToJoinedChannels
<1> QED
  BY <1>1, <1>2 DEF JoinedAreTold

LEMMA JoinedChannelsToldNext ==
    IInv' => \A q \in Conns, nick \in Nicks : NameOf(q)' = nick => JoinedAreTold(q, nick)'
<1>1. (IInv => \A q \in Conns, nick \in Nicks : NameOf(q) = nick => JoinedAreTold(q, nick))'
  BY JoinedChannelsTold, PTL
<1> QED
  BY <1>1

(* QUIT, KILL and a closed connection: who goes has no lists any more, and *)
(* is on nobody else's.                                                    *)
LEMMA LeavingLists ==
    ASSUME ~EarlyDrop, ListsGood, ListsStep,
           NEW fd \in Fds, NEW u \in DOMAIN users, Leaving(fd, u)
    PROVE  ViewsInv' /\ Acquainted'
<1>1. PICK q \in DOMAIN users, v \in DOMAIN users :
         /\ QuitUser(q, v) /\ users[q].nick # NoNick
         /\ told' = QuitMessages(q)
  BY DEF Leaving, Disconnect, Expired, Quit, Kill, Send, Post, LoggedIn,
         ListsGood, IInv, UsersInv, RegistrationOrder
<1>2. v = q
  BY <1>1 DEF QuitUser, Found, ListsGood, IInv, UsersInv, NickUnique
<1>3. /\ q \in Conns /\ NameOf(q) = users[q].nick /\ NameOf(q) \in Nicks
      /\ DOMAIN users' = DOMAIN users \ {q}
  BY <1>1, <1>2, UsersAreConns
     DEF ListsGood, IInv, UsersInv, User, NameOf, QuitUser
<1>4. /\ \A c \in Conns \ {q} : NameOf(c)' = NameOf(c)
      /\ RoomsLeft(q, Chans)
  <2>1. Promise!Depart(q)
    BY <1>1, <1>2, QuitUserDeparts DEF ListsGood
  <2>2. [c \in Conns |-> NameOf(c)]' = [[c \in Conns |-> NameOf(c)] EXCEPT ![q] = NoNick]
    BY <2>1 DEF Promise!Depart
  <2>3. [ch \in Chans |-> RoomOf(ch)]' = Promise!Without(q, Chans)
    BY <2>1 DEF Promise!Depart
  <2>4. \A c \in Conns \ {q} : NameOf(c)' = NameOf(c)
    BY <2>2
  <2>5. RoomsLeft(q, Chans)
    BY <2>3 DEF RoomsLeft, Promise!Without
  <2> QED
    BY <2>4, <2>5
<1>5. PICK nick : nick = NameOf(q)
  OBVIOUS
<1>6. JoinedAreTold(q, nick)
  BY <1>3, <1>5, JoinedChannelsTold DEF ListsGood
<1>7. told' = Tell(ToJoinedChannels(nick), "QUIT", nick, {}, {})
  BY <1>1, <1>3, <1>5 DEF QuitMessages
<1>8. /\ \A m \in told' : m.kind = "QUIT" /\ m.who = nick
      /\ \A c \in ToJoinedChannels(nick) : \E m \in told' : m.to = c
  <2> DEFINE them == ToJoinedChannels(nick)
  <2>1. them \in SUBSET DOMAIN users
    BY <1>6 DEF JoinedAreTold
  <2>2. told' = Tell(them, "QUIT", nick, {}, {})
    BY <1>7
  <2> HIDE DEF them
  <2>3. /\ \A m \in told' : m.kind = "QUIT" /\ m.who = nick
        /\ \A c \in them : \E m \in told' : m.to = c
    BY <2>1, <2>2, TellReaches DEF ListsGood
  <2> QED
    BY <2>3 DEF them
<1>9. ASSUME NEW c \in Conns, NEW ch \in Chans
      PROVE  /\ view'[c][ch] = IF ch \in Chans
                               THEN IF c = q THEN {} ELSE view[c][ch] \ {NameOf(q)}
                               ELSE view[c][ch]
             /\ NotMoreInformed(c, ch)
  <2>1. CASE c = q
    <3>1. ~Connected(c)'
      BY <1>3, <2>1, ConnectedNext DEF ListsStep
    <3> QED
      BY <2>1, <3>1, ViewLost DEF ListsStep
  <2>2. CASE c # q
    <3>1. nick # NameOf(c)
      <4>1. c \in DOMAIN users => users[c].nick # users[q].nick
        BY <1>1, <2>2 DEF ListsGood, IInv, UsersInv, NickUnique
      <4> QED
        BY <1>1, <1>3, <1>5, <4>1 DEF NameOf
    <3>2. view[c][ch] # {} => Connected(c)'
      <4> SUFFICES ASSUME view[c][ch] # {} PROVE Connected(c)'
        OBVIOUS
      <4>1. c \in RoomOf(ch)
        BY DEF ListsGood, ViewsInv
      <4>2. NameOf(c)' # NoNick
        BY <1>4, <2>2, <4>1, RoomFacts DEF ListsGood
      <4> QED
        BY <4>1, <4>2, StaysConnected DEF ListsGood
    <3>3. nick \in view[c][ch] => \E m \in told' : m.to = c /\ Concerns(m, ch)
      <4> SUFFICES ASSUME nick \in view[c][ch]
                   PROVE  \E m \in told' : m.to = c /\ Concerns(m, ch)
        OBVIOUS
      <4>1. c \in RoomOf(ch) /\ q \in RoomOf(ch)
        BY <1>3, <1>5, ListedTogether DEF ListsGood
      <4>2. c \in ToJoinedChannels(nick)
        BY <1>6, <2>2, <4>1 DEF JoinedAreTold
      <4> QED
        BY <1>8, <4>2 DEF Concerns
    <3>4. view'[c][ch] = view[c][ch] \ {nick} /\ NotMoreInformed(c, ch)
      BY <1>8, <3>1, <3>2, <3>3, ViewThinned DEF ListsStep
    <3> QED
      BY <1>5, <2>2, <3>4
  <2> QED
    BY <2>1, <2>2
<1>10. IInv /\ IInv' /\ ViewsInv /\ Acquainted
  BY DEF ListsGood, ListsStep
<1> QED
  BY <1>3, <1>4, <1>9, <1>10, RoomsLeftLists

(* NICK: whoever has the old nickname on a list writes the new one there.  *)
LEMMA NickLists ==
    ASSUME ListsGood, ListsStep, NEW fd \in Fds, NEW u \in DOMAIN users,
           NEW n \in Nicks, Nick(fd, u, n), told' = NickMessages(u, n)
    PROVE  ViewsInv' /\ Acquainted'
<1>1. /\ RoomsKept /\ DOMAIN users' = DOMAIN users
      /\ users'[u].nick = n
      /\ \A c \in DOMAIN users \ {u} : users'[c] = users[c]
  BY NickKeepsRooms, NickUsersInv DEF ListsGood
<1>2. \A c \in Conns : NameOf(c)' = IF c = u THEN n ELSE NameOf(c)
  BY <1>1 DEF NameOf
<1>3. u \in Conns /\ NameOf(u)' = n /\ NameOf(u) = users[u].nick
  BY <1>1, UsersAreConns DEF ListsGood, NameOf
<1>4. JoinedAreTold(u, n)'
  BY <1>3, JoinedChannelsToldNext DEF ListsStep
<1>5. PICK old : old = NameOf(u)
  OBVIOUS
<1> DEFINE them == ToJoinedChannels(n)' \cup {u}
<1>6. them \in SUBSET DOMAIN users
  BY <1>1, <1>4 DEF JoinedAreTold
<1>7. told' = Tell(them, "NICK", old, {}, {n})
  BY <1>3, <1>5 DEF NickMessages
<1>8. /\ \A m \in told' : m.kind = "NICK" /\ m.who = old /\ m.names = {n}
      /\ \A c \in them : \E m \in told' : m.to = c
  <2> HIDE DEF them
  <2> QED
    BY <1>6, <1>7, TellReaches DEF ListsGood
<1>9. ASSUME NEW c \in Conns, NEW ch \in Chans
      PROVE  /\ view'[c][ch] = {IF x = NameOf(u) THEN n ELSE x : x \in view[c][ch]}
             /\ NotMoreInformed(c, ch)
  <2>1. view[c][ch] # {} => Connected(c)'
    <3> SUFFICES ASSUME view[c][ch] # {} PROVE Connected(c)'
      OBVIOUS
    <3>1. c \in RoomOf(ch)
      BY DEF ListsGood, ViewsInv
    <3>2. c \in DOMAIN users'
      BY <1>1, <3>1, RoomFacts DEF ListsGood
    <3> QED
      BY <3>2, ConnectedNext DEF ListsStep
  <2>2. old \in view[c][ch] => \E m \in told' : m.to = c
    <3> SUFFICES ASSUME old \in view[c][ch] PROVE \E m \in told' : m.to = c
      OBVIOUS
    <3>1. c \in RoomOf(ch) /\ u \in RoomOf(ch)
      BY <1>3, <1>5, ListedTogether DEF ListsGood
    <3>2. c \in RoomOf(ch)' /\ u \in RoomOf(ch)'
      BY <1>1, <3>1 DEF RoomsKept
    <3>3. c \in them
      BY <1>4, <3>2 DEF JoinedAreTold
    <3> QED
      BY <1>8, <3>3
  <2>3. \A m \in told' : m.to = c => m.kind = "NICK" /\ m.who = old /\ m.names = {n}
    BY <1>8
  <2> HIDE DEF them
  <2>4. view'[c][ch] = ListWith(c, ch, old, n) /\ NotMoreInformed(c, ch)
    BY <2>1, <2>2, <2>3, ViewRelabelled DEF ListsStep
  <2> QED
    BY <1>5, <2>4 DEF ListWith
<1>10. IInv /\ IInv' /\ ViewsInv /\ Acquainted
  BY DEF ListsGood, ListsStep
<1> QED
  BY <1>1, <1>2, <1>3, <1>9, <1>10, RenamedLists

(* The entries of a channel are the clients in the room.                   *)
LEMMA ChannelIsRoom ==
    IInv => \A ch \in Chans : ch \in DOMAIN channels =>
              ToChannel(ch, NoNick) = RoomOf(ch) /\ RoomOf(ch) \subseteq DOMAIN users
  BY ToChannelIsRoom, RoomFacts

LEMMA ChannelIsRoomNext ==
    IInv' => \A ch \in Chans : ch \in DOMAIN channels' =>
              ToChannel(ch, NoNick)' = RoomOf(ch)' /\ RoomOf(ch)' \subseteq DOMAIN users'
<1>1. (IInv => \A ch \in Chans : ch \in DOMAIN channels =>
                 ToChannel(ch, NoNick) = RoomOf(ch) /\ RoomOf(ch) \subseteq DOMAIN users)'
  BY ChannelIsRoom, PTL
<1> QED
  BY <1>1

LEMMA JoinedIsRoom ==
    ASSUME IInv, NEW v \in Conns, NEW nick, nick = NameOf(v), nick # NoNick, NEW ch
    PROVE  ch \in JoinedChannels(nick) <=> ch \in DOMAIN channels /\ v \in RoomOf(ch)
<1>1. CASE ch \in DOMAIN channels
  <2>1. ch \in Chans /\ Members(ch) = DOMAIN channels[ch].users
    BY <1>1 DEF IInv, ChannelsInv, Members
  <2>2. nick \in Members(ch) <=> \E c \in RoomOf(ch) : NameOf(c) = nick
    BY <2>1, MembersAreNamed
  <2>3. (\E c \in RoomOf(ch) : NameOf(c) = nick) <=> v \in RoomOf(ch)
    BY RoomFacts
  <2> QED
    BY <1>1, <2>1, <2>2, <2>3 DEF JoinedChannels
<1>2. CASE ch \notin DOMAIN channels
  BY <1>2 DEF JoinedChannels
<1> QED
  BY <1>1, <1>2

(* PART: out of the channels of the list the client is on.                 *)
LEMMA PartLists ==
    ASSUME ListsGood, ListsStep, NEW fd \in Fds, NEW u \in DOMAIN users,
           NEW S \in SUBSET Chans, Part(fd, u, S), told' = PartMessages(u, S)
    PROVE  ViewsInv' /\ Acquainted'
<1>1. /\ u \in Conns /\ NameOf(u) = users[u].nick
      /\ NameOf(u) \in Nicks /\ NameOf(u) # NoNick
  BY UsersAreConns, NamesAssumption
     DEF Part, LoggedIn, ListsGood, IInv, UsersInv, RegistrationOrder, User, NameOf, NoNick
<1>2. RoomsLeft(u, S) /\ \A c \in Conns : NameOf(c)' = NameOf(c)
  <2>1. Promise!Leave(u, S)
    BY PartLeaves DEF ListsGood
  <2>2. /\ [ch \in Chans |-> RoomOf(ch)]' = Promise!Without(u, S)
        /\ [c \in Conns |-> NameOf(c)]' = [c \in Conns |-> NameOf(c)]
    BY <2>1 DEF Promise!Leave
  <2>3. RoomsLeft(u, S)
    BY <2>2 DEF RoomsLeft, Promise!Without
  <2>4. \A c \in Conns : NameOf(c)' = NameOf(c)
    BY <2>2
  <2> QED
    BY <2>3, <2>4
<1>3. PICK nick : nick = NameOf(u)
  OBVIOUS
<1>4. \A ch : ch \in JoinedChannels(nick) <=> ch \in DOMAIN channels /\ u \in RoomOf(ch)
  BY <1>1, <1>3, JoinedIsRoom DEF ListsGood
<1>5. told' = UNION {Tell(ToChannel(ch, NoNick), "PART", nick, {ch}, {}) :
                       ch \in S \cap JoinedChannels(nick)}
  BY <1>1, <1>3 DEF PartMessages
<1>6. ASSUME NEW ch \in S \cap JoinedChannels(nick)
      PROVE  /\ \A m \in Tell(ToChannel(ch, NoNick), "PART", nick, {ch}, {}) :
                   /\ m.to \in RoomOf(ch) /\ m.kind = "PART" /\ m.who = nick
                   /\ m.where = {ch}
             /\ \A c \in RoomOf(ch) :
                   \E m \in Tell(ToChannel(ch, NoNick), "PART", nick, {ch}, {}) :
                      m.to = c /\ m.where = {ch}
  <2> DEFINE people == ToChannel(ch, NoNick)
  <2>1. people = RoomOf(ch) /\ people \in SUBSET DOMAIN users
    BY <1>4, ChannelIsRoom DEF ListsGood
  <2> HIDE DEF people
  <2>2. PICK messages : messages = Tell(people, "PART", nick, {ch}, {})
    OBVIOUS
  <2>3. /\ \A m \in messages : /\ m.to \in people /\ m.kind = "PART"
                               /\ m.who = nick /\ m.where = {ch}
        /\ \A c \in people : \E m \in messages : m.to = c /\ m.where = {ch}
    <3>1. SocketOwned
      BY DEF ListsGood
    <3> QED
      BY <2>1, <2>2, <3>1, TellReaches
  <2> QED
    BY <2>1, <2>2, <2>3 DEF people
<1>7. \A m \in told' :
         /\ m.kind \in {"PART", "KICK"} /\ m.who = NameOf(u)
         /\ \E x \in S : u \in RoomOf(x) /\ m.where = {x} /\ m.to \in RoomOf(x)
  <2> TAKE m \in told'
  <2>1. PICK ch \in S \cap JoinedChannels(nick) :
           m \in Tell(ToChannel(ch, NoNick), "PART", nick, {ch}, {})
    BY <1>5
  <2>2. /\ m.to \in RoomOf(ch) /\ m.kind = "PART" /\ m.who = nick /\ m.where = {ch}
        /\ u \in RoomOf(ch)
    BY <1>4, <1>6, <2>1
  <2> QED
    BY <1>3, <2>2
<1>8. \A x \in S : u \in RoomOf(x) => \A c \in RoomOf(x) :
         \E m \in told' : m.to = c /\ m.where = {x}
  <2> SUFFICES ASSUME NEW x \in S, u \in RoomOf(x), NEW c \in RoomOf(x)
               PROVE  \E m \in told' : m.to = c /\ m.where = {x}
    OBVIOUS
  <2>1. x \in S \cap JoinedChannels(nick)
    BY <1>4 DEF RoomOf
  <2>2. PICK m \in Tell(ToChannel(x, NoNick), "PART", nick, {x}, {}) :
           m.to = c /\ m.where = {x}
    BY <1>6, <2>1
  <2>3. m \in told'
    BY <1>5, <2>1, <2>2
  <2> QED
    BY <2>2, <2>3
<1> QED
  BY <1>1, <1>2, <1>7, <1>8, OutLists

(* KICK: one client is out of one channel.                                 *)
LEMMA KickLists ==
    ASSUME ListsGood, ListsStep, NEW fd \in Fds, NEW u \in DOMAIN users,
           NEW r \in Chans, NEW n \in Nicks,
           Kick(fd, u, r, n), told' = KickMessages(r, n)
    PROVE  ViewsInv' /\ Acquainted'
<1>1. r \in DOMAIN channels /\ n \in DOMAIN channels[r].users
  BY DEF Kick
<1>2. PICK v : v = channels[r].users[n]
  OBVIOUS
<1>3. v \in DOMAIN users /\ Promise!Expel(u, v, r)
  BY <1>2, KickExpels DEF ListsGood
<1>4. /\ v \in Conns /\ v \in RoomOf(r) /\ NameOf(v) = n /\ NameOf(v) # NoNick
  <2>1. v \in RoomOf(r)
    BY <1>1, <1>2 DEF RoomOf
  <2>2. users[v].nick = n
    BY <1>1, <1>2 DEF ListsGood, IInv, ChannelsInv, MembersLive
  <2> QED
    BY <2>1, <2>2, RoomFacts DEF ListsGood
<1>5. RoomsLeft(v, {r}) /\ \A c \in Conns : NameOf(c)' = NameOf(c)
  <2>1. /\ [ch \in Chans |-> RoomOf(ch)]' = Promise!Without(v, {r})
        /\ [c \in Conns |-> NameOf(c)]' = [c \in Conns |-> NameOf(c)]
    BY <1>3 DEF Promise!Expel
  <2>2. RoomsLeft(v, {r})
    BY <2>1 DEF RoomsLeft, Promise!Without
  <2>3. \A c \in Conns : NameOf(c)' = NameOf(c)
    BY <2>1
  <2> QED
    BY <2>2, <2>3
<1> DEFINE people == ToChannel(r, NoNick)
<1>6. people = RoomOf(r) /\ people \in SUBSET DOMAIN users
  BY <1>1, ChannelIsRoom DEF ListsGood
<1>7. told' = Tell(people, "KICK", n, {r}, {})
  BY DEF KickMessages
<1> HIDE DEF people
<1>8. /\ \A m \in told' : /\ m.to \in people /\ m.kind = "KICK"
                          /\ m.who = n /\ m.where = {r}
      /\ \A c \in people : \E m \in told' : m.to = c /\ m.where = {r}
  BY <1>6, <1>7, TellReaches DEF ListsGood
<1>9. \A m \in told' :
         /\ m.kind \in {"PART", "KICK"} /\ m.who = NameOf(v)
         /\ \E x \in {r} : v \in RoomOf(x) /\ m.where = {x} /\ m.to \in RoomOf(x)
  BY <1>4, <1>6, <1>8
<1>10. \A x \in {r} : v \in RoomOf(x) => \A c \in RoomOf(x) :
          \E m \in told' : m.to = c /\ m.where = {x}
  BY <1>6, <1>8
<1>11. {r} \in SUBSET Chans
  OBVIOUS
<1> QED
  BY <1>4, <1>5, <1>9, <1>10, <1>11, OutLists

(* JOIN, one channel of the list: as long as addUser lets the client in.   *)
LEMMA JoinsInLists ==
    ASSUME ListsGood, ListsStep, RoomForAll, NEW r \in Chans,
           JoinEnter \/ JoinCreate, r = JoinTarget.ch, told' = JoinMessages(r)
    PROVE  ViewsInv' /\ Acquainted'
<1>1. PICK u, n : u = Joiner /\ n = JoinNick
  OBVIOUS
<1>2. /\ u \in DOMAIN users /\ u \in Conns /\ users' = users /\ peer' = peer
      /\ n \in Nicks /\ n = users[u].nick /\ n # NoNick
      /\ NameOf(u) = n /\ NameOf(u) # NoNick
  BY <1>1, JoinNextFacts, NamesAssumption
     DEF JoinEnter, JoinCreate, ListsGood, JoinNick, Joiner, NameOf, NoNick
<1>3. u \notin RoomOf(r)
  <2>1. CASE r \in DOMAIN channels
    <3>1. n \notin DOMAIN channels[r].users
      BY <1>1, <2>1 DEF JoinEnter, JoinCreate, MayNotEnter
    <3> QED
      BY <1>2, <2>1, <3>1, NicknameIsClient DEF ListsGood
  <2>2. CASE r \notin DOMAIN channels
    BY <2>2 DEF RoomOf
  <2> QED
    BY <2>1, <2>2
<1>4. /\ \A x \in DOMAIN channels \ {r} : x \in DOMAIN channels' /\ channels'[x] = channels[x]
      /\ DOMAIN channels' = DOMAIN channels \cup {r}
      /\ RoomOf(r)' = RoomOf(r) \cup {u}
  <2>1. CASE JoinEnter
    <3>1. /\ r \in DOMAIN channels
          /\ n \notin DOMAIN channels[r].users
          /\ channels' = [channels EXCEPT ![r] = WithUser(channels[r], n, u)]
      BY <1>1, <2>1 DEF JoinEnter, MayNotEnter
    <3>2. PICK c : c = channels[r]
      OBVIOUS
    <3>3. /\ IsChannel(c) /\ n \notin DOMAIN c.users
          /\ ~(Cardinality(DOMAIN c.users) > LimitUsers)
      <4>1. IsFiniteSet(DOMAIN c.users) /\ Cardinality(DOMAIN c.users) <= LimitUsers
        BY <3>1, <3>2 DEF RoomForAll, ListsGood, IInv, ChannelsInv
      <4>2. Cardinality(DOMAIN c.users) \in Nat
        BY <4>1, FS_CardinalityType
      <4> QED
        BY <3>1, <3>2, <4>1, <4>2, LimitAssumption DEF ListsGood, IInv, ChannelsInv
    <3>4. PICK d : d = WithUser(c, n, u)
      OBVIOUS
    <3>5. d.users = [m \in DOMAIN c.users \cup {n} |-> IF m = n THEN u ELSE c.users[m]]
      BY <3>3, <3>4 DEF WithUser, AddUser, IsChannel
    <3>6. {d.users[m] : m \in DOMAIN d.users}
             = {c.users[m] : m \in DOMAIN c.users} \cup {u}
      BY <3>3, <3>5
    <3>7. channels = [x \in DOMAIN channels |-> channels[x]]
      BY DEF ListsGood, IInv, ChannelsInv
    <3>8. /\ DOMAIN channels' = DOMAIN channels /\ channels'[r] = d
          /\ \A x \in DOMAIN channels \ {r} : channels'[x] = channels[x]
      BY <3>1, <3>2, <3>4, <3>7
    <3>9. /\ RoomOf(r)' = {d.users[m] : m \in DOMAIN d.users}
          /\ RoomOf(r) = {c.users[m] : m \in DOMAIN c.users}
      BY <3>1, <3>2, <3>8 DEF RoomOf
    <3>10. RoomOf(r)' = RoomOf(r) \cup {u}
      BY <3>6, <3>9, Zenon
    <3> QED
      BY <3>1, <3>8, <3>10
  <2>2. CASE JoinCreate
    <3>1. PICK key : key = JoinTarget.key
      OBVIOUS
    <3>2. PICK d : d = NewChannel(n, u, key)
      OBVIOUS
    <3>3. /\ r \notin DOMAIN channels
          /\ channels' = [x \in DOMAIN channels \cup {r} |-> IF x = r THEN d ELSE channels[x]]
      BY <1>1, <2>2, <3>1, <3>2 DEF JoinCreate
    <3>4. key \in Keys \cup {NoKey}
      BY <2>2, <3>1, JoinNextFacts DEF JoinCreate, ListsGood, Target
    <3>5. DOMAIN d.users = {n} /\ d.users[n] = u
      BY <1>2, <3>2, <3>4, NewChannelFacts
    <3>6. RoomOf(r)' = {u} /\ RoomOf(r) = {}
      BY <3>3, <3>5 DEF RoomOf
    <3> QED
      BY <3>3, <3>6
  <2> QED
    BY <2>1, <2>2
<1>5. \A ch \in Chans :
         RoomOf(ch)' = IF ch = r THEN RoomOf(ch) \cup {u} ELSE RoomOf(ch)
  <2> TAKE ch \in Chans
  <2>1. ch # r => RoomOf(ch)' = RoomOf(ch)
    BY <1>4 DEF RoomOf
  <2> QED
    BY <1>4, <2>1
<1>6. \A c \in Conns : NameOf(c)' = NameOf(c)
  BY <1>2 DEF NameOf
<1> DEFINE people == ToChannel(r, NoNick)'
<1>7. people = RoomOf(r) \cup {u} /\ people \in SUBSET DOMAIN users
  <2>1. people = RoomOf(r)' /\ RoomOf(r)' \subseteq DOMAIN users'
    BY <1>4, ChannelIsRoomNext DEF ListsStep
  <2> QED
    BY <1>2, <1>4, <2>1
<1>8. told' = Tell(people, "JOIN", n, {r}, {})
  BY <1>1 DEF JoinMessages
<1> HIDE DEF people
<1>9. /\ \A m \in told' : /\ m.to \in people /\ m.kind = "JOIN"
                          /\ m.who = n /\ m.where = {r}
      /\ \A c \in people : \E m \in told' : m.to = c /\ m.where = {r}
  BY <1>7, <1>8, TellReaches DEF ListsGood
<1>10. \A m \in told' :
          /\ m.kind = "JOIN" /\ m.who = NameOf(u) /\ m.where = {r}
          /\ m.to \in RoomOf(r) \cup {u}
  BY <1>2, <1>7, <1>9
<1>11. \A c \in RoomOf(r) \cup {u} : \E m \in told' : m.to = c
  BY <1>7, <1>9
<1> QED
  BY <1>2, <1>3, <1>5, <1>6, <1>10, <1>11, InLists

(* The steps that move nobody.                                             *)
LEMMA TablesStill ==
    ASSUME NamesKept, channels' = channels
    PROVE  Still
  BY ChannelsKeepRooms DEF Still, NamesKept, NameOf

LEMMA IgnoredStill ==
    ASSUME IInv, NEW fd \in Fds, NEW u \in DOMAIN users,
           \/ Misread(fd, u) \/ Blank(fd, u) \/ Ignored(fd, u)
           \/ Pass(fd, u) \/ UserCmd(fd, u) \/ Oper(fd, u)
           \/ \E list \in JoinLists : Join(fd, u, list)
    PROVE  Still
<1>1. ASSUME users' = Touch(u) PROVE NamesKept
  BY <1>1, TouchFacts, TouchedNamesKept DEF IInv
<1>2. CASE Misread(fd, u)
  BY <1>2, TablesStill DEF Misread, NamesKept
<1>3. CASE Ignored(fd, u) \/ Blank(fd, u)
  BY <1>1, <1>3, TablesStill DEF Ignored, Blank
<1>4. CASE Pass(fd, u)
  BY <1>4, TablesStill DEF Pass, NamesKept, IInv, UsersInv, User
<1>5. CASE UserCmd(fd, u)
  BY <1>5, TablesStill DEF UserCmd, NamesKept, IInv, UsersInv, User
<1>6. CASE Oper(fd, u)
  <2>1. NamesKept /\ channels' = channels
    BY <1>6 DEF Oper, Touch, NamesKept, IInv, UsersInv, User
  <2> QED
    BY <2>1, TablesStill
<1>7. ASSUME NEW list \in JoinLists, Join(fd, u, list) PROVE Still
  BY <1>1, <1>7, TablesStill DEF Join
<1> QED
  BY <1>2, <1>3, <1>4, <1>5, <1>6, <1>7

LEMMA AcceptStill ==
    ASSUME IInv, NEW fd \in Fds, Accept(fd)
    PROVE  Still
<1>1. Promise!Arrive(accepted + 1)
  BY AcceptArrives
<1>2. [c \in Conns |-> NameOf(c)]' = [c \in Conns |-> NameOf(c)]
  BY <1>1 DEF Promise!Arrive
<1>3. \A c \in Conns : NameOf(c)' = NameOf(c)
  BY <1>2
<1> QED
  BY <1>3, ChannelsKeepRooms DEF Still, Accept

(* The commands that tell something and change no table.                   *)
LEMMA ReportingLists ==
    ASSUME ListsGood, ListsStep, NEW fd \in Fds, NEW u \in DOMAIN users,
           Reporting(fd, u)
    PROVE  ViewsInv' /\ Acquainted'
<1>1. Still
  <2>1. \/ Ignored(fd, u)
        \/ \E ch \in Chans, t \in Topics \cup {NoTopic} : Topic(fd, u, ch, t)
    BY DEF Reporting, Privmsg, Duplicate, Names, Invite
  <2>2. Ignored(fd, u)
    BY <2>1 DEF Topic
  <2> QED
    BY <2>2, IgnoredStill DEF ListsGood
<1>2. ASSUME NEW S, told' = NamesMessages(u, S) PROVE ViewsInv' /\ Acquainted'
  BY <1>1, <1>2, NamesLists
<1>3. ASSUME \A m \in told' : m.kind \in {"TEXT", "407", "INVITE"}
      PROVE  ViewsInv' /\ Acquainted'
  BY <1>1, <1>3, StillLists
<1>4. ASSUME NEW alias \in Nicks, NEW list \in ReceiverLists,
             Privmsg(fd, u, alias, list)
      PROVE  \A m \in told' : m.kind = "TEXT"
  <2> SUFFICES ASSUME NEW m \in told' PROVE m.kind = "TEXT"
    OBVIOUS
  <2>1. PICK i \in Reached(list) : m \in Text(alias, list[i])
    BY <1>4 DEF Privmsg, Send, Post
  <2>2. \/ m \in Tell(Named(list[i][2]), "TEXT", alias, {}, {})
        \/ m \in Tell(ToChannel(list[i][2], alias), "TEXT", alias, {list[i][2]}, {})
    BY <2>1 DEF Text
  <2> QED
    BY <2>2, TellKind
<1>5. ASSUME NEW n \in Nicks, Duplicate(fd, u, n)
      PROVE  \A m \in told' : m.kind = "407"
  BY <1>5, TellKind DEF Duplicate, Send, Post
<1>6. ASSUME NEW n \in Nicks, NEW ch \in Chans, Invite(fd, u, n, ch)
      PROVE  \A m \in told' : m.kind = "INVITE"
  BY <1>6, TellKind DEF Invite, Send, Post
<1>7. ASSUME NEW ch \in Chans, NEW t \in Topics \cup {NoTopic}, Topic(fd, u, ch, t)
      PROVE  told' = {}
  BY <1>7 DEF Topic
<1>8. ASSUME NEW S \in SUBSET Chans, Names(fd, u, S)
      PROVE  told' = NamesMessages(u, S)
  BY <1>8 DEF Names, Send, Post
<1> QED
  BY <1>2, <1>3, <1>4, <1>5, <1>6, <1>7, <1>8 DEF Reporting

LEMMA AnnouncedLists ==
    ASSUME ListsGood, ListsStep, NEW fd \in Fds, NEW u \in DOMAIN users,
           Announced(fd, u)
    PROVE  ViewsInv' /\ Acquainted'
<1>1. ASSUME NEW list \in JoinLists, Join(fd, u, list), told' = {}
      PROVE  ViewsInv' /\ Acquainted'
  <2>1. Still
    BY <1>1, IgnoredStill DEF ListsGood
  <2> QED
    BY <1>1, <2>1, StillLists
<1> QED
  BY <1>1, NickLists, PartLists, KickLists DEF Announced, Send, Post

LEMMA JoinsLists ==
    ASSUME ListsGood, ListsStep, RoomForAll, Joins
    PROVE  ViewsInv' /\ Acquainted'
<1>1. CASE (JoinRefused \/ JoinTooMany) /\ told' = {}
  <2>1. Still
    BY <1>1, TablesStill DEF JoinRefused, JoinTooMany, NamesKept
  <2> QED
    BY <1>1, <2>1, StillLists
<1>2. CASE JoinDone /\ told' = NamesMessages(Joiner, listed)
  <2>1. Still
    BY <1>2, TablesStill DEF JoinDone, NamesKept
  <2>2. Joiner \in DOMAIN users
    BY <1>2 DEF JoinDone, Joiner, ListsGood, IInv, ThreadInv
  <2>3. PICK u, S : u = Joiner /\ S = listed
    OBVIOUS
  <2>4. u \in DOMAIN users /\ told' = NamesMessages(u, S)
    BY <1>2, <2>2, <2>3
  <2> QED
    BY <2>1, <2>4, NamesLists
<1> QED
  BY <1>1, <1>2, JoinsInLists DEF Joins, Send, Post

LEMMA ListsNext ==
    ASSUME ~EarlyDrop, ListsGood, IInv', SocketOwned', RoomForAll, [WNext]_wvars
    PROVE  ViewsInv' /\ Acquainted'
<1>1. CASE UNCHANGED wvars
  BY <1>1 DEF wvars, mvars, vars, ListsGood, ViewsInv, Acquainted, RoomOf, NameOf, Members
<1>2. ASSUME ListsStep, Still, told' = {} PROVE ViewsInv' /\ Acquainted'
  BY <1>2, StillLists
<1>3. ASSUME \/ AcceptFails
             \/ \E fd \in Fds : ReadOrphan(fd)
      PROVE  Still
  BY <1>3, TablesStill DEF AcceptFails, ReadOrphan, NamesKept
<1>4. ASSUME NEW fd \in Fds, Accept(fd) PROVE Still
  BY <1>4, AcceptStill DEF ListsGood
<1>5. ASSUME NEW fd \in Fds, NEW u \in DOMAIN users, Unannounced(fd, u)
      PROVE  Still /\ told' = {}
  BY <1>5, IgnoredStill DEF Unannounced, Send, Post, ListsGood
<1>6. CASE WNext
  <2>1. MNext /\ ListsStep
    BY <1>6 DEF WNext, ListsStep, ViewStep
  <2> QED
    BY <1>2, <1>3, <1>4, <1>5, <2>1,
       LeavingLists, AnnouncedLists, ReportingLists, JoinsLists DEF MNext, Send, Post
<1> QED
  BY <1>1, <1>6

LEMMA ViewsImplementMessaging == WSpec => MSpec
<1>1. WInit => MInit
  BY DEF WInit
<1>2. [WNext]_wvars => [MNext]_mvars
  BY DEF WNext, wvars
<1> QED
  BY <1>1, <1>2, PTL DEF WSpec, MSpec

LEMMA ListsInvariant ==
    ASSUME ~EarlyDrop
    PROVE  WSpec /\ []RoomForAll => []ListsGood
<1>1. WSpec => [](IInv /\ SocketOwned)
  BY ViewsImplementMessaging, MessagingInvariant, PTL
<1>2. WInit => ViewsInv /\ Acquainted
  BY DEF WInit, MInit, Init, ViewsInv, Acquainted, RoomOf, Members
<1>3. ListsGood /\ RoomForAll /\ IInv' /\ SocketOwned' /\ [WNext]_wvars
         => ViewsInv' /\ Acquainted'
  BY ListsNext
<1> QED
  BY <1>1, <1>2, <1>3, PTL DEF WSpec, ListsGood

(* What the server sends keeps the clients' lists right, for any number of *)
(* clients, nicknames and channels: nobody is on a list that is not on the *)
(* channel, a client knows whether it is on the channel itself, and once   *)
(* it has received the list its own stays exact.  Two conditions, both of  *)
(* them needed: nobody goes before its first NICK, and no channel is so    *)
(* full that addUser, which refuses in silence, would refuse.              *)
THEOREM ListsStayExact ==
    ASSUME ~EarlyDrop
    PROVE  WSpec /\ []RoomForAll => []ListsExact
<1>1. ListsGood => ListsExact
  <2> SUFFICES ASSUME ListsGood, NEW c \in DOMAIN users, NEW ch \in Chans
               PROVE  /\ view[c][ch] \subseteq Members(ch)
                      /\ users[c].nick \in view[c][ch] <=> c \in RoomOf(ch)
                      /\ ch \in informed[c] => view[c][ch] = Members(ch)
    BY DEF ListsExact
  <2>1. c \in Conns /\ NameOf(c) = users[c].nick
    BY UsersAreConns DEF ListsGood, NameOf
  <2> QED
    BY <2>1 DEF ListsGood, ViewsInv
<1> QED
  BY <1>1, ListsInvariant, PTL

(* Under the same conditions, and also when no list is ever sent: of two   *)
(* clients on a channel the one that was there first has been told of the  *)
(* other, and has followed it through its renames since.                   *)
THEOREM OneIsAwareOfTheOther ==
    ASSUME ~EarlyDrop
    PROVE  WSpec /\ []RoomForAll => []OneSeesTheOther
<1>1. ListsGood => OneSeesTheOther
  <2> SUFFICES ASSUME ListsGood, NEW ch \in DOMAIN channels,
                      NEW c \in RoomOf(ch), NEW d \in RoomOf(ch)
               PROVE  users[d].nick \in view[c][ch] \/ users[c].nick \in view[d][ch]
    BY DEF OneSeesTheOther
  <2>1. ch \in Chans /\ NameOf(c) = users[c].nick /\ NameOf(d) = users[d].nick
    BY RoomFacts DEF ListsGood, IInv, ChannelsInv
  <2> QED
    BY <2>1 DEF ListsGood, Acquainted
<1> QED
  BY <1>1, ListsInvariant, PTL

(* The second condition holds by itself as long as there are no more       *)
(* connections than a channel has room for.                                *)
LEMMA RoomForFew ==
    ASSUME MaxConns <= LimitUsers, IInv
    PROVE  RoomForAll
<1> SUFFICES ASSUME NEW ch \in DOMAIN channels
             PROVE  Cardinality(DOMAIN channels[ch].users) <= LimitUsers
  BY DEF RoomForAll
<1> DEFINE entries == channels[ch].users
<1>1. entries \in [DOMAIN entries -> Conns]
  BY DEF IInv, ChannelsInv, IsChannel
<1>2. \A m, k \in DOMAIN entries : entries[m] = entries[k] => m = k
  BY DEF IInv, ChannelsInv, MembersLive
<1> HIDE DEF entries
<1>3. PICK f : f = entries
  OBVIOUS
<1>4. PICK names : names = DOMAIN entries
  OBVIOUS
<1>5. f \in Injection(names, Conns)
  BY <1>1, <1>2, <1>3, <1>4 DEF Injection, IsInjective
<1>6. IsFiniteSet(Conns) /\ Cardinality(Conns) = MaxConns
  BY ConnsAssumption, FS_Interval DEF Conns
<1>7. IsFiniteSet(names) /\ Cardinality(names) <= Cardinality(Conns)
  BY <1>5, <1>6, FS_Injection
<1>8. Cardinality(names) \in Nat
  BY <1>7, FS_CardinalityType
<1> QED
  BY <1>4, <1>6, <1>7, <1>8, ConnsAssumption, LimitAssumption DEF entries

(* So with few connections the lists are exact without further ado: this   *)
(* is the instance TLC checks.                                             *)
THEOREM ListsOfFewStayExact ==
    ASSUME ~EarlyDrop, MaxConns <= LimitUsers
    PROVE  WSpec => [](ListsExact /\ OneSeesTheOther)
<1>1. WSpec => []IInv
  BY ViewsImplementMessaging, MessagingImplementsRegistry, Invariant, PTL
<1>2. IInv => RoomForAll
  BY RoomForFew
<1> QED
  BY <1>1, <1>2, ListsStayExact, OneIsAwareOfTheOther, PTL
=============================================================================
