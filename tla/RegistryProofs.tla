--------------------------- MODULE RegistryProofs ----------------------------
(***************************************************************************)
(* The tables of the server stay consistent for any number of clients,     *)
(* descriptors, nicknames and channels, whether or not clients go away     *)
(* before their NICK: IInv of Registry is inductive.  UsersInv, ChannelsInv*)
(* and ThreadInv are preserved together: an entry of a channel is live     *)
(* because nicknames are unique, and nicknames stay unique because the     *)
(* record an entry points to is the one that has the nickname.             *)
(*                                                                         *)
(* The loop of start() runs these handlers and nothing else, so that       *)
(* everything proved of Registry holds under it, and its snapshots of      *)
(* descriptors stay in step with the sockets: LoopInv is inductive         *)
(* relative to IInv.  A handler touches the sockets in one of two ways     *)
(* (HandlerKinds): not at all, or it closes one and takes it out of        *)
(* _client_fds in the same step.                                           *)
(***************************************************************************)
EXTENDS EventLoop, FiniteSetTheorems, TLAPS

-----------------------------------------------------------------------------
(* What the operators of Channel do to the users and the operator of a     *)
(* channel.  The sizes matter: addUser may refuse, and a rename works only *)
(* because the entry it removes makes room for the one it adds.            *)

(* An operator list with one entry: who is in it, and what is left when    *)
(* the entry is removed.                                                   *)
LEMMA SingleChop ==
    ASSUME NEW m
    PROVE  /\ RemoveChop(<<m>>, m) = <<>>
           /\ \A n : IsChop(<<m>>, n) <=> n = m
<1>1. \A n : IsChop(<<m>>, n) <=> n = m
  BY DEF IsChop
<1>2. RemoveChop(<<m>>, m) = RemoveAt(<<m>>, SelectInSeq(<<m>>, LAMBDA v : v = m))
  BY <1>1 DEF RemoveChop, RemoveFirst, IsChop
<1>3. {i \in 1..Len(<<m>>) : <<m>>[i] = m} = {1}
  OBVIOUS
<1>4. Min({1}) = 1
  BY DEF Min
<1>5. SelectInSeq(<<m>>, LAMBDA v : v = m) = 1
  BY <1>3, <1>4 DEF SelectInSeq
<1>6. RemoveAt(<<m>>, 1) = <<>>
  BY DEF RemoveAt
<1> QED
  BY <1>1, <1>2, <1>5, <1>6

(* erase: n is out and nobody else is touched.                             *)
LEMMA RemoveUserFacts ==
    ASSUME NEW members, NEW n
    PROVE  /\ DOMAIN RemoveUser(members, n) = DOMAIN members \ {n}
           /\ \A m \in DOMAIN members \ {n} :
                RemoveUser(members, n)[m] = members[m]
  BY DEF RemoveUser

(* addUser: either nothing happens or exactly n is entered, and the second *)
(* is the case when there is room and n is new.  At most one more than the *)
(* limit get in.                                                           *)
LEMMA AddUserFacts ==
    ASSUME NEW members, NEW n, NEW c,
           IsFiniteSet(DOMAIN members),
           Cardinality(DOMAIN members) <= LimitUsers + 1
    PROVE  LET after == AddUser(members, n, c) IN
           /\ IsFiniteSet(DOMAIN after)
           /\ Cardinality(DOMAIN after) <= LimitUsers + 1
           /\ \/ after = members
              \/ /\ DOMAIN after = DOMAIN members \cup {n}
                 /\ n \notin DOMAIN members
                 /\ after[n] = c
                 /\ \A m \in DOMAIN members : after[m] = members[m]
           /\ Cardinality(DOMAIN members) <= LimitUsers /\ n \notin DOMAIN members
                => n \in DOMAIN after
<1> DEFINE after == AddUser(members, n, c)
<1>1. Cardinality(DOMAIN members) \in Nat /\ LimitUsers \in Nat
  BY FS_CardinalityType, LimitAssumption
<1>2. CASE Cardinality(DOMAIN members) > LimitUsers \/ n \in DOMAIN members
  BY <1>1, <1>2 DEF AddUser
<1>3. CASE ~(Cardinality(DOMAIN members) > LimitUsers \/ n \in DOMAIN members)
  <2>1. after = [m \in DOMAIN members \cup {n} |-> IF m = n THEN c ELSE members[m]]
    BY <1>3 DEF AddUser
  <2>2. /\ IsFiniteSet(DOMAIN members \cup {n})
        /\ Cardinality(DOMAIN members \cup {n}) = Cardinality(DOMAIN members) + 1
    BY <1>3, FS_AddElement
  <2>3. DOMAIN after = DOMAIN members \cup {n}
    BY <2>1
  <2>4. after[n] = c /\ \A m \in DOMAIN members : after[m] = members[m]
    BY <2>1, <1>3
  <2>5. Cardinality(DOMAIN after) <= LimitUsers + 1
    BY <2>2, <2>3, <1>1, <1>3
  <2> QED
    BY <1>3, <2>2, <2>3, <2>4, <2>5
<1> QED
  BY <1>2, <1>3

(* Removing somebody and adding somebody new always succeeds, also on a    *)
(* channel that is full: nobody is lost in a rename.                       *)
LEMMA ReplaceUserFacts ==
    ASSUME NEW members, NEW old \in DOMAIN members, NEW n, NEW c,
           n \notin DOMAIN members,
           IsFiniteSet(DOMAIN members),
           Cardinality(DOMAIN members) <= LimitUsers + 1
    PROVE  LET after == AddUser(RemoveUser(members, old), n, c) IN
           /\ DOMAIN after = (DOMAIN members \ {old}) \cup {n}
           /\ after[n] = c
           /\ \A m \in DOMAIN members \ {old} : after[m] = members[m]
           /\ IsFiniteSet(DOMAIN after)
           /\ Cardinality(DOMAIN after) <= LimitUsers + 1
<1> DEFINE left == RemoveUser(members, old)
           after == AddUser(left, n, c)
<1>1. /\ DOMAIN left = DOMAIN members \ {old}
      /\ \A m \in DOMAIN left : left[m] = members[m]
  BY RemoveUserFacts
<1>2. /\ IsFiniteSet(DOMAIN left)
      /\ Cardinality(DOMAIN left) = Cardinality(DOMAIN members) - 1
  BY <1>1, FS_RemoveElement
<1>3. Cardinality(DOMAIN left) <= LimitUsers /\ Cardinality(DOMAIN left) <= LimitUsers + 1
  BY <1>2, FS_CardinalityType, LimitAssumption
<1>4. n \notin DOMAIN left
  BY <1>1
<1>5. /\ IsFiniteSet(DOMAIN after)
      /\ Cardinality(DOMAIN after) <= LimitUsers + 1
      /\ \/ after = left
         \/ /\ DOMAIN after = DOMAIN left \cup {n}
            /\ after[n] = c
            /\ \A m \in DOMAIN left : after[m] = left[m]
      /\ n \in DOMAIN after
  <2> HIDE DEF left
  <2> QED
    BY <1>2, <1>3, <1>4, AddUserFacts
<1> QED
  BY <1>1, <1>4, <1>5

-----------------------------------------------------------------------------
(* Shapes of steps                                                         *)

(* Every record stays, with its nickname; a new one has a new number.      *)
UsersKept ==
    /\ \A c \in DOMAIN users :
         /\ c \in DOMAIN users'
         /\ users'[c].nick = users[c].nick
         /\ users[c].logged => users'[c].logged
    /\ DOMAIN users' \cap (1..accepted) \subseteq DOMAIN users
    /\ accepted' \in accepted..MaxConns

(* The records only change in their password flag.                         *)
UsersTouched ==
    /\ DOMAIN users' = DOMAIN users
    /\ users' \in [DOMAIN users -> User]
    /\ \A c \in DOMAIN users :
         /\ users'[c].sock = users[c].sock
         /\ users'[c].nick = users[c].nick
         /\ users'[c].isNick = users[c].isNick
         /\ users'[c].isUser = users[c].isUser
         /\ users'[c].logged = users[c].logged
         /\ users'[c].oper = users[c].oper
         /\ users[c].password => users'[c].password

(* _execute may note that no password is needed, and nothing else.         *)
LEMMA TouchFacts ==
    ASSUME UsersInv, NEW u \in DOMAIN users, users' = Touch(u)
    PROVE  UsersTouched
  BY ZenonT(60), BoundsAssumption DEF UsersInv, Touch, Passworded, UsersTouched, User

LEMMA TouchedIsKept ==
    ASSUME IInv, UsersTouched, accepted' = accepted
    PROVE  UsersKept
  BY DEF IInv, ThreadInv, UsersTouched, UsersKept

(* The channels on which nickname n is are finitely many.                  *)
LEMMA GroupsFinite ==
    ASSUME DOMAIN channels \subseteq Chans, NEW n
    PROVE  IsFiniteSet({ch \in DOMAIN channels : n \in DOMAIN channels[ch].users})
  BY FiniteAssumption, FS_Subset

(* UsersInv does not depend on the password flag.                          *)
LEMMA UsersTouchedInv ==
    ASSUME IInv, UsersTouched, operators' = operators, accepted' = accepted
    PROVE  UsersInv'
<1> USE DEF IInv, UsersInv, UsersTouched
<1>1. NickUnique'
  BY DEF NickUnique
<1>2. RegistrationOrder'
  BY DEF RegistrationOrder
<1>3. OperKeepsRights'
  BY DEF OperKeepsRights
<1> QED
  BY <1>1, <1>2, <1>3

(* Channels that stay as they are stay consistent when the records do.     *)
LEMMA ChannelsKeptInv ==
    ASSUME IInv, UsersKept, channels' = channels
    PROVE  ChannelsInv'
<1> USE DEF IInv, ChannelsInv
<1>1. accepted \in Nat /\ accepted' \in Nat /\ accepted <= accepted'
  BY ConnsAssumption DEF UsersKept, ThreadInv
<1>2. \A ch \in DOMAIN channels' : channels'[ch].founder <= accepted'
  <2> TAKE ch \in DOMAIN channels'
  <2>1. channels[ch].founder \in Nat /\ channels[ch].founder <= accepted
    BY DEF IsChannel, Conns
  <2> QED
    BY <1>1, <2>1
<1>3. MembersLive'
  BY DEF MembersLive, UsersKept
<1>4. FounderKeepsChop'
  <2> SUFFICES ASSUME NEW ch \in DOMAIN channels
               PROVE  /\ Len(channels[ch].chops) = 1
                      /\ channels[ch].founder \in DOMAIN users' =>
                           channels[ch].chops[1] = users'[channels[ch].founder].nick
    BY DEF FounderKeepsChop
  <2>1. channels[ch].founder \in 1..accepted
    BY <1>1 DEF IsChannel, Conns
  <2>2. channels[ch].founder \in DOMAIN users' => channels[ch].founder \in DOMAIN users
    BY <2>1 DEF UsersKept
  <2> QED
    BY <2>2 DEF FounderKeepsChop, UsersKept
<1>5. LimitsHold'
  BY DEF LimitsHold, Groups
<1> QED
  BY <1>2, <1>3, <1>4, <1>5

(* A channel without one of its users is a channel.                        *)
LEMMA WithoutUserFacts ==
    ASSUME NEW c, IsChannel(c), NEW n
    PROVE  LET d == WithoutUser(c, n) IN
           /\ IsChannel(d)
           /\ DOMAIN d.users = DOMAIN c.users \ {n}
           /\ \A m \in DOMAIN d.users : d.users[m] = c.users[m]
           /\ d.chops = c.chops /\ d.founder = c.founder /\ d.pass = c.pass
<1> DEFINE d == WithoutUser(c, n)
<1>1. d = [users   |-> RemoveUser(c.users, n), chops   |-> c.chops,
           pass    |-> c.pass,                 founder |-> c.founder]
  BY DEF WithoutUser, IsChannel
<1>2. DOMAIN d.users = DOMAIN c.users \ {n}
  BY <1>1 DEF RemoveUser
<1>3. \A m \in DOMAIN d.users : d.users[m] = c.users[m]
  BY <1>1 DEF RemoveUser
<1>4. d.users \in [DOMAIN d.users -> Conns]
  BY <1>1, <1>2, <1>3 DEF RemoveUser, IsChannel
<1>5. IsChannel(d)
  BY <1>1, <1>2, <1>4 DEF IsChannel
<1> QED
  BY <1>1, <1>2, <1>3, <1>5

(* Channels that lose one nickname, or go, stay consistent, provided that  *)
(* the entries left are live.                                              *)
LEMMA ChannelsThinnedInv ==
    ASSUME IInv, NEW n,
           accepted' = accepted,
           channels' = [ch \in DOMAIN channels' |-> channels'[ch]],
           DOMAIN channels' \subseteq DOMAIN channels,
           \A ch \in DOMAIN channels' :
              \/ channels'[ch] = channels[ch]
              \/ channels'[ch] = WithoutUser(channels[ch], n),
           \A c \in DOMAIN users' :
              c \in DOMAIN users /\ users'[c].nick = users[c].nick,
           MembersLive'
    PROVE  ChannelsInv'
<1> USE DEF IInv, ChannelsInv
<1>1. \A ch \in DOMAIN channels' :
         /\ IsChannel(channels'[ch])
         /\ DOMAIN channels'[ch].users \in SUBSET DOMAIN channels[ch].users
         /\ channels'[ch].chops = channels[ch].chops
         /\ channels'[ch].founder = channels[ch].founder
  <2> SUFFICES ASSUME NEW ch \in DOMAIN channels'
               PROVE  /\ IsChannel(channels'[ch])
                      /\ DOMAIN channels'[ch].users \in SUBSET DOMAIN channels[ch].users
                      /\ channels'[ch].chops = channels[ch].chops
                      /\ channels'[ch].founder = channels[ch].founder
    OBVIOUS
  <2>1. IsChannel(channels[ch])
    OBVIOUS
  <2>2. CASE channels'[ch] = channels[ch]
    BY <2>1, <2>2
  <2>3. CASE channels'[ch] = WithoutUser(channels[ch], n)
    BY <2>1, <2>3, WithoutUserFacts
  <2> QED
    BY <2>2, <2>3
<1>2. \A ch \in DOMAIN channels' :
         /\ IsFiniteSet(DOMAIN channels'[ch].users)
         /\ Cardinality(DOMAIN channels'[ch].users) <= LimitUsers + 1
  <2> TAKE ch \in DOMAIN channels'
  <2>1. /\ IsFiniteSet(DOMAIN channels[ch].users)
        /\ Cardinality(DOMAIN channels[ch].users) <= LimitUsers + 1
    BY DEF LimitsHold
  <2>2. DOMAIN channels'[ch].users \in SUBSET DOMAIN channels[ch].users
    BY <1>1
  <2>3. /\ IsFiniteSet(DOMAIN channels'[ch].users)
        /\ Cardinality(DOMAIN channels'[ch].users) <= Cardinality(DOMAIN channels[ch].users)
    BY <2>1, <2>2, FS_Subset
  <2> QED
    BY <2>1, <2>3, FS_CardinalityType, LimitAssumption
<1>3. \A m \in Nicks :
         Cardinality({ch \in DOMAIN channels' : m \in DOMAIN channels'[ch].users})
            <= MaxGroups + 1
  <2> TAKE m \in Nicks
  <2> DEFINE G == {ch \in DOMAIN channels : m \in DOMAIN channels[ch].users}
             H == {ch \in DOMAIN channels' : m \in DOMAIN channels'[ch].users}
  <2>1. IsFiniteSet(G) /\ Cardinality(G) <= MaxGroups + 1
    BY GroupsFinite DEF LimitsHold, Groups
  <2>2. H \in SUBSET G
    BY <1>1
  <2>3. IsFiniteSet(H) /\ Cardinality(H) <= Cardinality(G)
    BY <2>1, <2>2, FS_Subset
  <2> HIDE DEF G, H
  <2>4. Cardinality(H) <= MaxGroups + 1
    BY <2>1, <2>3, FS_CardinalityType, BoundsAssumption
  <2> QED
    BY <2>4 DEF H
<1>4. LimitsHold'
  BY <1>2, <1>3 DEF LimitsHold, Groups
<1>5. FounderKeepsChop'
  BY ZenonT(60), <1>1 DEF FounderKeepsChop
<1> QED
  BY <1>1, <1>2, <1>4, <1>5

-----------------------------------------------------------------------------
(* More shapes of a channel after a step                                   *)

(* A channel one of whose users has taken another, free, nickname: d is c  *)
(* with the entry of old, if there is one, moved to n.                     *)
Moved(c, d, old, n, k) ==
    /\ IsChannel(d)
    /\ d.founder = c.founder
    /\ Len(d.chops) = 1
    /\ d.chops[1] = IF c.chops[1] = old THEN n ELSE c.chops[1]
    /\ IsFiniteSet(DOMAIN d.users)
    /\ Cardinality(DOMAIN d.users) <= LimitUsers + 1
    /\ old \notin DOMAIN c.users => d.users = c.users
    /\ old \in DOMAIN c.users =>
         /\ DOMAIN d.users = (DOMAIN c.users \ {old}) \cup {n}
         /\ d.users[n] = k
         /\ \A m \in DOMAIN c.users \ {old} : d.users[m] = c.users[m]

(* A rename is never refused for lack of room.                             *)
LEMMA RenamedFacts ==
    ASSUME NEW c, IsChannel(c), Len(c.chops) = 1,
           IsFiniteSet(DOMAIN c.users),
           Cardinality(DOMAIN c.users) <= LimitUsers + 1,
           NEW old, NEW n \in Nicks, n \notin DOMAIN c.users, NEW k \in Conns
    PROVE  Moved(c, Renamed(c, old, n, k), old, n, k)
<1> DEFINE d == Renamed(c, old, n, k)
           chops == IF IsChop(c.chops, old)
                    THEN AddChop(RemoveChop(c.chops, old), n) ELSE c.chops
           members == IF old \in DOMAIN c.users
                      THEN AddUser(RemoveUser(c.users, old), n, k) ELSE c.users
<1>1. d = [users |-> members, chops |-> chops, pass |-> c.pass, founder |-> c.founder]
  <2>1. d = [c EXCEPT !.chops = chops, !.users = members]
    BY DEF Renamed
  <2>2. c = [users |-> c.users, chops |-> c.chops,
             pass |-> c.pass, founder |-> c.founder]
    BY DEF IsChannel
  <2> HIDE DEF chops, members
  <2> QED
    BY <2>1, <2>2
<1>2. chops = IF c.chops[1] = old THEN <<n>> ELSE c.chops
  <2>1. c.chops = <<c.chops[1]>>
    BY DEF IsChannel
  <2>2. RemoveChop(<<c.chops[1]>>, c.chops[1]) = <<>>
    BY SingleChop
  <2>3. IsChop(<<c.chops[1]>>, old) <=> old = c.chops[1]
    BY SingleChop
  <2>4. CASE c.chops[1] = old
    <3>1. IsChop(c.chops, old) /\ RemoveChop(c.chops, old) = <<>>
      BY <2>1, <2>2, <2>3, <2>4
    <3> QED
      BY <3>1, <2>4 DEF AddChop
  <2>5. CASE c.chops[1] # old
    BY <2>1, <2>3, <2>5
  <2> QED
    BY <2>4, <2>5
<1>3. chops \in Seq(Nicks)
  <2> HIDE DEF chops
  <2> QED
    BY <1>2 DEF IsChannel
<1>4. /\ IsFiniteSet(DOMAIN members)
      /\ Cardinality(DOMAIN members) <= LimitUsers + 1
      /\ old \notin DOMAIN c.users => members = c.users
      /\ old \in DOMAIN c.users =>
           /\ DOMAIN members = (DOMAIN c.users \ {old}) \cup {n}
           /\ members[n] = k
           /\ \A m \in DOMAIN c.users \ {old} : members[m] = c.users[m]
  <2>1. CASE old \in DOMAIN c.users
    <3> DEFINE u == c.users
               after == AddUser(RemoveUser(u, old), n, k)
    <3>1. members = after
      BY <2>1
    <3>2. /\ old \in DOMAIN u /\ n \notin DOMAIN u
          /\ IsFiniteSet(DOMAIN u) /\ Cardinality(DOMAIN u) <= LimitUsers + 1
      BY <2>1
    <3> HIDE DEF u
    <3>3. /\ DOMAIN after = (DOMAIN u \ {old}) \cup {n}
          /\ after[n] = k
          /\ \A m \in DOMAIN u \ {old} : after[m] = u[m]
          /\ IsFiniteSet(DOMAIN after)
          /\ Cardinality(DOMAIN after) <= LimitUsers + 1
      BY <3>2, ReplaceUserFacts
    <3> HIDE DEF after, members
    <3> QED
      BY <2>1, <3>1, <3>3 DEF u
  <2>2. CASE old \notin DOMAIN c.users
    BY <2>2
  <2> QED
    BY <2>1, <2>2
<1>5. members \in [DOMAIN members -> Conns] /\ DOMAIN members \subseteq Nicks
  <2>1. CASE old \in DOMAIN c.users
    <3>1. members = [m \in DOMAIN members |-> members[m]]
      BY <2>1 DEF AddUser, RemoveUser
    <3>2. \A m \in DOMAIN members : members[m] \in Conns /\ m \in Nicks
      BY <2>1, <1>4 DEF IsChannel
    <3> QED
      BY <3>1, <3>2
  <2>2. CASE old \notin DOMAIN c.users
    BY <2>2 DEF IsChannel
  <2> QED
    BY <2>1, <2>2
<1>6. IsChannel(d)
  <2> HIDE DEF chops, members
  <2> QED
    BY <1>1, <1>3, <1>5 DEF IsChannel
<1> HIDE DEF chops, members
<1>7. Len(chops) = 1 /\ chops[1] = IF c.chops[1] = old THEN n ELSE c.chops[1]
  BY <1>2
<1> QED
  BY <1>1, <1>4, <1>6, <1>7 DEF Moved

(* A channel that somebody new has tried to enter.                         *)
LEMMA WithUserFacts ==
    ASSUME NEW c, IsChannel(c),
           IsFiniteSet(DOMAIN c.users),
           Cardinality(DOMAIN c.users) <= LimitUsers + 1,
           NEW n \in Nicks, NEW k \in Conns
    PROVE  LET d == WithUser(c, n, k) IN
           /\ IsChannel(d)
           /\ d.founder = c.founder /\ d.chops = c.chops
           /\ IsFiniteSet(DOMAIN d.users)
           /\ Cardinality(DOMAIN d.users) <= LimitUsers + 1
           /\ \/ d.users = c.users
              \/ /\ DOMAIN d.users = DOMAIN c.users \cup {n}
                 /\ d.users[n] = k
                 /\ \A m \in DOMAIN c.users : d.users[m] = c.users[m]
<1> DEFINE d == WithUser(c, n, k)
           members == AddUser(c.users, n, k)
<1>1. d = [users |-> members, chops |-> c.chops, pass |-> c.pass, founder |-> c.founder]
  BY DEF WithUser, IsChannel
<1>2. /\ IsFiniteSet(DOMAIN members)
      /\ Cardinality(DOMAIN members) <= LimitUsers + 1
      /\ \/ members = c.users
         \/ /\ DOMAIN members = DOMAIN c.users \cup {n}
            /\ members[n] = k
            /\ \A m \in DOMAIN c.users : members[m] = c.users[m]
  BY AddUserFacts
<1>3. members \in [DOMAIN members -> Conns] /\ DOMAIN members \subseteq Nicks
  BY DEF AddUser, IsChannel
<1> HIDE DEF members
<1>4. IsChannel(d)
  BY <1>1, <1>3 DEF IsChannel
<1> QED
  BY <1>1, <1>2, <1>4

(* A channel that has just been created.                                   *)
LEMMA NewChannelFacts ==
    ASSUME NEW n \in Nicks, NEW k \in Conns, NEW key \in Keys \cup {NoKey}
    PROVE  LET d == NewChannel(n, k, key) IN
           /\ IsChannel(d)
           /\ d.founder = k /\ d.chops = <<n>>
           /\ IsFiniteSet(DOMAIN d.users)
           /\ Cardinality(DOMAIN d.users) <= LimitUsers + 1
           /\ DOMAIN d.users = {n}
           /\ d.users[n] = k
<1> DEFINE none == [m \in {} |-> 0]
           members == AddUser(none, n, k)
           d == NewChannel(n, k, key)
<1>1. DOMAIN none = {} /\ IsFiniteSet({}) /\ Cardinality({}) = 0
  BY FS_EmptySet
<1>2. members = [m \in {n} |-> k]
  <2>1. ~(Cardinality(DOMAIN none) > LimitUsers \/ n \in DOMAIN none)
    BY <1>1, LimitAssumption
  <2>2. members = [m \in {} \cup {n} |-> IF m = n THEN k ELSE none[m]]
    BY <2>1 DEF AddUser
  <2> QED
    BY <2>2
<1>3. d = [users |-> members, chops |-> <<n>>, pass |-> key, founder |-> k]
  BY DEF NewChannel, AddChop
<1> HIDE DEF members, d
<1>4. DOMAIN d.users = {n} /\ d.users[n] = k
  BY <1>2, <1>3
<1>5. IsFiniteSet({n}) /\ Cardinality({n}) = 1
  BY FS_Singleton
<1>6. IsChannel(d)
  BY <1>2, <1>3 DEF IsChannel
<1> QED
  BY <1>3, <1>4, <1>5, <1>6, LimitAssumption DEF d

-----------------------------------------------------------------------------
(* The steps, one lemma each                                               *)

(* Clients are known numbers and the values `job' takes are jobs.        *)
LEMMA JobFacts ==
    /\ Idle \in Job /\ Idle.kind = "idle"
    /\ \A fd \in Fds : TailOf(fd) \in Job /\ TailOf(fd).kind = "tail"
    /\ \A fd \in Fds : BlankOf(fd) \in Job /\ BlankOf(fd).kind = "blank"
    /\ \A u \in Conns, rest \in Seq(Target) :
         /\ Joining(u, rest) \in Job
         /\ Joining(u, rest).kind = "join"
         /\ Joining(u, rest).conn = u
<1>1. <<>> \in Seq(Target)
  OBVIOUS
<1> QED
  BY <1>1 DEF Idle, TailOf, BlankOf, Joining, Job, NoConn

LEMMA UsersAreConns ==
    ASSUME IInv
    PROVE  DOMAIN users \subseteq Conns /\ accepted \in Nat
  BY ConnsAssumption DEF IInv, UsersInv, ThreadInv, Conns

(* A new connection is nobody's entry and nobody's creator.                *)
LEMMA AcceptInv ==
    ASSUME IInv, NEW fd \in Fds, Accept(fd)
    PROVE  IInv'
<1> DEFINE new == accepted + 1
<1>1. /\ new \in Conns /\ new \in Nat /\ accepted \in Nat /\ MaxConns \in Nat
      /\ accepted' = new /\ new <= MaxConns
      /\ DOMAIN users \subseteq 1..accepted /\ new \notin DOMAIN users
      /\ job = Idle /\ job' = job /\ up' = up
      /\ operators' = operators /\ channels' = channels
  BY ConnsAssumption DEF Accept, IInv, UsersInv, ThreadInv, Conns
<1>2. /\ DOMAIN users' = DOMAIN users \cup {new}
      /\ \A c \in DOMAIN users : users'[c] = users[c]
      /\ users'[new] = [sock |-> fd, nick |-> NoNick, password |-> FALSE,
                        isNick |-> FALSE, isUser |-> FALSE,
                        logged |-> FALSE, oper |-> FALSE]
      /\ users' = [c \in DOMAIN users' |-> users'[c]]
  BY <1>1 DEF Accept
<1>3. users' \in [DOMAIN users' -> User]
  <2>1. users'[new] \in User
    BY <1>2 DEF User
  <2>2. \A c \in DOMAIN users : users'[c] \in User
    BY <1>2 DEF IInv, UsersInv
  <2> QED
    BY <1>2, <2>1, <2>2
<1>4. UsersKept
  BY <1>1, <1>2 DEF UsersKept
<1>5. ChannelsInv'
  BY <1>1, <1>4, ChannelsKeptInv
<1>6. UsersInv'
  <2>1. NickUnique'
    BY <1>2 DEF NickUnique, IInv, UsersInv
  <2>2. RegistrationOrder'
    BY <1>2 DEF RegistrationOrder, IInv, UsersInv
  <2>3. OperKeepsRights'
    BY <1>1, <1>2 DEF OperKeepsRights, IInv, UsersInv
  <2>4. DOMAIN users' \subseteq 1..accepted'
    BY <1>1, <1>2
  <2> QED
    BY <1>1, <1>3, <2>1, <2>2, <2>3, <2>4 DEF UsersInv, IInv
<1>7. ThreadInv'
  BY <1>1, JobFacts DEF ThreadInv, IInv, Accept, Conns
<1> QED
  BY <1>5, <1>6, <1>7 DEF IInv

(* QUIT, KILL and a closed connection: the record that goes is the one all *)
(* entries with its nickname point to, and those entries go too.           *)
LEMMA QuitUserInv ==
    ASSUME IInv, NEW q \in DOMAIN users, NEW v \in DOMAIN users, QuitUser(q, v)
    PROVE  /\ UsersInv' /\ ChannelsInv'
           /\ peer' \in [Fds -> Conns \cup {NoConn}]
           /\ accepted' = accepted /\ up' = up
<1> DEFINE n == users[q].nick
           left == [ch \in DOMAIN channels |-> WithoutUser(channels[ch], n)]
           empties == {ch \in DOMAIN left : IsEmptyChannel(left[ch])}
<1>1. /\ users[v].nick = n
      /\ users' = [c \in DOMAIN users \ {v} |-> users[c]]
      /\ channels' = [ch \in Swept(DOMAIN left, empties) |-> left[ch]]
      /\ operators' = operators /\ accepted' = accepted /\ up' = up
      /\ peer' = [peer EXCEPT ![users[q].sock] = NoConn]
  BY DEF QuitUser, Found
<1>2. UsersInv'
  <2>1. NickUnique' /\ RegistrationOrder' /\ OperKeepsRights'
    BY <1>1 DEF NickUnique, RegistrationOrder, OperKeepsRights, IInv, UsersInv
  <2> QED
    BY <1>1, <2>1 DEF UsersInv, IInv
<1>3. /\ DOMAIN channels' \subseteq DOMAIN channels
      /\ \A ch \in DOMAIN channels' : channels'[ch] = WithoutUser(channels[ch], n)
      /\ channels' = [ch \in DOMAIN channels' |-> channels'[ch]]
  BY <1>1 DEF Swept
<1>4. MembersLive'
  <2> SUFFICES ASSUME NEW ch \in DOMAIN channels',
                      NEW m \in DOMAIN channels'[ch].users
               PROVE  LET c == channels'[ch].users[m] IN
                      /\ c \in DOMAIN users'
                      /\ users'[c].nick = m
                      /\ users'[c].logged
    BY DEF MembersLive
  <2>1. IsChannel(channels[ch]) /\ ch \in DOMAIN channels
    BY <1>3 DEF IInv, ChannelsInv
  <2>2. /\ m \in DOMAIN channels[ch].users /\ m # n
        /\ channels'[ch].users[m] = channels[ch].users[m]
    BY <1>3, <2>1, WithoutUserFacts
  <2> QED
    BY <1>1, <2>1, <2>2 DEF MembersLive, IInv, ChannelsInv
<1>5. \A c \in DOMAIN users' : c \in DOMAIN users /\ users'[c].nick = users[c].nick
  BY <1>1
<1>6. ChannelsInv'
  <2> HIDE DEF n
  <2> QED
    BY <1>1, <1>3, <1>4, <1>5, ChannelsThinnedInv
<1>7. peer' \in [Fds -> Conns \cup {NoConn}]
  BY <1>1 DEF IInv, ThreadInv
<1> QED
  BY <1>1, <1>2, <1>6, <1>7

(* PASS and USER, and what only touches the records.                       *)
LEMMA PassInv ==
    ASSUME IInv, NEW fd \in Fds, NEW u \in DOMAIN users, Pass(fd, u)
    PROVE  IInv'
<1>1. UsersTouched /\ accepted' = accepted /\ operators' = operators
      /\ channels' = channels
  BY ZenonT(60) DEF Pass, IInv, UsersInv, UsersTouched, User
<1>2. UsersInv'
  BY <1>1, UsersTouchedInv
<1>3. ChannelsInv'
  BY <1>1, TouchedIsKept, ChannelsKeptInv
<1>4. ThreadInv'
  BY <1>1, JobFacts DEF Pass, IInv, ThreadInv
<1> QED
  BY <1>2, <1>3, <1>4 DEF IInv

LEMMA UserCmdInv ==
    ASSUME IInv, NEW fd \in Fds, NEW u \in DOMAIN users, UserCmd(fd, u)
    PROVE  IInv'
<1>1. /\ accepted' = accepted /\ operators' = operators /\ channels' = channels
      /\ users' \in [DOMAIN users -> User] /\ DOMAIN users' = DOMAIN users
      /\ \A c \in DOMAIN users \ {u} : users'[c] = users[c]
      /\ users'[u].nick = users[u].nick /\ users'[u].isNick = users[u].isNick
      /\ users'[u].oper = users[u].oper
      /\ users'[u].password /\ users'[u].isUser
      /\ users'[u].logged <=> (users[u].logged \/ users[u].isNick)
  BY ZenonT(60) DEF UserCmd, IInv, UsersInv, User
<1>2. UsersInv'
  <2>1. NickUnique'
    BY <1>1 DEF NickUnique, IInv, UsersInv
  <2>2. RegistrationOrder'
    BY <1>1 DEF RegistrationOrder, IInv, UsersInv
  <2>3. OperKeepsRights'
    BY <1>1 DEF OperKeepsRights, IInv, UsersInv
  <2> QED
    BY <1>1, <2>1, <2>2, <2>3 DEF UsersInv, IInv
<1>3. UsersKept
  <2>1. \A c \in DOMAIN users : users'[c].nick = users[c].nick
                                /\ (users[c].logged => users'[c].logged)
    BY <1>1
  <2>2. accepted' \in accepted..MaxConns
    BY <1>1 DEF IInv, ThreadInv
  <2> QED
    BY <1>1, <2>1, <2>2 DEF UsersKept
<1>4. ChannelsInv'
  BY <1>1, <1>3, ChannelsKeptInv
<1>5. ThreadInv'
  BY <1>1, JobFacts DEF UserCmd, IInv, ThreadInv
<1> QED
  BY <1>2, <1>4, <1>5 DEF IInv

LEMMA OperInv ==
    ASSUME IInv, NEW fd \in Fds, NEW u \in DOMAIN users, Oper(fd, u)
    PROVE  IInv'
<1>1. /\ accepted' = accepted /\ channels' = channels
      /\ operators' = operators \cup {users[u].nick}
      /\ users' \in [DOMAIN users -> User] /\ DOMAIN users' = DOMAIN users
      /\ \A c \in DOMAIN users :
           /\ users'[c].nick = users[c].nick
           /\ users'[c].isNick = users[c].isNick
           /\ users'[c].isUser = users[c].isUser
           /\ users'[c].logged = users[c].logged
           /\ users[c].password => users'[c].password
           /\ c # u => users'[c].oper = users[c].oper
  <2> DEFINE t == Touch(u)
  <2>1. /\ t \in [DOMAIN users -> User] /\ DOMAIN t = DOMAIN users
        /\ \A c \in DOMAIN users :
             /\ t[c].nick = users[c].nick
             /\ t[c].isNick = users[c].isNick
             /\ t[c].isUser = users[c].isUser
             /\ t[c].logged = users[c].logged
             /\ users[c].password => t[c].password
             /\ t[c].oper = users[c].oper
    BY ZenonT(60), BoundsAssumption DEF Touch, Passworded, IInv, UsersInv, User
  <2>2. users' = [t EXCEPT ![u].oper = TRUE]
    BY DEF Oper
  <2> HIDE DEF t
  <2>3. users' \in [DOMAIN users -> User]
    <3>1. [t[u] EXCEPT !.oper = TRUE] \in User
      BY ZenonT(60), <2>1 DEF User
    <3>2. users' = [t EXCEPT ![u] = [t[u] EXCEPT !.oper = TRUE]]
      BY <2>2
    <3> QED
      BY <2>1, <3>1, <3>2
  <2>4. \A c \in DOMAIN users :
           /\ users'[c].nick = t[c].nick
           /\ users'[c].isNick = t[c].isNick
           /\ users'[c].isUser = t[c].isUser
           /\ users'[c].logged = t[c].logged
           /\ users'[c].password = t[c].password
           /\ c # u => users'[c].oper = t[c].oper
    BY ZenonT(60), <2>1, <2>2 DEF User
  <2>5. /\ accepted' = accepted /\ channels' = channels
        /\ operators' = operators \cup {users[u].nick}
    BY DEF Oper
  <2> QED
    BY <2>1, <2>3, <2>4, <2>5
<1>2. users[u].nick \in Nicks
  BY DEF Oper, LoggedIn, IInv, UsersInv, RegistrationOrder, User
<1>3. UsersInv'
  <2>1. NickUnique'
    BY <1>1 DEF NickUnique, IInv, UsersInv
  <2>2. RegistrationOrder'
    BY <1>1 DEF RegistrationOrder, IInv, UsersInv
  <2>3. OperKeepsRights'
    BY <1>1 DEF OperKeepsRights, IInv, UsersInv
  <2> QED
    BY <1>1, <1>2, <2>1, <2>2, <2>3 DEF UsersInv, IInv
<1>4. UsersKept
  <2>1. accepted' \in accepted..MaxConns
    BY <1>1 DEF IInv, ThreadInv
  <2> QED
    BY <1>1, <2>1 DEF UsersKept
<1>5. ChannelsInv'
  BY <1>1, <1>4, ChannelsKeptInv
<1>6. ThreadInv'
  BY <1>1, JobFacts DEF Oper, IInv, ThreadInv
<1> QED
  BY <1>3, <1>5, <1>6 DEF IInv

(* Entries that stay where they are, with the records, stay live.          *)
LEMMA ThinnedMembersLive ==
    ASSUME IInv, NEW n, UsersTouched,
           DOMAIN channels' \subseteq DOMAIN channels,
           \A ch \in DOMAIN channels' :
              \/ channels'[ch] = channels[ch]
              \/ channels'[ch] = WithoutUser(channels[ch], n)
    PROVE  MembersLive'
<1> SUFFICES ASSUME NEW ch \in DOMAIN channels',
                    NEW m \in DOMAIN channels'[ch].users
             PROVE  LET c == channels'[ch].users[m] IN
                    /\ c \in DOMAIN users'
                    /\ users'[c].nick = m
                    /\ users'[c].logged
  BY DEF MembersLive
<1>1. IsChannel(channels[ch]) /\ ch \in DOMAIN channels
  BY DEF IInv, ChannelsInv
<1>2. /\ m \in DOMAIN channels[ch].users
      /\ channels'[ch].users[m] = channels[ch].users[m]
  BY <1>1, WithoutUserFacts
<1> QED
  BY <1>1, <1>2 DEF MembersLive, IInv, ChannelsInv, UsersTouched

LEMMA PartInv ==
    ASSUME IInv, NEW fd \in Fds, NEW u \in DOMAIN users,
           NEW S \in SUBSET Chans, Part(fd, u, S)
    PROVE  IInv'
<1> DEFINE n == users[u].nick
<1>1. /\ users' = Touch(u) /\ job' = Idle
      /\ operators' = operators /\ peer' = peer /\ accepted' = accepted /\ up' = up
      /\ DOMAIN channels' \subseteq DOMAIN channels
      /\ channels' = [ch \in DOMAIN channels' |-> channels'[ch]]
      /\ \A ch \in DOMAIN channels' :
            channels'[ch] = channels[ch] \/ channels'[ch] = WithoutUser(channels[ch], n)
  BY DEF Part
<1>2. UsersTouched
  BY <1>1, TouchFacts DEF IInv
<1>3. UsersInv'
  BY <1>1, <1>2, UsersTouchedInv
<1>4. ChannelsInv'
  <2>1. \A c \in DOMAIN users' : c \in DOMAIN users /\ users'[c].nick = users[c].nick
    BY <1>2 DEF UsersTouched
  <2> HIDE DEF n
  <2>2. MembersLive'
    BY <1>1, <1>2, ThinnedMembersLive
  <2> QED
    BY <1>1, <2>1, <2>2, ChannelsThinnedInv
<1>5. ThreadInv'
  BY <1>1, JobFacts DEF IInv, ThreadInv
<1> QED
  BY <1>3, <1>4, <1>5 DEF IInv

LEMMA KickInv ==
    ASSUME IInv, NEW fd \in Fds, NEW u \in DOMAIN users,
           NEW ch \in Chans, NEW n \in Nicks, Kick(fd, u, ch, n)
    PROVE  IInv'
<1>1. /\ users' = Touch(u) /\ job' = Idle
      /\ operators' = operators /\ peer' = peer /\ accepted' = accepted /\ up' = up
      /\ DOMAIN channels' \subseteq DOMAIN channels
      /\ channels' = [c \in DOMAIN channels' |-> channels'[c]]
      /\ \A c \in DOMAIN channels' :
            channels'[c] = channels[c] \/ channels'[c] = WithoutUser(channels[c], n)
  BY DEF Kick, IInv, ChannelsInv
<1>2. UsersTouched
  BY <1>1, TouchFacts DEF IInv
<1>3. UsersInv'
  BY <1>1, <1>2, UsersTouchedInv
<1>4. ChannelsInv'
  <2>1. \A c \in DOMAIN users' : c \in DOMAIN users /\ users'[c].nick = users[c].nick
    BY <1>2 DEF UsersTouched
  <2>2. MembersLive'
    BY <1>1, <1>2, ThinnedMembersLive
  <2> QED
    BY <1>1, <2>1, <2>2, ChannelsThinnedInv
<1>5. ThreadInv'
  BY <1>1, JobFacts DEF IInv, ThreadInv
<1> QED
  BY <1>3, <1>4, <1>5 DEF IInv

(* A command that changes no table, and an empty line.                     *)
LEMMA IgnoredInv ==
    ASSUME IInv, NEW fd \in Fds, NEW u \in DOMAIN users,
           Ignored(fd, u) \/ Blank(fd, u)
    PROVE  IInv'
<1>1. /\ users' = Touch(u) /\ job' = Idle /\ channels' = channels
      /\ operators' = operators /\ peer' = peer /\ accepted' = accepted /\ up' = up
  BY DEF Ignored, Blank
<1>2. UsersTouched
  BY <1>1, TouchFacts DEF IInv
<1>3. UsersInv' /\ ChannelsInv'
  BY <1>1, <1>2, UsersTouchedInv, TouchedIsKept, ChannelsKeptInv
<1>4. ThreadInv'
  BY <1>1, JobFacts DEF IInv, ThreadInv
<1> QED
  BY <1>3, <1>4 DEF IInv

LEMMA JoinInv ==
    ASSUME IInv, NEW fd \in Fds, NEW u \in DOMAIN users,
           NEW list \in JoinLists, Join(fd, u, list)
    PROVE  IInv'
<1>1. /\ users' = Touch(u) /\ job' = Joining(u, list) /\ channels' = channels
      /\ operators' = operators /\ peer' = peer /\ accepted' = accepted /\ up' = up
      /\ users[u].logged
  BY DEF Join, LoggedIn
<1>2. UsersTouched
  BY <1>1, TouchFacts DEF IInv
<1>3. UsersInv' /\ ChannelsInv'
  BY <1>1, <1>2, UsersTouchedInv, TouchedIsKept, ChannelsKeptInv
<1>4. list \in Seq(Target)
  <2>1. PICK k \in 1..MaxJoin : list \in [1..k -> Target]
    BY DEF JoinLists
  <2>2. k \in Nat
    BY <2>1, BoundsAssumption
  <2> QED
    BY <2>1, <2>2
<1>5. u \in Conns
  BY UsersAreConns
<1>6. ThreadInv'
  BY <1>1, <1>2, <1>4, <1>5, JobFacts DEF IInv, ThreadInv, UsersTouched
<1> QED
  BY <1>3, <1>6 DEF IInv

(* Leaving the loop of a JOIN, for whatever reason.                        *)
LEMMA JoinLeavesInv ==
    ASSUME IInv, job' = Idle, up' \in BOOLEAN,
           UNCHANGED <<users, operators, channels, peer, accepted>>
    PROVE  IInv'
<1>1. UsersKept
  BY UsersAreConns DEF UsersKept, IInv, ThreadInv
<1>2. ChannelsInv'
  BY <1>1, ChannelsKeptInv
<1>3. UsersInv'
  BY DEF IInv, UsersInv, NickUnique, RegistrationOrder, OperKeepsRights
<1>4. ThreadInv'
  BY JobFacts DEF IInv, ThreadInv
<1> QED
  BY <1>2, <1>3, <1>4 DEF IInv

(* The next iteration of the loop is a job too.                            *)
LEMMA JoinNextFacts ==
    ASSUME IInv, InJoin
    PROVE  /\ Joiner \in DOMAIN users /\ Joiner \in Conns
           /\ users[Joiner].logged
           /\ JoinNick \in Nicks
           /\ JoinTarget \in Target
           /\ JoinNext \in Job
           /\ JoinNext.kind = "join" /\ JoinNext.conn = Joiner
<1>1. Joiner \in DOMAIN users /\ Joiner \in Conns /\ users[Joiner].logged
  BY UsersAreConns DEF InJoin, Joiner, IInv, ThreadInv
<1>2. JoinNick \in Nicks
  BY <1>1 DEF Joiner, JoinNick, IInv, UsersInv, RegistrationOrder, User
<1>3. job.rest \in Seq(Target) /\ job.rest # <<>>
  BY DEF InJoin, IInv, ThreadInv, Job
<1>4. Head(job.rest) \in Target /\ Tail(job.rest) \in Seq(Target)
  BY <1>3
<1> QED
  BY <1>1, <1>2, <1>4, JobFacts DEF Joiner, JoinTarget, JoinNext

(* One channel, which nickname n may have entered, is put in: by itself    *)
(* consistent, its entries live, its creator its operator.                 *)
LEMMA ChannelPutInv ==
    ASSUME IInv, NEW ch \in Chans, NEW n \in Nicks, NEW d,
           UNCHANGED <<users, accepted>>,
           channels' = [c \in DOMAIN channels \cup {ch} |->
                           IF c = ch THEN d ELSE channels[c]],
           IsChannel(d), IsFiniteSet(DOMAIN d.users), d.founder <= accepted,
           Cardinality(DOMAIN d.users) <= LimitUsers + 1,
           Len(d.chops) = 1,
           d.founder \in DOMAIN users => d.chops[1] = users[d.founder].nick,
           \A m \in DOMAIN d.users :
              /\ d.users[m] \in DOMAIN users
              /\ users[d.users[m]].nick = m
              /\ users[d.users[m]].logged,
           \A m \in DOMAIN d.users \ {n} :
              ch \in DOMAIN channels /\ m \in DOMAIN channels[ch].users,
           Groups(n) <= MaxGroups
    PROVE  ChannelsInv'
<1> USE DEF IInv, ChannelsInv
<1>1. /\ DOMAIN channels' = DOMAIN channels \cup {ch}
      /\ channels'[ch] = d
      /\ \A c \in DOMAIN channels : c # ch => channels'[c] = channels[c]
      /\ channels' = [c \in DOMAIN channels' |-> channels'[c]]
  OBVIOUS
<1>2. \A c \in DOMAIN channels' :
         /\ IsChannel(channels'[c])
         /\ IsFiniteSet(DOMAIN channels'[c].users)
         /\ channels'[c].founder <= accepted'
         /\ Cardinality(DOMAIN channels'[c].users) <= LimitUsers + 1
  BY <1>1 DEF LimitsHold
<1>3. MembersLive'
  BY <1>1 DEF MembersLive
<1>4. FounderKeepsChop'
  BY <1>1 DEF FounderKeepsChop
<1>5. \A m \in Nicks :
         Cardinality({c \in DOMAIN channels' : m \in DOMAIN channels'[c].users})
            <= MaxGroups + 1
  <2> TAKE m \in Nicks
  <2> DEFINE G == {c \in DOMAIN channels : m \in DOMAIN channels[c].users}
             H == {c \in DOMAIN channels' : m \in DOMAIN channels'[c].users}
  <2>1. IsFiniteSet(G) /\ Cardinality(G) <= MaxGroups + 1
    BY GroupsFinite DEF LimitsHold, Groups
  <2>2. CASE m # n
    <3>1. H \in SUBSET G
      BY <1>1, <2>2
    <3> HIDE DEF G, H
    <3>2. Cardinality(H) <= MaxGroups + 1
      BY <2>1, <3>1, FS_Subset, FS_CardinalityType, BoundsAssumption
    <3> QED
      BY <3>2 DEF H
  <2>3. CASE m = n
    <3>1. H \in SUBSET (G \cup {ch})
      BY <1>1
    <3>2. Cardinality(G) <= MaxGroups
      BY <2>3 DEF Groups
    <3> HIDE DEF G, H
    <3>3. /\ IsFiniteSet(G \cup {ch})
          /\ Cardinality(G \cup {ch}) <= Cardinality(G) + 1
      <4>1. Cardinality(G) \in Nat
        BY <2>1, FS_CardinalityType
      <4>2. /\ IsFiniteSet(G \cup {ch})
            /\ Cardinality(G \cup {ch})
                 = IF ch \in G THEN Cardinality(G) ELSE Cardinality(G) + 1
        BY <2>1, FS_AddElement
      <4> QED
        BY <4>1, <4>2
    <3>4. Cardinality(H) <= Cardinality(G \cup {ch}) /\ IsFiniteSet(H)
      BY <3>1, <3>3, FS_Subset
    <3>5. /\ Cardinality(G) \in Nat /\ Cardinality(H) \in Nat
          /\ Cardinality(G \cup {ch}) \in Nat
      BY <2>1, <3>3, <3>4, FS_CardinalityType
    <3>6. Cardinality(H) <= MaxGroups + 1
      BY <3>2, <3>3, <3>4, <3>5, BoundsAssumption
    <3> QED
      BY <3>6 DEF H
  <2> QED
    BY <2>2, <2>3
<1>6. LimitsHold'
  BY <1>2, <1>5 DEF LimitsHold, Groups
<1> QED
  BY <1>1, <1>2, <1>3, <1>4, <1>6

LEMMA JoinEnterInv ==
    ASSUME IInv, JoinEnter
    PROVE  IInv'
<1> DEFINE ch == JoinTarget.ch
           n  == JoinNick
           d  == WithUser(channels[ch], n, Joiner)
<1>1. InJoin /\ ch \in DOMAIN channels /\ ~MayNotEnter(JoinTarget)
      /\ job' = JoinNext
      /\ channels' = [channels EXCEPT ![ch] = d]
      /\ UNCHANGED <<users, operators, peer, accepted, up>>
  BY DEF JoinEnter
<1>2. Joiner \in DOMAIN users /\ Joiner \in Conns /\ users[Joiner].logged
      /\ n \in Nicks /\ users[Joiner].nick = n
      /\ JoinNext \in Job /\ JoinNext.kind = "join" /\ JoinNext.conn = Joiner
  BY <1>1, JoinNextFacts DEF Joiner, JoinNick
<1>3. /\ IsChannel(channels[ch]) /\ IsFiniteSet(DOMAIN channels[ch].users)
      /\ Cardinality(DOMAIN channels[ch].users) <= LimitUsers + 1
      /\ channels[ch].founder <= accepted
      /\ Len(channels[ch].chops) = 1
      /\ channels[ch].founder \in DOMAIN users =>
           channels[ch].chops[1] = users[channels[ch].founder].nick
  BY <1>1 DEF IInv, ChannelsInv, LimitsHold, FounderKeepsChop
<1>4. /\ IsChannel(d)
      /\ d.founder = channels[ch].founder /\ d.chops = channels[ch].chops
      /\ IsFiniteSet(DOMAIN d.users)
      /\ Cardinality(DOMAIN d.users) <= LimitUsers + 1
      /\ \/ d.users = channels[ch].users
         \/ /\ DOMAIN d.users = DOMAIN channels[ch].users \cup {n}
            /\ d.users[n] = Joiner
            /\ \A m \in DOMAIN channels[ch].users : d.users[m] = channels[ch].users[m]
  <2> HIDE DEF ch, n
  <2> QED
    BY <1>2, <1>3, WithUserFacts
<1>5. n \notin DOMAIN channels[ch].users /\ Groups(n) <= MaxGroups
  <2>1. IsFiniteSet({c \in DOMAIN channels : n \in DOMAIN channels[c].users})
    BY GroupsFinite DEF IInv, ChannelsInv
  <2>2. Groups(n) \in Nat
    BY <2>1, FS_CardinalityType DEF Groups
  <2> QED
    BY <1>1, <2>2, BoundsAssumption DEF MayNotEnter
<1>6. channels' = [c \in DOMAIN channels \cup {ch} |->
                      IF c = ch THEN d ELSE channels[c]]
  <2>1. channels = [c \in DOMAIN channels |-> channels[c]]
    BY DEF IInv, ChannelsInv
  <2> HIDE DEF d, ch
  <2> QED
    BY <1>1, <2>1
<1>7. \A m \in DOMAIN d.users :
         /\ d.users[m] \in DOMAIN users
         /\ users[d.users[m]].nick = m
         /\ users[d.users[m]].logged
  <2> HIDE DEF d, n
  <2>1. \A m \in DOMAIN channels[ch].users :
           LET c == channels[ch].users[m] IN
           c \in DOMAIN users /\ users[c].nick = m /\ users[c].logged
    BY <1>1 DEF IInv, ChannelsInv, MembersLive
  <2> HIDE DEF ch
  <2> QED
    BY <1>2, <1>4, <2>1
<1>8. \A m \in DOMAIN d.users \ {n} : m \in DOMAIN channels[ch].users
  BY <1>4
<1>9. ch \in Chans
  BY <1>1 DEF IInv, ChannelsInv
<1>10. ChannelsInv'
  <2>1. /\ Len(d.chops) = 1 /\ d.founder <= accepted
        /\ d.founder \in DOMAIN users => d.chops[1] = users[d.founder].nick
    <3> HIDE DEF d, ch, n
    <3> QED
      BY <1>3, <1>4
  <2>2. \A m \in DOMAIN d.users \ {n} :
           ch \in DOMAIN channels /\ m \in DOMAIN channels[ch].users
    BY <1>1, <1>8
  <2>3. UNCHANGED <<users, accepted>>
    BY <1>1
  <2>4. n \in Nicks /\ Groups(n) <= MaxGroups
    BY <1>2, <1>5
  <2> HIDE DEF d, ch, n
  <2>5. /\ IsChannel(d) /\ IsFiniteSet(DOMAIN d.users)
        /\ Cardinality(DOMAIN d.users) <= LimitUsers + 1
    BY <1>4
  <2> QED
    BY <1>6, <1>7, <1>9, <2>1, <2>2, <2>3, <2>4, <2>5, ChannelPutInv
<1>11. UsersInv'
  BY <1>1 DEF IInv, UsersInv, NickUnique, RegistrationOrder, OperKeepsRights
<1>12. ThreadInv'
  BY <1>1, <1>2 DEF IInv, ThreadInv
<1> QED
  BY <1>10, <1>11, <1>12 DEF IInv

LEMMA JoinCreateInv ==
    ASSUME IInv, JoinCreate
    PROVE  IInv'
<1> DEFINE ch == JoinTarget.ch
           n  == JoinNick
           d  == NewChannel(n, Joiner, JoinTarget.key)
<1>1. InJoin /\ ch \notin DOMAIN channels /\ Groups(n) <= MaxGroups
      /\ job' = JoinNext
      /\ channels' = [c \in DOMAIN channels \cup {ch} |->
                         IF c = ch THEN d ELSE channels[c]]
      /\ UNCHANGED <<users, operators, peer, accepted, up>>
  BY DEF JoinCreate
<1>2. Joiner \in DOMAIN users /\ Joiner \in Conns /\ users[Joiner].logged
      /\ n \in Nicks /\ users[Joiner].nick = n
      /\ JoinNext \in Job /\ JoinNext.kind = "join" /\ JoinNext.conn = Joiner
      /\ ch \in Chans /\ JoinTarget.key \in Keys \cup {NoKey}
  BY <1>1, JoinNextFacts DEF Joiner, JoinNick, Target
<1>3. /\ IsChannel(d)
      /\ d.founder = Joiner /\ d.chops = <<n>>
      /\ IsFiniteSet(DOMAIN d.users)
      /\ Cardinality(DOMAIN d.users) <= LimitUsers + 1
      /\ DOMAIN d.users = {n} /\ d.users[n] = Joiner
  <2> HIDE DEF ch, n
  <2> QED
    BY <1>2, NewChannelFacts
<1>4. Joiner <= accepted
  BY <1>2 DEF IInv, UsersInv
<1>5. Len(d.chops) = 1 /\ d.chops[1] = n
  <2> HIDE DEF d
  <2> QED
    BY <1>3
<1>6. ChannelsInv'
  <2> HIDE DEF d, ch, n
  <2> QED
    BY <1>1, <1>2, <1>3, <1>4, <1>5, ChannelPutInv
<1>7. UsersInv'
  BY <1>1 DEF IInv, UsersInv, NickUnique, RegistrationOrder, OperKeepsRights
<1>8. ThreadInv'
  BY <1>1, <1>2 DEF IInv, ThreadInv
<1> QED
  BY <1>6, <1>7, <1>8 DEF IInv

(* NICK: the only step that moves entries.  The new nickname is free, so   *)
(* no channel has it; the old one was the client's own, so what moves is   *)
(* its own entry.                                                          *)
LEMMA NickUsersInv ==
    ASSUME IInv, NEW fd \in Fds, NEW u \in DOMAIN users, NEW n \in Nicks,
           Nick(fd, u, n)
    PROVE  /\ UsersInv'
           /\ DOMAIN users' = DOMAIN users
           /\ \A c \in DOMAIN users \ {u} : users'[c] = users[c]
           /\ users'[u].nick = n
           /\ users[u].logged => users'[u].logged
           /\ \A c \in DOMAIN users : users[c].nick # n
           /\ n # users[u].nick
<1>1. /\ DOMAIN users' = DOMAIN users /\ users' \in [DOMAIN users -> User]
      /\ \A c \in DOMAIN users \ {u} : users'[c] = users[c]
      /\ users'[u].nick = n /\ users'[u].password /\ users'[u].isNick
      /\ users'[u].isUser = users[u].isUser /\ users'[u].oper = users[u].oper
      /\ users'[u].logged <=> (users[u].logged \/ users[u].isUser)
  BY DEF Nick, IInv, UsersInv, User
<1>2. /\ \A c \in DOMAIN users : users[c].nick # n
      /\ n # users[u].nick /\ n # NoNick
      /\ accepted' = accepted
      /\ operators' = IF users[u].nick \in operators
                      THEN (operators \ {users[u].nick}) \cup {n} ELSE operators
  BY NamesAssumption DEF Nick, NoNick
<1>3. NickUnique'
  BY <1>1, <1>2 DEF NickUnique, IInv, UsersInv
<1>4. RegistrationOrder'
  BY <1>1, <1>2 DEF RegistrationOrder, IInv, UsersInv
<1>5. OperKeepsRights'
  <2> SUFFICES ASSUME NEW c \in DOMAIN users, users'[c].oper
               PROVE  users'[c].nick \in operators'
    BY <1>1 DEF OperKeepsRights
  <2>1. users[c].oper /\ users[c].nick \in operators /\ users[c].nick \in Nicks
    BY <1>1 DEF IInv, UsersInv, OperKeepsRights
  <2>2. CASE c = u
    BY <1>1, <1>2, <2>1, <2>2
  <2>3. CASE c # u
    <3>1. users[c].nick # users[u].nick
      BY <2>1, <2>3, NamesAssumption DEF IInv, UsersInv, NickUnique, NoNick
    <3> QED
      BY <1>1, <1>2, <2>1, <2>3, <3>1
  <2> QED
    BY <2>2, <2>3
<1>6. operators' \subseteq Nicks /\ DOMAIN users' \subseteq 1..accepted'
  BY <1>1, <1>2 DEF IInv, UsersInv
<1> QED
  BY <1>1, <1>2, <1>3, <1>4, <1>5, <1>6 DEF UsersInv

LEMMA NickInv ==
    ASSUME IInv, NEW fd \in Fds, NEW u \in DOMAIN users, NEW n \in Nicks,
           Nick(fd, u, n)
    PROVE  IInv'
<1> DEFINE old == users[u].nick
<1>1. /\ UsersInv' /\ DOMAIN users' = DOMAIN users
      /\ \A c \in DOMAIN users \ {u} : users'[c] = users[c]
      /\ users'[u].nick = n
      /\ users[u].logged => users'[u].logged
      /\ \A c \in DOMAIN users : users[c].nick # n
      /\ n # old
  BY NickUsersInv
<1>2. /\ job' = Idle /\ peer' = peer /\ accepted' = accepted /\ up' = up
      /\ channels' = IF old = NoNick THEN channels
                     ELSE [ch \in DOMAIN channels |-> Renamed(channels[ch], old, n, u)]
      /\ u \in Conns
  BY UsersAreConns DEF Nick
<1>3. ThreadInv'
  BY <1>2, JobFacts DEF IInv, ThreadInv
(* an entry with the old nickname is the client's own                      *)
<1>4. \A ch \in DOMAIN channels : \A m \in DOMAIN channels[ch].users :
         /\ m \in Nicks /\ m # n /\ m # NoNick
         /\ channels[ch].users[m] \in DOMAIN users
         /\ users[channels[ch].users[m]].nick = m
         /\ users[channels[ch].users[m]].logged
         /\ m # old => channels[ch].users[m] # u
         /\ m = old => channels[ch].users[m] = u
  <2> TAKE ch \in DOMAIN channels
  <2> TAKE m \in DOMAIN channels[ch].users
  <2>1. /\ m \in Nicks /\ m # NoNick
        /\ channels[ch].users[m] \in DOMAIN users
        /\ users[channels[ch].users[m]].nick = m
        /\ users[channels[ch].users[m]].logged
    BY NamesAssumption DEF IInv, ChannelsInv, IsChannel, MembersLive, NoNick
  <2>2. m = old => channels[ch].users[m] = u
    BY <2>1 DEF IInv, UsersInv, NickUnique
  <2> QED
    BY <1>1, <2>1, <2>2
<1>5. \A ch \in DOMAIN channels :
         /\ IsChannel(channels[ch]) /\ IsFiniteSet(DOMAIN channels[ch].users)
         /\ Cardinality(DOMAIN channels[ch].users) <= LimitUsers + 1
         /\ channels[ch].founder <= accepted
         /\ Len(channels[ch].chops) = 1
         /\ channels[ch].chops[1] \in Nicks /\ channels[ch].chops[1] # NoNick
         /\ channels[ch].founder \in DOMAIN users =>
              channels[ch].chops[1] = users[channels[ch].founder].nick
  BY NamesAssumption
     DEF IInv, ChannelsInv, LimitsHold, FounderKeepsChop, IsChannel, NoNick
<1>6. CASE old = NoNick
  <2>1. channels' = channels
    BY <1>2, <1>6
  <2>2. MembersLive'
    BY <1>1, <1>4, <1>6, <2>1 DEF MembersLive
  <2>3. FounderKeepsChop'
    BY <1>1, <1>5, <1>6, <2>1 DEF FounderKeepsChop
  <2>4. LimitsHold'
    BY <2>1 DEF IInv, ChannelsInv, LimitsHold, Groups
  <2>5. ChannelsInv'
    BY <1>2, <1>5, <2>1, <2>2, <2>3, <2>4 DEF IInv, ChannelsInv
  <2> QED
    BY <1>1, <1>3, <2>5 DEF IInv
<1>7. CASE old # NoNick
  <2>1. /\ channels' = [ch \in DOMAIN channels |-> Renamed(channels[ch], old, n, u)]
        /\ DOMAIN channels' = DOMAIN channels
    BY <1>2, <1>7
  <2>2. \A ch \in DOMAIN channels : Moved(channels[ch], channels'[ch], old, n, u)
    <3> TAKE ch \in DOMAIN channels
    <3>1. /\ IsChannel(channels[ch]) /\ Len(channels[ch].chops) = 1
          /\ IsFiniteSet(DOMAIN channels[ch].users)
          /\ Cardinality(DOMAIN channels[ch].users) <= LimitUsers + 1
          /\ n \notin DOMAIN channels[ch].users
          /\ u \in Conns
      BY <1>2, <1>4, <1>5
    <3>2. channels'[ch] = Renamed(channels[ch], old, n, u)
      BY <2>1
    <3> HIDE DEF old
    <3> QED
      BY <3>1, <3>2, RenamedFacts
  <2>3. MembersLive'
    <3> SUFFICES ASSUME NEW ch \in DOMAIN channels,
                        NEW m \in DOMAIN channels'[ch].users
                 PROVE  LET c == channels'[ch].users[m] IN
                        /\ c \in DOMAIN users'
                        /\ users'[c].nick = m
                        /\ users'[c].logged
      BY <2>1 DEF MembersLive
    <3>1. CASE old \in DOMAIN channels[ch].users /\ m = n
      BY <1>1, <1>4, <2>2, <3>1 DEF Moved
    <3>2. CASE old \in DOMAIN channels[ch].users /\ m # n
      <4>1. /\ m \in DOMAIN channels[ch].users /\ m # old
            /\ channels'[ch].users[m] = channels[ch].users[m]
        BY <2>2, <3>2 DEF Moved
      <4> QED
        BY <1>1, <1>4, <4>1
    <3>3. CASE old \notin DOMAIN channels[ch].users
      <4>1. /\ m \in DOMAIN channels[ch].users /\ m # old
            /\ channels'[ch].users[m] = channels[ch].users[m]
        BY <2>2, <3>3 DEF Moved
      <4> QED
        BY <1>1, <1>4, <4>1
    <3> QED
      BY <3>1, <3>2, <3>3
  <2>4. FounderKeepsChop'
    <3> SUFFICES ASSUME NEW ch \in DOMAIN channels
                 PROVE  /\ Len(channels'[ch].chops) = 1
                        /\ channels'[ch].founder \in DOMAIN users =>
                             channels'[ch].chops[1] = users'[channels[ch].founder].nick
      BY <1>1, <2>1, <2>2 DEF FounderKeepsChop, Moved
    <3>1. CASE channels[ch].chops[1] = old
      <4>1. Len(channels'[ch].chops) = 1 /\ channels'[ch].chops[1] = n
        BY <2>2, <3>1 DEF Moved
      <4>2. channels[ch].founder \in DOMAIN users => channels[ch].founder = u
        BY <1>5, <1>7, <3>1 DEF IInv, UsersInv, NickUnique
      <4>3. channels'[ch].founder = channels[ch].founder
        BY <2>2 DEF Moved
      <4> QED
        BY <1>1, <4>1, <4>2, <4>3
    <3>2. CASE channels[ch].chops[1] # old
      <4>1. /\ Len(channels'[ch].chops) = 1
            /\ channels'[ch].chops[1] = channels[ch].chops[1]
            /\ channels'[ch].founder = channels[ch].founder
        BY <2>2, <3>2 DEF Moved
      <4>2. channels[ch].founder \in DOMAIN users => channels[ch].founder # u
        BY <1>5, <3>2
      <4> QED
        BY <1>1, <1>5, <4>1, <4>2
    <3> QED
      BY <3>1, <3>2
  <2>5. \A m \in Nicks :
           Cardinality({ch \in DOMAIN channels' : m \in DOMAIN channels'[ch].users})
              <= MaxGroups + 1
    <3> TAKE m \in Nicks
    <3> DEFINE G(x) == {ch \in DOMAIN channels : x \in DOMAIN channels[ch].users}
               H == {ch \in DOMAIN channels' : m \in DOMAIN channels'[ch].users}
    <3>1. \A x \in Nicks : Cardinality(G(x)) <= MaxGroups + 1
      BY DEF IInv, ChannelsInv, LimitsHold, Groups
    <3>2. old \in Nicks
      BY <1>7 DEF IInv, UsersInv, User
    <3>3. CASE m = n
      <4>1. H = G(old)
        <5>1. \A ch \in DOMAIN channels :
                 n \in DOMAIN channels'[ch].users <=> old \in DOMAIN channels[ch].users
          BY <1>4, <2>2 DEF Moved
        <5> QED
          BY <2>1, <3>3, <5>1
      <4> QED
        BY <3>1, <3>2, <4>1
    <3>4. CASE m = old
      <4>1. H = {}
        <5>1. \A ch \in DOMAIN channels : old \notin DOMAIN channels'[ch].users
          BY <1>1, <2>2 DEF Moved
        <5> QED
          BY <2>1, <3>4, <5>1
      <4> HIDE DEF H
      <4>2. Cardinality(H) = 0
        BY <4>1, FS_EmptySet
      <4>3. Cardinality(H) <= MaxGroups + 1
        BY <4>2, BoundsAssumption
      <4> QED
        BY <4>3 DEF H
    <3>5. CASE m # n /\ m # old
      <4>1. H = G(m)
        <5>1. \A ch \in DOMAIN channels :
                 m \in DOMAIN channels'[ch].users <=> m \in DOMAIN channels[ch].users
          BY <2>2, <3>5 DEF Moved
        <5> QED
          BY <2>1, <5>1
      <4> QED
        BY <3>1, <4>1
    <3> QED
      BY <3>3, <3>4, <3>5
  <2>6. LimitsHold'
    BY <2>1, <2>2, <2>5 DEF LimitsHold, Groups, Moved
  <2>7. /\ DOMAIN channels' \subseteq Chans
        /\ channels' = [ch \in DOMAIN channels' |-> channels'[ch]]
    BY <2>1 DEF IInv, ChannelsInv
  <2>8. \A ch \in DOMAIN channels' : channels'[ch].founder <= accepted'
    BY <1>2, <1>5, <2>1, <2>2 DEF Moved
  <2>9. ChannelsInv'
    BY <2>1, <2>2, <2>3, <2>4, <2>6, <2>7, <2>8 DEF ChannelsInv, Moved
  <2> QED
    BY <1>1, <1>3, <2>9 DEF IInv
<1> QED
  BY <1>6, <1>7

-----------------------------------------------------------------------------
(* The invariant                                                           *)

LEMMA InitInv == Init => IInv
<1> SUFFICES ASSUME Init PROVE IInv
  OBVIOUS
<1>1. UsersInv
  BY DEF Init, UsersInv, NickUnique, RegistrationOrder, OperKeepsRights
<1>2. LimitsHold
  <2>1. \A n \in Nicks : Groups(n) = 0
    <3> TAKE n \in Nicks
    <3>1. {ch \in DOMAIN channels : n \in DOMAIN channels[ch].users} = {}
      BY DEF Init
    <3> QED
      BY <3>1, FS_EmptySet DEF Groups
  <2> QED
    BY <2>1, BoundsAssumption DEF Init, LimitsHold
<1>3. ChannelsInv
  BY <1>2 DEF Init, ChannelsInv, MembersLive, FounderKeepsChop
<1>4. ThreadInv
  BY JobFacts, ConnsAssumption DEF Init, ThreadInv, NoConn
<1> QED
  BY <1>1, <1>3, <1>4 DEF IInv

(* A step that is over with a QUIT, whoever quits.                         *)
LEMMA QuittingInv ==
    ASSUME IInv, NEW q \in DOMAIN users, NEW v \in DOMAIN users, QuitUser(q, v),
           \/ job' = Idle
           \/ \E fd \in Fds : job' = TailOf(fd) \/ job' = BlankOf(fd)
    PROVE  IInv'
<1>1. /\ UsersInv' /\ ChannelsInv'
      /\ peer' \in [Fds -> Conns \cup {NoConn}]
      /\ accepted' = accepted /\ up' = up
  BY QuitUserInv
<1>2. job' \in Job /\ job'.kind # "join"
  <2>1. CASE job' = Idle
    BY <2>1, JobFacts
  <2>2. ASSUME NEW fd \in Fds, job' = TailOf(fd) \/ job' = BlankOf(fd)
        PROVE  job' \in Job /\ job'.kind # "join"
    BY <2>2, JobFacts
  <2> QED
    BY <2>1, <2>2
<1>3. ThreadInv'
  BY <1>1, <1>2 DEF IInv, ThreadInv
<1> QED
  BY <1>1, <1>3 DEF IInv

LEMMA DisconnectInv ==
    ASSUME IInv, NEW fd \in Fds, NEW u \in DOMAIN users, NEW v \in DOMAIN users,
           Disconnect(fd, u, v) \/ Expired(fd, u, v)
    PROVE  IInv'
  BY QuittingInv DEF Disconnect, Expired

LEMMA CommandInv ==
    ASSUME IInv, NEW fd \in Fds, NEW u \in DOMAIN users, Command(fd, u)
    PROVE  IInv'
<1>1. CASE Ignored(fd, u)
  BY <1>1, IgnoredInv
<1>2. CASE Pass(fd, u)
  BY <1>2, PassInv
<1>3. ASSUME NEW n \in Nicks, Nick(fd, u, n) PROVE IInv'
  BY <1>3, NickInv
<1>4. CASE UserCmd(fd, u)
  BY <1>4, UserCmdInv
<1>5. ASSUME NEW v \in DOMAIN users, Quit(fd, u, v) PROVE IInv'
  BY <1>5, QuittingInv DEF Quit
<1>6. ASSUME NEW q \in DOMAIN users, Kill(fd, u, q) PROVE IInv'
  BY <1>6, QuittingInv DEF Kill
<1>7. CASE Oper(fd, u)
  BY <1>7, OperInv
<1>8. ASSUME NEW S \in SUBSET Chans, Part(fd, u, S) PROVE IInv'
  BY <1>8, PartInv
<1>9. ASSUME NEW ch \in Chans, NEW n \in Nicks, Kick(fd, u, ch, n) PROVE IInv'
  BY <1>9, KickInv
<1>10. ASSUME NEW list \in JoinLists, Join(fd, u, list) PROVE IInv'
  BY <1>10, JoinInv
<1> QED
  BY <1>1, <1>2, <1>3, <1>4, <1>5, <1>6, <1>7, <1>8, <1>9, <1>10 DEF Command, Remains

LEMMA JoinLoopInv ==
    ASSUME IInv, JoinLoop
    PROVE  IInv'
<1>1. up \in BOOLEAN
  BY DEF IInv, ThreadInv
<1>2. CASE JoinRefused
  BY <1>1, <1>2, JoinLeavesInv DEF JoinRefused
<1>3. CASE JoinEnter
  BY <1>3, JoinEnterInv
<1>4. CASE JoinCreate
  BY <1>4, JoinCreateInv
<1>5. CASE JoinTooMany
  BY <1>5, JoinLeavesInv DEF JoinTooMany
<1>6. CASE JoinDone
  BY <1>1, <1>6, JoinLeavesInv DEF JoinDone
<1> QED
  BY <1>2, <1>3, <1>4, <1>5, <1>6 DEF JoinLoop

(* The process may end, or nothing happens.                                *)
LEMMA NothingMovesInv ==
    ASSUME IInv, up' \in BOOLEAN,
           UNCHANGED <<users, operators, channels, peer, accepted, job>>
    PROVE  IInv'
<1>1. UsersInv'
  BY DEF IInv, UsersInv, NickUnique, RegistrationOrder, OperKeepsRights
<1>2. UsersKept
  BY UsersAreConns DEF UsersKept, IInv, ThreadInv
<1>3. ChannelsInv'
  BY <1>2, ChannelsKeptInv
<1>4. ThreadInv'
  BY DEF IInv, ThreadInv
<1> QED
  BY <1>1, <1>3, <1>4 DEF IInv

LEMMA NextInv == IInv /\ [Next]_vars => IInv'
<1> SUFFICES ASSUME IInv, [Next]_vars PROVE IInv'
  OBVIOUS
<1>1. CASE AcceptFails
  BY <1>1, NothingMovesInv DEF AcceptFails
<1>2. ASSUME NEW fd \in Fds, Accept(fd) PROVE IInv'
  BY <1>2, AcceptInv
<1>3. ASSUME NEW fd \in Fds,
             ReadOrphan(fd) \/ (\E u \in DOMAIN users : Misread(fd, u))
      PROVE  IInv'
  BY <1>3, NothingMovesInv DEF ReadOrphan, Misread
<1>4. ASSUME NEW fd \in Fds, NEW u \in DOMAIN users, Command(fd, u) \/ Blank(fd, u)
      PROVE  IInv'
  BY <1>4, CommandInv, IgnoredInv
<1>5. ASSUME NEW fd \in Fds, NEW u \in DOMAIN users, NEW v \in DOMAIN users,
             Disconnect(fd, u, v) \/ Expired(fd, u, v)
      PROVE  IInv'
  BY <1>5, DisconnectInv
<1>6. CASE JoinLoop
  BY <1>6, JoinLoopInv
<1>7. CASE UNCHANGED vars
  <2>1. up \in BOOLEAN
    BY DEF IInv, ThreadInv
  <2> QED
    BY <1>7, <2>1, NothingMovesInv DEF vars
<1> QED
  BY <1>1, <1>2, <1>3, <1>4, <1>5, <1>6, <1>7 DEF Next

(* The tables are consistent in every reachable state.                     *)
THEOREM Invariant == Spec => []IInv
  BY InitInv, NextInv, PTL DEF Spec

(* Type correctness.                                                       *)
THEOREM TypeCorrect == Spec => []TypeOK
<1>1. IInv => TypeOK
  BY DEF IInv, UsersInv, ChannelsInv, ThreadInv, TypeOK
<1> QED
  BY <1>1, Invariant, PTL

(* No two clients have the same nickname, whatever they send and in        *)
(* whatever order, and however many there are.                             *)
THEOREM NicknamesUnique == Spec => []NickUnique
<1>1. IInv => NickUnique
  BY DEF IInv, UsersInv
<1> QED
  BY <1>1, Invariant, PTL

(* Nobody gets a nickname or is logged in without the password.            *)
THEOREM RegistrationOrdered == Spec => []RegistrationOrder
<1>1. IInv => RegistrationOrder
  BY DEF IInv, UsersInv
<1> QED
  BY <1>1, Invariant, PTL

(* The pointers the channels keep into _users never dangle, although NICK  *)
(* frees and replaces the node they point to and QUIT may erase another    *)
(* node than the one of the client that quits.                             *)
THEOREM NoDanglingMember == Spec => []MembersLive
<1>1. IInv => MembersLive
  BY DEF IInv, ChannelsInv
<1> QED
  BY <1>1, Invariant, PTL

(* The creator of a channel is its channel operator while it is connected. *)
THEOREM FounderStaysChop == Spec => []FounderKeepsChop
<1>1. IInv => FounderKeepsChop
  BY DEF IInv, ChannelsInv
<1> QED
  BY <1>1, Invariant, PTL

(* Operator rights, once taken, last as long as the connection.            *)
THEOREM OperatorsKeepRights == Spec => []OperKeepsRights
<1>1. IInv => OperKeepsRights
  BY DEF IInv, UsersInv
<1> QED
  BY <1>1, Invariant, PTL

(* At most one user more than _limit_users on a channel and one channel    *)
(* more than the limit for a user.                                         *)
THEOREM LimitsAreKept == Spec => []LimitsHold
<1>1. IInv => LimitsHold
  BY DEF IInv, ChannelsInv
<1> QED
  BY <1>1, Invariant, PTL

-----------------------------------------------------------------------------
(* Registry implements ChatRooms: tables keyed by nickname, in which nodes *)
(* are freed and replaced, behave like sets of clients.  What carries the  *)
(* proof is IInv: an entry of a channel and the record it points to have   *)
(* the same nickname, and no two records have one, so that removing a      *)
(* nickname from a channel removes exactly one client.                     *)

(* Shapes of steps                                                         *)

NamesKept ==
    /\ DOMAIN users' = DOMAIN users
    /\ \A c \in DOMAIN users : users'[c].nick = users[c].nick

RoomsKept == \A ch \in Chans : RoomOf(ch)' = RoomOf(ch)

(* Client u is out of the rooms S, and nobody else is.                     *)
RoomsLeft(u, S) ==
    \A ch \in Chans :
        RoomOf(ch)' = IF ch \in S THEN RoomOf(ch) \ {u} ELSE RoomOf(ch)

Occupants(channel) == {channel.users[m] : m \in DOMAIN channel.users}

LEMMA Stutters ==
    ASSUME NamesKept, RoomsKept
    PROVE  UNCHANGED Promise!cvars
<1>1. \A c \in Conns : NameOf(c)' = NameOf(c)
  BY DEF NameOf, NamesKept
<1>2. [c \in Conns |-> NameOf(c)]' = [c \in Conns |-> NameOf(c)]
  BY <1>1
<1>3. [ch \in Chans |-> RoomOf(ch)]' = [ch \in Chans |-> RoomOf(ch)]
  BY DEF RoomsKept
<1> QED
  BY <1>2, <1>3 DEF NamesKept, Promise!cvars

LEMMA ChannelsKeepRooms ==
    ASSUME channels' = channels
    PROVE  RoomsKept
  BY DEF RoomsKept, RoomOf

LEMMA TouchedNamesKept ==
    ASSUME UsersTouched
    PROVE  NamesKept
  BY DEF UsersTouched, NamesKept

(* Taking a client's nickname out of a channel takes that client out, and  *)
(* nobody else.                                                            *)
LEMMA NicknameIsClient ==
    ASSUME IInv, NEW ch \in DOMAIN channels, NEW u \in DOMAIN users
    PROVE  /\ Occupants(WithoutUser(channels[ch], users[u].nick)) = RoomOf(ch) \ {u}
           /\ users[u].nick \notin DOMAIN channels[ch].users => u \notin RoomOf(ch)
<1> DEFINE n == users[u].nick
           c == channels[ch]
           d == WithoutUser(c, n)
<1>1. /\ DOMAIN d.users = DOMAIN c.users \ {n}
      /\ \A m \in DOMAIN d.users : d.users[m] = c.users[m]
  <2>1. IsChannel(c)
    BY DEF IInv, ChannelsInv
  <2> HIDE DEF n, c
  <2> QED
    BY <2>1, WithoutUserFacts
<1>2. \A m \in DOMAIN c.users : c.users[m] = u <=> m = n
  <2> TAKE m \in DOMAIN c.users
  <2>1. /\ c.users[m] \in DOMAIN users
        /\ users[c.users[m]].nick = m
        /\ m \in Nicks
    BY DEF IInv, ChannelsInv, MembersLive, IsChannel
  <2>2. m # NoNick
    BY <2>1, NamesAssumption DEF NoNick
  <2> QED
    BY <2>1, <2>2 DEF IInv, UsersInv, NickUnique
<1>3. RoomOf(ch) = Occupants(c)
  BY DEF RoomOf, Occupants
<1> HIDE DEF d, c, n
<1>4. Occupants(d) = Occupants(c) \ {u}
  BY <1>1, <1>2 DEF Occupants
<1>5. n \notin DOMAIN c.users => u \notin Occupants(c)
  BY <1>2 DEF Occupants
<1> QED
  BY <1>3, <1>4, <1>5 DEF n, c, d

(* The effect on the rooms of channels that lose a client or go.           *)
LEMMA ThinnedRooms ==
    ASSUME IInv, NEW u \in DOMAIN users, NEW S \in SUBSET Chans,
           DOMAIN channels' \subseteq DOMAIN channels,
           \A ch \in DOMAIN channels' :
              channels'[ch] = IF ch \in S
                              THEN WithoutUser(channels[ch], users[u].nick)
                              ELSE channels[ch],
           \A ch \in DOMAIN channels \ DOMAIN channels' :
              ch \in S /\ IsEmptyChannel(WithoutUser(channels[ch], users[u].nick))
    PROVE  RoomsLeft(u, S)
<1> SUFFICES ASSUME NEW ch \in Chans
             PROVE  RoomOf(ch)' = IF ch \in S THEN RoomOf(ch) \ {u} ELSE RoomOf(ch)
  BY DEF RoomsLeft
<1>1. CASE ch \notin DOMAIN channels
  BY <1>1 DEF RoomOf
<1>2. CASE ch \in DOMAIN channels'
  <2>1. RoomOf(ch)' = Occupants(channels'[ch]) /\ RoomOf(ch) = Occupants(channels[ch])
    BY <1>2 DEF RoomOf, Occupants
  <2> QED
    BY <1>2, <2>1, NicknameIsClient
<1>3. CASE ch \in DOMAIN channels \ DOMAIN channels'
  <2>1. Occupants(WithoutUser(channels[ch], users[u].nick)) = {}
    BY <1>3 DEF IsEmptyChannel, Occupants
  <2>2. RoomOf(ch)' = {}
    BY <1>3 DEF RoomOf
  <2> QED
    BY <1>3, <2>1, <2>2, NicknameIsClient
<1> QED
  BY <1>1, <1>2, <1>3

-----------------------------------------------------------------------------
(* The steps: each is a step of ChatRooms or changes nothing there         *)

LEMMA AcceptArrives ==
    ASSUME IInv, NEW fd \in Fds, Accept(fd)
    PROVE  Promise!Arrive(accepted + 1) /\ accepted + 1 \in Conns
<1> DEFINE new == accepted + 1
<1>1. new \in Conns /\ new \notin DOMAIN users
  BY ConnsAssumption DEF Accept, IInv, UsersInv, ThreadInv, Conns
<1>2. /\ DOMAIN users' = DOMAIN users \cup {new}
      /\ \A c \in DOMAIN users : users'[c] = users[c]
      /\ users'[new].nick = NoNick
      /\ channels' = channels
  BY <1>1 DEF Accept
<1> HIDE DEF new
<1>3. \A c \in Conns : NameOf(c)' = NameOf(c)
  BY <1>1, <1>2 DEF NameOf
<1>4. [c \in Conns |-> NameOf(c)]' = [c \in Conns |-> NameOf(c)]
  BY <1>3
<1>5. [ch \in Chans |-> RoomOf(ch)]' = [ch \in Chans |-> RoomOf(ch)]
  BY <1>2, ChannelsKeepRooms DEF RoomsKept
<1> QED
  BY <1>1, <1>2, <1>4, <1>5 DEF Promise!Arrive, new

LEMMA QuitUserDeparts ==
    ASSUME IInv, NEW q \in DOMAIN users, NEW v \in DOMAIN users, QuitUser(q, v)
    PROVE  Promise!Depart(v)
<1> DEFINE n == users[q].nick
           left == [ch \in DOMAIN channels |-> WithoutUser(channels[ch], n)]
           empties == {ch \in DOMAIN left : IsEmptyChannel(left[ch])}
<1>1. /\ users[v].nick = n
      /\ users' = [c \in DOMAIN users \ {v} |-> users[c]]
      /\ channels' = [ch \in Swept(DOMAIN left, empties) |-> left[ch]]
  BY DEF QuitUser, Found
<1>2. /\ DOMAIN channels' \subseteq DOMAIN channels
      /\ \A ch \in DOMAIN channels' :
            channels'[ch] = WithoutUser(channels[ch], n)
      /\ \A ch \in DOMAIN channels \ DOMAIN channels' :
            IsEmptyChannel(WithoutUser(channels[ch], n))
  BY <1>1 DEF Swept
<1>3. RoomsLeft(v, Chans)
  <2>1. DOMAIN channels \subseteq Chans
    BY DEF IInv, ChannelsInv
  <2> HIDE DEF n
  <2> QED
    BY <1>1, <1>2, <2>1, ThinnedRooms
<1>4. \A c \in Conns : NameOf(c)' = IF c = v THEN NoNick ELSE NameOf(c)
  BY <1>1 DEF NameOf
<1>5. [c \in Conns |-> NameOf(c)]'
         = [[c \in Conns |-> NameOf(c)] EXCEPT ![v] = NoNick]
  BY <1>4
<1>6. [ch \in Chans |-> RoomOf(ch)]' = Promise!Without(v, Chans)
  BY <1>3 DEF RoomsLeft, Promise!Without
<1>7. (DOMAIN users)' = DOMAIN users \ {v}
  BY <1>1
<1> QED
  BY <1>5, <1>6, <1>7 DEF Promise!Depart

LEMMA PartLeaves ==
    ASSUME IInv, NEW fd \in Fds, NEW u \in DOMAIN users,
           NEW S \in SUBSET Chans, Part(fd, u, S)
    PROVE  Promise!Leave(u, S)
<1> DEFINE n == users[u].nick
           on(ch) == ch \in S /\ n \in DOMAIN channels[ch].users
           T == {ch \in DOMAIN channels : on(ch)}
<1>1. /\ users' = Touch(u)
      /\ channels' =
           [ch \in {c \in DOMAIN channels :
                      on(c) => ~IsEmptyChannel(WithoutUser(channels[c], n))} |->
              IF on(ch) THEN WithoutUser(channels[ch], n) ELSE channels[ch]]
  BY DEF Part
<1>2. NamesKept
  BY <1>1, TouchFacts, TouchedNamesKept DEF IInv
<1>3. RoomsLeft(u, T)
  <2>1. /\ DOMAIN channels' \subseteq DOMAIN channels
        /\ \A ch \in DOMAIN channels' :
              channels'[ch] = IF ch \in T THEN WithoutUser(channels[ch], n)
                              ELSE channels[ch]
        /\ \A ch \in DOMAIN channels \ DOMAIN channels' :
              ch \in T /\ IsEmptyChannel(WithoutUser(channels[ch], n))
    BY <1>1
  <2>2. T \in SUBSET Chans
    BY DEF IInv, ChannelsInv
  <2> HIDE DEF T
  <2> QED
    BY <2>1, <2>2, ThinnedRooms
(* on the channels of the list where it is not, the client has nothing to  *)
(* leave                                                                   *)
<1>4. RoomsLeft(u, S)
  <2> SUFFICES ASSUME NEW ch \in Chans, ch \in S \ T
               PROVE  u \notin RoomOf(ch)
    BY <1>3 DEF RoomsLeft
  <2>1. CASE ch \in DOMAIN channels
    BY <2>1, NicknameIsClient
  <2>2. CASE ch \notin DOMAIN channels
    BY <2>2 DEF RoomOf
  <2> QED
    BY <2>1, <2>2
<1>5. \A c \in Conns : NameOf(c)' = NameOf(c)
  BY <1>2 DEF NameOf, NamesKept
<1>6. [c \in Conns |-> NameOf(c)]' = [c \in Conns |-> NameOf(c)]
  BY <1>5
<1>7. [ch \in Chans |-> RoomOf(ch)]' = Promise!Without(u, S)
  BY <1>4 DEF RoomsLeft, Promise!Without
<1> QED
  BY <1>2, <1>6, <1>7 DEF NamesKept, Promise!Leave

LEMMA KickExpels ==
    ASSUME IInv, NEW fd \in Fds, NEW u \in DOMAIN users,
           NEW ch \in Chans, NEW n \in Nicks, Kick(fd, u, ch, n)
    PROVE  LET c == channels[ch].users[n] IN
           c \in DOMAIN users /\ Promise!Expel(u, c, ch)
<1> DEFINE c == channels[ch].users[n]
           after == WithoutUser(channels[ch], n)
<1>1. /\ users' = Touch(u)
      /\ ch \in DOMAIN channels
      /\ users[u].nick \in DOMAIN channels[ch].users
      /\ n \in DOMAIN channels[ch].users
      /\ channels' = IF IsEmptyChannel(after)
                     THEN [x \in DOMAIN channels \ {ch} |-> channels[x]]
                     ELSE [channels EXCEPT ![ch] = after]
  BY DEF Kick
<1>2. NamesKept
  BY <1>1, TouchFacts, TouchedNamesKept DEF IInv
<1>3. c \in DOMAIN users /\ users[c].nick = n
  BY <1>1 DEF IInv, ChannelsInv, MembersLive
<1>4. u \in RoomOf(ch)
  <2>1. LET d == channels[ch].users[users[u].nick] IN
        d \in DOMAIN users /\ users[d].nick = users[u].nick /\ users[u].nick # NoNick
    BY <1>1, NamesAssumption DEF IInv, ChannelsInv, MembersLive, IsChannel, NoNick
  <2>2. channels[ch].users[users[u].nick] = u
    BY <2>1 DEF IInv, UsersInv, NickUnique
  <2> QED
    BY <1>1, <2>2 DEF RoomOf
<1>5. RoomsLeft(c, {ch})
  <2>1. channels = [x \in DOMAIN channels |-> channels[x]]
    BY DEF IInv, ChannelsInv
  <2>2. /\ DOMAIN channels' \subseteq DOMAIN channels
        /\ \A x \in DOMAIN channels' :
              channels'[x] = IF x \in {ch} THEN after ELSE channels[x]
        /\ \A x \in DOMAIN channels \ DOMAIN channels' :
              x \in {ch} /\ IsEmptyChannel(after)
    <3> HIDE DEF after
    <3> QED
      BY <1>1, <2>1
  <2>3. /\ \A x \in DOMAIN channels' :
              channels'[x] = IF x \in {ch} THEN WithoutUser(channels[x], users[c].nick)
                             ELSE channels[x]
        /\ \A x \in DOMAIN channels \ DOMAIN channels' :
              x \in {ch} /\ IsEmptyChannel(WithoutUser(channels[x], users[c].nick))
    BY <1>3, <2>2
  <2> HIDE DEF c
  <2> QED
    BY <1>3, <2>2, <2>3, ThinnedRooms
<1>6. \A x \in Conns : NameOf(x)' = NameOf(x)
  BY <1>2 DEF NameOf, NamesKept
<1>7. [x \in Conns |-> NameOf(x)]' = [x \in Conns |-> NameOf(x)]
  BY <1>6
<1>8. [x \in Chans |-> RoomOf(x)]' = Promise!Without(c, {ch})
  <2> HIDE DEF c
  <2> QED
    BY <1>5 DEF RoomsLeft, Promise!Without
<1>9. u \in [x \in Chans |-> RoomOf(x)][ch]
  BY <1>4
<1> QED
  BY <1>2, <1>3, <1>7, <1>8, <1>9 DEF NamesKept, Promise!Expel

(* A rename moves every entry of the client to its new nickname, and back  *)
(* into the same channels.                                                 *)
LEMMA NickKeepsRooms ==
    ASSUME IInv, NEW fd \in Fds, NEW u \in DOMAIN users, NEW n \in Nicks,
           Nick(fd, u, n)
    PROVE  RoomsKept
<1> DEFINE old == users[u].nick
<1>1. /\ DOMAIN users' = DOMAIN users
      /\ \A c \in DOMAIN users \ {u} : users'[c] = users[c]
      /\ users'[u].nick = n
      /\ \A c \in DOMAIN users : users[c].nick # n
  BY NickUsersInv
<1>2. channels' = IF old = NoNick THEN channels
                  ELSE [ch \in DOMAIN channels |-> Renamed(channels[ch], old, n, u)]
  BY DEF Nick
<1>3. u \in Conns
  BY UsersAreConns
<1>4. \A ch \in DOMAIN channels : \A m \in DOMAIN channels[ch].users :
         /\ m # n
         /\ m = old => channels[ch].users[m] = u
  BY <1>1, NamesAssumption
     DEF IInv, ChannelsInv, IsChannel, MembersLive, NoNick, UsersInv, NickUnique
<1>5. RoomsKept
  <2>1. CASE old = NoNick
    BY <1>2, <2>1, ChannelsKeepRooms
  <2>2. ASSUME old # NoNick, NEW ch \in DOMAIN channels
        PROVE  Occupants(channels'[ch]) = Occupants(channels[ch])
    <3>1. /\ IsChannel(channels[ch]) /\ Len(channels[ch].chops) = 1
          /\ IsFiniteSet(DOMAIN channels[ch].users)
          /\ Cardinality(DOMAIN channels[ch].users) <= LimitUsers + 1
          /\ n \notin DOMAIN channels[ch].users
      BY <1>4 DEF IInv, ChannelsInv, LimitsHold, FounderKeepsChop
    <3>2. channels'[ch] = Renamed(channels[ch], old, n, u)
      BY <1>2, <2>2
    <3>3. Moved(channels[ch], channels'[ch], old, n, u)
      <4> HIDE DEF old
      <4> QED
        BY <1>3, <3>1, <3>2, RenamedFacts
    <3>4. CASE old \notin DOMAIN channels[ch].users
      BY <3>3, <3>4 DEF Moved, Occupants
    <3>5. CASE old \in DOMAIN channels[ch].users
      <4> DEFINE before == channels[ch].users
                 after == channels'[ch].users
      <4>1. /\ DOMAIN after = (DOMAIN before \ {old}) \cup {n}
            /\ after[n] = u /\ before[old] = u
            /\ \A m \in DOMAIN before \ {old} : after[m] = before[m]
        BY <1>4, <3>3, <3>5 DEF Moved
      <4>2. {after[m] : m \in DOMAIN after} = {before[m] : m \in DOMAIN before}
        <5> HIDE DEF before, after, old
        <5>0. old \in DOMAIN before
          BY <3>5 DEF before
        <5>1. ASSUME NEW m \in DOMAIN after
              PROVE  \E k \in DOMAIN before : before[k] = after[m]
          BY <4>1, <5>0, <5>1
        <5>2. ASSUME NEW m \in DOMAIN before
              PROVE  \E k \in DOMAIN after : after[k] = before[m]
          BY <4>1, <5>0, <5>2
        <5> QED
          BY <5>1, <5>2
      <4> QED
        BY <4>2 DEF Occupants
    <3> QED
      BY <3>4, <3>5
  <2>3. ASSUME old # NoNick, NEW ch \in Chans
        PROVE  RoomOf(ch)' = RoomOf(ch)
    <3>1. DOMAIN channels' = DOMAIN channels
      BY <1>2, <2>3
    <3>2. CASE ch \in DOMAIN channels
      BY <2>2, <2>3, <3>1, <3>2 DEF RoomOf, Occupants
    <3>3. CASE ch \notin DOMAIN channels
      BY <3>1, <3>3 DEF RoomOf
    <3> QED
      BY <3>2, <3>3
  <2> QED
    BY <2>1, <2>3 DEF RoomsKept
<1> QED
  BY <1>5

LEMMA NickRenames ==
    ASSUME IInv, NEW fd \in Fds, NEW u \in DOMAIN users, NEW n \in Nicks,
           Nick(fd, u, n)
    PROVE  Promise!Rename(u, n)
<1>1. /\ DOMAIN users' = DOMAIN users
      /\ \A c \in DOMAIN users \ {u} : users'[c] = users[c]
      /\ users'[u].nick = n
      /\ \A c \in DOMAIN users : users[c].nick # n
  BY NickUsersInv
<1>2. DOMAIN users \subseteq Conns
  BY UsersAreConns
<1>3. RoomsKept
  BY NickKeepsRooms
<1>4. \A c \in Conns : NameOf(c)' = IF c = u THEN n ELSE NameOf(c)
  BY <1>1 DEF NameOf
<1>5. [c \in Conns |-> NameOf(c)]'
         = [[c \in Conns |-> NameOf(c)] EXCEPT ![u] = n]
  BY <1>4
<1>6. [ch \in Chans |-> RoomOf(ch)]' = [ch \in Chans |-> RoomOf(ch)]
  BY <1>3 DEF RoomsKept
<1>7. \A c \in DOMAIN users : [d \in Conns |-> NameOf(d)][c] # n
  BY <1>1, <1>2 DEF NameOf
<1> QED
  BY <1>1, <1>5, <1>6, <1>7 DEF Promise!Rename

(* Only JOIN lets somebody in; refused by addUser, it changes nothing.     *)
LEMMA EnterRoom ==
    ASSUME IInv, NEW u \in DOMAIN users, users[u].nick # NoNick, users' = users,
           NEW r \in Chans,
           \A ch \in Chans :
              RoomOf(ch)' = IF ch = r THEN RoomOf(ch) \cup {u} ELSE RoomOf(ch)
    PROVE  Promise!Enter(u, r)
<1>1. u \in Conns
  BY UsersAreConns
<1>2. [c \in Conns |-> NameOf(c)][u] # NoNick
  BY <1>1 DEF NameOf
<1>3. [c \in Conns |-> NameOf(c)]' = [c \in Conns |-> NameOf(c)]
  BY DEF NameOf
<1>4. [ch \in Chans |-> RoomOf(ch)]'
         = [[ch \in Chans |-> RoomOf(ch)] EXCEPT ![r] = @ \cup {u}]
  OBVIOUS
<1> QED
  BY <1>2, <1>3, <1>4 DEF Promise!Enter

LEMMA JoinEnterEnters ==
    ASSUME IInv, JoinEnter
    PROVE  (\E c \in Conns : \E r \in Chans : Promise!Enter(c, r))
           \/ UNCHANGED Promise!cvars
<1>1. PICK ch, n, u : ch = JoinTarget.ch /\ n = JoinNick /\ u = Joiner
  OBVIOUS
<1> DEFINE d == WithUser(channels[ch], n, u)
<1>2. /\ InJoin /\ ch \in DOMAIN channels /\ users' = users
      /\ channels' = [channels EXCEPT ![ch] = d]
      /\ n \notin DOMAIN channels[ch].users
  BY <1>1 DEF JoinEnter, MayNotEnter
<1>3. /\ u \in DOMAIN users /\ u \in Conns
      /\ n \in Nicks /\ users[u].nick = n /\ n # NoNick
  BY <1>1, <1>2, JoinNextFacts, NamesAssumption DEF Joiner, JoinNick, NoNick
<1>4. \/ d.users = channels[ch].users
      \/ /\ DOMAIN d.users = DOMAIN channels[ch].users \cup {n}
         /\ d.users[n] = u
         /\ \A m \in DOMAIN channels[ch].users : d.users[m] = channels[ch].users[m]
  <2>1. /\ IsChannel(channels[ch]) /\ IsFiniteSet(DOMAIN channels[ch].users)
        /\ Cardinality(DOMAIN channels[ch].users) <= LimitUsers + 1
    BY <1>2 DEF IInv, ChannelsInv, LimitsHold
  <2> QED
    BY <1>3, <2>1, WithUserFacts
<1>5. ch \in Chans /\ DOMAIN channels' = DOMAIN channels /\ channels'[ch] = d
      /\ \A x \in DOMAIN channels \ {ch} : channels'[x] = channels[x]
  BY <1>2 DEF IInv, ChannelsInv
<1> HIDE DEF d
<1>6. \A x \in Chans \ {ch} : RoomOf(x)' = RoomOf(x)
  BY <1>5 DEF RoomOf
<1>7. RoomOf(ch)' = Occupants(d) /\ RoomOf(ch) = Occupants(channels[ch])
  BY <1>2, <1>5 DEF RoomOf, Occupants
<1>8. CASE d.users = channels[ch].users
  <2>1. RoomsKept
    BY <1>6, <1>7, <1>8 DEF RoomsKept, Occupants
  <2> QED
    BY <1>2, <2>1, Stutters DEF NamesKept
<1>9. CASE /\ DOMAIN d.users = DOMAIN channels[ch].users \cup {n}
           /\ d.users[n] = u
           /\ \A m \in DOMAIN channels[ch].users : d.users[m] = channels[ch].users[m]
  <2>1. Occupants(d) = Occupants(channels[ch]) \cup {u}
    BY <1>2, <1>9 DEF Occupants
  <2>2. Promise!Enter(u, ch)
    BY <1>2, <1>3, <1>5, <1>6, <1>7, <2>1, EnterRoom
  <2> QED
    BY <1>3, <1>5, <2>2
<1> QED
  BY <1>4, <1>8, <1>9

LEMMA JoinCreateEnters ==
    ASSUME IInv, JoinCreate
    PROVE  \E c \in Conns : \E r \in Chans : Promise!Enter(c, r)
<1>1. PICK ch, n, u, key :
         ch = JoinTarget.ch /\ n = JoinNick /\ u = Joiner /\ key = JoinTarget.key
  OBVIOUS
<1> DEFINE d == NewChannel(n, u, key)
<1>2. /\ InJoin /\ ch \notin DOMAIN channels /\ users' = users
      /\ channels' = [c \in DOMAIN channels \cup {ch} |->
                         IF c = ch THEN d ELSE channels[c]]
  BY <1>1 DEF JoinCreate
<1>3. /\ u \in DOMAIN users /\ u \in Conns
      /\ n \in Nicks /\ users[u].nick = n /\ n # NoNick
      /\ ch \in Chans /\ key \in Keys \cup {NoKey}
  BY <1>1, <1>2, JoinNextFacts, NamesAssumption DEF Joiner, JoinNick, NoNick, Target
<1>4. DOMAIN d.users = {n} /\ d.users[n] = u
  BY <1>3, NewChannelFacts
<1> HIDE DEF d
<1>5. \A x \in Chans \ {ch} : RoomOf(x)' = RoomOf(x)
  BY <1>2 DEF RoomOf
<1>6. RoomOf(ch)' = {u} /\ RoomOf(ch) = {}
  BY <1>2, <1>4 DEF RoomOf
<1>7. Promise!Enter(u, ch)
  BY <1>2, <1>3, <1>5, <1>6, EnterRoom
<1> QED
  BY <1>3, <1>7

-----------------------------------------------------------------------------
(* Refinement                                                              *)

LEMMA CommandImplements ==
    ASSUME IInv, NEW fd \in Fds, NEW u \in DOMAIN users, Command(fd, u)
    PROVE  Promise!CNext \/ UNCHANGED Promise!cvars
<1> USE UsersAreConns
<1>1. ASSUME UsersTouched, channels' = channels
      PROVE  UNCHANGED Promise!cvars
  BY <1>1, TouchedNamesKept, ChannelsKeepRooms, Stutters
<1>2. CASE Ignored(fd, u)
  BY <1>1, <1>2, TouchFacts DEF Ignored, IInv
<1>3. CASE Pass(fd, u)
  <2>1. NamesKept /\ channels' = channels
    BY <1>3 DEF Pass, NamesKept, IInv, UsersInv, User
  <2> QED
    BY <2>1, ChannelsKeepRooms, Stutters
<1>4. ASSUME NEW n \in Nicks, Nick(fd, u, n) PROVE Promise!CNext
  <2>1. Promise!Rename(u, n) /\ u \in Conns
    BY <1>4, NickRenames
  <2> QED
    BY <2>1 DEF Promise!CNext
<1>5. CASE UserCmd(fd, u)
  <2>1. NamesKept /\ channels' = channels
    BY <1>5 DEF UserCmd, NamesKept, IInv, UsersInv, User
  <2> QED
    BY <2>1, ChannelsKeepRooms, Stutters
<1>6. ASSUME NEW q \in DOMAIN users, NEW v \in DOMAIN users, QuitUser(q, v)
      PROVE  Promise!CNext
  BY <1>6, QuitUserDeparts DEF Promise!CNext
<1>7. ASSUME NEW v \in DOMAIN users, Quit(fd, u, v) PROVE Promise!CNext
  BY <1>6, <1>7 DEF Quit
<1>8. ASSUME NEW q \in DOMAIN users, Kill(fd, u, q) PROVE Promise!CNext
  BY <1>6, <1>8 DEF Kill
<1>9. CASE Oper(fd, u)
  <2>1. NamesKept /\ channels' = channels
    BY <1>9 DEF Oper, Touch, NamesKept, IInv, UsersInv, User
  <2> QED
    BY <2>1, ChannelsKeepRooms, Stutters
<1>10. ASSUME NEW S \in SUBSET Chans, Part(fd, u, S) PROVE Promise!CNext
  <2>1. Promise!Leave(u, S) /\ u \in Conns
    BY <1>10, PartLeaves
  <2> QED
    BY <2>1 DEF Promise!CNext
<1>11. ASSUME NEW ch \in Chans, NEW n \in Nicks, Kick(fd, u, ch, n)
       PROVE  Promise!CNext
  <2>1. Promise!Expel(u, channels[ch].users[n], ch)
        /\ u \in Conns /\ channels[ch].users[n] \in Conns
    BY <1>11, KickExpels
  <2> QED
    BY <2>1 DEF Promise!CNext
<1>12. ASSUME NEW list \in JoinLists, Join(fd, u, list)
       PROVE  UNCHANGED Promise!cvars
  BY <1>1, <1>12, TouchFacts DEF Join, IInv
<1> QED
  BY <1>2, <1>3, <1>4, <1>5, <1>7, <1>8, <1>9, <1>10, <1>11, <1>12 DEF Command, Remains

LEMMA JoinLoopImplements ==
    ASSUME IInv, JoinLoop
    PROVE  Promise!CNext \/ UNCHANGED Promise!cvars
<1>1. ASSUME users' = users, channels' = channels
      PROVE  UNCHANGED Promise!cvars
  BY <1>1, ChannelsKeepRooms, Stutters DEF NamesKept
<1>2. CASE JoinEnter
  BY <1>2, JoinEnterEnters DEF Promise!CNext
<1>3. CASE JoinCreate
  BY <1>3, JoinCreateEnters DEF Promise!CNext
<1>4. CASE JoinRefused \/ JoinTooMany \/ JoinDone
  BY <1>1, <1>4 DEF JoinRefused, JoinTooMany, JoinDone
<1> QED
  BY <1>2, <1>3, <1>4 DEF JoinLoop

LEMMA NextImplements ==
    IInv /\ [Next]_vars => [Promise!CNext]_(Promise!cvars)
<1> SUFFICES ASSUME IInv, [Next]_vars
             PROVE  Promise!CNext \/ UNCHANGED Promise!cvars
  OBVIOUS
<1>1. ASSUME users' = users, channels' = channels
      PROVE  UNCHANGED Promise!cvars
  BY <1>1, ChannelsKeepRooms, Stutters DEF NamesKept
<1>2. CASE \/ AcceptFails \/ UNCHANGED vars
           \/ \E fd \in Fds : ReadOrphan(fd) \/ \E u \in DOMAIN users : Misread(fd, u)
  BY <1>1, <1>2 DEF AcceptFails, ReadOrphan, Misread, vars
<1>3. ASSUME NEW fd \in Fds, Accept(fd) PROVE Promise!CNext
  BY <1>3, AcceptArrives DEF Promise!CNext
<1>4. ASSUME NEW fd \in Fds, NEW u \in DOMAIN users, Command(fd, u)
      PROVE  Promise!CNext \/ UNCHANGED Promise!cvars
  BY <1>4, CommandImplements
<1>5. ASSUME NEW fd \in Fds, NEW u \in DOMAIN users, NEW v \in DOMAIN users,
             Disconnect(fd, u, v) \/ Expired(fd, u, v)
      PROVE  Promise!CNext
  BY <1>5, QuitUserDeparts, UsersAreConns DEF Disconnect, Expired, Promise!CNext
<1>6. CASE JoinLoop
  BY <1>6, JoinLoopImplements
<1>7. ASSUME NEW fd \in Fds, NEW u \in DOMAIN users, Blank(fd, u)
      PROVE  UNCHANGED Promise!cvars
  BY <1>7, TouchFacts, TouchedNamesKept, ChannelsKeepRooms, Stutters DEF Blank, IInv
<1> QED
  BY <1>2, <1>3, <1>4, <1>5, <1>6, <1>7 DEF Next

LEMMA InitImplements == Init => Promise!CInit
<1> SUFFICES ASSUME Init PROVE Promise!CInit
  OBVIOUS
<1>1. [c \in Conns |-> NameOf(c)] = [c \in Conns |-> NoNick]
  BY DEF Init, NameOf
<1>2. [ch \in Chans |-> RoomOf(ch)] = [ch \in Chans |-> {}]
  BY DEF Init, RoomOf
<1> QED
  BY <1>1, <1>2 DEF Init, Promise!CInit

(* For any number of clients, nicknames and channels, also when clients go *)
(* away before their NICK: the handlers of the server implement ChatRooms. *)
THEOREM RegistryImplements == Spec => ImplementsChatRooms
  BY InitImplements, NextImplements, Invariant, PTL
     DEF Spec, ImplementsChatRooms, Promise!CSpec

-----------------------------------------------------------------------------
(* What relates the tables to the sockets, and the channels to the sweep.  *)
(* None of it is needed for IInv; all of it is inductive relative to IInv. *)
(* A step of the server is of one of three kinds (StepKinds): a connection *)
(* comes, a record goes, or the sockets stay as they are and no channel    *)
(* becomes empty.                                                          *)

Quiet ==
    /\ peer' = peer
    /\ DOMAIN users' = DOMAIN users
    /\ \A c \in DOMAIN users : users'[c].sock = users[c].sock

NoneEmptied ==
    \A ch \in DOMAIN channels' :
        IsEmptyChannel(channels'[ch]) =>
            ch \in DOMAIN channels /\ IsEmptyChannel(channels[ch])

(* Only with EarlyDrop does somebody without a nickname go.                *)
Departure ==
    \E q, v \in DOMAIN users :
        QuitUser(q, v) /\ (EarlyDrop \/ users[q].nick # NoNick)

LEMMA SameTables ==
    ASSUME users' = users, channels' = channels, peer' = peer
    PROVE  Quiet /\ NoneEmptied
  BY DEF Quiet, NoneEmptied

LEMMA TouchIsQuiet ==
    ASSUME IInv, NEW u \in DOMAIN users, users' = Touch(u), peer' = peer
    PROVE  Quiet
  BY TouchFacts DEF IInv, UsersTouched, Quiet

(* An empty channel is a room without clients.                             *)
LEMMA EmptyRoom ==
    ASSUME NEW ch \in DOMAIN channels
    PROVE  IsEmptyChannel(channels[ch]) <=> RoomOf(ch) = {}
  BY DEF IsEmptyChannel, RoomOf

(* NICK keeps every room as it is, so it empties none.                     *)
LEMMA NickIsQuiet ==
    ASSUME IInv, NEW fd \in Fds, NEW u \in DOMAIN users, NEW n \in Nicks,
           Nick(fd, u, n)
    PROVE  Quiet /\ NoneEmptied
<1>1. Quiet
  BY DEF Nick, Quiet, IInv, UsersInv, User
<1>2. DOMAIN channels' = DOMAIN channels
  BY DEF Nick
<1>3. RoomsKept /\ DOMAIN channels \subseteq Chans
  BY NickKeepsRooms DEF IInv, ChannelsInv
<1>4. ASSUME NEW ch \in DOMAIN channels', IsEmptyChannel(channels'[ch])
      PROVE  IsEmptyChannel(channels[ch])
  <2>1. RoomOf(ch)' = {}
    BY <1>4 DEF RoomOf, IsEmptyChannel
  <2> QED
    BY <1>2, <1>3, <1>4, <2>1, EmptyRoom DEF RoomsKept
<1> QED
  BY <1>1, <1>2, <1>4 DEF NoneEmptied

LEMMA CommandKinds ==
    ASSUME IInv, NEW fd \in Fds, NEW u \in DOMAIN users, Command(fd, u)
    PROVE  (Quiet /\ NoneEmptied) \/ Departure
<1>1. ASSUME channels' = channels PROVE NoneEmptied
  BY <1>1 DEF NoneEmptied
<1>2. CASE Ignored(fd, u)
  BY <1>1, <1>2, TouchIsQuiet DEF Ignored
<1>3. CASE Pass(fd, u)
  BY <1>1, <1>3 DEF Pass, Quiet, IInv, UsersInv, User
<1>4. ASSUME NEW n \in Nicks, Nick(fd, u, n) PROVE Quiet /\ NoneEmptied
  BY <1>4, NickIsQuiet
<1>5. CASE UserCmd(fd, u)
  BY <1>1, <1>5 DEF UserCmd, Quiet, IInv, UsersInv, User
(* a client that is logged in has a nickname                               *)
<1>6. ASSUME NEW v \in DOMAIN users, Quit(fd, u, v) PROVE Departure
  BY <1>6 DEF Quit, LoggedIn, Departure, IInv, UsersInv, RegistrationOrder
<1>7. ASSUME NEW q \in DOMAIN users, Kill(fd, u, q) PROVE Departure
  BY <1>7 DEF Kill, Departure
<1>8. CASE Oper(fd, u)
  BY <1>1, <1>8 DEF Oper, Touch, Quiet, IInv, UsersInv, User
<1>9. ASSUME NEW S \in SUBSET Chans, Part(fd, u, S) PROVE Quiet /\ NoneEmptied
  <2>1. Quiet
    BY <1>9, TouchIsQuiet DEF Part
  <2>2. NoneEmptied
    BY <1>9 DEF Part, NoneEmptied
  <2> QED
    BY <2>1, <2>2
<1>10. ASSUME NEW ch \in Chans, NEW n \in Nicks, Kick(fd, u, ch, n)
       PROVE  Quiet /\ NoneEmptied
  <2>1. Quiet
    BY <1>10, TouchIsQuiet DEF Kick
  <2>2. channels = [c \in DOMAIN channels |-> channels[c]]
    BY DEF IInv, ChannelsInv
  <2>3. NoneEmptied
    BY <1>10, <2>2 DEF Kick, NoneEmptied
  <2> QED
    BY <2>1, <2>3
<1>11. ASSUME NEW list \in JoinLists, Join(fd, u, list) PROVE Quiet /\ NoneEmptied
  BY <1>1, <1>11, TouchIsQuiet DEF Join
<1> QED
  BY <1>2, <1>3, <1>4, <1>5, <1>6, <1>7, <1>8, <1>9, <1>10, <1>11 DEF Command, Remains

LEMMA JoinLoopIsQuiet ==
    ASSUME IInv, JoinLoop
    PROVE  Quiet /\ NoneEmptied
<1>1. CASE JoinRefused \/ JoinTooMany \/ JoinDone
  BY <1>1, SameTables DEF JoinRefused, JoinTooMany, JoinDone
(* who enters a channel leaves nobody behind                               *)
<1>2. CASE JoinEnter
  <2>1. PICK ch, n, u : ch = JoinTarget.ch /\ n = JoinNick /\ u = Joiner
    OBVIOUS
  <2>2. /\ ch \in DOMAIN channels /\ users' = users /\ peer' = peer
        /\ channels' = [channels EXCEPT ![ch] = WithUser(channels[ch], n, u)]
    BY <1>2, <2>1 DEF JoinEnter
  <2>3. /\ IsChannel(channels[ch]) /\ IsFiniteSet(DOMAIN channels[ch].users)
        /\ Cardinality(DOMAIN channels[ch].users) <= LimitUsers + 1
        /\ n \in Nicks /\ u \in Conns
    BY <1>2, <2>1, <2>2, JoinNextFacts DEF JoinEnter, IInv, ChannelsInv, LimitsHold
  <2>4. DOMAIN channels[ch].users \subseteq DOMAIN WithUser(channels[ch], n, u).users
    BY <2>3, WithUserFacts
  <2>5. /\ DOMAIN channels' = DOMAIN channels
        /\ channels'[ch] = WithUser(channels[ch], n, u)
        /\ \A x \in DOMAIN channels \ {ch} : channels'[x] = channels[x]
    BY <2>2 DEF IInv, ChannelsInv
  <2>6. NoneEmptied
    BY <2>4, <2>5 DEF NoneEmptied, IsEmptyChannel
  <2> QED
    BY <2>2, <2>6 DEF Quiet
<1>3. CASE JoinCreate
  <2>1. PICK ch, n, u, key :
           ch = JoinTarget.ch /\ n = JoinNick /\ u = Joiner /\ key = JoinTarget.key
    OBVIOUS
  <2>2. /\ users' = users /\ peer' = peer
        /\ channels' = [c \in DOMAIN channels \cup {ch} |->
                           IF c = ch THEN NewChannel(n, u, key) ELSE channels[c]]
    BY <1>3, <2>1 DEF JoinCreate
  <2>3. n \in Nicks /\ u \in Conns /\ key \in Keys \cup {NoKey}
    BY <1>3, <2>1, JoinNextFacts DEF JoinCreate, Target
  <2>4. DOMAIN NewChannel(n, u, key).users = {n}
    BY <2>3, NewChannelFacts
  <2>5. NoneEmptied
    BY <2>2, <2>4 DEF NoneEmptied, IsEmptyChannel
  <2> QED
    BY <2>2, <2>5 DEF Quiet
<1> QED
  BY <1>1, <1>2, <1>3 DEF JoinLoop

LEMMA StepKinds ==
    ASSUME IInv, [Next]_vars
    PROVE  \/ Quiet /\ NoneEmptied
           \/ \E fd \in Fds : Accept(fd)
           \/ Departure
<1>1. CASE \/ AcceptFails \/ UNCHANGED vars
           \/ \E fd \in Fds : ReadOrphan(fd) \/ \E u \in DOMAIN users : Misread(fd, u)
  BY <1>1, SameTables DEF AcceptFails, ReadOrphan, Misread, vars
<1>2. ASSUME NEW fd \in Fds, NEW u \in DOMAIN users, NEW v \in DOMAIN users,
             Disconnect(fd, u, v) \/ Expired(fd, u, v)
      PROVE  Departure
  BY <1>2 DEF Disconnect, Expired, Departure
<1>3. ASSUME NEW fd \in Fds, NEW u \in DOMAIN users, Blank(fd, u)
      PROVE  Quiet /\ NoneEmptied
  BY <1>3, TouchIsQuiet DEF Blank, NoneEmptied
<1> QED
  BY <1>1, <1>2, <1>3, CommandKinds, JoinLoopIsQuiet DEF Next

-----------------------------------------------------------------------------
(* Empty channels                                                          *)

(* What the sweep leaves over is at most one channel: the second of all.   *)
LEMMA SweptLeavesOne ==
    ASSUME NEW names \in SUBSET Nat, NEW empties,
           NEW x \in Swept(names, empties), x \in empties,
           NEW y \in Swept(names, empties), y \in empties
    PROVE  x = y
<1>1. PICK f \in names : f < x /\ \A z \in names \ {f} : x <= z
  BY DEF Swept, SteppedOver
<1>2. PICK g \in names : g < y /\ \A z \in names \ {g} : y <= z
  BY DEF Swept, SteppedOver
<1>3. x \in names /\ y \in names
  BY DEF Swept
<1> QED
  BY <1>1, <1>2, <1>3

LEMMA OneEmptyStep ==
    ASSUME IInv, AtMostOneEmptyChannel, [Next]_vars
    PROVE  AtMostOneEmptyChannel'
<1>1. CASE Quiet /\ NoneEmptied
  BY <1>1 DEF NoneEmptied, AtMostOneEmptyChannel
<1>2. CASE \E fd \in Fds : Accept(fd)
  BY <1>2 DEF Accept, AtMostOneEmptyChannel
<1>3. CASE Departure
  <2>1. PICK q \in DOMAIN users, v \in DOMAIN users : QuitUser(q, v)
    BY <1>3 DEF Departure
  <2> DEFINE n == users[q].nick
             left == [ch \in DOMAIN channels |-> WithoutUser(channels[ch], n)]
             empties == {ch \in DOMAIN left : IsEmptyChannel(left[ch])}
  <2>2. channels' = [ch \in Swept(DOMAIN left, empties) |-> left[ch]]
    BY <2>1 DEF QuitUser
  <2>3. DOMAIN left \in SUBSET Nat
    BY NamesAssumption DEF IInv, ChannelsInv
  <2>4. \A x, y \in Swept(DOMAIN left, empties) :
           x \in empties /\ y \in empties => x = y
    <3> HIDE DEF left, empties
    <3> QED
      BY <2>3, SweptLeavesOne
  <2>5. \A ch \in DOMAIN channels' :
           /\ ch \in Swept(DOMAIN left, empties)
           /\ IsEmptyChannel(channels'[ch]) => ch \in empties
    BY <2>2 DEF Swept
  <2> QED
    BY <2>4, <2>5 DEF AtMostOneEmptyChannel
<1> QED
  BY <1>1, <1>2, <1>3, StepKinds

(* Never more than one channel without users, however many channels and    *)
(* clients there are and whatever they do.                                 *)
THEOREM OneEmptyChannel == Spec => []AtMostOneEmptyChannel
<1>1. Init => AtMostOneEmptyChannel
  BY DEF Init, AtMostOneEmptyChannel
<1> QED
  BY <1>1, OneEmptyStep, Invariant, PTL DEF Spec

-----------------------------------------------------------------------------
(* Sockets                                                                 *)

LEMMA SocketStep ==
    ASSUME ~EarlyDrop, IInv, SocketOwned, [Next]_vars
    PROVE  SocketOwned'
<1>1. CASE Quiet
  BY <1>1 DEF Quiet, SocketOwned
<1>2. ASSUME NEW fd \in Fds, Accept(fd) PROVE SocketOwned'
  <2> DEFINE new == accepted + 1
  <2>1. new \notin DOMAIN users /\ new # NoConn
    BY ConnsAssumption DEF IInv, UsersInv, ThreadInv, NoConn
  <2>2. /\ DOMAIN users' = DOMAIN users \cup {new}
        /\ \A c \in DOMAIN users : users'[c] = users[c]
        /\ users'[new].sock = fd
        /\ peer[fd] = NoConn
        /\ peer' = [peer EXCEPT ![fd] = new]
    BY <1>2, <2>1 DEF Accept
  <2>3. peer' \in [Fds -> Nat] /\ peer'[fd] = new
        /\ \A g \in Fds \ {fd} : peer'[g] = peer[g]
    BY <2>2, ConnsAssumption DEF IInv, ThreadInv, Conns, NoConn
  <2>4. \A c \in DOMAIN users : users[c].sock \in Fds /\ c # NoConn
    BY DEF IInv, UsersInv, User, NoConn
  <2> HIDE DEF new
  <2>5. \A c \in DOMAIN users : users[c].sock # fd
    BY <2>2, <2>4 DEF SocketOwned
  <2> QED
    BY <2>1, <2>2, <2>3, <2>4, <2>5 DEF SocketOwned
<1>3. CASE Departure
  <2>1. PICK q \in DOMAIN users, v \in DOMAIN users :
           QuitUser(q, v) /\ users[q].nick # NoNick
    BY <1>3 DEF Departure
  <2>2. v = q
    BY <2>1 DEF QuitUser, Found, IInv, UsersInv, NickUnique
  <2>3. /\ users' = [c \in DOMAIN users \ {q} |-> users[c]]
        /\ peer' = [peer EXCEPT ![users[q].sock] = NoConn]
    BY <2>1, <2>2 DEF QuitUser
  <2>4. users[q].sock \in Fds /\ peer \in [Fds -> Conns \cup {NoConn}]
    BY DEF IInv, UsersInv, ThreadInv, User
  <2>5. /\ peer'[users[q].sock] = NoConn
        /\ \A g \in Fds \ {users[q].sock} : peer'[g] = peer[g]
    BY <2>3, <2>4
  <2>6. \A c \in DOMAIN users : users[c].sock \in Fds
    BY DEF IInv, UsersInv, User
  <2> QED
    BY <2>3, <2>4, <2>5, <2>6 DEF SocketOwned
<1> QED
  BY <1>1, <1>2, <1>3, StepKinds

(* As long as nobody goes before its first NICK every descriptor is served *)
(* as the client at its other end.  (QuitterRemoved of MCRegistry is what   *)
(* fails without the condition.)                                               *)
THEOREM SocketsAreOwned ==
    ASSUME ~EarlyDrop
    PROVE  Spec => []SocketOwned
<1>1. Init => SocketOwned
  BY DEF Init, SocketOwned
<1>2. IInv /\ SocketOwned /\ [Next]_vars => SocketOwned'
  BY SocketStep
<1> QED
  BY <1>1, <1>2, Invariant, PTL DEF Spec

OpenFds == {fd \in Fds : peer[fd] # NoConn}

LEMMA FiniteTables ==
    ASSUME IInv
    PROVE  /\ IsFiniteSet(DOMAIN users) /\ Cardinality(DOMAIN users) \in Nat
           /\ IsFiniteSet(OpenFds) /\ Cardinality(OpenFds) \in Nat
<1>1. IsFiniteSet(1..accepted)
  BY FS_Interval, UsersAreConns
<1>2. IsFiniteSet(DOMAIN users)
  BY <1>1, FS_Subset DEF IInv, UsersInv
<1>3. IsFiniteSet(OpenFds)
  BY FiniteAssumption, FS_Subset DEF OpenFds
<1> QED
  BY <1>2, <1>3, FS_CardinalityType

LEMMA NoLeakStep ==
    ASSUME IInv, NoNodeLeak, [Next]_vars
    PROVE  NoNodeLeak'
<1>1. Cardinality(DOMAIN users) <= Cardinality(OpenFds)
  BY DEF NoNodeLeak, OpenFds
<1> SUFFICES Cardinality(DOMAIN users') <= Cardinality(OpenFds')
  BY DEF NoNodeLeak, OpenFds
<1>2. CASE Quiet
  BY <1>1, <1>2 DEF Quiet, OpenFds
<1>3. ASSUME NEW fd \in Fds, Accept(fd)
      PROVE  Cardinality(DOMAIN users') <= Cardinality(OpenFds')
  <2> DEFINE new == accepted + 1
  <2>1. new \notin DOMAIN users /\ new # NoConn
    BY ConnsAssumption DEF IInv, UsersInv, ThreadInv, NoConn
  <2>2. DOMAIN users' = DOMAIN users \cup {new}
    BY <1>3 DEF Accept
  <2>3. OpenFds' = OpenFds \cup {fd} /\ fd \notin OpenFds
    BY <1>3, <2>1 DEF Accept, OpenFds, IInv, ThreadInv
  <2> HIDE DEF new
  <2>4. Cardinality(DOMAIN users') = Cardinality(DOMAIN users) + 1
    BY <2>1, <2>2, FiniteTables, FS_AddElement
  <2>5. Cardinality(OpenFds') = Cardinality(OpenFds) + 1
    BY <2>3, FiniteTables, FS_AddElement
  <2> QED
    BY <1>1, <2>4, <2>5, FiniteTables
<1>4. CASE Departure
  <2>1. PICK q \in DOMAIN users, v \in DOMAIN users : QuitUser(q, v)
    BY <1>4 DEF Departure
  <2> DEFINE fd == users[q].sock
  <2>2. DOMAIN users' = DOMAIN users \ {v}
    BY <2>1 DEF QuitUser
  <2>3. OpenFds' = OpenFds \ {fd}
    BY <2>1 DEF QuitUser, OpenFds, IInv, ThreadInv
  <2>4. Cardinality(DOMAIN users') = Cardinality(DOMAIN users) - 1
    BY <2>2, FiniteTables, FS_RemoveElement
  <2>5. Cardinality(OpenFds') >= Cardinality(OpenFds) - 1
    <3>1. CASE fd \in OpenFds
      <4> HIDE DEF fd
      <4>1. Cardinality(OpenFds \ {fd}) = Cardinality(OpenFds) - 1
        BY <3>1, FiniteTables, FS_RemoveElement
      <4> QED
        BY <2>3, <4>1, FiniteTables
    <3>2. CASE fd \notin OpenFds
      <4>1. OpenFds' = OpenFds
        BY <2>3, <3>2
      <4> QED
        BY <4>1, FiniteTables
    <3> QED
      BY <3>1, <3>2
  <2>6. Cardinality(OpenFds') \in Nat
    <3>1. IsFiniteSet(OpenFds')
      BY <2>3, FiniteTables, FS_Subset
    <3> QED
      BY <3>1, FS_CardinalityType
  <2> QED
    BY <1>1, <2>4, <2>5, <2>6, FiniteTables
<1> QED
  BY <1>2, <1>3, <1>4, StepKinds

(* There are never more records than connections, although a client that   *)
(* goes before its NICK leaves its own record and takes another one.       *)
THEOREM NodesDoNotLeak == Spec => []NoNodeLeak
<1>1. Init => NoNodeLeak
  <2> SUFFICES ASSUME Init PROVE NoNodeLeak
    OBVIOUS
  <2>1. DOMAIN users = {} /\ {fd \in Fds : peer[fd] # NoConn} = {}
    BY DEF Init
  <2> QED
    BY <2>1, FS_EmptySet DEF NoNodeLeak
<1> QED
  BY <1>1, NoLeakStep, Invariant, PTL DEF Spec

-----------------------------------------------------------------------------
(* The loop implements the handlers                                        *)

(* Whichever way a line goes, it is a command of Registry.                 *)
LEMMA GoesIsCommand ==
    ASSUME NEW fd \in Fds, NEW u \in DOMAIN users, Goes(fd, u)
    PROVE  Command(fd, u)
  BY DEF Goes, Command

LEMMA ServerStep ==
    ASSUME Server
    PROVE  [Next]_vars
<1>1. CASE Select \/ TakeInNobody \/ EndRound
  BY <1>1 DEF Select, TakeInNobody, EndRound
<1>2. ASSUME NEW fd \in Fds, Stale(fd) PROVE UNCHANGED vars
  BY <1>2 DEF Stale
<1>3. ASSUME NEW fd \in Fds, Serve(fd) PROVE Next
  BY <1>3, GoesIsCommand DEF Serve, Next
<1>4. ASSUME NEW fd \in Fds, Hangup(fd) PROVE Next
  BY <1>4 DEF Hangup, Next
<1>5. CASE Continue
  BY <1>5, GoesIsCommand DEF Continue, Next
<1>6. CASE TakeIn
  BY <1>6 DEF TakeIn, Next
<1>7. ASSUME NEW fd \in Fds, Late(fd) PROVE Next
  BY <1>7 DEF Late, Next
<1> QED
  BY <1>1, <1>2, <1>3, <1>4, <1>5, <1>6, <1>7 DEF Server

LEMMA LoopStep == [LNext]_lvars => [Next]_vars
<1> SUFFICES ASSUME [LNext]_lvars PROVE [Next]_vars
  OBVIOUS
<1>1. CASE Clients
  BY <1>1 DEF Clients, Connect, Abort, Sigint, Write, Complete, Close, Read
<1>2. CASE Server
  BY <1>2, ServerStep
<1>3. CASE UNCHANGED lvars
  BY <1>3 DEF lvars
<1> QED
  BY <1>1, <1>2, <1>3 DEF LNext

(* start() with its snapshots, and whatever the clients and the terminal   *)
(* do, behaves as the handlers do when any client may be served at any     *)
(* time: every property proved of Registry holds of the running server.    *)
THEOREM LoopImplementsRegistry == LSpec => Spec
<1>1. LInit => Init
  BY DEF LInit
<1> QED
  BY <1>1, LoopStep, PTL DEF LSpec, Spec

-----------------------------------------------------------------------------
(* What a handler does to the sockets                                      *)

SocketsKept == peer' = peer /\ accepted' = accepted /\ watched' = watched

SocketClosed(g) ==
    /\ peer' = [peer EXCEPT ![g] = NoConn]
    /\ accepted' = accepted
    /\ watched' = watched \ {g}

LEMMA RemainsKeeps ==
    ASSUME NEW fd \in Fds, NEW u \in DOMAIN users, Remains(fd, u)
    PROVE  peer' = peer /\ accepted' = accepted
  BY DEF Remains, Ignored, Pass, Nick, UserCmd, Oper, Part, Kick, Join

LEMMA JoinLoopKeeps ==
    ASSUME JoinLoop
    PROVE  peer' = peer /\ accepted' = accepted
  BY DEF JoinLoop, JoinRefused, JoinEnter, JoinCreate, JoinTooMany, JoinDone

(* close() and FD_CLR are of the same descriptor.                          *)
LEMMA QuitCloses ==
    ASSUME IInv, NEW q \in DOMAIN users, NEW v \in DOMAIN users,
           QuitUser(q, v), Unwatched(q)
    PROVE  \E g \in Fds : SocketClosed(g)
<1>1. users[q].sock \in Fds
  BY DEF IInv, UsersInv, User
<1>2. SocketClosed(users[q].sock)
  BY DEF QuitUser, Unwatched, Unwatch, SocketClosed
<1> QED
  BY <1>1, <1>2

LEMMA GoesKinds ==
    ASSUME IInv, NEW fd \in Fds, NEW u \in DOMAIN users, Goes(fd, u)
    PROVE  SocketsKept \/ \E g \in Fds : SocketClosed(g)
<1>1. CASE Remains(fd, u) /\ UNCHANGED watched
  BY <1>1, RemainsKeeps DEF SocketsKept
<1>2. ASSUME NEW v \in DOMAIN users, Quit(fd, u, v) /\ Unwatched(u)
      PROVE  \E g \in Fds : SocketClosed(g)
  BY <1>2, QuitCloses DEF Quit
<1>3. ASSUME NEW q \in DOMAIN users, Kill(fd, u, q) /\ Unwatched(q)
      PROVE  \E g \in Fds : SocketClosed(g)
  BY <1>3, QuitCloses DEF Kill
<1> QED
  BY <1>1, <1>2, <1>3 DEF Goes

Handler == Continue \/ \E fd \in Fds : Late(fd) \/ Serve(fd) \/ Hangup(fd)

LEMMA HandlerKinds ==
    ASSUME IInv, Handler
    PROVE  SocketsKept \/ \E g \in Fds : SocketClosed(g)
<1>1. CASE Continue
  <2>1. CASE JoinLoop /\ UNCHANGED watched
    BY <2>1, JoinLoopKeeps DEF SocketsKept
  <2>2. ASSUME NEW fd \in Fds, NEW u \in DOMAIN users,
               \/ Goes(fd, u)
               \/ (Misread(fd, u) \/ Blank(fd, u)) /\ UNCHANGED watched
        PROVE  SocketsKept \/ \E g \in Fds : SocketClosed(g)
    BY <2>2, GoesKinds DEF Misread, Blank, SocketsKept
  <2> QED
    BY <1>1, <2>1, <2>2 DEF Continue
<1>2. ASSUME NEW fd \in Fds, Serve(fd)
      PROVE  SocketsKept \/ \E g \in Fds : SocketClosed(g)
  <2>1. CASE \E u \in DOMAIN users : Goes(fd, u)
    BY <2>1, GoesKinds
  <2>2. CASE /\ ReadOrphan(fd) \/ \E u \in DOMAIN users : Misread(fd, u)
             /\ UNCHANGED watched
    BY <2>2 DEF ReadOrphan, Misread, SocketsKept
  <2> QED
    BY <1>2, <2>1, <2>2 DEF Serve
<1>3. ASSUME NEW fd \in Fds, Hangup(fd)
      PROVE  SocketsKept \/ \E g \in Fds : SocketClosed(g)
  <2>1. ASSUME NEW u \in DOMAIN users, NEW v \in DOMAIN users,
               Disconnect(fd, u, v) /\ Unwatched(u)
        PROVE  \E g \in Fds : SocketClosed(g)
    BY <2>1, QuitCloses DEF Disconnect
  <2>2. CASE ReadOrphan(fd) /\ UNCHANGED watched
    BY <2>2 DEF ReadOrphan, SocketsKept
  <2> QED
    BY <1>3, <2>1, <2>2 DEF Hangup
<1>4. ASSUME NEW fd \in Fds, Late(fd)
      PROVE  \E g \in Fds : SocketClosed(g)
  <2>1. PICK u \in DOMAIN users, v \in DOMAIN users :
            Expired(fd, u, v) /\ Unwatched(u)
    BY <1>4 DEF Late
  <2> QED
    BY <2>1, QuitCloses DEF Expired
<1> QED
  BY <1>1, <1>2, <1>3, <1>4 DEF Handler

-----------------------------------------------------------------------------
(* The invariant of the loop                                               *)

LEMMA LoopInitInv == LInit => LoopInv
<1> SUFFICES ASSUME LInit PROVE LoopInv
  OBVIOUS
<1>1. /\ peer = [fd \in Fds |-> NoConn] /\ reported = peer /\ accepted = 0
      /\ watched = {} /\ round = {} /\ listening = TRUE /\ bell = FALSE
      /\ exitFlag = FALSE /\ sending = {} /\ pc = "select"
      /\ input = [fd \in Fds |-> "none"]
  BY DEF LInit, Init
<1>2. LoopTypeOK /\ TurnsNotInherited /\ Stopping
  BY <1>1 DEF LoopTypeOK, TurnsNotInherited, Stopping
<1>3. NumbersPast /\ WatchedIsOpen
  BY <1>1 DEF NumbersPast, WatchedIsOpen, Open, NoConn
<1> QED
  BY <1>2, <1>3 DEF LoopInv

(* Steps that leave the sockets and what is watched alone, and may give    *)
(* input to a client that has none yet, raise the flag or end the loop.    *)
LEMMA IdleStepInv ==
    ASSUME LoopInv, LoopTypeOK',
           UNCHANGED <<peer, accepted, watched, listening, reported, bell>>,
           exitFlag => exitFlag',
           pc' = pc \/ pc' \in {"stopped", "failed"},
           round' \subseteq round,
           \A fd \in Fds : input[fd] # "none" => input'[fd] # "none"
    PROVE  LoopInv'
  BY DEF LoopInv, LoopTypeOK, NumbersPast, WatchedIsOpen, TurnsNotInherited,
         Stopping, Open

LEMMA ClientsInv ==
    ASSUME LoopInv, Clients
    PROVE  LoopInv'
<1> USE DEF LoopInv, LoopTypeOK, vars, fds
<1>1. CASE Connect \/ Abort \/ Sigint
  BY <1>1, IdleStepInv DEF Connect, Abort, Sigint
<1>2. ASSUME NEW fd \in Fds, Write(fd) PROVE LoopInv'
  BY <1>2, IdleStepInv DEF Write
<1>3. ASSUME NEW fd \in Fds, Complete(fd) PROVE LoopInv'
  BY <1>3, IdleStepInv DEF Complete
<1>4. ASSUME NEW fd \in Fds, Close(fd) PROVE LoopInv'
  BY <1>4, IdleStepInv DEF Close
<1>5. ASSUME NEW fd \in Fds, Read(fd) PROVE LoopInv'
  BY <1>5, IdleStepInv DEF Read
<1> QED
  BY <1>1, <1>2, <1>3, <1>4, <1>5 DEF Clients

LEMMA SelectInv ==
    ASSUME IInv, LoopInv, Select
    PROVE  LoopInv'
<1>1. LoopTypeOK'
  BY DEF IInv, ThreadInv, LoopInv, LoopTypeOK, Select, Taken, Readable, Rings,
         StopLeaves, env
<1>2. NumbersPast'
  BY DEF LoopInv, NumbersPast, Select, vars
<1>3. WatchedIsOpen'
  BY DEF LoopInv, WatchedIsOpen, Select, Open, vars
<1>4. TurnsNotInherited'
  BY DEF TurnsNotInherited, Select, Taken, Readable, vars, env
<1>5. Stopping'
  BY DEF LoopInv, LoopTypeOK, Stopping, Select, Rings, StopLeaves, env
<1> QED
  BY <1>1, <1>2, <1>3, <1>4, <1>5 DEF LoopInv

(* A handler serves one descriptor of the round and may close one.         *)
LEMMA HandlerInv ==
    ASSUME IInv, LoopInv, Handler
    PROVE  LoopInv'
<1>1. /\ UNCHANGED <<listening, reported, bell, exitFlag, pc>>
      /\ round' \subseteq round
      /\ input' \in [Fds -> {"none", "half", "line", "closed"}]
      /\ \A fd \in round' : input'[fd] = input[fd]
      /\ sending' \subseteq Fds
  <2>1. CASE Continue
    BY <2>1 DEF Continue, Writes, env, LoopInv, LoopTypeOK
  <2>2. ASSUME NEW fd \in Fds, Serve(fd)
        PROVE  /\ UNCHANGED <<listening, reported, bell, exitFlag, pc>>
               /\ round' = round \ {fd}
               /\ input' = [input EXCEPT ![fd] = "none"]
               /\ sending' \subseteq Fds
    BY <2>2 DEF Serve, Writes
  <2>3. ASSUME NEW fd \in Fds, Hangup(fd) \/ Late(fd)
        PROVE  /\ UNCHANGED <<listening, reported, bell, exitFlag, pc, input>>
               /\ round' = round \ {fd}
               /\ sending' \subseteq Fds
    BY <2>3 DEF Hangup, Late, Writes, env
  <2> QED
    BY <2>1, <2>2, <2>3 DEF Handler, LoopInv, LoopTypeOK
<1>2. peer \in [Fds -> Conns \cup {NoConn}] /\ accepted \in Nat
  BY DEF IInv, ThreadInv
<1>3. CASE SocketsKept
  BY <1>1, <1>3
     DEF SocketsKept, LoopInv, LoopTypeOK, NumbersPast, WatchedIsOpen,
         TurnsNotInherited, Stopping, Open
<1>4. ASSUME NEW g \in Fds, SocketClosed(g) PROVE LoopInv'
  <2>1. /\ peer'[g] = NoConn
        /\ \A fd \in Fds \ {g} : peer'[fd] = peer[fd]
        /\ accepted' = accepted /\ watched' = watched \ {g}
    BY <1>2, <1>4 DEF SocketClosed
  <2>2. LoopTypeOK'
    BY <1>1, <2>1 DEF LoopInv, LoopTypeOK
  <2>3. NumbersPast'
    BY <1>1, <1>2, <2>1 DEF LoopInv, NumbersPast, NoConn
  <2>4. WatchedIsOpen'
    BY <1>1, <2>1 DEF LoopInv, WatchedIsOpen, Open
  <2>5. TurnsNotInherited'
    BY <1>1, <2>1 DEF LoopInv, LoopTypeOK, TurnsNotInherited, Open
  <2>6. Stopping'
    BY <1>1, <2>1 DEF LoopInv, LoopTypeOK, Stopping
  <2> QED
    BY <2>2, <2>3, <2>4, <2>5, <2>6 DEF LoopInv
<1> QED
  BY <1>3, <1>4, HandlerKinds

(* The connection that is taken in gets a number that is in nobody's       *)
(* snapshot, and a descriptor that is in no round.                         *)
LEMMA TakeInInv ==
    ASSUME IInv, LoopInv, TakeIn
    PROVE  LoopInv'
<1>1. /\ bell /\ round = {} /\ bell' = FALSE
      /\ UNCHANGED <<listening, round, reported, exitFlag, sending, pc>>
  BY DEF TakeIn, ScanDone
<1>2. peer \in [Fds -> Conns \cup {NoConn}] /\ accepted \in Nat
  BY DEF IInv, ThreadInv
<1>3. CASE AcceptFails /\ UNCHANGED <<watched, input>>
  BY <1>1, <1>3
     DEF AcceptFails, LoopInv, LoopTypeOK, NumbersPast, WatchedIsOpen,
         TurnsNotInherited, Stopping, Open
<1>4. ASSUME NEW fd \in Fds, Accept(fd), watched' = watched \cup {fd},
             input' = [input EXCEPT ![fd] = "none"]
      PROVE  LoopInv'
  <2>1. /\ accepted' = accepted + 1 /\ peer'[fd] = accepted + 1
        /\ \A g \in Fds \ {fd} : peer'[g] = peer[g]
    BY <1>2, <1>4 DEF Accept
  <2>2. \A g \in Fds : peer[g] \in Nat /\ reported[g] \in Nat
    BY <1>2 DEF LoopInv, LoopTypeOK, Conns, NoConn
  <2>3. LoopTypeOK'
    BY <1>1, <1>4 DEF LoopInv, LoopTypeOK
  <2>4. NumbersPast'
    BY <1>1, <1>2, <2>1, <2>2 DEF LoopInv, NumbersPast
  <2>5. WatchedIsOpen'
    BY <1>1, <1>2, <1>4, <2>1 DEF LoopInv, WatchedIsOpen, Open, NoConn
  <2>6. TurnsNotInherited'
    BY <1>1 DEF TurnsNotInherited
  <2>7. Stopping'
    <3>1. ~listening => exitFlag /\ watched = {}
      BY <1>1 DEF LoopInv, Stopping
    <3>2. reported[fd] # accepted + 1
      BY <1>2, <2>2 DEF LoopInv, NumbersPast
    <3> QED
      BY <1>1, <1>4, <2>1, <3>1, <3>2 DEF Stopping
  <2> QED
    BY <2>3, <2>4, <2>5, <2>6, <2>7 DEF LoopInv
<1> QED
  BY <1>3, <1>4 DEF TakeIn

LEMMA EndRoundInv ==
    ASSUME LoopInv, EndRound
    PROVE  LoopInv'
  BY DEF EndRound, LoopInv, LoopTypeOK, NumbersPast, WatchedIsOpen,
         TurnsNotInherited, Stopping, Open, vars, fds, env

LEMMA LoopNextInv == IInv /\ LoopInv /\ [LNext]_lvars => LoopInv'
<1> SUFFICES ASSUME IInv, LoopInv, [LNext]_lvars PROVE LoopInv'
  OBVIOUS
<1>1. CASE Clients
  BY <1>1, ClientsInv
<1>2. CASE Select
  BY <1>2, SelectInv
<1>3. CASE TakeInNobody \/ UNCHANGED lvars
  BY <1>3, IdleStepInv
     DEF TakeInNobody, lvars, vars, fds, env, LoopInv, LoopTypeOK
<1>4. ASSUME NEW fd \in Fds, Stale(fd) PROVE LoopInv'
  BY <1>4, IdleStepInv
     DEF Stale, First, InRound, vars, fds, env, LoopInv, LoopTypeOK
<1>5. CASE Handler
  BY <1>5, HandlerInv
<1>6. CASE TakeIn
  BY <1>6, TakeInInv
<1>7. CASE EndRound
  BY <1>7, EndRoundInv
<1> QED
  BY <1>1, <1>2, <1>3, <1>4, <1>5, <1>6, <1>7 DEF LNext, Server, Handler

(* The snapshots of the loop agree with the sockets in every reachable     *)
(* state.                                                                  *)
THEOREM LoopInvariant == LSpec => [](IInv /\ LoopInv)
<1>1. LSpec => []IInv
  BY LoopImplementsRegistry, Invariant, PTL
<1> QED
  BY <1>1, LoopInitInv, LoopNextInv, PTL DEF LSpec

(* Until SIGINT is noticed exactly the open sockets are watched: select()  *)
(* is never given a closed one, which would end the server, and no client  *)
(* is forgotten.                                                           *)
THEOREM WatchedAreOpen == LSpec => []WatchedIsOpen
<1>1. LoopInv => WatchedIsOpen
  BY DEF LoopInv
<1> QED
  BY <1>1, LoopInvariant, PTL

(* A descriptor that is closed and used again within a round does not pass *)
(* on its turn: a round only ever serves the client select() has seen.     *)
THEOREM TurnsAreOwned == LSpec => []TurnsNotInherited
<1>1. LoopInv => TurnsNotInherited
  BY DEF LoopInv
<1> QED
  BY <1>1, LoopInvariant, PTL

(* From the round in which SIGINT is noticed on: whoever is still served,  *)
(* the rest of that round included, is served for the last time; nobody    *)
(* who was connected is watched again, though his connection stays open;   *)
(* one connection at most is still taken in, in that round.                *)
THEOREM StopIsDeaf == LSpec => []StopDeafens
<1>1. LoopInv => StopDeafens
  BY DEF LoopInv, Stopping, StopDeafens
<1> QED
  BY <1>1, LoopInvariant, PTL
=============================================================================
