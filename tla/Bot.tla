--------------------------------- MODULE Bot --------------------------------
(***************************************************************************)
(* The bot (bot/Client.cpp) and the server it talks to.  The bot is one    *)
(* thread that reads a line and, if it is a question, sends an answer of   *)
(* several lines before it reads again; the server is one thread that      *)
(* waits in send() while the bot's socket is full (Sending also has        *)
(* sockets that do not block).                                             *)
(*                                                                         *)
(* A user shares a channel with the bot, asks there or asks the bot alone, *)
(* and always reads.  Of a line to the bot counts what the bot tells       *)
(* apart, of a line from it what the server does.                          *)
(***************************************************************************)
EXTENDS Naturals, Sequences, SequencesExt

CONSTANTS
    ToBotRoom,      \* lines that fit in the sockets to the bot
    FromBotRoom,    \* lines that fit in the sockets from the bot
    Length,         \* lines of a file in bot/utils
    MaxLines        \* bound: lines the user sends

ASSUME RoomAssumption == {ToBotRoom, FromBotRoom, Length} \subseteq Nat \ {0}
ASSUME LinesAssumption == MaxLines \in Nat

VARIABLES
    files,      \* utils/ is where the bot was started
    toBot,      \* lines in the sockets to the bot
    fromBot,    \* lines in the sockets from the bot
    saying,     \* what the bot sends before it reads again
    gone,       \* the bot has closed its socket
    sending,    \* lines to the bot the server is about
    logged,     \* the server has a user `bot' on this connection
    member,     \* it is on the channel
    taken,      \* history: how many lines the server has taken from the bot
    asked,      \* history: the lines the user sent
    heard       \* history: lines of answers the user got, by their number

vars == <<files, toBot, fromBot, saying, gone, sending, logged, member, taken,
          asked, heard>>
botVars == <<files, saying, gone>>
serverVars == <<sending, logged, member, taken>>

Line(word) == [word |-> word]
Answer(to, n) == [word |-> "answer", to |-> to, n |-> n]

-----------------------------------------------------------------------------
(* The bot                                                                 *)

(* Mutant of IsQuestion: the file has one of its own words in it.          *)
AnyText(line) == line.word \in {"question", "answer"}

(* A PRIVMSG with one of the words the bot knows.  Those of the files are  *)
(* written in capitals, which it does not know.                            *)
IsQuestion(line) == line.word = "question"

(* Mutant of AnswerTo: a longer file.                                      *)
LongAnswer(to) == [n \in 1..(4 * Length) |-> Answer(to, n)]

(* Mutant of AnswerTo: the end of the file is looked for before the line   *)
(* that ends there is sent.                                                *)
ShortAnswer(to) == [n \in 1..(Length - 1) |-> Answer(to, n)]

(* A file, line by line, to the receiver of the question.                  *)
AnswerTo(to) == [n \in 1..Length |-> Answer(to, n)]

(* What the bot sends when it has read a line: a PONG for the word PING    *)
(* wherever it is, a JOIN for an INVITE, an answer for a question.         *)
Reaction(line) ==
    (IF line.word = "ping" THEN <<Line("PONG")>> ELSE <<>>) \o
    CASE line.word = "invite"         -> <<Line("JOIN")>>
      [] IsQuestion(line) /\ files    -> AnswerTo(line.to)
      [] OTHER                        -> <<>>

Silent == saying = <<>>

(* recv() returns 0 where the line is longer than the buffer, which the    *)
(* bot takes for the end of the connection.                                *)
Read ==
    /\ ~gone /\ Silent
    /\ toBot # <<>>
    /\ toBot' = Tail(toBot)
    /\ gone' = (Head(toBot).word = "long")
    /\ saying' = Reaction(Head(toBot)) \o saying
    /\ UNCHANGED <<files, fromBot, serverVars, asked, heard>>

Say ==
    /\ ~gone
    /\ saying # <<>>
    /\ Len(fromBot) < FromBotRoom
    /\ fromBot' = Append(fromBot, Head(saying))
    /\ saying' = Tail(saying)
    /\ UNCHANGED <<files, toBot, gone, serverVars, asked, heard>>

-----------------------------------------------------------------------------
(* The server                                                              *)

Waits == sending # <<>>

Deliver ==
    /\ Waits
    /\ gone \/ Len(toBot) < ToBotRoom
    /\ toBot' = IF gone THEN toBot ELSE Append(toBot, Head(sending))
    /\ sending' = Tail(sending)
    /\ UNCHANGED <<botVars, fromBot, logged, member, taken, asked, heard>>

(* A line of the user: to the channel or to the bot, PRIVMSG or NOTICE,    *)
(* which the server relays as PRIVMSG.                                     *)
Ask(word, to, by) ==
    /\ ~Waits
    /\ Len(asked) < MaxLines
    /\ asked' = Append(asked, [word |-> word, to |-> to, by |-> by,
                               relayed |-> IF to = "bot" THEN logged ELSE member])
    /\ sending' = IF Last(asked').relayed THEN <<[word |-> word, to |-> to]>> ELSE <<>>
    /\ UNCHANGED <<botVars, toBot, fromBot, logged, member, taken, heard>>

(* The user invites the bot, or has it leave.                              *)
Invite ==
    /\ ~Waits /\ logged /\ ~member
    /\ Len(asked) < MaxLines
    /\ asked' = Append(asked, [word |-> "invite", to |-> "bot", by |-> "INVITE", relayed |-> TRUE])
    /\ sending' = <<Line("invite")>>
    /\ UNCHANGED <<botVars, toBot, fromBot, logged, member, taken, heard>>

Kick ==
    /\ ~Waits /\ member
    /\ Len(asked) < MaxLines
    /\ asked' = Append(asked, [word |-> "kick", to |-> "bot", by |-> "KICK", relayed |-> TRUE])
    /\ member' = FALSE
    /\ sending' = <<Line("kick")>>
    /\ UNCHANGED <<botVars, toBot, fromBot, logged, taken, heard>>

Take ==
    /\ ~Waits
    /\ fromBot # <<>>
    /\ fromBot' = Tail(fromBot)
    /\ taken' = taken + 1
    /\ UNCHANGED <<botVars, toBot, asked>>

(* The last line of the first ones: the nickname is free, or 433.          *)
Nick ==
    /\ Take
    /\ Head(fromBot).word = "NICK"
    /\ logged' \in BOOLEAN
    /\ sending' = <<Line("reply")>>
    /\ UNCHANGED <<member, heard>>

(* The bot gets on the channel, or a limit is reached.                     *)
Join ==
    /\ Take
    /\ Head(fromBot).word = "JOIN"
    /\ member' \in {member, TRUE}
    /\ sending' = <<Line("reply")>>
    /\ UNCHANGED <<logged, heard>>

(* To the channel, whether the bot is on it or not, but not to the bot; or *)
(* to the bot, if that was who was asked.                                  *)
Privmsg ==
    /\ Take
    /\ Head(fromBot).word = "answer"
    /\ heard' = IF Head(fromBot).to = "channel" THEN Append(heard, Head(fromBot).n) ELSE heard
    /\ sending' = IF Head(fromBot).to = "bot" THEN <<Head(fromBot)>> ELSE <<>>
    /\ UNCHANGED <<logged, member>>

(* PASS and USER say nothing back, PONG is no command.                     *)
Nothing ==
    /\ Take
    /\ Head(fromBot).word \in {"PASS", "USER", "PONG"}
    /\ UNCHANGED <<sending, logged, member, heard>>

Hangup ==
    /\ gone /\ fromBot = <<>> /\ ~Waits
    /\ logged
    /\ logged' = FALSE /\ member' = FALSE
    /\ UNCHANGED <<botVars, toBot, fromBot, sending, taken, asked, heard>>

-----------------------------------------------------------------------------
Init ==
    /\ files \in BOOLEAN
    /\ toBot = <<>> /\ fromBot = <<>>
    /\ saying = <<Line("PASS"), Line("USER"), Line("NICK")>>
    /\ gone = FALSE
    /\ sending = <<>> /\ logged = FALSE /\ member = FALSE /\ taken = 0
    /\ asked = <<>> /\ heard = <<>>

User ==
    \/ \E word \in {"question", "text", "ping", "long"}, to \in {"channel", "bot"},
          by \in {"PRIVMSG", "NOTICE"} : Ask(word, to, by)
    \/ Invite \/ Kick

Server == Deliver \/ Nick \/ Join \/ Privmsg \/ Nothing \/ Hangup

Next == Read \/ Say \/ User \/ Server

Spec == Init /\ [][Next]_vars

(* Both threads go on when they can.                                       *)
FairSpec == Spec /\ WF_vars(Read) /\ WF_vars(Say) /\ WF_vars(Server)

-----------------------------------------------------------------------------
(* Properties                                                              *)

Receivers == {"channel", "bot"}

Count(s, T) == Cardinality({i \in DOMAIN s : s[i] \in T})

(* The questions of the user that the bot is sent.                         *)
RelayedTo(to) ==
    [word : {"question"}, to : {to}, by : {"PRIVMSG", "NOTICE"}, relayed : {TRUE}]
Questions(to) == Count(asked, RelayedTo(to))

(* Lines of answers to a receiver: on their way, and arrived at the user.  *)
AnswersTo(to) == [word : {"answer"}, to : {to}, n : Nat]
OnTheWay(T) == Count(toBot, T) + Count(fromBot, T) + Count(saying, T) + Count(sending, T)
Arrived(to) == IF to = "channel" THEN Len(heard) ELSE 0

(* However the lines of an answer come back to the bot, there is one       *)
(* answer at most for a question of the user.                              *)
NoAnswerToAnswers ==
    \A to \in Receivers :
        Arrived(to) + OnTheWay(AnswersTo(to)) <= Length * Questions(to)

(* Lines the server still has to take from the bot: its three first ones,  *)
(* a PONG for a PING, a JOIN for an INVITE, a file for a question.         *)
Owed ==
    3 + Count(asked, [word : {"ping", "invite"}, to : Receivers,
                      by : {"PRIVMSG", "NOTICE", "INVITE"}, relayed : {TRUE}])
      + (IF files THEN Length * (Questions("channel") + Questions("bot")) ELSE 0)
      - taken

(* Each waits in send() for the other to read: neither goes on, nor does   *)
(* anybody else on the server.                                             *)
MutualWait ==
    /\ Waits /\ Len(toBot) = ToBotRoom
    /\ ~gone /\ ~Silent /\ Len(fromBot) = FromBotRoom

(* The server does not wait for a bot that waits for the server as long as *)
(* what the bot has been asked for, and the server has not taken yet, fits *)
(* in the sockets.                                                         *)
ServerGoesOn == Waits ~> (~Waits \/ Owed > FromBotRoom)

Answered(n) ==
    \A i \in 1..(n * Length) : i \in DOMAIN heard /\ heard[i] = 1 + ((i - 1) % Length)

(* Every question on the channel the bot gets is answered with the whole   *)
(* file, one answer after the other, unless a line too long has ended the  *)
(* bot or too many questions have made it and the server wait for each     *)
(* other.                                                                  *)
QuestionsAnswered ==
    \A n \in 1..MaxLines :
        files /\ Questions("channel") >= n ~> Answered(n) \/ gone \/ MutualWait
-----------------------------------------------------------------------------
(* The inductive invariant (proved in BotProofs).                          *)

Answers == AnswersTo("channel") \cup AnswersTo("bot")

LinesToBot ==
    [word : {"question", "text", "ping", "long"}, to : Receivers]
      \cup [word : {"reply", "invite", "kick"}] \cup Answers

LinesFromBot == [word : {"PASS", "USER", "NICK", "PONG", "JOIN"}] \cup Answers

LinesAsked ==
    [word : {"question", "text", "ping", "long", "invite", "kick"}, to : Receivers,
     by : {"PRIVMSG", "NOTICE", "INVITE", "KICK"}, relayed : BOOLEAN]

LinesTyped ==
    /\ toBot \in Seq(LinesToBot) /\ sending \in Seq(LinesToBot)
    /\ fromBot \in Seq(LinesFromBot) /\ saying \in Seq(LinesFromBot)
    /\ asked \in Seq(LinesAsked) /\ heard \in Seq(Nat)
    /\ logged \in BOOLEAN /\ member \in BOOLEAN

(* Questions the bot has not read yet: each may become an answer.          *)
QuestionTo(to) == [word : {"question"}, to : {to}]
Pending(to) == Count(toBot, QuestionTo(to)) + Count(sending, QuestionTo(to))

BotInv ==
    /\ LinesTyped
    /\ \A to \in Receivers :
         Arrived(to) + OnTheWay(AnswersTo(to)) + Length * Pending(to)
           <= Length * Questions(to)
=============================================================================
