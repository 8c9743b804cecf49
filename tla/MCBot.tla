-------------------------------- MODULE MCBot -------------------------------
(* What the README says of the bot, and what becomes of a question.        *)
EXTENDS Bot

Ordinary == [word : {"question"}, to : Receivers, by : {"PRIVMSG"}, relayed : BOOLEAN]
Invitation == {line \in Range(asked) : line.word = "invite"}

(* Bounds: besides questions by PRIVMSG the user sends one INVITE and one  *)
(* line of another kind, which is a question if it is a NOTICE.            *)
MostlyQuestions ==
    /\ Count(asked, Invitation) <= 1
    /\ Len(asked) - Count(asked, Ordinary) - Count(asked, Invitation) <= 1
    /\ \A i \in DOMAIN asked : asked[i].by = "NOTICE" => asked[i].word = "question"

(* The README has the bot "send memes in response".  The response to a     *)
(* question put to the bot alone is a message to the bot.                  *)
ResponseIsToTheUser ==
    \A line \in Range(fromBot) : line.word = "answer" => line.to # "bot"

(* The README has NOTICE as a PRIVMSG to which there is no response.  The  *)
(* server relays it as a PRIVMSG and the bot responds.                     *)
NoResponseToNotice ==
    \A line \in Range(fromBot) : line.word = "answer" =>
        \E i \in DOMAIN asked : asked[i].word = "question" /\ asked[i].by = "PRIVMSG"
=============================================================================
