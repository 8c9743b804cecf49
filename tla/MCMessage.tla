------------------------------ MODULE MCMessage -----------------------------
(* What the README says of the commands' parameters, and the parser.       *)
EXTENDS Message

(* The README has PRIVMSG <receiver> <text to be sent>: the text of a line *)
(* is the last parameter.  The colons of the text are not sent.            *)
TextIsSent ==
    HasText(line) /\ NamesCommand(line) /\ (\A i \in Colons(line) : i >= TextColon(line)) =>
        Last(Parse(line).parameters) = Last(Meaning(line).parameters)

(* The README has TOPIC <channel> [<topic>] change the topic only if a new *)
(* one is given: a line with one parameter and no text is read with one    *)
(* parameter.  If it has a prefix, it is read with an empty text.          *)
ViewIsNoChange ==
    /\ NamesCommand(line) /\ ~HasText(line) /\ Colons(line) \subseteq {1}
    /\ HasPrefix(line) => line[2] # " "
    /\ Len(Meaning(line).parameters) = 1
    => Len(Parse(line).parameters) = 1
=============================================================================
