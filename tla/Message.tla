------------------------------- MODULE Message ------------------------------
(***************************************************************************)
(* The parser: class Message, with which the server reads the line of a    *)
(* client and the bot a line of the server.                                *)
(*                                                                         *)
(* A line is a sequence of characters, of which the parser tells apart the *)
(* colon, the comma, the space and the rest.  The variable is the line as  *)
(* it is typed, so that a run of TLC goes through every line up to         *)
(* MaxLength.                                                              *)
(***************************************************************************)
EXTENDS Naturals, Sequences, SequencesExt

CONSTANTS
    Letters,    \* characters that are no separators
    MaxLength   \* bound: characters in a line

ASSUME LettersAssumption == Letters \cap {":", ",", " "} = {}
ASSUME LengthAssumption == MaxLength \in Nat

VARIABLE line

(* The nickname of the user the line comes from, which is the prefix of a  *)
(* line without one.                                                       *)
Nickname == <<"nick">>

(* Its characters are told apart from those that are typed.                *)
ASSUME NicknameAssumption == Nickname[1] \notin Letters

-----------------------------------------------------------------------------
(* Message::_split: getline() up to each delimiter and, at last, to the    *)
(* end of the string; an empty field is left out.                          *)

NothingRead == [fields |-> <<>>, field |-> <<>>]

(* Mutant of Pushed: an empty field is a field.                            *)
PushedAlways(read) == Append(read.fields, read.field)

Pushed(read) ==
    IF read.field = <<>> THEN read.fields ELSE Append(read.fields, read.field)

ReadCharacter(read, c, delimiter) ==
    IF c = delimiter THEN [fields |-> Pushed(read), field |-> <<>>]
    ELSE [fields |-> read.fields, field |-> Append(read.field, c)]

Read(str, delimiter) ==
    FoldLeft(LAMBDA read, c : ReadCharacter(read, c, delimiter), NothingRead, str)

Split(str, delimiter) == Pushed(Read(str, delimiter))

(* Mutant of Parameters: lists stay in one piece.                          *)
ParametersWhole(words) == words

(* A word with a comma in it is a list.                                    *)
Parameters(words) ==
    FlattenSeq([i \in DOMAIN words |->
        IF "," \in Range(words[i]) THEN Split(words[i], ",") ELSE <<words[i]>>])

(* Message::_parseUtility: the prefix if the line has one, the command,    *)
(* the parameters.                                                         *)
Utility(words, isPrefix) ==
    LET named == IF isPrefix /\ words # <<>> THEN Tail(words) ELSE words IN
    [prefix     |-> IF isPrefix /\ words # <<>> THEN Head(words) ELSE Nickname,
     command    |-> IF named = <<>> THEN <<>> ELSE Head(named),
     parameters |-> IF named = <<>> THEN <<>> ELSE Parameters(Tail(named))]

(* Mutant of Text: the text ends at the next colon.                        *)
TextToColon(fields) == IF Len(fields) > 1 THEN fields[2] ELSE <<>>

(* What follows the first field, the colons left out.                      *)
Text(fields) == FlattenSeq(Tail(fields))

(* Message::_parse.  A line of colons only has no first field to look at:  *)
(* what the program does then is undefined (Registry's Misread).           *)
Parsable(str) == ":" \in Range(str) => Split(str, ":") # <<>>

Parse(str) ==
    LET isPrefix == str # <<>> /\ Head(str) = ":"
        fields   == Split(str, ":")
    IN  IF ":" \in Range(str)
        THEN [Utility(Split(Head(fields), " "), isPrefix)
                EXCEPT !.parameters = Append(@, Text(fields))]
        ELSE Utility(Split(str, " "), isPrefix)

(* PRIVMSG and NOTICE compose the line that the receivers read.            *)
Relay(msg, receiver) ==
    <<":">> \o msg.prefix \o <<" ", "P", " ">> \o receiver \o <<" ", ":">>
            \o Last(msg.parameters)

-----------------------------------------------------------------------------
Init == line = <<>>

Type(c) ==
    /\ Len(line) < MaxLength
    /\ line' = Append(line, c)

Next == \E c \in Letters \cup {":", ",", " "} : Type(c)

Spec == Init /\ [][Next]_line

-----------------------------------------------------------------------------
(* The grammar, from the table of commands in the README and the RFC it    *)
(* names: [":" prefix] command {parameter | list} [":" text], a text       *)
(* starting at the first colon that follows a space.                       *)

(* The longest stretches of str without a separator, in order: where they  *)
(* start, the last character of the one that starts at i, and the n-th.    *)
Apart(str, separators, i) == i \notin DOMAIN str \/ str[i] \in separators

Starts(str, separators) ==
    {i \in DOMAIN str : ~Apart(str, separators, i) /\ Apart(str, separators, i - 1)}

End(str, separators, i) ==
    CHOOSE j \in i..Len(str) :
        /\ \A k \in i..j : ~Apart(str, separators, k)
        /\ Apart(str, separators, j + 1)

Start(str, separators, n) ==
    CHOOSE i \in Starts(str, separators) :
        Cardinality({j \in Starts(str, separators) : j <= i}) = n

Words(str, separators) ==
    [n \in 1..Cardinality(Starts(str, separators)) |->
        LET i == Start(str, separators, n)
        IN  SubSeq(str, i, End(str, separators, i))]

Colons(str) == {i \in DOMAIN str : str[i] = ":"}
TextColons(str) == {i \in Colons(str) \ {1} : str[i - 1] = " "}
TextColon(str) == CHOOSE i \in TextColons(str) : \A j \in TextColons(str) : i <= j
HasText(str) == TextColons(str) # {}
HasPrefix(str) == 1 \in Colons(str)

Ahead(str) == IF HasText(str) THEN SubSeq(str, 1, TextColon(str) - 1) ELSE str
AheadWords(str) == Words(Ahead(str), {" "})
NamesCommand(str) == Len(AheadWords(str)) > IF HasPrefix(str) THEN 1 ELSE 0

Meaning(str) ==
    LET words == AheadWords(str)
        n == IF HasPrefix(str) THEN 2 ELSE 1
    IN  [prefix     |-> IF HasPrefix(str) THEN Tail(words[1]) ELSE Nickname,
         command    |-> words[n],
         parameters |->
            FlattenSeq([i \in 1..(Len(words) - n) |-> Words(words[n + i], {","})])
            \o IF HasText(str) THEN <<SubSeq(str, TextColon(str) + 1, Len(str))>>
                               ELSE <<>>]

(* Lines on which the parser keeps to the grammar: colons only where a     *)
(* prefix and a text begin, and a prefix only with a text.                 *)
Regular(str) ==
    /\ NamesCommand(str)
    /\ Colons(str) \subseteq {1} \cup IF HasText(str) THEN {TextColon(str)} ELSE {}
    /\ HasPrefix(str) => HasText(str) /\ str[2] # " "

-----------------------------------------------------------------------------
(* Properties                                                              *)

(* A line of the grammar is read as the grammar says.                      *)
KeepsToGrammar == Regular(line) => Parse(line) = Meaning(line)

(* The letters of str, in order.                                           *)
LettersOf(str) ==
    FlattenSeq([i \in DOMAIN str |->
        IF str[i] \in Letters THEN <<str[i]>> ELSE <<>>])

(* Whatever line is read, none of its letters gets lost, moves or appears  *)
(* twice: it is in the prefix, the command or one parameter.               *)
LettersKept ==
    LET msg == Parse(line) IN
    Parsable(line) =>
        LettersOf(line) =
            LettersOf(msg.prefix \o msg.command \o FlattenSeq(msg.parameters))

(* A line composed of what was parsed is read by the bot, with the same    *)
(* parser, as it was meant: from whom, to whom and with which text.        *)
RelayedReadsTheSame ==
    LET msg == Parse(line) IN
    Parsable(line) /\ msg.parameters # <<>> =>
        \A receiver \in {<<a>> : a \in Letters} :
            Parse(Relay(msg, receiver)) =
                [prefix     |-> msg.prefix,
                 command    |-> <<"P">>,
                 parameters |-> <<receiver, Last(msg.parameters)>>]
=============================================================================
