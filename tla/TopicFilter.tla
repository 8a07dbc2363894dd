----------------------------- MODULE TopicFilter -----------------------------
(***************************************************************************)
(* isTopicMatched() of MQTTClient.h, which walks the filter of a message   *)
(* handler and the topic of a message together.  Both are sequences of     *)
(* characters here, since where the levels begin is what the walk finds    *)
(* out.                                                                    *)
(***************************************************************************)
EXTENDS Integers, Sequences, SequencesExt

CONSTANTS
    Filters, Topics     \* those that are compared

Separator == "/"

\* '+' and '#' have a level of their own, and '#' is the last
Proper(f) ==
    \A n \in DOMAIN f :
        f[n] \in {"+", "#"} =>
            /\ n = 1 \/ f[n - 1] = Separator
            /\ n = Len(f) \/ (f[n] = "+" /\ f[n + 1] = Separator)

ASSUME TopicAssumption ==
    /\ Filters \union Topics \subseteq Seq(STRING) \ {<<>>}
    /\ \A f \in Filters : Proper(f)

VARIABLES
    filter, topicName,  \* a handler's filter and a message's topic
    matched             \* whether the handler is called
topicVars == <<filter, topicName, matched>>

\* Mutant: a '+' takes one character.
LevelEnd_OneCharacter(topic, n) == n

\* A '+' takes what is left of a level: the last of its characters from n on
LevelEnd(topic, n) ==
    CHOOSE m \in n..Len(topic) :
        /\ m = Len(topic) \/ topic[m + 1] = Separator
        /\ \A k \in n + 1..m : topic[k] # Separator

\* The characters f and n of filter and topic agree, or a wildcard stands for n
Agrees(f, n) ==
    /\ n = Separator => f = Separator
    /\ f \in {"+", "#", n}

\* The walk ends at the end of either or where they disagree
isTopicMatched(curf, topic) ==
    LET Walk[f \in 1..Len(curf) + 1] ==
            [n \in 1..Len(topic) + 1 |->
                IF f > Len(curf) \/ n > Len(topic) THEN f > Len(curf) /\ n > Len(topic)
                ELSE /\ Agrees(curf[f], topic[n])
                     /\ Walk[f + 1][(CASE curf[f] = "+" -> LevelEnd(topic, n)
                                        [] curf[f] = "#" -> Len(topic)
                                        [] OTHER         -> n) + 1]]
    IN  Walk[1][1]

TopicInit == filter = <<>> /\ topicName = <<>> /\ matched = FALSE

\* deliverMessage() for one handler
deliverMessage(f, t) ==
    /\ filter' = f
    /\ topicName' = t
    /\ matched' = (t = f \/ isTopicMatched(f, t))

TopicNext == \E f \in Filters, t \in Topics : deliverMessage(f, t)

TopicSpec == TopicInit /\ [][TopicNext]_topicVars

-----------------------------------------------------------------------------
(* Properties *)

\* The levels of a name, and what MQTT says of a filter: '+' stands for one
\* level, '#' at the end for any number, none included
Levels(name) ==
    LET from[n \in 1..Len(name) + 1] ==
            IF n > Len(name) THEN << <<>> >>
            ELSE IF name[n] = Separator THEN << <<>> >> \o from[n + 1]
            ELSE << <<name[n]>> \o Head(from[n + 1]) >> \o Tail(from[n + 1])
    IN  from[1]
Covers(f, t, atLeast) ==
    LET many == Last(f) = <<"#">>
        n    == IF many THEN Len(f) - 1 ELSE Len(f)
    IN  /\ IF many THEN Len(t) >= n + atLeast ELSE Len(t) = n
        /\ \A k \in 1..n : f[k] = <<"+">> \/ f[k] = t[k]

\* A handler is called only for messages its filter covers.
MatchIsRight == matched => Covers(Levels(filter), Levels(topicName), 0)

\* And for all of those in whose topic no level is empty, if '#' is to stand for
\* one level at least.
MatchIsComplete ==
    /\ filter # <<>>
    /\ <<>> \notin Range(Levels(topicName))
    /\ Covers(Levels(filter), Levels(topicName), 1)
    => matched

\* The walk finds what MQTT says of filter and topic, but for empty levels and a '#'
\* that stands for none.
MatchAgrees == MatchIsRight /\ MatchIsComplete

=============================================================================
