------------------------------- MODULE Topics -------------------------------
(***************************************************************************)
(* Topic names and filters, from utils/TopicUtil.java and                  *)
(* functions/TopicMatchFunction.java.                                      *)
(*                                                                         *)
(* A topic is the sequence of its levels: "a//" is <<"a", "", "">>.  The   *)
(* empty topic is <<"">>.  A level is "+", "#" or holds neither character. *)
(***************************************************************************)
EXTENDS Integers, Sequences, FiniteSets

Plus == "+"

Pound == "#"

Level == {Plus, Pound} \cup STRING

Topic == Seq(Level) \ {<<>>}

ValidateTopic(topic) == topic # <<"">>

IsWildcard(topic) == \E i \in 1..Len(topic) : topic[i] \in {Plus, Pound}

\* `#' is the last character or absent.
CheckSubscribeTopic(topic) ==
    ValidateTopic(topic) /\ \A i \in 1..Len(topic) : topic[i] = Pound => i = Len(topic)

CheckPublishTopic(topic) == ValidateTopic(topic) /\ ~IsWildcard(topic)

\* The last level of a topic that is not empty; 0 if there is none.
LastWord(topic) ==
    CHOOSE n \in 0..Len(topic) :
        /\ n > 0 => topic[n] # ""
        /\ \A i \in n + 1..Len(topic) : topic[i] = ""

\* String.split drops all empty levels at the end; one is put back.
words(topic) ==
    IF topic[Len(topic)] = ""
    THEN Append(SubSeq(topic, 1, LastWord(topic)), "")
    ELSE topic

\* The trie nodes of a topic: the prefixes of its words.  A node is named by
\* `self'; its key is the prefix without the last word, and that word.
topic2Trie(topic) ==
    LET ws == words(topic) IN {SubSeq(ws, 1, n) : n \in 1..Len(ws)}

\* The first words of two topics agree, up to wildcards of the FIRST one.
rloopMatch(t, f, length) == \A i \in 1..length : t[i] \in {f[i], Plus, Pound}

\* rmatch(topic, filter): the wildcards are those of the first argument.
rmatch(topic, filter) ==
    LET t == words(topic)
        f == words(filter)
    IN  \/ topic = <<Pound>>
        \/ Len(t) = Len(f) + 1 /\ t[Len(t)] = Pound /\ rloopMatch(t, f, Len(f))
        \/ Len(t) = Len(f) /\ rloopMatch(t, f, Len(t))
        \/ Len(t) < Len(f) /\ t[Len(t)] = Pound /\ rloopMatch(t, f, Len(t))

-----------------------------------------------------------------------------
(* The reference: what the MQTT standard says a filter matches.            *)

\* `+' stands for any one level, a final `#' for any number of them.
Matches(filter, topic) ==
    LET same(n) == \A i \in 1..n : filter[i] \in {topic[i], Plus}
        n == Len(filter)
    IN  \/ n = Len(topic) /\ same(n)
        \/ filter[n] = Pound /\ n <= Len(topic) + 1 /\ same(n - 1)

\* Topics that words() does not shorten: at most one empty level at the end.
Regular(topic) == words(topic) = topic
=============================================================================
