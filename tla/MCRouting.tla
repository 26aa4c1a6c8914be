----------------------------- MODULE MCRouting -----------------------------
(* Small instances of Routing.                                             *)
EXTENDS Routing, TLC

\* a/+, a/# and the filter #/b, which checkSubscribeTopic refuses.
Wildcards == {<<"a", "+">>, <<"a", "#">>, <<"#", "b">>}

\* The topic most packets below are published on.
SameTopic == {<<"a", "b">>}

\* "s" and "u" are retained on a/b, "x" and "y" on topics of their own; "e" has
\* an empty payload and "p" is not retained, both on topic a.
MCTopicOf ==
    [m \in Msgs |-> CASE m \in {"s", "u"} -> <<"a", "b">>
                      [] m \in {"e", "p"} -> <<"a">>
                      [] m = "x" -> <<"x">>
                      [] m = "y" -> <<"y">>]

MCQosOf == [m \in Msgs |-> 1]

MCRetainOf ==
    [m \in Msgs |-> CASE m = "e" -> "empty" [] m = "p" -> "no" [] OTHER -> "save"]

ClientSymmetry == Permutations(Clients)

WorkerSymmetry == Permutations(Workers)
===========================================================================
