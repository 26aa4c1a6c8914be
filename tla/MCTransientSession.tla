------------------------ MODULE MCTransientSession ------------------------
(* Small instances of TransientSession.                                    *)
EXTENDS TransientSession, TLC

\* Message "z" has QoS 0, "a", "b" and "c" QoS 1, "t" QoS 2.
QosOf == [z |-> 0, a |-> 1, b |-> 1, c |-> 1, t |-> 2]

MCQos == [m \in Msgs |-> QosOf[m]]

\* publishMessage only: one message per call.
Singles == {{m} : m \in Msgs}

\* Also calls of publishRetainMessage with two messages.
Pairs == {S \in SUBSET Msgs : Cardinality(S) \in 1..2}

\* One call of publishRetainMessage with all the QoS 1 messages, publishMessage
\* for the others.
Retained == {{m \in Msgs : Qos[m] = 1}} \cup {{m} : m \in {n \in Msgs : Qos[n] # 1}}

WorkerSymmetry == Permutations(Workers)
===========================================================================
