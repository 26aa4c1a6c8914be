------------------------ MODULE MCPersistentSession ------------------------
(* Small instances of PersistentSession.                                   *)
EXTENDS PersistentSession, TLC

\* Messages "a" and "b" have QoS 1, "t" has QoS 2.
QosOf == [a |-> 1, b |-> 1, t |-> 2]

MCQos == [m \in Msgs |-> QosOf[m]]

\* Two QoS 1 messages that compete for window and queue, or a QoS 2 message.
MCWorkloads == {{"a", "b"}, {"t"}}

OneMessage == {{"a"}}

WorkerSymmetry == Permutations(Workers)
============================================================================
