----------------------------- MODULE MCCluster -----------------------------
(* Small instances of Cluster: servers A and B, of which A may start twice. *)
EXTENDS Cluster

MCInstance == [n \in NodeIds |-> IF n = 2 THEN "B" ELSE "A"]

\* All connections persistent, all clean, and a change of mind.
MCProfiles == {{}, Conns, {1}, {2}}
=============================================================================
