---------------------------- MODULE MCInboundQos2 ----------------------------
(* Small instances of InboundQos2: messages p and q.                        *)
EXTENDS InboundQos2, TLC

CONSTANTS p, q

OneId  == (p :> 1) @@ (q :> 1)      \* one after the other
TwoIds == (p :> 1) @@ (q :> 2)      \* at the same time

\* One id with a reconnect and an expiry or a crash; two ids with an expiry or a
\* crash.
MCPlans == {[ids |-> OneId, conns |-> 2, faults |-> 1],
            [ids |-> TwoIds, conns |-> 1, faults |-> 1]}
==============================================================================
