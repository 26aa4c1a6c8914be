----------------------------- MODULE RoutedOnce -----------------------------
(***************************************************************************)
(* What the broker promises of the QoS 2 messages its clients publish: a   *)
(* copy of a message that arrives is kept at most once, and what is kept   *)
(* is handed to the subscribers at most once.  Kept messages may be        *)
(* forgotten (no room, expiry, a crash), never multiplied.                 *)
(*                                                                         *)
(* InboundQos2 implements this specification.                              *)
(***************************************************************************)
EXTENDS Naturals, TLAPS

CONSTANTS Pubs          \* the messages clients publish with QoS 2

VARIABLES
    sent,               \* copies of each message the clients have sent
    copies,             \* copies on their way that the broker has not kept
    held,               \* copies the broker keeps for PUBREL, or has in hand
    routed              \* how often each message went to the subscribers

vars == <<sent, copies, held, routed>>

Counts == [Pubs -> Nat]

Init == sent = [p \in Pubs |-> 0] /\ copies = sent /\ held = sent /\ routed = sent

\* A client sends PUBLISH packets, one of each message of ps, for the first
\* time or, after a reconnect, again.
Send(ps) ==
    /\ sent' = [p \in Pubs |-> IF p \in ps THEN sent[p] + 1 ELSE sent[p]]
    /\ copies' = [p \in Pubs |-> IF p \in ps THEN copies[p] + 1 ELSE copies[p]]
    /\ UNCHANGED <<held, routed>>

\* One copy is kept; it may take the place of others.
Keep(p) ==
    /\ copies[p] > 0
    /\ copies' = [copies EXCEPT ![p] = @ - 1]
    /\ held' \in Counts
    /\ held'[p] <= held[p] + 1
    /\ \A q \in Pubs \ {p} : held'[q] <= held[q]
    /\ UNCHANGED <<sent, routed>>

\* A kept copy is handed to the subscribers.
Route(p) ==
    /\ held[p] > 0
    /\ held' = [held EXCEPT ![p] = @ - 1]
    /\ routed' = [routed EXCEPT ![p] = @ + 1]
    /\ UNCHANGED <<sent, copies>>

\* Copies are lost on their way, and kept ones forgotten.
Lose ==
    /\ copies' \in Counts /\ held' \in Counts
    /\ \A p \in Pubs : copies'[p] <= copies[p] /\ held'[p] <= held[p]
    /\ UNCHANGED <<sent, routed>>

Next ==
    \/ \E ps \in SUBSET Pubs : Send(ps)
    \/ \E p \in Pubs : Keep(p) \/ Route(p)
    \/ Lose

Spec == Init /\ [][Next]_vars

\* No message reaches the subscribers more often than its publisher has sent
\* it: what was routed, is kept and is on its way adds up to at most the
\* copies sent.
AtMostOnce ==
    \A p \in Pubs : routed[p] + held[p] + copies[p] <= sent[p]

-----------------------------------------------------------------------------
(* Proofs.                                                                 *)

TypeOK == sent \in Counts /\ copies \in Counts /\ held \in Counts /\ routed \in Counts

\* A step of a client or of the broker moves, adds to `sent' or loses copies.
LEMMA StepKeepsBalance ==
    TypeOK /\ AtMostOnce /\ [Next]_vars => (TypeOK /\ AtMostOnce)'
  <1> SUFFICES ASSUME TypeOK, AtMostOnce, [Next]_vars
               PROVE  (TypeOK /\ AtMostOnce)'
    OBVIOUS
  <1>1. ASSUME NEW ps \in SUBSET Pubs, Send(ps)
        PROVE  (TypeOK /\ AtMostOnce)'
    BY <1>1 DEF Send, TypeOK, AtMostOnce, Counts
  <1>2. ASSUME NEW p \in Pubs, Keep(p)
        PROVE  (TypeOK /\ AtMostOnce)'
    <2>1. TypeOK'
      BY <1>2 DEF Keep, TypeOK, Counts
    <2>2. ASSUME NEW q \in Pubs
          PROVE  routed'[q] + held'[q] + copies'[q] <= sent'[q]
      <3>1. held'[q] + copies'[q] <= held[q] + copies[q]
        BY <1>2, <2>1 DEF Keep, TypeOK, Counts
      <3>2. QED
        BY <1>2, <2>1, <3>1 DEF Keep, TypeOK, Counts, AtMostOnce
    <2>3. QED
      BY <2>1, <2>2 DEF AtMostOnce
  <1>3. ASSUME NEW p \in Pubs, Route(p)
        PROVE  (TypeOK /\ AtMostOnce)'
    BY <1>3 DEF Route, TypeOK, AtMostOnce, Counts
  <1>4. ASSUME Lose
        PROVE  (TypeOK /\ AtMostOnce)'
    <2>1. TypeOK'
      BY <1>4 DEF Lose, TypeOK, Counts
    <2>2. QED
      BY <1>4, <2>1 DEF Lose, TypeOK, AtMostOnce, Counts
  <1>5. CASE UNCHANGED vars
    BY <1>5 DEF vars, TypeOK, AtMostOnce
  <1>6. QED
    BY <1>1, <1>2, <1>3, <1>4, <1>5 DEF Next

\* In every behaviour the subscribers get a message at most as often as its
\* publisher has sent it, and copies still kept or on their way are part of that
\* bound: the promise of the QoS 2 handlers (handlePublish, handlePublishRelease).
THEOREM NeverMultiplied == Spec => []AtMostOnce
  <1>1. Init => TypeOK /\ AtMostOnce
    BY DEF Init, TypeOK, AtMostOnce, Counts
  <1>2. QED
    BY <1>1, StepKeepsBalance, PTL DEF Spec
=============================================================================
