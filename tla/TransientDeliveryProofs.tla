---------------------- MODULE TransientDeliveryProofs ----------------------
(***************************************************************************)
(* More theorems about TransientSession: packet ids, the window, the queue *)
(* and the fate of a message, for any number of workers and messages and   *)
(* any capacities.  They extend the invariant of TransientSessionProofs.   *)
(***************************************************************************)
EXTENDS TransientSessionProofs, FiniteSetTheorems

\* A message is in one place until it is filed for the first time: with the call
\* that delivers it, in the hands of one worker, or once in the queue.
HandInv ==
    /\ \A m \in Msgs : turn[m] = 0 => mid[m] = 0
    /\ \A w \in Workers : \A m \in todo[w] : turn[m] = 0
    /\ \A v, w \in Workers : v # w => todo[v] \cap todo[w] = {}
    /\ \A w \in Workers : pc[w] \in FirstDelivery =>
         /\ turn[cur[w]] # 0 /\ mid[cur[w]] = 0
         /\ \A v \in Workers : v # w /\ pc[v] \in FirstDelivery => cur[v] # cur[w]
         /\ \A j \in DOMAIN queue : queue[j] # cur[w]
    /\ \A w \in Workers : pc[w] \in Retrying => mid[cur[w]] # 0
    /\ \A j \in DOMAIN queue : turn[queue[j]] # 0 /\ mid[queue[j]] = 0
    /\ \A j, k \in DOMAIN queue : queue[j] = queue[k] => j = k

\* An id that is a key, a timer, an id of an object or an id the client may answer.
UsedId(i) ==
    \/ i \in timeouts \cup expired
    \/ inflights[i] # None
    \/ \E m \in Msgs : mid[m] = i
    \/ \E p \in wire : p.id = i
    \/ \E w \in Workers : pc[w] = "recSet" /\ rec[w].id = i

\* The worker that has filed a message and is about to publish it.
Reserves(w) == pc[w] \in PublishPending /\ mid[cur[w]] = lastId + 1

\* No id beyond the endpoint's counter is in use, but the one that is reserved.
Fresh ==
    /\ lastId = published
    /\ \A i \in Ids : UsedId(i) =>
         i <= lastId \/ (i = lastId + 1 /\ (~connected \/ \E w \in Workers : Reserves(w)))

\* Keys and ids of objects belong together.
Keys ==
    /\ \A i \in Ids : inflights[i] # None => mid[inflights[i]] = i
    /\ \A a, b \in Msgs : mid[a] = mid[b] /\ mid[a] # 0 => a = b

\* The timer of an id and the worker that retries its message exclude each other.
Timers ==
    /\ timeouts \cap expired = {}
    /\ \A w \in Workers : pc[w] \in Retrying =>
         /\ old[w] = mid[cur[w]] /\ old[w] \notin timeouts \cup expired
         /\ retry[cur[w]] < MaxRetries
         /\ inflights[old[w]] = cur[w] \/ cur[w] \in acked
         /\ \A v \in Workers : v # w /\ pc[v] \in Retrying => old[v] # old[w]

\* An answer of the client is about the message that is filed under its id.
Answers ==
    /\ \A p \in wire : inflights[p.id] \in {None, p.msg}
    /\ \A w \in Workers : pc[w] = "recSet" => inflights[rec[w].id] \in {None, rec[w].msg}

\* Transmissions, done and pending, are paid for by the first filing or a retry.
Pending(m) == \E w \in Workers : pc[w] \in PublishPending /\ cur[w] = m
Transmits ==
    \A m \in Msgs :
        /\ retry[m] <= MaxRetries
        /\ Qos[m] > 0 =>
             sends[m] + (IF Pending(m) THEN 1 ELSE 0)
                 <= (IF mid[m] = 0 THEN 0 ELSE 1) + retry[m]

\* Messages without QoS are published at places of their own.
Qos0Inv == \A w \in Workers : pc[w] \in {"pub0", "dqPub0"} => Qos[cur[w]] = 0

\* The keys of the messages the client has not confirmed.
Unacked == {i \in InflightIds : inflights[i] \notin acked}

\* The window has room for the message that dequeue has polled.
Window ==
    InflightMax > 0 =>
        /\ Cardinality(Unacked) <= InflightMax
        /\ \A w \in Workers : pc[w] \in {"dqPub0", "dqPut"} => Cardinality(Unacked) < InflightMax

\* The parts hold together as long as no packet id has been used twice.
DeliveryInv == IdsUnused => Fresh /\ Keys /\ Timers /\ Answers /\ Transmits /\ Window

\* Every worker that has found room in the queue may still add to it.
Adding == {w \in Workers : pc[w] = "enqAdd"}
OvershootInv ==
    QueueMax > 0 => Len(queue) + Cardinality(Adding) <= QueueMax + Cardinality(Workers) - 1

-----------------------------------------------------------------------------
USE ConstantsAssumption
USE DEF Goto, endpointVars, inflightVars, objectVars, casVars, callVars, orderVars, outcomeVars, Ids

\* What is left of a queue when its first message is taken.
LEMMA TailFacts ==
    ASSUME NEW S, NEW q \in Seq(S), q # <<>>
    PROVE  /\ 1 \in DOMAIN q /\ Head(q) = q[1] /\ Head(q) \in S
           /\ Tail(q) \in Seq(S) /\ Len(Tail(q)) = Len(q) - 1
           /\ \A j \in DOMAIN Tail(q) :
                j \in Nat \ {0} /\ j + 1 \in DOMAIN q /\ Tail(q)[j] = q[j + 1]
  OBVIOUS

\* The types of what HandInv is about.
HandTypes ==
    /\ pc \in [Workers -> Places]
    /\ cur \in [Workers -> Msgs \cup {None}]
    /\ todo \in [Workers -> SUBSET Msgs]
    /\ mid \in [Msgs -> 0..MaxMessageId]
    /\ turn \in [Msgs -> Nat] /\ clock \in Nat
    /\ queue \in Seq(Msgs)

\* TypeOK gives them.
LEMMA HandTypesOK == TypeOK => HandTypes
  BY DEF TypeOK, HandTypes, WorkerTypes, ObjectTypes, HistoryTypes

\* A worker that neither begins nor ends with a message of its own disturbs nothing.
LEMMA HandMoves ==
    ASSUME HandTypes, HandInv, UNCHANGED <<mid, todo, turn, queue>>, NEW w \in Workers,
           \A v \in Workers : v # w => pc'[v] = pc[v] /\ cur'[v] = cur[v],
           pc'[w] \in FirstDelivery => pc[w] \in FirstDelivery /\ cur'[w] = cur[w],
           pc'[w] \in Retrying => pc[w] \in Retrying /\ cur'[w] = cur[w]
    PROVE  HandInv'
  <1>1. \A v \in Workers : pc'[v] \in FirstDelivery => pc[v] \in FirstDelivery /\ cur'[v] = cur[v]
    OBVIOUS
  <1>2. \A v \in Workers : pc'[v] \in Retrying => pc[v] \in Retrying /\ cur'[v] = cur[v]
    OBVIOUS
  <1>3. QED
    BY <1>1, <1>2 DEF HandInv

\* Every step keeps a message in one place until it is filed.
LEMMA HandStep == TypeOK /\ LocalsInv /\ EntriesInv /\ HandInv /\ [Next]_vars => HandInv'
  <1> SUFFICES ASSUME TypeOK, LocalsInv, EntriesInv, HandInv, [Next]_vars
               PROVE  HandInv'
    OBVIOUS
  <1>a. HandTypes
    BY HandTypesOK
  <1>b. NextMessageId # 0
    BY NextId DEF TypeOK, EndpointTypes
  <1>1. ASSUME NEW w \in Workers, NEW S \in Batches, PublishMessage(w, S) PROVE HandInv'
    BY <1>1, <1>a DEF HandInv, HandTypes, FirstDelivery, Enqueuing, Retrying, PublishMessage
  <1>2. ASSUME NEW w \in Workers, HandleMessage(w) PROVE HandInv'
    BY <1>2, <1>a DEF HandInv, HandTypes, FirstDelivery, Enqueuing, Retrying, HandleMessage
  <1>3. ASSUME NEW w \in Workers, PublishQos0(w) PROVE HandInv'
    BY <1>3, <1>a DEF HandInv, HandTypes, FirstDelivery, Enqueuing, Retrying, PublishQos0,
       AfterMessage
  <1>4. ASSUME NEW w \in Workers, EnqueueSize(w) PROVE HandInv'
    BY <1>4, <1>a DEF HandInv, HandTypes, FirstDelivery, Enqueuing, Retrying, EnqueueSize
  <1>5. ASSUME NEW w \in Workers, EnqueuePoll(w) PROVE HandInv'
    <2>1. CASE queue = <<>>
      BY <1>5, <2>1, <1>a DEF EnqueuePoll, HandInv, HandTypes, FirstDelivery, Enqueuing, Retrying
    <2>2. CASE queue # <<>>
      <3>1. queue' = Tail(queue) /\ pc' = [pc EXCEPT ![w] = "enqAdd"] /\ pc[w] = "enqPoll"
            /\ UNCHANGED <<cur, mid, todo, turn>>
        BY <1>5, <2>2 DEF EnqueuePoll
      <3>2. \A j \in DOMAIN queue' :
              j \in Nat \ {0} /\ j + 1 \in DOMAIN queue /\ queue'[j] = queue[j + 1]
        BY <2>2, <3>1, <1>a, TailFacts DEF HandTypes
      <3>3. QED
        BY <3>1, <3>2, <1>a DEF HandInv, HandTypes, FirstDelivery, Enqueuing, Retrying
    <2>3. QED
      BY <2>1, <2>2

  <1>6. ASSUME NEW w \in Workers, EnqueueAdd(w) PROVE HandInv'
    BY <1>6, <1>a, SMTT(60) DEF HandInv, HandTypes, FirstDelivery, Enqueuing, Retrying, EnqueueAdd,
       AfterMessage
  <1>7. ASSUME NEW w \in Workers, InflightTake(w) PROVE HandInv'
    BY <1>7, <1>a DEF HandInv, HandTypes, FirstDelivery, Enqueuing, Retrying, InflightTake
  <1>8. ASSUME NEW w \in Workers, InflightPut(w) PROVE HandInv'
    <2>1. pc[w] = "inPut" /\ UNCHANGED <<todo, turn, queue>>
      BY <1>8 DEF InflightPut
    <2>2. cur[w] \in Msgs /\ turn[cur[w]] # 0
      BY <2>1 DEF LocalsInv, Carrying, HandInv, FirstDelivery, Enqueuing
    <2>3. CASE mid' = mid /\ pc' = [pc EXCEPT ![w] = "enqSize"] /\ cur' = cur
      BY <2>1, <2>3, <1>a, HandMoves DEF HandTypes, FirstDelivery, Enqueuing, Retrying
    <2>4. CASE mid' = [mid EXCEPT ![cur[w]] = NextMessageId] /\ pc' = [pc EXCEPT ![w] = "inPub"]
            /\ cur' = cur
      <3>1. \A j \in DOMAIN queue : queue[j] # cur[w] /\ queue[j] \in Msgs
        BY <2>1, <1>a DEF HandInv, HandTypes, FirstDelivery, Enqueuing
      <3>2. \A v \in Workers : v # w /\ pc[v] \in FirstDelivery => cur[v] # cur[w]
              /\ cur[v] \in Msgs
        BY <2>1, <1>a DEF HandInv, LocalsInv, Carrying, FirstDelivery, Enqueuing
      <3>3. \A v \in Workers : pc[v] \in Retrying => cur[v] \in Msgs
        BY DEF LocalsInv, Carrying, Retrying
      <3>4. \A v \in Workers : pc'[v] \in FirstDelivery => v # w /\ pc'[v] = pc[v]
        BY <2>1, <2>4, <1>a DEF HandTypes, FirstDelivery, Enqueuing
      <3>5. \A v \in Workers : pc'[v] \in Retrying => v # w /\ pc'[v] = pc[v]
        BY <2>1, <2>4, <1>a DEF HandTypes, Retrying
      <3>6. \A m \in Msgs : mid'[m] = IF m = cur[w] THEN NextMessageId ELSE mid[m]
        BY <2>4, <1>a DEF HandTypes
      <3>7. QED
        BY <2>1, <2>2, <2>4, <3>1, <3>2, <3>3, <3>4, <3>5, <3>6, <1>b, <1>a DEF HandInv, HandTypes
    <2>5. QED
      BY <1>8, <2>3, <2>4 DEF InflightPut, PutInflight

  <1>9. ASSUME NEW w \in Workers, InflightPublish(w) PROVE HandInv'
    BY <1>9, <1>a DEF HandInv, HandTypes, FirstDelivery, Enqueuing, Retrying, InflightPublish,
       AfterMessage
  <1>10. ASSUME NEW w \in Workers, DequeueTake(w) PROVE HandInv'
    <2>1. UNCHANGED <<mid, todo, turn, queue>> /\ pc[w] = "dqTake"
          /\ \/ pc' = [pc EXCEPT ![w] = "dqChk"] /\ cur' = cur
             \/ pc' = [pc EXCEPT ![w] = "idle"] /\ cur' = cur
      BY <1>10 DEF DequeueTake
    <2>2. QED
      BY <2>1, <1>a, HandMoves DEF HandTypes, FirstDelivery, Enqueuing, Retrying

  <1>11. ASSUME NEW w \in Workers, DequeueCheck(w) PROVE HandInv'
    BY <1>11, <1>a DEF HandInv, HandTypes, FirstDelivery, Enqueuing, Retrying, DequeueCheck
  <1>12. ASSUME NEW w \in Workers, DequeueTakeInflight(w) PROVE HandInv'
    BY <1>12, <1>a DEF HandInv, HandTypes, FirstDelivery, Enqueuing, Retrying, DequeueTakeInflight
  <1>13. ASSUME NEW w \in Workers, DequeuePoll(w) PROVE HandInv'
    <2>1. CASE MustStop
      <3>1. UNCHANGED <<mid, todo, turn, queue, cur>> /\ pc[w] = "dqPoll"
              /\ pc' = [pc EXCEPT ![w] = "dqEnd"]
        BY <1>13, <2>1 DEF DequeuePoll
      <3>2. QED
        BY <3>1, <1>a, HandMoves DEF HandTypes, FirstDelivery, Enqueuing, Retrying
    <2>2. CASE ~MustStop
      <3>1. queue' = Tail(queue) /\ UNCHANGED <<mid, todo, turn>> /\ queue # <<>>
        BY <1>13, <2>2 DEF DequeuePoll, MustStop
      <3>2. pc[w] = "dqPoll" /\ pc' = [pc EXCEPT ![w] = pc'[w]] /\ pc'[w] \in {"dqPub0", "dqPut"}
            /\ cur' = [cur EXCEPT ![w] = queue[1]] /\ queue[1] \in Msgs
        BY <1>13, <2>2, <3>1, <1>a, TailFacts DEF DequeuePoll, HandTypes
      <3>3. 1 \in DOMAIN queue /\ \A j \in DOMAIN queue' :
              j \in Nat \ {0} /\ j + 1 \in DOMAIN queue /\ queue'[j] = queue[j + 1]
        BY <3>1, <1>a, TailFacts DEF HandTypes
      <3>4. \A j \in DOMAIN queue' : queue'[j] # queue[1]
        BY <3>3 DEF HandInv
      <3>5. QED
        BY <3>1, <3>2, <3>3, <3>4, <1>a DEF HandInv, HandTypes, FirstDelivery, Enqueuing, Retrying
    <2>3. QED
      BY <2>1, <2>2

  <1>14. ASSUME NEW w \in Workers, DequeuePublishQos0(w) PROVE HandInv'
    <2>1. UNCHANGED <<mid, todo, turn, queue>> /\ pc[w] = "dqPub0"
          /\ \/ pc' = [pc EXCEPT ![w] = "dqPut"] /\ cur' = cur
             \/ pc' = [pc EXCEPT ![w] = "dqEnd"] /\ cur' = [cur EXCEPT ![w] = None]
      BY <1>14 DEF DequeuePublishQos0, BreakDequeue
    <2>2. QED
      BY <2>1, <1>a, HandMoves DEF HandTypes, FirstDelivery, Enqueuing, Retrying

  <1>15. ASSUME NEW w \in Workers, DequeuePut(w) PROVE HandInv'
    <2>1. pc[w] = "dqPut" /\ UNCHANGED <<todo, turn, queue>>
      BY <1>15 DEF DequeuePut
    <2>2. cur[w] \in Msgs /\ turn[cur[w]] # 0
      BY <2>1 DEF LocalsInv, Carrying, HandInv, FirstDelivery, Enqueuing
    <2>3. CASE mid' = mid /\ pc' = [pc EXCEPT ![w] = "dqEnd"] /\ cur' = [cur EXCEPT ![w] = None]
      BY <2>1, <2>3, <1>a, HandMoves DEF HandTypes, FirstDelivery, Enqueuing, Retrying
    <2>4. CASE mid' = [mid EXCEPT ![cur[w]] = NextMessageId] /\ pc' = [pc EXCEPT ![w] = "dqPub"]
            /\ cur' = cur
      <3>1. \A j \in DOMAIN queue : queue[j] # cur[w] /\ queue[j] \in Msgs
        BY <2>1, <1>a DEF HandInv, HandTypes, FirstDelivery, Enqueuing
      <3>2. \A v \in Workers : v # w /\ pc[v] \in FirstDelivery => cur[v] # cur[w]
              /\ cur[v] \in Msgs
        BY <2>1, <1>a DEF HandInv, LocalsInv, Carrying, FirstDelivery, Enqueuing
      <3>3. \A v \in Workers : pc[v] \in Retrying => cur[v] \in Msgs
        BY DEF LocalsInv, Carrying, Retrying
      <3>4. \A v \in Workers : pc'[v] \in FirstDelivery => v # w /\ pc'[v] = pc[v]
        BY <2>1, <2>4, <1>a DEF HandTypes, FirstDelivery, Enqueuing
      <3>5. \A v \in Workers : pc'[v] \in Retrying => v # w /\ pc'[v] = pc[v]
        BY <2>1, <2>4, <1>a DEF HandTypes, Retrying
      <3>6. \A m \in Msgs : mid'[m] = IF m = cur[w] THEN NextMessageId ELSE mid[m]
        BY <2>4, <1>a DEF HandTypes
      <3>7. QED
        BY <2>1, <2>2, <2>4, <3>1, <3>2, <3>3, <3>4, <3>5, <3>6, <1>b, <1>a DEF HandInv, HandTypes
    <2>5. QED
      BY <1>15, <2>3, <2>4 DEF DequeuePut, PutInflight, BreakDequeue

  <1>16. ASSUME NEW w \in Workers, DequeuePublish(w) PROVE HandInv'
    BY <1>16, <1>a DEF HandInv, HandTypes, FirstDelivery, Enqueuing, Retrying, DequeuePublish
  <1>17. ASSUME NEW w \in Workers, DequeueEnd(w) PROVE HandInv'
    BY <1>17, <1>a DEF HandInv, HandTypes, FirstDelivery, Enqueuing, Retrying, DequeueEnd
  <1>18. ASSUME NEW w \in Workers, SetPubrecStatus(w) PROVE HandInv'
    BY <1>18, <1>a DEF HandInv, HandTypes, FirstDelivery, Enqueuing, Retrying, SetPubrecStatus
  <1>19. ASSUME NEW w \in Workers, RetryRelease(w) PROVE HandInv'
    BY <1>19, <1>a DEF HandInv, HandTypes, FirstDelivery, Enqueuing, Retrying, RetryRelease
  <1>20. ASSUME NEW w \in Workers, RetryTake(w) PROVE HandInv'
    BY <1>20, <1>a DEF HandInv, HandTypes, FirstDelivery, Enqueuing, Retrying, RetryTake
  <1>21. ASSUME NEW w \in Workers, RetryPut(w) PROVE HandInv'
    <2>1. UNCHANGED <<todo, turn, queue>> /\ pc[w] = "rtPut"
      BY <1>21 DEF RetryPut
    <2>2. cur[w] \in Msgs /\ mid[cur[w]] # 0
      BY <2>1 DEF LocalsInv, Carrying, HandInv, Retrying
    <2>3. CASE connected
      <3>1. mid' = [mid EXCEPT ![cur[w]] = NextMessageId] /\ pc' = [pc EXCEPT ![w] = "rtPub"]
              /\ cur' = cur
        BY <1>21, <2>3 DEF RetryPut
      <3>2. \A j \in DOMAIN queue : queue[j] # cur[w] /\ queue[j] \in Msgs
        BY <2>2, <1>a DEF HandInv, HandTypes
      <3>3. \A v \in Workers : pc[v] \in FirstDelivery => cur[v] # cur[w] /\ cur[v] \in Msgs
        BY <2>2 DEF HandInv, LocalsInv, Carrying
      <3>4. \A v \in Workers : pc[v] \in Retrying => cur[v] \in Msgs
        BY DEF LocalsInv, Carrying, Retrying
      <3>5. \A v \in Workers : pc'[v] \in FirstDelivery => v # w /\ pc'[v] = pc[v]
        BY <2>1, <3>1, <1>a DEF HandTypes, FirstDelivery, Enqueuing
      <3>6. \A v \in Workers : pc'[v] \in Retrying => v # w /\ pc'[v] = pc[v]
        BY <2>1, <3>1, <1>a DEF HandTypes, Retrying
      <3>7. \A m \in Msgs : mid'[m] = IF m = cur[w] THEN NextMessageId ELSE mid[m]
        BY <3>1, <1>a DEF HandTypes
      <3>8. QED
        BY <2>1, <2>2, <3>1, <3>2, <3>3, <3>4, <3>5, <3>6, <3>7, <1>b, <1>a DEF HandInv, HandTypes
    <2>4. CASE ~connected
      <3>1. mid' = mid /\ pc' = [pc EXCEPT ![w] = "idle"] /\ cur' = [cur EXCEPT ![w] = None]
        BY <1>21, <2>4 DEF RetryPut
      <3>2. QED
        BY <2>1, <3>1, <1>a, HandMoves DEF HandTypes, FirstDelivery, Enqueuing, Retrying
    <2>5. QED
      BY <2>3, <2>4

  <1>22. ASSUME NEW w \in Workers, RetryPublish(w) PROVE HandInv'
    BY <1>22, <1>a DEF HandInv, HandTypes, FirstDelivery, Enqueuing, Retrying, RetryPublish
  <1>23. ASSUME NEW w \in Workers, NEW p \in wire, ReceivePuback(w, p) \/ ReceivePubcomp(w, p)
                PROVE HandInv'
    <2>1. pc[w] = "idle" /\ pc' = [pc EXCEPT ![w] = "dqTake"] /\ UNCHANGED <<cur, todo, mid, turn,
            queue>>
      BY <1>23 DEF ReceivePuback, ReceivePubcomp, RemoveInflight
    <2>2. QED
      BY <2>1, <1>a DEF HandInv, HandTypes, FirstDelivery, Enqueuing, Retrying

  <1>24. ASSUME NEW w \in Workers, NEW p \in wire, ReceivePubrec(w, p) PROVE HandInv'
    BY <1>24, <1>a DEF HandInv, HandTypes, FirstDelivery, Enqueuing, Retrying, ReceivePubrec
  <1>25. ASSUME NEW w \in Workers, NEW i \in Ids, Retry(w, i) PROVE HandInv'
    <2>1. pc[w] = "idle" /\ UNCHANGED <<todo, mid, turn, queue>>
      BY <1>25 DEF Retry
    <2>2. CASE inflights[i] = None \/ RetriesExhausted(inflights[i])
      <3>1. cur' = cur /\ (pc' = pc \/ pc' = [pc EXCEPT ![w] = "dqTake"])
        BY <1>25, <2>2 DEF Retry
      <3>2. QED
        BY <2>1, <3>1, <1>a DEF HandInv, HandTypes, FirstDelivery, Enqueuing, Retrying
    <2>3. CASE inflights[i] # None /\ ~RetriesExhausted(inflights[i])
      <3>1. cur' = [cur EXCEPT ![w] = inflights[i]]
            /\ (pc' = [pc EXCEPT ![w] = "rtRel"] \/ pc' = [pc EXCEPT ![w] = "rtTake"])
        BY <1>25, <2>3 DEF Retry
      <3>2. mid[inflights[i]] # 0
        BY <2>3 DEF EntriesInv
      <3>3. QED
        BY <2>1, <3>1, <3>2, <1>a DEF HandInv, HandTypes, FirstDelivery, Enqueuing, Retrying
    <2>4. QED
      BY <2>2, <2>3

  <1>26. ASSUME NEW i \in Ids, Expire(i) PROVE HandInv'
    BY <1>26, <1>a DEF HandInv, HandTypes, FirstDelivery, Enqueuing, Retrying, Expire,
       workerVars, historyVars
  <1>27. CASE Disconnect
    BY <1>27, <1>a DEF HandInv, HandTypes, FirstDelivery, Enqueuing, Retrying, Disconnect
  <1>28. CASE UNCHANGED vars
    BY <1>28 DEF vars, sharedVars, workerVars, historyVars, HandInv, HandTypes, FirstDelivery,
       Enqueuing, Retrying
  <1>29. QED
    BY <1>1, <1>2, <1>3, <1>4, <1>5, <1>6, <1>7, <1>8, <1>9, <1>10, <1>11, <1>12, <1>13, <1>14,
       <1>15, <1>16, <1>17, <1>18, <1>19, <1>20, <1>21, <1>22, <1>23, <1>24, <1>25, <1>26,
       <1>27, <1>28 DEF Next, WorkerStep, ReceiveAnswer, Quiet

\* The workers about to add are finitely many, at most all of them.
LEMMA AddingSize ==
    /\ IsFiniteSet(Adding) /\ Cardinality(Adding) \in Nat
    /\ Cardinality(Workers) \in Nat /\ Cardinality(Adding) <= Cardinality(Workers)
  <1>1. IsFiniteSet(Workers) /\ Adding \subseteq Workers
    BY DEF Adding
  <1>2. QED
    BY <1>1, FS_Subset, FS_CardinalityType

\* The same after a step.
LEMMA AddingSizeNext == Cardinality(Adding') \in Nat /\ Cardinality(Adding') <= Cardinality(Workers)
  <1>1. IsFiniteSet(Workers) /\ Adding' \subseteq Workers
    BY DEF Adding
  <1>2. QED
    BY <1>1, FS_Subset, FS_CardinalityType

\* A step that neither moves a worker to or from the add nor changes the queue.
LEMMA OvershootKeeps ==
    ASSUME OvershootInv, UNCHANGED queue,
           \A v \in Workers : pc'[v] = "enqAdd" <=> pc[v] = "enqAdd"
    PROVE  OvershootInv'
  <1>1. Adding' = Adding
    BY DEF Adding
  <1>2. QED
    BY <1>1 DEF OvershootInv

\* Every step preserves the bound of the queue.
LEMMA OvershootStep == TypeOK /\ LocalsInv /\ OvershootInv /\ [Next]_vars => OvershootInv'
  <1> SUFFICES ASSUME TypeOK, LocalsInv, OvershootInv, [Next]_vars
               PROVE  OvershootInv'
    OBVIOUS
  <1>a. HandTypes
    BY HandTypesOK
  <1>b. IsFiniteSet(Adding) /\ Cardinality(Adding) \in Nat
    BY AddingSize
  <1>c. Cardinality(Adding') \in Nat /\ Cardinality(Workers) \in Nat
        /\ Cardinality(Adding') <= Cardinality(Workers)
    BY AddingSize, AddingSizeNext
  <1>d. Len(queue) \in Nat
    BY <1>a DEF HandTypes
  <1>1. ASSUME NEW w \in Workers, NEW S \in Batches, PublishMessage(w, S) PROVE OvershootInv'
    BY <1>1, <1>a, OvershootKeeps DEF HandTypes, PublishMessage
  <1>2. ASSUME NEW w \in Workers, HandleMessage(w) PROVE OvershootInv'
    BY <1>2, <1>a, OvershootKeeps DEF HandTypes, HandleMessage
  <1>3. ASSUME NEW w \in Workers, PublishQos0(w) PROVE OvershootInv'
    BY <1>3, <1>a, OvershootKeeps DEF HandTypes, PublishQos0, AfterMessage
  <1>4. ASSUME NEW w \in Workers, EnqueueSize(w) PROVE OvershootInv'
    <2>1. UNCHANGED queue /\ pc[w] = "enqSize"
      BY <1>4 DEF EnqueueSize
    <2>2. CASE QueueIsFull
      BY <1>4, <2>1, <2>2, <1>a, OvershootKeeps DEF EnqueueSize, HandTypes
    <2>3. CASE ~QueueIsFull
      BY <1>4, <2>1, <2>3, <1>a, <1>c, <1>d DEF QueueIsFull, OvershootInv
    <2>4. QED
      BY <2>2, <2>3

  <1>5. ASSUME NEW w \in Workers, EnqueuePoll(w) PROVE OvershootInv'
    <2>1. Adding' = Adding \cup {w} /\ w \notin Adding
      BY <1>5, <1>a DEF EnqueuePoll, Adding, HandTypes
    <2>2. Cardinality(Adding') = Cardinality(Adding) + 1
      BY <2>1, <1>b, FS_AddElement
    <2>3. CASE queue = <<>>
      <3>1. Len(queue') = 0
        BY <1>5, <2>3 DEF EnqueuePoll
      <3>2. QED
        BY <3>1, <1>c DEF OvershootInv
    <2>4. CASE queue # <<>>
      <3>1. Len(queue') = Len(queue) - 1
        BY <1>5, <2>4, <1>a, TailFacts DEF EnqueuePoll, HandTypes
      <3>2. QED
        BY <2>2, <3>1, <1>b, <1>c, <1>d DEF OvershootInv
    <2>5. QED
      BY <2>3, <2>4

  <1>6. ASSUME NEW w \in Workers, EnqueueAdd(w) PROVE OvershootInv'
    <2>1. Adding' = Adding \ {w} /\ w \in Adding
      BY <1>6, <1>a DEF EnqueueAdd, AfterMessage, Adding, HandTypes
    <2>2. Cardinality(Adding') = Cardinality(Adding) - 1
      BY <2>1, <1>b, FS_RemoveElement
    <2>3. cur[w] \in Msgs
      BY <1>6 DEF EnqueueAdd, LocalsInv, Carrying, FirstDelivery, Enqueuing
    <2>4. Len(queue') = Len(queue) + 1
      BY <1>6, <2>3, <1>a DEF EnqueueAdd, HandTypes
    <2>5. QED
      BY <2>2, <2>4, <1>b, <1>c, <1>d DEF OvershootInv

  <1>7. ASSUME NEW w \in Workers, InflightTake(w) PROVE OvershootInv'
    BY <1>7, <1>a, OvershootKeeps DEF HandTypes, InflightTake
  <1>8. ASSUME NEW w \in Workers, InflightPut(w) PROVE OvershootInv'
    BY <1>8, <1>a, OvershootKeeps DEF HandTypes, InflightPut
  <1>9. ASSUME NEW w \in Workers, InflightPublish(w) PROVE OvershootInv'
    BY <1>9, <1>a, OvershootKeeps DEF HandTypes, InflightPublish, AfterMessage
  <1>10. ASSUME NEW w \in Workers, DequeueTake(w) PROVE OvershootInv'
    BY <1>10, <1>a, OvershootKeeps DEF HandTypes, DequeueTake
  <1>11. ASSUME NEW w \in Workers, DequeueCheck(w) PROVE OvershootInv'
    BY <1>11, <1>a, OvershootKeeps DEF HandTypes, DequeueCheck
  <1>12. ASSUME NEW w \in Workers, DequeueTakeInflight(w) PROVE OvershootInv'
    BY <1>12, <1>a, OvershootKeeps DEF HandTypes, DequeueTakeInflight
  <1>13. ASSUME NEW w \in Workers, DequeuePoll(w) PROVE OvershootInv'
    <2>1. Adding' = Adding
      BY <1>13, <1>a DEF DequeuePoll, Adding, HandTypes
    <2>2. CASE MustStop
      BY <1>13, <2>1, <2>2 DEF DequeuePoll, OvershootInv
    <2>3. CASE ~MustStop
      <3>1. Len(queue') = Len(queue) - 1
        BY <1>13, <2>3, <1>a, TailFacts DEF DequeuePoll, MustStop, HandTypes
      <3>2. QED
        BY <2>1, <3>1, <1>b, <1>c, <1>d DEF OvershootInv
    <2>4. QED
      BY <2>2, <2>3

  <1>14. ASSUME NEW w \in Workers, DequeuePublishQos0(w) PROVE OvershootInv'
    BY <1>14, <1>a, OvershootKeeps DEF HandTypes, DequeuePublishQos0, BreakDequeue
  <1>15. ASSUME NEW w \in Workers, DequeuePut(w) PROVE OvershootInv'
    BY <1>15, <1>a, OvershootKeeps DEF HandTypes, DequeuePut, BreakDequeue
  <1>16. ASSUME NEW w \in Workers, DequeuePublish(w) PROVE OvershootInv'
    BY <1>16, <1>a, OvershootKeeps DEF HandTypes, DequeuePublish
  <1>17. ASSUME NEW w \in Workers, DequeueEnd(w) PROVE OvershootInv'
    BY <1>17, <1>a, OvershootKeeps DEF HandTypes, DequeueEnd
  <1>18. ASSUME NEW w \in Workers, SetPubrecStatus(w) PROVE OvershootInv'
    BY <1>18, <1>a, OvershootKeeps DEF HandTypes, SetPubrecStatus
  <1>19. ASSUME NEW w \in Workers, RetryRelease(w) PROVE OvershootInv'
    BY <1>19, <1>a, OvershootKeeps DEF HandTypes, RetryRelease
  <1>20. ASSUME NEW w \in Workers, RetryTake(w) PROVE OvershootInv'
    BY <1>20, <1>a, OvershootKeeps DEF HandTypes, RetryTake
  <1>21. ASSUME NEW w \in Workers, RetryPut(w) PROVE OvershootInv'
    BY <1>21, <1>a, OvershootKeeps DEF HandTypes, RetryPut
  <1>22. ASSUME NEW w \in Workers, RetryPublish(w) PROVE OvershootInv'
    BY <1>22, <1>a, OvershootKeeps DEF HandTypes, RetryPublish
  <1>23. ASSUME NEW w \in Workers, NEW p \in wire, ReceivePuback(w, p) \/ ReceivePubcomp(w, p)
                PROVE OvershootInv'
    <2>1. pc[w] = "idle" /\ pc' = [pc EXCEPT ![w] = "dqTake"] /\ UNCHANGED queue
      BY <1>23 DEF ReceivePuback, ReceivePubcomp, RemoveInflight
    <2>2. QED
      BY <2>1, <1>a, OvershootKeeps DEF HandTypes

  <1>24. ASSUME NEW w \in Workers, NEW p \in wire, ReceivePubrec(w, p) PROVE OvershootInv'
    BY <1>24, <1>a, OvershootKeeps DEF HandTypes, ReceivePubrec
  <1>25. ASSUME NEW w \in Workers, NEW i \in Ids, Retry(w, i) PROVE OvershootInv'
    BY <1>25, <1>a, OvershootKeeps DEF HandTypes, Retry
  <1>26. ASSUME NEW i \in Ids, Expire(i) PROVE OvershootInv'
    BY <1>26, <1>a, OvershootKeeps DEF HandTypes, Expire, workerVars, historyVars
  <1>27. CASE Disconnect
    BY <1>27, <1>a, OvershootKeeps DEF HandTypes, Disconnect
  <1>28. CASE UNCHANGED vars
    BY <1>28 DEF vars, sharedVars, workerVars, historyVars, HandTypes, OvershootInv, Adding
  <1>29. QED
    BY <1>1, <1>2, <1>3, <1>4, <1>5, <1>6, <1>7, <1>8, <1>9, <1>10, <1>11, <1>12, <1>13, <1>14,
       <1>15, <1>16, <1>17, <1>18, <1>19, <1>20, <1>21, <1>22, <1>23, <1>24, <1>25, <1>26,
       <1>27, <1>28 DEF Next, WorkerStep, ReceiveAnswer, Quiet

-----------------------------------------------------------------------------
(* What a step does to packet ids, timers and answers.  Most steps leave them *)
(* alone; the others are of the kinds below.                                  *)

\* Places where a worker is in the middle of a filing, a retry or a PUBREC.
Special == PublishPending \cup Retrying \cup {"recSet"}

\* What the workers but w have at hand stays.
Rest(w) ==
    \A v \in Workers : v # w =>
        pc'[v] = pc[v] /\ cur'[v] = cur[v] /\ old'[v] = old[v] /\ rec'[v] = rec[v]

\* Ids, timers and answers are left alone, and no worker enters a special place.
Still ==
    /\ UNCHANGED <<lastId, published, sends, inflights, timeouts, expired, mid, retry,
                   wire, acked, old, rec>>
    /\ connected' => connected
    /\ \A v \in Workers :
         /\ pc[v] \in PublishPending => pc'[v] = pc[v] /\ cur'[v] = cur[v]
         /\ pc'[v] \in PublishPending \cup {"recSet"} => pc'[v] = pc[v] /\ cur'[v] = cur[v]
         /\ pc'[v] \in Retrying => pc[v] \in Retrying /\ cur'[v] = cur[v]

\* Worker w publishes the message it has at hand.
Sent(w) ==
    /\ pc[w] \in {"pub0", "dqPub0"} \cup PublishPending
    /\ Publish(cur[w])
    /\ UNCHANGED <<connected, inflights, timeouts, expired, mid, retry, acked, old, rec>>
    /\ pc'[w] \notin Special
    /\ Rest(w)

\* Worker w files the message it has at hand for the first time.
Filed(w) ==
    /\ pc[w] \in {"inPut", "dqPut"}
    /\ connected
    /\ PutInflight(cur[w])
    /\ UNCHANGED <<connected, lastId, published, sends, wire, expired, retry, acked,
                   cur, old, rec>>
    /\ pc'[w] \in {"inPub", "dqPub"}
    /\ Rest(w)

\* Worker w files a message again under a new id.
Refiled(w) == connected /\ RetryPut(w)

\* The steps of a worker that change ids, timers or answers.
DeliveryStep(w) ==
    \/ Sent(w) \/ Filed(w) \/ Refiled(w)
    \/ SetPubrecStatus(w) \/ RetryRelease(w)
    \/ \E p \in wire : ReceivePubrec(w, p)
    \/ \E p \in wire : pc[w] = "idle" /\ RemoveInflight(w, p)
    \/ \E i \in Ids : Retry(w, i)

DeliveryNext == Still \/ (\E w \in Workers : DeliveryStep(w)) \/ (\E i \in Ids : Expire(i))

\* Every step is of one of these kinds.
LEMMA StepKinds == TypeOK /\ [Next]_vars => DeliveryNext
  <1> SUFFICES ASSUME TypeOK, [Next]_vars
               PROVE  DeliveryNext
    OBVIOUS
  <1>a. HandTypes
    BY HandTypesOK
  <1>1. ASSUME NEW w \in Workers, NEW S \in Batches, PublishMessage(w, S) PROVE DeliveryNext
    BY <1>1, <1>a DEF DeliveryNext, Still, PublishPending, Retrying, HandTypes, PublishMessage
  <1>2. ASSUME NEW w \in Workers, HandleMessage(w) PROVE DeliveryNext
    BY <1>2, <1>a DEF DeliveryNext, Still, PublishPending, Retrying, HandTypes, HandleMessage
  <1>3. ASSUME NEW w \in Workers, PublishQos0(w) PROVE DeliveryNext
    <2>1. Sent(w)
      BY <1>3, <1>a DEF PublishQos0, AfterMessage, Sent, Rest, Special, PublishPending,
         Retrying, HandTypes
    <2>2. QED
      BY <2>1 DEF DeliveryNext, DeliveryStep
  <1>4. ASSUME NEW w \in Workers, EnqueueSize(w) PROVE DeliveryNext
    BY <1>4, <1>a DEF DeliveryNext, Still, PublishPending, Retrying, HandTypes, EnqueueSize
  <1>5. ASSUME NEW w \in Workers, EnqueuePoll(w) PROVE DeliveryNext
    BY <1>5, <1>a DEF DeliveryNext, Still, PublishPending, Retrying, HandTypes, EnqueuePoll
  <1>6. ASSUME NEW w \in Workers, EnqueueAdd(w) PROVE DeliveryNext
    BY <1>6, <1>a DEF DeliveryNext, Still, PublishPending, Retrying, HandTypes, EnqueueAdd,
       AfterMessage
  <1>7. ASSUME NEW w \in Workers, InflightTake(w) PROVE DeliveryNext
    BY <1>7, <1>a DEF DeliveryNext, Still, PublishPending, Retrying, HandTypes, InflightTake
  <1>8. ASSUME NEW w \in Workers, InflightPut(w) PROVE DeliveryNext
    <2>1. CASE MustQueue \/ ~connected
      BY <1>8, <2>1, <1>a DEF InflightPut, DeliveryNext, Still, PublishPending, Retrying,
         HandTypes, BreakDequeue
    <2>2. CASE ~(MustQueue \/ ~connected)
      <3>1. pc'[w] \in {"inPub", "dqPub"} /\ Rest(w)
        BY <1>8, <2>2, <1>a DEF InflightPut, Rest, HandTypes
      <3>2. Filed(w)
        BY <1>8, <2>2, <3>1 DEF InflightPut, Filed
      <3>3. QED
        BY <3>2 DEF DeliveryNext, DeliveryStep
    <2>3. QED
      BY <2>1, <2>2
  <1>9. ASSUME NEW w \in Workers, InflightPublish(w) PROVE DeliveryNext
    <2>1. Sent(w)
      BY <1>9, <1>a DEF InflightPublish, AfterMessage, Sent, Rest, Special, PublishPending,
         Retrying, HandTypes
    <2>2. QED
      BY <2>1 DEF DeliveryNext, DeliveryStep
  <1>10. ASSUME NEW w \in Workers, DequeueTake(w) PROVE DeliveryNext
    BY <1>10, <1>a DEF DeliveryNext, Still, PublishPending, Retrying, HandTypes, DequeueTake
  <1>11. ASSUME NEW w \in Workers, DequeueCheck(w) PROVE DeliveryNext
    BY <1>11, <1>a DEF DeliveryNext, Still, PublishPending, Retrying, HandTypes, DequeueCheck
  <1>12. ASSUME NEW w \in Workers, DequeueTakeInflight(w) PROVE DeliveryNext
    BY <1>12, <1>a DEF DeliveryNext, Still, PublishPending, Retrying, HandTypes, DequeueTakeInflight
  <1>13. ASSUME NEW w \in Workers, DequeuePoll(w) PROVE DeliveryNext
    BY <1>13, <1>a DEF DeliveryNext, Still, PublishPending, Retrying, HandTypes, DequeuePoll
  <1>14. ASSUME NEW w \in Workers, DequeuePublishQos0(w) PROVE DeliveryNext
    <2>1. pc'[w] \notin Special /\ Rest(w)
      BY <1>14, <1>a DEF DequeuePublishQos0, BreakDequeue, Rest, Special, PublishPending,
         Retrying, HandTypes
    <2>2. Sent(w)
      BY <1>14, <2>1 DEF DequeuePublishQos0, Sent
    <2>3. QED
      BY <2>2 DEF DeliveryNext, DeliveryStep
  <1>15. ASSUME NEW w \in Workers, DequeuePut(w) PROVE DeliveryNext
    <2>1. CASE ~connected
      BY <1>15, <2>1, <1>a DEF DequeuePut, DeliveryNext, Still, PublishPending, Retrying,
         HandTypes, BreakDequeue
    <2>2. CASE ~(~connected)
      <3>1. pc'[w] \in {"inPub", "dqPub"} /\ Rest(w)
        BY <1>15, <2>2, <1>a DEF DequeuePut, Rest, HandTypes
      <3>2. Filed(w)
        BY <1>15, <2>2, <3>1 DEF DequeuePut, Filed
      <3>3. QED
        BY <3>2 DEF DeliveryNext, DeliveryStep
    <2>3. QED
      BY <2>1, <2>2
  <1>16. ASSUME NEW w \in Workers, DequeuePublish(w) PROVE DeliveryNext
    <2>1. Sent(w)
      BY <1>16, <1>a DEF DequeuePublish, Sent, Rest, Special, PublishPending, Retrying, HandTypes
    <2>2. QED
      BY <2>1 DEF DeliveryNext, DeliveryStep
  <1>17. ASSUME NEW w \in Workers, DequeueEnd(w) PROVE DeliveryNext
    BY <1>17, <1>a DEF DeliveryNext, Still, PublishPending, Retrying, HandTypes, DequeueEnd
  <1>18. ASSUME NEW w \in Workers, SetPubrecStatus(w) PROVE DeliveryNext
    BY <1>18 DEF DeliveryNext, DeliveryStep
  <1>19. ASSUME NEW w \in Workers, RetryRelease(w) PROVE DeliveryNext
    BY <1>19 DEF DeliveryNext, DeliveryStep
  <1>20. ASSUME NEW w \in Workers, RetryTake(w) PROVE DeliveryNext
    BY <1>20, <1>a DEF DeliveryNext, Still, PublishPending, Retrying, HandTypes, RetryTake
  <1>21. ASSUME NEW w \in Workers, RetryPut(w) PROVE DeliveryNext
    <2>1. CASE ~connected
      BY <1>21, <2>1, <1>a DEF RetryPut, DeliveryNext, Still, PublishPending, Retrying, HandTypes
    <2>2. CASE connected
      BY <1>21, <2>2 DEF Refiled, DeliveryNext, DeliveryStep
    <2>3. QED
      BY <2>1, <2>2
  <1>22. ASSUME NEW w \in Workers, RetryPublish(w) PROVE DeliveryNext
    <2>1. Sent(w)
      BY <1>22, <1>a DEF RetryPublish, Sent, Rest, Special, PublishPending, Retrying, HandTypes
    <2>2. QED
      BY <2>1 DEF DeliveryNext, DeliveryStep
  <1>23. ASSUME NEW w \in Workers, NEW p \in wire, ReceivePuback(w, p) \/ ReceivePubcomp(w, p)
                PROVE DeliveryNext
    BY <1>23 DEF DeliveryNext, DeliveryStep, ReceivePuback, ReceivePubcomp
  <1>24. ASSUME NEW w \in Workers, NEW p \in wire, ReceivePubrec(w, p) PROVE DeliveryNext
    BY <1>24 DEF DeliveryNext, DeliveryStep
  <1>25. ASSUME NEW w \in Workers, NEW i \in Ids, Retry(w, i) PROVE DeliveryNext
    BY <1>25 DEF DeliveryNext, DeliveryStep
  <1>26. ASSUME NEW i \in Ids, Expire(i) PROVE DeliveryNext
    BY <1>26 DEF DeliveryNext
  <1>27. CASE Disconnect
    BY <1>27, <1>a DEF DeliveryNext, Still, PublishPending, Retrying, HandTypes, Disconnect
  <1>28. CASE UNCHANGED vars
    BY <1>28 DEF vars, sharedVars, workerVars, historyVars, DeliveryNext, Still, PublishPending,
       Retrying, HandTypes
  <1>29. QED
    BY <1>1, <1>2, <1>3, <1>4, <1>5, <1>6, <1>7, <1>8, <1>9, <1>10, <1>11, <1>12, <1>13, <1>14,
       <1>15, <1>16, <1>17, <1>18, <1>19, <1>20, <1>21, <1>22, <1>23, <1>24, <1>25, <1>26,
       <1>27, <1>28 DEF Next, WorkerStep, ReceiveAnswer, Quiet

\* The types of what DeliveryInv is about.
DeliveryTypes ==
    /\ lastId \in 0..MaxMessageId /\ published \in Nat
    /\ wire \subseteq Packets /\ sends \in [Msgs -> Nat]
    /\ inflights \in [Ids -> Msgs \cup {None}]
    /\ timeouts \subseteq Ids /\ expired \subseteq Ids
    /\ mid \in [Msgs -> 0..MaxMessageId] /\ retry \in [Msgs -> Nat]
    /\ pc \in [Workers -> Places]
    /\ cur \in [Workers -> Msgs \cup {None}]
    /\ old \in [Workers -> 0..MaxMessageId]
    /\ rec \in [Workers -> Packets \cup {None}]

\* TypeOK gives them.
LEMMA DeliveryTypesOK == TypeOK => DeliveryTypes
  BY DEF TypeOK, DeliveryTypes, EndpointTypes, InflightTypes, ObjectTypes, WorkerTypes

\* Ids that were unused are unused before: the count of packets never falls.
LEMMA UnusedBefore ==
    ASSUME DeliveryTypes, DeliveryNext, IdsUnused'
    PROVE  IdsUnused
  <1>1. CASE Still
    BY <1>1 DEF Still, IdsUnused
  <1>2. ASSUME NEW w \in Workers, DeliveryStep(w) PROVE IdsUnused
    <2>1. published' = published \/ published' = published + 1
      BY <1>2 DEF DeliveryStep, Sent, Publish, EndpointPublish, Filed, Refiled, RetryPut,
         SetPubrecStatus, RetryRelease, ReceivePubrec, RemoveInflight, Retry
    <2>2. QED
      BY <2>1 DEF IdsUnused, DeliveryTypes
  <1>3. ASSUME NEW i \in Ids, Expire(i) PROVE IdsUnused
    BY <1>3 DEF Expire, IdsUnused
  <1>4. QED
    BY <1>1, <1>2, <1>3 DEF DeliveryNext

\* As long as ids are unused the endpoint counts on.
LEMMA NextIsSuccessor ==
    ASSUME DeliveryTypes, IdsUnused, Fresh
    PROVE  NextMessageId = lastId + 1 /\ NextMessageId \in Ids
  <1>1. lastId < MaxMessageId
    BY DEF IdsUnused, Fresh, DeliveryTypes
  <1>2. QED
    BY <1>1, NextId DEF DeliveryTypes

\* A step that uses no new id and publishes nothing.
LEMMA FreshKeeps ==
    ASSUME Fresh, UNCHANGED <<lastId, published, mid>>, connected' => connected,
           \A i \in Ids : UsedId(i)' => UsedId(i),
           \A v \in Workers : pc[v] \in PublishPending => pc'[v] = pc[v] /\ cur'[v] = cur[v]
    PROVE  Fresh'
  <1>1. \A v \in Workers : Reserves(v) => Reserves(v)'
    BY DEF Reserves
  <1>2. QED
    BY <1>1 DEF Fresh

\* As long as ids are unused, every step keeps those beyond the counter unused.
LEMMA FreshStep ==
    ASSUME DeliveryTypes, LocalsInv, DeliveryNext, IdsUnused, Fresh, Timers
    PROVE  Fresh'
  <1>0. NextMessageId = lastId + 1 /\ NextMessageId \in Ids
    BY NextIsSuccessor
  <1>1. CASE Still
    <2>1. \A i \in Ids : UsedId(i)' => UsedId(i)
      BY <1>1 DEF Still, UsedId
    <2>2. QED
      BY <1>1, <2>1, FreshKeeps DEF Still
  <1>2. ASSUME NEW w \in Workers, Sent(w) PROVE Fresh'
    <2>1. CASE ~connected
      <3>1. UNCHANGED <<lastId, published, wire>> /\ ~connected'
        BY <1>2, <2>1 DEF Sent, Publish
      <3>2. \A v \in Workers : pc'[v] = "recSet" => pc[v] = "recSet"
        BY <1>2 DEF Sent, Rest, Special
      <3>3. \A i \in Ids : UsedId(i)' => UsedId(i)
        BY <1>2, <3>1, <3>2 DEF Sent, UsedId
      <3>4. QED
        BY <3>1, <3>3 DEF Fresh
    <2>2. CASE connected
      <3> DEFINE pkt == [type |-> "PUBLISH", id |-> NextMessageId, msg |-> cur[w]]
      <3>1. lastId' = lastId + 1 /\ published' = published + 1 /\ wire' \subseteq wire \cup {pkt}
        BY <1>2, <2>2, <1>0 DEF Sent, Publish, EndpointPublish
      <3>2. pkt.id = lastId + 1
        BY <1>0
      <3> HIDE DEF pkt
      <3>3. \A v \in Workers : pc'[v] = "recSet" => pc[v] = "recSet"
        BY <1>2 DEF Sent, Rest, Special
      <3>4. \A i \in Ids : UsedId(i)' => UsedId(i) \/ i = lastId + 1
        BY <1>2, <3>1, <3>2, <3>3 DEF Sent, UsedId
      <3>5. \A i \in Ids : UsedId(i)' => i <= lastId'
        BY <3>1, <3>4 DEF Fresh, DeliveryTypes
      <3>6. QED
        BY <3>1, <3>5 DEF Fresh
    <2>3. QED
      BY <2>1, <2>2
  <1>3. ASSUME NEW w \in Workers, Filed(w) PROVE Fresh'
    <2>1. cur[w] \in Msgs
      BY <1>3 DEF Filed, LocalsInv, Carrying, FirstDelivery
    <2>2. Reserves(w)'
      BY <1>3, <2>1, <1>0 DEF Filed, PutInflight, Reserves, PublishPending, DeliveryTypes
    <2>3. \A v \in Workers : pc'[v] = "recSet" => pc[v] = "recSet"
      BY <1>3 DEF Filed, Rest
    <2>4. \A i \in Ids : UsedId(i)' => UsedId(i) \/ i = lastId + 1
      BY <1>3, <2>1, <2>3, <1>0 DEF Filed, PutInflight, UsedId, DeliveryTypes
    <2>5. QED
      BY <1>3, <2>2, <2>4 DEF Filed, Fresh
  <1>4. ASSUME NEW w \in Workers, Refiled(w) PROVE Fresh'
    <2>1. cur[w] \in Msgs /\ old[w] \in Ids /\ pc[w] = "rtPut"
      BY <1>4 DEF Refiled, RetryPut, LocalsInv, Carrying, Retrying
    <2>2. Reserves(w)'
      BY <1>4, <2>1, <1>0 DEF Refiled, RetryPut, Reserves, PublishPending, DeliveryTypes
    <2>3. \A v \in Workers : pc'[v] = "recSet" => pc[v] = "recSet"
      BY <1>4 DEF Refiled, RetryPut, DeliveryTypes
    <2>4. \A i \in Ids : UsedId(i)' => UsedId(i) \/ i = lastId + 1
      BY <1>4, <2>1, <2>3, <1>0 DEF Refiled, RetryPut, UsedId, DeliveryTypes
    <2>5. QED
      BY <1>4, <2>2, <2>4 DEF Refiled, RetryPut, Fresh
  <1>5. ASSUME NEW w \in Workers, SetPubrecStatus(w) PROVE Fresh'
    <2> DEFINE pkt == [type |-> "PUBREL", id |-> rec[w].id, msg |-> rec[w].msg]
    <2>1. wire' \subseteq wire \cup {pkt}
      BY <1>5 DEF SetPubrecStatus, SendPubrel
    <2>2. pkt.id = rec[w].id
      OBVIOUS
    <2> HIDE DEF pkt
    <2>3. \A v \in Workers : pc'[v] = "recSet" => pc[v] = "recSet" /\ rec'[v] = rec[v]
      BY <1>5 DEF SetPubrecStatus, DeliveryTypes
    <2>4. \A i \in Ids : UsedId(i)' => UsedId(i)
      BY <1>5, <2>1, <2>2, <2>3 DEF SetPubrecStatus, UsedId
    <2>5. \A v \in Workers : pc[v] \in PublishPending => pc'[v] = pc[v] /\ cur'[v] = cur[v]
      BY <1>5 DEF SetPubrecStatus, DeliveryTypes, PublishPending
    <2>6. QED
      BY <1>5, <2>4, <2>5, FreshKeeps DEF SetPubrecStatus
  <1>6. ASSUME NEW w \in Workers, RetryRelease(w) PROVE Fresh'
    <2> DEFINE pkt == [type |-> "PUBREL", id |-> old[w], msg |-> cur[w]]
    <2>1. wire' \subseteq wire \cup {pkt}
      BY <1>6 DEF RetryRelease, SendPubrel
    <2>2. pkt.id = old[w]
      OBVIOUS
    <2> HIDE DEF pkt
    <2>3. \A v \in Workers : pc'[v] = "recSet" => pc[v] = "recSet"
      BY <1>6 DEF RetryRelease, DeliveryTypes
    <2>4. UsedId(old[w])
      BY <1>6 DEF RetryRelease, UsedId, Timers, Retrying, LocalsInv, Carrying
    <2>5. \A i \in Ids : UsedId(i)' => UsedId(i)
      BY <1>6, <2>1, <2>2, <2>3, <2>4 DEF RetryRelease, UsedId
    <2>6. \A v \in Workers : pc[v] \in PublishPending => pc'[v] = pc[v] /\ cur'[v] = cur[v]
      BY <1>6 DEF RetryRelease, DeliveryTypes, PublishPending
    <2>7. QED
      BY <1>6, <2>5, <2>6, FreshKeeps DEF RetryRelease
  <1>7. ASSUME NEW w \in Workers, NEW p \in wire, ReceivePubrec(w, p) PROVE Fresh'
    <2>1. \A v \in Workers : pc'[v] = "recSet" => rec'[v] = p
            \/ (pc[v] = "recSet" /\ rec'[v] = rec[v])
      BY <1>7 DEF ReceivePubrec, DeliveryTypes
    <2>2. \A i \in Ids : UsedId(i)' => UsedId(i)
      BY <1>7, <2>1 DEF ReceivePubrec, UsedId
    <2>3. \A v \in Workers : pc[v] \in PublishPending => pc'[v] = pc[v] /\ cur'[v] = cur[v]
      BY <1>7 DEF ReceivePubrec, DeliveryTypes, PublishPending
    <2>4. QED
      BY <1>7, <2>2, <2>3, FreshKeeps DEF ReceivePubrec
  <1>8. ASSUME NEW w \in Workers, NEW p \in wire, pc[w] = "idle", RemoveInflight(w, p) PROVE Fresh'
    <2>1. \A v \in Workers : pc'[v] = "recSet" => pc[v] = "recSet"
      BY <1>8 DEF RemoveInflight, DeliveryTypes
    <2>2. \A i \in Ids : inflights'[i] # None => inflights[i] # None
      BY <1>8 DEF RemoveInflight, DeliveryTypes
    <2>3. \A i \in Ids : UsedId(i)' => UsedId(i)
      BY <1>8, <2>1, <2>2 DEF RemoveInflight, UsedId
    <2>4. \A v \in Workers : pc[v] \in PublishPending => pc'[v] = pc[v] /\ cur'[v] = cur[v]
      BY <1>8 DEF RemoveInflight, DeliveryTypes, PublishPending
    <2>5. QED
      BY <1>8, <2>3, <2>4, FreshKeeps DEF RemoveInflight
  <1>9. ASSUME NEW w \in Workers, NEW i \in Ids, Retry(w, i) PROVE Fresh'
    <2>1. \A v \in Workers : pc'[v] = "recSet" => pc[v] = "recSet"
      BY <1>9 DEF Retry, DeliveryTypes
    <2>2. \A k \in Ids : inflights'[k] # None => inflights[k] # None
      BY <1>9 DEF Retry, DeliveryTypes
    <2>3. \A k \in Ids : UsedId(k)' => UsedId(k)
      BY <1>9, <2>1, <2>2 DEF Retry, UsedId
    <2>4. \A v \in Workers : pc[v] \in PublishPending => pc'[v] = pc[v] /\ cur'[v] = cur[v]
      BY <1>9 DEF Retry, DeliveryTypes, PublishPending
    <2>5. QED
      BY <1>9, <2>3, <2>4, FreshKeeps DEF Retry
  <1>10. ASSUME NEW i \in Ids, Expire(i) PROVE Fresh'
    <2>1. \A k \in Ids : UsedId(k)' => UsedId(k)
      BY <1>10 DEF Expire, UsedId, workerVars
    <2>2. QED
      BY <1>10, <2>1, FreshKeeps DEF Expire, workerVars
  <1>11. QED
    BY <1>1, <1>2, <1>3, <1>4, <1>5, <1>6, <1>7, <1>8, <1>9, <1>10 DEF DeliveryNext, DeliveryStep

\* Only one worker is between the filing of a message and its publishing, or
\* about to file one.
LEMMA OneFiling ==
    ASSUME LockInv, NEW v \in Workers, NEW w \in Workers,
           pc[v] \in InflightSection, pc[w] \in InflightSection
    PROVE  v = w
  BY DEF LockInv, CasExclusive

\* The id a message is about to be filed under is in no use.
LEMMA PredictedIdIsFree ==
    ASSUME DeliveryTypes, LockInv, IdsUnused, Fresh, connected,
           NEW w \in Workers, pc[w] \in {"inPut", "dqPut", "rtPut"}
    PROVE  NextMessageId \in Ids /\ ~UsedId(NextMessageId)
  <1>1. NextMessageId = lastId + 1 /\ NextMessageId \in Ids
    BY NextIsSuccessor
  <1>2. \A v \in Workers : ~Reserves(v)
    BY OneFiling DEF Reserves, PublishPending, InflightSection
  <1>3. ~(lastId + 1 <= lastId)
    BY DEF DeliveryTypes
  <1>4. QED
    BY <1>1, <1>2, <1>3 DEF Fresh

\* Filing a message under an id in no use keeps keys and ids together.
LEMMA KeysStep ==
    ASSUME DeliveryTypes, LocalsInv, LockInv, HandInv, DeliveryNext, IdsUnused, Fresh, Keys,
           Timers
    PROVE  Keys'
  <1>1. CASE Still
    BY <1>1 DEF Still, Keys
  <1>2. ASSUME NEW w \in Workers, Sent(w) PROVE Keys'
    BY <1>2 DEF Sent, Keys
  <1>3. ASSUME NEW w \in Workers, Filed(w) PROVE Keys'
    <2>1. cur[w] \in Msgs /\ mid[cur[w]] = 0
      BY <1>3 DEF Filed, LocalsInv, Carrying, FirstDelivery, HandInv
    <2>2. NextMessageId \in Ids /\ ~UsedId(NextMessageId)
      BY <1>3, PredictedIdIsFree DEF Filed
    <2>3. \A m \in Msgs : mid[m] # NextMessageId
      BY <2>2 DEF UsedId
    <2>4. mid' = [mid EXCEPT ![cur[w]] = NextMessageId]
          /\ inflights' = [inflights EXCEPT ![NextMessageId] = cur[w]]
      BY <1>3 DEF Filed, PutInflight
    <2>5. QED
      BY <2>1, <2>2, <2>3, <2>4 DEF Keys, DeliveryTypes
  <1>4. ASSUME NEW w \in Workers, Refiled(w) PROVE Keys'
    <2>1. cur[w] \in Msgs /\ old[w] \in Ids /\ mid[cur[w]] = old[w]
      BY <1>4 DEF Refiled, RetryPut, LocalsInv, Carrying, Retrying, Timers
    <2>2. NextMessageId \in Ids /\ ~UsedId(NextMessageId)
      BY <1>4, PredictedIdIsFree DEF Refiled, RetryPut
    <2>3. \A m \in Msgs : mid[m] # NextMessageId
      BY <2>2 DEF UsedId
    <2>4. mid' = [mid EXCEPT ![cur[w]] = NextMessageId]
          /\ inflights' = [[inflights EXCEPT ![old[w]] = None] EXCEPT ![NextMessageId] = cur[w]]
      BY <1>4 DEF Refiled, RetryPut
    <2>5. QED
      BY <2>1, <2>2, <2>3, <2>4, SMTT(60) DEF Keys, DeliveryTypes
  <1>5. ASSUME NEW w \in Workers, SetPubrecStatus(w) PROVE Keys'
    BY <1>5 DEF SetPubrecStatus, Keys
  <1>6. ASSUME NEW w \in Workers, RetryRelease(w) PROVE Keys'
    BY <1>6 DEF RetryRelease, Keys
  <1>7. ASSUME NEW w \in Workers, NEW p \in wire, ReceivePubrec(w, p) PROVE Keys'
    BY <1>7 DEF ReceivePubrec, Keys
  <1>8. ASSUME NEW w \in Workers, NEW p \in wire, pc[w] = "idle", RemoveInflight(w, p) PROVE Keys'
    BY <1>8 DEF RemoveInflight, Keys, DeliveryTypes
  <1>9. ASSUME NEW w \in Workers, NEW i \in Ids, Retry(w, i) PROVE Keys'
    <2>1. mid' = mid /\ (inflights' = inflights \/ inflights' = [inflights EXCEPT ![i] = None])
      BY <1>9 DEF Retry
    <2>2. QED
      BY <2>1 DEF Keys, DeliveryTypes
  <1>10. ASSUME NEW i \in Ids, Expire(i) PROVE Keys'
    BY <1>10 DEF Expire, Keys
  <1>11. QED
    BY <1>1, <1>2, <1>3, <1>4, <1>5, <1>6, <1>7, <1>8, <1>9, <1>10 DEF DeliveryNext, DeliveryStep

\* An id has one timer or one worker that retries, never both.
LEMMA TimersStep ==
    ASSUME DeliveryTypes, LocalsInv, LockInv, HandInv, DeliveryNext, IdsUnused, Fresh, Keys,
           Timers, Answers
    PROVE  Timers'
  <1>a. \A v \in Workers : pc[v] \in Retrying => cur[v] \in Msgs /\ old[v] \in Ids
    BY DEF LocalsInv, Carrying, Retrying
  <1>1. CASE Still
    BY <1>1 DEF Still, Timers
  <1>2. ASSUME NEW w \in Workers, Sent(w) PROVE Timers'
    <2>1. \A v \in Workers : pc'[v] \in Retrying => pc[v] \in Retrying /\ cur'[v] = cur[v]
      BY <1>2 DEF Sent, Rest, Special
    <2>2. QED
      BY <1>2, <2>1 DEF Sent, Timers
  <1>3. ASSUME NEW w \in Workers, Filed(w) PROVE Timers'
    <2>1. cur[w] \in Msgs /\ mid[cur[w]] = 0
      BY <1>3 DEF Filed, LocalsInv, Carrying, FirstDelivery, HandInv
    <2>2. NextMessageId \in Ids /\ ~UsedId(NextMessageId)
      BY <1>3, PredictedIdIsFree DEF Filed
    <2>3. \A v \in Workers : pc'[v] \in Retrying => pc[v] \in Retrying
      BY <1>3 DEF Filed, Rest, Retrying
    <2>4. mid' = [mid EXCEPT ![cur[w]] = NextMessageId] /\ timeouts' = timeouts \cup {NextMessageId}
          /\ inflights' = [inflights EXCEPT ![NextMessageId] = cur[w]]
          /\ UNCHANGED <<cur, old, expired, retry, acked>>
      BY <1>3 DEF Filed, PutInflight
    <2>5. \A v \in Workers : pc[v] \in Retrying => cur[v] # cur[w] /\ old[v] # NextMessageId
      BY <1>a, <2>1, <2>2 DEF Timers, UsedId
    <2>6. timeouts' \cap expired' = {}
      BY <2>2, <2>4 DEF UsedId, Timers
    <2>7. QED
      BY <1>a, <2>1, <2>2, <2>3, <2>4, <2>5, <2>6 DEF Timers, DeliveryTypes
  <1>4. ASSUME NEW w \in Workers, Refiled(w) PROVE Timers'
    <2>1. cur[w] \in Msgs /\ old[w] \in Ids /\ pc[w] \in Retrying
      BY <1>4, <1>a DEF Refiled, RetryPut, Retrying
    <2>2. NextMessageId \in Ids /\ ~UsedId(NextMessageId)
      BY <1>4, PredictedIdIsFree DEF Refiled, RetryPut
    <2>3. \A v \in Workers : pc'[v] \in Retrying => pc[v] \in Retrying /\ v # w
      BY <1>4 DEF Refiled, RetryPut, Retrying, DeliveryTypes
    <2>4. mid' = [mid EXCEPT ![cur[w]] = NextMessageId] /\ timeouts' = timeouts \cup {NextMessageId}
          /\ inflights' = [[inflights EXCEPT ![old[w]] = None] EXCEPT ![NextMessageId] = cur[w]]
          /\ retry' = [retry EXCEPT ![cur[w]] = retry[cur[w]] + 1]
          /\ UNCHANGED <<cur, old, expired, acked>>
      BY <1>4 DEF Refiled, RetryPut
    <2>5. \A v \in Workers : v # w /\ pc[v] \in Retrying =>
            cur[v] # cur[w] /\ old[v] # NextMessageId /\ old[v] # old[w]
      BY <1>a, <2>1, <2>2 DEF Timers, UsedId
    <2>6. timeouts' \cap expired' = {}
      BY <2>2, <2>4 DEF UsedId, Timers
    <2>7. \A v \in Workers : v # w /\ pc[v] \in Retrying =>
            /\ mid'[cur[v]] = mid[cur[v]] /\ retry'[cur[v]] = retry[cur[v]]
            /\ inflights'[old[v]] = inflights[old[v]]
      BY <1>a, <2>1, <2>2, <2>4, <2>5 DEF DeliveryTypes
    <2>8. QED
      BY <1>a, <2>3, <2>4, <2>5, <2>6, <2>7, ZenonT(60) DEF Timers
  <1>5. ASSUME NEW w \in Workers, SetPubrecStatus(w) PROVE Timers'
    <2>1. \A v \in Workers : pc'[v] \in Retrying => pc[v] \in Retrying /\ cur'[v] = cur[v]
      BY <1>5 DEF SetPubrecStatus, DeliveryTypes, Retrying
    <2>2. QED
      BY <1>5, <2>1 DEF SetPubrecStatus, Timers
  <1>6. ASSUME NEW w \in Workers, RetryRelease(w) PROVE Timers'
    <2>1. cur[w] \in Msgs /\ old[w] \in Ids /\ pc[w] \in Retrying
      BY <1>6, <1>a DEF RetryRelease, Retrying
    <2>2. \A v \in Workers : pc'[v] \in Retrying => pc[v] \in Retrying /\ v # w /\ cur'[v] = cur[v]
      BY <1>6 DEF RetryRelease, Retrying, DeliveryTypes
    <2>3. \A v \in Workers : v # w /\ pc[v] \in Retrying => cur[v] # cur[w] /\ old[v] # old[w]
      BY <1>a, <2>1 DEF Timers
    <2>4. retry' = [retry EXCEPT ![cur[w]] = retry[cur[w]] + 1]
            /\ timeouts' = timeouts \cup {old[w]}
          /\ UNCHANGED <<old, expired, acked, mid, inflights>>
      BY <1>6 DEF RetryRelease
    <2>5. timeouts' \cap expired' = {}
      BY <2>1, <2>4 DEF Timers
    <2>6. \A v \in Workers : v # w /\ pc[v] \in Retrying => retry'[cur[v]] = retry[cur[v]]
      BY <1>a, <2>1, <2>3, <2>4 DEF DeliveryTypes
    <2>7. QED
      BY <1>a, <2>2, <2>3, <2>4, <2>5, <2>6 DEF Timers
  <1>7. ASSUME NEW w \in Workers, NEW p \in wire, ReceivePubrec(w, p) PROVE Timers'
    <2>1. \A v \in Workers : pc'[v] \in Retrying => pc[v] \in Retrying /\ cur'[v] = cur[v]
      BY <1>7 DEF ReceivePubrec, DeliveryTypes, Retrying
    <2>2. QED
      BY <1>7, <2>1 DEF ReceivePubrec, Timers
  <1>8. ASSUME NEW w \in Workers, NEW p \in wire, pc[w] = "idle", RemoveInflight(w, p) PROVE Timers'
    <2>1. \A v \in Workers : pc'[v] \in Retrying => pc[v] \in Retrying
      BY <1>8 DEF RemoveInflight, DeliveryTypes, Retrying
    <2>2. inflights' = [inflights EXCEPT ![p.id] = None] /\ timeouts' = timeouts \ {p.id}
          /\ acked' = acked \cup {p.msg} /\ UNCHANGED <<cur, old, expired, mid, retry>>
      BY <1>8 DEF RemoveInflight
    <2>3. \A v \in Workers : pc[v] \in Retrying =>
            inflights'[old[v]] = cur[v] \/ cur[v] \in acked'
      BY <2>2, <1>a DEF Answers, Timers, DeliveryTypes
    <2>4. QED
      BY <2>1, <2>2, <2>3 DEF Timers
  <1>9. ASSUME NEW w \in Workers, NEW i \in Ids, Retry(w, i) PROVE Timers'
    <2>1. i \in expired /\ expired' = expired \ {i} /\ UNCHANGED <<timeouts, mid, retry, acked>>
          /\ pc[w] = "idle"
      BY <1>9 DEF Retry
    <2>2. \A v \in Workers : pc[v] \in Retrying => old[v] # i
      BY <2>1 DEF Timers
    <2>3. CASE inflights[i] = None \/ RetriesExhausted(inflights[i])
      <3>1. UNCHANGED <<cur, old>> /\ (pc' = pc \/ pc' = [pc EXCEPT ![w] = "dqTake"])
            /\ (inflights' = inflights \/ inflights' = [inflights EXCEPT ![i] = None])
        BY <1>9, <2>3 DEF Retry
      <3>2. \A v \in Workers : pc'[v] \in Retrying =>
              pc[v] \in Retrying /\ inflights'[old[v]] = inflights[old[v]]
        BY <3>1, <2>2, <1>a DEF DeliveryTypes, Retrying
      <3>3. QED
        BY <2>1, <3>1, <3>2 DEF Timers
    <2>4. CASE inflights[i] # None /\ ~RetriesExhausted(inflights[i])
      <3>1. cur' = [cur EXCEPT ![w] = inflights[i]] /\ old' = [old EXCEPT ![w] = mid[inflights[i]]]
            /\ inflights' = inflights
            /\ (pc' = [pc EXCEPT ![w] = "rtRel"] \/ pc' = [pc EXCEPT ![w] = "rtTake"])
        BY <1>9, <2>4 DEF Retry
      <3>2. mid[inflights[i]] = i /\ inflights[i] \in Msgs
        BY <2>4 DEF Keys, DeliveryTypes
      <3>3. retry[inflights[i]] < MaxRetries
        BY <2>4, <3>2 DEF RetriesExhausted, DeliveryTypes
      <3>4. cur'[w] = inflights[i] /\ old'[w] = i /\ \A v \in Workers : v # w =>
              pc'[v] = pc[v] /\ cur'[v] = cur[v] /\ old'[v] = old[v]
        BY <3>1, <3>2 DEF DeliveryTypes
      <3>5. i \notin timeouts' \cup expired' /\ timeouts' \cap expired' = {}
        BY <2>1 DEF Timers
      <3>6. QED
        BY <2>1, <2>2, <3>1, <3>2, <3>3, <3>4, <3>5 DEF Timers
    <2>5. QED
      BY <2>3, <2>4
  <1>10. ASSUME NEW i \in Ids, Expire(i) PROVE Timers'
    BY <1>10 DEF Expire, Timers, workerVars, historyVars
  <1>11. QED
    BY <1>1, <1>2, <1>3, <1>4, <1>5, <1>6, <1>7, <1>8, <1>9, <1>10 DEF DeliveryNext, DeliveryStep

\* The id a packet is sent under is no key, or the key of the message that is sent.
LEMMA SentUnderOwnKey ==
    ASSUME DeliveryTypes, LocalsInv, LockInv, IdsUnused, Fresh, Keys, connected,
           NEW w \in Workers, pc[w] \in PublishPending
    PROVE  inflights[NextMessageId] \in {None, cur[w]}
  <1>1. NextMessageId = lastId + 1 /\ NextMessageId \in Ids
    BY NextIsSuccessor
  <1>2. CASE inflights[NextMessageId] = None
    BY <1>2
  <1>3. CASE inflights[NextMessageId] # None
    <2>1. UsedId(lastId + 1)
      BY <1>1, <1>3 DEF UsedId
    <2>2. ~(lastId + 1 <= lastId)
      BY DEF DeliveryTypes
    <2>3. PICK v \in Workers : Reserves(v)
      BY <1>1, <2>1, <2>2 DEF Fresh
    <2>4. v = w
      BY <2>3, OneFiling DEF Reserves, PublishPending, InflightSection
    <2>5. cur[w] \in Msgs /\ mid[cur[w]] = NextMessageId
      BY <1>1, <2>3, <2>4 DEF Reserves, LocalsInv, Carrying, PublishPending
    <2>6. inflights[NextMessageId] \in Msgs /\ mid[inflights[NextMessageId]] = NextMessageId
      BY <1>1, <1>3 DEF Keys, DeliveryTypes
    <2>7. NextMessageId # 0
      BY <1>1
    <2>8. QED
      BY <2>5, <2>6, <2>7 DEF Keys
  <1>4. QED
    BY <1>2, <1>3

\* The client never answers under the id of another message.
LEMMA AnswersStep ==
    ASSUME DeliveryTypes, LocalsInv, LockInv, Qos0Inv, DeliveryNext, IdsUnused, Fresh, Keys,
           Timers, Answers
    PROVE  Answers'
  <1>a. \A p \in wire : p.id \in Ids
    BY PacketTypes DEF DeliveryTypes
  <1>b. \A v \in Workers : pc[v] = "recSet" => rec[v].id \in Ids
    BY PacketTypes DEF LocalsInv
  <1>1. CASE Still
    BY <1>1 DEF Still, Answers
  <1>2. ASSUME NEW w \in Workers, Sent(w) PROVE Answers'
    <2> DEFINE pkt == [type |-> "PUBLISH", id |-> NextMessageId, msg |-> cur[w]]
    <2>1. \A v \in Workers : pc'[v] = "recSet" => pc[v] = "recSet"
      BY <1>2 DEF Sent, Rest, Special
    <2>2. pkt.id = NextMessageId /\ pkt.msg = cur[w]
      OBVIOUS
    <2>3. wire' = wire \/ (connected /\ Qos[cur[w]] # 0 /\ wire' = wire \cup {pkt})
      BY <1>2 DEF Sent, Publish, EndpointPublish
    <2> HIDE DEF pkt
    <2>4. CASE wire' = wire
      BY <1>2, <2>1, <2>4 DEF Sent, Answers
    <2>5. CASE connected /\ Qos[cur[w]] # 0 /\ wire' = wire \cup {pkt}
      <3>1. pc[w] \in PublishPending
        BY <1>2, <2>5 DEF Sent, Qos0Inv
      <3>2. inflights[NextMessageId] \in {None, cur[w]}
        BY <2>5, <3>1, SentUnderOwnKey
      <3>3. QED
        BY <1>2, <2>1, <2>2, <2>5, <3>2 DEF Sent, Answers
    <2>6. QED
      BY <2>3, <2>4, <2>5
  <1>3. ASSUME NEW w \in Workers, Filed(w) PROVE Answers'
    <2>1. NextMessageId \in Ids /\ ~UsedId(NextMessageId)
      BY <1>3, PredictedIdIsFree DEF Filed
    <2>2. \A v \in Workers : pc'[v] = "recSet" => pc[v] = "recSet"
      BY <1>3 DEF Filed, Rest
    <2>3. inflights' = [inflights EXCEPT ![NextMessageId] = cur[w]] /\ UNCHANGED <<wire, rec>>
      BY <1>3 DEF Filed, PutInflight
    <2>4. (\A p \in wire : p.id # NextMessageId)
          /\ \A v \in Workers : pc[v] = "recSet" => rec[v].id # NextMessageId
      BY <2>1 DEF UsedId
    <2>5. QED
      BY <1>a, <1>b, <2>1, <2>2, <2>3, <2>4 DEF Answers, DeliveryTypes
  <1>4. ASSUME NEW w \in Workers, Refiled(w) PROVE Answers'
    <2>1. NextMessageId \in Ids /\ ~UsedId(NextMessageId)
      BY <1>4, PredictedIdIsFree DEF Refiled, RetryPut
    <2>2. \A v \in Workers : pc'[v] = "recSet" => pc[v] = "recSet"
      BY <1>4 DEF Refiled, RetryPut, DeliveryTypes
    <2>3. inflights' = [[inflights EXCEPT ![old[w]] = None] EXCEPT ![NextMessageId] = cur[w]]
          /\ UNCHANGED <<wire, rec>>
      BY <1>4 DEF Refiled, RetryPut
    <2>4. (\A p \in wire : p.id # NextMessageId)
          /\ \A v \in Workers : pc[v] = "recSet" => rec[v].id # NextMessageId
      BY <2>1 DEF UsedId
    <2>5. \A i \in Ids : i # NextMessageId => inflights'[i] \in {None, inflights[i]}
      BY <2>1, <2>3 DEF DeliveryTypes
    <2>6. \A p \in wire' : inflights'[p.id] \in {None, p.msg}
      BY <1>a, <2>3, <2>4, <2>5 DEF Answers
    <2>7. ASSUME NEW v \in Workers, pc'[v] = "recSet"
          PROVE  inflights'[rec'[v].id] \in {None, rec'[v].msg}
      <3>1. pc[v] = "recSet" /\ rec'[v] = rec[v]
        BY <2>2, <2>3, <2>7
      <3>2. inflights'[rec[v].id] \in {None, inflights[rec[v].id]}
        BY <1>b, <2>4, <2>5, <3>1
      <3>3. inflights[rec[v].id] \in {None, rec[v].msg}
        BY <3>1 DEF Answers
      <3>4. QED
        BY <3>1, <3>2, <3>3
    <2>8. QED
      BY <2>6, <2>7 DEF Answers
  <1>5. ASSUME NEW w \in Workers, SetPubrecStatus(w) PROVE Answers'
    <2> DEFINE pkt == [type |-> "PUBREL", id |-> rec[w].id, msg |-> rec[w].msg]
    <2>1. wire' \subseteq wire \cup {pkt}
      BY <1>5 DEF SetPubrecStatus, SendPubrel
    <2>2. pkt.id = rec[w].id /\ pkt.msg = rec[w].msg
      OBVIOUS
    <2> HIDE DEF pkt
    <2>3. \A v \in Workers : pc'[v] = "recSet" => pc[v] = "recSet" /\ rec'[v] = rec[v]
      BY <1>5 DEF SetPubrecStatus, DeliveryTypes
    <2>4. pc[w] = "recSet" /\ inflights' = inflights
      BY <1>5 DEF SetPubrecStatus
    <2>5. QED
      BY <2>1, <2>2, <2>3, <2>4 DEF Answers
  <1>6. ASSUME NEW w \in Workers, RetryRelease(w) PROVE Answers'
    <2> DEFINE pkt == [type |-> "PUBREL", id |-> old[w], msg |-> cur[w]]
    <2>1. wire' \subseteq wire \cup {pkt} /\ UNCHANGED <<inflights, rec>>
      BY <1>6 DEF RetryRelease, SendPubrel
    <2>2. pkt.id = old[w] /\ pkt.msg = cur[w]
      OBVIOUS
    <2> HIDE DEF pkt
    <2>3. \A v \in Workers : pc'[v] = "recSet" => pc[v] = "recSet"
      BY <1>6 DEF RetryRelease, DeliveryTypes
    <2>4. cur[w] \in Msgs /\ old[w] \in Ids /\ mid[cur[w]] = old[w]
      BY <1>6 DEF RetryRelease, LocalsInv, Carrying, Retrying, Timers
    <2>5. inflights[old[w]] \in {None, cur[w]}
      BY <2>4 DEF Keys, DeliveryTypes
    <2>6. QED
      BY <2>1, <2>2, <2>3, <2>5 DEF Answers
  <1>7. ASSUME NEW w \in Workers, NEW p \in wire, ReceivePubrec(w, p) PROVE Answers'
    <2>1. \A v \in Workers : pc'[v] = "recSet" => rec'[v] = p
            \/ (pc[v] = "recSet" /\ rec'[v] = rec[v])
      BY <1>7 DEF ReceivePubrec, DeliveryTypes
    <2>2. QED
      BY <1>7, <2>1 DEF ReceivePubrec, Answers
  <1>8. ASSUME NEW w \in Workers, NEW p \in wire, pc[w] = "idle", RemoveInflight(w, p)
               PROVE Answers'
    <2>1. \A v \in Workers : pc'[v] = "recSet" => pc[v] = "recSet"
      BY <1>8 DEF RemoveInflight, DeliveryTypes
    <2>2. \A i \in Ids : inflights'[i] \in {None, inflights[i]}
      BY <1>8 DEF RemoveInflight, DeliveryTypes
    <2>3. wire' \subseteq wire /\ rec' = rec
      BY <1>8 DEF RemoveInflight
    <2>4. QED
      BY <1>a, <1>b, <2>1, <2>2, <2>3 DEF Answers
  <1>9. ASSUME NEW w \in Workers, NEW i \in Ids, Retry(w, i) PROVE Answers'
    <2>1. \A v \in Workers : pc'[v] = "recSet" => pc[v] = "recSet"
      BY <1>9 DEF Retry, DeliveryTypes
    <2>2. \A k \in Ids : inflights'[k] \in {None, inflights[k]}
      BY <1>9 DEF Retry, DeliveryTypes
    <2>3. UNCHANGED <<wire, rec>>
      BY <1>9 DEF Retry
    <2>4. QED
      BY <1>a, <1>b, <2>1, <2>2, <2>3 DEF Answers
  <1>10. ASSUME NEW i \in Ids, Expire(i) PROVE Answers'
    BY <1>10 DEF Expire, Answers, workerVars
  <1>11. QED
    BY <1>1, <1>2, <1>3, <1>4, <1>5, <1>6, <1>7, <1>8, <1>9, <1>10 DEF DeliveryNext, DeliveryStep

\* Every transmission is the first one or that of a retry.
LEMMA TransmitsStep ==
    ASSUME DeliveryTypes, LocalsInv, LockInv, HandInv, Qos0Inv, DeliveryNext, IdsUnused, Fresh,
           Keys, Timers, Transmits
    PROVE  Transmits'
  <1>a. \A m \in Msgs : mid[m] \in Nat /\ retry[m] \in Nat /\ sends[m] \in Nat
    BY DEF DeliveryTypes
  <1>1. CASE Still
    <2>1. \A m \in Msgs : Pending(m)' => Pending(m)
      BY <1>1 DEF Still, Pending
    <2>2. UNCHANGED <<retry, sends, mid>>
      BY <1>1 DEF Still
    <2>3. QED
      BY <1>a, <2>1, <2>2 DEF Transmits
  <1>2. ASSUME NEW w \in Workers, Sent(w) PROVE Transmits'
    <2>1. UNCHANGED <<mid, retry>>
      BY <1>2 DEF Sent
    <2>2. \A v \in Workers : pc'[v] \in PublishPending =>
            v # w /\ pc[v] \in PublishPending /\ cur'[v] = cur[v]
      BY <1>2 DEF Sent, Rest, Special
    <2>3. \A m \in Msgs : Pending(m)' => Pending(m)
      BY <2>2 DEF Pending
    <2>4. \/ sends' = sends
          \/ sends' = [sends EXCEPT ![cur[w]] = @ + 1]
      BY <1>2 DEF Sent, Publish, EndpointPublish
    <2>5. CASE sends' = sends
      BY <1>a, <2>1, <2>3, <2>5 DEF Transmits
    <2>6. CASE sends' = [sends EXCEPT ![cur[w]] = @ + 1] /\ pc[w] \in PublishPending
      <3>1. cur[w] \in Msgs /\ Pending(cur[w])
        BY <2>6 DEF LocalsInv, Carrying, PublishPending, Pending
      <3>2. \A m \in Msgs : ~Pending(m)'
        BY <2>2, <2>6, OneFiling DEF Pending, PublishPending, InflightSection
      <3>3. \A m \in Msgs : sends'[m] = IF m = cur[w] THEN sends[m] + 1 ELSE sends[m]
        BY <2>6, <3>1 DEF DeliveryTypes
      <3>4. \A m \in Msgs : m # cur[w] => sends'[m] = sends[m]
        BY <3>3
      <3>5. Qos[cur[w]] > 0 => sends[cur[w]] + 1 <= (IF mid[cur[w]] = 0 THEN 0
              ELSE 1) + retry[cur[w]]
        BY <3>1 DEF Transmits
      <3>6. sends'[cur[w]] = sends[cur[w]] + 1
        BY <3>1, <3>3
      <3>7. ASSUME NEW m \in Msgs, Qos[m] > 0
            PROVE  sends'[m] + (IF Pending(m)' THEN 1 ELSE 0) <= (IF mid[m] = 0 THEN 0
                   ELSE 1) + retry[m]
        <4>1. CASE m = cur[w]
          BY <1>a, <3>1, <3>2, <3>5, <3>6, <3>7, <4>1
        <4>2. CASE m # cur[w]
          <5>1. sends[m] + (IF Pending(m) THEN 1 ELSE 0) <= (IF mid[m] = 0 THEN 0 ELSE 1) + retry[m]
            BY <3>7 DEF Transmits
          <5>2. QED
            BY <1>a, <2>3, <3>4, <4>2, <5>1
        <4>3. QED
          BY <4>1, <4>2
      <3>8. QED
        BY <2>1, <3>7 DEF Transmits
    <2>7. CASE sends' = [sends EXCEPT ![cur[w]] = @ + 1] /\ pc[w] \in {"pub0", "dqPub0"}
      <3>1. cur[w] \in Msgs /\ Qos[cur[w]] = 0
        BY <2>7 DEF LocalsInv, Carrying, FirstDelivery, Qos0Inv
      <3>2. \A m \in Msgs : Qos[m] > 0 => sends'[m] = sends[m]
        BY <2>7, <3>1 DEF DeliveryTypes
      <3>3. QED
        BY <1>a, <2>1, <2>3, <3>2 DEF Transmits
    <2>8. QED
      BY <1>2, <2>4, <2>5, <2>6, <2>7 DEF Sent
  <1>3. ASSUME NEW w \in Workers, Filed(w) PROVE Transmits'
    <2>1. cur[w] \in Msgs /\ mid[cur[w]] = 0
      BY <1>3 DEF Filed, LocalsInv, Carrying, FirstDelivery, HandInv
    <2>2. NextMessageId \in Ids
      BY <1>3, PredictedIdIsFree DEF Filed
    <2>3. \A m \in Msgs : Pending(m)' => Pending(m) \/ m = cur[w]
      BY <1>3 DEF Filed, Rest, Pending
    <2>4. UNCHANGED <<sends, retry>> /\ mid' = [mid EXCEPT ![cur[w]] = NextMessageId]
      BY <1>3 DEF Filed, PutInflight
    <2>5. \A m \in Msgs : mid'[m] = IF m = cur[w] THEN NextMessageId ELSE mid[m]
      BY <2>1, <2>4 DEF DeliveryTypes
    <2>6. QED
      BY <1>a, <2>1, <2>2, <2>3, <2>4, <2>5 DEF Transmits
  <1>4. ASSUME NEW w \in Workers, Refiled(w) PROVE Transmits'
    <2>1. cur[w] \in Msgs /\ mid[cur[w]] # 0 /\ retry[cur[w]] < MaxRetries /\ pc[w] = "rtPut"
      BY <1>4 DEF Refiled, RetryPut, LocalsInv, Carrying, Retrying, HandInv, Timers
    <2>2. NextMessageId \in Ids
      BY <1>4, PredictedIdIsFree DEF Refiled, RetryPut
    <2>3. \A m \in Msgs : Pending(m)' => Pending(m) \/ m = cur[w]
      BY <1>4 DEF Refiled, RetryPut, Pending, DeliveryTypes
    <2>4. UNCHANGED sends /\ mid' = [mid EXCEPT ![cur[w]] = NextMessageId]
          /\ retry' = [retry EXCEPT ![cur[w]] = @ + 1]
      BY <1>4 DEF Refiled, RetryPut
    <2>5. \A m \in Msgs : /\ mid'[m] = IF m = cur[w] THEN NextMessageId ELSE mid[m]
                          /\ retry'[m] = IF m = cur[w] THEN retry[m] + 1 ELSE retry[m]
      BY <2>1, <2>4 DEF DeliveryTypes
    <2>6. ~Pending(cur[w])
      <3>1. \A v \in Workers : pc[v] \notin PublishPending
        BY <2>1, OneFiling DEF PublishPending, InflightSection
      <3>2. QED
        BY <3>1 DEF Pending
    <2>7. QED
      BY <1>a, <2>1, <2>2, <2>3, <2>4, <2>5, <2>6 DEF Transmits
  <1>5. ASSUME NEW w \in Workers, SetPubrecStatus(w) PROVE Transmits'
    <2>1. \A m \in Msgs : Pending(m)' => Pending(m)
      BY <1>5 DEF SetPubrecStatus, Pending, PublishPending, DeliveryTypes
    <2>2. UNCHANGED <<retry, sends, mid>>
      BY <1>5 DEF SetPubrecStatus
    <2>3. QED
      BY <1>a, <2>1, <2>2 DEF Transmits
  <1>6. ASSUME NEW w \in Workers, RetryRelease(w) PROVE Transmits'
    <2>1. cur[w] \in Msgs /\ retry[cur[w]] < MaxRetries
      BY <1>6 DEF RetryRelease, LocalsInv, Carrying, Retrying, Timers
    <2>2. \A m \in Msgs : Pending(m)' => Pending(m)
      BY <1>6 DEF RetryRelease, Pending, PublishPending, DeliveryTypes
    <2>3. UNCHANGED <<sends, mid>> /\ retry' = [retry EXCEPT ![cur[w]] = @ + 1]
      BY <1>6 DEF RetryRelease
    <2>4. \A m \in Msgs : retry'[m] = IF m = cur[w] THEN retry[m] + 1 ELSE retry[m]
      BY <2>1, <2>3 DEF DeliveryTypes
    <2>5. QED
      BY <1>a, <2>1, <2>2, <2>3, <2>4 DEF Transmits
  <1>7. ASSUME NEW w \in Workers, NEW p \in wire, ReceivePubrec(w, p) PROVE Transmits'
    <2>1. \A m \in Msgs : Pending(m)' => Pending(m)
      BY <1>7 DEF ReceivePubrec, Pending, PublishPending, DeliveryTypes
    <2>2. UNCHANGED <<retry, sends, mid>>
      BY <1>7 DEF ReceivePubrec
    <2>3. QED
      BY <1>a, <2>1, <2>2 DEF Transmits
  <1>8. ASSUME NEW w \in Workers, NEW p \in wire, pc[w] = "idle", RemoveInflight(w, p)
               PROVE Transmits'
    <2>1. \A m \in Msgs : Pending(m)' => Pending(m)
      BY <1>8 DEF RemoveInflight, Pending, PublishPending, DeliveryTypes
    <2>2. UNCHANGED <<retry, sends, mid>>
      BY <1>8 DEF RemoveInflight
    <2>3. QED
      BY <1>a, <2>1, <2>2 DEF Transmits
  <1>9. ASSUME NEW w \in Workers, NEW i \in Ids, Retry(w, i) PROVE Transmits'
    <2>1. \A m \in Msgs : Pending(m)' => Pending(m)
      <3>1. \A v \in Workers : pc'[v] \in PublishPending => pc[v] = pc'[v] /\ cur'[v] = cur[v]
        BY <1>9 DEF Retry, PublishPending, DeliveryTypes
      <3>2. QED
        BY <3>1 DEF Pending
    <2>2. UNCHANGED <<retry, sends, mid>>
      BY <1>9 DEF Retry
    <2>3. QED
      BY <1>a, <2>1, <2>2 DEF Transmits
  <1>10. ASSUME NEW i \in Ids, Expire(i) PROVE Transmits'
    BY <1>10 DEF Expire, Transmits, Pending, workerVars, historyVars
  <1>11. QED
    BY <1>1, <1>2, <1>3, <1>4, <1>5, <1>6, <1>7, <1>8, <1>9, <1>10 DEF DeliveryNext, DeliveryStep

\* Only messages without QoS come to the places that publish them.
LEMMA Qos0Step == TypeOK /\ Qos0Inv /\ [Next]_vars => Qos0Inv'
  <1> SUFFICES ASSUME TypeOK, Qos0Inv, [Next]_vars
               PROVE  Qos0Inv'
    OBVIOUS
  <1>a. HandTypes
    BY HandTypesOK
  <1>1. ASSUME NEW w \in Workers, NEW S \in Batches, PublishMessage(w, S) PROVE Qos0Inv'
    BY <1>1, <1>a DEF Qos0Inv, HandTypes, PublishMessage
  <1>2. ASSUME NEW w \in Workers, HandleMessage(w) PROVE Qos0Inv'
    BY <1>2, <1>a DEF Qos0Inv, HandTypes, HandleMessage
  <1>3. ASSUME NEW w \in Workers, PublishQos0(w) PROVE Qos0Inv'
    BY <1>3, <1>a DEF Qos0Inv, HandTypes, PublishQos0, AfterMessage
  <1>4. ASSUME NEW w \in Workers, EnqueueSize(w) PROVE Qos0Inv'
    BY <1>4, <1>a DEF Qos0Inv, HandTypes, EnqueueSize
  <1>5. ASSUME NEW w \in Workers, EnqueuePoll(w) PROVE Qos0Inv'
    BY <1>5, <1>a DEF Qos0Inv, HandTypes, EnqueuePoll
  <1>6. ASSUME NEW w \in Workers, EnqueueAdd(w) PROVE Qos0Inv'
    BY <1>6, <1>a DEF Qos0Inv, HandTypes, EnqueueAdd, AfterMessage
  <1>7. ASSUME NEW w \in Workers, InflightTake(w) PROVE Qos0Inv'
    BY <1>7, <1>a DEF Qos0Inv, HandTypes, InflightTake
  <1>8. ASSUME NEW w \in Workers, InflightPut(w) PROVE Qos0Inv'
    BY <1>8, <1>a DEF Qos0Inv, HandTypes, InflightPut
  <1>9. ASSUME NEW w \in Workers, InflightPublish(w) PROVE Qos0Inv'
    BY <1>9, <1>a DEF Qos0Inv, HandTypes, InflightPublish, AfterMessage
  <1>10. ASSUME NEW w \in Workers, DequeueTake(w) PROVE Qos0Inv'
    BY <1>10, <1>a DEF Qos0Inv, HandTypes, DequeueTake
  <1>11. ASSUME NEW w \in Workers, DequeueCheck(w) PROVE Qos0Inv'
    BY <1>11, <1>a DEF Qos0Inv, HandTypes, DequeueCheck
  <1>12. ASSUME NEW w \in Workers, DequeueTakeInflight(w) PROVE Qos0Inv'
    BY <1>12, <1>a DEF Qos0Inv, HandTypes, DequeueTakeInflight
  <1>13. ASSUME NEW w \in Workers, DequeuePoll(w) PROVE Qos0Inv'
    <2>1. CASE MustStop
      BY <1>13, <2>1, <1>a DEF DequeuePoll, Qos0Inv, HandTypes
    <2>2. CASE ~MustStop
      <3>1. Head(queue) \in Msgs
        BY <2>2, <1>a, TailFacts DEF MustStop, HandTypes
      <3>2. cur' = [cur EXCEPT ![w] = Head(queue)]
            /\ pc' = [pc EXCEPT ![w] = IF Qos[Head(queue)] = 0 THEN "dqPub0" ELSE "dqPut"]
        BY <1>13, <2>2 DEF DequeuePoll
      <3>3. QED
        BY <3>1, <3>2, <1>a DEF Qos0Inv, HandTypes
    <2>3. QED
      BY <2>1, <2>2
  <1>14. ASSUME NEW w \in Workers, DequeuePublishQos0(w) PROVE Qos0Inv'
    <2>1. pc[w] = "dqPub0" /\ (\A v \in Workers : v # w => pc'[v] = pc[v] /\ cur'[v] = cur[v])
          /\ pc'[w] \in {"dqPut", "dqEnd"}
      BY <1>14, <1>a DEF DequeuePublishQos0, BreakDequeue, HandTypes
    <2>2. QED
      BY <2>1 DEF Qos0Inv
  <1>15. ASSUME NEW w \in Workers, DequeuePut(w) PROVE Qos0Inv'
    BY <1>15, <1>a DEF Qos0Inv, HandTypes, DequeuePut, BreakDequeue
  <1>16. ASSUME NEW w \in Workers, DequeuePublish(w) PROVE Qos0Inv'
    BY <1>16, <1>a DEF Qos0Inv, HandTypes, DequeuePublish
  <1>17. ASSUME NEW w \in Workers, DequeueEnd(w) PROVE Qos0Inv'
    BY <1>17, <1>a DEF Qos0Inv, HandTypes, DequeueEnd
  <1>18. ASSUME NEW w \in Workers, SetPubrecStatus(w) PROVE Qos0Inv'
    BY <1>18, <1>a DEF Qos0Inv, HandTypes, SetPubrecStatus
  <1>19. ASSUME NEW w \in Workers, RetryRelease(w) PROVE Qos0Inv'
    BY <1>19, <1>a DEF Qos0Inv, HandTypes, RetryRelease
  <1>20. ASSUME NEW w \in Workers, RetryTake(w) PROVE Qos0Inv'
    BY <1>20, <1>a DEF Qos0Inv, HandTypes, RetryTake
  <1>21. ASSUME NEW w \in Workers, RetryPut(w) PROVE Qos0Inv'
    <2>1. pc[w] = "rtPut" /\ (\A v \in Workers : v # w => pc'[v] = pc[v] /\ cur'[v] = cur[v])
          /\ pc'[w] \in {"rtPub", "idle"}
      BY <1>21, <1>a DEF RetryPut, HandTypes
    <2>2. QED
      BY <2>1 DEF Qos0Inv
  <1>22. ASSUME NEW w \in Workers, RetryPublish(w) PROVE Qos0Inv'
    BY <1>22, <1>a DEF Qos0Inv, HandTypes, RetryPublish
  <1>23. ASSUME NEW w \in Workers, NEW p \in wire, ReceivePuback(w, p) \/ ReceivePubcomp(w, p)
                PROVE Qos0Inv'
    <2>1. pc[w] = "idle" /\ pc' = [pc EXCEPT ![w] = "dqTake"] /\ UNCHANGED cur
      BY <1>23 DEF ReceivePuback, ReceivePubcomp, RemoveInflight
    <2>2. QED
      BY <2>1, <1>a DEF Qos0Inv, HandTypes
  <1>24. ASSUME NEW w \in Workers, NEW p \in wire, ReceivePubrec(w, p) PROVE Qos0Inv'
    BY <1>24, <1>a DEF Qos0Inv, HandTypes, ReceivePubrec
  <1>25. ASSUME NEW w \in Workers, NEW i \in Ids, Retry(w, i) PROVE Qos0Inv'
    <2>1. pc[w] = "idle" /\ (\A v \in Workers : v # w => pc'[v] = pc[v] /\ cur'[v] = cur[v])
          /\ pc'[w] \notin {"pub0", "dqPub0"}
      BY <1>25, <1>a DEF Retry, HandTypes
    <2>2. QED
      BY <2>1 DEF Qos0Inv
  <1>26. ASSUME NEW i \in Ids, Expire(i) PROVE Qos0Inv'
    BY <1>26, <1>a DEF Qos0Inv, HandTypes, Expire, workerVars, historyVars
  <1>27. CASE Disconnect
    BY <1>27, <1>a DEF Qos0Inv, HandTypes, Disconnect
  <1>28. CASE UNCHANGED vars
    BY <1>28 DEF vars, sharedVars, workerVars, historyVars, Qos0Inv, HandTypes
  <1>29. QED
    BY <1>1, <1>2, <1>3, <1>4, <1>5, <1>6, <1>7, <1>8, <1>9, <1>10, <1>11, <1>12, <1>13, <1>14,
       <1>15, <1>16, <1>17, <1>18, <1>19, <1>20, <1>21, <1>22, <1>23, <1>24, <1>25, <1>26,
       <1>27, <1>28 DEF Next, WorkerStep, ReceiveAnswer, Quiet

-----------------------------------------------------------------------------
(* The inflight window *)

\* Unacknowledged messages are finitely many, at most one per inflight id.
LEMMA UnackedFinite ==
    /\ IsFiniteSet(Unacked) /\ Cardinality(Unacked) \in Nat
    /\ Cardinality(InflightIds) \in Nat /\ Cardinality(Unacked) <= Cardinality(InflightIds)
  <1>1. IsFiniteSet(Ids)
    BY FS_Interval
  <1>2. InflightIds \subseteq Ids /\ Unacked \subseteq InflightIds
    BY DEF InflightIds, Unacked
  <1>3. IsFiniteSet(InflightIds)
    BY <1>1, <1>2, FS_Subset
  <1>4. QED
    BY <1>2, <1>3, FS_Subset, FS_CardinalityType

\* One element more is one more at most.
LEMMA OneMore ==
    ASSUME NEW S, IsFiniteSet(S), NEW x, NEW T, T \subseteq S \cup {x}
    PROVE  Cardinality(T) <= Cardinality(S) + 1 /\ Cardinality(T) \in Nat
  <1>1. IsFiniteSet(S \cup {x}) /\ Cardinality(S \cup {x}) <= Cardinality(S) + 1
    <2>1. Cardinality(S) \in Nat
      BY FS_CardinalityType
    <2> DEFINE n == Cardinality(S)
               k == Cardinality(S \cup {x})
    <2>2. IsFiniteSet(S \cup {x}) /\ k = IF x \in S THEN n ELSE n + 1
      BY FS_AddElement
    <2> HIDE DEF n, k
    <2>3. n \in Nat
      BY <2>1 DEF n
    <2>4. k <= n + 1
      BY <2>2, <2>3
    <2>5. QED
      BY <2>2, <2>4 DEF n, k
  <1>2. IsFiniteSet(T) /\ Cardinality(T) <= Cardinality(S \cup {x})
    BY <1>1, FS_Subset
  <1>3. Cardinality(T) \in Nat /\ Cardinality(S) \in Nat /\ Cardinality(S \cup {x}) \in Nat
    BY <1>1, <1>2, FS_CardinalityType
  <1>4. QED
    BY <1>1, <1>2, <1>3

\* A step that files nothing and polls nothing.
LEMMA WindowKeeps ==
    ASSUME Window, Unacked' \subseteq Unacked,
           \A v \in Workers : pc'[v] \in {"dqPub0", "dqPut"} => pc[v] \in {"dqPub0", "dqPut"}
    PROVE  Window'
  <1>1. IsFiniteSet(Unacked) /\ Cardinality(Unacked) \in Nat
    BY UnackedFinite
  <1>2. IsFiniteSet(Unacked') /\ Cardinality(Unacked') <= Cardinality(Unacked)
    BY <1>1, FS_Subset
  <1>3. Cardinality(Unacked') \in Nat
    BY <1>2, FS_CardinalityType
  <1>4. QED
    BY <1>1, <1>2, <1>3 DEF Window

\* A message that is filed takes the room that was found for it.
LEMMA WindowFills ==
    ASSUME NEW x, Unacked' \subseteq Unacked \cup {x},
           InflightMax > 0 => Cardinality(Unacked) < InflightMax,
           \A v \in Workers : pc'[v] \notin {"dqPub0", "dqPut"}
    PROVE  Window'
  <1>1. IsFiniteSet(Unacked) /\ Cardinality(Unacked) \in Nat
    BY UnackedFinite
  <1>2. Cardinality(Unacked') <= Cardinality(Unacked) + 1 /\ Cardinality(Unacked') \in Nat
    BY <1>1, OneMore
  <1>3. QED
    BY <1>1, <1>2 DEF Window

\* Every step keeps the messages without confirmation within the window.
LEMMA WindowStep ==
    TypeOK /\ LocalsInv /\ LockInv /\ Timers /\ Window /\ [Next]_vars => Window'
  <1> SUFFICES ASSUME TypeOK, LocalsInv, LockInv, Timers, Window, [Next]_vars
               PROVE  Window'
    OBVIOUS
  <1>a. HandTypes
    BY HandTypesOK
  <1>b. DeliveryTypes
    BY DeliveryTypesOK
  <1>1. ASSUME NEW w \in Workers, NEW S \in Batches, PublishMessage(w, S) PROVE Window'
    BY <1>1, <1>a, WindowKeeps DEF HandTypes, Unacked, InflightIds, PublishMessage
  <1>2. ASSUME NEW w \in Workers, HandleMessage(w) PROVE Window'
    BY <1>2, <1>a, WindowKeeps DEF HandTypes, Unacked, InflightIds, HandleMessage
  <1>3. ASSUME NEW w \in Workers, PublishQos0(w) PROVE Window'
    BY <1>3, <1>a, WindowKeeps DEF HandTypes, Unacked, InflightIds, PublishQos0, AfterMessage
  <1>4. ASSUME NEW w \in Workers, EnqueueSize(w) PROVE Window'
    BY <1>4, <1>a, WindowKeeps DEF HandTypes, Unacked, InflightIds, EnqueueSize
  <1>5. ASSUME NEW w \in Workers, EnqueuePoll(w) PROVE Window'
    BY <1>5, <1>a, WindowKeeps DEF HandTypes, Unacked, InflightIds, EnqueuePoll
  <1>6. ASSUME NEW w \in Workers, EnqueueAdd(w) PROVE Window'
    BY <1>6, <1>a, WindowKeeps DEF HandTypes, Unacked, InflightIds, EnqueueAdd, AfterMessage
  <1>7. ASSUME NEW w \in Workers, InflightTake(w) PROVE Window'
    BY <1>7, <1>a, WindowKeeps DEF HandTypes, Unacked, InflightIds, InflightTake
  <1>8. ASSUME NEW w \in Workers, InflightPut(w) PROVE Window'
    <2>1. pc[w] = "inPut" /\ UNCHANGED acked
      BY <1>8 DEF InflightPut
    <2>2. CASE MustQueue \/ ~connected
      BY <1>8, <2>2, <1>a, WindowKeeps DEF InflightPut, HandTypes, Unacked, InflightIds
    <2>3. CASE ~(MustQueue \/ ~connected)
      <3>1. inflights' = [inflights EXCEPT ![NextMessageId] = cur[w]]
              /\ pc' = [pc EXCEPT ![w] = "inPub"]
        BY <1>8, <2>3 DEF InflightPut, PutInflight
      <3>2. InflightMax > 0 => Cardinality(Unacked) < InflightMax
        BY <2>3, UnackedFinite DEF MustQueue, IsInflightFull
      <3>3. \A v \in Workers : pc'[v] \notin {"dqPub0", "dqPut"}
        BY <2>1, <3>1, <1>a, OneFiling DEF InflightSection, HandTypes
      <3>4. Unacked' \subseteq Unacked \cup {NextMessageId}
        BY <2>1, <3>1, <1>b DEF Unacked, InflightIds, DeliveryTypes
      <3>5. QED
        BY <3>2, <3>3, <3>4, WindowFills
    <2>4. QED
      BY <2>2, <2>3
  <1>9. ASSUME NEW w \in Workers, InflightPublish(w) PROVE Window'
    BY <1>9, <1>a, WindowKeeps DEF HandTypes, Unacked, InflightIds, InflightPublish, AfterMessage
  <1>10. ASSUME NEW w \in Workers, DequeueTake(w) PROVE Window'
    BY <1>10, <1>a, WindowKeeps DEF HandTypes, Unacked, InflightIds, DequeueTake
  <1>11. ASSUME NEW w \in Workers, DequeueCheck(w) PROVE Window'
    BY <1>11, <1>a, WindowKeeps DEF HandTypes, Unacked, InflightIds, DequeueCheck
  <1>12. ASSUME NEW w \in Workers, DequeueTakeInflight(w) PROVE Window'
    BY <1>12, <1>a, WindowKeeps DEF HandTypes, Unacked, InflightIds, DequeueTakeInflight
  <1>13. ASSUME NEW w \in Workers, DequeuePoll(w) PROVE Window'
    <2>1. pc[w] = "dqPoll" /\ UNCHANGED <<inflights, acked>>
      BY <1>13 DEF DequeuePoll
    <2>2. CASE MustStop
      BY <1>13, <2>1, <2>2, <1>a, WindowKeeps DEF DequeuePoll, HandTypes, Unacked, InflightIds
    <2>3. CASE ~MustStop
      <3>1. InflightMax > 0 => Cardinality(Unacked) < InflightMax
        BY <2>3, UnackedFinite DEF MustStop, IsInflightFull
      <3>2. Unacked' = Unacked
        BY <2>1 DEF Unacked, InflightIds
      <3>3. QED
        BY <3>1, <3>2, UnackedFinite DEF Window
    <2>4. QED
      BY <2>2, <2>3
  <1>14. ASSUME NEW w \in Workers, DequeuePublishQos0(w) PROVE Window'
    <2>1. UNCHANGED <<inflights, acked>>
      BY <1>14 DEF DequeuePublishQos0
    <2>2. \A v \in Workers : pc'[v] \in {"dqPub0", "dqPut"} => pc[v] \in {"dqPub0", "dqPut"}
      BY <1>14, <1>a DEF DequeuePublishQos0, BreakDequeue, HandTypes
    <2>3. QED
      BY <2>1, <2>2, WindowKeeps DEF Unacked, InflightIds
  <1>15. ASSUME NEW w \in Workers, DequeuePut(w) PROVE Window'
    <2>1. pc[w] = "dqPut" /\ UNCHANGED acked
      BY <1>15 DEF DequeuePut
    <2>2. CASE ~connected
      BY <1>15, <2>2, <1>a, WindowKeeps DEF DequeuePut, BreakDequeue, HandTypes, Unacked,
         InflightIds
    <2>3. CASE connected
      <3>1. inflights' = [inflights EXCEPT ![NextMessageId] = cur[w]]
              /\ pc' = [pc EXCEPT ![w] = "dqPub"]
        BY <1>15, <2>3 DEF DequeuePut, PutInflight
      <3>2. InflightMax > 0 => Cardinality(Unacked) < InflightMax
        BY <2>1 DEF Window
      <3>3. \A v \in Workers : pc'[v] \notin {"dqPub0", "dqPut"}
        BY <2>1, <3>1, <1>a, OneFiling DEF InflightSection, HandTypes
      <3>4. Unacked' \subseteq Unacked \cup {NextMessageId}
        BY <2>1, <3>1, <1>b DEF Unacked, InflightIds, DeliveryTypes
      <3>5. QED
        BY <3>2, <3>3, <3>4, WindowFills
    <2>4. QED
      BY <2>2, <2>3
  <1>16. ASSUME NEW w \in Workers, DequeuePublish(w) PROVE Window'
    BY <1>16, <1>a, WindowKeeps DEF HandTypes, Unacked, InflightIds, DequeuePublish
  <1>17. ASSUME NEW w \in Workers, DequeueEnd(w) PROVE Window'
    BY <1>17, <1>a, WindowKeeps DEF HandTypes, Unacked, InflightIds, DequeueEnd
  <1>18. ASSUME NEW w \in Workers, SetPubrecStatus(w) PROVE Window'
    BY <1>18, <1>a, WindowKeeps DEF HandTypes, Unacked, InflightIds, SetPubrecStatus
  <1>19. ASSUME NEW w \in Workers, RetryRelease(w) PROVE Window'
    BY <1>19, <1>a, WindowKeeps DEF HandTypes, Unacked, InflightIds, RetryRelease
  <1>20. ASSUME NEW w \in Workers, RetryTake(w) PROVE Window'
    BY <1>20, <1>a, WindowKeeps DEF HandTypes, Unacked, InflightIds, RetryTake
  <1>21. ASSUME NEW w \in Workers, RetryPut(w) PROVE Window'
    <2>1. pc[w] = "rtPut" /\ UNCHANGED acked
      BY <1>21 DEF RetryPut
    <2>2. CASE ~connected
      BY <1>21, <2>2, <1>a, WindowKeeps DEF RetryPut, HandTypes, Unacked, InflightIds
    <2>3. CASE connected
      <3>1. inflights' = [[inflights EXCEPT ![old[w]] = None] EXCEPT ![NextMessageId] = cur[w]]
            /\ pc' = [pc EXCEPT ![w] = "rtPub"]
        BY <1>21, <2>3 DEF RetryPut
      <3>2. \A v \in Workers : pc'[v] \notin {"dqPub0", "dqPut"}
        BY <2>1, <3>1, <1>a, OneFiling DEF InflightSection, HandTypes
      <3>3. old[w] \in Ids /\ cur[w] \in Msgs /\ (inflights[old[w]] = cur[w] \/ cur[w] \in acked)
        BY <2>1 DEF Timers, Retrying, LocalsInv, Carrying
      <3>4. CASE cur[w] \in acked
        <4>1. Unacked' \subseteq Unacked
          BY <2>1, <3>1, <3>4, <1>b DEF Unacked, InflightIds, DeliveryTypes
        <4>2. QED
          BY <3>2, <4>1, WindowKeeps
      <3>5. CASE cur[w] \notin acked
        <4>1. old[w] \in Unacked
          BY <3>3, <3>5 DEF Unacked, InflightIds
        <4>2. Unacked' \subseteq (Unacked \ {old[w]}) \cup {NextMessageId}
          BY <2>1, <3>1, <1>b DEF Unacked, InflightIds, DeliveryTypes
        <4>3. IsFiniteSet(Unacked \ {old[w]})
                /\ Cardinality(Unacked \ {old[w]}) = Cardinality(Unacked) - 1
          BY <4>1, UnackedFinite, FS_RemoveElement
        <4>4. Cardinality(Unacked') <= Cardinality(Unacked \ {old[w]}) + 1
              /\ Cardinality(Unacked') \in Nat
          <5> DEFINE S == Unacked \ {old[w]}
                     T == Unacked'
          <5>1. IsFiniteSet(S) /\ T \subseteq S \cup {NextMessageId}
            BY <4>2, <4>3
          <5> HIDE DEF S, T
          <5>2. Cardinality(T) <= Cardinality(S) + 1 /\ Cardinality(T) \in Nat
            BY <5>1, OneMore
          <5>3. QED
            BY <5>2 DEF S, T
        <4>5. QED
          BY <3>2, <4>3, <4>4, UnackedFinite DEF Window
      <3>6. QED
        BY <3>4, <3>5
    <2>4. QED
      BY <2>2, <2>3
  <1>22. ASSUME NEW w \in Workers, RetryPublish(w) PROVE Window'
    BY <1>22, <1>a, WindowKeeps DEF HandTypes, Unacked, InflightIds, RetryPublish
  <1>23. ASSUME NEW w \in Workers, NEW p \in wire, ReceivePuback(w, p) \/ ReceivePubcomp(w, p)
                PROVE Window'
    <2>1. RemoveInflight(w, p) /\ pc[w] = "idle"
      BY <1>23 DEF ReceivePuback, ReceivePubcomp
    <2>2. Unacked' \subseteq Unacked
      BY <2>1, <1>b DEF RemoveInflight, Unacked, InflightIds, DeliveryTypes
    <2>3. \A v \in Workers : pc'[v] \in {"dqPub0", "dqPut"} => pc[v] \in {"dqPub0", "dqPut"}
      BY <2>1, <1>a DEF RemoveInflight, HandTypes
    <2>4. QED
      BY <2>2, <2>3, WindowKeeps
  <1>24. ASSUME NEW w \in Workers, NEW p \in wire, ReceivePubrec(w, p) PROVE Window'
    BY <1>24, <1>a, WindowKeeps DEF HandTypes, Unacked, InflightIds, ReceivePubrec
  <1>25. ASSUME NEW w \in Workers, NEW i \in Ids, Retry(w, i) PROVE Window'
    <2>1. acked' = acked /\ \A k \in Ids : inflights'[k] # None => inflights'[k] = inflights[k]
      BY <1>25, <1>b DEF Retry, DeliveryTypes
    <2>2. Unacked' \subseteq Unacked
      BY <2>1 DEF Unacked, InflightIds
    <2>3. \A v \in Workers : pc'[v] \in {"dqPub0", "dqPut"} => pc[v] \in {"dqPub0", "dqPut"}
      BY <1>25, <1>a DEF Retry, HandTypes
    <2>4. QED
      BY <2>2, <2>3, WindowKeeps
  <1>26. ASSUME NEW i \in Ids, Expire(i) PROVE Window'
    BY <1>26, <1>a, WindowKeeps DEF HandTypes, Unacked, InflightIds, Expire, workerVars, historyVars
  <1>27. CASE Disconnect
    BY <1>27, <1>a, WindowKeeps DEF HandTypes, Unacked, InflightIds, Disconnect
  <1>28. CASE UNCHANGED vars
    BY <1>28 DEF vars, sharedVars, workerVars, historyVars, HandTypes, Unacked, InflightIds, Window
  <1>29. QED
    BY <1>1, <1>2, <1>3, <1>4, <1>5, <1>6, <1>7, <1>8, <1>9, <1>10, <1>11, <1>12, <1>13, <1>14,
       <1>15, <1>16, <1>17, <1>18, <1>19, <1>20, <1>21, <1>22, <1>23, <1>24, <1>25, <1>26,
       <1>27, <1>28 DEF Next, WorkerStep, ReceiveAnswer, Quiet

-----------------------------------------------------------------------------
(* The fate of a message *)

Kept(m) == InHand(m) \/ Queued(m) \/ InFlight(m) \/ m \in acked \/ m \in dropped

\* Every message taken is somewhere: the conclusion of NoSilentLoss.
AllKept == \A m \in Msgs : turn[m] # 0 /\ Qos[m] > 0 => Kept(m)

\* A step that takes no message and loses none.
LEMMA KeptKeeps ==
    ASSUME AllKept, UNCHANGED turn, \A m \in Msgs : Kept(m) => Kept(m)'
    PROVE  AllKept'
  BY DEF AllKept

\* What is in a queue is its first message or in its tail.
LEMMA QueuedTail ==
    ASSUME NEW S, NEW q \in Seq(S), q # <<>>, NEW j \in 1..Len(q), q[j] # Head(q)
    PROVE  \E k \in 1..Len(Tail(q)) : Tail(q)[k] = q[j]
  <1>1. j # 1 /\ Len(Tail(q)) = Len(q) - 1 /\ Len(q) \in Nat
    BY TailFacts
  <1>2. j - 1 \in 1..Len(Tail(q)) /\ Tail(q)[j - 1] = q[j]
    BY <1>1
  <1>3. QED
    BY <1>2

\* A step that leaves queue, window and outcomes alone, and every message in the
\* hands of the worker that has it.
LEMMA KeptInHand ==
    ASSUME AllKept, UNCHANGED <<turn, queue, inflights, acked, dropped>>,
           \A v \in Workers : pc[v] \in FirstDelivery => pc'[v] \in FirstDelivery
             /\ cur'[v] = cur[v]
    PROVE  AllKept'
  <1>1. \A m \in Msgs : InHand(m) => InHand(m)'
    BY DEF InHand
  <1>2. \A m \in Msgs : (Queued(m) => Queued(m)') /\ (InFlight(m) => InFlight(m)')
    BY DEF Queued, InFlight
  <1>3. QED
    BY <1>1, <1>2, KeptKeeps DEF Kept

\* As long as the client is connected no step loses a message.
LEMMA KeptStep ==
    TypeOK /\ LocalsInv /\ LockInv /\ IdsUnused /\ Fresh /\ Keys /\ Timers /\ Answers /\ connected
      /\ connected' /\ AllKept /\ [Next]_vars => AllKept'
  <1> SUFFICES ASSUME TypeOK, LocalsInv, LockInv, IdsUnused, Fresh, Keys, Timers, Answers,
                      connected, connected', AllKept, [Next]_vars
               PROVE  AllKept'
    OBVIOUS
  <1>a. HandTypes
    BY HandTypesOK
  <1>b. DeliveryTypes
    BY DeliveryTypesOK
  <1>1. ASSUME NEW w \in Workers, NEW S \in Batches, PublishMessage(w, S) PROVE AllKept'
    BY <1>1, <1>a, KeptInHand DEF HandTypes, FirstDelivery, Enqueuing, PublishMessage
  <1>2. ASSUME NEW w \in Workers, HandleMessage(w) PROVE AllKept'
    <2>1. PICK m \in todo[w] :
             /\ cur' = [cur EXCEPT ![w] = m] /\ turn' = [turn EXCEPT ![m] = clock + 1]
             /\ \/ /\ Qos[m] = 0
                   /\ pc' = [pc EXCEPT ![w] = IF StoreQos0 /\ queue # <<>> THEN "enqSize"
                        ELSE "pub0"]
                \/ /\ Qos[m] > 0
                   /\ pc' = [pc EXCEPT ![w] = IF MustQueue THEN "enqSize" ELSE "inTake"]
      BY <1>2 DEF HandleMessage
    <2>2. UNCHANGED <<queue, inflights, acked, dropped>> /\ pc[w] = "handle"
      BY <1>2 DEF HandleMessage
    <2>3. m \in Msgs /\ Qos[m] \in 0..2
      BY <1>a DEF HandTypes
    <2>4. (\A v \in Workers : v # w => pc'[v] = pc[v] /\ cur'[v] = cur[v]) /\ cur'[w] = m
          /\ (Qos[m] > 0 => pc'[w] \in {"enqSize", "inTake"})
      BY <2>1, <2>3, <1>a DEF HandTypes
    <2>5. \A v \in Workers : pc[v] \in FirstDelivery => pc'[v] \in FirstDelivery /\ cur'[v] = cur[v]
      BY <2>2, <2>4 DEF FirstDelivery, Enqueuing
    <2>6. \A k \in Msgs : Kept(k) => Kept(k)'
      <3>1. \A k \in Msgs : InHand(k) => InHand(k)'
        BY <2>5 DEF InHand
      <3>2. \A k \in Msgs : (Queued(k) => Queued(k)') /\ (InFlight(k) => InFlight(k)')
        BY <2>2 DEF Queued, InFlight
      <3>3. QED
        BY <2>2, <3>1, <3>2 DEF Kept
    <2>7. Qos[m] > 0 => Kept(m)'
      <3>1. Qos[m] > 0 => pc'[w] \in FirstDelivery /\ cur'[w] = m
        BY <2>4 DEF FirstDelivery, Enqueuing
      <3>2. QED
        BY <3>1 DEF Kept, InHand
    <2>8. \A k \in Msgs : k # m => turn'[k] = turn[k]
      BY <2>1, <2>3, <1>a DEF HandTypes
    <2>9. QED
      BY <2>3, <2>6, <2>7, <2>8 DEF AllKept

  <1>3. ASSUME NEW w \in Workers, PublishQos0(w) PROVE AllKept'
    BY <1>3, <1>a, KeptInHand DEF HandTypes, FirstDelivery, Enqueuing, PublishQos0, AfterMessage
  <1>4. ASSUME NEW w \in Workers, EnqueueSize(w) PROVE AllKept'
    BY <1>4, <1>a, KeptInHand DEF HandTypes, FirstDelivery, Enqueuing, EnqueueSize
  <1>5. ASSUME NEW w \in Workers, EnqueuePoll(w) PROVE AllKept'
    <2>1. pc[w] = "enqPoll" /\ pc' = [pc EXCEPT ![w] = "enqAdd"]
          /\ UNCHANGED <<turn, inflights, acked, cur>>
      BY <1>5 DEF EnqueuePoll
    <2>2. \A m \in Msgs : InHand(m) => InHand(m)'
      BY <2>1, <1>a DEF HandTypes, InHand, FirstDelivery, Enqueuing
    <2>3. \A m \in Msgs : InFlight(m) => InFlight(m)'
      BY <2>1 DEF InFlight
    <2>4. \A m \in Msgs : Queued(m) => Queued(m)' \/ m \in dropped'
      <3>1. CASE queue = <<>>
        BY <1>5, <3>1 DEF EnqueuePoll, Queued
      <3>2. CASE queue # <<>>
        <4>1. queue' = Tail(queue) /\ dropped' = dropped \cup {Head(queue)}
          BY <1>5, <3>2 DEF EnqueuePoll
        <4>2. \A m \in Msgs : Queued(m) => m = Head(queue) \/ Queued(m)'
          BY <3>2, <4>1, <1>a, QueuedTail, ZenonT(60) DEF HandTypes, Queued
        <4>3. QED
          BY <4>1, <4>2
      <3>3. QED
        BY <3>1, <3>2
    <2>5. dropped \subseteq dropped'
      BY <1>5 DEF EnqueuePoll
    <2>6. QED
      BY <2>1, <2>2, <2>3, <2>4, <2>5, KeptKeeps DEF Kept

  <1>6. ASSUME NEW w \in Workers, EnqueueAdd(w) PROVE AllKept'
    <2>1. pc[w] = "enqAdd" /\ queue' = Append(queue, cur[w])
          /\ UNCHANGED <<turn, inflights, acked, dropped>>
          /\ \A v \in Workers : v # w => pc'[v] = pc[v] /\ cur'[v] = cur[v]
      BY <1>6, <1>a DEF EnqueueAdd, HandTypes
    <2>2. cur[w] \in Msgs
      BY <2>1 DEF LocalsInv, Carrying, FirstDelivery, Enqueuing
    <2>3. \A m \in Msgs : Queued(m) \/ m = cur[w] => Queued(m)'
      <3>1. Len(queue') = Len(queue) + 1 /\ Len(queue) \in Nat /\ queue'[Len(queue) + 1] = cur[w]
            /\ \A j \in 1..Len(queue) : queue'[j] = queue[j]
        BY <2>1, <2>2, <1>a DEF HandTypes
      <3>2. QED
        BY <3>1 DEF Queued
    <2>4. \A m \in Msgs : InHand(m) => InHand(m)' \/ m = cur[w]
      BY <2>1 DEF InHand
    <2>5. \A m \in Msgs : InFlight(m) => InFlight(m)'
      BY <2>1 DEF InFlight
    <2>6. QED
      BY <2>1, <2>3, <2>4, <2>5, KeptKeeps DEF Kept

  <1>7. ASSUME NEW w \in Workers, InflightTake(w) PROVE AllKept'
    BY <1>7, <1>a, KeptInHand DEF HandTypes, FirstDelivery, Enqueuing, InflightTake
  <1>8. ASSUME NEW w \in Workers, InflightPut(w) PROVE AllKept'
    <2>1. pc[w] = "inPut" /\ UNCHANGED <<turn, queue, acked, dropped, connected>>
      BY <1>8 DEF InflightPut
    <2>2. CASE MustQueue \/ ~connected
      BY <1>8, <2>1, <2>2, <1>a, KeptInHand DEF InflightPut, HandTypes, FirstDelivery, Enqueuing
    <2>3. CASE ~(MustQueue \/ ~connected)
      <3>1. inflights' = [inflights EXCEPT ![NextMessageId] = cur[w]] /\ UNCHANGED cur
            /\ pc' = [pc EXCEPT ![w] = "inPub"] /\ connected
        BY <1>8, <2>3 DEF InflightPut, PutInflight
      <3>2. NextMessageId \in Ids /\ inflights[NextMessageId] = None
        BY <2>1, <3>1, <1>b, PredictedIdIsFree DEF UsedId
      <3>3. \A m \in Msgs : InHand(m) => InHand(m)' \/ m = cur[w]
        BY <2>1, <3>1, <1>a DEF InHand, HandTypes
      <3>4. cur[w] \in Msgs
        BY <2>1 DEF LocalsInv, Carrying, FirstDelivery
      <3>5. \A m \in Msgs : InFlight(m) \/ m = cur[w] => InFlight(m)'
        BY <3>1, <3>2, <3>4, <1>b DEF InFlight, DeliveryTypes
      <3>6. \A m \in Msgs : Queued(m) => Queued(m)'
        BY <2>1 DEF Queued
      <3>7. QED
        BY <2>1, <3>3, <3>5, <3>6, KeptKeeps DEF Kept
    <2>4. QED
      BY <2>2, <2>3

  <1>9. ASSUME NEW w \in Workers, InflightPublish(w) PROVE AllKept'
    BY <1>9, <1>a, KeptInHand DEF HandTypes, FirstDelivery, Enqueuing, InflightPublish, AfterMessage
  <1>10. ASSUME NEW w \in Workers, DequeueTake(w) PROVE AllKept'
    BY <1>10, <1>a, KeptInHand DEF HandTypes, FirstDelivery, Enqueuing, DequeueTake
  <1>11. ASSUME NEW w \in Workers, DequeueCheck(w) PROVE AllKept'
    BY <1>11, <1>a, KeptInHand DEF HandTypes, FirstDelivery, Enqueuing, DequeueCheck
  <1>12. ASSUME NEW w \in Workers, DequeueTakeInflight(w) PROVE AllKept'
    BY <1>12, <1>a, KeptInHand DEF HandTypes, FirstDelivery, Enqueuing, DequeueTakeInflight
  <1>13. ASSUME NEW w \in Workers, DequeuePoll(w) PROVE AllKept'
    <2>1. pc[w] = "dqPoll" /\ UNCHANGED <<turn, inflights, acked, dropped>>
      BY <1>13 DEF DequeuePoll
    <2>2. CASE MustStop
      BY <1>13, <2>1, <2>2, <1>a, KeptInHand DEF DequeuePoll, HandTypes, FirstDelivery, Enqueuing
    <2>3. CASE ~MustStop
      <3>1. queue # <<>> /\ queue' = Tail(queue) /\ cur' = [cur EXCEPT ![w] = Head(queue)]
            /\ (pc' = [pc EXCEPT ![w] = "dqPub0"] \/ pc' = [pc EXCEPT ![w] = "dqPut"])
        BY <1>13, <2>3 DEF DequeuePoll, MustStop
      <3>2. \A v \in Workers : pc[v] \in FirstDelivery => pc'[v] \in FirstDelivery
              /\ cur'[v] = cur[v]
        BY <2>1, <3>1, <1>a DEF HandTypes, FirstDelivery, Enqueuing
      <3>3. cur'[w] = Head(queue) /\ pc'[w] \in FirstDelivery
        BY <2>1, <3>1, <1>a DEF HandTypes, FirstDelivery, Enqueuing
      <3>4. \A m \in Msgs : InHand(m) \/ m = Head(queue) => InHand(m)'
        BY <3>2, <3>3 DEF InHand
      <3>5. \A m \in Msgs : Queued(m) => m = Head(queue) \/ Queued(m)'
        BY <3>1, <1>a, QueuedTail, ZenonT(60) DEF HandTypes, Queued
      <3>6. \A m \in Msgs : InFlight(m) => InFlight(m)'
        BY <2>1 DEF InFlight
      <3>7. QED
        BY <2>1, <3>4, <3>5, <3>6, KeptKeeps DEF Kept
    <2>4. QED
      BY <2>2, <2>3

  <1>14. ASSUME NEW w \in Workers, DequeuePublishQos0(w) PROVE AllKept'
    <2>1. pc[w] = "dqPub0" /\ connected /\ pc' = [pc EXCEPT ![w] = "dqPut"] /\ cur' = cur
          /\ UNCHANGED <<turn, queue, inflights, acked, dropped>>
      BY <1>14 DEF DequeuePublishQos0
    <2>2. QED
      BY <2>1, <1>a, KeptInHand DEF HandTypes, FirstDelivery, Enqueuing

  <1>15. ASSUME NEW w \in Workers, DequeuePut(w) PROVE AllKept'
    <2>1. pc[w] = "dqPut" /\ UNCHANGED <<turn, queue, acked, dropped, connected>>
      BY <1>15 DEF DequeuePut
    <2>2. CASE ~connected
      BY <2>1, <2>2
    <2>3. CASE ~(~connected)
      <3>1. inflights' = [inflights EXCEPT ![NextMessageId] = cur[w]] /\ UNCHANGED cur
            /\ pc' = [pc EXCEPT ![w] = "dqPub"] /\ connected
        BY <1>15, <2>3 DEF DequeuePut, PutInflight
      <3>2. NextMessageId \in Ids /\ inflights[NextMessageId] = None
        BY <2>1, <3>1, <1>b, PredictedIdIsFree DEF UsedId
      <3>3. \A m \in Msgs : InHand(m) => InHand(m)' \/ m = cur[w]
        BY <2>1, <3>1, <1>a DEF InHand, HandTypes
      <3>4. cur[w] \in Msgs
        BY <2>1 DEF LocalsInv, Carrying, FirstDelivery
      <3>5. \A m \in Msgs : InFlight(m) \/ m = cur[w] => InFlight(m)'
        BY <3>1, <3>2, <3>4, <1>b DEF InFlight, DeliveryTypes
      <3>6. \A m \in Msgs : Queued(m) => Queued(m)'
        BY <2>1 DEF Queued
      <3>7. QED
        BY <2>1, <3>3, <3>5, <3>6, KeptKeeps DEF Kept
    <2>4. QED
      BY <2>2, <2>3

  <1>16. ASSUME NEW w \in Workers, DequeuePublish(w) PROVE AllKept'
    BY <1>16, <1>a, KeptInHand DEF HandTypes, FirstDelivery, Enqueuing, DequeuePublish
  <1>17. ASSUME NEW w \in Workers, DequeueEnd(w) PROVE AllKept'
    BY <1>17, <1>a, KeptInHand DEF HandTypes, FirstDelivery, Enqueuing, DequeueEnd
  <1>18. ASSUME NEW w \in Workers, SetPubrecStatus(w) PROVE AllKept'
    BY <1>18, <1>a, KeptInHand DEF HandTypes, FirstDelivery, Enqueuing, SetPubrecStatus
  <1>19. ASSUME NEW w \in Workers, RetryRelease(w) PROVE AllKept'
    BY <1>19, <1>a, KeptInHand DEF HandTypes, FirstDelivery, Enqueuing, RetryRelease
  <1>20. ASSUME NEW w \in Workers, RetryTake(w) PROVE AllKept'
    BY <1>20, <1>a, KeptInHand DEF HandTypes, FirstDelivery, Enqueuing, RetryTake
  <1>21. ASSUME NEW w \in Workers, RetryPut(w) PROVE AllKept'
    <2>1. pc[w] = "rtPut" /\ UNCHANGED <<turn, queue, acked, dropped>> /\ connected
      BY <1>21 DEF RetryPut
    <2>2. inflights' = [[inflights EXCEPT ![old[w]] = None] EXCEPT ![NextMessageId] = cur[w]]
          /\ pc' = [pc EXCEPT ![w] = "rtPub"] /\ UNCHANGED cur
      BY <1>21, <2>1 DEF RetryPut
    <2>3. NextMessageId \in Ids /\ inflights[NextMessageId] = None
      BY <2>1, <1>b, PredictedIdIsFree DEF UsedId
    <2>4. cur[w] \in Msgs /\ old[w] \in Ids /\ mid[cur[w]] = old[w]
      BY <2>1 DEF LocalsInv, Carrying, Retrying, Timers
    <2>5. inflights[old[w]] \in {None, cur[w]}
      BY <2>4, <1>b DEF Keys, DeliveryTypes
    <2>6. inflights'[NextMessageId] = cur[w]
          /\ \A i \in Ids : i # NextMessageId /\ i # old[w] => inflights'[i] = inflights[i]
      BY <2>2, <2>3, <2>4, <1>b DEF DeliveryTypes
    <2>7. \A m \in Msgs : InFlight(m) => InFlight(m)'
      BY <2>3, <2>5, <2>6 DEF InFlight
    <2>8. \A m \in Msgs : InHand(m) => InHand(m)'
      BY <2>1, <2>2, <1>a DEF InHand, HandTypes, FirstDelivery, Enqueuing
    <2>9. \A m \in Msgs : Queued(m) => Queued(m)'
      BY <2>1 DEF Queued
    <2>10. QED
      BY <2>1, <2>7, <2>8, <2>9, KeptKeeps DEF Kept

  <1>22. ASSUME NEW w \in Workers, RetryPublish(w) PROVE AllKept'
    BY <1>22, <1>a, KeptInHand DEF HandTypes, FirstDelivery, Enqueuing, RetryPublish
  <1>23. ASSUME NEW w \in Workers, NEW p \in wire, ReceivePuback(w, p) \/ ReceivePubcomp(w, p)
                PROVE AllKept'
    <2>1. pc[w] = "idle" /\ pc' = [pc EXCEPT ![w] = "dqTake"] /\ UNCHANGED <<turn, queue, cur,
            dropped>>
          /\ inflights' = [inflights EXCEPT ![p.id] = None] /\ acked' = acked \cup {p.msg}
      BY <1>23 DEF ReceivePuback, ReceivePubcomp, RemoveInflight
    <2>2. \A m \in Msgs : InFlight(m) => InFlight(m)' \/ m \in acked'
      BY <2>1, <1>b DEF InFlight, Answers, DeliveryTypes
    <2>3. \A m \in Msgs : InHand(m) => InHand(m)'
      BY <2>1, <1>a DEF InHand, HandTypes, FirstDelivery, Enqueuing
    <2>4. \A m \in Msgs : Queued(m) => Queued(m)'
      BY <2>1 DEF Queued
    <2>5. QED
      BY <2>1, <2>2, <2>3, <2>4, KeptKeeps DEF Kept

  <1>24. ASSUME NEW w \in Workers, NEW p \in wire, ReceivePubrec(w, p) PROVE AllKept'
    BY <1>24, <1>a, KeptInHand DEF HandTypes, FirstDelivery, Enqueuing, ReceivePubrec
  <1>25. ASSUME NEW w \in Workers, NEW i \in Ids, Retry(w, i) PROVE AllKept'
    <2>1. pc[w] = "idle" /\ UNCHANGED <<turn, queue, acked>>
      BY <1>25 DEF Retry
    <2>2. dropped \subseteq dropped'
          /\ (inflights' = inflights \/ (inflights' = [inflights EXCEPT ![i] = None]
               /\ inflights[i] \in dropped'))
      BY <1>25 DEF Retry
    <2>3. \A m \in Msgs : InFlight(m) => InFlight(m)' \/ m \in dropped'
      BY <2>2, <1>b DEF InFlight, DeliveryTypes
    <2>4. \A v \in Workers : pc[v] \in FirstDelivery => pc'[v] \in FirstDelivery /\ cur'[v] = cur[v]
      BY <1>25, <1>a DEF Retry, HandTypes, FirstDelivery, Enqueuing
    <2>5. \A m \in Msgs : InHand(m) => InHand(m)'
      BY <2>4 DEF InHand
    <2>6. \A m \in Msgs : Queued(m) => Queued(m)'
      BY <2>1 DEF Queued
    <2>7. QED
      BY <2>1, <2>2, <2>3, <2>5, <2>6, KeptKeeps DEF Kept

  <1>26. ASSUME NEW i \in Ids, Expire(i) PROVE AllKept'
    BY <1>26, <1>a, KeptInHand DEF HandTypes, FirstDelivery, Enqueuing, Expire, workerVars,
       historyVars
  <1>27. CASE Disconnect
    BY <1>27, <1>a, KeptInHand DEF HandTypes, FirstDelivery, Enqueuing, Disconnect
  <1>28. CASE UNCHANGED vars
    BY <1>28 DEF vars, sharedVars, workerVars, historyVars, HandTypes, FirstDelivery, Enqueuing,
       AllKept, Kept, InHand, Queued, InFlight
  <1>29. QED
    BY <1>1, <1>2, <1>3, <1>4, <1>5, <1>6, <1>7, <1>8, <1>9, <1>10, <1>11, <1>12, <1>13, <1>14,
       <1>15, <1>16, <1>17, <1>18, <1>19, <1>20, <1>21, <1>22, <1>23, <1>24, <1>25, <1>26,
       <1>27, <1>28 DEF Next, WorkerStep, ReceiveAnswer, Quiet

-----------------------------------------------------------------------------
(* The inductive invariant and the theorems *)

DeliverySafe ==
    /\ TypeOK /\ ControlInv /\ LockInv
    /\ HandInv /\ Qos0Inv /\ OvershootInv
    /\ DeliveryInv
    /\ NoSilentLoss

\* The invariant holds of a new session.
LEMMA SafeInit == Init => DeliverySafe
  <1> SUFFICES ASSUME Init PROVE DeliverySafe
    OBVIOUS
  <1>1. TypeOK /\ ControlInv /\ LockInv
    BY CoreInit
  <1>2. HandInv
    BY DEF Init, HandInv, FirstDelivery, Enqueuing, Retrying
  <1>3. Qos0Inv
    BY DEF Init, Qos0Inv
  <1>4. OvershootInv
    <2>1. Adding = {} /\ Len(queue) = 0
      BY DEF Init, Adding
    <2>2. Cardinality(Workers) \in Nat
      BY FS_CardinalityType
    <2>3. Cardinality(Adding) = 0
      BY <2>1, FS_EmptySet
    <2>4. QED
      BY <2>1, <2>2, <2>3 DEF OvershootInv
  <1>5. Fresh /\ Keys /\ Timers /\ Answers /\ Transmits
    <2>1. Fresh
      BY DEF Init, Fresh, UsedId
    <2>2. Keys /\ Timers /\ Answers
      BY DEF Init, Keys, Timers, Answers, Retrying
    <2>3. \A m \in Msgs : ~Pending(m)
      BY DEF Init, Pending, PublishPending
    <2>4. Transmits
      BY <2>3 DEF Init, Transmits
    <2>5. QED
      BY <2>1, <2>2, <2>4
  <1>6. Window
    <2>1. Unacked = {}
      BY DEF Init, Unacked, InflightIds
    <2>2. Cardinality(Unacked) = 0
      BY <2>1, FS_EmptySet
    <2>3. QED
      BY <2>2 DEF Window
  <1>7. NoSilentLoss
    BY DEF Init, NoSilentLoss
  <1>8. QED
    BY <1>1, <1>2, <1>3, <1>4, <1>5, <1>6, <1>7 DEF DeliverySafe, DeliveryInv

\* Every step preserves the invariant.
LEMMA SafeStep == DeliverySafe /\ [Next]_vars => DeliverySafe'
  <1> SUFFICES ASSUME DeliverySafe, [Next]_vars PROVE DeliverySafe'
    OBVIOUS
  <1> USE DEF ControlInv
  <1>1. TypeOK /\ LocalsInv /\ EntriesInv /\ LockInv /\ HandInv /\ Qos0Inv
    BY DEF DeliverySafe
  <1>2. TypeOK' /\ ControlInv' /\ LockInv'
    BY <1>1, CoreStep
  <1>3. HandInv' /\ Qos0Inv'
    BY <1>1, HandStep, Qos0Step
  <1>4. OvershootInv'
    BY <1>1, OvershootStep DEF DeliverySafe
  <1>5. DeliveryNext /\ DeliveryTypes
    BY <1>1, StepKinds, DeliveryTypesOK
  <1>6. IdsUnused' => IdsUnused /\ Fresh /\ Keys /\ Timers /\ Answers /\ Transmits /\ Window
    BY <1>5, UnusedBefore DEF DeliverySafe, DeliveryInv
  <1>7. DeliveryInv'
    <2> SUFFICES ASSUME IdsUnused'
                 PROVE  (Fresh /\ Keys /\ Timers /\ Answers /\ Transmits /\ Window)'
      BY DEF DeliveryInv
    <2>1. Fresh'
      BY <1>1, <1>5, <1>6, FreshStep
    <2>2. Keys'
      BY <1>1, <1>5, <1>6, KeysStep
    <2>3. Timers'
      BY <1>1, <1>5, <1>6, TimersStep
    <2>4. Answers'
      BY <1>1, <1>5, <1>6, AnswersStep
    <2>5. Transmits'
      BY <1>1, <1>5, <1>6, TransmitsStep
    <2>6. Window'
      BY <1>1, <1>6, WindowStep
    <2>7. QED
      BY <2>1, <2>2, <2>3, <2>4, <2>5, <2>6
  <1>8. NoSilentLoss'
    <2> SUFFICES ASSUME connected', IdsUnused'
                 PROVE  AllKept'
      BY DEF NoSilentLoss, AllKept, Kept
    <2>1. connected
      BY <1>5 DEF DeliveryNext, DeliveryStep, Still, Sent, Filed, Refiled, RetryPut,
         SetPubrecStatus,
         RetryRelease, ReceivePubrec, RemoveInflight, Retry, Expire
    <2>2. AllKept
      BY <1>6, <2>1 DEF DeliverySafe, NoSilentLoss, AllKept, Kept
    <2>3. QED
      BY <1>1, <1>6, <2>1, <2>2, KeptStep
  <1>9. QED
    BY <1>2, <1>3, <1>4, <1>7, <1>8 DEF DeliverySafe

\* An entry of `inflights' is always filed under the id its message object
\* carries, for any number of workers, messages and retries: retryInflight finds
\* the entry it replaces.
THEOREM EntryUnderOwnId == Spec => []KeyMatchesMessage
  <1>1. DeliverySafe => KeyMatchesMessage
    BY DEF DeliverySafe, DeliveryInv, KeyMatchesMessage, Keys, InflightIds
  <1>2. QED
    BY <1>1, SafeInit, SafeStep, PTL DEF Spec

\* receivePuback, receivePubrec and receivePubcomp touch no other message than the
\* one the client answers, whatever ids QoS 0 publishes consume in between.
THEOREM AnswersReachOwnMessage == Spec => []AckHitsOwnMessage
  <1>1. DeliverySafe => AckHitsOwnMessage
    BY DEF DeliverySafe, DeliveryInv, AckHitsOwnMessage, Answers
  <1>2. QED
    BY <1>1, SafeInit, SafeStep, PTL DEF Spec

\* No race of timers, retries and late answers makes the session transmit a
\* QoS 1 or QoS 2 message more often than once and its retries.
THEOREM TransmissionsBounded == Spec => []TransmitBound
  <1>1. DeliverySafe => TransmitBound
    <2> SUFFICES ASSUME DeliverySafe, IdsUnused, NEW m \in Msgs, Qos[m] > 0
                 PROVE  sends[m] <= 1 + MaxRetries
      BY DEF TransmitBound
    <2>1. sends[m] + (IF Pending(m) THEN 1 ELSE 0) <= (IF mid[m] = 0 THEN 0 ELSE 1) + retry[m]
          /\ retry[m] <= MaxRetries
      BY DEF DeliverySafe, DeliveryInv, Transmits
    <2>2. sends[m] \in Nat /\ retry[m] \in Nat
      BY DEF DeliverySafe, TypeOK, EndpointTypes, ObjectTypes
    <2>3. QED
      BY <2>1, <2>2
  <1>2. QED
    BY <1>1, SafeInit, SafeStep, PTL DEF Spec

\* The messages the client has not confirmed fit in the inflight window, however
\* many workers file, retry and acknowledge at the same time.
THEOREM WindowHolds == Spec => []UnackedWithinCapacity
  <1>1. DeliverySafe => UnackedWithinCapacity
    BY DEF DeliverySafe, DeliveryInv, UnackedWithinCapacity, Window, Unacked
  <1>2. QED
    BY <1>1, SafeInit, SafeStep, PTL DEF Spec

\* While the client is connected every QoS 1 or QoS 2 message taken is in the
\* hands of a worker, queued, inflight, confirmed or counted as dropped.
THEOREM NothingLostSilently == Spec => []NoSilentLoss
  <1>1. DeliverySafe => NoSilentLoss
    BY DEF DeliverySafe
  <1>2. QED
    BY <1>1, SafeInit, SafeStep, PTL DEF Spec

\* addExt overruns the capacity of the queue by less than one message per worker.
THEOREM OvershootIsBounded == Spec => []QueueOvershootBounded
  <1>1. DeliverySafe => QueueOvershootBounded
    <2> SUFFICES ASSUME DeliverySafe, QueueMax > 0
                 PROVE  Len(queue) <= QueueMax + Cardinality(Workers) - 1
      BY DEF QueueOvershootBounded
    <2>1. Len(queue) + Cardinality(Adding) <= QueueMax + Cardinality(Workers) - 1
      BY DEF DeliverySafe, OvershootInv
    <2>2. Len(queue) \in Nat
      BY DEF DeliverySafe, TypeOK
    <2>3. QED
      BY <2>1, <2>2, AddingSize
  <1>2. QED
    BY <1>1, SafeInit, SafeStep, PTL DEF Spec

-----------------------------------------------------------------------------
(* One worker: the queue drains, and first transmissions keep their order.  *)
(* Two workers break both: the one that fails to take queueCas goes away,   *)
(* and two that hold a message each may publish in either order.            *)

\* The handlers of the client run one after the other.
OneWorker == \A v, w \in Workers : v = w

\* The worker has still to make the last test of the queue.
WillDequeue(w) ==
    \/ pc[w] \in {"dqTake"} \cup (QueueSection \ {"dqEnd"}) \cup Enqueuing
    \/ pc[w] \in {"handle", "pub0", "inTake", "inPut", "inPub"} /\ enqueued[w]

\* A message that is sent at once finds no other waiting.
AtOnce == \A w \in Workers : pc[w] \in {"inTake", "inPut", "inPub"} => queue = <<>>

\* The entry to be retried is where it was found.
Refinds == IdsUnused => \A w \in Workers : pc[w] \in Retrying => inflights[old[w]] = cur[w]

\* Whenever a message could be sent from the queue, the worker is about to.
Drains ==
    IdsUnused /\ connected /\ queue # <<>> /\ ~IsInflightFull => \E w \in Workers : WillDequeue(w)

\* queueCas is taken only by a worker inside dequeue().
CasOwned == queueCas = 1 => \E w \in Workers : pc[w] \in QueueSection

DrainInv == AtOnce /\ Refinds /\ Drains /\ CasOwned

\* The types of what DrainInv is about.
DrainTypes ==
    /\ pc \in [Workers -> Places]
    /\ cur \in [Workers -> Msgs \cup {None}]
    /\ old \in [Workers -> 0..MaxMessageId]
    /\ enqueued \in [Workers -> BOOLEAN]
    /\ inflights \in [Ids -> Msgs \cup {None}]
    /\ queueCas \in {0, 1}
    /\ mid \in [Msgs -> 0..MaxMessageId]
    /\ queue \in Seq(Msgs)

\* TypeOK gives them.
LEMMA DrainTypesOK == TypeOK => DrainTypes
  BY DEF TypeOK, DrainTypes, WorkerTypes, InflightTypes, LockTypes, ObjectTypes

\* Whether the window is full depends on the entries alone.
LEMMA FullKeeps ==
    ASSUME inflights' = inflights PROVE IsInflightFull' <=> IsInflightFull
  BY DEF IsInflightFull, InflightIds

\* A message sent at once finds no other waiting: one worker, one test.
LEMMA AtOnceStep ==
    ASSUME OneWorker, DrainTypes, AtOnce, [Next]_vars
    PROVE  AtOnce'
  <1> USE DEF DrainTypes, OneWorker, AtOnce
  <1>1. ASSUME NEW w \in Workers, NEW S \in Batches, PublishMessage(w, S) PROVE AtOnce'
    BY <1>1 DEF PublishMessage
  <1>2. ASSUME NEW w \in Workers, HandleMessage(w) PROVE AtOnce'
    BY <1>2 DEF HandleMessage, MustQueue
  <1>3. ASSUME NEW w \in Workers, PublishQos0(w) PROVE AtOnce'
    BY <1>3 DEF PublishQos0, AfterMessage
  <1>4. ASSUME NEW w \in Workers, EnqueueSize(w) PROVE AtOnce'
    BY <1>4 DEF EnqueueSize
  <1>5. ASSUME NEW w \in Workers, EnqueuePoll(w) PROVE AtOnce'
    BY <1>5 DEF EnqueuePoll
  <1>6. ASSUME NEW w \in Workers, EnqueueAdd(w) PROVE AtOnce'
    BY <1>6 DEF EnqueueAdd, AfterMessage
  <1>7. ASSUME NEW w \in Workers, InflightTake(w) PROVE AtOnce'
    BY <1>7 DEF InflightTake
  <1>8. ASSUME NEW w \in Workers, InflightPut(w) PROVE AtOnce'
    BY <1>8 DEF InflightPut, MustQueue
  <1>9. ASSUME NEW w \in Workers, InflightPublish(w) PROVE AtOnce'
    BY <1>9 DEF InflightPublish, AfterMessage
  <1>10. ASSUME NEW w \in Workers, DequeueTake(w) PROVE AtOnce'
    BY <1>10 DEF DequeueTake
  <1>11. ASSUME NEW w \in Workers, DequeueCheck(w) PROVE AtOnce'
    BY <1>11 DEF DequeueCheck
  <1>12. ASSUME NEW w \in Workers, DequeueTakeInflight(w) PROVE AtOnce'
    BY <1>12 DEF DequeueTakeInflight
  <1>13. ASSUME NEW w \in Workers, DequeuePoll(w) PROVE AtOnce'
    BY <1>13 DEF DequeuePoll
  <1>14. ASSUME NEW w \in Workers, DequeuePublishQos0(w) PROVE AtOnce'
    BY <1>14 DEF DequeuePublishQos0, BreakDequeue
  <1>15. ASSUME NEW w \in Workers, DequeuePut(w) PROVE AtOnce'
    BY <1>15 DEF DequeuePut, BreakDequeue
  <1>16. ASSUME NEW w \in Workers, DequeuePublish(w) PROVE AtOnce'
    BY <1>16 DEF DequeuePublish
  <1>17. ASSUME NEW w \in Workers, DequeueEnd(w) PROVE AtOnce'
    BY <1>17 DEF DequeueEnd
  <1>18. ASSUME NEW w \in Workers, SetPubrecStatus(w) PROVE AtOnce'
    BY <1>18 DEF SetPubrecStatus
  <1>19. ASSUME NEW w \in Workers, RetryRelease(w) PROVE AtOnce'
    BY <1>19 DEF RetryRelease
  <1>20. ASSUME NEW w \in Workers, RetryTake(w) PROVE AtOnce'
    BY <1>20 DEF RetryTake
  <1>21. ASSUME NEW w \in Workers, RetryPut(w) PROVE AtOnce'
    BY <1>21 DEF RetryPut
  <1>22. ASSUME NEW w \in Workers, RetryPublish(w) PROVE AtOnce'
    BY <1>22 DEF RetryPublish
  <1>23. ASSUME NEW w \in Workers, NEW p \in wire, ReceivePuback(w, p) \/ ReceivePubcomp(w, p)
         PROVE  AtOnce'
    BY <1>23 DEF ReceivePuback, ReceivePubcomp, RemoveInflight
  <1>24. ASSUME NEW w \in Workers, NEW p \in wire, ReceivePubrec(w, p) PROVE AtOnce'
    BY <1>24 DEF ReceivePubrec
  <1>25. ASSUME NEW w \in Workers, NEW i \in Ids, Retry(w, i) PROVE AtOnce'
    BY <1>25 DEF Retry
  <1>26. ASSUME NEW i \in Ids, Expire(i) PROVE AtOnce'
    BY <1>26 DEF Expire, workerVars
  <1>27. CASE Disconnect
    BY <1>27 DEF Disconnect
  <1>28. CASE UNCHANGED vars
    BY <1>28 DEF vars, sharedVars, workerVars
  <1>29. QED
    BY <1>1, <1>2, <1>3, <1>4, <1>5, <1>6, <1>7, <1>8, <1>9, <1>10, <1>11, <1>12, <1>13, <1>14,
       <1>15, <1>16, <1>17, <1>18, <1>19, <1>20, <1>21, <1>22, <1>23, <1>24, <1>25, <1>26,
       <1>27, <1>28 DEF Next, WorkerStep, ReceiveAnswer, Quiet

\* Whoever finds queueCas taken finds a worker inside dequeue().
LEMMA CasOwnedStep ==
    ASSUME OneWorker, DrainTypes, CasOwned, [Next]_vars
    PROVE  CasOwned'
  <1> USE DEF DrainTypes, OneWorker, CasOwned, QueueSection
  <1>1. ASSUME NEW w \in Workers, NEW S \in Batches, PublishMessage(w, S) PROVE CasOwned'
    BY <1>1 DEF PublishMessage
  <1>2. ASSUME NEW w \in Workers, HandleMessage(w) PROVE CasOwned'
    BY <1>2 DEF HandleMessage, MustQueue
  <1>3. ASSUME NEW w \in Workers, PublishQos0(w) PROVE CasOwned'
    BY <1>3 DEF PublishQos0, AfterMessage
  <1>4. ASSUME NEW w \in Workers, EnqueueSize(w) PROVE CasOwned'
    BY <1>4 DEF EnqueueSize
  <1>5. ASSUME NEW w \in Workers, EnqueuePoll(w) PROVE CasOwned'
    BY <1>5 DEF EnqueuePoll
  <1>6. ASSUME NEW w \in Workers, EnqueueAdd(w) PROVE CasOwned'
    BY <1>6 DEF EnqueueAdd, AfterMessage, ReleaseInflightCas
  <1>7. ASSUME NEW w \in Workers, InflightTake(w) PROVE CasOwned'
    BY <1>7 DEF InflightTake
  <1>8. ASSUME NEW w \in Workers, InflightPut(w) PROVE CasOwned'
    BY <1>8 DEF InflightPut, MustQueue
  <1>9. ASSUME NEW w \in Workers, InflightPublish(w) PROVE CasOwned'
    BY <1>9 DEF InflightPublish, AfterMessage
  <1>10. ASSUME NEW w \in Workers, DequeueTake(w) PROVE CasOwned'
    BY <1>10 DEF DequeueTake
  <1>11. ASSUME NEW w \in Workers, DequeueCheck(w) PROVE CasOwned'
    BY <1>11 DEF DequeueCheck, MustStop
  <1>12. ASSUME NEW w \in Workers, DequeueTakeInflight(w) PROVE CasOwned'
    BY <1>12 DEF DequeueTakeInflight
  <1>13. ASSUME NEW w \in Workers, DequeuePoll(w) PROVE CasOwned'
    BY <1>13 DEF DequeuePoll, MustStop
  <1>14. ASSUME NEW w \in Workers, DequeuePublishQos0(w) PROVE CasOwned'
    BY <1>14 DEF DequeuePublishQos0, BreakDequeue
  <1>15. ASSUME NEW w \in Workers, DequeuePut(w) PROVE CasOwned'
    BY <1>15 DEF DequeuePut, BreakDequeue
  <1>16. ASSUME NEW w \in Workers, DequeuePublish(w) PROVE CasOwned'
    BY <1>16 DEF DequeuePublish
  <1>17. ASSUME NEW w \in Workers, DequeueEnd(w) PROVE CasOwned'
    BY <1>17 DEF DequeueEnd
  <1>18. ASSUME NEW w \in Workers, SetPubrecStatus(w) PROVE CasOwned'
    BY <1>18 DEF SetPubrecStatus
  <1>19. ASSUME NEW w \in Workers, RetryRelease(w) PROVE CasOwned'
    BY <1>19 DEF RetryRelease
  <1>20. ASSUME NEW w \in Workers, RetryTake(w) PROVE CasOwned'
    BY <1>20 DEF RetryTake
  <1>21. ASSUME NEW w \in Workers, RetryPut(w) PROVE CasOwned'
    BY <1>21 DEF RetryPut
  <1>22. ASSUME NEW w \in Workers, RetryPublish(w) PROVE CasOwned'
    BY <1>22 DEF RetryPublish
  <1>23. ASSUME NEW w \in Workers, NEW p \in wire, ReceivePuback(w, p) \/ ReceivePubcomp(w, p)
         PROVE  CasOwned'
    BY <1>23 DEF ReceivePuback, ReceivePubcomp, RemoveInflight
  <1>24. ASSUME NEW w \in Workers, NEW p \in wire, ReceivePubrec(w, p) PROVE CasOwned'
    BY <1>24 DEF ReceivePubrec
  <1>25. ASSUME NEW w \in Workers, NEW i \in Ids, Retry(w, i) PROVE CasOwned'
    BY <1>25 DEF Retry
  <1>26. ASSUME NEW i \in Ids, Expire(i) PROVE CasOwned'
    BY <1>26 DEF Expire, workerVars, historyVars
  <1>27. CASE Disconnect
    BY <1>27 DEF Disconnect
  <1>28. CASE UNCHANGED vars
    BY <1>28 DEF vars, sharedVars, workerVars, historyVars
  <1>29. QED
    BY <1>1, <1>2, <1>3, <1>4, <1>5, <1>6, <1>7, <1>8, <1>9, <1>10, <1>11, <1>12, <1>13, <1>14,
       <1>15, <1>16, <1>17, <1>18, <1>19, <1>20, <1>21, <1>22, <1>23, <1>24, <1>25, <1>26,
       <1>27, <1>28 DEF Next, WorkerStep, ReceiveAnswer, Quiet

\* Nothing removes the entry a single worker retries.
LEMMA RefindsStep ==
    ASSUME OneWorker, DrainTypes, Refinds, DeliverySafe, [Next]_vars
    PROVE  Refinds'
  <1>a. DeliveryNext /\ DeliveryTypes
    BY StepKinds, DeliveryTypesOK DEF DeliverySafe
  <1> SUFFICES ASSUME IdsUnused'
               PROVE  \A w \in Workers : pc'[w] \in Retrying => inflights'[old'[w]] = cur'[w]
    BY DEF Refinds
  <1>b. \A w \in Workers : pc[w] \in Retrying => inflights[old[w]] = cur[w]
    BY <1>a, UnusedBefore DEF Refinds
  <1>c. \A i \in Ids : inflights[i] # None => mid[inflights[i]] = i
    BY <1>a, UnusedBefore DEF DeliverySafe, DeliveryInv, Keys
  <1> DEFINE Found == \A w \in Workers : pc'[w] \in Retrying => inflights'[old'[w]] = cur'[w]
  <1>1. CASE Still
    BY <1>1, <1>b DEF Still
  <1>2. ASSUME NEW w \in Workers, Sent(w) PROVE Found
    BY <1>2, <1>b DEF Sent, Rest, OneWorker, Special
  <1>3. ASSUME NEW w \in Workers, Filed(w) PROVE Found
    BY <1>3, <1>b DEF Filed, Rest, OneWorker, Retrying
  <1>4. ASSUME NEW w \in Workers, Refiled(w) PROVE Found
    BY <1>4, <1>b DEF Refiled, RetryPut, OneWorker, Retrying, DrainTypes
  <1>5. ASSUME NEW w \in Workers, SetPubrecStatus(w) \/ RetryRelease(w) PROVE Found
    BY <1>5, <1>b DEF SetPubrecStatus, RetryRelease, OneWorker, Retrying, DrainTypes
  <1>6. ASSUME NEW w \in Workers, NEW p \in wire, ReceivePubrec(w, p) PROVE Found
    BY <1>6, <1>b DEF ReceivePubrec, OneWorker, Retrying, DrainTypes
  <1>7. ASSUME NEW w \in Workers, NEW p \in wire, pc[w] = "idle", RemoveInflight(w, p) PROVE Found
    BY <1>7, <1>b DEF RemoveInflight, OneWorker, Retrying, DrainTypes
  <1>8. ASSUME NEW w \in Workers, NEW i \in Ids, Retry(w, i) PROVE Found
    BY <1>8, <1>b, <1>c DEF Retry, OneWorker, Retrying, DrainTypes
  <1>9. ASSUME NEW i \in Ids, Expire(i) PROVE Found
    BY <1>9, <1>b DEF Expire, workerVars
  <1>10. QED
    BY <1>a, <1>1, <1>2, <1>3, <1>4, <1>5, <1>6, <1>7, <1>8, <1>9 DEF DeliveryNext, DeliveryStep

\* A message that is filed again takes the place it leaves.
LEMMA FullRefiled ==
    ASSUME OneWorker, DeliverySafe, DrainTypes, Refinds, IdsUnused, connected,
           NEW w \in Workers, RetryPut(w)
    PROVE  IsInflightFull => IsInflightFull'
  <1>1. cur[w] \in Msgs /\ old[w] \in Ids /\ inflights[old[w]] = cur[w]
    BY DEF RetryPut, DeliverySafe, ControlInv, LocalsInv, Carrying, Retrying, Refinds
  <1>2. NextMessageId \in Ids /\ inflights[NextMessageId] = None
    <2>1. DeliveryTypes
      BY DeliveryTypesOK DEF DeliverySafe
    <2>2. NextMessageId \in Ids /\ ~UsedId(NextMessageId)
      BY <2>1, PredictedIdIsFree DEF DeliverySafe, DeliveryInv, RetryPut
    <2>3. QED
      BY <2>2 DEF UsedId
  <1>3. inflights' = [[inflights EXCEPT ![old[w]] = None] EXCEPT ![NextMessageId] = cur[w]]
    BY DEF RetryPut
  <1> DEFINE O == InflightIds \ {old[w]}
  <1>4. old[w] \in InflightIds /\ NextMessageId \notin O
    BY <1>1, <1>2 DEF InflightIds
  <1>5. InflightIds' = O \cup {NextMessageId}
    BY <1>1, <1>2, <1>3 DEF InflightIds, DrainTypes
  <1>6. IsFiniteSet(InflightIds)
    <2>1. IsFiniteSet(Ids)
      BY FS_Interval
    <2>2. QED
      BY <2>1, FS_Subset DEF InflightIds
  <1> HIDE DEF O
  <1>7. IsFiniteSet(O) /\ Cardinality(O) = Cardinality(InflightIds) - 1
    BY <1>4, <1>6, FS_RemoveElement DEF O
  <1>8. Cardinality(InflightIds') = Cardinality(O) + 1
    BY <1>4, <1>5, <1>7, FS_AddElement
  <1>9. Cardinality(InflightIds') = Cardinality(InflightIds)
    BY <1>6, <1>7, <1>8, FS_CardinalityType
  <1>10. QED
    BY <1>9 DEF IsInflightFull

\* Whatever makes a message of the queue sendable is followed by a dequeue().
LEMMA DrainsStep ==
    ASSUME OneWorker, DrainTypes, DrainInv, DeliverySafe, [Next]_vars
    PROVE  Drains'
  <1> SUFFICES ASSUME IdsUnused', connected', queue' # <<>>, ~IsInflightFull'
               PROVE  \E w \in Workers : WillDequeue(w)'
    BY DEF Drains
  <1> DEFINE Goes == \E w \in Workers : WillDequeue(w)'
  <1>a. IdsUnused
    BY StepKinds, DeliveryTypesOK, UnusedBefore DEF DeliverySafe
  <1>f. queue # <<>> /\ ~IsInflightFull /\ connected => \E w \in Workers : WillDequeue(w)
    BY <1>a DEF DrainInv, Drains
  <1>b. \A w \in Workers : queue # <<>> /\ ~IsInflightFull /\ connected => WillDequeue(w)
    BY <1>a DEF DrainInv, Drains, OneWorker
  <1>c. \A w \in Workers : queueCas = 1 => pc[w] \in QueueSection
    BY DEF DrainInv, CasOwned, OneWorker
  <1>d. \A w \in Workers : pc[w] \in {"inTake", "inPut", "inPub"} => queue = <<>>
    BY DEF DrainInv, AtOnce
  <1>e. inflights' = inflights => ~IsInflightFull
    BY FullKeeps
  <1> USE DEF DrainTypes, WillDequeue, QueueSection, Enqueuing
  <1>1. ASSUME NEW w \in Workers, NEW S \in Batches, PublishMessage(w, S) PROVE Goes
    BY <1>1, <1>a, <1>b, <1>e DEF PublishMessage
  <1>2. ASSUME NEW w \in Workers, HandleMessage(w) PROVE Goes
    <2>1. pc[w] = "handle" /\ UNCHANGED <<connected, queue, inflights, enqueued>>
      BY <1>2 DEF HandleMessage
    <2>2. enqueued[w]
      BY <2>1, <1>b, <1>e
    <2>3. pc'[w] \in {"enqSize", "pub0", "inTake"}
      BY <1>2 DEF HandleMessage
    <2>4. QED
      BY <2>1, <2>2, <2>3
  <1>3. ASSUME NEW w \in Workers, PublishQos0(w) PROVE Goes
    BY <1>3, <1>a, <1>b, <1>e DEF PublishQos0, AfterMessage
  <1>4. ASSUME NEW w \in Workers, EnqueueSize(w) PROVE Goes
    BY <1>4, <1>a, <1>b, <1>e DEF EnqueueSize
  <1>5. ASSUME NEW w \in Workers, EnqueuePoll(w) PROVE Goes
    BY <1>5, <1>a, <1>b, <1>e DEF EnqueuePoll
  <1>6. ASSUME NEW w \in Workers, EnqueueAdd(w) PROVE Goes
    BY <1>6, <1>a, <1>b, <1>e DEF EnqueueAdd, AfterMessage, ReleaseInflightCas
  <1>7. ASSUME NEW w \in Workers, InflightTake(w) PROVE Goes
    BY <1>7, <1>a, <1>b, <1>e DEF InflightTake
  <1>8. ASSUME NEW w \in Workers, InflightPut(w) PROVE Goes
    BY <1>8, <1>a, <1>b, <1>d, <1>e DEF InflightPut
  <1>9. ASSUME NEW w \in Workers, InflightPublish(w) PROVE Goes
    BY <1>9, <1>a, <1>b, <1>e DEF InflightPublish, AfterMessage
  <1>10. ASSUME NEW w \in Workers, DequeueTake(w) PROVE Goes
    BY <1>10, <1>a, <1>b, <1>c, <1>e DEF DequeueTake
  <1>11. ASSUME NEW w \in Workers, DequeueCheck(w) PROVE Goes
    BY <1>11, <1>a, <1>b, <1>e DEF DequeueCheck, MustStop
  <1>12. ASSUME NEW w \in Workers, DequeueTakeInflight(w) PROVE Goes
    BY <1>12, <1>a, <1>b, <1>e DEF DequeueTakeInflight
  <1>13. ASSUME NEW w \in Workers, DequeuePoll(w) PROVE Goes
    BY <1>13, <1>a, <1>b, <1>e DEF DequeuePoll, MustStop
  <1>14. ASSUME NEW w \in Workers, DequeuePublishQos0(w) PROVE Goes
    BY <1>14, <1>a, <1>b, <1>e DEF DequeuePublishQos0, BreakDequeue
  <1>15. ASSUME NEW w \in Workers, DequeuePut(w) PROVE Goes
    BY <1>15, <1>a, <1>b, <1>e DEF DequeuePut, BreakDequeue
  <1>16. ASSUME NEW w \in Workers, DequeuePublish(w) PROVE Goes
    BY <1>16, <1>a, <1>b, <1>e DEF DequeuePublish
  <1>17. ASSUME NEW w \in Workers, DequeueEnd(w) PROVE Goes
    BY <1>17, <1>a, <1>b, <1>e DEF DequeueEnd
  <1>18. ASSUME NEW w \in Workers, SetPubrecStatus(w) PROVE Goes
    BY <1>18, <1>a, <1>b, <1>e DEF SetPubrecStatus
  <1>19. ASSUME NEW w \in Workers, RetryRelease(w) PROVE Goes
    BY <1>19, <1>a, <1>b, <1>e DEF RetryRelease
  <1>20. ASSUME NEW w \in Workers, RetryTake(w) PROVE Goes
    BY <1>20, <1>a, <1>b, <1>e DEF RetryTake
  <1>21. ASSUME NEW w \in Workers, RetryPut(w) PROVE Goes
    <2>1. IsInflightFull => IsInflightFull'
      BY <1>21, <1>a, FullRefiled DEF DrainInv, RetryPut
    <2>2. QED
      BY <1>21, <1>b, <2>1 DEF RetryPut
  <1>22. ASSUME NEW w \in Workers, RetryPublish(w) PROVE Goes
    BY <1>22, <1>a, <1>b, <1>e DEF RetryPublish
  <1>23. ASSUME NEW w \in Workers, NEW p \in wire, ReceivePuback(w, p) \/ ReceivePubcomp(w, p)
         PROVE  Goes
    BY <1>23, <1>a, <1>b, <1>e DEF ReceivePuback, ReceivePubcomp, RemoveInflight
  <1>24. ASSUME NEW w \in Workers, NEW p \in wire, ReceivePubrec(w, p) PROVE Goes
    BY <1>24, <1>a, <1>b, <1>e DEF ReceivePubrec
  <1>25. ASSUME NEW w \in Workers, NEW i \in Ids, Retry(w, i) PROVE Goes
    BY <1>25, <1>a, <1>b, <1>e DEF Retry
  <1>26. ASSUME NEW i \in Ids, Expire(i) PROVE Goes
    BY <1>26, <1>e, <1>f DEF Expire, workerVars, historyVars
  <1>27. CASE Disconnect
    BY <1>27 DEF Disconnect
  <1>28. CASE UNCHANGED vars
    BY <1>28, <1>e, <1>f DEF vars, sharedVars, workerVars, historyVars
  <1>29. QED
    BY <1>1, <1>2, <1>3, <1>4, <1>5, <1>6, <1>7, <1>8, <1>9, <1>10, <1>11, <1>12, <1>13, <1>14,
       <1>15, <1>16, <1>17, <1>18, <1>19, <1>20, <1>21, <1>22, <1>23, <1>24, <1>25, <1>26,
       <1>27, <1>28 DEF Next, WorkerStep, ReceiveAnswer, Quiet
\* DrainInv holds of a new session, and every step of a single worker preserves it.
LEMMA DrainInvariance ==
    ASSUME OneWorker PROVE Spec => [](DeliverySafe /\ DrainInv)
  <1>1. Init => DrainInv
    BY DEF Init, DrainInv, AtOnce, Refinds, Drains, CasOwned, Retrying
  <1>2. DeliverySafe /\ DrainInv /\ [Next]_vars => DrainInv'
    <2> SUFFICES ASSUME DeliverySafe, DrainInv, [Next]_vars PROVE DrainInv'
      OBVIOUS
    <2>1. DrainTypes /\ AtOnce /\ Refinds /\ CasOwned
      BY DrainTypesOK DEF DeliverySafe, DrainInv
    <2>2. QED
      BY <2>1, AtOnceStep, RefindsStep, CasOwnedStep, DrainsStep DEF DrainInv
  <1>3. QED
    BY <1>1, <1>2, SafeInit, SafeStep, PTL DEF Spec

\* A session whose handlers run one after the other never rests with a message in
\* the queue and room in the window.
THEOREM QueueDrains ==
    ASSUME OneWorker PROVE Spec => []NoStranded
  <1>1. DrainInv => NoStranded
    <2> SUFFICES ASSUME DrainInv, IdsUnused, connected, \A w \in Workers : pc[w] = "idle",
                        queue # <<>>
                 PROVE  IsInflightFull
      BY DEF NoStranded
    <2>1. \A w \in Workers : ~WillDequeue(w)
      BY DEF WillDequeue, QueueSection, Enqueuing
    <2>2. QED
      BY <2>1 DEF DrainInv, Drains
  <1>2. QED
    BY <1>1, DrainInvariance, PTL

-----------------------------------------------------------------------------
(* The order of first transmissions, again with one worker *)

\* Places on the way from handleMessage and from the queue to the first publish.
Taking == Enqueuing \cup {"inTake", "inPut", "inPub"}
Draining == {"dqPub0", "dqPut", "dqPub"}
Repeating == Retrying \cup {"rtPub"}

\* A message that is queued or on its way to its first publish.
Waiting(m) ==
    \/ \E j \in DOMAIN queue : queue[j] = m
    \/ \E w \in Workers : pc[w] \in Taking \cup Draining /\ cur[w] = m

\* A message is sent and kept waiting only after it has got its turn.
Turns ==
    /\ \A m \in Msgs : turn[m] <= clock
    /\ \A m \in Msgs : Qos[m] > 0 /\ turn[m] = 0 => sends[m] = 0
    /\ \A w \in Workers : pc[w] \in Taking \cup Draining => turn[cur[w]] # 0

\* The queue is in order, between the message polled from it and the one to be added.
Sorted ==
    /\ \A j, k \in DOMAIN queue : j < k => turn[queue[j]] < turn[queue[k]]
    /\ \A w \in Workers : pc[w] \in Taking =>
         \A j \in DOMAIN queue : turn[queue[j]] < turn[cur[w]]
    /\ \A w \in Workers : pc[w] \in Draining =>
         \A j \in DOMAIN queue : turn[cur[w]] < turn[queue[j]]

\* What has been sent is older than all that waits.
SentBefore ==
    \A b, m \in Msgs : Qos[b] > 0 /\ sends[b] > 0 /\ Waiting(m) => turn[b] < turn[m]

\* What has not been sent waits, or was dropped.
UnsentWaits ==
    \A m \in Msgs : Qos[m] > 0 /\ turn[m] # 0 /\ sends[m] = 0 => Waiting(m) \/ m \in dropped

\* What is inflight has been sent, or is being sent; what is repeated has been sent.
FiledSent ==
    /\ \A i \in Ids : inflights[i] # None =>
         \/ sends[inflights[i]] > 0
         \/ \E w \in Workers : pc[w] \in PublishPending /\ cur[w] = inflights[i]
    /\ \A w \in Workers : pc[w] \in Repeating => sends[cur[w]] > 0

OrderParts == Turns /\ Sorted /\ SentBefore /\ UnsentWaits /\ FiledSent

\* On a closed endpoint messages are filed and polled without being sent.
OrderInv == connected => OrderParts

\* The types of what OrderInv is about.
OrderTypes ==
    /\ pc \in [Workers -> Places]
    /\ cur \in [Workers -> Msgs \cup {None}]
    /\ todo \in [Workers -> SUBSET Msgs]
    /\ inflights \in [Ids -> Msgs \cup {None}]
    /\ turn \in [Msgs -> Nat] /\ clock \in Nat
    /\ sends \in [Msgs -> Nat]
    /\ queue \in Seq(Msgs)
    /\ \A w \in Workers : pc[w] \in Carrying => cur[w] \in Msgs

\* The invariant of the delivery gives them.
LEMMA OrderTypesOK == DeliverySafe => OrderTypes
  BY DEF DeliverySafe, TypeOK, ControlInv, LocalsInv, OrderTypes, WorkerTypes, InflightTypes,
     HistoryTypes, EndpointTypes

\* Nothing is sent, taken or queued; messages may be filed, by a worker on its way to
\* publish them.
Calm ==
    /\ UNCHANGED <<queue, turn, clock, sends>> /\ dropped \subseteq dropped'
    /\ \A i \in Ids : inflights'[i] # None =>
         \/ inflights'[i] = inflights[i]
         \/ \E v \in Workers : pc'[v] \in PublishPending /\ cur'[v] = inflights'[i]
    /\ \A v \in Workers :
         /\ pc[v] \in Taking \/ pc'[v] \in Taking =>
              pc[v] \in Taking /\ pc'[v] \in Taking /\ cur'[v] = cur[v]
         /\ pc[v] \in Draining \/ pc'[v] \in Draining =>
              pc[v] \in Draining /\ pc'[v] \in Draining /\ cur'[v] = cur[v]
         /\ pc[v] \in PublishPending => pc'[v] \in PublishPending /\ cur'[v] = cur[v]
         /\ pc'[v] \in Repeating =>
              \/ pc[v] \in Repeating /\ cur'[v] = cur[v]
              \/ pc[v] = "idle" /\ \E i \in Ids : cur'[v] = inflights[i] /\ inflights[i] # None

\* A calm step keeps the order.
LEMMA CalmKeeps ==
    ASSUME OneWorker, OrderTypes, OrderParts, Calm
    PROVE  OrderParts'
  <1>1. \A m : Waiting(m)' <=> Waiting(m)
    <2>1. queue' = queue /\ \A v \in Workers :
            /\ pc'[v] \in Taking \cup Draining <=> pc[v] \in Taking \cup Draining
            /\ pc[v] \in Taking \cup Draining => cur'[v] = cur[v]
      BY DEF Calm
    <2>2. QED
      BY <2>1 DEF Waiting
  <1>2. Turns'
    BY DEF OrderParts, Turns, Calm
  <1>3. Sorted'
    <2>1. \A v \in Workers :
            /\ pc'[v] \in Taking => pc[v] \in Taking /\ cur'[v] = cur[v]
            /\ pc'[v] \in Draining => pc[v] \in Draining /\ cur'[v] = cur[v]
      BY DEF Calm
    <2>2. queue' = queue /\ turn' = turn
      BY DEF Calm
    <2>3. QED
      BY <2>1, <2>2 DEF OrderParts, Sorted
  <1>4. SentBefore' /\ UnsentWaits'
    <2>1. turn' = turn /\ sends' = sends /\ dropped \subseteq dropped'
      BY DEF Calm
    <2>2. QED
      BY <1>1, <2>1 DEF OrderParts, SentBefore, UnsentWaits
  <1>5. FiledSent'
    <2>1. ASSUME NEW i \in Ids, inflights'[i] # None
          PROVE  \/ sends'[inflights'[i]] > 0
                 \/ \E w \in Workers : pc'[w] \in PublishPending /\ cur'[w] = inflights'[i]
      BY <2>1 DEF Calm, OrderParts, FiledSent
    <2>2. ASSUME NEW v \in Workers, pc'[v] \in Repeating PROVE sends'[cur'[v]] > 0
      <3>1. CASE pc[v] \in Repeating /\ cur'[v] = cur[v]
        BY <3>1 DEF Calm, OrderParts, FiledSent
      <3>2. CASE pc[v] = "idle" /\ \E i \in Ids : cur'[v] = inflights[i] /\ inflights[i] # None
        <4>1. \A w \in Workers : pc[w] \notin PublishPending
          BY <3>2 DEF OneWorker, PublishPending
        <4>2. QED
          BY <3>2, <4>1 DEF Calm, OrderParts, FiledSent
      <3>3. QED
        BY <2>2, <3>1, <3>2 DEF Calm
    <2>3. QED
      BY <2>1, <2>2 DEF FiledSent
  <1>6. QED
    BY <1>2, <1>3, <1>4, <1>5 DEF OrderParts

\* A message that is taken is younger than all before.
LEMMA TakenKeeps ==
    ASSUME OneWorker, OrderTypes, HandInv, OrderParts, NEW w \in Workers, HandleMessage(w)
    PROVE  OrderParts'
  <1>0. PICK m \in todo[w] :
           /\ cur' = [cur EXCEPT ![w] = m]
           /\ turn' = [turn EXCEPT ![m] = clock + 1] /\ clock' = clock + 1
           /\ \/ Qos[m] = 0 /\ \E p \in {"enqSize", "pub0"} : pc' = [pc EXCEPT ![w] = p]
              \/ \E p \in {"enqSize", "inTake"} : pc' = [pc EXCEPT ![w] = p]
    BY Zenon DEF HandleMessage
  <1>1. /\ cur' = [cur EXCEPT ![w] = m]
        /\ turn' = [turn EXCEPT ![m] = clock + 1] /\ clock' = clock + 1
        /\ pc'[w] \in {"enqSize", "inTake"} \/ (pc'[w] = "pub0" /\ Qos[m] = 0)
    BY <1>0 DEF OrderTypes
  <1>2. m \in Msgs /\ turn[m] = 0
    BY DEF HandInv, OrderTypes
  <1>3. pc[w] = "handle" /\ UNCHANGED <<queue, sends, inflights, dropped>>
    BY DEF HandleMessage
  <1>4. \A j \in DOMAIN queue : queue[j] \in Msgs /\ queue[j] # m
          /\ turn'[queue[j]] = turn[queue[j]]
    BY <1>1, <1>2 DEF HandInv, OrderTypes
  <1>5. \A x : Waiting(x)' => x = m \/ (\E j \in DOMAIN queue : queue[j] = x)
    BY <1>1, <1>3 DEF Waiting, OneWorker, OrderTypes
  <1>6. \A x : Waiting(x) => Waiting(x)'
    BY <1>3 DEF Waiting, OneWorker, Taking, Draining, Enqueuing
  <1>7. Turns'
    BY <1>1, <1>2, <1>3 DEF OrderParts, Turns, OneWorker, OrderTypes
  <1>8. Sorted'
    <2>1. \A j \in DOMAIN queue : turn[queue[j]] <= clock
      BY <1>4 DEF OrderParts, Turns
    <2>2. cur'[w] = m /\ pc'[w] \notin Draining /\ turn'[m] = clock + 1
      BY <1>1, <1>2 DEF OrderTypes, Draining
    <2>3. \A j \in DOMAIN queue : turn'[queue[j]] < turn'[m]
      BY <1>4, <2>1, <2>2 DEF OrderTypes
    <2>4. QED
      BY <1>3, <1>4, <2>2, <2>3 DEF OrderParts, Sorted, OneWorker
  <1>9. SentBefore'
    <2> SUFFICES ASSUME NEW b \in Msgs, NEW x \in Msgs, Qos[b] > 0, sends'[b] > 0, Waiting(x)'
                 PROVE  turn'[b] < turn'[x]
      BY DEF SentBefore
    <2>1. b # m /\ turn'[b] = turn[b] /\ turn[b] <= clock
      BY <1>1, <1>2, <1>3 DEF OrderParts, Turns, OrderTypes
    <2>2. CASE x = m
      BY <1>1, <1>2, <2>1, <2>2 DEF OrderTypes
    <2>3. CASE \E j \in DOMAIN queue : queue[j] = x
      BY <1>3, <1>4, <2>1, <2>3 DEF OrderParts, SentBefore, Waiting
    <2>4. QED
      BY <1>5, <2>2, <2>3
  <1>10. UnsentWaits'
    <2> SUFFICES ASSUME NEW x \in Msgs, Qos[x] > 0, turn'[x] # 0, sends'[x] = 0
                 PROVE  Waiting(x)' \/ x \in dropped'
      BY DEF UnsentWaits
    <2>1. CASE x = m
      <3>1. pc'[w] \in Taking /\ cur'[w] = x
        BY <1>1, <2>1 DEF Taking, Enqueuing, OrderTypes
      <3>2. QED
        BY <3>1 DEF Waiting
    <2>2. CASE x # m
      BY <1>1, <1>3, <1>6, <2>2 DEF OrderParts, UnsentWaits, OrderTypes
    <2>3. QED
      BY <2>1, <2>2
  <1>11. FiledSent'
    BY <1>1, <1>3 DEF OrderParts, FiledSent, OneWorker, PublishPending, Repeating, Retrying
  <1>12. QED
    BY <1>7, <1>8, <1>9, <1>10, <1>11 DEF OrderParts

\* Adding the youngest message at the end keeps the queue in order.
LEMMA AddedKeeps ==
    ASSUME OneWorker, OrderTypes, OrderParts, NEW w \in Workers, EnqueueAdd(w)
    PROVE  OrderParts'
  <1>1. /\ pc[w] = "enqAdd" /\ pc'[w] \in {"handle", "dqTake"}
        /\ queue' = Append(queue, cur[w])
        /\ UNCHANGED <<turn, clock, sends, inflights, dropped>>
    BY DEF EnqueueAdd, AfterMessage, OrderTypes
  <1>2. pc[w] \in Taking /\ cur[w] \in Msgs
    BY <1>1 DEF Taking, Enqueuing, OrderTypes, Carrying, FirstDelivery
  <1>3. \A v \in Workers : pc'[v] \notin Taking \cup Draining \cup PublishPending \cup Repeating
                           /\ pc[v] \notin PublishPending
    BY <1>1 DEF OneWorker, Taking, Draining, Enqueuing, PublishPending, Repeating, Retrying
  <1>4. DOMAIN queue' = 1..(Len(queue) + 1) /\ DOMAIN queue = 1..Len(queue) /\ Len(queue) \in Nat
        /\ queue'[Len(queue) + 1] = cur[w] /\ \A j \in 1..Len(queue) : queue'[j] = queue[j]
    BY <1>1, <1>2 DEF OrderTypes
  <1>5. \A m : Waiting(m)' <=> Waiting(m)
    <2>1. \A m : Waiting(m) <=> (\E j \in DOMAIN queue : queue[j] = m) \/ m = cur[w]
      BY <1>2, <1>1 DEF Waiting, OneWorker
    <2>2. \A m : Waiting(m)' <=> \E j \in DOMAIN queue' : queue'[j] = m
      BY <1>3 DEF Waiting
    <2>3. QED
      BY <1>4, <2>1, <2>2
  <1>6. Turns'
    BY <1>1, <1>3 DEF OrderParts, Turns
  <1>7. Sorted'
    <2>1. ASSUME NEW j \in DOMAIN queue', NEW k \in DOMAIN queue', j < k
          PROVE  turn[queue'[j]] < turn[queue'[k]]
      <3>1. j \in 1..Len(queue)
        BY <1>4, <2>1
      <3>2. CASE k = Len(queue) + 1
        BY <1>2, <1>4, <3>1, <3>2 DEF OrderParts, Sorted
      <3>3. CASE k \in 1..Len(queue)
        BY <1>4, <2>1, <3>1, <3>3 DEF OrderParts, Sorted
      <3>4. QED
        BY <1>4, <3>2, <3>3
    <2>2. QED
      BY <1>1, <1>3, <2>1 DEF Sorted
  <1>8. SentBefore' /\ UnsentWaits'
    BY <1>1, <1>5 DEF OrderParts, SentBefore, UnsentWaits
  <1>9. FiledSent'
    BY <1>1, <1>3 DEF OrderParts, FiledSent
  <1>10. QED
    BY <1>6, <1>7, <1>8, <1>9 DEF OrderParts

\* All but the first message are in the rest of the queue.
LEMMA TailRest ==
    ASSUME NEW S, NEW q \in Seq(S), q # <<>>
    PROVE  \A j \in DOMAIN q : j = 1 \/ (j - 1 \in DOMAIN Tail(q) /\ Tail(q)[j - 1] = q[j])
  OBVIOUS

\* The message that makes room is counted as dropped.
LEMMA OverflowKeeps ==
    ASSUME OneWorker, OrderTypes, OrderParts, NEW w \in Workers, EnqueuePoll(w), queue # <<>>
    PROVE  OrderParts'
  <1>1. /\ pc[w] = "enqPoll" /\ pc'[w] = "enqAdd" /\ cur' = cur
        /\ queue' = Tail(queue) /\ dropped' = dropped \cup {Head(queue)}
        /\ UNCHANGED <<turn, clock, sends, inflights>>
    BY DEF EnqueuePoll, OrderTypes
  <1>2. pc[w] \in Taking /\ pc'[w] \in Taking /\ pc[w] \notin Draining /\ pc'[w] \notin Draining
    BY <1>1 DEF Taking, Enqueuing, Draining
  <1>3. \A v \in Workers : pc'[v] \notin PublishPending \cup Repeating
          /\ pc[v] \notin PublishPending
    BY <1>1 DEF OneWorker, PublishPending, Repeating, Retrying
  <1>4. /\ 1 \in DOMAIN queue /\ Head(queue) = queue[1]
        /\ \A j \in DOMAIN queue' : j \in Nat /\ j + 1 \in DOMAIN queue /\ queue'[j] = queue[j + 1]
    BY <1>1, TailFacts DEF OrderTypes
  <1>5. \A j \in DOMAIN queue : j = 1 \/ (j - 1 \in DOMAIN queue' /\ queue'[j - 1] = queue[j])
    BY <1>1, TailRest DEF OrderTypes
  <1>6. \A m : Waiting(m)' => Waiting(m)
    BY <1>1, <1>2, <1>4 DEF Waiting, OneWorker
  <1>7. \A m : Waiting(m) => Waiting(m)' \/ m = Head(queue)
    BY <1>1, <1>2, <1>4, <1>5 DEF Waiting, OneWorker
  <1>8. Turns'
    BY <1>1, <1>2 DEF OrderParts, Turns, OneWorker
  <1>9. Sorted'
    <2>1. ASSUME NEW j \in DOMAIN queue', NEW k \in DOMAIN queue', j < k
          PROVE  turn[queue'[j]] < turn[queue'[k]]
      <3>1. j + 1 < k + 1
        BY <1>4, <2>1
      <3>2. QED
        BY <1>4, <3>1 DEF OrderParts, Sorted
    <2>2. \A j \in DOMAIN queue' : turn[queue'[j]] < turn[cur[w]]
      BY <1>2, <1>4 DEF OrderParts, Sorted
    <2>3. QED
      BY <1>1, <1>2, <2>1, <2>2 DEF Sorted, OneWorker
  <1>10. SentBefore' /\ UnsentWaits'
    BY <1>1, <1>6, <1>7 DEF OrderParts, SentBefore, UnsentWaits
  <1>11. FiledSent'
    BY <1>1, <1>3 DEF OrderParts, FiledSent
  <1>12. QED
    BY <1>8, <1>9, <1>10, <1>11 DEF OrderParts

\* The message polled is the oldest of the queue.
LEMMA FetchedKeeps ==
    ASSUME OneWorker, OrderTypes, HandInv, OrderParts, NEW w \in Workers, DequeuePoll(w), ~MustStop
    PROVE  OrderParts'
  <1>0. queue # <<>>
    BY DEF MustStop
  <1>1. /\ pc[w] = "dqPoll" /\ pc'[w] \in {"dqPub0", "dqPut"} /\ cur'[w] = Head(queue)
        /\ queue' = Tail(queue)
        /\ UNCHANGED <<turn, clock, sends, inflights, dropped>>
    BY DEF DequeuePoll, OrderTypes
  <1>2. pc'[w] \in Draining /\ pc'[w] \notin Taking /\ pc[w] \notin Taking \cup Draining
    BY <1>1 DEF Taking, Enqueuing, Draining
  <1>3. \A v \in Workers : pc'[v] \notin PublishPending \cup Repeating
          /\ pc[v] \notin PublishPending
    BY <1>1 DEF OneWorker, PublishPending, Repeating, Retrying
  <1>4. /\ 1 \in DOMAIN queue /\ Head(queue) = queue[1]
        /\ \A j \in DOMAIN queue' :
             j \in Nat \ {0} /\ j + 1 \in DOMAIN queue /\ queue'[j] = queue[j + 1]
    BY <1>0, <1>1, TailFacts DEF OrderTypes
  <1>5. \A j \in DOMAIN queue : j = 1 \/ (j - 1 \in DOMAIN queue' /\ queue'[j - 1] = queue[j])
    BY <1>0, <1>1, TailRest DEF OrderTypes
  <1>6. \A m : Waiting(m)' <=> Waiting(m)
    <2>1. \A m : Waiting(m) <=> \E j \in DOMAIN queue : queue[j] = m
      BY <1>2 DEF Waiting, OneWorker
    <2>2. \A m : Waiting(m)' <=> (\E j \in DOMAIN queue' : queue'[j] = m) \/ m = queue[1]
      BY <1>1, <1>2, <1>4 DEF Waiting, OneWorker
    <2>3. QED
      BY <1>4, <1>5, <2>1, <2>2
  <1>7. Turns'
    BY <1>1, <1>2, <1>4 DEF OrderParts, Turns, OneWorker, HandInv
  <1>8. Sorted'
    <2>1. ASSUME NEW j \in DOMAIN queue', NEW k \in DOMAIN queue', j < k
          PROVE  turn[queue'[j]] < turn[queue'[k]]
      <3>1. j + 1 < k + 1
        BY <1>4, <2>1
      <3>2. QED
        BY <1>4, <3>1 DEF OrderParts, Sorted
    <2>2. ASSUME NEW j \in DOMAIN queue' PROVE turn[Head(queue)] < turn[queue'[j]]
      <3>1. 1 < j + 1
        BY <1>4
      <3>2. QED
        BY <1>4, <3>1 DEF OrderParts, Sorted
    <2>3. QED
      BY <1>1, <1>2, <2>1, <2>2 DEF Sorted, OneWorker
  <1>9. SentBefore' /\ UnsentWaits'
    BY <1>1, <1>6 DEF OrderParts, SentBefore, UnsentWaits
  <1>10. FiledSent'
    BY <1>1, <1>3 DEF OrderParts, FiledSent
  <1>11. QED
    BY <1>7, <1>8, <1>9, <1>10 DEF OrderParts

\* The worker publishes the message at hand on the open endpoint.
Sending(w) ==
    /\ sends' = [sends EXCEPT ![cur[w]] = @ + 1]
    /\ UNCHANGED <<queue, turn, clock, inflights, dropped>>
    /\ \/ pc[w] \in {"pub0"} \cup PublishPending
          /\ pc'[w] \notin Taking \cup Draining \cup Repeating
       \/ pc[w] = "dqPub0" /\ pc'[w] = "dqPut" /\ cur'[w] = cur[w]

\* A message that is sent is the oldest that waits, or has no QoS, or is sent again.
LEMMA SendingKeeps ==
    ASSUME OneWorker, OrderTypes, AtOnce, Qos0Inv, OrderParts, NEW w \in Workers, Sending(w)
    PROVE  OrderParts'
  <1> DEFINE c == cur[w]
  <1>1. c \in Msgs
    BY DEF Sending, OrderTypes, Carrying, FirstDelivery, PublishPending
  <1>2. UNCHANGED <<queue, turn, clock, inflights, dropped>>
        /\ sends' = [sends EXCEPT ![c] = @ + 1]
    BY DEF Sending
  <1>3. sends'[c] > 0 /\ \A m \in Msgs : sends'[m] >= sends[m] /\ (m # c => sends'[m] = sends[m])
    BY <1>1, <1>2 DEF OrderTypes
  <1>4. \A m \in Msgs : Waiting(m)' => Waiting(m)
    BY <1>2 DEF Sending, Waiting, OneWorker, Draining, Taking
  <1>5. \A m \in Msgs : Waiting(m) => Waiting(m)' \/ m = c
    BY <1>2 DEF Waiting, OneWorker
  <1>6. pc[w] \in {"pub0", "dqPub0"} => Qos[c] = 0
    BY DEF Qos0Inv
  <1> HIDE DEF c
  <1>7. Qos[c] > 0 => pc[w] \in PublishPending /\ turn[c] # 0
    <2>1. Qos[c] > 0 => pc[w] \in PublishPending
      BY <1>6 DEF Sending
    <2>2. pc[w] \in {"inPub", "dqPub"} => turn[c] # 0
      BY DEF OrderParts, Turns, Taking, Draining, c
    <2>3. pc[w] = "rtPub" => sends[c] > 0
      BY DEF OrderParts, FiledSent, Repeating, c
    <2>4. QED
      BY <1>1, <2>1, <2>2, <2>3 DEF PublishPending, OrderParts, Turns, OrderTypes
  <1>8. Turns'
    <2>1. \A m \in Msgs : Qos[m] > 0 /\ turn[m] = 0 => sends'[m] = 0
      BY <1>1, <1>3, <1>7 DEF OrderParts, Turns
    <2>2. \A v \in Workers : pc'[v] \in Taking \cup Draining =>
             cur'[v] = cur[v] /\ pc[v] \in Taking \cup Draining
      BY DEF Sending, OneWorker, Draining, Taking
    <2>3. QED
      BY <1>2, <2>1, <2>2 DEF OrderParts, Turns
  <1>9. Sorted'
    <2>1. \A v \in Workers : pc'[v] \in Taking => FALSE
      BY DEF Sending, OneWorker, Taking, Enqueuing
    <2>2. \A v \in Workers : pc'[v] \in Draining => cur'[v] = cur[v] /\ pc[v] \in Draining
      BY DEF Sending, OneWorker, Draining
    <2>3. QED
      BY <1>2, <2>1, <2>2 DEF OrderParts, Sorted
  <1>10. SentBefore'
    <2> SUFFICES ASSUME NEW b \in Msgs, NEW m \in Msgs, Qos[b] > 0, sends'[b] > 0, Waiting(m)'
                 PROVE  turn[b] < turn[m]
      BY <1>2 DEF SentBefore
    <2>1. CASE sends[b] > 0
      BY <1>4, <2>1 DEF OrderParts, SentBefore
    <2>2. CASE ~(sends[b] > 0)
      <3>1. b = c /\ pc[w] \in {"inPub", "dqPub"}
        BY <1>3, <1>7, <2>2 DEF PublishPending, OrderParts, FiledSent, Repeating, c
      <3>2. PICK j \in DOMAIN queue : queue[j] = m
        BY <1>2, <3>1 DEF Waiting, Sending, OneWorker
      <3>3. pc[w] = "dqPub"
        BY <3>1, <3>2 DEF AtOnce, OrderTypes
      <3>4. QED
        BY <3>1, <3>2, <3>3 DEF OrderParts, Sorted, Draining, c
    <2>3. QED
      BY <2>1, <2>2
  <1>11. UnsentWaits'
    BY <1>1, <1>2, <1>3, <1>5 DEF OrderParts, UnsentWaits
  <1>12. FiledSent'
    <2>1. \A i \in Ids : inflights[i] # None => sends'[inflights[i]] > 0
      <3> SUFFICES ASSUME NEW i \in Ids, inflights[i] # None
                   PROVE  sends'[inflights[i]] > 0
        OBVIOUS
      <3>1. inflights[i] \in Msgs /\ (sends[inflights[i]] > 0 \/ inflights[i] = c)
        BY DEF OrderTypes, OrderParts, FiledSent, OneWorker, c
      <3>2. QED
        BY <1>3, <3>1 DEF OrderTypes
    <2>2. \A v \in Workers : pc'[v] \notin Repeating
      BY DEF Sending, OneWorker, Repeating, Retrying
    <2>3. QED
      BY <1>2, <2>1, <2>2 DEF FiledSent
  <1>13. QED
    BY <1>8, <1>9, <1>10, <1>11, <1>12 DEF OrderParts

\* Every step of a single worker on an open endpoint keeps the order.
LEMMA OrderStep ==
    ASSUME OneWorker, DeliverySafe, AtOnce, OrderInv, [Next]_vars
    PROVE  OrderInv'
  <1> SUFFICES ASSUME connected' PROVE OrderParts'
    BY DEF OrderInv
  <1>a. OrderTypes /\ HandInv /\ Qos0Inv
    BY OrderTypesOK DEF DeliverySafe
  <1>b. connected
    BY StepKinds DEF DeliverySafe, DeliveryNext, DeliveryStep, Still, Sent, Filed, Refiled,
      RetryPut,
       SetPubrecStatus, RetryRelease, ReceivePubrec, RemoveInflight, Retry, Expire
  <1>c. OrderParts
    BY <1>b DEF OrderInv
  <1>d. pc \in [Workers -> Places] /\ cur \in [Workers -> Msgs \cup {None}]
        /\ inflights \in [Ids -> Msgs \cup {None}]
    BY <1>a DEF OrderTypes
  <1> USE <1>a, <1>b, <1>c
  <1>1. ASSUME NEW w \in Workers, NEW S \in Batches, PublishMessage(w, S) PROVE OrderParts'
    <2>1. Calm
      BY <1>1, <1>d
        DEF Calm, Taking, Draining, Repeating, PublishPending, Retrying, Enqueuing, PublishMessage
    <2>2. QED
      BY <2>1, CalmKeeps
  <1>2. ASSUME NEW w \in Workers, HandleMessage(w) PROVE OrderParts'
    BY <1>2, TakenKeeps
  <1>3. ASSUME NEW w \in Workers, PublishQos0(w) PROVE OrderParts'
    <2>1. Sending(w)
      BY <1>3, <1>d
        DEF Sending, Taking, Draining, Repeating, PublishPending, Retrying, Enqueuing,
        PublishQos0, Publish, EndpointPublish, AfterMessage
    <2>2. QED
      BY <2>1, SendingKeeps
  <1>4. ASSUME NEW w \in Workers, EnqueueSize(w) PROVE OrderParts'
    <2>1. Calm
      BY <1>4, <1>d
        DEF Calm, Taking, Draining, Repeating, PublishPending, Retrying, Enqueuing, EnqueueSize
    <2>2. QED
      BY <2>1, CalmKeeps
  <1>5. ASSUME NEW w \in Workers, EnqueuePoll(w) PROVE OrderParts'
    <2>1. CASE queue # <<>>
      BY <1>5, <2>1, OverflowKeeps
    <2>2. CASE queue = <<>>
      <3>1. Calm
        BY <1>5, <2>2, <1>d
          DEF Calm, Taking, Draining, Repeating, PublishPending, Retrying, Enqueuing, EnqueuePoll
      <3>2. QED
        BY <3>1, CalmKeeps
    <2>3. QED
      BY <2>1, <2>2
  <1>6. ASSUME NEW w \in Workers, EnqueueAdd(w) PROVE OrderParts'
    BY <1>6, AddedKeeps
  <1>7. ASSUME NEW w \in Workers, InflightTake(w) PROVE OrderParts'
    <2>1. Calm
      BY <1>7, <1>d
        DEF Calm, Taking, Draining, Repeating, PublishPending, Retrying, Enqueuing, InflightTake
    <2>2. QED
      BY <2>1, CalmKeeps
  <1>8. ASSUME NEW w \in Workers, InflightPut(w) PROVE OrderParts'
    <2>1. Calm
      BY <1>8, <1>d
        DEF Calm, Taking, Draining, Repeating, PublishPending, Retrying, Enqueuing, InflightPut,
        PutInflight
    <2>2. QED
      BY <2>1, CalmKeeps
  <1>9. ASSUME NEW w \in Workers, InflightPublish(w) PROVE OrderParts'
    <2>1. Sending(w)
      BY <1>9, <1>d
        DEF Sending, Taking, Draining, Repeating, PublishPending, Retrying, Enqueuing,
        InflightPublish, Publish, EndpointPublish, AfterMessage
    <2>2. QED
      BY <2>1, SendingKeeps
  <1>10. ASSUME NEW w \in Workers, DequeueTake(w) PROVE OrderParts'
    <2>1. Calm
      BY <1>10, <1>d
        DEF Calm, Taking, Draining, Repeating, PublishPending, Retrying, Enqueuing, DequeueTake
    <2>2. QED
      BY <2>1, CalmKeeps
  <1>11. ASSUME NEW w \in Workers, DequeueCheck(w) PROVE OrderParts'
    <2>1. Calm
      BY <1>11, <1>d
        DEF Calm, Taking, Draining, Repeating, PublishPending, Retrying, Enqueuing, DequeueCheck
    <2>2. QED
      BY <2>1, CalmKeeps
  <1>12. ASSUME NEW w \in Workers, DequeueTakeInflight(w) PROVE OrderParts'
    <2>1. Calm
      BY <1>12, <1>d
        DEF Calm, Taking, Draining, Repeating, PublishPending, Retrying, Enqueuing,
        DequeueTakeInflight
    <2>2. QED
      BY <2>1, CalmKeeps
  <1>13. ASSUME NEW w \in Workers, DequeuePoll(w) PROVE OrderParts'
    <2>1. CASE ~MustStop
      BY <1>13, <2>1, FetchedKeeps
    <2>2. CASE MustStop
      <3>1. Calm
        BY <1>13, <2>2, <1>d
          DEF Calm, Taking, Draining, Repeating, PublishPending, Retrying, Enqueuing, DequeuePoll
      <3>2. QED
        BY <3>1, CalmKeeps
    <2>3. QED
      BY <2>1, <2>2
  <1>14. ASSUME NEW w \in Workers, DequeuePublishQos0(w) PROVE OrderParts'
    <2>1. Sending(w)
      BY <1>14, <1>d
        DEF Sending, Taking, Draining, Repeating, PublishPending, Retrying, Enqueuing,
        DequeuePublishQos0, Publish, EndpointPublish
    <2>2. QED
      BY <2>1, SendingKeeps
  <1>15. ASSUME NEW w \in Workers, DequeuePut(w) PROVE OrderParts'
    <2>1. Calm
      BY <1>15, <1>d
        DEF Calm, Taking, Draining, Repeating, PublishPending, Retrying, Enqueuing, DequeuePut,
        PutInflight
    <2>2. QED
      BY <2>1, CalmKeeps
  <1>16. ASSUME NEW w \in Workers, DequeuePublish(w) PROVE OrderParts'
    <2>1. Sending(w)
      BY <1>16, <1>d
        DEF Sending, Taking, Draining, Repeating, PublishPending, Retrying, Enqueuing,
        DequeuePublish, Publish, EndpointPublish
    <2>2. QED
      BY <2>1, SendingKeeps
  <1>17. ASSUME NEW w \in Workers, DequeueEnd(w) PROVE OrderParts'
    <2>1. Calm
      BY <1>17, <1>d
        DEF Calm, Taking, Draining, Repeating, PublishPending, Retrying, Enqueuing, DequeueEnd
    <2>2. QED
      BY <2>1, CalmKeeps
  <1>18. ASSUME NEW w \in Workers, SetPubrecStatus(w) PROVE OrderParts'
    <2>1. Calm
      BY <1>18, <1>d
        DEF Calm, Taking, Draining, Repeating, PublishPending, Retrying, Enqueuing, SetPubrecStatus
    <2>2. QED
      BY <2>1, CalmKeeps
  <1>19. ASSUME NEW w \in Workers, RetryRelease(w) PROVE OrderParts'
    <2>1. Calm
      BY <1>19, <1>d
        DEF Calm, Taking, Draining, Repeating, PublishPending, Retrying, Enqueuing, RetryRelease
    <2>2. QED
      BY <2>1, CalmKeeps
  <1>20. ASSUME NEW w \in Workers, RetryTake(w) PROVE OrderParts'
    <2>1. Calm
      BY <1>20, <1>d
        DEF Calm, Taking, Draining, Repeating, PublishPending, Retrying, Enqueuing, RetryTake
    <2>2. QED
      BY <2>1, CalmKeeps
  <1>21. ASSUME NEW w \in Workers, RetryPut(w) PROVE OrderParts'
    <2>1. Calm
      BY <1>21, <1>d, SMTT(60)
        DEF Calm, Taking, Draining, Repeating, PublishPending, Retrying, Enqueuing, RetryPut
    <2>2. QED
      BY <2>1, CalmKeeps
  <1>22. ASSUME NEW w \in Workers, RetryPublish(w) PROVE OrderParts'
    <2>1. Sending(w)
      BY <1>22, <1>d
        DEF Sending, Taking, Draining, Repeating, PublishPending, Retrying, Enqueuing,
        RetryPublish, Publish, EndpointPublish
    <2>2. QED
      BY <2>1, SendingKeeps
  <1>23. ASSUME NEW w \in Workers, NEW p \in wire, ReceivePuback(w, p) \/ ReceivePubcomp(w, p)
         PROVE  OrderParts'
    <2>1. Calm
      BY <1>23, <1>d
        DEF Calm, Taking, Draining, Repeating, PublishPending, Retrying, Enqueuing, ReceivePuback,
        ReceivePubcomp, RemoveInflight
    <2>2. QED
      BY <2>1, CalmKeeps
  <1>24. ASSUME NEW w \in Workers, NEW p \in wire, ReceivePubrec(w, p) PROVE OrderParts'
    <2>1. Calm
      BY <1>24, <1>d
        DEF Calm, Taking, Draining, Repeating, PublishPending, Retrying, Enqueuing, ReceivePubrec
    <2>2. QED
      BY <2>1, CalmKeeps
  <1>25. ASSUME NEW w \in Workers, NEW i \in Ids, Retry(w, i) PROVE OrderParts'
    <2>1. Calm
      BY <1>25, <1>d
        DEF Calm, Taking, Draining, Repeating, PublishPending, Retrying, Enqueuing, Retry
    <2>2. QED
      BY <2>1, CalmKeeps
  <1>26. ASSUME NEW i \in Ids, Expire(i) PROVE OrderParts'
    <2>1. Calm
      BY <1>26, <1>d
        DEF Calm, Taking, Draining, Repeating, PublishPending, Retrying, Enqueuing, Expire,
        workerVars, historyVars
    <2>2. QED
      BY <2>1, CalmKeeps
  <1>27. CASE Disconnect
    BY <1>27 DEF Disconnect
  <1>28. CASE UNCHANGED vars
    <2>1. Calm
      BY <1>28, <1>d
        DEF Calm, Taking, Draining, Repeating, PublishPending, Retrying, Enqueuing, vars,
        sharedVars, workerVars, historyVars
    <2>2. QED
      BY <2>1, CalmKeeps
  <1>29. QED
    BY <1>1, <1>2, <1>3, <1>4, <1>5, <1>6, <1>7, <1>8, <1>9, <1>10, <1>11, <1>12, <1>13, <1>14,
       <1>15, <1>16, <1>17, <1>18, <1>19, <1>20, <1>21, <1>22, <1>23, <1>24, <1>25, <1>26,
       <1>27, <1>28 DEF Next, WorkerStep, ReceiveAnswer, Quiet

\* With one worker, QoS 1 and QoS 2 messages are transmitted for the first time in the
\* order in which handleMessage took them, through queue and window, whatever is
\* dropped, retried or acknowledged meanwhile.
THEOREM FirstSendsInOrder ==
    ASSUME OneWorker PROVE Spec => []OrderPreserved
  <1>1. Init => OrderInv
    <2> SUFFICES ASSUME Init PROVE OrderParts
      BY DEF OrderInv
    <2>1. \A m : ~Waiting(m)
      BY DEF Init, Waiting, Taking, Draining, Enqueuing
    <2>2. Turns /\ Sorted
      BY DEF Init, Turns, Sorted, Taking, Draining, Enqueuing
    <2>3. SentBefore /\ UnsentWaits
      BY <2>1 DEF Init, SentBefore, UnsentWaits
    <2>4. FiledSent
      BY DEF Init, FiledSent, Repeating, Retrying
    <2>5. QED
      BY <2>2, <2>3, <2>4 DEF OrderParts
  <1>2. DeliverySafe /\ DrainInv /\ OrderInv /\ [Next]_vars => OrderInv'
    BY OrderStep DEF DrainInv
  <1>3. DeliverySafe /\ OrderInv => OrderPreserved
    <2> SUFFICES ASSUME DeliverySafe, OrderInv, connected, NEW a \in Msgs, NEW b \in Msgs,
                        Qos[a] > 0, Qos[b] > 0, turn[a] # 0, turn[a] < turn[b], sends[b] > 0,
                        ~(sends[a] > 0), a \notin dropped
                 PROVE  FALSE
      BY DEF OrderPreserved
    <2>1. sends[a] = 0 /\ turn[a] \in Nat /\ turn[b] \in Nat
      BY OrderTypesOK DEF OrderTypes
    <2>2. Waiting(a)
      BY <2>1 DEF OrderInv, OrderParts, UnsentWaits
    <2>3. turn[b] < turn[a]
      BY <2>2 DEF OrderInv, OrderParts, SentBefore
    <2>4. QED
      BY <2>1, <2>3
  <1>4. QED
    BY <1>1, <1>2, <1>3, DrainInvariance, PTL DEF Spec

=============================================================================
