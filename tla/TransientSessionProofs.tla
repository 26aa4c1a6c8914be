----------------------- MODULE TransientSessionProofs -----------------------
(***************************************************************************)
(* Theorems about TransientSession, for any number of workers, messages    *)
(* and any capacities.  They rest on the inductive invariant               *)
(* TypeOK /\ ControlInv /\ LockInv.                                        *)
(***************************************************************************)
EXTENDS TransientSession, TLAPS

\* Places where cur[w] is a message.
Carrying == FirstDelivery \cup {"pub0", "inPub", "dqPub", "rtRel", "rtTake",
                                "rtPut", "rtPub"}

\* Places between retry's inflights.get and the update it leads to.
Retrying == {"rtRel", "rtTake", "rtPut"}

\* What the local variables of a worker hold at each place.
LocalsInv ==
    \A w \in Workers :
        /\ pc[w] \in Carrying => cur[w] \in Msgs
        /\ pc[w] = "recSet" => rec[w] \in Packets
        /\ pc[w] \in Retrying => old[w] \in Ids

\* The message of an inflight entry carries a packet id.
EntriesInv == \A i \in Ids : inflights[i] # None => mid[inflights[i]] \in Ids

ControlInv == LocalsInv /\ EntriesInv

\* Who is inside the two critical sections.
LockInv ==
    /\ \A w \in Workers :
         /\ pc[w] \in QueueSection => queueCas = 1
         /\ pc[w] \in InflightSection => holds[w]
         /\ holds[w] => pc[w] \in InflightSection \cup Enqueuing
         /\ holds[w] => inflightCas = 1
    /\ CasExclusive

-----------------------------------------------------------------------------
(* Proofs *)

USE ConstantsAssumption
USE DEF Goto, endpointVars, inflightVars, objectVars, casVars, callVars,
   orderVars,
        outcomeVars, Ids

\* The predicted packet id is a legal one, and the successor of the last id as
\* long as the counter has not reached its maximum.
LEMMA NextId ==
    ASSUME lastId \in 0..MaxMessageId
    PROVE  /\ NextMessageId \in Ids
           /\ lastId < MaxMessageId => NextMessageId = lastId + 1
  <1>1. CASE lastId = 0
    BY <1>1 DEF NextMessageId
  <1>2. CASE lastId = MaxMessageId
    <2>1. MaxMessageId % MaxMessageId = 0
      OBVIOUS
    <2>2. QED
      BY <1>2, <2>1 DEF NextMessageId
  <1>3. CASE lastId \in 1..(MaxMessageId - 1)
    <2>1. lastId % MaxMessageId = lastId
      BY <1>3
    <2>2. QED
      BY <1>3, <2>1 DEF NextMessageId
  <1>4. QED
    BY <1>1, <1>2, <1>3

\* What the fields of a packet are, and which packets exist.
LEMMA PacketTypes ==
    /\ \A p \in Packets : p.id \in Ids /\ p.msg \in Msgs
    /\ \A i \in Ids, m \in Msgs :
         /\ [type |-> "PUBLISH", id |-> i, msg |-> m] \in Packets
         /\ [type |-> "PUBREL", id |-> i, msg |-> m] \in Packets
  BY DEF Packets

\* Publishing keeps the state of the endpoint well typed.
LEMMA PublishTypes ==
    ASSUME EndpointTypes, NEW m \in Msgs, Publish(m), connected' = connected
    PROVE  EndpointTypes'
  <1>1. NextMessageId \in Ids
    BY NextId DEF EndpointTypes
  <1> DEFINE pkt == [type |-> "PUBLISH", id |-> NextMessageId, msg |-> m]
  <1>2. wire' \subseteq Packets
    <2>1. pkt \in Packets
      BY <1>1, PacketTypes
    <2>2. wire' = wire \/ wire' = wire \cup {pkt}
      BY DEF Publish, EndpointPublish
    <2>3. wire \subseteq Packets
      BY DEF EndpointTypes
    <2> HIDE DEF pkt
    <2>4. QED
      BY <2>1, <2>2, <2>3
  <1>3. lastId' \in 0..MaxMessageId
    BY <1>1 DEF Publish, EndpointPublish, EndpointTypes
  <1>4. sends' \in [Msgs -> Nat] /\ published' \in Nat
    BY DEF Publish, EndpointPublish, EndpointTypes
  <1>5. QED
    BY <1>2, <1>3, <1>4 DEF EndpointTypes

\* Filing a message under the predicted id keeps the maps well typed.
LEMMA PutTypes ==
    ASSUME EndpointTypes, InflightTypes, ObjectTypes, NEW m \in Msgs,
       PutInflight(m),
           UNCHANGED <<expired, status, retry>>
    PROVE  InflightTypes' /\ ObjectTypes'
  <1>1. NextMessageId \in Ids
    BY NextId DEF EndpointTypes
  <1>2. InflightTypes'
    BY <1>1 DEF PutInflight, InflightTypes
  <1>3. mid' \in [Msgs -> 0..MaxMessageId]
    BY <1>1 DEF PutInflight, ObjectTypes
  <1>4. QED
    BY <1>2, <1>3 DEF ObjectTypes

\* Sending a PUBREL keeps the state of the endpoint well typed.
LEMMA PubrelTypes ==
    ASSUME EndpointTypes, NEW i \in Ids, NEW m \in Msgs, SendPubrel(i, m),
           UNCHANGED <<connected, lastId, published, sends>>
    PROVE  EndpointTypes'
  <1> DEFINE pkt == [type |-> "PUBREL", id |-> i, msg |-> m]
  <1>1. pkt \in Packets
    BY PacketTypes
  <1>2. wire' = wire \/ wire' = wire \cup {pkt}
    BY DEF SendPubrel
  <1>3. wire \subseteq Packets
    BY DEF EndpointTypes
  <1> HIDE DEF pkt
  <1>4. wire' \subseteq Packets
    BY <1>1, <1>2, <1>3
  <1>5. QED
    BY <1>4 DEF EndpointTypes


\* Every step preserves the types.
LEMMA TypeStep == TypeOK /\ ControlInv /\ [Next]_vars => TypeOK'
  <1> SUFFICES ASSUME EndpointTypes, InflightTypes, ObjectTypes, LockTypes,
     WorkerTypes,
                      HistoryTypes, queue \in Seq(Msgs), ControlInv, [Next]_vars
               PROVE  TypeOK'
    BY DEF TypeOK
  <1>0. NextMessageId \in Ids
    BY NextId DEF EndpointTypes
  <1>1. ASSUME NEW w \in Workers, NEW S \in Batches, PublishMessage(w, S)
       PROVE  TypeOK'
    <2>1. S \subseteq Msgs
      OBVIOUS
    <2>2. WorkerTypes'
      BY <1>1, <2>1 DEF PublishMessage, Places, Enqueuing, QueueSection,
         InflightSection, WorkerTypes
    <2>3. QED
      BY <1>1, <2>2 DEF TypeOK, PublishMessage, EndpointTypes, InflightTypes,
         ObjectTypes, LockTypes, HistoryTypes
  <1>2. ASSUME NEW w \in Workers, NEW p \in wire, ReceivePuback(w, p)
       PROVE  TypeOK'
    <2>1. p \in Packets /\ p.id \in Ids /\ p.msg \in Msgs
      BY PacketTypes DEF EndpointTypes
    <2>2. EndpointTypes'
      BY <1>2, <2>1 DEF ReceivePuback, RemoveInflight, EndpointTypes
    <2>3. InflightTypes'
      BY <1>2, <2>1 DEF ReceivePuback, RemoveInflight, InflightTypes
    <2>4. WorkerTypes'
      BY <1>2, <2>1 DEF ReceivePuback, RemoveInflight, Places, Enqueuing,
         QueueSection, InflightSection, WorkerTypes
    <2>5. HistoryTypes'
      BY <1>2, <2>1 DEF ReceivePuback, RemoveInflight, HistoryTypes
    <2>6. QED
      BY <1>2, <2>2, <2>3, <2>4, <2>5 DEF TypeOK, ReceivePuback,
         RemoveInflight, ObjectTypes, LockTypes
  <1>3. ASSUME NEW w \in Workers, NEW p \in wire, ReceivePubrec(w, p)
       PROVE  TypeOK'
    <2>1. p \in Packets /\ p.id \in Ids /\ p.msg \in Msgs
      BY PacketTypes DEF EndpointTypes
    <2>2. EndpointTypes'
      BY <1>3, <2>1 DEF ReceivePubrec, EndpointTypes
    <2>3. WorkerTypes'
      <3>1. inflights[p.id] \in Msgs \cup {None}
        BY <2>1 DEF InflightTypes
      <3>2. cur' \in [Workers -> Msgs \cup {None}]
        BY <1>3, <3>1 DEF ReceivePubrec, WorkerTypes
      <3>3. rec' \in [Workers -> Packets \cup {None}]
        BY <1>3, <2>1 DEF ReceivePubrec, WorkerTypes
      <3>4. pc' \in [Workers -> Places]
        BY <1>3 DEF ReceivePubrec, WorkerTypes, Places
      <3>5. QED
        BY <1>3, <3>2, <3>3, <3>4 DEF ReceivePubrec, WorkerTypes
    <2>4. QED
      BY <1>3, <2>2, <2>3 DEF TypeOK, ReceivePubrec, InflightTypes,
         ObjectTypes, LockTypes, HistoryTypes
  <1>4. ASSUME NEW w \in Workers, NEW p \in wire, ReceivePubcomp(w, p)
       PROVE  TypeOK'
    <2>1. p \in Packets /\ p.id \in Ids /\ p.msg \in Msgs
      BY PacketTypes DEF EndpointTypes
    <2>2. EndpointTypes'
      BY <1>4, <2>1 DEF ReceivePubcomp, RemoveInflight, EndpointTypes
    <2>3. InflightTypes'
      BY <1>4, <2>1 DEF ReceivePubcomp, RemoveInflight, InflightTypes
    <2>4. WorkerTypes'
      BY <1>4, <2>1 DEF ReceivePubcomp, RemoveInflight, Places, Enqueuing,
         QueueSection, InflightSection, WorkerTypes
    <2>5. HistoryTypes'
      BY <1>4, <2>1 DEF ReceivePubcomp, RemoveInflight, HistoryTypes
    <2>6. QED
      BY <1>4, <2>2, <2>3, <2>4, <2>5 DEF TypeOK, ReceivePubcomp,
         RemoveInflight, ObjectTypes, LockTypes
  <1>5. ASSUME NEW w \in Workers, NEW i \in Ids, Retry(w, i)
       PROVE  TypeOK'
    <2>1. inflights[i] # None => inflights[i] \in Msgs
      BY DEF InflightTypes
    <2>2. InflightTypes'
      BY <1>5, <2>1 DEF Retry, RetriesExhausted, InflightTypes
    <2>3. pc' \in [Workers -> Places]
      BY <1>5, <2>1, ZenonT(60) DEF Retry, Places, Enqueuing, QueueSection,
         InflightSection, ObjectTypes, WorkerTypes
    <2>4. WorkerTypes'
      BY <1>5, <2>1, <2>3 DEF Retry, ObjectTypes, WorkerTypes
    <2>5. HistoryTypes'
      BY <1>5, <2>1 DEF Retry, RetriesExhausted, HistoryTypes
    <2>6. QED
      BY <1>5, <2>2, <2>4, <2>5 DEF TypeOK, Retry, EndpointTypes, ObjectTypes,
         LockTypes
  <1>6. ASSUME NEW w \in Workers, HandleMessage(w)
       PROVE  TypeOK'
    <2>1. \A m \in todo[w] : m \in Msgs
      BY DEF WorkerTypes
    <2>2. pc' \in [Workers -> Places]
      BY <1>6, <2>1 DEF HandleMessage, Places, Enqueuing, QueueSection,
         InflightSection, WorkerTypes
    <2>3. WorkerTypes'
      BY <1>6, <2>1, <2>2 DEF HandleMessage, WorkerTypes
    <2>4. HistoryTypes'
      BY <1>6, <2>1 DEF HandleMessage, HistoryTypes
    <2>5. QED
      BY <1>6, <2>3, <2>4 DEF TypeOK, HandleMessage, EndpointTypes,
         InflightTypes, ObjectTypes, LockTypes
  <1>7. ASSUME NEW w \in Workers, PublishQos0(w)
       PROVE  TypeOK'
    <2>1. cur[w] \in Msgs
      BY <1>7 DEF PublishQos0, ControlInv, LocalsInv, Carrying,
         FirstDelivery, Enqueuing, Retrying
    <2>2. EndpointTypes'
      BY <1>7, <2>1, PublishTypes DEF PublishQos0, EndpointTypes
    <2>3. WorkerTypes'
      BY <1>7, <2>1 DEF PublishQos0, AfterMessage, Places, Enqueuing,
         QueueSection, InflightSection, WorkerTypes
    <2>4. QED
      BY <1>7, <2>2, <2>3 DEF TypeOK, PublishQos0, InflightTypes, ObjectTypes,
         LockTypes, HistoryTypes
  <1>8. ASSUME NEW w \in Workers, EnqueueSize(w)
       PROVE  TypeOK'
    <2>1. WorkerTypes'
      BY <1>8 DEF EnqueueSize, Places, Enqueuing, QueueSection,
         InflightSection, WorkerTypes
    <2>2. QED
      BY <1>8, <2>1 DEF TypeOK, EnqueueSize, EndpointTypes, InflightTypes,
         ObjectTypes, LockTypes, HistoryTypes
  <1>9. ASSUME NEW w \in Workers, EnqueuePoll(w)
       PROVE  TypeOK'
    <2>1. queue # <<>> => Tail(queue) \in Seq(Msgs) /\ Head(queue) \in Msgs
      OBVIOUS
    <2>2. WorkerTypes'
      BY <1>9, <2>1 DEF EnqueuePoll, Places, Enqueuing, QueueSection,
         InflightSection, WorkerTypes
    <2>3. HistoryTypes'
      BY <1>9, <2>1 DEF EnqueuePoll, HistoryTypes
    <2>4. queue' \in Seq(Msgs)
      BY <1>9, <2>1 DEF EnqueuePoll
    <2>5. QED
      BY <1>9, <2>2, <2>3, <2>4 DEF TypeOK, EnqueuePoll, EndpointTypes,
         InflightTypes, ObjectTypes, LockTypes
  <1>10. ASSUME NEW w \in Workers, EnqueueAdd(w)
       PROVE  TypeOK'
    <2>1. cur[w] \in Msgs
      BY <1>10 DEF EnqueueAdd, ControlInv, LocalsInv, Carrying,
         FirstDelivery, Enqueuing, Retrying
    <2>2. LockTypes'
      BY <1>10, <2>1 DEF EnqueueAdd, ReleaseInflightCas, LockTypes
    <2>3. WorkerTypes'
      BY <1>10, <2>1 DEF EnqueueAdd, AfterMessage, Places, Enqueuing,
         QueueSection, InflightSection, WorkerTypes
    <2>4. queue' \in Seq(Msgs)
      BY <1>10, <2>1 DEF EnqueueAdd
    <2>5. QED
      BY <1>10, <2>2, <2>3, <2>4 DEF TypeOK, EnqueueAdd, EndpointTypes,
         InflightTypes, ObjectTypes, HistoryTypes
  <1>11. ASSUME NEW w \in Workers, InflightTake(w)
       PROVE  TypeOK'
    <2>1. LockTypes'
      BY <1>11 DEF InflightTake, TakeInflightCas, LockTypes
    <2>2. WorkerTypes'
      BY <1>11 DEF InflightTake, Places, Enqueuing, QueueSection,
         InflightSection, WorkerTypes
    <2>3. QED
      BY <1>11, <2>1, <2>2 DEF TypeOK, InflightTake, EndpointTypes,
         InflightTypes, ObjectTypes, HistoryTypes
  <1>12. ASSUME NEW w \in Workers, InflightPut(w)
       PROVE  TypeOK'
    <2>1. cur[w] \in Msgs
      BY <1>12 DEF InflightPut, ControlInv, LocalsInv, Carrying, FirstDelivery,
         Enqueuing, Retrying
    <2>2. InflightTypes'
      BY <1>12, <2>1, PutTypes DEF InflightPut, InflightTypes
    <2>3. ObjectTypes'
      BY <1>12, <2>1, PutTypes DEF InflightPut, ObjectTypes
    <2>4. WorkerTypes'
      BY <1>12, <2>1 DEF InflightPut, Places, Enqueuing, QueueSection,
         InflightSection, WorkerTypes
    <2>5. QED
      BY <1>12, <2>2, <2>3, <2>4 DEF TypeOK, InflightPut, EndpointTypes,
         LockTypes, HistoryTypes
  <1>13. ASSUME NEW w \in Workers, InflightPublish(w)
       PROVE  TypeOK'
    <2>1. cur[w] \in Msgs
      BY <1>13 DEF InflightPublish, ControlInv, LocalsInv, Carrying, FirstDelivery,
         Enqueuing, Retrying
    <2>2. EndpointTypes'
      BY <1>13, <2>1, PublishTypes DEF InflightPublish, EndpointTypes
    <2>3. LockTypes'
      BY <1>13, <2>1 DEF InflightPublish, ReleaseInflightCas, LockTypes
    <2>4. WorkerTypes'
      BY <1>13, <2>1 DEF InflightPublish, AfterMessage, Places, Enqueuing,
         QueueSection, InflightSection, WorkerTypes
    <2>5. QED
      BY <1>13, <2>2, <2>3, <2>4 DEF TypeOK, InflightPublish, InflightTypes,
         ObjectTypes, HistoryTypes
  <1>14. ASSUME NEW w \in Workers, DequeueTake(w)
       PROVE  TypeOK'
    <2>1. LockTypes'
      BY <1>14 DEF DequeueTake, LockTypes
    <2>2. WorkerTypes'
      BY <1>14 DEF DequeueTake, Places, Enqueuing, QueueSection,
         InflightSection, WorkerTypes
    <2>3. QED
      BY <1>14, <2>1, <2>2 DEF TypeOK, DequeueTake, EndpointTypes,
         InflightTypes, ObjectTypes, HistoryTypes
  <1>15. ASSUME NEW w \in Workers, DequeueCheck(w)
       PROVE  TypeOK'
    <2>1. WorkerTypes'
      BY <1>15 DEF DequeueCheck, Places, Enqueuing, QueueSection,
         InflightSection, WorkerTypes
    <2>2. QED
      BY <1>15, <2>1 DEF TypeOK, DequeueCheck, EndpointTypes, InflightTypes,
         ObjectTypes, LockTypes, HistoryTypes
  <1>16. ASSUME NEW w \in Workers, DequeueTakeInflight(w)
       PROVE  TypeOK'
    <2>1. LockTypes'
      BY <1>16 DEF DequeueTakeInflight, TakeInflightCas, LockTypes
    <2>2. WorkerTypes'
      BY <1>16 DEF DequeueTakeInflight, Places, Enqueuing, QueueSection,
         InflightSection, WorkerTypes
    <2>3. QED
      BY <1>16, <2>1, <2>2 DEF TypeOK, DequeueTakeInflight, EndpointTypes,
         InflightTypes, ObjectTypes, HistoryTypes
  <1>17. ASSUME NEW w \in Workers, DequeuePoll(w)
       PROVE  TypeOK'
    <2>1. queue # <<>> => Tail(queue) \in Seq(Msgs) /\ Head(queue) \in Msgs
      OBVIOUS
    <2>2. LockTypes'
      BY <1>17, <2>1 DEF DequeuePoll, ReleaseInflightCas, LockTypes
    <2>3. pc' \in [Workers -> Places]
      BY <1>17, <2>1 DEF DequeuePoll, MustStop, Places, Enqueuing,
         QueueSection, InflightSection, WorkerTypes
    <2>4. WorkerTypes'
      <3>1. cur' \in [Workers -> Msgs \cup {None}]
        <4>1. CASE MustStop
          BY <1>17, <4>1 DEF DequeuePoll, WorkerTypes
        <4>2. CASE ~MustStop
          <5>1. cur' = [cur EXCEPT ![w] = Head(queue)]
            BY <1>17, <4>2 DEF DequeuePoll
          <5>2. Head(queue) \in Msgs
            BY <2>1, <4>2 DEF MustStop
          <5>3. QED
            BY <5>1, <5>2 DEF WorkerTypes
        <4>3. QED
          BY <4>1, <4>2
      <3>2. QED
        BY <1>17, <2>3, <3>1 DEF DequeuePoll, WorkerTypes
    <2>5. queue' \in Seq(Msgs)
      BY <1>17, <2>1 DEF DequeuePoll, MustStop
    <2>6. QED
      BY <1>17, <2>2, <2>4, <2>5 DEF TypeOK, DequeuePoll, EndpointTypes,
         InflightTypes, ObjectTypes, HistoryTypes
  <1>18. ASSUME NEW w \in Workers, DequeuePublishQos0(w)
       PROVE  TypeOK'
    <2>1. cur[w] \in Msgs
      BY <1>18 DEF DequeuePublishQos0, ControlInv, LocalsInv, Carrying, FirstDelivery,
         Enqueuing, Retrying
    <2>2. EndpointTypes'
      BY <1>18, <2>1, PublishTypes DEF DequeuePublishQos0, EndpointTypes
    <2>3. LockTypes'
      BY <1>18, <2>1 DEF DequeuePublishQos0, BreakDequeue, ReleaseInflightCas,
         LockTypes
    <2>4. pc' \in [Workers -> Places]
      BY <1>18, <2>1, ZenonT(60) DEF DequeuePublishQos0, BreakDequeue, Places, Enqueuing,
         QueueSection, InflightSection, WorkerTypes
    <2>5. WorkerTypes'
      BY <1>18, <2>1, <2>4 DEF DequeuePublishQos0, BreakDequeue, WorkerTypes
    <2>6. QED
      BY <1>18, <2>2, <2>3, <2>5 DEF TypeOK, DequeuePublishQos0,
         InflightTypes, ObjectTypes, HistoryTypes
  <1>19. ASSUME NEW w \in Workers, DequeuePut(w)
       PROVE  TypeOK'
    <2>1. cur[w] \in Msgs
      BY <1>19 DEF DequeuePut, ControlInv, LocalsInv, Carrying,
         FirstDelivery, Enqueuing, Retrying
    <2>2. InflightTypes'
      BY <1>19, <2>1, PutTypes DEF DequeuePut, InflightTypes
    <2>3. ObjectTypes'
      BY <1>19, <2>1, PutTypes DEF DequeuePut, ObjectTypes
    <2>4. LockTypes'
      BY <1>19, <2>1 DEF DequeuePut, BreakDequeue, ReleaseInflightCas, LockTypes
    <2>5. pc' \in [Workers -> Places]
      BY <1>19, <2>1, ZenonT(60) DEF DequeuePut, BreakDequeue, Places, Enqueuing,
         QueueSection, InflightSection, WorkerTypes
    <2>6. WorkerTypes'
      BY <1>19, <2>1, <2>5 DEF DequeuePut, BreakDequeue, WorkerTypes
    <2>7. QED
      BY <1>19, <2>2, <2>3, <2>4, <2>6 DEF TypeOK, DequeuePut, EndpointTypes,
         HistoryTypes
  <1>20. ASSUME NEW w \in Workers, DequeuePublish(w)
       PROVE  TypeOK'
    <2>1. cur[w] \in Msgs
      BY <1>20 DEF DequeuePublish, ControlInv, LocalsInv, Carrying, FirstDelivery,
         Enqueuing, Retrying
    <2>2. EndpointTypes'
      BY <1>20, <2>1, PublishTypes DEF DequeuePublish, EndpointTypes
    <2>3. LockTypes'
      BY <1>20, <2>1 DEF DequeuePublish, ReleaseInflightCas, LockTypes
    <2>4. WorkerTypes'
      BY <1>20, <2>1 DEF DequeuePublish, Places, Enqueuing, QueueSection,
         InflightSection, WorkerTypes
    <2>5. QED
      BY <1>20, <2>2, <2>3, <2>4 DEF TypeOK, DequeuePublish, InflightTypes,
         ObjectTypes, HistoryTypes
  <1>21. ASSUME NEW w \in Workers, DequeueEnd(w)
       PROVE  TypeOK'
    <2>1. LockTypes'
      BY <1>21 DEF DequeueEnd, LockTypes
    <2>2. WorkerTypes'
      BY <1>21 DEF DequeueEnd, Places, Enqueuing, QueueSection,
         InflightSection, WorkerTypes
    <2>3. QED
      BY <1>21, <2>1, <2>2 DEF TypeOK, DequeueEnd, EndpointTypes,
         InflightTypes, ObjectTypes, HistoryTypes
  <1>22. ASSUME NEW w \in Workers, SetPubrecStatus(w)
       PROVE  TypeOK'
    <2>1. rec[w] \in Packets /\ rec[w].id \in Ids /\ rec[w].msg \in Msgs
      BY <1>22, PacketTypes DEF SetPubrecStatus, ControlInv, LocalsInv
    <2>2. EndpointTypes'
      BY <1>22, <2>1, PubrelTypes DEF SetPubrecStatus, EndpointTypes
    <2>3. ObjectTypes'
      BY <1>22, <2>1 DEF SetPubrecStatus, ObjectTypes
    <2>4. WorkerTypes'
      BY <1>22, <2>1 DEF SetPubrecStatus, Places, Enqueuing, QueueSection,
         InflightSection, WorkerTypes
    <2>5. QED
      BY <1>22, <2>2, <2>3, <2>4 DEF TypeOK, SetPubrecStatus, InflightTypes,
         LockTypes, HistoryTypes
  <1>23. ASSUME NEW w \in Workers, RetryRelease(w)
       PROVE  TypeOK'
    <2>1. cur[w] \in Msgs /\ old[w] \in Ids
      BY <1>23 DEF RetryRelease, ControlInv, LocalsInv, Carrying, FirstDelivery,
         Enqueuing, Retrying
    <2>2. EndpointTypes'
      BY <1>23, <2>1, PubrelTypes DEF RetryRelease, EndpointTypes
    <2>3. InflightTypes'
      BY <1>23, <2>1 DEF RetryRelease, InflightTypes
    <2>4. ObjectTypes'
      BY <1>23, <2>1 DEF RetryRelease, ObjectTypes
    <2>5. WorkerTypes'
      BY <1>23, <2>1 DEF RetryRelease, Places, Enqueuing, QueueSection,
         InflightSection, WorkerTypes
    <2>6. QED
      BY <1>23, <2>2, <2>3, <2>4, <2>5 DEF TypeOK, RetryRelease, LockTypes,
         HistoryTypes
  <1>24. ASSUME NEW w \in Workers, RetryTake(w)
       PROVE  TypeOK'
    <2>1. LockTypes'
      BY <1>24 DEF RetryTake, TakeInflightCas, LockTypes
    <2>2. WorkerTypes'
      BY <1>24 DEF RetryTake, Places, Enqueuing, QueueSection,
         InflightSection, WorkerTypes
    <2>3. QED
      BY <1>24, <2>1, <2>2 DEF TypeOK, RetryTake, EndpointTypes,
         InflightTypes, ObjectTypes, HistoryTypes
  <1>25. ASSUME NEW w \in Workers, RetryPut(w)
       PROVE  TypeOK'
    <2>1. cur[w] \in Msgs /\ old[w] \in Ids
      BY <1>25 DEF RetryPut, ControlInv, LocalsInv, Carrying,
         FirstDelivery, Enqueuing, Retrying
    <2>2. InflightTypes'
      BY <1>25, <2>1, <1>0 DEF RetryPut, InflightTypes
    <2>3. ObjectTypes'
      <3>1. mid' \in [Msgs -> 0..MaxMessageId]
        <4>1. \/ mid' = mid
              \/ mid' = [mid EXCEPT ![cur[w]] = NextMessageId]
          BY <1>25 DEF RetryPut
        <4>2. mid \in [Msgs -> 0..MaxMessageId]
          BY DEF ObjectTypes
        <4>3. NextMessageId \in 0..MaxMessageId
          BY <1>0
        <4>4. QED
          BY <2>1, <4>1, <4>2, <4>3
      <3>2. retry' \in [Msgs -> Nat]
        <4>1. \/ retry' = retry
              \/ retry' = [retry EXCEPT ![cur[w]] = retry[cur[w]] + 1]
          BY <1>25 DEF RetryPut
        <4>2. retry \in [Msgs -> Nat]
          BY DEF ObjectTypes
        <4>3. retry[cur[w]] + 1 \in Nat
          BY <2>1, <4>2
        <4>4. QED
          BY <2>1, <4>1, <4>2, <4>3
      <3>3. QED
        BY <1>25, <3>1, <3>2 DEF RetryPut, ObjectTypes
    <2>4. LockTypes'
      BY <1>25, <2>1 DEF RetryPut, ReleaseInflightCas, LockTypes
    <2>5. pc' \in [Workers -> Places]
      <3>1. \/ pc' = [pc EXCEPT ![w] = "rtPub"]
            \/ pc' = [pc EXCEPT ![w] = "idle"]
        BY <1>25 DEF RetryPut
      <3>2. "rtPub" \in Places /\ "idle" \in Places
        BY DEF Places, InflightSection
      <3>3. pc \in [Workers -> Places]
        BY DEF WorkerTypes
      <3>4. QED
        BY <3>1, <3>2, <3>3
    <2>6. WorkerTypes'
      BY <1>25, <2>1, <2>5 DEF RetryPut, WorkerTypes
    <2>7. QED
      BY <1>25, <2>2, <2>3, <2>4, <2>6 DEF TypeOK, RetryPut, EndpointTypes,
         HistoryTypes
  <1>26. ASSUME NEW w \in Workers, RetryPublish(w)
       PROVE  TypeOK'
    <2>1. cur[w] \in Msgs
      BY <1>26 DEF RetryPublish, ControlInv, LocalsInv, Carrying, FirstDelivery,
         Enqueuing, Retrying
    <2>2. EndpointTypes'
      BY <1>26, <2>1, PublishTypes DEF RetryPublish, EndpointTypes
    <2>3. LockTypes'
      BY <1>26, <2>1 DEF RetryPublish, ReleaseInflightCas, LockTypes
    <2>4. WorkerTypes'
      BY <1>26, <2>1 DEF RetryPublish, Places, Enqueuing, QueueSection,
         InflightSection, WorkerTypes
    <2>5. QED
      BY <1>26, <2>2, <2>3, <2>4 DEF TypeOK, RetryPublish, InflightTypes,
         ObjectTypes, HistoryTypes
  <1>27. ASSUME NEW i \in Ids, Expire(i)
       PROVE  TypeOK'
    <2>1. InflightTypes'
      BY <1>27 DEF Expire, InflightTypes
    <2>2. QED
      BY <1>27, <2>1 DEF TypeOK, Expire, EndpointTypes, ObjectTypes,
         LockTypes, WorkerTypes, HistoryTypes, workerVars, historyVars
  <1>28. CASE Disconnect
    <2>1. EndpointTypes'
      BY <1>28 DEF Disconnect, EndpointTypes
    <2>2. QED
      BY <1>28, <2>1 DEF TypeOK, Disconnect, InflightTypes, ObjectTypes,
         LockTypes, WorkerTypes, HistoryTypes
  <1>29. CASE UNCHANGED vars
    BY <1>29 DEF vars, sharedVars, workerVars, historyVars, TypeOK,
       EndpointTypes, InflightTypes, ObjectTypes, LockTypes, WorkerTypes,
       HistoryTypes
  <1>30. QED
    BY <1>1, <1>2, <1>3, <1>4, <1>5, <1>6, <1>7, <1>8, <1>9, <1>10, <1>11,
       <1>12, <1>13, <1>14, <1>15, <1>16, <1>17, <1>18, <1>19, <1>20, <1>21,
       <1>22, <1>23, <1>24, <1>25, <1>26, <1>27, <1>28, <1>29 DEF Next,
       WorkerStep, ReceiveAnswer, Quiet

\* Every step keeps the local variables in order.
LEMMA LocalsStep ==
    ASSUME EndpointTypes, InflightTypes, WorkerTypes, queue \in Seq(Msgs),
       ControlInv, [Next]_vars
    PROVE  LocalsInv'
  <1> USE DEF Carrying, FirstDelivery, Enqueuing, Retrying
  <1>0. /\ pc \in [Workers -> Places] /\ cur \in [Workers -> Msgs \cup {None}]
        /\ old \in [Workers -> 0..MaxMessageId] /\ rec \in [Workers -> Packets
           \cup {None}]
    BY DEF WorkerTypes
  <1>1. ASSUME NEW w \in Workers, NEW S \in Batches, PublishMessage(w, S)
       PROVE  LocalsInv'
    BY <1>1, <1>0 DEF PublishMessage, ControlInv, LocalsInv
  <1>2. ASSUME NEW w \in Workers, NEW p \in wire, ReceivePuback(w, p)
       PROVE  LocalsInv'
    BY <1>2, <1>0 DEF ReceivePuback, RemoveInflight, ControlInv, LocalsInv
  <1>3. ASSUME NEW w \in Workers, NEW p \in wire, ReceivePubrec(w, p)
       PROVE  LocalsInv'
    <2>1. p \in Packets
      BY DEF EndpointTypes
    <2>2. QED
      BY <1>3, <1>0, <2>1 DEF ReceivePubrec, ControlInv, LocalsInv
  <1>4. ASSUME NEW w \in Workers, NEW p \in wire, ReceivePubcomp(w, p)
       PROVE  LocalsInv'
    BY <1>4, <1>0 DEF ReceivePubcomp, RemoveInflight, ControlInv, LocalsInv
  <1>5. ASSUME NEW w \in Workers, NEW i \in Ids, Retry(w, i)
       PROVE  LocalsInv'
    <2>1. inflights[i] # None => inflights[i] \in Msgs /\ mid[inflights[i]]
       \in Ids
      BY DEF InflightTypes, ControlInv, EntriesInv
    <2>2. CASE pc' = pc /\ cur' = cur /\ old' = old
      BY <1>5, <2>2 DEF Retry, ControlInv, LocalsInv
    <2>3. CASE pc' = [pc EXCEPT ![w] = "dqTake"] /\ cur' = cur /\ old' = old
      BY <1>5, <1>0, <2>3 DEF Retry, ControlInv, LocalsInv
    <2>4. CASE /\ pc'[w] \in {"rtRel", "rtTake"}
               /\ cur'[w] \in Msgs /\ old'[w] \in Ids
               /\ \A v \in Workers : v # w =>
                    pc'[v] = pc[v] /\ cur'[v] = cur[v] /\ old'[v] = old[v]
      BY <1>5, <2>4 DEF Retry, ControlInv, LocalsInv
    <2>5. QED
      BY <1>5, <1>0, <2>1, <2>2, <2>3, <2>4 DEF Retry
  <1>6. ASSUME NEW w \in Workers, HandleMessage(w)
       PROVE  LocalsInv'
    <2>1. /\ cur'[w] \in Msgs
          /\ \A v \in Workers : v # w => pc'[v] = pc[v] /\ cur'[v] = cur[v]
      BY <1>6, <1>0 DEF HandleMessage, WorkerTypes
    <2>2. pc'[w] \in {"enqSize", "pub0", "inTake"}
      BY <1>6, <1>0 DEF HandleMessage
    <2>3. QED
      BY <1>6, <1>0, <2>1, <2>2 DEF HandleMessage, ControlInv, LocalsInv
  <1>7. ASSUME NEW w \in Workers, PublishQos0(w)
       PROVE  LocalsInv'
    BY <1>7, <1>0 DEF PublishQos0, AfterMessage, ControlInv, LocalsInv
  <1>8. ASSUME NEW w \in Workers, EnqueueSize(w)
       PROVE  LocalsInv'
    BY <1>8, <1>0 DEF EnqueueSize, ControlInv, LocalsInv
  <1>9. ASSUME NEW w \in Workers, EnqueuePoll(w)
       PROVE  LocalsInv'
    BY <1>9, <1>0 DEF EnqueuePoll, ControlInv, LocalsInv
  <1>10. ASSUME NEW w \in Workers, EnqueueAdd(w)
       PROVE  LocalsInv'
    BY <1>10, <1>0 DEF EnqueueAdd, AfterMessage, ReleaseInflightCas,
       ControlInv, LocalsInv
  <1>11. ASSUME NEW w \in Workers, InflightTake(w)
       PROVE  LocalsInv'
    BY <1>11, <1>0 DEF InflightTake, TakeInflightCas, ControlInv, LocalsInv
  <1>12. ASSUME NEW w \in Workers, InflightPut(w)
       PROVE  LocalsInv'
    BY <1>12, <1>0 DEF InflightPut, PutInflight, ControlInv, LocalsInv
  <1>13. ASSUME NEW w \in Workers, InflightPublish(w)
       PROVE  LocalsInv'
    BY <1>13, <1>0 DEF InflightPublish, AfterMessage, ReleaseInflightCas,
       ControlInv, LocalsInv
  <1>14. ASSUME NEW w \in Workers, DequeueTake(w)
       PROVE  LocalsInv'
    BY <1>14, <1>0 DEF DequeueTake, ControlInv, LocalsInv
  <1>15. ASSUME NEW w \in Workers, DequeueCheck(w)
       PROVE  LocalsInv'
    BY <1>15, <1>0 DEF DequeueCheck, ControlInv, LocalsInv
  <1>16. ASSUME NEW w \in Workers, DequeueTakeInflight(w)
       PROVE  LocalsInv'
    BY <1>16, <1>0 DEF DequeueTakeInflight, TakeInflightCas, ControlInv,
       LocalsInv
  <1>17. ASSUME NEW w \in Workers, DequeuePoll(w)
       PROVE  LocalsInv'
    BY <1>17, <1>0 DEF DequeuePoll, ReleaseInflightCas, MustStop, ControlInv,
       LocalsInv
  <1>18. ASSUME NEW w \in Workers, DequeuePublishQos0(w)
       PROVE  LocalsInv'
    BY <1>18, <1>0 DEF DequeuePublishQos0, BreakDequeue, ReleaseInflightCas,
       ControlInv, LocalsInv
  <1>19. ASSUME NEW w \in Workers, DequeuePut(w)
       PROVE  LocalsInv'
    BY <1>19, <1>0 DEF DequeuePut, PutInflight, BreakDequeue,
       ReleaseInflightCas, ControlInv, LocalsInv
  <1>20. ASSUME NEW w \in Workers, DequeuePublish(w)
       PROVE  LocalsInv'
    BY <1>20, <1>0 DEF DequeuePublish, ReleaseInflightCas, ControlInv, LocalsInv
  <1>21. ASSUME NEW w \in Workers, DequeueEnd(w)
       PROVE  LocalsInv'
    BY <1>21, <1>0 DEF DequeueEnd, ControlInv, LocalsInv
  <1>22. ASSUME NEW w \in Workers, SetPubrecStatus(w)
       PROVE  LocalsInv'
    BY <1>22, <1>0 DEF SetPubrecStatus, ControlInv, LocalsInv
  <1>23. ASSUME NEW w \in Workers, RetryRelease(w)
       PROVE  LocalsInv'
    BY <1>23, <1>0 DEF RetryRelease, ControlInv, LocalsInv
  <1>24. ASSUME NEW w \in Workers, RetryTake(w)
       PROVE  LocalsInv'
    BY <1>24, <1>0 DEF RetryTake, TakeInflightCas, ControlInv, LocalsInv
  <1>25. ASSUME NEW w \in Workers, RetryPut(w)
       PROVE  LocalsInv'
    BY <1>25, <1>0 DEF RetryPut, ReleaseInflightCas, ControlInv, LocalsInv
  <1>26. ASSUME NEW w \in Workers, RetryPublish(w)
       PROVE  LocalsInv'
    BY <1>26, <1>0 DEF RetryPublish, ReleaseInflightCas, ControlInv, LocalsInv
  <1>27. ASSUME NEW i \in Ids, Expire(i)
       PROVE  LocalsInv'
    BY <1>27, <1>0 DEF Expire, workerVars, ControlInv, LocalsInv
  <1>28. CASE Disconnect
    BY <1>28, <1>0 DEF Disconnect, ControlInv, LocalsInv
  <1>29. CASE UNCHANGED vars
    BY <1>29 DEF vars, sharedVars, workerVars, historyVars, ControlInv,
       LocalsInv
  <1>30. QED
    BY <1>1, <1>2, <1>3, <1>4, <1>5, <1>6, <1>7, <1>8, <1>9, <1>10, <1>11,
       <1>12, <1>13, <1>14, <1>15, <1>16, <1>17, <1>18, <1>19, <1>20, <1>21,
       <1>22, <1>23, <1>24, <1>25, <1>26, <1>27, <1>28, <1>29 DEF Next,
       WorkerStep, ReceiveAnswer, Quiet

\* Every step respects the two critical sections.
LEMMA LockStep ==
    ASSUME LockTypes, WorkerTypes, LockInv, [Next]_vars
    PROVE  LockInv'
  <1> USE DEF InflightSection, Enqueuing, QueueSection, CasExclusive, LockInv
  <1>0. /\ pc \in [Workers -> Places] /\ holds \in [Workers -> BOOLEAN]
        /\ queueCas \in {0, 1} /\ inflightCas \in {0, 1}
    BY DEF WorkerTypes, LockTypes
  <1>1. ASSUME NEW w \in Workers, NEW S \in Batches, PublishMessage(w, S)
       PROVE  LockInv'
    BY <1>1, <1>0 DEF PublishMessage, LockInv
  <1>2. ASSUME NEW w \in Workers, NEW p \in wire, ReceivePuback(w, p)
       PROVE  LockInv'
    BY <1>2, <1>0 DEF ReceivePuback, RemoveInflight, LockInv
  <1>3. ASSUME NEW w \in Workers, NEW p \in wire, ReceivePubrec(w, p)
       PROVE  LockInv'
    BY <1>3, <1>0 DEF ReceivePubrec, LockInv
  <1>4. ASSUME NEW w \in Workers, NEW p \in wire, ReceivePubcomp(w, p)
       PROVE  LockInv'
    BY <1>4, <1>0 DEF ReceivePubcomp, RemoveInflight, LockInv
  <1>5. ASSUME NEW w \in Workers, NEW i \in Ids, Retry(w, i)
       PROVE  LockInv'
    BY <1>5, <1>0 DEF Retry, LockInv
  <1>6. ASSUME NEW w \in Workers, HandleMessage(w)
       PROVE  LockInv'
    BY <1>6, <1>0 DEF HandleMessage, LockInv
  <1>7. ASSUME NEW w \in Workers, PublishQos0(w)
       PROVE  LockInv'
    BY <1>7, <1>0 DEF PublishQos0, AfterMessage, LockInv
  <1>8. ASSUME NEW w \in Workers, EnqueueSize(w)
       PROVE  LockInv'
    BY <1>8, <1>0 DEF EnqueueSize, LockInv
  <1>9. ASSUME NEW w \in Workers, EnqueuePoll(w)
       PROVE  LockInv'
    BY <1>9, <1>0 DEF EnqueuePoll, LockInv
  <1>10. ASSUME NEW w \in Workers, EnqueueAdd(w)
       PROVE  LockInv'
    BY <1>10, <1>0 DEF EnqueueAdd, AfterMessage, ReleaseInflightCas, LockInv
  <1>11. ASSUME NEW w \in Workers, InflightTake(w)
       PROVE  LockInv'
    BY <1>11, <1>0 DEF InflightTake, TakeInflightCas, LockInv
  <1>12. ASSUME NEW w \in Workers, InflightPut(w)
       PROVE  LockInv'
    BY <1>12, <1>0 DEF InflightPut, PutInflight, LockInv
  <1>13. ASSUME NEW w \in Workers, InflightPublish(w)
       PROVE  LockInv'
    BY <1>13, <1>0 DEF InflightPublish, AfterMessage, ReleaseInflightCas,
       LockInv
  <1>14. ASSUME NEW w \in Workers, DequeueTake(w)
       PROVE  LockInv'
    BY <1>14, <1>0 DEF DequeueTake, LockInv
  <1>15. ASSUME NEW w \in Workers, DequeueCheck(w)
       PROVE  LockInv'
    BY <1>15, <1>0 DEF DequeueCheck, LockInv
  <1>16. ASSUME NEW w \in Workers, DequeueTakeInflight(w)
       PROVE  LockInv'
    BY <1>16, <1>0 DEF DequeueTakeInflight, TakeInflightCas, LockInv
  <1>17. ASSUME NEW w \in Workers, DequeuePoll(w)
       PROVE  LockInv'
    BY <1>17, <1>0 DEF DequeuePoll, ReleaseInflightCas, MustStop, LockInv
  <1>18. ASSUME NEW w \in Workers, DequeuePublishQos0(w)
       PROVE  LockInv'
    BY <1>18, <1>0 DEF DequeuePublishQos0, BreakDequeue, ReleaseInflightCas,
       LockInv
  <1>19. ASSUME NEW w \in Workers, DequeuePut(w)
       PROVE  LockInv'
    BY <1>19, <1>0 DEF DequeuePut, PutInflight, BreakDequeue,
       ReleaseInflightCas, LockInv
  <1>20. ASSUME NEW w \in Workers, DequeuePublish(w)
       PROVE  LockInv'
    BY <1>20, <1>0 DEF DequeuePublish, ReleaseInflightCas, LockInv
  <1>21. ASSUME NEW w \in Workers, DequeueEnd(w)
       PROVE  LockInv'
    BY <1>21, <1>0 DEF DequeueEnd, LockInv
  <1>22. ASSUME NEW w \in Workers, SetPubrecStatus(w)
       PROVE  LockInv'
    BY <1>22, <1>0 DEF SetPubrecStatus, LockInv
  <1>23. ASSUME NEW w \in Workers, RetryRelease(w)
       PROVE  LockInv'
    BY <1>23, <1>0 DEF RetryRelease, LockInv
  <1>24. ASSUME NEW w \in Workers, RetryTake(w)
       PROVE  LockInv'
    BY <1>24, <1>0 DEF RetryTake, TakeInflightCas, LockInv
  <1>25. ASSUME NEW w \in Workers, RetryPut(w)
       PROVE  LockInv'
    BY <1>25, <1>0 DEF RetryPut, ReleaseInflightCas, LockInv
  <1>26. ASSUME NEW w \in Workers, RetryPublish(w)
       PROVE  LockInv'
    BY <1>26, <1>0 DEF RetryPublish, ReleaseInflightCas, LockInv
  <1>27. ASSUME NEW i \in Ids, Expire(i)
       PROVE  LockInv'
    BY <1>27, <1>0 DEF Expire, workerVars, LockInv
  <1>28. CASE Disconnect
    BY <1>28, <1>0 DEF Disconnect, LockInv
  <1>29. CASE UNCHANGED vars
    BY <1>29 DEF vars, sharedVars, workerVars, historyVars, LockInv
  <1>30. QED
    BY <1>1, <1>2, <1>3, <1>4, <1>5, <1>6, <1>7, <1>8, <1>9, <1>10, <1>11,
       <1>12, <1>13, <1>14, <1>15, <1>16, <1>17, <1>18, <1>19, <1>20, <1>21,
       <1>22, <1>23, <1>24, <1>25, <1>26, <1>27, <1>28, <1>29 DEF Next,
       WorkerStep, ReceiveAnswer, Quiet

\* Every step keeps the entries of `inflights' in order.
LEMMA EntriesStep ==
    ASSUME EndpointTypes, InflightTypes, ObjectTypes, ControlInv, [Next]_vars
    PROVE  EntriesInv'
  <1>0. /\ inflights \in [Ids -> Msgs \cup {None}]
        /\ mid \in [Msgs -> 0..MaxMessageId]
        /\ NextMessageId \in Ids
        /\ EntriesInv
    BY NextId DEF EndpointTypes, InflightTypes, ObjectTypes, ControlInv
  <1>1. ASSUME NEW w \in Workers, NEW S \in Batches, PublishMessage(w, S)
       PROVE  EntriesInv'
    BY <1>1, <1>0 DEF PublishMessage, EntriesInv
  <1>2. ASSUME NEW w \in Workers, NEW p \in wire, ReceivePuback(w, p)
       PROVE  EntriesInv'
    BY <1>2, <1>0 DEF ReceivePuback, RemoveInflight, EntriesInv
  <1>3. ASSUME NEW w \in Workers, NEW p \in wire, ReceivePubrec(w, p)
       PROVE  EntriesInv'
    BY <1>3, <1>0 DEF ReceivePubrec, EntriesInv
  <1>4. ASSUME NEW w \in Workers, NEW p \in wire, ReceivePubcomp(w, p)
       PROVE  EntriesInv'
    BY <1>4, <1>0 DEF ReceivePubcomp, RemoveInflight, EntriesInv
  <1>5. ASSUME NEW w \in Workers, NEW i \in Ids, Retry(w, i)
       PROVE  EntriesInv'
    BY <1>5, <1>0 DEF Retry, EntriesInv
  <1>6. ASSUME NEW w \in Workers, HandleMessage(w)
       PROVE  EntriesInv'
    BY <1>6, <1>0 DEF HandleMessage, EntriesInv
  <1>7. ASSUME NEW w \in Workers, PublishQos0(w)
       PROVE  EntriesInv'
    BY <1>7, <1>0 DEF PublishQos0, EntriesInv
  <1>8. ASSUME NEW w \in Workers, EnqueueSize(w)
       PROVE  EntriesInv'
    BY <1>8, <1>0 DEF EnqueueSize, EntriesInv
  <1>9. ASSUME NEW w \in Workers, EnqueuePoll(w)
       PROVE  EntriesInv'
    BY <1>9, <1>0 DEF EnqueuePoll, EntriesInv
  <1>10. ASSUME NEW w \in Workers, EnqueueAdd(w)
       PROVE  EntriesInv'
    BY <1>10, <1>0 DEF EnqueueAdd, EntriesInv
  <1>11. ASSUME NEW w \in Workers, InflightTake(w)
       PROVE  EntriesInv'
    BY <1>11, <1>0 DEF InflightTake, EntriesInv
  <1>12. ASSUME NEW w \in Workers, InflightPut(w)
       PROVE  EntriesInv'
    <2>1. cur[w] \in Msgs
      BY <1>12 DEF InflightPut, ControlInv, LocalsInv, Carrying,
         FirstDelivery, Enqueuing
    <2>2. CASE PutInflight(cur[w])
      BY <2>1, <2>2, <1>0 DEF PutInflight, EntriesInv
    <2>3. CASE UNCHANGED <<mid, inflights>>
      BY <1>0, <2>3 DEF EntriesInv
    <2>4. QED
      BY <1>12, <2>2, <2>3 DEF InflightPut
  <1>13. ASSUME NEW w \in Workers, InflightPublish(w)
       PROVE  EntriesInv'
    BY <1>13, <1>0 DEF InflightPublish, EntriesInv
  <1>14. ASSUME NEW w \in Workers, DequeueTake(w)
       PROVE  EntriesInv'
    BY <1>14, <1>0 DEF DequeueTake, EntriesInv
  <1>15. ASSUME NEW w \in Workers, DequeueCheck(w)
       PROVE  EntriesInv'
    BY <1>15, <1>0 DEF DequeueCheck, EntriesInv
  <1>16. ASSUME NEW w \in Workers, DequeueTakeInflight(w)
       PROVE  EntriesInv'
    BY <1>16, <1>0 DEF DequeueTakeInflight, EntriesInv
  <1>17. ASSUME NEW w \in Workers, DequeuePoll(w)
       PROVE  EntriesInv'
    BY <1>17, <1>0 DEF DequeuePoll, EntriesInv
  <1>18. ASSUME NEW w \in Workers, DequeuePublishQos0(w)
       PROVE  EntriesInv'
    BY <1>18, <1>0 DEF DequeuePublishQos0, EntriesInv
  <1>19. ASSUME NEW w \in Workers, DequeuePut(w)
       PROVE  EntriesInv'
    <2>1. cur[w] \in Msgs
      BY <1>19 DEF DequeuePut, ControlInv, LocalsInv, Carrying, FirstDelivery,
         Enqueuing
    <2>2. CASE PutInflight(cur[w])
      BY <2>1, <2>2, <1>0 DEF PutInflight, EntriesInv
    <2>3. CASE UNCHANGED <<mid, inflights>>
      BY <1>0, <2>3 DEF EntriesInv
    <2>4. QED
      BY <1>19, <2>2, <2>3 DEF DequeuePut
  <1>20. ASSUME NEW w \in Workers, DequeuePublish(w)
       PROVE  EntriesInv'
    BY <1>20, <1>0 DEF DequeuePublish, EntriesInv
  <1>21. ASSUME NEW w \in Workers, DequeueEnd(w)
       PROVE  EntriesInv'
    BY <1>21, <1>0 DEF DequeueEnd, EntriesInv
  <1>22. ASSUME NEW w \in Workers, SetPubrecStatus(w)
       PROVE  EntriesInv'
    BY <1>22, <1>0 DEF SetPubrecStatus, EntriesInv
  <1>23. ASSUME NEW w \in Workers, RetryRelease(w)
       PROVE  EntriesInv'
    BY <1>23, <1>0 DEF RetryRelease, EntriesInv
  <1>24. ASSUME NEW w \in Workers, RetryTake(w)
       PROVE  EntriesInv'
    BY <1>24, <1>0 DEF RetryTake, EntriesInv
  <1>25. ASSUME NEW w \in Workers, RetryPut(w)
       PROVE  EntriesInv'
    <2>1. cur[w] \in Msgs /\ old[w] \in Ids
      BY <1>25 DEF RetryPut, ControlInv, LocalsInv, Carrying, Retrying
    <2>2. CASE connected
      <3>1. /\ mid' = [mid EXCEPT ![cur[w]] = NextMessageId]
            /\ inflights' = [[inflights EXCEPT ![old[w]] = None] EXCEPT ![NextMessageId] = cur[w]]
        BY <1>25, <2>2 DEF RetryPut
      <3>2. QED
        BY <2>1, <3>1, <1>0 DEF EntriesInv
    <2>3. CASE ~connected
      BY <1>25, <1>0, <2>3 DEF RetryPut, EntriesInv
    <2>4. QED
      BY <2>2, <2>3
  <1>26. ASSUME NEW w \in Workers, RetryPublish(w)
       PROVE  EntriesInv'
    BY <1>26, <1>0 DEF RetryPublish, EntriesInv
  <1>27. ASSUME NEW i \in Ids, Expire(i)
       PROVE  EntriesInv'
    BY <1>27, <1>0 DEF Expire, workerVars, EntriesInv
  <1>28. CASE Disconnect
    BY <1>28, <1>0 DEF Disconnect, EntriesInv
  <1>29. CASE UNCHANGED vars
    BY <1>29, <1>0 DEF vars, sharedVars, workerVars, historyVars, EntriesInv
  <1>30. QED
    BY <1>1, <1>2, <1>3, <1>4, <1>5, <1>6, <1>7, <1>8, <1>9, <1>10, <1>11,
       <1>12, <1>13, <1>14, <1>15, <1>16, <1>17, <1>18, <1>19, <1>20, <1>21,
       <1>22, <1>23, <1>24, <1>25, <1>26, <1>27, <1>28, <1>29 DEF Next,
       WorkerStep, ReceiveAnswer, Quiet

\* TypeOK and the facts it rests on hold initially.
LEMMA CoreInit == Init => TypeOK /\ ControlInv /\ LockInv
  <1> SUFFICES ASSUME Init
               PROVE  TypeOK /\ ControlInv /\ LockInv
    OBVIOUS
  <1> USE DEF Init
  <1>1. EndpointTypes /\ InflightTypes /\ queue \in Seq(Msgs)
    BY DEF EndpointTypes, InflightTypes
  <1>2. ObjectTypes /\ LockTypes
    BY DEF ObjectTypes, LockTypes
  <1>3. WorkerTypes
    BY DEF WorkerTypes, Places
  <1>4. HistoryTypes
    BY DEF HistoryTypes
  <1>5. ControlInv
    BY DEF ControlInv, LocalsInv, EntriesInv, Carrying, FirstDelivery, Enqueuing,
           Retrying
  <1>6. LockInv
    BY DEF LockInv, CasExclusive, QueueSection, InflightSection
  <1>7. QED
    BY <1>1, <1>2, <1>3, <1>4, <1>5, <1>6 DEF TypeOK

\* The core of the invariant is inductive.
LEMMA CoreStep ==
    TypeOK /\ ControlInv /\ LockInv /\ [Next]_vars
        => (TypeOK /\ ControlInv /\ LockInv)'
  <1> SUFFICES ASSUME TypeOK, ControlInv, LockInv, [Next]_vars
               PROVE  (TypeOK /\ ControlInv /\ LockInv)'
    OBVIOUS
  <1>0. /\ EndpointTypes /\ InflightTypes /\ ObjectTypes /\ LockTypes
        /\ WorkerTypes /\ queue \in Seq(Msgs)
    BY DEF TypeOK
  <1>1. TypeOK'
    BY TypeStep
  <1>2. LocalsInv'
    BY <1>0, LocalsStep
  <1>3. EntriesInv'
    BY <1>0, EntriesStep
  <1>4. LockInv'
    BY <1>0, LockStep
  <1>5. QED
    BY <1>1, <1>2, <1>3, <1>4 DEF ControlInv

\* Whatever the workers, the client and the timers do, every variable of the
\* session keeps its type: no packet id leaves 1..MaxMessageId and no worker
\* publishes, queues or files a null message.
THEOREM TypeCorrect == Spec => []TypeOK
  <1>1. QED
    BY CoreInit, CoreStep, PTL DEF Spec

\* takeQueueCas and takeInflightCas keep all but one worker out of dequeue()
\* and of the sections that predict a packet id, for any number of workers.
THEOREM CasIsExclusive == Spec => []CasExclusive
  <1>1. TypeOK /\ ControlInv /\ LockInv => CasExclusive
    BY DEF LockInv
  <1>2. QED
    BY CoreInit, CoreStep, <1>1, PTL DEF Spec

=============================================================================
