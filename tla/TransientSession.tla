-------------------------- MODULE TransientSession --------------------------
(***************************************************************************)
(* The outbound side of one MQTT session whose client connected with       *)
(* cleanSession = true: class TransientSessionWrapper, with the queue it   *)
(* keeps (BoundedConcurrentLinkedQueue) and the packet identifier it       *)
(* predicts (IdUtil.nextMessageId).                                        *)
(*                                                                         *)
(* Every entry point of the wrapper is called from                         *)
(* vertx.executeBlocking(..., ordered = false), that is, by any worker     *)
(* thread at any time: publishes routed to this client, retained messages, *)
(* acknowledgements and expired inflight timers of ONE client interleave.  *)
(* A worker runs one handler at a time; pc[w] is its place in the handler, *)
(* and a step ends where another worker can observe or disturb the shared  *)
(* state.                                                                  *)
(*                                                                         *)
(* Data is abstracted to what tells messages apart: an element of Msgs is  *)
(* one message object (publishMessage and publishRetainMessage both build  *)
(* a fresh one), with its delivery QoS.  Metrics are left out, except that *)
(* a message counted as dropped is remembered in `dropped'.                *)
(***************************************************************************)
EXTENDS Integers, Sequences, FiniteSets

CONSTANTS
    Workers,        \* the threads of the Vert.x worker pool
    Msgs,           \* the message objects that may be published to this client
    Qos,            \* the QoS each message object is delivered with
    Batches,        \* the groups of messages one handler call delivers
    InflightMax,    \* Config.getSessionInflightMaxCapacity(), 0 = no limit
    QueueMax,       \* Config.getSessionQueueMaxCapacity(), 0 = no limit
    MaxRetries,     \* Config.getSessionInflightMaxRetries()
    StoreQos0,      \* Config.isSessionQueueStoreQos0()
    MaxMessageId,   \* MsgConst.MAX_MESSAGE_ID, 65535 in the code
    None            \* Java's null

ASSUME ConstantsAssumption ==
    /\ IsFiniteSet(Workers)
    /\ Qos \in [Msgs -> 0..2]
    /\ Batches \subseteq SUBSET Msgs
    /\ InflightMax \in Nat
    /\ QueueMax \in Nat
    /\ MaxRetries \in Nat
    /\ StoreQos0 \in BOOLEAN
    /\ MaxMessageId \in Nat \ {0}
    /\ None \notin Msgs

Ids == 1..MaxMessageId

(***************************************************************************)
(* Shared state of the wrapper and its endpoint.                           *)
(***************************************************************************)
VARIABLES
    connected,      \* endpoint.isConnected()
    lastId,         \* endpoint.lastMessageId(); 0 before the first publish
    queue,          \* the session queue, oldest message first
    inflights,      \* packet id -> message object, None where there is no entry
    timeouts,       \* keys of the ExpiringMap `timeouts'
    expired,        \* expired keys whose retry(key) waits for a worker
    queueCas,       \* AtomicInteger queueCas
    inflightCas,    \* AtomicInteger inflightCas
    mid,            \* MqttMessage.messageId of each object
    status,         \* MqttMessage.status of each object
    retry,          \* MqttMessage.retry of each object
    wire            \* packets the client still has to answer

sharedVars == <<connected, lastId, queue, inflights, timeouts, expired,
                queueCas, inflightCas, mid, status, retry, wire>>

(***************************************************************************)
(* Control state of each worker.                                           *)
(***************************************************************************)
VARIABLES
    pc,             \* place in the handler, "idle" between handlers
    cur,            \* the message the worker has in its hands
    old,            \* retryInflight's local variable `old'
    rec,            \* the PUBLISH whose PUBREC the worker handles
    todo,           \* messages of this call not handled yet
    enqueued,       \* publishMessage's / publishRetainMessage's `count > 0'
    holds           \* inside a try block that ends in releaseInflightCas()

workerVars == <<pc, cur, old, rec, todo, enqueued, holds>>

(***************************************************************************)
(* History, read by properties only.                                       *)
(***************************************************************************)
VARIABLES
    turn,           \* order in which handleMessage took the messages, 0 = not yet
    clock,          \* number of messages taken so far
    sends,          \* PUBLISH packets sent for each message
    published,      \* all PUBLISH packets sent on this connection
    acked,          \* messages whose PUBACK / PUBCOMP has been handled
    dropped         \* messages counted as dropped

historyVars == <<turn, clock, sends, published, acked, dropped>>

vars == <<sharedVars, workerVars, historyVars>>

\* Groups of variables that actions leave alone together.
endpointVars == <<connected, lastId, published, sends, wire>>
inflightVars == <<inflights, timeouts, expired>>
objectVars   == <<mid, status, retry>>
casVars      == <<queueCas, inflightCas, holds>>
callVars     == <<todo, enqueued, rec>>
orderVars    == <<turn, clock>>
outcomeVars  == <<acked, dropped>>

-----------------------------------------------------------------------------
(* Types *)

Packets == [type : {"PUBLISH", "PUBREL"}, id : Ids, msg : Msgs]

Enqueuing == {"enqSize", "enqPoll", "enqAdd"}

\* Places between takeQueueCas() and releaseQueueCas().
QueueSection == {"dqChk", "dqIn", "dqPoll", "dqPub0", "dqPut", "dqPub", "dqEnd"}

\* Places that are reached only between takeInflightCas() and
\* releaseInflightCas(); a worker that enqueues may be there or not.
InflightSection == {"inPut", "inPub", "dqPoll", "dqPub0", "dqPut", "dqPub",
                    "rtPut", "rtPub"}

\* Places between inflights.put(...) and endpoint.publish(...).
PublishPending == {"inPub", "dqPub", "rtPub"}

Places == {"idle", "handle", "pub0", "inTake", "dqTake", "recSet", "rtRel", "rtTake"}
          \cup Enqueuing \cup QueueSection \cup InflightSection

EndpointTypes ==
    /\ connected \in BOOLEAN
    /\ lastId \in 0..MaxMessageId
    /\ wire \subseteq Packets
    /\ sends \in [Msgs -> Nat]
    /\ published \in Nat

InflightTypes ==
    /\ inflights \in [Ids -> Msgs \cup {None}]
    /\ timeouts \subseteq Ids
    /\ expired \subseteq Ids

ObjectTypes ==
    /\ mid \in [Msgs -> 0..MaxMessageId]
    /\ status \in [Msgs -> {"PUBLISH", "PUBREC"}]
    /\ retry \in [Msgs -> Nat]

LockTypes ==
    /\ queueCas \in {0, 1}
    /\ inflightCas \in {0, 1}
    /\ holds \in [Workers -> BOOLEAN]

WorkerTypes ==
    /\ pc \in [Workers -> Places]
    /\ cur \in [Workers -> Msgs \cup {None}]
    /\ old \in [Workers -> 0..MaxMessageId]
    /\ rec \in [Workers -> Packets \cup {None}]
    /\ todo \in [Workers -> SUBSET Msgs]
    /\ enqueued \in [Workers -> BOOLEAN]

HistoryTypes ==
    /\ turn \in [Msgs -> Nat]
    /\ clock \in Nat
    /\ acked \subseteq Msgs
    /\ dropped \subseteq Msgs

\* Every variable holds a value of its Java type; in particular every packet
\* id that is stored or sent lies in 1..MaxMessageId.
TypeOK ==
    /\ EndpointTypes /\ InflightTypes /\ ObjectTypes /\ LockTypes
    /\ WorkerTypes /\ HistoryTypes
    /\ queue \in Seq(Msgs)

Init ==
    /\ connected = TRUE
    /\ lastId = 0
    /\ queue = <<>>
    /\ inflights = [i \in Ids |-> None]
    /\ timeouts = {}
    /\ expired = {}
    /\ queueCas = 0
    /\ inflightCas = 0
    /\ mid = [m \in Msgs |-> 0]
    /\ status = [m \in Msgs |-> "PUBLISH"]
    /\ retry = [m \in Msgs |-> 0]
    /\ wire = {}
    /\ pc = [w \in Workers |-> "idle"]
    /\ cur = [w \in Workers |-> None]
    /\ old = [w \in Workers |-> 0]
    /\ rec = [w \in Workers |-> None]
    /\ todo = [w \in Workers |-> {}]
    /\ enqueued = [w \in Workers |-> FALSE]
    /\ holds = [w \in Workers |-> FALSE]
    /\ turn = [m \in Msgs |-> 0]
    /\ clock = 0
    /\ sends = [m \in Msgs |-> 0]
    /\ published = 0
    /\ acked = {}
    /\ dropped = {}

-----------------------------------------------------------------------------
(* Helpers *)

Goto(w, place) == pc' = [pc EXCEPT ![w] = place]

\* Wrong variants.  An operator named Bad... is a slip somebody could make in
\* the definition of the same name; nothing uses it except the check that the
\* properties below would notice.
BadNextMessageId == lastId
BadRetriesExhausted(m) == retry[m] > MaxRetries
BadQueueIsFull == QueueMax > 0 /\ Len(queue) > QueueMax

\* IdUtil.nextMessageId of a connected endpoint: the id the endpoint is
\* expected to give to the packet it sends next.
NextMessageId == IF lastId % MaxMessageId # 0 THEN lastId + 1 ELSE 1

InflightIds == {i \in Ids : inflights[i] # None}

IsInflightFull == InflightMax > 0 /\ Cardinality(InflightIds) >= InflightMax

RetriesExhausted(m) == retry[m] >= MaxRetries

QueueIsFull == QueueMax > 0 /\ Len(queue) >= QueueMax

BadMustQueue == queue = <<>> /\ IsInflightFull

\* The test that opens inflight(): the message has to wait in the queue.
MustQueue == queue # <<>> \/ IsInflightFull

\* The test that dequeue() makes twice: nothing can be sent from the queue now.
MustStop == ~connected \/ queue = <<>> \/ IsInflightFull

\* Where the worker goes when one message of its call has been handled:
\* the rest of the call, then one dequeue() if anything was enqueued.
AfterMessage(w, enq) ==
    IF todo[w] # {} THEN "handle" ELSE IF enq THEN "dqTake" ELSE "idle"

\* The result of the compare-and-set is ignored.
BadTakeInflightCas(w) ==
    /\ inflightCas' = 1
    /\ holds' = [holds EXCEPT ![w] = TRUE]

\* takeInflightCas(): spins until the compare-and-set succeeds.
TakeInflightCas(w) ==
    /\ inflightCas = 0
    /\ inflightCas' = 1
    /\ holds' = [holds EXCEPT ![w] = TRUE]

\* releaseInflightCas() in the finally block.
ReleaseInflightCas(w) ==
    /\ inflightCas' = 0
    /\ holds' = [holds EXCEPT ![w] = FALSE]

\* endpoint.publish: the endpoint gives the packet the next id of its
\* counter, whatever its QoS.  The client answers only QoS 1 and QoS 2.
EndpointPublish(m) ==
    /\ lastId' = NextMessageId
    /\ published' = published + 1
    /\ sends' = [sends EXCEPT ![m] = @ + 1]
    /\ wire' = IF Qos[m] = 0 THEN wire
               ELSE wire \cup {[type |-> "PUBLISH", id |-> NextMessageId, msg |-> m]}

\* publish(message, everPublished): nothing is sent on a closed endpoint.
Publish(m) ==
    \/ connected /\ EndpointPublish(m)
    \/ ~connected /\ UNCHANGED <<lastId, published, sends, wire>>

\* message.setMessageId, inflights.put and saveInflightTimeout for a
\* message that has just been given the packet id the endpoint will use.
PutInflight(m) ==
    /\ mid' = [mid EXCEPT ![m] = NextMessageId]
    /\ inflights' = [inflights EXCEPT ![NextMessageId] = m]
    /\ timeouts' = timeouts \cup {NextMessageId}

-----------------------------------------------------------------------------
(* publishMessage, publishRetainMessage, handleMessage                     *)

\* A worker starts a call that delivers the messages S: one message for
\* publishMessage, the matching retained messages for publishRetainMessage.
\* Each message object is new.
PublishMessage(w, S) ==
    /\ pc[w] = "idle"
    /\ S # {}
    /\ \A m \in S : turn[m] = 0 /\ \A v \in Workers : m \notin todo[v]
    /\ Goto(w, "handle")
    /\ todo' = [todo EXCEPT ![w] = S]
    /\ enqueued' = [enqueued EXCEPT ![w] = FALSE]
    /\ UNCHANGED <<endpointVars, queue, inflightVars, objectVars, casVars,
                   cur, old, rec, orderVars, outcomeVars>>

\* handleMessage and the first test of inflight(): publish at once, try the
\* inflight window, or enqueue.
HandleMessage(w) ==
    /\ pc[w] = "handle"
    /\ \E m \in todo[w] :
         /\ cur' = [cur EXCEPT ![w] = m]
         /\ todo' = [todo EXCEPT ![w] = @ \ {m}]
         /\ turn' = [turn EXCEPT ![m] = clock + 1]
         /\ clock' = clock + 1
         /\ \/ /\ Qos[m] = 0
               /\ Goto(w, IF StoreQos0 /\ queue # <<>> THEN "enqSize" ELSE "pub0")
            \/ /\ Qos[m] > 0
               /\ Goto(w, IF MustQueue THEN "enqSize" ELSE "inTake")
    /\ UNCHANGED <<endpointVars, queue, inflightVars, objectVars, casVars,
                   old, rec, enqueued, outcomeVars>>

\* A QoS 0 message is published without taking inflightCas.
PublishQos0(w) ==
    /\ pc[w] = "pub0"
    /\ Publish(cur[w])
    /\ Goto(w, AfterMessage(w, enqueued[w]))
    /\ cur' = [cur EXCEPT ![w] = None]
    /\ UNCHANGED <<connected, queue, inflightVars, objectVars, casVars, old,
                   callVars, orderVars, outcomeVars>>

-----------------------------------------------------------------------------
(* enqueue: BoundedConcurrentLinkedQueue.addExt, three steps               *)

EnqueueSize(w) ==
    /\ pc[w] = "enqSize"
    /\ Goto(w, IF QueueIsFull THEN "enqPoll" ELSE "enqAdd")
    /\ UNCHANGED <<endpointVars, queue, inflightVars, objectVars, casVars, cur,
                   old, callVars, orderVars, outcomeVars>>

\* The oldest message makes room; the queue may have been emptied meanwhile.
EnqueuePoll(w) ==
    /\ pc[w] = "enqPoll"
    /\ \/ /\ queue # <<>>
          /\ queue' = Tail(queue)
          /\ dropped' = dropped \cup {Head(queue)}
       \/ /\ queue = <<>>
          /\ UNCHANGED <<queue, dropped>>
    /\ Goto(w, "enqAdd")
    /\ UNCHANGED <<endpointVars, inflightVars, objectVars, casVars, cur, old,
                   callVars, orderVars, acked>>

\* The message is queued; a caller inside inflight()'s try block leaves it.
EnqueueAdd(w) ==
    /\ pc[w] = "enqAdd"
    /\ queue' = Append(queue, cur[w])
    /\ enqueued' = [enqueued EXCEPT ![w] = TRUE]
    /\ \/ holds[w] /\ ReleaseInflightCas(w)
       \/ ~holds[w] /\ UNCHANGED <<inflightCas, holds>>
    /\ Goto(w, AfterMessage(w, TRUE))
    /\ cur' = [cur EXCEPT ![w] = None]
    /\ UNCHANGED <<endpointVars, inflightVars, objectVars, queueCas, old, todo,
                   rec, orderVars, outcomeVars>>

-----------------------------------------------------------------------------
(* inflight                                                                *)

InflightTake(w) ==
    /\ pc[w] = "inTake"
    /\ TakeInflightCas(w)
    /\ Goto(w, "inPut")
    /\ UNCHANGED <<endpointVars, queue, inflightVars, objectVars, queueCas, cur,
                   old, callVars, orderVars, outcomeVars>>

\* The window is not tested again once inflightCas is taken.
BadInflightPut(w) ==
    /\ pc[w] = "inPut"
    /\ PutInflight(cur[w])
    /\ Goto(w, "inPub")
    /\ UNCHANGED <<endpointVars, queue, expired, status, retry, casVars, cur,
                   old, callVars, orderVars, outcomeVars>>

\* The test again, now under inflightCas; on a closed endpoint there is no
\* packet id and the message is enqueued.
InflightPut(w) ==
    /\ pc[w] = "inPut"
    /\ \/ /\ MustQueue \/ ~connected
          /\ Goto(w, "enqSize")
          /\ UNCHANGED <<mid, inflights, timeouts>>
       \/ /\ ~MustQueue /\ connected
          /\ PutInflight(cur[w])
          /\ Goto(w, "inPub")
    /\ UNCHANGED <<endpointVars, queue, expired, status, retry, casVars, cur,
                   old, callVars, orderVars, outcomeVars>>

InflightPublish(w) ==
    /\ pc[w] = "inPub"
    /\ Publish(cur[w])
    /\ ReleaseInflightCas(w)
    /\ Goto(w, AfterMessage(w, enqueued[w]))
    /\ cur' = [cur EXCEPT ![w] = None]
    /\ UNCHANGED <<connected, queue, inflightVars, objectVars, queueCas, old,
                   callVars, orderVars, outcomeVars>>

-----------------------------------------------------------------------------
(* dequeue                                                                 *)

\* dequeue() runs without waiting for queueCas.
BadDequeueTake(w) ==
    /\ pc[w] = "dqTake"
    /\ queueCas' = 1
    /\ Goto(w, "dqChk")
    /\ UNCHANGED <<endpointVars, queue, inflightVars, objectVars, inflightCas,
                   holds, cur, old, callVars, orderVars, outcomeVars>>

\* Only one worker drains the queue; the others return at once.
DequeueTake(w) ==
    /\ pc[w] = "dqTake"
    /\ \/ queueCas = 0 /\ queueCas' = 1 /\ Goto(w, "dqChk")
       \/ queueCas = 1 /\ Goto(w, "idle") /\ UNCHANGED queueCas
    /\ UNCHANGED <<endpointVars, queue, inflightVars, objectVars, inflightCas,
                   holds, cur, old, callVars, orderVars, outcomeVars>>

DequeueCheck(w) ==
    /\ pc[w] = "dqChk"
    /\ Goto(w, IF MustStop THEN "dqEnd" ELSE "dqIn")
    /\ UNCHANGED <<endpointVars, queue, inflightVars, objectVars, casVars, cur,
                   old, callVars, orderVars, outcomeVars>>

DequeueTakeInflight(w) ==
    /\ pc[w] = "dqIn"
    /\ TakeInflightCas(w)
    /\ Goto(w, "dqPoll")
    /\ UNCHANGED <<endpointVars, queue, inflightVars, objectVars, queueCas, cur,
                   old, callVars, orderVars, outcomeVars>>

\* The test again under inflightCas, then queue.poll().
DequeuePoll(w) ==
    /\ pc[w] = "dqPoll"
    /\ \/ /\ MustStop
          /\ ReleaseInflightCas(w)
          /\ Goto(w, "dqEnd")
          /\ UNCHANGED <<queue, cur>>
       \/ /\ ~MustStop
          /\ queue' = Tail(queue)
          /\ cur' = [cur EXCEPT ![w] = Head(queue)]
          /\ Goto(w, IF Qos[Head(queue)] = 0 THEN "dqPub0" ELSE "dqPut")
          /\ UNCHANGED <<inflightCas, holds>>
    /\ UNCHANGED <<endpointVars, inflightVars, objectVars, queueCas, old,
                   callVars, orderVars, outcomeVars>>

\* The loop is left by `break' with the message in hand: it is lost.
BreakDequeue(w) ==
    /\ ReleaseInflightCas(w)
    /\ Goto(w, "dqEnd")
    /\ cur' = [cur EXCEPT ![w] = None]

\* A queued QoS 0 message: publish() returns 0, so the condition of the `if'
\* is false and the else branch goes on with the same message.
DequeuePublishQos0(w) ==
    /\ pc[w] = "dqPub0"
    /\ \/ connected /\ Goto(w, "dqPut") /\ UNCHANGED <<inflightCas, holds, cur>>
       \/ ~connected /\ BreakDequeue(w)
    /\ Publish(cur[w])
    /\ UNCHANGED <<connected, queue, inflightVars, objectVars, queueCas, old,
                   callVars, orderVars, outcomeVars>>

DequeuePut(w) ==
    /\ pc[w] = "dqPut"
    /\ \/ /\ connected
          /\ PutInflight(cur[w])
          /\ Goto(w, "dqPub")
          /\ UNCHANGED <<inflightCas, holds, cur>>
       \/ /\ ~connected
          /\ BreakDequeue(w)
          /\ UNCHANGED <<mid, inflights, timeouts>>
    /\ UNCHANGED <<endpointVars, queue, expired, status, retry, queueCas, old,
                   callVars, orderVars, outcomeVars>>

DequeuePublish(w) ==
    /\ pc[w] = "dqPub"
    /\ Publish(cur[w])
    /\ ReleaseInflightCas(w)
    /\ Goto(w, "dqChk")
    /\ cur' = [cur EXCEPT ![w] = None]
    /\ UNCHANGED <<connected, queue, inflightVars, objectVars, queueCas, old,
                   callVars, orderVars, outcomeVars>>

DequeueEnd(w) ==
    /\ pc[w] = "dqEnd"
    /\ queueCas' = 0
    /\ Goto(w, "idle")
    /\ UNCHANGED <<endpointVars, queue, inflightVars, objectVars, inflightCas,
                   holds, cur, old, callVars, orderVars, outcomeVars>>

-----------------------------------------------------------------------------
(* receivePuback, receivePubrec, receivePubcomp.  The client answers a     *)
(* packet at any time or never, and its answers are handled in any order.  *)

\* The acknowledgement is not followed by publishCachedMessage().
BadRemoveInflight(w, p) ==
    /\ inflights' = [inflights EXCEPT ![p.id] = None]
    /\ timeouts' = timeouts \ {p.id}
    /\ wire' = wire \ {p}
    /\ acked' = acked \cup {p.msg}
    /\ UNCHANGED <<connected, lastId, published, sends, queue, expired, pc,
                   objectVars, casVars, cur, old, callVars, orderVars, dropped>>

\* Entry and timer of the id the client acknowledged are removed, if there
\* are any, and the handler goes on with dequeue().
RemoveInflight(w, p) ==
    /\ inflights' = [inflights EXCEPT ![p.id] = None]
    /\ timeouts' = timeouts \ {p.id}
    /\ wire' = wire \ {p}
    /\ acked' = acked \cup {p.msg}
    /\ Goto(w, "dqTake")
    /\ UNCHANGED <<connected, lastId, published, sends, queue, expired,
                   objectVars, casVars, cur, old, callVars, orderVars, dropped>>

ReceivePuback(w, p) ==
    /\ pc[w] = "idle"
    /\ p.type = "PUBLISH" /\ Qos[p.msg] = 1
    /\ RemoveInflight(w, p)

ReceivePubcomp(w, p) ==
    /\ pc[w] = "idle"
    /\ p.type = "PUBREL"
    /\ RemoveInflight(w, p)

\* inflights.get(messageId); the status is set in a later step.
ReceivePubrec(w, p) ==
    /\ pc[w] = "idle"
    /\ p.type = "PUBLISH" /\ Qos[p.msg] = 2
    /\ cur' = [cur EXCEPT ![w] = inflights[p.id]]
    /\ rec' = [rec EXCEPT ![w] = p]
    /\ wire' = wire \ {p}
    /\ Goto(w, "recSet")
    /\ UNCHANGED <<connected, lastId, published, sends, queue, inflightVars,
                   objectVars, casVars, old, todo, enqueued, orderVars, outcomeVars>>

\* A PUBREL for packet id i reaches the client unless the endpoint is closed.
SendPubrel(i, m) ==
    wire' = IF connected THEN wire \cup {[type |-> "PUBREL", id |-> i, msg |-> m]}
            ELSE wire

\* message.setStatus, if there was a message; PUBREL is sent in any case.
SetPubrecStatus(w) ==
    /\ pc[w] = "recSet"
    /\ \/ cur[w] = None /\ UNCHANGED status
       \/ cur[w] # None /\ status' = [status EXCEPT ![cur[w]] = "PUBREC"]
    /\ SendPubrel(rec[w].id, rec[w].msg)
    /\ Goto(w, "idle")
    /\ cur' = [cur EXCEPT ![w] = None]
    /\ rec' = [rec EXCEPT ![w] = None]
    /\ UNCHANGED <<connected, lastId, published, sends, queue, inflightVars, mid,
                   retry, casVars, old, todo, enqueued, orderVars, outcomeVars>>

-----------------------------------------------------------------------------
(* Inflight timers and retry                                               *)

\* A timer of the ExpiringMap runs out: its listener submits retry(i).
Expire(i) ==
    /\ i \in timeouts
    /\ timeouts' = timeouts \ {i}
    /\ expired' = expired \cup {i}
    /\ UNCHANGED <<endpointVars, queue, inflights, objectVars, casVars, workerVars,
                   historyVars>>

\* retry(messageId) up to the branch of retryInflight: the entry is gone;
\* too many retries; PUBREL has to be repeated; PUBLISH has to be repeated.
Retry(w, i) ==
    LET m == inflights[i] IN
    /\ pc[w] = "idle"
    /\ i \in expired
    /\ expired' = expired \ {i}
    /\ \/ /\ m = None
          /\ UNCHANGED <<inflights, dropped, pc, cur, old>>
       \/ /\ m # None
          /\ RetriesExhausted(m)
          /\ inflights' = [inflights EXCEPT ![i] = None]
          /\ dropped' = dropped \cup {m}
          /\ Goto(w, "dqTake")
          /\ UNCHANGED <<cur, old>>
       \/ /\ m # None
          /\ ~RetriesExhausted(m)
          /\ cur' = [cur EXCEPT ![w] = m]
          /\ old' = [old EXCEPT ![w] = mid[m]]
          /\ Goto(w, IF Qos[m] = 2 /\ status[m] = "PUBREC" THEN "rtRel" ELSE "rtTake")
          /\ UNCHANGED <<inflights, dropped>>
    /\ UNCHANGED <<endpointVars, queue, timeouts, objectVars, casVars, callVars,
                   orderVars, acked>>

\* The timer is not started again.
BadRetryRelease(w) ==
    /\ pc[w] = "rtRel"
    /\ retry' = [retry EXCEPT ![cur[w]] = @ + 1]
    /\ SendPubrel(old[w], cur[w])
    /\ Goto(w, "idle")
    /\ cur' = [cur EXCEPT ![w] = None]
    /\ UNCHANGED <<connected, lastId, published, sends, queue, inflightVars,
                   mid, status, casVars, old, callVars, orderVars, outcomeVars>>

\* retryInflight of a message that waits for PUBCOMP.
RetryRelease(w) ==
    /\ pc[w] = "rtRel"
    /\ retry' = [retry EXCEPT ![cur[w]] = @ + 1]
    /\ timeouts' = timeouts \cup {old[w]}
    /\ SendPubrel(old[w], cur[w])
    /\ Goto(w, "idle")
    /\ cur' = [cur EXCEPT ![w] = None]
    /\ UNCHANGED <<connected, lastId, published, sends, queue, inflights, expired,
                   mid, status, casVars, old, callVars, orderVars, outcomeVars>>

RetryTake(w) ==
    /\ pc[w] = "rtTake"
    /\ TakeInflightCas(w)
    /\ Goto(w, "rtPut")
    /\ UNCHANGED <<endpointVars, queue, inflightVars, objectVars, queueCas, cur,
                   old, callVars, orderVars, outcomeVars>>

\* The entry under the old id stays.
BadRetryPut(w) ==
    /\ pc[w] = "rtPut"
    /\ connected
    /\ PutInflight(cur[w])
    /\ retry' = [retry EXCEPT ![cur[w]] = @ + 1]
    /\ Goto(w, "rtPub")
    /\ UNCHANGED <<endpointVars, queue, expired, status, casVars, cur, old,
                   callVars, orderVars, outcomeVars>>

\* The message moves from its old packet id to a new one.
RetryPut(w) ==
    /\ pc[w] = "rtPut"
    /\ \/ /\ connected
          /\ mid' = [mid EXCEPT ![cur[w]] = NextMessageId]
          /\ retry' = [retry EXCEPT ![cur[w]] = @ + 1]
          /\ inflights' = [[inflights EXCEPT ![old[w]] = None] EXCEPT ![NextMessageId] = cur[w]]
          /\ timeouts' = timeouts \cup {NextMessageId}
          /\ Goto(w, "rtPub")
          /\ UNCHANGED <<inflightCas, holds, cur>>
       \/ /\ ~connected
          /\ ReleaseInflightCas(w)
          /\ Goto(w, "idle")
          /\ cur' = [cur EXCEPT ![w] = None]
          /\ UNCHANGED <<mid, retry, inflights, timeouts>>
    /\ UNCHANGED <<endpointVars, queue, expired, status, queueCas, old, callVars,
                   orderVars, outcomeVars>>

RetryPublish(w) ==
    /\ pc[w] = "rtPub"
    /\ Publish(cur[w])
    /\ ReleaseInflightCas(w)
    /\ Goto(w, "idle")
    /\ cur' = [cur EXCEPT ![w] = None]
    /\ UNCHANGED <<connected, queue, inflightVars, objectVars, queueCas, old,
                   callVars, orderVars, outcomeVars>>

-----------------------------------------------------------------------------
(* The endpoint closes: the client disconnects, its connection breaks, or  *)
(* the server calls closeEndpoint().  Handlers already submitted still run.*)

Disconnect ==
    /\ connected
    /\ connected' = FALSE
    /\ UNCHANGED <<lastId, published, sends, wire, queue, inflightVars, objectVars,
                   casVars, pc, cur, old, callVars, orderVars, outcomeVars>>

\* No handler runs; the session waits for the next event.
Quiet ==
    /\ \A w \in Workers : pc[w] = "idle"
    /\ UNCHANGED vars

\* What a worker does next in the handler it is running.
WorkerStep(w) ==
    \/ HandleMessage(w)    \/ PublishQos0(w)
    \/ EnqueueSize(w)      \/ EnqueuePoll(w)          \/ EnqueueAdd(w)
    \/ InflightTake(w)     \/ InflightPut(w)          \/ InflightPublish(w)
    \/ DequeueTake(w)      \/ DequeueCheck(w)         \/ DequeueTakeInflight(w)
    \/ DequeuePoll(w)      \/ DequeuePublishQos0(w)   \/ DequeuePut(w)
    \/ DequeuePublish(w)   \/ DequeueEnd(w)           \/ SetPubrecStatus(w)
    \/ RetryRelease(w)     \/ RetryTake(w)            \/ RetryPut(w)
    \/ RetryPublish(w)

\* An idle worker takes an answer of the client.
ReceiveAnswer(w) ==
    \E p \in wire : ReceivePuback(w, p) \/ ReceivePubrec(w, p) \/ ReceivePubcomp(w, p)

Next ==
    \/ \E w \in Workers :
         \/ \E S \in Batches : PublishMessage(w, S)
         \/ ReceiveAnswer(w)
         \/ \E i \in Ids : Retry(w, i)
         \/ WorkerStep(w)
    \/ \E i \in Ids : Expire(i)
    \/ Disconnect
    \/ Quiet

Spec == Init /\ [][Next]_vars

\* The worker pool runs every submitted task to its end and the expiry
\* thread fires every timer.  Nothing is assumed of the client: it may never
\* answer, and nobody has to publish.
Fairness ==
    /\ \A w \in Workers : WF_vars(WorkerStep(w))
    /\ \A w \in Workers, i \in Ids : WF_vars(Retry(w, i))
    /\ \A i \in Ids : WF_vars(Expire(i))

FairSpec == Spec /\ Fairness

-----------------------------------------------------------------------------
(* Properties                                                              *)

\* The two spin locks of the wrapper work although they are released by an
\* unconditional set(0): at most one worker is inside dequeue() and at most
\* one is between takeInflightCas() and releaseInflightCas(), the workers
\* that enqueue from within inflight()'s try block included.
CasExclusive ==
    \A v, w \in Workers :
        v # w => /\ ~(pc[v] \in QueueSection /\ pc[w] \in QueueSection)
                 /\ ~(holds[v] /\ holds[w])

\* No packet id has been used twice on this connection yet.
IdsUnused == published < MaxMessageId

\* The wrapper predicts the packet id before the endpoint assigns it, and QoS 0
\* messages consume ids without taking inflightCas, so the id on the wire may
\* differ from the key in `inflights'.  Still an acknowledgement never removes
\* or updates the entry of ANOTHER message: an id the client can still answer
\* is either no key at all or the key of the message that was sent under it.
AckHitsOwnMessage ==
    IdsUnused => \A p \in wire : inflights[p.id] \in {None, p.msg}

\* An entry of `inflights' is filed under the id its message object carries,
\* which is what retryInflight reads to find the entry to replace.  So no
\* message has two entries, whatever retries and acknowledgements race.
KeyMatchesMessage ==
    IdsUnused => \A i \in InflightIds : mid[inflights[i]] = i

\* Messages sent and not yet confirmed never exceed the inflight window: the
\* only entries beyond the capacity are messages the client has confirmed.
UnackedWithinCapacity ==
    IdsUnused /\ InflightMax > 0 =>
        Cardinality({i \in InflightIds : inflights[i] \notin acked}) <= InflightMax

\* Places where a worker is the only one that knows a message.
FirstDelivery == Enqueuing \cup {"inTake", "inPut", "dqPub0", "dqPut"}

Queued(m) == \E j \in 1..Len(queue) : queue[j] = m
InFlight(m) == \E i \in Ids : inflights[i] = m
InHand(m) == \E w \in Workers : pc[w] \in FirstDelivery /\ cur[w] = m

\* While the client is connected no QoS 1 or QoS 2 message disappears: once
\* taken it is in a worker's hands, queued, inflight, confirmed by the client,
\* or counted as dropped (queue overflow or retries exhausted).
NoSilentLoss ==
    connected /\ IdsUnused =>
        \A m \in Msgs : turn[m] # 0 /\ Qos[m] > 0 =>
            InHand(m) \/ Queued(m) \/ InFlight(m) \/ m \in acked \/ m \in dropped

\* session.inflight.max-retries bounds the transmissions of a QoS 1 or QoS 2
\* message over all races of timers with each other and with late answers.
TransmitBound ==
    IdsUnused => \A m \in Msgs : Qos[m] > 0 => sends[m] <= 1 + MaxRetries

\* A session at rest has no message waiting in the queue although the window
\* has room: nothing but a new event would ever send it.  (Once ids are used
\* again, a retry may overwrite another entry and free a slot unnoticed.)
NoStranded ==
    IdsUnused /\ connected /\ (\A w \in Workers : pc[w] = "idle") /\ queue # <<>>
        => IsInflightFull

\* First transmissions of QoS 1 and QoS 2 messages happen in the order in
\* which the session took the messages, through queue and window.
OrderPreserved ==
    \A a, b \in Msgs :
        Qos[a] > 0 /\ Qos[b] > 0 /\ turn[a] # 0 /\ turn[a] < turn[b] /\ sends[b] > 0
            => sends[a] > 0 \/ a \in dropped \/ ~connected

\* Every QoS 1 or QoS 2 message that was taken is eventually confirmed or
\* counted as dropped, even if the client never answers, unless it disconnects.
EventuallySettled ==
    \A m \in Msgs :
        turn[m] # 0 /\ Qos[m] > 0 ~> m \in acked \/ m \in dropped \/ ~connected

\* addExt tests the size and adds in separate steps, so workers that enqueue
\* together can overrun session.queue.max-capacity; each of them by one message
\* at most, and the excess never accumulates.
QueueOvershootBounded ==
    QueueMax > 0 => Len(queue) <= QueueMax + Cardinality(Workers) - 1

=============================================================================
