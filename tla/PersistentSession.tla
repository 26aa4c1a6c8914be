------------------------- MODULE PersistentSession -------------------------
(***************************************************************************)
(* The outbound side of one MQTT session whose client connects with        *)
(* cleanSession = false: class PersistentSessionWrapper, the Ignite queue  *)
(* and inflight cache behind it, and the ways in which messages, answers,  *)
(* reconnections and timers reach it through the verticle and the session  *)
(* service.                                                                *)
(*                                                                         *)
(* What differs from TransientSession is what makes this session hard:     *)
(*   - the queue and the inflight entries live in Ignite, outlive every    *)
(*     connection and survive a crash; values are copies, never shared;    *)
(*   - every connection numbers its packets from 1 again;                  *)
(*   - open() runs before the endpoint is accepted;                        *)
(*   - a wrapper that was removed keeps its timers, and its workers go on; *)
(*   - messages that find no wrapper are queued past it.                   *)
(*                                                                         *)
(* A wrapper is named by the connection it was created for; a takeover     *)
(* gives it the endpoint of a later one.  QoS 0 messages are left to       *)
(* TransientSession, whose handling of them is the same.  Openings of one  *)
(* client id do not overlap here: SessionLifecycle is about those.  One    *)
(* call of BoundedIgniteMapUnsafe is one step: InboundQos2 is about the    *)
(* steps inside such a call.                                               *)
(***************************************************************************)
EXTENDS Integers, Sequences, FiniteSets

CONSTANTS
    Workers,        \* the threads of the Vert.x worker pool
    Msgs,           \* messages routed to this client
    Qos,            \* the QoS each message is delivered with
    InflightMax,    \* Config.getSessionInflightMaxCapacity()
    QueueMax,       \* Config.getSessionQueueMaxCapacity(), 0 = no limit
    MaxRetries,     \* Config.getSessionInflightMaxRetries()
    MaxMessageId,   \* MsgConst.MAX_MESSAGE_ID, 65535 in the code
    Workloads,      \* bound: the sets of messages one behaviour delivers
    MaxConns,       \* bound: connections of the client
    MaxCrashes,     \* bound: crashes of the server
    None            \* Java's null

ASSUME PersistentAssumption ==
    /\ Qos \in [Msgs -> 1..2]
    /\ InflightMax \in Nat
    /\ QueueMax \in Nat
    /\ MaxRetries \in Nat
    /\ MaxMessageId \in Nat \ {0}
    /\ Workloads \subseteq SUBSET Msgs
    /\ MaxConns \in Nat \ {0}
    /\ MaxCrashes \in Nat

Conns == 1..MaxConns

\* What IdUtil.nextMessageId answers for an endpoint that is not connected.
NoId == -1

Keys == {NoId} \cup 1..MaxMessageId

\* `by' is history: the connection whose counter gave the entry its key.
Entries == [msg : Msgs, status : {"PUBLISH", "PUBREC"}, retry : 0..MaxRetries + MaxConns - 1,
            by : 0..MaxConns]

ASSUME NullAssumption == None \notin Msgs /\ None \notin Conns /\ None \notin Entries

VARIABLES
    queue,          \* the IgniteQueue of the client, oldest message first
    queueOf,        \* the wrapper the queue was created for, None = closed
    inflights       \* the inflight cache: packet id -> entry or None

storeVars == <<queue, queueOf, inflights>>

VARIABLES
    conn,           \* "new", "opening", "accepted", "closing" or "closed"
    lastId,         \* endpoint.lastMessageId() of each connection
    spent,          \* history: connections that have used their last packet id
    wire,           \* packets whose answer may still be handled
    wrapper,        \* the client's entry in the map `wrappers', None if absent
    endpoint,       \* the field `endpoint' of each wrapper, None before it exists
    timeouts,       \* keys of the ExpiringMap of each wrapper
    expired,        \* expired keys whose retry(key) waits for a worker
    queueCas,       \* AtomicInteger queueCas of each wrapper
    inflightCas     \* AtomicInteger inflightCas of each wrapper

serverVars == <<conn, lastId, spent, wire, wrapper, endpoint, timeouts, expired,
                queueCas, inflightCas>>

\* What each worker is doing: a record with its place `pc' in the handler
\* ("idle" between handlers) and the handler's local variables
\*   on     the wrapper the handler works on
\*   cur    the message in the worker's hands
\*   copy   the entry the worker has read from the cache, key its packet id
\*   rec    the PUBLISH whose PUBREC the worker handles
\*   todo   open(): stored keys not retried yet
\*   items  QueueCacheImpl.queue: items of the old queue
\*   holds  inside a try block that ends in releaseInflightCas()
VARIABLE job

VARIABLES
    taken,          \* messages a delivery has started for
    acked,          \* messages whose PUBACK / PUBCOMP has been handled
    dropped,        \* messages dropped after too many retries
    evicted,        \* messages polled to make room in the queue
    revived,        \* keys under which a copy was stored, outside inflightCas,
                    \* although its entry had been removed in the meantime
    crashes         \* crashes so far

historyVars == <<taken, acked, dropped, evicted, revived, crashes>>

vars == <<storeVars, serverVars, job, historyVars>>

\* Groups of variables that actions leave alone together.
endpointVars == <<conn, lastId, spent, wire>>
queueVars    == <<queue, queueOf>>
wrapperVars  == <<wrapper, endpoint>>
timerVars    == <<timeouts, expired>>
casVars      == <<queueCas, inflightCas>>
outcomeVars  == <<taken, acked, dropped, evicted, revived, crashes>>

-----------------------------------------------------------------------------
(* Types                                                                   *)

\* `by' as in Entries: a PUBREL may be repeated on a later connection.
Packets == [conn : Conns, type : {"PUBLISH", "PUBREL"}, id : 1..MaxMessageId, msg : Msgs,
            by : 0..MaxConns]

Opening == {"opEndpoint", "opClose", "opCreate", "opAdd", "opRetry", "opPut", "opAccept"}

Places == {"idle", "handle", "offer", "offline", "relook", "inChk", "inPut",
           "dqTake", "dqChk", "dqPoll", "dqPut", "dqEnd", "recPut", "rtRel", "rtDel",
           "rtPut"} \cup Opening

Jobs == [pc : Places, on : Conns \cup {None}, cur : Msgs \cup {None},
         copy : Entries \cup {None}, key : Keys, rec : Packets \cup {None},
         todo : SUBSET Keys, items : Seq(Msgs), holds : BOOLEAN]

\* A worker between two handlers.
Idle == [pc |-> "idle", on |-> None, cur |-> None, copy |-> None, key |-> NoId,
         rec |-> None, todo |-> {}, items |-> <<>>, holds |-> FALSE]

\* Every variable holds a value of its Java type; in particular no retry
\* count exceeds the configured maximum by more than one per reconnection.
TypeOK ==
    /\ queue \in Seq(Msgs)
    /\ queueOf \in Conns \cup {None}
    /\ inflights \in [Keys -> Entries \cup {None}]
    /\ conn \in [Conns -> {"new", "opening", "accepted", "closing", "closed"}]
    /\ lastId \in [Conns -> 0..MaxMessageId]
    /\ spent \subseteq Conns
    /\ wire \subseteq Packets
    /\ wrapper \in Conns \cup {None}
    /\ endpoint \in [Conns -> Conns \cup {None}]
    /\ timeouts \in [Conns -> SUBSET Keys]
    /\ expired \in [Conns -> SUBSET Keys]
    /\ queueCas \in [Conns -> {0, 1}]
    /\ inflightCas \in [Conns -> {0, 1}]
    /\ job \in [Workers -> Jobs]
    /\ taken \subseteq Msgs /\ acked \subseteq Msgs
    /\ dropped \subseteq Msgs /\ evicted \subseteq Msgs
    /\ revived \subseteq Keys
    /\ crashes \in 0..MaxCrashes

\* The client has connected for the first time and has subscribed: its session
\* record and routes exist.  The messages outside the workload are history.
Init ==
    /\ queue = <<>> /\ queueOf = 1
    /\ inflights = [k \in Keys |-> None]
    /\ conn = [c \in Conns |-> IF c = 1 THEN "accepted" ELSE "new"]
    /\ lastId = [c \in Conns |-> 0]
    /\ spent = {} /\ wire = {}
    /\ wrapper = 1
    /\ endpoint = [c \in Conns |-> IF c = 1 THEN 1 ELSE None]
    /\ timeouts = [c \in Conns |-> {}]
    /\ expired = [c \in Conns |-> {}]
    /\ queueCas = [c \in Conns |-> 0]
    /\ inflightCas = [c \in Conns |-> 0]
    /\ job = [w \in Workers |-> Idle]
    /\ \E S \in Workloads : taken = Msgs \ S
    /\ acked = taken /\ dropped = {} /\ evicted = {}
    /\ revived = {} /\ crashes = 0

-----------------------------------------------------------------------------
(* Helpers                                                                 *)

At(w, place) == job[w].pc = place
Goto(w, place) == job' = [job EXCEPT ![w].pc = place]
Finish(w) == job' = [job EXCEPT ![w] = Idle]

\* The wrapper's endpoint is accepted and not closed: endpoint.isConnected().
Connected(x) == endpoint[x] # None /\ conn[endpoint[x]] = "accepted"

\* The queue that wrapper x created has been closed and created again by a
\* later wrapper: its methods throw IllegalStateException.
QueueRemoved(x) == queueOf # x

InflightKeys == {k \in Keys : inflights[k] # None}

IsInflightFull == InflightMax > 0 /\ Cardinality(InflightKeys) >= InflightMax

\* BoundedIgniteMapUnsafe.put replaces an existing entry without any test.
CanPut(k) == inflights[k] # None \/ Cardinality(InflightKeys) < InflightMax

\* Wrong variants.  An operator named Bad... is a slip somebody could make in
\* the definition of the same name; nothing uses it except the check that the
\* properties below would notice.
BadRetriesExhausted(e) == e.retry > MaxRetries

RetriesExhausted(e) == e.retry >= MaxRetries

QueueIsFull == QueueMax > 0 /\ Len(queue) >= QueueMax

\* The test that opens inflight(): the message has to wait in the queue.
MustQueue == queue # <<>> \/ IsInflightFull

\* The test that dequeue() makes twice: nothing can be sent from the queue now.
\* The connection is tested first, so that a queue that was removed is not
\* touched: a wrapper whose queue was removed has lost its connection before.
MustStop(x) == ~Connected(x) \/ queue = <<>> \/ IsInflightFull

\* IdUtil.nextMessageId(endpoint).
NextMessageId(x) ==
    IF ~Connected(x) THEN NoId
    ELSE LET last == lastId[endpoint[x]]
         IN  IF last % MaxMessageId # 0 THEN last + 1 ELSE 1

\* inflights.put(key, message)
Put(k, e) == inflights' = IF CanPut(k) THEN [inflights EXCEPT ![k] = e] ELSE inflights

\* A message that is filed for the first time, under an id of connection c.
Fresh(m, c) == [msg |-> m, status |-> "PUBLISH", retry |-> 0, by |-> c]
Retried(e) == [e EXCEPT !.retry = @ + 1]
Renumbered(e, c) == [e EXCEPT !.by = c]

\* The branch of retryInflight that sends PUBREL again.
AwaitsPubcomp(e) == Qos[e.msg] = 2 /\ e.status = "PUBREC"

\* The key counts as revived if the step stores an entry that was removed.
NoteRevived(k) ==
    revived' = IF inflights[k] = None /\ inflights'[k] # None THEN revived \cup {k} ELSE revived

SaveInflightTimeout(x, k) ==
    /\ timeouts' = [timeouts EXCEPT ![x] = @ \cup {k}]
    /\ UNCHANGED expired

\* publish(message, everPublished): nothing is sent on a closed endpoint.
Publish(x, m) ==
    /\ \/ /\ Connected(x)
          /\ lastId' = [lastId EXCEPT ![endpoint[x]] = NextMessageId(x)]
          /\ spent' = IF NextMessageId(x) = MaxMessageId THEN spent \cup {endpoint[x]} ELSE spent
          /\ wire' = wire \cup {[conn |-> endpoint[x], type |-> "PUBLISH",
                                 id |-> NextMessageId(x), msg |-> m, by |-> endpoint[x]]}
       \/ ~Connected(x) /\ UNCHANGED <<lastId, spent, wire>>
    /\ UNCHANGED conn

\* A PUBREL on connection c reaches the client unless c is closed.
SendPubrel(c, k, m, b) ==
    wire' = IF c # None /\ conn[c] = "accepted" /\ k # NoId
            THEN wire \cup {[conn |-> c, type |-> "PUBREL", id |-> k, msg |-> m, by |-> b]}
            ELSE wire

TakeInflightCas(x) ==
    /\ inflightCas[x] = 0
    /\ inflightCas' = [inflightCas EXCEPT ![x] = 1]
    /\ UNCHANGED queueCas

ReleaseInflightCas(x) ==
    /\ inflightCas' = [inflightCas EXCEPT ![x] = 0]
    /\ UNCHANGED queueCas

\* The finally block is missing.
BadLeaveTry(w) == UNCHANGED casVars

\* releaseInflightCas() if the worker is inside the try block.
LeaveTry(w) ==
    \/ job[w].holds /\ ReleaseInflightCas(job[w].on)
    \/ ~job[w].holds /\ UNCHANGED casVars

-----------------------------------------------------------------------------
(* A message is routed to the client: handleLocalPublishMessage            *)

HandleLocalPublishMessage(w, m) ==
    /\ At(w, "idle")
    /\ m \notin taken
    /\ taken' = taken \cup {m}
    /\ job' = [job EXCEPT ![w] = [@ EXCEPT !.pc = IF wrapper = None THEN "offline" ELSE "handle",
                                           !.on = wrapper, !.cur = m]]
    /\ UNCHANGED <<storeVars, serverVars, acked, dropped, evicted, revived, crashes>>

\* QueueCacheImpl.enqueue: a closed queue takes nothing, a full one loses
\* its oldest message and is tried again.
EnqueueOffline(w) ==
    /\ At(w, "offline")
    /\ \/ /\ queueOf = None
          /\ job' = [job EXCEPT ![w] = [@ EXCEPT !.pc = "relook", !.cur = None]]
          /\ UNCHANGED <<queue, evicted>>
       \/ /\ queueOf # None /\ ~QueueIsFull
          /\ queue' = Append(queue, job[w].cur)
          /\ job' = [job EXCEPT ![w] = [@ EXCEPT !.pc = "relook", !.cur = None]]
          /\ UNCHANGED evicted
       \/ /\ queueOf # None /\ QueueIsFull
          /\ queue' = Tail(queue)
          /\ evicted' = evicted \cup {Head(queue)}
          /\ UNCHANGED job
    /\ UNCHANGED <<queueOf, inflights, serverVars, taken, acked,
                   dropped, revived, crashes>>

\* The wrapper is looked up again; if there is one now, it drains the queue.
LookupAgain(w) ==
    /\ At(w, "relook")
    /\ IF wrapper = None THEN Finish(w)
       ELSE job' = [job EXCEPT ![w] = [@ EXCEPT !.pc = "dqTake", !.on = wrapper]]
    /\ UNCHANGED <<storeVars, serverVars, historyVars>>

-----------------------------------------------------------------------------
(* publishMessage, handleMessage, inflight, enqueue                        *)

\* The first test of inflight(); a removed queue throws and the call ends.
HandleMessage(w) ==
    /\ At(w, "handle")
    /\ \/ QueueRemoved(job[w].on) /\ Finish(w)
       \/ /\ ~QueueRemoved(job[w].on)
          /\ Goto(w, IF MustQueue THEN "offer" ELSE "inChk")
    /\ UNCHANGED <<storeVars, serverVars, historyVars>>

\* BoundedIgniteQueue.offerExt: a full queue loses its oldest message and the
\* offer is repeated.
Offer(w) ==
    /\ At(w, "offer")
    /\ \/ /\ QueueRemoved(job[w].on)
          /\ LeaveTry(w)
          /\ Finish(w)
          /\ UNCHANGED <<queue, evicted>>
       \/ /\ ~QueueRemoved(job[w].on) /\ ~QueueIsFull
          /\ queue' = Append(queue, job[w].cur)
          /\ LeaveTry(w)
          /\ job' = [job EXCEPT ![w] = [@ EXCEPT !.pc = "dqTake", !.cur = None, !.holds = FALSE]]
          /\ UNCHANGED evicted
       \/ /\ ~QueueRemoved(job[w].on) /\ QueueIsFull
          /\ queue' = Tail(queue)
          /\ evicted' = evicted \cup {Head(queue)}
          /\ UNCHANGED <<job, casVars>>
    /\ UNCHANGED <<queueOf, inflights, endpointVars, wrapperVars, timerVars, taken,
                    acked, dropped, revived, crashes>>

\* The test again, now under inflightCas.  A removed queue throws there.
InflightCheck(w) ==
    LET x == job[w].on IN
    /\ At(w, "inChk")
    /\ \/ /\ QueueRemoved(x)
          /\ inflightCas[x] = 0
          /\ Finish(w)
          /\ UNCHANGED casVars
       \/ /\ ~QueueRemoved(x)
          /\ TakeInflightCas(x)
          /\ job' = [job EXCEPT ![w] = [@ EXCEPT !.pc = IF MustQueue THEN "offer" ELSE "inPut",
                                                 !.holds = TRUE]]
    /\ UNCHANGED <<storeVars, endpointVars, wrapperVars, timerVars, outcomeVars>>

\* Without a packet id the message is enqueued, within the try block.
InflightPut(w) ==
    LET x == job[w].on
        id == NextMessageId(x) IN
    /\ At(w, "inPut")
    /\ \/ /\ id = NoId
          /\ Goto(w, "offer")
          /\ UNCHANGED <<inflights, timerVars, endpointVars, casVars>>
       \/ /\ id # NoId
          /\ Put(id, Fresh(job[w].cur, endpoint[x]))
          /\ SaveInflightTimeout(x, id)
          /\ Publish(x, job[w].cur)
          /\ ReleaseInflightCas(x)
          /\ Finish(w)
    /\ UNCHANGED <<queueVars, wrapperVars, outcomeVars>>

-----------------------------------------------------------------------------
(* dequeue                                                                 *)

\* Only one worker drains the queue; the others return at once.
DequeueTake(w) ==
    LET x == job[w].on IN
    /\ At(w, "dqTake")
    /\ \/ queueCas[x] = 0 /\ queueCas' = [queueCas EXCEPT ![x] = 1] /\ Goto(w, "dqChk")
       \/ queueCas[x] = 1 /\ Finish(w) /\ UNCHANGED queueCas
    /\ UNCHANGED <<storeVars, endpointVars, wrapperVars, timerVars, inflightCas,
                    outcomeVars>>

DequeueCheck(w) ==
    /\ At(w, "dqChk")
    /\ Goto(w, IF MustStop(job[w].on) THEN "dqEnd" ELSE "dqPoll")
    /\ UNCHANGED <<storeVars, serverVars, historyVars>>

\* The test again under inflightCas, then queue.poll().
DequeuePoll(w) ==
    /\ At(w, "dqPoll")
    /\ \/ /\ MustStop(job[w].on)
          /\ inflightCas[job[w].on] = 0
          /\ Goto(w, "dqEnd")
          /\ UNCHANGED <<queue, casVars>>
       \/ /\ ~MustStop(job[w].on)
          /\ TakeInflightCas(job[w].on)
          /\ queue' = Tail(queue)
          /\ job' = [job EXCEPT ![w] = [@ EXCEPT !.pc = "dqPut", !.cur = Head(queue), !.holds = TRUE]]
    /\ UNCHANGED <<queueOf, inflights, endpointVars, wrapperVars, timerVars, outcomeVars>>

\* The id is tested before the entry is stored.
BadDequeuePut(w) ==
    LET x == job[w].on
        id == NextMessageId(x) IN
    /\ At(w, "dqPut")
    /\ \/ /\ id # NoId
          /\ Put(id, Fresh(job[w].cur, endpoint[x]))
          /\ SaveInflightTimeout(x, id)
          /\ Publish(x, job[w].cur)
          /\ job' = [job EXCEPT ![w] = [@ EXCEPT !.pc = "dqChk", !.cur = None, !.holds = FALSE]]
       \/ /\ id = NoId
          /\ job' = [job EXCEPT ![w] = [@ EXCEPT !.pc = "dqEnd", !.cur = None, !.holds = FALSE]]
          /\ UNCHANGED <<inflights, timerVars, endpointVars>>
    /\ ReleaseInflightCas(x)
    /\ UNCHANGED <<queueVars, wrapperVars, outcomeVars>>

\* The entry is stored before the id is tested: without a connection it is
\* filed under NoId, with no timer, and the loop ends.
DequeuePut(w) ==
    LET x == job[w].on
        id == NextMessageId(x) IN
    /\ At(w, "dqPut")
    /\ Put(id, Fresh(job[w].cur, IF id = NoId THEN 0 ELSE endpoint[x]))
    /\ \/ /\ id # NoId
          /\ SaveInflightTimeout(x, id)
          /\ Publish(x, job[w].cur)
          /\ job' = [job EXCEPT ![w] = [@ EXCEPT !.pc = "dqChk", !.cur = None, !.holds = FALSE]]
       \/ /\ id = NoId
          /\ job' = [job EXCEPT ![w] = [@ EXCEPT !.pc = "dqEnd", !.cur = None, !.holds = FALSE]]
          /\ UNCHANGED <<timerVars, endpointVars>>
    /\ ReleaseInflightCas(x)
    /\ UNCHANGED <<queueVars, wrapperVars, outcomeVars>>

DequeueEnd(w) ==
    /\ At(w, "dqEnd")
    /\ queueCas' = [queueCas EXCEPT ![job[w].on] = 0]
    /\ Finish(w)
    /\ UNCHANGED <<storeVars, endpointVars, wrapperVars, timerVars, inflightCas,
                    outcomeVars>>

-----------------------------------------------------------------------------
(* Answers of the client.  They are handled in any order, also after their *)
(* connection has closed, by the wrapper found under the client id then.   *)

\* The wrapper found removes entry and timer of the acknowledged id.
RemoveInflight(w, p) ==
    /\ wire' = wire \ {p}
    /\ acked' = acked \cup {p.msg}
    /\ \/ /\ wrapper = None
          /\ UNCHANGED <<inflights, timeouts, job>>
       \/ /\ wrapper # None
          /\ inflights' = [inflights EXCEPT ![p.id] = None]
          /\ timeouts' = [timeouts EXCEPT ![wrapper] = @ \ {p.id}]
          /\ job' = [job EXCEPT ![w] = [@ EXCEPT !.pc = "dqTake", !.on = wrapper]]
    /\ UNCHANGED <<queueVars, conn, lastId, spent, wrapperVars, expired, casVars,
                    taken, dropped, evicted, revived, crashes>>

ReceivePuback(w, p) ==
    /\ At(w, "idle")
    /\ p.type = "PUBLISH" /\ Qos[p.msg] = 1
    /\ RemoveInflight(w, p)

ReceivePubcomp(w, p) ==
    /\ At(w, "idle")
    /\ p.type = "PUBREL"
    /\ RemoveInflight(w, p)

\* receivePubrec reads a copy of the entry ...
ReceivePubrec(w, p) ==
    /\ At(w, "idle")
    /\ p.type = "PUBLISH" /\ Qos[p.msg] = 2
    /\ wire' = wire \ {p}
    /\ job' = [job EXCEPT ![w] = [@ EXCEPT !.pc = "recPut", !.rec = p,
                                           !.copy = IF wrapper = None THEN None ELSE inflights[p.id]]]
    /\ UNCHANGED <<storeVars, conn, lastId, spent, wrapperVars, timerVars, casVars,
                    outcomeVars>>

\* ... and stores it again with its new status; PUBREL is sent in any case, on
\* the connection that received the PUBREC.
PutPubrec(w) ==
    LET p == job[w].rec IN
    /\ At(w, "recPut")
    /\ \/ job[w].copy = None /\ UNCHANGED inflights
       \/ /\ job[w].copy # None
          /\ Put(p.id, [job[w].copy EXCEPT !.status = "PUBREC"])
    /\ NoteRevived(p.id)
    /\ SendPubrel(p.conn, p.id, p.msg, p.by)
    /\ Finish(w)
    /\ UNCHANGED <<queueVars, conn, lastId, spent, wrapperVars, timerVars, casVars,
                   taken, acked, dropped, evicted, crashes>>

-----------------------------------------------------------------------------
(* Inflight timers and retry.  The timers of a wrapper that is no longer   *)
(* in the map still fire.                                                  *)

Expire(x, k) ==
    /\ k \in timeouts[x]
    /\ timeouts' = [timeouts EXCEPT ![x] = @ \ {k}]
    /\ expired' = [expired EXCEPT ![x] = @ \cup {k}]
    /\ UNCHANGED <<storeVars, endpointVars, wrapperVars, casVars, job, outcomeVars>>

\* retry(messageId) up to the branch of retryInflight.
Retry(w, x, k) ==
    LET e == inflights[k] IN
    /\ At(w, "idle")
    /\ k \in expired[x]
    /\ expired' = [expired EXCEPT ![x] = @ \ {k}]
    /\ \/ e = None /\ UNCHANGED <<inflights, dropped, job>>
       \/ /\ e # None /\ RetriesExhausted(e)
          /\ inflights' = [inflights EXCEPT ![k] = None]
          /\ dropped' = dropped \cup {e.msg}
          /\ job' = [job EXCEPT ![w] = [@ EXCEPT !.pc = "dqTake", !.on = x]]
       \/ /\ e # None /\ ~RetriesExhausted(e)
          /\ job' = [job EXCEPT ![w] = [@ EXCEPT !.on = x, !.copy = e, !.key = k,
                                                 !.pc = IF AwaitsPubcomp(e) THEN "rtRel" ELSE "rtDel"]]
          /\ UNCHANGED <<inflights, dropped>>
    /\ UNCHANGED <<queueVars, endpointVars, wrapperVars, timeouts, casVars, taken, acked, evicted,
                   revived, crashes>>

\* retryInflight of a message that waits for PUBCOMP.
RetryRelease(w) ==
    LET x == job[w].on
        k == job[w].key IN
    /\ At(w, "rtRel")
    /\ Put(k, Retried(job[w].copy))
    /\ NoteRevived(k)
    /\ SaveInflightTimeout(x, k)
    /\ SendPubrel(endpoint[x], k, job[w].copy.msg, job[w].copy.by)
    /\ Finish(w)
    /\ UNCHANGED <<queueVars, conn, lastId, spent, wrapperVars, casVars,
                   taken, acked, dropped, evicted, crashes>>

\* Connected: the entry under the old id is removed.  Otherwise only its
\* retry count grows and its timer starts again.
RetryDelete(w) ==
    LET x == job[w].on
        k == job[w].key IN
    /\ At(w, "rtDel")
    /\ \/ /\ Connected(x)
          /\ TakeInflightCas(x)
          /\ inflights' = [inflights EXCEPT ![k] = None]
          /\ job' = [job EXCEPT ![w] = [@ EXCEPT !.pc = "rtPut", !.key = NextMessageId(x),
                                                 !.copy = Renumbered(job[w].copy, endpoint[x]),
                                                 !.holds = TRUE]]
          /\ UNCHANGED timerVars
       \/ /\ ~Connected(x)
          /\ inflightCas[x] = 0
          /\ Put(k, Retried(job[w].copy))
          /\ SaveInflightTimeout(x, k)
          /\ Finish(w)
          /\ UNCHANGED casVars
    /\ UNCHANGED <<queueVars, endpointVars, wrapperVars, outcomeVars>>

\* The timer of the new id is not started.
BadRetryPut(w) ==
    LET x == job[w].on
        k == job[w].key IN
    /\ At(w, "rtPut")
    /\ Put(k, Retried(job[w].copy))
    /\ Publish(x, job[w].copy.msg)
    /\ ReleaseInflightCas(x)
    /\ Finish(w)
    /\ UNCHANGED <<queueVars, timerVars, wrapperVars, outcomeVars>>

\* The entry is filed under its new id.
RetryPut(w) ==
    LET x == job[w].on
        k == job[w].key IN
    /\ At(w, "rtPut")
    /\ Put(k, Retried(job[w].copy))
    /\ SaveInflightTimeout(x, k)
    /\ Publish(x, job[w].copy.msg)
    /\ ReleaseInflightCas(x)
    /\ Finish(w)
    /\ UNCHANGED <<queueVars, wrapperVars, outcomeVars>>

-----------------------------------------------------------------------------
(* handleAccept and openSession                                            *)

\* The connection whose session is being opened.
Incoming == CHOOSE c \in Conns : conn[c] = "opening"

\* CONNECT arrives; under the session lock the client's wrapper is taken out
\* of the map.  A client has one connection after the other.
OpenSession(w, c) ==
    /\ At(w, "idle")
    /\ conn[c] = "new"
    /\ \A d \in Conns : (d < c => conn[d] # "new") /\ conn[d] # "opening"
    /\ conn' = [conn EXCEPT ![c] = "opening"]
    /\ wrapper' = None
    /\ job' = [job EXCEPT ![w] = [@ EXCEPT !.pc = "opEndpoint",
                                           !.on = IF wrapper = None THEN c ELSE wrapper]]
    /\ UNCHANGED <<storeVars, lastId, spent, wire, endpoint, timerVars, casVars, historyVars>>

\* A wrapper that was in the map closes its endpoint and gets the new one.
\* Otherwise a new wrapper is built: it reads the items of the old queue.
OpenEndpoint(w) ==
    LET x == job[w].on
        c == Incoming IN
    /\ At(w, "opEndpoint")
    /\ endpoint' = [endpoint EXCEPT ![x] = c]
    /\ \/ /\ x # c
          /\ conn' = [conn EXCEPT ![endpoint[x]] = IF @ = "accepted" THEN "closing" ELSE @]
          /\ job' = [job EXCEPT ![w] = [@ EXCEPT !.pc = "opRetry", !.todo = InflightKeys]]
       \/ /\ x = c
          /\ job' = [job EXCEPT ![w] = [@ EXCEPT !.pc = IF queueOf = None THEN "opCreate" ELSE "opClose",
                                                 !.items = queue]]
          /\ UNCHANGED conn
    /\ UNCHANGED <<storeVars, lastId, spent, wire, wrapper, timerVars, casVars, historyVars>>

\* QueueCacheImpl.queue(clientId, true): the old queue is closed ...
OpenCloseQueue(w) ==
    /\ At(w, "opClose")
    /\ queue' = <<>> /\ queueOf' = None
    /\ Goto(w, "opCreate")
    /\ UNCHANGED <<inflights, serverVars, historyVars>>

\* ... a new one is created ...
OpenCreateQueue(w) ==
    /\ At(w, "opCreate")
    /\ queueOf' = job[w].on
    /\ Goto(w, "opAdd")
    /\ UNCHANGED <<queue, inflights, serverVars, historyVars>>

\* ... and gets the old items, all of them or, without room, none.
OpenAddItems(w) ==
    /\ At(w, "opAdd")
    /\ queue' = IF QueueMax = 0 \/ Len(queue) + Len(job[w].items) <= QueueMax
                THEN queue \o job[w].items ELSE queue
    /\ job' = [job EXCEPT ![w] = [@ EXCEPT !.pc = "opRetry", !.items = <<>>, !.todo = InflightKeys]]
    /\ UNCHANGED <<queueOf, inflights, serverVars, historyVars>>

\* open() retries one stored entry.  The endpoint is not accepted yet, so
\* there is no packet id and nothing is sent: the retry count grows and the
\* timer starts.  An entry that is gone throws NullPointerException, the call
\* ends and the client is accepted all the same.
OpenRetry(w) ==
    LET x == job[w].on IN
    /\ At(w, "opRetry")
    /\ \E k \in job[w].todo :
         \/ /\ inflights[k] = None
            /\ Goto(w, "opAccept")
            /\ UNCHANGED <<inflights, timerVars>>
         \/ /\ inflights[k] # None
            /\ AwaitsPubcomp(inflights[k]) \/ inflightCas[x] = 0
            /\ Put(k, Retried(inflights[k]))
            /\ SaveInflightTimeout(x, k)
            /\ job' = [job EXCEPT ![w].todo = @ \ {k}]
    /\ UNCHANGED <<queueVars, endpointVars, wrapperVars, casVars, outcomeVars>>

\* publishCachedMessage() does nothing before the endpoint is accepted; the
\* wrapper is put into the map.
OpenPutWrapper(w) ==
    /\ At(w, "opRetry") /\ job[w].todo = {}
    /\ wrapper' = job[w].on
    /\ Goto(w, "opAccept")
    /\ UNCHANGED <<storeVars, endpointVars, endpoint, timerVars, casVars, outcomeVars>>

\* endpoint.accept(...) in the result handler of handleAccept.
Accept(w) ==
    /\ At(w, "opAccept")
    /\ conn' = [conn EXCEPT ![Incoming] = "accepted"]
    /\ Finish(w)
    /\ UNCHANGED <<storeVars, lastId, spent, wire, wrapperVars, timerVars, casVars,
                    outcomeVars>>

-----------------------------------------------------------------------------
(* The connection ends; the server crashes                                 *)

Disconnect(c) ==
    /\ conn[c] = "accepted"
    /\ conn' = [conn EXCEPT ![c] = "closing"]
    /\ UNCHANGED <<storeVars, lastId, spent, wire, wrapperVars, timerVars, casVars, job, historyVars>>

\* handleClose: closeSession removes the wrapper if it still has this endpoint.
CloseSession(w, c) ==
    /\ At(w, "idle")
    /\ conn[c] = "closing"
    /\ conn' = [conn EXCEPT ![c] = "closed"]
    /\ wrapper' = IF wrapper # None /\ endpoint[wrapper] = c THEN None ELSE wrapper
    /\ UNCHANGED <<storeVars, lastId, spent, wire, endpoint, timerVars, casVars, job, historyVars>>

\* The process ends at any point; what Ignite holds is there after the restart.
Crash ==
    /\ crashes < MaxCrashes
    /\ crashes' = crashes + 1
    /\ conn' = [c \in Conns |-> IF conn[c] = "new" THEN "new" ELSE "closed"]
    /\ wire' = {}
    /\ wrapper' = None
    /\ endpoint' = [c \in Conns |-> None]
    /\ timeouts' = [c \in Conns |-> {}]
    /\ expired' = [c \in Conns |-> {}]
    /\ queueCas' = [c \in Conns |-> 0]
    /\ inflightCas' = [c \in Conns |-> 0]
    /\ job' = [w \in Workers |-> Idle]
    /\ UNCHANGED <<storeVars, lastId, spent, taken, acked, dropped, evicted, revived>>

\* No handler runs; the session waits for the next event.
AtRest == \A w \in Workers : At(w, "idle")

Quiet == AtRest /\ UNCHANGED vars

\* What a worker does next in the handler it is running.
WorkerStep(w) ==
    \/ EnqueueOffline(w)  \/ LookupAgain(w)     \/ HandleMessage(w)
    \/ Offer(w)           \/ InflightCheck(w)   \/ InflightPut(w)
    \/ DequeueTake(w)     \/ DequeueCheck(w)    \/ DequeuePoll(w)     \/ DequeuePut(w)
    \/ DequeueEnd(w)      \/ PutPubrec(w)       \/ RetryRelease(w)
    \/ RetryDelete(w)     \/ RetryPut(w)        \/ OpenEndpoint(w)
    \/ OpenCloseQueue(w)  \/ OpenCreateQueue(w) \/ OpenAddItems(w)
    \/ OpenRetry(w)       \/ OpenPutWrapper(w)  \/ Accept(w)

ReceiveAnswer(w) ==
    \E p \in wire : ReceivePuback(w, p) \/ ReceivePubrec(w, p) \/ ReceivePubcomp(w, p)

Next ==
    \/ \E w \in Workers :
         \/ \E m \in Msgs : HandleLocalPublishMessage(w, m)
         \/ ReceiveAnswer(w)
         \/ \E x \in Conns, k \in Keys : Retry(w, x, k)
         \/ \E c \in Conns : OpenSession(w, c) \/ CloseSession(w, c)
         \/ WorkerStep(w)
    \/ \E x \in Conns, k \in Keys : Expire(x, k)
    \/ \E c \in Conns : Disconnect(c)
    \/ Crash
    \/ Quiet

Spec == Init /\ [][Next]_vars

-----------------------------------------------------------------------------
(* Properties                                                              *)

\* No connection has come to the end of its packet ids yet.
IdsUnused == spent = {}

Queued(m) == \E j \in 1..Len(queue) : queue[j] = m
Filed(m) == \E k \in InflightKeys : inflights[k].msg = m
InHand(m) ==
    \E w \in Workers :
        \/ job[w].cur = m
        \/ job[w].copy # None /\ job[w].copy.msg = m
        \/ \E j \in 1..Len(job[w].items) : job[w].items[j] = m
Settled(m) == m \in acked \cup dropped \cup evicted
Known(m) == Queued(m) \/ Filed(m) \/ InHand(m)

\* Until the client connects again, nothing that was taken for it disappears: a
\* message is queued, filed, in a worker's hands, confirmed, dropped after too
\* many retries or evicted from a full queue, also when the connection breaks
\* under the handlers (the branches of dequeue() and inflight() without a
\* packet id) and messages are queued past the wrapper.  (Not so once a copy was
\* stored outside inflightCas for an entry that is gone: it can take the room
\* another message was about to use.  And not with capacity 0, which isFull()
\* takes for no limit and put() for no room.)
KeptUntilReconnect ==
    /\ InflightMax > 0 /\ crashes = 0 /\ IdsUnused /\ revived = {}
    /\ \A c \in Conns \ {1} : conn[c] = "new"
    =>  \A m \in taken : Known(m) \/ Settled(m)

\* Both spin locks of every wrapper are free when no handler runs, whatever
\* exception or early exit ended the handlers: a lock left behind would stop
\* the session for ever.
LocksFree == AtRest => \A x \in Conns : queueCas[x] = 0 /\ inflightCas[x] = 0

\* A filed message of an accepted client has a timer or a retry under way, in
\* this wrapper or an earlier one: its slot in the inflight window is freed in
\* the end although timers do not survive the wrapper that started them.  (Not
\* so for an entry filed without a packet id, and not where receivePubrec or a
\* retry has brought back an entry that was removed.)
WindowSlotWatched ==
    AtRest /\ wrapper # None /\ Connected(wrapper) =>
        \A k \in InflightKeys \ ({NoId} \cup revived) :
            \E x \in Conns : k \in timeouts[x] \cup expired[x]

\* While no connection of the client is accepted or being opened nothing that
\* is stored for it is given up: the session keeps messages for a client that
\* is away.
KeptWhileOffline ==
    [][(\A c \in Conns : conn[c] \notin {"opening", "accepted"}) => dropped' = dropped]_vars

\* The entry of m is replaced by one of another connection, or removed by an
\* answer or a retry meant for the entry another connection had filed there.
MistakenId(m) ==
    \E k \in InflightKeys :
        LET e == inflights[k] IN
        /\ e.msg = m
        /\ \/ inflights'[k] # None /\ inflights'[k].by # e.by
           \/ \E p \in wire \ wire' : p.id = k /\ p.by # e.by
           \/ \E w \in Workers :
                At(w, "rtDel") /\ job'[w].pc = "rtPut" /\ job[w].key = k /\ job[w].copy.by # e.by

\* The queue is closed with the message in it, has no room for the saved items,
\* or is closed when a worker brings the message.
LostInRebuild(m) ==
    \E w \in Workers :
        \/ At(w, "opClose") /\ job'[w].pc # "opClose" /\ Queued(m)
        \/ /\ At(w, "opAdd") /\ job'[w].pc # "opAdd"
           /\ QueueMax > 0 /\ Len(queue) + Len(job[w].items) > QueueMax
        \/ /\ job[w].cur = m
           /\ IF At(w, "offline") THEN queueOf = None ELSE QueueRemoved(job[w].on)

\* A worker stores the message, and the window is full and has no entry under
\* its key: a retry or receivePubrec whose entry was removed meanwhile, or an
\* inflight() or dequeue() overtaken by another wrapper, which has a lock of its
\* own, or by a copy stored without the lock.
LostToFullWindow(m) ==
    \E w \in Workers :
        \/ /\ job[w].pc \in {"inPut", "dqPut"} /\ job[w].cur = m
           /\ ~CanPut(NextMessageId(job[w].on))
        \/ /\ job[w].pc \in {"rtRel", "rtDel", "rtPut"} /\ job[w].copy.msg = m
           /\ ~CanPut(job[w].key)
        \/ /\ At(w, "recPut") /\ job[w].copy # None /\ job[w].copy.msg = m
           /\ ~CanPut(job[w].rec.id)

\* Messages filed without a packet id share one key: dequeue() replaces one by
\* another, a retry of one replaces or removes another.
LostWithoutId(m) ==
    /\ inflights[NoId] # None /\ inflights[NoId].msg = m
    /\ \E w \in Workers :
         \/ At(w, "dqPut") /\ job'[w].pc = "dqEnd"
         \/ /\ job[w].pc \in {"rtRel", "rtDel"} /\ job'[w].pc # job[w].pc
            /\ job[w].key = NoId /\ job[w].copy.msg # m

\* Across reconnections and crashes a QoS 1 or QoS 2 message disappears, neither
\* confirmed nor counted as dropped, in five ways and no other: the process
\* ends; its packet id is taken for the same id of another connection; the
\* queue is rebuilt under it; it is stored again when the window is full; it is
\* filed without a packet id, as is another one.
OnlyKnownLosses ==
    [][\A m \in taken :
        IdsUnused /\ Known(m) /\ ~Known(m)' /\ ~Settled(m)' =>
            \/ crashes' # crashes
            \/ MistakenId(m) \/ LostInRebuild(m)
            \/ LostToFullWindow(m) \/ LostWithoutId(m)]_vars

=============================================================================
