---------------------------- MODULE InboundQos2 ----------------------------
(***************************************************************************)
(* The QoS 2 messages one client publishes, from PUBLISH to PUBCOMP: the   *)
(* handlers handlePublish and handlePublishRelease, receiveQos2Message and *)
(* releaseQos2Message of both kinds of session, and the map of the         *)
(* messages that await their PUBREL.                                       *)
(*                                                                         *)
(* A persistent session keeps them in a BoundedIgniteMap: an Ignite cache  *)
(* for the messages and an Ignite set for their keys, which outlive the    *)
(* connection and a crash, and a volatile size with its spin lock in the   *)
(* map object.  No two of them change in one step, and the size is only    *)
(* written under the lock by put, not by remove.  A transient session      *)
(* keeps them in an ExpiringMap, whose operations are atomic.              *)
(*                                                                         *)
(* The publisher is external: it keeps its session, uses a packet id for   *)
(* one message at a time, and after a reconnect sends again what has not   *)
(* been answered, as MQTT asks of it.  Packets of an old connection may be *)
(* handled after it is gone: the handlers run on an unordered worker pool. *)
(***************************************************************************)
EXTENDS Integers, FiniteSets, Functions

CONSTANTS
    Workers,        \* the threads of the Vert.x worker pool
    Pubs,           \* the messages the client publishes
    MaxId,          \* the packet ids it uses for them are 1 .. MaxId
    Kinds,          \* the kinds of session: "transient", "persistent"
    Capacity,       \* Config.getSessionAwaitRelMaxCapacity()
    MaxConns,       \* bound: connections of the client
    Plans,          \* bound: what one behaviour may contain, see Plan
    None            \* null

ASSUME InboundAssumption ==
    /\ IsFiniteSet(Workers) /\ IsFiniteSet(Pubs)
    /\ MaxId \in Nat \ {0} /\ Capacity \in Nat /\ MaxConns \in Nat \ {0}
    /\ Kinds \subseteq {"transient", "persistent"}
    /\ Plans \subseteq [ids : [Pubs -> 1 .. MaxId], conns : 1 .. MaxConns, faults : Nat]
    /\ None \notin Pubs

VARIABLES
    kind,           \* the kind of this session
    plan,           \* the packet ids the client uses, the connections it may
                    \* make, and the expiries and crashes that may happen
    \* the client
    state,          \* "idle", "published", "released" or "done", per message
    conn,           \* the number of its latest connection
    online,         \* is that connection accepted and open?
    tasks,          \* packets that wait for a worker
    \* the await map
    cache,          \* packet id to message: the cache, or the ExpiringMap
    keys,           \* the IgniteSet of the keys
    expiring,       \* keys whose expiry event has not been handled
    size, cas,      \* per BoundedIgniteMap object
    wrapper,        \* the connection whose map object is in use, 0: no wrapper
    opening,        \* the session being opened, or None
    job,            \* what each worker runs, or None
    \* history
    routed,         \* how often each message was handed to its subscribers
    sent,           \* how often each PUBLISH was sent
    excused,        \* messages refused, expired, or in hand when the broker died
    clash,          \* did two packets for one packet id ever coexist, a PUBLISH
                    \* and the expiry of an older message of its id, or any
                    \* packet and the constructor of a new map?
    faults

vars == <<kind, plan, state, conn, online, tasks, cache, keys, expiring, size,
          cas, wrapper, opening, job, routed, sent, excused, clash, faults>>

clientVars  == <<state, conn, online, tasks, sent, clash>>
mapVars     == <<cache, keys, size, cas>>
countVars   == <<kind, plan, faults>>
sessionVars == <<wrapper, opening>>

Ids   == 1 .. MaxId
Conns == 1 .. MaxConns

\* A packet: a PUBLISH of message pub, or a PUBREL; pub is not read there.
Packet == [pk : {"publish", "release"}, pub : Pubs, id : Ids, conn : Conns]

Places == {"contains", "replace", "spin", "put", "read", "raise",
           "take", "unset", "load", "lower", "answer"}

Job == [at : Places, packet : Packet, map : 0 .. MaxConns, s : Int, hand : Pubs \cup {None}]

Opening == [at : {"scan", "removeAll", "size", "putWrapper"}, map : Conns, removes : SUBSET Ids]

\* null is not an object.
ASSUME NullAssumption == None \notin Job \cup Opening

JobTypes == job \in [Workers -> Job \cup {None}]

CacheTypes == DOMAIN cache \subseteq Ids /\ \A i \in DOMAIN cache : cache[i] \in Pubs

PlainTypes ==
    /\ kind \in Kinds
    /\ state \in [Pubs -> {"idle", "published", "released", "done"}]
    /\ plan \in Plans
    /\ conn \in Conns /\ tasks \subseteq Packet
    /\ keys \subseteq Ids /\ expiring \subseteq Ids
    /\ size \in [Conns -> Int] /\ cas \in [Conns -> {0, 1}]
    /\ wrapper \in 0 .. MaxConns /\ opening \in Opening \cup {None}
    /\ routed \in [Pubs -> Nat] /\ sent \in [Pubs -> Nat]
    /\ excused \subseteq Pubs
    /\ faults \in 0 .. plan.faults

TypeOK == PlainTypes /\ JobTypes /\ CacheTypes /\ online \in BOOLEAN /\ clash \in BOOLEAN

\* Connection 1 is accepted, with a new map.
Init ==
    /\ kind \in Kinds
    /\ state = [p \in Pubs |-> "idle"] /\ plan \in Plans
    /\ conn = 1 /\ online = TRUE /\ tasks = {}
    /\ cache = << >> /\ keys = {} /\ expiring = {}
    /\ size = [c \in Conns |-> 0] /\ cas = [c \in Conns |-> 0]
    /\ wrapper = 1 /\ opening = None
    /\ job = [w \in Workers |-> None]
    /\ routed = [p \in Pubs |-> 0] /\ sent = [p \in Pubs |-> 0]
    /\ excused = {} /\ clash = FALSE
    /\ faults = 0

-----------------------------------------------------------------------------
(* Helpers.                                                                *)

\* Packets that wait or are being handled.
Outstanding == tasks \cup {job[w].packet : w \in {v \in Workers : job[v] # None}}

\* The packets ps reach the broker.
Arrive(ps) ==
    /\ tasks' = tasks \cup ps
    /\ clash' = (clash \/ \E a \in ps : a.id \in expiring \/ \E b \in Outstanding : b.id = a.id)

\* The map with entry i, and without it.
With(f, i, p) == [k \in DOMAIN f \cup {i} |-> IF k = i THEN p ELSE f[k]]
Without(f, i) == Restrict(f, DOMAIN f \ {i})

\* Worker w goes on at place p of its handler.
GoTo(w, p) == job' = [job EXCEPT ![w].at = p]

\* Room for another key: the test of put.
HasRoom(o) == Capacity > 0 /\ size[o] < Capacity

-----------------------------------------------------------------------------
(* The publisher.                                                          *)

\* It publishes a message under a packet id it has no other use for.
ClientPublish(p) ==
    LET i == plan.ids[p]
    IN /\ online /\ state[p] = "idle"
       /\ \A q \in Pubs : plan.ids[q] = i => state[q] \in {"idle", "done"}
       /\ state' = [state EXCEPT ![p] = "published"]
       /\ sent' = [sent EXCEPT ![p] = 1]
       /\ Arrive({[pk |-> "publish", pub |-> p, id |-> i, conn |-> conn]})
       /\ UNCHANGED <<conn, online, mapVars, expiring, sessionVars, job, routed, excused, countVars>>

\* The connection breaks; packets on their way may be lost.
Disconnect ==
    /\ online
    /\ online' = FALSE
    /\ \E lost \in SUBSET {t \in tasks : t.conn = conn} : tasks' = tasks \ lost
    /\ UNCHANGED <<state, conn, sent, clash, mapVars, expiring, sessionVars,
                   job, routed, excused, countVars>>

-----------------------------------------------------------------------------
(* The session.  The client of a persistent session reconnects.            *)

\* closeSession of the connection that ended, if its session is still there.
CloseSession ==
    /\ ~online /\ opening = None /\ wrapper # 0
    /\ wrapper' = 0
    /\ UNCHANGED <<clientVars, mapVars, expiring, opening, job, routed, excused, countVars>>

\* openSession: a wrapper that is still there is removed and used again.
OpenSession ==
    /\ kind = "persistent"
    /\ ~online /\ opening = None /\ conn < plan.conns
    /\ conn' = conn + 1
    /\ wrapper' = 0
    /\ opening' = IF wrapper # 0
                  THEN [at |-> "putWrapper", map |-> wrapper, removes |-> {}]
                  ELSE [at |-> "scan", map |-> conn', removes |-> {}]
    /\ clash' = (clash \/ (wrapper = 0 /\ Outstanding # {}))
    /\ UNCHANGED <<state, online, tasks, sent, mapVars, expiring,
                   job, routed, excused, countVars>>

\* The constructor of BoundedIgniteMap: keys without a message ...
OpenScan ==
    /\ opening # None /\ opening.at = "scan"
    /\ opening' = [opening EXCEPT !.at = "removeAll", !.removes = keys \ DOMAIN cache]
    /\ UNCHANGED <<clientVars, mapVars, expiring, wrapper, job, routed, excused, countVars>>

\* ... are removed, ...
OpenRemoveAll ==
    /\ opening # None /\ opening.at = "removeAll"
    /\ keys' = keys \ opening.removes
    /\ opening' = [opening EXCEPT !.at = "size", !.removes = {}]
    /\ UNCHANGED <<clientVars, cache, size, cas, expiring, wrapper, job, routed, excused, countVars>>

\* ... and the rest is the size.
OpenSize ==
    /\ opening # None /\ opening.at = "size"
    /\ size' = [size EXCEPT ![opening.map] = Cardinality(keys)]
    /\ opening' = [opening EXCEPT !.at = "putWrapper"]
    /\ UNCHANGED <<clientVars, cache, keys, cas, expiring, wrapper, job, routed, excused, countVars>>

\* putWrapper and CONNACK; the client sends again what was not answered.
OpenPutWrapper ==
    /\ opening # None /\ opening.at = "putWrapper"
    /\ wrapper' = opening.map
    /\ opening' = None
    /\ online' = TRUE
    /\ LET again(s) == {p \in Pubs : state[p] = s}
           pubs == {[pk |-> "publish", pub |-> p, id |-> plan.ids[p], conn |-> conn] : p \in again("published")}
           rels == {[pk |-> "release", pub |-> p, id |-> plan.ids[p], conn |-> conn] : p \in again("released")}
       IN /\ Arrive(pubs \cup rels)
          /\ sent' = [p \in Pubs |-> IF p \in again("published") THEN sent[p] + 1 ELSE sent[p]]
    /\ UNCHANGED <<state, conn, mapVars, expiring, job, routed, excused, countVars>>

\* The broker dies; what is in Ignite stays.
Crash ==
    /\ kind = "persistent" /\ faults < plan.faults
    /\ faults' = faults + 1
    /\ online' = FALSE /\ tasks' = {} /\ wrapper' = 0 /\ opening' = None
    /\ excused' = excused \cup ({job[w].hand : w \in {v \in Workers : job[v] # None}} \ {None})
    /\ job' = [w \in Workers |-> None]
    /\ cas' = [c \in Conns |-> 0] /\ size' = [c \in Conns |-> 0]
    /\ UNCHANGED <<kind, plan, state, conn, sent, clash, cache, keys, expiring, routed>>

-----------------------------------------------------------------------------
(* The handlers.  Each step is what worker w does up to the next point at  *)
(* which another thread can see or change what it uses.                    *)

\* A worker takes a packet: handlePublish or handlePublishRelease up to
\* getWrapper; without a wrapper the packet is answered and nothing else.
Start(w, t) ==
    /\ job[w] = None
    /\ t \in tasks
    /\ tasks' = tasks \ {t}
    /\ job' = [job EXCEPT ![w] =
           [at |-> CASE wrapper = 0 -> "answer"
                     [] wrapper # 0 /\ t.pk = "publish" -> "contains"
                     [] wrapper # 0 /\ t.pk = "release" -> "take",
            packet |-> t, map |-> wrapper, s |-> 0, hand |-> None]]
    /\ excused' = IF wrapper = 0 THEN excused \cup {t.pub} ELSE excused
    /\ UNCHANGED <<state, conn, online, sent, clash, mapVars, expiring, sessionVars, routed, countVars>>

\* receiveQos2Message of a transient session: putExt, under the map's lock.
PutExt(w) ==
    LET t == job[w].packet
    IN /\ job[w].at = "contains" /\ kind = "transient"
       /\ IF t.id \in DOMAIN cache \/ Capacity = 0 \/ Cardinality(DOMAIN cache) < Capacity
          THEN cache' = With(cache, t.id, t.pub) /\ UNCHANGED excused
          ELSE excused' = excused \cup {t.pub} /\ UNCHANGED cache
       /\ GoTo(w, "answer")
       /\ UNCHANGED <<clientVars, keys, size, cas, expiring, sessionVars, routed, countVars>>

\* BoundedIgniteMap.put: is the key there already?
ContainsKey(w) ==
    /\ job[w].at = "contains" /\ kind = "persistent"
    /\ GoTo(w, IF job[w].packet.id \in DOMAIN cache THEN "replace" ELSE "spin")
    /\ UNCHANGED <<clientVars, mapVars, expiring, sessionVars, routed, excused, countVars>>

\* It is: only the message is put.
PutReplace(w) ==
    LET t == job[w].packet
    IN /\ job[w].at = "replace"
       /\ cache' = With(cache, t.id, t.pub)
       /\ GoTo(w, "answer")
       /\ UNCHANGED <<clientVars, keys, size, cas, expiring, sessionVars, routed, excused, countVars>>

\* Wrong variants.  An operator named Bad... is a slip somebody could make in
\* the definition of the same name, and Keyless... another one; nothing uses them
\* except the check that the properties below would notice.

\* The size is tested before the lock is taken and the finally block lowers the
\* lock, taken or not.
BadPutAdd(w) ==
    LET t == job[w].packet
        o == job[w].map
    IN /\ job[w].at = "spin"
       /\ cas[o] = 0
       /\ IF HasRoom(o)
          THEN /\ cas' = [cas EXCEPT ![o] = 1]
               /\ keys' = keys \cup {t.id}
               /\ GoTo(w, "put")
               /\ UNCHANGED excused
          ELSE /\ excused' = excused \cup {t.pub}
               /\ cas' = [cas EXCEPT ![o] = @ - 1]
               /\ GoTo(w, "answer")
               /\ UNCHANGED keys
       /\ UNCHANGED <<clientVars, cache, size, expiring, sessionVars, routed, countVars>>

\* The key is not added to the set.
KeylessPutAdd(w) ==
    LET t == job[w].packet
        o == job[w].map
    IN /\ job[w].at = "spin"
       /\ cas[o] = 0
       /\ IF HasRoom(o)
          THEN /\ cas' = [cas EXCEPT ![o] = 1]
               /\ GoTo(w, "put")
               /\ UNCHANGED excused
          ELSE /\ excused' = excused \cup {t.pub}
               /\ GoTo(w, "answer")
               /\ UNCHANGED cas
       /\ UNCHANGED <<clientVars, cache, keys, size, expiring, sessionVars, routed, countVars>>

\* takeCas, the test of the size, and set.add or the end of put.
PutAdd(w) ==
    LET t == job[w].packet
        o == job[w].map
    IN /\ job[w].at = "spin"
       /\ cas[o] = 0
       /\ IF HasRoom(o)
          THEN /\ cas' = [cas EXCEPT ![o] = 1]
               /\ keys' = keys \cup {t.id}
               /\ GoTo(w, "put")
               /\ UNCHANGED excused
          ELSE /\ excused' = excused \cup {t.pub}
               /\ GoTo(w, "answer")
               /\ UNCHANGED <<cas, keys>>
       /\ UNCHANGED <<clientVars, cache, size, expiring, sessionVars, routed, countVars>>

\* cache.put
PutNew(w) ==
    LET t == job[w].packet
    IN /\ job[w].at = "put"
       /\ cache' = With(cache, t.id, t.pub)
       /\ GoTo(w, "read")
       /\ UNCHANGED <<clientVars, keys, size, cas, expiring, sessionVars, routed, excused, countVars>>

\* int s = size, in put and in remove
ReadSize(w) ==
    /\ job[w].at \in {"read", "load"}
    /\ job' = [job EXCEPT ![w] = [@ EXCEPT !.s = size[job[w].map],
                                           !.at = IF job[w].at = "read" THEN "raise" ELSE "lower"]]
    /\ UNCHANGED <<clientVars, mapVars, expiring, sessionVars, routed, excused, countVars>>

\* The lock is not released.
BadRaiseSize(w) ==
    LET o == job[w].map
    IN /\ job[w].at = "raise"
       /\ size' = [size EXCEPT ![o] = job[w].s + 1]
       /\ GoTo(w, "answer")
       /\ UNCHANGED <<clientVars, cache, keys, cas, expiring, sessionVars, routed, excused, countVars>>

\* size = s + 1, releaseCas
RaiseSize(w) ==
    LET o == job[w].map
    IN /\ job[w].at = "raise"
       /\ size' = [size EXCEPT ![o] = job[w].s + 1]
       /\ cas' = [cas EXCEPT ![o] = 0]
       /\ GoTo(w, "answer")
       /\ UNCHANGED <<clientVars, cache, keys, expiring, sessionVars, routed, excused, countVars>>

\* The message is read and stays in the cache.
BadGetAndRemove(w) ==
    LET t == job[w].packet
    IN /\ job[w].at = "take"
       /\ job' = [job EXCEPT ![w] = [@ EXCEPT !.hand = IF t.id \in DOMAIN cache THEN cache[t.id] ELSE None,
                                              !.at = IF kind = "transient" THEN "lower" ELSE "unset"]]
       /\ UNCHANGED <<clientVars, mapVars, expiring, sessionVars, routed, excused, countVars>>

\* releaseQos2Message: the message is removed from the cache, and from here on
\* only this worker has it.
GetAndRemove(w) ==
    LET t == job[w].packet
    IN /\ job[w].at = "take"
       /\ job' = [job EXCEPT ![w] = [@ EXCEPT !.hand = IF t.id \in DOMAIN cache THEN cache[t.id] ELSE None,
                                              !.at = IF kind = "transient" THEN "lower" ELSE "unset"]]
       /\ cache' = Without(cache, t.id)
       /\ UNCHANGED <<clientVars, keys, size, cas, expiring, sessionVars, routed, excused, countVars>>

\* set.remove, also when there was no message
RemoveKey(w) ==
    /\ job[w].at = "unset"
    /\ keys' = keys \ {job[w].packet.id}
    /\ GoTo(w, IF job[w].hand = None THEN "answer" ELSE "load")
    /\ UNCHANGED <<clientVars, cache, size, cas, expiring, sessionVars, routed, excused, countVars>>

\* size = s - 1 (not for a transient session), and the message is routed.
LowerAndRoute(w) ==
    LET o == job[w].map
        m == job[w].hand
    IN /\ job[w].at = "lower"
       /\ size' = IF kind = "persistent" THEN [size EXCEPT ![o] = job[w].s - 1] ELSE size
       /\ routed' = IF m = None THEN routed ELSE [routed EXCEPT ![m] = @ + 1]
       /\ job' = [job EXCEPT ![w] = [@ EXCEPT !.hand = None, !.at = "answer"]]
       /\ UNCHANGED <<clientVars, cache, keys, cas, expiring, sessionVars, excused, countVars>>

\* The result handler: PUBREC, which the client answers with PUBREL, or
\* PUBCOMP, if the connection of the packet is still there.
Answer(w) ==
    LET t == job[w].packet
    IN /\ job[w].at = "answer"
       /\ job' = [job EXCEPT ![w] = None]
       /\ IF online /\ t.conn = conn
          THEN IF t.pk = "publish"
               THEN /\ state' = [state EXCEPT ![t.pub] = "released"]
                    /\ tasks' = tasks \cup {[t EXCEPT !.pk = "release"]}
               ELSE /\ state' = [state EXCEPT ![t.pub] = "done"]
                    /\ UNCHANGED tasks
          ELSE UNCHANGED <<state, tasks>>
       /\ UNCHANGED <<conn, online, sent, clash, mapVars, expiring, sessionVars, routed, excused, countVars>>

\* The expiry policy of the cache drops a message whose PUBREL is late ...
Expire(i) ==
    /\ i \in DOMAIN cache /\ faults < plan.faults
    /\ faults' = faults + 1
    /\ excused' = excused \cup {cache[i]}
    /\ cache' = Without(cache, i)
    /\ expiring' = IF kind = "persistent" THEN expiring \cup {i} ELSE expiring
    /\ clash' = (clash \/ \E t \in Outstanding : t.pk = "publish" /\ t.id = i)
    /\ UNCHANGED <<kind, plan, state, conn, online, tasks, sent, keys, size, cas,
                   sessionVars, job, routed>>

\* ... and the listener of the event removes its key; the size stays.
AwaitExpired(i) ==
    /\ i \in expiring
    /\ expiring' = expiring \ {i}
    /\ keys' = keys \ {i}
    /\ UNCHANGED <<clientVars, cache, size, cas, sessionVars, job, routed, excused, countVars>>

-----------------------------------------------------------------------------
WorkerStep(w) ==
    /\ job[w] # None
    /\ \/ PutExt(w) \/ ContainsKey(w) \/ PutReplace(w) \/ PutAdd(w) \/ PutNew(w)
       \/ ReadSize(w) \/ RaiseSize(w) \/ GetAndRemove(w) \/ RemoveKey(w) \/ LowerAndRoute(w) \/ Answer(w)

Open == OpenScan \/ OpenRemoveAll \/ OpenSize \/ OpenPutWrapper

Next ==
    \/ \E p \in Pubs : ClientPublish(p)
    \/ Disconnect \/ CloseSession \/ OpenSession \/ Open \/ Crash
    \/ \E w \in Workers : WorkerStep(w) \/ \E t \in tasks : Start(w, t)
    \/ \E i \in Ids : Expire(i) \/ AwaitExpired(i)

\* Submitted packets are handled and handlers run on (the worker pool); nothing
\* is assumed of the publisher and its connection.
Fairness == \A w \in Workers : WF_vars(WorkerStep(w) \/ \E t \in tasks : Start(w, t))

Spec == Init /\ [][Next]_vars /\ Fairness

-----------------------------------------------------------------------------
(* Properties.                                                             *)

\* Every copy of a PUBLISH that arrives is kept at most once and routed at most
\* once, whatever handlers, expiry, reconnects and crashes do to the map: the
\* specification RoutedOnce, with what is in the cache or in a worker's hand as
\* the messages held.
Copies == [p \in Pubs |->
    Cardinality({t \in tasks : t.pk = "publish" /\ t.pub = p})
  + Cardinality({w \in Workers : /\ job[w] # None /\ job[w].packet.pk = "publish" /\ job[w].packet.pub = p
                                 /\ job[w].at \in {"contains", "replace", "spin", "put"}})]

Held == [p \in Pubs |->
    Cardinality({i \in DOMAIN cache : cache[i] = p})
  + Cardinality({w \in Workers : job[w] # None /\ job[w].hand = p})]

Once == INSTANCE RoutedOnce WITH copies <- Copies, held <- Held

RoutedOncePerCopy == Once!Spec

\* Unless packets clash (see the variable), a message is routed exactly once:
\* also if its packets are sent again after a reconnect or a crash in any of the
\* steps of put and remove.
ExactlyOnce ==
    ~clash => \A p \in Pubs :
        /\ routed[p] <= 1
        /\ state[p] = "done" => routed[p] = 1 \/ p \in excused

\* Unless packets clash, every message in the cache has its
\* key in the set: the order of the updates in put and remove lets the
\* constructor restore the size after a crash, and close() find every message.
KeySetCovers == ~clash => DOMAIN cache \subseteq keys \/ kind = "transient"

\* Every PUBLISH is answered and every PUBREL too, if the connection lasts.
EventuallyAnswered ==
    \A p \in Pubs : state[p] \in {"published", "released"} ~> state[p] = "done" \/ ~online
=============================================================================
