------------------------------ MODULE Cluster ------------------------------
(***************************************************************************)
(* Several nodes and one client that moves between them: the clustered     *)
(* session service (openSession with the kick message, closeSession), the  *)
(* clustered cache service (initNode, the listener of node events, the     *)
(* destruction of a lost node's transient sessions) and the way of a       *)
(* message to the node of its subscriber.                                  *)
(*                                                                         *)
(* The session row, the routes, the queue and the node table are caches    *)
(* all nodes share; wrappers are local.  What happens under the session    *)
(* lock or the node lock is one step.  The steps of opening and closing    *)
(* inside one node are the subject of SessionLifecycle; here openSession   *)
(* is cut where another node can interfere.  A session has one             *)
(* subscription, and what a persistent wrapper keeps for a client that is  *)
(* not connected counts as queued (PersistentSession has the details).     *)
(*                                                                         *)
(* A node that starts again has a new node id; Instance tells which server *)
(* an id belongs to.  Connections are numbered in the order they arrive,   *)
(* which stands for MqttSession.createTime.                                *)
(***************************************************************************)
EXTENDS Naturals, FiniteSets

CONSTANTS
    NodeIds,        \* Ignite node ids, in the order of their starts: 1, 2, ...
    Instance,       \* the server of each node id
    MaxConns,       \* bound: connections of the client
    Profiles,       \* bound: the sets of connections that are clean sessions
    Msgs,           \* messages published for the client's subscription
    MaxDeaths,      \* bound: nodes that leave or fail
    None            \* null

ASSUME ClusterAssumption ==
    /\ NodeIds \subseteq Nat /\ None \notin Nat
    /\ MaxConns \in Nat /\ MaxDeaths \in Nat
    /\ Profiles \subseteq SUBSET (1 .. MaxConns)

VARIABLES
    clean,          \* the connections with cleanSession = true
    \* shared caches
    session,        \* the session row, or None
    router,         \* the nodeId of the client's route, or None
    queue,          \* messages stored for the persistent session
    nodeTable,      \* "absent", "Running" or "Stopped", per node id
    \* nodes
    node,           \* "no", "joined", "up" or "dead", per node id
    first,          \* starting nodes that were alone when they joined
    wrapper,        \* per node the connection of the client's wrapper, or None
    \* connections
    link,           \* the place of openSession, "live", "closing" or "gone"
    at,             \* the node of each connection, or None
    old,            \* what openSession has read: see OpenRead and OpenLock
    \* messages and tasks between nodes
    kicks,          \* kick messages on the event bus
    left,           \* node events that have not been handled
    sweeps,         \* handlers that have marked a node and not yet queried
    closures,       \* DestroySessionClosure jobs: the session rows they got
    task,           \* the tasks that carry a message
    \* history
    delivered,      \* messages a connected client got
    owed,           \* messages published for a persistent session
    excused,        \* messages that died with a node, or found no such session
    overlapped,     \* did two connections open at the same time?
    raced,          \* did the first node start while another one started?
    misrouted,      \* has an older connection subscribed since the last one opened?
    orphaned        \* was the end of a lost node's sessions cut short: its row
                    \* removed by the restart, the node that swept lost too, or
                    \* the session lock taken?

vars == <<clean, session, router, queue, nodeTable, node, first, wrapper, link, at, old,
          kicks, left, sweeps, closures, task, delivered, owed, excused,
          overlapped, raced, misrouted, orphaned>>

nodeVars    == <<nodeTable, node, first, left, sweeps>>
linkVars    == <<clean, at, old>>
messageVars == <<task, delivered, owed, excused>>
raceVars    == <<overlapped, raced, misrouted, orphaned>>

Conns == 1 .. MaxConns

Session == [clean : BOOLEAN, node : NodeIds, createTime : Conns]

Task ==      [kind : {"request"}, msg : Msgs, on : NodeIds, to : NodeIds]
        \cup [kind : {"waiting"}, msg : Msgs, on : NodeIds, to : NodeIds]
        \cup [kind : {"fallback", "local", "again"}, msg : Msgs, on : NodeIds]

Old == [persistent : BOOLEAN, prev : NodeIds \cup {None}, wrapper : Conns \cup {None}]

ASSUME NullAssumption == None \notin Session

TypeOK ==
    /\ clean \in Profiles
    /\ session \in Session \cup {None}
    /\ router \in NodeIds \cup {None}
    /\ queue \subseteq Msgs
    /\ nodeTable \in [NodeIds -> {"absent", "Running", "Stopped"}]
    /\ node \in [NodeIds -> {"no", "joined", "up", "dead"}]
    /\ first \subseteq NodeIds
    /\ wrapper \in [NodeIds -> Conns \cup {None}]
    /\ link \in [Conns -> {"new", "lock", "dispose", "build", "put", "live", "closing", "gone"}]
    /\ at \in [Conns -> NodeIds \cup {None}]
    /\ old \in [Conns -> Old]
    /\ kicks \subseteq [to : NodeIds, by : Conns]
    /\ left \subseteq [to : NodeIds, about : NodeIds]
    /\ sweeps \subseteq [by : NodeIds, about : NodeIds]
    /\ closures \subseteq Session
    /\ task \subseteq Task
    /\ delivered \subseteq Msgs /\ owed \subseteq Msgs /\ excused \subseteq Msgs
    /\ overlapped \in BOOLEAN /\ raced \in BOOLEAN
    /\ misrouted \in BOOLEAN /\ orphaned \in BOOLEAN

NothingRead == [persistent |-> FALSE, prev |-> None, wrapper |-> None]

\* No node runs; nothing is stored.
Init ==
    /\ clean \in Profiles
    /\ session = None /\ router = None /\ queue = {}
    /\ nodeTable = [n \in NodeIds |-> "absent"]
    /\ node = [n \in NodeIds |-> "no"] /\ first = {}
    /\ wrapper = [n \in NodeIds |-> None]
    /\ link = [c \in Conns |-> "new"] /\ at = [c \in Conns |-> None]
    /\ old = [c \in Conns |-> NothingRead]
    /\ kicks = {} /\ left = {} /\ sweeps = {} /\ closures = {} /\ task = {}
    /\ delivered = {} /\ owed = {} /\ excused = {}
    /\ overlapped = FALSE /\ raced = FALSE /\ misrouted = FALSE /\ orphaned = FALSE

-----------------------------------------------------------------------------
(* Helpers.                                                                *)

Alive == {n \in NodeIds : node[n] \in {"joined", "up"}}

Opening == {c \in Conns : link[c] \in {"lock", "dispose", "build", "put"}}

\* The connection the client made last.
Newest == CHOOSE c \in Conns \cup {0} :
    /\ c # 0 => link[c] # "new"
    /\ \A d \in Conns : link[d] # "new" => d <= c

IsPersistentSession == session # None /\ ~session.clean

\* destroyTransientSession, destroyPersistentSession
DestroyTransientSession  == router' = None /\ UNCHANGED queue
DestroyPersistentSession == router' = None /\ queue' = {}

\* The transient sessions of node n.
TransientSessions(n) == {s \in {session} \ {None} : s.clean /\ s.node = n}

-----------------------------------------------------------------------------
(* Nodes.                                                                  *)

\* Ignition.start and the baseline topology, which shows whether it is alone.
Join(n) ==
    /\ node[n] = "no"
    /\ \A m \in NodeIds : m < n => node[m] # "no"
    /\ \A m \in NodeIds \ {n} : Instance[m] = Instance[n] => node[m] \in {"no", "dead"}
    /\ node' = [node EXCEPT ![n] = "joined"]
    /\ first' = IF Alive = {} THEN first \cup {n} ELSE first
    /\ UNCHANGED <<session, router, queue, nodeTable, wrapper, link, linkVars, kicks, left,
                   sweeps, closures, messageVars, raceVars>>

\* initNode: the first node of the cluster clears the table and has all
\* transient sessions destroyed, another one removes the row of its last life.
InitNode(n) ==
    /\ node[n] = "joined"
    /\ node' = [node EXCEPT ![n] = "up"]
    /\ first' = first \ {n}
    /\ LET before == {m \in NodeIds : nodeTable[m] # "absent" /\ Instance[m] = Instance[n]}
           others == Alive \ {n}
       IN IF n \in first
          THEN /\ nodeTable' = [m \in NodeIds |-> IF m = n THEN "Running" ELSE "absent"]
               /\ closures' = closures \cup UNION {TransientSessions(m) : m \in NodeIds}
               /\ raced' = (raced \/ others # {})
               /\ UNCHANGED orphaned
          ELSE /\ \E o \in before \cup {None} :
                    /\ o = None <=> before = {}
                    /\ nodeTable' = [m \in NodeIds |-> IF m = n THEN "Running"
                                                       ELSE IF m = o THEN "absent" ELSE nodeTable[m]]
                    /\ orphaned' = (orphaned \/ (o # None /\ nodeTable[o] = "Running"))
               /\ UNCHANGED <<closures, raced>>
    /\ UNCHANGED <<session, router, queue, wrapper, link, linkVars, kicks, left, sweeps,
                   messageVars, overlapped, misrouted>>

\* A node leaves or fails, with everything it was doing; the others will get an
\* event.  The last node takes the memory of the cluster with it.
NodeDies(n) ==
    LET others == Alive \ {n}
        mine   == {t \in task : t.on = n}
    IN /\ n \in Alive
       /\ Cardinality({m \in NodeIds : node[m] = "dead"}) < MaxDeaths
       /\ node' = [node EXCEPT ![n] = "dead"]
       /\ wrapper' = [wrapper EXCEPT ![n] = None]
       /\ link' = [c \in Conns |-> IF at[c] = n THEN "gone" ELSE link[c]]
       /\ at' = [c \in Conns |-> IF at[c] = n THEN None ELSE at[c]]
       /\ old' = [c \in Conns |-> IF at[c] = n THEN NothingRead ELSE old[c]]
       /\ kicks' = {k \in kicks : k.to # n}
       /\ left' = {e \in left : e.to # n} \cup {[to |-> m, about |-> n] : m \in others}
       /\ orphaned' = (orphaned \/ \E s \in sweeps : s.by = n)
       /\ sweeps' = {s \in sweeps : s.by # n}
       /\ task' = task \ mine
       /\ excused' = excused \cup {t.msg : t \in mine}
       /\ first' = first \ {n}
       /\ nodeTable' = IF others = {} THEN [m \in NodeIds |-> "absent"] ELSE nodeTable
       /\ closures' = IF others = {} THEN {} ELSE closures
       /\ UNCHANGED <<clean, session, router, queue, delivered, owed,
                      overlapped, raced, misrouted>>

\* The listener on another node: under the lock of the node, if its row says that
\* it is running, it is marked ...
MarkNode(e) ==
    /\ e \in left
    /\ left' = left \ {e}
    /\ IF nodeTable[e.about] = "Running"
       THEN /\ nodeTable' = [nodeTable EXCEPT ![e.about] = "Stopped"]
            /\ sweeps' = sweeps \cup {[by |-> e.to, about |-> e.about]}
       ELSE UNCHANGED <<nodeTable, sweeps>>
    /\ UNCHANGED <<session, router, queue, node, first, wrapper, link, linkVars, kicks, closures,
                   messageVars, raceVars>>

\* Only the sessions of the node that handles the event are found.
BadSweepNode(s) ==
    /\ s \in sweeps
    /\ sweeps' = sweeps \ {s}
    /\ closures' = closures \cup TransientSessions(s.by)
    /\ UNCHANGED <<session, router, queue, nodeTable, node, first, wrapper, link, linkVars, kicks,
                   left, messageVars, raceVars>>

\* ... and destroyTransientSessions queries its sessions and submits the closures.
SweepNode(s) ==
    /\ s \in sweeps
    /\ sweeps' = sweeps \ {s}
    /\ closures' = closures \cup TransientSessions(s.about)
    /\ UNCHANGED <<session, router, queue, nodeTable, node, first, wrapper, link, linkVars, kicks,
                   left, messageVars, raceVars>>

\* DestroySessionClosure, on any node.  The lock may be taken by a connection that
\* opens or closes; then nothing happens.
DestroySession(s) ==
    /\ s \in closures /\ Alive # {}
    /\ closures' = closures \ {s}
    /\ \/ /\ session = None \/ session = s
          /\ IF s.clean THEN DestroyTransientSession ELSE DestroyPersistentSession
          /\ session' = None
          /\ UNCHANGED orphaned
       \/ /\ \/ session # None /\ session # s
             \/ \E c \in Conns : link[c] \in {"lock", "closing"}
          /\ orphaned' = (orphaned \/ session = s)
          /\ UNCHANGED <<session, router, queue>>
    /\ UNCHANGED <<nodeVars, wrapper, link, linkVars, kicks, messageVars, overlapped, raced, misrouted>>

-----------------------------------------------------------------------------
(* Connections.                                                            *)

\* The client connects to node n; openSession reads the session row.
OpenRead(c, n) ==
    /\ link[c] = "new" /\ \A d \in Conns : d < c => link[d] # "new"
    /\ node[n] = "up"
    /\ link' = [link EXCEPT ![c] = "lock"]
    /\ at' = [at EXCEPT ![c] = n]
    /\ old' = [old EXCEPT ![c] = [persistent |-> IsPersistentSession,
                                  prev |-> IF session = None THEN None ELSE session.node,
                                  wrapper |-> None]]
    /\ overlapped' = (overlapped \/ Opening # {})
    /\ UNCHANGED <<clean, session, router, queue, nodeVars, wrapper, kicks, closures, messageVars,
                   raced, misrouted, orphaned>>

\* Under the session lock: the local wrapper is removed, the row is replaced.
OpenLock(c) ==
    LET n == at[c]
    IN /\ link[c] = "lock"
       /\ link' = [link EXCEPT ![c] = "dispose"]
       /\ old' = [old EXCEPT ![c].wrapper = wrapper[n]]
       /\ wrapper' = [wrapper EXCEPT ![n] = None]
       /\ session' = [clean |-> c \in clean, node |-> n, createTime |-> c]
       /\ UNCHANGED <<clean, at, router, queue, nodeVars, kicks, closures, messageVars, raceVars>>

\* Wrong variants.  An operator named Bad... or Unchecked... is a slip somebody
\* could make in the definition that follows; nothing uses it except the check
\* that the properties below would notice.

\* The node is not kicked.
BadKickPrevious(c) == UNCHANGED kicks

\* The test for a session that had no node is missing.
UncheckedKickPrevious(c) ==
    IF old[c].prev # at[c] THEN kicks' = kicks \cup {[to |-> old[c].prev, by |-> c]} ELSE UNCHANGED kicks

\* The node that had the session is told to close it.
KickPrevious(c) ==
    IF old[c].prev \notin {None, at[c]}
    THEN kicks' = IF node[old[c].prev] = "up" THEN kicks \cup {[to |-> old[c].prev, by |-> c]} ELSE kicks
    ELSE UNCHANGED kicks

\* The kick, and what happens to the old session and its wrapper.
OpenDispose(c) ==
    LET w == old[c].wrapper
        closeEndpoint == link' = [d \in Conns |-> IF d = c THEN "build"
                                                  ELSE IF d = w /\ link[d] = "live" THEN "closing" ELSE link[d]]
        keepEndpoint == link' = [link EXCEPT ![c] = "build"]
    IN /\ link[c] = "dispose"
       /\ KickPrevious(c)
       /\ old' = [old EXCEPT ![c] = NothingRead]
       /\ IF w # None THEN closeEndpoint ELSE keepEndpoint
       /\ CASE w # None /\ (c \in clean \/ ~old[c].persistent) ->
                   IF w \in clean THEN DestroyTransientSession ELSE DestroyPersistentSession
            [] w = None /\ c \in clean /\ old[c].persistent -> DestroyPersistentSession
            [] w = None /\ ~old[c].persistent -> DestroyTransientSession
            [] OTHER -> UNCHANGED <<router, queue>>
       /\ UNCHANGED <<clean, at, session, nodeVars, wrapper, closures, messageVars, raceVars>>

\* The routes keep their node.
BadOpenBuild(c) ==
    /\ link[c] = "build"
    /\ link' = [link EXCEPT ![c] = "put"]
    /\ UNCHANGED <<session, router, queue, nodeVars, wrapper, linkVars, kicks, closures, messageVars, raceVars>>

\* The wrapper is built, or used again, and opened: a persistent session points
\* its routes to this node.
OpenBuild(c) ==
    /\ link[c] = "build"
    /\ link' = [link EXCEPT ![c] = "put"]
    /\ router' = IF c \notin clean /\ router # None THEN at[c] ELSE router
    /\ UNCHANGED <<session, queue, nodeVars, wrapper, linkVars, kicks, closures, messageVars, raceVars>>

\* putWrapper, and the rest of handleAccept up to CONNACK.
OpenPut(c) ==
    /\ link[c] = "put"
    /\ link' = [link EXCEPT ![c] = "live"]
    /\ wrapper' = [wrapper EXCEPT ![at[c]] = c]
    /\ UNCHANGED <<session, router, queue, nodeVars, linkVars, kicks, closures, messageVars, raceVars>>

\* handleSubscribe: subscribeTopic of the wrapper found, with this node.  The task
\* may run when the connection has broken already.
Subscribe(c) ==
    /\ link[c] \in {"live", "closing"} /\ wrapper[at[c]] # None
    /\ router' = at[c]
    /\ misrouted' = (at[c] # at[Newest])
    /\ UNCHANGED <<session, queue, nodeVars, wrapper, link, linkVars, kicks, closures, messageVars,
                   overlapped, raced, orphaned>>

\* The client disconnects, or its connection breaks.
Disconnect(c) ==
    /\ link[c] = "live"
    /\ link' = [link EXCEPT ![c] = "closing"]
    /\ UNCHANGED <<session, router, queue, nodeVars, wrapper, linkVars, kicks, closures, messageVars, raceVars>>

\* The consumer of kick messages closes the endpoint of the wrapper it finds.
Kick(k) ==
    LET w == wrapper[k.to]
    IN /\ k \in kicks
       /\ kicks' = kicks \ {k}
       /\ link' = [c \in Conns |-> IF c = w /\ link[c] = "live" THEN "closing" ELSE link[c]]
       /\ UNCHANGED <<session, router, queue, nodeVars, wrapper, linkVars, closures, messageVars, raceVars>>

\* The node of the session is not compared.
BadCloseSession(c) ==
    LET n == at[c]
    IN /\ link[c] = "closing"
       /\ link' = [link EXCEPT ![c] = "gone"]
       /\ at' = [at EXCEPT ![c] = None]
       /\ IF wrapper[n] = c
          THEN /\ wrapper' = [wrapper EXCEPT ![n] = None]
               /\ IF c \in clean /\ session # None
                  THEN DestroyTransientSession /\ session' = None
                  ELSE UNCHANGED <<session, router, queue>>
          ELSE UNCHANGED <<wrapper, session, router, queue>>
       /\ UNCHANGED <<nodeVars, clean, old, kicks, closures, messageVars, raceVars>>

\* closeSession of a connection that has ended, under the session lock.
CloseSession(c) ==
    LET n == at[c]
    IN /\ link[c] = "closing"
       /\ link' = [link EXCEPT ![c] = "gone"]
       /\ at' = [at EXCEPT ![c] = None]
       /\ IF wrapper[n] = c
          THEN /\ wrapper' = [wrapper EXCEPT ![n] = None]
               /\ IF c \in clean /\ session # None /\ session.node = n
                  THEN DestroyTransientSession /\ session' = None
                  ELSE UNCHANGED <<session, router, queue>>
          ELSE UNCHANGED <<wrapper, session, router, queue>>
       /\ UNCHANGED <<nodeVars, clean, old, kicks, closures, messageVars, raceVars>>

-----------------------------------------------------------------------------
(* Messages.                                                               *)

\* A message is published on node n: getClusteredRoutes, and per route a local
\* task or a request to the node of the route.
HandlePublish(m, n) ==
    /\ m \notin owed \cup excused /\ ~ \E t \in task : t.msg = m
    /\ node[n] = "up" /\ router # None
    /\ task' = task \cup {IF router = n THEN [kind |-> "local", msg |-> m, on |-> n]
                          ELSE [kind |-> "request", msg |-> m, on |-> n, to |-> router]}
    /\ owed' = IF IsPersistentSession THEN owed \cup {m} ELSE owed
    /\ excused' = IF IsPersistentSession THEN excused ELSE excused \cup {m}
    /\ UNCHANGED <<session, router, queue, nodeVars, wrapper, link, linkVars, kicks, closures,
                   delivered, raceVars>>

\* The consumer submits the local task and replies.
ReceiveRequest(t) ==
    /\ t \in task /\ t.kind = "request" /\ node[t.to] = "up"
    /\ task' = (task \ {t}) \cup {[kind |-> "local", msg |-> t.msg, on |-> t.to], [t EXCEPT !.kind = "waiting"]}
    /\ UNCHANGED <<session, router, queue, nodeVars, wrapper, link, linkVars, kicks, closures,
                   delivered, owed, excused, raceVars>>

ReceiveReply(t) ==
    /\ t \in task /\ t.kind = "waiting"
    /\ task' = task \ {t}
    /\ UNCHANGED <<session, router, queue, nodeVars, wrapper, link, linkVars, kicks, closures,
                   delivered, owed, excused, raceVars>>

\* A failed request is only logged.
BadRequestFails(t) ==
    /\ t \in task /\ t.kind \in {"request", "waiting"}
    /\ t.kind = "request" => node[t.to] # "up"
    /\ task' = task \ {t}
    /\ UNCHANGED <<session, router, queue, nodeVars, wrapper, link, linkVars, kicks, closures,
                   delivered, owed, excused, raceVars>>

\* The request fails: the node is gone, or its reply does not come in time.
RequestFails(t) ==
    /\ t \in task /\ t.kind \in {"request", "waiting"}
    /\ t.kind = "request" => node[t.to] # "up"
    /\ task' = (task \ {t}) \cup (IF IsPersistentSession
                                  THEN {[kind |-> "fallback", msg |-> t.msg, on |-> t.on]} ELSE {})
    /\ excused' = IF IsPersistentSession THEN excused ELSE excused \cup {t.msg}
    /\ UNCHANGED <<session, router, queue, nodeVars, wrapper, link, linkVars, kicks, closures,
                   delivered, owed, raceVars>>

\* Then the sender queues it.
EnqueueFallback(t) ==
    /\ t \in task /\ t.kind = "fallback"
    /\ task' = task \ {t}
    /\ queue' = queue \cup {t.msg}
    /\ UNCHANGED <<session, router, nodeVars, wrapper, link, linkVars, kicks, closures,
                   delivered, owed, excused, raceVars>>

\* The wrapper of connection c gets message m: it is published to a client that is
\* connected, else a persistent session keeps it.
PublishMessage(c, m) ==
    IF link[c] = "live"
    THEN delivered' = delivered \cup {m} /\ UNCHANGED <<queue, excused>>
    ELSE /\ queue' = IF c \in clean THEN queue ELSE queue \cup {m}
         /\ excused' = IF c \in clean THEN excused \cup {m} ELSE excused
         /\ UNCHANGED delivered

\* handleLocalPublishMessage: the wrapper, or the queue of a persistent session.
LocalPublish(t) ==
    LET w == wrapper[t.on]
    IN /\ t \in task /\ t.kind = "local"
       /\ IF w # None
          THEN task' = task \ {t} /\ PublishMessage(w, t.msg)
          ELSE /\ queue' = IF IsPersistentSession THEN queue \cup {t.msg} ELSE queue
               /\ task' = (task \ {t}) \cup (IF IsPersistentSession THEN {[t EXCEPT !.kind = "again"]} ELSE {})
               /\ excused' = IF IsPersistentSession THEN excused ELSE excused \cup {t.msg}
               /\ UNCHANGED delivered
       /\ UNCHANGED <<session, router, nodeVars, wrapper, link, linkVars, kicks, closures,
                      owed, raceVars>>

\* The wrapper is looked up again, and publishes what is queued.
LookupAgain(t) ==
    LET w == wrapper[t.on]
    IN /\ t \in task /\ t.kind = "again"
       /\ task' = task \ {t}
       /\ IF w # None /\ w \notin clean /\ link[w] = "live"
          THEN delivered' = delivered \cup queue /\ queue' = {}
          ELSE UNCHANGED <<delivered, queue>>
       /\ UNCHANGED <<session, router, nodeVars, wrapper, link, linkVars, kicks, closures,
                      owed, excused, raceVars>>

-----------------------------------------------------------------------------
ConnStep(c) == OpenLock(c) \/ OpenDispose(c) \/ OpenBuild(c) \/ OpenPut(c) \/ CloseSession(c)

ClusterStep ==
    \/ \E e \in left : MarkNode(e)
    \/ \E s \in sweeps : SweepNode(s)
    \/ \E s \in closures : DestroySession(s)
    \/ \E k \in kicks : Kick(k)

MessageStep(t) ==
    ReceiveRequest(t) \/ ReceiveReply(t) \/ RequestFails(t) \/ EnqueueFallback(t) \/ LocalPublish(t) \/ LookupAgain(t)

Next ==
    \/ \E n \in NodeIds : Join(n) \/ InitNode(n) \/ NodeDies(n)
    \/ ClusterStep
    \/ \E c \in Conns : ConnStep(c) \/ Subscribe(c) \/ Disconnect(c) \/ \E n \in NodeIds : OpenRead(c, n)
    \/ \E m \in Msgs, n \in NodeIds : HandlePublish(m, n)
    \/ \E t \in task : MessageStep(t)

\* The event bus, the listeners of events, the compute jobs and the worker pool
\* of a node run on while some node runs; nothing is assumed of clients, and
\* nodes may start and fail at any time.
Fairness ==
    /\ WF_vars(ClusterStep)
    /\ \A c \in Conns : WF_vars(ConnStep(c))
    /\ \A n \in NodeIds : WF_vars(InitNode(n))

Spec == Init /\ [][Next]_vars /\ Fairness

-----------------------------------------------------------------------------
(* Properties.  Connections of one client that open at the same time are   *)
(* the subject of SessionLifecycle, and are left out where they would      *)
(* matter; so is a first node that initialises the cluster while another   *)
(* one has joined.                                                         *)

\* The latest connection, once accepted and until it closes, has the session: the
\* row, the wrapper and the routes all name it and its node, although kicks,
\* late closes and closures of lost nodes act on the same client id.  (A SUBSCRIBE
\* of the older connection that is handled late takes the route back: misrouted.)
SessionOfNewest ==
    LET c == Newest
    IN c # 0 /\ ~overlapped /\ ~raced =>
         (link[c] = "live" =>
            /\ session = [clean |-> c \in clean, node |-> at[c], createTime |-> c]
            /\ wrapper[at[c]] = c
            /\ router \in {None, at[c]} \/ misrouted)

\* A session row goes away only when the connection it belongs to is gone: no
\* other node, no late close and no closure with an old row removes it.
SessionGoesWithConnection ==
    [][session # None /\ session' = None /\ ~raced /\ ~overlapped
         => link'[session.createTime] = "gone"]_vars

\* What is published for a persistent session is, at the end of its way, with the
\* client or queued, whatever nodes the client moves to; only a node that dies
\* with the message takes it along (no clean connection has destroyed the queue).
PersistentKept ==
    (\A c \in clean : link[c] = "new") /\ ~overlapped =>
        \A m \in owed : m \in delivered \cup queue \cup excused \/ \E t \in task : t.msg = m

\* The transient session of a lost node is destroyed by the others or taken over,
\* unless its end is cut short (see orphaned, raced) or no node is left.
DeadSessionsDestroyed ==
    LET deadSession == session # None /\ session.clean /\ node[session.node] = "dead"
    IN deadSession ~> (~deadSession \/ orphaned \/ raced \/ Alive = {})

\* Of two connections of the client, wherever they are, the older one is closed.
OldConnectionClosed ==
    \A c \in Conns : (link[c] = "live" /\ \E d \in Conns : d > c /\ link[d] = "live")
                        ~> (link[c] # "live" \/ overlapped \/ raced)
=============================================================================
