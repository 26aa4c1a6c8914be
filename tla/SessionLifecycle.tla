-------------------------- MODULE SessionLifecycle --------------------------
(***************************************************************************)
(* The connections of ONE client id in standard (single node) mode: how a  *)
(* connection opens its session, takes over the session of an older        *)
(* connection, and closes it.  AbstractMqttVerticle.handleAccept and       *)
(* handleClose, StdSessionServiceImpl.openSession,                         *)
(* AbstractSessionService.closeSession, saveConnection, deleteConnection   *)
(* and the will message.                                                   *)
(*                                                                         *)
(* handleAccept and handleClose run as tasks of the Vert.x worker pool     *)
(* (executeBlocking with ordered = false); the CONNACK of handleAccept is  *)
(* sent later, by the event loop.  open[e] and close[e] are the places of  *)
(* the two tasks of endpoint e.  Everything these tasks touch is keyed by  *)
(* the client id, so one client id shows every interaction.                *)
(*                                                                         *)
(* A SessionWrapper object is named by the endpoint it was built for; a    *)
(* persistent wrapper that is reused gets another endpoint (`endpointOf'). *)
(***************************************************************************)
EXTENDS Integers, FiniteSets

CONSTANTS
    Endpoints,      \* connections the client makes, each at most once
    Clean,          \* the ones that connect with cleanSession = true
    WillOf,         \* the will message each one declares
    Listener,       \* the listener (TCP or WebSocket) each one arrives at
    PoolSize,       \* vertx.worker-pool-size
    None            \* Java's null

Wills == {"none", "empty", "message", "retained"}
Listeners == {"tcp", "ws"}

ASSUME LifecycleAssumption ==
    /\ IsFiniteSet(Endpoints)
    /\ Clean \subseteq Endpoints
    /\ WillOf \in [Endpoints -> Wills]
    /\ Listener \in [Endpoints -> Listeners]
    /\ PoolSize \in Nat \ {0}
    /\ None \notin Endpoints

VARIABLES
    link,           \* "new", "pending" (CONNACK not sent), "open", "closed"
    watched,        \* endpoints whose closeHandler is registered
    wrapper,        \* wrappers.get(clientId)
    endpointOf,     \* SessionWrapper.endpoint
    session,        \* the MqttSession in the session cache: its kind, or None
    store,          \* await, queue and inflight caches of a persistent session exist
    routers,        \* endpoints with a subscription in the router cache
    connection,     \* the MqttConnection in the connection cache
    connCount,      \* tcpConnCount, wsConnCount
    sessCount,      \* metrics: node session count
    will,           \* the will message in the will cache: who declared it
    lock            \* holder of the client's session lock

storeVars == <<wrapper, endpointOf, session, store, routers>>
countVars == <<connection, connCount, sessCount>>

VARIABLES
    open,           \* place of handleAccept's task
    close,          \* place of handleClose's task
    isPersistent,   \* openSession's local variables
    old,
    same            \* closeSession: wrapper != null && isSameEndpoint(endpoint)

localVars == <<isPersistent, old, same>>

\* History: a connection attempt began before an earlier one was accepted.
VARIABLE overlapped

vars == <<link, watched, storeVars, countVars, will, lock, open, close, localVars,
          overlapped>>

OpenPlaces == {"lock", "old", "wrap", "put", "conn", "will", "handlers"}
ClosePlaces == {"willDel", "conn", "contains", "lock", "remove"}

TypeOK ==
    /\ link \in [Endpoints -> {"new", "pending", "open", "closed"}]
    /\ watched \subseteq Endpoints
    /\ wrapper \in Endpoints \cup {None}
    /\ endpointOf \in [Endpoints -> Endpoints]
    /\ session \in {"clean", "persistent", None}
    /\ store \in BOOLEAN
    /\ routers \subseteq Endpoints
    /\ connection \in Endpoints \cup {None}
    /\ connCount \in [Listeners -> Int]
    /\ sessCount \in Int
    /\ will \in Endpoints \cup {None}
    /\ lock \in Endpoints \cup {None}
    /\ open \in [Endpoints -> OpenPlaces \cup {"idle", "start", "accept", "done"}]
    /\ close \in [Endpoints -> ClosePlaces \cup {"idle", "start", "done"}]
    /\ isPersistent \in [Endpoints -> BOOLEAN]
    /\ old \in [Endpoints -> Endpoints \cup {None}]
    /\ same \in [Endpoints -> BOOLEAN]
    /\ overlapped \in BOOLEAN

Init ==
    /\ link = [e \in Endpoints |-> "new"]
    /\ watched = {}
    /\ wrapper = None
    /\ endpointOf = [e \in Endpoints |-> e]
    /\ session = None
    /\ store = FALSE
    /\ routers = {}
    /\ connection = None
    /\ connCount = [l \in Listeners |-> 0]
    /\ sessCount = 0
    /\ will = None
    /\ lock = None
    /\ open = [e \in Endpoints |-> "idle"]
    /\ close = [e \in Endpoints |-> "idle"]
    /\ isPersistent = [e \in Endpoints |-> FALSE]
    /\ old = [e \in Endpoints |-> None]
    /\ same = [e \in Endpoints |-> FALSE]
    /\ overlapped = FALSE

-----------------------------------------------------------------------------
(* Helpers *)

OpenAt(e, from, to) == open[e] = from /\ open' = [open EXCEPT ![e] = to]
CloseAt(e, from, to) == close[e] = from /\ close' = [close EXCEPT ![e] = to]

\* Handlers that occupy a worker thread.
Running == Cardinality({e \in Endpoints : open[e] \in OpenPlaces})
           + Cardinality({e \in Endpoints : close[e] \in ClosePlaces})

WorkerFree == Running < PoolSize

\* The connection of e ends; a registered closeHandler submits handleClose.
CloseLink(e) ==
    /\ link' = [link EXCEPT ![e] = "closed"]
    /\ close' = IF e \in watched THEN [close EXCEPT ![e] = "start"] ELSE close

\* closeEndpoint(): an endpoint that is not accepted yet is not connected
\* and is left alone.
CloseEndpoint(e) ==
    \/ link[e] = "open" /\ CloseLink(e)
    \/ link[e] # "open" /\ UNCHANGED <<link, close>>

DestroyTransientSession == routers' = {} /\ UNCHANGED store
DestroyPersistentSession == routers' = {} /\ store' = FALSE

\* SessionWrapper.close(): transient and persistent wrappers.
CloseWrapper(w) ==
    /\ CloseEndpoint(endpointOf[w])
    /\ IF w \in Clean THEN DestroyTransientSession ELSE DestroyPersistentSession

IsSameEndpoint(w, e) == w # None /\ endpointOf[w] = e

-----------------------------------------------------------------------------
(* handleAccept *)

Connect(e) ==
    /\ link[e] = "new"
    /\ link' = [link EXCEPT ![e] = "pending"]
    /\ OpenAt(e, "idle", "start")
    /\ overlapped' = (overlapped \/ \E f \in Endpoints : open[f] \notin {"idle", "done"})
    /\ UNCHANGED <<watched, storeVars, countVars, will, lock, close, localVars>>

\* openSession reads cacheService.isPersistentSession before it locks.
OpenSession(e) ==
    /\ WorkerFree
    /\ OpenAt(e, "start", "lock")
    /\ isPersistent' = [isPersistent EXCEPT ![e] = (session = "persistent")]
    /\ UNCHANGED <<link, watched, storeVars, countVars, will, lock, close, old, same,
                   overlapped>>

\* An MqttSession that exists is left as it is.
BadReplaceSession(e) ==
    /\ OpenAt(e, "lock", "old")
    /\ lock = None
    /\ old' = [old EXCEPT ![e] = wrapper]
    /\ wrapper' = None
    /\ session' = IF session # None THEN session
                  ELSE IF e \in Clean THEN "clean" ELSE "persistent"
    /\ UNCHANGED <<link, watched, endpointOf, store, routers, countVars, will, lock,
                   close, isPersistent, same, overlapped>>

\* The section under the session lock: removeWrapper and saveSession.
ReplaceSession(e) ==
    /\ OpenAt(e, "lock", "old")
    /\ lock = None
    /\ old' = [old EXCEPT ![e] = wrapper]
    /\ wrapper' = None
    /\ session' = IF e \in Clean THEN "clean" ELSE "persistent"
    /\ UNCHANGED <<link, watched, endpointOf, store, routers, countVars, will, lock,
                   close, isPersistent, same, overlapped>>

\* The old wrapper is closed also when it is going to be reused.
BadDisposeOld(e) ==
    /\ OpenAt(e, "old", "wrap")
    /\ IF old[e] # None THEN CloseWrapper(old[e]) ELSE UNCHANGED <<link, close, routers, store>>
    /\ UNCHANGED <<watched, wrapper, endpointOf, session, countVars, will, lock,
                   localVars, overlapped>>

\* The older session is closed, taken over or destroyed.
DisposeOld(e) ==
    /\ OpenAt(e, "old", "wrap")
    /\ \/ /\ old[e] # None
          /\ e \in Clean \/ ~isPersistent[e]
          /\ CloseWrapper(old[e])
       \/ /\ old[e] # None
          /\ e \notin Clean /\ isPersistent[e]
          /\ CloseEndpoint(endpointOf[old[e]])
          /\ UNCHANGED <<store, routers>>
       \/ /\ old[e] = None
          /\ \/ e \in Clean /\ isPersistent[e] /\ DestroyPersistentSession
             \/ ~isPersistent[e] /\ DestroyTransientSession
             \/ e \notin Clean /\ isPersistent[e] /\ UNCHANGED <<store, routers>>
          /\ UNCHANGED <<link, close>>
    /\ UNCHANGED <<watched, wrapper, endpointOf, session, countVars, will, lock,
                   localVars, overlapped>>

\* A reused wrapper loses its endpoint and does not get the new one.
BadBuildWrapper(e) ==
    /\ OpenAt(e, "wrap", "put")
    /\ \/ /\ e \notin Clean /\ isPersistent[e] /\ old[e] # None
          /\ endpointOf' = [endpointOf EXCEPT ![old[e]] = None]
          /\ UNCHANGED <<old, store>>
       \/ /\ e \in Clean \/ ~(isPersistent[e] /\ old[e] # None)
          /\ old' = [old EXCEPT ![e] = e]
          /\ store' = (store \/ e \notin Clean)
          /\ UNCHANGED endpointOf
    /\ UNCHANGED <<link, watched, wrapper, session, routers, countVars, will, lock,
                   close, isPersistent, same, overlapped>>

\* An old persistent wrapper is reused, otherwise a new one is built; the
\* constructor of a persistent wrapper opens its caches.  open() of a wrapper
\* publishes nothing: the endpoint is not accepted yet.
BuildWrapper(e) ==
    /\ OpenAt(e, "wrap", "put")
    /\ \/ /\ e \in Clean
          /\ old' = [old EXCEPT ![e] = e]
          /\ UNCHANGED <<endpointOf, store>>
       \/ /\ e \notin Clean /\ isPersistent[e] /\ old[e] # None
          /\ endpointOf' = [endpointOf EXCEPT ![old[e]] = e]
          /\ UNCHANGED <<old, store>>
       \/ /\ e \notin Clean /\ ~(isPersistent[e] /\ old[e] # None)
          /\ old' = [old EXCEPT ![e] = e]
          /\ store' = TRUE
          /\ UNCHANGED endpointOf
    /\ UNCHANGED <<link, watched, wrapper, session, routers, countVars, will, lock,
                   close, isPersistent, same, overlapped>>

\* putWrapper, outside the lock, and the session count; openSession returns
\* and its local variables are gone.
PutWrapper(e) ==
    /\ OpenAt(e, "put", "conn")
    /\ wrapper' = old[e]
    /\ sessCount' = sessCount + 1
    /\ old' = [old EXCEPT ![e] = None]
    /\ isPersistent' = [isPersistent EXCEPT ![e] = FALSE]
    /\ UNCHANGED <<link, watched, endpointOf, session, store, routers, connection,
                   connCount, will, lock, close, same, overlapped>>

\* The count is raised for every connection.
BadSaveConnection(e) ==
    /\ OpenAt(e, "conn", "will")
    /\ connCount' = [connCount EXCEPT ![Listener[e]] = @ + 1]
    /\ connection' = e
    /\ UNCHANGED <<link, watched, storeVars, sessCount, will, lock, close, localVars,
                   overlapped>>

\* saveConnection: only the first connection of a client id is counted.
SaveConnection(e) ==
    /\ OpenAt(e, "conn", "will")
    /\ connCount' = [connCount EXCEPT ![Listener[e]] =
                        IF connection = None THEN @ + 1 ELSE @]
    /\ connection' = e
    /\ UNCHANGED <<link, watched, storeVars, sessCount, will, lock, close, localVars,
                   overlapped>>

\* handleWillMessage: no will flag, an empty payload, a payload.
HandleWillMessage(e) ==
    /\ OpenAt(e, "will", "handlers")
    /\ \/ WillOf[e] = "none" /\ UNCHANGED will
       \/ WillOf[e] = "empty" /\ will' = None
       \/ WillOf[e] \in {"message", "retained"} /\ will' = e
    /\ UNCHANGED <<link, watched, storeVars, countVars, lock, close, localVars,
                   overlapped>>

\* The handlers of the endpoint; on a closed endpoint they are never called.
RegisterHandlers(e) ==
    /\ OpenAt(e, "handlers", "accept")
    /\ watched' = IF link[e] = "closed" THEN watched ELSE watched \cup {e}
    /\ UNCHANGED <<link, storeVars, countVars, will, lock, close, localVars,
                   overlapped>>

\* The result handler sends CONNACK; a closed endpoint refuses.
Accept(e) ==
    /\ OpenAt(e, "accept", "done")
    /\ link' = IF link[e] = "closed" THEN link ELSE [link EXCEPT ![e] = "open"]
    /\ UNCHANGED <<watched, storeVars, countVars, will, lock, close, localVars,
                   overlapped>>

-----------------------------------------------------------------------------
(* While connected *)

\* handleSubscribe looks the wrapper up by client id; without one it fails.
Subscribe(e) ==
    /\ link[e] = "open"
    /\ wrapper # None
    /\ e \notin routers
    /\ routers' = routers \cup {e}
    /\ UNCHANGED <<link, watched, wrapper, endpointOf, session, store, countVars, will,
                   lock, open, close, localVars, overlapped>>

\* The client disconnects or its connection breaks.  handleDisconnect does
\* nothing but count the packet.
Drop(e) ==
    /\ link[e] \in {"pending", "open"}
    /\ CloseLink(e)
    /\ UNCHANGED <<watched, storeVars, countVars, will, lock, open, localVars,
                   overlapped>>

-----------------------------------------------------------------------------
(* handleClose *)

\* handleWillPublish: the will found under the client id is published.
PublishWill(e) ==
    /\ WorkerFree
    /\ CloseAt(e, "start", IF will = None THEN "conn" ELSE "willDel")
    /\ UNCHANGED <<link, watched, storeVars, countVars, will, lock, open, localVars,
                   overlapped>>

\* deleteWill(clientId, false): a retained will stays.
DeleteWill(e) ==
    /\ CloseAt(e, "willDel", "conn")
    /\ will' = IF will # None /\ WillOf[will] = "retained" THEN will ELSE None
    /\ UNCHANGED <<link, watched, storeVars, countVars, lock, open, localVars,
                   overlapped>>

DeleteConnection(e) ==
    /\ CloseAt(e, "conn", "contains")
    /\ \/ /\ IsSameEndpoint(wrapper, e)
          /\ connection' = None
          /\ connCount' = [connCount EXCEPT ![Listener[e]] = @ - 1]
       \/ /\ ~IsSameEndpoint(wrapper, e)
          /\ UNCHANGED <<connection, connCount>>
    /\ UNCHANGED <<link, watched, storeVars, sessCount, will, lock, open, localVars,
                   overlapped>>

\* The test is the wrong way round.
BadCloseSession(e) ==
    /\ CloseAt(e, "contains", IF wrapper # None THEN "done" ELSE "lock")
    /\ UNCHANGED <<link, watched, storeVars, countVars, will, lock, open, localVars,
                   overlapped>>

\* closeSession, first test: !wrappers.containsKey(clientId).
CloseSession(e) ==
    /\ CloseAt(e, "contains", IF wrapper = None THEN "done" ELSE "lock")
    /\ UNCHANGED <<link, watched, storeVars, countVars, will, lock, open, localVars,
                   overlapped>>

LockSession(e) ==
    /\ CloseAt(e, "lock", "remove")
    /\ lock = None
    /\ lock' = e
    /\ same' = [same EXCEPT ![e] = IsSameEndpoint(wrapper, e)]
    /\ UNCHANGED <<link, watched, storeVars, countVars, will, open, isPersistent, old,
                   overlapped>>

\* The session of whichever endpoint is removed.
BadRemoveSession(e) ==
    /\ CloseAt(e, "remove", "done")
    /\ lock' = None
    /\ wrapper' = None
    /\ sessCount' = sessCount - 1
    /\ session' = IF e \in Clean THEN None ELSE session
    /\ routers' = IF e \in Clean THEN {} ELSE routers
    /\ UNCHANGED <<link, watched, endpointOf, store, connection, connCount, will, open,
                   localVars, overlapped>>

\* removeWrapper(clientId) removes whatever is in the map by now.
RemoveSession(e) ==
    /\ CloseAt(e, "remove", "done")
    /\ lock' = None
    /\ same' = [same EXCEPT ![e] = FALSE]
    /\ \/ /\ same[e]
          /\ wrapper' = None
          /\ sessCount' = sessCount - 1
          /\ IF e \in Clean /\ session # None
             THEN DestroyTransientSession /\ session' = None
             ELSE UNCHANGED <<routers, store, session>>
       \/ /\ ~same[e]
          /\ UNCHANGED <<wrapper, sessCount, routers, store, session>>
    /\ UNCHANGED <<link, watched, endpointOf, connection, connCount, will, open,
                   isPersistent, old, overlapped>>

-----------------------------------------------------------------------------
OpenStep(e) ==
    \/ OpenSession(e)  \/ ReplaceSession(e) \/ DisposeOld(e)        \/ BuildWrapper(e)
    \/ PutWrapper(e)   \/ SaveConnection(e) \/ HandleWillMessage(e)
    \/ RegisterHandlers(e) \/ Accept(e)

CloseStep(e) ==
    \/ PublishWill(e)  \/ DeleteWill(e)  \/ DeleteConnection(e)
    \/ CloseSession(e) \/ LockSession(e) \/ RemoveSession(e)

\* No handler runs and none waits for a worker.
AtRest ==
    \A e \in Endpoints : open[e] \in {"idle", "done"} /\ close[e] \in {"idle", "done"}

\* The client makes no more connections.
Quiet == AtRest /\ UNCHANGED vars

Next ==
    \/ \E e \in Endpoints :
         Connect(e) \/ OpenStep(e) \/ Subscribe(e) \/ Drop(e) \/ CloseStep(e)
    \/ Quiet

Spec == Init /\ [][Next]_vars

-----------------------------------------------------------------------------
(* Properties *)

\* The listeners together count the client once while the connection cache
\* knows it and not at all otherwise, over every interleaving of takeovers and
\* closes: the check and the update are under one lock, but deleteConnection
\* decides by the wrapper, which openSession changes without that lock.
ConnectionCounted ==
    connCount["tcp"] + connCount["ws"] = IF connection = None THEN 0 ELSE 1

\* When nothing is running, an endpoint the broker accepted owns the session: a
\* takeover has closed every older connection, and no late close of an older
\* connection has removed the session of the newer one.
AcceptedOwnsSession ==
    AtRest /\ ~overlapped =>
        \A e \in Endpoints : link[e] = "open" => IsSameEndpoint(wrapper, e)

\* The session that owns the client id is what the session cache says, and the
\* caches of a persistent one exist: no takeover or late close destroyed them.
SessionIntact ==
    AtRest /\ ~overlapped /\ wrapper # None =>
        /\ session = IF wrapper \in Clean THEN "clean" ELSE "persistent"
        /\ wrapper \notin Clean => store

\* Nobody but the client removes the subscriptions of a live connection: a
\* takeover destroys them only together with the connection they belong to.
SubscriptionsKept ==
    [][~overlapped => \A e \in routers \ routers' : link'[e] = "closed"]_vars

\* Queued and inflight messages of a persistent session are destroyed only by a
\* connection with cleanSession = true.
PersistentStateKept ==
    [][store /\ ~store' /\ ~overlapped => \E e \in Clean : open[e] = "old"]_vars

\* No closed endpoint keeps the session once all handlers have run, whatever
\* overlaps: handleClose has removed it or a takeover has.  (An endpoint that
\* closes before its closeHandler is registered is the exception: nobody is
\* told, and it stays until the client connects again.)
ClosedReleased ==
    AtRest => \A e \in watched : link[e] = "closed" => ~IsSameEndpoint(wrapper, e)

=============================================================================
