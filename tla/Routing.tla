------------------------------ MODULE Routing ------------------------------
(***************************************************************************)
(* From a PUBLISH to the clients that get it: subscriptions, the trie of   *)
(* the wildcard filters, the walk that looks a topic up, and the retained  *)
(* messages (RouterCacheImpl, RetainCacheImpl, and the subscribe and       *)
(* publish handlers of AbstractMqttVerticle and StandardMqttVerticle).     *)
(*                                                                         *)
(* The router and the trie are TRANSACTIONAL_SNAPSHOT caches: a save or a  *)
(* delete is one step, but a lookup reads the trie once per level and the  *)
(* router at the end, each time in a snapshot of its own.  The retained    *)
(* messages are an ATOMIC cache: every call is a step.                     *)
(***************************************************************************)
EXTENDS Topics

CONSTANTS
    Workers,        \* worker threads that run handlePublish
    Clients,        \* client ids
    Filters,        \* topics and filters clients ask for, valid or not
    Qoss,           \* QoS levels they ask for
    Msgs,           \* PUBLISH packets of QoS 0 or 1
    TopicOf,        \* topic of a packet
    QosOf,          \* its QoS
    RetainOf,       \* its retain flag and payload: see below
    RetainMax,      \* mqtt.retain.max-capacity
    RetainExpires,  \* mqtt.retain.expiry-interval-s > 0
    UpgradeQos,     \* session.upgrade-qos
    None

\* RetainOf: not retained, retained with an empty payload, with one above
\* mqtt.retain.max-payload-kb, or with an ordinary one.
RetainKinds == {"no", "empty", "large", "save"}

Published == {TopicOf[m] : m \in Msgs}

\* Every trie node any subscription can need.
Nodes == UNION {topic2Trie(f) : f \in Filters}

ASSUME RoutingAssumption ==
    /\ IsFiniteSet(Clients) /\ IsFiniteSet(Filters)
    /\ Qoss \subseteq 0..2
    /\ QosOf \in [Msgs -> 0..1]
    /\ RetainOf \in [Msgs -> RetainKinds]
    /\ RetainMax \in Nat
    /\ RetainExpires \in BOOLEAN /\ UpgradeQos \in BOOLEAN
    /\ None \notin Msgs /\ None \notin 0..2

ASSUME PoolAssumption == IsFiniteSet(Workers) /\ Workers # {}

ASSUME TopicAssumption == Filters \subseteq Topic /\ TopicOf \in [Msgs -> Topic]

VARIABLES
    router,     \* router[c][f]: QoS of client c's subscription to f, or None
    trie,       \* count of a trie node; 0 when the node does not exist
    retains,    \* retained message of a topic, or None
    purge,      \* purge[c]: what a running delete(clientId) has yet to delete
    scans,      \* tasks <<c, f>> submitted by handlePublishRetainMessage
    pc,         \* where a worker is in handlePublish
    msg,        \* the packet it handles
    calls,      \* calls of queryMatches it has yet to make
    matches,    \* matched topics found so far
    rows,       \* result of the route query
    stable,     \* history: subscriptions in place since the lookup began
    seen,       \* history: subscriptions in place at some time since then
    handled,    \* history: packets whose handler has ended
    got         \* history: messages handed to each client's session

tables == <<router, trie>>
lookupVars == <<calls, matches, rows>>
workerVars == <<pc, msg, lookupVars>>
lookupHistory == <<stable, seen>>
vars == <<tables, retains, purge, scans, workerVars, lookupHistory, handled, got>>

Places == {"idle", "retain", "contains", "put", "size", "putNew", "getMatches",
           "queryMatches", "deliver"}

Subscriptions == {s \in Clients \X Filters : router[s[1]][s[2]] # None}

Size == Cardinality({t \in Published : retains[t] # None})

calculate(messageQos, topicQos) ==
    IF UpgradeQos
    THEN IF messageQos > topicQos THEN messageQos ELSE topicQos
    ELSE IF messageQos < topicQos THEN messageQos ELSE topicQos

Init ==
    /\ router = [c \in Clients |-> [f \in Filters |-> None]]
    /\ trie = [n \in Nodes |-> 0]
    /\ retains = [t \in Published |-> None]
    /\ purge = [c \in Clients |-> {}]
    /\ scans = {}
    /\ pc = [w \in Workers |-> "idle"]
    /\ msg = [w \in Workers |-> None]
    /\ calls = [w \in Workers |-> {}]
    /\ matches = [w \in Workers |-> {}]
    /\ rows = [w \in Workers |-> {}]
    /\ stable = [w \in Workers |-> {}]
    /\ seen = [w \in Workers |-> {}]
    /\ handled = {}
    /\ got = [c \in Clients |-> {}]
-----------------------------------------------------------------------------
(* Subscriptions                                                           *)

\* Workers between the start of getMatches and the route query.
LookingUp == {w \in Workers : pc[w] = "queryMatches"}

\* The reference counts of the trie are raised on every subscribe.
BadSaveRouter(c, f, q) ==
    /\ router' = [router EXCEPT ![c][f] = q]
    /\ trie' = [n \in Nodes |->
                   IF IsWildcard(f) /\ n \in topic2Trie(f) THEN trie[n] + 1 ELSE trie[n]]

\* One transaction: the subscription is new and so are its trie nodes, or
\* only its QoS is set.
SaveRouter(c, f, q) ==
    /\ router' = [router EXCEPT ![c][f] = q]
    /\ trie' = [n \in Nodes |->
                   IF router[c][f] = None /\ IsWildcard(f) /\ n \in topic2Trie(f)
                   THEN trie[n] + 1 ELSE trie[n]]

\* Trie nodes are removed with the first subscription that goes.
BadDeleteRouter(c, f) ==
    /\ router' = [router EXCEPT ![c][f] = None]
    /\ trie' = [n \in Nodes |->
                   IF router[c][f] # None /\ IsWildcard(f) /\ n \in topic2Trie(f)
                   THEN 0 ELSE trie[n]]
    /\ stable' = [w \in Workers |->
                     IF w \in LookingUp THEN stable[w] \ {<<c, f>>} ELSE stable[w]]

\* The trie is updated whether or not there was a subscription to remove.
UncheckedDeleteRouter(c, f) ==
    /\ router' = [router EXCEPT ![c][f] = None]
    /\ trie' = [n \in Nodes |->
                   IF IsWildcard(f) /\ n \in topic2Trie(f) THEN trie[n] - 1 ELSE trie[n]]
    /\ stable' = [w \in Workers |->
                     IF w \in LookingUp THEN stable[w] \ {<<c, f>>} ELSE stable[w]]

\* One transaction: a node that is left without a subscription is removed.
DeleteRouter(c, f) ==
    /\ router' = [router EXCEPT ![c][f] = None]
    /\ trie' = [n \in Nodes |->
                   IF router[c][f] # None /\ IsWildcard(f) /\ n \in topic2Trie(f)
                      /\ trie[n] > 0
                   THEN trie[n] - 1 ELSE trie[n]]
    /\ stable' = [w \in Workers |->
                     IF w \in LookingUp THEN stable[w] \ {<<c, f>>} ELSE stable[w]]

\* handleSubscribe for one topic: the subscription is saved, then a task is
\* submitted that publishes the retained messages.
Subscribe(c, f, q) ==
    /\ CheckSubscribeTopic(f)
    /\ SaveRouter(c, f, q)
    /\ scans' = scans \cup {<<c, f>>}
    /\ seen' = [w \in Workers |->
                   IF w \in LookingUp THEN seen[w] \cup {<<c, f, q>>} ELSE seen[w]]
    /\ UNCHANGED <<retains, purge, workerVars, stable, handled, got>>

Unsubscribe(c, f) ==
    /\ router[c][f] # None
    /\ DeleteRouter(c, f)
    /\ UNCHANGED <<retains, purge, scans, workerVars, seen, handled, got>>

\* delete(clientId), when a session is destroyed: a query for the topics,
\* then one transaction for each.
DeleteClient(c) ==
    /\ purge[c] = {}
    /\ purge' = [purge EXCEPT ![c] = {f \in Filters : router[c][f] # None}]
    /\ UNCHANGED <<tables, retains, scans, workerVars, lookupHistory, handled, got>>

DeleteClientTopic(c) ==
    \E f \in purge[c] :
        /\ DeleteRouter(c, f)
        /\ purge' = [purge EXCEPT ![c] = @ \ {f}]
        /\ UNCHANGED <<retains, scans, workerVars, seen, handled, got>>

\* The scan over the retained messages: rmatch(retained topic, filter).
GetRetains(f) ==
    {retains[t] : t \in {x \in Published : retains[x] # None /\ rmatch(x, f)}}

\* The submitted task: getRetains, and publishRetainMessage of the result.
PublishRetained(c, f) ==
    /\ <<c, f>> \in scans
    /\ scans' = scans \ {<<c, f>>}
    /\ got' = [got EXCEPT ![c] = @ \cup GetRetains(f)]
    /\ UNCHANGED <<tables, retains, purge, workerVars, lookupHistory, handled>>

-----------------------------------------------------------------------------
(* handlePublish: the retained message                                     *)

topic(w) == TopicOf[msg[w]]

Goto(w, place) == pc' = [pc EXCEPT ![w] = place]

HandlePublish(w, m) ==
    /\ pc[w] = "idle"
    /\ m \notin handled /\ \A v \in Workers : msg[v] # m
    /\ CheckPublishTopic(TopicOf[m])
    /\ msg' = [msg EXCEPT ![w] = m]
    /\ Goto(w, "retain")
    /\ UNCHANGED <<tables, retains, purge, scans, lookupVars, lookupHistory,
                   handled, got>>

HandleRetainMessage(w) ==
    /\ pc[w] = "retain"
    /\ \/ RetainOf[msg[w]] \in {"no", "large"} /\ Goto(w, "getMatches")
          /\ UNCHANGED retains
       \/ RetainOf[msg[w]] = "empty" /\ Goto(w, "getMatches")
          /\ retains' = [retains EXCEPT ![topic(w)] = None]
       \/ RetainOf[msg[w]] = "save" /\ Goto(w, "contains")
          /\ UNCHANGED retains
    /\ UNCHANGED <<tables, purge, scans, msg, lookupVars, lookupHistory, handled, got>>

RetainContains(w) ==
    /\ pc[w] = "contains"
    /\ Goto(w, IF retains[topic(w)] # None THEN "put" ELSE "size")
    /\ UNCHANGED <<tables, retains, purge, scans, msg, lookupVars, lookupHistory,
                   handled, got>>

RetainPut(w) ==
    /\ pc[w] = "put"
    /\ retains' = [retains EXCEPT ![topic(w)] = msg[w]]
    /\ Goto(w, "size")
    /\ UNCHANGED <<tables, purge, scans, msg, lookupVars, lookupHistory, handled, got>>

\* The capacity is exceeded by one.
BadRetainSize(w) ==
    /\ pc[w] = "size"
    /\ Goto(w, IF Size > RetainMax THEN "getMatches" ELSE "putNew")
    /\ UNCHANGED <<tables, retains, purge, scans, msg, lookupVars, lookupHistory,
                   handled, got>>

RetainSize(w) ==
    /\ pc[w] = "size"
    /\ Goto(w, IF Size >= RetainMax THEN "getMatches" ELSE "putNew")
    /\ UNCHANGED <<tables, retains, purge, scans, msg, lookupVars, lookupHistory,
                   handled, got>>

\* A message that is retained for the first time is not routed.
BadRetainPutNew(w) ==
    /\ pc[w] = "putNew"
    /\ retains' = [retains EXCEPT ![topic(w)] = msg[w]]
    /\ Goto(w, "deliver")
    /\ UNCHANGED <<tables, purge, scans, msg, lookupVars, lookupHistory, handled, got>>

RetainPutNew(w) ==
    /\ pc[w] = "putNew"
    /\ retains' = [retains EXCEPT ![topic(w)] = msg[w]]
    /\ Goto(w, "getMatches")
    /\ UNCHANGED <<tables, purge, scans, msg, lookupVars, lookupHistory, handled, got>>

RetainExpire(t) ==
    /\ RetainExpires /\ retains[t] # None
    /\ retains' = [retains EXCEPT ![t] = None]
    /\ UNCHANGED <<tables, purge, scans, workerVars, lookupHistory, handled, got>>

-----------------------------------------------------------------------------
(* handlePublish: the routes                                               *)

GetMatches(w) ==
    /\ pc[w] = "getMatches"
    /\ calls' = [calls EXCEPT ![w] = {[parent |-> <<>>, words |-> words(topic(w))]}]
    /\ matches' = [matches EXCEPT ![w] = {topic(w)}]
    /\ Goto(w, "queryMatches")
    /\ stable' = [stable EXCEPT ![w] = Subscriptions]
    /\ seen' = [seen EXCEPT ![w] = {<<s[1], s[2], router[s[1]][s[2]]>> : s \in Subscriptions}]
    /\ UNCHANGED <<tables, retains, purge, scans, msg, rows, handled, got>>

\* trie(parent, word): the existing nodes among the three children asked for.
trieNodes(parent, word) ==
    {n \in {Append(parent, x) : x \in {Plus, Pound, word}} \cap Nodes : trie[n] > 0}

IsPound(n) == n[Len(n)] = Pound

\* The last call, for `#' below the topic, keeps every child it finds.
BadFound(call) ==
    LET nodes == trieNodes(call.parent, Head(call.words))
    IN  {n \in nodes : IsPound(n) \/ Len(call.words) = 1}

\* The matches and the calls one call of queryMatches leads to.
Found(call) ==
    LET nodes == trieNodes(call.parent, Head(call.words))
    IN  {n \in nodes : IsPound(n) \/ (Len(call.words) = 1 /\ call.words # <<Pound>>)}

Further(call) ==
    LET nodes == {n \in trieNodes(call.parent, Head(call.words)) : ~IsPound(n)}
    IN  IF call.words = <<Pound>> THEN {}
        ELSE IF Len(call.words) > 1
        THEN {[parent |-> n, words |-> Tail(call.words)] : n \in nodes}
        ELSE {[parent |-> n, words |-> <<Pound>>] : n \in nodes}

\* The order of the calls is that of a HashMap: any.
QueryMatches(w) ==
    /\ pc[w] = "queryMatches"
    /\ \E call \in calls[w] :
          /\ matches' = [matches EXCEPT ![w] = @ \cup Found(call)]
          /\ calls' = [calls EXCEPT ![w] = (@ \ {call}) \cup Further(call)]
    /\ UNCHANGED <<tables, retains, purge, scans, pc, msg, rows, lookupHistory,
                   handled, got>>

\* The route query: the subscriptions whose topic is among the matches.
GetRoutes(w) ==
    /\ pc[w] = "queryMatches"
    /\ calls[w] = {}
    /\ rows' = [rows EXCEPT ![w] =
                  {<<s[1], s[2], calculate(QosOf[msg[w]], router[s[1]][s[2]])>> :
                      s \in {x \in Subscriptions : x[2] \in matches[w]}}]
    /\ Goto(w, "deliver")
    /\ UNCHANGED <<tables, retains, purge, scans, msg, calls, matches, lookupHistory,
                   handled, got>>

\* handleLocalPublishMessage submits a task for every route.
Deliver(w) ==
    /\ pc[w] = "deliver"
    /\ got' = [c \in Clients |->
                  IF \E r \in rows[w] : r[1] = c THEN got[c] \cup {msg[w]} ELSE got[c]]
    /\ handled' = handled \cup {msg[w]}
    /\ Goto(w, "idle")
    /\ msg' = [msg EXCEPT ![w] = None]
    /\ matches' = [matches EXCEPT ![w] = {}]
    /\ rows' = [rows EXCEPT ![w] = {}]
    /\ stable' = [stable EXCEPT ![w] = {}]
    /\ seen' = [seen EXCEPT ![w] = {}]
    /\ UNCHANGED <<tables, retains, purge, scans, calls>>

-----------------------------------------------------------------------------
PublishStep(w) ==
    \/ HandleRetainMessage(w) \/ RetainContains(w) \/ RetainPut(w) \/ RetainSize(w)
    \/ RetainPutNew(w) \/ GetMatches(w) \/ QueryMatches(w) \/ GetRoutes(w) \/ Deliver(w)

Next ==
    \/ \E c \in Clients, f \in Filters :
          \/ \E q \in Qoss : Subscribe(c, f, q)
          \/ Unsubscribe(c, f)
          \/ PublishRetained(c, f)
    \/ \E c \in Clients : DeleteClient(c) \/ DeleteClientTopic(c)
    \/ \E w \in Workers, m \in Msgs : HandlePublish(w, m)
    \/ \E w \in Workers : PublishStep(w)
    \/ \E t \in Published : RetainExpire(t)

Spec == Init /\ [][Next]_vars

-----------------------------------------------------------------------------
(* Properties                                                              *)

\* Every variable has the type the code gives it: a subscription a QoS, a trie
\* node a count, a worker inside handlePublish a packet.
TypeOK ==
    /\ router \in [Clients -> [Filters -> Qoss \cup {None}]]
    /\ trie \in [Nodes -> Nat]
    /\ retains \in [Published -> Msgs \cup {None}]
    /\ purge \in [Clients -> SUBSET Filters]
    /\ scans \subseteq Clients \X Filters
    /\ pc \in [Workers -> Places]
    /\ msg \in [Workers -> Msgs \cup {None}]
    /\ \A w \in Workers : pc[w] # "idle" => msg[w] \in Msgs
    /\ matches \in [Workers -> SUBSET (Nodes \cup Published)]
    /\ stable \in [Workers -> SUBSET (Clients \X Filters)]
    /\ handled \subseteq Msgs

\* Wildcard subscriptions whose path in the trie goes through node n.
Through(n) ==
    {s \in Clients \X Filters :
        router[s[1]][s[2]] # None /\ IsWildcard(s[2]) /\ n \in topic2Trie(s[2])}

\* save and delete keep the count of every trie node equal to the number of
\* wildcard subscriptions that need it, over subscribing twice, unsubscribing
\* twice and the deletion of a client's topics one by one.
TrieCounts == \A n \in Nodes : trie[n] = Cardinality(Through(n))

Served(f, t) == Regular(f) /\ Regular(t) /\ Matches(f, t)

\* A subscription that was in place during the whole lookup gets the message
\* if its filter matches, whatever else is subscribed and unsubscribed between
\* the reads of the trie.
LookupComplete ==
    \A w \in Workers : pc[w] = "deliver" =>
        \A s \in stable[w] : Served(s[2], topic(w)) =>
            \E r \in rows[w] : r[1] = s[1] /\ r[2] = s[2]

\* A route returned by getRoutes belongs to a subscription that matches and
\* was in place at some moment of the lookup, with the QoS it had then.
LookupSound ==
    \A w \in Workers : pc[w] = "deliver" =>
        \A r \in rows[w] : Regular(r[2]) /\ Regular(topic(w)) =>
            /\ Matches(r[2], topic(w))
            /\ \E q \in Qoss : <<r[1], r[2], q>> \in seen[w]
                               /\ r[3] = calculate(QosOf[msg[w]], q)

\* What is retained now, by a handler that has ended, is known to a client
\* whose subscription is complete: by the route or by the retained messages.
Reached(c, f, t) ==
    router[c][f] # None /\ <<c, f>> \notin scans /\ retains[t] \in handled
        => retains[t] \in got[c]

\* A retained message published while a client subscribes to its topic is not
\* missed: handlePublish saves before it looks routes up, handleSubscribe saves
\* before it looks retained messages up.
RetainedReachesTopic ==
    \A c \in Clients, f \in Filters \cap Published : Reached(c, f, f)

\* The same for every filter that matches the topic, wildcards included.
RetainedReachesFilter ==
    \A c \in Clients, f \in Filters, t \in Published : Served(f, t) => Reached(c, f, t)

\* RetainCacheImpl.save tests the capacity and uses it in separate steps, and
\* puts a topic it has seen without a test: the capacity is exceeded by less
\* than the number of workers.
RetainOvershootBounded == Size <= RetainMax + Cardinality(Workers) - 1
=============================================================================
