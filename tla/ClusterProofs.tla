--------------------------- MODULE ClusterProofs ---------------------------
(***************************************************************************)
(* Theorems about Cluster, for any number of nodes, of connections and of  *)
(* messages, any mix of clean and persistent connections, and nodes that   *)
(* fail as often as they like.                                             *)
(***************************************************************************)
EXTENDS Cluster, TLAPS

\* openSession has started and handleClose has not ended; and openSession has
\* written its session row.
Active == {"lock", "dispose", "build", "put", "live", "closing"}
Behind == Active \ {"lock"}

IsNewest(c) == (c # 0 => link[c] # "new") /\ \A d \in Conns : link[d] # "new" => d <= c

RowOf(c) == [clean |-> c \in clean, node |-> at[c], createTime |-> c]

\* A connection is served by a node that is up.
PlaceInv ==
    \A c \in Conns : /\ link[c] \in Active => at[c] \in NodeIds /\ node[at[c]] = "up"
                     /\ link[c] \notin Active => at[c] = None

\* Connections arrive in the order of their numbers.
OrderInv ==
    /\ \E c \in Conns \cup {0} : IsNewest(c)
    /\ \A c, d \in Conns : link[c] # "new" /\ d < c => link[d] # "new"

\* What is on its way about a node is about a dead one.
DeadInv ==
    /\ \A e \in left : node[e.about] = "dead"
    /\ \A s \in sweeps : node[s.about] = "dead"

\* A session row was written by the connection it names, and the rows handed to
\* the closures are those of clean sessions.
RowInv ==
    /\ session # None =>
         /\ link[session.createTime] \notin {"new", "lock"}
         /\ session.clean <=> session.createTime \in clean
         /\ link[session.createTime] \in Behind => at[session.createTime] = session.node
    /\ \A s \in closures :
         s.clean /\ link[s.createTime] # "new" /\ s.createTime \in clean

\* The connection of a row that a closure got is gone.
ClosureInv == ~raced => \A s \in closures : link[s.createTime] = "gone"

\* Only the latest connection is opening.
OneOpening == ~overlapped => \A c \in Opening : IsNewest(c)

\* From the session lock on the latest connection has the row; the connection of
\* the row has the wrapper from putWrapper on, and nobody has it before.
HasRow ==
    \A c \in Conns : IsNewest(c) /\ link[c] \in Behind => session = RowOf(c)

HasWrapper ==
    session # None =>
      LET c == session.createTime
      IN /\ link[c] \in {"dispose", "build", "put"} => wrapper[at[c]] = None
         /\ link[c] \in {"live", "closing"} => wrapper[at[c]] = c

OwnerInv == ~overlapped /\ ~raced => HasRow /\ HasWrapper

\* The routes follow the latest connection from the opening of its wrapper on;
\* a clean one has none before.
RouteInv ==
    ~misrouted /\ ~overlapped => \A c \in Conns :
      IsNewest(c) /\ (link[c] \in {"put", "live", "closing"} \/ (link[c] = "build" /\ c \in clean))
        => router \in {None, at[c]}

NoCleanStarted == \A c \in clean : link[c] = "new"

\* While no clean connection has come, a wrapper is the wrapper of a persistent
\* session that openSession has seen: it does not destroy the queue.
WrapperSeen ==
    /\ \A n \in NodeIds : wrapper[n] # None => session # None
    /\ \A c \in Conns :
         /\ link[c] = "lock" /\ wrapper[at[c]] # None => old[c].persistent
         /\ link[c] = "dispose" /\ old[c].wrapper # None => old[c].persistent
         /\ link[c] \in {"dispose", "build", "put"} => session # None

PersistentInv == NoCleanStarted /\ ~overlapped => WrapperSeen

\* A message owed is carried by a task that does not merely wait for the reply
\* or look for the wrapper again.
Carried ==
    \A m \in owed : \/ m \in delivered \cup queue \cup excused
                    \/ \E t \in task : t.msg = m /\ t.kind \in {"request", "fallback", "local"}

CarriedInv == NoCleanStarted /\ ~overlapped => Carried

USE ClusterAssumption DEF nodeVars, linkVars, messageVars, raceVars, Conns

-----------------------------------------------------------------------------
(* Types.                                                                  *)

\* What an open that found nothing has read is well typed.
LEMMA NothingReadType == NothingRead \in Old
  BY DEF NothingRead, Old

\* The fields of a task have their types.
LEMMA TaskFields ==
    ASSUME NEW t \in Task
    PROVE  /\ t.msg \in Msgs /\ t.on \in NodeIds
           /\ t.kind \in {"request", "waiting", "fallback", "local", "again"}
           /\ t.kind \in {"request", "waiting"} => t.to \in NodeIds
  BY DEF Task

\* The tasks the handlers create are tasks.
LEMMA TaskOf ==
    ASSUME NEW m \in Msgs, NEW n \in NodeIds, NEW r \in NodeIds
    PROVE  /\ [kind |-> "request", msg |-> m, on |-> n, to |-> r] \in Task
           /\ [kind |-> "local", msg |-> m, on |-> n] \in Task
           /\ [kind |-> "fallback", msg |-> m, on |-> n] \in Task
  BY DEF Task

\* A task that moves on to its next kind is a task.
LEMMA TaskChanged ==
    ASSUME NEW t \in Task
    PROVE  /\ t.kind = "request" => [t EXCEPT !.kind = "waiting"] \in Task
           /\ t.kind = "local" => [t EXCEPT !.kind = "again"] \in Task
  BY DEF Task

\* What an open has read stays well typed when the wrapper is read later.
LEMMA OldChanged ==
    ASSUME NEW o \in Old, NEW w \in Conns \cup {None}
    PROVE  [o EXCEPT !.wrapper = w] \in Old
  BY DEF Old

\* The sessions initialize deletes are sessions.
LEMMA TransientType ==
    ASSUME session \in Session \cup {None}, NEW n
    PROVE  TransientSessions(n) \subseteq Session
  BY DEF TransientSessions

\* Types hold initially.
LEMMA InitTypes == Init => TypeOK
  <1> SUFFICES ASSUME Init PROVE TypeOK
    OBVIOUS
  <1>1. old \in [Conns -> Old]
    BY NothingReadType DEF Init
  <1>2. /\ overlapped \in BOOLEAN /\ raced \in BOOLEAN
        /\ misrouted \in BOOLEAN /\ orphaned \in BOOLEAN
    BY DEF Init
  <1>3. QED
    BY <1>1, <1>2 DEF Init, TypeOK

\* Every step preserves the types.
LEMMA TypeStep == TypeOK /\ PlaceInv /\ [Next]_vars => TypeOK'
  <1> SUFFICES ASSUME TypeOK, PlaceInv, [Next]_vars
               PROVE  TypeOK'
    OBVIOUS
  <1>1. ASSUME NEW n \in NodeIds, Join(n) PROVE TypeOK'
    BY <1>1 DEF TypeOK, PlaceInv, Active, Join
  <1>2. ASSUME NEW n \in NodeIds, InitNode(n) PROVE TypeOK'
    <2>1. nodeTable' \in [NodeIds -> {"absent", "Running", "Stopped"}]
      BY <1>2 DEF TypeOK, InitNode
    <2>2. closures' \subseteq Session
      BY <1>2, TransientType DEF TypeOK, InitNode
    <2>3. raced' \in BOOLEAN /\ orphaned' \in BOOLEAN
      BY <1>2 DEF TypeOK, InitNode
    <2>4. node' \in [NodeIds -> {"no", "joined", "up", "dead"}] /\ first' \subseteq NodeIds
      BY <1>2 DEF TypeOK, InitNode
    <2>5. QED
      BY <1>2, <2>1, <2>2, <2>3, <2>4 DEF TypeOK, InitNode
  <1>3. ASSUME NEW n \in NodeIds, NodeDies(n) PROVE TypeOK'
    <2>1. /\ wrapper' \in [NodeIds -> Conns \cup {None}]
          /\ at' \in [Conns -> NodeIds \cup {None}]
          /\ old' \in [Conns -> Old]
      BY <1>3, NothingReadType DEF TypeOK, NodeDies
    <2>2. /\ kicks' \subseteq [to : NodeIds, by : Conns]
          /\ sweeps' \subseteq [by : NodeIds, about : NodeIds]
          /\ first' \subseteq NodeIds
      BY <1>3 DEF TypeOK, NodeDies
    <2>3. left' \subseteq [to : NodeIds, about : NodeIds]
      BY <1>3 DEF TypeOK, NodeDies, Alive
    <2>4. task' \subseteq Task /\ excused' \subseteq Msgs
      BY <1>3, TaskFields DEF TypeOK, NodeDies
    <2>5. /\ link' \in [Conns -> {"new", "lock", "dispose", "build", "put", "live", "closing", "gone"}]
          /\ node' \in [NodeIds -> {"no", "joined", "up", "dead"}]
          /\ nodeTable' \in [NodeIds -> {"absent", "Running", "Stopped"}]
      BY <1>3 DEF TypeOK, NodeDies
    <2>6. closures' \subseteq Session
      BY <1>3 DEF TypeOK, NodeDies
    <2>7. orphaned' \in BOOLEAN
      BY <1>3 DEF TypeOK, NodeDies
    <2>8. QED
      BY <1>3, <2>1, <2>2, <2>3, <2>4, <2>5, <2>6, <2>7 DEF TypeOK, NodeDies
  <1>4. ASSUME NEW e \in left, MarkNode(e) PROVE TypeOK'
    <2>1. e.to \in NodeIds /\ e.about \in NodeIds
      BY DEF TypeOK
    <2>2. nodeTable' \in [NodeIds -> {"absent", "Running", "Stopped"}]
      BY <1>4 DEF TypeOK, MarkNode
    <2>3. sweeps' \subseteq [by : NodeIds, about : NodeIds]
      BY <1>4, <2>1 DEF TypeOK, MarkNode
    <2>4. left' \subseteq [to : NodeIds, about : NodeIds]
      BY <1>4 DEF TypeOK, MarkNode
    <2>5. QED
      BY <1>4, <2>2, <2>3, <2>4 DEF TypeOK, MarkNode
  <1>5. ASSUME NEW s \in sweeps, SweepNode(s) PROVE TypeOK'
    BY <1>5 DEF TypeOK, PlaceInv, Active, SweepNode, TransientSessions
  <1>6. ASSUME NEW s \in closures, DestroySession(s) PROVE TypeOK'
    BY <1>6, ZenonT(60) DEF TypeOK, PlaceInv, Active, DestroySession, DestroyTransientSession,
       DestroyPersistentSession
  <1>7. ASSUME NEW k \in kicks, Kick(k) PROVE TypeOK'
    BY <1>7 DEF TypeOK, PlaceInv, Active, Kick
  <1>8. ASSUME NEW c \in Conns, NEW n \in NodeIds, OpenRead(c, n) PROVE TypeOK'
    <2>1. session # None => session.node \in NodeIds
      BY DEF TypeOK, Session
    <2>2. IsPersistentSession \in BOOLEAN
      BY DEF IsPersistentSession
    <2> DEFINE r == [persistent |-> IsPersistentSession,
                     prev |-> IF session = None THEN None ELSE session.node,
                     wrapper |-> None]
    <2>3. r \in Old
      BY <2>1, <2>2 DEF Old
    <2>4. old' = [old EXCEPT ![c] = r]
      BY <1>8 DEF OpenRead
    <2> HIDE DEF r
    <2>5. old' \in [Conns -> Old]
      BY <2>3, <2>4 DEF TypeOK
    <2>6. overlapped' \in BOOLEAN
      BY <1>8 DEF TypeOK, OpenRead
    <2>7. QED
      BY <1>8, <2>5, <2>6 DEF TypeOK, OpenRead
  <1>9. ASSUME NEW c \in Conns, OpenLock(c) PROVE TypeOK'
    <2>1. at[c] \in NodeIds
      BY <1>9 DEF OpenLock, PlaceInv, Active
    <2>2. old' \in [Conns -> Old]
      <3>1. old[c] \in Old /\ wrapper[at[c]] \in Conns \cup {None}
        BY <2>1 DEF TypeOK
      <3>2. [old[c] EXCEPT !.wrapper = wrapper[at[c]]] \in Old
        BY <3>1, OldChanged
      <3>3. old' = [old EXCEPT ![c] = [old[c] EXCEPT !.wrapper = wrapper[at[c]]]]
        BY <1>9 DEF OpenLock
      <3>4. QED
        BY <3>2, <3>3 DEF TypeOK
    <2>3. session' \in Session
      BY <1>9, <2>1 DEF OpenLock, Session
    <2>4. wrapper' \in [NodeIds -> Conns \cup {None}]
      BY <1>9 DEF TypeOK, OpenLock
    <2>5. QED
      BY <1>9, <2>2, <2>3, <2>4 DEF TypeOK, OpenLock
  <1>10. ASSUME NEW c \in Conns, OpenDispose(c) PROVE TypeOK'
    <2>1. old[c].prev \in NodeIds \cup {None}
      BY DEF TypeOK, Old
    <2>2. kicks' \subseteq [to : NodeIds, by : Conns]
      BY <1>10, <2>1 DEF TypeOK, OpenDispose, KickPrevious
    <2>3. old' \in [Conns -> Old]
      BY <1>10, NothingReadType DEF TypeOK, OpenDispose
    <2>4. link' \in [Conns -> {"new", "lock", "dispose", "build", "put", "live", "closing", "gone"}]
      <3>1. CASE old[c].wrapper = None
        BY <1>10, <3>1 DEF TypeOK, OpenDispose
      <3>2. CASE old[c].wrapper # None
        <4> DEFINE w == old[c].wrapper
        <4>1. link' = [d \in Conns |-> IF d = c THEN "build"
                                       ELSE IF d = w /\ link[d] = "live" THEN "closing" ELSE link[d]]
          BY <1>10, <3>2 DEF OpenDispose
        <4> HIDE DEF w
        <4>2. QED
          BY <4>1 DEF TypeOK
      <3>3. QED
        BY <3>1, <3>2
    <2>5. router' \in NodeIds \cup {None} /\ queue' \subseteq Msgs
      BY <1>10 DEF TypeOK, OpenDispose, DestroyTransientSession, DestroyPersistentSession
    <2>6. QED
      BY <1>10, <2>2, <2>3, <2>4, <2>5 DEF TypeOK, OpenDispose
  <1>11. ASSUME NEW c \in Conns, OpenBuild(c) PROVE TypeOK'
    BY <1>11 DEF TypeOK, PlaceInv, Active, OpenBuild
  <1>12. ASSUME NEW c \in Conns, OpenPut(c) PROVE TypeOK'
    BY <1>12 DEF TypeOK, PlaceInv, Active, OpenPut
  <1>13. ASSUME NEW c \in Conns, CloseSession(c) PROVE TypeOK'
    BY <1>13 DEF TypeOK, PlaceInv, Active, CloseSession, DestroyTransientSession
  <1>14. ASSUME NEW c \in Conns, Subscribe(c) PROVE TypeOK'
    BY <1>14 DEF TypeOK, PlaceInv, Active, Subscribe
  <1>15. ASSUME NEW c \in Conns, Disconnect(c) PROVE TypeOK'
    BY <1>15 DEF TypeOK, PlaceInv, Active, Disconnect
  <1>16. ASSUME NEW m \in Msgs, NEW n \in NodeIds, HandlePublish(m, n) PROVE TypeOK'
    <2>1. router \in NodeIds
      BY <1>16 DEF TypeOK, HandlePublish
    <2>2. task' \subseteq Task
      <3> DEFINE a == [kind |-> "local", msg |-> m, on |-> n]
                 b == [kind |-> "request", msg |-> m, on |-> n, to |-> router]
      <3>1. a \in Task /\ b \in Task
        BY <2>1, TaskOf
      <3>2. task' = task \cup {IF router = n THEN a ELSE b}
        BY <1>16 DEF HandlePublish
      <3> HIDE DEF a, b
      <3>3. QED
        BY <3>1, <3>2 DEF TypeOK
    <2>3. owed' \subseteq Msgs /\ excused' \subseteq Msgs
      BY <1>16 DEF TypeOK, HandlePublish
    <2>4. QED
      BY <1>16, <2>2, <2>3 DEF TypeOK, HandlePublish
  <1>17. ASSUME NEW t \in task, ReceiveRequest(t) PROVE TypeOK'
    <2>1. t \in Task
      BY DEF TypeOK
    <2>2. task' \subseteq Task
      <3> DEFINE a == [kind |-> "local", msg |-> t.msg, on |-> t.to]
                 b == [t EXCEPT !.kind = "waiting"]
      <3>1. t.kind = "request" /\ t.msg \in Msgs /\ t.to \in NodeIds
        BY <1>17, <2>1, TaskFields DEF ReceiveRequest
      <3>2. a \in Task /\ b \in Task
        BY <2>1, <3>1, TaskOf, TaskChanged
      <3>3. task' = (task \ {t}) \cup {a, b}
        BY <1>17 DEF ReceiveRequest
      <3> HIDE DEF a, b
      <3>4. QED
        BY <3>2, <3>3 DEF TypeOK
    <2>3. queue' \subseteq Msgs /\ delivered' \subseteq Msgs /\ excused' \subseteq Msgs
      BY <1>17, <2>1, TaskFields DEF TypeOK, ReceiveRequest
    <2>4. QED
      BY <1>17, <2>2, <2>3 DEF TypeOK, ReceiveRequest
  <1>18. ASSUME NEW t \in task, ReceiveReply(t) PROVE TypeOK'
    BY <1>18 DEF TypeOK, PlaceInv, Active, ReceiveReply
  <1>19. ASSUME NEW t \in task, RequestFails(t) PROVE TypeOK'
    <2>1. t \in Task
      BY DEF TypeOK
    <2>2. task' \subseteq Task
      <3> DEFINE a == [kind |-> "fallback", msg |-> t.msg, on |-> t.on]
      <3>1. a \in Task
        BY <2>1, TaskFields, TaskOf
      <3>2. task' \subseteq (task \ {t}) \cup {a}
        BY <1>19 DEF RequestFails
      <3> HIDE DEF a
      <3>3. QED
        BY <3>1, <3>2 DEF TypeOK
    <2>3. queue' \subseteq Msgs /\ delivered' \subseteq Msgs /\ excused' \subseteq Msgs
      BY <1>19, <2>1, TaskFields DEF TypeOK, RequestFails
    <2>4. QED
      BY <1>19, <2>2, <2>3 DEF TypeOK, RequestFails
  <1>20. ASSUME NEW t \in task, EnqueueFallback(t) PROVE TypeOK'
    <2>1. t \in Task
      BY DEF TypeOK
    <2>2. task' \subseteq Task
      BY <1>20, <2>1, TaskFields, TaskOf, TaskChanged DEF TypeOK, EnqueueFallback
    <2>3. queue' \subseteq Msgs /\ delivered' \subseteq Msgs /\ excused' \subseteq Msgs
      BY <1>20, <2>1, TaskFields DEF TypeOK, EnqueueFallback
    <2>4. QED
      BY <1>20, <2>2, <2>3 DEF TypeOK, EnqueueFallback
  <1>21. ASSUME NEW t \in task, LocalPublish(t) PROVE TypeOK'
    <2>1. t \in Task
      BY DEF TypeOK
    <2>2. task' \subseteq Task
      <3> DEFINE a == [t EXCEPT !.kind = "again"]
      <3>1. a \in Task
        BY <1>21, <2>1, TaskChanged DEF LocalPublish
      <3>2. task' \subseteq (task \ {t}) \cup {a}
        BY <1>21 DEF LocalPublish
      <3> HIDE DEF a
      <3>3. QED
        BY <3>1, <3>2 DEF TypeOK
    <2>3. queue' \subseteq Msgs /\ delivered' \subseteq Msgs /\ excused' \subseteq Msgs
      <3>1. t.msg \in Msgs
        BY <2>1, TaskFields
      <3>2. CASE wrapper[t.on] # None
        BY <1>21, <3>1, <3>2 DEF TypeOK, LocalPublish, PublishMessage
      <3>3. CASE wrapper[t.on] = None
        BY <1>21, <3>1, <3>3 DEF TypeOK, LocalPublish
      <3>4. QED
        BY <3>2, <3>3
    <2>4. QED
      BY <1>21, <2>2, <2>3 DEF TypeOK, LocalPublish
  <1>22. ASSUME NEW t \in task, LookupAgain(t) PROVE TypeOK'
    BY <1>22 DEF TypeOK, PlaceInv, Active, LookupAgain
  <1>23. CASE UNCHANGED vars
    BY <1>23 DEF vars, TypeOK, PlaceInv, Active
  <1>24. QED
    BY <1>1, <1>2, <1>3, <1>4, <1>5, <1>6, <1>7, <1>8, <1>9, <1>10, <1>11, <1>12, <1>13, <1>14,
       <1>15, <1>16, <1>17, <1>18, <1>19, <1>20, <1>21, <1>22, <1>23 DEF Next, ClusterStep,
       ConnStep, MessageStep

-----------------------------------------------------------------------------
(* The parts of the invariant that need no order of the connections.       *)

\* What the tasks that carry messages leave alone.
coreVars == <<clean, session, router, nodeTable, node, first, wrapper, link, at, old, kicks,
              left, sweeps, closures, overlapped, raced, misrouted, orphaned>>

\* Message handlers leave connections, tables and wrappers alone.
LEMMA MessagesApart ==
    /\ \A m \in Msgs, n \in NodeIds : HandlePublish(m, n) => UNCHANGED coreVars
    /\ \A t \in task : MessageStep(t) => UNCHANGED coreVars
    /\ UNCHANGED vars => UNCHANGED coreVars
  <1>1. ASSUME NEW m \in Msgs, NEW n \in NodeIds, HandlePublish(m, n) PROVE UNCHANGED coreVars
    BY <1>1 DEF HandlePublish, coreVars
  <1>2. ASSUME NEW t \in task, MessageStep(t) PROVE UNCHANGED coreVars
    BY <1>2 DEF MessageStep, ReceiveRequest, ReceiveReply, RequestFails, EnqueueFallback,
                LocalPublish, LookupAgain, coreVars
  <1>3. UNCHANGED vars => UNCHANGED coreVars
    BY DEF vars, coreVars
  <1>4. QED
    BY <1>1, <1>2, <1>3

\* The types of the functions and sets of the connections and nodes.
CoreTypes ==
    /\ clean \subseteq Conns
    /\ node \in [NodeIds -> {"no", "joined", "up", "dead"}]
    /\ wrapper \in [NodeIds -> Conns \cup {None}]
    /\ link \in [Conns -> {"new", "lock", "dispose", "build", "put", "live", "closing", "gone"}]
    /\ at \in [Conns -> NodeIds \cup {None}]

\* The types of the tables alone, for the steps that need no other.
LEMMA CoreTypesOK == TypeOK => CoreTypes
  BY DEF TypeOK, CoreTypes

\* The death of a node takes the connections of that node, and no other.
LEMMA DiesLink ==
    ASSUME CoreTypes, NEW n \in NodeIds, NodeDies(n)
    PROVE  \A d \in Conns : /\ at[d] = n => link'[d] = "gone" /\ at'[d] = None
                            /\ at[d] # n => link'[d] = link[d] /\ at'[d] = at[d]
  <1>1. /\ link' = [d \in Conns |-> IF at[d] = n THEN "gone" ELSE link[d]]
        /\ at' = [d \in Conns |-> IF at[d] = n THEN None ELSE at[d]]
    BY DEF NodeDies
  <1>2. QED
    BY <1>1 DEF CoreTypes

\* Disposing of the old connection closes it and touches no third one.
LEMMA DisposeLink ==
    ASSUME CoreTypes, NEW c \in Conns, OpenDispose(c)
    PROVE  /\ link[c] = "dispose" /\ link'[c] = "build"
           /\ \A d \in Conns \ {c} : link'[d] = link[d] \/ (link[d] = "live" /\ link'[d] = "closing")
  <1> DEFINE w == old[c].wrapper
  <1>1. \/ link' = [link EXCEPT ![c] = "build"]
        \/ link' = [d \in Conns |-> IF d = c THEN "build"
                                    ELSE IF d = w /\ link[d] = "live" THEN "closing" ELSE link[d]]
    BY DEF OpenDispose
  <1>2. link[c] = "dispose"
    BY DEF OpenDispose
  <1> HIDE DEF w
  <1>3. QED
    BY <1>1, <1>2 DEF CoreTypes

\* Every step keeps connections at their nodes.
LEMMA PlaceStep == TypeOK /\ PlaceInv /\ [Next]_vars => PlaceInv'
  <1> SUFFICES ASSUME TypeOK, PlaceInv, [Next]_vars
               PROVE  PlaceInv'
    OBVIOUS
  <1>a. CoreTypes
    BY CoreTypesOK
  <1>1. ASSUME NEW n \in NodeIds, Join(n) PROVE PlaceInv'
    BY <1>1, <1>a DEF PlaceInv, CoreTypes, Active, Join
  <1>2. ASSUME NEW n \in NodeIds, InitNode(n) PROVE PlaceInv'
    BY <1>2, <1>a DEF PlaceInv, CoreTypes, Active, InitNode, TransientSessions
  <1>3. ASSUME NEW n \in NodeIds, NodeDies(n) PROVE PlaceInv'
    BY <1>3, <1>a DEF PlaceInv, CoreTypes, Active, NodeDies
  <1>4. ASSUME NEW e \in left, MarkNode(e) PROVE PlaceInv'
    BY <1>4, <1>a DEF PlaceInv, CoreTypes, Active, MarkNode
  <1>5. ASSUME NEW s \in sweeps, SweepNode(s) PROVE PlaceInv'
    BY <1>5, <1>a DEF PlaceInv, CoreTypes, Active, SweepNode, TransientSessions
  <1>6. ASSUME NEW s \in closures, DestroySession(s) PROVE PlaceInv'
    BY <1>6, <1>a DEF PlaceInv, CoreTypes, Active, DestroySession, DestroyTransientSession,
       DestroyPersistentSession
  <1>7. ASSUME NEW k \in kicks, Kick(k) PROVE PlaceInv'
    BY <1>7, <1>a DEF PlaceInv, CoreTypes, Active, Kick
  <1>8. ASSUME NEW c \in Conns, NEW n \in NodeIds, OpenRead(c, n) PROVE PlaceInv'
    BY <1>8, <1>a DEF PlaceInv, CoreTypes, Active, OpenRead, IsPersistentSession
  <1>9. ASSUME NEW c \in Conns, OpenLock(c) PROVE PlaceInv'
    BY <1>9, <1>a DEF PlaceInv, CoreTypes, Active, OpenLock
  <1>10. ASSUME NEW c \in Conns, OpenDispose(c) PROVE PlaceInv'
    BY <1>10, <1>a DEF PlaceInv, CoreTypes, Active, OpenDispose, KickPrevious,
       DestroyTransientSession, DestroyPersistentSession
  <1>11. ASSUME NEW c \in Conns, OpenBuild(c) PROVE PlaceInv'
    BY <1>11, <1>a DEF PlaceInv, CoreTypes, Active, OpenBuild
  <1>12. ASSUME NEW c \in Conns, OpenPut(c) PROVE PlaceInv'
    BY <1>12, <1>a DEF PlaceInv, CoreTypes, Active, OpenPut
  <1>13. ASSUME NEW c \in Conns, CloseSession(c) PROVE PlaceInv'
    BY <1>13, <1>a DEF PlaceInv, CoreTypes, Active, CloseSession, DestroyTransientSession
  <1>14. ASSUME NEW c \in Conns, Subscribe(c) PROVE PlaceInv'
    BY <1>14, <1>a DEF PlaceInv, CoreTypes, Active, Subscribe
  <1>15. ASSUME NEW c \in Conns, Disconnect(c) PROVE PlaceInv'
    BY <1>15, <1>a DEF PlaceInv, CoreTypes, Active, Disconnect
  <1>16. CASE UNCHANGED coreVars
    BY <1>16, <1>a DEF coreVars, PlaceInv, CoreTypes, Active
  <1>17. QED
    BY <1>1, <1>2, <1>3, <1>4, <1>5, <1>6, <1>7, <1>8, <1>9, <1>10, <1>11, <1>12, <1>13, <1>14,
       <1>15, <1>16, MessagesApart DEF Next, ClusterStep, ConnStep

\* What is on its way about a node stays about a dead one.
LEMMA DeadStep == TypeOK /\ DeadInv /\ [Next]_vars => DeadInv'
  <1> SUFFICES ASSUME TypeOK, DeadInv, [Next]_vars
               PROVE  DeadInv'
    OBVIOUS
  <1>a. CoreTypes
    BY CoreTypesOK
  <1>1. ASSUME NEW n \in NodeIds, Join(n) PROVE DeadInv'
    BY <1>1, <1>a DEF DeadInv, CoreTypes, Join
  <1>2. ASSUME NEW n \in NodeIds, InitNode(n) PROVE DeadInv'
    BY <1>2, <1>a DEF DeadInv, CoreTypes, InitNode, TransientSessions
  <1>3. ASSUME NEW n \in NodeIds, NodeDies(n) PROVE DeadInv'
    BY <1>3, <1>a DEF DeadInv, CoreTypes, NodeDies
  <1>4. ASSUME NEW e \in left, MarkNode(e) PROVE DeadInv'
    BY <1>4, <1>a DEF DeadInv, CoreTypes, MarkNode
  <1>5. ASSUME NEW s \in sweeps, SweepNode(s) PROVE DeadInv'
    BY <1>5, <1>a DEF DeadInv, CoreTypes, SweepNode, TransientSessions
  <1>6. ASSUME NEW s \in closures, DestroySession(s) PROVE DeadInv'
    BY <1>6, <1>a DEF DeadInv, CoreTypes, DestroySession, DestroyTransientSession,
       DestroyPersistentSession
  <1>7. ASSUME NEW k \in kicks, Kick(k) PROVE DeadInv'
    BY <1>7, <1>a DEF DeadInv, CoreTypes, Kick
  <1>8. ASSUME NEW c \in Conns, NEW n \in NodeIds, OpenRead(c, n) PROVE DeadInv'
    BY <1>8, <1>a DEF DeadInv, CoreTypes, OpenRead, IsPersistentSession
  <1>9. ASSUME NEW c \in Conns, OpenLock(c) PROVE DeadInv'
    BY <1>9, <1>a DEF DeadInv, CoreTypes, OpenLock
  <1>10. ASSUME NEW c \in Conns, OpenDispose(c) PROVE DeadInv'
    BY <1>10, <1>a DEF DeadInv, CoreTypes, OpenDispose, KickPrevious, DestroyTransientSession,
       DestroyPersistentSession
  <1>11. ASSUME NEW c \in Conns, OpenBuild(c) PROVE DeadInv'
    BY <1>11, <1>a DEF DeadInv, CoreTypes, OpenBuild
  <1>12. ASSUME NEW c \in Conns, OpenPut(c) PROVE DeadInv'
    BY <1>12, <1>a DEF DeadInv, CoreTypes, OpenPut
  <1>13. ASSUME NEW c \in Conns, CloseSession(c) PROVE DeadInv'
    BY <1>13, <1>a DEF DeadInv, CoreTypes, CloseSession, DestroyTransientSession
  <1>14. ASSUME NEW c \in Conns, Subscribe(c) PROVE DeadInv'
    BY <1>14, <1>a DEF DeadInv, CoreTypes, Subscribe
  <1>15. ASSUME NEW c \in Conns, Disconnect(c) PROVE DeadInv'
    BY <1>15, <1>a DEF DeadInv, CoreTypes, Disconnect
  <1>16. CASE UNCHANGED coreVars
    BY <1>16, <1>a DEF coreVars, DeadInv, CoreTypes
  <1>17. QED
    BY <1>1, <1>2, <1>3, <1>4, <1>5, <1>6, <1>7, <1>8, <1>9, <1>10, <1>11, <1>12, <1>13, <1>14,
       <1>15, <1>16, MessagesApart DEF Next, ClusterStep, ConnStep

\* Every step keeps the connections in the order of their arrival.
LEMMA OrderStep == TypeOK /\ PlaceInv /\ OrderInv /\ [Next]_vars => OrderInv'
  <1> SUFFICES ASSUME TypeOK, PlaceInv, OrderInv, [Next]_vars
               PROVE  OrderInv'
    OBVIOUS
  <1>a. CoreTypes
    BY CoreTypesOK
  <1>1. ASSUME NEW n \in NodeIds, Join(n) PROVE OrderInv'
    BY <1>1, <1>a DEF OrderInv, IsNewest, CoreTypes, Join
  <1>2. ASSUME NEW n \in NodeIds, InitNode(n) PROVE OrderInv'
    BY <1>2, <1>a DEF OrderInv, IsNewest, CoreTypes, InitNode, TransientSessions
  <1>3. ASSUME NEW n \in NodeIds, NodeDies(n) PROVE OrderInv'
    <2>1. \A d \in Conns : link'[d] = "new" <=> link[d] = "new"
      BY <1>3, <1>a, DiesLink DEF PlaceInv, Active, CoreTypes
    <2>2. QED
      BY <2>1 DEF OrderInv, IsNewest
  <1>4. ASSUME NEW e \in left, MarkNode(e) PROVE OrderInv'
    BY <1>4, <1>a DEF OrderInv, IsNewest, CoreTypes, MarkNode
  <1>5. ASSUME NEW s \in sweeps, SweepNode(s) PROVE OrderInv'
    BY <1>5, <1>a DEF OrderInv, IsNewest, CoreTypes, SweepNode, TransientSessions
  <1>6. ASSUME NEW s \in closures, DestroySession(s) PROVE OrderInv'
    BY <1>6, <1>a DEF OrderInv, IsNewest, CoreTypes, DestroySession, DestroyTransientSession,
       DestroyPersistentSession
  <1>7. ASSUME NEW k \in kicks, Kick(k) PROVE OrderInv'
    BY <1>7, <1>a DEF OrderInv, IsNewest, CoreTypes, Kick
  <1>8. ASSUME NEW c \in Conns, NEW n \in NodeIds, OpenRead(c, n) PROVE OrderInv'
    BY <1>8, <1>a DEF OrderInv, IsNewest, CoreTypes, OpenRead, IsPersistentSession
  <1>9. ASSUME NEW c \in Conns, OpenLock(c) PROVE OrderInv'
    BY <1>9, <1>a DEF OrderInv, IsNewest, CoreTypes, OpenLock
  <1>10. ASSUME NEW c \in Conns, OpenDispose(c) PROVE OrderInv'
    <2>1. \A d \in Conns : link'[d] = "new" <=> link[d] = "new"
      BY <1>10, <1>a, DisposeLink
    <2>2. QED
      BY <2>1 DEF OrderInv, IsNewest
  <1>11. ASSUME NEW c \in Conns, OpenBuild(c) PROVE OrderInv'
    BY <1>11, <1>a DEF OrderInv, IsNewest, CoreTypes, OpenBuild
  <1>12. ASSUME NEW c \in Conns, OpenPut(c) PROVE OrderInv'
    BY <1>12, <1>a DEF OrderInv, IsNewest, CoreTypes, OpenPut
  <1>13. ASSUME NEW c \in Conns, CloseSession(c) PROVE OrderInv'
    BY <1>13, <1>a DEF OrderInv, IsNewest, CoreTypes, CloseSession, DestroyTransientSession
  <1>14. ASSUME NEW c \in Conns, Subscribe(c) PROVE OrderInv'
    BY <1>14, <1>a DEF OrderInv, IsNewest, CoreTypes, Subscribe
  <1>15. ASSUME NEW c \in Conns, Disconnect(c) PROVE OrderInv'
    BY <1>15, <1>a DEF OrderInv, IsNewest, CoreTypes, Disconnect
  <1>16. CASE UNCHANGED coreVars
    BY <1>16, <1>a DEF coreVars, OrderInv, IsNewest, CoreTypes
  <1>17. QED
    BY <1>1, <1>2, <1>3, <1>4, <1>5, <1>6, <1>7, <1>8, <1>9, <1>10, <1>11, <1>12, <1>13, <1>14,
       <1>15, <1>16, MessagesApart DEF Next, ClusterStep, ConnStep

RowTypes ==
    /\ session # None => session.createTime \in Conns /\ session.node \in NodeIds
    /\ \A s \in closures : s.createTime \in Conns

\* The types of the rows alone.
LEMMA RowTypesOK == TypeOK => RowTypes
  BY DEF TypeOK, RowTypes, Session

\* Every step keeps a row that of the connection it names.
LEMMA RowStep == TypeOK /\ PlaceInv /\ RowInv /\ [Next]_vars => RowInv'
  <1> SUFFICES ASSUME TypeOK, PlaceInv, RowInv, [Next]_vars
               PROVE  RowInv'
    OBVIOUS
  <1>a. CoreTypes /\ RowTypes
    BY CoreTypesOK, RowTypesOK
  <1>1. ASSUME NEW n \in NodeIds, Join(n) PROVE RowInv'
    BY <1>1, <1>a DEF RowInv, PlaceInv, Active, Behind, CoreTypes, RowTypes, Join
  <1>2. ASSUME NEW n \in NodeIds, InitNode(n) PROVE RowInv'
    BY <1>2, <1>a DEF RowInv, PlaceInv, Active, Behind, CoreTypes, RowTypes, InitNode,
       TransientSessions
  <1>3. ASSUME NEW n \in NodeIds, NodeDies(n) PROVE RowInv'
    BY <1>3, <1>a, DiesLink DEF RowInv, PlaceInv, Active, Behind, CoreTypes, RowTypes, NodeDies
  <1>4. ASSUME NEW e \in left, MarkNode(e) PROVE RowInv'
    BY <1>4, <1>a DEF RowInv, PlaceInv, Active, Behind, CoreTypes, RowTypes, MarkNode
  <1>5. ASSUME NEW s \in sweeps, SweepNode(s) PROVE RowInv'
    BY <1>5, <1>a DEF RowInv, PlaceInv, Active, Behind, CoreTypes, RowTypes, SweepNode,
       TransientSessions
  <1>6. ASSUME NEW s \in closures, DestroySession(s) PROVE RowInv'
    BY <1>6, <1>a DEF RowInv, PlaceInv, Active, Behind, CoreTypes, RowTypes, DestroySession,
       DestroyTransientSession, DestroyPersistentSession
  <1>7. ASSUME NEW k \in kicks, Kick(k) PROVE RowInv'
    BY <1>7, <1>a DEF RowInv, PlaceInv, Active, Behind, CoreTypes, RowTypes, Kick
  <1>8. ASSUME NEW c \in Conns, NEW n \in NodeIds, OpenRead(c, n) PROVE RowInv'
    BY <1>8, <1>a DEF RowInv, PlaceInv, Active, Behind, CoreTypes, RowTypes, OpenRead,
       IsPersistentSession
  <1>9. ASSUME NEW c \in Conns, OpenLock(c) PROVE RowInv'
    BY <1>9, <1>a DEF RowInv, PlaceInv, Active, Behind, CoreTypes, RowTypes, OpenLock
  <1>10. ASSUME NEW c \in Conns, OpenDispose(c) PROVE RowInv'
    <2>1. UNCHANGED <<clean, at, session, closures>>
      BY <1>10 DEF OpenDispose
    <2>2. QED
      BY <1>10, <1>a, <2>1, DisposeLink DEF RowInv, Behind, Active, RowTypes
  <1>11. ASSUME NEW c \in Conns, OpenBuild(c) PROVE RowInv'
    BY <1>11, <1>a DEF RowInv, PlaceInv, Active, Behind, CoreTypes, RowTypes, OpenBuild
  <1>12. ASSUME NEW c \in Conns, OpenPut(c) PROVE RowInv'
    BY <1>12, <1>a DEF RowInv, PlaceInv, Active, Behind, CoreTypes, RowTypes, OpenPut
  <1>13. ASSUME NEW c \in Conns, CloseSession(c) PROVE RowInv'
    BY <1>13, <1>a DEF RowInv, PlaceInv, Active, Behind, CoreTypes, RowTypes, CloseSession,
       DestroyTransientSession
  <1>14. ASSUME NEW c \in Conns, Subscribe(c) PROVE RowInv'
    BY <1>14, <1>a DEF RowInv, PlaceInv, Active, Behind, CoreTypes, RowTypes, Subscribe
  <1>15. ASSUME NEW c \in Conns, Disconnect(c) PROVE RowInv'
    BY <1>15, <1>a DEF RowInv, PlaceInv, Active, Behind, CoreTypes, RowTypes, Disconnect
  <1>16. CASE UNCHANGED coreVars
    BY <1>16, <1>a DEF coreVars, RowInv, PlaceInv, Active, Behind, CoreTypes, RowTypes
  <1>17. QED
    BY <1>1, <1>2, <1>3, <1>4, <1>5, <1>6, <1>7, <1>8, <1>9, <1>10, <1>11, <1>12, <1>13, <1>14,
       <1>15, <1>16, MessagesApart DEF Next, ClusterStep, ConnStep

\* Every step keeps the connections of the rows the closures got gone.
LEMMA ClosureStep == TypeOK /\ PlaceInv /\ DeadInv /\ RowInv /\ ClosureInv /\ [Next]_vars => ClosureInv'
  <1> SUFFICES ASSUME TypeOK, PlaceInv, DeadInv, RowInv, ClosureInv, [Next]_vars
               PROVE  ClosureInv'
    OBVIOUS
  <1>a. CoreTypes /\ RowTypes
    BY CoreTypesOK, RowTypesOK
  <1>1. ASSUME NEW n \in NodeIds, Join(n) PROVE ClosureInv'
    BY <1>1, <1>a DEF ClosureInv, PlaceInv, DeadInv, RowInv, Active, Behind, CoreTypes,
       RowTypes, Alive, Join
  <1>2. ASSUME NEW n \in NodeIds, InitNode(n) PROVE ClosureInv'
    <2> SUFFICES ASSUME ~raced', NEW s \in closures'
                 PROVE  link[s.createTime] = "gone"
      BY <1>2 DEF ClosureInv, InitNode
    <2>1. ~raced
      BY <1>2 DEF InitNode
    <2>2. CASE s \in closures
      BY <2>1, <2>2 DEF ClosureInv
    <2>3. CASE s \notin closures
      <3>1. n \in first /\ s = session /\ session # None
        BY <1>2, <2>3 DEF InitNode, TransientSessions
      <3>2. Alive \ {n} = {}
        BY <1>2, <3>1 DEF InitNode
      <3>3. \A d \in Conns : link[d] \notin Active
        BY <1>2, <3>2 DEF PlaceInv, Alive, InitNode
      <3>4. s.createTime \in Conns /\ link[s.createTime] \notin {"new", "lock"}
        BY <1>a, <3>1 DEF RowTypes, RowInv
      <3>5. QED
        BY <1>a, <3>3, <3>4 DEF CoreTypes, Active
    <2>4. QED
      BY <2>2, <2>3
  <1>3. ASSUME NEW n \in NodeIds, NodeDies(n) PROVE ClosureInv'
    BY <1>3, <1>a, DiesLink DEF ClosureInv, PlaceInv, Active, CoreTypes, RowTypes, NodeDies
  <1>4. ASSUME NEW e \in left, MarkNode(e) PROVE ClosureInv'
    BY <1>4, <1>a DEF ClosureInv, PlaceInv, DeadInv, RowInv, Active, Behind, CoreTypes,
       RowTypes, Alive, MarkNode
  <1>5. ASSUME NEW s \in sweeps, SweepNode(s) PROVE ClosureInv'
    BY <1>5, <1>a DEF ClosureInv, PlaceInv, DeadInv, RowInv, Active, Behind, CoreTypes,
       RowTypes, Alive, SweepNode, TransientSessions
  <1>6. ASSUME NEW s \in closures, DestroySession(s) PROVE ClosureInv'
    BY <1>6, <1>a DEF ClosureInv, PlaceInv, DeadInv, RowInv, Active, Behind, CoreTypes,
       RowTypes, Alive, DestroySession, DestroyTransientSession, DestroyPersistentSession
  <1>7. ASSUME NEW k \in kicks, Kick(k) PROVE ClosureInv'
    BY <1>7, <1>a DEF ClosureInv, PlaceInv, DeadInv, RowInv, Active, Behind, CoreTypes,
       RowTypes, Alive, Kick
  <1>8. ASSUME NEW c \in Conns, NEW n \in NodeIds, OpenRead(c, n) PROVE ClosureInv'
    BY <1>8, <1>a DEF ClosureInv, PlaceInv, DeadInv, RowInv, Active, Behind, CoreTypes,
       RowTypes, Alive, OpenRead, IsPersistentSession
  <1>9. ASSUME NEW c \in Conns, OpenLock(c) PROVE ClosureInv'
    BY <1>9, <1>a DEF ClosureInv, PlaceInv, DeadInv, RowInv, Active, Behind, CoreTypes,
       RowTypes, Alive, OpenLock
  <1>10. ASSUME NEW c \in Conns, OpenDispose(c) PROVE ClosureInv'
    <2>1. UNCHANGED <<closures, raced>>
      BY <1>10 DEF OpenDispose
    <2>2. QED
      BY <1>10, <1>a, <2>1, DisposeLink DEF ClosureInv, RowTypes
  <1>11. ASSUME NEW c \in Conns, OpenBuild(c) PROVE ClosureInv'
    BY <1>11, <1>a DEF ClosureInv, PlaceInv, DeadInv, RowInv, Active, Behind, CoreTypes,
       RowTypes, Alive, OpenBuild
  <1>12. ASSUME NEW c \in Conns, OpenPut(c) PROVE ClosureInv'
    BY <1>12, <1>a DEF ClosureInv, PlaceInv, DeadInv, RowInv, Active, Behind, CoreTypes,
       RowTypes, Alive, OpenPut
  <1>13. ASSUME NEW c \in Conns, CloseSession(c) PROVE ClosureInv'
    BY <1>13, <1>a DEF ClosureInv, PlaceInv, DeadInv, RowInv, Active, Behind, CoreTypes,
       RowTypes, Alive, CloseSession, DestroyTransientSession
  <1>14. ASSUME NEW c \in Conns, Subscribe(c) PROVE ClosureInv'
    BY <1>14, <1>a DEF ClosureInv, PlaceInv, DeadInv, RowInv, Active, Behind, CoreTypes,
       RowTypes, Alive, Subscribe
  <1>15. ASSUME NEW c \in Conns, Disconnect(c) PROVE ClosureInv'
    BY <1>15, <1>a DEF ClosureInv, PlaceInv, DeadInv, RowInv, Active, Behind, CoreTypes,
       RowTypes, Alive, Disconnect
  <1>16. CASE UNCHANGED coreVars
    BY <1>16, <1>a DEF coreVars, ClosureInv, PlaceInv, DeadInv, RowInv, Active, Behind,
       CoreTypes, RowTypes, Alive
  <1>17. QED
    BY <1>1, <1>2, <1>3, <1>4, <1>5, <1>6, <1>7, <1>8, <1>9, <1>10, <1>11, <1>12, <1>13, <1>14,
       <1>15, <1>16, MessagesApart DEF Next, ClusterStep, ConnStep

\* Every step keeps at most one connection between its CONNECT and its CONNACK,
\* while none overlap.
LEMMA OpeningStep == TypeOK /\ PlaceInv /\ OrderInv /\ OneOpening /\ [Next]_vars => OneOpening'
  <1> SUFFICES ASSUME TypeOK, PlaceInv, OrderInv, OneOpening, [Next]_vars
               PROVE  OneOpening'
    OBVIOUS
  <1>a. CoreTypes
    BY CoreTypesOK
  <1>1. ASSUME NEW n \in NodeIds, Join(n) PROVE OneOpening'
    BY <1>1, <1>a DEF OneOpening, Opening, IsNewest, OrderInv, CoreTypes, Join
  <1>2. ASSUME NEW n \in NodeIds, InitNode(n) PROVE OneOpening'
    BY <1>2, <1>a DEF OneOpening, Opening, IsNewest, OrderInv, CoreTypes, InitNode,
       TransientSessions
  <1>3. ASSUME NEW n \in NodeIds, NodeDies(n) PROVE OneOpening'
    <2>1. \A d \in Conns : link'[d] = link[d] \/ (link[d] # "new" /\ link'[d] = "gone")
      BY <1>3, <1>a, DiesLink DEF PlaceInv, Active
    <2>2. overlapped' = overlapped
      BY <1>3 DEF NodeDies
    <2>3. QED
      BY <2>1, <2>2 DEF OneOpening, Opening, IsNewest
  <1>4. ASSUME NEW e \in left, MarkNode(e) PROVE OneOpening'
    BY <1>4, <1>a DEF OneOpening, Opening, IsNewest, OrderInv, CoreTypes, MarkNode
  <1>5. ASSUME NEW s \in sweeps, SweepNode(s) PROVE OneOpening'
    BY <1>5, <1>a DEF OneOpening, Opening, IsNewest, OrderInv, CoreTypes, SweepNode,
       TransientSessions
  <1>6. ASSUME NEW s \in closures, DestroySession(s) PROVE OneOpening'
    BY <1>6, <1>a DEF OneOpening, Opening, IsNewest, OrderInv, CoreTypes, DestroySession,
       DestroyTransientSession, DestroyPersistentSession
  <1>7. ASSUME NEW k \in kicks, Kick(k) PROVE OneOpening'
    BY <1>7, <1>a DEF OneOpening, Opening, IsNewest, OrderInv, CoreTypes, Kick
  <1>8. ASSUME NEW c \in Conns, NEW n \in NodeIds, OpenRead(c, n) PROVE OneOpening'
    <2> SUFFICES ASSUME ~overlapped' PROVE \A d \in Opening' : IsNewest(d)'
      BY DEF OneOpening
    <2>1. Opening = {}
      BY <1>8 DEF OpenRead
    <2>2. link[c] = "new" /\ link' = [link EXCEPT ![c] = "lock"]
      BY <1>8 DEF OpenRead
    <2>3. Opening' = {c}
      BY <1>a, <2>1, <2>2 DEF Opening, CoreTypes
    <2>4. \A d \in Conns : link'[d] # "new" => d <= c
      BY <1>a, <2>2 DEF OrderInv, CoreTypes
    <2>5. QED
      BY <1>a, <2>2, <2>3, <2>4 DEF IsNewest, CoreTypes
  <1>9. ASSUME NEW c \in Conns, OpenLock(c) PROVE OneOpening'
    BY <1>9, <1>a DEF OneOpening, Opening, IsNewest, OrderInv, CoreTypes, OpenLock
  <1>10. ASSUME NEW c \in Conns, OpenDispose(c) PROVE OneOpening'
    <2>1. overlapped' = overlapped
      BY <1>10 DEF OpenDispose
    <2>2. QED
      BY <1>10, <1>a, <2>1, DisposeLink DEF OneOpening, Opening, IsNewest
  <1>11. ASSUME NEW c \in Conns, OpenBuild(c) PROVE OneOpening'
    BY <1>11, <1>a DEF OneOpening, Opening, IsNewest, OrderInv, CoreTypes, OpenBuild
  <1>12. ASSUME NEW c \in Conns, OpenPut(c) PROVE OneOpening'
    BY <1>12, <1>a DEF OneOpening, Opening, IsNewest, OrderInv, CoreTypes, OpenPut
  <1>13. ASSUME NEW c \in Conns, CloseSession(c) PROVE OneOpening'
    BY <1>13, <1>a DEF OneOpening, Opening, IsNewest, OrderInv, CoreTypes, CloseSession,
       DestroyTransientSession
  <1>14. ASSUME NEW c \in Conns, Subscribe(c) PROVE OneOpening'
    BY <1>14, <1>a DEF OneOpening, Opening, IsNewest, OrderInv, CoreTypes, Subscribe
  <1>15. ASSUME NEW c \in Conns, Disconnect(c) PROVE OneOpening'
    BY <1>15, <1>a DEF OneOpening, Opening, IsNewest, OrderInv, CoreTypes, Disconnect
  <1>16. CASE UNCHANGED coreVars
    BY <1>16, <1>a DEF coreVars, OneOpening, Opening, IsNewest, OrderInv, CoreTypes
  <1>17. QED
    BY <1>1, <1>2, <1>3, <1>4, <1>5, <1>6, <1>7, <1>8, <1>9, <1>10, <1>11, <1>12, <1>13, <1>14,
       <1>15, <1>16, MessagesApart DEF Next, ClusterStep, ConnStep

-----------------------------------------------------------------------------
(* Who has the session.                                                    *)

\* The facts an owner of the session rests on.
OpeningIsNewest == \A c \in Opening : IsNewest(c)
ClosuresGone == \A s \in closures : link[s.createTime] = "gone"

\* Every step keeps the row that of the latest connection.
LEMMA HasRowStep ==
    TypeOK /\ PlaceInv /\ RowInv /\ OpeningIsNewest /\ ClosuresGone /\ HasRow /\ HasWrapper /\ [Next]_vars => HasRow'
  <1> SUFFICES ASSUME TypeOK, PlaceInv, RowInv, OpeningIsNewest, ClosuresGone, HasRow, HasWrapper, [Next]_vars
               PROVE  HasRow'
    OBVIOUS
  <1>a. CoreTypes /\ RowTypes
    BY CoreTypesOK, RowTypesOK
  <1>1. ASSUME NEW n \in NodeIds, Join(n) PROVE HasRow'
    BY <1>1, <1>a DEF HasRow, HasWrapper, OpeningIsNewest, ClosuresGone, Opening, PlaceInv,
       RowInv, IsNewest, Active, Behind, CoreTypes, RowTypes, RowOf, Join
  <1>2. ASSUME NEW n \in NodeIds, InitNode(n) PROVE HasRow'
    BY <1>2, <1>a DEF HasRow, HasWrapper, OpeningIsNewest, ClosuresGone, Opening, PlaceInv,
       RowInv, IsNewest, Active, Behind, CoreTypes, RowTypes, RowOf, InitNode, TransientSessions
  <1>3. ASSUME NEW n \in NodeIds, NodeDies(n) PROVE HasRow'
    BY <1>3, <1>a DEF HasRow, HasWrapper, OpeningIsNewest, ClosuresGone, Opening, PlaceInv,
       RowInv, IsNewest, Active, Behind, CoreTypes, RowTypes, RowOf, NodeDies
  <1>4. ASSUME NEW e \in left, MarkNode(e) PROVE HasRow'
    BY <1>4, <1>a DEF HasRow, HasWrapper, OpeningIsNewest, ClosuresGone, Opening, PlaceInv,
       RowInv, IsNewest, Active, Behind, CoreTypes, RowTypes, RowOf, MarkNode
  <1>5. ASSUME NEW s \in sweeps, SweepNode(s) PROVE HasRow'
    BY <1>5, <1>a DEF HasRow, HasWrapper, OpeningIsNewest, ClosuresGone, Opening, PlaceInv,
       RowInv, IsNewest, Active, Behind, CoreTypes, RowTypes, RowOf, SweepNode,
       TransientSessions
  <1>6. ASSUME NEW s \in closures, DestroySession(s) PROVE HasRow'
    BY <1>6, <1>a DEF HasRow, HasWrapper, OpeningIsNewest, ClosuresGone, Opening, PlaceInv,
       RowInv, IsNewest, Active, Behind, CoreTypes, RowTypes, RowOf, DestroySession,
       DestroyTransientSession, DestroyPersistentSession
  <1>7. ASSUME NEW k \in kicks, Kick(k) PROVE HasRow'
    BY <1>7, <1>a DEF HasRow, HasWrapper, OpeningIsNewest, ClosuresGone, Opening, PlaceInv,
       RowInv, IsNewest, Active, Behind, CoreTypes, RowTypes, RowOf, Kick
  <1>8. ASSUME NEW c \in Conns, NEW n \in NodeIds, OpenRead(c, n) PROVE HasRow'
    BY <1>8, <1>a DEF HasRow, HasWrapper, OpeningIsNewest, ClosuresGone, Opening, PlaceInv,
       RowInv, IsNewest, Active, Behind, CoreTypes, RowTypes, RowOf, OpenRead,
       IsPersistentSession
  <1>9. ASSUME NEW c \in Conns, OpenLock(c) PROVE HasRow'
    BY <1>9, <1>a DEF HasRow, HasWrapper, OpeningIsNewest, ClosuresGone, Opening, PlaceInv,
       RowInv, IsNewest, Active, Behind, CoreTypes, RowTypes, RowOf, OpenLock
  <1>10. ASSUME NEW c \in Conns, OpenDispose(c) PROVE HasRow'
    BY <1>10, <1>a DEF HasRow, HasWrapper, OpeningIsNewest, ClosuresGone, Opening, PlaceInv,
       RowInv, IsNewest, Active, Behind, CoreTypes, RowTypes, RowOf, OpenDispose, KickPrevious,
       DestroyTransientSession, DestroyPersistentSession
  <1>11. ASSUME NEW c \in Conns, OpenBuild(c) PROVE HasRow'
    BY <1>11, <1>a DEF HasRow, HasWrapper, OpeningIsNewest, ClosuresGone, Opening, PlaceInv,
       RowInv, IsNewest, Active, Behind, CoreTypes, RowTypes, RowOf, OpenBuild
  <1>12. ASSUME NEW c \in Conns, OpenPut(c) PROVE HasRow'
    BY <1>12, <1>a DEF HasRow, HasWrapper, OpeningIsNewest, ClosuresGone, Opening, PlaceInv,
       RowInv, IsNewest, Active, Behind, CoreTypes, RowTypes, RowOf, OpenPut
  <1>13. ASSUME NEW c \in Conns, CloseSession(c) PROVE HasRow'
    BY <1>13, <1>a DEF HasRow, HasWrapper, OpeningIsNewest, ClosuresGone, Opening, PlaceInv,
       RowInv, IsNewest, Active, Behind, CoreTypes, RowTypes, RowOf, CloseSession,
       DestroyTransientSession
  <1>14. ASSUME NEW c \in Conns, Subscribe(c) PROVE HasRow'
    BY <1>14, <1>a DEF HasRow, HasWrapper, OpeningIsNewest, ClosuresGone, Opening, PlaceInv,
       RowInv, IsNewest, Active, Behind, CoreTypes, RowTypes, RowOf, Subscribe
  <1>15. ASSUME NEW c \in Conns, Disconnect(c) PROVE HasRow'
    BY <1>15, <1>a DEF HasRow, HasWrapper, OpeningIsNewest, ClosuresGone, Opening, PlaceInv,
       RowInv, IsNewest, Active, Behind, CoreTypes, RowTypes, RowOf, Disconnect
  <1>16. CASE UNCHANGED coreVars
    BY <1>16, <1>a DEF coreVars, HasRow, HasWrapper, OpeningIsNewest, ClosuresGone, Opening,
       PlaceInv, RowInv, IsNewest, Active, Behind, CoreTypes, RowTypes, RowOf
  <1>17. QED
    BY <1>1, <1>2, <1>3, <1>4, <1>5, <1>6, <1>7, <1>8, <1>9, <1>10, <1>11, <1>12, <1>13, <1>14,
       <1>15, <1>16, MessagesApart DEF Next, ClusterStep, ConnStep

\* Every step keeps the wrapper with the connection of the row.
LEMMA HasWrapperStep ==
    TypeOK /\ PlaceInv /\ RowInv /\ OpeningIsNewest /\ ClosuresGone /\ HasRow /\ HasWrapper /\ [Next]_vars => HasWrapper'
  <1> SUFFICES ASSUME TypeOK, PlaceInv, RowInv, OpeningIsNewest, ClosuresGone, HasRow, HasWrapper, [Next]_vars
               PROVE  HasWrapper'
    OBVIOUS
  <1>a. CoreTypes /\ RowTypes
    BY CoreTypesOK, RowTypesOK
  <1>1. ASSUME NEW n \in NodeIds, Join(n) PROVE HasWrapper'
    BY <1>1, <1>a DEF HasRow, HasWrapper, OpeningIsNewest, ClosuresGone, Opening, PlaceInv,
       RowInv, IsNewest, Active, Behind, CoreTypes, RowTypes, RowOf, Join
  <1>2. ASSUME NEW n \in NodeIds, InitNode(n) PROVE HasWrapper'
    BY <1>2, <1>a DEF HasRow, HasWrapper, OpeningIsNewest, ClosuresGone, Opening, PlaceInv,
       RowInv, IsNewest, Active, Behind, CoreTypes, RowTypes, RowOf, InitNode, TransientSessions
  <1>3. ASSUME NEW n \in NodeIds, NodeDies(n) PROVE HasWrapper'
    BY <1>3, <1>a DEF HasRow, HasWrapper, OpeningIsNewest, ClosuresGone, Opening, PlaceInv,
       RowInv, IsNewest, Active, Behind, CoreTypes, RowTypes, RowOf, NodeDies
  <1>4. ASSUME NEW e \in left, MarkNode(e) PROVE HasWrapper'
    BY <1>4, <1>a DEF HasRow, HasWrapper, OpeningIsNewest, ClosuresGone, Opening, PlaceInv,
       RowInv, IsNewest, Active, Behind, CoreTypes, RowTypes, RowOf, MarkNode
  <1>5. ASSUME NEW s \in sweeps, SweepNode(s) PROVE HasWrapper'
    BY <1>5, <1>a DEF HasRow, HasWrapper, OpeningIsNewest, ClosuresGone, Opening, PlaceInv,
       RowInv, IsNewest, Active, Behind, CoreTypes, RowTypes, RowOf, SweepNode,
       TransientSessions
  <1>6. ASSUME NEW s \in closures, DestroySession(s) PROVE HasWrapper'
    BY <1>6, <1>a DEF HasRow, HasWrapper, OpeningIsNewest, ClosuresGone, Opening, PlaceInv,
       RowInv, IsNewest, Active, Behind, CoreTypes, RowTypes, RowOf, DestroySession,
       DestroyTransientSession, DestroyPersistentSession
  <1>7. ASSUME NEW k \in kicks, Kick(k) PROVE HasWrapper'
    BY <1>7, <1>a DEF HasRow, HasWrapper, OpeningIsNewest, ClosuresGone, Opening, PlaceInv,
       RowInv, IsNewest, Active, Behind, CoreTypes, RowTypes, RowOf, Kick
  <1>8. ASSUME NEW c \in Conns, NEW n \in NodeIds, OpenRead(c, n) PROVE HasWrapper'
    BY <1>8, <1>a DEF HasRow, HasWrapper, OpeningIsNewest, ClosuresGone, Opening, PlaceInv,
       RowInv, IsNewest, Active, Behind, CoreTypes, RowTypes, RowOf, OpenRead,
       IsPersistentSession
  <1>9. ASSUME NEW c \in Conns, OpenLock(c) PROVE HasWrapper'
    BY <1>9, <1>a DEF HasRow, HasWrapper, OpeningIsNewest, ClosuresGone, Opening, PlaceInv,
       RowInv, IsNewest, Active, Behind, CoreTypes, RowTypes, RowOf, OpenLock
  <1>10. ASSUME NEW c \in Conns, OpenDispose(c) PROVE HasWrapper'
    BY <1>10, <1>a DEF HasRow, HasWrapper, OpeningIsNewest, ClosuresGone, Opening, PlaceInv,
       RowInv, IsNewest, Active, Behind, CoreTypes, RowTypes, RowOf, OpenDispose, KickPrevious,
       DestroyTransientSession, DestroyPersistentSession
  <1>11. ASSUME NEW c \in Conns, OpenBuild(c) PROVE HasWrapper'
    BY <1>11, <1>a DEF HasRow, HasWrapper, OpeningIsNewest, ClosuresGone, Opening, PlaceInv,
       RowInv, IsNewest, Active, Behind, CoreTypes, RowTypes, RowOf, OpenBuild
  <1>12. ASSUME NEW c \in Conns, OpenPut(c) PROVE HasWrapper'
    BY <1>12, <1>a DEF HasRow, HasWrapper, OpeningIsNewest, ClosuresGone, Opening, PlaceInv,
       RowInv, IsNewest, Active, Behind, CoreTypes, RowTypes, RowOf, OpenPut
  <1>13. ASSUME NEW c \in Conns, CloseSession(c) PROVE HasWrapper'
    <2> SUFFICES ASSUME session' # None PROVE HasWrapper'
      BY DEF HasWrapper
    <2>1. session' = session /\ session # None
      BY <1>13 DEF CloseSession
    <2>2. PICK x \in Conns : x = session.createTime
      BY <1>a, <2>1 DEF RowTypes
    <2>3. CASE x = c
      BY <1>13, <1>a, <2>1, <2>2, <2>3 DEF HasWrapper, CloseSession, CoreTypes
    <2>4. CASE x # c
      <3>1. link'[x] = link[x] /\ at'[x] = at[x]
        BY <1>13, <1>a, <2>4 DEF CloseSession, CoreTypes
      <3>2. \A m \in NodeIds : wrapper'[m] = wrapper[m] \/ (wrapper[m] = c /\ wrapper'[m] = None)
        BY <1>13, <1>a DEF CloseSession, CoreTypes
      <3>3. link[x] \in Active => at[x] \in NodeIds
        BY DEF PlaceInv
      <3>4. QED
        BY <2>1, <2>2, <2>4, <3>1, <3>2, <3>3 DEF HasWrapper, Active
    <2>5. QED
      BY <2>3, <2>4
  <1>14. ASSUME NEW c \in Conns, Subscribe(c) PROVE HasWrapper'
    BY <1>14, <1>a DEF HasRow, HasWrapper, OpeningIsNewest, ClosuresGone, Opening, PlaceInv,
       RowInv, IsNewest, Active, Behind, CoreTypes, RowTypes, RowOf, Subscribe
  <1>15. ASSUME NEW c \in Conns, Disconnect(c) PROVE HasWrapper'
    BY <1>15, <1>a DEF HasRow, HasWrapper, OpeningIsNewest, ClosuresGone, Opening, PlaceInv,
       RowInv, IsNewest, Active, Behind, CoreTypes, RowTypes, RowOf, Disconnect
  <1>16. CASE UNCHANGED coreVars
    BY <1>16, <1>a DEF coreVars, HasRow, HasWrapper, OpeningIsNewest, ClosuresGone, Opening,
       PlaceInv, RowInv, IsNewest, Active, Behind, CoreTypes, RowTypes, RowOf
  <1>17. QED
    BY <1>1, <1>2, <1>3, <1>4, <1>5, <1>6, <1>7, <1>8, <1>9, <1>10, <1>11, <1>12, <1>13, <1>14,
       <1>15, <1>16, MessagesApart DEF Next, ClusterStep, ConnStep

\* The connection IsNewest describes is the one Newest computes.
LEMMA NewestIs ==
    ASSUME OrderInv
    PROVE  /\ Newest \in Conns \cup {0} /\ IsNewest(Newest)
           /\ \A c \in Conns : IsNewest(c) => Newest = c
  <1>1. Newest \in Conns \cup {0} /\ IsNewest(Newest)
    BY DEF OrderInv, Newest, IsNewest
  <1>2. ASSUME NEW c \in Conns, IsNewest(c) PROVE Newest = c
    <2>1. c <= Newest
      BY <1>1, <1>2 DEF IsNewest
    <2>2. Newest \in Conns
      BY <1>1, <2>1
    <2>3. Newest <= c
      BY <1>1, <1>2, <2>2 DEF IsNewest
    <2>4. QED
      BY <2>1, <2>2, <2>3
  <1>3. QED
    BY <1>1, <1>2

\* Every step keeps the routes with the node of the latest connection.
LEMMA RouteStep ==
    TypeOK /\ PlaceInv /\ OrderInv /\ OneOpening /\ RouteInv /\ [Next]_vars => RouteInv'
  <1> SUFFICES ASSUME TypeOK, PlaceInv, OrderInv, OneOpening, RouteInv, [Next]_vars
               PROVE  RouteInv'
    OBVIOUS
  <1>a. CoreTypes
    BY CoreTypesOK
  <1>1. ASSUME NEW n \in NodeIds, Join(n) PROVE RouteInv'
    BY <1>1, <1>a DEF RouteInv, OneOpening, Opening, PlaceInv, IsNewest, Active, CoreTypes, Join
  <1>2. ASSUME NEW n \in NodeIds, InitNode(n) PROVE RouteInv'
    BY <1>2, <1>a DEF RouteInv, OneOpening, Opening, PlaceInv, IsNewest, Active, CoreTypes,
       InitNode, TransientSessions
  <1>3. ASSUME NEW n \in NodeIds, NodeDies(n) PROVE RouteInv'
    BY <1>3, <1>a DEF RouteInv, OneOpening, Opening, PlaceInv, IsNewest, Active, CoreTypes, NodeDies
  <1>4. ASSUME NEW e \in left, MarkNode(e) PROVE RouteInv'
    BY <1>4, <1>a DEF RouteInv, OneOpening, Opening, PlaceInv, IsNewest, Active, CoreTypes, MarkNode
  <1>5. ASSUME NEW s \in sweeps, SweepNode(s) PROVE RouteInv'
    BY <1>5, <1>a DEF RouteInv, OneOpening, Opening, PlaceInv, IsNewest, Active, CoreTypes,
       SweepNode, TransientSessions
  <1>6. ASSUME NEW s \in closures, DestroySession(s) PROVE RouteInv'
    BY <1>6, <1>a DEF RouteInv, OneOpening, Opening, PlaceInv, IsNewest, Active, CoreTypes,
       DestroySession, DestroyTransientSession, DestroyPersistentSession
  <1>7. ASSUME NEW k \in kicks, Kick(k) PROVE RouteInv'
    BY <1>7, <1>a DEF RouteInv, OneOpening, Opening, PlaceInv, IsNewest, Active, CoreTypes, Kick
  <1>8. ASSUME NEW c \in Conns, NEW n \in NodeIds, OpenRead(c, n) PROVE RouteInv'
    BY <1>8, <1>a DEF RouteInv, OneOpening, Opening, PlaceInv, IsNewest, Active, CoreTypes,
       OpenRead, IsPersistentSession
  <1>9. ASSUME NEW c \in Conns, OpenLock(c) PROVE RouteInv'
    BY <1>9, <1>a DEF RouteInv, OneOpening, Opening, PlaceInv, IsNewest, Active, CoreTypes, OpenLock
  <1>10. ASSUME NEW c \in Conns, OpenDispose(c) PROVE RouteInv'
    BY <1>10, <1>a, SMTT(60) DEF RouteInv, OneOpening, Opening, PlaceInv, IsNewest, Active, CoreTypes,
       OpenDispose, KickPrevious, DestroyTransientSession, DestroyPersistentSession
  <1>11. ASSUME NEW c \in Conns, OpenBuild(c) PROVE RouteInv'
    BY <1>11, <1>a DEF RouteInv, OneOpening, Opening, PlaceInv, IsNewest, Active, CoreTypes,
       OpenBuild
  <1>12. ASSUME NEW c \in Conns, OpenPut(c) PROVE RouteInv'
    BY <1>12, <1>a DEF RouteInv, OneOpening, Opening, PlaceInv, IsNewest, Active, CoreTypes, OpenPut
  <1>13. ASSUME NEW c \in Conns, CloseSession(c) PROVE RouteInv'
    BY <1>13, <1>a DEF RouteInv, OneOpening, Opening, PlaceInv, IsNewest, Active, CoreTypes,
       CloseSession, DestroyTransientSession
  <1>14. ASSUME NEW c \in Conns, Subscribe(c) PROVE RouteInv'
    <2> SUFFICES ASSUME ~misrouted', NEW d \in Conns, IsNewest(d)
                 PROVE  router' = at[d]
      BY <1>14 DEF RouteInv, IsNewest, Subscribe
    <2>1. Newest = d
      BY NewestIs
    <2>2. QED
      BY <1>14, <2>1 DEF Subscribe
  <1>15. ASSUME NEW c \in Conns, Disconnect(c) PROVE RouteInv'
    BY <1>15, <1>a DEF RouteInv, OneOpening, Opening, PlaceInv, IsNewest, Active, CoreTypes,
       Disconnect
  <1>16. CASE UNCHANGED coreVars
    BY <1>16, <1>a DEF coreVars, RouteInv, OneOpening, Opening, PlaceInv, IsNewest, Active,
       CoreTypes
  <1>17. QED
    BY <1>1, <1>2, <1>3, <1>4, <1>5, <1>6, <1>7, <1>8, <1>9, <1>10, <1>11, <1>12, <1>13, <1>14,
       <1>15, <1>16, MessagesApart DEF Next, ClusterStep, ConnStep

\* No step takes back a CONNECT, an overlap or a race.
LEMMA NeverBack ==
    ASSUME TypeOK, PlaceInv, [Next]_vars
    PROVE  /\ clean' = clean
           /\ \A c \in Conns : link'[c] = "new" => link[c] = "new"
           /\ ~overlapped' => ~overlapped
           /\ ~raced' => ~raced
  <1> DEFINE P == /\ clean' = clean
                  /\ \A c \in Conns : link'[c] = "new" => link[c] = "new"
                  /\ ~overlapped' => ~overlapped
                  /\ ~raced' => ~raced
  <1>a. CoreTypes
    BY CoreTypesOK
  <1>1. ASSUME NEW n \in NodeIds, Join(n) PROVE P
    BY <1>1, <1>a DEF CoreTypes, Join
  <1>2. ASSUME NEW n \in NodeIds, InitNode(n) PROVE P
    BY <1>2, <1>a DEF CoreTypes, InitNode
  <1>3. ASSUME NEW n \in NodeIds, NodeDies(n) PROVE P
    BY <1>3, <1>a, DiesLink DEF NodeDies
  <1>4. ASSUME NEW e \in left, MarkNode(e) PROVE P
    BY <1>4, <1>a DEF CoreTypes, MarkNode
  <1>5. ASSUME NEW s \in sweeps, SweepNode(s) PROVE P
    BY <1>5, <1>a DEF CoreTypes, SweepNode
  <1>6. ASSUME NEW s \in closures, DestroySession(s) PROVE P
    BY <1>6, <1>a DEF CoreTypes, DestroySession
  <1>7. ASSUME NEW k \in kicks, Kick(k) PROVE P
    BY <1>7, <1>a DEF CoreTypes, Kick
  <1>8. ASSUME NEW c \in Conns, NEW n \in NodeIds, OpenRead(c, n) PROVE P
    BY <1>8, <1>a DEF CoreTypes, OpenRead
  <1>9. ASSUME NEW c \in Conns, OpenLock(c) PROVE P
    BY <1>9, <1>a DEF CoreTypes, OpenLock
  <1>10. ASSUME NEW c \in Conns, OpenDispose(c) PROVE P
    BY <1>10, <1>a, DisposeLink DEF OpenDispose
  <1>11. ASSUME NEW c \in Conns, OpenBuild(c) PROVE P
    BY <1>11, <1>a DEF CoreTypes, OpenBuild
  <1>12. ASSUME NEW c \in Conns, OpenPut(c) PROVE P
    BY <1>12, <1>a DEF CoreTypes, OpenPut
  <1>13. ASSUME NEW c \in Conns, CloseSession(c) PROVE P
    BY <1>13, <1>a DEF CoreTypes, CloseSession
  <1>14. ASSUME NEW c \in Conns, Subscribe(c) PROVE P
    BY <1>14, <1>a DEF CoreTypes, Subscribe
  <1>15. ASSUME NEW c \in Conns, Disconnect(c) PROVE P
    BY <1>15, <1>a DEF CoreTypes, Disconnect
  <1>16. CASE UNCHANGED coreVars
    BY <1>16 DEF coreVars
  <1>17. QED
    BY <1>1, <1>2, <1>3, <1>4, <1>5, <1>6, <1>7, <1>8, <1>9, <1>10, <1>11, <1>12, <1>13, <1>14,
       <1>15, <1>16, MessagesApart DEF Next, ClusterStep, ConnStep

\* A clean session that has not started now had not started before.
LEMMA NoCleanBefore == TypeOK /\ PlaceInv /\ [Next]_vars /\ NoCleanStarted' => NoCleanStarted
  BY NeverBack, CoreTypesOK DEF NoCleanStarted, CoreTypes

\* Every step keeps a wrapper that of a persistent session openSession has seen.
LEMMA SeenStep ==
    TypeOK /\ PlaceInv /\ RowInv /\ OpeningIsNewest /\ NoCleanStarted /\ WrapperSeen /\ [Next]_vars /\ NoCleanStarted' /\ ~overlapped' => WrapperSeen'
  <1> SUFFICES ASSUME TypeOK, PlaceInv, RowInv, OpeningIsNewest, NoCleanStarted, WrapperSeen, [Next]_vars, NoCleanStarted' /\ ~overlapped'
               PROVE  WrapperSeen'
    OBVIOUS
  <1>a. CoreTypes /\ RowTypes
    BY CoreTypesOK, RowTypesOK
  <1>1. ASSUME NEW n \in NodeIds, Join(n) PROVE WrapperSeen'
    BY <1>1, <1>a DEF WrapperSeen, NoCleanStarted, OpeningIsNewest, Opening, PlaceInv, RowInv,
       IsNewest, Active, Behind, CoreTypes, RowTypes, Join
  <1>2. ASSUME NEW n \in NodeIds, InitNode(n) PROVE WrapperSeen'
    BY <1>2, <1>a DEF WrapperSeen, NoCleanStarted, OpeningIsNewest, Opening, PlaceInv, RowInv,
       IsNewest, Active, Behind, CoreTypes, RowTypes, InitNode, TransientSessions
  <1>3. ASSUME NEW n \in NodeIds, NodeDies(n) PROVE WrapperSeen'
    BY <1>3, <1>a DEF WrapperSeen, NoCleanStarted, OpeningIsNewest, Opening, PlaceInv, RowInv,
       IsNewest, Active, Behind, CoreTypes, RowTypes, NodeDies
  <1>4. ASSUME NEW e \in left, MarkNode(e) PROVE WrapperSeen'
    BY <1>4, <1>a DEF WrapperSeen, NoCleanStarted, OpeningIsNewest, Opening, PlaceInv, RowInv,
       IsNewest, Active, Behind, CoreTypes, RowTypes, MarkNode
  <1>5. ASSUME NEW s \in sweeps, SweepNode(s) PROVE WrapperSeen'
    BY <1>5, <1>a DEF WrapperSeen, NoCleanStarted, OpeningIsNewest, Opening, PlaceInv, RowInv,
       IsNewest, Active, Behind, CoreTypes, RowTypes, SweepNode, TransientSessions
  <1>6. ASSUME NEW s \in closures, DestroySession(s) PROVE WrapperSeen'
    BY <1>6, <1>a DEF WrapperSeen, NoCleanStarted, OpeningIsNewest, Opening, PlaceInv, RowInv,
       IsNewest, Active, Behind, CoreTypes, RowTypes, DestroySession, DestroyTransientSession,
       DestroyPersistentSession
  <1>7. ASSUME NEW k \in kicks, Kick(k) PROVE WrapperSeen'
    BY <1>7, <1>a DEF WrapperSeen, NoCleanStarted, OpeningIsNewest, Opening, PlaceInv, RowInv,
       IsNewest, Active, Behind, CoreTypes, RowTypes, Kick
  <1>8. ASSUME NEW c \in Conns, NEW n \in NodeIds, OpenRead(c, n) PROVE WrapperSeen'
    <2>1. Opening = {} /\ link' = [link EXCEPT ![c] = "lock"]
      BY <1>8 DEF OpenRead
    <2>2. session' = session /\ wrapper' = wrapper /\ at'[c] \in NodeIds
      BY <1>8, <1>a DEF OpenRead, CoreTypes
    <2>3. session # None => IsPersistentSession
      BY <1>a DEF IsPersistentSession, RowInv, RowTypes, NoCleanStarted
    <2>4. old'[c].persistent = IsPersistentSession
      BY <1>8 DEF OpenRead, TypeOK
    <2>5. wrapper'[at'[c]] # None => old'[c].persistent
      BY <2>2, <2>3, <2>4 DEF WrapperSeen
    <2>6. \A d \in Conns \ {c} : link'[d] \notin {"lock", "dispose", "build", "put"}
      BY <1>a, <2>1 DEF Opening, CoreTypes
    <2>7. link'[c] = "lock"
      BY <1>a, <2>1 DEF CoreTypes
    <2>8. QED
      BY <2>2, <2>5, <2>6, <2>7 DEF WrapperSeen
  <1>9. ASSUME NEW c \in Conns, OpenLock(c) PROVE WrapperSeen'
    <2>1. session' # None
      <3>1. at[c] \in NodeIds
        BY <1>9 DEF OpenLock, PlaceInv, Active
      <3>2. session' \in Session
        BY <1>9, <3>1 DEF OpenLock, Session
      <3>3. QED
        BY <3>2, NullAssumption
    <2>2. link[c] = "lock" /\ link' = [link EXCEPT ![c] = "dispose"] /\ at[c] \in NodeIds
      BY <1>9 DEF OpenLock, PlaceInv, Active
    <2>3. old'[c].wrapper = wrapper[at[c]] /\ (old'[c].persistent <=> old[c].persistent)
      BY <1>9 DEF OpenLock, TypeOK, Old
    <2>4. old'[c].wrapper # None => old'[c].persistent
      BY <2>2, <2>3 DEF WrapperSeen
    <2>5. \A d \in Conns \ {c} : link'[d] \notin {"lock", "dispose"}
      BY <1>a, <2>2 DEF OpeningIsNewest, Opening, IsNewest, CoreTypes
    <2>6. link'[c] = "dispose"
      BY <1>a, <2>2 DEF CoreTypes
    <2>7. QED
      BY <2>1, <2>4, <2>5, <2>6 DEF WrapperSeen
  <1>10. ASSUME NEW c \in Conns, OpenDispose(c) PROVE WrapperSeen'
    BY <1>10, <1>a DEF WrapperSeen, NoCleanStarted, OpeningIsNewest, Opening, PlaceInv, RowInv,
       IsNewest, Active, Behind, CoreTypes, RowTypes, OpenDispose, KickPrevious,
       DestroyTransientSession, DestroyPersistentSession
  <1>11. ASSUME NEW c \in Conns, OpenBuild(c) PROVE WrapperSeen'
    BY <1>11, <1>a DEF WrapperSeen, NoCleanStarted, OpeningIsNewest, Opening, PlaceInv, RowInv,
       IsNewest, Active, Behind, CoreTypes, RowTypes, OpenBuild
  <1>12. ASSUME NEW c \in Conns, OpenPut(c) PROVE WrapperSeen'
    BY <1>12, <1>a DEF WrapperSeen, NoCleanStarted, OpeningIsNewest, Opening, PlaceInv, RowInv,
       IsNewest, Active, Behind, CoreTypes, RowTypes, OpenPut
  <1>13. ASSUME NEW c \in Conns, CloseSession(c) PROVE WrapperSeen'
    <2>1. c \notin clean
      BY <1>13 DEF NoCleanStarted, CloseSession
    <2>2. session' = session /\ old' = old
      BY <1>13, <2>1 DEF CloseSession
    <2>3. \A m \in NodeIds : wrapper'[m] = wrapper[m] \/ wrapper'[m] = None
      BY <1>13, <1>a DEF CloseSession, CoreTypes
    <2>4. \A d \in Conns : link'[d] # "gone" => link'[d] = link[d] /\ at'[d] = at[d]
      BY <1>13, <1>a DEF CloseSession, CoreTypes
    <2>5. \A d \in Conns : link[d] = "lock" => at[d] \in NodeIds
      BY DEF PlaceInv, Active
    <2>6. \A n \in NodeIds : wrapper'[n] # None => session' # None
      BY <2>2, <2>3 DEF WrapperSeen
    <2>7. ASSUME NEW d \in Conns, link'[d] \in {"lock", "dispose", "build", "put"}
          PROVE  /\ link'[d] = "lock" /\ wrapper'[at'[d]] # None => old'[d].persistent
                 /\ link'[d] = "dispose" /\ old'[d].wrapper # None => old'[d].persistent
                 /\ link'[d] \in {"dispose", "build", "put"} => session' # None
      <3>1. link'[d] = link[d] /\ at'[d] = at[d]
        BY <2>4, <2>7
      <3>2. link'[d] = "lock" /\ wrapper'[at'[d]] # None => wrapper[at[d]] # None
        BY <2>3, <2>5, <3>1
      <3>3. QED
        BY <2>2, <3>1, <3>2 DEF WrapperSeen
    <2>8. QED
      BY <2>6, <2>7 DEF WrapperSeen
  <1>14. ASSUME NEW c \in Conns, Subscribe(c) PROVE WrapperSeen'
    BY <1>14, <1>a DEF WrapperSeen, NoCleanStarted, OpeningIsNewest, Opening, PlaceInv, RowInv,
       IsNewest, Active, Behind, CoreTypes, RowTypes, Subscribe
  <1>15. ASSUME NEW c \in Conns, Disconnect(c) PROVE WrapperSeen'
    BY <1>15, <1>a DEF WrapperSeen, NoCleanStarted, OpeningIsNewest, Opening, PlaceInv, RowInv,
       IsNewest, Active, Behind, CoreTypes, RowTypes, Disconnect
  <1>16. CASE UNCHANGED coreVars
    BY <1>16, <1>a DEF coreVars, WrapperSeen, NoCleanStarted, OpeningIsNewest, Opening,
       PlaceInv, RowInv, IsNewest, Active, Behind, CoreTypes, RowTypes
  <1>17. QED
    BY <1>1, <1>2, <1>3, <1>4, <1>5, <1>6, <1>7, <1>8, <1>9, <1>10, <1>11, <1>12, <1>13, <1>14,
       <1>15, <1>16, MessagesApart DEF Next, ClusterStep, ConnStep

\* Every step keeps a message that is owed carried.
LEMMA CarriedStep ==
    TypeOK /\ PlaceInv /\ RowInv /\ NoCleanStarted /\ WrapperSeen /\ Carried /\ [Next]_vars => Carried'
  <1> SUFFICES ASSUME TypeOK, PlaceInv, RowInv, NoCleanStarted, WrapperSeen, Carried, [Next]_vars
               PROVE  Carried'
    OBVIOUS
  <1>a. task \subseteq Task
    BY DEF TypeOK
  <1>1. ASSUME NEW n \in NodeIds, Join(n) PROVE Carried'
    BY <1>1 DEF Carried, Join
  <1>2. ASSUME NEW n \in NodeIds, InitNode(n) PROVE Carried'
    BY <1>2 DEF Carried, InitNode
  <1>3. ASSUME NEW n \in NodeIds, NodeDies(n) PROVE Carried'
    <2>1. /\ owed' = owed /\ delivered' = delivered /\ queue' = queue
          /\ task' = task \ {t \in task : t.on = n}
          /\ excused' = excused \cup {t.msg : t \in {t \in task : t.on = n}}
      BY <1>3 DEF NodeDies
    <2>2. QED
      BY <2>1 DEF Carried
  <1>4. ASSUME NEW e \in left, MarkNode(e) PROVE Carried'
    BY <1>4 DEF Carried, MarkNode
  <1>5. ASSUME NEW s \in sweeps, SweepNode(s) PROVE Carried'
    BY <1>5 DEF Carried, SweepNode
  <1>6. ASSUME NEW s \in closures, DestroySession(s) PROVE Carried'
    <2>1. s.clean
      BY DEF RowInv
    <2>2. QED
      BY <1>6, <2>1 DEF Carried, DestroySession, DestroyTransientSession
  <1>7. ASSUME NEW k \in kicks, Kick(k) PROVE Carried'
    BY <1>7 DEF Carried, Kick
  <1>8. ASSUME NEW c \in Conns, NEW n \in NodeIds, OpenRead(c, n) PROVE Carried'
    BY <1>8 DEF Carried, OpenRead
  <1>9. ASSUME NEW c \in Conns, OpenLock(c) PROVE Carried'
    BY <1>9 DEF Carried, OpenLock
  <1>10. ASSUME NEW c \in Conns, OpenDispose(c) PROVE Carried'
    <2>1. c \notin clean /\ link[c] = "dispose"
      BY <1>10 DEF NoCleanStarted, OpenDispose
    <2>2. old[c].wrapper # None => old[c].persistent
      BY <2>1 DEF WrapperSeen
    <2>3. queue' = queue
      BY <1>10, <2>1, <2>2 DEF OpenDispose, DestroyTransientSession, DestroyPersistentSession
    <2>4. QED
      BY <1>10, <2>3 DEF Carried, OpenDispose
  <1>11. ASSUME NEW c \in Conns, OpenBuild(c) PROVE Carried'
    BY <1>11 DEF Carried, OpenBuild
  <1>12. ASSUME NEW c \in Conns, OpenPut(c) PROVE Carried'
    BY <1>12 DEF Carried, OpenPut
  <1>13. ASSUME NEW c \in Conns, CloseSession(c) PROVE Carried'
    BY <1>13 DEF Carried, CloseSession, DestroyTransientSession
  <1>14. ASSUME NEW c \in Conns, Subscribe(c) PROVE Carried'
    BY <1>14 DEF Carried, Subscribe
  <1>15. ASSUME NEW c \in Conns, Disconnect(c) PROVE Carried'
    BY <1>15 DEF Carried, Disconnect
  <1>16. ASSUME NEW m \in Msgs, NEW n \in NodeIds, HandlePublish(m, n) PROVE Carried'
    <2> DEFINE x == IF router = n THEN [kind |-> "local", msg |-> m, on |-> n]
                    ELSE [kind |-> "request", msg |-> m, on |-> n, to |-> router]
    <2>1. x.msg = m /\ x.kind \in {"local", "request"}
      OBVIOUS
    <2>2. task' = task \cup {x}
      BY <1>16 DEF HandlePublish
    <2> HIDE DEF x
    <2>3. owed' \subseteq owed \cup {m} /\ excused \subseteq excused'
      BY <1>16 DEF HandlePublish
    <2>4. delivered' = delivered /\ queue' = queue
      BY <1>16 DEF HandlePublish
    <2>5. QED
      BY <2>1, <2>2, <2>3, <2>4 DEF Carried
  <1>17. ASSUME NEW t \in task, ReceiveRequest(t) PROVE Carried'
    <2> DEFINE x == [kind |-> "local", msg |-> t.msg, on |-> t.to]
    <2>1. x.msg = t.msg /\ x.kind = "local"
      OBVIOUS
    <2>2. x \in task' /\ task \ {t} \subseteq task'
      BY <1>17 DEF ReceiveRequest
    <2> HIDE DEF x
    <2>3. UNCHANGED <<owed, delivered, queue, excused>>
      BY <1>17 DEF ReceiveRequest
    <2>4. QED
      BY <2>1, <2>2, <2>3 DEF Carried
  <1>18. ASSUME NEW t \in task, ReceiveReply(t) PROVE Carried'
    BY <1>18, <1>a DEF Carried, ReceiveReply
  <1>19. ASSUME NEW t \in task, RequestFails(t) PROVE Carried'
    <2> DEFINE x == [kind |-> "fallback", msg |-> t.msg, on |-> t.on]
    <2>1. x.msg = t.msg /\ x.kind = "fallback"
      OBVIOUS
    <2>2. task \ {t} \subseteq task' /\ (x \in task' \/ t.msg \in excused')
      BY <1>19 DEF RequestFails
    <2> HIDE DEF x
    <2>3. UNCHANGED <<owed, delivered, queue>> /\ excused \subseteq excused'
      BY <1>19 DEF RequestFails
    <2>4. QED
      BY <2>1, <2>2, <2>3 DEF Carried
  <1>20. ASSUME NEW t \in task, EnqueueFallback(t) PROVE Carried'
    BY <1>20, <1>a DEF Carried, EnqueueFallback
  <1>21. ASSUME NEW t \in task, LocalPublish(t) PROVE Carried'
    BY <1>21, <1>a DEF Carried, LocalPublish, PublishMessage, IsPersistentSession
  <1>22. ASSUME NEW t \in task, LookupAgain(t) PROVE Carried'
    BY <1>22, <1>a DEF Carried, LookupAgain
  <1>23. CASE UNCHANGED vars
    BY <1>23 DEF vars, Carried
  <1>24. QED
    BY <1>1, <1>2, <1>3, <1>4, <1>5, <1>6, <1>7, <1>8, <1>9, <1>10, <1>11, <1>12, <1>13, <1>14,
       <1>15, <1>16, <1>17, <1>18, <1>19, <1>20, <1>21, <1>22, <1>23 DEF Next, ClusterStep,
       ConnStep, MessageStep

-----------------------------------------------------------------------------
(* The inductive invariant.                                                *)

Inv ==
    /\ TypeOK
    /\ PlaceInv
    /\ OrderInv
    /\ DeadInv
    /\ RowInv
    /\ ClosureInv
    /\ OneOpening
    /\ OwnerInv
    /\ RouteInv
    /\ PersistentInv
    /\ CarriedInv

\* The invariant holds initially.
LEMMA InitInv == Init => Inv
  <1> SUFFICES ASSUME Init PROVE Inv
    OBVIOUS
  <1>1. TypeOK
    BY InitTypes
  <1>2. PlaceInv /\ DeadInv /\ RowInv /\ ClosureInv
    BY DEF Init, PlaceInv, DeadInv, RowInv, ClosureInv, Active
  <1>3. OrderInv
    BY DEF Init, OrderInv, IsNewest
  <1>4. OneOpening /\ RouteInv
    BY DEF Init, OneOpening, Opening, RouteInv
  <1>5. HasRow /\ HasWrapper
    BY DEF Init, HasRow, HasWrapper, Behind, Active
  <1>6. WrapperSeen /\ Carried
    BY DEF Init, WrapperSeen, Carried
  <1>7. QED
    BY <1>1, <1>2, <1>3, <1>4, <1>5, <1>6 DEF Inv, OwnerInv, PersistentInv, CarriedInv

\* Every step keeps the invariant.
LEMMA InvStep == Inv /\ [Next]_vars => Inv'
  <1> SUFFICES ASSUME Inv, [Next]_vars PROVE Inv'
    OBVIOUS
  <1>1. TypeOK' /\ PlaceInv' /\ OrderInv' /\ DeadInv' /\ RowInv'
    BY TypeStep, PlaceStep, OrderStep, DeadStep, RowStep DEF Inv
  <1>2. ClosureInv' /\ OneOpening' /\ RouteInv'
    BY ClosureStep, OpeningStep, RouteStep DEF Inv
  <1>3. ASSUME ~overlapped', ~raced' PROVE HasRow' /\ HasWrapper'
    <2>1. ~overlapped /\ ~raced
      BY <1>3, NeverBack DEF Inv
    <2>2. OpeningIsNewest /\ ClosuresGone /\ HasRow /\ HasWrapper
      BY <2>1 DEF Inv, OneOpening, OpeningIsNewest, ClosureInv, ClosuresGone, OwnerInv
    <2>3. QED
      BY <2>2, HasRowStep, HasWrapperStep DEF Inv
  <1>4. ASSUME NoCleanStarted', ~overlapped' PROVE WrapperSeen' /\ Carried'
    <2>1. NoCleanStarted /\ ~overlapped
      BY <1>4, NeverBack, NoCleanBefore DEF Inv
    <2>2. OpeningIsNewest /\ WrapperSeen /\ Carried
      BY <2>1 DEF Inv, OneOpening, OpeningIsNewest, PersistentInv, CarriedInv
    <2>3. QED
      BY <1>4, <2>1, <2>2, SeenStep, CarriedStep DEF Inv
  <1>5. QED
    BY <1>1, <1>2, <1>3, <1>4 DEF Inv, OwnerInv, PersistentInv, CarriedInv

\* The invariant always holds.
LEMMA InvAlways == Spec => []Inv
  BY InitInv, InvStep, PTL DEF Spec

-----------------------------------------------------------------------------
(* The theorems.                                                           *)

\* The shared caches and the messages between the nodes keep their types: no
\* kick, no request and no closure is ever addressed to a node that is none
\* (KickPrevious tests for a session that has no node).
THEOREM ClusterTypes == Spec => []TypeOK
  <1>1. Inv => TypeOK
    BY DEF Inv
  <1>2. QED
    BY <1>1, InvAlways, PTL

\* The latest connection has the session row, the wrapper of its node and the
\* routes, wherever the client was before: kicks, late closeSessions of other
\* nodes and closures for lost nodes do not take them away.
THEOREM NewestHasSession == Spec => []SessionOfNewest
  <1>1. ASSUME Inv PROVE SessionOfNewest
    <2> SUFFICES ASSUME Newest # 0, ~overlapped, ~raced, link[Newest] = "live"
                 PROVE  /\ session = RowOf(Newest)
                        /\ wrapper[at[Newest]] = Newest
                        /\ router \in {None, at[Newest]} \/ misrouted
      BY DEF SessionOfNewest, RowOf
    <2>1. Newest \in Conns /\ IsNewest(Newest)
      BY <1>1, NewestIs DEF Inv
    <2>2. HasRow /\ HasWrapper
      BY <1>1 DEF Inv, OwnerInv
    <2>3. session = RowOf(Newest)
      BY <2>1, <2>2 DEF HasRow, Behind, Active
    <2>4. session # None /\ session.createTime = Newest
      <3>1. at[Newest] \in NodeIds
        BY <1>1, <2>1 DEF Inv, PlaceInv, Active
      <3>2. RowOf(Newest) \in Session
        BY <2>1, <3>1 DEF RowOf, Session
      <3>3. QED
        BY <2>3, <3>2, NullAssumption DEF RowOf
    <2>5. wrapper[at[Newest]] = Newest
      BY <2>2, <2>4 DEF HasWrapper
    <2>6. router \in {None, at[Newest]} \/ misrouted
      BY <1>1, <2>1 DEF Inv, RouteInv
    <2>7. QED
      BY <2>3, <2>5, <2>6
  <1>2. QED
    BY <1>1, InvAlways, PTL

\* A row disappears together with the connection that wrote it: closeSession
\* compares the node of the row, and DestroySessionClosure the row itself.
THEOREM RowGoesWithConnection == Spec => SessionGoesWithConnection
  <1> DEFINE Goes == session # None /\ session' = None /\ ~raced /\ ~overlapped
                       => link'[session.createTime] = "gone"
  <1>1. ASSUME Inv, [Next]_vars PROVE [Goes]_vars
    <2> SUFFICES ASSUME session # None, session' = None, ~raced, ~overlapped, Next
                 PROVE  link'[session.createTime] = "gone"
      BY <1>1
    <2>1. HasWrapper /\ ClosuresGone /\ PlaceInv /\ RowInv /\ CoreTypes /\ RowTypes
      BY <1>1, CoreTypesOK, RowTypesOK DEF Inv, OwnerInv, ClosureInv, ClosuresGone
    <2>2. ASSUME NEW s \in closures, DestroySession(s) PROVE link'[session.createTime] = "gone"
      BY <2>1, <2>2 DEF DestroySession, ClosuresGone
    <2>3. ASSUME NEW c \in Conns, OpenLock(c) PROVE FALSE
      <3>1. at[c] \in NodeIds
        BY <2>1, <2>3 DEF OpenLock, PlaceInv, Active
      <3>2. session' \in Session
        BY <2>3, <3>1 DEF OpenLock, Session
      <3>3. QED
        BY <3>2, NullAssumption
    <2>4. ASSUME NEW c \in Conns, CloseSession(c) PROVE link'[session.createTime] = "gone"
      <3>1. PICK x \in Conns : x = session.createTime
        BY <2>1 DEF RowTypes
      <3>2. wrapper[at[c]] = c /\ session.node = at[c] /\ link' = [link EXCEPT ![c] = "gone"]
        BY <2>4 DEF CloseSession
      <3>3. x = c \/ link[x] = "gone"
        <4>1. SUFFICES ASSUME link[x] \in Behind PROVE x = c
          BY <2>1, <3>1 DEF RowInv, CoreTypes, Behind, Active
        <4>2. at[x] = at[c]
          BY <2>1, <3>1, <3>2, <4>1 DEF RowInv
        <4>3. wrapper[at[x]] = None \/ wrapper[at[x]] = x
          BY <2>1, <3>1, <4>1 DEF HasWrapper, Behind, Active
        <4>4. QED
          BY <3>2, <4>2, <4>3
      <3>4. QED
        BY <2>1, <3>1, <3>2, <3>3 DEF CoreTypes
    <2>5. \/ \E s \in closures : DestroySession(s)
          \/ \E c \in Conns : OpenLock(c) \/ CloseSession(c)
      BY MessagesApart DEF Next, ClusterStep, ConnStep, coreVars, Join, InitNode, NodeDies,
         MarkNode, SweepNode, Kick, OpenRead, OpenDispose, OpenBuild, OpenPut, Subscribe,
         Disconnect
    <2>6. QED
      BY <2>2, <2>3, <2>4, <2>5
  <1>2. QED
    BY <1>1, InvAlways, PTL DEF Spec, SessionGoesWithConnection

\* No message for a persistent session gets lost between the nodes: a request
\* that fails falls back to the queue, and a takeover does not empty the queue.
THEOREM PersistentMessagesKept == Spec => []PersistentKept
  <1>1. Inv => PersistentKept
    BY DEF Inv, CarriedInv, Carried, NoCleanStarted, PersistentKept
  <1>2. QED
    BY <1>1, InvAlways, PTL
=============================================================================
