------------------------- MODULE InboundQos2Proofs -------------------------
(***************************************************************************)
(* Theorems about InboundQos2, for any workers, messages, packet ids,      *)
(* capacity and plans.                                                     *)
(***************************************************************************)
EXTENDS InboundQos2, FiniteSetTheorems, TLAPS

\* A handler that touches the await map has one.
JobInv == \A w \in Workers :
    job[w] # None => job[w].map # 0 \/ job[w].at = "answer"

USE InboundAssumption DEF Ids, Conns

-----------------------------------------------------------------------------
(* Types.                                                                  *)

\* The plan of a behaviour assigns ids, connections and faults.
LEMMA PlanTypes ==
    ASSUME plan \in Plans
    PROVE  /\ plan.ids \in [Pubs -> Ids]
           /\ plan.conns \in Conns
           /\ plan.faults \in Nat
  OBVIOUS

\* A packet that is made of typed parts.
LEMMA PacketTypes ==
    /\ \A p \in Pubs, i \in Ids, c \in Conns, k \in {"publish", "release"} :
         [pk |-> k, pub |-> p, id |-> i, conn |-> c] \in Packet
    /\ \A t \in Packet : /\ t.pub \in Pubs /\ t.id \in Ids /\ t.conn \in Conns
                         /\ t.pk \in {"publish", "release"}
                         /\ [t EXCEPT !.pk = "release"] \in Packet
  BY DEF Packet

\* The fields of a job have their types.
LEMMA JobFields ==
    ASSUME NEW j \in Job
    PROVE  /\ j.at \in Places /\ j.packet \in Packet /\ j.map \in 0 .. MaxConns
           /\ j.s \in Int /\ j.hand \in Pubs \cup {None}
  BY DEF Job

\* One value of a function is replaced.
LEMMA Update ==
    ASSUME NEW S, NEW T, NEW f \in [S -> T], NEW x, NEW y \in T
    PROVE  [f EXCEPT ![x] = y] \in [S -> T]
  OBVIOUS

\* A job that has read the size is still a job, on the same map.
LEMMA JobSize ==
    ASSUME NEW j \in Job, NEW p \in Places, NEW s \in Int
    PROVE  [j EXCEPT !.s = s, !.at = p] \in Job /\ [j EXCEPT !.s = s, !.at = p].map = j.map
  BY DEF Job

\* A worker gets a new job, and keeps its map or is about to answer.
LEMMA JobUpdate ==
    ASSUME JobTypes, JobInv, NEW w \in Workers, NEW j \in Job,
           j.map # 0 \/ j.at = "answer", job' = [job EXCEPT ![w] = j]
    PROVE  JobTypes' /\ JobInv'
  BY DEF JobTypes, JobInv

\* A job that moves on is still a job.
LEMMA GoToTypes ==
    ASSUME JobTypes, JobInv, NEW w \in Workers, job[w] # None, NEW p \in Places,
           job[w].at # "answer", GoTo(w, p)
    PROVE  JobTypes' /\ JobInv'
  <1> DEFINE j == [job[w] EXCEPT !.at = p]
  <1>1. job[w] \in Job /\ job[w].map # 0
    BY DEF JobTypes, JobInv
  <1>2. j \in Job /\ j.map # 0
    BY <1>1 DEF Job
  <1>3. job' = [job EXCEPT ![w] = j]
    BY DEF GoTo
  <1> HIDE DEF j
  <1>4. QED
    BY <1>2, <1>3, JobUpdate

\* One entry is put into the cache, or removed.
LEMMA CacheUpdate ==
    ASSUME CacheTypes, NEW i \in Ids, NEW p \in Pubs,
           cache' = With(cache, i, p) \/ cache' = Without(cache, i)
    PROVE  CacheTypes'
  BY DEF CacheTypes, With, Without, Restrict

\* Types hold initially.
LEMMA InitTypes == Init => TypeOK /\ JobInv
  <1> SUFFICES ASSUME Init PROVE TypeOK /\ JobInv
    OBVIOUS
  <1>1. DOMAIN cache = {}
    BY DEF Init
  <1>2. plan.faults \in Nat
    BY PlanTypes DEF Init
  <1>3. QED
    <2>1. PlainTypes
      BY <1>2 DEF Init, PlainTypes
    <2>2. QED
      BY <1>1, <2>1 DEF TypeOK, Init, JobTypes, CacheTypes, JobInv

\* Every step preserves the types.
LEMMA TypeStep == TypeOK /\ JobInv /\ [Next]_vars => (TypeOK /\ JobInv)'
  <1> SUFFICES ASSUME TypeOK, JobInv, [Next]_vars
               PROVE  (TypeOK /\ JobInv)'
    OBVIOUS
  <1> USE DEF clientVars, mapVars, countVars, sessionVars
  <1>1. ASSUME NEW p \in Pubs, ClientPublish(p)
        PROVE  (TypeOK /\ JobInv)'
    <2>1. plan.ids[p] \in Ids
      BY PlanTypes DEF TypeOK, PlainTypes, JobTypes, CacheTypes
    <2>2. [pk |-> "publish", pub |-> p, id |-> plan.ids[p], conn |-> conn] \in Packet
      BY <2>1, PacketTypes DEF TypeOK, PlainTypes, JobTypes, CacheTypes
    <2>3. tasks' \subseteq Packet /\ clash' \in BOOLEAN
      BY <1>1, <2>2 DEF ClientPublish, Arrive, TypeOK, PlainTypes, JobTypes, CacheTypes
    <2>4. QED
      BY <1>1, <2>3 DEF ClientPublish, TypeOK, PlainTypes, JobTypes, CacheTypes, JobInv
  <1>2. CASE Disconnect
    BY <1>2 DEF Disconnect, TypeOK, PlainTypes, JobTypes, CacheTypes, JobInv
  <1>3. CASE CloseSession
    BY <1>3 DEF CloseSession, TypeOK, PlainTypes, JobTypes, CacheTypes, JobInv
  <1>4. CASE OpenSession
    <2>1. conn' \in Conns
      BY <1>4, PlanTypes DEF OpenSession, TypeOK, PlainTypes
    <2>2. opening' \in Opening
      BY <1>4, <2>1 DEF OpenSession, TypeOK, PlainTypes, Opening
    <2>3. PlainTypes'
      BY <1>4, <2>1, <2>2 DEF OpenSession, TypeOK, PlainTypes
    <2>4. online' \in BOOLEAN /\ clash' \in BOOLEAN
      BY <1>4 DEF OpenSession, TypeOK
    <2>5. QED
      BY <1>4, <2>3, <2>4 DEF OpenSession, TypeOK, JobTypes, CacheTypes, JobInv
  <1>5. CASE OpenScan
    BY <1>5 DEF OpenScan, TypeOK, PlainTypes, JobTypes, CacheTypes, JobInv, Opening
  <1>6. CASE OpenRemoveAll
    BY <1>6 DEF OpenRemoveAll, TypeOK, PlainTypes, JobTypes, CacheTypes, JobInv, Opening
  <1>7. CASE OpenSize
    <2>1. Cardinality(keys) \in Nat
      <3>1. IsFiniteSet(Ids)
        BY 1 \in Int, MaxId \in Int, FS_Interval
      <3>2. keys \in SUBSET Ids
        BY DEF TypeOK, PlainTypes
      <3>3. QED
        BY <3>1, <3>2, FS_Subset, FS_CardinalityType
    <2>2. QED
      <3>a. size' \in [Conns -> Int]
        BY <1>7, <2>1, Update DEF TypeOK, OpenSize, PlainTypes
      <3>b. opening' \in Opening
        BY <1>7 DEF TypeOK, OpenSize, PlainTypes, Opening
      <3>1. size' \in [Conns -> Int] /\ opening' \in Opening
        BY <3>a, <3>b
      <3>2. PlainTypes'
        BY <1>7, <3>1 DEF TypeOK, OpenSize, PlainTypes
      <3>3. QED
        BY <1>7, <3>2 DEF TypeOK, OpenSize, JobTypes, CacheTypes, JobInv
  <1>8. CASE OpenPutWrapper
    <2>1. \A p \in Pubs, k \in {"publish", "release"} :
             [pk |-> k, pub |-> p, id |-> plan.ids[p], conn |-> conn] \in Packet
      BY PlanTypes, PacketTypes DEF TypeOK, PlainTypes, JobTypes, CacheTypes
    <2>2. tasks' \subseteq Packet
      <3> DEFINE pubs == {[pk |-> "publish", pub |-> p, id |-> plan.ids[p], conn |-> conn] :
                            p \in {q \in Pubs : state[q] = "published"}}
                 rels == {[pk |-> "release", pub |-> p, id |-> plan.ids[p], conn |-> conn] :
                            p \in {q \in Pubs : state[q] = "released"}}
      <3>1. tasks' = tasks \cup (pubs \cup rels)
        BY <1>8 DEF OpenPutWrapper, Arrive
      <3>2. pubs \subseteq Packet /\ rels \subseteq Packet
        BY <2>1
      <3> HIDE DEF pubs, rels
      <3>3. QED
        BY <3>1, <3>2 DEF TypeOK, PlainTypes
    <2>3. sent' \in [Pubs -> Nat] /\ clash' \in BOOLEAN
      BY <1>8 DEF OpenPutWrapper, Arrive, TypeOK, PlainTypes, JobTypes, CacheTypes
    <2>4. wrapper' \in 0 .. MaxConns
      BY <1>8 DEF OpenPutWrapper, TypeOK, PlainTypes, JobTypes, CacheTypes, Opening
    <2>5. QED
      BY <1>8, <2>2, <2>3, <2>4 DEF OpenPutWrapper, TypeOK, PlainTypes, JobTypes, CacheTypes, JobInv
  <1>9. CASE Crash
    <2>1. \A w \in Workers : job[w] # None => job[w].hand \in Pubs \cup {None}
      BY JobFields DEF TypeOK, PlainTypes, JobTypes, CacheTypes
    <2>2. excused' \subseteq Pubs
      BY <1>9, <2>1 DEF Crash, TypeOK, PlainTypes, JobTypes, CacheTypes
    <2>3. faults' \in 0 .. plan'.faults
      BY <1>9, PlanTypes DEF Crash, TypeOK, PlainTypes, JobTypes, CacheTypes
    <2>4. QED
      <3>1. PlainTypes'
        BY <1>9, <2>2, <2>3 DEF TypeOK, Crash, PlainTypes
      <3>2. QED
        BY <1>9, <3>1 DEF TypeOK, Crash, JobTypes, CacheTypes, JobInv
  <1>10. ASSUME NEW w \in Workers, NEW t \in tasks, Start(w, t)
         PROVE  (TypeOK /\ JobInv)'
    <2> DEFINE place == CASE wrapper = 0 -> "answer"
                          [] wrapper # 0 /\ t.pk = "publish" -> "contains"
                          [] wrapper # 0 /\ t.pk = "release" -> "take"
               j == [at |-> place, packet |-> t, map |-> wrapper, s |-> 0, hand |-> None]
    <2>1. t \in Packet /\ t.pub \in Pubs /\ t.pk \in {"publish", "release"}
      BY PacketTypes DEF TypeOK, PlainTypes, JobTypes, CacheTypes
    <2>2. place \in Places /\ (wrapper = 0 => place = "answer")
      BY <2>1 DEF Places
    <2>3. j \in Job /\ (j.map # 0 \/ j.at = "answer")
      BY <2>1, <2>2 DEF Job, TypeOK, PlainTypes, JobTypes, CacheTypes
    <2>4. job' = [job EXCEPT ![w] = j]
      BY <1>10 DEF Start
    <2> HIDE DEF j
    <2>5. job' \in [Workers -> Job \cup {None}] /\ JobInv'
      BY <2>3, <2>4 DEF TypeOK, PlainTypes, JobTypes, CacheTypes, JobInv
    <2>6. QED
      BY <1>10, <2>1, <2>5 DEF Start, TypeOK, PlainTypes, JobTypes, CacheTypes
  <1>11. ASSUME NEW w \in Workers, WorkerStep(w)
         PROVE  (TypeOK /\ JobInv)'
    <2>0. job[w] \in Job /\ job[w].packet.id \in Ids /\ job[w].packet.pub \in Pubs
      BY <1>11, JobFields, PacketTypes DEF WorkerStep, TypeOK, PlainTypes, JobTypes, CacheTypes
    <2> USE <2>0 DEF Places
    <2>a. PlainTypes /\ JobTypes /\ CacheTypes /\ job[w] # None
      BY <1>11 DEF TypeOK, WorkerStep
    <2>b. online' \in BOOLEAN /\ clash' \in BOOLEAN
      BY <1>11 DEF TypeOK, WorkerStep, PutExt, ContainsKey, PutReplace, PutAdd, PutNew,
         ReadSize, RaiseSize, GetAndRemove, RemoveKey, LowerAndRoute, Answer
    <2>c. job[w].s \in Int /\ job[w].hand \in Pubs \cup {None} /\ job[w].map \in 0 .. MaxConns
      BY JobFields
    <2>1. CASE PutExt(w)
      <3>1. JobTypes' /\ JobInv'
        BY <2>a, <2>1, GoToTypes DEF PutExt
      <3>2. CacheTypes'
        BY <2>a, <2>1, CacheUpdate DEF PutExt, CacheTypes
      <3>3. PlainTypes'
        BY <2>a, <2>1 DEF PutExt, PlainTypes
      <3>4. QED
        BY <3>1, <3>2, <3>3, <2>b DEF TypeOK
    <2>2. CASE ContainsKey(w)
      <3>1. JobTypes' /\ JobInv'
        BY <2>a, <2>2, GoToTypes DEF ContainsKey
      <3>2. CacheTypes' /\ PlainTypes'
        BY <2>a, <2>2 DEF ContainsKey, PlainTypes, CacheTypes
      <3>3. QED
        BY <3>1, <3>2, <2>b DEF TypeOK
    <2>3. CASE PutReplace(w)
      <3>1. JobTypes' /\ JobInv'
        BY <2>a, <2>3, GoToTypes DEF PutReplace
      <3>2. CacheTypes'
        BY <2>a, <2>3, CacheUpdate DEF PutReplace
      <3>3. PlainTypes'
        BY <2>a, <2>3 DEF PutReplace, PlainTypes
      <3>4. QED
        BY <3>1, <3>2, <3>3, <2>b DEF TypeOK
    <2>4. CASE PutAdd(w)
      <3>1. JobTypes' /\ JobInv'
        BY <2>a, <2>4, GoToTypes DEF PutAdd
      <3>2. CacheTypes'
        BY <2>a, <2>4 DEF PutAdd, CacheTypes
      <3>c. cas' \in [Conns -> {0, 1}]
        BY <2>a, <2>4, Update, SMTT(60) DEF PutAdd, PlainTypes
      <3>a. cas' \in [Conns -> {0, 1}] /\ keys' \subseteq Ids /\ excused' \subseteq Pubs
        <4>1. keys' = keys \/ keys' = keys \cup {job[w].packet.id}
          BY <2>4 DEF PutAdd
        <4>2. excused' = excused \/ excused' = excused \cup {job[w].packet.pub}
          BY <2>4 DEF PutAdd
        <4>3. keys' \subseteq Ids
          BY <2>a, <4>1 DEF PlainTypes
        <4>4. excused' \subseteq Pubs
          BY <2>a, <4>2 DEF PlainTypes
        <4>5. QED
          BY <3>c, <4>3, <4>4
      <3>b. PlainTypes'
        BY <2>a, <2>4, <3>a DEF PutAdd, PlainTypes
      <3>3. QED
        BY <3>1, <3>2, <3>b, <2>b DEF TypeOK
    <2>5. CASE PutNew(w)
      <3>1. JobTypes' /\ JobInv'
        BY <2>a, <2>5, GoToTypes DEF PutNew
      <3>2. CacheTypes'
        BY <2>a, <2>5, CacheUpdate DEF PutNew
      <3>3. PlainTypes'
        BY <2>a, <2>5 DEF PutNew, PlainTypes
      <3>4. QED
        BY <3>1, <3>2, <3>3, <2>b DEF TypeOK
    <2>6. CASE ReadSize(w)
      <3> DEFINE p == IF job[w].at = "read" THEN "raise" ELSE "lower"
                 j == [job[w] EXCEPT !.s = size[job[w].map], !.at = p]
      <3>1. job[w].map \in Conns
        BY <2>6, <2>a, JobFields DEF ReadSize, JobInv
      <3>2. size[job[w].map] \in Int
        BY <3>1, <2>a DEF PlainTypes
      <3>3. j \in Job /\ j.map # 0
        <4>1. p \in Places
          OBVIOUS
        <4> HIDE DEF p
        <4>2. QED
          <5> DEFINE z == size[job[w].map]
          <5>1. z \in Int
            BY <3>2
          <5> HIDE DEF z
          <5>2. [job[w] EXCEPT !.s = z, !.at = p] \in Job
            BY <4>1, <5>1, JobSize
          <5>3. [job[w] EXCEPT !.s = z, !.at = p].map = job[w].map
            BY <2>0 DEF Job
          <5>4. QED
            BY <3>1, <5>2, <5>3 DEF z
      <3>4. job' = [job EXCEPT ![w] = j]
        BY <2>6 DEF ReadSize
      <3> HIDE DEF j
      <3>5. JobTypes' /\ JobInv'
        BY <2>a, <3>3, <3>4, JobUpdate
      <3>6. CacheTypes' /\ PlainTypes'
        BY <2>a, <2>6 DEF ReadSize, PlainTypes, CacheTypes
      <3>7. QED
        BY <3>5, <3>6, <2>b DEF TypeOK
    <2>7. CASE RaiseSize(w)
      <3>1. JobTypes' /\ JobInv'
        BY <2>a, <2>7, GoToTypes DEF RaiseSize
      <3>a. size' \in [Conns -> Int] /\ cas' \in [Conns -> {0, 1}]
        <4>1. job[w].s + 1 \in Int
          BY <2>c
        <4>2. QED
          BY <2>a, <4>1, <2>7, Update DEF RaiseSize, PlainTypes
      <3>2. CacheTypes' /\ PlainTypes'
        BY <2>a, <2>7, <3>a DEF RaiseSize, PlainTypes, CacheTypes
      <3>3. QED
        BY <3>1, <3>2, <2>b DEF TypeOK
    <2>8. CASE GetAndRemove(w)
      <3> DEFINE h == IF job[w].packet.id \in DOMAIN cache THEN cache[job[w].packet.id] ELSE None
                 p == IF kind = "transient" THEN "lower" ELSE "unset"
                 j == [job[w] EXCEPT !.hand = h, !.at = p]
      <3>1. job[w].map # 0
        BY <2>8, <2>a DEF GetAndRemove, JobInv
      <3>2. h \in Pubs \cup {None}
        BY <2>a DEF CacheTypes
      <3>3. j \in Job /\ j.map # 0
        BY <3>1, <3>2 DEF Job
      <3>4. job' = [job EXCEPT ![w] = j]
        BY <2>8 DEF GetAndRemove
      <3> HIDE DEF j
      <3>5. JobTypes' /\ JobInv'
        BY <2>a, <3>3, <3>4, JobUpdate
      <3>6. CacheTypes'
        BY <2>a, <2>8, CacheUpdate DEF GetAndRemove
      <3>7. PlainTypes'
        BY <2>a, <2>8 DEF GetAndRemove, PlainTypes
      <3>8. QED
        BY <3>5, <3>6, <3>7, <2>b DEF TypeOK
    <2>9. CASE RemoveKey(w)
      <3>1. JobTypes' /\ JobInv'
        BY <2>a, <2>9, GoToTypes DEF RemoveKey
      <3>2. CacheTypes' /\ PlainTypes'
        BY <2>a, <2>9 DEF RemoveKey, PlainTypes, CacheTypes
      <3>3. QED
        BY <3>1, <3>2, <2>b DEF TypeOK
    <2>10. CASE LowerAndRoute(w)
      <3> DEFINE j == [job[w] EXCEPT !.hand = None, !.at = "answer"]
      <3>1. j \in Job /\ j.at = "answer"
        BY DEF Job
      <3>2. job' = [job EXCEPT ![w] = j]
        BY <2>10 DEF LowerAndRoute
      <3> HIDE DEF j
      <3>3. JobTypes' /\ JobInv'
        BY <2>a, <3>1, <3>2, JobUpdate
      <3>4. size' \in [Conns -> Int] /\ routed' \in [Pubs -> Nat]
        <4>1. size' \in [Conns -> Int]
          <5>1. job[w].s - 1 \in Int
            BY <2>c
          <5>2. QED
            BY <2>a, <5>1, <2>10, Update DEF LowerAndRoute, PlainTypes
        <4>2. routed' \in [Pubs -> Nat]
          <5>1. job[w].hand # None => routed[job[w].hand] + 1 \in Nat
            <6>1. routed \in [Pubs -> Nat] /\ (job[w].hand # None => job[w].hand \in Pubs)
              BY <2>a, <2>c DEF PlainTypes
            <6>2. QED
              BY <6>1
          <5>2. QED
            BY <2>a, <5>1, <2>10, Update DEF LowerAndRoute, PlainTypes
        <4>3. QED
          BY <4>1, <4>2
      <3>5. CacheTypes' /\ PlainTypes'
        BY <2>a, <2>10, <3>4 DEF LowerAndRoute, PlainTypes, CacheTypes
      <3>6. QED
        BY <3>3, <3>5, <2>b DEF TypeOK
    <2>11. CASE Answer(w)
      <3>1. JobTypes' /\ JobInv'
        BY <2>a, <2>11 DEF Answer, JobTypes, JobInv
      <3>2. state' \in [Pubs -> {"idle", "published", "released", "done"}]
        BY <2>a, <2>11 DEF Answer, PlainTypes
      <3>3. tasks' \subseteq Packet
        <4>1. [job[w].packet EXCEPT !.pk = "release"] \in Packet
          BY JobFields, PacketTypes
        <4>2. QED
          BY <2>a, <2>11, <4>1 DEF Answer, PlainTypes
      <3>4. CacheTypes' /\ PlainTypes'
        BY <2>a, <2>11, <3>2, <3>3 DEF Answer, PlainTypes, CacheTypes
      <3>5. QED
        BY <3>1, <3>4, <2>b DEF TypeOK
    <2>12. QED
      BY <1>11, <2>1, <2>2, <2>3, <2>4, <2>5, <2>6, <2>7, <2>8, <2>9, <2>10, <2>11
         DEF WorkerStep
  <1>12. ASSUME NEW i \in Ids, Expire(i)
         PROVE  (TypeOK /\ JobInv)'
    <2>1. CacheTypes'
      BY <1>12 DEF Expire, Without, Restrict, TypeOK, CacheTypes
    <2>2. faults' \in 0 .. plan'.faults
      BY <1>12, PlanTypes DEF Expire, TypeOK, PlainTypes
    <2>3. PlainTypes'
      BY <1>12, <2>2 DEF Expire, TypeOK, PlainTypes, CacheTypes
    <2>4. clash' \in BOOLEAN
      BY <1>12 DEF Expire, TypeOK
    <2>5. QED
      BY <1>12, <2>1, <2>3, <2>4 DEF Expire, TypeOK, JobTypes, JobInv
  <1>13. ASSUME NEW i \in Ids, AwaitExpired(i)
         PROVE  (TypeOK /\ JobInv)'
    BY <1>13 DEF AwaitExpired, TypeOK, PlainTypes, JobTypes, CacheTypes, JobInv
  <1>14. CASE UNCHANGED vars
    BY <1>14 DEF vars, TypeOK, PlainTypes, JobTypes, CacheTypes, JobInv
  <1>15. QED
    BY <1>1, <1>2, <1>3, <1>4, <1>5, <1>6, <1>7, <1>8, <1>9, <1>10, <1>11, <1>12,
       <1>13, <1>14 DEF Next, Open

\* The state of the await map, of the session and of every handler keeps its
\* type: in particular the volatile size of BoundedIgniteMap, which remove()
\* writes without the lock, stays a number that belongs to an open map.
THEOREM InboundTypes == Spec => []TypeOK
  <1>1. TypeOK /\ JobInv /\ [Next]_vars => (TypeOK /\ JobInv)'
    BY TypeStep
  <1>2. QED
    BY <1>1, InitTypes, PTL DEF Spec

-----------------------------------------------------------------------------
(* The packets of the client.                                              *)

\* Only finitely many packets wait.  What the client has not sent is nowhere, and
\* a connection that is being opened has sent nothing yet.
PacketInv ==
    /\ IsFiniteSet(tasks)
    /\ \A p \in Pubs : state[p] = "idle" =>
         /\ sent[p] = 0
         /\ \A t \in tasks : t.pub # p
         /\ \A w \in Workers : job[w] # None => job[w].packet.pub # p
    /\ \A t \in tasks : t.conn <= conn
    /\ \A w \in Workers : job[w] # None => job[w].packet.conn <= conn
    /\ opening # None =>
         /\ ~online
         /\ \A t \in tasks : t.conn < conn
         /\ \A w \in Workers : job[w] # None => job[w].packet.conn < conn

-----------------------------------------------------------------------------
(* The inductive invariant of KeySetCovers and ExactlyOnce.                *)

Publish == {"contains", "replace", "spin", "put", "read", "raise"}
Release == {"take", "unset", "load", "lower"}

Busy(w) == job[w] # None

\* A packet carries the id of its message, a place of a handler belongs to the
\* kind of its packet, and what is kept or in hand was filed under its id.
LinkInv ==
    /\ \A t \in tasks : t.id = plan.ids[t.pub]
    /\ \A w \in Workers : Busy(w) =>
         /\ job[w].packet.id = plan.ids[job[w].packet.pub]
         /\ job[w].at \in Publish => job[w].packet.pk = "publish"
         /\ job[w].at \in Release => job[w].packet.pk = "release"
         /\ job[w].hand # None => /\ job[w].at \in {"unset", "load", "lower"}
                                  /\ job[w].packet.id = plan.ids[job[w].hand]
    /\ \A i \in DOMAIN cache : plan.ids[cache[i]] = i

\* One message and one packet for a packet id at a time, and the client waits
\* for its answer.
UniqInv ==
    /\ \A p, q \in Pubs : plan.ids[p] = plan.ids[q] =>
         \/ p = q
         \/ state[p] \notin {"published", "released"} \/ state[q] \notin {"published", "released"}
    /\ \A t, u \in tasks : t.id = u.id => t = u
    /\ \A t \in tasks, w \in Workers : Busy(w) => job[w].packet.id # t.id
    /\ \A v, w \in Workers : Busy(v) /\ Busy(w) /\ job[v].packet.id = job[w].packet.id => v = w
    /\ \A t \in tasks : state[t.pub] = IF t.pk = "publish" THEN "published" ELSE "released"
    /\ \A w \in Workers : Busy(w) =>
         state[job[w].packet.pub] = IF job[w].packet.pk = "publish" THEN "published" ELSE "released"

\* The key is there before the message, and as long as it.
KeyInv ==
    /\ kind = "persistent" => DOMAIN cache \subseteq keys
    /\ \A w \in Workers : Busy(w) =>
         /\ job[w].at = "put" => job[w].packet.id \in keys
         /\ job[w].at = "replace" => job[w].packet.id \in DOMAIN cache
         /\ job[w].at = "unset" => job[w].packet.id \notin DOMAIN cache
    /\ \A i \in expiring : /\ i \notin DOMAIN cache
                           /\ \A t \in tasks : t.id = i => t.pk # "publish"
                           /\ \A w \in Workers : Busy(w) /\ job[w].packet.id = i => job[w].packet.pk # "publish"
    /\ opening # None /\ opening.at \in {"scan", "removeAll", "size"} =>
         /\ tasks = {} /\ \A w \in Workers : ~Busy(w)
         /\ opening.removes \cap DOMAIN cache = {}

IsKept(p) == plan.ids[p] \in DOMAIN cache /\ cache[plan.ids[p]] = p
IsHeld(p) == \E w \in Workers : Busy(w) /\ job[w].hand = p

\* A message is in one place: not yet stored, kept, in hand, or routed.
OncePub(p) ==
    /\ routed[p] \in {0, 1}
    /\ IsKept(p) => routed[p] = 0 /\ ~IsHeld(p)
    /\ IsHeld(p) => routed[p] = 0
    /\ state[p] = "idle" => ~IsKept(p)
    /\ state[p] \in {"idle", "published"} => routed[p] = 0 /\ ~IsHeld(p)
    /\ state[p] = "released" => p \in excused \/ routed[p] = 1 \/ IsKept(p) \/ IsHeld(p)
    /\ state[p] = "done" => p \in excused \/ routed[p] = 1

\* A handler that has passed the map has done its part for its message.
OnceJob(w) ==
    LET p == job[w].packet.pub
    IN /\ job[w].packet.pk = "publish" /\ job[w].at \in {"read", "raise", "answer"}
            => p \in excused \/ IsKept(p)
       /\ job[w].packet.pk = "release" /\ job[w].at # "take"
            => p \in excused \/ routed[p] = 1 \/ job[w].hand = p

OnceInv ==
    /\ \A p \in Pubs : OncePub(p)
    /\ \A w \in Workers : Busy(w) => OnceJob(w)

CleanInv == ~clash => UniqInv /\ KeyInv /\ OnceInv

-----------------------------------------------------------------------------
(* Steps of a handler.                                                     *)

\* Worker w goes on at p with message h in hand; the others stay where they are.
Move(w, p, h) ==
    /\ Busy(w)'
    /\ job'[w].at = p /\ job'[w].hand = h /\ job'[w].packet = job[w].packet
    /\ \A v \in Workers : v # w => job'[v] = job[v]

\* Packets waiting, packets in hand and the cache have their types.
LEMMA Fields ==
    ASSUME TypeOK
    PROVE  /\ \A t \in tasks : t \in Packet /\ t.pub \in Pubs /\ t.id \in Ids /\ t.pk \in {"publish", "release"}
           /\ \A w \in Workers : Busy(w) =>
                /\ job[w].packet \in Packet /\ job[w].packet.pub \in Pubs /\ job[w].packet.id \in Ids
                /\ job[w].packet.pk \in {"publish", "release"}
                /\ job[w].at \in Places /\ job[w].hand \in Pubs \cup {None}
           /\ \A p \in Pubs : plan.ids[p] \in Ids
           /\ \A i \in DOMAIN cache : i \in Ids /\ cache[i] \in Pubs
  <1>1. \A t \in tasks : t \in Packet /\ t.pub \in Pubs /\ t.id \in Ids /\ t.pk \in {"publish", "release"}
    BY PacketTypes DEF TypeOK, PlainTypes
  <1>2. \A w \in Workers : Busy(w) =>
          /\ job[w].packet \in Packet /\ job[w].at \in Places /\ job[w].hand \in Pubs \cup {None}
    BY JobFields DEF TypeOK, JobTypes, Busy
  <1>3. \A w \in Workers : Busy(w) =>
          /\ job[w].packet.pub \in Pubs /\ job[w].packet.id \in Ids
          /\ job[w].packet.pk \in {"publish", "release"}
    BY <1>2, PacketTypes
  <1>4. \A p \in Pubs : plan.ids[p] \in Ids
    BY PlanTypes DEF TypeOK, PlainTypes
  <1>5. \A i \in DOMAIN cache : i \in Ids /\ cache[i] \in Pubs
    BY DEF TypeOK, CacheTypes
  <1>6. QED
    BY <1>1, <1>2, <1>3, <1>4, <1>5

\* What the handlers do to a job: its place, and the message in hand.
LEMMA Moves ==
    ASSUME TypeOK, JobInv, NEW w \in Workers, Busy(w)
    PROVE  /\ \A p \in Places : GoTo(w, p) => Move(w, p, job[w].hand)
           /\ ReadSize(w) => Move(w, IF job[w].at = "read" THEN "raise" ELSE "lower", job[w].hand)
           /\ GetAndRemove(w) =>
                Move(w, IF kind = "transient" THEN "lower" ELSE "unset",
                     IF job[w].packet.id \in DOMAIN cache THEN cache[job[w].packet.id] ELSE None)
           /\ LowerAndRoute(w) => Move(w, "answer", None)
  <1>0. job[w] \in Job /\ job \in [Workers -> Job \cup {None}]
    BY DEF TypeOK, JobTypes, Busy
  <1>1. ASSUME NEW j \in Job, job' = [job EXCEPT ![w] = j], j.packet = job[w].packet
        PROVE  Move(w, j.at, j.hand)
    BY <1>0, <1>1, NullAssumption DEF Move, Busy
  <1>2. ASSUME NEW p \in Places, GoTo(w, p)
        PROVE  Move(w, p, job[w].hand)
    <2> DEFINE j == [job[w] EXCEPT !.at = p]
    <2>1. j \in Job /\ j.packet = job[w].packet /\ j.at = p /\ j.hand = job[w].hand
      BY <1>0 DEF Job
    <2>2. job' = [job EXCEPT ![w] = j]
      BY <1>2 DEF GoTo
    <2> HIDE DEF j
    <2>3. QED
      BY <1>1, <2>1, <2>2
  <1>3. ASSUME ReadSize(w)
        PROVE  Move(w, IF job[w].at = "read" THEN "raise" ELSE "lower", job[w].hand)
    <2> DEFINE p == IF job[w].at = "read" THEN "raise" ELSE "lower"
               z == size[job[w].map]
               j == [job[w] EXCEPT !.s = z, !.at = p]
    <2>1. job[w].map \in Conns
      BY <1>0, <1>3, JobFields DEF ReadSize, JobInv, Busy
    <2>2. z \in Int
      BY <2>1 DEF TypeOK, PlainTypes
    <2>3. p \in Places
      BY DEF Places
    <2>4. job' = [job EXCEPT ![w] = j]
      BY <1>3 DEF ReadSize
    <2> HIDE DEF p, z
    <2>5. j \in Job /\ j.packet = job[w].packet /\ j.at = p /\ j.hand = job[w].hand
      BY <1>0, <2>2, <2>3 DEF Job
    <2> HIDE DEF j
    <2>6. Move(w, p, job[w].hand)
      BY <1>1, <2>4, <2>5
    <2>7. QED
      BY <2>6 DEF p
  <1>4. ASSUME GetAndRemove(w)
        PROVE  Move(w, IF kind = "transient" THEN "lower" ELSE "unset",
                    IF job[w].packet.id \in DOMAIN cache THEN cache[job[w].packet.id] ELSE None)
    <2> DEFINE p == IF kind = "transient" THEN "lower" ELSE "unset"
               h == IF job[w].packet.id \in DOMAIN cache THEN cache[job[w].packet.id] ELSE None
               j == [job[w] EXCEPT !.hand = h, !.at = p]
    <2>1. h \in Pubs \cup {None} /\ p \in Places
      BY DEF TypeOK, CacheTypes, Places
    <2>2. job' = [job EXCEPT ![w] = j]
      BY <1>4 DEF GetAndRemove
    <2> HIDE DEF p, h
    <2>3. j \in Job /\ j.packet = job[w].packet /\ j.at = p /\ j.hand = h
      BY <1>0, <2>1 DEF Job
    <2> HIDE DEF j
    <2>4. Move(w, p, h)
      BY <1>1, <2>2, <2>3
    <2>5. QED
      BY <2>4 DEF p, h
  <1>5. ASSUME LowerAndRoute(w)
        PROVE  Move(w, "answer", None)
    <2> DEFINE j == [job[w] EXCEPT !.hand = None, !.at = "answer"]
    <2>1. job' = [job EXCEPT ![w] = j]
      BY <1>5 DEF LowerAndRoute
    <2>2. j \in Job /\ j.packet = job[w].packet /\ j.at = "answer" /\ j.hand = None
      BY <1>0 DEF Job, Places
    <2> HIDE DEF j
    <2>3. QED
      BY <1>1, <2>1, <2>2
  <1>6. QED
    BY <1>2, <1>3, <1>4, <1>5

\* What a put and a removal do to the cache.
LEMMA CacheSteps ==
    ASSUME NEW i, NEW p
    PROVE  /\ cache' = With(cache, i, p) =>
                /\ DOMAIN cache' = DOMAIN cache \cup {i} /\ cache'[i] = p
                /\ \A k \in DOMAIN cache' : k # i => k \in DOMAIN cache /\ cache'[k] = cache[k]
           /\ cache' = Without(cache, i) =>
                /\ DOMAIN cache' = DOMAIN cache \ {i}
                /\ \A k \in DOMAIN cache' : k \in DOMAIN cache /\ cache'[k] = cache[k]
  BY DEF With, Without, Restrict

\* What a worker does to the things the invariants speak of, action by action.
LEMMA WorkerFacts ==
    ASSUME TypeOK, JobInv, NEW w \in Workers, Busy(w)
    PROVE  LET t == job[w].packet
           IN /\ PutExt(w) =>
                   /\ Move(w, "answer", job[w].hand) /\ job[w].at = "contains" /\ kind = "transient"
                   /\ \/ cache' = With(cache, t.id, t.pub) /\ excused' = excused
                      \/ cache' = cache /\ excused' = excused \cup {t.pub}
                   /\ UNCHANGED <<tasks, state, keys, routed, sent>>
              /\ ContainsKey(w) =>
                   /\ Move(w, IF t.id \in DOMAIN cache THEN "replace" ELSE "spin", job[w].hand)
                   /\ job[w].at = "contains"
                   /\ UNCHANGED <<tasks, state, cache, keys, routed, excused, sent>>
              /\ PutReplace(w) =>
                   /\ Move(w, "answer", job[w].hand) /\ job[w].at = "replace"
                   /\ cache' = With(cache, t.id, t.pub)
                   /\ UNCHANGED <<tasks, state, keys, routed, excused, sent>>
              /\ PutAdd(w) =>
                   /\ job[w].at = "spin"
                   /\ \/ /\ Move(w, "put", job[w].hand)
                         /\ keys' = keys \cup {t.id} /\ excused' = excused
                      \/ /\ Move(w, "answer", job[w].hand)
                         /\ keys' = keys /\ excused' = excused \cup {t.pub}
                   /\ UNCHANGED <<tasks, state, cache, routed, sent>>
              /\ PutNew(w) =>
                   /\ Move(w, "read", job[w].hand) /\ job[w].at = "put"
                   /\ cache' = With(cache, t.id, t.pub)
                   /\ UNCHANGED <<tasks, state, keys, routed, excused, sent>>
              /\ ReadSize(w) =>
                   /\ \/ job[w].at = "read" /\ Move(w, "raise", job[w].hand)
                      \/ job[w].at = "load" /\ Move(w, "lower", job[w].hand)
                   /\ UNCHANGED <<tasks, state, cache, keys, routed, excused, sent>>
              /\ RaiseSize(w) =>
                   /\ Move(w, "answer", job[w].hand) /\ job[w].at = "raise"
                   /\ UNCHANGED <<tasks, state, cache, keys, routed, excused, sent>>
              /\ GetAndRemove(w) =>
                   /\ job[w].at = "take"
                   /\ Move(w, IF kind = "transient" THEN "lower" ELSE "unset",
                           IF t.id \in DOMAIN cache THEN cache[t.id] ELSE None)
                   /\ cache' = Without(cache, t.id)
                   /\ UNCHANGED <<tasks, state, keys, routed, excused, sent>>
              /\ RemoveKey(w) =>
                   /\ Move(w, IF job[w].hand = None THEN "answer" ELSE "load", job[w].hand)
                   /\ job[w].at = "unset" /\ keys' = keys \ {t.id}
                   /\ UNCHANGED <<tasks, state, cache, routed, excused, sent>>
              /\ LowerAndRoute(w) =>
                   /\ Move(w, "answer", None) /\ job[w].at = "lower"
                   /\ routed' = IF job[w].hand = None THEN routed
                                ELSE [routed EXCEPT ![job[w].hand] = @ + 1]
                   /\ UNCHANGED <<tasks, state, cache, keys, excused, sent>>
  <1> USE DEF Places, clientVars, mapVars
  <1>0. \A p \in Places : GoTo(w, p) => Move(w, p, job[w].hand)
    BY Moves
  <1>1. ASSUME PutExt(w)
        PROVE  /\ Move(w, "answer", job[w].hand) /\ job[w].at = "contains" /\ kind = "transient"
               /\ \/ /\ cache' = With(cache, job[w].packet.id, job[w].packet.pub) /\ excused' = excused
                  \/ /\ cache' = cache /\ excused' = excused \cup {job[w].packet.pub}
               /\ UNCHANGED <<tasks, state, keys, routed, sent>>
    BY <1>0, <1>1 DEF PutExt
  <1>2. ASSUME PutAdd(w)
        PROVE  /\ job[w].at = "spin"
               /\ \/ /\ Move(w, "put", job[w].hand)
                     /\ keys' = keys \cup {job[w].packet.id} /\ excused' = excused
                  \/ /\ Move(w, "answer", job[w].hand)
                     /\ keys' = keys /\ excused' = excused \cup {job[w].packet.pub}
               /\ UNCHANGED <<tasks, state, cache, routed, sent>>
    BY <1>0, <1>2 DEF PutAdd
  <1>3. ASSUME ReadSize(w)
        PROVE  /\ \/ job[w].at = "read" /\ Move(w, "raise", job[w].hand)
                  \/ job[w].at = "load" /\ Move(w, "lower", job[w].hand)
               /\ UNCHANGED <<tasks, state, cache, keys, routed, excused, sent>>
    BY <1>3, Moves DEF ReadSize
  <1>4. QED
    BY <1>0, <1>1, <1>2, <1>3, Moves
       DEF ContainsKey, PutReplace, PutNew, RaiseSize, GetAndRemove, RemoveKey, LowerAndRoute

\* A put or a removal keeps every message under its own packet id.
LEMMA CacheLinks ==
    ASSUME \A k \in DOMAIN cache : plan.ids[cache[k]] = k, NEW i, NEW p, i = plan.ids[p],
           cache' = With(cache, i, p) \/ cache' = Without(cache, i) \/ cache' = cache
    PROVE  \A k \in DOMAIN cache' : plan.ids[cache'[k]] = k
  <1>1. CASE cache' = With(cache, i, p)
    BY <1>1 DEF With
  <1>2. CASE cache' = Without(cache, i)
    BY <1>2 DEF Without, Restrict
  <1>3. QED
    BY <1>1, <1>2

\* Every step keeps packets, handlers and messages under their packet ids.
LEMMA LinkStep == TypeOK /\ JobInv /\ LinkInv /\ [Next]_vars => LinkInv'
  <1> SUFFICES ASSUME TypeOK, JobInv, LinkInv, [Next]_vars
               PROVE  LinkInv'
    OBVIOUS
  <1> USE DEF clientVars, mapVars, countVars, sessionVars, Publish, Release
  <1>0. plan' = plan
    BY DEF Next, vars, Open, WorkerStep, ClientPublish, Disconnect, CloseSession, OpenSession,
       OpenScan, OpenRemoveAll, OpenSize, OpenPutWrapper, Crash, Start, Expire, AwaitExpired,
       PutExt, ContainsKey, PutReplace, PutAdd, PutNew, ReadSize, RaiseSize, GetAndRemove,
       RemoveKey, LowerAndRoute, Answer
  <1>1. ASSUME NEW p \in Pubs, ClientPublish(p)
        PROVE  LinkInv'
    BY <1>0, <1>1 DEF ClientPublish, Arrive, LinkInv, Busy
  <1>2. CASE Disconnect \/ CloseSession \/ OpenSession \/ OpenScan \/ OpenRemoveAll \/ OpenSize
    BY <1>0, <1>2 DEF Disconnect, CloseSession, OpenSession, OpenScan, OpenRemoveAll, OpenSize,
       LinkInv, Busy
  <1>3. CASE OpenPutWrapper
    BY <1>0, <1>3 DEF OpenPutWrapper, Arrive, LinkInv, Busy
  <1>4. CASE Crash
    BY <1>0, <1>4 DEF Crash, LinkInv, Busy
  <1>5. ASSUME NEW w \in Workers, NEW t \in tasks, Start(w, t)
        PROVE  LinkInv'
    BY <1>0, <1>5, Fields DEF Start, LinkInv, Busy, TypeOK, JobTypes
  <1>6. ASSUME NEW w \in Workers, WorkerStep(w)
        PROVE  LinkInv'
    <2> DEFINE t == job[w].packet
    <2>0. Busy(w) /\ t.id = plan.ids[t.pub]
      BY <1>6 DEF WorkerStep, LinkInv, Busy
    <2>1. CASE PutExt(w)
      <3>1. \A i \in DOMAIN cache' : plan.ids[cache'[i]] = i
        <4>1. cache' = With(cache, t.id, t.pub) \/ cache' = Without(cache, t.id) \/ cache' = cache
          BY <2>0, <2>1, WorkerFacts
        <4>2. \A i \in DOMAIN cache : plan.ids[cache[i]] = i
          BY DEF LinkInv
        <4> HIDE DEF t
        <4>3. QED
          BY <2>0, <4>1, <4>2, CacheLinks
      <3>2. QED
        BY <2>0, <2>1, <3>1, <1>0, WorkerFacts DEF LinkInv, Move, Busy
    <2>2. CASE PutReplace(w)
      <3>1. \A i \in DOMAIN cache' : plan.ids[cache'[i]] = i
        <4>1. cache' = With(cache, t.id, t.pub) \/ cache' = Without(cache, t.id) \/ cache' = cache
          BY <2>0, <2>2, WorkerFacts
        <4>2. \A i \in DOMAIN cache : plan.ids[cache[i]] = i
          BY DEF LinkInv
        <4> HIDE DEF t
        <4>3. QED
          BY <2>0, <4>1, <4>2, CacheLinks
      <3>2. QED
        BY <2>0, <2>2, <3>1, <1>0, WorkerFacts DEF LinkInv, Move, Busy
    <2>3. CASE PutNew(w)
      <3>1. \A i \in DOMAIN cache' : plan.ids[cache'[i]] = i
        <4>1. cache' = With(cache, t.id, t.pub) \/ cache' = Without(cache, t.id) \/ cache' = cache
          BY <2>0, <2>3, WorkerFacts
        <4>2. \A i \in DOMAIN cache : plan.ids[cache[i]] = i
          BY DEF LinkInv
        <4> HIDE DEF t
        <4>3. QED
          BY <2>0, <4>1, <4>2, CacheLinks
      <3>2. QED
        BY <2>0, <2>3, <3>1, <1>0, WorkerFacts DEF LinkInv, Move, Busy
    <2>4. CASE GetAndRemove(w)
      <3>1. \A i \in DOMAIN cache' : plan.ids[cache'[i]] = i
        <4>1. cache' = With(cache, t.id, t.pub) \/ cache' = Without(cache, t.id) \/ cache' = cache
          BY <2>0, <2>4, WorkerFacts
        <4>2. \A i \in DOMAIN cache : plan.ids[cache[i]] = i
          BY DEF LinkInv
        <4> HIDE DEF t
        <4>3. QED
          BY <2>0, <4>1, <4>2, CacheLinks
      <3>2. QED
        BY <2>0, <2>4, <3>1, <1>0, WorkerFacts DEF LinkInv, Move, Busy
    <2>5. CASE ContainsKey(w)
      BY <2>0, <2>5, <1>0, WorkerFacts DEF LinkInv, Move, Busy
    <2>6. CASE PutAdd(w)
      BY <2>0, <2>6, <1>0, WorkerFacts DEF LinkInv, Move, Busy
    <2>7. CASE ReadSize(w)
      BY <2>0, <2>7, <1>0, WorkerFacts DEF LinkInv, Move, Busy
    <2>8. CASE RaiseSize(w)
      BY <2>0, <2>8, <1>0, WorkerFacts DEF LinkInv, Move, Busy
    <2>9. CASE RemoveKey(w)
      BY <2>0, <2>9, <1>0, WorkerFacts DEF LinkInv, Move, Busy
    <2>10. CASE LowerAndRoute(w)
      BY <2>0, <2>10, <1>0, WorkerFacts DEF LinkInv, Move, Busy
    <2>11. CASE Answer(w)
      BY <2>0, <2>11, <1>0, Fields DEF Answer, LinkInv, Busy, Packet, TypeOK, JobTypes
    <2>12. QED
      BY <1>6, <2>1, <2>2, <2>3, <2>4, <2>5, <2>6, <2>7, <2>8, <2>9, <2>10, <2>11 DEF WorkerStep
  <1>7. ASSUME NEW i \in Ids, Expire(i)
        PROVE  LinkInv'
    <2>1. \A k \in DOMAIN cache' : k \in DOMAIN cache /\ cache'[k] = cache[k]
      BY <1>7, CacheSteps DEF Expire
    <2>2. QED
      BY <1>0, <1>7, <2>1 DEF Expire, LinkInv, Busy
  <1>8. ASSUME NEW i \in Ids, AwaitExpired(i)
        PROVE  LinkInv'
    BY <1>0, <1>8 DEF AwaitExpired, LinkInv, Busy
  <1>9. CASE UNCHANGED vars
    BY <1>9 DEF vars, LinkInv, Busy
  <1>10. QED
    BY <1>1, <1>2, <1>3, <1>4, <1>5, <1>6, <1>7, <1>8, <1>9 DEF Next, Open

\* The packets of kind k that the client sends for the messages S.
Packets(k, c, S) == {[pk |-> k, pub |-> p, id |-> plan.ids[p], conn |-> c] : p \in S}

\* A client sends finitely many packets.
LEMMA PacketsFinite ==
    ASSUME NEW k, NEW c, NEW S \in SUBSET Pubs
    PROVE  IsFiniteSet(Packets(k, c, S))
  <1> DEFINE T == Packets(k, c, S)
             f == [p \in S |-> [pk |-> k, pub |-> p, id |-> plan.ids[p], conn |-> c]]
  <1>1. IsFiniteSet(S)
    BY FS_Subset
  <1>2. f \in Surjection(S, T)
    BY DEF Surjection, Packets
  <1> HIDE DEF f, T
  <1>3. IsFiniteSet(T)
    BY <1>1, <1>2, FS_Surjection
  <1>4. QED
    BY <1>3 DEF T

\* Every step keeps the waiting packets finite and those of messages the client has sent.
LEMMA PacketStep == TypeOK /\ JobInv /\ PacketInv /\ [Next]_vars => PacketInv'
  <1> SUFFICES ASSUME TypeOK, JobInv, PacketInv, [Next]_vars
               PROVE  PacketInv'
    OBVIOUS
  <1> USE DEF clientVars, mapVars, countVars, sessionVars
  <1>c. \A t \in Packet : t.conn \in Int
    BY DEF Packet
  <1>a. conn \in Int /\ \A t \in tasks : t.conn \in Int
    BY <1>c DEF TypeOK, PlainTypes
  <1>b. \A w \in Workers : job[w] # None => job[w].packet.conn \in Int
    BY <1>c, Fields DEF Busy
  <1>1. ASSUME NEW p \in Pubs, ClientPublish(p)
        PROVE  PacketInv'
    <2>1. IsFiniteSet(tasks')
      BY <1>1, FS_AddElement DEF ClientPublish, Arrive, PacketInv
    <2>2. state' = [state EXCEPT ![p] = "published"] /\ sent' = [sent EXCEPT ![p] = 1]
          /\ online /\ UNCHANGED <<conn, job, opening>>
      BY <1>1 DEF ClientPublish
    <2>3. \A t \in tasks' : t \in tasks \/ (t.pub = p /\ t.conn = conn)
      BY <1>1 DEF ClientPublish, Arrive
    <2>4. QED
      BY <2>1, <2>2, <2>3, <1>a, <1>b DEF PacketInv, TypeOK, PlainTypes
  <1>2. CASE Disconnect
    <2>1. tasks' \subseteq tasks
      BY <1>2 DEF Disconnect
    <2>2. IsFiniteSet(tasks')
      BY <2>1, FS_Subset DEF PacketInv
    <2>3. QED
      BY <1>2, <2>1, <2>2 DEF Disconnect, PacketInv
  <1>3. CASE CloseSession \/ OpenScan \/ OpenRemoveAll \/ OpenSize
    BY <1>3 DEF CloseSession, OpenScan, OpenRemoveAll, OpenSize, PacketInv
  <1>4. CASE OpenSession
    BY <1>4, <1>a, <1>b DEF OpenSession, PacketInv
  <1>5. CASE OpenPutWrapper
    <2> DEFINE again(q) == {p \in Pubs : state[p] = q}
               pubs == Packets("publish", conn, again("published"))
               rels == Packets("release", conn, again("released"))
    <2>1. tasks' = tasks \cup (pubs \cup rels)
      BY <1>5 DEF OpenPutWrapper, Arrive, Packets
    <2>2. IsFiniteSet(pubs) /\ IsFiniteSet(rels)
      <3>1. again("published") \in SUBSET Pubs /\ again("released") \in SUBSET Pubs
        OBVIOUS
      <3> HIDE DEF again
      <3>2. QED
        BY <3>1, PacketsFinite
    <2>3. \A t \in pubs \cup rels : t.conn = conn /\ t.pub \in Pubs /\ state[t.pub] # "idle"
      BY DEF Packets
    <2> HIDE DEF pubs, rels
    <2>4. IsFiniteSet(tasks')
      BY <2>1, <2>2, FS_Union DEF PacketInv
    <2>5. opening' = None /\ UNCHANGED <<state, conn, job>>
          /\ \A p \in Pubs : state[p] = "idle" => sent'[p] = sent[p]
      BY <1>5 DEF OpenPutWrapper
    <2>6. QED
      BY <2>1, <2>3, <2>4, <2>5, <1>a, <1>b DEF PacketInv
  <1>6. CASE Crash
    BY <1>6, FS_EmptySet DEF Crash, PacketInv
  <1>7. ASSUME NEW w \in Workers, NEW t \in tasks, Start(w, t)
        PROVE  PacketInv'
    <2>1. IsFiniteSet(tasks')
      BY <1>7, FS_RemoveElement DEF Start, PacketInv
    <2>2. \A v \in Workers : job'[v] = job[v] \/ job'[v].packet = t
      BY <1>7 DEF Start, TypeOK, JobTypes
    <2>3. tasks' \subseteq tasks /\ UNCHANGED <<state, sent, conn, opening, online>>
      BY <1>7 DEF Start
    <2>4. QED
      BY <2>1, <2>2, <2>3 DEF PacketInv
  <1>8. ASSUME NEW w \in Workers, WorkerStep(w), ~Answer(w)
        PROVE  PacketInv'
    <2>1. job[w] # None /\ tasks' = tasks /\ UNCHANGED <<state, sent, conn, opening, online>>
      BY <1>8 DEF WorkerStep, PutExt, ContainsKey, PutReplace, PutAdd, PutNew, ReadSize, RaiseSize,
         GetAndRemove, RemoveKey, LowerAndRoute
    <2>2. \E p, h : Move(w, p, h)
      BY <1>8, <2>1, WorkerFacts DEF WorkerStep, Busy
    <2>3. \A v \in Workers : job'[v] # None => job[v] # None /\ job'[v].packet = job[v].packet
      BY <2>1, <2>2 DEF Move
    <2>4. QED
      BY <2>1, <2>3 DEF PacketInv
  <1>9. ASSUME NEW w \in Workers, job[w] # None, Answer(w)
        PROVE  PacketInv'
    <2> DEFINE t == job[w].packet
               r == [t EXCEPT !.pk = "release"]
    <2>1. t \in Packet /\ r.pub = t.pub /\ r.conn = t.conn /\ t.pub \in Pubs /\ state[t.pub] # "idle"
      BY <1>9, Fields DEF Busy, Packet, PacketInv
    <2>2. /\ tasks' = tasks \/ tasks' = tasks \cup {r}
          /\ job' = [job EXCEPT ![w] = None]
          /\ \/ state' = state \/ state' = [state EXCEPT ![t.pub] = "released"]
             \/ state' = [state EXCEPT ![t.pub] = "done"]
          /\ UNCHANGED <<sent, conn, opening, online>>
          /\ online \/ tasks' = tasks
      BY <1>9 DEF Answer
    <2>3. IsFiniteSet(tasks')
      <3> HIDE DEF r
      <3>1. IsFiniteSet(tasks)
        BY DEF PacketInv
      <3>2. IsFiniteSet(tasks \cup {r})
        BY <3>1, FS_AddElement
      <3>3. QED
        BY <2>2, <3>1, <3>2
    <2>4. \A v \in Workers : job'[v] # None => job'[v] = job[v]
      BY <2>2 DEF TypeOK, JobTypes
    <2>5. \A p \in Pubs : state'[p] = "idle" => state[p] = "idle"
      BY <2>2 DEF TypeOK, PlainTypes
    <2> HIDE DEF r
    <2>6. QED
      BY <1>9, <2>1, <2>2, <2>3, <2>4, <2>5 DEF PacketInv
  <1>10. ASSUME NEW i \in Ids, Expire(i) \/ AwaitExpired(i)
         PROVE  PacketInv'
    BY <1>10 DEF Expire, AwaitExpired, PacketInv
  <1>11. CASE UNCHANGED vars
    BY <1>11 DEF vars, PacketInv
  <1>12. QED
    BY <1>1, <1>2, <1>3, <1>4, <1>5, <1>6, <1>7, <1>8, <1>9, <1>10, <1>11 DEF Next, Open, WorkerStep

\* No step takes back a clash.
LEMMA ClashStays == TypeOK /\ [Next]_vars /\ ~clash' => ~clash
  BY DEF TypeOK, Next, vars, Open, WorkerStep, ClientPublish, Disconnect, CloseSession, OpenSession,
     OpenScan, OpenRemoveAll, OpenSize, OpenPutWrapper, Crash, Start, Expire, AwaitExpired,
     PutExt, ContainsKey, PutReplace, PutAdd, PutNew, ReadSize, RaiseSize, GetAndRemove,
     RemoveKey, LowerAndRoute, Answer, Arrive, clientVars

\* Packets that arrive without a clash have ids of their own.
LEMMA ArriveApart ==
    ASSUME TypeOK, NEW ps, Arrive(ps), ~clash'
    PROVE  \A a \in ps : /\ a.id \notin expiring
                         /\ \A t \in tasks : t.id # a.id
                         /\ \A w \in Workers : Busy(w) => job[w].packet.id # a.id
  BY DEF Arrive, Outstanding, Busy, TypeOK

\* What a worker that takes a packet changes.
LEMMA StartFacts ==
    ASSUME TypeOK, NEW w \in Workers, NEW t \in tasks, Start(w, t)
    PROVE  /\ ~Busy(w) /\ Busy(w)' /\ job'[w].packet = t /\ job'[w].hand = None
           /\ \A v \in Workers : v # w => job'[v] = job[v]
           /\ tasks' = tasks \ {t}
           /\ \/ wrapper = 0 /\ job'[w].at = "answer" /\ excused' = excused \cup {t.pub}
              \/ /\ wrapper # 0 /\ excused' = excused
                 /\ \/ t.pk = "publish" /\ job'[w].at = "contains"
                    \/ t.pk = "release" /\ job'[w].at = "take"
           /\ UNCHANGED <<state, cache, keys, expiring, opening, routed, kind, plan>>
  <1> DEFINE place == CASE wrapper = 0 -> "answer"
                        [] wrapper # 0 /\ t.pk = "publish" -> "contains"
                        [] wrapper # 0 /\ t.pk = "release" -> "take"
             j == [at |-> place, packet |-> t, map |-> wrapper, s |-> 0, hand |-> None]
  <1>1. t \in Packet /\ t.pk \in {"publish", "release"}
    BY Fields
  <1>2. place \in Places
    BY <1>1 DEF Places
  <1>3. /\ wrapper = 0 => place = "answer"
        /\ wrapper # 0 /\ t.pk = "publish" => place = "contains"
        /\ wrapper # 0 /\ t.pk = "release" => place = "take"
    BY <1>1
  <1>4. job' = [job EXCEPT ![w] = j]
    BY DEF Start
  <1> HIDE DEF place
  <1>5. j \in Job /\ j.packet = t /\ j.hand = None /\ j.at = place
    BY <1>1, <1>2 DEF Job, TypeOK, PlainTypes
  <1> HIDE DEF j
  <1>6. /\ Busy(w)' /\ job'[w].packet = t /\ job'[w].hand = None /\ job'[w].at = place
        /\ \A v \in Workers : v # w => job'[v] = job[v]
    BY <1>4, <1>5, NullAssumption DEF Busy, TypeOK, JobTypes
  <1>7. QED
    BY <1>1, <1>3, <1>6 DEF Start, Busy, mapVars, sessionVars, countVars

\* What an answer to the client changes.
LEMMA AnswerFacts ==
    ASSUME TypeOK, NEW w \in Workers, Busy(w), Answer(w)
    PROVE  LET t == job[w].packet
               r == [t EXCEPT !.pk = "release"]
           IN /\ job[w].at = "answer" /\ ~Busy(w)'
              /\ \A v \in Workers : v # w => job'[v] = job[v]
              /\ r.pub = t.pub /\ r.id = t.id /\ r.pk = "release" /\ r.conn = t.conn
              /\ \/ tasks' = tasks /\ state' = state
                 \/ /\ t.pk = "publish" /\ tasks' = tasks \cup {r}
                    /\ state' = [state EXCEPT ![t.pub] = "released"] /\ online
                 \/ /\ t.pk = "release" /\ tasks' = tasks
                    /\ state' = [state EXCEPT ![t.pub] = "done"]
              /\ UNCHANGED <<cache, keys, expiring, opening, routed, excused, kind, plan>>
  <1>1. job[w].packet \in Packet /\ job[w].packet.pk \in {"publish", "release"}
    BY Fields
  <1>2. job' = [job EXCEPT ![w] = None]
    BY DEF Answer
  <1>3. ~Busy(w)' /\ \A v \in Workers : v # w => job'[v] = job[v]
    BY <1>2 DEF Busy, TypeOK, JobTypes
  <1>4. LET r == [job[w].packet EXCEPT !.pk = "release"]
        IN r.pub = job[w].packet.pub /\ r.id = job[w].packet.id /\ r.pk = "release" /\ r.conn = job[w].packet.conn
    BY <1>1 DEF Packet
  <1>5. QED
    BY <1>1, <1>3, <1>4 DEF Answer, mapVars, sessionVars, countVars

\* A handler that goes on keeps its packet; nothing else of the client changes.
LEMMA WorkerKeeps ==
    ASSUME TypeOK, JobInv, NEW w \in Workers, WorkerStep(w), ~Answer(w)
    PROVE  /\ Busy(w)
           /\ UNCHANGED <<tasks, state, expiring, opening, kind, plan, online, sent>>
           /\ \A v \in Workers : /\ Busy(v)' <=> Busy(v)
                                 /\ Busy(v) => job'[v].packet = job[v].packet
                                 /\ v # w => job'[v] = job[v]
  <1>1. Busy(w)
    BY DEF WorkerStep, Busy
  <1>2. UNCHANGED <<tasks, state, expiring, opening, kind, plan, online, sent>>
    BY DEF WorkerStep, PutExt, ContainsKey, PutReplace, PutAdd, PutNew, ReadSize, RaiseSize,
       GetAndRemove, RemoveKey, LowerAndRoute, clientVars, sessionVars, countVars
  <1>3. \E p, h : Move(w, p, h)
    BY <1>1, WorkerFacts DEF WorkerStep
  <1>4. QED
    BY <1>1, <1>2, <1>3 DEF Move, Busy

\* Without a clash, every step keeps one message and one packet per packet id.
LEMMA UniqStep ==
    ASSUME TypeOK, JobInv, PacketInv, LinkInv, UniqInv, [Next]_vars, ~clash'
    PROVE  UniqInv'
  <1> USE DEF clientVars, mapVars, countVars, sessionVars
  <1>a. state \in [Pubs -> {"idle", "published", "released", "done"}]
    BY DEF TypeOK, PlainTypes
  <1>1. ASSUME NEW p \in Pubs, ClientPublish(p)
        PROVE  UniqInv'
    <2> DEFINE a == [pk |-> "publish", pub |-> p, id |-> plan.ids[p], conn |-> conn]
    <2>1. /\ Arrive({a}) /\ state' = [state EXCEPT ![p] = "published"] /\ state[p] = "idle"
          /\ \A q \in Pubs : plan.ids[q] = plan.ids[p] => state[q] \in {"idle", "done"}
          /\ UNCHANGED <<job, plan>>
      BY <1>1 DEF ClientPublish
    <2>2. /\ \A t \in tasks : t.id # plan.ids[p]
          /\ \A w \in Workers : Busy(w) => job[w].packet.id # plan.ids[p]
      <3>1. a.id = plan.ids[p]
        OBVIOUS
      <3> HIDE DEF a
      <3>2. QED
        BY <2>1, <3>1, ArriveApart
    <2>3. tasks' = tasks \cup {a} /\ a.id = plan.ids[p] /\ a.pub = p /\ a.pk = "publish"
      BY <2>1 DEF Arrive
    <2> HIDE DEF a
    <2>4. \A v, u \in Pubs : plan'.ids[v] = plan'.ids[u] =>
             \/ v = u
             \/ state'[v] \notin {"published", "released"} \/ state'[u] \notin {"published", "released"}
      BY <2>1, <1>a DEF UniqInv
    <2>5. QED
      BY <2>1, <2>2, <2>3, <2>4, <1>a, Fields DEF UniqInv, PacketInv, Busy
  <1>2. CASE Disconnect \/ CloseSession \/ OpenSession \/ OpenScan \/ OpenRemoveAll \/ OpenSize
    <2>1. tasks' \subseteq tasks /\ UNCHANGED <<state, job, plan>>
      BY <1>2 DEF Disconnect, CloseSession, OpenSession, OpenScan, OpenRemoveAll, OpenSize
    <2>2. QED
      BY <2>1 DEF UniqInv, Busy
  <1>3. CASE OpenPutWrapper
    <2> DEFINE again(q) == {p \in Pubs : state[p] = q}
               new == Packets("publish", conn, again("published")) \cup Packets("release", conn, again("released"))
    <2>1. Arrive(new) /\ UNCHANGED <<state, job, plan>>
      BY <1>3 DEF OpenPutWrapper, Packets
    <2>2. \A a \in new : /\ a.pub \in Pubs /\ a.id = plan.ids[a.pub] /\ a.conn = conn
                         /\ \/ a.pk = "publish" /\ state[a.pub] = "published"
                            \/ a.pk = "release" /\ state[a.pub] = "released"
      BY DEF Packets
    <2>3. \A a, b \in new : a.id = b.id => a = b
      <3> SUFFICES ASSUME NEW a \in new, NEW b \in new, a.id = b.id PROVE a = b
        OBVIOUS
      <3>1. a.pub = b.pub
        <4> HIDE DEF new
        <4>1. QED
          BY <2>2 DEF UniqInv
      <3>2. a.pk = b.pk
        BY <2>2, <3>1
      <3>3. QED
        BY <3>1, <3>2, <2>2 DEF Packets
    <2>4. tasks' = tasks \cup new
      BY <2>1 DEF Arrive
    <2>5. /\ \A a \in new, t \in tasks : t.id # a.id
          /\ \A a \in new, w \in Workers : Busy(w) => job[w].packet.id # a.id
      BY <2>1, ArriveApart
    <2> HIDE DEF new
    <2>6. QED
      BY <2>1, <2>2, <2>3, <2>4, <2>5 DEF UniqInv, Busy
  <1>4. CASE Crash
    BY <1>4 DEF Crash, UniqInv, Busy
  <1>5. ASSUME NEW w \in Workers, NEW t \in tasks, Start(w, t)
        PROVE  UniqInv'
    BY <1>5, StartFacts DEF UniqInv, Busy
  <1>6. ASSUME NEW w \in Workers, WorkerStep(w), ~Answer(w)
        PROVE  UniqInv'
    BY <1>6, WorkerKeeps DEF UniqInv
  <1>7. ASSUME NEW w \in Workers, Busy(w), Answer(w)
        PROVE  UniqInv'
    <2> DEFINE t == job[w].packet
               r == [t EXCEPT !.pk = "release"]
    <2>1. /\ ~Busy(w)' /\ \A v \in Workers : v # w => job'[v] = job[v]
          /\ r.pub = t.pub /\ r.id = t.id /\ r.pk = "release" /\ plan' = plan
          /\ t.pub \in Pubs /\ t.id = plan.ids[t.pub]
      BY <1>7, AnswerFacts, Fields DEF LinkInv
    <2>2. /\ \A u \in tasks : u.pub # t.pub
          /\ \A v \in Workers : v # w /\ Busy(v) => job[v].packet.pub # t.pub
      BY <1>7, <2>1 DEF UniqInv, LinkInv
    <2>3. CASE tasks' = tasks /\ state' = state
      BY <2>1, <2>3 DEF UniqInv, Busy
    <2>4. CASE /\ t.pk = "publish" /\ tasks' = tasks \cup {r}
               /\ state' = [state EXCEPT ![t.pub] = "released"]
      <3>1. state[t.pub] = "published"
        BY <1>7, <2>4 DEF UniqInv
      <3> HIDE DEF r
      <3>2. \A v, u \in Pubs : plan'.ids[v] = plan'.ids[u] =>
               \/ v = u
               \/ state'[v] \notin {"published", "released"} \/ state'[u] \notin {"published", "released"}
        BY <2>1, <2>4, <3>1, <1>a DEF UniqInv
      <3>3. \A u \in tasks : u.pub \in Pubs /\ state'[u.pub] = state[u.pub]
        BY <2>2, <2>4, <1>a, Fields
      <3>4. \A v \in Workers : v # w /\ Busy(v) => state'[job[v].packet.pub] = state[job[v].packet.pub]
        BY <2>2, <2>4, <1>a, Fields
      <3>5. state'[t.pub] = "released"
        BY <2>1, <2>4, <1>a
      <3> HIDE DEF t
      <3>6. /\ \A x, u \in tasks' : x.id = u.id => x = u
            /\ \A x \in tasks', v \in Workers : Busy(v)' => job'[v].packet.id # x.id
        BY <1>7, <2>1, <2>4 DEF UniqInv, Busy, t
      <3>7. /\ \A x \in tasks' : state'[x.pub] = IF x.pk = "publish" THEN "published" ELSE "released"
            /\ \A v \in Workers : Busy(v)' =>
                 state'[job'[v].packet.pub] = IF job'[v].packet.pk = "publish" THEN "published" ELSE "released"
        BY <2>1, <2>4, <3>3, <3>4, <3>5 DEF UniqInv, Busy
      <3>8. QED
        BY <2>1, <3>2, <3>6, <3>7 DEF UniqInv, Busy
    <2>5. CASE t.pk = "release" /\ tasks' = tasks /\ state' = [state EXCEPT ![t.pub] = "done"]
      BY <2>1, <2>2, <2>5, <1>a, Fields DEF UniqInv, Busy
    <2>6. QED
      BY <1>7, <2>3, <2>4, <2>5, AnswerFacts
  <1>8. ASSUME NEW i \in Ids, Expire(i) \/ AwaitExpired(i)
        PROVE  UniqInv'
    BY <1>8 DEF Expire, AwaitExpired, UniqInv, Busy
  <1>9. CASE UNCHANGED vars
    BY <1>9 DEF vars, UniqInv, Busy
  <1>10. QED
    BY <1>1, <1>2, <1>3, <1>4, <1>5, <1>6, <1>7, <1>8, <1>9 DEF Next, Open, WorkerStep, Busy

\* Without a clash, every step keeps the key set in line with the cache.
LEMMA KeyStep ==
    ASSUME TypeOK, JobInv, PacketInv, LinkInv, UniqInv, KeyInv, [Next]_vars, ~clash'
    PROVE  KeyInv'
  <1> USE DEF clientVars, mapVars, countVars, sessionVars
  <1>a. opening # None => opening \in Opening
    BY DEF TypeOK, PlainTypes
  <1>1. ASSUME NEW p \in Pubs, ClientPublish(p)
        PROVE  KeyInv'
    <2> DEFINE a == [pk |-> "publish", pub |-> p, id |-> plan.ids[p], conn |-> conn]
    <2>1. Arrive({a}) /\ online /\ UNCHANGED <<job, kind, cache, keys, expiring, opening>>
      BY <1>1 DEF ClientPublish
    <2>2. opening = None
      BY <2>1 DEF PacketInv
    <2> HIDE DEF a
    <2>3. a.id \notin expiring /\ tasks' = tasks \cup {a}
      BY <2>1, ArriveApart DEF Arrive
    <2>4. QED
      BY <2>1, <2>2, <2>3 DEF KeyInv, Busy
  <1>2. CASE Disconnect \/ CloseSession
    <2>1. tasks' \subseteq tasks /\ UNCHANGED <<job, kind, cache, keys, expiring, opening>>
      BY <1>2 DEF Disconnect, CloseSession
    <2>2. QED
      BY <2>1 DEF KeyInv, Busy
  <1>3. CASE OpenSession
    <2>1. UNCHANGED <<tasks, job, kind, cache, keys, expiring>>
      BY <1>3 DEF OpenSession
    <2>2. wrapper = 0 => tasks = {} /\ \A w \in Workers : ~Busy(w)
      <3>1. wrapper = 0 => Outstanding = {}
        BY <1>3 DEF OpenSession, TypeOK
      <3>2. QED
        BY <3>1 DEF Outstanding, Busy
    <2>3. \/ wrapper # 0 /\ opening'.at = "putWrapper"
          \/ wrapper = 0 /\ opening'.removes = {}
      BY <1>3 DEF OpenSession
    <2>4. QED
      BY <2>1, <2>2, <2>3 DEF KeyInv, Busy
  <1>4. CASE OpenScan
    <2>1. /\ UNCHANGED <<tasks, job, kind, cache, keys, expiring>>
          /\ opening # None /\ opening.at = "scan"
      BY <1>4 DEF OpenScan
    <2>2. opening'.removes = keys \ DOMAIN cache
      BY <1>4, <1>a DEF OpenScan, Opening
    <2>3. QED
      BY <2>1, <2>2 DEF KeyInv, Busy
  <1>5. CASE OpenRemoveAll
    <2>1. /\ UNCHANGED <<tasks, job, kind, cache, expiring>> /\ keys' = keys \ opening.removes
          /\ opening # None /\ opening.at = "removeAll"
      BY <1>5 DEF OpenRemoveAll
    <2>2. opening'.removes = {}
      BY <1>5, <1>a DEF OpenRemoveAll, Opening
    <2>3. QED
      BY <2>1, <2>2 DEF KeyInv, Busy
  <1>6. CASE OpenSize
    <2>1. UNCHANGED <<tasks, job, kind, cache, keys, expiring>> /\ opening'.at = "putWrapper"
      BY <1>6, <1>a DEF OpenSize, Opening
    <2>2. QED
      BY <2>1 DEF KeyInv, Busy
  <1>7. CASE OpenPutWrapper
    <2> DEFINE again(q) == {p \in Pubs : state[p] = q}
               new == Packets("publish", conn, again("published")) \cup Packets("release", conn, again("released"))
    <2>1. Arrive(new) /\ UNCHANGED <<job, kind, cache, keys, expiring>> /\ opening' = None
      BY <1>7 DEF OpenPutWrapper, Packets
    <2> HIDE DEF new
    <2>2. tasks' = tasks \cup new /\ \A a \in new : a.id \notin expiring
      BY <2>1, ArriveApart DEF Arrive
    <2>3. QED
      BY <2>1, <2>2 DEF KeyInv, Busy
  <1>8. CASE Crash
    BY <1>8 DEF Crash, KeyInv, Busy
  <1>9. ASSUME NEW w \in Workers, NEW t \in tasks, Start(w, t)
        PROVE  KeyInv'
    BY <1>9, StartFacts DEF KeyInv, Busy
  <1>10. ASSUME NEW w \in Workers, WorkerStep(w), ~Answer(w)
         PROVE  KeyInv'
    <2> DEFINE t == job[w].packet
    <2>1. /\ Busy(w) /\ UNCHANGED <<tasks, expiring, opening, kind>>
          /\ \A v \in Workers : /\ Busy(v)' <=> Busy(v)
                                /\ Busy(v) => job'[v].packet = job[v].packet
                                /\ v # w => job'[v] = job[v]
      BY <1>10, WorkerKeeps
    <2>2. \A v \in Workers : v # w /\ Busy(v) => job[v].packet.id # t.id
      BY <2>1 DEF UniqInv
    <2>3. ~(opening # None /\ opening.at \in {"scan", "removeAll", "size"})
      BY <2>1 DEF KeyInv
    <2>4. t.pk = "publish" => t.id \notin expiring
      BY <2>1 DEF KeyInv
    <2>5. ASSUME kind = "persistent" => DOMAIN cache' \subseteq keys',
                 \A v \in Workers : v # w /\ Busy(v) =>
                   /\ job[v].packet.id \in keys => job[v].packet.id \in keys'
                   /\ job[v].packet.id \in DOMAIN cache <=> job[v].packet.id \in DOMAIN cache',
                 job'[w].at = "put" => t.id \in keys',
                 job'[w].at = "replace" => t.id \in DOMAIN cache',
                 job'[w].at = "unset" => t.id \notin DOMAIN cache',
                 \A i \in expiring : i \notin DOMAIN cache'
          PROVE  KeyInv'
      BY <2>1, <2>3, <2>5 DEF KeyInv
    <2>6. \A i \in expiring : i \notin DOMAIN cache
      BY DEF KeyInv
    <2>7. kind = "persistent" => DOMAIN cache \subseteq keys
      BY DEF KeyInv
    <2>8. CASE ContainsKey(w) \/ ReadSize(w) \/ RaiseSize(w) \/ LowerAndRoute(w)
      BY <2>1, <2>5, <2>6, <2>7, <2>8, WorkerFacts DEF Move
    <2>9. CASE PutAdd(w)
      BY <2>1, <2>5, <2>6, <2>7, <2>9, WorkerFacts DEF Move
    <2>10. CASE PutExt(w)
      <3>1. t.pk = "publish" /\ kind = "transient" /\ job'[w].at = "answer" /\ keys' = keys
        BY <2>1, <2>10, WorkerFacts DEF LinkInv, Publish, Move
      <3>2. DOMAIN cache' = DOMAIN cache \cup {t.id} \/ cache' = cache
        BY <2>1, <2>10, WorkerFacts DEF With
      <3>3. QED
        BY <2>2, <2>4, <2>5, <2>6, <3>1, <3>2
    <2>11. CASE PutReplace(w)
      <3>1. t.pk = "publish" /\ job'[w].at = "answer" /\ keys' = keys /\ t.id \in DOMAIN cache
        BY <2>1, <2>11, WorkerFacts DEF LinkInv, Publish, Move, KeyInv
      <3>2. DOMAIN cache' = DOMAIN cache \cup {t.id}
        BY <2>1, <2>11, WorkerFacts DEF With
      <3>3. QED
        BY <2>2, <2>4, <2>5, <2>6, <2>7, <3>1, <3>2
    <2>12. CASE PutNew(w)
      <3>1. t.pk = "publish" /\ job'[w].at = "read" /\ keys' = keys /\ t.id \in keys
        BY <2>1, <2>12, WorkerFacts DEF LinkInv, Publish, Move, KeyInv
      <3>2. DOMAIN cache' = DOMAIN cache \cup {t.id}
        BY <2>1, <2>12, WorkerFacts DEF With
      <3>3. QED
        BY <2>2, <2>4, <2>5, <2>6, <2>7, <3>1, <3>2
    <2>13. CASE GetAndRemove(w)
      <3>1. job'[w].at \in {"lower", "unset"} /\ keys' = keys
        BY <2>1, <2>13, WorkerFacts DEF Move
      <3>2. DOMAIN cache' = DOMAIN cache \ {t.id}
        BY <2>1, <2>13, WorkerFacts DEF Without, Restrict
      <3>3. QED
        BY <2>2, <2>5, <2>6, <2>7, <3>1, <3>2
    <2>14. CASE RemoveKey(w)
      <3>1. job'[w].at \in {"answer", "load"} /\ keys' = keys \ {t.id} /\ t.id \notin DOMAIN cache /\ cache' = cache
        BY <2>1, <2>14, WorkerFacts DEF Move, KeyInv
      <3>3. QED
        BY <2>2, <2>5, <2>6, <2>7, <3>1
    <2>15. QED
      BY <1>10, <2>8, <2>9, <2>10, <2>11, <2>12, <2>13, <2>14 DEF WorkerStep
  <1>11. ASSUME NEW w \in Workers, Busy(w), Answer(w)
         PROVE  KeyInv'
    <2> DEFINE t == job[w].packet
               r == [t EXCEPT !.pk = "release"]
    <2>1. /\ ~Busy(w)' /\ \A v \in Workers : v # w => job'[v] = job[v]
          /\ r.pk = "release"
          /\ tasks' = tasks \/ tasks' = tasks \cup {r}
          /\ UNCHANGED <<kind, cache, keys, expiring, opening>>
      BY <1>11, AnswerFacts
    <2> HIDE DEF r
    <2>2. ~(opening # None /\ opening.at \in {"scan", "removeAll", "size"})
      BY <1>11 DEF KeyInv
    <2>3. QED
      BY <1>11, <2>1, <2>2 DEF KeyInv, Busy
  <1>12. ASSUME NEW i \in Ids, Expire(i)
         PROVE  KeyInv'
    <2>1. DOMAIN cache' = DOMAIN cache \ {i}
      BY <1>12 DEF Expire, Without, Restrict
    <2>2. \A t \in Outstanding : t.pk = "publish" => t.id # i
      BY <1>12 DEF Expire
    <2>3. /\ \A t \in tasks : t.id = i => t.pk # "publish"
          /\ \A w \in Workers : Busy(w) /\ job[w].packet.id = i => job[w].packet.pk # "publish"
      BY <2>2 DEF Outstanding, Busy
    <2>4. expiring' \subseteq expiring \cup {i} /\ UNCHANGED <<kind, tasks, job, keys, opening>>
      BY <1>12 DEF Expire
    <2>5. \A w \in Workers : Busy(w) /\ job[w].at = "replace" => job[w].packet.id # i
      BY <2>3 DEF LinkInv, Publish
    <2>6. QED
      BY <2>1, <2>3, <2>4, <2>5 DEF KeyInv, Busy
  <1>13. ASSUME NEW i \in Ids, AwaitExpired(i)
         PROVE  KeyInv'
    <2>1. /\ i \in expiring /\ expiring' = expiring \ {i} /\ keys' = keys \ {i}
          /\ UNCHANGED <<kind, tasks, job, cache, opening>>
      BY <1>13 DEF AwaitExpired
    <2>2. \A w \in Workers : Busy(w) /\ job[w].at = "put" => job[w].packet.id # i
      BY <2>1 DEF LinkInv, Publish, KeyInv
    <2>3. QED
      BY <2>1, <2>2 DEF KeyInv, Busy
  <1>14. CASE UNCHANGED vars
    BY <1>14 DEF vars, KeyInv, Busy
  <1>15. QED
    BY <1>1, <1>2, <1>3, <1>4, <1>5, <1>6, <1>7, <1>8, <1>9, <1>10, <1>11, <1>12, <1>13, <1>14
       DEF Next, Open, WorkerStep, Busy

\* No message moves, and excuses are only added.
LEMMA OnceSame ==
    ASSUME OnceInv, excused \subseteq excused', UNCHANGED <<cache, routed, plan, state>>,
           \A v \in Workers : /\ Busy(v)' <=> Busy(v)
                              /\ Busy(v) => job'[v].packet = job[v].packet /\ job'[v].hand = job[v].hand,
           \A v \in Workers : Busy(v) => OnceJob(v)'
    PROVE  OnceInv'
  <1>1. \A p \in Pubs : (IsKept(p)' <=> IsKept(p)) /\ (IsHeld(p)' <=> IsHeld(p))
    BY DEF IsKept, IsHeld
  <1>2. \A p \in Pubs : OncePub(p)'
    BY <1>1 DEF OnceInv, OncePub
  <1>3. QED
    BY <1>2 DEF OnceInv

\* Without a clash, every step keeps a message in one place at most.
LEMMA OnceStep ==
    ASSUME TypeOK, JobInv, PacketInv, LinkInv, UniqInv, KeyInv, OnceInv, [Next]_vars, ~clash'
    PROVE  OnceInv'
  <1> USE DEF clientVars, mapVars, countVars, sessionVars
  <1>a. /\ state \in [Pubs -> {"idle", "published", "released", "done"}]
        /\ routed \in [Pubs -> Nat] /\ plan.ids \in [Pubs -> Ids]
    BY PlanTypes DEF TypeOK, PlainTypes
  <1>1. ASSUME NEW p \in Pubs, ClientPublish(p)
        PROVE  OnceInv'
    <2>1. /\ state' = [state EXCEPT ![p] = "published"] /\ state[p] = "idle"
          /\ UNCHANGED <<job, cache, routed, excused, plan>>
      BY <1>1 DEF ClientPublish
    <2>2. \A q \in Pubs : (IsKept(q)' <=> IsKept(q)) /\ (IsHeld(q)' <=> IsHeld(q))
      BY <2>1 DEF IsKept, IsHeld, Busy
    <2>3. \A q \in Pubs : OncePub(q)'
      BY <2>1, <2>2, <1>a DEF OnceInv, OncePub
    <2>4. \A w \in Workers : Busy(w)' => OnceJob(w)'
      BY <2>1, <2>2, Fields DEF OnceInv, OnceJob, Busy
    <2>5. QED
      BY <2>3, <2>4 DEF OnceInv
  <1>2. CASE \/ Disconnect \/ CloseSession \/ OpenSession \/ Open \/ UNCHANGED vars
             \/ \E i \in Ids : AwaitExpired(i)
    <2>1. UNCHANGED <<state, job, cache, routed, excused, plan>>
      BY <1>2 DEF Disconnect, CloseSession, OpenSession, Open, OpenScan, OpenRemoveAll, OpenSize,
         OpenPutWrapper, vars, AwaitExpired
    <2>2. QED
      BY <2>1 DEF OnceInv, OncePub, OnceJob, IsKept, IsHeld, Busy
  <1>3. CASE Crash
    <2>1. /\ UNCHANGED <<state, cache, routed, plan>> /\ \A w \in Workers : ~Busy(w)'
          /\ excused \subseteq excused'
      BY <1>3 DEF Crash, Busy
    <2>2. \A p \in Pubs : IsHeld(p) => p \in excused'
      BY <1>3 DEF Crash, IsHeld, Busy
    <2>3. \A p \in Pubs : (IsKept(p)' <=> IsKept(p)) /\ ~IsHeld(p)'
      BY <2>1 DEF IsKept, IsHeld
    <2>4. QED
      BY <2>1, <2>2, <2>3 DEF OnceInv, OncePub
  <1>4. ASSUME NEW w \in Workers, NEW t \in tasks, Start(w, t)
        PROVE  OnceInv'
    <2>1. /\ ~Busy(w) /\ Busy(w)' /\ job'[w].packet = t /\ job'[w].hand = None
          /\ \A v \in Workers : v # w => job'[v] = job[v]
          /\ \/ t.pub \in excused'
             \/ t.pk = "publish" /\ job'[w].at = "contains"
             \/ t.pk = "release" /\ job'[w].at = "take"
          /\ excused \subseteq excused' /\ UNCHANGED <<state, cache, routed, plan>>
      BY <1>4, StartFacts
    <2>2. \A p \in Pubs : (IsKept(p)' <=> IsKept(p)) /\ (IsHeld(p)' <=> IsHeld(p))
      BY <2>1 DEF IsKept, IsHeld, Busy
    <2>3. \A p \in Pubs : OncePub(p)'
      BY <2>1, <2>2 DEF OnceInv, OncePub
    <2>4. \A v \in Workers : Busy(v)' => OnceJob(v)'
      BY <2>1, <2>2, Fields DEF OnceInv, OnceJob, Busy
    <2>5. QED
      BY <2>3, <2>4 DEF OnceInv
  <1>5. ASSUME NEW w \in Workers, Busy(w), Answer(w)
        PROVE  OnceInv'
    <2> DEFINE t == job[w].packet
    <2>1. /\ ~Busy(w)' /\ \A v \in Workers : v # w => job'[v] = job[v]
          /\ \/ state' = state
             \/ t.pk = "publish" /\ state' = [state EXCEPT ![t.pub] = "released"]
             \/ t.pk = "release" /\ state' = [state EXCEPT ![t.pub] = "done"]
          /\ job[w].at = "answer" /\ UNCHANGED <<cache, routed, excused, plan>>
      BY <1>5, AnswerFacts
    <2>2. job[w].hand = None /\ t.pub \in Pubs
      BY <1>5, <2>1, Fields DEF LinkInv
    <2>3. \A p \in Pubs : (IsKept(p)' <=> IsKept(p)) /\ (IsHeld(p)' <=> IsHeld(p))
      BY <2>1, <2>2 DEF IsKept, IsHeld, Busy
    <2>4. \A v \in Workers : Busy(v)' => OnceJob(v)'
      BY <2>1, <2>3, Fields DEF OnceInv, OnceJob, Busy
    <2>5. /\ t.pk = "publish" => t.pub \in excused \/ IsKept(t.pub)
          /\ t.pk = "release" => t.pub \in excused \/ routed[t.pub] = 1
      BY <1>5, <2>1, <2>2 DEF OnceInv, OnceJob
    <2>6. \A p \in Pubs : OncePub(p)'
      <3> HIDE DEF t
      <3>1. \A p \in Pubs : p # t.pub => state'[p] = state[p]
        BY <2>1, <1>a
      <3>2. /\ state'[t.pub] = state[t.pub] \/ state'[t.pub] = "released" \/ state'[t.pub] = "done"
            /\ state'[t.pub] = "released" => state[t.pub] = "released" \/ t.pub \in excused \/ IsKept(t.pub)
            /\ state'[t.pub] = "done" => state[t.pub] = "done" \/ t.pub \in excused \/ routed[t.pub] = 1
        BY <2>1, <2>2, <2>5, <1>a
      <3>3. QED
        BY <2>1, <2>2, <2>3, <3>1, <3>2 DEF OnceInv, OncePub
    <2>7. QED
      BY <2>4, <2>6 DEF OnceInv
  <1>6. ASSUME NEW i \in Ids, Expire(i)
        PROVE  OnceInv'
    <2>1. /\ excused' = excused \cup {cache[i]} /\ UNCHANGED <<state, job, routed, plan>>
          /\ DOMAIN cache' = DOMAIN cache \ {i} /\ \A k \in DOMAIN cache' : cache'[k] = cache[k]
      BY <1>6 DEF Expire, Without, Restrict
    <2>2. \A p \in Pubs : /\ IsHeld(p)' <=> IsHeld(p)
                          /\ IsKept(p)' => IsKept(p)
                          /\ IsKept(p) => IsKept(p)' \/ p \in excused'
      BY <2>1 DEF IsKept, IsHeld, Busy
    <2>3. \A p \in Pubs : OncePub(p)'
      BY <2>1, <2>2 DEF OnceInv, OncePub
    <2>4. \A v \in Workers : Busy(v)' => OnceJob(v)'
      BY <2>1, <2>2, Fields DEF OnceInv, OnceJob, Busy
    <2>5. QED
      BY <2>3, <2>4 DEF OnceInv
  <1>7. ASSUME NEW w \in Workers, WorkerStep(w), ~Answer(w)
        PROVE  OnceInv'
    <2> DEFINE t == job[w].packet
    <2>1. /\ Busy(w) /\ UNCHANGED <<plan, state>>
          /\ \A v \in Workers : /\ Busy(v)' <=> Busy(v)
                                /\ Busy(v) => job'[v].packet = job[v].packet
                                /\ v # w => job'[v] = job[v]
      BY <1>7, WorkerKeeps
    <2>2. /\ t.pub \in Pubs /\ t.id = plan.ids[t.pub] /\ t.pk \in {"publish", "release"}
          /\ state[t.pub] = IF t.pk = "publish" THEN "published" ELSE "released"
      BY <2>1, Fields DEF LinkInv, UniqInv
    <2>3. \A v \in Workers : v # w /\ Busy(v) =>
             /\ job[v].packet.pub \in Pubs /\ plan.ids[job[v].packet.pub] # t.id
             /\ job[v].hand # None => job[v].hand \in Pubs /\ plan.ids[job[v].hand] # t.id
      BY <2>1, Fields DEF LinkInv, UniqInv
    <2>4. CASE ContainsKey(w) \/ PutAdd(w) \/ ReadSize(w) \/ RaiseSize(w) \/ RemoveKey(w)
      <3>1. /\ excused \subseteq excused' /\ UNCHANGED <<cache, routed>> /\ job'[w].hand = job[w].hand
            /\ job'[w].at \in {"raise", "answer"} /\ t.pk = "publish" =>
                 t.pub \in excused' \/ job[w].at \in {"read", "raise"}
            /\ t.pk = "release" => job[w].at # "take"
            /\ job'[w].at # "read"
        BY <2>1, <2>4, WorkerFacts DEF Move, LinkInv, Publish, Release
      <3>2. \A p \in Pubs : IsKept(p)' <=> IsKept(p)
        BY <2>1, <3>1 DEF IsKept
      <3>3. \A v \in Workers : Busy(v) => OnceJob(v)'
        BY <2>1, <2>2, <2>3, <3>1, <3>2 DEF OnceInv, OnceJob
      <3>4. QED
        BY <2>1, <3>1, <3>3, OnceSame
    <2>5. CASE PutExt(w) \/ PutReplace(w) \/ PutNew(w)
      <3>1. /\ t.pk = "publish" /\ job'[w].hand = job[w].hand /\ routed' = routed
            /\ \/ cache' = With(cache, t.id, t.pub) /\ excused' = excused
               \/ cache' = cache /\ excused' = excused \cup {t.pub}
        BY <2>1, <2>5, WorkerFacts DEF Move, LinkInv, Publish
      <3>2. CASE cache' = cache
        <4>1. excused \subseteq excused' /\ (t.pub \in excused' \/ cache' = With(cache, t.id, t.pub))
          BY <3>1
        <4>2. t.pub \in excused' \/ IsKept(t.pub)'
          BY <4>1, <2>1, <2>2 DEF IsKept, With
        <4>3. \A p \in Pubs : IsKept(p)' <=> IsKept(p)
          BY <2>1, <3>2 DEF IsKept
        <4>4. \A v \in Workers : Busy(v) => OnceJob(v)'
          BY <2>1, <2>2, <2>3, <3>1, <4>1, <4>2, <4>3 DEF OnceInv, OnceJob
        <4>5. QED
          BY <2>1, <3>1, <3>2, <4>1, <4>4, OnceSame
      <3>3. CASE cache' = With(cache, t.id, t.pub) /\ excused' = excused
        <4>1. /\ DOMAIN cache' = DOMAIN cache \cup {t.id} /\ cache'[t.id] = t.pub
              /\ \A k \in DOMAIN cache : k # t.id => cache'[k] = cache[k]
          BY <3>3 DEF With
        <4>2. \A p \in Pubs : /\ IsHeld(p)' <=> IsHeld(p)
                              /\ plan.ids[p] # t.id => (IsKept(p)' <=> IsKept(p))
                              /\ plan.ids[p] = t.id => (IsKept(p)' <=> p = t.pub)
          BY <2>1, <3>1, <4>1 DEF IsHeld, IsKept
        <4>3. \A p \in Pubs : plan.ids[p] = t.id /\ p # t.pub => state[p] \notin {"published", "released"}
          BY <2>2, <3>1 DEF UniqInv
        <4>4. ASSUME NEW p \in Pubs PROVE OncePub(p)'
          <5>1. CASE plan.ids[p] # t.id
            BY <2>1, <3>1, <3>3, <4>2, <5>1 DEF OnceInv, OncePub
          <5>2. CASE p = t.pub
            BY <2>1, <2>2, <3>1, <3>3, <4>2, <5>2 DEF OnceInv, OncePub
          <5>3. CASE plan.ids[p] = t.id /\ p # t.pub
            BY <2>1, <3>1, <3>3, <4>2, <4>3, <5>3 DEF OnceInv, OncePub
          <5>4. QED
            BY <5>1, <5>2, <5>3
        <4>5. ASSUME NEW v \in Workers, Busy(v)' PROVE OnceJob(v)'
          <5>1. CASE v = w
            BY <2>1, <2>2, <3>1, <4>2, <5>1 DEF OnceJob
          <5>2. CASE v # w
            BY <2>1, <2>3, <3>1, <3>3, <4>2, <4>5, <5>2 DEF OnceJob, OnceInv
          <5>3. QED
            BY <5>1, <5>2
        <4>6. QED
          BY <4>4, <4>5 DEF OnceInv
      <3>4. QED
        BY <3>1, <3>2, <3>3
    <2>6. CASE GetAndRemove(w)
      <3> DEFINE h == IF t.id \in DOMAIN cache THEN cache[t.id] ELSE None
      <3>1. /\ t.pk = "release" /\ job[w].at = "take" /\ job'[w].hand = h
            /\ cache' = Without(cache, t.id) /\ UNCHANGED <<routed, excused>>
        BY <2>1, <2>6, WorkerFacts DEF Move, LinkInv, Release
      <3>2. job[w].hand = None
        BY <2>1, <3>1 DEF LinkInv
      <3>3. DOMAIN cache' = DOMAIN cache \ {t.id} /\ \A k \in DOMAIN cache' : cache'[k] = cache[k]
        BY <3>1 DEF Without, Restrict
      <3>4. \A p \in Pubs : /\ plan.ids[p] # t.id => (IsKept(p)' <=> IsKept(p)) /\ p # h
                            /\ plan.ids[p] = t.id => ~IsKept(p)' /\ (IsKept(p) <=> h = p) /\ ~IsHeld(p)
        <4>1. \A p \in Pubs : plan.ids[p] # t.id => p # h
          BY <2>1 DEF LinkInv
        <4>2. \A p \in Pubs : plan.ids[p] = t.id => ~IsHeld(p)
          BY <2>3, <3>2 DEF IsHeld
        <4>3. \A p \in Pubs : plan.ids[p] = t.id => (IsKept(p) <=> h = p)
          BY DEF IsKept
        <4>4. \A p \in Pubs : plan.ids[p] = t.id => ~IsKept(p)'
          BY <2>1, <3>3 DEF IsKept
        <4>5. \A p \in Pubs : plan.ids[p] # t.id => (IsKept(p)' <=> IsKept(p))
          BY <2>1, <3>3 DEF IsKept
        <4>6. QED
          BY <4>1, <4>2, <4>3, <4>4, <4>5
      <3>5. \A p \in Pubs : IsHeld(p)' <=> IsHeld(p) \/ p = h
        BY <2>1, <3>1, <3>2 DEF IsHeld
      <3>6. \A p \in Pubs : plan.ids[p] = t.id => state[p] # "published"
        BY <2>2, <3>1 DEF UniqInv
      <3> HIDE DEF h
      <3>7. ASSUME NEW p \in Pubs PROVE OncePub(p)'
        <4>1. CASE plan.ids[p] # t.id
          BY <2>1, <3>1, <3>4, <3>5, <4>1 DEF OnceInv, OncePub
        <4>2. CASE plan.ids[p] = t.id
          BY <2>1, <3>1, <3>4, <3>5, <3>6, <4>2 DEF OnceInv, OncePub
        <4>3. QED
          BY <4>1, <4>2
      <3>8. t.pub \in excused \/ routed[t.pub] = 1 \/ h = t.pub
        BY <2>2, <3>1, <3>4 DEF OnceInv, OncePub
      <3>9. ASSUME NEW v \in Workers, Busy(v)' PROVE OnceJob(v)'
        <4>1. CASE v = w
          BY <2>1, <3>1, <3>8, <4>1 DEF OnceJob
        <4>2. CASE v # w
          BY <2>1, <2>3, <3>1, <3>4, <3>9, <4>2 DEF OnceJob, OnceInv
        <4>3. QED
          BY <4>1, <4>2
      <3>10. QED
        BY <3>7, <3>9 DEF OnceInv
    <2>7. CASE LowerAndRoute(w)
      <3> DEFINE m == job[w].hand
      <3>1. /\ t.pk = "release" /\ job[w].at = "lower" /\ job'[w].hand = None
            /\ routed' = IF m = None THEN routed ELSE [routed EXCEPT ![m] = @ + 1]
            /\ UNCHANGED <<cache, excused>>
        BY <2>1, <2>7, WorkerFacts DEF Move, LinkInv, Release
      <3>2. m # None => m \in Pubs /\ plan.ids[m] = t.id /\ IsHeld(m)
        BY <2>1, Fields DEF LinkInv, IsHeld
      <3>3. \A p \in Pubs : /\ IsKept(p)' <=> IsKept(p)
                            /\ IsHeld(p)' <=> IsHeld(p) /\ p # m
        <4>1. \A p \in Pubs : IsKept(p)' <=> IsKept(p)
          BY <2>1, <3>1 DEF IsKept
        <4>2. \A p \in Pubs : IsHeld(p)' => IsHeld(p) /\ p # m
          BY <2>1, <2>3, <3>1, <3>2 DEF IsHeld
        <4>3. \A p \in Pubs : IsHeld(p) /\ p # m => IsHeld(p)'
          BY <2>1 DEF IsHeld
        <4>4. QED
          BY <4>1, <4>2, <4>3
      <3>4. m # None => routed[m] = 0 /\ routed'[m] = 1
        BY <1>a, <3>1, <3>2 DEF OnceInv, OncePub
      <3>5. \A p \in Pubs : p # m => routed'[p] = routed[p]
        BY <1>a, <3>1
      <3>a. t.pub \in excused \/ routed[t.pub] = 1 \/ m = t.pub
        BY <2>1, <3>1 DEF OnceInv, OnceJob
      <3> HIDE DEF m
      <3>6. ASSUME NEW p \in Pubs PROVE OncePub(p)'
        <4>1. CASE p = m
          BY <2>1, <3>1, <3>2, <3>3, <3>4, <4>1 DEF OnceInv, OncePub
        <4>2. CASE p # m
          BY <2>1, <3>1, <3>3, <3>5, <4>2 DEF OnceInv, OncePub
        <4>3. QED
          BY <4>1, <4>2
      <3>7. ASSUME NEW v \in Workers, Busy(v)' PROVE OnceJob(v)'
        <4>1. CASE v = w
          BY <2>1, <2>2, <3>1, <3>4, <3>5, <3>a, <4>1 DEF OnceJob
        <4>2. CASE v # w
          <5>1. job[v].packet.pub # m
            BY <2>1, <2>3, <3>2, <3>7, <4>2
          <5>2. QED
            BY <2>1, <2>3, <3>1, <3>3, <3>5, <3>7, <4>2, <5>1 DEF OnceJob, OnceInv
        <4>3. QED
          BY <4>1, <4>2
      <3>8. QED
        BY <3>6, <3>7 DEF OnceInv
    <2>8. QED
      BY <1>7, <2>4, <2>5, <2>6, <2>7 DEF WorkerStep
  <1>8. QED
    BY <1>1, <1>2, <1>3, <1>4, <1>5, <1>6, <1>7 DEF Next, WorkerStep, Busy

Inv == TypeOK /\ JobInv /\ PacketInv /\ LinkInv /\ CleanInv

\* The invariant holds initially.
LEMMA InitInv == Init => Inv
  <1> SUFFICES ASSUME Init PROVE Inv
    OBVIOUS
  <1>1. TypeOK /\ JobInv
    BY InitTypes
  <1>2. DOMAIN cache = {} /\ tasks = {} /\ \A w \in Workers : job[w] = None
    BY DEF Init
  <1>3. PacketInv
    BY <1>2, FS_EmptySet DEF PacketInv, Init
  <1>4. LinkInv /\ UniqInv /\ KeyInv
    BY <1>2 DEF LinkInv, UniqInv, KeyInv, Busy, Init
  <1>5. OnceInv
    BY <1>2 DEF OnceInv, OncePub, OnceJob, IsKept, IsHeld, Busy, Init
  <1>6. QED
    BY <1>1, <1>3, <1>4, <1>5 DEF Inv, CleanInv

\* Every step keeps the invariant.
LEMMA InvStep == Inv /\ [Next]_vars => Inv'
  <1> SUFFICES ASSUME Inv, [Next]_vars PROVE Inv'
    OBVIOUS
  <1>1. TypeOK' /\ JobInv' /\ PacketInv' /\ LinkInv'
    BY TypeStep, PacketStep, LinkStep DEF Inv
  <1>2. ASSUME ~clash' PROVE (UniqInv /\ KeyInv /\ OnceInv)'
    BY <1>2, ClashStays, UniqStep, KeyStep, OnceStep DEF Inv, CleanInv
  <1>3. QED
    BY <1>1, <1>2 DEF Inv, CleanInv

\* put() adds the key before the message and remove() takes the message before
\* the key; with the listener of expired messages and the constructor that drops
\* keys without a message between any two of these steps, and a crash after any
\* of them, every message in the cache of a persistent session has its key,
\* unless packets clash.
THEOREM KeysCoverCache == Spec => []KeySetCovers
  <1>1. Inv => KeySetCovers
    <2> SUFFICES ASSUME Inv, ~clash PROVE DOMAIN cache \subseteq keys \/ kind = "transient"
      BY DEF KeySetCovers
    <2>1. kind = "persistent" => DOMAIN cache \subseteq keys
      BY DEF Inv, CleanInv, KeyInv
    <2>2. kind \in {"transient", "persistent"}
      BY DEF Inv, TypeOK, PlainTypes
    <2>3. QED
      BY <2>1, <2>2
  <1>2. QED
    BY <1>1, InitInv, InvStep, PTL DEF Spec

\* A QoS 2 message whose publisher has seen PUBCOMP was routed, and was routed
\* once, though its packets are sent again after every reconnect and the handlers
\* (handlePublish, handlePublishRelease) run on any number of workers; what was
\* refused, has expired or was in a worker's hand at a crash is the exception,
\* and packets that clash are the premise.
THEOREM RoutedExactlyOnce == Spec => []ExactlyOnce
  <1>1. Inv => ExactlyOnce
    BY DEF Inv, CleanInv, OnceInv, OncePub, ExactlyOnce
  <1>2. QED
    BY <1>1, InitInv, InvStep, PTL DEF Spec

-----------------------------------------------------------------------------
(* The refinement of RoutedOnce.                                           *)

\* The four sets that Copies and Held count.
Waiting(p)  == {t \in tasks : t.pk = "publish" /\ t.pub = p}
Handled(p)  == {w \in Workers : /\ job[w] # None /\ job[w].packet.pk = "publish" /\ job[w].packet.pub = p
                                /\ job[w].at \in {"contains", "replace", "spin", "put"}}
Kept(p)     == {i \in DOMAIN cache : cache[i] = p}
InHand(p)   == {w \in Workers : job[w] # None /\ job[w].hand = p}

Finite ==
    \A p \in Pubs : IsFiniteSet(Waiting(p)) /\ IsFiniteSet(Handled(p)) /\ IsFiniteSet(Kept(p)) /\ IsFiniteSet(InHand(p))

\* The places a message can be in are finitely many.
LEMMA AllFinite == TypeOK /\ PacketInv => Finite
  <1> SUFFICES ASSUME TypeOK, PacketInv, NEW p \in Pubs
               PROVE  IsFiniteSet(Waiting(p)) /\ IsFiniteSet(Handled(p)) /\ IsFiniteSet(Kept(p)) /\ IsFiniteSet(InHand(p))
    BY DEF Finite
  <1>1. Waiting(p) \in SUBSET tasks /\ IsFiniteSet(tasks)
    BY DEF Waiting, PacketInv
  <1>2. Handled(p) \in SUBSET Workers /\ InHand(p) \in SUBSET Workers
    BY DEF Handled, InHand
  <1>3. Kept(p) \in SUBSET Ids
    BY DEF Kept, TypeOK, CacheTypes
  <1>4. IsFiniteSet(Ids)
    BY 1 \in Int, MaxId \in Int, FS_Interval
  <1>5. QED
    BY <1>1, <1>2, <1>3, <1>4, FS_Subset

\* The same after a step.
LEMMA AllFinitePrimed == (TypeOK /\ PacketInv)' => Finite'
  BY AllFinite, PTL

\* The numbers of the mapping are sums of cardinalities.
Counted ==
    /\ Copies \in [Pubs -> Nat] /\ Held \in [Pubs -> Nat]
    /\ \A p \in Pubs : /\ Cardinality(Waiting(p)) \in Nat /\ Cardinality(Handled(p)) \in Nat
                       /\ Cardinality(Kept(p)) \in Nat /\ Cardinality(InHand(p)) \in Nat
                       /\ Copies[p] = Cardinality(Waiting(p)) + Cardinality(Handled(p))
                       /\ Held[p] = Cardinality(Kept(p)) + Cardinality(InHand(p))

\* Their cardinalities are numbers.
LEMMA CountedOK == Finite => Counted
  <1> SUFFICES ASSUME Finite PROVE Counted
    OBVIOUS
  <1>1. \A p \in Pubs : /\ Cardinality(Waiting(p)) \in Nat /\ Cardinality(Handled(p)) \in Nat
                        /\ Cardinality(Kept(p)) \in Nat /\ Cardinality(InHand(p)) \in Nat
    BY FS_CardinalityType DEF Finite
  <1>2. /\ Copies = [p \in Pubs |-> Cardinality(Waiting(p)) + Cardinality(Handled(p))]
        /\ Held = [p \in Pubs |-> Cardinality(Kept(p)) + Cardinality(InHand(p))]
    BY Zenon DEF Copies, Held, Waiting, Handled, Kept, InHand
  <1>3. QED
    BY <1>1, <1>2 DEF Counted

\* The same after a step.
LEMMA CountedPrimed == Finite' => Counted'
  BY CountedOK, PTL

\* A step after which every count is the same or smaller.
LEMMA LoseStep ==
    ASSUME Counted, Counted', UNCHANGED <<sent, routed>>,
           \A p \in Pubs : Copies'[p] <= Copies[p] /\ Held'[p] <= Held[p]
    PROVE  Once!Next
  <1>1. Once!Lose
    BY DEF Once!Lose, Once!Counts, Counted
  <1>2. QED
    BY <1>1 DEF Once!Next

\* A step that only loses copies refines a step of RoutedOnce.
LEMMA FewerStep ==
    ASSUME Finite, Counted, Counted', UNCHANGED <<sent, routed>>,
           \A p \in Pubs : /\ Waiting(p)' \subseteq Waiting(p) /\ Handled(p)' \subseteq Handled(p)
                           /\ Kept(p)' \subseteq Kept(p) /\ InHand(p)' \subseteq InHand(p)
    PROVE  Once!Next
  <1>1. ASSUME NEW p \in Pubs
        PROVE  Copies'[p] <= Copies[p] /\ Held'[p] <= Held[p]
    <2>1. /\ Cardinality(Waiting(p)') <= Cardinality(Waiting(p))
          /\ Cardinality(Handled(p)') <= Cardinality(Handled(p))
          /\ Cardinality(Kept(p)') <= Cardinality(Kept(p))
          /\ Cardinality(InHand(p)') <= Cardinality(InHand(p))
      BY FS_Subset DEF Finite
    <2>2. QED
      BY <2>1 DEF Counted
  <1>2. QED
    BY <1>1, LoseStep

\* A PUBLISH of the client refines a step of RoutedOnce.
LEMMA PublishRefines ==
    ASSUME Inv, Finite, Counted, Counted', NEW p \in Pubs, ClientPublish(p)
    PROVE  Once!Next
  <1> DEFINE a == [pk |-> "publish", pub |-> p, id |-> plan.ids[p], conn |-> conn]
  <1>1. /\ tasks' = tasks \cup {a} /\ sent' = [sent EXCEPT ![p] = 1] /\ state[p] = "idle"
        /\ UNCHANGED <<job, cache, routed>>
    BY DEF ClientPublish, Arrive, mapVars
  <1>2. a \notin tasks /\ a.pk = "publish" /\ a.pub = p /\ sent[p] = 0
    BY <1>1 DEF Inv, PacketInv
  <1> HIDE DEF a
  <1>3. /\ Waiting(p)' = Waiting(p) \cup {a} /\ a \notin Waiting(p)
        /\ \A q \in Pubs \ {p} : Waiting(q)' = Waiting(q)
        /\ \A q \in Pubs : Handled(q)' = Handled(q) /\ Kept(q)' = Kept(q) /\ InHand(q)' = InHand(q)
    BY <1>1, <1>2 DEF Waiting, Handled, Kept, InHand
  <1>4. Cardinality(Waiting(p)') = Cardinality(Waiting(p)) + 1
    BY <1>3, FS_AddElement DEF Finite
  <1>5. /\ Copies'[p] = Copies[p] + 1
        /\ \A q \in Pubs \ {p} : Copies'[q] = Copies[q]
        /\ \A q \in Pubs : Held'[q] = Held[q]
    <2>1. ASSUME NEW q \in Pubs
          PROVE  Copies'[q] = (IF q = p THEN Copies[q] + 1 ELSE Copies[q]) /\ Held'[q] = Held[q]
      BY <1>3, <1>4 DEF Counted
    <2>2. QED
      BY <2>1
  <1>6. Held' = Held
    BY <1>5 DEF Counted
  <1>7. Copies' = [q \in Pubs |-> IF q \in {p} THEN Copies[q] + 1 ELSE Copies[q]]
    BY <1>5 DEF Counted
  <1>8. sent' = [q \in Pubs |-> IF q \in {p} THEN sent[q] + 1 ELSE sent[q]]
    <2>1. sent \in [Pubs -> Nat]
      BY DEF Inv, TypeOK, PlainTypes
    <2>2. sent' = [sent EXCEPT ![p] = 1] /\ 1 = sent[p] + 1
      BY <1>1, <1>2
    <2>3. sent' \in [Pubs -> Nat] /\ \A q \in Pubs : sent'[q] = IF q \in {p} THEN sent[q] + 1 ELSE sent[q]
      BY <2>1, <2>2
    <2>4. QED
      BY <2>3
  <1>9. Once!Send({p})
    BY <1>1, <1>6, <1>7, <1>8 DEF Once!Send
  <1>10. QED
    BY <1>9 DEF Once!Next

\* So does what the client sends again when it reconnects.
LEMMA ResendRefines ==
    ASSUME Inv, Finite, Counted, Counted', OpenPutWrapper
    PROVE  Once!Next
  <1> DEFINE again(q) == {p \in Pubs : state[p] = q}
             R == again("published")
             rec(p) == [pk |-> "publish", pub |-> p, id |-> plan.ids[p], conn |-> conn]
  <1>1. /\ tasks' = tasks \cup (Packets("publish", conn, R) \cup Packets("release", conn, again("released")))
        /\ sent' = [p \in Pubs |-> IF p \in R THEN sent[p] + 1 ELSE sent[p]]
        /\ UNCHANGED <<job, cache, routed>> /\ opening # None
    BY DEF OpenPutWrapper, Arrive, mapVars, Packets
  <1>2. \A t \in tasks : t.conn # conn
    BY <1>1 DEF Inv, PacketInv, TypeOK, PlainTypes, Packet
  <1>3. ASSUME NEW p \in Pubs
        PROVE  /\ p \in R => Waiting(p)' = Waiting(p) \cup {rec(p)} /\ rec(p) \notin Waiting(p)
               /\ p \notin R => Waiting(p)' = Waiting(p)
    <2>1. \A t \in Packets("publish", conn, R) : t.pk = "publish" /\ t.pub \in R /\ t = rec(t.pub)
      BY DEF Packets
    <2>2. \A q \in R : rec(q) \in Packets("publish", conn, R)
      BY DEF Packets
    <2>3. \A t \in Packets("release", conn, again("released")) : t.pk # "publish"
      BY DEF Packets
    <2>4. rec(p).pk = "publish" /\ rec(p).pub = p /\ rec(p).conn = conn
      OBVIOUS
    <2> HIDE DEF rec, R, again
    <2>5. QED
      BY <1>1, <1>2, <2>1, <2>2, <2>3, <2>4 DEF Waiting
  <1> HIDE DEF rec, R
  <1>4. \A q \in Pubs : Handled(q)' = Handled(q) /\ Kept(q)' = Kept(q) /\ InHand(q)' = InHand(q)
    BY <1>1 DEF Handled, Kept, InHand
  <1>5. ASSUME NEW p \in Pubs
        PROVE  /\ Copies'[p] = IF p \in R THEN Copies[p] + 1 ELSE Copies[p]
               /\ Held'[p] = Held[p]
    <2>1. p \in R => Cardinality(Waiting(p)') = Cardinality(Waiting(p)) + 1
      BY <1>3, FS_AddElement DEF Finite
    <2>2. QED
      BY <1>3, <1>4, <2>1 DEF Counted
  <1>6. Held' = Held
    BY <1>5 DEF Counted
  <1>7. Copies' = [p \in Pubs |-> IF p \in R THEN Copies[p] + 1 ELSE Copies[p]]
    BY <1>5 DEF Counted
  <1>8. Once!Send(R) /\ R \in SUBSET Pubs
    BY <1>1, <1>6, <1>7 DEF Once!Send, R
  <1>9. QED
    BY <1>8 DEF Once!Next

\* So does the start of a handler.
LEMMA StartRefines ==
    ASSUME Inv, Finite, Counted, Counted', NEW w \in Workers, NEW t \in tasks, Start(w, t)
    PROVE  Once!Next
  <1>1. /\ ~Busy(w) /\ Busy(w)' /\ job'[w].packet = t /\ job'[w].hand = None
        /\ \A v \in Workers : v # w => job'[v] = job[v]
        /\ tasks' = tasks \ {t} /\ UNCHANGED <<cache, routed>>
    BY StartFacts DEF Inv
  <1>2. sent' = sent
    BY DEF Start
  <1>3. ASSUME NEW p \in Pubs
        PROVE  Copies'[p] <= Copies[p] /\ Held'[p] <= Held[p]
    <2>1. Kept(p)' = Kept(p) /\ InHand(p)' = InHand(p)
      BY <1>1 DEF Kept, InHand, Busy
    <2>2. CASE t.pk = "publish" /\ t.pub = p
      <3>1. Waiting(p)' = Waiting(p) \ {t} /\ t \in Waiting(p)
        BY <1>1, <2>2 DEF Waiting
      <3>2. Handled(p)' \subseteq Handled(p) \cup {w}
        BY <1>1 DEF Handled, Busy
      <3>3. Cardinality(Waiting(p)') = Cardinality(Waiting(p)) - 1
        BY <3>1, FS_RemoveElement, ZenonT(60) DEF Finite
      <3>4. Cardinality(Handled(p)') <= Cardinality(Handled(p)) + 1
        <4>1. /\ IsFiniteSet(Handled(p) \cup {w})
              /\ Cardinality(Handled(p) \cup {w}) = IF w \in Handled(p) THEN Cardinality(Handled(p))
                                                    ELSE Cardinality(Handled(p)) + 1
          BY FS_AddElement DEF Finite
        <4>2. Cardinality(Handled(p)') <= Cardinality(Handled(p) \cup {w})
          BY <3>2, <4>1, FS_Subset
        <4>3. QED
          BY <4>1, <4>2 DEF Counted
      <3>5. QED
        BY <2>1, <3>3, <3>4 DEF Counted
    <2>3. CASE ~(t.pk = "publish" /\ t.pub = p)
      <3>1. Waiting(p)' = Waiting(p) /\ Handled(p)' = Handled(p)
        BY <1>1, <2>3 DEF Waiting, Handled, Busy
      <3>2. QED
        BY <2>1, <3>1 DEF Counted
    <2>4. QED
      BY <2>2, <2>3
  <1>4. QED
    BY <1>1, <1>2, <1>3, LoseStep

\* A handler stores its message: the copy it handles is kept.
LEMMA KeepRefines ==
    ASSUME Inv, Finite, Counted, Counted', NEW w \in Workers, Busy(w), NEW p \in Pubs, NEW i,
           p = job[w].packet.pub, job[w].at \in {"contains", "replace", "put"},
           cache' = With(cache, i, p), \E a \in {"answer", "read"} : Move(w, a, job[w].hand),
           UNCHANGED <<tasks, sent, routed>>
    PROVE  Once!Next
  <1>1. job[w].packet.pk = "publish" /\ job[w].hand = None
    BY Fields DEF Inv, LinkInv, Publish
  <1>2. /\ w \in Handled(p) /\ Handled(p)' = Handled(p) \ {w}
        /\ \A q \in Pubs \ {p} : Handled(q)' = Handled(q)
    BY <1>1 DEF Handled, Move, Busy
  <1>3. \A q \in Pubs : Waiting(q)' = Waiting(q) /\ InHand(q)' = InHand(q)
    BY DEF Waiting, InHand, Move, Busy
  <1>4. Kept(p)' = Kept(p) \cup {i} /\ \A q \in Pubs \ {p} : Kept(q)' \subseteq Kept(q)
    <2>1. /\ DOMAIN cache' = DOMAIN cache \cup {i} /\ cache'[i] = p
          /\ \A x \in DOMAIN cache : x # i => cache'[x] = cache[x]
      BY DEF With
    <2>2. QED
      BY <2>1 DEF Kept
  <1>5. Cardinality(Handled(p)') = Cardinality(Handled(p)) - 1
    BY <1>1, <1>2, FS_RemoveElement, ZenonT(60) DEF Finite
  <1>6. Cardinality(Kept(p)') <= Cardinality(Kept(p)) + 1
    <2>1. Cardinality(Kept(p) \cup {i}) = IF i \in Kept(p) THEN Cardinality(Kept(p)) ELSE Cardinality(Kept(p)) + 1
      BY <1>1, FS_AddElement DEF Finite
    <2>2. QED
      BY <1>1, <1>4, <2>1 DEF Counted
  <1>7. \A q \in Pubs \ {p} : Cardinality(Kept(q)') <= Cardinality(Kept(q))
    BY <1>4, FS_Subset DEF Finite
  <1>8. Copies'[p] = Copies[p] - 1 /\ Copies[p] > 0 /\ Held'[p] <= Held[p] + 1
    BY <1>1, <1>3, <1>5, <1>6 DEF Counted
  <1>9. ASSUME NEW q \in Pubs \ {p}
        PROVE  Copies'[q] = Copies[q] /\ Held'[q] <= Held[q]
    BY <1>2, <1>3, <1>7 DEF Counted
  <1>10. Copies' = [Copies EXCEPT ![p] = @ - 1]
    BY <1>1, <1>8, <1>9 DEF Counted
  <1>11. Once!Keep(p)
    BY <1>8, <1>9, <1>10 DEF Once!Keep, Once!Counts, Counted
  <1>12. QED
    BY <1>1, <1>11 DEF Once!Next

\* So does getAndRemove of the await cache.
LEMMA TakeRefines ==
    ASSUME Inv, Finite, Counted, Counted', NEW w \in Workers, Busy(w), GetAndRemove(w)
    PROVE  Once!Next
  <1> DEFINE t == job[w].packet
             h == IF t.id \in DOMAIN cache THEN cache[t.id] ELSE None
  <1>1. /\ job[w].at = "take" /\ cache' = Without(cache, t.id)
        /\ UNCHANGED <<tasks, routed, sent>>
        /\ Move(w, IF kind = "transient" THEN "lower" ELSE "unset", h)
    BY WorkerFacts DEF Inv
  <1>2. job[w].hand = None /\ t.pk = "release"
    BY <1>1 DEF Inv, LinkInv, Release
  <1>3. ASSUME NEW p \in Pubs
        PROVE  Copies'[p] <= Copies[p] /\ Held'[p] <= Held[p]
    <2>1. Waiting(p)' = Waiting(p) /\ Handled(p)' = Handled(p)
      BY <1>1, <1>2 DEF Waiting, Handled, Move, Busy
    <2>2. Kept(p)' = Kept(p) \ {t.id}
      BY <1>1 DEF Kept, Without, Restrict
    <2>3. CASE p = h
      <3>1. t.id \in Kept(p) /\ InHand(p)' = InHand(p) \cup {w}
        BY <1>1, <2>3 DEF Kept, InHand, Move, Busy
      <3>2. Cardinality(Kept(p)') = Cardinality(Kept(p)) - 1
        <4> DEFINE i == t.id
        <4>1. Kept(p)' = Kept(p) \ {i} /\ i \in Kept(p) /\ IsFiniteSet(Kept(p))
          BY <2>2, <3>1 DEF Finite
        <4> HIDE DEF i
        <4>2. QED
          BY <4>1, FS_RemoveElement
      <3>3. Cardinality(InHand(p) \cup {w}) = IF w \in InHand(p) THEN Cardinality(InHand(p)) ELSE Cardinality(InHand(p)) + 1
        BY FS_AddElement DEF Finite
      <3>4. Cardinality(InHand(p)') <= Cardinality(InHand(p)) + 1
        BY <3>1, <3>3 DEF Counted
      <3>5. QED
        BY <2>1, <3>2, <3>4 DEF Counted
    <2>4. CASE p # h
      <3>1. InHand(p)' = InHand(p)
        BY <1>1, <1>2, <2>4 DEF InHand, Move, Busy
      <3>2. Cardinality(Kept(p)') <= Cardinality(Kept(p))
        BY <2>2, FS_Subset DEF Finite
      <3>3. QED
        BY <2>1, <3>1, <3>2 DEF Counted
    <2>5. QED
      BY <2>3, <2>4
  <1>4. QED
    BY <1>1, <1>3, LoseStep

\* So does the routing of a released message.
LEMMA RouteRefines ==
    ASSUME Inv, Finite, Counted, Counted', NEW w \in Workers, Busy(w), LowerAndRoute(w)
    PROVE  Once!Next
  <1>1. /\ Move(w, "answer", None) /\ job[w].at = "lower"
        /\ routed' = IF job[w].hand = None THEN routed ELSE [routed EXCEPT ![job[w].hand] = @ + 1]
        /\ UNCHANGED <<tasks, cache, sent>>
    BY WorkerFacts DEF Inv
  <1>2. \A p \in Pubs : /\ Waiting(p)' = Waiting(p) /\ Handled(p)' = Handled(p) /\ Kept(p)' = Kept(p)
                        /\ InHand(p)' = InHand(p) \ {w}
                        /\ w \in InHand(p) <=> p = job[w].hand
    BY <1>1 DEF Waiting, Handled, Kept, InHand, Move, Busy
  <1>3. job[w].hand \in Pubs \cup {None}
    BY Fields DEF Inv
  <1>4. CASE job[w].hand = None
    BY <1>1, <1>2, <1>4, FewerStep
  <1>5. ASSUME NEW m \in Pubs, m = job[w].hand PROVE Once!Next
    <2>1. Cardinality(InHand(m)') = Cardinality(InHand(m)) - 1
      BY <1>2, <1>5, FS_RemoveElement DEF Finite
    <2>2. Held'[m] = Held[m] - 1 /\ Held[m] > 0
      BY <1>2, <2>1 DEF Counted
    <2>3. \A p \in Pubs : p # m => InHand(p)' = InHand(p)
      BY <1>2, <1>5
    <2>4. \A p \in Pubs : p # m => Held'[p] = Held[p]
      BY <1>2, <2>3 DEF Counted
    <2>5. Copies' = Copies
      BY <1>2 DEF Counted
    <2>6. Held' = [Held EXCEPT ![m] = @ - 1]
      BY <2>2, <2>4 DEF Counted
    <2>7. Once!Route(m)
      BY <1>1, <1>5, <2>2, <2>5, <2>6 DEF Once!Route
    <2>8. QED
      BY <2>7 DEF Once!Next
  <1>6. QED
    BY <1>3, <1>4, <1>5

\* Every step refines a step of RoutedOnce, or stutters.
LEMMA StepRefines == Inv /\ Inv' /\ [Next]_vars => [Once!Next]_Once!vars
  <1> SUFFICES ASSUME Inv, Inv', [Next]_vars PROVE [Once!Next]_Once!vars
    OBVIOUS
  <1> USE DEF clientVars, mapVars, countVars, sessionVars
  <1>a. Finite /\ Counted /\ Counted'
    BY AllFinite, AllFinitePrimed, CountedOK, CountedPrimed DEF Inv
  <1>b. ASSUME UNCHANGED <<sent, routed>>,
               \A p \in Pubs : /\ Waiting(p)' \subseteq Waiting(p) /\ Handled(p)' \subseteq Handled(p)
                               /\ Kept(p)' \subseteq Kept(p) /\ InHand(p)' \subseteq InHand(p)
        PROVE  Once!Next
    BY <1>a, <1>b, FewerStep
  <1>1. ASSUME NEW p \in Pubs, ClientPublish(p)
        PROVE  Once!Next
    BY <1>a, <1>1, PublishRefines
  <1>2. CASE \/ Disconnect \/ CloseSession \/ OpenSession \/ OpenScan \/ OpenRemoveAll \/ OpenSize
             \/ \E i \in Ids : AwaitExpired(i)
    <2>1. tasks' \subseteq tasks /\ UNCHANGED <<sent, routed, job, cache>>
      BY <1>2 DEF Disconnect, CloseSession, OpenSession, OpenScan, OpenRemoveAll, OpenSize,
         AwaitExpired
    <2>2. QED
      BY <2>1, <1>b DEF Waiting, Handled, Kept, InHand
  <1>3. CASE OpenPutWrapper
    BY <1>a, <1>3, ResendRefines
  <1>4. CASE Crash
    <2>1. tasks' = {} /\ UNCHANGED <<sent, routed, cache>> /\ \A w \in Workers : job'[w] = None
      BY <1>4 DEF Crash
    <2>2. QED
      BY <2>1, <1>b DEF Waiting, Handled, Kept, InHand
  <1>5. ASSUME NEW w \in Workers, NEW t \in tasks, Start(w, t)
        PROVE  Once!Next
    BY <1>a, <1>5, StartRefines
  <1>6. ASSUME NEW i \in Ids, Expire(i)
        PROVE  Once!Next
    <2>1. UNCHANGED <<tasks, sent, routed, job>>
      BY <1>6 DEF Expire
    <2>2. DOMAIN cache' \subseteq DOMAIN cache /\ \A k \in DOMAIN cache' : cache'[k] = cache[k]
      BY <1>6 DEF Expire, Without, Restrict
    <2>3. QED
      BY <2>1, <2>2, <1>b DEF Waiting, Handled, Kept, InHand
  <1>7. ASSUME NEW w \in Workers, Busy(w), Answer(w)
        PROVE  Once!Next
    <2> DEFINE r == [job[w].packet EXCEPT !.pk = "release"]
    <2>1. /\ ~Busy(w)' /\ \A v \in Workers : v # w => job'[v] = job[v]
          /\ r.pk = "release" /\ (tasks' = tasks \/ tasks' = tasks \cup {r})
          /\ UNCHANGED <<cache, routed>>
      BY <1>7, AnswerFacts DEF Inv
    <2>2. sent' = sent
      BY <1>7 DEF Answer
    <2> HIDE DEF r
    <2>3. QED
      BY <2>1, <2>2, <1>b DEF Waiting, Handled, Kept, InHand, Busy
  <1>8. ASSUME NEW w \in Workers, WorkerStep(w), ~Answer(w)
        PROVE  Once!Next
    <2> DEFINE t == job[w].packet
    <2>0. Busy(w) /\ t.pub \in Pubs /\ TypeOK /\ JobInv
      BY <1>8, Fields DEF WorkerStep, Busy, Inv
    <2>1. ASSUME NEW p \in Places, Move(w, p, job[w].hand), UNCHANGED <<tasks, sent, routed, cache>>,
                 p \in {"contains", "replace", "spin", "put"} => job[w].at \in {"contains", "replace", "spin", "put"}
          PROVE  Once!Next
      BY <2>0, <2>1, <1>b DEF Waiting, Handled, Kept, InHand, Move, Busy
    <2>2. CASE ContainsKey(w) \/ PutAdd(w) \/ ReadSize(w) \/ RaiseSize(w) \/ RemoveKey(w)
      BY <2>0, <2>1, <2>2, WorkerFacts DEF Places
    <2>3. CASE PutExt(w)
      <3>1. CASE cache' = cache
        BY <2>0, <2>1, <2>3, <3>1, WorkerFacts DEF Places
      <3>2. CASE cache' = With(cache, t.id, t.pub)
        BY <1>a, <2>0, <2>3, <3>2, WorkerFacts, KeepRefines
      <3>3. QED
        BY <2>0, <2>3, <3>1, <3>2, WorkerFacts
    <2>4. CASE PutReplace(w) \/ PutNew(w)
      BY <1>a, <2>0, <2>4, WorkerFacts, KeepRefines
    <2>5. CASE GetAndRemove(w)
      BY <1>a, <2>0, <2>5, TakeRefines
    <2>6. CASE LowerAndRoute(w)
      BY <1>a, <2>0, <2>6, RouteRefines
    <2>7. QED
      BY <1>8, <2>2, <2>3, <2>4, <2>5, <2>6 DEF WorkerStep
  <1>9. CASE UNCHANGED vars
    <2>1. UNCHANGED <<tasks, sent, routed, job, cache>>
      BY <1>9 DEF vars
    <2>2. QED
      BY <2>1, <1>b DEF Waiting, Handled, Kept, InHand
  <1>10. QED
    BY <1>1, <1>2, <1>3, <1>4, <1>5, <1>6, <1>7, <1>8, <1>9 DEF Next, Open, WorkerStep, Busy

\* The initial states refine those of RoutedOnce.
LEMMA InitRefines == Init => Once!Init
  <1> SUFFICES ASSUME Init PROVE Once!Init
    OBVIOUS
  <1>1. Finite /\ Counted
    BY InitInv, AllFinite, CountedOK DEF Inv
  <1>2. tasks = {} /\ DOMAIN cache = {} /\ \A w \in Workers : job[w] = None
    BY DEF Init
  <1>3. \A p \in Pubs : Waiting(p) = {} /\ Handled(p) = {} /\ Kept(p) = {} /\ InHand(p) = {}
    BY <1>2 DEF Waiting, Handled, Kept, InHand
  <1>4. \A p \in Pubs : Copies[p] = 0 /\ Held[p] = 0
    <2>1. Cardinality({}) = 0
      BY FS_EmptySet
    <2>2. \A p \in Pubs : /\ Cardinality(Waiting(p)) = 0 /\ Cardinality(Handled(p)) = 0
                          /\ Cardinality(Kept(p)) = 0 /\ Cardinality(InHand(p)) = 0
      BY <1>3, <2>1
    <2>3. QED
      BY <1>1, <2>2 DEF Counted
  <1>5. Copies = [p \in Pubs |-> 0] /\ Held = [p \in Pubs |-> 0]
    BY <1>1, <1>4 DEF Counted
  <1>6. QED
    BY <1>5 DEF Init, Once!Init

\* The handlers of QoS 2 messages implement RoutedOnce: with the waiting and the
\* handled PUBLISH packets as copies, and the await map and the workers' hands as
\* what is held, every step of a worker, of the map, of a reconnect or of a crash
\* moves or loses copies and never makes one, clash or not.
THEOREM ImplementsRoutedOnce == Spec => RoutedOncePerCopy
  <1>1. Inv /\ Inv' /\ [Next]_vars => [Once!Next]_Once!vars
    BY StepRefines
  <1>2. QED
    BY <1>1, InitInv, InvStep, InitRefines, PTL DEF Spec, RoutedOncePerCopy, Once!Spec

\* So the subscribers get a message at most as often as its PUBLISH was sent, even
\* when packets clash.
THEOREM RoutedAtMostSent == Spec => [](\A p \in Pubs : routed[p] + Held[p] + Copies[p] <= sent[p])
  <1>1. RoutedOncePerCopy => []Once!AtMostOnce
    BY Once!NeverMultiplied DEF RoutedOncePerCopy
  <1>2. QED
    BY <1>1, ImplementsRoutedOnce, PTL DEF Once!AtMostOnce
=============================================================================
