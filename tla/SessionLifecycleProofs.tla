----------------------- MODULE SessionLifecycleProofs -----------------------
(***************************************************************************)
(* Theorems about SessionLifecycle, for any number of connections of the   *)
(* client, any mix of clean and persistent ones, any listeners and any     *)
(* size of the worker pool.                                                *)
(***************************************************************************)
EXTENDS SessionLifecycle, TLAPS

\* handleAccept before the connection has its wrapper, and after putWrapper.
Early == {"idle", "start", "lock", "old", "wrap"}
Past  == {"conn", "will", "handlers", "accept", "done"}

\* The two handlers of a connection and its link: a connection is accepted at the
\* end of handleAccept and closes once; handleClose runs if and only if the link
\* closed after the closeHandler was registered.
LinkInv ==
    \A e \in Endpoints :
      /\ link[e] = "new" <=> open[e] = "idle"
      /\ link[e] = "open" => open[e] = "done"
      /\ open[e] = "done" => link[e] \in {"open", "closed"}
      /\ e \in watched => open[e] \in {"accept", "done"}
      /\ close[e] # "idle" <=> e \in watched /\ link[e] = "closed"
      /\ e \in routers => link[e] \in {"open", "closed"}

\* A wrapper is in one place: in the map or with one openSession, which has given
\* it its endpoint when it is about to put it into the map.
WrapInv ==
    /\ wrapper # None => open[wrapper] \notin Early
    /\ \A e \in Endpoints :
         /\ old[e] # None => /\ open[e] \in {"old", "wrap", "put"}
                             /\ old[e] # wrapper /\ open[old[e]] \notin Early
         /\ open[e] \in Early => endpointOf[e] = e
         /\ open[e] = "put" => old[e] # None /\ endpointOf[old[e]] = e
    /\ \A e, f \in Endpoints : old[e] # None /\ old[e] = old[f] => e = f

\* The connection that owns the wrapper is known until its handleClose forgets it.
CountInv ==
    /\ ConnectionCounted
    /\ \A e \in Endpoints :
         /\ IsSameEndpoint(wrapper, e)
         /\ open[e] \in {"will", "handlers", "accept", "done"}
         /\ close[e] \in {"idle", "start", "willDel", "conn"}
         => connection # None

\* A handleClose that is through, or is going to leave the wrapper, does not own it.
CloseInv ==
    \A e \in Endpoints :
      close[e] = "done" \/ (close[e] = "remove" /\ ~same[e]) => ~IsSameEndpoint(wrapper, e)

LockInv == \A e \in Endpoints : close[e] = "remove" <=> lock = e

Kind(w) == IF w \in Clean THEN "clean" ELSE "persistent"

\* Connection f has taken the wrapper of e out of the map and will close e.
Dispossessed(e) ==
    \E f \in Endpoints : open[f] = "old" /\ old[f] # None /\ endpointOf[old[f]] = e

\* Connections that open one after the other.
OrderInv ==
    /\ \A e, f \in Endpoints : open[e] \notin {"idle", "done"} /\ open[f] \notin {"idle", "done"} => e = f
    /\ \A e \in Endpoints : open[e] \in {"old", "wrap", "put"} => wrapper = None
    /\ \A e \in Endpoints : close[e] = "remove" /\ same[e] => IsSameEndpoint(wrapper, e)
    /\ \A e \in Endpoints : link[e] # "closed" /\ open[e] \in Past => IsSameEndpoint(wrapper, e) \/ Dispossessed(e)

\* What openSession has read of the old session is still so when it acts on it.
KindInv ==
    /\ wrapper # None => session = Kind(wrapper)
    /\ wrapper # None /\ wrapper \notin Clean => store
    /\ \A e \in Endpoints :
         /\ open[e] = "lock" /\ wrapper # None => (isPersistent[e] <=> wrapper \notin Clean)
         /\ open[e] \in {"old", "wrap"} /\ old[e] # None => (isPersistent[e] <=> old[e] \notin Clean)
         /\ open[e] \in {"old", "wrap"} /\ old[e] # None /\ old[e] \notin Clean /\ e \notin Clean => store
         /\ open[e] \in {"old", "wrap", "put"} => session = Kind(e)
         /\ open[e] = "put" => (old[e] \in Clean <=> e \in Clean)
         /\ open[e] = "put" /\ e \notin Clean => store

CalmInv == ~overlapped => OrderInv /\ KindInv

USE LifecycleAssumption DEF OpenAt, CloseAt, storeVars, countVars, localVars

-----------------------------------------------------------------------------
(* Types.                                                                  *)

\* Types hold initially.
LEMMA InitTypes == Init => TypeOK
  <1> SUFFICES ASSUME Init PROVE TypeOK
    OBVIOUS
  <1>1. store \in BOOLEAN /\ overlapped \in BOOLEAN
    BY DEF Init
  <1>2. isPersistent \in [Endpoints -> BOOLEAN] /\ same \in [Endpoints -> BOOLEAN]
    BY DEF Init
  <1>3. endpointOf \in [Endpoints -> Endpoints] /\ old \in [Endpoints -> Endpoints \cup {None}]
    BY DEF Init
  <1>4. QED
    BY <1>1, <1>2, <1>3 DEF Init, TypeOK, OpenPlaces, ClosePlaces

\* Every step preserves the types.
LEMMA TypeStep == TypeOK /\ [Next]_vars => TypeOK'
  <1> SUFFICES ASSUME TypeOK, [Next]_vars
               PROVE  TypeOK'
    OBVIOUS
  <1> USE DEF OpenPlaces, ClosePlaces
  <1>1. ASSUME NEW e \in Endpoints, Connect(e) PROVE TypeOK'
    BY <1>1 DEF TypeOK, Connect
  <1>2. ASSUME NEW e \in Endpoints, OpenSession(e) PROVE TypeOK'
    BY <1>2 DEF TypeOK, OpenSession
  <1>3. ASSUME NEW e \in Endpoints, ReplaceSession(e) PROVE TypeOK'
    BY <1>3 DEF TypeOK, ReplaceSession
  <1>4. ASSUME NEW e \in Endpoints, DisposeOld(e) PROVE TypeOK'
    <2>1. store' \in BOOLEAN /\ routers' \subseteq Endpoints
      BY <1>4 DEF TypeOK, DisposeOld, CloseWrapper, DestroyTransientSession,
         DestroyPersistentSession
    <2>2. (link' = link /\ close' = close) \/ \E f : CloseLink(f)
      BY <1>4 DEF DisposeOld, CloseWrapper, CloseEndpoint
    <2>3. link' \in [Endpoints -> {"new", "pending", "open", "closed"}]
      BY <2>2 DEF TypeOK, CloseLink
    <2>4. close' \in [Endpoints -> ClosePlaces \cup {"idle", "start", "done"}]
      BY <2>2 DEF TypeOK, CloseLink
    <2>5. QED
      BY <1>4, <2>1, <2>3, <2>4 DEF TypeOK, DisposeOld
  <1>5. ASSUME NEW e \in Endpoints, BuildWrapper(e) PROVE TypeOK'
    <2>1. store' \in BOOLEAN
      BY <1>5 DEF TypeOK, BuildWrapper
    <2>2. endpointOf' \in [Endpoints -> Endpoints] /\ old' \in [Endpoints -> Endpoints \cup {None}]
      BY <1>5 DEF TypeOK, BuildWrapper
    <2>3. QED
      BY <1>5, <2>1, <2>2 DEF TypeOK, BuildWrapper
  <1>6. ASSUME NEW e \in Endpoints, PutWrapper(e) PROVE TypeOK'
    BY <1>6 DEF TypeOK, PutWrapper
  <1>7. ASSUME NEW e \in Endpoints, SaveConnection(e) PROVE TypeOK'
    BY <1>7 DEF TypeOK, SaveConnection
  <1>8. ASSUME NEW e \in Endpoints, HandleWillMessage(e) PROVE TypeOK'
    BY <1>8 DEF TypeOK, HandleWillMessage
  <1>9. ASSUME NEW e \in Endpoints, RegisterHandlers(e) PROVE TypeOK'
    BY <1>9 DEF TypeOK, RegisterHandlers
  <1>10. ASSUME NEW e \in Endpoints, Accept(e) PROVE TypeOK'
    BY <1>10 DEF TypeOK, Accept
  <1>11. ASSUME NEW e \in Endpoints, Subscribe(e) PROVE TypeOK'
    BY <1>11 DEF TypeOK, Subscribe
  <1>12. ASSUME NEW e \in Endpoints, Drop(e) PROVE TypeOK'
    BY <1>12 DEF TypeOK, Drop, CloseLink
  <1>13. ASSUME NEW e \in Endpoints, PublishWill(e) PROVE TypeOK'
    BY <1>13 DEF TypeOK, PublishWill
  <1>14. ASSUME NEW e \in Endpoints, DeleteWill(e) PROVE TypeOK'
    BY <1>14 DEF TypeOK, DeleteWill
  <1>15. ASSUME NEW e \in Endpoints, DeleteConnection(e) PROVE TypeOK'
    BY <1>15 DEF TypeOK, DeleteConnection
  <1>16. ASSUME NEW e \in Endpoints, CloseSession(e) PROVE TypeOK'
    BY <1>16 DEF TypeOK, CloseSession
  <1>17. ASSUME NEW e \in Endpoints, LockSession(e) PROVE TypeOK'
    BY <1>17 DEF TypeOK, LockSession, IsSameEndpoint
  <1>18. ASSUME NEW e \in Endpoints, RemoveSession(e) PROVE TypeOK'
    BY <1>18 DEF TypeOK, RemoveSession, DestroyTransientSession
  <1>19. CASE UNCHANGED vars
    BY <1>19 DEF vars, TypeOK
  <1>20. QED
    BY <1>1, <1>2, <1>3, <1>4, <1>5, <1>6, <1>7, <1>8, <1>9, <1>10, <1>11, <1>12, <1>13, <1>14,
       <1>15, <1>16, <1>17, <1>18, <1>19 DEF Next, OpenStep, CloseStep, Quiet

\* The functions of the state, without those with Boolean values.
FunTypes ==
    /\ link \in [Endpoints -> {"new", "pending", "open", "closed"}]
    /\ open \in [Endpoints -> OpenPlaces \cup {"idle", "start", "accept", "done"}]
    /\ close \in [Endpoints -> ClosePlaces \cup {"idle", "start", "done"}]
    /\ endpointOf \in [Endpoints -> Endpoints]
    /\ old \in [Endpoints -> Endpoints \cup {None}]
    /\ wrapper \in Endpoints \cup {None} /\ lock \in Endpoints \cup {None}

\* The variables that are functions of a connection.
LEMMA FunTypesOK == TypeOK => FunTypes
  BY DEF TypeOK, FunTypes

-----------------------------------------------------------------------------
(* The parts of the invariant that need no order of the connections.       *)

\* Every step keeps the handlers of a connection in line with its link.
LEMMA LinkStep == TypeOK /\ LinkInv /\ [Next]_vars => LinkInv'
  <1> SUFFICES ASSUME TypeOK, LinkInv, [Next]_vars
               PROVE  LinkInv'
    OBVIOUS
  <1>a. FunTypes
    BY FunTypesOK
  <1>1. ASSUME NEW e \in Endpoints, Connect(e) PROVE LinkInv'
    BY <1>1, <1>a DEF LinkInv, FunTypes, Connect
  <1>2. ASSUME NEW e \in Endpoints, OpenSession(e) PROVE LinkInv'
    BY <1>2, <1>a DEF LinkInv, FunTypes, OpenSession
  <1>3. ASSUME NEW e \in Endpoints, ReplaceSession(e) PROVE LinkInv'
    BY <1>3, <1>a DEF LinkInv, FunTypes, ReplaceSession
  <1>4. ASSUME NEW e \in Endpoints, DisposeOld(e) PROVE LinkInv'
    BY <1>4, <1>a DEF LinkInv, FunTypes, DisposeOld, CloseWrapper, CloseEndpoint, CloseLink,
       DestroyTransientSession, DestroyPersistentSession
  <1>5. ASSUME NEW e \in Endpoints, BuildWrapper(e) PROVE LinkInv'
    BY <1>5, <1>a DEF LinkInv, FunTypes, BuildWrapper
  <1>6. ASSUME NEW e \in Endpoints, PutWrapper(e) PROVE LinkInv'
    BY <1>6, <1>a DEF LinkInv, FunTypes, PutWrapper
  <1>7. ASSUME NEW e \in Endpoints, SaveConnection(e) PROVE LinkInv'
    BY <1>7, <1>a DEF LinkInv, FunTypes, SaveConnection
  <1>8. ASSUME NEW e \in Endpoints, HandleWillMessage(e) PROVE LinkInv'
    BY <1>8, <1>a DEF LinkInv, FunTypes, HandleWillMessage
  <1>9. ASSUME NEW e \in Endpoints, RegisterHandlers(e) PROVE LinkInv'
    BY <1>9, <1>a DEF LinkInv, FunTypes, RegisterHandlers
  <1>10. ASSUME NEW e \in Endpoints, Accept(e) PROVE LinkInv'
    BY <1>10, <1>a DEF LinkInv, FunTypes, Accept
  <1>11. ASSUME NEW e \in Endpoints, Subscribe(e) PROVE LinkInv'
    BY <1>11, <1>a DEF LinkInv, FunTypes, Subscribe
  <1>12. ASSUME NEW e \in Endpoints, Drop(e) PROVE LinkInv'
    BY <1>12, <1>a DEF LinkInv, FunTypes, Drop, CloseLink
  <1>13. ASSUME NEW e \in Endpoints, PublishWill(e) PROVE LinkInv'
    BY <1>13, <1>a DEF LinkInv, FunTypes, PublishWill
  <1>14. ASSUME NEW e \in Endpoints, DeleteWill(e) PROVE LinkInv'
    BY <1>14, <1>a DEF LinkInv, FunTypes, DeleteWill
  <1>15. ASSUME NEW e \in Endpoints, DeleteConnection(e) PROVE LinkInv'
    BY <1>15, <1>a DEF LinkInv, FunTypes, DeleteConnection
  <1>16. ASSUME NEW e \in Endpoints, CloseSession(e) PROVE LinkInv'
    BY <1>16, <1>a DEF LinkInv, FunTypes, CloseSession
  <1>17. ASSUME NEW e \in Endpoints, LockSession(e) PROVE LinkInv'
    BY <1>17, <1>a DEF LinkInv, FunTypes, LockSession
  <1>18. ASSUME NEW e \in Endpoints, RemoveSession(e) PROVE LinkInv'
    BY <1>18, <1>a DEF LinkInv, FunTypes, RemoveSession, DestroyTransientSession
  <1>19. CASE UNCHANGED vars
    BY <1>19 DEF vars, LinkInv, FunTypes
  <1>20. QED
    BY <1>1, <1>2, <1>3, <1>4, <1>5, <1>6, <1>7, <1>8, <1>9, <1>10, <1>11, <1>12, <1>13, <1>14,
       <1>15, <1>16, <1>17, <1>18, <1>19 DEF Next, OpenStep, CloseStep, Quiet

\* Every step keeps a wrapper in one place.
LEMMA WrapStep == TypeOK /\ WrapInv /\ [Next]_vars => WrapInv'
  <1> SUFFICES ASSUME TypeOK, WrapInv, [Next]_vars
               PROVE  WrapInv'
    OBVIOUS
  <1>a. FunTypes
    BY FunTypesOK
  <1>1. ASSUME NEW e \in Endpoints, Connect(e) PROVE WrapInv'
    BY <1>1, <1>a DEF WrapInv, FunTypes, Early, Connect
  <1>2. ASSUME NEW e \in Endpoints, OpenSession(e) PROVE WrapInv'
    BY <1>2, <1>a DEF WrapInv, FunTypes, Early, OpenSession
  <1>3. ASSUME NEW e \in Endpoints, ReplaceSession(e) PROVE WrapInv'
    BY <1>3, <1>a DEF WrapInv, FunTypes, Early, ReplaceSession
  <1>4. ASSUME NEW e \in Endpoints, DisposeOld(e) PROVE WrapInv'
    BY <1>4, <1>a DEF WrapInv, FunTypes, Early, DisposeOld, CloseWrapper, CloseEndpoint,
       CloseLink, DestroyTransientSession, DestroyPersistentSession
  <1>5. ASSUME NEW e \in Endpoints, BuildWrapper(e) PROVE WrapInv'
    BY <1>5, <1>a DEF WrapInv, FunTypes, Early, BuildWrapper
  <1>6. ASSUME NEW e \in Endpoints, PutWrapper(e) PROVE WrapInv'
    BY <1>6, <1>a DEF WrapInv, FunTypes, Early, PutWrapper
  <1>7. ASSUME NEW e \in Endpoints, SaveConnection(e) PROVE WrapInv'
    BY <1>7, <1>a DEF WrapInv, FunTypes, Early, SaveConnection
  <1>8. ASSUME NEW e \in Endpoints, HandleWillMessage(e) PROVE WrapInv'
    BY <1>8, <1>a DEF WrapInv, FunTypes, Early, HandleWillMessage
  <1>9. ASSUME NEW e \in Endpoints, RegisterHandlers(e) PROVE WrapInv'
    BY <1>9, <1>a DEF WrapInv, FunTypes, Early, RegisterHandlers
  <1>10. ASSUME NEW e \in Endpoints, Accept(e) PROVE WrapInv'
    BY <1>10, <1>a DEF WrapInv, FunTypes, Early, Accept
  <1>11. ASSUME NEW e \in Endpoints, Subscribe(e) PROVE WrapInv'
    BY <1>11, <1>a DEF WrapInv, FunTypes, Early, Subscribe
  <1>12. ASSUME NEW e \in Endpoints, Drop(e) PROVE WrapInv'
    BY <1>12, <1>a DEF WrapInv, FunTypes, Early, Drop, CloseLink
  <1>13. ASSUME NEW e \in Endpoints, PublishWill(e) PROVE WrapInv'
    BY <1>13, <1>a DEF WrapInv, FunTypes, Early, PublishWill
  <1>14. ASSUME NEW e \in Endpoints, DeleteWill(e) PROVE WrapInv'
    BY <1>14, <1>a DEF WrapInv, FunTypes, Early, DeleteWill
  <1>15. ASSUME NEW e \in Endpoints, DeleteConnection(e) PROVE WrapInv'
    BY <1>15, <1>a DEF WrapInv, FunTypes, Early, DeleteConnection
  <1>16. ASSUME NEW e \in Endpoints, CloseSession(e) PROVE WrapInv'
    BY <1>16, <1>a DEF WrapInv, FunTypes, Early, CloseSession
  <1>17. ASSUME NEW e \in Endpoints, LockSession(e) PROVE WrapInv'
    BY <1>17, <1>a DEF WrapInv, FunTypes, Early, LockSession
  <1>18. ASSUME NEW e \in Endpoints, RemoveSession(e) PROVE WrapInv'
    BY <1>18, <1>a DEF WrapInv, FunTypes, Early, RemoveSession, DestroyTransientSession
  <1>19. CASE UNCHANGED vars
    BY <1>19 DEF vars, WrapInv, FunTypes, Early
  <1>20. QED
    BY <1>1, <1>2, <1>3, <1>4, <1>5, <1>6, <1>7, <1>8, <1>9, <1>10, <1>11, <1>12, <1>13, <1>14,
       <1>15, <1>16, <1>17, <1>18, <1>19 DEF Next, OpenStep, CloseStep, Quiet

\* Every step keeps a handleClose that leaves the wrapper from owning it.
LEMMA CloseStepInv == TypeOK /\ LinkInv /\ WrapInv /\ CloseInv /\ [Next]_vars => CloseInv'
  <1> SUFFICES ASSUME TypeOK, LinkInv, WrapInv, CloseInv, [Next]_vars
               PROVE  CloseInv'
    OBVIOUS
  <1>a. FunTypes
    BY FunTypesOK
  <1>1. ASSUME NEW e \in Endpoints, Connect(e) PROVE CloseInv'
    BY <1>1, <1>a DEF CloseInv, FunTypes, LinkInv, WrapInv, IsSameEndpoint, Connect
  <1>2. ASSUME NEW e \in Endpoints, OpenSession(e) PROVE CloseInv'
    BY <1>2, <1>a DEF CloseInv, FunTypes, LinkInv, WrapInv, IsSameEndpoint, OpenSession
  <1>3. ASSUME NEW e \in Endpoints, ReplaceSession(e) PROVE CloseInv'
    BY <1>3, <1>a DEF CloseInv, FunTypes, LinkInv, WrapInv, IsSameEndpoint, ReplaceSession
  <1>4. ASSUME NEW e \in Endpoints, DisposeOld(e) PROVE CloseInv'
    BY <1>4, <1>a DEF CloseInv, FunTypes, LinkInv, WrapInv, IsSameEndpoint, DisposeOld,
       CloseWrapper, CloseEndpoint, CloseLink, DestroyTransientSession, DestroyPersistentSession
  <1>5. ASSUME NEW e \in Endpoints, BuildWrapper(e) PROVE CloseInv'
    BY <1>5, <1>a DEF CloseInv, FunTypes, LinkInv, WrapInv, IsSameEndpoint, BuildWrapper
  <1>6. ASSUME NEW e \in Endpoints, PutWrapper(e) PROVE CloseInv'
    BY <1>6, <1>a DEF CloseInv, FunTypes, LinkInv, WrapInv, IsSameEndpoint, PutWrapper
  <1>7. ASSUME NEW e \in Endpoints, SaveConnection(e) PROVE CloseInv'
    BY <1>7, <1>a DEF CloseInv, FunTypes, LinkInv, WrapInv, IsSameEndpoint, SaveConnection
  <1>8. ASSUME NEW e \in Endpoints, HandleWillMessage(e) PROVE CloseInv'
    BY <1>8, <1>a DEF CloseInv, FunTypes, LinkInv, WrapInv, IsSameEndpoint, HandleWillMessage
  <1>9. ASSUME NEW e \in Endpoints, RegisterHandlers(e) PROVE CloseInv'
    BY <1>9, <1>a DEF CloseInv, FunTypes, LinkInv, WrapInv, IsSameEndpoint, RegisterHandlers
  <1>10. ASSUME NEW e \in Endpoints, Accept(e) PROVE CloseInv'
    BY <1>10, <1>a DEF CloseInv, FunTypes, LinkInv, WrapInv, IsSameEndpoint, Accept
  <1>11. ASSUME NEW e \in Endpoints, Subscribe(e) PROVE CloseInv'
    BY <1>11, <1>a DEF CloseInv, FunTypes, LinkInv, WrapInv, IsSameEndpoint, Subscribe
  <1>12. ASSUME NEW e \in Endpoints, Drop(e) PROVE CloseInv'
    BY <1>12, <1>a DEF CloseInv, FunTypes, LinkInv, WrapInv, IsSameEndpoint, Drop, CloseLink
  <1>13. ASSUME NEW e \in Endpoints, PublishWill(e) PROVE CloseInv'
    BY <1>13, <1>a DEF CloseInv, FunTypes, LinkInv, WrapInv, IsSameEndpoint, PublishWill
  <1>14. ASSUME NEW e \in Endpoints, DeleteWill(e) PROVE CloseInv'
    BY <1>14, <1>a DEF CloseInv, FunTypes, LinkInv, WrapInv, IsSameEndpoint, DeleteWill
  <1>15. ASSUME NEW e \in Endpoints, DeleteConnection(e) PROVE CloseInv'
    BY <1>15, <1>a DEF CloseInv, FunTypes, LinkInv, WrapInv, IsSameEndpoint, DeleteConnection
  <1>16. ASSUME NEW e \in Endpoints, CloseSession(e) PROVE CloseInv'
    BY <1>16, <1>a DEF CloseInv, FunTypes, LinkInv, WrapInv, IsSameEndpoint, CloseSession
  <1>17. ASSUME NEW e \in Endpoints, LockSession(e) PROVE CloseInv'
    <2> SUFFICES ASSUME NEW f \in Endpoints, (close[f] = "done" \/ (close[f] = "remove" /\ ~same[f]))'
                 PROVE  ~IsSameEndpoint(wrapper, f)'
      BY DEF CloseInv
    <2>1. wrapper' = wrapper /\ endpointOf' = endpointOf
      BY <1>17 DEF LockSession
    <2>2. CASE f # e
      BY <1>17, <2>1, <2>2, <1>a DEF CloseInv, FunTypes, IsSameEndpoint, LockSession
    <2>3. CASE f = e
      <3>1. close'[e] = "remove"
        BY <1>17, <1>a DEF FunTypes, LockSession
      <3>2. same'[e] = IsSameEndpoint(wrapper, e)
        BY <1>17 DEF TypeOK, LockSession
      <3>3. QED
        BY <2>1, <2>3, <3>1, <3>2 DEF IsSameEndpoint
    <2>4. QED
      BY <2>2, <2>3
  <1>18. ASSUME NEW e \in Endpoints, RemoveSession(e) PROVE CloseInv'
    BY <1>18, <1>a DEF CloseInv, FunTypes, LinkInv, WrapInv, IsSameEndpoint, RemoveSession,
       DestroyTransientSession
  <1>19. CASE UNCHANGED vars
    BY <1>19 DEF vars, CloseInv, FunTypes, LinkInv, WrapInv, IsSameEndpoint
  <1>20. QED
    BY <1>1, <1>2, <1>3, <1>4, <1>5, <1>6, <1>7, <1>8, <1>9, <1>10, <1>11, <1>12, <1>13, <1>14,
       <1>15, <1>16, <1>17, <1>18, <1>19 DEF Next, OpenStep, CloseStep, Quiet

\* Every step keeps the lock with the handleClose that took it.
LEMMA LockStep == TypeOK /\ LinkInv /\ LockInv /\ [Next]_vars => LockInv'
  <1> SUFFICES ASSUME TypeOK, LinkInv, LockInv, [Next]_vars
               PROVE  LockInv'
    OBVIOUS
  <1>a. FunTypes
    BY FunTypesOK
  <1>1. ASSUME NEW e \in Endpoints, Connect(e) PROVE LockInv'
    BY <1>1, <1>a DEF LockInv, FunTypes, LinkInv, Connect
  <1>2. ASSUME NEW e \in Endpoints, OpenSession(e) PROVE LockInv'
    BY <1>2, <1>a DEF LockInv, FunTypes, LinkInv, OpenSession
  <1>3. ASSUME NEW e \in Endpoints, ReplaceSession(e) PROVE LockInv'
    BY <1>3, <1>a DEF LockInv, FunTypes, LinkInv, ReplaceSession
  <1>4. ASSUME NEW e \in Endpoints, DisposeOld(e) PROVE LockInv'
    BY <1>4, <1>a DEF LockInv, FunTypes, LinkInv, DisposeOld, CloseWrapper, CloseEndpoint,
       CloseLink, DestroyTransientSession, DestroyPersistentSession
  <1>5. ASSUME NEW e \in Endpoints, BuildWrapper(e) PROVE LockInv'
    BY <1>5, <1>a DEF LockInv, FunTypes, LinkInv, BuildWrapper
  <1>6. ASSUME NEW e \in Endpoints, PutWrapper(e) PROVE LockInv'
    BY <1>6, <1>a DEF LockInv, FunTypes, LinkInv, PutWrapper
  <1>7. ASSUME NEW e \in Endpoints, SaveConnection(e) PROVE LockInv'
    BY <1>7, <1>a DEF LockInv, FunTypes, LinkInv, SaveConnection
  <1>8. ASSUME NEW e \in Endpoints, HandleWillMessage(e) PROVE LockInv'
    BY <1>8, <1>a DEF LockInv, FunTypes, LinkInv, HandleWillMessage
  <1>9. ASSUME NEW e \in Endpoints, RegisterHandlers(e) PROVE LockInv'
    BY <1>9, <1>a DEF LockInv, FunTypes, LinkInv, RegisterHandlers
  <1>10. ASSUME NEW e \in Endpoints, Accept(e) PROVE LockInv'
    BY <1>10, <1>a DEF LockInv, FunTypes, LinkInv, Accept
  <1>11. ASSUME NEW e \in Endpoints, Subscribe(e) PROVE LockInv'
    BY <1>11, <1>a DEF LockInv, FunTypes, LinkInv, Subscribe
  <1>12. ASSUME NEW e \in Endpoints, Drop(e) PROVE LockInv'
    BY <1>12, <1>a DEF LockInv, FunTypes, LinkInv, Drop, CloseLink
  <1>13. ASSUME NEW e \in Endpoints, PublishWill(e) PROVE LockInv'
    BY <1>13, <1>a DEF LockInv, FunTypes, LinkInv, PublishWill
  <1>14. ASSUME NEW e \in Endpoints, DeleteWill(e) PROVE LockInv'
    BY <1>14, <1>a DEF LockInv, FunTypes, LinkInv, DeleteWill
  <1>15. ASSUME NEW e \in Endpoints, DeleteConnection(e) PROVE LockInv'
    BY <1>15, <1>a DEF LockInv, FunTypes, LinkInv, DeleteConnection
  <1>16. ASSUME NEW e \in Endpoints, CloseSession(e) PROVE LockInv'
    BY <1>16, <1>a DEF LockInv, FunTypes, LinkInv, CloseSession
  <1>17. ASSUME NEW e \in Endpoints, LockSession(e) PROVE LockInv'
    BY <1>17, <1>a DEF LockInv, FunTypes, LinkInv, LockSession
  <1>18. ASSUME NEW e \in Endpoints, RemoveSession(e) PROVE LockInv'
    BY <1>18, <1>a DEF LockInv, FunTypes, LinkInv, RemoveSession, DestroyTransientSession
  <1>19. CASE UNCHANGED vars
    BY <1>19 DEF vars, LockInv, FunTypes, LinkInv
  <1>20. QED
    BY <1>1, <1>2, <1>3, <1>4, <1>5, <1>6, <1>7, <1>8, <1>9, <1>10, <1>11, <1>12, <1>13, <1>14,
       <1>15, <1>16, <1>17, <1>18, <1>19 DEF Next, OpenStep, CloseStep, Quiet

\* Every step keeps the owner of the wrapper known and counted.
LEMMA CountStep == TypeOK /\ LinkInv /\ WrapInv /\ CountInv /\ [Next]_vars => CountInv'
  <1> SUFFICES ASSUME TypeOK, LinkInv, WrapInv, CountInv, [Next]_vars
               PROVE  CountInv'
    OBVIOUS
  <1>a. FunTypes
    BY FunTypesOK
  <1>b. connCount \in [Listeners -> Int] /\ connection \in Endpoints \cup {None}
    BY DEF TypeOK
  <1>1. ASSUME NEW e \in Endpoints, Connect(e) PROVE CountInv'
    BY <1>1, <1>a DEF CountInv, ConnectionCounted, FunTypes, LinkInv, WrapInv, IsSameEndpoint,
       Connect
  <1>2. ASSUME NEW e \in Endpoints, OpenSession(e) PROVE CountInv'
    BY <1>2, <1>a DEF CountInv, ConnectionCounted, FunTypes, LinkInv, WrapInv, IsSameEndpoint,
       OpenSession
  <1>3. ASSUME NEW e \in Endpoints, ReplaceSession(e) PROVE CountInv'
    BY <1>3, <1>a DEF CountInv, ConnectionCounted, FunTypes, LinkInv, WrapInv, IsSameEndpoint,
       ReplaceSession
  <1>4. ASSUME NEW e \in Endpoints, DisposeOld(e) PROVE CountInv'
    BY <1>4, <1>a DEF CountInv, ConnectionCounted, FunTypes, LinkInv, WrapInv, IsSameEndpoint,
       DisposeOld, CloseWrapper, CloseEndpoint, CloseLink, DestroyTransientSession,
       DestroyPersistentSession
  <1>5. ASSUME NEW e \in Endpoints, BuildWrapper(e) PROVE CountInv'
    BY <1>5, <1>a DEF CountInv, ConnectionCounted, FunTypes, LinkInv, WrapInv, IsSameEndpoint,
       BuildWrapper
  <1>6. ASSUME NEW e \in Endpoints, PutWrapper(e) PROVE CountInv'
    BY <1>6, <1>a DEF CountInv, ConnectionCounted, FunTypes, LinkInv, WrapInv, IsSameEndpoint,
       PutWrapper
  <1>7. ASSUME NEW e \in Endpoints, SaveConnection(e) PROVE CountInv'
    <2>1. ConnectionCounted'
      <3>1. Listener[e] \in {"tcp", "ws"}
        BY DEF Listeners
      <3>2. QED
        BY <1>7, <1>b, <3>1 DEF CountInv, ConnectionCounted, Listeners, SaveConnection
    <2>2. connection' # None
      BY <1>7 DEF SaveConnection
    <2>3. QED
      BY <2>1, <2>2 DEF CountInv
  <1>8. ASSUME NEW e \in Endpoints, HandleWillMessage(e) PROVE CountInv'
    BY <1>8, <1>a DEF CountInv, ConnectionCounted, FunTypes, LinkInv, WrapInv, IsSameEndpoint,
       HandleWillMessage
  <1>9. ASSUME NEW e \in Endpoints, RegisterHandlers(e) PROVE CountInv'
    BY <1>9, <1>a DEF CountInv, ConnectionCounted, FunTypes, LinkInv, WrapInv, IsSameEndpoint,
       RegisterHandlers
  <1>10. ASSUME NEW e \in Endpoints, Accept(e) PROVE CountInv'
    BY <1>10, <1>a DEF CountInv, ConnectionCounted, FunTypes, LinkInv, WrapInv, IsSameEndpoint,
       Accept
  <1>11. ASSUME NEW e \in Endpoints, Subscribe(e) PROVE CountInv'
    BY <1>11, <1>a DEF CountInv, ConnectionCounted, FunTypes, LinkInv, WrapInv, IsSameEndpoint,
       Subscribe
  <1>12. ASSUME NEW e \in Endpoints, Drop(e) PROVE CountInv'
    BY <1>12, <1>a DEF CountInv, ConnectionCounted, FunTypes, LinkInv, WrapInv, IsSameEndpoint,
       Drop, CloseLink
  <1>13. ASSUME NEW e \in Endpoints, PublishWill(e) PROVE CountInv'
    BY <1>13, <1>a DEF CountInv, ConnectionCounted, FunTypes, LinkInv, WrapInv, IsSameEndpoint,
       PublishWill
  <1>14. ASSUME NEW e \in Endpoints, DeleteWill(e) PROVE CountInv'
    BY <1>14, <1>a DEF CountInv, ConnectionCounted, FunTypes, LinkInv, WrapInv, IsSameEndpoint,
       DeleteWill
  <1>15. ASSUME NEW e \in Endpoints, DeleteConnection(e) PROVE CountInv'
    <2>1. CASE IsSameEndpoint(wrapper, e)
      <3>1. connection # None
        BY <1>15, <2>1, <1>a DEF CountInv, LinkInv, FunTypes, DeleteConnection
      <3>2. Listener[e] \in {"tcp", "ws"}
        BY DEF Listeners
      <3>3. ConnectionCounted'
        BY <1>15, <1>b, <2>1, <3>1, <3>2 DEF CountInv, ConnectionCounted, Listeners,
           DeleteConnection
      <3>4. QED
        BY <1>15, <1>a, <2>1, <3>3 DEF CountInv, FunTypes, IsSameEndpoint, DeleteConnection
    <2>2. CASE ~IsSameEndpoint(wrapper, e)
      BY <1>15, <1>a, <2>2 DEF CountInv, ConnectionCounted, FunTypes, IsSameEndpoint,
         DeleteConnection
    <2>3. QED
      BY <2>1, <2>2
  <1>16. ASSUME NEW e \in Endpoints, CloseSession(e) PROVE CountInv'
    BY <1>16, <1>a DEF CountInv, ConnectionCounted, FunTypes, LinkInv, WrapInv, IsSameEndpoint,
       CloseSession
  <1>17. ASSUME NEW e \in Endpoints, LockSession(e) PROVE CountInv'
    BY <1>17, <1>a DEF CountInv, ConnectionCounted, FunTypes, LinkInv, WrapInv, IsSameEndpoint,
       LockSession
  <1>18. ASSUME NEW e \in Endpoints, RemoveSession(e) PROVE CountInv'
    BY <1>18, <1>a DEF CountInv, ConnectionCounted, FunTypes, LinkInv, WrapInv, IsSameEndpoint,
       RemoveSession, DestroyTransientSession
  <1>19. CASE UNCHANGED vars
    BY <1>19, <1>a DEF vars, CountInv, ConnectionCounted, FunTypes, LinkInv, WrapInv, IsSameEndpoint
  <1>20. QED
    BY <1>1, <1>2, <1>3, <1>4, <1>5, <1>6, <1>7, <1>8, <1>9, <1>10, <1>11, <1>12, <1>13, <1>14,
       <1>15, <1>16, <1>17, <1>18, <1>19 DEF Next, OpenStep, CloseStep, Quiet

\* No step takes back an overlap.
LEMMA CalmBefore == TypeOK /\ [Next]_vars /\ ~overlapped' => ~overlapped
  <1> SUFFICES ASSUME TypeOK, [Next]_vars, ~overlapped'
               PROVE  ~overlapped
    OBVIOUS
  <1>1. CASE UNCHANGED vars
    BY <1>1 DEF vars
  <1>2. ASSUME NEW e \in Endpoints, Connect(e) PROVE ~overlapped
    BY <1>2 DEF Connect
  <1>3. ASSUME NEW e \in Endpoints, OpenStep(e) PROVE ~overlapped
    BY <1>3 DEF OpenStep, OpenSession, ReplaceSession, DisposeOld, BuildWrapper, PutWrapper,
       SaveConnection, HandleWillMessage, RegisterHandlers, Accept
  <1>4. ASSUME NEW e \in Endpoints, Subscribe(e) \/ Drop(e) \/ CloseStep(e) PROVE ~overlapped
    BY <1>4 DEF CloseStep, Subscribe, Drop, PublishWill, DeleteWill, DeleteConnection,
       CloseSession, LockSession, RemoveSession
  <1>5. QED
    BY <1>1, <1>2, <1>3, <1>4 DEF Next, Quiet

\* While no opens overlap, every step keeps them in order.
LEMMA OrderStep == TypeOK /\ LinkInv /\ WrapInv /\ LockInv /\ OrderInv /\ [Next]_vars /\ ~overlapped' => OrderInv'
  <1> SUFFICES ASSUME TypeOK, LinkInv, WrapInv, LockInv, OrderInv, [Next]_vars, ~overlapped'
               PROVE  OrderInv'
    OBVIOUS
  <1>a. FunTypes
    BY FunTypesOK
  <1>1. ASSUME NEW e \in Endpoints, Connect(e) PROVE OrderInv'
    <2>1. \A f \in Endpoints : open[f] \in {"idle", "done"}
      BY <1>1 DEF Connect
    <2>2. QED
      BY <1>1, <1>a, <2>1 DEF OrderInv, FunTypes, IsSameEndpoint, Past, Dispossessed, Connect
  <1>2. ASSUME NEW e \in Endpoints, OpenSession(e) PROVE OrderInv'
    BY <1>2, <1>a DEF OrderInv, FunTypes, LinkInv, WrapInv, LockInv, IsSameEndpoint, Past,
       Dispossessed, OpenSession
  <1>3. ASSUME NEW e \in Endpoints, ReplaceSession(e) PROVE OrderInv'
    BY <1>3, <1>a DEF OrderInv, FunTypes, LinkInv, WrapInv, LockInv, IsSameEndpoint, Past,
       Dispossessed, ReplaceSession
  <1>4. ASSUME NEW e \in Endpoints, DisposeOld(e) PROVE OrderInv'
    BY <1>4, <1>a DEF OrderInv, FunTypes, LinkInv, WrapInv, LockInv, IsSameEndpoint, Past,
       Dispossessed, DisposeOld, CloseWrapper, CloseEndpoint, CloseLink,
       DestroyTransientSession, DestroyPersistentSession
  <1>5. ASSUME NEW e \in Endpoints, BuildWrapper(e) PROVE OrderInv'
    BY <1>5, <1>a DEF OrderInv, FunTypes, LinkInv, WrapInv, LockInv, IsSameEndpoint, Past,
       Dispossessed, BuildWrapper
  <1>6. ASSUME NEW e \in Endpoints, PutWrapper(e) PROVE OrderInv'
    BY <1>6, <1>a DEF OrderInv, FunTypes, LinkInv, WrapInv, LockInv, IsSameEndpoint, Past,
       Dispossessed, PutWrapper
  <1>7. ASSUME NEW e \in Endpoints, SaveConnection(e) PROVE OrderInv'
    BY <1>7, <1>a DEF OrderInv, FunTypes, LinkInv, WrapInv, LockInv, IsSameEndpoint, Past,
       Dispossessed, SaveConnection
  <1>8. ASSUME NEW e \in Endpoints, HandleWillMessage(e) PROVE OrderInv'
    BY <1>8, <1>a DEF OrderInv, FunTypes, LinkInv, WrapInv, LockInv, IsSameEndpoint, Past,
       Dispossessed, HandleWillMessage
  <1>9. ASSUME NEW e \in Endpoints, RegisterHandlers(e) PROVE OrderInv'
    BY <1>9, <1>a DEF OrderInv, FunTypes, LinkInv, WrapInv, LockInv, IsSameEndpoint, Past,
       Dispossessed, RegisterHandlers
  <1>10. ASSUME NEW e \in Endpoints, Accept(e) PROVE OrderInv'
    BY <1>10, <1>a DEF OrderInv, FunTypes, LinkInv, WrapInv, LockInv, IsSameEndpoint, Past,
       Dispossessed, Accept
  <1>11. ASSUME NEW e \in Endpoints, Subscribe(e) PROVE OrderInv'
    BY <1>11, <1>a DEF OrderInv, FunTypes, LinkInv, WrapInv, LockInv, IsSameEndpoint, Past,
       Dispossessed, Subscribe
  <1>12. ASSUME NEW e \in Endpoints, Drop(e) PROVE OrderInv'
    BY <1>12, <1>a DEF OrderInv, FunTypes, LinkInv, WrapInv, LockInv, IsSameEndpoint, Past,
       Dispossessed, Drop, CloseLink
  <1>13. ASSUME NEW e \in Endpoints, PublishWill(e) PROVE OrderInv'
    BY <1>13, <1>a DEF OrderInv, FunTypes, LinkInv, WrapInv, LockInv, IsSameEndpoint, Past,
       Dispossessed, PublishWill
  <1>14. ASSUME NEW e \in Endpoints, DeleteWill(e) PROVE OrderInv'
    BY <1>14, <1>a DEF OrderInv, FunTypes, LinkInv, WrapInv, LockInv, IsSameEndpoint, Past,
       Dispossessed, DeleteWill
  <1>15. ASSUME NEW e \in Endpoints, DeleteConnection(e) PROVE OrderInv'
    BY <1>15, <1>a DEF OrderInv, FunTypes, LinkInv, WrapInv, LockInv, IsSameEndpoint, Past,
       Dispossessed, DeleteConnection
  <1>16. ASSUME NEW e \in Endpoints, CloseSession(e) PROVE OrderInv'
    BY <1>16, <1>a DEF OrderInv, FunTypes, LinkInv, WrapInv, LockInv, IsSameEndpoint, Past,
       Dispossessed, CloseSession
  <1>17. ASSUME NEW e \in Endpoints, LockSession(e) PROVE OrderInv'
    <2>1. wrapper' = wrapper /\ endpointOf' = endpointOf /\ open' = open /\ link' = link /\ old' = old
      BY <1>17 DEF LockSession
    <2>2. ASSUME NEW f \in Endpoints, close'[f] = "remove", same'[f]
          PROVE  IsSameEndpoint(wrapper, f)
      <3>1. CASE f = e
        BY <1>17, <2>2, <3>1 DEF TypeOK, LockSession
      <3>2. CASE f # e
        BY <1>17, <1>a, <2>2, <3>2 DEF OrderInv, FunTypes, LockSession
      <3>3. QED
        BY <3>1, <3>2
    <2>3. QED
      BY <1>a, <2>1, <2>2 DEF OrderInv, FunTypes, IsSameEndpoint, Dispossessed
  <1>18. ASSUME NEW e \in Endpoints, RemoveSession(e) PROVE OrderInv'
    BY <1>18, <1>a DEF OrderInv, FunTypes, LinkInv, WrapInv, LockInv, IsSameEndpoint, Past,
       Dispossessed, RemoveSession, DestroyTransientSession
  <1>19. CASE UNCHANGED vars
    BY <1>19, <1>a DEF vars, OrderInv, FunTypes, LinkInv, WrapInv, LockInv, IsSameEndpoint,
       Past, Dispossessed
  <1>20. QED
    BY <1>1, <1>2, <1>3, <1>4, <1>5, <1>6, <1>7, <1>8, <1>9, <1>10, <1>11, <1>12, <1>13, <1>14,
       <1>15, <1>16, <1>17, <1>18, <1>19 DEF Next, OpenStep, CloseStep, Quiet

\* While no opens overlap, what openSession has read of the old session stays so.
LEMMA KindStep == TypeOK /\ LinkInv /\ WrapInv /\ OrderInv /\ KindInv /\ [Next]_vars /\ ~overlapped' => KindInv'
  <1> SUFFICES ASSUME TypeOK, LinkInv, WrapInv, OrderInv, KindInv, [Next]_vars, ~overlapped'
               PROVE  KindInv'
    OBVIOUS
  <1>a. FunTypes
    BY FunTypesOK
  <1>1. ASSUME NEW e \in Endpoints, Connect(e) PROVE KindInv'
    BY <1>1, <1>a DEF KindInv, Kind, FunTypes, WrapInv, OrderInv, IsSameEndpoint, Connect
  <1>2. ASSUME NEW e \in Endpoints, OpenSession(e) PROVE KindInv'
    <2>1. isPersistent'[e] = (session = "persistent")
      BY <1>2 DEF TypeOK, OpenSession
    <2>2. \A f \in Endpoints \ {e} : isPersistent'[f] = isPersistent[f] /\ open'[f] = open[f]
      BY <1>2 DEF OpenSession, TypeOK
    <2>3. /\ wrapper' = wrapper /\ session' = session /\ old' = old
          /\ (store' <=> store) /\ open'[e] = "lock"
      BY <1>2, <1>a DEF OpenSession, FunTypes
    <2>4. wrapper # None => (isPersistent'[e] <=> wrapper \notin Clean)
      BY <2>1 DEF KindInv, Kind
    <2>5. QED
      BY <2>2, <2>3, <2>4 DEF KindInv, Kind
  <1>3. ASSUME NEW e \in Endpoints, ReplaceSession(e) PROVE KindInv'
    BY <1>3, <1>a DEF KindInv, Kind, FunTypes, WrapInv, OrderInv, IsSameEndpoint, ReplaceSession
  <1>4. ASSUME NEW e \in Endpoints, DisposeOld(e) PROVE KindInv'
    BY <1>4, <1>a DEF KindInv, Kind, FunTypes, WrapInv, OrderInv, IsSameEndpoint, DisposeOld,
       CloseWrapper, CloseEndpoint, CloseLink, DestroyTransientSession, DestroyPersistentSession
  <1>5. ASSUME NEW e \in Endpoints, BuildWrapper(e) PROVE KindInv'
    BY <1>5, <1>a DEF KindInv, Kind, FunTypes, WrapInv, OrderInv, IsSameEndpoint, BuildWrapper
  <1>6. ASSUME NEW e \in Endpoints, PutWrapper(e) PROVE KindInv'
    BY <1>6, <1>a DEF KindInv, Kind, FunTypes, WrapInv, OrderInv, IsSameEndpoint, PutWrapper
  <1>7. ASSUME NEW e \in Endpoints, SaveConnection(e) PROVE KindInv'
    BY <1>7, <1>a DEF KindInv, Kind, FunTypes, WrapInv, OrderInv, IsSameEndpoint, SaveConnection
  <1>8. ASSUME NEW e \in Endpoints, HandleWillMessage(e) PROVE KindInv'
    BY <1>8, <1>a DEF KindInv, Kind, FunTypes, WrapInv, OrderInv, IsSameEndpoint, HandleWillMessage
  <1>9. ASSUME NEW e \in Endpoints, RegisterHandlers(e) PROVE KindInv'
    BY <1>9, <1>a DEF KindInv, Kind, FunTypes, WrapInv, OrderInv, IsSameEndpoint, RegisterHandlers
  <1>10. ASSUME NEW e \in Endpoints, Accept(e) PROVE KindInv'
    BY <1>10, <1>a DEF KindInv, Kind, FunTypes, WrapInv, OrderInv, IsSameEndpoint, Accept
  <1>11. ASSUME NEW e \in Endpoints, Subscribe(e) PROVE KindInv'
    BY <1>11, <1>a DEF KindInv, Kind, FunTypes, WrapInv, OrderInv, IsSameEndpoint, Subscribe
  <1>12. ASSUME NEW e \in Endpoints, Drop(e) PROVE KindInv'
    BY <1>12, <1>a DEF KindInv, Kind, FunTypes, WrapInv, OrderInv, IsSameEndpoint, Drop, CloseLink
  <1>13. ASSUME NEW e \in Endpoints, PublishWill(e) PROVE KindInv'
    BY <1>13, <1>a DEF KindInv, Kind, FunTypes, WrapInv, OrderInv, IsSameEndpoint, PublishWill
  <1>14. ASSUME NEW e \in Endpoints, DeleteWill(e) PROVE KindInv'
    BY <1>14, <1>a DEF KindInv, Kind, FunTypes, WrapInv, OrderInv, IsSameEndpoint, DeleteWill
  <1>15. ASSUME NEW e \in Endpoints, DeleteConnection(e) PROVE KindInv'
    BY <1>15, <1>a DEF KindInv, Kind, FunTypes, WrapInv, OrderInv, IsSameEndpoint, DeleteConnection
  <1>16. ASSUME NEW e \in Endpoints, CloseSession(e) PROVE KindInv'
    BY <1>16, <1>a DEF KindInv, Kind, FunTypes, WrapInv, OrderInv, IsSameEndpoint, CloseSession
  <1>17. ASSUME NEW e \in Endpoints, LockSession(e) PROVE KindInv'
    BY <1>17, <1>a DEF KindInv, Kind, FunTypes, WrapInv, OrderInv, IsSameEndpoint, LockSession
  <1>18. ASSUME NEW e \in Endpoints, RemoveSession(e) PROVE KindInv'
    BY <1>18, <1>a DEF KindInv, Kind, FunTypes, WrapInv, OrderInv, IsSameEndpoint,
       RemoveSession, DestroyTransientSession
  <1>19. CASE UNCHANGED vars
    BY <1>19, <1>a DEF vars, KindInv, Kind, FunTypes, WrapInv, OrderInv, IsSameEndpoint
  <1>20. QED
    BY <1>1, <1>2, <1>3, <1>4, <1>5, <1>6, <1>7, <1>8, <1>9, <1>10, <1>11, <1>12, <1>13, <1>14,
       <1>15, <1>16, <1>17, <1>18, <1>19 DEF Next, OpenStep, CloseStep, Quiet

-----------------------------------------------------------------------------
(* The inductive invariant.                                                *)

Inv ==
    /\ TypeOK
    /\ LinkInv
    /\ WrapInv
    /\ CountInv
    /\ CloseInv
    /\ LockInv
    /\ CalmInv

\* The invariant holds initially.
LEMMA InitInv == Init => Inv
  <1> SUFFICES ASSUME Init PROVE Inv
    OBVIOUS
  <1>1. TypeOK
    BY InitTypes
  <1>2. LinkInv /\ LockInv
    BY DEF Init, LinkInv, LockInv
  <1>3. WrapInv
    BY DEF Init, WrapInv, Early
  <1>4. CountInv
    <2>1. connCount["tcp"] = 0 /\ connCount["ws"] = 0
      BY DEF Init, Listeners
    <2>2. QED
      BY <2>1 DEF Init, CountInv, ConnectionCounted, IsSameEndpoint
  <1>5. CloseInv
    BY DEF Init, CloseInv, IsSameEndpoint
  <1>6. OrderInv /\ KindInv
    BY DEF Init, OrderInv, KindInv, Past
  <1>7. QED
    BY <1>1, <1>2, <1>3, <1>4, <1>5, <1>6 DEF Inv, CalmInv

\* Every step keeps the invariant.
LEMMA InvStep == Inv /\ [Next]_vars => Inv'
  <1> SUFFICES ASSUME Inv, [Next]_vars PROVE Inv'
    OBVIOUS
  <1>1. TypeOK' /\ LinkInv' /\ WrapInv' /\ LockInv'
    BY TypeStep, LinkStep, WrapStep, LockStep DEF Inv
  <1>2. CountInv' /\ CloseInv'
    BY CountStep, CloseStepInv DEF Inv
  <1>3. ASSUME ~overlapped' PROVE OrderInv' /\ KindInv'
    <2>1. OrderInv /\ KindInv
      BY <1>3, CalmBefore DEF Inv, CalmInv
    <2>2. QED
      BY <1>3, <2>1, OrderStep, KindStep DEF Inv
  <1>4. QED
    BY <1>1, <1>2, <1>3 DEF Inv, CalmInv

\* The invariant always holds.
LEMMA InvAlways == Spec => []Inv
  BY InitInv, InvStep, PTL DEF Spec

-----------------------------------------------------------------------------
(* The theorems.                                                           *)

\* Every variable of the connections keeps its type: in particular the map of
\* wrappers never holds a wrapper without an endpoint, whichever openSession
\* reuses or builds one.
THEOREM LifecycleTypes == Spec => []TypeOK
  <1>1. Inv => TypeOK
    BY DEF Inv
  <1>2. QED
    BY <1>1, InvAlways, PTL

\* saveConnection and deleteConnection keep the listeners' counts right: a
\* client counts once while its connection is known, through any number of
\* takeovers and late closes, overlapping ones included.
THEOREM CountsTheClientOnce == Spec => []ConnectionCounted
  <1>1. Inv => ConnectionCounted
    BY DEF Inv, CountInv
  <1>2. QED
    BY <1>1, InvAlways, PTL

\* Once the handlers have run, no closed connection whose closeHandler was
\* registered has the session: closeSession or a takeover has taken it.
THEOREM NoSessionOfTheClosed == Spec => []ClosedReleased
  <1>1. ASSUME Inv PROVE ClosedReleased
    <2> SUFFICES ASSUME AtRest, NEW e \in watched, link[e] = "closed"
                 PROVE  ~IsSameEndpoint(wrapper, e)
      BY DEF ClosedReleased
    <2>1. e \in Endpoints
      BY <1>1 DEF Inv, TypeOK
    <2>2. close[e] = "done"
      BY <1>1, <2>1 DEF Inv, LinkInv, AtRest
    <2>3. QED
      BY <1>1, <2>1, <2>2 DEF Inv, CloseInv
  <1>2. QED
    BY <1>1, InvAlways, PTL

\* When the connections of a client open one after the other, every accepted
\* connection that is still open has the session when the handlers have run:
\* openSession has closed the older ones, and no handleClose of an older one has
\* taken the session of the newer one.
THEOREM OpenConnectionHasSession == Spec => []AcceptedOwnsSession
  <1>1. ASSUME Inv PROVE AcceptedOwnsSession
    <2> SUFFICES ASSUME AtRest, ~overlapped, NEW e \in Endpoints, link[e] = "open"
                 PROVE  IsSameEndpoint(wrapper, e)
      BY DEF AcceptedOwnsSession
    <2>1. OrderInv
      BY <1>1 DEF Inv, CalmInv
    <2>2. open[e] = "done"
      BY <1>1 DEF Inv, LinkInv
    <2>3. ~Dispossessed(e)
      BY DEF AtRest, Dispossessed
    <2>4. QED
      BY <2>1, <2>2, <2>3 DEF OrderInv, Past
  <1>2. QED
    BY <1>1, InvAlways, PTL

\* The session cache agrees with the wrapper in the map, and the caches of a
\* persistent wrapper exist: what openSession decided from isPersistentSession,
\* read before the lock, was still so when it closed or reused the old wrapper.
THEOREM SessionMatchesWrapper == Spec => []SessionIntact
  <1>1. Inv => SessionIntact
    BY DEF Inv, CalmInv, KindInv, Kind, SessionIntact
  <1>2. QED
    BY <1>1, InvAlways, PTL

\* Only a connection with cleanSession = true destroys the queue and inflight
\* caches of a persistent session.
THEOREM OnlyCleanDestroys == Spec => PersistentStateKept
  <1> DEFINE Kept == store /\ ~store' /\ ~overlapped => \E e \in Clean : open[e] = "old"
  <1>1. ASSUME Inv, [Next]_vars PROVE [Kept]_vars
    <2> SUFFICES ASSUME store, ~store', ~overlapped, Next
                 PROVE  \E e \in Clean : open[e] = "old"
      BY <1>1
    <2>1. ASSUME NEW e \in Endpoints, DisposeOld(e) PROVE \E f \in Clean : open[f] = "old"
      <3>1. open[e] = "old"
        BY <2>1 DEF DisposeOld
      <3>2. old[e] # None => (isPersistent[e] <=> old[e] \notin Clean)
        BY <1>1, <3>1 DEF Inv, CalmInv, KindInv
      <3>3. e \in Clean
        BY <2>1, <3>2 DEF DisposeOld, CloseWrapper, DestroyTransientSession,
           DestroyPersistentSession
      <3>4. QED
        BY <3>1, <3>3
    <2>2. ASSUME NEW e \in Endpoints, BuildWrapper(e) PROVE FALSE
      BY <2>2 DEF BuildWrapper
    <2>3. ASSUME NEW e \in Endpoints, RemoveSession(e) PROVE FALSE
      BY <2>3 DEF RemoveSession, DestroyTransientSession
    <2>4. \E e \in Endpoints : DisposeOld(e) \/ BuildWrapper(e) \/ RemoveSession(e)
      <3>1. PICK e \in Endpoints : Connect(e) \/ OpenStep(e) \/ Subscribe(e) \/ Drop(e) \/ CloseStep(e)
        BY DEF Next, Quiet, vars, storeVars
      <3>2. QED
        BY <3>1 DEF OpenStep, CloseStep, Connect, OpenSession, ReplaceSession, PutWrapper,
           SaveConnection, HandleWillMessage, RegisterHandlers, Accept, Subscribe, Drop,
           PublishWill, DeleteWill, DeleteConnection, CloseSession, LockSession
    <2>5. QED
      BY <2>1, <2>2, <2>3, <2>4
  <1>2. QED
    BY <1>1, InvAlways, PTL DEF Spec, PersistentStateKept

\* A step that removes subscriptions, a takeover or a handleClose, removes none
\* of a connection that stays open.
THEOREM SubscriptionsOfTheLiving == Spec => SubscriptionsKept
  <1> DEFINE Kept == ~overlapped => \A e \in routers \ routers' : link'[e] = "closed"
  <1>1. ASSUME Inv, [Next]_vars PROVE [Kept]_vars
    <2> SUFFICES ASSUME ~overlapped, Next, NEW e \in routers \ routers'
                 PROVE  link'[e] = "closed"
      BY <1>1
    <2>1. FunTypes /\ LinkInv /\ OrderInv
      BY <1>1, FunTypesOK DEF Inv, CalmInv
    <2>2. e \in Endpoints
      BY <1>1 DEF Inv, TypeOK
    <2>3. link[e] = "closed" \/ (link[e] = "open" /\ (IsSameEndpoint(wrapper, e) \/ Dispossessed(e)))
      BY <2>1, <2>2 DEF LinkInv, OrderInv, Past
    <2>4. ASSUME NEW f \in Endpoints, DisposeOld(f) PROVE link'[e] = "closed"
      <3>1. CASE link[e] = "closed"
        BY <2>1, <2>2, <2>4, <3>1 DEF FunTypes, DisposeOld, CloseWrapper, CloseEndpoint, CloseLink
      <3>2. CASE link[e] = "open" /\ (IsSameEndpoint(wrapper, e) \/ Dispossessed(e))
        <4>1. old[f] # None /\ endpointOf[old[f]] = e
          BY <2>1, <2>4, <3>2 DEF OrderInv, DisposeOld, IsSameEndpoint, Dispossessed
        <4>2. QED
          BY <2>1, <2>2, <2>4, <3>2, <4>1 DEF FunTypes, DisposeOld, CloseWrapper, CloseEndpoint,
             CloseLink
      <3>3. QED
        BY <2>3, <3>1, <3>2
    <2>5. ASSUME NEW f \in Endpoints, RemoveSession(f) PROVE link'[e] = "closed"
      <3>1. same[f] /\ close[f] = "remove" /\ link' = link
        BY <2>5 DEF RemoveSession, storeVars
      <3>2. IsSameEndpoint(wrapper, f) /\ link[f] = "closed"
        BY <2>1, <3>1 DEF OrderInv, LinkInv
      <3>3. ~Dispossessed(e)
        BY <2>1, <3>2 DEF OrderInv, Dispossessed, IsSameEndpoint
      <3>4. QED
        BY <2>3, <3>1, <3>2, <3>3 DEF IsSameEndpoint
    <2>6. \E f \in Endpoints : DisposeOld(f) \/ RemoveSession(f)
      <3>1. PICK f \in Endpoints : Connect(f) \/ OpenStep(f) \/ Subscribe(f) \/ Drop(f) \/ CloseStep(f)
        BY DEF Next, Quiet, vars
      <3>2. QED
        BY <3>1 DEF OpenStep, CloseStep, Connect, OpenSession, ReplaceSession, BuildWrapper,
           PutWrapper, SaveConnection, HandleWillMessage, RegisterHandlers, Accept, Subscribe,
           Drop, PublishWill, DeleteWill, DeleteConnection, CloseSession, LockSession
    <2>7. QED
      BY <2>4, <2>5, <2>6
  <1>2. QED
    BY <1>1, InvAlways, PTL DEF Spec, SubscriptionsKept
=============================================================================
