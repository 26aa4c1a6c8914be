---------------------------- MODULE RoutingProofs ----------------------------
(***************************************************************************)
(* Theorems about Routing, for any clients, filters, messages and workers. *)
(* The counts of the trie need TypeOK alone; the lookup, the bound on the   *)
(* retained messages and their delivery rest on RoutingSafe, below.         *)
(***************************************************************************)
EXTENDS Routing, FiniteSetTheorems, SequenceTheorems, TLAPS

USE RoutingAssumption
USE DEF Goto, tables, lookupVars, workerVars, lookupHistory

\* There are finitely many subscriptions through a trie node.
LEMMA ThroughFinite ==
    ASSUME NEW n \in Nodes
    PROVE  IsFiniteSet(Through(n)) /\ Cardinality(Through(n)) \in Nat
  <1>1. IsFiniteSet(Clients \X Filters)
    BY FS_Product
  <1>2. Through(n) \subseteq Clients \X Filters
    BY DEF Through
  <1>3. QED
    BY <1>1, <1>2, FS_Subset, FS_CardinalityType

\* A transaction of save keeps the counts exact.
LEMMA SaveKeepsCounts ==
    ASSUME router \in [Clients -> [Filters -> Qoss \cup {None}]],
           trie \in [Nodes -> Nat], TrieCounts,
           NEW c \in Clients, NEW f \in Filters, NEW q \in Qoss,
           SaveRouter(c, f, q)
    PROVE  TrieCounts'
  <1> SUFFICES ASSUME NEW n \in Nodes
               PROVE  trie'[n] = Cardinality(Through(n)')
    BY DEF TrieCounts
  <1> DEFINE here == IsWildcard(f) /\ n \in topic2Trie(f)
  <1>1. trie[n] = Cardinality(Through(n))
    BY DEF TrieCounts
  <1>2. q # None
    OBVIOUS
  <1>3. /\ router'[c][f] = q
        /\ \A d \in Clients, g \in Filters :
             <<d, g>> # <<c, f>> => router'[d][g] = router[d][g]
    BY DEF SaveRouter
  <1>4. CASE router[c][f] = None /\ here
    <2>1. <<c, f>> \notin Through(n)
      BY <1>4 DEF Through
    <2>2. Through(n)' = Through(n) \cup {<<c, f>>}
      BY <1>2, <1>3, <1>4 DEF Through
    <2>3. trie'[n] = trie[n] + 1
      BY <1>4 DEF SaveRouter
    <2>4. QED
      BY <1>1, <2>1, <2>2, <2>3, ThroughFinite, FS_AddElement, ZenonT(60)
  <1>5. CASE ~(router[c][f] = None /\ here)
    <2>1. Through(n)' = Through(n)
      BY <1>2, <1>3, <1>5 DEF Through
    <2>2. trie'[n] = trie[n]
      BY <1>5 DEF SaveRouter
    <2>3. QED
      BY <1>1, <2>1, <2>2
  <1>6. QED
    BY <1>4, <1>5

\* A transaction of delete keeps the counts exact.
LEMMA DeleteKeepsCounts ==
    ASSUME router \in [Clients -> [Filters -> Qoss \cup {None}]],
           trie \in [Nodes -> Nat], TrieCounts,
           NEW c \in Clients, NEW f \in Filters,
           DeleteRouter(c, f)
    PROVE  TrieCounts'
  <1> SUFFICES ASSUME NEW n \in Nodes
               PROVE  trie'[n] = Cardinality(Through(n)')
    BY DEF TrieCounts
  <1> DEFINE here == IsWildcard(f) /\ n \in topic2Trie(f)
  <1>1. trie[n] = Cardinality(Through(n)) /\ trie[n] \in Nat
    BY DEF TrieCounts
  <1>2. /\ router'[c][f] = None
        /\ \A d \in Clients, g \in Filters :
             <<d, g>> # <<c, f>> => router'[d][g] = router[d][g]
    BY DEF DeleteRouter
  <1>3. CASE router[c][f] # None /\ here
    <2>1. <<c, f>> \in Through(n)
      BY <1>3 DEF Through
    <2>2. Through(n)' = Through(n) \ {<<c, f>>}
      BY <1>2, <1>3 DEF Through
    <2>3. /\ Cardinality(Through(n)') = Cardinality(Through(n)) - 1
          /\ Cardinality(Through(n)') \in Nat
      BY <2>1, <2>2, ThroughFinite, FS_RemoveElement, FS_CardinalityType
    <2>4. trie[n] > 0
      BY <1>1, <2>3
    <2>5. trie'[n] = trie[n] - 1
      BY <1>3, <2>4 DEF DeleteRouter
    <2>6. QED
      BY <1>1, <2>3, <2>5
  <1>4. CASE ~(router[c][f] # None /\ here)
    <2>1. Through(n)' = Through(n)
      BY <1>2, <1>4 DEF Through
    <2>2. trie'[n] = trie[n]
      BY <1>4 DEF DeleteRouter
    <2>3. QED
      BY <1>1, <2>1, <2>2
  <1>5. QED
    BY <1>3, <1>4

\* Types and counts hold initially.
LEMMA InitInv == Init => TypeOK /\ TrieCounts
  <1> SUFFICES ASSUME Init PROVE TypeOK /\ TrieCounts
    OBVIOUS
  <1>1. TypeOK
    BY DEF Init, TypeOK, Places
  <1>2. ASSUME NEW n \in Nodes
        PROVE  trie[n] = Cardinality(Through(n))
    <2>1. Through(n) = {}
      BY DEF Init, Through
    <2>2. QED
      BY <2>1, FS_EmptySet DEF Init
  <1>3. QED
    BY <1>1, <1>2 DEF TrieCounts

\* A save leaves the tables well typed.
LEMMA SaveTyped ==
    ASSUME TypeOK, NEW c \in Clients, NEW f \in Filters, NEW q \in Qoss,
           SaveRouter(c, f, q)
    PROVE  /\ router' \in [Clients -> [Filters -> Qoss \cup {None}]]
           /\ trie' \in [Nodes -> Nat]
  BY DEF TypeOK, SaveRouter

\* A delete leaves the tables and the history of the lookups well typed.
LEMMA DeleteTyped ==
    ASSUME TypeOK, NEW c \in Clients, NEW f \in Filters, DeleteRouter(c, f)
    PROVE  /\ router' \in [Clients -> [Filters -> Qoss \cup {None}]]
           /\ trie' \in [Nodes -> Nat]
           /\ stable' \in [Workers -> SUBSET (Clients \X Filters)]
  BY DEF TypeOK, DeleteRouter, LookingUp

\* Every step preserves the types.
LEMMA TypeStep == TypeOK /\ [Next]_vars => TypeOK'
  <1> SUFFICES ASSUME TypeOK, [Next]_vars
               PROVE  TypeOK'
    OBVIOUS
  <1>1. ASSUME NEW c \in Clients, NEW f \in Filters, NEW q \in Qoss,
               Subscribe(c, f, q)
        PROVE  TypeOK'
    BY <1>1, SaveTyped DEF Subscribe, TypeOK
  <1>2. ASSUME NEW c \in Clients, NEW f \in Filters, Unsubscribe(c, f)
        PROVE  TypeOK'
    BY <1>2, DeleteTyped DEF Unsubscribe, TypeOK
  <1>3. ASSUME NEW c \in Clients, NEW f \in Filters, PublishRetained(c, f)
        PROVE  TypeOK'
    BY <1>3 DEF PublishRetained, TypeOK
  <1>4. ASSUME NEW c \in Clients, DeleteClient(c)
        PROVE  TypeOK'
    BY <1>4 DEF DeleteClient, TypeOK
  <1>5. ASSUME NEW c \in Clients, DeleteClientTopic(c)
        PROVE  TypeOK'
    <2>1. PICK f \in purge[c] :
             /\ DeleteRouter(c, f)
             /\ purge' = [purge EXCEPT ![c] = @ \ {f}]
             /\ UNCHANGED <<retains, scans, workerVars, seen, handled, got>>
      BY <1>5 DEF DeleteClientTopic
    <2>2. f \in Filters
      BY DEF TypeOK
    <2>3. QED
      BY <2>1, <2>2, DeleteTyped DEF TypeOK
  <1>6. ASSUME NEW w \in Workers, NEW m \in Msgs, HandlePublish(w, m)
        PROVE  TypeOK'
    BY <1>6 DEF HandlePublish, TypeOK, Places
  <1>7. ASSUME NEW w \in Workers, HandleRetainMessage(w)
        PROVE  TypeOK'
    BY <1>7 DEF HandleRetainMessage, TypeOK, Places
  <1>8. ASSUME NEW w \in Workers, RetainContains(w)
        PROVE  TypeOK'
    BY <1>8 DEF RetainContains, TypeOK, Places
  <1>9. ASSUME NEW w \in Workers, RetainPut(w)
        PROVE  TypeOK'
    BY <1>9 DEF RetainPut, TypeOK, Places
  <1>10. ASSUME NEW w \in Workers, RetainSize(w)
        PROVE  TypeOK'
    BY <1>10 DEF RetainSize, TypeOK, Places
  <1>11. ASSUME NEW w \in Workers, RetainPutNew(w)
        PROVE  TypeOK'
    BY <1>11 DEF RetainPutNew, TypeOK, Places
  <1>12. ASSUME NEW w \in Workers, GetMatches(w)
        PROVE  TypeOK'
    <2>1. topic(w) \in Published
      BY <1>12 DEF GetMatches, TypeOK, topic, Published
    <2>2. Subscriptions \subseteq Clients \X Filters
      BY DEF Subscriptions
    <2>3. QED
      BY <1>12, <2>1, <2>2 DEF GetMatches, TypeOK, Places
  <1>13. ASSUME NEW w \in Workers, QueryMatches(w)
        PROVE  TypeOK'
    <2>1. \A call : Found(call) \subseteq Nodes
      BY DEF Found, trieNodes
    <2>2. QED
      BY <1>13, <2>1 DEF QueryMatches, TypeOK
  <1>14. ASSUME NEW w \in Workers, GetRoutes(w)
        PROVE  TypeOK'
    BY <1>14 DEF GetRoutes, TypeOK, Places
  <1>15. ASSUME NEW w \in Workers, Deliver(w)
        PROVE  TypeOK'
    BY <1>15 DEF Deliver, TypeOK, Places
  <1>16. ASSUME NEW t \in Published, RetainExpire(t)
        PROVE  TypeOK'
    BY <1>16 DEF RetainExpire, TypeOK
  <1>17. CASE UNCHANGED vars
    BY <1>17 DEF vars, TypeOK
  <1>18. QED
    BY <1>1, <1>2, <1>3, <1>4, <1>5, <1>6, <1>7, <1>8, <1>9, <1>10, <1>11,
       <1>12, <1>13, <1>14, <1>15, <1>16, <1>17 DEF Next, PublishStep

\* Every step keeps the counts of the trie exact.
LEMMA CountStep == TypeOK /\ TrieCounts /\ [Next]_vars => TrieCounts'
  <1> SUFFICES ASSUME TypeOK, TrieCounts, [Next]_vars
               PROVE  TrieCounts'
    OBVIOUS
  <1>0. router \in [Clients -> [Filters -> Qoss \cup {None}]] /\ trie \in [Nodes -> Nat]
    BY DEF TypeOK
  <1>1. ASSUME NEW c \in Clients, NEW f \in Filters, NEW q \in Qoss,
               Subscribe(c, f, q)
        PROVE  TrieCounts'
    BY <1>0, <1>1, SaveKeepsCounts DEF Subscribe
  <1>2. ASSUME NEW c \in Clients, NEW f \in Filters, Unsubscribe(c, f)
        PROVE  TrieCounts'
    BY <1>0, <1>2, DeleteKeepsCounts DEF Unsubscribe
  <1>3. ASSUME NEW c \in Clients, DeleteClientTopic(c)
        PROVE  TrieCounts'
    <2>1. PICK f \in purge[c] : DeleteRouter(c, f)
      BY <1>3 DEF DeleteClientTopic
    <2>2. f \in Filters
      BY DEF TypeOK
    <2>3. QED
      BY <1>0, <2>1, <2>2, DeleteKeepsCounts
  <1>4. CASE UNCHANGED <<router, trie>>
    BY <1>4 DEF TrieCounts, Through
  <1>5. ASSUME NEW w \in Workers, PublishStep(w)
        PROVE  UNCHANGED <<router, trie>>
    BY <1>5 DEF PublishStep, HandleRetainMessage, RetainContains, RetainPut,
       RetainSize, RetainPutNew, GetMatches, QueryMatches, GetRoutes, Deliver
  <1>6. QED
    BY <1>1, <1>2, <1>3, <1>4, <1>5 DEF Next, vars, PublishRetained,
       DeleteClient, HandlePublish, RetainExpire

\* For any number of clients, workers and messages, every table, task and
\* worker keeps its type; no trie count drops below zero.
THEOREM RoutingTypes == Spec => []TypeOK
  <1>1. TypeOK /\ [Next]_vars => TypeOK'
    BY TypeStep
  <1>2. QED
    BY <1>1, InitInv, PTL DEF Spec

\* RouterCacheImpl.save and delete keep the reference count of every trie node
\* equal to the number of wildcard subscriptions through it, whatever clients
\* subscribe, unsubscribe and disappear in whatever order.
THEOREM TrieCountsExact == Spec => []TrieCounts
  <1>1. TypeOK /\ TrieCounts /\ [Next]_vars => (TypeOK /\ TrieCounts)'
    BY TypeStep, CountStep
  <1>2. QED
    BY <1>1, InitInv, PTL DEF Spec

-----------------------------------------------------------------------------
(* The lookup of a topic                                                    *)

\* A call of queryMatches for topic t has come down a path that matches the
\* first words of t, and has the rest of them to go, or `#' after the last.
CallOK(call, t) ==
    LET k == Len(call.parent) IN
    /\ call.parent \in Seq(Level) /\ k <= Len(t)
    /\ \A i \in 1..k : call.parent[i] \in {t[i], Plus}
    /\ call.words \in Seq(Level) /\ call.words # <<>>
    /\ k < Len(t) =>
         Len(call.words) = Len(t) - k /\ \A i \in 1..Len(call.words) : call.words[i] = t[k + i]
    /\ k = Len(t) => call.words = <<Pound>>

\* The call is on the path of filter f.
Leads(call, f) ==
    Len(call.parent) < Len(f) /\ \A i \in 1..Len(call.parent) : call.parent[i] = f[i]

\* The two wildcards are levels of a topic.
LEMMA WildcardLevels == Plus \in Level /\ Pound \in Level
  BY DEF Level

\* The first of the words that are left is the next word of the topic.
LEMMA NextWord ==
    ASSUME NEW t \in Topic, NEW call, CallOK(call, t)
    PROVE  LET k == Len(call.parent) IN
           /\ k \in Nat /\ Len(t) \in Nat /\ k <= Len(t) /\ call.parent \in Seq(Level)
           /\ call.words \in Seq(Level) /\ Len(call.words) \in Nat \ {0}
           /\ Head(call.words) = call.words[1]
           /\ k < Len(t) => Len(call.words) = Len(t) - k /\ call.words[1] = t[k + 1]
           /\ k = Len(t) => call.words = <<Pound>>
  <1>1. call.words \in Seq(Level) /\ call.words # <<>> /\ call.parent \in Seq(Level)
    BY DEF CallOK
  <1>2. Len(call.words) \in Nat \ {0} /\ Head(call.words) = call.words[1] /\ Len(call.parent) \in Nat
    BY <1>1
  <1>3. 1 \in 1..Len(call.words)
    BY <1>2
  <1>4. Len(t) \in Nat
    BY DEF Topic
  <1>5. Len(call.parent) <= Len(t) /\ (Len(call.parent) = Len(t) => call.words = <<Pound>>)
    BY DEF CallOK
  <1>6. ASSUME Len(call.parent) < Len(t)
        PROVE  Len(call.words) = Len(t) - Len(call.parent) /\ call.words[1] = t[Len(call.parent) + 1]
    BY <1>3, <1>6 DEF CallOK
  <1>7. QED
    BY <1>1, <1>2, <1>4, <1>5, <1>6

\* The calls a call of queryMatches leads to, in one formula.
LEMMA FurtherCalls ==
    ASSUME NEW call, NEW c
    PROVE  c \in Further(call) <=>
             /\ call.words # <<Pound>>
             /\ \E n \in trieNodes(call.parent, Head(call.words)) :
                  /\ ~IsPound(n)
                  /\ c = IF Len(call.words) > 1 THEN [parent |-> n, words |-> Tail(call.words)]
                                                ELSE [parent |-> n, words |-> <<Pound>>]
  BY DEF Further

\* The children a call asks for: one word longer, with a wildcard or the next word.
LEMMA Children ==
    ASSUME NEW t \in Topic, NEW call, CallOK(call, t),
           NEW n \in trieNodes(call.parent, Head(call.words))
    PROVE  LET k == Len(call.parent) IN
           /\ n \in Seq(Level) /\ Len(n) = k + 1
           /\ \A i \in 1..k : n[i] = call.parent[i]
           /\ n[k + 1] \in {Plus, Pound, call.words[1]}
  <1> DEFINE p == call.parent
  <1>1. PICK x \in {Plus, Pound, Head(call.words)} : n = Append(p, x)
    BY DEF trieNodes
  <1>2. Head(call.words) = call.words[1] /\ call.words[1] \in Level
    BY DEF CallOK
  <1>3. x \in Level /\ p \in Seq(Level)
    BY <1>2, WildcardLevels DEF CallOK
  <1>4. /\ Append(p, x) \in Seq(Level) /\ Len(Append(p, x)) = Len(p) + 1
        /\ \A i \in 1..Len(p) : Append(p, x)[i] = p[i]
        /\ Append(p, x)[Len(p) + 1] = x
    BY <1>3, AppendProperties
  <1>5. QED
    BY <1>1, <1>2, <1>4

\* What a call finds matches the topic.
LEMMA FoundMatches ==
    ASSUME NEW t \in Topic, ~IsWildcard(t), NEW call, CallOK(call, t), NEW n \in Found(call)
    PROVE  Matches(n, t)
  <1> DEFINE k == Len(call.parent)
  <1>1. n \in trieNodes(call.parent, Head(call.words))
    BY DEF Found
  <1>2. /\ n \in Seq(Level) /\ Len(n) = k + 1
        /\ \A i \in 1..k : n[i] = call.parent[i]
        /\ n[k + 1] \in {Plus, Pound, call.words[1]}
    BY <1>1, Children
  <1>3. k \in Nat /\ Len(t) \in Nat /\ k <= Len(t)
    BY DEF CallOK, Topic
  <1>4. \A i \in 1..k : n[i] \in {t[i], Plus}
    BY <1>2 DEF CallOK
  <1>5. CASE IsPound(n)
    <2>1. n[Len(n)] = Pound /\ Len(n) <= Len(t) + 1 /\ \A i \in 1..(Len(n) - 1) : n[i] \in {t[i], Plus}
      BY <1>2, <1>3, <1>4, <1>5 DEF IsPound
    <2>2. QED
      BY <2>1 DEF Matches
  <1>6. CASE ~IsPound(n)
    <2>1. Len(call.words) = 1 /\ call.words # <<Pound>>
      BY <1>6 DEF Found
    <2>2. k < Len(t) /\ Len(t) = k + 1 /\ call.words[1] = t[k + 1]
      BY <2>1, <1>3 DEF CallOK
    <2>3. n[k + 1] \in {t[k + 1], Plus}
      BY <1>2, <1>6, <2>2 DEF IsPound
    <2>4. Len(n) = Len(t) /\ \A i \in 1..Len(n) : n[i] \in {t[i], Plus}
      BY <1>2, <1>3, <1>4, <2>2, <2>3
    <2>5. QED
      BY <2>4 DEF Matches
  <1>7. QED
    BY <1>5, <1>6

\* The calls a call leads to are calls for the same topic.
LEMMA FurtherOK ==
    ASSUME NEW t \in Topic, NEW call, CallOK(call, t), NEW c \in Further(call)
    PROVE  CallOK(c, t)
  <1> DEFINE k == Len(call.parent)
             n == c.parent
  <1>1. /\ call.words # <<Pound>>
        /\ n \in trieNodes(call.parent, Head(call.words)) /\ ~IsPound(n)
        /\ IF Len(call.words) > 1 THEN c.words = Tail(call.words) ELSE c.words = <<Pound>>
    <2>1. call.words # <<Pound>>
      BY FurtherCalls
    <2>2. PICK m \in trieNodes(call.parent, Head(call.words)) :
            /\ ~IsPound(m)
            /\ c = IF Len(call.words) > 1 THEN [parent |-> m, words |-> Tail(call.words)]
                                          ELSE [parent |-> m, words |-> <<Pound>>]
      BY FurtherCalls
    <2>3. QED
      BY <2>1, <2>2
  <1>2. /\ n \in Seq(Level) /\ Len(n) = k + 1
        /\ \A i \in 1..k : n[i] = call.parent[i]
        /\ n[k + 1] \in {Plus, Pound, call.words[1]}
    BY <1>1, Children
  <1>3. k \in Nat /\ Len(t) \in Nat /\ k < Len(t)
    BY <1>1 DEF CallOK, Topic
  <1>4. call.words \in Seq(Level) /\ call.words # <<>> /\ Len(call.words) = Len(t) - k
        /\ \A i \in 1..Len(call.words) : call.words[i] = t[k + i]
    BY <1>3 DEF CallOK
  <1>5. \A i \in 1..Len(n) : n[i] \in {t[i], Plus}
    <2>1. \A i \in 1..k : n[i] \in {t[i], Plus}
      BY <1>2 DEF CallOK
    <2>2. n[Len(n)] # Pound
      BY <1>1 DEF IsPound
    <2>3. n[k + 1] \in {t[k + 1], Plus}
      BY <1>2, <1>3, <2>2, NextWord
    <2>4. \A i \in 1..k + 1 : i \in 1..k \/ i = k + 1
      BY <1>3
    <2>5. QED
      BY <1>2, <2>1, <2>3, <2>4
  <1>6. Len(n) \in Nat /\ Len(n) <= Len(t) /\ Len(call.words) = Len(t) - k
    BY <1>2, <1>3, <1>4
  <1> HIDE DEF n, k
  <1>7. CASE Len(call.words) > 1
    <2>1. /\ c.words \in Seq(Level) /\ Len(c.words) = Len(call.words) - 1
          /\ \A i \in 1..Len(c.words) : c.words[i] = call.words[i + 1]
      <3>1. c.words = Tail(call.words)
        BY <1>1, <1>7
      <3>2. QED
        BY <1>4, <3>1, HeadTailProperties
    <2>2. Len(n) < Len(t) /\ Len(c.words) = Len(t) - Len(n) /\ Len(c.words) > 0
      <3>1. Len(n) = k + 1 /\ Len(c.words) = Len(call.words) - 1
        BY <1>2, <2>1
      <3>2. QED
        BY <1>3, <1>6, <1>7, <3>1
    <2>3. \A i \in 1..Len(c.words) : c.words[i] = t[Len(n) + i]
      <3>1. SUFFICES ASSUME NEW i \in 1..Len(c.words) PROVE c.words[i] = t[Len(n) + i]
        OBVIOUS
      <3>2. i + 1 \in 1..Len(call.words) /\ k + (i + 1) = Len(n) + i
        <4>1. Len(c.words) = Len(call.words) - 1 /\ Len(n) = k + 1
          BY <1>2, <2>1
        <4>2. QED
          BY <1>3, <1>6, <4>1
      <3>3. QED
        BY <1>4, <2>1, <3>2
    <2>4. c.words # <<>>
      BY <2>2
    <2>5. QED
      BY <1>2, <1>5, <1>6, <2>1, <2>2, <2>3, <2>4 DEF CallOK, n
  <1>8. CASE ~(Len(call.words) > 1)
    <2>1. c.words = <<Pound>>
      BY <1>1, <1>8
    <2>2. Len(n) = Len(t)
      <3>1. Len(n) = k + 1
        BY <1>2
      <3>2. QED
        BY <1>3, <1>6, <1>8, <3>1
    <2>3. c.words \in Seq(Level) /\ c.words # <<>>
      BY <2>1, WildcardLevels
    <2>4. QED
      BY <1>2, <1>5, <1>6, <2>1, <2>2, <2>3 DEF CallOK, n
  <1>9. QED
    BY <1>7, <1>8

\* A call on the path of a filter that matches finds the filter or leads on along
\* its path, if the trie has all nodes of the path.
LEMMA CallLeadsOn ==
    ASSUME NEW t \in Topic, ~IsWildcard(t), NEW f \in Topic, CheckSubscribeTopic(f), Matches(f, t),
           \A j \in 1..Len(f) : SubSeq(f, 1, j) \in Nodes /\ trie[SubSeq(f, 1, j)] > 0,
           NEW call, CallOK(call, t), Leads(call, f)
    PROVE  f \in Found(call) \/ \E c \in Further(call) : Leads(c, f)
  <1> DEFINE k == Len(call.parent)
             n == SubSeq(f, 1, k + 1)
  <1>1. k \in Nat /\ Len(t) \in Nat /\ k <= Len(t) /\ Len(f) \in Nat /\ k < Len(f)
    BY DEF CallOK, Topic, Leads
  <1>2. f \in Seq(Level) /\ call.parent \in Seq(Level) /\ \A i \in 1..k : call.parent[i] = f[i]
    BY DEF Topic, CallOK, Leads
  <1>3. /\ n \in Seq(Level) /\ Len(n) = k + 1
        /\ \A i \in 1..k + 1 : n[i] = f[i]
    BY <1>1, <1>2, SubSeqProperties
  <1>4. n = Append(call.parent, f[k + 1])
    <2>1. f[k + 1] \in Level
      BY <1>1, <1>2
    <2> DEFINE a == Append(call.parent, f[k + 1])
    <2>2. /\ a \in Seq(Level) /\ Len(a) = k + 1 /\ a[k + 1] = f[k + 1]
          /\ \A i \in 1..k : a[i] = call.parent[i]
      BY <1>2, <2>1, AppendProperties
    <2> HIDE DEF a, n
    <2>3. Len(n) = Len(a) /\ \A i \in 1..Len(n) : n[i] = a[i]
      BY <1>1, <1>2, <1>3, <2>2, SMTT(60)
    <2>4. n = a
      BY <1>3, <2>2, <2>3, SeqEqual
    <2>5. QED
      BY <2>4 DEF a
  <1>5. (f[k + 1] = Pound /\ k + 1 = Len(f)) \/ (k < Len(t) /\ f[k + 1] \in {t[k + 1], Plus} /\ f[k + 1] # Pound)
    <2>1. f[k + 1] = Pound => k + 1 = Len(f)
      BY <1>1 DEF CheckSubscribeTopic
    <2>2. \A i \in 1..Len(t) : t[i] # Pound
      BY DEF IsWildcard
    <2>3. CASE Len(f) = Len(t) /\ \A i \in 1..Len(f) : f[i] \in {t[i], Plus}
      BY <1>1, <2>2, <2>3 DEF Plus, Pound
    <2>4. CASE f[Len(f)] = Pound /\ Len(f) <= Len(t) + 1 /\ \A i \in 1..(Len(f) - 1) : f[i] \in {t[i], Plus}
      BY <1>1, <2>1, <2>4
    <2>5. QED
      BY <2>3, <2>4 DEF Matches
  <1>6. f[k + 1] \in {Plus, Pound, Head(call.words)}
    <2>1. Head(call.words) = call.words[1]
      BY NextWord
    <2>2. k < Len(t) => call.words[1] = t[k + 1]
      BY NextWord
    <2>3. QED
      BY <1>5, <2>1, <2>2
  <1>7. n \in trieNodes(call.parent, Head(call.words))
    BY <1>1, <1>4, <1>6 DEF trieNodes
  <1>8. IsPound(n) <=> f[k + 1] = Pound
    BY <1>1, <1>3 DEF IsPound
  <1>9. k + 1 = Len(f) => n = f
    BY <1>1, <1>2, <1>3, SeqEqual
  <1> HIDE DEF n
  <1>10. CASE f[k + 1] = Pound
    BY <1>5, <1>7, <1>8, <1>9, <1>10 DEF Found, Pound, Plus
  <1>11. CASE f[k + 1] # Pound
    <2>1. k < Len(t) /\ Len(call.words) = Len(t) - k /\ \A i \in 1..Len(call.words) : call.words[i] = t[k + i]
      BY <1>5, <1>11 DEF CallOK
    <2>2. call.words # <<Pound>>
      <3>1. call.words[1] = t[k + 1]
        BY <2>1, NextWord
      <3>2. t[k + 1] # Pound
        <4>1. k + 1 \in 1..Len(t)
          BY <1>1, <2>1
        <4>2. \A i \in 1..Len(t) : t[i] # Pound
          BY DEF IsWildcard
        <4>3. QED
          BY <4>1, <4>2
      <3>3. QED
        BY <3>1, <3>2
    <2>3. CASE k + 1 = Len(f)
      <3>1. Len(f) = Len(t)
        BY <1>1, <1>11, <2>3 DEF Matches
      <3>2. Len(call.words) = 1
        BY <1>1, <2>1, <2>3, <3>1
      <3>3. QED
        BY <1>7, <1>9, <2>2, <2>3, <3>2 DEF Found
    <2>4. CASE k + 1 < Len(f)
      <3>1. \E c \in Further(call) : c.parent = n
        <4> DEFINE c == IF Len(call.words) > 1 THEN [parent |-> n, words |-> Tail(call.words)]
                                               ELSE [parent |-> n, words |-> <<Pound>>]
        <4>1. c.parent = n
          OBVIOUS
        <4>2. c \in Further(call)
          <5> HIDE DEF c
          <5>1. ~IsPound(n) /\ c = IF Len(call.words) > 1 THEN [parent |-> n, words |-> Tail(call.words)]
                                                          ELSE [parent |-> n, words |-> <<Pound>>]
            BY <1>8, <1>11 DEF c
          <5>2. QED
            BY <1>7, <2>2, <5>1, FurtherCalls
        <4>3. QED
          BY <4>1, <4>2
      <3>2. QED
        BY <1>1, <1>3, <2>4, <3>1 DEF Leads
    <2>5. QED
      BY <1>1, <2>3, <2>4
  <1>12. QED
    BY <1>10, <1>11

-----------------------------------------------------------------------------
(* Lookups are complete and sound                                           *)

\* Only topics without wildcards are published, only valid filters are subscribed.
PublishedInv == \A w \in Workers : pc[w] # "idle" => CheckPublishTopic(topic(w))

FilterInv == \A c \in Clients, f \in Filters : router[c][f] # None => CheckSubscribeTopic(f)

\* Every step keeps a worker with a topic that may be published on.
LEMMA PublishedStep == TypeOK /\ PublishedInv /\ [Next]_vars => PublishedInv'
  <1> SUFFICES ASSUME TypeOK, PublishedInv, [Next]_vars
               PROVE  PublishedInv'
    OBVIOUS
  <1>a. pc \in [Workers -> Places] /\ msg \in [Workers -> Msgs \cup {None}]
    BY DEF TypeOK
  <1>1. ASSUME NEW c \in Clients, NEW f \in Filters, NEW q \in Qoss, Subscribe(c, f, q)
        PROVE  PublishedInv'
    BY <1>1 DEF Subscribe, PublishedInv, topic
  <1>2. ASSUME NEW c \in Clients, NEW f \in Filters, Unsubscribe(c, f)
        PROVE  PublishedInv'
    BY <1>2 DEF Unsubscribe, PublishedInv, topic
  <1>3. ASSUME NEW c \in Clients, NEW f \in Filters, PublishRetained(c, f)
        PROVE  PublishedInv'
    BY <1>3 DEF PublishRetained, PublishedInv, topic
  <1>4. ASSUME NEW c \in Clients, DeleteClient(c)
        PROVE  PublishedInv'
    BY <1>4 DEF DeleteClient, PublishedInv, topic
  <1>5. ASSUME NEW c \in Clients, DeleteClientTopic(c)
        PROVE  PublishedInv'
    BY <1>5 DEF DeleteClientTopic, PublishedInv, topic
  <1>6. ASSUME NEW w \in Workers, NEW m \in Msgs, HandlePublish(w, m)
        PROVE  PublishedInv'
    BY <1>6, <1>a DEF HandlePublish, PublishedInv, topic
  <1>7. ASSUME NEW w \in Workers, HandleRetainMessage(w)
        PROVE  PublishedInv'
    BY <1>7, <1>a DEF HandleRetainMessage, PublishedInv, topic
  <1>8. ASSUME NEW w \in Workers, RetainContains(w)
        PROVE  PublishedInv'
    BY <1>8, <1>a DEF RetainContains, PublishedInv, topic
  <1>9. ASSUME NEW w \in Workers, RetainPut(w)
        PROVE  PublishedInv'
    BY <1>9, <1>a DEF RetainPut, PublishedInv, topic
  <1>10. ASSUME NEW w \in Workers, RetainSize(w)
        PROVE  PublishedInv'
    BY <1>10, <1>a DEF RetainSize, PublishedInv, topic
  <1>11. ASSUME NEW w \in Workers, RetainPutNew(w)
        PROVE  PublishedInv'
    BY <1>11, <1>a DEF RetainPutNew, PublishedInv, topic
  <1>12. ASSUME NEW w \in Workers, GetMatches(w)
        PROVE  PublishedInv'
    BY <1>12, <1>a DEF GetMatches, PublishedInv, topic
  <1>13. ASSUME NEW w \in Workers, QueryMatches(w)
        PROVE  PublishedInv'
    BY <1>13, <1>a DEF QueryMatches, PublishedInv, topic
  <1>14. ASSUME NEW w \in Workers, GetRoutes(w)
        PROVE  PublishedInv'
    BY <1>14, <1>a DEF GetRoutes, PublishedInv, topic
  <1>15. ASSUME NEW w \in Workers, Deliver(w)
        PROVE  PublishedInv'
    BY <1>15, <1>a DEF Deliver, PublishedInv, topic
  <1>16. ASSUME NEW t \in Published, RetainExpire(t)
        PROVE  PublishedInv'
    BY <1>16 DEF RetainExpire, PublishedInv, topic
  <1>17. CASE UNCHANGED vars
    BY <1>17 DEF vars, PublishedInv, topic
  <1>18. QED
    BY <1>1, <1>2, <1>3, <1>4, <1>5, <1>6, <1>7, <1>8, <1>9, <1>10, <1>11, <1>12, <1>13, <1>14,
       <1>15, <1>16, <1>17 DEF Next, PublishStep

\* Every step keeps subscriptions to valid filters only.
LEMMA FilterStep == TypeOK /\ FilterInv /\ [Next]_vars => FilterInv'
  <1> SUFFICES ASSUME TypeOK, FilterInv, [Next]_vars
               PROVE  FilterInv'
    OBVIOUS
  <1>a. router \in [Clients -> [Filters -> Qoss \cup {None}]]
    BY DEF TypeOK
  <1>1. ASSUME NEW c \in Clients, NEW f \in Filters, NEW q \in Qoss, Subscribe(c, f, q)
        PROVE  FilterInv'
    BY <1>1, <1>a DEF Subscribe, SaveRouter, FilterInv
  <1>2. ASSUME NEW c \in Clients, NEW f \in Filters, Unsubscribe(c, f)
        PROVE  FilterInv'
    BY <1>2, <1>a DEF Unsubscribe, DeleteRouter, FilterInv
  <1>3. ASSUME NEW c \in Clients, NEW f \in Filters, PublishRetained(c, f)
        PROVE  FilterInv'
    BY <1>3 DEF PublishRetained, FilterInv
  <1>4. ASSUME NEW c \in Clients, DeleteClient(c)
        PROVE  FilterInv'
    BY <1>4 DEF DeleteClient, FilterInv
  <1>5. ASSUME NEW c \in Clients, DeleteClientTopic(c)
        PROVE  FilterInv'
    BY <1>5, <1>a DEF DeleteClientTopic, DeleteRouter, FilterInv
  <1>6. ASSUME NEW w \in Workers, NEW m \in Msgs, HandlePublish(w, m)
        PROVE  FilterInv'
    BY <1>6 DEF HandlePublish, FilterInv
  <1>7. ASSUME NEW w \in Workers, HandleRetainMessage(w)
        PROVE  FilterInv'
    BY <1>7 DEF HandleRetainMessage, FilterInv
  <1>8. ASSUME NEW w \in Workers, RetainContains(w)
        PROVE  FilterInv'
    BY <1>8 DEF RetainContains, FilterInv
  <1>9. ASSUME NEW w \in Workers, RetainPut(w)
        PROVE  FilterInv'
    BY <1>9 DEF RetainPut, FilterInv
  <1>10. ASSUME NEW w \in Workers, RetainSize(w)
        PROVE  FilterInv'
    BY <1>10 DEF RetainSize, FilterInv
  <1>11. ASSUME NEW w \in Workers, RetainPutNew(w)
        PROVE  FilterInv'
    BY <1>11 DEF RetainPutNew, FilterInv
  <1>12. ASSUME NEW w \in Workers, GetMatches(w)
        PROVE  FilterInv'
    BY <1>12 DEF GetMatches, FilterInv
  <1>13. ASSUME NEW w \in Workers, QueryMatches(w)
        PROVE  FilterInv'
    BY <1>13 DEF QueryMatches, FilterInv
  <1>14. ASSUME NEW w \in Workers, GetRoutes(w)
        PROVE  FilterInv'
    BY <1>14 DEF GetRoutes, FilterInv
  <1>15. ASSUME NEW w \in Workers, Deliver(w)
        PROVE  FilterInv'
    BY <1>15 DEF Deliver, FilterInv
  <1>16. ASSUME NEW t \in Published, RetainExpire(t)
        PROVE  FilterInv'
    BY <1>16 DEF RetainExpire, FilterInv
  <1>17. CASE UNCHANGED vars
    BY <1>17 DEF vars, FilterInv
  <1>18. QED
    BY <1>1, <1>2, <1>3, <1>4, <1>5, <1>6, <1>7, <1>8, <1>9, <1>10, <1>11, <1>12, <1>13, <1>14,
       <1>15, <1>16, <1>17 DEF Next, PublishStep

\* While worker w looks topic t up: what is subscribed now has been seen, what is
\* stable is still subscribed, calls and matches belong to the topic, and every
\* stable match is found or a call that is still to be made leads to it.
LookupOf(w, t) ==
    /\ \A s \in Subscriptions : <<s[1], s[2], router[s[1]][s[2]]>> \in seen[w]
    /\ stable[w] \subseteq Subscriptions
    /\ t \in matches[w]
    /\ Regular(t) =>
         /\ \A call \in calls[w] : CallOK(call, t)
         /\ \A n \in matches[w] : Matches(n, t)
         /\ \A s \in stable[w] : Served(s[2], t) =>
              s[2] \in matches[w] \/ \E call \in calls[w] : Leads(call, s[2])

LookupInv == \A w \in Workers : pc[w] = "queryMatches" => LookupOf(w, topic(w))

\* A topic matches itself, and a filter without wildcards nothing else.
LEMMA PlainMatch ==
    ASSUME NEW t \in Topic
    PROVE  /\ Matches(t, t)
           /\ \A f \in Topic : ~IsWildcard(f) /\ Matches(f, t) => f = t
  <1>1. Matches(t, t)
    BY DEF Matches
  <1>2. ASSUME NEW f \in Topic, ~IsWildcard(f), Matches(f, t)
        PROVE  f = t
    <2>1. f \in Seq(Level) /\ t \in Seq(Level) /\ Len(f) \in Nat /\ Len(f) > 0
      BY DEF Topic
    <2>2. \A i \in 1..Len(f) : f[i] # Plus /\ f[i] # Pound
      BY <1>2 DEF IsWildcard
    <2>3. f[Len(f)] # Pound
      BY <2>1, <2>2
    <2>4. Len(f) = Len(t) /\ \A i \in 1..Len(f) : f[i] \in {t[i], Plus}
      BY <1>2, <2>3 DEF Matches
    <2>5. \A i \in 1..Len(f) : f[i] = t[i]
      BY <2>2, <2>4
    <2>6. QED
      BY <2>1, <2>4, <2>5, SeqEqual
  <1>3. QED
    BY <1>1, <1>2

\* The trie has every node on the path of a subscribed wildcard filter.
LEMMA PathExists ==
    ASSUME TypeOK, TrieCounts, NEW c \in Clients, NEW f \in Filters, router[c][f] # None,
           IsWildcard(f), Regular(f), NEW j \in 1..Len(f)
    PROVE  SubSeq(f, 1, j) \in Nodes /\ trie[SubSeq(f, 1, j)] > 0
  <1> DEFINE n == SubSeq(f, 1, j)
  <1>1. n \in topic2Trie(f)
    BY DEF topic2Trie, Regular
  <1>2. n \in Nodes
    BY <1>1 DEF Nodes
  <1>3. <<c, f>> \in Through(n)
    BY <1>1 DEF Through
  <1> HIDE DEF n
  <1>4. Cardinality(Through(n)) # 0
    BY <1>2, <1>3, ThroughFinite, FS_EmptySet
  <1>5. trie[n] = Cardinality(Through(n)) /\ Cardinality(Through(n)) \in Nat
    BY <1>2, ThroughFinite DEF TrieCounts
  <1>6. QED
    BY <1>2, <1>4, <1>5 DEF n

\* The first call leads to every filter.
LEMMA FirstCall ==
    ASSUME NEW t \in Topic, Regular(t)
    PROVE  LET call == [parent |-> <<>>, words |-> words(t)] IN
           CallOK(call, t) /\ \A f \in Topic : Leads(call, f)
  <1>1. words(t) = t
    BY DEF Regular
  <1>2. t \in Seq(Level) /\ Len(t) \in Nat /\ Len(t) > 0 /\ t # <<>>
    BY DEF Topic
  <1> DEFINE call == [parent |-> <<>>, words |-> t]
  <1>3. call.parent = <<>> /\ call.words = t /\ <<>> \in Seq(Level) /\ Len(<<>>) = 0
    OBVIOUS
  <1> HIDE DEF call
  <1>4. CallOK(call, t)
    BY <1>2, <1>3 DEF CallOK
  <1>5. \A f \in Topic : Len(f) > 0
    BY DEF Topic
  <1>6. \A f \in Topic : Leads(call, f)
    BY <1>3, <1>5 DEF Leads
  <1>7. QED
    BY <1>1, <1>4, <1>6 DEF call

\* Nothing the lookup depends on changes.
LEMMA LookupKeep ==
    ASSUME LookupInv, UNCHANGED router,
           \A w \in Workers : pc'[w] = "queryMatches" =>
               /\ pc[w] = "queryMatches" /\ msg'[w] = msg[w] /\ calls'[w] = calls[w]
               /\ matches'[w] = matches[w] /\ stable'[w] = stable[w] /\ seen'[w] = seen[w]
    PROVE  LookupInv'
  <1> SUFFICES ASSUME NEW w \in Workers, pc'[w] = "queryMatches" PROVE LookupOf(w, topic(w))'
    BY DEF LookupInv
  <1>1. /\ pc[w] = "queryMatches" /\ msg'[w] = msg[w] /\ calls'[w] = calls[w]
        /\ matches'[w] = matches[w] /\ stable'[w] = stable[w] /\ seen'[w] = seen[w]
    OBVIOUS
  <1>2. LookupOf(w, topic(w))
    BY <1>1 DEF LookupInv
  <1>3. topic(w)' = topic(w) /\ Subscriptions' = Subscriptions
    BY <1>1 DEF topic, Subscriptions
  <1>4. QED
    BY <1>1, <1>2, <1>3 DEF LookupOf

\* A delete takes the subscription out of the stable ones of every lookup.
LEMMA LookupDelete ==
    ASSUME TypeOK, LookupInv, NEW c \in Clients, NEW f \in Filters, DeleteRouter(c, f),
           UNCHANGED <<pc, msg, calls, matches, seen>>
    PROVE  LookupInv'
  <1> SUFFICES ASSUME NEW w \in Workers, pc[w] = "queryMatches" PROVE LookupOf(w, topic(w))'
    BY DEF LookupInv
  <1> DEFINE t == topic(w)
  <1>1. LookupOf(w, t) /\ topic(w)' = t
    BY DEF LookupInv, topic
  <1>2. router' = [router EXCEPT ![c][f] = None] /\ stable'[w] = stable[w] \ {<<c, f>>}
    BY DEF DeleteRouter, LookingUp
  <1>3. router \in [Clients -> [Filters -> Qoss \cup {None}]]
    BY DEF TypeOK
  <1>4. Subscriptions' = Subscriptions \ {<<c, f>>}
        /\ \A s \in Subscriptions' : router'[s[1]][s[2]] = router[s[1]][s[2]]
    BY <1>2, <1>3 DEF Subscriptions
  <1> HIDE DEF t
  <1>5. QED
    BY <1>1, <1>2, <1>4 DEF LookupOf

\* Variables whose values TypeOK does not restrict are functions all the same.
Functional ==
    /\ calls = [w \in Workers |-> calls[w]] /\ seen = [w \in Workers |-> seen[w]]
    /\ rows = [w \in Workers |-> rows[w]] /\ got = [c \in Clients |-> got[c]]

\* Every step keeps them functions.
LEMMA FunctionalStep == Functional /\ [Next]_vars => Functional'
  <1> SUFFICES ASSUME Functional, [Next]_vars
               PROVE  Functional'
    OBVIOUS
  <1>1. ASSUME NEW c \in Clients, NEW f \in Filters, NEW q \in Qoss, Subscribe(c, f, q)
        PROVE  Functional'
    BY <1>1 DEF Subscribe, Functional
  <1>2. ASSUME NEW c \in Clients, NEW f \in Filters, Unsubscribe(c, f)
        PROVE  Functional'
    BY <1>2 DEF Unsubscribe, Functional
  <1>3. ASSUME NEW c \in Clients, NEW f \in Filters, PublishRetained(c, f)
        PROVE  Functional'
    BY <1>3 DEF PublishRetained, Functional
  <1>4. ASSUME NEW c \in Clients, DeleteClient(c)
        PROVE  Functional'
    BY <1>4 DEF DeleteClient, Functional
  <1>5. ASSUME NEW c \in Clients, DeleteClientTopic(c)
        PROVE  Functional'
    BY <1>5 DEF DeleteClientTopic, Functional
  <1>6. ASSUME NEW w \in Workers, NEW m \in Msgs, HandlePublish(w, m)
        PROVE  Functional'
    BY <1>6 DEF HandlePublish, Functional
  <1>7. ASSUME NEW w \in Workers, HandleRetainMessage(w)
        PROVE  Functional'
    BY <1>7 DEF HandleRetainMessage, Functional
  <1>8. ASSUME NEW w \in Workers, RetainContains(w)
        PROVE  Functional'
    BY <1>8 DEF RetainContains, Functional
  <1>9. ASSUME NEW w \in Workers, RetainPut(w)
        PROVE  Functional'
    BY <1>9 DEF RetainPut, Functional
  <1>10. ASSUME NEW w \in Workers, RetainSize(w)
        PROVE  Functional'
    BY <1>10 DEF RetainSize, Functional
  <1>11. ASSUME NEW w \in Workers, RetainPutNew(w)
        PROVE  Functional'
    BY <1>11 DEF RetainPutNew, Functional
  <1>12. ASSUME NEW w \in Workers, GetMatches(w)
        PROVE  Functional'
    BY <1>12 DEF GetMatches, Functional
  <1>13. ASSUME NEW w \in Workers, QueryMatches(w)
        PROVE  Functional'
    BY <1>13 DEF QueryMatches, Functional
  <1>14. ASSUME NEW w \in Workers, GetRoutes(w)
        PROVE  Functional'
    BY <1>14 DEF GetRoutes, Functional
  <1>15. ASSUME NEW w \in Workers, Deliver(w)
        PROVE  Functional'
    BY <1>15 DEF Deliver, Functional
  <1>16. ASSUME NEW t \in Published, RetainExpire(t)
        PROVE  Functional'
    BY <1>16 DEF RetainExpire, Functional
  <1>17. CASE UNCHANGED vars
    BY <1>17 DEF vars, Functional
  <1>18. QED
    BY <1>1, <1>2, <1>3, <1>4, <1>5, <1>6, <1>7, <1>8, <1>9, <1>10, <1>11, <1>12, <1>13, <1>14,
       <1>15, <1>16, <1>17 DEF Next, PublishStep

\* Every step keeps the lookups on their way.
LEMMA LookupStep == TypeOK /\ TrieCounts /\ PublishedInv /\ FilterInv /\ Functional /\ LookupInv /\ [Next]_vars => LookupInv'
  <1> SUFFICES ASSUME TypeOK, TrieCounts, PublishedInv, FilterInv, Functional, LookupInv, [Next]_vars
               PROVE  LookupInv'
    OBVIOUS
  <1>a. /\ router \in [Clients -> [Filters -> Qoss \cup {None}]] /\ pc \in [Workers -> Places]
        /\ msg \in [Workers -> Msgs \cup {None}] /\ matches \in [Workers -> SUBSET (Nodes \cup Published)]
        /\ stable \in [Workers -> SUBSET (Clients \X Filters)]
    BY DEF TypeOK
  <1>b. \A w \in Workers : pc[w] # "idle" => msg[w] \in Msgs
    BY DEF TypeOK
  <1>c. calls = [w \in Workers |-> calls[w]] /\ seen = [w \in Workers |-> seen[w]]
    BY DEF Functional
  <1>1. ASSUME NEW c \in Clients, NEW f \in Filters, NEW q \in Qoss, Subscribe(c, f, q)
        PROVE  LookupInv'
    <2> SUFFICES ASSUME NEW w \in Workers, pc[w] = "queryMatches" PROVE LookupOf(w, topic(w))'
      BY <1>1 DEF Subscribe, LookupInv
    <2>1. LookupOf(w, topic(w)) /\ topic(w)' = topic(w) /\ UNCHANGED <<calls, matches, stable>>
      BY <1>1 DEF Subscribe, LookupInv, topic
    <2>2. router' = [router EXCEPT ![c][f] = q] /\ seen'[w] = seen[w] \cup {<<c, f, q>>} /\ q # None
      BY <1>1 DEF Subscribe, SaveRouter, LookingUp
    <2>3. /\ Subscriptions \subseteq Subscriptions'
          /\ \A s \in Subscriptions' :
               \/ s = <<c, f>> /\ router'[s[1]][s[2]] = q
               \/ s \in Subscriptions /\ router'[s[1]][s[2]] = router[s[1]][s[2]]
      BY <1>a, <2>2 DEF Subscriptions
    <2>4. QED
      BY <2>1, <2>2, <2>3 DEF LookupOf
  <1>2. ASSUME NEW c \in Clients, NEW f \in Filters, Unsubscribe(c, f)
        PROVE  LookupInv'
    BY <1>2, LookupDelete DEF Unsubscribe
  <1>3. ASSUME NEW c \in Clients, NEW f \in Filters, PublishRetained(c, f)
        PROVE  LookupInv'
    BY <1>3, <1>a, <1>c, LookupKeep DEF PublishRetained
  <1>4. ASSUME NEW c \in Clients, DeleteClient(c)
        PROVE  LookupInv'
    BY <1>4, <1>a, <1>c, LookupKeep DEF DeleteClient
  <1>5. ASSUME NEW c \in Clients, DeleteClientTopic(c)
        PROVE  LookupInv'
    <2>1. PICK f \in purge[c] : DeleteRouter(c, f) /\ UNCHANGED <<pc, msg, calls, matches, seen>>
      BY <1>5 DEF DeleteClientTopic
    <2>2. f \in Filters
      BY DEF TypeOK
    <2>3. QED
      BY <2>1, <2>2, LookupDelete
  <1>6. ASSUME NEW w \in Workers, NEW m \in Msgs, HandlePublish(w, m)
        PROVE  LookupInv'
    BY <1>6, <1>a, <1>c, LookupKeep DEF HandlePublish
  <1>7. ASSUME NEW w \in Workers, HandleRetainMessage(w)
        PROVE  LookupInv'
    BY <1>7, <1>a, <1>c, LookupKeep DEF HandleRetainMessage
  <1>8. ASSUME NEW w \in Workers, RetainContains(w)
        PROVE  LookupInv'
    BY <1>8, <1>a, <1>c, LookupKeep DEF RetainContains
  <1>9. ASSUME NEW w \in Workers, RetainPut(w)
        PROVE  LookupInv'
    BY <1>9, <1>a, <1>c, LookupKeep DEF RetainPut
  <1>10. ASSUME NEW w \in Workers, RetainSize(w)
        PROVE  LookupInv'
    BY <1>10, <1>a, <1>c, LookupKeep DEF RetainSize
  <1>11. ASSUME NEW w \in Workers, RetainPutNew(w)
        PROVE  LookupInv'
    BY <1>11, <1>a, <1>c, LookupKeep DEF RetainPutNew
  <1>12. ASSUME NEW w \in Workers, GetMatches(w)
        PROVE  LookupInv'
    <2> DEFINE t == topic(w)
               first == [parent |-> <<>>, words |-> words(t)]
    <2>1. /\ t \in Topic /\ topic(w)' = t
          /\ pc' = [pc EXCEPT ![w] = "queryMatches"] /\ UNCHANGED <<router, msg>>
          /\ \A v \in Workers : v # w =>
               /\ calls'[v] = calls[v] /\ matches'[v] = matches[v]
               /\ stable'[v] = stable[v] /\ seen'[v] = seen[v]
      BY <1>12, <1>a, <1>b, <1>c, TopicAssumption DEF GetMatches, topic
    <2>2. /\ calls'[w] = {first} /\ matches'[w] = {t} /\ stable'[w] = Subscriptions
          /\ seen'[w] = {<<s[1], s[2], router[s[1]][s[2]]>> : s \in Subscriptions}
      BY <1>12, <1>a, <1>c DEF GetMatches
    <2>3. Subscriptions' = Subscriptions /\ \A s \in Subscriptions : s[2] \in Topic
      BY <2>1, TopicAssumption DEF Subscriptions
    <2>4. LookupOf(w, t)'
      <3>1. Regular(t) => CallOK(first, t) /\ Matches(t, t) /\ \A f \in Topic : Leads(first, f)
        BY <2>1, FirstCall, PlainMatch
      <3>2. t' = t
        BY <2>1
      <3> HIDE DEF first, t
      <3>3. QED
        BY <2>1, <2>2, <2>3, <3>1, <3>2 DEF LookupOf
    <2>5. ASSUME NEW v \in Workers, v # w, pc'[v] = "queryMatches" PROVE LookupOf(v, topic(v))'
      <3>1. LookupOf(v, topic(v)) /\ topic(v)' = topic(v)
        BY <2>1, <2>5, <1>a DEF LookupInv, topic
      <3>2. QED
        BY <2>1, <2>3, <2>5, <3>1 DEF LookupOf
    <2>6. QED
      BY <2>1, <2>4, <2>5 DEF LookupInv
  <1>13. ASSUME NEW w \in Workers, QueryMatches(w)
        PROVE  LookupInv'
    <2> DEFINE t == topic(w)
    <2>1. PICK call \in calls[w] :
            /\ matches' = [matches EXCEPT ![w] = @ \cup Found(call)]
            /\ calls' = [calls EXCEPT ![w] = (@ \ {call}) \cup Further(call)]
      BY <1>13 DEF QueryMatches
    <2>2. pc[w] = "queryMatches" /\ UNCHANGED <<router, trie, pc, msg, stable, seen>>
      BY <1>13 DEF QueryMatches
    <2>3. /\ t \in Topic /\ ~IsWildcard(t) /\ LookupOf(w, t) /\ Subscriptions' = Subscriptions
          /\ \A v \in Workers : topic(v)' = topic(v)
      BY <2>2, <1>b, TopicAssumption DEF LookupInv, PublishedInv, CheckPublishTopic, topic,
         Subscriptions
    <2>4. /\ matches'[w] = matches[w] \cup Found(call)
          /\ calls'[w] = (calls[w] \ {call}) \cup Further(call)
      BY <2>1, <1>a, <1>c
    <2>5. ASSUME Regular(t)
          PROVE  /\ \A c \in calls'[w] : CallOK(c, t)
                 /\ \A n \in matches'[w] : Matches(n, t)
      <3>1. CallOK(call, t) /\ (\A c \in calls[w] : CallOK(c, t)) /\ (\A n \in matches[w] : Matches(n, t))
        BY <2>3, <2>5 DEF LookupOf
      <3>2. (\A c \in Further(call) : CallOK(c, t)) /\ (\A n \in Found(call) : Matches(n, t))
        BY <2>3, <3>1, FurtherOK, FoundMatches
      <3>3. QED
        BY <2>4, <3>1, <3>2
    <2>6. ASSUME Regular(t), NEW s \in stable[w], Served(s[2], t)
          PROVE  s[2] \in matches'[w] \/ \E c \in calls'[w] : Leads(c, s[2])
      <3>1. s \in Subscriptions /\ s[1] \in Clients /\ s[2] \in Filters /\ s[2] \in Topic
            /\ router[s[1]][s[2]] # None
        BY <2>3, <2>6, TopicAssumption DEF LookupOf, Subscriptions
      <3>2. CASE s[2] \in matches[w]
        BY <2>4, <3>2
      <3>3. CASE \E c \in calls[w] \ {call} : Leads(c, s[2])
        BY <2>4, <3>3
      <3>4. CASE ~IsWildcard(s[2])
        <4>1. s[2] = t
          BY <2>3, <2>6, <3>1, <3>4, PlainMatch DEF Served
        <4>2. QED
          BY <2>3, <2>4, <4>1 DEF LookupOf
      <3>5. CASE Leads(call, s[2]) /\ IsWildcard(s[2])
        <4>1. Regular(s[2]) /\ Matches(s[2], t) /\ CheckSubscribeTopic(s[2])
          BY <2>6, <3>1 DEF Served, FilterInv
        <4>2. \A j \in 1..Len(s[2]) : SubSeq(s[2], 1, j) \in Nodes /\ trie[SubSeq(s[2], 1, j)] > 0
          BY <3>1, <3>5, <4>1, PathExists
        <4>3. CallOK(call, t)
          BY <2>3, <2>6 DEF LookupOf
        <4>4. s[2] \in Found(call) \/ \E c \in Further(call) : Leads(c, s[2])
          BY <2>3, <3>1, <3>5, <4>1, <4>2, <4>3, CallLeadsOn
        <4>5. QED
          BY <2>4, <4>4
      <3>6. QED
        BY <2>3, <2>6, <3>2, <3>3, <3>4, <3>5 DEF LookupOf
    <2>7. LookupOf(w, t)'
      <3>1. t' = t
        BY <2>3
      <3> HIDE DEF t
      <3>2. /\ \A s \in Subscriptions' : <<s[1], s[2], router'[s[1]][s[2]]>> \in seen'[w]
            /\ stable'[w] \subseteq Subscriptions' /\ t \in matches'[w]
        BY <2>2, <2>3, <2>4 DEF LookupOf
      <3>3. QED
        BY <2>2, <2>5, <2>6, <3>1, <3>2 DEF LookupOf
    <2>8. ASSUME NEW v \in Workers, v # w, pc[v] = "queryMatches" PROVE LookupOf(v, topic(v))'
      <3>1. LookupOf(v, topic(v)) /\ matches'[v] = matches[v] /\ calls'[v] = calls[v]
        BY <2>1, <2>8, <1>a, <1>c DEF LookupInv
      <3>2. QED
        BY <2>2, <2>3, <3>1 DEF LookupOf
    <2>9. QED
      BY <2>2, <2>3, <2>7, <2>8 DEF LookupInv
  <1>14. ASSUME NEW w \in Workers, GetRoutes(w)
        PROVE  LookupInv'
    BY <1>14, <1>a, <1>c, LookupKeep DEF GetRoutes
  <1>15. ASSUME NEW w \in Workers, Deliver(w)
        PROVE  LookupInv'
    BY <1>15, <1>a, <1>c, LookupKeep DEF Deliver
  <1>16. ASSUME NEW t \in Published, RetainExpire(t)
        PROVE  LookupInv'
    BY <1>16, <1>a, <1>c, LookupKeep DEF RetainExpire
  <1>17. CASE UNCHANGED vars
    BY <1>17, LookupKeep DEF vars
  <1>18. QED
    BY <1>1, <1>2, <1>3, <1>4, <1>5, <1>6, <1>7, <1>8, <1>9, <1>10, <1>11, <1>12, <1>13, <1>14,
       <1>15, <1>16, <1>17 DEF Next, PublishStep

\* What LookupComplete and LookupSound say of one worker.
RowsOf(w) ==
    /\ \A s \in stable[w] : Served(s[2], topic(w)) => \E r \in rows[w] : r[1] = s[1] /\ r[2] = s[2]
    /\ \A r \in rows[w] : Regular(r[2]) /\ Regular(topic(w)) =>
         /\ Matches(r[2], topic(w))
         /\ \E q \in Qoss : <<r[1], r[2], q>> \in seen[w] /\ r[3] = calculate(QosOf[msg[w]], q)

RowsInv == \A w \in Workers : pc[w] = "deliver" => RowsOf(w)

\* A step that leaves the workers in `deliver' alone keeps RowsInv.
LEMMA RowsKeep ==
    ASSUME RowsInv,
           \A w \in Workers : pc'[w] = "deliver" =>
               /\ pc[w] = "deliver" /\ msg'[w] = msg[w] /\ rows'[w] = rows[w]
               /\ stable'[w] = stable[w] /\ seen'[w] = seen[w]
    PROVE  RowsInv'
  <1> SUFFICES ASSUME NEW w \in Workers, pc'[w] = "deliver" PROVE RowsOf(w)'
    BY DEF RowsInv
  <1>1. /\ pc[w] = "deliver" /\ msg'[w] = msg[w] /\ rows'[w] = rows[w]
        /\ stable'[w] = stable[w] /\ seen'[w] = seen[w]
    OBVIOUS
  <1>2. RowsOf(w) /\ topic(w)' = topic(w)
    BY <1>1 DEF RowsInv, topic
  <1>3. QED
    BY <1>1, <1>2 DEF RowsOf

\* Every step keeps the routes complete and sound: GetRoutes makes them so.
LEMMA RowsStep == TypeOK /\ Functional /\ LookupInv /\ RowsInv /\ [Next]_vars => RowsInv'
  <1> SUFFICES ASSUME TypeOK, Functional, LookupInv, RowsInv, [Next]_vars
               PROVE  RowsInv'
    OBVIOUS
  <1>a. /\ router \in [Clients -> [Filters -> Qoss \cup {None}]] /\ pc \in [Workers -> Places]
        /\ msg \in [Workers -> Msgs \cup {None}] /\ stable \in [Workers -> SUBSET (Clients \X Filters)]
    BY DEF TypeOK
  <1>c. rows = [w \in Workers |-> rows[w]] /\ seen = [w \in Workers |-> seen[w]]
    BY DEF Functional
  <1>1. ASSUME NEW c \in Clients, NEW f \in Filters, NEW q \in Qoss, Subscribe(c, f, q)
        PROVE  RowsInv'
    BY <1>1, <1>a, <1>c, RowsKeep DEF Subscribe, LookingUp
  <1>2. ASSUME NEW c \in Clients, NEW f \in Filters, Unsubscribe(c, f)
        PROVE  RowsInv'
    BY <1>2, <1>a, <1>c, RowsKeep DEF Unsubscribe, DeleteRouter, LookingUp
  <1>3. ASSUME NEW c \in Clients, NEW f \in Filters, PublishRetained(c, f)
        PROVE  RowsInv'
    BY <1>3, <1>a, <1>c, RowsKeep DEF PublishRetained
  <1>4. ASSUME NEW c \in Clients, DeleteClient(c)
        PROVE  RowsInv'
    BY <1>4, <1>a, <1>c, RowsKeep DEF DeleteClient
  <1>5. ASSUME NEW c \in Clients, DeleteClientTopic(c)
        PROVE  RowsInv'
    BY <1>5, <1>a, <1>c, RowsKeep DEF DeleteClientTopic, DeleteRouter, LookingUp
  <1>6. ASSUME NEW w \in Workers, NEW m \in Msgs, HandlePublish(w, m)
        PROVE  RowsInv'
    BY <1>6, <1>a, <1>c, RowsKeep DEF HandlePublish
  <1>7. ASSUME NEW w \in Workers, HandleRetainMessage(w)
        PROVE  RowsInv'
    BY <1>7, <1>a, <1>c, RowsKeep DEF HandleRetainMessage
  <1>8. ASSUME NEW w \in Workers, RetainContains(w)
        PROVE  RowsInv'
    BY <1>8, <1>a, <1>c, RowsKeep DEF RetainContains
  <1>9. ASSUME NEW w \in Workers, RetainPut(w)
        PROVE  RowsInv'
    BY <1>9, <1>a, <1>c, RowsKeep DEF RetainPut
  <1>10. ASSUME NEW w \in Workers, RetainSize(w)
        PROVE  RowsInv'
    BY <1>10, <1>a, <1>c, RowsKeep DEF RetainSize
  <1>11. ASSUME NEW w \in Workers, RetainPutNew(w)
        PROVE  RowsInv'
    BY <1>11, <1>a, <1>c, RowsKeep DEF RetainPutNew
  <1>12. ASSUME NEW w \in Workers, GetMatches(w)
        PROVE  RowsInv'
    BY <1>12, <1>a, <1>c, RowsKeep DEF GetMatches
  <1>13. ASSUME NEW w \in Workers, QueryMatches(w)
        PROVE  RowsInv'
    BY <1>13, <1>a, <1>c, RowsKeep DEF QueryMatches
  <1>14. ASSUME NEW w \in Workers, GetRoutes(w)
        PROVE  RowsInv'
    <2> DEFINE t == topic(w)
    <2>1. /\ pc[w] = "queryMatches" /\ calls[w] = {} /\ pc' = [pc EXCEPT ![w] = "deliver"]
          /\ UNCHANGED <<msg, stable, seen, router>>
      BY <1>14 DEF GetRoutes
    <2>2. rows'[w] = {<<s[1], s[2], calculate(QosOf[msg[w]], router[s[1]][s[2]])>> :
                        s \in {x \in Subscriptions : x[2] \in matches[w]}}
      BY <1>14, <1>c DEF GetRoutes
    <2>3. LookupOf(w, t) /\ topic(w)' = t
      BY <2>1 DEF LookupInv, topic
    <2>4. ASSUME NEW s \in stable[w], Served(s[2], t)
          PROVE  \E r \in rows'[w] : r[1] = s[1] /\ r[2] = s[2]
      <3>1. s \in Subscriptions /\ s[2] \in matches[w]
        BY <2>1, <2>3, <2>4 DEF LookupOf, Served
      <3>2. <<s[1], s[2], calculate(QosOf[msg[w]], router[s[1]][s[2]])>> \in rows'[w]
        BY <2>2, <3>1
      <3>3. QED
        BY <3>2
    <2>5. ASSUME NEW r \in rows'[w], Regular(t)
          PROVE  /\ Matches(r[2], t)
                 /\ \E q \in Qoss : <<r[1], r[2], q>> \in seen[w] /\ r[3] = calculate(QosOf[msg[w]], q)
      <3>1. PICK s \in Subscriptions : s[2] \in matches[w]
              /\ r = <<s[1], s[2], calculate(QosOf[msg[w]], router[s[1]][s[2]])>>
        BY <2>2
      <3>2. Matches(s[2], t) /\ <<s[1], s[2], router[s[1]][s[2]]>> \in seen[w]
        BY <2>3, <2>5, <3>1 DEF LookupOf
      <3>3. router[s[1]][s[2]] \in Qoss
        BY <1>a, <3>1 DEF Subscriptions
      <3>4. QED
        BY <3>1, <3>2, <3>3
    <2>6. RowsOf(w)'
      <3>1. t' = t
        BY <2>3
      <3> HIDE DEF t
      <3>2. QED
        BY <2>1, <2>3, <2>4, <2>5, <3>1 DEF RowsOf, calculate
    <2>7. ASSUME NEW v \in Workers, v # w, pc'[v] = "deliver" PROVE RowsOf(v)'
      <3>1. RowsOf(v) /\ topic(v)' = topic(v) /\ rows'[v] = rows[v]
        BY <1>14, <1>a, <1>c, <2>7 DEF GetRoutes, RowsInv, topic
      <3>2. QED
        BY <2>1, <3>1 DEF RowsOf
    <2>8. QED
      BY <2>6, <2>7 DEF RowsInv
  <1>15. ASSUME NEW w \in Workers, Deliver(w)
        PROVE  RowsInv'
    BY <1>15, <1>a, <1>c, RowsKeep DEF Deliver
  <1>16. ASSUME NEW t \in Published, RetainExpire(t)
        PROVE  RowsInv'
    BY <1>16, <1>a, <1>c, RowsKeep DEF RetainExpire
  <1>17. CASE UNCHANGED vars
    BY <1>17, RowsKeep DEF vars
  <1>18. QED
    BY <1>1, <1>2, <1>3, <1>4, <1>5, <1>6, <1>7, <1>8, <1>9, <1>10, <1>11, <1>12, <1>13, <1>14,
       <1>15, <1>16, <1>17 DEF Next, PublishStep

-----------------------------------------------------------------------------
(* Retained messages                                                        *)

Present == {t \in Published : retains[t] # None}

\* The topics that have a retained message, or get one from a worker that has made
\* its test: their number only grows when a worker finds room.
Storing == {w \in Workers : pc[w] \in {"put", "putNew"}}
Claimed == Present \cup {topic(w) : w \in Storing}

CapacityInv ==
    IsFiniteSet(Claimed) /\ Cardinality(Claimed) <= RetainMax + Cardinality(Workers) - 1

\* The pool is finite and not empty.
LEMMA WorkersFinite == IsFiniteSet(Workers) /\ Cardinality(Workers) \in Nat /\ Cardinality(Workers) >= 1
  BY PoolAssumption, FS_EmptySet, FS_CardinalityType

\* A step that claims no further topic keeps the bound.
LEMMA ClaimedShrinks ==
    ASSUME CapacityInv, Claimed' \subseteq Claimed
    PROVE  CapacityInv'
  <1>1. IsFiniteSet(Claimed') /\ Cardinality(Claimed') <= Cardinality(Claimed)
    BY FS_Subset DEF CapacityInv
  <1>2. Cardinality(Claimed') \in Nat /\ Cardinality(Claimed) \in Nat
    BY <1>1, FS_CardinalityType DEF CapacityInv
  <1>3. QED
    BY <1>1, <1>2, WorkersFinite DEF CapacityInv

\* Workers claim at most as many topics as there are workers.
LEMMA TopicsOfWorkers ==
    ASSUME NEW S \in SUBSET Workers
    PROVE  LET T == {topic(w) : w \in S} IN IsFiniteSet(T) /\ Cardinality(T) <= Cardinality(Workers)
  <1> DEFINE T == {topic(w) : w \in S}
             h == [w \in S |-> topic(w)]
  <1>1. IsFiniteSet(S) /\ Cardinality(S) <= Cardinality(Workers)
    BY WorkersFinite, FS_Subset
  <1>2. h \in Surjection(S, T)
    BY DEF Surjection
  <1>3. IsFiniteSet(T) /\ Cardinality(T) <= Cardinality(S)
    BY <1>1, <1>2, FS_Surjection
  <1>4. Cardinality(T) \in Nat /\ Cardinality(S) \in Nat
    BY <1>1, <1>3, FS_CardinalityType
  <1>5. QED
    BY <1>1, <1>3, <1>4, WorkersFinite

\* Every step keeps the number of claimed topics bounded.
LEMMA CapacityStep == TypeOK /\ CapacityInv /\ [Next]_vars => CapacityInv'
  <1> SUFFICES ASSUME TypeOK, CapacityInv, [Next]_vars
               PROVE  CapacityInv'
    OBVIOUS
  <1>a. /\ retains \in [Published -> Msgs \cup {None}] /\ pc \in [Workers -> Places]
        /\ msg \in [Workers -> Msgs \cup {None}]
    BY DEF TypeOK
  <1>b. \A w \in Workers : pc[w] # "idle" => topic(w) \in Published
    BY DEF TypeOK, topic, Published
  <1>1. ASSUME NEW c \in Clients, NEW f \in Filters, NEW q \in Qoss, Subscribe(c, f, q)
        PROVE  CapacityInv'
    BY <1>1, <1>a, <1>b, ClaimedShrinks DEF Subscribe, Claimed, Present, Storing, topic
  <1>2. ASSUME NEW c \in Clients, NEW f \in Filters, Unsubscribe(c, f)
        PROVE  CapacityInv'
    BY <1>2, <1>a, <1>b, ClaimedShrinks DEF Unsubscribe, Claimed, Present, Storing, topic
  <1>3. ASSUME NEW c \in Clients, NEW f \in Filters, PublishRetained(c, f)
        PROVE  CapacityInv'
    BY <1>3, <1>a, <1>b, ClaimedShrinks DEF PublishRetained, Claimed, Present, Storing, topic
  <1>4. ASSUME NEW c \in Clients, DeleteClient(c)
        PROVE  CapacityInv'
    BY <1>4, <1>a, <1>b, ClaimedShrinks DEF DeleteClient, Claimed, Present, Storing, topic
  <1>5. ASSUME NEW c \in Clients, DeleteClientTopic(c)
        PROVE  CapacityInv'
    BY <1>5, <1>a, <1>b, ClaimedShrinks DEF DeleteClientTopic, Claimed, Present, Storing, topic
  <1>6. ASSUME NEW w \in Workers, NEW m \in Msgs, HandlePublish(w, m)
        PROVE  CapacityInv'
    BY <1>6, <1>a, <1>b, ClaimedShrinks DEF HandlePublish, Claimed, Present, Storing, topic
  <1>7. ASSUME NEW w \in Workers, HandleRetainMessage(w)
        PROVE  CapacityInv'
    BY <1>7, <1>a, <1>b, ClaimedShrinks DEF HandleRetainMessage, Claimed, Present, Storing, topic
  <1>8. ASSUME NEW w \in Workers, RetainContains(w)
        PROVE  CapacityInv'
    BY <1>8, <1>a, <1>b, ClaimedShrinks DEF RetainContains, Claimed, Present, Storing, topic
  <1>9. ASSUME NEW w \in Workers, RetainPut(w)
        PROVE  CapacityInv'
    BY <1>9, <1>a, <1>b, ClaimedShrinks DEF RetainPut, Claimed, Present, Storing, topic
  <1>10. ASSUME NEW w \in Workers, RetainSize(w)
        PROVE  CapacityInv'
    <2>1. CASE Size >= RetainMax
      <3>1. Claimed' \subseteq Claimed
        BY <1>10, <1>a, <2>1 DEF RetainSize, Claimed, Present, Storing, topic
      <3>2. QED
        BY <3>1, ClaimedShrinks
    <2>2. CASE ~(Size >= RetainMax)
      <3> DEFINE S == Storing'
                 T == {topic(v) : v \in S}
      <3>1. S \in SUBSET Workers
        BY DEF Storing
      <3>2. Claimed' = Present \cup T
        BY <1>10 DEF RetainSize, Claimed, Present, topic
      <3>3. IsFiniteSet(T) /\ Cardinality(T) <= Cardinality(Workers)
        BY <3>1, TopicsOfWorkers
      <3>4. IsFiniteSet(Present) /\ Cardinality(Present) < RetainMax /\ Cardinality(Present) \in Nat
        <4>1. Present \in SUBSET Claimed
          BY DEF Claimed
        <4>2. IsFiniteSet(Present) /\ Cardinality(Present) \in Nat
          BY <4>1, FS_Subset, FS_CardinalityType DEF CapacityInv
        <4>3. QED
          BY <2>2, <4>2 DEF Size, Present
      <3> HIDE DEF S, T
      <3>5. IsFiniteSet(Present \cup T) /\ IsFiniteSet(Present \cap T)
            /\ Cardinality(Present \cup T) = Cardinality(Present) + Cardinality(T) - Cardinality(Present \cap T)
        BY <3>3, <3>4, FS_Union, FS_Subset
      <3>6. Cardinality(T) \in Nat /\ Cardinality(Present \cap T) \in Nat
        BY <3>3, <3>5, FS_CardinalityType
      <3>7. Cardinality(Claimed') <= RetainMax + Cardinality(Workers) - 1 /\ IsFiniteSet(Claimed')
        BY <3>2, <3>3, <3>4, <3>5, <3>6, WorkersFinite
      <3>8. QED
        BY <3>7 DEF CapacityInv
    <2>3. QED
      BY <2>1, <2>2
  <1>11. ASSUME NEW w \in Workers, RetainPutNew(w)
        PROVE  CapacityInv'
    BY <1>11, <1>a, <1>b, ClaimedShrinks DEF RetainPutNew, Claimed, Present, Storing, topic
  <1>12. ASSUME NEW w \in Workers, GetMatches(w)
        PROVE  CapacityInv'
    BY <1>12, <1>a, <1>b, ClaimedShrinks DEF GetMatches, Claimed, Present, Storing, topic
  <1>13. ASSUME NEW w \in Workers, QueryMatches(w)
        PROVE  CapacityInv'
    BY <1>13, <1>a, <1>b, ClaimedShrinks DEF QueryMatches, Claimed, Present, Storing, topic
  <1>14. ASSUME NEW w \in Workers, GetRoutes(w)
        PROVE  CapacityInv'
    BY <1>14, <1>a, <1>b, ClaimedShrinks DEF GetRoutes, Claimed, Present, Storing, topic
  <1>15. ASSUME NEW w \in Workers, Deliver(w)
        PROVE  CapacityInv'
    BY <1>15, <1>a, <1>b, ClaimedShrinks DEF Deliver, Claimed, Present, Storing, topic
  <1>16. ASSUME NEW t \in Published, RetainExpire(t)
        PROVE  CapacityInv'
    BY <1>16, <1>a, <1>b, ClaimedShrinks DEF RetainExpire, Claimed, Present, Storing, topic
  <1>17. CASE UNCHANGED vars
    BY <1>17, <1>a, ClaimedShrinks DEF vars, Claimed, Present, Storing, topic
  <1>18. QED
    BY <1>1, <1>2, <1>3, <1>4, <1>5, <1>6, <1>7, <1>8, <1>9, <1>10, <1>11, <1>12, <1>13, <1>14,
       <1>15, <1>16, <1>17 DEF Next, PublishStep

\* A packet is handled by one worker, once; what is retained for a topic was
\* published on it.
HandlingInv ==
    /\ \A w \in Workers : msg[w] \notin handled /\ (pc[w] = "idle" => msg[w] = None)
    /\ \A v, w \in Workers : msg[v] = msg[w] /\ msg[v] # None => v = w
    /\ \A t \in Published : retains[t] # None => TopicOf[retains[t]] = t

\* Every step keeps a packet with one worker.
LEMMA HandlingStep == TypeOK /\ HandlingInv /\ [Next]_vars => HandlingInv'
  <1> SUFFICES ASSUME TypeOK, HandlingInv, [Next]_vars
               PROVE  HandlingInv'
    OBVIOUS
  <1>a. /\ retains \in [Published -> Msgs \cup {None}] /\ handled \subseteq Msgs
        /\ msg \in [Workers -> Msgs \cup {None}] /\ pc \in [Workers -> Places]
    BY DEF TypeOK
  <1>b. \A w \in Workers : pc[w] # "idle" => msg[w] \in Msgs /\ topic(w) \in Published
    BY DEF TypeOK, topic, Published
  <1>1. ASSUME NEW c \in Clients, NEW f \in Filters, NEW q \in Qoss, Subscribe(c, f, q)
        PROVE  HandlingInv'
    BY <1>1, <1>a, <1>b DEF Subscribe, HandlingInv, topic
  <1>2. ASSUME NEW c \in Clients, NEW f \in Filters, Unsubscribe(c, f)
        PROVE  HandlingInv'
    BY <1>2, <1>a, <1>b DEF Unsubscribe, HandlingInv, topic
  <1>3. ASSUME NEW c \in Clients, NEW f \in Filters, PublishRetained(c, f)
        PROVE  HandlingInv'
    BY <1>3, <1>a, <1>b DEF PublishRetained, HandlingInv, topic
  <1>4. ASSUME NEW c \in Clients, DeleteClient(c)
        PROVE  HandlingInv'
    BY <1>4, <1>a, <1>b DEF DeleteClient, HandlingInv, topic
  <1>5. ASSUME NEW c \in Clients, DeleteClientTopic(c)
        PROVE  HandlingInv'
    BY <1>5, <1>a, <1>b DEF DeleteClientTopic, HandlingInv, topic
  <1>6. ASSUME NEW w \in Workers, NEW m \in Msgs, HandlePublish(w, m)
        PROVE  HandlingInv'
    BY <1>6, <1>a DEF HandlePublish, HandlingInv
  <1>7. ASSUME NEW w \in Workers, HandleRetainMessage(w)
        PROVE  HandlingInv'
    BY <1>7, <1>a, <1>b DEF HandleRetainMessage, HandlingInv, topic
  <1>8. ASSUME NEW w \in Workers, RetainContains(w)
        PROVE  HandlingInv'
    BY <1>8, <1>a, <1>b DEF RetainContains, HandlingInv, topic
  <1>9. ASSUME NEW w \in Workers, RetainPut(w)
        PROVE  HandlingInv'
    BY <1>9, <1>a, <1>b DEF RetainPut, HandlingInv, topic
  <1>10. ASSUME NEW w \in Workers, RetainSize(w)
        PROVE  HandlingInv'
    BY <1>10, <1>a, <1>b DEF RetainSize, HandlingInv, topic
  <1>11. ASSUME NEW w \in Workers, RetainPutNew(w)
        PROVE  HandlingInv'
    BY <1>11, <1>a, <1>b DEF RetainPutNew, HandlingInv, topic
  <1>12. ASSUME NEW w \in Workers, GetMatches(w)
        PROVE  HandlingInv'
    BY <1>12, <1>a, <1>b DEF GetMatches, HandlingInv, topic
  <1>13. ASSUME NEW w \in Workers, QueryMatches(w)
        PROVE  HandlingInv'
    BY <1>13, <1>a, <1>b DEF QueryMatches, HandlingInv, topic
  <1>14. ASSUME NEW w \in Workers, GetRoutes(w)
        PROVE  HandlingInv'
    BY <1>14, <1>a, <1>b DEF GetRoutes, HandlingInv, topic
  <1>15. ASSUME NEW w \in Workers, Deliver(w)
        PROVE  HandlingInv'
    BY <1>15, <1>a, <1>b DEF Deliver, HandlingInv
  <1>16. ASSUME NEW t \in Published, RetainExpire(t)
        PROVE  HandlingInv'
    BY <1>16, <1>a, <1>b DEF RetainExpire, HandlingInv, topic
  <1>17. CASE UNCHANGED vars
    BY <1>17 DEF vars, HandlingInv
  <1>18. QED
    BY <1>1, <1>2, <1>3, <1>4, <1>5, <1>6, <1>7, <1>8, <1>9, <1>10, <1>11, <1>12, <1>13, <1>14,
       <1>15, <1>16, <1>17 DEF Next, PublishStep

\* Worker w will hand message m to client c, whose subscription is in place.
Before == {"retain", "contains", "put", "size", "putNew", "getMatches", "queryMatches"}
Brings(w, c, m) ==
    msg[w] = m /\ (pc[w] \in Before \/ (pc[w] = "deliver" /\ \E r \in rows[w] : r[1] = c))

\* The retained message of the topic reaches a client that is subscribed to it: it
\* has, or the task of its SUBSCRIBE waits, or the handler of the PUBLISH brings it.
ReachInv ==
    \A c \in Clients, f \in Filters \cap Published, m \in Msgs :
        router[c][f] # None /\ <<c, f>> \notin scans /\ retains[f] = m =>
            m \in got[c] \/ \E w \in Workers : Brings(w, c, m)

\* A step keeps ReachInv that completes no subscription, retains only what its
\* worker brings, and lets no worker forget what it brings.
LEMMA ReachKeep ==
    ASSUME ReachInv,
           \A c \in Clients, f \in Filters \cap Published :
               router'[c][f] # None /\ <<c, f>> \notin scans' => router[c][f] # None /\ <<c, f>> \notin scans,
           \A c \in Clients, f \in Filters \cap Published, m \in Msgs :
               retains'[f] = m => retains[f] = m \/ \E w \in Workers : Brings(w, c, m)',
           \A c \in Clients : got[c] \subseteq got'[c],
           \A w \in Workers, c \in Clients, m \in Msgs : Brings(w, c, m) => Brings(w, c, m)' \/ m \in got'[c]
    PROVE  ReachInv'
  BY DEF ReachInv

\* Every step keeps the retained messages on their way to the subscribers.
LEMMA ReachStep == TypeOK /\ Functional /\ LookupInv /\ HandlingInv /\ ReachInv /\ [Next]_vars => ReachInv'
  <1> SUFFICES ASSUME TypeOK, Functional, LookupInv, HandlingInv, ReachInv, [Next]_vars
               PROVE  ReachInv'
    OBVIOUS
  <1>a. /\ retains \in [Published -> Msgs \cup {None}] /\ pc \in [Workers -> Places]
        /\ msg \in [Workers -> Msgs \cup {None}] /\ router \in [Clients -> [Filters -> Qoss \cup {None}]]
    BY DEF TypeOK
  <1>b. \A w \in Workers : pc[w] = "idle" => msg[w] = None
    BY DEF HandlingInv
  <1>d. rows = [w \in Workers |-> rows[w]] /\ got = [c \in Clients |-> got[c]]
    BY DEF Functional
  <1>1. ASSUME NEW c \in Clients, NEW f \in Filters, NEW q \in Qoss, Subscribe(c, f, q)
        PROVE  ReachInv'
    <2>1. /\ UNCHANGED <<retains, got, msg, rows, pc>>
          /\ \A d \in Clients, g \in Filters : router'[d][g] # None /\ <<d, g>> \notin scans' =>
               router[d][g] # None /\ <<d, g>> \notin scans
      BY <1>1, <1>a DEF Subscribe, SaveRouter
    <2>2. \A v \in Workers, d \in Clients, n \in Msgs : Brings(v, d, n) => Brings(v, d, n)'
      BY <2>1 DEF Brings
    <2>3. QED
      BY <2>1, <2>2, ReachKeep
  <1>2. ASSUME NEW c \in Clients, NEW f \in Filters, Unsubscribe(c, f)
        PROVE  ReachInv'
    <2>1. /\ UNCHANGED <<retains, got, msg, rows, pc>>
          /\ \A d \in Clients, g \in Filters : router'[d][g] # None /\ <<d, g>> \notin scans' =>
               router[d][g] # None /\ <<d, g>> \notin scans
      BY <1>2, <1>a DEF Unsubscribe, DeleteRouter
    <2>2. \A v \in Workers, d \in Clients, n \in Msgs : Brings(v, d, n) => Brings(v, d, n)'
      BY <2>1 DEF Brings
    <2>3. QED
      BY <2>1, <2>2, ReachKeep
  <1>3. ASSUME NEW c \in Clients, NEW f \in Filters, PublishRetained(c, f)
        PROVE  ReachInv'
    <2>1. /\ UNCHANGED <<router, retains, msg, rows, pc>> /\ scans' = scans \ {<<c, f>>}
          /\ got'[c] = got[c] \cup GetRetains(f) /\ \A d \in Clients : got[d] \subseteq got'[d]
      BY <1>3, <1>d DEF PublishRetained
    <2>2. \A v \in Workers, d \in Clients, n \in Msgs : Brings(v, d, n) => Brings(v, d, n)'
      BY <2>1 DEF Brings
    <2>3. ASSUME f \in Published, retains[f] # None PROVE retains[f] \in got'[c]
      <3>1. rmatch(f, f)
        BY DEF rmatch, rloopMatch
      <3>2. retains[f] \in GetRetains(f)
        BY <2>3, <3>1 DEF GetRetains
      <3>3. QED
        BY <2>1, <3>2
    <2>4. ASSUME NEW d \in Clients, NEW g \in Filters \cap Published, NEW m \in Msgs,
                 router[d][g] # None, <<d, g>> \notin scans', retains[g] = m
          PROVE  m \in got'[d] \/ \E w \in Workers : Brings(w, d, m)'
      <3>1. CASE d = c /\ g = f
        BY <2>3, <2>4, <3>1
      <3>2. CASE ~(d = c /\ g = f)
        <4>1. <<d, g>> \notin scans
          BY <2>1, <2>4, <3>2
        <4>2. m \in got[d] \/ \E w \in Workers : Brings(w, d, m)
          BY <2>4, <4>1 DEF ReachInv
        <4>3. QED
          BY <2>1, <2>2, <4>2
      <3>3. QED
        BY <3>1, <3>2
    <2>5. QED
      BY <2>1, <2>4 DEF ReachInv
  <1>4. ASSUME NEW c \in Clients, DeleteClient(c)
        PROVE  ReachInv'
    <2>1. UNCHANGED <<router, scans, retains, got>>
      BY <1>4 DEF DeleteClient
    <2>2. \A v \in Workers, d \in Clients, n \in Msgs : Brings(v, d, n) => Brings(v, d, n)' \/ n \in got'[d]
      BY <1>4, <1>a, <1>d DEF DeleteClient, Brings, Before
    <2>3. QED
      BY <2>1, <2>2, ReachKeep
  <1>5. ASSUME NEW c \in Clients, DeleteClientTopic(c)
        PROVE  ReachInv'
    <2>1. /\ UNCHANGED <<retains, got, msg, rows, pc>>
          /\ \A d \in Clients, g \in Filters : router'[d][g] # None /\ <<d, g>> \notin scans' =>
               router[d][g] # None /\ <<d, g>> \notin scans
      BY <1>5, <1>a DEF DeleteClientTopic, DeleteRouter
    <2>2. \A v \in Workers, d \in Clients, n \in Msgs : Brings(v, d, n) => Brings(v, d, n)'
      BY <2>1 DEF Brings
    <2>3. QED
      BY <2>1, <2>2, ReachKeep
  <1>6. ASSUME NEW w \in Workers, NEW m \in Msgs, HandlePublish(w, m)
        PROVE  ReachInv'
    <2>1. UNCHANGED <<router, scans, retains, got>> /\ msg[w] = None
      BY <1>6, <1>b DEF HandlePublish
    <2>2. \A v \in Workers, d \in Clients, n \in Msgs : Brings(v, d, n) => Brings(v, d, n)' \/ n \in got'[d]
      BY <1>6, <2>1, <1>a DEF HandlePublish, Brings, Before
    <2>3. QED
      BY <2>1, <2>2, ReachKeep
  <1>7. ASSUME NEW w \in Workers, HandleRetainMessage(w)
        PROVE  ReachInv'
    <2>1. /\ UNCHANGED <<router, scans, got, msg, rows>> /\ pc[w] = "retain"
          /\ \E p \in Before : pc' = [pc EXCEPT ![w] = p]
          /\ retains' = retains \/ retains' = [retains EXCEPT ![topic(w)] = None]
      BY <1>7 DEF HandleRetainMessage, Before
    <2>2. \A v \in Workers, d \in Clients, n \in Msgs : Brings(v, d, n) => Brings(v, d, n)'
      BY <2>1, <1>a DEF Brings, Before
    <2>3. \A f \in Published, n \in Msgs : retains'[f] = n => retains[f] = n
      BY <2>1, <1>a
    <2>4. QED
      BY <2>1, <2>2, <2>3, ReachKeep
  <1>8. ASSUME NEW w \in Workers, RetainContains(w)
        PROVE  ReachInv'
    <2>1. UNCHANGED <<router, scans, retains, got>>
      BY <1>8 DEF RetainContains
    <2>2. \A v \in Workers, d \in Clients, n \in Msgs : Brings(v, d, n) => Brings(v, d, n)' \/ n \in got'[d]
      BY <1>8, <1>a, <1>d DEF RetainContains, Brings, Before
    <2>3. QED
      BY <2>1, <2>2, ReachKeep
  <1>9. ASSUME NEW w \in Workers, RetainPut(w)
        PROVE  ReachInv'
    <2>1. /\ UNCHANGED <<router, scans, got, msg, rows>> /\ pc[w] \in Before /\ pc[w] # "idle"
          /\ retains' = [retains EXCEPT ![topic(w)] = msg[w]] /\ \E p \in Before : pc' = [pc EXCEPT ![w] = p]
      BY <1>9 DEF RetainPut, Before
    <2>2. \A v \in Workers, d \in Clients, n \in Msgs : Brings(v, d, n) => Brings(v, d, n)'
      BY <2>1, <1>a DEF Brings
    <2>3. \A d \in Clients, f \in Filters \cap Published, n \in Msgs :
            retains'[f] = n => retains[f] = n \/ \E v \in Workers : Brings(v, d, n)'
      <3>1. SUFFICES ASSUME NEW d \in Clients, NEW f \in Filters \cap Published, NEW n \in Msgs,
                            retains'[f] = n, retains[f] # n
                     PROVE  Brings(w, d, n)'
        OBVIOUS
      <3>2. n = msg[w]
        BY <2>1, <3>1, <1>a
      <3>3. QED
        BY <2>1, <3>2, <1>a DEF Brings
    <2>4. QED
      BY <2>1, <2>2, <2>3, ReachKeep
  <1>10. ASSUME NEW w \in Workers, RetainSize(w)
        PROVE  ReachInv'
    <2>1. UNCHANGED <<router, scans, retains, got>>
      BY <1>10 DEF RetainSize
    <2>2. \A v \in Workers, d \in Clients, n \in Msgs : Brings(v, d, n) => Brings(v, d, n)' \/ n \in got'[d]
      BY <1>10, <1>a, <1>d DEF RetainSize, Brings, Before
    <2>3. QED
      BY <2>1, <2>2, ReachKeep
  <1>11. ASSUME NEW w \in Workers, RetainPutNew(w)
        PROVE  ReachInv'
    <2>1. /\ UNCHANGED <<router, scans, got, msg, rows>> /\ pc[w] \in Before /\ pc[w] # "idle"
          /\ retains' = [retains EXCEPT ![topic(w)] = msg[w]] /\ \E p \in Before : pc' = [pc EXCEPT ![w] = p]
      BY <1>11 DEF RetainPutNew, Before
    <2>2. \A v \in Workers, d \in Clients, n \in Msgs : Brings(v, d, n) => Brings(v, d, n)'
      BY <2>1, <1>a DEF Brings
    <2>3. \A d \in Clients, f \in Filters \cap Published, n \in Msgs :
            retains'[f] = n => retains[f] = n \/ \E v \in Workers : Brings(v, d, n)'
      <3>1. SUFFICES ASSUME NEW d \in Clients, NEW f \in Filters \cap Published, NEW n \in Msgs,
                            retains'[f] = n, retains[f] # n
                     PROVE  Brings(w, d, n)'
        OBVIOUS
      <3>2. n = msg[w]
        BY <2>1, <3>1, <1>a
      <3>3. QED
        BY <2>1, <3>2, <1>a DEF Brings
    <2>4. QED
      BY <2>1, <2>2, <2>3, ReachKeep
  <1>12. ASSUME NEW w \in Workers, GetMatches(w)
        PROVE  ReachInv'
    <2>1. UNCHANGED <<router, scans, retains, got>>
      BY <1>12 DEF GetMatches
    <2>2. \A v \in Workers, d \in Clients, n \in Msgs : Brings(v, d, n) => Brings(v, d, n)' \/ n \in got'[d]
      BY <1>12, <1>a, <1>d DEF GetMatches, Brings, Before
    <2>3. QED
      BY <2>1, <2>2, ReachKeep
  <1>13. ASSUME NEW w \in Workers, QueryMatches(w)
        PROVE  ReachInv'
    <2>1. UNCHANGED <<router, scans, retains, got>>
      BY <1>13 DEF QueryMatches
    <2>2. \A v \in Workers, d \in Clients, n \in Msgs : Brings(v, d, n) => Brings(v, d, n)' \/ n \in got'[d]
      BY <1>13, <1>a, <1>d DEF QueryMatches, Brings, Before
    <2>3. QED
      BY <2>1, <2>2, ReachKeep
  <1>14. ASSUME NEW w \in Workers, GetRoutes(w)
        PROVE  ReachInv'
    <2>1. /\ UNCHANGED <<router, scans, retains, got, msg>>
          /\ pc[w] = "queryMatches" /\ pc' = [pc EXCEPT ![w] = "deliver"]
          /\ \A v \in Workers : v # w => rows'[v] = rows[v]
          /\ rows'[w] = {<<s[1], s[2], calculate(QosOf[msg[w]], router[s[1]][s[2]])>> :
                           s \in {x \in Subscriptions : x[2] \in matches[w]}}
      BY <1>14, <1>d DEF GetRoutes
    <2>2. topic(w) \in matches[w]
      BY <2>1 DEF LookupInv, LookupOf
    <2>3. ASSUME NEW c \in Clients, NEW f \in Filters \cap Published, NEW m \in Msgs,
                 router[c][f] # None, <<c, f>> \notin scans, retains[f] = m
          PROVE  m \in got[c] \/ \E v \in Workers : Brings(v, c, m)'
      <3>1. CASE msg[w] = m
        <4>1. topic(w) = f /\ <<c, f>> \in Subscriptions
          BY <2>3, <3>1, <1>a DEF HandlingInv, topic, Subscriptions
        <4>2. <<c, f, calculate(QosOf[m], router[c][f])>> \in rows'[w]
          BY <2>1, <2>2, <3>1, <4>1
        <4>3. \E r \in rows'[w] : r[1] = c
          BY <4>2
        <4>4. Brings(w, c, m)'
          BY <2>1, <3>1, <4>3, <1>a DEF Brings
        <4>5. QED
          BY <4>4
      <3>2. CASE msg[w] # m
        <4>1. \A v \in Workers : Brings(v, c, m) => Brings(v, c, m)'
          BY <2>1, <3>2, <1>a DEF Brings
        <4>2. QED
          BY <2>3, <4>1 DEF ReachInv
      <3>3. QED
        BY <3>1, <3>2
    <2>4. QED
      BY <2>1, <2>3 DEF ReachInv
  <1>15. ASSUME NEW w \in Workers, Deliver(w)
        PROVE  ReachInv'
    <2>1. /\ UNCHANGED <<router, scans, retains>> /\ pc[w] = "deliver"
          /\ \A v \in Workers : v # w => pc'[v] = pc[v] /\ msg'[v] = msg[v] /\ rows'[v] = rows[v]
          /\ \A d \in Clients : got'[d] = IF \E r \in rows[w] : r[1] = d THEN got[d] \cup {msg[w]} ELSE got[d]
      BY <1>15, <1>a, <1>d DEF Deliver
    <2>2. \A v \in Workers, d \in Clients, n \in Msgs : Brings(v, d, n) => Brings(v, d, n)' \/ n \in got'[d]
      <3>1. SUFFICES ASSUME NEW v \in Workers, NEW d \in Clients, NEW n \in Msgs, Brings(v, d, n)
                     PROVE  Brings(v, d, n)' \/ n \in got'[d]
        OBVIOUS
      <3>2. CASE v = w
        <4>1. msg[w] = n /\ \E r \in rows[w] : r[1] = d
          BY <2>1, <3>1, <3>2 DEF Brings, Before
        <4>2. got'[d] = got[d] \cup {msg[w]}
          BY <2>1, <4>1
        <4>3. QED
          BY <4>1, <4>2
      <3>3. CASE v # w
        BY <2>1, <3>1, <3>3 DEF Brings
      <3>4. QED
        BY <3>2, <3>3
    <2>3. \A d \in Clients : got[d] \subseteq got'[d]
      BY <2>1, ZenonT(60)
    <2>4. QED
      BY <2>1, <2>2, <2>3, ReachKeep
  <1>16. ASSUME NEW t \in Published, RetainExpire(t)
        PROVE  ReachInv'
    <2>1. UNCHANGED <<router, scans, got, msg, rows, pc>> /\ retains' = [retains EXCEPT ![t] = None]
      BY <1>16 DEF RetainExpire
    <2>2. \A v \in Workers, d \in Clients, n \in Msgs : Brings(v, d, n) => Brings(v, d, n)'
      BY <2>1 DEF Brings
    <2>3. \A f \in Published, n \in Msgs : retains'[f] = n => retains[f] = n
      BY <2>1, <1>a
    <2>4. QED
      BY <2>1, <2>2, <2>3, ReachKeep
  <1>17. CASE UNCHANGED vars
    BY <1>17 DEF vars, ReachInv, Brings
  <1>18. QED
    BY <1>1, <1>2, <1>3, <1>4, <1>5, <1>6, <1>7, <1>8, <1>9, <1>10, <1>11, <1>12, <1>13, <1>14,
       <1>15, <1>16, <1>17 DEF Next, PublishStep

-----------------------------------------------------------------------------
(* The theorems                                                             *)

RoutingSafe ==
    /\ TypeOK /\ TrieCounts /\ PublishedInv /\ FilterInv /\ Functional
    /\ LookupInv /\ RowsInv /\ CapacityInv /\ HandlingInv /\ ReachInv

\* The invariant holds before the first packet and the first subscription.
LEMMA InitSafe == Init => RoutingSafe
  <1> SUFFICES ASSUME Init PROVE RoutingSafe
    OBVIOUS
  <1>1. TypeOK /\ TrieCounts
    BY InitInv
  <1>2. PublishedInv /\ FilterInv /\ LookupInv /\ RowsInv
    BY DEF Init, PublishedInv, FilterInv, LookupInv, RowsInv
  <1>3. Functional
    BY DEF Init, Functional
  <1>4. CapacityInv
    <2>1. Claimed = {}
      BY DEF Init, Claimed, Present, Storing
    <2>2. QED
      BY <2>1, FS_EmptySet, WorkersFinite DEF CapacityInv
  <1>5. HandlingInv
    BY DEF Init, HandlingInv
  <1>6. ReachInv
    BY DEF Init, ReachInv
  <1>7. QED
    BY <1>1, <1>2, <1>3, <1>4, <1>5, <1>6 DEF RoutingSafe

\* Every step keeps it: each part needs the ones before it.
LEMMA SafeStep == RoutingSafe /\ [Next]_vars => RoutingSafe'
  <1> SUFFICES ASSUME RoutingSafe, [Next]_vars PROVE RoutingSafe'
    OBVIOUS
  <1>0. /\ TypeOK /\ TrieCounts /\ PublishedInv /\ FilterInv /\ Functional
        /\ LookupInv /\ RowsInv /\ CapacityInv /\ HandlingInv /\ ReachInv
    BY DEF RoutingSafe
  <1>1. TypeOK' /\ TrieCounts'
    BY <1>0, TypeStep, CountStep
  <1>2. PublishedInv' /\ FilterInv' /\ Functional'
    BY <1>0, PublishedStep, FilterStep, FunctionalStep
  <1>3. LookupInv' /\ RowsInv'
    BY <1>0, LookupStep, RowsStep
  <1>4. CapacityInv' /\ HandlingInv' /\ ReachInv'
    BY <1>0, CapacityStep, HandlingStep, ReachStep
  <1>5. QED
    BY <1>1, <1>2, <1>3, <1>4 DEF RoutingSafe

\* The lookup of RouterCacheImpl, one read of the trie per level and one of the
\* router, each in a snapshot of its own, finds every subscription that matches
\* and is in place while it runs, for any set of filters and any traffic.
THEOREM StableMatchesFound == Spec => []LookupComplete
  <1>1. RoutingSafe => LookupComplete
    BY DEF RoutingSafe, RowsInv, RowsOf, LookupComplete
  <1>2. QED
    BY <1>1, InitSafe, SafeStep, PTL DEF Spec

\* It finds nothing else: a route is that of a subscription that matches and was
\* in place at some moment of the lookup, with the QoS calculated from its own.
THEOREM RoutesAreMatches == Spec => []LookupSound
  <1>1. RoutingSafe => LookupSound
    BY DEF RoutingSafe, RowsInv, RowsOf, LookupSound
  <1>2. QED
    BY <1>1, InitSafe, SafeStep, PTL DEF Spec

\* RetainCacheImpl.save exceeds the capacity of the retained messages by less
\* than the number of workers, for any pool and any capacity.
THEOREM RetainedWithinBound == Spec => []RetainOvershootBounded
  <1>1. ASSUME RoutingSafe PROVE RetainOvershootBounded
    <2>1. CapacityInv
      BY <1>1 DEF RoutingSafe
    <2>2. Present \subseteq Claimed /\ IsFiniteSet(Claimed)
      BY <2>1 DEF Claimed, CapacityInv
    <2>3. /\ IsFiniteSet(Present) /\ Cardinality(Present) <= Cardinality(Claimed)
          /\ Cardinality(Present) \in Nat /\ Cardinality(Claimed) \in Nat
      BY <2>2, FS_Subset, FS_CardinalityType
    <2>4. Size = Cardinality(Present)
      BY DEF Size, Present
    <2>5. QED
      BY <2>1, <2>3, <2>4, WorkersFinite DEF CapacityInv, RetainOvershootBounded
  <1>2. QED
    BY <1>1, InitSafe, SafeStep, PTL DEF Spec

\* A retained message whose PUBLISH races a SUBSCRIBE to its topic reaches the
\* client: each handler saves before it looks up, so one of them sees the other.
THEOREM RetainedNotMissed == Spec => []RetainedReachesTopic
  <1>1. ASSUME RoutingSafe PROVE RetainedReachesTopic
    <2>1. TypeOK /\ HandlingInv /\ ReachInv
      BY <1>1 DEF RoutingSafe
    <2>2. SUFFICES ASSUME NEW c \in Clients, NEW f \in Filters \cap Published,
                          router[c][f] # None, <<c, f>> \notin scans, retains[f] \in handled
                   PROVE  retains[f] \in got[c]
      BY DEF RetainedReachesTopic, Reached
    <2>3. retains[f] \in Msgs
      BY <2>1, <2>2 DEF TypeOK
    <2>4. \A w \in Workers : msg[w] # retains[f]
      BY <2>1, <2>2 DEF HandlingInv
    <2>5. QED
      BY <2>1, <2>2, <2>3, <2>4 DEF ReachInv, Brings
  <1>2. QED
    BY <1>1, InitSafe, SafeStep, PTL DEF Spec

=============================================================================
