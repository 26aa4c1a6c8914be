---------------------- MODULE PersistentSessionProofs ----------------------
(***************************************************************************)
(* Theorems about PersistentSession, for any number of workers, messages   *)
(* and connections, any capacities and any number of crashes.              *)
(***************************************************************************)
EXTENDS PersistentSession, TLAPS, FiniteSetTheorems

\* Places of a worker that works on no wrapper, with a message, with the entry it
\* retries, within dequeue(), and within a try block that holds inflightCas.
Detached == {"idle", "offline", "relook", "recPut"}
Carrying == {"handle", "offer", "offline", "inChk", "inPut", "dqPut"}
Retrying == {"rtRel", "rtDel", "rtPut"}
Draining == {"dqChk", "dqPoll", "dqPut", "dqEnd"}
Trying == {"offer", "inPut", "dqPut", "rtPut"}
Saving == {"opClose", "opCreate", "opAdd"}

\* What the local variables of a worker hold at each place.
LocalsAt(w) ==
    /\ job[w].pc \notin Detached => job[w].on \in Conns
    /\ job[w].pc \in Carrying => job[w].cur \in Msgs
    /\ job[w].pc \in Retrying => job[w].copy \in Entries /\ job[w].copy.retry < MaxRetries
    /\ job[w].pc = "recPut" => job[w].rec \in Packets
    /\ job[w].pc = "rtPut" => endpoint[job[w].on] \in Conns /\ job[w].key # NoId
    /\ job[w].holds => job[w].pc \in Trying
    /\ job[w].pc \in Trying \ {"offer"} => job[w].holds
    /\ job[w].pc \notin Carrying => job[w].cur = None
    /\ job[w].pc \notin Retrying \cup {"recPut"} => job[w].copy = None
    /\ job[w].pc \notin Saving => job[w].items = <<>>

LocalsInv == \A w \in Workers : LocalsAt(w)

\* Connections are opened one after the other, by one worker at a time.
OpenInv ==
    /\ conn[1] \notin {"new", "opening"}
    /\ \A c, d \in Conns : conn[c] = "new" /\ conn[d] # "new" => d < c
    /\ \A c, d \in Conns : conn[c] = "opening" /\ conn[d] = "opening" => c = d
    /\ \A w \in Workers : job[w].pc \in Opening => \E c \in Conns : conn[c] = "opening"
    /\ \A v, w \in Workers : job[v].pc \in Opening /\ job[w].pc \in Opening => v = w

\* The retries of an entry that connection c has not raised yet.
Low(e, c) == e # None => e.retry <= MaxRetries + c - 2

\* open() has not come to the entry under k.
Awaits(w, k) ==
    \/ job[w].pc \in {"opEndpoint", "opClose", "opCreate", "opAdd"}
    \/ job[w].pc = "opRetry" /\ k \in job[w].todo

\* Only open() raises the retries of an entry beyond the maximum, once per
\* connection and key; a copy receivePubrec has read is as low as its entry was.
RetryInv ==
    \A c \in Conns :
        /\ conn[c] = "new" =>
             /\ \A k \in Keys : Low(inflights[k], c)
             /\ \A w \in Workers : job[w].pc = "recPut" => Low(job[w].copy, c)
        /\ conn[c] = "opening" =>
             \A v \in Workers, k \in Keys : Awaits(v, k) =>
                 /\ Low(inflights[k], c)
                 /\ \A w \in Workers : job[w].pc = "recPut" /\ job[w].rec.id = k =>
                      Low(job[w].copy, c)

\* A lock that is taken has a worker that will release it; inflightCas of a
\* wrapper is held by one worker.
LockInv ==
    /\ \A x \in Conns :
         /\ queueCas[x] = 1 => \E w \in Workers : job[w].pc \in Draining /\ job[w].on = x
         /\ inflightCas[x] = 1 => \E w \in Workers : job[w].holds /\ job[w].on = x
    /\ \A w \in Workers : job[w].holds => job[w].on \in Conns /\ inflightCas[job[w].on] = 1
    /\ \A v, w \in Workers : job[v].holds /\ job[w].holds /\ job[v].on = job[w].on => v = w

-----------------------------------------------------------------------------
(* What a step makes of the worker that takes it                            *)

USE PersistentAssumption
USE DEF At, Goto, Finish, storeVars, serverVars, historyVars, endpointVars, queueVars, wrapperVars,
        timerVars, casVars, outcomeVars

\* The job of worker w changes to one with these fields; all other jobs stay.
Becomes(w, pc, on, cur, copy, key, rec, todo, items, holds) ==
    /\ job' \in [Workers -> Jobs]
    /\ \A v \in Workers : v # w => job'[v] = job[v]
    /\ job'[w].pc = pc /\ job'[w].on = on /\ job'[w].cur = cur /\ job'[w].copy = copy
    /\ job'[w].key = key /\ job'[w].rec = rec /\ job'[w].todo = todo /\ job'[w].items = items
    /\ job'[w].holds = holds

\* The worker changes its place, and nothing else.
Moves(w, place) ==
    LET j == job[w] IN Becomes(w, place, j.on, j.cur, j.copy, j.key, j.rec, j.todo, j.items,
      j.holds)

\* The worker ends its handler.
Rests(w) == Becomes(w, "idle", None, None, None, NoId, None, {}, <<>>, FALSE)

\* The worker has chosen a new id for the entry it retries.
Refiles(w) ==
    LET j == job[w] IN
    /\ Connected(j.on)
    /\ \E e \in Entries :
         /\ e.retry = j.copy.retry /\ e.msg = j.copy.msg /\ e.by = endpoint[j.on]
         /\ Becomes(w, "rtPut", j.on, j.cur, e, NextMessageId(j.on), j.rec, j.todo, j.items, TRUE)

\* The fields of a job have their types.
LEMMA JobFields ==
    ASSUME NEW j \in Jobs
    PROVE  /\ j.pc \in Places /\ j.on \in Conns \cup {None} /\ j.cur \in Msgs \cup {None}
           /\ j.copy \in Entries \cup {None} /\ j.key \in Keys /\ j.rec \in Packets \cup {None}
           /\ j.todo \in SUBSET Keys /\ j.items \in Seq(Msgs) /\ j.holds \in BOOLEAN
  BY DEF Jobs

\* A job that is replaced: what Becomes says of it, field by field.
LEMMA JobChange ==
    ASSUME job \in [Workers -> Jobs], NEW w \in Workers, NEW R \in Jobs,
           job' = [job EXCEPT ![w] = R]
    PROVE  Becomes(w, R.pc, R.on, R.cur, R.copy, R.key, R.rec, R.todo, R.items, R.holds)
  BY DEF Becomes

\* Goto changes the place alone.
LEMMA GotoMoves ==
    ASSUME job \in [Workers -> Jobs], NEW w \in Workers, NEW place \in Places, Goto(w, place)
    PROVE  Moves(w, place)
  <1> DEFINE R == [job[w] EXCEPT !.pc = place]
  <1>1. job' = [job EXCEPT ![w] = R]
    OBVIOUS
  <1>2. job[w] \in Jobs
    OBVIOUS
  <1>3. R \in Jobs /\ R.pc = place /\ R.on = job[w].on /\ R.cur = job[w].cur /\ R.copy = job[w].copy
        /\ R.key = job[w].key /\ R.rec = job[w].rec /\ R.todo = job[w].todo
             /\ R.items = job[w].items /\ R.holds = job[w].holds
    BY <1>2 DEF Jobs
  <1> HIDE DEF R
  <1>4. Becomes(w, R.pc, R.on, R.cur, R.copy, R.key, R.rec, R.todo, R.items, R.holds)
    BY <1>1, <1>3, JobChange
  <1>5. QED
    BY <1>3, <1>4 DEF Moves

\* Finish gives the worker back.
LEMMA FinishRests ==
    ASSUME job \in [Workers -> Jobs], NEW w \in Workers, Finish(w)
    PROVE  Rests(w)
  <1>1. Idle \in Jobs /\ Idle.pc = "idle" /\ Idle.on = None /\ Idle.cur = None /\ Idle.copy = None
        /\ Idle.key = NoId /\ Idle.rec = None /\ Idle.todo = {} /\ Idle.items = <<>>
             /\ Idle.holds = FALSE
    BY DEF Idle, Jobs, Places, Keys
  <1>2. Becomes(w, Idle.pc, Idle.on, Idle.cur, Idle.copy, Idle.key, Idle.rec, Idle.todo,
          Idle.items, Idle.holds)
    BY <1>1, JobChange
  <1>3. QED
    BY <1>1, <1>2 DEF Rests

\* Assigning these fields of a job leaves the others as they are.
LEMMA SetMessage ==
    ASSUME job \in [Workers -> Jobs], NEW w \in Workers, NEW p \in Places,
           NEW m \in Msgs \cup {None},
           job' = [job EXCEPT ![w] = [job[w] EXCEPT !.pc = p, !.cur = m]]
    PROVE  Becomes(w, p, job[w].on, m, job[w].copy, job[w].key, job[w].rec, job[w].todo,
           job[w].items, job[w].holds)
  <1> DEFINE R == [job[w] EXCEPT !.pc = p, !.cur = m]
  <1>1. job[w] \in Jobs
    OBVIOUS
  <1>2. R \in Jobs
    BY <1>1 DEF Jobs
  <1>3. R.pc = p /\ R.on = job[w].on /\ R.cur = m /\ R.copy = job[w].copy /\ R.key = job[w].key
          /\ R.rec = job[w].rec /\ R.todo = job[w].todo /\ R.items = job[w].items
          /\ R.holds = job[w].holds
    BY <1>1 DEF Jobs
  <1>4. job' = [job EXCEPT ![w] = R]
    OBVIOUS
  <1> HIDE DEF R
  <1>5. Becomes(w, R.pc, R.on, R.cur, R.copy, R.key, R.rec, R.todo, R.items, R.holds)
    BY <1>2, <1>4, JobChange
  <1>6. QED
    BY <1>3, <1>5

\* Assigning these fields of a job leaves the others as they are.
LEMMA SetWrapper ==
    ASSUME job \in [Workers -> Jobs], NEW w \in Workers, NEW p \in Places,
           NEW x \in Conns \cup {None},
           job' = [job EXCEPT ![w] = [job[w] EXCEPT !.pc = p, !.on = x]]
    PROVE  Becomes(w, p, x, job[w].cur, job[w].copy, job[w].key, job[w].rec, job[w].todo,
           job[w].items, job[w].holds)
  <1> DEFINE R == [job[w] EXCEPT !.pc = p, !.on = x]
  <1>1. job[w] \in Jobs
    OBVIOUS
  <1>2. R \in Jobs
    BY <1>1 DEF Jobs
  <1>3. R.pc = p /\ R.on = x /\ R.cur = job[w].cur /\ R.copy = job[w].copy /\ R.key = job[w].key
          /\ R.rec = job[w].rec /\ R.todo = job[w].todo /\ R.items = job[w].items
          /\ R.holds = job[w].holds
    BY <1>1 DEF Jobs
  <1>4. job' = [job EXCEPT ![w] = R]
    OBVIOUS
  <1> HIDE DEF R
  <1>5. Becomes(w, R.pc, R.on, R.cur, R.copy, R.key, R.rec, R.todo, R.items, R.holds)
    BY <1>2, <1>4, JobChange
  <1>6. QED
    BY <1>3, <1>5

\* Assigning these fields of a job leaves the others as they are.
LEMMA SetDelivery ==
    ASSUME job \in [Workers -> Jobs], NEW w \in Workers, NEW p \in Places,
           NEW x \in Conns \cup {None}, NEW m \in Msgs \cup {None},
           job' = [job EXCEPT ![w] = [job[w] EXCEPT !.pc = p, !.on = x, !.cur = m]]
    PROVE  Becomes(w, p, x, m, job[w].copy, job[w].key, job[w].rec, job[w].todo, job[w].items,
           job[w].holds)
  <1> DEFINE R == [job[w] EXCEPT !.pc = p, !.on = x, !.cur = m]
  <1>1. job[w] \in Jobs
    OBVIOUS
  <1>2. R \in Jobs
    BY <1>1 DEF Jobs
  <1>3. R.pc = p /\ R.on = x /\ R.cur = m /\ R.copy = job[w].copy /\ R.key = job[w].key
          /\ R.rec = job[w].rec /\ R.todo = job[w].todo /\ R.items = job[w].items
          /\ R.holds = job[w].holds
    BY <1>1 DEF Jobs
  <1>4. job' = [job EXCEPT ![w] = R]
    OBVIOUS
  <1> HIDE DEF R
  <1>5. Becomes(w, R.pc, R.on, R.cur, R.copy, R.key, R.rec, R.todo, R.items, R.holds)
    BY <1>2, <1>4, JobChange
  <1>6. QED
    BY <1>3, <1>5

\* Assigning these fields of a job leaves the others as they are.
LEMMA SetTry ==
    ASSUME job \in [Workers -> Jobs], NEW w \in Workers, NEW p \in Places, NEW h \in BOOLEAN,
           job' = [job EXCEPT ![w] = [job[w] EXCEPT !.pc = p, !.holds = h]]
    PROVE  Becomes(w, p, job[w].on, job[w].cur, job[w].copy, job[w].key, job[w].rec, job[w].todo,
           job[w].items, h)
  <1> DEFINE R == [job[w] EXCEPT !.pc = p, !.holds = h]
  <1>1. job[w] \in Jobs
    OBVIOUS
  <1>2. R \in Jobs
    BY <1>1 DEF Jobs
  <1>3. R.pc = p /\ R.on = job[w].on /\ R.cur = job[w].cur /\ R.copy = job[w].copy
          /\ R.key = job[w].key /\ R.rec = job[w].rec /\ R.todo = job[w].todo
          /\ R.items = job[w].items /\ R.holds = h
    BY <1>1 DEF Jobs
  <1>4. job' = [job EXCEPT ![w] = R]
    OBVIOUS
  <1> HIDE DEF R
  <1>5. Becomes(w, R.pc, R.on, R.cur, R.copy, R.key, R.rec, R.todo, R.items, R.holds)
    BY <1>2, <1>4, JobChange
  <1>6. QED
    BY <1>3, <1>5

\* Assigning these fields of a job leaves the others as they are.
LEMMA SetTryMessage ==
    ASSUME job \in [Workers -> Jobs], NEW w \in Workers, NEW p \in Places,
           NEW m \in Msgs \cup {None}, NEW h \in BOOLEAN,
           job' = [job EXCEPT ![w] = [job[w] EXCEPT !.pc = p, !.cur = m, !.holds = h]]
    PROVE  Becomes(w, p, job[w].on, m, job[w].copy, job[w].key, job[w].rec, job[w].todo,
           job[w].items, h)
  <1> DEFINE R == [job[w] EXCEPT !.pc = p, !.cur = m, !.holds = h]
  <1>1. job[w] \in Jobs
    OBVIOUS
  <1>2. R \in Jobs
    BY <1>1 DEF Jobs
  <1>3. R.pc = p /\ R.on = job[w].on /\ R.cur = m /\ R.copy = job[w].copy /\ R.key = job[w].key
          /\ R.rec = job[w].rec /\ R.todo = job[w].todo /\ R.items = job[w].items /\ R.holds = h
    BY <1>1 DEF Jobs
  <1>4. job' = [job EXCEPT ![w] = R]
    OBVIOUS
  <1> HIDE DEF R
  <1>5. Becomes(w, R.pc, R.on, R.cur, R.copy, R.key, R.rec, R.todo, R.items, R.holds)
    BY <1>2, <1>4, JobChange
  <1>6. QED
    BY <1>3, <1>5

\* Assigning these fields of a job leaves the others as they are.
LEMMA SetPubrec ==
    ASSUME job \in [Workers -> Jobs], NEW w \in Workers, NEW p \in Places,
           NEW r \in Packets \cup {None}, NEW e \in Entries \cup {None},
           job' = [job EXCEPT ![w] = [job[w] EXCEPT !.pc = p, !.rec = r, !.copy = e]]
    PROVE  Becomes(w, p, job[w].on, job[w].cur, e, job[w].key, r, job[w].todo, job[w].items,
           job[w].holds)
  <1> DEFINE R == [job[w] EXCEPT !.pc = p, !.rec = r, !.copy = e]
  <1>1. job[w] \in Jobs
    OBVIOUS
  <1>2. R \in Jobs
    BY <1>1 DEF Jobs
  <1>3. R.pc = p /\ R.on = job[w].on /\ R.cur = job[w].cur /\ R.copy = e /\ R.key = job[w].key
          /\ R.rec = r /\ R.todo = job[w].todo /\ R.items = job[w].items /\ R.holds = job[w].holds
    BY <1>1 DEF Jobs
  <1>4. job' = [job EXCEPT ![w] = R]
    OBVIOUS
  <1> HIDE DEF R
  <1>5. Becomes(w, R.pc, R.on, R.cur, R.copy, R.key, R.rec, R.todo, R.items, R.holds)
    BY <1>2, <1>4, JobChange
  <1>6. QED
    BY <1>3, <1>5

\* Assigning these fields of a job leaves the others as they are.
LEMMA SetRetry ==
    ASSUME job \in [Workers -> Jobs], NEW w \in Workers, NEW x \in Conns \cup {None},
           NEW e \in Entries \cup {None}, NEW k \in Keys, NEW p \in Places,
           job' = [job EXCEPT ![w] = [job[w] EXCEPT !.on = x, !.copy = e, !.key = k, !.pc = p]]
    PROVE  Becomes(w, p, x, job[w].cur, e, k, job[w].rec, job[w].todo, job[w].items, job[w].holds)
  <1> DEFINE R == [job[w] EXCEPT !.on = x, !.copy = e, !.key = k, !.pc = p]
  <1>1. job[w] \in Jobs
    OBVIOUS
  <1>2. R \in Jobs
    BY <1>1 DEF Jobs
  <1>3. R.pc = p /\ R.on = x /\ R.cur = job[w].cur /\ R.copy = e /\ R.key = k
          /\ R.rec = job[w].rec /\ R.todo = job[w].todo /\ R.items = job[w].items
          /\ R.holds = job[w].holds
    BY <1>1 DEF Jobs
  <1>4. job' = [job EXCEPT ![w] = R]
    OBVIOUS
  <1> HIDE DEF R
  <1>5. Becomes(w, R.pc, R.on, R.cur, R.copy, R.key, R.rec, R.todo, R.items, R.holds)
    BY <1>2, <1>4, JobChange
  <1>6. QED
    BY <1>3, <1>5

\* Assigning these fields of a job leaves the others as they are.
LEMMA SetRefile ==
    ASSUME job \in [Workers -> Jobs], NEW w \in Workers, NEW p \in Places, NEW k \in Keys,
           NEW e \in Entries \cup {None}, NEW h \in BOOLEAN,
           job' = [job EXCEPT ![w] = [job[w] EXCEPT !.pc = p, !.key = k, !.copy = e, !.holds = h]]
    PROVE  Becomes(w, p, job[w].on, job[w].cur, e, k, job[w].rec, job[w].todo, job[w].items, h)
  <1> DEFINE R == [job[w] EXCEPT !.pc = p, !.key = k, !.copy = e, !.holds = h]
  <1>1. job[w] \in Jobs
    OBVIOUS
  <1>2. R \in Jobs
    BY <1>1 DEF Jobs
  <1>3. R.pc = p /\ R.on = job[w].on /\ R.cur = job[w].cur /\ R.copy = e /\ R.key = k
          /\ R.rec = job[w].rec /\ R.todo = job[w].todo /\ R.items = job[w].items /\ R.holds = h
    BY <1>1 DEF Jobs
  <1>4. job' = [job EXCEPT ![w] = R]
    OBVIOUS
  <1> HIDE DEF R
  <1>5. Becomes(w, R.pc, R.on, R.cur, R.copy, R.key, R.rec, R.todo, R.items, R.holds)
    BY <1>2, <1>4, JobChange
  <1>6. QED
    BY <1>3, <1>5

\* Assigning these fields of a job leaves the others as they are.
LEMMA SetTodo ==
    ASSUME job \in [Workers -> Jobs], NEW w \in Workers, NEW p \in Places, NEW t \in SUBSET Keys,
           job' = [job EXCEPT ![w] = [job[w] EXCEPT !.pc = p, !.todo = t]]
    PROVE  Becomes(w, p, job[w].on, job[w].cur, job[w].copy, job[w].key, job[w].rec, t,
           job[w].items, job[w].holds)
  <1> DEFINE R == [job[w] EXCEPT !.pc = p, !.todo = t]
  <1>1. job[w] \in Jobs
    OBVIOUS
  <1>2. R \in Jobs
    BY <1>1 DEF Jobs
  <1>3. R.pc = p /\ R.on = job[w].on /\ R.cur = job[w].cur /\ R.copy = job[w].copy
          /\ R.key = job[w].key /\ R.rec = job[w].rec /\ R.todo = t /\ R.items = job[w].items
          /\ R.holds = job[w].holds
    BY <1>1 DEF Jobs
  <1>4. job' = [job EXCEPT ![w] = R]
    OBVIOUS
  <1> HIDE DEF R
  <1>5. Becomes(w, R.pc, R.on, R.cur, R.copy, R.key, R.rec, R.todo, R.items, R.holds)
    BY <1>2, <1>4, JobChange
  <1>6. QED
    BY <1>3, <1>5

\* Assigning these fields of a job leaves the others as they are.
LEMMA SetItems ==
    ASSUME job \in [Workers -> Jobs], NEW w \in Workers, NEW p \in Places, NEW q \in Seq(Msgs),
           job' = [job EXCEPT ![w] = [job[w] EXCEPT !.pc = p, !.items = q]]
    PROVE  Becomes(w, p, job[w].on, job[w].cur, job[w].copy, job[w].key, job[w].rec, job[w].todo,
           q, job[w].holds)
  <1> DEFINE R == [job[w] EXCEPT !.pc = p, !.items = q]
  <1>1. job[w] \in Jobs
    OBVIOUS
  <1>2. R \in Jobs
    BY <1>1 DEF Jobs
  <1>3. R.pc = p /\ R.on = job[w].on /\ R.cur = job[w].cur /\ R.copy = job[w].copy
          /\ R.key = job[w].key /\ R.rec = job[w].rec /\ R.todo = job[w].todo /\ R.items = q
          /\ R.holds = job[w].holds
    BY <1>1 DEF Jobs
  <1>4. job' = [job EXCEPT ![w] = R]
    OBVIOUS
  <1> HIDE DEF R
  <1>5. Becomes(w, R.pc, R.on, R.cur, R.copy, R.key, R.rec, R.todo, R.items, R.holds)
    BY <1>2, <1>4, JobChange
  <1>6. QED
    BY <1>3, <1>5

\* Assigning these fields of a job leaves the others as they are.
LEMMA SetItemsTodo ==
    ASSUME job \in [Workers -> Jobs], NEW w \in Workers, NEW p \in Places, NEW q \in Seq(Msgs),
           NEW t \in SUBSET Keys,
           job' = [job EXCEPT ![w] = [job[w] EXCEPT !.pc = p, !.items = q, !.todo = t]]
    PROVE  Becomes(w, p, job[w].on, job[w].cur, job[w].copy, job[w].key, job[w].rec, t, q,
           job[w].holds)
  <1> DEFINE R == [job[w] EXCEPT !.pc = p, !.items = q, !.todo = t]
  <1>1. job[w] \in Jobs
    OBVIOUS
  <1>2. R \in Jobs
    BY <1>1 DEF Jobs
  <1>3. R.pc = p /\ R.on = job[w].on /\ R.cur = job[w].cur /\ R.copy = job[w].copy
          /\ R.key = job[w].key /\ R.rec = job[w].rec /\ R.todo = t /\ R.items = q
          /\ R.holds = job[w].holds
    BY <1>1 DEF Jobs
  <1>4. job' = [job EXCEPT ![w] = R]
    OBVIOUS
  <1> HIDE DEF R
  <1>5. Becomes(w, R.pc, R.on, R.cur, R.copy, R.key, R.rec, R.todo, R.items, R.holds)
    BY <1>2, <1>4, JobChange
  <1>6. QED
    BY <1>3, <1>5

\* Assigning these fields of a job leaves the others as they are.
LEMMA SetTodoOnly ==
    ASSUME job \in [Workers -> Jobs], NEW w \in Workers, NEW t \in SUBSET Keys,
           job' = [job EXCEPT ![w] = [job[w] EXCEPT !.todo = t]]
    PROVE  Becomes(w, job[w].pc, job[w].on, job[w].cur, job[w].copy, job[w].key, job[w].rec, t,
           job[w].items, job[w].holds)
  <1> DEFINE R == [job[w] EXCEPT !.todo = t]
  <1>1. job[w] \in Jobs
    OBVIOUS
  <1>2. R \in Jobs
    BY <1>1 DEF Jobs
  <1>3. R.pc = job[w].pc /\ R.on = job[w].on /\ R.cur = job[w].cur /\ R.copy = job[w].copy
          /\ R.key = job[w].key /\ R.rec = job[w].rec /\ R.todo = t /\ R.items = job[w].items
          /\ R.holds = job[w].holds
    BY <1>1 DEF Jobs
  <1>4. job' = [job EXCEPT ![w] = R]
    OBVIOUS
  <1> HIDE DEF R
  <1>5. Becomes(w, R.pc, R.on, R.cur, R.copy, R.key, R.rec, R.todo, R.items, R.holds)
    BY <1>2, <1>4, JobChange
  <1>6. QED
    BY <1>3, <1>5

\* Packet ids are keys, and a connected endpoint has a connection.
LEMMA NextIdType ==
    ASSUME TypeOK, NEW x \in Conns
    PROVE  /\ NextMessageId(x) \in Keys
           /\ Connected(x) => endpoint[x] \in Conns /\ NextMessageId(x) \in 1..MaxMessageId
           /\ NextMessageId(x) # NoId => Connected(x)
  <1>1. CASE ~Connected(x)
    BY <1>1 DEF NextMessageId, Keys
  <1>2. CASE Connected(x)
    <2>1. endpoint[x] \in Conns
      BY <1>2 DEF Connected, TypeOK
    <2> DEFINE last == lastId[endpoint[x]]
    <2>2. last \in 0..MaxMessageId
      BY <2>1 DEF TypeOK
    <2>3. NextMessageId(x) = IF last % MaxMessageId # 0 THEN last + 1 ELSE 1
      BY <1>2 DEF NextMessageId
    <2> HIDE DEF last
    <2>4. last # MaxMessageId \/ last % MaxMessageId = 0
      BY <2>2
    <2>5. NextMessageId(x) \in 1..MaxMessageId
      BY <2>2, <2>3, <2>4
    <2>6. QED
      BY <1>2, <2>1, <2>5 DEF Keys
  <1>3. QED
    BY <1>1, <1>2

\* What each action makes of the job of its worker.
LEMMA JobTypes == TypeOK => job \in [Workers -> Jobs] /\ wrapper \in Conns \cup {None}
  /\ queue \in Seq(Msgs)
  BY DEF TypeOK

\* What HandleLocalPublishMessage does to the job of its worker.
LEMMA HandleLocalPublishMessageJob ==
    ASSUME TypeOK, NEW w \in Workers, NEW m \in Msgs, HandleLocalPublishMessage(w, m)
    PROVE  LET j == job[w] IN 
             \/ wrapper = None /\ Becomes(w, "offline", wrapper, m, j.copy, j.key, j.rec, j.todo,
                  j.items, j.holds)
             \/ wrapper # None /\ Becomes(w, "handle", wrapper, m, j.copy, j.key, j.rec, j.todo,
                  j.items, j.holds)
  BY JobTypes, JobFields, SetDelivery DEF HandleLocalPublishMessage, Places, Opening

\* What EnqueueOffline does to the job of its worker.
LEMMA EnqueueOfflineJob ==
    ASSUME TypeOK, NEW w \in Workers, EnqueueOffline(w)
    PROVE  LET j == job[w] IN job' = job \/ Becomes(w, "relook", j.on, None, j.copy, j.key, j.rec,
           j.todo, j.items, j.holds)
  BY JobTypes, JobFields, SetMessage DEF EnqueueOffline, Places, Opening

\* What LookupAgain does to the job of its worker.
LEMMA LookupAgainJob ==
    ASSUME TypeOK, NEW w \in Workers, LookupAgain(w)
    PROVE  LET j == job[w] IN Rests(w) \/ (wrapper # None /\ Becomes(w, "dqTake", wrapper, j.cur,
           j.copy, j.key, j.rec, j.todo, j.items, j.holds))
  BY JobTypes, JobFields, SetWrapper, FinishRests DEF LookupAgain, Places, Opening

\* What HandleMessage does to the job of its worker.
LEMMA HandleMessageJob ==
    ASSUME TypeOK, NEW w \in Workers, HandleMessage(w)
    PROVE  Rests(w) \/ Moves(w, "offer") \/ Moves(w, "inChk")
  BY JobTypes, JobFields, GotoMoves, FinishRests DEF HandleMessage, Places, Opening

\* What Offer does to the job of its worker.
LEMMA OfferJob ==
    ASSUME TypeOK, NEW w \in Workers, Offer(w)
    PROVE  LET j == job[w] IN job' = job \/ Rests(w) \/ Becomes(w, "dqTake", j.on, None, j.copy,
           j.key, j.rec, j.todo, j.items, FALSE)
  BY JobTypes, JobFields, SetTryMessage, FinishRests DEF Offer, Places, Opening

\* What InflightCheck does to the job of its worker.
LEMMA InflightCheckJob ==
    ASSUME TypeOK, NEW w \in Workers, InflightCheck(w)
    PROVE  LET j == job[w] IN
             \/ Rests(w)
             \/ \E p \in {"offer", "inPut"} : Becomes(w, p, j.on, j.cur, j.copy, j.key, j.rec,
                  j.todo, j.items, TRUE)
  <1>1. CASE QueueRemoved(job[w].on)
    BY <1>1, JobTypes, FinishRests DEF InflightCheck
  <1>2. CASE ~QueueRemoved(job[w].on)
    <2> DEFINE p == IF MustQueue THEN "offer" ELSE "inPut"
    <2>1. job' = [job EXCEPT ![w] = [job[w] EXCEPT !.pc = p, !.holds = TRUE]]
      BY <1>2 DEF InflightCheck
    <2>2. p \in {"offer", "inPut"} /\ p \in Places
      BY DEF Places
    <2> HIDE DEF p
    <2>3. QED
      BY <2>1, <2>2, JobTypes, SetTry
  <1>3. QED
    BY <1>1, <1>2

\* What InflightPut does to the job of its worker.
LEMMA InflightPutJob ==
    ASSUME TypeOK, NEW w \in Workers, InflightPut(w)
    PROVE  \/ NextMessageId(job[w].on) = NoId /\ Moves(w, "offer")
           \/ NextMessageId(job[w].on) # NoId /\ Rests(w)
  BY JobTypes, JobFields, GotoMoves, FinishRests DEF InflightPut, Places, Opening

\* What DequeueTake does to the job of its worker.
LEMMA DequeueTakeJob ==
    ASSUME TypeOK, NEW w \in Workers, DequeueTake(w)
    PROVE  Rests(w) \/ Moves(w, "dqChk")
  BY JobTypes, JobFields, GotoMoves, FinishRests DEF DequeueTake, Places, Opening

\* What DequeueCheck does to the job of its worker.
LEMMA DequeueCheckJob ==
    ASSUME TypeOK, NEW w \in Workers, DequeueCheck(w)
    PROVE  Moves(w, "dqEnd") \/ Moves(w, "dqPoll")
  BY JobTypes, JobFields, GotoMoves DEF DequeueCheck, Places, Opening

\* What DequeuePoll does to the job of its worker.
LEMMA DequeuePollJob ==
    ASSUME TypeOK, NEW w \in Workers, DequeuePoll(w)
    PROVE  LET j == job[w] IN Moves(w, "dqEnd") \/ (Head(queue) \in Msgs
           /\ Becomes(w, "dqPut", j.on, Head(queue), j.copy, j.key, j.rec, j.todo, j.items, TRUE))
  <1>1. CASE MustStop(job[w].on)
    BY <1>1, JobTypes, GotoMoves DEF DequeuePoll, Places
  <1>2. CASE ~MustStop(job[w].on)
    <2>1. Head(queue) \in Msgs
      BY <1>2, JobTypes DEF MustStop
    <2>2. QED
      BY <1>2, <2>1, JobTypes, SetTryMessage DEF DequeuePoll, Places
  <1>3. QED
    BY <1>1, <1>2

\* What DequeuePut does to the job of its worker.
LEMMA DequeuePutJob ==
    ASSUME TypeOK, NEW w \in Workers, DequeuePut(w)
    PROVE  LET j == job[w] IN 
             \/ Becomes(w, "dqChk", j.on, None, j.copy, j.key, j.rec, j.todo, j.items, FALSE)
             \/ Becomes(w, "dqEnd", j.on, None, j.copy, j.key, j.rec, j.todo, j.items, FALSE)
  BY JobTypes, JobFields, SetTryMessage DEF DequeuePut, Places, Opening

\* What DequeueEnd does to the job of its worker.
LEMMA DequeueEndJob ==
    ASSUME TypeOK, NEW w \in Workers, DequeueEnd(w)
    PROVE  Rests(w)
  BY JobTypes, JobFields, FinishRests DEF DequeueEnd, Places, Opening

\* What RemoveInflight does to the job of its worker.
LEMMA RemoveInflightJob ==
    ASSUME TypeOK, NEW w \in Workers, NEW p \in wire, RemoveInflight(w, p)
    PROVE  LET j == job[w] IN job' = job
           \/ (wrapper # None /\ Becomes(w, "dqTake", wrapper, j.cur, j.copy, j.key, j.rec,
           j.todo, j.items, j.holds))
  BY JobTypes, JobFields, SetWrapper DEF RemoveInflight, Places, Opening

\* What ReceivePubrec does to the job of its worker.
LEMMA ReceivePubrecJob ==
    ASSUME TypeOK, NEW w \in Workers, NEW p \in wire, ReceivePubrec(w, p)
    PROVE  \E e \in Entries \cup {None} :
             LET j == job[w] IN (e = None \/ e = inflights[p.id])
               /\ Becomes(w, "recPut", j.on, j.cur, e, j.key, p, j.todo, j.items, j.holds)
  <1> DEFINE e == IF wrapper = None THEN None ELSE inflights[p.id]
  <1>1. p \in Packets /\ p.id \in Keys
    BY DEF TypeOK, Packets, Keys
  <1>2. e \in Entries \cup {None} /\ (e = None \/ e = inflights[p.id])
    BY <1>1 DEF TypeOK
  <1>3. job' = [job EXCEPT ![w] = [job[w] EXCEPT !.pc = "recPut", !.rec = p, !.copy = e]]
    BY DEF ReceivePubrec
  <1> HIDE DEF e
  <1>4. QED
    BY <1>1, <1>2, <1>3, JobTypes, SetPubrec DEF Places

\* What PutPubrec does to the job of its worker.
LEMMA PutPubrecJob ==
    ASSUME TypeOK, NEW w \in Workers, PutPubrec(w)
    PROVE  Rests(w)
  BY JobTypes, JobFields, FinishRests DEF PutPubrec, Places, Opening

\* What Retry does to the job of its worker.
LEMMA RetryJob ==
    ASSUME TypeOK, NEW w \in Workers, NEW x \in Conns, NEW k \in Keys, Retry(w, x, k)
    PROVE  LET j == job[w] IN 
             \/ job' = job
             \/ Becomes(w, "dqTake", x, j.cur, j.copy, j.key, j.rec, j.todo, j.items, j.holds)
             \/ \E p \in {"rtRel", "rtDel"} :
                  /\ inflights[k] \in Entries /\ ~RetriesExhausted(inflights[k])
                  /\ Becomes(w, p, x, j.cur, inflights[k], k, j.rec, j.todo, j.items, j.holds)
  <1>1. CASE inflights[k] = None
    BY <1>1 DEF Retry
  <1>2. CASE inflights[k] # None /\ RetriesExhausted(inflights[k])
    BY <1>2, JobTypes, SetWrapper DEF Retry, Places
  <1>3. CASE inflights[k] # None /\ ~RetriesExhausted(inflights[k])
    <2> DEFINE p == IF AwaitsPubcomp(inflights[k]) THEN "rtRel" ELSE "rtDel"
    <2>1. inflights[k] \in Entries
      BY <1>3 DEF TypeOK
    <2>2. job' = [job EXCEPT ![w] = [job[w] EXCEPT !.on = x, !.copy = inflights[k], !.key = k,
            !.pc = p]]
      BY <1>3 DEF Retry
    <2>3. p \in {"rtRel", "rtDel"} /\ p \in Places
      BY DEF Places
    <2> HIDE DEF p
    <2>4. QED
      BY <1>3, <2>1, <2>2, <2>3, JobTypes, SetRetry
  <1>4. QED
    BY <1>1, <1>2, <1>3

\* What RetryRelease does to the job of its worker.
LEMMA RetryReleaseJob ==
    ASSUME TypeOK, NEW w \in Workers, RetryRelease(w)
    PROVE  Rests(w)
  BY JobTypes, JobFields, FinishRests DEF RetryRelease, Places, Opening

\* What RetryDelete does to the job of its worker.
LEMMA RetryDeleteJob ==
    ASSUME TypeOK, NEW w \in Workers, RetryDelete(w), job[w].on \in Conns, job[w].copy \in Entries
    PROVE  (~Connected(job[w].on) /\ Rests(w)) \/ Refiles(w)
  <1>1. CASE ~Connected(job[w].on)
    BY <1>1, JobTypes, FinishRests DEF RetryDelete
  <1>2. CASE Connected(job[w].on)
    <2> DEFINE e == Renumbered(job[w].copy, endpoint[job[w].on])
    <2>1. endpoint[job[w].on] \in Conns /\ NextMessageId(job[w].on) \in Keys
      BY <1>2, NextIdType
    <2>2. e \in Entries /\ e.retry = job[w].copy.retry /\ e.msg = job[w].copy.msg
            /\ e.by = endpoint[job[w].on]
      BY <2>1 DEF Entries, Conns, Renumbered
    <2>3. job' = [job EXCEPT ![w] = [job[w] EXCEPT !.pc = "rtPut", !.key = NextMessageId(job[w].on),
                                                   !.copy = e, !.holds = TRUE]]
      BY <1>2 DEF RetryDelete
    <2> HIDE DEF e
    <2>4. "rtPut" \in Places
      BY DEF Places
    <2>5. Becomes(w, "rtPut", job[w].on, job[w].cur, e, NextMessageId(job[w].on), job[w].rec,
            job[w].todo, job[w].items, TRUE)
      BY <2>1, <2>2, <2>3, <2>4, JobTypes, SetRefile
    <2>6. QED
      BY <1>2, <2>2, <2>5 DEF Refiles
  <1>3. QED
    BY <1>1, <1>2

\* What RetryPut does to the job of its worker.
LEMMA RetryPutJob ==
    ASSUME TypeOK, NEW w \in Workers, RetryPut(w)
    PROVE  Rests(w)
  BY JobTypes, JobFields, FinishRests DEF RetryPut, Places, Opening

\* What OpenSession does to the job of its worker.
LEMMA OpenSessionJob ==
    ASSUME TypeOK, NEW w \in Workers, NEW c \in Conns, OpenSession(w, c)
    PROVE  \E x \in Conns : LET j == job[w] IN
             (x = c \/ (x = wrapper /\ wrapper # None)) /\ Becomes(w, "opEndpoint", x, j.cur,
               j.copy, j.key, j.rec, j.todo, j.items, j.holds)
  <1> DEFINE x == IF wrapper = None THEN c ELSE wrapper
  <1>1. x \in Conns /\ (x = c \/ (x = wrapper /\ wrapper # None))
    BY JobTypes
  <1>2. job' = [job EXCEPT ![w] = [job[w] EXCEPT !.pc = "opEndpoint", !.on = x]]
    BY DEF OpenSession
  <1> HIDE DEF x
  <1>3. QED
    BY <1>1, <1>2, JobTypes, SetWrapper DEF Places, Opening

\* What OpenEndpoint does to the job of its worker.
LEMMA OpenEndpointJob ==
    ASSUME TypeOK, NEW w \in Workers, OpenEndpoint(w)
    PROVE  LET j == job[w] IN 
             \/ Becomes(w, "opRetry", j.on, j.cur, j.copy, j.key, j.rec, InflightKeys, j.items,
                  j.holds)
             \/ \E p \in {"opCreate", "opClose"} :
                  Becomes(w, p, j.on, j.cur, j.copy, j.key, j.rec, j.todo, queue, j.holds)
  <1>1. CASE job[w].on # Incoming
    <2>1. InflightKeys \in SUBSET Keys
      BY DEF InflightKeys
    <2>2. QED
      BY <1>1, <2>1, JobTypes, SetTodo DEF OpenEndpoint, Places, Opening
  <1>2. CASE job[w].on = Incoming
    <2> DEFINE p == IF queueOf = None THEN "opCreate" ELSE "opClose"
    <2>1. job' = [job EXCEPT ![w] = [job[w] EXCEPT !.pc = p, !.items = queue]]
      BY <1>2 DEF OpenEndpoint
    <2>2. p \in {"opCreate", "opClose"} /\ p \in Places
      BY DEF Places, Opening
    <2> HIDE DEF p
    <2>3. QED
      BY <2>1, <2>2, JobTypes, SetItems
  <1>3. QED
    BY <1>1, <1>2

\* What OpenCloseQueue does to the job of its worker.
LEMMA OpenCloseQueueJob ==
    ASSUME TypeOK, NEW w \in Workers, OpenCloseQueue(w)
    PROVE  Moves(w, "opCreate")
  BY JobTypes, JobFields, GotoMoves DEF OpenCloseQueue, Places, Opening

\* What OpenCreateQueue does to the job of its worker.
LEMMA OpenCreateQueueJob ==
    ASSUME TypeOK, NEW w \in Workers, OpenCreateQueue(w)
    PROVE  Moves(w, "opAdd")
  BY JobTypes, JobFields, GotoMoves DEF OpenCreateQueue, Places, Opening

\* What OpenAddItems does to the job of its worker.
LEMMA OpenAddItemsJob ==
    ASSUME TypeOK, NEW w \in Workers, OpenAddItems(w)
    PROVE  LET j == job[w] IN Becomes(w, "opRetry", j.on, j.cur, j.copy, j.key, j.rec,
           InflightKeys, <<>>, j.holds)
  <1>1. InflightKeys \in SUBSET Keys /\ <<>> \in Seq(Msgs)
    BY DEF InflightKeys
  <1>2. QED
    BY <1>1, JobTypes, SetItemsTodo DEF OpenAddItems, Places, Opening

\* What OpenPutWrapper does to the job of its worker.
LEMMA OpenPutWrapperJob ==
    ASSUME TypeOK, NEW w \in Workers, OpenPutWrapper(w)
    PROVE  Moves(w, "opAccept")
  BY JobTypes, JobFields, GotoMoves DEF OpenPutWrapper, Places, Opening

\* What Accept does to the job of its worker.
LEMMA AcceptJob ==
    ASSUME TypeOK, NEW w \in Workers, Accept(w)
    PROVE  Rests(w)
  BY JobTypes, JobFields, FinishRests DEF Accept, Places, Opening

\* What OpenRetry does to the job of its worker.
LEMMA OpenRetryJob ==
    ASSUME TypeOK, NEW w \in Workers, NEW k \in Keys, job' = [job EXCEPT ![w].todo = @ \ {k}]
    PROVE  LET j == job[w] IN Becomes(w, j.pc, j.on, j.cur, j.copy, j.key, j.rec, j.todo \ {k},
           j.items, j.holds)
  <1>1. job[w].todo \ {k} \in SUBSET Keys
    BY JobTypes, JobFields
  <1>2. QED
    BY <1>1, JobTypes, SetTodoOnly

\* Every step keeps the local variables as the places need them.
LEMMA LocalsKeep ==
    ASSUME LocalsInv, NEW w \in Workers, LocalsAt(w)', UNCHANGED endpoint,
           \A v \in Workers : v # w => job'[v] = job[v]
    PROVE  LocalsInv'
  BY DEF LocalsInv, LocalsAt

\* Every step keeps the locals of a handler in line with its place.
LEMMA LocalsStep == TypeOK /\ OpenInv /\ LocalsInv /\ [Next]_vars => LocalsInv'
  <1> SUFFICES ASSUME TypeOK, OpenInv, LocalsInv, [Next]_vars
               PROVE  LocalsInv'
    OBVIOUS
  <1>a. /\ job \in [Workers -> Jobs] /\ wrapper \in Conns \cup {None} /\ wire \subseteq Packets
        /\ inflights \in [Keys -> Entries \cup {None}] /\ endpoint \in [Conns -> Conns \cup {None}]
    BY DEF TypeOK
  <1>b. \A w \in Workers : LocalsAt(w)
    BY DEF LocalsInv
  <1>c. \A w \in Workers : job[w].pc \in Opening => Incoming \in Conns
    BY DEF OpenInv, Incoming
  <1>d. endpoint \in [Conns -> Conns \cup {None}]
    BY DEF TypeOK
  <1>1. ASSUME NEW w \in Workers, NEW m \in Msgs, HandleLocalPublishMessage(w, m) PROVE LocalsInv'
    <2>1. job[w].pc = "idle" /\ UNCHANGED endpoint
      BY <1>1 DEF HandleLocalPublishMessage
    <2>2. \/ (wrapper = None /\ Becomes(w, "offline", wrapper, m, job[w].copy, job[w].key,
               job[w].rec, job[w].todo, job[w].items, job[w].holds))
          \/ (wrapper # None /\ Becomes(w, "handle", wrapper, m, job[w].copy, job[w].key,
               job[w].rec, job[w].todo, job[w].items, job[w].holds))
      BY <1>1, HandleLocalPublishMessageJob
    <2>3. LocalsAt(w)' /\ \A v \in Workers : v # w => job'[v] = job[v]
      <3>1. CASE (wrapper = None /\ Becomes(w, "offline", wrapper, m, job[w].copy, job[w].key,
              job[w].rec, job[w].todo, job[w].items, job[w].holds))
        BY <2>1, <2>2, <3>1, <1>a, <1>b DEF Becomes, Moves, Rests, LocalsAt, Detached, Carrying,
           Retrying, Trying, Saving
      <3>2. CASE (wrapper # None /\ Becomes(w, "handle", wrapper, m, job[w].copy, job[w].key,
              job[w].rec, job[w].todo, job[w].items, job[w].holds))
        BY <2>1, <2>2, <3>2, <1>a, <1>b DEF Becomes, Moves, Rests, LocalsAt, Detached, Carrying,
           Retrying, Trying, Saving
      <3>3. QED
        BY <2>2, <3>1, <3>2
    <2>4. QED
      BY <2>1, <2>3, LocalsKeep
  <1>2. ASSUME NEW w \in Workers, EnqueueOffline(w) PROVE LocalsInv'
    <2>1. job[w].pc = "offline" /\ UNCHANGED endpoint
      BY <1>2 DEF EnqueueOffline
    <2>2. \/ job' = job
          \/ Becomes(w, "relook", job[w].on, None, job[w].copy, job[w].key, job[w].rec,
               job[w].todo, job[w].items, job[w].holds)
      BY <1>2, EnqueueOfflineJob
    <2>3. LocalsAt(w)' /\ \A v \in Workers : v # w => job'[v] = job[v]
      <3>1. CASE job' = job
        BY <2>1, <2>2, <3>1, <1>a, <1>b DEF Becomes, Moves, Rests, LocalsAt, Detached, Carrying,
           Retrying, Trying, Saving
      <3>2. CASE Becomes(w, "relook", job[w].on, None, job[w].copy, job[w].key, job[w].rec,
              job[w].todo, job[w].items, job[w].holds)
        BY <2>1, <2>2, <3>2, <1>a, <1>b DEF Becomes, Moves, Rests, LocalsAt, Detached, Carrying,
           Retrying, Trying, Saving
      <3>3. QED
        BY <2>2, <3>1, <3>2
    <2>4. QED
      BY <2>1, <2>3, LocalsKeep
  <1>3. ASSUME NEW w \in Workers, LookupAgain(w) PROVE LocalsInv'
    <2>1. job[w].pc = "relook" /\ UNCHANGED endpoint
      BY <1>3 DEF LookupAgain
    <2>2. \/ Rests(w)
          \/ (wrapper # None /\ Becomes(w, "dqTake", wrapper, job[w].cur, job[w].copy, job[w].key,
               job[w].rec, job[w].todo, job[w].items, job[w].holds))
      BY <1>3, LookupAgainJob
    <2>3. LocalsAt(w)' /\ \A v \in Workers : v # w => job'[v] = job[v]
      <3>1. CASE Rests(w)
        BY <2>1, <2>2, <3>1, <1>a, <1>b DEF Becomes, Moves, Rests, LocalsAt, Detached, Carrying,
           Retrying, Trying, Saving
      <3>2. CASE (wrapper # None /\ Becomes(w, "dqTake", wrapper, job[w].cur, job[w].copy,
              job[w].key, job[w].rec, job[w].todo, job[w].items, job[w].holds))
        BY <2>1, <2>2, <3>2, <1>a, <1>b DEF Becomes, Moves, Rests, LocalsAt, Detached, Carrying,
           Retrying, Trying, Saving
      <3>3. QED
        BY <2>2, <3>1, <3>2
    <2>4. QED
      BY <2>1, <2>3, LocalsKeep
  <1>4. ASSUME NEW w \in Workers, HandleMessage(w) PROVE LocalsInv'
    <2>1. job[w].pc = "handle" /\ UNCHANGED endpoint
      BY <1>4 DEF HandleMessage
    <2>2. \/ Rests(w)
          \/ Moves(w, "offer")
          \/ Moves(w, "inChk")
      BY <1>4, HandleMessageJob
    <2>3. LocalsAt(w)' /\ \A v \in Workers : v # w => job'[v] = job[v]
      <3>1. CASE Rests(w)
        BY <2>1, <2>2, <3>1, <1>a, <1>b DEF Becomes, Moves, Rests, LocalsAt, Detached, Carrying,
           Retrying, Trying, Saving
      <3>2. CASE Moves(w, "offer")
        BY <2>1, <2>2, <3>2, <1>a, <1>b DEF Becomes, Moves, Rests, LocalsAt, Detached, Carrying,
           Retrying, Trying, Saving
      <3>3. CASE Moves(w, "inChk")
        BY <2>1, <2>2, <3>3, <1>a, <1>b DEF Becomes, Moves, Rests, LocalsAt, Detached, Carrying,
           Retrying, Trying, Saving
      <3>4. QED
        BY <2>2, <3>1, <3>2, <3>3
    <2>4. QED
      BY <2>1, <2>3, LocalsKeep
  <1>5. ASSUME NEW w \in Workers, Offer(w) PROVE LocalsInv'
    <2>1. job[w].pc = "offer" /\ UNCHANGED endpoint
      BY <1>5 DEF Offer
    <2>2. \/ job' = job
          \/ Rests(w)
          \/ Becomes(w, "dqTake", job[w].on, None, job[w].copy, job[w].key, job[w].rec,
               job[w].todo, job[w].items, FALSE)
      BY <1>5, OfferJob
    <2>3. LocalsAt(w)' /\ \A v \in Workers : v # w => job'[v] = job[v]
      <3>1. CASE job' = job
        BY <2>1, <2>2, <3>1, <1>a, <1>b DEF Becomes, Moves, Rests, LocalsAt, Detached, Carrying,
           Retrying, Trying, Saving
      <3>2. CASE Rests(w)
        BY <2>1, <2>2, <3>2, <1>a, <1>b DEF Becomes, Moves, Rests, LocalsAt, Detached, Carrying,
           Retrying, Trying, Saving
      <3>3. CASE Becomes(w, "dqTake", job[w].on, None, job[w].copy, job[w].key, job[w].rec,
              job[w].todo, job[w].items, FALSE)
        BY <2>1, <2>2, <3>3, <1>a, <1>b DEF Becomes, Moves, Rests, LocalsAt, Detached, Carrying,
           Retrying, Trying, Saving
      <3>4. QED
        BY <2>2, <3>1, <3>2, <3>3
    <2>4. QED
      BY <2>1, <2>3, LocalsKeep
  <1>5a. ASSUME NEW w \in Workers, InflightCheck(w) PROVE LocalsInv'
    <2>1. job[w].pc = "inChk" /\ UNCHANGED endpoint
      BY <1>5a DEF InflightCheck, TakeInflightCas
    <2>2. \/ Rests(w)
          \/ \E p \in {"offer", "inPut"} : Becomes(w, p, job[w].on, job[w].cur, job[w].copy,
               job[w].key, job[w].rec, job[w].todo, job[w].items, TRUE)
      BY <1>5a, InflightCheckJob
    <2>3. LocalsAt(w)' /\ \A v \in Workers : v # w => job'[v] = job[v]
      <3>1. CASE Rests(w)
        BY <2>1, <3>1, <1>a, <1>b DEF Becomes, Moves, Rests, LocalsAt, Detached, Carrying,
           Retrying, Trying, Saving
      <3>2. CASE \E p \in {"offer", "inPut"} : Becomes(w, p, job[w].on, job[w].cur, job[w].copy,
              job[w].key, job[w].rec, job[w].todo, job[w].items, TRUE)
        BY <2>1, <3>2, <1>a, <1>b DEF Becomes, Moves, Rests, LocalsAt, Detached, Carrying,
           Retrying, Trying, Saving
      <3>3. QED
        BY <2>2, <3>1, <3>2
    <2>4. QED
      BY <2>1, <2>3, LocalsKeep
  <1>6. ASSUME NEW w \in Workers, InflightPut(w) PROVE LocalsInv'
    <2>1. job[w].pc = "inPut" /\ UNCHANGED endpoint
      BY <1>6 DEF InflightPut, Put, SaveInflightTimeout, Publish, ReleaseInflightCas
    <2>2. \/ Moves(w, "offer")
          \/ Rests(w)
      BY <1>6, InflightPutJob
    <2>3. LocalsAt(w)' /\ \A v \in Workers : v # w => job'[v] = job[v]
      <3>1. CASE Moves(w, "offer")
        BY <2>1, <3>1, <1>a, <1>b DEF Becomes, Moves, Rests, LocalsAt, Detached, Carrying,
           Retrying, Trying, Saving
      <3>2. CASE Rests(w)
        BY <2>1, <3>2, <1>a, <1>b DEF Becomes, Moves, Rests, LocalsAt, Detached, Carrying,
           Retrying, Trying, Saving
      <3>3. QED
        BY <2>2, <3>1, <3>2
    <2>4. QED
      BY <2>1, <2>3, LocalsKeep
  <1>7. ASSUME NEW w \in Workers, DequeueTake(w) PROVE LocalsInv'
    <2>1. job[w].pc = "dqTake" /\ UNCHANGED endpoint
      BY <1>7 DEF DequeueTake
    <2>2. \/ Rests(w)
          \/ Moves(w, "dqChk")
      BY <1>7, DequeueTakeJob
    <2>3. LocalsAt(w)' /\ \A v \in Workers : v # w => job'[v] = job[v]
      <3>1. CASE Rests(w)
        BY <2>1, <2>2, <3>1, <1>a, <1>b DEF Becomes, Moves, Rests, LocalsAt, Detached, Carrying,
           Retrying, Trying, Saving
      <3>2. CASE Moves(w, "dqChk")
        BY <2>1, <2>2, <3>2, <1>a, <1>b DEF Becomes, Moves, Rests, LocalsAt, Detached, Carrying,
           Retrying, Trying, Saving
      <3>3. QED
        BY <2>2, <3>1, <3>2
    <2>4. QED
      BY <2>1, <2>3, LocalsKeep
  <1>8. ASSUME NEW w \in Workers, DequeueCheck(w) PROVE LocalsInv'
    <2>1. job[w].pc = "dqChk" /\ UNCHANGED endpoint
      BY <1>8 DEF DequeueCheck
    <2>2. \/ Moves(w, "dqEnd")
          \/ Moves(w, "dqPoll")
      BY <1>8, DequeueCheckJob
    <2>3. LocalsAt(w)' /\ \A v \in Workers : v # w => job'[v] = job[v]
      <3>1. CASE Moves(w, "dqEnd")
        BY <2>1, <2>2, <3>1, <1>a, <1>b DEF Becomes, Moves, Rests, LocalsAt, Detached, Carrying,
           Retrying, Trying, Saving
      <3>2. CASE Moves(w, "dqPoll")
        BY <2>1, <2>2, <3>2, <1>a, <1>b DEF Becomes, Moves, Rests, LocalsAt, Detached, Carrying,
           Retrying, Trying, Saving
      <3>3. QED
        BY <2>2, <3>1, <3>2
    <2>4. QED
      BY <2>1, <2>3, LocalsKeep
  <1>9. ASSUME NEW w \in Workers, DequeuePoll(w) PROVE LocalsInv'
    <2>1. job[w].pc = "dqPoll" /\ UNCHANGED endpoint
      BY <1>9 DEF DequeuePoll
    <2>2. \/ Moves(w, "dqEnd")
          \/ (Head(queue) \in Msgs /\ Becomes(w, "dqPut", job[w].on, Head(queue), job[w].copy,
               job[w].key, job[w].rec, job[w].todo, job[w].items, TRUE))
      BY <1>9, DequeuePollJob
    <2>3. LocalsAt(w)' /\ \A v \in Workers : v # w => job'[v] = job[v]
      <3>1. CASE Moves(w, "dqEnd")
        BY <2>1, <2>2, <3>1, <1>a, <1>b DEF Becomes, Moves, Rests, LocalsAt, Detached, Carrying,
           Retrying, Trying, Saving
      <3>2. CASE (Head(queue) \in Msgs /\ Becomes(w, "dqPut", job[w].on, Head(queue), job[w].copy,
              job[w].key, job[w].rec, job[w].todo, job[w].items, TRUE))
        BY <2>1, <2>2, <3>2, <1>a, <1>b DEF Becomes, Moves, Rests, LocalsAt, Detached, Carrying,
           Retrying, Trying, Saving
      <3>3. QED
        BY <2>2, <3>1, <3>2
    <2>4. QED
      BY <2>1, <2>3, LocalsKeep
  <1>10. ASSUME NEW w \in Workers, DequeuePut(w) PROVE LocalsInv'
    <2>1. job[w].pc = "dqPut" /\ UNCHANGED endpoint
      BY <1>10 DEF DequeuePut
    <2>2. \/ Becomes(w, "dqChk", job[w].on, None, job[w].copy, job[w].key, job[w].rec,
               job[w].todo, job[w].items, FALSE)
          \/ Becomes(w, "dqEnd", job[w].on, None, job[w].copy, job[w].key, job[w].rec,
               job[w].todo, job[w].items, FALSE)
      BY <1>10, DequeuePutJob
    <2>3. LocalsAt(w)' /\ \A v \in Workers : v # w => job'[v] = job[v]
      <3>1. CASE Becomes(w, "dqChk", job[w].on, None, job[w].copy, job[w].key, job[w].rec,
              job[w].todo, job[w].items, FALSE)
        BY <2>1, <2>2, <3>1, <1>a, <1>b DEF Becomes, Moves, Rests, LocalsAt, Detached, Carrying,
           Retrying, Trying, Saving
      <3>2. CASE Becomes(w, "dqEnd", job[w].on, None, job[w].copy, job[w].key, job[w].rec,
              job[w].todo, job[w].items, FALSE)
        BY <2>1, <2>2, <3>2, <1>a, <1>b DEF Becomes, Moves, Rests, LocalsAt, Detached, Carrying,
           Retrying, Trying, Saving
      <3>3. QED
        BY <2>2, <3>1, <3>2
    <2>4. QED
      BY <2>1, <2>3, LocalsKeep
  <1>11. ASSUME NEW w \in Workers, DequeueEnd(w) PROVE LocalsInv'
    <2>1. job[w].pc = "dqEnd" /\ UNCHANGED endpoint
      BY <1>11 DEF DequeueEnd
    <2>2. Rests(w)
      BY <1>11, DequeueEndJob
    <2>3. LocalsAt(w)' /\ \A v \in Workers : v # w => job'[v] = job[v]
      BY <2>1, <2>2, <1>a, <1>b DEF Becomes, Moves, Rests, LocalsAt, Detached, Carrying,
         Retrying, Trying, Saving
    <2>4. QED
      BY <2>1, <2>3, LocalsKeep
  <1>12. ASSUME NEW w \in Workers, NEW p \in wire, ReceivePuback(w, p) \/ ReceivePubcomp(w, p)
                PROVE LocalsInv'
    <2>1. job[w].pc = "idle" /\ UNCHANGED endpoint
      BY <1>12 DEF ReceivePuback, ReceivePubcomp, RemoveInflight
    <2>0. RemoveInflight(w, p)
      BY <1>12 DEF ReceivePuback, ReceivePubcomp
    <2>2. \/ job' = job
          \/ (wrapper # None /\ Becomes(w, "dqTake", wrapper, job[w].cur, job[w].copy, job[w].key,
               job[w].rec, job[w].todo, job[w].items, job[w].holds))
      BY <2>0, RemoveInflightJob
    <2>3. LocalsAt(w)' /\ \A v \in Workers : v # w => job'[v] = job[v]
      <3>1. CASE job' = job
        BY <2>1, <2>2, <3>1, <1>a, <1>b DEF Becomes, Moves, Rests, LocalsAt, Detached, Carrying,
           Retrying, Trying, Saving
      <3>2. CASE (wrapper # None /\ Becomes(w, "dqTake", wrapper, job[w].cur, job[w].copy,
              job[w].key, job[w].rec, job[w].todo, job[w].items, job[w].holds))
        BY <2>1, <2>2, <3>2, <1>a, <1>b DEF Becomes, Moves, Rests, LocalsAt, Detached, Carrying,
           Retrying, Trying, Saving
      <3>3. QED
        BY <2>2, <3>1, <3>2
    <2>4. QED
      BY <2>1, <2>3, LocalsKeep
  <1>13. ASSUME NEW w \in Workers, NEW p \in wire, ReceivePubrec(w, p) PROVE LocalsInv'
    <2>1. job[w].pc = "idle" /\ UNCHANGED endpoint
      BY <1>13 DEF ReceivePubrec
    <2>2. (\E e \in Entries \cup {None} : (e = None \/ e = inflights[p.id])
               /\ Becomes(w, "recPut", job[w].on, job[w].cur, e, job[w].key, p, job[w].todo,
                    job[w].items, job[w].holds))
      BY <1>13, ReceivePubrecJob
    <2>3. LocalsAt(w)' /\ \A v \in Workers : v # w => job'[v] = job[v]
      BY <2>1, <2>2, <1>a, <1>b DEF Becomes, Moves, Rests, LocalsAt, Detached, Carrying,
         Retrying, Trying, Saving
    <2>4. QED
      BY <2>1, <2>3, LocalsKeep
  <1>14. ASSUME NEW w \in Workers, PutPubrec(w) PROVE LocalsInv'
    <2>1. job[w].pc = "recPut" /\ UNCHANGED endpoint
      BY <1>14 DEF PutPubrec
    <2>2. Rests(w)
      BY <1>14, PutPubrecJob
    <2>3. LocalsAt(w)' /\ \A v \in Workers : v # w => job'[v] = job[v]
      BY <2>1, <2>2, <1>a, <1>b DEF Becomes, Moves, Rests, LocalsAt, Detached, Carrying,
         Retrying, Trying, Saving
    <2>4. QED
      BY <2>1, <2>3, LocalsKeep
  <1>15. ASSUME NEW w \in Workers, NEW x \in Conns, NEW k \in Keys, Retry(w, x, k) PROVE LocalsInv'
    <2>1. job[w].pc = "idle" /\ UNCHANGED endpoint
      BY <1>15 DEF Retry
    <2>2. \/ job' = job
          \/ Becomes(w, "dqTake", x, job[w].cur, job[w].copy, job[w].key, job[w].rec, job[w].todo,
               job[w].items, job[w].holds)
          \/ (\E p \in {"rtRel", "rtDel"} : inflights[k] \in Entries
               /\ ~RetriesExhausted(inflights[k])
               /\ Becomes(w, p, x, job[w].cur, inflights[k], k, job[w].rec, job[w].todo,
                    job[w].items, job[w].holds))
      BY <1>15, RetryJob
    <2>3. LocalsAt(w)' /\ \A v \in Workers : v # w => job'[v] = job[v]
      <3>1. CASE job' = job
        BY <2>1, <2>2, <3>1, <1>a, <1>b DEF Becomes, Moves, Rests, LocalsAt, Detached, Carrying,
           Retrying, Trying, Saving, RetriesExhausted, Entries
      <3>2. CASE Becomes(w, "dqTake", x, job[w].cur, job[w].copy, job[w].key, job[w].rec,
              job[w].todo, job[w].items, job[w].holds)
        BY <2>1, <2>2, <3>2, <1>a, <1>b DEF Becomes, Moves, Rests, LocalsAt, Detached, Carrying,
           Retrying, Trying, Saving, RetriesExhausted, Entries
      <3>3. CASE (\E p \in {"rtRel", "rtDel"} : inflights[k] \in Entries
              /\ ~RetriesExhausted(inflights[k])
                 /\ Becomes(w, p, x, job[w].cur, inflights[k], k, job[w].rec, job[w].todo,
                      job[w].items, job[w].holds))
        BY <2>1, <2>2, <3>3, <1>a, <1>b DEF Becomes, Moves, Rests, LocalsAt, Detached, Carrying,
           Retrying, Trying, Saving, RetriesExhausted, Entries
      <3>4. QED
        BY <2>2, <3>1, <3>2, <3>3
    <2>4. QED
      BY <2>1, <2>3, LocalsKeep
  <1>16. ASSUME NEW w \in Workers, RetryRelease(w) PROVE LocalsInv'
    <2>1. job[w].pc = "rtRel" /\ UNCHANGED endpoint
      BY <1>16 DEF RetryRelease
    <2>2. Rests(w)
      BY <1>16, RetryReleaseJob
    <2>3. LocalsAt(w)' /\ \A v \in Workers : v # w => job'[v] = job[v]
      BY <2>1, <2>2, <1>a, <1>b DEF Becomes, Moves, Rests, LocalsAt, Detached, Carrying,
         Retrying, Trying, Saving
    <2>4. QED
      BY <2>1, <2>3, LocalsKeep
  <1>17. ASSUME NEW w \in Workers, RetryDelete(w) PROVE LocalsInv'
    <2>1. job[w].pc = "rtDel" /\ UNCHANGED endpoint
      BY <1>17 DEF RetryDelete
    <2>9. job[w].on \in Conns /\ job[w].copy \in Entries
      BY <2>1 DEF LocalsInv, LocalsAt, Detached, Retrying
    <2>2. \/ Rests(w)
          \/ Refiles(w)
      BY <1>17, <2>9, RetryDeleteJob
    <2>3. LocalsAt(w)' /\ \A v \in Workers : v # w => job'[v] = job[v]
      <3>1. CASE Rests(w)
        BY <2>1, <2>2, <2>9, <3>1, <1>a, <1>b, NextIdType
          DEF Becomes, Moves, Rests, Refiles, LocalsAt,
           Detached, Carrying, Retrying, Trying, Saving
      <3>2. CASE Refiles(w)
        <4>1. NextMessageId(job[w].on) # NoId /\ endpoint[job[w].on] \in Conns
          BY <2>9, <3>2, NextIdType DEF Refiles, NoId
        <4>2. QED
          BY <2>1, <2>9, <3>2, <4>1, <1>a, <1>b DEF Becomes, Moves, Rests, Refiles, LocalsAt,
             Detached, Carrying, Retrying, Trying, Saving
      <3>3. QED
        BY <2>2, <3>1, <3>2
    <2>4. QED
      BY <2>1, <2>3, LocalsKeep
  <1>18. ASSUME NEW w \in Workers, RetryPut(w) PROVE LocalsInv'
    <2>1. job[w].pc = "rtPut" /\ UNCHANGED endpoint
      BY <1>18 DEF RetryPut
    <2>2. Rests(w)
      BY <1>18, RetryPutJob
    <2>3. LocalsAt(w)' /\ \A v \in Workers : v # w => job'[v] = job[v]
      BY <2>1, <2>2, <1>a, <1>b DEF Becomes, Moves, Rests, LocalsAt, Detached, Carrying,
         Retrying, Trying, Saving
    <2>4. QED
      BY <2>1, <2>3, LocalsKeep
  <1>19. ASSUME NEW w \in Workers, NEW c \in Conns, OpenSession(w, c) PROVE LocalsInv'
    <2>1. job[w].pc = "idle" /\ UNCHANGED endpoint
      BY <1>19 DEF OpenSession
    <2>2. (\E x \in Conns : (x = c \/ x = wrapper) /\ Becomes(w, "opEndpoint", x, job[w].cur,
            job[w].copy, job[w].key, job[w].rec, job[w].todo, job[w].items, job[w].holds))
      BY <1>19, OpenSessionJob
    <2>3. LocalsAt(w)' /\ \A v \in Workers : v # w => job'[v] = job[v]
      BY <2>1, <2>2, <1>a, <1>b DEF Becomes, Moves, Rests, LocalsAt, Detached, Carrying,
         Retrying, Trying, Saving
    <2>4. QED
      BY <2>1, <2>3, LocalsKeep
  <1>20. ASSUME NEW w \in Workers, OpenEndpoint(w) PROVE LocalsInv'
    <2>1. job[w].pc = "opEndpoint"
      BY <1>20 DEF OpenEndpoint
    <2>2. \/ Becomes(w, "opRetry", job[w].on, job[w].cur, job[w].copy, job[w].key, job[w].rec,
               InflightKeys, job[w].items, job[w].holds)
          \/ Becomes(w, "opCreate", job[w].on, job[w].cur, job[w].copy, job[w].key, job[w].rec,
               job[w].todo, queue, job[w].holds)
          \/ Becomes(w, "opClose", job[w].on, job[w].cur, job[w].copy, job[w].key, job[w].rec,
               job[w].todo, queue, job[w].holds)
      BY <1>20, OpenEndpointJob
    <2>3. LocalsAt(w)' /\ \A v \in Workers : v # w => job'[v] = job[v]
      <3>1. CASE Becomes(w, "opRetry", job[w].on, job[w].cur, job[w].copy, job[w].key, job[w].rec,
              InflightKeys, job[w].items, job[w].holds)
        BY <2>1, <2>2, <3>1, <1>a, <1>b DEF Becomes, Moves, Rests, LocalsAt, Detached, Carrying,
           Retrying, Trying, Saving
      <3>2. CASE Becomes(w, "opCreate", job[w].on, job[w].cur, job[w].copy, job[w].key,
              job[w].rec, job[w].todo, queue, job[w].holds)
        BY <2>1, <2>2, <3>2, <1>a, <1>b DEF Becomes, Moves, Rests, LocalsAt, Detached, Carrying,
           Retrying, Trying, Saving
      <3>3. CASE Becomes(w, "opClose", job[w].on, job[w].cur, job[w].copy, job[w].key, job[w].rec,
              job[w].todo, queue, job[w].holds)
        BY <2>1, <2>2, <3>3, <1>a, <1>b DEF Becomes, Moves, Rests, LocalsAt, Detached, Carrying,
           Retrying, Trying, Saving
      <3>4. QED
        BY <2>2, <3>1, <3>2, <3>3
    <2>6. Incoming \in Conns
      BY <2>1, <1>c DEF Opening
    <2>7. endpoint' = [endpoint EXCEPT ![job[w].on] = Incoming]
      BY <1>20 DEF OpenEndpoint
    <2>8. \A v \in Workers : job[v].pc = "rtPut" => job[v].on \in Conns
            /\ endpoint[job[v].on] \in Conns
      BY <1>b DEF LocalsAt, Detached
    <2>4. \A v \in Workers : job[v].pc = "rtPut" => endpoint'[job[v].on] \in Conns
      BY <2>6, <2>7, <2>8, <1>d
    <2>5. QED
      BY <2>1, <2>3, <2>4, <1>b DEF LocalsInv, LocalsAt
  <1>21. ASSUME NEW w \in Workers, OpenCloseQueue(w) PROVE LocalsInv'
    <2>1. job[w].pc = "opClose" /\ UNCHANGED endpoint
      BY <1>21 DEF OpenCloseQueue
    <2>2. Moves(w, "opCreate")
      BY <1>21, OpenCloseQueueJob
    <2>3. LocalsAt(w)' /\ \A v \in Workers : v # w => job'[v] = job[v]
      BY <2>1, <2>2, <1>a, <1>b DEF Becomes, Moves, Rests, LocalsAt, Detached, Carrying,
         Retrying, Trying, Saving
    <2>4. QED
      BY <2>1, <2>3, LocalsKeep
  <1>22. ASSUME NEW w \in Workers, OpenCreateQueue(w) PROVE LocalsInv'
    <2>1. job[w].pc = "opCreate" /\ UNCHANGED endpoint
      BY <1>22 DEF OpenCreateQueue
    <2>2. Moves(w, "opAdd")
      BY <1>22, OpenCreateQueueJob
    <2>3. LocalsAt(w)' /\ \A v \in Workers : v # w => job'[v] = job[v]
      BY <2>1, <2>2, <1>a, <1>b DEF Becomes, Moves, Rests, LocalsAt, Detached, Carrying,
         Retrying, Trying, Saving
    <2>4. QED
      BY <2>1, <2>3, LocalsKeep
  <1>23. ASSUME NEW w \in Workers, OpenAddItems(w) PROVE LocalsInv'
    <2>1. job[w].pc = "opAdd" /\ UNCHANGED endpoint
      BY <1>23 DEF OpenAddItems
    <2>2. Becomes(w, "opRetry", job[w].on, job[w].cur, job[w].copy, job[w].key, job[w].rec,
            InflightKeys, <<>>, job[w].holds)
      BY <1>23, OpenAddItemsJob
    <2>3. LocalsAt(w)' /\ \A v \in Workers : v # w => job'[v] = job[v]
      BY <2>1, <2>2, <1>a, <1>b DEF Becomes, Moves, Rests, LocalsAt, Detached, Carrying,
         Retrying, Trying, Saving
    <2>4. QED
      BY <2>1, <2>3, LocalsKeep
  <1>24. ASSUME NEW w \in Workers, OpenRetry(w) PROVE LocalsInv'
    <2>1. job[w].pc = "opRetry" /\ UNCHANGED endpoint
      BY <1>24 DEF OpenRetry
    <2>2. PICK k \in job[w].todo : Goto(w, "opAccept") \/ job' = [job EXCEPT ![w].todo = @ \ {k}]
      BY <1>24 DEF OpenRetry
    <2>3. k \in Keys
      BY JobTypes, JobFields
    <2>4. CASE Goto(w, "opAccept")
      <3>1. Moves(w, "opAccept")
        BY <2>4, JobTypes, GotoMoves DEF Places, Opening
      <3>2. LocalsAt(w)' /\ \A v \in Workers : v # w => job'[v] = job[v]
        BY <2>1, <3>1, <1>b
          DEF Moves, Becomes, LocalsAt, Detached, Carrying, Retrying, Trying, Saving
      <3>3. QED
        BY <2>1, <3>2, LocalsKeep
    <2>5. CASE job' = [job EXCEPT ![w].todo = @ \ {k}]
      <3>1. Becomes(w, job[w].pc, job[w].on, job[w].cur, job[w].copy, job[w].key, job[w].rec,
              job[w].todo \ {k}, job[w].items, job[w].holds)
        BY <2>3, <2>5, OpenRetryJob
      <3>2. LocalsAt(w)' /\ \A v \in Workers : v # w => job'[v] = job[v]
        BY <2>1, <3>1, <1>b DEF Becomes, LocalsAt, Detached, Carrying, Retrying, Trying, Saving
      <3>3. QED
        BY <2>1, <3>2, LocalsKeep
    <2>6. QED
      BY <2>2, <2>4, <2>5
  <1>25. ASSUME NEW w \in Workers, OpenPutWrapper(w) PROVE LocalsInv'
    <2>1. job[w].pc = "opRetry" /\ UNCHANGED endpoint
      BY <1>25 DEF OpenPutWrapper
    <2>2. Moves(w, "opAccept")
      BY <1>25, OpenPutWrapperJob
    <2>3. LocalsAt(w)' /\ \A v \in Workers : v # w => job'[v] = job[v]
      BY <2>1, <2>2, <1>a, <1>b DEF Becomes, Moves, Rests, LocalsAt, Detached, Carrying,
         Retrying, Trying, Saving
    <2>4. QED
      BY <2>1, <2>3, LocalsKeep
  <1>26. ASSUME NEW w \in Workers, Accept(w) PROVE LocalsInv'
    <2>1. job[w].pc = "opAccept" /\ UNCHANGED endpoint
      BY <1>26 DEF Accept
    <2>2. Rests(w)
      BY <1>26, AcceptJob
    <2>3. LocalsAt(w)' /\ \A v \in Workers : v # w => job'[v] = job[v]
      BY <2>1, <2>2, <1>a, <1>b DEF Becomes, Moves, Rests, LocalsAt, Detached, Carrying,
         Retrying, Trying, Saving
    <2>4. QED
      BY <2>1, <2>3, LocalsKeep
  <1>27. ASSUME NEW w \in Workers, NEW c \in Conns, CloseSession(w, c) PROVE LocalsInv'
    BY <1>27 DEF CloseSession, LocalsInv, LocalsAt
  <1>28. ASSUME NEW x \in Conns, NEW k \in Keys, Expire(x, k) PROVE LocalsInv'
    BY <1>28 DEF Expire, LocalsInv, LocalsAt
  <1>29. ASSUME NEW c \in Conns, Disconnect(c) PROVE LocalsInv'
    BY <1>29 DEF Disconnect, LocalsInv, LocalsAt
  <1>30. CASE Crash
    BY <1>30 DEF Crash, LocalsInv, LocalsAt, Idle, Detached, Carrying, Retrying, Trying, Saving
  <1>31. CASE UNCHANGED vars
    BY <1>31 DEF vars, LocalsInv, LocalsAt
  <1>32. QED
    BY <1>1, <1>2, <1>3, <1>4, <1>5, <1>5a, <1>6, <1>7, <1>8, <1>9, <1>10, <1>11, <1>12, <1>13,
      <1>14,
       <1>15, <1>16, <1>17, <1>18, <1>19, <1>20, <1>21, <1>22, <1>23, <1>24, <1>25, <1>26,
       <1>27, <1>28, <1>29, <1>30, <1>31 DEF Next, WorkerStep, ReceiveAnswer, Quiet

\* A step that leaves the connections alone and lets nobody start open() keeps OpenInv.
LEMMA OpenKeep ==
    ASSUME OpenInv, UNCHANGED conn,
           \A v \in Workers : job'[v].pc \in Opening => job[v].pc \in Opening
    PROVE  OpenInv'
  BY DEF OpenInv

\* No connection starts or ends its opening.
LEMMA OpenKeepConn ==
    ASSUME OpenInv, \A d \in Conns : /\ conn'[d] = "new" <=> conn[d] = "new"
                                     /\ conn'[d] = "opening" <=> conn[d] = "opening",
           \A v \in Workers : job'[v].pc \in Opening => job[v].pc \in Opening
    PROVE  OpenInv'
  BY DEF OpenInv, Conns

\* Every step keeps connections opening one after the other, by one worker.
LEMMA OpenStep == TypeOK /\ LocalsInv /\ OpenInv /\ [Next]_vars => OpenInv'
  <1> SUFFICES ASSUME TypeOK, LocalsInv, OpenInv, [Next]_vars
               PROVE  OpenInv'
    OBVIOUS
  <1>a. conn \in [Conns -> {"new", "opening", "accepted", "closing", "closed"}]
    BY DEF TypeOK
  <1>1. ASSUME NEW w \in Workers, NEW m \in Msgs, HandleLocalPublishMessage(w, m) PROVE OpenInv'
    <2>1. job[w].pc = "idle" /\ UNCHANGED conn
      BY <1>1 DEF HandleLocalPublishMessage
    <2>2. \/ (wrapper = None /\ Becomes(w, "offline", wrapper, m, job[w].copy, job[w].key,
               job[w].rec, job[w].todo, job[w].items, job[w].holds))
          \/ (wrapper # None /\ Becomes(w, "handle", wrapper, m, job[w].copy, job[w].key,
               job[w].rec, job[w].todo, job[w].items, job[w].holds))
      BY <1>1, HandleLocalPublishMessageJob
    <2>3. \A v \in Workers : job'[v].pc \in Opening => job[v].pc \in Opening
      <3>1. CASE (wrapper = None /\ Becomes(w, "offline", wrapper, m, job[w].copy, job[w].key,
              job[w].rec, job[w].todo, job[w].items, job[w].holds))
        BY <2>1, <3>1 DEF Becomes, Moves, Rests, Opening
      <3>2. CASE (wrapper # None /\ Becomes(w, "handle", wrapper, m, job[w].copy, job[w].key,
              job[w].rec, job[w].todo, job[w].items, job[w].holds))
        BY <2>1, <3>2 DEF Becomes, Moves, Rests, Opening
      <3>3. QED
        BY <2>2, <3>1, <3>2
    <2>4. QED
      BY <2>1, <2>3, OpenKeep
  <1>2. ASSUME NEW w \in Workers, EnqueueOffline(w) PROVE OpenInv'
    <2>1. job[w].pc = "offline" /\ UNCHANGED conn
      BY <1>2 DEF EnqueueOffline
    <2>2. \/ job' = job
          \/ Becomes(w, "relook", job[w].on, None, job[w].copy, job[w].key, job[w].rec,
               job[w].todo, job[w].items, job[w].holds)
      BY <1>2, EnqueueOfflineJob
    <2>3. \A v \in Workers : job'[v].pc \in Opening => job[v].pc \in Opening
      <3>1. CASE job' = job
        BY <2>1, <3>1 DEF Becomes, Moves, Rests, Opening
      <3>2. CASE Becomes(w, "relook", job[w].on, None, job[w].copy, job[w].key, job[w].rec,
              job[w].todo, job[w].items, job[w].holds)
        BY <2>1, <3>2 DEF Becomes, Moves, Rests, Opening
      <3>3. QED
        BY <2>2, <3>1, <3>2
    <2>4. QED
      BY <2>1, <2>3, OpenKeep
  <1>3. ASSUME NEW w \in Workers, LookupAgain(w) PROVE OpenInv'
    <2>1. job[w].pc = "relook" /\ UNCHANGED conn
      BY <1>3 DEF LookupAgain
    <2>2. \/ Rests(w)
          \/ (wrapper # None /\ Becomes(w, "dqTake", wrapper, job[w].cur, job[w].copy, job[w].key,
               job[w].rec, job[w].todo, job[w].items, job[w].holds))
      BY <1>3, LookupAgainJob
    <2>3. \A v \in Workers : job'[v].pc \in Opening => job[v].pc \in Opening
      <3>1. CASE Rests(w)
        BY <2>1, <3>1 DEF Becomes, Moves, Rests, Opening
      <3>2. CASE (wrapper # None /\ Becomes(w, "dqTake", wrapper, job[w].cur, job[w].copy,
              job[w].key, job[w].rec, job[w].todo, job[w].items, job[w].holds))
        BY <2>1, <3>2 DEF Becomes, Moves, Rests, Opening
      <3>3. QED
        BY <2>2, <3>1, <3>2
    <2>4. QED
      BY <2>1, <2>3, OpenKeep
  <1>4. ASSUME NEW w \in Workers, HandleMessage(w) PROVE OpenInv'
    <2>1. job[w].pc = "handle" /\ UNCHANGED conn
      BY <1>4 DEF HandleMessage
    <2>2. \/ Rests(w)
          \/ Moves(w, "offer")
          \/ Moves(w, "inChk")
      BY <1>4, HandleMessageJob
    <2>3. \A v \in Workers : job'[v].pc \in Opening => job[v].pc \in Opening
      <3>1. CASE Rests(w)
        BY <2>1, <3>1 DEF Becomes, Moves, Rests, Opening
      <3>2. CASE Moves(w, "offer")
        BY <2>1, <3>2 DEF Becomes, Moves, Rests, Opening
      <3>3. CASE Moves(w, "inChk")
        BY <2>1, <3>3 DEF Becomes, Moves, Rests, Opening
      <3>4. QED
        BY <2>2, <3>1, <3>2, <3>3
    <2>4. QED
      BY <2>1, <2>3, OpenKeep
  <1>5. ASSUME NEW w \in Workers, Offer(w) PROVE OpenInv'
    <2>1. job[w].pc = "offer" /\ UNCHANGED conn
      BY <1>5 DEF Offer, LeaveTry, ReleaseInflightCas
    <2>2. \/ job' = job
          \/ Rests(w)
          \/ Becomes(w, "dqTake", job[w].on, None, job[w].copy, job[w].key, job[w].rec,
               job[w].todo, job[w].items, FALSE)
      BY <1>5, OfferJob
    <2>3. \A v \in Workers : job'[v].pc \in Opening => job[v].pc \in Opening
      <3>1. CASE job' = job
        BY <2>1, <3>1 DEF Becomes, Moves, Rests, Opening
      <3>2. CASE Rests(w)
        BY <2>1, <3>2 DEF Becomes, Moves, Rests, Opening
      <3>3. CASE Becomes(w, "dqTake", job[w].on, None, job[w].copy, job[w].key, job[w].rec,
              job[w].todo, job[w].items, FALSE)
        BY <2>1, <3>3 DEF Becomes, Moves, Rests, Opening
      <3>4. QED
        BY <2>2, <3>1, <3>2, <3>3
    <2>4. QED
      BY <2>1, <2>3, OpenKeep
  <1>5a. ASSUME NEW w \in Workers, InflightCheck(w) PROVE OpenInv'
    <2>1. job[w].pc = "inChk" /\ UNCHANGED conn
      BY <1>5a DEF InflightCheck, TakeInflightCas
    <2>2. \/ Rests(w)
          \/ \E p \in {"offer", "inPut"} : Becomes(w, p, job[w].on, job[w].cur, job[w].copy,
               job[w].key, job[w].rec, job[w].todo, job[w].items, TRUE)
      BY <1>5a, InflightCheckJob
    <2>3. \A v \in Workers : job'[v].pc \in Opening => job[v].pc \in Opening
      <3>1. CASE Rests(w)
        BY <2>1, <3>1 DEF Becomes, Moves, Rests, Opening
      <3>2. CASE \E p \in {"offer", "inPut"} : Becomes(w, p, job[w].on, job[w].cur, job[w].copy,
              job[w].key, job[w].rec, job[w].todo, job[w].items, TRUE)
        BY <2>1, <3>2 DEF Becomes, Moves, Rests, Opening
      <3>3. QED
        BY <2>2, <3>1, <3>2
    <2>4. QED
      BY <2>1, <2>3, OpenKeep
  <1>6. ASSUME NEW w \in Workers, InflightPut(w) PROVE OpenInv'
    <2>1. job[w].pc = "inPut" /\ UNCHANGED conn
      BY <1>6 DEF InflightPut, Put, SaveInflightTimeout, Publish, ReleaseInflightCas
    <2>2. \/ Moves(w, "offer")
          \/ Rests(w)
      BY <1>6, InflightPutJob
    <2>3. \A v \in Workers : job'[v].pc \in Opening => job[v].pc \in Opening
      <3>1. CASE Moves(w, "offer")
        BY <2>1, <3>1 DEF Becomes, Moves, Rests, Opening
      <3>2. CASE Rests(w)
        BY <2>1, <3>2 DEF Becomes, Moves, Rests, Opening
      <3>3. QED
        BY <2>2, <3>1, <3>2
    <2>4. QED
      BY <2>1, <2>3, OpenKeep
  <1>7. ASSUME NEW w \in Workers, DequeueTake(w) PROVE OpenInv'
    <2>1. job[w].pc = "dqTake" /\ UNCHANGED conn
      BY <1>7 DEF DequeueTake
    <2>2. \/ Rests(w)
          \/ Moves(w, "dqChk")
      BY <1>7, DequeueTakeJob
    <2>3. \A v \in Workers : job'[v].pc \in Opening => job[v].pc \in Opening
      <3>1. CASE Rests(w)
        BY <2>1, <3>1 DEF Becomes, Moves, Rests, Opening
      <3>2. CASE Moves(w, "dqChk")
        BY <2>1, <3>2 DEF Becomes, Moves, Rests, Opening
      <3>3. QED
        BY <2>2, <3>1, <3>2
    <2>4. QED
      BY <2>1, <2>3, OpenKeep
  <1>8. ASSUME NEW w \in Workers, DequeueCheck(w) PROVE OpenInv'
    <2>1. job[w].pc = "dqChk" /\ UNCHANGED conn
      BY <1>8 DEF DequeueCheck
    <2>2. \/ Moves(w, "dqEnd")
          \/ Moves(w, "dqPoll")
      BY <1>8, DequeueCheckJob
    <2>3. \A v \in Workers : job'[v].pc \in Opening => job[v].pc \in Opening
      <3>1. CASE Moves(w, "dqEnd")
        BY <2>1, <3>1 DEF Becomes, Moves, Rests, Opening
      <3>2. CASE Moves(w, "dqPoll")
        BY <2>1, <3>2 DEF Becomes, Moves, Rests, Opening
      <3>3. QED
        BY <2>2, <3>1, <3>2
    <2>4. QED
      BY <2>1, <2>3, OpenKeep
  <1>9. ASSUME NEW w \in Workers, DequeuePoll(w) PROVE OpenInv'
    <2>1. job[w].pc = "dqPoll" /\ UNCHANGED conn
      BY <1>9 DEF DequeuePoll, TakeInflightCas
    <2>2. \/ Moves(w, "dqEnd")
          \/ (Head(queue) \in Msgs /\ Becomes(w, "dqPut", job[w].on, Head(queue), job[w].copy,
               job[w].key, job[w].rec, job[w].todo, job[w].items, TRUE))
      BY <1>9, DequeuePollJob
    <2>3. \A v \in Workers : job'[v].pc \in Opening => job[v].pc \in Opening
      <3>1. CASE Moves(w, "dqEnd")
        BY <2>1, <3>1 DEF Becomes, Moves, Rests, Opening
      <3>2. CASE (Head(queue) \in Msgs /\ Becomes(w, "dqPut", job[w].on, Head(queue), job[w].copy,
              job[w].key, job[w].rec, job[w].todo, job[w].items, TRUE))
        BY <2>1, <3>2 DEF Becomes, Moves, Rests, Opening
      <3>3. QED
        BY <2>2, <3>1, <3>2
    <2>4. QED
      BY <2>1, <2>3, OpenKeep
  <1>10. ASSUME NEW w \in Workers, DequeuePut(w) PROVE OpenInv'
    <2>1. job[w].pc = "dqPut" /\ UNCHANGED conn
      BY <1>10 DEF DequeuePut, ReleaseInflightCas, Put, SaveInflightTimeout, Publish
    <2>2. \/ Becomes(w, "dqChk", job[w].on, None, job[w].copy, job[w].key, job[w].rec,
               job[w].todo, job[w].items, FALSE)
          \/ Becomes(w, "dqEnd", job[w].on, None, job[w].copy, job[w].key, job[w].rec,
               job[w].todo, job[w].items, FALSE)
      BY <1>10, DequeuePutJob
    <2>3. \A v \in Workers : job'[v].pc \in Opening => job[v].pc \in Opening
      <3>1. CASE Becomes(w, "dqChk", job[w].on, None, job[w].copy, job[w].key, job[w].rec,
              job[w].todo, job[w].items, FALSE)
        BY <2>1, <3>1 DEF Becomes, Moves, Rests, Opening
      <3>2. CASE Becomes(w, "dqEnd", job[w].on, None, job[w].copy, job[w].key, job[w].rec,
              job[w].todo, job[w].items, FALSE)
        BY <2>1, <3>2 DEF Becomes, Moves, Rests, Opening
      <3>3. QED
        BY <2>2, <3>1, <3>2
    <2>4. QED
      BY <2>1, <2>3, OpenKeep
  <1>11. ASSUME NEW w \in Workers, DequeueEnd(w) PROVE OpenInv'
    <2>1. job[w].pc = "dqEnd" /\ UNCHANGED conn
      BY <1>11 DEF DequeueEnd
    <2>2. Rests(w)
      BY <1>11, DequeueEndJob
    <2>3. \A v \in Workers : job'[v].pc \in Opening => job[v].pc \in Opening
      BY <2>1, <2>2 DEF Becomes, Moves, Rests, Opening
    <2>4. QED
      BY <2>1, <2>3, OpenKeep
  <1>12. ASSUME NEW w \in Workers, NEW p \in wire, ReceivePuback(w, p) \/ ReceivePubcomp(w, p)
                PROVE OpenInv'
    <2>1. job[w].pc = "idle" /\ UNCHANGED conn
      BY <1>12 DEF ReceivePuback, ReceivePubcomp, RemoveInflight
    <2>8. RemoveInflight(w, p)
      BY <1>12 DEF ReceivePuback, ReceivePubcomp
    <2>2. \/ job' = job
          \/ (wrapper # None /\ Becomes(w, "dqTake", wrapper, job[w].cur, job[w].copy, job[w].key,
               job[w].rec, job[w].todo, job[w].items, job[w].holds))
      BY <2>8, RemoveInflightJob
    <2>3. \A v \in Workers : job'[v].pc \in Opening => job[v].pc \in Opening
      <3>1. CASE job' = job
        BY <2>1, <3>1 DEF Becomes, Moves, Rests, Opening
      <3>2. CASE (wrapper # None /\ Becomes(w, "dqTake", wrapper, job[w].cur, job[w].copy,
              job[w].key, job[w].rec, job[w].todo, job[w].items, job[w].holds))
        BY <2>1, <3>2 DEF Becomes, Moves, Rests, Opening
      <3>3. QED
        BY <2>2, <3>1, <3>2
    <2>4. QED
      BY <2>1, <2>3, OpenKeep
  <1>13. ASSUME NEW w \in Workers, NEW p \in wire, ReceivePubrec(w, p) PROVE OpenInv'
    <2>1. job[w].pc = "idle" /\ UNCHANGED conn
      BY <1>13 DEF ReceivePubrec
    <2>2. (\E e \in Entries \cup {None} : (e = None \/ e = inflights[p.id])
               /\ Becomes(w, "recPut", job[w].on, job[w].cur, e, job[w].key, p, job[w].todo,
                    job[w].items, job[w].holds))
      BY <1>13, ReceivePubrecJob
    <2>3. \A v \in Workers : job'[v].pc \in Opening => job[v].pc \in Opening
      BY <2>1, <2>2 DEF Becomes, Moves, Rests, Opening
    <2>4. QED
      BY <2>1, <2>3, OpenKeep
  <1>14. ASSUME NEW w \in Workers, PutPubrec(w) PROVE OpenInv'
    <2>1. job[w].pc = "recPut" /\ UNCHANGED conn
      BY <1>14 DEF PutPubrec, Put, SendPubrel
    <2>2. Rests(w)
      BY <1>14, PutPubrecJob
    <2>3. \A v \in Workers : job'[v].pc \in Opening => job[v].pc \in Opening
      BY <2>1, <2>2 DEF Becomes, Moves, Rests, Opening
    <2>4. QED
      BY <2>1, <2>3, OpenKeep
  <1>15. ASSUME NEW w \in Workers, NEW x \in Conns, NEW k \in Keys, Retry(w, x, k) PROVE OpenInv'
    <2>1. job[w].pc = "idle" /\ UNCHANGED conn
      BY <1>15 DEF Retry
    <2>2. \/ job' = job
          \/ Becomes(w, "dqTake", x, job[w].cur, job[w].copy, job[w].key, job[w].rec, job[w].todo,
               job[w].items, job[w].holds)
          \/ (\E p \in {"rtRel", "rtDel"} : inflights[k] \in Entries
               /\ ~RetriesExhausted(inflights[k])
               /\ Becomes(w, p, x, job[w].cur, inflights[k], k, job[w].rec, job[w].todo,
                    job[w].items, job[w].holds))
      BY <1>15, RetryJob
    <2>3. \A v \in Workers : job'[v].pc \in Opening => job[v].pc \in Opening
      <3>1. CASE job' = job
        BY <2>1, <3>1 DEF Becomes, Moves, Rests, Opening
      <3>2. CASE Becomes(w, "dqTake", x, job[w].cur, job[w].copy, job[w].key, job[w].rec,
              job[w].todo, job[w].items, job[w].holds)
        BY <2>1, <3>2 DEF Becomes, Moves, Rests, Opening
      <3>3. CASE (\E p \in {"rtRel", "rtDel"} : inflights[k] \in Entries
              /\ ~RetriesExhausted(inflights[k])
                 /\ Becomes(w, p, x, job[w].cur, inflights[k], k, job[w].rec, job[w].todo,
                      job[w].items, job[w].holds))
        BY <2>1, <3>3 DEF Becomes, Moves, Rests, Opening
      <3>4. QED
        BY <2>2, <3>1, <3>2, <3>3
    <2>4. QED
      BY <2>1, <2>3, OpenKeep
  <1>16. ASSUME NEW w \in Workers, RetryRelease(w) PROVE OpenInv'
    <2>1. job[w].pc = "rtRel" /\ UNCHANGED conn
      BY <1>16 DEF RetryRelease, Put, SaveInflightTimeout, SendPubrel
    <2>2. Rests(w)
      BY <1>16, RetryReleaseJob
    <2>3. \A v \in Workers : job'[v].pc \in Opening => job[v].pc \in Opening
      BY <2>1, <2>2 DEF Becomes, Moves, Rests, Opening
    <2>4. QED
      BY <2>1, <2>3, OpenKeep
  <1>17. ASSUME NEW w \in Workers, RetryDelete(w) PROVE OpenInv'
    <2>1. job[w].pc = "rtDel" /\ UNCHANGED conn
      BY <1>17 DEF RetryDelete, TakeInflightCas, Put, SaveInflightTimeout
    <2>9. job[w].on \in Conns /\ job[w].copy \in Entries
      BY <2>1 DEF LocalsInv, LocalsAt, Detached, Retrying
    <2>2. \/ Rests(w)
          \/ Refiles(w)
      BY <1>17, <2>9, RetryDeleteJob
    <2>3. \A v \in Workers : job'[v].pc \in Opening => job[v].pc \in Opening
      <3>1. CASE Rests(w)
        BY <2>1, <3>1 DEF Becomes, Moves, Rests, Refiles, Opening
      <3>2. CASE Refiles(w)
        BY <2>1, <3>2 DEF Becomes, Moves, Rests, Refiles, Opening
      <3>3. QED
        BY <2>2, <3>1, <3>2
    <2>4. QED
      BY <2>1, <2>3, OpenKeep
  <1>18. ASSUME NEW w \in Workers, RetryPut(w) PROVE OpenInv'
    <2>1. job[w].pc = "rtPut" /\ UNCHANGED conn
      BY <1>18 DEF RetryPut, ReleaseInflightCas, Put, SaveInflightTimeout, Publish
    <2>2. Rests(w)
      BY <1>18, RetryPutJob
    <2>3. \A v \in Workers : job'[v].pc \in Opening => job[v].pc \in Opening
      BY <2>1, <2>2 DEF Becomes, Moves, Rests, Opening
    <2>4. QED
      BY <2>1, <2>3, OpenKeep
  <1>19. ASSUME NEW w \in Workers, NEW c \in Conns, OpenSession(w, c) PROVE OpenInv'
    <2>1. job[w].pc = "idle" /\ conn[c] = "new" /\ conn' = [conn EXCEPT ![c] = "opening"]
          /\ \A d \in Conns : (d < c => conn[d] # "new") /\ conn[d] # "opening"
      BY <1>19 DEF OpenSession
    <2>2. (\E x \in Conns : (x = c \/ x = wrapper) /\ Becomes(w, "opEndpoint", x, job[w].cur,
            job[w].copy, job[w].key, job[w].rec, job[w].todo, job[w].items, job[w].holds))
      BY <1>19, OpenSessionJob
    <2>3. \A v \in Workers : job'[v].pc \in Opening => v = w
      BY <2>1, <2>2 DEF Becomes, OpenInv
    <2>4. \A d \in Conns : conn'[d] = IF d = c THEN "opening" ELSE conn[d]
      BY <2>1, <1>a
    <2>5. QED
      BY <2>1, <2>3, <2>4, <1>a DEF OpenInv, Conns
  <1>20. ASSUME NEW w \in Workers, OpenEndpoint(w) PROVE OpenInv'
    <2>1. job[w].pc = "opEndpoint"
      BY <1>20 DEF OpenEndpoint
    <2>2. \/ Becomes(w, "opRetry", job[w].on, job[w].cur, job[w].copy, job[w].key, job[w].rec,
               InflightKeys, job[w].items, job[w].holds)
          \/ Becomes(w, "opCreate", job[w].on, job[w].cur, job[w].copy, job[w].key, job[w].rec,
               job[w].todo, queue, job[w].holds)
          \/ Becomes(w, "opClose", job[w].on, job[w].cur, job[w].copy, job[w].key, job[w].rec,
               job[w].todo, queue, job[w].holds)
      BY <1>20, OpenEndpointJob
    <2>3. \A v \in Workers : job'[v].pc \in Opening => job[v].pc \in Opening
      <3>1. CASE Becomes(w, "opRetry", job[w].on, job[w].cur, job[w].copy, job[w].key, job[w].rec,
              InflightKeys, job[w].items, job[w].holds)
        BY <2>1, <3>1 DEF Becomes, Moves, Rests, Opening
      <3>2. CASE Becomes(w, "opCreate", job[w].on, job[w].cur, job[w].copy, job[w].key,
              job[w].rec, job[w].todo, queue, job[w].holds)
        BY <2>1, <3>2 DEF Becomes, Moves, Rests, Opening
      <3>3. CASE Becomes(w, "opClose", job[w].on, job[w].cur, job[w].copy, job[w].key, job[w].rec,
              job[w].todo, queue, job[w].holds)
        BY <2>1, <3>3 DEF Becomes, Moves, Rests, Opening
      <3>4. QED
        BY <2>2, <3>1, <3>2, <3>3
    <2>4. UNCHANGED conn \/ conn' = [conn EXCEPT ![endpoint[job[w].on]] = IF @ = "accepted"
            THEN "closing" ELSE @]
      BY <1>20 DEF OpenEndpoint
    <2>5. \A d \in Conns : /\ conn'[d] = "new" <=> conn[d] = "new"
                           /\ conn'[d] = "opening" <=> conn[d] = "opening"
      BY <2>4, <1>a
    <2>6. QED
      BY <2>3, <2>5, OpenKeepConn
  <1>21. ASSUME NEW w \in Workers, OpenCloseQueue(w) PROVE OpenInv'
    <2>1. job[w].pc = "opClose" /\ UNCHANGED conn
      BY <1>21 DEF OpenCloseQueue
    <2>2. Moves(w, "opCreate")
      BY <1>21, OpenCloseQueueJob
    <2>3. \A v \in Workers : job'[v].pc \in Opening => job[v].pc \in Opening
      BY <2>1, <2>2 DEF Becomes, Moves, Rests, Opening
    <2>4. QED
      BY <2>1, <2>3, OpenKeep
  <1>22. ASSUME NEW w \in Workers, OpenCreateQueue(w) PROVE OpenInv'
    <2>1. job[w].pc = "opCreate" /\ UNCHANGED conn
      BY <1>22 DEF OpenCreateQueue
    <2>2. Moves(w, "opAdd")
      BY <1>22, OpenCreateQueueJob
    <2>3. \A v \in Workers : job'[v].pc \in Opening => job[v].pc \in Opening
      BY <2>1, <2>2 DEF Becomes, Moves, Rests, Opening
    <2>4. QED
      BY <2>1, <2>3, OpenKeep
  <1>23. ASSUME NEW w \in Workers, OpenAddItems(w) PROVE OpenInv'
    <2>1. job[w].pc = "opAdd" /\ UNCHANGED conn
      BY <1>23 DEF OpenAddItems
    <2>2. Becomes(w, "opRetry", job[w].on, job[w].cur, job[w].copy, job[w].key, job[w].rec,
            InflightKeys, <<>>, job[w].holds)
      BY <1>23, OpenAddItemsJob
    <2>3. \A v \in Workers : job'[v].pc \in Opening => job[v].pc \in Opening
      BY <2>1, <2>2 DEF Becomes, Moves, Rests, Opening
    <2>4. QED
      BY <2>1, <2>3, OpenKeep
  <1>24. ASSUME NEW w \in Workers, OpenRetry(w) PROVE OpenInv'
    <2>1. job[w].pc = "opRetry" /\ UNCHANGED conn
      BY <1>24 DEF OpenRetry
    <2>2. PICK k \in job[w].todo : Goto(w, "opAccept") \/ job' = [job EXCEPT ![w].todo = @ \ {k}]
      BY <1>24 DEF OpenRetry
    <2>3. Moves(w, "opAccept") \/ Becomes(w, job[w].pc, job[w].on, job[w].cur, job[w].copy,
            job[w].key, job[w].rec, job[w].todo \ {k}, job[w].items, job[w].holds)
      BY <2>2, JobTypes, JobFields, GotoMoves, OpenRetryJob DEF Places, Opening
    <2>4. \A v \in Workers : job'[v].pc \in Opening => job[v].pc \in Opening
      BY <2>1, <2>3 DEF Becomes, Moves, Opening
    <2>5. QED
      BY <2>1, <2>4, OpenKeep
  <1>25. ASSUME NEW w \in Workers, OpenPutWrapper(w) PROVE OpenInv'
    <2>1. job[w].pc = "opRetry" /\ UNCHANGED conn
      BY <1>25 DEF OpenPutWrapper
    <2>2. Moves(w, "opAccept")
      BY <1>25, OpenPutWrapperJob
    <2>3. \A v \in Workers : job'[v].pc \in Opening => job[v].pc \in Opening
      BY <2>1, <2>2 DEF Becomes, Moves, Rests, Opening
    <2>4. QED
      BY <2>1, <2>3, OpenKeep
  <1>26. ASSUME NEW w \in Workers, Accept(w) PROVE OpenInv'
    <2>1. job[w].pc = "opAccept" /\ conn' = [conn EXCEPT ![Incoming] = "accepted"]
      BY <1>26 DEF Accept
    <2>2. Rests(w)
      BY <1>26, AcceptJob
    <2>3. Incoming \in Conns /\ conn[Incoming] = "opening"
      BY <2>1 DEF OpenInv, Incoming, Opening
    <2>4. \A d \in Conns : conn'[d] = IF d = Incoming THEN "accepted" ELSE conn[d]
      BY <2>1, <1>a
    <2>5. \A v \in Workers : job'[v].pc \notin Opening
      BY <2>1, <2>2 DEF Becomes, Rests, OpenInv, Opening
    <2> HIDE DEF Incoming
    <2>6. \A d \in Conns : conn'[d] # "opening"
      BY <2>3, <2>4, <1>a DEF OpenInv
    <2>7. \A d \in Conns : conn'[d] = "new" <=> conn[d] = "new"
      BY <2>3, <2>4, <1>a
    <2>8. QED
      BY <2>5, <2>6, <2>7 DEF OpenInv, Conns
  <1>27. ASSUME NEW w \in Workers, NEW c \in Conns, CloseSession(w, c) PROVE OpenInv'
    <2>1. conn' = [conn EXCEPT ![c] = "closed"] /\ conn[c] = "closing" /\ UNCHANGED job
      BY <1>27 DEF CloseSession
    <2>2. QED
      BY <2>1, <1>a, OpenKeepConn
  <1>28. ASSUME NEW x \in Conns, NEW k \in Keys, Expire(x, k) PROVE OpenInv'
    BY <1>28, OpenKeep DEF Expire
  <1>29. ASSUME NEW c \in Conns, Disconnect(c) PROVE OpenInv'
    <2>1. conn' = [conn EXCEPT ![c] = "closing"] /\ conn[c] = "accepted" /\ UNCHANGED job
      BY <1>29 DEF Disconnect
    <2>2. QED
      BY <2>1, <1>a, OpenKeepConn
  <1>30. CASE Crash
    <2>1. \A c \in Conns : conn'[c] = IF conn[c] = "new" THEN "new" ELSE "closed"
      BY <1>30 DEF Crash
    <2>2. \A v \in Workers : job'[v].pc \notin Opening
      BY <1>30 DEF Crash, Idle, Opening
    <2>3. QED
      BY <2>1, <2>2 DEF OpenInv, Conns
  <1>31. CASE UNCHANGED vars
    BY <1>31 DEF vars, OpenInv
  <1>32. QED
    BY <1>1, <1>2, <1>3, <1>4, <1>5, <1>5a, <1>6, <1>7, <1>8, <1>9, <1>10, <1>11, <1>12, <1>13,
      <1>14,
       <1>15, <1>16, <1>17, <1>18, <1>19, <1>20, <1>21, <1>22, <1>23, <1>24, <1>25, <1>26,
       <1>27, <1>28, <1>29, <1>30, <1>31 DEF Next, WorkerStep, ReceiveAnswer, Quiet

\* What becomes of the locks when worker w takes a step: it keeps those it has or
\* releases them, and only it takes another.
LocksGo(w) ==
    /\ job[w].pc \in Draining =>
         (job'[w].pc \in Draining /\ job'[w].on = job[w].on) \/ queueCas'[job[w].on] = 0
    /\ job[w].holds => (job'[w].holds /\ job'[w].on = job[w].on) \/ inflightCas'[job[w].on] = 0
    /\ \A x \in Conns : queueCas'[x] = 1 => queueCas[x] = 1 \/ (job'[w].pc \in Draining
         /\ job'[w].on = x)
    /\ \A x \in Conns : inflightCas'[x] = 1 => inflightCas[x] = 1
         \/ (job'[w].holds /\ job'[w].on = x)
    /\ \A x \in Conns : inflightCas'[x] # inflightCas[x] =>
         (job[w].holds /\ job[w].on = x) \/ (job'[w].holds /\ job'[w].on = x)
    /\ job'[w].holds =>
         \/ job[w].holds /\ job'[w].on = job[w].on /\ inflightCas' = inflightCas
         \/ /\ job'[w].on \in Conns
            /\ inflightCas[job'[w].on] = 0 /\ inflightCas'[job'[w].on] = 1

\* A step of one worker that LocksGo allows leaves every lock to one holder.
LEMMA HoldKeep ==
    ASSUME LockInv, NEW w \in Workers, LocksGo(w), \A v \in Workers : v # w => job'[v] = job[v]
    PROVE  /\ \A v \in Workers : job'[v].holds => job'[v].on \in Conns
                /\ inflightCas'[job'[v].on] = 1
           /\ \A u, v \in Workers : job'[u].holds /\ job'[v].holds /\ job'[u].on = job'[v].on =>
                u = v
  <1>1. ASSUME NEW v \in Workers, v # w, job'[v].holds
        PROVE  /\ job[v].holds /\ job[v].on \in Conns /\ inflightCas[job[v].on] = 1
               /\ ~(job'[w].holds /\ job'[w].on = job[v].on)
               /\ inflightCas'[job[v].on] = 1
    <2>1. job[v].holds /\ job[v].on \in Conns /\ inflightCas[job[v].on] = 1
      BY <1>1 DEF LockInv
    <2>2. ~(job[w].holds /\ job[w].on = job[v].on)
      BY <1>1, <2>1 DEF LockInv
    <2>3. ~(job'[w].holds /\ job'[w].on = job[v].on)
      BY <2>1, <2>2 DEF LocksGo
    <2>4. QED
      BY <2>1, <2>2, <2>3 DEF LocksGo
  <1>2. ASSUME job'[w].holds PROVE job'[w].on \in Conns /\ inflightCas'[job'[w].on] = 1
    BY <1>2 DEF LocksGo, LockInv
  <1>3. ASSUME NEW u \in Workers, NEW v \in Workers, job'[u].holds, job'[v].holds,
               job'[u].on = job'[v].on
        PROVE  u = v
    <2>1. CASE u = w
      BY <1>1, <1>3, <2>1
    <2>2. CASE v = w
      BY <1>1, <1>3, <2>2
    <2>3. CASE u # w /\ v # w
      BY <1>3, <2>3 DEF LockInv
    <2>4. QED
      BY <2>1, <2>2, <2>3
  <1>4. QED
    BY <1>1, <1>2, <1>3

\* A step of one worker that LocksGo allows keeps LockInv.
LEMMA LockKeep ==
    ASSUME LockInv, NEW w \in Workers, LocksGo(w), \A v \in Workers : v # w => job'[v] = job[v]
    PROVE  LockInv'
  <1>a. SUFFICES ASSUME NEW x \in Conns
               PROVE  /\ queueCas'[x] = 1 => \E v \in Workers : job'[v].pc \in Draining
                           /\ job'[v].on = x
                      /\ inflightCas'[x] = 1 => \E v \in Workers : job'[v].holds /\ job'[v].on = x
    BY HoldKeep DEF LockInv
  <1>1. ASSUME queueCas'[x] = 1 PROVE \E v \in Workers : job'[v].pc \in Draining /\ job'[v].on = x
    <2>1. CASE queueCas[x] = 1
      <3>1. PICK v \in Workers : job[v].pc \in Draining /\ job[v].on = x
        BY <2>1 DEF LockInv
      <3>2. job'[v].pc \in Draining /\ job'[v].on = x
        BY <1>1, <3>1 DEF LocksGo
      <3>3. QED
        BY <3>2
    <2>2. QED
      BY <1>1, <2>1 DEF LocksGo
  <1>2. ASSUME inflightCas'[x] = 1 PROVE \E v \in Workers : job'[v].holds /\ job'[v].on = x
    <2>1. CASE inflightCas[x] = 1
      <3>1. PICK v \in Workers : job[v].holds /\ job[v].on = x
        BY <2>1 DEF LockInv
      <3>2. job'[v].holds /\ job'[v].on = x
        BY <1>2, <3>1 DEF LocksGo
      <3>3. QED
        BY <3>2
    <2>2. QED
      BY <1>2, <2>1 DEF LocksGo
  <1>3. QED
    BY <1>1, <1>2

\* Every step keeps each lock with the handler that took it.
LEMMA LockStep == TypeOK /\ LocalsInv /\ LockInv /\ [Next]_vars => LockInv'
  <1> SUFFICES ASSUME TypeOK, LocalsInv, LockInv, [Next]_vars
               PROVE  LockInv'
    OBVIOUS
  <1>a. queueCas \in [Conns -> {0, 1}] /\ inflightCas \in [Conns -> {0, 1}]
    BY DEF TypeOK
  <1>b. \A w \in Workers : LocalsAt(w)
    BY DEF LocalsInv
  <1>1. ASSUME NEW w \in Workers, NEW m \in Msgs, HandleLocalPublishMessage(w, m) PROVE LockInv'
    <2>1. job[w].pc = "idle" /\ UNCHANGED <<queueCas, inflightCas>>
      BY <1>1 DEF HandleLocalPublishMessage
    <2>2. \/ (wrapper = None /\ Becomes(w, "offline", wrapper, m, job[w].copy, job[w].key,
               job[w].rec, job[w].todo, job[w].items, job[w].holds))
          \/ (wrapper # None /\ Becomes(w, "handle", wrapper, m, job[w].copy, job[w].key,
               job[w].rec, job[w].todo, job[w].items, job[w].holds))
      BY <1>1, HandleLocalPublishMessageJob
    <2>3. (job[w].holds => job[w].pc \in Trying) /\ (job[w].pc \in Trying \ {"offer"} =>
            job[w].holds)
      BY <1>b DEF LocalsAt
    <2>4. LocksGo(w)
      <3>1. CASE (wrapper = None /\ Becomes(w, "offline", wrapper, m, job[w].copy, job[w].key,
              job[w].rec, job[w].todo, job[w].items, job[w].holds))
        BY <2>1, <3>1, <2>3 DEF Becomes, Moves, Rests, LocksGo, Draining, Trying
      <3>2. CASE (wrapper # None /\ Becomes(w, "handle", wrapper, m, job[w].copy, job[w].key,
              job[w].rec, job[w].todo, job[w].items, job[w].holds))
        BY <2>1, <3>2, <2>3 DEF Becomes, Moves, Rests, LocksGo, Draining, Trying
      <3>3. QED
        BY <2>2, <3>1, <3>2
    <2>5. \A v \in Workers : v # w => job'[v] = job[v]
      BY <2>2 DEF Becomes, Moves, Rests
    <2>6. QED
      BY <2>4, <2>5, LockKeep
  <1>2. ASSUME NEW w \in Workers, EnqueueOffline(w) PROVE LockInv'
    <2>1. job[w].pc = "offline" /\ UNCHANGED <<queueCas, inflightCas>>
      BY <1>2 DEF EnqueueOffline
    <2>2. \/ job' = job
          \/ Becomes(w, "relook", job[w].on, None, job[w].copy, job[w].key, job[w].rec,
               job[w].todo, job[w].items, job[w].holds)
      BY <1>2, EnqueueOfflineJob
    <2>3. (job[w].holds => job[w].pc \in Trying) /\ (job[w].pc \in Trying \ {"offer"} =>
            job[w].holds)
      BY <1>b DEF LocalsAt
    <2>4. LocksGo(w)
      <3>1. CASE job' = job
        BY <2>1, <3>1, <2>3 DEF Becomes, Moves, Rests, LocksGo, Draining, Trying
      <3>2. CASE Becomes(w, "relook", job[w].on, None, job[w].copy, job[w].key, job[w].rec,
              job[w].todo, job[w].items, job[w].holds)
        BY <2>1, <3>2, <2>3 DEF Becomes, Moves, Rests, LocksGo, Draining, Trying
      <3>3. QED
        BY <2>2, <3>1, <3>2
    <2>5. \A v \in Workers : v # w => job'[v] = job[v]
      BY <2>2 DEF Becomes, Moves, Rests
    <2>6. QED
      BY <2>4, <2>5, LockKeep
  <1>3. ASSUME NEW w \in Workers, LookupAgain(w) PROVE LockInv'
    <2>1. job[w].pc = "relook" /\ UNCHANGED <<queueCas, inflightCas>>
      BY <1>3 DEF LookupAgain
    <2>2. \/ Rests(w)
          \/ (wrapper # None /\ Becomes(w, "dqTake", wrapper, job[w].cur, job[w].copy, job[w].key,
               job[w].rec, job[w].todo, job[w].items, job[w].holds))
      BY <1>3, LookupAgainJob
    <2>3. (job[w].holds => job[w].pc \in Trying) /\ (job[w].pc \in Trying \ {"offer"} =>
            job[w].holds)
      BY <1>b DEF LocalsAt
    <2>4. LocksGo(w)
      <3>1. CASE Rests(w)
        BY <2>1, <3>1, <2>3 DEF Becomes, Moves, Rests, LocksGo, Draining, Trying
      <3>2. CASE (wrapper # None /\ Becomes(w, "dqTake", wrapper, job[w].cur, job[w].copy,
              job[w].key, job[w].rec, job[w].todo, job[w].items, job[w].holds))
        BY <2>1, <3>2, <2>3 DEF Becomes, Moves, Rests, LocksGo, Draining, Trying
      <3>3. QED
        BY <2>2, <3>1, <3>2
    <2>5. \A v \in Workers : v # w => job'[v] = job[v]
      BY <2>2 DEF Becomes, Moves, Rests
    <2>6. QED
      BY <2>4, <2>5, LockKeep
  <1>4. ASSUME NEW w \in Workers, HandleMessage(w) PROVE LockInv'
    <2>1. job[w].pc = "handle" /\ UNCHANGED <<queueCas, inflightCas>>
      BY <1>4 DEF HandleMessage
    <2>2. \/ Rests(w)
          \/ Moves(w, "offer")
          \/ Moves(w, "inChk")
      BY <1>4, HandleMessageJob
    <2>3. (job[w].holds => job[w].pc \in Trying) /\ (job[w].pc \in Trying \ {"offer"} =>
            job[w].holds)
      BY <1>b DEF LocalsAt
    <2>4. LocksGo(w)
      <3>1. CASE Rests(w)
        BY <2>1, <3>1, <2>3 DEF Becomes, Moves, Rests, LocksGo, Draining, Trying
      <3>2. CASE Moves(w, "offer")
        BY <2>1, <3>2, <2>3 DEF Becomes, Moves, Rests, LocksGo, Draining, Trying
      <3>3. CASE Moves(w, "inChk")
        BY <2>1, <3>3, <2>3 DEF Becomes, Moves, Rests, LocksGo, Draining, Trying
      <3>4. QED
        BY <2>2, <3>1, <3>2, <3>3
    <2>5. \A v \in Workers : v # w => job'[v] = job[v]
      BY <2>2 DEF Becomes, Moves, Rests
    <2>6. QED
      BY <2>4, <2>5, LockKeep
  <1>5. ASSUME NEW w \in Workers, Offer(w) PROVE LockInv'
    <2>1. job[w].pc = "offer" /\ UNCHANGED queueCas
      BY <1>5 DEF Offer, LeaveTry, ReleaseInflightCas
    <2>3. (job[w].holds => job[w].pc \in Trying) /\ (job[w].pc \in Trying \ {"offer"} =>
            job[w].holds)
      BY <1>b DEF LocalsAt
    <2>9. job[w].on \in Conns
      BY <2>1, <1>b DEF LocalsAt, Detached
    <2>2. \/ job' = job /\ UNCHANGED inflightCas
          \/ Finish(w) /\ ((job[w].holds /\ inflightCas' = [inflightCas EXCEPT ![job[w].on] = 0])
               \/ (~job[w].holds /\ UNCHANGED inflightCas))
          \/ job' = [job EXCEPT ![w] = [@ EXCEPT !.pc = "dqTake", !.cur = None, !.holds = FALSE]]
               /\ ((job[w].holds /\ inflightCas' = [inflightCas EXCEPT ![job[w].on] = 0])
               \/ (~job[w].holds /\ UNCHANGED inflightCas))
      BY <1>5 DEF Offer, LeaveTry, ReleaseInflightCas
    <2>4. CASE job' = job /\ UNCHANGED inflightCas
      <3>1. job' = job
        BY <2>4, <2>9, JobTypes DEF Places
      <3>2. LocksGo(w)
        BY <2>1, <2>4, <2>3, <2>9, <3>1, <1>a DEF Becomes, Moves, Rests, LocksGo, Draining, Trying
      <3>3. QED
        BY <3>1, <3>2, LockKeep DEF Becomes, Moves, Rests
    <2>5. CASE Finish(w)
            /\ ((job[w].holds /\ inflightCas' = [inflightCas EXCEPT ![job[w].on] = 0])
            \/ (~job[w].holds /\ UNCHANGED inflightCas))
      <3>1. Rests(w)
        BY <2>5, <2>9, JobTypes, FinishRests DEF Places
      <3>2. LocksGo(w)
        BY <2>1, <2>5, <2>3, <2>9, <3>1, <1>a DEF Becomes, Moves, Rests, LocksGo, Draining, Trying
      <3>3. QED
        BY <3>1, <3>2, LockKeep DEF Becomes, Moves, Rests
    <2>6. CASE job' = [job EXCEPT ![w] = [@ EXCEPT !.pc = "dqTake", !.cur = None,
            !.holds = FALSE]] /\ ((job[w].holds
            /\ inflightCas' = [inflightCas EXCEPT ![job[w].on] = 0]) \/ (~job[w].holds
            /\ UNCHANGED inflightCas))
      <3>1. Becomes(w, "dqTake", job[w].on, None, job[w].copy, job[w].key, job[w].rec,
              job[w].todo, job[w].items, FALSE)
        BY <2>6, <2>9, JobTypes, SetTryMessage DEF Places
      <3>2. LocksGo(w)
        BY <2>1, <2>6, <2>3, <2>9, <3>1, <1>a DEF Becomes, Moves, Rests, LocksGo, Draining, Trying
      <3>3. QED
        BY <3>1, <3>2, LockKeep DEF Becomes, Moves, Rests
    <2>7. QED
      BY <2>2, <2>4, <2>5, <2>6
  <1>5a. ASSUME NEW w \in Workers, InflightCheck(w) PROVE LockInv'
    <2>1. job[w].pc = "inChk" /\ UNCHANGED queueCas
      BY <1>5a DEF InflightCheck, TakeInflightCas
    <2>3. (job[w].holds => job[w].pc \in Trying) /\ (job[w].pc \in Trying \ {"offer"} =>
            job[w].holds)
      BY <1>b DEF LocalsAt
    <2>9. job[w].on \in Conns
      BY <2>1, <1>b DEF LocalsAt, Detached
    <2>2. \/ Rests(w) /\ UNCHANGED inflightCas
          \/ (\E p \in {"offer", "inPut"} : Becomes(w, p, job[w].on, job[w].cur, job[w].copy,
               job[w].key, job[w].rec, job[w].todo, job[w].items, TRUE))
               /\ inflightCas[job[w].on] = 0 /\ inflightCas' = [inflightCas EXCEPT ![job[w].on] = 1]
      <3>1. CASE QueueRemoved(job[w].on)
        BY <1>5a, <3>1, JobTypes, FinishRests DEF InflightCheck
      <3>2. CASE ~QueueRemoved(job[w].on)
        <4>1. job'[w].holds = TRUE
          BY <1>5a, <3>2, JobTypes DEF InflightCheck, Jobs
        <4>2. \E p \in {"offer", "inPut"} : Becomes(w, p, job[w].on, job[w].cur, job[w].copy,
                job[w].key, job[w].rec, job[w].todo, job[w].items, TRUE)
          BY <1>5a, <4>1, InflightCheckJob DEF Rests, Becomes
        <4>3. QED
          BY <1>5a, <3>2, <4>2 DEF InflightCheck, TakeInflightCas
      <3>3. QED
        BY <3>1, <3>2
    <2>4. CASE Rests(w) /\ UNCHANGED inflightCas
      <3>2. LocksGo(w)
        BY <2>1, <2>4, <2>3, <2>9, <1>a DEF Becomes, Moves, Rests, LocksGo, Draining, Trying
      <3>3. QED
        BY <2>4, <3>2, LockKeep DEF Becomes, Moves, Rests
    <2>5. CASE (\E p \in {"offer", "inPut"} : Becomes(w, p, job[w].on, job[w].cur, job[w].copy,
            job[w].key, job[w].rec, job[w].todo, job[w].items, TRUE))
            /\ inflightCas[job[w].on] = 0 /\ inflightCas' = [inflightCas EXCEPT ![job[w].on] = 1]
      <3>2. LocksGo(w)
        BY <2>1, <2>5, <2>3, <2>9, <1>a DEF Becomes, Moves, Rests, LocksGo, Draining, Trying
      <3>3. QED
        BY <2>5, <3>2, LockKeep DEF Becomes, Moves, Rests
    <2>6. QED
      BY <2>2, <2>4, <2>5
  <1>6. ASSUME NEW w \in Workers, InflightPut(w) PROVE LockInv'
    <2>1. job[w].pc = "inPut" /\ UNCHANGED queueCas
      BY <1>6 DEF InflightPut, ReleaseInflightCas
    <2>3. (job[w].holds => job[w].pc \in Trying) /\ (job[w].pc \in Trying \ {"offer"} =>
            job[w].holds)
      BY <1>b DEF LocalsAt
    <2>9. job[w].on \in Conns
      BY <2>1, <1>b DEF LocalsAt, Detached
    <2>2. \/ Moves(w, "offer") /\ UNCHANGED inflightCas
          \/ Rests(w) /\ inflightCas' = [inflightCas EXCEPT ![job[w].on] = 0]
      BY <1>6, InflightPutJob DEF InflightPut, ReleaseInflightCas
    <2>4. CASE Moves(w, "offer") /\ UNCHANGED inflightCas
      <3>2. LocksGo(w)
        BY <2>1, <2>4, <2>3, <2>9, <1>a DEF Becomes, Moves, Rests, LocksGo, Draining, Trying
      <3>3. QED
        BY <2>4, <3>2, LockKeep DEF Becomes, Moves, Rests
    <2>5. CASE Rests(w) /\ inflightCas' = [inflightCas EXCEPT ![job[w].on] = 0]
      <3>2. LocksGo(w)
        BY <2>1, <2>5, <2>3, <2>9, <1>a DEF Becomes, Moves, Rests, LocksGo, Draining, Trying
      <3>3. QED
        BY <2>5, <3>2, LockKeep DEF Becomes, Moves, Rests
    <2>6. QED
      BY <2>2, <2>4, <2>5
  <1>7. ASSUME NEW w \in Workers, DequeueTake(w) PROVE LockInv'
    <2>1. job[w].pc = "dqTake" /\ UNCHANGED inflightCas
      BY <1>7 DEF DequeueTake
    <2>3. (job[w].holds => job[w].pc \in Trying) /\ (job[w].pc \in Trying \ {"offer"} =>
            job[w].holds)
      BY <1>b DEF LocalsAt
    <2>9. job[w].on \in Conns
      BY <2>1, <1>b DEF LocalsAt, Detached
    <2>2. \/ Finish(w) /\ UNCHANGED queueCas
          \/ Goto(w, "dqChk") /\ queueCas' = [queueCas EXCEPT ![job[w].on] = 1]
      BY <1>7 DEF DequeueTake
    <2>4. CASE Finish(w) /\ UNCHANGED queueCas
      <3>1. Rests(w)
        BY <2>4, <2>9, JobTypes, FinishRests DEF Places
      <3>2. LocksGo(w)
        BY <2>1, <2>4, <2>3, <2>9, <3>1, <1>a DEF Becomes, Moves, Rests, LocksGo, Draining, Trying
      <3>3. QED
        BY <3>1, <3>2, LockKeep DEF Becomes, Moves, Rests
    <2>5. CASE Goto(w, "dqChk") /\ queueCas' = [queueCas EXCEPT ![job[w].on] = 1]
      <3>1. Moves(w, "dqChk")
        BY <2>5, <2>9, JobTypes, GotoMoves DEF Places
      <3>2. LocksGo(w)
        BY <2>1, <2>5, <2>3, <2>9, <3>1, <1>a DEF Becomes, Moves, Rests, LocksGo, Draining, Trying
      <3>3. QED
        BY <3>1, <3>2, LockKeep DEF Becomes, Moves, Rests
    <2>6. QED
      BY <2>2, <2>4, <2>5
  <1>8. ASSUME NEW w \in Workers, DequeueCheck(w) PROVE LockInv'
    <2>1. job[w].pc = "dqChk" /\ UNCHANGED <<queueCas, inflightCas>>
      BY <1>8 DEF DequeueCheck
    <2>2. \/ Moves(w, "dqEnd")
          \/ Moves(w, "dqPoll")
      BY <1>8, DequeueCheckJob
    <2>3. (job[w].holds => job[w].pc \in Trying) /\ (job[w].pc \in Trying \ {"offer"} =>
            job[w].holds)
      BY <1>b DEF LocalsAt
    <2>4. LocksGo(w)
      <3>1. CASE Moves(w, "dqEnd")
        BY <2>1, <3>1, <2>3 DEF Becomes, Moves, Rests, LocksGo, Draining, Trying
      <3>2. CASE Moves(w, "dqPoll")
        BY <2>1, <3>2, <2>3 DEF Becomes, Moves, Rests, LocksGo, Draining, Trying
      <3>3. QED
        BY <2>2, <3>1, <3>2
    <2>5. \A v \in Workers : v # w => job'[v] = job[v]
      BY <2>2 DEF Becomes, Moves, Rests
    <2>6. QED
      BY <2>4, <2>5, LockKeep
  <1>9. ASSUME NEW w \in Workers, DequeuePoll(w) PROVE LockInv'
    <2>1. job[w].pc = "dqPoll" /\ UNCHANGED queueCas
      BY <1>9 DEF DequeuePoll, TakeInflightCas
    <2>3. (job[w].holds => job[w].pc \in Trying) /\ (job[w].pc \in Trying \ {"offer"} =>
            job[w].holds)
      BY <1>b DEF LocalsAt
    <2>9. job[w].on \in Conns
      BY <2>1, <1>b DEF LocalsAt, Detached
    <2>2. \/ Goto(w, "dqEnd") /\ UNCHANGED inflightCas
          \/ ~MustStop(job[w].on)
               /\ job' = [job EXCEPT ![w] = [@ EXCEPT !.pc = "dqPut", !.cur = Head(queue),
               !.holds = TRUE]] /\ inflightCas[job[w].on] = 0
               /\ inflightCas' = [inflightCas EXCEPT ![job[w].on] = 1]
      BY <1>9 DEF DequeuePoll, TakeInflightCas
    <2>4. CASE Goto(w, "dqEnd") /\ UNCHANGED inflightCas
      <3>1. Moves(w, "dqEnd")
        BY <2>4, <2>9, JobTypes, GotoMoves DEF Places
      <3>2. LocksGo(w)
        BY <2>1, <2>4, <2>3, <2>9, <3>1, <1>a DEF Becomes, Moves, Rests, LocksGo, Draining, Trying
      <3>3. QED
        BY <3>1, <3>2, LockKeep DEF Becomes, Moves, Rests
    <2>5. CASE ~MustStop(job[w].on)
            /\ job' = [job EXCEPT ![w] = [@ EXCEPT !.pc = "dqPut", !.cur = Head(queue),
            !.holds = TRUE]] /\ inflightCas[job[w].on] = 0
            /\ inflightCas' = [inflightCas EXCEPT ![job[w].on] = 1]
      <3>1. Becomes(w, "dqPut", job[w].on, Head(queue), job[w].copy, job[w].key, job[w].rec,
              job[w].todo, job[w].items, TRUE)
        <4>1. Head(queue) \in Msgs
          BY <2>5, JobTypes DEF MustStop
        <4>2. QED
          BY <2>5, <4>1, JobTypes, SetTryMessage DEF Places
      <3>2. LocksGo(w)
        BY <2>1, <2>5, <2>3, <2>9, <3>1, <1>a DEF Becomes, Moves, Rests, LocksGo, Draining, Trying
      <3>3. QED
        BY <3>1, <3>2, LockKeep DEF Becomes, Moves, Rests
    <2>6. QED
      BY <2>2, <2>4, <2>5
  <1>10. ASSUME NEW w \in Workers, DequeuePut(w) PROVE LockInv'
    <2>1. job[w].pc = "dqPut" /\ UNCHANGED queueCas
      BY <1>10 DEF DequeuePut, ReleaseInflightCas, Put, SaveInflightTimeout, Publish
    <2>3. (job[w].holds => job[w].pc \in Trying) /\ (job[w].pc \in Trying \ {"offer"} =>
            job[w].holds)
      BY <1>b DEF LocalsAt
    <2>9. job[w].on \in Conns
      BY <2>1, <1>b DEF LocalsAt, Detached
    <2>2. \/ job' = [job EXCEPT ![w] = [@ EXCEPT !.pc = "dqChk", !.cur = None, !.holds = FALSE]]
               /\ inflightCas' = [inflightCas EXCEPT ![job[w].on] = 0]
          \/ job' = [job EXCEPT ![w] = [@ EXCEPT !.pc = "dqEnd", !.cur = None, !.holds = FALSE]]
               /\ inflightCas' = [inflightCas EXCEPT ![job[w].on] = 0]
      BY <1>10 DEF DequeuePut, ReleaseInflightCas
    <2>4. CASE job' = [job EXCEPT ![w] = [@ EXCEPT !.pc = "dqChk", !.cur = None, !.holds = FALSE]]
            /\ inflightCas' = [inflightCas EXCEPT ![job[w].on] = 0]
      <3>1. Becomes(w, "dqChk", job[w].on, None, job[w].copy, job[w].key, job[w].rec, job[w].todo,
              job[w].items, FALSE)
        BY <2>4, <2>9, JobTypes, SetTryMessage DEF Places
      <3>2. LocksGo(w)
        BY <2>1, <2>4, <2>3, <2>9, <3>1, <1>a DEF Becomes, Moves, Rests, LocksGo, Draining, Trying
      <3>3. QED
        BY <3>1, <3>2, LockKeep DEF Becomes, Moves, Rests
    <2>5. CASE job' = [job EXCEPT ![w] = [@ EXCEPT !.pc = "dqEnd", !.cur = None, !.holds = FALSE]]
            /\ inflightCas' = [inflightCas EXCEPT ![job[w].on] = 0]
      <3>1. Becomes(w, "dqEnd", job[w].on, None, job[w].copy, job[w].key, job[w].rec, job[w].todo,
              job[w].items, FALSE)
        BY <2>5, <2>9, JobTypes, SetTryMessage DEF Places
      <3>2. LocksGo(w)
        BY <2>1, <2>5, <2>3, <2>9, <3>1, <1>a DEF Becomes, Moves, Rests, LocksGo, Draining, Trying
      <3>3. QED
        BY <3>1, <3>2, LockKeep DEF Becomes, Moves, Rests
    <2>6. QED
      BY <2>2, <2>4, <2>5
  <1>11. ASSUME NEW w \in Workers, DequeueEnd(w) PROVE LockInv'
    <2>1. job[w].pc = "dqEnd" /\ UNCHANGED inflightCas
      BY <1>11 DEF DequeueEnd
    <2>3. (job[w].holds => job[w].pc \in Trying) /\ (job[w].pc \in Trying \ {"offer"} =>
            job[w].holds)
      BY <1>b DEF LocalsAt
    <2>9. job[w].on \in Conns
      BY <2>1, <1>b DEF LocalsAt, Detached
    <2>2. Finish(w) /\ queueCas' = [queueCas EXCEPT ![job[w].on] = 0]
      BY <1>11 DEF DequeueEnd
    <2>4. CASE Finish(w) /\ queueCas' = [queueCas EXCEPT ![job[w].on] = 0]
      <3>1. Rests(w)
        BY <2>4, <2>9, JobTypes, FinishRests DEF Places
      <3>2. LocksGo(w)
        BY <2>1, <2>4, <2>3, <2>9, <3>1, <1>a DEF Becomes, Moves, Rests, LocksGo, Draining, Trying
      <3>3. QED
        BY <3>1, <3>2, LockKeep DEF Becomes, Moves, Rests
    <2>5. QED
      BY <2>2, <2>4
  <1>12. ASSUME NEW w \in Workers, NEW p \in wire, ReceivePuback(w, p) \/ ReceivePubcomp(w, p)
                PROVE LockInv'
    <2>1. job[w].pc = "idle" /\ UNCHANGED <<queueCas, inflightCas>>
      BY <1>12 DEF ReceivePuback, ReceivePubcomp, RemoveInflight
    <2>8. RemoveInflight(w, p)
      BY <1>12 DEF ReceivePuback, ReceivePubcomp
    <2>2. \/ job' = job
          \/ (wrapper # None /\ Becomes(w, "dqTake", wrapper, job[w].cur, job[w].copy, job[w].key,
               job[w].rec, job[w].todo, job[w].items, job[w].holds))
      BY <2>8, RemoveInflightJob
    <2>3. (job[w].holds => job[w].pc \in Trying) /\ (job[w].pc \in Trying \ {"offer"} =>
            job[w].holds)
      BY <1>b DEF LocalsAt
    <2>4. LocksGo(w)
      <3>1. CASE job' = job
        BY <2>1, <3>1, <2>3 DEF Becomes, Moves, Rests, LocksGo, Draining, Trying
      <3>2. CASE (wrapper # None /\ Becomes(w, "dqTake", wrapper, job[w].cur, job[w].copy,
              job[w].key, job[w].rec, job[w].todo, job[w].items, job[w].holds))
        BY <2>1, <3>2, <2>3 DEF Becomes, Moves, Rests, LocksGo, Draining, Trying
      <3>3. QED
        BY <2>2, <3>1, <3>2
    <2>5. \A v \in Workers : v # w => job'[v] = job[v]
      BY <2>2 DEF Becomes, Moves, Rests
    <2>6. QED
      BY <2>4, <2>5, LockKeep
  <1>13. ASSUME NEW w \in Workers, NEW p \in wire, ReceivePubrec(w, p) PROVE LockInv'
    <2>1. job[w].pc = "idle" /\ UNCHANGED <<queueCas, inflightCas>>
      BY <1>13 DEF ReceivePubrec
    <2>2. (\E e \in Entries \cup {None} : (e = None \/ e = inflights[p.id])
               /\ Becomes(w, "recPut", job[w].on, job[w].cur, e, job[w].key, p, job[w].todo,
                    job[w].items, job[w].holds))
      BY <1>13, ReceivePubrecJob
    <2>3. (job[w].holds => job[w].pc \in Trying) /\ (job[w].pc \in Trying \ {"offer"} =>
            job[w].holds)
      BY <1>b DEF LocalsAt
    <2>4. LocksGo(w)
      BY <2>1, <2>2, <2>3 DEF Becomes, Moves, Rests, LocksGo, Draining, Trying
    <2>5. \A v \in Workers : v # w => job'[v] = job[v]
      BY <2>2 DEF Becomes, Moves, Rests
    <2>6. QED
      BY <2>4, <2>5, LockKeep
  <1>14. ASSUME NEW w \in Workers, PutPubrec(w) PROVE LockInv'
    <2>1. job[w].pc = "recPut" /\ UNCHANGED <<queueCas, inflightCas>>
      BY <1>14 DEF PutPubrec, Put, SendPubrel
    <2>2. Rests(w)
      BY <1>14, PutPubrecJob
    <2>3. (job[w].holds => job[w].pc \in Trying) /\ (job[w].pc \in Trying \ {"offer"} =>
            job[w].holds)
      BY <1>b DEF LocalsAt
    <2>4. LocksGo(w)
      BY <2>1, <2>2, <2>3 DEF Becomes, Moves, Rests, LocksGo, Draining, Trying
    <2>5. \A v \in Workers : v # w => job'[v] = job[v]
      BY <2>2 DEF Becomes, Moves, Rests
    <2>6. QED
      BY <2>4, <2>5, LockKeep
  <1>15. ASSUME NEW w \in Workers, NEW x \in Conns, NEW k \in Keys, Retry(w, x, k) PROVE LockInv'
    <2>1. job[w].pc = "idle" /\ UNCHANGED <<queueCas, inflightCas>>
      BY <1>15 DEF Retry
    <2>2. \/ job' = job
          \/ Becomes(w, "dqTake", x, job[w].cur, job[w].copy, job[w].key, job[w].rec, job[w].todo,
               job[w].items, job[w].holds)
          \/ (\E p \in {"rtRel", "rtDel"} : inflights[k] \in Entries
               /\ ~RetriesExhausted(inflights[k])
               /\ Becomes(w, p, x, job[w].cur, inflights[k], k, job[w].rec, job[w].todo,
                    job[w].items, job[w].holds))
      BY <1>15, RetryJob
    <2>3. (job[w].holds => job[w].pc \in Trying) /\ (job[w].pc \in Trying \ {"offer"} =>
            job[w].holds)
      BY <1>b DEF LocalsAt
    <2>4. LocksGo(w)
      <3>1. CASE job' = job
        BY <2>1, <3>1, <2>3 DEF Becomes, Moves, Rests, LocksGo, Draining, Trying
      <3>2. CASE Becomes(w, "dqTake", x, job[w].cur, job[w].copy, job[w].key, job[w].rec,
              job[w].todo, job[w].items, job[w].holds)
        BY <2>1, <3>2, <2>3 DEF Becomes, Moves, Rests, LocksGo, Draining, Trying
      <3>3. CASE (\E p \in {"rtRel", "rtDel"} : inflights[k] \in Entries
              /\ ~RetriesExhausted(inflights[k])
                 /\ Becomes(w, p, x, job[w].cur, inflights[k], k, job[w].rec, job[w].todo,
                      job[w].items, job[w].holds))
        BY <2>1, <3>3, <2>3 DEF Becomes, Moves, Rests, LocksGo, Draining, Trying
      <3>4. QED
        BY <2>2, <3>1, <3>2, <3>3
    <2>5. \A v \in Workers : v # w => job'[v] = job[v]
      BY <2>2 DEF Becomes, Moves, Rests
    <2>6. QED
      BY <2>4, <2>5, LockKeep
  <1>16. ASSUME NEW w \in Workers, RetryRelease(w) PROVE LockInv'
    <2>1. job[w].pc = "rtRel" /\ UNCHANGED <<queueCas, inflightCas>>
      BY <1>16 DEF RetryRelease, Put, SaveInflightTimeout, SendPubrel
    <2>2. Rests(w)
      BY <1>16, RetryReleaseJob
    <2>3. (job[w].holds => job[w].pc \in Trying) /\ (job[w].pc \in Trying \ {"offer"} =>
            job[w].holds)
      BY <1>b DEF LocalsAt
    <2>4. LocksGo(w)
      BY <2>1, <2>2, <2>3 DEF Becomes, Moves, Rests, LocksGo, Draining, Trying
    <2>5. \A v \in Workers : v # w => job'[v] = job[v]
      BY <2>2 DEF Becomes, Moves, Rests
    <2>6. QED
      BY <2>4, <2>5, LockKeep
  <1>17. ASSUME NEW w \in Workers, RetryDelete(w) PROVE LockInv'
    <2>1. job[w].pc = "rtDel" /\ UNCHANGED queueCas
      BY <1>17 DEF RetryDelete, TakeInflightCas, Put, SaveInflightTimeout
    <2>9. job[w].on \in Conns /\ job[w].copy \in Entries
      BY <2>1 DEF LocalsInv, LocalsAt, Detached, Retrying
    <2>3. (job[w].holds => job[w].pc \in Trying) /\ (job[w].pc \in Trying \ {"offer"} =>
            job[w].holds)
      BY <1>b DEF LocalsAt
    <2>2. \/ Rests(w) /\ UNCHANGED inflightCas
          \/ Refiles(w) /\ inflightCas[job[w].on] = 0
               /\ inflightCas' = [inflightCas EXCEPT ![job[w].on] = 1]
      <3>1. (~Connected(job[w].on) /\ Rests(w)) \/ (Connected(job[w].on) /\ Refiles(w))
        BY <1>17, <2>9, RetryDeleteJob DEF Refiles
      <3>2. QED
        BY <1>17, <3>1 DEF RetryDelete, TakeInflightCas
    <2>4. CASE Rests(w) /\ UNCHANGED inflightCas
      <3>2. LocksGo(w)
        BY <2>1, <2>4, <2>3, <2>9, <1>a DEF Becomes, Moves, Rests, LocksGo, Draining, Trying
      <3>3. QED
        BY <2>4, <3>2, LockKeep DEF Becomes, Moves, Rests
    <2>5. CASE Refiles(w) /\ inflightCas[job[w].on] = 0
            /\ inflightCas' = [inflightCas EXCEPT ![job[w].on] = 1]
      <3>2. LocksGo(w)
        BY <2>1, <2>5, <2>3, <2>9, <1>a DEF Becomes, Refiles, LocksGo, Draining, Trying
      <3>3. QED
        BY <2>5, <3>2, LockKeep DEF Becomes, Refiles
    <2>6. QED
      BY <2>2, <2>4, <2>5
  <1>18. ASSUME NEW w \in Workers, RetryPut(w) PROVE LockInv'
    <2>1. job[w].pc = "rtPut" /\ UNCHANGED queueCas
      BY <1>18 DEF RetryPut, ReleaseInflightCas, Put, SaveInflightTimeout, Publish
    <2>3. (job[w].holds => job[w].pc \in Trying) /\ (job[w].pc \in Trying \ {"offer"} =>
            job[w].holds)
      BY <1>b DEF LocalsAt
    <2>9. job[w].on \in Conns
      BY <2>1, <1>b DEF LocalsAt, Detached
    <2>2. Finish(w) /\ inflightCas' = [inflightCas EXCEPT ![job[w].on] = 0]
      BY <1>18 DEF RetryPut, ReleaseInflightCas
    <2>4. CASE Finish(w) /\ inflightCas' = [inflightCas EXCEPT ![job[w].on] = 0]
      <3>1. Rests(w)
        BY <2>4, <2>9, JobTypes, FinishRests DEF Places
      <3>2. LocksGo(w)
        BY <2>1, <2>4, <2>3, <2>9, <3>1, <1>a DEF Becomes, Moves, Rests, LocksGo, Draining, Trying
      <3>3. QED
        BY <3>1, <3>2, LockKeep DEF Becomes, Moves, Rests
    <2>5. QED
      BY <2>2, <2>4
  <1>19. ASSUME NEW w \in Workers, NEW c \in Conns, OpenSession(w, c) PROVE LockInv'
    <2>1. job[w].pc = "idle" /\ UNCHANGED <<queueCas, inflightCas>>
      BY <1>19 DEF OpenSession
    <2>2. (\E x \in Conns : (x = c \/ x = wrapper) /\ Becomes(w, "opEndpoint", x, job[w].cur,
            job[w].copy, job[w].key, job[w].rec, job[w].todo, job[w].items, job[w].holds))
      BY <1>19, OpenSessionJob
    <2>3. (job[w].holds => job[w].pc \in Trying) /\ (job[w].pc \in Trying \ {"offer"} =>
            job[w].holds)
      BY <1>b DEF LocalsAt
    <2>4. LocksGo(w)
      BY <2>1, <2>2, <2>3 DEF Becomes, Moves, Rests, LocksGo, Draining, Trying
    <2>5. \A v \in Workers : v # w => job'[v] = job[v]
      BY <2>2 DEF Becomes, Moves, Rests
    <2>6. QED
      BY <2>4, <2>5, LockKeep
  <1>20. ASSUME NEW w \in Workers, OpenEndpoint(w) PROVE LockInv'
    <2>1. job[w].pc = "opEndpoint" /\ UNCHANGED <<queueCas, inflightCas>>
      BY <1>20 DEF OpenEndpoint
    <2>2. \/ Becomes(w, "opRetry", job[w].on, job[w].cur, job[w].copy, job[w].key, job[w].rec,
               InflightKeys, job[w].items, job[w].holds)
          \/ Becomes(w, "opCreate", job[w].on, job[w].cur, job[w].copy, job[w].key, job[w].rec,
               job[w].todo, queue, job[w].holds)
          \/ Becomes(w, "opClose", job[w].on, job[w].cur, job[w].copy, job[w].key, job[w].rec,
               job[w].todo, queue, job[w].holds)
      BY <1>20, OpenEndpointJob
    <2>3. (job[w].holds => job[w].pc \in Trying) /\ (job[w].pc \in Trying \ {"offer"} =>
            job[w].holds)
      BY <1>b DEF LocalsAt
    <2>4. LocksGo(w)
      <3>1. CASE Becomes(w, "opRetry", job[w].on, job[w].cur, job[w].copy, job[w].key, job[w].rec,
              InflightKeys, job[w].items, job[w].holds)
        BY <2>1, <3>1, <2>3 DEF Becomes, Moves, Rests, LocksGo, Draining, Trying
      <3>2. CASE Becomes(w, "opCreate", job[w].on, job[w].cur, job[w].copy, job[w].key,
              job[w].rec, job[w].todo, queue, job[w].holds)
        BY <2>1, <3>2, <2>3 DEF Becomes, Moves, Rests, LocksGo, Draining, Trying
      <3>3. CASE Becomes(w, "opClose", job[w].on, job[w].cur, job[w].copy, job[w].key, job[w].rec,
              job[w].todo, queue, job[w].holds)
        BY <2>1, <3>3, <2>3 DEF Becomes, Moves, Rests, LocksGo, Draining, Trying
      <3>4. QED
        BY <2>2, <3>1, <3>2, <3>3
    <2>5. \A v \in Workers : v # w => job'[v] = job[v]
      BY <2>2 DEF Becomes, Moves, Rests
    <2>6. QED
      BY <2>4, <2>5, LockKeep
  <1>21. ASSUME NEW w \in Workers, OpenCloseQueue(w) PROVE LockInv'
    <2>1. job[w].pc = "opClose" /\ UNCHANGED <<queueCas, inflightCas>>
      BY <1>21 DEF OpenCloseQueue
    <2>2. Moves(w, "opCreate")
      BY <1>21, OpenCloseQueueJob
    <2>3. (job[w].holds => job[w].pc \in Trying) /\ (job[w].pc \in Trying \ {"offer"} =>
            job[w].holds)
      BY <1>b DEF LocalsAt
    <2>4. LocksGo(w)
      BY <2>1, <2>2, <2>3 DEF Becomes, Moves, Rests, LocksGo, Draining, Trying
    <2>5. \A v \in Workers : v # w => job'[v] = job[v]
      BY <2>2 DEF Becomes, Moves, Rests
    <2>6. QED
      BY <2>4, <2>5, LockKeep
  <1>22. ASSUME NEW w \in Workers, OpenCreateQueue(w) PROVE LockInv'
    <2>1. job[w].pc = "opCreate" /\ UNCHANGED <<queueCas, inflightCas>>
      BY <1>22 DEF OpenCreateQueue
    <2>2. Moves(w, "opAdd")
      BY <1>22, OpenCreateQueueJob
    <2>3. (job[w].holds => job[w].pc \in Trying) /\ (job[w].pc \in Trying \ {"offer"} =>
            job[w].holds)
      BY <1>b DEF LocalsAt
    <2>4. LocksGo(w)
      BY <2>1, <2>2, <2>3 DEF Becomes, Moves, Rests, LocksGo, Draining, Trying
    <2>5. \A v \in Workers : v # w => job'[v] = job[v]
      BY <2>2 DEF Becomes, Moves, Rests
    <2>6. QED
      BY <2>4, <2>5, LockKeep
  <1>23. ASSUME NEW w \in Workers, OpenAddItems(w) PROVE LockInv'
    <2>1. job[w].pc = "opAdd" /\ UNCHANGED <<queueCas, inflightCas>>
      BY <1>23 DEF OpenAddItems
    <2>2. Becomes(w, "opRetry", job[w].on, job[w].cur, job[w].copy, job[w].key, job[w].rec,
            InflightKeys, <<>>, job[w].holds)
      BY <1>23, OpenAddItemsJob
    <2>3. (job[w].holds => job[w].pc \in Trying) /\ (job[w].pc \in Trying \ {"offer"} =>
            job[w].holds)
      BY <1>b DEF LocalsAt
    <2>4. LocksGo(w)
      BY <2>1, <2>2, <2>3 DEF Becomes, Moves, Rests, LocksGo, Draining, Trying
    <2>5. \A v \in Workers : v # w => job'[v] = job[v]
      BY <2>2 DEF Becomes, Moves, Rests
    <2>6. QED
      BY <2>4, <2>5, LockKeep
  <1>24. ASSUME NEW w \in Workers, OpenRetry(w) PROVE LockInv'
    <2>1. job[w].pc = "opRetry" /\ UNCHANGED <<queueCas, inflightCas>>
      BY <1>24 DEF OpenRetry
    <2>2. PICK k \in job[w].todo : Goto(w, "opAccept") \/ job' = [job EXCEPT ![w].todo = @ \ {k}]
      BY <1>24 DEF OpenRetry
    <2>3. Moves(w, "opAccept") \/ Becomes(w, job[w].pc, job[w].on, job[w].cur, job[w].copy,
            job[w].key, job[w].rec, job[w].todo \ {k}, job[w].items, job[w].holds)
      BY <2>2, JobTypes, JobFields, GotoMoves, OpenRetryJob DEF Places, Opening
    <2>4. (job[w].holds => job[w].pc \in Trying) /\ (job[w].pc \in Trying \ {"offer"} =>
            job[w].holds)
      BY <1>b DEF LocalsAt
    <2>5. LocksGo(w)
      BY <2>1, <2>3, <2>4 DEF Becomes, Moves, LocksGo, Draining, Trying
    <2>6. \A v \in Workers : v # w => job'[v] = job[v]
      BY <2>3 DEF Becomes, Moves
    <2>7. QED
      BY <2>5, <2>6, LockKeep
  <1>25. ASSUME NEW w \in Workers, OpenPutWrapper(w) PROVE LockInv'
    <2>1. job[w].pc = "opRetry" /\ UNCHANGED <<queueCas, inflightCas>>
      BY <1>25 DEF OpenPutWrapper
    <2>2. Moves(w, "opAccept")
      BY <1>25, OpenPutWrapperJob
    <2>3. (job[w].holds => job[w].pc \in Trying) /\ (job[w].pc \in Trying \ {"offer"} =>
            job[w].holds)
      BY <1>b DEF LocalsAt
    <2>4. LocksGo(w)
      BY <2>1, <2>2, <2>3 DEF Becomes, Moves, Rests, LocksGo, Draining, Trying
    <2>5. \A v \in Workers : v # w => job'[v] = job[v]
      BY <2>2 DEF Becomes, Moves, Rests
    <2>6. QED
      BY <2>4, <2>5, LockKeep
  <1>26. ASSUME NEW w \in Workers, Accept(w) PROVE LockInv'
    <2>1. job[w].pc = "opAccept" /\ UNCHANGED <<queueCas, inflightCas>>
      BY <1>26 DEF Accept
    <2>2. Rests(w)
      BY <1>26, AcceptJob
    <2>3. (job[w].holds => job[w].pc \in Trying) /\ (job[w].pc \in Trying \ {"offer"} =>
            job[w].holds)
      BY <1>b DEF LocalsAt
    <2>4. LocksGo(w)
      BY <2>1, <2>2, <2>3 DEF Becomes, Moves, Rests, LocksGo, Draining, Trying
    <2>5. \A v \in Workers : v # w => job'[v] = job[v]
      BY <2>2 DEF Becomes, Moves, Rests
    <2>6. QED
      BY <2>4, <2>5, LockKeep
  <1>27. ASSUME NEW w \in Workers, NEW c \in Conns, CloseSession(w, c) PROVE LockInv'
    BY <1>27 DEF CloseSession, LockInv
  <1>28. ASSUME NEW x \in Conns, NEW k \in Keys, Expire(x, k) PROVE LockInv'
    BY <1>28 DEF Expire, LockInv
  <1>29. ASSUME NEW c \in Conns, Disconnect(c) PROVE LockInv'
    BY <1>29 DEF Disconnect, LockInv
  <1>30. CASE Crash
    <2>1. \A w \in Workers : job'[w].holds = FALSE
      BY <1>30 DEF Crash, Idle
    <2>2. QED
      BY <1>30, <2>1 DEF Crash, LockInv
  <1>31. CASE UNCHANGED vars
    BY <1>31 DEF vars, LockInv
  <1>32. QED
    BY <1>1, <1>2, <1>3, <1>4, <1>5, <1>5a, <1>6, <1>7, <1>8, <1>9, <1>10, <1>11, <1>12, <1>13,
      <1>14,
       <1>15, <1>16, <1>17, <1>18, <1>19, <1>20, <1>21, <1>22, <1>23, <1>24, <1>25, <1>26,
       <1>27, <1>28, <1>29, <1>30, <1>31 DEF Next, WorkerStep, ReceiveAnswer, Quiet

-----------------------------------------------------------------------------
(* What a step makes of the inflight entries                                *)

\* Entries are made in four ways.
LEMMA EntryTypes ==
    /\ \A m \in Msgs, c \in 0..MaxConns : Fresh(m, c) \in Entries /\ Fresh(m, c).retry = 0
    /\ \A e \in Entries : e.retry < MaxRetries + MaxConns - 1 =>
         Retried(e) \in Entries /\ Retried(e).retry = e.retry + 1
    /\ \A e \in Entries, c \in 0..MaxConns :
         [e EXCEPT !.by = c] \in Entries /\ [e EXCEPT !.by = c].retry = e.retry
    /\ \A e \in Entries :
         [e EXCEPT !.status = "PUBREC"] \in Entries
           /\ [e EXCEPT !.status = "PUBREC"].retry = e.retry
  <1>1. \A e \in Entries : e.retry \in 0..MaxRetries + MaxConns - 1
    BY DEF Entries
  <1>2. \A e \in Entries : e.retry < MaxRetries + MaxConns - 1 =>
          e.retry + 1 \in 0..MaxRetries + MaxConns - 1
    BY <1>1
  <1>3. 0 \in 0..MaxRetries + MaxConns - 1
    OBVIOUS
  <1>4. \A m \in Msgs, c \in 0..MaxConns : Fresh(m, c) \in Entries /\ Fresh(m, c).retry = 0
    BY <1>3 DEF Fresh, Entries
  <1>5. \A e \in Entries : e.retry < MaxRetries + MaxConns - 1 =>
          Retried(e) \in Entries /\ Retried(e).retry = e.retry + 1
    BY <1>2 DEF Retried, Entries
  <1>6. \A e \in Entries, c \in 0..MaxConns :
          [e EXCEPT !.by = c] \in Entries /\ [e EXCEPT !.by = c].retry = e.retry
    BY DEF Entries
  <1>7. \A e \in Entries :
          [e EXCEPT !.status = "PUBREC"] \in Entries
            /\ [e EXCEPT !.status = "PUBREC"].retry = e.retry
    BY DEF Entries
  <1>8. QED
    BY <1>4, <1>5, <1>6, <1>7

\* What a step makes of the entry under k: nothing; it removes it; it stores one
\* within the configured retries; it stores the copy that receivePubrec has read;
\* open() retries it.
EntryGo(k) ==
    \/ inflights'[k] = inflights[k]
    \/ inflights'[k] = None
    \/ inflights'[k].retry \in 0..MaxRetries
    \/ \E w \in Workers : /\ job[w].pc = "recPut" /\ job[w].rec.id = k /\ job[w].copy # None
                          /\ inflights'[k].retry = job[w].copy.retry
    \/ \E w \in Workers : /\ job[w].pc = "opRetry" /\ k \in job[w].todo
                          /\ job'[w].pc = "opRetry" /\ k \notin job'[w].todo
                          /\ inflights[k] # None /\ inflights'[k].retry = inflights[k].retry + 1

EntriesGo ==
    /\ inflights' \in [Keys -> Entries \cup {None}]
    /\ \A k \in Keys : EntryGo(k)

\* A put changes the entry of its key alone.
LEMMA PutGo ==
    ASSUME TypeOK, NEW k \in Keys, NEW e \in Entries, Put(k, e)
    PROVE  /\ inflights' \in [Keys -> Entries \cup {None}]
           /\ \A i \in Keys : inflights'[i] = inflights[i] \/ (i = k /\ inflights'[i] = e)
  BY DEF TypeOK, Put

\* A put of an entry that may still be retried bounds the retries.
LEMMA PutLow ==
    ASSUME TypeOK, NEW k \in Keys, NEW e \in Entries, Put(k, e), e.retry \in 0..MaxRetries
    PROVE  EntriesGo
  BY PutGo DEF EntriesGo, EntryGo

\* So does a removal.
LEMMA RemoveGo ==
    ASSUME TypeOK, NEW k \in Keys, inflights' = [inflights EXCEPT ![k] = None]
    PROVE  EntriesGo
  BY DEF TypeOK, EntriesGo, EntryGo

\* So does a step that leaves the inflight messages alone.
LEMMA SameGo == TypeOK /\ UNCHANGED inflights => EntriesGo
  BY DEF TypeOK, EntriesGo, EntryGo

\* Every step changes the entries the way EntriesGo allows.
LEMMA EntryStep == TypeOK /\ LocalsInv /\ OpenInv /\ RetryInv /\ [Next]_vars => EntriesGo
  <1> SUFFICES ASSUME TypeOK, LocalsInv, OpenInv, RetryInv, [Next]_vars
               PROVE  EntriesGo
    OBVIOUS
  <1>a. /\ job \in [Workers -> Jobs] /\ wire \subseteq Packets
        /\ inflights \in [Keys -> Entries \cup {None}]
    BY DEF TypeOK
  <1>b. \A w \in Workers : LocalsAt(w)
    BY DEF LocalsInv
  <1>1. ASSUME NEW w \in Workers, NEW m \in Msgs, HandleLocalPublishMessage(w, m) PROVE EntriesGo
    BY <1>1, SameGo DEF HandleLocalPublishMessage
  <1>2. ASSUME NEW w \in Workers, EnqueueOffline(w) PROVE EntriesGo
    BY <1>2, SameGo DEF EnqueueOffline
  <1>3. ASSUME NEW w \in Workers, LookupAgain(w) PROVE EntriesGo
    BY <1>3, SameGo DEF LookupAgain
  <1>4. ASSUME NEW w \in Workers, HandleMessage(w) PROVE EntriesGo
    BY <1>4, SameGo DEF HandleMessage
  <1>5. ASSUME NEW w \in Workers, Offer(w) PROVE EntriesGo
    BY <1>5, SameGo DEF Offer
  <1>5a. ASSUME NEW w \in Workers, InflightCheck(w) PROVE EntriesGo
    BY <1>5a, SameGo DEF InflightCheck
  <1>6. ASSUME NEW w \in Workers, InflightPut(w) PROVE EntriesGo
    <2>1. job[w].on \in Conns /\ job[w].cur \in Msgs
      BY <1>6, <1>b DEF InflightPut, LocalsAt, Detached, Carrying
    <2> DEFINE id == NextMessageId(job[w].on)
               e == Fresh(job[w].cur, endpoint[job[w].on])
    <2>2. UNCHANGED inflights \/ (id # NoId /\ Put(id, e))
      BY <1>6 DEF InflightPut
    <2>3. CASE id # NoId /\ Put(id, e)
      <3>1. id \in Keys /\ endpoint[job[w].on] \in 0..MaxConns
        BY <2>1, <2>3, NextIdType DEF Conns
      <3>2. e \in Entries /\ e.retry \in 0..MaxRetries
        BY <2>1, <3>1, EntryTypes
      <3> HIDE DEF id, e
      <3>3. QED
        BY <2>3, <3>1, <3>2, PutLow
    <2>4. QED
      BY <2>2, <2>3, SameGo
  <1>7. ASSUME NEW w \in Workers, DequeueTake(w) PROVE EntriesGo
    BY <1>7, SameGo DEF DequeueTake
  <1>8. ASSUME NEW w \in Workers, DequeueCheck(w) PROVE EntriesGo
    BY <1>8, SameGo DEF DequeueCheck
  <1>9. ASSUME NEW w \in Workers, DequeuePoll(w) PROVE EntriesGo
    BY <1>9, SameGo DEF DequeuePoll
  <1>10. ASSUME NEW w \in Workers, DequeuePut(w) PROVE EntriesGo
    <2>1. job[w].on \in Conns /\ job[w].cur \in Msgs
      BY <1>10, <1>b DEF DequeuePut, LocalsAt, Detached, Carrying
    <2> DEFINE id == NextMessageId(job[w].on)
               c == IF id = NoId THEN 0 ELSE endpoint[job[w].on]
               e == Fresh(job[w].cur, c)
    <2>2. Put(id, e)
      BY <1>10 DEF DequeuePut
    <2>3. id \in Keys /\ c \in 0..MaxConns
      BY <2>1, NextIdType DEF Conns
    <2>4. e \in Entries /\ e.retry \in 0..MaxRetries
      BY <2>1, <2>3, EntryTypes
    <2> HIDE DEF id, e
    <2>5. QED
      BY <2>2, <2>3, <2>4, PutLow
  <1>11. ASSUME NEW w \in Workers, DequeueEnd(w) PROVE EntriesGo
    BY <1>11, SameGo DEF DequeueEnd
  <1>12. ASSUME NEW w \in Workers, NEW p \in wire, ReceivePuback(w, p) \/ ReceivePubcomp(w, p)
                PROVE EntriesGo
    <2>1. p.id \in Keys
      BY <1>a DEF Packets, Keys
    <2>2. UNCHANGED inflights \/ inflights' = [inflights EXCEPT ![p.id] = None]
      BY <1>12 DEF ReceivePuback, ReceivePubcomp, RemoveInflight
    <2>3. QED
      BY <2>1, <2>2, SameGo, RemoveGo
  <1>13. ASSUME NEW w \in Workers, NEW p \in wire, ReceivePubrec(w, p) PROVE EntriesGo
    BY <1>13, SameGo DEF ReceivePubrec
  <1>14. ASSUME NEW w \in Workers, PutPubrec(w) PROVE EntriesGo
    <2>1. job[w].pc = "recPut" /\ job[w].rec \in Packets
      BY <1>14, <1>b DEF PutPubrec, LocalsAt
    <2>2. job[w].rec.id \in Keys /\ job[w].copy \in Entries \cup {None}
      BY <2>1, <1>a, JobFields DEF Packets, Keys
    <2> DEFINE e == [job[w].copy EXCEPT !.status = "PUBREC"]
    <2>3. UNCHANGED inflights \/ (job[w].copy # None /\ Put(job[w].rec.id, e))
      BY <1>14 DEF PutPubrec
    <2>4. CASE job[w].copy # None /\ Put(job[w].rec.id, e)
      <3>1. e \in Entries /\ e.retry = job[w].copy.retry
        BY <2>2, <2>4, EntryTypes
      <3> HIDE DEF e
      <3>2. QED
        BY <2>1, <2>2, <2>4, <3>1, PutGo DEF EntriesGo, EntryGo
    <2>5. QED
      BY <2>3, <2>4, SameGo
  <1>15. ASSUME NEW w \in Workers, NEW x \in Conns, NEW k \in Keys, Retry(w, x, k) PROVE EntriesGo
    <2>1. UNCHANGED inflights \/ inflights' = [inflights EXCEPT ![k] = None]
      BY <1>15 DEF Retry
    <2>2. QED
      BY <1>15, <2>1, SameGo, RemoveGo
  <1>16. ASSUME NEW w \in Workers, RetryRelease(w) PROVE EntriesGo
    <2>1. job[w].copy \in Entries /\ job[w].copy.retry < MaxRetries
      BY <1>16, <1>b DEF RetryRelease, LocalsAt, Retrying
    <2>2. job[w].key \in Keys /\ job[w].copy.retry \in Nat
      BY <2>1, <1>a, JobFields DEF Entries
    <2>3. Retried(job[w].copy) \in Entries /\ Retried(job[w].copy).retry \in 0..MaxRetries
      <3>1. job[w].copy.retry < MaxRetries + MaxConns - 1
        BY <2>1, <2>2
      <3>2. Retried(job[w].copy) \in Entries /\ Retried(job[w].copy).retry = job[w].copy.retry + 1
        BY <2>1, <3>1, EntryTypes
      <3>3. QED
        BY <2>1, <2>2, <3>2
    <2>4. Put(job[w].key, Retried(job[w].copy))
      BY <1>16 DEF RetryRelease
    <2>5. QED
      BY <2>2, <2>3, <2>4, PutLow
  <1>17. ASSUME NEW w \in Workers, RetryDelete(w) PROVE EntriesGo
    <2>1. job[w].copy \in Entries /\ job[w].copy.retry < MaxRetries
      BY <1>17, <1>b DEF RetryDelete, LocalsAt, Retrying
    <2>2. job[w].key \in Keys /\ job[w].copy.retry \in Nat
      BY <2>1, <1>a, JobFields DEF Entries
    <2>3. Retried(job[w].copy) \in Entries /\ Retried(job[w].copy).retry \in 0..MaxRetries
      <3>1. job[w].copy.retry < MaxRetries + MaxConns - 1
        BY <2>1, <2>2
      <3>2. Retried(job[w].copy) \in Entries /\ Retried(job[w].copy).retry = job[w].copy.retry + 1
        BY <2>1, <3>1, EntryTypes
      <3>3. QED
        BY <2>1, <2>2, <3>2
    <2>4. inflights' = [inflights EXCEPT ![job[w].key] = None]
            \/ Put(job[w].key, Retried(job[w].copy))
      BY <1>17 DEF RetryDelete
    <2>5. QED
      BY <2>2, <2>3, <2>4, RemoveGo, PutLow
  <1>18. ASSUME NEW w \in Workers, RetryPut(w) PROVE EntriesGo
    <2>1. job[w].copy \in Entries /\ job[w].copy.retry < MaxRetries /\ endpoint[job[w].on] \in Conns
      BY <1>18, <1>b DEF RetryPut, LocalsAt, Retrying
    <2>2. job[w].key \in Keys /\ job[w].copy.retry \in Nat
      BY <2>1, <1>a, JobFields DEF Entries
    <2>3. Retried(job[w].copy) \in Entries /\ Retried(job[w].copy).retry \in 0..MaxRetries
      <3>1. job[w].copy.retry < MaxRetries + MaxConns - 1
        BY <2>1, <2>2
      <3>2. Retried(job[w].copy) \in Entries /\ Retried(job[w].copy).retry = job[w].copy.retry + 1
        BY <2>1, <3>1, EntryTypes
      <3>3. QED
        BY <2>1, <2>2, <3>2
    <2>4. Put(job[w].key, Retried(job[w].copy))
      BY <1>18 DEF RetryPut
    <2>5. QED
      BY <2>2, <2>3, <2>4, PutLow
  <1>19. ASSUME NEW w \in Workers, NEW c \in Conns, OpenSession(w, c) PROVE EntriesGo
    BY <1>19, SameGo DEF OpenSession
  <1>20. ASSUME NEW w \in Workers, OpenEndpoint(w) PROVE EntriesGo
    BY <1>20, SameGo DEF OpenEndpoint
  <1>21. ASSUME NEW w \in Workers, OpenCloseQueue(w) PROVE EntriesGo
    BY <1>21, SameGo DEF OpenCloseQueue
  <1>22. ASSUME NEW w \in Workers, OpenCreateQueue(w) PROVE EntriesGo
    BY <1>22, SameGo DEF OpenCreateQueue
  <1>23. ASSUME NEW w \in Workers, OpenAddItems(w) PROVE EntriesGo
    BY <1>23, SameGo DEF OpenAddItems
  <1>24. ASSUME NEW w \in Workers, OpenRetry(w) PROVE EntriesGo
    <2>1. job[w].pc = "opRetry" /\ job[w].pc \in Opening
      BY <1>24 DEF OpenRetry, Opening
    <2>2. PICK k \in job[w].todo :
            \/ UNCHANGED inflights
            \/ /\ inflights[k] # None /\ Put(k, Retried(inflights[k]))
               /\ job' = [job EXCEPT ![w].todo = @ \ {k}]
      BY <1>24 DEF OpenRetry
    <2>3. k \in Keys
      BY <1>a, JobFields
    <2>4. CASE inflights[k] # None /\ Put(k, Retried(inflights[k]))
            /\ job' = [job EXCEPT ![w].todo = @ \ {k}]
      <3>1. PICK c \in Conns : conn[c] = "opening"
        BY <2>1 DEF OpenInv
      <3>2. Low(inflights[k], c)
        BY <2>1, <3>1, <2>3 DEF RetryInv, Awaits
      <3>3. inflights[k] \in Entries /\ inflights[k].retry \in Nat
              /\ inflights[k].retry < MaxRetries + MaxConns - 1
        BY <2>3, <2>4, <3>2, <1>a DEF Low, Entries, Conns
      <3>4. Retried(inflights[k]) \in Entries
              /\ Retried(inflights[k]).retry = inflights[k].retry + 1
        BY <3>3, EntryTypes
      <3>5. Becomes(w, job[w].pc, job[w].on, job[w].cur, job[w].copy, job[w].key, job[w].rec,
              job[w].todo \ {k}, job[w].items, job[w].holds)
        BY <2>3, <2>4, OpenRetryJob
      <3>6. job'[w].pc = "opRetry" /\ k \notin job'[w].todo
        BY <2>1, <3>5 DEF Becomes
      <3>7. inflights' \in [Keys -> Entries \cup {None}]
            /\ \A i \in Keys : inflights'[i] = inflights[i]
                 \/ (i = k /\ inflights'[i] = Retried(inflights[k]))
        BY <2>3, <2>4, <3>4, PutGo
      <3>8. \A i \in Keys : EntryGo(i)
        BY <2>1, <2>2, <2>4, <3>4, <3>6, <3>7 DEF EntryGo
      <3>9. QED
        BY <3>7, <3>8 DEF EntriesGo
    <2>5. QED
      BY <2>2, <2>4, SameGo
  <1>25. ASSUME NEW w \in Workers, OpenPutWrapper(w) PROVE EntriesGo
    BY <1>25, SameGo DEF OpenPutWrapper
  <1>26. ASSUME NEW w \in Workers, Accept(w) PROVE EntriesGo
    BY <1>26, SameGo DEF Accept
  <1>27. ASSUME NEW w \in Workers, NEW c \in Conns, CloseSession(w, c) PROVE EntriesGo
    BY <1>27, SameGo DEF CloseSession
  <1>28. ASSUME NEW x \in Conns, NEW k \in Keys, Expire(x, k) PROVE EntriesGo
    BY <1>28, SameGo DEF Expire
  <1>29. ASSUME NEW c \in Conns, Disconnect(c) PROVE EntriesGo
    BY <1>29, SameGo DEF Disconnect
  <1>30. CASE Crash
    BY <1>30, SameGo DEF Crash
  <1>31. CASE UNCHANGED vars
    BY <1>31, SameGo DEF vars
  <1>32. QED
    BY <1>1, <1>2, <1>3, <1>4, <1>5, <1>5a, <1>6, <1>7, <1>8, <1>9, <1>10, <1>11, <1>12, <1>13,
      <1>14,
       <1>15, <1>16, <1>17, <1>18, <1>19, <1>20, <1>21, <1>22, <1>23, <1>24, <1>25, <1>26,
       <1>27, <1>28, <1>29, <1>30, <1>31 DEF Next, WorkerStep, ReceiveAnswer, Quiet

\* What a step makes of the copy of receivePubrec, of open() and of the connections.
CopyGo(w) ==
    job'[w].pc = "recPut" =>
        \/ job[w].pc = "recPut" /\ job'[w].rec = job[w].rec /\ job'[w].copy = job[w].copy
        \/ job'[w].copy = None
        \/ job'[w].rec.id \in Keys /\ job'[w].copy = inflights[job'[w].rec.id]

AwaitGo(w) == \A k \in Keys : Awaits(w, k)' => Awaits(w, k)

ConnGo ==
    \A c \in Conns : /\ conn'[c] = "new" => conn[c] = "new"
                     /\ conn'[c] = "opening" => conn[c] = "opening"

\* RetryInv follows from what a step does to entries, connections and copies.
LEMMA RetryKeep ==
    ASSUME TypeOK, OpenInv, RetryInv, EntriesGo, ConnGo,
           \A w \in Workers : CopyGo(w) /\ AwaitGo(w)
    PROVE  RetryInv'
  <1>a. \A w \in Workers : job[w].copy \in Entries \cup {None}
    BY JobTypes, JobFields
  <1>b. inflights \in [Keys -> Entries \cup {None}]
    BY DEF TypeOK
  <1>c. \A e \in Entries : e.retry \in Nat
    BY DEF Entries
  <1>1. ASSUME NEW c \in Conns, conn'[c] = "new"
        PROVE  /\ \A k \in Keys : Low(inflights'[k], c)
               /\ \A w \in Workers : job'[w].pc = "recPut" => Low(job'[w].copy, c)
    <2>1. conn[c] = "new" /\ c >= 2
      BY <1>1 DEF ConnGo, OpenInv, Conns
    <2>2. /\ \A k \in Keys : Low(inflights[k], c)
          /\ \A w \in Workers : job[w].pc = "recPut" => Low(job[w].copy, c)
      BY <2>1 DEF RetryInv
    <2>3. ASSUME NEW k \in Keys PROVE Low(inflights'[k], c)
      <3>1. ASSUME NEW w \in Workers, job[w].pc = "opRetry", k \in job[w].todo, inflights[k] # None,
                   inflights'[k].retry = inflights[k].retry + 1
            PROVE  Low(inflights'[k], c)
        <4>1. PICK d \in Conns : conn[d] = "opening"
          BY <3>1 DEF OpenInv, Opening
        <4>2. d < c
          BY <2>1, <4>1 DEF OpenInv
        <4>3. Low(inflights[k], d)
          BY <3>1, <4>1 DEF RetryInv, Awaits
        <4>4. inflights[k].retry \in Nat /\ c \in Nat /\ d \in Nat
          BY <3>1, <1>b, <1>c DEF Conns
        <4>5. QED
          BY <3>1, <4>2, <4>3, <4>4 DEF Low
      <3>2. CASE inflights'[k].retry \in 0..MaxRetries
        BY <2>1, <3>2 DEF Low, Conns
      <3>3. QED
        BY <2>2, <3>1, <3>2 DEF EntriesGo, EntryGo, Low
    <2>4. ASSUME NEW w \in Workers, job'[w].pc = "recPut" PROVE Low(job'[w].copy, c)
      BY <2>2, <2>4 DEF CopyGo, Low
    <2>5. QED
      BY <2>3, <2>4
  <1>2. ASSUME NEW c \in Conns, conn'[c] = "opening", NEW v \in Workers, NEW k \in Keys,
               Awaits(v, k)'
        PROVE  /\ Low(inflights'[k], c)
               /\ \A w \in Workers : job'[w].pc = "recPut" /\ job'[w].rec.id = k =>
                    Low(job'[w].copy, c)
    <2>1. conn[c] = "opening" /\ c >= 2
      BY <1>2 DEF ConnGo, OpenInv, Conns
    <2>2. Awaits(v, k)
      BY <1>2 DEF AwaitGo
    <2>3. /\ Low(inflights[k], c)
          /\ \A w \in Workers : job[w].pc = "recPut" /\ job[w].rec.id = k => Low(job[w].copy, c)
      BY <2>1, <2>2 DEF RetryInv
    <2>4. ASSUME NEW w \in Workers, job[w].pc = "opRetry", job'[w].pc = "opRetry",
                 k \notin job'[w].todo
          PROVE  FALSE
      <3>1. v = w
        BY <2>2, <2>4 DEF OpenInv, Opening, Awaits
      <3>2. QED
        BY <1>2, <2>4, <3>1 DEF Awaits
    <2>5. ASSUME inflights'[k].retry \in 0..MaxRetries PROVE Low(inflights'[k], c)
      BY <2>1, <2>5 DEF Low, Conns
    <2>6. Low(inflights'[k], c)
      BY <2>3, <2>4, <2>5 DEF EntriesGo, EntryGo, Low
    <2>7. ASSUME NEW w \in Workers, job'[w].pc = "recPut", job'[w].rec.id = k
                 PROVE Low(job'[w].copy, c)
      BY <2>3, <2>7 DEF CopyGo, Low
    <2>8. QED
      BY <2>6, <2>7
  <1>3. QED
    BY <1>1, <1>2 DEF RetryInv, Low

\* Every step keeps the retries bounded.
LEMMA RetryStep == TypeOK /\ LocalsInv /\ OpenInv /\ RetryInv /\ [Next]_vars => RetryInv'
  <1> SUFFICES ASSUME TypeOK, LocalsInv, OpenInv, RetryInv, [Next]_vars
               PROVE  RetryInv'
    OBVIOUS
  <1>a. conn \in [Conns -> {"new", "opening", "accepted", "closing", "closed"}]
    BY DEF TypeOK
  <1>b. wire \subseteq Packets
    BY DEF TypeOK
  <1>c. EntriesGo
    BY EntryStep
  <1>1. ASSUME NEW w \in Workers, NEW m \in Msgs, HandleLocalPublishMessage(w, m) PROVE RetryInv'
    <2>1. job[w].pc = "idle" /\ UNCHANGED conn
      BY <1>1 DEF HandleLocalPublishMessage
    <2>2. \/ (wrapper = None /\ Becomes(w, "offline", wrapper, m, job[w].copy, job[w].key,
               job[w].rec, job[w].todo, job[w].items, job[w].holds))
          \/ (wrapper # None /\ Becomes(w, "handle", wrapper, m, job[w].copy, job[w].key,
               job[w].rec, job[w].todo, job[w].items, job[w].holds))
      BY <1>1, HandleLocalPublishMessageJob
    <2>3. \A v \in Workers : CopyGo(v) /\ AwaitGo(v)
      <3>1. CASE (wrapper = None /\ Becomes(w, "offline", wrapper, m, job[w].copy, job[w].key,
              job[w].rec, job[w].todo, job[w].items, job[w].holds))
        BY <2>1, <3>1 DEF Becomes, Moves, Rests, CopyGo, AwaitGo, Awaits
      <3>2. CASE (wrapper # None /\ Becomes(w, "handle", wrapper, m, job[w].copy, job[w].key,
              job[w].rec, job[w].todo, job[w].items, job[w].holds))
        BY <2>1, <3>2 DEF Becomes, Moves, Rests, CopyGo, AwaitGo, Awaits
      <3>3. QED
        BY <2>2, <3>1, <3>2
    <2>4. ConnGo
      BY <2>1 DEF ConnGo
    <2>5. QED
      BY <2>3, <2>4, <1>c, RetryKeep
  <1>2. ASSUME NEW w \in Workers, EnqueueOffline(w) PROVE RetryInv'
    <2>1. job[w].pc = "offline" /\ UNCHANGED conn
      BY <1>2 DEF EnqueueOffline
    <2>2. \/ job' = job
          \/ Becomes(w, "relook", job[w].on, None, job[w].copy, job[w].key, job[w].rec,
               job[w].todo, job[w].items, job[w].holds)
      BY <1>2, EnqueueOfflineJob
    <2>3. \A v \in Workers : CopyGo(v) /\ AwaitGo(v)
      <3>1. CASE job' = job
        BY <2>1, <3>1 DEF Becomes, Moves, Rests, CopyGo, AwaitGo, Awaits
      <3>2. CASE Becomes(w, "relook", job[w].on, None, job[w].copy, job[w].key, job[w].rec,
              job[w].todo, job[w].items, job[w].holds)
        BY <2>1, <3>2 DEF Becomes, Moves, Rests, CopyGo, AwaitGo, Awaits
      <3>3. QED
        BY <2>2, <3>1, <3>2
    <2>4. ConnGo
      BY <2>1 DEF ConnGo
    <2>5. QED
      BY <2>3, <2>4, <1>c, RetryKeep
  <1>3. ASSUME NEW w \in Workers, LookupAgain(w) PROVE RetryInv'
    <2>1. job[w].pc = "relook" /\ UNCHANGED conn
      BY <1>3 DEF LookupAgain
    <2>2. \/ Rests(w)
          \/ (wrapper # None /\ Becomes(w, "dqTake", wrapper, job[w].cur, job[w].copy, job[w].key,
               job[w].rec, job[w].todo, job[w].items, job[w].holds))
      BY <1>3, LookupAgainJob
    <2>3. \A v \in Workers : CopyGo(v) /\ AwaitGo(v)
      <3>1. CASE Rests(w)
        BY <2>1, <3>1 DEF Becomes, Moves, Rests, CopyGo, AwaitGo, Awaits
      <3>2. CASE (wrapper # None /\ Becomes(w, "dqTake", wrapper, job[w].cur, job[w].copy,
              job[w].key, job[w].rec, job[w].todo, job[w].items, job[w].holds))
        BY <2>1, <3>2 DEF Becomes, Moves, Rests, CopyGo, AwaitGo, Awaits
      <3>3. QED
        BY <2>2, <3>1, <3>2
    <2>4. ConnGo
      BY <2>1 DEF ConnGo
    <2>5. QED
      BY <2>3, <2>4, <1>c, RetryKeep
  <1>4. ASSUME NEW w \in Workers, HandleMessage(w) PROVE RetryInv'
    <2>1. job[w].pc = "handle" /\ UNCHANGED conn
      BY <1>4 DEF HandleMessage
    <2>2. \/ Rests(w)
          \/ Moves(w, "offer")
          \/ Moves(w, "inChk")
      BY <1>4, HandleMessageJob
    <2>3. \A v \in Workers : CopyGo(v) /\ AwaitGo(v)
      <3>1. CASE Rests(w)
        BY <2>1, <3>1 DEF Becomes, Moves, Rests, CopyGo, AwaitGo, Awaits
      <3>2. CASE Moves(w, "offer")
        BY <2>1, <3>2 DEF Becomes, Moves, Rests, CopyGo, AwaitGo, Awaits
      <3>3. CASE Moves(w, "inChk")
        BY <2>1, <3>3 DEF Becomes, Moves, Rests, CopyGo, AwaitGo, Awaits
      <3>4. QED
        BY <2>2, <3>1, <3>2, <3>3
    <2>4. ConnGo
      BY <2>1 DEF ConnGo
    <2>5. QED
      BY <2>3, <2>4, <1>c, RetryKeep
  <1>5. ASSUME NEW w \in Workers, Offer(w) PROVE RetryInv'
    <2>1. job[w].pc = "offer" /\ UNCHANGED conn
      BY <1>5 DEF Offer, LeaveTry, ReleaseInflightCas
    <2>2. \/ job' = job
          \/ Rests(w)
          \/ Becomes(w, "dqTake", job[w].on, None, job[w].copy, job[w].key, job[w].rec,
               job[w].todo, job[w].items, FALSE)
      BY <1>5, OfferJob
    <2>3. \A v \in Workers : CopyGo(v) /\ AwaitGo(v)
      <3>1. CASE job' = job
        BY <2>1, <3>1 DEF Becomes, Moves, Rests, CopyGo, AwaitGo, Awaits
      <3>2. CASE Rests(w)
        BY <2>1, <3>2 DEF Becomes, Moves, Rests, CopyGo, AwaitGo, Awaits
      <3>3. CASE Becomes(w, "dqTake", job[w].on, None, job[w].copy, job[w].key, job[w].rec,
              job[w].todo, job[w].items, FALSE)
        BY <2>1, <3>3 DEF Becomes, Moves, Rests, CopyGo, AwaitGo, Awaits
      <3>4. QED
        BY <2>2, <3>1, <3>2, <3>3
    <2>4. ConnGo
      BY <2>1 DEF ConnGo
    <2>5. QED
      BY <2>3, <2>4, <1>c, RetryKeep
  <1>5a. ASSUME NEW w \in Workers, InflightCheck(w) PROVE RetryInv'
    <2>1. job[w].pc = "inChk" /\ UNCHANGED conn
      BY <1>5a DEF InflightCheck, TakeInflightCas
    <2>2. \/ Rests(w)
          \/ \E p \in {"offer", "inPut"} : Becomes(w, p, job[w].on, job[w].cur, job[w].copy,
               job[w].key, job[w].rec, job[w].todo, job[w].items, TRUE)
      BY <1>5a, InflightCheckJob
    <2>3. \A v \in Workers : CopyGo(v) /\ AwaitGo(v)
      <3>1. CASE Rests(w)
        BY <2>1, <3>1 DEF Becomes, Moves, Rests, CopyGo, AwaitGo, Awaits
      <3>2. CASE \E p \in {"offer", "inPut"} : Becomes(w, p, job[w].on, job[w].cur, job[w].copy,
              job[w].key, job[w].rec, job[w].todo, job[w].items, TRUE)
        BY <2>1, <3>2 DEF Becomes, Moves, Rests, CopyGo, AwaitGo, Awaits
      <3>3. QED
        BY <2>2, <3>1, <3>2
    <2>4. ConnGo
      BY <2>1 DEF ConnGo
    <2>5. QED
      BY <2>3, <2>4, <1>c, RetryKeep
  <1>6. ASSUME NEW w \in Workers, InflightPut(w) PROVE RetryInv'
    <2>1. job[w].pc = "inPut" /\ UNCHANGED conn
      BY <1>6 DEF InflightPut, Put, SaveInflightTimeout, Publish, ReleaseInflightCas
    <2>2. \/ Moves(w, "offer")
          \/ Rests(w)
      BY <1>6, InflightPutJob
    <2>3. \A v \in Workers : CopyGo(v) /\ AwaitGo(v)
      <3>1. CASE Moves(w, "offer")
        BY <2>1, <3>1 DEF Becomes, Moves, Rests, CopyGo, AwaitGo, Awaits
      <3>2. CASE Rests(w)
        BY <2>1, <3>2 DEF Becomes, Moves, Rests, CopyGo, AwaitGo, Awaits
      <3>3. QED
        BY <2>2, <3>1, <3>2
    <2>4. ConnGo
      BY <2>1 DEF ConnGo
    <2>5. QED
      BY <2>3, <2>4, <1>c, RetryKeep
  <1>7. ASSUME NEW w \in Workers, DequeueTake(w) PROVE RetryInv'
    <2>1. job[w].pc = "dqTake" /\ UNCHANGED conn
      BY <1>7 DEF DequeueTake
    <2>2. \/ Rests(w)
          \/ Moves(w, "dqChk")
      BY <1>7, DequeueTakeJob
    <2>3. \A v \in Workers : CopyGo(v) /\ AwaitGo(v)
      <3>1. CASE Rests(w)
        BY <2>1, <3>1 DEF Becomes, Moves, Rests, CopyGo, AwaitGo, Awaits
      <3>2. CASE Moves(w, "dqChk")
        BY <2>1, <3>2 DEF Becomes, Moves, Rests, CopyGo, AwaitGo, Awaits
      <3>3. QED
        BY <2>2, <3>1, <3>2
    <2>4. ConnGo
      BY <2>1 DEF ConnGo
    <2>5. QED
      BY <2>3, <2>4, <1>c, RetryKeep
  <1>8. ASSUME NEW w \in Workers, DequeueCheck(w) PROVE RetryInv'
    <2>1. job[w].pc = "dqChk" /\ UNCHANGED conn
      BY <1>8 DEF DequeueCheck
    <2>2. \/ Moves(w, "dqEnd")
          \/ Moves(w, "dqPoll")
      BY <1>8, DequeueCheckJob
    <2>3. \A v \in Workers : CopyGo(v) /\ AwaitGo(v)
      <3>1. CASE Moves(w, "dqEnd")
        BY <2>1, <3>1 DEF Becomes, Moves, Rests, CopyGo, AwaitGo, Awaits
      <3>2. CASE Moves(w, "dqPoll")
        BY <2>1, <3>2 DEF Becomes, Moves, Rests, CopyGo, AwaitGo, Awaits
      <3>3. QED
        BY <2>2, <3>1, <3>2
    <2>4. ConnGo
      BY <2>1 DEF ConnGo
    <2>5. QED
      BY <2>3, <2>4, <1>c, RetryKeep
  <1>9. ASSUME NEW w \in Workers, DequeuePoll(w) PROVE RetryInv'
    <2>1. job[w].pc = "dqPoll" /\ UNCHANGED conn
      BY <1>9 DEF DequeuePoll, TakeInflightCas
    <2>2. \/ Moves(w, "dqEnd")
          \/ (Head(queue) \in Msgs /\ Becomes(w, "dqPut", job[w].on, Head(queue), job[w].copy,
               job[w].key, job[w].rec, job[w].todo, job[w].items, TRUE))
      BY <1>9, DequeuePollJob
    <2>3. \A v \in Workers : CopyGo(v) /\ AwaitGo(v)
      <3>1. CASE Moves(w, "dqEnd")
        BY <2>1, <3>1 DEF Becomes, Moves, Rests, CopyGo, AwaitGo, Awaits
      <3>2. CASE (Head(queue) \in Msgs /\ Becomes(w, "dqPut", job[w].on, Head(queue), job[w].copy,
              job[w].key, job[w].rec, job[w].todo, job[w].items, TRUE))
        BY <2>1, <3>2 DEF Becomes, Moves, Rests, CopyGo, AwaitGo, Awaits
      <3>3. QED
        BY <2>2, <3>1, <3>2
    <2>4. ConnGo
      BY <2>1 DEF ConnGo
    <2>5. QED
      BY <2>3, <2>4, <1>c, RetryKeep
  <1>10. ASSUME NEW w \in Workers, DequeuePut(w) PROVE RetryInv'
    <2>1. job[w].pc = "dqPut" /\ UNCHANGED conn
      BY <1>10 DEF DequeuePut, ReleaseInflightCas, Put, SaveInflightTimeout, Publish
    <2>2. \/ Becomes(w, "dqChk", job[w].on, None, job[w].copy, job[w].key, job[w].rec,
               job[w].todo, job[w].items, FALSE)
          \/ Becomes(w, "dqEnd", job[w].on, None, job[w].copy, job[w].key, job[w].rec,
               job[w].todo, job[w].items, FALSE)
      BY <1>10, DequeuePutJob
    <2>3. \A v \in Workers : CopyGo(v) /\ AwaitGo(v)
      <3>1. CASE Becomes(w, "dqChk", job[w].on, None, job[w].copy, job[w].key, job[w].rec,
              job[w].todo, job[w].items, FALSE)
        BY <2>1, <3>1 DEF Becomes, Moves, Rests, CopyGo, AwaitGo, Awaits
      <3>2. CASE Becomes(w, "dqEnd", job[w].on, None, job[w].copy, job[w].key, job[w].rec,
              job[w].todo, job[w].items, FALSE)
        BY <2>1, <3>2 DEF Becomes, Moves, Rests, CopyGo, AwaitGo, Awaits
      <3>3. QED
        BY <2>2, <3>1, <3>2
    <2>4. ConnGo
      BY <2>1 DEF ConnGo
    <2>5. QED
      BY <2>3, <2>4, <1>c, RetryKeep
  <1>11. ASSUME NEW w \in Workers, DequeueEnd(w) PROVE RetryInv'
    <2>1. job[w].pc = "dqEnd" /\ UNCHANGED conn
      BY <1>11 DEF DequeueEnd
    <2>2. Rests(w)
      BY <1>11, DequeueEndJob
    <2>3. \A v \in Workers : CopyGo(v) /\ AwaitGo(v)
      BY <2>1, <2>2 DEF Becomes, Moves, Rests, CopyGo, AwaitGo, Awaits
    <2>4. ConnGo
      BY <2>1 DEF ConnGo
    <2>5. QED
      BY <2>3, <2>4, <1>c, RetryKeep
  <1>12. ASSUME NEW w \in Workers, NEW p \in wire, ReceivePuback(w, p) \/ ReceivePubcomp(w, p)
                PROVE RetryInv'
    <2>1. job[w].pc = "idle" /\ UNCHANGED conn
      BY <1>12 DEF ReceivePuback, ReceivePubcomp, RemoveInflight
    <2>8. RemoveInflight(w, p)
      BY <1>12 DEF ReceivePuback, ReceivePubcomp
    <2>2. \/ job' = job
          \/ (wrapper # None /\ Becomes(w, "dqTake", wrapper, job[w].cur, job[w].copy, job[w].key,
               job[w].rec, job[w].todo, job[w].items, job[w].holds))
      BY <2>8, RemoveInflightJob
    <2>3. \A v \in Workers : CopyGo(v) /\ AwaitGo(v)
      <3>1. CASE job' = job
        BY <2>1, <3>1 DEF Becomes, Moves, Rests, CopyGo, AwaitGo, Awaits
      <3>2. CASE (wrapper # None /\ Becomes(w, "dqTake", wrapper, job[w].cur, job[w].copy,
              job[w].key, job[w].rec, job[w].todo, job[w].items, job[w].holds))
        BY <2>1, <3>2 DEF Becomes, Moves, Rests, CopyGo, AwaitGo, Awaits
      <3>3. QED
        BY <2>2, <3>1, <3>2
    <2>4. ConnGo
      BY <2>1 DEF ConnGo
    <2>5. QED
      BY <2>3, <2>4, <1>c, RetryKeep
  <1>13. ASSUME NEW w \in Workers, NEW p \in wire, ReceivePubrec(w, p) PROVE RetryInv'
    <2>1. job[w].pc = "idle" /\ UNCHANGED conn
      BY <1>13 DEF ReceivePubrec
    <2>2. (\E e \in Entries \cup {None} : (e = None \/ e = inflights[p.id])
               /\ Becomes(w, "recPut", job[w].on, job[w].cur, e, job[w].key, p, job[w].todo,
                    job[w].items, job[w].holds))
      BY <1>13, ReceivePubrecJob
    <2>7. p.id \in Keys
      BY <1>b DEF Packets, Keys
    <2>3. \A v \in Workers : CopyGo(v) /\ AwaitGo(v)
      BY <2>1, <2>2, <2>7 DEF Becomes, Moves, Rests, CopyGo, AwaitGo, Awaits
    <2>4. ConnGo
      BY <2>1 DEF ConnGo
    <2>5. QED
      BY <2>3, <2>4, <1>c, RetryKeep
  <1>14. ASSUME NEW w \in Workers, PutPubrec(w) PROVE RetryInv'
    <2>1. job[w].pc = "recPut" /\ UNCHANGED conn
      BY <1>14 DEF PutPubrec, Put, SendPubrel
    <2>2. Rests(w)
      BY <1>14, PutPubrecJob
    <2>3. \A v \in Workers : CopyGo(v) /\ AwaitGo(v)
      BY <2>1, <2>2 DEF Becomes, Moves, Rests, CopyGo, AwaitGo, Awaits
    <2>4. ConnGo
      BY <2>1 DEF ConnGo
    <2>5. QED
      BY <2>3, <2>4, <1>c, RetryKeep
  <1>15. ASSUME NEW w \in Workers, NEW x \in Conns, NEW k \in Keys, Retry(w, x, k) PROVE RetryInv'
    <2>1. job[w].pc = "idle" /\ UNCHANGED conn
      BY <1>15 DEF Retry
    <2>2. \/ job' = job
          \/ Becomes(w, "dqTake", x, job[w].cur, job[w].copy, job[w].key, job[w].rec, job[w].todo,
               job[w].items, job[w].holds)
          \/ (\E p \in {"rtRel", "rtDel"} : inflights[k] \in Entries
               /\ ~RetriesExhausted(inflights[k])
               /\ Becomes(w, p, x, job[w].cur, inflights[k], k, job[w].rec, job[w].todo,
                    job[w].items, job[w].holds))
      BY <1>15, RetryJob
    <2>3. \A v \in Workers : CopyGo(v) /\ AwaitGo(v)
      <3>1. CASE job' = job
        BY <2>1, <3>1 DEF Becomes, Moves, Rests, CopyGo, AwaitGo, Awaits
      <3>2. CASE Becomes(w, "dqTake", x, job[w].cur, job[w].copy, job[w].key, job[w].rec,
              job[w].todo, job[w].items, job[w].holds)
        BY <2>1, <3>2 DEF Becomes, Moves, Rests, CopyGo, AwaitGo, Awaits
      <3>3. CASE (\E p \in {"rtRel", "rtDel"} : inflights[k] \in Entries
              /\ ~RetriesExhausted(inflights[k])
                 /\ Becomes(w, p, x, job[w].cur, inflights[k], k, job[w].rec, job[w].todo,
                      job[w].items, job[w].holds))
        BY <2>1, <3>3 DEF Becomes, Moves, Rests, CopyGo, AwaitGo, Awaits
      <3>4. QED
        BY <2>2, <3>1, <3>2, <3>3
    <2>4. ConnGo
      BY <2>1 DEF ConnGo
    <2>5. QED
      BY <2>3, <2>4, <1>c, RetryKeep
  <1>16. ASSUME NEW w \in Workers, RetryRelease(w) PROVE RetryInv'
    <2>1. job[w].pc = "rtRel" /\ UNCHANGED conn
      BY <1>16 DEF RetryRelease, Put, SaveInflightTimeout, SendPubrel
    <2>2. Rests(w)
      BY <1>16, RetryReleaseJob
    <2>3. \A v \in Workers : CopyGo(v) /\ AwaitGo(v)
      BY <2>1, <2>2 DEF Becomes, Moves, Rests, CopyGo, AwaitGo, Awaits
    <2>4. ConnGo
      BY <2>1 DEF ConnGo
    <2>5. QED
      BY <2>3, <2>4, <1>c, RetryKeep
  <1>17. ASSUME NEW w \in Workers, RetryDelete(w) PROVE RetryInv'
    <2>1. job[w].pc = "rtDel" /\ UNCHANGED conn
      BY <1>17 DEF RetryDelete, TakeInflightCas, Put, SaveInflightTimeout
    <2>9. job[w].on \in Conns /\ job[w].copy \in Entries
      BY <2>1 DEF LocalsInv, LocalsAt, Detached, Retrying
    <2>2. \/ Rests(w)
          \/ Refiles(w)
      BY <1>17, <2>9, RetryDeleteJob
    <2>3. \A v \in Workers : CopyGo(v) /\ AwaitGo(v)
      <3>1. CASE Rests(w)
        BY <2>1, <3>1 DEF Becomes, Moves, Rests, Refiles, CopyGo, AwaitGo, Awaits
      <3>2. CASE Refiles(w)
        BY <2>1, <3>2 DEF Becomes, Moves, Rests, Refiles, CopyGo, AwaitGo, Awaits
      <3>3. QED
        BY <2>2, <3>1, <3>2
    <2>4. ConnGo
      BY <2>1 DEF ConnGo
    <2>5. QED
      BY <2>3, <2>4, <1>c, RetryKeep
  <1>18. ASSUME NEW w \in Workers, RetryPut(w) PROVE RetryInv'
    <2>1. job[w].pc = "rtPut" /\ UNCHANGED conn
      BY <1>18 DEF RetryPut, ReleaseInflightCas, Put, SaveInflightTimeout, Publish
    <2>2. Rests(w)
      BY <1>18, RetryPutJob
    <2>3. \A v \in Workers : CopyGo(v) /\ AwaitGo(v)
      BY <2>1, <2>2 DEF Becomes, Moves, Rests, CopyGo, AwaitGo, Awaits
    <2>4. ConnGo
      BY <2>1 DEF ConnGo
    <2>5. QED
      BY <2>3, <2>4, <1>c, RetryKeep
  <1>19. ASSUME NEW w \in Workers, NEW c \in Conns, OpenSession(w, c) PROVE RetryInv'
    <2>1. job[w].pc = "idle" /\ conn[c] = "new" /\ conn' = [conn EXCEPT ![c] = "opening"]
          /\ (\A d \in Conns : conn[d] # "opening") /\ UNCHANGED inflights
      BY <1>19 DEF OpenSession
    <2>2. (\E x \in Conns : (x = c \/ x = wrapper) /\ Becomes(w, "opEndpoint", x, job[w].cur,
            job[w].copy, job[w].key, job[w].rec, job[w].todo, job[w].items, job[w].holds))
      BY <1>19, OpenSessionJob
    <2>3. \A d \in Conns : conn'[d] = IF d = c THEN "opening" ELSE conn[d]
      BY <2>1, <1>a
    <2>4. \A v \in Workers : job'[v].pc = "recPut" =>
            job[v].pc = "recPut" /\ job'[v].rec = job[v].rec /\ job'[v].copy = job[v].copy
      BY <2>2 DEF Becomes
    <2>5. QED
      BY <2>1, <2>3, <2>4 DEF RetryInv, Low
  <1>20. ASSUME NEW w \in Workers, OpenEndpoint(w) PROVE RetryInv'
    <2>1. job[w].pc = "opEndpoint"
      BY <1>20 DEF OpenEndpoint
    <2>2. \/ Becomes(w, "opRetry", job[w].on, job[w].cur, job[w].copy, job[w].key, job[w].rec,
               InflightKeys, job[w].items, job[w].holds)
          \/ Becomes(w, "opCreate", job[w].on, job[w].cur, job[w].copy, job[w].key, job[w].rec,
               job[w].todo, queue, job[w].holds)
          \/ Becomes(w, "opClose", job[w].on, job[w].cur, job[w].copy, job[w].key, job[w].rec,
               job[w].todo, queue, job[w].holds)
      BY <1>20, OpenEndpointJob
    <2>3. \A v \in Workers : CopyGo(v) /\ AwaitGo(v)
      <3>1. CASE Becomes(w, "opRetry", job[w].on, job[w].cur, job[w].copy, job[w].key, job[w].rec,
              InflightKeys, job[w].items, job[w].holds)
        BY <2>1, <3>1 DEF Becomes, Moves, Rests, CopyGo, AwaitGo, Awaits
      <3>2. CASE Becomes(w, "opCreate", job[w].on, job[w].cur, job[w].copy, job[w].key,
              job[w].rec, job[w].todo, queue, job[w].holds)
        BY <2>1, <3>2 DEF Becomes, Moves, Rests, CopyGo, AwaitGo, Awaits
      <3>3. CASE Becomes(w, "opClose", job[w].on, job[w].cur, job[w].copy, job[w].key, job[w].rec,
              job[w].todo, queue, job[w].holds)
        BY <2>1, <3>3 DEF Becomes, Moves, Rests, CopyGo, AwaitGo, Awaits
      <3>4. QED
        BY <2>2, <3>1, <3>2, <3>3
    <2>4. ConnGo
      <3>1. UNCHANGED conn \/ conn' = [conn EXCEPT ![endpoint[job[w].on]] = IF @ = "accepted"
              THEN "closing" ELSE @]
        BY <1>20 DEF OpenEndpoint
      <3>2. QED
        BY <3>1, <1>a DEF ConnGo
    <2>5. QED
      BY <2>3, <2>4, <1>c, RetryKeep
  <1>21. ASSUME NEW w \in Workers, OpenCloseQueue(w) PROVE RetryInv'
    <2>1. job[w].pc = "opClose" /\ UNCHANGED conn
      BY <1>21 DEF OpenCloseQueue
    <2>2. Moves(w, "opCreate")
      BY <1>21, OpenCloseQueueJob
    <2>3. \A v \in Workers : CopyGo(v) /\ AwaitGo(v)
      BY <2>1, <2>2 DEF Becomes, Moves, Rests, CopyGo, AwaitGo, Awaits
    <2>4. ConnGo
      BY <2>1 DEF ConnGo
    <2>5. QED
      BY <2>3, <2>4, <1>c, RetryKeep
  <1>22. ASSUME NEW w \in Workers, OpenCreateQueue(w) PROVE RetryInv'
    <2>1. job[w].pc = "opCreate" /\ UNCHANGED conn
      BY <1>22 DEF OpenCreateQueue
    <2>2. Moves(w, "opAdd")
      BY <1>22, OpenCreateQueueJob
    <2>3. \A v \in Workers : CopyGo(v) /\ AwaitGo(v)
      BY <2>1, <2>2 DEF Becomes, Moves, Rests, CopyGo, AwaitGo, Awaits
    <2>4. ConnGo
      BY <2>1 DEF ConnGo
    <2>5. QED
      BY <2>3, <2>4, <1>c, RetryKeep
  <1>23. ASSUME NEW w \in Workers, OpenAddItems(w) PROVE RetryInv'
    <2>1. job[w].pc = "opAdd" /\ UNCHANGED conn
      BY <1>23 DEF OpenAddItems
    <2>2. Becomes(w, "opRetry", job[w].on, job[w].cur, job[w].copy, job[w].key, job[w].rec,
            InflightKeys, <<>>, job[w].holds)
      BY <1>23, OpenAddItemsJob
    <2>3. \A v \in Workers : CopyGo(v) /\ AwaitGo(v)
      BY <2>1, <2>2 DEF Becomes, Moves, Rests, CopyGo, AwaitGo, Awaits
    <2>4. ConnGo
      BY <2>1 DEF ConnGo
    <2>5. QED
      BY <2>3, <2>4, <1>c, RetryKeep
  <1>24. ASSUME NEW w \in Workers, OpenRetry(w) PROVE RetryInv'
    <2>1. job[w].pc = "opRetry" /\ UNCHANGED conn
      BY <1>24 DEF OpenRetry
    <2>2. PICK k \in job[w].todo : Goto(w, "opAccept") \/ job' = [job EXCEPT ![w].todo = @ \ {k}]
      BY <1>24 DEF OpenRetry
    <2>3. Moves(w, "opAccept") \/ Becomes(w, job[w].pc, job[w].on, job[w].cur, job[w].copy,
            job[w].key, job[w].rec, job[w].todo \ {k}, job[w].items, job[w].holds)
      BY <2>2, JobTypes, JobFields, GotoMoves, OpenRetryJob DEF Places, Opening
    <2>4. \A v \in Workers : CopyGo(v) /\ AwaitGo(v)
      BY <2>1, <2>3 DEF Becomes, Moves, CopyGo, AwaitGo, Awaits
    <2>5. ConnGo
      BY <2>1 DEF ConnGo
    <2>6. QED
      BY <2>4, <2>5, <1>c, RetryKeep
  <1>25. ASSUME NEW w \in Workers, OpenPutWrapper(w) PROVE RetryInv'
    <2>1. job[w].pc = "opRetry" /\ UNCHANGED conn
      BY <1>25 DEF OpenPutWrapper
    <2>2. Moves(w, "opAccept")
      BY <1>25, OpenPutWrapperJob
    <2>3. \A v \in Workers : CopyGo(v) /\ AwaitGo(v)
      BY <2>1, <2>2 DEF Becomes, Moves, Rests, CopyGo, AwaitGo, Awaits
    <2>4. ConnGo
      BY <2>1 DEF ConnGo
    <2>5. QED
      BY <2>3, <2>4, <1>c, RetryKeep
  <1>26. ASSUME NEW w \in Workers, Accept(w) PROVE RetryInv'
    <2>1. job[w].pc = "opAccept" /\ conn' = [conn EXCEPT ![Incoming] = "accepted"]
      BY <1>26 DEF Accept
    <2>2. Rests(w)
      BY <1>26, AcceptJob
    <2>3. \A v \in Workers : CopyGo(v) /\ AwaitGo(v)
      BY <2>1, <2>2 DEF Becomes, Moves, Rests, CopyGo, AwaitGo, Awaits
    <2>4. ConnGo
      BY <2>1, <1>a DEF ConnGo
    <2>5. QED
      BY <2>3, <2>4, <1>c, RetryKeep
  <1>27. ASSUME NEW w \in Workers, NEW c \in Conns, CloseSession(w, c) PROVE RetryInv'
    <2>1. conn' = [conn EXCEPT ![c] = "closed"] /\ UNCHANGED job
      BY <1>27 DEF CloseSession
    <2>2. ConnGo /\ (\A v \in Workers : CopyGo(v) /\ AwaitGo(v))
      BY <2>1, <1>a DEF ConnGo, CopyGo, AwaitGo, Awaits
    <2>3. QED
      BY <2>2, <1>c, RetryKeep
  <1>28. ASSUME NEW x \in Conns, NEW k \in Keys, Expire(x, k) PROVE RetryInv'
    <2>1. ConnGo /\ (\A v \in Workers : CopyGo(v) /\ AwaitGo(v))
      BY <1>28 DEF Expire, ConnGo, CopyGo, AwaitGo, Awaits
    <2>2. QED
      BY <2>1, <1>c, RetryKeep
  <1>29. ASSUME NEW c \in Conns, Disconnect(c) PROVE RetryInv'
    <2>1. conn' = [conn EXCEPT ![c] = "closing"] /\ UNCHANGED job
      BY <1>29 DEF Disconnect
    <2>2. ConnGo /\ (\A v \in Workers : CopyGo(v) /\ AwaitGo(v))
      BY <2>1, <1>a DEF ConnGo, CopyGo, AwaitGo, Awaits
    <2>3. QED
      BY <2>2, <1>c, RetryKeep
  <1>30. CASE Crash
    <2>1. \A v \in Workers : job'[v].pc = "idle"
      BY <1>30 DEF Crash, Idle
    <2>2. ConnGo
      BY <1>30 DEF Crash, ConnGo
    <2>3. QED
      BY <2>1, <2>2, <1>c, RetryKeep DEF CopyGo, AwaitGo, Awaits
  <1>31. CASE UNCHANGED vars
    BY <1>31 DEF vars, RetryInv, Low, Awaits
  <1>32. QED
    BY <1>1, <1>2, <1>3, <1>4, <1>5, <1>5a, <1>6, <1>7, <1>8, <1>9, <1>10, <1>11, <1>12, <1>13,
      <1>14,
       <1>15, <1>16, <1>17, <1>18, <1>19, <1>20, <1>21, <1>22, <1>23, <1>24, <1>25, <1>26,
       <1>27, <1>28, <1>29, <1>30, <1>31 DEF Next, WorkerStep, ReceiveAnswer, Quiet

-----------------------------------------------------------------------------
(* Types                                                                    *)

\* What the variables other than the jobs and the entries may hold.
RestOK ==
    /\ queue \in Seq(Msgs)
    /\ queueOf \in Conns \cup {None}
    /\ conn \in [Conns -> {"new", "opening", "accepted", "closing", "closed"}]
    /\ lastId \in [Conns -> 0..MaxMessageId]
    /\ spent \subseteq Conns
    /\ wire \subseteq Packets
    /\ wrapper \in Conns \cup {None}
    /\ endpoint \in [Conns -> Conns \cup {None}]
    /\ timeouts \in [Conns -> SUBSET Keys]
    /\ expired \in [Conns -> SUBSET Keys]
    /\ queueCas \in [Conns -> {0, 1}]
    /\ inflightCas \in [Conns -> {0, 1}]
    /\ taken \subseteq Msgs /\ acked \subseteq Msgs
    /\ dropped \subseteq Msgs /\ evicted \subseteq Msgs
    /\ revived \subseteq Keys
    /\ crashes \in 0..MaxCrashes

\* Every step leaves each worker with a job.
LEMMA JobStep == TypeOK /\ LocalsInv /\ [Next]_vars => job' \in [Workers -> Jobs]
  <1> SUFFICES ASSUME TypeOK, LocalsInv, [Next]_vars
               PROVE  job' \in [Workers -> Jobs]
    OBVIOUS
  <1>a. job \in [Workers -> Jobs]
    BY DEF TypeOK
  <1>1. ASSUME NEW w \in Workers, NEW m \in Msgs, HandleLocalPublishMessage(w, m)
               PROVE job' \in [Workers -> Jobs]
    <2>1. job[w].pc = "idle"
      BY <1>1 DEF HandleLocalPublishMessage
    <2>2. \/ (wrapper = None /\ Becomes(w, "offline", wrapper, m, job[w].copy, job[w].key,
               job[w].rec, job[w].todo, job[w].items, job[w].holds))
          \/ (wrapper # None /\ Becomes(w, "handle", wrapper, m, job[w].copy, job[w].key,
               job[w].rec, job[w].todo, job[w].items, job[w].holds))
      BY <1>1, HandleLocalPublishMessageJob
    <2>3. QED
      BY <2>2, <1>a DEF Becomes, Moves, Rests
  <1>2. ASSUME NEW w \in Workers, EnqueueOffline(w) PROVE job' \in [Workers -> Jobs]
    <2>1. job[w].pc = "offline"
      BY <1>2 DEF EnqueueOffline
    <2>2. \/ job' = job
          \/ Becomes(w, "relook", job[w].on, None, job[w].copy, job[w].key, job[w].rec,
               job[w].todo, job[w].items, job[w].holds)
      BY <1>2, EnqueueOfflineJob
    <2>3. QED
      BY <2>2, <1>a DEF Becomes, Moves, Rests
  <1>3. ASSUME NEW w \in Workers, LookupAgain(w) PROVE job' \in [Workers -> Jobs]
    <2>1. job[w].pc = "relook"
      BY <1>3 DEF LookupAgain
    <2>2. \/ Rests(w)
          \/ (wrapper # None /\ Becomes(w, "dqTake", wrapper, job[w].cur, job[w].copy, job[w].key,
               job[w].rec, job[w].todo, job[w].items, job[w].holds))
      BY <1>3, LookupAgainJob
    <2>3. QED
      BY <2>2, <1>a DEF Becomes, Moves, Rests
  <1>4. ASSUME NEW w \in Workers, HandleMessage(w) PROVE job' \in [Workers -> Jobs]
    <2>1. job[w].pc = "handle"
      BY <1>4 DEF HandleMessage
    <2>2. \/ Rests(w)
          \/ Moves(w, "offer")
          \/ Moves(w, "inChk")
      BY <1>4, HandleMessageJob
    <2>3. QED
      BY <2>2, <1>a DEF Becomes, Moves, Rests
  <1>5. ASSUME NEW w \in Workers, Offer(w) PROVE job' \in [Workers -> Jobs]
    <2>1. job[w].pc = "offer"
      BY <1>5 DEF Offer, LeaveTry, ReleaseInflightCas
    <2>2. \/ job' = job
          \/ Rests(w)
          \/ Becomes(w, "dqTake", job[w].on, None, job[w].copy, job[w].key, job[w].rec,
               job[w].todo, job[w].items, FALSE)
      BY <1>5, OfferJob
    <2>3. QED
      BY <2>2, <1>a DEF Becomes, Moves, Rests
  <1>5a. ASSUME NEW w \in Workers, InflightCheck(w) PROVE job' \in [Workers -> Jobs]
    <2>1. job[w].pc = "inChk"
      BY <1>5a DEF InflightCheck, TakeInflightCas
    <2>2. \/ Rests(w)
          \/ \E p \in {"offer", "inPut"} : Becomes(w, p, job[w].on, job[w].cur, job[w].copy,
               job[w].key, job[w].rec, job[w].todo, job[w].items, TRUE)
      BY <1>5a, InflightCheckJob
    <2>3. QED
      BY <2>2, <1>a DEF Becomes, Moves, Rests
  <1>6. ASSUME NEW w \in Workers, InflightPut(w) PROVE job' \in [Workers -> Jobs]
    <2>1. job[w].pc = "inPut"
      BY <1>6 DEF InflightPut, Put, SaveInflightTimeout, Publish, ReleaseInflightCas
    <2>2. \/ Moves(w, "offer")
          \/ Rests(w)
      BY <1>6, InflightPutJob
    <2>3. QED
      BY <2>2, <1>a DEF Becomes, Moves, Rests
  <1>7. ASSUME NEW w \in Workers, DequeueTake(w) PROVE job' \in [Workers -> Jobs]
    <2>1. job[w].pc = "dqTake"
      BY <1>7 DEF DequeueTake
    <2>2. \/ Rests(w)
          \/ Moves(w, "dqChk")
      BY <1>7, DequeueTakeJob
    <2>3. QED
      BY <2>2, <1>a DEF Becomes, Moves, Rests
  <1>8. ASSUME NEW w \in Workers, DequeueCheck(w) PROVE job' \in [Workers -> Jobs]
    <2>1. job[w].pc = "dqChk"
      BY <1>8 DEF DequeueCheck
    <2>2. \/ Moves(w, "dqEnd")
          \/ Moves(w, "dqPoll")
      BY <1>8, DequeueCheckJob
    <2>3. QED
      BY <2>2, <1>a DEF Becomes, Moves, Rests
  <1>9. ASSUME NEW w \in Workers, DequeuePoll(w) PROVE job' \in [Workers -> Jobs]
    <2>1. job[w].pc = "dqPoll"
      BY <1>9 DEF DequeuePoll, TakeInflightCas
    <2>2. \/ Moves(w, "dqEnd")
          \/ (Head(queue) \in Msgs /\ Becomes(w, "dqPut", job[w].on, Head(queue), job[w].copy,
               job[w].key, job[w].rec, job[w].todo, job[w].items, TRUE))
      BY <1>9, DequeuePollJob
    <2>3. QED
      BY <2>2, <1>a DEF Becomes, Moves, Rests
  <1>10. ASSUME NEW w \in Workers, DequeuePut(w) PROVE job' \in [Workers -> Jobs]
    <2>1. job[w].pc = "dqPut"
      BY <1>10 DEF DequeuePut, ReleaseInflightCas, Put, SaveInflightTimeout, Publish
    <2>2. \/ Becomes(w, "dqChk", job[w].on, None, job[w].copy, job[w].key, job[w].rec,
               job[w].todo, job[w].items, FALSE)
          \/ Becomes(w, "dqEnd", job[w].on, None, job[w].copy, job[w].key, job[w].rec,
               job[w].todo, job[w].items, FALSE)
      BY <1>10, DequeuePutJob
    <2>3. QED
      BY <2>2, <1>a DEF Becomes, Moves, Rests
  <1>11. ASSUME NEW w \in Workers, DequeueEnd(w) PROVE job' \in [Workers -> Jobs]
    <2>1. job[w].pc = "dqEnd"
      BY <1>11 DEF DequeueEnd
    <2>2. Rests(w)
      BY <1>11, DequeueEndJob
    <2>3. QED
      BY <2>2, <1>a DEF Becomes, Moves, Rests
  <1>12. ASSUME NEW w \in Workers, NEW p \in wire, ReceivePuback(w, p) \/ ReceivePubcomp(w, p)
                PROVE job' \in [Workers -> Jobs]
    <2>1. job[w].pc = "idle"
      BY <1>12 DEF ReceivePuback, ReceivePubcomp, RemoveInflight
    <2>8. RemoveInflight(w, p)
      BY <1>12 DEF ReceivePuback, ReceivePubcomp
    <2>2. \/ job' = job
          \/ (wrapper # None /\ Becomes(w, "dqTake", wrapper, job[w].cur, job[w].copy, job[w].key,
               job[w].rec, job[w].todo, job[w].items, job[w].holds))
      BY <2>8, RemoveInflightJob
    <2>3. QED
      BY <2>2, <1>a DEF Becomes, Moves, Rests
  <1>13. ASSUME NEW w \in Workers, NEW p \in wire, ReceivePubrec(w, p)
                PROVE job' \in [Workers -> Jobs]
    <2>1. job[w].pc = "idle"
      BY <1>13 DEF ReceivePubrec
    <2>2. (\E e \in Entries \cup {None} : (e = None \/ e = inflights[p.id])
               /\ Becomes(w, "recPut", job[w].on, job[w].cur, e, job[w].key, p, job[w].todo,
                    job[w].items, job[w].holds))
      BY <1>13, ReceivePubrecJob
    <2>3. QED
      BY <2>2, <1>a DEF Becomes, Moves, Rests
  <1>14. ASSUME NEW w \in Workers, PutPubrec(w) PROVE job' \in [Workers -> Jobs]
    <2>1. job[w].pc = "recPut"
      BY <1>14 DEF PutPubrec, Put, SendPubrel
    <2>2. Rests(w)
      BY <1>14, PutPubrecJob
    <2>3. QED
      BY <2>2, <1>a DEF Becomes, Moves, Rests
  <1>15. ASSUME NEW w \in Workers, NEW x \in Conns, NEW k \in Keys, Retry(w, x, k)
                PROVE job' \in [Workers -> Jobs]
    <2>1. job[w].pc = "idle"
      BY <1>15 DEF Retry
    <2>2. \/ job' = job
          \/ Becomes(w, "dqTake", x, job[w].cur, job[w].copy, job[w].key, job[w].rec, job[w].todo,
               job[w].items, job[w].holds)
          \/ (\E p \in {"rtRel", "rtDel"} : inflights[k] \in Entries
               /\ ~RetriesExhausted(inflights[k])
               /\ Becomes(w, p, x, job[w].cur, inflights[k], k, job[w].rec, job[w].todo,
                    job[w].items, job[w].holds))
      BY <1>15, RetryJob
    <2>3. QED
      BY <2>2, <1>a DEF Becomes, Moves, Rests
  <1>16. ASSUME NEW w \in Workers, RetryRelease(w) PROVE job' \in [Workers -> Jobs]
    <2>1. job[w].pc = "rtRel"
      BY <1>16 DEF RetryRelease, Put, SaveInflightTimeout, SendPubrel
    <2>2. Rests(w)
      BY <1>16, RetryReleaseJob
    <2>3. QED
      BY <2>2, <1>a DEF Becomes, Moves, Rests
  <1>17. ASSUME NEW w \in Workers, RetryDelete(w) PROVE job' \in [Workers -> Jobs]
    <2>1. job[w].pc = "rtDel"
      BY <1>17 DEF RetryDelete, TakeInflightCas, Put, SaveInflightTimeout
    <2>9. job[w].on \in Conns /\ job[w].copy \in Entries
      BY <2>1 DEF LocalsInv, LocalsAt, Detached, Retrying
    <2>2. \/ Rests(w)
          \/ Refiles(w)
      BY <1>17, <2>9, RetryDeleteJob
    <2>3. QED
      BY <2>2, <1>a DEF Becomes, Moves, Rests, Refiles
  <1>18. ASSUME NEW w \in Workers, RetryPut(w) PROVE job' \in [Workers -> Jobs]
    <2>1. job[w].pc = "rtPut"
      BY <1>18 DEF RetryPut, ReleaseInflightCas, Put, SaveInflightTimeout, Publish
    <2>2. Rests(w)
      BY <1>18, RetryPutJob
    <2>3. QED
      BY <2>2, <1>a DEF Becomes, Moves, Rests
  <1>19. ASSUME NEW w \in Workers, NEW c \in Conns, OpenSession(w, c)
                PROVE job' \in [Workers -> Jobs]
    <2>1. job[w].pc = "idle"
      BY <1>19 DEF OpenSession
    <2>2. (\E x \in Conns : (x = c \/ x = wrapper) /\ Becomes(w, "opEndpoint", x, job[w].cur,
            job[w].copy, job[w].key, job[w].rec, job[w].todo, job[w].items, job[w].holds))
      BY <1>19, OpenSessionJob
    <2>3. QED
      BY <2>2, <1>a DEF Becomes, Moves, Rests
  <1>20. ASSUME NEW w \in Workers, OpenEndpoint(w) PROVE job' \in [Workers -> Jobs]
    <2>1. job[w].pc = "opEndpoint"
      BY <1>20 DEF OpenEndpoint
    <2>2. \/ Becomes(w, "opRetry", job[w].on, job[w].cur, job[w].copy, job[w].key, job[w].rec,
               InflightKeys, job[w].items, job[w].holds)
          \/ Becomes(w, "opCreate", job[w].on, job[w].cur, job[w].copy, job[w].key, job[w].rec,
               job[w].todo, queue, job[w].holds)
          \/ Becomes(w, "opClose", job[w].on, job[w].cur, job[w].copy, job[w].key, job[w].rec,
               job[w].todo, queue, job[w].holds)
      BY <1>20, OpenEndpointJob
    <2>3. QED
      BY <2>2, <1>a DEF Becomes, Moves, Rests
  <1>21. ASSUME NEW w \in Workers, OpenCloseQueue(w) PROVE job' \in [Workers -> Jobs]
    <2>1. job[w].pc = "opClose"
      BY <1>21 DEF OpenCloseQueue
    <2>2. Moves(w, "opCreate")
      BY <1>21, OpenCloseQueueJob
    <2>3. QED
      BY <2>2, <1>a DEF Becomes, Moves, Rests
  <1>22. ASSUME NEW w \in Workers, OpenCreateQueue(w) PROVE job' \in [Workers -> Jobs]
    <2>1. job[w].pc = "opCreate"
      BY <1>22 DEF OpenCreateQueue
    <2>2. Moves(w, "opAdd")
      BY <1>22, OpenCreateQueueJob
    <2>3. QED
      BY <2>2, <1>a DEF Becomes, Moves, Rests
  <1>23. ASSUME NEW w \in Workers, OpenAddItems(w) PROVE job' \in [Workers -> Jobs]
    <2>1. job[w].pc = "opAdd"
      BY <1>23 DEF OpenAddItems
    <2>2. Becomes(w, "opRetry", job[w].on, job[w].cur, job[w].copy, job[w].key, job[w].rec,
            InflightKeys, <<>>, job[w].holds)
      BY <1>23, OpenAddItemsJob
    <2>3. QED
      BY <2>2, <1>a DEF Becomes, Moves, Rests
  <1>24. ASSUME NEW w \in Workers, OpenRetry(w) PROVE job' \in [Workers -> Jobs]
    <2>1. job[w].pc = "opRetry" /\ UNCHANGED conn
      BY <1>24 DEF OpenRetry
    <2>2. PICK k \in job[w].todo : Goto(w, "opAccept") \/ job' = [job EXCEPT ![w].todo = @ \ {k}]
      BY <1>24 DEF OpenRetry
    <2>3. Moves(w, "opAccept") \/ Becomes(w, job[w].pc, job[w].on, job[w].cur, job[w].copy,
            job[w].key, job[w].rec, job[w].todo \ {k}, job[w].items, job[w].holds)
      BY <2>2, JobTypes, JobFields, GotoMoves, OpenRetryJob DEF Places, Opening
    <2>4. QED
      BY <2>3 DEF Becomes, Moves
  <1>25. ASSUME NEW w \in Workers, OpenPutWrapper(w) PROVE job' \in [Workers -> Jobs]
    <2>1. job[w].pc = "opRetry"
      BY <1>25 DEF OpenPutWrapper
    <2>2. Moves(w, "opAccept")
      BY <1>25, OpenPutWrapperJob
    <2>3. QED
      BY <2>2, <1>a DEF Becomes, Moves, Rests
  <1>26. ASSUME NEW w \in Workers, Accept(w) PROVE job' \in [Workers -> Jobs]
    <2>1. job[w].pc = "opAccept"
      BY <1>26 DEF Accept
    <2>2. Rests(w)
      BY <1>26, AcceptJob
    <2>3. QED
      BY <2>2, <1>a DEF Becomes, Moves, Rests
  <1>27. ASSUME NEW w \in Workers, NEW c \in Conns, CloseSession(w, c)
                PROVE job' \in [Workers -> Jobs]
    BY <1>27, <1>a DEF CloseSession
  <1>28. ASSUME NEW x \in Conns, NEW k \in Keys, Expire(x, k) PROVE job' \in [Workers -> Jobs]
    BY <1>28, <1>a DEF Expire
  <1>29. ASSUME NEW c \in Conns, Disconnect(c) PROVE job' \in [Workers -> Jobs]
    BY <1>29, <1>a DEF Disconnect
  <1>30. CASE Crash
    BY <1>30 DEF Crash, Idle, Jobs, Places, Keys
  <1>31. CASE UNCHANGED vars
    BY <1>31, <1>a DEF vars
  <1>32. QED
    BY <1>1, <1>2, <1>3, <1>4, <1>5, <1>5a, <1>6, <1>7, <1>8, <1>9, <1>10, <1>11, <1>12, <1>13,
      <1>14,
       <1>15, <1>16, <1>17, <1>18, <1>19, <1>20, <1>21, <1>22, <1>23, <1>24, <1>25, <1>26,
       <1>27, <1>28, <1>29, <1>30, <1>31 DEF Next, WorkerStep, ReceiveAnswer, Quiet

\* A PUBLISH to the client leaves ids and packets well typed.
LEMMA PublishType ==
    ASSUME TypeOK, NEW x \in Conns, NEW m \in Msgs, Publish(x, m)
    PROVE  lastId' \in [Conns -> 0..MaxMessageId] /\ spent' \subseteq Conns
           /\ wire' \subseteq Packets /\ UNCHANGED conn
  <1>1. CASE ~Connected(x)
    BY <1>1 DEF Publish, TypeOK
  <1>2. CASE Connected(x)
    <2>1. endpoint[x] \in Conns /\ NextMessageId(x) \in 1..MaxMessageId
      BY <1>2, NextIdType
    <2> DEFINE id == NextMessageId(x)
               p == [conn |-> endpoint[x], type |-> "PUBLISH", id |-> id, msg |-> m,
                 by |-> endpoint[x]]
    <2>2. lastId' = [lastId EXCEPT ![endpoint[x]] = id] /\ wire' = wire \cup {p} /\ UNCHANGED conn
      BY <1>2 DEF Publish
    <2>3. p \in Packets
      BY <2>1 DEF Packets, Conns
    <2>5. spent' \subseteq Conns
      BY <1>2, <2>1 DEF Publish, TypeOK
    <2> HIDE DEF id, p
    <2>4. QED
      BY <2>1, <2>2, <2>3, <2>5 DEF TypeOK, id
  <1>3. QED
    BY <1>1, <1>2

\* So does a PUBREL.
LEMMA PubrelType ==
    ASSUME TypeOK, NEW c \in Conns \cup {None}, NEW k \in Keys, NEW m \in Msgs,
           NEW b \in 0..MaxConns,
           SendPubrel(c, k, m, b)
    PROVE  wire' \subseteq Packets
  <1> DEFINE p == [conn |-> c, type |-> "PUBREL", id |-> k, msg |-> m, by |-> b]
  <1>1. wire' = wire \/ (c # None /\ k # NoId /\ wire' = wire \cup {p})
    BY DEF SendPubrel
  <1>2. c # None /\ k # NoId => p \in Packets
    BY DEF Packets, Keys
  <1> HIDE DEF p
  <1>3. QED
    BY <1>1, <1>2 DEF TypeOK

\* A timer that is set leaves the timers well typed.
LEMMA TimeoutType ==
    ASSUME TypeOK, NEW x \in Conns, NEW k \in Keys, SaveInflightTimeout(x, k)
    PROVE  timeouts' \in [Conns -> SUBSET Keys] /\ expired' \in [Conns -> SUBSET Keys]
  BY DEF TypeOK, SaveInflightTimeout

\* A queue that is full holds a message: its head may be taken.
LEMMA QueueType ==
    ASSUME TypeOK
    PROVE  /\ \A m \in Msgs : Append(queue, m) \in Seq(Msgs)
           /\ queue # <<>> => Tail(queue) \in Seq(Msgs) /\ Head(queue) \in Msgs
           /\ QueueIsFull => queue # <<>>
  BY DEF TypeOK, QueueIsFull

\* Every step preserves the types the other parts do not cover.
LEMMA RestStep == TypeOK /\ LocalsInv /\ OpenInv /\ [Next]_vars => RestOK'
  <1> SUFFICES ASSUME TypeOK, LocalsInv, OpenInv, [Next]_vars
               PROVE  RestOK'
    OBVIOUS
  <1>a. RestOK
    BY DEF TypeOK, RestOK
  <1>b. \A w \in Workers : LocalsAt(w)
    BY DEF LocalsInv
  <1>1. ASSUME NEW w \in Workers, NEW m \in Msgs, HandleLocalPublishMessage(w, m) PROVE RestOK'
    BY <1>1, <1>a DEF HandleLocalPublishMessage, RestOK
  <1>2. ASSUME NEW w \in Workers, EnqueueOffline(w) PROVE RestOK'
    <2>1. job[w].cur \in Msgs
      BY <1>2, <1>b DEF EnqueueOffline, LocalsAt, Detached, Carrying
    <2>2. queue' \in Seq(Msgs) /\ evicted' \subseteq Msgs
      BY <1>2, <2>1, <1>a, QueueType DEF EnqueueOffline, RestOK
    <2>3. QED
      BY <1>2, <2>2, <1>a DEF EnqueueOffline, RestOK
  <1>3. ASSUME NEW w \in Workers, LookupAgain(w) PROVE RestOK'
    BY <1>3, <1>a DEF RestOK, LookupAgain
  <1>4. ASSUME NEW w \in Workers, HandleMessage(w) PROVE RestOK'
    BY <1>4, <1>a DEF RestOK, HandleMessage
  <1>5. ASSUME NEW w \in Workers, Offer(w) PROVE RestOK'
    <2>1. job[w].on \in Conns /\ job[w].cur \in Msgs
      BY <1>5, <1>b DEF Offer, LocalsAt, Detached, Carrying
    <2>2. queue' \in Seq(Msgs) /\ evicted' \subseteq Msgs
      BY <1>5, <2>1, <1>a, QueueType DEF Offer, RestOK
    <2>3. queueCas' \in [Conns -> {0, 1}] /\ inflightCas' \in [Conns -> {0, 1}]
      <3>1. UNCHANGED queueCas /\ (UNCHANGED inflightCas
              \/ inflightCas' = [inflightCas EXCEPT ![job[w].on] = 0])
        BY <1>5 DEF Offer, LeaveTry, ReleaseInflightCas
      <3>2. QED
        BY <3>1, <2>1, <1>a DEF RestOK
    <2>4. QED
      BY <1>5, <2>2, <2>3, <1>a DEF Offer, RestOK
  <1>5a. ASSUME NEW w \in Workers, InflightCheck(w) PROVE RestOK'
    <2>1. job[w].on \in Conns
      BY <1>5a, <1>b DEF InflightCheck, LocalsAt, Detached
    <2>2. QED
      BY <1>5a, <2>1, <1>a DEF InflightCheck, TakeInflightCas, RestOK
  <1>6. ASSUME NEW w \in Workers, InflightPut(w) PROVE RestOK'
    <2>1. job[w].on \in Conns /\ job[w].cur \in Msgs
      BY <1>6, <1>b DEF InflightPut, LocalsAt, Detached, Carrying
    <2>2. queueCas' \in [Conns -> {0, 1}] /\ inflightCas' \in [Conns -> {0, 1}]
      BY <1>6, <2>1, <1>a DEF InflightPut, ReleaseInflightCas, RestOK
    <2>3. NextMessageId(job[w].on) \in Keys
      BY <2>1, NextIdType
    <2>4. timeouts' \in [Conns -> SUBSET Keys] /\ expired' \in [Conns -> SUBSET Keys]
      <3>1. UNCHANGED <<timeouts, expired>> \/ SaveInflightTimeout(job[w].on,
              NextMessageId(job[w].on))
        BY <1>6 DEF InflightPut
      <3>2. QED
        BY <3>1, <2>1, <2>3, <1>a, TimeoutType DEF RestOK
    <2>5. UNCHANGED conn /\ lastId' \in [Conns -> 0..MaxMessageId] /\ spent' \subseteq Conns
            /\ wire' \subseteq Packets
      <3>1. UNCHANGED <<conn, lastId, spent, wire>> \/ Publish(job[w].on, job[w].cur)
        BY <1>6 DEF InflightPut
      <3>2. QED
        BY <3>1, <2>1, <1>a, PublishType DEF RestOK
    <2>6. QED
      BY <1>6, <2>2, <2>4, <2>5, <1>a DEF InflightPut, RestOK
  <1>7. ASSUME NEW w \in Workers, DequeueTake(w) PROVE RestOK'
    <2>1. job[w].on \in Conns
      BY <1>7, <1>b DEF DequeueTake, LocalsAt, Detached
    <2>2. QED
      BY <1>7, <2>1, <1>a DEF DequeueTake, RestOK
  <1>8. ASSUME NEW w \in Workers, DequeueCheck(w) PROVE RestOK'
    BY <1>8, <1>a DEF RestOK, DequeueCheck
  <1>9. ASSUME NEW w \in Workers, DequeuePoll(w) PROVE RestOK'
    <2>1. job[w].on \in Conns
      BY <1>9, <1>b DEF DequeuePoll, LocalsAt, Detached
    <2>2. queue' \in Seq(Msgs)
      BY <1>9, <1>a, QueueType DEF DequeuePoll, MustStop, RestOK
    <2>3. QED
      BY <1>9, <2>1, <2>2, <1>a DEF DequeuePoll, TakeInflightCas, RestOK
  <1>10. ASSUME NEW w \in Workers, DequeuePut(w) PROVE RestOK'
    <2>1. job[w].on \in Conns /\ job[w].cur \in Msgs
      BY <1>10, <1>b DEF DequeuePut, LocalsAt, Detached, Carrying
    <2>2. queueCas' \in [Conns -> {0, 1}] /\ inflightCas' \in [Conns -> {0, 1}]
      BY <1>10, <2>1, <1>a DEF DequeuePut, ReleaseInflightCas, RestOK
    <2>3. NextMessageId(job[w].on) \in Keys
      BY <2>1, NextIdType
    <2>4. timeouts' \in [Conns -> SUBSET Keys] /\ expired' \in [Conns -> SUBSET Keys]
      <3>1. UNCHANGED <<timeouts, expired>> \/ SaveInflightTimeout(job[w].on,
              NextMessageId(job[w].on))
        BY <1>10 DEF DequeuePut
      <3>2. QED
        BY <3>1, <2>1, <2>3, <1>a, TimeoutType DEF RestOK
    <2>5. UNCHANGED conn /\ lastId' \in [Conns -> 0..MaxMessageId] /\ spent' \subseteq Conns
            /\ wire' \subseteq Packets
      <3>1. UNCHANGED <<conn, lastId, spent, wire>> \/ Publish(job[w].on, job[w].cur)
        BY <1>10 DEF DequeuePut
      <3>2. QED
        BY <3>1, <2>1, <1>a, PublishType DEF RestOK
    <2>6. QED
      BY <1>10, <2>2, <2>4, <2>5, <1>a DEF DequeuePut, RestOK
  <1>11. ASSUME NEW w \in Workers, DequeueEnd(w) PROVE RestOK'
    <2>1. job[w].on \in Conns
      BY <1>11, <1>b DEF DequeueEnd, LocalsAt, Detached
    <2>2. QED
      BY <1>11, <2>1, <1>a DEF DequeueEnd, RestOK
  <1>12. ASSUME NEW w \in Workers, NEW p \in wire, ReceivePuback(w, p) \/ ReceivePubcomp(w, p)
                PROVE RestOK'
    <2>1. RemoveInflight(w, p)
      BY <1>12 DEF ReceivePuback, ReceivePubcomp
    <2>2. p.msg \in Msgs
      BY <1>a DEF RestOK, Packets
    <2>3. UNCHANGED timeouts
            \/ (wrapper \in Conns /\ timeouts' = [timeouts EXCEPT ![wrapper] = @ \ {p.id}])
      BY <2>1, <1>a DEF RemoveInflight, RestOK
    <2>4. timeouts' \in [Conns -> SUBSET Keys]
      <3>1. timeouts \in [Conns -> SUBSET Keys]
        BY <1>a DEF RestOK
      <3>2. CASE wrapper \in Conns /\ timeouts' = [timeouts EXCEPT ![wrapper] = @ \ {p.id}]
        BY <3>1, <3>2
      <3>3. QED
        BY <2>3, <3>1, <3>2
    <2>5. wire' \subseteq Packets /\ acked' \subseteq Msgs
      BY <2>1, <2>2, <1>a DEF RemoveInflight, RestOK
    <2>6. QED
      BY <2>1, <2>4, <2>5, <1>a DEF RemoveInflight, RestOK
  <1>13. ASSUME NEW w \in Workers, NEW p \in wire, ReceivePubrec(w, p) PROVE RestOK'
    BY <1>13, <1>a DEF RestOK, ReceivePubrec
  <1>14. ASSUME NEW w \in Workers, PutPubrec(w) PROVE RestOK'
    <2>1. job[w].rec \in Packets
      BY <1>14, <1>b DEF PutPubrec, LocalsAt
    <2>2. job[w].rec.conn \in Conns /\ job[w].rec.id \in Keys /\ job[w].rec.msg \in Msgs
            /\ job[w].rec.by \in 0..MaxConns
      BY <2>1 DEF Packets, Keys
    <2>3. SendPubrel(job[w].rec.conn, job[w].rec.id, job[w].rec.msg, job[w].rec.by)
      BY <1>14 DEF PutPubrec
    <2>4. wire' \subseteq Packets
      BY <2>2, <2>3, PubrelType
    <2>5. QED
      BY <1>14, <2>2, <2>4, <1>a DEF PutPubrec, NoteRevived, RestOK
  <1>15. ASSUME NEW w \in Workers, NEW x \in Conns, NEW k \in Keys, Retry(w, x, k) PROVE RestOK'
    <2>1. inflights[k] # None => inflights[k].msg \in Msgs
      BY <1>15 DEF TypeOK, Entries
    <2>2. dropped' \subseteq Msgs
      BY <1>15, <2>1, <1>a DEF Retry, RestOK
    <2>3. expired' = [expired EXCEPT ![x] = @ \ {k}]
      BY <1>15 DEF Retry
    <2>4. expired' \in [Conns -> SUBSET Keys]
      BY <2>3, <1>a DEF RestOK
    <2>5. QED
      BY <1>15, <2>2, <2>4, <1>a DEF Retry, RestOK
  <1>16. ASSUME NEW w \in Workers, RetryRelease(w) PROVE RestOK'
    <2>1. job[w].on \in Conns /\ job[w].copy \in Entries
      BY <1>16, <1>b DEF RetryRelease, LocalsAt, Detached, Retrying
    <2>2. job[w].key \in Keys /\ job[w].copy.msg \in Msgs
            /\ endpoint[job[w].on] \in Conns \cup {None} /\ job[w].copy.by \in 0..MaxConns
      BY <2>1, <1>a, JobTypes, JobFields DEF Entries, RestOK
    <2>3. SaveInflightTimeout(job[w].on, job[w].key) /\ SendPubrel(endpoint[job[w].on],
            job[w].key, job[w].copy.msg, job[w].copy.by)
      BY <1>16 DEF RetryRelease
    <2>4. wire' \subseteq Packets
      BY <2>2, <2>3, PubrelType
    <2>5. timeouts' \in [Conns -> SUBSET Keys] /\ expired' \in [Conns -> SUBSET Keys]
      BY <2>1, <2>2, <2>3, TimeoutType
    <2>6. QED
      BY <1>16, <2>2, <2>4, <2>5, <1>a DEF RetryRelease, NoteRevived, RestOK
  <1>17. ASSUME NEW w \in Workers, RetryDelete(w) PROVE RestOK'
    <2>1. job[w].on \in Conns
      BY <1>17, <1>b DEF RetryDelete, LocalsAt, Detached
    <2>2. job[w].key \in Keys
      BY JobTypes, JobFields
    <2>3. UNCHANGED <<timeouts, expired>> \/ SaveInflightTimeout(job[w].on, job[w].key)
      BY <1>17 DEF RetryDelete
    <2>4. timeouts' \in [Conns -> SUBSET Keys] /\ expired' \in [Conns -> SUBSET Keys]
      BY <2>1, <2>2, <2>3, <1>a, TimeoutType DEF RestOK
    <2>5. queueCas' \in [Conns -> {0, 1}] /\ inflightCas' \in [Conns -> {0, 1}]
      BY <1>17, <2>1, <1>a DEF RetryDelete, TakeInflightCas, RestOK
    <2>6. QED
      BY <1>17, <2>4, <2>5, <1>a DEF RetryDelete, RestOK
  <1>18. ASSUME NEW w \in Workers, RetryPut(w) PROVE RestOK'
    <2>1. job[w].on \in Conns /\ job[w].copy \in Entries
      BY <1>18, <1>b DEF RetryPut, LocalsAt, Detached, Retrying
    <2>2. job[w].key \in Keys /\ job[w].copy.msg \in Msgs
      BY <2>1, JobTypes, JobFields DEF Entries
    <2>3. SaveInflightTimeout(job[w].on, job[w].key) /\ Publish(job[w].on, job[w].copy.msg)
      BY <1>18 DEF RetryPut
    <2>4. timeouts' \in [Conns -> SUBSET Keys] /\ expired' \in [Conns -> SUBSET Keys]
      BY <2>1, <2>2, <2>3, TimeoutType
    <2>5. UNCHANGED conn /\ lastId' \in [Conns -> 0..MaxMessageId] /\ spent' \subseteq Conns
            /\ wire' \subseteq Packets
      BY <2>1, <2>2, <2>3, PublishType
    <2>6. queueCas' \in [Conns -> {0, 1}] /\ inflightCas' \in [Conns -> {0, 1}]
      BY <1>18, <2>1, <1>a DEF RetryPut, ReleaseInflightCas, RestOK
    <2>7. QED
      BY <1>18, <2>4, <2>5, <2>6, <1>a DEF RetryPut, RestOK
  <1>19. ASSUME NEW w \in Workers, NEW c \in Conns, OpenSession(w, c) PROVE RestOK'
    BY <1>19, <1>a DEF RestOK, OpenSession
  <1>20. ASSUME NEW w \in Workers, OpenEndpoint(w) PROVE RestOK'
    <2>1. Incoming \in Conns
      BY <1>20 DEF OpenEndpoint, OpenInv, Opening, Incoming
    <2>2. endpoint' = [endpoint EXCEPT ![job[w].on] = Incoming]
      BY <1>20 DEF OpenEndpoint
    <2>3. UNCHANGED conn \/ conn' = [conn EXCEPT ![endpoint[job[w].on]] = IF @ = "accepted"
            THEN "closing" ELSE @]
      BY <1>20 DEF OpenEndpoint
    <2>4. endpoint' \in [Conns -> Conns \cup {None}]
      BY <2>1, <2>2, <1>a DEF RestOK
    <2>5. conn' \in [Conns -> {"new", "opening", "accepted", "closing", "closed"}]
      BY <2>3, <1>a DEF RestOK
    <2>6. QED
      BY <1>20, <2>4, <2>5, <1>a DEF OpenEndpoint, RestOK
  <1>21. ASSUME NEW w \in Workers, OpenCloseQueue(w) PROVE RestOK'
    BY <1>21, <1>a DEF RestOK, OpenCloseQueue
  <1>22. ASSUME NEW w \in Workers, OpenCreateQueue(w) PROVE RestOK'
    <2>1. job[w].on \in Conns
      BY <1>22, <1>b DEF OpenCreateQueue, LocalsAt, Detached
    <2>2. QED
      BY <1>22, <2>1, <1>a DEF OpenCreateQueue, RestOK
  <1>23. ASSUME NEW w \in Workers, OpenAddItems(w) PROVE RestOK'
    <2>1. job[w].items \in Seq(Msgs)
      BY JobTypes, JobFields
    <2>2. queue' \in Seq(Msgs)
      BY <1>23, <2>1, <1>a DEF OpenAddItems, RestOK
    <2>3. QED
      BY <1>23, <2>2, <1>a DEF OpenAddItems, RestOK
  <1>24. ASSUME NEW w \in Workers, OpenRetry(w) PROVE RestOK'
    <2>1. job[w].on \in Conns
      BY <1>24, <1>b DEF OpenRetry, LocalsAt, Detached
    <2>2. PICK k \in job[w].todo : UNCHANGED <<timeouts, expired>>
            \/ SaveInflightTimeout(job[w].on, k)
      BY <1>24 DEF OpenRetry
    <2>3. k \in Keys
      BY JobTypes, JobFields
    <2>4. timeouts' \in [Conns -> SUBSET Keys] /\ expired' \in [Conns -> SUBSET Keys]
      BY <2>1, <2>2, <2>3, <1>a, TimeoutType DEF RestOK
    <2>5. QED
      BY <1>24, <2>4, <1>a DEF OpenRetry, RestOK
  <1>25. ASSUME NEW w \in Workers, OpenPutWrapper(w) PROVE RestOK'
    <2>1. job[w].on \in Conns
      BY <1>25, <1>b DEF OpenPutWrapper, LocalsAt, Detached
    <2>2. QED
      BY <1>25, <2>1, <1>a DEF OpenPutWrapper, RestOK
  <1>26. ASSUME NEW w \in Workers, Accept(w) PROVE RestOK'
    BY <1>26, <1>a DEF RestOK, Accept
  <1>27. ASSUME NEW w \in Workers, NEW c \in Conns, CloseSession(w, c) PROVE RestOK'
    BY <1>27, <1>a DEF RestOK, CloseSession
  <1>28. ASSUME NEW x \in Conns, NEW k \in Keys, Expire(x, k) PROVE RestOK'
    BY <1>28, <1>a DEF RestOK, Expire
  <1>29. ASSUME NEW c \in Conns, Disconnect(c) PROVE RestOK'
    BY <1>29, <1>a DEF RestOK, Disconnect
  <1>30. CASE Crash
    BY <1>30, <1>a DEF RestOK, Crash
  <1>31. CASE UNCHANGED vars
    BY <1>31, <1>a DEF vars, RestOK
  <1>32. QED
    BY <1>1, <1>2, <1>3, <1>4, <1>5, <1>5a, <1>6, <1>7, <1>8, <1>9, <1>10, <1>11, <1>12, <1>13,
      <1>14,
       <1>15, <1>16, <1>17, <1>18, <1>19, <1>20, <1>21, <1>22, <1>23, <1>24, <1>25, <1>26,
       <1>27, <1>28, <1>29, <1>30, <1>31 DEF Next, WorkerStep, ReceiveAnswer, Quiet

-----------------------------------------------------------------------------
(* Theorems                                                                 *)

Inv == TypeOK /\ LocalsInv /\ OpenInv /\ RetryInv /\ LockInv

\* The invariant holds initially.
LEMMA InitInv == Init => Inv
  <1> SUFFICES ASSUME Init PROVE Inv
    OBVIOUS
  <1>1. \A w \in Workers : job[w] = Idle
    BY DEF Init
  <1>2. \A w \in Workers : /\ job[w].pc = "idle" /\ job[w].holds = FALSE
                          /\ job[w].cur = None /\ job[w].copy = None /\ job[w].items = <<>>
    BY <1>1 DEF Idle
  <1>3. TypeOK
    <2>1. job \in [Workers -> Jobs]
      BY DEF Init, Idle, Jobs, Places, Keys
    <2>2. 1 \in Conns
      BY DEF Conns
    <2>3. taken \subseteq Msgs /\ acked \subseteq Msgs
      BY DEF Init
    <2>4. QED
      BY <2>1, <2>2, <2>3 DEF Init, TypeOK
  <1>4. LocalsInv
    BY <1>2 DEF LocalsInv, LocalsAt, Detached, Carrying, Retrying, Trying, Saving
  <1>5. OpenInv
    BY <1>2 DEF Init, OpenInv, Opening, Conns
  <1>6. RetryInv
    BY <1>2 DEF Init, RetryInv, Low, Awaits
  <1>7. LockInv
    BY <1>2 DEF Init, LockInv
  <1>8. QED
    BY <1>3, <1>4, <1>5, <1>6, <1>7 DEF Inv

\* Every step keeps the invariant.
LEMMA NextInv == Inv /\ [Next]_vars => Inv'
  <1> SUFFICES ASSUME Inv, [Next]_vars PROVE Inv'
    OBVIOUS
  <1>1. TypeOK /\ LocalsInv /\ OpenInv /\ RetryInv /\ LockInv
    BY DEF Inv
  <1>2. TypeOK'
    <2>1. job' \in [Workers -> Jobs]
      BY <1>1, JobStep
    <2>2. inflights' \in [Keys -> Entries \cup {None}]
      BY <1>1, EntryStep DEF EntriesGo
    <2>3. RestOK'
      BY <1>1, RestStep
    <2>4. QED
      BY <2>1, <2>2, <2>3 DEF TypeOK, RestOK
  <1>3. LocalsInv'
    BY <1>1, LocalsStep
  <1>4. OpenInv'
    BY <1>1, OpenStep
  <1>5. RetryInv'
    BY <1>1, RetryStep
  <1>6. LockInv'
    BY <1>1, LockStep
  <1>7. QED
    BY <1>2, <1>3, <1>4, <1>5, <1>6 DEF Inv

\* The invariant always holds.
LEMMA Invariance == Spec => []Inv
  BY InitInv, NextInv, PTL DEF Spec

\* Every variable of the persistent session holds a value of its Java type: over
\* any number of reconnections and crashes no retry count exceeds the configured
\* maximum by more than one per reconnection, although open() retries every stored
\* entry without asking for the maximum and receivePubrec() stores a copy that may
\* be older than the entry it replaces.
THEOREM PersistentTypes == Spec => []TypeOK
  <1>1. Inv => TypeOK
    BY DEF Inv
  <1>2. QED
    BY <1>1, Invariance, PTL

\* queueCas and inflightCas of every wrapper are free when no handler runs: each
\* way out of inflight(), dequeue() and retryInflight(), the exception of a removed
\* queue included, releases what its worker has taken.
THEOREM LocksAreReleased == Spec => []LocksFree
  <1>1. Inv => LocksFree
    <2> SUFFICES ASSUME Inv, AtRest, NEW x \in Conns
                 PROVE  queueCas[x] = 0 /\ inflightCas[x] = 0
      BY DEF LocksFree
    <2>1. \A w \in Workers : job[w].pc \notin Draining /\ ~job[w].holds
      BY DEF Inv, LocalsInv, LocalsAt, AtRest, Draining, Trying
    <2>2. queueCas[x] # 1 /\ inflightCas[x] # 1
      BY <2>1 DEF Inv, LockInv
    <2>3. QED
      BY <2>2 DEF Inv, TypeOK
  <1>2. QED
    BY <1>1, Invariance, PTL

-----------------------------------------------------------------------------
(* Steps that leave the inflight entries, their timers and the packets alone *)

\* Places of a worker that has a copy of an entry.
Copying == Retrying \cup {"recPut"}

\* Worker w takes a step that touches neither the inflight entries nor the
\* connections, packets and timers, and has no copy of an entry.
Calm(w) ==
    /\ UNCHANGED <<inflights, conn, lastId, spent, wire, endpoint, timeouts, expired, revived,
         crashes>>
    /\ \A v \in Workers : v # w => job'[v] = job[v]
    /\ job[w].pc \notin Copying \cup {"opEndpoint"} /\ job'[w].pc \notin Copying \cup {"opEndpoint"}
    /\ job'[w].pc = "opRetry" => job'[w].todo = InflightKeys
    /\ job'[w].pc \in Opening => job[w].pc \in Opening /\ job'[w].on = job[w].on
    /\ wrapper' # wrapper => job[w].pc = "opRetry" /\ job[w].todo = {} /\ wrapper' = job[w].on

\* A step that is not calm.
Stir ==
    \/ \E w \in Workers :
         \/ InflightPut(w) /\ NextMessageId(job[w].on) # NoId
         \/ DequeuePut(w)
         \/ \E p \in wire : At(w, "idle") /\ RemoveInflight(w, p)
         \/ \E p \in wire : ReceivePubrec(w, p)
         \/ PutPubrec(w)
         \/ \E x \in Conns, k \in Keys : Retry(w, x, k)
         \/ RetryRelease(w)
         \/ RetryDelete(w)
         \/ RetryPut(w)
         \/ \E c \in Conns : OpenSession(w, c) \/ CloseSession(w, c)
         \/ OpenEndpoint(w)
         \/ OpenRetry(w) /\ job'[w].pc # "opAccept"
         \/ Accept(w)
    \/ \E x \in Conns, k \in Keys : Expire(x, k)
    \/ \E c \in Conns : Disconnect(c)
    \/ Crash

\* A step is calm, or it is one of those that stir.
LEMMA StepKinds == Inv /\ [Next]_vars => UNCHANGED vars \/ (\E w \in Workers : Calm(w)) \/ Stir
  <1> SUFFICES ASSUME Inv, [Next]_vars PROVE UNCHANGED vars \/ (\E w \in Workers : Calm(w)) \/ Stir
    OBVIOUS
  <1>a. TypeOK
    BY DEF Inv
  <1>1. ASSUME NEW w \in Workers, NEW m \in Msgs, HandleLocalPublishMessage(w, m) PROVE Calm(w)
    <2>1. job[w].pc = "idle" /\ UNCHANGED <<inflights, serverVars, revived, crashes>>
      BY <1>1 DEF HandleLocalPublishMessage
    <2>2. QED
      BY <1>1, <1>a, <2>1, HandleLocalPublishMessageJob
        DEF Becomes, Calm, Copying, Retrying, Opening
  <1>2. ASSUME NEW w \in Workers, EnqueueOffline(w) PROVE Calm(w)
    <2>1. job[w].pc = "offline" /\ UNCHANGED <<inflights, serverVars, revived, crashes>>
      BY <1>2 DEF EnqueueOffline
    <2>2. QED
      BY <1>2, <1>a, <2>1, EnqueueOfflineJob DEF Becomes, Calm, Copying, Retrying, Opening
  <1>3. ASSUME NEW w \in Workers, LookupAgain(w) PROVE Calm(w)
    <2>1. job[w].pc = "relook" /\ UNCHANGED <<inflights, serverVars, revived, crashes>>
      BY <1>3 DEF LookupAgain
    <2>2. QED
      BY <1>3, <1>a, <2>1, LookupAgainJob DEF Becomes, Rests, Calm, Copying, Retrying, Opening
  <1>4. ASSUME NEW w \in Workers, HandleMessage(w) PROVE Calm(w)
    <2>1. job[w].pc = "handle" /\ UNCHANGED <<inflights, serverVars, revived, crashes>>
      BY <1>4 DEF HandleMessage
    <2>2. QED
      BY <1>4, <1>a, <2>1, HandleMessageJob
        DEF Becomes, Rests, Moves, Calm, Copying, Retrying, Opening
  <1>5. ASSUME NEW w \in Workers, Offer(w) PROVE Calm(w)
    <2>1. job[w].pc = "offer" /\ UNCHANGED <<inflights, endpointVars, wrapperVars, timerVars,
            revived, crashes>>
      BY <1>5 DEF Offer
    <2>2. QED
      BY <1>5, <1>a, <2>1, OfferJob DEF Becomes, Rests, Moves, Calm, Copying, Retrying, Opening
  <1>6. ASSUME NEW w \in Workers, InflightCheck(w) PROVE Calm(w)
    <2>1. job[w].pc = "inChk" /\ UNCHANGED <<inflights, endpointVars, wrapperVars, timerVars,
            revived, crashes>>
      BY <1>6 DEF InflightCheck
    <2>2. QED
      BY <1>6, <1>a, <2>1, InflightCheckJob DEF Becomes, Rests, Calm, Copying, Retrying, Opening
  <1>7. ASSUME NEW w \in Workers, InflightPut(w), NextMessageId(job[w].on) = NoId PROVE Calm(w)
    <2>1. job[w].pc = "inPut" /\ UNCHANGED <<inflights, endpointVars, wrapperVars, timerVars,
            revived, crashes>>
      BY <1>7 DEF InflightPut
    <2>2. QED
      BY <1>7, <1>a, <2>1, InflightPutJob DEF Becomes, Moves, Calm, Copying, Retrying, Opening
  <1>8. ASSUME NEW w \in Workers, DequeueTake(w) PROVE Calm(w)
    <2>1. job[w].pc = "dqTake" /\ UNCHANGED <<inflights, endpointVars, wrapperVars, timerVars,
            revived, crashes>>
      BY <1>8 DEF DequeueTake
    <2>2. QED
      BY <1>8, <1>a, <2>1, DequeueTakeJob
        DEF Becomes, Rests, Moves, Calm, Copying, Retrying, Opening
  <1>9. ASSUME NEW w \in Workers, DequeueCheck(w) PROVE Calm(w)
    <2>1. job[w].pc = "dqChk" /\ UNCHANGED <<inflights, endpointVars, wrapperVars, timerVars,
            revived, crashes>>
      BY <1>9 DEF DequeueCheck
    <2>2. QED
      BY <1>9, <1>a, <2>1, DequeueCheckJob
        DEF Becomes, Rests, Moves, Calm, Copying, Retrying, Opening
  <1>10. ASSUME NEW w \in Workers, DequeuePoll(w) PROVE Calm(w)
    <2>1. job[w].pc = "dqPoll" /\ UNCHANGED <<inflights, endpointVars, wrapperVars, timerVars,
            revived, crashes>>
      BY <1>10 DEF DequeuePoll
    <2>2. QED
      BY <1>10, <1>a, <2>1, DequeuePollJob
        DEF Becomes, Rests, Moves, Calm, Copying, Retrying, Opening
  <1>11. ASSUME NEW w \in Workers, DequeueEnd(w) PROVE Calm(w)
    <2>1. job[w].pc = "dqEnd" /\ UNCHANGED <<inflights, endpointVars, wrapperVars, timerVars,
            revived, crashes>>
      BY <1>11 DEF DequeueEnd
    <2>2. QED
      BY <1>11, <1>a, <2>1, DequeueEndJob
        DEF Becomes, Rests, Moves, Calm, Copying, Retrying, Opening
  <1>12. ASSUME NEW w \in Workers, OpenCloseQueue(w) PROVE Calm(w)
    <2>1. job[w].pc = "opClose" /\ UNCHANGED <<inflights, serverVars, revived, crashes>>
      BY <1>12 DEF OpenCloseQueue
    <2>2. QED
      BY <1>12, <1>a, <2>1, OpenCloseQueueJob
        DEF Becomes, Rests, Moves, Calm, Copying, Retrying, Opening
  <1>13. ASSUME NEW w \in Workers, OpenCreateQueue(w) PROVE Calm(w)
    <2>1. job[w].pc = "opCreate" /\ UNCHANGED <<inflights, serverVars, revived, crashes>>
      BY <1>13 DEF OpenCreateQueue
    <2>2. QED
      BY <1>13, <1>a, <2>1, OpenCreateQueueJob
        DEF Becomes, Rests, Moves, Calm, Copying, Retrying, Opening
  <1>14. ASSUME NEW w \in Workers, OpenAddItems(w) PROVE Calm(w)
    <2>1. job[w].pc = "opAdd" /\ UNCHANGED <<inflights, serverVars, revived, crashes>>
      BY <1>14 DEF OpenAddItems
    <2>2. QED
      BY <1>14, <1>a, <2>1, OpenAddItemsJob
        DEF Becomes, Rests, Moves, Calm, Copying, Retrying, Opening
  <1>15. ASSUME NEW w \in Workers, OpenRetry(w), job'[w].pc = "opAccept" PROVE Calm(w)
    <2>1. job[w].pc = "opRetry"
      BY <1>15 DEF OpenRetry
    <2>2. PICK k \in job[w].todo :
            \/ Goto(w, "opAccept") /\ UNCHANGED <<inflights, timerVars>>
            \/ job' = [job EXCEPT ![w].todo = @ \ {k}]
      BY <1>15 DEF OpenRetry
    <2>3. k \in Keys
      BY <1>a, JobTypes, JobFields
    <2>4. CASE job' = [job EXCEPT ![w].todo = @ \ {k}]
      BY <1>15, <1>a, <2>1, <2>3, <2>4, OpenRetryJob DEF Becomes
    <2>5. CASE Goto(w, "opAccept") /\ UNCHANGED <<inflights, timerVars>>
      <3>1. Moves(w, "opAccept")
        BY <2>5, <1>a, JobTypes, GotoMoves DEF Places, Opening
      <3>2. UNCHANGED <<inflights, endpointVars, wrapperVars, timerVars, revived, crashes>>
        BY <1>15, <2>5 DEF OpenRetry
      <3>3. QED
        BY <2>1, <3>1, <3>2 DEF Becomes, Moves, Calm, Copying, Retrying, Opening
    <2>6. QED
      BY <2>2, <2>4, <2>5
  <1>16. ASSUME NEW w \in Workers, OpenPutWrapper(w) PROVE Calm(w)
    <2>1. /\ job[w].pc = "opRetry" /\ job[w].todo = {}
          /\ wrapper' = job[w].on
          /\ UNCHANGED <<inflights, endpointVars, endpoint, timerVars, revived, crashes>>
      BY <1>16 DEF OpenPutWrapper
    <2>2. QED
      BY <1>16, <1>a, <2>1, OpenPutWrapperJob
        DEF Becomes, Rests, Moves, Calm, Copying, Retrying, Opening
  <1>17. ASSUME NEW w \in Workers, NEW p \in wire, ReceivePuback(w, p) \/ ReceivePubcomp(w, p)
         PROVE  At(w, "idle") /\ RemoveInflight(w, p)
    BY <1>17 DEF ReceivePuback, ReceivePubcomp
  <1>18. ASSUME NEW w \in Workers, WorkerStep(w) PROVE Calm(w) \/ Stir
    BY <1>2, <1>3, <1>4, <1>5, <1>6, <1>7, <1>8, <1>9, <1>10, <1>11, <1>12, <1>13, <1>14, <1>15,
       <1>16, <1>18 DEF WorkerStep, Stir
  <1>19. QED
    BY <1>1, <1>17, <1>18 DEF Next, ReceiveAnswer, Quiet, Stir

-----------------------------------------------------------------------------
(* The slots of the inflight window are watched                             *)

\* A timer of some wrapper, a retry, or an open() that has still to come to the
\* entry will look at the entry under k again.
Watched(k) ==
    \/ \E x \in Conns : k \in timeouts[x] \cup expired[x]
    \/ \E w \in Workers : job[w].pc \in {"rtRel", "rtDel"} /\ job[w].key = k
    \/ wrapper = None /\ \A w \in Workers : job[w].pc = "opRetry" => k \in job[w].todo

WatchInv == \A k \in InflightKeys \ ({NoId} \cup revived) : Watched(k)

\* What becomes of the watch on an entry when worker w takes a step: it is watched
\* anew, or it was there and its watch goes on.
WatchGo(w, k) ==
    \/ \E x \in Conns : k \in timeouts'[x]
    \/ job'[w].pc \in {"rtRel", "rtDel"} /\ job'[w].key = k
    \/ /\ k \in InflightKeys \ revived
       /\ \A x \in Conns : k \in timeouts[x] \cup expired[x] => k \in timeouts'[x] \cup expired'[x]
       /\ ~(job[w].pc \in {"rtRel", "rtDel"} /\ job[w].key = k)
       /\ wrapper' = wrapper \/ wrapper' = None \/ (job[w].pc = "opRetry" /\ job[w].todo = {})
       /\ job'[w].pc = "opRetry" /\ k \notin job'[w].todo => job[w].pc = "opRetry"
            /\ k \notin job[w].todo

\* A step of one worker that WatchGo allows keeps WatchInv.
LEMMA WatchKeep ==
    ASSUME WatchInv, NEW w \in Workers, \A v \in Workers : v # w => job'[v] = job[v],
           \A k \in InflightKeys' \ ({NoId} \cup revived') : WatchGo(w, k)
    PROVE  WatchInv'
  <1> SUFFICES ASSUME NEW k \in InflightKeys' \ ({NoId} \cup revived')
               PROVE  Watched(k)'
    BY DEF WatchInv
  <1>1. WatchGo(w, k)
    OBVIOUS
  <1>2. CASE \E x \in Conns : k \in timeouts'[x]
    BY <1>2 DEF Watched
  <1>3. CASE job'[w].pc \in {"rtRel", "rtDel"} /\ job'[w].key = k
    BY <1>3 DEF Watched
  <1>4. CASE /\ k \in InflightKeys \ revived
             /\ \A x \in Conns : k \in timeouts[x] \cup expired[x] =>
                  k \in timeouts'[x] \cup expired'[x]
             /\ ~(job[w].pc \in {"rtRel", "rtDel"} /\ job[w].key = k)
             /\ wrapper' = wrapper \/ wrapper' = None \/ (job[w].pc = "opRetry" /\ job[w].todo = {})
             /\ job'[w].pc = "opRetry" /\ k \notin job'[w].todo => job[w].pc = "opRetry"
                  /\ k \notin job[w].todo
    <2>1. Watched(k)
      BY <1>4 DEF WatchInv
    <2>2. CASE \E x \in Conns : k \in timeouts[x] \cup expired[x]
      BY <1>4, <2>2 DEF Watched
    <2>3. CASE \E v \in Workers : job[v].pc \in {"rtRel", "rtDel"} /\ job[v].key = k
      BY <1>4, <2>3 DEF Watched
    <2>4. CASE wrapper = None /\ \A v \in Workers : job[v].pc = "opRetry" => k \in job[v].todo
      <3>1. wrapper' = None
        BY <1>4, <2>4
      <3>2. \A v \in Workers : job'[v].pc = "opRetry" => k \in job'[v].todo
        BY <1>4, <2>4
      <3>3. QED
        BY <3>1, <3>2 DEF Watched
    <2>5. QED
      BY <2>1, <2>2, <2>3, <2>4 DEF Watched
  <1>5. QED
    BY <1>1, <1>2, <1>3, <1>4 DEF WatchGo

\* What is filed after an entry was stored or removed.
LEMMA FiledKeys ==
    ASSUME TypeOK, NEW k \in Keys, NEW e
    PROVE  /\ Put(k, e) => InflightKeys' \subseteq InflightKeys \cup {k}
           /\ inflights' = [inflights EXCEPT ![k] = None] => InflightKeys' = InflightKeys \ {k}
           /\ UNCHANGED inflights => InflightKeys' = InflightKeys
  BY DEF TypeOK, InflightKeys, Put

\* A timer that is started runs, and the others go on.
LEMMA TimerStarts ==
    ASSUME TypeOK, NEW x \in Conns, NEW k \in Keys, SaveInflightTimeout(x, k)
    PROVE  /\ k \in timeouts'[x] /\ expired' = expired
           /\ \A y \in Conns : timeouts[y] \subseteq timeouts'[y]
  BY DEF TypeOK, SaveInflightTimeout

\* Every step keeps the watch on the entries.
LEMMA WatchStep == Inv /\ WatchInv /\ [Next]_vars => WatchInv'
  <1> SUFFICES ASSUME Inv, WatchInv, [Next]_vars PROVE WatchInv'
    OBVIOUS
  <1>a. TypeOK /\ LocalsInv
    BY DEF Inv
  <1>b. \A w \in Workers : job[w].pc \notin Detached => job[w].on \in Conns
    BY <1>a DEF LocalsInv, LocalsAt
  <1>0. ASSUME NEW w \in Workers, Calm(w) PROVE WatchInv'
    <2>1. InflightKeys' = InflightKeys /\ revived' = revived
      BY <1>0 DEF Calm, InflightKeys
    <2>2. \A k \in InflightKeys \ revived : WatchGo(w, k)
      BY <1>0, <2>1 DEF Calm, WatchGo, Copying, Retrying
    <2>3. QED
      BY <1>0, <2>1, <2>2, WatchKeep DEF Calm
  <1>1. ASSUME NEW w \in Workers, InflightPut(w), NextMessageId(job[w].on) # NoId PROVE WatchInv'
    <2> DEFINE x == job[w].on
               id == NextMessageId(x)
    <2>1. /\ job[w].pc = "inPut" /\ Put(id, Fresh(job[w].cur, endpoint[x]))
               /\ SaveInflightTimeout(x, id)
          /\ UNCHANGED <<wrapper, revived>>
      BY <1>1 DEF InflightPut
    <2>2. x \in Conns /\ id \in Keys
      BY <1>a, <1>b, <2>1, NextIdType DEF Detached
    <2>3. Rests(w)
      BY <1>1, <1>a, InflightPutJob
    <2> HIDE DEF x, id
    <2>4. InflightKeys' \subseteq InflightKeys \cup {id}
      BY <1>a, <2>1, <2>2, FiledKeys
    <2>5. \A k \in InflightKeys' \ revived' : WatchGo(w, k)
      BY <1>a, <2>1, <2>2, <2>3, <2>4, TimerStarts DEF WatchGo, Rests, Becomes
    <2>6. QED
      BY <2>3, <2>5, WatchKeep DEF Rests, Becomes
  <1>2. ASSUME NEW w \in Workers, DequeuePut(w) PROVE WatchInv'
    <2> DEFINE x == job[w].on
               id == NextMessageId(x)
    <2>1. /\ job[w].pc = "dqPut" /\ Put(id, Fresh(job[w].cur, IF id = NoId THEN 0 ELSE endpoint[x]))
          /\ SaveInflightTimeout(x, id) \/ (id = NoId /\ UNCHANGED timerVars)
          /\ UNCHANGED <<wrapper, revived>>
      BY <1>2 DEF DequeuePut
    <2>2. x \in Conns /\ id \in Keys
      BY <1>a, <1>b, <2>1, NextIdType DEF Detached
    <2>3. \E p \in {"dqChk", "dqEnd"} : Becomes(w, p, job[w].on, None, job[w].copy, job[w].key,
            job[w].rec,
                                                job[w].todo, job[w].items, FALSE)
      BY <1>2, <1>a, DequeuePutJob
    <2> HIDE DEF x, id
    <2>4. InflightKeys' \subseteq InflightKeys \cup {id}
      BY <1>a, <2>1, <2>2, FiledKeys
    <2>5. ASSUME NEW k \in InflightKeys' \ ({NoId} \cup revived') PROVE WatchGo(w, k)
      <3>1. CASE SaveInflightTimeout(x, id)
        BY <1>a, <2>1, <2>2, <2>3, <2>4, <2>5, <3>1, TimerStarts DEF WatchGo, Becomes
      <3>2. CASE id = NoId /\ UNCHANGED timerVars
        BY <2>1, <2>3, <2>4, <2>5, <3>2 DEF WatchGo, Becomes
      <3>3. QED
        BY <2>1, <3>1, <3>2
    <2>6. QED
      BY <2>3, <2>5, WatchKeep DEF Becomes
  <1>3. ASSUME NEW w \in Workers, NEW p \in wire, At(w, "idle"), RemoveInflight(w, p)
               PROVE WatchInv'
    <2>1. p.id \in Keys
      BY <1>a DEF TypeOK, Packets, Keys
    <2>2. UNCHANGED <<wrapper, expired, revived>>
      BY <1>3 DEF RemoveInflight
    <2>3. CASE wrapper = None
      BY <1>3, <2>2, <2>3 DEF RemoveInflight, WatchInv, Watched, InflightKeys
    <2>4. CASE wrapper # None
      <3>1. /\ inflights' = [inflights EXCEPT ![p.id] = None]
            /\ timeouts' = [timeouts EXCEPT ![wrapper] = @ \ {p.id}]
        BY <1>3, <2>4 DEF RemoveInflight
      <3>2. Becomes(w, "dqTake", wrapper, job[w].cur, job[w].copy, job[w].key, job[w].rec,
              job[w].todo,
                    job[w].items, job[w].holds)
        BY <1>3, <2>4, <1>a, SetWrapper DEF RemoveInflight, Places, TypeOK
      <3>3. InflightKeys' = InflightKeys \ {p.id}
        BY <1>a, <2>1, <3>1, FiledKeys
      <3>4. \A k \in InflightKeys' \ revived' : WatchGo(w, k)
        BY <1>3, <1>a, <2>2, <3>1, <3>2, <3>3 DEF WatchGo, Becomes, TypeOK
      <3>5. QED
        BY <3>2, <3>4, WatchKeep DEF Becomes
    <2>5. QED
      BY <2>3, <2>4
  <1>4. ASSUME NEW w \in Workers, NEW p \in wire, ReceivePubrec(w, p) PROVE WatchInv'
    <2>1. job[w].pc = "idle" /\ UNCHANGED <<inflights, wrapper, timerVars, revived>>
      BY <1>4 DEF ReceivePubrec
    <2>2. PICK e \in Entries \cup {None} :
            Becomes(w, "recPut", job[w].on, job[w].cur, e, job[w].key, p, job[w].todo,
              job[w].items, job[w].holds)
      BY <1>4, <1>a, ReceivePubrecJob
    <2>3. \A k \in InflightKeys' \ revived' : WatchGo(w, k)
      BY <2>1, <2>2 DEF WatchGo, Becomes, InflightKeys
    <2>4. QED
      BY <2>2, <2>3, WatchKeep DEF Becomes
  <1>5. ASSUME NEW w \in Workers, PutPubrec(w) PROVE WatchInv'
    <2> DEFINE i == job[w].rec.id
    <2>1. /\ job[w].pc = "recPut" /\ UNCHANGED <<wrapper, timerVars>> /\ NoteRevived(i)
          /\ UNCHANGED inflights \/ Put(i, [job[w].copy EXCEPT !.status = "PUBREC"])
      BY <1>5 DEF PutPubrec
    <2>2. i \in Keys
      BY <1>a, <2>1 DEF LocalsInv, LocalsAt, Packets, Keys
    <2>3. Rests(w)
      BY <1>5, <1>a, PutPubrecJob
    <2> HIDE DEF i
    <2>4. InflightKeys' \subseteq InflightKeys \cup {i}
      BY <1>a, <2>1, <2>2, FiledKeys
    <2>5. \A k \in InflightKeys' \ revived' : k \in InflightKeys \ revived
      BY <2>1, <2>2, <2>4 DEF NoteRevived, InflightKeys
    <2>6. \A k \in InflightKeys' \ revived' : WatchGo(w, k)
      BY <2>1, <2>3, <2>5 DEF WatchGo, Rests, Becomes
    <2>7. QED
      BY <2>3, <2>6, WatchKeep DEF Rests, Becomes
  <1>6. ASSUME NEW w \in Workers, NEW x \in Conns, NEW k \in Keys, Retry(w, x, k) PROVE WatchInv'
    <2>1. /\ job[w].pc = "idle" /\ UNCHANGED <<wrapper, timeouts, revived>>
          /\ expired' = [expired EXCEPT ![x] = @ \ {k}]
      BY <1>6 DEF Retry
    <2>2. \A y \in Conns : \A i \in Keys : i # k /\ i \in expired[y] => i \in expired'[y]
      BY <1>a, <2>1 DEF TypeOK
    <2>3. CASE inflights[k] = None
      <3>1. UNCHANGED <<inflights, job>>
        BY <1>6, <2>3 DEF Retry
      <3>2. k \notin InflightKeys'
        BY <2>3, <3>1 DEF InflightKeys
      <3>3. \A i \in InflightKeys' \ revived' : WatchGo(w, i)
        BY <2>1, <2>2, <3>1, <3>2 DEF WatchGo, InflightKeys
      <3>4. QED
        BY <3>1, <3>3, WatchKeep
    <2>4. CASE inflights[k] # None /\ RetriesExhausted(inflights[k])
      <3>1. inflights' = [inflights EXCEPT ![k] = None]
        BY <1>6, <2>4 DEF Retry
      <3>2. InflightKeys' = InflightKeys \ {k}
        BY <1>a, <3>1, FiledKeys
      <3>3. Becomes(w, "dqTake", x, job[w].cur, job[w].copy, job[w].key, job[w].rec, job[w].todo,
                    job[w].items, job[w].holds)
        BY <1>6, <2>4, <1>a, SetWrapper DEF Retry, Places, TypeOK
      <3>4. \A i \in InflightKeys' \ revived' : WatchGo(w, i)
        BY <2>1, <2>2, <3>2, <3>3 DEF WatchGo, InflightKeys, Becomes
      <3>5. QED
        BY <3>3, <3>4, WatchKeep DEF Becomes
    <2>5. CASE inflights[k] # None /\ ~RetriesExhausted(inflights[k])
      <3>1. UNCHANGED inflights
        BY <1>6, <2>5 DEF Retry
      <3>2. PICK p \in {"rtRel", "rtDel"} :
              Becomes(w, p, x, job[w].cur, inflights[k], k, job[w].rec, job[w].todo, job[w].items,
                job[w].holds)
        <4> DEFINE p == IF AwaitsPubcomp(inflights[k]) THEN "rtRel" ELSE "rtDel"
        <4>1. job' = [job EXCEPT ![w] = [job[w] EXCEPT !.on = x, !.copy = inflights[k], !.key = k,
                !.pc = p]]
          BY <1>6, <2>5 DEF Retry
        <4>2. p \in {"rtRel", "rtDel"} /\ p \in Places
          BY DEF Places
        <4> HIDE DEF p
        <4>3. QED
          BY <1>a, <4>1, <4>2, SetRetry DEF TypeOK
      <3>3. \A i \in InflightKeys' \ revived' : WatchGo(w, i)
        BY <2>1, <2>2, <3>1, <3>2 DEF WatchGo, InflightKeys, Becomes
      <3>4. QED
        BY <3>2, <3>3, WatchKeep DEF Becomes
    <2>6. QED
      BY <2>3, <2>4, <2>5
  <1>7. ASSUME NEW w \in Workers, RetryRelease(w) PROVE WatchInv'
    <2> DEFINE x == job[w].on
               k == job[w].key
    <2>1. /\ job[w].pc = "rtRel" /\ Put(k, Retried(job[w].copy)) /\ NoteRevived(k)
          /\ SaveInflightTimeout(x, k) /\ UNCHANGED wrapper
      BY <1>7 DEF RetryRelease
    <2>2. x \in Conns /\ k \in Keys
      BY <1>a, <1>b, <2>1, JobTypes, JobFields DEF Detached
    <2>3. Rests(w)
      BY <1>7, <1>a, RetryReleaseJob
    <2> HIDE DEF x
    <2>4. InflightKeys' \subseteq InflightKeys \cup {k}
      BY <1>a, <2>1, <2>2, FiledKeys
    <2>5. revived \subseteq revived'
      BY <2>1 DEF NoteRevived
    <2>6. \A i \in InflightKeys' \ revived' : WatchGo(w, i)
      BY <1>a, <2>1, <2>2, <2>3, <2>4, <2>5, TimerStarts DEF WatchGo, Rests, Becomes
    <2>7. QED
      BY <2>3, <2>6, WatchKeep DEF Rests, Becomes
  <1>8. ASSUME NEW w \in Workers, RetryDelete(w) PROVE WatchInv'
    <2> DEFINE x == job[w].on
               k == job[w].key
    <2>1. job[w].pc = "rtDel" /\ UNCHANGED <<wrapper, revived>>
      BY <1>8 DEF RetryDelete
    <2>2. x \in Conns /\ k \in Keys /\ job[w].copy \in Entries
      BY <1>a, <1>b, <2>1, JobTypes, JobFields DEF Detached, LocalsInv, LocalsAt, Retrying
    <2>3. CASE Connected(x)
      <3>1. inflights' = [inflights EXCEPT ![k] = None] /\ UNCHANGED timerVars
        BY <1>8, <2>3 DEF RetryDelete
      <3>2. InflightKeys' = InflightKeys \ {k}
        BY <1>a, <2>2, <3>1, FiledKeys
      <3>3. PICK e \in Entries : Becomes(w, "rtPut", job[w].on, job[w].cur, e,
              NextMessageId(job[w].on), job[w].rec,
                                         job[w].todo, job[w].items, TRUE)
        BY <1>8, <1>a, <2>2, <2>3, RetryDeleteJob DEF Refiles
      <3>4. \A i \in InflightKeys' \ revived' : WatchGo(w, i)
        BY <2>1, <3>1, <3>2, <3>3 DEF WatchGo, Becomes
      <3>5. QED
        BY <3>3, <3>4, WatchKeep DEF Becomes
    <2>4. CASE ~Connected(x)
      <3>1. Put(k, Retried(job[w].copy)) /\ SaveInflightTimeout(x, k)
        BY <1>8, <2>4 DEF RetryDelete
      <3>2. InflightKeys' \subseteq InflightKeys \cup {k}
        BY <1>a, <2>2, <3>1, FiledKeys
      <3>3. Rests(w)
        BY <1>8, <1>a, <2>2, <2>4, RetryDeleteJob DEF Refiles
      <3> HIDE DEF x
      <3>4. \A i \in InflightKeys' \ revived' : WatchGo(w, i)
        BY <1>a, <2>1, <2>2, <3>1, <3>2, <3>3, TimerStarts DEF WatchGo, Rests, Becomes
      <3>5. QED
        BY <3>3, <3>4, WatchKeep DEF Rests, Becomes
    <2>5. QED
      BY <2>3, <2>4
  <1>9. ASSUME NEW w \in Workers, RetryPut(w) PROVE WatchInv'
    <2> DEFINE x == job[w].on
               k == job[w].key
    <2>1. /\ job[w].pc = "rtPut" /\ Put(k, Retried(job[w].copy)) /\ SaveInflightTimeout(x, k)
          /\ UNCHANGED <<wrapper, revived>>
      BY <1>9 DEF RetryPut
    <2>2. x \in Conns /\ k \in Keys
      BY <1>a, <1>b, <2>1, JobTypes, JobFields DEF Detached
    <2>3. Rests(w)
      BY <1>9, <1>a, RetryPutJob
    <2> HIDE DEF x, k
    <2>4. InflightKeys' \subseteq InflightKeys \cup {k}
      BY <1>a, <2>1, <2>2, FiledKeys
    <2>5. \A i \in InflightKeys' \ revived' : WatchGo(w, i)
      BY <1>a, <2>1, <2>2, <2>3, <2>4, TimerStarts DEF WatchGo, Rests, Becomes
    <2>6. QED
      BY <2>3, <2>5, WatchKeep DEF Rests, Becomes
  <1>10. ASSUME NEW w \in Workers, NEW c \in Conns, OpenSession(w, c) PROVE WatchInv'
    <2>1. job[w].pc = "idle" /\ wrapper' = None /\ UNCHANGED <<inflights, timerVars, revived>>
      BY <1>10 DEF OpenSession
    <2>2. PICK x \in Conns : Becomes(w, "opEndpoint", x, job[w].cur, job[w].copy, job[w].key,
            job[w].rec,
                                     job[w].todo, job[w].items, job[w].holds)
      BY <1>10, <1>a, OpenSessionJob
    <2>3. \A k \in InflightKeys' \ revived' : WatchGo(w, k)
      BY <2>1, <2>2 DEF WatchGo, Becomes, InflightKeys
    <2>4. QED
      BY <2>2, <2>3, WatchKeep DEF Becomes
  <1>11. ASSUME NEW w \in Workers, NEW c \in Conns, CloseSession(w, c) PROVE WatchInv'
    <2>1. /\ job[w].pc = "idle" /\ UNCHANGED <<inflights, timerVars, revived, job>>
          /\ wrapper' = wrapper \/ wrapper' = None
      BY <1>11 DEF CloseSession
    <2>2. QED
      BY <2>1, WatchKeep DEF WatchGo, InflightKeys
  <1>12. ASSUME NEW w \in Workers, OpenEndpoint(w) PROVE WatchInv'
    <2>1. job[w].pc = "opEndpoint" /\ UNCHANGED <<inflights, timerVars, revived, wrapper>>
      BY <1>12 DEF OpenEndpoint
    <2>2. /\ \A v \in Workers : v # w => job'[v] = job[v]
          /\ \/ job'[w].pc = "opRetry" /\ job'[w].todo = InflightKeys
             \/ job'[w].pc \in {"opCreate", "opClose"}
      BY <1>12, <1>a, OpenEndpointJob DEF Becomes
    <2>3. \A k \in InflightKeys' \ revived' : WatchGo(w, k)
      BY <2>1, <2>2 DEF WatchGo, InflightKeys
    <2>4. QED
      BY <2>2, <2>3, WatchKeep
  <1>13. ASSUME NEW w \in Workers, OpenRetry(w), job'[w].pc # "opAccept" PROVE WatchInv'
    <2>1. job[w].pc = "opRetry" /\ UNCHANGED <<wrapper, revived>>
      BY <1>13 DEF OpenRetry
    <2>2. PICK k \in job[w].todo :
            \/ Goto(w, "opAccept")
            \/ /\ Put(k, Retried(inflights[k])) /\ SaveInflightTimeout(job[w].on, k)
               /\ job' = [job EXCEPT ![w].todo = @ \ {k}]
      BY <1>13 DEF OpenRetry
    <2>3. job[w].on \in Conns /\ k \in Keys
      BY <1>a, <1>b, <2>1, JobTypes, JobFields DEF Detached
    <2>4. ~Goto(w, "opAccept")
      BY <1>13, <1>a, JobTypes, GotoMoves DEF Moves, Becomes, Places, Opening
    <2>5. /\ Put(k, Retried(inflights[k])) /\ SaveInflightTimeout(job[w].on, k)
          /\ Becomes(w, job[w].pc, job[w].on, job[w].cur, job[w].copy, job[w].key, job[w].rec,
                     job[w].todo \ {k}, job[w].items, job[w].holds)
      BY <1>a, <2>2, <2>3, <2>4, OpenRetryJob
    <2>6. InflightKeys' \subseteq InflightKeys \cup {k}
      BY <1>a, <2>3, <2>5, FiledKeys
    <2>7. \A i \in InflightKeys' \ revived' : WatchGo(w, i)
      BY <1>a, <2>1, <2>3, <2>5, <2>6, TimerStarts DEF WatchGo, Becomes
    <2>8. QED
      BY <2>5, <2>7, WatchKeep DEF Becomes
  <1>14. ASSUME NEW w \in Workers, Accept(w) PROVE WatchInv'
    <2>1. job[w].pc = "opAccept" /\ UNCHANGED <<inflights, timerVars, revived, wrapper>>
      BY <1>14 DEF Accept
    <2>2. Rests(w)
      BY <1>14, <1>a, AcceptJob
    <2>3. \A k \in InflightKeys' \ revived' : WatchGo(w, k)
      BY <2>1, <2>2 DEF WatchGo, InflightKeys, Rests, Becomes
    <2>4. QED
      BY <2>2, <2>3, WatchKeep DEF Rests, Becomes
  <1>15. ASSUME NEW x \in Conns, NEW k \in Keys, Expire(x, k) PROVE WatchInv'
    <2>1. /\ UNCHANGED <<inflights, revived, wrapper, job>>
          /\ timeouts' = [timeouts EXCEPT ![x] = @ \ {k}]
          /\ expired' = [expired EXCEPT ![x] = @ \cup {k}]
      BY <1>15 DEF Expire
    <2>2. \A y \in Conns : timeouts[y] \cup expired[y] \subseteq timeouts'[y] \cup expired'[y]
      BY <1>a, <2>1 DEF TypeOK
    <2>3. QED
      BY <2>1, <2>2 DEF WatchInv, Watched, InflightKeys
  <1>16. ASSUME NEW c \in Conns, Disconnect(c) PROVE WatchInv'
    BY <1>16 DEF Disconnect, WatchInv, Watched, InflightKeys
  <1>17. CASE Crash
    <2>1. \A w \in Workers : job'[w].pc = "idle"
      BY <1>17 DEF Crash, Idle
    <2>2. QED
      BY <1>17, <2>1 DEF Crash, WatchInv, Watched
  <1>18. CASE UNCHANGED vars
    BY <1>18 DEF vars, WatchInv, Watched, InflightKeys
  <1>19. QED
    BY <1>0, <1>1, <1>2, <1>3, <1>4, <1>5, <1>6, <1>7, <1>8, <1>9, <1>10, <1>11, <1>12, <1>13,
      <1>14,
       <1>15, <1>16, <1>17, <1>18, StepKinds DEF Stir

\* Every filed entry of an accepted client has a timer or an expired timer whose
\* retry waits for a worker, for any number of reconnections and crashes: a wrapper
\* is put into the map only after open() has started a timer for every entry it
\* found, and each step that files an entry starts one.  (Apart from an entry filed
\* without a packet id, and from keys under which receivePubrec or a retry stored a
\* copy whose entry had been removed.)
THEOREM WindowSlotsAreWatched == Spec => []WindowSlotWatched
  <1>1. Init => WatchInv
    BY DEF Init, WatchInv, InflightKeys
  <1>2. Inv /\ WatchInv => WindowSlotWatched
    BY DEF WatchInv, Watched, WindowSlotWatched, AtRest
  <1>3. QED
    BY <1>1, <1>2, Invariance, WatchStep, PTL DEF Spec

-----------------------------------------------------------------------------
(* A packet id of a connection is used for one message                      *)

\* Every wrapper has an endpoint of its own, and neither it nor its endpoint
\* exists before the client connects.
EndpointInv ==
    /\ \A x, y \in Conns : endpoint[x] # None /\ endpoint[x] = endpoint[y] => x = y
    /\ \A x \in Conns : endpoint[x] # None => conn[endpoint[x]] # "new" /\ conn[x] # "new"
    /\ \A w \in Workers, x \in Conns : job[w].pc = "opEndpoint" /\ endpoint[x] # None =>
         conn[endpoint[x]] # "opening" /\ conn[x] # "opening"
    /\ wrapper # None => conn[wrapper] # "new"
    /\ \A w \in Workers : job[w].pc \in Opening => conn[job[w].on] # "new"

\* The connection being opened.
LEMMA IncomingOpens ==
    ASSUME OpenInv, NEW w \in Workers, job[w].pc \in Opening
    PROVE  Incoming \in Conns /\ conn[Incoming] = "opening"
  BY DEF OpenInv, Incoming

\* Every step keeps the endpoints apart.
LEMMA EndpointStep == Inv /\ EndpointInv /\ [Next]_vars => EndpointInv'
  <1> SUFFICES ASSUME Inv, EndpointInv, [Next]_vars PROVE EndpointInv'
    OBVIOUS
  <1>a. TypeOK /\ LocalsInv /\ OpenInv
    BY DEF Inv
  <1>b. endpoint \in [Conns -> Conns \cup {None}]
        /\ conn \in [Conns -> {"new", "opening", "accepted", "closing", "closed"}]
        /\ wrapper \in Conns \cup {None}
    BY <1>a DEF TypeOK
  <1>c. ASSUME UNCHANGED <<endpoint, conn, wrapper>>,
               \A w \in Workers : job'[w].pc \in Opening =>
                   job[w].pc \in Opening /\ job'[w].on = job[w].on
                   /\ (job'[w].pc = "opEndpoint" => job[w].pc = "opEndpoint")
        PROVE  EndpointInv'
    BY <1>c DEF EndpointInv, Opening
  <1>0. ASSUME NEW w \in Workers, Calm(w) PROVE EndpointInv'
    <2>1. \A v \in Workers : job'[v].pc \in Opening =>
            job[v].pc \in Opening /\ job'[v].on = job[v].on
            /\ (job'[v].pc = "opEndpoint" => job[v].pc = "opEndpoint")
      BY <1>0 DEF Calm
    <2>2. wrapper' = wrapper \/ (job[w].pc \in Opening /\ wrapper' = job[w].on)
      BY <1>0 DEF Calm, Opening
    <2>3. QED
      BY <1>0, <2>1, <2>2 DEF Calm, EndpointInv, Opening
  <1>1. ASSUME NEW w \in Workers, UNCHANGED <<endpoint, conn, wrapper>>, Rests(w) PROVE EndpointInv'
    BY <1>1, <1>c DEF Rests, Becomes, Opening
  <1>2. ASSUME NEW w \in Workers, InflightPut(w), NextMessageId(job[w].on) # NoId PROVE EndpointInv'
    BY <1>2, <1>1, <1>a, InflightPutJob DEF InflightPut, Publish
  <1>3. ASSUME NEW w \in Workers, DequeuePut(w) PROVE EndpointInv'
    <2>1. UNCHANGED <<endpoint, conn, wrapper>>
      BY <1>3 DEF DequeuePut, Publish
    <2>2. QED
      BY <1>3, <1>a, <1>c, <2>1, DequeuePutJob DEF Becomes, Opening
  <1>4. ASSUME NEW w \in Workers, NEW p \in wire, RemoveInflight(w, p) PROVE EndpointInv'
    <2>1. UNCHANGED <<endpoint, conn, wrapper>>
      BY <1>4 DEF RemoveInflight
    <2>2. QED
      BY <1>4, <1>a, <1>c, <2>1, RemoveInflightJob DEF Becomes, Opening
  <1>5. ASSUME NEW w \in Workers, NEW p \in wire, ReceivePubrec(w, p) PROVE EndpointInv'
    <2>1. UNCHANGED <<endpoint, conn, wrapper>>
      BY <1>5 DEF ReceivePubrec
    <2>2. QED
      BY <1>5, <1>a, <1>c, <2>1, ReceivePubrecJob DEF Becomes, Opening
  <1>6. ASSUME NEW w \in Workers, PutPubrec(w) PROVE EndpointInv'
    BY <1>6, <1>1, <1>a, PutPubrecJob DEF PutPubrec
  <1>7. ASSUME NEW w \in Workers, NEW x \in Conns, NEW k \in Keys, Retry(w, x, k) PROVE EndpointInv'
    <2>1. UNCHANGED <<endpoint, conn, wrapper>>
      BY <1>7 DEF Retry
    <2>2. QED
      BY <1>7, <1>a, <1>c, <2>1, RetryJob DEF Becomes, Opening
  <1>8. ASSUME NEW w \in Workers, RetryRelease(w) PROVE EndpointInv'
    BY <1>8, <1>1, <1>a, RetryReleaseJob DEF RetryRelease
  <1>9. ASSUME NEW w \in Workers, RetryDelete(w) PROVE EndpointInv'
    <2>1. job[w].pc = "rtDel" /\ UNCHANGED <<endpoint, conn, wrapper>>
      BY <1>9 DEF RetryDelete
    <2>2. job[w].on \in Conns /\ job[w].copy \in Entries
      BY <1>a, <2>1 DEF LocalsInv, LocalsAt, Detached, Retrying
    <2>3. QED
      BY <1>9, <1>a, <1>c, <2>1, <2>2, RetryDeleteJob DEF Refiles, Rests, Becomes, Opening
  <1>10. ASSUME NEW w \in Workers, RetryPut(w) PROVE EndpointInv'
    BY <1>10, <1>1, <1>a, RetryPutJob DEF RetryPut, Publish
  <1>11. ASSUME NEW w \in Workers, NEW c \in Conns, OpenSession(w, c) PROVE EndpointInv'
    <2>1. /\ conn[c] = "new" /\ conn' = [conn EXCEPT ![c] = "opening"] /\ UNCHANGED endpoint
          /\ \A d \in Conns : conn[d] # "opening"
      BY <1>11 DEF OpenSession
    <2>2. \A x \in Conns : endpoint[x] # None =>
            /\ endpoint[x] \in Conns /\ endpoint[x] # c /\ x # c
            /\ conn'[endpoint[x]] = conn[endpoint[x]] /\ conn'[x] = conn[x]
      BY <1>b, <2>1 DEF EndpointInv
    <2>3. (wrapper' # None => conn'[wrapper'] # "new") /\ \A v \in Workers :
            job'[v].pc \in Opening => conn'[job'[v].on] # "new"
      <3>1. wrapper' = None
        BY <1>11 DEF OpenSession
      <3>2. PICK x \in Conns : (x = c \/ (x = wrapper /\ wrapper # None))
              /\ Becomes(w, "opEndpoint", x, job[w].cur, job[w].copy, job[w].key,
                                  job[w].rec, job[w].todo, job[w].items, job[w].holds)
        BY <1>11, <1>a, OpenSessionJob
      <3>3. \A d : conn'[d] = "new" /\ conn[d] # "new" => d \notin Conns
        BY <1>b, <2>1
      <3>4. conn'[x] # "new"
        BY <1>b, <2>1, <3>2, <3>3 DEF EndpointInv
      <3>5. \A v \in Workers : v # w => job[v].pc \notin Opening
        BY <1>a, <2>1 DEF OpenInv
      <3>6. QED
        BY <3>1, <3>2, <3>4, <3>5 DEF Becomes
    <2>4. QED
      BY <2>1, <2>2, <2>3 DEF EndpointInv
  <1>12. ASSUME NEW w \in Workers, NEW c \in Conns, CloseSession(w, c) PROVE EndpointInv'
    <2>1. /\ conn[c] = "closing" /\ conn' = [conn EXCEPT ![c] = "closed"] /\ UNCHANGED <<endpoint,
               job>>
          /\ wrapper' = wrapper \/ wrapper' = None
      BY <1>12 DEF CloseSession
    <2>2. \A d : conn'[d] = conn[d] \/ conn'[d] = "closed"
      BY <1>b, <2>1
    <2>3. QED
      BY <2>1, <2>2 DEF EndpointInv
  <1>13. ASSUME NEW w \in Workers, OpenEndpoint(w) PROVE EndpointInv'
    <2> DEFINE x == job[w].on
               c == Incoming
    <2>1. job[w].pc = "opEndpoint" /\ endpoint' = [endpoint EXCEPT ![x] = c]
      BY <1>13 DEF OpenEndpoint
    <2>2. x \in Conns /\ c \in Conns /\ conn[c] = "opening"
      BY <1>a, <2>1, IncomingOpens DEF LocalsInv, LocalsAt, Detached, Opening
    <2>3. \A y \in Conns : endpoint[y] # None => endpoint[y] # c /\ y # c
      BY <2>1, <2>2 DEF EndpointInv
    <2>4. x = c \/ conn[x] # "new"
      BY <2>1 DEF EndpointInv, Opening
    <2>5. \A y \in Conns : conn'[y] = "new" => conn[y] = "new"
      BY <1>13, <1>b, <2>1 DEF OpenEndpoint
    <2>6. \A v \in Workers : job'[v].pc # "opEndpoint"
      <3>1. \A v \in Workers : v # w => job[v].pc # "opEndpoint"
        BY <1>a, <2>1 DEF OpenInv, Opening
      <3>2. QED
        BY <1>13, <1>a, <3>1, OpenEndpointJob DEF Becomes, Opening
    <2>7. wrapper' = wrapper /\ \A v \in Workers : job'[v].pc \in Opening => job[v].pc \in Opening
            /\ job'[v].on = job[v].on
      BY <1>13, <1>a, <2>1, OpenEndpointJob, ZenonT(60) DEF OpenEndpoint, Becomes, Opening
    <2>8. \A v \in Workers : job[v].pc \in Opening => job[v].on \in Conns
      BY <1>a DEF LocalsInv, LocalsAt, Detached, Opening
    <2> HIDE DEF x, c
    <2>9. (wrapper' # None => conn'[wrapper'] # "new") /\ \A v \in Workers :
            job'[v].pc \in Opening => conn'[job'[v].on] # "new"
      BY <1>b, <2>5, <2>7, <2>8 DEF EndpointInv
    <2>10. QED
      BY <1>b, <2>1, <2>2, <2>3, <2>4, <2>5, <2>6, <2>9 DEF EndpointInv
  <1>14. ASSUME NEW w \in Workers, OpenRetry(w), job'[w].pc # "opAccept" PROVE EndpointInv'
    <2>1. job[w].pc = "opRetry" /\ UNCHANGED <<endpoint, conn, wrapper>>
      BY <1>14 DEF OpenRetry
    <2>2. PICK k \in job[w].todo : Goto(w, "opAccept") \/ job' = [job EXCEPT ![w].todo = @ \ {k}]
      BY <1>14 DEF OpenRetry
    <2>3. k \in Keys
      BY <1>a, JobTypes, JobFields
    <2>4. QED
      BY <1>a, <1>c, <2>1, <2>2, <2>3, JobTypes, GotoMoves, OpenRetryJob
        DEF Moves, Becomes, Places, Opening
  <1>15. ASSUME NEW w \in Workers, Accept(w) PROVE EndpointInv'
    <2>1. UNCHANGED <<endpoint, wrapper>> /\ conn' = [conn EXCEPT ![Incoming] = "accepted"]
      BY <1>15 DEF Accept
    <2>2. \A v \in Workers : job'[v].pc \in Opening => job'[v] = job[v]
      BY <1>15, <1>a, AcceptJob DEF Rests, Becomes, Opening
    <2>3. \A d : conn'[d] = conn[d] \/ conn'[d] = "accepted"
      BY <1>b, <2>1
    <2>4. QED
      BY <2>1, <2>2, <2>3 DEF EndpointInv, Opening
  <1>16. ASSUME NEW x \in Conns, NEW k \in Keys, Expire(x, k) PROVE EndpointInv'
    BY <1>16, <1>c DEF Expire
  <1>17. ASSUME NEW c \in Conns, Disconnect(c) PROVE EndpointInv'
    <2>1. conn' = [conn EXCEPT ![c] = "closing"] /\ UNCHANGED <<endpoint, wrapper, job>>
      BY <1>17 DEF Disconnect
    <2>2. \A d : conn'[d] = conn[d] \/ conn'[d] = "closing"
      BY <1>b, <2>1
    <2>3. QED
      BY <2>1, <2>2 DEF EndpointInv
  <1>18. CASE Crash
    <2>1. \A w \in Workers : job'[w].pc = "idle"
      BY <1>18 DEF Crash, Idle
    <2>2. QED
      BY <1>18, <2>1 DEF Crash, EndpointInv, Opening
  <1>19. CASE UNCHANGED vars
    BY <1>19, <1>c DEF vars
  <1>20. QED
    BY <1>0, <1>2, <1>3, <1>4, <1>5, <1>6, <1>7, <1>8, <1>9, <1>10, <1>11, <1>12, <1>13, <1>14,
       <1>15, <1>16, <1>17, <1>18, <1>19, StepKinds DEF Stir

\* Packet id i of connection c stands for message m: in the cache, in a packet, in
\* the hands of a worker that retries m, or of one that handles its PUBREC.
EntryHas(c, i, m) == inflights[i] # None /\ inflights[i].by = c /\ inflights[i].msg = m
WireHas(c, i, m) == \E p \in wire : p.by = c /\ p.id = i /\ p.msg = m
HandHas(w, c, i, m) ==
    job[w].pc \in Retrying /\ job[w].key = i /\ job[w].copy.by = c /\ job[w].copy.msg = m
RecHas(w, c, i, m) ==
    /\ job[w].pc = "recPut" /\ job[w].rec.id = i
    /\ \/ job[w].rec.by = c /\ job[w].rec.msg = m
       \/ job[w].copy # None /\ job[w].copy.by = c /\ job[w].copy.msg = m
Uses(c, i, m) ==
    \/ EntryHas(c, i, m) \/ WireHas(c, i, m)
    \/ \E w \in Workers : HandHas(w, c, i, m) \/ RecHas(w, c, i, m)

\* A worker has chosen i as its next packet id, and its wrapper still has connection c.
Chosen(w, c, i) ==
    job[w].pc = "rtPut" /\ job[w].key = i /\ job[w].copy.by = c /\ endpoint[job[w].on] = c

\* Connection c will not give out packet id i again.
Old(c, i) ==
    /\ conn[c] \notin {"new", "opening"}
    /\ \/ i <= lastId[c]
       \/ i = lastId[c] + 1 /\ (conn[c] # "accepted" \/ \E w \in Workers : Chosen(w, c, i))

\* Only what was filed without a packet id has no connection; until the ids of a
\* connection are used up, each stands for one message.
IdInv ==
    /\ \A i \in Keys \ {NoId}, m \in Msgs : ~Uses(0, i, m)
    /\ spent = {} =>
         /\ \A c \in Conns : lastId[c] < MaxMessageId
         /\ \A c \in Conns, i \in Keys, m, n \in Msgs : Uses(c, i, m) /\ Uses(c, i, n) => m = n
         /\ \A c \in Conns, i \in Keys, m \in Msgs : Uses(c, i, m) => Old(c, i)

Sources == 0..MaxConns

\* What the step adds to the uses of packet ids, other than by worker w's locals.
EntriesUse(c0, i0, m0) ==
    \A c \in Sources, i \in Keys, m \in Msgs :
        EntryHas(c, i, m)' => Uses(c, i, m) \/ (c = c0 /\ i = i0 /\ m = m0)
WireUses(c0, i0, m0) ==
    \A c \in Sources, i \in Keys, m \in Msgs :
        WireHas(c, i, m)' => Uses(c, i, m) \/ (c = c0 /\ i = i0 /\ m = m0)
UsesGo(c0, i0, m0) ==
    \A c \in Sources, i \in Keys, m \in Msgs :
        Uses(c, i, m)' => Uses(c, i, m) \/ (c = c0 /\ i = i0 /\ m = m0)

\* The new uses of a step of worker w.
LEMMA UsesKeep ==
    ASSUME NEW w \in Workers, NEW c0, NEW i0, NEW m0, \A v \in Workers : v # w => job'[v] = job[v],
           EntriesUse(c0, i0, m0), WireUses(c0, i0, m0),
           \A c \in Sources, i \in Keys, m \in Msgs :
               HandHas(w, c, i, m)' \/ RecHas(w, c, i, m)' => Uses(c, i, m)
                 \/ (c = c0 /\ i = i0 /\ m = m0)
    PROVE  UsesGo(c0, i0, m0)
  <1> SUFFICES ASSUME NEW c \in Sources, NEW i \in Keys, NEW m \in Msgs, Uses(c, i, m)'
               PROVE  Uses(c, i, m) \/ (c = c0 /\ i = i0 /\ m = m0)
    BY DEF UsesGo
  <1>1. CASE EntryHas(c, i, m)'
    BY <1>1 DEF EntriesUse
  <1>2. CASE WireHas(c, i, m)'
    BY <1>2 DEF WireUses
  <1>3. ASSUME NEW v \in Workers, HandHas(v, c, i, m)' \/ RecHas(v, c, i, m)'
        PROVE  Uses(c, i, m) \/ (c = c0 /\ i = i0 /\ m = m0)
    <2>1. CASE v = w
      BY <1>3, <2>1
    <2>2. CASE v # w
      <3>1. HandHas(v, c, i, m) \/ RecHas(v, c, i, m)
        BY <1>3, <2>2 DEF HandHas, RecHas
      <3>2. QED
        BY <3>1 DEF Uses
    <2>3. QED
      BY <2>1, <2>2
  <1>4. QED
    BY <1>1, <1>2, <1>3 DEF Uses

\* A worker that is at no place with a copy uses no packet id.
LEMMA NoCopyNoUse ==
    ASSUME NEW w \in Workers, job[w].pc \notin Copying, NEW c, NEW i, NEW m
    PROVE  ~HandHas(w, c, i, m) /\ ~RecHas(w, c, i, m)
  BY DEF HandHas, RecHas, Copying

\* The use that storing an entry adds.
LEMMA PutUses ==
    ASSUME TypeOK, NEW k \in Keys, NEW e \in Entries, Put(k, e)
    PROVE  \A c, i, m : i \in Keys /\ EntryHas(c, i, m)' => EntryHas(c, i, m)
           \/ (c = e.by /\ i = k /\ m = e.msg)
  BY DEF TypeOK, Put, EntryHas

\* The use that publish() adds.
LEMMA PublishUses ==
    ASSUME TypeOK, NEW x \in Conns, NEW m0, Publish(x, m0)
    PROVE  \A c, i, m : WireHas(c, i, m)' =>
             WireHas(c, i, m) \/ (Connected(x) /\ c = endpoint[x] /\ i = NextMessageId(x) /\ m = m0)
  BY DEF Publish, WireHas

\* The use that sending a PUBREL adds.
LEMMA PubrelUses ==
    ASSUME NEW d, NEW k, NEW n, NEW b, SendPubrel(d, k, n, b)
    PROVE  \A c, i, m : WireHas(c, i, m)' => WireHas(c, i, m) \/ (c = b /\ i = k /\ m = n)
  BY DEF SendPubrel, WireHas

\* The id a connected wrapper takes next is new, under its lock, unless the worker
\* has chosen it itself.
LEMMA NextIdNew ==
    ASSUME Inv, EndpointInv, IdInv, spent = {}, NEW w \in Workers, job[w].on \in Conns,
           Connected(job[w].on),
           inflightCas[job[w].on] = 0 \/ job[w].holds
    PROVE  LET c == endpoint[job[w].on]
               i == NextMessageId(job[w].on)
           IN  /\ c \in Conns /\ conn[c] = "accepted" /\ i \in Keys /\ i # NoId /\ i = lastId[c] + 1
               /\ \A m \in Msgs : Uses(c, i, m) => Chosen(w, c, i)
  <1> DEFINE x == job[w].on
             c == endpoint[x]
             i == NextMessageId(x)
  <1>1. c \in Conns /\ conn[c] = "accepted" /\ i \in 1..MaxMessageId
    BY NextIdType DEF Inv, Connected
  <1>2. i \in Keys /\ i # NoId
    BY <1>1 DEF Keys, NoId
  <1>3. lastId[c] \in 0..MaxMessageId /\ lastId[c] < MaxMessageId
    BY <1>1 DEF IdInv, Inv, TypeOK
  <1>4. i = lastId[c] + 1
    <2>1. i = IF lastId[c] % MaxMessageId # 0 THEN lastId[c] + 1 ELSE 1
      BY DEF NextMessageId
    <2>2. ASSUME NEW n \in 0..MaxMessageId, n < MaxMessageId PROVE n % MaxMessageId = n
      BY <2>2
    <2>3. lastId[c] % MaxMessageId = lastId[c]
      BY <1>3, <2>2
    <2>4. QED
      BY <1>3, <2>1, <2>3
  <1>5. ASSUME NEW m \in Msgs, Uses(c, i, m) PROVE Chosen(w, c, i)
    <2>1. Old(c, i)
      BY <1>1, <1>2, <1>5 DEF IdInv
    <2>2. PICK v \in Workers : Chosen(v, c, i)
      BY <1>1, <1>3, <1>4, <2>1 DEF Old
    <2>3. job[v].on \in Conns /\ job[v].holds
      BY <2>2 DEF Chosen, Inv, LocalsInv, LocalsAt, Detached, Trying
    <2>4. job[v].on = x
      BY <1>1, <2>2, <2>3 DEF Chosen, EndpointInv, Connected
    <2>5. inflightCas[x] = 1
      BY <2>3, <2>4 DEF Inv, LockInv
    <2>6. v = w
      BY <2>3, <2>4, <2>5 DEF Inv, LockInv
    <2>7. QED
      BY <2>2, <2>6
  <1>6. QED
    BY <1>1, <1>2, <1>4, <1>5

\* A step that uses no other packet ids keeps the ids unambiguous.
LEMMA IdKeep ==
    ASSUME IdInv, NEW m0, UsesGo(0, NoId, m0), spent' = {} => spent = {},
           spent' = {} => \A c \in Conns : lastId[c] < MaxMessageId => lastId'[c] < MaxMessageId,
           spent' = {} => \A c \in Conns, i \in Keys, m \in Msgs : Uses(c, i, m) /\ Old(c, i) =>
             Old(c, i)'
    PROVE  IdInv'
  <1>1. 0 \in Sources /\ Conns \subseteq Sources /\ 0 \notin Conns
    BY DEF Sources, Conns
  <1>2. \A c \in Conns, i \in Keys, m \in Msgs : Uses(c, i, m)' => Uses(c, i, m)
    BY <1>1 DEF UsesGo
  <1>3. \A i \in Keys \ {NoId}, m \in Msgs : ~Uses(0, i, m)'
    BY <1>1 DEF UsesGo, IdInv
  <1>4. ASSUME spent' = {}
        PROVE  /\ \A c \in Conns : lastId'[c] < MaxMessageId
               /\ \A c \in Conns, i \in Keys, m, n \in Msgs : Uses(c, i, m)' /\ Uses(c, i, n)' =>
                    m = n
               /\ \A c \in Conns, i \in Keys, m \in Msgs : Uses(c, i, m)' => Old(c, i)'
    <2>1. spent = {}
      BY <1>4
    <2>2. \A c \in Conns : lastId'[c] < MaxMessageId
      BY <1>4, <2>1 DEF IdInv
    <2>3. \A c \in Conns, i \in Keys, m, n \in Msgs : Uses(c, i, m)' /\ Uses(c, i, n)' => m = n
      BY <1>2, <2>1 DEF IdInv
    <2>4. \A c \in Conns, i \in Keys, m \in Msgs : Uses(c, i, m)' => Old(c, i)'
      BY <1>2, <1>4, <2>1 DEF IdInv
    <2>5. QED
      BY <2>2, <2>3, <2>4
  <1>5. QED
    BY <1>3, <1>4 DEF IdInv

\* A step that uses one other packet id, which stood for no other message.
LEMMA IdTake ==
    ASSUME IdInv, NEW c0 \in Conns, NEW i0 \in Keys, NEW m0 \in Msgs, UsesGo(c0, i0, m0),
           spent' = {} => spent = {},
           spent' = {} => \A c \in Conns : lastId[c] < MaxMessageId => lastId'[c] < MaxMessageId,
           spent' = {} => \A c \in Conns, i \in Keys, m \in Msgs : Uses(c, i, m) /\ Old(c, i) =>
             Old(c, i)',
           spent' = {} => Old(c0, i0)' /\ \A n \in Msgs : Uses(c0, i0, n) => n = m0
    PROVE  IdInv'
  <1>1. 0 \in Sources /\ Conns \subseteq Sources /\ 0 \notin Conns
    BY DEF Sources, Conns
  <1>2. \A c \in Conns, i \in Keys, m \in Msgs : Uses(c, i, m)' => Uses(c, i, m)
          \/ (c = c0 /\ i = i0 /\ m = m0)
    BY <1>1 DEF UsesGo
  <1>3. \A i \in Keys \ {NoId}, m \in Msgs : ~Uses(0, i, m)'
    BY <1>1 DEF UsesGo, IdInv
  <1>4. ASSUME spent' = {}
        PROVE  /\ \A c \in Conns : lastId'[c] < MaxMessageId
               /\ \A c \in Conns, i \in Keys, m, n \in Msgs : Uses(c, i, m)' /\ Uses(c, i, n)' =>
                    m = n
               /\ \A c \in Conns, i \in Keys, m \in Msgs : Uses(c, i, m)' => Old(c, i)'
    <2>1. spent = {}
      BY <1>4
    <2>2. \A c \in Conns : lastId'[c] < MaxMessageId
      BY <1>4, <2>1 DEF IdInv
    <2>3. \A c \in Conns, i \in Keys, m, n \in Msgs : Uses(c, i, m)' /\ Uses(c, i, n)' => m = n
      <3> SUFFICES ASSUME NEW c \in Conns, NEW i \in Keys, NEW m \in Msgs, NEW n \in Msgs,
                          Uses(c, i, m)', Uses(c, i, n)'
                   PROVE  m = n
        OBVIOUS
      <3>1. CASE c = c0 /\ i = i0
        BY <1>2, <1>4, <3>1
      <3>2. CASE ~(c = c0 /\ i = i0)
        BY <1>2, <2>1, <3>2 DEF IdInv
      <3>3. QED
        BY <3>1, <3>2
    <2>4. \A c \in Conns, i \in Keys, m \in Msgs : Uses(c, i, m)' => Old(c, i)'
      BY <1>2, <1>4, <2>1 DEF IdInv
    <2>5. QED
      BY <2>2, <2>3, <2>4
  <1>5. QED
    BY <1>3, <1>4 DEF IdInv

\* Ids stay used while connections, counters and the worker at rtPut stay.
LEMMA OldKeep ==
    ASSUME UNCHANGED <<conn, lastId, endpoint>>,
           \A v \in Workers : job[v].pc = "rtPut" => job'[v] = job[v],
           NEW c, NEW i, Old(c, i)
    PROVE  Old(c, i)'
  BY DEF Old, Chosen

\* A step that neither sends nor chooses a packet id.
LEMMA IdQuiet ==
    ASSUME IdInv, NEW m0, UsesGo(0, NoId, m0), UNCHANGED <<conn, lastId, spent, endpoint>>,
           \A v \in Workers : job[v].pc = "rtPut" => job'[v] = job[v]
    PROVE  IdInv'
  BY IdKeep, OldKeep

\* What publish() does to the counter of the connection.
LEMMA PublishIds ==
    ASSUME TypeOK, NEW x \in Conns, NEW m, Publish(x, m)
    PROVE  /\ UNCHANGED conn /\ (spent' = {} => spent = {})
           /\ ~Connected(x) => UNCHANGED lastId
           /\ Connected(x) => /\ endpoint[x] \in Conns /\ NextMessageId(x) \in 1..MaxMessageId
                              /\ lastId' = [lastId EXCEPT ![endpoint[x]] = NextMessageId(x)]
                              /\ spent' = {} => NextMessageId(x) # MaxMessageId
  <1>1. Connected(x) => endpoint[x] \in Conns /\ NextMessageId(x) \in 1..MaxMessageId
    BY NextIdType
  <1>2. QED
    BY <1>1 DEF Publish

\* A step that sends a message under the next packet id of the wrapper's connection.
LEMMA IdSend ==
    ASSUME Inv, EndpointInv, IdInv, NEW w \in Workers, job[w].on \in Conns, Connected(job[w].on),
           job[w].holds,
           NEW m0 \in Msgs, job[w].pc = "rtPut" => job[w].copy.msg = m0,
           UsesGo(endpoint[job[w].on], NextMessageId(job[w].on), m0), Publish(job[w].on, m0),
           UNCHANGED endpoint, \A v \in Workers : v # w => job'[v] = job[v]
    PROVE  IdInv'
  <1> DEFINE x == job[w].on
  <1>0. PICK c0 \in Conns, i0 \in 1..MaxMessageId : c0 = endpoint[x] /\ i0 = NextMessageId(x)
    BY NextIdType DEF Inv
  <1>1. /\ UNCHANGED conn /\ (spent' = {} => spent = {}) /\ c0 \in Conns /\ i0 \in 1..MaxMessageId
        /\ lastId' = [lastId EXCEPT ![c0] = i0] /\ (spent' = {} => i0 # MaxMessageId)
    BY <1>0, PublishIds DEF Inv
  <1>2. lastId \in [Conns -> 0..MaxMessageId] /\ i0 \in Keys
    BY <1>1 DEF Inv, TypeOK, Keys
  <1>3. ASSUME spent' = {}
        PROVE  /\ conn[c0] = "accepted" /\ i0 = lastId[c0] + 1
               /\ \A m \in Msgs : Uses(c0, i0, m) => Chosen(w, c0, i0)
    BY <1>0, <1>1, <1>3, NextIdNew
  <1>4. \A c, i : Chosen(w, c, i) => c = c0
    BY <1>0 DEF Chosen
  <1>5. spent' = {} => \A c \in Conns : lastId[c] < MaxMessageId => lastId'[c] < MaxMessageId
    BY <1>1, <1>2
  <1>6. ASSUME spent' = {}, NEW c \in Conns, NEW i \in Keys, Old(c, i) PROVE Old(c, i)'
    <2>1. i \in Int /\ lastId[c0] \in Int
      BY <1>1, <1>2 DEF Keys, NoId
    <2>2. CASE c = c0
      <3>1. conn'[c] = "accepted" /\ lastId'[c] = lastId[c] + 1
        BY <1>1, <1>2, <1>3, <1>6, <2>2
      <3>2. i <= lastId[c] + 1
        BY <1>6, <2>1, <2>2 DEF Old
      <3>3. QED
        BY <3>1, <3>2 DEF Old
    <2>3. CASE c # c0
      <3>1. conn'[c] = conn[c] /\ lastId'[c] = lastId[c]
        BY <1>1, <1>2, <2>3
      <3>2. \A v \in Workers : Chosen(v, c, i) => Chosen(v, c, i)'
        BY <1>4, <2>3 DEF Chosen
      <3>3. QED
        BY <1>6, <3>1, <3>2 DEF Old
    <2>4. QED
      BY <2>2, <2>3
  <1>7. ASSUME spent' = {} PROVE Old(c0, i0)' /\ \A n \in Msgs : Uses(c0, i0, n) => n = m0
    <2>1. Old(c0, i0)'
      BY <1>1, <1>2, <1>3, <1>7 DEF Old
    <2>2. ASSUME NEW n \in Msgs, Uses(c0, i0, n) PROVE n = m0
      <3>1. Chosen(w, c0, i0)
        BY <1>3, <1>7, <2>2
      <3>2. Uses(c0, i0, m0)
        BY <3>1 DEF Chosen, Uses, HandHas, Retrying
      <3>3. QED
        BY <1>1, <1>2, <1>7, <2>2, <3>2 DEF IdInv
    <2>3. QED
      BY <2>1, <2>2
  <1>8. UsesGo(c0, i0, m0)
    BY <1>0
  <1>9. QED
    BY <1>1, <1>2, <1>5, <1>6, <1>7, <1>8, IdTake

\* An entry with its connection and message is among the uses.
LEMMA EntryUse ==
    ASSUME TypeOK, NEW k \in Keys, inflights[k] # None
    PROVE  inflights[k] \in Entries /\ Uses(inflights[k].by, k, inflights[k].msg)
  BY DEF TypeOK, Uses, EntryHas

\* Every step keeps the packet ids unambiguous.
LEMMA IdStep == Inv /\ EndpointInv /\ IdInv /\ [Next]_vars => IdInv'
  <1> SUFFICES ASSUME Inv, EndpointInv, IdInv, [Next]_vars PROVE IdInv'
    OBVIOUS
  <1>a. TypeOK /\ LocalsInv /\ OpenInv
    BY DEF Inv
  <1>b. \A w \in Workers : LocalsAt(w)
    BY <1>a DEF LocalsInv
  <1>0. ASSUME NEW w \in Workers, Calm(w) PROVE IdInv'
    <2>1. UNCHANGED <<inflights, wire, conn, lastId, spent, endpoint>>
      BY <1>0 DEF Calm
    <2>2. \A v \in Workers : v # w => job'[v] = job[v]
      BY <1>0 DEF Calm
    <2>3. job[w].pc \notin Copying /\ job'[w].pc \notin Copying
      BY <1>0 DEF Calm
    <2>4. UsesGo(0, NoId, None)
      BY <2>1, <2>2, <2>3, UsesKeep
        DEF EntriesUse, WireUses, Uses, EntryHas, WireHas, HandHas, RecHas, Copying
    <2>5. QED
      BY <2>1, <2>2, <2>3, <2>4, IdQuiet DEF Copying, Retrying
  <1>1. ASSUME NEW w \in Workers, InflightPut(w), NextMessageId(job[w].on) # NoId PROVE IdInv'
    <2> DEFINE x == job[w].on
               id == NextMessageId(x)
    <2>1. /\ job[w].pc = "inPut" /\ Put(id, Fresh(job[w].cur, endpoint[x]))
               /\ Publish(x, job[w].cur)
          /\ UNCHANGED endpoint
      BY <1>1 DEF InflightPut
    <2>2. x \in Conns /\ job[w].cur \in Msgs /\ job[w].holds
      BY <1>b, <2>1 DEF LocalsAt, Detached, Carrying, Trying
    <2>3. Connected(x) /\ endpoint[x] \in Conns /\ id \in Keys
      BY <1>a, <1>1, <2>2, NextIdType
    <2>4. /\ Fresh(job[w].cur, endpoint[x]) \in Entries
          /\ Fresh(job[w].cur, endpoint[x]).by = endpoint[x]
               /\ Fresh(job[w].cur, endpoint[x]).msg = job[w].cur
      BY <2>2, <2>3 DEF Fresh, Entries, Conns
    <2>5. Rests(w)
      BY <1>1, <1>a, InflightPutJob
    <2> HIDE DEF x, id
    <2>6. EntriesUse(endpoint[x], id, job[w].cur)
      BY <1>a, <2>1, <2>3, <2>4, PutUses DEF EntriesUse, Uses
    <2>7. WireUses(endpoint[x], id, job[w].cur)
      BY <1>a, <2>1, <2>2, PublishUses DEF WireUses, Uses, id
    <2>8. job'[w].pc = "idle" /\ \A v \in Workers : v # w => job'[v] = job[v]
      BY <2>5 DEF Rests, Becomes
    <2>9. UsesGo(endpoint[x], id, job[w].cur)
      BY <2>6, <2>7, <2>8, UsesKeep DEF HandHas, RecHas, Retrying
    <2>10. QED
      BY <2>1, <2>2, <2>3, <2>8, <2>9, IdSend DEF x, id
  <1>2. ASSUME NEW w \in Workers, DequeuePut(w) PROVE IdInv'
    <2> DEFINE x == job[w].on
               id == NextMessageId(x)
               b == IF id = NoId THEN 0 ELSE endpoint[x]
    <2>1. /\ job[w].pc = "dqPut" /\ Put(id, Fresh(job[w].cur, b))
          /\ UNCHANGED endpoint
      BY <1>2 DEF DequeuePut
    <2>2. x \in Conns /\ job[w].cur \in Msgs /\ job[w].holds
      BY <1>b, <2>1 DEF LocalsAt, Detached, Carrying, Trying
    <2>3. id \in Keys /\ (id # NoId => Connected(x) /\ endpoint[x] \in Conns) /\ b \in Sources
      BY <1>a, <1>2, <2>2, NextIdType DEF Sources, Conns
    <2>4. /\ Fresh(job[w].cur, b) \in Entries
          /\ Fresh(job[w].cur, b).by = b /\ Fresh(job[w].cur, b).msg = job[w].cur
      BY <2>2, <2>3 DEF Fresh, Entries, Sources
    <2>5. job'[w].pc \in {"dqChk", "dqEnd"} /\ \A v \in Workers : v # w => job'[v] = job[v]
      BY <1>2, <1>a, DequeuePutJob DEF Becomes
    <2>6. EntriesUse(b, id, job[w].cur)
      BY <1>a, <2>1, <2>3, <2>4, PutUses DEF EntriesUse, Uses
    <2>7. CASE id = NoId
      <3>1. UNCHANGED <<conn, lastId, spent, wire>>
        BY <1>2, <2>7 DEF DequeuePut
      <3>2. WireUses(0, NoId, job[w].cur)
        BY <3>1 DEF WireUses, WireHas, Uses
      <3>3. UsesGo(0, NoId, job[w].cur)
        BY <2>5, <2>6, <2>7, <3>2, UsesKeep DEF HandHas, RecHas, Retrying
      <3>4. \A v \in Workers : job[v].pc = "rtPut" => job'[v] = job[v]
        BY <2>1, <2>5
      <3>5. QED
        BY <2>1, <3>1, <3>3, <3>4, IdQuiet
    <2>8. CASE id # NoId
      <3>1. Publish(x, job[w].cur)
        BY <1>2, <2>8 DEF DequeuePut
      <3>2. b = endpoint[x]
        BY <2>8
      <3> HIDE DEF x, id, b
      <3>3. WireUses(endpoint[x], id, job[w].cur)
        BY <1>a, <2>2, <3>1, PublishUses DEF WireUses, Uses, id
      <3>4. UsesGo(endpoint[x], id, job[w].cur)
        BY <2>5, <2>6, <3>2, <3>3, UsesKeep DEF HandHas, RecHas, Retrying
      <3>5. QED
        BY <2>1, <2>2, <2>3, <2>5, <2>8, <3>1, <3>4, IdSend DEF x, id
    <2>9. QED
      BY <2>7, <2>8
  <1>3. ASSUME NEW w \in Workers, NEW p \in wire, At(w, "idle"), RemoveInflight(w, p) PROVE IdInv'
    <2>1. UNCHANGED <<conn, lastId, spent, endpoint>> /\ wire' \subseteq wire
      BY <1>3 DEF RemoveInflight
    <2>2. \A i \in Keys : inflights'[i] = None \/ inflights'[i] = inflights[i]
      BY <1>3, <1>a DEF RemoveInflight, TypeOK
    <2>3. job'[w].pc \in {"idle", "dqTake"} /\ \A v \in Workers : v # w => job'[v] = job[v]
      BY <1>3, <1>a, RemoveInflightJob DEF Becomes
    <2>4. EntriesUse(0, NoId, None)
      BY <2>2 DEF EntriesUse, EntryHas, Uses
    <2>5. WireUses(0, NoId, None)
      BY <2>1 DEF WireUses, WireHas, Uses
    <2>6. UsesGo(0, NoId, None)
      BY <2>3, <2>4, <2>5, UsesKeep DEF HandHas, RecHas, Retrying
    <2>7. QED
      BY <1>3, <2>1, <2>3, <2>6, IdQuiet
  <1>4. ASSUME NEW w \in Workers, NEW p \in wire, ReceivePubrec(w, p) PROVE IdInv'
    <2>1. /\ job[w].pc = "idle" /\ UNCHANGED <<inflights, conn, lastId, spent, endpoint>>
          /\ wire' \subseteq wire
      BY <1>4 DEF ReceivePubrec
    <2>2. PICK e \in Entries \cup {None} : (e = None \/ e = inflights[p.id])
               /\ Becomes(w, "recPut", job[w].on, job[w].cur, e, job[w].key, p, job[w].todo,
                    job[w].items, job[w].holds)
      BY <1>4, <1>a, ReceivePubrecJob
    <2>3. /\ job'[w].pc = "recPut" /\ job'[w].rec = p /\ job'[w].copy = e
          /\ \A v \in Workers : v # w => job'[v] = job[v]
      BY <2>2 DEF Becomes
    <2>4. EntriesUse(0, NoId, None)
      BY <2>1 DEF EntriesUse, EntryHas, Uses
    <2>5. WireUses(0, NoId, None)
      BY <2>1 DEF WireUses, WireHas, Uses
    <2>6. \A c, i, m : RecHas(w, c, i, m)' => WireHas(c, i, m) \/ EntryHas(c, i, m)
      BY <2>2, <2>3 DEF RecHas, WireHas, EntryHas
    <2>7. \A c, i, m : ~HandHas(w, c, i, m)'
      BY <2>3 DEF HandHas, Retrying
    <2>8. UsesGo(0, NoId, None)
      BY <2>3, <2>4, <2>5, <2>6, <2>7, UsesKeep DEF Uses
    <2>9. QED
      BY <2>1, <2>3, <2>8, IdQuiet
  <1>5. ASSUME NEW w \in Workers, PutPubrec(w) PROVE IdInv'
    <2> DEFINE p == job[w].rec
               e == [job[w].copy EXCEPT !.status = "PUBREC"]
    <2>1. /\ job[w].pc = "recPut" /\ UNCHANGED <<conn, lastId, spent, endpoint>>
          /\ UNCHANGED inflights \/ (job[w].copy # None /\ Put(p.id, e))
          /\ SendPubrel(p.conn, p.id, p.msg, p.by)
      BY <1>5 DEF PutPubrec
    <2>2. p \in Packets /\ p.id \in Keys
      BY <1>b, <2>1 DEF LocalsAt, Packets, Keys
    <2>3. job'[w].pc = "idle" /\ \A v \in Workers : v # w => job'[v] = job[v]
      BY <1>5, <1>a, PutPubrecJob DEF Rests, Becomes
    <2>4. Uses(p.by, p.id, p.msg)
      BY <2>1 DEF Uses, RecHas
    <2>5. EntriesUse(0, NoId, None)
      <3>1. CASE UNCHANGED inflights
        BY <3>1 DEF EntriesUse, EntryHas, Uses
      <3>2. CASE job[w].copy # None /\ Put(p.id, e)
        <4>1. job[w].copy \in Entries
          BY <1>a, <3>2, JobTypes, JobFields
        <4>2. e \in Entries /\ e.by = job[w].copy.by /\ e.msg = job[w].copy.msg
          BY <4>1 DEF Entries
        <4>3. Uses(e.by, p.id, e.msg)
          BY <2>1, <3>2, <4>2 DEF Uses, RecHas
        <4> HIDE DEF e, p
        <4>4. QED
          BY <1>a, <2>2, <3>2, <4>2, <4>3, PutUses DEF EntriesUse, Uses
      <3>3. QED
        BY <2>1, <3>1, <3>2
    <2>6. WireUses(0, NoId, None)
      BY <2>1, <2>4, PubrelUses DEF WireUses, Uses
    <2>7. UsesGo(0, NoId, None)
      BY <2>3, <2>5, <2>6, UsesKeep DEF HandHas, RecHas, Retrying
    <2>8. QED
      BY <2>1, <2>3, <2>7, IdQuiet
  <1>6. ASSUME NEW w \in Workers, NEW x \in Conns, NEW k \in Keys, Retry(w, x, k) PROVE IdInv'
    <2>1. job[w].pc = "idle" /\ UNCHANGED <<conn, lastId, spent, endpoint, wire>>
      BY <1>6 DEF Retry
    <2>2. \A i \in Keys : inflights'[i] = None \/ inflights'[i] = inflights[i]
      BY <1>6, <1>a DEF Retry, TypeOK
    <2>3. /\ \A v \in Workers : v # w => job'[v] = job[v]
          /\ \/ job'[w].pc \in {"idle", "dqTake"}
             \/ /\ job'[w].pc \in {"rtRel", "rtDel"} /\ inflights[k] \in Entries
                     /\ inflights[k] # None
                /\ job'[w].copy = inflights[k] /\ job'[w].key = k
      <3>1. CASE inflights[k] = None
        BY <1>6, <2>1, <3>1 DEF Retry
      <3>2. CASE inflights[k] # None
        BY <1>6, <1>a, <2>1, <3>2, RetryJob DEF Becomes
      <3>3. QED
        BY <3>1, <3>2
    <2>4. EntriesUse(0, NoId, None)
      BY <2>2 DEF EntriesUse, EntryHas, Uses
    <2>5. WireUses(0, NoId, None)
      BY <2>1 DEF WireUses, WireHas, Uses
    <2>6. \A c, i, m : HandHas(w, c, i, m)' \/ RecHas(w, c, i, m)' => EntryHas(c, i, m)
      BY <2>3 DEF HandHas, RecHas, EntryHas, Retrying
    <2>7. UsesGo(0, NoId, None)
      BY <2>3, <2>4, <2>5, <2>6, UsesKeep DEF Uses
    <2>8. QED
      BY <2>1, <2>3, <2>7, IdQuiet
  <1>7. ASSUME NEW w \in Workers, RetryRelease(w) PROVE IdInv'
    <2> DEFINE x == job[w].on
               k == job[w].key
               e == job[w].copy
    <2>1. /\ job[w].pc = "rtRel" /\ UNCHANGED <<conn, lastId, spent, endpoint>>
          /\ Put(k, Retried(e)) /\ SendPubrel(endpoint[x], k, e.msg, e.by)
      BY <1>7 DEF RetryRelease
    <2>2. k \in Keys /\ e \in Entries /\ e.retry < MaxRetries
      BY <1>a, <1>b, <2>1, JobTypes, JobFields DEF LocalsAt, Retrying
    <2>3. Retried(e) \in Entries /\ Retried(e).by = e.by /\ Retried(e).msg = e.msg
      BY <2>2 DEF Retried, Entries
    <2>4. Uses(e.by, k, e.msg)
      BY <2>1 DEF Uses, HandHas, Retrying
    <2>5. job'[w].pc = "idle" /\ \A v \in Workers : v # w => job'[v] = job[v]
      BY <1>7, <1>a, RetryReleaseJob DEF Rests, Becomes
    <2> HIDE DEF x, k, e
    <2>6. EntriesUse(0, NoId, None)
      BY <1>a, <2>1, <2>2, <2>3, <2>4, PutUses DEF EntriesUse, Uses
    <2>7. WireUses(0, NoId, None)
      BY <2>1, <2>4, PubrelUses DEF WireUses, Uses
    <2>8. UsesGo(0, NoId, None)
      BY <2>5, <2>6, <2>7, UsesKeep DEF HandHas, RecHas, Retrying
    <2>9. QED
      BY <2>1, <2>5, <2>8, IdQuiet
  <1>8. ASSUME NEW w \in Workers, RetryDelete(w) PROVE IdInv'
    <2> DEFINE x == job[w].on
               k == job[w].key
               e == job[w].copy
    <2>1. job[w].pc = "rtDel" /\ UNCHANGED <<conn, lastId, spent, endpoint, wire>>
      BY <1>8 DEF RetryDelete
    <2>2. x \in Conns /\ k \in Keys /\ e \in Entries /\ e.retry < MaxRetries
      BY <1>a, <1>b, <2>1, JobTypes, JobFields DEF LocalsAt, Retrying, Detached
    <2>3. CASE Connected(x)
      <3>0. PICK c0 \in Conns, i0 \in Keys : c0 = endpoint[x] /\ i0 = NextMessageId(x)
        BY <1>a, <2>2, <2>3, NextIdType
      <3>1. inflights' = [inflights EXCEPT ![k] = None] /\ inflightCas[x] = 0
        BY <1>8, <2>3 DEF RetryDelete, TakeInflightCas
      <3>2. PICK f \in Entries : f.msg = e.msg /\ f.by = endpoint[x] /\
              Becomes(w, "rtPut", job[w].on, job[w].cur, f, NextMessageId(job[w].on), job[w].rec,
                job[w].todo, job[w].items, TRUE)
        BY <1>8, <1>a, <2>2, <2>3, RetryDeleteJob DEF Refiles
      <3>3. /\ job'[w].pc = "rtPut" /\ job'[w].on = x /\ job'[w].copy.by = c0
                 /\ job'[w].copy.msg = e.msg
            /\ job'[w].key = i0 /\ \A v \in Workers : v # w => job'[v] = job[v]
        BY <3>0, <3>2 DEF Becomes
      <3>4. PICK m0 \in Msgs : m0 = e.msg
        BY <2>2 DEF Entries
      <3>5. ASSUME spent = {} PROVE /\ conn[c0] = "accepted" /\ i0 = lastId[c0] + 1
                                    /\ \A m \in Msgs : Uses(c0, i0, m) => Chosen(w, c0, i0)
        BY <2>2, <2>3, <3>0, <3>1, <3>5, NextIdNew
      <3>6. ~Chosen(w, c0, i0)
        BY <2>1 DEF Chosen
      <3>7. Chosen(w, c0, i0)'
        <4>1. endpoint'[job'[w].on] = c0
          BY <2>1, <3>0, <3>3
        <4>2. QED
          BY <3>3, <4>1 DEF Chosen
      <3> HIDE DEF x, k, e
      <3>8. EntriesUse(c0, i0, m0)
        BY <1>a, <2>2, <3>1 DEF EntriesUse, EntryHas, Uses, TypeOK
      <3>9. WireUses(c0, i0, m0)
        BY <2>1 DEF WireUses, WireHas, Uses
      <3>10. UsesGo(c0, i0, m0)
        BY <3>3, <3>4, <3>8, <3>9, UsesKeep DEF HandHas, RecHas
      <3>11. spent' = {} => Old(c0, i0)'
        BY <2>1, <3>5, <3>7 DEF Old
      <3>12. \A v \in Workers : job[v].pc = "rtPut" => job'[v] = job[v]
        BY <2>1, <3>3
      <3>13. \A c, i : Old(c, i) => Old(c, i)'
        BY <2>1, <3>12, OldKeep
      <3>14. QED
        BY <2>1, <3>5, <3>6, <3>10, <3>11, <3>13, IdTake
    <2>4. CASE ~Connected(x)
      <3>1. Put(k, Retried(e))
        BY <1>8, <2>4 DEF RetryDelete
      <3>2. Retried(e) \in Entries /\ Retried(e).by = e.by /\ Retried(e).msg = e.msg
        BY <2>2 DEF Retried, Entries
      <3>3. Uses(e.by, k, e.msg)
        BY <2>1 DEF Uses, HandHas, Retrying
      <3>4. job'[w].pc = "idle" /\ \A v \in Workers : v # w => job'[v] = job[v]
        BY <1>8, <1>a, <2>2, <2>4, RetryDeleteJob DEF Refiles, Rests, Becomes
      <3> HIDE DEF x, k, e
      <3>5. EntriesUse(0, NoId, None)
        BY <1>a, <2>2, <3>1, <3>2, <3>3, PutUses DEF EntriesUse, Uses
      <3>6. WireUses(0, NoId, None)
        BY <2>1 DEF WireUses, WireHas, Uses
      <3>7. UsesGo(0, NoId, None)
        BY <3>4, <3>5, <3>6, UsesKeep DEF HandHas, RecHas, Retrying
      <3>8. QED
        BY <2>1, <3>4, <3>7, IdQuiet
    <2>5. QED
      BY <2>3, <2>4
  <1>9. ASSUME NEW w \in Workers, RetryPut(w) PROVE IdInv'
    <2> DEFINE x == job[w].on
               k == job[w].key
               e == job[w].copy
    <2>1. /\ job[w].pc = "rtPut" /\ UNCHANGED endpoint /\ Put(k, Retried(e)) /\ Publish(x, e.msg)
      BY <1>9 DEF RetryPut
    <2>2. /\ x \in Conns /\ k \in Keys /\ e \in Entries /\ e.msg \in Msgs /\ e.retry < MaxRetries
          /\ endpoint[x] \in Conns /\ job[w].holds
      BY <1>a, <1>b, <2>1, JobTypes, JobFields DEF LocalsAt, Retrying, Detached, Trying, Entries
    <2>3. Retried(e) \in Entries /\ Retried(e).by = e.by /\ Retried(e).msg = e.msg
      BY <2>2 DEF Retried, Entries
    <2>4. Uses(e.by, k, e.msg)
      BY <2>1 DEF Uses, HandHas, Retrying
    <2>5. job'[w].pc = "idle" /\ \A v \in Workers : v # w => job'[v] = job[v]
      BY <1>9, <1>a, RetryPutJob DEF Rests, Becomes
    <2>6. \A c, i : Chosen(w, c, i) => c = endpoint[x]
      BY DEF Chosen
    <2> HIDE DEF x, k, e
    <2>7. ASSUME NEW c0, NEW i0, NEW m0 PROVE EntriesUse(c0, i0, m0)
      BY <1>a, <2>1, <2>2, <2>3, <2>4, PutUses DEF EntriesUse, Uses
    <2>8. CASE Connected(x)
      <3>1. WireUses(endpoint[x], NextMessageId(x), e.msg)
        BY <1>a, <2>1, <2>2, PublishUses DEF WireUses, Uses
      <3>2. UsesGo(endpoint[x], NextMessageId(x), e.msg)
        BY <2>5, <2>7, <3>1, UsesKeep DEF HandHas, RecHas, Retrying
      <3>3. QED
        BY <2>1, <2>2, <2>5, <2>8, <3>2, IdSend DEF x, e
    <2>9. CASE ~Connected(x)
      <3>1. UNCHANGED <<conn, lastId, spent, wire>>
        BY <2>1, <2>9 DEF Publish
      <3>2. WireUses(0, NoId, None)
        BY <3>1 DEF WireUses, WireHas, Uses
      <3>3. UsesGo(0, NoId, None)
        BY <2>5, <2>7, <3>2, UsesKeep DEF HandHas, RecHas, Retrying
      <3>4. conn[endpoint[x]] # "accepted"
        BY <2>2, <2>9, NullAssumption DEF Connected
      <3>5. ASSUME NEW c \in Conns, NEW i \in Keys, Old(c, i) PROVE Old(c, i)'
        <4>1. conn[c] # "accepted" \/ \A v \in Workers : Chosen(v, c, i) => Chosen(v, c, i)'
          BY <2>1, <2>5, <2>6, <3>4 DEF Chosen
        <4>2. QED
          BY <3>1, <3>5, <4>1 DEF Old
      <3>6. QED
        BY <3>1, <3>3, <3>5, IdKeep
    <2>10. QED
      BY <2>8, <2>9
  <1>c. conn \in [Conns -> {"new", "opening", "accepted", "closing", "closed"}]
    BY <1>a DEF TypeOK
  <1>10. ASSUME NEW w \in Workers, NEW c \in Conns, OpenSession(w, c) PROVE IdInv'
    <2>1. /\ job[w].pc = "idle" /\ conn[c] = "new" /\ conn' = [conn EXCEPT ![c] = "opening"]
          /\ UNCHANGED <<inflights, lastId, spent, wire, endpoint>>
      BY <1>10 DEF OpenSession
    <2>2. job'[w].pc = "opEndpoint" /\ \A v \in Workers : v # w => job'[v] = job[v]
      BY <1>10, <1>a, OpenSessionJob DEF Becomes
    <2>3. EntriesUse(0, NoId, None) /\ WireUses(0, NoId, None)
      BY <2>1 DEF EntriesUse, WireUses, EntryHas, WireHas, Uses
    <2>4. UsesGo(0, NoId, None)
      BY <2>2, <2>3, UsesKeep DEF HandHas, RecHas, Retrying
    <2>5. ASSUME NEW d \in Conns, NEW i \in Keys, Old(d, i) PROVE Old(d, i)'
      <3>1. d # c /\ conn'[d] = conn[d]
        BY <1>c, <2>1, <2>5 DEF Old
      <3>2. \A v \in Workers : Chosen(v, d, i) => Chosen(v, d, i)'
        BY <2>1, <2>2 DEF Chosen
      <3>3. QED
        BY <2>1, <2>5, <3>1, <3>2 DEF Old
    <2>6. QED
      BY <2>1, <2>4, <2>5, IdKeep
  <1>d. ASSUME UNCHANGED <<inflights, lastId, spent, wire, endpoint, job>>,
               \A d \in Conns : conn'[d] = conn[d] \/ conn'[d] \in {"closing", "closed"}
        PROVE  IdInv'
    <2>1. UsesGo(0, NoId, None)
      BY <1>d DEF UsesGo, Uses, EntryHas, WireHas, HandHas, RecHas
    <2>2. \A d \in Conns, i \in Keys : Old(d, i) => Old(d, i)'
      BY <1>d DEF Old, Chosen
    <2>3. QED
      BY <1>d, <2>1, <2>2, IdKeep
  <1>11. ASSUME NEW w \in Workers, NEW c \in Conns, CloseSession(w, c) PROVE IdInv'
    BY <1>11, <1>c, <1>d DEF CloseSession
  <1>12. ASSUME NEW w \in Workers, OpenEndpoint(w) PROVE IdInv'
    <2> DEFINE x == job[w].on
               c == Incoming
    <2>1. /\ job[w].pc = "opEndpoint" /\ endpoint' = [endpoint EXCEPT ![x] = c]
          /\ UNCHANGED <<inflights, lastId, spent, wire>>
          /\ \/ x # c /\ conn' = [conn EXCEPT ![endpoint[x]] = IF @ = "accepted" THEN "closing"
                  ELSE @]
             \/ x = c /\ UNCHANGED conn
      BY <1>12 DEF OpenEndpoint
    <2>2. x \in Conns /\ c \in Conns /\ conn[c] = "opening"
      BY <1>a, <1>b, <2>1, IncomingOpens DEF LocalsAt, Detached, Opening
    <2>3. job'[w].pc \in {"opRetry", "opCreate", "opClose"} /\ \A v \in Workers : v # w =>
            job'[v] = job[v]
      BY <1>12, <1>a, OpenEndpointJob DEF Becomes
    <2>4. EntriesUse(0, NoId, None) /\ WireUses(0, NoId, None)
      BY <2>1 DEF EntriesUse, WireUses, EntryHas, WireHas, Uses
    <2>5. UsesGo(0, NoId, None)
      BY <2>3, <2>4, UsesKeep DEF HandHas, RecHas, Retrying
    <2>6. ASSUME NEW d \in Conns, NEW i \in Keys, Old(d, i) PROVE Old(d, i)'
      <3>1. conn'[d] = conn[d] \/ conn'[d] = "closing"
        BY <1>c, <2>1
      <3>2. ASSUME NEW v \in Workers, Chosen(v, d, i), job[v].on = x PROVE conn'[d] # "accepted"
        <4>1. endpoint[x] = d
          BY <3>2 DEF Chosen
        <4>2. x # c
          BY <2>1, <2>2, <4>1, NullAssumption DEF EndpointInv
        <4>3. QED
          BY <1>c, <2>1, <4>1, <4>2
      <3>3. ASSUME NEW v \in Workers, Chosen(v, d, i), job[v].on # x PROVE Chosen(v, d, i)'
        <4>1. v # w
          BY <2>1, <3>3 DEF Chosen
        <4>2. job[v].on \in Conns
          BY <1>b, <3>3 DEF Chosen, LocalsAt, Detached
        <4>3. endpoint'[job[v].on] = endpoint[job[v].on]
          BY <1>a, <2>1, <3>3, <4>2 DEF TypeOK
        <4>4. QED
          BY <2>3, <3>3, <4>1, <4>3 DEF Chosen
      <3>4. (conn[d] # "accepted" \/ \E v \in Workers : Chosen(v, d, i)) =>
              (conn'[d] # "accepted" \/ \E v \in Workers : Chosen(v, d, i)')
        BY <3>1, <3>2, <3>3
      <3>5. QED
        BY <2>1, <2>6, <3>1, <3>4 DEF Old
    <2>7. QED
      BY <2>1, <2>5, <2>6, IdKeep
  <1>13. ASSUME NEW w \in Workers, OpenRetry(w), job'[w].pc # "opAccept" PROVE IdInv'
    <2>1. job[w].pc = "opRetry" /\ UNCHANGED <<endpoint, conn, lastId, spent, wire>>
      BY <1>13 DEF OpenRetry
    <2>2. PICK k \in job[w].todo :
            \/ Goto(w, "opAccept")
            \/ /\ inflights[k] # None /\ Put(k, Retried(inflights[k]))
               /\ job' = [job EXCEPT ![w].todo = @ \ {k}]
      BY <1>13 DEF OpenRetry
    <2>3. k \in Keys
      BY <1>a, JobTypes, JobFields
    <2>4. ~Goto(w, "opAccept")
      BY <1>13, <1>a, JobTypes, GotoMoves DEF Moves, Becomes, Places, Opening
    <2>5. job'[w].pc = "opRetry" /\ \A v \in Workers : v # w => job'[v] = job[v]
      BY <1>a, <2>1, <2>2, <2>3, <2>4, OpenRetryJob DEF Becomes
    <2> DEFINE e == inflights[k]
    <2>6. e \in Entries /\ Uses(e.by, k, e.msg) /\ EntryHas(e.by, k, e.msg)
      BY <1>a, <2>2, <2>3, <2>4, EntryUse DEF EntryHas
    <2>7. Retried(e).by = e.by /\ Retried(e).msg = e.msg
      BY <2>6 DEF Retried, Entries
    <2>8. \A c, i, m : i \in Keys /\ EntryHas(c, i, m)' => EntryHas(c, i, m)
      <3>1. \A i \in Keys : inflights'[i] = inflights[i] \/ (i = k /\ inflights'[i] = Retried(e))
        BY <1>a, <2>2, <2>3, <2>4 DEF Put, TypeOK
      <3> HIDE DEF e
      <3>2. QED
        BY <2>6, <2>7, <3>1 DEF EntryHas, e
    <2>9. EntriesUse(0, NoId, None) /\ WireUses(0, NoId, None)
      BY <2>1, <2>8 DEF EntriesUse, WireUses, WireHas, Uses
    <2>10. UsesGo(0, NoId, None)
      BY <2>5, <2>9, UsesKeep DEF HandHas, RecHas, Retrying
    <2>11. QED
      BY <2>1, <2>5, <2>10, IdQuiet
  <1>14. ASSUME NEW w \in Workers, Accept(w) PROVE IdInv'
    <2>1. /\ job[w].pc = "opAccept" /\ conn' = [conn EXCEPT ![Incoming] = "accepted"]
          /\ UNCHANGED <<inflights, lastId, spent, wire, endpoint>>
      BY <1>14 DEF Accept
    <2>2. job'[w].pc = "idle" /\ \A v \in Workers : v # w => job'[v] = job[v]
      BY <1>14, <1>a, AcceptJob DEF Rests, Becomes
    <2>3. Incoming \in Conns /\ conn[Incoming] = "opening"
      BY <1>a, <2>1, IncomingOpens DEF Opening
    <2>4. EntriesUse(0, NoId, None) /\ WireUses(0, NoId, None)
      BY <2>1 DEF EntriesUse, WireUses, EntryHas, WireHas, Uses
    <2>5. UsesGo(0, NoId, None)
      BY <2>2, <2>4, UsesKeep DEF HandHas, RecHas, Retrying
    <2>6. ASSUME NEW d \in Conns, NEW i \in Keys, Old(d, i) PROVE Old(d, i)'
      <3>1. conn'[d] = conn[d]
        BY <1>c, <2>1, <2>3, <2>6 DEF Old
      <3>2. \A v \in Workers : Chosen(v, d, i) => Chosen(v, d, i)'
        BY <2>1, <2>2 DEF Chosen
      <3>3. QED
        BY <2>1, <2>6, <3>1, <3>2 DEF Old
    <2>7. QED
      BY <2>1, <2>5, <2>6, IdKeep
  <1>15. ASSUME NEW x \in Conns, NEW k \in Keys, Expire(x, k) PROVE IdInv'
    BY <1>15, <1>d DEF Expire
  <1>16. ASSUME NEW c \in Conns, Disconnect(c) PROVE IdInv'
    BY <1>16, <1>c, <1>d DEF Disconnect
  <1>17. CASE Crash
    <2>1. \A w \in Workers : job'[w].pc = "idle"
      BY <1>17 DEF Crash, Idle
    <2>2. UNCHANGED <<inflights, lastId, spent>> /\ wire' = {}
      BY <1>17 DEF Crash
    <2>3. UsesGo(0, NoId, None)
      BY <2>1, <2>2 DEF UsesGo, Uses, EntryHas, WireHas, HandHas, RecHas, Retrying
    <2>4. \A d \in Conns : conn'[d] = IF conn[d] = "new" THEN "new" ELSE "closed"
      BY <1>17 DEF Crash
    <2>5. \A d \in Conns, i \in Keys : Old(d, i) => Old(d, i)'
      BY <2>2, <2>4 DEF Old
    <2>6. QED
      BY <2>2, <2>3, <2>5, IdKeep
  <1>18. CASE UNCHANGED vars
    BY <1>18, <1>d DEF vars
  <1>19. QED
    BY <1>0, <1>1, <1>2, <1>3, <1>4, <1>5, <1>6, <1>7, <1>8, <1>9, <1>10, <1>11, <1>12, <1>13,
      <1>14,
       <1>15, <1>16, <1>17, <1>18, StepKinds DEF Stir

-----------------------------------------------------------------------------
(* How a message can be lost                                                *)

\* Worker w has message m.
InHandOf(w, m) ==
    \/ job[w].cur = m
    \/ job[w].copy # None /\ job[w].copy.msg = m
    \/ \E j \in 1..Len(job[w].items) : job[w].items[j] = m

\* The step loses m in one of the five ways.
Lost(m) ==
    crashes' # crashes \/ MistakenId(m) \/ LostInRebuild(m) \/ LostToFullWindow(m)
      \/ LostWithoutId(m)

\* After the step m is still there, settled, or lost in one of the five ways.
Traced(m) == Known(m)' \/ Settled(m)' \/ Lost(m)

\* What worker w's step has to answer for: the queue, the entries, its hands.
LEMMA TraceParts ==
    ASSUME NEW w \in Workers, NEW m, \A v \in Workers : v # w => job'[v] = job[v],
           Queued(m) => Traced(m), Filed(m) => Traced(m), InHandOf(w, m) => Traced(m)
    PROVE  Known(m) => Traced(m)
  <1>1. ASSUME NEW v \in Workers, v # w, InHandOf(v, m) PROVE Traced(m)
    <2>1. InHandOf(v, m)'
      BY <1>1 DEF InHandOf
    <2>2. InHand(m)'
      BY <2>1 DEF InHand, InHandOf
    <2>3. QED
      BY <2>2 DEF Traced, Known
  <1>2. InHand(m) => \E v \in Workers : InHandOf(v, m)
    BY DEF InHand, InHandOf
  <1>3. QED
    BY <1>1, <1>2 DEF Known

\* A worker has messages only at the places that carry, copy or save them.
LEMMA EmptyHands ==
    ASSUME LocalsInv, NEW w \in Workers, NEW m \in Msgs, job[w].pc \notin Carrying \cup Copying
           \cup Saving
    PROVE  ~InHandOf(w, m)
  <1>1. job[w].cur = None /\ job[w].copy = None /\ job[w].items = <<>>
    BY DEF LocalsInv, LocalsAt, Copying
  <1>2. m # None
    BY NullAssumption
  <1>3. QED
    BY <1>1, <1>2 DEF InHandOf

\* A worker at a place that carries one has no other message.
LEMMA CarriedOnly ==
    ASSUME LocalsInv, NEW w \in Workers, NEW m \in Msgs, job[w].pc \in Carrying, InHandOf(w, m)
    PROVE  job[w].cur = m
  <1>1. job[w].copy = None /\ job[w].items = <<>>
    BY DEF LocalsInv, LocalsAt, Copying, Carrying, Retrying, Saving
  <1>2. QED
    BY <1>1 DEF InHandOf

\* A worker at a place that copies an entry has no other message.
LEMMA CopiedOnly ==
    ASSUME LocalsInv, NEW w \in Workers, NEW m \in Msgs, job[w].pc \in Copying, InHandOf(w, m)
    PROVE  job[w].copy # None /\ job[w].copy.msg = m
  <1>1. job[w].cur = None /\ job[w].items = <<>>
    BY DEF LocalsInv, LocalsAt, Copying, Carrying, Retrying, Saving
  <1>2. m # None
    BY NullAssumption
  <1>3. QED
    BY <1>1, <1>2 DEF InHandOf

\* The queue, the entries and the hands of a worker are Known.
LEMMA SameQueue == ASSUME NEW m, UNCHANGED queue PROVE Queued(m) => Traced(m)
  BY DEF Queued, Traced, Known

\* Entries that stay are still filed.
LEMMA SameEntries == ASSUME NEW m, UNCHANGED inflights PROVE Filed(m) => Traced(m)
  BY DEF Filed, InflightKeys, Traced, Known

\* A message in the hands of a worker is known.
LEMMA HandTraced == ASSUME NEW w \in Workers, NEW m, job'[w].cur = m \/ (job'[w].copy # None
  /\ job'[w].copy.msg = m)
                    PROVE  Traced(m)
  BY DEF Traced, Known, InHand

\* A message that is appended is queued, and the others stay.
LEMMA AppendQueued ==
    ASSUME TypeOK, NEW n \in Msgs, queue' = Append(queue, n)
    PROVE  Queued(n)' /\ \A m \in Msgs : Queued(m) => Queued(m)'
  <1>1. queue \in Seq(Msgs)
    BY DEF TypeOK
  <1>2. Len(queue') = Len(queue) + 1 /\ queue'[Len(queue) + 1] = n /\ \A j \in 1..Len(queue) :
          queue'[j] = queue[j]
    BY <1>1
  <1>3. Len(queue) \in Nat
    BY <1>1
  <1>4. QED
    BY <1>2, <1>3 DEF Queued

\* So it is traced.
LEMMA AppendTraced ==
    ASSUME TypeOK, NEW n \in Msgs, queue' = Append(queue, n)
    PROVE  Traced(n) /\ \A m \in Msgs : Queued(m) => Traced(m)
  BY AppendQueued DEF Traced, Known

\* A message that leaves the queue is its first.
LEMMA TailQueued ==
    ASSUME TypeOK, queue # <<>>, queue' = Tail(queue), NEW m \in Msgs, Queued(m)
    PROVE  m = Head(queue) \/ Queued(m)'
  <1>1. queue \in Seq(Msgs)
    BY DEF TypeOK
  <1>2. PICK j \in 1..Len(queue) : queue[j] = m
    BY DEF Queued
  <1>3. CASE j = 1
    BY <1>1, <1>2, <1>3
  <1>4. CASE j # 1
    <2>1. j - 1 \in 1..Len(queue') /\ queue'[j - 1] = m
      BY <1>1, <1>2, <1>4
    <2>2. QED
      BY <2>1 DEF Queued
  <1>5. QED
    BY <1>3, <1>4

\* A full queue loses its first message, which counts as evicted.
LEMMA EvictTraced ==
    ASSUME TypeOK, QueueIsFull, queue' = Tail(queue), evicted' = evicted \cup {Head(queue)},
           NEW m \in Msgs, Queued(m)
    PROVE  Traced(m)
  <1>1. queue # <<>>
    BY QueueType
  <1>2. m = Head(queue) \/ Queued(m)'
    BY <1>1, TailQueued
  <1>3. QED
    BY <1>2 DEF Traced, Known, Settled

\* An entry that is stored is filed if there is room for it.
LEMMA PutFiles ==
    ASSUME TypeOK, NEW k \in Keys, NEW e \in Entries, Put(k, e), CanPut(k)
    PROVE  Filed(e.msg)' /\ inflights'[k] = e /\ e # None
  BY NullAssumption DEF TypeOK, Put, Filed, InflightKeys

\* An entry that takes the place of another message's was numbered by another
\* connection, or neither has a packet id.
LEMMA PutTraced ==
    ASSUME Inv, IdInv, spent = {}, NEW k \in Keys, NEW e \in Entries, Put(k, e),
           e.by \in Conns => \A n \in Msgs : Uses(e.by, k, n) => n = e.msg,
           NEW m \in Msgs, Filed(m)
    PROVE  \/ Traced(m)
           \/ k = NoId /\ inflights[NoId] # None /\ inflights[NoId].msg = m /\ e.msg # m
  <1>a. TypeOK
    BY DEF Inv
  <1>1. PICK i \in Keys : inflights[i] # None /\ inflights[i].msg = m
    BY DEF Filed, InflightKeys
  <1>2. CASE inflights'[i] = inflights[i]
    BY <1>1, <1>2 DEF Filed, InflightKeys, Traced, Known
  <1>3. CASE inflights'[i] # inflights[i]
    <2>1. i = k /\ CanPut(k)
      BY <1>a, <1>3 DEF TypeOK, Put
    <2>2. inflights'[k] = e /\ Filed(e.msg)' /\ e # None
      BY <1>a, <2>1, PutFiles
    <2>3. inflights[k] \in Entries /\ Uses(inflights[k].by, k, m)
      BY <1>a, <1>1, <2>1, EntryUse
    <2>4. CASE e.msg = m
      BY <2>2, <2>4 DEF Traced, Known
    <2>5. CASE e.by # inflights[k].by
      <3>1. MistakenId(m)
        BY <1>1, <2>1, <2>2, <2>5 DEF MistakenId, InflightKeys
      <3>2. QED
        BY <3>1 DEF Traced, Lost
    <2>6. CASE e.msg # m /\ e.by = inflights[k].by
      <3>1. e.by \notin Conns
        BY <2>3, <2>6
      <3>2. e.by = 0
        BY <3>1 DEF Entries, Conns
      <3>3. k = NoId
        BY <2>3, <2>6, <3>2 DEF IdInv
      <3>4. QED
        BY <1>1, <2>1, <2>6, <3>3
    <2>7. QED
      BY <2>4, <2>5, <2>6
  <1>4. QED
    BY <1>2, <1>3

\* An id that stands for a message stands for no other.
LEMMA UsesOne ==
    ASSUME IdInv, spent = {}, NEW c \in Conns, NEW k \in Keys, NEW m \in Msgs, Uses(c, k, m)
    PROVE  \A n \in Msgs : Uses(c, k, n) => n = m
  BY DEF IdInv

\* A message that is stored where there is no room is lost to the full window, and
\* otherwise filed.
LEMMA StoreTraced ==
    ASSUME TypeOK, NEW k \in Keys, NEW e \in Entries, Put(k, e), ~CanPut(k) =>
           LostToFullWindow(e.msg)
    PROVE  Traced(e.msg)
  BY PutFiles DEF Traced, Known, Lost

\* The entry a step gives its next packet id does not hide another one's.
LEMMA NewIdUses ==
    ASSUME Inv, EndpointInv, IdInv, spent = {}, NEW w \in Workers, job[w].on \in Conns,
           Connected(job[w].on),
           job[w].holds, job[w].pc # "rtPut"
    PROVE  \A n \in Msgs : ~Uses(endpoint[job[w].on], NextMessageId(job[w].on), n)
  BY NextIdNew DEF Chosen

\* Every step traces every message.
LEMMA TraceStep ==
    ASSUME Inv, EndpointInv, IdInv, spent = {}, [Next]_vars, NEW m \in Msgs
    PROVE  Known(m) => Traced(m)
  <1>a. TypeOK /\ LocalsInv /\ OpenInv
    BY DEF Inv
  <1>b. \A w \in Workers : LocalsAt(w)
    BY <1>a DEF LocalsInv
  <1>c. ASSUME NEW w \in Workers, UNCHANGED <<queue, inflights>>, \A v \in Workers : v # w =>
               job'[v] = job[v],
               job[w].pc \notin Carrying \cup Copying \cup Saving
        PROVE  Known(m) => Traced(m)
    BY <1>a, <1>c, TraceParts, SameQueue, SameEntries, EmptyHands
  <1>1. ASSUME NEW w \in Workers, NEW n \in Msgs, HandleLocalPublishMessage(w, n)
               PROVE Known(m) => Traced(m)
    <2>1. job[w].pc = "idle" /\ UNCHANGED <<queue, inflights>>
      BY <1>1 DEF HandleLocalPublishMessage
    <2>2. \A v \in Workers : v # w => job'[v] = job[v]
      BY <1>1, <1>a, HandleLocalPublishMessageJob DEF Becomes
    <2>3. QED
      BY <1>c, <2>1, <2>2 DEF Carrying, Copying, Retrying, Saving
  <1>2. ASSUME NEW w \in Workers, EnqueueOffline(w) PROVE Known(m) => Traced(m)
    <2>1. job[w].pc = "offline" /\ UNCHANGED inflights
      BY <1>2 DEF EnqueueOffline
    <2>2. \A v \in Workers : v # w => job'[v] = job[v]
      BY <1>2, <1>a, EnqueueOfflineJob DEF Becomes
    <2>3. job[w].cur \in Msgs /\ (InHandOf(w, m) => job[w].cur = m)
      BY <1>a, <1>b, <2>1, CarriedOnly DEF LocalsAt, Carrying
    <2>4. CASE queueOf = None /\ UNCHANGED queue
      <3>1. job[w].cur = m => LostInRebuild(m)
        BY <2>1, <2>4 DEF LostInRebuild
      <3>2. QED
        BY <2>1, <2>2, <2>3, <2>4, <3>1, TraceParts, SameQueue, SameEntries DEF Traced, Lost
    <2>5. CASE queue' = Append(queue, job[w].cur)
      BY <1>a, <2>1, <2>2, <2>3, <2>5, TraceParts, AppendTraced, SameEntries
    <2>6. CASE QueueIsFull /\ queue' = Tail(queue) /\ evicted' = evicted \cup {Head(queue)}
            /\ UNCHANGED job
      BY <1>a, <2>1, <2>2, <2>3, <2>6, TraceParts, EvictTraced, SameEntries, HandTraced
    <2>7. QED
      BY <1>2, <2>4, <2>5, <2>6 DEF EnqueueOffline
  <1>3. ASSUME NEW w \in Workers, LookupAgain(w) PROVE Known(m) => Traced(m)
    <2>1. job[w].pc = "relook" /\ UNCHANGED <<queue, inflights>>
      BY <1>3 DEF LookupAgain
    <2>2. \A v \in Workers : v # w => job'[v] = job[v]
      BY <1>3, <1>a, LookupAgainJob DEF Rests, Becomes
    <2>3. QED
      BY <1>c, <2>1, <2>2 DEF Carrying, Copying, Retrying, Saving
  <1>4. ASSUME NEW w \in Workers, HandleMessage(w) PROVE Known(m) => Traced(m)
    <2>1. job[w].pc = "handle" /\ UNCHANGED <<queue, inflights>>
      BY <1>4 DEF HandleMessage
    <2>2. \A v \in Workers : v # w => job'[v] = job[v]
      BY <1>4, <1>a, HandleMessageJob DEF Rests, Moves, Becomes
    <2>3. InHandOf(w, m) => job[w].cur = m
      BY <1>a, <2>1, CarriedOnly DEF Carrying
    <2>4. InHandOf(w, m) => Traced(m)
      <3>1. CASE QueueRemoved(job[w].on)
        BY <2>1, <2>3, <3>1 DEF LostInRebuild, Traced, Lost
      <3>2. CASE ~QueueRemoved(job[w].on)
        <4>1. job'[w].cur = job[w].cur
          BY <1>4, <1>a, <3>2, JobTypes, GotoMoves DEF HandleMessage, Moves, Becomes, Places
        <4>2. QED
          BY <2>3, <4>1, HandTraced
      <3>3. QED
        BY <3>1, <3>2
    <2>5. QED
      BY <2>1, <2>2, <2>4, TraceParts, SameQueue, SameEntries
  <1>5. ASSUME NEW w \in Workers, Offer(w) PROVE Known(m) => Traced(m)
    <2>1. job[w].pc = "offer" /\ UNCHANGED inflights
      BY <1>5 DEF Offer
    <2>2. \A v \in Workers : v # w => job'[v] = job[v]
      BY <1>5, <1>a, OfferJob DEF Rests, Becomes
    <2>3. job[w].cur \in Msgs /\ (InHandOf(w, m) => job[w].cur = m)
      BY <1>a, <1>b, <2>1, CarriedOnly DEF LocalsAt, Carrying
    <2>4. CASE QueueRemoved(job[w].on) /\ UNCHANGED queue
      <3>1. job[w].cur = m => LostInRebuild(m)
        BY <2>1, <2>4 DEF LostInRebuild
      <3>2. QED
        BY <2>1, <2>2, <2>3, <2>4, <3>1, TraceParts, SameQueue, SameEntries DEF Traced, Lost
    <2>5. CASE queue' = Append(queue, job[w].cur)
      BY <1>a, <2>1, <2>2, <2>3, <2>5, TraceParts, AppendTraced, SameEntries
    <2>6. CASE QueueIsFull /\ queue' = Tail(queue) /\ evicted' = evicted \cup {Head(queue)}
            /\ UNCHANGED job
      BY <1>a, <2>1, <2>2, <2>3, <2>6, TraceParts, EvictTraced, SameEntries, HandTraced
    <2>7. QED
      BY <1>5, <2>4, <2>5, <2>6 DEF Offer
  <1>5a. ASSUME NEW w \in Workers, InflightCheck(w) PROVE Known(m) => Traced(m)
    <2>1. job[w].pc = "inChk" /\ UNCHANGED <<queue, inflights>>
      BY <1>5a DEF InflightCheck
    <2>2. \A v \in Workers : v # w => job'[v] = job[v]
      BY <1>5a, <1>a, InflightCheckJob DEF Rests, Becomes
    <2>3. InHandOf(w, m) => job[w].cur = m
      BY <1>a, <2>1, CarriedOnly DEF Carrying
    <2>4. InHandOf(w, m) => Traced(m)
      <3>1. CASE QueueRemoved(job[w].on)
        BY <2>1, <2>3, <3>1 DEF LostInRebuild, Traced, Lost
      <3>2. CASE ~QueueRemoved(job[w].on)
        <4> DEFINE p == IF MustQueue THEN "offer" ELSE "inPut"
        <4>1. job' = [job EXCEPT ![w] = [job[w] EXCEPT !.pc = p, !.holds = TRUE]] /\ p \in Places
          BY <1>5a, <3>2 DEF InflightCheck, Places
        <4> HIDE DEF p
        <4>2. job'[w].cur = job[w].cur
          BY <1>a, <4>1, JobTypes, SetTry DEF Becomes
        <4>3. QED
          BY <2>3, <4>2, HandTraced
      <3>3. QED
        BY <3>1, <3>2
    <2>5. QED
      BY <2>1, <2>2, <2>4, TraceParts, SameQueue, SameEntries
  <1>6. ASSUME NEW w \in Workers, InflightPut(w) PROVE Known(m) => Traced(m)
    <2> DEFINE x == job[w].on
               id == NextMessageId(x)
               e == Fresh(job[w].cur, endpoint[x])
    <2>1. job[w].pc = "inPut" /\ UNCHANGED queue
      BY <1>6 DEF InflightPut
    <2>2. \A v \in Workers : v # w => job'[v] = job[v]
      BY <1>6, <1>a, InflightPutJob DEF Rests, Moves, Becomes
    <2>3. x \in Conns /\ job[w].cur \in Msgs /\ job[w].holds /\ (InHandOf(w, m) => job[w].cur = m)
      BY <1>a, <1>b, <2>1, CarriedOnly DEF LocalsAt, Carrying, Trying, Detached
    <2>4. CASE id = NoId
      <3>1. job'[w].cur = job[w].cur /\ UNCHANGED inflights
        BY <1>6, <1>a, <2>4, InflightPutJob DEF InflightPut, Moves, Becomes
      <3>2. QED
        BY <2>1, <2>2, <2>3, <3>1, TraceParts, SameQueue, SameEntries, HandTraced
    <2>5. CASE id # NoId
      <3>1. Put(id, e)
        BY <1>6, <2>5 DEF InflightPut
      <3>2. id \in Keys /\ Connected(x) /\ endpoint[x] \in Conns
        BY <1>a, <2>3, <2>5, NextIdType
      <3>3. e \in Entries /\ e.by = endpoint[x] /\ e.msg = job[w].cur
        BY <2>3, <3>2 DEF Fresh, Entries, Conns
      <3>4. \A n \in Msgs : ~Uses(e.by, id, n)
        BY <2>1, <2>3, <3>2, <3>3, NewIdUses
      <3>5. ~CanPut(id) => LostToFullWindow(e.msg)
        BY <2>1, <3>3 DEF LostToFullWindow
      <3> HIDE DEF x, id, e
      <3>6. InHandOf(w, m) => Traced(m)
        BY <1>a, <2>3, <3>1, <3>2, <3>3, <3>5, StoreTraced
      <3>7. Filed(m) => Traced(m)
        BY <2>5, <3>1, <3>2, <3>3, <3>4, PutTraced
      <3>8. QED
        BY <2>1, <2>2, <3>6, <3>7, TraceParts, SameQueue
    <2>6. QED
      BY <2>4, <2>5
  <1>7. ASSUME NEW w \in Workers, DequeueTake(w) PROVE Known(m) => Traced(m)
    <2>1. job[w].pc = "dqTake" /\ UNCHANGED <<queue, inflights>>
      BY <1>7 DEF DequeueTake
    <2>2. \A v \in Workers : v # w => job'[v] = job[v]
      BY <1>7, <1>a, DequeueTakeJob DEF Rests, Moves, Becomes
    <2>3. QED
      BY <1>c, <2>1, <2>2 DEF Carrying, Copying, Retrying, Saving
  <1>8. ASSUME NEW w \in Workers, DequeueCheck(w) PROVE Known(m) => Traced(m)
    <2>1. job[w].pc = "dqChk" /\ UNCHANGED <<queue, inflights>>
      BY <1>8 DEF DequeueCheck
    <2>2. \A v \in Workers : v # w => job'[v] = job[v]
      BY <1>8, <1>a, DequeueCheckJob DEF Rests, Moves, Becomes
    <2>3. QED
      BY <1>c, <2>1, <2>2 DEF Carrying, Copying, Retrying, Saving
  <1>9. ASSUME NEW w \in Workers, DequeuePoll(w) PROVE Known(m) => Traced(m)
    <2>1. job[w].pc = "dqPoll" /\ UNCHANGED inflights
      BY <1>9 DEF DequeuePoll
    <2>2. \A v \in Workers : v # w => job'[v] = job[v]
      BY <1>9, <1>a, DequeuePollJob DEF Moves, Becomes
    <2>3. ~InHandOf(w, m)
      BY <1>a, <2>1, EmptyHands DEF Carrying, Copying, Retrying, Saving
    <2>4. CASE UNCHANGED queue
      BY <2>1, <2>2, <2>3, <2>4, TraceParts, SameQueue, SameEntries
    <2>5. CASE ~MustStop(job[w].on)
      <3>1. queue # <<>> /\ queue' = Tail(queue)
        BY <1>9, <2>5 DEF DequeuePoll, MustStop
      <3>2. Head(queue) \in Msgs
        BY <1>a, <3>1, QueueType
      <3>3. job'[w].cur = Head(queue)
        <4>1. ~Moves(w, "dqEnd")
          <5>1. job' = [job EXCEPT ![w] = [job[w] EXCEPT !.pc = "dqPut", !.cur = Head(queue),
                  !.holds = TRUE]]
            BY <1>9, <2>5 DEF DequeuePoll
          <5>2. Becomes(w, "dqPut", job[w].on, Head(queue), job[w].copy, job[w].key, job[w].rec,
                  job[w].todo, job[w].items, TRUE)
            BY <1>a, <3>2, <5>1, JobTypes, SetTryMessage DEF Places
          <5>3. QED
            BY <5>2 DEF Becomes, Moves
        <4>2. QED
          BY <1>9, <1>a, <4>1, DequeuePollJob DEF Becomes
      <3>4. Queued(m) => Traced(m)
        BY <1>a, <3>1, <3>3, TailQueued, HandTraced DEF Traced, Known
      <3>5. QED
        BY <2>1, <2>2, <2>3, <3>4, TraceParts, SameEntries
    <2>6. QED
      BY <1>9, <2>4, <2>5 DEF DequeuePoll
  <1>10. ASSUME NEW w \in Workers, DequeuePut(w) PROVE Known(m) => Traced(m)
    <2> DEFINE x == job[w].on
               id == NextMessageId(x)
               b == IF id = NoId THEN 0 ELSE endpoint[x]
               e == Fresh(job[w].cur, b)
    <2>1. job[w].pc = "dqPut" /\ UNCHANGED queue /\ Put(id, e)
      BY <1>10 DEF DequeuePut
    <2>2. \A v \in Workers : v # w => job'[v] = job[v]
      BY <1>10, <1>a, DequeuePutJob DEF Becomes
    <2>3. x \in Conns /\ job[w].cur \in Msgs /\ job[w].holds /\ (InHandOf(w, m) => job[w].cur = m)
      BY <1>a, <1>b, <2>1, CarriedOnly DEF LocalsAt, Carrying, Trying, Detached
    <2>4. id \in Keys /\ (id # NoId => Connected(x) /\ endpoint[x] \in Conns) /\ b \in Sources
      BY <1>a, <2>3, NextIdType DEF Sources, Conns
    <2>5. e \in Entries /\ e.by = b /\ e.msg = job[w].cur
      BY <2>3, <2>4 DEF Fresh, Entries, Sources
    <2>6. e.by \in Conns => \A n \in Msgs : ~Uses(e.by, id, n)
      <3>1. CASE id = NoId
        BY <2>5, <3>1 DEF Conns
      <3>2. CASE id # NoId
        BY <2>1, <2>3, <2>4, <2>5, <3>2, NewIdUses
      <3>3. QED
        BY <3>1, <3>2
    <2>7. ~CanPut(id) => LostToFullWindow(e.msg)
      BY <2>1, <2>5 DEF LostToFullWindow
    <2>8. id = NoId => job'[w].pc = "dqEnd"
      <3>1. ASSUME id = NoId PROVE job'[w].pc = "dqEnd"
        <4>1. job' = [job EXCEPT ![w] = [job[w] EXCEPT !.pc = "dqEnd", !.cur = None,
                !.holds = FALSE]]
          BY <1>10, <3>1 DEF DequeuePut
        <4>2. Becomes(w, "dqEnd", job[w].on, None, job[w].copy, job[w].key, job[w].rec,
                job[w].todo, job[w].items, FALSE)
          BY <1>a, <4>1, JobTypes, SetTryMessage DEF Places
        <4>3. QED
          BY <4>2 DEF Becomes
      <3>2. QED
        BY <3>1
    <2> HIDE DEF x, id, b, e
    <2>9. InHandOf(w, m) => Traced(m)
      BY <1>a, <2>1, <2>3, <2>4, <2>5, <2>7, StoreTraced
    <2>10. Filed(m) => Traced(m)
      <3>1. ASSUME Filed(m), id = NoId, inflights[NoId] # None, inflights[NoId].msg = m
                   PROVE Traced(m)
        BY <2>1, <2>8, <3>1 DEF LostWithoutId, Traced, Lost
      <3>2. QED
        BY <2>1, <2>4, <2>5, <2>6, <3>1, PutTraced
    <2>11. QED
      BY <2>1, <2>2, <2>9, <2>10, TraceParts, SameQueue
  <1>11. ASSUME NEW w \in Workers, DequeueEnd(w) PROVE Known(m) => Traced(m)
    <2>1. job[w].pc = "dqEnd" /\ UNCHANGED <<queue, inflights>>
      BY <1>11 DEF DequeueEnd
    <2>2. \A v \in Workers : v # w => job'[v] = job[v]
      BY <1>11, <1>a, DequeueEndJob DEF Rests, Becomes
    <2>3. QED
      BY <1>c, <2>1, <2>2 DEF Carrying, Copying, Retrying, Saving
  <1>12. ASSUME NEW w \in Workers, NEW p \in wire, At(w, "idle"), RemoveInflight(w, p)
                PROVE Known(m) => Traced(m)
    <2>1. UNCHANGED queue /\ acked' = acked \cup {p.msg} /\ wire' = wire \ {p}
      BY <1>12 DEF RemoveInflight
    <2>2. \A v \in Workers : v # w => job'[v] = job[v]
      BY <1>12, <1>a, RemoveInflightJob DEF Becomes
    <2>3. ~InHandOf(w, m)
      BY <1>12, <1>a, EmptyHands DEF Carrying, Copying, Retrying, Saving
    <2>4. p \in Packets /\ p.id \in Keys \ {NoId} /\ p.msg \in Msgs /\ p.by \in Sources
      BY <1>a DEF TypeOK, Packets, Keys, NoId, Sources
    <2>5. ASSUME Filed(m) PROVE Traced(m)
      <3>1. PICK i \in Keys : inflights[i] # None /\ inflights[i].msg = m
        BY <2>5 DEF Filed, InflightKeys
      <3>2. CASE inflights'[i] = inflights[i]
        BY <3>1, <3>2 DEF Filed, InflightKeys, Traced, Known
      <3>3. CASE inflights'[i] # inflights[i]
        <4>1. i = p.id
          BY <1>12, <1>a, <2>4, <3>3 DEF RemoveInflight, TypeOK
        <4>2. Uses(inflights[i].by, i, m) /\ Uses(p.by, p.id, p.msg)
          BY <3>1 DEF Uses, EntryHas, WireHas
        <4>3. CASE p.by # inflights[i].by
          <5>1. MistakenId(m)
            BY <2>1, <3>1, <4>1, <4>3 DEF MistakenId, InflightKeys
          <5>2. QED
            BY <5>1 DEF Traced, Lost
        <4>4. CASE p.by = inflights[i].by
          <5>1. p.by # 0
            BY <2>4, <4>2 DEF IdInv
          <5>2. p.by \in Conns
            BY <2>4, <5>1 DEF Sources, Conns
          <5>3. p.msg = m
            BY <2>4, <4>1, <4>2, <4>4, <5>2 DEF IdInv
          <5>4. QED
            BY <2>1, <5>3 DEF Traced, Settled
        <4>5. QED
          BY <4>3, <4>4
      <3>4. QED
        BY <3>2, <3>3
    <2>6. QED
      BY <2>1, <2>2, <2>3, <2>5, TraceParts, SameQueue
  <1>13. ASSUME NEW w \in Workers, NEW p \in wire, ReceivePubrec(w, p) PROVE Known(m) => Traced(m)
    <2>1. job[w].pc = "idle" /\ UNCHANGED <<queue, inflights>>
      BY <1>13 DEF ReceivePubrec
    <2>2. \A v \in Workers : v # w => job'[v] = job[v]
      BY <1>13, <1>a, ReceivePubrecJob DEF Becomes
    <2>3. QED
      BY <1>c, <2>1, <2>2 DEF Carrying, Copying, Retrying, Saving
  <1>14. ASSUME NEW w \in Workers, PutPubrec(w) PROVE Known(m) => Traced(m)
    <2> DEFINE p == job[w].rec
               e == [job[w].copy EXCEPT !.status = "PUBREC"]
    <2>1. job[w].pc = "recPut" /\ UNCHANGED queue
      BY <1>14 DEF PutPubrec
    <2>2. \A v \in Workers : v # w => job'[v] = job[v]
      BY <1>14, <1>a, PutPubrecJob DEF Rests, Becomes
    <2>3. p.id \in Keys /\ p.id # NoId
      BY <1>b, <2>1 DEF LocalsAt, Packets, Keys, NoId
    <2>4. CASE job[w].copy = None
      <3>1. UNCHANGED inflights
        BY <1>14, <2>4 DEF PutPubrec
      <3>2. ~InHandOf(w, m)
        BY <1>a, <2>1, <2>4, CopiedOnly DEF Copying
      <3>3. QED
        BY <2>1, <2>2, <3>1, <3>2, TraceParts, SameQueue, SameEntries
    <2>5. CASE job[w].copy # None
      <3>1. Put(p.id, e)
        BY <1>14, <2>5 DEF PutPubrec
      <3>2. job[w].copy \in Entries
        BY <1>a, <2>5, JobTypes, JobFields
      <3>3. e \in Entries /\ e.by = job[w].copy.by /\ e.msg = job[w].copy.msg /\ e.msg \in Msgs
        BY <3>2 DEF Entries
      <3>4. Uses(e.by, p.id, e.msg)
        BY <2>1, <2>5, <3>3 DEF Uses, RecHas
      <3>5. ~CanPut(p.id) => LostToFullWindow(e.msg)
        BY <2>1, <2>5, <3>3 DEF LostToFullWindow
      <3>6. InHandOf(w, m) => e.msg = m
        BY <1>a, <2>1, <3>3, CopiedOnly DEF Copying
      <3> HIDE DEF p, e
      <3>7. InHandOf(w, m) => Traced(m)
        BY <1>a, <2>3, <3>1, <3>3, <3>5, <3>6, StoreTraced
      <3>8. e.by \in Conns => \A n \in Msgs : Uses(e.by, p.id, n) => n = e.msg
        BY <2>3, <3>3, <3>4, UsesOne
      <3>9. Filed(m) => Traced(m)
        BY <2>3, <3>1, <3>3, <3>8, PutTraced
      <3>10. QED
        BY <2>1, <2>2, <3>7, <3>9, TraceParts, SameQueue
    <2>6. QED
      BY <2>4, <2>5
  <1>15. ASSUME NEW w \in Workers, NEW x \in Conns, NEW k \in Keys, Retry(w, x, k)
                PROVE Known(m) => Traced(m)
    <2>1. job[w].pc = "idle" /\ UNCHANGED queue
      BY <1>15 DEF Retry
    <2>2. \A v \in Workers : v # w => job'[v] = job[v]
      BY <1>15, <1>a, RetryJob DEF Becomes
    <2>3. ~InHandOf(w, m)
      BY <1>a, <2>1, EmptyHands DEF Carrying, Copying, Retrying, Saving
    <2>4. CASE UNCHANGED inflights
      BY <2>1, <2>2, <2>3, <2>4, TraceParts, SameQueue, SameEntries
    <2>5. CASE inflights' = [inflights EXCEPT ![k] = None]
            /\ dropped' = dropped \cup {inflights[k].msg}
      <3>1. ASSUME Filed(m) PROVE Traced(m)
        <4>1. PICK i \in Keys : inflights[i] # None /\ inflights[i].msg = m
          BY <3>1 DEF Filed, InflightKeys
        <4>2. CASE i = k
          BY <2>5, <4>1, <4>2 DEF Traced, Settled
        <4>3. CASE i # k
          <5>1. inflights'[i] = inflights[i]
            BY <1>a, <2>5, <4>3 DEF TypeOK
          <5>2. QED
            BY <4>1, <5>1 DEF Filed, InflightKeys, Traced, Known
        <4>4. QED
          BY <4>2, <4>3
      <3>2. QED
        BY <2>1, <2>2, <2>3, <3>1, TraceParts, SameQueue
    <2>6. QED
      BY <1>15, <2>4, <2>5 DEF Retry
  <1>16. ASSUME NEW w \in Workers, job[w].pc \in Retrying, UNCHANGED queue,
                Put(job[w].key, Retried(job[w].copy)), Rests(w)
         PROVE  Known(m) => Traced(m)
    <2> DEFINE k == job[w].key
               f == job[w].copy
               e == Retried(f)
    <2>1. \A v \in Workers : v # w => job'[v] = job[v]
      BY <1>16 DEF Rests, Becomes
    <2>2. k \in Keys /\ f \in Entries /\ f.retry < MaxRetries
      BY <1>a, <1>b, <1>16, JobTypes, JobFields DEF LocalsAt
    <2>3. e \in Entries /\ e.by = f.by /\ e.msg = f.msg /\ e.msg \in Msgs
      BY <2>2 DEF Retried, Entries
    <2>4. Uses(e.by, k, e.msg)
      BY <1>16, <2>3 DEF Uses, HandHas
    <2>5. ~CanPut(k) => LostToFullWindow(e.msg)
      BY <1>16, <2>3 DEF LostToFullWindow, Retrying
    <2>6. InHandOf(w, m) => e.msg = m
      BY <1>a, <1>16, <2>3, CopiedOnly DEF Copying
    <2>7. ASSUME k = NoId, inflights[NoId] # None, inflights[NoId].msg = m, e.msg # m
                 PROVE Traced(m)
      <3>1. job[w].pc \in {"rtRel", "rtDel"}
        BY <1>b, <1>16, <2>7 DEF LocalsAt, Retrying
      <3>2. job'[w].pc # job[w].pc
        BY <1>16, <3>1 DEF Rests, Becomes
      <3>3. LostWithoutId(m)
        BY <2>3, <2>7, <3>1, <3>2 DEF LostWithoutId
      <3>4. QED
        BY <3>3 DEF Traced, Lost
    <2> HIDE DEF k, f, e
    <2>8. InHandOf(w, m) => Traced(m)
      BY <1>a, <1>16, <2>2, <2>3, <2>5, <2>6, StoreTraced DEF k, e, f
    <2>9. e.by \in Conns => \A n \in Msgs : Uses(e.by, k, n) => n = e.msg
      BY <2>2, <2>3, <2>4, UsesOne
    <2>10. Filed(m) => Traced(m)
      <3>1. Put(k, e)
        BY <1>16 DEF k, e, f
      <3>2. QED
        BY <2>2, <2>3, <2>7, <2>9, <3>1, PutTraced
    <2>11. QED
      BY <1>16, <2>1, <2>8, <2>10, TraceParts, SameQueue
  <1>17. ASSUME NEW w \in Workers, RetryRelease(w) PROVE Known(m) => Traced(m)
    BY <1>17, <1>a, <1>16, RetryReleaseJob DEF RetryRelease, Retrying
  <1>18. ASSUME NEW w \in Workers, RetryDelete(w) PROVE Known(m) => Traced(m)
    <2> DEFINE k == job[w].key
               e == job[w].copy
    <2>1. job[w].pc = "rtDel" /\ UNCHANGED queue
      BY <1>18 DEF RetryDelete
    <2>2. job[w].on \in Conns /\ k \in Keys /\ e \in Entries /\ e.msg \in Msgs
      BY <1>a, <1>b, <2>1, JobTypes, JobFields DEF LocalsAt, Retrying, Detached, Entries
    <2>3. CASE ~Connected(job[w].on)
      <3>1. Put(k, Retried(e))
        BY <1>18, <2>3 DEF RetryDelete
      <3>2. Rests(w)
        BY <1>18, <1>a, <2>2, <2>3, RetryDeleteJob DEF Refiles
      <3>3. QED
        BY <1>16, <2>1, <3>1, <3>2 DEF Retrying
    <2>4. CASE Connected(job[w].on)
      <3>1. inflights' = [inflights EXCEPT ![k] = None]
        BY <1>18, <2>4 DEF RetryDelete
      <3>2. PICK f \in Entries : f.msg = e.msg /\
              Becomes(w, "rtPut", job[w].on, job[w].cur, f, NextMessageId(job[w].on), job[w].rec,
                job[w].todo, job[w].items, TRUE)
        BY <1>18, <1>a, <2>2, <2>4, RetryDeleteJob DEF Refiles
      <3>3. /\ job'[w].pc = "rtPut" /\ job'[w].copy # None /\ job'[w].copy.msg = e.msg
            /\ \A v \in Workers : v # w => job'[v] = job[v]
        BY <3>2, NullAssumption DEF Becomes
      <3>4. Traced(e.msg)
        BY <3>3, HandTraced
      <3>5. InHandOf(w, m) => e.msg = m
        BY <1>a, <2>1, CopiedOnly DEF Copying, Retrying
      <3>6. ASSUME Filed(m) PROVE Traced(m)
        <4>1. PICK i \in Keys : inflights[i] # None /\ inflights[i].msg = m
          BY <3>6 DEF Filed, InflightKeys
        <4>2. CASE i # k
          <5>1. inflights'[i] = inflights[i]
            BY <1>a, <3>1, <4>2 DEF TypeOK
          <5>2. QED
            BY <4>1, <5>1 DEF Filed, InflightKeys, Traced, Known
        <4>3. CASE i = k /\ e.by # inflights[i].by
          <5>1. MistakenId(m)
            BY <2>1, <3>3, <4>1, <4>3 DEF MistakenId, InflightKeys
          <5>2. QED
            BY <5>1 DEF Traced, Lost
        <4>4. CASE i = k /\ e.by = inflights[i].by /\ e.msg # m
          <5>1. Uses(e.by, k, e.msg) /\ Uses(e.by, k, m)
            BY <2>1, <4>1, <4>4 DEF Uses, HandHas, EntryHas, Retrying
          <5>2. e.by \notin Conns
            BY <2>2, <4>4, <5>1, UsesOne
          <5>3. e.by = 0
            BY <2>2, <5>2 DEF Entries, Conns
          <5>4. k = NoId
            BY <2>2, <5>1, <5>3 DEF IdInv
          <5>5. LostWithoutId(m)
            BY <2>1, <3>3, <4>1, <4>4, <5>4 DEF LostWithoutId
          <5>6. QED
            BY <5>5 DEF Traced, Lost
        <4>5. QED
          BY <3>4, <4>2, <4>3, <4>4
      <3>7. QED
        BY <2>1, <3>3, <3>4, <3>5, <3>6, TraceParts, SameQueue
    <2>5. QED
      BY <2>3, <2>4
  <1>19. ASSUME NEW w \in Workers, RetryPut(w) PROVE Known(m) => Traced(m)
    BY <1>19, <1>a, <1>16, RetryPutJob DEF RetryPut, Retrying
  <1>20. ASSUME NEW w \in Workers, NEW c \in Conns, OpenSession(w, c) PROVE Known(m) => Traced(m)
    <2>1. job[w].pc = "idle" /\ UNCHANGED <<queue, inflights>>
      BY <1>20 DEF OpenSession
    <2>2. \A v \in Workers : v # w => job'[v] = job[v]
      BY <1>20, <1>a, OpenSessionJob DEF Becomes
    <2>3. QED
      BY <1>c, <2>1, <2>2 DEF Carrying, Copying, Retrying, Saving
  <1>21. ASSUME NEW w \in Workers, OpenEndpoint(w) PROVE Known(m) => Traced(m)
    <2>1. job[w].pc = "opEndpoint" /\ UNCHANGED <<queue, inflights>>
      BY <1>21 DEF OpenEndpoint
    <2>2. \A v \in Workers : v # w => job'[v] = job[v]
      BY <1>21, <1>a, OpenEndpointJob DEF Becomes
    <2>3. QED
      BY <1>c, <2>1, <2>2 DEF Carrying, Copying, Retrying, Saving
  <1>22. ASSUME NEW w \in Workers, job[w].pc \in Saving, job'[w].items = job[w].items,
                InHandOf(w, m) PROVE Traced(m)
    <2>1. job[w].cur # m /\ job[w].copy = None
      BY <1>b, <1>22, NullAssumption DEF LocalsAt, Saving, Carrying, Retrying
    <2>2. \E j \in 1..Len(job'[w].items) : job'[w].items[j] = m
      BY <1>22, <2>1 DEF InHandOf
    <2>3. QED
      BY <2>2 DEF Traced, Known, InHand
  <1>23. ASSUME NEW w \in Workers, OpenCloseQueue(w) PROVE Known(m) => Traced(m)
    <2>1. job[w].pc = "opClose" /\ UNCHANGED inflights
      BY <1>23 DEF OpenCloseQueue
    <2>2. Moves(w, "opCreate")
      BY <1>23, <1>a, OpenCloseQueueJob
    <2>3. /\ job'[w].pc = "opCreate" /\ job'[w].items = job[w].items
          /\ \A v \in Workers : v # w => job'[v] = job[v]
      BY <2>2 DEF Moves, Becomes
    <2>4. Queued(m) => Traced(m)
      BY <2>1, <2>3 DEF LostInRebuild, Traced, Lost
    <2>5. QED
      BY <1>22, <2>1, <2>3, <2>4, TraceParts, SameEntries DEF Saving
  <1>24. ASSUME NEW w \in Workers, OpenCreateQueue(w) PROVE Known(m) => Traced(m)
    <2>1. job[w].pc = "opCreate" /\ UNCHANGED <<queue, inflights>>
      BY <1>24 DEF OpenCreateQueue
    <2>2. Moves(w, "opAdd")
      BY <1>24, <1>a, OpenCreateQueueJob
    <2>3. job'[w].items = job[w].items /\ \A v \in Workers : v # w => job'[v] = job[v]
      BY <2>2 DEF Moves, Becomes
    <2>4. QED
      BY <1>22, <2>1, <2>3, TraceParts, SameQueue, SameEntries DEF Saving
  <1>25. ASSUME NEW w \in Workers, OpenAddItems(w) PROVE Known(m) => Traced(m)
    <2>1. job[w].pc = "opAdd" /\ UNCHANGED inflights
      BY <1>25 DEF OpenAddItems
    <2>2. job'[w].pc = "opRetry" /\ \A v \in Workers : v # w => job'[v] = job[v]
      BY <1>25, <1>a, OpenAddItemsJob DEF Becomes
    <2>3. queue \in Seq(Msgs) /\ job[w].items \in Seq(Msgs)
      BY <1>a, JobTypes, JobFields
    <2>4. CASE queue' = queue \o job[w].items
      <3>1. Queued(m) => Queued(m)'
        <4>1. \A j \in 1..Len(queue) : j \in 1..Len(queue') /\ queue'[j] = queue[j]
          BY <2>3, <2>4
        <4>2. QED
          BY <4>1 DEF Queued
      <3>2. ASSUME InHandOf(w, m) PROVE Queued(m)'
        <4>1. job[w].cur # m /\ job[w].copy = None
          BY <1>b, <2>1, NullAssumption DEF LocalsAt, Carrying, Retrying
        <4>2. PICK j \in 1..Len(job[w].items) : job[w].items[j] = m
          BY <3>2, <4>1 DEF InHandOf
        <4>3. Len(queue) + j \in 1..Len(queue') /\ queue'[Len(queue) + j] = m
          BY <2>3, <2>4, <4>2
        <4>4. QED
          BY <4>3 DEF Queued
      <3>3. QED
        BY <2>1, <2>2, <3>1, <3>2, TraceParts, SameEntries DEF Traced, Known
    <2>5. CASE ~(QueueMax = 0 \/ Len(queue) + Len(job[w].items) <= QueueMax)
      <3>1. QueueMax > 0 /\ Len(queue) + Len(job[w].items) > QueueMax
        BY <2>3, <2>5
      <3>2. LostInRebuild(m)
        BY <2>1, <2>2, <3>1 DEF LostInRebuild
      <3>3. QED
        BY <3>2 DEF Traced, Lost
    <2>6. QED
      BY <1>25, <2>4, <2>5 DEF OpenAddItems
  <1>26. ASSUME NEW w \in Workers, OpenRetry(w) PROVE Known(m) => Traced(m)
    <2>1. job[w].pc = "opRetry" /\ UNCHANGED queue
      BY <1>26 DEF OpenRetry
    <2>2. PICK k \in job[w].todo :
            \/ Goto(w, "opAccept") /\ UNCHANGED inflights
            \/ /\ inflights[k] # None /\ Put(k, Retried(inflights[k]))
               /\ job' = [job EXCEPT ![w].todo = @ \ {k}]
      BY <1>26 DEF OpenRetry
    <2>3. k \in Keys
      BY <1>a, JobTypes, JobFields
    <2>4. \A v \in Workers : v # w => job'[v] = job[v]
      BY <1>a, <2>2, <2>3, JobTypes, GotoMoves, OpenRetryJob DEF Moves, Becomes, Places, Opening
    <2>5. ~InHandOf(w, m)
      BY <1>a, <2>1, EmptyHands DEF Carrying, Copying, Retrying, Saving
    <2>6. CASE UNCHANGED inflights
      BY <2>1, <2>4, <2>5, <2>6, TraceParts, SameQueue, SameEntries
    <2>7. CASE inflights[k] # None /\ Put(k, Retried(inflights[k]))
      <3> DEFINE e == Retried(inflights[k])
      <3>1. \A i \in Keys : inflights'[i] = inflights[i] \/ (i = k /\ inflights'[i] = e)
        BY <1>a, <2>3, <2>7 DEF Put, TypeOK
      <3>2. inflights[k] \in Entries
        BY <1>a, <2>3, <2>7 DEF TypeOK
      <3>3. e.msg = inflights[k].msg /\ DOMAIN e = {"msg", "status", "retry", "by"}
        BY <3>2 DEF Retried, Entries
      <3>4. e \in Entries
        <4>1. PICK c \in Conns : conn[c] = "opening"
          BY <1>a, <2>1 DEF OpenInv, Inv, Opening
        <4>2. Low(inflights[k], c)
          BY <1>a, <2>1, <2>2, <2>3, <2>7, <4>1 DEF RetryInv, Awaits, Inv
        <4>3. inflights[k].retry \in Nat /\ inflights[k].retry < MaxRetries + MaxConns - 1
          BY <2>7, <3>2, <4>2 DEF Low, Entries, Conns
        <4>4. QED
          BY <3>2, <4>3, EntryTypes
      <3>5. e # None
        BY <3>4, NullAssumption
      <3>6. Filed(m) => Traced(m)
        BY <3>1, <3>3, <3>5 DEF Filed, InflightKeys, Traced, Known
      <3>7. QED
        BY <2>1, <2>4, <2>5, <3>6, TraceParts, SameQueue
    <2>8. QED
      BY <2>2, <2>6, <2>7
  <1>27. ASSUME NEW w \in Workers, OpenPutWrapper(w) PROVE Known(m) => Traced(m)
    <2>1. job[w].pc = "opRetry" /\ UNCHANGED <<queue, inflights>>
      BY <1>27 DEF OpenPutWrapper
    <2>2. \A v \in Workers : v # w => job'[v] = job[v]
      BY <1>27, <1>a, OpenPutWrapperJob DEF Moves, Becomes
    <2>3. QED
      BY <1>c, <2>1, <2>2 DEF Carrying, Copying, Retrying, Saving
  <1>28. ASSUME NEW w \in Workers, Accept(w) PROVE Known(m) => Traced(m)
    <2>1. job[w].pc = "opAccept" /\ UNCHANGED <<queue, inflights>>
      BY <1>28 DEF Accept
    <2>2. \A v \in Workers : v # w => job'[v] = job[v]
      BY <1>28, <1>a, AcceptJob DEF Rests, Becomes
    <2>3. QED
      BY <1>c, <2>1, <2>2 DEF Carrying, Copying, Retrying, Saving
  <1>29. CASE UNCHANGED <<queue, inflights, job>>
    BY <1>29 DEF Traced, Known, Queued, Filed, InflightKeys, InHand
  <1>30. CASE Crash
    BY <1>30, <1>a DEF Crash, Traced, Lost, TypeOK
  <1>31. ASSUME NEW w \in Workers, ReceiveAnswer(w) PROVE Known(m) => Traced(m)
    BY <1>12, <1>13, <1>31 DEF ReceiveAnswer, ReceivePuback, ReceivePubcomp
  <1>32. ASSUME NEW w \in Workers, WorkerStep(w) PROVE Known(m) => Traced(m)
    BY <1>2, <1>3, <1>4, <1>5, <1>5a, <1>6, <1>7, <1>8, <1>9, <1>10, <1>11, <1>14, <1>17, <1>18,
      <1>19,
       <1>21, <1>23, <1>24, <1>25, <1>26, <1>27, <1>28, <1>32 DEF WorkerStep
  <1>33. ASSUME NEW w \in Workers, NEW c \in Conns, CloseSession(w, c) PROVE Known(m) => Traced(m)
    BY <1>29, <1>33 DEF CloseSession
  <1>34. ASSUME NEW x \in Conns, NEW k \in Keys, Expire(x, k) PROVE Known(m) => Traced(m)
    BY <1>29, <1>34 DEF Expire
  <1>35. ASSUME NEW c \in Conns, Disconnect(c) PROVE Known(m) => Traced(m)
    BY <1>29, <1>35 DEF Disconnect
  <1>36. CASE UNCHANGED vars
    BY <1>29, <1>36 DEF vars
  <1>37. QED
    BY <1>1, <1>15, <1>20, <1>30, <1>31, <1>32, <1>33, <1>34, <1>35, <1>36 DEF Next, Quiet

\* The identifiers are in order when the session starts.
LEMMA IdInit == Init => EndpointInv /\ IdInv
  <1> SUFFICES ASSUME Init PROVE EndpointInv /\ IdInv
    OBVIOUS
  <1>1. \A w \in Workers : job[w].pc = "idle"
    BY DEF Init, Idle
  <1>2. EndpointInv
    BY <1>1, NullAssumption DEF Init, EndpointInv, Opening, Conns
  <1>3. \A c \in Sources, i \in Keys, m \in Msgs : ~Uses(c, i, m)
    BY <1>1 DEF Init, Uses, EntryHas, WireHas, HandHas, RecHas, Retrying
  <1>4. \A c \in Conns : lastId[c] < MaxMessageId
    BY DEF Init
  <1>5. QED
    BY <1>2, <1>3, <1>4 DEF IdInv, Sources, Conns

\* Endpoints and packet ids stay in order.
LEMMA IdInvariance == Spec => [](Inv /\ EndpointInv /\ IdInv)
  BY IdInit, EndpointStep, IdStep, Invariance, PTL DEF Spec

\* Across any number of reconnections and crashes a QoS 1 or QoS 2 message of a
\* persistent session disappears from the queue, the inflight cache and every
\* handler's hands in the five known ways only, unless it was confirmed, dropped or
\* evicted: no interleaving of inflight(), enqueue(), dequeue(), retry(), the
\* handlers of PUBACK, PUBREC and PUBCOMP, open(), close() and of the wrappers of
\* two connections of the client adds a sixth one.
THEOREM LossesAreKnown == Spec => OnlyKnownLosses
  <1>1. Inv /\ EndpointInv /\ IdInv /\ [Next]_vars =>
          [\A m \in taken :
             IdsUnused /\ Known(m) /\ ~Known(m)' /\ ~Settled(m)' =>
               \/ crashes' # crashes
               \/ MistakenId(m) \/ LostInRebuild(m)
               \/ LostToFullWindow(m) \/ LostWithoutId(m)]_vars
    <2> SUFFICES ASSUME Inv, EndpointInv, IdInv, [Next]_vars, NEW m \in taken,
                        IdsUnused, Known(m), ~Known(m)', ~Settled(m)'
                 PROVE  \/ crashes' # crashes
                        \/ MistakenId(m) \/ LostInRebuild(m)
                        \/ LostToFullWindow(m) \/ LostWithoutId(m)
      OBVIOUS
    <2>1. m \in Msgs /\ spent = {}
      BY DEF Inv, TypeOK, IdsUnused
    <2>2. Traced(m)
      BY <2>1, TraceStep
    <2>3. QED
      BY <2>2 DEF Traced, Lost
  <1>2. QED
    BY <1>1, IdInvariance, PTL DEF Spec, OnlyKnownLosses

\* A packet id of a connection stands for one message, until the connection has
\* given out its last id: no two entries, packets under way and copies in the hands
\* of the workers carry it for different messages.
THEOREM PacketIdsAreUnique ==
    Spec => [](IdsUnused => \A c \in Conns, i \in Keys, m, n \in Msgs : Uses(c, i, m)
      /\ Uses(c, i, n) => m = n)
  <1>1. IdInv => (IdsUnused => \A c \in Conns, i \in Keys, m, n \in Msgs : Uses(c, i, m)
          /\ Uses(c, i, n) => m = n)
    BY DEF IdInv, IdsUnused
  <1>2. QED
    BY <1>1, IdInvariance, PTL

-----------------------------------------------------------------------------
(* Nothing disappears before the client connects again                      *)

\* The premise of KeptUntilReconnect.
FirstOnly ==
    /\ InflightMax > 0 /\ crashes = 0 /\ IdsUnused /\ revived = {}
    /\ \A c \in Conns \ {1} : conn[c] = "new"

\* There is one wrapper, and its queue and timers are the only ones.
OneWrapper ==
    /\ wrapper \in {1, None} /\ queueOf = 1 /\ endpoint[1] = 1
    /\ \A w \in Workers : job[w].on \in {1, None}
    /\ \A c \in Conns : c # 1 => timeouts[c] = {} /\ expired[c] = {}

\* Worker w retries the entry under k and has not given it up.
RetryKey(w, k) == job[w].pc \in {"rtRel", "rtDel"} /\ job[w].key = k

\* The connection will not give out packet id k again.
Given(k) == k <= lastId[1] \/ (k = lastId[1] + 1 /\ conn[1] # "accepted")

\* A packet id has a timer, or waits for its retry, or is being retried by one
\* worker, or is the one that a retry has chosen and not used yet.
OneTimer ==
    /\ timeouts[1] \cap expired[1] = {}
    /\ \A k \in timeouts[1] \cup expired[1] : k # NoId /\ Given(k)
    /\ \A w \in Workers, k \in Keys : RetryKey(w, k) =>
         k # NoId /\ Given(k) /\ k \notin timeouts[1] \cup expired[1]
    /\ \A v, w \in Workers, k \in Keys : RetryKey(v, k) /\ RetryKey(w, k) => v = w
    /\ \A w \in Workers : job[w].pc = "rtPut" =>
         /\ job[w].key = lastId[1] + 1 /\ job[w].key \notin timeouts[1] \cup expired[1]
         /\ \A v \in Workers, k \in Keys : RetryKey(v, k) => k # job[w].key

Room == Cardinality(InflightKeys) < InflightMax

\* A worker that is about to file a message finds room for it, and one that
\* retries an entry finds the entry, unless its message is settled.  At most one
\* message is filed without a packet id, and then none is about to be.
HasRoom(w) ==
    /\ job[w].pc \in {"inPut", "dqPut"} => Room
    /\ job[w].pc = "rtPut" => Room \/ Settled(job[w].copy.msg)
    /\ job[w].pc \in {"rtRel", "rtDel"} => inflights[job[w].key] # None \/ Settled(job[w].copy.msg)

NoIdOnce == inflights[NoId] # None => conn[1] # "accepted" /\ \A w \in Workers : job[w].pc # "dqPut"

RoomInv ==
    /\ Cardinality(InflightKeys) <= InflightMax
    /\ NoIdOnce
    /\ \A w \in Workers : HasRoom(w)

\* Copies that may be thrown away do not count.
Carries(w, m) == job[w].cur = m \/ (job[w].pc = "rtPut" /\ job[w].copy.msg = m)
Kept(m) == Queued(m) \/ Filed(m) \/ Settled(m) \/ \E w \in Workers : Carries(w, m)
KeptInv == \A m \in taken : Kept(m)

FirstInv == FirstOnly => OneWrapper /\ OneTimer /\ RoomInv /\ KeptInv

\* The window is a finite set.
LEMMA WindowFinite == IsFiniteSet(InflightKeys) /\ Cardinality(InflightKeys) \in Nat
  <1>1. IsFiniteSet(1..MaxMessageId)
    BY FS_Interval
  <1>2. Keys = (1..MaxMessageId) \cup {NoId}
    BY DEF Keys
  <1>3. IsFiniteSet(Keys)
    BY <1>1, <1>2, FS_AddElement
  <1>4. InflightKeys \subseteq Keys
    BY DEF InflightKeys
  <1>5. IsFiniteSet(InflightKeys)
    BY <1>3, <1>4, FS_Subset
  <1>6. QED
    BY <1>5, FS_CardinalityType

\* The same after a step.
LEMMA WindowFiniteAfter == IsFiniteSet(InflightKeys') /\ Cardinality(InflightKeys') \in Nat
  <1>1. IsFiniteSet(1..MaxMessageId)
    BY FS_Interval
  <1>2. Keys = (1..MaxMessageId) \cup {NoId}
    BY DEF Keys
  <1>3. IsFiniteSet(Keys)
    BY <1>1, <1>2, FS_AddElement
  <1>4. InflightKeys' \subseteq Keys
    BY DEF InflightKeys
  <1>5. IsFiniteSet(InflightKeys')
    BY <1>3, <1>4, FS_Subset
  <1>6. QED
    BY <1>5, FS_CardinalityType

\* Fewer keys leave as much room.
LEMMA FewerKeys ==
    ASSUME InflightKeys' \subseteq InflightKeys
    PROVE  Cardinality(InflightKeys') <= Cardinality(InflightKeys) /\ (Room => Room')
  <1>1. Cardinality(InflightKeys') <= Cardinality(InflightKeys)
    BY WindowFinite, FS_Subset
  <1>2. QED
    BY <1>1, WindowFinite, WindowFiniteAfter DEF Room

\* An entry that is removed makes room.
LEMMA RemoveRoom ==
    ASSUME TypeOK, NEW k \in Keys, inflights' = [inflights EXCEPT ![k] = None],
           Cardinality(InflightKeys) <= InflightMax
    PROVE  /\ Cardinality(InflightKeys') <= InflightMax
           /\ inflights[k] # None => Room'
  <1>1. InflightKeys' = InflightKeys \ {k}
    BY FiledKeys
  <1>2. Cardinality(InflightKeys') <= InflightMax
    BY <1>1, FewerKeys, WindowFinite, WindowFiniteAfter
  <1>3. ASSUME inflights[k] # None PROVE Room'
    <2>1. k \in InflightKeys
      BY <1>3 DEF InflightKeys
    <2>2. Cardinality(InflightKeys \ {k}) = Cardinality(InflightKeys) - 1
      BY <2>1, WindowFinite, FS_RemoveElement
    <2>3. QED
      BY <1>1, <2>2, WindowFinite DEF Room
  <1>4. QED
    BY <1>2, <1>3

\* A put never overfills the window.
LEMMA PutRoom ==
    ASSUME TypeOK, NEW k \in Keys, NEW e, Put(k, e), Cardinality(InflightKeys) <= InflightMax
    PROVE  Cardinality(InflightKeys') <= InflightMax
  <1>1. CASE InflightKeys' \subseteq InflightKeys
    BY <1>1, FewerKeys, WindowFinite, WindowFiniteAfter
  <1>2. CASE ~(InflightKeys' \subseteq InflightKeys)
    <2>1. InflightKeys' \subseteq InflightKeys \cup {k}
      BY FiledKeys
    <2>2. k \in InflightKeys' /\ k \notin InflightKeys
      BY <1>2, <2>1
    <2>3. CanPut(k) /\ inflights[k] = None
      BY <2>2 DEF InflightKeys, Put, TypeOK
    <2>4. Cardinality(InflightKeys) < InflightMax
      BY <2>3 DEF CanPut
    <2>5. Cardinality(InflightKeys \cup {k}) = Cardinality(InflightKeys) + 1
      BY <2>2, WindowFinite, FS_AddElement
    <2>6. IsFiniteSet(InflightKeys \cup {k})
      BY WindowFinite, FS_AddElement
    <2>7. Cardinality(InflightKeys') <= Cardinality(InflightKeys \cup {k})
      BY <2>1, <2>6, FS_Subset
    <2>8. QED
      BY <2>4, <2>5, <2>7, WindowFinite, WindowFiniteAfter
  <1>3. QED
    BY <1>1, <1>2

\* The client has connected again, and so on: this stays so.
Onward ==
    /\ crashes' = 0 => crashes = 0
    /\ revived \subseteq revived' /\ spent \subseteq spent'
    /\ \A c \in Conns : conn'[c] = "new" => conn[c] = "new"

\* If the premise holds after a step, it has held before.
LEMMA FirstBack == Inv /\ [Next]_vars /\ FirstOnly' => FirstOnly
  <1> SUFFICES ASSUME Inv, [Next]_vars, FirstOnly' PROVE FirstOnly
    OBVIOUS
  <1>a. conn \in [Conns -> {"new", "opening", "accepted", "closing", "closed"}] /\ crashes \in Nat
    BY DEF Inv, TypeOK
  <1>1. ASSUME NEW w \in Workers, InflightPut(w) PROVE Onward
    BY <1>a, <1>1 DEF Onward, InflightPut, Publish
  <1>2. ASSUME NEW w \in Workers, DequeuePut(w) PROVE Onward
    BY <1>a, <1>2 DEF Onward, DequeuePut, Publish
  <1>3. ASSUME NEW w \in Workers, NEW p \in wire, RemoveInflight(w, p) PROVE Onward
    BY <1>a, <1>3 DEF Onward, RemoveInflight
  <1>4. ASSUME NEW w \in Workers, NEW p \in wire, ReceivePubrec(w, p) PROVE Onward
    BY <1>a, <1>4 DEF Onward, ReceivePubrec
  <1>5. ASSUME NEW w \in Workers, PutPubrec(w) PROVE Onward
    BY <1>a, <1>5 DEF Onward, PutPubrec, NoteRevived
  <1>6. ASSUME NEW w \in Workers, NEW x \in Conns, NEW k \in Keys, Retry(w, x, k) PROVE Onward
    BY <1>a, <1>6 DEF Onward, Retry
  <1>7. ASSUME NEW w \in Workers, RetryRelease(w) PROVE Onward
    BY <1>a, <1>7 DEF Onward, RetryRelease, NoteRevived
  <1>8. ASSUME NEW w \in Workers, RetryDelete(w) PROVE Onward
    BY <1>a, <1>8 DEF Onward, RetryDelete
  <1>9. ASSUME NEW w \in Workers, RetryPut(w) PROVE Onward
    BY <1>a, <1>9 DEF Onward, RetryPut, Publish
  <1>10. ASSUME NEW w \in Workers, NEW c \in Conns, OpenSession(w, c) PROVE Onward
    BY <1>a, <1>10 DEF Onward, OpenSession
  <1>11. ASSUME NEW w \in Workers, NEW c \in Conns, CloseSession(w, c) PROVE Onward
    BY <1>a, <1>11 DEF Onward, CloseSession
  <1>12. ASSUME NEW w \in Workers, OpenEndpoint(w) PROVE Onward
    BY <1>a, <1>12 DEF Onward, OpenEndpoint
  <1>13. ASSUME NEW w \in Workers, OpenRetry(w) PROVE Onward
    BY <1>a, <1>13 DEF Onward, OpenRetry
  <1>14. ASSUME NEW w \in Workers, Accept(w) PROVE Onward
    BY <1>a, <1>14 DEF Onward, Accept
  <1>15. ASSUME NEW x \in Conns, NEW k \in Keys, Expire(x, k) PROVE Onward
    BY <1>a, <1>15 DEF Onward, Expire
  <1>16. ASSUME NEW c \in Conns, Disconnect(c) PROVE Onward
    BY <1>a, <1>16 DEF Onward, Disconnect
  <1>17. ASSUME Crash PROVE Onward
    BY <1>a, <1>17 DEF Onward, Crash
  <1>18. ASSUME NEW w \in Workers, Calm(w) PROVE Onward
    BY <1>a, <1>18 DEF Onward, Calm
  <1>19. ASSUME UNCHANGED vars PROVE Onward
    BY <1>a, <1>19 DEF Onward, vars
  <1>20. Onward
    BY StepKinds, <1>1, <1>2, <1>3, <1>4, <1>5, <1>6, <1>7, <1>8, <1>9, <1>10, <1>11, <1>12,
      <1>13, <1>14, <1>15, <1>16, <1>17, <1>18, <1>19 DEF Stir
  <1>21. QED
    BY <1>20 DEF Onward, FirstOnly, IdsUnused

\* Until the client connects again, no worker opens a session, and a worker that
\* works on a wrapper works on the first.
LEMMA FirstPlaces ==
    ASSUME Inv, FirstOnly, OneWrapper, NEW w \in Workers
    PROVE  /\ job[w].pc \notin Opening
           /\ job[w].pc \notin Detached => job[w].on = 1
           /\ 1 \in Conns /\ (Connected(1) <=> conn[1] = "accepted")
           /\ job[w].holds => job[w].on = 1 /\ inflightCas[1] = 1 /\ \A v \in Workers : v # w =>
                ~job[v].holds
  <1>1. 1 \in Conns
    BY DEF Conns
  <1>2. job[w].pc \notin Opening
    BY DEF Inv, OpenInv, FirstOnly
  <1>3. \A v \in Workers : job[v].pc \notin Detached => job[v].on = 1
    <2> SUFFICES ASSUME NEW v \in Workers, job[v].pc \notin Detached PROVE job[v].on = 1
      OBVIOUS
    <2>1. job[v].on \in Conns
      BY DEF Inv, LocalsInv, LocalsAt
    <2>2. QED
      BY <2>1, NullAssumption DEF OneWrapper
  <1>4. Connected(1) <=> conn[1] = "accepted"
    BY <1>1, NullAssumption DEF Connected, OneWrapper
  <1>5. \A v \in Workers : job[v].holds => job[v].on = 1
    BY <1>3 DEF Inv, LocalsInv, LocalsAt, Trying, Detached
  <1>6. job[w].holds => inflightCas[1] = 1 /\ \A v \in Workers : v # w => ~job[v].holds
    BY <1>5 DEF Inv, LockInv
  <1>7. QED
    BY <1>1, <1>2, <1>3, <1>4, <1>5, <1>6

\* What a worker has in its hands or what is queued stays there, apart from a
\* message that is evicted; what is taken is in its hands.
HandsGo(w) ==
    \A m \in taken' :
        /\ m \in taken /\ (job[w].cur = m \/ Queued(m)) => job'[w].cur = m \/ Queued(m)'
             \/ Settled(m)'
        /\ m \notin taken => job'[w].cur = m

\* A calm step, as it is before the client connects again.
Still(w) ==
    /\ UNCHANGED <<queueOf, inflights, conn, lastId, spent, wrapper, endpoint, timeouts, expired,
                   acked, dropped, revived, crashes>>
    /\ evicted \subseteq evicted'
    /\ \A v \in Workers : v # w => job'[v] = job[v]
    /\ job[w].pc \notin Copying /\ job'[w].pc \notin Copying
    /\ job'[w].on \in {job[w].on, wrapper, None}
    /\ job'[w].pc \in {"inPut", "dqPut"} => ~IsInflightFull
    /\ job'[w].pc = "dqPut" => conn[1] = "accepted"
    /\ HandsGo(w)

\* Nothing moves.
LEMMA HandsStay ==
    ASSUME NEW w \in Workers, UNCHANGED <<queue, taken>>, job'[w].cur = job[w].cur
    PROVE  HandsGo(w)
  BY DEF HandsGo, Queued

\* A worker without a message rests.
LEMMA HandsRest ==
    ASSUME Inv, NEW w \in Workers, job[w].pc \notin Carrying, Rests(w), UNCHANGED <<queue, taken>>
    PROVE  HandsGo(w)
  <1>1. job'[w].cur = job[w].cur
    BY DEF Inv, LocalsInv, LocalsAt, Rests, Becomes
  <1>2. QED
    BY <1>1, HandsStay

\* The steps that leave entries and timers alone are still.
LEMMA StillSteps ==
    ASSUME Inv, FirstOnly, OneWrapper, NEW w \in Workers
    PROVE  /\ (\E m \in Msgs : HandleLocalPublishMessage(w, m)) => Still(w)
           /\ EnqueueOffline(w) => Still(w)
           /\ LookupAgain(w) => Still(w)
           /\ HandleMessage(w) => Still(w)
           /\ Offer(w) => Still(w)
           /\ InflightCheck(w) => Still(w)
           /\ InflightPut(w) /\ NextMessageId(job[w].on) = NoId => Still(w)
           /\ DequeueTake(w) => Still(w)
           /\ DequeueCheck(w) => Still(w)
           /\ DequeuePoll(w) => Still(w)
           /\ DequeueEnd(w) => Still(w)
  <1>a. TypeOK /\ taken \subseteq Msgs
    BY DEF Inv, TypeOK
  <1>b. LocalsAt(w)
    BY DEF Inv, LocalsInv
  <1>1. ASSUME NEW m \in Msgs, HandleLocalPublishMessage(w, m) PROVE Still(w)
    <2>1. /\ job[w].pc = "idle" /\ taken' = taken \cup {m} /\ UNCHANGED <<storeVars, serverVars>>
          /\ UNCHANGED <<acked, dropped, evicted, revived, crashes>>
      BY <1>1 DEF HandleLocalPublishMessage
    <2>2. \E p \in {"offline", "handle"} :
            Becomes(w, p, wrapper, m, job[w].copy, job[w].key, job[w].rec, job[w].todo,
              job[w].items, job[w].holds)
      BY <1>1, <1>a, HandleLocalPublishMessageJob
    <2>3. job[w].cur = None
      BY <1>b, <2>1 DEF LocalsAt, Carrying
    <2>4. HandsGo(w)
      BY <1>a, <2>1, <2>2, <2>3, NullAssumption DEF HandsGo, Queued, Becomes
    <2>5. QED
      BY <2>1, <2>2, <2>4 DEF Still, Becomes, Copying, Retrying
  <1>2. ASSUME EnqueueOffline(w) PROVE Still(w)
    <2>1. /\ job[w].pc = "offline" /\ UNCHANGED <<queueOf, inflights, serverVars>>
          /\ UNCHANGED <<taken, acked, dropped, revived, crashes>> /\ evicted \subseteq evicted'
      BY <1>2 DEF EnqueueOffline
    <2>2. job' = job \/ Becomes(w, "relook", job[w].on, None, job[w].copy, job[w].key, job[w].rec,
                                job[w].todo, job[w].items, job[w].holds)
      BY <1>2, <1>a, EnqueueOfflineJob
    <2>3. queueOf # None /\ job[w].cur \in Msgs
      BY <1>b, <2>1, NullAssumption DEF OneWrapper, LocalsAt, Carrying, Conns
    <2>4. HandsGo(w)
      <3>1. CASE queue' = Append(queue, job[w].cur)
        BY <1>a, <2>1, <2>3, <3>1, AppendQueued DEF HandsGo
      <3>2. CASE QueueIsFull /\ queue' = Tail(queue) /\ evicted' = evicted \cup {Head(queue)}
              /\ UNCHANGED job
        <4>1. queue # <<>>
          BY <1>a, <3>2, QueueType
        <4>2. \A m \in Msgs : Queued(m) => m = Head(queue) \/ Queued(m)'
          BY <1>a, <3>2, <4>1, TailQueued
        <4>3. QED
          BY <1>a, <2>1, <3>2, <4>2 DEF HandsGo, Settled
      <3>3. QED
        BY <1>2, <2>3, <3>1, <3>2 DEF EnqueueOffline
    <2>5. QED
      BY <2>1, <2>2, <2>4 DEF Still, Becomes, Copying, Retrying
  <1>3. ASSUME LookupAgain(w) PROVE Still(w)
    <2>1. job[w].pc = "relook" /\ UNCHANGED <<storeVars, serverVars, historyVars>>
      BY <1>3 DEF LookupAgain
    <2>2. \/ Rests(w)
          \/ Becomes(w, "dqTake", wrapper, job[w].cur, job[w].copy, job[w].key, job[w].rec,
               job[w].todo,
                     job[w].items, job[w].holds)
      BY <1>3, <1>a, LookupAgainJob
    <2>3. HandsGo(w)
      BY <2>1, <2>2, HandsRest, HandsStay DEF Becomes, Carrying
    <2>4. QED
      BY <2>1, <2>2, <2>3 DEF Still, Rests, Becomes, Copying, Retrying
  <1>4. ASSUME HandleMessage(w) PROVE Still(w)
    <2>1. job[w].pc = "handle" /\ UNCHANGED <<storeVars, serverVars, historyVars>>
      BY <1>4 DEF HandleMessage
    <2>2. ~QueueRemoved(job[w].on)
      BY <2>1, FirstPlaces DEF QueueRemoved, OneWrapper, Detached
    <2>3. Moves(w, "offer") \/ Moves(w, "inChk")
      BY <1>4, <1>a, <2>2, JobTypes, GotoMoves DEF HandleMessage, Places
    <2>4. HandsGo(w)
      BY <2>1, <2>3, HandsStay DEF Moves, Becomes
    <2>5. QED
      BY <2>1, <2>3, <2>4 DEF Still, Moves, Becomes, Copying, Retrying
  <1>5. ASSUME Offer(w) PROVE Still(w)
    <2>1. /\ job[w].pc = "offer" /\ UNCHANGED <<queueOf, inflights, endpointVars, wrapperVars,
               timerVars>>
          /\ UNCHANGED <<taken, acked, dropped, revived, crashes>> /\ evicted \subseteq evicted'
      BY <1>5 DEF Offer
    <2>2. ~QueueRemoved(job[w].on)
      BY <2>1, FirstPlaces DEF QueueRemoved, OneWrapper, Detached
    <2>3. job[w].cur \in Msgs
      BY <1>b, <2>1 DEF LocalsAt, Carrying
    <2>4. job' = job \/ Rests(w) \/ Becomes(w, "dqTake", job[w].on, None, job[w].copy, job[w].key,
            job[w].rec,
                                            job[w].todo, job[w].items, FALSE)
      BY <1>5, <1>a, OfferJob
    <2>5. HandsGo(w)
      <3>1. CASE queue' = Append(queue, job[w].cur)
        BY <1>a, <2>1, <2>3, <3>1, AppendQueued DEF HandsGo
      <3>2. CASE QueueIsFull /\ queue' = Tail(queue) /\ evicted' = evicted \cup {Head(queue)}
              /\ UNCHANGED job
        <4>1. queue # <<>>
          BY <1>a, <3>2, QueueType
        <4>2. \A m \in Msgs : Queued(m) => m = Head(queue) \/ Queued(m)'
          BY <1>a, <3>2, <4>1, TailQueued
        <4>3. QED
          BY <1>a, <2>1, <3>2, <4>2 DEF HandsGo, Settled
      <3>3. QED
        BY <1>5, <2>2, <3>1, <3>2 DEF Offer
    <2>6. QED
      BY <2>1, <2>4, <2>5 DEF Still, Rests, Becomes, Copying, Retrying
  <1>6. ASSUME InflightCheck(w) PROVE Still(w)
    <2>1. job[w].pc = "inChk" /\ UNCHANGED <<storeVars, endpointVars, wrapperVars, timerVars,
            outcomeVars>>
      BY <1>6 DEF InflightCheck
    <2>2. ~QueueRemoved(job[w].on)
      BY <2>1, FirstPlaces DEF QueueRemoved, OneWrapper, Detached
    <2>3. \E p \in {"offer", "inPut"} :
            /\ p = "inPut" => ~MustQueue
            /\ Becomes(w, p, job[w].on, job[w].cur, job[w].copy, job[w].key, job[w].rec,
                 job[w].todo, job[w].items, TRUE)
      <3> DEFINE p == IF MustQueue THEN "offer" ELSE "inPut"
      <3>1. job' = [job EXCEPT ![w] = [job[w] EXCEPT !.pc = p, !.holds = TRUE]]
        BY <1>6, <2>2 DEF InflightCheck
      <3>2. p \in {"offer", "inPut"} /\ p \in Places /\ (p = "inPut" => ~MustQueue)
        BY DEF Places
      <3> HIDE DEF p
      <3>3. QED
        BY <1>a, <3>1, <3>2, JobTypes, SetTry
    <2>4. HandsGo(w)
      BY <2>1, <2>3, HandsStay DEF Becomes
    <2>5. job'[w].pc = "inPut" => ~IsInflightFull
      BY <2>3 DEF Becomes, MustQueue
    <2>6. QED
      BY <2>1, <2>3, <2>4, <2>5 DEF Still, Becomes, Copying, Retrying
  <1>7. ASSUME InflightPut(w), NextMessageId(job[w].on) = NoId PROVE Still(w)
    <2>1. job[w].pc = "inPut" /\ UNCHANGED <<storeVars, endpointVars, wrapperVars, timerVars,
            outcomeVars>>
      BY <1>7 DEF InflightPut
    <2>2. Moves(w, "offer")
      BY <1>7, <1>a, InflightPutJob
    <2>3. HandsGo(w)
      BY <2>1, <2>2, HandsStay DEF Moves, Becomes
    <2>4. QED
      BY <2>1, <2>2, <2>3 DEF Still, Moves, Becomes, Copying, Retrying
  <1>8. ASSUME DequeueTake(w) PROVE Still(w)
    <2>1. job[w].pc = "dqTake" /\ UNCHANGED <<storeVars, endpointVars, wrapperVars, timerVars,
            outcomeVars>>
      BY <1>8 DEF DequeueTake
    <2>2. Rests(w) \/ Moves(w, "dqChk")
      BY <1>8, <1>a, DequeueTakeJob
    <2>3. HandsGo(w)
      BY <2>1, <2>2, HandsStay, HandsRest DEF Moves, Becomes, Carrying
    <2>4. QED
      BY <2>1, <2>2, <2>3 DEF Still, Moves, Rests, Becomes, Copying, Retrying
  <1>9. ASSUME DequeueCheck(w) PROVE Still(w)
    <2>1. job[w].pc = "dqChk" /\ UNCHANGED <<storeVars, serverVars, historyVars>>
      BY <1>9 DEF DequeueCheck
    <2>2. Moves(w, "dqEnd") \/ Moves(w, "dqPoll")
      BY <1>9, <1>a, DequeueCheckJob
    <2>3. HandsGo(w)
      BY <2>1, <2>2, HandsStay DEF Moves, Becomes
    <2>4. QED
      BY <2>1, <2>2, <2>3 DEF Still, Moves, Becomes, Copying, Retrying
  <1>10. ASSUME DequeuePoll(w) PROVE Still(w)
    <2>1. job[w].pc = "dqPoll" /\ UNCHANGED <<queueOf, inflights, endpointVars, wrapperVars,
            timerVars, outcomeVars>>
      BY <1>10 DEF DequeuePoll
    <2>2. CASE MustStop(job[w].on)
      <3>1. Moves(w, "dqEnd") /\ UNCHANGED queue
        BY <1>10, <1>a, <2>2, JobTypes, GotoMoves DEF DequeuePoll, Places
      <3>2. HandsGo(w)
        BY <2>1, <3>1, HandsStay DEF Moves, Becomes
      <3>3. QED
        BY <2>1, <3>1, <3>2 DEF Still, Moves, Becomes, Copying, Retrying
    <2>3. CASE ~MustStop(job[w].on)
      <3>1. queue # <<>> /\ queue' = Tail(queue) /\ Connected(job[w].on) /\ ~IsInflightFull
        BY <1>10, <2>3 DEF DequeuePoll, MustStop
      <3>2. Head(queue) \in Msgs
        BY <1>a, <3>1, QueueType
      <3>3. Becomes(w, "dqPut", job[w].on, Head(queue), job[w].copy, job[w].key, job[w].rec,
              job[w].todo, job[w].items, TRUE)
        <4>1. job' = [job EXCEPT ![w] = [job[w] EXCEPT !.pc = "dqPut", !.cur = Head(queue),
                !.holds = TRUE]]
          BY <1>10, <2>3 DEF DequeuePoll
        <4>2. QED
          BY <1>a, <3>2, <4>1, JobTypes, SetTryMessage DEF Places
      <3>4. job[w].cur = None
        BY <1>b, <2>1 DEF LocalsAt, Carrying
      <3>5. \A m \in Msgs : Queued(m) => m = Head(queue) \/ Queued(m)'
        BY <1>a, <3>1, TailQueued
      <3>6. HandsGo(w)
        BY <1>a, <2>1, <3>3, <3>4, <3>5, NullAssumption DEF HandsGo, Becomes
      <3>7. conn[1] = "accepted"
        BY <2>1, <3>1, FirstPlaces DEF Detached
      <3>8. QED
        BY <2>1, <3>1, <3>3, <3>6, <3>7 DEF Still, Becomes, Copying, Retrying
    <2>4. QED
      BY <2>2, <2>3
  <1>11. ASSUME DequeueEnd(w) PROVE Still(w)
    <2>1. job[w].pc = "dqEnd" /\ UNCHANGED <<storeVars, endpointVars, wrapperVars, timerVars,
            outcomeVars>>
      BY <1>11 DEF DequeueEnd
    <2>2. Rests(w)
      BY <1>11, <1>a, DequeueEndJob
    <2>3. HandsGo(w)
      BY <2>1, <2>2, HandsRest DEF Carrying
    <2>4. QED
      BY <2>1, <2>2, <2>3 DEF Still, Rests, Becomes, Copying, Retrying
  <1>12. QED
    BY <1>1, <1>2, <1>3, <1>4, <1>5, <1>6, <1>7, <1>8, <1>9, <1>10, <1>11

\* The steps that are not still.
FirstStir ==
    \/ \E w \in Workers :
         \/ InflightPut(w) /\ NextMessageId(job[w].on) # NoId
         \/ DequeuePut(w)
         \/ \E p \in wire : At(w, "idle") /\ RemoveInflight(w, p)
         \/ \E p \in wire : ReceivePubrec(w, p)
         \/ PutPubrec(w)
         \/ \E k \in Keys : Retry(w, 1, k)
         \/ RetryRelease(w)
         \/ RetryDelete(w)
         \/ RetryPut(w)
         \/ \E c \in Conns : CloseSession(w, c)
    \/ \E k \in Keys : Expire(1, k)
    \/ Disconnect(1)

\* The steps before the client connects again.
LEMMA FirstKinds ==
    Inv /\ FirstOnly /\ FirstOnly' /\ OneWrapper /\ [Next]_vars =>
        UNCHANGED vars \/ (\E w \in Workers : Still(w)) \/ FirstStir
  <1> SUFFICES ASSUME Inv, FirstOnly, FirstOnly', OneWrapper, [Next]_vars
               PROVE  UNCHANGED vars \/ (\E w \in Workers : Still(w)) \/ FirstStir
    OBVIOUS
  <1>a. conn \in [Conns -> {"new", "opening", "accepted", "closing", "closed"}] /\ crashes \in Nat
    BY DEF Inv, TypeOK
  <1>b. conn[1] # "new" /\ 1 \in Conns
    BY DEF Inv, OpenInv, Conns
  <1>1. ASSUME NEW w \in Workers, WorkerStep(w) PROVE Still(w) \/ FirstStir
    <2>1. job[w].pc \notin Opening
      BY FirstPlaces
    <2>2. ~(OpenEndpoint(w) \/ OpenCloseQueue(w) \/ OpenCreateQueue(w) \/ OpenAddItems(w)
            \/ OpenRetry(w)
            \/ OpenPutWrapper(w) \/ Accept(w))
      BY <2>1 DEF Opening, OpenEndpoint, OpenCloseQueue, OpenCreateQueue, OpenAddItems, OpenRetry,
         OpenPutWrapper, Accept
    <2>3. QED
      BY <1>1, <2>2, StillSteps DEF WorkerStep, FirstStir
  <1>2. ASSUME NEW w \in Workers, NEW p \in wire, ReceivePuback(w, p) \/ ReceivePubrec(w, p)
               \/ ReceivePubcomp(w, p)
        PROVE  FirstStir
    BY <1>2 DEF ReceivePuback, ReceivePubcomp, FirstStir
  <1>3. ASSUME NEW w \in Workers, NEW c \in Conns, OpenSession(w, c) PROVE FALSE
    <2>1. conn[c] = "new" /\ conn'[c] = "opening"
      BY <1>3, <1>a DEF OpenSession
    <2>2. QED
      BY <1>b, <2>1 DEF FirstOnly
  <1>4. ASSUME NEW w \in Workers, NEW x \in Conns, NEW k \in Keys, Retry(w, x, k) PROVE FirstStir
    <2>1. x = 1
      BY <1>4 DEF Retry, OneWrapper
    <2>2. QED
      BY <1>4, <2>1 DEF FirstStir
  <1>5. ASSUME NEW x \in Conns, NEW k \in Keys, Expire(x, k) PROVE FirstStir
    <2>1. x = 1
      BY <1>5 DEF Expire, OneWrapper
    <2>2. QED
      BY <1>5, <2>1 DEF FirstStir
  <1>6. ASSUME NEW c \in Conns, Disconnect(c) PROVE FirstStir
    <2>1. c = 1
      BY <1>6 DEF Disconnect, FirstOnly
    <2>2. QED
      BY <1>6, <2>1 DEF FirstStir
  <1>7. ~Crash
    BY <1>a DEF Crash, FirstOnly
  <1>8. ASSUME NEW w \in Workers, NEW c \in Conns, CloseSession(w, c) PROVE FirstStir
    BY <1>8 DEF FirstStir
  <1>9. CASE [Next]_vars /\ ~(\E w \in Workers : Still(w)) /\ ~FirstStir
    BY <1>1, <1>2, <1>3, <1>4, <1>5, <1>6, <1>7, <1>8, <1>9, StillSteps
      DEF Next, ReceiveAnswer, Quiet
  <1>10. QED
    BY <1>9

\* Before the client connects again every packet id is one of the first connection.
LEMMA UsesFirst ==
    ASSUME FirstOnly, IdInv, NEW c \in Sources, NEW i \in Keys \ {NoId}, NEW m \in Msgs,
           Uses(c, i, m)
    PROVE  c = 1
  <1>1. c # 0
    BY DEF IdInv
  <1>2. c \in Conns
    BY <1>1 DEF Sources, Conns
  <1>3. conn[c] # "new"
    BY <1>2 DEF IdInv, FirstOnly, IdsUnused, Old
  <1>4. QED
    BY <1>2, <1>3 DEF FirstOnly

\* So it stands for one message.
LEMMA OneUse ==
    ASSUME FirstOnly, IdInv, NEW b \in Sources, NEW c \in Sources, NEW i \in Keys \ {NoId},
           NEW m \in Msgs, NEW n \in Msgs, Uses(b, i, m), Uses(c, i, n)
    PROVE  m = n
  <1>1. b = 1 /\ c = 1
    BY UsesFirst
  <1>2. 1 \in Conns
    BY DEF Conns
  <1>3. QED
    BY <1>1, <1>2 DEF IdInv, FirstOnly, IdsUnused

\* The uses of a packet id, one by one.
LEMMA FirstUses ==
    ASSUME TypeOK, LocalsInv, FirstOnly, IdInv, NEW k \in Keys \ {NoId}
    PROVE  /\ \A w \in Workers : inflights[k] # None /\ job[w].pc \in Retrying /\ job[w].key = k =>
                inflights[k].msg = job[w].copy.msg
           /\ \A p \in wire : p.id = k =>
                /\ inflights[k] # None => inflights[k].msg = p.msg
                /\ \A w \in Workers : job[w].pc \in Retrying /\ job[w].key = k =>
                     job[w].copy.msg = p.msg
           /\ \A w \in Workers : inflights[k] # None /\ job[w].pc = "recPut" /\ job[w].rec.id = k
                /\ job[w].copy # None =>
                inflights[k].msg = job[w].copy.msg
  <1>1. ASSUME inflights[k] # None
        PROVE  inflights[k].by \in Sources /\ inflights[k].msg \in Msgs
               /\ Uses(inflights[k].by, k, inflights[k].msg)
    <2>1. inflights[k] \in Entries
      BY <1>1 DEF TypeOK
    <2>2. QED
      BY <1>1, <2>1 DEF Entries, Sources, Uses, EntryHas
  <1>2. ASSUME NEW w \in Workers, job[w].pc \in Retrying, job[w].key = k
        PROVE  job[w].copy.by \in Sources /\ job[w].copy.msg \in Msgs
               /\ Uses(job[w].copy.by, k, job[w].copy.msg)
    <2>1. job[w].copy \in Entries
      BY <1>2 DEF LocalsInv, LocalsAt
    <2>2. QED
      BY <1>2, <2>1 DEF Entries, Sources, Uses, HandHas
  <1>3. ASSUME NEW p \in wire, p.id = k
        PROVE  p.by \in Sources /\ p.msg \in Msgs /\ Uses(p.by, k, p.msg)
    <2>1. p \in Packets
      BY DEF TypeOK
    <2>2. QED
      BY <1>3, <2>1 DEF Packets, Sources, Uses, WireHas
  <1>4. ASSUME NEW w \in Workers, job[w].pc = "recPut", job[w].rec.id = k, job[w].copy # None
        PROVE  job[w].copy.by \in Sources /\ job[w].copy.msg \in Msgs
               /\ Uses(job[w].copy.by, k, job[w].copy.msg)
    <2>1. job[w].copy \in Entries
      BY <1>4, JobTypes, JobFields
    <2>2. QED
      BY <1>4, <2>1 DEF Entries, Sources, Uses, RecHas
  <1>5. QED
    BY <1>1, <1>2, <1>3, <1>4, OneUse

\* The next packet id of the first connection is new.
LEMMA FirstNextId ==
    ASSUME Inv, FirstOnly, OneWrapper, OneTimer, IdInv, NextMessageId(1) # NoId
    PROVE  LET id == NextMessageId(1) IN
           /\ conn[1] = "accepted" /\ Connected(1) /\ id \in Keys /\ id = lastId[1] + 1
                /\ lastId[1] \in Nat
           /\ id \notin timeouts[1] \cup expired[1] /\ \A w \in Workers : ~RetryKey(w, id)
  <1> DEFINE id == NextMessageId(1)
  <1>a. TypeOK /\ 1 \in Conns
    BY DEF Inv, Conns
  <1>1. Connected(1) /\ id \in Keys /\ id \in 1..MaxMessageId
    BY <1>a, NextIdType
  <1>2. endpoint[1] = 1 /\ conn[1] = "accepted"
    BY <1>1 DEF Connected, OneWrapper
  <1>3. lastId[1] \in Nat /\ lastId[1] < MaxMessageId
    BY <1>a DEF TypeOK, IdInv, FirstOnly, IdsUnused
  <1>4. id = lastId[1] + 1
    BY <1>1, <1>2, <1>3 DEF NextMessageId
  <1>5. id \notin timeouts[1] \cup expired[1] /\ \A w \in Workers : ~RetryKey(w, id)
    BY <1>1, <1>2, <1>3, <1>4 DEF OneTimer, Given
  <1>6. QED
    BY <1>1, <1>2, <1>3, <1>4, <1>5

\* Nothing is filed under it when a worker is about to use it.
LEMMA FirstNewEntry ==
    ASSUME Inv, FirstOnly, OneWrapper, EndpointInv, IdInv, NextMessageId(1) # NoId,
           NEW w \in Workers, job[w].holds, job[w].pc # "rtPut"
    PROVE  inflights[NextMessageId(1)] = None
  <1> DEFINE id == NextMessageId(1)
  <1>a. TypeOK /\ 1 \in Conns /\ job[w].on = 1 /\ spent = {}
    BY FirstPlaces DEF Inv, Conns, FirstOnly, IdsUnused
  <1>1. Connected(1) /\ id \in Keys /\ id # NoId
    BY <1>a, NextIdType
  <1>2. endpoint[1] = 1
    BY <1>1 DEF Connected, OneWrapper
  <1>3. ASSUME inflights[id] # None PROVE FALSE
    <2>1. inflights[id] \in Entries
      BY <1>1, <1>3, <1>a DEF TypeOK
    <2>2. Uses(inflights[id].by, id, inflights[id].msg) /\ inflights[id].by \in Sources
            /\ inflights[id].msg \in Msgs
      BY <1>3, <2>1 DEF Uses, EntryHas, Entries, Sources
    <2>3. inflights[id].by = 1
      BY <1>1, <2>2, UsesFirst
    <2>4. QED
      BY <1>a, <1>1, <1>2, <2>2, <2>3, NewIdUses
  <1>4. QED
    BY <1>3

FirstHolds == OneWrapper /\ OneTimer /\ RoomInv /\ KeptInv

FirstState == Inv /\ EndpointInv /\ IdInv /\ FirstOnly /\ FirstHolds

\* What is settled stays settled.
SettledGo == acked \subseteq acked' /\ dropped \subseteq dropped' /\ evicted \subseteq evicted'

\* A step of worker w keeps the one wrapper.
LEMMA WrapperKeep ==
    ASSUME OneWrapper, NEW w \in Workers, \A v \in Workers : v # w => job'[v] = job[v],
           job'[w].on \in {job[w].on, wrapper, 1, None}, UNCHANGED <<queueOf, endpoint>>,
           wrapper' \in {wrapper, None},
           \A c \in Conns : c # 1 => timeouts'[c] = timeouts[c] /\ expired'[c] = expired[c]
    PROVE  OneWrapper'
  BY DEF OneWrapper

\* A step of a worker that retries nothing and starts no timer keeps the timers.
LEMMA TimerKeep ==
    ASSUME OneTimer, NEW w \in Workers, \A v \in Workers : v # w => job'[v] = job[v],
           job[w].pc \notin Retrying, job'[w].pc \notin Retrying,
           timeouts'[1] \subseteq timeouts[1], UNCHANGED <<expired, lastId>>,
           conn'[1] = "accepted" => conn[1] = "accepted"
    PROVE  OneTimer'
  <1>1. \A k \in Keys, v \in Workers : RetryKey(v, k)' => RetryKey(v, k)
    BY DEF RetryKey, Retrying
  <1>2. \A k : Given(k) => Given(k)'
    BY DEF Given
  <1>3. \A v \in Workers : job'[v].pc = "rtPut" => job[v].pc = "rtPut" /\ job'[v] = job[v]
    BY DEF Retrying
  <1>5. \A k \in timeouts'[1] \cup expired'[1] : k # NoId /\ Given(k)'
    BY <1>2 DEF OneTimer
  <1>6. \A v \in Workers, k \in Keys : RetryKey(v, k)' =>
          k # NoId /\ Given(k)' /\ k \notin timeouts'[1] \cup expired'[1]
    BY <1>1, <1>2 DEF OneTimer
  <1>7. \A u, v \in Workers, k \in Keys : RetryKey(u, k)' /\ RetryKey(v, k)' => u = v
    BY <1>1 DEF OneTimer
  <1>8. ASSUME NEW v \in Workers, job'[v].pc = "rtPut"
        PROVE  /\ job'[v].key = lastId'[1] + 1 /\ job'[v].key \notin timeouts'[1] \cup expired'[1]
               /\ \A u \in Workers, k \in Keys : RetryKey(u, k)' => k # job'[v].key
    BY <1>1, <1>3, <1>8 DEF OneTimer
  <1>9. timeouts'[1] \cap expired'[1] = {}
    BY DEF OneTimer
  <1>10. QED
    BY <1>5, <1>6, <1>7, <1>8, <1>9 DEF OneTimer

\* A step of worker w keeps the room of the others.
LEMMA RoomKeep ==
    ASSUME LocalsInv, RoomInv, NEW w \in Workers, \A v \in Workers : v # w =>
           job'[v] = job[v], SettledGo,
           Cardinality(InflightKeys') <= InflightMax,
           InflightKeys' \subseteq InflightKeys \/ \A v \in Workers : v # w => ~job[v].holds,
           \A v \in Workers : v # w /\ job[v].pc \in {"rtRel", "rtDel"}
             /\ inflights[job[v].key] # None =>
               inflights'[job[v].key] # None \/ Settled(job[v].copy.msg)',
           NoIdOnce', HasRoom(w)'
    PROVE  RoomInv'
  <1> SUFFICES ASSUME NEW v \in Workers, v # w PROVE HasRoom(v)'
    BY DEF RoomInv
  <1>1. \A m : Settled(m) => Settled(m)'
    BY DEF Settled, SettledGo
  <1>2. HasRoom(v) /\ job'[v] = job[v]
    BY DEF RoomInv
  <1>3. CASE InflightKeys' \subseteq InflightKeys
    BY <1>1, <1>2, <1>3, FewerKeys DEF HasRoom
  <1>4. CASE ~job[v].holds
    <2>1. job[v].pc \notin {"inPut", "dqPut", "rtPut"}
      BY <1>4 DEF LocalsInv, LocalsAt, Trying
    <2>2. QED
      BY <1>1, <1>2, <2>1 DEF HasRoom
  <1>5. QED
    BY <1>3, <1>4

\* A step of worker w that keeps its own messages, the queue and the entries.
LEMMA KeptKeep ==
    ASSUME KeptInv, NEW w \in Workers, \A v \in Workers : v # w => job'[v] = job[v], SettledGo,
           UNCHANGED taken,
           \A m \in taken : Queued(m) \/ Filed(m) \/ Carries(w, m) => Kept(m)'
    PROVE  KeptInv'
  <1> SUFFICES ASSUME NEW m \in taken PROVE Kept(m)'
    BY DEF KeptInv
  <1>1. Settled(m) => Kept(m)'
    BY DEF Settled, SettledGo, Kept
  <1>2. ASSUME NEW v \in Workers, v # w, Carries(v, m) PROVE Kept(m)'
    BY <1>2 DEF Carries, Kept
  <1>3. QED
    BY <1>1, <1>2 DEF KeptInv, Kept

\* The entries stay, or are replaced by entries of the same messages.
LEMMA PutSame ==
    ASSUME TypeOK, NEW k \in Keys, NEW e \in Entries, Put(k, e), inflights[k] # None =>
           inflights[k].msg = e.msg
    PROVE  /\ \A m : Filed(m) => Filed(m)'
           /\ \A i \in Keys : inflights[i] # None => inflights'[i] # None
           /\ \A i \in Keys : i # k => inflights'[i] = inflights[i]
           /\ inflights[k] # None => InflightKeys' = InflightKeys
  <1>1. \A i \in Keys : inflights'[i] = inflights[i] \/ (i = k /\ inflights'[i] = e)
    BY PutGo
  <1>2. e # None
    BY NullAssumption
  <1>3. \A i \in Keys : inflights[i] # None => inflights'[i] # None
          /\ inflights'[i].msg = inflights[i].msg
    BY <1>1, <1>2
  <1>4. \A m : Filed(m) => Filed(m)'
    BY <1>3 DEF Filed, InflightKeys
  <1>5. QED
    BY <1>1, <1>2, <1>3, <1>4 DEF InflightKeys

\* A step that is still.
LEMMA FirstStill ==
    ASSUME FirstState, FirstOnly', NEW w \in Workers, Still(w)
    PROVE  FirstHolds'
  <1>a. Inv /\ TypeOK /\ LocalsInv
    BY DEF FirstState, Inv
  <1>b. InflightMax > 0 /\ OneWrapper /\ OneTimer /\ RoomInv /\ KeptInv
    BY DEF FirstState, FirstHolds, FirstOnly
  <1>c. InflightKeys' = InflightKeys /\ SettledGo
    BY DEF Still, InflightKeys, SettledGo
  <1>1. OneWrapper'
    BY <1>b, WrapperKeep DEF Still
  <1>2. OneTimer'
    BY <1>b, TimerKeep DEF Still, Copying
  <1>3. RoomInv'
    <2>1. job'[w].pc \in {"inPut", "dqPut"} => Room'
      BY <1>b, <1>c, WindowFinite DEF Still, IsInflightFull, Room
    <2>2. HasRoom(w)'
      BY <2>1 DEF HasRoom, Still, Copying, Retrying
    <2>3. NoIdOnce'
      BY <1>b DEF NoIdOnce, RoomInv, Still
    <2>4. QED
      BY <1>a, <1>b, <1>c, <2>2, <2>3, RoomKeep DEF Still, RoomInv
  <1>4. KeptInv'
    <2> SUFFICES ASSUME NEW m \in taken' PROVE Kept(m)'
      BY DEF KeptInv
    <2>1. HandsGo(w) /\ job[w].pc # "rtPut"
      BY DEF Still, Copying, Retrying
    <2>2. CASE m \notin taken
      BY <2>1, <2>2 DEF HandsGo, Kept, Carries
    <2>3. CASE m \in taken
      <3>1. Kept(m)
        BY <1>b, <2>3 DEF KeptInv
      <3>2. CASE Queued(m) \/ Carries(w, m)
        BY <2>1, <2>3, <3>2 DEF HandsGo, Kept, Carries
      <3>3. CASE Filed(m) \/ Settled(m)
        BY <1>c, <3>3 DEF Kept, Filed, Settled, SettledGo, Still
      <3>4. CASE \E v \in Workers : v # w /\ Carries(v, m)
        BY <3>4 DEF Kept, Carries, Still
      <3>5. QED
        BY <3>1, <3>2, <3>3, <3>4 DEF Kept
    <2>4. QED
      BY <2>2, <2>3
  <1>5. QED
    BY <1>1, <1>2, <1>3, <1>4 DEF FirstHolds

\* The timer of a packet id that was not in use starts.
LEMMA TimerNew ==
    ASSUME OneTimer, NEW w \in Workers, \A v \in Workers : v # w => job'[v] = job[v],
           job[w].pc \notin {"rtRel", "rtDel"}, job'[w].pc \notin Retrying,
           \A v \in Workers : v # w => job[v].pc # "rtPut",
           timeouts[1] \cup expired[1] \subseteq Keys, lastId[1] \in Nat,
           NEW k \in Keys, k # NoId, k = lastId[1] + 1, k \notin timeouts[1] \cup expired[1],
           \A v \in Workers : ~RetryKey(v, k),
           timeouts'[1] = timeouts[1] \cup {k}, UNCHANGED <<expired, conn>>,
           lastId'[1] = k \/ (lastId'[1] = lastId[1] /\ conn[1] # "accepted")
    PROVE  OneTimer'
  <1>1. \A i \in Keys, v \in Workers : RetryKey(v, i)' => RetryKey(v, i)
    BY DEF RetryKey, Retrying
  <1>2. \A i \in Keys : i \in Int
    BY DEF Keys, NoId
  <1>3. \A i \in Keys : Given(i) => Given(i)'
    BY <1>2 DEF Given
  <1>4. Given(k)'
    BY <1>2 DEF Given
  <1>5. \A v \in Workers : job'[v].pc # "rtPut"
    BY DEF Retrying
  <1>6. \A i \in timeouts'[1] \cup expired'[1] : i # NoId /\ Given(i)'
    BY <1>3, <1>4 DEF OneTimer
  <1>7. \A v \in Workers, i \in Keys : RetryKey(v, i)' =>
          i # NoId /\ Given(i)' /\ i \notin timeouts'[1] \cup expired'[1]
    BY <1>1, <1>3 DEF OneTimer
  <1>8. \A u, v \in Workers, i \in Keys : RetryKey(u, i)' /\ RetryKey(v, i)' => u = v
    BY <1>1 DEF OneTimer
  <1>9. timeouts'[1] \cap expired'[1] = {}
    BY DEF OneTimer
  <1>10. QED
    BY <1>5, <1>6, <1>7, <1>8, <1>9 DEF OneTimer

\* The timer of a retried packet id starts again.
LEMMA TimerBack ==
    ASSUME OneTimer, NEW w \in Workers, \A v \in Workers : v # w => job'[v] = job[v],
           NEW k \in Keys, RetryKey(w, k), job'[w].pc \notin Retrying,
           timeouts'[1] = timeouts[1] \cup {k}, UNCHANGED <<expired, lastId, conn>>
    PROVE  OneTimer'
  <1>1. \A i \in Keys, v \in Workers : RetryKey(v, i)' => v # w /\ RetryKey(v, i) /\ i # k
    BY DEF RetryKey, Retrying, OneTimer
  <1>2. \A i : Given(i)' <=> Given(i)
    BY DEF Given
  <1>3. \A v \in Workers : job'[v].pc = "rtPut" => v # w /\ job[v].pc = "rtPut" /\ job'[v] = job[v]
    BY DEF Retrying
  <1>4. \A i \in timeouts'[1] \cup expired'[1] : i # NoId /\ Given(i)'
    BY <1>2 DEF OneTimer
  <1>5. \A v \in Workers, i \in Keys : RetryKey(v, i)' =>
          i # NoId /\ Given(i)' /\ i \notin timeouts'[1] \cup expired'[1]
    BY <1>1, <1>2 DEF OneTimer
  <1>6. \A u, v \in Workers, i \in Keys : RetryKey(u, i)' /\ RetryKey(v, i)' => u = v
    BY <1>1 DEF OneTimer
  <1>7. ASSUME NEW v \in Workers, job'[v].pc = "rtPut"
        PROVE  /\ job'[v].key = lastId'[1] + 1 /\ job'[v].key \notin timeouts'[1] \cup expired'[1]
               /\ \A u \in Workers, i \in Keys : RetryKey(u, i)' => i # job'[v].key
    BY <1>1, <1>3, <1>7 DEF OneTimer
  <1>8. timeouts'[1] \cap expired'[1] = {}
    BY DEF OneTimer
  <1>9. QED
    BY <1>4, <1>5, <1>6, <1>7, <1>8 DEF OneTimer

\* A message is filed and sent under a new packet id: inflight() and dequeue().
LEMMA FirstFile ==
    ASSUME FirstState, FirstOnly', NEW w \in Workers, job[w].pc \in {"inPut", "dqPut"},
           NEW id, id = NextMessageId(1), id # NoId, Put(id, Fresh(job[w].cur, endpoint[1])),
           SaveInflightTimeout(1, id), Publish(1, job[w].cur),
           UNCHANGED <<queue, queueOf, wrapper, endpoint, outcomeVars>>,
           \A v \in Workers : v # w => job'[v] = job[v],
           job'[w].pc \in {"idle", "dqChk"}, job'[w].on \in {job[w].on, None}
    PROVE  FirstHolds'
  <1>a. Inv /\ TypeOK /\ LocalsInv /\ 1 \in Conns
    BY DEF FirstState, Inv, Conns
  <1>b. OneWrapper /\ OneTimer /\ RoomInv /\ KeptInv /\ FirstOnly /\ EndpointInv /\ IdInv
    BY DEF FirstState, FirstHolds
  <1>c. SettledGo
    BY DEF SettledGo
  <1>d. job[w].holds /\ \A v \in Workers : v # w => ~job[v].holds
    BY <1>a, <1>b, FirstPlaces DEF LocalsInv, LocalsAt, Trying
  <1>1. /\ conn[1] = "accepted" /\ id \in Keys /\ id = lastId[1] + 1 /\ lastId[1] \in Nat
        /\ id \notin timeouts[1] \cup expired[1] /\ \A v \in Workers : ~RetryKey(v, id)
    BY <1>a, <1>b, FirstNextId
  <1>2. inflights[id] = None
    BY <1>a, <1>b, <1>d, FirstNewEntry
  <1>3. Room
    BY <1>b DEF RoomInv, HasRoom
  <1>4. job[w].cur \in Msgs /\ Fresh(job[w].cur, endpoint[1]) \in Entries
    BY <1>a, <1>b, EntryTypes DEF LocalsInv, LocalsAt, Carrying, OneWrapper, Conns
  <1>5. PICK e \in Entries : e = Fresh(job[w].cur, endpoint[1]) /\ e.msg = job[w].cur /\ Put(id, e)
    BY <1>4 DEF Fresh
  <1>6. Filed(e.msg)'
    BY <1>a, <1>1, <1>3, <1>5, PutFiles DEF CanPut, Room
  <1>7. /\ \A m : Filed(m) => Filed(m)'
        /\ \A i \in Keys : inflights[i] # None => inflights'[i] # None
        /\ \A i \in Keys : i # id => inflights'[i] = inflights[i]
    BY <1>a, <1>1, <1>2, <1>5, PutSame
  <1>8. UNCHANGED conn /\ lastId'[1] = id /\ timeouts'[1] = timeouts[1] \cup {id}
          /\ expired' = expired
        /\ \A c \in Conns : c # 1 => timeouts'[c] = timeouts[c]
    BY <1>a, <1>b, <1>1, FirstPlaces DEF Publish, SaveInflightTimeout, TypeOK, OneWrapper
  <1>9. timeouts[1] \cup expired[1] \subseteq Keys
    BY <1>a DEF TypeOK
  <1>10. OneWrapper'
    BY <1>b, <1>8, WrapperKeep
  <1>11. \A v \in Workers : v # w => job[v].pc # "rtPut"
    BY <1>a, <1>d DEF LocalsInv, LocalsAt, Trying
  <1>12. OneTimer'
    BY <1>b, <1>1, <1>8, <1>9, <1>11, TimerNew DEF Retrying
  <1>13. RoomInv'
    <2>1. HasRoom(w)'
      BY DEF HasRoom
    <2>2. NoIdOnce'
      <3>1. inflights'[NoId] = inflights[NoId]
        BY <1>7 DEF Keys
      <3>2. QED
        BY <1>b, <1>8, <3>1 DEF NoIdOnce, RoomInv
    <2>3. Cardinality(InflightKeys') <= InflightMax
      BY <1>a, <1>b, <1>1, PutRoom DEF RoomInv
    <2>4. \A v \in Workers : job[v].key \in Keys
      BY <1>a, JobTypes, JobFields
    <2>5. QED
      BY <1>a, <1>b, <1>c, <1>d, <1>7, <2>1, <2>2, <2>3, <2>4, RoomKeep
  <1>14. KeptInv'
    <2>1. ASSUME NEW m \in taken, Queued(m) \/ Filed(m) \/ Carries(w, m) PROVE Kept(m)'
      <3>1. CASE Queued(m)
        BY <3>1 DEF Kept, Queued
      <3>2. CASE Filed(m)
        BY <1>7, <3>2 DEF Kept
      <3>3. CASE Carries(w, m)
        <4>1. m = e.msg
          BY <1>5, <3>3 DEF Carries
        <4>2. QED
          BY <1>6, <4>1 DEF Kept
      <3>4. QED
        BY <2>1, <3>1, <3>2, <3>3
    <2>2. QED
      BY <1>b, <1>c, <2>1, KeptKeep
  <1>15. QED
    BY <1>10, <1>12, <1>13, <1>14 DEF FirstHolds

\* inflight() files a message.
LEMMA FirstInflightPut ==
    ASSUME FirstState, FirstOnly', NEW w \in Workers, InflightPut(w),
           NextMessageId(job[w].on) # NoId
    PROVE  FirstHolds'
  <1>1. job[w].pc = "inPut"
    BY DEF InflightPut
  <1>2. job[w].on = 1 /\ TypeOK
    BY <1>1, FirstPlaces DEF FirstState, FirstHolds, Detached, Inv
  <1>3. PICK id : id = NextMessageId(1)
    OBVIOUS
  <1>4. /\ Put(id, Fresh(job[w].cur, endpoint[1])) /\ SaveInflightTimeout(1, id)
             /\ Publish(1, job[w].cur)
        /\ UNCHANGED <<queue, queueOf, wrapper, endpoint, outcomeVars>>
    BY <1>2, <1>3 DEF InflightPut
  <1>5. Rests(w)
    BY <1>2, InflightPutJob
  <1>6. QED
    BY <1>1, <1>2, <1>3, <1>4, <1>5, FirstFile DEF Rests, Becomes

\* dequeue() files a message; without a packet id only where none is filed so.
LEMMA FirstDequeuePut ==
    ASSUME FirstState, FirstOnly', NEW w \in Workers, DequeuePut(w)
    PROVE  FirstHolds'
  <1>1. job[w].pc = "dqPut"
    BY DEF DequeuePut
  <1>2. job[w].on = 1 /\ TypeOK /\ Inv /\ LocalsInv /\ FirstOnly /\ OneWrapper /\ OneTimer
          /\ RoomInv /\ KeptInv
    BY <1>1, FirstPlaces DEF FirstState, FirstHolds, Detached, Inv
  <1>3. PICK id : id = NextMessageId(1)
    OBVIOUS
  <1>4. /\ Put(id, Fresh(job[w].cur, IF id = NoId THEN 0 ELSE endpoint[1]))
        /\ \/ id # NoId /\ SaveInflightTimeout(1, id) /\ Publish(1, job[w].cur)
           \/ id = NoId /\ UNCHANGED <<timerVars, endpointVars>>
        /\ UNCHANGED <<queue, queueOf, wrapper, endpoint, outcomeVars>>
    BY <1>2, <1>3 DEF DequeuePut
  <1>5. \E p \in {"dqChk", "dqEnd"} : Becomes(w, p, job[w].on, None, job[w].copy, job[w].key,
          job[w].rec, job[w].todo,
                                              job[w].items, FALSE)
    BY <1>2, DequeuePutJob
  <1>6. CASE id # NoId
    <2>1. job'[w].pc = "dqChk"
      <3>1. job' = [job EXCEPT ![w] = [job[w] EXCEPT !.pc = "dqChk", !.cur = None, !.holds = FALSE]]
        BY <1>2, <1>3, <1>6 DEF DequeuePut
      <3>2. Becomes(w, "dqChk", job[w].on, None, job[w].copy, job[w].key, job[w].rec, job[w].todo,
              job[w].items, FALSE)
        BY <1>2, <3>1, JobTypes, SetTryMessage DEF Places
      <3>3. QED
        BY <3>2 DEF Becomes
    <2>2. QED
      BY <1>1, <1>3, <1>4, <1>5, <1>6, <2>1, FirstFile DEF Becomes
  <1>7. CASE id = NoId
    <2>a. SettledGo
      BY <1>4 DEF SettledGo
    <2>1. job[w].cur \in Msgs /\ NoId \in Keys /\ 1 \in Conns
      BY <1>1, <1>2 DEF LocalsInv, LocalsAt, Carrying, Keys, Conns
    <2>2. PICK e \in Entries : e.msg = job[w].cur /\ Put(NoId, e)
      BY <1>4, <1>7, <2>1, EntryTypes DEF Fresh
    <2>3. inflights[NoId] = None /\ Room
      BY <1>1, <1>2 DEF RoomInv, HasRoom, NoIdOnce
    <2>4. Filed(e.msg)'
      BY <1>2, <2>1, <2>2, <2>3, PutFiles DEF CanPut, Room
    <2>5. /\ \A m : Filed(m) => Filed(m)'
          /\ \A i \in Keys : inflights[i] # None => inflights'[i] # None
      BY <1>2, <2>1, <2>2, <2>3, PutSame
    <2>6. \A v \in Workers : v # w => ~job[v].holds /\ job[v].pc # "dqPut"
      <3>1. job[w].holds
        BY <1>1, <1>2 DEF LocalsInv, LocalsAt, Trying
      <3>2. \A v \in Workers : v # w => ~job[v].holds
        BY <1>2, <3>1, FirstPlaces
      <3>3. QED
        BY <1>2, <3>2 DEF LocalsInv, LocalsAt, Trying
    <2>7. conn[1] # "accepted"
      BY <1>2, <1>3, <1>7, <2>1, FirstPlaces, NextIdType DEF NoId
    <2>8. OneWrapper'
      BY <1>2, <1>4, <1>5, <1>7, WrapperKeep DEF Becomes
    <2>9. OneTimer'
      BY <1>1, <1>2, <1>4, <1>5, <1>7, TimerKeep DEF Becomes, Retrying
    <2>10. RoomInv'
      <3>1. HasRoom(w)' /\ job'[w].pc # "dqPut"
        BY <1>5 DEF HasRoom, Becomes
      <3>2. NoIdOnce'
        BY <1>4, <1>5, <1>7, <2>6, <2>7, <3>1 DEF NoIdOnce, Becomes
      <3>3. Cardinality(InflightKeys') <= InflightMax
        BY <1>2, <2>1, <2>2, PutRoom DEF RoomInv
      <3>4. \A v \in Workers : job[v].key \in Keys
        BY <1>2, JobTypes, JobFields
      <3>5. QED
        BY <1>2, <1>5, <2>a, <2>5, <2>6, <3>1, <3>2, <3>3, <3>4, RoomKeep DEF Becomes
    <2>11. KeptInv'
      <3>1. ASSUME NEW m \in taken, Queued(m) \/ Filed(m) \/ Carries(w, m) PROVE Kept(m)'
        <4>1. CASE Queued(m)
          BY <1>4, <4>1 DEF Kept, Queued
        <4>2. CASE Filed(m)
          BY <2>5, <4>2 DEF Kept
        <4>3. CASE Carries(w, m)
          <5>1. m = e.msg
            BY <1>1, <2>2, <4>3 DEF Carries
          <5>2. QED
            BY <2>4, <5>1 DEF Kept
        <4>4. QED
          BY <3>1, <4>1, <4>2, <4>3
      <3>2. QED
        BY <1>2, <1>4, <1>5, <2>a, <3>1, KeptKeep DEF Becomes
    <2>12. QED
      BY <2>8, <2>9, <2>10, <2>11 DEF FirstHolds
  <1>8. QED
    BY <1>6, <1>7

\* An acknowledged message is settled; its entry is removed.
LEMMA FirstRemoveInflight ==
    ASSUME FirstState, FirstOnly', NEW w \in Workers, NEW p \in wire, job[w].pc = "idle",
           RemoveInflight(w, p)
    PROVE  FirstHolds'
  <1>a. Inv /\ TypeOK /\ LocalsInv /\ FirstOnly /\ IdInv /\ OneWrapper /\ OneTimer /\ RoomInv
          /\ KeptInv
    BY DEF FirstState, FirstHolds, Inv
  <1>b. /\ acked' = acked \cup {p.msg}
        /\ UNCHANGED <<queue, queueOf, conn, lastId, wrapper, endpoint, expired, taken, dropped,
             evicted>>
    BY DEF RemoveInflight
  <1>c. SettledGo
    BY <1>b DEF SettledGo
  <1>1. p.id \in Keys \ {NoId}
    BY <1>a DEF TypeOK, Packets, Keys, NoId
  <1>2. \/ job' = job
        \/ Becomes(w, "dqTake", wrapper, job[w].cur, job[w].copy, job[w].key, job[w].rec,
             job[w].todo, job[w].items, job[w].holds)
    BY <1>a, RemoveInflightJob
  <1>3. \/ UNCHANGED inflights
        \/ inflights' = [inflights EXCEPT ![p.id] = None]
    BY DEF RemoveInflight
  <1>4. timeouts'[1] \subseteq timeouts[1] /\ \A c \in Conns : c # 1 => timeouts'[c] = timeouts[c]
    <2>1. wrapper \in {1, None} /\ timeouts \in [Conns -> SUBSET Keys] /\ 1 \in Conns
      BY <1>a DEF OneWrapper, TypeOK, Conns
    <2>2. QED
      BY <2>1 DEF RemoveInflight
  <1>5. OneWrapper'
    BY <1>a, <1>b, <1>2, <1>4, WrapperKeep DEF Becomes
  <1>6. OneTimer'
    BY <1>a, <1>b, <1>2, <1>4, TimerKeep DEF Becomes, Retrying
  <1>7. \A i \in Keys : inflights'[i] = inflights[i] \/ (i = p.id /\ inflights'[i] = None)
    BY <1>a, <1>1, <1>3 DEF TypeOK
  <1>8. InflightKeys' \subseteq InflightKeys
    BY <1>7 DEF InflightKeys
  <1>9. RoomInv'
    <2>1. HasRoom(w)' /\ job'[w].pc # "dqPut" /\ \A v \in Workers : v # w => job'[v] = job[v]
      BY <1>2 DEF HasRoom, Becomes
    <2>2. NoIdOnce'
      BY <1>a, <1>b, <1>7, <2>1 DEF NoIdOnce, RoomInv, Keys
    <2>3. Cardinality(InflightKeys') <= InflightMax
      BY <1>a, <1>8, FewerKeys, WindowFinite, WindowFiniteAfter DEF RoomInv
    <2>4. ASSUME NEW v \in Workers, v # w, job[v].pc \in {"rtRel", "rtDel"},
                 inflights[job[v].key] # None
          PROVE  inflights'[job[v].key] # None \/ Settled(job[v].copy.msg)'
      <3>1. job[v].key \in Keys
        BY <1>a, JobTypes, JobFields
      <3>2. CASE job[v].key # p.id
        BY <1>7, <2>4, <3>1, <3>2
      <3>3. CASE job[v].key = p.id
        <4>1. job[v].copy.msg = p.msg
          BY <1>a, <1>1, <2>4, <3>3, FirstUses DEF Retrying
        <4>2. job'[v] = job[v] /\ p.msg \in acked'
          BY <1>b, <2>1, <2>4
        <4>3. QED
          BY <4>1, <4>2 DEF Settled
      <3>4. QED
        BY <3>2, <3>3
    <2>5. QED
      BY <1>a, <1>c, <1>8, <2>1, <2>2, <2>3, <2>4, RoomKeep
  <1>10. KeptInv'
    <2>1. ASSUME NEW m \in taken, Queued(m) \/ Filed(m) \/ Carries(w, m) PROVE Kept(m)'
      <3>1. CASE Queued(m)
        BY <1>b, <3>1 DEF Kept, Queued
      <3>2. CASE Filed(m)
        <4>1. PICK k \in Keys : inflights[k] # None /\ inflights[k].msg = m
          BY <3>2 DEF Filed, InflightKeys
        <4>2. CASE inflights'[k] = inflights[k]
          BY <4>1, <4>2 DEF Kept, Filed, InflightKeys
        <4>3. CASE k = p.id
          <5>1. m = p.msg
            BY <1>a, <1>1, <4>1, <4>3, FirstUses
          <5>2. QED
            BY <1>b, <5>1 DEF Kept, Settled
        <4>4. QED
          BY <1>7, <4>2, <4>3
      <3>3. CASE Carries(w, m)
        BY <1>2, <3>3 DEF Carries, Becomes, Kept
      <3>4. QED
        BY <2>1, <3>1, <3>2, <3>3
    <2>2. QED
      BY <1>a, <1>b, <1>c, <1>2, <2>1, KeptKeep DEF Becomes
  <1>11. QED
    BY <1>5, <1>6, <1>9, <1>10 DEF FirstHolds

\* An entry is replaced by one of the same message, outside inflightCas.
LEMMA FirstReplace ==
    ASSUME FirstState, FirstOnly', NEW w \in Workers, ~job[w].holds, job[w].pc # "rtPut",
           job[w].cur = None,
           \A v \in Workers : v # w => job'[v] = job[v], job'[w].pc = "idle", job'[w].on = None,
             job'[w].cur = None,
           NEW k \in Keys \ {NoId}, NEW e \in Entries, Put(k, e), inflights[k] # None =>
           inflights[k].msg = e.msg,
           InflightKeys' \subseteq InflightKeys \/ \A v \in Workers : ~job[v].holds,
           UNCHANGED <<queue, queueOf, conn, wrapper, endpoint, expired, taken, acked, dropped,
             evicted>>,
           \A c \in Conns : c # 1 => timeouts'[c] = timeouts[c], OneTimer'
    PROVE  FirstHolds'
  <1>a. Inv /\ TypeOK /\ LocalsInv /\ FirstOnly /\ IdInv /\ OneWrapper /\ RoomInv /\ KeptInv
    BY DEF FirstState, FirstHolds, Inv
  <1>c. SettledGo
    BY DEF SettledGo
  <1>1. /\ \A m : Filed(m) => Filed(m)'
        /\ \A i \in Keys : inflights[i] # None => inflights'[i] # None
        /\ \A i \in Keys : i # k => inflights'[i] = inflights[i]
    BY <1>a, PutSame
  <1>2. OneWrapper'
    BY <1>a, WrapperKeep
  <1>3. RoomInv'
    <2>1. HasRoom(w)'
      BY DEF HasRoom
    <2>2. NoIdOnce'
      BY <1>a, <1>1 DEF NoIdOnce, RoomInv, Keys
    <2>3. Cardinality(InflightKeys') <= InflightMax
      BY <1>a, PutRoom DEF RoomInv
    <2>4. \A v \in Workers : job[v].key \in Keys
      BY <1>a, JobTypes, JobFields
    <2>5. QED
      BY <1>a, <1>c, <1>1, <2>1, <2>2, <2>3, <2>4, RoomKeep
  <1>4. KeptInv'
    <2>1. ASSUME NEW m \in taken, Queued(m) \/ Filed(m) \/ Carries(w, m) PROVE Kept(m)'
      <3>1. m # None
        BY <1>a, NullAssumption DEF TypeOK
      <3>2. QED
        BY <1>1, <2>1, <3>1 DEF Kept, Queued, Carries
    <2>2. QED
      BY <1>a, <1>c, <2>1, KeptKeep
  <1>5. QED
    BY <1>2, <1>3, <1>4 DEF FirstHolds

\* What is not revived was there, or is not stored.
LEMMA NotRevived ==
    ASSUME TypeOK, FirstOnly', NEW k \in Keys, NEW e, Put(k, e), NoteRevived(k)
    PROVE  InflightKeys' \subseteq InflightKeys
  BY DEF FirstOnly, NoteRevived, Put, TypeOK, InflightKeys

\* receivePubrec stores its copy.
LEMMA FirstPutPubrec ==
    ASSUME FirstState, FirstOnly', NEW w \in Workers, PutPubrec(w)
    PROVE  FirstHolds'
  <1>1. job[w].pc = "recPut"
    BY DEF PutPubrec
  <1>a. Inv /\ TypeOK /\ LocalsInv /\ FirstOnly /\ IdInv /\ OneWrapper /\ OneTimer /\ RoomInv
          /\ KeptInv
    BY DEF FirstState, FirstHolds, Inv
  <1>b. UNCHANGED <<queue, queueOf, conn, lastId, wrapper, endpoint, timeouts, expired, taken,
          acked, dropped, evicted>>
    BY DEF PutPubrec
  <1>2. ~job[w].holds /\ job[w].cur = None /\ job[w].rec \in Packets
    BY <1>1, <1>a DEF LocalsInv, LocalsAt, Trying, Carrying
  <1>3. Rests(w)
    BY <1>a, PutPubrecJob
  <1>4. OneTimer'
    BY <1>a, <1>b, <1>1, <1>3, TimerKeep DEF Rests, Becomes, Retrying
  <1>5. PICK k \in Keys \ {NoId} : k = job[w].rec.id
    BY <1>2 DEF Packets, Keys, NoId
  <1>6. CASE job[w].copy # None
    <2>1. job[w].copy \in Entries
      BY <1>a, <1>6, JobTypes, JobFields
    <2>2. PICK e \in Entries : e.msg = job[w].copy.msg /\ Put(k, e)
      <3>1. [job[w].copy EXCEPT !.status = "PUBREC"] \in Entries
              /\ [job[w].copy EXCEPT !.status = "PUBREC"].msg = job[w].copy.msg
        BY <2>1 DEF Entries
      <3>2. Put(k, [job[w].copy EXCEPT !.status = "PUBREC"])
        BY <1>5, <1>6 DEF PutPubrec
      <3>3. QED
        BY <3>1, <3>2
    <2>3. inflights[k] # None => inflights[k].msg = e.msg
      BY <1>1, <1>5, <1>6, <1>a, <2>2, FirstUses
    <2>4. NoteRevived(k)
      BY <1>5 DEF PutPubrec
    <2>5. InflightKeys' \subseteq InflightKeys
      BY <1>a, <2>2, <2>4, NotRevived
    <2>6. QED
      BY <1>1, <1>2, <1>3, <1>4, <1>b, <2>2, <2>3, <2>5, FirstReplace DEF Rests, Becomes
  <1>7. CASE job[w].copy = None
    <2>1. UNCHANGED inflights
      BY <1>7 DEF PutPubrec
    <2>2. SettledGo /\ InflightKeys' = InflightKeys
      BY <1>b, <2>1 DEF SettledGo, InflightKeys
    <2>3. OneWrapper'
      BY <1>a, <1>b, <1>3, WrapperKeep DEF Rests, Becomes
    <2>4. HasRoom(w)' /\ NoIdOnce'
      BY <1>a, <1>b, <1>3, <2>1 DEF HasRoom, NoIdOnce, RoomInv, Rests, Becomes
    <2>5. RoomInv'
      BY <1>a, <1>3, <2>1, <2>2, <2>4, RoomKeep DEF Rests, Becomes, RoomInv
    <2>6. ASSUME NEW m \in taken, Queued(m) \/ Filed(m) \/ Carries(w, m) PROVE Kept(m)'
      <3>1. m # None
        BY <1>a, NullAssumption DEF TypeOK
      <3>2. QED
        BY <1>1, <1>2, <1>b, <2>1, <2>6, <3>1 DEF Kept, Queued, Filed, InflightKeys, Carries
    <2>7. KeptInv'
      BY <1>a, <1>b, <1>3, <2>2, <2>6, KeptKeep DEF Rests, Becomes
    <2>8. QED
      BY <1>4, <2>3, <2>5, <2>7 DEF FirstHolds
  <1>8. QED
    BY <1>6, <1>7

\* An entry that may be retried is still one of its message afterwards.
LEMMA RetriedEntry ==
    ASSUME NEW e \in Entries, e.retry < MaxRetries
    PROVE  Retried(e) \in Entries /\ Retried(e).msg = e.msg
  <1>1. e.retry \in Nat /\ e.retry < MaxRetries + MaxConns - 1
    BY DEF Entries
  <1>2. Retried(e).msg = e.msg
    BY DEF Retried, Entries
  <1>3. QED
    BY <1>1, <1>2, EntryTypes

\* A retry of PUBREL stores the entry again.
LEMMA FirstRetryRelease ==
    ASSUME FirstState, FirstOnly', NEW w \in Workers, RetryRelease(w)
    PROVE  FirstHolds'
  <1>1. job[w].pc = "rtRel"
    BY DEF RetryRelease
  <1>a. Inv /\ TypeOK /\ LocalsInv /\ FirstOnly /\ IdInv /\ OneWrapper /\ OneTimer /\ 1 \in Conns
    BY DEF FirstState, FirstHolds, Inv, Conns
  <1>2. job[w].on = 1 /\ ~job[w].holds /\ job[w].cur = None /\ job[w].copy \in Entries
          /\ job[w].copy.retry < MaxRetries
    BY <1>1, <1>a, FirstPlaces DEF LocalsInv, LocalsAt, Trying, Carrying, Detached, Retrying
  <1>b. UNCHANGED <<queue, queueOf, conn, lastId, wrapper, endpoint, taken, acked, dropped,
          evicted>>
    BY DEF RetryRelease
  <1>3. Rests(w)
    BY <1>a, RetryReleaseJob
  <1>4. PICK k \in Keys : k = job[w].key
    BY <1>a, JobTypes, JobFields
  <1>5. RetryKey(w, k) /\ k # NoId
    BY <1>1, <1>4, <1>a DEF RetryKey, OneTimer
  <1>6. SaveInflightTimeout(1, k) /\ NoteRevived(k)
    BY <1>2, <1>4 DEF RetryRelease
  <1>7. timeouts'[1] = timeouts[1] \cup {k} /\ expired' = expired /\ \A c \in Conns : c # 1 =>
          timeouts'[c] = timeouts[c]
    BY <1>6, <1>a DEF SaveInflightTimeout, TypeOK
  <1>8. OneTimer'
    BY <1>a, <1>b, <1>3, <1>5, <1>7, TimerBack DEF Rests, Becomes, Retrying
  <1>9. PICK e \in Entries : e.msg = job[w].copy.msg /\ Put(k, e)
    <2>1. Retried(job[w].copy) \in Entries /\ Retried(job[w].copy).msg = job[w].copy.msg
      BY <1>2, RetriedEntry
    <2>2. Put(k, Retried(job[w].copy))
      BY <1>4 DEF RetryRelease
    <2>3. QED
      BY <2>1, <2>2
  <1>10. inflights[k] # None => inflights[k].msg = e.msg
    BY <1>1, <1>4, <1>5, <1>a, <1>9, FirstUses DEF Retrying
  <1>11. InflightKeys' \subseteq InflightKeys
    BY <1>a, <1>6, <1>9, NotRevived
  <1>12. QED
    BY <1>1, <1>2, <1>3, <1>5, <1>7, <1>8, <1>9, <1>10, <1>11, <1>b, FirstReplace DEF Rests, Becomes

\* A step that changes no job, no queue and no entry.
LEMMA FirstSameJobs ==
    ASSUME FirstState, UNCHANGED <<job, inflights, queue, queueOf, endpoint, taken, acked,
           dropped, evicted>>,
           wrapper' \in {wrapper, None}, conn'[1] = "accepted" => conn[1] = "accepted",
           \A c \in Conns : c # 1 => timeouts'[c] = timeouts[c] /\ expired'[c] = expired[c],
             OneTimer'
    PROVE  FirstHolds'
  <1>a. OneWrapper /\ RoomInv /\ KeptInv
    BY DEF FirstState, FirstHolds
  <1>1. OneWrapper'
    BY <1>a DEF OneWrapper
  <1>2. InflightKeys' = InflightKeys
    BY DEF InflightKeys
  <1>3. \A m : Settled(m)' <=> Settled(m)
    BY DEF Settled
  <1>4. Room' <=> Room
    BY <1>2 DEF Room
  <1>5. \A w \in Workers : HasRoom(w)'
    BY <1>a, <1>3, <1>4 DEF HasRoom, RoomInv
  <1>6. NoIdOnce'
    BY <1>a DEF NoIdOnce, RoomInv
  <1>7. RoomInv'
    BY <1>a, <1>2, <1>5, <1>6 DEF RoomInv
  <1>8. KeptInv'
    BY <1>a, <1>2, <1>3 DEF KeptInv, Kept, Queued, Filed, Carries
  <1>9. QED
    BY <1>1, <1>7, <1>8 DEF FirstHolds

\* A timer fires, the connection ends, its session is closed.
LEMMA FirstEvents ==
    ASSUME FirstState,
           (\E k \in Keys : Expire(1, k)) \/ Disconnect(1) \/ (\E w \in Workers, c \in Conns :
             CloseSession(w, c))
    PROVE  FirstHolds'
  <1>a. TypeOK /\ OneTimer /\ 1 \in Conns
    BY DEF FirstState, FirstHolds, Inv, Conns
  <1>b. timeouts \in [Conns -> SUBSET Keys] /\ expired \in [Conns -> SUBSET Keys]
        /\ conn \in [Conns -> {"new", "opening", "accepted", "closing", "closed"}]
    BY <1>a DEF TypeOK
  <1>1. ASSUME NEW k \in Keys, Expire(1, k) PROVE FirstHolds'
    <2>1. /\ UNCHANGED <<job, inflights, queue, queueOf, endpoint, wrapper, conn, lastId, taken,
               acked, dropped, evicted>>
          /\ k \in timeouts[1] /\ timeouts'[1] = timeouts[1] \ {k}
               /\ expired'[1] = expired[1] \cup {k}
          /\ \A c \in Conns : c # 1 => timeouts'[c] = timeouts[c] /\ expired'[c] = expired[c]
      BY <1>1, <1>a, <1>b DEF Expire
    <2>2. \A v \in Workers, i \in Keys : RetryKey(v, i)' <=> RetryKey(v, i)
      BY <2>1 DEF RetryKey
    <2>3. \A i : Given(i)' <=> Given(i)
      BY <2>1 DEF Given
    <2>4. timeouts'[1] \cup expired'[1] = timeouts[1] \cup expired[1]
      BY <2>1
    <2>5. timeouts'[1] \cap expired'[1] = {}
      BY <1>a, <2>1 DEF OneTimer
    <2>6. OneTimer'
      BY <1>a, <2>1, <2>2, <2>3, <2>4, <2>5 DEF OneTimer
    <2>7. QED
      BY <2>1, <2>6, FirstSameJobs
  <1>2. ASSUME UNCHANGED <<job, inflights, queue, queueOf, endpoint, lastId, timeouts, expired,
               taken, acked, dropped, evicted>>,
               wrapper' \in {wrapper, None}, conn'[1] = "accepted" => conn[1] = "accepted"
        PROVE  FirstHolds'
    <2>1. \A v \in Workers, i \in Keys : RetryKey(v, i)' <=> RetryKey(v, i)
      BY <1>2 DEF RetryKey
    <2>2. \A i : Given(i) => Given(i)'
      BY <1>2 DEF Given
    <2>3. OneTimer'
      BY <1>a, <1>2, <2>1, <2>2 DEF OneTimer
    <2>4. QED
      BY <1>2, <2>3, FirstSameJobs
  <1>3. ASSUME Disconnect(1) PROVE FirstHolds'
    BY <1>3, <1>2, <1>a, <1>b DEF Disconnect
  <1>4. ASSUME NEW w \in Workers, NEW c \in Conns, CloseSession(w, c) PROVE FirstHolds'
    BY <1>4, <1>2, <1>a, <1>b DEF CloseSession
  <1>5. QED
    BY <1>1, <1>3, <1>4

\* Worker w goes on to a place without a message, and neither the queue nor an
\* entry changes.
LEMMA FirstMoves ==
    ASSUME FirstState, NEW w \in Workers, \A v \in Workers : v # w => job'[v] = job[v],
           job[w].cur = None, job[w].pc # "rtPut", job'[w].pc # "dqPut",
             job'[w].on \in {job[w].on, 1, None},
           UNCHANGED <<inflights, queue, queueOf, wrapper, endpoint, conn, taken, acked, dropped,
             evicted>>,
           \A c \in Conns : c # 1 => timeouts'[c] = timeouts[c] /\ expired'[c] = expired[c],
           OneTimer', HasRoom(w)'
    PROVE  FirstHolds'
  <1>a. LocalsInv /\ TypeOK /\ OneWrapper /\ RoomInv /\ KeptInv
    BY DEF FirstState, FirstHolds, Inv
  <1>1. SettledGo /\ InflightKeys' = InflightKeys
    BY DEF SettledGo, InflightKeys
  <1>2. OneWrapper'
    BY <1>a, WrapperKeep
  <1>3. NoIdOnce'
    BY <1>a DEF NoIdOnce, RoomInv
  <1>4. RoomInv'
    BY <1>a, <1>1, <1>3, RoomKeep DEF RoomInv
  <1>5. ASSUME NEW m \in taken, Queued(m) \/ Filed(m) \/ Carries(w, m) PROVE Kept(m)'
    <2>1. m # None
      BY <1>a, NullAssumption DEF TypeOK
    <2>2. QED
      BY <1>5, <2>1 DEF Kept, Queued, Filed, InflightKeys, Carries
  <1>6. KeptInv'
    BY <1>a, <1>1, <1>5, KeptKeep
  <1>7. QED
    BY <1>2, <1>4, <1>6 DEF FirstHolds

\* receivePubrec reads its copy.
LEMMA FirstReceivePubrec ==
    ASSUME FirstState, NEW w \in Workers, NEW p \in wire, ReceivePubrec(w, p)
    PROVE  FirstHolds'
  <1>a. LocalsInv /\ TypeOK /\ OneTimer
    BY DEF FirstState, FirstHolds, Inv
  <1>1. /\ job[w].pc = "idle"
        /\ UNCHANGED <<inflights, queue, queueOf, wrapper, endpoint, conn, lastId, timeouts,
             expired, taken, acked,
                       dropped, evicted>>
    BY DEF ReceivePubrec
  <1>2. job[w].cur = None
    BY <1>a, <1>1 DEF LocalsInv, LocalsAt, Carrying
  <1>3. \E e \in Entries \cup {None} :
          Becomes(w, "recPut", job[w].on, job[w].cur, e, job[w].key, p, job[w].todo, job[w].items,
            job[w].holds)
    BY <1>a, ReceivePubrecJob
  <1>4. OneTimer'
    BY <1>a, <1>1, <1>3, TimerKeep DEF Becomes, Retrying
  <1>5. HasRoom(w)'
    BY <1>3 DEF HasRoom, Becomes
  <1>6. QED
    BY <1>1, <1>2, <1>3, <1>4, <1>5, FirstMoves DEF Becomes

\* A retry that waited begins, or gives its message up.
LEMMA FirstRetry ==
    ASSUME FirstState, NEW w \in Workers, NEW k \in Keys, Retry(w, 1, k)
    PROVE  FirstHolds'
  <1>a. Inv /\ LocalsInv /\ TypeOK /\ FirstOnly /\ IdInv /\ OneWrapper /\ OneTimer /\ RoomInv
          /\ KeptInv /\ 1 \in Conns
    BY DEF FirstState, FirstHolds, Inv, Conns
  <1>b. expired \in [Conns -> SUBSET Keys]
    BY <1>a DEF TypeOK
  <1>1. /\ job[w].pc = "idle" /\ k \in expired[1] /\ expired'[1] = expired[1] \ {k}
        /\ \A c \in Conns : c # 1 => timeouts'[c] = timeouts[c] /\ expired'[c] = expired[c]
        /\ UNCHANGED <<queue, queueOf, wrapper, endpoint, conn, lastId, timeouts, taken, acked,
             evicted>>
    BY <1>a, <1>b DEF Retry
  <1>2. job[w].cur = None
    BY <1>a, <1>1 DEF LocalsInv, LocalsAt, Carrying
  <1>3. k # NoId /\ Given(k) /\ k \notin timeouts[1] /\ \A v \in Workers : ~RetryKey(v, k)
    BY <1>a, <1>1 DEF OneTimer
  <1>4. \A i : Given(i)' <=> Given(i)
    BY <1>1 DEF Given
  <1>5. ASSUME \A v \in Workers : v # w => job'[v] = job[v], job'[w].pc \notin Retrying
               PROVE OneTimer'
    <2>1. \A v \in Workers, i \in Keys : RetryKey(v, i)' => RetryKey(v, i)
      BY <1>5 DEF RetryKey, Retrying
    <2>2. \A v \in Workers : job'[v].pc = "rtPut" => job[v].pc = "rtPut" /\ job'[v] = job[v]
      BY <1>5 DEF Retrying
    <2>3. \A u, v \in Workers, i \in Keys : RetryKey(u, i)' /\ RetryKey(v, i)' => u = v
      BY <1>a, <2>1 DEF OneTimer
    <2>4. ASSUME NEW v \in Workers, job'[v].pc = "rtPut"
          PROVE  /\ job'[v].key = lastId'[1] + 1 /\ job'[v].key \notin timeouts'[1] \cup expired'[1]
                 /\ \A u \in Workers, i \in Keys : RetryKey(u, i)' => i # job'[v].key
      BY <1>a, <1>1, <2>1, <2>2, <2>4 DEF OneTimer
    <2>5. \A v \in Workers, i \in Keys : RetryKey(v, i)' =>
            i # NoId /\ Given(i)' /\ i \notin timeouts'[1] \cup expired'[1]
      BY <1>a, <1>1, <1>4, <2>1 DEF OneTimer
    <2>6. timeouts'[1] \cap expired'[1] = {} /\ \A i \in timeouts'[1] \cup expired'[1] : i # NoId
            /\ Given(i)'
      BY <1>a, <1>1, <1>4 DEF OneTimer
    <2>7. QED
      BY <2>3, <2>4, <2>5, <2>6 DEF OneTimer
  <1>6. CASE inflights[k] = None /\ UNCHANGED <<inflights, dropped, job>>
    <2>1. OneTimer'
      BY <1>1, <1>5, <1>6 DEF Retrying
    <2>2. QED
      BY <1>1, <1>6, <2>1, FirstSameJobs
  <1>7. CASE /\ inflights[k] # None /\ inflights' = [inflights EXCEPT ![k] = None]
             /\ dropped' = dropped \cup {inflights[k].msg}
             /\ job' = [job EXCEPT ![w] = [@ EXCEPT !.pc = "dqTake", !.on = 1]]
    <2>1. Becomes(w, "dqTake", 1, job[w].cur, job[w].copy, job[w].key, job[w].rec, job[w].todo,
            job[w].items, job[w].holds)
      BY <1>a, <1>7, JobTypes, SetWrapper DEF Places
    <2>2. SettledGo
      BY <1>1, <1>7 DEF SettledGo
    <2>3. OneTimer'
      BY <1>5, <2>1 DEF Becomes, Retrying
    <2>4. OneWrapper'
      BY <1>a, <1>1, <2>1, WrapperKeep DEF Becomes
    <2>5. InflightKeys' = InflightKeys \ {k} /\ \A i \in Keys : i # k =>
            inflights'[i] = inflights[i]
      <3>1. InflightKeys' = InflightKeys \ {k}
        BY <1>7, <1>a, FiledKeys
      <3>2. QED
        BY <1>7, <1>a, <3>1 DEF TypeOK
    <2>6. RoomInv'
      <3>1. HasRoom(w)' /\ job'[w].pc # "dqPut"
        BY <2>1 DEF HasRoom, Becomes
      <3>2. NoIdOnce'
        BY <1>a, <1>1, <1>3, <2>1, <2>5, <3>1 DEF NoIdOnce, RoomInv, Becomes, Keys
      <3>3. Cardinality(InflightKeys') <= InflightMax
        BY <1>7, <1>a, RemoveRoom DEF RoomInv
      <3>4. ASSUME NEW v \in Workers, v # w, job[v].pc \in {"rtRel", "rtDel"},
                   inflights[job[v].key] # None
            PROVE  inflights'[job[v].key] # None
        <4>1. job[v].key \in Keys /\ job[v].key # k
          BY <1>a, <1>3, <3>4, JobTypes, JobFields DEF RetryKey
        <4>2. QED
          BY <2>5, <3>4, <4>1
      <3>5. QED
        BY <1>a, <2>1, <2>2, <2>5, <3>1, <3>2, <3>3, <3>4, RoomKeep DEF Becomes
    <2>7. KeptInv'
      <3>1. ASSUME NEW m \in taken, Queued(m) \/ Filed(m) \/ Carries(w, m) PROVE Kept(m)'
        <4>1. m # None
          BY <1>a, NullAssumption DEF TypeOK
        <4>2. CASE Queued(m)
          BY <1>1, <4>2 DEF Kept, Queued
        <4>3. CASE Filed(m)
          <5>1. PICK i \in Keys : inflights[i] # None /\ inflights[i].msg = m
            BY <4>3 DEF Filed, InflightKeys
          <5>2. CASE i = k
            BY <1>7, <5>1, <5>2 DEF Kept, Settled
          <5>3. CASE i # k
            <6>1. inflights'[i] = inflights[i]
              BY <2>5, <5>3
            <6>2. QED
              BY <5>1, <6>1 DEF Kept, Filed, InflightKeys
          <5>4. QED
            BY <5>2, <5>3
        <4>4. CASE Carries(w, m)
          BY <1>1, <1>2, <4>1, <4>4 DEF Carries
        <4>5. QED
          BY <3>1, <4>2, <4>3, <4>4
      <3>2. QED
        BY <1>a, <1>1, <2>1, <2>2, <3>1, KeptKeep DEF Becomes
    <2>8. QED
      BY <2>3, <2>4, <2>6, <2>7 DEF FirstHolds
  <1>8. CASE /\ inflights[k] # None /\ UNCHANGED <<inflights, dropped>>
             /\ job' = [job EXCEPT ![w] = [@ EXCEPT !.on = 1, !.copy = inflights[k], !.key = k,
                                                    !.pc = IF AwaitsPubcomp(inflights[k])
                                                      THEN "rtRel" ELSE "rtDel"]]
    <2>1. PICK p \in {"rtRel", "rtDel"} : p = IF AwaitsPubcomp(inflights[k]) THEN "rtRel"
            ELSE "rtDel"
      OBVIOUS
    <2>2. Becomes(w, p, 1, job[w].cur, inflights[k], k, job[w].rec, job[w].todo, job[w].items,
            job[w].holds)
      <3>1. inflights[k] \in Entries \cup {None} /\ p \in Places
        BY <1>a, <2>1 DEF TypeOK, Places
      <3>2. job' = [job EXCEPT ![w] = [job[w] EXCEPT !.on = 1, !.copy = inflights[k], !.key = k,
              !.pc = p]]
        BY <1>8, <2>1
      <3>3. QED
        BY <1>a, <3>1, <3>2, JobTypes, SetRetry
    <2>3. HasRoom(w)'
      BY <1>8, <2>1, <2>2 DEF HasRoom, Becomes
    <2>4. OneTimer'
      <3>1. \A v \in Workers, i \in Keys : RetryKey(v, i)' => (v = w /\ i = k)
              \/ (v # w /\ i # k /\ RetryKey(v, i))
        BY <1>3, <2>2 DEF RetryKey, Becomes
      <3>2. \A v \in Workers : job'[v].pc = "rtPut" => v # w /\ job[v].pc = "rtPut"
              /\ job'[v] = job[v]
        BY <2>1, <2>2 DEF Becomes
      <3>3. \A u, v \in Workers, i \in Keys : RetryKey(u, i)' /\ RetryKey(v, i)' => u = v
        BY <1>a, <3>1 DEF OneTimer
      <3>4. ASSUME NEW v \in Workers, job'[v].pc = "rtPut"
            PROVE  /\ job'[v].key = lastId'[1] + 1
                        /\ job'[v].key \notin timeouts'[1] \cup expired'[1]
                   /\ \A u \in Workers, i \in Keys : RetryKey(u, i)' => i # job'[v].key
        BY <1>a, <1>1, <3>1, <3>2, <3>4 DEF OneTimer
      <3>5. \A v \in Workers, i \in Keys : RetryKey(v, i)' =>
              i # NoId /\ Given(i)' /\ i \notin timeouts'[1] \cup expired'[1]
        BY <1>a, <1>1, <1>3, <1>4, <3>1 DEF OneTimer
      <3>6. timeouts'[1] \cap expired'[1] = {} /\ \A i \in timeouts'[1] \cup expired'[1] :
              i # NoId /\ Given(i)'
        BY <1>a, <1>1, <1>4 DEF OneTimer
      <3>7. QED
        BY <3>3, <3>4, <3>5, <3>6 DEF OneTimer
    <2>5. QED
      BY <1>1, <1>2, <1>8, <2>1, <2>2, <2>3, <2>4, FirstMoves DEF Becomes
  <1>9. QED
    BY <1>6, <1>7, <1>8 DEF Retry

\* A retry gives up its packet id, or, without a connection, stores the entry again.
LEMMA FirstRetryDelete ==
    ASSUME FirstState, FirstOnly', NEW w \in Workers, RetryDelete(w)
    PROVE  FirstHolds'
  <1>1. job[w].pc = "rtDel"
    BY DEF RetryDelete
  <1>a. Inv /\ TypeOK /\ LocalsInv /\ FirstOnly /\ IdInv /\ OneWrapper /\ OneTimer /\ RoomInv
          /\ KeptInv /\ 1 \in Conns
    BY DEF FirstState, FirstHolds, Inv, Conns
  <1>2. job[w].on = 1 /\ ~job[w].holds /\ job[w].cur = None /\ job[w].copy \in Entries
          /\ job[w].copy.retry < MaxRetries
    BY <1>1, <1>a, FirstPlaces DEF LocalsInv, LocalsAt, Trying, Carrying, Detached, Retrying
  <1>b. UNCHANGED <<queue, queueOf, conn, lastId, wrapper, endpoint, taken, acked, dropped,
          evicted>>
    BY DEF RetryDelete
  <1>3. PICK k \in Keys : k = job[w].key
    BY <1>a, JobTypes, JobFields
  <1>4. RetryKey(w, k) /\ k # NoId
    BY <1>1, <1>3, <1>a DEF RetryKey, OneTimer
  <1>5. (~Connected(1) /\ Rests(w)) \/ Refiles(w)
    BY <1>2, <1>a, RetryDeleteJob
  <1>6. CASE ~Connected(1)
    <2>1. inflightCas[1] = 0 /\ Put(k, Retried(job[w].copy)) /\ SaveInflightTimeout(1, k)
            /\ Rests(w)
      BY <1>2, <1>3, <1>5, <1>6 DEF RetryDelete, Refiles
    <2>2. timeouts'[1] = timeouts[1] \cup {k} /\ expired' = expired /\ \A c \in Conns : c # 1 =>
            timeouts'[c] = timeouts[c]
      BY <2>1, <1>a DEF SaveInflightTimeout, TypeOK
    <2>3. OneTimer'
      BY <1>a, <1>b, <1>4, <2>1, <2>2, TimerBack DEF Rests, Becomes, Retrying
    <2>4. PICK e \in Entries : e.msg = job[w].copy.msg /\ Put(k, e)
      BY <1>2, <2>1, RetriedEntry
    <2>5. inflights[k] # None => inflights[k].msg = e.msg
      BY <1>1, <1>3, <1>4, <1>a, <2>4, FirstUses DEF Retrying
    <2>6. \A v \in Workers : ~job[v].holds
      BY <1>a, <2>1, FirstPlaces
    <2>7. QED
      BY <1>1, <1>2, <1>4, <1>b, <2>1, <2>2, <2>3, <2>4, <2>5, <2>6, FirstReplace DEF Rests, Becomes
  <1>7. CASE Connected(1)
    <2>1. Refiles(w)
      BY <1>5, <1>7
    <2>2. inflights' = [inflights EXCEPT ![k] = None] /\ UNCHANGED timerVars /\ inflightCas[1] = 0
      BY <1>2, <1>3, <1>7 DEF RetryDelete, TakeInflightCas
    <2>3. PICK n \in Msgs : n = job[w].copy.msg
      BY <1>2 DEF Entries
    <2>4. PICK id : id = NextMessageId(1)
      OBVIOUS
    <2>5. /\ \A v \in Workers : v # w => job'[v] = job[v]
          /\ job'[w].pc = "rtPut" /\ job'[w].on = 1 /\ job'[w].copy.msg = n /\ job'[w].key = id
      BY <1>2, <2>1, <2>3, <2>4 DEF Refiles, Becomes
    <2>6. SettledGo
      BY <1>b DEF SettledGo
    <2>7. /\ id \in Keys /\ id = lastId[1] + 1 /\ id \notin timeouts[1] \cup expired[1]
          /\ \A v \in Workers : ~RetryKey(v, id)
      <3>1. id # NoId
        BY <1>7, <1>a, <2>4, NextIdType DEF NoId
      <3>2. QED
        BY <1>a, <2>4, <3>1, FirstNextId
    <2>8. \A v \in Workers : ~job[v].holds /\ job[v].pc # "rtPut"
      <3>1. \A v \in Workers : ~job[v].holds
        BY <1>a, <2>2, FirstPlaces
      <3>2. QED
        BY <1>a, <3>1 DEF LocalsInv, LocalsAt, Trying
    <2>9. OneWrapper'
      BY <1>a, <1>b, <2>2, <2>5, WrapperKeep
    <2>10. OneTimer'
      <3>1. \A v \in Workers, i \in Keys : RetryKey(v, i)' => v # w /\ RetryKey(v, i)
        BY <2>5 DEF RetryKey
      <3>2. \A i : Given(i)' <=> Given(i)
        BY <1>b DEF Given
      <3>3. \A u, v \in Workers, i \in Keys : RetryKey(u, i)' /\ RetryKey(v, i)' => u = v
        BY <1>a, <3>1 DEF OneTimer
      <3>4. ASSUME NEW v \in Workers, job'[v].pc = "rtPut"
            PROVE  /\ job'[v].key = lastId'[1] + 1
                        /\ job'[v].key \notin timeouts'[1] \cup expired'[1]
                   /\ \A u \in Workers, i \in Keys : RetryKey(u, i)' => i # job'[v].key
        <4>1. v = w
          BY <2>5, <2>8, <3>4
        <4>2. QED
          BY <1>b, <2>2, <2>5, <2>7, <3>1, <4>1
      <3>5. \A v \in Workers, i \in Keys : RetryKey(v, i)' =>
              i # NoId /\ Given(i)' /\ i \notin timeouts'[1] \cup expired'[1]
        BY <1>a, <2>2, <3>1, <3>2 DEF OneTimer
      <3>6. timeouts'[1] \cap expired'[1] = {} /\ \A i \in timeouts'[1] \cup expired'[1] :
              i # NoId /\ Given(i)'
        BY <1>a, <2>2, <3>2 DEF OneTimer
      <3>7. QED
        BY <3>3, <3>4, <3>5, <3>6 DEF OneTimer
    <2>11. InflightKeys' = InflightKeys \ {k} /\ \A i \in Keys : i # k =>
             inflights'[i] = inflights[i]
      <3>1. InflightKeys' = InflightKeys \ {k}
        BY <1>a, <2>2, FiledKeys
      <3>2. QED
        BY <1>a, <2>2, <3>1 DEF TypeOK
    <2>12. RoomInv'
      <3>1. Cardinality(InflightKeys') <= InflightMax /\ (inflights[k] # None => Room')
        BY <1>a, <2>2, RemoveRoom DEF RoomInv
      <3>2. inflights[k] # None \/ Settled(n)
        BY <1>a, <1>1, <1>3, <2>3 DEF RoomInv, HasRoom
      <3>3. Settled(n) => Settled(n)'
        BY <2>6 DEF Settled, SettledGo
      <3>4. HasRoom(w)'
        BY <2>5, <3>1, <3>2, <3>3 DEF HasRoom
      <3>5. NoIdOnce'
        BY <1>a, <1>b, <1>4, <2>5, <2>11 DEF NoIdOnce, RoomInv, Keys
      <3>6. ASSUME NEW v \in Workers, v # w, job[v].pc \in {"rtRel", "rtDel"},
                   inflights[job[v].key] # None
            PROVE  inflights'[job[v].key] # None
        <4>1. job[v].key \in Keys /\ job[v].key # k
          BY <1>a, <1>4, <3>6, JobTypes, JobFields DEF RetryKey, OneTimer
        <4>2. QED
          BY <2>11, <3>6, <4>1
      <3>7. QED
        BY <1>a, <2>5, <2>6, <2>11, <3>1, <3>4, <3>5, <3>6, RoomKeep
    <2>13. KeptInv'
      <3>1. Kept(n)'
        BY <2>5 DEF Kept, Carries
      <3>2. ASSUME NEW m \in taken, Queued(m) \/ Filed(m) \/ Carries(w, m) PROVE Kept(m)'
        <4>1. m # None
          BY <1>a, NullAssumption DEF TypeOK
        <4>2. CASE Queued(m)
          BY <1>b, <4>2 DEF Kept, Queued
        <4>3. CASE Filed(m)
          <5>1. PICK i \in Keys : inflights[i] # None /\ inflights[i].msg = m
            BY <4>3 DEF Filed, InflightKeys
          <5>2. CASE i = k
            <6>1. m = n
              BY <1>a, <1>1, <1>3, <1>4, <2>3, <5>1, <5>2, FirstUses DEF Retrying
            <6>2. QED
              BY <3>1, <6>1
          <5>3. CASE i # k
            <6>1. inflights'[i] = inflights[i]
              BY <2>11, <5>3
            <6>2. QED
              BY <5>1, <6>1 DEF Kept, Filed, InflightKeys
          <5>4. QED
            BY <5>2, <5>3
        <4>4. CASE Carries(w, m)
          BY <1>1, <1>2, <4>1, <4>4 DEF Carries
        <4>5. QED
          BY <3>2, <4>2, <4>3, <4>4
      <3>3. QED
        BY <1>a, <1>b, <2>5, <2>6, <3>2, KeptKeep
    <2>14. QED
      BY <2>9, <2>10, <2>12, <2>13 DEF FirstHolds
  <1>8. QED
    BY <1>6, <1>7

\* A retry files its entry under the new packet id.
LEMMA FirstRetryPut ==
    ASSUME FirstState, FirstOnly', NEW w \in Workers, RetryPut(w)
    PROVE  FirstHolds'
  <1>1. job[w].pc = "rtPut"
    BY DEF RetryPut
  <1>a. Inv /\ TypeOK /\ LocalsInv /\ FirstOnly /\ IdInv /\ OneWrapper /\ OneTimer /\ RoomInv
          /\ KeptInv /\ 1 \in Conns
    BY DEF FirstState, FirstHolds, Inv, Conns
  <1>2. job[w].on = 1 /\ job[w].holds /\ job[w].cur = None /\ job[w].copy \in Entries
          /\ job[w].copy.retry < MaxRetries
        /\ job[w].key # NoId
    BY <1>1, <1>a, FirstPlaces DEF LocalsInv, LocalsAt, Trying, Carrying, Detached, Retrying
  <1>b. UNCHANGED <<queue, queueOf, wrapper, endpoint, taken, acked, dropped, evicted>> /\ SettledGo
    BY DEF RetryPut, SettledGo
  <1>c. \A v \in Workers : v # w => ~job[v].holds /\ job[v].pc # "rtPut"
    <2>1. \A v \in Workers : v # w => ~job[v].holds
      BY <1>a, <1>2, FirstPlaces
    <2>2. QED
      BY <1>a, <2>1 DEF LocalsInv, LocalsAt, Trying
  <1>3. PICK k \in Keys : k = job[w].key
    BY <1>a, JobTypes, JobFields
  <1>4. /\ k # NoId /\ k = lastId[1] + 1 /\ k \notin timeouts[1] \cup expired[1]
             /\ \A v \in Workers : ~RetryKey(v, k)
    BY <1>1, <1>2, <1>3, <1>a DEF OneTimer
  <1>5. Rests(w)
    BY <1>a, RetryPutJob
  <1>6. PICK e \in Entries : e.msg = job[w].copy.msg /\ Put(k, e)
    <2>1. Put(k, Retried(job[w].copy))
      BY <1>3 DEF RetryPut
    <2>2. QED
      BY <1>2, <2>1, RetriedEntry
  <1>7. SaveInflightTimeout(1, k) /\ Publish(1, job[w].copy.msg)
    BY <1>2, <1>3 DEF RetryPut
  <1>8. /\ timeouts'[1] = timeouts[1] \cup {k} /\ expired' = expired /\ conn' = conn
        /\ \A c \in Conns : c # 1 => timeouts'[c] = timeouts[c]
    BY <1>7, <1>a DEF SaveInflightTimeout, Publish, TypeOK
  <1>9. lastId[1] \in Nat /\ timeouts[1] \cup expired[1] \subseteq Keys
    BY <1>a DEF TypeOK
  <1>10. lastId'[1] = k \/ (lastId'[1] = lastId[1] /\ conn[1] # "accepted")
    <2>1. CASE Connected(1)
      <3>1. NextMessageId(1) # NoId
        BY <1>a, <2>1, NextIdType DEF NoId
      <3>2. NextMessageId(1) = k
        BY <1>a, <1>4, <3>1, FirstNextId
      <3>3. QED
        BY <1>a, <1>7, <2>1, <3>2 DEF Publish, TypeOK, OneWrapper
    <2>2. CASE ~Connected(1)
      BY <1>a, <1>7, <2>2, FirstPlaces DEF Publish
    <2>3. QED
      BY <2>1, <2>2
  <1>11. OneTimer'
    BY <1>a, <1>1, <1>c, <1>4, <1>5, <1>8, <1>9, <1>10, TimerNew DEF Rests, Becomes, Retrying
  <1>12. OneWrapper'
    BY <1>a, <1>b, <1>5, <1>8, WrapperKeep DEF Rests, Becomes
  <1>13. inflights[k] # None => inflights[k].msg = e.msg
    BY <1>1, <1>3, <1>4, <1>6, <1>a, FirstUses DEF Retrying
  <1>14. /\ \A m : Filed(m) => Filed(m)'
         /\ \A i \in Keys : inflights[i] # None => inflights'[i] # None
         /\ \A i \in Keys : i # k => inflights'[i] = inflights[i]
    BY <1>a, <1>6, <1>13, PutSame
  <1>15. Filed(e.msg)' \/ Settled(e.msg)'
    <2>1. Room \/ Settled(e.msg)
      BY <1>1, <1>6, <1>a DEF RoomInv, HasRoom
    <2>2. Settled(e.msg) => Settled(e.msg)'
      BY <1>b DEF Settled, SettledGo
    <2>3. Room => Filed(e.msg)'
      BY <1>a, <1>6, PutFiles DEF CanPut, Room
    <2>4. QED
      BY <2>1, <2>2, <2>3
  <1>16. RoomInv'
    <2>1. HasRoom(w)'
      BY <1>5 DEF HasRoom, Rests, Becomes
    <2>2. NoIdOnce'
      BY <1>a, <1>4, <1>5, <1>8, <1>14 DEF NoIdOnce, RoomInv, Keys, Rests, Becomes
    <2>3. Cardinality(InflightKeys') <= InflightMax
      BY <1>a, <1>6, PutRoom DEF RoomInv
    <2>4. \A v \in Workers : job[v].key \in Keys
      BY <1>a, JobTypes, JobFields
    <2>5. QED
      BY <1>a, <1>b, <1>c, <1>5, <1>14, <2>1, <2>2, <2>3, <2>4, RoomKeep DEF Rests, Becomes
  <1>17. KeptInv'
    <2>1. ASSUME NEW m \in taken, Queued(m) \/ Filed(m) \/ Carries(w, m) PROVE Kept(m)'
      <3>1. m # None
        BY <1>a, NullAssumption DEF TypeOK
      <3>2. CASE Queued(m)
        BY <1>b, <3>2 DEF Kept, Queued
      <3>3. CASE Filed(m)
        BY <1>14, <3>3 DEF Kept
      <3>4. CASE Carries(w, m)
        <4>1. m = e.msg
          BY <1>2, <1>6, <3>1, <3>4 DEF Carries
        <4>2. QED
          BY <1>15, <4>1 DEF Kept
      <3>5. QED
        BY <2>1, <3>2, <3>3, <3>4
    <2>2. QED
      BY <1>a, <1>b, <1>5, <2>1, KeptKeep DEF Rests, Becomes
  <1>18. QED
    BY <1>11, <1>12, <1>16, <1>17 DEF FirstHolds

\* Every step before the client connects again.
LEMMA FirstStep == Inv /\ EndpointInv /\ IdInv /\ FirstInv /\ [Next]_vars => FirstInv'
  <1> SUFFICES ASSUME Inv, EndpointInv, IdInv, FirstInv, [Next]_vars, FirstOnly'
               PROVE  FirstHolds'
    BY DEF FirstInv, FirstHolds
  <1>1. FirstOnly
    BY FirstBack
  <1>2. FirstState
    BY <1>1 DEF FirstState, FirstInv, FirstHolds
  <1>3. UNCHANGED vars \/ (\E w \in Workers : Still(w)) \/ FirstStir
    BY <1>1, <1>2, FirstKinds DEF FirstState, FirstHolds
  <1>4. CASE UNCHANGED vars
    <2>1. /\ UNCHANGED <<job, inflights, queue, queueOf, wrapper, endpoint, conn, lastId,
               timeouts, expired>>
          /\ UNCHANGED <<taken, acked, dropped, evicted>>
      BY <1>4 DEF vars
    <2>2. \A v \in Workers, i \in Keys : RetryKey(v, i)' <=> RetryKey(v, i)
      BY <2>1 DEF RetryKey
    <2>3. OneTimer'
      BY <1>2, <2>1, <2>2 DEF OneTimer, Given, FirstState, FirstHolds
    <2>4. QED
      BY <1>2, <2>1, <2>3, FirstSameJobs
  <1>5. CASE \E w \in Workers : Still(w)
    BY <1>2, <1>5, FirstStill
  <1>6. CASE FirstStir
    BY <1>2, <1>6, FirstInflightPut, FirstDequeuePut, FirstRemoveInflight, FirstReceivePubrec,
      FirstPutPubrec,
       FirstRetry, FirstRetryRelease, FirstRetryDelete, FirstRetryPut, FirstEvents DEF FirstStir
  <1>7. QED
    BY <1>3, <1>4, <1>5, <1>6

\* The session as it starts.
LEMMA FirstInit == Init => FirstInv
  <1> SUFFICES ASSUME Init PROVE FirstHolds
    BY DEF FirstInv, FirstHolds
  <1>1. \A w \in Workers : job[w].pc = "idle" /\ job[w].on = None
    BY DEF Init, Idle
  <1>2. 1 \in Conns /\ InflightKeys = {}
    BY DEF Init, Conns, InflightKeys
  <1>3. OneWrapper
    BY <1>1, <1>2 DEF Init, OneWrapper
  <1>4. OneTimer
    BY <1>1, <1>2 DEF Init, OneTimer, RetryKey
  <1>5. RoomInv
    BY <1>1, <1>2, FS_EmptySet DEF Init, RoomInv, HasRoom, NoIdOnce, Keys
  <1>6. KeptInv
    BY DEF Init, KeptInv, Kept, Settled
  <1>7. QED
    BY <1>3, <1>4, <1>5, <1>6 DEF FirstHolds

\* Until the client connects again, nothing that was taken for it disappears: for any
\* number of workers and messages, whatever becomes of the connection and however the
\* handlers of publishes, answers and timers interleave, a message is queued, filed, in
\* a worker's hands, acknowledged, dropped after too many retries or evicted from a full
\* queue.  The argument: one lock and one set of timers govern the window, so a worker
\* that has found room still has it when it files its message, and a message whose entry
\* is gone when its retry comes back is settled.
THEOREM KeptBeforeReconnect == Spec => []KeptUntilReconnect
  <1>1. Inv /\ FirstInv => KeptUntilReconnect
    <2> SUFFICES ASSUME Inv, FirstInv, FirstOnly, NEW m \in taken
                 PROVE  Known(m) \/ Settled(m)
      BY DEF KeptUntilReconnect, FirstOnly
    <2>1. Kept(m)
      BY DEF FirstInv, KeptInv
    <2>2. ASSUME NEW w \in Workers, Carries(w, m) PROVE InHand(m)
      <3>1. job[w].pc = "rtPut" => job[w].copy # None
        BY NullAssumption DEF Inv, LocalsInv, LocalsAt, Retrying
      <3>2. QED
        BY <2>2, <3>1 DEF Carries, InHand
    <2>3. QED
      BY <2>1, <2>2 DEF Kept, Known
  <1>2. QED
    BY <1>1, FirstInit, FirstStep, IdInvariance, PTL DEF Spec

=============================================================================
