-------------------------- MODULE DistributorProofs --------------------------
(***************************************************************************)
(* Proofs about Distributor: its types, that incremental reads are         *)
(* complete when results are saved one after another and read in full, and *)
(* that pruning then keeps the table within its bound.                     *)
(***************************************************************************)
EXTENDS Distributor, FiniteSetTheorems, WellFoundedInduction, TLAPS

ThreadState == [stage : Stage, task : Task \cup {0}, ctime : 0..MaxTime, seen : Nat]

\* A stamped row is complete before it is inserted.
SaveShape ==
  \A t \in Thread : thread[t].stage = "save" =>
    thread[t].task \in Task /\ thread[t].ctime \in 1..MaxTime

TInv == TypeOK /\ SaveShape

-----------------------------------------------------------------------------
(* Type correctness.                                                       *)

\* What moving on to another stage changes of a thread.
LEMMA GoFacts ==
  ASSUME TypeOK, NEW t \in Thread, NEW stage \in Stage, Go(t, stage)
  PROVE  /\ thread' \in [Thread -> ThreadState]
         /\ thread'[t].stage = stage
         /\ thread'[t].task = thread[t].task
         /\ thread'[t].ctime = thread[t].ctime
         /\ \A u \in Thread : u # t => thread'[u] = thread[u]
<1>1. thread \in [Thread -> ThreadState] /\ thread[t] \in ThreadState
  BY DEF TypeOK, ThreadState
<1>2. thread' = [thread EXCEPT ![t] = [thread[t] EXCEPT !.stage = stage]]
  BY DEF Go
<1>3. [thread[t] EXCEPT !.stage = stage] \in ThreadState
  BY <1>1 DEF ThreadState
<1>4. /\ [thread[t] EXCEPT !.stage = stage].stage = stage
      /\ [thread[t] EXCEPT !.stage = stage].task = thread[t].task
      /\ [thread[t] EXCEPT !.stage = stage].ctime = thread[t].ctime
  BY <1>1 DEF ThreadState
<1>5. QED
  BY <1>1, <1>2, <1>3, <1>4

\* What a step that only moves thread t to another stage leaves in place.
LEMMA GoType ==
  ASSUME TInv, NEW t \in Thread, NEW stage \in Stage \ {"save"}, Go(t, stage)
  PROVE  thread' \in [Thread -> ThreadState] /\ SaveShape'
<1>1. TypeOK
  BY DEF TInv
<1>2. QED
  BY <1>1, GoFacts DEF TInv, SaveShape

\* Taking a creation time makes a row that is ready to insert.
LEMMA StampFacts ==
  ASSUME TInv, NEW t \in Thread, NEW k \in Task, Stamp(t, k)
  PROVE  /\ thread' \in [Thread -> ThreadState] /\ SaveShape'
         /\ thread'[t].stage = "save" /\ thread'[t].ctime = now
<1> DEFINE new == [thread[t] EXCEPT !.stage = "save", !.task = k, !.ctime = now]
<1>1. thread \in [Thread -> ThreadState] /\ thread[t] \in ThreadState /\ now \in 1..MaxTime
  BY DEF TInv, TypeOK, ThreadState
<1>2. now \in 0..MaxTime
  BY <1>1, DistributorAssumption
<1>3. /\ new \in ThreadState
      /\ new.stage = "save" /\ new.task = k /\ new.ctime = now
  BY <1>1, <1>2 DEF ThreadState, Stage
<1>4. thread' = [thread EXCEPT ![t] = new]
  BY DEF Stamp
<1> HIDE DEF new
<1>5. /\ thread' \in [Thread -> ThreadState]
      /\ thread'[t] = new
      /\ \A u \in Thread : u # t => thread'[u] = thread[u]
  BY <1>1, <1>3, <1>4
<1>6. QED
  BY <1>1, <1>3, <1>5 DEF TInv, SaveShape

\* Every step keeps the types.
LEMMA TypeStep == TInv /\ [Next]_vars => TInv'
<1> SUFFICES ASSUME TInv, [Next]_vars PROVE TInv'
  OBVIOUS
<1>1. TypeOK /\ SaveShape
  BY DEF TInv
<1>2. CASE Tick
  BY <1>1, <1>2, DistributorAssumption DEF TInv, Tick, TypeOK, SaveShape
<1>3. ASSUME NEW t \in Thread, NEW k \in Task, Stamp(t, k) PROVE TInv'
  BY <1>1, <1>3, StampFacts DEF TInv, Stamp, TypeOK, ThreadState
<1>4. ASSUME NEW t \in Thread, Insert(t) PROVE TInv'
  <2>1. PICK stage \in {"send", "read", "idle"} : Go(t, stage)
    BY <1>4 DEF Insert
  <2>2. thread' \in [Thread -> ThreadState] /\ SaveShape'
    BY <2>1, GoType DEF Stage
  <2>3. [task |-> thread[t].task, ctime |-> thread[t].ctime] \in Row
    BY <1>1, <1>4 DEF SaveShape, Insert, Row
  <2>4. QED
    BY <1>1, <1>4, <2>2, <2>3 DEF TInv, Insert, TypeOK, ThreadState
<1>5. ASSUME NEW t \in Thread, ReadCount(t) PROVE TInv'
  <2> DEFINE new == [thread[t] EXCEPT !.stage = "write", !.seen = writes[WorkerOf[t]]]
  <2>1. thread \in [Thread -> ThreadState] /\ thread[t] \in ThreadState
    BY <1>1 DEF TypeOK, ThreadState
  <2>2. writes[WorkerOf[t]] \in Nat
    BY <1>1, DistributorAssumption DEF TypeOK
  <2>3. new \in ThreadState /\ new.stage = "write"
    BY <2>1, <2>2 DEF ThreadState, Stage
  <2>4. thread' = [thread EXCEPT ![t] = new]
    BY <1>5 DEF ReadCount
  <2> HIDE DEF new
  <2>5. thread' \in [Thread -> ThreadState] /\ SaveShape'
    BY <1>1, <2>1, <2>3, <2>4 DEF SaveShape
  <2>6. QED
    BY <1>1, <1>5, <2>5 DEF TInv, ReadCount, TypeOK, ThreadState
<1>6. ASSUME NEW t \in Thread, WriteCount(t) PROVE TInv'
  <2>1. thread' \in [Thread -> ThreadState] /\ SaveShape'
    BY <1>6, GoType DEF WriteCount, Stage
  <2>2. writes' \in [Worker -> Nat]
    <3>1. thread[t].seen + 1 \in Nat
      BY <1>1 DEF TypeOK
    <3>2. QED
      BY <1>1, <1>6, <3>1 DEF WriteCount, TypeOK
  <2>3. QED
    BY <1>1, <1>6, <2>1, <2>2 DEF TInv, WriteCount, TypeOK, ThreadState
<1>7. ASSUME NEW t \in Thread, CheckCount(t) PROVE TInv'
  <2>1. PICK stage \in {"prune", "send"} : Go(t, stage)
    BY <1>7 DEF CheckCount
  <2>2. thread' \in [Thread -> ThreadState] /\ SaveShape'
    BY <2>1, GoType DEF Stage
  <2>3. QED
    BY <1>1, <1>7, <2>2 DEF TInv, CheckCount, TypeOK, ThreadState
<1>8. ASSUME NEW t \in Thread, Prune(t) PROVE TInv'
  <2>1. thread' \in [Thread -> ThreadState] /\ SaveShape'
    BY <1>8, GoType DEF Prune, Stage
  <2>2. Newest(rows, Retention) \subseteq rows
    BY DEF Newest
  <2>3. QED
    BY <1>1, <1>8, <2>1, <2>2 DEF TInv, Prune, TypeOK, ThreadState
<1>9. ASSUME NEW t \in Thread, ResetCount(t) PROVE TInv'
  <2>1. thread' \in [Thread -> ThreadState] /\ SaveShape'
    BY <1>9, GoType DEF ResetCount, Stage
  <2>2. QED
    BY <1>1, <1>9, <2>1 DEF TInv, ResetCount, TypeOK, ThreadState
<1>10. ASSUME NEW t \in Thread, SendScenario(t) PROVE TInv'
  <2>1. thread' \in [Thread -> ThreadState] /\ SaveShape'
    BY <1>10, GoType DEF SendScenario, Stage
  <2>2. QED
    BY <1>1, <1>10, <2>1 DEF TInv, SendScenario, TypeOK, ThreadState
<1>11. CASE Query
  <2> DEFINE later == {row \in rows : row.ctime > ticket}
  <2>1. PICK result \in Answers(later) :
          \E last \in result : ticket' = last.ctime /\ received' = received \cup result
    BY <1>11 DEF Query
  <2>2. result \subseteq rows
    BY <2>1 DEF Answers
  <2>3. UNCHANGED <<now, file, rows, thread, writes, clearing>>
    BY <1>11 DEF Query
  <2>4. ticket' \in 0..MaxTime /\ received' \subseteq Row
    BY <1>1, <2>1, <2>2 DEF TypeOK, Row
  <2>5. QED
    BY <1>1, <2>3, <2>4 DEF TInv, TypeOK, SaveShape
<1>12. CASE RemoveFile \/ InitDb
  BY <1>1, <1>12 DEF TInv, RemoveFile, InitDb, TypeOK, SaveShape
<1>13. CASE UNCHANGED vars
  BY <1>1, <1>13 DEF TInv, vars, TypeOK, SaveShape
<1>14. QED
  BY <1>2, <1>3, <1>4, <1>5, <1>6, <1>7, <1>8, <1>9, <1>10, <1>11, <1>12, <1>13 DEF Next

\* The table is empty at first and the threads are idle.
LEMMA TypeInit == Init => TInv
<1> SUFFICES ASSUME Init PROVE TInv
  OBVIOUS
<1>1. MaxTime \in Nat \ {0}
  BY DistributorAssumption
<1>2. [stage |-> "idle", task |-> 0, ctime |-> 0, seen |-> 0] \in ThreadState
  BY <1>1 DEF ThreadState, Stage
<1>3. thread \in [Thread -> ThreadState] /\ \A t \in Thread : thread[t].stage = "idle"
  BY <1>2 DEF Init
<1>4. /\ now \in 1..MaxTime /\ file = "ready" /\ rows = {} /\ clearing = FALSE
      /\ ticket \in 0..MaxTime /\ received = {} /\ writes \in [Worker -> Nat]
  BY <1>1 DEF Init
<1>5. QED
  BY <1>3, <1>4 DEF TInv, TypeOK, ThreadState, SaveShape

\* Whatever is saved, read, pruned or cleared, the table holds stamped rows of
\* tasks only (distributor.py:143-172).
THEOREM TypeCorrect == Spec => []TypeOK
<1>1. Init => TInv
  BY TypeInit
<1>2. TInv /\ [Next]_vars => TInv'
  BY TypeStep
<1>3. TInv => TypeOK
  BY DEF TInv
<1>4. QED
  BY <1>1, <1>2, <1>3, PTL DEF Spec

-----------------------------------------------------------------------------
(* Incremental reads with one saving thread.                               *)

\* The thread's next row will be later than every row there is, and than the
\* client's ticket.
Ahead(u) ==
  /\ ticket <= thread[u].ctime
  /\ \A row \in rows : row.ctime <= thread[u].ctime
  /\ thread[u].stage = "save" =>
       /\ ticket < thread[u].ctime
       /\ \A row \in rows : row.ctime < thread[u].ctime

SInv(u) == TInv /\ Ahead(u) /\ IncrementalComplete

\* A step that moves the thread on, and may take rows out.
LEMMA MoveStep ==
  ASSUME NEW u, Thread = {u}, SInv(u), TInv', rows' \subseteq rows,
         UNCHANGED <<ticket, received>>,
         thread'[u].ctime = thread[u].ctime,
         thread'[u].stage = "save" => thread[u].stage = "save"
  PROVE  SInv(u)'
BY DEF SInv, Ahead, IncrementalComplete

\* With one saving thread every step keeps rows and ticket behind its stamp.
LEMMA SerialStep ==
  ASSUME NEW u, Thread = {u}, Limit = 0, SInv(u), [Next]_vars
  PROVE  SInv(u)'
<1>1. TInv /\ TypeOK /\ Ahead(u) /\ IncrementalComplete /\ TInv'
  BY TypeStep DEF SInv, TInv
<1>2. /\ ticket \in Nat /\ now \in Nat /\ thread[u].ctime \in Nat
      /\ \A row \in rows : row.ctime \in Nat
  BY <1>1, DistributorAssumption DEF TypeOK, Row
<1>3. ASSUME NEW k \in Task, Stamp(u, k) PROVE SInv(u)'
  <2>1. thread'[u].stage = "save" /\ thread'[u].ctime = now /\ now > thread[u].ctime
    BY <1>1, <1>3, StampFacts DEF Stamp
  <2>2. UNCHANGED <<rows, ticket, received>>
    BY <1>3 DEF Stamp
  <2>3. QED
    BY <1>1, <1>2, <2>1, <2>2 DEF SInv, Ahead, IncrementalComplete
<1>4. CASE Insert(u)
  <2>1. PICK stage \in {"send", "read", "idle"} : Go(u, stage)
    BY <1>4 DEF Insert
  <2>2. thread'[u].ctime = thread[u].ctime /\ thread'[u].stage # "save"
    BY <1>1, <2>1, GoFacts DEF Stage
  <2>3. UNCHANGED <<ticket, received>>
    BY <1>4 DEF Insert
  <2>4. CASE rows' = rows \cup {[task |-> thread[u].task, ctime |-> thread[u].ctime]}
    <3>1. ticket < thread[u].ctime
      BY <1>1, <1>4 DEF Ahead, Insert
    <3>2. QED
      BY <1>1, <1>2, <2>2, <2>3, <2>4, <3>1 DEF SInv, Ahead, IncrementalComplete
  <2>5. CASE UNCHANGED rows
    BY <1>1, <2>2, <2>3, <2>5, MoveStep
  <2>6. QED
    BY <1>4, <2>4, <2>5 DEF Insert
<1>5. CASE ReadCount(u)
  <2>1. thread[u] \in ThreadState /\ thread \in [Thread -> ThreadState]
    BY <1>1 DEF TypeOK, ThreadState
  <2>2. thread'[u] = [thread[u] EXCEPT !.stage = "write", !.seen = writes[WorkerOf[u]]]
    BY <1>5, <2>1 DEF ReadCount
  <2>3. thread'[u].ctime = thread[u].ctime /\ thread'[u].stage = "write"
    BY <2>1, <2>2 DEF ThreadState
  <2>4. QED
    BY <1>1, <1>5, <2>3, MoveStep DEF ReadCount
<1>6. CASE WriteCount(u) \/ CheckCount(u) \/ Prune(u) \/ ResetCount(u) \/ SendScenario(u)
  <2>1. PICK stage \in {"check", "prune", "send", "reset", "idle"} : Go(u, stage)
    BY <1>6 DEF WriteCount, CheckCount, Prune, ResetCount, SendScenario
  <2>2. thread'[u].ctime = thread[u].ctime /\ thread'[u].stage # "save"
    BY <1>1, <2>1, GoFacts DEF Stage
  <2>3. rows' \subseteq rows /\ UNCHANGED <<ticket, received>>
    BY <1>6 DEF WriteCount, CheckCount, Prune, ResetCount, SendScenario, Newest
  <2>4. QED
    BY <1>1, <2>2, <2>3, MoveStep
<1>7. CASE Query
  <2>0. Answers({row \in rows : row.ctime > ticket}) = {{row \in rows : row.ctime > ticket}}
    BY <1>1 DEF Answers
  <2>1. PICK last \in rows : /\ ticket' = last.ctime
                             /\ received' = received \cup {row \in rows : row.ctime > ticket}
    BY <1>7, <2>0 DEF Query
  <2>2. UNCHANGED <<rows, thread>>
    BY <1>7 DEF Query
  <2>3. QED
    BY <1>1, <1>2, <2>1, <2>2 DEF SInv, Ahead, IncrementalComplete
<1>8. CASE Tick \/ RemoveFile \/ InitDb \/ UNCHANGED vars
  BY <1>1, <1>8, MoveStep DEF Tick, RemoveFile, InitDb, vars
<1>9. QED
  BY <1>3, <1>4, <1>5, <1>6, <1>7, <1>8 DEF Next

\* When one thread saves results and the client asks for all of them, as the
\* backend does (size 0), reading on from the ticket misses no result, whatever
\* is pruned or cleared in between (distributor.py:204-255).
THEOREM SerialReadsComplete ==
  ASSUME NEW CONSTANT u, Thread = {u}, Limit = 0
  PROVE  Spec => []IncrementalComplete
<1>1. Init => SInv(u)
  <2> SUFFICES ASSUME Init PROVE SInv(u)
    OBVIOUS
  <2>1. TInv
    BY TypeInit
  <2>2. rows = {} /\ ticket = 0 /\ thread[u].ctime = 0 /\ thread[u].stage = "idle"
    BY DEF Init
  <2>3. QED
    BY <2>1, <2>2 DEF SInv, Ahead, IncrementalComplete
<1>2. SInv(u) /\ [Next]_vars => SInv(u)'
  BY SerialStep
<1>3. SInv(u) => IncrementalComplete
  BY DEF SInv
<1>4. QED
  BY <1>1, <1>2, <1>3, PTL DEF Spec

-----------------------------------------------------------------------------
(* The bound on the table with one saving thread.                          *)

\* Being newer is a strict total order on rows.
LEMMA NewerOrder ==
  ASSUME NEW a \in Row, NEW b \in Row, NEW c \in Row
  PROVE  /\ ~ Newer(a, a)
         /\ Newer(a, b) /\ Newer(b, c) => Newer(a, c)
         /\ a # b => Newer(a, b) \/ Newer(b, a)
<1>0. ASSUME NEW r \in Row PROVE r.task \in Nat /\ r.ctime \in Nat
  <2>1. r.task \in Task /\ r.ctime \in 1..MaxTime
    BY DEF Row
  <2>2. Task \subseteq Nat /\ 1..MaxTime \subseteq Nat
    BY DistributorAssumption
  <2>3. QED
    BY <2>1, <2>2
<1>1. /\ a.task \in Nat /\ b.task \in Nat /\ c.task \in Nat
      /\ a.ctime \in Nat /\ b.ctime \in Nat /\ c.ctime \in Nat
  BY <1>0
<1>2. a = [task |-> a.task, ctime |-> a.ctime] /\ b = [task |-> b.task, ctime |-> b.ctime]
  BY DEF Row
<1>3. a # b => a.task # b.task \/ a.ctime # b.ctime
  BY <1>2
<1>4. QED
  BY <1>1, <1>3 DEF Newer

\* Of a finite set of rows, one has no other that is older.
LEMMA Oldest ==
  ASSUME NEW set \in SUBSET Row, IsFiniteSet(set), set # {}
  PROVE  \E m \in set : \A y \in set : y # m => Newer(y, m)
<1> DEFINE Older(r) == {x \in set : Newer(r, x)}
           T == {Older(r) : r \in set}
           Order == StrictSubsetOrdering(set)
<1>1. \A r \in set : Older(r) \in FiniteSubsetsOf(set)
  BY FS_Subset DEF FiniteSubsetsOf
<1>2. T \subseteq FiniteSubsetsOf(set) /\ T # {}
  BY <1>1
<1>3. IsWellFoundedOn(Order, FiniteSubsetsOf(set))
  BY FS_StrictSubsetOrderingWellFounded
<1>4. PICK least \in T : \A y \in T : ~ (<<y, least>> \in Order)
  <2> HIDE DEF T, Order
  <2> QED BY <1>2, <1>3, WFMin
<1>5. PICK m \in set : least = Older(m)
  BY <1>4
<1>6. ASSUME NEW y \in set, y # m, Newer(m, y) PROVE FALSE
  <2>1. \A x \in set : Newer(y, x) => Newer(m, x)
    BY <1>6, NewerOrder
  <2>2. Older(y) \subseteq Older(m)
    BY <2>1
  <2>3. y \in Older(m) /\ y \notin Older(y)
    BY <1>6, NewerOrder
  <2>4. <<Older(y), Older(m)>> \in Order
    BY <2>2, <2>3 DEF StrictSubsetOrdering
  <2>5. QED
    BY <1>4, <1>5, <2>4
<1>7. QED
  BY <1>6, NewerOrder

\* Pruning leaves at most as many rows as are to be retained.
LEMMA NewestBound ==
  ASSUME NEW set \in SUBSET Row, IsFiniteSet(set), NEW n \in Nat
  PROVE  IsFiniteSet(Newest(set, n)) /\ Cardinality(Newest(set, n)) <= n
<1> DEFINE kept == Newest(set, n)
<1>1. kept \in SUBSET set /\ kept \in SUBSET Row
  BY DEF Newest
<1>2. IsFiniteSet(kept)
  BY <1>1, FS_Subset
<1>3. CASE kept = {}
  BY <1>3, FS_EmptySet
<1>4. CASE kept # {}
  <2>1. PICK m \in kept : \A y \in kept : y # m => Newer(y, m)
    BY <1>1, <1>2, <1>4, Oldest
  <2> DEFINE above == {x \in set : Newer(x, m)}
  <2>2. IsFiniteSet(above) /\ Cardinality(above) \in Nat
    BY FS_Subset, FS_CardinalityType
  <2>3. Cardinality(above) < n
    BY <2>1 DEF Newest
  <2>4. kept \ {m} \in SUBSET above
    BY <1>1, <2>1
  <2>5. Cardinality(kept \ {m}) <= Cardinality(above)
    BY <2>2, <2>4, FS_Subset
  <2>6. Cardinality(kept \ {m}) = Cardinality(kept) - 1
    BY <1>2, <2>1, FS_RemoveElement
  <2>7. Cardinality(kept) \in Nat
    BY <1>2, FS_CardinalityType
  <2>8. QED
    BY <1>2, <2>2, <2>3, <2>5, <2>6, <2>7
<1>5. QED
  BY <1>3, <1>4

\* How far the table is from the next pruning: every row beyond what was kept
\* is counted, or about to be counted, by the thread.
Room(u, w) ==
  LET size == Cardinality(rows)
      stage == thread[u].stage
  IN  /\ stage \in {"idle", "save", "send"} =>
            writes[w] < PruneInterval /\ size <= Retention + writes[w]
      /\ stage \in {"read", "write"} =>
            writes[w] < PruneInterval /\ size <= Retention + writes[w] + 1
      /\ stage = "write" => thread[u].seen = writes[w]
      /\ stage \in {"check", "prune"} =>
            writes[w] <= PruneInterval /\ size <= Retention + writes[w]
      /\ stage = "reset" => size <= Retention

\* Without its table the database holds no row.
RInv(u, w) ==
  TInv /\ IsFiniteSet(rows) /\ (file # "ready" => rows = {}) /\ Room(u, w)

\* With one saving thread every step keeps the rows within what was counted.
LEMMA RoomStep ==
  ASSUME NEW u, NEW w, Thread = {u}, Worker = {w}, Retention > 0,
         RInv(u, w), [Next]_vars
  PROVE  RInv(u, w)'
<1> DEFINE size == Cardinality(rows)
<1>1. TInv /\ TypeOK /\ TInv' /\ Room(u, w) /\ IsFiniteSet(rows)
  BY TypeStep DEF RInv, TInv
<1>2. /\ writes \in [Worker -> Nat] /\ writes[w] \in Nat /\ WorkerOf[u] = w
      /\ Retention \in Nat /\ PruneInterval \in Nat \ {0}
      /\ rows \subseteq Row /\ size \in Nat /\ thread[u].stage \in Stage
  BY <1>1, FS_CardinalityType, DistributorAssumption DEF TypeOK, ThreadState
<1>3. CASE UNCHANGED <<file, rows, writes, thread>>
  BY <1>1, <1>3 DEF RInv, Room
<1>4. ASSUME NEW k \in Task, Stamp(u, k) PROVE RInv(u, w)'
  <2>1. thread'[u].stage = "save"
    BY <1>1, <1>4, StampFacts
  <2>2. UNCHANGED <<file, rows, writes>> /\ thread[u].stage = "idle"
    BY <1>4 DEF Stamp
  <2>3. QED
    BY <1>1, <2>1, <2>2 DEF RInv, Room
<1>5. CASE Insert(u)
  <2>1. thread[u].stage = "save" /\ UNCHANGED writes
    BY <1>5 DEF Insert
  <2>2. CASE Go(u, "read")
    <3>1. thread'[u].stage = "read"
      BY <1>1, <2>2, GoFacts DEF Stage
    <3>2. file = "ready" /\ UNCHANGED file
          /\ rows' = rows \cup {[task |-> thread[u].task, ctime |-> thread[u].ctime]}
      BY <1>1, <1>5, <3>1, GoFacts DEF Insert, Stage
    <3>3. IsFiniteSet(rows') /\ Cardinality(rows') <= size + 1
      <4>1. PICK row : rows' = rows \cup {row}
        BY <3>2
      <4>2. /\ IsFiniteSet(rows \cup {row})
            /\ Cardinality(rows \cup {row}) = IF row \in rows THEN size ELSE size + 1
        BY <1>1, FS_AddElement
      <4>3. QED
        BY <1>2, <4>1, <4>2
    <3>4. Cardinality(rows') \in Nat
      BY <3>3, FS_CardinalityType
    <3>5. QED
      BY <1>1, <1>2, <2>1, <3>1, <3>2, <3>3, <3>4 DEF RInv, Room
  <2>3. CASE Go(u, "send") \/ Go(u, "idle")
    <3>1. thread'[u].stage \in {"send", "idle"}
      BY <1>1, <2>3, GoFacts DEF Stage
    <3>2. UNCHANGED rows /\ (file' = "ready" => file = "ready")
      BY <1>1, <1>5, <3>1, GoFacts DEF Insert, Stage
    <3>3. file' # "ready" => rows' = {}
      BY <1>5, <3>1, <3>2, <1>1, GoFacts DEF RInv, Insert, Stage
    <3>4. QED
      BY <1>1, <1>2, <2>1, <3>1, <3>2, <3>3 DEF RInv, Room
  <2>4. QED
    BY <1>5, <2>2, <2>3 DEF Insert
<1>6. CASE ReadCount(u)
  <2>1. thread[u] \in ThreadState /\ thread \in [Thread -> ThreadState]
    BY <1>1 DEF TypeOK, ThreadState
  <2>2. thread'[u] = [thread[u] EXCEPT !.stage = "write", !.seen = writes[w]]
    BY <1>2, <1>6, <2>1 DEF ReadCount
  <2>3. thread'[u].stage = "write" /\ thread'[u].seen = writes[w]
    BY <2>1, <2>2 DEF ThreadState
  <2>4. UNCHANGED <<file, rows, writes>> /\ thread[u].stage = "read"
    BY <1>6 DEF ReadCount
  <2>5. QED
    BY <1>1, <2>3, <2>4 DEF RInv, Room
<1>7. CASE WriteCount(u)
  <2>1. thread'[u].stage = "check"
    BY <1>1, <1>7, GoFacts DEF WriteCount, Stage
  <2>2. thread[u].stage = "write" /\ writes'[w] = thread[u].seen + 1
    BY <1>2, <1>7 DEF WriteCount
  <2>3. UNCHANGED <<file, rows>>
    BY <1>7 DEF WriteCount
  <2>4. QED
    BY <1>1, <1>2, <2>1, <2>2, <2>3 DEF RInv, Room
<1>8. CASE CheckCount(u)
  <2>1. thread'[u].stage = IF writes[w] >= PruneInterval THEN "prune" ELSE "send"
    BY <1>1, <1>2, <1>8, GoFacts DEF CheckCount, Stage
  <2>2. thread[u].stage = "check" /\ UNCHANGED <<file, rows, writes>>
    BY <1>8 DEF CheckCount
  <2>3. QED
    BY <1>1, <1>2, <2>1, <2>2 DEF RInv, Room
<1>9. CASE Prune(u)
  <2>1. thread'[u].stage = "reset"
    BY <1>1, <1>9, GoFacts DEF Prune, Stage
  <2>2. /\ file = "ready" => rows' = Newest(rows, Retention) /\ file' = file
        /\ file # "ready" => rows' = rows /\ rows = {}
    BY <1>9 DEF Prune, RInv
  <2>3. IsFiniteSet(rows') /\ Cardinality(rows') <= Retention
    BY <1>1, <1>2, <2>2, NewestBound, FS_EmptySet
  <2>4. file' # "ready" => rows' = {}
    BY <1>9, <2>2
  <2>5. QED
    BY <1>1, <2>1, <2>3, <2>4 DEF RInv, Room
<1>10. CASE ResetCount(u)
  <2>1. thread'[u].stage = "send"
    BY <1>1, <1>10, GoFacts DEF ResetCount, Stage
  <2>2. thread[u].stage = "reset" /\ writes'[w] = 0 /\ UNCHANGED <<file, rows>>
    BY <1>2, <1>10 DEF ResetCount
  <2>3. QED
    BY <1>1, <1>2, <2>1, <2>2 DEF RInv, Room
<1>11. CASE SendScenario(u)
  <2>1. thread'[u].stage = "idle"
    BY <1>1, <1>11, GoFacts DEF SendScenario, Stage
  <2>2. thread[u].stage = "send" /\ UNCHANGED <<file, rows, writes>>
    BY <1>11 DEF SendScenario
  <2>3. QED
    BY <1>1, <2>1, <2>2 DEF RInv, Room
<1>12. CASE RemoveFile
  <2>1. rows' = {} /\ UNCHANGED <<thread, writes>>
    BY <1>12 DEF RemoveFile
  <2>2. IsFiniteSet(rows') /\ Cardinality(rows') = 0
    BY <2>1, FS_EmptySet
  <2>3. QED
    BY <1>1, <1>2, <2>1, <2>2 DEF RInv, Room
<1>13. CASE InitDb
  BY <1>1, <1>13 DEF InitDb, RInv, Room
<1>14. CASE Tick \/ Query \/ UNCHANGED vars
  BY <1>3, <1>14 DEF Tick, Query, vars
<1>15. QED
  BY <1>4, <1>5, <1>6, <1>7, <1>8, <1>9, <1>10, <1>11, <1>12, <1>13, <1>14 DEF Next

\* With one saving thread the table never holds more rows than are retained and
\* than are written between two prunings, for any retention, any interval and
\* however the database is cleared meanwhile (distributor.py:169-172, 398-420).
THEOREM SerialTableBounded ==
  ASSUME NEW CONSTANT u, NEW CONSTANT w, Thread = {u}, Worker = {w}
  PROVE  Spec => []RetentionBound
<1>1. CASE Retention = 0
  <2>1. RetentionBound
    BY <1>1 DEF RetentionBound
  <2>2. QED
    BY <2>1, PTL DEF Spec
<1>2. CASE Retention > 0
  <2>1. Init => RInv(u, w)
    <3> SUFFICES ASSUME Init PROVE RInv(u, w)
      OBVIOUS
    <3>1. TInv
      BY TypeInit
    <3>2. rows = {} /\ thread[u].stage = "idle" /\ writes[w] = 0
      BY DEF Init
    <3>3. IsFiniteSet(rows) /\ Cardinality(rows) = 0
      BY <3>2, FS_EmptySet
    <3>4. QED
      BY <3>1, <3>2, <3>3, DistributorAssumption DEF RInv, Room
  <2>2. RInv(u, w) /\ [Next]_vars => RInv(u, w)'
    BY <1>2, RoomStep
  <2>3. RInv(u, w) => RetentionBound
    <3> SUFFICES ASSUME RInv(u, w) PROVE RetentionBound
      OBVIOUS
    <3>1. Cardinality(rows) <= Retention + PruneInterval
      <4>1. /\ writes[w] \in Nat /\ Cardinality(rows) \in Nat /\ thread[u].stage \in Stage
            /\ Retention \in Nat /\ PruneInterval \in Nat \ {0}
        BY FS_CardinalityType, DistributorAssumption DEF RInv, TInv, TypeOK
      <4>2. QED
        BY <4>1 DEF RInv, Room, Stage
    <3>2. Cardinality(Worker) * PruneInterval = PruneInterval
      <4>1. Cardinality(Worker) = 1
        BY FS_Singleton
      <4>2. QED
        BY <4>1, DistributorAssumption
    <3>3. QED
      BY <3>1, <3>2 DEF RetentionBound
  <2>4. QED
    BY <2>1, <2>2, <2>3, PTL DEF Spec
<1>3. QED
  BY <1>1, <1>2, DistributorAssumption
=============================================================================
