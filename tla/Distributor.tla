---------------------------- MODULE Distributor ----------------------------
(***************************************************************************)
(* The result store of core/distributor/distributor.py: background threads *)
(* of several server processes save results into one SQLite file, a client *)
(* reads them incrementally by time ticket, old rows are pruned, and the   *)
(* database can be cleared while all of this goes on.                      *)
(***************************************************************************)
EXTENDS Naturals, FiniteSets

CONSTANTS
  Task,           \* the (source_id, task_id) pairs, numbered in key order
  Worker,         \* server processes (gunicorn.conf.py: workers = 4)
  Thread,         \* threads that run distribute_data_background
  WorkerOf,       \* the process of each thread
  Retention,      \* RESULT_LOG_RETENTION_RECORDS, 0 keeps everything
  PruneInterval,  \* RESULT_LOG_RETENTION_PRUNE_INTERVAL
  Limit,          \* the size the client asks for, 0 for all
  MayClear,       \* whether clear_database is called
  MaxTime         \* bound: clock readings

ASSUME DistributorAssumption ==
  /\ Task \subseteq Nat
  /\ WorkerOf \in [Thread -> Worker]
  /\ Retention \in Nat /\ PruneInterval \in Nat \ {0} /\ Limit \in Nat
  /\ MayClear \in BOOLEAN
  /\ MaxTime \in Nat \ {0}

VARIABLES
  now,       \* the clock, in units of datetime.now()
  file,      \* record_path: "absent", "empty" (no table yet) or "ready"
  rows,      \* the records table: [task, ctime]
  thread,    \* what each thread is doing
  writes,    \* _writes_since_prune of each process
  clearing,  \* clear_database has removed the file and not yet made a new one
  ticket,    \* the client's time_ticket
  received   \* rows the client has been sent

vars == <<now, file, rows, thread, writes, clearing, ticket, received>>

Row == [task : Task, ctime : 1..MaxTime]

\* save: stamped, about to insert; read, write: += 1 on the counter;
\* check: compares it; prune, reset: pruning; send: scenario to the scheduler
Stage == {"idle", "save", "read", "write", "check", "prune", "reset", "send"}

Go(t, stage) == thread' = [thread EXCEPT ![t].stage = stage]

-----------------------------------------------------------------------------
Init ==
  /\ now = 1
  /\ file = "ready"
  /\ rows = {}
  /\ thread = [t \in Thread |-> [stage |-> "idle", task |-> 0, ctime |-> 0, seen |-> 0]]
  /\ writes = [w \in Worker |-> 0]
  /\ clearing = FALSE
  /\ ticket = 0
  /\ received = {}

Tick ==
  /\ now < MaxTime
  /\ now' = now + 1
  /\ UNCHANGED <<file, rows, thread, writes, clearing, ticket, received>>

\* save_task_record up to the connection: the row's ctime is read here.  Two
\* threads may read the same time, one thread does not twice.
Stamp(t, k) ==
  /\ thread[t].stage = "idle"
  /\ now > thread[t].ctime
  /\ thread' = [thread EXCEPT ![t] =
                  [@ EXCEPT !.stage = "save", !.task = k, !.ctime = now]]
  /\ UNCHANGED <<now, file, rows, writes, clearing, ticket, received>>

\* The INSERT transaction.  A key that is there already is a Task Name
\* Conflict; without the table the OperationalError ends the background task,
\* and connecting has created the file.
Insert(t) ==
  /\ thread[t].stage = "save"
  /\ \/ /\ file = "ready"
        /\ \E row \in rows : row.task = thread[t].task
        /\ Go(t, "send")
        /\ UNCHANGED <<file, rows>>
     \/ /\ file = "ready"
        /\ \A row \in rows : row.task # thread[t].task
        /\ rows' = rows \cup {[task |-> thread[t].task, ctime |-> thread[t].ctime]}
        /\ Go(t, "read")
        /\ UNCHANGED file
     \/ /\ file # "ready"
        /\ file' = "empty"
        /\ Go(t, "idle")
        /\ UNCHANGED rows
  /\ UNCHANGED <<now, writes, clearing, ticket, received>>

\* self._writes_since_prune += 1, which other threads of the process may split.
ReadCount(t) ==
  /\ thread[t].stage = "read"
  /\ thread' = [thread EXCEPT ![t] =
                  [@ EXCEPT !.stage = "write", !.seen = writes[WorkerOf[t]]]]
  /\ UNCHANGED <<now, file, rows, writes, clearing, ticket, received>>

WriteCount(t) ==
  /\ thread[t].stage = "write"
  /\ writes' = [writes EXCEPT ![WorkerOf[t]] = thread[t].seen + 1]
  /\ Go(t, "check")
  /\ UNCHANGED <<now, file, rows, clearing, ticket, received>>

CheckCount(t) ==
  /\ thread[t].stage = "check"
  /\ Go(t, IF Retention > 0 /\ writes[WorkerOf[t]] >= PruneInterval
           THEN "prune" ELSE "send")
  /\ UNCHANGED <<now, file, rows, writes, clearing, ticket, received>>

Newer(a, b) == a.ctime > b.ctime \/ (a.ctime = b.ctime /\ a.task > b.task)

\* The n newest rows of a set of rows.
Newest(set, n) == {row \in set : Cardinality({x \in set : Newer(x, row)}) < n}

\* Mutant: one row more than the retention is kept.
PruneKeepsOneMore(t) ==
  /\ thread[t].stage = "prune"
  /\ IF file = "ready" THEN rows' = Newest(rows, Retention + 1) /\ UNCHANGED file
                       ELSE file' = "empty" /\ UNCHANGED rows
  /\ Go(t, "reset")
  /\ UNCHANGED <<now, writes, clearing, ticket, received>>

\* _prune_old_records: errors are logged and swallowed.
Prune(t) ==
  /\ thread[t].stage = "prune"
  /\ IF file = "ready" THEN rows' = Newest(rows, Retention) /\ UNCHANGED file
                       ELSE file' = "empty" /\ UNCHANGED rows
  /\ Go(t, "reset")
  /\ UNCHANGED <<now, writes, clearing, ticket, received>>

ResetCount(t) ==
  /\ thread[t].stage = "reset"
  /\ writes' = [writes EXCEPT ![WorkerOf[t]] = 0]
  /\ Go(t, "send")
  /\ UNCHANGED <<now, file, rows, clearing, ticket, received>>

\* send_scenario_to_scheduler, whose outcome nothing here depends on.
SendScenario(t) ==
  /\ thread[t].stage = "send"
  /\ Go(t, "idle")
  /\ UNCHANGED <<now, file, rows, writes, clearing, ticket, received>>

\* Mutant: the new ticket is the time of the query.
QueryTime ==
  /\ file = "ready"
  /\ ticket' = now
  /\ received' = received \cup {row \in rows : row.ctime > ticket}
  /\ UNCHANGED <<now, file, rows, thread, writes, clearing>>

\* The rows query_result may answer with: all of later, or Limit of the newest,
\* rows of the same time in no set order.
Answers(later) ==
  IF Limit = 0 \/ Cardinality(later) <= Limit THEN {later}
  ELSE {part \in SUBSET later :
          /\ Cardinality(part) = Limit
          /\ \A a \in part, b \in later \ part : b.ctime <= a.ctime}

\* query_result with the client's ticket: the new ticket is the time of the last
\* row returned; a failed or empty request changes nothing.
Query ==
  /\ file = "ready"
  /\ \E result \in Answers({row \in rows : row.ctime > ticket}) : \E last \in result :
       /\ \A row \in result : row.ctime <= last.ctime
       /\ ticket' = last.ctime
       /\ received' = received \cup result
  /\ UNCHANGED <<now, file, rows, thread, writes, clearing>>

\* clear_database removes the file, then _init_db creates the table again.
RemoveFile ==
  /\ MayClear /\ ~clearing
  /\ clearing' = TRUE
  /\ file' = "absent"
  /\ rows' = {}
  /\ UNCHANGED <<now, thread, writes, ticket, received>>

InitDb ==
  /\ clearing
  /\ clearing' = FALSE
  /\ file' = "ready"
  /\ UNCHANGED <<now, rows, thread, writes, ticket, received>>

Next ==
  \/ Tick
  \/ \E t \in Thread :
       \/ \E k \in Task : Stamp(t, k)
       \/ Insert(t)
       \/ ReadCount(t) \/ WriteCount(t) \/ CheckCount(t)
       \/ Prune(t) \/ ResetCount(t)
       \/ SendScenario(t)
  \/ Query
  \/ RemoveFile
  \/ InitDb

Spec == Init /\ [][Next]_vars

-----------------------------------------------------------------------------
\* Every variable keeps its type; ctimes are readings of the clock.
TypeOK ==
  /\ now \in 1..MaxTime
  /\ file \in {"absent", "empty", "ready"}
  /\ rows \subseteq Row
  /\ thread \in [Thread -> [stage : Stage, task : Task \cup {0}, ctime : 0..MaxTime, seen : Nat]]
  /\ writes \in [Worker -> Nat]
  /\ clearing \in BOOLEAN
  /\ ticket \in 0..MaxTime
  /\ received \subseteq Row

\* A client that reads on from the ticket it got misses no result: the reads
\* are "driven solely by time_ticket" (distributor.py:21).
IncrementalComplete ==
  \A row \in rows : row.ctime <= ticket => row \in received

\* Stale rows are pruned "every N writes" (distributor.py:33): the table never
\* exceeds what is retained by more than each process may write meanwhile.
RetentionBound ==
  Retention > 0 => Cardinality(rows) <= Retention + Cardinality(Worker) * PruneInterval
=============================================================================
