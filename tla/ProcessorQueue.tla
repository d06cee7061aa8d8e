--------------------------- MODULE ProcessorQueue ---------------------------
(***************************************************************************)
(* The task queue of one processor (core/processor/processor_server.py     *)
(* with core/lib/algorithms/task_queue): background threads put tasks, one *)
(* loop takes and processes them, and controllers may have the queue       *)
(* cleared.  put, get and drain run under the queue's lock; the loop's     *)
(* look at empty() does not, so others come in between.                    *)
(*                                                                         *)
(* A task stands for its place in the order of puts: 1 is put first.       *)
(***************************************************************************)
EXTENDS Naturals, Sequences, Functions

CONSTANTS
  Limited,      \* PRO_QUEUE_NAME: "limit" if TRUE, "simple" if FALSE
  MaxSize,      \* LimitQueue.max_size
  ClearLimits,  \* the max_count of clear requests, 0 for None
  MaxPuts       \* bound: tasks received

ASSUME QueueAssumption ==
  /\ Limited \in BOOLEAN
  /\ MaxSize \in Nat
  /\ ClearLimits \subseteq Nat
  /\ MaxPuts \in Nat

VARIABLES
  count,    \* tasks put so far
  queue,    \* self._queue
  loop,     \* loop_process: "idle", "got" past the look at empty(), or "busy"
  current,  \* the task the loop is busy with, 0 for none
  ended,    \* history: tasks processed, whether or not that failed
  dropped,  \* history: tasks a put of the full queue threw away
  cleared   \* history: tasks reported as dropped by clear_queue

vars == <<count, queue, loop, current, ended, dropped, cleared>>

First(s, n) == SubSeq(s, 1, n)
Rest(s, n) == SubSeq(s, n + 1, Len(s))
AtMost(n, m) == IF n < m THEN n ELSE m

-----------------------------------------------------------------------------
Init ==
  /\ count = 0
  /\ queue = <<>>
  /\ loop = "idle"
  /\ current = 0
  /\ ended = {} /\ dropped = {} /\ cleared = {}

\* Mutant: half of the limit is thrown away, whatever waits.
OverflowOfLimit == IF Limited /\ Len(queue) > MaxSize THEN MaxSize \div 2 ELSE 0

\* How many of the oldest tasks a put throws away first.  Half of one is none.
Overflow == IF Limited /\ Len(queue) >= MaxSize THEN Len(queue) \div 2 ELSE 0

\* process_service_background and process_local_service_background.
Put ==
  /\ count < MaxPuts
  /\ count' = count + 1
  /\ queue' = Append(Rest(queue, Overflow), count + 1)
  /\ dropped' = dropped \cup Range(First(queue, Overflow))
  /\ UNCHANGED <<loop, current, ended, cleared>>

\* Mutant: the loop wakes up for more than one task.
LookForMore ==
  /\ loop = "idle" /\ Len(queue) > 1
  /\ loop' = "got"
  /\ UNCHANGED <<count, queue, current, ended, dropped, cleared>>

\* loop_process looks whether anything waits.
Look ==
  /\ loop = "idle" /\ queue # <<>>
  /\ loop' = "got"
  /\ UNCHANGED <<count, queue, current, ended, dropped, cleared>>

\* Mutant: the task stays at the head of the queue while it is processed.
GetPeek ==
  /\ loop = "got"
  /\ IF queue = <<>>
     THEN loop' = "idle" /\ UNCHANGED current
     ELSE loop' = "busy" /\ current' = Head(queue)
  /\ UNCHANGED <<count, queue, ended, dropped, cleared>>

\* Mutant: the newest task first.
GetNewest ==
  /\ loop = "got"
  /\ IF queue = <<>>
     THEN loop' = "idle" /\ UNCHANGED <<queue, current>>
     ELSE /\ loop' = "busy"
          /\ current' = queue[Len(queue)]
          /\ queue' = First(queue, Len(queue) - 1)
  /\ UNCHANGED <<count, ended, dropped, cleared>>

\* It takes the oldest task, or None when the queue has been cleared meanwhile.
Get ==
  /\ loop = "got"
  /\ IF queue = <<>>
     THEN loop' = "idle" /\ UNCHANGED <<queue, current>>
     ELSE loop' = "busy" /\ current' = Head(queue) /\ queue' = Tail(queue)
  /\ UNCHANGED <<count, ended, dropped, cleared>>

\* process_task_service returns or raises, and the loop goes on either way.
Finish ==
  /\ loop = "busy"
  /\ loop' = "idle"
  /\ ended' = ended \cup {current}
  /\ current' = 0
  /\ UNCHANGED <<count, queue, dropped, cleared>>

\* clear_queue drains at most max_count of the oldest tasks, and reports them.
\* A dry run looks at the same tasks and changes nothing.
Clear(limit) ==
  LET n == IF limit = 0 THEN Len(queue) ELSE AtMost(limit, Len(queue))
  IN  /\ queue' = Rest(queue, n)
      /\ cleared' = cleared \cup Range(First(queue, n))
      /\ UNCHANGED <<count, loop, current, ended, dropped>>

Next ==
  \/ Put
  \/ Look
  \/ Get
  \/ Finish
  \/ \E limit \in ClearLimits : Clear(limit)

Spec == Init /\ [][Next]_vars

\* The loop has a thread of its own, and processing a task comes to an end.
FairSpec == Spec /\ WF_vars(Look \/ Get \/ Finish)

-----------------------------------------------------------------------------
\* Every variable keeps its type, and the loop is busy with a task or with none.
TypeOK ==
  /\ count \in 0..MaxPuts
  /\ queue \in Seq(Nat)
  /\ loop \in {"idle", "got", "busy"}
  /\ current \in 0..count
  /\ loop = "busy" <=> current # 0
  /\ ended \subseteq 1..count
  /\ dropped \subseteq 1..count
  /\ cleared \subseteq 1..count

\* Every task received is in exactly one place: it waits, is being processed,
\* has been, was dropped by a full queue, or was cleared.  In particular a
\* task reported as cleared never runs ("queued, not-yet-running tasks",
\* controller.py:54), and none runs twice.
Conserved ==
  /\ Range(queue) \cup ({current} \ {0}) \cup ended \cup dropped \cup cleared = 1..count
  /\ \A t \in 1..count :
       /\ t \in Range(queue) => t # current
       /\ t \in Range(queue) \cup {current} => t \notin ended \cup dropped \cup cleared
       /\ t \in ended => t \notin dropped \cup cleared
       /\ t \in dropped => t \notin cleared

\* A limited queue holds max_size tasks at most, or two if max_size is smaller:
\* half of one dropped task is none (limit_queue.py:25).
SizeBound == Limited => Len(queue) <= MaxSize \/ Len(queue) <= 2

\* Tasks leave in the order they came: what waits is newer than whatever has
\* been taken, dropped or cleared, and the oldest waits at the head.
FirstInFirstOut ==
  /\ \A i, j \in 1..Len(queue) : i < j => queue[i] < queue[j]
  /\ \A i \in 1..Len(queue) :
       \A t \in {current} \cup ended \cup dropped \cup cleared : t < queue[i]

\* Whatever is put does not wait for ever.
Leaves == \A t \in 1..MaxPuts : t \in Range(queue) ~> t \notin Range(queue)

=============================================================================
