---------------------------- MODULE QuerySession ----------------------------
(***************************************************************************)
(* The results page: how the backend (backend_core.py, backend_server.py)  *)
(* polls the distributor for results while a datasource is open and hands  *)
(* them to the page.  Handlers run one at a time in the event loop; each   *)
(* submit_query starts a polling thread, and nothing waits for the thread  *)
(* of the query before.                                                    *)
(*                                                                         *)
(* Results are numbered in the order of their ctime, so a time ticket is   *)
(* the number of the last result it covers.                                *)
(***************************************************************************)
EXTENDS Naturals, Sequences, FiniteSets

CONSTANTS
  Source,       \* sources of the datasource
  SourceOf,     \* the source of each result
  QueueSize,    \* items kept for each source, 20 in the code
  MaxSessions,  \* bound: queries submitted
  MaxResults,   \* bound: results stored
  MaxFaults     \* bound: requests to the distributor that fail

ASSUME QueryAssumption ==
  /\ QueueSize \in Nat \ {0} /\ MaxSessions \in Nat
  /\ MaxResults \in Nat /\ MaxFaults \in Nat
  /\ SourceOf \in [1..MaxResults -> Source]

VARIABLES
  stored,   \* results in the distributor
  open,     \* source_open
  polling,  \* is_get_result
  queues,   \* task_results, empty or with a queue for every source
  session,  \* queries submitted so far; each makes new queues
  handler,  \* what the event loop does: "idle", "starting" a query, "reading"
  unread,   \* sources get_task_result has still to drain
  poller,   \* the polling threads, one of each query
  faults,   \* faults so far
  shown,    \* history: results handed to the page in this query
  evicted,  \* history: results dropped from a full queue in this query
  crowded   \* history: a thread of an earlier query takes part in this one

vars == <<stored, open, polling, queues, session, handler, unread, poller,
          faults, shown, evicted, crowded>>

Poller == 1..MaxSessions
Live == {p \in Poller : poller[p].pc \notin {"new", "gone"}}

\* look: about to test is_get_result; ask: about to request results; parse to
\* put: handling the result `next` of those up to `ticket`, with the queue of
\* one query in hand (evict, put)
Pc == {"new", "look", "ask", "parse", "find", "evict", "put", "gone"}

Present == DOMAIN queues = Source
NoQueues == [s \in {} |-> <<>>]
Go(p, pc) == poller' = [poller EXCEPT ![p].pc = pc]
SourceIn(p) == SourceOf[poller[p].next]

-----------------------------------------------------------------------------
Init ==
  /\ stored = 0
  /\ open = FALSE /\ polling = FALSE
  /\ queues = NoQueues
  /\ session = 0
  /\ handler = "idle" /\ unread = {}
  /\ poller = [p \in Poller |-> [pc |-> "new", ticket |-> 0, next |-> 1, queue |-> 0]]
  /\ faults = 0
  /\ shown = [s \in Source |-> <<>>]
  /\ evicted = {}
  /\ crowded = FALSE

\* The distributor saves a result.
Store ==
  /\ stored < MaxResults
  /\ stored' = stored + 1
  /\ UNCHANGED <<open, polling, queues, session, handler, unread, poller, faults,
                 shown, evicted, crowded>>

(* Handlers.  The page opens a datasource only when none is open            *)
(* (DataConfig.vue:100).                                                    *)

\* submit_query: it sleeps between this step and the next.
Submit ==
  /\ handler = "idle" /\ ~open /\ session < MaxSessions
  /\ open' = TRUE
  /\ session' = session + 1
  /\ queues' = [s \in Source |-> <<>>]
  /\ handler' = "starting"
  /\ shown' = [s \in Source |-> <<>>]
  /\ evicted' = {}
  /\ crowded' = FALSE
  /\ UNCHANGED <<stored, polling, unread, poller, faults>>

StartPoller ==
  /\ handler = "starting"
  /\ polling' = TRUE
  /\ Go(session, "look")
  /\ handler' = "idle"
  /\ crowded' = (crowded \/ Live # {})
  /\ UNCHANGED <<stored, open, queues, session, unread, faults, shown, evicted>>

\* Mutant: the polling thread is not told.
StopSilently ==
  /\ handler = "idle"
  /\ open' = FALSE
  /\ queues' = NoQueues
  /\ UNCHANGED <<stored, polling, session, handler, unread, poller, faults, shown,
                 evicted, crowded>>

\* stop_query, also called by uninstall_service whether or not one is open.
Stop ==
  /\ handler = "idle"
  /\ open' = FALSE /\ polling' = FALSE
  /\ queues' = NoQueues
  /\ UNCHANGED <<stored, session, handler, unread, poller, faults, shown, evicted, crowded>>

\* reset_datasource leaves the polling thread and the queues behind.
Reset ==
  /\ handler = "idle"
  /\ open' = FALSE
  /\ UNCHANGED <<stored, polling, queues, session, handler, unread, poller, faults,
                 shown, evicted, crowded>>

\* get_task_result drains the queues one by one, item by item, while polling
\* threads fill them.
Read ==
  /\ handler = "idle" /\ open
  /\ handler' = "reading"
  /\ unread' = Source
  /\ UNCHANGED <<stored, open, polling, queues, session, poller, faults, shown,
                 evicted, crowded>>

Drain(s) ==
  /\ handler = "reading" /\ s \in unread
  /\ IF queues[s] = <<>>
     THEN unread' = unread \ {s} /\ UNCHANGED <<queues, shown>>
     ELSE /\ queues' = [queues EXCEPT ![s] = Tail(@)]
          /\ shown' = [shown EXCEPT ![s] = Append(@, Head(queues[s]))]
          /\ UNCHANGED unread
  /\ UNCHANGED <<stored, open, polling, session, handler, poller, faults, evicted, crowded>>

Respond ==
  /\ handler = "reading" /\ unread = {}
  /\ handler' = "idle"
  /\ UNCHANGED <<stored, open, polling, queues, session, unread, poller, faults,
                 shown, evicted, crowded>>

-----------------------------------------------------------------------------
(* run_get_result.                                                          *)

Look(p) ==
  /\ poller[p].pc = "look"
  /\ Go(p, IF polling THEN "ask" ELSE "gone")
  /\ UNCHANGED <<stored, open, polling, queues, session, handler, unread, faults,
                 shown, evicted, crowded>>

\* Mutant: the ticket stays where it was.
AskAgain(p) ==
  /\ poller[p].pc = "ask"
  /\ poller' = [poller EXCEPT ![p].pc = "parse", ![p].ticket = stored, ![p].next = 1]
  /\ UNCHANGED <<stored, open, polling, queues, session, handler, unread, faults,
                 shown, evicted, crowded>>

\* Mutant: no response moves the ticket on all the same.
AskOnce(p) ==
  /\ poller[p].pc = "ask"
  /\ \/ /\ poller' = [poller EXCEPT ![p].pc = "parse", ![p].ticket = stored]
        /\ UNCHANGED faults
     \/ /\ faults < MaxFaults /\ faults' = faults + 1
        /\ poller' = [poller EXCEPT ![p].pc = "look", ![p].ticket = stored,
                                    ![p].next = stored + 1]
  /\ UNCHANGED <<stored, open, polling, queues, session, handler, unread, shown,
                 evicted, crowded>>

\* The request, for everything after the ticket, which is advanced at once; or
\* no response.  It may take as long as the next step.
Ask(p) ==
  /\ poller[p].pc = "ask"
  /\ \/ /\ poller' = [poller EXCEPT ![p].pc = "parse", ![p].ticket = stored]
        /\ UNCHANGED faults
     \/ /\ faults < MaxFaults /\ faults' = faults + 1
        /\ Go(p, "look")
  /\ UNCHANGED <<stored, open, polling, queues, session, handler, unread, shown,
                 evicted, crowded>>

\* Results that are not delivered are not asked for again.
Abandon(p) ==
  poller' = [poller EXCEPT ![p].pc = "look", ![p].next = poller[p].ticket + 1]

\* parse_task_result looks at source_open for every result.
Parse(p) ==
  /\ poller[p].pc = "parse"
  /\ IF poller[p].next > poller[p].ticket THEN Go(p, "look")
     ELSE IF open THEN Go(p, "find") ELSE Abandon(p)
  /\ UNCHANGED <<stored, open, polling, queues, session, handler, unread, faults,
                 shown, evicted, crowded>>

\* Mutant: no room is made in a full queue.
FindOnly(p) ==
  /\ poller[p].pc = "find"
  /\ IF Present
     THEN /\ poller' = [poller EXCEPT ![p].queue = session, ![p].pc = "put"]
          /\ crowded' = (crowded \/ p # session)
     ELSE Abandon(p) /\ UNCHANGED crowded
  /\ UNCHANGED <<stored, open, polling, queues, session, handler, unread, faults,
                 shown, evicted>>

\* The queue is looked up and Queue.put entered.  If the query has been stopped
\* a KeyError ends the batch.
Find(p) ==
  /\ poller[p].pc = "find"
  /\ IF Present
     THEN /\ poller' = [poller EXCEPT ![p].queue = session,
                ![p].pc = IF Len(queues[SourceIn(p)]) = QueueSize THEN "evict" ELSE "put"]
          /\ crowded' = (crowded \/ p # session)
     ELSE Abandon(p) /\ UNCHANGED crowded
  /\ UNCHANGED <<stored, open, polling, queues, session, handler, unread, faults,
                 shown, evicted>>

\* The queue in hand may be one that task_results no longer has.
InUse(p) == Present /\ poller[p].queue = session

Evict(p) ==
  /\ poller[p].pc = "evict"
  /\ Go(p, "put")
  /\ LET s == SourceIn(p)
     IN  IF InUse(p) /\ queues[s] # <<>>
         THEN /\ queues' = [queues EXCEPT ![s] = Tail(@)]
              /\ evicted' = evicted \cup {Head(queues[s])}
         ELSE UNCHANGED <<queues, evicted>>
  /\ UNCHANGED <<stored, open, polling, session, handler, unread, faults, shown, crowded>>

\* Mutant: the queue has no bound of its own.
PutUnbounded(p) ==
  /\ poller[p].pc = "put"
  /\ poller' = [poller EXCEPT ![p].pc = "parse", ![p].next = @ + 1]
  /\ IF InUse(p)
     THEN queues' = [queues EXCEPT ![SourceIn(p)] = Append(@, poller[p].next)]
     ELSE UNCHANGED queues
  /\ UNCHANGED <<stored, open, polling, session, handler, unread, faults, shown,
                 evicted, crowded>>

\* A queue that another thread has filled meanwhile does not take the result.
Put(p) ==
  /\ poller[p].pc = "put"
  /\ poller' = [poller EXCEPT ![p].pc = "parse", ![p].next = @ + 1]
  /\ IF InUse(p) /\ Len(queues[SourceIn(p)]) < QueueSize
     THEN queues' = [queues EXCEPT ![SourceIn(p)] = Append(@, poller[p].next)]
     ELSE UNCHANGED queues
  /\ UNCHANGED <<stored, open, polling, session, handler, unread, faults, shown,
                 evicted, crowded>>

-----------------------------------------------------------------------------
Handle == StartPoller \/ (\E s \in Source : Drain(s)) \/ Respond
Poll(p) == Look(p) \/ Ask(p) \/ Parse(p) \/ Find(p) \/ Evict(p) \/ Put(p)

Next ==
  \/ Store \/ Submit \/ Stop \/ Reset \/ Read \/ Handle
  \/ \E p \in Poller : Poll(p)

Spec == Init /\ [][Next]_vars

\* Handlers and threads go on, and the page keeps asking while a datasource is
\* open (get_task_result is requested every 2 seconds).
FairSpec ==
  Spec /\ WF_vars(Handle) /\ WF_vars(Read) /\ \A p \in Poller : WF_vars(Poll(p))

-----------------------------------------------------------------------------
RangeOf(seq) == {seq[i] : i \in DOMAIN seq}

\* No queue ever holds more than its size, however many threads fill it.
TypeOK ==
  /\ stored \in 0..MaxResults
  /\ {open, polling, crowded} \subseteq BOOLEAN
  /\ DOMAIN queues \in {{}, Source}
  /\ \A s \in DOMAIN queues :
       queues[s] \in Seq(1..MaxResults) /\ Len(queues[s]) <= QueueSize
  /\ session \in 0..MaxSessions
  /\ handler \in {"idle", "starting", "reading"}
  /\ unread \subseteq Source
  /\ poller \in [Poller -> [pc : Pc, ticket : 0..MaxResults, next : 1..(MaxResults + 1),
                            queue : 0..MaxSessions]]
  /\ faults \in 0..MaxFaults
  /\ shown \in [Source -> Seq(1..MaxResults)]
  /\ evicted \subseteq 1..MaxResults

\* The page gets the results of a source in order and none twice, though the
\* ticket is the thread's own and queues are drained while they are filled,
\* unless a thread of an earlier query, one that stop_query has not stopped,
\* delivers to this one (backend_core.py:782).
InOrder ==
  ~crowded => \A s \in DOMAIN queues :
    LET all == shown[s] \o queues[s]
    IN  \A i, j \in DOMAIN all : i < j => all[i] < all[j]

\* While a datasource is open every result its thread has handled was shown,
\* waits or was dropped from a full queue: the ticket, advanced before the
\* results are parsed, skips none (backend_core.py:801), and neither of the
\* two steps of Queue.put loses the newer result (queue.py:9).
NothingSkipped ==
  open /\ ~crowded /\ session > 0 /\ poller[session].pc # "new" =>
    \A n \in 1..(poller[session].next - 1) :
      LET s == SourceOf[n] IN n \in RangeOf(shown[s]) \cup RangeOf(queues[s]) \cup evicted

\* Each stored result reaches the page or is dropped for newer ones, as long as
\* the datasource stays open and no thread of an earlier query interferes.
EventuallyShown ==
  \A n \in 1..MaxResults :
    (open /\ n <= stored) ~>
      (n \in RangeOf(shown[SourceOf[n]]) \cup evicted \/ ~open \/ crowded)

\* Once a query has been stopped (its queues are gone) the polling threads end,
\* those of earlier queries too, unless another query follows.
PollersEnd == session > 0 /\ ~Present ~> Live = {} \/ open

=============================================================================
