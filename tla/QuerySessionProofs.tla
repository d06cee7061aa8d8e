------------------------- MODULE QuerySessionProofs -------------------------
(* Proofs about QuerySession, for every number of sources, queries, results *)
(* and faults, and every size of the queues.                               *)
EXTENDS QuerySession, SequenceTheorems, TLAPS

\* A datasource that is open has its queues, there are none before the first query,
\* and only while it is open is there anything to do for a handler that gives way.
Opened ==
  /\ open => Present /\ session \in Poller
  /\ DOMAIN queues # {} => session \in Poller
  /\ handler # "idle" => open

\* A thread's ticket covers what it has handled, and between two batches nothing
\* else; a thread that has not started yet is as new; and a thread of the query
\* that is open has its queue in hand.
PollerOK(p) ==
  LET r == poller[p]
  IN  /\ r.ticket <= stored /\ r.next <= r.ticket + 1 /\ r.queue <= session
      /\ r.pc \in {"find", "evict", "put"} => r.next <= r.ticket
      /\ r.pc \in {"look", "ask"} => r.next = r.ticket + 1
      /\ p > session \/ (p = session /\ handler = "starting") =>
           r = [pc |-> "new", ticket |-> 0, next |-> 1, queue |-> 0]
      /\ p = session /\ r.pc \in {"evict", "put"} => r.queue = session

Inv == TypeOK /\ Opened /\ \A p \in Poller : PollerOK(p)

\* What has been delivered to the query for a source, in order.
All(s) == shown[s] \o queues[s]

Rising(seq, bound) ==
  \A i \in 1..Len(seq) :
    seq[i] < bound /\ \A j \in 1..Len(seq) : i < j => seq[i] < seq[j]

\* Nobody but the query's own thread has its queues in hand; what it has put there
\* rises up to the result it handles next, each of those before was put there,
\* and a queue has room when the thread is about to put.
Undisturbed ==
  /\ \A p \in Poller : poller[p].queue = session => p = session
  /\ Present => \A s \in Source : Rising(All(s), poller[session].next)
  /\ open => \A n \in 1..(poller[session].next - 1) :
               n \in RangeOf(All(SourceOf[n])) \cup evicted
  /\ Present /\ poller[session].pc = "put" =>
       Len(queues[SourceIn(session)]) < QueueSize

InvU == session \in Poller /\ ~crowded => Undisturbed

-----------------------------------------------------------------------------
(* The queues as sequences.                                                 *)

\* What is in two sequences put together.
LEMMA RangeConcat ==
  ASSUME NEW S, NEW a \in Seq(S), NEW q \in Seq(S)
  PROVE  RangeOf(a \o q) = RangeOf(a) \cup RangeOf(q)
<1>1. /\ DOMAIN (a \o q) = 1..(Len(a) + Len(q))
      /\ DOMAIN a = 1..Len(a) /\ DOMAIN q = 1..Len(q)
      /\ Len(a) \in Nat /\ Len(q) \in Nat
      /\ \A i \in 1..(Len(a) + Len(q)) :
           (a \o q)[i] = IF i <= Len(a) THEN a[i] ELSE q[i - Len(a)]
  BY ConcatProperties, LenProperties
<1>2. ASSUME NEW x \in RangeOf(a \o q) PROVE x \in RangeOf(a) \cup RangeOf(q)
  BY <1>1, <1>2 DEF RangeOf
<1>3. ASSUME NEW x \in RangeOf(a) PROVE x \in RangeOf(a \o q)
  BY <1>1, <1>3 DEF RangeOf
<1>4. ASSUME NEW x \in RangeOf(q) PROVE x \in RangeOf(a \o q)
  <2>1. PICK i \in 1..Len(q) : x = q[i]
    BY <1>1, <1>4 DEF RangeOf
  <2>2. i + Len(a) \in 1..(Len(a) + Len(q)) /\ (a \o q)[i + Len(a)] = x
    BY <1>1, <2>1
  <2> QED
    BY <1>1, <2>2 DEF RangeOf
<1> QED
  BY <1>2, <1>3, <1>4

\* Handing the oldest result of a queue to the page delivers nothing new.
LEMMA MoveHead ==
  ASSUME NEW S, NEW a \in Seq(S), NEW q \in Seq(S), q # <<>>
  PROVE  Append(a, Head(q)) \o Tail(q) = a \o q
<1>1. Head(q) \in S /\ Tail(q) \in Seq(S) /\ <<Head(q)>> \in Seq(S)
  BY HeadTailProperties
<1>2. q = <<Head(q)>> \o Tail(q)
  BY SubSeqRecursiveFirst, SubSeqFull, TailIsSubSeq, EmptySeq
<1>3. Append(a, Head(q)) = a \o <<Head(q)>>
  BY <1>1, AppendIsConcat
<1> QED
  BY <1>1, <1>2, <1>3, ConcatAssociative

\* Adding at the end and putting in front do not disturb each other.
LEMMA AddLast ==
  ASSUME NEW a \in Seq(Nat), NEW q \in Seq(Nat), NEW n \in Nat
  PROVE  a \o Append(q, n) = Append(a \o q, n)
<1>1. <<n>> \in Seq(Nat) /\ a \o q \in Seq(Nat)
  BY ConcatProperties
<1> QED
  BY <1>1, AppendIsConcat, ConcatAssociative

\* Putting the result due keeps the order.
LEMMA RisingAppend ==
  ASSUME NEW all \in Seq(Nat), NEW n \in Nat, Rising(all, n)
  PROVE  Rising(Append(all, n), n + 1) /\ n \in RangeOf(Append(all, n))
         /\ RangeOf(all) \subseteq RangeOf(Append(all, n))
<1> DEFINE new == Append(all, n)
<1>1. /\ Len(all) \in Nat /\ Len(new) = Len(all) + 1 /\ DOMAIN new = 1..Len(new)
      /\ \A i \in 1..Len(all) : new[i] = all[i] /\ all[i] \in Nat
      /\ new[Len(all) + 1] = n /\ DOMAIN all = 1..Len(all)
  BY AppendProperties, LenProperties, ElementOfSeq
<1> HIDE DEF new
<1>2. Rising(new, n + 1)
  BY <1>1 DEF Rising
<1>3. n \in RangeOf(new) /\ RangeOf(all) \subseteq RangeOf(new)
  <2>1. Len(all) + 1 \in DOMAIN new /\ \A i \in DOMAIN all : i \in DOMAIN new /\ new[i] = all[i]
    BY <1>1
  <2> QED
    BY <1>1, <2>1, Zenon DEF RangeOf
<1> QED
  BY <1>2, <1>3 DEF new

\* So does dropping one.
LEMMA RisingDrop ==
  ASSUME NEW a \in Seq(Nat), NEW q \in Seq(Nat), q # <<>>, NEW n \in Nat, Rising(a \o q, n)
  PROVE  /\ Rising(a \o Tail(q), n)
         /\ RangeOf(a \o q) \subseteq RangeOf(a \o Tail(q)) \cup {Head(q)}
<1> DEFINE old == a \o q
           new == a \o Tail(q)
<1>1. /\ Tail(q) \in Seq(Nat) /\ Len(Tail(q)) = Len(q) - 1 /\ Len(q) \in Nat /\ Len(a) \in Nat
      /\ \A i \in 1..(Len(q) - 1) : Tail(q)[i] = q[i + 1]
      /\ Head(q) = q[1]
  BY HeadTailProperties, LenProperties
<1>2. /\ Len(old) = Len(a) + Len(q)
      /\ \A i \in 1..Len(old) : old[i] \in Nat /\ old[i] = IF i <= Len(a) THEN a[i] ELSE q[i - Len(a)]
  BY <1>1, ConcatProperties, ElementOfSeq
<1>3. /\ Len(new) = Len(a) + Len(Tail(q))
      /\ \A i \in 1..Len(new) : new[i] = IF i <= Len(a) THEN a[i] ELSE Tail(q)[i - Len(a)]
  BY <1>1, ConcatProperties
<1>4. RangeOf(old) = RangeOf(a) \cup RangeOf(q) /\ RangeOf(new) = RangeOf(a) \cup RangeOf(Tail(q))
  <2>1. \A s \in Seq(Nat) : RangeOf(a \o s) = RangeOf(a) \cup RangeOf(s)
    BY RangeConcat, Zenon
  <2> QED
    BY <1>1, <2>1, Zenon
<1>5. RangeOf(q) \subseteq RangeOf(Tail(q)) \cup {Head(q)}
  <2> SUFFICES ASSUME NEW i \in 1..Len(q), i # 1 PROVE q[i] \in RangeOf(Tail(q))
    BY <1>1, LenProperties DEF RangeOf
  <2>1. i - 1 \in 1..Len(Tail(q)) /\ Tail(q)[i - 1] = q[i]
    BY <1>1
  <2> QED
    BY <1>1, <2>1, LenProperties DEF RangeOf
<1>6. Rising(old, n)
  OBVIOUS
<1> HIDE DEF old, new
<1>7. Len(new) = Len(old) - 1 /\ Len(old) \in Nat /\ Len(new) \in Nat
  BY <1>1, <1>2, <1>3
<1>8. ASSUME NEW i \in 1..Len(new) PROVE new[i] = IF i <= Len(a) THEN old[i] ELSE old[i + 1]
  <2>1. CASE i <= Len(a)
    <3>1. i \in 1..Len(old)
      BY <1>7
    <3>2. new[i] = a[i] /\ old[i] = a[i]
      BY <1>2, <1>3, <2>1, <3>1
    <3> QED
      BY <2>1, <3>2
  <2>2. CASE i > Len(a)
    <3>1. i - Len(a) \in 1..(Len(q) - 1) /\ i + 1 \in 1..Len(old)
          /\ ~(i + 1 <= Len(a)) /\ i + 1 - Len(a) = i - Len(a) + 1
      BY <1>1, <1>2, <1>3, <2>2
    <3>2. new[i] = Tail(q)[i - Len(a)] /\ old[i + 1] = q[i + 1 - Len(a)]
      BY <1>1, <1>2, <1>3, <2>2, <3>1
    <3> QED
      BY <1>1, <2>2, <3>1, <3>2
  <2> QED
    BY <1>1, <2>1, <2>2
<1>9. Rising(new, n)
  <2> SUFFICES ASSUME NEW i \in 1..Len(new)
               PROVE  new[i] < n /\ \A j \in 1..Len(new) : i < j => new[i] < new[j]
    BY DEF Rising
  <2>1. \A j \in 1..Len(old) : old[j] < n /\ \A k \in 1..Len(old) : j < k => old[j] < old[k]
    BY <1>6 DEF Rising
  <2>2. i \in 1..Len(old) /\ i + 1 \in 1..Len(old)
    BY <1>7
  <2>3. new[i] < n
    BY <1>8, <2>1, <2>2
  <2>4. ASSUME NEW j \in 1..Len(new), i < j PROVE new[i] < new[j]
    <3>1. j \in 1..Len(old) /\ j + 1 \in 1..Len(old) /\ i < j + 1 /\ i + 1 < j + 1
      BY <1>7, <2>2, <2>4
    <3>2. new[j] = IF j <= Len(a) THEN old[j] ELSE old[j + 1]
      BY <1>8
    <3>3. ~(i > Len(a) /\ j <= Len(a))
      BY <1>1, <2>4
    <3> QED
      BY <1>8, <2>1, <2>2, <2>4, <3>1, <3>2, <3>3
  <2> QED
    BY <2>3, <2>4
<1> QED
  BY <1>4, <1>5, <1>9 DEF old, new

-----------------------------------------------------------------------------
(* The invariant.                                                           *)

\* An empty queue has its type.
LEMMA Empty ==
  ASSUME NEW q, q = <<>>
  PROVE  q \in Seq(1..MaxResults) /\ Len(q) <= QueueSize
<1>1. <<>> \in Seq(1..MaxResults) /\ Len(<<>>) = 0
  BY EmptySeq
<1>2. q \in Seq(1..MaxResults) /\ Len(q) = 0
  BY <1>1, Zenon
<1> QED
  BY <1>2, QueryAssumption DEF QueryAssumption

\* At first no datasource is open and no thread has started.
LEMMA InitInv == Init => Inv /\ InvU
<1> SUFFICES ASSUME Init PROVE Inv /\ InvU
  OBVIOUS
<1> USE QueryAssumption DEF QueryAssumption
<1>1. TypeOK
  <2>1. DOMAIN queues = {} /\ poller \in [Poller -> [pc : Pc, ticket : 0..MaxResults,
                                  next : 1..(MaxResults + 1), queue : 0..MaxSessions]]
    BY DEF Init, NoQueues, Pc
  <2>2. shown \in [Source -> Seq(1..MaxResults)]
    BY Empty DEF Init
  <2>3. DOMAIN queues \in {{}, Source} /\ \A s \in DOMAIN queues :
          queues[s] \in Seq(1..MaxResults) /\ Len(queues[s]) <= QueueSize
    BY <2>1
  <2>4. {open, polling, crowded} \subseteq BOOLEAN
    BY DEF Init
  <2>5. /\ stored \in 0..MaxResults
        /\ session \in 0..MaxSessions /\ handler \in {"idle", "starting", "reading"}
        /\ unread \subseteq Source /\ faults \in 0..MaxFaults /\ evicted \subseteq 1..MaxResults
    BY DEF Init
  <2> QED
    BY <2>1, <2>2, <2>3, <2>4, <2>5 DEF TypeOK
<1>2. Opened
  BY DEF Init, Opened, NoQueues
<1>3. \A p \in Poller : PollerOK(p)
  BY DEF Init, PollerOK, Poller
<1>4. InvU
  BY DEF Init, InvU, Poller
<1> QED
  BY <1>1, <1>2, <1>3, <1>4 DEF Inv

\* The result a thread is at.
LEMMA AtResult ==
  ASSUME Inv, NEW p \in Poller, poller[p].pc \in {"find", "evict", "put"}
  PROVE  poller[p].next \in 1..MaxResults /\ SourceIn(p) \in Source /\ p <= session
BY QueryAssumption DEF QueryAssumption, Inv, TypeOK, PollerOK, SourceIn, Poller

\* The queue of a source, and what is left of it without its first result.
LEMMA QueueOK ==
  ASSUME TypeOK, NEW s \in DOMAIN queues
  PROVE  /\ s \in Source /\ queues[s] \in Seq(1..MaxResults) /\ Len(queues[s]) \in Nat
         /\ Len(queues[s]) <= QueueSize
         /\ queues[s] # <<>> =>
              /\ Head(queues[s]) \in 1..MaxResults /\ Tail(queues[s]) \in Seq(1..MaxResults)
              /\ Len(Tail(queues[s])) = Len(queues[s]) - 1
<1>1. s \in Source /\ queues[s] \in Seq(1..MaxResults) /\ Len(queues[s]) <= QueueSize
  BY DEF TypeOK
<1> QED
  BY <1>1, HeadTailProperties, LenProperties

\* Queues with one of them changed.
LEMMA QueuesChanged ==
  ASSUME TypeOK, NEW s \in DOMAIN queues, NEW q \in Seq(1..MaxResults), Len(q) <= QueueSize,
         queues' = [queues EXCEPT ![s] = q]
  PROVE  /\ DOMAIN queues' \in {{}, Source} /\ DOMAIN queues' = DOMAIN queues
         /\ \A u \in DOMAIN queues' :
              queues'[u] \in Seq(1..MaxResults) /\ Len(queues'[u]) <= QueueSize
         /\ queues'[s] = q /\ \A u \in DOMAIN queues : u # s => queues'[u] = queues[u]
BY DEF TypeOK

\* Handlers, and the distributor.
LEMMA HandlersInv ==
  ASSUME Inv, Store \/ Submit \/ Stop \/ Reset \/ Read \/ Handle
  PROVE  Inv'
<1> USE QueryAssumption DEF QueryAssumption
<1>1. CASE Store
  <2>1. TypeOK'
    BY <1>1 DEF Store, Inv, TypeOK
  <2>2. Opened' /\ \A p \in Poller : PollerOK(p)'
    BY <1>1 DEF Store, Inv, TypeOK, Opened, Present, PollerOK
  <2> QED
    BY <2>1, <2>2 DEF Inv
<1>2. CASE Submit
  <2>1. TypeOK'
    <3>1. DOMAIN queues' = Source /\ \A s \in Source : queues'[s] = <<>>
      BY <1>2 DEF Submit
    <3>2. \A s \in Source : queues'[s] \in Seq(1..MaxResults) /\ Len(queues'[s]) <= QueueSize
      BY <3>1, Empty
    <3>3. shown' \in [Source -> Seq(1..MaxResults)]
      BY <1>2, Empty DEF Submit
    <3>4. session + 1 \in 0..MaxSessions
      BY <1>2 DEF Submit, Inv, TypeOK
    <3> QED
      BY <1>2, <3>1, <3>2, <3>3, <3>4 DEF Submit, Inv, TypeOK
  <2>2. Opened'
    BY <1>2 DEF Submit, Inv, TypeOK, Opened, Present, Poller
  <2>3. \A p \in Poller : PollerOK(p)'
    BY <1>2, SMTT(30) DEF Submit, Inv, TypeOK, PollerOK, Poller
  <2> QED
    BY <2>1, <2>2, <2>3 DEF Inv
<1>3. CASE Stop
  <2>1. TypeOK'
    BY <1>3 DEF Stop, Inv, TypeOK, NoQueues
  <2>2. Opened' /\ \A p \in Poller : PollerOK(p)'
    BY <1>3 DEF Stop, Inv, TypeOK, Opened, PollerOK, NoQueues
  <2> QED
    BY <2>1, <2>2 DEF Inv
<1>4. CASE Reset
  <2>1. TypeOK'
    BY <1>4 DEF Reset, Inv, TypeOK
  <2>2. Opened' /\ \A p \in Poller : PollerOK(p)'
    BY <1>4 DEF Reset, Inv, TypeOK, Opened, Present, PollerOK
  <2> QED
    BY <2>1, <2>2 DEF Inv
<1>5. CASE Read \/ Respond
  <2>1. TypeOK'
    BY <1>5 DEF Read, Respond, Inv, TypeOK
  <2>2. Opened' /\ \A p \in Poller : PollerOK(p)'
    BY <1>5 DEF Read, Respond, Inv, TypeOK, Opened, Present, PollerOK
  <2> QED
    BY <2>1, <2>2 DEF Inv
<1>6. CASE StartPoller
  <2>1. session \in Poller
    BY <1>6 DEF StartPoller, Inv, Opened
  <2>2. poller' = [poller EXCEPT ![session].pc = "look"]
    BY <1>6 DEF StartPoller, Go
  <2>3. TypeOK'
    BY <1>6, <2>1, <2>2 DEF StartPoller, Inv, TypeOK, Pc
  <2>4. Opened'
    BY <1>6 DEF StartPoller, Inv, Opened, Present
  <2>5. \A p \in Poller : PollerOK(p)'
    BY <1>6, <2>1, <2>2 DEF StartPoller, Inv, TypeOK, PollerOK, Poller
  <2> QED
    BY <2>3, <2>4, <2>5 DEF Inv
<1>7. ASSUME NEW s \in Source, Drain(s) PROVE Inv'
  <2>1. Present /\ s \in DOMAIN queues
    BY <1>7 DEF Drain, Inv, Opened, Present
  <2>2. Opened' /\ \A p \in Poller : PollerOK(p)'
    BY <1>7 DEF Drain, Inv, TypeOK, Opened, Present, PollerOK
  <2>3. CASE queues[s] = <<>>
    BY <1>7, <2>2, <2>3 DEF Drain, Inv, TypeOK
  <2>4. CASE queues[s] # <<>>
    <3>1. queues' = [queues EXCEPT ![s] = Tail(queues[s])]
          /\ shown' = [shown EXCEPT ![s] = Append(shown[s], Head(queues[s]))]
      BY <1>7, <2>4 DEF Drain
    <3>2. DOMAIN queues' \in {{}, Source}
          /\ \A u \in DOMAIN queues' :
               queues'[u] \in Seq(1..MaxResults) /\ Len(queues'[u]) <= QueueSize
      <4>1. TypeOK /\ QueueSize \in Nat
        BY DEF Inv
      <4>2. Tail(queues[s]) \in Seq(1..MaxResults) /\ Len(Tail(queues[s])) <= QueueSize
        BY <2>1, <2>4, <4>1, QueueOK
      <4> QED
        BY <2>1, <3>1, <4>1, <4>2, QueuesChanged
    <3>3. shown' \in [Source -> Seq(1..MaxResults)]
      <4>1. shown \in [Source -> Seq(1..MaxResults)] /\ TypeOK
        BY DEF Inv, TypeOK
      <4>2. Head(queues[s]) \in 1..MaxResults
        BY <2>1, <2>4, <4>1, QueueOK
      <4>3. Append(shown[s], Head(queues[s])) \in Seq(1..MaxResults)
        BY <4>1, <4>2, AppendProperties
      <4> QED
        BY <3>1, <4>1, <4>3
    <3>4. TypeOK'
      BY <1>7, <2>4, <3>2, <3>3 DEF Drain, Inv, TypeOK
    <3> QED
      BY <2>2, <3>4 DEF Inv
  <2> QED
    BY <2>3, <2>4
<1> QED
  BY <1>1, <1>2, <1>3, <1>4, <1>5, <1>6, <1>7 DEF Handle

\* A thread moves: what is left to show is about the thread itself.
LEMMA ThreadMoves ==
  ASSUME Inv, NEW p \in Poller, UNCHANGED <<stored, open, session, handler>>,
         DOMAIN queues' = DOMAIN queues, poller[p].pc # "new",
         poller' \in [Poller -> [pc : Pc, ticket : 0..MaxResults, next : 1..(MaxResults + 1),
                                 queue : 0..MaxSessions]],
         \A u \in Poller \ {p} : poller'[u] = poller[u],
         PollerOK(p)'
  PROVE  Opened' /\ \A u \in Poller : PollerOK(u)'
<1>1. Opened'
  BY DEF Inv, Opened, Present
<1>2. ASSUME NEW u \in Poller \ {p} PROVE PollerOK(u)'
  BY <1>2 DEF Inv, PollerOK
<1> QED
  BY <1>1, <1>2

\* A thread that gives up its batch is where it would be after it.
LEMMA AbandonOK ==
  ASSUME Inv, NEW p \in Poller, Abandon(p), poller[p].pc # "new", poller[p].pc # "gone",
         UNCHANGED <<stored, session, handler>>
  PROVE  /\ poller' \in [Poller -> [pc : Pc, ticket : 0..MaxResults,
                                    next : 1..(MaxResults + 1), queue : 0..MaxSessions]]
         /\ PollerOK(p)'
         /\ \A u \in Poller \ {p} : poller'[u] = poller[u]
<1>1. TypeOK /\ PollerOK(p) /\ MaxResults \in Nat
  BY QueryAssumption DEF QueryAssumption, Inv
<1>2. poller[p].ticket + 1 \in 1..(MaxResults + 1) /\ "look" \in Pc
  BY <1>1 DEF TypeOK, Pc
<1>3. /\ poller' \in [Poller -> [pc : Pc, ticket : 0..MaxResults,
                                 next : 1..(MaxResults + 1), queue : 0..MaxSessions]]
      /\ poller'[p] = [poller[p] EXCEPT !.pc = "look", !.next = poller[p].ticket + 1]
      /\ \A u \in Poller \ {p} : poller'[u] = poller[u]
  BY <1>1, <1>2 DEF Abandon, TypeOK
<1>4. PollerOK(p)'
  BY <1>1, <1>3 DEF PollerOK, TypeOK
<1> QED
  BY <1>3, <1>4

\* Threads.
LEMMA PollInv ==
  ASSUME Inv, NEW p \in Poller, Poll(p)
  PROVE  Inv'
<1> USE QueryAssumption DEF QueryAssumption
<1> DEFINE Threads == [Poller -> [pc : Pc, ticket : 0..MaxResults, next : 1..(MaxResults + 1),
                                  queue : 0..MaxSessions]]
<1>1. TypeOK /\ PollerOK(p) /\ poller \in Threads /\ p \in Nat /\ poller[p].pc # "new"
      /\ stored \in 0..MaxResults /\ session \in 0..MaxSessions
  BY SMTT(30) DEF Inv, TypeOK, Poller, Poll, Look, Ask, Parse, Find, Evict, Put
<1>2. ~(p > session \/ (p = session /\ handler = "starting"))
  BY <1>1 DEF PollerOK
<1>3. CASE Look(p)
  <2>1. poller' \in Threads
    BY <1>1, <1>3, ZenonT(30) DEF Look, Go, Pc
  <2>2. PollerOK(p)'
    BY <1>1, <1>2, <1>3 DEF Look, Go, PollerOK
  <2>3. Opened' /\ \A u \in Poller : PollerOK(u)'
    BY <1>1, <1>3, <2>1, <2>2, ThreadMoves DEF Look, Go
  <2> QED
    BY <1>1, <1>3, <2>1, <2>3 DEF Look, Inv, TypeOK
<1>4. CASE Ask(p)
  <2>1. poller' \in Threads /\ faults' \in 0..MaxFaults
    <3>1. faults' \in 0..MaxFaults
      BY <1>1, <1>4 DEF Ask, TypeOK
    <3>2. CASE poller' = [poller EXCEPT ![p].pc = "parse", ![p].ticket = stored]
      BY <1>1, <3>1, <3>2 DEF Pc
    <3>3. CASE poller' = [poller EXCEPT ![p].pc = "look"]
      BY <1>1, <3>1, <3>3 DEF Pc
    <3> QED
      BY <1>4, <3>1, <3>2, <3>3 DEF Ask, Go
  <2>2. PollerOK(p)'
    BY <1>1, <1>2, <1>4 DEF Ask, Go, PollerOK
  <2>3. Opened' /\ \A u \in Poller : PollerOK(u)'
    BY <1>1, <1>4, <2>1, <2>2, ThreadMoves DEF Ask, Go
  <2> QED
    BY <1>1, <1>4, <2>1, <2>3 DEF Ask, Inv, TypeOK
<1>5. CASE Parse(p)
  <2>1. poller' \in Threads /\ PollerOK(p)' /\ \A u \in Poller \ {p} : poller'[u] = poller[u]
    <3>1. CASE Abandon(p)
      BY <1>5, <3>1, AbandonOK DEF Parse
    <3>2. CASE Go(p, "look") /\ poller[p].next > poller[p].ticket
      BY <1>1, <1>2, <1>5, <3>2, SMTT(30) DEF Parse, Go, PollerOK, Pc
    <3>3. CASE Go(p, "find") /\ ~(poller[p].next > poller[p].ticket)
      <4>1. poller' \in Threads /\ \A u \in Poller \ {p} : poller'[u] = poller[u]
        BY <1>1, <3>3 DEF Go, Pc
      <4>2. PollerOK(p)'
        BY <1>1, <1>2, <1>5, <3>3 DEF Parse, Go, PollerOK
      <4> QED
        BY <4>1, <4>2
    <3> QED
      BY <1>5, <3>1, <3>2, <3>3 DEF Parse
  <2>3. Opened' /\ \A u \in Poller : PollerOK(u)'
    BY <1>1, <1>5, <2>1, ThreadMoves DEF Parse
  <2> QED
    BY <1>1, <1>5, <2>1, <2>3 DEF Parse, Inv, TypeOK
<1>6. CASE Find(p)
  <2>1. poller' \in Threads /\ PollerOK(p)' /\ \A u \in Poller \ {p} : poller'[u] = poller[u]
    <3>1. CASE Abandon(p)
      BY <1>6, <3>1, AbandonOK DEF Find
    <3>2. ASSUME NEW c \in {"evict", "put"},
                 poller' = [poller EXCEPT ![p].queue = session, ![p].pc = c]
          PROVE  poller' \in Threads /\ PollerOK(p)' /\ \A u \in Poller \ {p} : poller'[u] = poller[u]
      <4>1. poller' \in Threads /\ \A u \in Poller \ {p} : poller'[u] = poller[u]
        BY <1>1, <3>2 DEF Pc
      <4>2. PollerOK(p)'
        BY <1>1, <1>2, <1>6, <3>2 DEF Find, PollerOK
      <4> QED
        BY <4>1, <4>2
    <3> QED
      BY <1>6, <3>1, <3>2 DEF Find
  <2>2. crowded' \in BOOLEAN
    BY <1>1, <1>6 DEF Find, TypeOK
  <2>3. Opened' /\ \A u \in Poller : PollerOK(u)'
    BY <1>1, <1>6, <2>1, ThreadMoves DEF Find
  <2> QED
    BY <1>1, <1>6, <2>1, <2>2, <2>3 DEF Find, Inv, TypeOK
<1>7. CASE Evict(p) \/ Put(p)
  <2>1. /\ poller' \in Threads /\ PollerOK(p)'
        /\ \A u \in Poller \ {p} : poller'[u] = poller[u]
    <3>1. CASE Evict(p)
      BY <1>1, <1>2, <3>1 DEF Evict, Go, PollerOK, Pc
    <3>2. CASE Put(p)
      <4>1. poller[p].next + 1 \in 1..(MaxResults + 1)
        BY <1>1, <3>2, AtResult, SMTT(30) DEF Put
      <4>2. poller' \in Threads /\ \A u \in Poller \ {p} : poller'[u] = poller[u]
        BY <1>1, <3>2, <4>1 DEF Put, Pc
      <4>3. PollerOK(p)'
        BY <1>1, <1>2, <3>2 DEF Put, PollerOK
      <4> QED
        BY <4>2, <4>3
    <3> QED
      BY <1>7, <3>1, <3>2
  <2>2. /\ DOMAIN queues' \in {{}, Source} /\ DOMAIN queues' = DOMAIN queues
        /\ \A s \in DOMAIN queues' :
             queues'[s] \in Seq(1..MaxResults) /\ Len(queues'[s]) <= QueueSize
        /\ evicted' \subseteq 1..MaxResults
    <3> DEFINE s == SourceIn(p)
    <3>1. poller[p].next \in 1..MaxResults /\ s \in Source
      BY <1>7, AtResult DEF Evict, Put
    <3>2. CASE UNCHANGED <<queues, evicted>>
      BY <1>1, <3>2 DEF TypeOK
    <3>3. CASE /\ Present /\ queues[s] # <<>>
               /\ queues' = [queues EXCEPT ![s] = Tail(queues[s])]
               /\ evicted' = evicted \cup {Head(queues[s])}
      <4>1. s \in DOMAIN queues
        BY <3>1, <3>3 DEF Present
      <4>2. Tail(queues[s]) \in Seq(1..MaxResults) /\ Len(Tail(queues[s])) <= QueueSize
            /\ Head(queues[s]) \in 1..MaxResults
        BY <1>1, <3>3, <4>1, QueueOK
      <4> QED
        BY <1>1, <3>3, <4>1, <4>2, QueuesChanged DEF TypeOK
    <3>4. CASE /\ Present /\ Len(queues[s]) < QueueSize
               /\ queues' = [queues EXCEPT ![s] = Append(queues[s], poller[p].next)]
               /\ UNCHANGED evicted
      <4>1. s \in DOMAIN queues
        BY <3>1, <3>4 DEF Present
      <4>2. queues[s] \in Seq(1..MaxResults) /\ Len(queues[s]) \in Nat
        BY <1>1, <4>1, QueueOK
      <4>3. Append(queues[s], poller[p].next) \in Seq(1..MaxResults)
            /\ Len(Append(queues[s], poller[p].next)) <= QueueSize
        BY <3>1, <3>4, <4>2, AppendProperties
      <4> QED
        BY <1>1, <3>4, <4>1, <4>3, QueuesChanged DEF TypeOK
    <3> QED
      BY <1>7, <3>2, <3>3, <3>4 DEF Evict, Put, InUse
  <2>3. Opened' /\ \A u \in Poller : PollerOK(u)'
    BY <1>1, <1>7, <2>1, <2>2, ThreadMoves DEF Evict, Put
  <2>4. TypeOK'
    BY <1>1, <1>7, <2>1, <2>2 DEF Evict, Put, TypeOK
  <2> QED
    BY <2>3, <2>4 DEF Inv
<1> QED
  BY <1>3, <1>4, <1>5, <1>6, <1>7 DEF Poll

\* Every step preserves the invariant.
LEMMA NextInv == Inv /\ [Next]_vars => Inv'
<1>1. ASSUME Inv, UNCHANGED vars PROVE Inv'
  <2>1. TypeOK'
    BY <1>1 DEF Inv, TypeOK, vars
  <2> QED
    BY <1>1, <2>1 DEF Inv, Opened, Present, PollerOK, vars
<1> QED
  BY <1>1, HandlersInv, PollInv DEF Next

\* The invariant holds in every state of the program.
THEOREM Invariance == Spec => []Inv
<1> QED
  BY InitInv, NextInv, PTL DEF Spec

\* However many threads fill and drain the queues, none ever holds more than its
\* size (Queue.put), and a thread never reads past the results it has asked for.
THEOREM TypeCorrect == Spec => []TypeOK
<1>1. Inv => TypeOK
  BY DEF Inv
<1> QED
  BY <1>1, Invariance, PTL

-----------------------------------------------------------------------------
(* What is delivered while no thread of an earlier query takes part.        *)

\* What has been delivered, as sequences.
LEMMA Delivered ==
  ASSUME TypeOK, Present, NEW s \in Source
  PROVE  /\ shown[s] \in Seq(1..MaxResults) /\ queues[s] \in Seq(1..MaxResults)
         /\ shown[s] \in Seq(Nat) /\ queues[s] \in Seq(Nat)
         /\ All(s) \in Seq(Nat)
         /\ RangeOf(All(s)) = RangeOf(shown[s]) \cup RangeOf(queues[s])
<1>1. shown[s] \in Seq(1..MaxResults) /\ queues[s] \in Seq(1..MaxResults)
  BY DEF TypeOK, Present
<1>2. 1..MaxResults \subseteq Nat
  BY QueryAssumption DEF QueryAssumption
<1>3. shown[s] \in Seq(Nat) /\ queues[s] \in Seq(Nat)
  BY <1>1, <1>2, SeqMonotonic
<1> QED
  BY <1>1, <1>3, ConcatProperties, RangeConcat DEF All

\* The distributor and the handlers, but for the two that follow.
LEMMA QuietU ==
  ASSUME Inv, InvU, Store \/ Reset \/ Read \/ Respond
  PROVE  InvU'
BY DEF Store, Reset, Read, Respond, InvU, Undisturbed, Present, All, SourceIn

\* Stopping the query closes the queues and leaves what was shown.
LEMMA StopU ==
  ASSUME Inv, InvU, Stop
  PROVE  InvU'
<1> SUFFICES ASSUME session \in Poller, ~crowded PROVE Undisturbed'
  BY DEF InvU, Stop
<1>1. Undisturbed /\ MaxResults \in Nat
  BY QueryAssumption DEF QueryAssumption, InvU
<1>2. DOMAIN queues' = {} /\ ~open' /\ UNCHANGED <<shown, evicted, poller, session>>
  BY DEF Stop, NoQueues
<1>3. Present' => Source = {}
  BY <1>2 DEF Present
<1>4. poller[session].pc = "put" => SourceIn(session) \in Source
  BY AtResult
<1> QED
  BY <1>1, <1>2, <1>3, <1>4 DEF Undisturbed

\* A new query has new queues, and no thread has them in hand.
LEMMA SubmitU ==
  ASSUME Inv, InvU, Submit
  PROVE  InvU'
<1> SUFFICES ASSUME session' \in Poller PROVE Undisturbed'
  BY DEF InvU
<1>1. /\ session' = session + 1 /\ session \in Nat /\ UNCHANGED poller
      /\ queues' = [s \in Source |-> <<>>] /\ shown' = [s \in Source |-> <<>>]
  BY DEF Submit, Inv, TypeOK
<1>2. poller[session'] = [pc |-> "new", ticket |-> 0, next |-> 1, queue |-> 0]
  BY <1>1 DEF Inv, PollerOK
<1>3. \A p \in Poller : poller[p].queue \in Nat /\ poller[p].queue <= session
  BY DEF Inv, TypeOK, PollerOK
<1>4. ASSUME NEW s \in Source PROVE Rising(All(s)', 1)
  <2>1. All(s)' = <<>> \o <<>>
    BY <1>1 DEF All
  <2>2. Len(All(s)') = 0
    BY <2>1, EmptySeq, ConcatProperties
  <2> QED
    BY <2>2 DEF Rising
<1> QED
  BY <1>1, <1>2, <1>3, <1>4 DEF Undisturbed

\* Starting the thread of a query changes nothing of what was delivered.
LEMMA StartU ==
  ASSUME Inv, InvU, StartPoller
  PROVE  InvU'
<1> SUFFICES ASSUME session \in Poller, ~crowded' PROVE Undisturbed'
  BY DEF InvU, StartPoller
<1>1. Undisturbed /\ handler = "starting"
  BY DEF InvU, StartPoller
<1>2. /\ poller' = [poller EXCEPT ![session].pc = "look"]
      /\ UNCHANGED <<queues, shown, evicted, session, open>>
  BY DEF StartPoller, Go
<1>3. /\ poller'[session].next = poller[session].next /\ poller'[session].pc = "look"
      /\ \A p \in Poller : poller'[p].queue = poller[p].queue
  BY <1>2 DEF Inv, TypeOK
<1> QED
  BY <1>1, <1>2, <1>3 DEF Undisturbed, Present, All

\* Handing a result to the page.
LEMMA DrainU ==
  ASSUME Inv, InvU, NEW s \in Source, Drain(s)
  PROVE  InvU'
<1> SUFFICES ASSUME session \in Poller, ~crowded PROVE Undisturbed'
  BY DEF InvU, Drain
<1>1. Undisturbed /\ TypeOK /\ Present /\ DOMAIN shown = Source
  BY DEF Inv, InvU, Opened, Drain, TypeOK
<1>2. UNCHANGED <<evicted, poller, session, open>>
  BY DEF Drain
<1>3. CASE queues[s] = <<>>
  BY <1>1, <1>2, <1>3 DEF Drain, Undisturbed, Present, All, SourceIn
<1>4. CASE queues[s] # <<>>
  <2>1. /\ queues' = [queues EXCEPT ![s] = Tail(queues[s])]
        /\ shown' = [shown EXCEPT ![s] = Append(shown[s], Head(queues[s]))]
    BY <1>4 DEF Drain
  <2>2. /\ Present' /\ queues'[s] = Tail(queues[s])
        /\ shown'[s] = Append(shown[s], Head(queues[s]))
        /\ \A u \in Source \ {s} : queues'[u] = queues[u] /\ shown'[u] = shown[u]
    BY <1>1, <2>1 DEF Present
  <2>3. \A u \in Source : All(u)' = All(u)
    <3>1. All(s)' = All(s)
      <4>1. shown[s] \in Seq(Nat) /\ queues[s] \in Seq(Nat)
        BY <1>1, Delivered
      <4>2. Append(shown[s], Head(queues[s])) \o Tail(queues[s]) = shown[s] \o queues[s]
        BY <1>4, <4>1, MoveHead
      <4> QED
        BY <2>2, <4>2 DEF All
    <3> QED
      BY <2>2, <3>1 DEF All
  <2>4. /\ Len(queues[s]) \in Nat /\ Len(Tail(queues[s])) = Len(queues[s]) - 1
        /\ QueueSize \in Nat
    BY <1>1, <1>4, QueueOK, QueryAssumption DEF Present, QueryAssumption
  <2>5. ASSUME poller[session].pc = "put"
        PROVE  Len(queues'[SourceIn(session)]) < QueueSize
    <3>1. SourceIn(session) \in Source /\ Len(queues[SourceIn(session)]) < QueueSize
      BY <1>1, <2>5, AtResult DEF Undisturbed
    <3>2. CASE SourceIn(session) = s
      <4>1. Len(queues'[s]) = Len(queues[s]) - 1
        BY <2>2, <2>4
      <4>2. Len(queues[s]) < QueueSize
        BY <3>1, <3>2
      <4>3. Len(queues'[s]) < QueueSize
        BY <2>4, <4>1, <4>2
      <4> QED
        BY <3>2, <4>3
    <3>3. CASE SourceIn(session) # s
      BY <2>2, <3>1, <3>3
    <3> QED
      BY <3>2, <3>3
  <2>6. \A n \in 1..(poller[session].next - 1) : SourceOf[n] \in Source
    BY <1>1, QueryAssumption DEF QueryAssumption, TypeOK
  <2> QED
    BY <1>1, <1>2, <2>2, <2>3, <2>5, <2>6 DEF Undisturbed, SourceIn
<1> QED
  BY <1>3, <1>4

\* Threads, but for Evict and Put: they leave the queues alone.
LEMMA LookU ==
  ASSUME Inv, InvU, NEW p \in Poller, Look(p) \/ Ask(p) \/ Parse(p) \/ Find(p)
  PROVE  InvU'
<1> SUFFICES ASSUME session \in Poller, ~crowded' PROVE Undisturbed'
  BY DEF InvU, Look, Ask, Parse, Find
<1>1. Undisturbed /\ TypeOK /\ (open => Present)
  BY DEF Inv, InvU, Opened, Look, Ask, Parse, Find
<1>2. UNCHANGED <<queues, shown, evicted, session, open>>
  BY DEF Look, Ask, Parse, Find
<1>3. /\ \A u \in Poller \ {p} : poller'[u] = poller[u]
      /\ poller'[p].queue = poller[p].queue \/ p = session
      /\ \/ poller'[p].next = poller[p].next
         \/ ~open /\ poller'[p].next = poller[p].ticket + 1
      /\ poller'[p].pc = "put" =>
           Len(queues[SourceIn(p)]) # QueueSize /\ poller'[p].next = poller[p].next
             /\ poller[p].pc = "find" /\ Present
  <2>1. CASE Look(p)
    BY <1>1, <2>1 DEF Look, Go, TypeOK
  <2>2. CASE Ask(p)
    BY <1>1, <2>2 DEF Ask, Go, TypeOK
  <2>3. CASE Parse(p)
    BY <1>1, <2>3 DEF Parse, Go, Abandon, TypeOK
  <2>4. CASE Find(p)
    <3>1. CASE Present
      <4>1. p = session
        BY <2>4, <3>1 DEF Find
      <4>2. poller' = [poller EXCEPT ![p].queue = session,
                ![p].pc = IF Len(queues[SourceIn(p)]) = QueueSize THEN "evict" ELSE "put"]
        BY <2>4, <3>1 DEF Find
      <4>3. /\ \A u \in Poller \ {p} : poller'[u] = poller[u]
            /\ poller'[p].next = poller[p].next
            /\ poller'[p].pc = IF Len(queues[SourceIn(p)]) = QueueSize THEN "evict" ELSE "put"
        BY <1>1, <4>2 DEF TypeOK
      <4> QED
        BY <2>4, <3>1, <4>1, <4>3 DEF Find, SourceIn
    <3>2. CASE ~Present
      BY <1>1, <2>4, <3>2 DEF Find, Abandon, TypeOK
    <3> QED
      BY <3>1, <3>2
  <2> QED
    BY <2>1, <2>2, <2>3, <2>4
<1>4. \A u \in Poller : poller'[u].queue = session => u = session
  BY <1>1, <1>3 DEF Undisturbed
<1>5. /\ poller'[session].next \in Nat /\ poller[session].next \in Nat
      /\ poller[session].next <= poller'[session].next
      /\ open => poller'[session].next = poller[session].next
  <2>1. poller[session].next \in Nat /\ poller[session].ticket \in Nat
        /\ poller[session].next <= poller[session].ticket + 1
    BY DEF Inv, TypeOK, PollerOK
  <2> QED
    BY <1>3, <2>1
<1>6. ASSUME NEW s \in Source, Present PROVE Rising(All(s)', poller'[session].next)
  <2>1. Rising(All(s), poller[session].next) /\ All(s)' = All(s)
    BY <1>1, <1>2, <1>6 DEF Undisturbed, All
  <2>2. All(s) \in Seq(Nat)
    BY <1>1, <1>6, Delivered
  <2> HIDE DEF All
  <2>3. \A i \in 1..Len(All(s)) : All(s)[i] \in Nat
    BY <2>2, ElementOfSeq
  <2> QED
    BY <1>5, <2>1, <2>3 DEF Rising
<1>7. ASSUME Present, poller'[session].pc = "put"
      PROVE  Len(queues[SourceOf[poller'[session].next]]) < QueueSize
  <2>1. CASE p # session
    BY <1>1, <1>3, <1>7, <2>1 DEF Undisturbed, SourceIn
  <2>2. CASE p = session
    <3>1. SourceIn(p) \in Source /\ Len(queues[SourceIn(p)]) # QueueSize
          /\ SourceOf[poller'[session].next] = SourceIn(p)
      BY <1>3, <1>7, <2>2, AtResult DEF SourceIn
    <3>2. Len(queues[SourceIn(p)]) \in Nat /\ Len(queues[SourceIn(p)]) <= QueueSize
      BY <1>1, <1>7, <3>1, QueueOK DEF Present
    <3> QED
      BY <2>2, <3>1, <3>2, QueryAssumption DEF QueryAssumption
  <2> QED
    BY <2>1, <2>2
<1> QED
  BY <1>1, <1>2, <1>4, <1>5, <1>6, <1>7 DEF Undisturbed, Present, All, SourceIn

\* The source and the queue of a thread that is about to change one.
LEMMA InHand ==
  ASSUME Inv, InvU, session \in Poller, ~crowded, NEW p \in Poller,
         poller[p].pc \in {"evict", "put"}, InUse(p)
  PROVE  p = session /\ Present /\ SourceIn(p) \in Source
BY AtResult DEF InvU, Undisturbed, InUse

\* Making room drops the oldest result, in two steps with the put that follows.
LEMMA EvictU ==
  ASSUME Inv, InvU, NEW p \in Poller, Evict(p)
  PROVE  InvU'
<1> SUFFICES ASSUME session \in Poller, ~crowded PROVE InvU'
  BY DEF InvU, Evict
<1>0. PICK r : r = SourceIn(p)
  OBVIOUS
<1>1. Undisturbed /\ TypeOK /\ poller[p].pc = "evict" /\ MaxResults \in Nat
      /\ QueueSize \in Nat \ {0}
  BY QueryAssumption DEF QueryAssumption, Inv, InvU, Evict
<1>2. /\ \A u \in Poller \ {p} : poller'[u] = poller[u]
      /\ poller'[p] = [poller[p] EXCEPT !.pc = "put"]
      /\ UNCHANGED <<shown, session, open, crowded>>
      /\ IF InUse(p) /\ queues[r] # <<>>
         THEN /\ queues' = [queues EXCEPT ![r] = Tail(queues[r])]
              /\ evicted' = evicted \cup {Head(queues[r])}
         ELSE UNCHANGED <<queues, evicted>>
  BY <1>0, <1>1 DEF Evict, Go, TypeOK
<1>3. /\ poller'[p].queue = poller[p].queue /\ poller'[p].next = poller[p].next
      /\ poller'[p].pc = "put"
  BY <1>1, <1>2 DEF TypeOK
<1>4. CASE ~InUse(p)
  <2>1. p # session \/ (~Present /\ ~open)
    BY <1>1, <1>4 DEF Inv, PollerOK, InUse, Opened
  <2>2. UNCHANGED <<queues, shown, session, open, crowded, evicted>>
    BY <1>2, <1>4
  <2>3. /\ (Present' <=> Present) /\ \A s : All(s)' = All(s)
        /\ \A u \in Poller : poller'[u].queue = poller[u].queue
        /\ poller'[session].next = poller[session].next
    BY <1>2, <1>3, <2>2 DEF Present, All
  <2>4. CASE p # session
    <3>1. poller'[session] = poller[session] /\ SourceIn(session)' = SourceIn(session)
          /\ queues' = queues /\ session' = session /\ open' = open /\ evicted' = evicted
      BY <1>2, <2>2, <2>4 DEF SourceIn
    <3> QED
      BY <1>1, <2>3, <3>1 DEF InvU, Undisturbed
  <2>5. CASE ~Present /\ ~open
    BY <1>1, <2>2, <2>3, <2>5 DEF InvU, Undisturbed
  <2> QED
    BY <2>1, <2>4, <2>5
<1>5. CASE InUse(p) /\ queues[r] = <<>>
  <2>1. p = session /\ Present /\ r \in Source
    BY <1>0, <1>1, <1>5, InHand
  <2>2. Len(queues[r]) < QueueSize
    BY <1>1, <1>5, EmptySeq
  <2> QED
    <3>1. /\ UNCHANGED <<queues, shown, session, open, crowded, evicted>>
          /\ poller'[session].next = poller[session].next /\ SourceIn(session)' = r
          /\ \A u \in Poller : poller'[u].queue = poller[u].queue
      BY <1>0, <1>2, <1>3, <1>5, <2>1 DEF SourceIn
    <3>2. (Present' <=> Present) /\ \A s : All(s)' = All(s)
      BY <3>1 DEF Present, All
    <3> QED
      BY <1>1, <2>2, <3>1, <3>2 DEF InvU, Undisturbed
<1>6. CASE InUse(p) /\ queues[r] # <<>>
  <2>1. p = session /\ Present /\ r \in Source /\ r \in DOMAIN queues
    BY <1>0, <1>1, <1>6, InHand DEF Present
  <2>2. /\ queues' = [queues EXCEPT ![r] = Tail(queues[r])]
        /\ evicted' = evicted \cup {Head(queues[r])}
    BY <1>2, <1>6
  <2>3. /\ Present' /\ queues'[r] = Tail(queues[r])
        /\ \A s \in Source \ {r} : queues'[s] = queues[s]
    BY <2>1, <2>2 DEF Present
  <2>4. shown[r] \in Seq(Nat) /\ queues[r] \in Seq(Nat)
        /\ Rising(shown[r] \o queues[r], poller[session].next) /\ poller[session].next \in Nat
    BY <1>1, <2>1, Delivered DEF Undisturbed, All, TypeOK
  <2>5. /\ Rising(shown[r] \o Tail(queues[r]), poller[session].next)
        /\ RangeOf(shown[r] \o queues[r]) \subseteq
             RangeOf(shown[r] \o Tail(queues[r])) \cup {Head(queues[r])}
    BY <1>6, <2>4, RisingDrop
  <2>6. /\ \A s \in Source : Rising(All(s)', poller[session].next)
        /\ \A s \in Source : RangeOf(All(s)) \subseteq RangeOf(All(s)') \cup evicted'
    BY <1>1, <1>2, <2>1, <2>2, <2>3, <2>5 DEF Undisturbed, All
  <2>7. Len(queues'[r]) < QueueSize
    <3>1. Len(queues[r]) \in Nat /\ Len(queues[r]) <= QueueSize
          /\ Len(Tail(queues[r])) = Len(queues[r]) - 1
      BY <1>1, <1>6, <2>1, QueueOK
    <3> QED
      BY <1>1, <2>3, <3>1
  <2>8. ASSUME open, NEW n \in 1..(poller[session].next - 1)
        PROVE  n \in RangeOf(All(SourceOf[n])') \cup evicted'
    <3>1. SourceOf[n] \in Source
      BY <1>1, QueryAssumption DEF QueryAssumption, TypeOK
    <3>2. n \in RangeOf(All(SourceOf[n])) \cup evicted
      BY <1>1, <2>8 DEF Undisturbed
    <3> QED
      BY <2>2, <2>6, <3>1, <3>2
  <2>9. poller'[session].next = poller[session].next /\ SourceIn(session)' = r
        /\ \A u \in Poller : poller'[u].queue = poller[u].queue
    BY <1>0, <1>2, <1>3, <2>1 DEF SourceIn
  <2> QED
    BY <1>1, <1>2, <2>1, <2>3, <2>6, <2>7, <2>8, <2>9 DEF InvU, Undisturbed
<1> QED
  BY <1>4, <1>5, <1>6

\* Putting the result due.
LEMMA PutU ==
  ASSUME Inv, InvU, NEW p \in Poller, Put(p)
  PROVE  InvU'
<1> SUFFICES ASSUME session \in Poller, ~crowded PROVE InvU'
  BY DEF InvU, Put
<1>0. PICK r, n : r = SourceIn(p) /\ n = poller[p].next
  OBVIOUS
<1>1. Undisturbed /\ TypeOK /\ poller[p].pc = "put" /\ MaxResults \in Nat
  BY QueryAssumption DEF QueryAssumption, Inv, InvU, Put
<1>2. /\ \A u \in Poller \ {p} : poller'[u] = poller[u]
      /\ poller'[p] = [poller[p] EXCEPT !.pc = "parse", !.next = n + 1]
      /\ UNCHANGED <<shown, session, open, crowded, evicted>>
      /\ IF InUse(p) /\ Len(queues[r]) < QueueSize
         THEN queues' = [queues EXCEPT ![r] = Append(queues[r], n)]
         ELSE UNCHANGED queues
  BY <1>0, <1>1 DEF Put, TypeOK
<1>3. /\ poller'[p].queue = poller[p].queue /\ poller'[p].next = n + 1
      /\ poller'[p].pc = "parse"
  BY <1>1, <1>2 DEF TypeOK
<1>4. CASE ~InUse(p)
  <2>1. p # session \/ (~Present /\ ~open)
    BY <1>1, <1>4 DEF Inv, PollerOK, InUse, Opened
  <2>2. UNCHANGED <<queues, shown, session, open, crowded, evicted>>
    BY <1>2, <1>4
  <2>3. /\ (Present' <=> Present) /\ \A s : All(s)' = All(s)
        /\ \A u \in Poller : poller'[u].queue = poller[u].queue
    BY <1>2, <1>3, <2>2 DEF Present, All
  <2>4. CASE p # session
    <3>1. poller'[session] = poller[session] /\ SourceIn(session)' = SourceIn(session)
          /\ queues' = queues /\ session' = session /\ open' = open /\ evicted' = evicted
      BY <1>2, <2>2, <2>4 DEF SourceIn
    <3> QED
      BY <1>1, <2>3, <3>1 DEF InvU, Undisturbed
  <2>5. CASE ~Present /\ ~open
    BY <1>1, <2>2, <2>3, <2>5 DEF InvU, Undisturbed
  <2> QED
    BY <2>1, <2>4, <2>5
<1>5. CASE InUse(p)
  <2>1. p = session /\ Present /\ r \in Source /\ r \in DOMAIN queues
    BY <1>0, <1>1, <1>5, InHand DEF Present
  <2>2. queues' = [queues EXCEPT ![r] = Append(queues[r], n)]
    BY <1>0, <1>1, <1>2, <1>5, <2>1 DEF Undisturbed
  <2>3. /\ Present' /\ queues'[r] = Append(queues[r], n)
        /\ \A s \in Source \ {r} : queues'[s] = queues[s]
    BY <2>1, <2>2 DEF Present
  <2>4. /\ shown[r] \in Seq(Nat) /\ queues[r] \in Seq(Nat) /\ n \in Nat
        /\ All(r) \in Seq(Nat) /\ Rising(All(r), n)
    BY <1>0, <1>1, <2>1, Delivered, SMTT(30) DEF Undisturbed, TypeOK
  <2>5. All(r)' = Append(All(r), n)
    <3>1. shown[r] \o Append(queues[r], n) = Append(shown[r] \o queues[r], n)
      <4>1. shown[r] \in Seq(Nat) /\ queues[r] \in Seq(Nat) /\ n \in Nat
        BY <2>4
      <4> QED
        BY <4>1, AddLast
    <3> QED
      BY <1>2, <2>3, <3>1 DEF All
  <2>6. /\ Rising(All(r)', n + 1) /\ n \in RangeOf(All(r)')
        /\ RangeOf(All(r)) \subseteq RangeOf(All(r)')
    BY <2>4, <2>5, RisingAppend
  <2>7. \A s \in Source \ {r} : All(s)' = All(s)
    BY <1>2, <2>3 DEF All
  <2>8. ASSUME NEW s \in Source \ {r} PROVE Rising(All(s)', n + 1)
    <3>1. Rising(All(s), n) /\ All(s) \in Seq(Nat)
      BY <1>0, <1>1, <2>1, Delivered DEF Undisturbed
    <3> HIDE DEF All
    <3>2. \A i \in 1..Len(All(s)) : All(s)[i] \in Nat
      BY <3>1, ElementOfSeq
    <3> QED
      BY <2>4, <2>7, <3>1, <3>2 DEF Rising
  <2>9. ASSUME open, NEW m \in 1..n
        PROVE  m \in RangeOf(All(SourceOf[m])') \cup evicted'
    <3>1. CASE m = n
      BY <1>0, <1>2, <2>6, <3>1 DEF SourceIn
    <3>2. CASE m # n
      <4>1. m \in 1..(n - 1) /\ SourceOf[m] \in Source
        <5>1. n \in 1..MaxResults /\ m \in 1..MaxResults
          BY <1>0, <1>1, AtResult
        <5> QED
          BY <3>2, <5>1, QueryAssumption DEF QueryAssumption
      <4>2. m \in RangeOf(All(SourceOf[m])) \cup evicted
        BY <1>0, <1>1, <2>1, <2>9, <4>1 DEF Undisturbed
      <4>3. CASE SourceOf[m] = r
        BY <1>2, <2>6, <4>2, <4>3
      <4>4. CASE SourceOf[m] # r
        BY <1>2, <2>7, <4>1, <4>2, <4>4
      <4> QED
        BY <4>3, <4>4
    <3> QED
      BY <3>1, <3>2
  <2>10. \A u \in Poller : poller'[u].queue = poller[u].queue
    BY <1>2, <1>3
  <2>11. n + 1 - 1 = n
    BY <2>4
  <2> QED
    <3>1. \A s \in Source : Rising(All(s)', n + 1)
      BY <2>6, <2>8
    <3>2. /\ poller'[session].next = n + 1 /\ poller'[session].pc = "parse"
          /\ session' = session /\ open' = open /\ evicted' = evicted
      BY <1>2, <1>3, <2>1
    <3>3. open' => \A m \in 1..(poller'[session].next - 1) :
                     m \in RangeOf(All(SourceOf[m])') \cup evicted'
      BY <2>4, <2>9, <2>11, <3>2
    <3>4. \A u \in Poller : poller'[u].queue = session => u = session
      BY <1>1, <2>10 DEF Undisturbed
    <3> QED
      BY <3>1, <3>2, <3>3, <3>4 DEF InvU, Undisturbed
<1> QED
  BY <1>4, <1>5

\* Every step keeps what holds of a query no other thread takes part in.
LEMMA NextU == Inv /\ InvU /\ [Next]_vars => InvU'
<1>1. ASSUME InvU, UNCHANGED vars PROVE InvU'
  BY <1>1 DEF InvU, Undisturbed, Present, All, SourceIn, vars
<1> QED
  BY <1>1, QuietU, StopU, SubmitU, StartU, DrainU, LookU, EvictU, PutU
  DEF Next, Handle, Poll

\* The invariant of the query holds in every reachable state: beyond the types,
\* all that was shown and waits is in order and, dropped results aside, complete.
THEOREM QueryInvariance == Spec => [](Inv /\ InvU)
<1> QED
  BY InitInv, NextInv, NextU, PTL DEF Spec

\* The page gets the results of each source in order and none twice, however the
\* thread's puts and evictions and the handler's reads interleave, as long as no
\* thread of an earlier query delivers to this one (run_get_result).
THEOREM ResultsInOrder == Spec => []InOrder
<1>1. ASSUME Inv, InvU, ~crowded, NEW s \in DOMAIN queues
      PROVE  LET all == shown[s] \o queues[s]
             IN  \A i, j \in DOMAIN all : i < j => all[i] < all[j]
  <2>1. CASE session \in Poller
    <3>1. Undisturbed /\ TypeOK /\ Present /\ s \in Source
      BY <1>1, <2>1 DEF Inv, InvU, TypeOK, Present
    <3>2. Rising(All(s), poller[session].next) /\ All(s) \in Seq(Nat)
      BY <3>1, Delivered DEF Undisturbed
    <3>3. DOMAIN All(s) = 1..Len(All(s))
      BY <3>2, LenProperties
    <3> QED
      BY <3>2, <3>3 DEF Rising, All
  <2>2. CASE session \notin Poller
    BY <1>1, <2>2 DEF Inv, Opened
  <2> QED
    BY <2>1, <2>2
<1>2. Inv /\ InvU => InOrder
  BY <1>1 DEF InOrder
<1> QED
  BY <1>2, QueryInvariance, PTL

\* The ticket that moves on before the results are parsed skips none of them, and
\* Queue.put, which drops the oldest in one step and adds in another, never loses
\* the newest, whenever the handler reads in between.
THEOREM NoneSkipped == Spec => []NothingSkipped
<1>1. ASSUME Inv, InvU, open, ~crowded, session > 0
      PROVE  \A n \in 1..(poller[session].next - 1) :
               LET s == SourceOf[n]
               IN  n \in RangeOf(shown[s]) \cup RangeOf(queues[s]) \cup evicted
  <2>1. session \in Poller /\ Undisturbed /\ TypeOK /\ Present
    BY <1>1 DEF Inv, InvU, Opened
  <2>2. ASSUME NEW n \in 1..(poller[session].next - 1)
        PROVE  SourceOf[n] \in Source /\ n \in RangeOf(All(SourceOf[n])) \cup evicted
    BY <1>1, <2>1, QueryAssumption DEF QueryAssumption, Undisturbed, TypeOK
  <2> QED
    BY <2>1, <2>2, Delivered
<1>2. Inv /\ InvU => NothingSkipped
  BY <1>1 DEF NothingSkipped
<1> QED
  BY <1>2, QueryInvariance, PTL

=============================================================================
