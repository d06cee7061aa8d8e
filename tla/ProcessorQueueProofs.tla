------------------------ MODULE ProcessorQueueProofs ------------------------
(* Proofs about ProcessorQueue, for every limit, size and kind of queue.   *)
EXTENDS ProcessorQueue, TLAPS

\* The queue holds the newest tasks without a gap: the i-th of them has as many
\* tasks after it in the order of puts as behind it in the queue.
Consecutive ==
  /\ Len(queue) <= count
  /\ \A i \in 1..Len(queue) : queue[i] + Len(queue) = count + i

\* All older tasks have left.
Left == ({current} \ {0}) \cup ended \cup dropped \cup cleared
OlderLeft == Left = {t \in 1..count : t + Len(queue) <= count}

\* A task has left for one reason only.
OneReason ==
  /\ current \notin ended \cup dropped \cup cleared
  /\ ended \cap dropped = {} /\ ended \cap cleared = {} /\ dropped \cap cleared = {}

Inv == TypeOK /\ Consecutive /\ OlderLeft /\ OneReason /\ SizeBound

\* What SubSeq does to the two ends of a sequence.
LEMMA Halves ==
  ASSUME NEW S, NEW s \in Seq(S), NEW n \in 0..Len(s)
  PROVE  /\ First(s, n) \in Seq(S) /\ Len(First(s, n)) = n
         /\ \A i \in 1..n : First(s, n)[i] = s[i]
         /\ Rest(s, n) \in Seq(S) /\ Len(Rest(s, n)) = Len(s) - n
         /\ \A i \in 1..(Len(s) - n) : Rest(s, n)[i] = s[i + n]
<1>1. /\ First(s, n) \in Seq(S) /\ Len(First(s, n)) = n
      /\ \A i \in 1..n : First(s, n)[i] = s[i]
  BY DEF First
<1>2. /\ Rest(s, n) \in Seq(S) /\ Len(Rest(s, n)) = Len(s) - n
      /\ \A i \in 1..(Len(s) - n) : Rest(s, n)[i] = s[i + n]
  BY DEF Rest
<1> QED
  BY <1>1, <1>2

\* The oldest n tasks of the queue are those with the numbers below.
LEMMA OldestTaken ==
  ASSUME Inv, NEW n \in 0..Len(queue)
  PROVE  Range(First(queue, n)) =
           {t \in 1..count : count < t + Len(queue) /\ t + Len(queue) <= count + n}
<1> DEFINE T == {t \in 1..count : count < t + Len(queue) /\ t + Len(queue) <= count + n}
<1>1. queue \in Seq(Nat) /\ count \in Nat /\ Consecutive
  BY DEF Inv, TypeOK
<1>2. /\ First(queue, n) \in Seq(Nat) /\ Len(First(queue, n)) = n
      /\ \A i \in 1..n : First(queue, n)[i] = queue[i]
  BY <1>1, Halves
<1>3. Range(First(queue, n)) = {queue[i] : i \in 1..n}
  BY <1>2 DEF Range
<1>4. ASSUME NEW i \in 1..n PROVE queue[i] \in T
  <2>1. i \in 1..Len(queue) /\ queue[i] \in Nat /\ queue[i] + Len(queue) = count + i
    BY <1>1 DEF Consecutive
  <2> QED
    BY <1>1, <2>1 DEF Consecutive
<1>5. ASSUME NEW t \in T PROVE \E i \in 1..n : t = queue[i]
  <2>1. t + Len(queue) - count \in 1..n
    BY <1>1
  <2>2. queue[t + Len(queue) - count] \in Nat
        /\ queue[t + Len(queue) - count] + Len(queue) = count + (t + Len(queue) - count)
    BY <1>1, <2>1 DEF Consecutive
  <2>3. t = queue[t + Len(queue) - count]
    BY <1>1, <2>1, <2>2
  <2> QED
    BY <2>1, <2>3
<1> HIDE DEF T
<1> QED
  BY <1>3, <1>4, <1>5 DEF T

\* The queue is empty at first.
LEMMA InitInv == Init => Inv
<1> SUFFICES ASSUME Init PROVE Inv
  OBVIOUS
<1>1. Len(queue) = 0 /\ queue \in Seq(Nat) /\ count = 0 /\ MaxPuts \in Nat
  BY QueueAssumption DEF Init, QueueAssumption
<1>2. TypeOK /\ Consecutive /\ SizeBound
  BY <1>1 DEF Init, TypeOK, Consecutive, SizeBound
<1>3. OlderLeft /\ OneReason
  BY <1>1 DEF Init, OlderLeft, Left, OneReason
<1> QED
  BY <1>2, <1>3 DEF Inv

\* A task that waits has not left, and what has left is older than what waits.
LEMMA WaitingIsNewer ==
  ASSUME Inv, NEW i \in 1..Len(queue)
  PROVE  queue[i] \in 1..count /\ queue[i] \notin Left
<1>1. queue \in Seq(Nat) /\ count \in Nat /\ queue[i] \in Nat /\ queue[i] + Len(queue) = count + i
      /\ Len(queue) <= count
  BY DEF Inv, TypeOK, Consecutive
<1> QED
  BY <1>1 DEF Inv, OlderLeft

\* Putting a task, which may drop the older half, keeps the invariant.
LEMMA PutStep == Inv /\ Put => Inv'
<1> SUFFICES ASSUME Inv, Put PROVE Inv'
  OBVIOUS
<1> DEFINE n == Overflow
           out == Range(First(queue, n))
<1>1. /\ queue \in Seq(Nat) /\ count \in Nat /\ Len(queue) \in Nat
      /\ Consecutive /\ OlderLeft /\ OneReason /\ SizeBound /\ count < MaxPuts /\ MaxPuts \in Nat
  BY QueueAssumption DEF Inv, TypeOK, Put, QueueAssumption
<1>2. n \in 0..Len(queue)
  BY <1>1 DEF Overflow
<1>3. out = {t \in 1..count : count < t + Len(queue) /\ t + Len(queue) <= count + n}
  BY <1>2, OldestTaken
<1>4. /\ Rest(queue, n) \in Seq(Nat) /\ Len(Rest(queue, n)) = Len(queue) - n
      /\ \A i \in 1..(Len(queue) - n) : Rest(queue, n)[i] = queue[i + n]
  BY <1>1, <1>2, Halves
<1>5. /\ queue' \in Seq(Nat) /\ Len(queue') = Len(queue) - n + 1
      /\ \A i \in 1..(Len(queue) - n) : queue'[i] = queue[i + n]
      /\ queue'[Len(queue) - n + 1] = count + 1
  BY <1>1, <1>2, <1>4 DEF Put
<1>6. /\ count' = count + 1 /\ dropped' = dropped \cup out
      /\ UNCHANGED <<loop, current, ended, cleared>>
  BY DEF Put
<1> HIDE DEF n, out
<1>a. Len(queue') = Len(queue) - n + 1 /\ n \in Nat /\ Len(queue) \in Nat /\ count \in Nat
  BY <1>1, <1>2, <1>5
<1>7. TypeOK'
  <2>1. out \subseteq 1..count
    BY <1>3
  <2>2. count' \in 0..MaxPuts
    BY <1>1, <1>6
  <2>3. current' \in 0..count' /\ ended' \subseteq 1..count' /\ cleared' \subseteq 1..count'
    BY <1>1, <1>6 DEF Inv, TypeOK
  <2>4. dropped' \subseteq 1..count'
    BY <1>1, <1>6, <2>1 DEF Inv, TypeOK
  <2> QED
    BY <1>5, <1>6, <2>2, <2>3, <2>4 DEF Inv, TypeOK
<1>8. Consecutive'
  <2>1. Len(queue') <= count'
    BY <1>1, <1>2, <1>5, <1>6 DEF Consecutive
  <2>2. ASSUME NEW i \in 1..Len(queue') PROVE queue'[i] + Len(queue') = count' + i
    <3>1. CASE i = Len(queue) - n + 1
      <4>1. queue'[i] = count + 1
        BY <1>5, <3>1
      <4> QED
        BY <1>1, <1>2, <1>5, <1>6, <3>1, <4>1
    <3>2. CASE i # Len(queue) - n + 1
      <4>1. i \in 1..(Len(queue) - n) /\ i + n \in 1..Len(queue)
        BY <1>1, <1>2, <1>5, <3>2, SMTT(30)
      <4>2. queue'[i] = queue[i + n] /\ queue[i + n] + Len(queue) = count + (i + n)
        BY <1>1, <1>5, <4>1 DEF Consecutive
      <4>3. queue[i + n] \in Nat
        BY <1>1, <4>1
      <4>4. queue[i + n] + (Len(queue) - n + 1) = (count + 1) + i
        BY <1>a, <4>1, <4>2, <4>3
      <4> QED
        BY <1>a, <1>6, <4>2, <4>4, Zenon
    <3> QED
      BY <3>1, <3>2
  <2> QED
    BY <2>1, <2>2 DEF Consecutive
<1>9. OlderLeft'
  <2>1. Left' = Left \cup out
    BY <1>6 DEF Left
  <2>2. Left' = {t \in 1..count : t + Len(queue) <= count + n}
    BY <1>1, <1>2, <1>3, <2>1 DEF OlderLeft
  <2>3. {t \in 1..count : t + Len(queue) <= count + n}
          = {t \in 1..(count + 1) : t + (Len(queue) - n + 1) <= count + 1}
    BY <1>1, <1>2 DEF Consecutive
  <2> QED
    BY <1>5, <1>6, <2>2, <2>3 DEF OlderLeft
<1>10. OneReason'
  <2>1. \A t \in out : t \notin Left
    BY <1>1, <1>3 DEF OlderLeft
  <2>2. \A t \in out : t # 0
    BY <1>3
  <2> QED
    BY <1>1, <1>6, <2>1, <2>2 DEF OneReason, Left
<1>11. SizeBound'
  <2> SUFFICES ASSUME Limited PROVE Len(queue') <= MaxSize \/ Len(queue') <= 2
    BY DEF SizeBound
  <2>1. MaxSize \in Nat /\ (Len(queue) <= MaxSize \/ Len(queue) <= 2)
    BY <1>1, QueueAssumption DEF SizeBound, QueueAssumption
  <2>2. CASE Len(queue) < MaxSize
    BY <1>1, <1>2, <1>5, <2>1, <2>2
  <2>3. CASE Len(queue) >= MaxSize
    <3>1. n = Len(queue) \div 2
      BY <2>3, Zenon DEF n, Overflow
    <3>2. n \in Nat /\ Len(queue) \in {2 * n, 2 * n + 1}
      BY <1>1, <3>1
    <3> QED
      BY <1>a, <2>1, <2>3, <3>2
  <2> QED
    BY <1>1, <2>1, <2>2, <2>3
<1> QED
  BY <1>7, <1>8, <1>9, <1>10, <1>11 DEF Inv

\* Taking the n oldest tasks keeps the numbers of the others in step.
LEMMA TakeOldest ==
  ASSUME Inv, NEW n \in 0..Len(queue), queue' = Rest(queue, n), count' = count
  PROVE  /\ queue' \in Seq(Nat) /\ Len(queue') = Len(queue) - n
         /\ Consecutive' /\ SizeBound'
         /\ {t \in 1..count' : t + Len(queue') <= count'} = Left \cup Range(First(queue, n))
<1>1. /\ queue \in Seq(Nat) /\ count \in Nat /\ Len(queue) \in Nat /\ n \in Nat
      /\ Len(queue) <= count /\ OlderLeft
  BY DEF Inv, TypeOK, Consecutive
<1>2. /\ queue' \in Seq(Nat) /\ Len(queue') = Len(queue) - n
      /\ \A i \in 1..(Len(queue) - n) : queue'[i] = queue[i + n]
  BY <1>1, Halves
<1>3. Consecutive'
  <2>1. Len(queue') <= count'
    BY <1>1, <1>2
  <2>2. ASSUME NEW i \in 1..Len(queue') PROVE queue'[i] + Len(queue') = count' + i
    <3>1. i \in Nat /\ i + n \in 1..Len(queue) /\ queue'[i] = queue[i + n]
      BY <1>1, <1>2
    <3>2. queue[i + n] \in Nat /\ queue[i + n] + Len(queue) = count + (i + n)
      BY <1>1, <3>1 DEF Inv, Consecutive
    <3>a. i \in Nat /\ n \in Nat /\ Len(queue) \in Nat /\ count \in Nat
      BY <1>1, <3>1
    <3>3. queue[i + n] + (Len(queue) - n) = count + i
      BY <3>a, <3>2
    <3> QED
      BY <1>2, <3>1, <3>3, Zenon
  <2> QED
    BY <2>1, <2>2 DEF Consecutive
<1>4. SizeBound'
  <2> SUFFICES ASSUME Limited PROVE Len(queue') <= MaxSize \/ Len(queue') <= 2
    BY DEF SizeBound
  <2>1. Len(queue) <= MaxSize \/ Len(queue) <= 2
    BY DEF Inv, SizeBound
  <2>2. Len(queue') \in Nat /\ Len(queue') <= Len(queue)
    BY <1>1, <1>2
  <2> QED
    BY <1>1, <2>1, <2>2, QueueAssumption DEF QueueAssumption
<1>5. {t \in 1..count' : t + Len(queue') <= count'} = Left \cup Range(First(queue, n))
  <2>1. Range(First(queue, n)) =
          {t \in 1..count : count < t + Len(queue) /\ t + Len(queue) <= count + n}
    BY OldestTaken
  <2>2. Left = {t \in 1..count : t + Len(queue) <= count}
    BY <1>1 DEF OlderLeft
  <2>3. \A t \in 1..count : t + (Len(queue) - n) <= count <=>
           \/ t + Len(queue) <= count
           \/ count < t + Len(queue) /\ t + Len(queue) <= count + n
    BY <1>1
  <2>4. {t \in 1..count' : t + Len(queue') <= count'}
          = {t \in 1..count : t + (Len(queue) - n) <= count}
    BY <1>2
  <2> QED
    BY <2>1, <2>2, <2>3, <2>4, Zenon
<1> QED
  BY <1>2, <1>3, <1>4, <1>5

\* Clearing all or a number of tasks keeps it.
LEMMA ClearStep ==
  ASSUME Inv, NEW limit \in ClearLimits, Clear(limit)
  PROVE  Inv'
<1> DEFINE n == IF limit = 0 THEN Len(queue) ELSE AtMost(limit, Len(queue))
           out == Range(First(queue, n))
<1>1. n \in 0..Len(queue)
  <2>1. Len(queue) \in Nat /\ limit \in Nat
    BY QueueAssumption DEF Inv, TypeOK, QueueAssumption
  <2> QED
    BY <2>1 DEF AtMost
<1>2. /\ queue' = Rest(queue, n) /\ cleared' = cleared \cup out
      /\ UNCHANGED <<count, loop, current, ended, dropped>>
  BY DEF Clear
<1> HIDE DEF n
<1>3. /\ queue' \in Seq(Nat) /\ Consecutive' /\ SizeBound'
      /\ {t \in 1..count' : t + Len(queue') <= count'} = Left \cup out
  BY <1>1, <1>2, TakeOldest
<1>4. out = {t \in 1..count : count < t + Len(queue) /\ t + Len(queue) <= count + n}
  BY <1>1, OldestTaken
<1> HIDE DEF out
<1>5. TypeOK'
  BY <1>2, <1>3, <1>4 DEF Inv, TypeOK
<1>6. OlderLeft'
  BY <1>2, <1>3 DEF OlderLeft, Left
<1>7. OneReason'
  <2>1. \A t \in out : t \notin Left /\ t # 0
    BY <1>4 DEF Inv, TypeOK, OlderLeft
  <2> QED
    BY <1>2, <2>1 DEF Inv, OneReason, Left
<1> QED
  BY <1>3, <1>5, <1>6, <1>7 DEF Inv

\* The loop's get keeps it, of an empty queue also.
LEMMA GetStep == Inv /\ Get => Inv'
<1> SUFFICES ASSUME Inv, Get PROVE Inv'
  OBVIOUS
<1>1. queue \in Seq(Nat) /\ Len(queue) \in Nat /\ count \in Nat /\ current = 0
  BY DEF Inv, TypeOK, Get
<1>2. CASE queue = <<>>
  BY <1>2 DEF Inv, Get, TypeOK, Consecutive, OlderLeft, Left, OneReason, SizeBound
<1>3. CASE queue # <<>>
  <2>1. /\ loop' = "busy" /\ current' = Head(queue) /\ queue' = Tail(queue)
        /\ UNCHANGED <<count, ended, dropped, cleared>>
    BY <1>3 DEF Get
  <2>2. 1 \in 0..Len(queue) /\ 1 \in 1..Len(queue)
    BY <1>1, <1>3
  <2>3. Tail(queue) = Rest(queue, 1) /\ Head(queue) = queue[1]
    BY <1>1, <1>3 DEF Rest
  <2>4. /\ queue' \in Seq(Nat) /\ Consecutive' /\ SizeBound'
        /\ {t \in 1..count' : t + Len(queue') <= count'} = Left \cup Range(First(queue, 1))
    BY <2>1, <2>2, <2>3, TakeOldest
  <2>5. Range(First(queue, 1)) = {current'}
    <3>1. /\ First(queue, 1) \in Seq(Nat) /\ Len(First(queue, 1)) = 1
          /\ \A i \in 1..1 : First(queue, 1)[i] = queue[i]
      BY <1>1, <2>2, Halves, Zenon
    <3>2. First(queue, 1)[1] = queue[1] /\ DOMAIN First(queue, 1) = {1}
      BY <3>1
    <3> QED
      BY <2>1, <2>3, <3>2 DEF Range
  <2>6. current' \in 1..count /\ current' \notin Left
    BY <2>1, <2>2, <2>3, WaitingIsNewer
  <2>7. TypeOK'
    BY <1>1, <2>1, <2>4, <2>6 DEF Inv, TypeOK
  <2>8. OlderLeft'
    BY <1>1, <2>1, <2>4, <2>5, <2>6 DEF OlderLeft, Left
  <2>9. OneReason'
    BY <2>1, <2>6 DEF Inv, OneReason, Left
  <2> QED
    BY <2>4, <2>7, <2>8, <2>9 DEF Inv
<1> QED
  BY <1>2, <1>3

\* The invariant holds in every reachable state.
THEOREM Invariance == Spec => []Inv
<1>1. Init => Inv
  BY InitInv
<1>2. Inv /\ [Next]_vars => Inv'
  <2> SUFFICES ASSUME Inv, [Next]_vars PROVE Inv'
    OBVIOUS
  <2>1. CASE Put
    BY <2>1, PutStep
  <2>2. CASE Look
    BY <2>2 DEF Inv, Look, TypeOK, Consecutive, OlderLeft, Left, OneReason, SizeBound
  <2>3. CASE Get
    BY <2>3, GetStep
  <2>4. CASE Finish
    <3>1. current # 0 /\ current \in 1..count
      BY <2>4 DEF Inv, TypeOK, Finish
    <3>2. TypeOK' /\ OneReason'
      BY <2>4, <3>1 DEF Inv, Finish, TypeOK, OneReason
    <3>3. Left' = Left
      BY <2>4, <3>1 DEF Finish, Left
    <3> QED
      BY <2>4, <3>2, <3>3 DEF Inv, Finish, Consecutive, OlderLeft, SizeBound
  <2>5. CASE \E limit \in ClearLimits : Clear(limit)
    BY <2>5, ClearStep
  <2>6. CASE UNCHANGED vars
    BY <2>6 DEF Inv, vars, TypeOK, Consecutive, OlderLeft, Left, OneReason, SizeBound
  <2> QED
    BY <2>1, <2>2, <2>3, <2>4, <2>5, <2>6 DEF Next
<1> QED
  BY <1>1, <1>2, PTL DEF Spec

\* Type correctness.
THEOREM TypeCorrect == Spec => []TypeOK
<1>1. Inv => TypeOK
  BY DEF Inv
<1> QED
  BY <1>1, Invariance, PTL

\* A limited queue never outgrows its limit, or two.
THEOREM Bounded == Spec => []SizeBound
<1>1. Inv => SizeBound
  BY DEF Inv
<1> QED
  BY <1>1, Invariance, PTL

\* Tasks leave in the order they came, whichever way they leave.
THEOREM InOrder == Spec => []FirstInFirstOut
<1>1. Inv => FirstInFirstOut
  <2> SUFFICES ASSUME Inv PROVE FirstInFirstOut
    OBVIOUS
  <2>1. /\ queue \in Seq(Nat) /\ count \in Nat /\ Len(queue) \in Nat
        /\ \A i \in 1..Len(queue) : queue[i] \in Nat /\ queue[i] + Len(queue) = count + i
    BY DEF Inv, TypeOK, Consecutive
  <2>2. \A i, j \in 1..Len(queue) : i < j => queue[i] < queue[j]
    BY <2>1, SMTT(30)
  <2>3. ASSUME NEW i \in 1..Len(queue), NEW t \in {current} \cup ended \cup dropped \cup cleared
        PROVE  t < queue[i]
    <3>1. t = 0 \/ t \in Left
      BY DEF Left
    <3>2. t = 0 \/ (t \in 1..count /\ t + Len(queue) <= count)
      BY <3>1 DEF Inv, OlderLeft
    <3>3. i \in Nat /\ 1 <= i /\ queue[i] \in Nat /\ queue[i] + Len(queue) = count + i
          /\ Len(queue) <= count
      BY <2>1 DEF Inv, Consecutive
    <3> QED
      BY <2>1, <3>2, <3>3
  <2> QED
    BY <2>2, <2>3 DEF FirstInFirstOut
<1> QED
  BY <1>1, Invariance, PTL

\* Every task received is in exactly one place, and none runs twice or runs
\* after it was reported as cleared.
THEOREM Conservation == Spec => []Conserved
<1>1. Inv => Conserved
  <2> SUFFICES ASSUME Inv PROVE Conserved
    OBVIOUS
  <2>1. /\ queue \in Seq(Nat) /\ count \in Nat /\ Len(queue) \in Nat /\ Len(queue) <= count
        /\ \A i \in 1..Len(queue) : queue[i] \in Nat /\ queue[i] + Len(queue) = count + i
    BY DEF Inv, TypeOK, Consecutive
  <2>2. Len(queue) \in 0..Len(queue) /\ First(queue, Len(queue)) = queue
    <3>1. /\ First(queue, Len(queue)) \in Seq(Nat) /\ Len(First(queue, Len(queue))) = Len(queue)
          /\ \A i \in 1..Len(queue) : First(queue, Len(queue))[i] = queue[i]
      BY <2>1, Halves, Len(queue) \in 0..Len(queue), Zenon
    <3> QED
      BY <2>1, <3>1
  <2>3. Range(queue) = {t \in 1..count : count < t + Len(queue)}
    <3>1. Range(queue) =
            {t \in 1..count : count < t + Len(queue) /\ t + Len(queue) <= count + Len(queue)}
      BY <2>2, OldestTaken
    <3> QED
      BY <2>1, <3>1
  <2>4. Left = {t \in 1..count : t + Len(queue) <= count}
    BY DEF Inv, OlderLeft
  <2>5. Range(queue) \cup Left = 1..count /\ Range(queue) \cap Left = {}
    BY <2>1, <2>3, <2>4
  <2>6. \A t \in 1..count : t # 0
    BY <2>1
  <2>7. Range(queue) \subseteq 1..count
    BY <2>3
  <2> QED
    BY <2>5, <2>6, <2>7, Zenon DEF Inv, OneReason, Left, Conserved
<1> QED
  BY <1>1, Invariance, PTL

=============================================================================
