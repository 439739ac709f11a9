---------------------------- MODULE MemoryProofs ----------------------------
(* Proofs about the server without Redis: its sorted array and its pump    *)
(* (MemoryPump), and the keys and responses beside them (MemoryResults).   *)
EXTENDS MemoryResults, FiniteSetTheorems, TLAPS

-----------------------------------------------------------------------------
(* The sort.                                                               *)

\* bulk has the rank of normal.
LEMMA SameRank == \A r : Rank(r) = 1
BY DEF Rank, PriorityOf, PRIORITY

\* Of items that came at different times the sort makes a sequence that holds each
\* once, in the order in which they came.
LEMMA SortSorts ==
    ASSUME NEW S, IsFiniteSet(S), NEW arrival, \A x \in S : arrival[x] \in Nat,
           \A x, y \in S : arrival[x] = arrival[y] => x = y
    PROVE  /\ Sort(S, arrival) \in Seq(S)
           /\ \A x \in S : \E i \in DOMAIN Sort(S, arrival) : Sort(S, arrival)[i] = x
           /\ \A i, j \in DOMAIN Sort(S, arrival) :
                  i < j => arrival[Sort(S, arrival)[i]] < arrival[Sort(S, arrival)[j]]
<1> DEFINE n == Cardinality(S)
           Earlier(x) == {y \in S : arrival[y] < arrival[x]}
           rank == [x \in S |-> Cardinality(Earlier(x)) + 1]
           s == Sort(S, arrival)
<1>1. n \in Nat
  BY FS_CardinalityType
<1>2. \A x \in S : Earlier(x) \in SUBSET S /\ IsFiniteSet(Earlier(x))
                   /\ Cardinality(Earlier(x)) \in Nat
  BY FS_Subset, FS_CardinalityType
<1>3. \A x \in S : Cardinality(Earlier(x)) < n
  <2> TAKE x \in S
  <2>1. x \notin Earlier(x)
    OBVIOUS
  <2>2. Cardinality(Earlier(x)) <= n /\ Cardinality(Earlier(x)) # n
    BY <1>2, <2>1, FS_Subset
  <2> QED
    BY <1>1, <1>2, <2>2
<1>4. ASSUME NEW x \in S, NEW y \in S, arrival[x] < arrival[y]
      PROVE  rank[x] < rank[y]
  <2>1. Earlier(x) \in SUBSET Earlier(y) /\ x \in Earlier(y) /\ x \notin Earlier(x)
    BY <1>4
  <2>2. Cardinality(Earlier(x)) <= Cardinality(Earlier(y))
        /\ Cardinality(Earlier(x)) # Cardinality(Earlier(y))
    BY <1>2, <2>1, FS_Subset
  <2> QED
    BY <1>2, <2>2
<1>5. rank \in Injection(S, 1 .. n)
  <2>1. rank \in [S -> 1 .. n]
    BY <1>1, <1>2, <1>3
  <2>2. ASSUME NEW x \in S, NEW y \in S, rank[x] = rank[y] PROVE x = y
    <3>1. rank[x] \in Nat /\ rank[y] \in Nat /\ arrival[x] \in Nat /\ arrival[y] \in Nat
      BY <1>1, <2>1
    <3>2. ~(arrival[x] < arrival[y]) /\ ~(arrival[y] < arrival[x])
      BY <1>4, <2>2, <3>1
    <3> QED
      BY <3>1, <3>2
  <2> HIDE DEF rank
  <2> QED
    BY <2>1, <2>2 DEF Injection, IsInjective
<1>6. IsFiniteSet(1 .. n) /\ Cardinality(1 .. n) = n
  BY <1>1, FS_Interval
<1>7. rank \in Surjection(S, 1 .. n)
  BY <1>5, <1>6, FS_Injection
<1>8. \A i \in 1 .. n : \E x \in S : rank[x] = i
  BY <1>7 DEF Surjection
<1>9. \A x \in S : {y \in S : Before(y, x, arrival)} = Earlier(x)
  BY SameRank DEF Before
<1>10. DOMAIN s = 1 .. n /\ \A i \in 1 .. n : s[i] \in S /\ rank[s[i]] = i
  <2>1. s = [i \in 1 .. n |->
               CHOOSE r \in S : Cardinality({q \in S : Before(q, r, arrival)}) = i - 1]
    BY DEF Sort
  <2>2. ASSUME NEW i \in 1 .. n PROVE s[i] \in S /\ rank[s[i]] = i
    <3>1. PICK x \in S : rank[x] = i
      BY <1>8
    <3>2. Cardinality({q \in S : Before(q, x, arrival)}) = i - 1
      BY <1>2, <1>9, <3>1
    <3>3. s[i] \in S /\ Cardinality({q \in S : Before(q, s[i], arrival)}) = i - 1
      BY <2>1, <3>2
    <3> QED
      BY <1>2, <1>9, <3>3
  <2> QED
    BY <2>1, <2>2
<1>11. s \in Seq(S)
  <2> DEFINE item(i) ==
        CHOOSE r \in S : Cardinality({q \in S : Before(q, r, arrival)}) = i - 1
  <2>1. s = [i \in 1 .. n |-> item(i)]
    BY DEF Sort
  <2> HIDE DEF item, n, rank, s
  <2>2. ASSUME NEW i \in 1 .. n PROVE item(i) \in S
    <3>1. s[i] = item(i)
      BY <2>1
    <3> QED
      BY <1>10, <3>1
  <2> QED
    BY <1>1, <2>1, <2>2
<1> HIDE DEF s, rank
<1>12. \A x \in S : \E i \in DOMAIN s : s[i] = x
  <2> HIDE DEF n
  <2> TAKE x \in S
  <2>1. rank[x] \in 1 .. n /\ DOMAIN rank = S
    BY <1>5 DEF Injection
  <2>2. rank[s[rank[x]]] = rank[x] /\ s[rank[x]] \in S
    BY <1>10, <2>1
  <2>3. s[rank[x]] = x
    BY <1>5, <2>1, <2>2 DEF Injection, IsInjective
  <2> QED
    BY <1>10, <2>1, <2>3
<1>13. ASSUME NEW i \in DOMAIN s, NEW j \in DOMAIN s, i < j
       PROVE  arrival[s[i]] < arrival[s[j]]
  <2>1. s[i] \in S /\ s[j] \in S /\ rank[s[i]] = i /\ rank[s[j]] = j /\ i \in Nat /\ j \in Nat
    BY <1>1, <1>10
  <2>2. ~(arrival[s[j]] < arrival[s[i]])
    BY <1>4, <1>13, <2>1
  <2>3. arrival[s[i]] # arrival[s[j]]
    BY <1>13, <2>1
  <2> QED
    BY <2>1, <2>2, <2>3
<1> QED
  BY <1>11, <1>12, <1>13 DEF s

-----------------------------------------------------------------------------
(* The queue, the loop and its turns.                                      *)

Loop == {"limiter", "finish"}

\* A request is in the array exactly if its place says so, and once.
Placed(queue, places) ==
    /\ queue \in Seq(Requests)
    /\ places \in [Requests -> Places]
    /\ \A i, j \in DOMAIN queue : queue[i] = queue[j] => i = j
    /\ \A r \in Requests : places[r] = "queued" <=> \E i \in DOMAIN queue : queue[i] = r

\* The loop, if it runs, has one request.
OneLooping(places, looping) ==
    /\ looping => \E x \in Requests : \A r \in Requests : places[r] \in Loop <=> r = x
    /\ ~looping => \A r \in Requests : places[r] \notin Loop

\* The array is in order of arrival, or all of it is but for its head.
InOrder(queue, clock) ==
    \A i, j \in DOMAIN queue : i < j => clock[queue[i]] < clock[queue[j]]
TailInOrder(queue, clock) ==
    \A i, j \in DOMAIN queue : i < j /\ i > 1 => clock[queue[i]] < clock[queue[j]]

\* Pushing an item and sorting puts all of them in order.
LEMMA PushKeeps ==
    ASSUME Placed(memoryQueue, at), NEW r \in Requests, at[r] # "queued",
           NEW clock \in [Requests -> Nat],
           \A p, q \in Requests : (at[p] = "queued" \/ p = r) /\ (at[q] = "queued" \/ q = r)
                                  => (clock[p] = clock[q] => p = q)
    PROVE  /\ Placed(Push(r, clock), Moved(r, "queued"))
           /\ InOrder(Push(r, clock), clock)
           /\ Push(r, clock) # <<>>
<1> DEFINE S == ToSet(memoryQueue) \cup {r}
           s == Push(r, clock)
<1>1. S \subseteq Requests /\ \A x \in S : at[x] = "queued" \/ x = r
  BY DEF Placed, ToSet
<1>2. \A x \in Requests : at[x] = "queued" \/ x = r => x \in S
  BY DEF Placed, ToSet
<1>3. IsFiniteSet(S)
  BY <1>1, PumpAssumption, FS_Subset
<1>4. s = Sort(S, clock)
  BY DEF Push
<1> HIDE DEF S, s
<1>5. /\ s \in Seq(S)
      /\ \A x \in S : \E i \in DOMAIN s : s[i] = x
      /\ \A i, j \in DOMAIN s : i < j => clock[s[i]] < clock[s[j]]
  <2>1. \A x \in S : clock[x] \in Nat
    BY <1>1
  <2>2. \A x, y \in S : clock[x] = clock[y] => x = y
    BY <1>1
  <2> QED
    BY <1>3, <1>4, <2>1, <2>2, SortSorts
<1>6. \A i \in DOMAIN s : s[i] \in S /\ clock[s[i]] \in Nat /\ i \in Nat
  BY <1>1, <1>5
<1>7. s \in Seq(Requests)
  BY <1>1, <1>5
<1>8. \A i, j \in DOMAIN s : s[i] = s[j] => i = j
  BY <1>5, <1>6
<1>9. Moved(r, "queued") \in [Requests -> Places]
  BY DEF Placed, Moved, Places
<1>10. \A x \in Requests : Moved(r, "queued")[x] = "queued" <=> \E i \in DOMAIN s : s[i] = x
  <2> TAKE x \in Requests
  <2>1. Moved(r, "queued")[x] = "queued" <=> x = r \/ at[x] = "queued"
    BY DEF Moved, Placed
  <2>2. x \in S <=> x = r \/ at[x] = "queued"
    BY <1>1, <1>2
  <2>3. x \in S <=> \E i \in DOMAIN s : s[i] = x
    BY <1>5, <1>6
  <2> QED
    BY <2>1, <2>2, <2>3
<1>11. s # <<>>
  <2>1. r \in S
    BY DEF S
  <2> QED
    BY <1>5, <2>1
<1> QED
  BY <1>5, <1>7, <1>8, <1>9, <1>10, <1>11 DEF Placed, InOrder, s

\* What a turn of the loop, and a call of _pump, leaves behind.
TurnsTo(queue, running, places, clock) ==
    /\ Placed(memoryQueue', at')
    /\ pumping' \in BOOLEAN
    /\ OneLooping(at', pumping')
    /\ pumping' => running < Concurrency
    /\ \A r \in Requests : at'[r] = places[r] \/ (places[r] = "queued" /\ at'[r] \in Loop)
    /\ TailInOrder(memoryQueue', clock)
    /\ pumping' \/ InOrder(queue, clock) => InOrder(memoryQueue', clock)

\* A turn takes the head, or stops because it may not.
LEMMA TurnKeeps ==
    ASSUME NEW queue, NEW running \in Int, NEW places, NEW clock,
           Placed(queue, places), OneLooping(places, FALSE), TailInOrder(queue, clock),
           Turn(queue, running, places)
    PROVE  /\ TurnsTo(queue, running, places, clock)
           /\ memoryQueue' # <<>> /\ running < Concurrency => pumping'
<1>1. CASE ~MayTake(queue, running)
  <2>1. memoryQueue' = queue /\ at' = places /\ pumping' = FALSE
    BY <1>1 DEF Turn
  <2> QED
    BY <1>1, <2>1 DEF TurnsTo, MayTake
<1>2. CASE MayTake(queue, running)
  <2>1. /\ memoryQueue' = Tail(queue) /\ pumping' = TRUE
        /\ running < Concurrency /\ queue # <<>>
    BY <1>2 DEF Turn, MayTake
  <2>2. PICK step \in Loop : at' = [places EXCEPT ![Head(queue)] = step]
    BY <1>2 DEF Turn, Loop
  <2> DEFINE h == queue[1]
  <2>3. /\ memoryQueue' \in Seq(Requests)
        /\ \A i \in DOMAIN memoryQueue' : i + 1 \in DOMAIN queue /\ i + 1 > 1
                                          /\ memoryQueue'[i] = queue[i + 1]
        /\ \A i \in DOMAIN queue : i # 1 => i - 1 \in DOMAIN memoryQueue'
                                            /\ memoryQueue'[i - 1] = queue[i]
        /\ Head(queue) = h /\ 1 \in DOMAIN queue /\ h \in Requests
        /\ \A i \in DOMAIN memoryQueue' : i \in Int
    BY <2>1 DEF Placed
  <2>4. places[h] = "queued"
    BY <2>3 DEF Placed
  <2> HIDE DEF h
  <2>5. /\ at' \in [Requests -> Places]
        /\ \A r \in Requests : at'[r] = IF r = h THEN step ELSE places[r]
    BY <2>2, <2>3 DEF Placed, Places, Loop
  <2>6. \A i \in DOMAIN memoryQueue' : memoryQueue'[i] # h
    <3>1. h = queue[1]
      BY DEF h
    <3> QED
      BY <2>3, <3>1 DEF Placed
  <2>7. \A i, j \in DOMAIN memoryQueue' : memoryQueue'[i] = memoryQueue'[j] => i = j
    BY <2>3 DEF Placed
  <2>8. \A r \in Requests : at'[r] = "queued" <=> \E i \in DOMAIN memoryQueue' : memoryQueue'[i] = r
    <3> TAKE r \in Requests
    <3>1. CASE r = h
      BY <2>5, <2>6, <3>1 DEF Loop
    <3>2. CASE r # h
      <4>1. at'[r] = "queued" <=> \E i \in DOMAIN queue : queue[i] = r
        BY <2>5, <3>2 DEF Placed
      <4>2. \A i \in DOMAIN queue : queue[i] = r => i # 1
        BY <3>2 DEF h
      <4> QED
        BY <2>3, <4>1, <4>2
    <3> QED
      BY <3>1, <3>2
  <2>9. OneLooping(at', TRUE)
    BY <2>3, <2>5 DEF OneLooping
  <2>10. ASSUME NEW i \in DOMAIN memoryQueue', NEW j \in DOMAIN memoryQueue', i < j
         PROVE  clock[memoryQueue'[i]] < clock[memoryQueue'[j]]
    <3>1. i + 1 < j + 1 /\ i + 1 > 1
      BY <2>3, <2>10
    <3> QED
      BY <2>3, <3>1 DEF InOrder, TailInOrder
  <2>11. InOrder(memoryQueue', clock) /\ TailInOrder(memoryQueue', clock)
    BY <2>10 DEF InOrder, TailInOrder
  <2>12. Placed(memoryQueue', at')
    BY <2>3, <2>5, <2>7, <2>8 DEF Placed
  <2> QED
    BY <2>1, <2>4, <2>5, <2>9, <2>11, <2>12 DEF TurnsTo
<1> QED
  BY <1>1, <1>2

\* A call of _pump does nothing while the loop runs or the timer is set.
LEMMA PumpKeeps ==
    ASSUME NEW queue, NEW running \in Int, NEW places, NEW timer \in BOOLEAN, NEW clock,
           Placed(queue, places), pumping \in BOOLEAN, OneLooping(places, pumping),
           pumping => running < Concurrency,
           TailInOrder(queue, clock), pumping => InOrder(queue, clock),
           Pump(queue, running, places, timer)
    PROVE  /\ TurnsTo(queue, running, places, clock)
           /\ memoryQueue' # <<>> /\ running < Concurrency => pumping' \/ timer
<1>1. CASE Idles(queue, timer)
  <2>1. memoryQueue' = queue /\ at' = places /\ pumping' = pumping
    BY <1>1 DEF Pump
  <2> QED
    BY <1>1, <2>1 DEF TurnsTo, Idles
<1>2. CASE ~Idles(queue, timer)
  <2>1. Turn(queue, running, places) /\ OneLooping(places, FALSE)
    BY <1>2 DEF Pump, Idles
  <2> QED
    BY <2>1, TurnKeeps
<1> QED
  BY <1>1, <1>2

-----------------------------------------------------------------------------
(* The invariant of the pump.  While the loop runs there is room, so that  *)
(* the limiter's answer finds it; while it runs the array is sorted        *)
(* throughout, so that a refused item is the only one out of turn.         *)

Numbers ==
    /\ pumpTimer \in BOOLEAN
    /\ active \in 0 .. Concurrency
    /\ attempts \in [Requests -> 0 .. MaxAttempts + 1]
    /\ enqueuedAt \in [Requests -> Nat]
    /\ denials \in 0 .. MaxDenials
QueueInv ==
    /\ Placed(memoryQueue, at)
    /\ pumping \in BOOLEAN
    /\ OneLooping(at, pumping)
    /\ pumping => active < Concurrency
    /\ TailInOrder(memoryQueue, enqueuedAt)
    /\ pumping \/ denials = 0 => InOrder(memoryQueue, enqueuedAt)
    /\ NoLostWakeUp

\* A place before a call is made, or made again.
Trying == {"new", "queued", "limiter", "finish", "backoff"}
CountInv ==
    /\ active = Cardinality(In("executing"))
    /\ \A r \in Requests : at[r] \in Trying => attempts[r] <= MaxAttempts

Arrived == {r \in Requests : at[r] \notin {"new", "rejected", "duplicate"}}
ClockInv ==
    /\ \A r \in Arrived : enqueuedAt[r] < Arrivals
    /\ \A r, q \in Arrived : enqueuedAt[r] = enqueuedAt[q] => r = q

\* A step moves requests to these places, but for the one that a turn takes.
MovesTo(places) ==
    \A q \in Requests : at'[q] = places[q] \/ (places[q] = "queued" /\ at'[q] \in Loop)

\* The pump's steps keep the invariant of the queue.
LEMMA EnqueueKeeps ==
    ASSUME Numbers, QueueInv, ClockInv, NEW r \in Requests, Enqueue(r)
    PROVE  /\ QueueInv'
           /\ \/ /\ Len(memoryQueue) >= MaxQueueSize
                 /\ MovesTo(Moved(r, "rejected")) /\ enqueuedAt' = enqueuedAt
              \/ /\ ~(Len(memoryQueue) >= MaxQueueSize)
                 /\ MovesTo(Moved(r, "queued"))
                 /\ enqueuedAt' = [enqueuedAt EXCEPT ![r] = Arrivals]
<1> USE DEF Numbers, QueueInv
<1>0. at[r] = "new" /\ UNCHANGED <<active, pumpTimer, attempts, denials>>
  BY DEF Enqueue
<1>1. CASE /\ Len(memoryQueue) >= MaxQueueSize
           /\ at' = Moved(r, "rejected") /\ UNCHANGED <<memoryQueue, pumping, enqueuedAt>>
  <2>1. /\ at' \in [Requests -> Places]
        /\ \A q \in Requests : at'[q] = IF q = r THEN "rejected" ELSE at[q]
    BY <1>1 DEF Moved, Placed, Places
  <2>2. Placed(memoryQueue', at')
    BY <1>0, <1>1, <2>1 DEF Placed
  <2>3. OneLooping(at', pumping')
    BY <1>0, <1>1, <2>1 DEF OneLooping, Loop
  <2> QED
    BY <1>0, <1>1, <2>2, <2>3 DEF MovesTo, InOrder, TailInOrder, NoLostWakeUp
<1>2. CASE /\ ~(Len(memoryQueue) >= MaxQueueSize)
           /\ enqueuedAt' = [enqueuedAt EXCEPT ![r] = Arrivals]
           /\ Pump(Push(r, enqueuedAt'), active, Moved(r, "queued"), pumpTimer)
  <2>1. Arrivals \in Nat
    <3>1. IsFiniteSet(Requests \ In("new"))
      BY PumpAssumption, FS_Difference
    <3> QED
      BY <3>1, FS_CardinalityType DEF Arrivals
  <2> HIDE DEF Arrivals
  <2>2. /\ enqueuedAt' \in [Requests -> Nat]
        /\ \A q \in Requests : enqueuedAt'[q] = IF q = r THEN Arrivals ELSE enqueuedAt[q]
    BY <1>2, <2>1
  <2>3. \A q \in Requests : at[q] = "queued" => q # r /\ q \in Arrived
    BY <1>0 DEF Arrived
  <2>4. ASSUME NEW p \in Requests, NEW q \in Requests, at[p] = "queued" \/ p = r,
               at[q] = "queued" \/ q = r, enqueuedAt'[p] = enqueuedAt'[q]
        PROVE  p = q
    <3>1. \A x \in Requests : at[x] = "queued" => enqueuedAt'[x] < Arrivals
      BY <2>2, <2>3 DEF ClockInv
    <3>2. CASE p = r /\ q = r
      BY <3>2
    <3>3. CASE p # r /\ q # r
      BY <2>2, <2>3, <2>4, <3>3 DEF ClockInv
    <3>4. CASE p = r /\ q # r
      BY <2>1, <2>2, <2>4, <3>1, <3>4
    <3>5. CASE p # r /\ q = r
      BY <2>1, <2>2, <2>4, <3>1, <3>5
    <3> QED
      BY <3>2, <3>3, <3>4, <3>5
  <2> DEFINE queue == Push(r, enqueuedAt')  places == Moved(r, "queued")
  <2>5. Placed(queue, places) /\ InOrder(queue, enqueuedAt') /\ queue # <<>>
    BY <1>0, <2>2, <2>4, PushKeeps
  <2>6. TailInOrder(queue, enqueuedAt')
    BY <2>5 DEF InOrder, TailInOrder
  <2>7. OneLooping(places, pumping)
    <3>1. \A q \in Requests : places[q] = IF q = r THEN "queued" ELSE at[q]
      BY DEF Moved, Placed
    <3> HIDE DEF places
    <3> QED
      BY <1>0, <3>1 DEF OneLooping, Loop
  <2> HIDE DEF queue, places
  <2>8. /\ TurnsTo(queue, active, places, enqueuedAt')
        /\ memoryQueue' # <<>> /\ active < Concurrency => pumping' \/ pumpTimer
    BY <1>2, <2>5, <2>6, <2>7, PumpKeeps DEF queue, places
  <2> QED
    BY <1>0, <1>2, <2>5, <2>8 DEF TurnsTo, MovesTo, NoLostWakeUp, places
<1> QED
  BY <1>1, <1>2 DEF Enqueue

\* The loop has this request: nothing else is with it.
LEMMA LoopHas ==
    ASSUME QueueInv, NEW r \in Requests, at[r] \in Loop, NEW place \in Places \ (Loop \cup {"queued"})
    PROVE  /\ pumping = TRUE
           /\ Placed(memoryQueue, Moved(r, place))
           /\ OneLooping(Moved(r, place), FALSE)
<1>1. pumping = TRUE
  BY DEF QueueInv, OneLooping
<1>2. \A q \in Requests : at[q] \in Loop <=> q = r
  BY <1>1 DEF QueueInv, OneLooping
<1>3. /\ Moved(r, place) \in [Requests -> Places]
      /\ \A q \in Requests : Moved(r, place)[q] = IF q = r THEN place ELSE at[q]
  BY DEF Moved, QueueInv, Placed
<1>4. at[r] # "queued"
  BY DEF Loop
<1>5. Placed(memoryQueue, Moved(r, place))
  BY <1>3, <1>4 DEF QueueInv, Placed
<1>6. OneLooping(Moved(r, place), FALSE)
  BY <1>2, <1>3 DEF OneLooping
<1> QED
  BY <1>1, <1>5, <1>6

LEMMA AllowedKeeps ==
    ASSUME Numbers, QueueInv, NEW r \in Requests, Allowed(r)
    PROVE  /\ QueueInv' /\ MovesTo(Moved(r, "executing")) /\ active' <= Concurrency
           /\ enqueuedAt' = enqueuedAt
<1> USE DEF Numbers
<1>1. /\ at[r] = "limiter" /\ active' = active + 1
      /\ Turn(memoryQueue, active + 1, Moved(r, "executing"))
      /\ UNCHANGED <<pumpTimer, enqueuedAt, denials>>
  BY DEF Allowed
<1>2. /\ pumping = TRUE /\ Placed(memoryQueue, Moved(r, "executing"))
      /\ OneLooping(Moved(r, "executing"), FALSE)
  <2>1. "executing" \in Places \ (Loop \cup {"queued"}) /\ at[r] \in Loop
    BY <1>1 DEF Loop, Places
  <2> QED
    BY <2>1, LoopHas
<1>3. active < Concurrency /\ TailInOrder(memoryQueue, enqueuedAt) /\ InOrder(memoryQueue, enqueuedAt)
  BY <1>2 DEF QueueInv
<1>4. active + 1 \in Int /\ active + 1 <= Concurrency
  BY <1>3, PumpAssumption
<1>5. /\ TurnsTo(memoryQueue, active + 1, Moved(r, "executing"), enqueuedAt)
      /\ memoryQueue' # <<>> /\ active + 1 < Concurrency => pumping'
  BY <1>1, <1>2, <1>3, <1>4, TurnKeeps
<1> QED
  BY <1>1, <1>3, <1>4, <1>5 DEF TurnsTo, MovesTo, QueueInv, NoLostWakeUp

LEMMA FinishedKeeps ==
    ASSUME Numbers, QueueInv, NEW r \in Requests, Finished(r)
    PROVE  QueueInv' /\ MovesTo(Moved(r, "done")) /\ enqueuedAt' = enqueuedAt
<1> USE DEF Numbers
<1>1. /\ at[r] = "finish" /\ Turn(memoryQueue, active, Moved(r, "done"))
      /\ UNCHANGED <<active, pumpTimer, attempts, enqueuedAt, denials>>
  BY DEF Finished
<1>2. /\ pumping = TRUE /\ Placed(memoryQueue, Moved(r, "done"))
      /\ OneLooping(Moved(r, "done"), FALSE)
  <2>1. "done" \in Places \ (Loop \cup {"queued"}) /\ at[r] \in Loop
    BY <1>1 DEF Loop, Places
  <2> QED
    BY <2>1, LoopHas
<1>3. TailInOrder(memoryQueue, enqueuedAt) /\ InOrder(memoryQueue, enqueuedAt)
  BY <1>2 DEF QueueInv
<1>4. /\ TurnsTo(memoryQueue, active, Moved(r, "done"), enqueuedAt)
      /\ memoryQueue' # <<>> /\ active < Concurrency => pumping'
  <2>1. active \in Int
    OBVIOUS
  <2> QED
    BY <1>1, <1>2, <1>3, <2>1, TurnKeeps
<1> QED
  BY <1>1, <1>3, <1>4 DEF TurnsTo, MovesTo, QueueInv, NoLostWakeUp

LEMMA LimiterFailsKeeps ==
    ASSUME QueueInv, NEW r \in Requests, LimiterFails(r)
    PROVE  QueueInv' /\ MovesTo(Moved(r, "finish")) /\ enqueuedAt' = enqueuedAt
<1>1. /\ at[r] = "limiter" /\ at' = Moved(r, "finish")
      /\ UNCHANGED <<memoryQueue, active, pumping, pumpTimer, attempts, enqueuedAt, denials>>
  BY DEF LimiterFails
<1>2. /\ at' \in [Requests -> Places]
      /\ \A q \in Requests : at'[q] = IF q = r THEN "finish" ELSE at[q]
  BY <1>1 DEF Moved, QueueInv, Placed, Places
<1>3. Placed(memoryQueue', at')
  BY <1>1, <1>2 DEF QueueInv, Placed
<1>4. OneLooping(at', pumping')
  BY <1>1, <1>2 DEF QueueInv, OneLooping, Loop
<1> QED
  BY <1>1, <1>3, <1>4 DEF QueueInv, MovesTo, InOrder, TailInOrder, NoLostWakeUp

\* A refused item goes back to the head of an array that was in order.
LEMMA RefusedKeeps ==
    ASSUME Numbers, QueueInv, NEW r \in Requests, Refused(r)
    PROVE  QueueInv' /\ MovesTo(Moved(r, "queued")) /\ enqueuedAt' = enqueuedAt
<1>1. /\ at[r] = "limiter" /\ memoryQueue' = <<r>> \o memoryQueue
      /\ at' = Moved(r, "queued") /\ pumpTimer' = TRUE /\ pumping' = FALSE
      /\ denials' = denials + 1
      /\ UNCHANGED <<active, attempts, enqueuedAt>>
  BY DEF Refused, SchedulePump
<1>2. /\ at' \in [Requests -> Places]
      /\ \A q \in Requests : at'[q] = IF q = r THEN "queued" ELSE at[q]
  BY <1>1 DEF Moved, QueueInv, Placed, Places
<1>3. pumping = TRUE /\ (\A q \in Requests : at[q] \in Loop <=> q = r)
      /\ InOrder(memoryQueue, enqueuedAt)
  BY <1>1 DEF QueueInv, OneLooping, Loop
<1>4. OneLooping(at', pumping')
  BY <1>1, <1>2, <1>3 DEF OneLooping, Loop
<1>5. /\ memoryQueue' \in Seq(Requests)
      /\ 1 \in DOMAIN memoryQueue' /\ memoryQueue'[1] = r
      /\ \A i \in DOMAIN memoryQueue : i + 1 \in DOMAIN memoryQueue' /\ i + 1 # 1
                                       /\ memoryQueue'[i + 1] = memoryQueue[i]
      /\ \A i \in DOMAIN memoryQueue' :
            i = 1 \/ (i > 1 /\ i - 1 \in DOMAIN memoryQueue /\ memoryQueue'[i] = memoryQueue[i - 1])
      /\ \A i \in DOMAIN memoryQueue' : i \in Int
  BY <1>1 DEF QueueInv, Placed
<1>6. \A i \in DOMAIN memoryQueue : memoryQueue[i] # r
  BY <1>1 DEF QueueInv, Placed
<1>7. \A i, j \in DOMAIN memoryQueue' : memoryQueue'[i] = memoryQueue'[j] => i = j
  <2> TAKE i, j \in DOMAIN memoryQueue'
  <2>1. CASE i = 1 \/ j = 1
    BY <1>5, <1>6, <2>1
  <2>2. CASE i # 1 /\ j # 1
    <3>1. /\ i - 1 \in DOMAIN memoryQueue /\ memoryQueue'[i] = memoryQueue[i - 1]
          /\ j - 1 \in DOMAIN memoryQueue /\ memoryQueue'[j] = memoryQueue[j - 1]
      BY <1>5, <2>2
    <3>2. memoryQueue[i - 1] = memoryQueue[j - 1] => i - 1 = j - 1
      BY <3>1 DEF QueueInv, Placed
    <3> QED
      BY <1>5, <3>1, <3>2
  <2> QED
    BY <2>1, <2>2
<1>8. \A q \in Requests : at'[q] = "queued" <=> \E i \in DOMAIN memoryQueue' : memoryQueue'[i] = q
  <2> TAKE q \in Requests
  <2>1. CASE q = r
    BY <1>2, <1>5, <2>1
  <2>2. CASE q # r
    <3>1. at'[q] = "queued" <=> \E i \in DOMAIN memoryQueue : memoryQueue[i] = q
      BY <1>2, <2>2 DEF QueueInv, Placed
    <3> QED
      BY <1>5, <2>2, <3>1
  <2> QED
    BY <2>1, <2>2
<1>9. TailInOrder(memoryQueue', enqueuedAt')
  <2>1. ASSUME NEW i \in DOMAIN memoryQueue', NEW j \in DOMAIN memoryQueue', i < j, i > 1
        PROVE  enqueuedAt[memoryQueue'[i]] < enqueuedAt[memoryQueue'[j]]
    <3>1. /\ i - 1 \in DOMAIN memoryQueue /\ memoryQueue'[i] = memoryQueue[i - 1]
          /\ j - 1 \in DOMAIN memoryQueue /\ memoryQueue'[j] = memoryQueue[j - 1]
          /\ i - 1 < j - 1
      BY <1>5, <2>1
    <3> QED
      BY <1>3, <3>1 DEF InOrder, TailInOrder
  <2> QED
    BY <1>1, <2>1 DEF InOrder, TailInOrder
<1>10. Placed(memoryQueue', at')
  BY <1>2, <1>5, <1>7, <1>8 DEF Placed
<1>11. denials' # 0
  BY <1>1 DEF Numbers
<1> QED
  BY <1>1, <1>4, <1>9, <1>10, <1>11 DEF QueueInv, MovesTo, NoLostWakeUp

\* A request that neither waits in the array nor is with the loop moves on its own.
LEMMA OutsideMoves ==
    ASSUME QueueInv, NEW r \in Requests, at[r] \notin Loop \cup {"queued"},
           NEW place \in Places \ (Loop \cup {"queued"})
    PROVE  Placed(memoryQueue, Moved(r, place)) /\ OneLooping(Moved(r, place), pumping)
<1>1. /\ Moved(r, place) \in [Requests -> Places]
      /\ \A q \in Requests : Moved(r, place)[q] = IF q = r THEN place ELSE at[q]
  BY DEF Moved, QueueInv, Placed
<1>2. Placed(memoryQueue, Moved(r, place))
  BY <1>1 DEF QueueInv, Placed
<1>3. OneLooping(Moved(r, place), pumping)
  BY <1>1 DEF QueueInv, OneLooping
<1> QED
  BY <1>2, <1>3

\* What a call of _pump in a handler keeps, with what the handler has counted.
LEMMA PumpedKeeps ==
    ASSUME Numbers, QueueInv, NEW queue, NEW running \in Int, NEW places, NEW timer \in BOOLEAN,
           Placed(queue, places), OneLooping(places, pumping), running <= active,
           TailInOrder(queue, enqueuedAt),
           pumping \/ denials = 0 => InOrder(queue, enqueuedAt),
           active' = running, pumpTimer' = timer, UNCHANGED <<enqueuedAt, denials>>,
           Pump(queue, running, places, timer)
    PROVE  QueueInv' /\ MovesTo(places)
<1>1. /\ TurnsTo(queue, running, places, enqueuedAt)
      /\ memoryQueue' # <<>> /\ running < Concurrency => pumping' \/ timer
  <2>1. pumping \in BOOLEAN /\ (pumping => running < Concurrency)
        /\ (pumping => InOrder(queue, enqueuedAt))
    BY PumpAssumption DEF QueueInv, Numbers
  <2> QED
    BY <2>1, PumpKeeps
<1> QED
  BY <1>1 DEF TurnsTo, MovesTo, QueueInv, NoLostWakeUp

LEMMA ExecutedKeeps ==
    ASSUME Numbers, QueueInv, NEW r \in Requests, Executed(r)
    PROVE  /\ QueueInv' /\ enqueuedAt' = enqueuedAt
           /\ \/ MovesTo(Moved(r, "done"))
              \/ MovesTo(Moved(r, "backoff")) /\ attempts[r] <= MaxAttempts
<1>1. /\ at[r] = "executing" /\ active' = active - 1
      /\ UNCHANGED <<pumpTimer, attempts, enqueuedAt, denials>>
  BY DEF Executed, Released
<1>2. ASSUME NEW place \in {"done", "backoff"},
             Pump(memoryQueue, active', Moved(r, place), pumpTimer)
      PROVE  QueueInv' /\ MovesTo(Moved(r, place))
  <2>1. at[r] \notin Loop \cup {"queued"} /\ place \in Places \ (Loop \cup {"queued"})
    BY <1>1 DEF Loop, Places
  <2>2. Placed(memoryQueue, Moved(r, place)) /\ OneLooping(Moved(r, place), pumping)
    BY <2>1, OutsideMoves
  <2>3. active' \in Int /\ active' <= active /\ pumpTimer \in BOOLEAN
    BY <1>1 DEF Numbers
  <2>4. /\ TailInOrder(memoryQueue, enqueuedAt)
        /\ pumping \/ denials = 0 => InOrder(memoryQueue, enqueuedAt)
    BY DEF QueueInv
  <2> QED
    BY <1>1, <1>2, <2>2, <2>3, <2>4, PumpedKeeps
<1>3. CASE Pump(memoryQueue, active', Moved(r, "done"), pumpTimer)
  BY <1>1, <1>2, <1>3
<1>4. CASE attempts[r] <= MaxAttempts /\ Pump(memoryQueue, active', Moved(r, "backoff"), pumpTimer)
  BY <1>1, <1>2, <1>4
<1> QED
  BY <1>3, <1>4 DEF Executed

LEMMA TimerKeeps ==
    ASSUME Numbers, QueueInv, TimerFires
    PROVE  QueueInv' /\ MovesTo(at) /\ enqueuedAt' = enqueuedAt
<1>1. /\ pumpTimer' = FALSE /\ Pump(memoryQueue, active, at, FALSE)
      /\ UNCHANGED <<active, attempts, enqueuedAt, denials>>
  BY DEF TimerFires
<1>2. active \in Int /\ active <= active
  BY DEF Numbers
<1>3. /\ Placed(memoryQueue, at) /\ OneLooping(at, pumping)
      /\ TailInOrder(memoryQueue, enqueuedAt)
      /\ pumping \/ denials = 0 => InOrder(memoryQueue, enqueuedAt)
  BY DEF QueueInv
<1> QED
  BY <1>1, <1>2, <1>3, PumpedKeeps

\* A retry is sorted in by the time it first came.
LEMMA RequeueKeeps ==
    ASSUME Numbers, QueueInv, ClockInv, NEW r \in Requests, Requeue(r)
    PROVE  QueueInv' /\ MovesTo(Moved(r, "queued")) /\ enqueuedAt' = enqueuedAt
<1> DEFINE queue == Push(r, enqueuedAt)  places == Moved(r, "queued")
<1>1. /\ at[r] = "backoff" /\ Pump(queue, active, places, pumpTimer)
      /\ UNCHANGED <<active, pumpTimer, attempts, enqueuedAt, denials>>
  BY DEF Requeue
<1>2. \A q \in Requests : at[q] = "queued" \/ q = r => q \in Arrived
  BY <1>1 DEF Arrived
<1>3. Placed(queue, places) /\ InOrder(queue, enqueuedAt)
  <2>1. \A p, q \in Requests : (at[p] = "queued" \/ p = r) /\ (at[q] = "queued" \/ q = r)
                               => (enqueuedAt[p] = enqueuedAt[q] => p = q)
    BY <1>2 DEF ClockInv
  <2>2. Placed(memoryQueue, at) /\ at[r] # "queued" /\ enqueuedAt \in [Requests -> Nat]
    BY <1>1 DEF QueueInv, Numbers
  <2> QED
    BY <2>1, <2>2, PushKeeps
<1>4. \A q \in Requests : places[q] = IF q = r THEN "queued" ELSE at[q]
  BY DEF Moved, QueueInv, Placed
<1> HIDE DEF queue, places
<1>5. TailInOrder(queue, enqueuedAt)
  BY <1>3 DEF InOrder, TailInOrder
<1>6. OneLooping(places, pumping)
  BY <1>1, <1>4 DEF QueueInv, OneLooping, Loop
<1>7. active \in Int /\ active <= active /\ pumpTimer \in BOOLEAN
  BY DEF Numbers
<1>8. QueueInv' /\ MovesTo(places)
  BY <1>1, <1>3, <1>5, <1>6, <1>7, PumpedKeeps
<1> QED
  BY <1>1, <1>8 DEF places

\* A duplicate never enters the array.
Turned(r) ==
    /\ at[r] = "new" /\ at' = Moved(r, "duplicate")
    /\ UNCHANGED <<memoryQueue, active, pumping, pumpTimer, attempts, enqueuedAt, denials>>
LEMMA TurnedKeeps ==
    ASSUME QueueInv, NEW r \in Requests, Turned(r)
    PROVE  QueueInv' /\ MovesTo(Moved(r, "duplicate"))
<1>1. at[r] \notin Loop \cup {"queued"} /\ "duplicate" \in Places \ (Loop \cup {"queued"})
  BY DEF Turned, Loop, Places
<1>2. Placed(memoryQueue, Moved(r, "duplicate")) /\ OneLooping(Moved(r, "duplicate"), pumping)
  BY <1>1, OutsideMoves
<1>3. /\ at' = Moved(r, "duplicate")
      /\ UNCHANGED <<memoryQueue, active, pumping, pumpTimer, attempts, enqueuedAt, denials>>
  BY DEF Turned
<1> QED
  BY <1>2, <1>3 DEF QueueInv, MovesTo, InOrder, TailInOrder, NoLostWakeUp

-----------------------------------------------------------------------------
(* The steps of a request, what they count, and the invariant.             *)

QuietLegs == {<<"new", "rejected">>, <<"new", "queued">>, <<"new", "duplicate">>,
              <<"limiter", "queued">>, <<"limiter", "finish">>, <<"finish", "done">>,
              <<"backoff", "queued">>}
Leg(r, to) ==
    /\ MovesTo(Moved(r, to))
    /\ \/ /\ at[r] = "limiter" /\ to = "executing"
          /\ active' = active + 1 /\ active' <= Concurrency
          /\ attempts' = [attempts EXCEPT ![r] = @ + 1]
       \/ /\ at[r] = "executing" /\ to \in {"done", "backoff"}
          /\ active' = active - 1 /\ attempts' = attempts
          /\ to = "backoff" => attempts[r] <= MaxAttempts
       \/ <<at[r], to>> \in QuietLegs /\ active' = active /\ attempts' = attempts

LEMMA EnqueueLeg ==
    ASSUME Numbers, QueueInv, ClockInv, NEW r \in Requests, Enqueue(r)
    PROVE  /\ QueueInv' /\ denials' = denials /\ pumpTimer' = pumpTimer
           /\ \/ Full /\ Leg(r, "rejected") /\ enqueuedAt' = enqueuedAt
              \/ ~Full /\ Leg(r, "queued") /\ enqueuedAt' = [enqueuedAt EXCEPT ![r] = Arrivals]
<1>1. at[r] = "new" /\ UNCHANGED <<active, pumpTimer, attempts, denials>>
  BY DEF Enqueue
<1>2. <<at[r], "rejected">> \in QuietLegs /\ <<at[r], "queued">> \in QuietLegs
  BY <1>1 DEF QuietLegs
<1> QED
  BY <1>1, <1>2, EnqueueKeeps DEF Leg, Full

LEMMA TurnedLeg ==
    ASSUME QueueInv, NEW r \in Requests, Turned(r)
    PROVE  /\ QueueInv' /\ Leg(r, "duplicate")
           /\ UNCHANGED <<denials, pumpTimer, enqueuedAt>>
<1>1. <<at[r], "duplicate">> \in QuietLegs
  BY DEF Turned, QuietLegs
<1> QED
  BY <1>1, TurnedKeeps DEF Leg, Turned

LEMMA WorkLeg ==
    ASSUME Numbers, QueueInv, ClockInv, NEW r \in Requests, Work(r)
    PROVE  /\ QueueInv' /\ enqueuedAt' = enqueuedAt /\ denials' \in 0 .. MaxDenials
           /\ pumpTimer' \in BOOLEAN
           /\ \E to \in Places : Leg(r, to)
<1>0. denials \in 0 .. MaxDenials /\ pumpTimer \in BOOLEAN
  BY DEF Numbers
<1>1. CASE Allowed(r)
  <2>1. /\ at[r] = "limiter" /\ active' = active + 1
        /\ attempts' = [attempts EXCEPT ![r] = @ + 1]
        /\ UNCHANGED <<denials, pumpTimer>>
    BY <1>1 DEF Allowed
  <2>2. Leg(r, "executing")
    BY <1>1, <2>1, AllowedKeeps DEF Leg
  <2> QED
    BY <1>0, <1>1, <2>1, <2>2, AllowedKeeps DEF Places
<1>2. CASE Refused(r)
  <2>1. /\ <<at[r], "queued">> \in QuietLegs /\ UNCHANGED <<active, attempts>>
    BY <1>2 DEF Refused, QuietLegs
  <2>2. denials' \in 0 .. MaxDenials
    BY <1>0, <1>2, PumpAssumption DEF Refused
  <2>3. pumpTimer' \in BOOLEAN
    BY <1>2 DEF Refused, SchedulePump
  <2>4. Leg(r, "queued")
    BY <1>2, <2>1, RefusedKeeps DEF Leg
  <2> QED
    BY <1>2, <2>2, <2>3, <2>4, RefusedKeeps DEF Places
<1>3. CASE LimiterFails(r)
  <2>1. /\ <<at[r], "finish">> \in QuietLegs
        /\ UNCHANGED <<active, attempts, denials, pumpTimer>>
    BY <1>3 DEF LimiterFails, QuietLegs
  <2>2. Leg(r, "finish")
    BY <1>3, <2>1, LimiterFailsKeeps DEF Leg
  <2> QED
    BY <1>0, <1>3, <2>1, <2>2, LimiterFailsKeeps DEF Places
<1>4. CASE Finished(r)
  <2>1. /\ <<at[r], "done">> \in QuietLegs
        /\ UNCHANGED <<active, attempts, denials, pumpTimer>>
    BY <1>4 DEF Finished, QuietLegs
  <2>2. Leg(r, "done")
    BY <1>4, <2>1, FinishedKeeps DEF Leg
  <2> QED
    BY <1>0, <1>4, <2>1, <2>2, FinishedKeeps DEF Places
<1>5. CASE Executed(r)
  <2>1. /\ at[r] = "executing" /\ active' = active - 1
        /\ UNCHANGED <<attempts, denials, pumpTimer>>
    BY <1>5 DEF Executed, Released
  <2>2. Leg(r, "done") \/ Leg(r, "backoff")
    BY <1>5, <2>1, ExecutedKeeps DEF Leg
  <2> QED
    BY <1>0, <1>5, <2>1, <2>2, ExecutedKeeps DEF Places
<1>6. CASE Requeue(r)
  <2>1. /\ <<at[r], "queued">> \in QuietLegs
        /\ UNCHANGED <<active, attempts, denials, pumpTimer>>
    BY <1>6 DEF Requeue, QuietLegs
  <2>2. Leg(r, "queued")
    BY <1>6, <2>1, RequeueKeeps DEF Leg
  <2> QED
    BY <1>0, <1>6, <2>1, <2>2, RequeueKeeps DEF Places
<1> QED
  BY <1>1, <1>2, <1>3, <1>4, <1>5, <1>6 DEF Work, Awaited

\* Where the requests are after a leg.
LEMMA LegMoves ==
    ASSUME QueueInv, NEW r \in Requests, NEW to, Leg(r, to)
    PROVE  /\ at'[r] = to \/ (to = "queued" /\ at'[r] \in Loop)
           /\ \A q \in Requests : q # r => at'[q] = at[q] \/ (at[q] = "queued" /\ at'[q] \in Loop)
BY DEF Leg, MovesTo, Moved, QueueInv, Placed

\* active counts the requests that execute.
LEMMA CountKeeps ==
    ASSUME Numbers, QueueInv, CountInv, NEW r \in Requests, NEW to, Leg(r, to)
    PROVE  CountInv' /\ active' \in 0 .. Concurrency
           /\ attempts' \in [Requests -> 0 .. MaxAttempts + 1]
<1> DEFINE E == In("executing")
<1>1. IsFiniteSet(E) /\ E \in SUBSET Requests
  BY PumpAssumption, FS_Subset DEF In
<1>2. /\ at'[r] = to \/ (to = "queued" /\ at'[r] \in Loop)
      /\ \A q \in Requests : q # r => at'[q] = at[q] \/ (at[q] = "queued" /\ at'[q] \in Loop)
  BY LegMoves
<1>3. In("executing")' = IF to = "executing" THEN E \cup {r} ELSE E \ {r}
  BY <1>2 DEF In, Loop
<1>4. r \in E <=> at[r] = "executing"
  BY DEF In
<1>5. Cardinality(E) = active /\ active \in Nat
  BY DEF CountInv, Numbers
<1> HIDE DEF E
<1>6. CASE /\ at[r] = "limiter" /\ to = "executing" /\ active' = active + 1 /\ active' <= Concurrency
           /\ attempts' = [attempts EXCEPT ![r] = @ + 1]
  <2>1. Cardinality(E \cup {r}) = active + 1
    BY <1>1, <1>4, <1>5, <1>6, FS_AddElement
  <2>2. active' \in 0 .. Concurrency
    BY <1>5, <1>6, PumpAssumption
  <2>3. attempts[r] \in Nat /\ attempts[r] <= MaxAttempts
    BY <1>6 DEF CountInv, Trying, Numbers
  <2>4. attempts' \in [Requests -> 0 .. MaxAttempts + 1]
    BY <1>6, <2>3, PumpAssumption DEF Numbers
  <2>5. \A q \in Requests : at'[q] \in Trying => q # r /\ at[q] \in Trying
    BY <1>2, <1>6 DEF Trying
  <2>6. \A q \in Requests : q # r => attempts'[q] = attempts[q]
    BY <1>6 DEF Numbers
  <2> QED
    BY <1>3, <1>6, <2>1, <2>2, <2>4, <2>5, <2>6 DEF CountInv
<1>7. CASE /\ at[r] = "executing" /\ to \in {"done", "backoff"}
           /\ active' = active - 1 /\ attempts' = attempts
           /\ to = "backoff" => attempts[r] <= MaxAttempts
  <2>1. Cardinality(E \ {r}) = active - 1
    BY <1>1, <1>4, <1>5, <1>7, FS_RemoveElement
  <2>2. active # 0
    BY <1>1, <1>4, <1>5, <1>7, FS_EmptySet
  <2>3. active' \in 0 .. Concurrency
    BY <1>7, <2>2, PumpAssumption DEF Numbers
  <2>4. \A q \in Requests : at'[q] \in Trying => at[q] \in Trying \/ (q = r /\ to = "backoff")
    BY <1>2, <1>7 DEF Trying
  <2> QED
    BY <1>3, <1>7, <2>1, <2>3, <2>4 DEF CountInv, Numbers
<1>8. CASE <<at[r], to>> \in QuietLegs /\ active' = active /\ attempts' = attempts
  <2>1. to # "executing" /\ at[r] # "executing" /\ at[r] \in Trying
    BY <1>8 DEF QuietLegs, Trying
  <2>2. E \ {r} = E
    BY <1>4, <2>1
  <2>3. \A q \in Requests : at'[q] \in Trying => at[q] \in Trying
    BY <1>2, <2>1 DEF Trying
  <2> QED
    BY <1>3, <1>5, <1>8, <2>1, <2>2, <2>3 DEF CountInv, Numbers
<1> QED
  BY <1>6, <1>7, <1>8 DEF Leg

\* A request that comes is later than all before it.
LEMMA ClockKeeps ==
    ASSUME Numbers, QueueInv, ClockInv, NEW r \in Requests, NEW to, Leg(r, to),
           IF at[r] = "new" /\ to = "queued"
           THEN enqueuedAt' = [enqueuedAt EXCEPT ![r] = Arrivals] ELSE enqueuedAt' = enqueuedAt
    PROVE  ClockInv' /\ enqueuedAt' \in [Requests -> Nat]
<1> DEFINE A == Requests \ In("new")
<1>1. IsFiniteSet(A) /\ Cardinality(A) \in Nat /\ Arrivals = Cardinality(A)
  BY PumpAssumption, FS_Difference, FS_CardinalityType DEF Arrivals
<1>2. /\ at'[r] = to \/ (to = "queued" /\ at'[r] \in Loop)
      /\ \A q \in Requests : q # r => at'[q] = at[q] \/ (at[q] = "queued" /\ at'[q] \in Loop)
  BY LegMoves
<1>3. at'[r] # "new"
  BY <1>2 DEF Leg, QuietLegs, Loop
<1>4. Requests \ In("new")' = A \cup {r}
  BY <1>2, <1>3 DEF In, Loop
<1>5. Arrivals' = Cardinality(A \cup {r})
  BY <1>4 DEF Arrivals
<1>6. r \in A <=> at[r] # "new"
  BY DEF In
<1> HIDE DEF A
<1>7. \A q \in Requests : q # r => (q \in Arrived' <=> q \in Arrived)
  BY <1>2 DEF Arrived, Loop
<1>8. CASE at[r] = "new"
  <2>1. Arrivals' = Arrivals + 1
    BY <1>1, <1>5, <1>6, <1>8, FS_AddElement
  <2>2. CASE to = "queued"
    <3>1. /\ enqueuedAt' \in [Requests -> Nat]
          /\ \A q \in Requests : enqueuedAt'[q] = IF q = r THEN Arrivals ELSE enqueuedAt[q]
      BY <1>1, <1>8, <2>2 DEF Numbers
    <3>2. r \in Arrived' /\ Arrived' \subseteq Requests
      BY <1>2, <2>2 DEF Arrived, Loop
    <3>3. \A q \in Arrived' : q # r => enqueuedAt'[q] < Arrivals /\ enqueuedAt'[q] \in Nat
      BY <1>7, <3>1, <3>2 DEF ClockInv
    <3>4. \A q \in Arrived' : enqueuedAt'[q] < Arrivals'
      BY <1>1, <2>1, <3>1, <3>2, <3>3
    <3>5. \A p, q \in Arrived' : p # r /\ q # r => (enqueuedAt'[p] = enqueuedAt'[q] => p = q)
      BY <1>7, <3>1, <3>2 DEF ClockInv
    <3>6. \A p, q \in Arrived' : enqueuedAt'[p] = enqueuedAt'[q] => p = q
      BY <1>1, <3>1, <3>2, <3>3, <3>5
    <3> QED
      BY <3>1, <3>4, <3>6 DEF ClockInv
  <2>3. CASE to # "queued"
    <3>1. to \in {"rejected", "duplicate"} /\ enqueuedAt' = enqueuedAt
      BY <1>8, <2>3 DEF Leg, QuietLegs
    <3>2. r \notin Arrived' /\ Arrived' \subseteq Requests
      BY <1>2, <3>1 DEF Arrived
    <3>3. Arrived' \subseteq Arrived
      BY <1>7, <3>2
    <3>4. \A q \in Arrived' : enqueuedAt'[q] < Arrivals'
      <4> TAKE q \in Arrived'
      <4>1. enqueuedAt[q] < Arrivals /\ enqueuedAt[q] \in Nat
        BY <3>2, <3>3 DEF ClockInv, Numbers
      <4> QED
        BY <1>1, <2>1, <3>1, <4>1
    <3>5. \A p, q \in Arrived' : enqueuedAt'[p] = enqueuedAt'[q] => p = q
      BY <3>1, <3>3 DEF ClockInv
    <3> QED
      BY <3>1, <3>4, <3>5 DEF ClockInv, Numbers
  <2> QED
    BY <2>2, <2>3
<1>9. CASE at[r] # "new"
  <2>1. A \cup {r} = A /\ enqueuedAt' = enqueuedAt
    BY <1>6, <1>9
  <2>2. Arrivals' = Arrivals
    BY <1>1, <1>5, <2>1
  <2>3. r \in Arrived
    BY <1>9 DEF Leg, QuietLegs, Arrived
  <2>4. Arrived' \subseteq Arrived
    BY <1>7, <2>3 DEF Arrived
  <2> QED
    BY <2>1, <2>2, <2>4 DEF ClockInv, Numbers
<1> QED
  BY <1>8, <1>9

PumpInv == Numbers /\ QueueInv /\ CountInv /\ ClockInv

\* A step that is a leg of one request keeps all of it.
LEMMA LegKeeps ==
    ASSUME PumpInv, NEW r \in Requests, NEW to, Leg(r, to), QueueInv',
           denials' \in 0 .. MaxDenials, pumpTimer' \in BOOLEAN,
           IF at[r] = "new" /\ to = "queued"
           THEN enqueuedAt' = [enqueuedAt EXCEPT ![r] = Arrivals] ELSE enqueuedAt' = enqueuedAt
    PROVE  PumpInv'
BY CountKeeps, ClockKeeps DEF PumpInv, Numbers

\* The legs that MemoryResults lets a request make.
SubmitLeg(r) ==
    /\ at[r] = "new"
    /\ \/ Enqueue(r) /\ Full /\ Leg(r, "rejected")
       \/ Enqueue(r) /\ ~Full /\ Leg(r, "queued")
       \/ Turned(r) /\ Leg(r, "duplicate")

LEMMA SubmitKeeps ==
    ASSUME PumpInv, NEW r \in Requests, Enqueue(r) \/ Turned(r)
    PROVE  PumpInv' /\ SubmitLeg(r)
<1>0. at[r] = "new" /\ denials \in 0 .. MaxDenials /\ pumpTimer \in BOOLEAN
  BY DEF Enqueue, Turned, PumpInv, Numbers
<1>1. CASE Enqueue(r)
  <2>1. QueueInv' /\ denials' = denials /\ pumpTimer' = pumpTimer
    BY <1>1, EnqueueLeg DEF PumpInv
  <2>2. CASE Full /\ Leg(r, "rejected") /\ enqueuedAt' = enqueuedAt
    BY <1>0, <1>1, <2>1, <2>2, LegKeeps DEF SubmitLeg
  <2>3. CASE ~Full /\ Leg(r, "queued") /\ enqueuedAt' = [enqueuedAt EXCEPT ![r] = Arrivals]
    BY <1>0, <1>1, <2>1, <2>3, LegKeeps DEF SubmitLeg
  <2> QED
    BY <1>1, <2>2, <2>3, EnqueueLeg DEF PumpInv
<1>2. CASE Turned(r)
  <2>1. QueueInv' /\ Leg(r, "duplicate") /\ UNCHANGED <<denials, pumpTimer, enqueuedAt>>
    BY <1>2, TurnedLeg DEF PumpInv
  <2> QED
    BY <1>0, <1>2, <2>1, LegKeeps DEF SubmitLeg
<1> QED
  BY <1>1, <1>2

LEMMA WorkKeeps ==
    ASSUME PumpInv, NEW r \in Requests, Work(r)
    PROVE  PumpInv' /\ at[r] # "new" /\ \E to \in Places : Leg(r, to)
<1>1. /\ QueueInv' /\ enqueuedAt' = enqueuedAt /\ denials' \in 0 .. MaxDenials
      /\ pumpTimer' \in BOOLEAN
  BY WorkLeg DEF PumpInv
<1>2. PICK to \in Places : Leg(r, to)
  BY WorkLeg DEF PumpInv
<1>3. at[r] # "new"
  BY DEF Work, Awaited, Allowed, Refused, LimiterFails, Finished, Executed, Requeue
<1> QED
  BY <1>1, <1>2, <1>3, LegKeeps

LEMMA TimerStep ==
    ASSUME PumpInv, TimerFires
    PROVE  PumpInv' /\ MovesTo(at)
<1>1. /\ pumpTimer' = FALSE
      /\ UNCHANGED <<active, attempts, enqueuedAt, denials>>
  BY DEF TimerFires
<1>2. QueueInv' /\ MovesTo(at)
  BY TimerKeeps DEF PumpInv
<1>3. /\ In("executing")' = In("executing") /\ In("new")' = In("new") /\ Arrived' = Arrived
      /\ \A q \in Requests : at'[q] \in Trying => at[q] \in Trying
  BY <1>2 DEF MovesTo, In, Arrived, Loop, Trying
<1>4. CountInv'
  BY <1>1, <1>3 DEF PumpInv, CountInv
<1>5. ClockInv'
  BY <1>1, <1>3 DEF PumpInv, ClockInv, Arrivals
<1> QED
  BY <1>1, <1>2, <1>4, <1>5 DEF PumpInv, Numbers

LEMMA SameQueue ==
    ASSUME PumpInv, UNCHANGED vars
    PROVE  PumpInv'
BY DEF vars, PumpInv, Numbers, QueueInv, CountInv, ClockInv, Arrived, Arrivals, In, NoLostWakeUp,
       Placed, OneLooping, InOrder, TailInOrder

\* What a step of the server may do to the pump.
LEMMA ServerSteps ==
    ASSUME ResultsNext
    PROVE  \/ \E r \in Requests : (Enqueue(r) \/ Turned(r)) /\ Submit(r)
           \/ \E r \in Requests : Work(r) /\ Continues(r)
           \/ TimerFires /\ UNCHANGED resultVars
           \/ UNCHANGED vars /\ ((\E key \in Keys : Forget(key)) \/ Hello \/ Leaves \/ Disconnect)
<1>1. \A r \in Requests : Submit(r) => Enqueue(r) \/ Turned(r)
  BY DEF Submit, Turned
<1>2. \A r \in Requests : Continues(r) => Work(r)
  BY DEF Continues
<1>3. (\E key \in Keys : Forget(key)) \/ Hello \/ Leaves \/ Disconnect => UNCHANGED vars
  BY DEF Forget, Hello, Leaves, Disconnect
<1> QED
  BY <1>1, <1>2, <1>3 DEF ResultsNext

LEMMA PumpInvariant == ResultsSpec => []PumpInv
<1>1. ResultsInit => PumpInv
  <2> HAVE ResultsInit
  <2> USE PumpAssumption DEF ResultsInit, Init
  <2>1. Numbers
    <3>1. 0 \in 0 .. MaxAttempts + 1 /\ 0 \in 0 .. Concurrency /\ 0 \in 0 .. MaxDenials
      OBVIOUS
    <3> QED
      BY <3>1 DEF Numbers
  <2>2. Placed(memoryQueue, at)
    BY DEF Placed, Places
  <2>3. OneLooping(at, pumping)
    BY DEF OneLooping, Loop
  <2>4. QueueInv
    <3>1. DOMAIN memoryQueue = {} /\ pumping = FALSE
      OBVIOUS
    <3>2. InOrder(memoryQueue, enqueuedAt) /\ TailInOrder(memoryQueue, enqueuedAt)
      BY <3>1 DEF InOrder, TailInOrder
    <3>3. NoLostWakeUp
      BY DEF NoLostWakeUp
    <3> QED
      BY <2>2, <2>3, <3>1, <3>2, <3>3 DEF QueueInv
  <2>5. In("executing") = {}
    BY DEF In
  <2>6. CountInv
    <3>1. Cardinality({}) = 0
      BY FS_EmptySet
    <3>2. \A r \in Requests : attempts[r] <= MaxAttempts
      OBVIOUS
    <3> QED
      BY <2>5, <3>1, <3>2 DEF CountInv
  <2>7. ClockInv
    BY DEF ClockInv, Arrived
  <2> QED
    BY <2>1, <2>4, <2>6, <2>7 DEF PumpInv
<1>2. PumpInv /\ [ResultsNext]_allVars => PumpInv'
  <2> HAVE PumpInv /\ [ResultsNext]_allVars
  <2>1. CASE UNCHANGED allVars
    BY <2>1, SameQueue DEF allVars
  <2>2. CASE ResultsNext
    BY <2>2, ServerSteps, SubmitKeeps, WorkKeeps, TimerStep, SameQueue
  <2> QED
    BY <2>1, <2>2
<1> QED
  BY <1>1, <1>2, PTL DEF ResultsSpec

\* Every variable of the pump stays in its range; above all, never more requests
\* execute than the concurrency allows, and no request makes more attempts than it has.
THEOREM TypeCorrect == ResultsSpec => []TypeOK
<1>1. PumpInv => TypeOK
  BY DEF PumpInv, Numbers, QueueInv, Placed, TypeOK
<1> QED
  BY <1>1, PumpInvariant, PTL

\* A request is in one place: once in the array exactly while it is queued, alone with
\* the loop after it was shifted, and counted in active exactly while it executes,
\* however retries, refusals and pumps from two places follow one another.
THEOREM EachInOnePlace == ResultsSpec => []OnePlace
<1>1. PumpInv => OnePlace
  <2> HAVE PumpInv
  <2>1. IsInjective(memoryQueue)
    BY DEF PumpInv, QueueInv, Placed, IsInjective
  <2>2. ToSet(memoryQueue) = In("queued")
    BY DEF PumpInv, QueueInv, Placed, ToSet, In
  <2>3. Cardinality(In("limiter") \cup In("finish")) = IF pumping THEN 1 ELSE 0
    <3>1. CASE pumping
      <4>1. PICK x \in Requests : \A r \in Requests : at[r] \in Loop <=> r = x
        BY <3>1 DEF PumpInv, QueueInv, OneLooping
      <4>2. In("limiter") \cup In("finish") = {x}
        BY <4>1 DEF In, Loop
      <4> QED
        BY <3>1, <4>2, FS_Singleton
    <3>2. CASE ~pumping
      <4>1. In("limiter") \cup In("finish") = {}
        BY <3>2 DEF PumpInv, QueueInv, OneLooping, In, Loop
      <4> QED
        BY <3>2, <4>1, FS_EmptySet
    <3> QED
      BY <3>1, <3>2
  <2> QED
    BY <2>1, <2>2, <2>3 DEF PumpInv, CountInv, OnePlace
<1> QED
  BY <1>1, PumpInvariant, PTL

\* Whenever work waits beside idle capacity the loop runs or its timer is set: no
\* order of enqueues, refusals, retries and ends of calls leaves the queue asleep.
THEOREM WakeUpsKept == ResultsSpec => []NoLostWakeUp
<1>1. PumpInv => NoLostWakeUp
  BY DEF PumpInv, QueueInv
<1> QED
  BY <1>1, PumpInvariant, PTL

\* Of two items of one priority the earlier stands first, a retry at the place of its
\* first arrival; only an item that the limiter has refused may stand at the head out
\* of turn.  The proof has more: bulk is ranked like normal (SameRank), so the order of
\* arrival holds across priorities, which is why NormalFirst is violated.
THEOREM ArrivalOrder == ResultsSpec => []OldestFirst
<1>1. PumpInv => OldestFirst
  BY DEF PumpInv, QueueInv, InOrder, TailInOrder, OldestFirst
<1> QED
  BY <1>1, PumpInvariant, PTL

-----------------------------------------------------------------------------
(* Keys and responses.                                                     *)

\* A request under way has its key marked, alone; a marked key has such a request
\* and no stored response.
KeyInv ==
    /\ inflight \subseteq Keys /\ stored \subseteq Keys
    /\ \A r \in Requests :
          at[r] \in UnderWay /\ KeyOf[r] # NoKey => KeyOf[r] \in inflight
    /\ \A r, q \in Requests :
          /\ at[r] \in UnderWay /\ at[q] \in UnderWay
          /\ KeyOf[r] = KeyOf[q] /\ KeyOf[r] # NoKey
          => r = q
    /\ \A key \in inflight : \E r \in Requests : KeyOf[r] = key /\ at[r] \in UnderWay
    /\ \A key \in inflight : key \notin stored

\* Steps that neither begin nor end a request's way leave this as it is.
LEMMA KeySame ==
    ASSUME KeyInv, \A r \in Requests : at'[r] \in UnderWay <=> at[r] \in UnderWay,
           inflight' = inflight, stored' \subseteq stored
    PROVE  KeyInv'
BY DEF KeyInv

LEMMA KeyOfSubmit ==
    ASSUME PumpInv, KeyInv, NEW r \in Requests, SubmitLeg(r), Submit(r)
    PROVE  KeyInv'
<1>0. QueueInv /\ at[r] = "new" /\ stored' = stored
  BY DEF PumpInv, SubmitLeg, Submit
<1>a. ASSUME NEW to, Leg(r, to)
      PROVE  /\ \A q \in Requests : q # r => (at'[q] \in UnderWay <=> at[q] \in UnderWay)
             /\ at'[r] = to \/ (to = "queued" /\ at'[r] \in Loop)
  BY <1>0, <1>a, LegMoves DEF UnderWay, Loop
<1>1. CASE Turned(r) /\ Leg(r, "duplicate")
  <2>1. inflight' = inflight
    <3>1. at'[r] = "duplicate"
      BY <1>1, <1>a
    <3>2. ~Full => Taken(KeyOf[r]) \/ inflight' = inflight \cup KeysOf(r)
      BY DEF Submit
    <3>3. ~Full /\ ~Taken(KeyOf[r]) => Enqueue(r)
      BY DEF Submit
    <3>4. Enqueue(r) => at'[r] # "duplicate"
      <4> HAVE Enqueue(r)
      <4>1. Leg(r, "rejected") \/ Leg(r, "queued")
        BY EnqueueLeg DEF PumpInv
      <4> QED
        BY <4>1, <1>a DEF Loop
    <3> QED
      BY <3>1, <3>3, <3>4 DEF Submit
  <2> QED
    BY <1>0, <1>1, <1>a, <2>1, KeySame DEF UnderWay
<1>2. CASE Enqueue(r) /\ Full /\ Leg(r, "rejected")
  <2>1. inflight' = inflight
    BY <1>2 DEF Submit
  <2> QED
    BY <1>0, <1>2, <1>a, <2>1, KeySame DEF UnderWay
<1>3. CASE Enqueue(r) /\ ~Full /\ Leg(r, "queued")
  <2>1. at'[r] # "duplicate" /\ at'[r] \in UnderWay
    BY <1>3, <1>a DEF UnderWay, Loop
  <2>2. ~Taken(KeyOf[r]) /\ inflight' = inflight \cup KeysOf(r)
    <3>1. at' # Moved(r, "duplicate")
      BY <1>0, <2>1 DEF Moved, QueueInv, Placed
    <3> QED
      BY <1>3, <3>1 DEF Submit
  <2>3. KeyOf[r] \notin inflight /\ KeyOf[r] \notin stored
    BY <2>2 DEF Taken
  <2>4. KeysOf(r) \subseteq Keys
    BY ResultsAssumption DEF KeysOf
  <2>5. inflight' = IF KeyOf[r] = NoKey THEN inflight ELSE inflight \cup {KeyOf[r]}
    BY <2>2 DEF KeysOf
  <2>6. \A q \in Requests : q # r => (at'[q] \in UnderWay <=> at[q] \in UnderWay)
    BY <1>3, <1>a
  <2>7. \A q \in Requests : at[q] \in UnderWay /\ KeyOf[q] = KeyOf[r] => KeyOf[r] = NoKey
    BY <2>3 DEF KeyInv
  <2>8. inflight' \subseteq Keys
    BY <2>2, <2>4 DEF KeyInv
  <2>9. \A q \in Requests : at'[q] \in UnderWay /\ KeyOf[q] # NoKey => KeyOf[q] \in inflight'
    BY <2>5, <2>6 DEF KeyInv
  <2>10. \A p, q \in Requests :
          /\ at'[p] \in UnderWay /\ at'[q] \in UnderWay
          /\ KeyOf[p] = KeyOf[q] /\ KeyOf[p] # NoKey
          => p = q
    BY <2>6, <2>7 DEF KeyInv
  <2>11. \A key \in inflight' : \E q \in Requests : KeyOf[q] = key /\ at'[q] \in UnderWay
    <3> TAKE key \in inflight'
    <3>1. CASE key = KeyOf[r]
      BY <2>1, <3>1
    <3>2. CASE key # KeyOf[r]
      <4>1. PICK q \in Requests : KeyOf[q] = key /\ at[q] \in UnderWay
        BY <2>5, <3>2 DEF KeyInv
      <4> QED
        BY <2>6, <3>2, <4>1
    <3> QED
      BY <3>1, <3>2
  <2>12. \A key \in inflight' : key \notin stored'
    BY <1>0, <2>3, <2>5 DEF KeyInv
  <2> QED
    BY <1>0, <2>8, <2>9, <2>10, <2>11, <2>12 DEF KeyInv
<1> QED
  BY <1>1, <1>2, <1>3 DEF SubmitLeg

LEMMA KeyOfWork ==
    ASSUME PumpInv, KeyInv, NEW r \in Requests, at[r] # "new", NEW to, Leg(r, to), Continues(r)
    PROVE  KeyInv'
<1>0. QueueInv
  BY DEF PumpInv
<1>1. /\ \A q \in Requests : q # r => (at'[q] \in UnderWay <=> at[q] \in UnderWay)
      /\ at'[r] = to \/ (to = "queued" /\ at'[r] \in Loop)
  BY <1>0, LegMoves DEF UnderWay, Loop
<1>2. at[r] \in UnderWay /\ to \in {"executing", "done", "backoff", "queued", "finish"}
  BY DEF Leg, QuietLegs, UnderWay
<1>3. CASE at'[r] # "done"
  <2>1. at'[r] \in UnderWay
    BY <1>1, <1>2, <1>3 DEF UnderWay, Loop
  <2>2. inflight' = inflight /\ stored' = stored
    BY <1>3 DEF Continues
  <2> QED
    BY <1>1, <1>2, <2>1, <2>2, KeySame
<1>4. CASE at'[r] = "done"
  <2>1. inflight' = inflight \ KeysOf(r) /\ stored' = stored \cup KeysOf(r)
    BY <1>4 DEF Continues, Finish
  <2>2. \A q \in Requests : at'[q] \in UnderWay <=> q # r /\ at[q] \in UnderWay
    BY <1>1, <1>4 DEF UnderWay
  <2>3. KeysOf(r) = IF KeyOf[r] = NoKey THEN {} ELSE {KeyOf[r]}
    BY DEF KeysOf
  <2>4. KeysOf(r) \subseteq Keys
    BY ResultsAssumption DEF KeysOf
  <2>5. inflight' \subseteq Keys /\ stored' \subseteq Keys
    BY <2>1, <2>4 DEF KeyInv
  <2>6. \A q \in Requests : at'[q] \in UnderWay /\ KeyOf[q] # NoKey => KeyOf[q] \in inflight'
    BY <1>2, <2>1, <2>2, <2>3 DEF KeyInv
  <2>7. \A p, q \in Requests :
          /\ at'[p] \in UnderWay /\ at'[q] \in UnderWay
          /\ KeyOf[p] = KeyOf[q] /\ KeyOf[p] # NoKey
          => p = q
    BY <2>2 DEF KeyInv
  <2>8. \A key \in inflight' : \E q \in Requests : KeyOf[q] = key /\ at'[q] \in UnderWay
    <3> TAKE key \in inflight'
    <3>1. PICK q \in Requests : KeyOf[q] = key /\ at[q] \in UnderWay
      BY <2>1 DEF KeyInv
    <3>2. key # NoKey /\ key \notin KeysOf(r)
      BY <2>1, ResultsAssumption DEF KeyInv
    <3>3. q # r
      BY <2>3, <3>1, <3>2
    <3> QED
      BY <2>2, <3>1, <3>3
  <2>9. \A key \in inflight' : key \notin stored'
    BY <2>1 DEF KeyInv
  <2> QED
    BY <2>5, <2>6, <2>7, <2>8, <2>9 DEF KeyInv
<1> QED
  BY <1>3, <1>4

\* The response of a request that is done has been sent or waits for the POD.
ResponseInv ==
    /\ result \in [Requests -> {"none", "sent", "pending"}]
    /\ ResponseKept

LEMMA ResponseSame ==
    ASSUME ResponseInv, \A r \in Requests : at'[r] = "done" => at[r] = "done",
           result' = result, socket' = "open" => socket = "open"
    PROVE  ResponseInv'
BY DEF ResponseInv, ResponseKept

LEMMA ResponseOfWork ==
    ASSUME PumpInv, ResponseInv, NEW r \in Requests, NEW to, Leg(r, to), Continues(r)
    PROVE  ResponseInv'
<1>1. \A q \in Requests : q # r => (at'[q] = "done" => at[q] = "done")
  BY LegMoves DEF PumpInv, Loop
<1>2. socket' = socket
  BY DEF Continues
<1>3. CASE at'[r] # "done"
  BY <1>1, <1>2, <1>3, ResponseSame DEF Continues
<1>4. CASE at'[r] = "done"
  <2>1. result' = [result EXCEPT ![r] = IF socket = "open" THEN "sent" ELSE "pending"]
    BY <1>4 DEF Continues, Finish, Delivered, Sendable, Arrive
  <2> QED
    BY <1>1, <1>2, <2>1 DEF ResponseInv, ResponseKept
<1> QED
  BY <1>3, <1>4

\* A connection takes what waits; what is stored, and the other events, touch no response.
LEMMA ServerKeeps ==
    ASSUME PumpInv, KeyInv, ResponseInv, [ResultsNext]_allVars
    PROVE  KeyInv' /\ ResponseInv'
<1>0. QueueInv
  BY DEF PumpInv
<1>1. CASE UNCHANGED allVars
  BY <1>1 DEF allVars, vars, resultVars, KeyInv, ResponseInv, ResponseKept
<1>2. ASSUME NEW r \in Requests, Enqueue(r) \/ Turned(r), Submit(r)
      PROVE  KeyInv' /\ ResponseInv'
  <2>1. SubmitLeg(r)
    BY <1>2, SubmitKeeps
  <2>2. \A q \in Requests : at'[q] = "done" => at[q] = "done"
    BY <1>0, <2>1, LegMoves DEF SubmitLeg, Loop
  <2>3. result' = result /\ socket' = socket
    BY <1>2 DEF Submit
  <2> QED
    BY <1>2, <2>1, <2>2, <2>3, KeyOfSubmit, ResponseSame
<1>3. ASSUME NEW r \in Requests, Work(r), Continues(r)
      PROVE  KeyInv' /\ ResponseInv'
  <2>1. at[r] # "new" /\ \E to \in Places : Leg(r, to)
    BY <1>3, WorkKeeps
  <2> QED
    BY <1>3, <2>1, KeyOfWork, ResponseOfWork
<1>4. CASE TimerFires /\ UNCHANGED resultVars
  <2>1. \A q \in Requests : at'[q] = at[q] \/ (at[q] = "queued" /\ at'[q] \in Loop)
    BY <1>4, TimerStep DEF MovesTo
  <2>2. \A q \in Requests : /\ at'[q] \in UnderWay <=> at[q] \in UnderWay
                            /\ at'[q] = "done" => at[q] = "done"
    BY <2>1 DEF UnderWay, Loop
  <2>3. UNCHANGED <<inflight, stored, result, socket>>
    BY <1>4 DEF resultVars
  <2> QED
    BY <2>2, <2>3, KeySame, ResponseSame
<1>5. ASSUME UNCHANGED at, inflight' = inflight, stored' \subseteq stored
      PROVE  KeyInv'
  BY <1>5, KeySame
<1>6. ASSUME NEW key \in Keys, Forget(key)
      PROVE  KeyInv' /\ ResponseInv'
  <2>1. /\ UNCHANGED at /\ inflight' = inflight /\ stored' \subseteq stored
        /\ result' = result /\ socket' = socket
    BY <1>6 DEF Forget, vars
  <2> QED
    BY <1>5, <2>1, ResponseSame
<1>7. CASE Hello
  <2>1. /\ UNCHANGED at /\ inflight' = inflight /\ stored' \subseteq stored
        /\ result' = [r \in Requests |-> IF result[r] = "pending" THEN "sent" ELSE result[r]]
    BY <1>7 DEF Hello, ReplayPending, vars
  <2>2. ResponseInv'
    BY <2>1 DEF ResponseInv, ResponseKept
  <2> QED
    BY <1>5, <2>1, <2>2
<1>8. CASE Leaves \/ Disconnect
  <2>1. /\ UNCHANGED at /\ inflight' = inflight /\ stored' \subseteq stored
        /\ result' = result /\ socket' # "open"
    BY <1>8 DEF Leaves, Disconnect, vars
  <2> QED
    BY <1>5, <2>1, ResponseSame
<1> QED
  BY <1>1, <1>2, <1>3, <1>4, <1>6, <1>7, <1>8, ServerSteps

LEMMA ServerInvariant == ResultsSpec => [](KeyInv /\ ResponseInv)
<1>1. ResultsInit => KeyInv /\ ResponseInv
  BY DEF ResultsInit, Init, KeyInv, ResponseInv, ResponseKept, UnderWay
<1>2. PumpInv /\ KeyInv /\ ResponseInv /\ [ResultsNext]_allVars => KeyInv' /\ ResponseInv'
  BY ServerKeeps
<1> QED
  BY <1>1, <1>2, PumpInvariant, PTL DEF ResultsSpec

\* Of the requests that share a key one is under way at a time, and none while a response
\* is stored, through any number of retries, refusals and duplicates.
THEOREM KeysRunOnce == ResultsSpec => []OneRunPerKey
<1>1. KeyInv => OneRunPerKey
  <2> SUFFICES ASSUME KeyInv, NEW key \in Keys
               PROVE  LET running == {r \in With(key) : at[r] \in UnderWay}
                      IN  /\ Cardinality(running) <= 1
                          /\ running # {} <=> key \in inflight
                          /\ ~(key \in inflight /\ key \in stored)
    BY DEF OneRunPerKey
  <2> DEFINE running == {r \in With(key) : at[r] \in UnderWay}
  <2>1. key # NoKey
    BY ResultsAssumption
  <2>2. \A r, q \in running : r = q
    BY <2>1 DEF With, KeyInv
  <2>3. running # {} <=> key \in inflight
    BY <2>1 DEF With, KeyInv
  <2>4. Cardinality(running) <= 1
    <3>1. running = {} \/ \E x : running = {x}
      BY <2>2
    <3> QED
      BY <3>1, FS_EmptySet, FS_Singleton
  <2> QED
    BY <2>3, <2>4 DEF KeyInv
<1> QED
  BY <1>1, ServerInvariant, PTL

\* The response of a request that is done was sent on an open socket or waits for the
\* POD, and none waits while the POD is connected.
THEOREM ResponsesKept == ResultsSpec => []ResponseKept
<1>1. ResponseInv => ResponseKept
  BY DEF ResponseInv
<1> QED
  BY <1>1, ServerInvariant, PTL
=============================================================================
