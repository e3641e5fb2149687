---------------------------- MODULE BridgeProofs ----------------------------
(***************************************************************************)
(* Theorems about the scheduler and the shared leases, for any processes,  *)
(* calls, keys and limits.                                                 *)
(***************************************************************************)
EXTENDS Bridge, FiniteSetTheorems, SequenceTheorems, TLAPS

\* What Engine.drain leaves in the queue when it takes the i-th call out.
LEMMA RemoveFacts ==
    ASSUME NEW S, NEW s \in Seq(S), NEW i \in 1..Len(s)
    PROVE  /\ RemoveAt(s, i) \in Seq(S)
           /\ Len(RemoveAt(s, i)) = Len(s) - 1
           /\ \A j \in 1..(Len(s) - 1) : RemoveAt(s, i)[j] = IF j < i THEN s[j] ELSE s[j + 1]
<1> DEFINE front == SubSeq(s, 1, i - 1)
           back  == SubSeq(s, i + 1, Len(s))
<1>1. Len(s) \in Nat /\ i \in Int /\ \A j \in 1..Len(s) : s[j] \in S
  BY LenProperties
<1>2. /\ front \in Seq(S) /\ Len(front) = i - 1
      /\ \A j \in 1..(i - 1) : front[j] = s[j]
  <2>1. \A j \in 1..(i - 1) : s[j] \in S
    BY <1>1
  <2>2. /\ front \in Seq(S) /\ Len(front) = IF 1 <= i - 1 THEN (i - 1) - 1 + 1 ELSE 0
        /\ \A j \in 1..((i - 1) - 1 + 1) : front[j] = s[1 + j - 1]
    BY <1>1, <2>1, SubSeqProperties
  <2> QED
    BY <1>1, <2>2
<1>3. /\ back \in Seq(S) /\ Len(back) = Len(s) - i
      /\ \A j \in 1..(Len(s) - i) : back[j] = s[i + j]
  <2>1. \A j \in (i + 1)..Len(s) : s[j] \in S
    BY <1>1
  <2>2. /\ back \in Seq(S) /\ Len(back) = IF i + 1 <= Len(s) THEN Len(s) - (i + 1) + 1 ELSE 0
        /\ \A j \in 1..(Len(s) - (i + 1) + 1) : back[j] = s[(i + 1) + j - 1]
    BY <1>1, <2>1, SubSeqProperties
  <2> QED
    BY <1>1, <2>2
<1>4. /\ front \o back \in Seq(S)
      /\ Len(front \o back) = Len(front) + Len(back)
      /\ \A j \in 1..(Len(front) + Len(back)) :
            (front \o back)[j] = IF j <= Len(front) THEN front[j] ELSE back[j - Len(front)]
  BY <1>2, <1>3, ConcatProperties
<1>5. \A j \in 1..(Len(s) - 1) : (front \o back)[j] = IF j < i THEN s[j] ELSE s[j + 1]
  <2> HIDE DEF front, back
  <2> TAKE j \in 1..(Len(s) - 1)
  <2>1. CASE j < i
    BY <1>1, <1>2, <1>3, <1>4, <2>1
  <2>2. CASE j >= i
    <3>1. (front \o back)[j] = back[j - (i - 1)]
      BY <1>1, <1>2, <1>3, <1>4, <2>2
    <3>2. back[j - (i - 1)] = s[i + (j - (i - 1))]
      BY <1>1, <1>3, <2>2
    <3>3. i + (j - (i - 1)) = j + 1 /\ ~(j < i)
      BY <1>1, <2>2
    <3> QED
      BY <3>1, <3>2, <3>3
  <2>3. j < i \/ j >= i
    BY <1>1
  <2> QED
    BY <2>1, <2>2, <2>3
<1>6. RemoveAt(s, i) = front \o back
  BY DEF RemoveAt
<1> HIDE DEF front, back
<1>7. Len(front) + Len(back) = Len(s) - 1
  BY <1>1, <1>2, <1>3
<1>8. RemoveAt(s, i) \in Seq(S) /\ Len(RemoveAt(s, i)) = Len(s) - 1
  BY <1>4, <1>6, <1>7, Zenon
<1>9. \A j \in 1..(Len(s) - 1) : RemoveAt(s, i)[j] = IF j < i THEN s[j] ELSE s[j + 1]
  BY <1>5, <1>6, Zenon
<1> QED
  BY <1>8, <1>9

\* A call that is granted its lease is counted and runs; an account's call takes
\* a free row of its own, a system call none.
LEMMA GrantedFacts ==
    ASSUME TypeOK, NEW c \in Calls, Granted(c)
    PROVE  /\ phase' = [phase EXCEPT ![c] = "running"]
           /\ active' = [active EXCEPT ![ProcOf[c]] = @ + 1]
           /\ activeByKey' = [activeByKey EXCEPT ![ProcOf[c]][KeyOf[c]] = @ + 1]
           /\ \/ KeyOf[c] \in SystemKeys /\ lease' = lease /\ token' = token
              \/ /\ KeyOf[c] \in Dids /\ LeaseAllowed(KeyOf[c])
                 /\ \E t \in Rows : /\ lease[t] = FreeLease
                                    /\ lease' = [lease EXCEPT ![t] = KeyOf[c]]
                                    /\ token' = [token EXCEPT ![c] = t]
<1>1. phase' = [phase EXCEPT ![c] = "running"]
  BY DEF Granted
<1>2. Count(ProcOf[c], KeyOf[c], 1)
  BY DEF Granted
<1>3. /\ active' = [active EXCEPT ![ProcOf[c]] = @ + 1]
      /\ activeByKey' = [activeByKey EXCEPT ![ProcOf[c]][KeyOf[c]] = @ + 1]
  BY <1>2 DEF Count
<1>4. \/ KeyOf[c] \in SystemKeys /\ lease' = lease /\ token' = token
      \/ /\ KeyOf[c] \in Dids /\ LeaseAllowed(KeyOf[c])
         /\ \E t \in Rows : /\ lease[t] = FreeLease
                            /\ lease' = [lease EXCEPT ![t] = KeyOf[c]]
                            /\ token' = [token EXCEPT ![c] = t]
  BY DEF Granted
<1> QED
  BY <1>1, <1>3, <1>4

\* A call is made by a new request, or by one whose last call was answered.
Makes(c) == Issue(c) \/ Continue(c)

\* The kinds of steps, each with what it does to the variables; the
\* disjuncts of Turn and of Schedule are told apart here once.
StepCases ==
    \/ \E c \in Calls :
          \/ /\ Makes(c) /\ HasRoom(ProcOf[c], KeyOf[c]) /\ Granted(c)
             /\ queue' = queue /\ draining' = draining
          \/ Makes(c) /\ Refused(c) /\ queue' = queue
          \/ /\ Makes(c) /\ ~HasRoom(ProcOf[c], KeyOf[c]) /\ HasQueueRoom(ProcOf[c])
             /\ queue' = [queue EXCEPT ![ProcOf[c]] = Append(@, c)]
             /\ phase' = [phase EXCEPT ![c] = "queued"]
             /\ UNCHANGED <<active, activeByKey, draining, lease, token>>
          \/ /\ Makes(c) /\ phase' = [phase EXCEPT ![c] = "failed"]
             /\ UNCHANGED <<queue, active, activeByKey, draining, lease, token>>
    \/ \E c \in Calls, ok \in BOOLEAN : Close(c, ok)
    \/ \E p \in Processes : \E i \in DOMAIN queue[p] :
          /\ draining[p] /\ FirstStartable(p, i)
          /\ queue' = [queue EXCEPT ![p] = RemoveAt(@, i)]
          /\ Granted(queue[p][i]) /\ draining' = draining
    \/ \E p \in Processes : \E i \in DOMAIN queue[p] :
          /\ draining[p] /\ FirstStartable(p, i)
          /\ queue' = [queue EXCEPT ![p] = RemoveAt(@, i)]
          /\ Refused(queue[p][i])
    \/ \E p \in Processes : DrainEnds(p)
    \/ \E c \in Calls : Return(c)
    \/ \E p \in Processes : Crash(p)
    \/ \E t \in Rows : Expire(t)

LEMMA NextCases == ASSUME Next PROVE StepCases
<1>1. CASE \E c \in Calls : Makes(c)
  <2>1. PICK c \in Calls : Makes(c)
    BY <1>1
  <2>2. Schedule(c)
    BY <2>1 DEF Makes, Issue, Continue
  <2> QED
    BY <2>1, <2>2 DEF StepCases, Schedule
<1>2. CASE \E c \in Calls, ok \in BOOLEAN : Close(c, ok)
  BY <1>2 DEF StepCases
<1>3. CASE \E p \in Processes : Turn(p) \/ Crash(p)
  <2>1. CASE \E p \in Processes : Crash(p)
    BY <2>1 DEF StepCases
  <2>2. CASE \E p \in Processes : \E i \in DOMAIN queue[p] : DrainOne(p, i)
    <3>1. PICK p \in Processes : \E i \in DOMAIN queue[p] : DrainOne(p, i)
      BY <2>2
    <3>2. PICK i \in DOMAIN queue[p] : DrainOne(p, i)
      BY <3>1
    <3> QED
      BY <3>2 DEF StepCases, DrainOne
  <2>3. CASE \E p \in Processes : DrainEnds(p)
    BY <2>3 DEF StepCases
  <2>4. CASE \E p \in Processes : \E c \in CallsOf(p) : Return(c)
    <3>1. \E c \in Calls : Return(c)
      BY <2>4 DEF CallsOf
    <3> QED
      BY <3>1 DEF StepCases
  <2>5. CASE \E p \in Processes : \E c \in CallsOf(p) : Continue(c)
    <3>1. \E c \in Calls : Makes(c)
      BY <2>5 DEF CallsOf, Makes
    <3> QED
      BY <1>1, <3>1
  <2> QED
    BY <1>3, <2>1, <2>2, <2>3, <2>4, <2>5 DEF Turn
<1>4. CASE \E t \in Rows : Expire(t)
  BY <1>4 DEF StepCases
<1> QED
  BY <1>1, <1>2, <1>3, <1>4 DEF Next, Makes

LEMMA Places == \A c \in Calls : ProcOf[c] \in Processes /\ KeyOf[c] \in Keys
BY BridgeAssumption

LEMMA GrantedTyped ==
    ASSUME TypeOK, NEW c \in Calls, Granted(c)
    PROVE  /\ phase' \in [Calls -> Phase] /\ active' \in [Processes -> Int]
           /\ activeByKey' \in [Processes -> [Keys -> Int]]
           /\ lease' \in [Rows -> Dids \union {FreeLease}] /\ token' \in [Calls -> Rows \union {0}]
<1>1. phase' \in [Calls -> Phase]
  BY GrantedFacts DEF TypeOK, Phase
<1>2. active' \in [Processes -> Int]
  <2>1. active' = [active EXCEPT ![ProcOf[c]] = @ + 1] /\ active \in [Processes -> Int]
    BY GrantedFacts DEF TypeOK
  <2> QED
    BY <2>1, Places
<1>3. activeByKey' \in [Processes -> [Keys -> Int]]
  <2>1. /\ activeByKey' = [activeByKey EXCEPT ![ProcOf[c]][KeyOf[c]] = @ + 1]
        /\ activeByKey \in [Processes -> [Keys -> Int]]
    BY GrantedFacts DEF TypeOK
  <2> QED
    BY <2>1, Places
<1>4. lease' \in [Rows -> Dids \union {FreeLease}] /\ token' \in [Calls -> Rows \union {0}]
  <2>1. lease \in [Rows -> Dids \union {FreeLease}] /\ token \in [Calls -> Rows \union {0}]
    BY DEF TypeOK
  <2>2. CASE lease' = lease /\ token' = token
    BY <2>1, <2>2
  <2>3. ASSUME NEW t \in Rows, KeyOf[c] \in Dids, lease' = [lease EXCEPT ![t] = KeyOf[c]],
               token' = [token EXCEPT ![c] = t]
        PROVE  /\ lease' \in [Rows -> Dids \union {FreeLease}]
               /\ token' \in [Calls -> Rows \union {0}]
    BY <2>1, <2>3
  <2> QED
    BY <2>2, <2>3, GrantedFacts
<1> QED
  BY <1>1, <1>2, <1>3, <1>4

LEMMA RefusedTyped ==
    ASSUME TypeOK, NEW c \in Calls, Refused(c)
    PROVE  /\ phase' \in [Calls -> Phase] /\ draining' \in [Processes -> BOOLEAN]
           /\ active' = active /\ activeByKey' = activeByKey
           /\ lease' = lease /\ token' = token
<1>1. phase' = [phase EXCEPT ![c] = "failed"] /\ draining' = [draining EXCEPT ![ProcOf[c]] = TRUE]
  BY DEF Refused
<1>2. phase' \in [Calls -> Phase]
  BY <1>1 DEF TypeOK, Phase, Settled
<1>3. draining' \in [Processes -> BOOLEAN]
  BY <1>1 DEF TypeOK
<1> QED
  BY <1>2, <1>3 DEF Refused

\* Taking a call out of a queue keeps the queues typed and within their depth.
LEMMA ShorterQueues ==
    ASSUME TypeOK, NEW p \in Processes, NEW i \in DOMAIN queue[p],
           queue' = [queue EXCEPT ![p] = RemoveAt(@, i)]
    PROVE  /\ queue[p] \in Seq(Calls) /\ queue[p][i] \in Calls /\ i \in 1..Len(queue[p])
           /\ queue' \in [Processes -> Seq(Calls)]
           /\ \A q \in Processes : Len(queue'[q]) <= QueueDepth
<1>1. queue \in [Processes -> Seq(Calls)] /\ \A q \in Processes : Len(queue[q]) <= QueueDepth
  BY DEF TypeOK
<1>2. queue[p] \in Seq(Calls) /\ i \in 1..Len(queue[p])
  BY <1>1, LenProperties
<1>3. queue[p][i] \in Calls /\ Len(queue[p]) \in Nat
  BY <1>2, LenProperties
<1>4. RemoveAt(queue[p], i) \in Seq(Calls) /\ Len(RemoveAt(queue[p], i)) = Len(queue[p]) - 1
  BY <1>2, RemoveFacts
<1>5. queue'[p] = RemoveAt(queue[p], i) /\ \A q \in Processes \ {p} : queue'[q] = queue[q]
  BY <1>1
<1>6. queue' \in [Processes -> Seq(Calls)]
  BY <1>1, <1>4
<1>7. \A q \in Processes : Len(queue'[q]) <= QueueDepth
  <2> TAKE q \in Processes
  <2>1. CASE q = p
    <3>1. Len(queue'[p]) = Len(queue[p]) - 1 /\ Len(queue[p]) <= QueueDepth
      BY <1>1, <1>4, <1>5
    <3> QED
      BY <1>3, <2>1, <3>1, BridgeAssumption
  <2>2. CASE q # p
    BY <1>1, <1>5, <2>2
  <2> QED
    BY <2>1, <2>2
<1> QED
  BY <1>2, <1>3, <1>6, <1>7

LEMMA LongerQueues ==
    ASSUME TypeOK, NEW c \in Calls, HasQueueRoom(ProcOf[c]),
           queue' = [queue EXCEPT ![ProcOf[c]] = Append(@, c)]
    PROVE  /\ queue' \in [Processes -> Seq(Calls)]
           /\ \A q \in Processes : Len(queue'[q]) <= QueueDepth
<1> DEFINE p == ProcOf[c]
<1>1. queue \in [Processes -> Seq(Calls)] /\ \A q \in Processes : Len(queue[q]) <= QueueDepth
  BY DEF TypeOK
<1>2. p \in Processes /\ queue[p] \in Seq(Calls) /\ Len(queue[p]) < QueueDepth
  BY <1>1, Places DEF HasQueueRoom
<1>3. /\ Append(queue[p], c) \in Seq(Calls) /\ Len(Append(queue[p], c)) = Len(queue[p]) + 1
      /\ Len(queue[p]) \in Nat
  BY <1>2, AppendProperties, LenProperties
<1> HIDE DEF p
<1>4. queue' = [queue EXCEPT ![p] = Append(queue[p], c)]
  BY <1>1 DEF p
<1>5. queue' \in [Processes -> Seq(Calls)]
  BY <1>1, <1>2, <1>3, <1>4
<1>6. \A q \in Processes : Len(queue'[q]) <= QueueDepth
  <2> TAKE q \in Processes
  <2>1. CASE q = p
    <3>1. Len(queue'[q]) = Len(queue[p]) + 1
      BY <1>1, <1>2, <1>3, <1>4, <2>1
    <3> QED
      BY <1>2, <1>3, <3>1, BridgeAssumption
  <2>2. CASE q # p
    BY <1>1, <1>2, <1>4, <2>2
  <2> QED
    BY <2>1, <2>2
<1> QED
  BY <1>5, <1>6

LEMMA TypeNext == ASSUME TypeOK, [Next]_vars PROVE TypeOK'
<1>1. CASE UNCHANGED vars
  BY <1>1 DEF vars, TypeOK
<1>2. CASE Next
  <2>0. StepCases
    BY <1>2, NextCases
  <2>1. ASSUME NEW c \in Calls, Granted(c), queue' = queue, draining' = draining
        PROVE  TypeOK'
    BY <2>1, GrantedTyped DEF TypeOK
  <2>2. ASSUME NEW c \in Calls, Refused(c), queue' = queue
        PROVE  TypeOK'
    BY <2>2, RefusedTyped DEF TypeOK
  <2>3. ASSUME NEW c \in Calls, HasQueueRoom(ProcOf[c]),
               queue' = [queue EXCEPT ![ProcOf[c]] = Append(@, c)],
               phase' = [phase EXCEPT ![c] = "queued"],
               UNCHANGED <<active, activeByKey, draining, lease, token>>
        PROVE  TypeOK'
    <3>1. phase' \in [Calls -> Phase]
      BY <2>3 DEF TypeOK, Phase
    <3> QED
      BY <2>3, <3>1, LongerQueues DEF TypeOK
  <2>4. ASSUME NEW c \in Calls, phase' = [phase EXCEPT ![c] = "failed"],
               UNCHANGED <<queue, active, activeByKey, draining, lease, token>>
        PROVE  TypeOK'
    <3>1. phase' \in [Calls -> Phase]
      BY <2>4 DEF TypeOK, Phase, Settled
    <3> QED
      BY <2>4, <3>1 DEF TypeOK
  <2>5. ASSUME NEW c \in Calls, NEW ok \in BOOLEAN, Close(c, ok)
        PROVE  TypeOK'
    <3>1. /\ phase' = [phase EXCEPT ![c] = IF ok THEN "ok" ELSE "failed"]
          /\ active' = [active EXCEPT ![ProcOf[c]] = @ + (-1)]
          /\ activeByKey' = [activeByKey EXCEPT ![ProcOf[c]][KeyOf[c]] = @ + (-1)]
          /\ lease' = [t \in Rows |-> IF t = token[c] THEN FreeLease ELSE lease[t]]
          /\ token' = [token EXCEPT ![c] = 0]
          /\ draining' = [draining EXCEPT ![ProcOf[c]] = TRUE]
          /\ queue' = queue
      BY <2>5 DEF Close, Count
    <3>2. phase' \in [Calls -> Phase]
      BY <3>1 DEF TypeOK, Phase, Settled
    <3>3. active' \in [Processes -> Int]
      BY <3>1, Places DEF TypeOK
    <3>4. activeByKey' \in [Processes -> [Keys -> Int]]
      BY <3>1, Places DEF TypeOK
    <3>5. lease' \in [Rows -> Dids \union {FreeLease}] /\ token' \in [Calls -> Rows \union {0}]
      BY <3>1 DEF TypeOK
    <3>6. draining' \in [Processes -> BOOLEAN]
      BY <3>1 DEF TypeOK
    <3> QED
      BY <3>1, <3>2, <3>3, <3>4, <3>5, <3>6 DEF TypeOK
  <2>6. ASSUME NEW p \in Processes, NEW i \in DOMAIN queue[p],
               queue' = [queue EXCEPT ![p] = RemoveAt(@, i)],
               Granted(queue[p][i]), draining' = draining
        PROVE  TypeOK'
    <3>1. queue[p][i] \in Calls
      BY <2>6, ShorterQueues
    <3> QED
      BY <2>6, <3>1, ShorterQueues, GrantedTyped DEF TypeOK
  <2>7. ASSUME NEW p \in Processes, NEW i \in DOMAIN queue[p],
               queue' = [queue EXCEPT ![p] = RemoveAt(@, i)], Refused(queue[p][i])
        PROVE  TypeOK'
    <3>1. queue[p][i] \in Calls
      BY <2>7, ShorterQueues
    <3> QED
      BY <2>7, <3>1, ShorterQueues, RefusedTyped DEF TypeOK
  <2>8. ASSUME NEW p \in Processes, DrainEnds(p)
        PROVE  TypeOK'
    BY <2>8 DEF DrainEnds, TypeOK
  <2>9. ASSUME NEW c \in Calls, Return(c)
        PROVE  TypeOK'
    <3>1. phase' \in [Calls -> Phase]
      BY <2>9 DEF Return, TypeOK, Phase
    <3> QED
      BY <2>9, <3>1 DEF Return, TypeOK
  <2>10. ASSUME NEW p \in Processes, Crash(p)
         PROVE  TypeOK'
    <3>1. phase' \in [Calls -> Phase] /\ token' \in [Calls -> Rows \union {0}]
      BY <2>10 DEF Crash, TypeOK, Phase
    <3>2. queue' \in [Processes -> Seq(Calls)]
      BY <2>10, EmptySeq DEF Crash, TypeOK
    <3>3. \A q \in Processes : Len(queue'[q]) <= QueueDepth
      <4>1. \A q \in Processes : queue'[q] = queue[q] \/ queue'[q] = << >>
        BY <2>10 DEF Crash, TypeOK
      <4> QED
        BY <4>1, BridgeAssumption, EmptySeq DEF TypeOK
    <3>4. /\ active' \in [Processes -> Int] /\ activeByKey' \in [Processes -> [Keys -> Int]]
          /\ draining' \in [Processes -> BOOLEAN]
      BY <2>10 DEF Crash, TypeOK
    <3> QED
      BY <2>10, <3>1, <3>2, <3>3, <3>4 DEF Crash, TypeOK
  <2>11. ASSUME NEW t \in Rows, Expire(t)
         PROVE  TypeOK'
    BY <2>11 DEF Expire, TypeOK
  <2> QED
    BY <2>0, <2>1, <2>2, <2>3, <2>4, <2>5, <2>6, <2>7, <2>8, <2>9, <2>10, <2>11 DEF StepCases
<1> QED
  BY <1>1, <1>2

LEMMA TypeInit == Init => TypeOK
<1> SUFFICES ASSUME Init PROVE TypeOK
  OBVIOUS
<1>1. \A p \in Processes : queue[p] \in Seq(Calls) /\ Len(queue[p]) <= QueueDepth
  BY EmptySeq, BridgeAssumption DEF Init
<1> QED
  BY <1>1 DEF Init, TypeOK, Phase

\* Every reachable state has its types, and no queue is longer than its depth.
THEOREM TypeCorrect == Spec => []TypeOK
BY TypeInit, TypeNext, PTL DEF Spec

(***************************************************************************)
(* The waiting calls and the queues are the same thing seen twice.         *)
(***************************************************************************)

\* A queue holds waiting calls of its own process, each of them once.
Listed ==
    \A p \in Processes :
        /\ \A i \in 1..Len(queue[p]) : phase[queue[p][i]] = "queued" /\ ProcOf[queue[p][i]] = p
        /\ \A h, i \in 1..Len(queue[p]) : queue[p][h] = queue[p][i] => h = i
\* Every waiting call is in the queue of its process.
Found ==
    \A c \in Calls : phase[c] = "queued" =>
        \E i \in 1..Len(queue[ProcOf[c]]) : queue[ProcOf[c]][i] = c
WaitingOK == Listed /\ Found

LEMMA QueuesTyped ==
    ASSUME TypeOK, NEW p \in Processes
    PROVE  /\ queue[p] \in Seq(Calls) /\ Len(queue[p]) \in Nat /\ DOMAIN queue[p] = 1..Len(queue[p])
           /\ \A i \in 1..Len(queue[p]) : queue[p][i] \in Calls
<1>1. queue[p] \in Seq(Calls)
  BY DEF TypeOK
<1> QED
  BY <1>1, LenProperties

\* A step that leaves the queues alone and makes no call wait or stop waiting.
LEMMA WaitingKept ==
    ASSUME TypeOK, WaitingOK, queue' = queue,
           \A c \in Calls : phase'[c] = "queued" <=> phase[c] = "queued"
    PROVE  WaitingOK'
<1>1. Listed'
  <2> SUFFICES ASSUME NEW p \in Processes
               PROVE  /\ \A i \in 1..Len(queue[p]) :
                             phase'[queue[p][i]] = "queued" /\ ProcOf[queue[p][i]] = p
                      /\ \A h, i \in 1..Len(queue[p]) : queue[p][h] = queue[p][i] => h = i
    BY DEF Listed
  <2> QED
    BY QueuesTyped DEF WaitingOK, Listed
<1>2. Found'
  BY DEF WaitingOK, Found
<1> QED
  BY <1>1, <1>2 DEF WaitingOK

\* A call that did not wait is appended to the queue of its process.
LEMMA WaitingGrows ==
    ASSUME TypeOK, WaitingOK, NEW c \in Calls, phase[c] # "queued",
           queue' = [queue EXCEPT ![ProcOf[c]] = Append(@, c)],
           phase' = [phase EXCEPT ![c] = "queued"]
    PROVE  WaitingOK'
<1> DEFINE p == ProcOf[c]
<1>1. p \in Processes /\ queue \in [Processes -> Seq(Calls)] /\ phase \in [Calls -> Phase]
  BY Places DEF TypeOK
<1>2. /\ queue'[p] = Append(queue[p], c)
      /\ \A q \in Processes \ {p} : queue'[q] = queue[q]
  BY <1>1
<1>3. /\ phase'[c] = "queued"
      /\ \A b \in Calls \ {c} : phase'[b] = phase[b]
  BY <1>1
<1>4. /\ Len(queue'[p]) = Len(queue[p]) + 1 /\ Len(queue[p]) \in Nat
      /\ \A i \in 1..Len(queue[p]) : queue'[p][i] = queue[p][i] /\ queue[p][i] \in Calls
      /\ queue'[p][Len(queue[p]) + 1] = c
  BY <1>1, <1>2, QueuesTyped, AppendProperties
<1>5. \A i \in 1..Len(queue[p]) :
         phase[queue[p][i]] = "queued" /\ ProcOf[queue[p][i]] = p /\ queue[p][i] # c
  BY <1>1 DEF WaitingOK, Listed
<1>6. Listed'
  <2> SUFFICES ASSUME NEW q \in Processes
               PROVE  /\ \A i \in 1..Len(queue'[q]) :
                             phase'[queue'[q][i]] = "queued" /\ ProcOf[queue'[q][i]] = q
                      /\ \A h, i \in 1..Len(queue'[q]) : queue'[q][h] = queue'[q][i] => h = i
    BY DEF Listed
  <2>1. CASE q = p
    <3> HIDE DEF p
    <3>1. \A h, i \in 1..Len(queue[p]) : queue[p][h] = queue[p][i] => h = i
      BY <1>1 DEF WaitingOK, Listed
    <3>2. \A i \in 1..Len(queue'[p]) :
             phase'[queue'[p][i]] = "queued" /\ ProcOf[queue'[p][i]] = p
      <4> TAKE i \in 1..Len(queue'[p])
      <4>1. CASE i = Len(queue[p]) + 1
        BY <1>3, <1>4, <4>1 DEF p
      <4>2. CASE i \in 1..Len(queue[p])
        BY <1>3, <1>4, <1>5, <4>2
      <4> QED
        BY <1>4, <4>1, <4>2
    <3>3. \A h, i \in 1..Len(queue'[p]) : queue'[p][h] = queue'[p][i] => h = i
      <4> TAKE h, i \in 1..Len(queue'[p])
      <4>1. CASE h \in 1..Len(queue[p]) /\ i \in 1..Len(queue[p])
        BY <1>4, <3>1, <4>1
      <4>2. CASE h = Len(queue[p]) + 1 /\ i \in 1..Len(queue[p])
        BY <1>4, <1>5, <4>2
      <4>3. CASE i = Len(queue[p]) + 1 /\ h \in 1..Len(queue[p])
        BY <1>4, <1>5, <4>3
      <4> QED
        BY <1>4, <4>1, <4>2, <4>3
    <3> QED
      BY <2>1, <3>2, <3>3
  <2>2. CASE q # p
    <3>1. /\ queue'[q] = queue[q]
          /\ \A i \in 1..Len(queue[q]) :
                queue[q][i] \in Calls /\ phase[queue[q][i]] = "queued" /\ ProcOf[queue[q][i]] = q
          /\ \A h, i \in 1..Len(queue[q]) : queue[q][h] = queue[q][i] => h = i
      BY <1>2, <2>2, QueuesTyped DEF WaitingOK, Listed
    <3>2. \A i \in 1..Len(queue[q]) : phase'[queue[q][i]] = "queued"
      BY <1>3, <3>1
    <3>3. \A i \in 1..Len(queue'[q]) : phase'[queue'[q][i]] = "queued" /\ ProcOf[queue'[q][i]] = q
      BY <3>1, <3>2
    <3>4. \A h, i \in 1..Len(queue'[q]) : queue'[q][h] = queue'[q][i] => h = i
      BY <3>1
    <3> QED
      BY <3>3, <3>4
  <2> QED
    BY <2>1, <2>2
<1>7. Found'
  <2> SUFFICES ASSUME NEW b \in Calls, phase'[b] = "queued"
               PROVE  \E i \in 1..Len(queue'[ProcOf[b]]) : queue'[ProcOf[b]][i] = b
    BY DEF Found
  <2>1. CASE b = c
    <3>1. Len(queue[p]) + 1 \in 1..Len(queue'[p])
      BY <1>4
    <3> QED
      BY <1>4, <2>1, <3>1
  <2>2. CASE b # c
    <3>1. PICK i \in 1..Len(queue[ProcOf[b]]) : queue[ProcOf[b]][i] = b
      BY <1>3, <2>2 DEF WaitingOK, Found
    <3>2. ProcOf[b] \in Processes
      BY Places
    <3>3. i \in 1..Len(queue'[ProcOf[b]]) /\ queue'[ProcOf[b]][i] = queue[ProcOf[b]][i]
      <4> HIDE DEF p
      <4>1. CASE ProcOf[b] = p
        BY <1>4, <3>1, <4>1
      <4>2. CASE ProcOf[b] # p
        BY <1>2, <3>1, <3>2, <4>2
      <4> QED
        BY <4>1, <4>2
    <3> QED
      BY <3>1, <3>3
  <2> QED
    BY <2>1, <2>2
<1> QED
  BY <1>6, <1>7 DEF WaitingOK

\* The i-th waiting call of p leaves the queue and waits no longer.
LEMMA WaitingShrinks ==
    ASSUME TypeOK, WaitingOK, NEW p \in Processes, NEW i \in DOMAIN queue[p],
           queue' = [queue EXCEPT ![p] = RemoveAt(@, i)],
           NEW state, state # "queued", phase' = [phase EXCEPT ![queue[p][i]] = state]
    PROVE  WaitingOK'
<1> DEFINE c == queue[p][i]
           n == Len(queue[p])
           old == queue[p]
           new == queue'[p]
<1>1. queue \in [Processes -> Seq(Calls)] /\ phase \in [Calls -> Phase]
  BY DEF TypeOK
<1>2. /\ i \in 1..n /\ n \in Nat /\ c \in Calls /\ old \in Seq(Calls)
      /\ \A j \in 1..n : old[j] \in Calls
  BY QueuesTyped
<1>3. new = RemoveAt(old, i) /\ \A q \in Processes \ {p} : queue'[q] = queue[q]
  BY <1>1
<1>4. Len(new) = n - 1 /\ \A j \in 1..(n - 1) : new[j] = IF j < i THEN old[j] ELSE old[j + 1]
  <2>1. /\ Len(RemoveAt(old, i)) = n - 1
        /\ \A j \in 1..(n - 1) : RemoveAt(old, i)[j] = IF j < i THEN old[j] ELSE old[j + 1]
    BY <1>2, RemoveFacts
  <2> HIDE DEF new, old, n
  <2> QED
    BY <1>3, <2>1
<1>5. phase'[c] = state /\ \A b \in Calls \ {c} : phase'[b] = phase[b]
  BY <1>1, <1>2
<1>6. /\ \A j \in 1..n : phase[old[j]] = "queued" /\ ProcOf[old[j]] = p
      /\ \A h, j \in 1..n : old[h] = old[j] => h = j
      /\ c = old[i]
  BY <1>2 DEF WaitingOK, Listed
<1> HIDE DEF c, n, old, new
<1>7. \A j \in 1..(n - 1) : \E h \in 1..n : h # i /\ new[j] = old[h] /\ h = IF j < i THEN j ELSE j + 1
  <2> TAKE j \in 1..(n - 1)
  <2>1. CASE j < i
    BY <1>2, <1>4, <2>1
  <2>2. CASE ~(j < i)
    <3>1. j + 1 \in 1..n /\ j + 1 # i /\ new[j] = old[j + 1]
      BY <1>2, <1>4, <2>2
    <3> QED
      BY <2>2, <3>1
  <2> QED
    BY <2>1, <2>2
<1>8. Listed'
  <2> SUFFICES ASSUME NEW q \in Processes
               PROVE  /\ \A j \in 1..Len(queue'[q]) :
                             phase'[queue'[q][j]] = "queued" /\ ProcOf[queue'[q][j]] = q
                      /\ \A h, j \in 1..Len(queue'[q]) : queue'[q][h] = queue'[q][j] => h = j
    BY DEF Listed
  <2>1. CASE q = p
    <3>1. \A j \in 1..(n - 1) : phase'[new[j]] = "queued" /\ ProcOf[new[j]] = p
      <4> TAKE j \in 1..(n - 1)
      <4>1. PICK h \in 1..n : h # i /\ new[j] = old[h]
        BY <1>7
      <4>2. old[h] # c /\ old[h] \in Calls
        BY <1>2, <1>6, <4>1
      <4> QED
        BY <1>5, <1>6, <4>1, <4>2
    <3>2. \A h, j \in 1..(n - 1) : new[h] = new[j] => h = j
      <4> SUFFICES ASSUME NEW h \in 1..(n - 1), NEW j \in 1..(n - 1), new[h] = new[j]
                   PROVE  h = j
        OBVIOUS
      <4>1. PICK hh \in 1..n : new[h] = old[hh] /\ hh = IF h < i THEN h ELSE h + 1
        BY <1>7
      <4>2. PICK jj \in 1..n : new[j] = old[jj] /\ jj = IF j < i THEN j ELSE j + 1
        BY <1>7
      <4>3. hh = jj
        BY <1>6, <4>1, <4>2
      <4> QED
        BY <1>2, <4>1, <4>2, <4>3
    <3> QED
      BY <1>4, <2>1, <3>1, <3>2 DEF new
  <2>2. CASE q # p
    <3>1. /\ queue'[q] = queue[q]
          /\ \A j \in 1..Len(queue[q]) :
                queue[q][j] \in Calls /\ phase[queue[q][j]] = "queued" /\ ProcOf[queue[q][j]] = q
          /\ \A h, j \in 1..Len(queue[q]) : queue[q][h] = queue[q][j] => h = j
      BY <1>3, <2>2, QueuesTyped DEF WaitingOK, Listed
    <3>2. ProcOf[c] = p
      BY <1>2, <1>6
    <3>3. \A j \in 1..Len(queue[q]) : phase'[queue[q][j]] = "queued"
      BY <1>5, <2>2, <3>1, <3>2
    <3> QED
      BY <3>1, <3>3
  <2> QED
    BY <2>1, <2>2
<1>9. Found'
  <2> SUFFICES ASSUME NEW b \in Calls, phase'[b] = "queued"
               PROVE  \E j \in 1..Len(queue'[ProcOf[b]]) : queue'[ProcOf[b]][j] = b
    BY DEF Found
  <2>1. b # c /\ phase[b] = "queued" /\ ProcOf[b] \in Processes
    BY <1>5, Places
  <2>2. PICK j \in 1..Len(queue[ProcOf[b]]) : queue[ProcOf[b]][j] = b
    BY <2>1 DEF WaitingOK, Found
  <2>3. CASE ProcOf[b] # p
    BY <1>3, <2>1, <2>2, <2>3
  <2>4. CASE ProcOf[b] = p
    <3>1. j \in 1..n /\ old[j] = b /\ j # i
      BY <1>6, <2>1, <2>2, <2>4 DEF n, old
    <3>2. CASE j < i
      <4>1. j \in 1..(n - 1) /\ new[j] = b
        BY <1>2, <1>4, <3>1, <3>2
      <4> QED
        BY <1>4, <2>4, <4>1 DEF new
    <3>3. CASE j > i
      <4>1. j - 1 \in 1..(n - 1) /\ new[j - 1] = b
        BY <1>2, <1>4, <3>1, <3>3
      <4> QED
        BY <1>4, <2>4, <4>1 DEF new
    <3> QED
      BY <1>2, <3>1, <3>2, <3>3
  <2> QED
    BY <2>3, <2>4
<1> QED
  BY <1>8, <1>9 DEF WaitingOK

LEMMA WaitingCrash ==
    ASSUME TypeOK, WaitingOK, NEW p \in Processes, Crash(p)
    PROVE  WaitingOK'
<1>1. /\ phase' = [c \in Calls |-> IF ProcOf[c] = p THEN "idle" ELSE phase[c]]
      /\ queue' = [queue EXCEPT ![p] = << >>]
      /\ queue \in [Processes -> Seq(Calls)]
  BY DEF Crash, TypeOK
<1>2. Len(queue'[p]) = 0 /\ \A q \in Processes \ {p} : queue'[q] = queue[q]
  BY <1>1, EmptySeq
<1>3. Listed'
  <2> SUFFICES ASSUME NEW q \in Processes
               PROVE  /\ \A i \in 1..Len(queue'[q]) :
                             phase'[queue'[q][i]] = "queued" /\ ProcOf[queue'[q][i]] = q
                      /\ \A h, i \in 1..Len(queue'[q]) : queue'[q][h] = queue'[q][i] => h = i
    BY DEF Listed
  <2>1. CASE q = p
    BY <1>2, <2>1
  <2>2. CASE q # p
    <3>1. /\ queue'[q] = queue[q]
          /\ \A i \in 1..Len(queue[q]) :
                queue[q][i] \in Calls /\ phase[queue[q][i]] = "queued" /\ ProcOf[queue[q][i]] = q
          /\ \A h, i \in 1..Len(queue[q]) : queue[q][h] = queue[q][i] => h = i
      BY <1>2, <2>2, QueuesTyped DEF WaitingOK, Listed
    <3>2. \A i \in 1..Len(queue[q]) : phase'[queue[q][i]] = "queued"
      BY <1>1, <2>2, <3>1
    <3> QED
      BY <3>1, <3>2
  <2> QED
    BY <2>1, <2>2
<1>4. Found'
  <2> SUFFICES ASSUME NEW c \in Calls, phase'[c] = "queued"
               PROVE  \E i \in 1..Len(queue'[ProcOf[c]]) : queue'[ProcOf[c]][i] = c
    BY DEF Found
  <2>1. ProcOf[c] # p /\ phase[c] = "queued" /\ ProcOf[c] \in Processes
    BY <1>1, Places
  <2> QED
    BY <1>2, <2>1 DEF WaitingOK, Found
<1> QED
  BY <1>3, <1>4 DEF WaitingOK

LEMMA WaitingNext == ASSUME TypeOK, WaitingOK, [Next]_vars PROVE WaitingOK'
<1>1. CASE UNCHANGED vars
  BY <1>1, WaitingKept DEF vars
<1>2. CASE Next
  <2>0. StepCases /\ phase \in [Calls -> Phase]
    BY <1>2, NextCases DEF TypeOK
  <2>1. ASSUME NEW c \in Calls, Makes(c), queue' = queue,
               \E state \in {"running", "failed"} : phase' = [phase EXCEPT ![c] = state]
        PROVE  WaitingOK'
    <3>1. phase[c] \in {"idle", "ok"}
      BY <2>1 DEF Makes, Issue, Continue
    <3>2. \A b \in Calls : phase'[b] = "queued" <=> phase[b] = "queued"
      BY <2>0, <2>1, <3>1
    <3> QED
      BY <2>1, <3>2, WaitingKept
  <2>2. ASSUME NEW c \in Calls, Granted(c) \/ Refused(c)
        PROVE  \E state \in {"running", "failed"} : phase' = [phase EXCEPT ![c] = state]
    BY <2>2 DEF Granted, Refused
  <2>3. ASSUME NEW c \in Calls, Makes(c),
               queue' = [queue EXCEPT ![ProcOf[c]] = Append(@, c)],
               phase' = [phase EXCEPT ![c] = "queued"]
        PROVE  WaitingOK'
    <3>1. phase[c] # "queued"
      BY <2>3 DEF Makes, Issue, Continue
    <3> QED
      BY <2>3, <3>1, WaitingGrows
  <2>4. ASSUME NEW c \in Calls, NEW ok \in BOOLEAN, Close(c, ok)
        PROVE  WaitingOK'
    <3>1. /\ queue' = queue /\ phase[c] = "running"
          /\ phase' = [phase EXCEPT ![c] = IF ok THEN "ok" ELSE "failed"]
      BY <2>4 DEF Close
    <3>2. \A b \in Calls : phase'[b] = "queued" <=> phase[b] = "queued"
      BY <2>0, <3>1
    <3> QED
      BY <3>1, <3>2, WaitingKept
  <2>5. ASSUME NEW p \in Processes, NEW i \in DOMAIN queue[p],
               queue' = [queue EXCEPT ![p] = RemoveAt(@, i)],
               Granted(queue[p][i]) \/ Refused(queue[p][i])
        PROVE  WaitingOK'
    <3>1. queue[p][i] \in Calls
      BY <2>5, QueuesTyped
    <3>2. PICK state \in {"running", "failed"} : phase' = [phase EXCEPT ![queue[p][i]] = state]
      BY <2>2, <2>5, <3>1
    <3> QED
      BY <2>5, <3>2, WaitingShrinks
  <2>6. ASSUME NEW p \in Processes, DrainEnds(p)
        PROVE  WaitingOK'
    BY <2>6, WaitingKept DEF DrainEnds
  <2>7. ASSUME NEW c \in Calls, Return(c)
        PROVE  WaitingOK'
    <3>1. queue' = queue /\ phase[c] \in Settled /\ phase' = [phase EXCEPT ![c] = "idle"]
      BY <2>7 DEF Return
    <3>2. \A b \in Calls : phase'[b] = "queued" <=> phase[b] = "queued"
      BY <2>0, <3>1 DEF Settled
    <3> QED
      BY <3>1, <3>2, WaitingKept
  <2>8. ASSUME NEW t \in Rows, Expire(t)
        PROVE  WaitingOK'
    BY <2>8, WaitingKept DEF Expire
  <2> QED
    BY <2>0, <2>1, <2>2, <2>3, <2>4, <2>5, <2>6, <2>7, <2>8, WaitingCrash DEF StepCases
<1> QED
  BY <1>1, <1>2

LEMMA WaitingInit == Init => WaitingOK
BY BridgeAssumption DEF Init, WaitingOK, Listed, Found

\* The queues hold exactly the waiting calls of their processes, each of them once:
\* no call is forgotten, started twice or started by another process.
THEOREM WaitingIsListed == Spec => []WaitingOK
<1>1. TypeOK /\ WaitingOK /\ [Next]_vars => WaitingOK'
  BY WaitingNext
<1> QED
  BY <1>1, WaitingInit, TypeCorrect, PTL DEF Spec

(***************************************************************************)
(* Nothing waits while there is room.                                      *)
(***************************************************************************)

NoIdleWaitOf(p) ==
    ~draining[p] => \A i \in DOMAIN queue[p] : ~HasRoom(p, KeyOf[queue[p][i]])

LEMMA IdleByProcess == NoIdleWait <=> \A p \in Processes : NoIdleWaitOf(p)
BY DEF NoIdleWait, NoIdleWaitOf

LEMMA GrantedCounts ==
    ASSUME TypeOK, NEW c \in Calls, Granted(c), NEW p \in Processes
    PROVE  active'[p] >= active[p] /\ \A k \in Keys : activeByKey'[p][k] >= activeByKey[p][k]
<1>1. active' = [active EXCEPT ![ProcOf[c]] = @ + 1] /\ active \in [Processes -> Int]
  BY GrantedFacts DEF TypeOK
<1>2. /\ activeByKey' = [activeByKey EXCEPT ![ProcOf[c]][KeyOf[c]] = @ + 1]
      /\ activeByKey \in [Processes -> [Keys -> Int]]
  BY GrantedFacts DEF TypeOK
<1>3. active'[p] >= active[p]
  BY <1>1, Places
<1>4. \A k \in Keys : activeByKey'[p][k] >= activeByKey[p][k]
  BY <1>2, Places
<1> QED
  BY <1>3, <1>4

\* The room of a process does not grow: what had to wait still has to.
LEMMA IdleKept ==
    ASSUME TypeOK, TypeOK', NEW p \in Processes, NoIdleWaitOf(p),
           queue'[p] = queue[p], draining[p] => draining'[p],
           active'[p] >= active[p], \A k \in Keys : activeByKey'[p][k] >= activeByKey[p][k]
    PROVE  NoIdleWaitOf(p)'
<1>1. /\ active[p] \in Int /\ active'[p] \in Int
      /\ \A k \in Keys : activeByKey[p][k] \in Int /\ activeByKey'[p][k] \in Int
  BY DEF TypeOK
<1>2. \A k \in Keys : HasRoom(p, k)' => HasRoom(p, k)
  BY <1>1, BridgeAssumption DEF HasRoom
<1>3. \A i \in DOMAIN queue[p] : KeyOf[queue[p][i]] \in Keys
  BY QueuesTyped, Places
<1> QED
  BY <1>2, <1>3 DEF NoIdleWaitOf

LEMMA IdleUnchanged ==
    ASSUME TypeOK, NoIdleWait, UNCHANGED <<queue, draining, active, activeByKey>>
    PROVE  NoIdleWait'
BY DEF NoIdleWait, HasRoom

LEMMA IdleNext == ASSUME TypeOK, TypeOK', NoIdleWait, [Next]_vars PROVE NoIdleWait'
<1>1. CASE UNCHANGED vars
  BY <1>1, IdleUnchanged DEF vars
<1>2. CASE Next
  <2>0. StepCases /\ draining \in [Processes -> BOOLEAN] /\ draining' \in [Processes -> BOOLEAN]
    BY <1>2, NextCases DEF TypeOK
  <2>1. ASSUME NEW c \in Calls, Granted(c), queue' = queue, draining' = draining
        PROVE  NoIdleWait'
    <3> SUFFICES ASSUME NEW p \in Processes PROVE NoIdleWaitOf(p)'
      BY DEF NoIdleWait, NoIdleWaitOf
    <3>1. NoIdleWaitOf(p)
      BY IdleByProcess
    <3> QED
      BY <2>1, <3>1, GrantedCounts, IdleKept
  <2>2. ASSUME NEW c \in Calls, Refused(c), queue' = queue
        PROVE  NoIdleWait'
    <3> SUFFICES ASSUME NEW p \in Processes PROVE NoIdleWaitOf(p)'
      BY DEF NoIdleWait, NoIdleWaitOf
    <3>1. /\ active' = active /\ activeByKey' = activeByKey
          /\ draining' = [draining EXCEPT ![ProcOf[c]] = TRUE]
      BY <2>2 DEF Refused
    <3>2. draining'[p] = draining[p] \/ draining'[p] = TRUE
      BY <2>0, <3>1
    <3> QED
      BY <2>2, <3>1, <3>2 DEF NoIdleWait, NoIdleWaitOf, HasRoom
  <2>3. ASSUME NEW c \in Calls, ~HasRoom(ProcOf[c], KeyOf[c]),
               queue' = [queue EXCEPT ![ProcOf[c]] = Append(@, c)],
               UNCHANGED <<active, activeByKey, draining>>
        PROVE  NoIdleWait'
    <3> SUFFICES ASSUME NEW p \in Processes PROVE NoIdleWaitOf(p)'
      BY DEF NoIdleWait, NoIdleWaitOf
    <3>1. \A k : HasRoom(p, k)' = HasRoom(p, k)
      BY <2>3 DEF HasRoom
    <3>2. queue \in [Processes -> Seq(Calls)]
      BY DEF TypeOK
    <3>3. CASE p # ProcOf[c]
      <4>1. queue'[p] = queue[p]
        BY <2>3, <3>2, <3>3
      <4> QED
        BY <2>3, <3>1, <4>1 DEF NoIdleWait, NoIdleWaitOf
    <3>4. CASE p = ProcOf[c]
      <4>1. queue'[p] = Append(queue[p], c) /\ queue[p] \in Seq(Calls)
        BY <2>3, <3>2, <3>4
      <4>2. /\ DOMAIN queue'[p] = 1..(Len(queue[p]) + 1) /\ queue'[p][Len(queue[p]) + 1] = c
            /\ \A i \in 1..Len(queue[p]) : queue'[p][i] = queue[p][i]
            /\ DOMAIN queue[p] = 1..Len(queue[p]) /\ Len(queue[p]) \in Nat
        <5>1. Append(queue[p], c) \in Seq(Calls) /\ Len(Append(queue[p], c)) = Len(queue[p]) + 1
          BY <4>1, AppendProperties
        <5> QED
          BY <4>1, <5>1, AppendProperties, LenProperties
      <4>3. ~draining[p] => \A i \in DOMAIN queue'[p] : ~HasRoom(p, KeyOf[queue'[p][i]])
        BY <2>3, <3>4, <4>2 DEF NoIdleWait
      <4> QED
        BY <2>3, <3>1, <4>3 DEF NoIdleWaitOf
    <3> QED
      BY <3>3, <3>4
  <2>4. ASSUME NEW c \in Calls, NEW ok \in BOOLEAN, Close(c, ok)
        PROVE  NoIdleWait'
    <3> SUFFICES ASSUME NEW p \in Processes PROVE NoIdleWaitOf(p)'
      BY DEF NoIdleWait, NoIdleWaitOf
    <3>1. /\ active' = [active EXCEPT ![ProcOf[c]] = @ + (-1)]
          /\ activeByKey' = [activeByKey EXCEPT ![ProcOf[c]][KeyOf[c]] = @ + (-1)]
          /\ draining' = [draining EXCEPT ![ProcOf[c]] = TRUE]
          /\ queue' = queue
      BY <2>4 DEF Close, Count
    <3>2. CASE p = ProcOf[c]
      BY <2>0, <3>1, <3>2 DEF NoIdleWaitOf
    <3>3. CASE p # ProcOf[c]
      <4>1. active'[p] = active[p] /\ activeByKey'[p] = activeByKey[p] /\ draining'[p] = draining[p]
        BY <3>1, <3>3 DEF TypeOK
      <4> QED
        BY <3>1, <4>1 DEF NoIdleWait, NoIdleWaitOf, HasRoom
    <3> QED
      BY <3>2, <3>3
  <2>5. ASSUME NEW p \in Processes, NEW i \in DOMAIN queue[p], draining[p],
               queue' = [queue EXCEPT ![p] = RemoveAt(@, i)],
               Granted(queue[p][i]), draining' = draining
        PROVE  NoIdleWait'
    <3> SUFFICES ASSUME NEW q \in Processes PROVE NoIdleWaitOf(q)'
      BY DEF NoIdleWait, NoIdleWaitOf
    <3>1. CASE q = p
      BY <2>5, <3>1 DEF NoIdleWaitOf
    <3>2. CASE q # p
      <4>1. queue[p][i] \in Calls
        BY <2>5, QueuesTyped
      <4>2. active'[q] >= active[q] /\ \A k \in Keys : activeByKey'[q][k] >= activeByKey[q][k]
        BY <2>5, <4>1, GrantedCounts
      <4>3. queue'[q] = queue[q]
        BY <2>5, <3>2 DEF TypeOK
      <4>4. NoIdleWaitOf(q) /\ draining'[q] = draining[q]
        BY <2>5, IdleByProcess
      <4> QED
        BY <4>2, <4>3, <4>4, IdleKept
    <3> QED
      BY <3>1, <3>2
  <2>6. ASSUME NEW p \in Processes, NEW i \in DOMAIN queue[p], draining[p],
               queue' = [queue EXCEPT ![p] = RemoveAt(@, i)], Refused(queue[p][i])
        PROVE  NoIdleWait'
    <3> SUFFICES ASSUME NEW q \in Processes PROVE NoIdleWaitOf(q)'
      BY DEF NoIdleWait, NoIdleWaitOf
    <3>1. /\ active' = active /\ activeByKey' = activeByKey
          /\ draining' = [draining EXCEPT ![ProcOf[queue[p][i]]] = TRUE]
      BY <2>6 DEF Refused
    <3>2. draining'[q] = draining[q] \/ draining'[q] = TRUE
      BY <2>0, <3>1
    <3>3. CASE q = p
      BY <2>6, <3>2, <3>3 DEF NoIdleWaitOf
    <3>4. CASE q # p
      <4>1. queue'[q] = queue[q]
        BY <2>6, <3>4 DEF TypeOK
      <4> QED
        BY <3>1, <3>2, <4>1 DEF NoIdleWait, NoIdleWaitOf, HasRoom
    <3> QED
      BY <3>3, <3>4
  <2>7. ASSUME NEW p \in Processes, DrainEnds(p)
        PROVE  NoIdleWait'
    <3> SUFFICES ASSUME NEW q \in Processes PROVE NoIdleWaitOf(q)'
      BY DEF NoIdleWait, NoIdleWaitOf
    <3>1. /\ draining' = [draining EXCEPT ![p] = FALSE]
          /\ UNCHANGED <<queue, active, activeByKey>>
          /\ \A i \in DOMAIN queue[p] : ~HasRoom(p, KeyOf[queue[p][i]])
      BY <2>7 DEF DrainEnds, Startable
    <3>2. CASE q = p
      BY <3>1, <3>2 DEF NoIdleWaitOf, HasRoom
    <3>3. CASE q # p
      <4>1. draining'[q] = draining[q]
        BY <2>0, <3>1, <3>3
      <4> QED
        BY <3>1, <4>1 DEF NoIdleWait, NoIdleWaitOf, HasRoom
    <3> QED
      BY <3>2, <3>3
  <2>8. ASSUME NEW p \in Processes, Crash(p)
        PROVE  NoIdleWait'
    <3> SUFFICES ASSUME NEW q \in Processes PROVE NoIdleWaitOf(q)'
      BY DEF NoIdleWait, NoIdleWaitOf
    <3>1. CASE q = p
      <4>1. queue'[q] = << >>
        BY <2>8, <3>1 DEF Crash, TypeOK
      <4> QED
        BY <4>1 DEF NoIdleWaitOf
    <3>2. CASE q # p
      <4>1. /\ queue'[q] = queue[q] /\ active'[q] = active[q]
            /\ activeByKey'[q] = activeByKey[q] /\ draining'[q] = draining[q]
        BY <2>8, <3>2 DEF Crash, TypeOK
      <4> QED
        BY <4>1 DEF NoIdleWait, NoIdleWaitOf, HasRoom
    <3> QED
      BY <3>1, <3>2
  <2>9. ASSUME NEW c \in Calls, Return(c)
        PROVE  NoIdleWait'
    BY <2>9, IdleUnchanged DEF Return
  <2>10. ASSUME NEW t \in Rows, Expire(t)
         PROVE  NoIdleWait'
    BY <2>10, IdleUnchanged DEF Expire
  <2>11. ASSUME UNCHANGED <<queue, active, activeByKey, draining, lease, token>>
         PROVE  NoIdleWait'
    BY <2>11, IdleUnchanged
  <2> QED
    BY <2>0, <2>1, <2>2, <2>3, <2>4, <2>5, <2>6, <2>7, <2>8, <2>9, <2>10, <2>11 DEF StepCases
<1> QED
  BY <1>1, <1>2

\* Between macrotasks of its process, a call that waits has no room: no place that a
\* finished, failed or refused call gave back is left unused while someone wants it.
THEOREM NothingWaitsForRoom == Spec => []NoIdleWait
<1>1. Init => NoIdleWait
  BY DEF Init, NoIdleWait
<1>2. TypeOK /\ TypeOK' /\ NoIdleWait /\ [Next]_vars => NoIdleWait'
  BY IdleNext
<1> QED
  BY <1>1, <1>2, TypeCorrect, PTL DEF Spec

(***************************************************************************)
(* Lease rows and the calls that hold them.                                *)
(***************************************************************************)

\* Only a running call of an account refers to a lease row.
TokensOfChildren ==
    \A c \in Calls : token[c] # 0 => phase[c] = "running" /\ KeyOf[c] \in Dids
LeaseOK == ChildLeased /\ TokensOfChildren

LEMMA LeaseKept ==
    ASSUME LeaseOK, lease' = lease, token' = token,
           \A c \in Calls : phase'[c] = "running" <=> phase[c] = "running"
    PROVE  LeaseOK'
BY DEF LeaseOK, ChildLeased, TokensOfChildren

\* The row a granted call takes is nobody's, because a held row is not free.
LEMMA LeaseGranted ==
    ASSUME TypeOK, LeaseOK, NEW c \in Calls, Granted(c), phase[c] # "running"
    PROVE  LeaseOK'
<1>1. /\ phase \in [Calls -> Phase] /\ token \in [Calls -> Rows \union {0}]
      /\ lease \in [Rows -> Dids \union {FreeLease}]
  BY DEF TypeOK
<1>2. phase'[c] = "running" /\ \A b \in Calls \ {c} : phase'[b] = phase[b]
  BY <1>1, GrantedFacts
<1>3. token[c] = 0
  BY DEF LeaseOK, TokensOfChildren
<1>4. CASE KeyOf[c] \in SystemKeys /\ lease' = lease /\ token' = token
  <2>1. KeyOf[c] \notin Dids
    BY <1>4, BridgeAssumption
  <2>2. ChildLeased'
    BY <1>2, <1>4, <2>1 DEF LeaseOK, ChildLeased
  <2>3. TokensOfChildren'
    BY <1>2, <1>3, <1>4 DEF LeaseOK, TokensOfChildren
  <2> QED
    BY <2>2, <2>3 DEF LeaseOK
<1>5. ASSUME KeyOf[c] \in Dids, NEW t \in Rows, lease[t] = FreeLease,
             lease' = [lease EXCEPT ![t] = KeyOf[c]], token' = [token EXCEPT ![c] = t]
      PROVE  LeaseOK'
  <2>1. /\ lease'[t] = KeyOf[c] /\ \A u \in Rows \ {t} : lease'[u] = lease[u]
        /\ token'[c] = t /\ \A b \in Calls \ {c} : token'[b] = token[b]
    BY <1>1, <1>5
  <2>2. t # 0 /\ 0 \notin Rows
    BY <1>5, BridgeAssumption DEF Rows
  <2>3. \A b \in Calls : token[b] # 0 => token[b] \in Rows /\ token[b] # t
    <3> SUFFICES ASSUME NEW b \in Calls, token[b] # 0
                 PROVE  token[b] \in Rows /\ token[b] # t
      OBVIOUS
    <3>1. KeyOf[b] \in Dids /\ lease[token[b]] = KeyOf[b]
      BY DEF LeaseOK, ChildLeased, TokensOfChildren
    <3> QED
      BY <1>1, <1>5, <3>1, BridgeAssumption
  <2>4. ChildLeased'
    <3> SUFFICES ASSUME NEW b \in Calls, phase'[b] = "running", KeyOf[b] \in Dids
                 PROVE  /\ token'[b] # 0 /\ lease'[token'[b]] = KeyOf[b]
                        /\ \A a \in Calls \ {b} : token'[a] # token'[b]
      BY DEF ChildLeased
    <3>1. CASE b = c
      BY <2>1, <2>2, <2>3, <3>1
    <3>2. CASE b # c
      <4>1. /\ token[b] # 0 /\ lease[token[b]] = KeyOf[b]
            /\ \A a \in Calls \ {b} : token[a] # token[b]
        BY <1>2, <3>2 DEF LeaseOK, ChildLeased
      <4> QED
        BY <2>1, <2>3, <3>2, <4>1
    <3> QED
      BY <3>1, <3>2
  <2>5. TokensOfChildren'
    BY <1>2, <1>5, <2>1 DEF LeaseOK, TokensOfChildren
  <2> QED
    BY <2>4, <2>5 DEF LeaseOK
<1> QED
  BY <1>4, <1>5, GrantedFacts

LEMMA LeaseClosed ==
    ASSUME TypeOK, LeaseOK, NEW c \in Calls, NEW ok \in BOOLEAN, Close(c, ok)
    PROVE  LeaseOK'
<1>1. /\ phase \in [Calls -> Phase] /\ token \in [Calls -> Rows \union {0}]
  BY DEF TypeOK
<1>2. /\ phase' = [phase EXCEPT ![c] = IF ok THEN "ok" ELSE "failed"]
      /\ lease' = [t \in Rows |-> IF t = token[c] THEN FreeLease ELSE lease[t]]
      /\ token' = [token EXCEPT ![c] = 0]
  BY DEF Close
<1>3. /\ phase'[c] # "running" /\ token'[c] = 0
      /\ \A b \in Calls \ {c} : phase'[b] = phase[b] /\ token'[b] = token[b]
  BY <1>1, <1>2
<1>4. ChildLeased'
  <2> SUFFICES ASSUME NEW b \in Calls, phase'[b] = "running", KeyOf[b] \in Dids
               PROVE  /\ token'[b] # 0 /\ lease'[token'[b]] = KeyOf[b]
                      /\ \A a \in Calls \ {b} : token'[a] # token'[b]
    BY DEF ChildLeased
  <2>1. b # c /\ token[b] # 0 /\ lease[token[b]] = KeyOf[b]
        /\ \A a \in Calls \ {b} : token[a] # token[b]
    BY <1>3 DEF LeaseOK, ChildLeased
  <2>2. token[b] \in Rows /\ token[b] # token[c]
    BY <1>1, <2>1
  <2>3. lease'[token[b]] = KeyOf[b]
    BY <1>2, <2>1, <2>2
  <2> QED
    BY <1>3, <2>1, <2>3
<1>5. TokensOfChildren'
  BY <1>3 DEF LeaseOK, TokensOfChildren
<1> QED
  BY <1>4, <1>5 DEF LeaseOK

LEMMA LeaseCrash ==
    ASSUME TypeOK, LeaseOK, NEW p \in Processes, Crash(p)
    PROVE  LeaseOK'
<1>1. /\ phase' = [c \in Calls |-> IF ProcOf[c] = p THEN "idle" ELSE phase[c]]
      /\ token' = [c \in Calls |-> IF ProcOf[c] = p THEN 0 ELSE token[c]]
      /\ lease' = lease
  BY DEF Crash
<1>2. ChildLeased'
  BY <1>1 DEF LeaseOK, ChildLeased
<1>3. TokensOfChildren'
  BY <1>1 DEF LeaseOK, TokensOfChildren
<1> QED
  BY <1>2, <1>3 DEF LeaseOK

LEMMA LeaseExpires ==
    ASSUME TypeOK, LeaseOK, NEW t \in Rows, Expire(t)
    PROVE  LeaseOK'
<1>1. /\ lease' = [lease EXCEPT ![t] = FreeLease] /\ \A c \in Calls : token[c] # t
      /\ phase' = phase /\ token' = token
  BY DEF Expire
<1>2. lease \in [Rows -> Dids \union {FreeLease}] /\ token \in [Calls -> Rows \union {0}]
  BY DEF TypeOK
<1>3. \A c \in Calls : token[c] # 0 => lease'[token[c]] = lease[token[c]]
  BY <1>1, <1>2
<1>4. ChildLeased'
  BY <1>1, <1>3 DEF LeaseOK, ChildLeased
<1>5. TokensOfChildren'
  BY <1>1 DEF LeaseOK, TokensOfChildren
<1> QED
  BY <1>4, <1>5 DEF LeaseOK

LEMMA LeaseNext == ASSUME TypeOK, WaitingOK, LeaseOK, [Next]_vars PROVE LeaseOK'
<1>1. CASE UNCHANGED vars
  BY <1>1, LeaseKept DEF vars
<1>2. CASE Next
  <2>0. StepCases /\ phase \in [Calls -> Phase]
    BY <1>2, NextCases DEF TypeOK
  <2>1. ASSUME NEW c \in Calls, Makes(c), Granted(c)
        PROVE  LeaseOK'
    <3>1. phase[c] # "running"
      BY <2>1 DEF Makes, Issue, Continue
    <3> QED
      BY <2>1, <3>1, LeaseGranted
  <2>2. ASSUME NEW c \in Calls, phase[c] # "running",
               NEW state \in {"queued", "failed", "idle"}, phase' = [phase EXCEPT ![c] = state],
               lease' = lease, token' = token
        PROVE  LeaseOK'
    <3>1. \A b \in Calls : phase'[b] = "running" <=> phase[b] = "running"
      BY <2>0, <2>2
    <3> QED
      BY <2>2, <3>1, LeaseKept
  <2>3. ASSUME NEW c \in Calls, phase[c] # "running", Refused(c)
        PROVE  LeaseOK'
    BY <2>2, <2>3 DEF Refused
  <2>4. ASSUME NEW c \in Calls, Makes(c) PROVE phase[c] # "running"
    BY <2>4 DEF Makes, Issue, Continue
  <2>5. ASSUME NEW p \in Processes, NEW i \in DOMAIN queue[p]
        PROVE  queue[p][i] \in Calls /\ phase[queue[p][i]] # "running"
    BY <2>5, QueuesTyped DEF WaitingOK, Listed
  <2>6. ASSUME NEW p \in Processes, NEW i \in DOMAIN queue[p], Granted(queue[p][i])
        PROVE  LeaseOK'
    BY <2>5, <2>6, LeaseGranted
  <2>7. ASSUME NEW p \in Processes, NEW i \in DOMAIN queue[p], Refused(queue[p][i])
        PROVE  LeaseOK'
    BY <2>3, <2>5, <2>7
  <2>8. ASSUME NEW p \in Processes, DrainEnds(p)
        PROVE  LeaseOK'
    BY <2>8, LeaseKept DEF DrainEnds
  <2>9. ASSUME NEW c \in Calls, Return(c)
        PROVE  LeaseOK'
    <3>1. phase[c] # "running" /\ phase' = [phase EXCEPT ![c] = "idle"]
          /\ lease' = lease /\ token' = token
      BY <2>9 DEF Return, Settled
    <3> QED
      BY <2>2, <3>1
  <2>10. ASSUME NEW c \in Calls, Makes(c), NEW state \in {"queued", "failed"},
                phase' = [phase EXCEPT ![c] = state],
                UNCHANGED <<active, activeByKey, draining, lease, token>>
         PROVE  LeaseOK'
    BY <2>2, <2>4, <2>10
  <2> QED
    BY <2>0, <2>1, <2>3, <2>4, <2>6, <2>7, <2>8, <2>9, <2>10,
       LeaseClosed, LeaseCrash, LeaseExpires DEF StepCases
<1> QED
  BY <1>1, <1>2

(***************************************************************************)
(* The limits on lease rows.                                               *)
(***************************************************************************)

LEMMA RowsFinite ==
    /\ IsFiniteSet(Held) /\ Cardinality(Held) \in Nat
    /\ \A d : IsFiniteSet(HeldBy(d)) /\ Cardinality(HeldBy(d)) \in Nat
<1>1. IsFiniteSet(Rows)
  BY BridgeAssumption, FS_Interval DEF Rows
<1>2. Held \in SUBSET Rows /\ \A d : HeldBy(d) \in SUBSET Rows
  BY DEF Held, HeldBy
<1> QED
  BY <1>1, <1>2, FS_Subset, FS_CardinalityType

LEMMA OneMore ==
    ASSUME NEW S, IsFiniteSet(S), NEW x
    PROVE  Cardinality(S \union {x}) \in Nat /\ Cardinality(S \union {x}) <= Cardinality(S) + 1
<1>1. Cardinality(S) \in Nat
  BY FS_CardinalityType
<1>2. Cardinality(S \union {x}) = IF x \in S THEN Cardinality(S) ELSE Cardinality(S) + 1
  BY FS_AddElement
<1> QED
  BY <1>1, <1>2

\* Rows that are only given back do not break a limit.
LEMMA LimitsShrink ==
    ASSUME LeaseLimits, \A t \in Rows : lease'[t] = lease[t] \/ lease'[t] = FreeLease
    PROVE  LeaseLimits'
<1>1. Held' \in SUBSET Held
  BY DEF Held
<1>2. Cardinality(Held') <= Cardinality(Held)
  BY <1>1, RowsFinite, FS_Subset
<1>3. \A d \in Dids : HeldBy(d)' \in SUBSET HeldBy(d)
  BY BridgeAssumption DEF HeldBy
<1>4. \A d \in Dids : Cardinality(HeldBy(d)') <= Cardinality(HeldBy(d))
  BY <1>3, RowsFinite, FS_Subset
<1>5. \A d \in Dids : IsFiniteSet(HeldBy(d)') /\ Cardinality(HeldBy(d)') \in Nat
  BY <1>3, RowsFinite, FS_Subset, FS_CardinalityType
<1>6. IsFiniteSet(Held') /\ Cardinality(Held') \in Nat
  BY <1>1, RowsFinite, FS_Subset, FS_CardinalityType
<1> QED
  BY <1>2, <1>4, <1>5, <1>6, RowsFinite, BridgeAssumption DEF LeaseLimits

LEMMA LimitsGranted ==
    ASSUME TypeOK, LeaseLimits, NEW c \in Calls, Granted(c)
    PROVE  LeaseLimits'
<1>1. CASE lease' = lease
  BY <1>1, LimitsShrink
<1>2. ASSUME KeyOf[c] \in Dids, LeaseAllowed(KeyOf[c]), NEW t \in Rows, lease[t] = FreeLease,
             lease' = [lease EXCEPT ![t] = KeyOf[c]]
      PROVE  LeaseLimits'
  <2> DEFINE k == KeyOf[c]
  <2>1. lease'[t] = k /\ k # FreeLease /\ \A u \in Rows \ {t} : lease'[u] = lease[u]
    BY <1>2, BridgeAssumption DEF TypeOK
  <2>2. Held' = Held \union {t}
    BY <1>2, <2>1 DEF Held
  <2>3. Cardinality(Held') \in Nat /\ Cardinality(Held') <= Cardinality(Held) + 1
    BY <2>2, RowsFinite, OneMore
  <2>4. HeldBy(k)' = HeldBy(k) \union {t}
    BY <1>2, <2>1 DEF HeldBy
  <2>5. Cardinality(HeldBy(k)') \in Nat /\ Cardinality(HeldBy(k)') <= Cardinality(HeldBy(k)) + 1
    BY <2>4, RowsFinite, OneMore
  <2>6. \A d \in Dids \ {k} : HeldBy(d)' = HeldBy(d)
    BY <1>2, <2>1, BridgeAssumption DEF HeldBy
  <2>7. Cardinality(Held) < ConcurrencyGlobal /\ Cardinality(HeldBy(k)) < ConcurrencyPerDid
    BY <1>2 DEF LeaseAllowed
  <2>8. Cardinality(Held') <= ConcurrencyGlobal /\ Cardinality(HeldBy(k)') <= ConcurrencyPerDid
    BY <2>3, <2>5, <2>7, RowsFinite, BridgeAssumption
  <2> HIDE DEF k
  <2> QED
    BY <2>6, <2>8 DEF LeaseLimits
<1> QED
  BY <1>1, <1>2, GrantedFacts

LEMMA LimitsNext == ASSUME TypeOK, LeaseLimits, [Next]_vars PROVE LeaseLimits'
<1>1. CASE UNCHANGED vars
  BY <1>1, LimitsShrink DEF vars
<1>2. CASE Next
  <2>0. StepCases /\ lease \in [Rows -> Dids \union {FreeLease}]
    BY <1>2, NextCases DEF TypeOK
  <2>1. ASSUME lease' = lease PROVE LeaseLimits'
    BY <2>1, LimitsShrink
  <2>2. ASSUME NEW c \in Calls, NEW ok \in BOOLEAN, Close(c, ok)
        PROVE  LeaseLimits'
    <3>1. \A t \in Rows : lease'[t] = lease[t] \/ lease'[t] = FreeLease
      BY <2>2 DEF Close
    <3> QED
      BY <3>1, LimitsShrink
  <2>3. ASSUME NEW t \in Rows, Expire(t)
        PROVE  LeaseLimits'
    <3>1. \A u \in Rows : lease'[u] = lease[u] \/ lease'[u] = FreeLease
      BY <2>0, <2>3 DEF Expire
    <3> QED
      BY <3>1, LimitsShrink
  <2>4. ASSUME NEW p \in Processes, NEW i \in DOMAIN queue[p], Granted(queue[p][i])
        PROVE  LeaseLimits'
    BY <2>4, QueuesTyped, LimitsGranted
  <2>5. ASSUME NEW c, Refused(c) PROVE lease' = lease
    BY <2>5 DEF Refused
  <2>6. ASSUME NEW p \in Processes, DrainEnds(p) \/ Crash(p) PROVE lease' = lease
    BY <2>6 DEF DrainEnds, Crash
  <2>7. ASSUME NEW c \in Calls, Return(c) PROVE lease' = lease
    BY <2>7 DEF Return
  <2> QED
    BY <2>0, <2>1, <2>2, <2>3, <2>4, <2>5, <2>6, <2>7, LimitsGranted DEF StepCases
<1> QED
  BY <1>1, <1>2

\* Each child of an account runs under a lease row that is its own.
THEOREM ChildrenAreLeased == Spec => []ChildLeased
<1>1. Init => LeaseOK
  BY DEF Init, LeaseOK, ChildLeased, TokensOfChildren
<1>2. TypeOK /\ WaitingOK /\ LeaseOK /\ [Next]_vars => LeaseOK'
  BY LeaseNext
<1>3. LeaseOK => ChildLeased
  BY DEF LeaseOK
<1> QED
  BY <1>1, <1>2, <1>3, TypeCorrect, WaitingIsListed, PTL DEF Spec

\* The lease rows of all processes together stay within the limits, whatever
\* processes die and restart.
THEOREM LeasesWithinLimits == Spec => []LeaseLimits
<1>1. Init => LeaseLimits
  <2> SUFFICES ASSUME Init PROVE LeaseLimits
    OBVIOUS
  <2>1. Held = {} /\ \A d \in Dids : HeldBy(d) = {}
    BY BridgeAssumption DEF Init, Held, HeldBy
  <2> QED
    BY <2>1, FS_EmptySet, BridgeAssumption DEF LeaseLimits
<1>2. TypeOK /\ LeaseLimits /\ [Next]_vars => LeaseLimits'
  BY LimitsNext
<1> QED
  BY <1>1, <1>2, TypeCorrect, PTL DEF Spec

\* The running calls of an account, and of all accounts, over both processes.
Children(d) == {c \in Calls : phase[c] = "running" /\ KeyOf[c] = d}
AllChildren == {c \in Calls : phase[c] = "running" /\ KeyOf[c] \in Dids}
ChildLimits ==
    /\ Cardinality(AllChildren) <= ConcurrencyGlobal
    /\ \A d \in Dids : Cardinality(Children(d)) <= ConcurrencyPerDid

LEMMA RowsBoundChildren == ASSUME TypeOK, ChildLeased, LeaseLimits PROVE ChildLimits
<1>0. token \in [Calls -> Rows \union {0}] /\ 0 \notin Rows
  BY BridgeAssumption DEF TypeOK, Rows
<1>1. Cardinality(AllChildren) <= Cardinality(Held)
  <2> DEFINE f == [c \in AllChildren |-> token[c]]
  <2>1. \A c \in AllChildren : /\ token[c] \in Held
                             /\ \A b \in AllChildren : token[b] = token[c] => b = c
    BY <1>0, BridgeAssumption DEF AllChildren, Held, ChildLeased
  <2>2. f \in Injection(AllChildren, Held)
    BY <2>1 DEF Injection, IsInjective
  <2> QED
    BY <2>2, RowsFinite, FS_Injection
<1>2. ASSUME NEW d \in Dids PROVE Cardinality(Children(d)) <= Cardinality(HeldBy(d))
  <2> DEFINE f == [c \in Children(d) |-> token[c]]
  <2>1. \A c \in Children(d) : /\ token[c] \in HeldBy(d)
                             /\ \A b \in Children(d) : token[b] = token[c] => b = c
    BY <1>0 DEF Children, HeldBy, ChildLeased
  <2>2. f \in Injection(Children(d), HeldBy(d))
    BY <2>1 DEF Injection, IsInjective
  <2> QED
    BY <2>2, RowsFinite, FS_Injection
<1>3. AllChildren \in SUBSET Calls /\ \A d : Children(d) \in SUBSET Calls
  BY DEF AllChildren, Children
<1>4. Cardinality(AllChildren) \in Nat /\ \A d : Cardinality(Children(d)) \in Nat
  BY <1>3, BridgeAssumption, FS_Subset, FS_CardinalityType
<1> QED
  BY <1>1, <1>2, <1>4, RowsFinite, BridgeAssumption DEF LeaseLimits, ChildLimits

\* The limits on rows are limits on children: the processes together never run more
\* engine children for accounts, or for one account, than configured.  (Children that
\* outlive their process are not counted; their rows stand until they expire.)
THEOREM ChildrenWithinLimits == Spec => []ChildLimits
BY RowsBoundChildren, TypeCorrect, ChildrenAreLeased, LeasesWithinLimits, PTL

(***************************************************************************)
(* The counters of a process and the calls that run in it.                 *)
(***************************************************************************)

LEMMA RunningFinite ==
    \A p, k : /\ IsFiniteSet(Running(p)) /\ Cardinality(Running(p)) \in Nat
             /\ IsFiniteSet(RunningKey(p, k)) /\ Cardinality(RunningKey(p, k)) \in Nat
<1> TAKE p, k
<1>1. Running(p) \in SUBSET Calls /\ RunningKey(p, k) \in SUBSET Calls
  BY DEF Running, RunningKey, CallsOf
<1>2. IsFiniteSet(Running(p)) /\ IsFiniteSet(RunningKey(p, k))
  BY <1>1, BridgeAssumption, FS_Subset
<1> QED
  BY <1>2, FS_CardinalityType

LEMMA CountsKept ==
    ASSUME CountsMatch, active' = active, activeByKey' = activeByKey,
           \A c \in Calls : phase'[c] = "running" <=> phase[c] = "running"
    PROVE  CountsMatch'
<1>1. \A p : Running(p)' = Running(p)
  BY DEF Running, CallsOf
<1>2. \A p, k : RunningKey(p, k)' = RunningKey(p, k)
  BY <1>1 DEF RunningKey
<1> QED
  BY <1>1, <1>2 DEF CountsMatch

LEMMA CountsGranted ==
    ASSUME TypeOK, CountsMatch, NEW c \in Calls, Granted(c), phase[c] # "running"
    PROVE  CountsMatch'
<1> DEFINE p == ProcOf[c]
           k == KeyOf[c]
<1>1. /\ active' = [active EXCEPT ![p] = @ + 1] /\ active \in [Processes -> Int]
      /\ activeByKey' = [activeByKey EXCEPT ![p][k] = @ + 1]
      /\ activeByKey \in [Processes -> [Keys -> Int]]
      /\ p \in Processes /\ k \in Keys
  BY GrantedFacts, Places DEF TypeOK
<1>2. phase'[c] = "running" /\ \A b \in Calls \ {c} : phase'[b] = phase[b]
  <2>1. phase' = [phase EXCEPT ![c] = "running"] /\ phase \in [Calls -> Phase]
    BY GrantedFacts DEF TypeOK
  <2> QED
    BY <2>1
<1>3. Running(p)' = Running(p) \union {c} /\ c \notin Running(p)
  BY <1>2 DEF Running, CallsOf
<1>4. \A q \in Processes \ {p} : Running(q)' = Running(q) /\ c \notin Running(q)
  BY <1>2 DEF Running, CallsOf
<1>5. RunningKey(p, k)' = RunningKey(p, k) \union {c} /\ c \notin RunningKey(p, k)
  BY <1>3 DEF RunningKey
<1>6. \A q \in Processes, l \in Keys : q # p \/ l # k => RunningKey(q, l)' = RunningKey(q, l)
  BY <1>3, <1>4 DEF RunningKey
<1>7. /\ Cardinality(Running(p)') = Cardinality(Running(p)) + 1
      /\ Cardinality(RunningKey(p, k)') = Cardinality(RunningKey(p, k)) + 1
  <2>1. Cardinality(Running(p) \union {c}) = Cardinality(Running(p)) + 1
    BY <1>3, RunningFinite, FS_AddElement
  <2>2. Cardinality(RunningKey(p, k) \union {c}) = Cardinality(RunningKey(p, k)) + 1
    BY <1>5, RunningFinite, FS_AddElement
  <2> QED
    BY <1>3, <1>5, <2>1, <2>2
<1> HIDE DEF p, k
<1>8. \A q \in Processes : active'[q] = Cardinality(Running(q)')
  BY <1>1, <1>4, <1>7 DEF CountsMatch
<1>9. \A q \in Processes, l \in Keys : activeByKey'[q][l] = Cardinality(RunningKey(q, l)')
  <2> TAKE q \in Processes, l \in Keys
  <2>1. CASE q = p /\ l = k
    BY <1>1, <1>7, <2>1 DEF CountsMatch
  <2>2. CASE q # p \/ l # k
    <3>1. activeByKey'[q][l] = activeByKey[q][l]
      BY <1>1, <2>2
    <3> QED
      BY <1>6, <2>2, <3>1 DEF CountsMatch
  <2> QED
    BY <2>1, <2>2
<1> QED
  BY <1>8, <1>9 DEF CountsMatch

LEMMA CountsClosed ==
    ASSUME TypeOK, CountsMatch, NEW c \in Calls, NEW ok \in BOOLEAN, Close(c, ok)
    PROVE  CountsMatch'
<1> DEFINE p == ProcOf[c]
           k == KeyOf[c]
<1>1. /\ active' = [active EXCEPT ![p] = @ + (-1)] /\ active \in [Processes -> Int]
      /\ activeByKey' = [activeByKey EXCEPT ![p][k] = @ + (-1)]
      /\ activeByKey \in [Processes -> [Keys -> Int]]
      /\ p \in Processes /\ k \in Keys
  BY Places DEF Close, Count, TypeOK
<1>2. /\ phase[c] = "running" /\ phase'[c] # "running"
      /\ \A b \in Calls \ {c} : phase'[b] = phase[b]
  BY DEF Close, TypeOK
<1>3. Running(p)' = Running(p) \ {c} /\ c \in Running(p)
  BY <1>2 DEF Running, CallsOf
<1>4. \A q \in Processes \ {p} : Running(q)' = Running(q) /\ c \notin Running(q)
  BY <1>2 DEF Running, CallsOf
<1>5. RunningKey(p, k)' = RunningKey(p, k) \ {c} /\ c \in RunningKey(p, k)
  BY <1>3 DEF RunningKey
<1>6. \A q \in Processes, l \in Keys : q # p \/ l # k => RunningKey(q, l)' = RunningKey(q, l)
  BY <1>3, <1>4 DEF RunningKey
<1>7. /\ Cardinality(Running(p)') = Cardinality(Running(p)) - 1
      /\ Cardinality(RunningKey(p, k)') = Cardinality(RunningKey(p, k)) - 1
  <2>1. Cardinality(Running(p) \ {c}) = Cardinality(Running(p)) - 1
    BY <1>3, RunningFinite, FS_RemoveElement
  <2>2. Cardinality(RunningKey(p, k) \ {c}) = Cardinality(RunningKey(p, k)) - 1
    BY <1>5, RunningFinite, FS_RemoveElement
  <2> QED
    BY <1>3, <1>5, <2>1, <2>2
<1> HIDE DEF p, k
<1>8. \A q \in Processes : active'[q] = Cardinality(Running(q)')
  <2> TAKE q \in Processes
  <2>1. CASE q = p
    BY <1>1, <1>7, <2>1, RunningFinite DEF CountsMatch
  <2>2. CASE q # p
    BY <1>1, <1>4, <2>2 DEF CountsMatch
  <2> QED
    BY <2>1, <2>2
<1>9. \A q \in Processes, l \in Keys : activeByKey'[q][l] = Cardinality(RunningKey(q, l)')
  <2> TAKE q \in Processes, l \in Keys
  <2>1. CASE q = p /\ l = k
    BY <1>1, <1>7, <2>1, RunningFinite DEF CountsMatch
  <2>2. CASE q # p \/ l # k
    <3>1. activeByKey'[q][l] = activeByKey[q][l]
      BY <1>1, <2>2
    <3> QED
      BY <1>6, <2>2, <3>1 DEF CountsMatch
  <2> QED
    BY <2>1, <2>2
<1> QED
  BY <1>8, <1>9 DEF CountsMatch

LEMMA CountsCrash ==
    ASSUME TypeOK, CountsMatch, NEW p \in Processes, Crash(p)
    PROVE  CountsMatch'
<1>1. /\ phase' = [c \in Calls |-> IF ProcOf[c] = p THEN "idle" ELSE phase[c]]
      /\ active' = [active EXCEPT ![p] = 0]
      /\ activeByKey' = [activeByKey EXCEPT ![p] = [k \in Keys |-> 0]]
      /\ active \in [Processes -> Int] /\ activeByKey \in [Processes -> [Keys -> Int]]
  BY DEF Crash, TypeOK
<1>2. Running(p)' = {} /\ \A q \in Processes \ {p} : Running(q)' = Running(q)
  BY <1>1 DEF Running, CallsOf
<1>3. \A k : RunningKey(p, k)' = {} /\ \A q \in Processes \ {p} : RunningKey(q, k)' = RunningKey(q, k)
  BY <1>2 DEF RunningKey
<1>4. Cardinality({}) = 0
  BY FS_EmptySet
<1>5. \A q \in Processes : active'[q] = Cardinality(Running(q)')
  BY <1>1, <1>2, <1>4 DEF CountsMatch
<1>6. \A q \in Processes, k \in Keys : activeByKey'[q][k] = Cardinality(RunningKey(q, k)')
  BY <1>1, <1>3, <1>4 DEF CountsMatch
<1> QED
  BY <1>5, <1>6 DEF CountsMatch

LEMMA CountsNext == ASSUME TypeOK, WaitingOK, CountsMatch, [Next]_vars PROVE CountsMatch'
<1>1. CASE UNCHANGED vars
  BY <1>1, CountsKept DEF vars
<1>2. CASE Next
  <2>0. StepCases /\ phase \in [Calls -> Phase]
    BY <1>2, NextCases DEF TypeOK
  <2>1. ASSUME NEW c \in Calls, Makes(c) PROVE phase[c] # "running"
    BY <2>1 DEF Makes, Issue, Continue
  <2>2. ASSUME NEW c \in Calls, phase[c] # "running",
               NEW state \in {"queued", "failed", "idle"}, phase' = [phase EXCEPT ![c] = state],
               active' = active, activeByKey' = activeByKey
        PROVE  CountsMatch'
    <3>1. \A b \in Calls : phase'[b] = "running" <=> phase[b] = "running"
      BY <2>0, <2>2
    <3> QED
      BY <2>2, <3>1, CountsKept
  <2>3. ASSUME NEW c \in Calls, phase[c] # "running", Refused(c)
        PROVE  CountsMatch'
    BY <2>2, <2>3 DEF Refused
  <2>4. ASSUME NEW c \in Calls, Makes(c), Granted(c) \/ Refused(c)
        PROVE  CountsMatch'
    BY <2>1, <2>3, <2>4, CountsGranted
  <2>5. ASSUME NEW c \in Calls, Makes(c), NEW state \in {"queued", "failed"},
               phase' = [phase EXCEPT ![c] = state],
               UNCHANGED <<active, activeByKey, draining, lease, token>>
        PROVE  CountsMatch'
    BY <2>1, <2>2, <2>5
  <2>6. ASSUME NEW p \in Processes, NEW i \in DOMAIN queue[p],
               Granted(queue[p][i]) \/ Refused(queue[p][i])
        PROVE  CountsMatch'
    <3>1. queue[p][i] \in Calls /\ phase[queue[p][i]] # "running"
      BY <2>6, QueuesTyped DEF WaitingOK, Listed
    <3> QED
      BY <2>3, <2>6, <3>1, CountsGranted
  <2>7. ASSUME NEW p \in Processes, DrainEnds(p)
        PROVE  CountsMatch'
    BY <2>7, CountsKept DEF DrainEnds
  <2>8. ASSUME NEW c \in Calls, Return(c)
        PROVE  CountsMatch'
    <3>1. phase[c] # "running" /\ phase' = [phase EXCEPT ![c] = "idle"]
          /\ active' = active /\ activeByKey' = activeByKey
      BY <2>8 DEF Return, Settled
    <3> QED
      BY <2>2, <3>1
  <2>9. ASSUME NEW t \in Rows, Expire(t)
        PROVE  CountsMatch'
    BY <2>9, CountsKept DEF Expire
  <2> QED
    BY <2>0, <2>4, <2>5, <2>6, <2>7, <2>8, <2>9, CountsClosed, CountsCrash DEF StepCases
<1> QED
  BY <1>1, <1>2

\* No path through start() loses a place or gives one back twice, as long as its
\* finally block ends (lease.finish, engine.ts:101, may fail with its database).
THEOREM PlacesAreKept == Spec => []CountsMatch
<1>1. Init => CountsMatch
  <2> SUFFICES ASSUME Init PROVE CountsMatch
    OBVIOUS
  <2>1. \A p \in Processes : active[p] = 0 /\ \A k \in Keys : activeByKey[p][k] = 0
    BY DEF Init
  <2>2. \A p : Running(p) = {}
    BY DEF Init, Running, CallsOf
  <2>3. \A p, k : RunningKey(p, k) = {}
    BY <2>2 DEF RunningKey
  <2> QED
    BY <2>1, <2>2, <2>3, FS_EmptySet DEF CountsMatch
<1>2. TypeOK /\ WaitingOK /\ CountsMatch /\ [Next]_vars => CountsMatch'
  BY CountsNext
<1> QED
  BY <1>1, <1>2, TypeCorrect, WaitingIsListed, PTL DEF Spec

(***************************************************************************)
(* First come, first served within a key.                                  *)
(***************************************************************************)

\* Who starts straight away finds no earlier call of its key waiting, because that
\* one would have had room; who starts from the queue was the first that had room.
LEMMA NoOvertakingStep ==
    ASSUME TypeOK, WaitingOK, NoIdleWait, Next,
           NEW c \in Calls, phase[c] # "running", phase'[c] = "running",
           NEW b \in CallsOf(ProcOf[c]) \ {c}, phase[b] = "queued", KeyOf[b] = KeyOf[c]
    PROVE  /\ phase[c] = "queued"
           /\ \E h, i \in DOMAIN queue[ProcOf[c]] :
                 /\ queue[ProcOf[c]][h] = c /\ queue[ProcOf[c]][i] = b /\ h < i
<1>0. StepCases /\ phase \in [Calls -> Phase]
  BY NextCases DEF TypeOK
<1>1. b \in Calls /\ b # c /\ ProcOf[b] = ProcOf[c] /\ ProcOf[c] \in Processes
  BY Places DEF CallsOf
<1>2. PICK i \in 1..Len(queue[ProcOf[c]]) : queue[ProcOf[c]][i] = b
  BY <1>1 DEF WaitingOK, Found
<1>3. i \in DOMAIN queue[ProcOf[c]]
  BY <1>1, <1>2, QueuesTyped
<1>4. ASSUME NEW a \in Calls, NEW state, state # "running", phase' = [phase EXCEPT ![a] = state]
      PROVE  FALSE
  BY <1>0, <1>4
<1>5. ASSUME NEW a \in Calls, Granted(a) PROVE a = c
  BY <1>0, <1>5, GrantedFacts
<1>6. ASSUME NEW a \in Calls, Makes(a), HasRoom(ProcOf[a], KeyOf[a]), Granted(a)
      PROVE  FALSE
  <2>1. a = c /\ ~draining[ProcOf[c]] /\ HasRoom(ProcOf[c], KeyOf[b])
    BY <1>5, <1>6 DEF Makes, Issue, Continue, Quiet
  <2> QED
    BY <1>1, <1>2, <1>3, <2>1 DEF NoIdleWait
<1>7. ASSUME NEW p \in Processes, NEW h \in DOMAIN queue[p],
             FirstStartable(p, h), Granted(queue[p][h])
      PROVE  /\ phase[c] = "queued"
             /\ \E g, j \in DOMAIN queue[ProcOf[c]] :
                   /\ queue[ProcOf[c]][g] = c /\ queue[ProcOf[c]][j] = b /\ g < j
  <2>1. queue[p][h] \in Calls /\ h \in 1..Len(queue[p]) /\ Len(queue[p]) \in Nat
    BY <1>7, QueuesTyped
  <2>2. queue[p][h] = c
    BY <1>5, <1>7, <2>1
  <2>3. ProcOf[c] = p /\ phase[c] = "queued"
    BY <2>1, <2>2 DEF WaitingOK, Listed
  <2>4. HasRoom(p, KeyOf[queue[p][i]]) /\ i \in DOMAIN queue[p]
    BY <1>2, <1>3, <1>7, <2>2, <2>3 DEF FirstStartable, Startable
  <2>5. ~(i < h)
    BY <1>7, <2>4 DEF FirstStartable, Startable
  <2>6. i # h
    BY <1>1, <1>2, <2>2, <2>3
  <2>7. h < i
    BY <1>2, <2>1, <2>3, <2>5, <2>6
  <2> QED
    BY <1>2, <1>7, <2>2, <2>3, <2>4, <2>7
<1>8. ASSUME NEW a \in Calls, Refused(a) PROVE FALSE
  BY <1>4, <1>8 DEF Refused
<1>9. ASSUME NEW a \in Calls, NEW ok \in BOOLEAN, Close(a, ok) PROVE FALSE
  BY <1>4, <1>9 DEF Close
<1>10. ASSUME NEW p \in Processes, NEW h \in DOMAIN queue[p], Refused(queue[p][h]) PROVE FALSE
  BY <1>8, <1>10, QueuesTyped
<1>11. ASSUME NEW p \in Processes, DrainEnds(p) PROVE FALSE
  BY <1>11 DEF DrainEnds
<1>12. ASSUME NEW a \in Calls, Return(a) PROVE FALSE
  BY <1>4, <1>12 DEF Return
<1>13. ASSUME NEW p \in Processes, Crash(p) PROVE FALSE
  BY <1>13 DEF Crash
<1>14. ASSUME NEW t \in Rows, Expire(t) PROVE FALSE
  BY <1>14 DEF Expire
<1> QED
  BY <1>0, <1>4, <1>6, <1>7, <1>8, <1>9, <1>10, <1>11, <1>12, <1>13, <1>14 DEF StepCases

\* Calls of one key and process start in the order in which they were made.
THEOREM CallsStartInOrder == Spec => NoOvertaking
<1>1. TypeOK /\ WaitingOK /\ NoIdleWait /\ [Next]_vars =>
        [\A c \in Calls :
            phase[c] # "running" /\ phase'[c] = "running" =>
                \A b \in CallsOf(ProcOf[c]) \ {c} :
                    phase[b] = "queued" /\ KeyOf[b] = KeyOf[c] =>
                        /\ phase[c] = "queued"
                        /\ \E h, i \in DOMAIN queue[ProcOf[c]] :
                              /\ queue[ProcOf[c]][h] = c /\ queue[ProcOf[c]][i] = b /\ h < i]_vars
  BY NoOvertakingStep
<1> QED
  BY <1>1, TypeCorrect, WaitingIsListed, NothingWaitsForRoom, PTL DEF Spec, NoOvertaking

(***************************************************************************)
(* What the users of the bridge need of it.                                *)
(***************************************************************************)

\* With one call per account at a time, an account has at most one lease row.
LEMMA OneRow ==
    ASSUME TypeOK, LeaseLimits, ConcurrencyPerDid = 1, NEW d \in Dids,
           NEW t \in Rows, NEW u \in Rows, lease[t] = d, lease[u] = d
    PROVE  t = u
<1> SUFFICES ASSUME t # u PROVE FALSE
  OBVIOUS
<1>1. IsFiniteSet(HeldBy(d)) /\ Cardinality(HeldBy(d)) <= 1 /\ t \in HeldBy(d) /\ u \in HeldBy(d)
  BY RowsFinite DEF LeaseLimits, HeldBy
<1>2. Cardinality({t, u}) = 2
  <2>1. IsFiniteSet({t}) /\ Cardinality({t}) = 1
    BY FS_Singleton
  <2>2. Cardinality({t} \union {u}) = Cardinality({t}) + 1
    BY <2>1, FS_AddElement
  <2>3. {t} \union {u} = {t, u}
    OBVIOUS
  <2> QED
    BY <2>1, <2>2, <2>3
<1>3. {t, u} \subseteq HeldBy(d)
  BY <1>1
<1>4. Cardinality({t, u}) <= Cardinality(HeldBy(d))
  BY <1>1, <1>3, FS_Subset
<1>5. Cardinality(HeldBy(d)) \in Nat
  BY <1>1, FS_CardinalityType
<1> QED
  BY <1>1, <1>2, <1>4, <1>5

\* A process that runs nothing has room.
LEMMA RoomWhenNothingRuns ==
    ASSUME TypeOK, CountsMatch, NEW p \in Processes, NEW k \in Keys, Running(p) = {}
    PROVE  HasRoom(p, k)
<1>1. RunningKey(p, k) = {}
  BY DEF RunningKey
<1>2. active[p] = 0 /\ activeByKey[p][k] = 0
  BY <1>1, FS_EmptySet DEF CountsMatch
<1> QED
  BY <1>2, BridgeAssumption DEF HasRoom
=============================================================================
