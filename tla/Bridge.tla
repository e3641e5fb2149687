------------------------------- MODULE Bridge -------------------------------
(***************************************************************************)
(* The scheduler in front of the Python policy engine (web/src/engine.ts)  *)
(* and the durable leases the web and worker processes share               *)
(* (web/src/controls.ts).  A call starts when its process has room both    *)
(* globally and for the call's key, waits in the process's queue when it   *)
(* has not, and is rejected when the queue is full.  A started call must   *)
(* also take a lease row in the shared database; only keys that begin with *)
(* an underscore take none.  A finished call makes room, and the process   *)
(* then drains its queue.                                                  *)
(*                                                                         *)
(* A Node process runs one macrotask at a time, so a process does nothing  *)
(* else between the end of a call, the drain and the callers' continuation *)
(* ("Quiet").  The other process is not bound by that: every lease         *)
(* transaction is a step of its own.                                       *)
(***************************************************************************)
EXTENDS Integers, Sequences, SequencesExt

CONSTANTS
    Processes,              \* the web process and the worker process
    Calls,                  \* identities of engine calls, reused when settled
    Dids, SystemKeys,       \* scheduling keys: accounts and "_..." names
    ProcOf, KeyOf,          \* the process and the key of each call
    ConcurrencyGlobal, ConcurrencyPerDid, QueueDepth,
    FreeLease               \* the content of an unused lease row

Keys == Dids \union SystemKeys

ASSUME BridgeAssumption ==
    /\ IsFiniteSet(Calls)
    /\ ProcOf \in [Calls -> Processes] /\ KeyOf \in [Calls -> Keys]
    /\ ConcurrencyGlobal \in Nat \ {0} /\ ConcurrencyPerDid \in Nat \ {0}
    /\ QueueDepth \in Nat
    /\ FreeLease \notin Dids /\ Dids \intersect SystemKeys = {}

VARIABLES
    phase,          \* where each call is
    queue,          \* the calls each process keeps waiting, in arrival order
    active,         \* the process's count of started calls
    activeByKey,    \* the same for each key
    draining,       \* the process is inside drain()
    lease,          \* the shared lease rows: FreeLease or the account
    token           \* the lease row of each started call, 0 when it has none

vars == <<phase, queue, active, activeByKey, draining, lease, token>>

Settled == {"ok", "failed"}
Phase   == {"idle", "queued", "running"} \union Settled
Rows    == 1..(ConcurrencyGlobal + 1)    \* one more than the limit allows

CallsOf(p)     == {c \in Calls : ProcOf[c] = p}
Running(p)     == {c \in CallsOf(p) : phase[c] = "running"}
RunningKey(p, k) == {c \in Running(p) : KeyOf[c] = k}
Held           == {t \in Rows : lease[t] # FreeLease}
HeldBy(d)      == {t \in Rows : lease[t] = d}

TypeOK ==
    /\ phase \in [Calls -> Phase]
    /\ queue \in [Processes -> Seq(Calls)]
    /\ \A p \in Processes : Len(queue[p]) <= QueueDepth
    /\ active \in [Processes -> Int]
    /\ activeByKey \in [Processes -> [Keys -> Int]]
    /\ draining \in [Processes -> BOOLEAN]
    /\ lease \in [Rows -> Dids \union {FreeLease}]
    /\ token \in [Calls -> Rows \union {0}]

Init ==
    /\ phase = [c \in Calls |-> "idle"]
    /\ queue = [p \in Processes |-> << >>]
    /\ active = [p \in Processes |-> 0]
    /\ activeByKey = [p \in Processes |-> [k \in Keys |-> 0]]
    /\ draining = [p \in Processes |-> FALSE]
    /\ lease = [t \in Rows |-> FreeLease]
    /\ token = [c \in Calls |-> 0]

\* Process p is between two macrotasks.
Quiet(p) == ~draining[p] /\ \A c \in CallsOf(p) : phase[c] \notin Settled

HasRoom(p, k) ==
    active[p] < ConcurrencyGlobal /\ activeByKey[p][k] < ConcurrencyPerDid

Count(p, k, change) ==
    /\ active' = [active EXCEPT ![p] = @ + change]
    /\ activeByKey' = [activeByKey EXCEPT ![p][k] = @ + change]

LeaseAllowed(d) ==
    Cardinality(Held) < ConcurrencyGlobal /\ Cardinality(HeldBy(d)) < ConcurrencyPerDid

\* The lease transaction inserts a row and the call starts.
Granted(c) ==
    LET p == ProcOf[c]
        k == KeyOf[c]
    IN
    /\ phase' = [phase EXCEPT ![c] = "running"]
    /\ Count(p, k, 1)
    /\ \/ k \in SystemKeys /\ UNCHANGED <<lease, token>>
       \/ k \in Dids /\ LeaseAllowed(k)
          /\ \E t \in Rows : /\ lease[t] = FreeLease
                             /\ \A u \in Rows : lease[u] = FreeLease => t <= u
                             /\ lease' = [lease EXCEPT ![t] = k]
                             /\ token' = [token EXCEPT ![c] = t]

\* The lease transaction throws: the call is settled and start() drains again.
\* Maintenance refuses too, with an exemption that looks at other tables, so a
\* refusal is possible whatever the leases are.
Refused(c) ==
    /\ KeyOf[c] \in Dids
    /\ phase' = [phase EXCEPT ![c] = "failed"]
    /\ draining' = [draining EXCEPT ![ProcOf[c]] = TRUE]
    /\ UNCHANGED <<active, activeByKey, lease, token>>

HasQueueRoom(p) == Len(queue[p]) < QueueDepth

\* A caller asks for a call: it starts, waits, or is rejected.
Schedule(c) ==
    LET p == ProcOf[c] IN
    \/ HasRoom(p, KeyOf[c]) /\ Granted(c) /\ UNCHANGED <<queue, draining>>
    \/ HasRoom(p, KeyOf[c]) /\ Refused(c) /\ UNCHANGED queue
    \/ /\ ~HasRoom(p, KeyOf[c]) /\ HasQueueRoom(p)
       /\ queue' = [queue EXCEPT ![p] = Append(@, c)]
       /\ phase' = [phase EXCEPT ![c] = "queued"]
       /\ UNCHANGED <<active, activeByKey, draining, lease, token>>
    \/ /\ ~HasRoom(p, KeyOf[c]) /\ ~HasQueueRoom(p)
       /\ phase' = [phase EXCEPT ![c] = "failed"]
       /\ UNCHANGED <<queue, active, activeByKey, draining, lease, token>>

\* Mutant of Close: the queue is not drained when a call ends.
CloseQuietly(c, ok) ==
    /\ phase[c] = "running" /\ Quiet(ProcOf[c])
    /\ phase' = [phase EXCEPT ![c] = IF ok THEN "ok" ELSE "failed"]
    /\ Count(ProcOf[c], KeyOf[c], -1)
    /\ lease' = [t \in Rows |-> IF t = token[c] THEN FreeLease ELSE lease[t]]
    /\ token' = [token EXCEPT ![c] = 0]
    /\ UNCHANGED <<queue, draining>>

\* Mutant of Close: a call that failed keeps its place under its key.
CloseKeepsKey(c, ok) ==
    /\ phase[c] = "running" /\ Quiet(ProcOf[c])
    /\ phase' = [phase EXCEPT ![c] = IF ok THEN "ok" ELSE "failed"]
    /\ active' = [active EXCEPT ![ProcOf[c]] = @ - 1]
    /\ activeByKey' = [activeByKey EXCEPT ![ProcOf[c]][KeyOf[c]] = IF ok THEN @ - 1 ELSE @]
    /\ lease' = [t \in Rows |-> IF t = token[c] THEN FreeLease ELSE lease[t]]
    /\ token' = [token EXCEPT ![c] = 0]
    /\ draining' = [draining EXCEPT ![ProcOf[c]] = TRUE]
    /\ UNCHANGED queue

\* The child closes, having replied or not (an error, a kill at the time limit).
Close(c, ok) ==
    /\ phase[c] = "running" /\ Quiet(ProcOf[c])
    /\ phase' = [phase EXCEPT ![c] = IF ok THEN "ok" ELSE "failed"]
    /\ Count(ProcOf[c], KeyOf[c], -1)
    /\ lease' = [t \in Rows |-> IF t = token[c] THEN FreeLease ELSE lease[t]]
    /\ token' = [token EXCEPT ![c] = 0]
    /\ draining' = [draining EXCEPT ![ProcOf[c]] = TRUE]
    /\ UNCHANGED queue

\* The position of the next call drain() starts: the first that has room.
Startable(p, i) == i \in DOMAIN queue[p] /\ HasRoom(p, KeyOf[queue[p][i]])
\* Mutant of FirstStartable: the youngest waiting call goes first.
LastStartable(p, i) ==
    Startable(p, i) /\ \A h \in DOMAIN queue[p] : h > i => ~Startable(p, h)
FirstStartable(p, i) ==
    Startable(p, i) /\ \A h \in DOMAIN queue[p] : h < i => ~Startable(p, h)

DrainOne(p, i) ==
    /\ draining[p] /\ FirstStartable(p, i)
    /\ queue' = [queue EXCEPT ![p] = RemoveAt(@, i)]
    /\ \/ Granted(queue[p][i]) /\ UNCHANGED draining
       \/ Refused(queue[p][i])

\* Mutant of DrainEnds: a call that must wait holds up those behind it.
DrainEndsAtHead(p) ==
    /\ draining[p] /\ ~Startable(p, 1)
    /\ draining' = [draining EXCEPT ![p] = FALSE]
    /\ UNCHANGED <<phase, queue, active, activeByKey, lease, token>>

DrainEnds(p) ==
    /\ draining[p] /\ \A i \in DOMAIN queue[p] : ~Startable(p, i)
    /\ draining' = [draining EXCEPT ![p] = FALSE]
    /\ UNCHANGED <<phase, queue, active, activeByKey, lease, token>>

\* A new request of the process makes a call.
Issue(c) ==
    /\ phase[c] = "idle" /\ Quiet(ProcOf[c])
    /\ Schedule(c)

\* The caller's continuation runs once the drain is over: the request ends ...
Return(c) ==
    /\ phase[c] \in Settled /\ ~draining[ProcOf[c]]
    /\ phase' = [phase EXCEPT ![c] = "idle"]
    /\ UNCHANGED <<queue, active, activeByKey, draining, lease, token>>

\* ... or, after an answer, makes its next call before other callers go on.
Continue(c) ==
    /\ phase[c] = "ok" /\ ~draining[ProcOf[c]]
    /\ Schedule(c)

\* A process dies and restarts: what it held in memory is gone, its lease rows stay.
Crash(p) ==
    /\ phase' = [c \in Calls |-> IF ProcOf[c] = p THEN "idle" ELSE phase[c]]
    /\ token' = [c \in Calls |-> IF ProcOf[c] = p THEN 0 ELSE token[c]]
    /\ queue' = [queue EXCEPT ![p] = << >>]
    /\ active' = [active EXCEPT ![p] = 0]
    /\ activeByKey' = [activeByKey EXCEPT ![p] = [k \in Keys |-> 0]]
    /\ draining' = [draining EXCEPT ![p] = FALSE]
    /\ UNCHANGED lease

\* Mutant of Expire: rows expire while the call they stand for still runs.
ExpireEarly(t) ==
    /\ lease[t] # FreeLease
    /\ lease' = [lease EXCEPT ![t] = FreeLease]
    /\ UNCHANGED <<phase, queue, active, activeByKey, draining, token>>

\* A row is expired 15 minutes after it was written.  A live call is killed after
\* two, so only the rows of a process that died get that old.
Expire(t) ==
    /\ lease[t] # FreeLease /\ \A c \in Calls : token[c] # t
    /\ lease' = [lease EXCEPT ![t] = FreeLease]
    /\ UNCHANGED <<phase, queue, active, activeByKey, draining, token>>

\* What the event loop does before its next macrotask.
Turn(p) ==
    \/ \E i \in DOMAIN queue[p] : DrainOne(p, i)
    \/ DrainEnds(p)
    \/ \E c \in CallsOf(p) : Return(c) \/ Continue(c)

Next ==
    \/ \E c \in Calls : Issue(c)
    \/ \E c \in Calls, ok \in BOOLEAN : Close(c, ok)
    \/ \E p \in Processes : Turn(p) \/ Crash(p)
    \/ \E t \in Rows : Expire(t)

Spec == Init /\ [][Next]_vars

\* Every child ends: it replies, or it is killed at the time limit.  Its close event
\* waits in the event loop while other macrotasks run, and is not lost (SF); the
\* loop then runs the drain and the continuations.  Nothing obliges a caller to
\* call, a process to die or a lease row to expire.
Fairness ==
    /\ \A c \in Calls : SF_vars(\E ok \in BOOLEAN : Close(c, ok))
    /\ \A p \in Processes : WF_vars(Turn(p))
FairSpec == Spec /\ Fairness

(***************************************************************************)
(* Properties                                                              *)
(***************************************************************************)

\* The counters of start() and its finally block agree with the calls that run: a
\* refusal inside a drain, a failure and a nested drain lose no place.  A database
\* error of lease.finish in that block (engine.ts:101) is outside of the model.
CountsMatch ==
    \A p \in Processes :
        /\ active[p] = Cardinality(Running(p))
        /\ \A k \in Keys : activeByKey[p][k] = Cardinality(RunningKey(p, k))

\* A call waits only while it has to: between macrotasks no waiting call has room.
NoIdleWait ==
    \A p \in Processes : ~draining[p] =>
        \A i \in DOMAIN queue[p] : ~HasRoom(p, KeyOf[queue[p][i]])

\* A call of an account runs under a lease row of that account, and no two calls
\* share a row; so the limits on rows are limits on children, over both processes.
ChildLeased ==
    \A c \in Calls : phase[c] = "running" /\ KeyOf[c] \in Dids =>
        /\ token[c] # 0 /\ lease[token[c]] = KeyOf[c]
        /\ \A b \in Calls \ {c} : token[b] # token[c]

\* The two processes together never hold more rows than the configured limits,
\* not even across a crash, whose rows stay until they expire.
LeaseLimits ==
    /\ Cardinality(Held) <= ConcurrencyGlobal
    /\ \A d \in Dids : Cardinality(HeldBy(d)) <= ConcurrencyPerDid

\* Calls of one key and process start in the order they were made: a call that
\* starts, or is refused its lease, leaves no earlier one of its key waiting.
NoOvertaking ==
    [][\A c \in Calls :
        phase[c] # "running" /\ phase'[c] = "running" =>
            \A b \in CallsOf(ProcOf[c]) \ {c} :
                phase[b] = "queued" /\ KeyOf[b] = KeyOf[c] =>
                    /\ phase[c] = "queued"
                    /\ \E h, i \in DOMAIN queue[ProcOf[c]] :
                          /\ queue[ProcOf[c]][h] = c /\ queue[ProcOf[c]][i] = b /\ h < i]_vars

\* Every call is settled, unless its process dies: the queue never forgets a call,
\* although callers go on with further calls without end.
Answered ==
    \A c \in Calls :
        phase[c] \in {"queued", "running"} ~> phase[c] \notin {"queued", "running"}
=============================================================================
