------------------------- MODULE MaintenanceWindow -------------------------
(***************************************************************************)
(* The operations that hold rows of capacity_events (web/src/controls.ts)  *)
(* and the backup that waits for them to drain (deploy/backup.py).  A call *)
(* is one preview, draft preview, feed measurement or journaled effect; it *)
(* follows the steps its function takes, one transaction, network reading  *)
(* or engine process each.  The maintenance flag, the rows and the copies  *)
(* live in one database that the web process, the worker and the backup    *)
(* share; nothing but its transactions orders them.                        *)
(***************************************************************************)
EXTENDS Integers, Sequences, FiniteSets

CONSTANTS
    Calls, Accounts,
    Kind, AccountOf,        \* what each call is, and for whom
    AcquisitionGlobal, AcquisitionPerDid, AcquisitionQueueDepth,
    BridgeGlobal, BridgePerDid,
    MaxPolls                \* polls of a waiting acquisition before its deadline

\* A draft preview is a preview that misses nobody: its receipt is not evaluated again.
Kinds == {"preview", "measurement", "effect"}

ASSUME WindowAssumption ==
    /\ Kind \in [Calls -> Kinds] /\ AccountOf \in [Calls -> Accounts]
    /\ AcquisitionGlobal \in Nat \ {0} /\ AcquisitionPerDid \in Nat \ {0}
    /\ AcquisitionQueueDepth \in Nat /\ MaxPolls \in Nat
    /\ BridgeGlobal \in Nat \ {0} /\ BridgePerDid \in Nat \ {0}

VARIABLES
    at,         \* [Calls -> the step of its plan a call is at, 0 before the first]
    how,        \* [Calls -> how the call stands: see Manners]
    lease,      \* [Calls -> its acquisition or effect row]
    bridge,     \* [Calls -> its bridge row is "running"]
    report,     \* [Calls -> status of the yield_reports row]
    polls,      \* [Calls -> polls left to a waiting acquisition]
    flag,       \* service_controls.maintenance_enabled
    backup,     \* where the backup is
    purged,     \* [Accounts -> the account's rows were erased]
    late        \* history: [Calls -> it got its lease while the flag was up]

rowVars == <<lease, bridge, report>>
callVars == <<at, how, rowVars, polls, late, purged>>
windowVars == <<callVars, flag, backup>>
others == <<flag, backup, purged>>     \* what no call writes

\* The awaited steps of each kind of call, in order.
Plan == [preview     |-> <<"lease", "engine", "read", "engine", "reread", "engine", "store">>,
         measurement |-> <<"engine", "lease", "report", "read", "engine", "profile", "store">>,
         effect      |-> <<"reserve", "engine", "write", "engine", "settle">>]
Step(c) == IF at[c] = 0 THEN "idle" ELSE Plan[Kind[c]][at[c]]

\* "ready" to take its step, "asked" when the admission check has passed,
\* "waiting" in the queue and "polled" when its turn's check has passed, "inside"
\* an engine process; "over" when it returned or threw, "escaped" when it threw
\* and left its row behind, "lost" with its process.
Manners == {"ready", "asked", "waiting", "polled", "inside", "over", "escaped", "lost"}
Gone == {"over", "escaped", "lost"}
Leases == {"none", "waiting", "running", "done"}
ReportStates == {"none", "running", "failed", "completed", "interrupted"}
Copying == backup \in {"clear", "app"}

Lost == {c \in Calls : how[c] = "lost"}
Left == {c \in Calls : how[c] \in {"lost", "escaped"}}     \* only their rows grow old
Held == {c \in Calls : lease[c] = "running"}
Acquiring == {c \in Held : Kind[c] # "effect"}
Queued == {c \in Calls : lease[c] = "waiting"}
Bridged == {c \in Calls : bridge[c]}
Of(cs, d) == {c \in cs : AccountOf[c] = d}

WindowTypeOK ==
    /\ at \in [Calls -> 0..7] /\ \A c \in Calls : at[c] <= Len(Plan[Kind[c]])
    /\ how \in [Calls -> Manners]
    /\ lease \in [Calls -> Leases]
    /\ bridge \in [Calls -> BOOLEAN]
    /\ report \in [Calls -> ReportStates]
    /\ polls \in [Calls -> 0..MaxPolls]
    /\ flag \in BOOLEAN
    /\ backup \in {"off", "draining", "clear", "app", "killed"}
    /\ purged \in [Accounts -> BOOLEAN]
    /\ late \in [Calls -> BOOLEAN]

WindowInit ==
    /\ at = [c \in Calls |-> 0] /\ how = [c \in Calls |-> "ready"]
    /\ lease = [c \in Calls |-> "none"] /\ bridge = [c \in Calls |-> FALSE]
    /\ report = [c \in Calls |-> "none"] /\ polls = [c \in Calls |-> MaxPolls]
    /\ flag = FALSE /\ backup = "off"
    /\ purged = [d \in Accounts |-> FALSE]
    /\ late = [c \in Calls |-> FALSE]

At(c, step) == Step(c) = step /\ how[c] = "ready"
Becomes(c, manner) == how' = [how EXCEPT ![c] = manner]
Advance(c, n) == at' = [at EXCEPT ![c] = @ + n] /\ Becomes(c, "ready")

\* The call ends: its finally block completes the acquisition row, and a
\* measurement that had begun to report says how it went.
Ends(c, good) ==
    /\ Becomes(c, "over")
    /\ lease' = [lease EXCEPT ![c] = IF @ = "none" THEN @ ELSE "done"]
    /\ report' = [report EXCEPT ![c] = IF @ # "running" THEN @
                                       ELSE IF good THEN "completed" ELSE "failed"]

Begin(c) ==
    /\ At(c, "idle") /\ ~purged[AccountOf[c]] /\ Advance(c, 1)
    /\ UNCHANGED <<rowVars, polls, late, others>>

(***************************************************************************)
(* beginAcquisition: the admission check, then the transaction that grants *)
(* the lease, queues the call or refuses it; a queued call polls.          *)
(***************************************************************************)
Admission(c, passed) ==
    \/ ~flag /\ Becomes(c, passed) /\ UNCHANGED <<lease, report>>
    \/ Ends(c, FALSE)                       \* maintenance, or admissions are closed

AskAdmission(c) ==
    /\ At(c, "lease") /\ Admission(c, "asked")
    /\ UNCHANGED <<at, bridge, polls, late, others>>

Room(c, running) == /\ Cardinality(running) < AcquisitionGlobal
                    /\ Cardinality(Of(running, AccountOf[c])) < AcquisitionPerDid

\* A granted preview looks its policy up in the same turn: for an account erased
\* before, there is none.  A measurement looks nothing up.
Granted(c, rows) ==
    IF purged[AccountOf[c]] /\ Kind[c] = "preview"
    THEN Becomes(c, "over") /\ lease' = [rows EXCEPT ![c] = "done"] /\ UNCHANGED <<at, late>>
    ELSE /\ Advance(c, 1) /\ lease' = [rows EXCEPT ![c] = "running"]
         /\ late' = [late EXCEPT ![c] = flag]

\* Acquisition rows older than the longest wait are deleted first.
TakeLease(c, aged) ==
    LET kept == [b \in Calls |-> IF b \in aged THEN "none" ELSE lease[b]]
        room == Room(c, Acquiring \ aged)
    IN
    /\ how[c] = "asked" /\ aged \subseteq Acquiring
    /\ \/ room /\ Granted(c, kept)
       \/ ~room /\ Cardinality(Queued) < AcquisitionQueueDepth /\ Becomes(c, "waiting")
          /\ lease' = [kept EXCEPT ![c] = "waiting"] /\ UNCHANGED <<at, late>>
       \/ Becomes(c, "over") /\ UNCHANGED <<at, lease, late>>   \* the hour's starts, the queue
    /\ UNCHANGED <<bridge, report, polls, others>>

\* Every quarter of a second: the admission check again, then the claim.
Poll(c) ==
    /\ how[c] = "waiting" /\ polls[c] > 0
    /\ polls' = [polls EXCEPT ![c] = @ - 1]
    /\ Admission(c, "polled")
    /\ UNCHANGED <<at, bridge, late, others>>

\* Mutant of Claim: a claim that finds no room ends the call and keeps its place.
ClaimForgets(c) ==
    /\ how[c] = "polled"
    /\ \/ Room(c, Acquiring) /\ lease[c] = "waiting" /\ Granted(c, lease)
       \/ ~Room(c, Acquiring) /\ Becomes(c, "over") /\ UNCHANGED <<at, lease, late>>
    /\ UNCHANGED <<bridge, report, polls, others>>

Claim(c) ==
    LET claimed == Room(c, Acquiring) /\ lease[c] = "waiting" IN
    /\ how[c] = "polled"
    /\ \/ claimed /\ Granted(c, lease)
       \/ ~claimed /\ Becomes(c, "waiting") /\ UNCHANGED <<at, lease, late>>
    /\ UNCHANGED <<bridge, report, polls, others>>

GiveUp(c) ==      \* the deadline
    /\ how[c] = "waiting" /\ Ends(c, FALSE)
    /\ UNCHANGED <<at, bridge, polls, late, others>>

(***************************************************************************)
(* An engine call: its row, the Python process, the row again.  While the  *)
(* flag is up only an account whose work is being drained gets a row.      *)
(***************************************************************************)
Admits(c) == flag => Of(Held, AccountOf[c]) # {}

EngineBegins(c, aged) ==
    /\ At(c, "engine") /\ Admits(c)
    /\ aged \subseteq Bridged                   \* rows older than 15 minutes
    /\ Cardinality(Bridged \ aged) < BridgeGlobal
    /\ Cardinality(Of(Bridged \ aged, AccountOf[c])) < BridgePerDid
    /\ bridge' = [b \in Calls |-> b = c \/ (bridge[b] /\ b \notin aged)]
    /\ Becomes(c, "inside")
    /\ UNCHANGED <<at, lease, report, polls, late, others>>

\* An effect whose journal never opened gives its reservation back; one whose
\* engine.finish fails in the catch block too throws with it still "attempting".
\* A first engine.finish that fails and a second that works are one step here.
EngineFails(c) ==
    IF Kind[c] = "effect" /\ at[c] = 4 THEN Becomes(c, "escaped") /\ UNCHANGED <<lease, report>>
    ELSE Ends(c, FALSE)

EngineRefuses(c) ==      \* CapacityError of the row transaction
    /\ At(c, "engine") /\ EngineFails(c)
    /\ UNCHANGED <<at, bridge, polls, late, others>>

EngineEnds(c) ==
    /\ how[c] = "inside"
    /\ bridge' = [bridge EXCEPT ![c] = FALSE]
    /\ \/ Advance(c, 1) /\ UNCHANGED <<lease, report>>
       \/ EngineFails(c) /\ UNCHANGED at
    /\ UNCHANGED <<polls, late, others>>

-----------------------------------------------------------------------------
(***************************************************************************)
(* The other steps of a call.                                              *)
(***************************************************************************)
\* The report of an account erased meanwhile cannot be inserted, and the lease is
\* not yet under a finally block.
StartReport(c) ==
    /\ At(c, "report")
    /\ IF purged[AccountOf[c]] THEN Becomes(c, "escaped") /\ UNCHANGED <<at, report>>
       ELSE Advance(c, 1) /\ report' = [report EXCEPT ![c] = "running"]
    /\ UNCHANGED <<lease, bridge, polls, late, others>>

\* The acquisition of a call whose network reading is not followed in detail.
ReadAnyhow(c, good) ==
    /\ At(c, "read")
    /\ IF good THEN Advance(c, 1) /\ UNCHANGED <<lease, report>> ELSE Ends(c, FALSE) /\ UNCHANGED at
    /\ UNCHANGED <<bridge, polls, late, others>>

\* The accounts the receipt names and the acquisition had not seen are looked up,
\* and the engine evaluates again; a preview that misses none goes on.
ReadAgain(c, missing, good) ==
    /\ At(c, "reread") /\ (missing \/ good)
    /\ IF good THEN Advance(c, IF missing THEN 1 ELSE 2) /\ UNCHANGED <<lease, report>>
       ELSE Ends(c, FALSE) /\ UNCHANGED at
    /\ UNCHANGED <<bridge, polls, late, others>>

ReadProfile(c, good) ==
    /\ At(c, "profile")
    /\ IF good THEN Advance(c, 1) /\ UNCHANGED <<lease, report>> ELSE Ends(c, FALSE) /\ UNCHANGED at
    /\ UNCHANGED <<bridge, polls, late, others>>

\* The insert, or the final update of the report, and the finally block; nothing
\* can be inserted for an account erased meanwhile.
Store(c) ==
    /\ At(c, "store") /\ Ends(c, TRUE)
    /\ UNCHANGED <<at, bridge, polls, late, others>>

\* Mutant of Reserve: the flag is not read inside the transaction.
ReserveUnchecked(c) ==
    /\ At(c, "reserve")
    /\ \/ Advance(c, 1) /\ lease' = [lease EXCEPT ![c] = "running"] /\ UNCHANGED report
       \/ Ends(c, FALSE) /\ UNCHANGED at
    /\ UNCHANGED <<bridge, polls, late, others>>

Reserve(c) ==
    /\ At(c, "reserve")
    /\ \/ ~flag /\ Advance(c, 1) /\ lease' = [lease EXCEPT ![c] = "running"] /\ UNCHANGED report
       \/ Ends(c, FALSE) /\ UNCHANGED at          \* the flag, a pause or the hour's capacity
    /\ UNCHANGED <<bridge, polls, late, others>>

\* The last gate and the request; the engine is told of either.
SendEffect(c) ==
    /\ At(c, "write") /\ Advance(c, 1)
    /\ UNCHANGED <<rowVars, polls, late, others>>

SettleEffect(c) ==
    /\ At(c, "settle") /\ Ends(c, TRUE)
    /\ UNCHANGED <<at, bridge, polls, late, others>>

\* Variant: what the process was reporting stays as it was.
DiesReporting(kinds) ==
    LET gone == {c \in Calls : Kind[c] \in kinds /\ how[c] \notin Gone /\ at[c] > 0} IN
    /\ gone # {}
    /\ how' = [c \in Calls |-> IF c \in gone THEN "lost" ELSE how[c]]
    /\ UNCHANGED <<at, rowVars, polls, late, others>>

\* A process dies and is started again: the web process with every acquisition,
\* whose start marks the reports it was writing, or the worker with its effect.
ProcessDies(kinds) ==
    LET gone == {c \in Calls : Kind[c] \in kinds /\ how[c] \notin Gone /\ at[c] > 0} IN
    /\ gone # {}
    /\ how' = [c \in Calls |-> IF c \in gone THEN "lost" ELSE how[c]]
    /\ report' = [c \in Calls |-> IF Kind[c] \in kinds /\ report[c] = "running"
                                  THEN "interrupted" ELSE report[c]]
    /\ UNCHANGED <<at, lease, bridge, polls, late, others>>

\* The deletion of an account is completed: its rows go, whoever still runs.
Purge(d) ==
    LET own(c) == AccountOf[c] = d IN
    /\ ~purged[d]
    /\ \A c \in Of(Calls, d) : Kind[c] = "effect" => at[c] = 0 \/ how[c] \in Gone
    /\ purged' = [purged EXCEPT ![d] = TRUE]
    /\ lease' = [c \in Calls |-> IF own(c) THEN "none" ELSE lease[c]]
    /\ bridge' = [c \in Calls |-> ~own(c) /\ bridge[c]]
    /\ report' = [c \in Calls |-> IF own(c) THEN "none" ELSE report[c]]
    /\ UNCHANGED <<at, how, polls, late, flag, backup>>

(***************************************************************************)
(* The backup.                                                             *)
(***************************************************************************)
BackupBegins ==
    /\ backup = "off" /\ ~flag
    /\ flag' = TRUE /\ backup' = "draining" /\ UNCHANGED callVars

\* Mutant of BackupSeesQuiet: bridge rows are not waited for.
BackupSkipsBridge ==
    /\ backup = "draining" /\ Held = {}
    /\ backup' = "clear" /\ UNCHANGED <<callVars, flag>>

BackupSeesQuiet ==
    /\ backup = "draining" /\ Held = {} /\ Bridged = {}
    /\ backup' = "clear" /\ UNCHANGED <<callVars, flag>>

\* Mutant of BackupTimesOut: giving up leaves the flag up.
BackupGivesUp ==
    /\ backup = "draining" /\ Held \cup Bridged # {}
    /\ backup' = "off" /\ UNCHANGED <<callVars, flag>>

BackupTimesOut ==
    /\ backup = "draining" /\ Held \cup Bridged # {}
    /\ flag' = FALSE /\ backup' = "off" /\ UNCHANGED callVars

CopyAppDatabase ==
    /\ backup = "clear" /\ backup' = "app" /\ UNCHANGED <<callVars, flag>>

\* The engine databases are copied, or one of the copies failed: the finally block.
BackupEnds ==
    /\ Copying
    /\ flag' = FALSE /\ backup' = "off" /\ UNCHANGED callVars

BackupDies ==
    /\ backup \in {"draining", "clear", "app"}
    /\ backup' = "killed" /\ UNCHANGED <<callVars, flag>>

-----------------------------------------------------------------------------
\* What a call does by itself, apart from reading the network and storing.
Moves(c) ==
    \/ \E aged \in SUBSET Left : TakeLease(c, aged) \/ EngineBegins(c, aged)
    \/ AskAdmission(c) \/ Poll(c) \/ Claim(c) \/ GiveUp(c)
    \/ EngineRefuses(c) \/ EngineEnds(c)
    \/ StartReport(c) \/ \E good \in BOOLEAN : ReadProfile(c, good)
    \/ Reserve(c) \/ SendEffect(c) \/ SettleEffect(c)

BackupProceeds == BackupSeesQuiet \/ BackupTimesOut \/ CopyAppDatabase \/ BackupEnds

\* What no call does.
Outside ==
    \/ \E c \in Calls : Begin(c)
    \/ \E d \in Accounts : Purge(d)
    \/ ProcessDies({"effect"}) \/ ProcessDies(Kinds \ {"effect"})
    \/ BackupBegins \/ BackupDies \/ BackupProceeds

WindowNext ==
    \/ \E c \in Calls :
        \/ Moves(c) \/ Store(c)
        \/ \E good, missing \in BOOLEAN : ReadAnyhow(c, good) \/ ReadAgain(c, missing, good)
    \/ Outside

WindowSpec == WindowInit /\ [][WindowNext]_windowVars

Live(c) == at[c] > 0 /\ how[c] \notin Gone

-----------------------------------------------------------------------------
\* While the backup copies, nothing holds a row and no engine process runs
\* (docs/hosting.md: "one application-consistent generation"), except for an account
\* one of whose calls got its lease after the backup had raised the flag, and
\* for an account erased under a call that was still running.
WindowIsQuiet ==
    Copying => \A c \in Calls : c \in Held \cup Bridged \/ how[c] = "inside" =>
                  purged[AccountOf[c]] \/ \E b \in Of(Calls, AccountOf[c]) : late[b]

\* A call that returned or threw leaves no row a later backup or acquisition
\* would wait for; but for an effect whose engine failed it twice, and for a
\* measurement of an account erased before it got its lease.  And no measurement
\* is reported as running that is over or died with its process.
EndedHoldsNothing ==
    \A c \in Calls :
        /\ how[c] = "over" => lease[c] \notin {"waiting", "running"}
        /\ how[c] \in {"over", "escaped"} => ~bridge[c]
        /\ how[c] \in Gone => report[c] # "running"
        /\ how[c] = "escaped" => Kind[c] = "effect" \/ purged[AccountOf[c]]

\* Every call ends, whatever the flag and the limits do to it, and the flag falls
\* unless the backup that raised it was killed.
AllEnd ==
    /\ <>[](\A c \in Calls : ~Live(c))
    /\ []<>(~flag \/ backup = "killed")

=============================================================================
