----------------------------- MODULE HostedJobs -----------------------------
(***************************************************************************)
(* The hosted action pipeline: a user approves rows of a preview, the      *)
(* approval becomes a job with one item per account, and a worker process  *)
(* re-checks each item, journals it in the Python engine, mutes or unmutes *)
(* the account on the network and records what it can prove about the      *)
(* outcome.  The worker can stop between any two of its steps; the user,   *)
(* the operator and the network act between any two of them.               *)
(*                                                                         *)
(* One action is one database transaction, one call of the engine or one   *)
(* network request together with the synchronous code that follows it.     *)
(***************************************************************************)
EXTENDS Integers, FiniteSets

CONSTANTS
    Accounts,            \* signed-in users, by DID
    Subjects,            \* positions of the subject DIDs in ORDER BY subject
    Followed,            \* subjects every account follows at first
    MaxPreviews,         \* bound: previews ever taken, in creation order
    MaxJobs,             \* bound: jobs ever created, in created_at order
    Workers,             \* worker processes; the deployment runs one
    ActionBatchMax,      \* config.actionBatchMax
    QueuedActionsGlobal, \* config.queuedActionsGlobal
    EffectsPerDidDay,    \* config.effectsPerDidDay
    EffectsGlobalDay,    \* config.effectsGlobalDay
    MaxMoves             \* bound: disturbances (edits, crashes, gate changes)

ASSUME ConstantsAssumption ==
    /\ Accounts # {} /\ IsFiniteSet(Accounts)
    /\ Subjects \subseteq Nat \ {0} /\ IsFiniteSet(Subjects)
    /\ Followed \subseteq Subjects
    /\ MaxPreviews \in Nat /\ MaxJobs \in Nat /\ MaxMoves \in Nat
    /\ ActionBatchMax \in Nat /\ QueuedActionsGlobal \in Nat
    /\ EffectsPerDidDay \in Nat /\ EffectsGlobalDay \in Nat

VARIABLES
    \* the application database (app.db)
    preview,    \* [Previews -> the stored preview]
    approval,   \* [Jobs -> which preview was approved, and for which kind]
    status,     \* [Jobs -> jobs.status, or "absent"]
    cancel,     \* [Jobs -> jobs.cancel_requested]
    delayed,    \* [Jobs -> jobs.available_at is still in the future]
    item,       \* [Jobs -> [Subjects -> job_items.status, or "none"]]
    user,       \* [Accounts -> users, admissions, policies, account_deletions]
    gate,       \* service_controls
    effect,     \* [Slots -> rows of capacity_events of kind "effect"]
    \* the engine database of each account
    ledger,     \* [Accounts -> [Subjects -> ledger.status]]
    attempt,    \* [Jobs -> [Subjects -> attempts.status of the item's last attempt]]
    \* what the service does not control
    remote,     \* [Accounts -> [Subjects -> moderation state on the network]]
    verdict,    \* [Accounts -> [Subjects -> what policy and evidence conclude]]
    run,        \* [Workers -> the local state of the worker's current run]
    \* bound and history
    moves,      \* disturbances so far
    begins,     \* [Jobs -> [Subjects -> engine.begin calls that committed]]
    writes      \* [Jobs -> [Subjects -> remote requests issued]]

askVars    == <<preview, approval, cancel, user, gate>>   \* never written by the worker
jobVars    == <<status, delayed, item, effect>>
engineVars == <<ledger, attempt, begins>>
worldVars  == <<remote, verdict>>
outside    == <<askVars, worldVars, moves>>
workVars   == <<engineVars, worldVars, run, writes>>
vars == <<askVars, jobVars, engineVars, worldVars, run, moves, writes>>

Previews == 1..MaxPreviews
Jobs     == 1..MaxJobs
Slots    == 1..(EffectsGlobalDay + 1)   \* one more than the limit allows
Kinds    == {"apply", "apply_followed", "release"}
Verdicts == {"quarantine", "clear", "held"}
LedgerStatus  == {"untracked", "unresolved", "attributed", "released"}
AttemptStatus == {"none", "pending", "confirmed", "unresolved"}
ItemStatus == {"none", "pending", "attempting", "confirmed", "uncertain",
               "skipped_changed", "skipped_cancelled"}
JobStatus == {"absent", "queued", "running", "completed", "completed_with_skips",
              "needs_review", "failed", "cancelled", "paused_by_operator",
              "awaiting_reconnect", "disconnected"}
EffectStatus == {"free", "attempting", "confirmed", "uncertain"}

Observation == [known : BOOLEAN, direct : BOOLEAN, following : BOOLEAN]
Unknown == [known |-> FALSE, direct |-> FALSE, following |-> FALSE]

(***************************************************************************)
(* A preview row.  Its fingerprint digests all that plan_action looked at, *)
(* so two rows have the same fingerprint exactly when they are equal.      *)
(***************************************************************************)
Row == [verdict : Verdicts, seen : Observation, ledger : LedgerStatus]
NoRow == [verdict |-> "held", seen |-> Unknown, ledger |-> "untracked"]
RowsOf(d, unseen) ==
    [s \in Subjects |-> [verdict |-> verdict[d][s],
                         seen    |-> IF s \in unseen THEN Unknown ELSE remote[d][s],
                         ledger  |-> ledger[d][s]]]

\* Mutant of Proposes: an unresolved attempt does not stop the planning.
ProposesOverUnresolved(row, kind) ==
    /\ row.verdict # "held" /\ row.seen.known
    /\ \/ kind = "apply" /\ row.verdict = "quarantine"
          /\ ~row.seen.direct /\ ~row.seen.following
       \/ kind = "release" /\ row.verdict = "clear"
          /\ row.ledger = "attributed" /\ row.seen.direct

\* Mutant of Proposes: any mute may be released, whoever put it there.
ProposesAnyRelease(row, kind) ==
    /\ row.verdict # "held" /\ row.ledger # "unresolved" /\ row.seen.known
    /\ kind = "release" /\ row.verdict = "clear" /\ row.seen.direct

\* plan_action proposes for this row the action an approval of this kind expects.
\* "held" stands for the exempt, indeterminate and keep-muted outcomes.
Proposes(row, kind) ==
    /\ row.verdict # "held" /\ row.ledger # "unresolved" /\ row.seen.known
    /\ row.ledger = "attributed" => row.seen.direct       \* otherwise "suspend"
    /\ \/ kind = "apply" /\ row.verdict = "quarantine"
          /\ ~row.seen.direct /\ ~row.seen.following
       \/ kind = "apply_followed" /\ row.verdict = "quarantine"
          /\ ~row.seen.direct /\ row.seen.following
       \/ kind = "release" /\ row.verdict = "clear"
          /\ row.ledger = "attributed" /\ row.seen.direct

(***************************************************************************)
(* The local state of run(): the step it is at, its job, the items not yet *)
(* reached, the item in hand, the receipt, the re-check and the effect row.*)
(***************************************************************************)
Steps == {"stopped", "idle", "claimed", "planning", "next", "observing", "reserving",
          "journaling", "journaled", "begun", "refusing", "refused", "writing",
          "confirming", "proven", "unproven", "doubtful", "doubted"}
EffectSteps == {"journaling", "journaled", "begun", "refusing", "refused", "writing",
                "confirming", "proven", "unproven", "doubtful", "doubted"}  \* an effect is reserved
ItemSteps == {"observing", "reserving"} \cup EffectSteps            \* an item is in hand
Run == [pc : Steps, job : Jobs \cup {0}, todo : SUBSET Subjects, subj : Subjects \cup {0},
        plan : [Subjects -> Row], fresh : Observation, slot : Slots \cup {0}]
Idle == [pc |-> "idle", job |-> 0, todo |-> {}, subj |-> 0,
         plan |-> [s \in Subjects |-> NoRow], fresh |-> Unknown, slot |-> 0]
Stopped == [Idle EXCEPT !.pc = "stopped"]

NoPreview == [did |-> CHOOSE d \in Accounts : TRUE, revision |-> 0,
              rows |-> [s \in Subjects |-> NoRow], state |-> "absent"]
NoEffect  == [did |-> CHOOSE d \in Accounts : TRUE, status |-> "free"]
NoApproval == [did |-> CHOOSE d \in Accounts : TRUE, preview |-> 0, kind |-> "apply"]

Did(j)   == approval[j].did
Batch(j) == {s \in Subjects : item[j][s] # "none"}
WritesOpen == gate.writes /\ ~gate.maintenance                  \* requireWrite
AccountWritesOpen(d) == WritesOpen /\ user[d].writes            \* requireAccountWrite
OpenItems == {i \in Jobs \X Subjects : item[i[1]][i[2]] \in {"pending", "attempting"}}
\* Mutant of Used: only the effects still in flight count against the day.
UsedInFlight == {e \in Slots : effect[e].status = "attempting"}

Used      == {e \in Slots : effect[e].status # "free"}
UsedBy(d) == {e \in Used : effect[e].did = d}

Disturb == moves < MaxMoves /\ moves' = moves + 1

AskTypeOK ==
    /\ preview \in [Previews -> [did : Accounts, revision : Nat, rows : [Subjects -> Row],
                                 state : {"absent", "live", "expired"}]]
    /\ approval \in [Jobs -> [did : Accounts, preview : 0..MaxPreviews, kind : Kinds]]
    /\ cancel \in [Jobs -> BOOLEAN]
    /\ user \in [Accounts -> [connected : BOOLEAN, deleting : BOOLEAN,
                              writes : BOOLEAN, revision : Nat]]
    /\ gate \in [writes : BOOLEAN, maintenance : BOOLEAN]

JobTypeOK ==
    /\ status \in [Jobs -> JobStatus] /\ delayed \in [Jobs -> BOOLEAN]
    /\ item \in [Jobs -> [Subjects -> ItemStatus]]
    /\ effect \in [Slots -> [did : Accounts, status : EffectStatus]]

EngineTypeOK ==
    /\ ledger \in [Accounts -> [Subjects -> LedgerStatus]]
    /\ attempt \in [Jobs -> [Subjects -> AttemptStatus]]
    /\ begins \in [Jobs -> [Subjects -> Nat]]

WorldTypeOK ==
    /\ remote \in [Accounts -> [Subjects -> Observation]]
    /\ verdict \in [Accounts -> [Subjects -> Verdicts]]
    /\ moves \in Nat
    /\ writes \in [Jobs -> [Subjects -> Nat]]

\* Each step of a run has the local variables it needs.
LocalOK(r) ==
    /\ r.pc \notin {"stopped", "idle"} => r.job # 0
    /\ r.pc \in ItemSteps => r.subj # 0
    /\ r.pc \in EffectSteps => r.slot # 0
RunTypeOK == run \in [Workers -> Run] /\ \A w \in Workers : LocalOK(run[w])

\* An approved job names its preview, and only approved jobs run.
ApprovedOK ==
    /\ \A j \in Jobs : status[j] # "absent" => approval[j].preview # 0
    /\ \A w \in Workers : run[w].job # 0 => status[run[w].job] # "absent"

TypeOK == /\ AskTypeOK /\ JobTypeOK /\ EngineTypeOK /\ WorldTypeOK /\ RunTypeOK
          /\ ApprovedOK

Init ==
    /\ preview = [p \in Previews |-> NoPreview]
    /\ approval = [j \in Jobs |-> NoApproval]
    /\ status = [j \in Jobs |-> "absent"]
    /\ cancel = [j \in Jobs |-> FALSE] /\ delayed = [j \in Jobs |-> FALSE]
    /\ item = [j \in Jobs |-> [s \in Subjects |-> "none"]]
    /\ user = [d \in Accounts |-> [connected |-> TRUE, deleting |-> FALSE,
                                   writes |-> TRUE, revision |-> 1]]
    /\ gate = [writes |-> TRUE, maintenance |-> FALSE]
    /\ effect = [e \in Slots |-> NoEffect]
    /\ ledger = [d \in Accounts |-> [s \in Subjects |-> "untracked"]]
    /\ attempt = [j \in Jobs |-> [s \in Subjects |-> "none"]]
    /\ remote = [d \in Accounts |-> [s \in Subjects |->
                    [known |-> TRUE, direct |-> FALSE, following |-> s \in Followed]]]
    /\ verdict = [d \in Accounts |-> [s \in Subjects |-> "quarantine"]]
    /\ run = [w \in Workers |-> Stopped]
    /\ moves = 0
    /\ begins = [j \in Jobs |-> [s \in Subjects |-> 0]]
    /\ writes = [j \in Jobs |-> [s \in Subjects |-> 0]]

-----------------------------------------------------------------------------
(***************************************************************************)
(* Requests of the web process.                                            *)
(***************************************************************************)
Served(d) == user[d].connected /\ ~user[d].deleting    \* the checks before any POST handler

TakePreview(d, unseen) ==
    /\ Served(d)
    /\ \E p \in Previews :
        /\ preview[p].state = "absent" /\ \A q \in 1..(p - 1) : preview[q].state # "absent"
        /\ preview' = [preview EXCEPT ![p] = [did |-> d, revision |-> user[d].revision,
                                              rows |-> RowsOf(d, unseen), state |-> "live"]]
    /\ UNCHANGED <<workVars, jobVars, approval, cancel, user, gate, moves>>

\* requireApprovalCapacity: the batch fits the queue and what is left of the day's effects.
Capacity(d, n) ==
    /\ AccountWritesOpen(d)
    /\ n <= ActionBatchMax
    /\ Cardinality(OpenItems) + n <= QueuedActionsGlobal
    /\ Cardinality(Used) + n <= EffectsGlobalDay
    /\ Cardinality(UsedBy(d)) + n <= EffectsPerDidDay

Approve(p, kind, batch) ==
    LET d == preview[p].did
        asked == [did |-> d, preview |-> p, kind |-> kind]
    IN
    /\ preview[p].state = "live" /\ Served(d)
    /\ preview[p].revision = user[d].revision
    /\ batch # {} /\ Capacity(d, Cardinality(batch))
    /\ \A s \in batch : Proposes(preview[p].rows[s], kind)
    /\ \A j \in Jobs : ~(approval[j] = asked /\ Batch(j) = batch)
    /\ \E j \in Jobs :
        /\ status[j] = "absent" /\ \A k \in 1..(j - 1) : status[k] # "absent"
        /\ approval' = [approval EXCEPT ![j] = asked]
        /\ status' = [status EXCEPT ![j] = "queued"]
        /\ item' = [item EXCEPT ![j] = [s \in Subjects |->
                                            IF s \in batch THEN "pending" ELSE "none"]]
    /\ UNCHANGED <<workVars, preview, cancel, user, gate, delayed, effect, moves>>

CancelJob(j) ==
    /\ status[j] # "absent" /\ Served(Did(j)) /\ Disturb
    /\ cancel' = [cancel EXCEPT ![j] = TRUE]
    /\ UNCHANGED <<workVars, jobVars, preview, approval, user, gate>>

\* POST /disconnect, and the first half of POST /reconnect.
Disconnect(d) ==
    /\ Served(d) /\ Disturb
    /\ user' = [user EXCEPT ![d].connected = FALSE]
    /\ cancel' = [j \in Jobs |-> cancel[j] \/ (status[j] \in {"queued", "running"} /\ Did(j) = d)]
    /\ status' = [j \in Jobs |-> IF status[j] = "queued" /\ Did(j) = d
                                 THEN "disconnected" ELSE status[j]]
    /\ UNCHANGED <<workVars, preview, approval, gate, delayed, item, effect>>

\* The OAuth callback signs the account in again: upsertUser sets connected.
SignIn(d) ==
    /\ ~user[d].connected
    /\ user' = [user EXCEPT ![d].connected = TRUE]
    /\ UNCHANGED <<workVars, jobVars, preview, approval, cancel, gate, moves>>

RequestDeletion(d) ==
    /\ user[d].connected /\ Disturb
    /\ user' = [user EXCEPT ![d].deleting = TRUE]
    /\ LET waiting(j) == status[j] \in {"queued", "awaiting_reconnect", "paused_by_operator"}
       IN /\ cancel' = [j \in Jobs |-> cancel[j] \/ ((waiting(j) \/ status[j] = "running")
                                                     /\ Did(j) = d)]
          /\ status' = [j \in Jobs |-> IF waiting(j) /\ Did(j) = d
                                       THEN "cancelled" ELSE status[j]]
    /\ UNCHANGED <<workVars, preview, approval, gate, delayed, item, effect>>

EditPolicy(d) ==
    /\ Served(d) /\ Disturb
    /\ user' = [user EXCEPT ![d].revision = @ + 1]
    /\ UNCHANGED <<workVars, jobVars, preview, approval, cancel, gate>>

(***************************************************************************)
(* The operator's commands and the backup's maintenance window.            *)
(***************************************************************************)
SetWrites(on) ==
    /\ gate.writes # on /\ Disturb
    /\ gate' = [gate EXCEPT !.writes = on]
    /\ status' = [j \in Jobs |-> IF ~on /\ status[j] = "queued"
                                 THEN "paused_by_operator" ELSE status[j]]
    /\ UNCHANGED <<workVars, preview, approval, cancel, user, delayed, item, effect>>

SetMaintenance(on) ==
    /\ gate.maintenance # on /\ Disturb
    /\ gate' = [gate EXCEPT !.maintenance = on]
    /\ UNCHANGED <<workVars, jobVars, preview, approval, cancel, user>>

SetAccountWrites(d, on) ==
    /\ user[d].writes # on /\ Disturb
    /\ user' = [user EXCEPT ![d].writes = on]
    /\ UNCHANGED <<workVars, jobVars, preview, approval, cancel, gate>>

Resume(j) ==
    /\ status[j] = "paused_by_operator" /\ preview[approval[j].preview].state = "live"
    /\ status' = [status EXCEPT ![j] = "queued"]
    /\ delayed' = [delayed EXCEPT ![j] = FALSE]
    /\ UNCHANGED <<workVars, askVars, item, effect, moves>>


(***************************************************************************)
(* Time, the network and the policy's evidence.                            *)
(***************************************************************************)
ExpirePreview(p) ==
    /\ preview[p].state = "live" /\ Disturb
    /\ preview' = [preview EXCEPT ![p].state = "expired"]
    /\ UNCHANGED <<workVars, jobVars, approval, cancel, user, gate>>

DelayOver(j) ==
    /\ delayed[j]
    /\ delayed' = [delayed EXCEPT ![j] = FALSE]
    /\ UNCHANGED <<workVars, askVars, status, item, effect, moves>>

\* The user mutes, unmutes, follows or unfollows in another client.
ChangeRemote(d, s, observed) ==
    /\ observed.known /\ observed # remote[d][s] /\ Disturb
    /\ remote' = [remote EXCEPT ![d][s] = observed]
    /\ UNCHANGED <<askVars, jobVars, engineVars, verdict, run, writes>>

\* Label evidence expires or arrives, or an account rule is edited.
ChangeVerdict(d, s, v) ==
    /\ v # verdict[d][s] /\ Disturb
    /\ verdict' = [verdict EXCEPT ![d][s] = v]
    /\ UNCHANGED <<askVars, jobVars, engineVars, remote, run, writes>>

-----------------------------------------------------------------------------
(***************************************************************************)
(* The worker.                                                             *)
(***************************************************************************)
Becomes(w, local) == run' = [run EXCEPT ![w] = local]
GoTo(w, step) == Becomes(w, [run[w] EXCEPT !.pc = step])
EndRun(w, result) ==
    /\ status' = [status EXCEPT ![run[w].job] = result]                    \* finishJob
    /\ Becomes(w, Idle)

\* on to the next item of the batch
Advance(w) == Becomes(w, [run[w] EXCEPT !.pc = "next", !.todo = @ \ {run[w].subj},
                               !.subj = 0, !.fresh = Unknown, !.slot = 0])
SetItem(w, value) == item' = [item EXCEPT ![run[w].job][run[w].subj] = value]
\* Mutant of SkipPending: everything not confirmed is skipped.
SkipUnconfirmed(j, value) ==
    item' = [item EXCEPT ![j] = [s \in Subjects |->
                IF item[j][s] \in {"none", "confirmed"} THEN item[j][s] ELSE value]]

SkipPending(j, value) ==
    item' = [item EXCEPT ![j] = [s \in Subjects |->
                IF item[j][s] = "pending" THEN value ELSE item[j][s]]]

\* Mutant of Recover: interrupted jobs are not looked for.
RecoverItemsOnly ==
    /\ item' = [j \in Jobs |-> [s \in Subjects |->
                   IF item[j][s] = "attempting" THEN "uncertain" ELSE item[j][s]]]
    /\ UNCHANGED <<status, delayed>>

Recover ==
    LET uncertain(j) == \E s \in Subjects : item[j][s] \in {"attempting", "uncertain"}
        resumed(j) == IF status[j] # "running" THEN status[j]
                      ELSE IF uncertain(j) THEN "needs_review" ELSE "queued"
    IN /\ item' = [j \in Jobs |-> [s \in Subjects |->
                      IF item[j][s] = "attempting" THEN "uncertain" ELSE item[j][s]]]
       /\ status' = [j \in Jobs |-> IF resumed(j) = "queued" /\ ~gate.writes
                                    THEN "paused_by_operator" ELSE resumed(j)]
       /\ delayed' = [j \in Jobs |-> delayed[j] /\ ~(status[j] = "running" /\ ~uncertain(j))]

Start(w) ==
    /\ run[w].pc = "stopped"
    /\ Recover /\ GoTo(w, "idle")
    /\ UNCHANGED <<outside, engineVars, effect, writes>>

\* The process dies: the run is lost, everything committed stays.
Crash(w) ==
    /\ run[w].pc # "stopped" /\ Disturb
    /\ Becomes(w, Stopped)
    /\ UNCHANGED <<askVars, jobVars, engineVars, worldVars, writes>>

Claimable(j) == status[j] = "queued" /\ ~delayed[j]
\* Mutant of Claim: the newest job goes first.
ClaimNewest(w, j) ==
    /\ run[w].pc = "idle" /\ WritesOpen
    /\ Claimable(j) /\ \A k \in (j + 1)..MaxJobs : ~Claimable(k)
    /\ status' = [status EXCEPT ![j] = "running"]
    /\ Becomes(w, [run[w] EXCEPT !.pc = "claimed", !.job = j])
    /\ UNCHANGED <<outside, delayed, item, effect, engineVars, writes>>

Claim(w, j) ==
    /\ run[w].pc = "idle" /\ WritesOpen
    /\ Claimable(j) /\ \A k \in 1..(j - 1) : ~Claimable(k)
    /\ status' = [status EXCEPT ![j] = "running"]
    /\ Becomes(w, [run[w] EXCEPT !.pc = "claimed", !.job = j])
    /\ UNCHANGED <<outside, engineVars, delayed, item, effect, writes>>

\* The checks run() makes before it reads anything from the network.
Preflight(w) ==
    LET j == run[w].job
        d == Did(j)
        p == preview[approval[j].preview]
    IN
    /\ run[w].pc = "claimed"
    /\ \/ user[d].deleting
          /\ SkipPending(j, "skipped_cancelled") /\ EndRun(w, "cancelled")
       \/ ~user[d].deleting /\ p.state = "expired"
          /\ SkipPending(j, "skipped_cancelled") /\ EndRun(w, "needs_review")
       \/ ~user[d].deleting /\ p.state = "live" /\ ~user[d].connected
          /\ EndRun(w, "disconnected") /\ UNCHANGED item
       \/ Served(d) /\ p.state = "live" /\ p.revision # user[d].revision
          /\ SkipPending(j, "skipped_cancelled") /\ EndRun(w, "completed_with_skips")
       \/ Served(d) /\ p.state = "live" /\ p.revision = user[d].revision
          /\ GoTo(w, "planning") /\ UNCHANGED <<status, item>>
    /\ UNCHANGED <<outside, engineVars, delayed, effect, writes>>

\* Re-acquire the remote state and let the engine plan the whole receipt again.
Plan(w, unseen) ==
    LET j == run[w].job IN
    /\ run[w].pc = "planning"
    /\ Becomes(w, [run[w] EXCEPT !.pc = "next", !.plan = RowsOf(Did(j), unseen),
                               !.todo = {s \in Subjects : item[j][s] = "pending"}])
    /\ UNCHANGED <<outside, jobVars, engineVars, writes>>

\* A read from the network or a call of the engine fails: retried after 429,
\* given up otherwise.
ReadFails(w) ==
    LET j == run[w].job IN
    /\ run[w].pc \in {"planning", "observing"}
    /\ \/ EndRun(w, "queued") /\ delayed' = [delayed EXCEPT ![j] = TRUE]
       \/ EndRun(w, "awaiting_reconnect") /\ UNCHANGED delayed
       \/ EndRun(w, "failed") /\ UNCHANGED delayed
    /\ UNCHANGED <<outside, engineVars, item, effect, writes>>

\* Mutant of Stopping: only a deletion stops the batch.
StoppingOnDeletion(j) == user[Did(j)].deleting

Stopping(j) == user[Did(j)].deleting \/ cancel[j]
StopItems(w) ==
    LET j == run[w].job IN
    /\ run[w].pc = "next" /\ run[w].todo # {} /\ Stopping(j)
    /\ SkipPending(j, "skipped_cancelled")
    /\ Becomes(w, [run[w] EXCEPT !.todo = {}])
    /\ UNCHANGED <<outside, engineVars, status, delayed, effect, writes>>

Head(w, s) == s \in run[w].todo /\ \A t \in run[w].todo : s <= t
\* The row planned now is the row the user approved, action and fingerprint.
StillApproved(w, s) ==
    LET a == approval[run[w].job] IN
    Proposes(run[w].plan[s], a.kind) /\ run[w].plan[s] = preview[a.preview].rows[s]

SkipChanged(w, s) ==
    /\ run[w].pc = "next" /\ Head(w, s) /\ ~Stopping(run[w].job)
    /\ ~StillApproved(w, s)
    /\ item' = [item EXCEPT ![run[w].job][s] = "skipped_changed"]
    /\ Becomes(w, [run[w] EXCEPT !.todo = @ \ {s}])
    /\ UNCHANGED <<outside, engineVars, status, delayed, effect, writes>>

StartItem(w, s) ==
    /\ run[w].pc = "next" /\ Head(w, s) /\ ~Stopping(run[w].job)
    /\ StillApproved(w, s)
    /\ Becomes(w, [run[w] EXCEPT !.pc = "observing", !.subj = s])
    /\ UNCHANGED <<outside, jobVars, engineVars, writes>>

\* The re-check of the one account; a profile the network hides is unknown.
Observe(w) ==
    /\ run[w].pc = "observing"
    /\ \E observed \in {remote[Did(run[w].job)][run[w].subj], Unknown} :
          Becomes(w, [run[w] EXCEPT !.pc = "reserving", !.fresh = observed])
    /\ UNCHANGED <<outside, jobVars, engineVars, writes>>

Reserve(w) ==
    LET d == Did(run[w].job)
        free == {e \in Slots : effect[e].status = "free"}
        allowed == /\ AccountWritesOpen(d)
                   /\ Cardinality(Used) < EffectsGlobalDay
                   /\ Cardinality(UsedBy(d)) < EffectsPerDidDay
        same == run[w].fresh = run[w].plan[run[w].subj].seen
    IN
    /\ run[w].pc = "reserving"
    /\ \/ ~same /\ SetItem(w, "skipped_changed") /\ Advance(w)
          /\ UNCHANGED <<status, effect>>
       \/ same /\ ~allowed /\ EndRun(w, "paused_by_operator")
          /\ UNCHANGED <<item, effect>>
       \/ \E e \in free :
          /\ same /\ allowed /\ \A f \in free : e <= f
          /\ effect' = [effect EXCEPT ![e] = [did |-> d, status |-> "attempting"]]
          /\ Becomes(w, [run[w] EXCEPT !.pc = "journaling", !.slot = e])
          /\ UNCHANGED <<status, item>>
    /\ UNCHANGED <<outside, engineVars, delayed, writes>>

\* Mutant of JournalCommits: the attempt is written without the ledger row.
JournalAttemptOnly(w) ==
    /\ run[w].pc = "journaling"
    /\ attempt' = [attempt EXCEPT ![run[w].job][run[w].subj] = "pending"]
    /\ begins' = [begins EXCEPT ![run[w].job][run[w].subj] = @ + 1]
    /\ GoTo(w, "journaled")
    /\ UNCHANGED <<outside, jobVars, ledger, writes>>

\* The engine commits begin_action, and its reply reaches the worker or not.
JournalCommits(w) ==
    LET j == run[w].job
        s == run[w].subj
    IN
    /\ run[w].pc = "journaling"
    /\ attempt' = [attempt EXCEPT ![j][s] = "pending"]
    /\ ledger' = [ledger EXCEPT ![Did(j)][s] = "unresolved"]
    /\ begins' = [begins EXCEPT ![j][s] = @ + 1]
    /\ GoTo(w, "journaled")
    /\ UNCHANGED <<outside, jobVars, writes>>

\* Mutant of JournalReplies: the item is not marked before the request.
JournalUnmarked(w) ==
    /\ run[w].pc = "journaled" /\ GoTo(w, "begun")
    /\ UNCHANGED <<outside, jobVars, engineVars, writes>>

JournalReplies(w) ==
    /\ run[w].pc = "journaled"
    /\ SetItem(w, "attempting") /\ GoTo(w, "begun")
    /\ UNCHANGED <<outside, engineVars, status, delayed, effect, writes>>

JournalFails(w) ==
    /\ run[w].pc \in {"journaling", "journaled"}
    /\ effect' = [effect EXCEPT ![run[w].slot] = NoEffect]                  \* "refused"
    /\ EndRun(w, "failed")
    /\ UNCHANGED <<outside, engineVars, delayed, item, writes>>

LastGate(w) ==
    /\ run[w].pc = "begun"
    /\ GoTo(w, IF AccountWritesOpen(Did(run[w].job)) THEN "writing" ELSE "refusing")
    /\ UNCHANGED <<outside, jobVars, engineVars, writes>>

\* Mutant of Finish: a failed attempt clears the ledger row.
FinishForgets(w, success) ==
    LET j == run[w].job
        s == run[w].subj
        settled == IF approval[j].kind = "release" THEN "released" ELSE "attributed"
    IN
    /\ attempt' = [attempt EXCEPT ![j][s] = IF success THEN "confirmed" ELSE "unresolved"]
    /\ ledger' = [ledger EXCEPT ![Did(j)][s] = IF success THEN settled ELSE "untracked"]
    /\ UNCHANGED begins

\* Mutant of Finish: the ledger takes the action for done in any case.
FinishTrusts(w, success) ==
    LET j == run[w].job
        s == run[w].subj
        settled == IF approval[j].kind = "release" THEN "released" ELSE "attributed"
    IN
    /\ attempt' = [attempt EXCEPT ![j][s] = IF success THEN "confirmed" ELSE "unresolved"]
    /\ ledger' = [ledger EXCEPT ![Did(j)][s] = settled]
    /\ UNCHANGED begins

\* engine.finish: the attempt and the ledger change in one transaction.
Finish(w, success) ==
    LET j == run[w].job
        s == run[w].subj
        settled == IF approval[j].kind = "release" THEN "released" ELSE "attributed"
    IN
    /\ attempt' = [attempt EXCEPT ![j][s] = IF success THEN "confirmed" ELSE "unresolved"]
    /\ ledger' = [ledger EXCEPT ![Did(j)][s] = IF success THEN settled ELSE "unresolved"]
    /\ UNCHANGED begins

RefusalCommits(w) ==
    /\ run[w].pc = "refusing"
    /\ Finish(w, FALSE) /\ GoTo(w, "refused")
    /\ UNCHANGED <<outside, jobVars, writes>>

RefusalReplies(w) ==
    /\ run[w].pc = "refused"
    /\ SetItem(w, "pending")
    /\ effect' = [effect EXCEPT ![run[w].slot] = NoEffect]
    /\ EndRun(w, "paused_by_operator")
    /\ UNCHANGED <<outside, engineVars, delayed, writes>>

\* An exception of engine.finish outside the inner try reaches runNext.
WorkerError(w) ==
    /\ run[w].pc \in {"refusing", "refused", "doubtful", "doubted"}
    /\ EndRun(w, "failed")
    /\ UNCHANGED <<outside, engineVars, delayed, item, effect, writes>>

\* One mute or unmute request: applied or not, answered or not.
Write(w, applied, answered) ==
    LET j == run[w].job
        s == run[w].subj
    IN
    /\ run[w].pc = "writing" /\ (answered => applied)
    /\ writes' = [writes EXCEPT ![j][s] = @ + 1]
    /\ remote' = IF applied
                 THEN [remote EXCEPT ![Did(j)][s].direct = (approval[j].kind # "release")]
                 ELSE remote
    /\ GoTo(w, IF answered THEN "confirming" ELSE "doubtful")
    /\ UNCHANGED <<askVars, jobVars, engineVars, verdict, moves>>

\* The read-back proves the effect, or three reads do not.
Confirm(w) ==
    LET j == run[w].job IN
    /\ run[w].pc = "confirming"
    /\ \/ remote[Did(j)][run[w].subj].direct = (approval[j].kind # "release")
          /\ GoTo(w, "proven")
       \/ GoTo(w, "unproven")
    /\ UNCHANGED <<outside, jobVars, engineVars, writes>>

\* Mutant of Settle: an answered request is reported confirmed, proven or not.
SettleConfirmed(w) ==
    /\ run[w].pc \in {"proven", "unproven"}
    /\ Finish(w, run[w].pc = "proven")
    /\ SetItem(w, "confirmed")
    /\ effect' = [effect EXCEPT ![run[w].slot].status = "confirmed"]
    /\ Advance(w)
    /\ UNCHANGED <<outside, status, delayed, writes>>

Settle(w) ==
    LET outcome == IF run[w].pc = "proven" THEN "confirmed" ELSE "uncertain" IN
    /\ run[w].pc \in {"proven", "unproven"}
    /\ Finish(w, run[w].pc = "proven")
    /\ SetItem(w, outcome)
    /\ effect' = [effect EXCEPT ![run[w].slot].status = outcome]
    /\ Advance(w)
    /\ UNCHANGED <<outside, status, delayed, writes>>

\* engine.finish fails, having committed or not: the catch block takes over.
SettleFails(w) ==
    /\ run[w].pc \in {"proven", "unproven"}
    /\ \/ Finish(w, run[w].pc = "proven")
       \/ UNCHANGED engineVars
    /\ GoTo(w, "doubtful")
    /\ UNCHANGED <<outside, jobVars, writes>>

\* The catch block: engine.finish commits, and its reply reaches the worker or not.
DoubtCommits(w) ==
    /\ run[w].pc = "doubtful"
    /\ Finish(w, FALSE) /\ GoTo(w, "doubted")
    /\ UNCHANGED <<outside, jobVars, writes>>

\* Mutant of Doubt: an unanswered request is sent again.
DoubtRetries(w) ==
    /\ run[w].pc = "doubted" /\ GoTo(w, "writing")
    /\ UNCHANGED <<outside, jobVars, engineVars, writes>>

Doubt(w) ==
    /\ run[w].pc = "doubted"
    /\ SetItem(w, "uncertain")
    /\ effect' = [effect EXCEPT ![run[w].slot].status = "uncertain"]
    /\ Advance(w)
    /\ UNCHANGED <<outside, engineVars, status, delayed, writes>>

Finalize(w) ==
    LET statuses == {item[run[w].job][s] : s \in Batch(run[w].job)}
        skipped == {"skipped_changed", "skipped_cancelled"}
    IN
    /\ run[w].pc = "next" /\ run[w].todo = {}
    /\ EndRun(w, IF "uncertain" \in statuses THEN "needs_review"
                 ELSE IF "pending" \in statuses THEN "cancelled"
                 ELSE IF statuses \cap skipped # {} THEN "completed_with_skips"
                 ELSE "completed")
    /\ UNCHANGED <<outside, engineVars, delayed, item, effect, writes>>

-----------------------------------------------------------------------------
Web ==
    \/ \E d \in Accounts :
        \/ \E unseen \in SUBSET Subjects : TakePreview(d, unseen)
        \/ Disconnect(d) \/ SignIn(d) \/ RequestDeletion(d) \/ EditPolicy(d)
    \/ \E p \in Previews, kind \in Kinds, batch \in SUBSET Subjects : Approve(p, kind, batch)
    \/ \E j \in Jobs : CancelJob(j)

Operator ==
    \/ \E on \in BOOLEAN : SetWrites(on) \/ SetMaintenance(on)
    \/ \E d \in Accounts, on \in BOOLEAN : SetAccountWrites(d, on)
    \/ \E j \in Jobs : Resume(j)

World ==
    \/ \E p \in Previews : ExpirePreview(p)
    \/ \E j \in Jobs : DelayOver(j)
    \/ \E d \in Accounts, s \in Subjects, observed \in Observation : ChangeRemote(d, s, observed)
    \/ \E d \in Accounts, s \in Subjects, v \in Verdicts : ChangeVerdict(d, s, v)

\* Every step of one worker that is its own code's doing.
Proceed(w) ==
    \/ \E j \in Jobs : Claim(w, j)
    \/ Preflight(w)
    \/ \E unseen \in SUBSET Subjects : Plan(w, unseen)
    \/ ReadFails(w) \/ StopItems(w)
    \/ \E s \in Subjects : SkipChanged(w, s) \/ StartItem(w, s)
    \/ Observe(w) \/ Reserve(w)
    \/ JournalCommits(w) \/ JournalReplies(w) \/ JournalFails(w)
    \/ LastGate(w) \/ RefusalCommits(w) \/ RefusalReplies(w) \/ WorkerError(w)
    \/ \E applied, answered \in BOOLEAN : Write(w, applied, answered)
    \/ Confirm(w) \/ Settle(w) \/ SettleFails(w) \/ DoubtCommits(w) \/ Doubt(w)
    \/ Finalize(w)

Next ==
    \/ Web \/ Operator \/ World
    \/ \E w \in Workers : Start(w) \/ Crash(w) \/ Proceed(w)

Spec == Init /\ [][Next]_vars

\* loop() polls forever, every call of the engine and the network ends by a
\* timeout, the service manager restarts a worker that stopped, and time passes.
FairSpec ==
    /\ Spec
    /\ \A w \in Workers : WF_vars(Start(w)) /\ WF_vars(Proceed(w))
    /\ \A j \in Jobs : WF_vars(DelayOver(j))


-----------------------------------------------------------------------------
Items == Jobs \X Subjects
Working(w) == run[w].pc \notin {"stopped", "idle"}

\* An approved item is sent to the network at most once, whatever crashes,
\* restarts, retries after 429, refusals at the gate and resumes come between.
AtMostOneWrite == \A j \in Jobs, s \in Subjects : writes[j][s] <= 1

\* The journal of the engine opens at most one attempt for an approved item: a
\* refused or interrupted attempt is never opened again under the same approval.
AttemptOnce == \A j \in Jobs, s \in Subjects : begins[j][s] <= 1

\* When a request leaves, its attempt is durable in every place the recovery
\* looks: journal, ledger, item, job and effect row all call it open.
WriteIsJournaled ==
    \A w \in Workers : run[w].pc = "writing" =>
        LET j == run[w].job
            s == run[w].subj
        IN /\ attempt[j][s] = "pending" /\ ledger[Did(j)][s] = "unresolved"
           /\ item[j][s] = "attempting" /\ status[j] = "running"
           /\ effect[run[w].slot] = [did |-> Did(j), status |-> "attempting"]

\* No request is sent for an account while an attempt of another batch on the
\* same account is open or was never resolved.
NoWriteOverUnresolved ==
    \A w \in Workers : run[w].pc = "writing" =>
        \A k \in Jobs \ {run[w].job} :
            Batch(k) # {} /\ Did(k) = Did(run[w].job) =>
                attempt[k][run[w].subj] \notin {"pending", "unresolved"}

\* An attempt whose outcome nobody proved keeps the account suspended: no later
\* plan may propose anything for it.
UnprovenSuspends ==
    \A j \in Jobs, s \in Subjects :
        attempt[j][s] \in {"pending", "unresolved"} => ledger[Did(j)][s] = "unresolved"

\* The ledger claims a mute only when a batch of this user wrote it and the
\* read-back proved it.
AttributionIsEarned ==
    \A d \in Accounts, s \in Subjects : ledger[d][s] = "attributed" =>
        \E j \in Jobs : /\ Batch(j) # {} /\ Did(j) = d /\ approval[j].kind # "release"
                        /\ attempt[j][s] = "confirmed" /\ writes[j][s] = 1

\* A mute is removed only if an earlier batch of the same user put it there.
ReleaseOnlyOwnMutes ==
    \A i \in Items : writes[i[1]][i[2]] > 0 /\ approval[i[1]].kind = "release" =>
        \E j \in Jobs : /\ Batch(j) # {} /\ Did(j) = Did(i[1]) /\ approval[j].kind # "release"
                        /\ attempt[j][i[2]] = "confirmed"

\* An item reported confirmed has exactly one request behind it and a journal
\* entry that agrees; an item still open has none confirmed behind its back
\* unless the process died while settling it.
ConfirmedIsJournaled ==
    \A j \in Jobs, s \in Subjects :
        /\ item[j][s] = "confirmed" => attempt[j][s] = "confirmed" /\ writes[j][s] = 1
        /\ item[j][s] \in {"pending", "skipped_changed", "skipped_cancelled"}
              => attempt[j][s] # "confirmed" /\ writes[j][s] = 0

\* The requests of a day never exceed the daily limits, per user and in all,
\* although a refused reservation gives its place back.
WritesWithinBudget ==
    LET sent == {i \in Items : writes[i[1]][i[2]] > 0} IN
    /\ Cardinality(sent) <= EffectsGlobalDay
    /\ \A d \in Accounts : Cardinality({i \in sent : Did(i[1]) = d}) <= EffectsPerDidDay

\* What is over stays over: a settled item is never reopened or rewritten, and an
\* uncertain outcome stays uncertain through every restart and resume; a finished
\* job is never taken up again, for only one paused by the operator or delayed
\* after a 429 comes back.
Settled == {"confirmed", "uncertain", "skipped_changed", "skipped_cancelled"}
Over == {"completed", "completed_with_skips", "needs_review", "failed", "cancelled",
         "awaiting_reconnect", "disconnected"}
SettledIsFinal ==
    [][/\ \A j \in Jobs, s \in Subjects :
             item[j][s] \in Settled => item'[j][s] = item[j][s]
       /\ \A j \in Jobs : status[j] \in Over => status'[j] \in Over]_vars

\* Every run of a job ends: no outcome of a call, no cancellation and no crash
\* leaves a job running forever.
RunEnds == \A j \in Jobs : status[j] = "running" ~> status[j] # "running"

\* The oldest waiting job is taken up unless the writes are closed meanwhile.
OldestIsTaken ==
    \A j \in Jobs :
        status[j] = "queued" /\ WritesOpen /\ (\A k \in 1..(j - 1) : status[k] # "queued")
        ~> status[j] # "queued" \/ ~WritesOpen \/ \E k \in 1..(j - 1) : status[k] = "queued"

-----------------------------------------------------------------------------
(***************************************************************************)
(* The pipeline keeps the promises of ApprovedEffects.  How far an effect  *)
(* is can be read off from the journal and the requests, the ground of a   *)
(* subject from the ledger.                                                *)
(***************************************************************************)
Asked == [j \in Jobs |-> [did |-> Did(j), kind |-> approval[j].kind]]
\* An effect has one request: a second one leads to no stage.
StageOf(entry, requests) ==
    CASE requests > 1 -> "repeated"
      [] requests <= 1 /\ entry = "none"      -> "untouched"
      [] requests <= 1 /\ entry = "confirmed" -> "proved"
      [] requests = 1 /\ entry \in {"pending", "unresolved"} -> "sent"
      [] requests = 0 /\ entry = "pending"    -> "open"
      [] requests = 0 /\ entry = "unresolved" -> "refused"
Stages == [j \in Jobs |-> [s \in Subjects |-> StageOf(attempt[j][s], writes[j][s])]]
Told(value) ==
    CASE value \in {"pending", "attempting"} -> "waiting"
      [] value \in {"skipped_changed", "skipped_cancelled"} -> "skipped"
      [] OTHER -> value
Reports == [j \in Jobs |-> [s \in Subjects |-> Told(item[j][s])]]
GroundOf(value) ==
    CASE value = "attributed" -> "ours"
      [] value = "unresolved" -> "suspended"
      [] value \in {"untracked", "released"} -> "theirs"
Grounded == [d \in Accounts |-> [s \in Subjects |-> GroundOf(ledger[d][s])]]
Muted    == [d \in Accounts |-> [s \in Subjects |-> remote[d][s].direct]]

E == INSTANCE ApprovedEffects WITH
        Batches <- Jobs, asked <- Asked, stage <- Stages, report <- Reports,
        ground <- Grounded, muted <- Muted

\* Whatever the worker, its crashes and its lost replies do, the effects of the
\* approved rows go the way ApprovedEffects allows, one at a time and step by step.
EffectsAsApproved == E!Spec
=============================================================================
