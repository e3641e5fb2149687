# Verification of ATProto ACL

TLA+ models of ATProto ACL, a service that mutes and unmutes accounts on an AT
Protocol network according to a policy its user wrote, with the TLC runs that
check them and the theorems TLAPS proves about them. Paths are relative to the
repository.

## 1. The system

One SQLite database (`app.db`), one engine database per user, one web process,
one worker process and short-lived Python children make up the hosted service;
the command line runtime shares the Python half.

| Part | Code | State it keeps | Operations |
| --- | --- | --- | --- |
| Action worker | `web/src/worker.ts` | `jobs`, `job_items`, the local variables of a run | recover, claim, run |
| Previews and approvals | `web/src/service.ts` | `policies`, `previews`, `approvals`, `jobs` | savePolicy, preview, approve, recheckUncertain |
| Gates and capacity | `web/src/controls.ts`, `web/src/ops.ts` | `service_controls`, `capacity_events` | writes, admissions, account-writes, resume; effect, acquisition and bridge leases |
| Journal and ledger | `src/atproto_acl/store.py`, `host_bridge.py` | `attempts`, `ledger`, `overrides`, `observations`, `cursors` | begin_action, finish_action, replace_overrides, add_evidence |
| Planner | `src/atproto_acl/adapters.py` | none | plan_action |
| Policy evaluator | `src/atproto_acl/policy.py` | none | compile_policy, evaluate |
| Bridge scheduler | `web/src/engine.ts` | queue and active calls of a process | schedule, start, drain, spawn |
| Account rules | `web/src/service.ts:39-263` | `account_rule_sets`, import drafts | accountRules, setAccountRule, projectAccountRules, confirmImport |
| OAuth custody | `web/src/oauth-custody.ts` | `oauth_locks`, `oauth_sessions`, `oauth_refresh_intents` | lock, get, set, del, fetch |
| Admission | `web/src/admission.ts` | `invites`, `oauth_attempts`, `admissions` | createInvite, begin, complete |
| Deletion | `web/src/privacy.ts` | `account_deletions`, the tombstone database | requestDeletion, completeDeletion, reconcileRestore |
| Backup | `deploy/backup.py` | the maintenance flag | begin_maintenance, copies, end_maintenance |
| Acquisition | `web/src/service.ts` acquire, preview, yieldReport, `oauth.ts`, `feed-exposure.ts` | none beyond a call: its discovery rows and request budget | sample, relationships, observe |
| Discovery | `src/atproto_acl/labels.py`, `sources.py`, `network.py` | label cursors, evidence | discover, collect |
| Command line | `src/atproto_acl/runtime.py`, `cli.py` | the engine database | prepare, execute |
| Pages, packaging | `web/src/server.ts`, `html.ts`, `deploy/` | none of their own | routes, rendering |

The web process and the worker share only the databases. Each call of the engine
is a child process that opens the engine database of one account, commits one
transaction and exits; its reply may be lost while the transaction stays. The
worker's request to the network may be applied, not applied, or applied without
an answer. Any process may die between two of these steps and is started again.

What makes the parts correct:

* worker: an approved item is sent at most once; nothing is sent that was not
  approved as it stands now; an outcome nobody proved stays open and stops later
  plans; only mutes proven to be the user's own are released; every run ends;
* capacity: requests stay within the daily limits and waiting items within the queue;
* maintenance window: a backup copies while nothing works, every call ends, and a call
  that ended leaves no row a later one waits for;
* acquisition: a reading called complete covers what the policy asks for, an account is
  only called known, muted or followed on an answer, and no reading exceeds its budget;
* bridge: no call starves while slots are free, and concurrency limits hold;
* account rules: the engine never decides on rules the database has replaced;
* custody: one refresh per token, and no session returns after it was removed;
* admission: one admission per invite and per sign-in state;
* deletion: once completed, nothing of the account comes back with a restore;
* evaluator: no missing evidence can turn a doubtful subject into a conclusive one;
* command line: nothing is lost behind the discovery cursor, a write rests on what still
  holds when it is made, and its requests for a subject never overlap.

## 2. Modules

| Module | Models |
| --- | --- |
| `HostedJobs` | previews, approvals, gates, capacity, the worker's run, journal, ledger, network |
| `ApprovedEffects` | what the pipeline promises of an approved row, without its worker and its databases |
| `MCHostedJobs` | `HostedJobs` with two history variables for TLC |
| `HostedJobsProofs` | theorems about `HostedJobs`: types, single requests, journal, ledger, outcomes, limits, late requests, and that it implements `ApprovedEffects` |
| `Bridge` | the scheduler of both processes and the leases they share |
| `MCBridge` | values for `Bridge` |
| `BridgeProofs` | the theorems about `Bridge` |
| `MaintenanceWindow` | every writer of `capacity_events`, and the backup that waits for them |
| `FeedSampling` | exposures, lineages, retention and the request plan, without state |
| `FeedReading` | one network reading: feeds, relationships, profiles and mutes under one budget |
| `Acquisition` | `MaintenanceWindow` with one call whose reading is `FeedReading`, and what is stored of it |
| `MCAcquisition` | calls, feeds and bounds for `Acquisition` |
| `FeedProofs` | lemmas about the operators of `FeedSampling`, for feeds of any length |
| `AcquisitionProofs` | the theorems about `MaintenanceWindow` and `Acquisition`, and that the second implements the first |
| `AccountRules` | revisioned rules, their projection to the engine and imports, on top of `Bridge` |
| `MCAccountRules` | values and symmetry for `AccountRules` |
| `AccountRulesProofs` | the theorems about `AccountRules`, and that it uses `Bridge` as specified |
| `OAuthCustody` | the stored OAuth session of one account and the calls that refresh, replace and remove it |
| `MCOAuthCustody` | values and symmetry for `OAuthCustody` |
| `OAuthCustodyProofs` | the theorems about `OAuthCustody` |
| `AccountLifecycle` | admission, invites, the callback, disconnection, deletion, the deletion ledger, backups and restores |
| `MCAccountLifecycle` | symmetry for `AccountLifecycle` |
| `AccountLifecycleProofs` | the theorems about `AccountLifecycle` |
| `PolicyEval` | the evaluation of a policy for one subject, without state |
| `CliRuntime` | label discovery, collection, evaluation and the mutes and releases of the command line, on top of `PolicyEval` |
| `MCCliRuntime` | policies for `CliRuntime` |
| `CliRuntimeProofs` | the theorems about `CliRuntime` and the evaluation of a policy |

### HostedJobs

One action is one database transaction, one engine call or one network request,
with the synchronous code that follows it; everything else interleaves.

| Variable | Stands for |
| --- | --- |
| `preview`, `approval`, `status`, `cancel`, `delayed`, `item` | `previews`, `approvals`, `jobs` (with `cancel_requested` and `available_at`), `job_items` |
| `user`, `gate`, `effect` | `users`/`admissions`/`policies`/`account_deletions`, `service_controls`, effect rows of `capacity_events` |
| `ledger`, `attempt` | `ledger.status` and `attempts.status` of the engine databases |
| `remote`, `verdict` | the moderation state on the network; what policy and evidence conclude |
| `run` | the program counter and local variables of each worker's `run()` |
| `moves`, `begins`, `writes` | a bound and two histories |

A job is named by its position in `created_at` order and a subject by its position
in `ORDER BY subject`, so the oldest job and the next item are minima.

Data are abstracted as follows. A preview row is what `plan_action` looked at
(verdict, observation, ledger status), and its fingerprint is the row itself: the
digest covers all of it. The verdicts `held` and `clear` stand for the outcomes
that never and possibly lead to a release. An observation keeps `known`, a direct
mute and the follow relationship; other mute shapes and blocks behave like a mute
that was there before. The policy uses `followed: review`. Times are flags that
change once: a preview expires, the delay after 429 ends. The day of the effect
limits does not pass within a behaviour, which only makes the limits tighter.
Reading the network and planning are one instant.

The step names of `run` follow `run()`: `claimed` (preflight, 100-130), `planning`
(131-154), `next` (155-173), `observing` (174-187), `reserving` (198-212),
`journaling` and `journaled` (213-224: the engine commits, then its reply
arrives), `begun` (the last gate, 225-229), `refusing` and `refused` (229-235),
`writing` (236-238), `confirming` (239), `proven`/`unproven` (240-247),
`doubtful` (the catch block, 248-249) and `doubted` (its engine call has committed; the
item is still to be marked, 250-253). Each engine call that can commit without
its reply reaching the worker has both outcomes.

`ApprovedEffects` says what this comes to for the user. An effect is one approved
subject of one batch; it is `untouched`, `open`, `refused`, `sent` or `proved`, and its
subject is the network's (`theirs`), the service's (`ours`) or `suspended`. It is opened
on the ground its kind needs, sent once and within the day's limits, proved or left
suspended; a report to the user is given once and never says more than was done. There
is no worker, no crash and no lost reply in it. `HostedJobs` implements it
(`EffectsAsApproved`) under this reading of its state:

| `ApprovedEffects` | `HostedJobs` |
| --- | --- |
| `asked` | account and kind of `approval` |
| `stage` | `StageOf` the attempt and the requests sent: a pending attempt is `open` until its request, `sent` after it; an unresolved one without a request was `refused`; a second request has no stage |
| `report` | `Told` the item: pending and attempting items are `waiting` |
| `ground` | `GroundOf` the ledger status |
| `muted` | the direct mute on the network |

A lost reply, a crash or a recovery is then a step that changes nothing or only answers
(`Answered`). One thing the code does had to be promised explicitly: `Withdraw`.
`engine.finish` may record a proof without its reply reaching the worker, and the catch
block then records the same attempt as unproven, so a proof is taken back. The user was
not told of it by then, and no release rests on it, because a release is begun only
after a later plan of the same worker.

### Bridge

The state of `Engine` in each process (`active`, `activeByKey`, the queue) and the
`bridge` rows of `capacity_events` that all processes share. A call is `idle`,
`queued`, `running` or settled; `Issue` is `call` and `schedule`, `Close` the end
of the child with `start`'s finally block, `DrainOne` and `DrainEnds` the loop of
`drain`, `Return` the continuation of the caller, and `Continue` that of a caller which
makes its next call in the same turn, as the requests of the account rules do.

A process runs one macrotask at a time. Between the end of a child and the
continuation of its caller it does nothing else (`Quiet`, `draining`), but the
lease transactions in that stretch are steps of their own, because the other
process interleaves with them. `begin` refuses for the limits or for maintenance;
the exemption of maintenance looks at other tables, so a refusal is always
possible. A call whose `lease.finish` fails with the database in that finally block
(engine.ts:101) would keep its place in the counters; database errors are not modelled.
A lease row outlives the process that wrote it and expires after 15
minutes; a live child is killed after two, so only rows without a live call expire.

### AccountRules

The rules of one account, composed with `Bridge` (`B == INSTANCE Bridge WITH Calls
<- Requests`): every engine call of a request is scheduled, queued, leased and
answered there.

| Variable | Stands for |
| --- | --- |
| `row` | `account_rule_sets`: `revision`, `rules`, `projected_revision`, `projected_hash` (the rules it stands for) |
| `mirror` | `overrides` in the engine database |
| `req` | the point a request has reached, and its local `rules` and `revision` |
| `done` | the running children whose engine transaction is committed |
| `orphans` | replacements that children of a dead process may still commit |
| `draft` | `policy_import_drafts` of the account, with the rules its page showed |
| `answer`, `acked`, `overslept` | histories: the context just handed to a preview; the latest change answered as saved; a process stood before its next queued call when a child of the other one ended |

A request is a page that needs a context (`portableContext`), a change
(`setAccountRule`), an import draft or its confirmation; the worker's re-plan is a
context as well. `Read` is `accountRules` from its first query to its first wait;
`Listed`, `Repaired`, `Saved`, `Drafted` and `Previewed` are the continuations
after the engine's answer, each with all it does up to the next wait. A child
commits (`Act`) before it answers (`Reply`), so a killed or failed child may have
replaced the rules or not. A rule set stands for its hash; handles, which no hash
covers, and the policy an import saves with the rules are left out.

Three things the model shows about what is *not* promised.

* A context of the worker may be of a revision that the web process has replaced and
  projected while the worker's own projection was ending: `AckedIsSeen` is about web
  requests, and the worker compares whole rows with the approved ones anyway.
* `MirrorFaithful` needs one bridge call per account at a time, the default: with
  `ATPROTO_ACL_BRIDGE_CONCURRENCY_PER_DID=2` (`config.ts` allows 1 to 8), TLC finds two
  projections that reach the engine in the wrong order, and the row then calls projected
  what the engine does not hold. This is the hypothesis of the theorem.
* Even then a process may stand between giving back the lease of one call and starting
  the next one of its queue (engine.ts:105-119, where `begin` may have to wait for the
  database). If a child of the other process comes and goes meanwhile, that child may
  have projected a newer revision than the queued call, which then overwrites it:
  `replace_overrides` compares no revisions (store.py:135). The row is marked for the
  newer revision until the next projection repairs the engine. With three web requests
  TLC finds this; the attempt to prove `MirrorFaithful` led to it. `overslept` records
  that it may have happened, and both properties speak of executions where it did not.

### OAuthCustody

The three tables of `oauth-custody.ts` for one account, and the calls of several
processes that reach them through the official client.

| Variable | Stands for |
| --- | --- |
| `session`, `intent`, `lock` | the row of `oauth_sessions` (its refresh token), of `oauth_refresh_intents` (the predecessor) and of `oauth_locks` (its owner) |
| `call` | what each caller does: its step, whether it restores for use, for a disconnection or signs in, the token it holds and the one it was given |
| `grants`, `valid` | the issuer: sign-ins so far and the refresh tokens it accepts |
| `sent`, `removed` | histories: how often a token was presented; a disconnection cleared the session and nobody signed in since |
| `fault` | the faults of the execution |

A token is a pair: the sign-in it descends from and its turn. `Acquire`, `GiveUp`,
`Expire` and `Leave` are the lock, `Read`, `Keep`, `Accept`, `Discard`, `Revoke` and
`Clear` the store, `Match` and `Intend` the wrapped fetch. `Consume`, `Answer`,
`Refuse` and `Lose` are the issuer and the network; that an unstored session is
revoked and deleted is the official client's doing (docs/oauth-session-custody.md:14-15).
An access token may be good or stale at every read. Malformed rows are left out:
both `get` and `set` refuse them.

`Match` and `Intend` are two statements of one synchronous turn. A process runs
nothing else between them, so no other step happens there, except in executions with
the fault `split_turn`, where another process commits in between. With `late_lock` a
call outlives the 45 seconds of its lock row. `FaultsKnown` admits either fault, not
both in one execution: the lock alone and the intent alone each keep a token from
being presented twice, and with both defeated at once `RefreshOnce` fails.

`SignInHeals` shows what a split turn costs: the intent is then recorded for a
session that is no longer stored, and the next sign-in is refused by `set` once. The
property therefore speaks of executions without that fault.

### AccountLifecycle

How an account arrives and how it leaves, and what it leaves behind.

| Variable | Stands for |
| --- | --- |
| `row` | the `users`, `oauth_sessions`, `admissions` and `capacity_events` rows of each account, with the time each was written |
| `deletion`, `invite`, `job` | `account_deletions` (the mode), `invites` (open, or the account that redeemed it), the batch of the account |
| `attempt` | `oauth_attempts` (`live`) and the official client's `oauth_state` (`open`) |
| `engine` | the engine database of the account: absent, without or with attributed mutes |
| `tombstone` | the deletion ledger: the days each deletion is still retained |
| `backup` | the generation that may be restored |
| `request` | the step each request of the web process has reached |
| `worker` | the worker's step, its account, and whether its batch row was erased under it |
| `service`, `downDays` | the web process: up, down, or stopped with restored data; since when |
| `deletions` | the clock: the deletions each account has seen |

Time is what `reconcileRestore` asks of it, whether a row is older than the recorded
deletion. A row therefore carries the number of deletions its account had seen when it
was written; equal timestamps are not modelled. Days pass only for the ledger and the
generations, and not within a request or an attempt, which last minutes.

The web process runs a handler up to its next wait as one action. A callback is
`Exchange` (the client spends its state and stores the session), `Complete`,
`RestoreSession`, `SignIn`; a deletion is `RequestDeletion`, `DeleteSession`, then
`WriteTombstone`, `PurgeRows`, `RemoveEngineState`, which no other handler interrupts
(`Free`) but a crash, the worker and the backup do. A restore is `Crash`, `Restore`,
`Start`: start-up migrates the allowlist and reapplies the ledger before it listens, and
repeats both after a crash in between.

Left out or merged: gates are open, and a freeze of admissions is a refusal that is
always possible; the maintenance flag is the wait `Drained` of `Snapshot`; an invite
`none` is expired, purged or not yet made, and a job `none` is finished, cancelled or
refused; web sessions and the `connected` flag are abstracted to the `users` row, which
admits more requests than the code; attempts in a generation have expired when it is
restored; audit and refresh-intent rows are purged and looked for like the others.

What the model shows is *not* promised: that nothing of the account is left. A preview
that passed its check before the deletion makes the engine database and a capacity row
again after the deletion was answered (service.ts:507), and a crash between the purge
and the removal of the engine file leaves the file with no row that would make it a
candidate (privacy.ts:166-168). `DeletionHolds` is about rows older than the deletion.
And a person who signs up again is safe from the tombstone only once the `users` row
is there: a restart before that erases the new admission (privacy.ts:201-205), with
the invite it used, so the tables still agree. From then on `NewConsentStays` says that
nothing but another deletion of theirs, or an older generation, takes it away.

### MaintenanceWindow

The calls that hold rows of `capacity_events` (a preview, a feed measurement, a
journaled effect), the transactions of `controls.ts` on those rows, and the backup.

| Variable | Stands for |
| --- | --- |
| `at`, `how` | the awaited step a call has reached (`Plan`, one sequence for each kind), and whether it is about to take it, waits for a lease, is inside a Python process, or ended |
| `lease`, `bridge` | its acquisition or effect row and its bridge row |
| `report`, `polls` | the `yield_reports` row of a measurement; the polls left to a waiting call |
| `flag`, `backup` | `service_controls.maintenance_enabled`; where `backup.py` is |
| `purged` | the accounts whose deletion was completed |
| `late` | history: the call got its lease while the flag was up |

`AskAdmission` and `TakeLease`, and `Poll` and `Claim`, are two steps each because
`beginAcquisition` and `claimAcquisition` read the controls before they open their
transaction (controls.ts:84, 106). `EngineBegins` admits, while the flag is up, the
accounts whose work is being drained; `EngineEnds` and `Ends` are the finally blocks.
`ProcessDies` ends every call of the web process or of the worker and leaves their rows;
`Purge` takes the rows of an account whoever still runs. The backup raises the flag, sees
that no row is left or gives up, copies `app.db`, then the engine databases, and lowers
the flag; `BackupDies` ends it anywhere before.

A draft preview takes the steps of a preview that misses nobody. Starts per hour and
effects per day are refusals that are always possible (`HostedJobs` counts the effects);
rows of `Left` calls grow old at any time. A call that does not end by its return or
its catch is `escaped`: an effect whose `engine.finish` failed twice, and the
measurement of an account erased before it got its lease.

What the model shows is *not* promised:

* docs/hosting.md:66-69 has the backup refuse new work and then wait for what is
  active. A preview that passed its admission check before the flag was raised may
  take its lease after the backup saw none, and with it an account's engine calls.
  `WindowIsQuiet` therefore excepts the accounts of such a call, and accounts erased
  under a running call, whose rows no longer count.
* Only running acquisition rows are aged (controls.ts:86). The waiting row of a process
  that died is never deleted and keeps its place in the queue.
* A measurement that dies is not taken up again: its report is `running` until the
  next start of the web process marks it `interrupted` (server.ts:196, db.ts:137-150),
  which the model does in the step in which the process dies.
* A measurement whose account is erased before its lease is granted throws between the
  lease and the finally block that would release it (service.ts:552-563); the row is
  aged.
* A backup that is killed leaves the flag up, and an effect left `attempting` makes
  every later backup give up, both until an operator acts.
* The engine databases are listed after the flag is up and copied one by one
  (backup.py:98-104); an account erased in between makes that backup fail.

### FeedSampling, FeedReading and Acquisition

`FeedSampling` is pure: `Extract` and `Retained` turn posts into discovery items and
exposures under the limits of `feed-exposure.ts`, `Lineage` and `Attention` decide which
thread an item belongs to, `ObservationPlan` divides what is left of the budget between
profiles and mute pages. A post is its author, its quotes, whether its own URI is one of
a post, and what its record and the service say it replies to. The quotes of a post are
one chain, each embedding at most the next: the code also walks records with several
embeds (feed-exposure.ts:180-184), entry by entry under the same limits and marks. `LineageIsDeclared` compares `Lineage` with a reference
definition on every combination of these (the assumption `LineageCases`).

| Variable | Stands for |
| --- | --- |
| `phase`, `input` | how far `acquire` is; the feeds and named accounts it was given |
| `rows`, `page` | the discovery rows of the feeds read; the feed being read |
| `requests`, `plan` | `client.requestCount()`; what `observe` may spend |
| `pool`, `found`, `mutes` | the batches under way and answered; the profiles returned; the task that reads the mute list |
| `relation`, `remote` | what the reading says of each account |

Every request is answered or fails in any order. A failure of a page ends its feed and
leaves the row incomplete; a relationship reply that is malformed leaves its accounts
unknown; `observe` stops at what its plan allows. `Follows` and `Mutes` stand for the
network, which does not change during one reading.

`Acquisition` extends both: `reader` is the one call whose reading is followed, all
others read in one step (`ReadAtOnce`). `LookUpMissing` is the second observation of a
preview, for the accounts only the ledger names, and `ScopeCovered` is the engine's
`set_completeness`. `CompleteIsEarned` is its reference: what was asked of the network
is compared with what was read, without looking at what the code marked incomplete.

Left out: the follows, timeline and leaderboard sources; fixtures; the re-use of an approved sample; `quench-observation.ts`, an
analysis of a finished sample; `artifact-check.ts`.

### PolicyEval and CliRuntime

`PolicyEval` is `evaluate` and what it calls. A predicate is the sequence of its nodes,
children first, so that its truth is a recursive function of a position; a set of
observations stands for the sequence, because `_leaf` looks only at the newest ones and
tells equal ones apart by their id. `DecisionIsEarned` is its reference definition: a
decision that justifies a consequence, made on partial answers, is compared with the one
on everything published by then.

`CliRuntime` is one subject, the publishers and the command line program, which is one
process at a time because every command takes the state lock.

| Variable | Stands for |
| --- | --- |
| `published`, `remote`, `clock` | what each publisher serves, in its order; the subject's mute on the network; time |
| `observations`, `cursor`, `discovered`, `overrides`, `ledger`, `saved` | the tables of `store.py`; of the receipts, one with a release candidate |
| `pc`, `mode`, `rules`, `coverage`, `row` | the step of a run and its local variables |
| `world`, `standing` | histories: all that was published when the run collected; whether a mute of the runtime's may stand |

A run goes through `page`, `subjects` and `cursor` (the three commits of a page of
`discover`), `collect`, `evaluate` (the observation, `build_receipt` and the checks of
`execute` up to its loop), `write` (the second observation and evaluation), `request` and
`confirm` or `doubt`. `Crash` falls between any two of them. A page holds one label.
Collection is one step: one publisher is asked after the other, but what one says after
its turn counts as said after the collection, and a run killed in the middle has stored
what a run with failed reads stores. What the run was asked to do and its policy are
chosen where they are first looked at.

Left out: the other account sources and subjects, and so the rest of a batch whose write
raised (runtime.py:188); measurements and fixtures, which never enforce; `--now`, which
only a preview takes; identity pins. A mute that is scoped, by a list, or a block is
`other`.

What is *not* promised: that a release candidate would be one on complete answers. In a
positive condition of a quarantine an expired or withdrawn label counts as absent although
a newer label may be missing from a partial read (policy.py:267, 276), so
`DecisionIsEarned` speaks of the two bases that rest on a matching rule. A release is
reviewed by a person.

## 3. Runs

| Run | Module, cfg | Asks | Bounds |
| --- | --- | --- | --- |
| `hosted_batches` | `HostedJobs`, `HostedBatches.cfg` | `AtMostOneWrite`, `AttemptOnce`, `NoWriteOverUnresolved`, `UnprovenSuspends`, `AttributionIsEarned`, `ReleaseOnlyOwnMutes`, `ConfirmedIsJournaled`, `EffectsAsApproved`, `OldestIsTaken` | one account and subject, two previews and two jobs, so that a release follows an apply, a second apply meets an open attempt, and a job that was delayed or put back competes with a new one; two disturbances |
| `hosted_items` | `MCHostedJobs`, `HostedItems.cfg` | `WriteIsJournaled`, `LateWritesBounded`, `WritesWithinBudget`, `SettledIsFinal`, `RunEnds` | two accounts, two previews and jobs of up to two items, two effects a day, two disturbances. `InScope`: while nothing is disturbed the accounts share the limits and the worker, so approvals outnumber what may be sent; from the first disturbance on the batch of one account is followed, so that stops, crashes and delays fall between its items |
| `hosted_halt` | `MCHostedJobs`, `HostedHalt.cfg` | violates `NoUnaskedResume` | one job |
| `bridge` | `MCBridge`, `Bridge.cfg` | `CountsMatch`, `NoIdleWait`, `ChildLeased`, `NoOvertaking`, `Answered` | five web calls with three keys and one worker call, two slots, one per key, queues of two: a call is skipped, a queue overflows, a lease is refused inside a drain |
| `account_rules` | `MCAccountRules`, `AccountRules.cfg` | `MirrorFaithful`, `AckedIsSeen`, `NoLostChange` | two web requests, one of the worker, two rules, two changes, imports or crashes: a change, a competing one and a crash between a commit and its mark |
| `account_rules_import` | `MCAccountRules`, `AccountRulesImport.cfg` | violates `ImportAsShown` | one request |
| `oauth_custody` | `MCOAuthCustody`, `OAuthCustody.cfg` | `RefreshOnce`, `SpentIsMarked`, `SignInHeals` | three callers, two sign-ins, two turns of each; late locks or split turns: two refreshes overlap while a third caller removes or replaces the session |
| `oauth_late_return` | `MCOAuthCustody`, `OAuthLateReturn.cfg` | violates `StaysRemoved` | two callers, no fault |
| `lifecycle_deletion` | `MCAccountLifecycle`, `LifecycleDeletion.cfg` | `DeletionHolds`, `NoWriteAfterErasure`, `ReleasesReviewed`, `NewConsentStays` | one account of the allowlist, one attempt, two requests, the worker, one deletion; a generation lives one day, the ledger two, a restore takes up to one: every point of a deletion meets another request, a batch, a crash and a restore |
| `lifecycle_admission` | `MCAccountLifecycle`, `LifecycleAdmission.cfg` | `InvitesMatchAdmissions` | two accounts, two attempts, one invite, one request, one deletion each, no generation: two callbacks race for the invite while accounts leave and return |
| `cli_runtime` | `MCCliRuntime`, `CliRuntime.cfg` | `DecisionIsEarned`, `MuteHasStanding`, `RequestsAlternate`, `NoGap` | two publishers with one label each, two labels published, two times, two policies, the `allow` override: a label and what withdraws it, or the labels of both publishers, with expiry in between |
| `acquisition` | `MCAcquisition`, `Acquisition.cfg` | `WindowIsQuiet`, `EndedHoldsNothing`, `StandingIsEarned`, `BudgetSuffices`, `CompleteIsEarned`, `AllEnd` | a preview and a measurement of one account, an effect of another; one acquisition at a time with a queue of one and one poll, two bridge rows; six readings: two pages with a limit below what the feed holds, more exposures than are kept, two feeds with a quote too deep and a source that comes short, unreadable records, a reply that does not say its thread, a post with an unusable URI of its own; seven of nine requests may be spent before the first source |

A disturbance (`MaxMoves`) is a crash, a cancellation, a disconnection, a deletion
request, a policy edit, a change of a gate, the expiry of a preview, or a change of
the network or of the evidence; failing calls and lost replies are not limited.
Two are enough for every pair that matters here: a crash and a change between the
approval and the repetition it could cause. Deadlock is not checked, because the
service does come to rest: all previews and jobs of the bound are used up and the
worker polls an empty queue.

In `AccountRules` `MaxChanges` limits changes, confirmed imports and crashes
together, and `LeaseExpires` waits until the children of a dead process are gone
(a replacement takes seconds, a lease 15 minutes). Reads, projections and failures
are not limited. The two web requests and the two rules are interchangeable, which
the run uses as symmetry; it checks no liveness.

In `OAuthCustody` crashes, lost answers, restores and removals are not limited, only
sign-ins and the turns of a token, and callers are interchangeable. It has no
liveness property: the client gives up rather than retry.

In `AccountLifecycle` only deletions are limited; crashes, restores, days, batches and
failures are not. Accounts, attempts and requests are interchangeable. A restore
concerns each account by itself, so the run with the generations has one account and
the run in which accounts compete has none. The first run takes the allowlist, so that start-up also migrates a user
whose sign-in ended after its erasure; the second takes invites. The retention times of the first run are
the code's in small: with 30 and 31 days a restored service may stay down for a day.
It has no liveness property: nothing makes a user finish a sign-in or retry a deletion.

In `CliRuntime` runs, crashes, overrides and changes elsewhere are not limited. The two
policies hold every operator, a negation inside a quarantine and a double negation inside
an allow, and the age of a rule. It has no liveness property: a person starts each run.

In `Acquisition` deaths, erasures, backups and failed requests are not limited. `InScope`
says that two of the three calls take part in an execution, that an account is not
erased in one in which a process dies, and that a reading is followed in detail when
its call is alone and undisturbed. A reading shares no state with the window other
than the step that begins it and the one that ends it, which `AcquisitionImplementsWindow`
states, so a disturbance of a followed reading would show nothing that it does not do
to a reading in one step. The bound cuts only steps nobody owes: a call that begins, a
reading that is followed, a death, an erasure, a backup that begins.

Fairness of `HostedJobs` (`FairSpec`): each worker's own steps and its restart are weakly fair and
a delay ends. `loop()` polls forever, `spawn` kills a child after its timeout, the
network client has a bounded budget, and the service unit restarts a worker that
stopped. Nothing is assumed of users, operators or the network. Fairness of
`Bridge`: the event loop goes on (`Turn`, weakly fair), and the end of a child,
whose event waits while other macrotasks run but is not lost, is strongly fair. Fairness
of `Acquisition`: each call that has begun proceeds, and so does the backup. Requests,
engine processes, the queue's deadline and the backup's wait all have timeouts; nobody
has to begin a call or a backup, and a backup that was killed does not proceed. Its
calls come to rest, so deadlock is not checked for it.
Deadlock is checked for `Bridge`, `AccountRules`, `OAuthCustody`, `AccountLifecycle` and
`CliRuntime`.

### Where the code and its documents differ

* `hosted_halt`: docs/hosting.md:38-39 promises that closing the write gate pauses
  the remaining work until each job is resumed. Only queued jobs are paused; a
  running one that meets a 429 is queued again behind the closed gate and runs
  when the gate opens.
* `account_rules_import`: docs/portable-policy.md:28-30 promises that an import shows
  its account-rule changes and requires their confirmation. `confirmImport` checks
  the policy's revision against the draft but not the rules': a rule changed after
  the page without having been shown.
* `oauth_late_return`: server.ts:446 tells the user after a disconnection that the app
  can no longer read feeds or change mutes. The disconnection clears the session
  without the lock when a refresh has held it for 15 seconds; the intent goes too, so
  the refresh finds nothing to compare itself with and stores its new, unrevoked session.

## 4. Proofs

`HostedJobsProofs` proves, for every value of the constants that satisfies
`ConstantsAssumption`:

* `TypeCorrect`: `Spec => []TypeOK`. `TypeOK` is inductive because it contains
  `LocalOK` (each step of a run has its local variables) and `ApprovedOK` (a job
  that runs was approved); without them the updates `[run[w].job]` are untyped.
* `NeverSentTwice`: with one worker process, `Spec => []AtMostOneWrite`. That a
  request is not repeated is not inductive. `WriteInv` adds `Unsent` (an item
  still pending has had no request) and `InHand(w)` (from the observation of the
  item to its mark, the item in hand is pending; at `writing` it is attempting
  and has had no request). Every action keeps the three: `SkipPending`, `Recover`
  and `Settle` only move items away from pending, the refusal returns an item to
  pending before any request, and no other worker touches the item, which is where
  the hypothesis `OneWorker` is needed: `recover` requeues running jobs whoever runs them
  (worker.ts:50), so a second worker would take the job of the first.

With one worker, every other invariant and action property of the hosted runs is proved. Seven invariants follow from one inductive invariant, `JournalInv`,
which holds next to `TypeOK` and `WriteInv`:

* `Running`: the row of the job a run works on says so. A resumption or a cancellation
  then never meets the job in hand.
* `Books`: item, attempt, `begins` and requests of one approved row agree. It is what
  `AttemptOnce` and `ConfirmedIsJournaled` are read off from.
* `UnprovenSuspends` itself, which is inductive only with the parts below.
* `Ahead`: the plan of a run still says what the ledger says of every item ahead, up to
  the journaling of the item in hand. Between the plan and `begin_action` other steps
  may change the network but, with one worker, not this ledger: so an item the plan
  proposed is not `unresolved` in the ledger when its attempt is opened, which gives
  `NoWriteOverUnresolved`, and an attributed one is still attributed.
* `InWork`: the item in hand was proposed, has its effect row from its reservation on,
  and from its journaling on the only open attempt of the account on this subject. It
  is the link between program counter, journal and network (`WriteIsJournaled`).
* `Attributed` and `Released`: an attributed entry has a proved mute of the same user
  behind it, and a release that was sent had one (`Earned`). A proof does not go away
  while nobody changes its entry, and the entry in hand is excluded (`Held`) because
  the engine's commit and the worker's settlement are two steps.

`SettledIsFinal` is an action property of the same invariant (`OutcomesStay`).
`WritesWithinBudget` needs its own: reservations are given back, so the rows are not a
count of the requests. `Paid` says that an injection maps every request sent to a row
that is not free and that no run may still give back; `Limits` bounds the rows; then
the requests are at most as many. `LateWritesBounded` is proved of `HistorySpec`, the
specification with its history variables and without the bounds of the runs: once a
batch sent its late request no item of it is in hand before its request (`LateInv`), and
the loop of `run()` takes up no other because a request to stop is never taken back.

`PipelineKeepsPromises` proves, with one worker, that `HostedJobs` implements
`ApprovedEffects`, for every value of the constants. What `ApprovedEffects` promises is
proved of it once (`EffectsPromised`), and `OneEffectAtATime`, `OwnMutesReleased` and
`PromisesHold` then state it of the pipeline:

* at most one batch of an account has a begun and unproved effect on a subject, and the
  ground is `suspended` exactly so long. Both directions are needed at once: a subject
  that is not suspended has no begun effect, which is why `Open` may begin one;
* what is `ours`, and whatever a release was begun on, rests on a proved mute of the same
  account. `Withdraw` keeps this only by its third condition;
* the queue, the day's limits and the reports hold in every state.

The refinement needs `EffectInv` next to `TypeOK`, `WriteInv` and `JournalInv`:

* `Opened`: an item that is marked attempting, uncertain or confirmed has an attempt.
  With `Books` it makes every change of an item a true answer (`AnswersFollow`), so the
  many steps of the worker that leave journal, ledger and network alone are steps of
  `Answered` at once (`CalmAnswers`).
* `LastWord`: when the catch block finds the attempt confirmed, the ledger still says
  what that proof made of it. So what is withdrawn is the ground the proof left.
* `ReleasesRest`: a release that was begun rests on a proof that no run has in hand, so
  the proof withdrawn is never the only one under a release.

The other steps change one effect and the ground of its subject (`HandMoves`):
`OpenStep`, `RefuseStep`, `SendStep` and `OutcomeStep` say which of the promised steps
each is. `OpenStep` uses `Ahead` (the ledger still is as planned) and `SendStep` uses
`WritesWithinBudget` of the next state. The refinement does not say that an effect is
journaled once (`AttemptOnce`), that a request left a trace in every table
(`WriteIsJournaled`) or how many requests follow a cancellation: nobody outside sees
the first two, and to the promised service a cancellation is only an answer.

`BridgeProofs` proves, for every value of the constants that satisfies
`BridgeAssumption` (finitely many calls, positive limits, keys that are either an
account or a system name), every safety property of the `bridge` run:

* `TypeCorrect`, with the depth of the queues.
* `WaitingIsListed`: `WaitingOK`, the strengthening most others need. `Listed` says
  that a queue holds waiting calls of its own process, each once; `Found` that every
  waiting call is in a queue. Without it nothing is known of the call a drain starts.
* `NothingWaitsForRoom` (`NoIdleWait`) is inductive by itself: a step that makes room
  sets `draining`, every other step only takes room, and the drain ends when nothing
  in the queue has room.
* `ChildrenAreLeased` (`ChildLeased`) needs `TokensOfChildren` (only running calls of
  accounts refer to rows), so that a free row is nobody's.
* `LeasesWithinLimits` (`LeaseLimits`), and from both `ChildrenWithinLimits`: the
  calls running in all processes are mapped injectively to rows, so the limits on
  rows limit them.
* `PlacesAreKept` (`CountsMatch`).
* `CallsStartInOrder` (`NoOvertaking`): a call that starts at once finds, by
  `NoIdleWait`, no earlier one of its key; one that starts from the queue was the
  first with room, and those of its key have the same room.

`StepCases` names the kinds of steps once and `NextCases` proves that there are no
others; each preservation lemma has one step per kind.

`OAuthCustodyProofs` proves, for any number of callers, sign-ins and turns, every
invariant of the `oauth_custody` run. Besides `TypeOK` the inductive invariant has two
parts:

* `History` says what a token has been used for: a token that a call was given and has
  not stored is nobody else's (`FreshIsUnused`), the issuer accepts only the newest
  token of a sign-in (`ValidIsNewest`), and tokens that do not exist yet are unknown
  (`LaterIsUnknown`). With it `SpentIsMarked` is inductive (`SpentSessionsAreMarked`):
  storing is the only way a mark disappears, and what is stored was never sent.
* `Custody` says how one token stays with one caller: without late locks the row is
  that of the call at work (`LockIsHeld`), so what it asked for is still unsent
  (`AskingIsUnsent`); without split turns the session is still the one found
  (`TurnIsWhole`), so, with no intent recorded, `SpentIsMarked` says it is unsent. The
  token `Intend` sends is new on either ground, hence `TokensArePresentedOnce`; and
  the intent is that of the stored session, hence `SignInIsAccepted`.

Most steps of a caller are `Plain` and `Calm`; the lemmas `PlainStep` and `CalmStep`
treat them together, and each other step has a lemma of its own.

`AccountLifecycleProofs` proves every property of both runs, for any number of
accounts, invites, attempts and requests and any retention times. The one assumption
that is more than naming is `LedgerOutlivesBackups`: a generation's days and the days a
restored service may stay down are together at most the days of the ledger. The code
has 31 days and the operator's guide 30, which leaves one day for a restore. The parts
of the inductive invariant are independent of each other but for `TypeOK`:

* `LedgerInv`, for `DeletionHolds`, which is not inductive: a restore brings outdated
  rows back. `Loose` rows are outdated rows that no pending deletion will take.
  `Settled` says that in the service only restored data has them, and then the ledger
  still knows the deletion for as long as the service may stay down; `Retained` that a
  generation has them only while the ledger will know the deletion for longer than the
  generation is kept and a restore takes. `Ordered`, in both, says that no row is newer
  than the clock, that the user's row is the oldest of its account, and that a pending
  deletion has a user: so a start-up that finds a newer user leaves nothing loose.
* `AdmissionInv`, for `InvitesMatchAdmissions`: the two tables agree in the service and
  in the generation, because a generation is one snapshot and the purge takes both
  sides of an account at once.
* `Working`, for `NoWriteAfterErasure`: a worker that still has its batch row works on a
  running batch, past its checks also on a user whose rows are current, and it is never
  at a request without its row.
* `Erasing`, for both `NoWriteAfterErasure` and `ReleasesReviewed`: between the tombstone
  and the end of an erasure the user of the account is not current, so no worker passes
  its checks and no mute is attributed behind the review.

`NewConsentStays` is an action property of `LedgerInv` and `Erasing`: `RowSteps` lists what
a step may do to the rows; an erasure is of an account whose user is not current, and a
start-up passes over the others. So it also says that the ledger is written before the
rows go (`WriteTombstone` is what makes the user not current).

The actions are proved in groups (`AdmissionSteps`, `CallbackSteps`, `WorkSteps`,
`DeletionSteps`, `BackupSteps`), with one step per action in each.

The first part of `AcquisitionProofs` proves, for any number of calls and accounts, any limits and any
number of polls, both invariants of the window. The inductive invariant `WindowInv` is
made of `WindowTypeOK`; `CallsInv`, which says of each call which rows its step and its
manner let it hold, `EndedHoldsNothing` included; and `QuietInv`: the flag stands as
long as the backup waits or copies, and while it copies every row left is excused. The
last is inductive because, with the flag up, a bridge row is given only to an account
that holds a lease (`Admits`), and a lease is given only to a call that is then `late`.
`Ways` lists the steps once and `Keeps` is the frame argument for the calls a step does
not touch, so each action argues about one call.

The second part proves that every step of `Acquisition` is a step of
`MaintenanceWindow` or leaves its variables alone (`AcquisitionImplementsWindow`); the
invariants of the window then hold of `Acquisition`. About readings it proves
`KnownIsTrue` (`StandingIsEarned`) by an invariant with one part for each source: the
mute list has been read whole where its end was seen, no state is known before that,
and a relationship is decided only by a single readable row.

The rest of what the run checks of a reading needs to know what the walk over posts,
the loop over exposures and the cuts of a discovery compute for feeds of any length.
`FeedProofs` proves it by induction on the position: that a set with zero and every
successor holds all numbers follows from the library's facts about well-founded
relations, which take sets and no operators (`Induction`); the recursive function
behind a fold is shown to exist (`FoldExists`), and the fold is then the last state of a
run with one step per element (`ItemsInTurn`, `ChainInTurn`, `KeepsInTurn`). The results
are `ExtractFinds` (a sampling that calls itself complete has every lineage, every
author and every quote), `KeepKeeps`, `RoundsEnd` (the cuts by a quarter end) and
`FeedRowCovers`, which puts them together for one row.

On these `AcquisitionProofs` builds `AcqInv`, with four parts besides `WindowInv`:

* `PlaceInv`: which source is read and how far, and that a row that is called complete
  covers what the policy asked of its feed. Every later step may only take that back.
* `BudgetInv`: in every order of the answers the budget still covers what the two
  concurrent tasks of `observe` plan to ask.
* `KnownInv`: batches, plans and findings have their types; with `PlaceInv` this is
  `ReadTypeOK`.
* `FollowInv`: the followed call is at its reading as long as the reading is under way,
  a preview alone looks accounts up again, and a call with a result is over. From the
  proof of `FollowInv` comes that `StoreResult` is the last step of a call.
* `EarnedInv`: what was stored as complete is `Earned`; nothing it rests on changes after
  the call is over.

`AcquisitionIsTyped`, `PlansFitTheBudget` and `CompletionIsEarned` follow. They hold for
any inputs that satisfy `InputsAssumption`: at least one feed; positive limits, which the
compiler demands (policy.py:167-170) and `sampleFeed` checks again
(feed-exposure.ts:244); and that one uri does not name two readable authors. The last is
a fact about the network, where a post is a record of its author's repository: `add`
(feed-exposure.ts:122-131) counts an occurrence once by uri, cid and path and does not
compare authors. TLC evaluates the assumption on the inputs of the run.

`CliRuntimeProofs` proves every property of the `cli_runtime` run, for any publishers,
policies, override layers and bounds. Besides `TypeOK` and `NoGap` the inductive invariant
`CliInv` says that a publisher serves its own labels and only adds to them (`ServedOK`),
that a page is kept before its subject and its subject before the cursor moves
(`PageOK`), that what is known of a mute follows the ledger (`LedgerOK`), that what is
enforced was proposed (`EnforcedOK`), that a run which takes a publisher for complete has
all it had said (`CoverageOK`), and that the evidence of a row is what the run has kept
(`PolicyOK`).

`DecisionIsEarned` and `MuteHasStanding` also need what `Truth`, which is recursive along
a predicate, computes for predicates of any shape (`PoliciesAssumption`: the shape
`compile_policy` accepts). As in `FeedProofs` the recursive function is shown to exist
(`TruthIs`), and `TruthKept` compares two of them by induction on the position. What is
kept is not one sense alone: a leaf read as denied keeps its yes and its no, a leaf read
as asserted only its yes, unless the predicate must be current; `not` exchanges the two
(`Keeps`). So a rule that matches goes on matching, and an allow rule, which is evaluated
with `require_current`, also goes on failing (`MatchKept`), which is what the two bases
that justify something take (`BasisIs`). For a mute, the ids of the receipt hold the last
word on every leaf (`IdsSuffice`), so what `execute` evaluates again is what the run knew.

`AccountRulesProofs` proves every property of the `account_rules` run, for any number of
requests of both processes, any rules and any bounds. A request that goes on takes a step
of `Bridge`, which gives `RequestsUseTheBridge`; the theorems of `BridgeProofs` are then
cited for the state of this module. `NoChangeIsLost` holds because a request that waits
holds rules the row had at its revision (`RequestsOK`, `DraftOK`).

`MirrorIsFaithful` and `AcknowledgedIsSeen` have `ConcurrencyPerDid = 1` as their
hypothesis, and rest on one inductive invariant, `RulesOK`:

* `OneChild`: at most one child of the account runs, in both processes together. It
  follows from the leases (`ChildLeased`, `LeaseLimits`).
* `OrphansRunAlone`: while a child of a dead process may still write, its lease row is
  there (`OrphanLeases`) and no other child runs.
* `InOrder`: within a process, calls start and are answered in the order of the
  revisions they project. `QueueOrder` is about two calls that wait, `StartOrder` about
  one that runs or is answered and one behind it; `OneOk` says that a process has one
  answer in hand at a time. It uses that `Bridge` starts calls of a key in order and lets
  none wait that has room.
* `ListedOK`: while there is no row nobody projects, so what an engine without a row
  listed is still what it holds when it becomes the first revision.
* `Synced`: whenever the row is called projected, or a projection of its revision is
  answered and its mark still to come, the state is `Clean`: the engine holds the row's
  rules, children of dead processes can only write the same, and every projection still
  pending is of the row's revision. A child that has written for this revision keeps the
  engine so until it is answered (`DoneIsWritten`).

The step that needs all of it is the answer to a projection of the row's revision. What
is pending in its own process is behind it and no older, by `InOrder`; what is pending in
the other process would have been started when the lease was given back, unless that
process is in its drain with a queue (`WaitsOfOthers`), which is the exception
`overslept` records.

The type invariants of `HostedJobs`, `Bridge`, `AccountRules`, `OAuthCustody`,
`AccountLifecycle` and `CliRuntime`, and `LeaseLimits`, were checked by runs first; they are theorems now and no
run repeats them.

Every invariant and every safety property of the passing runs is a theorem. Liveness
(`RunEnds`, `OldestIsTaken`, `Answered`, `AllEnd`) is out of the prover's reach and is
model-checked only, and so are the three violations.

## 5. Plan

Done: `HostedJobs` with `ApprovedEffects`, `Bridge`, `AccountRules`, `OAuthCustody`, `AccountLifecycle`,
`MaintenanceWindow`, `FeedReading`, `Acquisition`, `PolicyEval` and `CliRuntime` with
their runs; the theorems above.

Left:

1. A batch of several subjects in `CliRuntime`, one of whose writes raises.
2. The other account sources (follows, timeline, leaderboards) in `FeedReading`.

Not modelled: rendering, the policy editor, forms and styles (no state); portable
documents (a conversion); `quench-observation.ts` (an analysis of a finished sample);
packaging scripts; a second worker process, which the deployment never starts: its
`recover` would take the running job of the first (worker.ts:45), so `NeverSentTwice`
has `OneWorker` as its hypothesis.
