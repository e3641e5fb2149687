-------------------------- MODULE AccountLifecycle --------------------------
(***************************************************************************)
(* How an account comes to the hosted service and how it leaves: OAuth      *)
(* attempts and invites (web/src/admission.ts), the callback and deletion   *)
(* handlers (web/src/server.ts), erasure and the deletion ledger kept apart *)
(* from the application database (web/src/privacy.ts), backups              *)
(* (deploy/backup.py) and the restore that reapplies the ledger.  The       *)
(* worker and the preview are here only for what they still write while an  *)
(* account leaves; HostedJobs has the rest of them.                         *)
(*                                                                         *)
(* The web process runs one handler at a time between two awaits; the       *)
(* worker and the backup tool are processes of their own.                   *)
(***************************************************************************)
EXTENDS Integers, FiniteSets

CONSTANTS
    Accounts,
    Allowed,            \* allowedDids
    Mode,               \* admissionMode
    Invites,
    Attempts,           \* bound: OAuth attempts alive at a time
    Requests,           \* bound: requests of the web process under way
    NoOne,              \* no account
    NoInvite,
    NoAttempt,
    MaxDeletions,       \* bound: deletions of one account
    TombstoneDays,      \* how long the ledger keeps a deletion
    BackupDays,         \* how long the operator keeps a backup generation
    RestoreDays         \* bound: days a restored or stopped service stays down

ASSUME ModeKnown == Mode \in {"allowlist", "invite", "open"}
ASSUME NamesDiffer ==
    /\ NoOne \notin Accounts /\ NoInvite \notin Invites /\ NoAttempt \notin Attempts
    /\ {"none", "open"} \cap Accounts = {}
    /\ Allowed \subseteq Accounts
ASSUME DaysAreNat ==
    /\ MaxDeletions \in Nat /\ RestoreDays \in Nat /\ BackupDays \in Nat
    /\ TombstoneDays \in Nat
\* The ledger outlives every generation by the days a restore may take; the
\* code has 31 days and the operator's guide 30 (privacy.ts:9, hosting.md:85-87).
ASSUME LedgerOutlivesBackups == BackupDays + RestoreDays <= TombstoneDays

VARIABLES
    row,            \* app.db: when each row of an account was written
    deletion,       \* app.db: account_deletions, the mode requested
    invite,         \* app.db: invites
    job,            \* app.db: the batch of an account
    engine,         \* the engine database of each account
    attempt,        \* app.db: oauth_attempts and the client's own oauth_state
    deletions,      \* the deletions of an account so far: the clock of its rows
    tombstone,      \* tombstones.db: days each deletion is still retained
    backup,         \* the retained generation
    request,        \* what each request of the web process does
    worker,         \* what the worker process does
    service,        \* the web process
    downDays        \* days since the web process stopped

appDb == <<row, deletion, invite, job>>
vars == <<row, deletion, invite, job, engine, attempt, deletions, tombstone,
          backup, request, worker, service, downDays>>

-----------------------------------------------------------------------------
(* A row is remembered by the number of deletions its account had seen when *)
(* it was written, so created_at is later than deleted_at exactly when this *)
(* number is the current one.                                               *)

Tables == {"users", "oauth_sessions", "admissions", "capacity_events"}
Absent == -1
Times == Absent..MaxDeletions
NoRows == [t \in Tables |-> Absent]

Has(a, t) == row[a][t] # Absent
Outdated(a, t) == Has(a, t) /\ row[a][t] < deletions[a]
With(a, t) == [row EXCEPT ![a][t] = deletions[a]]
Without(a, t) == [row EXCEPT ![a][t] = Absent]

Modes == {"leave_mutes", "after_releases"}
Files == {"none", "empty", "attributed"}
InviteStates == {"none", "open"} \cup Accounts     \* none: no code that counts
JobStates == {"none", "queued", "running"}     \* none: no batch to work on

NoGeneration == [left |-> 0]
Generations ==
    [left : 1..BackupDays, row : [Accounts -> [Tables -> Times]],
     deletion : [Accounts -> Modes \cup {"none"}], invite : [Invites -> InviteStates],
     job : [Accounts -> JobStates], engine : [Accounts -> Files]]

NotStarted == [kind |-> "none", live |-> FALSE, open |-> FALSE,
               invite |-> NoInvite, expected |-> NoOne]
AttemptTypes ==
    [kind : {"none", "sign_in", "reconnect"}, live : BOOLEAN, open : BOOLEAN,
     invite : Invites \cup {NoInvite}, expected : Accounts \cup {NoOne}]

At(pc, a) == [pc |-> pc, who |-> a, attempt |-> NoAttempt, mode |-> "none"]
Idle == At("idle", NoOne)
Steps == {"admitted", "restored", "leaving", "clearing", "cleared", "tombstoned",
          "purged", "previewing"}
RequestTypes ==
    {Idle} \cup [pc : {"returned"}, who : Accounts, attempt : Attempts, mode : {"none"}]
    \cup [pc : Steps, who : Accounts, attempt : {NoAttempt}, mode : Modes \cup {"none"}]

Resting == [pc |-> "idle", who |-> NoOne, lost |-> FALSE]
WorkerTypes ==      \* lost: the row of the batch it works on was deleted
    {Resting} \cup
    [pc : {"claimed", "planning", "writing"}, who : Accounts, lost : BOOLEAN]

Init ==
    /\ row = [a \in Accounts |-> NoRows]
    /\ deletion = [a \in Accounts |-> "none"]
    /\ invite = [i \in Invites |-> "open"]
    /\ job = [a \in Accounts |-> "none"]
    /\ engine = [a \in Accounts |-> "none"]
    /\ attempt = [t \in Attempts |-> NotStarted]
    /\ deletions = [a \in Accounts |-> 0]
    /\ tombstone = [a \in Accounts |-> 0]
    /\ backup = NoGeneration
    /\ request = [r \in Requests |-> Idle]
    /\ worker = Resting
    /\ service = "up" /\ downDays = 0

\* completeDeletion has no await: while it runs no other handler does.
Free == service = "up" /\ \A r \in Requests : request[r].pc \notin {"tombstoned", "purged"}
Begin(r, new) == request[r] = Idle /\ request' = [request EXCEPT ![r] = new]
Continue(r, pc) == request' = [request EXCEPT ![r].pc = pc]
Admit(r, pc) == request' = [request EXCEPT ![r].pc = pc, ![r].attempt = NoAttempt]
Finish(r) == request' = [request EXCEPT ![r] = Idle]

\* A signed-in browser: the session joins a users row (db.session).
SignedIn(a) == Has(a, "users")

-----------------------------------------------------------------------------
(* Admission                                                                *)

\* An operator's new invite; codes are random, so the name of an old one may
\* stand for it once no attempt refers to that.
CreateInvite(i) ==
    /\ invite[i] = "none"
    /\ \A t \in Attempts : attempt[t].invite # i
    /\ invite' = [invite EXCEPT ![i] = "open"]
    /\ UNCHANGED <<row, deletion, job, engine, attempt, deletions,
                   tombstone, backup, request, worker, service, downDays>>

ExpireInvite(i) ==
    /\ invite[i] = "open"
    /\ invite' = [invite EXCEPT ![i] = "none"]
    /\ UNCHANGED <<row, deletion, job, engine, attempt, deletions,
                   tombstone, backup, request, worker, service, downDays>>

\* live: the oauth_attempts row, ten minutes; open: the client's oauth_state,
\* an hour.
BeginSignIn(t, i) ==
    /\ Free /\ attempt[t] = NotStarted
    /\ i # NoInvite => invite[i] = "open"
    /\ attempt' = [attempt EXCEPT ![t] = [kind |-> "sign_in", live |-> TRUE, open |-> TRUE,
                                          invite |-> i, expected |-> NoOne]]
    /\ UNCHANGED <<appDb, engine, deletions, tombstone, backup,
                   request, worker, service, downDays>>

\* Both handlers cancel what waits and go on to clear the session: see Leave.
Dequeued(a) == [job EXCEPT ![a] = IF @ = "queued" THEN "none" ELSE @]

BeginReconnect(t, a, r) ==
    /\ Free /\ SignedIn(a) /\ deletion[a] = "none" /\ attempt[t] = NotStarted
    /\ attempt' = [attempt EXCEPT ![t] = [kind |-> "reconnect", live |-> TRUE, open |-> TRUE,
                                          invite |-> NoInvite, expected |-> a]]
    /\ job' = Dequeued(a)
    /\ Begin(r, At("leaving", a))
    /\ UNCHANGED <<row, deletion, invite, engine, deletions, tombstone, backup,
                   worker, service, downDays>>

Disconnect(r, a) ==
    /\ Free /\ SignedIn(a) /\ deletion[a] = "none"
    /\ job' = Dequeued(a)
    /\ Begin(r, At("leaving", a))
    /\ UNCHANGED <<row, deletion, invite, engine, attempt, deletions, tombstone, backup,
                   worker, service, downDays>>

ExpireAttempt(t) ==
    /\ \/ /\ attempt[t].live
          /\ attempt' = [attempt EXCEPT ![t].live = FALSE]
       \/ /\ attempt[t].open /\ ~attempt[t].live
          /\ attempt' = [attempt EXCEPT ![t] = NotStarted]
       \/ /\ attempt[t] # NotStarted /\ ~attempt[t].open /\ ~attempt[t].live
          /\ \A r \in Requests : request[r].attempt # t
          /\ attempt' = [attempt EXCEPT ![t] = NotStarted]
    /\ UNCHANGED <<appDb, engine, deletions, tombstone, backup,
                   request, worker, service, downDays>>

\* The provider answers for whichever account the person signed in to; the
\* client spends its own state and stores the session.
Exchange(r, t, a) ==
    /\ Free /\ attempt[t].open
    /\ attempt' = [attempt EXCEPT ![t].open = FALSE]
    /\ row' = With(a, "oauth_sessions")
    /\ Begin(r, [At("returned", a) EXCEPT !.attempt = t])
    /\ UNCHANGED <<deletion, invite, job, engine, deletions,
                   tombstone, backup, worker, service, downDays>>

\* Variant: the claim of an invite does not ask whether it is spent.
ClaimableAgain(i) == i # NoInvite /\ invite[i] # "none"
Claimable(i) == i # NoInvite /\ invite[i] = "open"

\* What a first sign-in may use to get in.
MayJoin(a, t) ==
    \/ Mode = "allowlist" /\ a \in Allowed
    \/ Mode = "open"
    \/ Mode = "invite" /\ Claimable(attempt[t].invite)

Known(a, t) ==
    /\ Has(a, "admissions")
    /\ attempt[t].kind = "reconnect" => attempt[t].expected = a

\* complete: the attempt is spent whatever the answer.  A freeze of admissions
\* refuses a first sign-in although it began earlier.
Complete(r) ==
    LET a == request[r].who
        t == request[r].attempt IN
    /\ Free /\ request[r].pc = "returned"
    /\ attempt' = [attempt EXCEPT ![t] = NotStarted]
    /\ \/ /\ attempt[t].live /\ Known(a, t)
          /\ Admit(r, "admitted")
          /\ UNCHANGED <<row, invite>>
       \/ /\ attempt[t].live /\ attempt[t].kind = "sign_in"
          /\ ~Has(a, "admissions") /\ MayJoin(a, t)
          /\ invite' = IF Mode = "invite" THEN [invite EXCEPT ![attempt[t].invite] = a]
                       ELSE invite
          /\ row' = With(a, "admissions")
          /\ Admit(r, "admitted")
       \/ /\ ~(attempt[t].live /\ Known(a, t))
          /\ Admit(r, "leaving")
          /\ UNCHANGED <<row, invite>>
    /\ UNCHANGED <<deletion, job, engine, deletions, tombstone,
                   backup, worker, service, downDays>>

\* The handler restores the stored session ...
RestoreSession(r) ==
    /\ Free /\ request[r].pc = "admitted" /\ Has(request[r].who, "oauth_sessions")
    /\ Continue(r, "restored")
    /\ UNCHANGED <<appDb, engine, attempt, deletions, tombstone,
                   backup, worker, service, downDays>>

\* ... reads the profile, and upserts the user.  created_at is kept.
SignIn(r) ==
    LET a == request[r].who IN
    /\ Free /\ request[r].pc = "restored"
    /\ row' = IF Has(a, "users") THEN row ELSE With(a, "users")
    /\ Finish(r)
    /\ UNCHANGED <<deletion, invite, job, engine, attempt, deletions,
                   tombstone, backup, worker, service, downDays>>

\* The restore or the profile fails; what was admitted and stored stays.
SignInFails(r) ==
    /\ Free /\ request[r].pc \in {"admitted", "restored"}
    /\ Finish(r)
    /\ UNCHANGED <<appDb, engine, attempt, deletions, tombstone,
                   backup, worker, service, downDays>>

\* A refused callback and a reconnection end by clearing the stored session.
Leave(r) ==
    /\ Free /\ request[r].pc = "leaving"
    /\ row' = Without(request[r].who, "oauth_sessions")
    /\ Finish(r)
    /\ UNCHANGED <<deletion, invite, job, engine, attempt, deletions,
                   tombstone, backup, worker, service, downDays>>

-----------------------------------------------------------------------------
(* Work that an account leaves behind                                       *)

\* A preview: policy and lease are read at once, the engine is spawned after
\* the network was read, its file is made if there is none, and the bridge
\* lease is a capacity row of the account.
PreviewStart(r, a) ==
    /\ Free /\ SignedIn(a) /\ deletion[a] = "none"
    /\ row' = With(a, "capacity_events")
    /\ Begin(r, At("previewing", a))
    /\ UNCHANGED <<deletion, invite, job, engine, attempt, deletions,
                   tombstone, backup, worker, service, downDays>>

PreviewEngine(r) ==
    LET a == request[r].who IN
    /\ Free /\ request[r].pc = "previewing"
    /\ row' = With(a, "capacity_events")
    /\ engine' = [engine EXCEPT ![a] = IF @ = "none" THEN "empty" ELSE @]
    /\ Finish(r)
    /\ UNCHANGED <<deletion, invite, job, attempt, deletions,
                   tombstone, backup, worker, service, downDays>>

\* It fails before; at its end the preview row needs its user.
PreviewFails(r) ==
    /\ Free /\ request[r].pc = "previewing"
    /\ Finish(r)
    /\ UNCHANGED <<appDb, engine, attempt, deletions, tombstone,
                   backup, worker, service, downDays>>

\* requireAccountWrite, with the gates open.
MayWrite(a) == Has(a, "admissions")

Approve(a) ==
    /\ Free /\ SignedIn(a) /\ deletion[a] = "none" /\ MayWrite(a)
    /\ job[a] = "none"
    /\ job' = [job EXCEPT ![a] = "queued"]
    /\ UNCHANGED <<row, deletion, invite, engine, attempt, deletions,
                   tombstone, backup, request, worker, service, downDays>>

\* An update of the worker's batch reaches no row once that is deleted.
Batch(s) == IF worker.lost THEN job ELSE [job EXCEPT ![worker.who] = s]

\* The worker of a restored generation is started after the web process.
Claim(a) ==
    /\ worker = Resting /\ service # "restored" /\ job[a] = "queued"
    /\ job' = [job EXCEPT ![a] = "running"]
    /\ worker' = [pc |-> "claimed", who |-> a, lost |-> FALSE]
    /\ UNCHANGED <<row, deletion, invite, engine, attempt, deletions,
                   tombstone, backup, request, service, downDays>>

Proceeds(a) == ~worker.lost /\ deletion[a] = "none" /\ SignedIn(a)

\* run and every item look for a deletion first; planning makes the file.
Check ==
    LET a == worker.who IN
    /\ worker.pc \in {"claimed", "planning"}
    /\ \/ /\ ~Proceeds(a) /\ job' = Batch("none") /\ worker' = Resting
          /\ UNCHANGED engine
       \/ /\ Proceeds(a) /\ worker.pc = "claimed"
          /\ worker' = [worker EXCEPT !.pc = "planning"]
          /\ engine' = [engine EXCEPT ![a] = IF @ = "none" THEN "empty" ELSE @]
          /\ UNCHANGED job
       \/ /\ Proceeds(a) /\ worker.pc = "planning" /\ MayWrite(a)
          /\ worker' = [worker EXCEPT !.pc = "writing"]
          /\ UNCHANGED <<job, engine>>
    /\ UNCHANGED <<row, deletion, invite, attempt, deletions,
                   tombstone, backup, request, service, downDays>>

\* A 429 while re-reading puts the batch back, a failure ends it.
Yield ==
    /\ worker.pc = "planning"
    /\ \E s \in {"queued", "none"} : job' = Batch(s)
    /\ worker' = Resting
    /\ UNCHANGED <<row, deletion, invite, engine, attempt, deletions,
                   tombstone, backup, request, service, downDays>>

\* The mute or unmute is sent and journaled.
Write ==
    /\ worker.pc = "writing"
    /\ \E f \in {"empty", "attributed"} : engine' = [engine EXCEPT ![worker.who] = f]
    /\ worker' = [worker EXCEPT !.pc = "planning"]
    /\ UNCHANGED <<appDb, attempt, deletions, tombstone, backup,
                   request, service, downDays>>

\* The worker stops and recovers: a batch in the middle of a write is reviewed.
WorkerRestart ==
    /\ worker # Resting
    /\ job' = Batch(IF worker.pc = "writing" THEN "none" ELSE "queued")
    /\ worker' = Resting
    /\ UNCHANGED <<row, deletion, invite, engine, attempt, deletions,
                   tombstone, backup, request, service, downDays>>

-----------------------------------------------------------------------------
(* Deletion                                                                 *)

\* Variant: batches that run do not hold a deletion back.
ActiveNever(a) == FALSE
Active(a) == job[a] = "running"

\* requestDeletion; a running batch makes the handler stop after it.
RequestDeletion(r, a, m) ==
    /\ Free /\ SignedIn(a) /\ deletions[a] < MaxDeletions
    /\ m = "after_releases" => engine[a] # "attributed"
    /\ deletion' = [deletion EXCEPT ![a] = m]
    /\ job' = Dequeued(a)
    /\ IF Active(a) THEN request[r] = Idle /\ UNCHANGED request
       ELSE Begin(r, At("clearing", a))
    /\ UNCHANGED <<row, invite, engine, attempt, deletions,
                   tombstone, backup, worker, service, downDays>>

DeleteSession(r) ==
    /\ Free /\ request[r].pc = "clearing"
    /\ row' = Without(request[r].who, "oauth_sessions")
    /\ Continue(r, "cleared")
    /\ UNCHANGED <<deletion, invite, job, engine, attempt, deletions,
                   tombstone, backup, worker, service, downDays>>

MayErase(a) ==
    /\ deletion[a] # "none" /\ ~Active(a)
    /\ deletion[a] = "after_releases" => engine[a] # "attributed"

\* completeDeletion: the standing is read again, the ledger is written ...
WriteTombstone(r) ==
    LET a == request[r].who IN
    /\ Free /\ request[r].pc = "cleared"
    /\ \/ /\ MayErase(a) /\ deletions[a] < MaxDeletions
          /\ deletions' = [deletions EXCEPT ![a] = @ + 1]
          /\ tombstone' = [tombstone EXCEPT ![a] = TombstoneDays]
          /\ request' = [request EXCEPT ![r].pc = "tombstoned", ![r].mode = deletion[a]]
       \/ /\ ~MayErase(a) /\ Finish(r)
          /\ UNCHANGED <<deletions, tombstone>>
    /\ UNCHANGED <<appDb, engine, attempt, backup, worker, service, downDays>>

\* The transaction of purgeDid for a set of accounts; users cascade to jobs.
Purge(rows, P) ==
    /\ row' = [a \in Accounts |-> IF a \in P THEN NoRows ELSE rows[a]]
    /\ deletion' = [a \in Accounts |-> IF a \in P THEN "none" ELSE deletion[a]]
    /\ job' = [a \in Accounts |-> IF a \in P THEN "none" ELSE job[a]]
    /\ invite' = [i \in Invites |-> IF invite[i] \in P THEN "none" ELSE invite[i]]
    /\ attempt' = [t \in Attempts |->
          IF attempt[t].expected \in P THEN [attempt[t] EXCEPT !.live = FALSE] ELSE attempt[t]]
    /\ worker' = [worker EXCEPT !.lost = @ \/ worker.who \in P]

\* ... the rows go in one transaction, or it fails and all of them stay ...
PurgeRows(r) ==
    /\ request[r].pc = "tombstoned"
    /\ \/ Purge(row, {request[r].who}) /\ Continue(r, "purged")
       \/ Finish(r) /\ UNCHANGED <<appDb, attempt, worker>>
    /\ UNCHANGED <<engine, deletions, tombstone, backup, service, downDays>>

\* ... and the engine database last.
RemoveEngineState(r) ==
    /\ request[r].pc = "purged"
    /\ engine' = [engine EXCEPT ![request[r].who] = "none"]
    /\ Finish(r)
    /\ UNCHANGED <<appDb, attempt, deletions, tombstone, backup,
                   worker, service, downDays>>

-----------------------------------------------------------------------------
(* Backups, restarts, restores                                              *)

\* The tool keeps new work out and waits for the work under way.
Drained ==
    /\ worker.pc # "writing"
    /\ \A r \in Requests : request[r].pc = "previewing" => ~Has(request[r].who, "capacity_events")

\* One generation; an older one may be kept instead.
Snapshot ==
    /\ service = "up" /\ Drained /\ BackupDays > 0
    /\ backup' = [left |-> BackupDays, row |-> row, deletion |-> deletion,
                  invite |-> invite, job |-> job, engine |-> engine]
    /\ UNCHANGED <<appDb, engine, attempt, deletions, tombstone, request, worker,
                   service, downDays>>

Crash ==
    /\ service = "up"
    /\ service' = "down" /\ downDays' = 0
    /\ request' = [r \in Requests |-> Idle]
    /\ UNCHANGED <<appDb, engine, attempt, deletions, tombstone,
                   backup, worker>>

\* The operator puts a generation in place of the data; both processes are
\* stopped, and the attempts in it are over by then.
Restore ==
    /\ service = "down" /\ backup # NoGeneration
    /\ service' = "restored" /\ worker' = Resting
    /\ row' = backup.row /\ deletion' = backup.deletion /\ invite' = backup.invite
    /\ job' = [a \in Accounts |-> IF backup.job[a] = "running" THEN "queued" ELSE backup.job[a]]
    /\ engine' = backup.engine
    /\ attempt' = [t \in Attempts |-> NotStarted]
    /\ UNCHANGED <<deletions, tombstone, backup, request, downDays>>

\* Accounts of the allowlist that were users before admissions existed.
Migrated ==
    [a \in Accounts |->
        IF a \in Allowed /\ Has(a, "users") /\ ~Has(a, "admissions")
        THEN [row[a] EXCEPT !["admissions"] = deletions[a]] ELSE row[a]]

\* Variant: only accounts with a users row are looked at.
CandidatesUsers == {a \in Accounts : Has(a, "users")}
Candidates ==
    {a \in Accounts : \/ \E t \in Tables : Has(a, t)
                      \/ deletion[a] # "none"
                      \/ \E i \in Invites : invite[i] = a
                      \/ \E t \in Attempts : attempt[t].live /\ attempt[t].expected = a}

\* Variant: whoever has a retained deletion is erased, newer or not.
ReappliedAnyway == {a \in Candidates : tombstone[a] > 0}
\* reconcileRestore: a retained deletion is reapplied unless the user is newer.
Reapplied ==
    {a \in Candidates : tombstone[a] > 0 /\ ~(Has(a, "users") /\ ~Outdated(a, "users"))}

\* Start-up ends before the listener is bound; a crash within it is followed
\* by another start.
Start ==
    /\ service # "up"
    /\ Purge(Migrated, Reapplied)
    /\ engine' = [a \in Accounts |-> IF a \in Reapplied THEN "none" ELSE engine[a]]
    /\ service' = "up" /\ downDays' = 0
    /\ UNCHANGED <<deletions, tombstone, backup, request>>

Aged(n) == IF n > 0 THEN n - 1 ELSE 0

\* A day passes, longer than any request or attempt: tombstones and the
\* generation age.
Day ==
    /\ service = "up" \/ downDays < RestoreDays
    /\ \A r \in Requests : request[r] = Idle
    /\ \A t \in Attempts : attempt[t] = NotStarted
    /\ downDays' = IF service = "up" THEN 0 ELSE downDays + 1
    /\ tombstone' = [a \in Accounts |-> Aged(tombstone[a])]
    /\ backup' = IF backup.left > 1 THEN [backup EXCEPT !.left = @ - 1] ELSE NoGeneration
    /\ UNCHANGED <<appDb, engine, attempt, deletions, request, worker, service>>

-----------------------------------------------------------------------------
Next ==
    \/ \E i \in Invites : CreateInvite(i) \/ ExpireInvite(i)
    \/ \E t \in Attempts, i \in Invites \cup {NoInvite} : BeginSignIn(t, i)
    \/ \E t \in Attempts, a \in Accounts, r \in Requests :
          BeginReconnect(t, a, r) \/ Exchange(r, t, a)
    \/ \E t \in Attempts : ExpireAttempt(t)
    \/ \E r \in Requests :
          \/ Complete(r) \/ RestoreSession(r) \/ SignIn(r) \/ SignInFails(r) \/ Leave(r)
          \/ PreviewEngine(r) \/ PreviewFails(r)
          \/ DeleteSession(r) \/ WriteTombstone(r) \/ PurgeRows(r) \/ RemoveEngineState(r)
    \/ \E r \in Requests, a \in Accounts :
          Disconnect(r, a) \/ PreviewStart(r, a) \/ \E m \in Modes : RequestDeletion(r, a, m)
    \/ \E a \in Accounts : Approve(a) \/ Claim(a)
    \/ Check \/ Yield \/ Write \/ WorkerRestart
    \/ Snapshot \/ Crash \/ Restore \/ Start \/ Day

Spec == Init /\ [][Next]_vars

TypeOK ==
    /\ row \in [Accounts -> [Tables -> Times]]
    /\ deletion \in [Accounts -> Modes \cup {"none"}]
    /\ invite \in [Invites -> InviteStates]
    /\ job \in [Accounts -> JobStates]
    /\ engine \in [Accounts -> Files]
    /\ attempt \in [Attempts -> AttemptTypes]
    /\ deletions \in [Accounts -> 0..MaxDeletions]
    /\ tombstone \in [Accounts -> 0..TombstoneDays]
    /\ backup \in Generations \cup {NoGeneration}
    /\ request \in [Requests -> RequestTypes]
    /\ worker \in WorkerTypes
    /\ service \in {"up", "down", "restored"}
    /\ downDays \in 0..RestoreDays

\* A deleted account stays deleted: while the service serves, through crashes,
\* failed erasures, and backups restored at any age, the only rows older than
\* an account's deletion are those of a deletion still pending
\* (privacy.ts:142-168, 171-208; README.md:80-82).
DeletionHolds ==
    service = "up" =>
        \A a \in Accounts, t \in Tables : Outdated(a, t) => deletion[a] # "none"

\* A person may sign up again after deleting: the rows of an account whose users
\* row is newer than its last deletion are taken away by no erasure, no start-up
\* and no aging ledger, only by the restore of a generation that never had them
\* (a session also by its owner's handlers).  What was erased was written to
\* the ledger before (privacy.ts:142-143, 198-203).
UserIsNewer(a) == Has(a, "users") /\ ~Outdated(a, "users")
NewConsentStays ==
    [][row' # row /\ service' # "restored" =>
          \A a \in Accounts : UserIsNewer(a) =>
             \A t \in Tables : Has(a, t) => \/ Has(a, t)'
                                            \/ t = "oauth_sessions" /\ service = "up"]_vars

\* An invite lets one account in, and every admission that rests on an invite
\* has its own: the two tables agree through racing callbacks, expiries,
\* deletions and restores (admission.ts:149-190, privacy.ts:155-167).
Invited == {a \in Accounts : \E i \in Invites : invite[i] = a}
InvitesMatchAdmissions ==
    Mode = "invite" =>
        /\ \A a \in Invited : Has(a, "admissions")
        /\ \A a \in Accounts \ Allowed : Has(a, "admissions") => a \in Invited

\* No moderation request is under way for an account whose deletion was
\* recorded or whose rows were erased under the worker (privacy.ts:133-144,
\* worker.ts:106-113, 156-159).
NoWriteAfterErasure ==
    worker.pc = "writing" =>
        /\ ~worker.lost
        /\ \A r \in Requests : request[r].pc = "tombstoned" => request[r].who # worker.who

\* A deletion asked for "after releases" never erases the record of a mute the
\* service still holds for the account (privacy.ts:139-141).
ReleasesReviewed ==
    \A r \in Requests :
        request[r].pc \in {"tombstoned", "purged"} /\ request[r].mode = "after_releases"
        => engine[request[r].who] # "attributed"

=============================================================================
