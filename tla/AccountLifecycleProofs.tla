----------------------- MODULE AccountLifecycleProofs -----------------------
(***************************************************************************)
(* Theorems about the accounts of the hosted service, for any number of     *)
(* accounts, invites, requests, deletions and days.                         *)
(***************************************************************************)
EXTENDS AccountLifecycle, TLAPS

-----------------------------------------------------------------------------
(* Type correctness.                                                       *)

LEMMA TimesAreInts ==
    /\ Times \subseteq Int /\ Absent \in Times
    /\ \A n \in 0..MaxDeletions : n \in Times /\ n # Absent
BY DaysAreNat DEF Times, Absent

\* Writing, deleting and clearing rows keeps them typed.
LEMMA RowsTyped ==
    ASSUME TypeOK, NEW a \in Accounts, NEW t \in Tables
    PROVE  /\ With(a, t) \in [Accounts -> [Tables -> Times]]
           /\ Without(a, t) \in [Accounts -> [Tables -> Times]]
           /\ NoRows \in [Tables -> Times]
<1>1. row \in [Accounts -> [Tables -> Times]] /\ deletions[a] \in Times
  BY TimesAreInts DEF TypeOK
<1>2. \A n \in Times : [row EXCEPT ![a][t] = n] \in [Accounts -> [Tables -> Times]]
  BY <1>1
<1> QED
  BY <1>1, <1>2, TimesAreInts DEF With, Without, NoRows

\* A request goes on, is answered, or ends.
LEMMA RequestsTyped ==
    ASSUME TypeOK, NEW r \in Requests, NEW p \in Steps
    PROVE  /\ request[r].pc \in Steps /\ Continue(r, p) => request' \in [Requests -> RequestTypes]
           /\ request[r].pc = "returned" /\ Admit(r, p) => request' \in [Requests -> RequestTypes]
<1>1. request \in [Requests -> RequestTypes] /\ request[r] \in RequestTypes
  BY DEF TypeOK
<1>2. \A q \in RequestTypes : [request EXCEPT ![r] = q] \in [Requests -> RequestTypes]
  BY <1>1
<1>3. ASSUME request[r].pc \in Steps
      PROVE  [request[r] EXCEPT !.pc = p] \in RequestTypes
  BY <1>1, <1>3 DEF RequestTypes, Idle, At, Steps
<1>4. ASSUME request[r].pc = "returned"
      PROVE  [[request[r] EXCEPT !.pc = p] EXCEPT !.attempt = NoAttempt] \in RequestTypes
  <2>1. request[r] \in [pc : {"returned"}, who : Accounts, attempt : Attempts, mode : {"none"}]
    BY <1>1, <1>4 DEF RequestTypes, Idle, At, Steps
  <2>2. [[request[r] EXCEPT !.pc = p] EXCEPT !.attempt = NoAttempt]
           \in [pc : Steps, who : Accounts, attempt : {NoAttempt}, mode : {"none"}]
    BY <2>1
  <2> QED
    BY <2>2 DEF RequestTypes
<1>5. [request EXCEPT ![r].pc = p] = [request EXCEPT ![r] = [request[r] EXCEPT !.pc = p]]
  BY <1>1
<1>6. [request EXCEPT ![r].pc = p, ![r].attempt = NoAttempt]
         = [request EXCEPT ![r] = [[request[r] EXCEPT !.pc = p] EXCEPT !.attempt = NoAttempt]]
  BY <1>1
<1>8. request[r].pc \in Steps /\ Continue(r, p) => request' \in [Requests -> RequestTypes]
  BY <1>2, <1>3, <1>5 DEF Continue
<1>9. request[r].pc = "returned" /\ Admit(r, p) => request' \in [Requests -> RequestTypes]
  BY <1>2, <1>4, <1>6 DEF Admit
<1> QED
  BY <1>8, <1>9

LEMMA FinishTyped ==
    ASSUME TypeOK, NEW r \in Requests, Finish(r)
    PROVE  request' \in [Requests -> RequestTypes]
BY DEF TypeOK, Finish, RequestTypes

LEMMA NewRequestsTyped ==
    ASSUME TypeOK, NEW r \in Requests, NEW a \in Accounts,
           NEW p \in {"leaving", "previewing", "clearing"}, Begin(r, At(p, a))
    PROVE  request' \in [Requests -> RequestTypes]
<1>1. At(p, a) \in RequestTypes
  BY DEF RequestTypes, Steps, At
<1> QED
  BY <1>1 DEF TypeOK, Begin

LEMMA ReturnedTyped ==
    ASSUME TypeOK, NEW r \in Requests, NEW a \in Accounts, NEW t \in Attempts,
           Begin(r, [At("returned", a) EXCEPT !.attempt = t])
    PROVE  request' \in [Requests -> RequestTypes]
<1>1. [At("returned", a) EXCEPT !.attempt = t] \in RequestTypes
  BY DEF RequestTypes, At
<1> QED
  BY <1>1 DEF TypeOK, Begin

\* What a request or a worker under way works for.
LEMMA UnderWay ==
    ASSUME TypeOK
    PROVE  /\ \A r \in Requests :
                 /\ request[r].pc # "idle" => request[r].who \in Accounts
                 /\ request[r].pc = "returned" => request[r].attempt \in Attempts
           /\ worker # Resting => worker.who \in Accounts
           /\ worker.pc # "idle" => worker.who \in Accounts
<1>1. \A r \in Requests : request[r] \in RequestTypes
  BY DEF TypeOK
<1>2. \A q \in RequestTypes : /\ q.pc # "idle" => q.who \in Accounts
                              /\ q.pc = "returned" => q.attempt \in Attempts
  BY DEF RequestTypes, Idle, At, Steps
<1>3. worker # Resting => worker \in [pc : {"claimed", "planning", "writing"},
                                      who : Accounts, lost : BOOLEAN]
  BY DEF TypeOK, WorkerTypes
<1>4. Resting.pc = "idle"
  BY DEF Resting
<1> QED
  BY <1>1, <1>2, <1>3, <1>4

LEMMA StepNames ==
    /\ Steps = {"admitted", "restored", "leaving", "clearing", "cleared", "tombstoned",
                "purged", "previewing"}
    /\ "idle" \notin Steps /\ "returned" \notin Steps
BY DEF Steps

\* Attempts begin, lose one of their rows, or are forgotten.
LEMMA AttemptsTyped ==
    ASSUME TypeOK, NEW t \in Attempts
    PROVE  /\ [attempt EXCEPT ![t] = NotStarted] \in [Attempts -> AttemptTypes]
           /\ [attempt EXCEPT ![t].live = FALSE] \in [Attempts -> AttemptTypes]
           /\ [attempt EXCEPT ![t].open = FALSE] \in [Attempts -> AttemptTypes]
           /\ [attempt[t] EXCEPT !.live = FALSE] \in AttemptTypes
<1>1. attempt \in [Attempts -> AttemptTypes] /\ attempt[t] \in AttemptTypes
  BY DEF TypeOK
<1>2. NotStarted \in AttemptTypes
  BY DEF NotStarted, AttemptTypes
<1>3. [attempt[t] EXCEPT !.live = FALSE] \in AttemptTypes
  BY <1>1 DEF AttemptTypes
<1>4. [attempt[t] EXCEPT !.open = FALSE] \in AttemptTypes
  BY <1>1 DEF AttemptTypes
<1>5. [attempt EXCEPT ![t].live = FALSE] = [attempt EXCEPT ![t] = [attempt[t] EXCEPT !.live = FALSE]]
  BY <1>1
<1>6. [attempt EXCEPT ![t].open = FALSE] = [attempt EXCEPT ![t] = [attempt[t] EXCEPT !.open = FALSE]]
  BY <1>1
<1> QED
  BY <1>1, <1>2, <1>3, <1>4, <1>5, <1>6

LEMMA NewAttemptsTyped ==
    /\ \A i \in Invites \cup {NoInvite} :
          [kind |-> "sign_in", live |-> TRUE, open |-> TRUE,
           invite |-> i, expected |-> NoOne] \in AttemptTypes
    /\ \A a \in Accounts :
          [kind |-> "reconnect", live |-> TRUE, open |-> TRUE,
           invite |-> NoInvite, expected |-> a] \in AttemptTypes
BY DEF AttemptTypes

\* The erasure of any set of accounts, from typed rows.
LEMMA PurgeTyped ==
    ASSUME TypeOK, NEW P \in SUBSET Accounts,
           NEW rows \in [Accounts -> [Tables -> Times]], Purge(rows, P)
    PROVE  /\ row' \in [Accounts -> [Tables -> Times]]
           /\ deletion' \in [Accounts -> Modes \cup {"none"}]
           /\ job' \in [Accounts -> JobStates]
           /\ invite' \in [Invites -> InviteStates]
           /\ attempt' \in [Attempts -> AttemptTypes]
           /\ worker' \in WorkerTypes
<1>1. row' \in [Accounts -> [Tables -> Times]]
  BY TimesAreInts DEF Purge, NoRows
<1>2. deletion' \in [Accounts -> Modes \cup {"none"}]
  BY DEF Purge, TypeOK
<1>3. job' \in [Accounts -> JobStates]
  BY DEF Purge, TypeOK, JobStates
<1>4. invite' \in [Invites -> InviteStates]
  BY DEF Purge, TypeOK, InviteStates
<1>5. attempt' \in [Attempts -> AttemptTypes]
  <2>1. \A t \in Attempts : attempt[t] \in AttemptTypes /\ [attempt[t] EXCEPT !.live = FALSE] \in AttemptTypes
    BY AttemptsTyped DEF TypeOK
  <2> QED
    BY <2>1 DEF Purge
<1>6. worker' \in WorkerTypes
  <2>1. worker \in WorkerTypes
    BY DEF TypeOK
  <2>2. worker' = [worker EXCEPT !.lost = worker.lost \/ worker.who \in P]
    BY DEF Purge
  <2>3. ASSUME worker = Resting PROVE worker' \in WorkerTypes
    <3>1. worker.who \notin P /\ worker.lost = FALSE
      BY <2>3, NamesDiffer DEF Resting
    <3>2. worker' = [worker EXCEPT !.lost = FALSE]
      BY <2>2, <3>1
    <3> QED
      BY <2>3, <3>2 DEF Resting, WorkerTypes
  <2>4. ASSUME worker # Resting PROVE worker' \in WorkerTypes
    <3>1. \A b \in BOOLEAN : [worker EXCEPT !.lost = b] \in WorkerTypes
      BY <2>1, <2>4 DEF WorkerTypes
    <3>2. (worker.lost \/ worker.who \in P) \in BOOLEAN
      BY <2>1, <2>4 DEF WorkerTypes
    <3> HIDE DEF WorkerTypes
    <3> QED
      BY <2>2, <3>1, <3>2, Zenon
  <2> QED
    BY <2>3, <2>4
<1> QED
  BY <1>1, <1>2, <1>3, <1>4, <1>5, <1>6

-----------------------------------------------------------------------------
(* One lemma for each part of the service.                                 *)

AdmissionSteps ==
    \/ \E i \in Invites : CreateInvite(i) \/ ExpireInvite(i)
    \/ \E t \in Attempts, i \in Invites \cup {NoInvite} : BeginSignIn(t, i)
    \/ \E t \in Attempts, a \in Accounts, r \in Requests :
          BeginReconnect(t, a, r) \/ Exchange(r, t, a)
    \/ \E t \in Attempts : ExpireAttempt(t)
    \/ \E r \in Requests, a \in Accounts : Disconnect(r, a)

CallbackSteps ==
    \E r \in Requests :
        Complete(r) \/ RestoreSession(r) \/ SignIn(r) \/ SignInFails(r) \/ Leave(r)

WorkSteps ==
    \/ \E r \in Requests : PreviewEngine(r) \/ PreviewFails(r)
    \/ \E r \in Requests, a \in Accounts : PreviewStart(r, a)
    \/ \E a \in Accounts : Approve(a) \/ Claim(a)
    \/ Check \/ Yield \/ Write \/ WorkerRestart

DeletionSteps ==
    \/ \E r \in Requests :
          DeleteSession(r) \/ WriteTombstone(r) \/ PurgeRows(r) \/ RemoveEngineState(r)
    \/ \E r \in Requests, a \in Accounts, m \in Modes : RequestDeletion(r, a, m)

BackupSteps == Snapshot \/ Crash \/ Restore \/ Start \/ Day

LEMMA Parts ==
    Next => AdmissionSteps \/ CallbackSteps \/ WorkSteps \/ DeletionSteps \/ BackupSteps
BY DEF Next, AdmissionSteps, CallbackSteps, WorkSteps, DeletionSteps, BackupSteps

LEMMA DequeuedTyped ==
    ASSUME TypeOK, NEW a \in Accounts
    PROVE  Dequeued(a) \in [Accounts -> JobStates]
BY DEF TypeOK, Dequeued, JobStates

LEMMA AdmissionTyped ==
    ASSUME TypeOK, AdmissionSteps
    PROVE  TypeOK'
<1>1. ASSUME NEW i \in Invites, CreateInvite(i) \/ ExpireInvite(i)
      PROVE  TypeOK'
  <2>1. "none" \in InviteStates /\ "open" \in InviteStates
    BY DEF InviteStates
  <2>2. invite' \in [Invites -> InviteStates]
    BY <1>1, <2>1 DEF CreateInvite, ExpireInvite, TypeOK
  <2> QED
    BY <1>1, <2>2 DEF CreateInvite, ExpireInvite, TypeOK
<1>2. ASSUME NEW t \in Attempts, NEW i \in Invites \cup {NoInvite}, BeginSignIn(t, i)
      PROVE  TypeOK'
  BY <1>2, NewAttemptsTyped DEF BeginSignIn, TypeOK, appDb
<1>3. ASSUME NEW t \in Attempts, NEW a \in Accounts, NEW r \in Requests, BeginReconnect(t, a, r)
      PROVE  TypeOK'
  <2>1. request' \in [Requests -> RequestTypes]
    BY <1>3, NewRequestsTyped DEF BeginReconnect
  <2> QED
    BY <1>3, <2>1, NewAttemptsTyped, DequeuedTyped DEF BeginReconnect, TypeOK
<1>4. ASSUME NEW r \in Requests, NEW a \in Accounts, Disconnect(r, a)
      PROVE  TypeOK'
  <2>1. request' \in [Requests -> RequestTypes]
    BY <1>4, NewRequestsTyped DEF Disconnect
  <2> QED
    BY <1>4, <2>1, DequeuedTyped DEF Disconnect, TypeOK
<1>5. ASSUME NEW t \in Attempts, ExpireAttempt(t)
      PROVE  TypeOK'
  <2>1. attempt' \in [Attempts -> AttemptTypes]
    BY <1>5, AttemptsTyped DEF ExpireAttempt
  <2> QED
    BY <1>5, <2>1 DEF ExpireAttempt, TypeOK, appDb
<1>6. ASSUME NEW r \in Requests, NEW t \in Attempts, NEW a \in Accounts, Exchange(r, t, a)
      PROVE  TypeOK'
  <2>1. request' \in [Requests -> RequestTypes]
    BY <1>6, ReturnedTyped DEF Exchange
  <2>2. row' \in [Accounts -> [Tables -> Times]]
    BY <1>6, RowsTyped DEF Exchange, Tables
  <2>3. attempt' \in [Attempts -> AttemptTypes]
    BY <1>6, AttemptsTyped DEF Exchange
  <2> QED
    BY <1>6, <2>1, <2>2, <2>3 DEF Exchange, TypeOK
<1> QED
  BY <1>1, <1>2, <1>3, <1>4, <1>5, <1>6 DEF AdmissionSteps

LEMMA CallbackTyped ==
    ASSUME TypeOK, CallbackSteps
    PROVE  TypeOK'
<1> SUFFICES ASSUME NEW r \in Requests,
                    Complete(r) \/ RestoreSession(r) \/ SignIn(r) \/ SignInFails(r) \/ Leave(r)
             PROVE  TypeOK'
  BY DEF CallbackSteps
<1> DEFINE a == request[r].who
           t == request[r].attempt
<1>0. a \in Accounts
  BY UnderWay DEF Complete, RestoreSession, SignIn, SignInFails, Leave
<1> HIDE DEF a
<1>1. CASE Complete(r)
  <2>0. t \in Attempts
    BY <1>1, UnderWay DEF Complete
  <2>1. request' \in [Requests -> RequestTypes]
    BY <1>1, RequestsTyped, StepNames DEF Complete
  <2>2. row' \in [Accounts -> [Tables -> Times]]
    <3>1. row' = row \/ row' = With(a, "admissions")
      BY <1>1 DEF Complete, a
    <3> QED
      BY <3>1, <1>0, RowsTyped DEF Tables, TypeOK
  <2>3. attempt' \in [Attempts -> AttemptTypes]
    BY <1>1, <2>0, AttemptsTyped DEF Complete
  <2>4. invite' \in [Invites -> InviteStates]
    <3>1. \/ invite' = invite
          \/ Claimable(attempt[t].invite) /\ invite' = [invite EXCEPT ![attempt[t].invite] = a]
      BY <1>1, ModeKnown DEF Complete, MayJoin, a
    <3>2. a \in InviteStates /\ invite \in [Invites -> InviteStates]
      BY <1>0 DEF InviteStates, TypeOK
    <3> QED
      BY <3>1, <3>2
  <2> QED
    BY <1>1, <2>1, <2>2, <2>3, <2>4 DEF Complete, TypeOK
<1>2. CASE RestoreSession(r)
  <2>1. request' \in [Requests -> RequestTypes]
    BY <1>2, RequestsTyped, StepNames DEF RestoreSession
  <2> QED
    BY <1>2, <2>1 DEF RestoreSession, TypeOK, appDb
<1>3. CASE SignIn(r)
  <2>1. request' \in [Requests -> RequestTypes]
    BY <1>3, FinishTyped DEF SignIn
  <2>2. row' = row \/ row' = With(a, "users")
    BY <1>3 DEF SignIn, a
  <2>3. row' \in [Accounts -> [Tables -> Times]]
    BY <2>2, <1>0, RowsTyped DEF Tables, TypeOK
  <2> QED
    BY <1>3, <2>1, <2>3 DEF SignIn, TypeOK
<1>4. CASE SignInFails(r)
  <2>1. request' \in [Requests -> RequestTypes]
    BY <1>4, FinishTyped DEF SignInFails
  <2> QED
    BY <1>4, <2>1 DEF SignInFails, TypeOK, appDb
<1>5. CASE Leave(r)
  <2>1. request' \in [Requests -> RequestTypes]
    BY <1>5, FinishTyped DEF Leave
  <2>2. row' = Without(a, "oauth_sessions")
    BY <1>5 DEF Leave, a
  <2>3. row' \in [Accounts -> [Tables -> Times]]
    BY <2>2, <1>0, RowsTyped DEF Tables
  <2> QED
    BY <1>5, <2>1, <2>3 DEF Leave, TypeOK
<1> QED
  BY <1>1, <1>2, <1>3, <1>4, <1>5 DEF t

LEMMA EngineTyped ==
    ASSUME TypeOK, NEW a \in Accounts
    PROVE  /\ [engine EXCEPT ![a] = IF @ = "none" THEN "empty" ELSE @] \in [Accounts -> Files]
           /\ \A f \in Files : [engine EXCEPT ![a] = f] \in [Accounts -> Files]
           /\ {"none", "empty", "attributed"} = Files
BY DEF TypeOK, Files

LEMMA JobsTyped ==
    ASSUME TypeOK, NEW a \in Accounts, NEW s \in JobStates
    PROVE  [job EXCEPT ![a] = s] \in [Accounts -> JobStates]
BY DEF TypeOK

LEMMA BatchTyped ==
    ASSUME TypeOK, worker.who \in Accounts, NEW s \in JobStates
    PROVE  Batch(s) \in [Accounts -> JobStates]
BY JobsTyped DEF TypeOK, Batch

LEMMA WorkerTyped ==
    ASSUME TypeOK
    PROVE  /\ Resting \in WorkerTypes
           /\ \A p \in {"claimed", "planning", "writing"} :
                 worker.pc # "idle" => [worker EXCEPT !.pc = p] \in WorkerTypes
           /\ \A a \in Accounts : [pc |-> "claimed", who |-> a, lost |-> FALSE] \in WorkerTypes
<1>1. worker.pc # "idle" => worker \in [pc : {"claimed", "planning", "writing"},
                                        who : Accounts, lost : BOOLEAN]
  BY DEF TypeOK, WorkerTypes, Resting
<1>2. \A p \in {"claimed", "planning", "writing"} :
         worker.pc # "idle" => [worker EXCEPT !.pc = p] \in WorkerTypes
  BY <1>1 DEF WorkerTypes
<1>3. \A a \in Accounts : [pc |-> "claimed", who |-> a, lost |-> FALSE] \in WorkerTypes
  BY DEF WorkerTypes
<1> QED
  BY <1>2, <1>3 DEF WorkerTypes

LEMMA WorkTyped ==
    ASSUME TypeOK, WorkSteps
    PROVE  TypeOK'
<1>0. "none" \in JobStates /\ "queued" \in JobStates /\ "running" \in JobStates
  BY DEF JobStates
<1>1. ASSUME NEW r \in Requests, NEW a \in Accounts, PreviewStart(r, a)
      PROVE  TypeOK'
  <2>1. request' \in [Requests -> RequestTypes]
    BY <1>1, NewRequestsTyped DEF PreviewStart
  <2>2. row' \in [Accounts -> [Tables -> Times]]
    BY <1>1, RowsTyped DEF PreviewStart, Tables
  <2> QED
    BY <1>1, <2>1, <2>2 DEF PreviewStart, TypeOK
<1>2. ASSUME NEW r \in Requests, PreviewEngine(r)
      PROVE  TypeOK'
  <2>0. request[r].who \in Accounts
    BY <1>2, UnderWay DEF PreviewEngine
  <2>1. request' \in [Requests -> RequestTypes]
    BY <1>2, FinishTyped DEF PreviewEngine
  <2>2. row' \in [Accounts -> [Tables -> Times]]
    BY <1>2, <2>0, RowsTyped DEF PreviewEngine, Tables
  <2>3. engine' \in [Accounts -> Files]
    BY <1>2, <2>0, EngineTyped DEF PreviewEngine
  <2> QED
    BY <1>2, <2>1, <2>2, <2>3 DEF PreviewEngine, TypeOK
<1>3. ASSUME NEW r \in Requests, PreviewFails(r)
      PROVE  TypeOK'
  <2>1. request' \in [Requests -> RequestTypes]
    BY <1>3, FinishTyped DEF PreviewFails
  <2> QED
    BY <1>3, <2>1 DEF PreviewFails, TypeOK, appDb
<1>4. ASSUME NEW a \in Accounts, Approve(a)
      PROVE  TypeOK'
  BY <1>0, <1>4, JobsTyped DEF Approve, TypeOK
<1>5. ASSUME NEW a \in Accounts, Claim(a)
      PROVE  TypeOK'
  BY <1>0, <1>5, JobsTyped, WorkerTyped DEF Claim, TypeOK
<1>6. CASE Check
  <2>0. worker.who \in Accounts
    BY <1>6, UnderWay DEF Check
  <2>1. job' = job \/ job' = Batch("none")
    BY <1>6 DEF Check
  <2>2. job' \in [Accounts -> JobStates]
    BY <2>0, <2>1, <1>0, <1>6, BatchTyped DEF TypeOK
  <2>3. worker' \in WorkerTypes
    BY <1>6, WorkerTyped DEF Check
  <2>4. engine' \in [Accounts -> Files]
    BY <1>6, <2>0, EngineTyped DEF Check, TypeOK
  <2> QED
    BY <1>6, <2>2, <2>3, <2>4 DEF Check, TypeOK
<1>7. CASE Yield
  <2>0. worker.who \in Accounts
    BY <1>7, UnderWay DEF Yield
  <2>1. job' \in [Accounts -> JobStates]
    BY <1>0, <1>7, <2>0, BatchTyped DEF Yield
  <2> QED
    BY <1>7, <2>1, WorkerTyped DEF Yield, TypeOK
<1>8. CASE Write
  <2>0. worker.who \in Accounts
    BY <1>8, UnderWay DEF Write
  <2>1. engine' \in [Accounts -> Files]
    BY <1>8, <2>0, EngineTyped DEF Write
  <2>2. worker' \in WorkerTypes
    BY <1>8, WorkerTyped DEF Write
  <2> QED
    BY <1>8, <2>1, <2>2 DEF Write, TypeOK, appDb
<1>9. CASE WorkerRestart
  <2>0. worker.who \in Accounts
    BY <1>9, UnderWay DEF WorkerRestart
  <2>1. job' \in [Accounts -> JobStates]
    BY <1>0, <1>9, <2>0, BatchTyped DEF WorkerRestart
  <2> QED
    BY <1>9, <2>1, WorkerTyped DEF WorkerRestart, TypeOK
<1> QED
  BY <1>1, <1>2, <1>3, <1>4, <1>5, <1>6, <1>7, <1>8, <1>9 DEF WorkSteps

LEMMA DeletionTyped ==
    ASSUME TypeOK, DeletionSteps
    PROVE  TypeOK'
<1>1. ASSUME NEW r \in Requests, NEW a \in Accounts, NEW m \in Modes, RequestDeletion(r, a, m)
      PROVE  TypeOK'
  <2>1. request' \in [Requests -> RequestTypes]
    BY <1>1, NewRequestsTyped DEF RequestDeletion, TypeOK
  <2>2. job' \in [Accounts -> JobStates]
    BY <1>1, DequeuedTyped DEF RequestDeletion
  <2>3. deletion' \in [Accounts -> Modes \cup {"none"}]
    BY <1>1 DEF RequestDeletion, TypeOK
  <2> QED
    BY <1>1, <2>1, <2>2, <2>3 DEF RequestDeletion, TypeOK
<1>2. ASSUME NEW r \in Requests, DeleteSession(r)
      PROVE  TypeOK'
  <2>1. request' \in [Requests -> RequestTypes]
    BY <1>2, RequestsTyped, StepNames DEF DeleteSession
  <2>2. request[r].who \in Accounts
    BY <1>2, UnderWay DEF DeleteSession
  <2>3. row' \in [Accounts -> [Tables -> Times]]
    BY <1>2, <2>2, RowsTyped DEF DeleteSession, Tables
  <2> QED
    BY <1>2, <2>1, <2>3 DEF DeleteSession, TypeOK
<1>3. ASSUME NEW r \in Requests, WriteTombstone(r)
      PROVE  TypeOK'
  <2>0. request[r].who \in Accounts
    BY <1>3, UnderWay DEF WriteTombstone
  <2>1. CASE Finish(r) /\ UNCHANGED <<deletions, tombstone>>
    BY <1>3, <2>1, FinishTyped DEF WriteTombstone, TypeOK, appDb
  <2>2. ASSUME NEW b \in Accounts, b = request[r].who, deletions[b] < MaxDeletions,
               deletions' = [deletions EXCEPT ![b] = @ + 1],
               tombstone' = [tombstone EXCEPT ![b] = TombstoneDays],
               request' = [request EXCEPT ![r].pc = "tombstoned", ![r].mode = deletion[b]]
        PROVE  TypeOK'
    <3>1. deletions' \in [Accounts -> 0..MaxDeletions]
      BY <2>2, DaysAreNat DEF TypeOK
    <3>2. tombstone' \in [Accounts -> 0..TombstoneDays]
      BY <2>2, DaysAreNat DEF TypeOK
    <3>3. request' \in [Requests -> RequestTypes]
      <4>1. request[r] \in RequestTypes /\ request[r].pc = "cleared"
        BY <1>3 DEF WriteTombstone, TypeOK
      <4>2. request[r] \in [pc : Steps, who : Accounts, attempt : {NoAttempt},
                            mode : Modes \cup {"none"}]
        BY <4>1 DEF RequestTypes, Idle, At, Steps
      <4>3. \A d \in Modes \cup {"none"} :
               [[request[r] EXCEPT !.pc = "tombstoned"] EXCEPT !.mode = d]
                  \in [pc : Steps, who : Accounts, attempt : {NoAttempt}, mode : Modes \cup {"none"}]
        BY <4>2 DEF Steps
      <4>4. deletion[b] \in Modes \cup {"none"}
        BY DEF TypeOK
      <4>5. [[request[r] EXCEPT !.pc = "tombstoned"] EXCEPT !.mode = deletion[b]] \in RequestTypes
        BY <4>3, <4>4 DEF RequestTypes
      <4>6. request' = [request EXCEPT ![r] =
                           [[request[r] EXCEPT !.pc = "tombstoned"] EXCEPT !.mode = deletion[b]]]
        BY <2>2 DEF TypeOK
      <4> HIDE DEF RequestTypes
      <4> QED
        BY <4>5, <4>6 DEF TypeOK
    <3> QED
      BY <1>3, <3>1, <3>2, <3>3 DEF WriteTombstone, TypeOK, appDb
  <2> QED
    BY <1>3, <2>0, <2>1, <2>2 DEF WriteTombstone
<1>4. ASSUME NEW r \in Requests, PurgeRows(r)
      PROVE  TypeOK'
  <2>0. request[r].who \in Accounts /\ row \in [Accounts -> [Tables -> Times]]
    BY <1>4, UnderWay DEF PurgeRows, TypeOK
  <2>1. CASE Purge(row, {request[r].who}) /\ Continue(r, "purged")
    <3>1. request' \in [Requests -> RequestTypes]
      BY <1>4, <2>1, RequestsTyped, StepNames DEF PurgeRows
    <3>2. /\ row' \in [Accounts -> [Tables -> Times]]
          /\ deletion' \in [Accounts -> Modes \cup {"none"}]
          /\ job' \in [Accounts -> JobStates]
          /\ invite' \in [Invites -> InviteStates]
          /\ attempt' \in [Attempts -> AttemptTypes]
          /\ worker' \in WorkerTypes
      BY <2>0, <2>1, PurgeTyped
    <3> QED
      BY <1>4, <3>1, <3>2 DEF PurgeRows, TypeOK
  <2>2. CASE Finish(r) /\ UNCHANGED <<appDb, attempt, worker>>
    BY <1>4, <2>2, FinishTyped DEF PurgeRows, TypeOK, appDb
  <2> QED
    BY <1>4, <2>1, <2>2 DEF PurgeRows
<1>5. ASSUME NEW r \in Requests, RemoveEngineState(r)
      PROVE  TypeOK'
  <2>1. engine' \in [Accounts -> Files]
    BY <1>5 DEF RemoveEngineState, TypeOK, Files
  <2> QED
    BY <1>5, <2>1, FinishTyped DEF RemoveEngineState, TypeOK, appDb
<1> QED
  BY <1>1, <1>2, <1>3, <1>4, <1>5 DEF DeletionSteps

LEMMA BackupTyped ==
    ASSUME TypeOK, BackupSteps
    PROVE  TypeOK'
<1>1. CASE Snapshot
  <2>1. BackupDays \in 1..BackupDays
    BY <1>1, DaysAreNat DEF Snapshot
  <2>2. backup' \in Generations
    BY <1>1, <2>1 DEF Snapshot, TypeOK, Generations
  <2> QED
    BY <1>1, <2>2 DEF Snapshot, TypeOK, appDb
<1>2. CASE Crash
  <2>1. request' \in [Requests -> RequestTypes] /\ downDays' \in 0..RestoreDays
    BY <1>2, DaysAreNat DEF Crash, RequestTypes
  <2> QED
    BY <1>2, <2>1 DEF Crash, TypeOK, appDb
<1>3. CASE Restore
  <2>1. backup \in Generations
    BY <1>3 DEF Restore, TypeOK
  <2>2. /\ row' \in [Accounts -> [Tables -> Times]]
        /\ deletion' \in [Accounts -> Modes \cup {"none"}]
        /\ invite' \in [Invites -> InviteStates]
        /\ engine' \in [Accounts -> Files]
    BY <1>3, <2>1 DEF Restore, Generations
  <2>3. job' \in [Accounts -> JobStates]
    BY <1>3, <2>1 DEF Restore, Generations, JobStates
  <2>4. attempt' \in [Attempts -> AttemptTypes]
    BY <1>3 DEF Restore, NotStarted, AttemptTypes
  <2>5. worker' \in WorkerTypes /\ service' \in {"up", "down", "restored"}
    BY <1>3 DEF Restore, WorkerTypes
  <2> QED
    BY <1>3, <2>2, <2>3, <2>4, <2>5 DEF Restore, TypeOK
<1>4. CASE Start
  <2>1. Migrated \in [Accounts -> [Tables -> Times]]
    BY TimesAreInts DEF Migrated, TypeOK
  <2>2. Reapplied \in SUBSET Accounts
    BY DEF Reapplied, Candidates
  <2>3. /\ row' \in [Accounts -> [Tables -> Times]]
        /\ deletion' \in [Accounts -> Modes \cup {"none"}]
        /\ job' \in [Accounts -> JobStates]
        /\ invite' \in [Invites -> InviteStates]
        /\ attempt' \in [Attempts -> AttemptTypes]
        /\ worker' \in WorkerTypes
    BY <1>4, <2>1, <2>2, PurgeTyped DEF Start
  <2>4. engine' \in [Accounts -> Files]
    BY <1>4 DEF Start, TypeOK, Files
  <2> QED
    BY <1>4, <2>3, <2>4, DaysAreNat DEF Start, TypeOK
<1>5. CASE Day
  <2>1. downDays' \in 0..RestoreDays
    BY <1>5, DaysAreNat DEF Day, TypeOK
  <2>2. tombstone' \in [Accounts -> 0..TombstoneDays]
    BY <1>5, DaysAreNat DEF Day, TypeOK, Aged
  <2>3. backup' \in Generations \cup {NoGeneration}
    <3>1. CASE backup.left > 1
      <4>1. backup \in Generations /\ backup' = [backup EXCEPT !.left = backup.left - 1]
        BY <1>5, <3>1 DEF Day, TypeOK, NoGeneration
      <4>2. backup.left - 1 \in 1..BackupDays
        BY <3>1, <4>1, DaysAreNat DEF Generations
      <4> QED
        BY <4>1, <4>2 DEF Generations
    <3>2. CASE ~(backup.left > 1)
      BY <1>5, <3>2 DEF Day
    <3> QED
      BY <3>1, <3>2
  <2> QED
    BY <1>5, <2>1, <2>2, <2>3 DEF Day, TypeOK, appDb
<1> QED
  BY <1>1, <1>2, <1>3, <1>4, <1>5 DEF BackupSteps

LEMMA InitTyped ==
    ASSUME Init
    PROVE  TypeOK
<1>1. row \in [Accounts -> [Tables -> Times]]
  BY TimesAreInts DEF Init, NoRows
<1>2. attempt \in [Attempts -> AttemptTypes]
  BY DEF Init, NotStarted, AttemptTypes
<1>3. request \in [Requests -> RequestTypes] /\ worker \in WorkerTypes
  BY DEF Init, RequestTypes, WorkerTypes
<1>4. invite \in [Invites -> InviteStates] /\ job \in [Accounts -> JobStates]
  BY DEF Init, InviteStates, JobStates
<1>5. engine \in [Accounts -> Files] /\ deletion \in [Accounts -> Modes \cup {"none"}]
  BY DEF Init, Files
<1>6. deletions \in [Accounts -> 0..MaxDeletions] /\ tombstone \in [Accounts -> 0..TombstoneDays]
  BY DaysAreNat DEF Init
<1> QED
  BY <1>1, <1>2, <1>3, <1>4, <1>5, <1>6, DaysAreNat DEF Init, TypeOK

LEMMA StepTyped ==
    ASSUME TypeOK, [Next]_vars
    PROVE  TypeOK'
<1>1. CASE UNCHANGED vars
  BY <1>1 DEF TypeOK, vars
<1> QED
  BY <1>1, Parts, AdmissionTyped, CallbackTyped, WorkTyped, DeletionTyped, BackupTyped

\* Every variable keeps its type, and every request and worker under way knows
\* the account it works for.
THEOREM TypeCorrect == Spec => []TypeOK
BY InitTyped, StepTyped, PTL DEF Spec

-----------------------------------------------------------------------------
(* A deleted account stays deleted.  Whether it does can be said of each    *)
(* account alone: of its rows, what is pending for it, and how often it was *)
(* deleted.                                                                *)

\* Rows are no later than the clock, the users row is the oldest of them, and
\* a pending deletion has its user.
Ordered(rows, pending, d) ==
    /\ \A t \in Tables : rows[t] <= d
    /\ rows["users"] # Absent => \A t \in Tables : rows[t] # Absent => rows["users"] <= rows[t]
    /\ pending # "none" => rows["users"] # Absent

\* Rows that a deletion should have taken and that nothing is about to take.
Loose(rows, pending, d) ==
    pending = "none" /\ \E t \in Tables : rows[t] # Absent /\ rows[t] < d

\* In the service only restored data has such rows, and the ledger will know
\* of them for as long as the service may stay down ...
Settled(a) ==
    /\ Ordered(row[a], deletion[a], deletions[a])
    /\ Loose(row[a], deletion[a], deletions[a]) =>
          service = "restored" /\ tombstone[a] + downDays > RestoreDays

\* ... since it knows of those of a generation for longer than that is kept.
Retained(a) ==
    backup # NoGeneration =>
        /\ Ordered(backup.row[a], backup.deletion[a], deletions[a])
        /\ Loose(backup.row[a], backup.deletion[a], deletions[a]) =>
              tombstone[a] >= backup.left + RestoreDays

LedgerInv == \A a \in Accounts : Settled(a) /\ Retained(a)

LEMMA NoRowsSettled ==
    ASSUME NEW d \in 0..MaxDeletions
    PROVE  Ordered(NoRows, "none", d) /\ ~Loose(NoRows, "none", d)
BY DaysAreNat DEF Ordered, Loose, NoRows, Absent, Tables

\* A row that is written is current; a user is only added to rows that are.
LEMMA RowWritten ==
    ASSUME NEW rows \in [Tables -> Times], NEW pending, NEW d \in 0..MaxDeletions,
           Ordered(rows, pending, d), ~Loose(rows, pending, d), NEW t \in Tables,
           t = "users" => rows["users"] = Absent
    PROVE  /\ Ordered([rows EXCEPT ![t] = d], pending, d)
           /\ ~Loose([rows EXCEPT ![t] = d], pending, d)
<1> DEFINE new == [rows EXCEPT ![t] = d]
<1>1. /\ \A u \in Tables : rows[u] \in Int /\ new[u] = IF u = t THEN d ELSE rows[u]
      /\ d \in Int /\ d # Absent /\ "users" \in Tables /\ Absent \in Int
  BY DaysAreNat DEF Times, Absent, Tables
<1> HIDE DEF new
<1>2. \A u \in Tables : new[u] <= d
  BY <1>1 DEF Ordered
<1>3. pending # "none" => new["users"] # Absent
  BY <1>1 DEF Ordered
<1>4. ~Loose(new, pending, d)
  BY <1>1 DEF Loose
<1>5. new["users"] # Absent => \A u \in Tables : new[u] # Absent => new["users"] <= new[u]
  <2>1. CASE t = "users"
    <3>1. pending = "none"
      BY <2>1 DEF Ordered
    <3>2. \A u \in Tables : rows[u] = Absent \/ rows[u] >= d
      BY <1>1, <3>1 DEF Loose
    <3> QED
      BY <1>1, <2>1, <3>2
  <2>2. CASE t # "users"
    BY <1>1, <2>2 DEF Ordered
  <2> QED
    BY <2>1, <2>2
<1> QED
  BY <1>2, <1>3, <1>4, <1>5 DEF Ordered, new

LEMMA RowCleared ==
    ASSUME NEW rows \in [Tables -> Times], NEW pending, NEW d \in 0..MaxDeletions,
           Ordered(rows, pending, d), NEW t \in Tables \ {"users"}
    PROVE  /\ Ordered([rows EXCEPT ![t] = Absent], pending, d)
           /\ Loose([rows EXCEPT ![t] = Absent], pending, d) => Loose(rows, pending, d)
<1> DEFINE new == [rows EXCEPT ![t] = Absent]
<1>1. /\ \A u \in Tables : rows[u] \in Int /\ new[u] = IF u = t THEN Absent ELSE rows[u]
      /\ d \in Int /\ Absent <= d /\ "users" \in Tables /\ new["users"] = rows["users"]
  BY DaysAreNat DEF Times, Absent, Tables
<1> HIDE DEF new
<1> QED
  BY <1>1 DEF Ordered, Loose, new

-----------------------------------------------------------------------------
(* The steps, by what they do to the rows and the ledger.                  *)

ledgerVars == <<row, deletion, deletions, tombstone, backup, service, downDays>>

LEMMA NothingOfIt ==
    ASSUME LedgerInv, UNCHANGED ledgerVars
    PROVE  LedgerInv'
BY DEF LedgerInv, Settled, Retained, ledgerVars, Ordered, Loose, Absent

\* The rows of one account change while the service serves.
LEMMA RowsChange ==
    ASSUME TypeOK, LedgerInv, service = "up", NEW c \in Accounts, NEW new,
           row' = [row EXCEPT ![c] = new],
           Ordered(new, deletion[c], deletions[c]), ~Loose(new, deletion[c], deletions[c]),
           UNCHANGED <<deletion, deletions, tombstone, backup, service, downDays>>
    PROVE  LedgerInv'
<1> SUFFICES ASSUME NEW a \in Accounts PROVE Settled(a)' /\ Retained(a)'
  BY DEF LedgerInv
<1>1. Settled(a) /\ Retained(a)
  BY DEF LedgerInv
<1>2. row'[a] = IF a = c THEN new ELSE row[a]
  BY DEF TypeOK
<1>3. Settled(a)'
  BY <1>1, <1>2 DEF Settled, Ordered, Loose, Absent
<1>4. Retained(a)'
  BY <1>1 DEF Retained, Ordered, Loose, Absent
<1> QED
  BY <1>3, <1>4

LEMMA UpIsTight ==
    ASSUME TypeOK, LedgerInv, service = "up", NEW a \in Accounts
    PROVE  /\ Ordered(row[a], deletion[a], deletions[a])
           /\ ~Loose(row[a], deletion[a], deletions[a])
           /\ row[a] \in [Tables -> Times] /\ deletions[a] \in 0..MaxDeletions
BY DEF LedgerInv, Settled, TypeOK

LEMMA RowWrittenStep ==
    ASSUME TypeOK, LedgerInv, service = "up", NEW c \in Accounts, NEW t \in Tables,
           t = "users" => row[c]["users"] = Absent, row' = With(c, t),
           UNCHANGED <<deletion, deletions, tombstone, backup, service, downDays>>
    PROVE  LedgerInv'
<1>1. row' = [row EXCEPT ![c] = [row[c] EXCEPT ![t] = deletions[c]]]
  BY DEF With
<1>2. /\ Ordered([row[c] EXCEPT ![t] = deletions[c]], deletion[c], deletions[c])
      /\ ~Loose([row[c] EXCEPT ![t] = deletions[c]], deletion[c], deletions[c])
  BY UpIsTight, RowWritten
<1> QED
  BY <1>1, <1>2, RowsChange

LEMMA RowClearedStep ==
    ASSUME TypeOK, LedgerInv, service = "up", NEW c \in Accounts,
           row' = Without(c, "oauth_sessions"),
           UNCHANGED <<deletion, deletions, tombstone, backup, service, downDays>>
    PROVE  LedgerInv'
<1>0. "oauth_sessions" \in Tables \ {"users"}
  BY DEF Tables
<1>1. row' = [row EXCEPT ![c] = [row[c] EXCEPT !["oauth_sessions"] = Absent]]
  BY DEF Without
<1>2. /\ Ordered([row[c] EXCEPT !["oauth_sessions"] = Absent], deletion[c], deletions[c])
      /\ ~Loose([row[c] EXCEPT !["oauth_sessions"] = Absent], deletion[c], deletions[c])
  BY <1>0, UpIsTight, RowCleared
<1> QED
  BY <1>1, <1>2, RowsChange

LEMMA AdmissionLedger ==
    ASSUME TypeOK, LedgerInv, AdmissionSteps
    PROVE  LedgerInv'
<1>1. CASE UNCHANGED ledgerVars
  BY <1>1, NothingOfIt
<1>2. ASSUME NEW r \in Requests, NEW t \in Attempts, NEW a \in Accounts, Exchange(r, t, a)
      PROVE  LedgerInv'
  BY <1>2, RowWrittenStep DEF Exchange, Free, Tables
<1>3. \/ UNCHANGED ledgerVars
      \/ \E r \in Requests, t \in Attempts, a \in Accounts : Exchange(r, t, a)
  BY DEF AdmissionSteps, CreateInvite, ExpireInvite, BeginSignIn, BeginReconnect,
         ExpireAttempt, Disconnect, ledgerVars, appDb
<1> QED
  BY <1>1, <1>2, <1>3

LEMMA CallbackLedger ==
    ASSUME TypeOK, LedgerInv, CallbackSteps
    PROVE  LedgerInv'
<1> SUFFICES ASSUME NEW r \in Requests,
                    Complete(r) \/ RestoreSession(r) \/ SignIn(r) \/ SignInFails(r) \/ Leave(r)
             PROVE  LedgerInv'
  BY DEF CallbackSteps
<1>0. request[r].who \in Accounts /\ service = "up" /\ "users" \in Tables /\ "admissions" \in Tables
  BY UnderWay DEF Complete, RestoreSession, SignIn, SignInFails, Leave, Free, Tables
<1>1. CASE Complete(r)
  <2>1. row' = row \/ row' = With(request[r].who, "admissions")
    BY <1>1 DEF Complete
  <2>2. UNCHANGED <<deletion, deletions, tombstone, backup, service, downDays>>
    BY <1>1 DEF Complete
  <2>3. CASE row' = row
    BY <2>2, <2>3, NothingOfIt DEF ledgerVars
  <2>4. CASE row' = With(request[r].who, "admissions")
    BY <1>0, <2>2, <2>4, RowWrittenStep
  <2> QED
    BY <2>1, <2>3, <2>4
<1>2. CASE RestoreSession(r) \/ SignInFails(r)
  BY <1>2, NothingOfIt DEF RestoreSession, SignInFails, ledgerVars, appDb
<1>3. CASE SignIn(r)
  <2>1. UNCHANGED <<deletion, deletions, tombstone, backup, service, downDays>>
    BY <1>3 DEF SignIn
  <2>2. CASE Has(request[r].who, "users")
    BY <1>3, <2>1, <2>2, NothingOfIt DEF SignIn, ledgerVars
  <2>3. CASE ~Has(request[r].who, "users")
    <3>1. row' = With(request[r].who, "users") /\ row[request[r].who]["users"] = Absent
      BY <1>3, <2>3 DEF SignIn, Has
    <3> QED
      BY <1>0, <2>1, <3>1, RowWrittenStep
  <2> QED
    BY <2>2, <2>3
<1>4. CASE Leave(r)
  BY <1>0, <1>4, RowClearedStep DEF Leave
<1> QED
  BY <1>1, <1>2, <1>3, <1>4

LEMMA WorkLedger ==
    ASSUME TypeOK, LedgerInv, WorkSteps
    PROVE  LedgerInv'
<1>1. CASE UNCHANGED ledgerVars
  BY <1>1, NothingOfIt
<1>2. ASSUME NEW r \in Requests, NEW a \in Accounts, PreviewStart(r, a)
      PROVE  LedgerInv'
  BY <1>2, RowWrittenStep DEF PreviewStart, Free, Tables
<1>3. ASSUME NEW r \in Requests, PreviewEngine(r)
      PROVE  LedgerInv'
  <2>1. request[r].who \in Accounts
    BY <1>3, UnderWay DEF PreviewEngine
  <2> QED
    BY <1>3, <2>1, RowWrittenStep DEF PreviewEngine, Free, Tables
<1>4. \/ UNCHANGED ledgerVars
      \/ \E r \in Requests, a \in Accounts : PreviewStart(r, a)
      \/ \E r \in Requests : PreviewEngine(r)
  BY DEF WorkSteps, PreviewFails, Approve, Claim, Check, Yield, Write, WorkerRestart,
         ledgerVars, appDb
<1> QED
  BY <1>1, <1>2, <1>3, <1>4

\* The erasure of a set of accounts, from rows that are in order.
LEMMA PurgeSettles ==
    ASSUME TypeOK, NEW P \in SUBSET Accounts, NEW rows, Purge(rows, P), NEW a \in Accounts
    PROVE  /\ row'[a] = IF a \in P THEN NoRows ELSE rows[a]
           /\ deletion'[a] = IF a \in P THEN "none" ELSE deletion[a]
BY DEF Purge

LEMMA DeletionLedger ==
    ASSUME TypeOK, LedgerInv, DeletionSteps
    PROVE  LedgerInv'
<1>1. ASSUME NEW r \in Requests, NEW c \in Accounts, NEW m \in Modes, RequestDeletion(r, c, m)
      PROVE  LedgerInv'
  <2>1. /\ service = "up" /\ row[c]["users"] # Absent /\ m # "none"
        /\ deletion' = [deletion EXCEPT ![c] = m]
        /\ UNCHANGED <<row, deletions, tombstone, backup, service, downDays>>
    BY <1>1 DEF RequestDeletion, Free, SignedIn, Has, Modes
  <2> SUFFICES ASSUME NEW a \in Accounts PROVE Settled(a)' /\ Retained(a)'
    BY DEF LedgerInv
  <2>2. Settled(a) /\ Retained(a)
    BY DEF LedgerInv
  <2>3. deletion'[a] = IF a = c THEN m ELSE deletion[a]
    BY <2>1 DEF TypeOK
  <2>4. Settled(a)'
    BY <2>1, <2>2, <2>3 DEF Settled, Ordered, Loose, Absent
  <2>5. Retained(a)'
    BY <2>1, <2>2 DEF Retained, Ordered, Loose, Absent
  <2> QED
    BY <2>4, <2>5
<1>2. ASSUME NEW r \in Requests, DeleteSession(r)
      PROVE  LedgerInv'
  <2>1. request[r].who \in Accounts
    BY <1>2, UnderWay DEF DeleteSession
  <2> QED
    BY <1>2, <2>1, RowClearedStep DEF DeleteSession, Free
<1>3. ASSUME NEW r \in Requests, WriteTombstone(r)
      PROVE  LedgerInv'
  <2>1. CASE UNCHANGED <<deletions, tombstone>>
    BY <1>3, <2>1, NothingOfIt DEF WriteTombstone, ledgerVars, appDb
  <2>2. ASSUME NEW c \in Accounts, c = request[r].who, MayErase(c),
               deletions' = [deletions EXCEPT ![c] = @ + 1],
               tombstone' = [tombstone EXCEPT ![c] = TombstoneDays]
        PROVE  LedgerInv'
    <3>1. /\ service = "up" /\ deletion[c] # "none"
          /\ UNCHANGED <<row, deletion, backup, service, downDays>>
      BY <1>3, <2>2 DEF WriteTombstone, Free, MayErase, appDb
    <3> SUFFICES ASSUME NEW a \in Accounts PROVE Settled(a)' /\ Retained(a)'
      BY DEF LedgerInv
    <3>2. Settled(a) /\ Retained(a)
      BY DEF LedgerInv
    <3>3. /\ deletions[a] \in Int /\ tombstone[a] \in Int
          /\ deletions'[a] = IF a = c THEN deletions[a] + 1 ELSE deletions[a]
          /\ tombstone'[a] = IF a = c THEN TombstoneDays ELSE tombstone[a]
      BY <2>2, DaysAreNat DEF TypeOK
    <3>4. \A t \in Tables : row[a][t] \in Int
      BY DEF TypeOK, Times, Absent
    <3>5. Settled(a)'
      BY <3>1, <3>2, <3>3, <3>4 DEF Settled, Ordered, Loose, Absent
    <3>6. Retained(a)'
      <4>1. CASE backup = NoGeneration
        BY <3>1, <4>1 DEF Retained
      <4>2. CASE backup # NoGeneration
        <5>1. backup \in Generations
          BY <4>2 DEF TypeOK
        <5>2. backup.left \in 1..BackupDays /\ \A t \in Tables : backup.row[a][t] \in Int
          BY <5>1, DaysAreNat DEF Generations, Times, Absent
        <5>3. TombstoneDays >= backup.left + RestoreDays
          BY <5>2, LedgerOutlivesBackups, DaysAreNat
        <5>4. /\ Ordered(backup.row[a], backup.deletion[a], deletions[a])
              /\ Loose(backup.row[a], backup.deletion[a], deletions[a]) =>
                    tombstone[a] >= backup.left + RestoreDays
          BY <3>2, <4>2 DEF Retained
        <5>5. Ordered(backup.row[a], backup.deletion[a], deletions'[a])
          BY <3>3, <5>2, <5>4 DEF Ordered, Absent
        <5>6. a # c => deletions'[a] = deletions[a] /\ tombstone'[a] = tombstone[a]
          BY <3>3
        <5>7. Loose(backup.row[a], backup.deletion[a], deletions'[a]) =>
                 tombstone'[a] >= backup.left + RestoreDays
          BY <3>3, <5>3, <5>4, <5>6
        <5> QED
          BY <3>1, <5>5, <5>7 DEF Retained
      <4> QED
        BY <4>1, <4>2
    <3> QED
      BY <3>5, <3>6
  <2>3. request[r].who \in Accounts
    BY <1>3, UnderWay DEF WriteTombstone
  <2> QED
    BY <1>3, <2>1, <2>2, <2>3 DEF WriteTombstone
<1>4. ASSUME NEW r \in Requests, PurgeRows(r)
      PROVE  LedgerInv'
  <2>1. CASE UNCHANGED <<appDb, attempt, worker>>
    BY <1>4, <2>1, NothingOfIt DEF PurgeRows, ledgerVars, appDb
  <2>2. CASE Purge(row, {request[r].who})
    <3>0. request[r].who \in Accounts
      BY <1>4, UnderWay DEF PurgeRows
    <3>1. UNCHANGED <<deletions, tombstone, backup, service, downDays>>
      BY <1>4 DEF PurgeRows
    <3> SUFFICES ASSUME NEW a \in Accounts PROVE Settled(a)' /\ Retained(a)'
      BY DEF LedgerInv
    <3>2. Settled(a) /\ Retained(a) /\ deletions[a] \in 0..MaxDeletions
      BY DEF LedgerInv, TypeOK
    <3>3. \/ row'[a] = NoRows /\ deletion'[a] = "none"
          \/ row'[a] = row[a] /\ deletion'[a] = deletion[a]
      BY <2>2, <3>0, PurgeSettles
    <3>4. Settled(a)'
      BY <3>1, <3>2, <3>3, NoRowsSettled DEF Settled
    <3>5. Retained(a)'
      BY <3>1, <3>2 DEF Retained
    <3> QED
      BY <3>4, <3>5
  <2> QED
    BY <1>4, <2>1, <2>2 DEF PurgeRows
<1>5. ASSUME NEW r \in Requests, RemoveEngineState(r)
      PROVE  LedgerInv'
  BY <1>5, NothingOfIt DEF RemoveEngineState, ledgerVars, appDb
<1> QED
  BY <1>1, <1>2, <1>3, <1>4, <1>5 DEF DeletionSteps

\* What reconcileRestore passes over has no row older than its deletion.
LEMMA PassedOver ==
    ASSUME TypeOK, LedgerInv, service # "up", NEW a \in Accounts \ Reapplied
    PROVE  ~Loose(row[a], deletion[a], deletions[a])
<1> SUFFICES ASSUME Loose(row[a], deletion[a], deletions[a]) PROVE FALSE
  OBVIOUS
<1>1. Settled(a)
  BY DEF LedgerInv
<1>2. tombstone[a] > 0
  <2>1. tombstone[a] + downDays > RestoreDays
    BY <1>1 DEF Settled
  <2> QED
    BY <2>1, DaysAreNat DEF TypeOK
<1>3. PICK t \in Tables : row[a][t] # Absent /\ row[a][t] < deletions[a]
  BY DEF Loose
<1>4. a \in Candidates
  BY <1>3 DEF Candidates, Has
<1>5. row[a]["users"] # Absent /\ ~(row[a]["users"] < deletions[a])
  BY <1>2, <1>4 DEF Reapplied, Has, Outdated
<1>6. row[a]["users"] <= row[a][t]
  BY <1>1, <1>3, <1>5 DEF Settled, Ordered
<1>7. row[a][t] \in Int /\ row[a]["users"] \in Int /\ deletions[a] \in Int
  BY DEF TypeOK, Times, Tables, Absent
<1> QED
  BY <1>3, <1>5, <1>6, <1>7

\* The migration writes rows that are current.
LEMMA MigratedSettled ==
    ASSUME TypeOK, LedgerInv, NEW a \in Accounts
    PROVE  /\ Ordered(Migrated[a], deletion[a], deletions[a])
           /\ Loose(Migrated[a], deletion[a], deletions[a]) =>
                 Loose(row[a], deletion[a], deletions[a])
<1>1. Ordered(row[a], deletion[a], deletions[a])
  BY DEF LedgerInv, Settled
<1>2. CASE Migrated[a] = row[a]
  BY <1>1, <1>2
<1>3. CASE Migrated[a] = [row[a] EXCEPT !["admissions"] = deletions[a]]
  <2> DEFINE new == [row[a] EXCEPT !["admissions"] = deletions[a]]
             d == deletions[a]
  <2>1. /\ \A t \in Tables : row[a][t] \in Int /\ new[t] = IF t = "admissions" THEN d ELSE row[a][t]
        /\ d \in Int /\ "users" \in Tables /\ "admissions" \in Tables
    BY DEF TypeOK, Times, Absent, Tables
  <2>2. new["users"] = row[a]["users"]
    BY <2>1
  <2> HIDE DEF new
  <2>3. Ordered(new, deletion[a], d)
    BY <1>1, <2>1, <2>2 DEF Ordered
  <2>4. Loose(new, deletion[a], d) => Loose(row[a], deletion[a], d)
    BY <2>1 DEF Loose
  <2> QED
    BY <1>3, <2>3, <2>4 DEF new
<1> QED
  BY <1>2, <1>3 DEF Migrated

LEMMA BackupLedger ==
    ASSUME TypeOK, LedgerInv, BackupSteps
    PROVE  LedgerInv'
<1> SUFFICES ASSUME NEW a \in Accounts PROVE Settled(a)' /\ Retained(a)'
  BY DEF LedgerInv
<1>0. Settled(a) /\ Retained(a)
  BY DEF LedgerInv
<1>t. /\ tombstone[a] \in 0..TombstoneDays /\ deletions[a] \in 0..MaxDeletions
      /\ downDays \in 0..RestoreDays /\ RestoreDays \in Nat /\ TombstoneDays \in Nat
  BY DaysAreNat DEF TypeOK
<1>1. CASE Snapshot
  <2>1. /\ service = "up" /\ backup' # NoGeneration
        /\ backup'.row = row /\ backup'.deletion = deletion
        /\ UNCHANGED <<row, deletion, deletions, tombstone, service, downDays>>
    BY <1>1, DaysAreNat DEF Snapshot, NoGeneration, appDb
  <2>2. Settled(a)'
    BY <1>0, <2>1 DEF Settled, Ordered, Loose, Absent
  <2>3. /\ Ordered(backup'.row[a], backup'.deletion[a], deletions'[a])
        /\ ~Loose(backup'.row[a], backup'.deletion[a], deletions'[a])
    BY <2>1, UpIsTight
  <2> QED
    BY <2>2, <2>3 DEF Retained
<1>2. CASE Crash
  <2>1. /\ service = "up"
        /\ UNCHANGED <<row, deletion, deletions, tombstone, backup>>
    BY <1>2 DEF Crash, appDb
  <2>2. Settled(a)'
    BY <1>0, <2>1 DEF Settled, Ordered, Loose, Absent
  <2>3. Retained(a)'
    BY <1>0, <2>1 DEF Retained, Ordered, Loose, Absent
  <2> QED
    BY <2>2, <2>3
<1>3. CASE Restore
  <2>1. /\ backup # NoGeneration /\ backup \in Generations
        /\ row' = backup.row /\ deletion' = backup.deletion /\ service' = "restored"
        /\ UNCHANGED <<deletions, tombstone, backup, downDays>>
    BY <1>3 DEF Restore, TypeOK
  <2>2. backup.left \in 1..BackupDays
    BY <2>1 DEF Generations
  <2>3. /\ Ordered(backup.row[a], backup.deletion[a], deletions[a])
        /\ Loose(backup.row[a], backup.deletion[a], deletions[a]) =>
              tombstone[a] >= backup.left + RestoreDays
    BY <1>0, <2>1 DEF Retained
  <2>4. tombstone[a] >= backup.left + RestoreDays => tombstone[a] + downDays > RestoreDays
    BY <1>t, <2>2, DaysAreNat
  <2>5. Settled(a)'
    BY <2>1, <2>3, <2>4 DEF Settled
  <2>6. Retained(a)'
    BY <2>1, <2>3 DEF Retained
  <2> QED
    BY <2>5, <2>6
<1>4. CASE Start
  <2>0. /\ service # "up" /\ Purge(Migrated, Reapplied) /\ Reapplied \in SUBSET Accounts
        /\ UNCHANGED <<deletions, tombstone, backup>>
    BY <1>4 DEF Start, Reapplied, Candidates
  <2>1. CASE a \in Reapplied
    <3>1. row'[a] = NoRows /\ deletion'[a] = "none"
      BY <2>0, <2>1, PurgeSettles
    <3> QED
      BY <1>0, <1>t, <2>0, <3>1, NoRowsSettled DEF Settled, Retained
  <2>2. CASE a \notin Reapplied
    <3>1. row'[a] = Migrated[a] /\ deletion'[a] = deletion[a]
      BY <2>0, <2>2, PurgeSettles
    <3>2. ~Loose(row[a], deletion[a], deletions[a])
      BY <2>0, <2>2, PassedOver
    <3>3. /\ Ordered(Migrated[a], deletion[a], deletions[a])
          /\ ~Loose(Migrated[a], deletion[a], deletions[a])
      BY <3>2, MigratedSettled
    <3> QED
      BY <1>0, <2>0, <3>1, <3>3 DEF Settled, Retained
  <2> QED
    BY <2>1, <2>2
<1>5. CASE Day
  <2>1. /\ UNCHANGED <<row, deletion, deletions, service>>
        /\ service # "up" => downDays' = downDays + 1
        /\ tombstone'[a] = Aged(tombstone[a])
    BY <1>5 DEF Day, appDb
  <2>2. Settled(a)'
    <3>1. service # "up" /\ tombstone[a] + downDays > RestoreDays =>
             tombstone'[a] + downDays' > RestoreDays
      BY <1>t, <2>1 DEF Aged
    <3>2. Loose(row[a], deletion[a], deletions[a]) =>
             service = "restored" /\ tombstone'[a] + downDays' > RestoreDays
      BY <1>0, <3>1 DEF Settled
    <3>3. Ordered(row[a], deletion[a], deletions[a])
      BY <1>0 DEF Settled
    <3> QED
      BY <2>1, <3>2, <3>3 DEF Settled
  <2>3. Retained(a)'
    <3>1. CASE backup.left > 1
      <4>1. backup # NoGeneration /\ backup \in Generations
        BY <3>1 DEF NoGeneration, TypeOK
      <4>2. backup' = [backup EXCEPT !.left = backup.left - 1]
        BY <1>5, <3>1 DEF Day
      <4>3. backup'.row = backup.row /\ backup'.deletion = backup.deletion
            /\ backup'.left = backup.left - 1 /\ backup.left \in Int
        BY <4>1, <4>2, DaysAreNat DEF Generations
      <4>4. tombstone[a] >= backup.left + RestoreDays => tombstone'[a] >= backup'.left + RestoreDays
        BY <1>t, <2>1, <3>1, <4>3 DEF Aged
      <4>5. /\ Ordered(backup.row[a], backup.deletion[a], deletions[a])
            /\ Loose(backup.row[a], backup.deletion[a], deletions[a]) =>
                  tombstone[a] >= backup.left + RestoreDays
        BY <1>0, <4>1 DEF Retained
      <4> QED
        BY <2>1, <4>3, <4>4, <4>5 DEF Retained
    <3>2. CASE ~(backup.left > 1)
      BY <1>5, <3>2 DEF Day, Retained
    <3> QED
      BY <3>1, <3>2
  <2> QED
    BY <2>2, <2>3
<1> QED
  BY <1>1, <1>2, <1>3, <1>4, <1>5 DEF BackupSteps

LEMMA LedgerInit ==
    ASSUME Init
    PROVE  LedgerInv
<1> SUFFICES ASSUME NEW a \in Accounts PROVE Settled(a) /\ Retained(a)
  BY DEF LedgerInv
<1>1. row[a] = NoRows /\ deletion[a] = "none" /\ deletions[a] = 0 /\ backup = NoGeneration
  BY DEF Init
<1>2. deletions[a] \in 0..MaxDeletions
  BY <1>1, DaysAreNat
<1> QED
  BY <1>1, <1>2, NoRowsSettled DEF Settled, Retained

LEMMA LedgerStep ==
    ASSUME TypeOK, LedgerInv, [Next]_vars
    PROVE  LedgerInv'
<1>1. CASE UNCHANGED vars
  BY <1>1, NothingOfIt DEF vars, ledgerVars
<1> QED
  BY <1>1, Parts, AdmissionLedger, CallbackLedger, WorkLedger, DeletionLedger, BackupLedger

LEMMA LedgerKept == Spec => []LedgerInv
<1>1. TypeOK /\ LedgerInv /\ [Next]_vars => LedgerInv'
  BY LedgerStep
<1> QED
  BY LedgerInit, <1>1, TypeCorrect, PTL DEF Spec

\* While the service serves, the only rows older than an account's deletion are
\* those of a deletion still pending: through crashes, erasures that fail, and
\* restores of a generation of any age, as long as the ledger outlives the
\* generations by the days a restore may take (privacy.ts:142-168, 171-208).
THEOREM DeletedStaysDeleted == Spec => []DeletionHolds
<1>1. LedgerInv => DeletionHolds
  BY DEF LedgerInv, Settled, Loose, DeletionHolds, Outdated, Has
<1> QED
  BY <1>1, LedgerKept, PTL

-----------------------------------------------------------------------------
(* Invites and admissions agree, in the service and in the generation.     *)

Admitted(rows, a) == rows[a]["admissions"] # Absent

Agree(rows, codes) ==
    Mode = "invite" =>
        /\ \A i \in Invites : codes[i] \in Accounts => Admitted(rows, codes[i])
        /\ \A a \in Accounts \ Allowed : Admitted(rows, a) => \E i \in Invites : codes[i] = a

AdmissionInv ==
    /\ Agree(row, invite)
    /\ backup # NoGeneration => Agree(backup.row, backup.invite)

LEMMA AgreeNamesInvited == AdmissionInv => InvitesMatchAdmissions
BY DEF AdmissionInv, Agree, Admitted, InvitesMatchAdmissions, Invited, Has

\* Rows of other tables come and go.
LEMMA SameAdmissions ==
    ASSUME AdmissionInv, \A a \in Accounts : row'[a]["admissions"] = row[a]["admissions"],
           invite' = invite, backup' = backup
    PROVE  AdmissionInv'
BY DEF AdmissionInv, Agree, Admitted, Absent

LEMMA OtherTables ==
    ASSUME TypeOK, NEW c \in Accounts, NEW t \in Tables \ {"admissions"},
           row' = With(c, t) \/ row' = Without(c, t)
    PROVE  \A a \in Accounts : row'[a]["admissions"] = row[a]["admissions"]
<1>1. PICK n : row' = [row EXCEPT ![c] = [row[c] EXCEPT ![t] = n]]
  BY DEF With, Without
<1>2. \A a \in Accounts : row'[a] = IF a = c THEN [row[c] EXCEPT ![t] = n] ELSE row[a]
  BY <1>1 DEF TypeOK
<1>3. [row[c] EXCEPT ![t] = n]["admissions"] = row[c]["admissions"]
  BY DEF TypeOK, Tables
<1> QED
  BY <1>2, <1>3

LEMMA OtherTableStep ==
    ASSUME TypeOK, AdmissionInv, NEW c \in Accounts, NEW t \in Tables \ {"admissions"},
           row' = With(c, t) \/ row' = Without(c, t), invite' = invite, backup' = backup
    PROVE  AdmissionInv'
BY OtherTables, SameAdmissions

\* Of the tables, one is of admissions.
LEMMA TableNames ==
    /\ {"users", "oauth_sessions", "capacity_events"} \subseteq Tables \ {"admissions"}
    /\ "admissions" \in Tables
BY DEF Tables

LEMMA AdmissionAgrees ==
    ASSUME TypeOK, AdmissionInv, AdmissionSteps
    PROVE  AdmissionInv'
<1>1. CASE UNCHANGED <<row, invite, backup>>
  BY <1>1, SameAdmissions
<1>2. ASSUME NEW i \in Invites, CreateInvite(i) \/ ExpireInvite(i)
      PROVE  AdmissionInv'
  <2>1. /\ invite[i] \in {"none", "open"} /\ row' = row /\ backup' = backup
        /\ \/ invite' = [invite EXCEPT ![i] = "open"]
           \/ invite' = [invite EXCEPT ![i] = "none"]
    BY <1>2 DEF CreateInvite, ExpireInvite
  <2>2. /\ invite'[i] \notin Accounts /\ invite[i] \notin Accounts
        /\ \A j \in Invites : j # i => invite'[j] = invite[j]
    BY <2>1, NamesDiffer DEF TypeOK
  <2> QED
    BY <2>1, <2>2 DEF AdmissionInv, Agree, Admitted, Absent
<1>3. ASSUME NEW r \in Requests, NEW t \in Attempts, NEW a \in Accounts, Exchange(r, t, a)
      PROVE  AdmissionInv'
  BY <1>3, OtherTableStep, TableNames DEF Exchange
<1>4. \/ UNCHANGED <<row, invite, backup>>
      \/ \E i \in Invites : CreateInvite(i) \/ ExpireInvite(i)
      \/ \E r \in Requests, t \in Attempts, a \in Accounts : Exchange(r, t, a)
  BY DEF AdmissionSteps, BeginSignIn, BeginReconnect, ExpireAttempt, Disconnect, appDb
<1> QED
  BY <1>1, <1>2, <1>3, <1>4

LEMMA CallbackAgrees ==
    ASSUME TypeOK, AdmissionInv, CallbackSteps
    PROVE  AdmissionInv'
<1> SUFFICES ASSUME NEW r \in Requests,
                    Complete(r) \/ RestoreSession(r) \/ SignIn(r) \/ SignInFails(r) \/ Leave(r)
             PROVE  AdmissionInv'
  BY DEF CallbackSteps
<1>0. request[r].who \in Accounts
  BY UnderWay DEF Complete, RestoreSession, SignIn, SignInFails, Leave
<1>1. CASE Complete(r)
  <2>1. CASE UNCHANGED <<row, invite>>
    BY <1>1, <2>1, SameAdmissions DEF Complete
  <2>2. ASSUME NEW a \in Accounts, NEW i, a = request[r].who, MayJoin(a, request[r].attempt),
               i = attempt[request[r].attempt].invite, row' = With(a, "admissions"),
               invite' = IF Mode = "invite" THEN [invite EXCEPT ![i] = a] ELSE invite
        PROVE  AdmissionInv'
    <3>1. CASE Mode # "invite"
      BY <3>1 DEF AdmissionInv, Agree
    <3>2. CASE Mode = "invite"
      <4>1. i \in Invites /\ invite[i] = "open"
        <5>1. attempt[request[r].attempt] \in AttemptTypes
          BY <1>1, UnderWay DEF Complete, TypeOK
        <5> QED
          BY <5>1, <3>2, <2>2 DEF MayJoin, Claimable, AttemptTypes
      <4>2. /\ invite'[i] = a /\ \A j \in Invites : j # i => invite'[j] = invite[j]
            /\ invite[i] \notin Accounts
        BY <2>2, <3>2, <4>1, NamesDiffer DEF TypeOK
      <4>3. /\ row'[a]["admissions"] # Absent
            /\ \A b \in Accounts : b # a => row'[b] = row[b]
        BY <2>2, DaysAreNat, TableNames DEF With, TypeOK, Absent
      <4>4. backup' = backup
        BY <1>1 DEF Complete
      <4>5. Agree(row, invite)'
        BY <3>2, <4>1, <4>2, <4>3 DEF AdmissionInv, Agree, Admitted, Absent
      <4> QED
        BY <4>4, <4>5 DEF AdmissionInv, Agree, Admitted, Absent
    <3> QED
      BY <3>1, <3>2
  <2> QED
    BY <1>0, <1>1, <2>1, <2>2 DEF Complete
<1>2. CASE RestoreSession(r) \/ SignInFails(r)
  BY <1>2, SameAdmissions DEF RestoreSession, SignInFails, appDb
<1>3. CASE SignIn(r)
  <2>1. CASE row' = row
    BY <1>3, <2>1, SameAdmissions DEF SignIn
  <2>2. CASE row' = With(request[r].who, "users")
    BY <1>0, <1>3, <2>2, OtherTableStep, TableNames DEF SignIn
  <2> QED
    BY <1>3, <2>1, <2>2 DEF SignIn
<1>4. CASE Leave(r)
  BY <1>0, <1>4, OtherTableStep, TableNames DEF Leave
<1> QED
  BY <1>1, <1>2, <1>3, <1>4

LEMMA WorkAgrees ==
    ASSUME TypeOK, AdmissionInv, WorkSteps
    PROVE  AdmissionInv'
<1>1. CASE UNCHANGED <<row, invite, backup>>
  BY <1>1, SameAdmissions
<1>2. ASSUME NEW r \in Requests, NEW a \in Accounts, PreviewStart(r, a)
      PROVE  AdmissionInv'
  BY <1>2, OtherTableStep, TableNames DEF PreviewStart
<1>3. ASSUME NEW r \in Requests, PreviewEngine(r)
      PROVE  AdmissionInv'
  <2>1. request[r].who \in Accounts
    BY <1>3, UnderWay DEF PreviewEngine
  <2> QED
    BY <1>3, <2>1, OtherTableStep, TableNames DEF PreviewEngine
<1>4. \/ UNCHANGED <<row, invite, backup>>
      \/ \E r \in Requests, a \in Accounts : PreviewStart(r, a)
      \/ \E r \in Requests : PreviewEngine(r)
  BY DEF WorkSteps, PreviewFails, Approve, Claim, Check, Yield, Write, WorkerRestart, appDb
<1> QED
  BY <1>1, <1>2, <1>3, <1>4

\* An erasure takes the admission and its invite together.
LEMMA PurgeAgrees ==
    ASSUME TypeOK, AdmissionInv, NEW P \in SUBSET Accounts, NEW rows,
           \A a \in Accounts : a \notin Allowed => rows[a]["admissions"] = row[a]["admissions"],
           \A a \in Accounts : Admitted(row, a) => Admitted(rows, a),
           Purge(rows, P), backup' = backup
    PROVE  AdmissionInv'
<1>1. \A a \in Accounts : row'[a] = IF a \in P THEN NoRows ELSE rows[a]
  BY DEF Purge
<1>2. \A i \in Invites : invite'[i] = IF invite[i] \in P THEN "none" ELSE invite[i]
  BY DEF Purge
<1>3. NoRows["admissions"] = Absent /\ "none" \notin Accounts
  BY TableNames, NamesDiffer DEF NoRows
<1>4. Agree(row, invite)'
  <2> SUFFICES ASSUME Mode = "invite"
               PROVE  /\ \A i \in Invites : invite'[i] \in Accounts => Admitted(row', invite'[i])
                      /\ \A a \in Accounts \ Allowed :
                            Admitted(row', a) => \E i \in Invites : invite'[i] = a
    BY DEF Agree, Admitted, Absent
  <2>1. ASSUME NEW i \in Invites, invite'[i] \in Accounts
        PROVE  Admitted(row', invite'[i])
    <3>1. invite'[i] = invite[i] /\ invite[i] \notin P
      BY <1>2, <1>3, <2>1
    <3>2. Admitted(row, invite[i])
      BY <2>1, <3>1 DEF AdmissionInv, Agree
    <3> QED
      BY <1>1, <2>1, <3>1, <3>2 DEF Admitted
  <2>2. ASSUME NEW a \in Accounts \ Allowed, Admitted(row', a)
        PROVE  \E i \in Invites : invite'[i] = a
    <3>1. a \notin P /\ Admitted(row, a)
      BY <1>1, <1>3, <2>2 DEF Admitted
    <3>2. PICK i \in Invites : invite[i] = a
      BY <3>1 DEF AdmissionInv, Agree
    <3> QED
      BY <1>2, <3>1, <3>2
  <2> QED
    BY <2>1, <2>2
<1> QED
  BY <1>4 DEF AdmissionInv, Agree, Admitted, Absent

LEMMA DeletionAgrees ==
    ASSUME TypeOK, AdmissionInv, DeletionSteps
    PROVE  AdmissionInv'
<1>1. CASE UNCHANGED <<row, invite, backup>>
  BY <1>1, SameAdmissions
<1>2. ASSUME NEW r \in Requests, DeleteSession(r)
      PROVE  AdmissionInv'
  <2>1. request[r].who \in Accounts
    BY <1>2, UnderWay DEF DeleteSession
  <2> QED
    BY <1>2, <2>1, OtherTableStep, TableNames DEF DeleteSession
<1>3. ASSUME NEW r \in Requests, PurgeRows(r)
      PROVE  AdmissionInv'
  <2>1. request[r].who \in Accounts
    BY <1>3, UnderWay DEF PurgeRows
  <2>2. CASE Purge(row, {request[r].who})
    BY <1>3, <2>1, <2>2, PurgeAgrees DEF PurgeRows
  <2>3. CASE UNCHANGED <<appDb, attempt, worker>>
    BY <1>1, <1>3, <2>3 DEF PurgeRows, appDb
  <2> QED
    BY <1>3, <2>2, <2>3 DEF PurgeRows
<1>4. \/ UNCHANGED <<row, invite, backup>>
      \/ \E r \in Requests : DeleteSession(r) \/ PurgeRows(r)
  BY DEF DeletionSteps, RequestDeletion, WriteTombstone, RemoveEngineState, appDb
<1> QED
  BY <1>1, <1>2, <1>3, <1>4

LEMMA BackupAgrees ==
    ASSUME TypeOK, AdmissionInv, BackupSteps
    PROVE  AdmissionInv'
<1>1. CASE Snapshot
  <2>1. backup'.row = row /\ backup'.invite = invite /\ row' = row /\ invite' = invite
    BY <1>1 DEF Snapshot, appDb
  <2> QED
    BY <2>1 DEF AdmissionInv, Agree, Admitted, Absent
<1>2. CASE Crash
  BY <1>2, SameAdmissions DEF Crash, appDb
<1>3. CASE Restore
  <2>1. backup # NoGeneration /\ row' = backup.row /\ invite' = backup.invite /\ backup' = backup
    BY <1>3 DEF Restore
  <2> QED
    BY <2>1 DEF AdmissionInv, Agree, Admitted, Absent
<1>4. CASE Start
  <2>1. /\ Purge(Migrated, Reapplied) /\ Reapplied \in SUBSET Accounts /\ backup' = backup
    BY <1>4 DEF Start, Reapplied, Candidates
  <2>2. ASSUME NEW a \in Accounts
        PROVE  /\ a \notin Allowed => Migrated[a]["admissions"] = row[a]["admissions"]
               /\ Admitted(row, a) => Admitted(Migrated, a)
    BY DEF Migrated, Has, Admitted
  <2> QED
    BY <2>1, <2>2, PurgeAgrees
<1>5. CASE Day
  <2>1. row' = row /\ invite' = invite
    BY <1>5 DEF Day, appDb
  <2>2. CASE backup.left > 1
    <3>1. backup # NoGeneration /\ backup \in Generations
      BY <2>2 DEF NoGeneration, TypeOK
    <3>2. backup' = [backup EXCEPT !.left = backup.left - 1]
      BY <1>5, <2>2 DEF Day
    <3>3. backup'.row = backup.row /\ backup'.invite = backup.invite
      BY <3>1, <3>2 DEF Generations
    <3> QED
      BY <2>1, <3>1, <3>3 DEF AdmissionInv, Agree, Admitted, Absent
  <2>3. CASE ~(backup.left > 1)
    BY <1>5, <2>1, <2>3 DEF Day, AdmissionInv, Agree, Admitted, Absent
  <2> QED
    BY <2>2, <2>3
<1> QED
  BY <1>1, <1>2, <1>3, <1>4, <1>5 DEF BackupSteps

LEMMA AdmissionStep ==
    ASSUME TypeOK, AdmissionInv, [Next]_vars
    PROVE  AdmissionInv'
<1>1. CASE UNCHANGED vars
  BY <1>1, SameAdmissions DEF vars
<1> QED
  BY <1>1, Parts, AdmissionAgrees, CallbackAgrees, WorkAgrees, DeletionAgrees, BackupAgrees

\* An invite lets one account in, and an account outside the allowlist is in by
\* an invite of its own: through racing callbacks, expiries, deletions, restores
\* and the start-up migration (admission.ts:77-94, 149-190, privacy.ts:155-167).
THEOREM OneInviteOneAdmission == Spec => []InvitesMatchAdmissions
<1>1. Init => AdmissionInv
  <2> SUFFICES ASSUME Init PROVE AdmissionInv
    OBVIOUS
  <2>1. /\ \A i \in Invites : invite[i] \notin Accounts
        /\ \A a \in Accounts : ~Admitted(row, a) /\ backup = NoGeneration
    BY NamesDiffer, TableNames DEF Init, NoRows, Admitted
  <2> QED
    BY <2>1 DEF AdmissionInv, Agree, Init
<1>2. TypeOK /\ AdmissionInv /\ [Next]_vars => AdmissionInv'
  BY AdmissionStep
<1> QED
  BY <1>1, <1>2, TypeCorrect, AgreeNamesInvited, PTL DEF Spec

-----------------------------------------------------------------------------
(* The worker and an erasure keep out of each other's way.                 *)

Current(a) == row[a]["users"] = deletions[a]

\* A worker that has not lost its batch holds it, for a user no erasure took;
\* it sends nothing once it has lost it.
Working ==
    /\ worker # Resting /\ ~worker.lost => job[worker.who] = "running"
    /\ worker.pc \in {"planning", "writing"} /\ ~worker.lost => Current(worker.who)
    /\ worker.pc = "writing" => ~worker.lost
    /\ service = "restored" => worker = Resting

Erasers == {r \in Requests : request[r].pc \in {"tombstoned", "purged"}}

Erasing ==
    /\ \A r \in Erasers : ~Current(request[r].who)
    /\ service # "up" => \A r \in Requests : request[r] = Idle
    /\ ReleasesReviewed

LEMMA WorkerKeepsOut == Working /\ Erasing => NoWriteAfterErasure
BY DEF Working, Erasing, Erasers, NoWriteAfterErasure

LEMMA WorkingSame ==
    ASSUME TypeOK, Working, worker' = worker, service' = "restored" => service = "restored",
           \A a \in Accounts : job[a] = "running" => job'[a] = "running",
           \A a \in Accounts : Current(a) => Current(a)'
    PROVE  Working'
<1>1. worker # Resting => worker.who \in Accounts
  BY UnderWay
<1>2. Resting.pc = "idle"
  BY DEF Resting
<1> QED
  BY <1>1, <1>2 DEF Working, Resting

\* A row is written at the current time, and no handler clears the users row.
LEMMA UsersStayCurrent ==
    ASSUME TypeOK, NEW c \in Accounts, NEW t \in Tables,
           row' = With(c, t) \/ row' = Without(c, "oauth_sessions") \/ row' = row,
           deletions' = deletions
    PROVE  \A a \in Accounts : Current(a) => Current(a)'
<1>1. CASE row' = With(c, t)
  BY <1>1 DEF With, Current, TypeOK, Tables
<1>2. CASE row' = Without(c, "oauth_sessions")
  <2>1. row' = [row EXCEPT ![c] = [row[c] EXCEPT !["oauth_sessions"] = Absent]]
    BY <1>2 DEF Without
  <2>2. [row[c] EXCEPT !["oauth_sessions"] = Absent]["users"] = row[c]["users"]
    BY DEF TypeOK, Tables
  <2> QED
    BY <2>1, <2>2 DEF Current, TypeOK
<1>3. CASE row' = row
  BY <1>3 DEF Current
<1> QED
  BY <1>1, <1>2, <1>3

LEMMA AdmissionWorking ==
    ASSUME TypeOK, Working, AdmissionSteps
    PROVE  Working'
<1>1. worker' = worker /\ service' = service /\ deletions' = deletions
  BY DEF AdmissionSteps, CreateInvite, ExpireInvite, BeginSignIn, BeginReconnect,
         ExpireAttempt, Disconnect, Exchange, appDb
<1>j. \A a \in Accounts : job[a] = "running" => job'[a] = "running"
  <2>1. job' = job \/ \E c \in Accounts : job' = Dequeued(c)
    BY DEF AdmissionSteps, CreateInvite, ExpireInvite, BeginSignIn, BeginReconnect,
           ExpireAttempt, Disconnect, Exchange, appDb
  <2> QED
    BY <2>1 DEF Dequeued, TypeOK
<1>2. row' = row \/ \E c \in Accounts : row' = With(c, "oauth_sessions")
  BY DEF AdmissionSteps, CreateInvite, ExpireInvite, BeginSignIn, BeginReconnect,
         ExpireAttempt, Disconnect, Exchange, appDb
<1>3. \A a \in Accounts : Current(a) => Current(a)'
  BY <1>1, <1>2, UsersStayCurrent DEF Tables, Current
<1> QED
  BY <1>1, <1>j, <1>3, WorkingSame

LEMMA CallbackWorking ==
    ASSUME TypeOK, Working, CallbackSteps
    PROVE  Working'
<1> SUFFICES ASSUME NEW r \in Requests,
                    Complete(r) \/ RestoreSession(r) \/ SignIn(r) \/ SignInFails(r) \/ Leave(r)
             PROVE  Working'
  BY DEF CallbackSteps
<1>0. request[r].who \in Accounts
  BY UnderWay DEF Complete, RestoreSession, SignIn, SignInFails, Leave
<1>1. worker' = worker /\ service' = service /\ job' = job /\ deletions' = deletions
  BY DEF Complete, RestoreSession, SignIn, SignInFails, Leave, appDb
<1>2. \/ row' = row
      \/ \E t \in Tables : row' = With(request[r].who, t)
      \/ row' = Without(request[r].who, "oauth_sessions")
  BY DEF Complete, RestoreSession, SignIn, SignInFails, Leave, Tables, appDb
<1>3. "users" \in Tables
  BY DEF Tables
<1>4. \A a \in Accounts : Current(a) => Current(a)'
  BY <1>0, <1>1, <1>2, <1>3, UsersStayCurrent
<1> QED
  BY <1>1, <1>4, WorkingSame

LEMMA WorkWorking ==
    ASSUME TypeOK, LedgerInv, Working, WorkSteps
    PROVE  Working'
<1>0. worker # Resting => worker.who \in Accounts
  BY UnderWay
<1>1. ASSUME NEW r \in Requests, NEW a \in Accounts, PreviewStart(r, a)
      PROVE  Working'
  BY <1>1, UsersStayCurrent, WorkingSame DEF PreviewStart, Tables
<1>2. ASSUME NEW r \in Requests, PreviewEngine(r) \/ PreviewFails(r)
      PROVE  Working'
  <2>1. request[r].who \in Accounts
    BY <1>2, UnderWay DEF PreviewEngine, PreviewFails
  <2>2. /\ worker' = worker /\ service' = service /\ job' = job /\ deletions' = deletions
        /\ row' = row \/ row' = With(request[r].who, "capacity_events")
    BY <1>2 DEF PreviewEngine, PreviewFails, appDb
  <2>3. \A a \in Accounts : Current(a) => Current(a)'
    BY <2>1, <2>2, UsersStayCurrent DEF Tables
  <2> QED
    BY <2>2, <2>3, WorkingSame
<1>3. ASSUME NEW a \in Accounts, Approve(a)
      PROVE  Working'
  <2>1. worker' = worker /\ service' = service /\ row' = row /\ deletions' = deletions
    BY <1>3 DEF Approve
  <2>2. \A b \in Accounts : job[b] = "running" => job'[b] = "running"
    BY <1>3 DEF Approve, TypeOK
  <2> QED
    BY <2>1, <2>2, WorkingSame DEF Current
<1>4. ASSUME NEW a \in Accounts, Claim(a)
      PROVE  Working'
  <2>1. /\ worker' = [pc |-> "claimed", who |-> a, lost |-> FALSE]
        /\ job'[a] = "running" /\ service' = service /\ service # "restored"
    BY <1>4 DEF Claim, TypeOK
  <2> QED
    BY <2>1 DEF Working
<1>5. CASE Check
  <2>0. worker # Resting /\ worker \in [pc : {"claimed", "planning", "writing"},
                                       who : Accounts, lost : BOOLEAN]
    BY <1>5 DEF Check, Resting, TypeOK, WorkerTypes
  <2>1. UNCHANGED <<row, deletion, deletions, service>>
    BY <1>5 DEF Check
  <2>2. CASE worker' = Resting
    BY <2>2 DEF Working, Resting
  <2>3. CASE Proceeds(worker.who) /\ worker' = [worker EXCEPT !.pc = "planning"] /\ job' = job
    <3>1. service # "restored"
      BY <2>0 DEF Working
    <3>2. Settled(worker.who)
      BY <2>0 DEF LedgerInv
    <3>3. /\ row[worker.who]["users"] # Absent /\ deletion[worker.who] = "none" /\ ~worker.lost
          /\ "users" \in Tables
      BY <2>3 DEF Proceeds, SignedIn, Has, Tables
    <3>4. /\ row[worker.who]["users"] <= deletions[worker.who]
          /\ ~(row[worker.who]["users"] < deletions[worker.who])
      BY <3>1, <3>2, <3>3 DEF Settled, Ordered, Loose
    <3>5. row[worker.who]["users"] \in Int /\ deletions[worker.who] \in Int
      BY <2>0, <3>3 DEF TypeOK, Times, Absent
    <3>6. Current(worker.who)
      BY <3>4, <3>5 DEF Current
    <3>7. worker'.who = worker.who /\ worker'.lost = worker.lost /\ worker'.pc = "planning"
      BY <2>0, <2>3
    <3> QED
      BY <2>0, <2>1, <2>3, <3>1, <3>3, <3>6, <3>7 DEF Working, Current
  <2>4. CASE Proceeds(worker.who) /\ worker.pc = "planning"
             /\ worker' = [worker EXCEPT !.pc = "writing"] /\ job' = job
    <3>1. ~worker.lost /\ service # "restored"
      BY <2>0, <2>4 DEF Proceeds, Working
    <3>2. worker'.who = worker.who /\ worker'.lost = worker.lost /\ worker'.pc = "writing"
      BY <2>0, <2>4
    <3> QED
      BY <2>0, <2>1, <2>4, <3>1, <3>2 DEF Working, Current
  <2> QED
    BY <1>5, <2>2, <2>3, <2>4 DEF Check
<1>6. CASE Yield \/ WorkerRestart
  BY <1>6 DEF Yield, WorkerRestart, Working, Resting
<1>7. CASE Write
  <2>0. worker \in [pc : {"claimed", "planning", "writing"}, who : Accounts, lost : BOOLEAN]
        /\ worker # Resting
    BY <1>7 DEF Write, Resting, TypeOK, WorkerTypes
  <2>1. /\ worker.pc = "writing" /\ worker' = [worker EXCEPT !.pc = "planning"]
        /\ UNCHANGED <<row, job, deletions, service>>
    BY <1>7 DEF Write, appDb
  <2>2. worker'.who = worker.who /\ worker'.lost = worker.lost /\ worker'.pc = "planning"
    BY <2>0, <2>1
  <2> QED
    BY <2>0, <2>1, <2>2 DEF Working, Current
<1> QED
  BY <1>1, <1>2, <1>3, <1>4, <1>5, <1>6, <1>7 DEF WorkSteps

\* The worker of an erased account loses its batch; it is not sending then.
LEMMA PurgeWorking ==
    ASSUME TypeOK, Working, NEW P \in SUBSET Accounts, NEW rows, Purge(rows, P),
           \A a \in P : ~Current(a),
           \A a \in Accounts : rows[a]["users"] = row[a]["users"],
           deletions' = deletions, service' # "restored"
    PROVE  Working'
<1>1. CASE worker = Resting
  <2>1. worker.who \notin P /\ worker.lost = FALSE
    BY <1>1, NamesDiffer DEF Resting
  <2>2. worker' = [worker EXCEPT !.lost = FALSE]
    BY <2>1 DEF Purge
  <2>3. worker' = Resting
    BY <1>1, <2>2 DEF Resting
  <2> QED
    BY <2>3 DEF Working, Resting
<1>2. CASE worker # Resting
  <2>0. worker \in [pc : {"claimed", "planning", "writing"}, who : Accounts, lost : BOOLEAN]
    BY <1>2 DEF TypeOK, WorkerTypes
  <2>1. worker' = [worker EXCEPT !.lost = worker.lost \/ worker.who \in P]
    BY DEF Purge
  <2>2. worker'.pc = worker.pc /\ worker'.who = worker.who
    BY <2>0, <2>1
  <2>3. worker'.lost <=> worker.lost \/ worker.who \in P
    BY <2>0, <2>1
  <2>4. worker.who \notin P => job'[worker.who] = job[worker.who]
                              /\ row'[worker.who]["users"] = row[worker.who]["users"]
    BY <2>0 DEF Purge
  <2>5. worker.pc = "writing" => worker.who \notin P
    BY <2>0 DEF Working
  <2> QED
    BY <1>2, <2>0, <2>2, <2>3, <2>4, <2>5 DEF Working, Current
<1> QED
  BY <1>1, <1>2

LEMMA DeletionWorking ==
    ASSUME TypeOK, Working, Erasing, DeletionSteps
    PROVE  Working'
<1>1. ASSUME NEW r \in Requests, NEW c \in Accounts, NEW m \in Modes, RequestDeletion(r, c, m)
      PROVE  Working'
  <2>1. /\ worker' = worker /\ service' = service /\ row' = row /\ deletions' = deletions
        /\ \A b \in Accounts : job[b] = "running" => job'[b] = "running"
    BY <1>1 DEF RequestDeletion, Dequeued, TypeOK
  <2> QED
    BY <2>1, WorkingSame DEF Current
<1>2. ASSUME NEW r \in Requests, DeleteSession(r)
      PROVE  Working'
  <2>1. request[r].who \in Accounts
    BY <1>2, UnderWay DEF DeleteSession
  <2> QED
    BY <1>2, <2>1, UsersStayCurrent, WorkingSame DEF DeleteSession, Tables
<1>3. ASSUME NEW r \in Requests, WriteTombstone(r)
      PROVE  Working'
  <2>1. /\ worker' = worker /\ UNCHANGED <<row, job, service>>
        /\ deletions' = deletions \/ (~Active(request[r].who)
             /\ deletions' = [deletions EXCEPT ![request[r].who] = @ + 1])
    BY <1>3 DEF WriteTombstone, MayErase, appDb
  <2>2. worker # Resting => worker.who \in Accounts
    BY UnderWay
  <2>3. worker # Resting /\ ~worker.lost => deletions'[worker.who] = deletions[worker.who]
    BY <2>1, <2>2 DEF Working, Active, TypeOK
  <2> QED
    BY <2>1, <2>3 DEF Working, Current, Resting
<1>4. ASSUME NEW r \in Requests, PurgeRows(r)
      PROVE  Working'
  <2>1. CASE UNCHANGED <<appDb, attempt, worker>>
    BY <1>4, <2>1, WorkingSame DEF PurgeRows, appDb, Current
  <2>2. CASE Purge(row, {request[r].who})
    <3>1. request[r].who \in Accounts
      BY <1>4, UnderWay DEF PurgeRows
    <3>2. r \in Erasers /\ service # "restored"
      BY <1>4 DEF PurgeRows, Erasers, Erasing, Idle, At
    <3> QED
      BY <1>4, <2>2, <3>1, <3>2, PurgeWorking DEF PurgeRows, Erasing
  <2> QED
    BY <1>4, <2>1, <2>2 DEF PurgeRows
<1>5. ASSUME NEW r \in Requests, RemoveEngineState(r)
      PROVE  Working'
  BY <1>5, WorkingSame DEF RemoveEngineState, appDb, Current
<1> QED
  BY <1>1, <1>2, <1>3, <1>4, <1>5 DEF DeletionSteps

LEMMA BackupWorking ==
    ASSUME TypeOK, LedgerInv, Working, BackupSteps
    PROVE  Working'
<1>1. CASE Snapshot \/ Crash \/ Day
  <2>1. /\ UNCHANGED <<worker, row, job, deletions>>
        /\ service' = "restored" => service = "restored"
    BY <1>1 DEF Snapshot, Crash, Day, appDb
  <2> QED
    BY <2>1, WorkingSame DEF Current
<1>2. CASE Restore
  BY <1>2 DEF Restore, Working, Resting
<1>3. CASE Start
  <2>1. /\ Purge(Migrated, Reapplied) /\ deletions' = deletions /\ service' # "restored"
        /\ Reapplied \in SUBSET Accounts
    BY <1>3 DEF Start, Reapplied, Candidates
  <2>2. \A a \in Reapplied : ~Current(a)
    <3>1. \A a \in Reapplied : row[a]["users"] = Absent \/ row[a]["users"] < deletions[a]
      BY DEF Reapplied, Has, Outdated
    <3>2. \A a \in Accounts : deletions[a] \in Int /\ deletions[a] # Absent
      BY DaysAreNat DEF TypeOK, Absent
    <3> QED
      BY <2>1, <3>1, <3>2 DEF Current
  <2>3. \A a \in Accounts : Migrated[a]["users"] = row[a]["users"]
    <3>1. \A a \in Accounts : [row[a] EXCEPT !["admissions"] = deletions[a]]["users"] = row[a]["users"]
      BY DEF TypeOK, Tables
    <3> QED
      BY <3>1 DEF Migrated
  <2> QED
    BY <2>1, <2>2, <2>3, PurgeWorking
<1> QED
  BY <1>1, <1>2, <1>3 DEF BackupSteps

-----------------------------------------------------------------------------
(* The steps, by what they do to an erasure under way.                     *)

\* A step beside an erasure leaves its account and the record of its mutes.
LEMMA ErasingSame ==
    ASSUME TypeOK, Erasing, request' = request, service' = service, deletions' = deletions,
           row' = row,
           \A r \in Erasers : engine'[request[r].who] = "attributed" =>
                                engine[request[r].who] = "attributed"
    PROVE  Erasing'
BY DEF Erasing, Erasers, ReleasesReviewed, Current

\* A handler runs while there is no erasure, and most do not begin one.
LEMMA NoErasure ==
    ASSUME service' = "up", Erasers' = {}
    PROVE  Erasing'
BY DEF Erasing, Erasers, ReleasesReviewed

LEMMA FreeStep ==
    ASSUME TypeOK, Free, service' = service, NEW r \in Requests,
           \/ request' = request \/ Finish(r)
           \/ \E p \in {"restored", "cleared"} : Continue(r, p)
           \/ \E p \in {"admitted", "leaving"} : Admit(r, p)
           \/ \E p \in {"leaving", "previewing", "clearing"}, a \in Accounts : Begin(r, At(p, a))
           \/ \E t \in Attempts, a \in Accounts :
                 Begin(r, [At("returned", a) EXCEPT !.attempt = t])
    PROVE  Erasing'
<1>1. /\ service' = "up" /\ request \in [Requests -> RequestTypes]
      /\ \A q \in Requests : request[q].pc \notin {"tombstoned", "purged"}
  BY DEF Free, TypeOK
<1>2. ASSUME NEW new, request' = [request EXCEPT ![r] = new], new.pc \notin {"tombstoned", "purged"}
      PROVE  Erasing'
  <2>1. \A q \in Requests : request'[q].pc \notin {"tombstoned", "purged"}
    BY <1>1, <1>2
  <2> QED
    BY <1>1, <2>1, NoErasure DEF Erasers
<1>3. CASE request' = request
  BY <1>1, <1>3, NoErasure DEF Erasers
<1>4. CASE Finish(r)
  BY <1>2, <1>4 DEF Finish, Idle, At
<1>5. ASSUME NEW p \in {"restored", "cleared"}, Continue(r, p)
      PROVE  Erasing'
  <2>1. request' = [request EXCEPT ![r] = [request[r] EXCEPT !.pc = p]]
    BY <1>1, <1>5 DEF Continue
  <2>2. [request[r] EXCEPT !.pc = p].pc = p
    BY <1>1 DEF RequestTypes, Idle, At
  <2> QED
    BY <1>2, <2>1, <2>2
<1>6. ASSUME NEW p \in {"admitted", "leaving"}, Admit(r, p)
      PROVE  Erasing'
  <2>1. request' = [request EXCEPT ![r] =
                      [[request[r] EXCEPT !.pc = p] EXCEPT !.attempt = NoAttempt]]
    BY <1>1, <1>6 DEF Admit
  <2>2. [[request[r] EXCEPT !.pc = p] EXCEPT !.attempt = NoAttempt].pc = p
    BY <1>1 DEF RequestTypes, Idle, At
  <2> QED
    BY <1>2, <2>1, <2>2
<1>7. ASSUME NEW p \in {"leaving", "previewing", "clearing"}, NEW a \in Accounts, Begin(r, At(p, a))
      PROVE  Erasing'
  BY <1>2, <1>7 DEF Begin, At
<1>8. ASSUME NEW t \in Attempts, NEW a \in Accounts,
             Begin(r, [At("returned", a) EXCEPT !.attempt = t])
      PROVE  Erasing'
  <2>1. [At("returned", a) EXCEPT !.attempt = t].pc = "returned"
    BY DEF At
  <2> QED
    BY <1>2, <1>8, <2>1 DEF Begin
<1> QED
  BY <1>3, <1>4, <1>5, <1>6, <1>7, <1>8

LEMMA AdmissionErasing ==
    ASSUME TypeOK, Erasing, AdmissionSteps
    PROVE  Erasing'
<1>1. ASSUME NEW i \in Invites, CreateInvite(i) \/ ExpireInvite(i)
      PROVE  Erasing'
  BY <1>1, ErasingSame DEF CreateInvite, ExpireInvite
<1>2. ASSUME NEW t \in Attempts, NEW i \in Invites \cup {NoInvite}, BeginSignIn(t, i)
      PROVE  Erasing'
  BY <1>2, ErasingSame DEF BeginSignIn, appDb
<1>3. ASSUME NEW t \in Attempts, NEW a \in Accounts, NEW r \in Requests,
             BeginReconnect(t, a, r) \/ Disconnect(r, a)
      PROVE  Erasing'
  BY <1>3, FreeStep DEF BeginReconnect, Disconnect
<1>4. ASSUME NEW t \in Attempts, ExpireAttempt(t)
      PROVE  Erasing'
  BY <1>4, ErasingSame DEF ExpireAttempt, appDb
<1>5. ASSUME NEW t \in Attempts, NEW a \in Accounts, NEW r \in Requests, Exchange(r, t, a)
      PROVE  Erasing'
  BY <1>5, FreeStep DEF Exchange
<1>6. ASSUME NEW a \in Accounts, NEW r \in Requests, Disconnect(r, a)
      PROVE  Erasing'
  BY <1>6, FreeStep DEF Disconnect
<1> QED
  BY <1>1, <1>2, <1>3, <1>4, <1>5, <1>6 DEF AdmissionSteps

LEMMA CallbackErasing ==
    ASSUME TypeOK, Erasing, CallbackSteps
    PROVE  Erasing'
<1> SUFFICES ASSUME NEW r \in Requests,
                    Complete(r) \/ RestoreSession(r) \/ SignIn(r) \/ SignInFails(r) \/ Leave(r)
             PROVE  Erasing'
  BY DEF CallbackSteps
<1>1. /\ Free /\ service' = service
      /\ Finish(r) \/ Continue(r, "restored") \/ Admit(r, "admitted") \/ Admit(r, "leaving")
  BY DEF Complete, RestoreSession, SignIn, SignInFails, Leave
<1> QED
  BY <1>1, FreeStep

LEMMA WorkErasing ==
    ASSUME TypeOK, Working, Erasing, WorkSteps
    PROVE  Erasing'
<1>1. ASSUME NEW r \in Requests, NEW a \in Accounts, PreviewStart(r, a)
      PROVE  Erasing'
  BY <1>1, FreeStep DEF PreviewStart
<1>2. ASSUME NEW r \in Requests, PreviewEngine(r) \/ PreviewFails(r)
      PROVE  Erasing'
  BY <1>2, FreeStep DEF PreviewEngine, PreviewFails
<1>3. ASSUME NEW a \in Accounts, Approve(a) \/ Claim(a)
      PROVE  Erasing'
  BY <1>3, ErasingSame DEF Approve, Claim
<1>4. CASE Check
  <2>1. \A a \in Accounts : engine'[a] = "attributed" => engine[a] = "attributed"
    <3>1. engine' = engine \/
             engine' = [engine EXCEPT ![worker.who] = IF @ = "none" THEN "empty" ELSE @]
      BY <1>4 DEF Check
    <3> QED
      BY <3>1 DEF TypeOK
  <2>2. \A r \in Erasers : request[r].who \in Accounts
    BY UnderWay DEF Erasers
  <2> QED
    BY <1>4, <2>1, <2>2, ErasingSame DEF Check
<1>5. CASE Yield \/ WorkerRestart
  BY <1>5, ErasingSame DEF Yield, WorkerRestart
<1>6. CASE Write
  <2>1. /\ ~worker.lost /\ Current(worker.who) /\ worker.who \in Accounts
        /\ \E f \in Files : engine' = [engine EXCEPT ![worker.who] = f]
    BY <1>6, UnderWay DEF Write, Working, Files
  <2>2. \A r \in Erasers : request[r].who # worker.who
    BY <2>1 DEF Erasing
  <2>3. \A r \in Erasers : engine'[request[r].who] = engine[request[r].who]
    BY <2>1, <2>2 DEF TypeOK
  <2> QED
    BY <1>6, <2>3, ErasingSame DEF Write, appDb
<1> QED
  BY <1>1, <1>2, <1>3, <1>4, <1>5, <1>6 DEF WorkSteps

LEMMA DeletionErasing ==
    ASSUME TypeOK, LedgerInv, Erasing, DeletionSteps
    PROVE  Erasing'
<1>1. ASSUME NEW r \in Requests, NEW c \in Accounts, NEW m \in Modes, RequestDeletion(r, c, m)
      PROVE  Erasing'
  BY <1>1, FreeStep DEF RequestDeletion
<1>2. ASSUME NEW r \in Requests, DeleteSession(r)
      PROVE  Erasing'
  BY <1>2, FreeStep DEF DeleteSession
<1>3. ASSUME NEW r \in Requests, WriteTombstone(r)
      PROVE  Erasing'
  <2>0. /\ Free /\ service' = service /\ request[r].pc = "cleared" /\ request[r].who \in Accounts
        /\ UNCHANGED <<row, engine>>
    BY <1>3, UnderWay DEF WriteTombstone, appDb
  <2>1. CASE Finish(r)
    BY <2>0, <2>1, FreeStep
  <2>2. ASSUME NEW c \in Accounts, c = request[r].who, MayErase(c),
               deletions' = [deletions EXCEPT ![c] = @ + 1],
               request' = [request EXCEPT ![r].pc = "tombstoned", ![r].mode = deletion[c]]
        PROVE  Erasing'
    <3>1. request \in [Requests -> RequestTypes] /\ request[r] \in RequestTypes
      BY DEF TypeOK
    <3>2. request' = [request EXCEPT ![r] =
                        [[request[r] EXCEPT !.pc = "tombstoned"] EXCEPT !.mode = deletion[c]]]
      BY <2>2, <3>1
    <3>3. request[r] \in [pc : Steps, who : Accounts, attempt : {NoAttempt}, mode : Modes \cup {"none"}]
      BY <2>0, <3>1 DEF RequestTypes, Idle, At, Steps
    <3>4. request'[r].who = c /\ request'[r].mode = deletion[c]
      BY <2>2, <3>1, <3>2, <3>3
    <3>5. \A q \in Requests : q # r => request'[q].pc \notin {"tombstoned", "purged"}
      BY <2>0, <3>1, <3>2 DEF Free
    <3>6. ~Current(c)'
      <4>1. Ordered(row[c], deletion[c], deletions[c]) /\ "users" \in Tables
        BY DEF LedgerInv, Settled, Tables
      <4>2. row[c]["users"] <= deletions[c] /\ row[c]["users"] \in Int /\ deletions[c] \in Int
        BY <4>1 DEF Ordered, TypeOK, Times, Absent
      <4>3. deletions'[c] = deletions[c] + 1
        BY <2>2 DEF TypeOK
      <4> QED
        BY <2>0, <4>2, <4>3 DEF Current
    <3>7. deletion[c] = "after_releases" => engine'[c] # "attributed"
      BY <2>0, <2>2 DEF MayErase
    <3>8. \A q \in Erasers' : q = r
      BY <3>5 DEF Erasers
    <3>9. ReleasesReviewed'
      BY <3>4, <3>5, <3>7 DEF ReleasesReviewed
    <3>10. service' = "up"
      BY <2>0 DEF Free
    <3>11. \A q \in Erasers' :
              row'[request'[q].who]["users"] # deletions'[request'[q].who]
      BY <3>4, <3>6, <3>8 DEF Current
    <3> QED
      BY <3>9, <3>10, <3>11 DEF Erasing, Current
  <2> QED
    BY <1>3, <2>0, <2>1, <2>2 DEF WriteTombstone
<1>4. ASSUME NEW r \in Requests, PurgeRows(r)
      PROVE  Erasing'
  <2>0. /\ request \in [Requests -> RequestTypes] /\ request[r] \in RequestTypes
        /\ request[r].pc = "tombstoned" /\ request[r].who \in Accounts /\ r \in Erasers
        /\ UNCHANGED <<engine, deletions, service>>
    BY <1>4, UnderWay DEF PurgeRows, TypeOK, Erasers
  <2>1. CASE Finish(r) /\ UNCHANGED appDb
    <3>1. \A q \in Requests : request'[q] = IF q = r THEN Idle ELSE request[q]
      BY <2>0, <2>1 DEF Finish
    <3>2. Idle.pc = "idle"
      BY DEF Idle, At
    <3>3. \A q \in Erasers' : q \in Erasers /\ request'[q] = request[q]
      BY <3>1, <3>2 DEF Erasers
    <3>4. row' = row
      BY <2>1 DEF appDb
    <3>5. ReleasesReviewed'
      BY <2>0, <3>1, <3>2 DEF Erasing, ReleasesReviewed
    <3> QED
      BY <2>0, <3>1, <3>3, <3>4, <3>5 DEF Erasing, Current
  <2>2. CASE Purge(row, {request[r].who}) /\ Continue(r, "purged")
    <3>1. request[r] \in [pc : Steps, who : Accounts, attempt : {NoAttempt}, mode : Modes \cup {"none"}]
      BY <2>0 DEF RequestTypes, Idle, At, Steps
    <3>2. request' = [request EXCEPT ![r] = [request[r] EXCEPT !.pc = "purged"]]
      BY <2>0, <2>2 DEF Continue
    <3>3. /\ request'[r].who = request[r].who /\ request'[r].mode = request[r].mode
          /\ request'[r].pc = "purged"
          /\ \A q \in Requests : q # r => request'[q] = request[q]
      BY <2>0, <3>1, <3>2
    <3>4. \A q \in Erasers' : q \in Erasers /\ request'[q].who = request[q].who
      BY <2>0, <3>3 DEF Erasers
    <3>5. \A a \in Accounts : ~Current(a) => ~Current(a)'
      <4>1. \A a \in Accounts : row'[a] = NoRows \/ row'[a] = row[a]
        BY <2>2 DEF Purge
      <4>2. NoRows["users"] = Absent /\ \A a \in Accounts : deletions[a] # Absent
        BY DaysAreNat DEF NoRows, Tables, TypeOK, Absent
      <4> QED
        BY <2>0, <4>1, <4>2 DEF Current
    <3>6. ReleasesReviewed'
      BY <2>0, <3>3 DEF Erasing, ReleasesReviewed
    <3>7. service = "up"
      BY <2>0 DEF Erasing, Idle, At
    <3>8. \A q \in Erasers : request[q].who \in Accounts
      BY UnderWay DEF Erasers
    <3> QED
      BY <2>0, <3>4, <3>5, <3>6, <3>7, <3>8 DEF Erasing, Current
  <2> QED
    BY <1>4, <2>1, <2>2 DEF PurgeRows
<1>5. ASSUME NEW r \in Requests, RemoveEngineState(r)
      PROVE  Erasing'
  <2>0. /\ request \in [Requests -> RequestTypes] /\ request[r].who \in Accounts
        /\ engine' = [engine EXCEPT ![request[r].who] = "none"] /\ Finish(r)
        /\ UNCHANGED <<row, deletions, service>>
    BY <1>5, UnderWay DEF RemoveEngineState, TypeOK, appDb
  <2>1. \A q \in Requests : request'[q] = IF q = r THEN Idle ELSE request[q]
    BY <2>0 DEF Finish
  <2>2. Idle.pc = "idle"
    BY DEF Idle, At
  <2>3. \A q \in Erasers' : q \in Erasers /\ request'[q] = request[q]
    BY <2>1, <2>2 DEF Erasers
  <2>4. \A a \in Accounts : engine'[a] = "attributed" => engine[a] = "attributed"
    BY <2>0 DEF TypeOK
  <2>5. \A q \in Erasers : request[q].who \in Accounts
    BY UnderWay DEF Erasers
  <2>6. ReleasesReviewed'
    BY <2>1, <2>2, <2>4, <2>5 DEF Erasing, ReleasesReviewed, Erasers
  <2> QED
    BY <2>0, <2>1, <2>3, <2>6 DEF Erasing, Current
<1> QED
  BY <1>1, <1>2, <1>3, <1>4, <1>5 DEF DeletionSteps

LEMMA BackupErasing ==
    ASSUME TypeOK, Erasing, BackupSteps
    PROVE  Erasing'
<1>1. CASE Snapshot
  BY <1>1, ErasingSame DEF Snapshot, appDb
<1>2. CASE Crash \/ Restore \/ Start \/ Day
  <2>1. \A r \in Requests : request'[r] = Idle
    BY <1>2 DEF Crash, Restore, Start, Day, Erasing
  <2>2. Idle.pc = "idle"
    BY DEF Idle, At
  <2> QED
    BY <2>1, <2>2 DEF Erasing, Erasers, ReleasesReviewed
<1> QED
  BY <1>1, <1>2 DEF BackupSteps

LEMMA ErasureStep ==
    ASSUME TypeOK, LedgerInv, Working, Erasing, [Next]_vars
    PROVE  Working' /\ Erasing'
<1>1. CASE UNCHANGED vars
  BY <1>1, WorkingSame, ErasingSame DEF vars, Current
<1>2. CASE Next
  BY <1>2, Parts, AdmissionWorking, CallbackWorking, WorkWorking, DeletionWorking, BackupWorking,
     AdmissionErasing, CallbackErasing, WorkErasing, DeletionErasing, BackupErasing
<1> QED
  BY <1>1, <1>2

LEMMA ErasureKept == Spec => [](Working /\ Erasing)
<1>1. Init => Working /\ Erasing
  <2> SUFFICES ASSUME Init PROVE Working /\ Erasing
    OBVIOUS
  <2>1. worker = Resting /\ Resting.pc = "idle" /\ service = "up"
        /\ \A r \in Requests : request[r].pc = "idle"
    BY DEF Init, Resting, Idle, At
  <2> QED
    BY <2>1 DEF Working, Erasing, Erasers, ReleasesReviewed
<1>2. TypeOK /\ LedgerInv /\ Working /\ Erasing /\ [Next]_vars => Working' /\ Erasing'
  BY ErasureStep
<1> QED
  BY <1>1, <1>2, TypeCorrect, LedgerKept, PTL DEF Spec

\* The worker sends no moderation request for an account being erased, nor on a
\* batch whose rows were erased (worker.ts:106-113, 156-159, privacy.ts:133-144).
THEOREM NothingSentAfterErasure == Spec => []NoWriteAfterErasure
BY ErasureKept, WorkerKeepsOut, PTL

\* A deletion asked for after releases erases no record of a mute the service
\* still holds: the record cannot change between the standing that was read and
\* the last file removed (privacy.ts:139-168).
THEOREM ReleasesComeFirst == Spec => []ReleasesReviewed
<1>1. Erasing => ReleasesReviewed
  BY DEF Erasing
<1> QED
  BY <1>1, ErasureKept, PTL

-----------------------------------------------------------------------------
(* Who signed up again stays.                                               *)

\* What a step may do to the rows.
RowsWritten == \E c \in Accounts, u \in Tables : row' = With(c, u)
SessionDeleted == Free /\ \E c \in Accounts : row' = Without(c, "oauth_sessions")
RowsErased ==
    \E r \in Requests : request[r].pc = "tombstoned" /\ Purge(row, {request[r].who})

LEMMA RowSteps ==
    ASSUME TypeOK, Next
    PROVE  row' = row \/ RowsWritten \/ SessionDeleted \/ RowsErased \/ Restore \/ Start
<1>t. {"users", "oauth_sessions", "admissions", "capacity_events"} \subseteq Tables
  BY DEF Tables
<1>1. CASE AdmissionSteps
  <2>1. ASSUME NEW t \in Attempts, NEW a \in Accounts, NEW r \in Requests, Exchange(r, t, a)
        PROVE  RowsWritten
    BY <1>t, <2>1 DEF Exchange, RowsWritten
  <2> QED
    BY <1>1, <2>1 DEF AdmissionSteps, CreateInvite, ExpireInvite, BeginSignIn, BeginReconnect,
       ExpireAttempt, Disconnect, appDb
<1>2. CASE CallbackSteps
  <2>1. PICK r \in Requests :
             Complete(r) \/ RestoreSession(r) \/ SignIn(r) \/ SignInFails(r) \/ Leave(r)
    BY <1>2 DEF CallbackSteps
  <2>2. CASE RestoreSession(r) \/ SignInFails(r)
    BY <2>2 DEF RestoreSession, SignInFails, appDb
  <2>3. CASE Complete(r)
    <3>1. request[r].who \in Accounts
      BY <2>3, UnderWay DEF Complete
    <3> QED
      BY <1>t, <2>3, <3>1 DEF Complete, RowsWritten
  <2>4. CASE SignIn(r)
    <3>1. request[r].who \in Accounts
      BY <2>4, UnderWay DEF SignIn
    <3> QED
      BY <1>t, <2>4, <3>1 DEF SignIn, RowsWritten
  <2>5. CASE Leave(r)
    <3>1. request[r].who \in Accounts
      BY <2>5, UnderWay DEF Leave
    <3> QED
      BY <2>5, <3>1 DEF Leave, SessionDeleted
  <2> QED
    BY <2>1, <2>2, <2>3, <2>4, <2>5
<1>3. CASE WorkSteps
  <2>1. ASSUME NEW r \in Requests, PreviewEngine(r)
        PROVE  RowsWritten
    <3>1. request[r].who \in Accounts
      BY <2>1, UnderWay DEF PreviewEngine
    <3> QED
      BY <1>t, <2>1, <3>1 DEF PreviewEngine, RowsWritten
  <2>2. ASSUME NEW r \in Requests, NEW a \in Accounts, PreviewStart(r, a)
        PROVE  RowsWritten
    BY <1>t, <2>2 DEF PreviewStart, RowsWritten
  <2> QED
    BY <1>3, <2>1, <2>2 DEF WorkSteps, PreviewFails, Approve, Claim, Check, Yield, Write,
       WorkerRestart, appDb
<1>4. CASE DeletionSteps
  <2>1. ASSUME NEW r \in Requests, DeleteSession(r)
        PROVE  SessionDeleted
    <3>1. request[r].who \in Accounts
      BY <2>1, UnderWay DEF DeleteSession
    <3> QED
      BY <2>1, <3>1 DEF DeleteSession, SessionDeleted
  <2>2. ASSUME NEW r \in Requests, PurgeRows(r)
        PROVE  row' = row \/ RowsErased
    BY <2>2 DEF PurgeRows, RowsErased, appDb
  <2> QED
    BY <1>4, <2>1, <2>2 DEF DeletionSteps, WriteTombstone, RemoveEngineState, RequestDeletion, appDb
<1>5. CASE BackupSteps
  BY <1>5 DEF BackupSteps, Snapshot, Crash, Day, appDb
<1> QED
  BY <1>1, <1>2, <1>3, <1>4, <1>5, Parts

LEMMA NewerIsCurrent ==
    ASSUME TypeOK, LedgerInv, NEW a \in Accounts, UserIsNewer(a)
    PROVE  Current(a)
<1>1. Ordered(row[a], deletion[a], deletions[a]) /\ "users" \in Tables
  BY DEF LedgerInv, Settled, Tables
<1>2. row[a]["users"] \in Int /\ deletions[a] \in Int
  BY <1>1 DEF TypeOK, Times, Absent
<1> QED
  BY <1>1, <1>2 DEF UserIsNewer, Has, Outdated, Ordered, Current

LEMMA ConsentStep ==
    ASSUME TypeOK, LedgerInv, Erasing, [Next]_vars, NEW a \in Accounts, NEW t \in Tables,
           UserIsNewer(a), Has(a, t), service' # "restored"
    PROVE  Has(a, t)' \/ (t = "oauth_sessions" /\ service = "up")
<1>t. row \in [Accounts -> [Tables -> Times]] /\ \A c \in Accounts : deletions[c] # Absent
  BY DaysAreNat DEF TypeOK, Absent
<1>1. CASE row' = row
  BY <1>1 DEF Has
<1>2. CASE RowsWritten
  BY <1>t, <1>2 DEF RowsWritten, With, Has
<1>3. CASE SessionDeleted
  <2>1. service = "up"
    BY <1>3 DEF SessionDeleted, Free
  <2>2. t # "oauth_sessions" => row'[a][t] = row[a][t]
    BY <1>t, <1>3 DEF SessionDeleted, Without
  <2> QED
    BY <2>1, <2>2 DEF Has
<1>4. CASE RowsErased
  <2>1. PICK r \in Requests : request[r].pc = "tombstoned" /\ Purge(row, {request[r].who})
    BY <1>4 DEF RowsErased
  <2>2. a # request[r].who
    BY <2>1, NewerIsCurrent DEF Erasing, Erasers
  <2> QED
    BY <2>1, <2>2 DEF Purge, Has
<1>5. CASE Start
  <2>1. a \notin Reapplied
    BY DEF UserIsNewer, Reapplied
  <2>2. row'[a] = Migrated[a]
    BY <1>5, <2>1 DEF Start, Purge
  <2>3. Migrated[a] = row[a] \/ Migrated[a] = [row[a] EXCEPT !["admissions"] = deletions[a]]
    BY DEF Migrated
  <2> QED
    BY <1>t, <2>2, <2>3 DEF Has
<1>6. CASE UNCHANGED vars
  BY <1>6 DEF vars, Has
<1>7. ~Restore
  BY DEF Restore
<1> QED
  BY <1>1, <1>2, <1>3, <1>4, <1>5, <1>6, <1>7, RowSteps

\* What an account has after it signed up again, or before it was ever deleted,
\* goes only with a deletion that is in the ledger first, or with the restore of
\* a generation that did not have it (privacy.ts:142-143, 198-203).
THEOREM NewcomersStay == Spec => NewConsentStays
<1>1. TypeOK /\ LedgerInv /\ Erasing /\ [Next]_vars =>
        [row' # row /\ service' # "restored" =>
            \A a \in Accounts : UserIsNewer(a) =>
               \A t \in Tables : Has(a, t) => \/ Has(a, t)'
                                              \/ t = "oauth_sessions" /\ service = "up"]_vars
  BY ConsentStep
<1> QED
  BY <1>1, TypeCorrect, LedgerKept, ErasureKept, PTL DEF Spec, NewConsentStays

=============================================================================
