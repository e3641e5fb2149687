-------------------------- MODULE HostedJobsProofs --------------------------
(***************************************************************************)
(* Theorems about the hosted action pipeline.                              *)
(***************************************************************************)
EXTENDS HostedJobs, MCHostedJobs, TLAPS, FiniteSetTheorems, FunctionTheorems

\* The values that fill unused rows have the type of the used ones.
LEMMA FillersTyped ==
    /\ NoEffect \in [did : Accounts, status : EffectStatus]
    /\ NoApproval \in [did : Accounts, preview : 0..MaxPreviews, kind : Kinds]
    /\ NoPreview \in [did : Accounts, revision : Nat, rows : [Subjects -> Row],
                      state : {"absent", "live", "expired"}]
    /\ Idle \in Run /\ Stopped \in Run
<1>1. (CHOOSE d \in Accounts : TRUE) \in Accounts
  BY ConstantsAssumption
<1>2. NoRow \in Row /\ Unknown \in Observation
  BY DEF NoRow, Row, Unknown, Observation, Verdicts, LedgerStatus
<1>3. NoEffect \in [did : Accounts, status : EffectStatus]
  BY <1>1 DEF NoEffect, EffectStatus
<1>4. NoApproval \in [did : Accounts, preview : 0..MaxPreviews, kind : Kinds]
  BY <1>1, ConstantsAssumption DEF NoApproval, Kinds
<1>5. NoPreview \in [did : Accounts, revision : Nat, rows : [Subjects -> Row],
                      state : {"absent", "live", "expired"}]
  BY <1>1, <1>2 DEF NoPreview
<1>6. Idle \in Run
  BY <1>2 DEF Idle, Run, Steps
<1>7. Stopped \in Run
  BY <1>6 DEF Stopped, Idle, Run, Steps
<1> QED
  BY <1>3, <1>4, <1>5, <1>6, <1>7

LEMMA RowsTyped ==
    ASSUME TypeOK, NEW d \in Accounts, NEW unseen
    PROVE  RowsOf(d, unseen) \in [Subjects -> Row]
BY DEF TypeOK, WorldTypeOK, EngineTypeOK, RowsOf, Row, Unknown, Observation

LEMMA TypeInit == Init => TypeOK
<1> SUFFICES ASSUME Init PROVE TypeOK
  OBVIOUS
<1> USE FillersTyped, ConstantsAssumption
<1>1. AskTypeOK
  BY DEF Init, AskTypeOK
<1>2. JobTypeOK
  BY DEF Init, JobTypeOK, JobStatus, ItemStatus
<1>3. EngineTypeOK
  BY DEF Init, EngineTypeOK, LedgerStatus, AttemptStatus
<1>4. WorldTypeOK
  BY DEF Init, WorldTypeOK, Observation, Verdicts
<1>5. RunTypeOK
  BY DEF Init, RunTypeOK, LocalOK, Stopped, Idle, ItemSteps, EffectSteps
<1>6. ApprovedOK
  BY DEF Init, ApprovedOK, Stopped, Idle
<1> QED
  BY <1>1, <1>2, <1>3, <1>4, <1>5, <1>6 DEF TypeOK


\* A step of one worker changes its local state and nobody else's.
LEMMA BecomesFacts ==
    ASSUME RunTypeOK, NEW w \in Workers, NEW r \in Run, Becomes(w, r)
    PROVE  /\ run' \in [Workers -> Run] /\ run'[w] = r
           /\ \A v \in Workers : v # w => run'[v] = run[v]
BY DEF RunTypeOK, Becomes

LEMMA BecomesTyped ==
    ASSUME RunTypeOK, NEW w \in Workers, NEW r \in Run, LocalOK(r), Becomes(w, r)
    PROVE  RunTypeOK'
<1>1. /\ run' \in [Workers -> Run] /\ run'[w] = r
      /\ \A v \in Workers : v # w => run'[v] = run[v]
  BY BecomesFacts
<1>2. ASSUME NEW v \in Workers PROVE LocalOK(run'[v])
  <2>1. CASE v = w
    BY <1>1, <2>1
  <2>2. CASE v # w
    BY <1>1, <2>2 DEF RunTypeOK
  <2> QED
    BY <2>1, <2>2
<1> QED
  BY <1>1, <1>2 DEF RunTypeOK

LEMMA GoToTyped ==
    ASSUME RunTypeOK, NEW w \in Workers, NEW step \in Steps, GoTo(w, step),
           step \notin {"stopped", "idle"} => run[w].job # 0,
           step \in ItemSteps => run[w].subj # 0,
           step \in EffectSteps => run[w].slot # 0
    PROVE  RunTypeOK'
<1> DEFINE r == [run[w] EXCEPT !.pc = step]
<1>1. run[w] \in Run
  BY DEF RunTypeOK
<1>2. /\ r \in Run /\ r.pc = step /\ r.job = run[w].job /\ r.subj = run[w].subj
      /\ r.slot = run[w].slot
  BY <1>1 DEF Run
<1>3. LocalOK(r)
  BY <1>2 DEF LocalOK
<1> QED
  BY <1>2, <1>3, BecomesTyped DEF GoTo

LEMMA AdvanceTyped ==
    ASSUME RunTypeOK, NEW w \in Workers, run[w].job # 0, Advance(w)
    PROVE  RunTypeOK'
<1> DEFINE r == [run[w] EXCEPT !.pc = "next", !.todo = @ \ {run[w].subj},
                               !.subj = 0, !.fresh = Unknown, !.slot = 0]
<1>1. run[w] \in Run /\ Unknown \in Observation
  BY DEF RunTypeOK, Unknown, Observation
<1>2. r \in Run /\ r.pc = "next" /\ r.job = run[w].job
  BY <1>1 DEF Run, Steps
<1>3. LocalOK(r)
  BY <1>2 DEF LocalOK, ItemSteps, EffectSteps
<1> QED
  BY <1>2, <1>3, BecomesTyped DEF Advance

\* What a step leaves alone keeps its type.
LEMMA PartsKept ==
    /\ AskTypeOK /\ UNCHANGED askVars => AskTypeOK'
    /\ JobTypeOK /\ UNCHANGED jobVars => JobTypeOK'
    /\ EngineTypeOK /\ UNCHANGED engineVars => EngineTypeOK'
    /\ WorldTypeOK /\ UNCHANGED <<worldVars, moves, writes>> => WorldTypeOK'
    /\ RunTypeOK /\ UNCHANGED run => RunTypeOK'
    /\ ApprovedOK /\ UNCHANGED <<approval, status, run>> => ApprovedOK'
BY DEF AskTypeOK, askVars, JobTypeOK, jobVars, EngineTypeOK, engineVars,
       WorldTypeOK, worldVars, RunTypeOK, LocalOK, ApprovedOK

\* A step that creates no job and claims none keeps every run on an approved job.
LEMMA ApprovedKept ==
    ASSUME ApprovedOK, UNCHANGED approval,
           \A j \in Jobs : status'[j] # "absent" <=> status[j] # "absent",
           RunTypeOK,
           \A v \in Workers : run'[v].job \in {0, run[v].job}
    PROVE  ApprovedOK'
BY DEF ApprovedOK, RunTypeOK, Run

LEMMA EndRunTyped ==
    ASSUME TypeOK, NEW w \in Workers, NEW result \in JobStatus \ {"absent"},
           EndRun(w, result), run[w].job # 0, UNCHANGED approval
    PROVE  RunTypeOK' /\ ApprovedOK' /\ status' \in [Jobs -> JobStatus]
<1>1. Idle \in Run /\ LocalOK(Idle) /\ Idle.job = 0
  BY FillersTyped DEF Idle, LocalOK, ItemSteps, EffectSteps
<1>2. RunTypeOK'
  BY <1>1, BecomesTyped DEF EndRun, TypeOK
<1>3. status' \in [Jobs -> JobStatus]
  BY DEF EndRun, TypeOK, JobTypeOK
<1>4. run[w].job \in Jobs
  BY DEF TypeOK, RunTypeOK, Run
<1>5. \A j \in Jobs : status'[j] # "absent" <=> status[j] # "absent"
  BY <1>4 DEF EndRun, TypeOK, JobTypeOK, ApprovedOK
<1>6. \A v \in Workers : run'[v].job \in {0, run[v].job}
  BY <1>1, BecomesFacts DEF EndRun, TypeOK
<1> QED
  BY <1>2, <1>3, <1>5, <1>6, ApprovedKept DEF TypeOK

LEMMA GoToFacts ==
    ASSUME RunTypeOK, NEW w \in Workers, NEW step \in Steps, GoTo(w, step)
    PROVE  /\ run' \in [Workers -> Run]
           /\ run'[w].pc = step /\ run'[w].job = run[w].job /\ run'[w].todo = run[w].todo
           /\ run'[w].subj = run[w].subj /\ run'[w].plan = run[w].plan
           /\ run'[w].fresh = run[w].fresh /\ run'[w].slot = run[w].slot
           /\ \A v \in Workers : v # w => run'[v] = run[v]
           /\ \A v \in Workers : run'[v].job = run[v].job
<1>1. run[w] \in Run /\ [run[w] EXCEPT !.pc = step] \in Run
  BY DEF RunTypeOK, Run
<1>2. run' \in [Workers -> Run] /\ run'[w] = [run[w] EXCEPT !.pc = step]
      /\ \A v \in Workers : v # w => run'[v] = run[v]
  BY <1>1, BecomesFacts DEF GoTo
<1> QED
  BY <1>1, <1>2 DEF Run

LEMMA StaysTyped ==
    ASSUME RunTypeOK, ApprovedOK, NEW w \in Workers, NEW step \in Steps, GoTo(w, step),
           UNCHANGED <<approval, status>>
    PROVE  ApprovedOK'
BY GoToFacts DEF ApprovedOK

LEMMA FinishTyped ==
    ASSUME TypeOK, NEW w \in Workers, NEW success \in BOOLEAN, Finish(w, success),
           run[w].job # 0, run[w].subj # 0
    PROVE  EngineTypeOK'
<1>1. run[w].job \in Jobs /\ run[w].subj \in Subjects
  BY DEF TypeOK, RunTypeOK, Run
<1>2. Did(run[w].job) \in Accounts
  BY <1>1 DEF Did, TypeOK, AskTypeOK
<1> QED
  BY <1>1, <1>2 DEF Finish, TypeOK, EngineTypeOK, AttemptStatus, LedgerStatus

LEMMA AdvanceKeeps ==
    ASSUME RunTypeOK, ApprovedOK, NEW w \in Workers, Advance(w), UNCHANGED <<approval, status>>
    PROVE  ApprovedOK'
<1>1. run[w] \in Run /\ Unknown \in Observation
  BY DEF RunTypeOK, Unknown, Observation
<1> DEFINE r == [run[w] EXCEPT !.pc = "next", !.todo = @ \ {run[w].subj},
                               !.subj = 0, !.fresh = Unknown, !.slot = 0]
<1>2. r \in Run /\ r.job = run[w].job
  BY <1>1 DEF Run, Steps
<1>3. \A v \in Workers : run'[v].job = run[v].job
  BY <1>2, BecomesFacts DEF Advance
<1> QED
  BY <1>3 DEF ApprovedOK

LEMMA WorkerTyped ==
    ASSUME TypeOK, NEW w \in Workers, Start(w) \/ Crash(w) \/ Proceed(w)
    PROVE  TypeOK'
<1> AskTypeOK /\ JobTypeOK /\ EngineTypeOK /\ WorldTypeOK /\ RunTypeOK /\ ApprovedOK
  BY DEF TypeOK
<1> run[w] \in Run /\ LocalOK(run[w])
  BY DEF RunTypeOK
<1> /\ run[w].job # 0 => run[w].job \in Jobs /\ Did(run[w].job) \in Accounts
    /\ run[w].subj # 0 => run[w].subj \in Subjects
    /\ 0 \notin Jobs
  BY DEF Run, Did, AskTypeOK, Jobs
<1> USE PartsKept
<1>1. ASSUME Start(w)
      PROVE  TypeOK'
  <2>1. JobTypeOK'
    BY <1>1 DEF Start, Recover, JobTypeOK, JobStatus, ItemStatus
  <2>2. RunTypeOK'
    BY <1>1, GoToTyped DEF Start, Steps, ItemSteps, EffectSteps
  <2>3. \A v \in Workers : run'[v].job = run[v].job
    BY <1>1, GoToFacts DEF Start, Steps
  <2>4. ApprovedOK'
    BY <1>1, <2>3 DEF Start, Recover, ApprovedOK, RunTypeOK, Run, outside, askVars, JobTypeOK
  <2> QED
    BY <1>1, <2>1, <2>2, <2>3, <2>4 DEF Start, TypeOK, outside
<1>2. ASSUME Crash(w)
      PROVE  TypeOK'
  <2>1. Stopped \in Run /\ LocalOK(Stopped) /\ Stopped.job = 0
    BY FillersTyped DEF Stopped, Idle, LocalOK, ItemSteps, EffectSteps
  <2>2. RunTypeOK'
    BY <1>2, <2>1, BecomesTyped DEF Crash
  <2>3. \A v \in Workers : run'[v].job \in {0, run[v].job}
    BY <1>2, <2>1, BecomesFacts DEF Crash
  <2>4. ApprovedOK'
    BY <1>2, <2>3, ApprovedKept DEF Crash, askVars, jobVars
  <2>5. WorldTypeOK'
    BY <1>2 DEF Crash, Disturb, WorldTypeOK, worldVars
  <2> QED
    BY <1>2, <2>1, <2>2, <2>3, <2>4, <2>5 DEF Crash, TypeOK, outside
<1>3. ASSUME NEW j \in Jobs, Claim(w, j)
      PROVE  TypeOK'
  <2> DEFINE r == [run[w] EXCEPT !.pc = "claimed", !.job = j]
  <2>1. r \in Run /\ r.pc = "claimed" /\ r.job = j
    BY <1>3 DEF Run, Steps
  <2>2. LocalOK(r)
    BY <2>1 DEF LocalOK, ItemSteps, EffectSteps
  <2>3. RunTypeOK'
    BY <1>3, <2>1, <2>2, BecomesTyped DEF Claim
  <2>4. JobTypeOK'
    BY <1>3 DEF Claim, JobTypeOK, JobStatus
  <2>5. run'[w].job = j /\ \A v \in Workers : v # w => run'[v] = run[v]
    BY <1>3, <2>1, BecomesFacts DEF Claim
  <2>6. /\ status[j] = "queued" /\ status'[j] = "running" /\ approval' = approval
        /\ \A k \in Jobs : k # j => status'[k] = status[k]
    BY <1>3 DEF Claim, Claimable, JobTypeOK, outside, askVars
  <2>7. \A k \in Jobs : status'[k] # "absent" <=> status[k] # "absent"
    BY <2>6
  <2>8. \A v \in Workers : v # w /\ run'[v].job # 0 => run[v].job \in Jobs /\ run'[v].job = run[v].job
    BY <2>5 DEF RunTypeOK, Run
  <2>9. ApprovedOK'
    BY <2>5, <2>6, <2>7, <2>8 DEF ApprovedOK
  <2>10. AskTypeOK' /\ EngineTypeOK' /\ WorldTypeOK'
    BY <1>3 DEF Claim, outside
  <2> QED
    BY <2>3, <2>4, <2>9, <2>10 DEF TypeOK
<1>4. ASSUME Preflight(w)
      PROVE  TypeOK'
  <2>1. UNCHANGED item \/ SkipPending(run[w].job, "skipped_cancelled")
    BY <1>4 DEF Preflight
  <2>2. item' \in [Jobs -> [Subjects -> ItemStatus]]
    <3>1. run[w].pc = "claimed"
      BY <1>4 DEF Preflight
    <3> QED
      BY <2>1, <3>1 DEF LocalOK, SkipPending, JobTypeOK, ItemStatus
  <2>3. status' \in [Jobs -> JobStatus]
    BY <1>4 DEF Preflight, EndRun, JobTypeOK, JobStatus
  <2>4. JobTypeOK'
    BY <1>4, <2>2, <2>3 DEF Preflight, JobTypeOK
  <2>5. RunTypeOK' /\ ApprovedOK'
    BY <1>4, EndRunTyped, GoToTyped, StaysTyped
    DEF Preflight, LocalOK, Steps, ItemSteps, EffectSteps, JobStatus, outside, askVars
  <2>6. AskTypeOK' /\ EngineTypeOK' /\ WorldTypeOK'
    <3>1. UNCHANGED <<outside, engineVars, delayed, effect, writes>>
      BY <1>4 DEF Preflight
    <3> QED
      BY <3>1 DEF outside
  <2> QED
    BY <2>4, <2>5, <2>6 DEF TypeOK
<1>5. ASSUME NEW unseen \in SUBSET Subjects, Plan(w, unseen)
      PROVE  TypeOK'
  <2> DEFINE r == [run[w] EXCEPT !.pc = "next", !.plan = RowsOf(Did(run[w].job), unseen),
                        !.todo = {s \in Subjects : item[run[w].job][s] = "pending"}]
  <2>1. RowsOf(Did(run[w].job), unseen) \in [Subjects -> Row]
    BY <1>5, RowsTyped DEF Plan, LocalOK
  <2>2. r \in Run /\ r.pc = "next" /\ r.job = run[w].job
    BY <2>1 DEF Run, Steps
  <2>3. LocalOK(r)
    BY <1>5, <2>2 DEF Plan, LocalOK, ItemSteps, EffectSteps
  <2>4. RunTypeOK'
    BY <1>5, <2>2, <2>3, BecomesTyped DEF Plan
  <2>5. \A v \in Workers : run'[v].job = run[v].job
    BY <1>5, <2>2, BecomesFacts DEF Plan
  <2>6. ApprovedOK'
    BY <1>5, <2>5 DEF Plan, ApprovedOK, outside, askVars, jobVars
  <2> QED
    BY <1>5, <2>1, <2>2, <2>3, <2>4, <2>5, <2>6 DEF Plan, TypeOK, outside
<1>6. ASSUME ReadFails(w)
      PROVE  TypeOK'
  <2>1. JobTypeOK'
    BY <1>6 DEF ReadFails, EndRun, JobTypeOK, JobStatus
  <2>2. RunTypeOK' /\ ApprovedOK'
    BY <1>6, EndRunTyped DEF ReadFails, LocalOK, JobStatus, outside, askVars
  <2> QED
    BY <1>6, <2>1, <2>2 DEF ReadFails, TypeOK, outside
<1>7. ASSUME StopItems(w)
      PROVE  TypeOK'
  <2> DEFINE r == [run[w] EXCEPT !.todo = {}]
  <2>1. r \in Run /\ r.job = run[w].job /\ r.pc = "next"
    BY <1>7 DEF StopItems, Run, Steps
  <2>2. LocalOK(r)
    BY <1>7, <2>1 DEF StopItems, LocalOK, ItemSteps, EffectSteps
  <2>3. RunTypeOK'
    BY <1>7, <2>1, <2>2, BecomesTyped DEF StopItems
  <2>4. \A v \in Workers : run'[v].job = run[v].job
    BY <1>7, <2>1, BecomesFacts DEF StopItems
  <2>5. ApprovedOK'
    BY <1>7, <2>4 DEF StopItems, ApprovedOK, outside, askVars, jobVars
  <2>6. JobTypeOK'
    BY <1>7 DEF StopItems, SkipPending, JobTypeOK, ItemStatus
  <2> QED
    BY <1>7, <2>1, <2>2, <2>3, <2>4, <2>5, <2>6 DEF StopItems, TypeOK, outside
<1>8. ASSUME NEW s \in Subjects, SkipChanged(w, s)
      PROVE  TypeOK'
  <2> DEFINE r == [run[w] EXCEPT !.todo = @ \ {s}]
  <2>1. r \in Run /\ r.job = run[w].job /\ r.pc = "next"
    BY <1>8 DEF SkipChanged, Run, Steps
  <2>2. LocalOK(r)
    BY <1>8, <2>1 DEF SkipChanged, LocalOK, ItemSteps, EffectSteps
  <2>3. RunTypeOK'
    BY <1>8, <2>1, <2>2, BecomesTyped DEF SkipChanged
  <2>4. \A v \in Workers : run'[v].job = run[v].job
    BY <1>8, <2>1, BecomesFacts DEF SkipChanged
  <2>5. ApprovedOK'
    BY <1>8, <2>4 DEF SkipChanged, ApprovedOK, outside, askVars, jobVars
  <2>6. JobTypeOK'
    BY <1>8 DEF SkipChanged, JobTypeOK, ItemStatus
  <2> QED
    BY <1>8, <2>1, <2>2, <2>3, <2>4, <2>5, <2>6 DEF SkipChanged, TypeOK, outside
<1>9. ASSUME NEW s \in Subjects, StartItem(w, s)
      PROVE  TypeOK'
  <2> DEFINE r == [run[w] EXCEPT !.pc = "observing", !.subj = s]
  <2>1. r \in Run /\ r.job = run[w].job /\ r.pc = "observing" /\ r.subj # 0
    BY <1>9, ConstantsAssumption DEF StartItem, Run, Steps
  <2>2. LocalOK(r)
    <3>1. run[w].job # 0
      BY <1>9 DEF StartItem, LocalOK
    <3> QED
      BY <2>1, <3>1 DEF LocalOK, EffectSteps
  <2>0. Becomes(w, r)
    BY <1>9 DEF StartItem
  <2>3. RunTypeOK'
    BY <2>0, <2>1, <2>2, BecomesTyped
  <2>4. \A v \in Workers : run'[v].job = run[v].job
    BY <2>0, <2>1, BecomesFacts
  <2>5. ApprovedOK'
    BY <1>9, <2>4 DEF StartItem, ApprovedOK, outside, askVars, jobVars
  <2>6. AskTypeOK' /\ JobTypeOK' /\ EngineTypeOK' /\ WorldTypeOK'
    BY <1>9 DEF StartItem, outside
  <2> QED
    BY <2>3, <2>5, <2>6 DEF TypeOK
<1>10. ASSUME Observe(w)
      PROVE  TypeOK'
  <2>1. run[w].job # 0 /\ run[w].subj # 0
    BY <1>10 DEF Observe, LocalOK, ItemSteps
  <2>2. Unknown \in Observation /\ remote[Did(run[w].job)][run[w].subj] \in Observation
    BY <2>1 DEF WorldTypeOK, Unknown, Observation
  <2>3. PICK observed \in Observation :
              Becomes(w, [run[w] EXCEPT !.pc = "reserving", !.fresh = observed])
    BY <1>10, <2>2 DEF Observe
  <2> DEFINE r == [run[w] EXCEPT !.pc = "reserving", !.fresh = observed]
  <2>4. r \in Run /\ r.pc = "reserving" /\ r.job = run[w].job /\ r.subj = run[w].subj
    BY DEF Run, Steps
  <2>5. LocalOK(r)
    BY <2>1, <2>4 DEF LocalOK, EffectSteps
  <2>6. RunTypeOK'
    BY <2>3, <2>4, <2>5, BecomesTyped
  <2>7. \A v \in Workers : run'[v].job = run[v].job
    BY <2>3, <2>4, BecomesFacts
  <2>8. ApprovedOK'
    BY <1>10, <2>7 DEF Observe, ApprovedOK, outside, askVars, jobVars
  <2> QED
    BY <1>10, <2>1, <2>2, <2>3, <2>4, <2>5, <2>6, <2>7, <2>8 DEF Observe, TypeOK, outside
<1>11. ASSUME Reserve(w)
      PROVE  TypeOK'
  <2>1. CASE /\ SetItem(w, "skipped_changed") /\ Advance(w)
             /\ UNCHANGED <<status, effect>>
    <3>1. JobTypeOK'
      BY <1>11, <2>1 DEF Reserve, SetItem, JobTypeOK, ItemStatus
    <3>2. RunTypeOK' /\ ApprovedOK'
      BY <1>11, <2>1, AdvanceTyped, AdvanceKeeps DEF Reserve, LocalOK, outside, askVars
    <3> QED
      BY <1>11, <3>1, <3>2 DEF Reserve, TypeOK, outside
  <2>2. CASE EndRun(w, "paused_by_operator") /\ UNCHANGED <<item, effect>>
    <3>1. RunTypeOK' /\ ApprovedOK' /\ status' \in [Jobs -> JobStatus]
      BY <1>11, <2>2, EndRunTyped DEF Reserve, LocalOK, JobStatus, outside, askVars
    <3>2. JobTypeOK'
      BY <1>11, <2>2, <3>1 DEF Reserve, JobTypeOK
    <3> QED
      BY <1>11, <3>1, <3>2 DEF Reserve, TypeOK, outside
  <2>3. ASSUME NEW e \in Slots, Becomes(w, [run[w] EXCEPT !.pc = "journaling", !.slot = e]),
               effect' = [effect EXCEPT ![e] = [did |-> Did(run[w].job),
                                                status |-> "attempting"]],
               UNCHANGED <<status, item>>
        PROVE  TypeOK'
    <3> DEFINE r == [run[w] EXCEPT !.pc = "journaling", !.slot = e]
    <3>1. r \in Run /\ r.job = run[w].job /\ r.subj = run[w].subj /\ r.slot # 0
      <4>1. e # 0 /\ e \in Slots
        BY <2>3 DEF Slots
      <4> QED
        BY <4>1 DEF Run, Steps
    <3>2. RunTypeOK'
      <4>1. LocalOK(r)
        BY <1>11, <3>1 DEF Reserve, LocalOK, ItemSteps
      <4> QED
        BY <2>3, <3>1, <4>1, BecomesTyped
    <3>3. \A v \in Workers : run'[v].job = run[v].job
      BY <2>3, <3>1, BecomesFacts
    <3>4. ApprovedOK'
      <4>1. UNCHANGED <<approval, status>>
        BY <1>11, <2>3 DEF Reserve, outside, askVars
      <4> QED
        BY <3>3, <4>1 DEF ApprovedOK
    <3>5. Did(run[w].job) \in Accounts
      BY <1>11 DEF Reserve, Did, AskTypeOK, LocalOK, Run
    <3>6. JobTypeOK'
      BY <1>11, <2>3, <3>5 DEF Reserve, JobTypeOK, EffectStatus
    <3> QED
      BY <1>11, <3>2, <3>4, <3>6 DEF Reserve, TypeOK, outside
  <2> QED
    BY <1>11, <2>1, <2>2, <2>3 DEF Reserve
<1>12. ASSUME JournalCommits(w)
      PROVE  TypeOK'
  <2>1. EngineTypeOK'
    BY <1>12 DEF JournalCommits, LocalOK, ItemSteps, EffectSteps, EngineTypeOK, AttemptStatus, LedgerStatus
  <2>2. RunTypeOK' /\ ApprovedOK'
    BY <1>12, GoToTyped, StaysTyped
    DEF JournalCommits, LocalOK, Steps, ItemSteps, EffectSteps, outside, askVars, jobVars
  <2> QED
    BY <1>12, <2>1, <2>2 DEF JournalCommits, TypeOK, outside
<1>13. ASSUME JournalReplies(w)
      PROVE  TypeOK'
  <2>1. JobTypeOK'
    BY <1>13 DEF JournalReplies, SetItem, JobTypeOK, ItemStatus
  <2>2. RunTypeOK' /\ ApprovedOK'
    BY <1>13, GoToTyped, StaysTyped
    DEF JournalReplies, LocalOK, Steps, ItemSteps, EffectSteps, outside, askVars, jobVars
  <2> QED
    BY <1>13, <2>1, <2>2 DEF JournalReplies, TypeOK, outside
<1>14. ASSUME JournalFails(w)
      PROVE  TypeOK'
  <2>1. RunTypeOK' /\ ApprovedOK' /\ status' \in [Jobs -> JobStatus]
    BY <1>14, EndRunTyped DEF JournalFails, LocalOK, JobStatus, outside, askVars
  <2>2. JobTypeOK'
    BY <1>14, <2>1, FillersTyped DEF JournalFails, JobTypeOK
  <2> QED
    BY <1>14, <2>1, <2>2 DEF JournalFails, TypeOK, outside
<1>15. ASSUME LastGate(w)
      PROVE  TypeOK'
  <2>1. RunTypeOK' /\ ApprovedOK'
    BY <1>15, GoToTyped, StaysTyped
    DEF LastGate, LocalOK, Steps, ItemSteps, EffectSteps, outside, askVars, jobVars
  <2> QED
    BY <1>15, <2>1 DEF LastGate, TypeOK, outside
<1>16. ASSUME RefusalCommits(w)
      PROVE  TypeOK'
  <2>1. EngineTypeOK'
    BY <1>16, FinishTyped DEF RefusalCommits, LocalOK, ItemSteps, EffectSteps
  <2>2. RunTypeOK' /\ ApprovedOK'
    BY <1>16, GoToTyped, StaysTyped
    DEF RefusalCommits, LocalOK, Steps, ItemSteps, EffectSteps, outside, askVars, jobVars
  <2> QED
    BY <1>16, <2>1, <2>2 DEF RefusalCommits, TypeOK, outside
<1>17. ASSUME RefusalReplies(w)
      PROVE  TypeOK'
  <2>0. /\ run[w].job # 0 /\ EndRun(w, "paused_by_operator") /\ UNCHANGED approval
        /\ "paused_by_operator" \in JobStatus \ {"absent"}
    BY <1>17 DEF RefusalReplies, LocalOK, JobStatus, outside, askVars
  <2>1. RunTypeOK' /\ ApprovedOK' /\ status' \in [Jobs -> JobStatus]
    BY <2>0, EndRunTyped
  <2>2. JobTypeOK'
    BY <1>17, <2>1, FillersTyped DEF RefusalReplies, SetItem, JobTypeOK, ItemStatus
  <2> QED
    BY <1>17, <2>1, <2>2 DEF RefusalReplies, TypeOK, outside
<1>18. ASSUME WorkerError(w)
      PROVE  TypeOK'
  <2>0. /\ run[w].job # 0 /\ EndRun(w, "failed") /\ UNCHANGED approval
        /\ "failed" \in JobStatus \ {"absent"}
    BY <1>18 DEF WorkerError, LocalOK, JobStatus, outside, askVars
  <2>1. RunTypeOK' /\ ApprovedOK' /\ status' \in [Jobs -> JobStatus]
    BY <2>0, EndRunTyped
  <2>2. JobTypeOK'
    BY <1>18, <2>1 DEF WorkerError, JobTypeOK
  <2>3. AskTypeOK' /\ EngineTypeOK' /\ WorldTypeOK'
    BY <1>18 DEF WorkerError, outside
  <2> QED
    BY <2>1, <2>2, <2>3 DEF TypeOK
<1>19. ASSUME NEW applied \in BOOLEAN, NEW answered \in BOOLEAN, Write(w, applied, answered)
      PROVE  TypeOK'
  <2>1. run[w].job # 0 /\ run[w].subj # 0
    BY <1>19 DEF Write, LocalOK, ItemSteps, EffectSteps
  <2>2. writes' \in [Jobs -> [Subjects -> Nat]]
    <3>1. writes' = [writes EXCEPT ![run[w].job][run[w].subj] = @ + 1]
      BY <1>19 DEF Write
    <3> QED
      BY <3>1, <2>1 DEF WorldTypeOK
  <2>3. \A observed \in Observation, b \in BOOLEAN : [observed EXCEPT !.direct = b] \in Observation
    BY DEF Observation
  <2>4. remote' \in [Accounts -> [Subjects -> Observation]]
    BY <1>19, <2>1, <2>3 DEF Write, WorldTypeOK
  <2>5. WorldTypeOK'
    BY <1>19, <2>2, <2>4 DEF Write, WorldTypeOK
  <2>6. RunTypeOK' /\ ApprovedOK'
    BY <1>19, GoToTyped, StaysTyped
    DEF Write, LocalOK, Steps, ItemSteps, EffectSteps, outside, askVars, jobVars
  <2> QED
    BY <1>19, <2>1, <2>2, <2>3, <2>4, <2>5, <2>6 DEF Write, TypeOK, outside
<1>20. ASSUME Confirm(w)
      PROVE  TypeOK'
  <2>1. RunTypeOK' /\ ApprovedOK'
    BY <1>20, GoToTyped, StaysTyped
    DEF Confirm, LocalOK, Steps, ItemSteps, EffectSteps, outside, askVars, jobVars
  <2>2. AskTypeOK' /\ JobTypeOK' /\ EngineTypeOK' /\ WorldTypeOK'
    BY <1>20 DEF Confirm, outside
  <2> QED
    BY <2>1, <2>2 DEF TypeOK
<1>21. ASSUME Settle(w)
      PROVE  TypeOK'
  <2>1. EngineTypeOK'
    BY <1>21, FinishTyped DEF Settle, LocalOK, ItemSteps, EffectSteps
  <2>2. RunTypeOK' /\ ApprovedOK'
    <3>1. Advance(w) /\ run[w].job # 0 /\ UNCHANGED <<approval, status>>
      BY <1>21 DEF Settle, LocalOK, outside, askVars
    <3> QED
      BY <3>1, AdvanceTyped, AdvanceKeeps
  <2>3. JobTypeOK'
    <3> DEFINE outcome == IF run[w].pc = "proven" THEN "confirmed" ELSE "uncertain"
    <3>1. /\ item' = [item EXCEPT ![run[w].job][run[w].subj] = outcome]
          /\ effect' = [effect EXCEPT ![run[w].slot].status = outcome]
          /\ UNCHANGED <<status, delayed>>
      BY <1>21 DEF Settle, SetItem
    <3>2. outcome \in ItemStatus /\ outcome \in EffectStatus
      BY DEF ItemStatus, EffectStatus
    <3> HIDE DEF outcome
    <3>3. item' \in [Jobs -> [Subjects -> ItemStatus]]
      BY <3>1, <3>2 DEF JobTypeOK
    <3>4. effect' \in [Slots -> [did : Accounts, status : EffectStatus]]
      BY <3>1, <3>2 DEF JobTypeOK
    <3> QED
      BY <3>1, <3>3, <3>4 DEF JobTypeOK
  <2>4. AskTypeOK' /\ WorldTypeOK'
    BY <1>21 DEF Settle, outside
  <2> QED
    BY <2>1, <2>2, <2>3, <2>4 DEF TypeOK
<1>22. ASSUME SettleFails(w)
      PROVE  TypeOK'
  <2>1. run[w].job # 0 /\ run[w].subj # 0
    BY <1>22 DEF SettleFails, LocalOK, ItemSteps, EffectSteps
  <2>2. PICK success \in BOOLEAN : Finish(w, success) \/ UNCHANGED engineVars
    BY <1>22 DEF SettleFails
  <2>3. EngineTypeOK'
    BY <1>22, <2>1, <2>2, FinishTyped
  <2>4. RunTypeOK' /\ ApprovedOK'
    BY <1>22, GoToTyped, StaysTyped
    DEF SettleFails, LocalOK, Steps, ItemSteps, EffectSteps, outside, askVars, jobVars
  <2> QED
    BY <1>22, <2>1, <2>2, <2>3, <2>4 DEF SettleFails, TypeOK, outside
<1>23. ASSUME DoubtCommits(w)
      PROVE  TypeOK'
  <2>1. EngineTypeOK'
    BY <1>23, FinishTyped DEF DoubtCommits, LocalOK, ItemSteps, EffectSteps
  <2>2. RunTypeOK' /\ ApprovedOK'
    BY <1>23, GoToTyped, StaysTyped
    DEF DoubtCommits, LocalOK, Steps, ItemSteps, EffectSteps, outside, askVars, jobVars
  <2> QED
    BY <1>23, <2>1, <2>2 DEF DoubtCommits, TypeOK, outside
<1>24. ASSUME Doubt(w)
      PROVE  TypeOK'
  <2>1. RunTypeOK' /\ ApprovedOK'
    BY <1>24, AdvanceTyped, AdvanceKeeps DEF Doubt, LocalOK, outside, askVars
  <2>2. JobTypeOK'
    BY <1>24 DEF Doubt, SetItem, JobTypeOK, ItemStatus, EffectStatus
  <2> QED
    BY <1>24, <2>1, <2>2 DEF Doubt, TypeOK, outside
<1>25. ASSUME Finalize(w)
      PROVE  TypeOK'
  <2>1. RunTypeOK' /\ ApprovedOK' /\ status' \in [Jobs -> JobStatus]
    BY <1>25, EndRunTyped DEF Finalize, LocalOK, JobStatus, outside, askVars
  <2>2. JobTypeOK'
    BY <1>25, <2>1 DEF Finalize, JobTypeOK
  <2> QED
    BY <1>25, <2>1, <2>2 DEF Finalize, TypeOK, outside
<1> QED
  BY <1>1, <1>2, <1>3, <1>4, <1>5, <1>6, <1>7, <1>8, <1>9, <1>10,
     <1>11, <1>12, <1>13, <1>14, <1>15, <1>16, <1>17, <1>18, <1>19, <1>20,
     <1>21, <1>22, <1>23, <1>24, <1>25
  DEF Proceed

\* The steps of users, operator and world leave every run alone.
LEMMA EnvironmentTyped ==
    ASSUME TypeOK, Web \/ Operator \/ World
    PROVE  TypeOK'
<1> AskTypeOK /\ JobTypeOK /\ EngineTypeOK /\ WorldTypeOK /\ RunTypeOK /\ ApprovedOK
  BY DEF TypeOK
<1> USE PartsKept DEF workVars, engineVars, worldVars, askVars, jobVars
\* A change that creates no job.
<1>0. ASSUME UNCHANGED <<run, approval>>,
             \A j \in Jobs : status'[j] # "absent" <=> status[j] # "absent"
      PROVE  ApprovedOK'
  BY <1>0, ApprovedKept
<1>1. ASSUME NEW d \in Accounts, NEW unseen \in SUBSET Subjects, TakePreview(d, unseen)
      PROVE  TypeOK'
  <2>1. RowsOf(d, unseen) \in [Subjects -> Row]
    BY RowsTyped
  <2>2. AskTypeOK'
    BY <1>1, <2>1 DEF TakePreview, AskTypeOK
  <2> QED
    BY <1>1, <2>2 DEF TakePreview, TypeOK
<1>2. ASSUME NEW d \in Accounts, Disconnect(d)
      PROVE  TypeOK'
  <2>0. cancel' \in [Jobs -> BOOLEAN] /\ user' \in [Accounts -> [connected : BOOLEAN,
             deleting : BOOLEAN, writes : BOOLEAN, revision : Nat]]
    <3>0. user' = [user EXCEPT ![d].connected = FALSE]
      BY <1>2, Zenon DEF Disconnect
    <3>1. user' \in [Accounts -> [connected : BOOLEAN, deleting : BOOLEAN,
                                  writes : BOOLEAN, revision : Nat]]
      BY <3>0 DEF AskTypeOK
    <3>2. cancel' \in [Jobs -> BOOLEAN]
      BY <1>2, Zenon DEF Disconnect, AskTypeOK
    <3> QED
      BY <3>1, <3>2
  <2>1. AskTypeOK'
    <3>1. UNCHANGED <<preview, approval, gate>>
      BY <1>2, Zenon DEF Disconnect
    <3> QED
      BY <2>0, <3>1 DEF AskTypeOK
  <2>2. JobTypeOK'
    BY <1>2 DEF Disconnect, JobTypeOK, JobStatus
  <2>3. WorldTypeOK'
    BY <1>2 DEF Disconnect, Disturb, WorldTypeOK
  <2>4. ApprovedOK'
    BY <1>0, <1>2 DEF Disconnect, JobTypeOK
  <2> QED
    BY <1>2, <2>1, <2>2, <2>3, <2>4 DEF Disconnect, TypeOK
<1>3. ASSUME NEW d \in Accounts, SignIn(d)
      PROVE  TypeOK'
  <2>1. AskTypeOK'
    <3>0. user' = [user EXCEPT ![d].connected = TRUE]
      BY <1>3, Zenon DEF SignIn
    <3>1. UNCHANGED <<preview, approval, cancel, gate>>
      BY <1>3, Zenon DEF SignIn
    <3>2. user' \in [Accounts -> [connected : BOOLEAN, deleting : BOOLEAN,
                                  writes : BOOLEAN, revision : Nat]]
      BY <3>0 DEF AskTypeOK
    <3> QED
      BY <3>1, <3>2 DEF AskTypeOK
  <2> QED
    BY <1>3, <2>1 DEF SignIn, TypeOK
<1>4. ASSUME NEW d \in Accounts, RequestDeletion(d)
      PROVE  TypeOK'
  <2>0. cancel' \in [Jobs -> BOOLEAN] /\ user' \in [Accounts -> [connected : BOOLEAN,
             deleting : BOOLEAN, writes : BOOLEAN, revision : Nat]]
    <3>0. user' = [user EXCEPT ![d].deleting = TRUE]
      BY <1>4, Zenon DEF RequestDeletion
    <3>1. user' \in [Accounts -> [connected : BOOLEAN, deleting : BOOLEAN,
                                  writes : BOOLEAN, revision : Nat]]
      BY <3>0 DEF AskTypeOK
    <3>2. cancel' \in [Jobs -> BOOLEAN]
      BY <1>4, Zenon DEF RequestDeletion, AskTypeOK
    <3> QED
      BY <3>1, <3>2
  <2>1. AskTypeOK'
    <3>1. UNCHANGED <<preview, approval, gate>>
      BY <1>4, Zenon DEF RequestDeletion
    <3> QED
      BY <2>0, <3>1 DEF AskTypeOK
  <2>2. JobTypeOK'
    BY <1>4 DEF RequestDeletion, JobTypeOK, JobStatus
  <2>3. WorldTypeOK'
    BY <1>4 DEF RequestDeletion, Disturb, WorldTypeOK
  <2>4. ApprovedOK'
    BY <1>0, <1>4 DEF RequestDeletion, JobTypeOK
  <2> QED
    BY <1>4, <2>1, <2>2, <2>3, <2>4 DEF RequestDeletion, TypeOK
<1>5. ASSUME NEW d \in Accounts, EditPolicy(d)
      PROVE  TypeOK'
  <2>1. AskTypeOK'
    BY <1>5 DEF EditPolicy, AskTypeOK
  <2>2. WorldTypeOK'
    BY <1>5 DEF EditPolicy, Disturb, WorldTypeOK
  <2> QED
    BY <1>5, <2>1, <2>2 DEF EditPolicy, TypeOK
<1>6. ASSUME NEW p \in Previews, NEW kind \in Kinds, NEW batch \in SUBSET Subjects,
             Approve(p, kind, batch)
      PROVE  TypeOK'
  <2> DEFINE asked == [did |-> preview[p].did, preview |-> p, kind |-> kind]
  <2>1. PICK j \in Jobs :
            /\ status[j] = "absent"
            /\ approval' = [approval EXCEPT ![j] = asked]
            /\ status' = [status EXCEPT ![j] = "queued"]
            /\ item' = [item EXCEPT ![j] = [s \in Subjects |->
                           IF s \in batch THEN "pending" ELSE "none"]]
    BY <1>6 DEF Approve
  <2>0. p \in 1..MaxPreviews /\ p \in 0..MaxPreviews /\ p # 0
    BY ConstantsAssumption DEF Previews
  <2>2. asked \in [did : Accounts, preview : 0..MaxPreviews, kind : Kinds] /\ asked.preview # 0
    BY <2>0 DEF AskTypeOK, Previews
  <2>3. AskTypeOK'
    BY <1>6, <2>1, <2>2 DEF Approve, AskTypeOK
  <2>4. JobTypeOK'
    BY <1>6, <2>1 DEF Approve, JobTypeOK, JobStatus, ItemStatus
  <2>5. \A k \in Jobs : status'[k] # "absent" => approval'[k].preview # 0
    BY <2>1, <2>2 DEF ApprovedOK, JobTypeOK, AskTypeOK
  <2>6. \A k \in Jobs : status[k] # "absent" => status'[k] # "absent"
    BY <2>1 DEF JobTypeOK
  <2>7. \A w \in Workers : run'[w].job # 0 => status'[run'[w].job] # "absent"
    BY <1>6, <2>6 DEF Approve, ApprovedOK, RunTypeOK, Run
  <2> QED
    BY <1>6, <2>3, <2>4, <2>5, <2>7 DEF Approve, TypeOK, ApprovedOK
<1>7. ASSUME NEW j \in Jobs, CancelJob(j)
      PROVE  TypeOK'
  <2>1. AskTypeOK'
    BY <1>7 DEF CancelJob, AskTypeOK
  <2>2. WorldTypeOK'
    BY <1>7 DEF CancelJob, Disturb, WorldTypeOK
  <2> QED
    BY <1>7, <2>1, <2>2 DEF CancelJob, TypeOK
<1>8. ASSUME NEW on \in BOOLEAN, SetWrites(on)
      PROVE  TypeOK'
  <2>1. AskTypeOK'
    BY <1>8 DEF SetWrites, AskTypeOK
  <2>2. JobTypeOK'
    BY <1>8 DEF SetWrites, JobTypeOK, JobStatus
  <2>3. WorldTypeOK'
    BY <1>8 DEF SetWrites, Disturb, WorldTypeOK
  <2>4. ApprovedOK'
    BY <1>0, <1>8 DEF SetWrites, JobTypeOK
  <2> QED
    BY <1>8, <2>1, <2>2, <2>3, <2>4 DEF SetWrites, TypeOK
<1>9. ASSUME NEW on \in BOOLEAN, SetMaintenance(on)
      PROVE  TypeOK'
  <2>1. AskTypeOK'
    BY <1>9 DEF SetMaintenance, AskTypeOK
  <2>2. WorldTypeOK'
    BY <1>9 DEF SetMaintenance, Disturb, WorldTypeOK
  <2> QED
    BY <1>9, <2>1, <2>2 DEF SetMaintenance, TypeOK
<1>10. ASSUME NEW d \in Accounts, NEW on \in BOOLEAN, SetAccountWrites(d, on)
       PROVE  TypeOK'
  <2>1. AskTypeOK'
    BY <1>10 DEF SetAccountWrites, AskTypeOK
  <2>2. WorldTypeOK'
    BY <1>10 DEF SetAccountWrites, Disturb, WorldTypeOK
  <2> QED
    BY <1>10, <2>1, <2>2 DEF SetAccountWrites, TypeOK
<1>11. ASSUME NEW j \in Jobs, Resume(j)
       PROVE  TypeOK'
  <2>1. JobTypeOK'
    BY <1>11 DEF Resume, JobTypeOK, JobStatus
  <2>2. ApprovedOK'
    BY <1>0, <1>11 DEF Resume, JobTypeOK
  <2> QED
    BY <1>11, <2>1, <2>2 DEF Resume, TypeOK
<1>12. ASSUME NEW p \in Previews, ExpirePreview(p)
       PROVE  TypeOK'
  <2>1. AskTypeOK'
    <3>1. preview' = [preview EXCEPT ![p].state = "expired"]
      BY <1>12 DEF ExpirePreview
    <3>2. preview' \in [Previews -> [did : Accounts, revision : Nat, rows : [Subjects -> Row],
                                    state : {"absent", "live", "expired"}]]
      BY <3>1, SMTT(30) DEF AskTypeOK
    <3>3. UNCHANGED <<approval, cancel, user, gate>>
      BY <1>12 DEF ExpirePreview
    <3> QED
      BY <3>2, <3>3 DEF AskTypeOK
  <2>2. WorldTypeOK'
    BY <1>12 DEF ExpirePreview, Disturb, WorldTypeOK
  <2> QED
    BY <1>12, <2>1, <2>2 DEF ExpirePreview, TypeOK
<1>13. ASSUME NEW j \in Jobs, DelayOver(j)
       PROVE  TypeOK'
  <2>1. JobTypeOK'
    BY <1>13 DEF DelayOver, JobTypeOK
  <2> QED
    BY <1>13, <2>1 DEF DelayOver, TypeOK
<1>14. ASSUME NEW d \in Accounts, NEW s \in Subjects, NEW observed \in Observation,
              ChangeRemote(d, s, observed)
       PROVE  TypeOK'
  <2>1. WorldTypeOK'
    BY <1>14 DEF ChangeRemote, Disturb, WorldTypeOK
  <2> QED
    BY <1>14, <2>1 DEF ChangeRemote, TypeOK
<1>15. ASSUME NEW d \in Accounts, NEW s \in Subjects, NEW v \in Verdicts,
              ChangeVerdict(d, s, v)
       PROVE  TypeOK'
  <2>1. WorldTypeOK'
    BY <1>15 DEF ChangeVerdict, Disturb, WorldTypeOK
  <2> QED
    BY <1>15, <2>1 DEF ChangeVerdict, TypeOK
<1> QED
  BY <1>1, <1>2, <1>3, <1>4, <1>5, <1>6, <1>7, <1>8, <1>9, <1>10, <1>11, <1>12, <1>13,
     <1>14, <1>15
  DEF Web, Operator, World

LEMMA TypeNext == TypeOK /\ [Next]_vars => TypeOK'
<1>1. CASE UNCHANGED vars
  BY <1>1, PartsKept DEF vars, TypeOK, askVars, jobVars
<1>2. CASE Next
  BY <1>2, WorkerTyped, EnvironmentTyped DEF Next
<1> QED
  BY <1>1, <1>2

\* Every variable keeps its type, every step of a run has its local variables,
\* and only approved jobs run.
THEOREM TypeCorrect == Spec => []TypeOK
BY TypeInit, TypeNext, PTL DEF Spec

-----------------------------------------------------------------------------
(***************************************************************************)
(* One request per approved item.  The deployment runs one worker: with    *)
(* two, the recovery of the second (worker.ts:45-50) would requeue the job *)
(* the first is running, so this is a hypothesis of the theorem.           *)
(***************************************************************************)
OneWorker == \A v, w \in Workers : v = w

Before  == {"observing", "reserving", "journaling", "journaled"}
Between == {"begun", "refusing", "refused", "writing"}
After   == {"confirming", "proven", "unproven", "doubtful", "doubted"}

\* An item nobody marked was never sent, and a job nobody approved has no items.
Unsent ==
    /\ \A j \in Jobs, s \in Subjects : item[j][s] \in {"none", "pending"} => writes[j][s] = 0
    /\ \A j \in Jobs, s \in Subjects : status[j] = "absent" => item[j][s] = "none"

\* The item in hand is as far as the step says, the items ahead are untouched.
InHand(w) ==
    LET j == run[w].job
        s == run[w].subj
    IN
    /\ run[w].pc \notin ItemSteps => s = 0
    /\ run[w].pc = "next" \/ run[w].pc \in ItemSteps =>
          \A t \in run[w].todo \ {s} : item[j][t] = "pending"
    /\ run[w].pc \in Before => item[j][s] = "pending"
    /\ run[w].pc \in Between => item[j][s] = "attempting" /\ writes[j][s] = 0
    /\ run[w].pc \in After => item[j][s] = "attempting"

WriteInv == AtMostOneWrite /\ Unsent /\ \A w \in Workers : InHand(w)

LEMMA WriteInit == Init => WriteInv
<1> SUFFICES ASSUME Init PROVE WriteInv
  OBVIOUS
<1>1. AtMostOneWrite /\ Unsent
  BY DEF Init, AtMostOneWrite, Unsent
<1>2. \A w \in Workers : InHand(w)
  BY DEF Init, InHand, Stopped, Idle, ItemSteps, EffectSteps, Before, Between, After
<1> QED
  BY <1>1, <1>2 DEF WriteInv

LEMMA AdvanceFacts ==
    ASSUME RunTypeOK, NEW w \in Workers, Advance(w)
    PROVE  /\ run'[w].pc = "next" /\ run'[w].job = run[w].job /\ run'[w].subj = 0
           /\ run'[w].todo = run[w].todo \ {run[w].subj}
           /\ run'[w].plan = run[w].plan
           /\ \A v \in Workers : v # w => run'[v] = run[v]
<1> DEFINE r == [run[w] EXCEPT !.pc = "next", !.todo = @ \ {run[w].subj},
                               !.subj = 0, !.fresh = Unknown, !.slot = 0]
<1>1. run[w] \in Run /\ Unknown \in Observation
  BY DEF RunTypeOK, Unknown, Observation
<1>2. /\ r \in Run /\ r.pc = "next" /\ r.job = run[w].job /\ r.subj = 0
      /\ r.todo = run[w].todo \ {run[w].subj} /\ r.plan = run[w].plan
  BY <1>1 DEF Run, Steps
<1> QED
  BY <1>2, BecomesFacts DEF Advance

LEMMA IdleFacts ==
    ASSUME RunTypeOK, NEW w \in Workers, Becomes(w, Idle) \/ Becomes(w, Stopped)
    PROVE  /\ run'[w].pc \in {"idle", "stopped"} /\ run'[w].subj = 0 /\ run'[w].job = 0
           /\ \A v \in Workers : v # w => run'[v] = run[v]
BY FillersTyped, BecomesFacts DEF Idle, Stopped

\* A run that is over holds no item.
LEMMA NothingInHand ==
    ASSUME NEW w \in Workers, run'[w].pc \in {"idle", "stopped", "claimed", "planning"},
           run'[w].subj = 0
    PROVE  InHand(w)'
BY DEF InHand, ItemSteps, EffectSteps, Before, Between, After

\* Steps of the environment send nothing and touch no item of a running job.
LEMMA WriteEnvironment ==
    ASSUME TypeOK, WriteInv, Web \/ Operator \/ World
    PROVE  WriteInv'
<1> AskTypeOK /\ JobTypeOK /\ RunTypeOK /\ ApprovedOK /\ WorldTypeOK
  BY DEF TypeOK
<1>1. ASSUME UNCHANGED <<run, writes, item>>,
             \A j \in Jobs : status'[j] = "absent" => status[j] = "absent"
      PROVE  WriteInv'
  BY <1>1 DEF WriteInv, AtMostOneWrite, Unsent, InHand
<1>2. ASSUME NEW p \in Previews, NEW kind \in Kinds, NEW batch \in SUBSET Subjects,
             Approve(p, kind, batch)
      PROVE  WriteInv'
  <2>1. PICK j \in Jobs :
            /\ status[j] = "absent"
            /\ status' = [status EXCEPT ![j] = "queued"]
            /\ item' = [item EXCEPT ![j] = [s \in Subjects |->
                           IF s \in batch THEN "pending" ELSE "none"]]
    BY <1>2 DEF Approve
  <2>2. UNCHANGED <<run, writes>>
    BY <1>2 DEF Approve, workVars
  <2>3. \A s \in Subjects : item[j][s] = "none" /\ writes[j][s] = 0
    BY <2>1 DEF WriteInv, Unsent
  <2>4. \A k \in Jobs : k # j => item'[k] = item[k] /\ status'[k] = status[k]
    BY <2>1 DEF JobTypeOK
  <2>5. AtMostOneWrite' /\ Unsent'
    <3>1. \A s \in Subjects : item'[j][s] \in {"none", "pending"}
      BY <2>1 DEF JobTypeOK
    <3>2. status'[j] = "queued"
      BY <2>1 DEF JobTypeOK
    <3> QED
      BY <2>2, <2>3, <2>4, <3>1, <3>2 DEF WriteInv, AtMostOneWrite, Unsent
  <2>6. ASSUME NEW w \in Workers
        PROVE  InHand(w)'
    <3>1. run[w].job # j /\ run[w] \in Run
      BY <2>1, ConstantsAssumption DEF ApprovedOK, Jobs, RunTypeOK
    <3>2. CASE run[w].job = 0
      BY <2>2, <3>2 DEF RunTypeOK, LocalOK, WriteInv, InHand, ItemSteps, EffectSteps,
         Before, Between, After
    <3>3. CASE run[w].job \in Jobs
      BY <2>2, <2>4, <3>1, <3>3 DEF WriteInv, InHand
    <3> QED
      BY <3>1, <3>2, <3>3 DEF Run
  <2> QED
    BY <2>5, <2>6 DEF WriteInv
<1>3. ASSUME NEW d \in Accounts, NEW unseen \in SUBSET Subjects, TakePreview(d, unseen)
      PROVE  WriteInv'
  BY <1>1, <1>3 DEF TakePreview, workVars, jobVars
<1>4. ASSUME NEW d \in Accounts, Disconnect(d)
      PROVE  WriteInv'
  BY <1>1, <1>4 DEF Disconnect, workVars, JobTypeOK
<1>5. ASSUME NEW d \in Accounts, RequestDeletion(d)
      PROVE  WriteInv'
  BY <1>1, <1>5 DEF RequestDeletion, workVars, JobTypeOK
<1>6. ASSUME NEW d \in Accounts, SignIn(d) \/ EditPolicy(d)
      PROVE  WriteInv'
  BY <1>1, <1>6 DEF SignIn, EditPolicy, workVars, jobVars
<1>7. ASSUME NEW j \in Jobs, CancelJob(j) \/ Resume(j) \/ DelayOver(j)
      PROVE  WriteInv'
  BY <1>1, <1>7 DEF CancelJob, Resume, DelayOver, workVars, jobVars, JobTypeOK
<1>8. ASSUME NEW on \in BOOLEAN, SetWrites(on) \/ SetMaintenance(on)
      PROVE  WriteInv'
  BY <1>1, <1>8 DEF SetWrites, SetMaintenance, workVars, jobVars, JobTypeOK
<1>9. ASSUME NEW d \in Accounts, NEW on \in BOOLEAN, SetAccountWrites(d, on)
      PROVE  WriteInv'
  BY <1>1, <1>9 DEF SetAccountWrites, workVars, jobVars
<1>10. ASSUME NEW p \in Previews, ExpirePreview(p)
       PROVE  WriteInv'
  BY <1>1, <1>10 DEF ExpirePreview, workVars, jobVars
<1>11. ASSUME NEW d \in Accounts, NEW s \in Subjects,
              \/ \E observed \in Observation : ChangeRemote(d, s, observed)
              \/ \E v \in Verdicts : ChangeVerdict(d, s, v)
       PROVE  WriteInv'
  BY <1>1, <1>11 DEF ChangeRemote, ChangeVerdict, jobVars
<1> QED
  BY <1>2, <1>3, <1>4, <1>5, <1>6, <1>7, <1>8, <1>9, <1>10, <1>11 DEF Web, Operator, World

LEMMA WriteWorker ==
    ASSUME TypeOK, OneWorker, WriteInv, NEW w \in Workers, Start(w) \/ Crash(w) \/ Proceed(w)
    PROVE  WriteInv'
<1> AskTypeOK /\ JobTypeOK /\ RunTypeOK /\ ApprovedOK /\ WorldTypeOK
  BY DEF TypeOK
<1> run[w] \in Run /\ LocalOK(run[w]) /\ InHand(w)
  BY DEF RunTypeOK, WriteInv
<1> AtMostOneWrite /\ Unsent
  BY DEF WriteInv
<1> /\ run[w].job # 0 => run[w].job \in Jobs
    /\ run[w].subj # 0 => run[w].subj \in Subjects
    /\ run[w].todo \subseteq Subjects
  BY DEF Run
<1> DEFINE j == run[w].job
           s == run[w].subj
\* With one worker only this run matters.
<1>a. ASSUME AtMostOneWrite', Unsent', InHand(w)'
      PROVE  WriteInv'
  BY <1>a DEF OneWorker, WriteInv
\* A step that touches neither an item nor the requests sent.
<1>b. ASSUME UNCHANGED <<item, writes>>, \A k \in Jobs : status'[k] = "absent" => status[k] = "absent",
             InHand(w)'
      PROVE  WriteInv'
  BY <1>a, <1>b DEF AtMostOneWrite, Unsent
<1>c. ASSUME NEW result \in JobStatus \ {"absent"}, EndRun(w, result)
      PROVE  /\ \A k \in Jobs : status'[k] = "absent" => status[k] = "absent"
             /\ InHand(w)'
  BY <1>c, IdleFacts, NothingInHand DEF EndRun, JobTypeOK
<1>1. ASSUME Start(w) PROVE WriteInv'
  <2>1. InHand(w)'
    BY <1>1, GoToFacts, NothingInHand DEF Start, Steps, InHand, ItemSteps, EffectSteps
  <2>2. UNCHANGED writes /\ \A k \in Jobs, t \in Subjects :
            item'[k][t] = item[k][t] \/ item'[k][t] = "uncertain"
    BY <1>1 DEF Start, Recover
  <2>3. \A k \in Jobs : status'[k] = "absent" <=> status[k] = "absent"
    BY <1>1 DEF Start, Recover
  <2>4. Unsent'
    <3>1. ASSUME NEW k \in Jobs, NEW t \in Subjects, item'[k][t] = "uncertain",
                 item[k][t] # "uncertain"
          PROVE  status[k] # "absent"
      BY <1>1, <3>1 DEF Start, Recover, Unsent
    <3> QED
      BY <2>2, <2>3, <3>1 DEF Unsent
  <2> QED
    BY <1>a, <2>1, <2>2, <2>4 DEF AtMostOneWrite
<1>2. ASSUME Crash(w) PROVE WriteInv'
  BY <1>2, <1>b, IdleFacts, NothingInHand DEF Crash, jobVars
<1>3. ASSUME NEW k \in Jobs, Claim(w, k) PROVE WriteInv'
  <2> DEFINE r == [run[w] EXCEPT !.pc = "claimed", !.job = k]
  <2>1. r \in Run /\ r.pc = "claimed" /\ r.subj = run[w].subj
    BY DEF Run, Steps
  <2>2. run[w].subj = 0
    BY <1>3 DEF Claim, InHand, ItemSteps, EffectSteps
  <2>3. InHand(w)'
    BY <1>3, <2>1, <2>2, BecomesFacts, NothingInHand DEF Claim
  <2> QED
    BY <1>3, <1>b, <2>3 DEF Claim, JobTypeOK
\* Skipping pending items of the own job keeps the books.
<1>d. ASSUME j \in Jobs, SkipPending(j, "skipped_cancelled"), UNCHANGED writes,
             \A k \in Jobs : status'[k] = "absent" => status[k] = "absent"
      PROVE  AtMostOneWrite' /\ Unsent'
  <2>1. \A k \in Jobs, t \in Subjects :
            \/ item'[k][t] = item[k][t]
            \/ item'[k][t] = "skipped_cancelled" /\ item[k][t] = "pending"
    BY <1>d DEF SkipPending, JobTypeOK
  <2> QED
    BY <1>d, <2>1 DEF AtMostOneWrite, Unsent
<1>4. ASSUME Preflight(w) PROVE WriteInv'
  <2>1. j \in Jobs /\ UNCHANGED writes /\ run[w].subj = 0
    BY <1>4 DEF Preflight, LocalOK, InHand, ItemSteps, EffectSteps
  <2>2. \/ \E result \in JobStatus \ {"absent"} : EndRun(w, result)
        \/ GoTo(w, "planning") /\ UNCHANGED <<status, item>>
    BY <1>4 DEF Preflight, JobStatus
  <2>3. InHand(w)' /\ \A k \in Jobs : status'[k] = "absent" => status[k] = "absent"
    BY <1>c, <2>1, <2>2, GoToFacts, NothingInHand DEF Steps
  <2>4. SkipPending(j, "skipped_cancelled") \/ UNCHANGED item
    BY <1>4 DEF Preflight
  <2> QED
    BY <1>a, <1>b, <1>d, <2>1, <2>3, <2>4
<1>5. ASSUME NEW unseen \in SUBSET Subjects, Plan(w, unseen) PROVE WriteInv'
  <2> DEFINE r == [run[w] EXCEPT !.pc = "next", !.plan = RowsOf(Did(j), unseen),
                                 !.todo = {t \in Subjects : item[j][t] = "pending"}]
  <2>1. Did(j) \in Accounts
    BY <1>5 DEF Plan, LocalOK, Did, AskTypeOK
  <2>2. RowsOf(Did(j), unseen) \in [Subjects -> Row]
    BY <2>1, RowsTyped
  <2>3. /\ r \in Run /\ r.pc = "next" /\ r.subj = run[w].subj /\ r.job = j
        /\ r.todo = {t \in Subjects : item[j][t] = "pending"}
    BY <2>2 DEF Run, Steps
  <2>4. run[w].subj = 0 /\ UNCHANGED <<item, writes, status>>
    BY <1>5 DEF Plan, InHand, ItemSteps, EffectSteps, jobVars
  <2>5. run'[w] = r
    BY <1>5, <2>3, BecomesFacts DEF Plan
  <2>6. InHand(w)'
    BY <2>3, <2>4, <2>5
    DEF InHand, ItemSteps, EffectSteps, Before, Between, After
  <2> QED
    BY <1>b, <2>4, <2>6
<1>6. ASSUME ReadFails(w) PROVE WriteInv'
  <2>1. \E result \in JobStatus \ {"absent"} : EndRun(w, result)
    BY <1>6 DEF ReadFails, JobStatus
  <2> QED
    BY <1>6, <1>b, <1>c, <2>1 DEF ReadFails
<1>7. ASSUME StopItems(w) PROVE WriteInv'
  <2> DEFINE r == [run[w] EXCEPT !.todo = {}]
  <2>1. r \in Run /\ r.pc = "next" /\ r.subj = 0 /\ r.todo = {}
    BY <1>7 DEF StopItems, InHand, ItemSteps, EffectSteps, Run
  <2>2. InHand(w)'
    BY <1>7, <2>1, BecomesFacts
    DEF StopItems, InHand, ItemSteps, EffectSteps, Before, Between, After
  <2> QED
    BY <1>7, <1>a, <1>d, <2>2 DEF StopItems, LocalOK
<1>8. ASSUME NEW t \in Subjects, SkipChanged(w, t) PROVE WriteInv'
  <2> DEFINE r == [run[w] EXCEPT !.todo = @ \ {t}]
  <2>1. r \in Run /\ r.pc = "next" /\ r.subj = 0 /\ r.todo = run[w].todo \ {t} /\ r.job = j
    BY <1>8 DEF SkipChanged, InHand, ItemSteps, EffectSteps, Run
  <2>2. j \in Jobs /\ item[j][t] = "pending" /\ UNCHANGED <<writes, status>>
    BY <1>8, ConstantsAssumption DEF SkipChanged, Head, LocalOK, InHand, ItemSteps, EffectSteps
  <2>3. \A k \in Jobs, u \in Subjects :
            item'[k][u] = IF k = j /\ u = t THEN "skipped_changed" ELSE item[k][u]
    BY <1>8, <2>2 DEF SkipChanged, JobTypeOK
  <2>4. AtMostOneWrite' /\ Unsent'
    BY <2>2, <2>3 DEF AtMostOneWrite, Unsent
  <2>5. run[w].pc = "next" /\ run[w].subj = 0
    BY <1>8 DEF SkipChanged, InHand, ItemSteps, EffectSteps
  <2>6. run'[w] = r
    BY <1>8, <2>1, BecomesFacts DEF SkipChanged
  <2>7. InHand(w)'
    BY <2>1, <2>2, <2>3, <2>5, <2>6 DEF InHand, ItemSteps, EffectSteps, Before, Between, After
  <2> QED
    BY <1>a, <2>4, <2>7
<1>9. ASSUME NEW t \in Subjects, StartItem(w, t) PROVE WriteInv'
  <2> DEFINE r == [run[w] EXCEPT !.pc = "observing", !.subj = t]
  <2>1. r \in Run /\ r.pc = "observing" /\ r.subj = t /\ r.todo = run[w].todo /\ r.job = j
    BY DEF Run, Steps
  <2>2. UNCHANGED <<item, writes, status>> /\ run[w].pc = "next" /\ run[w].subj = 0
        /\ t \in run[w].todo
    BY <1>9 DEF StartItem, Head, jobVars, InHand, ItemSteps, EffectSteps
  <2>3. run'[w] = r
    BY <1>9, <2>1, BecomesFacts DEF StartItem
  <2>4. InHand(w)'
    BY <2>1, <2>2, <2>3, ConstantsAssumption
    DEF InHand, ItemSteps, EffectSteps, Before, Between, After
  <2> QED
    BY <1>b, <2>2, <2>4
<1>10. ASSUME Observe(w) PROVE WriteInv'
  <2>1. PICK observed : Becomes(w, [run[w] EXCEPT !.pc = "reserving", !.fresh = observed])
                        /\ observed \in Observation
    <3>1. run[w].job # 0 /\ run[w].subj # 0
      BY <1>10 DEF Observe, LocalOK, ItemSteps
    <3>2. Did(run[w].job) \in Accounts
      BY <3>1 DEF Did, AskTypeOK
    <3>3. Unknown \in Observation /\ remote[Did(run[w].job)][run[w].subj] \in Observation
      BY <3>1, <3>2 DEF WorldTypeOK, Unknown, Observation
    <3> QED
      BY <1>10, <3>3 DEF Observe
  <2> DEFINE r == [run[w] EXCEPT !.pc = "reserving", !.fresh = observed]
  <2>2. r \in Run /\ r.pc = "reserving" /\ r.subj = s /\ r.todo = run[w].todo /\ r.job = j
    BY <2>1 DEF Run, Steps
  <2>3. UNCHANGED <<item, writes, status>> /\ run[w].pc = "observing"
    BY <1>10 DEF Observe, jobVars
  <2>4. run'[w] = r
    BY <2>1, <2>2, BecomesFacts
  <2>5. InHand(w)'
    BY <2>2, <2>3, <2>4 DEF InHand, ItemSteps, EffectSteps, Before, Between, After
  <2> QED
    BY <1>b, <2>3, <2>5
\* Leaving the item in hand with its outcome.
<1>e. ASSUME NEW outcome \in {"skipped_changed", "confirmed", "uncertain"},
             run[w].pc \in ItemSteps, SetItem(w, outcome), Advance(w), UNCHANGED <<writes, status>>
      PROVE  WriteInv'
  <2>1. j \in Jobs /\ s \in Subjects /\ status[j] # "absent"
    BY <1>e DEF LocalOK, ItemSteps, EffectSteps, ApprovedOK
  <2>2. \A k \in Jobs, u \in Subjects :
            item'[k][u] = IF k = j /\ u = s THEN outcome ELSE item[k][u]
    BY <1>e, <2>1 DEF SetItem, JobTypeOK
  <2>3. AtMostOneWrite' /\ Unsent'
    BY <1>e, <2>1, <2>2 DEF AtMostOneWrite, Unsent
  <2>4. InHand(w)'
    BY <1>e, <2>1, <2>2, AdvanceFacts DEF InHand, ItemSteps, EffectSteps, Before, Between, After
  <2> QED
    BY <1>a, <2>3, <2>4
<1>11. ASSUME Reserve(w) PROVE WriteInv'
  <2>1. CASE SetItem(w, "skipped_changed") /\ Advance(w) /\ UNCHANGED <<status, effect>>
    BY <1>11, <1>e, <2>1 DEF Reserve, ItemSteps
  <2>2. CASE EndRun(w, "paused_by_operator") /\ UNCHANGED <<item, effect>>
    BY <1>11, <1>b, <1>c, <2>2 DEF Reserve, JobStatus
  <2>3. ASSUME NEW e \in Slots, Becomes(w, [run[w] EXCEPT !.pc = "journaling", !.slot = e]),
               UNCHANGED <<status, item>>
        PROVE  WriteInv'
    <3> DEFINE r == [run[w] EXCEPT !.pc = "journaling", !.slot = e]
    <3>1. r \in Run /\ r.pc = "journaling" /\ r.subj = s /\ r.todo = run[w].todo /\ r.job = j
      BY <2>3 DEF Run, Steps
    <3>2. UNCHANGED <<item, writes, status>> /\ run[w].pc = "reserving"
      BY <1>11, <2>3 DEF Reserve
    <3>3. run'[w] = r
      BY <2>3, <3>1, BecomesFacts
    <3>4. InHand(w)'
      BY <3>1, <3>2, <3>3 DEF InHand, ItemSteps, EffectSteps, Before, Between, After
    <3> QED
      BY <1>b, <3>2, <3>4
  <2> QED
    BY <1>11, <2>1, <2>2, <2>3 DEF Reserve
\* A step within one item that neither sends nor marks anything.
<1>f. ASSUME NEW step \in Steps, GoTo(w, step), UNCHANGED <<item, writes, status>>,
             \/ run[w].pc \in Before /\ step \in Before
             \/ run[w].pc \in Between /\ step \in Between
             \/ run[w].pc \in After /\ step \in After
      PROVE  WriteInv'
  <2>1. InHand(w)'
    BY <1>f, GoToFacts DEF InHand, ItemSteps, EffectSteps, Before, Between, After
  <2> QED
    BY <1>b, <1>f, <2>1
<1>12. ASSUME JournalCommits(w) PROVE WriteInv'
  <2>1. run[w].pc = "journaling" /\ GoTo(w, "journaled") /\ UNCHANGED <<item, writes, status>>
    BY <1>12 DEF JournalCommits, jobVars
  <2>2. "journaled" \in Steps /\ run[w].pc \in Before /\ "journaled" \in Before
    BY <2>1 DEF Before, Steps
  <2> QED
    BY <1>f, <2>1, <2>2
<1>13. ASSUME JournalReplies(w) PROVE WriteInv'
  <2>1. j \in Jobs /\ s \in Subjects /\ status[j] # "absent" /\ item[j][s] = "pending"
        /\ writes[j][s] = 0 /\ UNCHANGED <<status, writes>>
    BY <1>13 DEF JournalReplies, LocalOK, ItemSteps, EffectSteps, ApprovedOK, InHand, Before, Unsent
  <2>2. \A k \in Jobs, u \in Subjects :
            item'[k][u] = IF k = j /\ u = s THEN "attempting" ELSE item[k][u]
    BY <1>13, <2>1 DEF JournalReplies, SetItem, JobTypeOK
  <2>3. AtMostOneWrite' /\ Unsent'
    BY <2>1, <2>2 DEF AtMostOneWrite, Unsent
  <2>4. InHand(w)'
    BY <1>13, <2>1, <2>2, GoToFacts
    DEF JournalReplies, Steps, InHand, ItemSteps, EffectSteps, Before, Between, After
  <2> QED
    BY <1>a, <2>3, <2>4
<1>14. ASSUME JournalFails(w) PROVE WriteInv'
  BY <1>14, <1>b, <1>c DEF JournalFails, JobStatus
<1>15. ASSUME LastGate(w) PROVE WriteInv'
  <2>1. run[w].pc = "begun" /\ UNCHANGED <<item, writes, status>>
    BY <1>15 DEF LastGate, jobVars
  <2>2. PICK step \in {"writing", "refusing"} : GoTo(w, step)
    BY <1>15 DEF LastGate
  <2>3. step \in Steps /\ run[w].pc \in Between /\ step \in Between
    BY <2>1 DEF Between, Steps
  <2> QED
    BY <1>f, <2>1, <2>2, <2>3
<1>16. ASSUME RefusalCommits(w) PROVE WriteInv'
  <2>1. run[w].pc = "refusing" /\ GoTo(w, "refused") /\ UNCHANGED <<item, writes, status>>
    BY <1>16 DEF RefusalCommits, jobVars
  <2>2. "refused" \in Steps /\ run[w].pc \in Between /\ "refused" \in Between
    BY <2>1 DEF Between, Steps
  <2> QED
    BY <1>f, <2>1, <2>2
<1>17. ASSUME RefusalReplies(w) PROVE WriteInv'
  <2>1. j \in Jobs /\ s \in Subjects /\ status[j] # "absent" /\ writes[j][s] = 0 /\ UNCHANGED writes
    BY <1>17 DEF RefusalReplies, LocalOK, ItemSteps, EffectSteps, ApprovedOK, InHand, Between
  <2>2. \A k \in Jobs, u \in Subjects :
            item'[k][u] = IF k = j /\ u = s THEN "pending" ELSE item[k][u]
    BY <1>17, <2>1 DEF RefusalReplies, SetItem, JobTypeOK
  <2>3. InHand(w)' /\ \A k \in Jobs : status'[k] = "absent" => status[k] = "absent"
    BY <1>17, <1>c DEF RefusalReplies, JobStatus
  <2>4. status'[j] # "absent"
    BY <2>1, <2>3
  <2>5. AtMostOneWrite' /\ Unsent'
    BY <2>1, <2>2, <2>3, <2>4 DEF AtMostOneWrite, Unsent
  <2> QED
    BY <1>a, <2>3, <2>5
<1>18. ASSUME WorkerError(w) PROVE WriteInv'
  BY <1>18, <1>b, <1>c DEF WorkerError, JobStatus
<1>19. ASSUME NEW applied \in BOOLEAN, NEW answered \in BOOLEAN, Write(w, applied, answered)
       PROVE  WriteInv'
  <2>1. j \in Jobs /\ s \in Subjects /\ item[j][s] = "attempting" /\ writes[j][s] = 0
        /\ UNCHANGED <<item, status>>
    BY <1>19 DEF Write, LocalOK, ItemSteps, EffectSteps, InHand, Between, jobVars
  <2>2. \A k \in Jobs, u \in Subjects :
            writes'[k][u] = IF k = j /\ u = s THEN 1 ELSE writes[k][u]
    BY <1>19, <2>1 DEF Write, WorldTypeOK
  <2>3. AtMostOneWrite' /\ Unsent'
    BY <2>1, <2>2 DEF AtMostOneWrite, Unsent
  <2>4. PICK step \in {"confirming", "doubtful"} : GoTo(w, step)
    BY <1>19 DEF Write
  <2>5. run[w].pc = "writing" /\ \A u \in run[w].todo \ {s} : item[j][u] = "pending"
    BY <1>19 DEF Write, InHand, ItemSteps, EffectSteps
  <2>6. InHand(w)'
    BY <2>1, <2>4, <2>5, GoToFacts
    DEF Steps, InHand, ItemSteps, EffectSteps, Before, Between, After
  <2> QED
    BY <1>a, <2>3, <2>6
<1>20. ASSUME Confirm(w) PROVE WriteInv'
  BY <1>20, <1>f DEF Confirm, jobVars, After, Steps
<1>21. ASSUME Settle(w) PROVE WriteInv'
  BY <1>21, <1>e DEF Settle, ItemSteps, EffectSteps
<1>22. ASSUME SettleFails(w) PROVE WriteInv'
  BY <1>22, <1>f DEF SettleFails, jobVars, After, Steps
<1>23. ASSUME DoubtCommits(w) PROVE WriteInv'
  <2>1. run[w].pc = "doubtful" /\ GoTo(w, "doubted") /\ UNCHANGED <<item, writes, status>>
    BY <1>23 DEF DoubtCommits, jobVars
  <2>2. "doubted" \in Steps /\ run[w].pc \in After /\ "doubted" \in After
    BY <2>1 DEF After, Steps
  <2> QED
    BY <1>f, <2>1, <2>2
<1>24. ASSUME Doubt(w) PROVE WriteInv'
  BY <1>24, <1>e DEF Doubt, ItemSteps, EffectSteps
<1>25. ASSUME Finalize(w) PROVE WriteInv'
  <2>1. \E result \in JobStatus \ {"absent"} : EndRun(w, result)
    BY <1>25 DEF Finalize, JobStatus
  <2> QED
    BY <1>25, <1>b, <1>c, <2>1 DEF Finalize
<1> QED
  BY <1>1, <1>2, <1>3, <1>4, <1>5, <1>6, <1>7, <1>8, <1>9, <1>10, <1>11, <1>12, <1>13,
     <1>14, <1>15, <1>16, <1>17, <1>18, <1>19, <1>20, <1>21, <1>22, <1>23, <1>24, <1>25
  DEF Proceed

\* With one worker, an approved item is sent to the network at most once: no
\* crash, restart, retry, refusal or resume makes the service repeat a request.
THEOREM NeverSentTwice == OneWorker => (Spec => []AtMostOneWrite)
<1> SUFFICES ASSUME OneWorker PROVE Spec => []AtMostOneWrite
  OBVIOUS
<1>1. TypeOK /\ WriteInv /\ [Next]_vars => WriteInv'
  <2>1. TypeOK /\ WriteInv /\ UNCHANGED vars => WriteInv'
    BY DEF vars, jobVars, WriteInv, AtMostOneWrite, Unsent, InHand
  <2> QED
    BY <2>1, WriteEnvironment, WriteWorker DEF Next
<1>2. WriteInv => AtMostOneWrite
  BY DEF WriteInv
<1> QED
  BY <1>1, <1>2, WriteInit, TypeCorrect, PTL DEF Spec

-----------------------------------------------------------------------------
(* What the journal of the engine, the items of a batch and the network owe each other. *)

Unproven  == {"pending", "unresolved"}
Skipped   == {"skipped_changed", "skipped_cancelled"}
Journaled == EffectSteps \ {"journaling"}       \* the engine has opened the attempt

\* The item a run has in hand.
Held(j, s) ==
    \E w \in Workers : run[w].pc \in ItemSteps /\ run[w].job = j /\ run[w].subj = s

\* A batch of the account proved that it muted s, and no run is changing its entry.
Earned(d, s) ==
    \E j \in Jobs : /\ Did(j) = d /\ approval[j].kind # "release"
                    /\ attempt[j][s] = "confirmed" /\ ~Held(j, s)

\* The row of the job a run works on says so.
Running == \A w \in Workers : Working(w) => status[run[w].job] = "running"

\* Item, attempt and requests of one approved row agree.
BookOK(j, s) ==
    /\ item[j][s] = "none" => attempt[j][s] = "none"
    /\ begins[j][s] = IF attempt[j][s] = "none" THEN 0 ELSE 1
    /\ item[j][s] \in {"pending"} \cup Skipped => attempt[j][s] # "confirmed"
    /\ item[j][s] \in Skipped => writes[j][s] = 0
    /\ attempt[j][s] = "confirmed" => writes[j][s] = 1
    /\ item[j][s] = "confirmed" => attempt[j][s] = "confirmed"
Books == \A j \in Jobs, s \in Subjects : BookOK(j, s)

\* The plan of a run still says what the ledger says of every item ahead, up to
\* the journaling of the item in hand.
Ahead(w) ==
    LET j == run[w].job IN
    run[w].pc \in {"next"} \cup ItemSteps =>
        \A t \in run[w].todo :
            /\ \/ run[w].pc \in Journaled /\ t = run[w].subj
               \/ run[w].plan[t].ledger = ledger[Did(j)][t]
            /\ run[w].plan[t].ledger = "attributed" => Earned(Did(j), t)

\* The item in hand was proposed; from its reservation on it has an effect row, and
\* from its journaling on the one open attempt of the account on this subject.
InWork(w) ==
    LET j == run[w].job
        s == run[w].subj
    IN
    /\ run[w].pc \in ItemSteps =>
          s \in run[w].todo /\ Proposes(run[w].plan[s], approval[j].kind)
    /\ run[w].pc \in EffectSteps =>
          effect[run[w].slot] = [did |-> Did(j), status |-> "attempting"]
    /\ run[w].pc \in Journaled =>
          /\ attempt[j][s] # "none"
          /\ \A k \in Jobs \ {j} : Did(k) = Did(j) => attempt[k][s] \notin Unproven
    /\ run[w].pc \in Journaled \ {"refused", "doubtful", "doubted"} => attempt[j][s] = "pending"
    /\ run[w].pc = "refused" => attempt[j][s] = "unresolved"
    /\ run[w].pc \in After => writes[j][s] = 1

\* A release was sent only over a mute some earlier batch had proved.
Released ==
    \A j \in Jobs, s \in Subjects :
        writes[j][s] > 0 /\ approval[j].kind = "release" => Earned(Did(j), s)

Attributed ==
    \A d \in Accounts, s \in Subjects : ledger[d][s] = "attributed" =>
        \E j \in Jobs : /\ Did(j) = d /\ approval[j].kind # "release"
                        /\ attempt[j][s] = "confirmed"

JournalInv ==
    /\ Running /\ Books /\ UnprovenSuspends /\ Released /\ Attributed
    /\ \A w \in Workers : Ahead(w) /\ InWork(w)

LEMMA JournalInit == Init => JournalInv
<1> SUFFICES ASSUME Init PROVE JournalInv
  OBVIOUS
<1>1. \A w \in Workers : run[w].pc = "stopped"
  BY DEF Init, Stopped, Idle
<1>2. Running /\ Books /\ UnprovenSuspends /\ Released /\ Attributed
  BY <1>1 DEF Init, Running, Working, Books, BookOK, UnprovenSuspends, Released, Attributed, Skipped
<1>3. \A w \in Workers : Ahead(w) /\ InWork(w)
  BY <1>1 DEF Ahead, InWork, ItemSteps, EffectSteps, Journaled, After
<1> QED
  BY <1>2, <1>3 DEF JournalInv

-----------------------------------------------------------------------------
\* With one worker, what is held is what its run has in hand.
LEMMA HeldByOne ==
    ASSUME OneWorker, NEW w \in Workers
    PROVE  /\ \A j, s : Held(j, s) <=>
                  run[w].pc \in ItemSteps /\ run[w].job = j /\ run[w].subj = s
           /\ \A j, s : Held(j, s)' <=>
                  run'[w].pc \in ItemSteps /\ run'[w].job = j /\ run'[w].subj = s
BY DEF OneWorker, Held

\* A proof stays a proof as long as its entry is not touched.
LEMMA EarnedKept ==
    ASSUME \A k \in Jobs, t \in Subjects :
              attempt[k][t] = "confirmed" /\ ~Held(k, t) =>
                  attempt'[k][t] = "confirmed" /\ ~Held(k, t)' /\ approval'[k] = approval[k]
    PROVE  \A d, t : t \in Subjects /\ Earned(d, t) => Earned(d, t)'
BY DEF Earned, Did

\* Steps of the environment leave runs, journal and requests alone.
LEMMA JournalEnvironment ==
    ASSUME TypeOK, WriteInv, JournalInv, Web \/ Operator \/ World
    PROVE  JournalInv'
<1> AskTypeOK /\ JobTypeOK /\ RunTypeOK /\ ApprovedOK /\ WorldTypeOK /\ EngineTypeOK
  BY DEF TypeOK
<1> Running /\ Books /\ UnprovenSuspends /\ Released /\ Attributed /\ Unsent
  BY DEF JournalInv, WriteInv
<1>1. \A k \in Jobs, t \in Subjects : status[k] = "absent" => attempt[k][t] = "none" /\ writes[k][t] = 0
  BY DEF Unsent, Books, BookOK
<1>2. ASSUME UNCHANGED <<run, ledger, attempt, begins, writes, effect>>,
             \A k \in Jobs, t \in Subjects :
                item'[k][t] = item[k][t] \/ (item[k][t] = "none" /\ item'[k][t] = "pending"),
             \A k \in Jobs : status[k] # "absent" => approval'[k] = approval[k],
             \A k \in Jobs : status[k] = "running" => status'[k] = "running"
      PROVE  JournalInv'
  <2>1. Running' /\ \A w \in Workers : Working(w) => run[w].job \in Jobs /\ status[run[w].job] = "running"
    BY <1>2 DEF Running, Working, RunTypeOK, LocalOK, Run
  <2>2. Books'
    BY <1>2 DEF Books, BookOK, Skipped
  <2>3. UnprovenSuspends'
    BY <1>1, <1>2 DEF UnprovenSuspends, Did
  <2>4. \A d, t : t \in Subjects /\ Earned(d, t) => Earned(d, t)'
    <3>1. \A k, t : Held(k, t)' <=> Held(k, t)
      BY <1>2 DEF Held
    <3> QED
      BY <1>1, <1>2, <3>1, EarnedKept
  <2>5. Released'
    BY <1>1, <1>2, <2>4 DEF Released, Did, WorldTypeOK
  <2>6. Attributed'
    BY <1>1, <1>2 DEF Attributed, Did
  <2>7. ASSUME NEW w \in Workers PROVE Ahead(w)' /\ InWork(w)'
    <3>1. Ahead(w) /\ InWork(w) /\ run[w] \in Run
      BY DEF JournalInv, RunTypeOK
    <3>2. CASE ~Working(w)
      BY <1>2, <3>2 DEF Working, Ahead, InWork, ItemSteps, EffectSteps, Journaled, After
    <3>3. CASE Working(w)
      <4>1. run[w].job \in Jobs /\ approval'[run[w].job] = approval[run[w].job]
        BY <1>2, <2>1, <3>3
      <4>2. Ahead(w)'
        BY <1>2, <2>4, <3>1, <4>1 DEF Ahead, Did, Run
      <4>3. \A k \in Jobs, t \in Subjects : attempt[k][t] \in Unproven => approval'[k] = approval[k]
        BY <1>1, <1>2 DEF Unproven
      <4>4. run[w].pc \in ItemSteps => run[w].subj \in Subjects
        BY <3>1 DEF Run, RunTypeOK, LocalOK
      <4>5. InWork(w)'
        BY <1>2, <3>1, <4>1, <4>3, <4>4 DEF InWork, Did, Journaled, ItemSteps
      <4> QED
        BY <4>2, <4>5
    <3> QED
      BY <3>2, <3>3
  <2> QED
    BY <2>1, <2>2, <2>3, <2>5, <2>6, <2>7 DEF JournalInv
<1>3. ASSUME NEW p \in Previews, NEW kind \in Kinds, NEW batch \in SUBSET Subjects,
             Approve(p, kind, batch)
      PROVE  JournalInv'
  <2>1. PICK j \in Jobs :
            /\ status[j] = "absent"
            /\ approval' = [approval EXCEPT ![j] = [did |-> preview[p].did, preview |-> p, kind |-> kind]]
            /\ status' = [status EXCEPT ![j] = "queued"]
            /\ item' = [item EXCEPT ![j] = [s \in Subjects |->
                           IF s \in batch THEN "pending" ELSE "none"]]
    BY <1>3 DEF Approve
  <2>2. UNCHANGED <<run, ledger, attempt, begins, writes, effect>>
    BY <1>3 DEF Approve, workVars, engineVars
  <2>3. \A k \in Jobs : k # j => item'[k] = item[k] /\ status'[k] = status[k] /\ approval'[k] = approval[k]
    BY <2>1 DEF JobTypeOK, AskTypeOK
  <2>4. \A t \in Subjects : item[j][t] = "none" /\ item'[j][t] \in {"none", "pending"}
    BY <2>1 DEF Unsent, JobTypeOK
  <2> QED
    BY <1>2, <2>1, <2>2, <2>3, <2>4
<1> USE DEF workVars, engineVars, worldVars, jobVars, askVars
<1>4. ASSUME NEW d \in Accounts, NEW unseen \in SUBSET Subjects, TakePreview(d, unseen)
      PROVE  JournalInv'
  BY <1>2, <1>4 DEF TakePreview
<1>5. ASSUME NEW d \in Accounts, Disconnect(d) \/ RequestDeletion(d) PROVE JournalInv'
  BY <1>2, <1>5 DEF Disconnect, RequestDeletion, JobTypeOK
<1>6. ASSUME NEW d \in Accounts, SignIn(d) \/ EditPolicy(d) PROVE JournalInv'
  BY <1>2, <1>6 DEF SignIn, EditPolicy
<1>7. ASSUME NEW j \in Jobs, CancelJob(j) \/ Resume(j) \/ DelayOver(j) PROVE JournalInv'
  BY <1>2, <1>7 DEF CancelJob, Resume, DelayOver, JobTypeOK
<1>8. ASSUME NEW on \in BOOLEAN, SetWrites(on) \/ SetMaintenance(on) PROVE JournalInv'
  BY <1>2, <1>8 DEF SetWrites, SetMaintenance, JobTypeOK
<1>9. ASSUME NEW d \in Accounts, NEW on \in BOOLEAN, SetAccountWrites(d, on) PROVE JournalInv'
  BY <1>2, <1>9 DEF SetAccountWrites
<1>10. ASSUME NEW p \in Previews, ExpirePreview(p) PROVE JournalInv'
  BY <1>2, <1>10 DEF ExpirePreview
<1>11. ASSUME NEW d \in Accounts, NEW s \in Subjects,
              \/ \E observed \in Observation : ChangeRemote(d, s, observed)
              \/ \E v \in Verdicts : ChangeVerdict(d, s, v)
       PROVE  JournalInv'
  BY <1>2, <1>11 DEF ChangeRemote, ChangeVerdict
<1> QED
  BY <1>3, <1>4, <1>5, <1>6, <1>7, <1>8, <1>9, <1>10, <1>11 DEF Web, Operator, World

-----------------------------------------------------------------------------
\* How the items of a step change that leaves the journal and the network alone.
ItemsMove ==
    \A k \in Jobs, t \in Subjects :
        \/ item'[k][t] = item[k][t]
        \/ item[k][t] = "pending" /\ item'[k][t] \in Skipped \cup {"attempting"}
        \/ item[k][t] = "attempting" /\ item'[k][t] = "uncertain"
        \/ item[k][t] = "attempting" /\ item'[k][t] = "pending" /\ attempt[k][t] = "unresolved"

\* A step takes no item in hand but one that is pending.
TakesPending ==
    \A k \in Jobs, t \in Subjects : Held(k, t)' => Held(k, t) \/ item[k][t] = "pending"

LEMMA CalmStep ==
    ASSUME Unsent, JournalInv, UNCHANGED <<ledger, attempt, begins, writes, approval>>,
           ItemsMove, TakesPending
    PROVE  /\ Books' /\ UnprovenSuspends' /\ Released' /\ Attributed'
           /\ \A d, t : t \in Subjects /\ Earned(d, t) => Earned(d, t)'
<1> Books /\ UnprovenSuspends /\ Released /\ Attributed
  BY DEF JournalInv
<1>1. Books'
  BY DEF Unsent, Books, BookOK, ItemsMove, Skipped
<1>2. UnprovenSuspends'
  BY DEF UnprovenSuspends, Did
<1>3. \A d, t : t \in Subjects /\ Earned(d, t) => Earned(d, t)'
  <2>1. \A k \in Jobs, t \in Subjects : attempt[k][t] = "confirmed" => item[k][t] # "pending"
    BY DEF Books, BookOK
  <2> QED
    BY <2>1, EarnedKept DEF TakesPending
<1>4. Released'
  BY <1>3 DEF Released, Did
<1>5. Attributed'
  BY DEF Attributed, Did
<1> QED
  BY <1>1, <1>2, <1>3, <1>4, <1>5

\* engine.finish on the item in hand: a success needs the one request, and no other
\* attempt of the account on this subject is open.
LEMMA FinishStep ==
    ASSUME TypeOK, OneWorker, JournalInv, NEW w \in Workers, run[w].pc \in Journaled,
           NEW success \in BOOLEAN, Finish(w, success), UNCHANGED <<writes, approval>>,
           success => writes[run[w].job][run[w].subj] = 1,
           \A k \in Jobs, t \in Subjects :
              k # run[w].job \/ t # run[w].subj => item'[k][t] = item[k][t],
           item'[run[w].job][run[w].subj]
              \in {"attempting", "uncertain"} \cup (IF success THEN {"confirmed"} ELSE {}),
           \A k \in Jobs, t \in Subjects : Held(k, t)' => Held(k, t)
    PROVE  /\ Books' /\ UnprovenSuspends' /\ Released' /\ Attributed'
           /\ \A d, t : t \in Subjects /\ Earned(d, t) => Earned(d, t)'
<1> EngineTypeOK /\ RunTypeOK /\ AskTypeOK
  BY DEF TypeOK
<1> Books /\ UnprovenSuspends /\ Released /\ Attributed /\ InWork(w)
  BY DEF JournalInv
<1> DEFINE j == run[w].job
           s == run[w].subj
           settled == IF approval[j].kind = "release" THEN "released" ELSE "attributed"
<1>1. j \in Jobs /\ s \in Subjects /\ Did(j) \in Accounts /\ Held(j, s)
  <2>1. run[w] \in Run /\ run[w].pc \in ItemSteps /\ run[w].job # 0 /\ run[w].subj # 0
    BY DEF Journaled, RunTypeOK, LocalOK, ItemSteps, EffectSteps
  <2>2. j \in Jobs /\ s \in Subjects
    BY <2>1 DEF Run
  <2>3. Did(j) \in Accounts
    BY <2>2 DEF Did, AskTypeOK
  <2> QED
    BY <2>1, <2>2, <2>3 DEF Held
<1>2. \A k \in Jobs, t \in Subjects :
          attempt'[k][t] = IF k = j /\ t = s THEN IF success THEN "confirmed" ELSE "unresolved"
                           ELSE attempt[k][t]
  BY <1>1 DEF Finish, EngineTypeOK
<1>3. \A d \in Accounts, t \in Subjects :
          ledger'[d][t] = IF d = Did(j) /\ t = s THEN IF success THEN settled ELSE "unresolved"
                          ELSE ledger[d][t]
  BY <1>1 DEF Finish, EngineTypeOK
<1>4. /\ begins' = begins /\ attempt[j][s] # "none"
      /\ \A k \in Jobs \ {j} : Did(k) = Did(j) => attempt[k][s] \notin Unproven
  BY DEF Finish, InWork
<1>5. \A k \in Jobs : Did(k)' = Did(k) /\ Did(k) \in Accounts
  BY DEF Did, AskTypeOK
<1>6. Books'
  <2> SUFFICES ASSUME NEW k \in Jobs, NEW t \in Subjects PROVE BookOK(k, t)'
    BY DEF Books
  <2>1. BookOK(k, t)
    BY DEF Books
  <2>2. CASE k = j /\ t = s
    BY <1>1, <1>2, <1>4, <2>1, <2>2 DEF BookOK, Skipped
  <2>3. CASE ~(k = j /\ t = s)
    BY <1>2, <1>4, <2>1, <2>3 DEF BookOK
  <2> QED
    BY <2>2, <2>3
<1> HIDE DEF settled
<1>7. UnprovenSuspends'
  BY <1>1, <1>2, <1>3, <1>4, <1>5 DEF UnprovenSuspends, Unproven
<1>8. \A d, t : t \in Subjects /\ Earned(d, t) => Earned(d, t)'
  BY <1>1, <1>2, EarnedKept
<1>9. Released'
  BY <1>5, <1>8 DEF Released
<1>10. Attributed'
  <2> SUFFICES ASSUME NEW d \in Accounts, NEW t \in Subjects, ledger'[d][t] = "attributed"
               PROVE  \E k \in Jobs : /\ Did(k)' = d /\ approval'[k].kind # "release"
                                      /\ attempt'[k][t] = "confirmed"
    BY DEF Attributed
  <2>1. CASE d = Did(j) /\ t = s
    BY <1>1, <1>2, <1>3, <1>5, <2>1 DEF settled
  <2>2. CASE ~(d = Did(j) /\ t = s)
    BY <1>2, <1>3, <1>5, <2>2 DEF Attributed
  <2> QED
    BY <2>1, <2>2
<1> QED
  BY <1>6, <1>7, <1>8, <1>9, <1>10

\* A run that carries on with its plan, or with part of it.
LEMMA AheadKept ==
    ASSUME NEW w \in Workers, Ahead(w), run[w].pc \in {"next"} \cup ItemSteps,
           run[w].todo \subseteq Subjects,
           run'[w].job = run[w].job, run'[w].plan = run[w].plan,
           run'[w].todo \subseteq run[w].todo, UNCHANGED approval,
           \A t \in run'[w].todo :
              \/ run'[w].pc \in Journaled /\ t = run'[w].subj
              \/ /\ ledger'[Did(run[w].job)][t] = ledger[Did(run[w].job)][t]
                 /\ ~(run[w].pc \in Journaled /\ t = run[w].subj),
           \A d, t : t \in Subjects /\ Earned(d, t) => Earned(d, t)'
    PROVE  Ahead(w)'
BY DEF Ahead, Did

\* The steps of the worker keep the journal, the items and the network in agreement.
LEMMA JournalWorker ==
    ASSUME TypeOK, OneWorker, WriteInv, JournalInv, NEW w \in Workers,
           Start(w) \/ Crash(w) \/ Proceed(w)
    PROVE  JournalInv'
<1> AskTypeOK /\ JobTypeOK /\ EngineTypeOK /\ RunTypeOK /\ ApprovedOK /\ WorldTypeOK
  BY DEF TypeOK
<1> Running /\ Books /\ UnprovenSuspends /\ Released /\ Attributed /\ Ahead(w) /\ InWork(w)
  BY DEF JournalInv
<1> run[w] \in Run /\ LocalOK(run[w]) /\ InHand(w) /\ Unsent
  BY DEF RunTypeOK, WriteInv
<1> /\ run[w].job # 0 => run[w].job \in Jobs
    /\ run[w].subj # 0 => run[w].subj \in Subjects
    /\ run[w].todo \subseteq Subjects
  BY DEF Run
<1> DEFINE j == run[w].job
           s == run[w].subj
           frame == UNCHANGED <<ledger, attempt, begins, writes, approval>>
<1>i. run[w].pc \in ItemSteps => j \in Jobs /\ s \in Subjects /\ Did(j) \in Accounts
  BY DEF LocalOK, ItemSteps, EffectSteps, Did, AskTypeOK
<1>n. run[w].pc \in {"claimed", "planning", "next"} \cup ItemSteps => j \in Jobs /\ status[j] = "running"
  BY DEF Running, Working, LocalOK, ItemSteps, EffectSteps
<1>h. \A k, t : Held(k, t)' <=> run'[w].pc \in ItemSteps /\ run'[w].job = k /\ run'[w].subj = t
  BY HeldByOne
\* With one worker only this run matters.
<1>a. ASSUME Books', UnprovenSuspends', Released', Attributed', Ahead(w)', InWork(w)',
             run'[w].pc \notin {"stopped", "idle"} => status'[run'[w].job] = "running"
      PROVE  JournalInv'
  BY <1>a DEF OneWorker, JournalInv, Running, Working
\* A step after which the run has no plan.
<1>b. ASSUME frame, ItemsMove, run'[w].pc \in {"stopped", "idle", "claimed", "planning"},
             run'[w].pc \notin {"stopped", "idle"} => status'[run'[w].job] = "running"
      PROVE  JournalInv'
  <2>1. Ahead(w)' /\ InWork(w)'
    BY <1>b DEF Ahead, InWork, ItemSteps, EffectSteps, Journaled, After
  <2>2. TakesPending
    BY <1>b, <1>h DEF TakesPending, ItemSteps, EffectSteps
  <2> QED
    BY <1>a, <1>b, <2>1, <2>2, CalmStep
<1>e. ASSUME NEW result, EndRun(w, result), frame, ItemsMove
      PROVE  JournalInv'
  BY <1>b, <1>e, IdleFacts DEF EndRun
\* A step within the plan that leaves the journal and the network alone.
<1>c. ASSUME frame, ItemsMove, UNCHANGED status, run[w].pc \in {"next"} \cup ItemSteps,
             run'[w].pc \in {"next"} \cup ItemSteps, run'[w].job = j, run'[w].plan = run[w].plan,
             run'[w].todo \subseteq run[w].todo,
             \A t \in run'[w].todo :
                \/ run'[w].pc \in Journaled /\ t = run'[w].subj
                \/ ~(run[w].pc \in Journaled /\ t = s),
             run'[w].pc \in ItemSteps =>
                \/ run[w].pc \in ItemSteps /\ run'[w].subj = s
                \/ item[j][run'[w].subj] = "pending",
             InWork(w)'
      PROVE  JournalInv'
  <2>1. TakesPending
    BY <1>c, <1>h DEF TakesPending, Held
  <2>2. /\ Books' /\ UnprovenSuspends' /\ Released' /\ Attributed'
        /\ \A d, t : t \in Subjects /\ Earned(d, t) => Earned(d, t)'
    BY <1>c, <2>1, CalmStep
  <2>3. Ahead(w)'
    BY <1>c, <2>2, AheadKept
  <2> QED
    BY <1>a, <1>c, <1>n, <2>2, <2>3
<1>1. ASSUME Start(w) PROVE JournalInv'
  <2>1. run'[w].pc = "idle" /\ frame
    BY <1>1, GoToFacts DEF Start, Steps, outside, askVars, engineVars
  <2>2. ItemsMove
    BY <1>1 DEF Start, Recover, ItemsMove
  <2> QED
    BY <1>b, <2>1, <2>2
<1>2. ASSUME Crash(w) PROVE JournalInv'
  BY <1>2, <1>b, IdleFacts DEF Crash, jobVars, askVars, engineVars, ItemsMove
<1>3. ASSUME NEW k \in Jobs, Claim(w, k) PROVE JournalInv'
  <2> DEFINE r == [run[w] EXCEPT !.pc = "claimed", !.job = k]
  <2>1. r \in Run /\ r.pc = "claimed" /\ r.job = k
    BY DEF Run, Steps
  <2>2. run'[w] = r /\ status'[k] = "running" /\ frame /\ ItemsMove
    BY <1>3, <2>1, BecomesFacts DEF Claim, JobTypeOK, outside, askVars, engineVars, ItemsMove
  <2> QED
    BY <1>b, <2>1, <2>2
\* Skipping the pending items of the own job.
<1>s. ASSUME j \in Jobs, SkipPending(j, "skipped_cancelled") PROVE ItemsMove
  BY <1>s DEF SkipPending, JobTypeOK, ItemsMove, Skipped
<1>4. ASSUME Preflight(w) PROVE JournalInv'
  <2>1. frame /\ j \in Jobs /\ status[j] = "running"
    BY <1>4, <1>n DEF Preflight, outside, askVars, engineVars
  <2>2. \/ \E result : EndRun(w, result)
        \/ GoTo(w, "planning") /\ UNCHANGED <<status, item>>
    BY <1>4 DEF Preflight
  <2>3. ItemsMove
    BY <1>4, <1>s, <2>1 DEF Preflight, ItemsMove
  <2>4. CASE GoTo(w, "planning") /\ UNCHANGED <<status, item>>
    BY <1>b, <2>1, <2>3, <2>4, GoToFacts DEF Steps
  <2> QED
    BY <1>e, <2>1, <2>2, <2>3, <2>4
<1>5. ASSUME NEW unseen \in SUBSET Subjects, Plan(w, unseen) PROVE JournalInv'
  <2> DEFINE r == [run[w] EXCEPT !.pc = "next", !.plan = RowsOf(Did(j), unseen),
                                 !.todo = {t \in Subjects : item[j][t] = "pending"}]
  <2>1. j \in Jobs /\ Did(j) \in Accounts /\ status[j] = "running"
    BY <1>5, <1>n DEF Plan, Did, AskTypeOK
  <2>2. RowsOf(Did(j), unseen) \in [Subjects -> Row]
    BY <2>1, RowsTyped
  <2>3. /\ r \in Run /\ r.pc = "next" /\ r.job = j /\ r.plan = RowsOf(Did(j), unseen)
        /\ r.todo \subseteq Subjects
    BY <2>2 DEF Run, Steps
  <2>4. run'[w] = r /\ frame /\ UNCHANGED <<status, item>>
    BY <1>5, <2>3, BecomesFacts DEF Plan, outside, jobVars, askVars, engineVars
  <2>5. ~\E k, t : Held(k, t)'
    BY <1>h, <2>3, <2>4 DEF ItemSteps, EffectSteps
  <2>6. /\ Books' /\ UnprovenSuspends' /\ Released' /\ Attributed'
    <3>1. ItemsMove /\ TakesPending
      BY <2>4, <2>5 DEF ItemsMove, TakesPending
    <3> QED
      BY <2>4, <3>1, CalmStep
  <2>7. \A d \in Accounts, t \in Subjects : ledger'[d][t] = "attributed" => Earned(d, t)'
    BY <2>5, <2>6 DEF Attributed, Earned
  <2>8. Did(j)' = Did(j) /\ ledger' = ledger
    BY <2>4 DEF Did
  <2>9. \A t \in Subjects : r.plan[t].ledger = ledger[Did(j)][t]
    BY <2>3 DEF RowsOf
  <2>10. Ahead(w)'
    BY <2>1, <2>3, <2>4, <2>7, <2>8, <2>9 DEF Ahead
  <2>11. InWork(w)'
    BY <2>3, <2>4 DEF InWork, ItemSteps, EffectSteps, Journaled, After
  <2> QED
    BY <1>a, <2>1, <2>3, <2>4, <2>6, <2>10, <2>11
<1>6. ASSUME ReadFails(w) PROVE JournalInv'
  <2>1. \E result : EndRun(w, result)
    BY <1>6 DEF ReadFails
  <2> QED
    BY <1>6, <1>e, <2>1 DEF ReadFails, outside, askVars, engineVars, ItemsMove
<1>7. ASSUME StopItems(w) PROVE JournalInv'
  <2> DEFINE r == [run[w] EXCEPT !.todo = {}]
  <2>1. r \in Run /\ r.pc = "next" /\ r.todo = {} /\ r.job = j /\ r.plan = run[w].plan
    BY <1>7 DEF StopItems, Run
  <2>2. run'[w] = r /\ run[w].pc = "next" /\ frame /\ ItemsMove /\ UNCHANGED status
    BY <1>7, <1>n, <1>s, <2>1, BecomesFacts DEF StopItems, outside, askVars, engineVars
  <2>3. InWork(w)'
    BY <2>1, <2>2 DEF InWork, ItemSteps, EffectSteps, Journaled, After
  <2> QED
    BY <1>c, <2>1, <2>2, <2>3 DEF ItemSteps, EffectSteps
<1>8. ASSUME NEW u \in Subjects, SkipChanged(w, u) PROVE JournalInv'
  <2> DEFINE r == [run[w] EXCEPT !.todo = @ \ {u}]
  <2>1. /\ r \in Run /\ r.pc = "next" /\ r.todo = run[w].todo \ {u} /\ r.job = j
        /\ r.plan = run[w].plan
    BY <1>8 DEF SkipChanged, Run
  <2>2. run'[w] = r /\ run[w].pc = "next" /\ frame /\ UNCHANGED status
    BY <1>8, <2>1, BecomesFacts DEF SkipChanged, outside, askVars, engineVars
  <2>3. j \in Jobs /\ item[j][u] = "pending"
    BY <1>8, <1>n, ConstantsAssumption DEF SkipChanged, Head, InHand, ItemSteps, EffectSteps
  <2>4. ItemsMove
    BY <1>8, <2>3 DEF SkipChanged, ItemsMove, Skipped, JobTypeOK
  <2>5. InWork(w)'
    BY <2>1, <2>2 DEF InWork, ItemSteps, EffectSteps, Journaled, After
  <2> QED
    BY <1>c, <2>1, <2>2, <2>4, <2>5 DEF ItemSteps, EffectSteps, Journaled
<1>9. ASSUME NEW u \in Subjects, StartItem(w, u) PROVE JournalInv'
  <2> DEFINE r == [run[w] EXCEPT !.pc = "observing", !.subj = u]
  <2>1. /\ r \in Run /\ r.pc = "observing" /\ r.subj = u /\ r.todo = run[w].todo /\ r.job = j
        /\ r.plan = run[w].plan
    BY DEF Run, Steps
  <2>2. run'[w] = r /\ run[w].pc = "next" /\ u \in run[w].todo /\ frame /\ UNCHANGED <<status, item>>
    BY <1>9, <2>1, BecomesFacts DEF StartItem, Head, outside, askVars, engineVars, jobVars
  <2>3. item[j][u] = "pending"
    BY <2>2, ConstantsAssumption DEF InHand, ItemSteps, EffectSteps
  <2>4. Proposes(run[w].plan[u], approval[j].kind)
    BY <1>9 DEF StartItem, StillApproved
  <2>5. InWork(w)'
    BY <2>1, <2>2, <2>4 DEF InWork, ItemSteps, EffectSteps, Journaled, After
  <2> QED
    BY <1>c, <2>1, <2>2, <2>3, <2>5 DEF ItemSteps, EffectSteps, Journaled, ItemsMove
<1>10. ASSUME Observe(w) PROVE JournalInv'
  <2>1. PICK observed \in Observation :
           Becomes(w, [run[w] EXCEPT !.pc = "reserving", !.fresh = observed])
    <3>1. run[w].pc \in ItemSteps
      BY <1>10 DEF Observe, ItemSteps
    <3>2. Unknown \in Observation /\ remote[Did(j)][s] \in Observation
      BY <1>i, <3>1 DEF WorldTypeOK, Unknown, Observation
    <3> QED
      BY <1>10, <3>2 DEF Observe
  <2> DEFINE r == [run[w] EXCEPT !.pc = "reserving", !.fresh = observed]
  <2>2. /\ r \in Run /\ r.pc = "reserving" /\ r.subj = s /\ r.todo = run[w].todo /\ r.job = j
        /\ r.plan = run[w].plan
    BY <2>1 DEF Run, Steps
  <2>3. run'[w] = r /\ run[w].pc = "observing" /\ frame /\ UNCHANGED <<status, item>>
    BY <1>10, <2>1, <2>2, BecomesFacts DEF Observe, outside, askVars, engineVars, jobVars
  <2>4. InWork(w)'
    BY <2>2, <2>3 DEF InWork, ItemSteps, EffectSteps, Journaled, After
  <2> QED
    BY <1>c, <2>2, <2>3, <2>4 DEF ItemSteps, EffectSteps, Journaled, ItemsMove
<1>11. ASSUME Reserve(w) PROVE JournalInv'
  <2>1. run[w].pc = "reserving" /\ frame /\ j \in Jobs /\ s \in Subjects /\ Did(j) \in Accounts
        /\ item[j][s] = "pending"
    BY <1>11, <1>i DEF Reserve, outside, askVars, engineVars, ItemSteps, InHand, Before
  <2>2. CASE SetItem(w, "skipped_changed") /\ Advance(w) /\ UNCHANGED <<status, effect>>
    <3>1. ItemsMove
      BY <2>1, <2>2 DEF SetItem, JobTypeOK, ItemsMove, Skipped
    <3>2. /\ run'[w].pc = "next" /\ run'[w].job = j /\ run'[w].plan = run[w].plan
          /\ run'[w].todo \subseteq run[w].todo
      BY <2>2, AdvanceFacts
    <3>3. InWork(w)'
      BY <3>2 DEF InWork, ItemSteps, EffectSteps, Journaled, After
    <3> QED
      BY <1>c, <2>1, <2>2, <3>1, <3>2, <3>3 DEF ItemSteps, EffectSteps, Journaled
  <2>3. CASE EndRun(w, "paused_by_operator") /\ UNCHANGED <<item, effect>>
    BY <1>e, <2>1, <2>3 DEF ItemsMove
  <2>4. ASSUME NEW e \in Slots, UNCHANGED <<status, item>>,
               effect' = [effect EXCEPT ![e] = [did |-> Did(j), status |-> "attempting"]],
               Becomes(w, [run[w] EXCEPT !.pc = "journaling", !.slot = e])
        PROVE  JournalInv'
    <3> DEFINE r == [run[w] EXCEPT !.pc = "journaling", !.slot = e]
    <3>1. /\ r \in Run /\ r.pc = "journaling" /\ r.subj = s /\ r.todo = run[w].todo /\ r.job = j
          /\ r.plan = run[w].plan /\ r.slot = e
      BY DEF Run, Steps
    <3>2. run'[w] = r
      BY <2>4, <3>1, BecomesFacts
    <3>3. effect'[e] = [did |-> Did(j), status |-> "attempting"] /\ Did(j)' = Did(j)
      BY <2>1, <2>4, <3>1, <3>2 DEF JobTypeOK, Did
    <3>4. InWork(w)'
      <4>1. s \in run[w].todo /\ Proposes(run[w].plan[s], approval[j].kind)
        BY <2>1 DEF InWork, ItemSteps
      <4>2. approval'[j].kind = approval[j].kind
        BY <2>1
      <4>3. run'[w].pc \notin Journaled /\ run'[w].pc \notin After
        BY <3>1, <3>2 DEF Journaled, EffectSteps, After
      <4> QED
        BY <3>1, <3>2, <3>3, <4>1, <4>2, <4>3 DEF InWork, After, Journaled
    <3> QED
      BY <1>c, <2>1, <2>4, <3>1, <3>2, <3>4 DEF ItemSteps, EffectSteps, Journaled, ItemsMove
  <2> QED
    BY <1>11, <2>2, <2>3, <2>4 DEF Reserve
<1>12. ASSUME JournalCommits(w) PROVE JournalInv'
  <2>1. /\ run[w].pc = "journaling" /\ GoTo(w, "journaled")
        /\ UNCHANGED <<approval, item, writes, status, effect>>
        /\ attempt' = [attempt EXCEPT ![j][s] = "pending"]
        /\ ledger' = [ledger EXCEPT ![Did(j)][s] = "unresolved"]
        /\ begins' = [begins EXCEPT ![j][s] = @ + 1]
    BY <1>12 DEF JournalCommits, outside, askVars, jobVars
  <2>2. j \in Jobs /\ s \in Subjects /\ Did(j) \in Accounts /\ item[j][s] = "pending"
        /\ s \in run[w].todo /\ run[w].pc \in ItemSteps
    BY <1>i, <2>1 DEF ItemSteps, EffectSteps, InHand, Before, InWork
  <2>3. \A k \in Jobs, t \in Subjects :
            /\ attempt'[k][t] = IF k = j /\ t = s THEN "pending" ELSE attempt[k][t]
            /\ begins'[k][t] = IF k = j /\ t = s THEN begins[k][t] + 1 ELSE begins[k][t]
    BY <2>1, <2>2 DEF EngineTypeOK
  <2>4. \A d \in Accounts, t \in Subjects :
            ledger'[d][t] = IF d = Did(j) /\ t = s THEN "unresolved" ELSE ledger[d][t]
    BY <2>1, <2>2 DEF EngineTypeOK
  <2>5. \A k \in Jobs : Did(k)' = Did(k) /\ Did(k) \in Accounts
    BY <2>1 DEF Did, AskTypeOK
\* The plan saw no open attempt, so there is none.
  <2>6. ledger[Did(j)][s] # "unresolved"
    BY <2>1, <2>2 DEF InWork, Ahead, ItemSteps, EffectSteps, Journaled, Proposes
  <2>7. \A k \in Jobs : Did(k) = Did(j) => attempt[k][s] \notin Unproven
    BY <2>2, <2>6 DEF UnprovenSuspends, Unproven
  <2>8. BookOK(j, s) /\ attempt[j][s] = "none"
    <3>1. BookOK(j, s)
      BY <2>2 DEF Books
    <3> QED
      BY <2>2, <2>7, <3>1 DEF BookOK, EngineTypeOK, AttemptStatus, Unproven
  <2>9. Books'
    <3> SUFFICES ASSUME NEW k \in Jobs, NEW t \in Subjects PROVE BookOK(k, t)'
      BY DEF Books
    <3>1. BookOK(k, t)
      BY DEF Books
    <3>2. CASE k = j /\ t = s
      BY <2>1, <2>2, <2>3, <2>8, <3>2 DEF BookOK, Skipped
    <3>3. CASE ~(k = j /\ t = s)
      BY <2>1, <2>3, <3>1, <3>3 DEF BookOK
    <3> QED
      BY <3>2, <3>3
  <2>10. UnprovenSuspends'
    BY <2>3, <2>4, <2>5 DEF UnprovenSuspends
  <2>11. \A d, t : t \in Subjects /\ Earned(d, t) => Earned(d, t)'
    <3>1. \A k, t : Held(k, t)' => Held(k, t)
      BY <1>h, <2>1, <2>2, GoToFacts DEF Held, Steps
    <3> QED
      BY <2>1, <2>3, <2>8, <3>1, EarnedKept
  <2>12. Released'
    BY <2>1, <2>5, <2>11 DEF Released
  <2>13. Attributed'
    BY <2>1, <2>3, <2>4, <2>5, <2>8 DEF Attributed
  <2>14. /\ run'[w].pc = "journaled" /\ run'[w].job = j /\ run'[w].todo = run[w].todo
         /\ run'[w].subj = s /\ run'[w].plan = run[w].plan /\ run'[w].slot = run[w].slot
    BY <2>1, GoToFacts DEF Steps
  <2>15. Ahead(w)'
    <3>1. \A t \in run'[w].todo : t = s \/ ledger'[Did(j)][t] = ledger[Did(j)][t]
      BY <2>2, <2>4, <2>14
    <3> QED
      BY <2>1, <2>2, <2>11, <2>14, <3>1, AheadKept DEF Journaled, EffectSteps
  <2>16. InWork(w)'
    BY <2>1, <2>2, <2>3, <2>5, <2>7, <2>14 DEF InWork, ItemSteps, EffectSteps, Journaled, After, Did
  <2> QED
    BY <1>a, <1>n, <2>1, <2>2, <2>9, <2>10, <2>12, <2>13, <2>14, <2>15, <2>16
<1>13. ASSUME JournalReplies(w) PROVE JournalInv'
  <2>1. run[w].pc = "journaled" /\ GoTo(w, "begun") /\ frame /\ UNCHANGED <<status, effect>>
    BY <1>13 DEF JournalReplies, outside, askVars, engineVars
  <2>2. j \in Jobs /\ s \in Subjects /\ item[j][s] = "pending"
    BY <1>i, <2>1 DEF ItemSteps, EffectSteps, InHand, Before
  <2>3. ItemsMove
    BY <1>13, <2>2 DEF JournalReplies, SetItem, JobTypeOK, ItemsMove
  <2>4. /\ run'[w].pc = "begun" /\ run'[w].job = j /\ run'[w].todo = run[w].todo
        /\ run'[w].subj = s /\ run'[w].plan = run[w].plan /\ run'[w].slot = run[w].slot
    BY <2>1, GoToFacts DEF Steps
  <2>5. InWork(w)'
    BY <2>1, <2>4 DEF InWork, ItemSteps, EffectSteps, Journaled, After, Did
  <2> QED
    BY <1>c, <2>1, <2>3, <2>4, <2>5 DEF ItemSteps, EffectSteps, Journaled
<1>14. ASSUME JournalFails(w) PROVE JournalInv'
  BY <1>14, <1>e DEF JournalFails, outside, askVars, engineVars, ItemsMove
<1>15. ASSUME LastGate(w) PROVE JournalInv'
  <2>1. run[w].pc = "begun" /\ frame /\ UNCHANGED <<status, item, effect>>
    BY <1>15 DEF LastGate, outside, askVars, engineVars, jobVars
  <2>2. PICK step \in {"writing", "refusing"} : GoTo(w, step)
    BY <1>15 DEF LastGate
  <2>3. /\ run'[w].pc = step /\ run'[w].job = j /\ run'[w].todo = run[w].todo
        /\ run'[w].subj = s /\ run'[w].plan = run[w].plan /\ run'[w].slot = run[w].slot
    BY <2>2, GoToFacts DEF Steps
  <2>4. InWork(w)'
    BY <2>1, <2>3 DEF InWork, ItemSteps, EffectSteps, Journaled, After, Did
  <2> QED
    BY <1>c, <2>1, <2>3, <2>4 DEF ItemSteps, EffectSteps, Journaled, ItemsMove
\* engine.finish on the item in hand: what FinishStep gives, and the plan of the rest.
<1>f. ASSUME NEW success \in BOOLEAN, Finish(w, success), run[w].pc \in Journaled,
             UNCHANGED <<writes, approval>>, success => run[w].pc \in After,
             item[j][s] = "attempting",
             \A k \in Jobs, t \in Subjects : k # j \/ t # s => item'[k][t] = item[k][t],
             item'[j][s] \in {"attempting", "uncertain"} \cup (IF success THEN {"confirmed"} ELSE {}),
             \/ run'[w].pc \notin ItemSteps
             \/ run'[w].job = j /\ run'[w].subj = s
      PROVE  /\ Books' /\ UnprovenSuspends' /\ Released' /\ Attributed'
             /\ \A d, t : t \in Subjects /\ Earned(d, t) => Earned(d, t)'
             /\ \A t \in Subjects \ {s} : ledger'[Did(j)][t] = ledger[Did(j)][t]
             /\ attempt'[j][s] = IF success THEN "confirmed" ELSE "unresolved"
             /\ \A k \in Jobs \ {j} : attempt'[k] = attempt[k]
  <2>1. run[w].pc \in ItemSteps
    BY <1>f DEF Journaled, ItemSteps
  <2>2. success => writes[j][s] = 1
    BY <1>f DEF InWork
  <2>3. \A k \in Jobs, t \in Subjects : Held(k, t)' => Held(k, t)
    BY <1>f, <1>h, <2>1 DEF Held
  <2>4. /\ Books' /\ UnprovenSuspends' /\ Released' /\ Attributed'
        /\ \A d, t : t \in Subjects /\ Earned(d, t) => Earned(d, t)'
    BY <1>f, <2>2, <2>3, FinishStep
  <2>5. /\ \A t \in Subjects \ {s} : ledger'[Did(j)][t] = ledger[Did(j)][t]
        /\ attempt'[j][s] = IF success THEN "confirmed" ELSE "unresolved"
        /\ \A k \in Jobs \ {j} : attempt'[k] = attempt[k]
    BY <1>f, <1>i, <2>1 DEF Finish, EngineTypeOK
  <2> QED
    BY <2>4, <2>5
\* The outcome of the item in hand, and on to the next one.
<1>g. ASSUME NEW success \in BOOLEAN, Finish(w, success), run[w].pc \in After,
             UNCHANGED <<writes, approval, status>>, Advance(w),
             SetItem(w, IF success THEN "confirmed" ELSE "uncertain")
      PROVE  JournalInv'
  <2>1. run[w].pc \in Journaled /\ run[w].pc \in ItemSteps /\ item[j][s] = "attempting"
    BY <1>g DEF After, Journaled, EffectSteps, ItemSteps, InHand
  <2>2. \A k \in Jobs, t \in Subjects :
            item'[k][t] = IF k = j /\ t = s THEN IF success THEN "confirmed" ELSE "uncertain"
                          ELSE item[k][t]
    BY <1>g, <1>i, <2>1 DEF SetItem, JobTypeOK
  <2>3. /\ run'[w].pc = "next" /\ run'[w].job = j /\ run'[w].plan = run[w].plan
        /\ run'[w].todo = run[w].todo \ {s}
    BY <1>g, AdvanceFacts
  <2>4. run'[w].pc \notin ItemSteps
    BY <2>3 DEF ItemSteps, EffectSteps
  <2>5. /\ Books' /\ UnprovenSuspends' /\ Released' /\ Attributed'
        /\ \A d, t : t \in Subjects /\ Earned(d, t) => Earned(d, t)'
        /\ \A t \in Subjects \ {s} : ledger'[Did(j)][t] = ledger[Did(j)][t]
    BY <1>f, <1>g, <1>i, <2>1, <2>2, <2>4
  <2>6. Ahead(w)'
    BY <1>g, <2>1, <2>3, <2>5, AheadKept
  <2>7. InWork(w)'
    BY <2>3 DEF InWork, ItemSteps, EffectSteps, Journaled, After
  <2> QED
    BY <1>a, <1>g, <1>n, <2>1, <2>3, <2>5, <2>6, <2>7
<1>16. ASSUME RefusalCommits(w) PROVE JournalInv'
  <2>1. run[w].pc = "refusing" /\ GoTo(w, "refused") /\ Finish(w, FALSE)
        /\ UNCHANGED <<writes, approval, status, item, effect>>
    BY <1>16 DEF RefusalCommits, outside, askVars, jobVars
  <2>2. /\ run'[w].pc = "refused" /\ run'[w].job = j /\ run'[w].todo = run[w].todo
        /\ run'[w].subj = s /\ run'[w].plan = run[w].plan /\ run'[w].slot = run[w].slot
    BY <2>1, GoToFacts DEF Steps
  <2>3. run[w].pc \in Journaled /\ run[w].pc \in ItemSteps /\ item[j][s] = "attempting"
    BY <2>1 DEF Journaled, EffectSteps, ItemSteps, InHand, Between
  <2>4. /\ Books' /\ UnprovenSuspends' /\ Released' /\ Attributed'
        /\ \A d, t : t \in Subjects /\ Earned(d, t) => Earned(d, t)'
        /\ \A t \in Subjects \ {s} : ledger'[Did(j)][t] = ledger[Did(j)][t]
        /\ attempt'[j][s] = "unresolved"
        /\ \A k \in Jobs \ {j} : attempt'[k] = attempt[k]
    BY <1>f, <2>1, <2>2, <2>3
  <2>5. Ahead(w)'
    BY <2>1, <2>2, <2>3, <2>4, AheadKept DEF Journaled, EffectSteps
  <2>6. InWork(w)'
    BY <1>i, <2>1, <2>2, <2>3, <2>4 DEF InWork, Journaled, EffectSteps, ItemSteps, After, Did
  <2> QED
    BY <1>a, <1>n, <2>1, <2>2, <2>3, <2>4, <2>5, <2>6
<1>17. ASSUME RefusalReplies(w) PROVE JournalInv'
  <2>1. run[w].pc = "refused" /\ frame /\ EndRun(w, "paused_by_operator")
    BY <1>17 DEF RefusalReplies, outside, askVars, engineVars
  <2>2. /\ item[j][s] = "attempting" /\ attempt[j][s] = "unresolved" /\ j \in Jobs /\ s \in Subjects
    BY <1>i, <2>1 DEF InHand, Between, InWork, ItemSteps, EffectSteps
  <2>3. ItemsMove
    BY <1>17, <2>2 DEF RefusalReplies, SetItem, ItemsMove, JobTypeOK
  <2> QED
    BY <1>e, <2>1, <2>3
<1>18. ASSUME WorkerError(w) PROVE JournalInv'
  BY <1>18, <1>e DEF WorkerError, outside, askVars, engineVars, ItemsMove
<1>19. ASSUME NEW applied \in BOOLEAN, NEW answered \in BOOLEAN, Write(w, applied, answered)
       PROVE  JournalInv'
  <2>1. /\ run[w].pc = "writing" /\ writes' = [writes EXCEPT ![j][s] = @ + 1]
        /\ UNCHANGED <<ledger, attempt, begins, approval, item, status, effect>>
    BY <1>19 DEF Write, askVars, jobVars, engineVars
  <2>2. PICK step \in {"confirming", "doubtful"} : GoTo(w, step)
    BY <1>19 DEF Write
  <2>3. /\ run'[w].pc = step /\ run'[w].job = j /\ run'[w].todo = run[w].todo
        /\ run'[w].subj = s /\ run'[w].plan = run[w].plan /\ run'[w].slot = run[w].slot
    BY <2>2, GoToFacts DEF Steps
  <2>4. /\ j \in Jobs /\ s \in Subjects /\ Did(j) \in Accounts /\ run[w].pc \in ItemSteps
        /\ item[j][s] = "attempting" /\ writes[j][s] = 0 /\ attempt[j][s] = "pending"
        /\ s \in run[w].todo /\ Proposes(run[w].plan[s], approval[j].kind)
    BY <1>i, <2>1 DEF ItemSteps, EffectSteps, Journaled, InHand, Between, InWork
  <2>5. \A k \in Jobs, t \in Subjects : writes'[k][t] = IF k = j /\ t = s THEN 1 ELSE writes[k][t]
    BY <2>1, <2>4 DEF WorldTypeOK
  <2>6. \A k : Did(k)' = Did(k)
    BY <2>1 DEF Did
  <2>7. Books'
    <3> SUFFICES ASSUME NEW k \in Jobs, NEW t \in Subjects PROVE BookOK(k, t)'
      BY DEF Books
    <3>1. BookOK(k, t)
      BY DEF Books
    <3>2. CASE k = j /\ t = s
      BY <2>1, <2>4, <2>5, <3>1, <3>2 DEF BookOK, Skipped
    <3>3. CASE ~(k = j /\ t = s)
      BY <2>1, <2>5, <3>1, <3>3 DEF BookOK
    <3> QED
      BY <3>2, <3>3
  <2>8. \A d, t : t \in Subjects /\ Earned(d, t) => Earned(d, t)'
    <3>1. \A k, t : Held(k, t)' => Held(k, t)
      BY <2>3, <2>4, HeldByOne
    <3> QED
      BY <2>1, <3>1, EarnedKept
  <2>9. UnprovenSuspends' /\ Attributed'
    BY <2>1, <2>6 DEF UnprovenSuspends, Attributed
  <2>10. Released'
    <3> SUFFICES ASSUME NEW k \in Jobs, NEW t \in Subjects,
                        writes'[k][t] > 0, approval[k].kind = "release"
                 PROVE  Earned(Did(k), t)
      BY <2>1, <2>6, <2>8 DEF Released
    <3>1. CASE k = j /\ t = s
      <4>1. run[w].plan[s].ledger = "attributed"
        BY <2>4, <3>1 DEF Proposes
      <4> QED
        BY <2>4, <3>1, <4>1 DEF Ahead
    <3>2. CASE ~(k = j /\ t = s)
      BY <2>5, <3>2 DEF Released
    <3> QED
      BY <3>1, <3>2
  <2>11. Ahead(w)'
    BY <2>1, <2>2, <2>3, <2>4, <2>8, AheadKept DEF Journaled, EffectSteps
  <2>12. InWork(w)'
    BY <2>1, <2>2, <2>3, <2>4, <2>5, <2>6 DEF InWork, ItemSteps, EffectSteps, Journaled, After
  <2> QED
    BY <1>a, <1>n, <2>1, <2>3, <2>4, <2>7, <2>9, <2>10, <2>11, <2>12
<1>20. ASSUME Confirm(w) PROVE JournalInv'
  <2>1. run[w].pc = "confirming" /\ frame /\ UNCHANGED <<status, item, effect>>
    BY <1>20 DEF Confirm, outside, askVars, engineVars, jobVars
  <2>2. PICK step \in {"proven", "unproven"} : GoTo(w, step)
    BY <1>20 DEF Confirm
  <2>3. /\ run'[w].pc = step /\ run'[w].job = j /\ run'[w].todo = run[w].todo
        /\ run'[w].subj = s /\ run'[w].plan = run[w].plan /\ run'[w].slot = run[w].slot
    BY <2>2, GoToFacts DEF Steps
  <2>4. InWork(w)'
    BY <2>1, <2>3 DEF InWork, ItemSteps, EffectSteps, Journaled, After, Did
  <2> QED
    BY <1>c, <2>1, <2>3, <2>4 DEF ItemSteps, EffectSteps, Journaled, ItemsMove
<1>21. ASSUME Settle(w) PROVE JournalInv'
  <2>1. run[w].pc \in After /\ UNCHANGED <<writes, approval, status>> /\ Advance(w)
    BY <1>21 DEF Settle, outside, askVars, After
  <2> DEFINE success == run[w].pc = "proven"
  <2>2. success \in BOOLEAN /\ Finish(w, success)
        /\ SetItem(w, IF success THEN "confirmed" ELSE "uncertain")
    BY <1>21 DEF Settle
  <2> HIDE DEF success
  <2> QED
    BY <1>g, <2>1, <2>2
<1>22. ASSUME SettleFails(w) PROVE JournalInv'
  <2>1. /\ run[w].pc \in {"proven", "unproven"} /\ GoTo(w, "doubtful")
        /\ UNCHANGED <<writes, approval, status, item, effect>>
    BY <1>22 DEF SettleFails, outside, askVars, jobVars
  <2>2. /\ run'[w].pc = "doubtful" /\ run'[w].job = j /\ run'[w].todo = run[w].todo
        /\ run'[w].subj = s /\ run'[w].plan = run[w].plan /\ run'[w].slot = run[w].slot
    BY <2>1, GoToFacts DEF Steps
  <2>3. CASE UNCHANGED engineVars
    <3>1. InWork(w)' /\ frame
      BY <2>1, <2>2, <2>3 DEF InWork, ItemSteps, EffectSteps, Journaled, After, Did, engineVars
    <3> QED
      BY <1>c, <2>1, <2>2, <3>1 DEF ItemSteps, EffectSteps, Journaled, ItemsMove
  <2>4. ASSUME NEW success \in BOOLEAN, Finish(w, success) PROVE JournalInv'
    <3>1. /\ run[w].pc \in After /\ run[w].pc \in Journaled /\ run[w].pc \in ItemSteps
          /\ item[j][s] = "attempting"
      BY <2>1 DEF After, Journaled, EffectSteps, ItemSteps, InHand
    <3>2. /\ Books' /\ UnprovenSuspends' /\ Released' /\ Attributed'
          /\ \A d, t : t \in Subjects /\ Earned(d, t) => Earned(d, t)'
          /\ \A t \in Subjects \ {s} : ledger'[Did(j)][t] = ledger[Did(j)][t]
          /\ attempt'[j][s] # "none"
          /\ \A k \in Jobs \ {j} : attempt'[k] = attempt[k]
      BY <1>f, <2>1, <2>2, <2>4, <3>1
    <3>3. Ahead(w)'
      BY <2>1, <2>2, <3>1, <3>2, AheadKept DEF Journaled, EffectSteps
    <3>4. InWork(w)'
      BY <1>i, <2>1, <2>2, <3>1, <3>2 DEF InWork, Journaled, EffectSteps, ItemSteps, After, Did
    <3> QED
      BY <1>a, <1>n, <2>1, <2>2, <3>1, <3>2, <3>3, <3>4
  <2> QED
    BY <1>22, <2>3, <2>4 DEF SettleFails
<1>23. ASSUME DoubtCommits(w) PROVE JournalInv'
  <2>1. run[w].pc = "doubtful" /\ GoTo(w, "doubted") /\ Finish(w, FALSE)
        /\ UNCHANGED <<writes, approval, status, item, effect>>
    BY <1>23 DEF DoubtCommits, outside, askVars, jobVars
  <2>2. /\ run'[w].pc = "doubted" /\ run'[w].job = j /\ run'[w].todo = run[w].todo
        /\ run'[w].subj = s /\ run'[w].plan = run[w].plan /\ run'[w].slot = run[w].slot
    BY <2>1, GoToFacts DEF Steps
  <2>3. /\ run[w].pc \in After /\ run[w].pc \in Journaled /\ run[w].pc \in ItemSteps
        /\ item[j][s] = "attempting"
    BY <2>1 DEF After, Journaled, EffectSteps, ItemSteps, InHand
  <2>4. /\ Books' /\ UnprovenSuspends' /\ Released' /\ Attributed'
        /\ \A d, t : t \in Subjects /\ Earned(d, t) => Earned(d, t)'
        /\ \A t \in Subjects \ {s} : ledger'[Did(j)][t] = ledger[Did(j)][t]
        /\ attempt'[j][s] = "unresolved"
        /\ \A k \in Jobs \ {j} : attempt'[k] = attempt[k]
    BY <1>f, <2>1, <2>2, <2>3
  <2>5. Ahead(w)'
    BY <2>1, <2>2, <2>3, <2>4, AheadKept DEF Journaled, EffectSteps
  <2>6. InWork(w)'
    BY <1>i, <2>1, <2>2, <2>3, <2>4 DEF InWork, Journaled, EffectSteps, ItemSteps, After, Did
  <2> QED
    BY <1>a, <1>n, <2>1, <2>2, <2>3, <2>4, <2>5, <2>6
<1>24. ASSUME Doubt(w) PROVE JournalInv'
  <2>1. run[w].pc = "doubted" /\ frame /\ UNCHANGED status /\ Advance(w) /\ SetItem(w, "uncertain")
    BY <1>24 DEF Doubt, outside, askVars, engineVars
  <2>2. j \in Jobs /\ s \in Subjects /\ item[j][s] = "attempting"
    BY <1>i, <2>1 DEF InHand, After, ItemSteps, EffectSteps
  <2>3. ItemsMove
    BY <2>1, <2>2 DEF SetItem, ItemsMove, JobTypeOK
  <2>4. /\ run'[w].pc = "next" /\ run'[w].job = j /\ run'[w].plan = run[w].plan
        /\ run'[w].todo = run[w].todo \ {s}
    BY <2>1, AdvanceFacts
  <2>5. InWork(w)'
    BY <2>4 DEF InWork, ItemSteps, EffectSteps, Journaled, After
  <2> QED
    BY <1>c, <2>1, <2>3, <2>4, <2>5 DEF ItemSteps, EffectSteps, Journaled
<1>25. ASSUME Finalize(w) PROVE JournalInv'
  BY <1>25, <1>e DEF Finalize, outside, askVars, engineVars, ItemsMove
<1> QED
  BY <1>1, <1>2, <1>3, <1>4, <1>5, <1>6, <1>7, <1>8, <1>9, <1>10, <1>11, <1>12, <1>13,
     <1>14, <1>15, <1>16, <1>17, <1>18, <1>19, <1>20, <1>21, <1>22, <1>23, <1>24, <1>25
  DEF Proceed

-----------------------------------------------------------------------------
\* With one worker the three invariants hold together in every reachable state.
LEMMA JournalHolds == OneWorker => (Spec => [](TypeOK /\ WriteInv /\ JournalInv))
<1> SUFFICES ASSUME OneWorker PROVE Spec => [](TypeOK /\ WriteInv /\ JournalInv)
  OBVIOUS
<1> DEFINE All == TypeOK /\ WriteInv /\ JournalInv
<1>1. Init => All
  BY TypeInit, WriteInit, JournalInit
<1>2. All /\ [Next]_vars => All'
  <2> SUFFICES ASSUME All, [Next]_vars PROVE All'
    OBVIOUS
  <2>1. CASE UNCHANGED vars
    <3>1. WriteInv'
      BY <2>1 DEF vars, jobVars, WriteInv, AtMostOneWrite, Unsent, InHand
    <3>2. Running' /\ Books' /\ UnprovenSuspends' /\ Released' /\ Attributed'
      BY <2>1 DEF vars, jobVars, askVars, engineVars, JournalInv, Running, Working, Books, BookOK,
         UnprovenSuspends, Released, Attributed, Earned, Held, Did
    <3>3. \A w \in Workers : Ahead(w)' /\ InWork(w)'
      BY <2>1 DEF vars, jobVars, askVars, engineVars, JournalInv, Ahead, InWork, Earned, Held, Did
    <3> QED
      BY <3>1, <3>2, <3>3, TypeNext DEF JournalInv
  <2>2. CASE Next
    BY <2>2, TypeNext, WriteEnvironment, WriteWorker, JournalEnvironment, JournalWorker DEF Next
  <2> QED
    BY <2>1, <2>2
<1> QED
  BY <1>1, <1>2, PTL DEF Spec

\* A row whose attempt is confirmed belongs to a batch, and one request is behind it.
LEMMA ConfirmedIsSent ==
    ASSUME Books, NEW j \in Jobs, NEW s \in Subjects, attempt[j][s] = "confirmed"
    PROVE  Batch(j) # {} /\ writes[j][s] = 1
BY DEF Books, BookOK, Batch

\* engine.begin commits at most once for an approved item (begin_action in
\* store.py): a refused or interrupted attempt is never opened again.
THEOREM OneAttempt == OneWorker => (Spec => []AttemptOnce)
<1>1. JournalInv => AttemptOnce
  BY DEF JournalInv, Books, BookOK, AttemptOnce
<1> QED
  BY <1>1, JournalHolds, PTL

\* An attempt nobody proved keeps the ledger row unresolved (the engine's finish and
\* begin change both in one transaction), so plan_action proposes nothing for it.
THEOREM DoubtSuspends == OneWorker => (Spec => []UnprovenSuspends)
<1>1. JournalInv => UnprovenSuspends
  BY DEF JournalInv
<1> QED
  BY <1>1, JournalHolds, PTL

\* The worker sends nothing for an account while another batch of the same user has
\* an open or unresolved attempt on it: the plan it just took would have said so.
THEOREM NoWriteOverDoubt == OneWorker => (Spec => []NoWriteOverUnresolved)
<1>1. TypeOK /\ JournalInv => NoWriteOverUnresolved
  BY DEF JournalInv, InWork, NoWriteOverUnresolved, Journaled, EffectSteps, Unproven
<1> QED
  BY <1>1, JournalHolds, PTL

\* When the mute or unmute request leaves (worker.ts, after the last gate), the
\* attempt is open in the journal, the ledger, the item, the job and the effect row.
THEOREM SentIsJournaled == OneWorker => (Spec => []WriteIsJournaled)
<1>1. ASSUME TypeOK, WriteInv, JournalInv, NEW w \in Workers, run[w].pc = "writing"
      PROVE  LET j == run[w].job
                 s == run[w].subj
             IN /\ attempt[j][s] = "pending" /\ ledger[Did(j)][s] = "unresolved"
                /\ item[j][s] = "attempting" /\ status[j] = "running"
                /\ effect[run[w].slot] = [did |-> Did(j), status |-> "attempting"]
  <2>1. run[w] \in Run /\ LocalOK(run[w]) /\ InHand(w) /\ InWork(w) /\ UnprovenSuspends /\ Running
    BY <1>1 DEF TypeOK, RunTypeOK, WriteInv, JournalInv
  <2>2. run[w].job \in Jobs /\ run[w].subj \in Subjects
    BY <1>1, <2>1 DEF LocalOK, Run, ItemSteps, EffectSteps
  <2>3. attempt[run[w].job][run[w].subj] = "pending"
        /\ effect[run[w].slot] = [did |-> Did(run[w].job), status |-> "attempting"]
    BY <1>1, <2>1 DEF InWork, Journaled, EffectSteps
  <2>4. item[run[w].job][run[w].subj] = "attempting"
    BY <1>1, <2>1 DEF InHand, Between
  <2>5. ledger[Did(run[w].job)][run[w].subj] = "unresolved"
    BY <2>1, <2>2, <2>3 DEF UnprovenSuspends
  <2>6. status[run[w].job] = "running"
    BY <1>1, <2>1 DEF Running, Working
  <2> QED
    BY <2>3, <2>4, <2>5, <2>6
<1>2. TypeOK /\ WriteInv /\ JournalInv => WriteIsJournaled
  BY <1>1 DEF WriteIsJournaled
<1> QED
  BY <1>2, JournalHolds, PTL

\* An item the worker reports confirmed has one request and a confirmed attempt
\* behind it; an item still pending or skipped has neither.
THEOREM ReportIsJournaled == OneWorker => (Spec => []ConfirmedIsJournaled)
<1>1. WriteInv /\ JournalInv => ConfirmedIsJournaled
  BY DEF WriteInv, Unsent, JournalInv, Books, BookOK, Skipped, ConfirmedIsJournaled
<1> QED
  BY <1>1, JournalHolds, PTL

\* The ledger says "attributed" only for a mute that a batch of this user sent and
\* the read-back proved (finish_action with success).
THEOREM AttributedIsProven == OneWorker => (Spec => []AttributionIsEarned)
<1>1. JournalInv => AttributionIsEarned
  BY ConfirmedIsSent DEF JournalInv, Attributed, AttributionIsEarned
<1> QED
  BY <1>1, JournalHolds, PTL

\* An unmute is sent only where an earlier batch of the same user proved its mute:
\* the plan proposes a release of attributed rows alone, and they stay so until then.
THEOREM OnlyOwnMutesReleased == OneWorker => (Spec => []ReleaseOnlyOwnMutes)
<1>1. ASSUME JournalInv, NEW j \in Jobs, NEW s \in Subjects,
             writes[j][s] > 0, approval[j].kind = "release"
      PROVE  \E k \in Jobs : /\ Batch(k) # {} /\ Did(k) = Did(j) /\ approval[k].kind # "release"
                             /\ attempt[k][s] = "confirmed"
  <2>1. PICK k \in Jobs : Did(k) = Did(j) /\ approval[k].kind # "release" /\ attempt[k][s] = "confirmed"
    BY <1>1 DEF JournalInv, Released, Earned
  <2> QED
    BY <1>1, <2>1, ConfirmedIsSent DEF JournalInv
<1>2. JournalInv => ReleaseOnlyOwnMutes
  BY <1>1 DEF ReleaseOnlyOwnMutes, Items
<1> QED
  BY <1>2, JournalHolds, PTL

-----------------------------------------------------------------------------
\* What is over after the step as it was before it.
Final ==
    /\ \A j \in Jobs, s \in Subjects : item[j][s] \in Settled => item'[j][s] = item[j][s]
    /\ \A j \in Jobs : status[j] \in Over => status'[j] \in Over

LEMMA FinalEnvironment ==
    ASSUME TypeOK, WriteInv, Web \/ Operator \/ World
    PROVE  Final
<1> JobTypeOK
  BY DEF TypeOK
<1> USE DEF workVars, jobVars, Final, Over
<1>1. ASSUME NEW p \in Previews, NEW kind \in Kinds, NEW batch \in SUBSET Subjects,
             Approve(p, kind, batch)
      PROVE  Final
  <2>1. PICK j \in Jobs :
            /\ status[j] = "absent"
            /\ status' = [status EXCEPT ![j] = "queued"]
            /\ item' = [item EXCEPT ![j] = [s \in Subjects |->
                           IF s \in batch THEN "pending" ELSE "none"]]
    BY <1>1 DEF Approve
  <2>2. \A s \in Subjects : item[j][s] \notin Settled
    BY <2>1 DEF WriteInv, Unsent, Settled
  <2> QED
    BY <2>1, <2>2 DEF JobTypeOK
<1>2. ASSUME NEW d \in Accounts,
             \/ \E unseen \in SUBSET Subjects : TakePreview(d, unseen)
             \/ SignIn(d) \/ EditPolicy(d) \/ \E on \in BOOLEAN : SetAccountWrites(d, on)
      PROVE  Final
  BY <1>2 DEF TakePreview, SignIn, EditPolicy, SetAccountWrites
<1>3. ASSUME NEW d \in Accounts, Disconnect(d) \/ RequestDeletion(d) PROVE Final
  BY <1>3 DEF Disconnect, RequestDeletion, JobTypeOK
<1>4. ASSUME NEW j \in Jobs, CancelJob(j) \/ Resume(j) \/ DelayOver(j) PROVE Final
  BY <1>4 DEF CancelJob, Resume, DelayOver, JobTypeOK
<1>5. ASSUME NEW on \in BOOLEAN, SetWrites(on) \/ SetMaintenance(on) PROVE Final
  BY <1>5 DEF SetWrites, SetMaintenance, JobTypeOK
<1>6. ASSUME NEW p \in Previews, ExpirePreview(p) PROVE Final
  BY <1>6 DEF ExpirePreview
<1>7. ASSUME NEW d \in Accounts, NEW s \in Subjects,
             \/ \E observed \in Observation : ChangeRemote(d, s, observed)
             \/ \E v \in Verdicts : ChangeVerdict(d, s, v)
      PROVE  Final
  BY <1>7 DEF ChangeRemote, ChangeVerdict
<1> QED
  BY <1>1, <1>2, <1>3, <1>4, <1>5, <1>6, <1>7 DEF Web, Operator, World

LEMMA FinalWorker ==
    ASSUME TypeOK, WriteInv, JournalInv, NEW w \in Workers, Start(w) \/ Crash(w) \/ Proceed(w)
    PROVE  Final
<1> JobTypeOK /\ RunTypeOK /\ run[w] \in Run /\ LocalOK(run[w]) /\ InHand(w) /\ Running
  BY DEF TypeOK, RunTypeOK, WriteInv, JournalInv
<1> DEFINE j == run[w].job
           s == run[w].subj
<1> USE DEF outside, jobVars
<1>i. run[w].pc \in ItemSteps => s \in Subjects
  BY DEF LocalOK, Run
<1>n. run[w].pc \notin {"stopped", "idle"} => j \in Jobs /\ status[j] = "running"
  BY DEF Running, Working, LocalOK, Run
<1>a. ASSUME UNCHANGED <<item, status>> PROVE Final
  BY <1>a DEF Final
\* The end of a run ends no job but the running one.
<1>e. ASSUME run[w].pc \notin {"stopped", "idle"}, NEW result, EndRun(w, result),
             \A k \in Jobs, t \in Subjects : item[k][t] \in Settled => item'[k][t] = item[k][t]
      PROVE  Final
  BY <1>e, <1>n DEF EndRun, JobTypeOK, Final, Over
\* The item in hand is not settled.
<1>h. ASSUME run[w].pc \in ItemSteps, NEW value, SetItem(w, value)
      PROVE  \A k \in Jobs, t \in Subjects : item[k][t] \in Settled => item'[k][t] = item[k][t]
  <2>1. item[j][s] \in {"pending", "attempting"}
    BY <1>h DEF InHand, ItemSteps, EffectSteps, Before, Between, After
  <2> QED
    BY <1>h, <1>i, <2>1 DEF SetItem, JobTypeOK, Settled
<1>s. ASSUME NEW value, SkipPending(j, value), run[w].pc \notin {"stopped", "idle"}
      PROVE  \A k \in Jobs, t \in Subjects : item[k][t] \in Settled => item'[k][t] = item[k][t]
  BY <1>n, <1>s DEF SkipPending, JobTypeOK, Settled
<1>1. ASSUME Start(w) PROVE Final
  <2>1. \A k \in Jobs, t \in Subjects : item[k][t] \in Settled => item'[k][t] = item[k][t]
    BY <1>1 DEF Start, Recover, Settled
  <2>2. \A k \in Jobs : status[k] \in Over => status'[k] = status[k]
    BY <1>1 DEF Start, Recover, Over
  <2> QED
    BY <2>1, <2>2 DEF Final
<1>2. ASSUME Crash(w) PROVE Final
  BY <1>2, <1>a DEF Crash
<1>3. ASSUME NEW k \in Jobs, Claim(w, k) PROVE Final
  BY <1>3 DEF Claim, Claimable, JobTypeOK, Final, Over
<1>4. ASSUME Preflight(w) PROVE Final
  <2>1. \/ \E result : EndRun(w, result)
        \/ UNCHANGED <<status, item>>
    BY <1>4 DEF Preflight
  <2>2. run[w].pc = "claimed" /\ (SkipPending(j, "skipped_cancelled") \/ UNCHANGED item)
    BY <1>4 DEF Preflight
  <2> QED
    BY <1>a, <1>e, <1>s, <2>1, <2>2
<1>5. ASSUME ReadFails(w) \/ JournalFails(w) \/ WorkerError(w) \/ Finalize(w)
      PROVE  Final
  <2>1. (\E result : EndRun(w, result)) /\ UNCHANGED item /\ run[w].pc \notin {"stopped", "idle"}
    BY <1>5 DEF ReadFails, JournalFails, WorkerError, Finalize
  <2> QED
    BY <1>e, <2>1
<1>6. ASSUME \/ \E unseen \in SUBSET Subjects : Plan(w, unseen)
             \/ \E t \in Subjects : StartItem(w, t)
             \/ Observe(w) \/ JournalCommits(w) \/ LastGate(w) \/ RefusalCommits(w)
             \/ \E applied, answered \in BOOLEAN : Write(w, applied, answered)
             \/ Confirm(w) \/ SettleFails(w) \/ DoubtCommits(w)
      PROVE  Final
  BY <1>6, <1>a DEF Plan, StartItem, Observe, JournalCommits, LastGate, RefusalCommits, Write,
     Confirm, SettleFails, DoubtCommits
<1>7. ASSUME StopItems(w) PROVE Final
  BY <1>7, <1>s DEF StopItems, Final
<1>8. ASSUME NEW t \in Subjects, SkipChanged(w, t) PROVE Final
  <2>1. item[j][t] = "pending" /\ j \in Jobs
    BY <1>8, <1>n, ConstantsAssumption DEF SkipChanged, Head, InHand, ItemSteps, EffectSteps
  <2> QED
    BY <1>8, <2>1 DEF SkipChanged, JobTypeOK, Settled, Final
<1>9. ASSUME Reserve(w) PROVE Final
  BY <1>9, <1>a, <1>e, <1>h DEF Reserve, ItemSteps, Final
<1>10. ASSUME JournalReplies(w) \/ Settle(w) \/ Doubt(w) PROVE Final
  <2>1. run[w].pc \in ItemSteps /\ UNCHANGED status /\ \E value : SetItem(w, value)
    BY <1>10 DEF JournalReplies, Settle, Doubt, ItemSteps, EffectSteps
  <2> QED
    BY <1>h, <2>1 DEF Final
<1>11. ASSUME RefusalReplies(w) PROVE Final
  BY <1>11, <1>e, <1>h DEF RefusalReplies, ItemSteps, EffectSteps
<1> QED
  BY <1>1, <1>2, <1>3, <1>4, <1>5, <1>6, <1>7, <1>8, <1>9, <1>10, <1>11 DEF Proceed

\* No crash, recovery, resume or late reply rewrites the outcome of an item, and no
\* step takes up a job that is over (recover and the transitions of the job queue).
THEOREM OutcomesStay == OneWorker => (Spec => SettledIsFinal)
<1>1. TypeOK /\ WriteInv /\ JournalInv /\ [Next]_vars => [Final]_vars
  BY FinalEnvironment, FinalWorker DEF Next
<1>2. [Final]_vars <=>
        [/\ \A j \in Jobs, s \in Subjects : item[j][s] \in Settled => item'[j][s] = item[j][s]
         /\ \A j \in Jobs : status[j] \in Over => status'[j] \in Over]_vars
  BY DEF Final
<1> QED
  BY <1>1, <1>2, JournalHolds, PTL DEF Spec, SettledIsFinal

-----------------------------------------------------------------------------
(***************************************************************************)
(* The daily limits.  A refused reservation gives its effect row back, so  *)
(* rows alone bound nothing: every request sent keeps a row of its own.    *)
(***************************************************************************)
Unwritten == {"journaling", "journaled"} \cup Between   \* reserved, nothing sent
Sent == {i \in Items : writes[i[1]][i[2]] > 0}

\* f names the row of every request sent: no two share one, none is given back, and
\* the row of a run that has not sent yet is none of them.
PaidBy(f) ==
    /\ \A a, b \in Sent : f[a] = f[b] => a = b
    /\ \A i \in Sent : /\ effect[f[i]].status # "free" /\ effect[f[i]].did = Did(i[1])
                       /\ \A w \in Workers : run[w].pc \in Unwritten => run[w].slot # f[i]
Paid == \E f \in [Sent -> Slots] : PaidBy(f)

Limits ==
    /\ Cardinality(Used) <= EffectsGlobalDay
    /\ \A d \in Accounts : Cardinality(UsedBy(d)) <= EffectsPerDidDay

LEMMA SlotsFinite ==
    /\ IsFiniteSet(Used) /\ Cardinality(Used) \in Nat
    /\ \A d : IsFiniteSet(UsedBy(d)) /\ Cardinality(UsedBy(d)) \in Nat
<1>1. IsFiniteSet(Slots)
  BY ConstantsAssumption, FS_Interval DEF Slots
<1>2. Used \in SUBSET Slots /\ \A d : UsedBy(d) \in SUBSET Slots
  BY DEF Used, UsedBy
<1>3. IsFiniteSet(Used) /\ \A d : IsFiniteSet(UsedBy(d))
  BY <1>1, <1>2, FS_Subset
<1> QED
  BY <1>3, FS_CardinalityType

\* Rows that are only settled or given back keep the limits.
LEMMA LimitsKept ==
    ASSUME Limits,
           \A e \in Slots : effect'[e].status # "free" =>
                               effect[e].status # "free" /\ effect'[e].did = effect[e].did
    PROVE  Limits'
<1>1. Used' \in SUBSET Used /\ \A d : UsedBy(d)' \in SUBSET UsedBy(d)
  BY DEF Used, UsedBy
<1>2. Cardinality(Used') <= Cardinality(Used) /\ Cardinality(Used') \in Nat
  BY <1>1, SlotsFinite, FS_Subset, FS_CardinalityType
<1>3. ASSUME NEW d \in Accounts PROVE Cardinality(UsedBy(d)') <= EffectsPerDidDay
  <2>1. Cardinality(UsedBy(d)') <= Cardinality(UsedBy(d)) /\ Cardinality(UsedBy(d)') \in Nat
    BY <1>1, SlotsFinite, FS_Subset, FS_CardinalityType
  <2> QED
    BY <2>1, SlotsFinite, ConstantsAssumption DEF Limits
<1> QED
  BY <1>2, <1>3, SlotsFinite, ConstantsAssumption DEF Limits

\* A step that sends nothing keeps the rows of what was sent.
LEMMA PaidKept ==
    ASSUME Paid, UNCHANGED writes,
           \A i \in Sent : Did(i[1])' = Did(i[1]),
           \A e \in Slots : effect[e].status # "free" =>
              \/ effect'[e].status # "free" /\ effect'[e].did = effect[e].did
              \/ \E w \in Workers : run[w].pc \in Unwritten /\ run[w].slot = e,
           \A w \in Workers : run'[w].pc \in Unwritten =>
              \/ run[w].pc \in Unwritten /\ run'[w].slot = run[w].slot
              \/ effect[run'[w].slot].status = "free"
    PROVE  Paid'
<1>1. PICK f \in [Sent -> Slots] : PaidBy(f)
  BY DEF Paid
<1>2. Sent' = Sent
  BY DEF Sent
<1>3. \A a, b \in Sent' : f[a] = f[b] => a = b
  BY <1>1, <1>2 DEF PaidBy
<1>4. ASSUME NEW i \in Sent
      PROVE  /\ effect'[f[i]].status # "free" /\ effect'[f[i]].did = Did(i[1])'
             /\ \A w \in Workers : run'[w].pc \in Unwritten => run'[w].slot # f[i]
  <2>1. /\ f[i] \in Slots /\ effect[f[i]].status # "free" /\ effect[f[i]].did = Did(i[1])
        /\ \A w \in Workers : run[w].pc \in Unwritten => run[w].slot # f[i]
    BY <1>1, <1>4 DEF PaidBy
  <2> QED
    BY <1>4, <2>1
<1>5. f \in [Sent' -> Slots'] /\ PaidBy(f)'
  BY <1>1, <1>2, <1>3, <1>4 DEF PaidBy, Slots
<1> QED
  BY <1>5 DEF Paid

BudgetInv == Paid /\ Limits

LEMMA BudgetInit == Init => BudgetInv
<1> SUFFICES ASSUME Init PROVE BudgetInv
  OBVIOUS
<1>1. Sent = {} /\ Used = {} /\ \A d : UsedBy(d) = {}
  BY DEF Init, Sent, Items, Used, UsedBy, NoEffect
<1>2. PaidBy([i \in Sent |-> 1]) /\ [i \in Sent |-> 1] \in [Sent -> Slots]
  BY <1>1 DEF PaidBy
<1>3. Limits
  BY <1>1, FS_EmptySet, ConstantsAssumption DEF Limits
<1> QED
  BY <1>2, <1>3 DEF BudgetInv, Paid

LEMMA BudgetEnvironment ==
    ASSUME TypeOK, WriteInv, BudgetInv, Web \/ Operator \/ World
    PROVE  BudgetInv'
<1> WorldTypeOK /\ AskTypeOK /\ Paid /\ Limits
  BY DEF TypeOK, BudgetInv
<1> USE DEF workVars, engineVars, worldVars, jobVars, askVars
<1>1. UNCHANGED <<run, effect, writes>>
  BY DEF Web, Operator, World, TakePreview, Disconnect, SignIn, RequestDeletion, EditPolicy, Approve,
     CancelJob, SetWrites, SetMaintenance, SetAccountWrites, Resume, ExpirePreview, DelayOver,
     ChangeRemote, ChangeVerdict
<1>2. \A k \in Jobs : status[k] # "absent" => approval'[k] = approval[k]
  <2>1. ASSUME NEW p \in Previews, NEW kind \in Kinds, NEW batch \in SUBSET Subjects,
               Approve(p, kind, batch)
        PROVE  \A k \in Jobs : status[k] # "absent" => approval'[k] = approval[k]
    BY <2>1 DEF Approve, AskTypeOK
  <2>2. \/ \E p \in Previews, kind \in Kinds, batch \in SUBSET Subjects : Approve(p, kind, batch)
        \/ UNCHANGED approval
    BY DEF Web, Operator, World, TakePreview, Disconnect, SignIn, RequestDeletion, EditPolicy,
       CancelJob, SetWrites, SetMaintenance, SetAccountWrites, Resume, ExpirePreview, DelayOver,
       ChangeRemote, ChangeVerdict
  <2> QED
    BY <2>1, <2>2
<1>3. \A i \in Sent : Did(i[1])' = Did(i[1])
  BY <1>2 DEF Sent, Items, WriteInv, Unsent, WorldTypeOK, Did
<1>4. Paid'
  BY <1>1, <1>3, PaidKept
<1>5. Limits'
  BY <1>1, LimitsKept
<1> QED
  BY <1>4, <1>5 DEF BudgetInv

LEMMA BudgetWorker ==
    ASSUME TypeOK, OneWorker, WriteInv, JournalInv, BudgetInv, NEW w \in Workers,
           Start(w) \/ Crash(w) \/ Proceed(w)
    PROVE  BudgetInv'
<1> AskTypeOK /\ JobTypeOK /\ RunTypeOK /\ WorldTypeOK /\ Paid /\ Limits
  BY DEF TypeOK, BudgetInv
<1> run[w] \in Run /\ LocalOK(run[w]) /\ InHand(w) /\ InWork(w)
  BY DEF RunTypeOK, WriteInv, JournalInv
<1> DEFINE j == run[w].job
           s == run[w].subj
           slot == run[w].slot
           own == [did |-> Did(j), status |-> "attempting"]
<1> USE DEF outside, jobVars, askVars
<1>1. approval' = approval
  BY DEF Proceed, Start, Crash, Claim, Preflight, Plan, ReadFails, StopItems, SkipChanged, StartItem,
     Observe, Reserve, JournalCommits, JournalReplies, JournalFails, LastGate, RefusalCommits,
     RefusalReplies, WorkerError, Write, Confirm, Settle, SettleFails, DoubtCommits, Doubt, Finalize
<1>2. \A k : Did(k)' = Did(k)
  BY <1>1 DEF Did
<1>i. run[w].pc \in EffectSteps => slot \in Slots /\ effect[slot] = own /\ j \in Jobs /\ s \in Subjects
  BY DEF LocalOK, Run, InWork, EffectSteps, ItemSteps
<1>n. run[w].pc \in Unwritten => run[w].pc \in EffectSteps
  BY DEF Unwritten, EffectSteps, Between
\* A step that settles or returns the row in hand at most, and reserves none.
<1>a. ASSUME UNCHANGED writes, run'[w].pc \notin Unwritten \/ (run[w].pc \in Unwritten /\ run'[w].slot = slot),
             \/ UNCHANGED effect
             \/ run[w].pc \in Unwritten /\ effect' = [effect EXCEPT ![slot] = NoEffect]
             \/ /\ run[w].pc \in EffectSteps
                /\ \E outcome \in {"confirmed", "uncertain"} :
                      effect' = [effect EXCEPT ![slot].status = outcome]
      PROVE  BudgetInv'
  <2>1. \A e \in Slots :
            /\ effect'[e].status # "free" => effect[e].status # "free" /\ effect'[e].did = effect[e].did
            /\ \/ effect'[e] = effect[e]
               \/ effect'[e].status # "free" /\ effect'[e].did = effect[e].did
               \/ run[w].pc \in Unwritten /\ slot = e
    <3>1. CASE UNCHANGED effect
      BY <3>1
    <3>2. CASE run[w].pc \in Unwritten /\ effect' = [effect EXCEPT ![slot] = NoEffect]
      BY <3>2 DEF JobTypeOK, NoEffect
    <3>3. ASSUME run[w].pc \in EffectSteps, NEW outcome \in {"confirmed", "uncertain"},
                 effect' = [effect EXCEPT ![slot].status = outcome]
          PROVE  \A e \in Slots :
                    \/ effect'[e] = effect[e]
                    \/ /\ effect'[e].status # "free" /\ effect[e].status # "free"
                       /\ effect'[e].did = effect[e].did
      <4>1. \A e \in Slots \ {slot} : effect'[e] = effect[e]
        BY <3>3 DEF JobTypeOK
      <4>2. effect'[slot] = [did |-> Did(j), status |-> outcome]
        BY <1>i, <3>3 DEF JobTypeOK
      <4> QED
        BY <1>i, <3>3, <4>1, <4>2
    <3> QED
      BY <1>a, <3>1, <3>2, <3>3
  <2>2. \A v \in Workers : v = w
    BY DEF OneWorker
  <2>3. Paid'
    BY <1>2, <1>a, <2>1, <2>2, PaidKept
  <2>4. Limits'
    BY <2>1, LimitsKept
  <2> QED
    BY <2>3, <2>4 DEF BudgetInv
<1>b. ASSUME NEW result, EndRun(w, result) PROVE run'[w].pc \notin Unwritten
  BY <1>b, IdleFacts DEF EndRun, Unwritten, Between
<1>c. ASSUME Advance(w) PROVE run'[w].pc \notin Unwritten
  BY <1>c, AdvanceFacts DEF Unwritten, Between
<1>d. ASSUME NEW step \in Steps, GoTo(w, step), step \in Unwritten => run[w].pc \in Unwritten
      PROVE  run'[w].pc \notin Unwritten \/ (run[w].pc \in Unwritten /\ run'[w].slot = slot)
  BY <1>d, GoToFacts
<1>3. ASSUME Start(w) \/ Crash(w) PROVE BudgetInv'
  <2>1. run'[w].pc \in {"idle", "stopped"} /\ UNCHANGED <<effect, writes>>
    BY <1>3, GoToFacts, IdleFacts DEF Start, Crash, Steps
  <2> QED
    BY <1>a, <2>1 DEF Unwritten, Between
<1>4. ASSUME NEW k \in Jobs, Claim(w, k) PROVE BudgetInv'
  <2> DEFINE r == [run[w] EXCEPT !.pc = "claimed", !.job = k]
  <2>1. r \in Run /\ r.pc = "claimed"
    BY DEF Run, Steps
  <2>2. run'[w] = r /\ UNCHANGED <<effect, writes>>
    BY <1>4, <2>1, BecomesFacts DEF Claim
  <2> QED
    BY <1>a, <2>1, <2>2 DEF Unwritten, Between
<1>5. ASSUME Preflight(w) PROVE BudgetInv'
  <2>1. UNCHANGED <<effect, writes>> /\ ((\E result : EndRun(w, result)) \/ GoTo(w, "planning"))
    BY <1>5 DEF Preflight
  <2> QED
    BY <1>a, <1>b, <1>d, <2>1 DEF Unwritten, Between, Steps
<1>6. ASSUME NEW unseen \in SUBSET Subjects, Plan(w, unseen) PROVE BudgetInv'
  <2>1. Did(j) \in Accounts
    BY <1>6 DEF Plan, LocalOK, Run, Did, AskTypeOK
  <2>2. RowsOf(Did(j), unseen) \in [Subjects -> Row]
    BY <2>1, RowsTyped
  <2> DEFINE r == [run[w] EXCEPT !.pc = "next", !.plan = RowsOf(Did(j), unseen),
                                 !.todo = {t \in Subjects : item[j][t] = "pending"}]
  <2>3. r \in Run /\ r.pc = "next"
    BY <2>2 DEF Run, Steps
  <2>4. run'[w] = r /\ UNCHANGED <<effect, writes>>
    BY <1>6, <2>3, BecomesFacts DEF Plan
  <2> QED
    BY <1>a, <2>3, <2>4 DEF Unwritten, Between
<1>7. ASSUME ReadFails(w) \/ WorkerError(w) \/ Finalize(w) PROVE BudgetInv'
  <2>1. UNCHANGED <<effect, writes>> /\ \E result : EndRun(w, result)
    BY <1>7 DEF ReadFails, WorkerError, Finalize
  <2> QED
    BY <1>a, <1>b, <2>1
<1>8. ASSUME StopItems(w) \/ \E t \in Subjects : SkipChanged(w, t) PROVE BudgetInv'
  <2>1. PICK rest \in SUBSET run[w].todo : Becomes(w, [run[w] EXCEPT !.todo = rest])
    BY <1>8 DEF StopItems, SkipChanged
  <2> DEFINE r == [run[w] EXCEPT !.todo = rest]
  <2>2. r \in Run /\ r.pc = "next"
    BY <1>8 DEF StopItems, SkipChanged, Run
  <2>3. run'[w] = r /\ UNCHANGED <<effect, writes>>
    BY <1>8, <2>1, <2>2, BecomesFacts DEF StopItems, SkipChanged
  <2> QED
    BY <1>a, <2>2, <2>3 DEF Unwritten, Between
<1>9. ASSUME NEW t \in Subjects, StartItem(w, t) PROVE BudgetInv'
  <2> DEFINE r == [run[w] EXCEPT !.pc = "observing", !.subj = t]
  <2>1. r \in Run /\ r.pc = "observing"
    BY DEF Run, Steps
  <2>2. run'[w] = r /\ UNCHANGED <<effect, writes>>
    BY <1>9, <2>1, BecomesFacts DEF StartItem
  <2> QED
    BY <1>a, <2>1, <2>2 DEF Unwritten, Between
<1>10. ASSUME Observe(w) PROVE BudgetInv'
  <2>1. PICK observed \in Observation :
           Becomes(w, [run[w] EXCEPT !.pc = "reserving", !.fresh = observed])
    <3>1. Did(j) \in Accounts /\ s \in Subjects
      BY <1>10 DEF Observe, LocalOK, ItemSteps, Run, Did, AskTypeOK
    <3>2. Unknown \in Observation /\ remote[Did(j)][s] \in Observation
      BY <3>1 DEF WorldTypeOK, Unknown, Observation
    <3> QED
      BY <1>10, <3>2 DEF Observe
  <2> DEFINE r == [run[w] EXCEPT !.pc = "reserving", !.fresh = observed]
  <2>2. r \in Run /\ r.pc = "reserving"
    BY DEF Run, Steps
  <2>3. run'[w] = r /\ UNCHANGED <<effect, writes>>
    BY <1>10, <2>1, <2>2, BecomesFacts DEF Observe
  <2> QED
    BY <1>a, <2>2, <2>3 DEF Unwritten, Between
<1>11. ASSUME Reserve(w) PROVE BudgetInv'
  <2>1. CASE UNCHANGED effect /\ ((\E result : EndRun(w, result)) \/ Advance(w))
    BY <1>11, <1>a, <1>b, <1>c, <2>1 DEF Reserve
  <2>2. ASSUME NEW e \in Slots, effect[e].status = "free",
               Cardinality(Used) < EffectsGlobalDay,
               Cardinality(UsedBy(Did(j))) < EffectsPerDidDay,
               effect' = [effect EXCEPT ![e] = own],
               Becomes(w, [run[w] EXCEPT !.pc = "journaling", !.slot = e])
        PROVE  BudgetInv'
    <3> DEFINE r == [run[w] EXCEPT !.pc = "journaling", !.slot = e]
    <3>1. r \in Run /\ r.slot = e
      BY DEF Run, Steps
    <3>2. run'[w] = r /\ UNCHANGED writes
      BY <1>11, <2>2, <3>1, BecomesFacts DEF Reserve
    <3>3. effect'[e] = own /\ \A f \in Slots \ {e} : effect'[f] = effect[f]
      BY <2>2 DEF JobTypeOK
    <3>4. Paid'
      BY <1>2, <2>2, <3>1, <3>2, <3>3, PaidKept DEF OneWorker
    <3>5. Used' = Used \cup {e} /\ e \notin Used
      BY <2>2, <3>3 DEF Used
    <3>6. \A d : UsedBy(d)' = IF d = Did(j) THEN UsedBy(d) \cup {e} ELSE UsedBy(d)
      BY <3>3, <3>5 DEF UsedBy, Used
    <3>7. Cardinality(Used') <= EffectsGlobalDay
      <4>1. IsFiniteSet(Used) /\ Cardinality(Used) \in Nat
        BY SlotsFinite
      <4>2. Cardinality(Used \cup {e}) = Cardinality(Used) + 1
        BY <3>5, <4>1, FS_AddElement
      <4> QED
        BY <2>2, <3>5, <4>1, <4>2, ConstantsAssumption
    <3>8. ASSUME NEW d \in Accounts PROVE Cardinality(UsedBy(d)') <= EffectsPerDidDay
      <4>1. CASE d = Did(j)
        <5>1. IsFiniteSet(UsedBy(d)) /\ Cardinality(UsedBy(d)) \in Nat
          BY SlotsFinite
        <5>2. UsedBy(d)' = UsedBy(d) \cup {e} /\ Cardinality(UsedBy(d)) < EffectsPerDidDay
          BY <2>2, <3>6, <4>1
        <5>3. e \notin UsedBy(d)
          BY <3>5 DEF UsedBy
        <5>4. Cardinality(UsedBy(d) \cup {e}) = Cardinality(UsedBy(d)) + 1
          BY <5>1, <5>3, FS_AddElement
        <5> QED
          BY <5>1, <5>2, <5>4, ConstantsAssumption
      <4>2. CASE d # Did(j)
        BY <3>6, <4>2 DEF Limits
      <4> QED
        BY <4>1, <4>2
    <3> QED
      BY <3>4, <3>7, <3>8 DEF BudgetInv, Limits
  <2> QED
    BY <1>11, <2>1, <2>2 DEF Reserve
<1>12. ASSUME JournalCommits(w) \/ JournalReplies(w) \/ LastGate(w) \/ RefusalCommits(w)
              \/ Confirm(w) \/ SettleFails(w) \/ DoubtCommits(w)
       PROVE  BudgetInv'
  <2>1. UNCHANGED <<effect, writes>>
        /\ \E step \in Steps : GoTo(w, step) /\ (step \in Unwritten => run[w].pc \in Unwritten)
    BY <1>12 DEF JournalCommits, JournalReplies, LastGate, RefusalCommits, Confirm, SettleFails,
       DoubtCommits, Steps, Unwritten, Between
  <2> QED
    BY <1>a, <1>d, <2>1
<1>13. ASSUME JournalFails(w) \/ RefusalReplies(w) PROVE BudgetInv'
  <2>1. /\ run[w].pc \in Unwritten /\ effect' = [effect EXCEPT ![slot] = NoEffect] /\ UNCHANGED writes
        /\ \E result : EndRun(w, result)
    BY <1>13 DEF JournalFails, RefusalReplies, Unwritten, Between
  <2> QED
    BY <1>a, <1>b, <2>1
<1>14. ASSUME Settle(w) \/ Doubt(w) PROVE BudgetInv'
  <2>1. /\ run[w].pc \in EffectSteps /\ UNCHANGED writes /\ Advance(w)
        /\ \E outcome \in {"confirmed", "uncertain"} :
              effect' = [effect EXCEPT ![slot].status = outcome]
    BY <1>14 DEF Settle, Doubt, EffectSteps
  <2> QED
    BY <1>a, <1>c, <2>1
\* The request in hand is paid with the row reserved for it.
<1>15. ASSUME NEW applied \in BOOLEAN, NEW answered \in BOOLEAN, Write(w, applied, answered)
       PROVE  BudgetInv'
  <2> DEFINE sent == <<j, s>>
  <2>1. /\ run[w].pc = "writing" /\ UNCHANGED effect
        /\ writes' = [writes EXCEPT ![j][s] = @ + 1]
        /\ GoTo(w, "confirming") \/ GoTo(w, "doubtful")
    BY <1>15 DEF Write
  <2>2. /\ slot \in Slots /\ effect[slot] = own /\ j \in Jobs /\ s \in Subjects
        /\ writes[j][s] = 0 /\ run[w].pc \in Unwritten
    BY <1>i, <1>n, <2>1 DEF EffectSteps, InHand, Between, Unwritten
  <2>3. Sent' = Sent \cup {sent} /\ sent \notin Sent /\ sent \in Items
    BY <2>1, <2>2 DEF Sent, Items, WorldTypeOK
  <2>4. PICK f \in [Sent -> Slots] : PaidBy(f)
    BY DEF Paid
  <2>5. PICK g \in [Sent' -> Slots] : g[sent] = slot /\ \A i \in Sent : g[i] = f[i]
    <3> DEFINE h == [i \in Sent' |-> IF i = sent THEN slot ELSE f[i]]
    <3>1. h \in [Sent' -> Slots] /\ h[sent] = slot /\ \A i \in Sent : h[i] = f[i]
      BY <2>2, <2>3, <2>4
    <3> QED
      BY <3>1
  <2>6. \A i \in Sent : f[i] # slot /\ effect[f[i]].status # "free" /\ effect[f[i]].did = Did(i[1])
    BY <2>2, <2>4 DEF PaidBy
  <2>7. run'[w].pc \notin Unwritten
    BY <2>1, GoToFacts DEF Steps, Unwritten, Between
  <2>8. \A a, b \in Sent' : g[a] = g[b] => a = b
    BY <2>3, <2>4, <2>5, <2>6 DEF PaidBy
  <2>9. \A i \in Sent' : effect[g[i]].status # "free" /\ effect[g[i]].did = Did(i[1])
    <3>1. effect[slot].status # "free" /\ effect[slot].did = Did(sent[1])
      BY <2>2
    <3> QED
      BY <2>3, <2>5, <2>6, <3>1
  <2>10. PaidBy(g)'
    BY <1>2, <2>1, <2>7, <2>8, <2>9 DEF PaidBy, OneWorker
  <2>11. Paid'
    BY <2>5, <2>10 DEF Paid, Slots
  <2>12. Limits'
    BY <2>1, LimitsKept
  <2> QED
    BY <2>11, <2>12 DEF BudgetInv
<1> QED
  BY <1>3, <1>4, <1>5, <1>6, <1>7, <1>8, <1>9, <1>10, <1>11, <1>12, <1>13, <1>14, <1>15 DEF Proceed

\* The rows of the requests sent are so many different rows.
LEMMA PaidBounds ==
    ASSUME BudgetInv
    PROVE  /\ Cardinality(Sent) <= EffectsGlobalDay
           /\ \A d \in Accounts : Cardinality({i \in Sent : Did(i[1]) = d}) <= EffectsPerDidDay
<1>1. PICK f \in [Sent -> Slots] : PaidBy(f)
  BY DEF BudgetInv, Paid
<1>2. \A S \in SUBSET Sent, T \in SUBSET Slots :
          IsFiniteSet(T) /\ (\A i \in S : f[i] \in T) =>
              Cardinality(S) <= Cardinality(T) /\ Cardinality(S) \in Nat
  <2> SUFFICES ASSUME NEW S \in SUBSET Sent, NEW T \in SUBSET Slots, IsFiniteSet(T),
                      \A i \in S : f[i] \in T
               PROVE  Cardinality(S) <= Cardinality(T) /\ Cardinality(S) \in Nat
    OBVIOUS
  <2> DEFINE g == [i \in S |-> f[i]]
  <2>1. g \in [S -> T] /\ \A a, b \in S : g[a] = g[b] => a = b
    BY <1>1 DEF PaidBy
  <2>2. g \in Injection(S, T)
    BY <2>1, Fun_IsInj
  <2> QED
    BY <2>2, FS_Injection, FS_CardinalityType
<1>3. Used \in SUBSET Slots /\ \A d : UsedBy(d) \in SUBSET Slots
  BY DEF Used, UsedBy
<1>4. Cardinality(Sent) <= Cardinality(Used) /\ Cardinality(Sent) \in Nat
  <2>1. \A i \in Sent : f[i] \in Used
    BY <1>1 DEF PaidBy, Used
  <2> QED
    BY <1>2, <1>3, <2>1, SlotsFinite
<1>5. ASSUME NEW d \in Accounts
      PROVE  /\ Cardinality({i \in Sent : Did(i[1]) = d}) <= Cardinality(UsedBy(d))
             /\ Cardinality({i \in Sent : Did(i[1]) = d}) \in Nat
  <2> DEFINE S == {i \in Sent : Did(i[1]) = d}
  <2>1. S \in SUBSET Sent /\ \A i \in S : f[i] \in UsedBy(d)
    BY <1>1 DEF PaidBy, Used, UsedBy
  <2> HIDE DEF S
  <2>2. Cardinality(S) <= Cardinality(UsedBy(d)) /\ Cardinality(S) \in Nat
    BY <1>2, <1>3, <2>1, SlotsFinite
  <2> QED
    BY <2>2 DEF S
<1> QED
  BY <1>4, <1>5, SlotsFinite, ConstantsAssumption DEF BudgetInv, Limits

\* The requests the worker sends in a day stay within effectsGlobalDay and
\* effectsPerDidDay, although refused reservations give their rows back (capacity.ts):
\* every request keeps a row of its own.
THEOREM BudgetKept == OneWorker => (Spec => []WritesWithinBudget)
<1> SUFFICES ASSUME OneWorker PROVE Spec => []WritesWithinBudget
  OBVIOUS
<1>1. TypeOK /\ WriteInv /\ JournalInv /\ BudgetInv /\ [Next]_vars => BudgetInv'
  <2> SUFFICES ASSUME TypeOK, WriteInv, JournalInv, BudgetInv, [Next]_vars PROVE BudgetInv'
    OBVIOUS
  <2>1. CASE UNCHANGED vars
    BY <2>1, PaidKept, LimitsKept DEF vars, jobVars, askVars, BudgetInv, Did
  <2>2. CASE Next
    BY <2>2, BudgetEnvironment, BudgetWorker DEF Next
  <2> QED
    BY <2>1, <2>2
<1>2. BudgetInv => WritesWithinBudget
  BY PaidBounds DEF WritesWithinBudget, Sent
<1> QED
  BY <1>1, <1>2, BudgetInit, JournalHolds, PTL DEF Spec

-----------------------------------------------------------------------------
(***************************************************************************)
(* After a request to stop.  The history variable late counts the requests *)
(* sent for a batch after its cancellation or a deletion request.          *)
(***************************************************************************)
Unsure == ItemSteps \ After     \* an item is in hand and its request may still leave

\* A batch that already sent its late request sends no other: no item of it is in
\* hand before its request, and none is taken up again.
LateInv ==
    \A j \in Jobs :
        /\ late[j] \in {0, 1}
        /\ late[j] # 0 =>
              /\ AskedToStop(j) /\ status[j] # "absent"
              /\ \A w \in Workers : run[w].job = j => run[w].pc \notin Unsure

\* A request to stop is never taken back.
LEMMA StopStays ==
    ASSUME TypeOK, Web \/ Operator \/ World
    PROVE  /\ UNCHANGED <<run, writes>>
           /\ \A j \in Jobs : status[j] # "absent" =>
                 status'[j] # "absent" /\ (AskedToStop(j) => AskedToStop(j)')
<1> AskTypeOK /\ JobTypeOK
  BY DEF TypeOK
<1> USE DEF workVars, askVars, jobVars, AskedToStop, Did
<1> DEFINE Stays == /\ UNCHANGED <<run, writes>>
                    /\ \A j \in Jobs : status[j] # "absent" =>
                          status'[j] # "absent" /\ (AskedToStop(j) => AskedToStop(j)')
<1>1. ASSUME NEW p \in Previews, NEW kind \in Kinds, NEW batch \in SUBSET Subjects,
             Approve(p, kind, batch)
      PROVE  Stays
  BY <1>1 DEF Approve, AskTypeOK, JobTypeOK
<1>2. ASSUME NEW d \in Accounts,
             \/ \E unseen \in SUBSET Subjects : TakePreview(d, unseen)
             \/ Disconnect(d) \/ SignIn(d) \/ RequestDeletion(d) \/ EditPolicy(d)
             \/ \E on \in BOOLEAN : SetAccountWrites(d, on)
      PROVE  Stays
  <2>1. /\ UNCHANGED <<run, writes, approval>>
        /\ \A j \in Jobs : status[j] # "absent" => status'[j] # "absent"
    BY <1>2 DEF TakePreview, Disconnect, SignIn, RequestDeletion, EditPolicy, SetAccountWrites
  <2>2. \A j \in Jobs : cancel[j] => cancel'[j]
    BY <1>2 DEF TakePreview, Disconnect, SignIn, RequestDeletion, EditPolicy, SetAccountWrites
  <2>3. \A e \in Accounts : user[e].deleting => user'[e].deleting
    <3>1. CASE UNCHANGED user
      BY <3>1
    <3>2. CASE Disconnect(d) \/ SignIn(d)
      <4>1. \E c \in BOOLEAN : user' = [user EXCEPT ![d].connected = c]
        BY <3>2 DEF Disconnect, SignIn
      <4> QED
        BY <4>1
    <3>3. CASE RequestDeletion(d)
      BY <3>3 DEF RequestDeletion
    <3>4. CASE EditPolicy(d)
      BY <3>4 DEF EditPolicy
    <3>5. CASE \E on \in BOOLEAN : SetAccountWrites(d, on)
      BY <3>5 DEF SetAccountWrites
    <3> QED
      BY <1>2, <3>1, <3>2, <3>3, <3>4, <3>5 DEF TakePreview
  <2>4. \A j \in Jobs : Did(j) \in Accounts
    BY DEF AskTypeOK
  <2> QED
    BY <2>1, <2>2, <2>3, <2>4
<1>3. ASSUME NEW j \in Jobs, CancelJob(j) \/ Resume(j) \/ DelayOver(j) PROVE Stays
  BY <1>3 DEF CancelJob, Resume, DelayOver, AskTypeOK, JobTypeOK
<1>4. ASSUME NEW on \in BOOLEAN, SetWrites(on) \/ SetMaintenance(on) PROVE Stays
  BY <1>4 DEF SetWrites, SetMaintenance, JobTypeOK
<1>5. ASSUME NEW p \in Previews, ExpirePreview(p) PROVE Stays
  BY <1>5 DEF ExpirePreview
<1>6. ASSUME NEW d \in Accounts, NEW s \in Subjects,
             \/ \E observed \in Observation : ChangeRemote(d, s, observed)
             \/ \E v \in Verdicts : ChangeVerdict(d, s, v)
      PROVE  Stays
  BY <1>6 DEF ChangeRemote, ChangeVerdict
<1> QED
  BY <1>1, <1>2, <1>3, <1>4, <1>5, <1>6 DEF Web, Operator, World

LEMMA LateWorker ==
    ASSUME TypeOK, OneWorker, LateInv, History, NEW w \in Workers,
           Start(w) \/ Crash(w) \/ Proceed(w)
    PROVE  LateInv'
<1> AskTypeOK /\ JobTypeOK /\ RunTypeOK /\ WorldTypeOK /\ ApprovedOK
  BY DEF TypeOK
<1> run[w] \in Run /\ LocalOK(run[w])
  BY DEF RunTypeOK
<1> DEFINE j == run[w].job
<1> USE DEF outside, jobVars, askVars
<1>1. UNCHANGED <<approval, cancel, user>>
  BY DEF Proceed, Start, Crash, Claim, Preflight, Plan, ReadFails, StopItems, SkipChanged, StartItem,
     Observe, Reserve, JournalCommits, JournalReplies, JournalFails, LastGate, RefusalCommits,
     RefusalReplies, WorkerError, Write, Confirm, Settle, SettleFails, DoubtCommits, Doubt, Finalize
<1>2. \A k \in Jobs : AskedToStop(k)' <=> AskedToStop(k)
  BY <1>1 DEF AskedToStop, Did
<1>j. run[w].pc \notin {"stopped", "idle"} => j \in Jobs /\ status[j] # "absent"
  BY DEF LocalOK, Run, ApprovedOK
<1>s. UNCHANGED status => \A k \in Jobs : status[k] # "absent" => status'[k] # "absent"
  OBVIOUS
\* A step that sends nothing and takes up no item.
<1>a. ASSUME UNCHANGED writes, \A k \in Jobs : status[k] # "absent" => status'[k] # "absent",
             run'[w].pc \notin Unsure \/ (run[w].pc \in Unsure /\ run'[w].job = j)
      PROVE  LateInv'
  <2>1. \A k \in Jobs : late'[k] = late[k]
    BY <1>a DEF History
  <2> QED
    BY <1>2, <1>a, <2>1 DEF LateInv, OneWorker
<1>e. ASSUME run[w].pc \notin {"stopped", "idle"}, NEW result \in JobStatus \ {"absent"},
             EndRun(w, result), UNCHANGED writes
      PROVE  LateInv'
  <2>1. \A k \in Jobs : status[k] # "absent" => status'[k] # "absent"
    BY <1>e DEF EndRun, JobTypeOK
  <2>2. run'[w].pc \notin Unsure
    BY <1>e, IdleFacts DEF EndRun, Unsure, ItemSteps, EffectSteps
  <2> QED
    BY <1>a, <1>e, <2>1, <2>2
<1>v. ASSUME Advance(w), UNCHANGED <<writes, status>> PROVE LateInv'
  <2>1. run'[w].pc \notin Unsure
    BY <1>v, AdvanceFacts DEF Unsure, ItemSteps, EffectSteps
  <2> QED
    BY <1>a, <1>s, <1>v, <2>1
<1>g. ASSUME NEW step \in Steps, GoTo(w, step), UNCHANGED <<writes, status>>,
             step \notin Unsure \/ run[w].pc \in Unsure
      PROVE  LateInv'
  <2>1. run'[w].pc = step /\ run'[w].job = j
    BY <1>g, GoToFacts
  <2> QED
    BY <1>a, <1>g, <1>s, <2>1
<1>3. ASSUME Start(w) \/ Crash(w) PROVE LateInv'
  <2>1. run'[w].pc \in {"idle", "stopped"} /\ UNCHANGED writes
    BY <1>3, GoToFacts, IdleFacts DEF Start, Crash, Steps
  <2>2. \A k \in Jobs : status[k] # "absent" => status'[k] # "absent"
    BY <1>3 DEF Start, Recover, Crash
  <2> QED
    BY <1>a, <2>1, <2>2 DEF Unsure, ItemSteps, EffectSteps
<1>4. ASSUME NEW k \in Jobs, Claim(w, k) PROVE LateInv'
  <2> DEFINE r == [run[w] EXCEPT !.pc = "claimed", !.job = k]
  <2>1. r \in Run /\ r.pc = "claimed"
    BY DEF Run, Steps
  <2>2. run'[w] = r /\ UNCHANGED writes /\ status' = [status EXCEPT ![k] = "running"]
    BY <1>4, <2>1, BecomesFacts DEF Claim
  <2>3. \A i \in Jobs : status[i] # "absent" => status'[i] # "absent"
    BY <2>2 DEF JobTypeOK
  <2> QED
    BY <1>a, <2>1, <2>2, <2>3 DEF Unsure, ItemSteps, EffectSteps
<1>5. ASSUME Preflight(w) PROVE LateInv'
  <2>1. /\ run[w].pc = "claimed" /\ UNCHANGED writes
        /\ \/ \E result \in JobStatus \ {"absent"} : EndRun(w, result)
           \/ GoTo(w, "planning") /\ UNCHANGED status
    BY <1>5 DEF Preflight, JobStatus
  <2>2. "planning" \in Steps \ Unsure
    BY DEF Steps, Unsure, ItemSteps, EffectSteps
  <2> QED
    BY <1>e, <1>g, <2>1, <2>2
<1>6. ASSUME NEW unseen \in SUBSET Subjects, Plan(w, unseen) PROVE LateInv'
  <2>1. Did(j) \in Accounts
    BY <1>6, <1>j DEF Plan, Did, AskTypeOK
  <2>2. RowsOf(Did(j), unseen) \in [Subjects -> Row]
    BY <2>1, RowsTyped
  <2> DEFINE r == [run[w] EXCEPT !.pc = "next", !.plan = RowsOf(Did(j), unseen),
                                 !.todo = {t \in Subjects : item[j][t] = "pending"}]
  <2>3. r \in Run /\ r.pc = "next"
    BY <2>2 DEF Run, Steps
  <2>4. run'[w] = r /\ UNCHANGED <<status, writes>>
    BY <1>6, <2>3, BecomesFacts DEF Plan
  <2> QED
    BY <1>a, <1>s, <2>3, <2>4 DEF Unsure, ItemSteps, EffectSteps
<1>7. ASSUME ReadFails(w) \/ JournalFails(w) \/ RefusalReplies(w) \/ WorkerError(w)
             \/ Finalize(w)
      PROVE  LateInv'
  <2>1. /\ run[w].pc \notin {"stopped", "idle"} /\ UNCHANGED writes
        /\ \E result \in JobStatus \ {"absent"} : EndRun(w, result)
    BY <1>7 DEF ReadFails, JournalFails, RefusalReplies, WorkerError, Finalize, JobStatus
  <2> QED
    BY <1>e, <2>1
<1>8. ASSUME StopItems(w) \/ \E t \in Subjects : SkipChanged(w, t) PROVE LateInv'
  <2>1. PICK rest \in SUBSET run[w].todo : Becomes(w, [run[w] EXCEPT !.todo = rest])
    BY <1>8 DEF StopItems, SkipChanged
  <2> DEFINE r == [run[w] EXCEPT !.todo = rest]
  <2>2. r \in Run /\ r.pc = "next"
    BY <1>8 DEF StopItems, SkipChanged, Run
  <2>3. run'[w] = r /\ UNCHANGED <<status, writes>>
    BY <1>8, <2>1, <2>2, BecomesFacts DEF StopItems, SkipChanged
  <2> QED
    BY <1>a, <1>s, <2>2, <2>3 DEF Unsure, ItemSteps, EffectSteps
\* An item is taken up only while nobody asked to stop, so nothing was sent late.
<1>9. ASSUME NEW t \in Subjects, StartItem(w, t) PROVE LateInv'
  <2> DEFINE r == [run[w] EXCEPT !.pc = "observing", !.subj = t]
  <2>1. r \in Run /\ r.job = j
    BY DEF Run, Steps
  <2>2. run'[w] = r /\ UNCHANGED <<status, writes>> /\ ~AskedToStop(j) /\ j \in Jobs
    BY <1>9, <1>j, <2>1, BecomesFacts DEF StartItem, Stopping, AskedToStop
  <2>3. late[j] = 0 /\ run'[w].job = j
    BY <2>1, <2>2 DEF LateInv
  <2>4. \A k \in Jobs : late'[k] = late[k]
    BY <2>2 DEF History
  <2>5. \A v \in Workers : v = w
    BY DEF OneWorker
  <2> QED
    BY <1>2, <2>2, <2>3, <2>4, <2>5 DEF LateInv
<1>10. ASSUME Observe(w) \/ Reserve(w) PROVE LateInv'
  <2>1. UNCHANGED writes /\ run[w].pc \in Unsure /\ run[w].pc \notin {"stopped", "idle"}
    BY <1>10 DEF Observe, Reserve, Unsure, ItemSteps, EffectSteps, After
  <2>2. ASSUME NEW r \in Run, Becomes(w, r), r.job = j, UNCHANGED status PROVE LateInv'
    <3>1. run'[w] = r
      BY <2>2, BecomesFacts
    <3> QED
      BY <1>a, <1>s, <2>1, <2>2, <3>1
  <2>3. CASE Observe(w)
    <3>1. PICK observed \in Observation :
             Becomes(w, [run[w] EXCEPT !.pc = "reserving", !.fresh = observed])
      <4>1. Did(j) \in Accounts /\ run[w].subj \in Subjects
        BY <2>3 DEF Observe, LocalOK, ItemSteps, Run, Did, AskTypeOK
      <4>2. Unknown \in Observation /\ remote[Did(j)][run[w].subj] \in Observation
        BY <4>1 DEF WorldTypeOK, Unknown, Observation
      <4> QED
        BY <2>3, <4>2 DEF Observe
    <3> DEFINE r == [run[w] EXCEPT !.pc = "reserving", !.fresh = observed]
    <3>2. r \in Run /\ r.job = j
      BY DEF Run, Steps
    <3> QED
      BY <2>2, <2>3, <3>1, <3>2 DEF Observe
  <2>4. CASE UNCHANGED status /\ \E e \in Slots :
                Becomes(w, [run[w] EXCEPT !.pc = "journaling", !.slot = e])
    <3>1. PICK e \in Slots : Becomes(w, [run[w] EXCEPT !.pc = "journaling", !.slot = e])
      BY <2>4
    <3> DEFINE r == [run[w] EXCEPT !.pc = "journaling", !.slot = e]
    <3>2. r \in Run /\ r.job = j
      BY DEF Run, Steps
    <3> QED
      BY <2>2, <2>4, <3>1, <3>2
  <2>5. CASE EndRun(w, "paused_by_operator")
    BY <1>e, <2>1, <2>5 DEF JobStatus
  <2>6. CASE Advance(w) /\ UNCHANGED status
    BY <1>v, <2>1, <2>6
  <2> QED
    BY <1>10, <2>3, <2>4, <2>5, <2>6 DEF Reserve
<1>11. ASSUME JournalCommits(w) \/ JournalReplies(w) \/ LastGate(w) \/ RefusalCommits(w)
              \/ Confirm(w) \/ SettleFails(w) \/ DoubtCommits(w)
       PROVE  LateInv'
  <2>1. UNCHANGED <<status, writes>>
        /\ \E step \in Steps : GoTo(w, step) /\ (step \notin Unsure \/ run[w].pc \in Unsure)
    BY <1>11 DEF JournalCommits, JournalReplies, LastGate, RefusalCommits, Confirm, SettleFails,
       DoubtCommits, Steps, Unsure, ItemSteps, EffectSteps, After
  <2> QED
    BY <1>g, <2>1
<1>12. ASSUME Settle(w) \/ Doubt(w) PROVE LateInv'
  BY <1>12, <1>v DEF Settle, Doubt
\* The one late request is the one already past the last check.
<1>13. ASSUME NEW applied \in BOOLEAN, NEW answered \in BOOLEAN, Write(w, applied, answered)
       PROVE  LateInv'
  <2>1. /\ run[w].pc \in Unsure /\ j \in Jobs /\ status[j] # "absent" /\ UNCHANGED status
        /\ writes' = [writes EXCEPT ![j][run[w].subj] = @ + 1]
        /\ GoTo(w, "confirming") \/ GoTo(w, "doubtful")
    BY <1>13, <1>j DEF Write, Unsure, ItemSteps, EffectSteps, After
  <2>2. run'[w].pc \notin Unsure
    BY <2>1, GoToFacts DEF Steps, Unsure, After
  <2>3. late[j] = 0
    BY <2>1 DEF LateInv
  <2>4. \A k \in Jobs \ {j} : late'[k] = late[k]
    BY <2>1 DEF History, WorldTypeOK
  <2>5. late'[j] = 0 \/ (late'[j] = 1 /\ AskedToStop(j))
    BY <2>1, <2>3 DEF History
  <2> QED
    BY <1>2, <2>1, <2>2, <2>4, <2>5 DEF LateInv, OneWorker
<1> QED
  BY <1>3, <1>4, <1>5, <1>6, <1>7, <1>8, <1>9, <1>10, <1>11, <1>12, <1>13 DEF Proceed

\* After a cancellation or a deletion request at most the one request already past its
\* last check (the loop of run() tests both before every item) leaves for the batch.
THEOREM LateWritesKept == OneWorker => (HistorySpec => []LateWritesBounded)
<1> SUFFICES ASSUME OneWorker PROVE HistorySpec => []LateWritesBounded
  OBVIOUS
<1>1. MCInit => Init /\ LateInv
  BY DEF MCInit, LateInv
<1>2. [Next /\ History]_mcVars => [Next]_vars
  BY DEF mcVars
<1>3. TypeOK /\ LateInv /\ [Next /\ History]_mcVars => LateInv'
  <2> SUFFICES ASSUME TypeOK, LateInv, [Next /\ History]_mcVars PROVE LateInv'
    OBVIOUS
  <2>1. CASE UNCHANGED mcVars
    BY <2>1 DEF mcVars, vars, jobVars, askVars, LateInv, AskedToStop, Did
  <2>2. CASE (Web \/ Operator \/ World) /\ History
    <3>1. \A j \in Jobs : late'[j] = late[j]
      BY <2>2, StopStays DEF History
    <3> QED
      BY <2>2, <3>1, StopStays DEF LateInv
  <2>3. CASE (\E w \in Workers : Start(w) \/ Crash(w) \/ Proceed(w)) /\ History
    BY <2>3, LateWorker
  <2> QED
    BY <2>1, <2>2, <2>3 DEF Next
<1>4. LateInv => LateWritesBounded
  BY DEF LateInv, LateWritesBounded
<1>5. HistorySpec => Spec
  BY <1>1, <1>2, PTL DEF HistorySpec, Spec
<1> QED
  BY <1>1, <1>3, <1>4, <1>5, TypeCorrect, PTL DEF HistorySpec

-----------------------------------------------------------------------------
(***************************************************************************)
(* The pipeline implements ApprovedEffects.  First what ApprovedEffects    *)
(* promises is proved of its own steps, over the mapped state; then each   *)
(* step of the pipeline is shown to be one of its steps, or none.  The     *)
(* steps need three facts more than JournalInv (EffectInv): a marked item  *)
(* was begun, a proof in doubt is still the last word of the ledger, and   *)
(* no release rests on a proof that is in hand.                            *)
(***************************************************************************)

\* What the abstract state may be.
EffectsTyped ==
    /\ Asked \in [Jobs -> [did : Accounts, kind : E!Kinds]]
    /\ Stages \in [Jobs -> [Subjects -> E!Stage]]
    /\ Reports \in [Jobs -> [Subjects -> E!Answer]]
    /\ Grounded \in [Accounts -> [Subjects -> E!Ground]]
    /\ Muted \in [Accounts -> [Subjects -> BOOLEAN]]

\* Nothing is done before a row is approved.
Unasked == \A b \in Jobs, s \in Subjects : Reports[b][s] = "none" => Stages[b][s] = "untouched"

\* What the parts of a step do to one effect and to the ground of its subject.
LEMMA EffectGoes ==
    ASSUME EffectsTyped, NEW b \in Jobs, NEW s \in Subjects,
           NEW at, NEW next \in E!Stage, E!Goes(b, s, at, next)
    PROVE  /\ Asked' = Asked /\ Stages[b][s] = at /\ Reports[b][s] = "waiting"
           /\ Stages' \in [Jobs -> [Subjects -> E!Stage]]
           /\ \A c \in Jobs, t \in Subjects :
                 Stages'[c][t] = IF c = b /\ t = s THEN next ELSE Stages[c][t]
BY DEF EffectsTyped, E!Goes

LEMMA EffectGrounds ==
    ASSUME EffectsTyped, NEW b \in Jobs, NEW s \in Subjects,
           NEW next \in E!Ground, E!Grounds(b, s, next)
    PROVE  /\ Grounded' \in [Accounts -> [Subjects -> E!Ground]]
           /\ \A d \in Accounts, t \in Subjects :
                 Grounded'[d][t] = IF d = Asked[b].did /\ t = s THEN next ELSE Grounded[d][t]
<1>1. Asked[b].did \in Accounts
  BY DEF EffectsTyped
<1> QED
  BY <1>1 DEF EffectsTyped, E!Grounds, E!Did


\* Every effect step keeps the types.
LEMMA EffectsTypedNext ==
    ASSUME EffectsTyped, [E!Next]_E!vars
    PROVE  EffectsTyped'
<1> USE DEF E!Stage, E!Ground, E!Needs, E!Leaves
<1>1. ASSUME NEW b \in Jobs, NEW d \in Accounts, NEW kind \in E!Kinds, NEW batch \in SUBSET Subjects,
             E!Approve(b, d, kind, batch)
      PROVE  EffectsTyped'
  BY <1>1 DEF E!Approve, EffectsTyped, E!Answer
<1>2. ASSUME NEW b \in Jobs, NEW s \in Subjects,
             E!Open(b, s) \/ E!Refuse(b, s) \/ E!Prove(b, s) \/ E!Withdraw(b, s)
      PROVE  EffectsTyped'
  <2>1. \E at, next \in E!Stage : E!Goes(b, s, at, next)
    BY <1>2 DEF E!Open, E!Refuse, E!Prove, E!Withdraw
  <2>2. Asked' = Asked /\ Stages' \in [Jobs -> [Subjects -> E!Stage]]
    BY <2>1, EffectGoes
  <2>3. Grounded' = Grounded \/ \E next \in E!Ground : E!Grounds(b, s, next)
    BY <1>2 DEF E!Open, E!Refuse, E!Prove, E!Withdraw
  <2>4. Grounded' \in [Accounts -> [Subjects -> E!Ground]]
    BY <2>3, EffectGrounds DEF EffectsTyped
  <2>5. E!Answers /\ Muted' = Muted
    BY <1>2 DEF E!Open, E!Refuse, E!Prove, E!Withdraw
  <2> QED
    BY <2>2, <2>4, <2>5 DEF E!Answers, EffectsTyped
<1>3. ASSUME NEW b \in Jobs, NEW s \in Subjects, NEW applied \in BOOLEAN, E!Send(b, s, applied)
      PROVE  EffectsTyped'
  <2>1. Asked' = Asked /\ Stages' \in [Jobs -> [Subjects -> E!Stage]]
    BY <1>3, EffectGoes DEF E!Send
  <2>2. Muted' \in [Accounts -> [Subjects -> BOOLEAN]]
    BY <1>3 DEF E!Send, EffectsTyped
  <2> QED
    BY <1>3, <2>1, <2>2 DEF E!Send, EffectsTyped
<1>4. ASSUME NEW d \in Accounts, NEW s \in Subjects, E!Elsewhere(d, s) PROVE EffectsTyped'
  BY <1>4 DEF E!Elsewhere, EffectsTyped
<1>5. ASSUME E!Answered \/ UNCHANGED E!vars PROVE EffectsTyped'
  BY <1>5 DEF E!Answered, E!Answers, EffectsTyped, E!vars
<1> QED
  BY <1>1, <1>2, <1>3, <1>4, <1>5 DEF E!Next


\* How a step moves the effects, the grounds and the accounts asked for.
AsksOnly  == /\ Stages' = Stages /\ Grounded' = Grounded
             /\ \E b \in Jobs : /\ \A s \in Subjects : Stages[b][s] = "untouched"
                                /\ \A c \in Jobs \ {b} : Asked'[c] = Asked[c]
MovesNone == Stages' = Stages /\ Grounded' = Grounded /\ Asked' = Asked
Moves(b, s, at, next, needed, left) ==
    /\ Asked' = Asked /\ Stages[b][s] = at
    /\ \A c \in Jobs, t \in Subjects :
          Stages'[c][t] = IF c = b /\ t = s THEN next ELSE Stages[c][t]
    /\ needed # "any" => Grounded[Asked[b].did][s] = needed
    /\ \A d \in Accounts, t \in Subjects :
          Grounded'[d][t] = IF d = Asked[b].did /\ t = s /\ left # "same" THEN left ELSE Grounded[d][t]
MovesOne(b, s) ==
    LET kind == Asked[b].kind IN
    \/ Moves(b, s, "untouched", "open", E!Needs(kind), "suspended")
    \/ Moves(b, s, "open", "refused", "any", "same")
    \/ Moves(b, s, "open", "sent", "any", "same")
    \/ Moves(b, s, "sent", "proved", "any", E!Leaves(kind))
    \/ /\ Moves(b, s, "proved", "sent", E!Leaves(kind), "suspended")
       /\ \A c \in Jobs : /\ Asked[c].did = Asked[b].did /\ Asked[c].kind = "release"
                          /\ Stages[c][s] # "untouched"
             => \E a \in Jobs \ {b} : /\ Asked[a].did = Asked[b].did /\ Asked[a].kind # "release"
                                      /\ Stages[a][s] = "proved"

LEMMA EffectMoves ==
    ASSUME EffectsTyped, Unasked, [E!Next]_E!vars
    PROVE  AsksOnly \/ MovesNone \/ \E b \in Jobs, s \in Subjects : MovesOne(b, s)
<1>1. ASSUME NEW b \in Jobs, NEW d \in Accounts, NEW kind \in E!Kinds, NEW batch \in SUBSET Subjects,
             E!Approve(b, d, kind, batch)
      PROVE  AsksOnly
  BY <1>1 DEF E!Approve, EffectsTyped, Unasked, AsksOnly
<1>2. ASSUME NEW b \in Jobs, NEW s \in Subjects,
             E!Open(b, s) \/ E!Refuse(b, s) \/ E!Prove(b, s) \/ E!Withdraw(b, s)
             \/ \E applied \in BOOLEAN : E!Send(b, s, applied)
      PROVE  MovesOne(b, s)
  <2>1. Asked[b].did \in Accounts /\ E!Did(b) = Asked[b].did
    BY DEF EffectsTyped, E!Did
  <2>2. CASE E!Open(b, s)
    BY <2>1, <2>2, EffectGoes, EffectGrounds DEF E!Open, MovesOne, Moves, E!Stage, E!Ground
  <2>3. CASE E!Refuse(b, s)
    BY <2>1, <2>3, EffectGoes DEF E!Refuse, MovesOne, Moves, E!Stage
  <2>4. CASE E!Prove(b, s)
    <3>1. E!Leaves(Asked[b].kind) \in E!Ground /\ E!Leaves(Asked[b].kind) # "same"
      BY DEF E!Leaves, E!Ground
    <3> QED
      BY <2>1, <2>4, <3>1, EffectGoes, EffectGrounds DEF E!Prove, MovesOne, Moves, E!Stage
  <2>5. CASE E!Withdraw(b, s)
    BY <2>1, <2>5, EffectGoes, EffectGrounds DEF E!Withdraw, MovesOne, Moves, E!Stage, E!Ground, E!Did
  <2>6. ASSUME NEW applied \in BOOLEAN, E!Send(b, s, applied) PROVE MovesOne(b, s)
    BY <2>1, <2>6, EffectGoes DEF E!Send, MovesOne, Moves, E!Stage
  <2> QED
    BY <1>2, <2>2, <2>3, <2>4, <2>5, <2>6
<1>3. ASSUME NEW d \in Accounts, NEW s \in Subjects, E!Elsewhere(d, s) PROVE MovesNone
  BY <1>3 DEF E!Elsewhere, MovesNone
<1>4. ASSUME E!Answered \/ UNCHANGED E!vars PROVE MovesNone
  BY <1>4 DEF E!Answered, MovesNone, E!vars
<1> QED
  BY <1>1, <1>2, <1>3, <1>4 DEF E!Next

\* The effect is begun and nobody knows how it ended, for the account that asked for it.
Begun(b, d, s) == Asked[b].did = d /\ Stages[b][s] \in {"open", "refused", "sent"}
OneBegun ==
    \A d \in Accounts, s \in Subjects :
        /\ \A b, c \in Jobs : Begun(b, d, s) /\ Begun(c, d, s) => b = c
        /\ Grounded[d][s] = "suspended" <=> \E b \in Jobs : Begun(b, d, s)
\* An effect of the account put the mute there, and it is proved.
ProvedMute(d, s) ==
    \E a \in Jobs : Asked[a].did = d /\ Asked[a].kind # "release" /\ Stages[a][s] = "proved"
OwnGround ==
    \A d \in Accounts, s \in Subjects :
        /\ Grounded[d][s] = "ours" => ProvedMute(d, s)
        /\ \A b \in Jobs : Asked[b].did = d /\ Asked[b].kind = "release" /\ Stages[b][s] # "untouched"
              => ProvedMute(d, s)

LEMMA PromisesAsPairs ==
    /\ E!OneAtATime <=> OneBegun
    /\ E!OwnMutesOnly <=> OwnGround
<1>1. E!OneAtATime <=> OneBegun
  <2> DEFINE begun(d, s) == {b \in Jobs : E!Did(b) = d /\ E!Pending(b, s)}
  <2>1. E!OneAtATime <=>
          \A d \in Accounts, s \in Subjects :
              /\ \A b, c \in begun(d, s) : b = c
              /\ Grounded[d][s] = "suspended" <=> begun(d, s) # {}
    BY DEF E!OneAtATime
  <2>2. \A d, s : \A b : b \in begun(d, s) <=> b \in Jobs /\ Begun(b, d, s)
    BY DEF E!Did, E!Pending, Begun
  <2> HIDE DEF begun
  <2> QED
    BY <2>1, <2>2 DEF OneBegun
<1>2. E!OwnMutesOnly <=> OwnGround
  BY DEF E!OwnMutesOnly, OwnGround, ProvedMute, E!Did
<1> QED
  BY <1>1, <1>2

\* One effect of an account at a time is begun on a subject: it needs another ground
\* than "suspended" to begin, and leaves another one only when it is proved.
LEMMA OneBegunNext ==
    ASSUME EffectsTyped, Unasked, OneBegun, [E!Next]_E!vars
    PROVE  OneBegun'
<1>a. \A b \in Jobs : Asked[b].did \in Accounts
  BY DEF EffectsTyped
<1>1. CASE AsksOnly
  <2>1. \A d : \A b \in Jobs, s \in Subjects : Begun(b, d, s)' <=> Begun(b, d, s)
    BY <1>1 DEF AsksOnly, Begun
  <2> QED
    BY <1>1, <2>1 DEF AsksOnly, OneBegun
<1>2. CASE MovesNone
  BY <1>2 DEF MovesNone, OneBegun, Begun
<1>3. ASSUME NEW b \in Jobs, NEW s \in Subjects, NEW d \in Accounts, d = Asked[b].did, MovesOne(b, s)
      PROVE  OneBegun'
  <2>1. \A e : \A c \in Jobs, t \in Subjects : c # b \/ t # s => (Begun(c, e, t)' <=> Begun(c, e, t))
    BY <1>3 DEF MovesOne, Moves, Begun
  <2>2. \A e \in Accounts, t \in Subjects : e # d \/ t # s => Grounded'[e][t] = Grounded[e][t]
    BY <1>3 DEF MovesOne, Moves
  <2>3. \A e : e # d => ~Begun(b, e, s) /\ ~Begun(b, e, s)'
    BY <1>3 DEF MovesOne, Moves, Begun
  \* the subject of the step
  <2>4. /\ \A c, x \in Jobs : Begun(c, d, s)' /\ Begun(x, d, s)' => c = x
        /\ Grounded'[d][s] = "suspended" <=> \E c \in Jobs : Begun(c, d, s)'
    <3>1. /\ \A c, x \in Jobs : Begun(c, d, s) /\ Begun(x, d, s) => c = x
          /\ Grounded[d][s] = "suspended" <=> \E c \in Jobs : Begun(c, d, s)
      BY <1>a DEF OneBegun
    <3>2. \/ /\ Grounded[d][s] # "suspended" /\ Grounded'[d][s] = "suspended"
             /\ Begun(b, d, s)'
          \/ /\ Grounded'[d][s] = Grounded[d][s]
             /\ Begun(b, d, s) /\ Begun(b, d, s)'
          \/ /\ Grounded'[d][s] # "suspended" /\ Begun(b, d, s) /\ ~Begun(b, d, s)'
      BY <1>3, <1>a DEF MovesOne, Moves, Begun, E!Needs, E!Leaves
    <3> QED
      BY <2>1, <3>1, <3>2
  <2>5. ASSUME NEW e \in Accounts, NEW t \in Subjects
        PROVE  /\ \A c, x \in Jobs : Begun(c, e, t)' /\ Begun(x, e, t)' => c = x
               /\ Grounded'[e][t] = "suspended" <=> \E c \in Jobs : Begun(c, e, t)'
    <3>1. CASE e = d /\ t = s
      BY <2>4, <3>1
    <3>2. CASE e # d \/ t # s
      <4>1. \A c \in Jobs : Begun(c, e, t)' <=> Begun(c, e, t)
        BY <2>1, <2>3, <3>2
      <4> QED
        BY <2>2, <3>2, <4>1 DEF OneBegun
    <3> QED
      BY <3>1, <3>2
  <2> QED
    BY <2>5 DEF OneBegun
<1> QED
  BY <1>a, <1>1, <1>2, <1>3, EffectMoves

\* No proof is lost that a release or a held mute rests on: a proof is taken back
\* only where another one remains, and the mute is then no longer called "ours".
LEMMA OwnGroundNext ==
    ASSUME EffectsTyped, Unasked, OwnGround, [E!Next]_E!vars
    PROVE  OwnGround'
<1>a. \A b \in Jobs : Asked[b].did \in Accounts
  BY DEF EffectsTyped
<1>1. CASE AsksOnly
  <2>1. \A d, s : s \in Subjects /\ ProvedMute(d, s) => ProvedMute(d, s)'
    BY <1>1 DEF AsksOnly, ProvedMute
  <2> QED
    BY <1>1, <2>1 DEF AsksOnly, OwnGround
<1>2. CASE MovesNone
  BY <1>2 DEF MovesNone, OwnGround, ProvedMute
<1>3. ASSUME NEW b \in Jobs, NEW s \in Subjects, NEW d \in Accounts, d = Asked[b].did, MovesOne(b, s)
      PROVE  OwnGround'
  <2> DEFINE kind == Asked[b].kind
  <2> d = Asked[b].did
    BY <1>3
  <2>1. /\ Asked' = Asked
        /\ \A c \in Jobs, t \in Subjects : c # b \/ t # s => Stages'[c][t] = Stages[c][t]
        /\ \A e \in Accounts, t \in Subjects : e # d \/ t # s => Grounded'[e][t] = Grounded[e][t]
    BY <1>3 DEF MovesOne, Moves
  <2>2. \A e, t : t \in Subjects /\ (e # d \/ t # s) => (ProvedMute(e, t)' <=> ProvedMute(e, t))
    BY <2>1 DEF ProvedMute
  <2>3. /\ Grounded'[d][s] = "ours" => ProvedMute(d, s)'
        /\ \A c \in Jobs : Asked[c].did = d /\ Asked[c].kind = "release" /\ Stages'[c][s] # "untouched"
              => ProvedMute(d, s)'
    <3>1. CASE Moves(b, s, "untouched", "open", E!Needs(kind), "suspended")
      <4>1. ProvedMute(d, s) => ProvedMute(d, s)'
        BY <3>1 DEF Moves, ProvedMute
      <4>2. Grounded'[d][s] = "suspended" /\ (kind = "release" => ProvedMute(d, s))
        BY <1>a, <3>1 DEF Moves, OwnGround, E!Needs
      <4> QED
        BY <2>1, <4>1, <4>2 DEF OwnGround
    <3>2. CASE Moves(b, s, "open", "refused", "any", "same") \/ Moves(b, s, "open", "sent", "any", "same")
      <4>1. ProvedMute(d, s) => ProvedMute(d, s)'
        BY <3>2 DEF Moves, ProvedMute
      <4>2. Stages[b][s] = "open" /\ Grounded'[d][s] = Grounded[d][s]
        BY <1>a, <3>2 DEF Moves
      <4> QED
        BY <1>a, <2>1, <4>1, <4>2 DEF OwnGround
    <3>3. CASE Moves(b, s, "sent", "proved", "any", E!Leaves(kind))
      <4>1. /\ ProvedMute(d, s) => ProvedMute(d, s)'
            /\ kind # "release" => ProvedMute(d, s)'
        BY <3>3 DEF Moves, ProvedMute
      <4>2. Stages[b][s] = "sent" /\ (kind = "release" => Grounded'[d][s] # "ours")
        BY <1>a, <3>3 DEF Moves, E!Leaves
      <4> QED
        BY <1>a, <2>1, <4>1, <4>2 DEF OwnGround
    <3>4. CASE /\ Moves(b, s, "proved", "sent", E!Leaves(kind), "suspended")
               /\ \A c \in Jobs : /\ Asked[c].did = d /\ Asked[c].kind = "release"
                                  /\ Stages[c][s] # "untouched"
                     => \E a \in Jobs \ {b} : /\ Asked[a].did = d /\ Asked[a].kind # "release"
                                              /\ Stages[a][s] = "proved"
      <4>1. Grounded'[d][s] = "suspended" /\ Stages[b][s] = "proved"
        BY <1>a, <3>4 DEF Moves
      <4> QED
        BY <2>1, <3>4, <4>1 DEF ProvedMute
    <3> QED
      BY <1>3, <3>1, <3>2, <3>3, <3>4 DEF MovesOne
  <2>4. ASSUME NEW e \in Accounts, NEW t \in Subjects
        PROVE  /\ Grounded'[e][t] = "ours" => ProvedMute(e, t)'
               /\ \A c \in Jobs : Asked[c].did = e /\ Asked[c].kind = "release" /\ Stages'[c][t] # "untouched"
                     => ProvedMute(e, t)'
    <3>1. CASE e = d /\ t = s
      BY <2>3, <3>1
    <3>2. CASE e # d \/ t # s
      BY <2>1, <2>2, <3>2 DEF OwnGround
    <3> QED
      BY <3>1, <3>2
  <2> QED
    BY <2>1, <2>4 DEF OwnGround
<1> QED
  BY <1>a, <1>1, <1>2, <1>3, EffectMoves

\* There are finitely many effects, however they are told apart.
LEMMA EffectsCounted ==
    /\ \A S : E!Cardinality(S) = Cardinality(S)
    /\ \A S \in SUBSET (Jobs \X Subjects) : IsFiniteSet(S) /\ Cardinality(S) \in Nat
    /\ \A S, T \in SUBSET (Jobs \X Subjects) : S \subseteq T => Cardinality(S) <= Cardinality(T)
<1>1. \A S : E!Cardinality(S) = Cardinality(S)
  BY DEF E!Cardinality, Cardinality
<1>2. IsFiniteSet(Jobs \X Subjects)
  <2>1. IsFiniteSet(Jobs) /\ IsFiniteSet(Subjects)
    BY ConstantsAssumption, FS_Interval DEF Jobs
  <2> QED
    BY <2>1, FS_Product
<1>3. \A S \in SUBSET (Jobs \X Subjects) : IsFiniteSet(S) /\ Cardinality(S) \in Nat
  BY <1>2, FS_Subset, FS_CardinalityType
<1>4. \A S, T \in SUBSET (Jobs \X Subjects) : S \subseteq T => Cardinality(S) <= Cardinality(T)
  BY <1>3, FS_Subset
<1> QED
  BY <1>1, <1>3, <1>4

\* An answer stays what it is, and an effect that waits for one gets a true one.
LEMMA TrueAnswers ==
    ASSUME EffectsTyped, NEW b \in Jobs, NEW s \in Subjects, E!Answers
    PROVE  \/ Reports'[b][s] = Reports[b][s]
           \/ /\ Reports[b][s] = "waiting" /\ Reports'[b][s] \in {"confirmed", "uncertain", "skipped"}
              /\ E!Admits(Stages'[b][s], Reports'[b][s])
BY DEF E!Answers, E!Admits

\* What is waiting, what was sent, and whether the reports are true.
QueueKept == Cardinality(E!Waiting) <= QueuedActionsGlobal
DayKept ==
    /\ Cardinality(E!Sent) <= EffectsGlobalDay
    /\ \A d \in Accounts : Cardinality(E!SentBy(d)) <= EffectsPerDidDay
ReportsTrue ==
    \A b \in Jobs, s \in Subjects :
        Reports[b][s] \in {"confirmed", "uncertain", "skipped"} => E!Admits(Stages[b][s], Reports[b][s])

LEMMA PromisesInParts == E!PromisesKept <=> QueueKept /\ DayKept /\ ReportsTrue
BY EffectsCounted DEF E!PromisesKept, QueueKept, DayKept, ReportsTrue

\* The queue takes a batch only if it fits, and loses what is answered.
LEMMA QueueNext ==
    ASSUME EffectsTyped, QueueKept, [E!Next]_E!vars
    PROVE  QueueKept'
<1>a. E!Waiting \in SUBSET (Jobs \X Subjects) /\ E!Waiting' \in SUBSET (Jobs \X Subjects)
  BY DEF E!Waiting, E!Effects
<1>1. ASSUME E!Waiting' \subseteq E!Waiting PROVE QueueKept'
  BY <1>1, <1>a, EffectsCounted, ConstantsAssumption DEF QueueKept
<1>2. ASSUME NEW b \in Jobs, NEW d \in Accounts, NEW kind \in E!Kinds, NEW batch \in SUBSET Subjects,
             E!Approve(b, d, kind, batch)
      PROVE  QueueKept'
  <2> DEFINE new == {b} \X batch
  <2>1. E!Waiting' \subseteq E!Waiting \cup new
    BY <1>2 DEF E!Approve, E!Waiting, E!Effects, EffectsTyped
  <2>2. new \in SUBSET (Jobs \X Subjects)
    OBVIOUS
  <2>3. IsFiniteSet(batch) /\ Cardinality(batch) \in Nat
    BY ConstantsAssumption, FS_Subset, FS_CardinalityType
  <2>4. Cardinality(new) = Cardinality(batch)
    <3>1. IsFiniteSet({b}) /\ Cardinality({b}) = 1
      BY FS_Singleton
    <3>2. Cardinality(new) = 1 * Cardinality(batch)
      BY <2>3, <3>1, FS_Product
    <3> QED
      BY <2>3, <3>2
  <2> HIDE DEF new
  <2>5. Cardinality(E!Waiting \cup new) <= Cardinality(E!Waiting) + Cardinality(batch)
    <3>1. IsFiniteSet(E!Waiting) /\ IsFiniteSet(new) /\ Cardinality(E!Waiting) \in Nat
      BY <1>a, <2>2, EffectsCounted
    <3>2. E!Waiting \cap new \in SUBSET (Jobs \X Subjects)
      BY <2>2
    <3>3. Cardinality(E!Waiting \cap new) \in Nat
      BY <3>2, EffectsCounted
    <3>4. Cardinality(E!Waiting \cup new)
             = Cardinality(E!Waiting) + Cardinality(new) - Cardinality(E!Waiting \cap new)
      BY <3>1, FS_Union
    <3> QED
      BY <2>3, <2>4, <3>1, <3>3, <3>4
  <2>6. Cardinality(E!Waiting') <= Cardinality(E!Waiting \cup new)
    BY <1>a, <2>1, <2>2, EffectsCounted
  <2>7. Cardinality(E!Waiting) + Cardinality(batch) <= QueuedActionsGlobal
    BY <1>2, EffectsCounted DEF E!Approve
  <2> QED
    BY <1>a, <2>2, <2>3, <2>5, <2>6, <2>7, EffectsCounted, ConstantsAssumption DEF QueueKept
<1>3. ASSUME E!Answers PROVE E!Waiting' \subseteq E!Waiting
  BY <1>3, TrueAnswers DEF E!Waiting, E!Effects
<1>4. ASSUME \/ \E b \in Jobs, s \in Subjects :
                   \/ E!Open(b, s) \/ E!Refuse(b, s) \/ E!Prove(b, s) \/ E!Withdraw(b, s)
             \/ E!Answered
      PROVE  QueueKept'
  BY <1>1, <1>3, <1>4 DEF E!Open, E!Refuse, E!Prove, E!Withdraw, E!Answered
<1>5. ASSUME \/ \E b \in Jobs, s \in Subjects, applied \in BOOLEAN : E!Send(b, s, applied)
             \/ \E d \in Accounts, s \in Subjects : E!Elsewhere(d, s)
             \/ UNCHANGED E!vars
      PROVE  QueueKept'
  <2>1. Reports' = Reports
    BY <1>5 DEF E!Send, E!Elsewhere, E!vars
  <2> QED
    BY <1>1, <2>1 DEF E!Waiting, E!Effects
<1> QED
  BY <1>2, <1>4, <1>5 DEF E!Next

\* The request is sent only within the limits, and nothing else adds to the day.
LEMMA DayNext ==
    ASSUME EffectsTyped, Unasked, DayKept, [E!Next]_E!vars
    PROVE  DayKept'
<1>a. /\ E!Sent \in SUBSET (Jobs \X Subjects) /\ E!Sent' \in SUBSET (Jobs \X Subjects)
      /\ \A d : /\ E!SentBy(d) \in SUBSET (Jobs \X Subjects)
                /\ E!SentBy(d)' \in SUBSET (Jobs \X Subjects)
  BY DEF E!Sent, E!SentBy, E!Effects
<1>1. ASSUME E!Sent' \subseteq E!Sent, \A d \in Accounts : E!SentBy(d)' \subseteq E!SentBy(d)
      PROVE  DayKept'
  <2>1. Cardinality(E!Sent') <= EffectsGlobalDay
    BY <1>1, <1>a, EffectsCounted, ConstantsAssumption DEF DayKept
  <2>2. ASSUME NEW d \in Accounts PROVE Cardinality(E!SentBy(d)') <= EffectsPerDidDay
    BY <1>1, <1>a, EffectsCounted, ConstantsAssumption DEF DayKept
  <2> QED
    BY <2>1, <2>2 DEF DayKept
<1>2. CASE AsksOnly
  <2>1. E!Sent' = E!Sent
    BY <1>2 DEF AsksOnly, E!Sent, E!Effects
  <2>2. \A i \in E!Sent : Asked'[i[1]] = Asked[i[1]]
    BY <1>2 DEF AsksOnly, E!Sent, E!Effects
  <2>3. \A d \in Accounts : E!SentBy(d)' \subseteq E!SentBy(d)
    BY <2>1, <2>2 DEF E!SentBy, E!Did
  <2> QED
    BY <1>1, <2>1, <2>3
<1>3. CASE MovesNone
  BY <1>1, <1>3 DEF MovesNone, E!Sent, E!SentBy, E!Did, E!Effects
<1>4. ASSUME NEW b \in Jobs, NEW s \in Subjects, E!Open(b, s) \/ E!Refuse(b, s) \/ E!Prove(b, s) \/ E!Withdraw(b, s)
      PROVE  DayKept'
  <2>1. PICK at \in E!Stage, next \in E!Stage :
            E!Goes(b, s, at, next) /\ (next \in {"sent", "proved"} => at \in {"sent", "proved"})
    BY <1>4 DEF E!Open, E!Refuse, E!Prove, E!Withdraw, E!Stage
  <2>2. Asked' = Asked /\ \A c \in Jobs, t \in Subjects :
            Stages'[c][t] \in {"sent", "proved"} => Stages[c][t] \in {"sent", "proved"}
    BY <2>1, EffectGoes
  <2>3. E!Sent' \subseteq E!Sent
    BY <2>2 DEF E!Sent, E!Effects
  <2>4. \A d \in Accounts : E!SentBy(d)' \subseteq E!SentBy(d)
    BY <2>2, <2>3 DEF E!SentBy, E!Did
  <2> QED
    BY <1>1, <2>3, <2>4
<1>5. ASSUME NEW b \in Jobs, NEW s \in Subjects, NEW applied \in BOOLEAN, E!Send(b, s, applied)
      PROVE  DayKept'
  <2>1. /\ Asked' = Asked
        /\ \A c \in Jobs, t \in Subjects :
              Stages'[c][t] = IF c = b /\ t = s THEN "sent" ELSE Stages[c][t]
    BY <1>5, EffectGoes DEF E!Send, E!Stage
  <2>2. ASSUME NEW d \in Accounts PROVE Cardinality(E!SentBy(d)') <= EffectsPerDidDay
    <3>1. CASE d = Asked[b].did
      <4>1. E!SentBy(E!Did(b))' = E!SentBy(d)'
        BY <2>1, <3>1 DEF E!SentBy, E!Did
      <4> QED
        BY <1>5, <4>1, EffectsCounted DEF E!Send
    <3>2. CASE d # Asked[b].did
      <4>1. E!SentBy(d)' \subseteq E!SentBy(d)
        BY <2>1, <3>2 DEF E!SentBy, E!Sent, E!Did, E!Effects
      <4> QED
        BY <1>a, <4>1, EffectsCounted, ConstantsAssumption DEF DayKept
    <3> QED
      BY <3>1, <3>2
  <2>3. Cardinality(E!Sent') <= EffectsGlobalDay
    BY <1>5, EffectsCounted DEF E!Send
  <2> QED
    BY <2>2, <2>3 DEF DayKept
<1>6. ASSUME \/ \E b \in Jobs, d \in Accounts, kind \in E!Kinds, batch \in SUBSET Subjects :
                   E!Approve(b, d, kind, batch)
             \/ E!Answered \/ UNCHANGED E!vars
             \/ \E d \in Accounts, s \in Subjects : E!Elsewhere(d, s)
      PROVE  AsksOnly \/ MovesNone
  BY <1>6 DEF E!Approve, EffectsTyped, Unasked, AsksOnly, E!Answered, E!Elsewhere, E!vars, MovesNone
<1> QED
  BY <1>2, <1>3, <1>4, <1>5, <1>6 DEF E!Next

\* A report is given once, and what it says of the effect stays so.
LEMMA ReportsNext ==
    ASSUME EffectsTyped, Unasked, ReportsTrue, [E!Next]_E!vars
    PROVE  ReportsTrue' /\ Unasked'
<1> DEFINE done == {"confirmed", "uncertain", "skipped"}
<1>1. ASSUME NEW b \in Jobs, NEW d \in Accounts, NEW kind \in E!Kinds, NEW batch \in SUBSET Subjects,
             E!Approve(b, d, kind, batch)
      PROVE  ReportsTrue' /\ Unasked'
  <2>1. Stages' = Stages /\ \A c \in Jobs, s \in Subjects :
            Reports'[c][s] = IF c = b THEN IF s \in batch THEN "waiting" ELSE "none" ELSE Reports[c][s]
    BY <1>1 DEF E!Approve, EffectsTyped
  <2>2. \A s \in Subjects : Stages[b][s] = "untouched"
    BY <1>1 DEF E!Approve, Unasked
  <2> QED
    BY <2>1, <2>2 DEF ReportsTrue, Unasked, E!Admits
\* A step that answers: what is answered is true, and the effect that moves waited.
<1>2. ASSUME E!Answers, \A c \in Jobs, s \in Subjects :
                 Stages'[c][s] = Stages[c][s] \/ Reports[c][s] = "waiting"
      PROVE  ReportsTrue' /\ Unasked'
  <2> SUFFICES ASSUME NEW c \in Jobs, NEW s \in Subjects
               PROVE  /\ Reports'[c][s] \in done => E!Admits(Stages'[c][s], Reports'[c][s])
                      /\ Reports'[c][s] = "none" => Stages'[c][s] = "untouched"
    BY DEF ReportsTrue, Unasked, E!Admits
  <2> QED
    BY <1>2, TrueAnswers DEF ReportsTrue, Unasked
<1>3. ASSUME NEW b \in Jobs, NEW s \in Subjects,
             E!Open(b, s) \/ E!Refuse(b, s) \/ E!Prove(b, s) \/ E!Withdraw(b, s)
      PROVE  ReportsTrue' /\ Unasked'
  <2>1. E!Answers /\ \E at, next \in E!Stage : E!Goes(b, s, at, next)
    BY <1>3 DEF E!Open, E!Refuse, E!Prove, E!Withdraw, E!Stage
  <2> QED
    BY <1>2, <2>1, EffectGoes
<1>4. ASSUME \/ \E b \in Jobs, s \in Subjects, applied \in BOOLEAN : E!Send(b, s, applied)
             \/ \E d \in Accounts, s \in Subjects : E!Elsewhere(d, s)
             \/ UNCHANGED E!vars
      PROVE  ReportsTrue' /\ Unasked'
  <2>1. E!Answers /\ \A c \in Jobs, s \in Subjects :
                 Stages'[c][s] = Stages[c][s] \/ Reports[c][s] = "waiting"
    BY <1>4, EffectGoes DEF E!Send, E!Elsewhere, E!vars, E!Answers, EffectsTyped, E!Stage
  <2> QED
    BY <1>2, <2>1
<1>5. ASSUME E!Answered PROVE ReportsTrue' /\ Unasked'
  BY <1>2, <1>5 DEF E!Answered
<1> QED
  BY <1>1, <1>3, <1>4, <1>5 DEF E!Next

EffectsKept == /\ EffectsTyped /\ Unasked /\ OneBegun /\ OwnGround
               /\ QueueKept /\ DayKept /\ ReportsTrue

\* What ApprovedEffects promises holds in each of its states.
LEMMA EffectsPromised == E!Spec => [](E!OneAtATime /\ E!OwnMutesOnly /\ E!PromisesKept)
<1>1. E!Init => EffectsKept
  <2> SUFFICES ASSUME E!Init PROVE EffectsKept
    OBVIOUS
  <2>1. EffectsTyped
    BY DEF E!Init, EffectsTyped, E!Stage, E!Answer, E!Ground
  <2>2. Unasked /\ OneBegun /\ OwnGround /\ ReportsTrue
    BY DEF E!Init, Unasked, OneBegun, Begun, OwnGround, ReportsTrue
  <2>3. E!Waiting = {} /\ E!Sent = {} /\ \A d : E!SentBy(d) = {}
    BY DEF E!Init, E!Waiting, E!Sent, E!SentBy, E!Effects
  <2>4. QueueKept /\ DayKept
    BY <2>3, FS_EmptySet, ConstantsAssumption DEF QueueKept, DayKept
  <2> QED
    BY <2>1, <2>2, <2>4 DEF EffectsKept
<1>2. EffectsKept /\ [E!Next]_E!vars => EffectsKept'
  BY EffectsTypedNext, OneBegunNext, OwnGroundNext, QueueNext, DayNext, ReportsNext DEF EffectsKept
<1>3. EffectsKept => E!OneAtATime /\ E!OwnMutesOnly /\ E!PromisesKept
  BY PromisesAsPairs, PromisesInParts DEF EffectsKept
<1> QED
  BY <1>1, <1>2, <1>3, PTL DEF E!Spec

-----------------------------------------------------------------------------
\* The pipeline's state, read as the state of ApprovedEffects.
LEMMA StagesTold ==
    /\ \A n \in {0, 1} : StageOf("none", n) = "untouched" /\ StageOf("confirmed", n) = "proved"
    /\ \A a \in Unproven : StageOf(a, 1) = "sent"
    /\ StageOf("pending", 0) = "open" /\ StageOf("unresolved", 0) = "refused"
    /\ \A n \in {0, 1}, a \in AttemptStatus : StageOf(a, n) \in E!Stage
BY DEF StageOf, Unproven, AttemptStatus, E!Stage

LEMMA MappingFacts ==
    /\ \A b \in Jobs : /\ Asked[b] = [did |-> Did(b), kind |-> approval[b].kind]
                       /\ Asked'[b] = [did |-> Did(b)', kind |-> approval'[b].kind]
    /\ \A b \in Jobs, s \in Subjects :
          /\ Stages[b][s] = StageOf(attempt[b][s], writes[b][s])
          /\ Stages'[b][s] = StageOf(attempt'[b][s], writes'[b][s])
          /\ Reports[b][s] = Told(item[b][s]) /\ Reports'[b][s] = Told(item'[b][s])
    /\ \A d \in Accounts, s \in Subjects :
          /\ Grounded[d][s] = GroundOf(ledger[d][s]) /\ Grounded'[d][s] = GroundOf(ledger'[d][s])
          /\ Muted[d][s] = remote[d][s].direct /\ Muted'[d][s] = remote'[d][s].direct
BY DEF Asked, Stages, Reports, Grounded, Muted

\* Of every row there is at most one request.
LEMMA OneRequest ==
    /\ TypeOK /\ WriteInv => \A b \in Jobs, s \in Subjects : writes[b][s] \in {0, 1}
    /\ TypeOK' /\ WriteInv' => \A b \in Jobs, s \in Subjects : writes'[b][s] \in {0, 1}
<1>1. ASSUME TypeOK, WriteInv, NEW b \in Jobs, NEW s \in Subjects PROVE writes[b][s] \in {0, 1}
  <2>1. writes[b][s] \in Nat
    BY <1>1 DEF TypeOK, WorldTypeOK
  <2>2. writes[b][s] <= 1
    BY <1>1 DEF WriteInv, AtMostOneWrite
  <2> QED
    BY <2>1, <2>2
<1>2. ASSUME TypeOK', WriteInv', NEW b \in Jobs, NEW s \in Subjects PROVE writes'[b][s] \in {0, 1}
  <2>1. writes'[b][s] \in Nat
    BY <1>2 DEF TypeOK, WorldTypeOK
  <2>2. writes'[b][s] <= 1
    BY <1>2 DEF WriteInv, AtMostOneWrite
  <2> QED
    BY <2>1, <2>2
<1> QED
  BY <1>1, <1>2

LEMMA MappingTyped ==
    /\ TypeOK /\ WriteInv => EffectsTyped
    /\ TypeOK' /\ WriteInv' => EffectsTyped'
<1>1. \A v \in ItemStatus : Told(v) \in E!Answer
  BY DEF ItemStatus, Told, E!Answer
<1>2. \A v \in LedgerStatus : GroundOf(v) \in E!Ground
  BY DEF LedgerStatus, GroundOf, E!Ground
<1>3. ASSUME TypeOK, WriteInv PROVE EffectsTyped
  <2>1. Asked \in [Jobs -> [did : Accounts, kind : E!Kinds]]
    BY <1>3 DEF TypeOK, AskTypeOK, Asked, Did, Kinds, E!Kinds
  <2>2. Stages \in [Jobs -> [Subjects -> E!Stage]]
    BY <1>3, OneRequest, StagesTold DEF TypeOK, EngineTypeOK, Stages
  <2>3. Reports \in [Jobs -> [Subjects -> E!Answer]]
    BY <1>1, <1>3 DEF TypeOK, JobTypeOK, Reports
  <2>4. Grounded \in [Accounts -> [Subjects -> E!Ground]]
    BY <1>2, <1>3 DEF TypeOK, EngineTypeOK, Grounded
  <2>5. Muted \in [Accounts -> [Subjects -> BOOLEAN]]
    BY <1>3 DEF TypeOK, WorldTypeOK, Observation, Muted
  <2> QED
    BY <2>1, <2>2, <2>3, <2>4, <2>5 DEF EffectsTyped
<1>4. ASSUME TypeOK', WriteInv' PROVE EffectsTyped'
  <2>1. Asked' \in [Jobs -> [did : Accounts, kind : E!Kinds]]
    BY <1>4 DEF TypeOK, AskTypeOK, Asked, Did, Kinds, E!Kinds
  <2>2. Stages' \in [Jobs -> [Subjects -> E!Stage]]
    BY <1>4, OneRequest, StagesTold DEF TypeOK, EngineTypeOK, Stages
  <2>3. Reports' \in [Jobs -> [Subjects -> E!Answer]]
    BY <1>1, <1>4 DEF TypeOK, JobTypeOK, Reports
  <2>4. Grounded' \in [Accounts -> [Subjects -> E!Ground]]
    BY <1>2, <1>4 DEF TypeOK, EngineTypeOK, Grounded
  <2>5. Muted' \in [Accounts -> [Subjects -> BOOLEAN]]
    BY <1>4 DEF TypeOK, WorldTypeOK, Observation, Muted
  <2> QED
    BY <2>1, <2>2, <2>3, <2>4, <2>5 DEF EffectsTyped
<1> QED
  BY <1>3, <1>4

\* The stages, the grounds or the mutes differ in one entry.
LEMMA OneStage ==
    ASSUME EffectsTyped, EffectsTyped', NEW j \in Jobs, NEW s \in Subjects,
           \A k \in Jobs, t \in Subjects : k # j \/ t # s => Stages'[k][t] = Stages[k][t]
    PROVE  Stages' = [Stages EXCEPT ![j][s] = Stages'[j][s]]
BY DEF EffectsTyped

LEMMA OneGround ==
    ASSUME EffectsTyped, EffectsTyped', NEW d \in Accounts, NEW s \in Subjects,
           \A e \in Accounts, t \in Subjects : e # d \/ t # s => Grounded'[e][t] = Grounded[e][t]
    PROVE  Grounded' = [Grounded EXCEPT ![d][s] = Grounded'[d][s]]
BY DEF EffectsTyped

LEMMA OneMute ==
    ASSUME EffectsTyped, EffectsTyped', NEW d \in Accounts, NEW s \in Subjects,
           \A e \in Accounts, t \in Subjects : e # d \/ t # s => Muted'[e][t] = Muted[e][t]
    PROVE  Muted' = [Muted EXCEPT ![d][s] = Muted'[d][s]]
BY DEF EffectsTyped

-----------------------------------------------------------------------------
\* An item that was begun has an attempt, and keeps it.
Opened ==
    \A j \in Jobs, s \in Subjects :
        item[j][s] \in {"attempting", "uncertain", "confirmed"} => attempt[j][s] # "none"

\* The ledger row a proved action leaves.
Settles(kind) == IF kind = "release" THEN "released" ELSE "attributed"

\* The catch block may find a proof it never heard of: nothing has happened since.
LastWordOf(w) ==
    LET j == run[w].job
        s == run[w].subj
    IN run[w].pc = "doubtful" /\ attempt[j][s] = "confirmed" =>
           ledger[Did(j)][s] = Settles(approval[j].kind)
LastWord == \A w \in Workers : LastWordOf(w)

\* A release is begun only on a proof, and that proof is never the one in hand.
ReleasesRest ==
    \A j \in Jobs, s \in Subjects :
        attempt[j][s] # "none" /\ approval[j].kind = "release" => Earned(Did(j), s)

EffectInv == Opened /\ LastWord /\ ReleasesRest

\* Items that are neither waiting nor in hand stay as they are.
ItemsGo ==
    \A j \in Jobs, s \in Subjects :
        \/ item'[j][s] = item[j][s]
        \/ item[j][s] \in {"pending", "attempting"} /\ item'[j][s] # "none"

\* What becomes of the items is a true answer, by the journal of the next state.
LEMMA AnswersFollow ==
    ASSUME TypeOK, TypeOK', WriteInv, WriteInv', Books', Opened', ItemsGo
    PROVE  E!Answers
<1>1. EffectsTyped /\ EffectsTyped'
  BY MappingTyped
<1>2. ASSUME NEW b \in Jobs, NEW s \in Subjects, item'[b][s] # item[b][s]
      PROVE  \/ Reports'[b][s] = Reports[b][s]
             \/ Reports[b][s] = "waiting" /\ E!Admits(Stages'[b][s], Reports'[b][s])
  <2>1. item[b][s] \in {"pending", "attempting"} /\ item'[b][s] # "none"
    BY <1>2 DEF ItemsGo
  <2>2. item'[b][s] \in ItemStatus /\ attempt'[b][s] \in AttemptStatus /\ writes'[b][s] \in {0, 1}
    BY OneRequest DEF TypeOK, JobTypeOK, EngineTypeOK
  <2>3. Reports[b][s] = "waiting" /\ Reports'[b][s] = Told(item'[b][s])
    BY <2>1, MappingFacts DEF Told
  <2>4. Stages'[b][s] = StageOf(attempt'[b][s], writes'[b][s])
    BY MappingFacts
  <2>5. CASE item'[b][s] \in {"pending", "attempting"}
    BY <2>3, <2>5 DEF Told
  <2>6. CASE item'[b][s] = "confirmed"
    <3>1. attempt'[b][s] = "confirmed"
      BY <2>6 DEF Books, BookOK
    <3> QED
      BY <2>2, <2>3, <2>4, <2>6, <3>1, StagesTold DEF Told, E!Admits
  <2>7. CASE item'[b][s] = "uncertain"
    <3>1. attempt'[b][s] # "none"
      BY <2>7 DEF Opened
    <3>2. StageOf(attempt'[b][s], writes'[b][s]) # "untouched"
      BY <2>2, <3>1, StagesTold DEF AttemptStatus, Unproven
    <3> QED
      BY <2>3, <2>4, <2>7, <3>2 DEF Told, E!Admits
  <2>8. CASE item'[b][s] \in Skipped
    <3>1. attempt'[b][s] # "confirmed" /\ writes'[b][s] = 0
      BY <2>8 DEF Books, BookOK, Skipped
    <3>2. StageOf(attempt'[b][s], writes'[b][s]) \notin {"sent", "proved"}
      BY <2>2, <3>1, StagesTold DEF AttemptStatus, Unproven
    <3> QED
      BY <2>3, <2>4, <2>8, <3>2 DEF Told, E!Admits, Skipped
  <2> QED
    BY <2>1, <2>2, <2>5, <2>6, <2>7, <2>8 DEF ItemStatus, Skipped
<1>3. \A b \in Jobs, s \in Subjects : item'[b][s] = item[b][s] => Reports'[b][s] = Reports[b][s]
  BY MappingFacts
<1> QED
  BY <1>1, <1>2, <1>3 DEF E!Answers, EffectsTyped

\* A step that leaves the journal, the ledger and the network alone.
LEMMA CalmAnswers ==
    ASSUME TypeOK, TypeOK', WriteInv, WriteInv', Books', Opened', ItemsGo,
           UNCHANGED <<attempt, writes, ledger, remote, approval>>
    PROVE  E!Next
<1>1. E!Answers
  BY AnswersFollow
<1>2. Asked' = Asked /\ Stages' = Stages /\ Grounded' = Grounded /\ Muted' = Muted
  BY DEF Asked, Stages, Grounded, Muted, Did
<1> QED
  BY <1>1, <1>2 DEF E!Answered, E!Next

\* A worker takes a pending item in hand and keeps it until it is done with it; in
\* doubt is only a run whose request or whose record of the outcome was not answered.
LEMMA HandStep ==
    ASSUME TypeOK, WriteInv, NEW w \in Workers, Start(w) \/ Crash(w) \/ Proceed(w)
    PROVE  /\ approval' = approval
           /\ run'[w].pc \in ItemSteps =>
                 \/ run[w].pc \in ItemSteps /\ run'[w].job = run[w].job /\ run'[w].subj = run[w].subj
                 \/ item[run'[w].job][run'[w].subj] = "pending"
           /\ run'[w].pc = "doubtful" =>
                 SettleFails(w) \/ \E applied, answered \in BOOLEAN : Write(w, applied, answered)
<1> AskTypeOK /\ RunTypeOK /\ WorldTypeOK /\ run[w] \in Run /\ LocalOK(run[w]) /\ InHand(w)
  BY DEF TypeOK, RunTypeOK, WriteInv
<1> DEFINE goal ==
        /\ run'[w].pc \in ItemSteps =>
              \/ run[w].pc \in ItemSteps /\ run'[w].job = run[w].job /\ run'[w].subj = run[w].subj
              \/ item[run'[w].job][run'[w].subj] = "pending"
        /\ run'[w].pc = "doubtful" =>
              SettleFails(w) \/ \E applied, answered \in BOOLEAN : Write(w, applied, answered)
<1>1. approval' = approval
  BY DEF outside, askVars, Proceed, Start, Crash, Claim, Preflight, Plan, ReadFails, StopItems, SkipChanged,
     StartItem, Observe, Reserve, JournalCommits, JournalReplies, JournalFails, LastGate, RefusalCommits,
     RefusalReplies, WorkerError, Write, Confirm, Settle, SettleFails, DoubtCommits, Doubt, Finalize
\* No item is in hand after the step.
<1>a. ASSUME run'[w].pc \in {"idle", "stopped", "claimed", "planning", "next"} PROVE goal
  BY <1>a DEF ItemSteps, EffectSteps
<1>b. ASSUME NEW result, EndRun(w, result) PROVE goal
  BY <1>a, <1>b, IdleFacts DEF EndRun
<1>c. ASSUME Advance(w) PROVE goal
  BY <1>a, <1>c, AdvanceFacts
\* The item in hand stays in hand.
<1>d. ASSUME NEW step \in Steps \ {"doubtful"}, GoTo(w, step), run[w].pc \in ItemSteps PROVE goal
  BY <1>d, GoToFacts
<1>2. ASSUME Start(w) \/ Crash(w) PROVE goal
  <2>1. run'[w].pc \in {"idle", "stopped"}
    BY <1>2, GoToFacts, IdleFacts DEF Start, Crash, Steps
  <2> QED
    BY <1>a, <2>1
<1>3. ASSUME NEW k \in Jobs, Claim(w, k) PROVE goal
  <2> DEFINE r == [run[w] EXCEPT !.pc = "claimed", !.job = k]
  <2>1. r \in Run /\ r.pc = "claimed"
    BY DEF Run, Steps
  <2>2. run'[w].pc = "claimed"
    BY <1>3, <2>1, BecomesFacts DEF Claim
  <2> QED
    BY <1>a, <2>2
<1>4. ASSUME Preflight(w) PROVE goal
  <2>1. (\E result : EndRun(w, result)) \/ GoTo(w, "planning")
    BY <1>4 DEF Preflight
  <2> QED
    BY <1>a, <1>b, <2>1, GoToFacts DEF Steps
<1>5. ASSUME NEW unseen \in SUBSET Subjects, Plan(w, unseen) PROVE goal
  <2>1. Did(run[w].job) \in Accounts
    BY <1>5 DEF Plan, LocalOK, Run, Did, AskTypeOK
  <2>2. RowsOf(Did(run[w].job), unseen) \in [Subjects -> Row]
    BY <2>1, RowsTyped
  <2> DEFINE r == [run[w] EXCEPT !.pc = "next", !.plan = RowsOf(Did(run[w].job), unseen),
                                 !.todo = {t \in Subjects : item[run[w].job][t] = "pending"}]
  <2>3. r \in Run /\ r.pc = "next"
    BY <2>2 DEF Run, Steps
  <2>4. run'[w].pc = "next"
    BY <1>5, <2>3, BecomesFacts DEF Plan
  <2> QED
    BY <1>a, <2>4
<1>6. ASSUME \/ ReadFails(w) \/ JournalFails(w) \/ RefusalReplies(w) \/ WorkerError(w)
             \/ Finalize(w)
      PROVE  goal
  <2>1. \E result : EndRun(w, result)
    BY <1>6 DEF ReadFails, JournalFails, RefusalReplies, WorkerError, Finalize
  <2> QED
    BY <1>b, <2>1
<1>7. ASSUME StopItems(w) \/ \E t \in Subjects : SkipChanged(w, t) PROVE goal
  <2>1. PICK rest \in SUBSET run[w].todo : Becomes(w, [run[w] EXCEPT !.todo = rest])
    BY <1>7 DEF StopItems, SkipChanged
  <2>2. run[w].pc = "next" /\ [run[w] EXCEPT !.todo = rest] \in Run
    BY <1>7 DEF StopItems, SkipChanged, Run
  <2>3. run'[w].pc = "next"
    BY <2>1, <2>2, BecomesFacts DEF Run
  <2> QED
    BY <1>a, <2>3
<1>8. ASSUME NEW t \in Subjects, StartItem(w, t) PROVE goal
  <2> DEFINE r == [run[w] EXCEPT !.pc = "observing", !.subj = t]
  <2>1. r \in Run /\ r.pc = "observing" /\ r.job = run[w].job /\ r.subj = t
    BY DEF Run, Steps
  <2>2. run'[w] = r
    BY <1>8, <2>1, BecomesFacts DEF StartItem
  <2>3. item[run[w].job][t] = "pending"
    BY <1>8, ConstantsAssumption DEF StartItem, Head, InHand, ItemSteps, EffectSteps
  <2> QED
    BY <2>1, <2>2, <2>3
<1>9. ASSUME Observe(w) PROVE goal
  <2>1. PICK observed \in Observation :
           Becomes(w, [run[w] EXCEPT !.pc = "reserving", !.fresh = observed])
    <3>1. Did(run[w].job) \in Accounts /\ run[w].subj \in Subjects
      BY <1>9 DEF Observe, LocalOK, ItemSteps, Run, Did, AskTypeOK
    <3>2. Unknown \in Observation /\ remote[Did(run[w].job)][run[w].subj] \in Observation
      BY <3>1 DEF WorldTypeOK, Unknown, Observation
    <3> QED
      BY <1>9, <3>2 DEF Observe
  <2> DEFINE r == [run[w] EXCEPT !.pc = "reserving", !.fresh = observed]
  <2>2. r \in Run /\ r.pc = "reserving" /\ r.job = run[w].job /\ r.subj = run[w].subj
    BY DEF Run, Steps
  <2>3. run'[w] = r /\ run[w].pc = "observing"
    BY <1>9, <2>1, <2>2, BecomesFacts DEF Observe
  <2> QED
    BY <2>2, <2>3 DEF ItemSteps
<1>10. ASSUME Reserve(w) PROVE goal
  <2>1. run[w].pc = "reserving"
        /\ \/ \E result : EndRun(w, result)
           \/ Advance(w)
           \/ \E e \in Slots : Becomes(w, [run[w] EXCEPT !.pc = "journaling", !.slot = e])
    BY <1>10 DEF Reserve
  <2>2. ASSUME NEW e \in Slots, Becomes(w, [run[w] EXCEPT !.pc = "journaling", !.slot = e]) PROVE goal
    <3> DEFINE r == [run[w] EXCEPT !.pc = "journaling", !.slot = e]
    <3>1. r \in Run /\ r.pc = "journaling" /\ r.job = run[w].job /\ r.subj = run[w].subj
      BY DEF Run, Steps
    <3>2. run'[w] = r
      BY <2>2, <3>1, BecomesFacts
    <3> QED
      BY <2>1, <3>1, <3>2 DEF ItemSteps
  <2> QED
    BY <1>b, <1>c, <2>1, <2>2
<1>11. ASSUME \/ JournalCommits(w) \/ JournalReplies(w) \/ LastGate(w) \/ RefusalCommits(w)
              \/ Confirm(w) \/ DoubtCommits(w)
       PROVE  goal
  <2>1. run[w].pc \in ItemSteps /\ \E step \in Steps \ {"doubtful"} : GoTo(w, step)
    BY <1>11 DEF JournalCommits, JournalReplies, LastGate, RefusalCommits, Confirm, DoubtCommits,
       ItemSteps, EffectSteps, Steps
  <2> QED
    BY <1>d, <2>1
<1>12. ASSUME SettleFails(w) \/ \E applied, answered \in BOOLEAN : Write(w, applied, answered) PROVE goal
  <2>1. run[w].pc \in ItemSteps /\ \E step \in Steps : GoTo(w, step)
    BY <1>12 DEF SettleFails, Write, ItemSteps, EffectSteps, Steps
  <2> QED
    BY <1>12, <2>1, GoToFacts
<1>13. ASSUME Settle(w) \/ Doubt(w) PROVE goal
  BY <1>c, <1>13 DEF Settle, Doubt
<1>14. goal
  BY <1>2, <1>3, <1>4, <1>5, <1>6, <1>7, <1>8, <1>9, <1>10, <1>11, <1>12, <1>13 DEF Proceed
<1> QED
  BY <1>1, <1>14

\* The item in hand, its job and its account.
LEMMA HandTyped ==
    ASSUME TypeOK, NEW w \in Workers, run[w].pc \in ItemSteps
    PROVE  run[w].job \in Jobs /\ run[w].subj \in Subjects /\ Did(run[w].job) \in Accounts
BY DEF TypeOK, RunTypeOK, LocalOK, Run, Did, AskTypeOK, ItemSteps, EffectSteps

\* The journal and the ledger change for the item in hand alone.
LEMMA EngineStep ==
    ASSUME TypeOK, NEW w \in Workers, Start(w) \/ Crash(w) \/ Proceed(w)
    PROVE  \/ UNCHANGED <<attempt, ledger>>
           \/ /\ run[w].pc \in ItemSteps
              /\ \E entry \in AttemptStatus \ {"none"}, row \in LedgerStatus :
                    /\ attempt' = [attempt EXCEPT ![run[w].job][run[w].subj] = entry]
                    /\ ledger' = [ledger EXCEPT ![Did(run[w].job)][run[w].subj] = row]
<1> DEFINE j == run[w].job
           s == run[w].subj
           one == \E entry \in AttemptStatus \ {"none"}, row \in LedgerStatus :
                     /\ attempt' = [attempt EXCEPT ![j][s] = entry]
                     /\ ledger' = [ledger EXCEPT ![Did(j)][s] = row]
<1>1. ASSUME NEW success \in BOOLEAN, Finish(w, success) PROVE one
  BY <1>1 DEF Finish, AttemptStatus, LedgerStatus
<1>2. ASSUME JournalCommits(w) PROVE one /\ run[w].pc \in ItemSteps
  BY <1>2 DEF JournalCommits, AttemptStatus, LedgerStatus, ItemSteps, EffectSteps
<1> HIDE DEF one
<1>3. ASSUME RefusalCommits(w) \/ Settle(w) \/ DoubtCommits(w)
      PROVE  one /\ run[w].pc \in ItemSteps
  BY <1>1, <1>3 DEF RefusalCommits, Settle, DoubtCommits, ItemSteps, EffectSteps
<1>4. ASSUME SettleFails(w) PROVE UNCHANGED <<attempt, ledger>> \/ (one /\ run[w].pc \in ItemSteps)
  BY <1>1, <1>4 DEF SettleFails, engineVars, ItemSteps, EffectSteps
<1>5. \/ UNCHANGED <<attempt, ledger>>
      \/ JournalCommits(w) \/ RefusalCommits(w) \/ Settle(w) \/ DoubtCommits(w) \/ SettleFails(w)
  BY DEF engineVars, Proceed, Start, Crash, Claim, Preflight, Plan, ReadFails, StopItems, SkipChanged,
     StartItem, Observe, Reserve, JournalReplies, JournalFails, LastGate, RefusalReplies, WorkerError,
     Write, Confirm, Doubt, Finalize
<1> QED
  BY <1>2, <1>3, <1>4, <1>5 DEF one

\* What a proof is worth to later releases stays until its own run withdraws it.
LEMMA EarnedStays ==
    ASSUME TypeOK, OneWorker, WriteInv, JournalInv, NEW w \in Workers,
           Start(w) \/ Crash(w) \/ Proceed(w)
    PROVE  \A d, t : t \in Subjects /\ Earned(d, t) => Earned(d, t)'
<1> Books
  BY DEF JournalInv
<1>1. ASSUME NEW k \in Jobs, NEW t \in Subjects, attempt[k][t] = "confirmed", ~Held(k, t)
      PROVE  attempt'[k][t] = "confirmed" /\ ~Held(k, t)' /\ approval'[k] = approval[k]
  <2>1. item[k][t] # "pending"
    BY <1>1 DEF Books, BookOK
  <2>2. ~Held(k, t)'
    BY <1>1, <2>1, HandStep, HeldByOne
  <2>3. attempt'[k][t] = "confirmed"
    <3>1. CASE UNCHANGED attempt
      BY <1>1, <3>1
    <3>2. ASSUME run[w].pc \in ItemSteps, NEW entry,
                 attempt' = [attempt EXCEPT ![run[w].job][run[w].subj] = entry]
          PROVE  attempt'[k][t] = "confirmed"
      <4>1. k # run[w].job \/ t # run[w].subj
        BY <1>1, <3>2 DEF Held
      <4> QED
        BY <1>1, <3>2, <4>1, HandTyped DEF TypeOK, EngineTypeOK
    <3> QED
      BY <3>1, <3>2, EngineStep
  <2> QED
    BY <2>2, <2>3, HandStep
<1> QED
  BY <1>1, EarnedKept

Marked == {"attempting", "uncertain", "confirmed"}

\* The worker moves only items that wait, and marks none whose attempt is not open.
LEMMA ItemStep ==
    ASSUME TypeOK, WriteInv, JournalInv, NEW w \in Workers, Start(w) \/ Crash(w) \/ Proceed(w)
    PROVE  /\ ItemsGo
           /\ \A k \in Jobs, t \in Subjects :
                 item'[k][t] \in Marked => item[k][t] \in Marked \/ attempt[k][t] # "none"
<1> JobTypeOK /\ RunTypeOK /\ run[w] \in Run /\ LocalOK(run[w]) /\ InHand(w) /\ Running /\ InWork(w)
  BY DEF TypeOK, RunTypeOK, WriteInv, JournalInv
<1> DEFINE j == run[w].job
           s == run[w].subj
           good(k, t) ==
              /\ \/ item'[k][t] = item[k][t]
                 \/ item[k][t] \in {"pending", "attempting"} /\ item'[k][t] # "none"
              /\ item'[k][t] \in Marked => item[k][t] \in Marked \/ attempt[k][t] # "none"
           goal == \A k \in Jobs, t \in Subjects : good(k, t)
<1> USE DEF outside, jobVars
<1>i. run[w].pc \in ItemSteps => j \in Jobs /\ s \in Subjects
  BY HandTyped
<1>n. run[w].pc \notin {"stopped", "idle"} => j \in Jobs
  BY DEF LocalOK, Run
<1>a. ASSUME UNCHANGED item PROVE goal
  BY <1>a
<1>s. ASSUME NEW value \in {"skipped_changed", "skipped_cancelled"}, SkipPending(j, value),
             run[w].pc \notin {"stopped", "idle"}
      PROVE  goal
  BY <1>n, <1>s DEF SkipPending, JobTypeOK, Marked
<1>h. ASSUME run[w].pc \in ItemSteps, NEW value, SetItem(w, value), value # "none",
             value \in Marked => item[j][s] \in Marked \/ attempt[j][s] # "none"
      PROVE  goal
  <2>1. item[j][s] \in {"pending", "attempting"}
    BY <1>h DEF InHand, ItemSteps, EffectSteps, Before, Between, After
  <2>2. \A k \in Jobs, t \in Subjects : item'[k][t] = IF k = j /\ t = s THEN value ELSE item[k][t]
    BY <1>h, <1>i DEF SetItem, JobTypeOK
  <2> QED
    BY <1>h, <2>1, <2>2
<1>1. ASSUME Start(w) PROVE goal
  BY <1>1 DEF Start, Recover, Marked
<1>2. ASSUME Preflight(w) \/ StopItems(w) PROVE goal
  <2>1. /\ run[w].pc \notin {"stopped", "idle"}
        /\ \/ UNCHANGED item
           \/ \E value \in {"skipped_changed", "skipped_cancelled"} : SkipPending(j, value)
    BY <1>2 DEF Preflight, StopItems
  <2> QED
    BY <1>a, <1>s, <2>1
<1>3. ASSUME NEW t \in Subjects, SkipChanged(w, t) PROVE goal
  <2>1. item[j][t] = "pending" /\ j \in Jobs
    BY <1>3, <1>n, ConstantsAssumption DEF SkipChanged, Head, InHand, ItemSteps, EffectSteps
  <2> QED
    BY <1>3, <2>1 DEF SkipChanged, JobTypeOK, Marked
<1>4. ASSUME Reserve(w) PROVE goal
  <2>1. run[w].pc \in ItemSteps /\ (UNCHANGED item \/ SetItem(w, "skipped_changed"))
    BY <1>4 DEF Reserve, ItemSteps
  <2> QED
    BY <1>a, <1>h, <2>1 DEF Marked
<1>5. ASSUME JournalReplies(w) PROVE goal
  <2>1. run[w].pc \in ItemSteps /\ SetItem(w, "attempting") /\ attempt[j][s] # "none"
    BY <1>5 DEF JournalReplies, InWork, Journaled, ItemSteps, EffectSteps
  <2> QED
    BY <1>h, <2>1
<1>6. ASSUME RefusalReplies(w) PROVE goal
  <2>1. run[w].pc \in ItemSteps /\ SetItem(w, "pending")
    BY <1>6 DEF RefusalReplies, ItemSteps, EffectSteps
  <2> QED
    BY <1>h, <2>1 DEF Marked
<1>7. ASSUME Settle(w) \/ Doubt(w) PROVE goal
  <2>1. /\ run[w].pc \in ItemSteps /\ item[j][s] \in Marked
        /\ \E value \in {"confirmed", "uncertain"} : SetItem(w, value)
    BY <1>7 DEF Settle, Doubt, InHand, After, ItemSteps, EffectSteps, Marked
  <2> QED
    BY <1>h, <2>1
<1>8. \/ UNCHANGED item
      \/ Start(w) \/ Preflight(w) \/ StopItems(w) \/ (\E t \in Subjects : SkipChanged(w, t)) \/ Reserve(w)
      \/ JournalReplies(w) \/ RefusalReplies(w) \/ Settle(w) \/ Doubt(w)
  BY DEF Proceed, Crash, Claim, Plan, ReadFails, StartItem, Observe, JournalCommits, JournalFails, LastGate,
     RefusalCommits, WorkerError, Write, Confirm, SettleFails, DoubtCommits, Finalize
<1>9. goal
  BY <1>a, <1>1, <1>2, <1>3, <1>4, <1>5, <1>6, <1>7, <1>8
<1> QED
  BY <1>9 DEF ItemsGo

\* The extra invariant is kept by a step of the worker.
LEMMA EffectWorker ==
    ASSUME TypeOK, TypeOK', OneWorker, WriteInv, JournalInv, EffectInv, NEW w \in Workers,
           Start(w) \/ Crash(w) \/ Proceed(w)
    PROVE  EffectInv'
<1> EngineTypeOK /\ RunTypeOK /\ InWork(w) /\ Ahead(w) /\ Opened /\ ReleasesRest /\ Books /\ UnprovenSuspends
  BY DEF TypeOK, JournalInv, EffectInv
<1> approval' = approval
  BY HandStep
<1> DEFINE j == run[w].job
           s == run[w].subj
<1>1. \A k \in Jobs, t \in Subjects : attempt[k][t] # "none" => attempt'[k][t] # "none"
  <2>1. ASSUME run[w].pc \in ItemSteps, NEW entry \in AttemptStatus \ {"none"},
               attempt' = [attempt EXCEPT ![j][s] = entry]
        PROVE  \A k \in Jobs, t \in Subjects : attempt[k][t] # "none" => attempt'[k][t] # "none"
    BY <2>1, HandTyped DEF EngineTypeOK
  <2> QED
    BY <2>1, EngineStep
<1>2. Opened'
  BY <1>1, ItemStep DEF Opened, Marked
\* What is begun by this step was planned on a ledger row that an earlier proof earned.
<1>3. \A k \in Jobs, t \in Subjects :
          attempt[k][t] = "none" /\ attempt'[k][t] # "none" /\ approval[k].kind = "release"
              => Earned(Did(k), t)
  <2> SUFFICES ASSUME NEW k \in Jobs, NEW t \in Subjects, attempt[k][t] = "none",
                      attempt'[k][t] # "none", approval[k].kind = "release"
               PROVE  Earned(Did(k), t)
    OBVIOUS
  <2>1. run[w].pc \in ItemSteps /\ k = j /\ t = s
    <3>1. CASE UNCHANGED attempt
      BY <3>1
    <3>2. ASSUME run[w].pc \in ItemSteps, NEW entry, attempt' = [attempt EXCEPT ![j][s] = entry]
          PROVE  k = j /\ t = s
      BY <3>2, HandTyped DEF EngineTypeOK
    <3> QED
      BY <3>1, <3>2, EngineStep
  <2>2. run[w].pc \notin Journaled
    BY <2>1 DEF InWork
  <2>3. run[w].plan[s].ledger = "attributed" /\ s \in run[w].todo
    BY <2>1 DEF InWork, Proposes
  <2> QED
    BY <2>1, <2>3 DEF Ahead
<1>4. ReleasesRest'
  <2>1. ASSUME NEW k \in Jobs, NEW t \in Subjects, attempt'[k][t] # "none", approval[k].kind = "release"
        PROVE  Earned(Did(k), t)
    BY <1>3, <2>1 DEF ReleasesRest
  <2> QED
    BY <2>1, EarnedStays DEF ReleasesRest, Did
\* Only a run whose record was not answered is in doubt about a proof it made itself.
<1>5. LastWord'
  <2> SUFFICES ASSUME run'[w].pc = "doubtful", attempt'[run'[w].job][run'[w].subj] = "confirmed"
               PROVE  ledger'[approval'[run'[w].job].did][run'[w].subj] = Settles(approval'[run'[w].job].kind)
    <3>1. LastWordOf(w)'
      BY DEF LastWordOf, Did
    <3> QED
      BY <3>1 DEF OneWorker, LastWord
  <2>1. CASE \E applied, answered \in BOOLEAN : Write(w, applied, answered)
    <3>1. run[w].pc = "writing" /\ UNCHANGED attempt /\ run'[w].job = j /\ run'[w].subj = s
      BY <2>1, GoToFacts DEF Write, engineVars, Steps
    <3>2. attempt[j][s] = "pending"
      BY <3>1 DEF InWork, Journaled, EffectSteps
    <3> QED
      BY <3>1, <3>2
  <2>2. CASE SettleFails(w)
    <3>1. /\ run[w].pc \in {"proven", "unproven"} /\ run'[w].job = j /\ run'[w].subj = s
          /\ Finish(w, run[w].pc = "proven") \/ UNCHANGED engineVars
      BY <2>2, GoToFacts DEF SettleFails, Steps
    <3>2. attempt[j][s] = "pending" /\ j \in Jobs /\ s \in Subjects /\ Did(j) \in Accounts
      BY <3>1, HandTyped DEF InWork, Journaled, EffectSteps, ItemSteps
    <3>3. Finish(w, run[w].pc = "proven")
      BY <3>1, <3>2 DEF engineVars
    <3>4. run[w].pc = "proven"
      BY <3>1, <3>2, <3>3 DEF Finish, EngineTypeOK
    <3>5. ledger'[Did(j)][s] = Settles(approval[j].kind)
      BY <3>2, <3>3, <3>4 DEF Finish, EngineTypeOK, Settles
    <3> QED
      BY <3>1, <3>5 DEF Did
  <2> QED
    BY <2>1, <2>2, HandStep
<1> QED
  BY <1>2, <1>4, <1>5 DEF EffectInv

-----------------------------------------------------------------------------
\* A step that moves the entry in hand, its ledger row and its requests only.
OnlyInHand(w) ==
    /\ \A k \in Jobs, t \in Subjects : k # run[w].job \/ t # run[w].subj =>
          attempt'[k][t] = attempt[k][t] /\ writes'[k][t] = writes[k][t]
    /\ \A d \in Accounts, t \in Subjects : d # Did(run[w].job) \/ t # run[w].subj =>
          ledger'[d][t] = ledger[d][t]
    /\ UNCHANGED approval

HandMoved(j, s, d) ==
    /\ Asked' = Asked /\ E!Did(j) = d /\ Asked[j].kind = approval[j].kind
    /\ Reports[j][s] = "waiting" /\ Stages[j][s] = StageOf(attempt[j][s], writes[j][s])
    /\ Stages' = [Stages EXCEPT ![j][s] = StageOf(attempt'[j][s], writes'[j][s])]
    /\ Grounded[d][s] = GroundOf(ledger[d][s])
    /\ Grounded' = [Grounded EXCEPT ![d][s] = GroundOf(ledger'[d][s])]

LEMMA HandMoves ==
    ASSUME TypeOK, TypeOK', WriteInv, WriteInv', NEW w \in Workers, run[w].pc \in ItemSteps, OnlyInHand(w),
           NEW j \in Jobs, NEW s \in Subjects, NEW d \in Accounts,
           j = run[w].job, s = run[w].subj, d = Did(j)
    PROVE  HandMoved(j, s, d)
<1> InHand(w) /\ EffectsTyped /\ EffectsTyped'
  BY MappingTyped DEF WriteInv
<1>1. Asked' = Asked /\ E!Did(j) = d /\ Asked[j].kind = approval[j].kind
  BY DEF OnlyInHand, Asked, E!Did, Did
<1>2. item[j][s] \in {"pending", "attempting"}
  BY DEF InHand, ItemSteps, EffectSteps, Before, Between, After
<1>3. Reports[j][s] = "waiting" /\ Stages[j][s] = StageOf(attempt[j][s], writes[j][s])
      /\ Grounded[d][s] = GroundOf(ledger[d][s])
  BY <1>2, MappingFacts DEF Told
<1>4. Stages' = [Stages EXCEPT ![j][s] = StageOf(attempt'[j][s], writes'[j][s])]
  <2>1. \A k \in Jobs, t \in Subjects : k # j \/ t # s => Stages'[k][t] = Stages[k][t]
    BY MappingFacts DEF OnlyInHand
  <2>2. Stages' = [Stages EXCEPT ![j][s] = Stages'[j][s]]
    BY <2>1, OneStage
  <2> QED
    BY <2>2, MappingFacts
<1>5. Grounded' = [Grounded EXCEPT ![d][s] = GroundOf(ledger'[d][s])]
  <2>1. \A e \in Accounts, t \in Subjects : e # d \/ t # s => Grounded'[e][t] = Grounded[e][t]
    BY MappingFacts DEF OnlyInHand
  <2>2. Grounded' = [Grounded EXCEPT ![d][s] = Grounded'[d][s]]
    BY <2>1, OneGround
  <2> QED
    BY <2>2, MappingFacts
<1> QED
  BY <1>1, <1>3, <1>4, <1>5 DEF HandMoved

LEMMA GroundsTold ==
    /\ GroundOf("attributed") = "ours" /\ GroundOf("unresolved") = "suspended"
    /\ GroundOf("untracked") = "theirs" /\ GroundOf("released") = "theirs"
    /\ \A kind : GroundOf(Settles(kind)) = E!Leaves(kind)
BY DEF GroundOf, Settles, E!Leaves

\* The journal opens the attempt: an effect nobody began, on the ground the row the
\* user approved was planned on.
LEMMA OpenStep ==
    ASSUME TypeOK, TypeOK', WriteInv, WriteInv', JournalInv, NEW w \in Workers, JournalCommits(w), E!Answers
    PROVE  E!Next
<1> Ahead(w) /\ InWork(w) /\ InHand(w) /\ Unsent /\ Books /\ UnprovenSuspends /\ EngineTypeOK
  BY DEF JournalInv, WriteInv, TypeOK
<1>1. run[w].pc = "journaling" /\ run[w].pc \in ItemSteps /\ UNCHANGED <<approval, writes, remote>>
  BY DEF JournalCommits, outside, askVars, worldVars, ItemSteps, EffectSteps
<1>2. PICK j \in Jobs, s \in Subjects, d \in Accounts : j = run[w].job /\ s = run[w].subj /\ d = Did(j)
  BY <1>1, HandTyped
<1>3. item[j][s] = "pending" /\ writes[j][s] = 0
  BY <1>1, <1>2 DEF InHand, Before, Unsent
<1>4. s \in run[w].todo /\ Proposes(run[w].plan[s], approval[j].kind)
  BY <1>1, <1>2 DEF InWork
<1>5. run[w].plan[s].ledger = ledger[d][s]
  BY <1>1, <1>2, <1>4 DEF Ahead, Journaled
<1>6. attempt[j][s] = "none"
  <2>1. ledger[d][s] # "unresolved"
    BY <1>4, <1>5 DEF Proposes
  <2>2. attempt[j][s] \notin {"pending", "unresolved", "confirmed"}
    BY <1>2, <1>3, <2>1 DEF UnprovenSuspends, Books, BookOK
  <2> QED
    BY <1>2, <2>2 DEF EngineTypeOK, AttemptStatus
<1>7. GroundOf(ledger[d][s]) = E!Needs(approval[j].kind)
  <2>1. approval[j].kind = "release" => ledger[d][s] = "attributed"
    BY <1>4, <1>5 DEF Proposes
  <2>2. approval[j].kind # "release" => ledger[d][s] \in {"untracked", "released"}
    BY <1>2, <1>4, <1>5 DEF Proposes, EngineTypeOK, LedgerStatus
  <2> QED
    BY <2>1, <2>2, GroundsTold DEF E!Needs
<1>8. attempt'[j][s] = "pending" /\ ledger'[d][s] = "unresolved" /\ OnlyInHand(w)
  BY <1>1, <1>2 DEF JournalCommits, EngineTypeOK, OnlyInHand
<1>9. HandMoved(j, s, d)
  BY <1>1, <1>2, <1>8, HandMoves
<1>10. Stages[j][s] = "untouched" /\ Stages' = [Stages EXCEPT ![j][s] = "open"]
  <2>1. writes'[j][s] = 0 /\ StageOf("none", 0) = "untouched" /\ StageOf("pending", 0) = "open"
    BY <1>1, <1>3, StagesTold
  <2> QED
    BY <1>3, <1>6, <1>8, <1>9, <2>1 DEF HandMoved
<1>11. Grounded[d][s] = E!Needs(Asked[j].kind) /\ Grounded' = [Grounded EXCEPT ![d][s] = "suspended"]
  BY <1>7, <1>8, <1>9, GroundsTold DEF HandMoved
<1>12. Muted' = Muted
  BY <1>1 DEF Muted
<1>13. E!Open(j, s)
  BY <1>9, <1>10, <1>11, <1>12 DEF HandMoved, E!Open, E!Goes, E!Grounds
<1> QED
  BY <1>13 DEF E!Next

\* An entry set to what it is already.
LEMMA SameEntry ==
    ASSUME EffectsTyped, NEW j \in Jobs, NEW s \in Subjects, NEW d \in Accounts
    PROVE  /\ [Stages EXCEPT ![j][s] = Stages[j][s]] = Stages
           /\ [Grounded EXCEPT ![d][s] = Grounded[d][s]] = Grounded
BY DEF EffectsTyped

\* engine.finish, read as a step of the effect in hand.
LEMMA FinishMoves ==
    ASSUME TypeOK, TypeOK', WriteInv, WriteInv', NEW w \in Workers, run[w].pc \in ItemSteps,
           NEW success \in BOOLEAN, Finish(w, success), UNCHANGED <<approval, writes>>,
           NEW j \in Jobs, NEW s \in Subjects, NEW d \in Accounts,
           j = run[w].job, s = run[w].subj, d = Did(j)
    PROVE  /\ HandMoved(j, s, d)
           /\ attempt'[j][s] = IF success THEN "confirmed" ELSE "unresolved"
           /\ ledger'[d][s] = IF success THEN Settles(approval[j].kind) ELSE "unresolved"
<1> EngineTypeOK
  BY DEF TypeOK
<1>1. /\ attempt'[j][s] = IF success THEN "confirmed" ELSE "unresolved"
      /\ ledger'[d][s] = IF success THEN Settles(approval[j].kind) ELSE "unresolved"
  BY DEF Finish, EngineTypeOK, Settles
<1>2. OnlyInHand(w)
  BY DEF Finish, EngineTypeOK, OnlyInHand
<1> QED
  BY <1>1, <1>2, HandMoves

\* The last gate turned the effect back: it is closed in the journal, never sent.
LEMMA RefuseStep ==
    ASSUME TypeOK, TypeOK', WriteInv, WriteInv', JournalInv, NEW w \in Workers, RefusalCommits(w), E!Answers
    PROVE  E!Next
<1> InWork(w) /\ InHand(w) /\ UnprovenSuspends /\ EffectsTyped
  BY MappingTyped DEF JournalInv, WriteInv
<1>1. /\ run[w].pc = "refusing" /\ run[w].pc \in ItemSteps /\ run[w].pc \in Between
      /\ run[w].pc \in Journaled \ {"refused", "doubtful", "doubted"}
      /\ Finish(w, FALSE) /\ UNCHANGED <<approval, writes, remote>>
  BY DEF RefusalCommits, outside, askVars, worldVars, ItemSteps, EffectSteps, Between, Journaled
<1>2. PICK j \in Jobs, s \in Subjects, d \in Accounts : j = run[w].job /\ s = run[w].subj /\ d = Did(j)
  BY <1>1, HandTyped
<1>3. attempt[j][s] = "pending" /\ writes[j][s] = 0
  BY <1>1, <1>2 DEF InWork, InHand
<1>4. ledger[d][s] = "unresolved"
  BY <1>2, <1>3 DEF UnprovenSuspends
<1>5. HandMoved(j, s, d) /\ attempt'[j][s] = "unresolved" /\ ledger'[d][s] = "unresolved"
  <2>1. PICK success \in BOOLEAN : Finish(w, success) /\ ~success
    BY <1>1
  <2>2. HandMoved(j, s, d)
    BY <1>1, <1>2, <2>1, FinishMoves
  <2>3. attempt'[j][s] = "unresolved"
    BY <1>1, <1>2, <2>1, FinishMoves
  <2>4. ledger'[d][s] = "unresolved"
    BY <1>1, <1>2, <2>1, FinishMoves
  <2> QED
    BY <2>2, <2>3, <2>4
<1>6. Stages[j][s] = "open" /\ Stages' = [Stages EXCEPT ![j][s] = "refused"]
  <2>1. writes'[j][s] = 0 /\ StageOf("pending", 0) = "open" /\ StageOf("unresolved", 0) = "refused"
    BY <1>1, <1>3, StagesTold
  <2> QED
    BY <1>3, <1>5, <2>1 DEF HandMoved
<1>7. Grounded' = Grounded
  BY <1>4, <1>5, SameEntry DEF HandMoved
<1>8. Muted' = Muted
  BY <1>1 DEF Muted
<1>9. E!Refuse(j, s)
  BY <1>5, <1>6, <1>7, <1>8 DEF HandMoved, E!Refuse, E!Goes
<1> QED
  BY <1>9 DEF E!Next

\* The outcome of the one request is recorded: proved, still unproved, or a proof
\* nobody was told of taken back.
LEMMA OutcomeStep ==
    ASSUME TypeOK, TypeOK', OneWorker, WriteInv, WriteInv', JournalInv, EffectInv, NEW w \in Workers,
           NEW success \in BOOLEAN, Finish(w, success), UNCHANGED <<approval, writes, remote>>,
           run[w].pc \in {"proven", "unproven", "doubtful"}, success => run[w].pc = "proven", E!Answers
    PROVE  E!Next
<1> /\ InWork(w) /\ UnprovenSuspends /\ EffectsTyped /\ EngineTypeOK /\ Books
    /\ LastWordOf(w) /\ ReleasesRest
  BY MappingTyped DEF TypeOK, JournalInv, EffectInv, LastWord
<1>1. run[w].pc \in ItemSteps /\ run[w].pc \in After /\ run[w].pc \in Journaled
  BY DEF ItemSteps, EffectSteps, After, Journaled
<1>2. PICK j \in Jobs, s \in Subjects, d \in Accounts : j = run[w].job /\ s = run[w].subj /\ d = Did(j)
  BY <1>1, HandTyped
<1>3. writes[j][s] = 1 /\ attempt[j][s] # "none" /\ (run[w].pc # "doubtful" => attempt[j][s] = "pending")
  BY <1>1, <1>2 DEF InWork
<1>4. /\ HandMoved(j, s, d)
      /\ attempt'[j][s] = IF success THEN "confirmed" ELSE "unresolved"
      /\ ledger'[d][s] = IF success THEN Settles(approval[j].kind) ELSE "unresolved"
  BY <1>1, <1>2, FinishMoves
<1>5. /\ writes'[j][s] = 1 /\ StageOf("confirmed", 1) = "proved"
      /\ StageOf("pending", 1) = "sent" /\ StageOf("unresolved", 1) = "sent"
  BY <1>3, StagesTold DEF Unproven
<1>6. Muted' = Muted
  BY DEF Muted
<1>7. CASE success
  <2>1. Stages[j][s] = "sent" /\ Stages' = [Stages EXCEPT ![j][s] = "proved"]
    BY <1>3, <1>4, <1>5, <1>7 DEF HandMoved
  <2>2. Grounded' = [Grounded EXCEPT ![d][s] = E!Leaves(Asked[j].kind)]
    <3>1. ledger'[d][s] = Settles(approval[j].kind)
      BY <1>4, <1>7
    <3>2. GroundOf(ledger'[d][s]) = E!Leaves(Asked[j].kind)
      BY <1>4, <3>1, GroundsTold DEF HandMoved
    <3> QED
      BY <1>4, <3>2 DEF HandMoved
  <2>3. E!Prove(j, s)
    BY <1>4, <1>6, <2>1, <2>2 DEF HandMoved, E!Prove, E!Goes, E!Grounds
  <2> QED
    BY <2>3 DEF E!Next
<1>8. CASE ~success /\ attempt[j][s] # "confirmed"
  <2>1. attempt[j][s] \in Unproven /\ ledger[d][s] = "unresolved"
    BY <1>2, <1>3, <1>8 DEF EngineTypeOK, AttemptStatus, Unproven, UnprovenSuspends
  <2>2. Stages' = Stages
    BY <1>3, <1>4, <1>5, <1>8, <2>1, SameEntry DEF HandMoved, Unproven
  <2>3. Grounded' = Grounded
    BY <1>4, <1>8, <2>1, SameEntry DEF HandMoved
  <2>4. E!Answered
    BY <1>4, <1>6, <2>2, <2>3 DEF HandMoved, E!Answered
  <2> QED
    BY <2>4 DEF E!Next
<1>9. CASE ~success /\ attempt[j][s] = "confirmed"
  <2>1. ledger[d][s] = Settles(approval[j].kind)
    BY <1>2, <1>3, <1>9 DEF LastWordOf
  <2>2. Stages[j][s] = "proved" /\ Stages' = [Stages EXCEPT ![j][s] = "sent"]
    BY <1>3, <1>4, <1>5, <1>9 DEF HandMoved
  <2>3. /\ Grounded[d][s] = E!Leaves(Asked[j].kind)
        /\ Grounded' = [Grounded EXCEPT ![d][s] = "suspended"]
    BY <1>4, <1>9, <2>1, GroundsTold DEF HandMoved
  <2>4. ASSUME NEW c \in Jobs, E!Did(c) = E!Did(j), Asked[c].kind = "release", Stages[c][s] # "untouched"
        PROVE  \E a \in Jobs \ {j} : /\ E!Did(a) = E!Did(j) /\ Asked[a].kind # "release"
                                     /\ Stages[a][s] = "proved"
    <3>1. \A k \in Jobs : E!Did(k) = Did(k) /\ Asked[k].kind = approval[k].kind
      BY DEF E!Did, Asked, Did
    <3>2. attempt[c][s] # "none"
      BY <2>4, OneRequest, MappingFacts, StagesTold
    <3>3. PICK a \in Jobs : /\ Did(a) = Did(c) /\ approval[a].kind # "release"
                            /\ attempt[a][s] = "confirmed" /\ ~Held(a, s)
      BY <2>4, <3>1, <3>2 DEF ReleasesRest, Earned
    <3>4. a # j
      BY <1>1, <1>2, <3>3 DEF Held
    <3>5. Stages[a][s] = "proved"
      BY <3>3, OneRequest, MappingFacts, StagesTold
    <3> QED
      BY <2>4, <3>1, <3>3, <3>4, <3>5
  <2>5. E!Withdraw(j, s)
    BY <1>4, <1>6, <2>2, <2>3, <2>4 DEF HandMoved, E!Withdraw, E!Goes, E!Grounds
  <2> QED
    BY <2>5 DEF E!Next
<1> QED
  BY <1>7, <1>8, <1>9

\* The one request leaves: an open effect, within the limits of the day.
LEMMA SendStep ==
    ASSUME TypeOK, TypeOK', WriteInv, WriteInv', JournalInv, Books', WritesWithinBudget',
           NEW w \in Workers, NEW applied \in BOOLEAN, NEW answered \in BOOLEAN,
           Write(w, applied, answered)
    PROVE  E!Next
<1> /\ InWork(w) /\ InHand(w) /\ EffectsTyped /\ EffectsTyped' /\ WorldTypeOK
    /\ EngineTypeOK' /\ WorldTypeOK'
  BY MappingTyped DEF JournalInv, WriteInv, TypeOK
<1>1. /\ run[w].pc = "writing" /\ run[w].pc \in ItemSteps /\ run[w].pc \in Between
      /\ run[w].pc \in Journaled \ {"refused", "doubtful", "doubted"}
      /\ UNCHANGED <<approval, attempt, ledger, item>>
  BY DEF Write, askVars, jobVars, engineVars, ItemSteps, EffectSteps, Between, Journaled
<1>2. PICK j \in Jobs, s \in Subjects, d \in Accounts : j = run[w].job /\ s = run[w].subj /\ d = Did(j)
  BY <1>1, HandTyped
<1>3. attempt[j][s] = "pending" /\ writes[j][s] = 0
  BY <1>1, <1>2 DEF InWork, InHand
<1>4. writes'[j][s] = 1 /\ OnlyInHand(w)
  BY <1>1, <1>2, <1>3 DEF Write, OnlyInHand, WorldTypeOK
<1>5. HandMoved(j, s, d)
  BY <1>1, <1>2, <1>4, HandMoves
<1>6. Stages[j][s] = "open" /\ Stages' = [Stages EXCEPT ![j][s] = "sent"]
  <2>1. StageOf("pending", 0) = "open" /\ StageOf("pending", 1) = "sent"
    BY StagesTold DEF Unproven
  <2> QED
    BY <1>1, <1>3, <1>4, <1>5, <2>1 DEF HandMoved
<1>7. Grounded' = Grounded /\ Reports' = Reports
  BY <1>1 DEF Grounded, Reports
<1>8. Muted' = IF applied THEN [Muted EXCEPT ![d][s] = (Asked[j].kind # "release")] ELSE Muted
  <2>1. CASE applied
    <3>1. remote' = [remote EXCEPT ![d][s].direct = (approval[j].kind # "release")]
      BY <1>2, <2>1 DEF Write
    <3>2. \A e \in Accounts, t \in Subjects : remote'[e][t].direct =
              IF e = d /\ t = s THEN approval[j].kind # "release" ELSE remote[e][t].direct
      BY <3>1 DEF WorldTypeOK, Observation
    <3>3. Muted' = [Muted EXCEPT ![d][s] = Muted'[d][s]]
      BY <3>2, OneMute, MappingFacts
    <3>4. Muted'[d][s] = (Asked[j].kind # "release")
      BY <3>2, <1>5, MappingFacts DEF HandMoved
    <3> QED
      BY <2>1, <3>3, <3>4
  <2>2. CASE ~applied
    BY <2>2 DEF Write, Muted
  <2> QED
    BY <2>1, <2>2
<1>9. \A k \in Jobs, t \in Subjects :
          Stages'[k][t] \in {"sent", "proved"} => writes'[k][t] > 0
  <2> SUFFICES ASSUME NEW k \in Jobs, NEW t \in Subjects, writes'[k][t] = 0
               PROVE  Stages'[k][t] \notin {"sent", "proved"}
    BY DEF WorldTypeOK
  <2>1. attempt'[k][t] \in AttemptStatus \ {"confirmed"}
    BY DEF Books, BookOK, EngineTypeOK
  <2> QED
    BY <2>1, MappingFacts, StagesTold DEF AttemptStatus
<1>10. Cardinality(E!Sent') <= EffectsGlobalDay /\ Cardinality(E!SentBy(d)') <= EffectsPerDidDay
  <2> DEFINE sent == {i \in Items : writes'[i[1]][i[2]] > 0}
             own == {i \in sent : Did(i[1])' = d}
  <2>1. Cardinality(sent) <= EffectsGlobalDay /\ Cardinality(own) <= EffectsPerDidDay
    BY DEF WritesWithinBudget
  <2>2. E!Sent' \subseteq sent
    BY <1>9 DEF E!Sent, E!Effects, Items
  <2>3. E!SentBy(d)' \subseteq own
    <3>1. \A i \in Items : Asked'[i[1]].did = approval'[i[1]].did
      BY DEF Asked, Did, Items
    <3>2. \A i \in E!Sent' : i \in sent /\ i \in Items
      BY <2>2
    <3> HIDE DEF sent
    <3>3. \A i \in E!SentBy(d)' : i \in E!Sent' /\ Asked'[i[1]].did = d
      BY DEF E!SentBy, E!Did
    <3> QED
      BY <3>1, <3>2, <3>3 DEF Did
  <2>4. sent \in SUBSET (Jobs \X Subjects) /\ own \in SUBSET (Jobs \X Subjects)
    BY DEF Items
  <2>5. E!Sent' \in SUBSET (Jobs \X Subjects) /\ E!SentBy(d)' \in SUBSET (Jobs \X Subjects)
    BY <2>2, <2>3, <2>4
  <2> HIDE DEF sent, own
  <2>6. /\ Cardinality(E!Sent') \in Nat /\ Cardinality(sent) \in Nat
        /\ Cardinality(E!Sent') <= Cardinality(sent)
    BY <2>2, <2>4, <2>5, EffectsCounted
  <2>7. /\ Cardinality(E!SentBy(d)') \in Nat /\ Cardinality(own) \in Nat
        /\ Cardinality(E!SentBy(d)') <= Cardinality(own)
    BY <2>3, <2>4, <2>5, EffectsCounted
  <2> QED
    BY <2>1, <2>6, <2>7, ConstantsAssumption
<1>11. E!Send(j, s, applied)
  <2>1. E!Goes(j, s, "open", "sent")
    BY <1>5, <1>6 DEF HandMoved, E!Goes
  <2>2. E!Cardinality(E!Sent') <= EffectsGlobalDay
    BY <1>10, EffectsCounted
  <2>3. E!Cardinality(E!SentBy(E!Did(j))') <= EffectsPerDidDay
    BY <1>5, <1>10, EffectsCounted DEF HandMoved, E!SentBy, E!Did
  <2>4. E!Did(j) = d
    BY <1>5 DEF HandMoved
  <2> QED
    BY <1>7, <1>8, <2>1, <2>2, <2>3, <2>4 DEF E!Send
<1> QED
  BY <1>11 DEF E!Next

\* Every step of the worker is a step of the promised service, or none.
LEMMA WorkerFollows ==
    ASSUME TypeOK, TypeOK', OneWorker, WriteInv, WriteInv', JournalInv, JournalInv', EffectInv,
           WritesWithinBudget', NEW w \in Workers, Start(w) \/ Crash(w) \/ Proceed(w)
    PROVE  E!Next
<1>1. EffectInv' /\ Books'
  BY EffectWorker DEF JournalInv
<1>2. ItemsGo /\ approval' = approval
  BY ItemStep, HandStep
<1>3. E!Answers
  BY <1>1, <1>2, AnswersFollow DEF EffectInv
<1> USE DEF outside, worldVars, askVars
<1>4. ASSUME UNCHANGED <<attempt, writes, ledger, remote>> PROVE E!Next
  BY <1>1, <1>2, <1>4, CalmAnswers DEF EffectInv
<1>5. ASSUME NEW success \in BOOLEAN, Finish(w, success), UNCHANGED <<writes, remote>>,
             run[w].pc \in {"proven", "unproven", "doubtful"}, success => run[w].pc = "proven"
      PROVE  E!Next
  BY <1>2, <1>3, <1>5, OutcomeStep
<1>6. ASSUME JournalCommits(w) PROVE E!Next
  BY <1>3, <1>6, OpenStep
<1>7. ASSUME RefusalCommits(w) PROVE E!Next
  BY <1>3, <1>7, RefuseStep
<1>8. ASSUME NEW applied \in BOOLEAN, NEW answered \in BOOLEAN, Write(w, applied, answered) PROVE E!Next
  BY <1>1, <1>8, SendStep
<1>9. ASSUME Settle(w) \/ DoubtCommits(w) PROVE E!Next
  <2>1. /\ UNCHANGED <<writes, remote>> /\ run[w].pc \in {"proven", "unproven", "doubtful"}
        /\ \E success \in BOOLEAN : Finish(w, success) /\ (success => run[w].pc = "proven")
    BY <1>9 DEF Settle, DoubtCommits
  <2> QED
    BY <1>5, <2>1
<1>10. ASSUME SettleFails(w) PROVE E!Next
  <2>1. /\ UNCHANGED <<writes, remote>> /\ run[w].pc \in {"proven", "unproven"}
        /\ \/ \E success \in BOOLEAN : Finish(w, success) /\ (success => run[w].pc = "proven")
           \/ UNCHANGED <<attempt, ledger>>
    BY <1>10 DEF SettleFails, engineVars
  <2> QED
    BY <1>4, <1>5, <2>1
<1>11. \/ UNCHANGED <<attempt, writes, ledger, remote>>
       \/ JournalCommits(w) \/ RefusalCommits(w)
       \/ (\E applied, answered \in BOOLEAN : Write(w, applied, answered))
       \/ Settle(w) \/ DoubtCommits(w) \/ SettleFails(w)
  BY DEF engineVars, Proceed, Start, Crash, Claim, Preflight, Plan, ReadFails, StopItems, SkipChanged,
     StartItem, Observe, Reserve, JournalReplies, JournalFails, LastGate, RefusalReplies, WorkerError,
     Confirm, Doubt, Finalize
<1> QED
  BY <1>4, <1>6, <1>7, <1>8, <1>9, <1>10, <1>11

-----------------------------------------------------------------------------
\* The user, the operator and the network leave the journal alone.
LEMMA AroundSteps ==
    ASSUME Web \/ Operator \/ World
    PROVE  /\ UNCHANGED <<run, ledger, attempt, writes>>
           /\ \/ UNCHANGED <<approval, item, remote>>
              \/ \E p \in Previews, kind \in Kinds, batch \in SUBSET Subjects : Approve(p, kind, batch)
              \/ \E d \in Accounts, s \in Subjects, observed \in Observation : ChangeRemote(d, s, observed)
<1> USE DEF workVars, engineVars, worldVars, jobVars, askVars
<1>1. ASSUME Web PROVE \/ UNCHANGED <<run, ledger, attempt, writes, approval, item, remote>>
                       \/ \E p \in Previews, kind \in Kinds, batch \in SUBSET Subjects : Approve(p, kind, batch)
  BY <1>1 DEF Web, TakePreview, Disconnect, SignIn, RequestDeletion, EditPolicy, CancelJob
<1>2. ASSUME Operator PROVE UNCHANGED <<run, ledger, attempt, writes, approval, item, remote>>
  BY <1>2 DEF Operator, SetWrites, SetMaintenance, SetAccountWrites, Resume
<1>3. ASSUME World
      PROVE  \/ UNCHANGED <<run, ledger, attempt, writes, approval, item, remote>>
             \/ \E d \in Accounts, s \in Subjects, observed \in Observation : ChangeRemote(d, s, observed)
  BY <1>3 DEF World, ExpirePreview, DelayOver, ChangeVerdict
<1>4. ASSUME NEW p, NEW kind, NEW batch, Approve(p, kind, batch)
      PROVE  UNCHANGED <<run, ledger, attempt, writes>>
  BY <1>4 DEF Approve
<1>5. ASSUME NEW d, NEW s, NEW observed, ChangeRemote(d, s, observed)
      PROVE  UNCHANGED <<run, ledger, attempt, writes>>
  BY <1>5 DEF ChangeRemote
<1> QED
  BY <1>1, <1>2, <1>3, <1>4, <1>5

\* An approval fills a job nobody approved, whose items nobody began.
Fills(j, d, kind, batch) ==
    /\ \A s \in Subjects : item[j][s] = "none" /\ attempt[j][s] = "none"
    /\ \A w \in Workers : run[w].job # j
    /\ \A k \in Jobs \ {j} : approval'[k] = approval[k] /\ item'[k] = item[k]
    /\ approval'[j].did = d /\ approval'[j].kind = kind
    /\ item'[j] = [s \in Subjects |-> IF s \in batch THEN "pending" ELSE "none"]

LEMMA ApproveFills ==
    ASSUME TypeOK, WriteInv, JournalInv, NEW p \in Previews, NEW kind \in Kinds,
           NEW batch \in SUBSET Subjects, Approve(p, kind, batch)
    PROVE  /\ preview[p].did \in Accounts
           /\ \E j \in Jobs : Fills(j, preview[p].did, kind, batch)
<1> AskTypeOK /\ JobTypeOK /\ ApprovedOK /\ Unsent /\ Books
  BY DEF TypeOK, WriteInv, JournalInv
<1> DEFINE d == preview[p].did
<1>1. d \in Accounts
  BY DEF AskTypeOK
<1>2. PICK j \in Jobs :
          /\ status[j] = "absent"
          /\ approval' = [approval EXCEPT ![j] = [did |-> d, preview |-> p, kind |-> kind]]
          /\ item' = [item EXCEPT ![j] = [s \in Subjects |->
                         IF s \in batch THEN "pending" ELSE "none"]]
  BY DEF Approve
<1>3. \A s \in Subjects : item[j][s] = "none" /\ attempt[j][s] = "none"
  BY <1>2 DEF Unsent, Books, BookOK
<1>4. \A w \in Workers : run[w].job # j
  <2> SUFFICES ASSUME NEW w \in Workers, run[w].job = j PROVE FALSE
    OBVIOUS
  <2>1. run[w].job # 0
    BY ConstantsAssumption DEF Jobs
  <2> QED
    BY <1>2, <2>1 DEF ApprovedOK
<1>5. Fills(j, d, kind, batch)
  BY <1>2, <1>3, <1>4 DEF Fills, AskTypeOK, JobTypeOK
<1> QED
  BY <1>1, <1>5

\* The extra invariant is kept by what the user, the operator and the network do.
LEMMA EffectAround ==
    ASSUME TypeOK, WriteInv, JournalInv, EffectInv, Web \/ Operator \/ World
    PROVE  EffectInv'
<1> Opened /\ LastWord /\ ReleasesRest /\ UNCHANGED <<run, ledger, attempt, writes>>
  BY AroundSteps DEF EffectInv
<1>1. ASSUME UNCHANGED <<approval, item>> PROVE EffectInv'
  BY <1>1 DEF EffectInv, Opened, LastWord, LastWordOf, ReleasesRest, Earned, Held, Did
<1>2. ASSUME NEW p \in Previews, NEW kind \in Kinds, NEW batch \in SUBSET Subjects,
             Approve(p, kind, batch)
      PROVE  EffectInv'
  <2>1. PICK j \in Jobs : Fills(j, preview[p].did, kind, batch)
    BY <1>2, ApproveFills
  <2>2. Opened'
    BY <2>1 DEF Opened, Fills
  <2>3. \A k \in Jobs, t \in Subjects : attempt[k][t] # "none" => approval'[k] = approval[k]
    BY <2>1 DEF Fills
  <2>4. \A d, t : t \in Subjects /\ Earned(d, t) => Earned(d, t)'
    <3>1. \A k, t : Held(k, t)' <=> Held(k, t)
      BY DEF Held
    <3> QED
      BY <2>3, <3>1, EarnedKept
  <2>5. ReleasesRest'
    BY <2>3, <2>4 DEF ReleasesRest, Did
  <2>6. LastWord'
    <3> SUFFICES ASSUME NEW w \in Workers PROVE LastWordOf(w)'
      BY DEF LastWord
    <3>1. CASE run[w].pc # "doubtful"
      BY <3>1 DEF LastWordOf
    <3>2. CASE run[w].pc = "doubtful"
      <4>1. run[w].job \in Jobs /\ run[w].job # j
        BY <2>1, <3>2, HandTyped DEF Fills, ItemSteps, EffectSteps
      <4>2. approval'[run[w].job] = approval[run[w].job]
        BY <2>1, <4>1 DEF Fills
      <4>3. LastWordOf(w)
        BY DEF LastWord
      <4> QED
        BY <4>2, <4>3 DEF LastWordOf, Did
    <3> QED
      BY <3>1, <3>2
  <2> QED
    BY <2>2, <2>5, <2>6 DEF EffectInv
<1>3. ASSUME NEW d, NEW s, NEW observed, ChangeRemote(d, s, observed) PROVE UNCHANGED <<approval, item>>
  BY <1>3 DEF ChangeRemote, askVars, jobVars
<1> QED
  BY <1>1, <1>2, <1>3, AroundSteps

\* An approval asks for effects nobody began, and finds room in the queue.
LEMMA ApproveFollows ==
    ASSUME TypeOK, TypeOK', WriteInv, WriteInv', JournalInv, NEW p \in Previews, NEW kind \in Kinds,
           NEW batch \in SUBSET Subjects, Approve(p, kind, batch)
    PROVE  E!Next
<1> EffectsTyped /\ EffectsTyped' /\ UNCHANGED <<ledger, attempt, writes, remote>>
  BY MappingTyped DEF Approve, workVars, engineVars, worldVars
<1>1. PICK d \in Accounts, j \in Jobs : d = preview[p].did /\ Fills(j, d, kind, batch)
  BY ApproveFills
<1>2. \A s \in Subjects : Reports[j][s] = "none"
  BY <1>1, MappingFacts DEF Fills, Told
<1>3. batch # {} /\ Capacity(d, Cardinality(batch))
  BY <1>1 DEF Approve
<1>4. E!Waiting = OpenItems
  <2>1. \A v : Told(v) = "waiting" <=> v \in {"pending", "attempting", "waiting"}
    BY DEF Told
  <2>2. \A k \in Jobs, t \in Subjects : item[k][t] # "waiting"
    BY DEF TypeOK, JobTypeOK, ItemStatus
  <2> QED
    BY <2>1, <2>2, MappingFacts DEF E!Waiting, E!Effects, OpenItems
<1>5. /\ E!Cardinality(batch) <= ActionBatchMax
      /\ E!Cardinality(E!Waiting) + E!Cardinality(batch) <= QueuedActionsGlobal
  BY <1>3, <1>4, EffectsCounted DEF Capacity
<1>6. Asked' = [Asked EXCEPT ![j] = [did |-> d, kind |-> kind]]
  BY <1>1 DEF Fills, Asked, Did
<1>7. Reports' = [Reports EXCEPT ![j] = [s \in Subjects |->
                                            IF s \in batch THEN "waiting" ELSE "none"]]
  <2>1. \A s \in Subjects : Reports'[j][s] = IF s \in batch THEN "waiting" ELSE "none"
    BY <1>1, MappingFacts DEF Fills, Told
  <2>2. \A k \in Jobs \ {j}, s \in Subjects : Reports'[k][s] = Reports[k][s]
    BY <1>1, MappingFacts DEF Fills
  <2> QED
    BY <2>1, <2>2 DEF EffectsTyped
<1>8. Stages' = Stages /\ Grounded' = Grounded /\ Muted' = Muted
  BY DEF Stages, Grounded, Muted
<1>9. E!Approve(j, d, kind, batch)
  BY <1>2, <1>3, <1>5, <1>6, <1>7, <1>8 DEF E!Approve
<1> QED
  BY <1>9 DEF E!Next, Kinds, E!Kinds

\* What the user, the operator and the network do is a step of the promised service,
\* or none: a follow that changes is nothing to it.
LEMMA AroundFollows ==
    ASSUME TypeOK, TypeOK', WriteInv, WriteInv', JournalInv, JournalInv', EffectInv,
           Web \/ Operator \/ World
    PROVE  [E!Next]_E!vars
<1> EffectsTyped /\ EffectsTyped' /\ UNCHANGED <<run, ledger, attempt, writes>>
  BY MappingTyped, AroundSteps
<1>1. ASSUME UNCHANGED <<approval, item, remote>> PROVE UNCHANGED E!vars
  BY <1>1 DEF E!vars, Asked, Stages, Reports, Grounded, Muted, Did
<1>2. ASSUME NEW d \in Accounts, NEW s \in Subjects, NEW observed \in Observation,
             ChangeRemote(d, s, observed)
      PROVE  [E!Next]_E!vars
  <2>1. UNCHANGED <<approval, item>> /\ remote' = [remote EXCEPT ![d][s] = observed]
    BY <1>2 DEF ChangeRemote, askVars, jobVars
  <2>2. Asked' = Asked /\ Stages' = Stages /\ Reports' = Reports /\ Grounded' = Grounded
    BY <2>1 DEF Asked, Stages, Reports, Grounded, Did
  <2>3. \A e \in Accounts, t \in Subjects : e # d \/ t # s => Muted'[e][t] = Muted[e][t]
    BY <2>1, MappingFacts DEF TypeOK, WorldTypeOK
  <2>4. Muted' = [Muted EXCEPT ![d][s] = Muted'[d][s]]
    BY <2>3, OneMute
  <2>5. Muted[d][s] \in BOOLEAN /\ Muted'[d][s] \in BOOLEAN
    BY DEF EffectsTyped
  <2>6. CASE Muted'[d][s] = Muted[d][s]
    <3>1. Muted' = Muted
      BY <2>4, <2>6 DEF EffectsTyped
    <3> QED
      BY <2>2, <3>1 DEF E!vars
  <2>7. CASE Muted'[d][s] # Muted[d][s]
    <3>1. Muted'[d][s] = ~Muted[d][s]
      BY <2>5, <2>7
    <3>2. E!Elsewhere(d, s)
      BY <2>2, <2>4, <3>1 DEF E!Elsewhere
    <3> QED
      BY <3>2 DEF E!Next
  <2> QED
    BY <2>6, <2>7
<1> QED
  BY <1>1, <1>2, ApproveFollows, AroundSteps

LEMMA EffectInit == Init => EffectInv /\ E!Init
<1> SUFFICES ASSUME Init PROVE EffectInv /\ E!Init
  OBVIOUS
<1>1. EffectInv
  BY DEF Init, EffectInv, Opened, LastWord, LastWordOf, ReleasesRest, Stopped, Idle
<1>2. TypeOK /\ EffectsTyped
  BY TypeInit, WriteInit, MappingTyped
<1>3. Stages = [b \in Jobs |-> [s \in Subjects |-> "untouched"]]
  BY DEF Init, Stages, StageOf
<1>4. Reports = [b \in Jobs |-> [s \in Subjects |-> "none"]]
  BY DEF Init, Reports, Told
<1>5. Grounded = [d \in Accounts |-> [s \in Subjects |-> "theirs"]]
  BY DEF Init, Grounded, GroundOf
<1> QED
  BY <1>1, <1>2, <1>3, <1>4, <1>5 DEF E!Init, EffectsTyped

\* The hosted pipeline implements ApprovedEffects: whatever the worker's order of
\* steps, its crashes between them, a journal or a network that does not answer
\* (worker.ts, engine.ts) and whatever the user and the operator do meanwhile, every
\* step is one the promised service may take, or changes nothing of it.
THEOREM PipelineKeepsPromises == OneWorker => (Spec => EffectsAsApproved)
<1> SUFFICES ASSUME OneWorker PROVE Spec => EffectsAsApproved
  OBVIOUS
<1> DEFINE Strong == TypeOK /\ WriteInv /\ JournalInv
<1>1. Init => EffectInv /\ E!Init
  BY EffectInit
<1>2. Strong /\ Strong' /\ EffectInv /\ WritesWithinBudget' /\ [Next]_vars
          => EffectInv' /\ [E!Next]_E!vars
  <2> SUFFICES ASSUME TypeOK, WriteInv, JournalInv, TypeOK', WriteInv', JournalInv', EffectInv,
                      WritesWithinBudget', [Next]_vars
               PROVE  EffectInv' /\ [E!Next]_E!vars
    OBVIOUS
  <2>1. CASE UNCHANGED vars
    <3>1. UNCHANGED <<approval, item, ledger, attempt, writes, remote, run>>
      BY <2>1 DEF vars, askVars, jobVars, engineVars, worldVars
    <3>2. EffectInv'
      BY <3>1 DEF EffectInv, Opened, LastWord, LastWordOf, ReleasesRest, Earned, Held, Did
    <3>3. UNCHANGED E!vars
      BY <3>1 DEF E!vars, Asked, Stages, Reports, Grounded, Muted, Did
    <3> QED
      BY <3>2, <3>3
  <2>2. CASE Web \/ Operator \/ World
    BY <2>2, EffectAround, AroundFollows
  <2>3. ASSUME NEW w \in Workers, Start(w) \/ Crash(w) \/ Proceed(w)
        PROVE  EffectInv' /\ [E!Next]_E!vars
    BY <2>3, EffectWorker, WorkerFollows
  <2> QED
    BY <2>1, <2>2, <2>3 DEF Next
<1>3. Spec => []Strong /\ []WritesWithinBudget
  BY JournalHolds, BudgetKept
<1> QED
  BY <1>1, <1>2, <1>3, PTL DEF Spec, EffectsAsApproved, E!Spec

\* What ApprovedEffects promises therefore holds of the pipeline: at most one batch of
\* an account has a begun and unproved effect on a subject, and the ledger row of the
\* subject is unresolved exactly so long (worker.ts: engine.begin to engine.finish).
THEOREM OneEffectAtATime == OneWorker => (Spec => []E!OneAtATime)
BY PipelineKeepsPromises, EffectsPromised, PTL DEF EffectsAsApproved

\* No release is begun, and no ledger row claims a mute, without an effect of the same
\* account that is proved to have put it there.
THEOREM OwnMutesReleased == OneWorker => (Spec => []E!OwnMutesOnly)
BY PipelineKeepsPromises, EffectsPromised, PTL DEF EffectsAsApproved

\* In every state the queue of waiting items and the requests of the day are within
\* their limits, and each item a user is shown as settled says what its attempt and its
\* requests say (job_items against attempts: confirmed, uncertain or never sent).
THEOREM PromisesHold == OneWorker => (Spec => []E!PromisesKept)
BY PipelineKeepsPromises, EffectsPromised, PTL DEF EffectsAsApproved
=============================================================================
