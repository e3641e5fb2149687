------------------------- MODULE AccountRulesProofs -------------------------
(***************************************************************************)
(* Theorems about the account rules, for any number of requests of the web *)
(* and worker processes, any rules and any bounds.                         *)
(***************************************************************************)
EXTENDS AccountRules, FiniteSetTheorems, SequenceTheorems, TLAPS

\* What is proved of the scheduler, for the requests of the two processes.
BP == INSTANCE BridgeProofs WITH Calls <- Requests

(***************************************************************************)
(* The requests use the bridge the way Bridge says, so that its theorems   *)
(* hold here.                                                              *)
(***************************************************************************)

LEMMA SameFinite == ASSUME NEW S PROVE BP!IsFiniteSet(S) <=> IsFiniteSet(S)
BY DEF BP!IsFiniteSet, IsFiniteSet

LEMMA SameCardinality == ASSUME NEW S PROVE B!Cardinality(S) = BP!Cardinality(S)
BY Zenon DEF B!Cardinality, BP!Cardinality

LEMMA BridgeFits == BP!BridgeAssumption
<1>1. ProcOf \in [Requests -> Processes]
  BY DEF ProcOf, Processes
<1>2. KeyOf \in [Requests -> BP!Keys]
  BY DEF KeyOf, BP!Keys, Dids
<1> QED
  BY <1>1, <1>2, SameFinite, AccountRulesAssumption DEF BP!BridgeAssumption, Dids, SystemKeys

LEMMA SameGranted == ASSUME NEW r PROVE B!Granted(r) <=> BP!Granted(r)
BY SameCardinality DEF B!Granted, BP!Granted, B!Count, BP!Count, B!LeaseAllowed, BP!LeaseAllowed,
       B!Held, BP!Held, B!HeldBy, BP!HeldBy, B!Rows, BP!Rows

LEMMA SameRefused == ASSUME NEW r PROVE B!Refused(r) <=> BP!Refused(r)
BY DEF B!Refused, BP!Refused

LEMMA SameSchedule == ASSUME NEW r PROVE B!Schedule(r) <=> BP!Schedule(r)
BY SameGranted, SameRefused
   DEF B!Schedule, BP!Schedule, B!HasRoom, BP!HasRoom, B!HasQueueRoom, BP!HasQueueRoom

LEMMA SameQuiet == ASSUME NEW p PROVE B!Quiet(p) <=> BP!Quiet(p)
BY DEF B!Quiet, BP!Quiet, B!CallsOf, BP!CallsOf, B!Settled, BP!Settled

LEMMA SameClose == ASSUME NEW r, NEW ok PROVE B!Close(r, ok) <=> BP!Close(r, ok)
BY SameQuiet DEF B!Close, BP!Close, B!Count, BP!Count, B!Rows, BP!Rows

LEMMA SameDrain ==
    ASSUME NEW p
    PROVE  /\ B!DrainEnds(p) <=> BP!DrainEnds(p)
           /\ \A i : B!DrainOne(p, i) <=> BP!DrainOne(p, i)
<1>1. \A i : B!Startable(p, i) <=> BP!Startable(p, i)
  BY DEF B!Startable, BP!Startable, B!HasRoom, BP!HasRoom
<1>2. \A i : B!FirstStartable(p, i) <=> BP!FirstStartable(p, i)
  BY <1>1 DEF B!FirstStartable, BP!FirstStartable
<1>3. B!DrainEnds(p) <=> BP!DrainEnds(p)
  BY <1>1 DEF B!DrainEnds, BP!DrainEnds
<1>4. ASSUME NEW i PROVE B!DrainOne(p, i) <=> BP!DrainOne(p, i)
  BY <1>2, SameGranted, SameRefused DEF B!DrainOne, BP!DrainOne, B!RemoveAt, BP!RemoveAt
<1> QED
  BY <1>3, <1>4

LEMMA SameTurn == ASSUME NEW p PROVE B!Turn(p) <=> BP!Turn(p)
<1>1. \A r : B!Continue(r) <=> BP!Continue(r)
  BY SameSchedule DEF B!Continue, BP!Continue
<1>2. \A r : B!Return(r) <=> BP!Return(r)
  BY DEF B!Return, BP!Return, B!Settled, BP!Settled
<1>3. B!CallsOf(p) = BP!CallsOf(p)
  BY DEF B!CallsOf, BP!CallsOf
<1> QED
  BY <1>1, <1>2, <1>3, SameDrain DEF B!Turn, BP!Turn

LEMMA SameNext == B!Next <=> BP!Next
<1>1. \A r : B!Issue(r) <=> BP!Issue(r)
  BY SameSchedule, SameQuiet DEF B!Issue, BP!Issue
<1>2. \A p : B!Crash(p) <=> BP!Crash(p)
  BY DEF B!Crash, BP!Crash, B!Keys, BP!Keys
<1>3. B!Rows = BP!Rows /\ \A t : B!Expire(t) <=> BP!Expire(t)
  BY DEF B!Rows, BP!Rows, B!Expire, BP!Expire
<1> QED
  BY <1>1, <1>2, <1>3, SameTurn, SameClose DEF B!Next, BP!Next

LEMMA SameInit == B!Init <=> BP!Init
BY DEF B!Init, BP!Init, B!Keys, BP!Keys, B!Rows, BP!Rows

\* A request's engine call is a call of the bridge: of a new request, or of one that
\* goes on after an answer.
LEMMA CallIsMade ==
    ASSUME NEW r \in Requests, NEW record, Call(r, record),
           \/ phase[r] = "idle" /\ B!Quiet(ProcOf[r])
           \/ Resumes(r, "ok")
    PROVE  B!Next
<1>1. B!Schedule(r)
  BY DEF Call
<1>2. CASE phase[r] = "idle" /\ B!Quiet(ProcOf[r])
  BY <1>1, <1>2 DEF B!Issue, B!Next
<1>3. CASE Resumes(r, "ok")
  <2>1. B!Continue(r)
    BY <1>1, <1>3 DEF Resumes, B!Continue
  <2>2. ProcOf[r] \in Processes /\ r \in B!CallsOf(ProcOf[r])
    BY DEF ProcOf, Processes, B!CallsOf
  <2>3. B!Turn(ProcOf[r])
    BY <2>1, <2>2 DEF B!Turn
  <2> QED
    BY <2>2, <2>3 DEF B!Next
<1> QED
  BY <1>2, <1>3

\* The end of a request gives its answered call back, or there was none.
LEMMA OverReturns ==
    ASSUME NEW r \in Requests, Over(r),
           \/ phase[r] = "idle" /\ B!Quiet(ProcOf[r])
           \/ \E answered \in B!Settled : Resumes(r, answered)
    PROVE  B!Next \/ UNCHANGED bridgeVars
<1>1. CASE UNCHANGED bridgeVars
  BY <1>1
<1>2. CASE B!Return(r)
  <2>1. ProcOf[r] \in Processes /\ r \in B!CallsOf(ProcOf[r])
    BY DEF ProcOf, Processes, B!CallsOf
  <2>2. B!Turn(ProcOf[r])
    BY <1>2, <2>1 DEF B!Turn
  <2> QED
    BY <2>1, <2>2 DEF B!Next
<1> QED
  BY <1>1, <1>2 DEF Over

\* What a request does between two waits, by what becomes of it: it calls or ends.
LEMMA WithRulesCallsOrEnds ==
    ASSUME NEW r, NEW op, NEW arg, NEW now, NEW rules, NEW rev,
           WithRules(r, op, arg, now, rules, rev)
    PROVE  (\E record : Call(r, record)) \/ Over(r)
BY DEF WithRules

LEMMA ReadCallsOrEnds ==
    ASSUME NEW r, NEW op, NEW arg, NEW now, Read(r, op, arg, now)
    PROVE  (\E record : Call(r, record)) \/ Over(r)
BY WithRulesCallsOrEnds DEF Read

\* Every step of the requests is a step of the scheduler or leaves it alone.
LEMMA StepsOfTheBridge == ASSUME TypeOK, [Next]_vars PROVE [B!Next]_bridgeVars
<1>1. CASE UNCHANGED vars
  BY <1>1 DEF vars
<1>2. ASSUME NEW r \in Requests, (\E record : Call(r, record)) \/ Over(r),
             (phase[r] = "idle" /\ B!Quiet(ProcOf[r])) \/ Resumes(r, "ok")
      PROVE  [B!Next]_bridgeVars
  BY <1>2, CallIsMade, OverReturns DEF B!Settled
<1>3. ASSUME NEW r \in Requests, NEW op, NEW arg, Ask(r, op, arg)
      PROVE  [B!Next]_bridgeVars
  <2>1. phase[r] = "idle" /\ B!Quiet(ProcOf[r]) /\ Read(r, op, arg, row)
    BY <1>3 DEF Ask, TypeOK
  <2> QED
    BY <2>1, <1>2, ReadCallsOrEnds
<1>4. ASSUME NEW r \in Requests, Confirm(r)
      PROVE  [B!Next]_bridgeVars
  <2>1. phase[r] = "idle" /\ B!Quiet(ProcOf[r]) /\ \E record : Call(r, record)
    BY <1>4 DEF Confirm, TypeOK, ProcOf
  <2> QED
    BY <2>1, <1>2
<1>5. ASSUME NEW r \in Requests, Listed(r)
      PROVE  [B!Next]_bridgeVars
  <2>1. Resumes(r, "ok") /\ \E now : Read(r, req[r].op, req[r].arg, now)
    BY <1>5 DEF Listed
  <2> QED
    BY <2>1, <1>2, ReadCallsOrEnds
<1>6. ASSUME NEW r \in Requests, Repaired(r)
      PROVE  [B!Next]_bridgeVars
  <2>1. /\ Resumes(r, "ok")
        /\ \E now : WithRules(r, req[r].op, req[r].arg, now, req[r].rules, req[r].rev)
    BY <1>6 DEF Repaired
  <2> QED
    BY <2>1, <1>2, WithRulesCallsOrEnds
<1>7. ASSUME NEW r \in Requests, Saved(r) \/ Drafted(r) \/ Previewed(r) \/ Fails(r)
      PROVE  [B!Next]_bridgeVars
  <2>1. Over(r) /\ (Resumes(r, "ok") \/ Resumes(r, "failed"))
    BY <1>7 DEF Saved, Drafted, Previewed, Fails
  <2> QED
    BY <2>1, OverReturns DEF B!Settled
<1>8. ASSUME NEW r \in Requests, NEW ok \in BOOLEAN, Reply(r, ok)
      PROVE  [B!Next]_bridgeVars
  BY <1>8 DEF Reply, B!Next
<1>9. ASSUME NEW p \in Processes, Drain(p) \/ Crash(p)
      PROVE  [B!Next]_bridgeVars
  BY <1>9 DEF Drain, Crash, B!Turn, B!Next
<1>10. ASSUME NEW t \in B!Rows, LeaseExpires(t)
       PROVE  [B!Next]_bridgeVars
  BY <1>10 DEF LeaseExpires, B!Next
<1>11. ASSUME \/ \E r \in Requests : Act(r)
              \/ \E rules, written : OrphanEnds(rules, written)
              \/ DraftExpires
       PROVE  [B!Next]_bridgeVars
  BY <1>11 DEF Act, OrphanEnds, DraftExpires
<1> QED
  BY <1>1, <1>3, <1>4, <1>5, <1>6, <1>7, <1>8, <1>9, <1>10, <1>11 DEF Next

(***************************************************************************)
(* What a request does between two waits, told apart once.                 *)
(***************************************************************************)

Held(step, op, arg, rules, rev) ==
    [step |-> step, op |-> op, arg |-> arg, rules |-> rules, rev |-> rev]

\* portableContext returns, and the preview or the plan asks the engine.
Previews(r, op, arg, now, rules, rev) ==
    /\ op = "context" /\ Projected(now)
    /\ answer' = [to |-> r, rules |-> rules, rev |-> rev]
    /\ Call(r, Held("previewing", op, arg, rules, rev))
    /\ row' = now /\ draft' = draft

\* setAccountRule replaces the row and projects the new rules.
Writes(r, op, arg, now, rules, rev) ==
    /\ op \in {"put", "drop"} /\ now.rev = rev
    /\ \E changed \in {rules \union arg, rules \ arg} :
          /\ row' = [rev |-> rev + 1, rules |-> changed, projected |-> 0, image |-> {}]
          /\ Call(r, Held("wrote", op, arg, changed, rev + 1))
    /\ answer' = NoAnswer /\ draft' = draft

\* createImportDraft asks for a validation first.
Checks(r, op, arg, now, rules, rev) ==
    /\ op = "draft" /\ Call(r, Held("checking", op, arg, rules, rev))
    /\ row' = now /\ answer' = NoAnswer /\ draft' = draft

\* The request is over, having opened a draft or not.
Ends(r, op, arg, now, rules) ==
    /\ Over(r) /\ row' = now /\ answer' = NoAnswer
    /\ \/ draft' = draft
       \/ op = "draft" /\ draft' = [open |-> TRUE, before |-> rules, rules |-> arg]

\* accountRules waits for the engine's rules, or for a projection to be repaired.
Waits(r, op, arg, now) ==
    /\ \/ now.rev = 0 /\ Call(r, Held("listing", op, arg, now.rules, now.rev))
       \/ now.rev # 0 /\ Call(r, Held("projecting", op, arg, now.rules, now.rev))
    /\ row' = now /\ answer' = NoAnswer /\ draft' = draft

Outcome(r, op, arg, now, rules, rev) ==
    \/ Previews(r, op, arg, now, rules, rev) \/ Writes(r, op, arg, now, rules, rev)
    \/ Checks(r, op, arg, now, rules, rev) \/ Ends(r, op, arg, now, rules)

LEMMA OutcomeOfRules ==
    ASSUME NEW r, NEW op, NEW arg, NEW now, NEW rules, NEW rev,
           WithRules(r, op, arg, now, rules, rev)
    PROVE  Outcome(r, op, arg, now, rules, rev)
<1>1. ASSUME NEW changed,
             changed = IF op = "put" THEN rules \union arg ELSE rules \ arg
      PROVE  changed \in {rules \union arg, rules \ arg}
  BY <1>1
<1>2. \A changed :
        [Held("wrote", op, arg, rules, rev) EXCEPT !.rules = changed, !.rev = rev + 1]
          = Held("wrote", op, arg, changed, rev + 1)
  <2> TAKE changed
  <2>1. [Held("wrote", op, arg, rules, rev) EXCEPT !.rules = changed]
          = Held("wrote", op, arg, changed, rev)
    BY DEF Held
  <2>2. [Held("wrote", op, arg, changed, rev) EXCEPT !.rev = rev + 1]
          = Held("wrote", op, arg, changed, rev + 1)
    BY DEF Held
  <2>3. [Held("wrote", op, arg, rules, rev) EXCEPT !.rules = changed, !.rev = rev + 1]
          = [[Held("wrote", op, arg, rules, rev) EXCEPT !.rules = changed] EXCEPT !.rev = rev + 1]
    OBVIOUS
  <2> QED
    BY <2>1, <2>2, <2>3
<1> QED
  BY <1>1, <1>2
     DEF WithRules, Outcome, Previews, Writes, Checks, Ends, Held, Untouched

\* A request that has the row goes on at once, when its rules are projected, or waits.
Reads(r, op, arg, now) ==
    \/ Waits(r, op, arg, now)
    \/ now.rev # 0 /\ Projected(now) /\ Outcome(r, op, arg, now, now.rules, now.rev)

LEMMA OutcomeOfRead ==
    ASSUME NEW r, NEW op, NEW arg, NEW now, Read(r, op, arg, now)
    PROVE  Reads(r, op, arg, now)
BY OutcomeOfRules DEF Read, Reads, Waits, Held

\* The rules and the row of a request that goes on: what accountRules read when it
\* began, or after it had listed the engine's rules or repaired their projection.
Begins(r, op, arg) == /\ phase[r] = "idle" /\ B!Quiet(ProcOf[r]) /\ req[r].step = "idle"
                      /\ op \in Operations /\ arg \in Rules
                      /\ (r \in WorkerRequests => op = "context")
                      /\ (op \in {"put", "drop"} => Cardinality(arg) = 1)
Inserted(r) == [rev |-> 1, rules |-> req[r].rules, projected |-> 1, image |-> req[r].rules]
Answers(r, step) == Resumes(r, "ok") /\ req[r].step = step

\* The ways on for a request.
RequestStep(r) ==
    \/ \E op, arg : Begins(r, op, arg) /\ Reads(r, op, arg, row)
    \/ Confirm(r)
    \/ Answers(r, "listing") /\ row.rev # 0 /\ Reads(r, req[r].op, req[r].arg, row)
    \/ Answers(r, "listing") /\ row.rev = 0 /\ Reads(r, req[r].op, req[r].arg, Inserted(r))
    \/ /\ Answers(r, "projecting")
       /\ Outcome(r, req[r].op, req[r].arg, Marked(row, req[r].rev, req[r].rules),
                  req[r].rules, req[r].rev)
    \/ Saved(r)
    \/ Drafted(r)
    \/ Previewed(r) \/ Fails(r)

LEMMA RequestSteps ==
    ASSUME TypeOK, NEW r \in Requests,
           \/ \E op \in Operations, arg \in Rules : Ask(r, op, arg)
           \/ Confirm(r) \/ Listed(r) \/ Repaired(r) \/ Saved(r) \/ Drafted(r)
           \/ Previewed(r) \/ Fails(r)
    PROVE  RequestStep(r)
<1>1. ASSUME NEW op \in Operations, NEW arg \in Rules, Ask(r, op, arg)
      PROVE  RequestStep(r)
  <2>1. phase[r] = "idle" /\ B!Quiet(ProcOf[r]) /\ req[r].step = "idle"
    BY <1>1 DEF Ask, TypeOK
  <2>2. r \in WorkerRequests => op = "context"
    BY <1>1 DEF Ask
  <2>3. op \in {"put", "drop"} => Cardinality(arg) = 1
    BY <1>1 DEF Ask
  <2>4. Read(r, op, arg, row)
    BY <1>1 DEF Ask
  <2>5. Begins(r, op, arg)
    BY <2>1, <2>2, <2>3 DEF Begins
  <2> QED
    BY <2>4, <2>5, OutcomeOfRead DEF RequestStep
<1>2. ASSUME Listed(r) PROVE RequestStep(r)
  <2>1. Answers(r, "listing")
    BY <1>2 DEF Listed, Answers
  <2>2. CASE row.rev # 0
    <3>1. Read(r, req[r].op, req[r].arg, row)
      BY <1>2, <2>2 DEF Listed
    <3> QED
      BY <2>1, <2>2, <3>1, OutcomeOfRead DEF RequestStep
  <2>3. CASE row.rev = 0
    <3>1. Read(r, req[r].op, req[r].arg, Inserted(r))
      BY <1>2, <2>3 DEF Listed, Inserted
    <3> QED
      BY <2>1, <2>3, <3>1, OutcomeOfRead DEF RequestStep
  <2> QED
    BY <2>2, <2>3
<1>3. ASSUME Repaired(r) PROVE RequestStep(r)
  BY <1>3, OutcomeOfRules DEF Repaired, Answers, RequestStep
<1> QED
  BY <1>1, <1>2, <1>3 DEF RequestStep

(***************************************************************************)
(* Types.                                                                  *)
(***************************************************************************)

RowType == [rev : Nat, rules : Rules, projected : Nat, image : Rules]
ReqType == [step : Step, op : Op, arg : Rules, rules : Rules, rev : Nat]

DataTyped ==
    /\ row \in RowType /\ mirror \in Rules
    /\ req \in [Requests -> ReqType]
    /\ done \in SUBSET Requests /\ orphans \in SUBSET Rules
    /\ draft \in [open : BOOLEAN, before : Rules, rules : Rules]
    /\ answer \in [to : Requests \union {"nobody"}, rules : Rules, rev : Nat]
    /\ acked \in Nat /\ overslept \in BOOLEAN
    /\ changes \in 0..MaxChanges
\* A request that has a call is not idle.
Busy == \A r \in Requests : phase[r] # "idle" => req[r].step # "idle"

LEMMA TypeParts == TypeOK <=> B!TypeOK /\ DataTyped /\ Busy
BY DEF TypeOK, DataTyped, Busy, RowType, ReqType

LEMMA SameTypes == B!TypeOK <=> BP!TypeOK
BY DEF B!TypeOK, BP!TypeOK, B!Phase, BP!Phase, B!Settled, BP!Settled,
       B!Keys, BP!Keys, B!Rows, BP!Rows

LEMMA Phases == ASSUME B!TypeOK PROVE phase \in [Requests -> B!Phase]
BY DEF B!TypeOK

\* What scheduling a call does to its phase.
LEMMA ScheduledPhase ==
    ASSUME NEW r \in Requests, B!Schedule(r)
    PROVE  \E now \in {"running", "queued", "failed"} : phase' = [phase EXCEPT ![r] = now]
BY DEF B!Schedule, B!Granted, B!Refused

LEMMA CallTyped ==
    ASSUME TypeOK, NEW r \in Requests, NEW record \in ReqType, record.step # "idle",
           Call(r, record)
    PROVE  /\ req' \in [Requests -> ReqType] /\ done' \in SUBSET Requests
           /\ Busy'
<1>1. req' = [req EXCEPT ![r] = record] /\ done' = done \ {r} /\ B!Schedule(r)
  BY DEF Call
<1>2. req \in [Requests -> ReqType] /\ done \in SUBSET Requests /\ Busy
  BY TypeParts DEF DataTyped
<1>3. phase \in [Requests -> B!Phase]
  BY TypeParts, Phases
<1>4. PICK now \in {"running", "queued", "failed"} : phase' = [phase EXCEPT ![r] = now]
  BY <1>1, ScheduledPhase
<1>5. Busy'
  BY <1>1, <1>2, <1>3, <1>4 DEF Busy
<1> QED
  BY <1>1, <1>2, <1>5

LEMMA IdleTyped == Idle \in ReqType
BY DEF Idle, ReqType, Step, Op, Rules

LEMMA OverTyped ==
    ASSUME TypeOK, NEW r \in Requests, Over(r)
    PROVE  /\ req' \in [Requests -> ReqType] /\ done' \in SUBSET Requests
           /\ Busy'
<1>1. req' = [req EXCEPT ![r] = Idle] /\ done' = done \ {r}
  BY DEF Over
<1>2. req \in [Requests -> ReqType] /\ done \in SUBSET Requests /\ Busy
  BY TypeParts DEF DataTyped
<1>3. phase \in [Requests -> B!Phase]
  BY TypeParts, Phases
<1>4. phase' = [phase EXCEPT ![r] = "idle"]
  BY <1>3 DEF Over, bridgeVars, B!Return
<1>5. Busy'
  BY <1>1, <1>2, <1>3, <1>4 DEF Busy
<1> QED
  BY <1>1, <1>2, <1>5, IdleTyped

LEMMA HeldTyped ==
    ASSUME NEW step \in Step, NEW op \in Op, NEW arg \in Rules, NEW rules \in Rules,
           NEW rev \in Nat
    PROVE  Held(step, op, arg, rules, rev) \in ReqType
           /\ Held(step, op, arg, rules, rev).step = step
BY DEF Held, ReqType

\* The variables a request changes between two waits.
StepTyped ==
    /\ req' \in [Requests -> ReqType] /\ done' \in SUBSET Requests /\ Busy'
    /\ row' \in RowType
    /\ draft' \in [open : BOOLEAN, before : Rules, rules : Rules]
    /\ answer' \in [to : Requests \union {"nobody"}, rules : Rules, rev : Nat]

LEMMA NoAnswerTyped == NoAnswer \in [to : Requests \union {"nobody"}, rules : Rules, rev : Nat]
BY DEF NoAnswer, Rules

LEMMA OutcomeTyped ==
    ASSUME TypeOK, NEW r \in Requests, NEW op \in Op, NEW arg \in Rules,
           NEW now \in RowType, NEW rules \in Rules, NEW rev \in Nat,
           Outcome(r, op, arg, now, rules, rev)
    PROVE  StepTyped
<1>0. draft \in [open : BOOLEAN, before : Rules, rules : Rules]
  BY TypeParts DEF DataTyped
<1>1. CASE Previews(r, op, arg, now, rules, rev)
  <2>1. "previewing" \in Step /\ "previewing" # "idle"
    BY DEF Step
  <2>2. Held("previewing", op, arg, rules, rev) \in ReqType
        /\ Held("previewing", op, arg, rules, rev).step # "idle"
    BY <2>1, HeldTyped
  <2> QED
    BY <1>0, <1>1, <2>2, CallTyped DEF Previews, StepTyped
<1>2. CASE Writes(r, op, arg, now, rules, rev)
  <2>1. PICK changed \in {rules \union arg, rules \ arg} :
           /\ row' = [rev |-> rev + 1, rules |-> changed, projected |-> 0, image |-> {}]
           /\ Call(r, Held("wrote", op, arg, changed, rev + 1))
    BY <1>2 DEF Writes
  <2>2. changed \in Rules /\ rev + 1 \in Nat /\ "wrote" \in Step
    BY DEF Rules, Step, Replacing
  <2>3. Held("wrote", op, arg, changed, rev + 1) \in ReqType
        /\ Held("wrote", op, arg, changed, rev + 1).step # "idle"
    BY <2>2, HeldTyped
  <2>4. row' \in RowType
    BY <2>1, <2>2 DEF RowType, Rules
  <2> QED
    BY <1>0, <1>2, <2>1, <2>3, <2>4, CallTyped, NoAnswerTyped DEF Writes, StepTyped
<1>3. CASE Checks(r, op, arg, now, rules, rev)
  <2>1. "checking" \in Step /\ "checking" # "idle"
    BY DEF Step
  <2>2. Held("checking", op, arg, rules, rev) \in ReqType
        /\ Held("checking", op, arg, rules, rev).step # "idle"
    BY <2>1, HeldTyped
  <2> QED
    BY <1>0, <1>3, <2>2, CallTyped, NoAnswerTyped DEF Checks, StepTyped
<1>4. CASE Ends(r, op, arg, now, rules)
  <2>1. [open |-> TRUE, before |-> rules, rules |-> arg]
           \in [open : BOOLEAN, before : Rules, rules : Rules]
    OBVIOUS
  <2>2. draft' \in [open : BOOLEAN, before : Rules, rules : Rules]
    BY <1>0, <1>4, <2>1 DEF Ends
  <2>3. Over(r) /\ row' = now /\ answer' = NoAnswer
    BY <1>4 DEF Ends
  <2> QED
    BY <2>2, <2>3, OverTyped, NoAnswerTyped DEF StepTyped
<1> QED
  BY <1>1, <1>2, <1>3, <1>4 DEF Outcome

LEMMA WaitsTyped ==
    ASSUME TypeOK, NEW r \in Requests, NEW op \in Op, NEW arg \in Rules,
           NEW now \in RowType, Waits(r, op, arg, now)
    PROVE  StepTyped
<1>0. draft \in [open : BOOLEAN, before : Rules, rules : Rules]
  BY TypeParts DEF DataTyped
<1>1. PICK step \in {"listing", "projecting"} : Call(r, Held(step, op, arg, now.rules, now.rev))
  BY DEF Waits
<1>2. step \in Step /\ step # "idle" /\ now.rules \in Rules /\ now.rev \in Nat
  BY DEF Step, Replacing, RowType
<1>3. Held(step, op, arg, now.rules, now.rev) \in ReqType
      /\ Held(step, op, arg, now.rules, now.rev).step # "idle"
  BY <1>2, HeldTyped
<1> QED
  BY <1>0, <1>1, <1>3, CallTyped, NoAnswerTyped DEF Waits, StepTyped

LEMMA MarkedTyped ==
    ASSUME row \in RowType, NEW rules \in Rules, NEW rev \in Nat
    PROVE  /\ Marked(row, rev, rules) \in RowType
           /\ Marked(row, rev, rules).rev = row.rev /\ Marked(row, rev, rules).rules = row.rules
           /\ Marked(row, rev, rules) # row => row.rev = rev /\ row.rules = rules
BY DEF Marked, RowType

LEMMA InsertedTyped ==
    ASSUME TypeOK, NEW r \in Requests
    PROVE  Inserted(r) \in RowType
<1>1. req[r].rules \in Rules
  BY TypeParts DEF DataTyped, ReqType
<1> QED
  BY <1>1 DEF Inserted, RowType

LEMMA ReadsTyped ==
    ASSUME TypeOK, NEW r \in Requests, NEW op \in Op, NEW arg \in Rules,
           NEW now \in RowType, Reads(r, op, arg, now)
    PROVE  StepTyped
<1>1. now.rules \in Rules /\ now.rev \in Nat
  BY DEF RowType
<1> QED
  BY <1>1, WaitsTyped, OutcomeTyped DEF Reads

LEMMA RequestTyped ==
    ASSUME TypeOK, NEW r \in Requests, RequestStep(r)
    PROVE  StepTyped
<1>1. /\ req[r] \in ReqType /\ row \in RowType
      /\ draft \in [open : BOOLEAN, before : Rules, rules : Rules]
  BY TypeParts DEF DataTyped
<1>2. /\ req[r].op \in Op /\ req[r].arg \in Rules /\ req[r].rules \in Rules /\ req[r].rev \in Nat
      /\ row.rules \in Rules /\ row.rev \in Nat
  BY <1>1 DEF ReqType, RowType
<1>3. CASE \E op, arg : Begins(r, op, arg) /\ Reads(r, op, arg, row)
  <2>1. PICK op, arg : Begins(r, op, arg) /\ Reads(r, op, arg, row)
    BY <1>3
  <2>2. op \in Op /\ arg \in Rules
    BY <2>1, AccountRulesAssumption DEF Begins, Op
  <2> QED
    BY <1>1, <2>1, <2>2, ReadsTyped
<1>4. CASE Confirm(r)
  <2> DEFINE record == [step |-> "imported", op |-> "import", arg |-> {},
                        rules |-> draft.rules, rev |-> row.rev + 1]
  <2>1. /\ Call(r, record) /\ draft' = Closed /\ answer' = NoAnswer
        /\ row' = [rev |-> row.rev + 1, rules |-> draft.rules, projected |-> 0, image |-> {}]
    BY <1>4 DEF Confirm
  <2>2. draft.rules \in Rules /\ row.rev + 1 \in Nat /\ {} \in Rules
    BY <1>1, <1>2 DEF Rules
  <2>3. record \in ReqType /\ record.step # "idle"
    BY <2>2 DEF ReqType, Step, Replacing, Op
  <2>4. row' \in RowType
    BY <2>1, <2>2 DEF RowType
  <2>5. draft' \in [open : BOOLEAN, before : Rules, rules : Rules]
    BY <2>1, <2>2 DEF Closed
  <2> HIDE DEF record
  <2> QED
    BY <2>1, <2>3, <2>4, <2>5, CallTyped, NoAnswerTyped DEF StepTyped
<1>5. CASE \/ Answers(r, "listing") /\ Reads(r, req[r].op, req[r].arg, row)
           \/ Answers(r, "listing") /\ Reads(r, req[r].op, req[r].arg, Inserted(r))
  BY <1>1, <1>2, <1>5, ReadsTyped, InsertedTyped
<1>6. CASE /\ Answers(r, "projecting")
           /\ Outcome(r, req[r].op, req[r].arg, Marked(row, req[r].rev, req[r].rules),
                      req[r].rules, req[r].rev)
  <2>1. PICK now : now = Marked(row, req[r].rev, req[r].rules)
    OBVIOUS
  <2>2. now \in RowType
    BY <1>1, <1>2, <2>1, MarkedTyped
  <2> QED
    BY <1>2, <1>6, <2>1, <2>2, OutcomeTyped
<1>7. CASE Saved(r)
  <2>1. row' = Marked(row, req[r].rev, req[r].rules) /\ Over(r) /\ answer' = NoAnswer
        /\ draft' = draft
    BY <1>7 DEF Saved
  <2>2. row' \in RowType
    BY <1>1, <1>2, <2>1, MarkedTyped
  <2> QED
    BY <1>1, <2>1, <2>2, OverTyped, NoAnswerTyped DEF StepTyped
<1>8. CASE Drafted(r)
  <2>1. /\ row' = row /\ Over(r) /\ answer' = NoAnswer
        /\ draft' = [open |-> TRUE, before |-> req[r].rules, rules |-> req[r].arg]
    BY <1>8 DEF Drafted
  <2>2. draft' \in [open : BOOLEAN, before : Rules, rules : Rules]
    BY <1>2, <2>1
  <2> QED
    BY <1>1, <2>1, <2>2, OverTyped, NoAnswerTyped DEF StepTyped
<1>9. CASE Previewed(r) \/ Fails(r)
  <2>1. row' = row /\ Over(r) /\ answer' = NoAnswer /\ draft' = draft
    BY <1>9 DEF Previewed, Fails, ruleVars
  <2> QED
    BY <1>1, <2>1, OverTyped, NoAnswerTyped DEF StepTyped
<1> QED
  BY <1>3, <1>4, <1>5, <1>6, <1>7, <1>8, <1>9 DEF RequestStep

\* What no request touches itself: the engine, which its calls change.
RequestFrame(r) ==
    /\ mirror' = mirror /\ orphans' = orphans /\ overslept' = overslept
    /\ acked' = acked \/ Saved(r)
    /\ changes' = changes \/ Change

\* The kinds of steps.
RuleSteps ==
    \/ \E r \in Requests : RequestStep(r) /\ RequestFrame(r)
    \/ \E r \in Requests : Act(r)
    \/ \E r \in Requests, ok \in BOOLEAN : Reply(r, ok)
    \/ \E p \in Processes : Drain(p)
    \/ \E p \in Processes : Crash(p)
    \/ \E rules \in Rules, written \in BOOLEAN : OrphanEnds(rules, written)
    \/ \E t \in B!Rows : LeaseExpires(t)
    \/ DraftExpires

LEMMA NextSteps == ASSUME TypeOK, Next PROVE RuleSteps
<1>1. ASSUME NEW r \in Requests,
             \/ \E op \in Operations, arg \in Rules : Ask(r, op, arg)
             \/ Confirm(r) \/ Listed(r) \/ Repaired(r) \/ Saved(r) \/ Drafted(r)
             \/ Previewed(r) \/ Fails(r)
      PROVE  RequestFrame(r)
  <2>1. ASSUME NEW op \in Operations, NEW arg, Ask(r, op, arg) PROVE RequestFrame(r)
    <3>1. op \in {"context", "put", "drop", "draft"}
      BY AccountRulesAssumption
    <3>2. UNCHANGED changes \/ Change
      BY <2>1, <3>1 DEF Ask
    <3> QED
      BY <2>1, <3>2 DEF Ask, RequestFrame
  <2>2. CASE Confirm(r)
    BY <2>2 DEF Confirm, RequestFrame
  <2>3. CASE Listed(r) \/ Repaired(r) \/ Drafted(r)
    BY <2>3 DEF Listed, Repaired, Drafted, RequestFrame
  <2>4. CASE Saved(r)
    BY <2>4 DEF Saved, RequestFrame
  <2>5. CASE Previewed(r) \/ Fails(r)
    BY <2>5 DEF Previewed, Fails, ruleVars, RequestFrame
  <2> QED
    BY <1>1, <2>1, <2>2, <2>3, <2>4, <2>5
<1> QED
  BY <1>1, RequestSteps DEF Next, RuleSteps

\* A call that waits, or that a process starts from its queue, belongs to a request.
LEMMA QueuedCalls ==
    ASSUME B!TypeOK, BP!WaitingOK, NEW p \in Processes, NEW i \in DOMAIN queue[p]
    PROVE  /\ queue[p] \in Seq(Requests) /\ Len(queue[p]) \in Nat
           /\ DOMAIN queue[p] = 1..Len(queue[p]) /\ i \in 1..Len(queue[p])
           /\ queue[p][i] \in Requests /\ phase[queue[p][i]] = "queued"
           /\ ProcOf[queue[p][i]] = p
<1>1. queue[p] \in Seq(Requests)
  BY DEF B!TypeOK
<1>2. Len(queue[p]) \in Nat /\ DOMAIN queue[p] = 1..Len(queue[p])
      /\ \A h \in 1..Len(queue[p]) : queue[p][h] \in Requests
  BY <1>1, LenProperties
<1> QED
  BY <1>1, <1>2 DEF BP!WaitingOK, BP!Listed

LEMMA DrainPhase ==
    ASSUME B!TypeOK, BP!WaitingOK, NEW p \in Processes,
           (\E i \in DOMAIN queue[p] : B!DrainOne(p, i)) \/ B!DrainEnds(p)
    PROVE  \/ phase' = phase
           \/ \E c \in Requests, now \in {"running", "failed"} :
                 phase[c] = "queued" /\ phase' = [phase EXCEPT ![c] = now]
<1>1. ASSUME NEW i \in DOMAIN queue[p], B!DrainOne(p, i)
      PROVE  \E c \in Requests, now \in {"running", "failed"} :
                phase[c] = "queued" /\ phase' = [phase EXCEPT ![c] = now]
  <2>1. queue[p][i] \in Requests /\ phase[queue[p][i]] = "queued"
    BY QueuedCalls
  <2> QED
    BY <1>1, <2>1 DEF B!DrainOne, B!Granted, B!Refused
<1> QED
  BY <1>1 DEF B!DrainEnds

LEMMA BridgeSteps == ASSUME TypeOK, [Next]_vars PROVE [BP!Next]_BP!vars
<1>1. BP!Next \/ UNCHANGED bridgeVars
  BY StepsOfTheBridge, SameNext
<1> QED
  BY <1>1 DEF bridgeVars, BP!vars

LEMMA RulesTypeNext == ASSUME TypeOK, BP!WaitingOK, [Next]_vars PROVE TypeOK'
<1>0. B!TypeOK /\ DataTyped /\ Busy /\ phase \in [Requests -> B!Phase]
  BY TypeParts, Phases
<1>1. B!TypeOK'
  <2>1. BP!TypeOK'
    BY <1>0, SameTypes, BridgeFits, BridgeSteps, BP!TypeNext
  <2>2. BP!TypeOK' => B!TypeOK'
    BY SameTypes, PTL
  <2> QED
    BY <2>1, <2>2
<1>2. CASE UNCHANGED vars
  BY <1>2 DEF vars, bridgeVars, ruleVars, TypeOK, B!TypeOK
<1>3. ASSUME DataTyped', Busy' PROVE TypeOK'
  <2>1. B!TypeOK' /\ DataTyped' /\ Busy' => TypeOK'
    BY TypeParts, PTL
  <2> QED
    BY <1>1, <1>3, <2>1
<1>4. ASSUME NEW r \in Requests, RequestStep(r), RequestFrame(r) PROVE TypeOK'
  <2>1. StepTyped
    BY <1>4, RequestTyped
  <2>2. changes' \in 0..MaxChanges
    BY <1>0, <1>4, AccountRulesAssumption DEF RequestFrame, Change, DataTyped
  <2>3. acked' \in Nat
    <3>1. CASE Saved(r)
      <4>1. req[r].rev \in Nat
        BY <1>0 DEF DataTyped, ReqType
      <4> QED
        BY <1>0, <3>1, <4>1 DEF Saved, DataTyped
    <3> QED
      BY <1>0, <1>4, <3>1 DEF RequestFrame, DataTyped
  <2> QED
    BY <1>0, <1>3, <1>4, <2>1, <2>2, <2>3 DEF StepTyped, RequestFrame, DataTyped
<1>5. ASSUME NEW r \in Requests, Act(r) PROVE TypeOK'
  <2>1. \A b \in Requests : req[b] \in ReqType /\ req[b].rules \in Rules
    BY <1>0 DEF DataTyped, ReqType
  <2>2. mirror' \in Rules
    BY <1>0, <1>5, <2>1 DEF Act, DataTyped
  <2>3. req' \in [Requests -> ReqType] /\ \A b \in Requests : req'[b].step = req[b].step
    <3>1. CASE req' = req
      BY <1>0, <3>1 DEF DataTyped
    <3>2. CASE req' = [req EXCEPT ![r].rules = mirror]
      BY <1>0, <3>2 DEF DataTyped, ReqType
    <3> QED
      BY <1>5, <3>1, <3>2 DEF Act
  <2>4. phase' = phase /\ Busy'
    BY <1>0, <1>5, <2>3 DEF Act, bridgeVars, Busy
  <2> QED
    BY <1>0, <1>3, <1>5, <2>2, <2>3, <2>4, NoAnswerTyped DEF Act, DataTyped
<1>6. ASSUME NEW r \in Requests, NEW ok \in BOOLEAN, Reply(r, ok) PROVE TypeOK'
  <2>1. phase[r] = "running" /\ phase' = [phase EXCEPT ![r] = IF ok THEN "ok" ELSE "failed"]
    BY <1>6 DEF Reply, B!Close
  <2>2. Busy' /\ overslept' \in BOOLEAN
    BY <1>0, <1>6, <2>1 DEF Reply, Busy, DataTyped
  <2> QED
    BY <1>0, <1>3, <1>6, <2>2, NoAnswerTyped DEF Reply, ruleVars, DataTyped
<1>7. ASSUME NEW p \in Processes, Drain(p) PROVE TypeOK'
  <2>1. \/ phase' = phase
        \/ \E c \in Requests, now \in {"running", "failed"} :
              phase[c] = "queued" /\ phase' = [phase EXCEPT ![c] = now]
    BY <1>0, <1>7, DrainPhase DEF Drain
  <2>2. Busy'
    BY <1>0, <1>7, <2>1 DEF Drain, Busy
  <2> QED
    BY <1>0, <1>3, <1>7, <2>2, NoAnswerTyped DEF Drain, ruleVars, DataTyped
<1>8. ASSUME NEW p \in Processes, Crash(p) PROVE TypeOK'
  <2>1. /\ phase' = [c \in Requests |-> IF ProcOf[c] = p THEN "idle" ELSE phase[c]]
        /\ req' = [c \in Requests |-> IF ProcOf[c] = p THEN Idle ELSE req[c]]
        /\ done' \in SUBSET Requests /\ changes' = changes + 1 /\ changes < MaxChanges
    BY <1>0, <1>8 DEF Crash, B!Crash, Change, DataTyped
  <2>2. req' \in [Requests -> ReqType] /\ Busy'
    BY <1>0, <2>1, IdleTyped DEF DataTyped, Busy
  <2>3. orphans' \in SUBSET Rules
    <3>1. \A c \in Requests : req[c].rules \in Rules
      BY <1>0 DEF DataTyped, ReqType
    <3>2. \A rules \in orphans' : rules \in orphans \/ \E c \in Requests : rules = req[c].rules
      BY <1>8 DEF Crash
    <3> QED
      BY <1>0, <3>1, <3>2 DEF DataTyped
  <2>4. changes' \in 0..MaxChanges
    BY <1>0, <2>1, AccountRulesAssumption DEF DataTyped
  <2> QED
    BY <1>0, <1>3, <1>8, <2>1, <2>2, <2>3, <2>4, NoAnswerTyped DEF Crash, ruleVars, DataTyped
<1>9. ASSUME NEW rules \in Rules, NEW written \in BOOLEAN, OrphanEnds(rules, written)
      PROVE  TypeOK'
  <2>1. mirror' \in Rules /\ Busy'
    BY <1>0, <1>9 DEF OrphanEnds, bridgeVars, DataTyped, Busy
  <2> QED
    BY <1>0, <1>3, <1>9, <2>1, NoAnswerTyped DEF OrphanEnds, DataTyped
<1>10. ASSUME NEW t \in B!Rows, LeaseExpires(t) PROVE TypeOK'
  <2>1. Busy'
    BY <1>0, <1>10 DEF LeaseExpires, B!Expire, Busy
  <2> QED
    BY <1>0, <1>3, <1>10, <2>1, NoAnswerTyped DEF LeaseExpires, ruleVars, DataTyped
<1>11. ASSUME DraftExpires PROVE TypeOK'
  <2>1. Busy'
    BY <1>0, <1>11 DEF DraftExpires, bridgeVars, Busy
  <2>2. draft' \in [open : BOOLEAN, before : Rules, rules : Rules]
    BY <1>11 DEF DraftExpires, Closed, Rules
  <2> QED
    BY <1>0, <1>3, <1>11, <2>1, <2>2, NoAnswerTyped DEF DraftExpires, DataTyped
<1>12. CASE Next
  BY <1>12, NextSteps, <1>4, <1>5, <1>6, <1>7, <1>8, <1>9, <1>10, <1>11 DEF RuleSteps
<1> QED
  BY <1>2, <1>12

LEMMA RulesTypeInit == Init => TypeOK /\ BP!WaitingOK
<1> SUFFICES ASSUME Init PROVE TypeOK /\ BP!WaitingOK
  OBVIOUS
<1>1. B!Init /\ BP!Init
  BY SameInit DEF Init
<1>2. B!TypeOK /\ BP!WaitingOK
  BY <1>1, BridgeFits, BP!TypeInit, BP!WaitingInit, SameTypes
<1>3. row \in RowType
  <2>1. CASE row = NoRow
    BY <2>1 DEF NoRow, RowType, Rules
  <2>2. CASE \E rules \in Uploads : row = Left(rules)
    <3>1. \A rules \in Uploads : rules \in Rules
      BY AccountRulesAssumption DEF Rules
    <3> QED
      BY <2>2, <3>1 DEF Left, RowType, Rules
  <2> QED
    BY <2>1, <2>2 DEF Init
<1>4. mirror \in Rules /\ orphans \in SUBSET Rules /\ draft \in [open : BOOLEAN, before : Rules, rules : Rules]
  BY AccountRulesAssumption DEF Init, Rules, Closed
<1>5. req \in [Requests -> ReqType] /\ done \in SUBSET Requests
  BY IdleTyped DEF Init
<1>6. acked \in Nat /\ changes \in 0..MaxChanges
  BY AccountRulesAssumption DEF Init
<1>8. overslept \in BOOLEAN
  BY DEF Init
<1>7. Busy
  BY <1>1 DEF Busy, B!Init
<1> QED
  BY <1>2, <1>3, <1>4, <1>5, <1>6, <1>7, <1>8, NoAnswerTyped, TypeParts DEF DataTyped, Init

\* The variables of the account rules stay within the values the database columns, the
\* engine's tables and the requests' local variables can have.
THEOREM RulesAreTyped == Spec => []TypeOK
<1>1. TypeOK /\ BP!WaitingOK /\ [Next]_vars => TypeOK' /\ BP!WaitingOK'
  <2>1. TypeOK /\ BP!WaitingOK /\ [Next]_vars => BP!TypeOK /\ [BP!Next]_BP!vars
    BY BridgeSteps, TypeParts, SameTypes
  <2> QED
    BY <2>1, RulesTypeNext, BridgeFits, BP!WaitingNext
<1> QED
  BY <1>1, RulesTypeInit, PTL DEF Spec

\* The requests of the two processes use the scheduler as its specification says, a
\* request that makes several calls in a row included, so what is proved of the
\* scheduler holds of them.
THEOREM RequestsUseTheBridge == Spec => B!Spec
<1>1. Init => B!Init
  BY DEF Init
<1>2. TypeOK /\ [Next]_vars => [B!Next]_B!vars
  BY StepsOfTheBridge DEF bridgeVars, B!vars
<1> QED
  BY <1>1, <1>2, RulesAreTyped, PTL DEF Spec, B!Spec

LEMMA SpecOfTheBridge == Spec => BP!Spec
<1>1. Init => BP!Init
  BY SameInit DEF Init
<1>2. TypeOK /\ [Next]_vars => [BP!Next]_BP!vars
  BY BridgeSteps
<1> QED
  BY <1>1, <1>2, RulesAreTyped, PTL DEF Spec, BP!Spec

\* What the scheduler's theorems give.
BridgeOK ==
    /\ BP!TypeOK /\ BP!WaitingOK /\ BP!NoIdleWait /\ BP!ChildLeased /\ BP!LeaseLimits
    /\ BP!CountsMatch

LEMMA BridgeIsOK == Spec => []BridgeOK
<1>1. Spec => []BP!TypeOK /\ []BP!WaitingOK /\ []BP!NoIdleWait
  BY SpecOfTheBridge, BridgeFits, BP!TypeCorrect, BP!WaitingIsListed, BP!NothingWaitsForRoom, PTL
<1>2. Spec => []BP!ChildLeased /\ []BP!LeaseLimits /\ []BP!CountsMatch
  BY SpecOfTheBridge, BridgeFits, BP!ChildrenAreLeased, BP!LeasesWithinLimits, BP!PlacesAreKept, PTL
<1>3. BP!TypeOK /\ BP!WaitingOK /\ BP!NoIdleWait /\ BP!ChildLeased /\ BP!LeaseLimits
        /\ BP!CountsMatch => BridgeOK
  BY DEF BridgeOK
<1> QED
  BY <1>1, <1>2, <1>3, PTL

(***************************************************************************)
(* What a request holds, and no lost change.                               *)
(***************************************************************************)

\* What a request that projects holds is a set the row had: at its revision, the
\* row has it still.
HoldsRow(r) ==
    req[r].step \in Replacing =>
        /\ req[r].rev \in 1..row.rev
        /\ req[r].rev = row.rev => req[r].rules = row.rules
\* What a request is about to do with the rules it waits for.
Reading == {"listing", "projecting"}
Intends(r) ==
    req[r].step \in Reading =>
        /\ req[r].op \in {"put", "drop"} => Cardinality(req[r].arg) = 1
        /\ r \notin WebRequests => req[r].op = "context"
RequestOK(r) ==
    /\ HoldsRow(r) /\ Intends(r)
    /\ req[r].step \in {"wrote", "imported"} => r \in WebRequests
    /\ req[r].step = "checking" => row.rev # 0
    /\ phase[r] = "queued" => r \notin done
RequestsOK == \A r \in Requests : RequestOK(r)
DraftOK    == draft.open => row.rev # 0

\* Revisions grow, and a revision keeps its rules.
RowGrows == row'.rev >= row.rev /\ (row'.rev = row.rev => row'.rules = row.rules)

LEMMA OthersKeep ==
    ASSUME row \in RowType, row' \in RowType, RowGrows, NEW b, RequestOK(b), req'[b] = req[b],
           phase'[b] = "queued" => phase[b] = "queued", b \in done' => b \in done
    PROVE  RequestOK(b)'
<1>1. row.rev \in Nat /\ row'.rev \in Nat
  BY DEF RowType
<1>2. HoldsRow(b)'
  BY <1>1 DEF RequestOK, HoldsRow, RowGrows
<1>3. (req'[b].step = "checking" => row'.rev # 0)
  BY <1>1 DEF RequestOK, RowGrows
<1> QED
  BY <1>2, <1>3 DEF RequestOK, Intends

\* The request that acts holds what its record says.
RecordOK(r, record) ==
    /\ record.step \in Replacing => record.rev = row'.rev /\ record.rules = row'.rules
                                    /\ row'.rev # 0
    /\ record.step \in Reading =>
          /\ record.op \in {"put", "drop"} => Cardinality(record.arg) = 1
          /\ r \notin WebRequests => record.op = "context"
    /\ record.step \in {"wrote", "imported"} => r \in WebRequests
    /\ record.step = "checking" => row'.rev # 0

LEMMA ActorKeeps ==
    ASSUME TypeOK, StepTyped, NEW r \in Requests, NEW record, RecordOK(r, record),
           req' = [req EXCEPT ![r] = record], done' = done \ {r}
    PROVE  RequestOK(r)'
<1>1. row'.rev \in Nat
  BY DEF StepTyped, RowType
<1>2. req'[r] = record /\ r \notin done'
  BY TypeParts DEF DataTyped
<1>3. HoldsRow(r)'
  BY <1>1, <1>2 DEF HoldsRow, RecordOK
<1>4. Intends(r)'
  BY <1>2 DEF Intends, RecordOK
<1> QED
  BY <1>2, <1>3, <1>4 DEF RequestOK, RecordOK

\* What a request between two waits does to the calls: to its own only.
Acts(r, record) == Call(r, record) \/ (Over(r) /\ record = Idle)

LEMMA ActsPhase ==
    ASSUME TypeOK, NEW r \in Requests, NEW record, Acts(r, record)
    PROVE  /\ req' = [req EXCEPT ![r] = record] /\ done' = done \ {r}
           /\ \E now \in {"running", "queued", "failed", "idle"} :
                 phase' = [phase EXCEPT ![r] = now]
<1>1. CASE Call(r, record)
  BY <1>1, ScheduledPhase DEF Call
<1>2. CASE Over(r) /\ record = Idle
  <2>1. phase' = [phase EXCEPT ![r] = "idle"]
    BY <1>2, TypeParts, Phases DEF Over, bridgeVars, B!Return
  <2> QED
    BY <1>2, <2>1 DEF Over
<1> QED
  BY <1>1, <1>2 DEF Acts

LEMMA RequestsKeep ==
    ASSUME TypeOK, StepTyped, RequestsOK, RowGrows, NEW r \in Requests, NEW record,
           Acts(r, record), RecordOK(r, record)
    PROVE  RequestsOK'
<1>1. /\ req' = [req EXCEPT ![r] = record] /\ done' = done \ {r}
      /\ \E now \in {"running", "queued", "failed", "idle"} : phase' = [phase EXCEPT ![r] = now]
  BY ActsPhase
<1>2. RequestOK(r)'
  BY <1>1, ActorKeeps
<1>3. ASSUME NEW b \in Requests, b # r PROVE RequestOK(b)'
  <2>1. row \in RowType /\ row' \in RowType /\ req \in [Requests -> ReqType]
        /\ phase \in [Requests -> B!Phase]
    BY TypeParts, Phases DEF StepTyped, DataTyped
  <2>2. req'[b] = req[b] /\ phase'[b] = phase[b] /\ (b \in done' => b \in done)
    BY <1>1, <1>3, <2>1
  <2>3. RequestOK(b)
    BY DEF RequestsOK
  <2> QED
    BY <2>1, <2>2, <2>3, OthersKeep
<1>4. \A b \in Requests : RequestOK(b)'
  BY <1>2, <1>3
<1> QED
  BY <1>4 DEF RequestsOK, RequestOK, HoldsRow, Intends

LEMMA IdleRecord == ASSUME NEW r PROVE RecordOK(r, Idle)
BY DEF RecordOK, Idle, Replacing, Reading

\* The rules a request goes on with, and the row it found.
Good(now, rules, rev) == rev \in 1..now.rev /\ (rev = now.rev => rules = now.rules)
\* What the request may ask for.
MayAsk(r, op, arg) ==
    /\ op \in {"put", "drop"} => Cardinality(arg) = 1
    /\ r \notin WebRequests => op = "context"
\* The row, as the request found it or has just made it.
Found(now) == now.rev >= row.rev /\ (now.rev = row.rev => now.rules = row.rules)
                                 /\ (row.rev # 0 => now.rev = row.rev)

\* At most the rule asked for is another one.
OneRule(before, after) == Cardinality((before \ after) \union (after \ before)) <= 1
Imported == draft.open /\ ~draft'.open /\ row'.rules = draft.rules
\* The row the request found, or a new revision of it, which is not projected yet.
RowChange(now) ==
    \/ row' = now
    \/ /\ row'.rev = now.rev + 1 /\ row'.projected = 0
       /\ Imported \/ OneRule(now.rules, row'.rules)
\* Where the row comes from that the request goes on with.
From(r, now) ==
    \/ now = row
    \/ row.rev = 0 /\ Answers(r, "listing") /\ now = Inserted(r)
    \/ /\ Resumes(r, "ok") /\ req[r].step \in Replacing
       /\ now = Marked(row, req[r].rev, req[r].rules)

\* What a request does between two waits, for the invariants.
Moves(r, record, now) ==
    /\ Acts(r, record) /\ RecordOK(r, record)
    /\ From(r, now) /\ RowChange(now) /\ RowGrows
    /\ DraftOK'

LEMMA OneRuleChanged ==
    ASSUME NEW rules \in Rules, NEW arg \in Rules, Cardinality(arg) = 1,
           NEW changed \in {rules \union arg, rules \ arg}
    PROVE  OneRule(rules, changed)
<1> DEFINE other == (rules \ changed) \union (changed \ rules)
<1>1. other \subseteq arg
  OBVIOUS
<1>2. IsFiniteSet(arg)
  BY AccountRulesAssumption, FS_Subset DEF Rules
<1>3. Cardinality(other) <= Cardinality(arg)
  BY <1>1, <1>2, FS_Subset
<1> QED
  BY <1>3 DEF OneRule

LEMMA FromFacts ==
    ASSUME TypeOK, NEW r \in Requests, NEW now, From(r, now)
    PROVE  now \in RowType /\ Found(now)
<1>1. row \in RowType /\ req[r].rules \in Rules /\ req[r].rev \in Nat
  BY TypeParts DEF DataTyped, ReqType
<1>2. CASE now = row
  BY <1>1, <1>2 DEF Found, RowType
<1>3. CASE row.rev = 0 /\ now = Inserted(r)
  <2>1. Inserted(r) \in RowType
    BY InsertedTyped
  <2> QED
    BY <1>3, <2>1 DEF Found, Inserted
<1>4. CASE now = Marked(row, req[r].rev, req[r].rules)
  <2>1. now \in RowType /\ now.rev = row.rev /\ now.rules = row.rules
    BY <1>1, <1>4, MarkedTyped
  <2> QED
    BY <1>1, <2>1 DEF Found, RowType
<1> QED
  BY <1>2, <1>3, <1>4 DEF From

LEMMA Grows ==
    ASSUME row \in RowType, NEW now \in RowType, Found(now), RowChange(now)
    PROVE  RowGrows /\ (now.rev # 0 => row'.rev # 0)
<1>1. row.rev \in Nat /\ now.rev \in Nat
  BY DEF RowType
<1> QED
  BY <1>1 DEF Found, RowChange, RowGrows

LEMMA OutcomeMoves ==
    ASSUME TypeOK, DraftOK, NEW r \in Requests, NEW op \in Op, NEW arg \in Rules, NEW now,
           From(r, now), NEW rules \in Rules, NEW rev \in Nat, now.rev # 0,
           Good(now, rules, rev), MayAsk(r, op, arg), Outcome(r, op, arg, now, rules, rev)
    PROVE  \E record : Moves(r, record, now)
<1>0. now \in RowType /\ Found(now) /\ row \in RowType
  BY FromFacts, TypeParts DEF DataTyped
<1>1. CASE Previews(r, op, arg, now, rules, rev)
  <2> DEFINE record == Held("previewing", op, arg, rules, rev)
  <2>1. Call(r, record) /\ row' = now /\ draft' = draft
    BY <1>1 DEF Previews
  <2>2. RecordOK(r, record)
    BY DEF RecordOK, Held, Replacing, Reading
  <2>3. RowChange(now) /\ RowGrows /\ row'.rev # 0
    BY <1>0, <2>1, Grows DEF RowChange
  <2>4. DraftOK'
    BY <2>3 DEF DraftOK
  <2> QED
    BY <2>1, <2>2, <2>3, <2>4 DEF Moves, Acts
<1>2. CASE Writes(r, op, arg, now, rules, rev)
  <2>1. PICK changed \in {rules \union arg, rules \ arg} :
           /\ row' = [rev |-> rev + 1, rules |-> changed, projected |-> 0, image |-> {}]
           /\ Call(r, Held("wrote", op, arg, changed, rev + 1))
    BY <1>2 DEF Writes
  <2>2. op \in {"put", "drop"} /\ now.rev = rev /\ draft' = draft
    BY <1>2 DEF Writes
  <2>3. Cardinality(arg) = 1 /\ r \in WebRequests /\ now.rules = rules
    BY <2>2 DEF MayAsk, Good
  <2>4. RecordOK(r, Held("wrote", op, arg, changed, rev + 1))
    BY <2>1, <2>3 DEF RecordOK, Held, Replacing, Reading
  <2>5. row'.rev = now.rev + 1 /\ row'.projected = 0 /\ row'.rules = changed
    BY <2>1, <2>2
  <2>6. RowChange(now)
    BY <2>1, <2>3, <2>5, OneRuleChanged DEF RowChange
  <2>7. RowGrows /\ row'.rev # 0
    BY <1>0, <2>6, Grows
  <2>8. DraftOK'
    BY <2>7 DEF DraftOK
  <2> QED
    BY <2>1, <2>4, <2>6, <2>7, <2>8 DEF Moves, Acts
<1>3. CASE Checks(r, op, arg, now, rules, rev)
  <2> DEFINE record == Held("checking", op, arg, rules, rev)
  <2>1. Call(r, record) /\ row' = now /\ draft' = draft
    BY <1>3 DEF Checks
  <2>2. RowChange(now) /\ RowGrows /\ row'.rev # 0
    BY <1>0, <2>1, Grows DEF RowChange
  <2>3. RecordOK(r, record)
    BY <2>2 DEF RecordOK, Held, Replacing, Reading
  <2>4. DraftOK'
    BY <2>2 DEF DraftOK
  <2> QED
    BY <2>1, <2>2, <2>3, <2>4 DEF Moves, Acts
<1>4. CASE Ends(r, op, arg, now, rules)
  <2>1. Over(r) /\ row' = now
    BY <1>4 DEF Ends
  <2>2. RowChange(now) /\ RowGrows /\ row'.rev # 0
    BY <1>0, <2>1, Grows DEF RowChange
  <2>3. DraftOK'
    BY <2>2 DEF DraftOK
  <2> QED
    BY <2>1, <2>2, <2>3, IdleRecord DEF Moves, Acts
<1> QED
  BY <1>1, <1>2, <1>3, <1>4 DEF Outcome

LEMMA ReadsMoves ==
    ASSUME TypeOK, DraftOK, NEW r \in Requests, NEW op \in Op, NEW arg \in Rules, NEW now,
           From(r, now), MayAsk(r, op, arg), Reads(r, op, arg, now)
    PROVE  \E record : Moves(r, record, now)
<1>0. now \in RowType /\ Found(now) /\ row \in RowType
  BY FromFacts, TypeParts DEF DataTyped
<1>1. now.rev \in Nat /\ now.rules \in Rules
  BY <1>0 DEF RowType
<1>2. CASE Waits(r, op, arg, now)
  <2>1. PICK step \in Reading : /\ Call(r, Held(step, op, arg, now.rules, now.rev))
                                /\ step = "projecting" => now.rev # 0
    BY <1>2 DEF Waits, Reading
  <2>2. row' = now /\ draft' = draft
    BY <1>2 DEF Waits
  <2>3. RowChange(now) /\ RowGrows
    BY <1>0, <2>2, Grows DEF RowChange
  <2>4. RecordOK(r, Held(step, op, arg, now.rules, now.rev))
    BY <2>1, <2>2 DEF RecordOK, Held, Reading, Replacing, MayAsk
  <2>5. DraftOK'
    <3>1. row.rev # 0 => row'.rev # 0
      BY <1>0, <1>1, <2>2 DEF Found
    <3> QED
      BY <2>2, <3>1 DEF DraftOK
  <2> QED
    BY <2>1, <2>3, <2>4, <2>5 DEF Moves, Acts
<1>3. CASE now.rev # 0 /\ Outcome(r, op, arg, now, now.rules, now.rev)
  <2>1. Good(now, now.rules, now.rev)
    BY <1>1, <1>3 DEF Good
  <2> QED
    BY <1>1, <1>3, <2>1, OutcomeMoves
<1> QED
  BY <1>2, <1>3 DEF Reads

LEMMA RequestMoves ==
    ASSUME TypeOK, RequestsOK, DraftOK, NEW r \in Requests, RequestStep(r)
    PROVE  \E record, now : Moves(r, record, now)
<1>0. row \in RowType /\ req[r] \in ReqType /\ RequestOK(r)
  BY TypeParts DEF DataTyped, RequestsOK
<1>1. /\ row.rev \in Nat /\ req[r].op \in Op /\ req[r].arg \in Rules
      /\ req[r].rules \in Rules /\ req[r].rev \in Nat
  BY <1>0 DEF RowType, ReqType
<1>2. CASE \E op, arg : Begins(r, op, arg) /\ Reads(r, op, arg, row)
  <2>1. PICK op, arg : Begins(r, op, arg) /\ Reads(r, op, arg, row)
    BY <1>2
  <2>2. op \in Op /\ arg \in Rules /\ MayAsk(r, op, arg) /\ From(r, row)
    BY <2>1, AccountRulesAssumption DEF Begins, Op, MayAsk, From, Requests
  <2> QED
    BY <2>1, <2>2, ReadsMoves
<1>3. CASE Confirm(r)
  <2> DEFINE record == [step |-> "imported", op |-> "import", arg |-> {},
                        rules |-> draft.rules, rev |-> row.rev + 1]
  <2>1. /\ Call(r, record) /\ r \in WebRequests /\ draft.open /\ draft' = Closed
        /\ row' = [rev |-> row.rev + 1, rules |-> draft.rules, projected |-> 0, image |-> {}]
    BY <1>3 DEF Confirm
  <2>2. RecordOK(r, record)
    BY <1>1, <2>1 DEF RecordOK, Replacing, Reading
  <2>3. RowChange(row)
    BY <2>1 DEF RowChange, Imported, Closed
  <2>4. RowGrows /\ DraftOK'
    BY <1>1, <2>1 DEF RowGrows, DraftOK, Closed
  <2>5. From(r, row)
    BY DEF From
  <2> QED
    BY <2>1, <2>2, <2>3, <2>4, <2>5 DEF Moves, Acts
<1>4. ASSUME Answers(r, "listing") \/ Answers(r, "projecting")
      PROVE  MayAsk(r, req[r].op, req[r].arg)
  BY <1>0, <1>4 DEF Answers, RequestOK, Intends, Reading, MayAsk
<1>5. CASE Answers(r, "listing") /\ row.rev # 0 /\ Reads(r, req[r].op, req[r].arg, row)
  <2>1. From(r, row)
    BY DEF From
  <2> QED
    BY <1>1, <1>4, <1>5, <2>1, ReadsMoves
<1>6. CASE Answers(r, "listing") /\ row.rev = 0 /\ Reads(r, req[r].op, req[r].arg, Inserted(r))
  <2>1. From(r, Inserted(r))
    BY <1>6 DEF From
  <2> QED
    BY <1>1, <1>4, <1>6, <2>1, ReadsMoves
<1>7. ASSUME NEW now, now = Marked(row, req[r].rev, req[r].rules),
             req[r].step \in Replacing, Resumes(r, "ok")
      PROVE  /\ From(r, now) /\ now \in RowType /\ now.rev = row.rev /\ now.rules = row.rules
             /\ Good(now, req[r].rules, req[r].rev) /\ now.rev # 0
  <2>1. now \in RowType /\ now.rev = row.rev /\ now.rules = row.rules
    BY <1>0, <1>1, <1>7, MarkedTyped
  <2>2. req[r].rev \in 1..row.rev /\ (req[r].rev = row.rev => req[r].rules = row.rules)
    BY <1>0, <1>7 DEF RequestOK, HoldsRow
  <2> QED
    BY <1>1, <1>7, <2>1, <2>2 DEF From, Good
<1>8. CASE /\ Answers(r, "projecting")
           /\ Outcome(r, req[r].op, req[r].arg, Marked(row, req[r].rev, req[r].rules),
                      req[r].rules, req[r].rev)
  <2>1. PICK now : now = Marked(row, req[r].rev, req[r].rules)
    OBVIOUS
  <2>2. req[r].step \in Replacing /\ Resumes(r, "ok")
    BY <1>8 DEF Answers, Replacing
  <2> QED
    BY <1>1, <1>4, <1>7, <1>8, <2>1, <2>2, OutcomeMoves
<1>9. CASE Saved(r)
  <2>1. PICK now : now = Marked(row, req[r].rev, req[r].rules)
    OBVIOUS
  <2>2. req[r].step \in Replacing /\ Resumes(r, "ok") /\ row' = now /\ Over(r) /\ draft' = draft
    BY <1>9, <2>1 DEF Saved, Replacing
  <2>3. From(r, now) /\ now.rev = row.rev /\ now.rules = row.rules
    BY <1>7, <2>1, <2>2
  <2>4. RowChange(now) /\ RowGrows /\ DraftOK'
    BY <1>1, <2>2, <2>3 DEF RowChange, RowGrows, DraftOK
  <2> QED
    BY <2>2, <2>3, <2>4, IdleRecord DEF Moves, Acts
<1>10. CASE Drafted(r) \/ Previewed(r) \/ Fails(r)
  <2>1. Over(r) /\ row' = row
    BY <1>10 DEF Drafted, Previewed, Fails, ruleVars
  <2>2. RowChange(row) /\ RowGrows /\ From(r, row)
    BY <1>1, <2>1 DEF RowChange, RowGrows, From
  <2>3. DraftOK'
    <3>1. CASE Drafted(r)
      BY <1>0, <2>1, <3>1 DEF Drafted, RequestOK, DraftOK
    <3>2. CASE Previewed(r) \/ Fails(r)
      BY <3>2 DEF Previewed, Fails, ruleVars, DraftOK
    <3> QED
      BY <1>10, <3>1, <3>2
  <2> QED
    BY <2>1, <2>2, <2>3, IdleRecord DEF Moves, Acts
<1> QED
  BY <1>2, <1>3, <1>5, <1>6, <1>8, <1>9, <1>10 DEF RequestStep

LEMMA RowStays == ASSUME row \in RowType, row' = row PROVE RowGrows /\ row' \in RowType
BY DEF RowGrows, RowType

\* The row, the draft and the records of the requests are left alone.
LeavesRecords ==
    /\ row' = row /\ (draft'.open => draft.open)
    /\ \A b \in Requests : /\ req'[b] = req[b] \/ (req'[b] = Idle /\ phase'[b] # "queued")
                           /\ phase'[b] = "queued" => phase[b] = "queued" /\ b \notin done'

LEMMA RequestsNext ==
    ASSUME TypeOK, BP!WaitingOK, RequestsOK, DraftOK, [Next]_vars
    PROVE  RequestsOK' /\ DraftOK'
<1>0. B!TypeOK /\ row \in RowType /\ req \in [Requests -> ReqType] /\ done \subseteq Requests
      /\ phase \in [Requests -> B!Phase] /\ \A b \in Requests : RequestOK(b)
  BY TypeParts, Phases DEF DataTyped, RequestsOK
<1>1. ASSUME LeavesRecords PROVE RequestsOK' /\ DraftOK'
  <2>0. row' = row /\ (draft'.open => draft.open)
    BY <1>1 DEF LeavesRecords
  <2>1. \A b \in Requests : RequestOK(b)'
    <3> TAKE b \in Requests
    <3>1. CASE req'[b] = Idle /\ phase'[b] # "queued"
      BY <3>1 DEF RequestOK, HoldsRow, Intends, Idle, Replacing, Reading
    <3>2. CASE req'[b] = req[b]
      <4>1. RowGrows /\ row' \in RowType /\ RequestOK(b)
        BY <1>0, <2>0, RowStays
      <4>2. HoldsRow(b)' /\ Intends(b)'
        BY <2>0, <3>2, <4>1 DEF RequestOK, HoldsRow, Intends
      <4> QED
        BY <1>1, <2>0, <3>2, <4>1, <4>2 DEF LeavesRecords, RequestOK
    <3> QED
      BY <1>1, <3>1, <3>2 DEF LeavesRecords
  <2>2. RequestsOK'
    BY <2>1 DEF RequestsOK, RequestOK, HoldsRow, Intends
  <2>3. DraftOK'
    BY <2>0 DEF DraftOK
  <2> QED
    BY <2>2, <2>3
<1>2. \A b \in Requests : phase[b] = "queued" => b \notin done
  BY <1>0 DEF RequestOK
<1>3. CASE UNCHANGED vars
  <2>1. UNCHANGED <<phase, row, req, done, draft>>
    BY <1>3 DEF vars, bridgeVars, ruleVars
  <2>2. LeavesRecords
    BY <1>2, <2>1 DEF LeavesRecords
  <2> QED
    BY <1>1, <2>2
<1>4. ASSUME NEW r \in Requests, RequestStep(r) PROVE RequestsOK' /\ DraftOK'
  <2>1. PICK record, now : Moves(r, record, now)
    BY <1>4, RequestMoves
  <2>2. Acts(r, record) /\ RecordOK(r, record) /\ RowGrows /\ DraftOK'
    BY <2>1 DEF Moves
  <2> QED
    BY <1>4, <2>2, RequestTyped, RequestsKeep
<1>5. ASSUME NEW r \in Requests, Act(r) PROVE RequestsOK' /\ DraftOK'
  <2>1. row' = row /\ draft' = draft /\ phase' = phase /\ phase[r] = "running"
        /\ done' = done \union {r}
    BY <1>5 DEF Act, bridgeVars
  <2>2. CASE req' = req
    <3>1. LeavesRecords
      BY <1>2, <1>5, <2>1, <2>2 DEF LeavesRecords
    <3> QED
      BY <1>1, <3>1
  <2>3. CASE req[r].step = "listing" /\ req' = [req EXCEPT ![r].rules = mirror]
    <3>1. RowGrows /\ row' \in RowType
      BY <1>0, <2>1, RowStays
    <3>2. ASSUME NEW b \in Requests, b # r PROVE RequestOK(b)'
      <4>1. req'[b] = req[b] /\ phase'[b] = phase[b] /\ (b \in done' => b \in done)
        BY <1>0, <2>1, <2>3, <3>2
      <4> QED
        BY <1>0, <3>1, <4>1, OthersKeep
    <3>3. RequestOK(r)'
      <4>1. /\ req'[r].step = "listing" /\ req'[r].op = req[r].op /\ req'[r].arg = req[r].arg
            /\ phase'[r] = "running"
        BY <1>0, <2>1, <2>3 DEF ReqType
      <4>2. HoldsRow(r)' /\ Intends(r)'
        BY <1>0, <2>3, <4>1 DEF RequestOK, HoldsRow, Intends, Replacing, Reading
      <4> QED
        BY <4>1, <4>2 DEF RequestOK
    <3>4. \A b \in Requests : RequestOK(b)'
      BY <3>2, <3>3
    <3>5. RequestsOK'
      BY <3>4 DEF RequestsOK, RequestOK, HoldsRow, Intends
    <3> QED
      BY <2>1, <3>5 DEF DraftOK
  <2> QED
    BY <1>5, <2>2, <2>3 DEF Act
<1>6. ASSUME NEW r \in Requests, NEW ok \in BOOLEAN, Reply(r, ok) PROVE RequestsOK' /\ DraftOK'
  <2>1. /\ phase' = [phase EXCEPT ![r] = IF ok THEN "ok" ELSE "failed"]
        /\ row' = row /\ draft' = draft /\ req' = req /\ done' = done
    BY <1>6 DEF Reply, B!Close, ruleVars
  <2>2. \A b \in Requests : phase'[b] = "queued" => phase[b] = "queued"
    BY <1>0, <2>1
  <2>3. LeavesRecords
    BY <1>2, <2>1, <2>2 DEF LeavesRecords
  <2> QED
    BY <1>1, <2>3
<1>7. ASSUME NEW p \in Processes, Drain(p) PROVE RequestsOK' /\ DraftOK'
  <2>1. row' = row /\ draft' = draft /\ req' = req /\ done' = done
    BY <1>7 DEF Drain, ruleVars
  <2>2. \A b \in Requests : phase'[b] = "queued" => phase[b] = "queued"
    BY <1>0, <1>7, DrainPhase DEF Drain
  <2>3. LeavesRecords
    BY <1>2, <2>1, <2>2 DEF LeavesRecords
  <2> QED
    BY <1>1, <2>3
<1>8. ASSUME NEW p \in Processes, Crash(p) PROVE RequestsOK' /\ DraftOK'
  <2>1. /\ phase' = [c \in Requests |-> IF ProcOf[c] = p THEN "idle" ELSE phase[c]]
        /\ req' = [c \in Requests |-> IF ProcOf[c] = p THEN Idle ELSE req[c]]
        /\ done' \subseteq done /\ row' = row /\ draft' = draft
    BY <1>8 DEF Crash, B!Crash, ruleVars
  <2>2. LeavesRecords
    BY <1>2, <2>1 DEF LeavesRecords
  <2> QED
    BY <1>1, <2>2
<1>9. CASE \/ \E rules \in Rules, written \in BOOLEAN : OrphanEnds(rules, written)
           \/ \E t \in B!Rows : LeaseExpires(t)
           \/ DraftExpires
  <2>1. row' = row /\ phase' = phase /\ req' = req /\ done' = done
        /\ (draft' = draft \/ draft' = Closed)
    BY <1>9 DEF OrphanEnds, LeaseExpires, B!Expire, DraftExpires, bridgeVars, ruleVars
  <2>2. draft'.open => draft.open
    BY <2>1 DEF Closed
  <2>3. LeavesRecords
    BY <1>2, <2>1, <2>2 DEF LeavesRecords
  <2> QED
    BY <1>1, <2>3
<1> QED
  BY <1>3, <1>4, <1>5, <1>6, <1>7, <1>8, <1>9, NextSteps DEF RuleSteps

LEMMA RequestsInit == Init => RequestsOK /\ DraftOK
BY DEF Init, B!Init, RequestsOK, RequestOK, DraftOK, HoldsRow, Intends, Idle, Replacing, Reading,
       Closed, Requests

LEMMA RequestsAreOK == Spec => [](RequestsOK /\ DraftOK)
<1>1. TypeOK /\ BridgeOK /\ RequestsOK /\ DraftOK /\ [Next]_vars => RequestsOK' /\ DraftOK'
  BY RequestsNext DEF BridgeOK
<1> QED
  BY <1>1, RequestsInit, RulesAreTyped, BridgeIsOK, PTL DEF Spec

LEMMA NoLostChangeStep ==
    ASSUME TypeOK, BP!WaitingOK, RequestsOK, DraftOK, [Next]_vars,
           row'.rev # row.rev \/ row'.rules # row.rules, row.rev # 0
    PROVE  /\ row'.rev = row.rev + 1
           /\ \/ draft.open /\ ~draft'.open /\ row'.rules = draft.rules
              \/ Cardinality((row.rules \ row'.rules) \union (row'.rules \ row.rules)) <= 1
<1>1. ASSUME NEW r \in Requests, RequestStep(r)
      PROVE  row'.rev = row.rev + 1 /\ (Imported \/ OneRule(row.rules, row'.rules))
  <2>1. PICK record, now : Moves(r, record, now)
    BY <1>1, RequestMoves
  <2>2. From(r, now) /\ RowChange(now)
    BY <2>1 DEF Moves
  <2>3. now.rev = row.rev /\ now.rules = row.rules
    BY <2>2, FromFacts DEF Found
  <2> QED
    BY <2>2, <2>3 DEF RowChange
<1>2. ASSUME row' = row PROVE FALSE
  BY <1>2
<1>3. CASE UNCHANGED vars
  BY <1>2, <1>3 DEF vars, ruleVars
<1>4. CASE Next
  <2>1. \E r \in Requests : RequestStep(r)
    <3>1. RuleSteps
      BY <1>4, NextSteps
    <3> QED
      BY <1>2, <3>1 DEF RuleSteps, Act, Reply, Drain, Crash, OrphanEnds, LeaseExpires,
                        DraftExpires, ruleVars
  <2> QED
    BY <1>1, <2>1 DEF Imported, OneRule
<1> QED
  BY <1>3, <1>4

\* A revision follows the one before it and changes the one rule that was asked for,
\* unless it is an import that consumes its draft: whatever requests of the two
\* processes do between reading the rules and writing them, no change is lost.
THEOREM NoChangeIsLost == Spec => NoLostChange
<1>1. TypeOK /\ BridgeOK /\ RequestsOK /\ DraftOK /\ [Next]_vars =>
        [(row'.rev # row.rev \/ row'.rules # row.rules) /\ row.rev # 0 =>
          /\ row'.rev = row.rev + 1
          /\ \/ draft.open /\ ~draft'.open /\ row'.rules = draft.rules
             \/ Cardinality((row.rules \ row'.rules) \union (row'.rules \ row.rules)) <= 1]_vars
  BY NoLostChangeStep DEF BridgeOK
<1> QED
  BY <1>1, RulesAreTyped, BridgeIsOK, RequestsAreOK, PTL DEF Spec, NoLostChange

(***************************************************************************)
(* One engine call at a time: what the leases and the queues give when an  *)
(* account may have one child, which is the configuration's default.       *)
(***************************************************************************)

OneChild ==
    \A c, d \in Requests : phase[c] = "running" /\ phase[d] = "running" => c = d

\* The child of a dead process still has its lease row.
OrphanLeases ==
    orphans # {} => \E t \in BP!Rows : lease[t] = Did /\ \A r \in Requests : token[r] # t

LEMMA RunningHoldsRow ==
    ASSUME BridgeOK, NEW c \in Requests, phase[c] = "running"
    PROVE  token[c] \in BP!Rows /\ lease[token[c]] = Did
<1>1. KeyOf[c] = Did /\ Did \in Dids
  BY DEF KeyOf, Dids
<1>2. token[c] # 0 /\ lease[token[c]] = Did
  BY <1>1 DEF BridgeOK, BP!ChildLeased, Dids
<1>3. token[c] \in BP!Rows \union {0}
  BY DEF BridgeOK, BP!TypeOK
<1> QED
  BY <1>2, <1>3

LEMMA OneChildRuns == ASSUME ConcurrencyPerDid = 1, BridgeOK PROVE OneChild
<1> SUFFICES ASSUME NEW c \in Requests, NEW d \in Requests,
                    phase[c] = "running", phase[d] = "running", c # d
             PROVE  FALSE
  BY DEF OneChild
<1>1. /\ token[c] \in BP!Rows /\ lease[token[c]] = Did
      /\ token[d] \in BP!Rows /\ lease[token[d]] = Did
  BY RunningHoldsRow
<1>2. token[c] = token[d]
  BY <1>1, BridgeFits, BP!OneRow DEF BridgeOK, Dids
<1> QED
  BY <1>2 DEF BridgeOK, BP!ChildLeased, KeyOf, Dids

LEMMA OrphansRunAlone ==
    ASSUME ConcurrencyPerDid = 1, BridgeOK, OrphanLeases, orphans # {},
           NEW c \in Requests, phase[c] = "running"
    PROVE  FALSE
<1>1. PICK t \in BP!Rows : lease[t] = Did /\ \A r \in Requests : token[r] # t
  BY DEF OrphanLeases
<1>2. token[c] \in BP!Rows /\ lease[token[c]] = Did
  BY RunningHoldsRow
<1>3. token[c] = t
  BY <1>1, <1>2, BridgeFits, BP!OneRow DEF BridgeOK, Dids
<1> QED
  BY <1>1, <1>3

\* While a child of one process runs, calls of the other one wait only in a drain.
LEMMA WaitsOfOthers ==
    ASSUME ConcurrencyPerDid = 1, BridgeOK, NEW r \in Requests, phase[r] = "running",
           NEW d \in Requests, phase[d] = "queued", ProcOf[d] # ProcOf[r]
    PROVE  draining[ProcOf[d]] /\ queue[ProcOf[d]] # << >>
<1> DEFINE p == ProcOf[d]
<1>1. p \in Processes /\ KeyOf[d] \in BP!Keys
  BY BridgeFits, BP!Places
<1>2. PICK i \in 1..Len(queue[p]) : queue[p][i] = d
  BY DEF BridgeOK, BP!WaitingOK, BP!Found
<1>3. Len(queue[p]) \in Nat /\ DOMAIN queue[p] = 1..Len(queue[p])
  BY <1>1, BridgeFits, BP!QueuesTyped DEF BridgeOK
<1>4. BP!Running(p) = {}
  BY OneChildRuns DEF OneChild, BP!Running, BP!CallsOf
<1>5. BP!HasRoom(p, KeyOf[d])
  BY <1>1, <1>4, BridgeFits, BP!RoomWhenNothingRuns DEF BridgeOK
<1>6. draining[p]
  BY <1>1, <1>2, <1>3, <1>5 DEF BridgeOK, BP!NoIdleWait
<1>7. queue[p] # << >>
  <2>1. ASSUME queue[p] = << >> PROVE FALSE
    <3>1. Len(queue[p]) = 0
      BY <2>1, EmptySeq
    <3> QED
      BY <1>2, <1>3, <3>1
  <2> QED
    BY <2>1
<1> QED
  BY <1>6, <1>7

\* How a step of the scheduler moves the calls and the queues.
PhaseMoves ==
    /\ \A c \in Requests : phase[c] # "queued" /\ phase'[c] = "queued" => phase[c] \in {"idle", "ok"}
    /\ \A c \in Requests : phase[c] # "running" /\ phase'[c] = "running" =>
                              phase[c] \in {"idle", "ok", "queued"}
    /\ \A c \in Requests : phase[c] # "ok" /\ phase'[c] = "ok" => phase[c] = "running"
    /\ \E a : \A b \in Requests \ {a} : phase'[b] \in {phase[b], "idle"}
QueueMoves ==
    \A p \in Processes :
        \/ queue'[p] = queue[p] \/ queue'[p] = << >>
        \/ \E i \in 1..Len(queue[p]) : queue'[p] = BP!RemoveAt(queue[p], i)
        \/ \E c \in Requests : /\ queue'[p] = Append(queue[p], c)
                               /\ phase[c] \in {"idle", "ok"} /\ phase'[c] = "queued"

LEMMA OnePhaseMoves ==
    ASSUME phase \in [Requests -> B!Phase], NEW c \in Requests, NEW now,
           phase' = [phase EXCEPT ![c] = now],
           \/ now \in {"idle", "failed"}
           \/ now \in {"queued", "running"} /\ phase[c] \in {"idle", "ok"}
           \/ now = "running" /\ phase[c] = "queued"
           \/ now = "ok" /\ phase[c] = "running"
    PROVE  PhaseMoves
<1>1. \A b \in Requests \ {c} : phase'[b] = phase[b]
  OBVIOUS
<1>2. \E a : \A b \in Requests \ {a} : phase'[b] \in {phase[b], "idle"}
  BY <1>1
<1>3. \A b \in Requests : b = c \/ phase'[b] = phase[b]
  BY <1>1
<1>4. phase'[c] = now
  OBVIOUS
<1> QED
  BY <1>2, <1>3, <1>4 DEF PhaseMoves

LEMMA BridgeMoves ==
    ASSUME TypeOK, BP!WaitingOK, [BP!Next]_BP!vars
    PROVE  PhaseMoves /\ QueueMoves
<1>0. /\ phase \in [Requests -> B!Phase] /\ B!TypeOK /\ BP!TypeOK
      /\ DOMAIN queue = Processes
  BY TypeParts, Phases, SameTypes DEF B!TypeOK
<1>1. CASE UNCHANGED BP!vars
  <2>1. phase' = phase /\ queue' = queue
    BY <1>1 DEF BP!vars
  <2> QED
    BY <2>1 DEF PhaseMoves, QueueMoves
<1>2. \A c \in Requests : BP!Makes(c) => phase[c] \in {"idle", "ok"}
  BY DEF BP!Makes, BP!Issue, BP!Continue
<1>3. \A c \in Requests : ProcOf[c] \in Processes
  BY BridgeFits, BP!Places
<1>4. ASSUME queue' = queue PROVE QueueMoves
  BY <1>4 DEF QueueMoves
<1>5. ASSUME NEW c \in Requests, BP!Makes(c), BP!Granted(c), queue' = queue
      PROVE  PhaseMoves /\ QueueMoves
  BY <1>0, <1>2, <1>4, <1>5, OnePhaseMoves DEF BP!Granted
<1>6. ASSUME NEW c \in Requests, BP!Makes(c), BP!Refused(c), queue' = queue
      PROVE  PhaseMoves /\ QueueMoves
  BY <1>0, <1>4, <1>6, OnePhaseMoves DEF BP!Refused
<1>7. ASSUME NEW c \in Requests, BP!Makes(c), phase' = [phase EXCEPT ![c] = "queued"],
             queue' = [queue EXCEPT ![ProcOf[c]] = Append(@, c)]
      PROVE  PhaseMoves /\ QueueMoves
  <2>1. PhaseMoves
    BY <1>0, <1>2, <1>7, OnePhaseMoves
  <2>2. phase[c] \in {"idle", "ok"} /\ phase'[c] = "queued"
    BY <1>0, <1>2, <1>7
  <2>3. QueueMoves
    BY <1>0, <1>3, <1>7, <2>2 DEF QueueMoves
  <2> QED
    BY <2>1, <2>3
<1>8. ASSUME NEW c \in Requests, phase' = [phase EXCEPT ![c] = "failed"], queue' = queue
      PROVE  PhaseMoves /\ QueueMoves
  BY <1>0, <1>4, <1>8, OnePhaseMoves
<1>9. ASSUME NEW c \in Requests, NEW ok \in BOOLEAN, BP!Close(c, ok) PROVE PhaseMoves /\ QueueMoves
  <2>1. phase[c] = "running" /\ queue' = queue
    BY <1>9 DEF BP!Close
  <2>2. PICK now \in {"ok", "failed"} : phase' = [phase EXCEPT ![c] = now]
    BY <1>9 DEF BP!Close
  <2> QED
    BY <1>0, <1>4, <2>1, <2>2, OnePhaseMoves
<1>10. ASSUME NEW p \in Processes, NEW i \in DOMAIN queue[p],
              queue' = [queue EXCEPT ![p] = BP!RemoveAt(@, i)],
              BP!Granted(queue[p][i]) \/ BP!Refused(queue[p][i])
       PROVE  PhaseMoves /\ QueueMoves
  <2>1. queue[p][i] \in Requests /\ phase[queue[p][i]] = "queued" /\ i \in 1..Len(queue[p])
    BY <1>0, QueuedCalls
  <2>2. PICK now \in {"running", "failed"} : phase' = [phase EXCEPT ![queue[p][i]] = now]
    BY <1>10 DEF BP!Granted, BP!Refused
  <2>3. PhaseMoves
    BY <1>0, <2>1, <2>2, OnePhaseMoves
  <2>4. QueueMoves
    BY <1>0, <1>10, <2>1 DEF QueueMoves
  <2> QED
    BY <2>3, <2>4
<1>11. ASSUME NEW p \in Processes, BP!DrainEnds(p) PROVE PhaseMoves /\ QueueMoves
  <2>1. phase' = phase /\ queue' = queue
    BY <1>11 DEF BP!DrainEnds
  <2> QED
    BY <2>1 DEF PhaseMoves, QueueMoves
<1>12. ASSUME NEW c \in Requests, BP!Return(c) PROVE PhaseMoves /\ QueueMoves
  BY <1>0, <1>4, <1>12, OnePhaseMoves DEF BP!Return
<1>13. ASSUME NEW p \in Processes, BP!Crash(p) PROVE PhaseMoves /\ QueueMoves
  <2>1. /\ phase' = [c \in Requests |-> IF ProcOf[c] = p THEN "idle" ELSE phase[c]]
        /\ queue' = [queue EXCEPT ![p] = << >>]
    BY <1>13 DEF BP!Crash
  <2>2. \A c \in Requests : phase'[c] \in {phase[c], "idle"}
    BY <2>1
  <2>3. PhaseMoves
    BY <2>2 DEF PhaseMoves
  <2>4. QueueMoves
    BY <1>0, <2>1 DEF QueueMoves
  <2> QED
    BY <2>3, <2>4
<1>14. ASSUME NEW t \in BP!Rows, BP!Expire(t) PROVE PhaseMoves /\ QueueMoves
  <2>1. phase' = phase /\ queue' = queue
    BY <1>14 DEF BP!Expire
  <2> QED
    BY <2>1 DEF PhaseMoves, QueueMoves
<1>15. CASE BP!Next
  <2>1. BP!StepCases
    BY <1>15, BridgeFits, BP!NextCases
  <2> QED
    BY <2>1, <1>5, <1>6, <1>7, <1>8, <1>9, <1>10, <1>11, <1>12, <1>13, <1>14 DEF BP!StepCases
<1> QED
  BY <1>1, <1>15

(***************************************************************************)
(* The calls of a process are made and answered in the order of the        *)
(* revisions they project.                                                 *)
(***************************************************************************)

\* c projects no later revision than d.
NoLater(c, d) ==
    req[c].step \in Replacing /\ req[d].step \in Replacing => req[c].rev <= req[d].rev
QueueOrder ==
    \A p \in Processes : \A h, i \in 1..Len(queue[p]) : \A c, d \in Requests :
        h < i /\ queue[p][h] = c /\ queue[p][i] = d => NoLater(c, d)
StartOrder ==
    \A c, d \in Requests : ProcOf[c] = ProcOf[d] =>
        /\ phase[c] \in {"running", "ok"} /\ phase[d] = "queued" => NoLater(c, d)
        /\ phase[c] = "ok" /\ phase[d] = "running" => NoLater(c, d)
Latest(d) == \A c \in Requests : NoLater(c, d)

KeepsRev(b) == req'[b].step = req[b].step /\ req'[b].rev = req[b].rev
\* A request keeps what it projects, unless it makes a call for the latest revision.
KeepsOrCalls(b) ==
    \/ phase'[b] \in {"idle", "failed"}
    \/ KeepsRev(b) /\ (phase[b] \notin {"idle", "ok"} \/ phase'[b] = phase[b])
    \/ Latest(b)' /\ phase[b] \in {"idle", "ok"} /\ phase'[b] \in {"running", "queued"}
AllKeepOrCall == \A b \in Requests : KeepsOrCalls(b)

LEMMA StillNoLater ==
    ASSUME NEW c, NEW d, NoLater(c, d), KeepsRev(c), KeepsRev(d)
    PROVE  NoLater(c, d)'
BY DEF NoLater, KeepsRev

LEMMA Overtakes ==
    ASSUME TypeOK, BridgeOK, [BP!Next]_BP!vars, NEW c \in Requests, NEW d \in Requests,
           ProcOf[c] = ProcOf[d], c # d, phase[c] # "running", phase'[c] = "running",
           phase[d] = "queued"
    PROVE  /\ phase[c] = "queued"
           /\ \E h, i \in 1..Len(queue[ProcOf[c]]) :
                 queue[ProcOf[c]][h] = c /\ queue[ProcOf[c]][i] = d /\ h < i
<1>1. BP!Next
  BY DEF BP!vars
<1>2. d \in BP!CallsOf(ProcOf[c]) \ {c} /\ KeyOf[d] = KeyOf[c]
  BY DEF BP!CallsOf, KeyOf
<1>3. /\ phase[c] = "queued"
      /\ \E h, i \in DOMAIN queue[ProcOf[c]] :
            queue[ProcOf[c]][h] = c /\ queue[ProcOf[c]][i] = d /\ h < i
  BY <1>1, <1>2, BridgeFits, BP!NoOvertakingStep DEF BridgeOK
<1>4. DOMAIN queue[ProcOf[c]] = 1..Len(queue[ProcOf[c]])
  BY BridgeFits, BP!Places, BP!QueuesTyped DEF BridgeOK
<1> QED
  BY <1>3, <1>4

LEMMA StartOrderNext ==
    ASSUME TypeOK, BridgeOK, OneChild, [BP!Next]_BP!vars, PhaseMoves,
           QueueOrder, StartOrder, AllKeepOrCall
    PROVE  StartOrder'
<1> SUFFICES ASSUME NEW c \in Requests, NEW d \in Requests, ProcOf[c] = ProcOf[d],
                    \/ phase'[c] \in {"running", "ok"} /\ phase'[d] = "queued"
                    \/ phase'[c] = "ok" /\ phase'[d] = "running"
             PROVE  NoLater(c, d)'
  BY DEF StartOrder, NoLater
<1>0. c # d /\ KeepsOrCalls(c) /\ KeepsOrCalls(d)
  BY DEF AllKeepOrCall
<1>1. CASE Latest(d)'
  BY <1>1 DEF Latest, NoLater
<1>2. ASSUME phase[d] = "queued", KeepsRev(d), phase'[c] = "running" PROVE NoLater(c, d)'
  <2>1. CASE phase[c] = "running"
    <3>1. KeepsRev(c)
      BY <1>0, <1>2, <2>1 DEF KeepsOrCalls
    <3> QED
      BY <1>2, <2>1, <3>1, StillNoLater DEF StartOrder
  <2>2. CASE phase[c] # "running"
    <3>1. phase[c] = "queued"
          /\ \E h, i \in 1..Len(queue[ProcOf[c]]) :
                queue[ProcOf[c]][h] = c /\ queue[ProcOf[c]][i] = d /\ h < i
      BY <1>0, <1>2, <2>2, Overtakes
    <3>2. KeepsRev(c) /\ ProcOf[c] \in Processes
      BY <1>0, <1>2, <3>1, BridgeFits, BP!Places DEF KeepsOrCalls
    <3>3. NoLater(c, d)
      BY <3>1, <3>2 DEF QueueOrder
    <3> QED
      BY <1>2, <3>2, <3>3, StillNoLater
  <2> QED
    BY <2>1, <2>2
<1>3. ASSUME phase'[c] = "ok"
      PROVE  KeepsRev(c) /\ phase[c] \in {"ok", "running"}
  BY <1>0, <1>3 DEF KeepsOrCalls, PhaseMoves
<1>4. CASE phase'[d] = "queued" /\ ~Latest(d)'
  <2>1. KeepsRev(d) /\ phase[d] = "queued"
    BY <1>0, <1>4 DEF KeepsOrCalls, PhaseMoves
  <2>2. CASE phase'[c] = "running"
    BY <1>2, <2>1, <2>2
  <2>3. CASE phase'[c] = "ok"
    <3>1. KeepsRev(c) /\ phase[c] \in {"ok", "running"}
      BY <1>3, <2>3
    <3>2. NoLater(c, d)
      BY <2>1, <3>1 DEF StartOrder
    <3> QED
      BY <2>1, <3>1, <3>2, StillNoLater
  <2> QED
    BY <1>4, <2>2, <2>3
<1>5. CASE phase'[c] = "ok" /\ phase'[d] = "running" /\ ~Latest(d)'
  <2>1. KeepsRev(c) /\ phase[c] \in {"ok", "running"}
    BY <1>3, <1>5
  <2>2. KeepsRev(d) /\ phase[d] \in {"queued", "running"}
    BY <1>0, <1>5 DEF KeepsOrCalls, PhaseMoves
  <2>3. CASE phase[c] = "ok"
    <3>1. NoLater(c, d)
      BY <2>2, <2>3 DEF StartOrder
    <3> QED
      BY <2>1, <2>2, <3>1, StillNoLater
  <2>4. CASE phase[c] = "running"
    <3>1. PICK a : \A b \in Requests \ {a} : phase'[b] \in {phase[b], "idle"}
      BY DEF PhaseMoves
    <3>2. c = a
      BY <1>5, <2>4, <3>1
    <3>3. phase[d] = "running"
      BY <1>0, <1>5, <3>1, <3>2
    <3> QED
      BY <1>0, <2>4, <3>3 DEF OneChild
  <2> QED
    BY <2>1, <2>3, <2>4
<1> QED
  BY <1>1, <1>4, <1>5

LEMMA QueueOrderNext ==
    ASSUME TypeOK, BridgeOK, BP!TypeOK', BP!WaitingOK', QueueMoves, QueueOrder, AllKeepOrCall
    PROVE  QueueOrder'
<1> SUFFICES ASSUME NEW p \in Processes, NEW h \in 1..Len(queue'[p]), NEW i \in 1..Len(queue'[p]),
                    NEW c \in Requests, NEW d \in Requests,
                    h < i, queue'[p][h] = c, queue'[p][i] = d
             PROVE  NoLater(c, d)'
  BY DEF QueueOrder, NoLater
<1>0. BP!TypeOK /\ BP!WaitingOK
  BY DEF BridgeOK
<1>1. /\ queue[p] \in Seq(Requests) /\ Len(queue[p]) \in Nat
      /\ \A j \in 1..Len(queue[p]) : queue[p][j] \in Requests /\ phase[queue[p][j]] = "queued"
  BY <1>0, BridgeFits, BP!QueuesTyped DEF BP!WaitingOK, BP!Listed
<1>2. phase'[c] = "queued" /\ phase'[d] = "queued"
  BY DEF BP!WaitingOK, BP!Listed
\* A call that waited before keeps what it projects.
<1>3. ASSUME NEW b \in Requests, phase[b] = "queued", phase'[b] = "queued" PROVE KeepsRev(b)
  BY <1>3 DEF AllKeepOrCall, KeepsOrCalls
<1>4. ASSUME NEW g \in 1..Len(queue[p]), NEW j \in 1..Len(queue[p]), g < j,
             queue[p][g] = c, queue[p][j] = d
      PROVE  NoLater(c, d)'
  <2>1. NoLater(c, d) /\ phase[c] = "queued" /\ phase[d] = "queued"
    BY <1>1, <1>4 DEF QueueOrder
  <2> QED
    BY <1>2, <1>3, <2>1, StillNoLater
<1>5. CASE queue'[p] = queue[p]
  BY <1>4, <1>5
<1>6. CASE queue'[p] = << >>
  <2>1. Len(queue'[p]) = 0
    BY <1>6, EmptySeq
  <2> QED
    BY <2>1
<1>7. CASE \E j \in 1..Len(queue[p]) : queue'[p] = BP!RemoveAt(queue[p], j)
  <2>1. PICK j \in 1..Len(queue[p]) : queue'[p] = BP!RemoveAt(queue[p], j)
    BY <1>7
  <2>2. /\ Len(queue'[p]) = Len(queue[p]) - 1
        /\ \A g \in 1..(Len(queue[p]) - 1) :
              queue'[p][g] = IF g < j THEN queue[p][g] ELSE queue[p][g + 1]
    <3>1. \A s \in Seq(Requests) : \A k \in 1..Len(s) :
             /\ Len(BP!RemoveAt(s, k)) = Len(s) - 1
             /\ \A g \in 1..(Len(s) - 1) :
                   BP!RemoveAt(s, k)[g] = IF g < k THEN s[g] ELSE s[g + 1]
      BY BridgeFits, BP!RemoveFacts, Zenon
    <3>2. /\ Len(BP!RemoveAt(queue[p], j)) = Len(queue[p]) - 1
          /\ \A g \in 1..(Len(queue[p]) - 1) :
                BP!RemoveAt(queue[p], j)[g] = IF g < j THEN queue[p][g] ELSE queue[p][g + 1]
      BY <1>1, <3>1, Zenon
    <3> QED
      BY <2>1, <3>2, Zenon
  <2>3. PICK before : before = [g \in 1..(Len(queue[p]) - 1) |-> IF g < j THEN g ELSE g + 1]
    OBVIOUS
  <2>4. h \in 1..(Len(queue[p]) - 1) /\ i \in 1..(Len(queue[p]) - 1)
    BY <2>2
  <2>5. before[h] \in 1..Len(queue[p]) /\ before[i] \in 1..Len(queue[p]) /\ before[h] < before[i]
    BY <1>1, <2>3, <2>4
  <2>6. queue[p][before[h]] = c /\ queue[p][before[i]] = d
    BY <2>2, <2>3, <2>4
  <2> QED
    BY <1>4, <2>5, <2>6
<1>8. CASE \E b \in Requests : /\ queue'[p] = Append(queue[p], b)
                               /\ phase[b] \in {"idle", "ok"} /\ phase'[b] = "queued"
  <2>1. PICK b \in Requests : /\ queue'[p] = Append(queue[p], b)
                              /\ phase[b] \in {"idle", "ok"} /\ phase'[b] = "queued"
    BY <1>8
  <2>2. /\ Len(queue'[p]) = Len(queue[p]) + 1 /\ queue'[p][Len(queue[p]) + 1] = b
        /\ \A j \in 1..Len(queue[p]) : queue'[p][j] = queue[p][j]
    BY <1>1, <2>1, AppendProperties
  <2>3. CASE i = Len(queue[p]) + 1
    <3>1. d = b
      BY <2>2, <2>3
    <3>2. Latest(d)'
      BY <2>1, <3>1 DEF AllKeepOrCall, KeepsOrCalls
    <3> QED
      BY <3>2 DEF Latest, NoLater
  <2>4. CASE i # Len(queue[p]) + 1
    <3>1. h \in 1..Len(queue[p]) /\ i \in 1..Len(queue[p])
      BY <1>1, <2>2, <2>4
    <3> QED
      BY <1>4, <2>2, <3>1
  <2> QED
    BY <2>3, <2>4
<1> QED
  BY <1>5, <1>6, <1>7, <1>8 DEF QueueMoves

LEMMA RequestStepPhase ==
    ASSUME TypeOK, NEW r \in Requests, RequestStep(r)
    PROVE  phase[r] \in {"idle", "ok", "failed"}
<1>1. Busy
  BY TypeParts
<1> QED
  BY <1>1 DEF RequestStep, Begins, Confirm, Answers, Resumes, Saved, Drafted, Previewed, Fails, Busy

LEMMA LatestRecord ==
    ASSUME TypeOK, StepTyped, RequestsOK', NEW r \in Requests, NEW record, RecordOK(r, record),
           req' = [req EXCEPT ![r] = record]
    PROVE  Latest(r)'
<1> SUFFICES ASSUME NEW c \in Requests PROVE NoLater(c, r)'
  BY DEF Latest, NoLater
<1>1. HoldsRow(c)' /\ row'.rev \in Nat /\ req'[r] = record
  BY TypeParts DEF RequestsOK, RequestOK, HoldsRow, DataTyped, StepTyped, RowType
<1> QED
  BY <1>1 DEF NoLater, HoldsRow, RecordOK

LEMMA KeepOrCallNext ==
    ASSUME TypeOK, BP!WaitingOK, RequestsOK, DraftOK, RequestsOK', [Next]_vars
    PROVE  AllKeepOrCall
<1>0. /\ phase \in [Requests -> B!Phase] /\ req \in [Requests -> ReqType] /\ B!TypeOK
      /\ PhaseMoves
  BY TypeParts, Phases, BridgeSteps, BridgeMoves DEF DataTyped
<1>1. ASSUME phase' = phase, \A b \in Requests : KeepsRev(b) PROVE AllKeepOrCall
  BY <1>1 DEF AllKeepOrCall, KeepsOrCalls
<1>2. ASSUME req' = req PROVE \A b \in Requests : KeepsRev(b)
  BY <1>2 DEF KeepsRev
<1>3. CASE UNCHANGED vars
  BY <1>1, <1>2, <1>3 DEF vars, bridgeVars
<1>4. ASSUME NEW r \in Requests, RequestStep(r) PROVE AllKeepOrCall
  <2>1. PICK record, now : Moves(r, record, now)
    BY <1>4, RequestMoves
  <2>2. Acts(r, record) /\ RecordOK(r, record)
    BY <2>1 DEF Moves
  <2>3. PICK state \in {"running", "queued", "failed", "idle"} : phase' = [phase EXCEPT ![r] = state]
    BY <2>2, ActsPhase
  <2>4. req' = [req EXCEPT ![r] = record] /\ StepTyped
    BY <1>4, <2>2, ActsPhase, RequestTyped
  <2>5. ASSUME NEW b \in Requests, b # r PROVE KeepsOrCalls(b)
    BY <1>0, <2>3, <2>4, <2>5 DEF KeepsOrCalls, KeepsRev
  <2>6. KeepsOrCalls(r)
    <3>1. Latest(r)' /\ phase'[r] = state
      BY <1>0, <2>2, <2>3, <2>4, LatestRecord
    <3>2. phase[r] \in {"idle", "ok", "failed"}
      BY <1>4, RequestStepPhase
    <3> QED
      BY <1>0, <3>1, <3>2 DEF KeepsOrCalls, PhaseMoves
  <2> QED
    BY <2>5, <2>6 DEF AllKeepOrCall
<1>5. ASSUME NEW r \in Requests, Act(r) PROVE AllKeepOrCall
  <2>1. phase' = phase /\ (req' = req \/ req' = [req EXCEPT ![r].rules = mirror])
    BY <1>5 DEF Act, bridgeVars
  <2>2. \A b \in Requests : KeepsRev(b)
    BY <1>0, <2>1 DEF KeepsRev, ReqType
  <2> QED
    BY <1>1, <2>1, <2>2
<1>6. ASSUME NEW r \in Requests, NEW ok \in BOOLEAN, Reply(r, ok) PROVE AllKeepOrCall
  <2>1. /\ phase' = [phase EXCEPT ![r] = IF ok THEN "ok" ELSE "failed"] /\ phase[r] = "running"
        /\ req' = req
    BY <1>6 DEF Reply, B!Close
  <2> QED
    BY <1>0, <1>2, <2>1 DEF AllKeepOrCall, KeepsOrCalls
<1>7. ASSUME NEW p \in Processes, Drain(p) PROVE AllKeepOrCall
  <2>1. req' = req
    BY <1>7 DEF Drain
  <2>2. CASE phase' = phase
    BY <1>1, <1>2, <2>1, <2>2
  <2>3. CASE \E c \in Requests, now \in {"running", "failed"} :
                phase[c] = "queued" /\ phase' = [phase EXCEPT ![c] = now]
    BY <1>0, <1>2, <2>1, <2>3 DEF AllKeepOrCall, KeepsOrCalls
  <2> QED
    BY <1>0, <1>7, <2>2, <2>3, DrainPhase DEF Drain
<1>8. ASSUME NEW p \in Processes, Crash(p) PROVE AllKeepOrCall
  <2>1. /\ phase' = [c \in Requests |-> IF ProcOf[c] = p THEN "idle" ELSE phase[c]]
        /\ req' = [c \in Requests |-> IF ProcOf[c] = p THEN Idle ELSE req[c]]
    BY <1>8 DEF Crash, B!Crash
  <2>2. \A b \in Requests : KeepsOrCalls(b)
    BY <2>1 DEF KeepsOrCalls, KeepsRev
  <2> QED
    BY <2>2 DEF AllKeepOrCall
<1>9. CASE \/ \E rules \in Rules, written \in BOOLEAN : OrphanEnds(rules, written)
           \/ \E t \in B!Rows : LeaseExpires(t)
           \/ DraftExpires
  <2>1. phase' = phase /\ req' = req
    BY <1>9 DEF OrphanEnds, LeaseExpires, B!Expire, DraftExpires, bridgeVars
  <2> QED
    BY <1>1, <1>2, <2>1
<1> QED
  BY <1>3, <1>4, <1>5, <1>6, <1>7, <1>8, <1>9, NextSteps DEF RuleSteps

\* A process answers one call at a time.
OneOk ==
    \A c, d \in Requests :
        phase[c] = "ok" /\ phase[d] = "ok" /\ ProcOf[c] = ProcOf[d] => c = d

LEMMA OneOkNext ==
    ASSUME TypeOK, BP!WaitingOK, RequestsOK, DraftOK, OneOk, [Next]_vars
    PROVE  OneOk'
<1>0. phase \in [Requests -> B!Phase] /\ B!TypeOK
  BY TypeParts, Phases
<1>1. ASSUME \A b \in Requests : phase'[b] = "ok" => phase[b] = "ok" PROVE OneOk'
  BY <1>1 DEF OneOk
<1>2. CASE UNCHANGED vars
  BY <1>1, <1>2 DEF vars, bridgeVars
<1>3. ASSUME NEW r \in Requests, RequestStep(r) PROVE OneOk'
  <2>1. PICK record, now : Moves(r, record, now)
    BY <1>3, RequestMoves
  <2>2. \E state \in {"running", "queued", "failed", "idle"} : phase' = [phase EXCEPT ![r] = state]
    BY <2>1, ActsPhase DEF Moves
  <2> QED
    BY <1>0, <1>1, <2>2
<1>4. ASSUME NEW r \in Requests, NEW ok \in BOOLEAN, Reply(r, ok) PROVE OneOk'
  <2>1. /\ phase' = [phase EXCEPT ![r] = IF ok THEN "ok" ELSE "failed"]
        /\ \A c \in Requests : ProcOf[c] = ProcOf[r] => phase[c] # "ok"
    BY <1>4 DEF Reply, B!Close, B!Quiet, B!CallsOf, B!Settled
  <2> QED
    BY <1>0, <2>1 DEF OneOk
<1>5. ASSUME NEW p \in Processes, Drain(p) PROVE OneOk'
  <2>1. \/ phase' = phase
        \/ \E c \in Requests, now \in {"running", "failed"} :
              phase[c] = "queued" /\ phase' = [phase EXCEPT ![c] = now]
    BY <1>0, <1>5, DrainPhase DEF Drain
  <2> QED
    BY <1>0, <1>1, <2>1
<1>6. ASSUME NEW p \in Processes, Crash(p) PROVE OneOk'
  BY <1>1, <1>6 DEF Crash, B!Crash
<1>7. CASE \/ \E r \in Requests : Act(r)
           \/ \E rules \in Rules, written \in BOOLEAN : OrphanEnds(rules, written)
           \/ \E t \in B!Rows : LeaseExpires(t)
           \/ DraftExpires
  BY <1>1, <1>7 DEF Act, OrphanEnds, LeaseExpires, B!Expire, DraftExpires, bridgeVars
<1> QED
  BY <1>2, <1>3, <1>4, <1>5, <1>6, <1>7, NextSteps DEF RuleSteps

InOrder == QueueOrder /\ StartOrder /\ OneOk

LEMMA InOrderNext ==
    ASSUME ConcurrencyPerDid = 1, TypeOK, BridgeOK, BridgeOK', RequestsOK, DraftOK, RequestsOK',
           InOrder, [Next]_vars
    PROVE  InOrder'
<1>1. BP!WaitingOK /\ BP!TypeOK' /\ BP!WaitingOK' /\ OneChild
  BY OneChildRuns DEF BridgeOK
<1>2. [BP!Next]_BP!vars /\ PhaseMoves /\ QueueMoves /\ AllKeepOrCall
  BY <1>1, BridgeSteps, BridgeMoves, KeepOrCallNext
<1>3. QueueOrder'
  BY <1>1, <1>2, QueueOrderNext DEF InOrder
<1>4. StartOrder'
  BY <1>1, <1>2, StartOrderNext DEF InOrder
<1>5. OneOk'
  BY <1>1, OneOkNext DEF InOrder
<1> QED
  BY <1>3, <1>4, <1>5 DEF InOrder

LEMMA InOrderInit == Init => InOrder
<1> SUFFICES ASSUME Init PROVE InOrder
  OBVIOUS
<1>1. \A c \in Requests : phase[c] = "idle"
  BY DEF Init, B!Init
<1>2. \A p \in Processes : Len(queue[p]) = 0
  BY EmptySeq DEF Init, B!Init
<1>3. QueueOrder
  BY <1>2 DEF QueueOrder
<1> QED
  BY <1>1, <1>3 DEF InOrder, StartOrder, OneOk

(***************************************************************************)
(* The child of a dead process still holds its lease row.                  *)
(***************************************************************************)

Dead(t) == lease[t] = Did /\ \A r \in Requests : token[r] # t

LEMMA DeadAfterGrant ==
    ASSUME BridgeOK, NEW c \in Requests, B!Granted(c), NEW t \in BP!Rows, Dead(t)
    PROVE  Dead(t)'
<1>1. /\ lease \in [BP!Rows -> Dids \union {FreeLease}] /\ token \in [Requests -> BP!Rows \union {0}]
      /\ KeyOf[c] = Did /\ FreeLease # Did /\ BP!Granted(c) /\ BP!TypeOK
  BY AccountRulesAssumption, SameGranted DEF BridgeOK, BP!TypeOK, KeyOf
<1>2. \E u \in BP!Rows : /\ lease[u] = FreeLease /\ lease' = [lease EXCEPT ![u] = Did]
                         /\ token' = [token EXCEPT ![c] = u]
  BY <1>1, BridgeFits, BP!GrantedFacts DEF SystemKeys
<1> QED
  BY <1>1, <1>2 DEF Dead

LEMMA DeadAfterCall ==
    ASSUME BridgeOK, NEW c \in Requests, B!Schedule(c), NEW t \in BP!Rows, Dead(t)
    PROVE  Dead(t)'
<1>1. B!Granted(c) \/ (lease' = lease /\ token' = token)
  BY DEF B!Schedule, B!Refused
<1> QED
  BY <1>1, DeadAfterGrant DEF Dead

LEMMA OrphanLeasesNext ==
    ASSUME TypeOK, BridgeOK, RequestsOK, DraftOK, OrphanLeases, [Next]_vars
    PROVE  OrphanLeases'
<1>0. /\ lease \in [BP!Rows -> Dids \union {FreeLease}] /\ token \in [Requests -> BP!Rows \union {0}]
      /\ 0 \notin BP!Rows /\ B!TypeOK /\ BP!WaitingOK
  BY TypeParts DEF BridgeOK, BP!TypeOK, BP!Rows
<1>1. ASSUME orphans' \subseteq orphans, \A t \in BP!Rows : Dead(t) => Dead(t)'
      PROVE  OrphanLeases'
  BY <1>1 DEF OrphanLeases, Dead
<1>2. ASSUME lease' = lease, token' = token PROVE \A t \in BP!Rows : Dead(t) => Dead(t)'
  BY <1>2 DEF Dead
<1>3. CASE UNCHANGED vars
  BY <1>1, <1>2, <1>3 DEF vars, bridgeVars
<1>4. ASSUME NEW r \in Requests, RequestStep(r), RequestFrame(r) PROVE OrphanLeases'
  <2>1. PICK record, now : Moves(r, record, now)
    BY <1>4, RequestMoves
  <2>2. CASE Over(r)
    <3>1. lease' = lease /\ token' = token
      BY <2>2 DEF Over, bridgeVars, B!Return
    <3> QED
      BY <1>1, <1>2, <1>4, <3>1 DEF RequestFrame
  <2>3. CASE Call(r, record)
    <3>1. \A t \in BP!Rows : Dead(t) => Dead(t)'
      BY <2>3, DeadAfterCall DEF Call
    <3> QED
      BY <1>1, <1>4, <3>1 DEF RequestFrame
  <2> QED
    BY <2>1, <2>2, <2>3 DEF Moves, Acts
<1>5. ASSUME NEW r \in Requests, NEW ok \in BOOLEAN, Reply(r, ok) PROVE OrphanLeases'
  <2>1. /\ lease' = [t \in B!Rows |-> IF t = token[r] THEN FreeLease ELSE lease[t]]
        /\ token' = [token EXCEPT ![r] = 0] /\ orphans' = orphans
    BY <1>5 DEF Reply, B!Close
  <2>2. B!Rows = BP!Rows
    BY DEF B!Rows, BP!Rows
  <2>3. \A t \in BP!Rows : Dead(t) => Dead(t)'
    BY <1>0, <2>1, <2>2 DEF Dead
  <2> QED
    BY <1>1, <2>1, <2>3
<1>6. ASSUME NEW p \in Processes, Drain(p) PROVE OrphanLeases'
  <2>1. orphans' = orphans
    BY <1>6 DEF Drain
  <2>2. CASE B!DrainEnds(p)
    BY <1>1, <1>2, <2>1, <2>2 DEF B!DrainEnds
  <2>3. ASSUME NEW i \in DOMAIN queue[p], B!DrainOne(p, i) PROVE OrphanLeases'
    <3>1. queue[p][i] \in Requests
      BY <1>0, QueuedCalls
    <3>2. B!Granted(queue[p][i]) \/ (lease' = lease /\ token' = token)
      BY <2>3 DEF B!DrainOne, B!Refused
    <3>3. \A t \in BP!Rows : Dead(t) => Dead(t)'
      BY <1>2, <3>1, <3>2, DeadAfterGrant
    <3> QED
      BY <1>1, <2>1, <3>3
  <2> QED
    BY <1>6, <2>2, <2>3 DEF Drain
<1>7. ASSUME NEW p \in Processes, Crash(p) PROVE OrphanLeases'
  <2>1. /\ lease' = lease
        /\ token' = [c \in Requests |-> IF ProcOf[c] = p THEN 0 ELSE token[c]]
        /\ \A rules \in orphans' :
              rules \in orphans \/ \E r \in Requests : ProcOf[r] = p /\ phase[r] = "running"
    BY <1>7 DEF Crash, B!Crash
  <2>2. \A t \in BP!Rows : Dead(t) => Dead(t)'
    BY <1>0, <2>1 DEF Dead
  <2>3. CASE orphans # {}
    BY <2>2, <2>3 DEF OrphanLeases, Dead
  <2>4. ASSUME NEW r \in Requests, ProcOf[r] = p, phase[r] = "running" PROVE OrphanLeases'
    <3>1. token[r] \in BP!Rows /\ lease'[token[r]] = Did
      BY <2>1, <2>4, RunningHoldsRow
    <3>2. \A b \in Requests \ {r} : token[b] # token[r]
      BY <2>4 DEF BridgeOK, BP!ChildLeased, KeyOf, Dids
    <3>3. \A b \in Requests : token'[b] # token[r]
      BY <1>0, <2>1, <2>4, <3>1, <3>2
    <3> QED
      BY <3>1, <3>3 DEF OrphanLeases
  <2>5. CASE orphans' = {}
    BY <2>5 DEF OrphanLeases
  <2> QED
    BY <2>1, <2>3, <2>4, <2>5
<1>8. ASSUME NEW t \in B!Rows, LeaseExpires(t) PROVE OrphanLeases'
  BY <1>8 DEF LeaseExpires, OrphanLeases
<1>9. CASE \/ \E r \in Requests : Act(r)
           \/ \E rules \in Rules, written \in BOOLEAN : OrphanEnds(rules, written)
           \/ DraftExpires
  BY <1>1, <1>2, <1>9 DEF Act, OrphanEnds, DraftExpires, bridgeVars
<1> QED
  BY <1>3, <1>4, <1>5, <1>6, <1>7, <1>8, <1>9, NextSteps DEF RuleSteps

(***************************************************************************)
(* What the engine holds.                                                  *)
(***************************************************************************)

\* While there is no row nobody projects, so what was listed is what the engine holds.
ListedOK ==
    row.rev = 0 =>
        /\ orphans = {}
        /\ \A r \in Requests :
              req[r].step = "listing" /\ (phase[r] = "ok" \/ (phase[r] = "running" /\ r \in done))
                => req[r].rules = mirror

LEMMA ListedNext ==
    ASSUME TypeOK, BP!WaitingOK, RequestsOK, DraftOK, ListedOK, [Next]_vars
    PROVE  ListedOK'
<1>0. /\ phase \in [Requests -> B!Phase] /\ req \in [Requests -> ReqType] /\ B!TypeOK
      /\ row.rev \in Nat /\ done \subseteq Requests
  BY TypeParts, Phases DEF DataTyped, RowType
<1>1. ASSUME row.rev = 0, NEW r \in Requests PROVE req[r].step \notin Replacing
  BY <1>1 DEF RequestsOK, RequestOK, HoldsRow
<1>2. ASSUME row' = row, req' = req, mirror' = mirror, orphans' = orphans,
             \A b \in Requests : /\ phase'[b] = "ok" => phase[b] = "ok"
                                 /\ phase'[b] = "running" /\ b \in done' => phase[b] = "running" /\ b \in done
      PROVE  ListedOK'
  BY <1>2 DEF ListedOK
<1>3. CASE UNCHANGED vars
  BY <1>2, <1>3 DEF vars, bridgeVars, ruleVars
<1>4. ASSUME NEW r \in Requests, RequestStep(r), RequestFrame(r) PROVE ListedOK'
  <2> SUFFICES ASSUME row'.rev = 0 PROVE ListedOK'
    BY DEF ListedOK
  <2>1. PICK record, now : Moves(r, record, now)
    BY <1>4, RequestMoves
  <2>2. row'.rev >= row.rev
    BY <2>1 DEF Moves, RowGrows
  <2>3. row.rev = 0
    BY <1>0, <2>2
  <2>4. req' = [req EXCEPT ![r] = record] /\ done' = done \ {r}
    BY <2>1, ActsPhase DEF Moves
  <2>5. PICK state \in {"running", "queued", "failed", "idle"} : phase' = [phase EXCEPT ![r] = state]
    BY <2>1, ActsPhase DEF Moves
  <2>6. phase'[r] # "ok" /\ r \notin done'
        /\ \A b \in Requests \ {r} : req'[b] = req[b] /\ phase'[b] = phase[b]
                                     /\ (b \in done' => b \in done)
    BY <1>0, <2>4, <2>5
  <2> QED
    BY <1>4, <2>3, <2>6 DEF RequestFrame, ListedOK
<1>5. ASSUME NEW r \in Requests, Act(r) PROVE ListedOK'
  <2> SUFFICES ASSUME row'.rev = 0 PROVE ListedOK'
    BY DEF ListedOK
  <2>1. row.rev = 0 /\ phase' = phase /\ done' = done \union {r} /\ orphans' = orphans
    BY <1>5 DEF Act, bridgeVars
  <2>2. mirror' = mirror /\ req[r].step = "listing"
    BY <1>1, <1>5, <2>1 DEF Act, Works
  <2>3. req' = [req EXCEPT ![r].rules = mirror]
    BY <1>5, <2>2 DEF Act
  <2>4. req'[r].rules = mirror' /\ \A b \in Requests \ {r} : req'[b] = req[b]
    BY <1>0, <2>2, <2>3 DEF ReqType
  <2> QED
    BY <2>1, <2>2, <2>4 DEF ListedOK
<1>6. ASSUME NEW r \in Requests, NEW ok \in BOOLEAN, Reply(r, ok) PROVE ListedOK'
  <2>1. /\ phase' = [phase EXCEPT ![r] = IF ok THEN "ok" ELSE "failed"] /\ phase[r] = "running"
        /\ row' = row /\ req' = req /\ mirror' = mirror /\ orphans' = orphans /\ done' = done
        /\ (ok /\ Works(r) => r \in done)
    BY <1>6 DEF Reply, ruleVars, B!Close
  <2> QED
    BY <1>0, <2>1 DEF ListedOK, Works
<1>7. ASSUME NEW p \in Processes, Drain(p) PROVE ListedOK'
  <2>1. row' = row /\ req' = req /\ mirror' = mirror /\ orphans' = orphans /\ done' = done
    BY <1>7 DEF Drain, ruleVars
  <2>2. \A b \in Requests : phase[b] = "queued" => b \notin done
    BY DEF RequestsOK, RequestOK
  <2>3. \/ phase' = phase
        \/ \E c \in Requests, state \in {"running", "failed"} :
              phase[c] = "queued" /\ phase' = [phase EXCEPT ![c] = state]
    BY <1>0, <1>7, DrainPhase DEF Drain
  <2>4. \A b \in Requests : /\ phase'[b] = "ok" => phase[b] = "ok"
                            /\ phase'[b] = "running" /\ b \in done' => phase[b] = "running" /\ b \in done
    BY <1>0, <2>1, <2>2, <2>3
  <2> QED
    BY <1>2, <2>1, <2>4
<1>8. ASSUME NEW p \in Processes, Crash(p) PROVE ListedOK'
  <2>1. /\ phase' = [c \in Requests |-> IF ProcOf[c] = p THEN "idle" ELSE phase[c]]
        /\ req' = [c \in Requests |-> IF ProcOf[c] = p THEN Idle ELSE req[c]]
        /\ done' \subseteq done /\ row' = row /\ mirror' = mirror
        /\ \A rules \in orphans' : rules \in orphans \/ \E r \in Requests : req[r].step \in Replacing
    BY <1>8 DEF Crash, B!Crash, ruleVars
  <2>2. row.rev = 0 => orphans' = {}
    BY <1>1, <2>1 DEF ListedOK
  <2> QED
    BY <2>1, <2>2 DEF ListedOK
<1>9. ASSUME NEW rules \in Rules, NEW written \in BOOLEAN, OrphanEnds(rules, written) PROVE ListedOK'
  BY <1>9 DEF OrphanEnds, ListedOK
<1>10. CASE (\E t \in B!Rows : LeaseExpires(t)) \/ DraftExpires
  <2>1. row' = row /\ req' = req /\ mirror' = mirror /\ orphans' = orphans /\ done' = done
        /\ phase' = phase
    BY <1>10 DEF LeaseExpires, B!Expire, DraftExpires, bridgeVars, ruleVars
  <2> QED
    BY <1>2, <2>1
<1> QED
  BY <1>3, <1>4, <1>5, <1>6, <1>7, <1>8, <1>9, <1>10, NextSteps DEF RuleSteps

\* The call of c will still write the rules of its revision.
Pending(c) ==
    req[c].step \in Replacing /\ (phase[c] = "queued" \/ (phase[c] = "running" /\ c \notin done))
\* The engine holds the rules of the row, and nobody will write other ones.
Clean ==
    /\ mirror = row.rules /\ orphans \subseteq {row.rules}
    /\ \A c \in Requests : Pending(c) => req[c].rev = row.rev
OfThisRevision(c) == req[c].step \in Replacing /\ req[c].rev = row.rev
ProjectedIsClean == row.rev # 0 /\ Projected(row) => Clean
AnsweredIsClean  == \A c \in Requests : phase[c] = "ok" /\ OfThisRevision(c) => Clean
DoneIsWritten ==
    \A c \in Requests : phase[c] = "running" /\ c \in done /\ OfThisRevision(c) => mirror = row.rules
InStep == ProjectedIsClean /\ AnsweredIsClean /\ DoneIsWritten
Synced == ~overslept => InStep

LEMMA CleanInStep == ASSUME Clean PROVE InStep
BY DEF InStep, ProjectedIsClean, AnsweredIsClean, DoneIsWritten, Clean

\* A step that leaves the row and the engine alone, and with which no call is answered.
LEMMA InStepKept ==
    ASSUME InStep, row' = row, Clean => Clean', mirror' = mirror,
           \A b \in Requests :
              /\ phase'[b] = "ok" /\ req'[b].step \in Replacing =>
                    phase[b] = "ok" /\ req[b].step \in Replacing /\ req'[b].rev = req[b].rev
              /\ phase'[b] = "running" /\ b \in done' /\ req'[b].step \in Replacing =>
                    phase[b] = "running" /\ b \in done /\ req[b].step \in Replacing
                    /\ req'[b].rev = req[b].rev
    PROVE  InStep'
<1>1. ProjectedIsClean'
  BY DEF InStep, ProjectedIsClean, Projected
<1>2. ASSUME NEW b \in Requests, phase'[b] = "ok", OfThisRevision(b)' PROVE Clean'
  <2>1. phase[b] = "ok" /\ OfThisRevision(b)
    BY <1>2 DEF OfThisRevision
  <2> QED
    BY <2>1 DEF InStep, AnsweredIsClean
<1>3. AnsweredIsClean'
  BY <1>2 DEF AnsweredIsClean, OfThisRevision, Clean, Pending
<1>4. DoneIsWritten'
  BY DEF InStep, DoneIsWritten, OfThisRevision
<1> QED
  BY <1>1, <1>3, <1>4 DEF InStep

\* Between two waits of a request.
LEMMA RequestInStep ==
    ASSUME TypeOK, RequestsOK, DraftOK, ListedOK, InStep, NEW r \in Requests, RequestStep(r),
           RequestFrame(r)
    PROVE  InStep'
<1>0. /\ phase \in [Requests -> B!Phase] /\ req \in [Requests -> ReqType]
      /\ row \in RowType /\ row.rev \in Nat /\ StepTyped /\ row'.rev \in Nat
  BY TypeParts, Phases, RequestTyped DEF DataTyped, RowType, StepTyped
<1>1. PICK record, now : Moves(r, record, now)
  BY RequestMoves
<1>2. PICK state \in {"running", "queued", "failed", "idle"} : phase' = [phase EXCEPT ![r] = state]
  BY <1>1, ActsPhase DEF Moves
<1>3. req' = [req EXCEPT ![r] = record] /\ done' = done \ {r} /\ mirror' = mirror /\ orphans' = orphans
  BY <1>1, ActsPhase DEF Moves, RequestFrame
<1>4. /\ phase'[r] # "ok" /\ r \notin done' /\ req'[r] = record
      /\ \A b \in Requests \ {r} : req'[b] = req[b] /\ phase'[b] = phase[b] /\ (b \in done' <=> b \in done)
  BY <1>0, <1>2, <1>3
<1>5. record.step \in Replacing => record.rev = row'.rev
  BY <1>1 DEF Moves, RecordOK
<1>6. ASSUME NEW b \in Requests, req[b].step \in Replacing PROVE req[b].rev \in 1..row.rev
  BY <1>6 DEF RequestsOK, RequestOK, HoldsRow
<1>7. now \in RowType /\ Found(now) /\ From(r, now) /\ RowChange(now)
  BY <1>1, FromFacts DEF Moves
\* The rules and the revision stay: what was clean stays clean.
<1>8. ASSUME Clean, row'.rev = row.rev, row'.rules = row.rules PROVE Clean'
  <2>1. ASSUME NEW c \in Requests, Pending(c)' PROVE req'[c].rev = row'.rev
    <3>1. CASE c = r
      BY <1>4, <1>5, <2>1, <3>1 DEF Pending
    <3>2. CASE c # r
      <4>1. Pending(c)
        BY <1>4, <2>1, <3>2 DEF Pending
      <4> QED
        BY <1>4, <1>8, <3>2, <4>1 DEF Clean
    <3> QED
      BY <3>1, <3>2
  <2> QED
    BY <1>3, <1>8, <2>1 DEF Clean
<1>9. CASE row' = row
  <2>1. Clean => Clean'
    BY <1>8, <1>9
  <2> QED
    BY <1>3, <1>4, <1>9, <2>1, InStepKept
<1>10. CASE row.rev = 0 /\ Answers(r, "listing") /\ row' = Inserted(r)
  <2>1. req[r].rules = mirror /\ orphans = {}
    BY <1>10 DEF Answers, Resumes, ListedOK
  <2>2. row'.rev = 1 /\ row'.rules = mirror
    BY <1>10, <2>1 DEF Inserted
  <2>3. ASSUME NEW c \in Requests, Pending(c)' PROVE req'[c].rev = row'.rev
    <3>1. CASE c = r
      BY <1>4, <1>5, <2>3, <3>1 DEF Pending
    <3>2. CASE c # r
      <4>1. req[c].step \in Replacing
        BY <1>4, <2>3, <3>2 DEF Pending
      <4> QED
        BY <1>6, <1>10, <4>1
    <3> QED
      BY <3>1, <3>2
  <2>4. Clean'
    BY <1>3, <2>1, <2>2, <2>3 DEF Clean
  <2>5. Clean' => InStep'
    BY CleanInStep, PTL
  <2> QED
    BY <2>4, <2>5
<1>11. CASE /\ Resumes(r, "ok") /\ req[r].step \in Replacing
            /\ row' = Marked(row, req[r].rev, req[r].rules) /\ row' # row
  <2>1. req[r].rev = row.rev
    BY <1>11 DEF Marked
  <2>2. Clean
    BY <1>11, <2>1 DEF InStep, AnsweredIsClean, OfThisRevision, Resumes
  <2>3. row'.rev = row.rev /\ row'.rules = row.rules
    <3>1. req[r].rules \in Rules /\ req[r].rev \in Nat
      BY <1>0 DEF ReqType
    <3> QED
      BY <1>0, <1>11, <3>1, MarkedTyped
  <2>4. Clean'
    BY <1>8, <2>2, <2>3
  <2>5. Clean' => InStep'
    BY CleanInStep, PTL
  <2> QED
    BY <2>4, <2>5
\* A new revision is not projected yet, and everybody else projects an older one.
<1>12. CASE row'.rev = now.rev + 1 /\ row'.projected = 0
  <2>1. row'.rev > row.rev /\ row'.rev # 0
    BY <1>0, <1>7, <1>12 DEF Found, RowType
  <2>2. ~Projected(row')
    BY <1>12, <2>1 DEF Projected
  <2>3. ASSUME NEW b \in Requests, b # r, OfThisRevision(b)' PROVE FALSE
    <3>1. req[b].step \in Replacing /\ req[b].rev = row'.rev
      BY <1>4, <2>3 DEF OfThisRevision
    <3> QED
      BY <1>0, <1>6, <2>1, <3>1
  <2>4. ProjectedIsClean'
    BY <2>2 DEF ProjectedIsClean, Projected
  <2>5. AnsweredIsClean'
    BY <1>4, <2>3 DEF AnsweredIsClean, OfThisRevision
  <2>6. DoneIsWritten'
    BY <1>4, <2>3 DEF DoneIsWritten, OfThisRevision
  <2> QED
    BY <2>4, <2>5, <2>6 DEF InStep
<1> QED
  BY <1>7, <1>9, <1>10, <1>11, <1>12 DEF From, RowChange

\* The child of a call writes its rules.
LEMMA ActInStep ==
    ASSUME TypeOK, OneChild, RequestsOK, InStep, NEW r \in Requests, Act(r)
    PROVE  InStep'
<1>0. req \in [Requests -> ReqType] /\ done \subseteq Requests
  BY TypeParts DEF DataTyped
<1>1. /\ phase' = phase /\ row' = row /\ orphans' = orphans /\ done' = done \union {r}
      /\ phase[r] = "running" /\ r \notin done /\ Works(r)
  BY DEF Act, bridgeVars
<1>2. CASE req[r].step = "listing"
  <2>1. mirror' = mirror /\ req' = [req EXCEPT ![r].rules = mirror]
    BY <1>2 DEF Act, Replacing
  <2>2. \A b \in Requests : req'[b].step = req[b].step /\ req'[b].rev = req[b].rev
    BY <1>0, <2>1 DEF ReqType
  <2>3. req'[r].step \notin Replacing
    BY <1>2, <2>2 DEF Replacing
  <2>4. \A c \in Requests : Pending(c)' => Pending(c)
    BY <1>1, <2>2, <2>3 DEF Pending
  <2>5. Clean => Clean'
    BY <1>1, <2>1, <2>2, <2>4 DEF Clean
  <2> QED
    BY <1>1, <2>1, <2>2, <2>3, <2>5, InStepKept
<1>3. CASE req[r].step \in Replacing
  <2>1. mirror' = req[r].rules /\ req' = req
    BY <1>3 DEF Act, Replacing
  <2>2. \A c \in Requests : Pending(c)' => Pending(c)
    BY <1>1, <2>1 DEF Pending
  <2>3. req[r].rev = row.rev => mirror' = row'.rules
    BY <1>1, <1>3, <2>1 DEF RequestsOK, RequestOK, HoldsRow
  <2>4. ASSUME Clean PROVE Clean'
    <3>1. Pending(r)
      BY <1>1, <1>3 DEF Pending
    <3>2. req[r].rev = row.rev
      BY <2>4, <3>1 DEF Clean
    <3> QED
      BY <1>1, <2>1, <2>2, <2>3, <2>4, <3>2 DEF Clean
  <2>5. ProjectedIsClean'
    BY <1>1, <2>4 DEF InStep, ProjectedIsClean, Projected
  <2>6. ASSUME NEW c \in Requests, phase'[c] = "ok", OfThisRevision(c)' PROVE Clean'
    <3>1. phase[c] = "ok" /\ OfThisRevision(c)
      BY <1>1, <2>1, <2>6 DEF OfThisRevision
    <3> QED
      BY <2>4, <3>1 DEF InStep, AnsweredIsClean
  <2>7. AnsweredIsClean'
    BY <2>6 DEF AnsweredIsClean, OfThisRevision, Clean, Pending
  <2>8. ASSUME NEW c \in Requests, phase'[c] = "running", OfThisRevision(c)'
        PROVE  mirror' = row'.rules
    <3>1. c = r /\ req[c].rev = row.rev
      BY <1>1, <2>1, <2>8 DEF OneChild, OfThisRevision
    <3> QED
      BY <2>3, <3>1
  <2>9. DoneIsWritten'
    BY <2>8 DEF DoneIsWritten, OfThisRevision
  <2> QED
    BY <2>5, <2>7, <2>9 DEF InStep
<1> QED
  BY <1>1, <1>2, <1>3 DEF Works

\* The child of a call ends: only calls of its own process wait, for later revisions,
\* unless the other process is still in its drain.
LEMMA ReplyInStep ==
    ASSUME ConcurrencyPerDid = 1, TypeOK, BridgeOK, RequestsOK, OrphanLeases, InOrder, InStep,
           NEW r \in Requests, NEW ok \in BOOLEAN, Reply(r, ok), ~overslept'
    PROVE  InStep'
<1>0. /\ phase \in [Requests -> B!Phase] /\ req \in [Requests -> ReqType] /\ row.rev \in Nat
      /\ OneChild
  BY TypeParts, Phases, OneChildRuns DEF DataTyped, RowType
<1>1. /\ phase[r] = "running" /\ phase' = [phase EXCEPT ![r] = IF ok THEN "ok" ELSE "failed"]
      /\ row' = row /\ mirror' = mirror /\ req' = req /\ done' = done /\ orphans' = orphans
      /\ (ok /\ Works(r) => r \in done)
  BY DEF Reply, B!Close, ruleVars
<1>2. /\ phase'[r] = IF ok THEN "ok" ELSE "failed"
      /\ \A b \in Requests \ {r} : phase'[b] = phase[b]
  BY <1>0, <1>1
<1>3. \A c \in Requests : Pending(c)' => Pending(c) /\ c # r
  BY <1>1, <1>2 DEF Pending
<1>4. Clean => Clean'
  BY <1>1, <1>3 DEF Clean
<1>5. ASSUME ok, OfThisRevision(r) PROVE Clean'
  <2>1. mirror = row.rules
    BY <1>1, <1>5 DEF OfThisRevision, Works, InStep, DoneIsWritten
  <2>2. orphans = {}
    BY <1>1, OrphansRunAlone
  <2>3. ASSUME NEW c \in Requests, Pending(c)' PROVE req'[c].rev = row'.rev
    <3>1. Pending(c) /\ c # r
      BY <1>3, <2>3
    <3>2. phase[c] = "queued"
      BY <1>0, <1>1, <3>1 DEF Pending, OneChild
    <3>3. ProcOf[c] = ProcOf[r]
      <4>1. ASSUME ProcOf[c] # ProcOf[r] PROVE FALSE
        <5>1. draining[ProcOf[c]] /\ queue[ProcOf[c]] # << >>
          BY <1>1, <3>2, <4>1, WaitsOfOthers
        <5>2. ProcOf[c] \in Processes
          BY BridgeFits, BP!Places
        <5> QED
          BY <4>1, <5>1, <5>2 DEF Reply
      <4> QED
        BY <4>1
    <3>4. NoLater(r, c)
      BY <1>1, <3>2, <3>3 DEF InOrder, StartOrder
    <3>5. req[r].rev <= req[c].rev
      BY <1>5, <3>1, <3>4 DEF NoLater, OfThisRevision, Pending
    <3>6. req[c].rev \in 1..row.rev
      BY <3>1 DEF Pending, RequestsOK, RequestOK, HoldsRow
    <3> QED
      BY <1>0, <1>1, <1>5, <3>5, <3>6 DEF OfThisRevision
  <2> QED
    BY <1>1, <2>1, <2>2, <2>3 DEF Clean
<1>6. ProjectedIsClean'
  BY <1>1, <1>4 DEF InStep, ProjectedIsClean, Projected
<1>7. ASSUME NEW c \in Requests, phase'[c] = "ok", OfThisRevision(c)' PROVE Clean'
  <2>1. OfThisRevision(c)
    BY <1>1, <1>7 DEF OfThisRevision
  <2>2. CASE c = r
    BY <1>2, <1>5, <1>7, <2>1, <2>2
  <2>3. CASE c # r
    BY <1>2, <1>4, <1>7, <2>1, <2>3 DEF InStep, AnsweredIsClean
  <2> QED
    BY <2>2, <2>3
<1>8. AnsweredIsClean'
  BY <1>7 DEF AnsweredIsClean, OfThisRevision, Clean, Pending
<1>9. DoneIsWritten'
  BY <1>1, <1>2 DEF InStep, DoneIsWritten, OfThisRevision
<1> QED
  BY <1>6, <1>8, <1>9 DEF InStep

LEMMA CrashInStep ==
    ASSUME TypeOK, RequestsOK, InStep, NEW p \in Processes, Crash(p)
    PROVE  InStep'
<1>1. /\ phase' = [c \in Requests |-> IF ProcOf[c] = p THEN "idle" ELSE phase[c]]
      /\ req' = [c \in Requests |-> IF ProcOf[c] = p THEN Idle ELSE req[c]]
      /\ done' = {c \in done : ProcOf[c] # p} /\ row' = row /\ mirror' = mirror
  BY DEF Crash, B!Crash, ruleVars
<1>2. \A b \in Requests :
         \/ phase'[b] = "idle"
         \/ phase'[b] = phase[b] /\ req'[b] = req[b] /\ (b \in done' <=> b \in done)
  BY <1>1
<1>3. \A rules \in orphans' :
         rules \in orphans \/ \E r \in Requests : Pending(r) /\ rules = req[r].rules
  BY DEF Crash, Pending
<1>4. ASSUME Clean PROVE Clean'
  <2>1. \A c \in Requests : Pending(c)' => Pending(c) /\ req'[c] = req[c]
    BY <1>2 DEF Pending
  <2>2. ASSUME NEW r \in Requests, Pending(r) PROVE req[r].rules = row.rules
    BY <1>4, <2>2 DEF Clean, Pending, RequestsOK, RequestOK, HoldsRow
  <2>3. \A rules \in orphans' : rules = row.rules
    BY <1>3, <1>4, <2>2 DEF Clean
  <2> QED
    BY <1>1, <1>4, <2>1, <2>3 DEF Clean
<1> QED
  BY <1>1, <1>2, <1>4, InStepKept

LEMMA SyncedNext ==
    ASSUME ConcurrencyPerDid = 1, TypeOK, BridgeOK, RequestsOK, DraftOK, OrphanLeases, InOrder,
           ListedOK, Synced, [Next]_vars
    PROVE  Synced'
<1> SUFFICES ASSUME ~overslept' PROVE InStep'
  BY DEF Synced
<1>0. /\ phase \in [Requests -> B!Phase] /\ OneChild /\ B!TypeOK /\ BP!WaitingOK
  BY TypeParts, Phases, OneChildRuns DEF BridgeOK
<1>1. ~overslept
  <2>1. CASE UNCHANGED vars
    BY <2>1 DEF vars
  <2>2. CASE Next
    <3>1. RuleSteps
      BY <2>2, NextSteps
    <3> QED
      BY <3>1 DEF RuleSteps, RequestFrame, Act, Reply, Drain, Crash, OrphanEnds, LeaseExpires,
                  DraftExpires
  <2> QED
    BY <2>1, <2>2
<1>2. InStep
  BY <1>1 DEF Synced
\* A step that answers no call and writes nothing.
<1>3. ASSUME row' = row, mirror' = mirror, req' = req, done' = done, orphans' \subseteq orphans,
             \A b \in Requests : phase'[b] \in {"ok", "queued"} => phase'[b] = phase[b],
             \A b \in Requests : phase'[b] = "running" =>
                phase[b] = "running" \/ (phase[b] = "queued" /\ b \notin done)
      PROVE  InStep'
  <2>1. \A c \in Requests : Pending(c)' => Pending(c)
    BY <1>3 DEF Pending
  <2>2. Clean => Clean'
    BY <1>3, <2>1 DEF Clean
  <2> QED
    BY <1>2, <1>3, <2>2, InStepKept
<1>4. CASE UNCHANGED vars
  BY <1>3, <1>4 DEF vars, bridgeVars, ruleVars
<1>5. ASSUME NEW r \in Requests, RequestStep(r), RequestFrame(r) PROVE InStep'
  BY <1>2, <1>5, RequestInStep
<1>6. ASSUME NEW r \in Requests, Act(r) PROVE InStep'
  BY <1>0, <1>2, <1>6, ActInStep
<1>7. ASSUME NEW r \in Requests, NEW ok \in BOOLEAN, Reply(r, ok) PROVE InStep'
  BY <1>2, <1>7, ReplyInStep
<1>8. ASSUME NEW p \in Processes, Drain(p) PROVE InStep'
  <2>1. row' = row /\ req' = req /\ mirror' = mirror /\ orphans' = orphans /\ done' = done
    BY <1>8 DEF Drain, ruleVars
  <2>2. \A b \in Requests : phase[b] = "queued" => b \notin done
    BY DEF RequestsOK, RequestOK
  <2>3. \/ phase' = phase
        \/ \E c \in Requests, state \in {"running", "failed"} :
              phase[c] = "queued" /\ phase' = [phase EXCEPT ![c] = state]
    BY <1>0, <1>8, DrainPhase DEF Drain
  <2>4. \A b \in Requests : phase'[b] \in {"ok", "queued"} => phase'[b] = phase[b]
    BY <1>0, <2>3
  <2>5. \A b \in Requests : phase'[b] = "running" =>
           phase[b] = "running" \/ (phase[b] = "queued" /\ b \notin done)
    BY <1>0, <2>2, <2>3
  <2> QED
    BY <1>3, <2>1, <2>4, <2>5
<1>9. ASSUME NEW p \in Processes, Crash(p) PROVE InStep'
  BY <1>2, <1>9, CrashInStep
<1>10. ASSUME NEW rules \in Rules, NEW written \in BOOLEAN, OrphanEnds(rules, written) PROVE InStep'
  <2>1. /\ rules \in orphans /\ orphans' \subseteq orphans /\ row' = row /\ req' = req
        /\ done' = done /\ phase' = phase /\ mirror' \in {mirror, rules}
    BY <1>10 DEF OrphanEnds, bridgeVars
  <2>2. \A c \in Requests : phase[c] # "running"
    BY <2>1, OrphansRunAlone
  <2>3. Clean => Clean'
    BY <2>1 DEF Clean, Pending
  <2>4. ProjectedIsClean'
    BY <1>2, <2>1, <2>3 DEF InStep, ProjectedIsClean, Projected
  <2>5. AnsweredIsClean'
    <3>1. ASSUME NEW c \in Requests, phase'[c] = "ok", OfThisRevision(c)' PROVE Clean'
      <4>1. phase[c] = "ok" /\ OfThisRevision(c)
        BY <2>1, <3>1 DEF OfThisRevision
      <4> QED
        BY <1>2, <2>3, <4>1 DEF InStep, AnsweredIsClean
    <3> QED
      BY <3>1 DEF AnsweredIsClean, OfThisRevision, Clean, Pending
  <2>6. DoneIsWritten'
    BY <2>1, <2>2 DEF DoneIsWritten
  <2> QED
    BY <2>4, <2>5, <2>6 DEF InStep
<1>11. CASE (\E t \in B!Rows : LeaseExpires(t)) \/ DraftExpires
  <2>1. row' = row /\ req' = req /\ mirror' = mirror /\ orphans' = orphans /\ done' = done
        /\ phase' = phase
    BY <1>11 DEF LeaseExpires, B!Expire, DraftExpires, bridgeVars, ruleVars
  <2> QED
    BY <1>3, <2>1
<1> QED
  BY <1>4, <1>5, <1>6, <1>7, <1>8, <1>9, <1>10, <1>11, NextSteps DEF RuleSteps

LEMMA RulesInit == Init => OrphanLeases /\ ListedOK /\ Synced /\ InOrder
<1> SUFFICES ASSUME Init PROVE OrphanLeases /\ ListedOK /\ Synced
  BY InOrderInit
<1>1. orphans = {} /\ done = {} /\ \A c \in Requests : phase[c] = "idle"
  BY DEF Init, B!Init
<1>2. row.rev = 0 \/ (row.rev = 2 /\ row.projected = 0)
  BY DEF Init, NoRow, Left
<1>3. InStep
  BY <1>1, <1>2 DEF InStep, ProjectedIsClean, Projected, AnsweredIsClean, DoneIsWritten
<1> QED
  BY <1>1, <1>3 DEF OrphanLeases, ListedOK, Synced

\* All that the faithfulness of the mirror rests on.
RulesOK == RequestsOK /\ DraftOK /\ OrphanLeases /\ InOrder /\ ListedOK /\ Synced

LEMMA RulesAreOK == ASSUME ConcurrencyPerDid = 1 PROVE Spec => []RulesOK
<1>1. TypeOK /\ BridgeOK /\ BridgeOK' /\ RulesOK /\ [Next]_vars => RulesOK'
  <2> SUFFICES ASSUME TypeOK, BridgeOK, BridgeOK', RulesOK, [Next]_vars PROVE RulesOK'
    OBVIOUS
  <2>1. BP!WaitingOK
    BY DEF BridgeOK
  <2>2. RequestsOK' /\ DraftOK'
    BY <2>1, RequestsNext DEF RulesOK
  <2>3. OrphanLeases' /\ ListedOK'
    BY <2>1, OrphanLeasesNext, ListedNext DEF RulesOK
  <2>4. InOrder'
    BY <2>2, InOrderNext DEF RulesOK
  <2>5. Synced'
    BY SyncedNext DEF RulesOK
  <2> QED
    BY <2>2, <2>3, <2>4, <2>5 DEF RulesOK
<1>2. Init => RulesOK
  BY RequestsInit, RulesInit DEF RulesOK
<1> QED
  BY <1>1, <1>2, RulesAreTyped, BridgeIsOK, PTL DEF Spec

\* With one engine call per account at a time, the rules a row calls projected are the
\* overrides the engine database holds: whatever requests of both processes project
\* together, a projection that comes late never stays behind a newer mark, unless its
\* process stood before it, in drain(), while a child of the other one came and went.
THEOREM MirrorIsFaithful == ASSUME ConcurrencyPerDid = 1 PROVE Spec => []MirrorFaithful
<1>1. RulesOK => MirrorFaithful
  BY DEF RulesOK, Synced, InStep, ProjectedIsClean, Clean, MirrorFaithful
<1> QED
  BY <1>1, RulesAreOK, PTL

(***************************************************************************)
(* A change answered as saved is in every later context.                   *)
(***************************************************************************)

Acks ==
    /\ acked <= row.rev
    /\ \A r \in WebRequests :
          req[r].step = "projecting" /\ phase[r] \in {"queued", "running", "ok"} => acked <= req[r].rev

LEMMA AcksNext ==
    ASSUME TypeOK, BP!WaitingOK, RequestsOK, DraftOK, InOrder, Acks, [Next]_vars
    PROVE  Acks'
<1>0. /\ phase \in [Requests -> B!Phase] /\ req \in [Requests -> ReqType] /\ B!TypeOK
      /\ row.rev \in Nat /\ acked \in Nat /\ WebRequests \subseteq Requests
      /\ \A b \in Requests : req[b].rev \in Nat
  BY TypeParts, Phases DEF DataTyped, RowType, ReqType, Requests
<1>1. ASSUME row' = row, acked' = acked,
             \A b \in Requests : phase'[b] \in {"queued", "running", "ok"} =>
                /\ phase[b] \in {"queued", "running", "ok"}
                /\ req'[b].step = req[b].step /\ req'[b].rev = req[b].rev
      PROVE  Acks'
  BY <1>0, <1>1 DEF Acks
<1>2. CASE UNCHANGED vars
  BY <1>1, <1>2 DEF vars, bridgeVars, ruleVars
<1>3. ASSUME NEW r \in Requests, RequestStep(r), RequestFrame(r) PROVE Acks'
  <2>1. PICK record, now : Moves(r, record, now)
    BY <1>3, RequestMoves
  <2>2. PICK state \in {"running", "queued", "failed", "idle"} : phase' = [phase EXCEPT ![r] = state]
    BY <2>1, ActsPhase DEF Moves
  <2>3. req' = [req EXCEPT ![r] = record] /\ row'.rev >= row.rev /\ row'.rev \in Nat
    BY <1>3, <2>1, ActsPhase, RequestTyped DEF Moves, RowGrows, StepTyped, RowType
  <2>4. /\ req'[r] = record
        /\ \A b \in Requests \ {r} : req'[b] = req[b] /\ phase'[b] = phase[b]
    BY <1>0, <2>2, <2>3
  <2>5. CASE acked' = acked
    <3>1. record.step = "projecting" => record.rev = row'.rev
      BY <2>1 DEF Moves, RecordOK, Replacing
    <3>2. ASSUME NEW b \in WebRequests, req'[b].step = "projecting",
                 phase'[b] \in {"queued", "running", "ok"}
          PROVE  acked' <= req'[b].rev
      <4>1. CASE b = r
        BY <1>0, <2>3, <2>4, <2>5, <3>1, <3>2, <4>1 DEF Acks
      <4>2. CASE b # r
        BY <1>0, <2>4, <2>5, <3>2, <4>2 DEF Acks
      <4> QED
        BY <4>1, <4>2
    <3> QED
      BY <1>0, <2>3, <2>5, <3>2 DEF Acks
  <2>6. CASE Saved(r)
    <3>1. /\ phase[r] = "ok" /\ req[r].step \in {"wrote", "imported"} /\ req' = [req EXCEPT ![r] = Idle]
          /\ acked' = IF req[r].rev > acked THEN req[r].rev ELSE acked
      BY <2>6 DEF Saved, Resumes, Over
    <3>2. r \in WebRequests /\ req[r].rev <= row.rev /\ req[r].step \in Replacing
      BY <1>0, <3>1 DEF RequestsOK, RequestOK, HoldsRow, Replacing
    <3>3. acked' <= row'.rev /\ acked' \in Nat
      BY <1>0, <2>3, <3>1, <3>2 DEF Acks
    <3>4. ASSUME NEW b \in WebRequests, req'[b].step = "projecting",
                 phase'[b] \in {"queued", "running", "ok"}
          PROVE  acked' <= req'[b].rev
      <4>1. b # r
        BY <1>0, <3>1, <3>4 DEF Idle
      <4>2. req'[b] = req[b] /\ phase'[b] = phase[b] /\ ProcOf[b] = ProcOf[r]
        BY <1>0, <2>4, <3>2, <4>1 DEF ProcOf
      <4>3. phase[b] # "ok"
        BY <1>0, <3>1, <3>2, <4>1, <4>2 DEF InOrder, OneOk
      <4>4. NoLater(r, b)
        BY <1>0, <3>1, <3>4, <4>2, <4>3 DEF InOrder, StartOrder
      <4>5. req[r].rev <= req[b].rev /\ acked <= req[b].rev
        BY <3>2, <3>4, <4>2, <4>4 DEF NoLater, Replacing, Acks
      <4> QED
        BY <1>0, <3>1, <4>2, <4>5
    <3> QED
      BY <3>3, <3>4 DEF Acks
  <2> QED
    BY <1>3, <2>5, <2>6 DEF RequestFrame
<1>4. ASSUME NEW r \in Requests, Act(r) PROVE Acks'
  <2>1. phase' = phase /\ (req' = req \/ req' = [req EXCEPT ![r].rules = mirror])
        /\ row' = row /\ acked' = acked
    BY <1>4 DEF Act, bridgeVars
  <2>2. \A b \in Requests : req'[b].step = req[b].step /\ req'[b].rev = req[b].rev
    BY <1>0, <2>1 DEF ReqType
  <2> QED
    BY <1>1, <2>1, <2>2
<1>5. ASSUME NEW r \in Requests, NEW ok \in BOOLEAN, Reply(r, ok) PROVE Acks'
  <2>1. /\ phase' = [phase EXCEPT ![r] = IF ok THEN "ok" ELSE "failed"] /\ phase[r] = "running"
        /\ req' = req /\ row' = row /\ acked' = acked
    BY <1>5 DEF Reply, B!Close, ruleVars
  <2>2. \A b \in Requests : phase'[b] \in {"queued", "running", "ok"} =>
           phase[b] \in {"queued", "running", "ok"}
    BY <1>0, <2>1
  <2> QED
    BY <1>1, <2>1, <2>2
<1>6. ASSUME NEW p \in Processes, Drain(p) PROVE Acks'
  <2>1. req' = req /\ row' = row /\ acked' = acked
    BY <1>6 DEF Drain, ruleVars
  <2>2. \/ phase' = phase
        \/ \E c \in Requests, state \in {"running", "failed"} :
              phase[c] = "queued" /\ phase' = [phase EXCEPT ![c] = state]
    BY <1>0, <1>6, DrainPhase DEF Drain
  <2>3. \A b \in Requests : phase'[b] \in {"queued", "running", "ok"} =>
           phase[b] \in {"queued", "running", "ok"}
    BY <1>0, <2>2
  <2> QED
    BY <1>1, <2>1, <2>3
<1>7. ASSUME NEW p \in Processes, Crash(p) PROVE Acks'
  <2>1. /\ phase' = [c \in Requests |-> IF ProcOf[c] = p THEN "idle" ELSE phase[c]]
        /\ req' = [c \in Requests |-> IF ProcOf[c] = p THEN Idle ELSE req[c]]
        /\ row' = row /\ acked' = acked
    BY <1>7 DEF Crash, B!Crash, ruleVars
  <2> QED
    BY <1>1, <2>1
<1>8. CASE \/ \E rules \in Rules, written \in BOOLEAN : OrphanEnds(rules, written)
           \/ \E t \in B!Rows : LeaseExpires(t)
           \/ DraftExpires
  <2>1. phase' = phase /\ req' = req /\ row' = row /\ acked' = acked
    BY <1>8 DEF OrphanEnds, LeaseExpires, B!Expire, DraftExpires, bridgeVars, ruleVars
  <2> QED
    BY <1>1, <2>1
<1> QED
  BY <1>2, <1>3, <1>4, <1>5, <1>6, <1>7, <1>8, NextSteps DEF RuleSteps

\* The rules handed to a preview: of the row the request found projected, or those it
\* has had projected itself.
HandsOut(r, rules, rev) ==
    /\ answer' = [to |-> r, rules |-> rules, rev |-> rev]
    /\ Projected(row') /\ row'.rev # 0 /\ Good(row', rules, rev)
    /\ rev = row'.rev \/ (Answers(r, "projecting") /\ rev = req[r].rev)

LEMMA OutcomeHandsOut ==
    ASSUME NEW r, NEW op, NEW arg, NEW now, NEW rules, NEW rev, now.rev # 0, Good(now, rules, rev),
           rev = now.rev \/ (Answers(r, "projecting") /\ rev = req[r].rev),
           Outcome(r, op, arg, now, rules, rev), answer' # NoAnswer
    PROVE  HandsOut(r, rules, rev)
<1>1. Previews(r, op, arg, now, rules, rev)
  BY DEF Outcome, Writes, Checks, Ends
<1> QED
  BY <1>1 DEF Previews, HandsOut

LEMMA RequestHandsOut ==
    ASSUME TypeOK, RequestsOK, NEW r \in Requests, RequestStep(r), answer' # NoAnswer
    PROVE  \E rules, rev : HandsOut(r, rules, rev)
<1>0. /\ row \in RowType /\ row.rev \in Nat /\ req[r].rules \in Rules /\ req[r].rev \in Nat
      /\ RequestOK(r)
  BY TypeParts DEF DataTyped, RowType, ReqType, RequestsOK
<1>1. ASSUME NEW op, NEW arg, NEW now, Reads(r, op, arg, now), now.rev \in Nat
      PROVE  HandsOut(r, now.rules, now.rev)
  <2>1. now.rev # 0 /\ Outcome(r, op, arg, now, now.rules, now.rev)
    BY <1>1 DEF Reads, Waits
  <2>2. Good(now, now.rules, now.rev)
    BY <1>1, <2>1 DEF Good
  <2> QED
    BY <2>1, <2>2, OutcomeHandsOut
<1>2. CASE \E op, arg : Begins(r, op, arg) /\ Reads(r, op, arg, row)
  BY <1>0, <1>1, <1>2
<1>3. CASE Reads(r, req[r].op, req[r].arg, row)
  BY <1>0, <1>1, <1>3
<1>4. CASE Reads(r, req[r].op, req[r].arg, Inserted(r))
  BY <1>1, <1>4 DEF Inserted
<1>5. ASSUME Answers(r, "projecting"), NEW now, now = Marked(row, req[r].rev, req[r].rules),
             Outcome(r, req[r].op, req[r].arg, now, req[r].rules, req[r].rev)
      PROVE  HandsOut(r, req[r].rules, req[r].rev)
  <2>1. now.rev = row.rev /\ now.rules = row.rules
    BY <1>0, <1>5, MarkedTyped
  <2>2. req[r].rev \in 1..row.rev /\ (req[r].rev = row.rev => req[r].rules = row.rules)
    BY <1>0, <1>5 DEF RequestOK, HoldsRow, Answers, Replacing
  <2>3. now.rev # 0 /\ Good(now, req[r].rules, req[r].rev)
    BY <1>0, <2>1, <2>2 DEF Good
  <2> QED
    BY <1>5, <2>3, OutcomeHandsOut
<1>6. CASE Confirm(r) \/ Saved(r) \/ Drafted(r) \/ Previewed(r) \/ Fails(r)
  BY <1>6 DEF Confirm, Saved, Drafted, Previewed, Fails
<1> QED
  BY <1>2, <1>3, <1>4, <1>5, <1>6 DEF RequestStep

LEMMA AckedIsSeenStep ==
    ASSUME TypeOK, RequestsOK, DraftOK, Acks, Synced', Next,
           answer' # NoAnswer, answer'.to \in WebRequests
    PROVE  /\ answer'.rev >= acked
           /\ ~overslept /\ answer'.rev = row'.rev => answer'.rules = mirror'
<1>1. PICK r \in Requests : RequestStep(r) /\ RequestFrame(r)
  <2>1. RuleSteps
    BY NextSteps
  <2> QED
    BY <2>1 DEF RuleSteps, Act, Reply, Drain, Crash, OrphanEnds, LeaseExpires, DraftExpires
<1>2. PICK rules, rev : HandsOut(r, rules, rev)
  BY <1>1, RequestHandsOut
<1>3. /\ answer'.to = r /\ answer'.rules = rules /\ answer'.rev = rev
      /\ Projected(row') /\ row'.rev # 0 /\ Good(row', rules, rev)
      /\ rev = row'.rev \/ (Answers(r, "projecting") /\ rev = req[r].rev)
  BY <1>2 DEF HandsOut
<1>4. answer'.rev >= acked
  <2>1. CASE Answers(r, "projecting") /\ rev = req[r].rev
    BY <1>3, <2>1 DEF Answers, Resumes, Acks
  <2>2. CASE rev = row'.rev
    <3>1. row.rev \in Nat /\ row'.rev \in Nat /\ acked \in Nat
      BY <1>1, TypeParts, RequestTyped DEF DataTyped, StepTyped, RowType
    <3>2. row'.rev >= row.rev
      <4>1. PICK record, now : Moves(r, record, now)
        BY <1>1, RequestMoves
      <4> QED
        BY <4>1 DEF Moves, RowGrows
    <3> QED
      BY <1>3, <2>2, <3>1, <3>2 DEF Acks
  <2> QED
    BY <1>3, <2>1, <2>2
<1>5. ASSUME ~overslept, answer'.rev = row'.rev PROVE answer'.rules = mirror'
  <2>1. ~overslept'
    BY <1>1, <1>5 DEF RequestFrame
  <2>2. mirror' = row'.rules
    BY <1>3, <2>1 DEF Synced, InStep, ProjectedIsClean, Projected, Clean
  <2> QED
    BY <1>3, <1>5, <2>2 DEF Good
<1> QED
  BY <1>4, <1>5

\* With one engine call per account at a time, a change that was answered as saved is in
\* every context a web request gets from then on, and when that context is the row's, it
\* is what the engine holds, with the exception of MirrorIsFaithful.
THEOREM AcknowledgedIsSeen == ASSUME ConcurrencyPerDid = 1 PROVE Spec => AckedIsSeen
<1>1. TypeOK /\ BridgeOK /\ RulesOK /\ Acks /\ [Next]_vars => Acks'
  BY AcksNext DEF BridgeOK, RulesOK
<1>2. Init => Acks
  <2> SUFFICES ASSUME Init PROVE Acks
    OBVIOUS
  <2>1. acked = 0 /\ row.rev \in Nat /\ \A r \in Requests : phase[r] = "idle"
    BY RulesTypeInit, TypeParts DEF Init, B!Init, DataTyped, RowType
  <2> QED
    BY <2>1 DEF Acks, Requests
<1>3. TypeOK /\ RulesOK /\ RulesOK' /\ Acks /\ [Next]_vars =>
        [answer' # NoAnswer /\ answer'.to \in WebRequests =>
           /\ answer'.rev >= acked
           /\ ~overslept /\ answer'.rev = row'.rev => answer'.rules = mirror']_vars
  BY AckedIsSeenStep DEF RulesOK
<1>4. Spec => []TypeOK /\ []BridgeOK /\ []RulesOK
  BY RulesAreTyped, BridgeIsOK, RulesAreOK, PTL
<1> QED
  BY <1>1, <1>2, <1>3, <1>4, PTL DEF Spec, AckedIsSeen
=============================================================================
