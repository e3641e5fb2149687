------------------------- MODULE AcquisitionProofs -------------------------
(***************************************************************************)
(* Theorems about acquisitions, for any calls, accounts and limits.  First *)
(* the maintenance window: the rows of capacity_events and the backup that *)
(* waits for them.  Then acquisitions that read step by step: they are     *)
(* calls of that window, what they say of an account agrees with the       *)
(* network, their requests stay within the budget, and a result stored as  *)
(* complete covers what the policy asked for.                              *)
(***************************************************************************)
EXTENDS Acquisition, FeedProofs

-----------------------------------------------------------------------------
(* Plans.                                                                  *)

LEMMA PlanOf ==
    ASSUME NEW k \in Kinds
    PROVE  /\ k = "preview" => Plan[k] = <<"lease", "engine", "read", "engine", "reread",
                                           "engine", "store">>
           /\ k = "measurement" => Plan[k] = <<"engine", "lease", "report", "read", "engine",
                                               "profile", "store">>
           /\ k = "effect" => Plan[k] = <<"reserve", "engine", "write", "engine", "settle">>
BY DEF Kinds, Plan

LEMMA PlanLength ==
    ASSUME NEW k \in Kinds
    PROVE  Len(Plan[k]) = IF k = "effect" THEN 5 ELSE 7
<1>1. CASE k = "preview"
  BY <1>1, PlanOf
<1>2. CASE k = "measurement"
  BY <1>2, PlanOf
<1>3. CASE k = "effect"
  BY <1>3, PlanOf
<1> QED
  BY <1>1, <1>2, <1>3 DEF Kinds

\* Where in its plan a call is that takes a given step.
LEMMA Places ==
    ASSUME WindowTypeOK, NEW c \in Calls
    PROVE  /\ Kind[c] \in Kinds /\ at[c] \in 0..7 /\ at[c] <= Len(Plan[Kind[c]])
           /\ Step(c) = "idle" => at[c] = 0
           /\ Step(c) = "lease" => \/ Kind[c] = "preview" /\ at[c] = 1
                                   \/ Kind[c] = "measurement" /\ at[c] = 2
           /\ Step(c) = "engine" => at[c] > 0 /\ at[c] + 1 <= Len(Plan[Kind[c]])
           /\ Step(c) = "report" => Kind[c] = "measurement" /\ at[c] = 3
           /\ Step(c) = "read" => \/ Kind[c] = "preview" /\ at[c] = 3
                                  \/ Kind[c] = "measurement" /\ at[c] = 4
           /\ Step(c) = "reread" => Kind[c] = "preview" /\ at[c] = 5
           /\ Step(c) = "profile" => Kind[c] = "measurement" /\ at[c] = 6
           /\ Step(c) = "store" => Kind[c] # "effect" /\ at[c] = 7
           /\ Step(c) = "reserve" => Kind[c] = "effect" /\ at[c] = 1
           /\ Step(c) = "write" => Kind[c] = "effect" /\ at[c] = 3
           /\ Step(c) = "settle" => Kind[c] = "effect" /\ at[c] = 5
<1>1. Kind[c] \in Kinds /\ at[c] \in 0..7 /\ at[c] <= Len(Plan[Kind[c]])
  BY WindowAssumption DEF WindowTypeOK
<1>2. CASE at[c] = 0
  BY <1>1, <1>2 DEF Step
<1>3. CASE at[c] # 0 /\ Kind[c] = "preview"
  <2>1. Step(c) = <<"lease", "engine", "read", "engine", "reread", "engine", "store">>[at[c]]
    BY <1>1, <1>3, PlanOf DEF Step
  <2>2. Len(Plan[Kind[c]]) = 7
    BY <1>1, <1>3, PlanLength
  <2>3. at[c] \in 1..7
    BY <1>1, <1>3, <2>2
  <2> QED
    BY <1>1, <1>3, <2>1, <2>2, <2>3
<1>4. CASE at[c] # 0 /\ Kind[c] = "measurement"
  <2>1. Step(c) = <<"engine", "lease", "report", "read", "engine", "profile", "store">>[at[c]]
    BY <1>1, <1>4, PlanOf DEF Step
  <2>2. Len(Plan[Kind[c]]) = 7
    BY <1>1, <1>4, PlanLength
  <2>3. at[c] \in 1..7
    BY <1>1, <1>4, <2>2
  <2> QED
    BY <1>1, <1>4, <2>1, <2>2, <2>3
<1>5. CASE at[c] # 0 /\ Kind[c] = "effect"
  <2>1. Step(c) = <<"reserve", "engine", "write", "engine", "settle">>[at[c]]
    BY <1>1, <1>5, PlanOf DEF Step
  <2>2. Len(Plan[Kind[c]]) = 5
    BY <1>1, <1>5, PlanLength
  <2>3. at[c] \in 1..5
    BY <1>1, <1>5, <2>2
  <2> QED
    BY <1>1, <1>5, <2>1, <2>2, <2>3
<1> QED
  BY <1>1, <1>2, <1>3, <1>4, <1>5 DEF Kinds

-----------------------------------------------------------------------------
(* What one call may be at, and what its steps leave to the others.        *)

\* The call has no row before its lease step, asks only there, is in the engine only
\* at an engine step, and reports only from the step that reads on.
Early(c) == at[c] <= IF Kind[c] = "measurement" THEN 2 ELSE 1
CallInv(c) ==
    /\ how[c] \in {"asked", "waiting", "polled"} => Step(c) = "lease"
    /\ how[c] = "inside" => Step(c) = "engine" /\ (bridge[c] \/ purged[AccountOf[c]])
    /\ Early(c) /\ how[c] \in {"ready", "asked", "inside"} => lease[c] = "none"
    /\ report[c] = "running" => Kind[c] = "measurement" /\ at[c] >= 4
    /\ bridge[c] => how[c] \in {"inside", "lost"}
    /\ how[c] = "over" => lease[c] \notin {"waiting", "running"} /\ report[c] # "running"
    /\ how[c] = "escaped" => report[c] # "running" /\ (Kind[c] = "effect" \/ purged[AccountOf[c]])
    /\ how[c] = "lost" => report[c] # "running"

\* Other calls keep what they have; only rows of calls that are gone grow too old.
Frame(c) ==
    /\ flag' = flag /\ backup' = backup /\ purged' = purged
    /\ \A b \in Calls : b # c =>
          /\ at'[b] = at[b] /\ how'[b] = how[b]
          /\ report'[b] = report[b] /\ late'[b] = late[b]
          /\ lease'[b] = lease[b] \/ (how[b] \in {"lost", "escaped"} /\ lease'[b] = "none")
          /\ bridge'[b] = bridge[b] \/ (how[b] \in {"lost", "escaped"} /\ ~bridge'[b])

\* What every step of a call preserves.
Keeps(c) == WindowTypeOK' /\ Frame(c) /\ CallInv(c)'

LEMMA Typed ==
    ASSUME WindowTypeOK
    PROVE  /\ at \in [Calls -> 0..7] /\ how \in [Calls -> Manners]
           /\ lease \in [Calls -> Leases] /\ bridge \in [Calls -> BOOLEAN]
           /\ report \in [Calls -> ReportStates]
           /\ polls \in [Calls -> 0..MaxPolls] /\ late \in [Calls -> BOOLEAN]
           /\ MaxPolls \in Nat
BY WindowAssumption DEF WindowTypeOK

LEMMA Advances ==
    ASSUME WindowTypeOK, NEW c \in Calls, NEW n \in {1, 2},
           at[c] + n <= Len(Plan[Kind[c]]), Advance(c, n)
    PROVE  /\ at' \in [Calls -> 0..7] /\ \A b \in Calls : at'[b] <= Len(Plan[Kind[b]])
           /\ how' \in [Calls -> Manners]
           /\ at'[c] = at[c] + n /\ how'[c] = "ready"
           /\ \A b \in Calls : b # c => at'[b] = at[b] /\ how'[b] = how[b]
<1>1. Kind[c] \in Kinds /\ at[c] \in 0..7
  BY Places
<1>2. Len(Plan[Kind[c]]) \in {5, 7}
  BY <1>1, PlanLength
<1>3. at[c] + n \in 0..7
  <2> DEFINE l == Len(Plan[Kind[c]])
  <2>1. at[c] \in 0..7 /\ n \in {1, 2} /\ l \in {5, 7} /\ at[c] + n <= l
    BY <1>1, <1>2
  <2> HIDE DEF l
  <2> QED
    BY <2>1
<1>4. at' = [at EXCEPT ![c] = at[c] + n] /\ how' = [how EXCEPT ![c] = "ready"]
  BY DEF Advance, Becomes
<1>5. \A b \in Calls : at'[b] = (IF b = c THEN at[c] + n ELSE at[b])
  BY <1>4, Typed
<1>6. \A b \in Calls : at'[b] <= Len(Plan[Kind[b]])
  BY <1>5 DEF WindowTypeOK
<1> QED
  BY <1>3, <1>4, <1>5, <1>6, Typed DEF Manners

LEMMA Ending ==
    ASSUME WindowTypeOK, NEW c \in Calls, NEW good \in BOOLEAN, Ends(c, good)
    PROVE  /\ how' \in [Calls -> Manners] /\ lease' \in [Calls -> Leases]
           /\ report' \in [Calls -> ReportStates]
           /\ how'[c] = "over" /\ lease'[c] \notin {"waiting", "running"} /\ report'[c] # "running"
           /\ \A b \in Calls : b # c => /\ how'[b] = how[b] /\ lease'[b] = lease[b]
                                        /\ report'[b] = report[b]
BY Typed DEF ReportStates, Ends, Becomes, Manners, Leases

LEMMA BecomesOne ==
    ASSUME WindowTypeOK, NEW c \in Calls, NEW m \in Manners, Becomes(c, m)
    PROVE  /\ how' \in [Calls -> Manners] /\ how'[c] = m
           /\ \A b \in Calls : b # c => how'[b] = how[b]
BY Typed DEF Becomes

\* Either nothing but the step of c changes, or c has ended.
LEMMA EndingKeeps ==
    ASSUME WindowTypeOK, NEW c \in Calls, CallInv(c), NEW good \in BOOLEAN, Ends(c, good),
           ~bridge'[c],
           bridge' \in [Calls -> BOOLEAN], \A b \in Calls : b # c => bridge'[b] = bridge[b],
           polls' \in [Calls -> 0..MaxPolls], UNCHANGED <<at, late, others>>
    PROVE  Keeps(c)
<1>1. WindowTypeOK'
  BY Ending DEF WindowTypeOK, others
<1>2. Frame(c)
  BY Ending DEF Frame, others
<1>3. CallInv(c)'
  BY Ending DEF CallInv
<1> QED
  BY <1>1, <1>2, <1>3 DEF Keeps

LEMMA BeginKeeps ==
    ASSUME WindowTypeOK, NEW c \in Calls, CallInv(c), Begin(c)
    PROVE  Keeps(c)
<1>1. Kind[c] \in Kinds /\ at[c] = 0 /\ Len(Plan[Kind[c]]) \in {5, 7} /\ how[c] = "ready"
  BY Places, PlanLength DEF Begin, At
<1>2. Advance(c, 1) /\ UNCHANGED <<rowVars, polls, late, others>>
  BY DEF Begin
<1>3. /\ at' \in [Calls -> 0..7] /\ \A b \in Calls : at'[b] <= Len(Plan[Kind[b]])
      /\ how' \in [Calls -> Manners]
      /\ at'[c] = 1 /\ how'[c] = "ready"
      /\ \A b \in Calls : b # c => at'[b] = at[b] /\ how'[b] = how[b]
  <2> DEFINE l == Len(Plan[Kind[c]])
  <2>1. l \in {5, 7} /\ at[c] = 0
    BY <1>1
  <2> HIDE DEF l
  <2>2. at[c] + 1 <= l /\ at[c] + 1 = 1
    BY <2>1
  <2>3. at[c] + 1 <= Len(Plan[Kind[c]])
    BY <2>2 DEF l
  <2> QED
    BY <1>2, <2>2, <2>3, Advances
<1>4. WindowTypeOK'
  BY <1>2, <1>3 DEF WindowTypeOK, rowVars, others
<1>5. Frame(c)
  BY <1>2, <1>3 DEF Frame, rowVars, others
<1>6. lease[c] = "none" /\ report[c] # "running" /\ ~bridge[c]
  BY <1>1 DEF CallInv, Early
<1>7. CallInv(c)'
  BY <1>2, <1>3, <1>6 DEF CallInv, rowVars, others
<1> QED
  BY <1>4, <1>5, <1>7 DEF Keeps

-----------------------------------------------------------------------------
(* The lease, the engine and the other steps.                              *)

\* A step other than the last leaves room in the plan.
LEMMA Fits ==
    ASSUME WindowTypeOK, NEW c \in Calls
    PROVE  /\ Step(c) \in {"idle", "lease", "engine", "read", "reread", "report", "profile",
                           "reserve", "write"} => at[c] + 1 <= Len(Plan[Kind[c]])
           /\ Step(c) = "reread" => at[c] + 2 <= Len(Plan[Kind[c]])
<1> DEFINE l == Len(Plan[Kind[c]])
<1>1. Kind[c] \in Kinds
  BY Places
<1>2. l = IF Kind[c] = "effect" THEN 5 ELSE 7
  BY <1>1, PlanLength
<1>3. Step(c) = "engine" => at[c] + 1 <= l
  BY Places
<1> HIDE DEF l
<1>4. /\ Step(c) \in {"idle", "lease", "read", "reread", "report", "profile",
                      "reserve", "write"} => at[c] + 1 <= l
      /\ Step(c) = "reread" => at[c] + 2 <= l
  BY <1>1, <1>2, Places
<1> QED
  BY <1>3, <1>4 DEF l

LEMMA AdvanceKeeps ==
    ASSUME WindowTypeOK, NEW c \in Calls, CallInv(c), NEW n \in {1, 2},
           at[c] + n <= Len(Plan[Kind[c]]), Advance(c, n),
           lease' \in [Calls -> Leases], bridge' \in [Calls -> BOOLEAN],
           report' \in [Calls -> ReportStates],
           late' \in [Calls -> BOOLEAN],
           \A b \in Calls : b # c => bridge'[b] = bridge[b] /\ report'[b] = report[b]
                                     /\ late'[b] = late[b],
           \A b \in Calls : b # c => lease'[b] = lease[b] \/ (how[b] \in {"lost", "escaped"}
                                                             /\ lease'[b] = "none"),
           ~bridge'[c],
           at[c] + n <= (IF Kind[c] = "measurement" THEN 2 ELSE 1) => lease'[c] = "none",
           report'[c] = "running" => Kind[c] = "measurement" /\ at[c] + n >= 4,
           UNCHANGED <<polls, others>>
    PROVE  Keeps(c)
<1>1. /\ at' \in [Calls -> 0..7] /\ \A b \in Calls : at'[b] <= Len(Plan[Kind[b]])
      /\ how' \in [Calls -> Manners]
      /\ at'[c] = at[c] + n /\ how'[c] = "ready"
      /\ \A b \in Calls : b # c => at'[b] = at[b] /\ how'[b] = how[b]
  BY Advances
<1>2. WindowTypeOK'
  BY <1>1 DEF WindowTypeOK, others
<1>3. Frame(c)
  BY <1>1 DEF Frame, others
<1>4. CallInv(c)'
  BY <1>1 DEF CallInv, Early
<1> QED
  BY <1>2, <1>3, <1>4 DEF Keeps

LEMMA AskAdmissionKeeps ==
    ASSUME WindowTypeOK, NEW c \in Calls, CallInv(c), AskAdmission(c)
    PROVE  Keeps(c)
<1>1. at[c] <= (IF Kind[c] = "measurement" THEN 2 ELSE 1) /\ how[c] = "ready"
      /\ Step(c) = "lease" /\ Kind[c] \in Kinds
  BY Places DEF AskAdmission, At
<1>2. ~bridge[c] /\ lease[c] = "none"
  BY <1>1 DEF CallInv, Early
<1>3. CASE Ends(c, FALSE)
  BY <1>2, <1>3, EndingKeeps, Typed DEF AskAdmission, others
<1>4. CASE Becomes(c, "asked") /\ UNCHANGED <<lease, report>>
  <2>1. how' \in [Calls -> Manners] /\ how'[c] = "asked"
        /\ \A b \in Calls : b # c => how'[b] = how[b]
    BY <1>4, BecomesOne DEF Manners
  <2>2. UNCHANGED <<at, bridge, polls, late, others>>
    BY DEF AskAdmission
  <2>3. WindowTypeOK'
    BY <1>4, <2>1, <2>2 DEF WindowTypeOK, others
  <2>4. Frame(c)
    BY <1>4, <2>1, <2>2 DEF Frame, others
  <2>5. Step(c)' = "lease"
    BY <1>1, <2>2 DEF Step
  <2>6. CallInv(c)'
    BY <1>2, <1>4, <2>1, <2>2, <2>5 DEF CallInv
  <2> QED
    BY <2>3, <2>4, <2>6 DEF Keeps
<1> QED
  BY <1>3, <1>4 DEF AskAdmission, Admission

LEMMA PollKeeps ==
    ASSUME WindowTypeOK, NEW c \in Calls, CallInv(c), Poll(c) \/ GiveUp(c)
    PROVE  Keeps(c)
<1>1. how[c] = "waiting" /\ Step(c) = "lease" /\ ~bridge[c] /\ report[c] # "running"
      /\ UNCHANGED <<at, bridge, late, others>>
  <2>1. how[c] = "waiting" /\ UNCHANGED <<at, bridge, late, others>>
    BY DEF Poll, GiveUp
  <2>2. Step(c) = "lease" /\ ~bridge[c]
    BY <2>1 DEF CallInv
  <2>3. at[c] < 4
    BY <2>2, Places
  <2>4. report[c] # "running"
    BY <2>3, Places DEF CallInv
  <2> QED
    BY <2>1, <2>2, <2>4
<1>2. polls' \in [Calls -> 0..MaxPolls]
  <2>1. CASE Poll(c)
    <3>1. polls' = [polls EXCEPT ![c] = polls[c] - 1] /\ polls[c] > 0 /\ polls[c] \in 0..MaxPolls
      BY <2>1, Typed DEF Poll
    <3>2. polls[c] - 1 \in 0..MaxPolls
      BY <3>1, Typed
    <3> QED
      BY <3>1, <3>2, Typed
  <2>2. CASE GiveUp(c)
    BY <2>2, Typed DEF GiveUp
  <2> QED
    BY <2>1, <2>2
<1>3. CASE Ends(c, FALSE)
  BY <1>1, <1>2, <1>3, EndingKeeps, Typed
<1>4. CASE Becomes(c, "polled") /\ UNCHANGED <<lease, report>>
  <2>1. how' \in [Calls -> Manners] /\ how'[c] = "polled"
        /\ \A b \in Calls : b # c => how'[b] = how[b]
    BY <1>4, BecomesOne DEF Manners
  <2>3. WindowTypeOK'
    BY <1>1, <1>2, <1>4, <2>1 DEF WindowTypeOK, others
  <2>4. Frame(c)
    BY <1>1, <1>4, <2>1 DEF Frame, others
  <2>5. Step(c)' = "lease"
    BY <1>1 DEF Step
  <2>6. CallInv(c)'
    BY <1>1, <1>4, <2>1, <2>5 DEF CallInv
  <2> QED
    BY <2>3, <2>4, <2>6 DEF Keeps
<1> QED
  BY <1>3, <1>4 DEF Poll, GiveUp, Admission

\* A call that asks or polls is at its lease step and neither in the engine nor reporting.
LEMMA AtLease ==
    ASSUME WindowTypeOK, NEW c \in Calls, CallInv(c), how[c] \in {"asked", "waiting", "polled"}
    PROVE  /\ Step(c) = "lease" /\ ~bridge[c] /\ report[c] # "running"
           /\ at[c] + 1 <= Len(Plan[Kind[c]])
           /\ \/ Kind[c] = "preview" /\ at[c] = 1
              \/ Kind[c] = "measurement" /\ at[c] = 2
<1>1. Step(c) = "lease" /\ ~bridge[c]
  BY DEF CallInv
<1>2. \/ Kind[c] = "preview" /\ at[c] = 1
      \/ Kind[c] = "measurement" /\ at[c] = 2
  BY <1>1, Places
<1>3. report[c] # "running"
  BY <1>2 DEF CallInv
<1> QED
  BY <1>1, <1>2, <1>3, Fits

\* Only the manner and the row of c change.
LEMMA StandKeeps ==
    ASSUME WindowTypeOK, NEW c \in Calls, CallInv(c), how[c] \in {"asked", "waiting", "polled"},
           NEW m \in {"asked", "waiting", "polled", "over"}, Becomes(c, m),
           lease' \in [Calls -> Leases],
           \A b \in Calls : b # c => lease'[b] = lease[b] \/ (how[b] \in {"lost", "escaped"}
                                                             /\ lease'[b] = "none"),
           m = "asked" => lease'[c] = "none",
           m = "over" => lease'[c] \notin {"waiting", "running"},
           UNCHANGED <<at, bridge, report, polls, late, others>>
    PROVE  Keeps(c)
<1>1. how' \in [Calls -> Manners] /\ how'[c] = m
      /\ \A b \in Calls : b # c => how'[b] = how[b]
  BY BecomesOne DEF Manners
<1>2. WindowTypeOK'
  BY <1>1 DEF WindowTypeOK, others
<1>3. Frame(c)
  BY <1>1 DEF Frame, others
<1>4. Step(c)' = "lease"
  BY AtLease DEF Step
<1>5. ~bridge[c] /\ report[c] # "running"
  BY AtLease
<1>6. CallInv(c)'
  BY <1>1, <1>4, <1>5 DEF CallInv
<1> QED
  BY <1>2, <1>3, <1>6 DEF Keeps

LEMMA GrantedKeeps ==
    ASSUME WindowTypeOK, NEW c \in Calls, CallInv(c), how[c] \in {"asked", "polled"},
           NEW table \in [Calls -> Leases],
           \A b \in Calls : b # c => table[b] = lease[b] \/ (how[b] \in {"lost", "escaped"}
                                                             /\ table[b] = "none"),
           Granted(c, table), UNCHANGED <<bridge, report, polls, others>>
    PROVE  Keeps(c)
<1>1. CASE /\ Becomes(c, "over") /\ lease' = [table EXCEPT ![c] = "done"]
           /\ UNCHANGED <<at, late>>
  <2>1. lease' \in [Calls -> Leases] /\ lease'[c] = "done"
        /\ \A b \in Calls : b # c => lease'[b] = table[b]
    BY <1>1 DEF Leases
  <2>2. \A b \in Calls : b # c => lease'[b] = lease[b] \/ (how[b] \in {"lost", "escaped"}
                                                            /\ lease'[b] = "none")
    BY <2>1
  <2>3. Becomes(c, "over") /\ UNCHANGED <<at, bridge, report, polls, late, others>>
    BY <1>1
  <2> QED
    BY <2>1, <2>2, <2>3, StandKeeps
<1>2. CASE /\ Advance(c, 1) /\ lease' = [table EXCEPT ![c] = "running"]
           /\ late' = [late EXCEPT ![c] = flag]
  <2>1. lease' \in [Calls -> Leases] /\ \A b \in Calls : b # c => lease'[b] = table[b]
    BY <1>2 DEF Leases
  <2>2. flag \in BOOLEAN /\ late' \in [Calls -> BOOLEAN]
        /\ \A b \in Calls : b # c => late'[b] = late[b]
    BY <1>2, Typed DEF WindowTypeOK
  <2>3. /\ ~bridge[c] /\ report[c] # "running" /\ at[c] + 1 <= Len(Plan[Kind[c]])
        /\ ~(at[c] + 1 <= IF Kind[c] = "measurement" THEN 2 ELSE 1)
    BY AtLease
  <2>4. /\ \A b \in Calls : b # c => lease'[b] = lease[b] \/ (how[b] \in {"lost", "escaped"}
                                                               /\ lease'[b] = "none")
        /\ \A b \in Calls : b # c => bridge'[b] = bridge[b] /\ report'[b] = report[b]
                                      /\ late'[b] = late[b]
        /\ bridge' \in [Calls -> BOOLEAN] /\ ~bridge'[c] /\ report'[c] # "running"
        /\ report' \in [Calls -> ReportStates]
    BY <2>1, <2>2, <2>3, Typed
  <2>5. Advance(c, 1) /\ UNCHANGED <<polls, others>>
    BY <1>2
  <2> QED
    BY <2>1, <2>2, <2>3, <2>4, <2>5, AdvanceKeeps
<1> QED
  BY <1>1, <1>2 DEF Granted

LEMMA TakeLeaseKeeps ==
    ASSUME WindowTypeOK, NEW c \in Calls, CallInv(c), NEW aged \in SUBSET Left,
           TakeLease(c, aged)
    PROVE  Keeps(c)
<1> DEFINE kept == [b \in Calls |-> IF b \in aged THEN "none" ELSE lease[b]]
<1>1. how[c] = "asked" /\ UNCHANGED <<bridge, report, polls, others>>
  BY DEF TakeLease
<1>2. kept \in [Calls -> Leases] /\ kept[c] = lease[c] /\ lease \in [Calls -> Leases]
      /\ \A b \in Calls : kept[b] = lease[b] \/ (how[b] \in {"lost", "escaped"}
                                                 /\ kept[b] = "none")
  BY <1>1, Typed DEF Left, Leases
<1>3. lease[c] = "none"
  BY <1>1, AtLease DEF CallInv, Early
<1>4. \/ Granted(c, kept)
      \/ Becomes(c, "waiting") /\ lease' = [kept EXCEPT ![c] = "waiting"] /\ UNCHANGED <<at, late>>
      \/ Becomes(c, "over") /\ UNCHANGED <<at, lease, late>>
  BY DEF TakeLease
<1> HIDE DEF kept
<1>5. CASE Granted(c, kept)
  BY <1>1, <1>2, <1>5, GrantedKeeps
<1>6. CASE /\ Becomes(c, "waiting") /\ lease' = [kept EXCEPT ![c] = "waiting"]
           /\ UNCHANGED <<at, late>>
  <2>1. lease' \in [Calls -> Leases] /\ \A b \in Calls : b # c => lease'[b] = kept[b]
    BY <1>2, <1>6 DEF Leases
  <2> QED
    BY <1>1, <1>2, <1>6, <2>1, StandKeeps
<1>7. CASE Becomes(c, "over") /\ UNCHANGED <<at, lease, late>>
  BY <1>1, <1>2, <1>3, <1>7, StandKeeps
<1> QED
  BY <1>4, <1>5, <1>6, <1>7

LEMMA ClaimKeeps ==
    ASSUME WindowTypeOK, NEW c \in Calls, CallInv(c), Claim(c)
    PROVE  Keeps(c)
<1>1. how[c] = "polled" /\ UNCHANGED <<bridge, report, polls, others>>
      /\ lease \in [Calls -> Leases]
  BY Typed DEF Claim
<1>2. CASE Granted(c, lease)
  BY <1>1, <1>2, GrantedKeeps
<1>3. CASE Becomes(c, "waiting") /\ UNCHANGED <<at, lease, late>>
  BY <1>1, <1>3, StandKeeps
<1> QED
  BY <1>2, <1>3 DEF Claim

LEMMA EngineBeginsKeeps ==
    ASSUME WindowTypeOK, NEW c \in Calls, CallInv(c), NEW aged \in SUBSET Left,
           EngineBegins(c, aged)
    PROVE  Keeps(c)
<1>1. /\ Step(c) = "engine" /\ how[c] = "ready" /\ Becomes(c, "inside")
      /\ bridge' = [b \in Calls |-> b = c \/ (bridge[b] /\ b \notin aged)]
      /\ UNCHANGED <<at, lease, report, polls, late, others>>
  BY DEF EngineBegins, At
<1>2. how' \in [Calls -> Manners] /\ how'[c] = "inside"
      /\ \A b \in Calls : b # c => how'[b] = how[b]
  BY <1>1, BecomesOne DEF Manners
<1>3. bridge' \in [Calls -> BOOLEAN] /\ bridge'[c]
  BY <1>1
<1>4. \A b \in Calls : b # c => bridge'[b] = bridge[b]
                                \/ (how[b] \in {"lost", "escaped"} /\ ~bridge'[b])
  <2> SUFFICES ASSUME NEW b \in Calls, b # c
               PROVE  bridge'[b] = bridge[b] \/ (how[b] \in {"lost", "escaped"} /\ ~bridge'[b])
    OBVIOUS
  <2>1. bridge[b] \in BOOLEAN /\ bridge'[b] = (bridge[b] /\ b \notin aged)
    BY <1>1, Typed
  <2>2. b \in aged => how[b] \in {"lost", "escaped"}
    BY DEF Left
  <2> QED
    BY <2>1, <2>2
<1>5. WindowTypeOK'
  BY <1>1, <1>2, <1>3 DEF WindowTypeOK, others
<1>6. Frame(c)
  BY <1>1, <1>2, <1>4 DEF Frame, others
<1>7. Step(c)' = "engine"
  BY <1>1 DEF Step
<1>8. CallInv(c)'
  BY <1>1, <1>2, <1>3, <1>7 DEF CallInv, Early
<1> QED
  BY <1>5, <1>6, <1>8 DEF Keeps

-----------------------------------------------------------------------------
\* The call takes its next step with the rows it has.
LEMMA MovesOn ==
    ASSUME WindowTypeOK, NEW c \in Calls, CallInv(c), NEW n \in {1, 2},
           at[c] + n <= Len(Plan[Kind[c]]), Advance(c, n), how[c] \in {"ready", "inside"},
           bridge' \in [Calls -> BOOLEAN], \A b \in Calls : b # c => bridge'[b] = bridge[b],
           ~bridge'[c], UNCHANGED <<lease, report, polls, late, others>>
    PROVE  Keeps(c)
<1>1. at[c] \in 0..7
  BY Typed
<1>2. at[c] + n <= (IF Kind[c] = "measurement" THEN 2 ELSE 1) => lease'[c] = "none"
  BY <1>1 DEF CallInv, Early
<1>3. report'[c] = "running" => Kind[c] = "measurement" /\ at[c] + n >= 4
  BY <1>1 DEF CallInv
<1>4. /\ lease' \in [Calls -> Leases] /\ late' \in [Calls -> BOOLEAN]
      /\ report' \in [Calls -> ReportStates]
  BY Typed
<1>5. /\ \A b \in Calls : b # c => bridge'[b] = bridge[b] /\ report'[b] = report[b]
                                    /\ late'[b] = late[b]
      /\ \A b \in Calls : b # c => lease'[b] = lease[b] \/ (how[b] \in {"lost", "escaped"}
                                                            /\ lease'[b] = "none")
  OBVIOUS
<1>6. UNCHANGED <<polls, others>>
  OBVIOUS
<1> QED
  BY <1>2, <1>3, <1>4, <1>5, <1>6, AdvanceKeeps

\* The call throws and leaves its row.
LEMMA EscapeKeeps ==
    ASSUME WindowTypeOK, NEW c \in Calls, CallInv(c), Becomes(c, "escaped"),
           bridge' \in [Calls -> BOOLEAN], \A b \in Calls : b # c => bridge'[b] = bridge[b],
           ~bridge'[c], report[c] # "running", Kind[c] = "effect" \/ purged[AccountOf[c]],
           UNCHANGED <<at, lease, report, polls, late, others>>
    PROVE  Keeps(c)
<1>1. how' \in [Calls -> Manners] /\ how'[c] = "escaped"
      /\ \A b \in Calls : b # c => how'[b] = how[b]
  BY BecomesOne DEF Manners
<1>2. WindowTypeOK'
  BY <1>1 DEF WindowTypeOK, others
<1>3. Frame(c)
  BY <1>1 DEF Frame, others
<1>4. CallInv(c)'
  BY <1>1 DEF CallInv, others
<1> QED
  BY <1>2, <1>3, <1>4 DEF Keeps

LEMMA EngineFailsKeeps ==
    ASSUME WindowTypeOK, NEW c \in Calls, CallInv(c), EngineFails(c),
           bridge' \in [Calls -> BOOLEAN], \A b \in Calls : b # c => bridge'[b] = bridge[b],
           ~bridge'[c], UNCHANGED <<at, polls, late, others>>
    PROVE  Keeps(c)
<1>1. CASE Kind[c] = "effect" /\ Becomes(c, "escaped") /\ UNCHANGED <<lease, report>>
  <2>1. report[c] # "running"
    BY <1>1 DEF CallInv
  <2> QED
    BY <1>1, <2>1, EscapeKeeps
<1>2. CASE Ends(c, FALSE)
  <2>1. polls' \in [Calls -> 0..MaxPolls] /\ UNCHANGED <<at, late, others>>
    BY Typed
  <2> QED
    BY <1>2, <2>1, EndingKeeps
<1> QED
  BY <1>1, <1>2 DEF EngineFails

LEMMA ReadyHasNoProcess ==
    ASSUME WindowTypeOK, NEW c \in Calls, CallInv(c), how[c] = "ready"
    PROVE  ~bridge[c]
BY DEF CallInv

LEMMA EngineRefusesKeeps ==
    ASSUME WindowTypeOK, NEW c \in Calls, CallInv(c), EngineRefuses(c)
    PROVE  Keeps(c)
<1>1. how[c] = "ready" /\ EngineFails(c) /\ UNCHANGED <<at, bridge, polls, late, others>>
  BY DEF EngineRefuses, At
<1>2. ~bridge'[c] /\ bridge' \in [Calls -> BOOLEAN]
      /\ \A b \in Calls : b # c => bridge'[b] = bridge[b]
  BY <1>1, ReadyHasNoProcess, Typed
<1> QED
  BY <1>1, <1>2, EngineFailsKeeps

LEMMA EngineEndsKeeps ==
    ASSUME WindowTypeOK, NEW c \in Calls, CallInv(c), EngineEnds(c)
    PROVE  Keeps(c)
<1>1. how[c] = "inside" /\ bridge' = [bridge EXCEPT ![c] = FALSE]
      /\ UNCHANGED <<polls, late, others>>
  BY DEF EngineEnds
<1>2. ~bridge'[c] /\ bridge' \in [Calls -> BOOLEAN]
      /\ \A b \in Calls : b # c => bridge'[b] = bridge[b]
  BY <1>1, Typed
<1>3. at[c] + 1 <= Len(Plan[Kind[c]])
  <2>1. Step(c) = "engine"
    BY <1>1 DEF CallInv
  <2> QED
    BY <2>1, Places
<1>4. CASE Advance(c, 1) /\ UNCHANGED <<lease, report>>
  <2>1. UNCHANGED <<lease, report, polls, late, others>>
    BY <1>1, <1>4
  <2> QED
    BY <1>1, <1>2, <1>3, <1>4, <2>1, MovesOn
<1>5. CASE EngineFails(c) /\ UNCHANGED at
  <2>1. UNCHANGED <<at, polls, late, others>>
    BY <1>1, <1>5
  <2> QED
    BY <1>2, <1>5, <2>1, EngineFailsKeeps
<1> QED
  BY <1>4, <1>5 DEF EngineEnds

\* A step that is taken or ends the call, for reading, storing and effects.
LEMMA StepOrEnd ==
    ASSUME WindowTypeOK, NEW c \in Calls, CallInv(c), how[c] = "ready",
           NEW good \in BOOLEAN, NEW n \in {1, 2},
           \/ /\ Advance(c, n) /\ at[c] + n <= Len(Plan[Kind[c]]) /\ UNCHANGED <<lease, report>>
           \/ Ends(c, good) /\ UNCHANGED at,
           UNCHANGED <<bridge, polls, late, others>>
    PROVE  Keeps(c)
<1>1. ~bridge'[c] /\ bridge' \in [Calls -> BOOLEAN] /\ polls' \in [Calls -> 0..MaxPolls]
      /\ \A b \in Calls : b # c => bridge'[b] = bridge[b]
  BY ReadyHasNoProcess, Typed
<1>2. CASE /\ Advance(c, n) /\ at[c] + n <= Len(Plan[Kind[c]])
           /\ UNCHANGED <<lease, report>>
  <2>1. UNCHANGED <<lease, report, polls, late, others>>
    BY <1>2
  <2> QED
    BY <1>1, <1>2, <2>1, MovesOn
<1>3. CASE Ends(c, good) /\ UNCHANGED at
  <2>1. UNCHANGED <<at, late, others>>
    BY <1>3
  <2> QED
    BY <1>1, <1>3, <2>1, EndingKeeps
<1> QED
  BY <1>2, <1>3

LEMMA StartReportKeeps ==
    ASSUME WindowTypeOK, NEW c \in Calls, CallInv(c), StartReport(c)
    PROVE  Keeps(c)
<1>1. /\ Step(c) = "report" /\ how[c] = "ready" /\ Kind[c] = "measurement" /\ at[c] = 3
      /\ UNCHANGED <<lease, bridge, polls, late, others>>
  BY Places DEF StartReport, At
<1>2. /\ ~bridge[c] /\ bridge' \in [Calls -> BOOLEAN] /\ at[c] + 1 <= Len(Plan[Kind[c]])
      /\ report[c] # "running"
  BY <1>1, ReadyHasNoProcess, Typed, Fits DEF CallInv
<1>3. CASE purged[AccountOf[c]] /\ Becomes(c, "escaped") /\ UNCHANGED <<at, report>>
  BY <1>1, <1>2, <1>3, EscapeKeeps
<1>4. CASE Advance(c, 1) /\ report' = [report EXCEPT ![c] = "running"]
  <2>1. /\ report' \in [Calls -> ReportStates]
        /\ \A b \in Calls : b # c => report'[b] = report[b]
    BY <1>4, Typed DEF ReportStates
  <2>2. /\ lease' \in [Calls -> Leases] /\ late' \in [Calls -> BOOLEAN]
        /\ bridge' \in [Calls -> BOOLEAN] /\ ~bridge'[c]
        /\ \A b \in Calls : b # c => bridge'[b] = bridge[b] /\ report'[b] = report[b]
                                      /\ late'[b] = late[b]
        /\ \A b \in Calls : b # c => lease'[b] = lease[b] \/ (how[b] \in {"lost", "escaped"}
                                                              /\ lease'[b] = "none")
    BY <1>1, <1>2, <2>1, Typed
  <2>3. /\ ~(at[c] + 1 <= IF Kind[c] = "measurement" THEN 2 ELSE 1)
        /\ Kind[c] = "measurement" /\ at[c] + 1 >= 4
    BY <1>1
  <2>4. UNCHANGED <<polls, others>>
    BY <1>1
  <2> QED
    BY <1>2, <1>4, <2>1, <2>2, <2>3, <2>4, AdvanceKeeps
<1> QED
  BY <1>3, <1>4 DEF StartReport

LEMMA ReserveKeeps ==
    ASSUME WindowTypeOK, NEW c \in Calls, CallInv(c), Reserve(c)
    PROVE  Keeps(c)
<1>1. /\ Step(c) = "reserve" /\ how[c] = "ready" /\ Kind[c] = "effect" /\ at[c] = 1
      /\ UNCHANGED <<bridge, polls, late, others>>
  BY Places DEF Reserve, At
<1>2. /\ ~bridge[c] /\ at[c] + 1 <= Len(Plan[Kind[c]]) /\ report[c] # "running"
  BY <1>1, ReadyHasNoProcess, Fits DEF CallInv
<1>3. CASE /\ Advance(c, 1) /\ lease' = [lease EXCEPT ![c] = "running"]
           /\ UNCHANGED report
  <2>1. lease' \in [Calls -> Leases] /\ \A b \in Calls : b # c => lease'[b] = lease[b]
    BY <1>3, Typed DEF Leases
  <2>2. /\ late' \in [Calls -> BOOLEAN]
        /\ report' \in [Calls -> ReportStates]
        /\ bridge' \in [Calls -> BOOLEAN] /\ ~bridge'[c] /\ report'[c] # "running"
        /\ \A b \in Calls : b # c => bridge'[b] = bridge[b] /\ report'[b] = report[b]
                                      /\ late'[b] = late[b]
        /\ \A b \in Calls : b # c => lease'[b] = lease[b] \/ (how[b] \in {"lost", "escaped"}
                                                              /\ lease'[b] = "none")
    BY <1>1, <1>2, <1>3, <2>1, Typed
  <2>3. ~(at[c] + 1 <= IF Kind[c] = "measurement" THEN 2 ELSE 1)
    BY <1>1
  <2>4. UNCHANGED <<polls, others>>
    BY <1>1
  <2> QED
    BY <1>2, <1>3, <2>1, <2>2, <2>3, <2>4, AdvanceKeeps
<1>4. CASE Ends(c, FALSE) /\ UNCHANGED at
  BY <1>1, <1>4, StepOrEnd
<1> QED
  BY <1>3, <1>4 DEF Reserve

LEMMA OtherStepsKeep ==
    ASSUME WindowTypeOK, NEW c \in Calls, CallInv(c), NEW good \in BOOLEAN, NEW missing \in BOOLEAN,
           \/ ReadAnyhow(c, good) \/ ReadAgain(c, missing, good) \/ ReadProfile(c, good)
           \/ Store(c) \/ SendEffect(c) \/ SettleEffect(c)
    PROVE  Keeps(c)
<1>1. /\ Step(c) \in {"read", "reread", "profile", "store", "write", "settle"}
      /\ how[c] = "ready"
      /\ \/ Step(c) = "reread" /\ Advance(c, 2) /\ UNCHANGED <<lease, report>>
         \/ /\ Step(c) \in {"read", "reread", "profile", "write"}
            /\ Advance(c, 1) /\ UNCHANGED <<lease, report>>
         \/ (Ends(c, FALSE) \/ Ends(c, TRUE)) /\ UNCHANGED at
      /\ UNCHANGED <<bridge, polls, late, others>>
  BY DEF ReadAnyhow, ReadAgain, ReadProfile, Store, SendEffect, SettleEffect, At, rowVars
<1>2. CASE Step(c) = "reread" /\ Advance(c, 2) /\ UNCHANGED <<lease, report>>
  <2>1. at[c] + 2 <= Len(Plan[Kind[c]])
    BY <1>2, Fits
  <2> QED
    BY <1>1, <1>2, <2>1, StepOrEnd
<1>3. CASE /\ Step(c) \in {"read", "reread", "profile", "write"}
           /\ Advance(c, 1) /\ UNCHANGED <<lease, report>>
  <2>1. at[c] + 1 <= Len(Plan[Kind[c]])
    BY <1>3, Fits
  <2> QED
    BY <1>1, <1>3, <2>1, StepOrEnd
<1>4. CASE (Ends(c, FALSE) \/ Ends(c, TRUE)) /\ UNCHANGED at
  BY <1>1, <1>4, StepOrEnd
<1> QED
  BY <1>1, <1>2, <1>3, <1>4

\* What one call does, in one of these ways.
Acts(c) == \/ Begin(c) \/ Moves(c) \/ Store(c)
           \/ \E good, missing \in BOOLEAN : ReadAnyhow(c, good) \/ ReadAgain(c, missing, good)

LEMMA CallKeeps ==
    ASSUME WindowTypeOK, NEW c \in Calls, CallInv(c), Acts(c)
    PROVE  Keeps(c)
<1>1. CASE \E aged \in SUBSET Left : TakeLease(c, aged) \/ EngineBegins(c, aged)
  BY <1>1, TakeLeaseKeeps, EngineBeginsKeeps
<1>2. CASE Begin(c) \/ AskAdmission(c) \/ Poll(c) \/ GiveUp(c) \/ Claim(c)
  BY <1>2, BeginKeeps, AskAdmissionKeeps, PollKeeps, ClaimKeeps
<1>3. CASE EngineRefuses(c) \/ EngineEnds(c) \/ StartReport(c) \/ Reserve(c)
  BY <1>3, EngineRefusesKeeps, EngineEndsKeeps, StartReportKeeps, ReserveKeeps
<1>4. CASE Store(c) \/ SendEffect(c) \/ SettleEffect(c)
  BY <1>4, OtherStepsKeep
<1>5. CASE \E good \in BOOLEAN : ReadProfile(c, good)
  BY <1>5, OtherStepsKeep
<1>6. CASE \E good, missing \in BOOLEAN : ReadAnyhow(c, good) \/ ReadAgain(c, missing, good)
  BY <1>6, OtherStepsKeep
<1> QED
  BY <1>1, <1>2, <1>3, <1>4, <1>5, <1>6 DEF Acts, Moves

-----------------------------------------------------------------------------
(* The invariant, and every step that keeps it.                            *)

CallsInv == \A c \in Calls : CallInv(c)

\* A purge takes every row of the account, and nothing of other accounts.
LEMMA PurgeKeeps ==
    ASSUME WindowTypeOK, CallsInv, NEW d \in Accounts, Purge(d)
    PROVE  WindowTypeOK' /\ CallsInv'
<1>1. /\ purged' = [purged EXCEPT ![d] = TRUE]
      /\ lease' = [c \in Calls |-> IF AccountOf[c] = d THEN "none" ELSE lease[c]]
      /\ bridge' = [c \in Calls |-> ~(AccountOf[c] = d) /\ bridge[c]]
      /\ report' = [c \in Calls |-> IF AccountOf[c] = d THEN "none" ELSE report[c]]
      /\ UNCHANGED <<at, how, polls, late, flag, backup>>
  BY DEF Purge
<1>2. purged \in [Accounts -> BOOLEAN]
  BY DEF WindowTypeOK
<1>3. WindowTypeOK'
  <2>1. /\ purged' \in [Accounts -> BOOLEAN] /\ lease' \in [Calls -> Leases]
        /\ bridge' \in [Calls -> BOOLEAN]
        /\ report' \in [Calls -> ReportStates]
    BY <1>1, <1>2, Typed DEF ReportStates, Leases
  <2> QED
    BY <1>1, <2>1 DEF WindowTypeOK
<1>4. SUFFICES ASSUME NEW c \in Calls
               PROVE  CallInv(c)'
  BY <1>3 DEF CallsInv
<1>5. AccountOf[c] \in Accounts /\ CallInv(c)
  BY WindowAssumption DEF CallsInv
<1>6. /\ at'[c] = at[c] /\ how'[c] = how[c] /\ Step(c)' = Step(c)
      /\ purged'[AccountOf[c]] = (AccountOf[c] = d \/ purged[AccountOf[c]])
      /\ AccountOf[c] = d => lease'[c] = "none" /\ ~bridge'[c] /\ report'[c] = "none"
      /\ AccountOf[c] # d => lease'[c] = lease[c] /\ bridge'[c] = bridge[c]
                             /\ report'[c] = report[c]
  BY <1>1, <1>2, <1>5, Typed DEF Step
<1>7. Early(c)' = Early(c)
  BY <1>1 DEF Early
<1> QED
  BY <1>5, <1>6, <1>7 DEF CallInv

LEMMA DeathKeeps ==
    ASSUME WindowTypeOK, CallsInv, NEW kinds, ProcessDies(kinds)
    PROVE  WindowTypeOK' /\ CallsInv'
<1> DEFINE gone == {c \in Calls : Kind[c] \in kinds /\ how[c] \notin Gone /\ at[c] > 0}
<1>1. /\ how' = [c \in Calls |-> IF c \in gone THEN "lost" ELSE how[c]]
      /\ report' = [c \in Calls |-> IF Kind[c] \in kinds /\ report[c] = "running"
                                    THEN "interrupted" ELSE report[c]]
      /\ UNCHANGED <<at, lease, bridge, polls, late, others>>
  BY DEF ProcessDies
<1>2. how' \in [Calls -> Manners] /\ report' \in [Calls -> ReportStates]
  BY <1>1, Typed DEF Manners, ReportStates
<1>3. WindowTypeOK'
  BY <1>1, <1>2 DEF WindowTypeOK, others
<1>4. ASSUME NEW c \in Calls PROVE CallInv(c)'
  <2>0. \/ how'[c] = "lost" /\ Kind[c] \in kinds
        \/ how'[c] = how[c]
    BY <1>1
  <2> HIDE DEF gone
  <2>1. /\ CallInv(c)
        /\ report'[c] = "running" => report[c] = "running" /\ Kind[c] \notin kinds
    BY <1>1 DEF CallsInv
  <2>2. Step(c)' = Step(c) /\ Early(c)' = Early(c)
    BY <1>1 DEF Step, Early
  <2> QED
    BY <1>1, <2>0, <2>1, <2>2 DEF CallInv, others
<1> QED
  BY <1>3, <1>4 DEF CallsInv

LEMMA CallStepKeeps ==
    ASSUME WindowTypeOK, CallsInv, NEW c \in Calls, Acts(c)
    PROVE  WindowTypeOK' /\ CallsInv'
<1>1. WindowTypeOK' /\ Frame(c) /\ CallInv(c)'
  BY CallKeeps DEF CallsInv, Keeps
<1>2. ASSUME NEW b \in Calls, b # c PROVE CallInv(b)'
  <2>1. CallInv(b)
    BY DEF CallsInv
  <2>2. /\ at'[b] = at[b] /\ how'[b] = how[b] /\ report'[b] = report[b] /\ purged' = purged
        /\ lease'[b] = lease[b] \/ (how[b] \in {"lost", "escaped"} /\ lease'[b] = "none")
        /\ bridge'[b] = bridge[b] \/ (how[b] \in {"lost", "escaped"} /\ ~bridge'[b])
    BY <1>2, <1>1 DEF Frame
  <2>3. Step(b)' = Step(b) /\ Early(b)' = Early(b)
    BY <2>2 DEF Step, Early
  <2> QED
    BY <2>1, <2>2, <2>3 DEF CallInv
<1> QED
  BY <1>1, <1>2 DEF CallsInv

LEMMA BackupStepKeeps ==
    ASSUME WindowTypeOK, CallsInv, BackupBegins \/ BackupDies \/ BackupProceeds
    PROVE  WindowTypeOK' /\ CallsInv'
<1>1. /\ UNCHANGED callVars /\ flag' \in BOOLEAN
      /\ backup' \in {"off", "draining", "clear", "app", "killed"}
  BY DEF WindowTypeOK, BackupBegins, BackupDies, BackupProceeds, BackupSeesQuiet,
         BackupTimesOut, CopyAppDatabase, BackupEnds
<1>2. WindowTypeOK'
  BY <1>1 DEF WindowTypeOK, callVars, rowVars
<1>3. ASSUME NEW c \in Calls PROVE CallInv(c)'
  <2>1. CallInv(c) /\ Step(c)' = Step(c) /\ Early(c)' = Early(c)
    BY <1>1 DEF CallsInv, Step, Early, callVars
  <2> QED
    BY <1>1, <2>1 DEF CallInv, callVars, rowVars
<1> QED
  BY <1>2, <1>3 DEF CallsInv

\* The ways a step of the window can be taken.
LEMMA Ways ==
    ASSUME WindowNext
    PROVE  \/ \E c \in Calls : Acts(c)
           \/ \E d \in Accounts : Purge(d)
           \/ ProcessDies({"effect"}) \/ ProcessDies(Kinds \ {"effect"})
           \/ BackupBegins \/ BackupDies \/ BackupProceeds
BY DEF WindowNext, Outside, Acts

LEMMA CallsInit ==
    ASSUME WindowInit
    PROVE  WindowTypeOK /\ CallsInv
<1>1. \A c \in Calls : Kind[c] \in Kinds
  BY WindowAssumption
<1>2. \A c \in Calls : at[c] = 0 /\ 0 <= Len(Plan[Kind[c]])
  <2> TAKE c \in Calls
  <2> DEFINE l == Len(Plan[Kind[c]])
  <2>1. l = IF Kind[c] = "effect" THEN 5 ELSE 7
    BY <1>1, PlanLength
  <2> HIDE DEF l
  <2>2. 0 <= l
    BY <2>1
  <2> QED
    BY <2>2 DEF WindowInit, l
<1>3. WindowTypeOK
  <2>1. /\ at \in [Calls -> 0..7] /\ how \in [Calls -> Manners] /\ lease \in [Calls -> Leases]
        /\ bridge \in [Calls -> BOOLEAN] /\ late \in [Calls -> BOOLEAN]
        /\ purged \in [Accounts -> BOOLEAN]
        /\ report \in [Calls -> ReportStates]
    BY DEF ReportStates, WindowInit, Manners, Leases
  <2>2. polls \in [Calls -> 0..MaxPolls]
    BY WindowAssumption DEF WindowInit
  <2>3. \A c \in Calls : at[c] <= Len(Plan[Kind[c]])
    BY <1>2
  <2> QED
    BY <2>1, <2>2, <2>3 DEF WindowInit, WindowTypeOK
<1> QED
  BY <1>3 DEF WindowInit, CallsInv, CallInv

LEMMA CallsStep ==
    ASSUME WindowTypeOK, CallsInv, [WindowNext]_windowVars
    PROVE  WindowTypeOK' /\ CallsInv'
<1>1. CASE UNCHANGED windowVars
  <2>1. WindowTypeOK'
    BY <1>1 DEF WindowTypeOK, windowVars, callVars, rowVars
  <2>2. ASSUME NEW c \in Calls PROVE CallInv(c)'
    <3>1. CallInv(c) /\ Step(c)' = Step(c) /\ Early(c)' = Early(c)
      BY <1>1 DEF CallsInv, Step, Early, windowVars, callVars
    <3> QED
      BY <1>1, <3>1 DEF CallInv, windowVars, callVars, rowVars
  <2> QED
    BY <2>1, <2>2 DEF CallsInv
<1>2. CASE WindowNext
  BY <1>2, Ways, CallStepKeeps, PurgeKeeps, DeathKeeps, BackupStepKeeps
<1> QED
  BY <1>1, <1>2

\* Every reachable state is well typed: calls, rows, flag and backup, for any calls,
\* accounts and limits.
THEOREM TypeCorrect == WindowSpec => []WindowTypeOK
<1>1. WindowInit => WindowTypeOK /\ CallsInv
  BY CallsInit
<1>2. WindowTypeOK /\ CallsInv /\ [WindowNext]_windowVars => (WindowTypeOK /\ CallsInv)'
  BY CallsStep
<1> QED
  BY <1>1, <1>2, PTL DEF WindowSpec

\* A call that returned or threw leaves no row that a later backup or acquisition
\* would wait for, for any calls, accounts and limits (the finally blocks of
\* preview, startFeedYield and execute).
THEOREM EndsHoldNothing == WindowSpec => []EndedHoldsNothing
<1>1. WindowInit => WindowTypeOK /\ CallsInv
  BY CallsInit
<1>2. WindowTypeOK /\ CallsInv /\ [WindowNext]_windowVars => (WindowTypeOK /\ CallsInv)'
  BY CallsStep
<1>3. WindowTypeOK /\ CallsInv => EndedHoldsNothing
  BY DEF CallsInv, CallInv, EndedHoldsNothing, Gone
<1> QED
  BY <1>1, <1>2, <1>3, PTL DEF WindowSpec

-----------------------------------------------------------------------------
(* The quiet window.                                                       *)

\* The account was erased under a running call, or one of its calls got its lease
\* while a flag was up.
Excused(d) == purged[d] \/ \E b \in Of(Calls, d) : late[b]

FlagStands == backup \in {"draining", "clear", "app"} => flag
QuietInv == /\ FlagStands
            /\ Copying => \A c \in Calls : lease[c] = "running" \/ bridge[c] => Excused(AccountOf[c])

\* While the flag is up a call gets a row only late, or next to a row of its account.
LEMMA RowsUnderFlag ==
    ASSUME WindowTypeOK, flag, NEW c \in Calls, Acts(c)
    PROVE  \A b \in Calls :
              /\ late[b] => late'[b]
              /\ lease'[b] = "running" => lease[b] = "running" \/ late'[b]
              /\ bridge'[b] => bridge[b] \/ \E h \in Held : AccountOf[h] = AccountOf[b]
<1> USE Typed
<1>1. ASSUME NEW g \in BOOLEAN, Ends(c, g), UNCHANGED <<late>>, \A b \in Calls : bridge'[b] => bridge[b]
      PROVE  \A b \in Calls : /\ late[b] => late'[b]
                              /\ lease'[b] = "running" => lease[b] = "running" \/ late'[b]
                              /\ bridge'[b] => bridge[b]
  BY <1>1, Ending
<1>2. ASSUME NEW table \in [Calls -> Leases], Granted(c, table), UNCHANGED bridge,
             \A b \in Calls : table[b] = "running" => lease[b] = "running"
      PROVE  \A b \in Calls : /\ late[b] => late'[b]
                              /\ lease'[b] = "running" => lease[b] = "running" \/ late'[b]
                              /\ bridge'[b] => bridge[b]
  <2>1. CASE lease' = [table EXCEPT ![c] = "done"] /\ UNCHANGED late
    BY <1>2, <2>1
  <2>2. CASE lease' = [table EXCEPT ![c] = "running"] /\ late' = [late EXCEPT ![c] = flag]
    BY <1>2, <2>2
  <2> QED
    BY <1>2, <2>1, <2>2 DEF Granted
<1>3. CASE \E aged \in SUBSET Left : TakeLease(c, aged)
  <2> PICK aged \in SUBSET Left : TakeLease(c, aged)
    BY <1>3
  <2> DEFINE kept == [b \in Calls |-> IF b \in aged THEN "none" ELSE lease[b]]
  <2>1. kept \in [Calls -> Leases] /\ \A b \in Calls : kept[b] = "running" => lease[b] = "running"
    BY DEF Leases
  <2>2. \/ Granted(c, kept)
        \/ lease' = [kept EXCEPT ![c] = "waiting"] /\ UNCHANGED late
        \/ UNCHANGED <<lease, late>>
    BY DEF TakeLease
  <2>3. UNCHANGED bridge
    BY DEF TakeLease
  <2> HIDE DEF kept
  <2> QED
    BY <1>2, <2>1, <2>2, <2>3
<1>4. CASE \E aged \in SUBSET Left : EngineBegins(c, aged)
  <2> PICK aged \in SUBSET Left : EngineBegins(c, aged)
    BY <1>4
  <2>1. \E h \in Held : AccountOf[h] = AccountOf[c]
    BY DEF EngineBegins, Admits, Of
  <2>2. \A b \in Calls : bridge'[b] => b = c \/ bridge[b]
    BY DEF EngineBegins
  <2>3. UNCHANGED <<lease, late>>
    BY DEF EngineBegins
  <2> QED
    BY <2>1, <2>2, <2>3
<1>5. CASE Claim(c)
  <2>1. UNCHANGED bridge /\ (Granted(c, lease) \/ UNCHANGED <<lease, late>>)
    BY <1>5 DEF Claim
  <2> QED
    BY <1>2, <2>1
<1>6. CASE EngineEnds(c)
  <2>1. UNCHANGED late /\ \A b \in Calls : bridge'[b] => bridge[b]
    BY <1>6 DEF EngineEnds
  <2>2. UNCHANGED lease \/ Ends(c, FALSE)
    BY <1>6 DEF EngineEnds, EngineFails
  <2> QED
    BY <1>1, <2>1, <2>2
<1>7. CASE \/ Begin(c) \/ AskAdmission(c) \/ Poll(c) \/ GiveUp(c) \/ EngineRefuses(c)
           \/ StartReport(c) \/ (\E good \in BOOLEAN : ReadProfile(c, good)) \/ Reserve(c)
           \/ SendEffect(c) \/ SettleEffect(c) \/ Store(c)
           \/ \E good, missing \in BOOLEAN : ReadAnyhow(c, good) \/ ReadAgain(c, missing, good)
  <2>1. UNCHANGED <<bridge, late>>
    BY <1>7 DEF Begin, AskAdmission, Poll, GiveUp, EngineRefuses, StartReport, ReadProfile,
         Reserve, SendEffect, SettleEffect, Store, ReadAnyhow, ReadAgain, rowVars
  <2>2. UNCHANGED lease \/ Ends(c, FALSE) \/ Ends(c, TRUE)
    BY <1>7 DEF Begin, AskAdmission, Poll, GiveUp, EngineRefuses, StartReport, ReadProfile,
         Reserve, SendEffect, SettleEffect, Store, ReadAnyhow, ReadAgain, rowVars, Admission,
         EngineFails
  <2>3. \A b \in Calls : bridge'[b] => bridge[b]
    BY <2>1
  <2> QED
    BY <1>1, <2>1, <2>2, <2>3
<1> QED
  BY <1>3, <1>4, <1>5, <1>6, <1>7 DEF Acts, Moves

LEMMA QuietCallStep ==
    ASSUME WindowTypeOK, CallsInv, QuietInv, NEW c \in Calls, Acts(c)
    PROVE  QuietInv'
<1>1. flag' = flag /\ backup' = backup /\ purged' = purged
  BY CallKeeps DEF CallsInv, Keeps, Frame
<1>2. FlagStands'
  BY <1>1 DEF QuietInv, FlagStands
<1>3. SUFFICES ASSUME Copying, NEW b \in Calls, lease'[b] = "running" \/ bridge'[b]
               PROVE  Excused(AccountOf[b])'
  BY <1>1, <1>2 DEF QuietInv, Copying
<1>4. flag
  BY <1>3 DEF QuietInv, FlagStands, Copying
<1>5. \A d \in Accounts : Excused(d) => Excused(d)'
  <2> SUFFICES ASSUME NEW d \in Accounts, Excused(d)
               PROVE  Excused(d)'
    OBVIOUS
  <2>1. CASE purged[d]
    BY <1>1, <2>1 DEF Excused
  <2>2. CASE \E x \in Of(Calls, d) : late[x]
    <3> PICK x \in Of(Calls, d) : late[x]
      BY <2>2
    <3>1. late'[x]
      BY <1>4, RowsUnderFlag DEF Of
    <3> QED
      BY <3>1 DEF Excused, Of
  <2> QED
    BY <2>1, <2>2 DEF Excused
<1>6. AccountOf[b] \in Accounts
  BY WindowAssumption
<1>7. CASE lease[b] = "running" \/ bridge[b]
  BY <1>3, <1>5, <1>6, <1>7 DEF QuietInv
<1>8. CASE late'[b]
  BY <1>8 DEF Excused, Of
<1>9. CASE \E h \in Held : AccountOf[h] = AccountOf[b]
  <2> PICK h \in Held : AccountOf[h] = AccountOf[b]
    BY <1>9
  <2>1. h \in Calls /\ lease[h] = "running"
    BY DEF Held
  <2>2. Excused(AccountOf[h])
    BY <1>3, <2>1 DEF QuietInv
  <2> QED
    BY <1>5, <1>6, <2>2
<1> QED
  BY <1>3, <1>4, <1>7, <1>8, <1>9, RowsUnderFlag

\* Nothing holds a row when the copying begins, and the flag falls only when it is over.
LEMMA QuietOtherStep ==
    ASSUME WindowTypeOK, QuietInv,
           \/ \E d \in Accounts : Purge(d)
           \/ ProcessDies({"effect"}) \/ ProcessDies(Kinds \ {"effect"})
           \/ BackupBegins \/ BackupDies \/ BackupProceeds
    PROVE  QuietInv'
<1>1. CASE \E d \in Accounts : Purge(d)
  <2> PICK d \in Accounts : Purge(d)
    BY <1>1
  <2>1. UNCHANGED <<late, flag, backup>> /\ purged' = [purged EXCEPT ![d] = TRUE]
        /\ purged \in [Accounts -> BOOLEAN]
    BY DEF Purge, WindowTypeOK
  <2>2. \A c \in Calls : /\ lease'[c] = "running" => lease[c] = "running"
                         /\ bridge'[c] => bridge[c]
    BY DEF Purge
  <2>3. \A e \in Accounts : Excused(e) => Excused(e)'
    BY <2>1 DEF Excused
  <2> QED
    BY <2>1, <2>2, <2>3, WindowAssumption DEF QuietInv, FlagStands, Copying
<1>2. CASE ProcessDies({"effect"}) \/ ProcessDies(Kinds \ {"effect"})
  <2>1. UNCHANGED <<lease, bridge, late, flag, backup, purged>>
    BY <1>2 DEF ProcessDies, others
  <2> QED
    BY <2>1 DEF QuietInv, FlagStands, Copying, Excused
<1>3. CASE BackupSeesQuiet
  <2>1. /\ \A c \in Calls : lease[c] # "running" /\ ~bridge[c]
        /\ backup = "draining" /\ backup' = "clear" /\ flag' = flag
        /\ UNCHANGED <<lease, bridge>>
    BY <1>3 DEF BackupSeesQuiet, Held, Bridged, callVars, rowVars
  <2> QED
    BY <2>1 DEF QuietInv, FlagStands
<1>4. CASE BackupBegins \/ BackupDies \/ BackupTimesOut \/ CopyAppDatabase \/ BackupEnds
  <2>1. UNCHANGED callVars /\ (Copying' => Copying) /\ FlagStands'
    BY <1>4 DEF QuietInv, FlagStands, Copying, BackupBegins, BackupDies, BackupTimesOut,
         CopyAppDatabase, BackupEnds
  <2>2. UNCHANGED <<lease, bridge, late, purged>>
    BY <2>1 DEF callVars, rowVars
  <2> QED
    BY <2>1, <2>2 DEF QuietInv, Excused
<1> QED
  BY <1>1, <1>2, <1>3, <1>4 DEF BackupProceeds

WindowInv == WindowTypeOK /\ CallsInv /\ QuietInv

LEMMA WindowInvInit == WindowInit => WindowInv
<1> SUFFICES ASSUME WindowInit
             PROVE  WindowInv
  OBVIOUS
<1>1. QuietInv
  BY DEF WindowInit, QuietInv, FlagStands, Copying
<1> QED
  BY <1>1, CallsInit DEF WindowInv

LEMMA WindowInvStep == WindowInv /\ [WindowNext]_windowVars => WindowInv'
<1> SUFFICES ASSUME WindowInv, [WindowNext]_windowVars
             PROVE  WindowInv'
  OBVIOUS
<1>1. WindowTypeOK' /\ CallsInv'
  BY CallsStep DEF WindowInv
<1>2. QuietInv'
  <2>1. CASE UNCHANGED windowVars
    <3>1. UNCHANGED <<lease, bridge, late, purged, flag, backup>>
      BY <2>1 DEF windowVars, callVars, rowVars
    <3> QED
      BY <3>1 DEF WindowInv, QuietInv, FlagStands, Copying, Excused
  <2>2. CASE WindowNext
    BY <2>2, Ways, QuietCallStep, QuietOtherStep DEF WindowInv
  <2> QED
    BY <2>1, <2>2
<1> QED
  BY <1>1, <1>2 DEF WindowInv

LEMMA WindowInvQuiet == WindowInv => WindowIsQuiet
<1> SUFFICES ASSUME WindowInv, Copying, NEW c \in Calls,
                    c \in Held \cup Bridged \/ how[c] = "inside"
             PROVE  Excused(AccountOf[c])
  BY DEF WindowIsQuiet, Excused
<1>1. lease[c] = "running" \/ bridge[c] \/ purged[AccountOf[c]]
  BY DEF WindowInv, CallsInv, CallInv, Held, Bridged
<1> QED
  BY <1>1 DEF WindowInv, QuietInv, Excused

\* While the databases are copied nothing holds a row and no engine runs, but for
\* accounts that slipped in late or were erased, for any calls, accounts and limits
\* (backup.py begin_maintenance, controls.ts begin and reserveEffect).
THEOREM CopiesAreTakenInQuiet == WindowSpec => []WindowIsQuiet
  BY WindowInvInit, WindowInvStep, WindowInvQuiet, PTL DEF WindowSpec

-----------------------------------------------------------------------------
(* Every step of an acquisition is a step of the window.                   *)

LEMMA WindowSteps ==
    ASSUME [Next]_vars
    PROVE  [WindowNext]_windowVars
<1>1. CASE UNCHANGED vars
  BY <1>1 DEF vars
<1>2. ASSUME NEW c \in Calls, Proceed(c) PROVE [WindowNext]_windowVars
  <2>1. CASE Moves(c) \/ \E evidence \in BOOLEAN : StoreResult(c, evidence)
    BY <2>1 DEF StoreResult, WindowNext
  <2>2. CASE Reading(c)
    BY <2>2 DEF Reading
  <2>3. CASE EndReading(c)
    <3>1. \E good \in BOOLEAN : ReadAnyhow(c, good)
      BY <2>3 DEF EndReading
    <3> QED
      BY <3>1 DEF WindowNext
  <2>4. CASE \E good \in BOOLEAN : ReadAtOnce(c, good)
    <3>1. \E good \in BOOLEAN : ReadAnyhow(c, good)
      BY <2>4 DEF ReadAtOnce
    <3> QED
      BY <3>1 DEF WindowNext
  <2>5. CASE \E good \in BOOLEAN, known \in SUBSET Managed : LookUpMissing(c, good, known)
    <3>1. \E good, missing \in BOOLEAN : ReadAgain(c, missing, good)
      BY <2>5 DEF LookUpMissing
    <3> QED
      BY <3>1 DEF WindowNext
  <2> QED
    BY <1>2, <2>1, <2>2, <2>3, <2>4, <2>5 DEF Proceed
<1>3. ASSUME NEW c \in Calls, NEW in \in Inputs, NEW spent \in Spent, StartReading(c, in, spent)
      PROVE  UNCHANGED windowVars
  BY <1>3 DEF StartReading
<1>4. CASE Outside
  BY <1>4 DEF WindowNext
<1> QED
  BY <1>1, <1>2, <1>3, <1>4 DEF Next

\* An acquisition that reads request by request is a call of the maintenance window:
\* what is proved of the window holds of it (acquire runs inside preview and
\* finishFeedYield).
THEOREM AcquisitionImplementsWindow == Spec => WindowSpec
<1>1. Init => WindowInit
  BY DEF Init
<1>2. [Next]_vars => [WindowNext]_windowVars
  BY WindowSteps
<1> QED
  BY <1>1, <1>2, PTL DEF Spec, WindowSpec

\* The copies are taken in quiet while acquisitions read request by request.
THEOREM QuietUnderAcquisition == Spec => []WindowIsQuiet
  BY AcquisitionImplementsWindow, CopiesAreTakenInQuiet, PTL

\* No acquisition that ended leaves a row behind, wherever its reading stopped.
THEOREM EndsUnderAcquisition == Spec => []EndedHoldsNothing
  BY AcquisitionImplementsWindow, EndsHoldNothing, PTL

-----------------------------------------------------------------------------
(* What a reading says of an account.                                      *)

MutesAreWhole == mutes.end => mutes.n = Len(Mutes)
RemoteIsTrue == \A s \in Subjects :
    remote[s].known => remote[s].direct = (\E i \in DOMAIN Mutes : Mutes[i] = s)
RelationIsTrue == \A s \in Subjects :
    relation[s] # "unknown" => (relation[s] = "following") = (s \in Follows)
StandingInv == MutesAreWhole /\ RemoteIsTrue /\ RelationIsTrue

\* One readable row decides, and it says what the network holds.
LEMMA OneRowDecides ==
    ASSUME NEW s \in Subjects, NEW told \in Told(s), RelationOf(told) # "unknown"
    PROVE  (RelationOf(told) = "following") = (s \in Follows)
<1>1. \/ told = <<>> \/ told = <<"following", "plain">> \/ told = <<"plain", "following">>
      \/ told = <<"notFound">> \/ told = <<"other">>
      \/ told = <<IF s \in Follows THEN "following" ELSE "plain">>
  BY DEF Told
<1>2. CASE told = <<IF s \in Follows THEN "following" ELSE "plain">>
  <2>1. CASE s \in Follows
    BY <1>2, <2>1 DEF RelationOf
  <2>2. CASE s \notin Follows
    BY <1>2, <2>2 DEF RelationOf
  <2> QED
    BY <2>1, <2>2
<1>3. CASE \/ told = <<>> \/ told = <<"following", "plain">> \/ told = <<"plain", "following">>
           \/ told = <<"notFound">> \/ told = <<"other">>
  <2>1. RelationOf(told) = "unknown"
    BY <1>3 DEF RelationOf
  <2> QED
    BY <2>1
<1> QED
  BY <1>1, <1>2, <1>3

\* The observation begins without a mute read, and the feeds decide about nobody.
LEMMA ObservesStanding ==
    ASSUME RemoteIsTrue, NEW spent, NEW subjects, Observes(spent, subjects)
    PROVE  MutesAreWhole' /\ RemoteIsTrue'
<1>1. remote' = remote /\ mutes'.end = FALSE
  BY DEF Observes, NoMutes
<1> QED
  BY <1>1 DEF MutesAreWhole, RemoteIsTrue

LEMMA FeedEndsStanding ==
    ASSUME StandingInv, NEW row, NEW spent, FeedEnds(row, spent)
    PROVE  StandingInv'
<1>1. relation' = relation
  BY DEF FeedEnds
<1>2. \/ UNCHANGED <<mutes, remote>>
      \/ \E n, subjects : Observes(n, subjects)
  BY DEF FeedEnds, Relates, observeVars
<1>3. CASE UNCHANGED <<mutes, remote>>
  BY <1>1, <1>3 DEF StandingInv, MutesAreWhole, RemoteIsTrue, RelationIsTrue
<1>4. CASE \E n, subjects : Observes(n, subjects)
  BY <1>1, <1>4, ObservesStanding DEF StandingInv, RelationIsTrue
<1> QED
  BY <1>2, <1>3, <1>4

LEMMA RelationsStanding ==
    ASSUME StandingInv, NEW b, NEW told, RelationsArrive(b, told)
    PROVE  StandingInv'
<1> DEFINE batch == {s \in Exposed : BatchOf(s, Exposed, RelationBatch) = b}
<1>1. /\ \A s \in batch : told[s] \in Told(s)
      /\ relation' = [s \in Subjects |-> IF s \in batch THEN RelationOf(told[s]) ELSE relation[s]]
  BY DEF RelationsArrive
<1>2. UNCHANGED observeVars \/ Observes(requests, Acquired)
  BY DEF RelationsArrive
<1> HIDE DEF batch
<1>3. RelationIsTrue'
  <2> SUFFICES ASSUME NEW s \in Subjects, relation'[s] # "unknown"
               PROVE  (relation'[s] = "following") = (s \in Follows)
    BY DEF RelationIsTrue
  <2>1. CASE s \in batch
    BY <1>1, <2>1, OneRowDecides
  <2>2. CASE s \notin batch
    BY <1>1, <2>2 DEF StandingInv, RelationIsTrue
  <2> QED
    BY <2>1, <2>2
<1>4. CASE UNCHANGED observeVars
  BY <1>3, <1>4 DEF StandingInv, MutesAreWhole, RemoteIsTrue, observeVars
<1>5. CASE Observes(requests, Acquired)
  BY <1>3, <1>5, ObservesStanding DEF StandingInv
<1> QED
  BY <1>2, <1>4, <1>5

LEMMA FailureStanding ==
    ASSUME StandingInv, ObservationFails, UNCHANGED relation
    PROVE  StandingInv'
<1>1. mutes' = mutes /\ remote' = [s \in Subjects |-> Unseen] /\ Unseen.known = FALSE
  BY DEF ObservationFails, Unseen
<1> QED
  BY <1>1 DEF StandingInv, MutesAreWhole, RemoteIsTrue, RelationIsTrue

\* The whole mute list was read, or nothing is known.
LEMMA EndStanding ==
    ASSUME StandingInv, ObservationEnds
    PROVE  StandingInv'
<1>1. /\ remote' = [s \in Subjects |->
                      IF s \in found /\ mutes.end
                      THEN [known |-> TRUE, direct |-> \E i \in 1..mutes.n : Mutes[i] = s]
                      ELSE Unseen]
      /\ UNCHANGED <<mutes, relation>>
  BY DEF ObservationEnds
<1>2. mutes.end => 1..mutes.n = DOMAIN Mutes
  <2>1. DOMAIN Mutes = 1..Len(Mutes)
    BY ReadingAssumption
  <2> QED
    BY <2>1 DEF StandingInv, MutesAreWhole
<1>3. RemoteIsTrue'
  <2> SUFFICES ASSUME NEW s \in Subjects, remote'[s].known
               PROVE  remote'[s].direct = (\E i \in DOMAIN Mutes : Mutes[i] = s)
    BY DEF RemoteIsTrue
  <2>1. CASE s \in found /\ mutes.end
    <3>1. remote'[s] = [known |-> TRUE, direct |-> \E i \in 1..mutes.n : Mutes[i] = s]
      BY <1>1, <2>1
    <3>2. remote'[s].direct = (\E i \in 1..mutes.n : Mutes[i] = s)
      BY <3>1
    <3> QED
      BY <1>2, <2>1, <3>2, Zenon
  <2>2. CASE ~(s \in found /\ mutes.end)
    <3>1. remote'[s] = Unseen
      BY <1>1, <2>2
    <3> QED
      BY <3>1 DEF Unseen
  <2> QED
    BY <2>1, <2>2
<1> QED
  BY <1>1, <1>3 DEF StandingInv, MutesAreWhole, RelationIsTrue

LEMMA MutesStanding ==
    ASSUME StandingInv, NEW k, NEW cursor, MutesArrive(k, cursor)
    PROVE  StandingInv'
<1>1. UNCHANGED relation /\ (cursor = "none" => mutes.n + k = Len(Mutes))
  BY DEF MutesArrive
<1>2. \/ ObservationFails
      \/ remote' = remote /\ mutes'.n = mutes.n + k /\ mutes'.end = (cursor = "none")
  BY DEF MutesArrive
<1>3. CASE ObservationFails
  BY <1>1, <1>3, FailureStanding
<1>4. CASE remote' = remote /\ mutes'.n = mutes.n + k /\ mutes'.end = (cursor = "none")
  <2>1. MutesAreWhole'
    BY <1>1, <1>4 DEF MutesAreWhole
  <2> QED
    BY <1>1, <1>4, <2>1 DEF StandingInv, RemoteIsTrue, RelationIsTrue
<1> QED
  BY <1>2, <1>3, <1>4

\* Steps that leave what is known alone.
LEMMA SameStanding ==
    ASSUME StandingInv, UNCHANGED <<mutes, remote, relation>>
    PROVE  StandingInv'
BY DEF StandingInv, MutesAreWhole, RemoteIsTrue, RelationIsTrue

LEMMA ReadsStanding ==
    ASSUME StandingInv, Reads
    PROVE  StandingInv'
<1>1. CASE \E k \in 0..(PageSize + 1), cursor \in {"none", "fresh", "repeated"} :
              PageArrives(k, cursor)
  <2>1. UNCHANGED <<mutes, remote, relation>> \/ \E row, spent : FeedEnds(row, spent)
    BY <1>1 DEF PageArrives, observeVars
  <2> QED
    BY <2>1, SameStanding, FeedEndsStanding
<1>2. CASE \E k \in 0..(PageSize + 1), cursor \in {"none", "fresh", "repeated"} :
              MutesArrive(k, cursor)
  BY <1>2, MutesStanding
<1>3. CASE PageFails
  <2>1. \E row, spent : FeedEnds(row, spent)
    BY <1>3 DEF PageFails
  <2> QED
    BY <2>1, FeedEndsStanding
<1>4. CASE RelationsRefused
  <2>1. UNCHANGED relation /\ Observes(requests, Acquired)
    BY <1>4 DEF RelationsRefused
  <2> QED
    BY <2>1, ObservesStanding DEF StandingInv, RelationIsTrue
<1>5. CASE ObservationBreaks
  BY <1>5, FailureStanding DEF ObservationBreaks
<1>6. CASE ObservationEnds
  BY <1>6, EndStanding
<1>7. CASE TimeIsUp
  BY <1>7, SameStanding DEF TimeIsUp, observeVars
<1>8. CASE \E b, told : RelationsArrive(b, told)
  BY <1>8, RelationsStanding
<1>9. CASE \E b \in Open, there \in SUBSET Acquired : ProfilesArrive(b, there)
  <2>1. UNCHANGED relation /\ (ObservationFails \/ UNCHANGED <<mutes, remote>>)
    BY <1>9 DEF ProfilesArrive
  <2> QED
    BY <2>1, FailureStanding, SameStanding
<1> QED
  BY <1>1, <1>2, <1>3, <1>4, <1>5, <1>6, <1>7, <1>8, <1>9 DEF Reads

\* Only the reading and its start change what was read.
LEMMA ReadingSteps ==
    ASSUME [Next]_vars
    PROVE  \/ Reads \/ UNCHANGED readVars
           \/ \E in \in Inputs, spent \in Spent : ReadStarts(in, spent)
<1>1. CASE UNCHANGED vars
  BY <1>1 DEF vars
<1>2. CASE \E c \in Calls : Proceed(c)
  BY <1>2 DEF Proceed, Reading, EndReading, ReadAtOnce, LookUpMissing, StoreResult
<1>3. CASE \E c \in Calls, in \in Inputs, spent \in Spent : StartReading(c, in, spent)
  BY <1>3 DEF StartReading
<1>4. CASE Outside /\ UNCHANGED <<readVars, acqVars>>
  BY <1>4
<1> QED
  BY <1>1, <1>2, <1>3, <1>4 DEF Next

\* What an acquisition says of an account agrees with the network for any feeds,
\* replies, batches and budgets: a relationship rests on exactly one readable row,
\* a mute state on the whole mute list (relationships and observe of oauth.ts).
THEOREM KnownIsTrue == Spec => []StandingIsEarned
<1>1. Init => StandingInv
  <2> SUFFICES ASSUME Init
               PROVE  StandingInv
    OBVIOUS
  <2>1. ~mutes.end /\ \A s \in Subjects : ~remote[s].known /\ relation[s] = "unknown"
    BY DEF Init, ReadInit, NoMutes, Unseen
  <2> QED
    BY <2>1 DEF StandingInv, MutesAreWhole, RemoteIsTrue, RelationIsTrue
<1>2. StandingInv /\ [Next]_vars => StandingInv'
  <2> SUFFICES ASSUME StandingInv, [Next]_vars
               PROVE  StandingInv'
    OBVIOUS
  <2>1. CASE Reads
    BY <2>1, ReadsStanding
  <2>2. CASE UNCHANGED readVars
    BY <2>2, SameStanding DEF readVars
  <2>3. CASE \E in \in Inputs, spent \in Spent : ReadStarts(in, spent)
    BY <2>3, SameStanding DEF ReadStarts, observeVars
  <2> QED
    BY <2>1, <2>2, <2>3, ReadingSteps
<1>3. StandingInv => StandingIsEarned
  BY DEF StandingInv, RemoteIsTrue, RelationIsTrue, StandingIsEarned
<1> QED
  BY <1>1, <1>2, <1>3, PTL DEF Spec

-----------------------------------------------------------------------------
(* The request budget.                                                     *)

\* Requests made, and those observe may still make, fit the budget.
BudgetInv ==
    /\ requests \in 0..Budget
    /\ pool = [sent |-> pool.sent, got |-> pool.got] /\ pool.sent \in Nat
    /\ plan.profiles \in Nat /\ plan.mutes \in Nat /\ mutes.pages \in Nat
    /\ mutes.open \in BOOLEAN
    /\ phase = "observe" => /\ pool.sent <= plan.profiles
                            /\ mutes.open => mutes.pages + 1 <= plan.mutes
                            /\ BudgetSuffices

LEMMA Limits == Budget \in Nat /\ ProfileWidth \in Nat \ {0} /\ ProfileBatch \in Nat \ {0}
                /\ RelationWidth \in Nat \ {0} /\ RelationBatch \in Nat \ {0}
                /\ MaxMutePages \in Nat
BY ReadingAssumption, SamplingAssumption

LEMMA BatchesAreCounted ==
    ASSUME NEW subjects \in SUBSET Subjects, NEW size \in Nat \ {0}
    PROVE  Batches(subjects, size) \in Nat
<1>1. Cardinality(subjects) \in Nat
  BY ReadingAssumption, FS_Subset, FS_CardinalityType
<1> DEFINE n == Cardinality(subjects) + size - 1
<1>2. n \in Nat
  BY <1>1
<1> HIDE DEF n
<1>3. n \div size \in Nat
  BY <1>2
<1> QED
  BY <1>3 DEF Batches, n

\* Whatever was spent before, the plan fits what is left.
LEMMA ObservesBudget ==
    ASSUME NEW spent \in 0..Budget, NEW subjects \in SUBSET Subjects, Observes(spent, subjects)
    PROVE  BudgetInv'
<1> DEFINE n == Batches(subjects, ProfileBatch)
           profiles == Least(n, Budget - spent)
           pages == IF profiles = n THEN Least(MaxMutePages, (Budget - spent) - profiles) ELSE 0
           sent == Least(profiles, ProfileWidth)
           opens == pages > 0
<1>1. n \in Nat
  BY Limits, BatchesAreCounted
<1>2. /\ plan' = [profiles |-> profiles, mutes |-> pages]
      /\ pool' = [sent |-> sent, got |-> {}]
      /\ mutes' = [n |-> 0, pages |-> 0, open |-> opens, end |-> FALSE]
      /\ requests' = spent + sent + (IF opens THEN 1 ELSE 0)
      /\ phase' = "observe"
  BY DEF Observes, ObservationPlan, NoMutes
<1> HIDE DEF n
<1>3. profiles \in Nat /\ profiles <= Budget - spent
  BY <1>1, Limits DEF Least
<1> HIDE DEF profiles
<1>4. pages \in Nat /\ profiles + pages <= Budget - spent
  BY <1>3, Limits DEF Least
<1>5. sent \in Nat /\ sent <= profiles
  BY <1>3, Limits DEF Least
<1> HIDE DEF pages, sent
<1>6. spent + sent + (IF opens THEN 1 ELSE 0) \in 0..Budget
  BY <1>3, <1>4, <1>5, Limits
<1>7. spent + sent + (IF opens THEN 1 ELSE 0) + (profiles - sent)
         + (IF opens THEN pages - 0 - 1 ELSE 0) <= Budget
  BY <1>3, <1>4, <1>5, Limits
<1>8. BudgetSuffices'
  BY <1>2, <1>7 DEF BudgetSuffices
<1>9. opens \in BOOLEAN /\ (opens => 0 + 1 <= pages)
  BY <1>4
<1> HIDE DEF opens
<1> QED
  BY <1>2, <1>3, <1>4, <1>5, <1>6, <1>8, <1>9 DEF BudgetInv

\* Steps outside the observation that keep its part and stay within the budget.
LEMMA SpendsWithin ==
    ASSUME BudgetInv, requests' \in 0..Budget, phase' # "observe", UNCHANGED <<plan, mutes>>,
           NEW sent \in Nat, NEW got, pool' = [sent |-> sent, got |-> got]
    PROVE  BudgetInv'
BY DEF BudgetInv

LEMMA FeedEndsBudget ==
    ASSUME BudgetInv, phase = "feed", (Acquired \subseteq Subjects)', NEW row,
           NEW spent \in 0..Budget, FeedEnds(row, spent)
    PROVE  BudgetInv'
<1>1. SubjectsOf(rows') \subseteq Subjects /\ input.named \subseteq Subjects /\ input' = input
  BY DEF FeedEnds, Acquired, Exposed
<1>2. CASE rows' = Append(rows, row) /\ requests' = spent /\ UNCHANGED <<phase, pool, observeVars>>
  BY <1>2, SpendsWithin DEF BudgetInv, observeVars
<1>3. CASE Relates(spent, SubjectsOf(rows'))
  <2> DEFINE n == Batches(SubjectsOf(rows'), RelationBatch)
             sent == Least(Least(n, RelationWidth), Budget - spent)
  <2>1. n \in Nat
    BY <1>1, Limits, BatchesAreCounted
  <2>2. /\ phase' = "relations" /\ pool' = [sent |-> sent, got |-> {}]
        /\ requests' = spent + sent /\ UNCHANGED <<plan, mutes>>
    BY <1>3 DEF Relates, observeVars
  <2> HIDE DEF n
  <2>3. sent \in Nat /\ spent + sent \in 0..Budget
    BY <2>1, Limits DEF Least
  <2> HIDE DEF sent
  <2> QED
    BY <2>2, <2>3, SpendsWithin
<1>4. CASE \/ Observes(spent, input.named) \/ Observes(spent, SubjectsOf(rows') \cup input.named)
  BY <1>1, <1>4, ObservesBudget
<1> QED
  BY <1>2, <1>3, <1>4 DEF FeedEnds

LEMMA FailureBudget ==
    ASSUME BudgetInv, ObservationFails, UNCHANGED plan
    PROVE  BudgetInv'
BY DEF BudgetInv, ObservationFails

LEMMA PagesBudget ==
    ASSUME BudgetInv, (Acquired \subseteq Subjects)', NEW k, NEW cursor,
           PageArrives(k, cursor) \/ PageFails
    PROVE  BudgetInv'
<1>1. CASE PageArrives(k, cursor)
  <2>1. requests \in 0..Budget /\ requests < Budget /\ Budget \in Nat /\ phase = "feed"
    BY <1>1, Limits DEF PageArrives, BudgetInv
  <2>2. requests + 1 \in 0..Budget
    BY <2>1
  <2>3. \/ \E row : FeedEnds(row, requests + 1)
        \/ requests' = requests + 1 /\ UNCHANGED <<phase, pool, observeVars>>
    BY <1>1 DEF PageArrives
  <2>4. CASE \E row : FeedEnds(row, requests + 1)
    BY <2>1, <2>2, <2>4, FeedEndsBudget
  <2>5. CASE requests' = requests + 1 /\ UNCHANGED <<phase, pool, observeVars>>
    BY <2>1, <2>2, <2>5, SpendsWithin DEF BudgetInv, observeVars
  <2> QED
    BY <2>3, <2>4, <2>5
<1>2. CASE PageFails
  <2>1. phase = "feed" /\ Least(requests + 1, Budget) \in 0..Budget
    BY <1>2, Limits DEF PageFails, BudgetInv, Least
  <2>2. \E row : FeedEnds(row, Least(requests + 1, Budget))
    BY <1>2 DEF PageFails
  <2> QED
    BY <2>1, <2>2, FeedEndsBudget
<1> QED
  BY <1>1, <1>2

LEMMA RelationsBudget ==
    ASSUME BudgetInv, Acquired \subseteq Subjects, NEW b, NEW told,
           RelationsArrive(b, told) \/ RelationsRefused
    PROVE  BudgetInv'
<1>1. requests \in 0..Budget /\ Budget \in Nat /\ pool.sent \in Nat
      /\ pool = [sent |-> pool.sent, got |-> pool.got]
  BY Limits DEF BudgetInv
<1>2. CASE Observes(requests, Acquired)
  BY <1>1, <1>2, ObservesBudget
<1>3. CASE RelationsArrive(b, told) /\ ~Observes(requests, Acquired)
  <2> DEFINE got == pool.got \cup {b}
  <2>1. /\ phase = "relations" /\ UNCHANGED <<phase, observeVars>>
        /\ \/ /\ pool' = [sent |-> pool.sent + 1, got |-> got]
              /\ requests' = requests + 1 /\ requests < Budget
           \/ pool' = [pool EXCEPT !.got = got] /\ requests' = requests
    BY <1>3 DEF RelationsArrive
  <2>2. CASE /\ pool' = [sent |-> pool.sent + 1, got |-> got]
             /\ requests' = requests + 1 /\ requests < Budget
    <3>1. requests' \in 0..Budget /\ pool.sent + 1 \in Nat
      BY <1>1, <2>2
    <3> QED
      BY <2>1, <2>2, <3>1, SpendsWithin DEF observeVars
  <2>3. CASE pool' = [pool EXCEPT !.got = got] /\ requests' = requests
    <3>1. pool' = [sent |-> pool.sent, got |-> got]
      BY <1>1, <2>3
    <3> QED
      BY <1>1, <2>1, <2>3, <3>1, SpendsWithin DEF observeVars
  <2> QED
    BY <2>1, <2>2, <2>3
<1> QED
  BY <1>2, <1>3 DEF RelationsRefused

\* An answer of either task leaves the other task's share of the budget alone.
LEMMA AnswersBudget ==
    ASSUME BudgetInv, NEW b, NEW there, NEW k, NEW cursor,
           ProfilesArrive(b, there) \/ MutesArrive(k, cursor)
    PROVE  BudgetInv'
<1>1. /\ phase = "observe" /\ plan' = plan
      /\ requests \in 0..Budget /\ Budget \in Nat /\ pool.sent \in Nat /\ pool.sent <= plan.profiles
      /\ plan.profiles \in Nat /\ plan.mutes \in Nat /\ mutes.pages \in Nat
      /\ mutes.open \in BOOLEAN /\ (mutes.open => mutes.pages + 1 <= plan.mutes)
      /\ requests + (plan.profiles - pool.sent)
           + (IF mutes.open THEN plan.mutes - mutes.pages - 1 ELSE 0) <= Budget
      /\ pool = [sent |-> pool.sent, got |-> pool.got]
  BY Limits DEF ProfilesArrive, MutesArrive, BudgetInv, BudgetSuffices
<1>2. CASE ObservationFails
  BY <1>1, <1>2, FailureBudget
<1>3. CASE ProfilesArrive(b, there) /\ ~ObservationFails
  <2> DEFINE next == IF pool.sent < plan.profiles THEN 1 ELSE 0
  <2>1. /\ pool' = [sent |-> pool.sent + next, got |-> pool.got \cup {b}]
        /\ requests' = requests + next /\ UNCHANGED <<phase, mutes>>
    BY <1>3 DEF ProfilesArrive, Spend
  <2>2. /\ pool.sent + next \in Nat /\ pool.sent + next <= plan.profiles
        /\ requests + next \in 0..Budget
        /\ (requests + next) + (plan.profiles - (pool.sent + next))
             + (IF mutes.open THEN plan.mutes - mutes.pages - 1 ELSE 0) <= Budget
    BY <1>1
  <2> HIDE DEF next
  <2>3. BudgetSuffices'
    BY <1>1, <2>1, <2>2 DEF BudgetSuffices
  <2> QED
    BY <1>1, <2>1, <2>2, <2>3 DEF BudgetInv
<1>4. CASE MutesArrive(k, cursor) /\ ~ObservationFails
  <2> DEFINE more == cursor = "fresh" /\ mutes.pages + 1 < plan.mutes
             next == IF more THEN 1 ELSE 0
  <2>1. /\ mutes.open /\ mutes' = [n |-> mutes.n + k, pages |-> mutes.pages + 1, open |-> more,
                                    end |-> cursor = "none"]
        /\ requests' = requests + next /\ UNCHANGED <<phase, pool>>
    BY <1>4 DEF MutesArrive, Spend
  <2>2. /\ more \in BOOLEAN /\ (more => (mutes.pages + 1) + 1 <= plan.mutes)
        /\ mutes.pages + 1 \in Nat /\ requests + next \in 0..Budget
        /\ (requests + next) + (plan.profiles - pool.sent)
             + (IF more THEN plan.mutes - (mutes.pages + 1) - 1 ELSE 0) <= Budget
    BY <1>1, <2>1
  <2> HIDE DEF more, next
  <2>3. mutes'.pages = mutes.pages + 1 /\ mutes'.open = more
    BY <2>1
  <2>4. BudgetSuffices'
    BY <1>1, <2>1, <2>2, <2>3 DEF BudgetSuffices
  <2> QED
    BY <1>1, <2>1, <2>2, <2>3, <2>4 DEF BudgetInv
<1> QED
  BY <1>2, <1>3, <1>4

LEMMA ReadsBudget ==
    ASSUME BudgetInv, Acquired \subseteq Subjects, (Acquired \subseteq Subjects)', Reads
    PROVE  BudgetInv'
<1>1. CASE \E k, cursor : PageArrives(k, cursor) \/ PageFails
  BY <1>1, PagesBudget
<1>2. CASE \E k, cursor, b, there : ProfilesArrive(b, there) \/ MutesArrive(k, cursor)
  BY <1>2, AnswersBudget
<1>3. CASE \E b, told : RelationsArrive(b, told) \/ RelationsRefused
  BY <1>3, RelationsBudget
<1>4. CASE ObservationBreaks
  BY <1>4, FailureBudget DEF ObservationBreaks
<1>5. CASE ObservationEnds \/ TimeIsUp
  BY <1>5 DEF ObservationEnds, TimeIsUp, BudgetInv, observeVars
<1> QED
  BY <1>1, <1>2, <1>3, <1>4, <1>5 DEF Reads



-----------------------------------------------------------------------------
(* Where a reading is, and what its rows may claim.                        *)

\* Where a reading is: which source, how far into it, and that a row calls itself
\* complete only when it covers what the policy asked of its feed.
RowsCover(all, in) == \A i \in 1..Len(all) :
    all[i].complete => Covers(all[i], in.feeds[i].posts, Asked(in.feeds[i]))
PlaceInv ==
    /\ phase \in {"idle", "feed", "relations", "observe", "read", "failed"}
    /\ rows \in Seq(Rows)
    /\ phase = "idle" => rows = <<>> /\ input = NoInput
    /\ phase # "idle" => input \in Inputs
    /\ phase # "feed" => page = NoPage
    /\ phase = "feed" => /\ Len(rows) < Len(input.feeds)
                         /\ page \in [n : 0..Asked(Feed), pages : 0..(MaxPages - 1)]
    /\ phase \in {"relations", "observe", "read"} => Len(rows) = Len(input.feeds)
    /\ Len(rows) <= Len(input.feeds) /\ RowsCover(rows, input)

\* Rows that are all called incomplete claim nothing.
LEMMA IncompleteRows ==
    ASSUME NEW all \in Seq(Rows)
    PROVE  /\ Incomplete(all) \in Seq(Rows) /\ Len(Incomplete(all)) = Len(all)
           /\ \A in : RowsCover(Incomplete(all), in)
<1>1. /\ DOMAIN all = 1..Len(all) /\ Len(all) \in Nat
      /\ \A i \in 1..Len(all) : all[i] \in Rows
  OBVIOUS
<1>2. ASSUME NEW i \in 1..Len(all)
      PROVE  /\ [all[i] EXCEPT !.complete = FALSE] \in Rows
             /\ ~[all[i] EXCEPT !.complete = FALSE].complete
  BY <1>1 DEF Rows
<1>3. Incomplete(all) = [i \in 1..Len(all) |-> [all[i] EXCEPT !.complete = FALSE]]
  BY <1>1 DEF Incomplete
<1>4. \A i \in 1..Len(all) : Incomplete(all)[i] = [all[i] EXCEPT !.complete = FALSE]
  BY <1>3
<1>5. Incomplete(all) \in Seq(Rows) /\ Len(Incomplete(all)) = Len(all)
  BY <1>1, <1>2, <1>3
<1> QED
  BY <1>2, <1>4, <1>5 DEF RowsCover

\* A feed of an input, and what is found in its first posts.
FeedTyped(feed) ==
    /\ feed.limit \in Nat \ {0} /\ feed.posts \in Seq(Posts) /\ Named(EntriesOf(feed.posts))
    /\ Asked(feed) \in Nat /\ Asked(feed) <= feed.limit /\ Asked(feed) <= Len(feed.posts)
    /\ \A n \in 0..Len(feed.posts) : Samples[feed][n] = Extract(SubSeq(feed.posts, 1, n))

\* Every feed of an input, by what the compiler accepts.
LEMMA FeedOfInput ==
    ASSUME NEW in \in Inputs, NEW i \in 1..Len(in.feeds)
    PROVE  FeedTyped(in.feeds[i])
<1> DEFINE Kept == [limit : Nat \ {0}, posts : Seq(Posts)]
<1>1. in.feeds \in Seq(Kept)
  BY InputsAssumption
<1> HIDE DEF Kept
<1>2. i \in DOMAIN in.feeds /\ in.feeds[i] \in Kept
  BY <1>1
<1> USE DEF Kept
<1>3. PICK feed : feed = in.feeds[i]
  OBVIOUS
<1>4. Named(EntriesOf(feed.posts))
  BY <1>2, <1>3, InputsAssumption DEF Named
<1>5. feed \in UNION {Range(other.feeds) : other \in Inputs}
  BY <1>2, <1>3 DEF Range
<1>6. feed.limit \in Nat \ {0} /\ feed.posts \in Seq(Posts) /\ Len(feed.posts) \in Nat
  BY <1>2, <1>3
<1>7. /\ Asked(feed) \in Nat /\ Asked(feed) <= feed.limit /\ Asked(feed) <= Len(feed.posts)
  BY <1>6 DEF Asked, Least
<1>8. Samples[feed] = [n \in 0..Len(feed.posts) |-> Extract(SubSeq(feed.posts, 1, n))]
  BY <1>5 DEF Samples
<1>9. \A n \in 0..Len(feed.posts) : Samples[feed][n] = Extract(SubSeq(feed.posts, 1, n))
  BY <1>8
<1> QED
  BY <1>3, <1>4, <1>6, <1>7, <1>9 DEF FeedTyped

\* Whoever is exposed or named is a subject.
LEMMA AcquiredAreSubjects ==
    ASSUME PlaceInv
    PROVE  SubjectsOf(rows) \subseteq Subjects /\ input.named \subseteq Subjects /\ Acquired \subseteq Subjects
<1>1. SubjectsOf(rows) \subseteq Subjects
  BY CountIsCounted DEF PlaceInv
<1>2. input.named \subseteq Subjects
  BY InputsAssumption DEF PlaceInv, NoInput
<1> QED
  BY <1>1, <1>2 DEF Acquired, Exposed

\* Observing and relating begin where the sources end.
LEMMA FeedEndsPlace ==
    ASSUME PlaceInv, phase = "feed", NEW row \in Rows,
           row.complete => Covers(row, Feed.posts, Asked(Feed)),
           NEW spent, FeedEnds(row, spent)
    PROVE  PlaceInv'
<1> DEFINE all == Append(rows, row)
<1>1. /\ rows \in Seq(Rows) /\ Len(rows) \in Nat /\ Len(rows) < Len(input.feeds)
      /\ input \in Inputs /\ RowsCover(rows, input) /\ Len(input.feeds) \in Nat
  <2>1. input \in Inputs
    BY DEF PlaceInv
  <2>2. input.feeds \in Seq([limit : Nat \ {0}, posts : Seq(Posts)])
    BY <2>1, InputsAssumption
  <2> QED
    BY <2>1, <2>2 DEF PlaceInv
<1>2. /\ all \in Seq(Rows) /\ Len(all) = Len(rows) + 1 /\ Len(all) <= Len(input.feeds)
      /\ \A i \in 1..Len(all) : \/ i \in 1..Len(rows) /\ all[i] = rows[i]
                                \/ i = Len(rows) + 1 /\ all[i] = row
  BY <1>1
<1> HIDE DEF all
<1>3. RowsCover(all, input)
  <2> SUFFICES ASSUME NEW i \in 1..Len(all), all[i].complete
               PROVE  Covers(all[i], input.feeds[i].posts, Asked(input.feeds[i]))
    BY DEF RowsCover
  <2>1. CASE i \in 1..Len(rows) /\ all[i] = rows[i]
    BY <1>1, <2>1 DEF RowsCover
  <2>2. CASE i = Len(rows) + 1 /\ all[i] = row
    BY <2>2 DEF Feed
  <2> QED
    BY <1>2, <2>1, <2>2
<1>4. /\ Retained(all) \in Seq(Rows) /\ Len(Retained(all)) = Len(all) /\ RowsCover(Retained(all), input)
  <2>1. /\ Retained(all) \in Seq(Rows) /\ Len(Retained(all)) = Len(all)
        /\ \A i \in 1..Len(all) : Shrinks(all[i], Retained(all)[i])
    BY <1>2, RetainedShrinks
  <2> QED
    BY <1>3, <2>1 DEF RowsCover, Shrinks
<1>5. /\ Incomplete(Retained(all)) \in Seq(Rows) /\ Len(Incomplete(Retained(all))) = Len(all)
      /\ RowsCover(Incomplete(Retained(all)), input)
  BY <1>4, IncompleteRows
<1>6. /\ page' = NoPage /\ input' = input
      /\ \/ Len(all) # Len(input.feeds) /\ rows' = all /\ phase' = phase
         \/ /\ Len(all) = Len(input.feeds) /\ phase' \in {"relations", "observe"}
            /\ rows' = Retained(all) \/ rows' = Incomplete(Retained(all))
  BY DEF FeedEnds, Relates, Observes, all
<1>7. CASE Len(all) # Len(input.feeds) /\ rows' = all /\ phase' = phase
  <2>1. Len(all) < Len(input.feeds)
    BY <1>1, <1>2, <1>7
  <2>2. Feed' = input.feeds[Len(all) + 1] /\ Len(all) + 1 \in 1..Len(input.feeds)
    BY <1>1, <1>2, <1>6, <1>7, <2>1 DEF Feed
  <2>3. Asked(Feed') \in Nat
    BY <1>1, <1>6, <2>2, FeedOfInput DEF FeedTyped
  <2>4. page' \in [n : 0..Asked(Feed'), pages : 0..(MaxPages - 1)]
    BY <1>6, <2>3, ReadingAssumption DEF NoPage
  <2>5. Asked(Feed)' = Asked(Feed') /\ RowsCover(rows, input)' = RowsCover(rows', input')
    BY DEF Asked, RowsCover, Covers
  <2> QED
    BY <1>1, <1>2, <1>3, <1>6, <1>7, <2>1, <2>4, <2>5 DEF PlaceInv
<1>8. CASE /\ Len(all) = Len(input.feeds) /\ phase' \in {"relations", "observe"}
           /\ rows' = Retained(all) \/ rows' = Incomplete(Retained(all))
  <2>1. rows' \in Seq(Rows) /\ Len(rows') = Len(input'.feeds) /\ RowsCover(rows', input')
    BY <1>4, <1>5, <1>6, <1>8
  <2>2. RowsCover(rows, input)' = RowsCover(rows', input')
    BY DEF RowsCover, Covers
  <2> QED
    BY <1>1, <1>6, <1>8, <2>1, <2>2 DEF PlaceInv
<1> QED
  BY <1>6, <1>7, <1>8


\* What one source yields: a row that, if complete, covers what was asked of the feed.
Yields(row) == row \in Rows /\ (row.complete => Covers(row, Feed.posts, Asked(Feed)))

\* The source being read, and how far its reading is.
LEMMA FeedOfRows ==
    ASSUME PlaceInv, phase = "feed"
    PROVE  /\ FeedTyped(Feed) /\ rows \in Seq(Rows)
           /\ page \in [n : 0..Asked(Feed), pages : 0..(MaxPages - 1)]
<1>1. /\ rows \in Seq(Rows) /\ Len(rows) \in Nat /\ Len(rows) < Len(input.feeds) /\ input \in Inputs
      /\ page \in [n : 0..Asked(Feed), pages : 0..(MaxPages - 1)]
  BY DEF PlaceInv
<1>2. Len(input.feeds) \in Nat
  <2>1. input.feeds \in Seq([limit : Nat \ {0}, posts : Seq(Posts)])
    BY <1>1, InputsAssumption
  <2> QED
    BY <2>1
<1>3. Len(rows) + 1 \in 1..Len(input.feeds)
  BY <1>1, <1>2
<1> QED
  BY <1>1, <1>3, FeedOfInput DEF Feed

\* A source that failed claims nothing.
LEMMA FailedRowYields == Yields(FailedRow)
BY DEF Yields, FailedRow, Rows

\* The row of the first n posts, when the limit was reached or there are no more.
LEMMA RowYields ==
    ASSUME PlaceInv, phase = "feed", NEW n \in 0..Asked(Feed),
           NEW exhausted \in BOOLEAN, NEW interrupted \in BOOLEAN,
           exhausted => n = Len(Feed.posts),
           NEW row, row = FeedRow(Samples[Feed][n], n, Feed.limit, exhausted, interrupted, rows)
    PROVE  Yields(row)
<1>1. FeedTyped(Feed) /\ rows \in Seq(Rows)
  BY FeedOfRows
<1> PICK feed : feed = Feed
  OBVIOUS
<1>2. /\ feed.limit \in Nat /\ feed.posts \in Seq(Posts) /\ Named(EntriesOf(feed.posts))
      /\ Asked(feed) \in Nat /\ Asked(feed) <= feed.limit /\ Asked(feed) <= Len(feed.posts)
      /\ Asked(feed) = feed.limit \/ Asked(feed) = Len(feed.posts)
      /\ \A m \in 0..Len(feed.posts) : Samples[feed][m] = Extract(SubSeq(feed.posts, 1, m))
  BY <1>1 DEF FeedTyped, Asked, Least
<1>3. Len(feed.posts) \in Nat
  BY <1>2
<1>4. n \in 0..Len(feed.posts) /\ n <= Asked(feed)
  BY <1>2, <1>3
<1>5. row = FeedRow(Extract(SubSeq(feed.posts, 1, n)), n, feed.limit, exhausted, interrupted, rows)
  BY <1>2, <1>4
<1>6. row \in Rows /\ (row.complete => (n = feed.limit \/ exhausted) /\ Covers(row, feed.posts, n))
  BY <1>1, <1>2, <1>4, <1>5, FeedRowCovers
<1>7. n = feed.limit \/ exhausted => n = Asked(feed)
  BY <1>2, <1>3, <1>4
<1> QED
  BY <1>6, <1>7 DEF Yields

\* A page: the reading goes on within the feed, or the source ends in its row.
LEMMA PagesPlace ==
    ASSUME PlaceInv, NEW k \in Nat, NEW cursor, PageArrives(k, cursor)
    PROVE  PlaceInv'
<1>1. /\ phase = "feed" /\ FeedTyped(Feed) /\ rows \in Seq(Rows)
      /\ page \in [n : 0..Asked(Feed), pages : 0..(MaxPages - 1)]
  BY FeedOfRows DEF PageArrives
<1> DEFINE remaining == Feed.limit - page.n
           n == page.n + Least(k, remaining)
           row(exhausted) == FeedRow(Samples[Feed][n], n, Feed.limit, exhausted, FALSE, rows)
<1>2. /\ Feed.limit \in Nat /\ Len(Feed.posts) \in Nat /\ Asked(Feed) \in Nat
      /\ Asked(Feed) <= Feed.limit /\ Asked(Feed) <= Len(Feed.posts)
      /\ Asked(Feed) = Feed.limit \/ Asked(Feed) = Len(Feed.posts)
      /\ page.n \in 0..Asked(Feed) /\ page.pages \in 0..(MaxPages - 1) /\ MaxPages \in Nat \ {0}
  BY <1>1, ReadingAssumption DEF FeedTyped, Asked, Least
<1>3. /\ k <= Len(Feed.posts) - page.n
      /\ cursor = "none" => page.n + k = Len(Feed.posts)
  <2> DEFINE p == Least(PageSize, remaining) + 1
             q == Len(Feed.posts) - page.n
  <2>1. k \in 0..Least(p, q) /\ (cursor = "none" => page.n + k = Len(Feed.posts))
    BY DEF PageArrives
  <2>2. p \in Int /\ q \in Int
    <3>1. PageSize \in Int
      BY ReadingAssumption
    <3>2. remaining \in Int /\ q \in Int
      BY <1>2
    <3> HIDE DEF remaining, q
    <3> QED
      BY <3>1, <3>2 DEF Least
  <2> HIDE DEF p
  <2>3. Least(p, q) \in Int /\ Least(p, q) <= q
    BY <2>2 DEF Least
  <2>4. k <= q
    <3> HIDE DEF q
    <3> QED
      BY <2>1, <2>2, <2>3
  <2> QED
    BY <2>1, <2>4
<1>4. /\ n \in 0..Asked(Feed)
      /\ ~(k > remaining) => n = page.n + k
  <2>1. CASE k > remaining
    <3>1. n = Feed.limit
      BY <1>2, <2>1 DEF Least
    <3> HIDE DEF n
    <3> QED
      BY <1>2, <1>3, <2>1, <3>1
  <2>2. CASE ~(k > remaining)
    <3>1. n = page.n + k
      BY <1>2, <2>2 DEF Least
    <3> HIDE DEF n
    <3> QED
      BY <1>2, <1>3, <2>2, <3>1
  <2> QED
    BY <2>1, <2>2
<1>5. Yields(row(FALSE)) /\ (~(k > remaining) /\ cursor = "none" => Yields(row(TRUE)))
  <2>1. ~(k > remaining) /\ cursor = "none" => n = Len(Feed.posts)
    BY <1>3, <1>4
  <2> HIDE DEF n
  <2> QED
    BY <1>1, <1>4, <2>1, RowYields
<1>6. \/ FeedEnds(row(FALSE), requests + 1)
      \/ ~(k > remaining) /\ cursor = "none" /\ FeedEnds(row(TRUE), requests + 1)
      \/ FeedEnds(FailedRow, requests + 1)
      \/ /\ page' = [n |-> n, pages |-> page.pages + 1] /\ page.pages + 1 # MaxPages
         /\ UNCHANGED <<phase, input, rows>>
  BY DEF PageArrives
<1> HIDE DEF n, row, remaining
<1>7. CASE \E r : Yields(r) /\ FeedEnds(r, requests + 1)
  BY <1>1, <1>7, FeedEndsPlace DEF Yields
<1>8. CASE /\ page' = [n |-> n, pages |-> page.pages + 1] /\ page.pages + 1 # MaxPages
           /\ UNCHANGED <<phase, input, rows>>
  <2>1. Feed' = Feed /\ Asked(Feed)' = Asked(Feed) /\ RowsCover(rows, input)' = RowsCover(rows, input)
    BY <1>8 DEF Feed, Asked, RowsCover, Covers
  <2>2. page' \in [n : 0..Asked(Feed), pages : 0..(MaxPages - 1)]
    BY <1>2, <1>4, <1>8
  <2> QED
    BY <1>1, <1>8, <2>1, <2>2 DEF PlaceInv
<1> QED
  BY <1>5, <1>6, <1>7, <1>8, FailedRowYields

\* A page that fails ends the source in an incomplete row.
LEMMA FailsPlace ==
    ASSUME PlaceInv, PageFails
    PROVE  PlaceInv'
<1>1. /\ phase = "feed" /\ page \in [n : 0..Asked(Feed), pages : 0..(MaxPages - 1)]
  BY FeedOfRows DEF PageFails
<1>2. PICK r : /\ r = FailedRow
                  \/ r = FeedRow(Samples[Feed][page.n], page.n, Feed.limit, FALSE, TRUE, rows)
               /\ FeedEnds(r, Least(requests + 1, Budget))
  BY DEF PageFails
<1>3. Yields(r)
  BY <1>1, <1>2, RowYields, FailedRowYields
<1> QED
  BY <1>1, <1>2, <1>3, FeedEndsPlace DEF Yields

\* Steps that leave the sources alone.
LEMMA SamePlace ==
    ASSUME PlaceInv, UNCHANGED <<input, rows, page>>,
           \/ phase' = phase
           \/ phase # "idle" /\ phase # "feed" /\ phase' \in {"observe", "read", "failed"}
              /\ Len(rows) = Len(input.feeds)
           \/ phase = "feed" /\ page = NoPage /\ phase' = "failed"
    PROVE  PlaceInv'
<1>1. Feed' = Feed /\ Asked(Feed)' = Asked(Feed) /\ RowsCover(rows, input)' = RowsCover(rows, input)
  BY DEF Feed, Asked, RowsCover, Covers
<1> QED
  BY <1>1 DEF PlaceInv

\* An observation that fails takes back what every row claims.
LEMMA FailurePlace ==
    ASSUME PlaceInv, phase = "observe", ObservationFails, UNCHANGED <<input, page>>
    PROVE  PlaceInv'
<1>1. /\ phase' = "read" /\ rows' = Incomplete(rows) /\ rows \in Seq(Rows)
      /\ Len(rows) = Len(input.feeds) /\ page = NoPage /\ input \in Inputs
  BY DEF PlaceInv, ObservationFails
<1>2. rows' \in Seq(Rows) /\ Len(rows') = Len(rows) /\ RowsCover(rows', input')
  BY <1>1, IncompleteRows
<1>3. RowsCover(rows, input)' = RowsCover(rows', input') /\ Len(rows') <= Len(input.feeds)
  <2>1. Len(rows) \in Nat
    BY <1>1
  <2> QED
    BY <1>1, <1>2, <2>1 DEF RowsCover, Covers
<1> QED
  BY <1>1, <1>2, <1>3 DEF PlaceInv

\* Reading goes on only from the sources to the relationships, and from there to the
\* observation; whatever was asked of a feed, a complete row covers it.
LEMMA ReadsPlace ==
    ASSUME PlaceInv, Reads
    PROVE  PlaceInv' /\ phase \in {"feed", "relations", "observe"} /\ phase' # "idle"
<1>p. PlaceInv' => phase' \in {"idle", "feed", "relations", "observe", "read", "failed"}
  BY DEF PlaceInv
<1>1. CASE \E k \in 0..(PageSize + 1), cursor \in {"none", "fresh", "repeated"} :
              PageArrives(k, cursor)
  <2> PICK k \in 0..(PageSize + 1), cursor \in {"none", "fresh", "repeated"} :
              PageArrives(k, cursor)
    BY <1>1
  <2>1. k \in Nat
    BY ReadingAssumption
  <2>2. PlaceInv'
    BY <2>1, PagesPlace
  <2>3. phase = "feed" /\ (phase' = phase \/ \E row, spent : FeedEnds(row, spent))
    BY DEF PageArrives
  <2>4. phase' # "idle"
    BY <2>3 DEF FeedEnds, Relates, Observes
  <2> QED
    BY <2>2, <2>3, <2>4
<1>2. CASE PageFails
  <2>1. phase = "feed" /\ \E row, spent : FeedEnds(row, spent)
    BY <1>2 DEF PageFails
  <2>2. phase' # "idle"
    BY <2>1 DEF FeedEnds, Relates, Observes
  <2> QED
    BY <1>2, <2>1, <2>2, FailsPlace
<1>3. CASE \E b, told : RelationsArrive(b, told) \/ RelationsRefused
  <2>1. /\ phase = "relations" /\ UNCHANGED <<input, rows, page>>
        /\ phase' \in {"relations", "observe"}
    BY <1>3 DEF RelationsArrive, RelationsRefused, Observes
  <2>2. Len(rows) = Len(input.feeds)
    BY <2>1 DEF PlaceInv
  <2> QED
    BY <2>1, <2>2, SamePlace
<1>4. CASE \/ \E b, there : ProfilesArrive(b, there)
           \/ \E k, cursor : MutesArrive(k, cursor)
           \/ ObservationBreaks
  <2>1. /\ phase = "observe" /\ UNCHANGED <<input, page>>
        /\ ObservationFails \/ UNCHANGED <<phase, rows>>
    BY <1>4 DEF ProfilesArrive, MutesArrive, ObservationBreaks
  <2>2. PlaceInv'
    BY <2>1, FailurePlace, SamePlace
  <2> QED
    BY <2>1, <2>2 DEF ObservationFails
<1>5. CASE ObservationEnds
  <2>1. phase = "observe" /\ UNCHANGED <<input, rows, page>> /\ phase' = "read"
    BY <1>5 DEF ObservationEnds
  <2>2. Len(rows) = Len(input.feeds)
    BY <2>1 DEF PlaceInv
  <2> QED
    BY <2>1, <2>2, SamePlace
<1>6. CASE TimeIsUp
  <2>1. /\ UNCHANGED <<input, rows, page>> /\ phase' = "failed"
        /\ (phase = "feed" /\ page = NoPage) \/ phase \in {"relations", "observe"}
    BY <1>6 DEF TimeIsUp
  <2>2. phase # "feed" => Len(rows) = Len(input.feeds)
    BY <2>1 DEF PlaceInv
  <2> QED
    BY <2>1, <2>2, SamePlace
<1> QED
  BY <1>1, <1>2, <1>3, <1>4, <1>5, <1>6 DEF Reads

\* A reading begins with its first source, and an input has one.
LEMMA StartPlace ==
    ASSUME PlaceInv, NEW in \in Inputs, NEW spent \in Spent, ReadStarts(in, spent)
    PROVE  PlaceInv'
<1>1. /\ rows = <<>> /\ page = NoPage /\ input' = in /\ phase' = "feed"
      /\ rows' = rows /\ page' = page
  BY DEF PlaceInv, ReadStarts
<1>2. in.feeds \in Seq([limit : Nat \ {0}, posts : Seq(Posts)]) /\ in.feeds # <<>>
  BY InputsAssumption
<1>3. 1 \in 1..Len(in.feeds) /\ Len(in.feeds) \in Nat
  BY <1>2
<1>4. Feed' = in.feeds[1]
  BY <1>1 DEF Feed
<1>5. Asked(Feed') \in Nat
  BY <1>3, <1>4, FeedOfInput DEF FeedTyped
<1>6. page' \in [n : 0..Asked(Feed'), pages : 0..(MaxPages - 1)]
  BY <1>1, <1>5, ReadingAssumption DEF NoPage
<1>7. Asked(Feed)' = Asked(Feed') /\ RowsCover(rows, input)'
  BY <1>1 DEF Asked, RowsCover
<1>8. rows' \in Seq(Rows) /\ Len(rows') = 0
  BY <1>1
<1> QED
  BY <1>1, <1>3, <1>6, <1>7, <1>8 DEF PlaceInv

\* No reading yet.
LEMMA PlaceInit == ReadInit => PlaceInv
BY DEF ReadInit, PlaceInv, NoInput, RowsCover

\* The place of a reading, along every step of an acquisition.
LEMMA PlaceStep ==
    ASSUME PlaceInv, [Next]_vars
    PROVE  PlaceInv'
<1>1. CASE UNCHANGED readVars
  BY <1>1, SamePlace DEF readVars
<1> QED
  BY <1>1, ReadingSteps, ReadsPlace, StartPlace

-----------------------------------------------------------------------------
(* What is asked and what is found.                                        *)

\* The requests under way and what was found have their types.
KnownInv ==
    /\ pool.got \subseteq 1..pool.sent
    /\ plan \in [profiles : Nat, mutes : 0..MaxMutePages]
    /\ relation \in [Subjects -> {"unknown", "following", "not_following"}]
    /\ found \subseteq Subjects
    /\ mutes.n \in 0..Len(Mutes) /\ mutes.pages \in 0..MaxMutePages
    /\ remote \in [Subjects -> [known : BOOLEAN, direct : BOOLEAN]]
GatherInv == PlaceInv /\ BudgetInv /\ KnownInv

\* What is found of the accounts is left alone; requests may be.
LEMMA SameKnown ==
    ASSUME KnownInv, UNCHANGED <<plan, relation, found, mutes, remote>>,
           (pool.got \subseteq 1..pool.sent)'
    PROVE  KnownInv'
BY DEF KnownInv

\* An observation begins with batches no profile of which was answered.
LEMMA ObservesKnown ==
    ASSUME KnownInv, NEW spent \in 0..Budget, NEW subjects \in SUBSET Subjects,
           Observes(spent, subjects),
           relation' \in [Subjects -> {"unknown", "following", "not_following"}]
    PROVE  KnownInv'
<1> DEFINE n == Batches(subjects, ProfileBatch)
           profiles == Least(n, Budget - spent)
           pages == IF profiles = n THEN Least(MaxMutePages, (Budget - spent) - profiles) ELSE 0
           opens == pages > 0
<1>1. n \in Nat
  BY Limits, BatchesAreCounted
<1>2. /\ plan' = [profiles |-> profiles, mutes |-> pages]
      /\ pool'.got = {}
      /\ mutes'.n = 0 /\ mutes'.pages = 0
      /\ UNCHANGED <<found, remote>>
  BY DEF Observes, ObservationPlan, NoMutes
<1> HIDE DEF n
<1>3. profiles \in Nat /\ profiles <= Budget - spent
  BY <1>1, Limits DEF Least
<1> HIDE DEF profiles
<1>4. pages \in 0..MaxMutePages
  BY <1>3, Limits DEF Least
<1> HIDE DEF pages
<1>5. 0 \in 0..Len(Mutes) /\ 0 \in 0..MaxMutePages
  BY ReadingAssumption, Limits
<1> QED
  BY <1>2, <1>3, <1>4, <1>5 DEF KnownInv

\* The last source ends in relationships or an observation.
LEMMA FeedEndsKnown ==
    ASSUME GatherInv, phase = "feed", PlaceInv', NEW row, NEW spent \in 0..Budget,
           FeedEnds(row, spent)
    PROVE  KnownInv'
<1>1. /\ KnownInv /\ UNCHANGED <<input, relation>>
      /\ SubjectsOf(rows') \subseteq Subjects /\ input.named \subseteq Subjects
  <2>1. (SubjectsOf(rows) \subseteq Subjects /\ input.named \subseteq Subjects)'
    BY AcquiredAreSubjects, PTL
  <2> QED
    BY <2>1 DEF FeedEnds, GatherInv
<1>2. relation' \in [Subjects -> {"unknown", "following", "not_following"}]
  BY <1>1 DEF KnownInv
<1>3. CASE UNCHANGED <<phase, pool, observeVars>>
  <2>1. (pool.got \subseteq 1..pool.sent)'
    BY <1>1, <1>3 DEF KnownInv
  <2> QED
    BY <1>1, <1>3, <2>1, SameKnown DEF observeVars
<1>4. CASE Relates(spent, SubjectsOf(rows'))
  <2>1. UNCHANGED observeVars /\ pool'.got = {}
    BY <1>4 DEF Relates
  <2> QED
    BY <1>1, <2>1, SameKnown DEF observeVars
<1>5. CASE \/ Observes(spent, input.named) \/ Observes(spent, SubjectsOf(rows') \cup input.named)
  BY <1>1, <1>2, <1>5, ObservesKnown
<1> QED
  BY <1>3, <1>4, <1>5 DEF FeedEnds

\* What a reply says of a relationship is one of three answers.
LEMMA RelationTyped ==
    ASSUME NEW told
    PROVE  RelationOf(told) \in {"unknown", "following", "not_following"}
BY DEF RelationOf

\* A failed observation knows nobody.
LEMMA FailureKnown ==
    ASSUME KnownInv, ObservationFails, UNCHANGED <<plan, relation>>
    PROVE  KnownInv'
<1>1. remote' \in [Subjects -> [known : BOOLEAN, direct : BOOLEAN]]
  BY DEF ObservationFails, Unseen
<1> QED
  BY <1>1 DEF KnownInv, ObservationFails

\* A batch of relationships is answered.
LEMMA RelationsKnown ==
    ASSUME GatherInv, NEW b \in Open, NEW told, RelationsArrive(b, told)
    PROVE  KnownInv'
<1>1. /\ KnownInv /\ b \in 1..pool.sent /\ pool.sent \in Nat /\ requests \in 0..Budget
      /\ pool = [sent |-> pool.sent, got |-> pool.got] /\ Acquired \subseteq Subjects
  BY AcquiredAreSubjects DEF GatherInv, BudgetInv, Open
<1>2. relation' \in [Subjects -> {"unknown", "following", "not_following"}]
  <2> DEFINE batch == {s \in Exposed : BatchOf(s, Exposed, RelationBatch) = b}
  <2>1. relation' = [s \in Subjects |-> IF s \in batch THEN RelationOf(told[s]) ELSE relation[s]]
    BY DEF RelationsArrive
  <2> HIDE DEF batch
  <2> QED
    BY <1>1, <2>1, RelationTyped DEF KnownInv
<1>3. CASE Observes(requests, Acquired)
  BY <1>1, <1>2, <1>3, ObservesKnown
<1>4. CASE /\ \/ pool' = [sent |-> pool.sent + 1, got |-> pool.got \cup {b}]
              \/ pool' = [pool EXCEPT !.got = pool.got \cup {b}]
           /\ UNCHANGED observeVars
  <2>1. \/ pool' = [sent |-> pool.sent + 1, got |-> pool.got \cup {b}]
        \/ pool' = [sent |-> pool.sent, got |-> pool.got \cup {b}]
    BY <1>1, <1>4
  <2>2. pool.got \cup {b} \subseteq 1..pool.sent /\ 1..pool.sent \subseteq 1..(pool.sent + 1)
    BY <1>1 DEF KnownInv
  <2>3. pool'.got \subseteq 1..pool'.sent
    BY <2>1, <2>2
  <2> QED
    BY <1>1, <1>2, <1>4, <2>3 DEF KnownInv, observeVars
<1> QED
  BY <1>3, <1>4 DEF RelationsArrive

\* A batch of profiles is answered.
LEMMA ProfilesKnown ==
    ASSUME GatherInv, NEW b \in Open, NEW there \in SUBSET Acquired, ProfilesArrive(b, there)
    PROVE  KnownInv'
<1>1. /\ KnownInv /\ b \in 1..pool.sent /\ pool.sent \in Nat /\ Acquired \subseteq Subjects
      /\ UNCHANGED <<plan, relation>>
  BY AcquiredAreSubjects DEF GatherInv, BudgetInv, Open, ProfilesArrive
<1>2. CASE ObservationFails
  BY <1>1, <1>2, FailureKnown
<1>3. CASE /\ \/ pool' = [sent |-> pool.sent + 1, got |-> pool.got \cup {b}]
              \/ pool' = [sent |-> pool.sent + 0, got |-> pool.got \cup {b}]
           /\ found' = found \cup there /\ UNCHANGED <<mutes, remote>>
  <2>1. pool.got \cup {b} \subseteq 1..pool.sent /\ 1..pool.sent \subseteq 1..(pool.sent + 1)
        /\ pool.sent + 0 = pool.sent
    BY <1>1 DEF KnownInv
  <2>2. pool'.got \subseteq 1..pool'.sent
    BY <1>3, <2>1
  <2>3. found' \subseteq Subjects
    BY <1>1, <1>3 DEF KnownInv
  <2> QED
    BY <1>1, <1>3, <2>2, <2>3 DEF KnownInv
<1> QED
  BY <1>2, <1>3 DEF ProfilesArrive

\* A page of the mute list is answered.
LEMMA MutesKnown ==
    ASSUME GatherInv, NEW k, NEW cursor, MutesArrive(k, cursor)
    PROVE  KnownInv'
<1>1. /\ KnownInv /\ phase = "observe" /\ mutes.open /\ UNCHANGED <<plan, relation>>
      /\ k \in 0..Least(MutePageSize, Len(Mutes) - mutes.n)
  BY DEF GatherInv, MutesArrive
<1>2. CASE ObservationFails
  BY <1>1, <1>2, FailureKnown
<1>3. CASE /\ mutes'.n = mutes.n + k /\ mutes'.pages = mutes.pages + 1
           /\ UNCHANGED <<pool, found, remote>>
  <2>1. mutes.n \in 0..Len(Mutes) /\ mutes.pages \in 0..MaxMutePages
        /\ plan.mutes \in 0..MaxMutePages /\ mutes.pages + 1 <= plan.mutes
    BY <1>1 DEF KnownInv, GatherInv, BudgetInv
  <2>2. MutePageSize \in Nat /\ Len(Mutes) \in Nat /\ MaxMutePages \in Nat
    BY ReadingAssumption, Limits
  <2>3. mutes'.n \in 0..Len(Mutes)
    <3> DEFINE q == Len(Mutes) - mutes.n
    <3>1. q \in Nat /\ k \in 0..Least(MutePageSize, q)
      BY <1>1, <2>1, <2>2
    <3> HIDE DEF q
    <3>2. k \in 0..q
      BY <2>2, <3>1 DEF Least
    <3> QED
      BY <1>3, <2>1, <2>2, <3>2 DEF q
  <2>4. mutes'.pages \in 0..MaxMutePages
    BY <1>3, <2>1, <2>2
  <2> QED
    BY <1>1, <1>3, <2>3, <2>4 DEF KnownInv
<1>4. ObservationFails \/ /\ mutes'.n = mutes.n + k /\ mutes'.pages = mutes.pages + 1
                          /\ UNCHANGED <<pool, found, remote>>
  BY DEF MutesArrive
<1> QED
  BY <1>2, <1>3, <1>4

\* No step of a reading leaves the types.
LEMMA ReadsKnown ==
    ASSUME GatherInv, PlaceInv', Reads
    PROVE  KnownInv'
<1>1. KnownInv /\ requests \in 0..Budget /\ Budget \in Nat
  BY Limits DEF GatherInv, BudgetInv
<1>2. CASE PageFails \/ \E k, cursor : PageArrives(k, cursor)
  <2>1. CASE UNCHANGED <<pool, relation, observeVars>>
    <3>1. (pool.got \subseteq 1..pool.sent)'
      BY <1>1, <2>1 DEF KnownInv
    <3> QED
      BY <1>1, <2>1, <3>1, SameKnown DEF observeVars
  <2>2. CASE /\ phase = "feed"
             /\ \/ \E row : FeedEnds(row, Least(requests + 1, Budget))
                \/ requests < Budget /\ \E row : FeedEnds(row, requests + 1)
    <3>1. Least(requests + 1, Budget) \in 0..Budget
          /\ (requests < Budget => requests + 1 \in 0..Budget)
      BY <1>1 DEF Least
    <3> QED
      BY <2>2, <3>1, FeedEndsKnown
  <2>3. CASE PageFails
    BY <2>2, <2>3 DEF PageFails
  <2>4. CASE \E k, cursor : PageArrives(k, cursor)
    <3> PICK k, cursor : PageArrives(k, cursor)
      BY <2>4
    <3>1. /\ phase = "feed" /\ requests < Budget
          /\ UNCHANGED <<pool, relation, observeVars>> \/ \E row : FeedEnds(row, requests + 1)
      BY DEF PageArrives
    <3> QED
      BY <2>1, <2>2, <3>1
  <2> QED
    BY <1>2, <2>3, <2>4
<1>3. CASE \E b \in Open : \E told : RelationsArrive(b, told)
  BY <1>3, RelationsKnown
<1>4. CASE RelationsRefused
  <2>1. Observes(requests, Acquired) /\ UNCHANGED relation /\ Acquired \subseteq Subjects
    BY <1>4, AcquiredAreSubjects DEF RelationsRefused, GatherInv
  <2>2. relation' \in [Subjects -> {"unknown", "following", "not_following"}]
    BY <1>1, <2>1 DEF KnownInv
  <2> QED
    BY <1>1, <2>1, <2>2, ObservesKnown
<1>5. CASE \E b \in Open, there \in SUBSET Acquired : ProfilesArrive(b, there)
  BY <1>5, ProfilesKnown
<1>6. CASE \E k, cursor : MutesArrive(k, cursor)
  BY <1>6, MutesKnown
<1>7. CASE ObservationBreaks
  BY <1>1, <1>7, FailureKnown DEF ObservationBreaks
<1>8. CASE ObservationEnds
  <2>1. remote' \in [Subjects -> [known : BOOLEAN, direct : BOOLEAN]]
    BY <1>8 DEF ObservationEnds, Unseen
  <2> QED
    BY <1>1, <1>8, <2>1 DEF ObservationEnds, KnownInv
<1>9. CASE TimeIsUp
  <2>1. UNCHANGED <<pool, relation, observeVars>>
    BY <1>9 DEF TimeIsUp
  <2> QED
    BY <1>1, <2>1 DEF KnownInv, observeVars
<1> QED
  BY <1>2, <1>3, <1>4, <1>5, <1>6, <1>7, <1>8, <1>9 DEF Reads

\* What is gathered, before anything is.
LEMMA GatherInit == ReadInit => GatherInv
<1> SUFFICES ASSUME ReadInit
             PROVE  GatherInv
  OBVIOUS
<1>1. PlaceInv
  BY PlaceInit
<1>2. /\ requests = 0 /\ pool = [sent |-> 0, got |-> {}] /\ plan = [profiles |-> 0, mutes |-> 0]
      /\ mutes = [n |-> 0, pages |-> 0, open |-> FALSE, end |-> FALSE] /\ phase = "idle"
  BY DEF ReadInit, NoPool, NoPlan, NoMutes
<1>3. BudgetInv
  BY <1>2, Limits DEF BudgetInv
<1>4. /\ relation \in [Subjects -> {"unknown", "following", "not_following"}]
      /\ remote \in [Subjects -> [known : BOOLEAN, direct : BOOLEAN]] /\ found = {}
  BY DEF ReadInit, Unseen
<1>5. 0 \in 0..Len(Mutes) /\ 0 \in 0..MaxMutePages /\ 0 \in Nat
  BY ReadingAssumption, Limits
<1>6. KnownInv
  BY <1>2, <1>4, <1>5 DEF KnownInv
<1> QED
  BY <1>1, <1>3, <1>6 DEF GatherInv

\* What is gathered, along every step of an acquisition.
LEMMA GatherStep ==
    ASSUME GatherInv, [Next]_vars
    PROVE  GatherInv'
<1>1. PlaceInv'
  BY PlaceStep DEF GatherInv
<1>2. Acquired \subseteq Subjects
  BY AcquiredAreSubjects DEF GatherInv
<1>3. (Acquired \subseteq Subjects)'
  BY <1>1, AcquiredAreSubjects, PTL
<1>4. CASE Reads
  BY <1>1, <1>2, <1>3, <1>4, ReadsKnown, ReadsBudget DEF GatherInv
<1>5. CASE UNCHANGED readVars
  BY <1>1, <1>5 DEF GatherInv, readVars, BudgetInv, BudgetSuffices, KnownInv
<1>6. CASE \E in \in Inputs, spent \in Spent : ReadStarts(in, spent)
  <2>1. /\ phase' = "feed" /\ requests' \in Spent
        /\ UNCHANGED <<pool, plan, mutes, relation, found, remote>>
    BY <1>6 DEF ReadStarts, observeVars
  <2>2. requests' \in 0..Budget
    BY <2>1, ReadingAssumption
  <2>3. BudgetInv' /\ KnownInv'
    BY <2>1, <2>2 DEF GatherInv, BudgetInv, KnownInv
  <2> QED
    BY <1>1, <2>3 DEF GatherInv
<1> QED
  BY <1>4, <1>5, <1>6, ReadingSteps

\* What is gathered is well typed.
LEMMA GatherTyped ==
    ASSUME GatherInv
    PROVE  ReadTypeOK
<1>1. input \in Inputs \cup {NoInput}
  BY DEF GatherInv, PlaceInv
<1>2. page.n \in Nat /\ page.pages \in 0..MaxPages
  <2>1. CASE phase = "feed"
    <3>1. FeedTyped(Feed) /\ page \in [n : 0..Asked(Feed), pages : 0..(MaxPages - 1)]
      BY <2>1, FeedOfRows DEF GatherInv
    <3>2. Asked(Feed) \in Nat /\ MaxPages \in Nat \ {0}
      BY <3>1, ReadingAssumption DEF FeedTyped
    <3>3. page.n \in 0..Asked(Feed) /\ page.pages \in 0..(MaxPages - 1)
      BY <3>1
    <3> QED
      BY <3>2, <3>3
  <2>2. CASE phase # "feed"
    <3>1. page.n = 0 /\ page.pages = 0
      BY <2>2 DEF GatherInv, PlaceInv, NoPage
    <3> QED
      BY <3>1, ReadingAssumption
  <2> QED
    BY <2>1, <2>2
<1>3. Len(rows) <= Len(input.feeds) /\ Acquired \subseteq Subjects
      /\ phase \in {"idle", "feed", "relations", "observe", "read", "failed"}
  BY AcquiredAreSubjects DEF GatherInv, PlaceInv
<1> QED
  BY <1>1, <1>2, <1>3 DEF GatherInv, BudgetInv, KnownInv, ReadTypeOK

-----------------------------------------------------------------------------
(* The call whose reading is followed.                                     *)

\* The call whose reading is followed, and what it may have got to.
ReadsAt(c) == IF Kind[c] = "preview" THEN 3 ELSE 4
FollowInv ==
    /\ reader \subseteq Calls /\ \A c, d \in reader : c = d
    /\ (reader = {}) <=> (phase = "idle")
    /\ again \subseteq Managed \ Acquired
    /\ again # {} => phase = "read" /\ \A c \in reader : Kind[c] = "preview"
    /\ result \in [Calls -> {"none", "partial", "complete"}]
    /\ \A c \in Calls : result[c] # "none" => how[c] = "over"
    /\ \A c \in reader : /\ Kind[c] # "effect" /\ at[c] >= ReadsAt(c)
                         /\ at[c] > ReadsAt(c) => phase = "read"
                         /\ result[c] # "none" => at[c] = 7

\* A step of a call that is not gone takes it on, never from its reading on but by
\* the end of the reading.
LEMMA MovesGoOn ==
    ASSUME NEW c \in Calls, CallInv(c), Moves(c)
    PROVE  /\ how[c] \notin Gone
           /\ at' = at \/ (at' = [at EXCEPT ![c] = @ + 1] /\ Step(c) # "read")
<1>1. CASE \E aged \in SUBSET Left : TakeLease(c, aged)
  <2>1. how[c] = "asked" /\ (at' = at \/ at' = [at EXCEPT ![c] = @ + 1])
    BY <1>1 DEF TakeLease, Granted, Advance
  <2>2. Step(c) = "lease"
    BY <2>1 DEF CallInv
  <2> QED
    BY <2>1, <2>2 DEF Gone
<1>2. CASE Claim(c)
  <2>1. how[c] = "polled" /\ (at' = at \/ at' = [at EXCEPT ![c] = @ + 1])
    BY <1>2 DEF Claim, Granted, Advance
  <2>2. Step(c) = "lease"
    BY <2>1 DEF CallInv
  <2> QED
    BY <2>1, <2>2 DEF Gone
<1>3. CASE EngineEnds(c)
  <2>1. how[c] = "inside" /\ (at' = at \/ at' = [at EXCEPT ![c] = @ + 1])
    BY <1>3 DEF EngineEnds, Advance
  <2>2. Step(c) = "engine"
    BY <2>1 DEF CallInv
  <2> QED
    BY <2>1, <2>2 DEF Gone
<1>4. CASE \E aged \in SUBSET Left : EngineBegins(c, aged)
  BY <1>4 DEF EngineBegins, At, Gone
<1>5. CASE AskAdmission(c) \/ Poll(c) \/ GiveUp(c) \/ EngineRefuses(c) \/ SettleEffect(c)
  BY <1>5 DEF AskAdmission, Poll, GiveUp, EngineRefuses, SettleEffect, At, Gone
<1>6. CASE StartReport(c) \/ Reserve(c) \/ SendEffect(c)
           \/ \E good \in BOOLEAN : ReadProfile(c, good)
  <2>1. /\ how[c] = "ready" /\ Step(c) # "read"
        /\ at' = at \/ at' = [at EXCEPT ![c] = @ + 1]
    BY <1>6 DEF StartReport, Reserve, SendEffect, ReadProfile, At, Advance
  <2> QED
    BY <2>1 DEF Gone
<1> QED
  BY <1>1, <1>2, <1>3, <1>4, <1>5, <1>6 DEF Moves

\* A step of a call takes it on by one or two places, past its reading only when the
\* reading was good.
LEMMA CallGoesOn ==
    ASSUME NEW c \in Calls, CallInv(c), Acts(c)
    PROVE  /\ how[c] \notin Gone
           /\ at' = at \/ \E n \in {1, 2} : at' = [at EXCEPT ![c] = @ + n]
           /\ at' # at /\ Step(c) = "read" => ReadAnyhow(c, TRUE)
<1>1. CASE Moves(c)
  BY <1>1, MovesGoOn
<1>2. CASE Begin(c) \/ Store(c)
  <2>1. /\ how[c] = "ready" /\ Step(c) # "read"
        /\ at' = at \/ at' = [at EXCEPT ![c] = @ + 1]
    BY <1>2 DEF Begin, Store, At, Advance
  <2> QED
    BY <2>1 DEF Gone
<1>3. CASE \E good, missing \in BOOLEAN : ReadAgain(c, missing, good)
  <2>1. /\ how[c] = "ready" /\ Step(c) # "read"
        /\ at' = at \/ at' = [at EXCEPT ![c] = @ + 1] \/ at' = [at EXCEPT ![c] = @ + 2]
    BY <1>3 DEF ReadAgain, At, Advance
  <2> QED
    BY <2>1 DEF Gone
<1>4. CASE \E good \in BOOLEAN : ReadAnyhow(c, good)
  <2> PICK good \in BOOLEAN : ReadAnyhow(c, good)
    BY <1>4
  <2>1. how[c] = "ready" /\ (at' = at \/ (good = TRUE /\ at' = [at EXCEPT ![c] = @ + 1]))
    BY DEF ReadAnyhow, At, Advance
  <2> QED
    BY <2>1 DEF Gone
<1> QED
  BY <1>1, <1>2, <1>3, <1>4 DEF Acts

\* Nobody goes back, and a call that returned stays where it is.
LEMMA CallsGoOn ==
    ASSUME WindowTypeOK, CallsInv, [WindowNext]_windowVars, NEW b \in Calls
    PROVE  /\ at'[b] >= at[b] /\ at[b] \in 0..7
           /\ how[b] = "over" => how'[b] = "over" /\ at'[b] = at[b]
           /\ at'[b] # at[b] /\ Step(b) = "read" => ReadAnyhow(b, TRUE)
<1>0. at \in [Calls -> 0..7] /\ how \in [Calls -> Manners] /\ at[b] \in 0..7
  BY Typed
<1>1. CASE UNCHANGED <<at, how>>
  BY <1>0, <1>1
<1>2. ASSUME NEW c \in Calls, Acts(c)
      PROVE  /\ at'[b] >= at[b]
             /\ how[b] = "over" => how'[b] = "over" /\ at'[b] = at[b]
             /\ at'[b] # at[b] /\ Step(b) = "read" => ReadAnyhow(b, TRUE)
  <2>1. CallInv(c)
    BY DEF CallsInv
  <2>2. CASE b # c
    <3>1. Frame(c)
      BY <1>2, <2>1, CallKeeps DEF Keeps
    <3>2. at'[b] = at[b] /\ how'[b] = how[b]
      BY <2>2, <3>1 DEF Frame
    <3> QED
      BY <1>0, <3>2
  <2>3. CASE b = c
    <3>1. /\ how[b] \notin Gone
          /\ at' = at \/ \E n \in {1, 2} : at' = [at EXCEPT ![b] = @ + n]
          /\ at' # at /\ Step(b) = "read" => ReadAnyhow(b, TRUE)
      BY <1>2, <2>1, <2>3, CallGoesOn
    <3>2. at'[b] >= at[b]
      BY <1>0, <3>1
    <3> QED
      BY <3>1, <3>2 DEF Gone
  <2> QED
    BY <2>2, <2>3
<1>3. CASE \E d \in Accounts : Purge(d)
  BY <1>1, <1>3 DEF Purge
<1>4. CASE \E kinds : ProcessDies(kinds)
  <2> PICK kinds : ProcessDies(kinds)
    BY <1>4
  <2>1. at' = at /\ (how[b] = "over" => how'[b] = "over")
    BY <1>0 DEF ProcessDies, Gone
  <2> QED
    BY <1>0, <2>1
<1>5. CASE BackupBegins \/ BackupDies \/ BackupProceeds
  BY <1>1, <1>5 DEF BackupBegins, BackupDies, BackupProceeds, BackupSeesQuiet,
                    BackupTimesOut, CopyAppDatabase, BackupEnds, callVars
<1>6. CASE UNCHANGED windowVars
  BY <1>1, <1>6 DEF windowVars, callVars
<1> QED
  BY <1>0, <1>2, <1>3, <1>4, <1>5, <1>6, Ways


\* The reading of the followed call ends only when it was read.
FollowedEnds == \A c \in reader : at'[c] # at[c] /\ Step(c) = "read" => phase = "read"

\* Where the reading of a call is among its steps.
LEMMA AtReading ==
    ASSUME WindowTypeOK, NEW c \in Calls
    PROVE  /\ Step(c) = "read" => at[c] = ReadsAt(c) /\ Kind[c] # "effect"
           /\ Kind[c] # "effect" /\ at[c] = ReadsAt(c) => Step(c) = "read"
           /\ ReadsAt(c) \in {3, 4}
<1>1. Kind[c] \in Kinds
  BY WindowAssumption
<1>2. Step(c) = "read" => at[c] = ReadsAt(c) /\ Kind[c] # "effect"
  BY Places DEF ReadsAt
<1>3. CASE Kind[c] = "preview" /\ at[c] = 3
  BY <1>1, <1>2, <1>3, PlanOf DEF Step, ReadsAt
<1>4. CASE Kind[c] = "measurement" /\ at[c] = 4
  BY <1>1, <1>2, <1>4, PlanOf DEF Step, ReadsAt
<1> QED
  BY <1>1, <1>2, <1>3, <1>4 DEF ReadsAt, Kinds

\* What a second look-up may know, and what a stored result says of its call.
LookedUp(known) ==
    /\ known \subseteq Managed \ Acquired
    /\ known # {} => phase = "read" /\ \A c \in reader : Kind[c] = "preview"
Stored(outcome) ==
    /\ outcome \in [Calls -> {"none", "partial", "complete"}]
    /\ \A c \in Calls : outcome[c] # result[c] => /\ how'[c] = "over" /\ at'[c] = 7
                                                  /\ result[c] = "none"

\* Steps that leave the reading alone.
LEMMA WindowFollows ==
    ASSUME WindowTypeOK, CallsInv, FollowInv, [WindowNext]_windowVars, FollowedEnds,
           UNCHANGED <<readVars, reader>>, LookedUp(again'), Stored(result')
    PROVE  FollowInv'
<1>1. /\ UNCHANGED <<reader, phase, input, rows>>
      /\ (Managed \ Acquired)' = Managed \ Acquired
  BY DEF readVars, Acquired, Exposed, SubjectsOf
<1>2. ASSUME NEW c \in Calls, result'[c] # "none"
      PROVE  how'[c] = "over" /\ (at'[c] = 7 \/ (result[c] # "none" /\ at'[c] = at[c]))
  <2>1. CASE result[c] # "none"
    BY <2>1, CallsGoOn DEF FollowInv
  <2>2. CASE result[c] = "none"
    BY <1>2, <2>2 DEF Stored
  <2> QED
    BY <2>1, <2>2
<1>3. ASSUME NEW c \in reader
      PROVE  /\ at'[c] >= ReadsAt(c)
             /\ at'[c] > ReadsAt(c) => phase = "read"
  <2>1. c \in Calls /\ Kind[c] # "effect" /\ at[c] >= ReadsAt(c)
        /\ (at[c] > ReadsAt(c) => phase = "read")
    BY <1>3 DEF FollowInv
  <2>2. /\ at'[c] >= at[c] /\ at[c] \in 0..7
        /\ at'[c] # at[c] /\ Step(c) = "read" => phase = "read"
    BY <1>3, <2>1, CallsGoOn DEF FollowedEnds
  <2>3. WindowTypeOK'
    BY CallsStep
  <2>4. at'[c] \in 0..7 /\ ReadsAt(c) \in {3, 4} /\ (at[c] = ReadsAt(c) => Step(c) = "read")
    BY <2>1, <2>3, AtReading DEF WindowTypeOK
  <2>5. CASE at[c] = ReadsAt(c)
    BY <2>2, <2>4, <2>5
  <2>6. CASE at[c] > ReadsAt(c)
    BY <2>1, <2>2, <2>4, <2>6
  <2> QED
    BY <2>1, <2>2, <2>4, <2>5, <2>6
<1>4. ASSUME NEW c \in reader PROVE result'[c] # "none" => at'[c] = 7
  <2>1. c \in Calls /\ (result[c] # "none" => at[c] = 7)
    BY <1>4 DEF FollowInv
  <2> QED
    BY <1>2, <2>1
<1>5. \A c : ReadsAt(c)' = ReadsAt(c)
  BY DEF ReadsAt
<1>6. \A c \in Calls : result'[c] # "none" => how'[c] = "over"
  BY <1>2
<1>7. /\ again' \subseteq (Managed \ Acquired)'
      /\ again' # {} => phase' = "read" /\ \A c \in reader' : Kind[c] = "preview"
      /\ result' \in [Calls -> {"none", "partial", "complete"}]
  BY <1>1 DEF LookedUp, Stored
<1> QED
  BY <1>1, <1>3, <1>4, <1>5, <1>6, <1>7 DEF FollowInv

\* What is left alone is as it was.
LEMMA SameStored ==
    ASSUME FollowInv
    PROVE  /\ again' = again => LookedUp(again')
           /\ result' = result => Stored(result')
BY DEF FollowInv, LookedUp, Stored

\* While the reading is under way nothing was looked up again, and its call is at its
\* reading.
LEMMA ReadingFollows ==
    ASSUME WindowTypeOK, PlaceInv, FollowInv, NEW c \in Calls, Reading(c)
    PROVE  FollowInv' /\ \A d \in reader : result[d] = "none"
<1>1. /\ phase \in {"feed", "relations", "observe"} /\ phase' # "idle"
      /\ UNCHANGED <<at, how, reader, again, result>>
  BY ReadsPlace DEF Reading, windowVars, callVars, acqVars
<1>2. again = {} /\ again' = {}
  BY <1>1 DEF FollowInv
<1>3. ASSUME NEW d \in reader PROVE result[d] = "none" /\ at[d] = ReadsAt(d)
  <2>1. /\ d \in Calls /\ at[d] >= ReadsAt(d) /\ ~(at[d] > ReadsAt(d))
        /\ result[d] # "none" => at[d] = 7
    BY <1>1, <1>3 DEF FollowInv
  <2>2. at[d] \in 0..7 /\ ReadsAt(d) \in {3, 4}
    BY <2>1, AtReading, Typed
  <2> QED
    BY <2>1, <2>2
<1>4. ASSUME NEW d \in reader' PROVE ~(at'[d] > ReadsAt(d)') /\ at'[d] >= ReadsAt(d)' /\ result'[d] = "none"
  <2>1. d \in Calls /\ at[d] \in 0..7 /\ at[d] = ReadsAt(d) /\ result[d] = "none"
    BY <1>1, <1>3, <1>4, Typed DEF FollowInv
  <2>2. ReadsAt(d)' = ReadsAt(d)
    BY DEF ReadsAt
  <2> QED
    BY <1>1, <2>1, <2>2
<1>5. reader # {} /\ reader' # {}
  BY <1>1 DEF Reading
<1>6. FollowInv'
  BY <1>1, <1>2, <1>4, <1>5 DEF FollowInv
<1> QED
  BY <1>3, <1>6

\* A call that does not end a reading of its own leaves the followed one alone.
LEMMA OthersFollow ==
    ASSUME WindowTypeOK, CallsInv, FollowInv, NEW c \in Calls, Acts(c),
           c \in reader /\ Step(c) = "read" => phase = "read"
    PROVE  FollowedEnds
<1> SUFFICES ASSUME NEW d \in reader, at'[d] # at[d], Step(d) = "read"
             PROVE  phase = "read"
  BY DEF FollowedEnds
<1>1. d \in Calls /\ CallInv(c)
  BY DEF FollowInv, CallsInv
<1>2. Frame(c)
  BY <1>1, CallKeeps DEF Keeps
<1>3. d = c
  BY <1>1, <1>2 DEF Frame
<1> QED
  BY <1>3

\* A second look-up knows accounts the reading did not acquire, and only for a preview.
LEMMA LookUpFollows ==
    ASSUME WindowTypeOK, CallsInv, FollowInv, NEW c \in Calls, NEW good \in BOOLEAN,
           NEW known \in SUBSET Managed, LookUpMissing(c, good, known), [WindowNext]_windowVars
    PROVE  /\ FollowInv'
           /\ again' = again \/ \A d \in reader : result[d] = "none"
<1>1. /\ UNCHANGED <<readVars, reader, result>>
      /\ again' = again \cup known
      /\ known \subseteq (IF c \in reader /\ good THEN Missing ELSE {})
      /\ how[c] = "ready" /\ Step(c) = "reread"
      /\ \E missing \in BOOLEAN : ReadAgain(c, missing, good)
  BY DEF LookUpMissing, ReadAgain, At
<1>2. Kind[c] = "preview" /\ at[c] = 5
  BY <1>1, Places
<1>3. FollowedEnds
  BY <1>1, OthersFollow DEF Acts
<1>4. CASE c \in reader
  <2>1. phase = "read" /\ (\A d \in reader : d = c) /\ result[c] = "none"
    BY <1>1, <1>2, <1>4 DEF FollowInv, ReadsAt
  <2>2. LookedUp(again')
    BY <1>1, <1>2, <2>1 DEF LookedUp, Missing, FollowInv
  <2> QED
    BY <1>1, <1>3, <2>1, <2>2, SameStored, WindowFollows
<1>5. CASE c \notin reader
  <2>1. again' = again
    BY <1>1, <1>5
  <2> QED
    BY <1>1, <1>3, <2>1, SameStored, WindowFollows
<1> QED
  BY <1>4, <1>5

\* A result is stored once, at the end of the call.
LEMMA StoreFollows ==
    ASSUME WindowTypeOK, CallsInv, FollowInv, NEW c \in Calls, NEW evidence \in BOOLEAN,
           StoreResult(c, evidence), [WindowNext]_windowVars
    PROVE  /\ FollowInv'
           /\ result[c] = "none" /\ at[c] = 7 /\ \A d \in Calls : d # c => result'[d] = result[d]
<1> DEFINE outcome == IF purged[AccountOf[c]] THEN "none"
                      ELSE IF (IF c \in reader THEN ScopeCovered(c, evidence) ELSE evidence)
                      THEN "complete" ELSE "partial"
<1>1. /\ UNCHANGED <<readVars, reader, again>> /\ Store(c)
      /\ result' = [result EXCEPT ![c] = outcome]
      /\ outcome \in {"none", "partial", "complete"}
  BY DEF StoreResult
<1> HIDE DEF outcome
<1>2. /\ how[c] = "ready" /\ Step(c) = "store" /\ Ends(c, TRUE) /\ at' = at
  BY <1>1 DEF Store, At
<1>3. /\ how'[c] = "over" /\ at'[c] = 7 /\ at[c] = 7
  BY <1>2, Ending, Places
<1>4. result[c] = "none" /\ result \in [Calls -> {"none", "partial", "complete"}]
  BY <1>2 DEF FollowInv
<1>5. Stored(result')
  BY <1>1, <1>3, <1>4 DEF Stored
<1>6. FollowedEnds
  BY <1>1, <1>2, OthersFollow DEF Acts
<1>7. FollowInv'
  BY <1>1, <1>5, <1>6, SameStored, WindowFollows
<1> QED
  BY <1>1, <1>3, <1>4, <1>7

\* The followed reading begins with nothing stored and nothing looked up.
LEMMA StartFollows ==
    ASSUME WindowTypeOK, FollowInv, PlaceInv, NEW c \in Calls, NEW in \in Inputs, NEW spent \in Spent,
           StartReading(c, in, spent)
    PROVE  FollowInv' /\ \A d \in reader' : result'[d] = "none"
<1>1. /\ reader = {} /\ reader' = {c} /\ how[c] = "ready" /\ Step(c) = "read"
      /\ phase' = "feed" /\ UNCHANGED <<at, how, again, result>>
  BY DEF StartReading, At, ReadStarts, windowVars, callVars
<1>2. again = {} /\ phase = "idle"
  BY <1>1 DEF FollowInv
<1>3. result[c] = "none"
  BY <1>1 DEF FollowInv
<1>4. at[c] = ReadsAt(c) /\ Kind[c] # "effect" /\ at[c] \in 0..7
  BY <1>1, AtReading, Typed
<1>5. ReadsAt(c)' = ReadsAt(c)
  BY DEF ReadsAt
<1>6. FollowInv'
  BY <1>1, <1>2, <1>3, <1>4, <1>5 DEF FollowInv
<1> QED
  BY <1>1, <1>3, <1>6

-----------------------------------------------------------------------------
(* What a stored result says.                                              *)

\* Two declarations that differ are more than one.
LEMMA TwoAreMore ==
    ASSUME NEW a, NEW b, a # b, a # "none", b # "none"
    PROVE  Cardinality({a, b} \ {"none"}) > 1
<1>1. {a, b} \ {"none"} = {a} \cup {b} /\ b \notin {a}
  OBVIOUS
<1>2. IsFiniteSet({a}) /\ Cardinality({a}) = 1
  BY FS_Singleton, Zenon
<1>3. Cardinality({a} \cup {b}) = Cardinality({a}) + 1
  BY <1>1, <1>2, FS_AddElement
<1> QED
  BY <1>1, <1>2, <1>3

\* A thread that can be decided on is declared.
LEMMA DecidedIsDeclared ==
    ASSUME NEW own \in Addresses, NEW raw \in Replies, NEW view \in Replies,
           Attention(Lineage(own, raw, view), {}) # "indeterminate"
    PROVE  Declared(own, raw, view)
<1> DEFINE roots == {raw.root, view.root} \ {"none"}
           parents == {raw.parent, view.parent} \ {"none"}
<1>1. /\ raw.present \in BOOLEAN /\ raw.root \in Reference /\ raw.parent \in Reference
      /\ view.present \in BOOLEAN /\ view.root \in Reference /\ view.parent \in Reference
      /\ ~raw.present => raw.root = "none" /\ raw.parent = "none"
      /\ ~view.present => view.root = "none" /\ view.parent = "none"
  BY DEF Replies, Reply
<1>2. Lineage(own, raw, view).status \in {"root", "reply"}
  BY DEF Attention
<1>3. CASE ~raw.present /\ ~view.present
  BY <1>1, <1>2, <1>3 DEF Declared, Lineage, Indeterminate, Addresses
<1>4. CASE raw.present \/ view.present
  <2>1. /\ "bad" \notin roots \cup parents
        /\ ~(Cardinality(parents) > 1)
        /\ ~(raw.present /\ raw.root = "none")
        /\ ~(Cardinality(roots) > 1)
        /\ roots # {}
    BY <1>2, <1>4 DEF Lineage, Indeterminate
  <2>2. "none" \in {raw.parent, view.parent} \/ raw.parent = view.parent
    BY <2>1, TwoAreMore
  <2>3. "none" \in {raw.root, view.root} \/ raw.root = view.root
    BY <2>1, TwoAreMore
  <2>4. "bad" \notin {raw.parent, view.parent, raw.root, view.root}
    BY <2>1
  <2>5. \E r \in {raw.root, view.root} : r # "none"
    BY <2>1
  <2> HIDE DEF roots, parents
  <2> QED
    BY <1>1, <2>1, <2>2, <2>3, <2>4, <2>5 DEF Declared, Reference
<1> QED
  BY <1>3, <1>4

\* What a reading called complete has covered, and what it knows of each account.
Earned(c) ==
    /\ \A i \in DOMAIN input.feeds :
          /\ Len(rows[i].items) = Asked(input.feeds[i])
          /\ \A k \in 1..Asked(input.feeds[i]) : Covered(input.feeds[i].posts[k])
    /\ \A s \in input.named : remote[s].known
    /\ \A s \in Managed : remote[s].known \/ (s \in again /\ Kind[c] = "preview")

\* The property, call by call.
LEMMA EarnedIsComplete ==
    CompleteIsEarned <=> \A c \in reader : result[c] = "complete" => Earned(c)
BY DEF Earned, CompleteIsEarned

\* What ScopeCovered accepts, its call may say: a complete row covers its feed, a
\* decided lineage declared every thread, and every account asked about is known.
LEMMA ScopeIsEarned ==
    ASSUME WindowTypeOK, GatherInv, FollowInv, NEW c \in reader, at[c] = 7,
           NEW evidence, ScopeCovered(c, evidence)
    PROVE  Earned(c)
<1>1. /\ c \in Calls /\ phase = "read" /\ again \subseteq Managed \ Acquired
      /\ again # {} => Kind[c] = "preview"
  BY DEF FollowInv, ReadsAt
<1>2. /\ input \in Inputs /\ rows \in Seq(Rows) /\ Len(rows) = Len(input.feeds)
      /\ RowsCover(rows, input)
  BY <1>1 DEF GatherInv, PlaceInv
<1>3. DOMAIN input.feeds = 1..Len(input.feeds) /\ DOMAIN rows = 1..Len(rows)
      /\ \A i \in 1..Len(rows) : rows[i] \in Rows
  BY <1>2, InputsAssumption
<1>4. /\ \A i \in DOMAIN rows : rows[i].complete
      /\ \A s \in Acquired \cup Managed : remote[s].known \/ s \in again
      /\ Reviews => \A s \in Exposed : relation[s] # "unknown"
      /\ Attends => \A i \in DOMAIN rows : \A k \in DOMAIN rows[i].items :
                       Attention(rows[i].items[k], {}) # "indeterminate"
  BY DEF ScopeCovered
<1>5. \A s \in Acquired : remote[s].known
  BY <1>1, <1>4
<1>6. Exposed \subseteq Acquired /\ input.named \subseteq Acquired
  BY DEF Acquired
<1>7. ASSUME NEW i \in DOMAIN input.feeds
      PROVE  /\ Len(rows[i].items) = Asked(input.feeds[i])
             /\ \A j \in 1..Asked(input.feeds[i]) : Covered(input.feeds[i].posts[j])
  <2>1. PICK feed : feed = input.feeds[i]
    OBVIOUS
  <2>2. PICK row : row = rows[i]
    OBVIOUS
  <2>3. FeedTyped(feed) /\ row \in Rows /\ row.complete /\ Covers(row, feed.posts, Asked(feed))
    BY <1>2, <1>3, <1>4, <2>1, <2>2, FeedOfInput DEF RowsCover
  <2>4. Range(row.exposures) \subseteq Exposed
    BY <1>2, <1>3, <2>2 DEF Exposed, SubjectsOf
  <2>5. ASSUME NEW j \in 1..Asked(feed)
        PROVE  Covered(feed.posts[j])
    <3>1. PICK post : post = feed.posts[j]
      OBVIOUS
    <3>2. feed.posts \in Seq(Posts) /\ Len(feed.posts) \in Nat /\ j \in 1..Len(feed.posts)
      <4>1. feed.posts \in Seq(Posts) /\ Asked(feed) \in Nat /\ Asked(feed) <= Len(feed.posts)
        BY <2>3 DEF FeedTyped
      <4> QED
        BY <4>1
    <3>3. post.own \in Addresses /\ post.raw \in Replies /\ post.view \in Replies
      <4>1. post \in Posts
        BY <3>1, <3>2
      <4> QED
        BY <4>1 DEF Posts
    <3>4. /\ row.items[j] = Lineage(post.own, post.raw, post.view) /\ Len(row.items) = Asked(feed)
          /\ Len(post.quotes) <= MaxQuoteDepth
          /\ \A k \in DOMAIN Chain(post) : Chain(post)[k].actor \in Range(row.exposures)
      BY <2>3, <3>1 DEF Covers
    <3>5. j \in DOMAIN row.items
      <4>1. row.items \in Seq(Lineages)
        BY <2>3 DEF Rows
      <4> QED
        BY <3>4, <4>1
    <3>6. Attends => Attention(row.items[j], {}) # "indeterminate"
      BY <1>2, <1>3, <1>4, <2>2, <3>5
    <3>7. Attends => Declared(post.own, post.raw, post.view)
      BY <3>3, <3>4, <3>6, DecidedIsDeclared
    <3>8. ASSUME NEW s \in {Chain(post)[k].actor : k \in DOMAIN Chain(post)}
          PROVE  s \in Exposed /\ remote[s].known /\ (Reviews => relation[s] # "unknown")
      BY <1>4, <1>5, <1>6, <2>4, <3>4
    <3> QED
      BY <3>1, <3>4, <3>7, <3>8 DEF Covered
  <2> QED
    BY <2>1, <2>2, <2>3, <2>5 DEF Covers
<1>8. \A s \in Managed : remote[s].known \/ (s \in again /\ Kind[c] = "preview")
  BY <1>1, <1>4
<1> QED
  BY <1>5, <1>6, <1>7, <1>8 DEF Earned


EarnedInv == \A c \in reader : result[c] = "complete" => Earned(c)

\* What a result says stays true: its reading is over.
LEMMA SameEarnedOf ==
    ASSUME UNCHANGED <<readVars, reader, again>>, NEW c, Earned(c)
    PROVE  Earned(c)'
<1>1. UNCHANGED <<input, rows, remote, relation, reader, again>>
  BY DEF readVars
<1>2. Exposed' = Exposed /\ (\A feed : Asked(feed)' = Asked(feed))
  BY <1>1 DEF Asked, Exposed, SubjectsOf
<1>3. \A post : Covered(post) => Covered(post)'
  BY <1>1, <1>2 DEF Covered, Declared
<1> QED
  BY <1>1, <1>2, <1>3 DEF Earned

\* What was said stays true while nothing is read, looked up or stored.
LEMMA SameEarned ==
    ASSUME EarnedInv, UNCHANGED <<readVars, reader, again>>,
           \A c \in reader : result'[c] = result[c]
    PROVE  EarnedInv'
BY SameEarnedOf DEF EarnedInv

\* The inductive invariant of acquisitions.
AcqInv == WindowInv /\ GatherInv /\ FollowInv /\ EarnedInv

\* The followed call, along every step of an acquisition.
LEMMA FollowStep ==
    ASSUME WindowTypeOK, CallsInv, GatherInv, FollowInv, EarnedInv, [Next]_vars
    PROVE  FollowInv' /\ EarnedInv'
<1>w. [WindowNext]_windowVars
  BY WindowSteps
<1>p. PlaceInv
  BY DEF GatherInv
<1>1. ASSUME UNCHANGED <<readVars, acqVars>>, FollowedEnds PROVE FollowInv' /\ EarnedInv'
  <2>1. UNCHANGED <<readVars, reader, again, result>>
    BY <1>1 DEF acqVars
  <2> QED
    BY <1>w, <1>1, <2>1, SameStored, WindowFollows, SameEarned
<1>2. CASE UNCHANGED vars
  <2>1. FollowedEnds /\ UNCHANGED <<readVars, acqVars>>
    BY <1>2 DEF FollowedEnds, vars, windowVars, callVars
  <2> QED
    BY <1>1, <2>1
<1>3. ASSUME NEW c \in Calls, Moves(c), UNCHANGED <<readVars, acqVars>>
      PROVE  FollowInv' /\ EarnedInv'
  <2>1. Acts(c) /\ CallInv(c)
    BY <1>3 DEF Acts, CallsInv
  <2>2. CASE at' = at
    BY <1>1, <1>3, <2>2 DEF FollowedEnds
  <2>3. CASE Step(c) # "read"
    BY <1>1, <1>3, <2>1, <2>3, OthersFollow
  <2> QED
    BY <1>3, <2>1, <2>2, <2>3, MovesGoOn
<1>4. ASSUME NEW c \in Calls, Reading(c) PROVE FollowInv' /\ EarnedInv'
  <2>1. FollowInv' /\ \A d \in reader : result[d] = "none"
    BY <1>4, <1>p, ReadingFollows
  <2>2. reader' = reader /\ result' = result
    BY <1>4 DEF Reading, acqVars
  <2> QED
    BY <2>1, <2>2 DEF EarnedInv
<1>5. ASSUME NEW c \in Calls, EndReading(c) PROVE FollowInv' /\ EarnedInv'
  <2>1. ReadAnyhow(c, phase = "read") /\ UNCHANGED <<readVars, acqVars>>
    BY <1>5 DEF EndReading
  <2>2. CASE phase = "read"
    <3>1. FollowedEnds
      BY <2>2 DEF FollowedEnds
    <3> QED
      BY <1>1, <2>1, <3>1
  <2>3. CASE phase # "read"
    <3>1. at' = at
      BY <2>1, <2>3 DEF ReadAnyhow
    <3>2. FollowedEnds
      BY <3>1 DEF FollowedEnds
    <3> QED
      BY <1>1, <2>1, <3>2
  <2> QED
    BY <2>2, <2>3
<1>6. ASSUME NEW c \in Calls, NEW good \in BOOLEAN, ReadAtOnce(c, good) PROVE FollowInv' /\ EarnedInv'
  <2>1. c \notin reader /\ ReadAnyhow(c, good) /\ UNCHANGED <<readVars, acqVars>>
    BY <1>6 DEF ReadAtOnce
  <2>2. Acts(c)
    BY <2>1 DEF Acts
  <2> QED
    BY <1>1, <2>1, <2>2, OthersFollow
<1>7. ASSUME NEW c \in Calls, NEW good \in BOOLEAN, NEW known \in SUBSET Managed,
             LookUpMissing(c, good, known)
      PROVE  FollowInv' /\ EarnedInv'
  <2>1. FollowInv' /\ (again' = again \/ \A d \in reader : result[d] = "none")
    BY <1>7, <1>w, LookUpFollows
  <2>2. UNCHANGED <<readVars, reader, result>>
    BY <1>7 DEF LookUpMissing
  <2>3. CASE again' = again
    BY <2>1, <2>2, <2>3, SameEarned
  <2>4. CASE \A d \in reader : result[d] = "none"
    BY <2>1, <2>2, <2>4 DEF EarnedInv
  <2> QED
    BY <2>1, <2>3, <2>4
<1>8. ASSUME NEW c \in Calls, NEW evidence \in BOOLEAN, StoreResult(c, evidence)
      PROVE  FollowInv' /\ EarnedInv'
  <2>1. /\ FollowInv' /\ result[c] = "none" /\ at[c] = 7
        /\ \A d \in Calls : d # c => result'[d] = result[d]
    BY <1>8, <1>w, StoreFollows
  <2>2. UNCHANGED <<readVars, reader, again>> /\ reader \subseteq Calls
    BY <1>8 DEF StoreResult, FollowInv
  <2>3. CASE c \notin reader
    BY <2>1, <2>2, <2>3, SameEarned
  <2>4. CASE c \in reader
    <3>1. reader' = {c}
      BY <2>2, <2>4 DEF FollowInv
    <3>2. result'[c] = "complete" => ScopeCovered(c, evidence)
      BY <1>8, <2>4 DEF StoreResult, FollowInv
    <3>3. Earned(c) => Earned(c)'
      BY <2>2, SameEarnedOf
    <3> QED
      BY <2>1, <2>4, <3>1, <3>2, <3>3, ScopeIsEarned DEF EarnedInv
  <2> QED
    BY <2>3, <2>4
<1>9. ASSUME NEW c \in Calls, NEW in \in Inputs, NEW spent \in Spent, StartReading(c, in, spent)
      PROVE  FollowInv' /\ EarnedInv'
  BY <1>9, <1>p, StartFollows DEF EarnedInv
<1>10. ASSUME Outside, UNCHANGED <<readVars, acqVars>> PROVE FollowInv' /\ EarnedInv'
  <2>1. CASE \E c \in Calls : Begin(c)
    <3> PICK c \in Calls : Begin(c)
      BY <2>1
    <3>1. Step(c) # "read" /\ Acts(c)
      BY DEF Begin, At, Acts
    <3> QED
      BY <1>1, <1>10, <3>1, OthersFollow
  <2>2. CASE at' = at
    BY <1>1, <1>10, <2>2 DEF FollowedEnds
  <2>3. at' = at \/ \E c \in Calls : Begin(c)
    BY <1>10 DEF Outside, Purge, ProcessDies, BackupBegins, BackupDies, BackupProceeds,
                 BackupSeesQuiet, BackupTimesOut, CopyAppDatabase, BackupEnds, callVars
  <2> QED
    BY <2>1, <2>2, <2>3
<1> QED
  BY <1>2, <1>3, <1>4, <1>5, <1>6, <1>7, <1>8, <1>9, <1>10 DEF Next, Proceed

\* The inductive invariant holds at first and is kept.
LEMMA AcqInit == Init => AcqInv
<1> SUFFICES ASSUME Init
             PROVE  AcqInv
  OBVIOUS
<1>1. WindowInv /\ GatherInv
  BY WindowInvInit, GatherInit DEF Init
<1>2. FollowInv /\ EarnedInv
  BY DEF Init, ReadInit, FollowInv, EarnedInv
<1> QED
  BY <1>1, <1>2 DEF AcqInv

LEMMA AcqStep == AcqInv /\ [Next]_vars => AcqInv'
<1> SUFFICES ASSUME AcqInv, [Next]_vars
             PROVE  AcqInv'
  OBVIOUS
<1>1. WindowInv'
  BY WindowSteps, WindowInvStep DEF AcqInv
<1>2. GatherInv'
  BY GatherStep DEF AcqInv
<1>3. FollowInv' /\ EarnedInv'
  BY FollowStep DEF AcqInv, WindowInv
<1> QED
  BY <1>1, <1>2, <1>3 DEF AcqInv

\* Every state of an acquisition is well typed, its rows, batches, plans and what it
\* found, for any feeds, pages, limits and budgets (acquire of service.ts).
THEOREM AcquisitionIsTyped == Spec => []TypeOK
<1>1. AcqInv => TypeOK
  <2> SUFFICES ASSUME AcqInv
               PROVE  TypeOK
    OBVIOUS
  <2>1. WindowTypeOK /\ ReadTypeOK
    BY GatherTyped DEF AcqInv, WindowInv
  <2>2. reader \subseteq Calls /\ again \subseteq Managed
        /\ result \in [Calls -> {"none", "partial", "complete"}]
    BY DEF AcqInv, FollowInv
  <2>3. Cardinality(reader) <= 1
    <3>1. CASE reader = {}
      BY <3>1, FS_EmptySet
    <3>2. CASE reader # {}
      <4>1. PICK c : reader = {c}
        BY <3>2 DEF AcqInv, FollowInv
      <4> QED
        BY <4>1, FS_Singleton
    <3> QED
      BY <3>1, <3>2
  <2> QED
    BY <2>1, <2>2, <2>3 DEF TypeOK
<1> QED
  BY <1>1, AcqInit, AcqStep, PTL DEF Spec

\* The two tasks of an observation never race for the final request slots, whatever
\* was spent before and in whatever order the answers come (observationRequestPlan
\* of oauth.ts).
THEOREM PlansFitTheBudget == Spec => []BudgetSuffices
<1>1. AcqInv => BudgetSuffices
  BY DEF AcqInv, GatherInv, BudgetInv, BudgetSuffices
<1> QED
  BY <1>1, AcqInit, AcqStep, PTL DEF Spec

\* A stored reading called complete read the posts the policy asked for of every feed,
\* with every author and quote the depth limit lets one see, and knows the state and
\* the relationship of each of them, for any feeds, pages, limits and budgets
\* (acquire and finishPreview of service.ts, set_completeness of receipts.py).
THEOREM CompletionIsEarned == Spec => []CompleteIsEarned
<1>1. AcqInv => CompleteIsEarned
  BY EarnedIsComplete DEF AcqInv, EarnedInv
<1> QED
  BY <1>1, AcqInit, AcqStep, PTL DEF Spec

=============================================================================
