--------------------------- MODULE CliRuntimeProofs ---------------------------
(***************************************************************************)
(* Theorems about the command line runtime and about the evaluation of a   *)
(* policy.  A run takes a publisher for complete only when it has read all *)
(* it had to say, so a leaf of a rule that is evaluated on such a publisher*)
(* says what it would say of everything published; that lifts through a    *)
(* predicate, whose nodes are taken in their order, to the rules and to    *)
(* the decision.                                                           *)
(***************************************************************************)
EXTENDS CliRuntime, TLAPS, WellFoundedInduction

\* Each publisher serves its own labels.
ServedOK ==
    /\ published \in [Providers -> Seq(Observations)]
    /\ \A p \in Providers : \A k \in DOMAIN published[p] : published[p][k].provider = p

\* A page is kept before its subject, and its subject before the cursor moves past it.
PageOK ==
    pc \in {"subjects", "cursor"} =>
        /\ cursor < Len(published[Stream])
        /\ published[Stream][cursor + 1] \in observations
        /\ pc = "cursor" => discovered

\* What is known of a mute follows the ledger; what is enforced is what was proposed.
LedgerOK ==
    /\ ledger \in {"none", "untracked", "released"} => standing = "none"
    /\ ledger = "attributed" => standing = "ours"
EnforcedOK ==
    /\ pc \in {"write", "request", "confirm", "doubt"} => mode # "none"
    /\ pc = "write" => row.action = IF mode = "apply" THEN "mute" ELSE "release_candidate"

\* Where the run is taken for complete it has seen everything there was; the policy is
\* one of those given, and the evidence of a row is what the run has kept.
CoverageOK ==
    pc \in {"evaluate", "write"} =>
        /\ observations \subseteq world
        /\ \A e \in world : e.provider \in coverage => e \in observations
PolicyOK ==
    /\ saved = NoReceipt \/ saved.rules \in Policies
    /\ pc = "write" => rules \in Policies /\ row.ids = EvidenceIds(rules, Evidence)

CliInv ==
    /\ TypeOK /\ ServedOK /\ PageOK /\ NoGap
    /\ LedgerOK /\ EnforcedOK /\ CoverageOK /\ PolicyOK

-----------------------------------------------------------------------------
\* Publishers only add to what they serve.
LEMMA ServedStep ==
    ASSUME ServedOK, [Next]_vars
    PROVE  /\ ServedOK'
           /\ \A p \in Providers : \A k \in DOMAIN published[p] :
                 /\ k \in DOMAIN published'[p] /\ published'[p][k] = published[p][k]
<1>1. CASE UNCHANGED published
  BY <1>1 DEF ServedOK
<1>2. CASE Publish
  <2>1. PICK p \in Providers, at \in Times, negated \in BOOLEAN :
          \E l \in Labels[p], expires \in {Never} \cup Times :
            published' = [published EXCEPT ![p] = Append(@,
               [provider |-> p, property |-> l, at |-> at, expires |-> expires,
                negated |-> negated])]
    BY <1>2 DEF Publish
  <2>2. PICK l \in Labels[p], expires \in {Never} \cup Times :
          published' = [published EXCEPT ![p] = Append(@,
               [provider |-> p, property |-> l, at |-> at, expires |-> expires,
                negated |-> negated])]
    BY <2>1
  <2> DEFINE new == [provider |-> p, property |-> l, at |-> at, expires |-> expires,
                     negated |-> negated]
  <2>3. new \in Observations /\ new.provider = p
    <3>1. l \in UNION Range(Labels)
      BY LabelsAssumption DEF Range
    <3> QED
      BY <3>1 DEF Observations
  <2> HIDE DEF new
  <2>4. published' = [published EXCEPT ![p] = Append(@, new)]
    BY <2>2 DEF new
  <2>5. published \in [Providers -> Seq(Observations)]
    BY DEF ServedOK
  <2>6. /\ Append(published[p], new) \in Seq(Observations)
        /\ DOMAIN Append(published[p], new) = 1 .. (Len(published[p]) + 1)
        /\ DOMAIN published[p] = 1 .. Len(published[p]) /\ Len(published[p]) \in Nat
        /\ Append(published[p], new)[Len(published[p]) + 1] = new
        /\ \A k \in DOMAIN published[p] : Append(published[p], new)[k] = published[p][k]
    BY <2>3, <2>5
  <2>7. /\ published'[p] = Append(published[p], new)
        /\ \A q \in Providers : q # p => published'[q] = published[q]
        /\ published' \in [Providers -> Seq(Observations)]
    BY <2>4, <2>5, <2>6
  <2>8. ASSUME NEW q \in Providers
        PROVE  /\ \A k \in DOMAIN published'[q] : published'[q][k].provider = q
               /\ \A k \in DOMAIN published[q] :
                     k \in DOMAIN published'[q] /\ published'[q][k] = published[q][k]
    <3>1. CASE q = p
      <4>1. \A k \in 1 .. (Len(published[p]) + 1) : k \in 1 .. Len(published[p]) \/ k = Len(published[p]) + 1
        BY <2>6
      <4>2. \A k \in DOMAIN published[p] : published[p][k].provider = p
        BY DEF ServedOK
      <4> QED
        BY <2>3, <2>6, <2>7, <3>1, <4>1, <4>2
    <3>2. CASE q # p
      BY <2>7, <3>2 DEF ServedOK
    <3> QED
      BY <3>1, <3>2
  <2> QED
    BY <2>7, <2>8 DEF ServedOK
<1> QED
  BY <1>1, <1>2 DEF Next, vars, store, run, Tick, ChangeElsewhere, EditOverrides, Resume, Start,
     ReadPage, NoteSubjects, MoveCursor, EndDiscovery, Collect, NoSubject, Preview, Apply, Release,
     Begin, Withdraw, Request, Finish, Crash

\* So nothing that was said is unsaid, and the cursor stays among it.
LEMMA SaidStays ==
    ASSUME ServedOK, [Next]_vars
    PROVE  /\ \A p \in Providers : Everything(p) \subseteq Everything(p)' /\ Everything(p) \subseteq Observations
           /\ (\A p \in Providers : Everything(p) \subseteq Observations)'
           /\ Len(published[Stream]) \in Nat /\ Len(published[Stream]) <= Len(published[Stream])'
           /\ \A k \in 1 .. Len(published[Stream]) : published'[Stream][k] = published[Stream][k]
<1>1. /\ ServedOK'
      /\ \A p \in Providers : \A k \in DOMAIN published[p] :
            k \in DOMAIN published'[p] /\ published'[p][k] = published[p][k]
  BY ServedStep
<1>2. published \in [Providers -> Seq(Observations)] /\ published' \in [Providers -> Seq(Observations)]
  BY <1>1 DEF ServedOK
<1>3. \A p \in Providers : /\ DOMAIN published[p] = 1 .. Len(published[p]) /\ Len(published[p]) \in Nat
                           /\ DOMAIN published'[p] = 1 .. Len(published'[p]) /\ Len(published'[p]) \in Nat
                           /\ Range(published[p]) \subseteq Observations
                           /\ Range(published'[p]) \subseteq Observations
  BY <1>2 DEF Range
<1>4. \A p \in Providers : Range(published[p]) \subseteq Range(published'[p])
  BY <1>1 DEF Range
<1>5. Len(published[Stream]) <= Len(published'[Stream])
  <2>1. \A m, n \in Nat : 1 .. m \subseteq 1 .. n => m <= n
    OBVIOUS
  <2>2. 1 .. Len(published[Stream]) \subseteq 1 .. Len(published'[Stream])
    BY <1>1, <1>3, StreamAssumption
  <2> QED
    BY <1>3, <2>1, <2>2, StreamAssumption
<1> QED
  BY <1>1, <1>3, <1>4, <1>5, StreamAssumption DEF Everything

\* What is stored was said.
LEMMA StoredWasSaid ==
    ASSUME TypeOK, ServedOK, [Next]_vars
    PROVE  (observations \subseteq UNION {Everything(p) : p \in Providers} /\
            world \subseteq UNION {Everything(p) : p \in Providers})'
<1> DEFINE said == UNION {Everything(p) : p \in Providers}
<1>1. said \subseteq said'
  BY SaidStays
<1>2. observations \subseteq said /\ world \subseteq said
  BY DEF TypeOK
<1>3. CASE ReadPage
  <2>1. published[Stream][cursor + 1] \in Everything(Stream)
    <3>1. cursor + 1 \in 1 .. Len(published[Stream]) /\ published[Stream] \in Seq(Observations)
      BY <1>3, SaidStays, StreamAssumption DEF ReadPage, TypeOK, ServedOK
    <3> QED
      BY <3>1 DEF Everything, Range
  <2>2. published' = published /\ world' = world
        /\ observations' = observations \cup {published[Stream][cursor + 1]}
    BY <1>3 DEF ReadPage
  <2> QED
    BY <1>1, <1>2, <2>1, <2>2, StreamAssumption
<1>4. CASE Collect
  <2>1. PICK read \in [Providers -> 0 .. MaxEvents] :
          /\ \A p \in Providers : read[p] <= Len(published[p])
          /\ observations' = observations \cup
               UNION {Range(SubSeq(published[p], 1, read[p])) : p \in Providers}
    BY <1>4 DEF Collect
  <2>2. world' = said /\ published' = published
    BY <1>4 DEF Collect
  <2>3. ASSUME NEW p \in Providers PROVE Range(SubSeq(published[p], 1, read[p])) \subseteq Everything(p)
    <3>1. published[p] \in Seq(Observations) /\ read[p] \in Nat /\ read[p] <= Len(published[p])
      BY <2>1, BoundsAssumption DEF ServedOK
    <3>2. /\ DOMAIN SubSeq(published[p], 1, read[p]) = 1 .. read[p]
          /\ \A k \in 1 .. read[p] : SubSeq(published[p], 1, read[p])[k] = published[p][k]
          /\ 1 .. read[p] \subseteq DOMAIN published[p]
      BY <3>1
    <3> QED
      BY <3>2 DEF Everything, Range
  <2> QED
    BY <1>1, <1>2, <2>1, <2>2, <2>3
<1>5. CASE UNCHANGED observations /\ world' \in {world, {}}
  BY <1>1, <1>2, <1>5
<1> QED
  BY <1>3, <1>4, <1>5 DEF Next, vars, store, run, Publish, Tick, ChangeElsewhere, EditOverrides, Resume, Start,
     NoteSubjects, MoveCursor, EndDiscovery, NoSubject, Preview, Apply, Release,
     Begin, Withdraw, Request, Finish, Crash, Stop, Enforce

\* The cursor stays within what is served.
LEMMA PageStep ==
    ASSUME TypeOK, ServedOK, PageOK, NoGap, [Next]_vars
    PROVE  /\ PageOK' /\ NoGap'
           /\ (cursor \in 0 .. Len(published[Stream]))'
<1>1. /\ Len(published[Stream]) \in Nat /\ Len(published'[Stream]) \in Int
      /\ Len(published[Stream]) <= Len(published'[Stream])
      /\ \A k \in 1 .. Len(published[Stream]) : published'[Stream][k] = published[Stream][k]
  <2>1. ServedOK'
    BY ServedStep
  <2>2. published'[Stream] \in Seq(Observations)
    BY <2>1, StreamAssumption DEF ServedOK
  <2> QED
    BY <2>2, SaidStays
<1>2. cursor \in 0 .. Len(published[Stream])
  BY DEF TypeOK
<1>3. observations \subseteq observations'
  BY DEF Next, vars, store, run, Publish, Tick, ChangeElsewhere, EditOverrides, Resume, Start,
     ReadPage, NoteSubjects, MoveCursor, EndDiscovery, Collect, NoSubject, Preview, Apply, Release,
     Begin, Withdraw, Request, Finish, Crash, Stop, Enforce
<1>4. CASE cursor' = cursor /\ discovered' = discovered
           /\ (pc' \in {"subjects", "cursor"} => pc' = pc)
  <2>1. cursor' \in 0 .. Len(published'[Stream])
    BY <1>1, <1>2, <1>4
  <2>2. NoGap'
    <3>1. ASSUME NEW k \in 1 .. cursor PROVE published'[Stream][k] \in observations' /\ discovered'
      BY <1>1, <1>2, <1>3, <1>4 DEF NoGap
    <3> QED
      BY <1>4, <3>1 DEF NoGap
  <2>3. PageOK'
    <3>1. CASE pc' \in {"subjects", "cursor"}
      <4>1. cursor < Len(published[Stream]) /\ cursor + 1 \in 1 .. Len(published[Stream])
            /\ published[Stream][cursor + 1] \in observations /\ (pc = "cursor" => discovered)
        BY <1>1, <1>2, <1>4, <3>1 DEF PageOK
      <4>2. cursor' < Len(published'[Stream]) /\ published'[Stream][cursor' + 1] \in observations'
        BY <1>1, <1>2, <1>3, <1>4, <4>1
      <4> QED
        BY <1>4, <3>1, <4>1, <4>2 DEF PageOK
    <3> QED
      BY <3>1 DEF PageOK
  <2> QED
    BY <2>1, <2>2, <2>3
<1>5. CASE ReadPage
  BY <1>1, <1>2, <1>3, <1>5 DEF ReadPage, PageOK, NoGap
<1>6. CASE NoteSubjects
  BY <1>1, <1>2, <1>3, <1>6 DEF NoteSubjects, PageOK, NoGap
<1>7. CASE MoveCursor
  BY <1>1, <1>2, <1>3, <1>7 DEF MoveCursor, PageOK, NoGap
<1> QED
  BY <1>4, <1>5, <1>6, <1>7 DEF Next, vars, store, run, Publish, Tick, ChangeElsewhere, EditOverrides,
     Resume, Start, EndDiscovery, Collect, NoSubject, Preview, Apply, Release,
     Begin, Withdraw, Request, Finish, Crash, Stop, Enforce

\* The types, along every step.
LEMMA TypeStep ==
    ASSUME TypeOK, ServedOK, PageOK, NoGap, [Next]_vars
    PROVE  TypeOK'
<1>1. (observations \subseteq UNION {Everything(p) : p \in Providers} /\
       world \subseteq UNION {Everything(p) : p \in Providers})'
  BY StoredWasSaid
<1>2. (\A p \in Providers : Everything(p) \subseteq Observations)'
  BY SaidStays
<1>3. (cursor \in 0 .. Len(published[Stream]))'
  BY PageStep
<1>4. (clock \in Times /\ remote \in Remotes)'
  <2>1. CASE Tick
    BY <2>1, BoundsAssumption DEF Tick, Times, TypeOK
  <2>2. CASE ChangeElsewhere
    BY <2>2 DEF ChangeElsewhere, TypeOK
  <2>3. CASE Request
    BY <2>3 DEF Request, TypeOK, Remotes
  <2>4. CASE UNCHANGED <<clock, remote>>
    BY <2>4 DEF TypeOK
  <2> QED
    BY <2>1, <2>2, <2>3, <2>4 DEF Next, vars, store, run, Publish, EditOverrides, Resume, Start,
       ReadPage, NoteSubjects, MoveCursor, EndDiscovery, Collect, NoSubject, Preview, Apply, Release,
       Begin, Withdraw, Finish, Crash
<1>5. (discovered \in BOOLEAN /\ overrides \subseteq Layers)'
  BY DEF TypeOK, Next, vars, store, run, Publish, Tick, ChangeElsewhere, EditOverrides, Resume,
     Start, ReadPage, NoteSubjects, MoveCursor, EndDiscovery, Collect, NoSubject, Preview, Apply,
     Release, Begin, Withdraw, Request, Finish, Crash, Stop, Enforce
<1>6. (ledger \in Statuses /\ standing \in {"none", "maybe", "ours"})'
  BY DEF TypeOK, Statuses, Next, vars, store, run, Publish, Tick, ChangeElsewhere, EditOverrides,
     Resume, Start, ReadPage, NoteSubjects, MoveCursor, EndDiscovery, Collect, NoSubject, Preview,
     Apply, Release, Begin, Withdraw, Request, Finish, Crash, Stop, Enforce
<1>7. (/\ pc \in {"idle", "page", "subjects", "cursor", "collect", "evaluate", "write", "request",
                  "confirm", "doubt"}
       /\ mode \in {"none", "apply", "release"} /\ coverage \subseteq Providers)'
  BY DEF TypeOK, Next, vars, store, run, Publish, Tick, ChangeElsewhere, EditOverrides,
     Resume, Start, ReadPage, NoteSubjects, MoveCursor, EndDiscovery, Collect, NoSubject, Preview,
     Apply, Release, Begin, Withdraw, Request, Finish, Crash, Stop, Enforce
<1> QED
  BY <1>1, <1>2, <1>3, <1>4, <1>5, <1>6, <1>7 DEF TypeOK

\* What a row proposes is the consequence of its own evidence.
LEMMA RowActs ==
    ASSUME NEW rs, NEW evidence, NEW seen, NEW status, NEW layers
    PROVE  /\ Row(rs, evidence, seen, status, layers).action
                = Consequence(Evaluate(rs, evidence, clock), seen, status, layers)
           /\ Row(rs, evidence, seen, status, layers).ids = EvidenceIds(rs, evidence)
BY DEF Row

\* What a consequence says of the ledger and of the decision.
LEMMA ConsequenceOf ==
    ASSUME NEW decision, NEW seen, NEW status, NEW layers
    PROVE  /\ Consequence(decision, seen, status, layers) = "mute" =>
                /\ status \notin {"unresolved", "suspended", "attributed"}
                /\ decision.outcome = "quarantine"
           /\ Consequence(decision, seen, status, layers) = "release_candidate" =>
                status = "attributed"
BY DEF Consequence, Desired

\* The ledger tells what stands.
LEMMA LedgerStep ==
    ASSUME TypeOK, LedgerOK, [Next]_vars
    PROVE  LedgerOK'
BY DEF TypeOK, Statuses, LedgerOK, Next, vars, store, run, Publish, Tick, ChangeElsewhere, EditOverrides,
   Resume, Start, ReadPage, NoteSubjects, MoveCursor, EndDiscovery, Collect, NoSubject, Preview,
   Apply, Release, Begin, Withdraw, Request, Finish, Crash, Stop, Enforce

\* What is enforced was proposed.
LEMMA EnforcedStep ==
    ASSUME TypeOK, EnforcedOK, PolicyOK, [Next]_vars
    PROVE  EnforcedOK'
<1>1. CASE Apply
  <2>1. PICK rs \in Policies :
          \/ Proposes(rs, remote) = "mute" /\ Enforce("apply", rs, Proposed(rs, remote))
          \/ Stop
    BY <1>1 DEF Apply
  <2>2. Proposed(rs, remote).action = Proposes(rs, remote)
    BY RowActs DEF Proposed, Proposes
  <2> QED
    BY <2>1, <2>2 DEF Enforce, Stop, EnforcedOK
<1>2. CASE Release
  <2>1. /\ Proposes(saved.rules, remote) = "release_candidate"
        /\ Proposed(saved.rules, remote) = saved.row
        /\ Enforce("release", saved.rules, saved.row)
    BY <1>2 DEF Release
  <2>2. Proposed(saved.rules, remote).action = Proposes(saved.rules, remote)
    BY RowActs DEF Proposed, Proposes
  <2> QED
    BY <2>1, <2>2 DEF Enforce, EnforcedOK
<1> QED
  BY <1>1, <1>2 DEF EnforcedOK, Next, vars, store, run, Publish, Tick, ChangeElsewhere, EditOverrides,
     Resume, Start, ReadPage, NoteSubjects, MoveCursor, EndDiscovery, Collect, NoSubject, Preview,
     Begin, Withdraw, Request, Finish, Crash, Stop

\* A run decides on what it has collected.
LEMMA CoverageStep ==
    ASSUME TypeOK, ServedOK, CoverageOK, [Next]_vars
    PROVE  CoverageOK'
<1>1. CASE Collect
  <2>1. PICK read \in [Providers -> 0 .. MaxEvents] :
          /\ \A p \in Providers : read[p] <= Len(published[p])
          /\ \A p \in coverage' : read[p] = Len(published[p])
          /\ observations' = observations \cup
               UNION {Range(SubSeq(published[p], 1, read[p])) : p \in Providers}
    BY <1>1 DEF Collect
  <2>2. /\ world' = UNION {Everything(p) : p \in Providers} /\ coverage' \subseteq Providers
        /\ published' = published
    BY <1>1 DEF Collect
  <2>3. (observations \subseteq UNION {Everything(p) : p \in Providers})'
    BY StoredWasSaid
  <2>4. UNION {Everything(p) : p \in Providers}' = UNION {Everything(p) : p \in Providers}
    BY <2>2 DEF Everything
  <2>5. ASSUME NEW e \in world', e.provider \in coverage' PROVE e \in observations'
    <3>1. PICK p \in Providers : e \in Everything(p)
      BY <2>2
    <3>2. PICK k \in DOMAIN published[p] : e = published[p][k]
      BY <3>1 DEF Everything, Range
    <3>3. e.provider = p
      BY <3>2 DEF ServedOK
    <3>4. /\ published[p] \in Seq(Observations) /\ read[p] = Len(published[p])
      BY <2>1, <2>5, <3>3 DEF ServedOK
    <3>5. /\ k \in DOMAIN SubSeq(published[p], 1, read[p])
          /\ SubSeq(published[p], 1, read[p])[k] = e
      BY <3>2, <3>4
    <3>6. e \in Range(SubSeq(published[p], 1, read[p]))
      BY <3>5 DEF Range
    <3> QED
      BY <2>1, <3>6
  <2> QED
    BY <2>2, <2>3, <2>4, <2>5 DEF CoverageOK
<1>2. CASE /\ UNCHANGED <<observations, world, coverage>>
           /\ pc' \in {"evaluate", "write"} => pc \in {"evaluate", "write"}
  BY <1>2 DEF CoverageOK
<1>3. CASE pc' \notin {"evaluate", "write"}
  BY <1>3 DEF CoverageOK
<1> QED
  BY <1>1, <1>2, <1>3 DEF Next, vars, store, run, Publish, Tick, ChangeElsewhere, EditOverrides,
     Resume, Start, ReadPage, NoteSubjects, MoveCursor, EndDiscovery, NoSubject, Preview,
     Apply, Release, Begin, Withdraw, Request, Finish, Crash, Stop, Enforce

\* The row that is enforced rests on what the run has kept.
LEMMA PolicyStep ==
    ASSUME TypeOK, PolicyOK, [Next]_vars
    PROVE  PolicyOK'
<1>1. CASE Preview
  <2>1. \A r, w : [rules |-> r, row |-> w].rules = r
    OBVIOUS
  <2>2. pc' = "idle"
    BY <1>1 DEF Preview, Stop
  <2>3. saved' = saved \/ \E rs \in Policies : saved' = [rules |-> rs, row |-> Proposed(rs, remote)]
    BY <1>1 DEF Preview
  <2>4. saved' = NoReceipt \/ saved'.rules \in Policies
    BY <2>1, <2>3 DEF PolicyOK
  <2> QED
    BY <2>2, <2>4 DEF PolicyOK
<1>2. CASE Apply
  <2>1. PICK rs \in Policies :
          Enforce("apply", rs, Proposed(rs, remote)) \/ Stop
    BY <1>2 DEF Apply
  <2>2. saved' = saved /\ observations' = observations
    BY <1>2 DEF Apply
  <2>3. Proposed(rs, remote).ids = EvidenceIds(rs, Evidence)
    BY RowActs DEF Proposed
  <2>4. CASE Stop
    BY <2>2, <2>4 DEF Stop, PolicyOK
  <2>5. CASE Enforce("apply", rs, Proposed(rs, remote))
    <3>1. rules' = rs /\ row' = Proposed(rs, remote) /\ coverage' = coverage
      BY <2>5 DEF Enforce
    <3>2. Evidence' = Evidence
      BY <2>2, <3>1 DEF Evidence
    <3>3. EvidenceIds(rules, Evidence)' = EvidenceIds(rules', Evidence')
      BY DEF EvidenceIds, Newest
    <3> QED
      BY <2>2, <2>3, <3>1, <3>2, <3>3 DEF PolicyOK
  <2> QED
    BY <2>1, <2>4, <2>5
<1>3. CASE Release
  <2>1. /\ saved # NoReceipt /\ Proposed(saved.rules, remote) = saved.row
        /\ Enforce("release", saved.rules, saved.row) /\ saved' = saved /\ observations' = observations
    BY <1>3 DEF Release, store
  <2>2. Proposed(saved.rules, remote).ids = EvidenceIds(saved.rules, Evidence)
    BY RowActs DEF Proposed
  <2>3. rules' = saved.rules /\ row' = saved.row /\ coverage' = coverage
    BY <2>1 DEF Enforce
  <2>4. Evidence' = Evidence
    BY <2>1, <2>3 DEF Evidence
  <2>5. EvidenceIds(rules, Evidence)' = EvidenceIds(rules', Evidence')
    BY DEF EvidenceIds, Newest
  <2>6. saved.rules \in Policies
    BY <2>1 DEF PolicyOK
  <2> QED
    BY <2>1, <2>2, <2>3, <2>4, <2>5, <2>6 DEF PolicyOK
<1>4. CASE saved' = saved /\ pc' # "write"
  BY <1>4 DEF PolicyOK
<1>5. CASE UNCHANGED <<saved, pc, rules, row, observations, coverage>>
  <2>1. Evidence' = Evidence
    BY <1>5 DEF Evidence
  <2>2. EvidenceIds(rules, Evidence)' = EvidenceIds(rules', Evidence')
    BY DEF EvidenceIds, Newest
  <2> QED
    BY <1>5, <2>1, <2>2 DEF PolicyOK
<1> QED
  BY <1>1, <1>2, <1>3, <1>4, <1>5 DEF Next, vars, store, run, Publish, Tick, ChangeElsewhere,
     EditOverrides, Resume, Start, ReadPage, NoteSubjects, MoveCursor, EndDiscovery, Collect,
     NoSubject, Begin, Withdraw, Request, Finish, Crash, Stop

\* The inductive invariant.
LEMMA CliInit == Init => CliInv
<1> SUFFICES ASSUME Init PROVE CliInv
  OBVIOUS
<1>1. \A p \in Providers : published[p] = <<>>
  BY DEF Init
<1>2. TypeOK
  <2>1. Len(published[Stream]) = 0 /\ \A p \in Providers : Everything(p) = {}
    BY <1>1, StreamAssumption DEF Everything, Range
  <2>2. clock \in Times /\ cursor \in 0 .. Len(published[Stream])
    BY <2>1, BoundsAssumption DEF Init, Times
  <2>3. remote \in Remotes /\ ledger \in Statuses
    BY DEF Init, Remotes, Statuses
  <2> QED
    BY <2>1, <2>2, <2>3 DEF Init, TypeOK
<1>3. ServedOK
  <2>1. <<>> \in Seq(Observations)
    OBVIOUS
  <2> QED
    BY <1>1, <2>1 DEF Init, ServedOK
<1> QED
  BY <1>2, <1>3 DEF Init, CliInv, PageOK, NoGap, LedgerOK, EnforcedOK, CoverageOK, PolicyOK

LEMMA CliStep == CliInv /\ [Next]_vars => CliInv'
BY ServedStep, PageStep, TypeStep, LedgerStep, EnforcedStep, CoverageStep, PolicyStep DEF CliInv

\* Every variable of a run and of the store keeps its type: only what a publisher served is
\* stored, and the cursor stays within what discovery's publisher has served.
THEOREM RunIsTyped == Spec => []TypeOK
BY CliInit, CliStep, PTL DEF Spec, CliInv

\* Wherever a run is killed between its commits, every label before the stored cursor is kept
\* and its subject known: evidence, subject and cursor are committed in that order.
THEOREM NothingSkipped == Spec => []NoGap
BY CliInit, CliStep, PTL DEF Spec, CliInv

\* A mute is begun only where none of the runtime's may stand, and a release only of a mute
\* that is its own: the ledger row, `unresolved' while a request is out, is what bars the rest.
THEOREM RequestsTakeTurns == Spec => RequestsAlternate
<1>1. CliInv /\ [Next]_vars =>
        [(pc = "write" /\ pc' = "request") =>
           standing = IF mode = "apply" THEN "none" ELSE "ours"]_vars
  <2> SUFFICES ASSUME CliInv, Next, pc = "write", pc' = "request"
               PROVE  standing = IF mode = "apply" THEN "none" ELSE "ours"
    BY DEF vars, run
  <2>1. Begin
    BY DEF Next, store, run, Publish, Tick, ChangeElsewhere,
       EditOverrides, Resume, Start, ReadPage, NoteSubjects, MoveCursor, EndDiscovery, Collect,
       NoSubject, Preview, Apply, Release, Withdraw, Request, Finish, Crash, Stop, Enforce
  <2>2. Reconsidered(remote) = row
    BY <2>1 DEF Begin
  <2>3. row.action = Consequence(Evaluate(rules, [observations |-> row.ids, complete |-> coverage], clock),
                                 remote, ledger, row.layers)
    BY <2>2, RowActs DEF Reconsidered
  <2>4. row.action = "mute" \/ row.action = "release_candidate"
    BY DEF CliInv, EnforcedOK
  <2>5. (mode = "apply" => ledger \in {"none", "untracked", "released"})
        /\ (mode # "apply" => ledger = "attributed")
    BY <2>3, ConsequenceOf DEF CliInv, EnforcedOK, TypeOK, Statuses
  <2> QED
    BY <2>5 DEF CliInv, LedgerOK
<1> QED
  BY <1>1, CliInit, CliStep, PTL DEF Spec, RequestsAlternate

-----------------------------------------------------------------------------
(* Predicates.                                                             *)

Truths == {"true", "false", "unknown"}

\* What node i says in either sense, its children saying f.
NodeOf(f, when, evidence, now, current, ignoreExpiry, i) ==
    [negative \in BOOLEAN |->
       IF when[i].op = "label"
       THEN Leaf(when[i], evidence, now, negative \/ current, ignoreExpiry)
       ELSE LET sense == IF when[i].op = "not" THEN ~negative ELSE negative
            IN  Combine(when[i].op, {f[c][sense] : c \in when[i].children})]

\* A node read in either sense, and its children so read.
Asserted(node) == node[FALSE]
Denied(node) == node[TRUE]
AssertedBelow(f, node) == {Asserted(f[c]) : c \in node.children}
DeniedBelow(f, node) == {Denied(f[c]) : c \in node.children}

LeafAsserted(leaf, evidence, now, current, ignoreExpiry) ==
    Leaf(leaf, evidence, now, FALSE \/ current, ignoreExpiry)
LeafDenied(leaf, evidence, now, current, ignoreExpiry) ==
    Leaf(leaf, evidence, now, TRUE \/ current, ignoreExpiry)

\* A node of a predicate says one of the three truths in either sense.
LEMMA SensesOf ==
    ASSUME NEW node \in [BOOLEAN -> Truths]
    PROVE  Asserted(node) \in Truths /\ Denied(node) \in Truths
BY DEF Asserted, Denied

\* A leaf is strict where it is denied; `not' reads its child in the other sense.
LEMMA NodeSays ==
    ASSUME NEW f, NEW when, NEW i, NEW evidence, NEW now, NEW current, NEW ignoreExpiry,
           NEW node, node = NodeOf(f, when, evidence, now, current, ignoreExpiry, i)
    PROVE  /\ when[i].op = "label" =>
                /\ Asserted(node) = LeafAsserted(when[i], evidence, now, current, ignoreExpiry)
                /\ Denied(node) = LeafDenied(when[i], evidence, now, current, ignoreExpiry)
           /\ when[i].op = "not" =>
                /\ Asserted(node) = Combine("not", DeniedBelow(f, when[i]))
                /\ Denied(node) = Combine("not", AssertedBelow(f, when[i]))
           /\ when[i].op \notin {"label", "not"} =>
                /\ Asserted(node) = Combine(when[i].op, AssertedBelow(f, when[i]))
                /\ Denied(node) = Combine(when[i].op, DeniedBelow(f, when[i]))
<1>1. (~FALSE) = TRUE /\ (~TRUE) = FALSE
  OBVIOUS
<1>2. CASE when[i].op = "label"
  <2>1. \A m \in BOOLEAN : node[m] = Leaf(when[i], evidence, now, m \/ current, ignoreExpiry)
    BY <1>2 DEF NodeOf
  <2>2. /\ Asserted(node) = LeafAsserted(when[i], evidence, now, current, ignoreExpiry)
        /\ Denied(node) = LeafDenied(when[i], evidence, now, current, ignoreExpiry)
    BY <2>1, Zenon DEF Asserted, Denied, LeafAsserted, LeafDenied
  <2> QED
    BY <1>2, <2>2
<1>3. CASE when[i].op = "not"
  <2>1. \A m \in BOOLEAN : node[m] = Combine("not", {f[c][~m] : c \in when[i].children})
    BY <1>3 DEF NodeOf
  <2>2. /\ Asserted(node) = Combine("not", {f[c][~FALSE] : c \in when[i].children})
        /\ Denied(node) = Combine("not", {f[c][~TRUE] : c \in when[i].children})
    BY <2>1, Zenon DEF Asserted, Denied
  <2>3. /\ {f[c][~FALSE] : c \in when[i].children} = DeniedBelow(f, when[i])
        /\ {f[c][~TRUE] : c \in when[i].children} = AssertedBelow(f, when[i])
    BY <1>1, Zenon DEF Asserted, Denied, AssertedBelow, DeniedBelow
  <2> QED
    BY <1>3, <2>2, <2>3
<1>4. CASE when[i].op \notin {"label", "not"}
  <2>1. \A m \in BOOLEAN : node[m] = Combine(when[i].op, {f[c][m] : c \in when[i].children})
    BY <1>4 DEF NodeOf
  <2>2. /\ Asserted(node) = Combine(when[i].op, AssertedBelow(f, when[i]))
        /\ Denied(node) = Combine(when[i].op, DeniedBelow(f, when[i]))
    BY <2>1, Zenon DEF Asserted, Denied, AssertedBelow, DeniedBelow
  <2> QED
    BY <1>4, <2>2
<1> QED
  BY <1>2, <1>3, <1>4

LEMMA NodeIsTruth ==
    ASSUME NEW f, NEW when, IsPredicate(when), NEW i \in DOMAIN when,
           NEW evidence, NEW now, NEW current, NEW ignoreExpiry
    PROVE  NodeOf(f, when, evidence, now, current, ignoreExpiry, i) \in [BOOLEAN -> Truths]
<1>1. when[i].op \in {"label", "all", "any", "not"}
  BY DEF IsPredicate
<1>2. \A strict : Leaf(when[i], evidence, now, strict, ignoreExpiry) \in Truths
  BY DEF Leaf, Truths
<1>3. \A values : when[i].op # "label" => Combine(when[i].op, values) \in Truths
  BY <1>1 DEF Combine, Truths
<1>4. CASE when[i].op = "label"
  <2>1. ASSUME NEW m \in BOOLEAN PROVE Leaf(when[i], evidence, now, m \/ current, ignoreExpiry) \in Truths
    BY <1>2
  <2> QED
    BY <1>4, <2>1 DEF NodeOf
<1>5. CASE when[i].op # "label"
  <2> DEFINE s(m) == IF when[i].op = "not" THEN ~m ELSE m
  <2>1. ASSUME NEW m \in BOOLEAN PROVE Combine(when[i].op, {f[c][s(m)] : c \in when[i].children}) \in Truths
    BY <1>3, <1>5
  <2>2. NodeOf(f, when, evidence, now, current, ignoreExpiry, i)
          = [m \in BOOLEAN |-> Combine(when[i].op, {f[c][s(m)] : c \in when[i].children})]
    BY <1>5 DEF NodeOf
  <2> QED
    BY <2>1, <2>2
<1> QED
  BY <1>4, <1>5

\* A node is decided by the nodes before it.
LEMMA NodeIsSame ==
    ASSUME NEW when, IsPredicate(when), NEW i \in DOMAIN when,
           NEW evidence, NEW now, NEW current, NEW ignoreExpiry
    PROVE  \A f, g : (\A c \in 1 .. (i - 1) : f[c] = g[c]) =>
             NodeOf(f, when, evidence, now, current, ignoreExpiry, i)
               = NodeOf(g, when, evidence, now, current, ignoreExpiry, i)
<1> SUFFICES ASSUME NEW f, NEW g, \A c \in 1 .. (i - 1) : f[c] = g[c]
             PROVE  NodeOf(f, when, evidence, now, current, ignoreExpiry, i)
                      = NodeOf(g, when, evidence, now, current, ignoreExpiry, i)
  OBVIOUS
<1>1. CASE when[i].op = "label"
  BY <1>1 DEF NodeOf
<1>2. CASE when[i].op # "label"
  <2>1. when[i].children \subseteq 1 .. (i - 1)
    BY <1>2 DEF IsPredicate
  <2>2. \A c \in when[i].children : f[c] = g[c]
    BY <2>1
  <2> DEFINE s(m) == IF when[i].op = "not" THEN ~m ELSE m
  <2>3. /\ NodeOf(f, when, evidence, now, current, ignoreExpiry, i)
            = [m \in BOOLEAN |-> Combine(when[i].op, {f[c][s(m)] : c \in when[i].children})]
        /\ NodeOf(g, when, evidence, now, current, ignoreExpiry, i)
            = [m \in BOOLEAN |-> Combine(when[i].op, {g[c][s(m)] : c \in when[i].children})]
    BY <1>2 DEF NodeOf
  <2>4. ASSUME NEW m \in BOOLEAN
        PROVE  {f[c][s(m)] : c \in when[i].children} = {g[c][s(m)] : c \in when[i].children}
    <3> HIDE DEF s
    <3> QED
      BY <2>2
  <2> HIDE DEF s
  <2>5. ASSUME NEW m \in BOOLEAN
        PROVE  Combine(when[i].op, {f[c][s(m)] : c \in when[i].children})
             = Combine(when[i].op, {g[c][s(m)] : c \in when[i].children})
    BY <2>4
  <2> QED
    BY <2>3, <2>5
<1> QED
  BY <1>1, <1>2

-----------------------------------------------------------------------------
\* Induction over a set, the form the provers can use.
LEMMA Induction ==
    ASSUME NEW S, 0 \in S, \A n \in Nat : n \in S => n + 1 \in S
    PROVE  \A n \in Nat : n \in S
<1> SUFFICES ASSUME Nat \ S # {} PROVE FALSE
  OBVIOUS
<1>1. PICK m \in Nat \ S : \A y \in Nat \ S : ~ (<<y, m>> \in OpToRel(<, Nat))
  <2>1. Nat \ S \subseteq Nat
    OBVIOUS
  <2> QED
    BY <2>1, NatLessThanWellFounded, WFMin
<1>2. \A y \in Nat : y < m => <<y, m>> \in OpToRel(<, Nat)
  BY DEF OpToRel
<1>3. m # 0 /\ m - 1 \in Nat /\ m - 1 < m /\ (m - 1) + 1 = m
  OBVIOUS
<1>4. m - 1 \in S
  BY <1>1, <1>2, <1>3
<1> QED
  BY <1>3, <1>4

LEMMA PrefixInduction ==
    ASSUME NEW n \in Nat, NEW S, 0 \in S, \A k \in 1..n : k - 1 \in S => k \in S
    PROVE  \A k \in 0..n : k \in S
<1> DEFINE T == {k \in Nat : k <= n => k \in S}
<1>1. 0 \in T
  OBVIOUS
<1>2. ASSUME NEW k \in Nat, k \in T PROVE k + 1 \in T
  <2>1. CASE k + 1 <= n
    <3>1. k + 1 \in 1..n /\ (k + 1) - 1 = k /\ k <= n
      BY <2>1
    <3> QED
      BY <1>2, <3>1
  <2> QED
    BY <2>1
<1> HIDE DEF T
<1>3. \A k \in Nat : k \in T
  BY <1>1, <1>2, Induction
<1> QED
  BY <1>3 DEF T

\* The recursive function of a predicate exists, and gives each node a truth.
IsTruth(v, when, evidence, now, current, ignoreExpiry) ==
    /\ v \in [DOMAIN when -> [BOOLEAN -> Truths]]
    /\ \A i \in DOMAIN when : v[i] = NodeOf(v, when, evidence, now, current, ignoreExpiry, i)
    /\ Truth(when, evidence, now, current, ignoreExpiry) = Asserted(v[Len(when)])

LEMMA TruthIs ==
    ASSUME NEW when, IsPredicate(when), NEW evidence, NEW now, NEW current, NEW ignoreExpiry
    PROVE  \E v : IsTruth(v, when, evidence, now, current, ignoreExpiry)
<1> DEFINE n == Len(when)
           Node(f, i) == NodeOf(f, when, evidence, now, current, ignoreExpiry, i)
           Solves(f, k) == \A i \in 1 .. k : f[i] = Node(f, i)
           S == {k \in 0 .. n : \E f \in [1 .. k -> [BOOLEAN -> Truths]] : Solves(f, k)}
           body(f) == [i \in DOMAIN when |-> Node(f, i)]
           value == CHOOSE f : f = body(f)
<1>1. n \in Nat \ {0} /\ DOMAIN when = 1 .. n
  BY DEF IsPredicate
<1>2. Truth(when, evidence, now, current, ignoreExpiry) = Asserted(value[n])
  BY Zenon DEF Truth, NodeOf, Asserted
<1>3. /\ \A i \in 1 .. n : \A f : Node(f, i) \in [BOOLEAN -> Truths]
      /\ \A i \in 1 .. n : \A f, g : (\A c \in 1 .. (i - 1) : f[c] = g[c]) => Node(f, i) = Node(g, i)
  <2>1. ASSUME NEW i \in 1 .. n, NEW f PROVE Node(f, i) \in [BOOLEAN -> Truths]
    BY <1>1, NodeIsTruth
  <2>2. ASSUME NEW i \in 1 .. n, NEW f, NEW g, \A c \in 1 .. (i - 1) : f[c] = g[c]
        PROVE  Node(f, i) = Node(g, i)
    <3>1. i \in DOMAIN when
      BY <1>1
    <3>2. (\A c \in 1 .. (i - 1) : f[c] = g[c]) => Node(f, i) = Node(g, i)
      BY <3>1, NodeIsSame
    <3> HIDE DEF Node
    <3> QED
      BY <2>2, <3>2
  <2> HIDE DEF Node
  <2> QED
    BY <2>1, <2>2
<1> HIDE DEF n, Node
<1>4. 0 \in S
  <2> DEFINE e == [j \in 1 .. 0 |-> 0]
  <2>1. e \in [1 .. 0 -> [BOOLEAN -> Truths]]
    OBVIOUS
  <2>2. Solves(e, 0)
    OBVIOUS
  <2> HIDE DEF Solves, e
  <2>3. \E f \in [1 .. 0 -> [BOOLEAN -> Truths]] : Solves(f, 0)
    BY <2>1, <2>2
  <2>4. 0 \in 0 .. n
    BY <1>1
  <2> QED
    BY <2>3, <2>4
<1>5. ASSUME NEW k \in 1 .. n, k - 1 \in S PROVE k \in S
  <2>1. PICK f \in [1 .. (k - 1) -> [BOOLEAN -> Truths]] : Solves(f, k - 1)
    BY <1>5
  <2> DEFINE g == [j \in 1 .. k |-> IF j = k THEN Node(f, k) ELSE f[j]]
  <2>2. k \in 0 .. n /\ \A j \in 1 .. k : j # k => j \in 1 .. (k - 1)
    BY <1>1
  <2>3. g \in [1 .. k -> [BOOLEAN -> Truths]]
    BY <1>3, <2>2
  <2>4. g[k] = Node(f, k) /\ \A j \in 1 .. (k - 1) : g[j] = f[j]
    BY <1>1
  <2> HIDE DEF g
  <2>5. ASSUME NEW i \in 1 .. k PROVE g[i] = Node(g, i)
    <3>1. Node(g, i) = Node(f, i)
      <4>1. i \in 1 .. n /\ 1 .. (i - 1) \subseteq 1 .. (k - 1)
        BY <1>1
      <4>2. \A c \in 1 .. (i - 1) : g[c] = f[c]
        BY <2>4, <4>1
      <4> QED
        BY <1>3, <4>1, <4>2
    <3>2. CASE i = k
      BY <2>4, <3>1, <3>2
    <3>3. CASE i # k
      BY <2>1, <2>2, <2>4, <3>1, <3>3
    <3> QED
      BY <3>2, <3>3
  <2>6. Solves(g, k)
    BY <2>5
  <2> HIDE DEF Solves
  <2> QED
    BY <2>2, <2>3, <2>6
<1> HIDE DEF S
<1>6. n \in S
  <2>1. \A k \in 0 .. n : k \in S
    BY <1>1, <1>4, <1>5, PrefixInduction
  <2> QED
    BY <1>1, <2>1
<1>7. PICK f \in [1 .. n -> [BOOLEAN -> Truths]] : Solves(f, n)
  BY <1>6 DEF S
<1>8. f = body(f)
  BY <1>1, <1>7
<1>9. value = body(value)
  <2> HIDE DEF body
  <2> QED
    BY <1>8
<1> HIDE DEF value
<1>10. \A i \in DOMAIN when : value[i] = Node(value, i)
  BY <1>9
<1>11. value \in [DOMAIN when -> [BOOLEAN -> Truths]]
  BY <1>1, <1>3, <1>9
<1> QED
  BY <1>2, <1>10, <1>11 DEF Node, n, IsTruth

-----------------------------------------------------------------------------
\* Evidence a has the last word of a publisher that it takes for complete.
Agrees(node, a, b) ==
    node.source \in a.complete =>
        node.source \in b.complete /\ Newest(node, a.observations) = Newest(node, b.observations)

\* A leaf that says yes says so whatever else was published; so does one that says no
\* where its absence would justify something.
LEMMA LeafKept ==
    ASSUME NEW node, NEW a, NEW b, Agrees(node, a, b), NEW now, NEW current, NEW ignoreExpiry
    PROVE  /\ LeafAsserted(node, a, now, current, ignoreExpiry) = "true" =>
                LeafAsserted(node, b, now, current, ignoreExpiry) = "true"
           /\ LeafDenied(node, a, now, current, ignoreExpiry) = "true" =>
                LeafDenied(node, b, now, current, ignoreExpiry) = "true"
           /\ LeafDenied(node, a, now, current, ignoreExpiry) = "false" =>
                LeafDenied(node, b, now, current, ignoreExpiry) = "false"
           /\ current /\ LeafAsserted(node, a, now, current, ignoreExpiry) = "false" =>
                LeafAsserted(node, b, now, current, ignoreExpiry) = "false"
<1>1. CASE node.source \in a.complete
  BY <1>1 DEF Agrees, Leaf, LeafAsserted, LeafDenied
<1>2. CASE node.source \notin a.complete
  BY <1>2 DEF Leaf, LeafAsserted, LeafDenied
<1> QED
  BY <1>1, <1>2

\* An operator keeps what it says when its children keep what they say.
LEMMA CombineTrue ==
    ASSUME NEW X \in SUBSET Truths, NEW Y \in SUBSET Truths,
           X \subseteq {"true"} => Y \subseteq {"true"}, "true" \in X => "true" \in Y
    PROVE  /\ Combine("all", X) = "true" => Combine("all", Y) = "true"
           /\ Combine("any", X) = "true" => Combine("any", Y) = "true"
           /\ Combine("not", X) = "false" => Combine("not", Y) = "false"
BY DEF Combine, Truths

LEMMA CombineFalse ==
    ASSUME NEW X \in SUBSET Truths, NEW Y \in SUBSET Truths,
           X \subseteq {"false"} => Y \subseteq {"false"}, "false" \in X => "false" \in Y
    PROVE  /\ Combine("all", X) = "false" => Combine("all", Y) = "false"
           /\ Combine("any", X) = "false" => Combine("any", Y) = "false"
           /\ Combine("not", X) = "true" => Combine("not", Y) = "true"
BY DEF Combine, Truths

\* What node v says is still said by w: yes where it is asserted, no where it is denied, and
\* both in either sense where the predicate must be current.
Keeps(v, w, current) ==
    /\ Asserted(v) = "true" => Asserted(w) = "true"
    /\ Denied(v) = "false" => Denied(w) = "false"
    /\ current => /\ Asserted(v) = "false" => Asserted(w) = "false"
                  /\ Denied(v) = "true" => Denied(w) = "true"

LEMMA NodeKept ==
    ASSUME NEW when, IsPredicate(when), NEW a, NEW b, NEW now, NEW current, NEW ignoreExpiry,
           NEW v \in [DOMAIN when -> [BOOLEAN -> Truths]], NEW w \in [DOMAIN when -> [BOOLEAN -> Truths]],
           NEW k \in DOMAIN when,
           when[k].op = "label" => Agrees(when[k], a, b),
           v[k] = NodeOf(v, when, a, now, current, ignoreExpiry, k),
           w[k] = NodeOf(w, when, b, now, current, ignoreExpiry, k),
           \A c \in 1 .. (k - 1) : Keeps(v[c], w[c], current)
    PROVE  Keeps(v[k], w[k], current)
<1>1. when[k].op \in {"label", "all", "any", "not"}
  BY DEF IsPredicate
<1>2. CASE when[k].op = "label"
  <2>1. /\ Asserted(v[k]) = LeafAsserted(when[k], a, now, current, ignoreExpiry)
        /\ Denied(v[k]) = LeafDenied(when[k], a, now, current, ignoreExpiry)
        /\ Asserted(w[k]) = LeafAsserted(when[k], b, now, current, ignoreExpiry)
        /\ Denied(w[k]) = LeafDenied(when[k], b, now, current, ignoreExpiry)
    BY <1>2, NodeSays
  <2> QED
    BY <1>2, <2>1, LeafKept DEF Keeps
<1>3. CASE when[k].op # "label"
  <2> DEFINE C == when[k].children
             vf == AssertedBelow(v, when[k])
             vt == DeniedBelow(v, when[k])
             wf == AssertedBelow(w, when[k])
             wt == DeniedBelow(w, when[k])
  <2>1. C \subseteq 1 .. (k - 1) /\ C \subseteq DOMAIN when
    BY <1>3 DEF IsPredicate
  <2>2. vf \in SUBSET Truths /\ vt \in SUBSET Truths /\ wf \in SUBSET Truths /\ wt \in SUBSET Truths
    BY <2>1, SensesOf DEF AssertedBelow, DeniedBelow
  <2>3. /\ vf \subseteq {"true"} => wf \subseteq {"true"}
        /\ "true" \in vf => "true" \in wf
        /\ vt \subseteq {"false"} => wt \subseteq {"false"}
        /\ "false" \in vt => "false" \in wt
    BY <2>1 DEF Keeps, AssertedBelow, DeniedBelow
  <2>4. current => /\ vf \subseteq {"false"} => wf \subseteq {"false"}
                   /\ "false" \in vf => "false" \in wf
                   /\ vt \subseteq {"true"} => wt \subseteq {"true"}
                   /\ "true" \in vt => "true" \in wt
    BY <2>1 DEF Keeps, AssertedBelow, DeniedBelow
  <2>5. CASE when[k].op = "not"
    <3>1. /\ Asserted(v[k]) = Combine("not", vt) /\ Denied(v[k]) = Combine("not", vf)
          /\ Asserted(w[k]) = Combine("not", wt) /\ Denied(w[k]) = Combine("not", wf)
      BY <2>5, NodeSays
    <3> HIDE DEF C, vf, vt, wf, wt
    <3>2. Asserted(v[k]) = "true" => Asserted(w[k]) = "true"
      BY <2>2, <2>3, <3>1, CombineFalse
    <3>3. Denied(v[k]) = "false" => Denied(w[k]) = "false"
      BY <2>2, <2>3, <3>1, CombineTrue
    <3>4. ASSUME current PROVE Asserted(v[k]) = "false" => Asserted(w[k]) = "false"
      BY <2>2, <2>4, <3>1, <3>4, CombineTrue
    <3>5. ASSUME current PROVE Denied(v[k]) = "true" => Denied(w[k]) = "true"
      BY <2>2, <2>4, <3>1, <3>5, CombineFalse
    <3> QED
      BY <3>2, <3>3, <3>4, <3>5 DEF Keeps
  <2>6. CASE when[k].op = "all"
    <3>1. /\ Asserted(v[k]) = Combine("all", vf) /\ Denied(v[k]) = Combine("all", vt)
          /\ Asserted(w[k]) = Combine("all", wf) /\ Denied(w[k]) = Combine("all", wt)
      BY <2>6, NodeSays
    <3> HIDE DEF C, vf, vt, wf, wt
    <3>2. Asserted(v[k]) = "true" => Asserted(w[k]) = "true"
      BY <2>2, <2>3, <3>1, CombineTrue
    <3>3. Denied(v[k]) = "false" => Denied(w[k]) = "false"
      BY <2>2, <2>3, <3>1, CombineFalse
    <3>4. ASSUME current PROVE Asserted(v[k]) = "false" => Asserted(w[k]) = "false"
      BY <2>2, <2>4, <3>1, <3>4, CombineFalse
    <3>5. ASSUME current PROVE Denied(v[k]) = "true" => Denied(w[k]) = "true"
      BY <2>2, <2>4, <3>1, <3>5, CombineTrue
    <3> QED
      BY <3>2, <3>3, <3>4, <3>5 DEF Keeps
  <2>7. CASE when[k].op = "any"
    <3>1. /\ Asserted(v[k]) = Combine("any", vf) /\ Denied(v[k]) = Combine("any", vt)
          /\ Asserted(w[k]) = Combine("any", wf) /\ Denied(w[k]) = Combine("any", wt)
      BY <2>7, NodeSays
    <3> HIDE DEF C, vf, vt, wf, wt
    <3>2. Asserted(v[k]) = "true" => Asserted(w[k]) = "true"
      BY <2>2, <2>3, <3>1, CombineTrue
    <3>3. Denied(v[k]) = "false" => Denied(w[k]) = "false"
      BY <2>2, <2>3, <3>1, CombineFalse
    <3>4. ASSUME current PROVE Asserted(v[k]) = "false" => Asserted(w[k]) = "false"
      BY <2>2, <2>4, <3>1, <3>4, CombineFalse
    <3>5. ASSUME current PROVE Denied(v[k]) = "true" => Denied(w[k]) = "true"
      BY <2>2, <2>4, <3>1, <3>5, CombineTrue
    <3> QED
      BY <3>2, <3>3, <3>4, <3>5 DEF Keeps
  <2> QED
    BY <1>1, <1>3, <2>5, <2>6, <2>7
<1> QED
  BY <1>2, <1>3

\* A predicate that holds on evidence that knows its own gaps holds on all there was;
\* one that must be current and fails on it, fails.
LEMMA TruthKept ==
    ASSUME NEW when, IsPredicate(when), NEW a, NEW b, NEW now, NEW current, NEW ignoreExpiry,
           \A i \in DOMAIN when : when[i].op = "label" => Agrees(when[i], a, b)
    PROVE  /\ Truth(when, a, now, current, ignoreExpiry) \in Truths /\ Truth(when, b, now, current, ignoreExpiry) \in Truths
           /\ Truth(when, a, now, current, ignoreExpiry) = "true" => Truth(when, b, now, current, ignoreExpiry) = "true"
           /\ current /\ Truth(when, a, now, current, ignoreExpiry) = "false" =>
                Truth(when, b, now, current, ignoreExpiry) = "false"
<1>1. PICK v : IsTruth(v, when, a, now, current, ignoreExpiry)
  BY TruthIs
<1>2. PICK w : IsTruth(w, when, b, now, current, ignoreExpiry)
  BY TruthIs
<1> DEFINE n == Len(when)
           S == {k \in 0 .. n : \A i \in 1 .. k : Keeps(v[i], w[i], current)}
<1>3. n \in Nat \ {0} /\ DOMAIN when = 1 .. n
  BY DEF IsPredicate
<1> HIDE DEF n
<1>4. 0 \in S
  BY <1>3
<1>5. ASSUME NEW k \in 1 .. n, k - 1 \in S PROVE k \in S
  <2>1. \A i \in 1 .. (k - 1) : Keeps(v[i], w[i], current)
    BY <1>5
  <2>2. k \in DOMAIN when /\ k \in 0 .. n
    BY <1>3
  <2>3. Keeps(v[k], w[k], current)
    <3>1. /\ v \in [DOMAIN when -> [BOOLEAN -> Truths]] /\ w \in [DOMAIN when -> [BOOLEAN -> Truths]]
          /\ v[k] = NodeOf(v, when, a, now, current, ignoreExpiry, k)
          /\ w[k] = NodeOf(w, when, b, now, current, ignoreExpiry, k)
      BY <1>1, <1>2, <2>2 DEF IsTruth
    <3> QED
      BY <2>1, <2>2, <3>1, NodeKept
  <2>4. \A i \in 1 .. k : i = k \/ i \in 1 .. (k - 1)
    BY <1>3
  <2> QED
    BY <2>1, <2>2, <2>3, <2>4
<1> HIDE DEF S
<1>6. n \in S
  <2>1. \A k \in 0 .. n : k \in S
    BY <1>3, <1>4, <1>5, PrefixInduction
  <2> QED
    BY <1>3, <2>1
<1>7. Keeps(v[n], w[n], current)
  BY <1>3, <1>6 DEF S
<1>8. n \in DOMAIN when
  BY <1>3
<1>9. Asserted(v[n]) \in Truths /\ Asserted(w[n]) \in Truths
  BY <1>1, <1>2, <1>8, SensesOf DEF IsTruth
<1> QED
  BY <1>1, <1>2, <1>7, <1>9 DEF Keeps, n, IsTruth

-----------------------------------------------------------------------------
(* Decisions.                                                              *)

\* The leaves of a policy.
LeavesOf(rs) == {node \in UNION {Range(r.when) : r \in rs} : node.op = "label"}

\* A rule that matches keeps matching; an allow rule that fails keeps failing.
LEMMA MatchKept ==
    ASSUME NEW rs, IsPolicy(rs), NEW rule \in rs, NEW a, NEW b, NEW now,
           \A node \in LeavesOf(rs) : Agrees(node, a, b)
    PROVE  /\ Matches(rule, a, now) \in Truths /\ Matches(rule, b, now) \in Truths
           /\ Matches(rule, a, now) = "true" => Matches(rule, b, now) = "true"
           /\ rule.disposition = "allow" /\ Matches(rule, a, now) = "false" =>
                Matches(rule, b, now) = "false"
<1>1. PICK current : current = (rule.disposition = "allow")
  OBVIOUS
<1>2. PICK ignoreExpiry : ignoreExpiry = FALSE
  OBVIOUS
<1>3. /\ Matches(rule, a, now) = Truth(rule.when, a, now, current, ignoreExpiry)
      /\ Matches(rule, b, now) = Truth(rule.when, b, now, current, ignoreExpiry)
  BY <1>1, <1>2, Zenon DEF Matches
<1>4. IsPredicate(rule.when)
  BY DEF IsPolicy
<1>5. \A i \in DOMAIN rule.when : rule.when[i].op = "label" => Agrees(rule.when[i], a, b)
  BY DEF LeavesOf, Range
<1>6. rule.disposition = "allow" => current
  BY <1>1
<1>7. /\ Truth(rule.when, a, now, current, ignoreExpiry) \in Truths
      /\ Truth(rule.when, b, now, current, ignoreExpiry) \in Truths
      /\ Truth(rule.when, a, now, current, ignoreExpiry) = "true" =>
           Truth(rule.when, b, now, current, ignoreExpiry) = "true"
      /\ current /\ Truth(rule.when, a, now, current, ignoreExpiry) = "false" =>
           Truth(rule.when, b, now, current, ignoreExpiry) = "false"
  BY <1>4, <1>5, TruthKept
<1> QED
  BY <1>3, <1>6, <1>7, Zenon

\* What each basis takes.
LEMMA BasisIs ==
    ASSUME NEW rs, IsPolicy(rs), NEW e, NEW now, \A r \in rs : Matches(r, e, now) \in Truths
    PROVE  /\ Evaluate(rs, e, now).basis = "allow_rule" <=>
                \E r \in rs : r.disposition = "allow" /\ Matches(r, e, now) = "true"
           /\ Evaluate(rs, e, now).basis = "quarantine_rule" <=>
                /\ \A r \in rs : r.disposition = "allow" => Matches(r, e, now) = "false"
                /\ \E r \in rs : r.disposition = "quarantine" /\ Matches(r, e, now) = "true"
           /\ Evaluate(rs, e, now).outcome = "quarantine" <=> Evaluate(rs, e, now).basis = "quarantine_rule"
<1> DEFINE matches == [r \in rs |-> Matches(r, e, now)]
           RanksOf(t) == {Rank[r.disposition] : r \in {s \in rs : matches[s] = t}}
           winner == Max(RanksOf("true") \cup {0})
           uncertain == \E k \in RanksOf("unknown") : k > winner
<1>1. /\ Evaluate(rs, e, now).outcome = IF uncertain THEN "indeterminate"
                     ELSE IF winner = 1 THEN "quarantine"
                     ELSE "no_quarantine_justification"
      /\ Evaluate(rs, e, now).basis = IF uncertain THEN "unresolved_precedence"
                     ELSE IF winner = 2 THEN "allow_rule"
                     ELSE IF winner = 1 THEN "quarantine_rule"
                     ELSE "no_matching_justification"
  BY DEF Evaluate
<1>2. Rank["neutral"] = 0 /\ Rank["quarantine"] = 1 /\ Rank["allow"] = 2 /\ DOMAIN Rank = {"neutral", "quarantine", "allow"}
  BY DEF Rank
<1>3. \A r \in rs : r.disposition \in {"neutral", "quarantine", "allow"}
  BY <1>2 DEF IsPolicy
<1>4. \A t, k : k \in RanksOf(t) <=> \E r \in rs : Matches(r, e, now) = t /\ k = Rank[r.disposition]
  OBVIOUS
<1> DEFINE Some(d, t) == \E r \in rs : r.disposition = d /\ Matches(r, e, now) = t
<1>5. ASSUME NEW t
      PROVE  /\ RanksOf(t) \subseteq {0, 1, 2}
             /\ 2 \in RanksOf(t) <=> Some("allow", t)
             /\ 1 \in RanksOf(t) <=> Some("quarantine", t)
  <2> HIDE DEF RanksOf
  <2>1. \A k \in RanksOf(t) : \E r \in rs : Matches(r, e, now) = t /\ k = Rank[r.disposition]
    BY <1>4
  <2>2. RanksOf(t) \subseteq {0, 1, 2}
    BY <1>2, <1>3, <2>1
  <2>3. 2 \in RanksOf(t) <=> Some("allow", t)
    BY <1>2, <1>3, <1>4
  <2>4. 1 \in RanksOf(t) <=> Some("quarantine", t)
    BY <1>2, <1>3, <1>4
  <2> QED
    BY <2>2, <2>3, <2>4
<1> HIDE DEF RanksOf
<1>6. winner \in RanksOf("true") \cup {0} /\ \A k \in RanksOf("true") \cup {0} : winner >= k
  <2> DEFINE R == RanksOf("true") \cup {0}
  <2>1. R \subseteq {0, 1, 2} /\ 0 \in R
    BY <1>5
  <2> HIDE DEF R
  <2>2. \E x \in R : \A y \in R : x >= y
    <3>1. CASE 2 \in R
      BY <2>1, <3>1
    <3>2. CASE 2 \notin R /\ 1 \in R
      BY <2>1, <3>2
    <3>3. CASE 2 \notin R /\ 1 \notin R
      BY <2>1, <3>3
    <3> QED
      BY <3>1, <3>2, <3>3
  <2>3. Max(R) \in R /\ \A y \in R : Max(R) >= y
    BY <2>2 DEF Max
  <2> QED
    BY <2>3 DEF R
<1> HIDE DEF winner
<1>7. /\ winner \in {0, 1, 2}
      /\ winner = 2 <=> Some("allow", "true")
      /\ winner = 1 <=> ~Some("allow", "true") /\ Some("quarantine", "true")
  <2>1. winner \in {0, 1, 2}
    BY <1>5, <1>6
  <2>2. winner = 2 <=> 2 \in RanksOf("true")
    BY <1>5, <1>6
  <2>3. winner = 1 <=> 2 \notin RanksOf("true") /\ 1 \in RanksOf("true")
    BY <1>5, <1>6
  <2> QED
    BY <1>5, <2>1, <2>2, <2>3
<1>8. /\ winner = 2 => ~uncertain
      /\ winner = 1 => (uncertain <=> Some("allow", "unknown"))
  <2>1. RanksOf("unknown") \subseteq {0, 1, 2} /\ (2 \in RanksOf("unknown") <=> Some("allow", "unknown"))
    BY <1>5
  <2> HIDE DEF Some
  <2> QED
    BY <2>1
<1>9. ~Some("allow", "true") /\ ~Some("allow", "unknown") <=>
        \A r \in rs : r.disposition = "allow" => Matches(r, e, now) = "false"
  BY DEF Truths
<1> HIDE DEF uncertain
<1>10. Evaluate(rs, e, now).basis = "allow_rule" <=> Some("allow", "true")
  <2> HIDE DEF Some
  <2> QED
    BY <1>1, <1>7, <1>8
<1>11. Evaluate(rs, e, now).basis = "quarantine_rule" <=>
         ~Some("allow", "true") /\ ~Some("allow", "unknown") /\ Some("quarantine", "true")
  <2> HIDE DEF Some
  <2> QED
    BY <1>1, <1>7, <1>8
<1>12. Evaluate(rs, e, now).outcome = "quarantine" <=> Evaluate(rs, e, now).basis = "quarantine_rule"
  BY <1>1, <1>7
<1> QED
  BY <1>9, <1>10, <1>11, <1>12

\* A decision that justifies something, made on evidence that knows its own gaps, stands.
LEMMA DecisionKept ==
    ASSUME NEW rs, IsPolicy(rs), NEW a, NEW b, NEW now,
           \A node \in LeavesOf(rs) : Agrees(node, a, b),
           Evaluate(rs, a, now).basis \in {"quarantine_rule", "allow_rule"}
    PROVE  Evaluate(rs, b, now).basis = Evaluate(rs, a, now).basis
<1>1. ASSUME NEW r \in rs
      PROVE  /\ Matches(r, a, now) \in Truths /\ Matches(r, b, now) \in Truths
             /\ Matches(r, a, now) = "true" => Matches(r, b, now) = "true"
             /\ r.disposition = "allow" /\ Matches(r, a, now) = "false" => Matches(r, b, now) = "false"
  BY MatchKept
<1>2. CASE Evaluate(rs, a, now).basis = "allow_rule"
  <2>1. \E r \in rs : r.disposition = "allow" /\ Matches(r, a, now) = "true"
    BY <1>1, <1>2, BasisIs
  <2>2. \E r \in rs : r.disposition = "allow" /\ Matches(r, b, now) = "true"
    BY <1>1, <2>1
  <2> QED
    BY <1>1, <1>2, <2>2, BasisIs
<1>3. CASE Evaluate(rs, a, now).basis = "quarantine_rule"
  <2>1. /\ \A r \in rs : r.disposition = "allow" => Matches(r, a, now) = "false"
        /\ \E r \in rs : r.disposition = "quarantine" /\ Matches(r, a, now) = "true"
    BY <1>1, <1>3, BasisIs
  <2>2. /\ \A r \in rs : r.disposition = "allow" => Matches(r, b, now) = "false"
        /\ \E r \in rs : r.disposition = "quarantine" /\ Matches(r, b, now) = "true"
    BY <1>1, <2>1
  <2> QED
    BY <1>1, <1>3, <2>2, BasisIs
<1> QED
  BY <1>2, <1>3

\* The ids of the leaves' evidence hold the last word on each leaf.
LEMMA IdsSuffice ==
    ASSUME NEW rs, NEW node \in LeavesOf(rs), NEW e
    PROVE  Newest(node, EvidenceIds(rs, e)) = Newest(node, e.observations)
<1> DEFINE ids == EvidenceIds(rs, e)
           N == Newest(node, e.observations)
<1>1. \A x : x \in ids <=> \E leaf \in LeavesOf(rs) : x \in Newest(leaf, e.observations)
  BY DEF EvidenceIds, LeavesOf
<1>2. \A x \in N : /\ x \in ids /\ x.provider = node.source /\ x.property = node.label
                   /\ \A y \in N : y.at <= x.at
  BY <1>1 DEF Newest
<1>3. \A x \in ids : x.provider = node.source /\ x.property = node.label => x \in N
  BY <1>1 DEF Newest
<1> HIDE DEF ids, N
<1>4. Newest(node, ids) = N
  BY <1>2, <1>3 DEF Newest
<1> QED
  BY <1>4 DEF ids, N

\* Where the run takes a publisher for complete it has that publisher's last word.
LEMMA EvidenceAgrees ==
    ASSUME TypeOK, CoverageOK, pc \in {"evaluate", "write"}, NEW node
    PROVE  Agrees(node, Evidence, Completed)
<1>1. ASSUME node.source \in coverage
      PROVE  node.source \in Providers /\ Newest(node, observations) = Newest(node, world)
  <2>1. node.source \in Providers
    BY <1>1 DEF TypeOK
  <2>2. {e \in observations : e.provider = node.source /\ e.property = node.label}
          = {e \in world : e.provider = node.source /\ e.property = node.label}
    BY <1>1 DEF CoverageOK
  <2> QED
    BY <2>1, <2>2 DEF Newest
<1> QED
  BY <1>1 DEF Agrees, Evidence, Completed

\* So a run's decision is earned, and a mute it begins has standing.
LEMMA EarnedNow ==
    ASSUME CliInv
    PROVE  DecisionIsEarned
<1> SUFFICES ASSUME pc = "evaluate", NEW rs \in Policies,
                    Evaluate(rs, Evidence, clock).basis \in {"quarantine_rule", "allow_rule"}
             PROVE  Evaluate(rs, Completed, clock).basis = Evaluate(rs, Evidence, clock).basis
  BY DEF DecisionIsEarned
<1>1. \A node : Agrees(node, Evidence, Completed)
  BY EvidenceAgrees DEF CliInv
<1>2. IsPolicy(rs)
  BY PoliciesAssumption
<1> QED
  BY <1>1, <1>2, DecisionKept

LEMMA StandingNow ==
    ASSUME CliInv, Begin, mode = "apply"
    PROVE  Evaluate(rules, Completed, clock).outcome = "quarantine"
<1> DEFINE ev == [observations |-> row.ids, complete |-> coverage]
<1>1. /\ pc = "write" /\ Row(rules, ev, remote, ledger, row.layers) = row
  BY DEF Begin, Reconsidered
<1>2. row.action = "mute"
  BY <1>1 DEF CliInv, EnforcedOK
<1>3. rules \in Policies /\ row.ids = EvidenceIds(rules, Evidence)
  BY <1>1 DEF CliInv, PolicyOK
<1>4. IsPolicy(rules)
  BY <1>3, PoliciesAssumption
<1>5. \A node \in LeavesOf(rules) : Agrees(node, ev, Completed)
  <2> SUFFICES ASSUME NEW node \in LeavesOf(rules) PROVE Agrees(node, ev, Completed)
    OBVIOUS
  <2>1. Agrees(node, Evidence, Completed)
    BY <1>1, EvidenceAgrees DEF CliInv
  <2>2. Newest(node, row.ids) = Newest(node, Evidence.observations)
    BY <1>3, IdsSuffice
  <2> QED
    BY <2>1, <2>2 DEF Agrees, Evidence
<1> HIDE DEF ev
<1>6. Evaluate(rules, ev, clock).outcome = "quarantine"
  <2> DEFINE decision == Evaluate(rules, ev, clock)
  <2>1. Row(rules, ev, remote, ledger, row.layers).action
          = Consequence(decision, remote, ledger, row.layers)
    BY DEF Row
  <2> HIDE DEF decision
  <2>2. Consequence(decision, remote, ledger, row.layers) = "mute"
    BY <1>1, <1>2, <2>1
  <2>3. Desired(decision, row.layers) = "quarantine"
    BY <2>2 DEF Consequence
  <2>4. decision.outcome = "quarantine"
    BY <2>3 DEF Desired
  <2> QED
    BY <2>4 DEF decision
<1>7. \A r \in rules : Matches(r, ev, clock) \in Truths /\ Matches(r, Completed, clock) \in Truths
  BY <1>4, <1>5, MatchKept
<1>8. Evaluate(rules, ev, clock).basis = "quarantine_rule"
  BY <1>4, <1>6, <1>7, BasisIs
<1>9. Evaluate(rules, Completed, clock).basis = "quarantine_rule"
  BY <1>4, <1>5, <1>8, DecisionKept
<1> QED
  BY <1>4, <1>7, <1>9, BasisIs

\* A quarantine, or an allow that prevents one, decided on partial answers is the decision of
\* everything published: a silence justifies nothing unless its publisher answered completely.
THEOREM DecisionsAreEarned == Spec => []DecisionIsEarned
<1>1. CliInv => DecisionIsEarned
  BY EarnedNow
<1> QED
  BY <1>1, CliInit, CliStep, PTL DEF Spec

\* When a mute's attempt is journaled the quarantine still stands on all that was published
\* when the run collected, at the time of the write: execution evaluates the receipt's evidence
\* again, and evidence that has lapsed since the preview withdraws the mute.
THEOREM MutesHaveStanding == Spec => MuteHasStanding
<1>1. CliInv /\ [Next]_vars =>
        [(pc = "write" /\ pc' = "request" /\ mode = "apply") =>
           Evaluate(rules, Completed, clock).outcome = "quarantine"]_vars
  <2> SUFFICES ASSUME CliInv, [Next]_vars, pc = "write", pc' = "request", mode = "apply"
               PROVE  Evaluate(rules, Completed, clock).outcome = "quarantine"
    OBVIOUS
  <2>1. Begin
    BY DEF Next, vars, store, run, Publish, Tick, ChangeElsewhere, EditOverrides, Resume, Start,
       ReadPage, NoteSubjects, MoveCursor, EndDiscovery, Collect, NoSubject, Preview, Apply, Release,
       Withdraw, Request, Finish, Crash, Stop, Enforce
  <2> QED
    BY <2>1, StandingNow
<1> QED
  BY <1>1, CliInit, CliStep, PTL DEF Spec, MuteHasStanding
=============================================================================
