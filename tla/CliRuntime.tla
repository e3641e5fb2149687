----------------------------- MODULE CliRuntime -----------------------------
(***************************************************************************)
(* The command line runtime for one subject: label discovery with a stored *)
(* cursor, bounded collection, evaluation, and the journaled mute or       *)
(* reviewed release (src/src/atproto_acl/runtime.py, labels.py, store.py,  *)
(* adapters.py, cli.py).  A run holds the state lock from its first read to*)
(* its last write and may be killed between any two of its commits, while  *)
(* publishers go on publishing, time passes and the person uses other      *)
(* clients.  A page of discovery holds one label; labels of other subjects *)
(* only move the cursor and are left out, and so are the evaluation time   *)
(* that --now gives a preview, fixtures, which never enforce, and the pins.*)
(***************************************************************************)
EXTENDS PolicyEval

CONSTANTS
    Providers,    \* publishers the policies name
    Stream,       \* the one whose labels discover accounts
    Labels,       \* Labels[p]: the labels p uses
    Policies,     \* sets of rules a run may be given
    Layers,       \* override layers the person edits
    MaxEvents,    \* bound on the labels published
    MaxTime       \* bound on the clock

ASSUME StreamAssumption == Stream \in Providers
ASSUME LabelsAssumption == DOMAIN Labels = Providers
ASSUME PoliciesAssumption == \A rs \in Policies : IsPolicy(rs)
ASSUME LayersAssumption == Layers \subseteq {"exempt", "allow", "keep_muted"}
ASSUME BoundsAssumption == MaxEvents \in Nat /\ MaxTime \in Nat

VARIABLES
    clock,
    published,    \* published[p]: what p's endpoint serves, in its order
    remote,       \* the subject's mute as the network has it
    observations, \* durable: observations about the subject
    cursor,       \* durable: position of discovery in published[Stream]
    discovered,   \* durable: discovery has seen the subject
    overrides,    \* durable: override layers that hold the subject
    ledger,       \* durable: status of the subject
    saved,        \* durable: one saved receipt, the one a person may review
    pc,           \* where the run is
    mode,         \* what it was asked to do
    rules,        \* the policy it was given
    coverage,     \* publishers that answered completely
    row,          \* the row of its receipt
    world,        \* history: all that was published when it collected
    standing      \* history: mutes of this runtime, as far as it can know

store == <<observations, cursor, discovered, overrides, ledger, saved>>
run   == <<pc, mode, rules, coverage, row, world>>
vars  == <<clock, published, remote, store, run, standing>>

Times == 0 .. MaxTime
Remotes == {"none", "direct", "other"}   \* other: scoped, by a list, or blocked
Statuses == {"none", "untracked", "unresolved", "attributed", "released", "suspended"}
NoRow == [action |-> "no row"]
NoReceipt == [rules |-> {}, row |-> NoRow]

Observations ==
    [provider : Providers, property : UNION Range(Labels), at : Times,
     expires : Times \cup {Never}, negated : BOOLEAN]

\* What the publishers have said by now, and that with every answer complete.
Everything(p) == Range(published[p])
Completed == [observations |-> world, complete |-> Providers]
-----------------------------------------------------------------------------
(* The publishers, time and the person's other clients.                    *)

\* A label may be dated ahead, and expires a unit after its date or never; the
\* expiry of a negation is not looked at.
Publish ==
    \E p \in Providers, at \in {clock, clock + 1} \cap Times, negated \in BOOLEAN :
      \E l \in Labels[p], expires \in {Never} \cup ({at + 1} \cap Times) :
        /\ negated => expires = Never
        /\ Cardinality(UNION {{q} \X DOMAIN published[q] : q \in Providers}) < MaxEvents
        /\ published' = [published EXCEPT ![p] = Append(@,
             [provider |-> p, property |-> l, at |-> at, expires |-> expires,
              negated |-> negated])]
        /\ UNCHANGED <<clock, remote, store, run, standing>>

Tick ==
    /\ clock < MaxTime
    /\ clock' = clock + 1
    /\ UNCHANGED <<published, remote, store, run, standing>>

ChangeElsewhere ==
    /\ remote' \in Remotes \ {remote}
    /\ UNCHANGED <<clock, published, store, run, standing>>
-----------------------------------------------------------------------------
(* The other commands, which also take the state lock.                     *)

EditOverrides ==
    /\ pc = "idle"
    /\ \E layer \in Layers :
         overrides' = IF layer \in overrides THEN overrides \ {layer}
                                             ELSE overrides \cup {layer}
    /\ UNCHANGED <<clock, published, remote, observations, cursor, discovered,
                   ledger, saved, run, standing>>

\* The person acknowledges what is not known; nothing is adopted as the runtime's.
Resume ==
    /\ pc = "idle"
    /\ ledger \in {"suspended", "unresolved"}
    /\ ledger' = "untracked"
    /\ standing' = "none"
    /\ UNCHANGED <<clock, published, remote, observations, cursor, discovered,
                   overrides, saved, run>>
-----------------------------------------------------------------------------
(* A run: discovery of one page after another.                             *)

Start ==
    /\ pc = "idle"
    /\ pc' = "page"
    /\ UNCHANGED <<clock, published, remote, store, mode, rules, coverage, row,
                   world, standing>>

\* The process is gone, and with it the lock and all it had not stored.
Stop ==
    /\ pc' = "idle" /\ mode' = "none" /\ rules' = {}
    /\ coverage' = {} /\ world' = {} /\ row' = NoRow

Crash ==
    /\ pc # "idle"
    /\ Stop
    /\ UNCHANGED <<clock, published, remote, store, standing>>

\* Variant: the cursor is stored with the evidence, before the subjects.
ReadPageMovesCursor ==
    /\ pc = "page"
    /\ cursor < Len(published[Stream])
    /\ observations' = observations \cup {published[Stream][cursor + 1]}
    /\ cursor' = cursor + 1
    /\ pc' = "subjects"
    /\ UNCHANGED <<clock, published, remote, discovered, overrides, ledger,
                   saved, mode, rules, coverage, row, world, standing>>

\* The page after the cursor is read, verified and kept.
ReadPage ==
    /\ pc = "page"
    /\ cursor < Len(published[Stream])
    /\ observations' = observations \cup {published[Stream][cursor + 1]}
    /\ pc' = "subjects"
    /\ UNCHANGED <<clock, published, remote, cursor, discovered, overrides, ledger,
                   saved, mode, rules, coverage, row, world, standing>>

NoteSubjects ==
    /\ pc = "subjects"
    /\ discovered' = TRUE
    /\ pc' = "cursor"
    /\ UNCHANGED <<clock, published, remote, observations, cursor, overrides, ledger,
                   saved, mode, rules, coverage, row, world, standing>>

\* The endpoint gives a cursor, which is kept, or the page was its last.
MoveCursor ==
    /\ pc = "cursor"
    /\ \/ cursor' = cursor + 1 /\ pc' \in {"page", "collect"}
       \/ cursor' = cursor /\ pc' = "collect"
    /\ UNCHANGED <<clock, published, remote, observations, discovered, overrides,
                   ledger, saved, mode, rules, coverage, row, world, standing>>

\* An empty page, a failed read, an unverified label or a spent budget.
EndDiscovery ==
    /\ pc = "page"
    /\ pc' = "collect"
    /\ UNCHANGED <<clock, published, remote, store, mode, rules, coverage,
                   row, world, standing>>
-----------------------------------------------------------------------------
(* Collection and the proposal.                                            *)

InScope == discovered \/ ledger # "none" \/ overrides # {}

\* Every publisher answers to its last page, or a prefix is all that is read of
\* it.  One after the other is asked, but what one says after its turn is said after
\* the collection, and a run killed between two leaves what a failed read leaves.
Collect ==
    /\ pc = "collect"
    /\ InScope
    /\ coverage' \in SUBSET Providers
    /\ \E read \in [Providers -> 0 .. MaxEvents] :
         /\ \A p \in Providers : read[p] <= Len(published[p])
         /\ \A p \in coverage' : read[p] = Len(published[p])
         /\ observations' = observations \cup
              UNION {Range(SubSeq(published[p], 1, read[p])) : p \in Providers}
    /\ world' = UNION {Everything(p) : p \in Providers}
    /\ pc' = "evaluate"
    /\ UNCHANGED <<clock, published, remote, cursor, discovered, overrides, ledger,
                   saved, mode, rules, row, standing>>

\* Without a ledger or an override a run has no subject if discovery has not seen
\* it or cannot reach its publisher, and then it has nothing to decide.
NoSubject ==
    /\ pc = "collect"
    /\ ledger = "none" /\ overrides = {}
    /\ Stop
    /\ UNCHANGED <<clock, published, remote, store, standing>>

Evidence == [observations |-> observations, complete |-> coverage]

\* What is wanted for the subject: an explicit allow overrules the decision.
Desired(decision, layers) ==
    IF "allow" \in layers THEN "no_quarantine_justification" ELSE decision.outcome

\* Variant: a mute of the runtime's that the person has lifted is set again.
ConsequenceRemutes(decision, seen, status, layers) ==
    IF "exempt" \in layers \/ status \in {"unresolved", "suspended"} THEN "none"
    ELSE IF seen = "none" /\ Desired(decision, layers) = "quarantine" THEN "mute"
    ELSE "none"

\* The consequence: an exemption or an open question about an earlier write leaves
\* the subject alone, and a mute of the runtime's that the person has changed
\* suspends it.
Consequence(decision, seen, status, layers) ==
    IF "exempt" \in layers \/ status \in {"unresolved", "suspended"} THEN "none"
    ELSE IF seen = "unknown"
         THEN IF Desired(decision, layers) = "quarantine" THEN "observe_required" ELSE "none"
    ELSE IF status = "attributed" /\ seen # "direct" THEN "suspend"
    ELSE IF seen = "none" /\ Desired(decision, layers) = "quarantine" THEN "mute"
    ELSE IF /\ status = "attributed" /\ "keep_muted" \notin layers
            /\ Desired(decision, layers) = "no_quarantine_justification"
         THEN "release_candidate"
    ELSE "none"

\* A row of a receipt: what its fingerprint is a digest of.
Row(rs, evidence, seen, status, layers) ==
    LET decision == Evaluate(rs, evidence, clock)
    IN  [action  |-> Consequence(decision, seen, status, layers),
         desired |-> Desired(decision, layers),
         basis   |-> IF "allow" \in layers THEN "explicit_allow_override"
                                           ELSE decision.basis,
         seen    |-> seen,
         status  |-> status,
         layers  |-> layers,
         results |-> Results(rs, evidence, clock),
         ids     |-> EvidenceIds(rs, evidence)]

\* What a run with policy rs proposes, seeing the subject's mute as seen.
Proposes(rs, seen) ==
    Consequence(Evaluate(rs, Evidence, clock), seen, ledger, overrides)
Proposed(rs, seen) == Row(rs, Evidence, seen, ledger, overrides)

\* The run goes on to enforce the row.
Enforce(asks, rs, new) ==
    /\ pc' = "write" /\ mode' = asks /\ rules' = rs /\ row' = new
    /\ UNCHANGED <<coverage, world>>

\* What a run was asked to do and its policy are given at its start and first
\* looked at here: the network is asked for the subject's state, the rules are
\* evaluated and the receipt is saved.  Only a receipt with a release candidate is
\* of use later, and none comes of an observation that fails; a person names this
\* one or the one kept before.
Preview ==
    /\ pc = "evaluate"
    /\ \/ saved' = saved
       \/ \E rs \in Policies :
            /\ Proposes(rs, remote) = "release_candidate"
            /\ saved' = [rules |-> rs, row |-> Proposed(rs, remote)]
    /\ Stop
    /\ UNCHANGED <<clock, published, remote, observations, cursor, discovered,
                   overrides, ledger, standing>>

\* An apply enforces a mute, or records that the person has changed its mute.
Apply ==
    /\ pc = "evaluate"
    /\ \E rs \in Policies :
         \/ /\ Proposes(rs, remote) = "mute"
            /\ Enforce("apply", rs, Proposed(rs, remote))
            /\ ledger' = ledger
         \/ /\ Proposes(rs, remote) = "suspend"
            /\ ledger' = "suspended"
            /\ Stop
    /\ UNCHANGED <<clock, published, remote, observations, cursor, discovered,
                   overrides, saved, standing>>

\* A release enforces a reviewed candidate: the same row in a saved receipt of the
\* same policy.  Otherwise it is refused, and leaves what a preview leaves.
Release ==
    /\ pc = "evaluate"
    /\ saved # NoReceipt
    /\ Proposes(saved.rules, remote) = "release_candidate"
    /\ Proposed(saved.rules, remote) = saved.row
    /\ Enforce("release", saved.rules, saved.row)
    /\ UNCHANGED <<clock, published, remote, store, standing>>
-----------------------------------------------------------------------------
(* Execution.                                                              *)

\* Variant: only the subject is observed again; the decision is the preview's.
ReconsideredSubject(seen) == [row EXCEPT !.seen = seen, !.status = ledger]

\* What the receipt's own evidence says at the time of the write.
Reconsidered(seen) ==
    Row(rules, [observations |-> row.ids, complete |-> coverage], seen, ledger, row.layers)

\* The subject is observed and evaluated again; if nothing differs, the attempt
\* is journaled before the request leaves.
Begin ==
    /\ pc = "write"
    /\ Reconsidered(remote) = row
    /\ ledger' = "unresolved"
    /\ standing' = "maybe"
    /\ pc' = "request"
    /\ UNCHANGED <<clock, published, remote, observations, cursor, discovered,
                   overrides, saved, mode, rules, coverage, row, world>>

\* Something differs, or the observation fails.
Withdraw ==
    /\ pc = "write"
    /\ \E seen \in {remote, "unknown"} :
         /\ Reconsidered(seen) # row
         /\ ledger' = IF seen # row.seen /\ ledger = "attributed" THEN "suspended" ELSE ledger
    /\ Stop
    /\ UNCHANGED <<clock, published, remote, observations, cursor, discovered,
                   overrides, saved, standing>>

\* The network carries out the request, or not, and the answer comes, or not.
Request ==
    /\ pc = "request"
    /\ \/ /\ remote' \in IF mode = "apply" THEN {"direct"}
                         ELSE {"none"} \cup ({remote} \cap {"other"})
          /\ pc' \in {"confirm", "doubt"}
       \/ remote' = remote /\ pc' = "doubt"
    /\ UNCHANGED <<clock, published, store, mode, rules, coverage, row, world,
                   standing>>

Finish ==
    /\ pc \in {"confirm", "doubt"}
    /\ IF pc = "doubt"
       THEN ledger' = "unresolved" /\ standing' = standing
       ELSE IF mode = "apply"
       THEN ledger' = "attributed" /\ standing' = "ours"
       ELSE ledger' = "released" /\ standing' = "none"
    /\ Stop
    /\ UNCHANGED <<clock, published, remote, observations, cursor, discovered,
                   overrides, saved>>
-----------------------------------------------------------------------------
Init ==
    /\ clock = 0 /\ published = [p \in Providers |-> <<>>] /\ remote \in {"none", "other"}
    /\ observations = {} /\ cursor = 0 /\ discovered = FALSE
    /\ overrides = {} /\ ledger = "none" /\ saved = NoReceipt
    /\ pc = "idle" /\ mode = "none" /\ rules = {}
    /\ coverage = {} /\ row = NoRow /\ world = {}
    /\ standing = "none"

Next ==
    \/ Publish \/ Tick \/ ChangeElsewhere \/ EditOverrides \/ Resume
    \/ Start \/ ReadPage \/ NoteSubjects \/ MoveCursor \/ EndDiscovery
    \/ Collect \/ NoSubject \/ Preview \/ Apply \/ Release
    \/ Begin \/ Withdraw \/ Request \/ Finish \/ Crash

Spec == Init /\ [][Next]_vars
-----------------------------------------------------------------------------
\* Every variable has its type, the row and its observations included.
TypeOK ==
    /\ clock \in Times
    /\ \A p \in Providers : Everything(p) \subseteq Observations
    /\ remote \in Remotes
    /\ observations \subseteq UNION {Everything(p) : p \in Providers}
    /\ cursor \in 0 .. Len(published[Stream])
    /\ discovered \in BOOLEAN /\ overrides \subseteq Layers /\ ledger \in Statuses
    /\ pc \in {"idle", "page", "subjects", "cursor", "collect", "evaluate", "write", "request",
               "confirm", "doubt"}
    /\ mode \in {"none", "apply", "release"}
    /\ coverage \subseteq Providers
    /\ world \subseteq UNION {Everything(p) : p \in Providers}
    /\ standing \in {"none", "maybe", "ours"}

\* What justifies a consequence is earned: a quarantine, or an allow that prevents
\* one, decided on partial answers and old observations is the decision that
\* everything published by then, completely answered, would have given.
DecisionIsEarned ==
    pc = "evaluate" =>
       \A rs \in Policies :
         LET decision == Evaluate(rs, Evidence, clock)
         IN  decision.basis \in {"quarantine_rule", "allow_rule"} =>
               Evaluate(rs, Completed, clock).basis = decision.basis

\* A mute is begun only while the subject's quarantine still stands: no evidence
\* that was current at the preview and has lapsed since carries the write.
MuteHasStanding ==
    [][(pc = "write" /\ pc' = "request" /\ mode = "apply") =>
         Evaluate(rules, Completed, clock).outcome = "quarantine"]_vars

\* The runtime's requests for a subject alternate: a second mute is never begun
\* over one that may stand, nor a release of what is not its own, whatever the
\* person changes elsewhere, until a resume gives up the earlier one.
RequestsAlternate ==
    [][(pc = "write" /\ pc' = "request") =>
         standing = IF mode = "apply" THEN "none" ELSE "ours"]_vars

\* Nothing is lost behind the cursor: all labels before it are kept and their
\* subject is known, wherever a run was killed.
NoGap ==
    \A k \in 1 .. cursor : published[Stream][k] \in observations /\ discovered
=============================================================================
