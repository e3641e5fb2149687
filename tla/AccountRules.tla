---------------------------- MODULE AccountRules ----------------------------
(***************************************************************************)
(* The account-specific rules of one account (web/src/service.ts): a       *)
(* revisioned row in the application database is the authority, and the    *)
(* overrides in the account's engine database are its projection.  Every   *)
(* request first reads the rules and repairs a missing projection; changes *)
(* are optimistic on the revision; an import replaces the whole set.       *)
(*                                                                         *)
(* All engine work goes through the bridge, so the module is composed with *)
(* Bridge: a request makes its calls under its own name, waits for them    *)
(* between its steps, and several requests of the web process and one of   *)
(* the worker process are in flight together.  A rule set stands for its   *)
(* hash; handles, which no hash covers, are left out.                      *)
(***************************************************************************)
EXTENDS Integers, FiniteSets

CONSTANTS
    Did,                        \* the account
    WebRequests, WorkerRequests,
    Entries,                    \* the possible rules: a kind and a subject each
    Operations,                 \* the requests explored
    Uploads, Inherited,         \* the rule sets imported, and those an old engine holds
    ConcurrencyGlobal, ConcurrencyPerDid, QueueDepth, FreeLease,
    MaxChanges                  \* bound on changes, imports and crashes together

Requests  == WebRequests \union WorkerRequests
Processes == {"web", "worker"}
ProcOf    == [r \in Requests |-> IF r \in WebRequests THEN "web" ELSE "worker"]
KeyOf     == [r \in Requests |-> Did]

ASSUME AccountRulesAssumption ==
    /\ IsFiniteSet(Requests) /\ IsFiniteSet(Entries)
    /\ Uploads \subseteq SUBSET Entries /\ Inherited \subseteq SUBSET Entries
    /\ ConcurrencyGlobal \in Nat \ {0} /\ ConcurrencyPerDid \in Nat \ {0}
    /\ QueueDepth \in Nat /\ MaxChanges \in Nat
    /\ FreeLease # Did
    /\ Operations \subseteq {"context", "put", "drop", "draft"}

VARIABLES
    phase, queue, active, activeByKey, draining, lease, token,
    row,        \* account_rule_sets: NoRow, or the rules and what is projected
    mirror,     \* the overrides in the engine database
    req,        \* what each request is doing
    done,       \* the running calls whose child has done its work
    orphans,    \* the rules children of a dead process may still write
    draft,      \* the import draft, with the rules its page compared with
    answer,     \* the rules just handed to a preview, NoAnswer in every other step
    acked,      \* the latest change answered as saved after its own projection
    overslept,  \* a process stood before its next queued call when the other's child ended
    changes     \* bound on the exploration

Dids == {Did}
SystemKeys == {}
B == INSTANCE Bridge WITH Calls <- Requests

bridgeVars == <<phase, queue, active, activeByKey, draining, lease, token>>
ruleVars   == <<row, mirror, draft>>
vars == <<bridgeVars, ruleVars, req, done, orphans, answer, acked, overslept, changes>>

Rules  == SUBSET Entries
NoRow  == [rev |-> 0, rules |-> {}, projected |-> 0, image |-> {}]
\* A change whose projection failed earlier.
Left(rules) == [rev |-> 2, rules |-> rules, projected |-> 0, image |-> {}]
NoAnswer == [to |-> "nobody", rules |-> {}, rev |-> 0]
Closed == [open |-> FALSE, before |-> {}, rules |-> {}]

Replacing == {"projecting", "wrote", "imported"}       \* waits for replaceOverrides
Step == {"idle", "listing", "checking", "previewing"} \union Replacing
Op   == {"context", "put", "drop", "draft", "import"}
Idle == [step |-> "idle", op |-> "context", arg |-> {}, rules |-> {}, rev |-> 0]

TypeOK ==
    /\ B!TypeOK
    /\ row \in [rev : Nat, rules : Rules, projected : Nat, image : Rules]
    /\ mirror \in Rules
    /\ req \in [Requests -> [step : Step, op : Op, arg : Rules, rules : Rules, rev : Nat]]
    /\ done \in SUBSET Requests /\ orphans \in SUBSET Rules
    /\ draft \in [open : BOOLEAN, before : Rules, rules : Rules]
    /\ answer \in [to : Requests \union {"nobody"}, rules : Rules, rev : Nat]
    /\ acked \in Nat /\ overslept \in BOOLEAN
    /\ changes \in 0..MaxChanges
    /\ \A r \in Requests : phase[r] # "idle" => req[r].step # "idle"

Init ==
    /\ B!Init
    /\ mirror \in Inherited                     \* an engine older than the row,
    /\ row \in {NoRow} \union {Left(rules) : rules \in Uploads}   \* or out of step
    /\ req = [r \in Requests |-> Idle]
    /\ done = {} /\ orphans = {}
    /\ draft = Closed /\ answer = NoAnswer /\ acked = 0 /\ changes = 0
    /\ overslept = FALSE

Change == changes < MaxChanges /\ changes' = changes + 1

\* Mutant of Projected: the projection is never checked once there is a row.
ProjectedAlways(r) == r.rev # 0
\* The row is marked as projected, at this revision and with these rules.
Projected(r) == r.projected = r.rev /\ r.image = r.rules

\* Mutant of Marked: the mark is written whatever the row says by then.
MarkedBlindly(r, rev, rules) == [r EXCEPT !.projected = r.rev, !.image = r.rules]
\* The transaction of projectAccountRules: a stale projection marks nothing.
Marked(r, rev, rules) ==
    IF r.rev = rev /\ r.rules = rules
    THEN [r EXCEPT !.projected = rev, !.image = rules] ELSE r

\* The request makes an engine call and waits for it.
Call(r, record) ==
    /\ req' = [req EXCEPT ![r] = record]
    /\ done' = done \ {r}
    /\ B!Schedule(r)

\* The request is over, with a result or an error.
Over(r) ==
    /\ req' = [req EXCEPT ![r] = Idle]
    /\ done' = done \ {r}
    /\ \/ phase[r] = "idle" /\ UNCHANGED bridgeVars
       \/ phase[r] # "idle" /\ B!Return(r)

\* Mutant of Untouched: the row is not compared with what the request had read.
Unchecked(now, rev) == rev > 0
\* The condition of the optimistic update: nobody changed the rules in between.
Untouched(now, rev) == now.rev = rev

\* Request r goes on with the rules accountRules returned, the row being "now".
WithRules(r, op, arg, now, rules, rev) ==
    LET changed == IF op = "put" THEN rules \union arg ELSE rules \ arg
        held(step) == [step |-> step, op |-> op, arg |-> arg, rules |-> rules, rev |-> rev]
    IN
    \/ /\ op = "context" /\ Projected(now)               \* assertAccountRulesReady
       /\ answer' = [to |-> r, rules |-> rules, rev |-> rev]
       /\ Call(r, held("previewing")) /\ row' = now /\ UNCHANGED draft
    \/ /\ op = "context" /\ ~Projected(now)
       /\ Over(r) /\ row' = now /\ answer' = NoAnswer /\ UNCHANGED draft
    \/ /\ op \in {"put", "drop"} /\ Untouched(now, rev)
       /\ row' = [rev |-> rev + 1, rules |-> changed, projected |-> 0, image |-> {}]
       /\ Call(r, [held("wrote") EXCEPT !.rules = changed, !.rev = rev + 1])
       /\ answer' = NoAnswer /\ UNCHANGED draft
    \/ /\ op \in {"put", "drop"} /\ ~Untouched(now, rev)   \* "changed concurrently"
       /\ Over(r) /\ row' = now /\ answer' = NoAnswer /\ UNCHANGED draft
    \/ /\ op = "draft"                                    \* validate the target policy
       /\ Call(r, held("checking")) /\ row' = now /\ answer' = NoAnswer /\ UNCHANGED draft
    \/ /\ op = "draft"                                    \* there is no target policy
       /\ draft' = [open |-> TRUE, before |-> rules, rules |-> arg]
       /\ Over(r) /\ row' = now /\ answer' = NoAnswer

\* accountRules, up to its first wait or through to its caller.
Read(r, op, arg, now) ==
    LET waits(step) == /\ Call(r, [step |-> step, op |-> op, arg |-> arg,
                                   rules |-> now.rules, rev |-> now.rev])
                       /\ row' = now /\ answer' = NoAnswer /\ UNCHANGED draft
    IN
    \/ now.rev = 0 /\ waits("listing")
    \/ now.rev # 0 /\ ~Projected(now) /\ waits("projecting")
    \/ now.rev # 0 /\ Projected(now) /\ WithRules(r, op, arg, now, now.rules, now.rev)

\* A user's request, or the worker's re-plan, which only needs a context.
Ask(r, op, arg) ==
    /\ req[r].step = "idle" /\ B!Quiet(ProcOf[r])
    /\ r \in WorkerRequests => op = "context"
    /\ CASE op = "context" -> arg = {} /\ UNCHANGED changes
         [] op = "draft" -> arg \in Uploads /\ UNCHANGED changes
         [] op \in {"put", "drop"} -> Cardinality(arg) = 1 /\ Change
    /\ Read(r, op, arg, row)
    /\ UNCHANGED <<mirror, orphans, acked, overslept>>

\* confirmImport: one transaction consumes the draft and replaces the rules.
Confirm(r) ==
    /\ r \in WebRequests /\ req[r].step = "idle" /\ B!Quiet("web")
    /\ draft.open /\ draft' = Closed
    /\ row' = [rev |-> row.rev + 1, rules |-> draft.rules, projected |-> 0, image |-> {}]
    /\ Call(r, [step |-> "imported", op |-> "import", arg |-> {},
                rules |-> draft.rules, rev |-> row.rev + 1])
    /\ answer' = NoAnswer /\ Change /\ UNCHANGED <<mirror, orphans, acked, overslept>>

DraftExpires ==
    /\ draft.open /\ draft' = Closed /\ answer' = NoAnswer
    /\ UNCHANGED <<bridgeVars, row, mirror, req, done, orphans, acked, overslept, changes>>

\* The child of r does its work in one engine transaction, under the engine's lock.
\* Checking a policy and previewing leave the overrides alone.
Works(r) == req[r].step = "listing" \/ req[r].step \in Replacing
Act(r) ==
    /\ phase[r] = "running" /\ Works(r) /\ r \notin done
    /\ done' = done \union {r}
    /\ mirror' = IF req[r].step \in Replacing THEN req[r].rules ELSE mirror
    /\ req' = IF req[r].step = "listing" THEN [req EXCEPT ![r].rules = mirror] ELSE req
    /\ answer' = NoAnswer
    /\ UNCHANGED <<bridgeVars, row, orphans, draft, acked, overslept, changes>>

\* The child ends.  It may have failed, or been killed, before its work or after it.
Reply(r, ok) ==
    /\ ok /\ Works(r) => r \in done
    /\ B!Close(r, ok) /\ answer' = NoAnswer
    /\ overslept' = (overslept \/ \E p \in Processes \ {ProcOf[r]} :
                                    draining[p] /\ queue[p] # << >>)
    /\ UNCHANGED <<ruleVars, req, done, orphans, acked, changes>>

\* The process's queue moves before its requests continue.
Drain(p) ==
    /\ (\E i \in DOMAIN queue[p] : B!DrainOne(p, i)) \/ B!DrainEnds(p)
    /\ answer' = NoAnswer
    /\ UNCHANGED <<ruleVars, req, done, orphans, acked, overslept, changes>>

\* The answer of the call arrives in request r.
Resumes(r, answered) == phase[r] = answered /\ ~draining[ProcOf[r]]
Listed(r) ==
    /\ Resumes(r, "ok") /\ req[r].step = "listing"
    /\ Read(r, req[r].op, req[r].arg,
            IF row.rev # 0 THEN row                       \* INSERT OR IGNORE
            ELSE [rev |-> 1, rules |-> req[r].rules, projected |-> 1, image |-> req[r].rules])
    /\ UNCHANGED <<mirror, orphans, acked, overslept, changes>>

Repaired(r) ==
    /\ Resumes(r, "ok") /\ req[r].step = "projecting"
    /\ WithRules(r, req[r].op, req[r].arg, Marked(row, req[r].rev, req[r].rules),
                 req[r].rules, req[r].rev)
    /\ UNCHANGED <<mirror, orphans, acked, overslept, changes>>

Saved(r) ==
    /\ Resumes(r, "ok") /\ req[r].step \in {"wrote", "imported"}
    /\ row' = Marked(row, req[r].rev, req[r].rules)
    /\ acked' = IF req[r].rev > acked THEN req[r].rev ELSE acked
    /\ Over(r) /\ answer' = NoAnswer /\ UNCHANGED <<mirror, orphans, draft, overslept, changes>>

Drafted(r) ==
    /\ Resumes(r, "ok") /\ req[r].step = "checking"
    /\ draft' = [open |-> TRUE, before |-> req[r].rules, rules |-> req[r].arg]
    /\ Over(r) /\ answer' = NoAnswer /\ UNCHANGED <<row, mirror, orphans, acked, overslept, changes>>

Previewed(r) ==
    /\ Resumes(r, "ok") /\ req[r].step = "previewing"
    /\ Over(r) /\ answer' = NoAnswer /\ UNCHANGED <<ruleVars, orphans, acked, overslept, changes>>

\* An error ends the request; a change or an import keeps what it saved.
Fails(r) ==
    /\ Resumes(r, "failed")
    /\ Over(r) /\ answer' = NoAnswer /\ UNCHANGED <<ruleVars, orphans, acked, overslept, changes>>

\* A process dies.  Its children run on, without anybody to hear or to kill them.
Crash(p) ==
    LET left == {r \in Requests \ done : ProcOf[r] = p /\ phase[r] = "running"
                                         /\ req[r].step \in Replacing}
    IN
    /\ B!Crash(p) /\ Change
    /\ req' = [r \in Requests |-> IF ProcOf[r] = p THEN Idle ELSE req[r]]
    /\ done' = {r \in done : ProcOf[r] # p}
    /\ orphans' = orphans \union {req[r].rules : r \in left}
    /\ answer' = NoAnswer /\ UNCHANGED <<ruleVars, acked, overslept>>

OrphanEnds(rules, written) ==
    /\ rules \in orphans /\ orphans' = orphans \ {rules}
    /\ mirror' = IF written THEN rules ELSE mirror
    /\ answer' = NoAnswer /\ UNCHANGED <<bridgeVars, row, draft, req, done, acked, overslept, changes>>

\* Bound: the children of a dead process are gone when their leases expire.
LeaseExpires(t) ==
    /\ orphans = {} /\ B!Expire(t) /\ answer' = NoAnswer
    /\ UNCHANGED <<ruleVars, req, done, orphans, acked, overslept, changes>>

Next ==
    \/ \E r \in Requests :
          \/ \E op \in Operations, arg \in Rules : Ask(r, op, arg)
          \/ Confirm(r) \/ Act(r) \/ (\E ok \in BOOLEAN : Reply(r, ok))
          \/ Listed(r) \/ Repaired(r) \/ Saved(r) \/ Drafted(r) \/ Previewed(r) \/ Fails(r)
    \/ \E p \in Processes : Drain(p) \/ Crash(p)
    \/ \E rules \in Rules, written \in BOOLEAN : OrphanEnds(rules, written)
    \/ \E t \in B!Rows : LeaseExpires(t)
    \/ DraftExpires

Spec == Init /\ [][Next]_vars

(***************************************************************************)
(* Properties                                                              *)
(***************************************************************************)

\* What the row calls projected is what the engine holds.  With one child per account,
\* the default, projections of several requests and processes reach the engine one at a
\* time and in the order of what they project, because a queue is first in first out and
\* a lease admits one child.  The exception is a process that has given a lease back and
\* still stands before its next queued call when a child of the other one has come and
\* gone: that call then projects what it was given, however old it is by then.
MirrorFaithful == ~overslept /\ row.rev # 0 /\ Projected(row) => mirror = row.rules

\* A change answered as saved and projected is in every context a web request gets from
\* then on, and unless a process stood before its queued call as above, a context of the
\* row's revision is what the engine holds at that moment, although the request may have
\* read the row before it waited for its own projection.
AckedIsSeen ==
    [][answer' # NoAnswer /\ answer'.to \in WebRequests =>
          /\ answer'.rev >= acked
          /\ ~overslept /\ answer'.rev = row'.rev => answer'.rules = mirror']_vars

\* Every new revision changes the one rule that was asked for, or is an import of
\* the whole set: no change made in between is lost.
NoLostChange ==
    [][(row'.rev # row.rev \/ row'.rules # row.rules) /\ row.rev # 0 =>
          /\ row'.rev = row.rev + 1
          /\ \/ draft.open /\ ~draft'.open /\ row'.rules = draft.rules
             \/ Cardinality((row.rules \ row'.rules) \union (row'.rules \ row.rules)) <= 1]_vars

\* docs/portable-policy.md:28-30: an import shows the account-rule changes it makes
\* and requires their confirmation; so it replaces the rules it was compared with.
ImportAsShown ==
    [][draft.open /\ ~draft'.open /\ row'.rev # row.rev => draft.before = row.rules]_vars
=============================================================================
