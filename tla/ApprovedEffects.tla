-------------------------- MODULE ApprovedEffects --------------------------
(***************************************************************************)
(* What the hosted service promises about the rows a user approved, with   *)
(* no word of its worker, its databases or their order: an effect is one   *)
(* approved subject of one batch.  It is requested at most once, alone on  *)
(* its subject and on the ground the user was shown; what was not proved   *)
(* keeps the subject suspended; a report is final and true to what was     *)
(* done; queue and daily limits hold.  The module HostedJobs implements it.*)
(***************************************************************************)
EXTENDS Integers, FiniteSets

CONSTANTS
    Accounts, Subjects,
    Batches,                                  \* what is approved at once
    ActionBatchMax, QueuedActionsGlobal, EffectsPerDidDay, EffectsGlobalDay

VARIABLES
    asked,      \* [Batches -> who approved it, and for which kind of action]
    stage,      \* [Batches -> [Subjects -> how far the effect is]]
    report,     \* [Batches -> [Subjects -> what the user is told of it]]
    ground,     \* [Accounts -> [Subjects -> what the service may do next]]
    muted       \* [Accounts -> [Subjects -> muted on the network]]

vars == <<asked, stage, report, ground, muted>>

Kinds  == {"apply", "apply_followed", "release"}
\* "refused" is an opened effect the last gate turned back: it is never sent.
Stage  == {"untouched", "open", "refused", "sent", "proved"}
Answer == {"none", "waiting", "confirmed", "uncertain", "skipped"}
Ground == {"theirs", "ours", "suspended"}

Effects == Batches \X Subjects
Did(b)  == asked[b].did
Waiting == {e \in Effects : report[e[1]][e[2]] = "waiting"}
Sent    == {e \in Effects : stage[e[1]][e[2]] \in {"sent", "proved"}}
SentBy(d) == {e \in Sent : Did(e[1]) = d}
\* The effect has been begun and nobody knows how it ended.
Pending(b, s) == stage[b][s] \in {"open", "refused", "sent"}

\* The ground an effect needs, and the one it leaves when it is proved.
Needs(kind)  == IF kind = "release" THEN "ours" ELSE "theirs"
Leaves(kind) == IF kind = "release" THEN "theirs" ELSE "ours"

Init ==
    /\ asked \in [Batches -> [did : Accounts, kind : Kinds]]
    /\ stage = [b \in Batches |-> [s \in Subjects |-> "untouched"]]
    /\ report = [b \in Batches |-> [s \in Subjects |-> "none"]]
    /\ ground = [d \in Accounts |-> [s \in Subjects |-> "theirs"]]
    /\ muted \in [Accounts -> [Subjects -> BOOLEAN]]

Approve(b, d, kind, batch) ==
    /\ \A s \in Subjects : report[b][s] = "none"
    /\ batch # {} /\ Cardinality(batch) <= ActionBatchMax
    /\ Cardinality(Waiting) + Cardinality(batch) <= QueuedActionsGlobal
    /\ asked' = [asked EXCEPT ![b] = [did |-> d, kind |-> kind]]
    /\ report' = [report EXCEPT ![b] = [s \in Subjects |->
                                            IF s \in batch THEN "waiting" ELSE "none"]]
    /\ UNCHANGED <<stage, ground, muted>>

\* The answers an effect at this stage admits.  Skipped is what was never sent, be
\* it begun: an open effect whose journal reply was lost, or a refused one.
Admits(at, told) ==
    \/ told = "confirmed" /\ at = "proved"
    \/ told = "skipped" /\ at \notin {"sent", "proved"}
    \/ told = "uncertain" /\ at # "untouched"
\* Any number of waiting effects is answered in one step; an answer stays.
Answers ==
    /\ report' \in [Batches -> [Subjects -> Answer]]
    /\ \A b \in Batches, s \in Subjects :
          \/ report'[b][s] = report[b][s]
          \/ report[b][s] = "waiting" /\ Admits(stage'[b][s], report'[b][s])
Answered == Answers /\ UNCHANGED <<asked, stage, ground, muted>>

\* The effect goes on, and its subject has a new ground.
Goes(b, s, at, next) ==
    /\ stage[b][s] = at /\ report[b][s] = "waiting"
    /\ stage' = [stage EXCEPT ![b][s] = next]
    /\ UNCHANGED asked
Grounds(b, s, next) == ground' = [ground EXCEPT ![Did(b)][s] = next]

Open(b, s) ==
    /\ Goes(b, s, "untouched", "open")
    /\ ground[Did(b)][s] = Needs(asked[b].kind)
    /\ Grounds(b, s, "suspended")
    /\ Answers /\ UNCHANGED muted

Refuse(b, s) == Goes(b, s, "open", "refused") /\ Answers /\ UNCHANGED <<ground, muted>>

\* The one request, applied by the network or not.
Send(b, s, applied) ==
    /\ Goes(b, s, "open", "sent")
    /\ Cardinality(Sent') <= EffectsGlobalDay
    /\ Cardinality(SentBy(Did(b))') <= EffectsPerDidDay
    /\ muted' = IF applied
                THEN [muted EXCEPT ![Did(b)][s] = (asked[b].kind # "release")] ELSE muted
    /\ UNCHANGED <<report, ground>>

Prove(b, s) ==
    /\ Goes(b, s, "sent", "proved")
    /\ Grounds(b, s, Leaves(asked[b].kind))
    /\ Answers /\ UNCHANGED muted

\* The proof was recorded and its recorder never heard: it is taken back before
\* anything is reported.  No release rests on this proof alone.
Withdraw(b, s) ==
    /\ Goes(b, s, "proved", "sent")
    /\ ground[Did(b)][s] = Leaves(asked[b].kind)
    /\ \A c \in Batches : Did(c) = Did(b) /\ asked[c].kind = "release" /\ stage[c][s] # "untouched"
          => \E a \in Batches \ {b} : /\ Did(a) = Did(b) /\ asked[a].kind # "release"
                                      /\ stage[a][s] = "proved"
    /\ Grounds(b, s, "suspended")
    /\ Answers /\ UNCHANGED muted

\* The user mutes or unmutes in another client.
Elsewhere(d, s) ==
    /\ muted' = [muted EXCEPT ![d][s] = ~@]
    /\ UNCHANGED <<asked, stage, report, ground>>

Next ==
    \/ \E b \in Batches, d \in Accounts, kind \in Kinds, batch \in SUBSET Subjects :
          Approve(b, d, kind, batch)
    \/ \E b \in Batches, s \in Subjects :
          \/ Open(b, s) \/ Refuse(b, s) \/ Prove(b, s) \/ Withdraw(b, s)
          \/ \E applied \in BOOLEAN : Send(b, s, applied)
    \/ \E d \in Accounts, s \in Subjects : Elsewhere(d, s)
    \/ Answered

Spec == Init /\ [][Next]_vars

-----------------------------------------------------------------------------
\* At most one batch of an account has a begun and unproved effect on a subject,
\* and the subject is suspended exactly as long as there is one.
OneAtATime ==
    \A d \in Accounts, s \in Subjects :
        LET begun == {b \in Batches : Did(b) = d /\ Pending(b, s)} IN
        /\ \A b, c \in begun : b = c
        /\ ground[d][s] = "suspended" <=> begun # {}

\* No mute is released, nor held for the service's own, but one that an effect of
\* the same account is proved to have put there.
OwnMutesOnly ==
    \A d \in Accounts, s \in Subjects :
        (\/ ground[d][s] = "ours"
         \/ \E b \in Batches : Did(b) = d /\ asked[b].kind = "release" /\ stage[b][s] # "untouched")
        => \E a \in Batches : /\ Did(a) = d /\ asked[a].kind # "release"
                              /\ stage[a][s] = "proved"

\* The queue and the day's limits, and each report, hold in every state.
PromisesKept ==
    /\ Cardinality(Waiting) <= QueuedActionsGlobal
    /\ Cardinality(Sent) <= EffectsGlobalDay
    /\ \A d \in Accounts : Cardinality(SentBy(d)) <= EffectsPerDidDay
    /\ \A b \in Batches, s \in Subjects :
          report[b][s] \in {"confirmed", "uncertain", "skipped"} => Admits(stage[b][s], report[b][s])
=============================================================================
