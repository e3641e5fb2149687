---------------------------- MODULE MCHostedJobs ----------------------------
(***************************************************************************)
(* Instances of HostedJobs for TLC.  Two history variables remember what    *)
(* the operator stopped and what was still sent afterwards.                *)
(***************************************************************************)
EXTENDS HostedJobs

VARIABLES
    halted,     \* [Jobs -> stopped by the operator and not resumed since]
    late        \* [Jobs -> requests sent after cancellation or deletion]

mcVars == <<vars, halted, late>>

AskedToStop(j) == user[Did(j)].deleting \/ cancel[j]
Resumed(j) == status[j] = "paused_by_operator" /\ status'[j] = "queued"

\* Bound: while the world stays quiet two accounts share the limits, one preview
\* each and the second with one account to act on; once something disturbs, a
\* single account with a single batch is followed.  Only requests of users and
\* disturbances are ever cut off, never a step the worker is owed.
Lead == CHOOSE d \in Accounts : TRUE
Taken == {p \in Previews : preview[p].state # "absent"}
Untouched(d) ==
    /\ \A s \in Subjects : verdict[d][s] = "quarantine" /\ ~remote[d][s].direct
                         /\ remote[d][s].following = (s \in Followed)
    /\ user[d] = [connected |-> TRUE, deleting |-> FALSE, writes |-> TRUE, revision |-> 1]
InScope ==
    IF Cardinality(Accounts) = 1 THEN TRUE
    ELSE IF moves = 0
    THEN /\ \A p, q \in Taken : p # q => preview[p].did # preview[q].did
         /\ \A p \in Taken, s \in Subjects : preview[p].rows[s].seen.known
               <=> preview[p].did = Lead \/ s = 1
    ELSE /\ Taken \subseteq {1} /\ \A j \in Jobs : j > 1 => status[j] = "absent"
         /\ preview[1].did = Lead
         /\ \A d \in Accounts \ {Lead} : Untouched(d)

MCInit == Init /\ halted = [j \in Jobs |-> FALSE] /\ late = [j \in Jobs |-> 0]
\* What the history variables remember of a step.
History ==
    /\ halted' = [j \in Jobs |->
          IF gate.writes /\ ~gate'.writes THEN status[j] \in {"queued", "running"}
          ELSE halted[j] /\ ~Resumed(j)]
    /\ late' = [j \in Jobs |->
          IF AskedToStop(j) /\ writes'[j] # writes[j] THEN late[j] + 1 ELSE late[j]]

\* The pipeline with its history; MCSpec is what of it lies within the bound.
HistorySpec == MCInit /\ [][Next /\ History]_mcVars
MCNext == Next /\ InScope' /\ History
MCSpec == MCInit /\ [][MCNext]_mcVars
MCFairSpec ==
    /\ MCSpec
    /\ \A w \in Workers : WF_vars(Start(w)) /\ WF_vars(Proceed(w))
    /\ \A j \in Jobs : WF_vars(DelayOver(j))

\* After a cancellation, a disconnection or a deletion request at most the one
\* request already past its last check is sent for the batch.
LateWritesBounded == \A j \in Jobs : late[j] <= 1

\* docs/hosting.md:38-39: closing the write gate pauses the remaining work, and
\* a job continues only after it was resumed explicitly.
NoUnaskedResume == \A w \in Workers : run[w].pc = "claimed" => ~halted[run[w].job]

=============================================================================
