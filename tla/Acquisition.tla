---------------------------- MODULE Acquisition ----------------------------
(***************************************************************************)
(* Previews and measurements under the maintenance window: the calls of    *)
(* MaintenanceWindow, of which one, the reader, makes its network reading  *)
(* step by step as FeedReading describes it; the others read in one step.  *)
(* The engine then judges the reading (receipts.py set_completeness), and  *)
(* the call stores whether the configured scope was covered.               *)
(***************************************************************************)
EXTENDS MaintenanceWindow, FeedReading

CONSTANTS
    Managed,    \* accounts the ledger names: the receipt has a row for each
    Attends,    \* the policy suppresses lineages
    Reviews     \* its feeds ask to review followed accounts
ASSUME AcquisitionAssumption ==
    Managed \subseteq Subjects /\ Attends \in BOOLEAN /\ Reviews \in BOOLEAN

VARIABLES
    reader,     \* {} or the call whose reading is followed
    again,      \* accounts the second observation of a preview knows
    result      \* [Calls -> what was stored: "none", "partial" or "complete"]

acqVars == <<reader, again, result>>
vars == <<windowVars, readVars, acqVars>>

Missing == Managed \ Acquired

TypeOK ==
    /\ WindowTypeOK /\ ReadTypeOK
    /\ reader \subseteq Calls /\ Cardinality(reader) <= 1
    /\ again \subseteq Managed
    /\ result \in [Calls -> {"none", "partial", "complete"}]

Init ==
    /\ WindowInit /\ ReadInit
    /\ reader = {} /\ again = {} /\ result = [c \in Calls |-> "none"]

-----------------------------------------------------------------------------
\* Mutant of ScopeCovered: only the rows that were proposed are asked about.
ScopeProposed(c, evidence) ==
    /\ evidence
    /\ \A i \in DOMAIN rows : rows[i].complete
    /\ Reviews => \A s \in Exposed : relation[s] # "unknown"

\* set_completeness: sources, evidence and evaluation, moderation state of every
\* row, relationships of the exposed, and lineages when the policy needs them.
ScopeCovered(c, evidence) ==
    /\ evidence
    /\ \A i \in DOMAIN rows : rows[i].complete
    /\ \A s \in Acquired \cup Managed : remote[s].known \/ s \in again
    /\ Reviews => \A s \in Exposed : relation[s] # "unknown"
    /\ Attends => \A i \in DOMAIN rows : \A k \in DOMAIN rows[i].items :
                     Attention(rows[i].items[k], {}) # "indeterminate"

\* The reading of the reader replaces the step in which other calls read.
StartReading(c, in, spent) ==
    /\ reader = {} /\ At(c, "read") /\ ReadStarts(in, spent)
    /\ reader' = {c}
    /\ UNCHANGED <<windowVars, again, result>>

Reading(c) == c \in reader /\ At(c, "read") /\ Reads /\ UNCHANGED <<windowVars, acqVars>>

EndReading(c) ==
    /\ c \in reader /\ At(c, "read") /\ phase \in {"read", "failed"}
    /\ ReadAnyhow(c, phase = "read")
    /\ UNCHANGED <<readVars, acqVars>>

ReadAtOnce(c, good) ==
    /\ c \notin reader /\ ReadAnyhow(c, good) /\ UNCHANGED <<readVars, acqVars>>

\* A preview observes the accounts only the ledger names; observe again, outside
\* the budget, so each is known or not.
LookUpMissing(c, good, known) ==
    /\ ReadAgain(c, c \notin reader \/ Missing # {}, good)
    /\ known \subseteq (IF c \in reader /\ good THEN Missing ELSE {})
    /\ again' = again \cup known
    /\ UNCHANGED <<readVars, reader, result>>

StoreResult(c, evidence) ==
    /\ Store(c)
    /\ result' = [result EXCEPT ![c] =
                    IF purged[AccountOf[c]] THEN "none"
                    ELSE IF (IF c \in reader THEN ScopeCovered(c, evidence) ELSE evidence)
                    THEN "complete" ELSE "partial"]
    /\ UNCHANGED <<readVars, reader, again>>

Proceed(c) ==
    \/ Moves(c) /\ UNCHANGED <<readVars, acqVars>>
    \/ Reading(c) \/ EndReading(c)
    \/ \E good \in BOOLEAN : ReadAtOnce(c, good)
                             \/ \E known \in SUBSET Managed : LookUpMissing(c, good, known)
    \/ \E evidence \in BOOLEAN : StoreResult(c, evidence)

Next ==
    \/ \E c \in Calls : Proceed(c) \/ \E in \in Inputs, spent \in Spent : StartReading(c, in, spent)
    \/ Outside /\ UNCHANGED <<readVars, acqVars>>

Spec == Init /\ [][Next]_vars

\* Requests, engine processes and polls end by their timeouts, and so do the
\* backup's waiting and its copies; nobody has to begin anything.
FairSpec ==
    /\ Spec
    /\ \A c \in Calls : WF_vars(Proceed(c))
    /\ WF_vars(BackupProceeds /\ UNCHANGED <<readVars, acqVars>>)

-----------------------------------------------------------------------------
Asked(feed) == Least(feed.limit, Len(feed.posts))   \* posts the policy asks for
Covered(post) ==
    /\ Len(post.quotes) <= MaxQuoteDepth
    /\ Attends => Declared(post.own, post.raw, post.view)
    /\ \A s \in {Chain(post)[k].actor : k \in DOMAIN Chain(post)} :
          s \in Exposed /\ remote[s].known /\ (Reviews => relation[s] # "unknown")

\* "Complete means the configured scope": a stored reading called complete read
\* the posts the policy asked for of every feed, with every author and quote the
\* depth limit lets one see, and knows the state and relationship of each of them.
CompleteIsEarned ==
    \A c \in reader : result[c] = "complete" =>
        /\ \A i \in DOMAIN input.feeds :
              /\ Len(rows[i].items) = Asked(input.feeds[i])
              /\ \A k \in 1..Asked(input.feeds[i]) : Covered(input.feeds[i].posts[k])
        /\ \A s \in input.named : remote[s].known
        /\ \A s \in Managed : remote[s].known \/ (s \in again /\ Kind[c] = "preview")

=============================================================================
