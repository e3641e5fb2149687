---------------------------- MODULE FeedSampling ----------------------------
(***************************************************************************)
(* The computations between what the network answered and what the policy  *)
(* engine is told (web/src/feed-exposure.ts, web/src/service.ts acquire,   *)
(* web/src/oauth.ts observationRequestPlan, receipts.py set_completeness). *)
(* A post is its author, its quotes outside in, whether its own URI is one  *)
(* of a post (own), and what its record (raw) and the service (view) say it *)
(* replies to; NoActor stands for an author or a quoted record the code     *)
(* cannot read.  A quote embeds at most one other.                          *)
(***************************************************************************)
EXTENDS Integers, Sequences, SequencesExt

CONSTANTS
    NoActor,
    MaxQuoteDepth, MaxAuthorsPerItem, MaxItemExposures,   \* of one feed
    MaxExposures, MaxExposureSubjects,                    \* of all feeds together
    MaxRetained,            \* items and exposures that fit 4 MiB
    MaxMutePages            \* pages of the mute list one observation reads

ASSUME SamplingAssumption ==
    /\ {MaxQuoteDepth, MaxAuthorsPerItem, MaxItemExposures, MaxExposures,
        MaxExposureSubjects, MaxRetained, MaxMutePages} \subseteq Nat

Least(a, b) == IF a < b THEN a ELSE b

(***************************************************************************)
(* The lineage of a post: what its record declares (raw) and what the      *)
(* service hydrated (view), each present or not, with a root and a parent. *)
(***************************************************************************)
Uris == {"p", "q"}
Reference == Uris \cup {"none", "bad"}
Reply == [present : BOOLEAN, root : Reference, parent : Reference]
Replies == {r \in Reply : ~r.present => r.root = "none" /\ r.parent = "none"}
Addresses == {"self", "bad"}
Indeterminate(status) == [status |-> status, root |-> "none"]

Lineage(own, raw, view) ==
    LET roots == {raw.root, view.root} \ {"none"}
        parents == {raw.parent, view.parent} \ {"none"}
    IN IF ~raw.present /\ ~view.present
       THEN IF own = "bad" THEN Indeterminate("malformed")
            ELSE [status |-> "root", root |-> "self"]
       ELSE IF "bad" \in roots \cup parents THEN Indeterminate("malformed")
       ELSE IF Cardinality(parents) > 1 THEN Indeterminate("conflict")
       ELSE IF raw.present /\ raw.root = "none" THEN Indeterminate("unknown")
       ELSE IF Cardinality(roots) > 1 THEN Indeterminate("conflict")
       ELSE IF roots = {} THEN Indeterminate("unknown")
       ELSE [status |-> "reply", root |-> CHOOSE r \in roots : TRUE]

\* evaluate_lineages for a policy that suppresses the given roots.
Attention(lineage, suppressed) ==
    IF lineage.status \notin {"root", "reply"} THEN "indeterminate"
    ELSE IF lineage.root \in suppressed THEN "suppress" ELSE "allow"

\* What a policy may decide on: the post itself, or the root its own record
\* declares, which hydration fills in only for a post without a record of its
\* reply, and no two sources that disagree.
Declared(own, raw, view) ==
    /\ ~raw.present /\ ~view.present => own = "self"
    /\ raw.present => raw.root \in Uris /\ view.root \in {"none", raw.root}
    /\ ~raw.present /\ view.present => view.root \in Uris
    /\ "bad" \notin {raw.parent, view.parent}
    /\ "none" \in {raw.parent, view.parent} \/ raw.parent = view.parent

\* For every combination of what record and hydration say: a post is suppressed or
\* let through exactly when its thread is declared, and for the declared root.
LineageIsDeclared ==
    \A own \in Addresses, raw, view \in Replies :
        LET outcome == Attention(Lineage(own, raw, view), {"p"}) IN
        /\ outcome # "indeterminate" <=> Declared(own, raw, view)
        /\ outcome = "suppress" => "p" \in {raw.root, view.root}
        /\ outcome = "allow" => "p" \notin {raw.root, view.root}

(***************************************************************************)
(* extractFeedExposures: the authors a feed puts before its reader.  A key *)
(* is the post and the depth at which it was met; a repost and its         *)
(* introducer change nothing about whom the feed exposes.                  *)
(***************************************************************************)
Chain(post) == <<post.author>> \o post.quotes    \* [uri, actor] of the post and its quotes

\* Mutant of AddExposure: an author that cannot be read is taken for an account.
AddUnread(acc, entry, depth) ==
    LET key == <<entry.uri, depth>> IN
    IF key \in acc.seen THEN acc
    ELSE IF acc.here >= MaxAuthorsPerItem \/ Len(acc.exposures) >= MaxItemExposures
    THEN [acc EXCEPT !.complete = FALSE]
    ELSE [acc EXCEPT !.seen = @ \cup {key}, !.here = @ + 1,
                     !.exposures = Append(@, entry.actor)]

AddExposure(acc, entry, depth) ==
    LET key == <<entry.uri, depth>> IN
    IF entry.actor = NoActor THEN [acc EXCEPT !.complete = FALSE]
    ELSE IF key \in acc.seen THEN acc
    ELSE IF acc.here >= MaxAuthorsPerItem \/ Len(acc.exposures) >= MaxItemExposures
    THEN [acc EXCEPT !.complete = FALSE]
    ELSE [acc EXCEPT !.seen = @ \cup {key}, !.here = @ + 1,
                     !.exposures = Append(@, entry.actor)]

\* The author of a post and those of its quotes, down to the given depth.
AddChain(acc, chain, depth) ==
    FoldLeft(LAMBDA a, d : AddExposure(a, chain[d + 1], d), acc, [i \in 1..(depth + 1) |-> i - 1])

\* Mutant of AddItem: quotes deeper than the limit are dropped without a word.
AddItemSilently(acc, post) ==
    IF post.author.actor = NoActor THEN [acc EXCEPT !.complete = FALSE]
    ELSE AddChain([acc EXCEPT !.here = 0, !.items = Append(@, Lineage(post.own, post.raw, post.view))],
                  Chain(post), Least(Len(post.quotes), MaxQuoteDepth))

AddItem(acc, post) ==
    IF post.author.actor = NoActor THEN [acc EXCEPT !.complete = FALSE]
    ELSE AddChain([acc EXCEPT !.here = 0, !.items = Append(@, Lineage(post.own, post.raw, post.view)),
                              !.complete = @ /\ Len(post.quotes) <= MaxQuoteDepth],
                  Chain(post), Least(Len(post.quotes), MaxQuoteDepth))

Extract(posts) ==
    FoldLeft(AddItem,
             [exposures |-> <<>>, items |-> <<>>, seen |-> {}, here |-> 0, complete |-> TRUE],
             posts)

(***************************************************************************)
(* acquire: what is kept of a sample next to what earlier sources took.    *)
(***************************************************************************)
KeepExposure(acc, actor) ==
    IF \/ acc.count >= MaxExposures
       \/ actor \notin acc.subjects /\ Cardinality(acc.subjects) >= MaxExposureSubjects
    THEN [acc EXCEPT !.bounded = TRUE]
    ELSE [acc EXCEPT !.count = @ + 1, !.subjects = @ \cup {actor},
                     !.kept = Append(@, actor)]

\* exposures already retained by the sources before
CountOf(rows) == Cardinality(UNION {{i} \X DOMAIN rows[i].exposures : i \in DOMAIN rows})
SubjectsOf(rows) == UNION {Range(rows[i].exposures) : i \in DOMAIN rows}

Keep(exposures, before) ==
    FoldLeft(KeepExposure, [kept |-> <<>>, bounded |-> FALSE, count |-> CountOf(before),
                            subjects |-> SubjectsOf(before)],
             exposures)

FailedRow == [exposures |-> <<>>, items |-> <<>>, complete |-> FALSE]

\* The row of one feed source: n posts were read and "found" was extracted, and the
\* source counts as read when the limit was reached or the last page had no cursor.
FeedRow(found, n, limit, exhausted, interrupted, before) ==
    LET kept == Keep(found.exposures, before) IN
    [exposures |-> kept.kept, items |-> found.items,
     complete |-> /\ ~interrupted /\ (n = limit \/ exhausted)
                  /\ found.complete /\ ~kept.bounded]

\* Over 4 MiB every feed row loses the last quarter of what it holds, round after
\* round until the rest fits; a shortened row is no longer complete.
Remainder(k, n) == LET rest[m \in 0..n] == IF m = 0 THEN k ELSE (rest[m - 1] * 3) \div 4 IN rest[n]
Shortened(row, n) ==
    [row EXCEPT !.exposures = SubSeq(@, 1, Remainder(Len(@), n)),
                !.items = SubSeq(@, 1, Remainder(Len(@), n)),
                !.complete = @ /\ n = 0]
SizeOf(rows, n) ==      \* exposures and items left after n rounds
    LET left(i) == ({<<i, "exposure">>} \X (1..Remainder(Len(rows[i].exposures), n)))
                     \cup ({<<i, "item">>} \X (1..Remainder(Len(rows[i].items), n)))
    IN Cardinality(UNION {left(i) : i \in DOMAIN rows})
Rounds(rows) ==
    CHOOSE n \in 0..SizeOf(rows, 0) :
        SizeOf(rows, n) <= MaxRetained /\ \A m \in 0..(n - 1) : SizeOf(rows, m) > MaxRetained
Retained(rows) == LET n == Rounds(rows) IN [i \in DOMAIN rows |-> Shortened(rows[i], n)]

(***************************************************************************)
(* Relationship rows, request planning, completeness.                      *)
(***************************************************************************)
\* Mutant of RelationOf: the first of several rows decides.
RelationOfFirst(rows) ==
    IF rows = <<>> THEN "unknown"
    ELSE CASE rows[1] = "following" -> "following"
           [] rows[1] = "plain" -> "not_following"
           [] OTHER -> "unknown"

\* What the rows returned for one account say: exactly one readable row decides.
RelationOf(rows) ==
    IF Len(rows) # 1 THEN "unknown"
    ELSE CASE rows[1] = "following" -> "following"
           [] rows[1] = "plain" -> "not_following"
           [] OTHER -> "unknown"               \* not found, or another type

\* Mutant of ObservationPlan: the mute list may use what the profiles need.
GreedyPlan(available, batches) ==
    [profiles |-> Least(batches, available), mutes |-> Least(MaxMutePages, available)]

\* Profile batches first, the mute list only from what they leave over.
ObservationPlan(available, batches) ==
    LET profiles == Least(batches, available) IN
    [profiles |-> profiles,
     mutes |-> IF profiles = batches THEN Least(MaxMutePages, available - profiles) ELSE 0]

\* The batch of a subject in the sorted list of all of them.
BatchOf(s, subjects, size) == (Cardinality({t \in subjects : t < s}) \div size) + 1
Batches(subjects, size) == (Cardinality(subjects) + size - 1) \div size

=============================================================================
