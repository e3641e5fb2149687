---------------------------- MODULE FeedReading ----------------------------
(***************************************************************************)
(* AclService.acquire and the account client it reads through: each feed   *)
(* page by page, then the relationships of everybody the feeds expose in   *)
(* batches by a pool of workers, then the moderation state of all subjects *)
(* by two concurrent tasks, the profiles and the mute list.  Every request *)
(* counts against one budget, may fail, and is answered in any order.      *)
(* Follows and mutes stand for what the network holds during the reading.  *)
(***************************************************************************)
EXTENDS FeedSampling

CONSTANTS
    Subjects,               \* accounts, by their position in sorted order
    Inputs,                 \* [feeds: sequences of [limit, posts], named: other subjects]
    Follows, Mutes,         \* whom the account follows; its mute list, in page order
    Budget, Spent,          \* request limit; requests made before the first source
    PageSize, MaxPages,     \* of a feed
    RelationBatch, RelationWidth, ProfileBatch, ProfileWidth, MutePageSize

ASSUME ReadingAssumption ==
    /\ Subjects \subseteq Nat /\ IsFiniteSet(Subjects) /\ NoActor \notin Subjects
    /\ Follows \subseteq Subjects /\ Mutes \in Seq(Subjects)
    /\ Budget \in Nat /\ Spent \subseteq 0..Budget
    /\ {PageSize, MaxPages, RelationBatch, RelationWidth, ProfileBatch, ProfileWidth,
        MutePageSize} \subseteq Nat \ {0}

\* What the pages of a feed may hold: posts with their quotes, read or not.
Entries == [uri : STRING, actor : Subjects \cup {NoActor}]
Posts == [author : Entries, quotes : Seq(Entries),
          own : Addresses, raw : Replies, view : Replies]
EntriesOf(posts) == UNION {Range(Chain(posts[k])) : k \in DOMAIN posts}

\* The compiler and sampleFeed accept positive limits only.  Of the network: a post is
\* a record of its author's repository, so one uri does not name two readable authors
\* (the walk counts an uri once without comparing them).
ASSUME InputsAssumption ==
    \A in \in Inputs :
        /\ in.named \subseteq Subjects
        /\ in.feeds \in Seq([limit : Nat \ {0}, posts : Seq(Posts)]) /\ in.feeds # <<>>
        /\ \A i \in DOMAIN in.feeds : \A e, f \in EntriesOf(in.feeds[i].posts) :
              e.uri = f.uri => e.actor = f.actor \/ NoActor \in {e.actor, f.actor}

VARIABLES
    phase,      \* "idle", "feed", "relations", "observe", "read" or "failed"
    input,      \* the policy's sources
    rows,       \* the discovery rows so far
    page,       \* the feed being sampled: items and pages read
    requests,   \* client.requestCount()
    pool,       \* the batches: how many were sent, which were answered
    plan,       \* what observe may spend: profile batches and mute pages
    relation,   \* [Subjects -> the relationship found]
    found,      \* subjects whose profile was returned
    mutes,      \* the mute-list task: entries and pages read, request open, end seen
    remote      \* [Subjects -> what the acquisition says of its moderation state]

readVars == <<phase, input, rows, page, requests, pool, plan, relation, found, mutes, remote>>

NoPage == [n |-> 0, pages |-> 0]
NoPool == [sent |-> 0, got |-> {}]
NoPlan == [profiles |-> 0, mutes |-> 0]
NoMutes == [n |-> 0, pages |-> 0, open |-> FALSE, end |-> FALSE]
Unseen == [known |-> FALSE, direct |-> FALSE]
NoInput == [feeds |-> <<>>, named |-> {}]

Feed == input.feeds[Len(rows) + 1]
Samples ==      \* what is found in the first n posts of each feed
    [feed \in UNION {Range(in.feeds) : in \in Inputs} |->
        [n \in 0..Len(feed.posts) |-> Extract(SubSeq(feed.posts, 1, n))]]
Exposed == SubjectsOf(rows)
Acquired == Exposed \cup input.named

ReadTypeOK ==
    /\ phase \in {"idle", "feed", "relations", "observe", "read", "failed"}
    /\ input \in Inputs \cup {NoInput}
    /\ page.n \in Nat /\ page.pages \in 0..MaxPages
    /\ requests \in Nat
    /\ pool.sent \in Nat /\ pool.got \subseteq 1..pool.sent
    /\ plan \in [profiles : Nat, mutes : 0..MaxMutePages]
    /\ relation \in [Subjects -> {"unknown", "following", "not_following"}]
    /\ found \subseteq Subjects
    /\ mutes.n \in 0..Len(Mutes) /\ mutes.pages \in 0..MaxMutePages
    /\ remote \in [Subjects -> [known : BOOLEAN, direct : BOOLEAN]]
    /\ Len(rows) <= Len(input.feeds) /\ Acquired \subseteq Subjects

ReadInit ==
    /\ phase = "idle" /\ input = NoInput /\ rows = <<>> /\ page = NoPage
    /\ requests = 0 /\ pool = NoPool /\ plan = NoPlan
    /\ relation = [s \in Subjects |-> "unknown"] /\ found = {}
    /\ mutes = NoMutes /\ remote = [s \in Subjects |-> Unseen]

observeVars == <<plan, found, mutes, remote>>

-----------------------------------------------------------------------------
(***************************************************************************)
(* From one part of acquire to the next; "spent" is the request count then.*)
(***************************************************************************)
\* The first requests of both tasks of observe leave at once.
Observes(spent, subjects) ==
    LET allowed == ObservationPlan(Budget - spent, Batches(subjects, ProfileBatch))
        sent == Least(allowed.profiles, ProfileWidth)
        opens == allowed.mutes > 0
    IN /\ phase' = "observe" /\ plan' = allowed
       /\ pool' = [sent |-> sent, got |-> {}]
       /\ mutes' = [NoMutes EXCEPT !.open = opens]
       /\ requests' = spent + sent + (IF opens THEN 1 ELSE 0)
       /\ UNCHANGED <<found, remote>>

\* The workers take the first batches; a batch the budget refuses stays unknown.
Relates(spent, subjects) ==
    LET sent == Least(Least(Batches(subjects, RelationBatch), RelationWidth),
                      Budget - spent)
    IN /\ phase' = "relations" /\ pool' = [sent |-> sent, got |-> {}]
       /\ requests' = spent + sent
       /\ UNCHANGED observeVars

Open == (1..pool.sent) \ pool.got     \* batches sent and not answered
Incomplete(rs) == [i \in DOMAIN rs |-> [rs[i] EXCEPT !.complete = FALSE]]

\* The last source is followed by the relationships, unless no feed exposed anybody
\* or the connection may not ask for relationships.
FeedEnds(row, spent) ==
    LET all == Append(rows, row)
        last == Len(all) = Len(input.feeds)
    IN
    /\ page' = NoPage /\ UNCHANGED <<input, relation>>
    /\ \/ /\ ~last /\ rows' = all /\ requests' = spent
          /\ UNCHANGED <<phase, pool, observeVars>>
       \/ /\ last /\ rows' = Retained(all) /\ SubjectsOf(rows') # {}
          /\ Relates(spent, SubjectsOf(rows'))
       \/ /\ last /\ rows' = Retained(all) /\ SubjectsOf(rows') = {}
          /\ Observes(spent, input.named)
       \/ /\ last /\ rows' = Incomplete(Retained(all)) /\ SubjectsOf(rows') # {}
          /\ Observes(spent, SubjectsOf(rows') \cup input.named)

-----------------------------------------------------------------------------
ReadStarts(in, spent) ==
    /\ phase = "idle"
    /\ phase' = "feed" /\ input' = in /\ requests' = spent
    /\ UNCHANGED <<rows, page, pool, relation, observeVars>>

\* One page of k posts.  Its cursor is absent only on the last page of the feed.
PageArrives(k, cursor) ==
    LET remaining == Feed.limit - page.n
        n == page.n + Least(k, remaining)
        row(exhausted) == FeedRow(Samples[Feed][n], n, Feed.limit, exhausted, FALSE, rows)
    IN
    /\ phase = "feed" /\ requests < Budget
    /\ k \in 0..Least(Least(PageSize, remaining) + 1, Len(Feed.posts) - page.n)
    /\ cursor = "none" => page.n + k = Len(Feed.posts)
    /\ cursor = "repeated" => page.pages > 0
    /\ IF k > remaining THEN FeedEnds(row(FALSE), requests + 1)
       ELSE IF cursor = "none" THEN FeedEnds(row(TRUE), requests + 1)
       ELSE IF cursor = "repeated" \/ k = 0 THEN FeedEnds(FailedRow, requests + 1)
       ELSE IF n = Feed.limit \/ page.pages + 1 = MaxPages THEN FeedEnds(row(FALSE), requests + 1)
       ELSE /\ page' = [n |-> n, pages |-> page.pages + 1] /\ requests' = requests + 1
            /\ UNCHANGED <<phase, input, rows, pool, relation, observeVars>>

\* A page that fails, or that the budget refuses, ends the source: as unavailable
\* when nothing was read, as interrupted otherwise.
PageFails ==
    /\ phase = "feed"
    /\ FeedEnds(IF page.n = 0 THEN FailedRow
                ELSE FeedRow(Samples[Feed][page.n], page.n, Feed.limit, FALSE, TRUE, rows),
                Least(requests + 1, Budget))

\* What a reply may say of one account: nothing, its row, two rows, another row.
Told(s) == {<<>>, <<IF s \in Follows THEN "following" ELSE "plain">>,
            <<"following", "plain">>, <<"plain", "following">>, <<"notFound">>, <<"other">>}

\* Batch b is answered; a failed request or a reply for another actor has no rows.
RelationsArrive(b, told) ==
    LET batch == {s \in Exposed : BatchOf(s, Exposed, RelationBatch) = b}
        more == pool.sent < Batches(Exposed, RelationBatch) /\ requests < Budget
        got == pool.got \cup {b}
    IN
    /\ phase = "relations" /\ b \in Open
    /\ \A s \in batch : told[s] \in Told(s)
    /\ relation' = [s \in Subjects |-> IF s \in batch THEN RelationOf(told[s]) ELSE relation[s]]
    /\ IF more THEN /\ pool' = [sent |-> pool.sent + 1, got |-> got] /\ requests' = requests + 1
                    /\ UNCHANGED <<phase, observeVars>>
       ELSE IF got = 1..pool.sent THEN Observes(requests, Acquired)
       ELSE /\ pool' = [pool EXCEPT !.got = got] /\ UNCHANGED <<phase, requests, observeVars>>
    /\ UNCHANGED <<input, rows, page>>

\* No request was left for any batch.
RelationsRefused ==
    /\ phase = "relations" /\ pool.sent = 0 /\ Observes(requests, Acquired)
    /\ UNCHANGED <<input, rows, page, relation>>

\* Either task of observe throws: no state is known, and no feed row complete.
ObservationFails ==
    /\ phase' = "read" /\ rows' = Incomplete(rows)
    /\ remote' = [s \in Subjects |-> Unseen]
    /\ UNCHANGED <<pool, found, mutes, requests>>

\* The next request of a task of observe, in the step that takes an answer.
Spend(more) == requests' = requests + (IF more THEN 1 ELSE 0)
Refused(more) == more /\ requests >= Budget

ProfilesArrive(b, there) ==
    LET more == pool.sent < plan.profiles
        next == IF more THEN 1 ELSE 0
    IN
    /\ phase = "observe" /\ b \in Open
    /\ there \subseteq {s \in Acquired : BatchOf(s, Acquired, ProfileBatch) = b}
    /\ IF Refused(more) THEN ObservationFails
       ELSE /\ pool' = [sent |-> pool.sent + next, got |-> pool.got \cup {b}]
            /\ found' = found \cup there /\ Spend(more)
            /\ UNCHANGED <<phase, rows, mutes, remote>>
    /\ UNCHANGED <<input, page, plan, relation>>

MutesArrive(k, cursor) ==
    LET pages == mutes.pages + 1
        more == cursor = "fresh" /\ pages < plan.mutes
    IN
    /\ phase = "observe" /\ mutes.open
    /\ k \in 0..Least(MutePageSize, Len(Mutes) - mutes.n)
    /\ cursor = "none" => mutes.n + k = Len(Mutes)
    /\ cursor = "repeated" => mutes.pages > 0
    /\ IF cursor = "repeated" \/ Refused(more) THEN ObservationFails
       ELSE /\ mutes' = [n |-> mutes.n + k, pages |-> pages, open |-> more,
                          end |-> cursor = "none"]
            /\ Spend(more) /\ UNCHANGED <<phase, rows, pool, found, remote>>
    /\ UNCHANGED <<input, page, plan, relation>>

ObservationBreaks ==     \* a request of either task fails
    /\ phase = "observe" /\ (mutes.open \/ Open # {})
    /\ ObservationFails
    /\ UNCHANGED <<input, page, plan, relation>>

\* Mutant of ObservationEnds: what was read of the mute list is taken for all of it.
ObservationEndsEarly ==
    /\ phase = "observe" /\ ~mutes.open /\ pool.got = 1..plan.profiles
    /\ phase' = "read"
    /\ remote' = [s \in Subjects |->
                     IF s \in found THEN [known |-> TRUE,
                                          direct |-> \E i \in 1..mutes.n : Mutes[i] = s]
                     ELSE Unseen]
    /\ UNCHANGED <<input, rows, page, requests, pool, plan, relation, found, mutes>>

\* Both tasks are through: a state is known when its profile came and the whole
\* mute list was read.
ObservationEnds ==
    /\ phase = "observe" /\ ~mutes.open /\ pool.got = 1..plan.profiles
    /\ phase' = "read"
    /\ remote' = [s \in Subjects |->
                     IF s \in found /\ mutes.end
                     THEN [known |-> TRUE, direct |-> \E i \in 1..mutes.n : Mutes[i] = s]
                     ELSE Unseen]
    /\ UNCHANGED <<input, rows, page, requests, pool, plan, relation, found, mutes>>

\* The elapsed time is looked at before each source and after each part.
TimeIsUp ==
    /\ \/ phase = "feed" /\ page = NoPage
       \/ phase \in {"relations", "observe"} /\ pool.got = {} /\ mutes.pages = 0
    /\ phase' = "failed"
    /\ UNCHANGED <<input, rows, page, requests, pool, relation, observeVars>>

Reads ==
    \/ \E k \in 0..(PageSize + 1), cursor \in {"none", "fresh", "repeated"} :
          PageArrives(k, cursor) \/ MutesArrive(k, cursor)
    \/ PageFails \/ RelationsRefused \/ ObservationBreaks \/ ObservationEnds \/ TimeIsUp
    \/ \E b \in Open :
          \/ \E told \in [{s \in Exposed : BatchOf(s, Exposed, RelationBatch) = b}
                           -> UNION {Told(s) : s \in Subjects}] : RelationsArrive(b, told)
          \/ \E there \in SUBSET Acquired : ProfilesArrive(b, there)

-----------------------------------------------------------------------------
\* What an acquisition says of an account agrees with the network, whatever was
\* lost, repeated or contradicted on the way: a known state rests on the whole
\* mute list, a relationship on exactly one row.
StandingIsEarned ==
    \A s \in Subjects :
        /\ remote[s].known => remote[s].direct = (\E i \in DOMAIN Mutes : Mutes[i] = s)
        /\ relation[s] # "unknown" => (relation[s] = "following") = (s \in Follows)

\* "The two concurrent tasks cannot race for the final request slots": whatever
\* order the answers come in, the budget covers what observe still has to ask.
BudgetSuffices ==
    phase = "observe" =>
        requests + (plan.profiles - pool.sent)
            + (IF mutes.open THEN plan.mutes - mutes.pages - 1 ELSE 0)
          <= Budget

=============================================================================
