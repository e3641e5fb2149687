--------------------------- MODULE MCAcquisition ---------------------------
(***************************************************************************)
(* Acquisition on three calls of two accounts and six readings.             *)
(***************************************************************************)
EXTENDS Acquisition, TLC

CONSTANTS a1, a2, c1, c2, c3

MCKind == c1 :> "preview" @@ c2 :> "measurement" @@ c3 :> "effect"
MCAccountOf == c1 :> a1 @@ c2 :> a1 @@ c3 :> a2

By(uri, actor) == [uri |-> uri, actor |-> actor]
Says(root) == [present |-> TRUE, root |-> root, parent |-> "q"]
Nothing == [present |-> FALSE, root |-> "none", parent |-> "none"]
Post(author, quotes) == [author |-> author, quotes |-> quotes,
                         own |-> "self", raw |-> Nothing, view |-> Nothing]
Source(limit, posts) == [limit |-> limit, posts |-> posts]
One == Post(By("u", 1), <<>>)

\* A post quoting another, then that one; a limit below what the feed holds, and
\* an account no feed shows.
TwoPages == [feeds |-> <<Source(2, <<Post(By("u", 1), <<By("v", 2)>>), Post(By("v", 2), <<>>),
                                     Post(By("w", NoActor), <<>>)>>)>>,
             named |-> {3}]
\* More items and exposures than are retained.
Crowded == [feeds |-> <<Source(2, <<Post(By("u", 1), <<By("v", 2)>>),
                                    Post(By("w", 3), <<By("v", 2)>>)>>)>>,
            named |-> {}]
\* A quote deeper than the limit, and a source with fewer posts than asked for.
TwoFeeds == [feeds |-> <<Source(1, <<Post(By("u", 1), <<By("v", 2), By("w", 3)>>)>>),
                         Source(2, <<One>>)>>,
             named |-> {}]
\* A source without a post, and a post whose quote cannot be read.
Malformed == [feeds |-> <<Source(1, <<>>), Source(1, <<Post(By("u", 1), <<By("v", NoActor)>>)>>)>>,
              named |-> {2}]
\* A record that does not say which thread it replies to, where hydration would.
Unclear == [feeds |-> <<Source(1, <<[One EXCEPT !.raw = Says("none"), !.view = Says("p")]>>)>>,
            named |-> {}]
\* A post whose own URI is not one of a post.
Nameless == [feeds |-> <<Source(1, <<[One EXCEPT !.own = "bad"]>>)>>, named |-> {}]
MCInputs == {TwoPages, Crowded, TwoFeeds, Malformed, Unclear, Nameless}
MCMutes == <<3>>

ASSUME LineageCases == LineageIsDeclared

Begun == {c \in Calls : at[c] > 0}

\* Bounds.  Two calls at a time take part, an account is not erased in a history in
\* which a process died, and a reading is followed in detail in histories in which
\* its call is alone and nothing dies, is erased or is backed up.
InScope ==
    /\ Cardinality(Begun) <= 2
    /\ Lost = {} \/ \A d \in Accounts : ~purged[d]
    /\ reader # {} => /\ Begun = reader /\ Lost = {} /\ backup = "off" /\ ~flag
                      /\ \A d \in Accounts : ~purged[d]

MCNext == Next /\ InScope'
MCSpec ==
    /\ Init /\ [][MCNext]_vars
    /\ \A c \in Calls : WF_vars(Proceed(c))
    /\ WF_vars(BackupProceeds /\ UNCHANGED <<readVars, acqVars>>)

=============================================================================
