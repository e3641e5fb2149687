---------------------------- MODULE OAuthCustody ----------------------------
(***************************************************************************)
(* The stored OAuth session of one account (web/src/oauth-custody.ts) and   *)
(* the calls that use, replace and remove it (web/src/oauth.ts, the         *)
(* handlers of web/src/server.ts).  The official client calls the lock, the *)
(* store and the wrapped fetch from several processes; a refresh token may  *)
(* be presented to the issuer only once, and a process that stops in the    *)
(* middle leaves a refresh intent instead of a token that looks unused.     *)
(*                                                                         *)
(* A caller is one call in one process.  The client and the issuer are      *)
(* outside the repository.                                                  *)
(***************************************************************************)
EXTENDS Naturals, FiniteSets

CONSTANTS
    Callers,
    NoCaller,       \* the owner of no lock row
    MaxGrants,      \* bound: sign-ins
    MaxTurns,       \* bound: refresh tokens of one sign-in
    Faults          \* the combinations of faults an execution may have

\* "late_lock": a call outlives the 45 seconds of its lock row.
\* "split_turn": another process commits between the two statements with
\* which a refresh looks up its session and records its intent.
\* The second takes microseconds of bad luck, the first a stall of most of a
\* minute; their coincidence is left out.
ASSUME FaultsKnown == Faults \subseteq {{}, {"late_lock"}, {"split_turn"}}
ASSUME NoCallerIsNone == NoCaller \notin Callers
ASSUME BoundsAreNat == MaxGrants \in Nat /\ MaxTurns \in Nat \ {0}

VARIABLES
    session,        \* oauth_sessions: the refresh token stored, or NoToken
    intent,         \* oauth_refresh_intents: the predecessor, or NoToken
    lock,           \* oauth_locks: the caller that owns the row, or Nobody
    call,           \* what each caller does
    grants,         \* issuer: the sign-ins so far
    valid,          \* issuer: the refresh tokens it accepts
    sent,           \* history: how often each token was presented
    removed,        \* history: cleared by a disconnection, no sign-in since
    fault           \* the faults of this execution

vars == <<session, intent, lock, call, grants, valid, sent, removed, fault>>

Tokens == (1..MaxGrants) \X (1..MaxTurns)
NoToken == <<0, 0>>

Steps == {"idle", "waiting", "reading", "matching", "intending", "sent",
          "consumed", "answered", "refused", "unstored", "exchanged",
          "rejected", "leaving", "revoking", "clearing"}
Idle == [pc |-> "idle", why |-> "use", token |-> NoToken, next |-> NoToken]
CallTypes == [pc : Steps, why : {"use", "disconnect", "sign_in"},
              token : Tokens \cup {NoToken}, next : Tokens \cup {NoToken}]

Init ==
    /\ session = NoToken /\ intent = NoToken /\ lock = NoCaller
    /\ call = [c \in Callers |-> Idle]
    /\ grants = 0 /\ valid = {}
    /\ sent = [t \in Tokens |-> 0]
    /\ removed = FALSE
    /\ fault \in Faults

At(c, p) == call[c].pc = p
Goto(c, p) == call' = [call EXCEPT ![c].pc = p]

\* What a call does while it has the lock.
Locked == {"reading", "matching", "intending", "sent", "consumed", "answered",
           "refused", "unstored", "leaving"}
\* A caller is between the two statements of its turn.
MidTurn == \E c \in Callers : At(c, "intending")

-----------------------------------------------------------------------------
(* The lock.                                                               *)

\* A call of the client, or the restore with which the disconnect, reconnect
\* and delete handlers begin.
Restore(c, why) ==
    /\ At(c, "idle")
    /\ call' = [call EXCEPT ![c] = [Idle EXCEPT !.pc = "waiting", !.why = why]]
    /\ UNCHANGED <<session, intent, lock, grants, valid, sent, removed, fault>>

\* INSERT OR IGNORE into oauth_locks succeeds when no row is left.
Acquire(c) ==
    /\ At(c, "waiting") /\ lock = NoCaller
    /\ lock' = c /\ Goto(c, "reading")
    /\ UNCHANGED <<session, intent, grants, valid, sent, removed, fault>>

\* What follows when the restore of c ended without a session.
AfterFailure(c) == IF call[c].why = "disconnect" THEN "clearing" ELSE "idle"

\* The deadline of 15 seconds passes while another caller holds the row.
GiveUp(c) ==
    /\ At(c, "waiting") /\ lock # NoCaller
    /\ Goto(c, AfterFailure(c))
    /\ UNCHANGED <<session, intent, lock, grants, valid, sent, removed, fault>>

\* The row runs out and the next caller deletes it: its owner stopped, or is
\* slower than the row lives.
Expire ==
    /\ lock # NoCaller /\ ~MidTurn
    /\ call[lock].pc \in Locked => "late_lock" \in fault
    /\ lock' = NoCaller
    /\ UNCHANGED <<session, intent, call, grants, valid, sent, removed, fault>>

\* finally: the row goes if it is still the caller's.
Unlocked(c) == IF lock = c THEN NoCaller ELSE lock

Leave(c) ==
    /\ At(c, "leaving")
    /\ lock' = Unlocked(c)
    /\ Goto(c, IF call[c].why = "disconnect" /\ call[c].token # NoToken
               THEN "revoking" ELSE AfterFailure(c))
    /\ UNCHANGED <<session, intent, grants, valid, sent, removed, fault>>

-----------------------------------------------------------------------------
(* The store.                                                              *)

Readable == intent = NoToken /\ session # NoToken

\* get: refuses while an intent is recorded.  A session whose access token is
\* still good is returned, any other is refreshed.
Read(c) ==
    /\ At(c, "reading")
    /\ IF Readable
       THEN \E step \in {"leaving", "matching"} :
              call' = [call EXCEPT ![c].pc = step, ![c].token = session]
       ELSE Goto(c, "leaving")
    /\ UNCHANGED <<session, intent, lock, grants, valid, sent, removed, fault>>

\* set: with an intent recorded, the stored session must be its predecessor.
MayStore == intent # NoToken => session = intent
Stored(t) == session' = t /\ intent' = NoToken

\* Variant: the intent is forgotten.
DeletedSession == session' = NoToken /\ UNCHANGED intent
\* del, and the deletions of the account's purge.
Deleted == session' = NoToken /\ intent' = NoToken

-----------------------------------------------------------------------------
(* A refresh.                                                              *)

\* fetch, first statement: the session that holds the token to be sent.
Match(c) ==
    /\ At(c, "matching")
    /\ IF session = call[c].token
       THEN Goto(c, "intending")
       ELSE call' = [call EXCEPT ![c].pc = "leaving", ![c].token = NoToken]
    /\ UNCHANGED <<session, intent, lock, grants, valid, sent, removed, fault>>

\* Variant: an active intent is replaced.
IntendUnguarded(c) ==
    /\ At(c, "intending")
    /\ intent' = call[c].token
    /\ sent' = [sent EXCEPT ![call[c].token] = @ + 1]
    /\ Goto(c, "sent")
    /\ UNCHANGED <<session, lock, grants, valid, removed, fault>>
\* fetch, the transaction: no intent may be active; the new one is durable
\* before the request leaves.
Intend(c) ==
    /\ At(c, "intending")
    /\ IF intent = NoToken
       THEN /\ intent' = call[c].token
            /\ sent' = [sent EXCEPT ![call[c].token] = @ + 1]
            /\ Goto(c, "sent")
       ELSE /\ call' = [call EXCEPT ![c].pc = "leaving", ![c].token = NoToken]
            /\ UNCHANGED <<intent, sent>>
    /\ UNCHANGED <<session, lock, grants, valid, removed, fault>>

Successor(t) == <<t[1], t[2] + 1>>

\* The issuer accepts a token once and answers with its successor.
Consume(c) ==
    LET t == call[c].token IN
    /\ At(c, "sent") /\ t \in valid /\ t[2] < MaxTurns
    /\ valid' = (valid \ {t}) \cup {Successor(t)}
    /\ call' = [call EXCEPT ![c].pc = "consumed", ![c].next = Successor(t)]
    /\ UNCHANGED <<session, intent, lock, grants, sent, removed, fault>>

Answer(c) ==
    /\ At(c, "consumed")
    /\ Goto(c, "answered")
    /\ UNCHANGED <<session, intent, lock, grants, valid, sent, removed, fault>>

\* The issuer does not accept the token.
Refuse(c) ==
    /\ At(c, "sent") /\ call[c].token \notin valid
    /\ Goto(c, "refused")
    /\ UNCHANGED <<session, intent, lock, grants, valid, sent, removed, fault>>

\* Variant: a request that ended in an error takes its intent back.
LoseForgets(c) ==
    /\ call[c].pc \in {"sent", "consumed"}
    /\ call' = [call EXCEPT ![c].pc = "leaving", ![c].token = NoToken]
    /\ intent' = NoToken
    /\ UNCHANGED <<session, lock, grants, valid, sent, removed, fault>>
\* The request or its answer is lost: the caller sees an error, the intent
\* stays.
Lose(c) ==
    /\ call[c].pc \in {"sent", "consumed"}
    /\ call' = [call EXCEPT ![c].pc = "leaving", ![c].token = NoToken]
    /\ UNCHANGED <<session, intent, lock, grants, valid, sent, removed, fault>>

\* The successor is stored before the client returns it.
Keep(c) ==
    /\ At(c, "answered")
    /\ IF MayStore
       THEN /\ Stored(call[c].next)
            /\ call' = [call EXCEPT ![c].pc = "leaving", ![c].token = call[c].next]
       ELSE Goto(c, "unstored") /\ UNCHANGED <<session, intent>>
    /\ UNCHANGED <<lock, grants, valid, sent, removed, fault>>

Family(t) == {u \in Tokens : u[1] = t[1]}

\* A refused refresh deletes the session; a successor or a sign-in that could
\* not be stored is revoked first.
Discard(c) ==
    /\ call[c].pc \in {"refused", "unstored", "rejected"}
    /\ valid' = IF At(c, "refused") THEN valid ELSE valid \ Family(call[c].next)
    /\ Deleted
    /\ call' = [call EXCEPT ![c].pc = IF At(c, "rejected") THEN "idle" ELSE "leaving",
                            ![c].token = NoToken]
    /\ UNCHANGED <<lock, grants, sent, removed, fault>>

-----------------------------------------------------------------------------
(* Sign-in, disconnection, crashes.                                         *)

\* /oauth/callback: the authorization code is exchanged, then stored.
SignIn(c) ==
    LET t == <<grants + 1, 1>> IN
    /\ At(c, "idle") /\ grants < MaxGrants
    /\ grants' = grants + 1
    /\ valid' = valid \cup {t}
    /\ call' = [call EXCEPT ![c] =
                   [pc |-> "exchanged", why |-> "sign_in", token |-> NoToken, next |-> t]]
    /\ UNCHANGED <<session, intent, lock, sent, removed, fault>>

Accept(c) ==
    /\ At(c, "exchanged")
    /\ IF MayStore
       THEN /\ Stored(call[c].next) /\ removed' = FALSE
            /\ call' = [call EXCEPT ![c] = Idle]
       ELSE Goto(c, "rejected") /\ UNCHANGED <<session, intent, removed>>
    /\ UNCHANGED <<lock, grants, valid, sent, fault>>

\* disconnect(): the stored session is revoked at the issuer and deleted.
Revoke(c) ==
    /\ At(c, "revoking")
    /\ valid' = IF Readable THEN valid \ Family(session) ELSE valid
    /\ Deleted
    /\ Goto(c, "clearing")
    /\ UNCHANGED <<lock, grants, sent, removed, fault>>

\* clearSession: done whether or not the session could be revoked.
Clear(c) ==
    /\ At(c, "clearing")
    /\ Deleted /\ removed' = TRUE
    /\ call' = [call EXCEPT ![c] = Idle]
    /\ UNCHANGED <<lock, grants, valid, sent, fault>>

\* The process stops; what it had written stays, its lock row too.
Crash(c) ==
    /\ ~At(c, "idle")
    /\ call' = [call EXCEPT ![c] = Idle]
    /\ UNCHANGED <<session, intent, lock, grants, valid, sent, removed, fault>>

\* The two statements of Match and Intend run in one turn of the process.
Turn(c) == Intend(c) \/ Crash(c)
Step(c) ==
    \/ Restore(c, "use") \/ Restore(c, "disconnect")
    \/ Acquire(c) \/ GiveUp(c) \/ Read(c) \/ Leave(c)
    \/ Match(c) \/ Consume(c) \/ Answer(c) \/ Refuse(c) \/ Lose(c)
    \/ Keep(c) \/ Discard(c)
    \/ SignIn(c) \/ Accept(c) \/ Revoke(c) \/ Clear(c)

Next ==
    \/ Expire
    \/ \E c \in Callers : Turn(c)
    \/ (MidTurn => "split_turn" \in fault) /\ \E c \in Callers : Step(c)

Spec == Init /\ [][Next]_vars

-----------------------------------------------------------------------------

TypeOK ==
    /\ session \in Tokens \cup {NoToken} /\ intent \in Tokens \cup {NoToken}
    /\ lock \in Callers \cup {NoCaller}
    /\ call \in [Callers -> CallTypes]
    /\ grants \in 0..MaxGrants /\ valid \subseteq Tokens
    /\ sent \in [Tokens -> Nat]
    /\ removed \in BOOLEAN /\ fault \in Faults

\* A refresh token is presented to the issuer at most once, whatever crashes,
\* however late an answer is: an interrupted refresh is never replayed.
RefreshOnce == \A t \in Tokens : sent[t] <= 1

\* A stored session whose refresh token was already presented is marked by an
\* intent, so that every later restore is refused.
SpentIsMarked == session # NoToken /\ sent[session] > 0 => intent # NoToken

\* server.ts:446, "This app can no longer read your feeds or change your
\* mutes": what a disconnection removed stays removed until a sign-in.
StaysRemoved == removed => session = NoToken

\* oauth-session-custody.md:43-46: a retained intent requires explicit
\* reauthorization.  The intent is that of the stored session, so a sign-in is
\* not refused, unless the session was replaced in the middle of a turn.
SignInHeals == "split_turn" \notin fault => MayStore

=============================================================================
