------------------------- MODULE OAuthCustodyProofs -------------------------
(***************************************************************************)
(* Theorems about the custody of an account's OAuth session, for any number *)
(* of callers, sign-ins and refreshes.                                      *)
(***************************************************************************)
EXTENDS OAuthCustody, TLAPS

-----------------------------------------------------------------------------
(* Tokens.                                                                 *)

LEMMA TokenParts ==
    ASSUME NEW t \in Tokens
    PROVE  t[1] \in Nat /\ t[2] \in Nat /\ t # NoToken
BY BoundsAreNat DEF Tokens, NoToken

LEMMA SameParts ==
    ASSUME NEW t \in Tokens, NEW u \in Tokens, t[1] = u[1], t[2] = u[2]
    PROVE  t = u
BY BoundsAreNat DEF Tokens

LEMMA SuccessorToken ==
    ASSUME NEW t \in Tokens, t[2] < MaxTurns
    PROVE  /\ Successor(t) \in Tokens
           /\ Successor(t)[1] = t[1] /\ Successor(t)[2] = t[2] + 1
BY BoundsAreNat DEF Tokens, Successor

LEMMA FirstToken ==
    ASSUME NEW g \in Nat, g < MaxGrants
    PROVE  /\ <<g + 1, 1>> \in Tokens
           /\ <<g + 1, 1>>[1] = g + 1 /\ <<g + 1, 1>>[2] = 1
BY BoundsAreNat DEF Tokens
-----------------------------------------------------------------------------
(* Type correctness.                                                       *)

\* A call is changed by replacing its step, its tokens or all of it.
LEMMA TypedCalls ==
    ASSUME TypeOK, NEW c \in Callers, NEW p \in Steps,
           NEW t \in Tokens \cup {NoToken}
    PROVE  /\ [call EXCEPT ![c].pc = p] \in [Callers -> CallTypes]
           /\ [call EXCEPT ![c].pc = p, ![c].token = t] \in [Callers -> CallTypes]
           /\ [call EXCEPT ![c].pc = p, ![c].next = t] \in [Callers -> CallTypes]
<1>1. call \in [Callers -> CallTypes] /\ call[c] \in CallTypes
  BY DEF TypeOK
<1>2. \A r \in CallTypes : [call EXCEPT ![c] = r] \in [Callers -> CallTypes]
  BY <1>1
<1>3. [call[c] EXCEPT !.pc = p] \in CallTypes
  BY <1>1 DEF CallTypes
<1>4. [[call[c] EXCEPT !.pc = p] EXCEPT !.token = t] \in CallTypes
  BY <1>3 DEF CallTypes
<1>5. [[call[c] EXCEPT !.pc = p] EXCEPT !.next = t] \in CallTypes
  BY <1>3 DEF CallTypes
<1>6. [call EXCEPT ![c].pc = p] = [call EXCEPT ![c] = [call[c] EXCEPT !.pc = p]]
  BY <1>1
<1>7. [call EXCEPT ![c].pc = p, ![c].token = t]
         = [call EXCEPT ![c] = [[call[c] EXCEPT !.pc = p] EXCEPT !.token = t]]
  BY <1>1
<1>8. [call EXCEPT ![c].pc = p, ![c].next = t]
         = [call EXCEPT ![c] = [[call[c] EXCEPT !.pc = p] EXCEPT !.next = t]]
  BY <1>1
<1>9. [call EXCEPT ![c].pc = p] \in [Callers -> CallTypes]
  BY <1>2, <1>3, <1>6
<1>10. [call EXCEPT ![c].pc = p, ![c].token = t] \in [Callers -> CallTypes]
  BY <1>2, <1>4, <1>7
<1>11. [call EXCEPT ![c].pc = p, ![c].next = t] \in [Callers -> CallTypes]
  BY <1>2, <1>5, <1>8
<1> QED
  BY <1>9, <1>10, <1>11

\* The records with which a call begins and ends.
LEMMA WholeCalls ==
    ASSUME TypeOK, NEW c \in Callers, NEW r \in CallTypes
    PROVE  [call EXCEPT ![c] = r] \in [Callers -> CallTypes]
BY DEF TypeOK

LEMMA IdleTyped ==
    ASSUME NEW w \in {"use", "disconnect"}
    PROVE  /\ Idle \in CallTypes
           /\ [Idle EXCEPT !.pc = "waiting", !.why = w] \in CallTypes
<1>1. "idle" \in Steps /\ "waiting" \in Steps
  BY DEF Steps
<1>2. Idle \in CallTypes
  BY <1>1 DEF Idle, CallTypes
<1>3. [Idle EXCEPT !.pc = "waiting"] \in CallTypes
  BY <1>1, <1>2 DEF CallTypes
<1>4. [[Idle EXCEPT !.pc = "waiting"] EXCEPT !.why = w] \in CallTypes
  BY <1>3 DEF CallTypes
<1> QED
  BY <1>2, <1>4

LEMMA SignInTyped ==
    ASSUME NEW t \in Tokens
    PROVE  [pc |-> "exchanged", why |-> "sign_in", token |-> NoToken, next |-> t]
              \in CallTypes
BY DEF Steps, CallTypes

\* One step of one caller keeps the calls typed.
LEMMA CallsStayTyped ==
    ASSUME TypeOK, NEW c \in Callers, Step(c) \/ Turn(c)
    PROVE  call' \in [Callers -> CallTypes]
<1>1. /\ session \in Tokens \cup {NoToken}
      /\ call[c].token \in Tokens \cup {NoToken}
      /\ call[c].next \in Tokens \cup {NoToken}
      /\ NoToken \in Tokens \cup {NoToken}
      /\ grants \in Nat /\ valid \subseteq Tokens
  BY DEF TypeOK, CallTypes
<1>2. \A p \in {"waiting", "reading", "matching", "intending", "sent",
          "consumed", "answered", "refused", "unstored", "exchanged",
          "rejected", "leaving", "revoking", "clearing", "idle"} : p \in Steps
  BY DEF Steps
<1>3. AfterFailure(c) \in Steps
  BY DEF AfterFailure, Steps
<1>4. CASE Restore(c, "use")
  BY <1>4, IdleTyped, WholeCalls DEF Restore
<1>5. CASE Restore(c, "disconnect")
  BY <1>5, IdleTyped, WholeCalls DEF Restore
<1>6. CASE Acquire(c)
  BY <1>1, <1>2, <1>6, TypedCalls DEF Acquire, Goto
<1>7. CASE GiveUp(c)
  BY <1>1, <1>2, <1>3, <1>7, TypedCalls DEF GiveUp, Goto
<1>8. CASE Read(c)
  <2>1. \/ call' = [call EXCEPT ![c].pc = "leaving"]
        \/ \E p \in {"leaving", "matching"} :
              call' = [call EXCEPT ![c].pc = p, ![c].token = session]
    BY <1>8 DEF Read, Goto
  <2>2. [call EXCEPT ![c].pc = "leaving"] \in [Callers -> CallTypes]
    BY <1>1, <1>2, TypedCalls
  <2>3. \A p \in {"leaving", "matching"} :
           [call EXCEPT ![c].pc = p, ![c].token = session] \in [Callers -> CallTypes]
    BY <1>1, <1>2, TypedCalls
  <2> QED
    BY <2>1, <2>2, <2>3
<1>9. CASE Leave(c)
  <2> DEFINE p == IF call[c].why = "disconnect" /\ call[c].token # NoToken
                    THEN "revoking" ELSE AfterFailure(c)
  <2>1. p \in Steps
    BY <1>2, <1>3
  <2>2. call' = [call EXCEPT ![c].pc = p]
    BY <1>9 DEF Leave, Goto
  <2> HIDE DEF p
  <2> QED
    BY <1>1, <2>1, <2>2, TypedCalls
<1>10. CASE Match(c)
  <2>1. \/ call' = [call EXCEPT ![c].pc = "intending"]
        \/ call' = [call EXCEPT ![c].pc = "leaving", ![c].token = NoToken]
    BY <1>10 DEF Match, Goto
  <2>2. [call EXCEPT ![c].pc = "intending"] \in [Callers -> CallTypes]
    BY <1>1, <1>2, TypedCalls
  <2>3. [call EXCEPT ![c].pc = "leaving", ![c].token = NoToken] \in [Callers -> CallTypes]
    BY <1>1, <1>2, TypedCalls
  <2> QED
    BY <2>1, <2>2, <2>3
<1>11. CASE Intend(c)
  <2>1. \/ call' = [call EXCEPT ![c].pc = "sent"]
        \/ call' = [call EXCEPT ![c].pc = "leaving", ![c].token = NoToken]
    BY <1>11 DEF Intend, Goto
  <2>2. [call EXCEPT ![c].pc = "sent"] \in [Callers -> CallTypes]
    BY <1>1, <1>2, TypedCalls
  <2>3. [call EXCEPT ![c].pc = "leaving", ![c].token = NoToken] \in [Callers -> CallTypes]
    BY <1>1, <1>2, TypedCalls
  <2> QED
    BY <2>1, <2>2, <2>3
<1>12. CASE Consume(c)
  <2>1. call[c].token \in Tokens /\ call[c].token[2] < MaxTurns
    BY <1>1, <1>12 DEF Consume
  <2>2. Successor(call[c].token) \in Tokens \cup {NoToken}
    BY <2>1, SuccessorToken
  <2>3. call' = [call EXCEPT ![c].pc = "consumed", ![c].next = Successor(call[c].token)]
    BY <1>12 DEF Consume
  <2> QED
    BY <1>2, <2>2, <2>3, TypedCalls
<1>13. CASE Answer(c)
  BY <1>1, <1>2, <1>13, TypedCalls DEF Answer, Goto
<1>14. CASE Refuse(c)
  BY <1>1, <1>2, <1>14, TypedCalls DEF Refuse, Goto
<1>15. CASE Lose(c)
  BY <1>1, <1>2, <1>15, TypedCalls DEF Lose
<1>16. CASE Keep(c)
  <2>1. \/ call' = [call EXCEPT ![c].pc = "unstored"]
        \/ call' = [call EXCEPT ![c].pc = "leaving", ![c].token = call[c].next]
    BY <1>16 DEF Keep, Goto
  <2>2. [call EXCEPT ![c].pc = "unstored"] \in [Callers -> CallTypes]
    BY <1>1, <1>2, TypedCalls
  <2>3. [call EXCEPT ![c].pc = "leaving", ![c].token = call[c].next] \in [Callers -> CallTypes]
    BY <1>1, <1>2, TypedCalls
  <2> QED
    BY <2>1, <2>2, <2>3
<1>17. CASE Discard(c)
  <2>1. PICK p \in {"idle", "leaving"} :
           call' = [call EXCEPT ![c].pc = p, ![c].token = NoToken]
    BY <1>17 DEF Discard
  <2>2. p \in Steps
    BY <1>2
  <2> QED
    BY <1>1, <2>1, <2>2, TypedCalls
<1>18. CASE SignIn(c)
  <2>1. <<grants + 1, 1>> \in Tokens
    BY <1>1, <1>18, FirstToken DEF SignIn
  <2>2. call' = [call EXCEPT ![c] =
             [pc |-> "exchanged", why |-> "sign_in", token |-> NoToken, next |-> <<grants + 1, 1>>]]
    BY <1>18 DEF SignIn
  <2> QED
    BY <2>1, <2>2, SignInTyped, WholeCalls
<1>19. CASE Accept(c)
  <2>1. \/ call' = [call EXCEPT ![c] = Idle]
        \/ call' = [call EXCEPT ![c].pc = "rejected"]
    BY <1>19 DEF Accept, Goto
  <2>2. [call EXCEPT ![c] = Idle] \in [Callers -> CallTypes]
    BY IdleTyped, WholeCalls
  <2>3. [call EXCEPT ![c].pc = "rejected"] \in [Callers -> CallTypes]
    BY <1>1, <1>2, TypedCalls
  <2> QED
    BY <2>1, <2>2, <2>3
<1>20. CASE Revoke(c)
  BY <1>1, <1>2, <1>20, TypedCalls DEF Revoke, Goto
<1>21. CASE Clear(c)
  BY <1>21, IdleTyped, WholeCalls DEF Clear
<1>22. CASE Crash(c)
  BY <1>22, IdleTyped, WholeCalls DEF Crash
<1> QED
  BY <1>4, <1>5, <1>6, <1>7, <1>8, <1>9, <1>10, <1>11, <1>12, <1>13, <1>14, <1>15, <1>16, <1>17, <1>18, <1>19, <1>20, <1>21, <1>22 DEF Step, Turn

LEMMA TypeStep ==
    ASSUME TypeOK, [Next]_vars
    PROVE  TypeOK'
<1>1. CASE UNCHANGED vars
  BY <1>1 DEF vars, TypeOK
<1>2. CASE Expire
  BY <1>2 DEF Expire, TypeOK
<1>3. ASSUME NEW c \in Callers, Step(c) \/ Turn(c)
      PROVE  TypeOK'
  <2>1. call' \in [Callers -> CallTypes]
    BY <1>3, CallsStayTyped
  <2>2. /\ session \in Tokens \cup {NoToken} /\ intent \in Tokens \cup {NoToken}
        /\ lock \in Callers \cup {NoCaller}
        /\ call[c].token \in Tokens \cup {NoToken}
        /\ call[c].next \in Tokens \cup {NoToken}
        /\ grants \in 0..MaxGrants /\ valid \subseteq Tokens
        /\ sent \in [Tokens -> Nat] /\ removed \in BOOLEAN /\ fault \in Faults
    BY DEF TypeOK, CallTypes
  <2>3. CASE Restore(c, "use")
    BY <2>1, <2>2, <2>3 DEF Restore, TypeOK
  <2>4. CASE Restore(c, "disconnect")
    BY <2>1, <2>2, <2>4 DEF Restore, TypeOK
  <2>5. CASE Acquire(c)
    BY <2>1, <2>2, <2>5 DEF Acquire, TypeOK
  <2>6. CASE GiveUp(c)
    BY <2>1, <2>2, <2>6 DEF GiveUp, TypeOK
  <2>7. CASE Read(c)
    BY <2>1, <2>2, <2>7 DEF Read, TypeOK
  <2>8. CASE Leave(c)
    BY <2>1, <2>2, <2>8 DEF Leave, Unlocked, TypeOK
  <2>9. CASE Match(c)
    BY <2>1, <2>2, <2>9 DEF Match, TypeOK
  <2>10. CASE Intend(c)
    BY <2>1, <2>2, <2>10 DEF Intend, TypeOK
  <2>11. CASE Consume(c)
    <3>1. call[c].token \in Tokens /\ call[c].token[2] < MaxTurns
      BY <2>2, <2>11 DEF Consume
    <3>2. Successor(call[c].token) \in Tokens
      BY <3>1, SuccessorToken
    <3> QED
      BY <2>1, <2>2, <2>11, <3>2 DEF Consume, TypeOK
  <2>12. CASE Answer(c)
    BY <2>1, <2>2, <2>12 DEF Answer, TypeOK
  <2>13. CASE Refuse(c)
    BY <2>1, <2>2, <2>13 DEF Refuse, TypeOK
  <2>14. CASE Lose(c)
    BY <2>1, <2>2, <2>14 DEF Lose, TypeOK
  <2>15. CASE Keep(c)
    BY <2>1, <2>2, <2>15 DEF Keep, Stored, TypeOK
  <2>16. CASE Discard(c)
    BY <2>1, <2>2, <2>16 DEF Discard, Deleted, Family, TypeOK
  <2>17. CASE SignIn(c)
    <3>1. <<grants + 1, 1>> \in Tokens /\ grants + 1 \in 0..MaxGrants
      BY <2>2, <2>17, BoundsAreNat, FirstToken DEF SignIn
    <3> QED
      BY <2>1, <2>2, <2>17, <3>1 DEF SignIn, TypeOK
  <2>18. CASE Accept(c)
    BY <2>1, <2>2, <2>18 DEF Accept, Stored, Family, TypeOK
  <2>19. CASE Revoke(c)
    BY <2>1, <2>2, <2>19 DEF Revoke, Deleted, Family, TypeOK
  <2>20. CASE Clear(c)
    BY <2>1, <2>2, <2>20 DEF Clear, Deleted, TypeOK
  <2>21. CASE Crash(c)
    BY <2>1, <2>2, <2>21 DEF Crash, TypeOK
  <2> QED
    BY <1>3, <2>3, <2>4, <2>5, <2>6, <2>7, <2>8, <2>9, <2>10, <2>11, <2>12, <2>13, <2>14, <2>15, <2>16, <2>17, <2>18, <2>19, <2>20, <2>21 DEF Step, Turn
<1> QED
  BY <1>1, <1>2, <1>3 DEF Next

LEMMA TypeInit == Init => TypeOK
<1>1. Idle \in CallTypes
  BY IdleTyped
<1>2. Init => call \in [Callers -> CallTypes]
  BY <1>1 DEF Init
<1>3. Init => grants \in 0..MaxGrants
  BY BoundsAreNat DEF Init
<1>4. Init => sent \in [Tokens -> Nat]
  BY DEF Init
<1>5. Init => /\ session \in Tokens \cup {NoToken} /\ intent \in Tokens \cup {NoToken}
              /\ lock \in Callers \cup {NoCaller} /\ valid \subseteq Tokens
              /\ removed \in BOOLEAN /\ fault \in Faults
  BY DEF Init
<1> QED
  BY <1>2, <1>3, <1>4, <1>5 DEF TypeOK

\* Every variable of the custody stays in its domain.
THEOREM TypeCorrect == Spec => []TypeOK
<1>1. TypeOK /\ [Next]_vars => TypeOK'
  BY TypeStep
<1> QED
  BY TypeInit, <1>1, PTL DEF Spec

-----------------------------------------------------------------------------
(* The inductive invariant, first part: what the tokens have been used for. *)

\* A call holds a token that is not stored yet, or one it is about to send.
Fresh(c) == call[c].pc \in {"consumed", "answered", "exchanged"}
Asking(c) == call[c].pc \in {"matching", "intending"}

Known(u) ==
    \/ u = session \/ sent[u] # 0
    \/ \E c \in Callers : Fresh(c) /\ call[c].next = u
    \/ \E c \in Callers : Asking(c) /\ call[c].token = u

\* A fresh token is held by one call and was never stored, asked for or sent.
FreshIsUnused ==
    \A c \in Callers : Fresh(c) =>
        /\ call[c].next \in Tokens /\ sent[call[c].next] = 0
        /\ session # call[c].next
        /\ \A d \in Callers : Asking(d) => call[d].token # call[c].next
        /\ \A d \in Callers \ {c} : Fresh(d) => call[d].next # call[c].next

AskingIsToken == \A c \in Callers : Asking(c) => call[c].token \in Tokens

\* The issuer accepts one token of a sign-in; no later one exists yet.
ValidIsNewest ==
    \A t \in valid :
        /\ t[1] <= grants
        /\ \A u \in valid : u[1] = t[1] => u = t
        /\ \A u \in Tokens : u[1] = t[1] /\ u[2] > t[2] => ~Known(u)

\* No token of a sign-in that did not happen yet exists.
LaterIsUnknown == \A u \in Tokens : u[1] > grants => ~Known(u)

History == FreshIsUnused /\ AskingIsToken /\ ValidIsNewest /\ LaterIsUnknown /\ SpentIsMarked

LEMMA HistoryInit == Init => History
<1> SUFFICES ASSUME Init PROVE History
  OBVIOUS
<1>1. \A c \in Callers : ~Fresh(c) /\ ~Asking(c)
  BY DEF Init, Idle, Fresh, Asking
<1>2. \A u \in Tokens : ~Known(u)
  BY <1>1, TokenParts DEF Init, Known
<1> QED
  BY <1>1, <1>2 DEF Init, History, FreshIsUnused, AskingIsToken, ValidIsNewest,
     LaterIsUnknown, SpentIsMarked

\* As long as no token becomes known, what is unknown stays so.
LEMMA NothingLearned ==
    ASSUME ValidIsNewest, LaterIsUnknown, TypeOK,
           \A u \in Tokens : Known(u)' => Known(u),
           valid' \subseteq valid, grants' = grants
    PROVE  ValidIsNewest' /\ LaterIsUnknown'
<1>1. \A t \in valid' :
        /\ t[1] <= grants'
        /\ \A u \in valid' : u[1] = t[1] => u = t
        /\ \A u \in Tokens : u[1] = t[1] /\ u[2] > t[2] => ~Known(u)'
  BY DEF ValidIsNewest
<1>2. \A u \in Tokens : u[1] > grants' => ~Known(u)'
  BY DEF LaterIsUnknown
<1> QED
  BY <1>1, <1>2, Zenon DEF ValidIsNewest, LaterIsUnknown

\* The call of c is the only one that changes, and it takes up no token.
Plain(c) ==
    /\ \A d \in Callers \ {c} : call'[d] = call[d]
    /\ Fresh(c)' => Fresh(c) /\ call'[c].next = call[c].next
    /\ Asking(c)' => Asking(c) /\ call'[c].token = call[c].token

LEMMA PlainFacts ==
    ASSUME NEW c \in Callers, Plain(c)
    PROVE  \A d \in Callers :
             /\ Fresh(d)' => Fresh(d) /\ call'[d].next = call[d].next
             /\ Asking(d)' => Asking(d) /\ call'[d].token = call[d].token
<1> TAKE d \in Callers
<1>1. CASE d = c
  BY <1>1 DEF Plain
<1>2. CASE d # c
  BY <1>2 DEF Plain, Fresh, Asking
<1> QED
  BY <1>1, <1>2

\* What the two ways to move a call on change.
LEMMA MovedCall ==
    ASSUME TypeOK, NEW c \in Callers, NEW p \in Steps, NEW t \in Tokens \cup {NoToken},
           \/ call' = [call EXCEPT ![c].pc = p]
           \/ call' = [call EXCEPT ![c].pc = p, ![c].token = t]
    PROVE  /\ \A d \in Callers \ {c} : call'[d] = call[d]
           /\ call'[c].pc = p /\ call'[c].next = call[c].next
           /\ call'[c].token \in {call[c].token, t}
<1>1. call \in [Callers -> CallTypes] /\ call[c] \in CallTypes
  BY DEF TypeOK
<1>2. CASE call' = [call EXCEPT ![c].pc = p]
  BY <1>1, <1>2 DEF CallTypes
<1>3. CASE call' = [call EXCEPT ![c].pc = p, ![c].token = t]
  BY <1>1, <1>3 DEF CallTypes
<1> QED
  BY <1>2, <1>3

\* A call that moves to a step that neither holds nor asks for a token.
LEMMA MovedIsPlain ==
    ASSUME TypeOK, NEW c \in Callers, NEW t \in Tokens \cup {NoToken},
           NEW p \in Steps \ {"consumed", "answered", "exchanged", "matching", "intending"},
           \/ call' = [call EXCEPT ![c].pc = p]
           \/ call' = [call EXCEPT ![c].pc = p, ![c].token = t]
    PROVE  Plain(c) /\ ~Fresh(c)' /\ ~Asking(c)'
<1>1. (\A d \in Callers \ {c} : call'[d] = call[d]) /\ call'[c].pc = p
  BY MovedCall
<1> QED
  BY <1>1 DEF Plain, Fresh, Asking

LEMMA WholeIsPlain ==
    ASSUME TypeOK, NEW c \in Callers, NEW r \in CallTypes,
           r.pc \in {"idle", "waiting"}, call' = [call EXCEPT ![c] = r]
    PROVE  Plain(c) /\ ~Fresh(c)' /\ ~Asking(c)'
<1>1. (\A d \in Callers \ {c} : call'[d] = call[d]) /\ call'[c] = r
  BY DEF TypeOK
<1> QED
  BY <1>1 DEF Plain, Fresh, Asking

LEMMA IdleIsPlain ==
    ASSUME TypeOK, NEW c \in Callers, call' = [call EXCEPT ![c] = Idle]
    PROVE  Plain(c) /\ ~Fresh(c)' /\ ~Asking(c)'
<1>1. Idle \in CallTypes /\ Idle.pc = "idle"
  BY IdleTyped DEF Idle
<1> QED
  BY <1>1, WholeIsPlain

\* A step of this kind that stores and sends nothing.
LEMMA PlainStep ==
    ASSUME TypeOK, History, NEW c \in Callers, Plain(c), sent' = sent,
           \/ session' = NoToken
           \/ session' = session /\ intent' = intent,
           valid' \subseteq valid, grants' = grants
    PROVE  History'
<1>1. \A d \in Callers :
        /\ Fresh(d)' => Fresh(d) /\ call'[d].next = call[d].next
        /\ Asking(d)' => Asking(d) /\ call'[d].token = call[d].token
  BY PlainFacts
<1>2. FreshIsUnused'
  BY <1>1, TokenParts DEF History, FreshIsUnused
<1>3. AskingIsToken'
  BY <1>1 DEF History, AskingIsToken
<1>4. \A u \in Tokens : Known(u)' => Known(u)
  BY <1>1, TokenParts DEF Known
<1>5. ValidIsNewest' /\ LaterIsUnknown'
  BY <1>4, NothingLearned DEF History
<1>6. SpentIsMarked'
  BY DEF History, SpentIsMarked
<1> QED
  BY <1>2, <1>3, <1>5, <1>6 DEF History

\* A step that stores the fresh token of c.
LEMMA StoreStep ==
    ASSUME TypeOK, History, NEW c \in Callers, Plain(c), sent' = sent,
           Fresh(c), ~Fresh(c)', ~Asking(c)', session' = call[c].next,
           valid' \subseteq valid, grants' = grants
    PROVE  History'
<1>1. \A d \in Callers :
        /\ Fresh(d)' => d # c /\ Fresh(d) /\ call'[d].next = call[d].next
        /\ Asking(d)' => Asking(d) /\ call'[d].token = call[d].token
  BY PlainFacts
<1>2. FreshIsUnused'
  BY <1>1 DEF History, FreshIsUnused
<1>3. AskingIsToken'
  BY <1>1 DEF History, AskingIsToken
<1>4. \A u \in Tokens : Known(u)' => Known(u)
  BY <1>1 DEF Known
<1>5. ValidIsNewest' /\ LaterIsUnknown'
  BY <1>4, NothingLearned DEF History
<1>6. SpentIsMarked'
  BY DEF History, FreshIsUnused, SpentIsMarked
<1> QED
  BY <1>2, <1>3, <1>5, <1>6 DEF History

\* A caller takes the stored token up.
LEMMA ReadStep ==
    ASSUME TypeOK, TypeOK', History, NEW c \in Callers, Read(c)
    PROVE  History'
<1>0. call \in [Callers -> CallTypes] /\ At(c, "reading")
  BY DEF TypeOK, Read
<1>1. CASE ~Readable
  <2>1. Plain(c)
    BY <1>1, MovedIsPlain DEF Read, Goto, Steps
  <2> QED
    BY <1>1, <2>1, PlainStep DEF Read
<1>2. CASE Readable
  <2>1. PICK step \in {"leaving", "matching"} :
           call' = [call EXCEPT ![c].pc = step, ![c].token = session]
    BY <1>2 DEF Read
  <2>2. /\ \A d \in Callers \ {c} : call'[d] = call[d]
        /\ call'[c].pc = step /\ call'[c].token = session
    BY <1>0, <2>1 DEF CallTypes
  <2>3. \A d \in Callers :
           /\ Fresh(d)' => Fresh(d) /\ call'[d].next = call[d].next
           /\ Asking(d)' => \/ Asking(d) /\ call'[d].token = call[d].token
                            \/ call'[d].token = session
    BY <2>1, <2>2 DEF Fresh, Asking
  <2>4. /\ session' = session /\ sent' = sent /\ intent' = intent
        /\ valid' = valid /\ grants' = grants /\ session \in Tokens
    BY <1>2 DEF Read, Readable, TypeOK
  <2>5. FreshIsUnused'
    BY <2>3, <2>4 DEF History, FreshIsUnused
  <2>6. AskingIsToken'
    BY <2>3, <2>4 DEF History, AskingIsToken
  <2>7. \A u \in Tokens : Known(u)' => Known(u)
    BY <2>3, <2>4 DEF Known
  <2>8. ValidIsNewest' /\ LaterIsUnknown'
    BY <2>4, <2>7, NothingLearned DEF History
  <2>9. SpentIsMarked'
    BY <2>4 DEF History, SpentIsMarked
  <2> QED
    BY <2>5, <2>6, <2>8, <2>9 DEF History
<1> QED
  BY <1>1, <1>2

\* What a caller sends was known, and the intent marks it.
LEMMA IntendStep ==
    ASSUME TypeOK, TypeOK', History, NEW c \in Callers, Intend(c)
    PROVE  History'
<1>0. /\ call \in [Callers -> CallTypes] /\ At(c, "intending")
      /\ Asking(c) /\ call[c].token \in Tokens
  BY DEF TypeOK, Intend, At, Asking, History, AskingIsToken
<1>1. CASE intent # NoToken
  <2>1. Plain(c)
    BY <1>1, MovedIsPlain DEF Intend, Steps
  <2> QED
    BY <1>1, <2>1, PlainStep DEF Intend
<1>2. CASE intent = NoToken
  <2>1. /\ \A d \in Callers \ {c} : call'[d] = call[d]
        /\ call'[c].pc = "sent"
    BY <1>0, <1>2 DEF CallTypes, Intend, Goto
  <2>2. \A d \in Callers :
           /\ Fresh(d)' => Fresh(d) /\ call'[d].next = call[d].next
           /\ Asking(d)' => Asking(d) /\ call'[d].token = call[d].token
    BY <2>1 DEF Fresh, Asking
  <2>3. /\ session' = session /\ valid' = valid /\ grants' = grants
        /\ intent' = call[c].token /\ intent' # NoToken
    BY <1>0, <1>2, TokenParts DEF Intend
  <2>4. \A u \in Tokens : u # call[c].token => sent'[u] = sent[u]
    BY <1>0, <1>2 DEF Intend, TypeOK
  <2>5. FreshIsUnused'
    BY <1>0, <2>2, <2>3, <2>4 DEF History, FreshIsUnused
  <2>6. AskingIsToken'
    BY <2>2 DEF History, AskingIsToken
  <2>7. \A u \in Tokens : Known(u)' => Known(u)
    BY <1>0, <2>2, <2>3, <2>4 DEF Known
  <2>8. ValidIsNewest' /\ LaterIsUnknown'
    BY <2>3, <2>7, NothingLearned DEF History
  <2>9. SpentIsMarked'
    BY <2>3 DEF SpentIsMarked
  <2> QED
    BY <2>5, <2>6, <2>8, <2>9 DEF History
<1> QED
  BY <1>1, <1>2

\* A token that nobody knows is given to a caller.
LEMMA FreshStep ==
    ASSUME TypeOK, History, NEW c \in Callers, NEW t \in Tokens, ~Known(t),
           \A d \in Callers \ {c} : call'[d] = call[d],
           Fresh(c)', ~Asking(c)', call'[c].next = t,
           session' = session, intent' = intent, sent' = sent
    PROVE  /\ FreshIsUnused' /\ AskingIsToken' /\ SpentIsMarked'
           /\ \A u \in Tokens : u # t /\ Known(u)' => Known(u)
<1>1. \A d \in Callers \ {c} :
           /\ Fresh(d)' => Fresh(d) /\ call'[d].next = call[d].next
           /\ Asking(d)' => Asking(d) /\ call'[d].token = call[d].token
  BY DEF Fresh, Asking
<1>2. /\ t # session /\ sent[t] = 0
      /\ \A d \in Callers : Fresh(d) => call[d].next # t
      /\ \A d \in Callers : Asking(d) => call[d].token # t
  BY DEF Known
<1>3. FreshIsUnused'
  BY <1>1, <1>2 DEF History, FreshIsUnused
<1>4. AskingIsToken'
  BY <1>1 DEF History, AskingIsToken
<1>5. \A u \in Tokens : u # t /\ Known(u)' => Known(u)
  BY <1>1 DEF Known
<1>6. SpentIsMarked'
  BY DEF History, SpentIsMarked
<1> QED
  BY <1>3, <1>4, <1>5, <1>6

\* The successor of an accepted token is new.
LEMMA ConsumeStep ==
    ASSUME TypeOK, TypeOK', History, NEW c \in Callers, Consume(c)
    PROVE  History'
<1> DEFINE t == call[c].token
           n == Successor(t)
<1>0. /\ call \in [Callers -> CallTypes] /\ grants \in Nat
      /\ t \in valid /\ t \in Tokens /\ t[2] < MaxTurns
      /\ valid' = (valid \ {t}) \cup {n} /\ grants' = grants
      /\ session' = session /\ intent' = intent /\ sent' = sent
      /\ call' = [call EXCEPT ![c].pc = "consumed", ![c].next = n]
  BY DEF TypeOK, Consume
<1>1. t[1] \in Nat /\ t[2] \in Nat /\ n \in Tokens /\ n[1] = t[1] /\ n[2] = t[2] + 1
  BY <1>0, TokenParts, SuccessorToken
<1>2. /\ \A d \in Callers \ {c} : call'[d] = call[d]
      /\ call'[c].pc = "consumed" /\ call'[c].next = n
  BY <1>0 DEF CallTypes
<1> HIDE DEF t, n
<1>3. ~Known(n)
  BY <1>0, <1>1 DEF History, ValidIsNewest
<1>4. Fresh(c)' /\ ~Asking(c)'
  BY <1>2 DEF Fresh, Asking
<1>5. /\ FreshIsUnused' /\ AskingIsToken' /\ SpentIsMarked'
      /\ \A u \in Tokens : u # n /\ Known(u)' => Known(u)
  BY <1>0, <1>1, <1>2, <1>3, <1>4, FreshStep
<1>6. ASSUME NEW v \in valid'
      PROVE  /\ v[1] <= grants'
             /\ \A u \in valid' : u[1] = v[1] => u = v
             /\ \A u \in Tokens : u[1] = v[1] /\ u[2] > v[2] => ~Known(u)'
  <2>1. CASE v = n
    <3>1. v[1] <= grants'
      BY <1>0, <1>1, <2>1 DEF History, ValidIsNewest
    <3>2. \A u \in valid' : u[1] = v[1] => u = v
      BY <1>0, <1>1, <2>1 DEF History, ValidIsNewest
    <3>3. ASSUME NEW u \in Tokens, u[1] = v[1], u[2] > v[2]
          PROVE  ~Known(u)'
      <4>1. u[1] = t[1] /\ u[2] > t[2] /\ u # n
        BY <1>1, <2>1, <3>3, TokenParts
      <4>2. ~Known(u)
        BY <1>0, <4>1 DEF History, ValidIsNewest
      <4> QED
        BY <1>5, <4>1, <4>2
    <3> QED
      BY <3>1, <3>2, <3>3
  <2>2. CASE v # n
    <3>1. v \in valid /\ v # t /\ v[1] # t[1] /\ v[1] # n[1]
      BY <1>0, <1>1, <2>2 DEF History, ValidIsNewest
    <3>2. v[1] <= grants'
      BY <1>0, <3>1 DEF History, ValidIsNewest
    <3>3. \A u \in valid' : u[1] = v[1] => u = v
      BY <1>0, <3>1 DEF History, ValidIsNewest
    <3>4. \A u \in Tokens : u[1] = v[1] /\ u[2] > v[2] => ~Known(u)'
      BY <1>5, <3>1 DEF History, ValidIsNewest
    <3> QED
      BY <3>2, <3>3, <3>4
  <2> QED
    BY <2>1, <2>2
<1>7. ValidIsNewest'
  BY <1>6, Zenon DEF ValidIsNewest
<1>8. LaterIsUnknown'
  <2>1. t[1] <= grants
    BY <1>0 DEF History, ValidIsNewest
  <2>2. \A u \in Tokens : u[1] > grants => u # n
    BY <1>0, <1>1, <2>1
  <2> QED
    BY <1>0, <1>5, <2>2 DEF History, LaterIsUnknown
<1> QED
  BY <1>5, <1>7, <1>8 DEF History

\* So is the first token of a new sign-in.
LEMMA SignInStep ==
    ASSUME TypeOK, TypeOK', History, NEW c \in Callers, SignIn(c)
    PROVE  History'
<1> DEFINE n == <<grants + 1, 1>>
<1>0. /\ call \in [Callers -> CallTypes] /\ grants \in Nat /\ valid \subseteq Tokens
      /\ grants < MaxGrants /\ valid' = valid \cup {n} /\ grants' = grants + 1
      /\ session' = session /\ intent' = intent /\ sent' = sent
      /\ call' = [call EXCEPT ![c] =
              [pc |-> "exchanged", why |-> "sign_in", token |-> NoToken, next |-> n]]
  BY DEF TypeOK, SignIn
<1>1. n \in Tokens /\ n[1] = grants + 1 /\ n[2] = 1
  BY <1>0, FirstToken
<1>2. /\ \A d \in Callers \ {c} : call'[d] = call[d]
      /\ call'[c].pc = "exchanged" /\ call'[c].next = n
  BY <1>0
<1> HIDE DEF n
<1>3. ~Known(n)
  BY <1>0, <1>1 DEF History, LaterIsUnknown
<1>4. Fresh(c)' /\ ~Asking(c)'
  BY <1>2 DEF Fresh, Asking
<1>5. /\ FreshIsUnused' /\ AskingIsToken' /\ SpentIsMarked'
      /\ \A u \in Tokens : u # n /\ Known(u)' => Known(u)
  BY <1>0, <1>1, <1>2, <1>3, <1>4, FreshStep
<1>6. \A v \in valid : v \in Tokens /\ v[1] \in Nat /\ v[1] <= grants
  BY <1>0, TokenParts DEF History, ValidIsNewest
<1>7. ASSUME NEW v \in valid'
      PROVE  /\ v[1] <= grants'
             /\ \A u \in valid' : u[1] = v[1] => u = v
             /\ \A u \in Tokens : u[1] = v[1] /\ u[2] > v[2] => ~Known(u)'
  <2>1. CASE v = n
    <3>1. v[1] <= grants' /\ \A u \in valid' : u[1] = v[1] => u = v
      BY <1>0, <1>1, <1>6, <2>1
    <3>2. ASSUME NEW u \in Tokens, u[1] = v[1], u[2] > v[2]
          PROVE  ~Known(u)'
      <4>1. u # n /\ u[1] > grants
        BY <1>0, <1>1, <2>1, <3>2, TokenParts
      <4> QED
        BY <1>5, <4>1 DEF History, LaterIsUnknown
    <3> QED
      BY <3>1, <3>2
  <2>2. CASE v # n
    <3>1. v \in valid /\ v[1] # n[1]
      BY <1>0, <1>1, <1>6, <2>2
    <3>2. v[1] <= grants' /\ \A u \in valid' : u[1] = v[1] => u = v
      BY <1>0, <1>1, <1>6, <3>1 DEF History, ValidIsNewest
    <3>3. \A u \in Tokens : u[1] = v[1] /\ u[2] > v[2] => ~Known(u)'
      BY <1>5, <3>1 DEF History, ValidIsNewest
    <3> QED
      BY <3>2, <3>3
  <2> QED
    BY <2>1, <2>2
<1>8. ValidIsNewest'
  BY <1>7, Zenon DEF ValidIsNewest
<1>9. LaterIsUnknown'
  <2>1. \A u \in Tokens : u[1] > grants + 1 => u # n /\ u[1] > grants
    BY <1>0, <1>1, TokenParts
  <2> QED
    BY <1>0, <1>5, <2>1 DEF History, LaterIsUnknown
<1> QED
  BY <1>5, <1>8, <1>9 DEF History

\* Every other step of a caller takes up no token; a successful Keep or Accept
\* stores the one it holds.
LEMMA OtherSteps ==
    ASSUME TypeOK, TypeOK', History, NEW c \in Callers,
           \/ Restore(c, "use") \/ Restore(c, "disconnect")
           \/ Acquire(c) \/ GiveUp(c) \/ Leave(c) \/ Match(c) \/ Answer(c)
           \/ Refuse(c) \/ Lose(c) \/ Discard(c) \/ Revoke(c) \/ Clear(c) \/ Crash(c)
    PROVE  History'
<1>0. call \in [Callers -> CallTypes] /\ call[c] \in CallTypes
      /\ NoToken \in Tokens \cup {NoToken}
  BY DEF TypeOK
<1>1. ASSUME NEW w \in {"use", "disconnect"}, Restore(c, w)
      PROVE  History'
  <2> DEFINE r == [Idle EXCEPT !.pc = "waiting", !.why = w]
  <2>1. r \in CallTypes /\ r.pc = "waiting" /\ call' = [call EXCEPT ![c] = r]
    BY <1>1, IdleTyped DEF Idle, Restore
  <2> HIDE DEF r
  <2>2. Plain(c)
    BY <2>1, WholeIsPlain
  <2> QED
    BY <1>1, <2>2, PlainStep DEF Restore
<1>2. CASE Acquire(c)
  <2>1. Plain(c)
    BY <1>0, <1>2, MovedIsPlain DEF Acquire, Goto, Steps
  <2> QED
    BY <1>2, <2>1, PlainStep DEF Acquire
<1>3. CASE GiveUp(c)
  <2>1. /\ AfterFailure(c) \in {"idle", "clearing"} /\ {"idle", "clearing"} \subseteq Steps
        /\ call' = [call EXCEPT ![c].pc = AfterFailure(c)]
    BY <1>3 DEF GiveUp, Goto, AfterFailure, Steps
  <2>2. Plain(c)
    BY <1>0, <2>1, MovedIsPlain
  <2> QED
    BY <1>3, <2>2, PlainStep DEF GiveUp
<1>4. CASE Leave(c)
  <2>1. \E p \in {"idle", "clearing", "revoking"} : call' = [call EXCEPT ![c].pc = p]
    BY <1>4 DEF Leave, AfterFailure, Goto
  <2>2. Plain(c)
    BY <1>0, <2>1, MovedIsPlain DEF Steps
  <2> QED
    BY <1>4, <2>2, PlainStep DEF Leave
<1>5. CASE Match(c)
  <2>1. CASE call' = [call EXCEPT ![c].pc = "intending"]
    <3>1. /\ \A d \in Callers \ {c} : call'[d] = call[d]
          /\ call'[c].pc = "intending" /\ call'[c].token = call[c].token
      BY <1>0, <2>1 DEF CallTypes
    <3>2. Plain(c)
      BY <1>5, <3>1 DEF Plain, Fresh, Asking, Match, At
    <3> QED
      BY <1>5, <3>2, PlainStep DEF Match
  <2>2. CASE call' = [call EXCEPT ![c].pc = "leaving", ![c].token = NoToken]
    <3>1. Plain(c)
      BY <1>0, <2>2, MovedIsPlain DEF Steps
    <3> QED
      BY <1>5, <3>1, PlainStep DEF Match
  <2> QED
    BY <1>5, <2>1, <2>2 DEF Match, Goto
<1>6. CASE Answer(c)
  <2>1. /\ \A d \in Callers \ {c} : call'[d] = call[d]
        /\ call'[c].pc = "answered" /\ call'[c].next = call[c].next
    BY <1>0, <1>6 DEF Answer, Goto, CallTypes
  <2>2. Plain(c)
    BY <1>6, <2>1 DEF Plain, Fresh, Asking, Answer, At
  <2> QED
    BY <1>6, <2>2, PlainStep DEF Answer
<1>7. CASE Refuse(c)
  <2>1. Plain(c)
    BY <1>0, <1>7, MovedIsPlain DEF Refuse, Goto, Steps
  <2> QED
    BY <1>7, <2>1, PlainStep DEF Refuse
<1>8. CASE Lose(c)
  <2>1. Plain(c)
    BY <1>0, <1>8, MovedIsPlain DEF Lose, Steps
  <2> QED
    BY <1>8, <2>1, PlainStep DEF Lose
<1>9. CASE Discard(c)
  <2>1. \E p \in {"idle", "leaving"} :
           call' = [call EXCEPT ![c].pc = p, ![c].token = NoToken]
    BY <1>9 DEF Discard
  <2>2. Plain(c)
    BY <1>0, <2>1, MovedIsPlain DEF Steps
  <2>3. valid' \subseteq valid
    BY <1>9 DEF Discard
  <2> QED
    BY <1>9, <2>2, <2>3, PlainStep DEF Discard, Deleted
<1>10. CASE Revoke(c)
  <2>1. Plain(c)
    BY <1>0, <1>10, MovedIsPlain DEF Revoke, Goto, Steps
  <2> QED
    BY <1>10, <2>1, PlainStep DEF Revoke, Deleted
<1>11. CASE Clear(c)
  <2>1. Plain(c)
    BY <1>11, IdleIsPlain DEF Clear
  <2> QED
    BY <1>11, <2>1, PlainStep DEF Clear, Deleted
<1>12. CASE Crash(c)
  <2>1. Plain(c)
    BY <1>12, IdleIsPlain DEF Crash
  <2> QED
    BY <1>12, <2>1, PlainStep DEF Crash
<1> QED
  BY <1>1, <1>2, <1>3, <1>4, <1>5, <1>6, <1>7, <1>8, <1>9, <1>10, <1>11, <1>12

\* The successor is stored, or the store refuses it.
LEMMA KeepStep ==
    ASSUME TypeOK, TypeOK', History, NEW c \in Callers, Keep(c)
    PROVE  History'
<1>0. /\ call[c].next \in Tokens \cup {NoToken} /\ Fresh(c)
      /\ sent' = sent /\ valid' = valid /\ grants' = grants
  BY DEF TypeOK, CallTypes, Keep, At, Fresh
<1>1. CASE MayStore
  <2>1. Plain(c) /\ ~Fresh(c)' /\ ~Asking(c)'
    BY <1>0, <1>1, MovedIsPlain DEF Keep, Steps
  <2>2. session' = call[c].next
    BY <1>1 DEF Keep, Stored
  <2> QED
    BY <1>0, <2>1, <2>2, StoreStep
<1>2. CASE ~MayStore
  <2>1. Plain(c)
    BY <1>0, <1>2, MovedIsPlain DEF Keep, Goto, Steps
  <2> QED
    BY <1>0, <1>2, <2>1, PlainStep DEF Keep
<1> QED
  BY <1>1, <1>2

LEMMA AcceptStep ==
    ASSUME TypeOK, TypeOK', History, NEW c \in Callers, Accept(c)
    PROVE  History'
<1>0. /\ Fresh(c) /\ sent' = sent /\ valid' = valid /\ grants' = grants
      /\ NoToken \in Tokens \cup {NoToken}
  BY DEF Accept, At, Fresh
<1>1. CASE MayStore
  <2>1. Plain(c) /\ ~Fresh(c)' /\ ~Asking(c)'
    BY <1>1, IdleIsPlain DEF Accept
  <2>2. session' = call[c].next
    BY <1>1 DEF Accept, Stored
  <2> QED
    BY <1>0, <2>1, <2>2, StoreStep
<1>2. CASE ~MayStore
  <2>1. call' = [call EXCEPT ![c].pc = "rejected"]
    BY <1>2 DEF Accept, Goto
  <2>2. Plain(c)
    BY <1>0, <2>1, MovedIsPlain DEF Steps
  <2> QED
    BY <1>0, <1>2, <2>2, PlainStep DEF Accept
<1> QED
  BY <1>1, <1>2

LEMMA HistoryStep ==
    ASSUME TypeOK, TypeOK', History, [Next]_vars
    PROVE  History'
<1>1. CASE UNCHANGED <<session, intent, call, grants, valid, sent>>
  BY <1>1 DEF History, FreshIsUnused, AskingIsToken, ValidIsNewest, LaterIsUnknown,
     SpentIsMarked, Known, Fresh, Asking
<1>2. CASE Expire
  BY <1>1, <1>2 DEF Expire
<1>3. ASSUME NEW c \in Callers, Step(c) \/ Turn(c)
      PROVE  History'
  BY <1>3, ReadStep, IntendStep, ConsumeStep, SignInStep, KeepStep, AcceptStep,
     OtherSteps DEF Step, Turn
<1> QED
  BY <1>1, <1>2, <1>3 DEF Next, vars

\* A stored session whose refresh token was presented is marked by an intent,
\* for any number of callers and whatever faults occur.
THEOREM SpentSessionsAreMarked == Spec => []SpentIsMarked
<1>1. TypeOK /\ History /\ [Next]_vars => TypeOK' /\ History'
  BY TypeStep, HistoryStep
<1>2. History => SpentIsMarked
  BY DEF History
<1> QED
  BY TypeInit, HistoryInit, <1>1, <1>2, PTL DEF Spec

-----------------------------------------------------------------------------
(* The inductive invariant, second part: the lock, or else the intent, keeps *)
(* two callers from presenting the same token.                              *)

\* Between the two statements of a turn the session stays the one found.
TurnIsWhole ==
    "split_turn" \notin fault =>
        \A c \in Callers : At(c, "intending") =>
            /\ session = call[c].token
            /\ \A d \in Callers \ {c} : ~At(d, "intending")

\* No call outlives its lock row: the row is that of the call at work.
LockIsHeld ==
    "late_lock" \notin fault => \A c \in Callers : call[c].pc \in Locked => lock = c

AskingIsUnsent ==
    "late_lock" \notin fault =>
        \A c \in Callers : Asking(c) => sent[call[c].token] = 0

Custody == TurnIsWhole /\ LockIsHeld /\ AskingIsUnsent /\ RefreshOnce /\ SignInHeals

LEMMA CustodyInit == Init => Custody
<1> SUFFICES ASSUME Init PROVE Custody
  OBVIOUS
<1>1. \A c \in Callers : call[c].pc = "idle"
  BY DEF Init, Idle
<1>2. TurnIsWhole /\ LockIsHeld /\ AskingIsUnsent
  BY <1>1 DEF TurnIsWhole, LockIsHeld, AskingIsUnsent, At, Asking, Locked
<1>3. RefreshOnce /\ SignInHeals
  BY DEF Init, RefreshOnce, SignInHeals, MayStore
<1> QED
  BY <1>2, <1>3 DEF Custody

\* A step of c that neither takes the lock, asks for a token nor sends one.
Calm(c) ==
    /\ \A d \in Callers \ {c} : call'[d] = call[d]
    /\ ~Asking(c)' /\ (call'[c].pc \in Locked => call[c].pc \in Locked)
    /\ lock' = lock /\ sent' = sent /\ fault' = fault
    /\ intent' = NoToken \/ (session' = session /\ intent' = intent)
    /\ "split_turn" \notin fault /\ MidTurn => session' = session

LEMMA CalmStep ==
    ASSUME Custody, NEW c \in Callers, Calm(c)
    PROVE  Custody'
<1>1. ASSUME NEW d \in Callers, Asking(d)'
      PROVE  d # c /\ Asking(d) /\ call'[d] = call[d]
  BY <1>1 DEF Calm, Asking
<1>2. TurnIsWhole'
  <2> SUFFICES ASSUME "split_turn" \notin fault, NEW d \in Callers, At(d, "intending")'
               PROVE  /\ session' = call'[d].token
                      /\ \A e \in Callers \ {d} : ~At(e, "intending")'
    BY DEF Calm, TurnIsWhole
  <2>1. d # c /\ At(d, "intending") /\ call'[d] = call[d]
    BY <1>1 DEF Asking, At
  <2>2. session' = session /\ session = call[d].token
    BY <2>1 DEF Calm, Custody, TurnIsWhole, MidTurn
  <2>3. \A e \in Callers \ {d} : At(e, "intending")' => e # c /\ At(e, "intending")
    BY <1>1 DEF Asking, At
  <2> QED
    BY <2>1, <2>2, <2>3 DEF Custody, TurnIsWhole
<1>3. LockIsHeld'
  BY DEF Calm, Custody, LockIsHeld
<1>4. AskingIsUnsent'
  BY <1>1 DEF Calm, Custody, AskingIsUnsent
<1>5. RefreshOnce'
  BY DEF Calm, Custody, RefreshOnce
<1>6. SignInHeals'
  BY DEF Calm, Custody, SignInHeals, MayStore
<1> QED
  BY <1>2, <1>3, <1>4, <1>5, <1>6 DEF Custody

\* The steps that are calm, by the way they change the call.
LEMMA CalmMove ==
    ASSUME TypeOK, NEW c \in Callers, NEW t \in Tokens \cup {NoToken},
           NEW p \in Steps \ {"matching", "intending"},
           \/ call' = [call EXCEPT ![c].pc = p]
           \/ call' = [call EXCEPT ![c].pc = p, ![c].token = t],
           p \in Locked => call[c].pc \in Locked,
           lock' = lock, sent' = sent, fault' = fault,
           \/ session' = session /\ intent' = intent
           \/ intent' = NoToken /\ ("split_turn" \notin fault => ~MidTurn)
    PROVE  Calm(c)
<1>1. (\A d \in Callers \ {c} : call'[d] = call[d]) /\ call'[c].pc = p
  BY MovedCall
<1>2. ~Asking(c)'
  BY <1>1 DEF Asking
<1>3. "split_turn" \notin fault /\ MidTurn => session' = session
  OBVIOUS
<1>4. intent' = NoToken \/ (session' = session /\ intent' = intent)
  OBVIOUS
<1> QED
  BY <1>1, <1>2, <1>3, <1>4 DEF Calm

LEMMA CalmWhole ==
    ASSUME TypeOK, NEW c \in Callers, NEW r \in CallTypes,
           r.pc \in {"idle", "waiting", "exchanged"}, call' = [call EXCEPT ![c] = r],
           lock' = lock, sent' = sent, fault' = fault,
           \/ session' = session /\ intent' = intent
           \/ intent' = NoToken /\ ("split_turn" \notin fault => ~MidTurn)
    PROVE  Calm(c)
<1>1. (\A d \in Callers \ {c} : call'[d] = call[d]) /\ call'[c] = r
  BY DEF TypeOK
<1>2. ~Asking(c)' /\ call'[c].pc \notin Locked
  BY <1>1 DEF Asking, Locked
<1>3. "split_turn" \notin fault /\ MidTurn => session' = session
  OBVIOUS
<1>4. intent' = NoToken \/ (session' = session /\ intent' = intent)
  OBVIOUS
<1> QED
  BY <1>1, <1>2, <1>3, <1>4 DEF Calm

LEMMA CrashIsCalm ==
    ASSUME TypeOK, NEW c \in Callers, Crash(c)
    PROVE  Calm(c)
<1>1. Idle \in CallTypes /\ Idle.pc = "idle"
  BY IdleTyped DEF Idle
<1> QED
  BY <1>1, CalmWhole DEF Crash

LEMMA CalmSteps ==
    ASSUME TypeOK, NEW c \in Callers, "split_turn" \notin fault => ~MidTurn,
           \/ Restore(c, "use") \/ Restore(c, "disconnect") \/ GiveUp(c)
           \/ Consume(c) \/ Answer(c) \/ Refuse(c) \/ Lose(c) \/ Keep(c) \/ Discard(c)
           \/ SignIn(c) \/ Accept(c) \/ Revoke(c) \/ Clear(c)
    PROVE  Calm(c)
<1>0. /\ call \in [Callers -> CallTypes] /\ NoToken \in Tokens \cup {NoToken}
      /\ call[c].next \in Tokens \cup {NoToken} /\ grants \in Nat
      /\ Idle \in CallTypes /\ Idle.pc = "idle"
  BY IdleTyped DEF TypeOK, CallTypes, Idle
<1>1. ASSUME NEW w \in {"use", "disconnect"}, Restore(c, w)
      PROVE  Calm(c)
  <2> DEFINE r == [Idle EXCEPT !.pc = "waiting", !.why = w]
  <2>1. r \in CallTypes /\ r.pc = "waiting" /\ call' = [call EXCEPT ![c] = r]
    BY <1>1, IdleTyped DEF Idle, Restore
  <2> HIDE DEF r
  <2> QED
    BY <1>1, <2>1, CalmWhole DEF Restore
<1>2. CASE GiveUp(c)
  <2>1. /\ AfterFailure(c) \in Steps \ {"matching", "intending"}
        /\ AfterFailure(c) \notin Locked
        /\ call' = [call EXCEPT ![c].pc = AfterFailure(c)]
    BY <1>2 DEF GiveUp, Goto, AfterFailure, Steps, Locked
  <2> QED
    BY <1>0, <1>2, <2>1, CalmMove DEF GiveUp
<1>3. CASE Consume(c)
  <2>1. /\ \A d \in Callers \ {c} : call'[d] = call[d]
        /\ call'[c].pc = "consumed"
    BY <1>0, <1>3 DEF Consume, CallTypes
  <2>2. ~Asking(c)' /\ call[c].pc \in Locked
    BY <1>3, <2>1 DEF Asking, Consume, At, Locked
  <2> QED
    BY <1>3, <2>1, <2>2 DEF Calm, Consume
<1>4. CASE Answer(c)
  <2>1. call[c].pc \in Locked /\ "answered" \in Steps \ {"matching", "intending"}
    BY <1>4 DEF Answer, At, Locked, Steps
  <2>2. call' = [call EXCEPT ![c].pc = "answered"]
    BY <1>4 DEF Answer, Goto
  <2>3. /\ lock' = lock /\ sent' = sent /\ fault' = fault
        /\ session' = session /\ intent' = intent
    BY <1>4 DEF Answer
  <2> QED
    BY <1>0, <2>1, <2>2, <2>3, CalmMove
<1>5. CASE Refuse(c)
  <2>1. call[c].pc \in Locked /\ "refused" \in Steps \ {"matching", "intending"}
    BY <1>5 DEF Refuse, At, Locked, Steps
  <2>2. call' = [call EXCEPT ![c].pc = "refused"]
    BY <1>5 DEF Refuse, Goto
  <2>3. /\ lock' = lock /\ sent' = sent /\ fault' = fault
        /\ session' = session /\ intent' = intent
    BY <1>5 DEF Refuse
  <2> QED
    BY <1>0, <2>1, <2>2, <2>3, CalmMove
<1>6. CASE Lose(c)
  <2>1. call[c].pc \in Locked /\ "leaving" \in Steps \ {"matching", "intending"}
    BY <1>6 DEF Lose, Locked, Steps
  <2>2. call' = [call EXCEPT ![c].pc = "leaving", ![c].token = NoToken]
    BY <1>6 DEF Lose
  <2>3. /\ lock' = lock /\ sent' = sent /\ fault' = fault
        /\ session' = session /\ intent' = intent
    BY <1>6 DEF Lose
  <2> QED
    BY <1>0, <2>1, <2>2, <2>3, CalmMove
<1>7. CASE Keep(c)
  <2>1. call[c].pc \in Locked /\ "leaving" \in Steps /\ "unstored" \in Steps
    BY <1>7 DEF Keep, At, Locked, Steps
  <2> QED
    BY <1>0, <1>7, <2>1, CalmMove DEF Keep, Goto, Stored
<1>8. CASE Discard(c)
  <2> DEFINE p == IF At(c, "rejected") THEN "idle" ELSE "leaving"
  <2>1. p \in Steps \ {"matching", "intending"}
    BY DEF Steps
  <2>2. call' = [call EXCEPT ![c].pc = p, ![c].token = NoToken]
    BY <1>8 DEF Discard
  <2>3. p \in Locked => call[c].pc \in Locked
    BY <1>8 DEF Discard, At, Locked
  <2>4. lock' = lock /\ sent' = sent /\ fault' = fault /\ intent' = NoToken
    BY <1>8 DEF Discard, Deleted
  <2> HIDE DEF p
  <2> QED
    BY <1>0, <2>1, <2>2, <2>3, <2>4, CalmMove
<1>9. CASE SignIn(c)
  <2> DEFINE r == [pc |-> "exchanged", why |-> "sign_in", token |-> NoToken,
                   next |-> <<grants + 1, 1>>]
  <2>1. r \in CallTypes /\ r.pc = "exchanged" /\ call' = [call EXCEPT ![c] = r]
    BY <1>0, <1>9, FirstToken, SignInTyped DEF SignIn
  <2> HIDE DEF r
  <2> QED
    BY <1>9, <2>1, CalmWhole DEF SignIn
<1>10. CASE Accept(c)
  <2>1. CASE MayStore
    BY <1>0, <1>10, <2>1, CalmWhole DEF Accept, Stored
  <2>2. CASE ~MayStore
    <3>1. /\ "rejected" \in Steps \ {"matching", "intending"} /\ "rejected" \notin Locked
          /\ call' = [call EXCEPT ![c].pc = "rejected"]
      BY <1>10, <2>2 DEF Accept, Goto, Steps, Locked
    <3>2. /\ lock' = lock /\ sent' = sent /\ fault' = fault
          /\ session' = session /\ intent' = intent
      BY <1>10, <2>2 DEF Accept
    <3> QED
      BY <1>0, <3>1, <3>2, CalmMove
  <2> QED
    BY <2>1, <2>2
<1>11. CASE Revoke(c)
  <2>1. "clearing" \in Steps /\ "clearing" \notin Locked
    BY DEF Locked, Steps
  <2> QED
    BY <1>0, <1>11, <2>1, CalmMove DEF Revoke, Goto, Deleted
<1>12. CASE Clear(c)
  BY <1>0, <1>12, CalmWhole DEF Clear, Deleted
<1> QED
  BY <1>1, <1>2, <1>3, <1>4, <1>5, <1>6, <1>7, <1>8, <1>9, <1>10, <1>11, <1>12

\* A step that only the lock and the calls notice: nobody begins to ask.
LEMMA LockStep ==
    ASSUME Custody, NEW c \in Callers, \A d \in Callers \ {c} : call'[d] = call[d],
           ~Asking(c)', LockIsHeld',
           session' = session, intent' = intent, sent' = sent, fault' = fault
    PROVE  Custody'
<1>1. \A d \in Callers : Asking(d)' => d # c /\ Asking(d) /\ call'[d] = call[d]
  BY DEF Asking
<1>2. \A d \in Callers : At(d, "intending")' => d # c /\ At(d, "intending") /\ call'[d] = call[d]
  BY <1>1 DEF At, Asking
<1>3. TurnIsWhole'
  BY <1>2 DEF Custody, TurnIsWhole
<1>4. AskingIsUnsent'
  BY <1>1 DEF Custody, AskingIsUnsent
<1>5. RefreshOnce' /\ SignInHeals'
  BY DEF Custody, RefreshOnce, SignInHeals, MayStore
<1> QED
  BY <1>3, <1>4, <1>5 DEF Custody

\* The row is free when it is taken, so no call is at work.
LEMMA AcquireStep ==
    ASSUME TypeOK, Custody, NEW c \in Callers, Acquire(c)
    PROVE  Custody'
<1>1. "reading" \in Steps /\ NoToken \in Tokens \cup {NoToken}
  BY DEF Steps
<1>2. /\ \A d \in Callers \ {c} : call'[d] = call[d]
      /\ call'[c].pc = "reading"
  BY <1>1, MovedCall DEF Acquire, Goto
<1>3. ~Asking(c)'
  BY <1>2 DEF Asking
<1>4. LockIsHeld'
  BY <1>2, NoCallerIsNone DEF Acquire, Custody, LockIsHeld
<1> QED
  BY <1>2, <1>3, <1>4, LockStep DEF Acquire

LEMMA LeaveStep ==
    ASSUME TypeOK, Custody, NEW c \in Callers, Leave(c)
    PROVE  Custody'
<1>0. NoToken \in Tokens \cup {NoToken}
  OBVIOUS
<1>1. PICK p \in {"idle", "clearing", "revoking"} : call' = [call EXCEPT ![c].pc = p]
  BY DEF Leave, AfterFailure, Goto
<1>2. p \in Steps /\ p \notin Locked
  BY DEF Steps, Locked
<1>3. /\ \A d \in Callers \ {c} : call'[d] = call[d]
      /\ call'[c].pc = p
  BY <1>0, <1>1, <1>2, MovedCall
<1>4. ~Asking(c)'
  BY <1>3 DEF Asking
<1>5. call[c].pc \in Locked
  BY DEF Leave, At, Locked
<1>6. LockIsHeld'
  BY <1>2, <1>3, <1>5 DEF Leave, Unlocked, Custody, LockIsHeld
<1> QED
  BY <1>3, <1>4, <1>6, LockStep DEF Leave

\* A row runs out only when its owner is no longer at work, or late.
LEMMA ExpireStep ==
    ASSUME TypeOK, Custody, Expire
    PROVE  Custody'
<1>1. /\ session' = session /\ intent' = intent /\ sent' = sent
      /\ fault' = fault /\ call' = call
  BY DEF Expire
<1>2. LockIsHeld'
  BY <1>1 DEF Expire, Custody, LockIsHeld
<1> QED
  BY <1>1, <1>2 DEF Custody, TurnIsWhole, AskingIsUnsent, Asking, At,
     RefreshOnce, SignInHeals, MayStore

\* A session that can be read was not presented yet.
LEMMA CustodyRead ==
    ASSUME TypeOK, History, Custody, NEW c \in Callers, Read(c),
           "split_turn" \notin fault => ~MidTurn
    PROVE  Custody'
<1>0. /\ call[c].pc \in Locked /\ {"leaving", "matching"} \subseteq Steps
      /\ "leaving" \in Steps \ {"matching", "intending"}
      /\ session \in Tokens \cup {NoToken} /\ NoToken \in Tokens \cup {NoToken}
  BY DEF TypeOK, Read, At, Locked, Steps
<1>1. /\ session' = session /\ intent' = intent /\ sent' = sent
      /\ fault' = fault /\ lock' = lock
  BY DEF Read
<1>2. CASE ~Readable
  <2>1. call' = [call EXCEPT ![c].pc = "leaving"]
    BY <1>2 DEF Read, Goto
  <2> QED
    BY <1>0, <1>1, <2>1, CalmMove, CalmStep
<1>3. CASE Readable
  <2>1. PICK p \in {"leaving", "matching"} :
           call' = [call EXCEPT ![c].pc = p, ![c].token = session]
    BY <1>3 DEF Read
  <2>2. /\ \A d \in Callers \ {c} : call'[d] = call[d]
        /\ call'[c].pc = p /\ call'[c].token = session
    BY <1>0, <2>1 DEF TypeOK, CallTypes
  <2>3. session \in Tokens /\ sent[session] = 0
    BY <1>0, <1>3 DEF Readable, History, SpentIsMarked, TypeOK
  <2>4. \A d \in Callers : At(d, "intending")' => At(d, "intending") /\ call'[d] = call[d]
    BY <2>2 DEF At
  <2>5. TurnIsWhole'
    BY <1>1, <2>4 DEF Custody, TurnIsWhole
  <2>6. LockIsHeld'
    BY <1>0, <1>1, <2>2 DEF Custody, LockIsHeld
  <2>7. \A d \in Callers : Asking(d)' => \/ Asking(d) /\ call'[d] = call[d]
                                         \/ call'[d].token = session
    BY <2>2 DEF Asking
  <2>8. AskingIsUnsent'
    BY <1>1, <2>3, <2>7 DEF Custody, AskingIsUnsent
  <2>9. RefreshOnce' /\ SignInHeals'
    BY <1>1 DEF Custody, RefreshOnce, SignInHeals, MayStore
  <2> QED
    BY <2>5, <2>6, <2>8, <2>9 DEF Custody
<1> QED
  BY <1>2, <1>3

\* The turn begins with the session found, and no other turn is open.
LEMMA MatchStep ==
    ASSUME TypeOK, Custody, NEW c \in Callers, Match(c),
           "split_turn" \notin fault => ~MidTurn
    PROVE  Custody'
<1>0. /\ call[c].pc \in Locked /\ Asking(c)
      /\ "leaving" \in Steps \ {"matching", "intending"} /\ "intending" \in Steps
      /\ NoToken \in Tokens \cup {NoToken}
  BY DEF Match, At, Asking, Locked, Steps
<1>1. /\ session' = session /\ intent' = intent /\ sent' = sent
      /\ fault' = fault /\ lock' = lock
  BY DEF Match
<1>2. CASE session # call[c].token
  <2>1. call' = [call EXCEPT ![c].pc = "leaving", ![c].token = NoToken]
    BY <1>2 DEF Match
  <2> QED
    BY <1>0, <1>1, <2>1, CalmMove, CalmStep
<1>3. CASE session = call[c].token
  <2>1. call' = [call EXCEPT ![c].pc = "intending"]
    BY <1>3 DEF Match, Goto
  <2>2. /\ \A d \in Callers \ {c} : call'[d] = call[d]
        /\ call'[c].pc = "intending" /\ call'[c].token = call[c].token
    BY <2>1 DEF TypeOK, CallTypes
  <2>3. TurnIsWhole'
    <3> SUFFICES ASSUME "split_turn" \notin fault
                 PROVE  \A d \in Callers : At(d, "intending")' => d = c
      BY <1>1, <1>3, <2>2 DEF TurnIsWhole
    <3> QED
      BY <2>2 DEF MidTurn, At
  <2>4. LockIsHeld'
    BY <1>0, <1>1, <2>2 DEF Custody, LockIsHeld
  <2>5. AskingIsUnsent'
    BY <1>0, <1>1, <2>2 DEF Custody, AskingIsUnsent, Asking
  <2>6. RefreshOnce' /\ SignInHeals'
    BY <1>1 DEF Custody, RefreshOnce, SignInHeals, MayStore
  <2> QED
    BY <2>3, <2>4, <2>5, <2>6 DEF Custody
<1> QED
  BY <1>2, <1>3

\* The token sent was not presented before: the lock shut every other caller
\* out, or the session is still the one found and no intent marks it.
LEMMA CustodyIntend ==
    ASSUME TypeOK, History, Custody, NEW c \in Callers, Intend(c)
    PROVE  Custody'
<1>0. /\ call[c].pc \in Locked /\ Asking(c) /\ At(c, "intending")
      /\ call[c].token \in Tokens /\ call[c].token # NoToken
      /\ "leaving" \in Steps \ {"matching", "intending"} /\ "sent" \in Steps
      /\ NoToken \in Tokens \cup {NoToken}
  BY TokenParts DEF Intend, At, Asking, Locked, Steps, History, AskingIsToken
<1>1. session' = session /\ fault' = fault /\ lock' = lock
  BY DEF Intend
<1>2. CASE intent # NoToken
  <2>1. call' = [call EXCEPT ![c].pc = "leaving", ![c].token = NoToken]
    BY <1>2 DEF Intend
  <2>2. sent' = sent /\ intent' = intent
    BY <1>2 DEF Intend
  <2> QED
    BY <1>0, <1>1, <2>1, <2>2, CalmMove, CalmStep
<1>3. CASE intent = NoToken
  <2>1. /\ intent' = call[c].token
        /\ sent' = [sent EXCEPT ![call[c].token] = @ + 1]
        /\ call' = [call EXCEPT ![c].pc = "sent"]
    BY <1>3 DEF Intend, Goto
  <2>2. /\ \A d \in Callers \ {c} : call'[d] = call[d]
        /\ call'[c].pc = "sent"
    BY <1>0, <2>1, MovedCall
  <2>3. sent[call[c].token] = 0
    <3>1. CASE "late_lock" \notin fault
      BY <1>0, <3>1 DEF Custody, AskingIsUnsent
    <3>2. CASE "split_turn" \notin fault
      <4>1. session = call[c].token
        BY <1>0, <3>2 DEF Custody, TurnIsWhole
      <4> QED
        BY <1>0, <1>3, <4>1 DEF History, SpentIsMarked, TypeOK
    <3> QED
      BY <3>1, <3>2, FaultsKnown DEF TypeOK
  <2>4. /\ sent'[call[c].token] = 1
        /\ \A u \in Tokens : u # call[c].token => sent'[u] = sent[u]
    BY <1>0, <2>1, <2>3 DEF TypeOK
  <2>5. \A d \in Callers : Asking(d)' => d # c /\ Asking(d) /\ call'[d] = call[d]
    BY <2>2 DEF Asking
  <2>6. TurnIsWhole'
    <3>1. \A d \in Callers : At(d, "intending")' => d # c /\ At(d, "intending")
      BY <2>2 DEF At
    <3> QED
      BY <1>0, <1>1, <3>1 DEF Custody, TurnIsWhole
  <2>7. LockIsHeld'
    BY <1>0, <1>1, <2>2 DEF Custody, LockIsHeld
  <2>8. AskingIsUnsent'
    <3> SUFFICES ASSUME "late_lock" \notin fault, NEW d \in Callers, Asking(d)'
                 PROVE  FALSE
      BY <1>1 DEF AskingIsUnsent
    <3>1. d # c /\ call[d].pc \in Locked
      BY <2>5 DEF Asking, Locked
    <3> QED
      BY <1>0, <3>1 DEF Custody, LockIsHeld
  <2>9. RefreshOnce'
    BY <2>4 DEF Custody, RefreshOnce
  <2>10. SignInHeals'
    BY <1>0, <1>1, <2>1 DEF Custody, TurnIsWhole, SignInHeals, MayStore
  <2> QED
    BY <2>6, <2>7, <2>8, <2>9, <2>10 DEF Custody
<1> QED
  BY <1>2, <1>3

LEMMA CustodyStep ==
    ASSUME TypeOK, History, Custody, [Next]_vars
    PROVE  Custody'
<1>1. CASE UNCHANGED vars
  BY <1>1 DEF vars, Custody, TurnIsWhole, LockIsHeld, AskingIsUnsent, Asking, At,
     RefreshOnce, SignInHeals, MayStore
<1>2. CASE Expire
  BY <1>2, ExpireStep
<1>3. ASSUME NEW c \in Callers, Turn(c)
      PROVE  Custody'
  BY <1>3, CustodyIntend, CrashIsCalm, CalmStep DEF Turn
<1>4. ASSUME NEW c \in Callers, Step(c), "split_turn" \notin fault => ~MidTurn
      PROVE  Custody'
  BY <1>4, AcquireStep, LeaveStep, CustodyRead, MatchStep, CalmSteps, CalmStep DEF Step
<1> QED
  BY <1>1, <1>2, <1>3, <1>4 DEF Next

LEMMA CustodyHolds == Spec => [](TypeOK /\ History /\ Custody)
<1>1. Init => TypeOK /\ History /\ Custody
  BY TypeInit, HistoryInit, CustodyInit
<1>2. TypeOK /\ History /\ Custody /\ [Next]_vars => (TypeOK /\ History /\ Custody)'
  BY TypeStep, HistoryStep, CustodyStep
<1> QED
  BY <1>1, <1>2, PTL DEF Spec

\* No refresh token is presented to the issuer twice, for any number of callers.
THEOREM TokensArePresentedOnce == Spec => []RefreshOnce
<1>1. Custody => RefreshOnce
  BY DEF Custody
<1> QED
  BY CustodyHolds, <1>1, PTL

\* A sign-in is not refused by the store, for any number of callers, unless the
\* session was replaced in the middle of a turn.
THEOREM SignInIsAccepted == Spec => []SignInHeals
<1>1. Custody => SignInHeals
  BY DEF Custody
<1> QED
  BY CustodyHolds, <1>1, PTL

=============================================================================
