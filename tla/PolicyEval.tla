----------------------------- MODULE PolicyEval -----------------------------
(***************************************************************************)
(* The three-valued evaluation of a policy for one subject                 *)
(* (src/src/atproto_acl/policy.py:251-345).                                *)
(*                                                                         *)
(* An observation is a record                                              *)
(*     [provider, property, at, expires, negated]                          *)
(* with times in Nat and expires = Never for a label without an expiry.    *)
(* Its fields are those its evidence id is a digest of, so two observations*)
(* with the same id are one element of a set.  Evidence is a record        *)
(*     [observations : a set of observations,                              *)
(*      complete     : the providers whose coverage is complete].          *)
(*                                                                         *)
(* A predicate is the sequence of its nodes in which every child comes     *)
(* before its parent, so that the last node is the root; a node is         *)
(*     [op |-> "all" | "any" | "not", children |-> a set of positions], or *)
(*     [op |-> "label", source, label, maxAge]    (maxAge = 0: none).      *)
(* A policy is a set of rules [name, disposition, when].  Numeric          *)
(* measurements are left out: only fixture providers declare them, and     *)
(* those never reach an enforcing run (runtime.py:52-53).                  *)
(***************************************************************************)
EXTENDS Integers, FiniteSets, Sequences, FiniteSetsExt, Functions

Never == -1

Rank == [neutral |-> 0, quarantine |-> 1, allow |-> 2]

\* What compile_policy accepts: `all' and `any' of one or more predicates nested in
\* them, `not' of one.
IsPredicate(when) ==
    /\ Len(when) \in Nat \ {0} /\ DOMAIN when = 1 .. Len(when)
    /\ \A i \in DOMAIN when : when[i].op # "label" =>
          /\ when[i].op \in {"all", "any", "not"}
          /\ when[i].children \in SUBSET (1 .. (i - 1)) \ {{}}
          /\ when[i].op = "not" => Cardinality(when[i].children) = 1
IsPolicy(rules) == \A r \in rules : r.disposition \in DOMAIN Rank /\ IsPredicate(r.when)

\* The observations a leaf rests on: the newest of its provider and label.
Newest(node, observations) ==
    LET events == {e \in observations :
                     e.provider = node.source /\ e.property = node.label}
    IN  {e \in events : \A f \in events : f.at <= e.at}

\* An assertion lapses at its own expiry or at the age the rule allows,
\* whichever is first.
Lapsed(node, e, now) ==
    \/ e.expires # Never /\ e.expires <= now
    \/ node.maxAge > 0 /\ e.at + node.maxAge <= now

\* Variant: a lapsed or withdrawn label counts as absent whatever the coverage.
LeafLenient(node, evidence, now, strict, ignoreExpiry) ==
    LET newest   == Newest(node, evidence.observations)
        complete == node.source \in evidence.complete
        settled  == Cardinality(newest) = 1 /\ \A e \in newest : e.at <= now
        gone     == \E e \in newest : e.negated \/ (Lapsed(node, e, now) /\ ~ignoreExpiry)
    IN  IF newest = {} THEN IF complete THEN "false" ELSE "unknown"
        ELSE IF ~settled THEN "unknown"
        ELSE IF gone THEN "false"
        ELSE IF complete THEN "true" ELSE "unknown"

\* What a leaf says.  `strict' is the code's `negative or require_current':
\* the absence of the label would justify something, so it must be current.
Leaf(node, evidence, now, strict, ignoreExpiry) ==
    LET newest   == Newest(node, evidence.observations)
        complete == node.source \in evidence.complete
        settled  == Cardinality(newest) = 1 /\ \A e \in newest : e.at <= now
        gone     == \E e \in newest : e.negated \/ (Lapsed(node, e, now) /\ ~ignoreExpiry)
    IN  IF newest = {} THEN IF complete THEN "false" ELSE "unknown"
        ELSE IF ~settled THEN "unknown"
        ELSE IF gone THEN IF strict /\ ~complete THEN "unknown" ELSE "false"
        ELSE IF complete THEN "true" ELSE "unknown"

\* Strong three-valued logic over the values of a node's children.
Combine(op, values) ==
    CASE op = "not" -> IF values = {"true"} THEN "false"
                       ELSE IF values = {"false"} THEN "true" ELSE "unknown"
      [] op = "all" -> IF "false" \in values THEN "false"
                       ELSE IF "unknown" \in values THEN "unknown" ELSE "true"
      [] op = "any" -> IF "true" \in values THEN "true"
                       ELSE IF "unknown" \in values THEN "unknown" ELSE "false"

\* The truth of a predicate.  `not' swaps the sense in which its child is read.
Truth(when, evidence, now, current, ignoreExpiry) ==
    LET value[i \in DOMAIN when] == [negative \in BOOLEAN |->
          IF when[i].op = "label"
          THEN Leaf(when[i], evidence, now, negative \/ current, ignoreExpiry)
          ELSE LET sense == IF when[i].op = "not" THEN ~negative ELSE negative
               IN  Combine(when[i].op, {value[c][sense] : c \in when[i].children})]
    IN  value[Len(when)][FALSE]

\* The evidence a decision names: that of every leaf of every rule.
EvidenceIds(rules, evidence) ==
    UNION {Newest(node, evidence.observations) :
             node \in {n \in UNION {Range(r.when) : r \in rules} : n.op = "label"}}

\* Whether a rule matches: an allow rule must be current.
Matches(rule, evidence, now) ==
    Truth(rule.when, evidence, now, rule.disposition = "allow", FALSE)

\* A quarantine rule that fails by expiry alone is marked.
LapsedOnly(rule, evidence, now) ==
    /\ rule.disposition = "quarantine"
    /\ Matches(rule, evidence, now) = "false"
    /\ Truth(rule.when, evidence, now, FALSE, TRUE) # "false"

\* The results a decision lists, rule by rule.
Results(rules, evidence, now) ==
    [r \in rules |-> <<Matches(r, evidence, now), LapsedOnly(r, evidence, now)>>]

\* The decision: the highest rank that matches wins, unless a rule above it is
\* unresolved.
Evaluate(rules, evidence, now) ==
    LET matches == [r \in rules |-> Matches(r, evidence, now)]
        RanksOf(t) == {Rank[r.disposition] : r \in {s \in rules : matches[s] = t}}
        winner  == Max(RanksOf("true") \cup {0})
        uncertain == \E k \in RanksOf("unknown") : k > winner
    IN  [outcome |-> IF uncertain THEN "indeterminate"
                     ELSE IF winner = 1 THEN "quarantine"
                     ELSE "no_quarantine_justification",
         basis   |-> IF uncertain THEN "unresolved_precedence"
                     ELSE IF winner = 2 THEN "allow_rule"
                     ELSE IF winner = 1 THEN "quarantine_rule"
                     ELSE "no_matching_justification"]
=============================================================================
