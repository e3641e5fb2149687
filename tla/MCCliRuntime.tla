---------------------------- MODULE MCCliRuntime ----------------------------
(* Two publishers and the policies whose shapes the evaluator treats apart. *)
EXTENDS CliRuntime

MCLabels == [p \in Providers |-> {"l"}]

Says(p) == [op |-> "label", source |-> p, label |-> "l", maxAge |-> 0]
Recent(p) == [Says(p) EXCEPT !.maxAge = 1]
Not(i) == [op |-> "not", children |-> {i}]
All(S) == [op |-> "all", children |-> S]
Any(S) == [op |-> "any", children |-> S]
Rule(name, disposition, when) ==
    [name |-> name, disposition |-> disposition, when |-> when]

\* A quarantine with an allow above it; and a quarantine that holds for a while or
\* for want of a label, with an allow under a double negation above it.
MCPolicies ==
    {{Rule("q", "quarantine", <<Says("p")>>), Rule("a", "allow", <<Says("t")>>)},
     {Rule("q", "quarantine", <<Recent("p"), Says("t"), Not(2), Any({1, 3})>>),
      Rule("a", "allow", <<Says("t"), Not(1), Not(2), Says("p"), Not(4), All({3, 5})>>)}}
=============================================================================
