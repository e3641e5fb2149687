------------------------------ MODULE MCBridge ------------------------------
(* Values for model-checking Bridge: two processes, two accounts and a     *)
(* system key, with calls of the same account on both sides.               *)
EXTENDS Bridge, TLC

MCProcOf == [c \in Calls |-> IF c \in {"w1", "w2"} THEN "worker" ELSE "web"]
MCKeyOf  == [c \in Calls |-> CASE c \in {"a1", "a2", "a3", "w1"} -> "did:a"
                               [] c \in {"b1", "w2"} -> "did:b"
                               [] OTHER -> "_health"]
=============================================================================
