-------------------------- MODULE MCDerivativeFree --------------------------
EXTENDS DerivativeFree

Both == {"lb", "ub"}

MCCalls ==
  {c \in AllCalls : c.alg = 1 /\ c.cores # 4 /\ c.bounds \in {Both, {"lb"}} /\ c.start = Start}
  \cup {c \in AllCalls : c.alg = 1 /\ c.cores = 0 /\ c.bounds = {"ub"}}
  \cup {c \in AllCalls : c.alg = 2 /\ c.bounds \in {Both, {"ub"}, {}} /\ c.start = Start}
  \cup {c \in AllCalls : c.alg \in {3, 4} /\ c.cores \in {0, 1} /\ c.start = Start}
  \cup {c \in AllCalls : c.alg = 5 /\ c.cores = 4 /\ c.bounds = Both}
=============================================================================
