---------------------------- MODULE MCAuthority ----------------------------
(* Instances of the host authority for TLC.                                *)
EXTENDS AuthorityRefinement, TLC

CONSTANTS h1, h2, x1, x2, s1, i1, c1

TwoHosts   == {h1, h2}
TwoHandles == {x1, x2}

\* Two processes with one handle each, or one process that claims twice.
OneEach    == [x \in TwoHandles |-> IF x = x1 THEN h1 ELSE h2]
SameHost   == [x \in TwoHandles |-> h1]

OneHost    == {h1}
OneHandle  == {x1}
Alone      == [x \in OneHandle |-> h1]

\* In OneEach the processes are interchangeable, each with its handle.
Swap == {s \in Permutations(TwoHosts \cup TwoHandles) :
           \A x \in TwoHandles : s[x] \in TwoHandles /\ OneEach[s[x]] = s[OneEach[x]]}

KindOfAll == [o \in {s1, i1, c1} |->
                CASE o = s1 -> "start"
                  [] o = i1 -> "input"
                  [] o = c1 -> "cleanup"]

\* Launch the helper, and stop it; launch it, and inject an input; one launch.
SessionOps   == {s1, c1}
SessionKind  == [o \in SessionOps |-> KindOfAll[o]]
InputOps     == {s1, i1}
InputKind    == [o \in InputOps |-> KindOfAll[o]]
SingleOps    == {s1}
SingleKind   == [o \in SingleOps |-> KindOfAll[o]]
============================================================================
