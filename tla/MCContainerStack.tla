-------------------------- MODULE MCContainerStack --------------------------
(* TLC instances of ContainerStack.                                        *)
EXTENDS ContainerStackInvariant, TLC

CONSTANTS i1, i2, c1, c2, w1, w2, m1, m2

Nobody == {}
AnyFault == FaultKind \ {"resend", "expiry"}
Expiry == {"expiry"}
Hiccups == {"docker", "redis", "resend"}
OneInst == {i1}
OneConv == {c1}
TwoConv == {c1, c2}
TwoId == {w1, w2}
OneMaker == {m1}
TwoMaker == {m1, m2}

\* Containers, conversations, processes and tasks are interchangeable.
Symmetry ==
    Permutations(Id) \cup Permutations(Conv) \cup Permutations(Inst)
        \cup Permutations(Maker)
=============================================================================
