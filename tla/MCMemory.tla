------------------------------- MODULE MCMemory -------------------------------
(* Instances of GraphMemory.                                               *)
EXTENDS GraphMemory

CONSTANTS job, alice, bob

JobOnly == {job}

\* The two reviewers contradict each other, either way round.
Opposed(yes, no) ==
  {[side \in {"a", "b"} |-> IF side = "a" THEN [role |-> alice, verdict |-> yes]
                                          ELSE [role |-> bob, verdict |-> no]],
   [side \in {"a", "b"} |-> IF side = "a" THEN [role |-> alice, verdict |-> no]
                                          ELSE [role |-> bob, verdict |-> yes]]}
PassOrFail == Opposed("pass", "fail")
AcceptOrReject == Opposed("accept", "reject")

=============================================================================
