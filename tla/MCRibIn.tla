------------------------------ MODULE MCRibIn -------------------------------
(***************************************************************************)
(* Instances of RibIn for TLC.                                             *)
(***************************************************************************)
EXTENDS RibIn, TLC

AnyPolicy == [Attrs -> Verdicts]
AcceptAll == {[a \in Attrs |-> "accept"]}
AcceptOrReject == {[a \in Attrs |-> v] : v \in {"accept", "reject"}}

AnyLoops == SUBSET Attrs
NoLoops == {{}}

=============================================================================
