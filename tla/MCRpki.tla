------------------------------- MODULE MCRpki -------------------------------
(***************************************************************************)
(* An instance of Rpki: two ROAs that both cover some route, one of them   *)
(* for AS 0.                                                               *)
(***************************************************************************)
EXTENDS Rpki

RoasDef == {[len |-> 1, maxLen |-> 2, as |-> 1], [len |-> 2, maxLen |-> 2, as |-> 0]}
RoutesDef == [len : 0 .. 3, as : 0 .. 2]
=============================================================================
