--------------------------- MODULE MCPropagation ---------------------------
(***************************************************************************)
(* Instances of Propagation. In the first, an external neighbor e1, an     *)
(* internal one i1 and an internal ADD-PATH neighbor a1 that is sent one   *)
(* path at a time; e1 and a1 have graceful restart, e1 a long-lived one;   *)
(* the AS path of the better attribute contains the AS of e1, the other    *)
(* one is stale. In the second, a route reflector with its client c1 and   *)
(* the internal neighbors i1 and i2. Every source is a router of its own.  *)
(***************************************************************************)
EXTENDS Propagation, TLC

CONSTANTS e1, i1, a1, c1, i2

KindOf == (e1 :> "ebgp" @@ i1 :> "ibgp" @@ a1 :> "ibgp" @@ c1 :> "client" @@ i2 :> "ibgp")
KindDef == [p \in Peers |-> KindOf[p]]
RouterDef == [s \in Sources |-> s]
LoopsDef == [p \in Peers |-> IF p = e1 THEN {2} ELSE {}]
RankDef == CHOOSE r \in [Sources -> 1..Cardinality(Sources)] :
               \A s, t \in Sources : s # t => r[s] # r[t]
=============================================================================
