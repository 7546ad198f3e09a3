------------------------------ MODULE MCPacker ------------------------------
(***************************************************************************)
(* An instance of Packer: an IPv4 prefix, and an IPv6 prefix whose paths   *)
(* have two local identifiers.                                             *)
(***************************************************************************)
EXTENDS Packer

FamilyDef == [p |-> "ipv4", r |-> "ipv6"]
PrefixLenDef == [p |-> 1, r |-> 1]
AttrsLenDef == [x |-> 1, y |-> 4]
GrowthDef == [x |-> 3, y |-> -1]
IdsDef == [p |-> {1}, r |-> {1, 2}]
=============================================================================
