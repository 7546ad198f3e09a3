---------------------------- MODULE MCBfdControl ----------------------------
(* BfdControl for TLC; its constants are sets of model values.              *)
EXTENDS BfdControl

=============================================================================
