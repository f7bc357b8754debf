----------------------------- MODULE MCCluster -----------------------------
(* Two worker addresses, two bulk jobs one after the other, one fault of any  *)
(* kind and one restart.                                                     *)
EXTENDS Cluster
=============================================================================
