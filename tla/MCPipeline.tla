----------------------------- MODULE MCPipeline -----------------------------
(***************************************************************************)
(* Pipeline for TLC: the constants come from the configurations.           *)
(***************************************************************************)
EXTENDS Pipeline

=============================================================================
