----------------------------- MODULE MCBulkJob -----------------------------
(* Instances of BulkJob for TLC: worker ids are model values. *)
EXTENDS BulkJob, TLC

CONSTANTS w1, w2, w3, w4

TwoJobs == 0 :> 2 @@ 1 :> 1

\* Faulty workers are interchangeable
WorkerSymmetry == Permutations(Faulty)

=============================================================================
