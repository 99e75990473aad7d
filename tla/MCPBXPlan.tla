----------------------------- MODULE MCPBXPlan ------------------------------
(* Model-checking instances of PBXPlan. *)
EXTENDS PBXPlan

WriterSymmetry == Permutations(Writer)

\* acked only records; what the races of the slices do does not depend on it.
SlicesOnly == <<arrays, plan, pc, job, held>>

=============================================================================
