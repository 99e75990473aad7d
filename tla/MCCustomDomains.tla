-------------------------- MODULE MCCustomDomains ---------------------------
(***************************************************************************)
(* Instances of CustomDomains for TLC.                                     *)
(***************************************************************************)
EXTENDS CustomDomains, TLC

CONSTANT alice

\* The same user alone.
OnlyOne == alice :> 1

ClientNameSymmetry == Permutations(Client) \cup Permutations(Name)

=============================================================================
