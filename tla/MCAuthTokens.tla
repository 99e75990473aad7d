---------------------------- MODULE MCAuthTokens ----------------------------
(***************************************************************************)
(* Instances of AuthTokens for TLC.                                        *)
(***************************************************************************)
EXTENDS AuthTokens, TLC

RequestTokenSymmetry == Permutations(Request) \cup Permutations(Token)

=============================================================================
