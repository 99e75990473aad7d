--------------------------- MODULE MCAuthSessions ---------------------------
(***************************************************************************)
(* Instances of AuthSessions for TLC.                                      *)
(***************************************************************************)
EXTENDS AuthSessions, TLC

RequestTokenSymmetry == Permutations(Request) \cup Permutations(Token)

=============================================================================
