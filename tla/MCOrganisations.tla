--------------------------- MODULE MCOrganisations --------------------------
(***************************************************************************)
(* Instances of Organisations for TLC.                                     *)
(***************************************************************************)
EXTENDS Organisations, TLC

CONSTANTS acme, globex, ann, bob, cookie, token, orgToken

\* Ann is public and Bob is not.
OnePublic == ann :> "public" @@ bob :> "hidden"

\* Bob's browser, and the tokens of Ann and of Globex.
Kinds == cookie :> "session" @@ token :> "user" @@ orgToken :> "org"
Subjects == cookie :> bob @@ token :> ann @@ orgToken :> globex

\* Ann owns Acme and Bob is a member, or the other way round, or elsewhere.
FewRows ==
  {[org |-> acme, user |-> ann, role |-> "owner"],
   [org |-> acme, user |-> bob, role |-> "member"],
   [org |-> globex, user |-> bob, role |-> "admin"]}

\* The page of one member with the first ID only.
FewCalls ==
  {q \in Call : q.id = 1 /\ q.surface # "domains" /\ (q.org = globex => q.surface = "settings")}

=============================================================================
