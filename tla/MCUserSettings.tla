--------------------------- MODULE MCUserSettings ---------------------------
(***************************************************************************)
(* Instances of UserSettings for TLC.                                      *)
(***************************************************************************)
EXTENDS UserSettings, TLC

CONSTANTS desk, web

AnyPost ==
  [extensionID: {0}, voicemail: BOOLEAN, webphone: BOOLEAN, messaging: BOOLEAN,
   endpoint: Endpoint \cup {NoEndpoint}]

\* Everything on, with and without an endpoint, and everything off.
FewPosts ==
  {p \in AnyPost : /\ p.voicemail = p.webphone /\ p.messaging = p.webphone
                   /\ p.endpoint # NoEndpoint => p.webphone}

RequestSymmetry == Permutations(Request)

=============================================================================
