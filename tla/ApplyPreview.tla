---------------------------- MODULE ApplyPreview -----------------------------
(***************************************************************************)
(* ApplyPreview of PBXService (service/pbx.go): what a PBX plan would need *)
(* of the deployment d it is applied to.  Of the plan it takes the kinds   *)
(* that are not empty, and the technologies its extensions, trunks and     *)
(* provisioning profiles name.                                             *)
(***************************************************************************)
EXTENDS AsteriskInventory

Endpoint == {"extensions", "trunks", "provisioning-profiles"}

\* Mutant: only the technologies are looked at.
ComplaintsOfTechnologies(d, kinds, technologies) == technologies \ (d.drivers \cup d.stacks)

\* The validations: a kind, or a technology, that the deployment cannot serve.
\* Endpoints need a channel driver, whatever endpoint stacks there are.
Complaints(d, kinds, technologies) ==
  {k \in kinds \cap {"queues"} : ~HasAny(d, {"queues"})}
    \cup {k \in kinds \cap {"conferences"} : ~HasAny(d, {"conferences"})}
    \cup {k \in kinds \cap {"ivrs", "prompt-assignments"} : ~HasAny(d, {"prompts", "recordings"})}
    \cup {k \in kinds \cap Endpoint : d.drivers = {}}
    \cup (technologies \ (d.drivers \cup d.stacks))

\* buildApplyArtifacts: what the kinds are rendered to.
Artifacts(kinds) ==
  LET rendered ==
        {a \in {"endpoints", "dialplan", "queues", "conferences", "prompts", "provisioning"} :
           \/ a = "endpoints" /\ kinds \cap {"extensions", "trunks"} # {}
           \/ a = "dialplan" /\ kinds \cap {"routes", "ivrs"} # {}
           \/ a \in {"queues", "conferences"} /\ a \in kinds
           \/ a = "prompts" /\ "prompt-assignments" \in kinds
           \/ a = "provisioning" /\ "provisioning-profiles" \in kinds}
  IN  IF rendered = {} THEN {"plan"} ELSE rendered

=============================================================================
