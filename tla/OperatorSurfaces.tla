-------------------------- MODULE OperatorSurfaces ---------------------------
(***************************************************************************)
(* What OperatorService (service/operator.go) makes of a deployment d, a   *)
(* runtime state s and a PBX plan, of which it asks for the kinds that are *)
(* not empty and for the names of the queues.                              *)
(***************************************************************************)
EXTENDS AsteriskInventory

CONSTANT Ref           \* what previews refer to: names, numbers, call IDs

\* What the backend reports at the moment; trunks and parked calls are only
\* ever shown.
RuntimeState ==
  [queues: SUBSET Ref, agents: SUBSET Ref, calls: SUBSET Ref, conferences: SUBSET Ref]

Path ==
  {"operator", "operator/trunks", "operator/conferences", "operator/parked-calls", "callcenter",
   "callcenter/queues", "callcenter/agents", "callcenter/supervisor-actions"}

SupportsTelephony(d) == d.drivers # {} \/ d.stacks # {}

SupportsCallCenter(d, kinds) == HasAny(d, {"queues"}) \/ "queues" \in kinds

SupportsOperator(d, s, kinds) ==
  \/ SupportsTelephony(d)
  \/ SupportsCallCenter(d, kinds)
  \/ s.calls # {}
  \/ kinds \cap {"trunks", "conferences"} # {}

\* Which wallboards open: the guards of Dashboard, Queues, Agents, Trunks,
\* Conferences, Parking and SupervisorActions.
Opens(d, s, kinds, path) ==
  CASE path \in {"operator", "callcenter", "operator/trunks", "operator/parked-calls"} ->
         SupportsOperator(d, s, kinds)
    [] path = "operator/conferences" -> HasAny(d, {"conferences"})
    [] OTHER -> SupportsCallCenter(d, kinds)

\* Mutant: every wallboard is listed.
VisiblePathsUngated(d, s, kinds) == Path \ {"callcenter"}

\* visibleOperatorSurfaces, of a dashboard that opens.
VisiblePaths(d, s, kinds) ==
  {"operator", "operator/trunks", "operator/parked-calls"}
    \cup (IF SupportsCallCenter(d, kinds)
          THEN {"callcenter/queues", "callcenter/agents", "callcenter/supervisor-actions"} ELSE {})
    \cup (IF HasAny(d, {"conferences"}) THEN {"operator/conferences"} ELSE {})

-----------------------------------------------------------------------------
(***************************************************************************)
(* Supervisor actions.                                                     *)
(***************************************************************************)

\* Calls are picked up, transferred, hung up and parked; agents and calls of a
\* queue are supervised.
OnCalls ==
  {"pickup", "blind_transfer", "attended_transfer", "voicemail_transfer", "hangup", "park"}
OnQueues ==
  {"spy", "whisper", "barge", "force_recording", "queue_agent_pause", "queue_agent_unpause"}

TargetKind == {"queue", "agent", "call", "conference"}

\* A queue is planned or live, the others are live; a target of another kind is
\* not looked for.
TargetFound(s, queues, kind, ref) ==
  CASE kind = "queue" -> ref \in queues \cup s.queues
    [] kind = "agent" -> ref \in s.agents
    [] kind = "call" -> ref \in s.calls
    [] kind = "conference" -> ref \in s.conferences
    [] OTHER -> TRUE

Problem == {"telephony", "queue", "recording", "target"}

\* PreviewSupervisorAction: available when nothing is wrong.
Problems(d, s, queues, q) ==
  {p \in Problem :
     \/ p = "telephony" /\ q.action \in OnCalls /\ ~SupportsTelephony(d)
     \/ p = "queue" /\ q.action \in OnQueues /\ ~HasAny(d, {"queues"})
     \/ p = "recording" /\ q.action = "force_recording" /\ ~HasAny(d, {"recordings", "voicemail"})
     \/ p = "target" /\ ~TargetFound(s, queues, q.kind, q.ref)}

=============================================================================
