-------------------------- MODULE MCOperatorConsole --------------------------
(***************************************************************************)
(* Instances of OperatorConsole for TLC.                                   *)
(***************************************************************************)
EXTENDS OperatorConsole

\* Nothing was detected.
Bare == {[drivers |-> {}, stacks |-> {}, available |-> {}, backends |-> {}]}

\* Every deployment with at most two capabilities and one subsystem.
SmallInventory ==
  [drivers: SUBSET Technology, stacks: SUBSET Technology,
   available: {{}} \cup {{a, b} : a, b \in Capability},
   backends: {{}} \cup {{s} : s \in Subsystem}]

\* A queue and a call come and go.
FewReports == {NoRuntime, [NoRuntime EXCEPT !.calls = {1}, !.queues = {2}]}

FewCalls ==
  {q \in Call : \/ q.page \in {"operator", "callcenter/queues", "apply-preview"}
                \/ q.page = "preview" /\ q.action = "spy" /\ q.kind = "queue" /\ q.ref = 2}

AllPJSIP == [key \in Key |-> CHOOSE t \in Technology : TRUE]

\* acked only records.
WithoutAcked == <<arrays, plan, pc, job, held, console, since>>

=============================================================================
