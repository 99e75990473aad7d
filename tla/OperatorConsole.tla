--------------------------- MODULE OperatorConsole ---------------------------
(***************************************************************************)
(* The administrator's console (handler/operator.go, handler/asterisk.go,  *)
(* service/operator.go) over the three tables it joins: the runtime state  *)
(* that the backend reports, the PBX plan, which PBXPlan changes, and what *)
(* the deployment offers, which the server writes once.                    *)
(*                                                                         *)
(* loadState reads them one after the other, each under the read lock of   *)
(* the store, and the answer is computed after the last lock is given back *)
(* on slices that the next save of the plan may sort.                      *)
(***************************************************************************)
EXTENDS PBXPlan, OperatorSurfaces, ApplyPreview

CONSTANTS
  TechnologyOf,      \* bound: the technology of an endpoint goes with its key
  Inventory,         \* bound: the deployments that are looked at,
  Busy,              \* bound: those on which requests are played through,
  Reported,          \* bound: the runtime states that are reported,
  Asked              \* bound: what is asked for

VARIABLES
  deployment,        \* asteriskState
  runtime,           \* operatorState
  call,              \* what a reader asks for
  snapshot,          \* the runtime state in its hands; the plan is held[r]
  answer,            \* what it is told
  since              \* what has been so since it asked

console == <<deployment, runtime, call, snapshot, answer>>
allVars == <<vars, console, since>>

NoRuntime == [queues |-> {}, agents |-> {}, calls |-> {}, conferences |-> {}]

\* The dashboards, wallboards and previews.  An action that is not supported
\* stands for one that is not there at all, too.
Call ==
  [page: Path \cup {"apply-preview"}, action: {"none"}, kind: {"none"}, ref: {0}]
    \cup [page: {"preview"}, action: OnCalls \cup OnQueues \cup {"unsupported"},
          kind: TargetKind \cup {"other"}, ref: Ref]
NoCall == [page |-> "none", action |-> "none", kind |-> "none", ref |-> 0]

ASSUME ConsoleAssumption ==
  /\ TechnologyOf \in [Key -> Technology]
  /\ Busy \subseteq Inventory
  /\ Inventory \subseteq Deployment
  /\ Reported \subseteq RuntimeState
  /\ Asked \subseteq Call
  /\ Key \subseteq Ref

NoAnswer == [status |-> "none", shown |-> {}, problems |-> {}]

-----------------------------------------------------------------------------
(***************************************************************************)
(* What the console takes of a plan.                                       *)
(***************************************************************************)

Kinds(p) == {k \in Kind : p[k].len > 0}

Named(p, k) == IF k \in Kind THEN {e.key : e \in Contents(arrays, p[k])} ELSE {}

\* referencedTechnologies
Technologies(p) == {TechnologyOf[key] : key \in UNION {Named(p, k) : k \in Endpoint}}

-----------------------------------------------------------------------------
(***************************************************************************)
(* What has been so since a reader asked.                                  *)
(***************************************************************************)

IsOpen(path) == Opens(deployment, runtime, Kinds(plan), path)

IsThere(q) == TargetFound(runtime, Named(plan, "queues"), q.kind, q.ref)

CreatesQueue == \E w \in Writer : job[w].op = "create" /\ job[w].kind = "queues"

Facts(q) ==
  IF q.page = "preview"
  THEN {<<IF IsThere(q) THEN "there" ELSE "gone", "target">>}
         \cup (IF CreatesQueue THEN {<<"created", "queues">>} ELSE {})
  ELSE {<<IF IsOpen(p) THEN "open" ELSE "closed", p>> : p \in Path}

\* Conjoined to every step.
Observe ==
  since' = [r \in Reader |->
    IF pc'[r] \in {"idle", "show"} THEN {}
    ELSE IF pc'[r] = "answered" THEN since[r]
    ELSE since[r] \cup Facts(call[r])'
           \cup {<<"changed", t>> : t \in (IF runtime' # runtime THEN {"runtime"} ELSE {})
                                            \cup (IF plan' # plan THEN {"plan"} ELSE {})}]

-----------------------------------------------------------------------------
(***************************************************************************)
(* The steps of a reader.                                                  *)
(***************************************************************************)

Ask(r, q) ==
  /\ deployment \in Busy
  /\ pc[r] = "idle"
  /\ Goto(r, IF q.page = "apply-preview" THEN "plan" ELSE "runtime")
  /\ call' = [call EXCEPT ![r] = q]
  /\ UNCHANGED <<arrays, plan, job, held, acked, deployment, runtime, snapshot, answer>>
  /\ Observe

\* GetOperatorRuntimeState
ReadRuntime(r) ==
  /\ pc[r] = "runtime"
  /\ Goto(r, "plan")
  /\ snapshot' = [snapshot EXCEPT ![r] = runtime]
  /\ UNCHANGED <<arrays, plan, job, held, acked, deployment, runtime, call, answer>>
  /\ Observe

\* GetPBXPlan, and GetAsteriskState, which always returns the same.
ReadPlan(r) ==
  /\ pc[r] = "plan"
  /\ Goto(r, "answer")
  /\ held' = [held EXCEPT ![r] = plan]
  /\ UNCHANGED <<arrays, plan, job, acked, console>>
  /\ Observe

Tell(r, status, shown, problems) ==
  /\ Goto(r, "answered")
  /\ answer' = [answer EXCEPT ![r] = [status |-> status, shown |-> shown, problems |-> problems]]
  /\ held' = [held EXCEPT ![r] = NoPlan]
  /\ snapshot' = [snapshot EXCEPT ![r] = NoRuntime]
  /\ UNCHANGED <<plan, job, acked, deployment, runtime, call>>
  /\ Update(arrays)
  /\ Observe

\* The dashboard is behind "operator" and "callcenter" alike.
AnswerSurface(r) ==
  LET path == call[r].page
      kinds == Kinds(held[r])
  IN  /\ pc[r] = "answer" /\ path \in Path
      /\ IF ~Opens(deployment, snapshot[r], kinds, path) THEN Tell(r, "unavailable", {}, {})
         ELSE Tell(r, "ok", IF path \in {"operator", "callcenter"}
                            THEN VisiblePaths(deployment, snapshot[r], kinds) ELSE {}, {})

\* Mutant: planned queues that are not live are not found.
AnswerPreviewLive(r) ==
  /\ pc[r] = "answer" /\ call[r].page = "preview"
  /\ IF ~SupportsCallCenter(deployment, Kinds(held[r])) THEN Tell(r, "unavailable", {}, {})
     ELSE IF call[r].action = "unsupported" THEN Tell(r, "invalid", {}, {})
     ELSE Tell(r, "ok", {}, Problems(deployment, snapshot[r], {}, call[r]))

AnswerPreview(r) ==
  /\ pc[r] = "answer" /\ call[r].page = "preview"
  /\ IF ~SupportsCallCenter(deployment, Kinds(held[r])) THEN Tell(r, "unavailable", {}, {})
     ELSE IF call[r].action = "unsupported" THEN Tell(r, "invalid", {}, {})
     ELSE Tell(r, "ok", {},
               Problems(deployment, snapshot[r], Named(held[r], "queues"), call[r]))

AnswerApplyPreview(r) ==
  LET kinds == Kinds(held[r])
  IN  /\ pc[r] = "answer" /\ call[r].page = "apply-preview"
      /\ Tell(r, "ok", Artifacts(kinds), Complaints(deployment, kinds, Technologies(held[r])))

Receive(r) ==
  /\ pc[r] = "answered"
  /\ Goto(r, "idle")
  /\ call' = [call EXCEPT ![r] = NoCall]
  /\ answer' = [answer EXCEPT ![r] = NoAnswer]
  /\ UNCHANGED <<arrays, plan, job, held, acked, deployment, runtime, snapshot>>
  /\ Observe

\* No route reports a runtime state, the program around the server does.
SaveOperatorRuntimeState(s) ==
  /\ runtime' = s
  /\ UNCHANGED <<vars, deployment, call, snapshot, answer>>
  /\ Observe

\* The plan's own requests, as PBXPlan has them.
Administrate ==
  /\ deployment \in Busy
  /\ (\E w \in Writer : Write(w)) \/ (\E r \in Reader : List(r))
  /\ UNCHANGED console
  /\ Observe

-----------------------------------------------------------------------------
ConsoleInit ==
  /\ Init
  /\ deployment \in Inventory
  /\ runtime = NoRuntime
  /\ call = [r \in Reader |-> NoCall]
  /\ snapshot = [r \in Reader |-> NoRuntime]
  /\ answer = [r \in Reader |-> NoAnswer]
  /\ since = [r \in Reader |-> {}]

Console(r) ==
  \/ \E q \in Asked : Ask(r, q)
  \/ ReadRuntime(r) \/ ReadPlan(r)
  \/ AnswerSurface(r) \/ AnswerPreview(r) \/ AnswerApplyPreview(r)
  \/ Receive(r)

ConsoleNext ==
  \/ Administrate
  \/ \E s \in Reported : SaveOperatorRuntimeState(s)
  \/ \E r \in Reader : Console(r)

ConsoleSpec == ConsoleInit /\ [][ConsoleNext]_allVars

-----------------------------------------------------------------------------
(***************************************************************************)
(* Which service a page of the console leads to, and whether it opens.     *)
(***************************************************************************)

PBXResource ==
  {"extensions", "trunks", "routes", "queues", "conferences", "ivrs", "prompt-assignments",
   "provisioning-profiles", "apply-preview"}

\* parsePBXRoute comes first, then parseOperatorRoute.
PageOpens(page) ==
  IF page \in PBXResource THEN TRUE
  ELSE IF page \in Path THEN IsOpen(page)
  ELSE Surface(deployment, page) # {}

\* Whatever Asterisk offers, every page it is listed with opens, whichever of the
\* three services the route leads to; and a page of its own service that opens is
\* listed, and shows something that is there.
ListedSurfaceOpens ==
  LET listed == VisibleSurfaces(deployment)
  IN  /\ \A page \in listed : PageOpens(page)
      /\ \A page \in Always \cup Gated :
           Surface(deployment, page) # {} =>
             /\ page \in listed
             /\ page \in Gated => \E item \in Surface(deployment, page) : item.ready

-----------------------------------------------------------------------------
(***************************************************************************)
(* Answers that were computed from three reads.                            *)
(***************************************************************************)

Told(r, status) == pc[r] = "answered" /\ answer[r].status = status

Torn(r) == {<<"changed", "runtime">>, <<"changed", "plan">>} \subseteq since[r]

\* A wallboard that opened, and every one that a dashboard listed, was open at
\* some moment since it was asked for.  One that was refused was closed at some
\* moment, unless both the runtime state and the plan changed meanwhile.
SurfacesWereTrue ==
  \A r \in Reader : call[r].page \in Path =>
    /\ Told(r, "ok") => \A p \in answer[r].shown \cup {call[r].page} : <<"open", p>> \in since[r]
    /\ Told(r, "unavailable") => <<"closed", call[r].page>> \in since[r] \/ Torn(r)

\* A preview that found its target: it was there at some moment.  One that did
\* not: it was gone at some moment, or both tables changed, or a queue was being
\* created, whose sort may hide the last queue of the slice the preview holds.
PreviewsWereTrue ==
  \A r \in Reader : call[r].page = "preview" /\ Told(r, "ok") =>
    IF "target" \in answer[r].problems
    THEN <<"gone", "target">> \in since[r] \/ <<"created", "queues">> \in since[r] \/ Torn(r)
    ELSE <<"there", "target">> \in since[r]

\* A plan that is previewed without a complaint is one the console can serve:
\* supervisors may act on its queues and operators on the calls of its endpoints,
\* and its conferences are on a wallboard that opens.  Each kind is complained
\* about on its own.
PreviewedPlanIsServed ==
  \A k \in {"queues", "conferences", "extensions", "trunks"} :
    LET rendered == Artifacts({k})
        refused(action) ==
          Problems(deployment, runtime, {}, [action |-> action, kind |-> "other", ref |-> 0])
    IN  Complaints(deployment, {k}, {}) = {} =>
          /\ "queues" \in rendered => \A a \in OnQueues : "queue" \notin refused(a)
          /\ "endpoints" \in rendered => \A a \in OnCalls : refused(a) = {}
          /\ "conferences" \in rendered
               => "operator/conferences" \in VisiblePaths(deployment, runtime, {k})
                    /\ IsOpen("operator/conferences")

=============================================================================
