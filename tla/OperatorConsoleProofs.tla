----------------------- MODULE OperatorConsoleProofs ------------------------
(***************************************************************************)
(* Proofs about OperatorConsole: for any deployment, where TLC looks at    *)
(* the small ones, and for any number of readers and writers.              *)
(*                                                                         *)
(* The gates of the pages are facts about the deployment alone.  That a    *)
(* wallboard's answer was true at some moment is not: the answer joins     *)
(* three reads, and rests on what each read still says of the moment it    *)
(* was made (SurfaceInv below).  A preview of a supervisor action also     *)
(* looks at what the queues are called, so its answer rests on what the    *)
(* writer does to the array under the slice it holds (PreviewInv).         *)
(***************************************************************************)
EXTENDS OperatorConsole, PBXPlanProofs

-----------------------------------------------------------------------------
(***************************************************************************)
(* The pages of Asterisk: the gates of the list and those of the pages.    *)
(***************************************************************************)

LEMMA Items ==
  ASSUME NEW d, NEW keys, NEW k \in keys
  PROVE  /\ Fixed(keys) # {}
         /\ CapabilityItems(d, keys) # {}
         /\ k \in d.available => \E item \in CapabilityItems(d, keys) : item.ready
         /\ k \in d.backends => \E item \in SubsystemItems(d, keys) : item.ready
<1>1. [key |-> k, ready |-> TRUE] \in Fixed(keys)
  BY DEF Fixed
<1>2. [key |-> k, ready |-> k \in d.available] \in CapabilityItems(d, keys)
  BY DEF CapabilityItems
<1>3. k \in d.backends => [key |-> k, ready |-> TRUE] \in SubsystemItems(d, keys)
  BY DEF SubsystemItems
<1>4. k \in d.available => \E item \in CapabilityItems(d, keys) : item.ready
  BY <1>2
<1>5. k \in d.backends => \E item \in SubsystemItems(d, keys) : item.ready
  BY <1>3
<1>6. QED
  BY <1>1, <1>2, <1>4, <1>5

LEMMA AlwaysServed ==
  ASSUME NEW d, NEW page \in Always
  PROVE  Surface(d, page) # {}
<1>1. CASE page = "overview"
  BY <1>1, Items DEF Surface
<1>2. CASE page = "health"
  <2>1. Fixed({"health", "detection_status"}) # {}
    BY Items
  <2>2. QED
    BY <1>2, <2>1 DEF Surface
<1>3. CASE page = "capabilities"
  <2>1. "tls" \in Capability
    BY DEF Capability
  <2>2. CapabilityItems(d, Capability) # {}
    BY <2>1, Items
  <2>3. QED
    BY <1>3, <2>2 DEF Surface
<1>4. CASE page = "modules"
  <2>1. ASSUME NEW prefix, NEW values
        PROVE  ListItems(prefix, values) # {}
    <3>1. ASSUME NEW v \in values PROVE Fixed(values) # {}
      BY Items
    <3>2. QED
      BY <3>1 DEF ListItems
  <2>2. QED
    BY <1>4, <2>1 DEF Surface
<1>5. CASE page = "apply"
  <2>1. Fixed({"preview", "validation", "diff", "post_apply_checks"}) # {}
    BY Items
  <2>2. QED
    BY <1>5, <2>1 DEF Surface
<1>6. QED
  BY <1>1, <1>2, <1>3, <1>4, <1>5 DEF Always

\* A gated page is served when it is listed, unless another service answers it,
\* and then it shows something that is there.
LEMMA GatedServed ==
  ASSUME NEW d, NEW page \in Gated
  PROVE  /\ page \in VisibleSurfaces(d) \ {"operator", "callcenter"}
              => \E item \in Surface(d, page) : item.ready
         /\ Surface(d, page) # {} => page \in VisibleSurfaces(d)
<1>1. CASE page = "media"
  <2>1. CASE HasAny(d, Media)
    <3>1. Surface(d, page) =
            CapabilityItems(d, Media) \cup SubsystemItems(d, {"tts_engine", "music_on_hold"})
      BY <1>1, <2>1 DEF Surface
    <3>2. PICK k \in Media : k \in d.available
      BY <2>1 DEF HasAny
    <3>3. \E item \in CapabilityItems(d, Media) : item.ready
      BY <3>2, Items
    <3>4. page \in VisibleSurfaces(d)
      BY <1>1, <2>1 DEF VisibleSurfaces
    <3>5. QED
      BY <3>1, <3>3, <3>4
  <2>2. CASE ~HasAny(d, Media)
    BY <1>1, <2>2 DEF VisibleSurfaces, Always, Surface
  <2>3. QED
    BY <2>1, <2>2
<1>2. CASE page = "fax"
  <2>1. CASE HasAny(d, {"fax"}) \/ HasSubsystem(d, "fax_backend")
    <3>1. Surface(d, page) = CapabilityItems(d, {"fax"}) \cup SubsystemItems(d, {"fax_backend"})
      BY <1>2, <2>1 DEF Surface
    <3>2. HasAny(d, {"fax"}) => \E item \in CapabilityItems(d, {"fax"}) : item.ready
      BY Items DEF HasAny
    <3>3. HasSubsystem(d, "fax_backend") => \E item \in SubsystemItems(d, {"fax_backend"}) : item.ready
      BY Items DEF HasSubsystem
    <3>4. page \in VisibleSurfaces(d)
      BY <1>2, <2>1 DEF VisibleSurfaces
    <3>5. QED
      BY <2>1, <3>1, <3>2, <3>3, <3>4
  <2>2. CASE ~(HasAny(d, {"fax"}) \/ HasSubsystem(d, "fax_backend"))
    BY <1>2, <2>2 DEF VisibleSurfaces, Always, Surface
  <2>3. QED
    BY <2>1, <2>2
<1>3. CASE page = "messaging"
  <2>1. CASE HasAny(d, Messaging) \/ HasSubsystem(d, "messaging_backend")
    <3>1. Surface(d, page) =
            CapabilityItems(d, Messaging) \cup SubsystemItems(d, {"messaging_backend"})
      BY <1>3, <2>1 DEF Surface
    <3>2. HasAny(d, Messaging) => \E item \in CapabilityItems(d, Messaging) : item.ready
      BY Items DEF HasAny
    <3>3. HasSubsystem(d, "messaging_backend") =>
            \E item \in SubsystemItems(d, {"messaging_backend"}) : item.ready
      BY Items DEF HasSubsystem
    <3>4. page \in VisibleSurfaces(d)
      BY <1>3, <2>1 DEF VisibleSurfaces
    <3>5. QED
      BY <2>1, <3>1, <3>2, <3>3, <3>4
  <2>2. CASE ~(HasAny(d, Messaging) \/ HasSubsystem(d, "messaging_backend"))
    BY <1>3, <2>2 DEF VisibleSurfaces, Always, Surface
  <2>3. QED
    BY <2>1, <2>2
<1>4. ASSUME page \in {"conferences", "queues"}
      PROVE  /\ page \in VisibleSurfaces(d) => \E item \in Surface(d, page) : item.ready
             /\ Surface(d, page) # {} => page \in VisibleSurfaces(d)
  <2>1. HasAny(d, {page}) => \E item \in CapabilityItems(d, {page}) : item.ready
    BY Items DEF HasAny
  <2>2. page \in VisibleSurfaces(d) <=> HasAny(d, {page})
    BY <1>4 DEF VisibleSurfaces, Always
  <2>3. Surface(d, page) = IF HasAny(d, {page}) THEN CapabilityItems(d, {page}) ELSE {}
    BY <1>4 DEF Surface
  <2>4. QED
    BY <2>1, <2>2, <2>3
<1>5. CASE page = "hardware"
  <2>1. HasAny(d, {"dahdi"}) => \E item \in CapabilityItems(d, {"dahdi"}) : item.ready
    BY Items DEF HasAny
  <2>2. page \in VisibleSurfaces(d) <=> HasAny(d, {"dahdi"})
    BY <1>5 DEF VisibleSurfaces, Always
  <2>3. Surface(d, page) = IF HasAny(d, {"dahdi"}) THEN CapabilityItems(d, {"dahdi"}) ELSE {}
    BY <1>5 DEF Surface
  <2>4. QED
    BY <2>1, <2>2, <2>3
<1>6. CASE page = "browser"
  <2> DEFINE keys == {"browser_calling", "tls"}
  <2>1. HasAny(d, {"browser_calling"}) => \E item \in CapabilityItems(d, keys) : item.ready
    BY Items DEF HasAny
  <2>2. page \in VisibleSurfaces(d) <=> HasAny(d, {"browser_calling"})
    BY <1>6 DEF VisibleSurfaces, Always
  <2>3. Surface(d, page) = IF HasAny(d, {"browser_calling"}) THEN CapabilityItems(d, keys) ELSE {}
    BY <1>6 DEF Surface
  <2>4. QED
    BY <2>1, <2>2, <2>3
<1>7. CASE page \in {"operator", "callcenter"}
  BY <1>7 DEF Surface
<1>8. QED
  BY <1>1, <1>2, <1>3, <1>4, <1>5, <1>6, <1>7 DEF Gated

\* Every page Asterisk is listed with opens, and no page opens unlisted, for
\* every deployment: the gates of the list, of the pages and of the wallboards
\* agree.
THEOREM ListedOpens == ConsoleSpec => []ListedSurfaceOpens
<1> DEFINE listed == VisibleSurfaces(deployment)
<1>1. ASSUME NEW page \in listed
      PROVE  PageOpens(page)
  <2>1. CASE page \in Always
    BY <2>1, AlwaysServed DEF PageOpens, Always, PBXResource, Path
  <2>2. CASE page = "operator"
    BY <1>1, <2>2 DEF VisibleSurfaces, Always, PageOpens, PBXResource, Path, IsOpen, Opens,
                      SupportsOperator, SupportsTelephony
  <2>3. CASE page = "callcenter"
    BY <1>1, <2>3 DEF VisibleSurfaces, Always, PageOpens, PBXResource, Path, IsOpen, Opens,
                      SupportsOperator, SupportsCallCenter
  <2>4. CASE page \in Gated \ {"operator", "callcenter"}
    <3>1. Surface(deployment, page) # {}
      BY <1>1, <2>4, GatedServed
    <3>2. QED
      BY <2>4, <3>1 DEF PageOpens, Path, Gated
  <2>5. QED
    BY <1>1, <2>1, <2>2, <2>3, <2>4 DEF VisibleSurfaces
<1>2. ASSUME NEW page \in Always \cup Gated, Surface(deployment, page) # {}
      PROVE  /\ page \in listed
             /\ page \in Gated => \E item \in Surface(deployment, page) : item.ready
  <2>1. page \in listed
    BY <1>2, GatedServed DEF VisibleSurfaces
  <2>2. page \notin {"operator", "callcenter"}
    BY <1>2 DEF Surface
  <2>3. QED
    BY <2>1, <2>2, GatedServed
<1>3. ListedSurfaceOpens
  BY <1>1, <1>2 DEF ListedSurfaceOpens
<1>4. QED
  BY <1>3, PTL

\* Whatever the apply preview lets pass, the console serves: the two services
\* ask the same of every deployment.
THEOREM PreviewedIsServed == ConsoleSpec => []PreviewedPlanIsServed
<1>1. ASSUME NEW k \in {"queues", "conferences", "extensions", "trunks"},
             Complaints(deployment, {k}, {}) = {}
      PROVE  /\ k = "queues" => HasAny(deployment, {"queues"})
             /\ k = "conferences" => HasAny(deployment, {"conferences"})
             /\ k \in {"extensions", "trunks"} => deployment.drivers # {}
  BY <1>1 DEF Complaints, Endpoint
<1>2. ASSUME NEW k \in {"queues", "conferences", "extensions", "trunks"}
      PROVE  /\ "queues" \in Artifacts({k}) => k = "queues"
             /\ "conferences" \in Artifacts({k}) => k = "conferences"
             /\ "endpoints" \in Artifacts({k}) => k \in {"extensions", "trunks"}
  BY <1>2 DEF Artifacts
<1>3. ASSUME NEW a \in OnQueues, HasAny(deployment, {"queues"})
      PROVE  "queue" \notin Problems(deployment, runtime, {},
                                     [action |-> a, kind |-> "other", ref |-> 0])
  BY <1>3 DEF Problems
<1>4. ASSUME NEW a \in OnCalls, deployment.drivers # {}
      PROVE  Problems(deployment, runtime, {}, [action |-> a, kind |-> "other", ref |-> 0]) = {}
  BY <1>4 DEF Problems, Problem, OnCalls, OnQueues, SupportsTelephony, TargetFound
<1>5. ASSUME HasAny(deployment, {"conferences"})
      PROVE  /\ "operator/conferences" \in VisiblePaths(deployment, runtime, {"conferences"})
             /\ IsOpen("operator/conferences")
  BY <1>5 DEF VisiblePaths, IsOpen, Opens
<1>6. PreviewedPlanIsServed
  BY <1>1, <1>2, <1>3, <1>4, <1>5 DEF PreviewedPlanIsServed
<1>7. QED
  BY <1>6, PTL

-----------------------------------------------------------------------------
(***************************************************************************)
(* The wallboards: what a reader's copies still say of the past.           *)
(***************************************************************************)

Changed(r, table) == <<"changed", table>> \in since[r]
WasOpen(r, p) == <<"open", p>> \in since[r]
WasClosed(r, p) == <<"closed", p>> \in since[r]

\* Tables of the readers, and of the requests, are functions.
Shape ==
  /\ pc = [r \in Request |-> pc[r]]
  /\ held = [r \in Request |-> held[r]]
  /\ call = [r \in Reader |-> call[r]]
  /\ snapshot = [r \in Reader |-> snapshot[r]]
  /\ answer = [r \in Reader |-> answer[r]]

\* The runtime state is the one in the table, or that has changed; what it opens
\* alone was open; and what stays closed with the plan of now was closed, or the
\* plan has changed.
ReadFirst(r) ==
  /\ snapshot[r] = runtime \/ Changed(r, "runtime")
  /\ \A p \in Path :
       /\ Opens(deployment, snapshot[r], {}, p) => WasOpen(r, p)
       /\ ~Opens(deployment, snapshot[r], Kinds(plan), p) => WasClosed(r, p) \/ Changed(r, "plan")

\* What the copies open was open; what they leave closed was closed, unless
\* they are torn.
ReadBoth(r) ==
  \A p \in Path :
    /\ Opens(deployment, snapshot[r], Kinds(held[r]), p) => WasOpen(r, p)
    /\ ~Opens(deployment, snapshot[r], Kinds(held[r]), p) => WasClosed(r, p) \/ Torn(r)

AnswerTrue(r) ==
  /\ Told(r, "ok") => \A p \in answer[r].shown \cup {call[r].page} : WasOpen(r, p)
  /\ Told(r, "unavailable") => WasClosed(r, call[r].page) \/ Torn(r)

ReaderInv(r) ==
  call[r].page \in Path =>
    /\ pc[r] \in {"runtime", "plan", "answer"} =>
         \A p \in Path : IF IsOpen(p) THEN WasOpen(r, p) ELSE WasClosed(r, p)
    /\ pc[r] = "plan" => ReadFirst(r)
    /\ pc[r] = "answer" => ReadBoth(r)
    /\ pc[r] = "answered" => AnswerTrue(r)

SurfaceInv == Shape /\ \A r \in Reader : ReaderInv(r)

\* Each reason for a wallboard to open lies in one of the tables.
LEMMA OneTableOpens ==
  ASSUME NEW d, NEW s, NEW t, NEW kinds, NEW p \in Path, Opens(d, s, kinds, p)
  PROVE  Opens(d, s, {}, p) \/ Opens(d, t, kinds, p)
  BY DEF Opens, SupportsOperator, SupportsCallCenter

LEMMA MoreKindsOpen ==
  ASSUME NEW d, NEW s, NEW kinds, NEW p \in Path, Opens(d, s, {}, p)
  PROVE  Opens(d, s, kinds, p)
  BY DEF Opens, SupportsOperator, SupportsCallCenter

LEMMA ListedIsOpen ==
  ASSUME NEW d, NEW s, NEW kinds, NEW path \in {"operator", "callcenter"}, Opens(d, s, kinds, path),
         NEW p \in VisiblePaths(d, s, kinds)
  PROVE  p \in Path /\ Opens(d, s, kinds, p)
<1>1. SupportsOperator(d, s, kinds)
  BY DEF Opens
<1>2. QED
  BY <1>1 DEF VisiblePaths, Path, Opens

\* While a reader waits nothing is forgotten, what is open now is witnessed, and
\* so are the changes of the tables.
LEMMA Witnesses ==
  ASSUME Observe, NEW r \in Reader, pc'[r] \in {"runtime", "plan", "answer", "answered"}
  PROVE  /\ since[r] \subseteq since'[r]
         /\ pc'[r] # "answered" =>
              /\ runtime' # runtime => Changed(r, "runtime")'
              /\ plan' # plan => Changed(r, "plan")'
              /\ call'[r].page \in Path =>
                   \A p \in Path : IF IsOpen(p)' THEN WasOpen(r, p)' ELSE WasClosed(r, p)'
<1>1. CASE pc'[r] = "answered"
  BY <1>1 DEF Observe
<1>2. CASE pc'[r] # "answered"
  <2>1. since'[r] = since[r] \cup Facts(call[r])'
           \cup {<<"changed", t>> : t \in (IF runtime' # runtime THEN {"runtime"} ELSE {})
                                            \cup (IF plan' # plan THEN {"plan"} ELSE {})}
    BY <1>2 DEF Observe
  <2>2. /\ runtime' # runtime => Changed(r, "runtime")'
        /\ plan' # plan => Changed(r, "plan")'
    BY <2>1 DEF Changed
  <2>3. ASSUME call'[r].page \in Path, NEW p \in Path
        PROVE  IF IsOpen(p)' THEN WasOpen(r, p)' ELSE WasClosed(r, p)'
    <3>1. Facts(call[r])' =
            {<<IF IsOpen(q)' THEN "open" ELSE "closed", q>> : q \in Path}
      BY <2>3 DEF Facts, Path
    <3>2. <<IF IsOpen(p)' THEN "open" ELSE "closed", p>> \in since'[r]
      BY <2>1, <3>1
    <3>3. QED
      BY <3>2 DEF WasOpen, WasClosed
  <2>4. QED
    BY <1>2, <2>1, <2>2, <2>3
<1>3. QED
  BY <1>1, <1>2

\* A reader that takes no step: the tables may change under it.
LEMMA WaitingReader ==
  ASSUME Observe, NEW r \in Reader, ReaderInv(r), UNCHANGED deployment,
         pc'[r] = pc[r], call'[r] = call[r], answer'[r] = answer[r],
         pc[r] \in {"runtime", "plan", "answer", "answered"} =>
           snapshot'[r] = snapshot[r] /\ held'[r] = held[r]
  PROVE  ReaderInv(r)'
<1> SUFFICES ASSUME call[r].page \in Path PROVE ReaderInv(r)'
  BY DEF ReaderInv
<1>1. CASE pc[r] = "runtime"
  BY <1>1, Witnesses DEF ReaderInv
<1>2. CASE pc[r] = "plan"
  <2>1. ReadFirst(r)
    BY <1>2 DEF ReaderInv
  <2>2. snapshot'[r] = runtime' \/ Changed(r, "runtime")'
    BY <1>2, <2>1, Witnesses DEF ReadFirst, Changed
  <2>3. ASSUME NEW p \in Path
        PROVE  Opens(deployment, snapshot[r], {}, p) => WasOpen(r, p)'
    BY <1>2, <2>1, Witnesses DEF ReadFirst, WasOpen
  <2>4. ASSUME NEW p \in Path, plan' = plan
        PROVE  ~Opens(deployment, snapshot[r], Kinds(plan), p)
                 => WasClosed(r, p)' \/ Changed(r, "plan")'
    BY <1>2, <2>1, Witnesses DEF ReadFirst, WasClosed, Changed
  <2>5. plan' # plan => Changed(r, "plan")'
    BY <1>2, Witnesses
  <2>6. ReadFirst(r)'
    BY <1>2, <2>2, <2>3, <2>4, <2>5 DEF ReadFirst, Kinds
  <2>7. QED
    BY <1>2, <2>6, Witnesses DEF ReaderInv
<1>3. CASE pc[r] = "answer"
  <2>1. ReadBoth(r)
    BY <1>3 DEF ReaderInv
  <2>2. Kinds(held[r])' = Kinds(held[r])
    BY <1>3 DEF Kinds
  <2>3. ReadBoth(r)'
    BY <1>3, <2>1, <2>2, Witnesses DEF ReadBoth, WasOpen, WasClosed, Torn
  <2>4. QED
    BY <1>3, <2>3, Witnesses DEF ReaderInv
<1>4. CASE pc[r] = "answered"
  <2>1. AnswerTrue(r)
    BY <1>4 DEF ReaderInv
  <2>2. AnswerTrue(r)'
    BY <1>4, <2>1, Witnesses DEF AnswerTrue, Told, WasOpen, WasClosed, Torn
  <2>3. QED
    BY <1>4, <2>2 DEF ReaderInv
<1>5. QED
  BY <1>1, <1>2, <1>3, <1>4 DEF ReaderInv

\* A step of one reader has to answer for that reader only.
LEMMA OneReader ==
  ASSUME SurfaceInv, Observe, NEW r \in Reader, Shape', ReaderInv(r)', UNCHANGED deployment,
         \A q \in Reader \ {r} :
           /\ pc'[q] = pc[q] /\ call'[q] = call[q] /\ answer'[q] = answer[q]
           /\ snapshot'[q] = snapshot[q] /\ held'[q] = held[q]
  PROVE  SurfaceInv'
  BY WaitingReader DEF SurfaceInv

-----------------------------------------------------------------------------
(***************************************************************************)
(* The initial states, and the steps.                                      *)
(***************************************************************************)

LEMMA InitSurface == ConsoleInit => SurfaceInv
<1> SUFFICES ASSUME ConsoleInit PROVE SurfaceInv
  OBVIOUS
<1>1. Shape
  BY DEF ConsoleInit, Init, Shape
<1>2. \A r \in Reader : pc[r] = "idle"
  BY DEF ConsoleInit, Init, Request
<1>3. QED
  BY <1>1, <1>2 DEF SurfaceInv, ReaderInv

LEMMA AskStep ==
  ASSUME SurfaceInv, NEW r \in Reader, NEW q \in Asked, Ask(r, q)
  PROVE  SurfaceInv'
<1>1. /\ Observe /\ UNCHANGED <<deployment, plan, held, snapshot, answer>>
      /\ pc' = [pc EXCEPT ![r] = IF q.page = "apply-preview" THEN "plan" ELSE "runtime"]
      /\ call' = [call EXCEPT ![r] = q]
  BY DEF Ask, Goto
<1>2. Shape'
  BY <1>1 DEF SurfaceInv, Shape
<1>3. /\ call'[r] = q
      /\ q.page \in Path => pc'[r] = "runtime"
  BY <1>1 DEF SurfaceInv, Shape, Path, Request
<1>4. ReaderInv(r)'
  BY <1>1, <1>3, Witnesses DEF ReaderInv
<1>5. QED
  BY <1>1, <1>2, <1>4, OneReader DEF SurfaceInv, Shape

LEMMA ReadRuntimeStep ==
  ASSUME SurfaceInv, NEW r \in Reader, ReadRuntime(r)
  PROVE  SurfaceInv'
<1>1. /\ Observe /\ UNCHANGED <<deployment, runtime, plan, held, call, answer>>
      /\ pc[r] = "runtime" /\ pc' = [pc EXCEPT ![r] = "plan"]
      /\ snapshot' = [snapshot EXCEPT ![r] = runtime]
  BY DEF ReadRuntime, Goto
<1>2. Shape'
  BY <1>1 DEF SurfaceInv, Shape
<1>3. pc'[r] = "plan" /\ snapshot'[r] = runtime
  BY <1>1 DEF SurfaceInv, Shape, Request
<1>4. ASSUME call[r].page \in Path
      PROVE  ReadFirst(r)'
  <2>1. ASSUME NEW p \in Path
        PROVE  IF Opens(deployment, runtime, Kinds(plan), p) THEN WasOpen(r, p)' ELSE WasClosed(r, p)'
    <3>1. IF IsOpen(p) THEN WasOpen(r, p) ELSE WasClosed(r, p)
      BY <1>1, <1>4, <2>1 DEF SurfaceInv, ReaderInv
    <3>2. QED
      BY <1>1, <1>3, <3>1, Witnesses DEF IsOpen, WasOpen, WasClosed
  <2>2. ASSUME NEW p \in Path, Opens(deployment, runtime, {}, p)
        PROVE  Opens(deployment, runtime, Kinds(plan), p)
    BY <2>2, MoreKindsOpen
  <2>3. QED
    BY <1>1, <1>3, <2>1, <2>2 DEF ReadFirst, Kinds
<1>5. ReaderInv(r)'
  BY <1>1, <1>3, <1>4, Witnesses DEF ReaderInv
<1>6. QED
  BY <1>1, <1>2, <1>5, OneReader DEF SurfaceInv, Shape

\* The second read completes the copies: what they do not open was closed when
\* the runtime state had not changed yet, or before the plan did.
LEMMA ReadPlanStep ==
  ASSUME SurfaceInv, NEW r \in Reader, ReadPlan(r)
  PROVE  SurfaceInv'
<1>1. /\ Observe /\ UNCHANGED <<deployment, runtime, plan, snapshot, call, answer>>
      /\ pc[r] = "plan" /\ pc' = [pc EXCEPT ![r] = "answer"]
      /\ held' = [held EXCEPT ![r] = plan]
  BY DEF ReadPlan, Goto, console
<1>2. Shape'
  BY <1>1 DEF SurfaceInv, Shape
<1>3. pc'[r] = "answer" /\ held'[r] = plan
  BY <1>1 DEF SurfaceInv, Shape, Request
<1>4. ASSUME call[r].page \in Path
      PROVE  ReadBoth(r)'
  <2>1. ReadFirst(r)
    BY <1>1, <1>4 DEF SurfaceInv, ReaderInv
  <2>2. ASSUME NEW p \in Path
        PROVE  IF IsOpen(p) THEN WasOpen(r, p) ELSE WasClosed(r, p)
    BY <1>1, <1>4 DEF SurfaceInv, ReaderInv
  <2>3. ASSUME NEW p \in Path, Opens(deployment, snapshot[r], Kinds(plan), p)
        PROVE  WasOpen(r, p)
    <3>1. Opens(deployment, snapshot[r], {}, p) \/ IsOpen(p)
      BY <2>3, OneTableOpens DEF IsOpen
    <3>2. QED
      BY <2>1, <2>2, <3>1 DEF ReadFirst
  <2>4. ASSUME NEW p \in Path, ~Opens(deployment, snapshot[r], Kinds(plan), p)
        PROVE  WasClosed(r, p) \/ Torn(r)
    <3>1. CASE snapshot[r] = runtime
      BY <2>2, <2>4, <3>1 DEF IsOpen
    <3>2. CASE Changed(r, "runtime")
      BY <2>1, <2>4, <3>2 DEF ReadFirst, Changed, Torn
    <3>3. QED
      BY <2>1, <3>1, <3>2 DEF ReadFirst
  <2>5. Kinds(held[r])' = Kinds(plan)
    BY <1>3 DEF Kinds
  <2>6. since[r] \subseteq since'[r]
    BY <1>1, <1>3, Witnesses
  <2>7. QED
    BY <1>1, <2>3, <2>4, <2>5, <2>6 DEF ReadBoth, WasOpen, WasClosed, Torn
<1>5. ReaderInv(r)'
  BY <1>1, <1>3, <1>4, Witnesses DEF ReaderInv
<1>6. QED
  BY <1>1, <1>2, <1>5, OneReader DEF SurfaceInv, Shape

LEMMA TellStep ==
  ASSUME SurfaceInv, NEW r \in Reader, NEW status, NEW shown, NEW problems,
         Tell(r, status, shown, problems),
         call[r].page \in Path =>
           /\ status = "ok" => \A p \in shown \cup {call[r].page} : WasOpen(r, p)
           /\ status = "unavailable" => WasClosed(r, call[r].page) \/ Torn(r)
  PROVE  SurfaceInv'
<1>1. /\ Observe /\ UNCHANGED <<deployment, call>>
      /\ pc' = [pc EXCEPT ![r] = "answered"]
      /\ answer' = [answer EXCEPT ![r] =
           [status |-> status, shown |-> shown, problems |-> problems]]
      /\ held' = [held EXCEPT ![r] = NoPlan]
      /\ snapshot' = [snapshot EXCEPT ![r] = NoRuntime]
  BY DEF Tell, Goto
<1>2. Shape'
  BY <1>1 DEF SurfaceInv, Shape
<1>3. /\ pc'[r] = "answered"
      /\ answer'[r] = [status |-> status, shown |-> shown, problems |-> problems]
  BY <1>1 DEF SurfaceInv, Shape, Request
<1>4. since[r] \subseteq since'[r]
  BY <1>1, <1>3, Witnesses
<1>5. call[r].page \in Path => AnswerTrue(r)'
  BY <1>1, <1>3, <1>4 DEF AnswerTrue, Told, WasOpen, WasClosed, Torn
<1>6. ReaderInv(r)'
  BY <1>1, <1>3, <1>5 DEF ReaderInv
<1>7. \A q \in Reader \ {r} :
        /\ pc'[q] = pc[q] /\ call'[q] = call[q] /\ answer'[q] = answer[q]
        /\ snapshot'[q] = snapshot[q] /\ held'[q] = held[q]
  BY <1>1 DEF SurfaceInv, Shape, Request
<1>8. QED
  BY <1>1, <1>2, <1>6, <1>7, OneReader

LEMMA AnswerStep ==
  ASSUME SurfaceInv, NEW r \in Reader,
         AnswerSurface(r) \/ AnswerPreview(r) \/ AnswerApplyPreview(r)
  PROVE  SurfaceInv'
<1>1. CASE AnswerSurface(r)
  <2> DEFINE path == call[r].page
             kinds == Kinds(held[r])
             open == Opens(deployment, snapshot[r], kinds, path)
             shown == IF path \in {"operator", "callcenter"}
                      THEN VisiblePaths(deployment, snapshot[r], kinds) ELSE {}
  <2>1. path \in Path /\ ReadBoth(r)
    BY <1>1 DEF AnswerSurface, SurfaceInv, ReaderInv
  <2>2. CASE ~open
    <3>1. Tell(r, "unavailable", {}, {})
      BY <1>1, <2>2 DEF AnswerSurface
    <3>2. WasClosed(r, path) \/ Torn(r)
      BY <2>1, <2>2 DEF ReadBoth
    <3>3. QED
      BY <3>1, <3>2, TellStep
  <2>3. CASE open
    <3>1. Tell(r, "ok", shown, {})
      BY <1>1, <2>3 DEF AnswerSurface
    <3>2. ASSUME NEW p \in shown
          PROVE  p \in Path /\ Opens(deployment, snapshot[r], kinds, p)
      BY <2>3, <3>2, ListedIsOpen
    <3>3. \A p \in shown \cup {path} : WasOpen(r, p)
      BY <2>1, <2>3, <3>2 DEF ReadBoth
    <3> HIDE DEF shown
    <3>4. QED
      BY <3>1, <3>3, TellStep
  <2>4. QED
    BY <2>2, <2>3
<1>2. CASE AnswerPreview(r)
  <2>1. \E status, problems : Tell(r, status, {}, problems)
    BY <1>2 DEF AnswerPreview
  <2>2. call[r].page \notin Path
    BY <1>2 DEF AnswerPreview, Path
  <2>3. QED
    BY <2>1, <2>2, TellStep
<1>3. CASE AnswerApplyPreview(r)
  <2>1. \E shown, problems : Tell(r, "ok", shown, problems)
    BY <1>3 DEF AnswerApplyPreview
  <2>2. call[r].page \notin Path
    BY <1>3 DEF AnswerApplyPreview, Path
  <2>3. QED
    BY <2>1, <2>2, TellStep
<1>4. QED
  BY <1>1, <1>2, <1>3

LEMMA ReceiveStep ==
  ASSUME SurfaceInv, NEW r \in Reader, Receive(r)
  PROVE  SurfaceInv'
<1>1. /\ Observe /\ UNCHANGED <<deployment, held, snapshot>>
      /\ pc' = [pc EXCEPT ![r] = "idle"]
      /\ call' = [call EXCEPT ![r] = NoCall]
      /\ answer' = [answer EXCEPT ![r] = NoAnswer]
  BY DEF Receive, Goto
<1>2. Shape'
  BY <1>1 DEF SurfaceInv, Shape
<1>3. pc'[r] = "idle"
  BY <1>1 DEF SurfaceInv, Shape, Request
<1>4. ReaderInv(r)'
  BY <1>3 DEF ReaderInv
<1>5. QED
  BY <1>1, <1>2, <1>4, OneReader DEF SurfaceInv, Shape, Request

LEMMA ReportStep ==
  ASSUME SurfaceInv, NEW s, SaveOperatorRuntimeState(s)
  PROVE  SurfaceInv'
<1>1. Observe /\ UNCHANGED <<deployment, pc, held, call, snapshot, answer>>
  BY DEF SaveOperatorRuntimeState, vars
<1>2. Shape'
  BY <1>1 DEF SurfaceInv, Shape
<1>3. QED
  BY <1>1, <1>2, WaitingReader DEF SurfaceInv

\* A writer moves itself only; what it does to the plan, and to the arrays under
\* everybody's slices, it does not do to the lengths of a reader's copies.
LEMMA WriterMoves ==
  ASSUME Shape, NEW w \in Writer, Write(w)
  PROVE  /\ pc' = [r \in Request |-> pc'[r]] /\ held' = [r \in Request |-> held'[r]]
         /\ \A r \in Reader : pc'[r] = pc[r] /\ held'[r] = held[r]
<1>1. \A r \in Reader : r # w
  BY PBXAssumption
<1>2. \E step : pc' = [pc EXCEPT ![w] = step]
  BY DEF Write, Create, CreateRead, CreateNumber, CreateAppend, Delete, DeleteRead, DeleteFilter,
         Sort, Save, Begin, End, Goto
<1>3. UNCHANGED held \/ \E copy : held' = [held EXCEPT ![w] = copy]
  BY DEF Write, Create, CreateRead, CreateNumber, CreateAppend, Delete, DeleteRead, DeleteFilter,
         Sort, Save, Begin, End
<1>4. QED
  BY <1>1, <1>2, <1>3 DEF Shape, Request

\* A reader of the plan is not asking for a wallboard.
LEMMA ListerMoves ==
  ASSUME Shape, NEW r \in Reader, List(r)
  PROVE  /\ pc' = [q \in Request |-> pc'[q]] /\ held' = [q \in Request |-> held'[q]]
         /\ \A q \in Reader \ {r} : pc'[q] = pc[q] /\ held'[q] = held[q]
         /\ pc'[r] \in {"idle", "show"}
<1>1. \E step \in {"idle", "show"} : pc' = [pc EXCEPT ![r] = step]
  BY DEF List, ListRead, ListShow, Begin, End, Goto
<1>2. \E copy : held' = [held EXCEPT ![r] = copy]
  BY DEF List, ListRead, ListShow, Begin, End
<1>3. QED
  BY <1>1, <1>2 DEF Shape, Request

LEMMA AdministrateStep ==
  ASSUME SurfaceInv, Administrate
  PROVE  SurfaceInv'
<1>1. Observe /\ UNCHANGED <<deployment, call, snapshot, answer>>
  BY DEF Administrate, console
<1>2. ASSUME NEW w \in Writer, Write(w)
      PROVE  SurfaceInv'
  <2>1. Shape'
    BY <1>1, <1>2, WriterMoves DEF SurfaceInv, Shape
  <2>2. QED
    BY <1>1, <1>2, <2>1, WriterMoves, WaitingReader DEF SurfaceInv
<1>3. ASSUME NEW r \in Reader, List(r)
      PROVE  SurfaceInv'
  <2>1. Shape'
    BY <1>1, <1>3, ListerMoves DEF SurfaceInv, Shape
  <2>2. ReaderInv(r)'
    BY <1>3, ListerMoves DEF SurfaceInv, ReaderInv
  <2>3. QED
    BY <1>1, <1>3, <2>1, <2>2, ListerMoves, OneReader DEF SurfaceInv
<1>4. QED
  BY <1>2, <1>3 DEF Administrate

LEMMA StutterStep ==
  ASSUME SurfaceInv, UNCHANGED allVars
  PROVE  SurfaceInv'
<1>1. UNCHANGED <<plan, pc, held, deployment, runtime, call, snapshot, answer, since>>
  BY DEF allVars, vars, console
<1>2. Shape'
  BY <1>1 DEF SurfaceInv, Shape
<1>3. ASSUME NEW r \in Reader
      PROVE  ReaderInv(r)'
  <2>1. ReaderInv(r)
    BY DEF SurfaceInv
  <2>2. QED
    BY <1>1, <2>1 DEF ReaderInv, ReadFirst, ReadBoth, AnswerTrue, Told, Changed, WasOpen, WasClosed,
                      Torn, Kinds, IsOpen
<1>4. QED
  BY <1>2, <1>3 DEF SurfaceInv

LEMMA NextSurface == SurfaceInv /\ [ConsoleNext]_allVars => SurfaceInv'
<1> SUFFICES ASSUME SurfaceInv, [ConsoleNext]_allVars PROVE SurfaceInv'
  OBVIOUS
<1>1. ASSUME NEW r \in Reader, Console(r) PROVE SurfaceInv'
  BY <1>1, AskStep, ReadRuntimeStep, ReadPlanStep, AnswerStep, ReceiveStep DEF Console
<1>2. QED
  BY <1>1, AdministrateStep, ReportStep, StutterStep DEF ConsoleNext

\* A wallboard that opens, or that a dashboard lists, was open at some moment
\* since it was asked for; one that is refused was closed at some moment, or both
\* the runtime state and the plan changed: for any number of readers and writers,
\* any deployment and whatever the backend reports.
THEOREM WallboardsWereTrue == ConsoleSpec => []SurfacesWereTrue
<1>1. SurfaceInv => SurfacesWereTrue
  BY DEF SurfaceInv, ReaderInv, AnswerTrue, Told, SurfacesWereTrue, WasOpen, WasClosed
<1>2. QED
  BY <1>1, InitSurface, NextSurface, PTL DEF ConsoleSpec

-----------------------------------------------------------------------------
(***************************************************************************)
(* The previews of supervisor actions: what the slice of queues in a       *)
(* reader's hands is to the plan.                                          *)
(***************************************************************************)

WasThere(r) == <<"there", "target">> \in since[r]
WasGone(r) == <<"gone", "target">> \in since[r]
SawCreate(r) == <<"created", "queues">> \in since[r]

\* On the array of the plan's slice a writer has the same slice, or a longer one
\* while it creates.
AheadInv ==
  \A w \in Writer, k \in Kind :
    held[w][k].array # 0 /\ held[w][k].array = plan[k].array =>
      \/ held[w][k].len = plan[k].len
      \/ held[w][k].len > plan[k].len /\ job[w].op = "create" /\ job[w].kind = k

PlanInv == TablesInv /\ JobsInv /\ ApartInv /\ AheadInv

\* Nobody will write to the array any more.
Left(s) ==
  \A k \in Kind : plan[k].array # s.array /\ \A w \in Writer : held[w][k].array # s.array

\* The slice of queues a reader holds is as it was when it was read, or it is on
\* the plan's array: then it is the plan's, or the beginning of it.
KeptQueues(r) ==
  "queues" \in Kind =>
    LET s == held[r]["queues"]
        t == plan["queues"]
    IN  \/ s.array = 0
        \/ Left(s)
        \/ /\ s.array = t.array
           /\ s.len = t.len \/ (s.len < t.len /\ SawCreate(r))

\* The target is found in the runtime state that was read, or among these queues.
Finds(r, queues) == TargetFound(snapshot[r], queues, call[r].kind, call[r].ref)

Waiting == {"runtime", "plan", "answer"}

PreviewWitnessed(r) ==
  /\ IF IsThere(call[r]) THEN WasThere(r) ELSE WasGone(r)
  /\ CreatesQueue => SawCreate(r)

\* What ReadFirst says of wallboards.
LiveRead(r) ==
  /\ snapshot[r] = runtime \/ Changed(r, "runtime")
  /\ Finds(r, {}) => WasThere(r)
  /\ ~Finds(r, Named(plan, "queues")) => WasGone(r) \/ SawCreate(r) \/ Changed(r, "plan")

\* What ReadBoth says of wallboards.
TargetRead(r) ==
  /\ Finds(r, Named(held[r], "queues")) => WasThere(r)
  /\ ~Finds(r, Named(held[r], "queues")) => WasGone(r) \/ SawCreate(r) \/ Torn(r)

PreviewTrue(r) ==
  Told(r, "ok") => IF "target" \in answer[r].problems
                   THEN WasGone(r) \/ SawCreate(r) \/ Torn(r)
                   ELSE WasThere(r)

PreviewReader(r) ==
  call[r].page = "preview" =>
    /\ pc[r] \in Waiting => PreviewWitnessed(r)
    /\ pc[r] = "plan" => LiveRead(r)
    /\ pc[r] = "answer" => KeptQueues(r) /\ TargetRead(r)
    /\ pc[r] = "answered" => PreviewTrue(r)

PreviewInv == SurfaceInv /\ PlanInv /\ \A r \in Reader : PreviewReader(r)

\* More queues find no less, and what they find is there when they are.
LEMMA MoreQueuesFind ==
  ASSUME NEW s, NEW queues, NEW kind, NEW ref
  PROVE  /\ TargetFound(s, {}, kind, ref) => TargetFound(s, queues, kind, ref)
         /\ TargetFound(s, queues, kind, ref) /\ ~TargetFound(s, {}, kind, ref)
              => /\ ref \in queues
                 /\ \A t, others : ref \in others => TargetFound(t, others, kind, ref)
  BY DEF TargetFound

\* While a preview waits, what is so now is witnessed.
LEMMA PreviewWitnesses ==
  ASSUME Observe, NEW r \in Reader, pc'[r] \in Waiting, call'[r].page = "preview"
  PROVE  PreviewWitnessed(r)'
<1>1. Facts(call[r])' \subseteq since'[r]
  BY DEF Observe, Waiting
<1>2. Facts(call[r])' =
        {<<IF IsThere(call[r])' THEN "there" ELSE "gone", "target">>}
          \cup (IF CreatesQueue' THEN {<<"created", "queues">>} ELSE {})
  BY DEF Facts
<1>3. QED
  BY <1>1, <1>2 DEF PreviewWitnessed, WasThere, WasGone, SawCreate

-----------------------------------------------------------------------------
(***************************************************************************)
(* The arrays, when a writer takes a step.                                 *)
(***************************************************************************)

LEMMA SameArraySameKind ==
  ASSUME ApartInv, NEW p \in Plans, NEW q \in Plans, NEW k \in Kind, NEW l \in Kind,
         p[k].array = q[l].array, p[k].array # 0
  PROVE  k = l
BY DEF ApartInv, KindsApart

\* The steps of a writer, by what they do to the arrays and to the slices.
LEMMA WriteKinds ==
  ASSUME NEW w \in Writer, Write(w)
  PROVE  \/ UNCHANGED <<arrays, plan>> /\ held' = [held EXCEPT ![w] = plan]
         \/ CreateNumber(w)
         \/ CreateAppend(w)
         \/ DeleteFilter(w) /\ job' = job /\ Goto(w, "sort")
         \/ plan' = plan /\ held' = [held EXCEPT ![w] = NoPlan] /\ Update(arrays)
         \/ Sort(w)
         \/ Save(w)
BY DEF Write, Create, CreateRead, Delete, DeleteRead, DeleteFilter, Begin, End

LEMMA AheadStep ==
  ASSUME OneWriter, PlanInv, NEW w \in Writer, Write(w)
  PROVE  AheadInv'
<1> w \in Request
  BY DEF Request
<1> SUFFICES ASSUME NEW k \in Kind, held'[w][k].array # 0, held'[w][k].array = plan'[k].array
             PROVE  \/ held'[w][k].len = plan'[k].len
                    \/ held'[w][k].len > plan'[k].len /\ job'[w].op = "create" /\ job'[w].kind = k
  BY DEF AheadInv, OneWriter
<1> USE DEF PlanInv
<1>1. CASE UNCHANGED <<arrays, plan>> /\ held' = [held EXCEPT ![w] = plan]
  BY <1>1 DEF TablesInv
<1>2. CASE CreateNumber(w)
  <2>1. job'[w].op = job[w].op /\ job'[w].kind = job[w].kind
    BY <1>2, NextIDOfHeld
  <2>2. QED
    BY <1>2, <2>1 DEF CreateNumber, AheadInv
<1>3. CASE CreateAppend(w)
  <2>1. PICK l, s, e : /\ l = job[w].kind /\ s = held[w][l]
                       /\ e = [id |-> job[w].id, key |-> job[w].key]
    OBVIOUS
  <2>2. /\ plan' = plan
        /\ k # l => held'[w][k] = held[w][k]
        /\ held'[w][l].len = s.len + 1
        /\ held'[w][l].array = s.array \/ held'[w][l].array \notin DOMAIN arrays
    BY <1>3, <2>1, AppendStep
  <2>3. job' = job /\ job[w].op = "create"
    BY <1>3 DEF CreateAppend, JobsInv
  <2>4. CASE k # l
    BY <2>2, <2>3, <2>4 DEF AheadInv
  <2>5. CASE k = l
    <3>1. plan[k].array \in DOMAIN arrays
      BY <2>2 DEF TablesInv, Written
    <3>2. s.array = plan[k].array /\ s.array # 0
      BY <2>2, <2>5, <3>1
    <3>3. s.len = plan[k].len \/ s.len > plan[k].len
      BY <2>1, <2>5, <3>2 DEF AheadInv
    <3>4. s.len \in Nat /\ plan[k].len \in Nat
      BY <2>1, <2>5 DEF TablesInv, Slice
    <3>5. QED
      BY <2>1, <2>2, <2>3, <2>5, <3>3, <3>4
  <2>6. QED
    BY <2>4, <2>5
<1>4. CASE DeleteFilter(w) /\ job' = job /\ Goto(w, "sort")
  <2>1. PICK l, s, rest : /\ l = job[w].kind /\ s = held[w][l]
                          /\ rest = WithoutID(View(arrays, s), job[w].id)
    OBVIOUS
  <2>2. pc'[w] # "idle"
    BY <1>4 DEF Goto, JobsInv
  <2>3. /\ plan' = plan
        /\ k # l => held'[w][k] = held[w][k]
        /\ held'[w][l].array \notin DOMAIN arrays
    BY <1>4, <2>1, <2>2, FilterStep
  <2>4. plan[k].array \in DOMAIN arrays
    BY <2>3 DEF TablesInv, Written
  <2>5. k # l
    BY <2>3, <2>4
  <2>6. QED
    BY <1>4, <2>3, <2>5 DEF AheadInv
<1>5. CASE held' = [held EXCEPT ![w] = NoPlan]
  BY <1>5 DEF TablesInv, NoPlan, EmptySlice
<1>6. CASE Sort(w)
  BY <1>6 DEF Sort, AheadInv
<1>7. CASE Save(w)
  BY <1>5, <1>7 DEF Save, End
<1>8. QED
  BY <1>1, <1>2, <1>3, <1>4, <1>5, <1>6, <1>7, WriteKinds

\* The sort, and the save that sorts again, permute what a slice shows, unless it
\* is another slice of one of the sorted arrays.
LEMMA SortedUnder ==
  ASSUME TablesInv, NEW w \in Writer, Update(SortPBXPlan(arrays, held[w])),
         plan' = plan \/ plan' = held[w],
         held' = held \/ held' = [held EXCEPT ![w] = NoPlan],
         KindsApart(held[w], held[w]),
         NEW k \in Kind
  PROVE  /\ plan'[k] = held[w][k]
              \/ (\A l \in Kind : held[w][l].array # plan'[k].array \/ plan'[k].array = 0)
            => Contents(arrays', plan'[k]) = Contents(arrays, plan'[k])
         /\ \A r \in Reader :
              held[r][k] = held[w][k]
                \/ (\A l \in Kind : held[w][l].array # held[r][k].array \/ held[r][k].array = 0)
              => Contents(arrays', held[r][k]) = Contents(arrays, held[r][k])
<1>1. w \in Request
  BY DEF Request
<1>2. PICK p : p = held[w]
  OBVIOUS
<1>3. View(arrays, p[k]) \in Seq(Entity)
  BY <1>1, <1>2, ViewOfWritten DEF TablesInv
<1>4. ToSet(Sorted(View(arrays, p[k]))) = ToSet(View(arrays, p[k]))
  BY <1>3, SortedProperties
<1>5. /\ plan'[k] = p[k] => View(arrays', plan'[k]) = Sorted(View(arrays, p[k]))
      /\ (\A l \in Kind : p[l].array # plan'[k].array \/ plan'[k].array = 0)
           => View(arrays', plan'[k]) = View(arrays, plan'[k])
  BY <1>1, <1>2, SortStep
<1>6. /\ plan'[k] = held[w][k]
           \/ (\A l \in Kind : held[w][l].array # plan'[k].array \/ plan'[k].array = 0)
         => Contents(arrays', plan'[k]) = Contents(arrays, plan'[k])
  BY <1>2, <1>4, <1>5 DEF Contents
<1>7. ASSUME NEW r \in Reader
      PROVE  held[r][k] = held[w][k]
               \/ (\A l \in Kind : held[w][l].array # held[r][k].array \/ held[r][k].array = 0)
             => Contents(arrays', held[r][k]) = Contents(arrays, held[r][k])
  <2>1. r \in Request /\ r # w
    BY PBXAssumption DEF Request
  <2>2. held'[r] = held[r]
    BY <2>1 DEF TablesInv
  <2>3. /\ held'[r][k] = p[k] => View(arrays', held'[r][k]) = Sorted(View(arrays, p[k]))
        /\ (\A l \in Kind : p[l].array # held'[r][k].array \/ held'[r][k].array = 0)
             => View(arrays', held'[r][k]) = View(arrays, held'[r][k])
    BY <1>1, <1>2, <2>1, SortStep
  <2>4. QED
    BY <1>2, <1>4, <2>2, <2>3 DEF Contents
<1>8. QED
  BY <1>6, <1>7

\* What a step of the writer makes of the queues a preview holds: they stay, or
\* a queue was created and they are some of the plan's.
LEMMA QueuesShown ==
  ASSUME PlanInv, NEW w \in Writer, Write(w), NEW r \in Reader, "queues" \in Kind,
         KeptQueues(r), CreatesQueue => SawCreate(r), held'[r] = held[r]
  PROVE  \/ Contents(arrays', held[r]["queues"]) = Contents(arrays, held[r]["queues"])
         \/ /\ SawCreate(r)
            /\ plan'["queues"].array = held[r]["queues"].array
            /\ held[r]["queues"].len <= plan'["queues"].len
<1> USE DEF PlanInv
<1>1. w \in Request /\ r \in Request /\ r # w
  BY PBXAssumption DEF Request
<1>2. PICK k : k = "queues"
  OBVIOUS
<1>3. PICK s, t, m : s = held[r][k] /\ t = plan[k] /\ m = held[w][k]
  OBVIOUS
<1>4. s \in Slice /\ t \in Slice /\ m \in Slice /\ k \in Kind
  BY <1>1, <1>2, <1>3 DEF TablesInv
<1>5. \/ s.array = 0
      \/ Left(s)
      \/ s.array = t.array /\ (s.len = t.len \/ (s.len < t.len /\ SawCreate(r)))
  BY <1>2, <1>3 DEF KeptQueues
<1>6. m.array # 0 /\ m.array = t.array =>
        \/ m.len = t.len
        \/ m.len > t.len /\ job[w].op = "create" /\ job[w].kind = k
  BY <1>3, <1>4 DEF AheadInv
<1>7. \A l \in Kind : held[w][l].array = s.array /\ s.array # 0 => l = k
  <2>1. held[w] \in Plans /\ held[r] \in Plans
    BY <1>1 DEF Plans
  <2>2. QED
    BY <1>3, <1>4, <2>1, SameArraySameKind
<1>8. m.array = s.array /\ s.array # 0 => s.len <= m.len
  BY <1>3, <1>4, <1>5, <1>6 DEF Left, Slice
<1>9. ASSUME View(arrays', held[r][k]) = View(arrays, held[r][k])
      PROVE  Contents(arrays', held[r][k]) = Contents(arrays, held[r][k])
  BY <1>9 DEF Contents
<1>10. CASE UNCHANGED arrays
  BY <1>10
<1>11. CASE CreateAppend(w)
  <2>1. PICK l, u, e : /\ l = job[w].kind /\ u = held[w][l]
                       /\ e = [id |-> job[w].id, key |-> job[w].key]
    OBVIOUS
  <2>2. /\ l \in Kind
        /\ held[r][k].array # u.array \/ held[r][k].len <= u.len
             => View(arrays', held[r][k]) = View(arrays, held[r][k])
    BY <1>1, <1>4, <1>11, <2>1, AppendStep
  <2>3. CASE s.array = 0
    BY <1>2, <1>3, <2>3 DEF Contents, View
  <2>4. CASE s.array # 0
    <3>1. s.array # u.array \/ s.len <= u.len
      BY <1>3, <1>7, <1>8, <2>1, <2>2, <2>4
    <3>2. QED
      BY <1>2, <1>3, <1>9, <2>2, <3>1
  <2>5. QED
    BY <2>3, <2>4
<1>12. CASE DeleteFilter(w) /\ job' = job /\ Goto(w, "sort")
  <2>1. PICK l, u, rest : /\ l = job[w].kind /\ u = held[w][l]
                          /\ rest = WithoutID(View(arrays, u), job[w].id)
    OBVIOUS
  <2>2. pc'[w] # "idle"
    BY <1>1, <1>12 DEF Goto, JobsInv
  <2>3. View(arrays', held[r][k]) = View(arrays, held[r][k])
    BY <1>1, <1>4, <1>12, <2>1, <2>2, FilterStep
  <2>4. QED
    BY <1>2, <1>9, <2>3
<1>13. CASE plan' = plan /\ held' = [held EXCEPT ![w] = NoPlan] /\ Update(arrays)
  <2>1. View(arrays', held'[r][k]) = View(arrays, held'[r][k])
    BY <1>1, <1>4, <1>13, DropStep
  <2>2. QED
    BY <1>2, <1>9, <2>1
<1>14. CASE Sort(w) \/ Save(w)
  <2>1. /\ Update(SortPBXPlan(arrays, held[w]))
        /\ plan' = plan \/ plan' = held[w]
        /\ held' = held \/ held' = [held EXCEPT ![w] = NoPlan]
    BY <1>14 DEF Sort, Save, End
  <2>2. KindsApart(held[w], held[w])
    BY <1>1 DEF ApartInv, Plans
  <2>3. /\ held[r][k] = held[w][k]
             \/ (\A l \in Kind : held[w][l].array # held[r][k].array \/ held[r][k].array = 0)
          => Contents(arrays', held[r][k]) = Contents(arrays, held[r][k])
    BY <1>4, <2>1, <2>2, SortedUnder
  <2>4. CASE s = m \/ s.array # m.array \/ s.array = 0
    <3>1. held[r][k] = held[w][k]
             \/ (\A l \in Kind : held[w][l].array # held[r][k].array \/ held[r][k].array = 0)
      BY <1>3, <1>7, <2>4
    <3>2. QED
      BY <1>2, <2>3, <3>1
  <2>5. CASE s # m /\ s.array = m.array /\ s.array # 0
    <3>1. s.len # m.len
      BY <1>4, <2>5 DEF Slice
    <3>2. ~Left(s)
      BY <1>3, <1>4, <2>5 DEF Left
    <3>3. s.array = t.array /\ s.len <= t.len /\ (s.len # t.len => SawCreate(r))
      BY <1>4, <1>5, <2>5, <3>2 DEF Slice
    <3>4. m.len # t.len => CreatesQueue
      BY <1>2, <1>6, <2>5, <3>3 DEF CreatesQueue
    <3>5. SawCreate(r)
      BY <3>1, <3>3, <3>4
    <3>6. plan'[k] = t \/ plan'[k] = m
      BY <1>3, <2>1
    <3>7. plan'[k].array = s.array /\ s.len <= plan'[k].len
      BY <1>8, <2>5, <3>3, <3>6
    <3>8. QED
      BY <1>2, <1>3, <3>5, <3>7
  <2>6. QED
    BY <2>4, <2>5
<1>15. QED
  BY <1>10, <1>11, <1>12, <1>13, <1>14, WriteKinds DEF CreateNumber

\* On the plan's array, a slice that is no longer shows some of what the plan shows.
LEMMA ShorterShowsLess ==
  ASSUME NEW heap, NEW s, NEW t, Written(heap, s), Written(heap, t),
         s.array = t.array, s.len <= t.len
  PROVE  Contents(heap, s) \subseteq Contents(heap, t)
<1>1. s.len \in Nat /\ t.len \in Nat /\ 1..s.len \subseteq 1..t.len
  BY DEF Written, Slice
<1>2. /\ DOMAIN View(heap, s) = 1..s.len /\ DOMAIN View(heap, t) = 1..t.len
      /\ \A i \in 1..s.len : View(heap, s)[i] = heap[s.array][i]
      /\ \A i \in 1..t.len : View(heap, t)[i] = heap[t.array][i]
  BY ViewOfWritten, SeqShape
<1>3. QED
  BY <1>1, <1>2 DEF Contents, ToSet

\* Where they are on the plan's array they stay its beginning, and when the plan
\* moves to another array nobody writes to theirs any more.
LEMMA QueuesStayKept ==
  ASSUME OneWriter, PlanInv, NEW w \in Writer, Write(w), NEW r \in Reader, "queues" \in Kind,
         KeptQueues(r), CreatesQueue => SawCreate(r), SawCreate(r) => SawCreate(r)',
         held'[r] = held[r]
  PROVE  KeptQueues(r)'
<1> USE DEF PlanInv
<1>1. w \in Request /\ r \in Request /\ r # w
  BY PBXAssumption DEF Request
<1>2. PICK k : k = "queues"
  OBVIOUS
<1>3. PICK s, t, m : s = held[r][k] /\ t = plan[k] /\ m = held[w][k]
  OBVIOUS
<1>4. s \in Slice /\ t \in Slice /\ m \in Slice /\ k \in Kind
  BY <1>1, <1>2, <1>3 DEF TablesInv
<1> SUFFICES ASSUME s.array # 0
             PROVE  \/ Left(s)'
                    \/ /\ s.array = plan'[k].array
                       /\ s.len = plan'[k].len \/ (s.len < plan'[k].len /\ SawCreate(r)')
  BY <1>2, <1>3 DEF KeptQueues
<1>5. \/ Left(s)
      \/ s.array = t.array /\ (s.len = t.len \/ (s.len < t.len /\ SawCreate(r)))
  BY <1>2, <1>3 DEF KeptQueues
<1>6. s.array \in DOMAIN arrays
  BY <1>1, <1>3, <1>4 DEF TablesInv, Written
<1>7. \A v \in Writer : v = w
  BY DEF OneWriter
<1>8. ASSUME plan' = plan,
             \A l \in Kind : \/ held'[w][l].array \in {held[w][l].array, plan[l].array, 0}
                             \/ held'[w][l].array \notin DOMAIN arrays
      PROVE  \/ Left(s)'
             \/ /\ s.array = plan'[k].array
                /\ s.len = plan'[k].len \/ (s.len < plan'[k].len /\ SawCreate(r)')
  <2>1. CASE Left(s)
    <3>1. ASSUME NEW l \in Kind
          PROVE  plan'[l].array # s.array /\ held'[w][l].array # s.array
      BY <1>6, <1>8, <2>1 DEF Left
    <3>2. QED
      BY <1>7, <3>1 DEF Left
  <2>2. CASE ~Left(s)
    BY <1>3, <1>5, <1>8, <2>2
  <2>3. QED
    BY <2>1, <2>2
<1>9. CASE UNCHANGED <<arrays, plan>> /\ held' = [held EXCEPT ![w] = plan]
  <2>1. held'[w] = plan
    BY <1>1, <1>9 DEF TablesInv
  <2>2. QED
    BY <1>8, <1>9, <2>1
<1>10. CASE CreateNumber(w) \/ Sort(w)
  BY <1>8, <1>10 DEF CreateNumber, Sort
<1>11. CASE CreateAppend(w)
  <2>1. PICK l, u, e : /\ l = job[w].kind /\ u = held[w][l]
                       /\ e = [id |-> job[w].id, key |-> job[w].key]
    OBVIOUS
  <2>2. /\ plan' = plan
        /\ \A i \in Kind : i # l => held'[w][i] = held[w][i]
        /\ held'[w][l].array = u.array \/ held'[w][l].array \notin DOMAIN arrays
    BY <1>1, <1>11, <2>1, AppendStep
  <2>3. QED
    BY <1>8, <2>1, <2>2
<1>12. CASE DeleteFilter(w) /\ job' = job /\ Goto(w, "sort")
  <2>1. PICK l, u, rest : /\ l = job[w].kind /\ u = held[w][l]
                          /\ rest = WithoutID(View(arrays, u), job[w].id)
    OBVIOUS
  <2>2. pc'[w] # "idle"
    BY <1>1, <1>12 DEF Goto, JobsInv
  <2>3. /\ plan' = plan
        /\ \A i \in Kind : i # l => held'[w][i] = held[w][i]
        /\ held'[w][l].array \notin DOMAIN arrays
    BY <1>1, <1>12, <2>1, <2>2, FilterStep
  <2>4. QED
    BY <1>8, <2>3
<1>13. ASSUME held' = [held EXCEPT ![w] = NoPlan]
       PROVE  \A l \in Kind : held'[w][l].array = 0
  BY <1>1, <1>13 DEF TablesInv, NoPlan, EmptySlice
<1>14. CASE plan' = plan /\ held' = [held EXCEPT ![w] = NoPlan]
  BY <1>8, <1>13, <1>14
<1>15. CASE Save(w)
  <2>1. plan' = held[w] /\ \A l \in Kind : held'[w][l].array = 0
    BY <1>13, <1>15 DEF Save, End
  <2>2. CASE m.array = s.array
    <3>1. s.array = t.array /\ (s.len = t.len \/ (s.len < t.len /\ SawCreate(r)))
      BY <1>1, <1>3, <1>4, <1>5, <2>2 DEF Left
    <3>2. \/ m.len = t.len
          \/ m.len > t.len /\ job[w].op = "create" /\ job[w].kind = k
      BY <1>3, <1>4, <2>2, <3>1 DEF AheadInv
    <3>3. m.len # t.len => SawCreate(r)
      BY <1>2, <3>2 DEF CreatesQueue
    <3>4. s.len = m.len \/ (s.len < m.len /\ SawCreate(r))
      BY <1>4, <3>1, <3>2, <3>3 DEF Slice
    <3>5. QED
      BY <1>3, <2>1, <2>2, <3>4
  <2>3. CASE m.array # s.array
    <3>1. ASSUME NEW l \in Kind, held[w][l].array = s.array
          PROVE  FALSE
      <4>1. held[w] \in Plans /\ held[r] \in Plans
        BY <1>1 DEF Plans
      <4>2. l = k
        BY <1>3, <1>4, <3>1, <4>1, SameArraySameKind
      <4>3. QED
        BY <1>3, <2>3, <3>1, <4>2
    <3>2. \A l \in Kind : plan'[l].array # s.array /\ held'[w][l].array # s.array
      BY <2>1, <3>1
    <3>3. Left(s)'
      BY <1>7, <3>2 DEF Left
    <3>4. QED
      BY <3>3
  <2>4. QED
    BY <2>2, <2>3
<1>16. QED
  BY <1>9, <1>10, <1>11, <1>12, <1>14, <1>15, WriteKinds

\* While a preview has not read the plan yet: as long as no queue is created and
\* the plan is not replaced, the plan's queues stay.
LEMMA PlanQueuesStay ==
  ASSUME PlanInv, NEW w \in Writer, Write(w), "queues" \in Kind, plan' = plan
  PROVE  Contents(arrays', plan["queues"]) = Contents(arrays, plan["queues"]) \/ CreatesQueue
<1> USE DEF PlanInv
<1>1. w \in Request
  BY DEF Request
<1>2. PICK k : k = "queues"
  OBVIOUS
<1>3. PICK t, m : t = plan[k] /\ m = held[w][k]
  OBVIOUS
<1>4. t \in Slice /\ m \in Slice /\ k \in Kind
  BY <1>1, <1>2, <1>3 DEF TablesInv
<1>5. m.array # 0 /\ m.array = t.array =>
        \/ m.len = t.len
        \/ m.len > t.len /\ job[w].op = "create" /\ job[w].kind = k
  BY <1>3, <1>4 DEF AheadInv
<1>6. \A l \in Kind : held[w][l].array = t.array /\ t.array # 0 => l = k
  <2>1. held[w] \in Plans /\ plan \in Plans
    BY <1>1 DEF Plans
  <2>2. QED
    BY <1>3, <1>4, <2>1, SameArraySameKind
<1>7. ASSUME View(arrays', plan[k]) = View(arrays, plan[k])
      PROVE  Contents(arrays', plan[k]) = Contents(arrays, plan[k])
  BY <1>7 DEF Contents
<1>8. CASE UNCHANGED arrays
  BY <1>8
<1>9. CASE CreateAppend(w)
  <2>1. PICK l, u, e : /\ l = job[w].kind /\ u = held[w][l]
                       /\ e = [id |-> job[w].id, key |-> job[w].key]
    OBVIOUS
  <2>2. /\ l \in Kind
        /\ plan[k].array # u.array \/ plan[k].len <= u.len
             => View(arrays', plan[k]) = View(arrays, plan[k])
    BY <1>1, <1>4, <1>9, <2>1, AppendStep
  <2>3. CASE t.array = 0
    BY <1>2, <1>3, <2>3 DEF Contents, View
  <2>4. CASE t.array # 0
    <3>1. t.array # u.array \/ t.len <= u.len
      BY <1>3, <1>4, <1>5, <1>6, <2>1, <2>2, <2>4 DEF Slice
    <3>2. QED
      BY <1>2, <1>3, <1>7, <2>2, <3>1
  <2>5. QED
    BY <2>3, <2>4
<1>10. CASE DeleteFilter(w) /\ job' = job /\ Goto(w, "sort")
  <2>1. PICK l, u, rest : /\ l = job[w].kind /\ u = held[w][l]
                          /\ rest = WithoutID(View(arrays, u), job[w].id)
    OBVIOUS
  <2>2. pc'[w] # "idle"
    BY <1>1, <1>10 DEF Goto, JobsInv
  <2>3. View(arrays', plan[k]) = View(arrays, plan[k])
    BY <1>1, <1>4, <1>10, <2>1, <2>2, FilterStep
  <2>4. QED
    BY <1>2, <1>7, <2>3
<1>11. CASE plan' = plan /\ held' = [held EXCEPT ![w] = NoPlan] /\ Update(arrays)
  <2>1. View(arrays', plan'[k]) = View(arrays, plan[k])
    BY <1>1, <1>4, <1>11, DropStep
  <2>2. QED
    BY <1>2, <1>7, <1>11, <2>1
<1>12. CASE Sort(w) \/ Save(w)
  <2>1. /\ Update(SortPBXPlan(arrays, held[w]))
        /\ plan' = plan \/ plan' = held[w]
        /\ held' = held \/ held' = [held EXCEPT ![w] = NoPlan]
    BY <1>12 DEF Sort, Save, End
  <2>2. KindsApart(held[w], held[w])
    BY <1>1 DEF ApartInv, Plans
  <2>3. plan'[k] = held[w][k]
            \/ (\A l \in Kind : held[w][l].array # plan'[k].array \/ plan'[k].array = 0)
          => Contents(arrays', plan'[k]) = Contents(arrays, plan'[k])
    BY <1>4, <2>1, <2>2, SortedUnder
  <2>4. CASE t = m \/ t.array # m.array \/ t.array = 0
    <3>1. plan'[k] = held[w][k]
            \/ (\A l \in Kind : held[w][l].array # plan'[k].array \/ plan'[k].array = 0)
      BY <1>3, <1>6, <2>4
    <3>2. QED
      BY <1>2, <2>3, <3>1
  <2>5. CASE t # m /\ t.array = m.array /\ t.array # 0
    <3>1. t.len # m.len
      BY <1>4, <2>5 DEF Slice
    <3>2. QED
      BY <1>2, <1>5, <2>5, <3>1 DEF CreatesQueue
  <2>6. QED
    BY <2>4, <2>5
<1>13. QED
  BY <1>8, <1>9, <1>10, <1>11, <1>12, WriteKinds DEF CreateNumber

-----------------------------------------------------------------------------
(***************************************************************************)
(* The previews, when somebody takes a step.                               *)
(***************************************************************************)

\* What a step may do to the queues that a waiting preview has read, or will read.
QueuesStep(r) ==
  /\ pc[r] = "plan" =>
       plan' # plan \/ Named(plan, "queues")' = Named(plan, "queues") \/ SawCreate(r)
  /\ pc[r] = "answer" =>
       /\ KeptQueues(r)'
       /\ \/ Named(held[r], "queues")' = Named(held[r], "queues")
          \/ SawCreate(r) /\ Named(held[r], "queues")' \subseteq Named(plan, "queues")'

LEMMA WaitingPreview ==
  ASSUME Observe, NEW r \in Reader, PreviewReader(r), QueuesStep(r),
         pc'[r] = pc[r], call'[r] = call[r], answer'[r] = answer[r],
         pc[r] \in Waiting \cup {"answered"} => snapshot'[r] = snapshot[r]
  PROVE  PreviewReader(r)'
<1> SUFFICES ASSUME call[r].page = "preview" PROVE PreviewReader(r)'
  BY DEF PreviewReader
<1>1. PICK kind, ref, s : kind = call[r].kind /\ ref = call[r].ref /\ s = snapshot[r]
  OBVIOUS
<1>2. PICK q, p, o, n : /\ q = Named(plan, "queues") /\ p = Named(plan, "queues")'
                        /\ o = Named(held[r], "queues") /\ n = Named(held[r], "queues")'
  OBVIOUS
<1>3. ASSUME pc[r] \in Waiting
      PROVE  /\ PreviewWitnessed(r)' /\ since[r] \subseteq since'[r]
             /\ runtime' # runtime => Changed(r, "runtime")'
             /\ plan' # plan => Changed(r, "plan")'
             /\ TargetFound(runtime', p, kind, ref) => WasThere(r)'
             /\ snapshot'[r] = s
  <2>1. PreviewWitnessed(r)'
    BY <1>3, PreviewWitnesses
  <2>2. IsThere(call[r])' <=> TargetFound(runtime', p, kind, ref)
    BY <1>1, <1>2 DEF IsThere
  <2>3. TargetFound(runtime', p, kind, ref) => WasThere(r)'
    BY <2>1, <2>2 DEF PreviewWitnessed
  <2>4. QED
    BY <1>1, <1>3, <2>1, <2>3, Witnesses DEF Waiting
<1>4. CASE pc[r] = "runtime"
  BY <1>3, <1>4 DEF PreviewReader, Waiting
<1>5. CASE pc[r] = "plan"
  <2>1. /\ s = runtime \/ Changed(r, "runtime")
        /\ TargetFound(s, {}, kind, ref) => WasThere(r)
        /\ ~TargetFound(s, q, kind, ref) => WasGone(r) \/ SawCreate(r) \/ Changed(r, "plan")
    BY <1>1, <1>2, <1>5 DEF PreviewReader, LiveRead, Finds
  <2>2. plan' # plan \/ p = q \/ SawCreate(r)
    BY <1>2, <1>5 DEF QueuesStep
  <2>3. s = runtime' \/ Changed(r, "runtime")'
    BY <1>3, <1>5, <2>1 DEF Waiting, Changed
  <2>4. TargetFound(s, {}, kind, ref) => WasThere(r)'
    BY <1>3, <1>5, <2>1 DEF Waiting, WasThere
  <2>5. ~TargetFound(s, p, kind, ref) => WasGone(r)' \/ SawCreate(r)' \/ Changed(r, "plan")'
    BY <1>3, <1>5, <2>1, <2>2 DEF Waiting, WasGone, SawCreate, Changed
  <2>6. LiveRead(r)'
    BY <1>1, <1>2, <1>3, <1>5, <2>3, <2>4, <2>5 DEF LiveRead, Finds, Waiting
  <2>7. QED
    BY <1>3, <1>5, <2>6 DEF PreviewReader, Waiting
<1>6. CASE pc[r] = "answer"
  <2>1. /\ TargetFound(s, o, kind, ref) => WasThere(r)
        /\ ~TargetFound(s, o, kind, ref) => WasGone(r) \/ SawCreate(r) \/ Torn(r)
    BY <1>1, <1>2, <1>6 DEF PreviewReader, TargetRead, Finds
  <2>2. KeptQueues(r)' /\ (n = o \/ (SawCreate(r) /\ n \subseteq p))
    BY <1>2, <1>6 DEF QueuesStep
  <2>3. TargetFound(s, n, kind, ref) => WasThere(r)'
    <3>1. CASE n = o \/ TargetFound(s, {}, kind, ref)
      <4>1. TargetFound(s, {}, kind, ref) => TargetFound(s, o, kind, ref)
        BY MoreQueuesFind
      <4>2. QED
        BY <1>3, <1>6, <2>1, <3>1, <4>1 DEF Waiting, WasThere
    <3>2. CASE n \subseteq p /\ ~TargetFound(s, {}, kind, ref)
      <4>1. TargetFound(s, n, kind, ref) => TargetFound(runtime', p, kind, ref)
        BY <3>2, MoreQueuesFind
      <4>2. QED
        BY <1>3, <1>6, <4>1 DEF Waiting
    <3>3. QED
      BY <2>2, <3>1, <3>2
  <2>4. ~TargetFound(s, n, kind, ref) => WasGone(r)' \/ SawCreate(r)' \/ Torn(r)'
    BY <1>3, <1>6, <2>1, <2>2 DEF Waiting, WasGone, SawCreate, Torn
  <2>5. TargetRead(r)'
    BY <1>1, <1>2, <1>3, <1>6, <2>3, <2>4 DEF TargetRead, Finds, Waiting
  <2>6. QED
    BY <1>3, <1>6, <2>2, <2>5 DEF PreviewReader, Waiting
<1>7. CASE pc[r] = "answered"
  <2>1. PreviewTrue(r) /\ since[r] \subseteq since'[r]
    BY <1>7, Witnesses DEF PreviewReader
  <2>2. PreviewTrue(r)'
    BY <1>7, <2>1 DEF PreviewTrue, Told, WasThere, WasGone, SawCreate, Torn
  <2>3. QED
    BY <1>7, <2>2 DEF PreviewReader, Waiting
<1>8. QED
  BY <1>4, <1>5, <1>6, <1>7 DEF PreviewReader, Waiting

\* Only writers write.  Whoever else takes a step shares slices, or drops them.
ReaderMoves(r) ==
  /\ plan' = plan
  /\ \A w \in Writer : job'[w] = job[w]
  /\ \/ arrays' = arrays /\ (held' = held \/ held' = [held EXCEPT ![r] = plan])
     \/ held' = [held EXCEPT ![r] = NoPlan] /\ Update(arrays)

LEMMA ReaderTables ==
  ASSUME PlanInv, NEW r \in Reader, ReaderMoves(r)
  PROVE  TablesInv' /\ ApartInv' /\ AheadInv'
<1> USE DEF PlanInv, ReaderMoves
<1>1. r \in Request
  BY DEF Request
<1>2. TablesInv'
  <2>1. CASE arrays' = arrays /\ held' = held
    BY <2>1 DEF TablesInv
  <2>2. CASE arrays' = arrays /\ held' = [held EXCEPT ![r] = plan]
    BY <1>1, <2>2, ShareStep
  <2>3. CASE held' = [held EXCEPT ![r] = NoPlan] /\ Update(arrays)
    BY <1>1, <2>3, DropStep
  <2>4. QED
    BY <2>1, <2>2, <2>3
<1>3. \A q \in Request : held'[q] \in {held[q], plan, NoPlan}
  BY DEF TablesInv
<1>4. Plans' \subseteq Plans \cup {NoPlan}
  BY <1>3 DEF Plans
<1>5. ApartInv'
  BY <1>4, NoNewPlan
<1>6. \A w \in Writer : held'[w] = held[w]
  BY PBXAssumption DEF TablesInv, Request
<1>7. AheadInv'
  BY <1>6 DEF AheadInv
<1>8. QED
  BY <1>2, <1>5, <1>7

\* What a waiting preview knows of the queues it works with.
QueuesKnown(r) ==
  /\ pc[r] \in {"plan", "answer"} /\ CreatesQueue => SawCreate(r)
  /\ pc[r] = "answer" => KeptQueues(r) /\ (SawCreate(r) => SawCreate(r)')

\* A step of somebody else that is no writer.
LEMMA QueuesRest ==
  ASSUME PlanInv, NEW r \in Reader, ReaderMoves(r), NEW q \in Reader, held'[q] = held[q],
         QueuesKnown(q)
  PROVE  QueuesStep(q)
<1> USE DEF PlanInv, ReaderMoves
<1>1. r \in Request /\ q \in Request
  BY DEF Request
<1>2. ASSUME NEW k \in Kind
      PROVE  /\ Contents(arrays', plan[k]) = Contents(arrays, plan[k])
             /\ Contents(arrays', held[q][k]) = Contents(arrays, held[q][k])
  <2>1. CASE arrays' = arrays
    BY <2>1
  <2>2. CASE held' = [held EXCEPT ![r] = NoPlan] /\ Update(arrays)
    <3>1. /\ View(arrays', plan'[k]) = View(arrays, plan[k])
          /\ View(arrays', held'[q][k]) = View(arrays, held'[q][k])
      BY <1>1, <2>2, DropStep
    <3>2. QED
      BY <3>1 DEF Contents
  <2>3. QED
    BY <2>1, <2>2
<1>3. /\ Named(plan, "queues")' = Named(plan, "queues")
      /\ Named(held[q], "queues")' = Named(held[q], "queues")
  <2>1. CASE "queues" \in Kind
    <3>1. PICK p, o : p = plan /\ o = held[q]
      OBVIOUS
    <3>2. /\ Contents(arrays', p["queues"]) = Contents(arrays, p["queues"])
          /\ Contents(arrays', o["queues"]) = Contents(arrays, o["queues"])
      BY <1>2, <2>1, <3>1
    <3>3. plan' = p /\ held'[q] = o
      BY <3>1
    <3>4. QED
      BY <3>1, <3>2, <3>3 DEF Named
  <2>2. CASE "queues" \notin Kind
    BY <2>2 DEF Named
  <2>3. QED
    BY <2>1, <2>2
<1>4. \A w \in Writer : held'[w] = held[w]
  BY PBXAssumption DEF TablesInv, Request
<1>5. pc[q] = "answer" => KeptQueues(q)'
  BY <1>4 DEF QueuesKnown, KeptQueues, Left
<1>6. QED
  BY <1>3, <1>5 DEF QueuesStep

\* A step of the writer.
LEMMA QueuesWritten ==
  ASSUME OneWriter, PlanInv, NEW w \in Writer, Write(w), NEW r \in Reader, held'[r] = held[r],
         QueuesKnown(r)
  PROVE  QueuesStep(r)
<1> USE DEF PlanInv
<1>1. r \in Request
  BY DEF Request
<1>2. CASE "queues" \in Kind
  <2>1. PICK p, o, s : p = plan' /\ o = held[r] /\ s = o["queues"]
    OBVIOUS
  <2>2. ASSUME pc[r] = "plan", plan' = plan
        PROVE  Named(plan, "queues")' = Named(plan, "queues") \/ SawCreate(r)
    <3>1. Contents(arrays', p["queues"]) = Contents(arrays, p["queues"]) \/ CreatesQueue
      BY <1>2, <2>1, <2>2, PlanQueuesStay
    <3>2. plan = p
      BY <2>1, <2>2
    <3>3. CreatesQueue => SawCreate(r)
      BY <2>2 DEF QueuesKnown
    <3>4. QED
      BY <2>1, <3>1, <3>2, <3>3 DEF Named
  <2>3. ASSUME pc[r] = "answer"
        PROVE  /\ KeptQueues(r)'
               /\ \/ Named(held[r], "queues")' = Named(held[r], "queues")
                  \/ SawCreate(r) /\ Named(held[r], "queues")' \subseteq Named(plan, "queues")'
    <3>1. KeptQueues(r) /\ (CreatesQueue => SawCreate(r)) /\ (SawCreate(r) => SawCreate(r)')
      BY <2>3 DEF QueuesKnown
    <3>2. KeptQueues(r)'
      BY <1>2, <3>1, QueuesStayKept
    <3>3. \/ Contents(arrays', s) = Contents(arrays, s)
          \/ SawCreate(r) /\ p["queues"].array = s.array /\ s.len <= p["queues"].len
      BY <1>2, <2>1, <3>1, QueuesShown
    <3>4. TablesInv'
      BY WriteKeepsTables
    <3>5. Written(arrays', s) /\ Written(arrays', p["queues"])
      BY <1>1, <1>2, <2>1, <3>4 DEF TablesInv
    <3>6. \/ Contents(arrays', s) = Contents(arrays, s)
          \/ SawCreate(r) /\ Contents(arrays', s) \subseteq Contents(arrays', p["queues"])
      BY <3>3, <3>5, ShorterShowsLess
    <3>7. held'[r] = o
      BY <2>1
    <3>8. QED
      BY <2>1, <3>2, <3>6, <3>7 DEF Named
  <2>4. QED
    BY <2>2, <2>3 DEF QueuesStep
<1>3. CASE "queues" \notin Kind
  BY <1>3 DEF QueuesStep, Named, KeptQueues
<1>4. QED
  BY <1>2, <1>3

-----------------------------------------------------------------------------
(***************************************************************************)
(* The previews: the initial states, and the steps.                        *)
(***************************************************************************)

LEMMA InitPreview == ConsoleInit => PreviewInv
<1> SUFFICES ASSUME ConsoleInit PROVE PreviewInv
  OBVIOUS
<1>1. TablesInv /\ JobsInv /\ ApartInv
  BY InitTables, InitApart DEF ConsoleInit, CellsInv
<1>2. AheadInv
  BY DEF ConsoleInit, Init, AheadInv, NoPlan, EmptySlice, Request
<1>3. \A r \in Reader : pc[r] = "idle"
  BY DEF ConsoleInit, Init, Request
<1>4. \A r \in Reader : PreviewReader(r)
  BY <1>3 DEF PreviewReader, Waiting
<1>5. QED
  BY <1>1, <1>2, <1>4, InitSurface DEF PreviewInv, PlanInv

\* The steps of the console, by what they do to the plan.
LEMMA ConsoleMoves ==
  ASSUME NEW r \in Reader, Console(r)
  PROVE  ReaderMoves(r) /\ UNCHANGED <<job, acked>> /\ \E step : pc' = [pc EXCEPT ![r] = step]
BY DEF Console, Ask, ReadRuntime, ReadPlan, AnswerSurface, AnswerPreview, AnswerApplyPreview,
       Receive, Tell, Goto, console, ReaderMoves

LEMMA ConsoleKeepsPlan ==
  ASSUME PlanInv, NEW r \in Reader, Console(r)
  PROVE  PlanInv'
<1> USE DEF PlanInv
<1>1. r \in Request /\ r \notin Writer
  BY PBXAssumption DEF Request
<1>2. PICK step : pc' = [pc EXCEPT ![r] = step]
  BY ConsoleMoves
<1>3. UNCHANGED <<job, acked>>
  BY ConsoleMoves
<1>4. job' \in [Request -> Job] /\ acked' \in [Kind -> SUBSET Entity]
  BY <1>3 DEF JobsInv
<1>5. JobsInv'
  BY <1>1, <1>2, <1>3, <1>4, JobsStep
<1>6. QED
  BY <1>5, ConsoleMoves, ReaderTables

LEMMA ListKeepsPlan ==
  ASSUME PlanInv, NEW r \in Reader, List(r)
  PROVE  PlanInv' /\ ReaderMoves(r)
<1> USE DEF PlanInv
<1>1. ReaderMoves(r)
  <2>1. \E j : job' = [job EXCEPT ![r] = j]
    BY DEF List, ListRead, ListShow, Begin, End
  <2>2. \A w \in Writer : job'[w] = job[w]
    BY <2>1, PBXAssumption DEF JobsInv, Request
  <2>3. QED
    BY <2>2 DEF List, ListRead, ListShow, Begin, End, ReaderMoves
<1>2. QED
  BY <1>1, ListKeepsTables, ReaderTables

\* A step of a reader has to answer for that reader's preview only.
LEMMA OnePreview ==
  ASSUME PreviewInv, SurfaceInv', PlanInv', Observe, NEW r \in Reader, ReaderMoves(r),
         PreviewReader(r)',
         \A q \in Reader \ {r} :
           /\ pc'[q] = pc[q] /\ call'[q] = call[q] /\ answer'[q] = answer[q]
           /\ snapshot'[q] = snapshot[q] /\ held'[q] = held[q]
  PROVE  PreviewInv'
<1>1. ASSUME NEW q \in Reader \ {r}
      PROVE  PreviewReader(q)'
  <2>1. CASE call[q].page = "preview"
    <3>1. PreviewReader(q) /\ PlanInv
      BY DEF PreviewInv
    <3>2. SawCreate(q) /\ pc[q] = "answer" => SawCreate(q)'
      BY Witnesses DEF SawCreate
    <3>3. QueuesKnown(q)
      BY <2>1, <3>1, <3>2 DEF PreviewReader, QueuesKnown, PreviewWitnessed, Waiting
    <3>4. QueuesStep(q)
      BY <3>1, <3>3, QueuesRest
    <3>5. QED
      BY <3>1, <3>4, WaitingPreview
  <2>2. CASE call[q].page # "preview"
    BY <2>2 DEF PreviewReader
  <2>3. QED
    BY <2>1, <2>2
<1>2. QED
  BY <1>1 DEF PreviewInv

LEMMA AskPreview ==
  ASSUME PreviewInv, NEW r \in Reader, NEW q \in Asked, Ask(r, q)
  PROVE  PreviewReader(r)'
<1>1. /\ Observe
      /\ pc' = [pc EXCEPT ![r] = IF q.page = "apply-preview" THEN "plan" ELSE "runtime"]
      /\ call' = [call EXCEPT ![r] = q]
  BY DEF Ask, Goto
<1>2. call'[r] = q /\ (q.page = "preview" => pc'[r] = "runtime")
  BY <1>1 DEF PreviewInv, SurfaceInv, Shape, Request
<1>3. QED
  BY <1>1, <1>2, PreviewWitnesses DEF PreviewReader, Waiting

\* The first read: what is live is there, and what is neither live nor planned is
\* gone.
LEMMA ReadRuntimePreview ==
  ASSUME PreviewInv, NEW r \in Reader, ReadRuntime(r)
  PROVE  PreviewReader(r)'
<1> SUFFICES ASSUME call[r].page = "preview" PROVE PreviewReader(r)'
  BY DEF PreviewReader, ReadRuntime
<1>1. /\ Observe /\ UNCHANGED <<arrays, plan, runtime, call>>
      /\ pc' = [pc EXCEPT ![r] = "plan"]
      /\ snapshot' = [snapshot EXCEPT ![r] = runtime]
  BY DEF ReadRuntime, Goto
<1>2. pc'[r] = "plan" /\ snapshot'[r] = runtime
  BY <1>1 DEF PreviewInv, SurfaceInv, Shape, Request
<1>3. PreviewWitnessed(r)'
  BY <1>1, <1>2, PreviewWitnesses DEF Waiting
<1>4. PICK kind, ref, s, q : /\ kind = call[r].kind /\ ref = call[r].ref /\ s = runtime
                             /\ q = Named(plan, "queues")
  OBVIOUS
<1>5. Named(plan, "queues")' = q
  BY <1>1, <1>4 DEF Named
<1>6. IF TargetFound(s, q, kind, ref) THEN WasThere(r)' ELSE WasGone(r)'
  BY <1>1, <1>3, <1>4, <1>5 DEF PreviewWitnessed, IsThere
<1>7. TargetFound(s, {}, kind, ref) => TargetFound(s, q, kind, ref)
  BY MoreQueuesFind
<1>8. LiveRead(r)'
  BY <1>1, <1>2, <1>4, <1>5, <1>6, <1>7 DEF LiveRead, Finds
<1>9. QED
  BY <1>1, <1>2, <1>3, <1>8 DEF PreviewReader, Waiting

\* The second read: what it adds is there now, and what is found in neither was
\* gone when the runtime state had not changed yet, or before the plan did.
LEMMA ReadPlanPreview ==
  ASSUME PreviewInv, NEW r \in Reader, ReadPlan(r)
  PROVE  PreviewReader(r)'
<1> SUFFICES ASSUME call[r].page = "preview" PROVE PreviewReader(r)'
  BY DEF PreviewReader, ReadPlan, console
<1>1. /\ Observe /\ UNCHANGED <<arrays, plan, runtime, call, snapshot>>
      /\ pc[r] = "plan" /\ pc' = [pc EXCEPT ![r] = "answer"]
      /\ held' = [held EXCEPT ![r] = plan]
  BY DEF ReadPlan, Goto, console
<1>2. pc'[r] = "answer" /\ held'[r] = plan
  BY <1>1 DEF PreviewInv, SurfaceInv, Shape, Request
<1>3. PreviewWitnessed(r)' /\ since[r] \subseteq since'[r]
  BY <1>1, <1>2, PreviewWitnesses, Witnesses DEF Waiting
<1>4. PICK kind, ref, s, q : /\ kind = call[r].kind /\ ref = call[r].ref /\ s = snapshot[r]
                             /\ q = Named(plan, "queues")
  OBVIOUS
<1>5. Named(plan, "queues")' = q /\ Named(held[r], "queues")' = q
  BY <1>1, <1>2, <1>4 DEF Named
<1>6. IF TargetFound(runtime, q, kind, ref) THEN WasThere(r)' ELSE WasGone(r)'
  BY <1>1, <1>3, <1>4, <1>5 DEF PreviewWitnessed, IsThere
<1>7. /\ s = runtime \/ Changed(r, "runtime")
      /\ TargetFound(s, {}, kind, ref) => WasThere(r)
      /\ ~TargetFound(s, q, kind, ref) => WasGone(r) \/ SawCreate(r) \/ Changed(r, "plan")
  BY <1>1, <1>4 DEF PreviewInv, PreviewReader, LiveRead, Finds
<1>8. TargetFound(s, q, kind, ref) => WasThere(r)'
  <2>1. CASE TargetFound(s, {}, kind, ref)
    BY <1>3, <1>7, <2>1 DEF WasThere
  <2>2. CASE ~TargetFound(s, {}, kind, ref)
    <3>1. TargetFound(s, q, kind, ref) => TargetFound(runtime, q, kind, ref)
      BY <2>2, MoreQueuesFind
    <3>2. QED
      BY <1>6, <3>1
  <2>3. QED
    BY <2>1, <2>2
<1>9. ~TargetFound(s, q, kind, ref) => WasGone(r)' \/ SawCreate(r)' \/ Torn(r)'
  <2>1. CASE s = runtime
    BY <1>6, <2>1
  <2>2. CASE Changed(r, "runtime")
    BY <1>3, <1>7, <2>2 DEF WasGone, SawCreate, Changed, Torn
  <2>3. QED
    BY <1>7, <2>1, <2>2
<1>10. TargetRead(r)'
  BY <1>1, <1>4, <1>5, <1>8, <1>9 DEF TargetRead, Finds
<1>11. KeptQueues(r)'
  BY <1>1, <1>2 DEF KeptQueues
<1>12. QED
  BY <1>1, <1>2, <1>3, <1>10, <1>11 DEF PreviewReader, Waiting

LEMMA TellPreview ==
  ASSUME PreviewInv, NEW r \in Reader, NEW status, NEW shown, NEW problems,
         Tell(r, status, shown, problems),
         call[r].page = "preview" /\ status = "ok" =>
           IF "target" \in problems THEN WasGone(r) \/ SawCreate(r) \/ Torn(r) ELSE WasThere(r)
  PROVE  PreviewReader(r)'
<1>1. /\ Observe /\ UNCHANGED call
      /\ pc' = [pc EXCEPT ![r] = "answered"]
      /\ answer' = [answer EXCEPT ![r] =
           [status |-> status, shown |-> shown, problems |-> problems]]
  BY DEF Tell, Goto
<1>2. /\ pc'[r] = "answered"
      /\ answer'[r] = [status |-> status, shown |-> shown, problems |-> problems]
  BY <1>1 DEF PreviewInv, SurfaceInv, Shape, Request
<1>3. since[r] \subseteq since'[r]
  BY <1>1, <1>2, Witnesses
<1>4. call[r].page = "preview" => PreviewTrue(r)'
  BY <1>1, <1>2, <1>3 DEF PreviewTrue, Told, WasThere, WasGone, SawCreate, Torn
<1>5. QED
  BY <1>1, <1>2, <1>4 DEF PreviewReader, Waiting

LEMMA AnswersPreview ==
  ASSUME PreviewInv, NEW r \in Reader,
         AnswerSurface(r) \/ AnswerPreview(r) \/ AnswerApplyPreview(r)
  PROVE  PreviewReader(r)'
<1>1. CASE AnswerSurface(r)
  <2>1. \E status, shown : Tell(r, status, shown, {})
    BY <1>1 DEF AnswerSurface
  <2>2. call[r].page # "preview"
    BY <1>1 DEF AnswerSurface, Path
  <2>3. QED
    BY <2>1, <2>2, TellPreview
<1>2. CASE AnswerPreview(r)
  <2> DEFINE problems ==
        Problems(deployment, snapshot[r], Named(held[r], "queues"), call[r])
  <2>1. pc[r] = "answer" /\ call[r].page = "preview"
    BY <1>2 DEF AnswerPreview
  <2>2. TargetRead(r)
    BY <2>1 DEF PreviewInv, PreviewReader
  <2>3. "target" \in problems <=> ~Finds(r, Named(held[r], "queues"))
    BY DEF Problems, Problem, Finds
  <2>4. \/ \E status \in {"unavailable", "invalid"} : Tell(r, status, {}, {})
        \/ Tell(r, "ok", {}, problems)
    BY <1>2 DEF AnswerPreview
  <2> HIDE DEF problems
  <2>5. QED
    BY <2>2, <2>3, <2>4, TellPreview DEF TargetRead
<1>3. CASE AnswerApplyPreview(r)
  <2>1. \E shown, problems : Tell(r, "ok", shown, problems)
    BY <1>3 DEF AnswerApplyPreview
  <2>2. call[r].page # "preview"
    BY <1>3 DEF AnswerApplyPreview
  <2>3. QED
    BY <2>1, <2>2, TellPreview
<1>4. QED
  BY <1>1, <1>2, <1>3

\* Others wait while a reader takes a step.
LEMMA OthersWait ==
  ASSUME Shape, NEW r \in Reader, Console(r), NEW q \in Reader \ {r}
  PROVE  /\ pc'[q] = pc[q] /\ call'[q] = call[q] /\ answer'[q] = answer[q]
         /\ snapshot'[q] = snapshot[q] /\ held'[q] = held[q]
<1>1. q \in Request /\ r \in Request /\ q # r
  BY DEF Request
<1>2. \E step : pc' = [pc EXCEPT ![r] = step]
  BY ConsoleMoves
<1>3. UNCHANGED call \/ \E c : call' = [call EXCEPT ![r] = c]
  BY DEF Console, Ask, ReadRuntime, ReadPlan, AnswerSurface, AnswerPreview, AnswerApplyPreview,
         Receive, Tell, console
<1>4. UNCHANGED answer \/ \E a : answer' = [answer EXCEPT ![r] = a]
  BY DEF Console, Ask, ReadRuntime, ReadPlan, AnswerSurface, AnswerPreview, AnswerApplyPreview,
         Receive, Tell, console
<1>5. UNCHANGED snapshot \/ \E s : snapshot' = [snapshot EXCEPT ![r] = s]
  BY DEF Console, Ask, ReadRuntime, ReadPlan, AnswerSurface, AnswerPreview, AnswerApplyPreview,
         Receive, Tell, console
<1>6. UNCHANGED held \/ \E h : held' = [held EXCEPT ![r] = h]
  BY ConsoleMoves DEF ReaderMoves
<1>7. QED
  BY <1>1, <1>2, <1>3, <1>4, <1>5, <1>6 DEF Shape

LEMMA ConsolePreview ==
  ASSUME PreviewInv, SurfaceInv', NEW r \in Reader, Console(r)
  PROVE  PreviewInv'
<1>1. Observe
  BY DEF Console, Ask, ReadRuntime, ReadPlan, AnswerSurface, AnswerPreview, AnswerApplyPreview,
         Receive, Tell
<1>2. CASE Receive(r)
  <2>1. pc' = [pc EXCEPT ![r] = "idle"]
    BY <1>2 DEF Receive, Goto
  <2>2. pc'[r] = "idle"
    BY <2>1 DEF PreviewInv, SurfaceInv, Shape, Request
  <2>3. PreviewReader(r)'
    BY <2>2 DEF PreviewReader, Waiting
  <2>4. QED
    BY <1>1, <2>3, ConsoleMoves, ConsoleKeepsPlan, OthersWait, OnePreview DEF PreviewInv, SurfaceInv
<1>3. CASE ~Receive(r)
  <2>1. PreviewReader(r)'
    BY <1>3, AskPreview, ReadRuntimePreview, ReadPlanPreview, AnswersPreview DEF Console
  <2>2. QED
    BY <1>1, <2>1, ConsoleMoves, ConsoleKeepsPlan, OthersWait, OnePreview DEF PreviewInv, SurfaceInv
<1>4. QED
  BY <1>2, <1>3

LEMMA AdministratePreview ==
  ASSUME OneWriter, PreviewInv, SurfaceInv', Administrate
  PROVE  PreviewInv'
<1>1. Observe /\ UNCHANGED <<call, snapshot, answer>>
  BY DEF Administrate, console
<1>2. Shape /\ PlanInv
  BY DEF PreviewInv, SurfaceInv
<1>3. ASSUME NEW w \in Writer, Write(w)
      PROVE  PreviewInv'
  <2>1. \A r \in Reader : pc'[r] = pc[r] /\ held'[r] = held[r]
    BY <1>2, <1>3, WriterMoves
  <2>2. PlanInv'
    BY <1>2, <1>3, WriteKeepsTables, ApartStep, AheadStep DEF PlanInv
  <2>3. ASSUME NEW r \in Reader, call[r].page = "preview"
        PROVE  PreviewReader(r)'
    <3>1. PreviewReader(r)
      BY DEF PreviewInv
    <3>2. SawCreate(r) /\ pc[r] = "answer" => SawCreate(r)'
      BY <1>1, <2>1, Witnesses DEF SawCreate
    <3>3. QueuesKnown(r)
      BY <2>3, <3>1, <3>2 DEF PreviewReader, QueuesKnown, PreviewWitnessed, Waiting
    <3>4. QueuesStep(r)
      BY <1>2, <1>3, <2>1, <3>3, QueuesWritten
    <3>5. QED
      BY <1>1, <2>1, <3>1, <3>4, WaitingPreview
  <2>4. \A r \in Reader : call[r].page # "preview" => PreviewReader(r)'
    BY <1>1 DEF PreviewReader
  <2>5. QED
    BY <2>2, <2>3, <2>4 DEF PreviewInv
<1>4. ASSUME NEW r \in Reader, List(r)
      PROVE  PreviewInv'
  <2>1. /\ \A q \in Reader \ {r} : pc'[q] = pc[q] /\ held'[q] = held[q]
        /\ pc'[r] \in {"idle", "show"}
    BY <1>2, <1>4, ListerMoves
  <2>2. PreviewReader(r)'
    BY <2>1 DEF PreviewReader, Waiting
  <2>3. PlanInv' /\ ReaderMoves(r)
    BY <1>2, <1>4, ListKeepsPlan
  <2>4. QED
    BY <1>1, <2>1, <2>2, <2>3, OnePreview
<1>5. QED
  BY <1>3, <1>4 DEF Administrate

\* The plan does not change, be it a report that comes in or nothing at all.
LEMMA RestingPreview ==
  ASSUME PreviewInv, SurfaceInv', UNCHANGED vars, UNCHANGED <<call, snapshot, answer>>,
         Observe \/ UNCHANGED <<since, runtime>>
  PROVE  PreviewInv'
<1>1. UNCHANGED <<arrays, plan, pc, job, held, acked>>
  BY DEF vars
<1>2. PlanInv'
  BY <1>1 DEF PreviewInv, PlanInv, TablesInv, JobsInv, ApartInv, Plans, AheadInv
<1>3. ASSUME NEW r \in Reader
      PROVE  PreviewReader(r)'
  <2>1. PreviewReader(r)
    BY DEF PreviewInv
  <2>2. CASE UNCHANGED <<since, runtime>>
    BY <1>1, <2>1, <2>2 DEF PreviewReader, PreviewWitnessed, LiveRead, TargetRead, KeptQueues,
         PreviewTrue, Told, IsThere, CreatesQueue, Left, Finds, Named, Contents, View,
         WasThere, WasGone, SawCreate, Changed, Torn
  <2>3. CASE Observe /\ call[r].page = "preview"
    <3>1. pc[r] = "answer" /\ SawCreate(r) => SawCreate(r)'
      BY <1>1, <2>3, Witnesses DEF SawCreate
    <3>2. pc[r] = "answer" => KeptQueues(r)'
      BY <1>1, <2>1, <2>3, <3>1 DEF PreviewReader, KeptQueues, Left
    <3>3. QueuesStep(r)
      BY <1>1, <3>2 DEF QueuesStep, Named
    <3>4. QED
      BY <1>1, <2>1, <2>3, <3>3, WaitingPreview
  <2>4. CASE call[r].page # "preview"
    BY <2>4 DEF PreviewReader
  <2>5. QED
    BY <2>2, <2>3, <2>4
<1>4. QED
  BY <1>2, <1>3 DEF PreviewInv

LEMMA NextPreview ==
  ASSUME OneWriter
  PROVE  PreviewInv /\ [ConsoleNext]_allVars => PreviewInv'
<1> SUFFICES ASSUME PreviewInv, [ConsoleNext]_allVars PROVE PreviewInv'
  OBVIOUS
<1>1. SurfaceInv'
  BY NextSurface DEF PreviewInv
<1>2. CASE Administrate
  BY <1>1, <1>2, AdministratePreview
<1>3. ASSUME NEW s \in Reported, SaveOperatorRuntimeState(s)
      PROVE  PreviewInv'
  BY <1>1, <1>3, RestingPreview DEF SaveOperatorRuntimeState
<1>4. ASSUME NEW r \in Reader, Console(r)
      PROVE  PreviewInv'
  BY <1>1, <1>4, ConsolePreview
<1>5. CASE UNCHANGED allVars
  BY <1>1, <1>5, RestingPreview DEF allVars, console
<1>6. QED
  BY <1>2, <1>3, <1>4, <1>5 DEF ConsoleNext

\* A preview that finds its target saw it at some moment since it was asked for,
\* and one that does not missed it at some moment, unless both tables changed or a
\* queue was being created: while one request at a time changes the plan, for any
\* number of readers and whatever the backend reports.
THEOREM PreviewsTrue == ASSUME OneWriter PROVE ConsoleSpec => []PreviewsWereTrue
<1>1. PreviewInv => PreviewsWereTrue
  BY DEF PreviewInv, PreviewReader, PreviewTrue, Told, PreviewsWereTrue, WasThere, WasGone, SawCreate
<1>2. PreviewInv /\ [ConsoleNext]_allVars => PreviewInv'
  BY NextPreview
<1>3. QED
  BY <1>1, <1>2, InitPreview, PTL DEF ConsoleSpec
=============================================================================
