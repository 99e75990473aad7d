------------------------ MODULE OrganisationsProofs -------------------------
(***************************************************************************)
(* Proofs about Organisations, for any number of requests, organisations,  *)
(* users, credentials and memberships.                                     *)
(*                                                                         *)
(* What an answer shows is decided on copies, so none of the properties    *)
(* speaks of the tables as they are when the answer is written.  What a    *)
(* request has learned is backed by something that was true since it was   *)
(* sent (Backed below): that much survives whatever happens to the tables, *)
(* because what has been witnessed stays witnessed until the answer.       *)
(***************************************************************************)
EXTENDS Organisations, TLAPS

\* What the request holds was true at some moment since it was sent.
Backed(r) ==
  /\ /\ pc[r] \in {"preferences", "default", "resolve", "member", "serve"}
     /\ access[r].visibility = "public"
     => "public" \in witnessed[r]
  /\ pc[r] = "member" =>
       /\ call[r].credential \in Credential
       /\ "accepted" \in witnessed[r]
  /\ pc[r] = "serve" =>
       /\ access[r].visibility = "public" \/ access[r].role # "none"
       /\ access[r].role # "none" => "accepted" \in witnessed[r] /\ "member" \in witnessed[r]
       /\ CanManage(access[r].role) => "manager" \in witnessed[r]

\* What the request answered was true since it was sent.
Justified(r) ==
  /\ pc[r] # "answered" => answer[r] = NoAnswer
  /\ Told(r) =>
       "public" \in witnessed[r] \/ ("accepted" \in witnessed[r] /\ "member" \in witnessed[r])
  /\ Told(r) /\ call[r].surface \in {"settings", "domains"}
       => "accepted" \in witnessed[r] /\ "manager" \in witnessed[r]
  /\ \A m \in answer[r].members : Profile[m.user] # "public" =>
       "accepted" \in witnessed[r] /\ "member" \in witnessed[r]

IInv == TypeOK /\ \A r \in Request : Backed(r) /\ Justified(r)

-----------------------------------------------------------------------------
(***************************************************************************)
(* What a request has witnessed.                                           *)
(***************************************************************************)

\* A request that has no answer yet, or has not received it, forgets nothing
\* and adds what is true in the new state.
LEMMA Witnesses ==
  ASSUME TypeOK, Observe, NEW r \in Request, pc'[r] # "idle"
  PROVE  witnessed'[r] = witnessed[r] \cup Truths(r)'
  BY DEF Observe

LEMMA WitnessedType ==
  ASSUME TypeOK, Observe
  PROVE  witnessed' \in [Request -> SUBSET {"public", "accepted", "member", "manager"}]
<1>1. \A r \in Request : Truths(r)' \subseteq {"public", "accepted", "member", "manager"}
  BY DEF Truths
<1>2. QED
  BY <1>1 DEF Observe, TypeOK

\* The request of which nothing changes stays backed and justified, whatever
\* happens to the tables.
LEMMA OtherRequest ==
  ASSUME TypeOK, Observe, NEW r \in Request, Backed(r), Justified(r),
         pc'[r] = pc[r], call'[r] = call[r], access'[r] = access[r], answer'[r] = answer[r]
  PROVE  Backed(r)' /\ Justified(r)'
<1>1. CASE pc[r] = "idle"
  BY <1>1 DEF Backed, Justified, Told, NoAnswer
<1>2. CASE pc[r] # "idle"
  <2>1. witnessed[r] \subseteq witnessed'[r]
    BY <1>2, Witnesses
  <2>2. QED
    BY <2>1 DEF Backed, Justified, Told
<1>3. QED
  BY <1>1, <1>2

\* A step of one request has to answer for that request only.
LEMMA OneRequest ==
  ASSUME IInv, Observe, NEW r \in Request, TypeOK', Backed(r)', Justified(r)',
         \A q \in Request \ {r} :
           /\ pc'[q] = pc[q] /\ call'[q] = call[q]
           /\ access'[q] = access[q] /\ answer'[q] = answer[q]
  PROVE  IInv'
  BY OtherRequest DEF IInv

-----------------------------------------------------------------------------
(***************************************************************************)
(* The initial states, and the steps.                                      *)
(***************************************************************************)

LEMMA InitIInv == Init => IInv
<1> SUFFICES ASSUME Init PROVE IInv
  OBVIOUS
<1>1. TypeOK
  BY DEF Init, TypeOK, EmptyMap, Access, NoAccess, Answer, NoAnswer
<1>2. \A r \in Request : Backed(r) /\ Justified(r)
  BY DEF Init, Backed, Justified, Told, NoAnswer
<1>3. QED
  BY <1>1, <1>2 DEF IInv

LEMMA SendStep ==
  ASSUME IInv, NEW r \in Request, NEW q \in Asked, Send(r, q)
  PROVE  IInv'
<1>1. Observe
  BY DEF Send
<1>2. TypeOK'
  BY <1>1, WitnessedType, OrgAssumption DEF IInv, TypeOK, Send, tables
<1>3. Backed(r)' /\ Justified(r)'
  BY DEF IInv, TypeOK, Send, Backed, Justified, Told, NoAnswer
<1>4. QED
  BY <1>1, <1>2, <1>3, OneRequest DEF IInv, TypeOK, Send

LEMMA FindOrganizationStep ==
  ASSUME IInv, NEW r \in Request, FindOrganization(r)
  PROVE  IInv'
<1> DEFINE o == call[r].org
<1>1. Observe /\ UNCHANGED tables /\ pc[r] = "organization"
  BY DEF FindOrganization
<1>2. witnessed'[r] = witnessed[r] \cup Truths(r)'
  BY <1>1, Witnesses DEF IInv, TypeOK, FindOrganization, Goto, Finish
<1>3. CASE o \in DOMAIN orgs
  <2>1. /\ access' = [access EXCEPT ![r].visibility = orgs[o]]
        /\ pc' = [pc EXCEPT ![r] = "preferences"]
        /\ UNCHANGED <<call, answer>>
    BY <1>3 DEF FindOrganization, Goto
  <2>2. TypeOK'
    <3>1. access' \in [Request -> Access] /\ access'[r].visibility = orgs[o]
      BY <1>3, <2>1 DEF IInv, TypeOK, Access
    <3>2. \A q \in Request \ {r} : access'[q] = access[q] /\ pc'[q] = pc[q]
      BY <2>1 DEF IInv, TypeOK
    <3>3. QED
      BY <1>1, <1>3, <2>1, <3>1, <3>2, WitnessedType DEF IInv, TypeOK, tables
  <2>3. orgs[o] = "public" => "public" \in Truths(r)'
    BY <1>1, <1>3, <2>1 DEF Truths, tables
  <2>4. Backed(r)' /\ Justified(r)'
    BY <1>2, <2>1, <2>3 DEF IInv, TypeOK, Backed, Justified, Told, Access, FindOrganization
  <2>5. QED
    BY <1>1, <2>1, <2>2, <2>4, OneRequest DEF IInv, TypeOK
<1>4. CASE o \notin DOMAIN orgs
  <2>1. /\ answer' = [answer EXCEPT ![r] = [status |-> "notFound", members |-> {}]]
        /\ pc' = [pc EXCEPT ![r] = "answered"]
        /\ UNCHANGED <<call, access>>
    BY <1>4 DEF FindOrganization, Finish
  <2>2. TypeOK'
    BY <1>1, <2>1, WitnessedType DEF IInv, TypeOK, tables, Answer
  <2>3. Backed(r)' /\ Justified(r)'
    BY <2>1 DEF IInv, TypeOK, Backed, Justified, Told
  <2>4. QED
    BY <1>1, <2>1, <2>2, <2>3, OneRequest DEF IInv, TypeOK
<1>5. QED
  BY <1>3, <1>4

\* Looking for the preferences, or creating them, tells nothing of the caller.
LEMMA PreferencesStep ==
  ASSUME IInv, NEW r \in Request, FindPreferences(r) \/ SaveDefaults(r)
  PROVE  IInv'
<1>1. /\ Observe
      /\ pc[r] \in {"preferences", "default"}
      /\ UNCHANGED <<orgs, members, live, call, answer>>
      /\ \A q \in Request \ {r} : pc'[q] = pc[q] /\ access'[q] = access[q]
      /\ access'[r].visibility = access[r].visibility
      /\ pc'[r] \in {"default", "resolve"}
  BY DEF IInv, TypeOK, FindPreferences, SaveDefaults, Goto, tables, Access
<1>2. TypeOK'
  <2>1. preferences' \in [DOMAIN preferences' -> Preference] /\ DOMAIN preferences' \subseteq Org
    BY OrgAssumption DEF IInv, TypeOK, FindPreferences, SaveDefaults, tables, Put, Call
  <2>2. access' \in [Request -> Access]
    <3>1. \/ UNCHANGED access
          \/ \E p \in Preference : access' = [access EXCEPT ![r].preferences = p]
      BY OrgAssumption DEF IInv, TypeOK, FindPreferences, SaveDefaults
    <3>2. ASSUME NEW p \in Preference
          PROVE  [access EXCEPT ![r].preferences = p] \in [Request -> Access]
      BY DEF IInv, TypeOK, Access
    <3>3. QED
      BY <3>1, <3>2 DEF IInv, TypeOK
  <2>3. pc' \in [Request -> {"idle", "organization", "preferences", "default", "resolve",
                          "member", "serve", "answered"}]
    BY DEF IInv, TypeOK, FindPreferences, SaveDefaults, Goto
  <2>4. pc'[r] = "resolve" => access'[r].preferences \in Preference
    BY OrgAssumption DEF IInv, TypeOK, FindPreferences, SaveDefaults, Goto, Access
  <2>5. QED
    BY <1>1, <2>1, <2>2, <2>3, <2>4, WitnessedType DEF IInv, TypeOK
<1>3. witnessed[r] \subseteq witnessed'[r]
  BY <1>1, Witnesses DEF IInv
<1>4. Backed(r)' /\ Justified(r)'
  BY <1>1, <1>3 DEF IInv, Backed, Justified, Told
<1>5. QED
  BY <1>1, <1>2, <1>4, OneRequest

\* The end of a request's resolution: it is let in with a role that is
\* witnessed, or it is told that there is nothing.
LEMMA AdmitStep ==
  ASSUME IInv, Observe, UNCHANGED tables, NEW r \in Request, NEW role \in Role \cup {"none"},
         pc[r] \in {"resolve", "member"}, Admit(r, role),
         role # "none" => "accepted" \in witnessed'[r] /\ "member" \in witnessed'[r],
         CanManage(role) => "manager" \in witnessed'[r]
  PROVE  IInv'
<1>1. CASE access[r].visibility # "public" /\ role = "none"
  <2>1. /\ answer' = [answer EXCEPT ![r] = [status |-> "notFound", members |-> {}]]
        /\ pc' = [pc EXCEPT ![r] = "answered"]
        /\ access' = [access EXCEPT ![r] = NoAccess]
        /\ UNCHANGED call
    BY <1>1 DEF Admit, Finish
  <2>2. TypeOK'
    BY <2>1, WitnessedType DEF IInv, TypeOK, tables, Answer, Access, NoAccess
  <2>3. Backed(r)' /\ Justified(r)'
    BY <2>1 DEF IInv, TypeOK, Backed, Justified, Told
  <2>4. QED
    BY <2>1, <2>2, <2>3, OneRequest DEF IInv, TypeOK
<1>2. CASE access[r].visibility = "public" \/ role # "none"
  <2>1. /\ access' = [access EXCEPT ![r].role = role]
        /\ pc' = [pc EXCEPT ![r] = "serve"]
        /\ UNCHANGED <<call, answer>>
    BY <1>2 DEF Admit, Goto
  <2>2. TypeOK'
    BY <2>1, WitnessedType DEF IInv, TypeOK, tables, Access
  <2>3. witnessed[r] \subseteq witnessed'[r]
    BY <2>1, Witnesses DEF IInv, TypeOK
  <2>4. access'[r].role = role /\ access'[r].visibility = access[r].visibility
    BY <2>1 DEF IInv, TypeOK, Access
  <2>5. Backed(r)' /\ Justified(r)'
    BY <1>2, <2>1, <2>3, <2>4 DEF IInv, TypeOK, Backed, Justified, Told
  <2>6. QED
    BY <2>1, <2>2, <2>5, OneRequest DEF IInv, TypeOK
<1>3. QED
  BY <1>1, <1>2

\* A good credential is witnessed as such; that of an organisation is a member
\* and a manager of it, of no other.
LEMMA ResolveCredentialStep ==
  ASSUME IInv, NEW r \in Request, ResolveCredential(r)
  PROVE  IInv'
<1> DEFINE c == call[r].credential
           o == call[r].org
<1>1. Observe /\ UNCHANGED tables /\ pc[r] = "resolve"
  BY DEF ResolveCredential
<1>2. witnessed'[r] = witnessed[r] \cup Truths(r)' /\ UNCHANGED call
  BY <1>1, Witnesses DEF IInv, TypeOK, ResolveCredential, Admit, Goto, Finish
<1>3. CASE c \notin live \/ (Kind[c] = "org" /\ Subject[c] # o)
  BY <1>1, <1>3, AdmitStep DEF ResolveCredential, CanManage, Role
<1>4. CASE c \in live /\ Kind[c] = "org" /\ Subject[c] = o
  <2>1. {"accepted", "member", "manager"} \subseteq Truths(r)'
    BY <1>1, <1>2, <1>4 DEF IInv, TypeOK, Truths, Accepted, IsMember, IsManager, tables
  <2>2. Admit(r, "owner")
    BY <1>4 DEF ResolveCredential
  <2>3. QED
    BY <1>1, <1>2, <2>1, <2>2, AdmitStep DEF Role
<1>5. CASE c \in live /\ Kind[c] # "org"
  <2>1. /\ pc' = [pc EXCEPT ![r] = "member"]
        /\ UNCHANGED <<call, answer, access>>
    BY <1>5 DEF ResolveCredential, Goto
  <2>2. "accepted" \in Truths(r)'
    BY <1>1, <1>2, <1>5 DEF Truths, Accepted, tables
  <2>3. TypeOK'
    BY <1>1, <2>1, WitnessedType DEF IInv, TypeOK, tables
  <2>4. Backed(r)' /\ Justified(r)'
    BY <1>1, <1>2, <1>5, <2>1, <2>2 DEF IInv, TypeOK, Backed, Justified, Told
  <2>5. QED
    BY <1>1, <2>1, <2>3, <2>4, OneRequest DEF IInv, TypeOK
<1>6. QED
  BY <1>3, <1>4, <1>5

\* Of several memberships any may be met; each is one that is witnessed.
LEMMA FindMemberStep ==
  ASSUME IInv, NEW r \in Request, FindMember(r)
  PROVE  IInv'
<1> DEFINE c == call[r].credential
           o == call[r].org
<1>1. Observe /\ UNCHANGED tables /\ pc[r] = "member"
  BY DEF FindMember
<1>2. witnessed'[r] = witnessed[r] \cup Truths(r)' /\ UNCHANGED call
  BY <1>1, Witnesses DEF IInv, TypeOK, FindMember, Admit, Goto, Finish
<1>3. CASE RowsOf(c, o) = {}
  BY <1>1, <1>3, AdmitStep DEF FindMember, CanManage, Role
<1>4. CASE RowsOf(c, o) # {}
  <2>1. PICK id \in RowsOf(c, o) : Admit(r, members[id].role)
    BY <1>4 DEF FindMember
  <2>2. id \in DOMAIN members /\ members[id].role \in Role
    BY OrgAssumption DEF IInv, TypeOK, RowsOf
  <2>3. c \in Credential /\ "accepted" \in witnessed[r]
    BY <1>1 DEF IInv, Backed
  <2>4. "member" \in Truths(r)'
    BY <1>1, <1>2, <1>4, <2>3 DEF Truths, IsMember, RowsOf, tables
  <2>5. CanManage(members[id].role) => "manager" \in Truths(r)'
    BY <1>1, <1>2, <2>1, <2>3 DEF Truths, IsManager, RowsOf, tables
  <2>6. QED
    BY <1>1, <1>2, <2>1, <2>2, <2>3, <2>4, <2>5, AdmitStep
<1>5. QED
  BY <1>3, <1>4

\* A page is served on what the request has witnessed.
LEMMA AnswerStep ==
  ASSUME IInv, Observe, UNCHANGED <<tables, access>>, NEW r \in Request, pc[r] = "serve",
         NEW status \in {"ok", "unauthorized", "forbidden", "notFound"}, NEW shown \in SUBSET Shown,
         Finish(r, status, shown),
         status = "ok" /\ call[r].surface \in {"settings", "domains"} => CanManage(access[r].role),
         \A m \in shown : Profile[m.user] # "public" => access[r].role # "none"
  PROVE  IInv'
<1>1. /\ answer' = [answer EXCEPT ![r] = [status |-> status, members |-> shown]]
      /\ pc' = [pc EXCEPT ![r] = "answered"]
      /\ UNCHANGED call
  BY DEF Finish
<1>2. TypeOK'
  BY <1>1, WitnessedType DEF IInv, TypeOK, tables, Answer
<1>3. witnessed[r] \subseteq witnessed'[r]
  BY <1>1, Witnesses DEF IInv, TypeOK
<1>4. answer'[r].members = shown /\ answer'[r].status = status /\ pc'[r] = "answered"
  BY <1>1 DEF IInv, TypeOK
<1>5. Backed(r)'
  BY <1>4 DEF Backed
<1>6. Justified(r)'
  BY <1>1, <1>3, <1>4 DEF IInv, Backed, Justified, Told, CanManage
<1>7. QED
  BY <1>1, <1>2, <1>5, <1>6, OneRequest DEF IInv, TypeOK

\* The list and the page show what is stored, the public part to everybody.
LEMMA MembersShown ==
  ASSUME TypeOK, NEW o \in Org, NEW id \in MemberID, NEW asMember \in BOOLEAN
  PROVE  /\ MemberList(o, asMember) \in SUBSET Shown
         /\ MemberPage(o, id, asMember) \in SUBSET Shown
         /\ \A m \in MemberList(o, asMember) \cup MemberPage(o, id, asMember) :
              Profile[m.user] # "public" => asMember
<1>1. ASSUME NEW i \in DOMAIN members, Profile[members[i].user] # "unknown"
      PROVE  ProfileOf(i) \in Shown /\ ProfileOf(i).user = members[i].user
  <2>1. members[i] \in Row /\ i \in MemberID
    BY DEF TypeOK
  <2>2. members[i].user \in User /\ members[i].role \in Role
    BY <2>1, OrgAssumption
  <2>3. Profile[members[i].user] \in {"public", "org_only", "hidden"}
    BY <1>1, <2>2, OrgAssumption
  <2>4. QED
    BY <2>1, <2>2, <2>3 DEF ProfileOf, Shown
<1>2. QED
  BY <1>1 DEF MemberList, MemberPage

LEMMA ServeSurfaceStep ==
  ASSUME IInv, NEW r \in Request, ServeSurface(r)
  PROVE  IInv'
<1> DEFINE asMember == access[r].role # "none"
<1>1. /\ Observe /\ UNCHANGED <<tables, access>> /\ pc[r] = "serve"
      /\ call[r].org \in Org /\ call[r].id \in MemberID
  BY DEF IInv, TypeOK, Call, ServeSurface, ServeProfile, ServeMembers, ServeMember, ServeManagers
<1>2. CASE ServeProfile(r)
  BY <1>1, <1>2, AnswerStep DEF ServeProfile
<1>3. CASE ServeMembers(r)
  <2> DEFINE list == MemberList(call[r].org, asMember)
  <2>1. call[r].surface = "members" /\ Finish(r, "ok", list)
    BY <1>3 DEF ServeMembers
  <2>2. list \in SUBSET Shown /\ \A m \in list : Profile[m.user] # "public" => asMember
    BY <1>1, MembersShown DEF IInv
  <2> HIDE DEF list
  <2>3. QED
    BY <1>1, <2>1, <2>2, AnswerStep
<1>4. CASE ServeMember(r)
  <2> DEFINE page == MemberPage(call[r].org, call[r].id, asMember)
             status == IF page = {} THEN "notFound" ELSE "ok"
  <2>1. call[r].surface = "member" /\ Finish(r, status, page)
    BY <1>4 DEF ServeMember
  <2>2. page \in SUBSET Shown /\ \A m \in page : Profile[m.user] # "public" => asMember
    BY <1>1, MembersShown DEF IInv
  <2>3. status \in {"ok", "unauthorized", "forbidden", "notFound"}
    OBVIOUS
  <2> HIDE DEF page, status
  <2>4. QED
    BY <1>1, <2>1, <2>2, <2>3, AnswerStep
<1>5. CASE ServeManagers(r)
  <2> DEFINE status == IF access[r].role = "none" THEN "unauthorized"
                       ELSE IF ~CanManage(access[r].role) THEN "forbidden" ELSE "ok"
  <2>1. Finish(r, status, {})
    BY <1>5 DEF ServeManagers
  <2>2. status = "ok" => CanManage(access[r].role)
    OBVIOUS
  <2>3. status \in {"ok", "unauthorized", "forbidden", "notFound"}
    OBVIOUS
  <2>4. QED
    BY <1>1, <2>1, <2>2, <2>3, AnswerStep
<1>6. QED
  BY <1>2, <1>3, <1>4, <1>5 DEF ServeSurface

LEMMA ReceiveStep ==
  ASSUME IInv, NEW r \in Request, Receive(r)
  PROVE  IInv'
<1>1. Observe /\ UNCHANGED tables
  BY DEF Receive
<1>2. TypeOK'
  BY <1>1, WitnessedType DEF IInv, TypeOK, Receive, tables, Answer, NoAnswer, Access, NoAccess
<1>3. Backed(r)' /\ Justified(r)'
  BY DEF IInv, TypeOK, Receive, Backed, Justified, Told, NoAnswer
<1>4. QED
  BY <1>1, <1>2, <1>3, OneRequest DEF IInv, TypeOK, Receive

\* A table of a Go map's type is one after an assignment as well.
LEMMA PutType ==
  ASSUME NEW K, NEW S, NEW f, f \in [DOMAIN f -> S], DOMAIN f \subseteq K,
         NEW k \in K, NEW v \in S
  PROVE  Put(f, k, v) \in [DOMAIN Put(f, k, v) -> S] /\ DOMAIN Put(f, k, v) \subseteq K
BY DEF Put

\* The tables change under the requests, and no request changes.
LEMMA ProvisionStep ==
  ASSUME IInv, Provision
  PROVE  IInv'
<1>1. Observe /\ UNCHANGED requests
  BY DEF Provision, SaveOrganization, SaveOrganizationPreferences, SaveOrganizationMember,
         Authenticate
<1>2. orgs' \in [DOMAIN orgs' -> Visibility] /\ DOMAIN orgs' \subseteq Org
  <2>1. \/ UNCHANGED orgs
        \/ \E k \in Org, v \in Visibility : orgs' = Put(orgs, k, v)
    BY OrgAssumption DEF IInv, TypeOK, Provision, SaveOrganization, SaveOrganizationPreferences,
                         SaveOrganizationMember, Authenticate
  <2>2. orgs \in [DOMAIN orgs -> Visibility] /\ DOMAIN orgs \subseteq Org
    BY DEF IInv, TypeOK
  <2>3. CASE UNCHANGED orgs
    BY <2>2, <2>3
  <2>4. ASSUME NEW k \in Org, NEW v \in Visibility, orgs' = Put(orgs, k, v)
        PROVE  orgs' \in [DOMAIN orgs' -> Visibility] /\ DOMAIN orgs' \subseteq Org
    BY <2>2, <2>4, PutType
  <2>5. QED
    BY <2>1, <2>3, <2>4
<1>3. preferences' \in [DOMAIN preferences' -> Preference] /\ DOMAIN preferences' \subseteq Org
  <2>1. \/ UNCHANGED preferences
        \/ \E k \in Org, v \in Preference : preferences' = Put(preferences, k, v)
    BY OrgAssumption DEF IInv, TypeOK, Provision, SaveOrganization, SaveOrganizationPreferences,
                         SaveOrganizationMember, Authenticate
  <2>2. preferences \in [DOMAIN preferences -> Preference] /\ DOMAIN preferences \subseteq Org
    BY DEF IInv, TypeOK
  <2>3. CASE UNCHANGED preferences
    BY <2>2, <2>3
  <2>4. ASSUME NEW k \in Org, NEW v \in Preference, preferences' = Put(preferences, k, v)
        PROVE  preferences' \in [DOMAIN preferences' -> Preference] /\ DOMAIN preferences' \subseteq Org
    BY <2>2, <2>4, PutType
  <2>5. QED
    BY <2>1, <2>3, <2>4
<1>4. members' \in [DOMAIN members' -> Row] /\ DOMAIN members' \subseteq MemberID
  <2>1. \/ UNCHANGED members
        \/ \E k \in MemberID, v \in Row : members' = Put(members, k, v)
    BY OrgAssumption DEF IInv, TypeOK, Provision, SaveOrganization, SaveOrganizationPreferences,
                         SaveOrganizationMember, Authenticate
  <2>2. members \in [DOMAIN members -> Row] /\ DOMAIN members \subseteq MemberID
    BY DEF IInv, TypeOK
  <2>3. CASE UNCHANGED members
    BY <2>2, <2>3
  <2>4. ASSUME NEW k \in MemberID, NEW v \in Row, members' = Put(members, k, v)
        PROVE  members' \in [DOMAIN members' -> Row] /\ DOMAIN members' \subseteq MemberID
    BY <2>2, <2>4, PutType
  <2>5. QED
    BY <2>1, <2>3, <2>4
<1>5. live' \subseteq Credential
  BY DEF IInv, TypeOK, Provision, SaveOrganization, SaveOrganizationPreferences,
         SaveOrganizationMember, Authenticate
<1>6. TypeOK'
  BY <1>1, <1>2, <1>3, <1>4, <1>5, WitnessedType DEF IInv, TypeOK, requests
<1>7. \A r \in Request : Backed(r)' /\ Justified(r)'
  BY <1>1, OtherRequest DEF IInv, requests
<1>8. QED
  BY <1>6, <1>7 DEF IInv

LEMMA StutterStep ==
  ASSUME IInv, UNCHANGED vars
  PROVE  IInv'
<1>1. TypeOK'
  BY DEF IInv, TypeOK, vars, tables
<1>2. \A r \in Request : Backed(r)' /\ Justified(r)'
  BY DEF IInv, vars, tables, Backed, Justified, Told
<1>3. QED
  BY <1>1, <1>2 DEF IInv

LEMMA NextIInv == IInv /\ [Next]_vars => IInv'
<1> SUFFICES ASSUME IInv, [Next]_vars PROVE IInv'
  OBVIOUS
<1>1. ASSUME NEW r \in Request, Serve(r) PROVE IInv'
  BY <1>1, FindOrganizationStep, PreferencesStep, ResolveCredentialStep, FindMemberStep,
     ServeSurfaceStep DEF Serve, LoadOrganizationContext, ResolveAccess
<1>2. QED
  BY <1>1, SendStep, ReceiveStep, ProvisionStep, StutterStep DEF Next

\* In every reachable state whatever a request holds and answers was true since
\* it was sent, for any number of requests, organisations and memberships.
THEOREM Invariance == Spec => []IInv
  BY InitIInv, NextIInv, PTL DEF Spec

\* The tables and the requests are well formed.
THEOREM TypeCorrect == Spec => []TypeOK
<1>1. IInv => TypeOK
  BY DEF IInv
<1>2. QED
  BY <1>1, Invariance, PTL

\* A page of a private organisation is answered only to who had a good
\* credential and was a member, whatever changes while the request is served.
THEOREM PrivacyHolds == Spec => []PrivateStaysPrivate
<1>1. IInv => PrivateStaysPrivate
  BY DEF IInv, Justified, PrivateStaysPrivate
<1>2. QED
  BY <1>1, Invariance, PTL

\* The settings and the domains are answered only to who was a manager.
THEOREM ManagementIsGuarded == Spec => []ManagersOnly
<1>1. IInv => ManagersOnly
  BY DEF IInv, Justified, ManagersOnly
<1>2. QED
  BY <1>1, Invariance, PTL

\* A user who is not public is shown only to who was a member.
THEOREM MembersAreShielded == Spec => []HiddenStaysHidden
<1>1. IInv => HiddenStaysHidden
  BY DEF IInv, Justified, HiddenStaysHidden
<1>2. QED
  BY <1>1, Invariance, PTL

\* The list of the members and the pages of the members agree in every state.
THEOREM ListIsPages == Spec => []ListAndPageAgree
<1>1. IInv => ListAndPageAgree
  BY DEF IInv, TypeOK, ListAndPageAgree, MemberList, MemberPage
<1>2. QED
  BY <1>1, Invariance, PTL

\* Preferences somebody saved are only ever replaced by a request that looked
\* for them before they were there.
THEOREM PreferencesSurviveReads == Spec => QuietPreferencesLast
<1> DEFINE Quiet ==
      \A o \in DOMAIN preferences :
        (\E r \in Request : pc'[r] # pc[r]) /\ (\A r \in Request : pc[r] = "default" => call[r].org # o)
        => o \in DOMAIN preferences' /\ preferences'[o] = preferences[o]
<1>1. TypeOK /\ Next => Quiet
  <2> SUFFICES ASSUME TypeOK, Next PROVE Quiet
    OBVIOUS
  <2>1. CASE UNCHANGED pc
    BY <2>1
  <2>2. CASE UNCHANGED preferences
    BY <2>2
  <2>3. ASSUME NEW r \in Request, SaveDefaults(r) PROVE Quiet
    BY <2>3 DEF SaveDefaults, Put, TypeOK
  <2>4. Provision => UNCHANGED pc
    BY DEF Provision, SaveOrganization, SaveOrganizationPreferences, SaveOrganizationMember,
           Authenticate, requests
  <2>5. ASSUME NEW r \in Request, Serve(r) \/ Receive(r) \/ (\E q \in Asked : Send(r, q)),
               ~SaveDefaults(r)
        PROVE  UNCHANGED preferences
    BY <2>5 DEF Serve, LoadOrganizationContext, ResolveAccess, ServeSurface, FindOrganization,
                FindPreferences, ResolveCredential, FindMember, ServeProfile, ServeMembers,
                ServeMember, ServeManagers, Receive, Send, tables
  <2>6. QED
    BY <2>1, <2>2, <2>3, <2>4, <2>5 DEF Next
<1>2. TypeOK /\ [Next]_vars => [Quiet]_vars
  BY <1>1
<1>3. QED
  BY <1>2, TypeCorrect, PTL DEF Spec, QuietPreferencesLast
=============================================================================
