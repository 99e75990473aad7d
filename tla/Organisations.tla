---------------------------- MODULE Organisations ----------------------------
(***************************************************************************)
(* The pages of an organisation (handler/org.go) over the organisation     *)
(* tables of MemoryStore (store/memory.go).                                *)
(*                                                                         *)
(* A request finds the organisation and its preferences, creates the       *)
(* preferences if nobody has yet, resolves the caller's credential to a    *)
(* membership, and only then reads what the page shows: up to six store    *)
(* calls, between which the program that provisions the store may change   *)
(* the tables and the caller may log out.  Each answer is decided on       *)
(* copies.                                                                 *)
(***************************************************************************)
EXTENDS Maps, Integers

CONSTANTS
  Request,           \* concurrent requests
  Org,               \* the slugs, each of which leads to one organisation
  User,              \* the users memberships name, and
  Profile,           \* what they let others see, or that there is no such user
  Credential,        \* session cookies, user tokens and organisation tokens
  Kind,              \* which of "session", "user" and "org" a credential is
  Subject,           \* the user, or the organisation, it was issued to
  Preference,        \* values of OrganizationPreferences
  DefaultPreference, \* DefaultOrganizationPreferences
  Asked,             \* bound: the calls that are made
  Founded,           \* bound: the organisations that are created
  Row,               \* bound: the memberships that are provisioned
  MaxMemberID        \* bound: the membership IDs that are given out

Role == {"owner", "admin", "member"}
Visibility == {"public", "private"}

MemberID == 1..MaxMemberID

\* The pages, and who serves them: only the API has a page for one member.
Surface == {"profile", "members", "member", "settings", "domains"}
Call ==
  {q \in [org: Org, surface: Surface, id: MemberID, credential: Credential \cup {"none"}] :
     q.surface = "member" /\ q.credential # "none" => Kind[q.credential] # "session"}

ASSUME OrgAssumption ==
  /\ Profile \in [User -> {"public", "org_only", "hidden", "unknown"}]
  /\ Kind \in [Credential -> {"session", "user", "org"}]
  /\ \A c \in Credential : Subject[c] \in IF Kind[c] = "org" THEN Org ELSE User
  /\ "none" \notin Org \cup User \cup Credential \cup Preference
  /\ DefaultPreference \in Preference
  /\ Asked \subseteq Call
  /\ Founded \subseteq Org
  /\ Row \subseteq [org: Org, user: User, role: Role]
  /\ MaxMemberID \in Nat

NoCall == [org |-> "none", surface |-> "none", id |-> 0, credential |-> "none"]

\* orgAccessContext; without a membership the role is "none".
Access ==
  [visibility: Visibility \cup {"none"}, preferences: Preference \cup {"none"},
   role: Role \cup {"none"}]
NoAccess == [visibility |-> "none", preferences |-> "none", role |-> "none"]

Shown == [id: MemberID, user: User, role: Role, profile: {"public", "org_only", "hidden"}]
Answer ==
  [status: {"none", "ok", "unauthorized", "forbidden", "notFound"}, members: SUBSET Shown]
NoAnswer == [status |-> "none", members |-> {}]

VARIABLES
  orgs,              \* the visibility of each organisation there is
  preferences,       \* orgPrefsByOrgID
  members,           \* orgMembersByID
  live,              \* the credentials that would be accepted now
  pc,                \* what a request does next
  call,              \* what it asks for
  access,            \* what it knows of the organisation and the caller
  answer,            \* what it answered
  witnessed          \* what has been true of its caller since it was sent

tables == <<orgs, preferences, members, live>>
vars == <<tables, pc, call, access, answer, witnessed>>

-----------------------------------------------------------------------------
(***************************************************************************)
(* What the pages show.                                                    *)
(***************************************************************************)

CanManage(role) == role \in {"owner", "admin"}

\* BuildOrganizationMemberProfile: the name is there unless it is hidden.
ProfileOf(id) ==
  [id |-> id, user |-> members[id].user, role |-> members[id].role,
   profile |-> Profile[members[id].user]]

\* Mutant: the list shows private users to everybody.
ListEverybody(o, asMember) ==
  {ProfileOf(id) : id \in {i \in DOMAIN members :
     members[i].org = o /\ Profile[members[i].user] # "unknown"}}

\* buildOrganizationMemberResponses: without a membership of one's own only
\* the public users are listed.
MemberList(o, asMember) ==
  {ProfileOf(id) : id \in {i \in DOMAIN members :
     /\ members[i].org = o
     /\ Profile[members[i].user] # "unknown"
     /\ asMember \/ Profile[members[i].user] = "public"}}

\* writeAPIMember; nothing is a 404.
MemberPage(o, id, asMember) ==
  IF /\ id \in DOMAIN members
     /\ members[id].org = o
     /\ Profile[members[id].user] # "unknown"
     /\ asMember \/ Profile[members[id].user] = "public"
  THEN {ProfileOf(id)} ELSE {}

-----------------------------------------------------------------------------
(***************************************************************************)
(* What is true now of the caller of a request.                            *)
(***************************************************************************)

RowsOf(c, o) == {id \in DOMAIN members : members[id].org = o /\ members[id].user = Subject[c]}

Accepted(c, o) == c \in live /\ (Kind[c] = "org" => Subject[c] = o)
IsMember(c, o) == c \in Credential /\ (Kind[c] = "org" \/ RowsOf(c, o) # {})
IsManager(c, o) ==
  c \in Credential /\ (Kind[c] = "org" \/ \E id \in RowsOf(c, o) : CanManage(members[id].role))

Truths(r) ==
  LET o == call[r].org
      c == call[r].credential
  IN  {f \in {"public", "accepted", "member", "manager"} :
         \/ f = "public" /\ o \in DOMAIN orgs /\ orgs[o] = "public"
         \/ f = "accepted" /\ Accepted(c, o)
         \/ f = "member" /\ IsMember(c, o)
         \/ f = "manager" /\ IsManager(c, o)}

\* Conjoined to every step: what has been true in a state since the request
\* was sent stays witnessed until it has its answer.
Observe ==
  witnessed' = [r \in Request |->
    IF pc'[r] = "idle" THEN {} ELSE witnessed[r] \cup Truths(r)']

-----------------------------------------------------------------------------
(***************************************************************************)
(* The steps of a request, one for each store call.                        *)
(***************************************************************************)

Goto(r, step) ==
  /\ pc' = [pc EXCEPT ![r] = step]
  /\ UNCHANGED <<call, answer>>

Finish(r, status, shown) ==
  /\ pc' = [pc EXCEPT ![r] = "answered"]
  /\ answer' = [answer EXCEPT ![r] = [status |-> status, members |-> shown]]
  /\ UNCHANGED call

Send(r, q) ==
  /\ pc[r] = "idle"
  /\ pc' = [pc EXCEPT ![r] = "organization"]
  /\ call' = [call EXCEPT ![r] = q]
  /\ UNCHANGED <<tables, access, answer>>
  /\ Observe

FindOrganization(r) ==
  /\ pc[r] = "organization"
  /\ IF call[r].org \in DOMAIN orgs
     THEN /\ access' = [access EXCEPT ![r].visibility = orgs[call[r].org]]
          /\ Goto(r, "preferences")
     ELSE Finish(r, "notFound", {}) /\ UNCHANGED access
  /\ UNCHANGED tables
  /\ Observe

\* Mutant: the defaults are saved whatever the lookup finds.
FindPreferencesUnchecked(r) ==
  /\ pc[r] = "preferences"
  /\ access' = [access EXCEPT ![r].preferences = DefaultPreference]
  /\ preferences' = Put(preferences, call[r].org, DefaultPreference)
  /\ Goto(r, "resolve")
  /\ UNCHANGED <<orgs, members, live>>
  /\ Observe

\* Mutant: the error of the lookup is ignored.
FindPreferencesIgnored(r) ==
  /\ pc[r] = "preferences"
  /\ access' = [access EXCEPT ![r].preferences =
       IF call[r].org \in DOMAIN preferences THEN preferences[call[r].org] ELSE "none"]
  /\ Goto(r, "resolve")
  /\ UNCHANGED tables
  /\ Observe

FindPreferences(r) ==
  /\ pc[r] = "preferences"
  /\ IF call[r].org \in DOMAIN preferences
     THEN /\ access' = [access EXCEPT ![r].preferences = preferences[call[r].org]]
          /\ Goto(r, "resolve")
     ELSE Goto(r, "default") /\ UNCHANGED access
  /\ UNCHANGED tables
  /\ Observe

SaveDefaults(r) ==
  /\ pc[r] = "default"
  /\ preferences' = Put(preferences, call[r].org, DefaultPreference)
  /\ access' = [access EXCEPT ![r].preferences = DefaultPreference]
  /\ Goto(r, "resolve")
  /\ UNCHANGED <<orgs, members, live>>
  /\ Observe

\* Mutant: everybody is let in.
AdmitAnybody(r, role) ==
  /\ access' = [access EXCEPT ![r].role = role]
  /\ Goto(r, "serve")

\* The end of resolveWebOrgAccess and of resolveAPIOrgAccess: a private
\* organisation is not there for who is not a member.
Admit(r, role) ==
  IF access[r].visibility # "public" /\ role = "none"
  THEN Finish(r, "notFound", {}) /\ access' = [access EXCEPT ![r] = NoAccess]
  ELSE Goto(r, "serve") /\ access' = [access EXCEPT ![r].role = role]

\* Mutant: any organisation's token will do.
ResolveCredentialOfAnyOrg(r) ==
  LET c == call[r].credential
  IN  /\ pc[r] = "resolve"
      /\ IF c \notin live THEN Admit(r, "none")
         ELSE IF Kind[c] = "org" THEN Admit(r, "owner")
         ELSE Goto(r, "member") /\ UNCHANGED access
      /\ UNCHANGED tables
      /\ Observe

\* The token of an organisation is that organisation's owner; who is not
\* resolved goes on without a membership.
ResolveCredential(r) ==
  LET c == call[r].credential
  IN  /\ pc[r] = "resolve"
      /\ IF c \notin live THEN Admit(r, "none")
         ELSE IF Kind[c] = "org"
         THEN Admit(r, IF Subject[c] = call[r].org THEN "owner" ELSE "none")
         ELSE Goto(r, "member") /\ UNCHANGED access
      /\ UNCHANGED tables
      /\ Observe

\* The membership is the first that a walk over the map meets: of a user who
\* has two, any.
FindMember(r) ==
  LET mine == RowsOf(call[r].credential, call[r].org)
  IN  /\ pc[r] = "member"
      /\ IF mine = {} THEN Admit(r, "none") ELSE \E id \in mine : Admit(r, members[id].role)
      /\ UNCHANGED tables
      /\ Observe

ServeManagers(r) ==
  /\ pc[r] = "serve" /\ call[r].surface \in {"settings", "domains"}
  /\ Finish(r, IF access[r].role = "none" THEN "unauthorized"
               ELSE IF ~CanManage(access[r].role) THEN "forbidden" ELSE "ok", {})
  /\ UNCHANGED <<tables, access>>
  /\ Observe

ServeProfile(r) ==
  /\ pc[r] = "serve" /\ call[r].surface = "profile"
  /\ Finish(r, "ok", {})
  /\ UNCHANGED <<tables, access>>
  /\ Observe

ServeMembers(r) ==
  /\ pc[r] = "serve" /\ call[r].surface = "members"
  /\ Finish(r, "ok", MemberList(call[r].org, access[r].role # "none"))
  /\ UNCHANGED <<tables, access>>
  /\ Observe

ServeMember(r) ==
  /\ pc[r] = "serve" /\ call[r].surface = "member"
  /\ LET page == MemberPage(call[r].org, call[r].id, access[r].role # "none")
     IN  Finish(r, IF page = {} THEN "notFound" ELSE "ok", page)
  /\ UNCHANGED <<tables, access>>
  /\ Observe

\* The client has its answer.
Receive(r) ==
  /\ pc[r] = "answered"
  /\ pc' = [pc EXCEPT ![r] = "idle"]
  /\ call' = [call EXCEPT ![r] = NoCall]
  /\ access' = [access EXCEPT ![r] = NoAccess]
  /\ answer' = [answer EXCEPT ![r] = NoAnswer]
  /\ UNCHANGED tables
  /\ Observe

-----------------------------------------------------------------------------
(***************************************************************************)
(* What happens to the tables meanwhile: no route of the server writes     *)
(* organisations, memberships or preferences, the program around it does.  *)
(***************************************************************************)

requests == <<pc, call, access, answer>>

SaveOrganization(o, visibility) ==
  /\ orgs' = Put(orgs, o, visibility)
  /\ UNCHANGED <<preferences, members, live, requests>>
  /\ Observe

SaveOrganizationPreferences(o, p) ==
  /\ preferences' = Put(preferences, o, p)
  /\ UNCHANGED <<orgs, members, live, requests>>
  /\ Observe

\* A new membership has the next ID; one with an ID of its own is replaced.
SaveOrganizationMember(id, row) ==
  /\ id = 1 \/ id - 1 \in DOMAIN members
  /\ members' = Put(members, id, row)
  /\ UNCHANGED <<orgs, preferences, live, requests>>
  /\ Observe

\* Logins, logouts and expiry, as AuthSessions and AuthTokens have them.
Authenticate(c) ==
  /\ live' = IF c \in live THEN live \ {c} ELSE live \cup {c}
  /\ UNCHANGED <<orgs, preferences, members, requests>>
  /\ Observe

-----------------------------------------------------------------------------
Init ==
  /\ orgs = EmptyMap
  /\ preferences = EmptyMap
  /\ members = EmptyMap
  /\ live = {}
  /\ pc = [r \in Request |-> "idle"]
  /\ call = [r \in Request |-> NoCall]
  /\ access = [r \in Request |-> NoAccess]
  /\ answer = [r \in Request |-> NoAnswer]
  /\ witnessed = [r \in Request |-> {}]

Provision ==
  \/ \E o \in Founded, visibility \in Visibility : SaveOrganization(o, visibility)
  \/ \E o \in DOMAIN orgs, p \in Preference : SaveOrganizationPreferences(o, p)
  \/ \E id \in MemberID, row \in Row : SaveOrganizationMember(id, row)
  \/ \E c \in Credential : Authenticate(c)

LoadOrganizationContext(r) == FindOrganization(r) \/ FindPreferences(r) \/ SaveDefaults(r)

ResolveAccess(r) == ResolveCredential(r) \/ FindMember(r)

ServeSurface(r) == ServeProfile(r) \/ ServeMembers(r) \/ ServeMember(r) \/ ServeManagers(r)

Serve(r) == LoadOrganizationContext(r) \/ ResolveAccess(r) \/ ServeSurface(r)

Next == Provision \/ \E r \in Request : Serve(r) \/ Receive(r) \/ \E q \in Asked : Send(r, q)

Spec == Init /\ [][Next]_vars

-----------------------------------------------------------------------------
\* Every table holds what its Go type allows, and a request that got past a
\* lookup holds what the lookup found.
TypeOK ==
  /\ orgs \in [DOMAIN orgs -> Visibility] /\ DOMAIN orgs \subseteq Org
  /\ preferences \in [DOMAIN preferences -> Preference] /\ DOMAIN preferences \subseteq Org
  /\ members \in [DOMAIN members -> Row] /\ DOMAIN members \subseteq MemberID
  /\ live \subseteq Credential
  /\ pc \in [Request -> {"idle", "organization", "preferences", "default", "resolve",
                         "member", "serve", "answered"}]
  /\ call \in [Request -> Call \cup {NoCall}]
  /\ access \in [Request -> Access]
  /\ answer \in [Request -> Answer]
  /\ witnessed \in [Request -> SUBSET {"public", "accepted", "member", "manager"}]
  /\ \A r \in Request :
       /\ pc[r] # "idle" => call[r] \in Call
       /\ pc[r] \notin {"idle", "organization", "answered"} => access[r].visibility \in Visibility
       /\ pc[r] \in {"resolve", "member", "serve"} => access[r].preferences \in Preference

Told(r) == pc[r] = "answered" /\ answer[r].status = "ok"

\* Whoever is answered by an organisation's page at all: the organisation was
\* public at some moment since they asked, or their credential was good and they
\* were a member, if not at the same moment.
PrivateStaysPrivate ==
  \A r \in Request :
    Told(r) => "public" \in witnessed[r] \/ {"accepted", "member"} \subseteq witnessed[r]

\* Whoever is shown the settings or the domains had a good credential, and was
\* an owner or an admin of that organisation, since they asked.
ManagersOnly ==
  \A r \in Request :
    Told(r) /\ call[r].surface \in {"settings", "domains"}
      => {"accepted", "manager"} \subseteq witnessed[r]

\* A user who is not public is shown only to somebody who had a good credential
\* and was a member.
HiddenStaysHidden ==
  \A r \in Request : \A m \in answer[r].members :
    Profile[m.user] # "public" => {"accepted", "member"} \subseteq witnessed[r]

\* The list of the members and the page of each member, written twice, show the
\* same members in the same words, to members and to strangers.
ListAndPageAgree ==
  \A o \in Org, asMember \in BOOLEAN :
    MemberList(o, asMember) = UNION {MemberPage(o, id, asMember) : id \in MemberID}

\* The preferences that are created on first read replace nothing, unless somebody
\* saved some between that read's lookup and its save.
QuietPreferencesLast ==
  [][\A o \in DOMAIN preferences :
       (\E r \in Request : pc'[r] # pc[r]) /\ (\A r \in Request : pc[r] = "default" => call[r].org # o)
       => o \in DOMAIN preferences' /\ preferences'[o] = preferences[o]]_vars

=============================================================================
