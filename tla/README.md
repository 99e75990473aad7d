# caspbx: models, checks and proofs

This directory specifies the server of `caspbx` (`src/src/server`) in TLA+. TLC
checks the specifications on small instances; TLAPS proves their invariants for
every value of the constants. Line numbers refer to the files of the repository;
`PROJECT.json` maps each definition to the lines it models.

## 1. The system

`caspbx` is a Go web server that manages an Asterisk PBX: accounts log in, own
custom domains, and read their communications; administrators create PBX objects
and moderate domains. Everything it keeps is in one `MemoryStore`
(`store/memory.go`), maps behind one `RWMutex`. Nothing is written to disk, so
there is no recovery to model: a restart is a new `Init`.

`net/http` runs each request in a goroutine of its own. **Every method of the
store holds the mutex for the whole call, and no service holds anything between
two calls.** Reading a record, deciding and writing it back is therefore at
least two atomic steps, with a copy of the record in the request's hands in
between. That is where the hard behaviour of this code is, and how all modules
are built: a set of requests, a program counter and a held copy for each, one
action per store call together with the code up to the next one.

### Inventory

| Component | State | Operations | Hard behaviour | What makes it correct |
|---|---|---|---|---|
| Custom domains (`service/domain.go`) | records by ID, name index, ID counter | create, verify, configure SSL, suspend, unsuspend, renew, delete | every operation writes back a whole record it read earlier, verification after DNS queries; limit and uniqueness are checked before the save | index never dangles, copies of a record agree, active only if verified, TLS only after verification, the limit, a deletion is final in the end |
| Web sessions (`service/auth.go`, `handler/auth.go`) | session table, the browser's cookie, clock | login, use, refresh, logout, expiry | a use writes the session back; the clock is read twice; answers arrive late | closed stays closed, nobody gains time, the cookie is backed by a session |
| Bearer tokens (`service/auth.go`, `handler/api_auth.go`) | token table, clock | login, use, refresh, logout, expiry | refresh is five store calls with a compensation | one working token per login, no orphans, owners never change |
| PBX plan (`service/pbx.go`) | eight slices of one plan | create and delete of eight kinds, list | the plan's slices share their arrays with the store; appended and sorted without the mutex | what was acknowledged is listed and what is hidden for a moment comes back, no two of a kind have one ID, kinds are independent |
| User communications (`service/user_communications.go`) | settings by user; reads plan and Asterisk state | show and update settings, dashboard, surfaces | three unlocked reads merged; two lists of checks that have to agree | an accepted update lasts and works |
| Contacts, voicemail, calls, messages | tables by user | list, add, delete contact | none: one store call each | |
| Organisations (`handler/org.go`) | organisations, members, preferences | profile, members, one member, settings, domains | up to six store calls decide one page; preferences created on first read (find, then save) | whoever is shown something was due it since they asked; saved preferences outlast reads |
| Accounts, roles, namespaces (`service/auth.go`, `service/namespace.go`) | seeded tables | `Can`, reserved and taken names | none: pure functions | monotone roles, one owner per name |
| Tenant resolution (`service/tenancy.go`) | reads domains | host to tenant | built from the records, not from the name index; a normal form of hosts of its own; not wired to a route yet | a host leads where the index leads, once the domain is active, however it is spelled |
| Asterisk state (`service/asterisk.go`) | the deployment, saved once at start-up | pages | listed and served by two sets of gates, and by three services | a listed page opens and shows something that is there |
| Operator surfaces (`service/operator.go`) | the runtime state the backend reports | dashboard, wallboards, previews of supervisor actions | three reads at three moments, of slices another request may be sorting | what is answered was so at some moment since it was asked |
| Server, routes, middleware, configuration, client, GraphQL and OpenAPI stubs | none of their own | wiring | | |

Interaction: handlers resolve a session or a token (sessions, tokens), check
ownership, and call one service; services share nothing but the store. The user
communications and the operator's console read what the PBX service writes; the
tenant resolver reads what the domain service writes; the organisations resolve
the credentials that sessions and tokens keep.  Domains, sessions, tokens and
organisations touch disjoint tables. `PROJECT.json` lists each component with its status, and
under `hazards` what is hard to test, at its line.

## 2. The modules

| Module | Models |
|---|---|
| `Maps` | the partial functions that stand for Go maps |
| `CustomDomains` | `DomainService` and its tables, one action per store call |
| `DomainRegistry` | what it promises: one table of names, each operation at once |
| `AuthLogin` | the clock, and checking credentials, shared by the next two |
| `AuthSessions` / `SessionLedger` | sessions and the browser's cookie / what a session is to everybody else |
| `AuthTokens` / `TokenRegistry` | bearer tokens / what a token is to everybody else |
| `PBXPlan` / `PBXRegistry` | the PBX plan with Go's slices and arrays / sets of entities under unique IDs |
| `UserSettings` | the settings of a user merged with the plan and the deployment |
| `Organisations` | the pages of an organisation, step by step, over tables that change meanwhile |
| `TenantResolver` | where a host leads, in any of its spellings; `EXTENDS CustomDomains`, whose records it reads |
| `AsteriskInventory` | what a deployment offers, the pages it is listed with and those it serves |
| `OperatorSurfaces`, `ApplyPreview` | what the operator's service, and the apply preview, make of a deployment, a runtime state and a plan |
| `OperatorConsole` | the console: composes `PBXPlan` with the two above and the runtime state |
| `MC...` | instances for TLC: definitions for constants, symmetry, a view |
| `...Proofs` | theorems and proofs about the module named |
| `Extrema` | least and greatest elements of finite sets and of sets of naturals, for the proofs |

How state and actions correspond to the code:

* **CustomDomains.** `domainsByID`, `domainIDsByName`, `nextDomainID` are the
  fields of `MemoryStore`. `XLookup` reads a record into `held[c]`, `XSave` writes
  it back (`Delete` deletes by its ID). Create is list, find, save. What DNS
  answers is any `Answer`. `SaveCustomDomain` does what the store does: a record
  with ID 0 gets the next ID, any other is stored under the ID it has, whether or
  not it is still there. Operators whose comment starts with *Mutant* are wrong
  variants on purpose; no action uses them. They stand in for the definition
  they precede when the strength of a property is tested.
* **AuthSessions.** The expiry check and the new expiry use two readings of the
  clock (`Reading`), each any moment since the request's last step. `jar` is the
  cookie of one browser, `reply` what a response does to it on arrival, so that
  responses overtake each other. One browser sends all requests. `Touch` exists
  with `ExtendOnActivity`, `Accept` without.
* **AuthTokens.** `Refresh` is find, touch, create, revoke, and `TakeBack` when the
  revocation fails (the old token was gone). A client uses any token it was ever
  given, dead or alive.
* **PBXPlan.** A slice is an array and a length. `append` writes into spare room
  or moves to an array twice the size, as Go does for slices this short. Both sorts
  (before the save, without the mutex; in the store, with it) work in place. A sort
  is one step: the data race of a reader *within* a sort could only add mixed
  states to those shown. The eight kinds run the same code written eight times.
  Key 0 is a required field that is missing, which refuses a create (`Valid`). A
  list shows what its slice shows when the answer is written (`ListShow`), after
  the read lock is given back; it is played in `OperatorConsole`.
* **UserSettings.** `ReadPlan` and `ReadSettings` are the two reads of
  `loadContext` that can change, `SaveSettings` the save. What the deployment can
  do is saved before the server listens (`server.go:51`) and is constant. The HTTP
  form for an extension has no owner field; extensions with an owner come through
  the Go API (`CreateExtension`) or seeding. `savedWith` is a history variable.
* **Organisations.** `Serve(r)` goes through the store calls of one request:
  `FindOrganization`, `FindPreferences`, `SaveDefaults`, `ResolveCredential` (a
  session, a user's token, or an organisation's token, which is its owner without a
  membership), `FindMember`, and the page. `Admit` is the end of both
  `resolveWebOrgAccess` and `resolveAPIOrgAccess`. `Provision` is the program around
  the server, which alone writes organisations and memberships, and the logins and
  logouts of the other modules. `witnessed` is a history variable: what has been
  true of the caller in some state since the request was sent. Members whose user
  does not exist have the profile "unknown" and are left out, as in the code.
* **TenantResolver.** `Bindings` are all resolvers that may be built from the records
  now: of two records of one name the last in the order of a Go map wins. A `Host` is
  a name together with how it is spelled: with capitals or blanks, with a dot at its
  end, with a port or with colons that are none. `normalizeHost` is the normal form of the
  resolver and `NormalizeDomainName` the one of the domain tables. The names of
  `CustomDomains` are in the latter already, because the store normalises them, and
  validation lets neither dots at the end nor colons through.
* **OperatorConsole.** `ReadRuntime` and `ReadPlan` are the reads of `loadState`;
  the third returns the same deployment always. The answer is computed after the
  last lock is given back, on the arrays as they then are. `Administrate` are the
  actions of `PBXPlan`. `since` is a history variable: which wallboards were open
  and which closed, whether a preview's target was there, and which tables changed,
  since the reader asked. `PageOpens` follows the order of the routes: PBX resources
  first, then operator routes, then the pages of Asterisk.

## 3. What the runs check

Runs of one request at a time state what callers expect and check it, including
refinement of the abstract module; they say what each operation does, and meet none of
the races. Runs of two requests, or of one request
against tables that change, state what is left when requests overlap. One run
shows a disagreement between code and documentation.

| Run | Instance | Shows |
|---|---|---|
| `CustomDomainsSerial` | 1 request, 2 names, 2 owners, every challenge; hosts of 3 names in 12 spellings each, 2 of them the service's own | `ImplementsRegistry`, `EveryRecordReachable`; `ResolverFollowsIndex`: the tenant resolver agrees with the name index, but for the service's own hosts and those with a dot at their end |
| `CustomDomainsRaces` | 2 requests, 2 names, an owner with limit 1 | `TypeOK`, `IndexSound`, `ActiveOnlyIfVerified`, `SSLNeedsVerification`, `OvershootBounded`: the limit is exceeded by no more than the requests that raced, and `SettledStaysDeleted`: a deletion is final once no request holds a copy of the record |
| `AuthSessionsSerial` | 1 request, 2 tokens, time to 4, extending or not | `ImplementsLedger`, `CookieBacked`, `RemovedForAReason`, `NoRevival` |
| `AuthSessionsRaces` | 2 requests, 2 users, extending or not | `TypeOK`, `CopiesAgree`, `NoTimeGained`, `SettledStaysClosed`, and `AbsoluteLifetime` of sessions that do not extend, and of their cookies |
| `AuthSessionsLogoutRace` | 2 requests | finding: a use overlapping a logout stores the session again |
| `AuthTokensSerial` | 1 request, 2 users, 3 tokens | `ImplementsRegistry`, `OneTokenPerLogin` |
| `AuthTokensRaces` | 2 requests, 2 users, 3 tokens | `TypeOK`, `NoOrphans`, `LoginKeepsOwner`, `SettledStaysSpent` |
| `PBXPlanSerial` | 1 writer, 2 kinds | `ImplementsRegistry`, `PlanIsRecord`, and under fairness `HiddenComesBack`: an entity that the sort of a create hides is listed again |
| `PBXPlanRaces` | 2 writers, 1 kind | `NoBlankShown` |
| `UserSettingsRaces` | 2 updates, 1 user, 2 extensions | `TypeOK`, `SavedIsShown`, `AcceptedWorks` |
| `Organisations` | 1 request, 2 organisations, 2 users, 3 credentials, 2 memberships | `TypeOK`, `PrivateStaysPrivate`, `ManagersOnly`, `HiddenStaysHidden`, `QuietPreferencesLast` |
| `OperatorConsole` | 1 reader, 1 writer of queues, a backend that reports; the gates on every deployment with at most 2 capabilities and 1 subsystem | `SurfacesWereTrue`, `PreviewsWereTrue`, `ListedSurfaceOpens`, `PreviewedPlanIsServed` |

*Bounds.* `MaxDomains`, `Token` and `MaxTime` end a run of the domain and the
auth modules; deadlock is off there for that reason alone. `MaxLen` and `MaxID`
stop creates only, and with a plan or extensions to delete the PBX and settings
runs go on: deadlock is checked. Two requests suffice for what is checked: each
race here is a stale copy in one request against a write by another, and the
theorems cover any number. Two names or tokens are the least with which an
index can dangle and a successor exist; a time of two TTLs lets a session be
extended, expire and be presented again. `PBXPlanSerial` has arrays of 1 to 4 cells,
so appends with and without room both happen, and those with room, after a delete, before
elements that the sort moves; an ID that was deleted is given out again. `PBXPlanRaces` uses
`VIEW SlicesOnly`, which leaves out `acked`: no guard reads it and neither property mentions more of
it than its type; `OperatorConsole` uses `WithoutAcked` for the same reason. Its requests
are played on one deployment only (`Busy`, nothing detected), where a wallboard opens
and closes with the plan and the runtime state; on the others (`Inventory`) nothing
moves, because the gates are facts about the deployment. One request suffices for
`Organisations`: its rivals are the tables that change under it, all of them freely; the
theorems cover any number. Symmetry, of requests, tokens, writers and of clients and
names, is used in runs without temporal properties or with action properties that do not
single out a value.

*Fairness.* `HiddenComesBack` is checked under `WF_vars(Proceed(w))` for each writer: Go
schedules the goroutine of a request again and again, what it does between reading the
plan and saving it waits for nothing but the store's mutex, which every method gives back,
and `sync.RWMutex` does not starve. Nobody is obliged to send a create or a delete
(`CreateRead` and `DeleteRead` are not in `Proceed`). The property is about one
writer: of two, one may save a plan that lost the other's entity. All other properties
are safety properties and assume no fairness: requests may stop anywhere.

## 4. What is proved

For any sets of requests, names, owners, users and tokens, any limits and TTLs:

* **CustomDomainsProofs.** `Invariance` by the inductive `IInv`: the tables alone
  do not explain why the index is sound, since what a request is about to write is
  in its hands. `IInv` says of *every* copy, stored or held, that it is sane (active
  implies verified, TLS implies verified at some time, dns-01 implies a provider),
  that its ID was handed out, and that copies of one ID agree on name and owner
  (`AgreeInv`). From it `TypeCorrect`, `IndexIsSound`, `ActiveIsVerified`,
  `SSLIsVerified`, `DomainsKeepIdentity`. `OvershootIsBounded` needs a second
  invariant: the IDs an owner claims, stored or about to be stored again, are
  counted against the limit and the requests that may still add one. `DeletionSettles`
  is the other half of the races: a request gets hold of a record only by finding it, and
  new records get IDs that nobody had, so what was deleted with no copy about is gone.
* **AuthSessionsProofs.** `TypeCorrect`, `SessionsKeepUser`, `NobodyGainsTime`,
  `LifetimeIsAbsolute` (for sessions that do not extend, and each cookie that leads to
  one: what the cookie is sent again with comes from a copy, so the copies are bounded
  too, and `SessionsKeepUser` says that they have the session's login time), `LogoutSettles`. The
  strengthening bounds what copies and late replies carry by the clock, and says tokens
  under way were issued.
* **AuthTokensProofs.** `TypeCorrect`, `FailedRefreshLeavesNothing`,
  `RefreshKeepsOwner`, `RevocationSettles`. The strengthening says records of one
  login, stored or held, have one owner.
* **One request at a time.** Under `OneAtATime` (at most one element in the set of
  requests), a second invariant in each of these three modules says that what a request
  read is still so when it writes (`SerialInv`, with `MirrorInv` and `CurrentInv`):
  the name it found free is free, the record it holds is the stored one. From it follow
  `SerialReachable`, `SerialLimit` and `SerialDeletion` for domains,
  `SerialCookieWorks`, `SerialRemovals` and `SerialExtensions` for sessions,
  `SerialRefreshReplaces` for tokens, and the three refinements: `SerialKeepsRegistry`
  (`CustomDomains` implements `DomainRegistry`: a request takes effect when it saves),
  `SerialKeepsLedger` (`AuthSessions` implements `SessionLedger`) and
  `SerialKeepsRegistry` of `AuthTokensProofs` (`AuthTokens` implements `TokenRegistry`:
  a refresh takes effect when it revokes the old token). Section 5 shows what
  becomes of some of these conclusions when two requests race. `SerialResolver`: of the
  records there are then, one at most has the name a host is spelled with (`OnlyBinding`),
  and the name index leads to it; `SameKey` and `TwoNormalForms` say where the two normal
  forms of a host agree. So a tenant resolver built at any moment has no choice.
* **PBXPlanProofs.** The model of Go's slices first: `AppendInPlace`, `AppendToCopy`,
  `SortPlanProperties` and the like say what each operation does to a slice somebody else
  has of the same array. `CellsWritten` (`NoBlankShown`) for any number of writers, by
  `TablesInv`: each slice, stored or held, lies within its array and is `Written`, and
  collecting the arrays without a slice takes none that is needed. `KindsStayApart`, as
  general: slices of two kinds are never on one array. For one writer (`OneWriter`)
  `RecordInv` says that the plan in its hands is the stored one until it changes
  it, and from then on what callers will have been told when it is saved, that the ID it
  chose is above all acknowledged ones, and that the plan is in order whenever nobody is
  about to save. From it `SerialPlan` (`PlanIsRecord`) and `SerialRegistry` (`PBXPlan` implements
  `PBXRegistry`: a create or delete takes effect when it saves). IDs are unique among the
  entities there are (`IDsUnique`, a part of `RecordInv`), not among all there ever were: the
  ID of a deleted entity may be given out again. In the model the sort puts each
  element at its `Place`, which is the number of those before it; that these places
  are a permutation, in order, is proved without induction, by extreme elements.
* **UserSettingsProofs.** `TypeCorrect` (IDs are unique because the greatest one
  exists and is passed: `Extrema`), `UpdatesLast`, `AcceptedOpens`. The key is
  `Fits`: what an update makes is a fixed point of the merge and acceptable for the
  extension it read, and keeps fitting that extension however old it is.

* **OrganisationsProofs.** `PrivacyHolds`, `ManagementIsGuarded`, `MembersAreShielded`,
  `PreferencesSurviveReads`, `ListIsPages`, `TypeCorrect`. An answer says nothing of the
  tables as they are, so the invariant is about what backs it: whatever a request has
  learned was witnessed (`Backed`), what is witnessed stays so until the answer, and
  the answer follows from what the request had learned (`Justified`).
* **OperatorConsoleProofs.** `ListedOpens` and `PreviewedIsServed`, for every deployment.
  `WallboardsWereTrue` needs what each copy still says of the past: the runtime state in a
  reader's hands opens alone only what was open; what it leaves closed together with the
  plan of now was closed, unless the plan has changed (`ReadFirst`). It holds because each
  reason for a wallboard to open lies in one table (`OneTableOpens`). `PreviewsTrue`, for one
  writer and any number of readers, needs the arrays of `PBXPlan` as well, because a preview
  compares names in a slice whose array the next save may sort. The slice of queues
  in a reader's hands is on an array that nobody writes to any more, or it is the plan's,
  or the beginning of it once a queue was being created (`KeptQueues`); so what it comes to show it
  shares with the plan of that moment, and it loses a name only to a queue being created.
  That in turn needs that a writer on the plan's array has the plan's slice or a longer
  one (`AheadInv`).

The assumptions are the `ASSUME`s of the modules, which TLC evaluates in each run.

*Only model-checked:* `HiddenComesBack`, because liveness and `ENABLED` are out of the
prover's reach, as are results by induction over data. Every other property of a
passing run is stated by a theorem; those about one request at a time have that as their
hypothesis (`OneAtATime`, `OneWriter`), as their runs have it in their constants.

## 5. Where the code and its documentation differ

Shown by a run: `AuthSessionsLogoutRace` (`resolveSession` saves a session it found
before a logout, so the logged-out session works on).

Also stated in the modules, and broken by the code; to see it, give one of the
instances above the property instead of its own:

| Property | Instance | What happens |
|---|---|---|
| `LimitRespected`, `NamesUnique`, `DeletedStaysDeleted` | `CustomDomainsRaces` (two owners for the second) | two creates overlap; a save follows a delete (what holds of the races is `OvershootBounded`, `IndexSound` and `SettledStaysDeleted`) |
| `SuspendedUntilUnsuspended` | `CustomDomainsSerial` | an owner's `verify` sets the status whatever it was (`domain.go:420`), so it lifts an administrator's suspension |
| `WildcardUsesDNS01` | `CustomDomainsSerial` | http-01 is stored for a wildcard when asked for by name |
| `SpentStaysSpent`, `OneTokenPerLogin` | `AuthTokensRaces`, TTL 3 | a use overlapping a refresh or logout saves the old token back |
| `AckedListed` | `PBXPlanSerial`, one kind | the in-place sort of a create hides an acknowledged entity until the save |
| `PlanIsRecord`, `IDsUnique` | `PBXPlanRaces` without the view | two creates read one plan: an update is lost, an ID given twice |
| `VisibleOpens`, `ShownIsAcceptable` | `UserSettingsRaces` with every post | messages are listed to a user who switched them off; a user without an extension is shown what an update refuses |
| `WebphoneUsesOwnEndpoint` | `UserSettingsRaces` with two endpoints | the endpoint of a replaced extension stays |

Met while modelling, and visible in the modules without a property of their own:

* A host with a dot at its end is found by the name index, which strips the dot
  (`model/domain.go:109`), and unknown to the tenant resolver, which keeps it
  (`tenancy.go:102`): the exception in `ResolverFollowsIndex`. And nobody reaches the hosts
  under a wildcard domain: `Resolve` looks the host up as it is, so only the name with
  the star itself has that tenant.
* With `ExtendOnActivity` a session outlives `max_age` for as long as it is used; without,
  `AbsoluteLifetime` holds.
* The pages `queues` and `conferences` of the Asterisk service are never reached:
  the PBX routes of the same names come first (`PageOpens`). `operator` and `callcenter`
  are listed by it and served by the operator's routes.
* A dashboard may refuse a surface that was open at every moment: it may see the old
  runtime state with the new plan (`Torn`). Without that exception `SurfacesWereTrue` fails.
* A preview may miss a planned queue while another is created: `append` writes into the
  shared array and the sort moves the last queue beyond the reader's length
  (`<<"created", "queues">>`). Without that exception `PreviewsWereTrue` fails.
* `voicemail_transfer` is previewed without asking for voicemail, `force_recording` is
  satisfied by voicemail alone, and a target of an unknown kind counts as found
  (`Problems`, `TargetFound`).
* Of a user's two memberships of one organisation the order of a Go map decides which
  role counts (`FindMember`).
* A request whose credential is logged out and whose user is made a member while it is
  served may be let in: the two are checked at different moments (`PrivateStaysPrivate`
  asks for both, not for both at once).
* Preferences saved between a first read's find and its save are overwritten by the
  defaults (the exception in `QuietPreferencesLast`).
* `ShowMembers` is shown with the settings and not asked for by the list of members.
* Sessions and tokens that nobody presents again are never removed.
* No route sets the user of an extension, seeds organisations or reports a runtime
  state: the models let the program around the server do it.

## 6. What is not modelled, and what is left

* Contacts: list, add and delete are one atomic store call each, after the reads of
  `loadContext` that `UserSettings` has. Voicemails, calls and messages are only listed.
* `AuthService.Can` and the namespace registry: pure functions no handler calls.
* Sessions and tokens of administrators and organisations: the same code on other tables.
* Wiring, rendering, request parsing, configuration, detection of Asterisk (external
  commands at start-up), password hashing, client and document stubs.
