--------------------------- MODULE CustomDomains ----------------------------
(***************************************************************************)
(* DomainService (service/domain.go) over the domain tables of MemoryStore *)
(* (store/memory.go).                                                      *)
(*                                                                         *)
(* The store holds its mutex for the whole of each method, so one store    *)
(* call is one atomic step.  The service holds nothing between two calls:  *)
(* each HTTP request is a goroutine that reads a record by value, decides, *)
(* and writes the whole record back.  A client of this module is such a    *)
(* request: pc[c] is the operation it is in the middle of and held[c] the  *)
(* record it has in its hands.  A request that is refused before its first *)
(* write without having read anything changes no state and is left out.    *)
(***************************************************************************)
EXTENDS Maps, Integers, FiniteSets

CONSTANTS
  Client,            \* concurrent requests
  Name,              \* normalised names that pass ValidateDomainName
  WildcardName,      \* those that start with "*."
  Owner,             \* owner type and owner ID of a record
  Limit,             \* limitForOwner of each owner; 0 is no limit
  PublicIPs,         \* TRUE iff the service knows addresses of its own
  PlatformHosts,     \* TRUE iff the service knows host names of its own
  TLSALPNAvailable,
  HTTPAvailable,
  RequestedChallenge,\* the challenges requests ask for
  MaxDomains         \* bound: no create starts once this many IDs are used

ASSUME ConstantsAssumption ==
  /\ IsFiniteSet(Client)
  /\ WildcardName \subseteq Name
  /\ Limit \in [Owner -> Nat]
  /\ {PublicIPs, PlatformHosts, TLSALPNAvailable, HTTPAvailable} \subseteq BOOLEAN

Status       == {"pending", "active", "suspended", "error"}
Verification == {"pending", "verified", "failed"}
\* "other" is any string the service does not know: it is stored as it comes.
Challenge    == {"auto", "http-01", "tls-alpn-01", "dns-01", "other"}

ASSUME RequestedChallengeAssumption == RequestedChallenge \subseteq Challenge

(***************************************************************************)
(* A model.CustomDomain: verifiedAt is whether VerifiedAt is set, and      *)
(* sslProvider whether SSLProvider is a non-empty string.  sslStatus and   *)
(* sslEnabled only ever move together (none/FALSE to pending/TRUE), so     *)
(* sslEnabled stands for both.                                             *)
(***************************************************************************)
Domain ==
  [id: Nat, name: Name, owner: Owner, status: Status,
   verification: Verification, verifiedAt: BOOLEAN,
   sslEnabled: BOOLEAN, sslChallenge: Challenge, sslProvider: BOOLEAN]

\* model.CustomDomain{}
ZeroDomain ==
  [id |-> 0, name |-> "", owner |-> "", status |-> "", verification |-> "",
   verifiedAt |-> FALSE, sslEnabled |-> FALSE, sslChallenge |-> "",
   sslProvider |-> FALSE]

\* The record createDomain builds before it has an ID.
NewDomain(o, n) ==
  [id |-> 0, name |-> n, owner |-> o, status |-> "pending",
   verification |-> "pending", verifiedAt |-> FALSE,
   sslEnabled |-> FALSE, sslChallenge |-> "auto", sslProvider |-> FALSE]

VARIABLES
  domainsByID,       \* the records, by ID
  domainIDsByName,   \* the name index
  nextDomainID,
  pc,                \* the operation a request is in the middle of
  held               \* the record the request holds by value

store == <<domainsByID, domainIDsByName, nextDomainID>>
vars == <<store, pc, held>>

CreateSteps == {"createFind", "createSave"}
HoldingSteps ==
  {"verify", "configureSSL", "suspend", "unsuspend", "renewSSL", "delete"}

-----------------------------------------------------------------------------
(***************************************************************************)
(* The store.                                                              *)
(***************************************************************************)

\* Mutant: nextDomainID is not counted up.
SaveKeepsCounter(d) ==
  LET saved == IF d.id = 0 THEN [d EXCEPT !.id = nextDomainID] ELSE d
  IN  /\ domainsByID' = Put(domainsByID, saved.id, saved)
      /\ domainIDsByName' = Put(domainIDsByName, saved.name, saved.id)
      /\ UNCHANGED nextDomainID

\* Mutant: a new ID is the number of records plus one, not the counter.
SaveReusesIDs(d) ==
  LET saved == IF d.id = 0 THEN [d EXCEPT !.id = Cardinality(DOMAIN domainsByID) + 1] ELSE d
  IN  /\ domainsByID' = Put(domainsByID, saved.id, saved)
      /\ domainIDsByName' = Put(domainIDsByName, saved.name, saved.id)
      /\ nextDomainID' = IF d.id = 0 THEN nextDomainID + 1 ELSE nextDomainID

SaveCustomDomain(d) ==
  LET saved == IF d.id = 0 THEN [d EXCEPT !.id = nextDomainID] ELSE d
  IN  /\ domainsByID' = Put(domainsByID, saved.id, saved)
      /\ domainIDsByName' = Put(domainIDsByName, saved.name, saved.id)
      /\ nextDomainID' = IF d.id = 0 THEN nextDomainID + 1 ELSE nextDomainID

\* The record a registered name leads to: the zero record if the index dangles.
FindCustomDomainByDomain(n) ==
  LET id == domainIDsByName[n]
  IN  IF id \in DOMAIN domainsByID THEN domainsByID[id] ELSE ZeroDomain

OwnedIDs(o) == {id \in DOMAIN domainsByID : domainsByID[id].owner = o}

\* Mutant: the name index is not cleaned up.
DeleteKeepsIndex(id) ==
  /\ domainsByID' = Drop(domainsByID, id)
  /\ UNCHANGED <<domainIDsByName, nextDomainID>>

DeleteCustomDomainByID(id) ==
  /\ domainsByID' = Drop(domainsByID, id)
  /\ domainIDsByName' = Drop(domainIDsByName, domainsByID[id].name)
  /\ UNCHANGED nextDomainID

-----------------------------------------------------------------------------
(***************************************************************************)
(* What the service makes of the record it holds.                          *)
(***************************************************************************)

Suspended(d) == [d EXCEPT !.status = "suspended"]

\* Mutant: an unsuspended domain is active whether verified or not.
UnsuspendedActive(d) == [d EXCEPT !.status = "active"]

Unsuspended(d) ==
  [d EXCEPT !.status = IF d.verification = "verified" THEN "active" ELSE "pending"]

SelectSSLChallenge(d) ==
  IF d.sslProvider \/ d.name \in WildcardName THEN "dns-01"
  ELSE IF TLSALPNAvailable THEN "tls-alpn-01"
  ELSE IF HTTPAvailable THEN "http-01"
  ELSE "dns-01"

ChosenChallenge(d, challenge) ==
  IF challenge = "auto" THEN SelectSSLChallenge(d) ELSE challenge

SSLConfigured(d, challenge, provider) ==
  [d EXCEPT !.sslEnabled = TRUE,
            !.sslProvider = provider,
            !.sslChallenge = ChosenChallenge(d, challenge)]

Verified(d) ==
  [d EXCEPT !.status = "active", !.verification = "verified", !.verifiedAt = TRUE]

VerifyFailed(d) == [d EXCEPT !.status = "error", !.verification = "failed"]

\* DNS answers: an address or alias of this service ("ours"), another, an error.
Answer == {"ours", "other", "error"}

MatchesTarget(address, alias) ==
  \/ PublicIPs /\ address = "ours"
  \/ PlatformHosts /\ alias = "ours"

-----------------------------------------------------------------------------
(***************************************************************************)
(* The requests.  The first action of each is its first store read.        *)
(***************************************************************************)

Begin(c, step, d) ==
  /\ pc[c] = "idle"
  /\ pc' = [pc EXCEPT ![c] = step]
  /\ held' = [held EXCEPT ![c] = d]
  /\ UNCHANGED store

\* The goroutine answers and ends.
Return(c) ==
  /\ pc' = [pc EXCEPT ![c] = "idle"]
  /\ held' = [held EXCEPT ![c] = ZeroDomain]

\* Mutant: the limit is compared one too late.
HasRoomForOneMore(o) == Limit[o] > 0 => Cardinality(OwnedIDs(o)) <= Limit[o]

\* createDomain: the limit is compared with the owner's list as it is now.
HasRoom(o) == Limit[o] > 0 => Cardinality(OwnedIDs(o)) < Limit[o]

CreateList(c, o, n) ==
  /\ nextDomainID <= MaxDomains
  /\ HasRoom(o)
  /\ Begin(c, "createFind", NewDomain(o, n))

\* Mutant: the name is not looked up before it is registered.
CreateFindUnchecked(c) ==
  /\ pc[c] = "createFind"
  /\ pc' = [pc EXCEPT ![c] = "createSave"]
  /\ UNCHANGED <<store, held>>

CreateFind(c) ==
  /\ pc[c] = "createFind"
  /\ IF held[c].name \in DOMAIN domainIDsByName
     THEN Return(c)                                  \* DOMAIN_EXISTS
     ELSE pc' = [pc EXCEPT ![c] = "createSave"] /\ UNCHANGED held
  /\ UNCHANGED store

CreateSave(c) ==
  /\ pc[c] = "createSave"
  /\ SaveCustomDomain(held[c])
  /\ Return(c)

\* lookupDomain, then the check getOwnedDomain makes for an owner's request.
Lookup(c, step, n) ==
  /\ n \in DOMAIN domainIDsByName
  /\ Begin(c, step, FindCustomDomainByDomain(n))

OwnerLookup(c, step, o, n) ==
  /\ Lookup(c, step, n)
  /\ FindCustomDomainByDomain(n).owner = o

VerifyLookup(c, o, n) == OwnerLookup(c, "verify", o, n)

\* The DNS queries, which take as long as they take, and the save after them.
VerifySave(c) ==
  /\ pc[c] = "verify"
  /\ \E address, alias \in Answer :
       SaveCustomDomain(IF MatchesTarget(address, alias)
                        THEN Verified(held[c]) ELSE VerifyFailed(held[c]))
  /\ Return(c)

\* Mutant: TLS is configured without asking for a verification.
ConfigureSSLUnverified(c, o, n) == OwnerLookup(c, "configureSSL", o, n)

ConfigureSSLLookup(c, o, n) ==
  /\ OwnerLookup(c, "configureSSL", o, n)
  /\ FindCustomDomainByDomain(n).verification = "verified"

ConfigureSSLSave(c) ==
  /\ pc[c] = "configureSSL"
  /\ \E challenge \in RequestedChallenge, provider \in BOOLEAN :
       /\ ChosenChallenge(held[c], challenge) = "dns-01" => provider
       /\ SaveCustomDomain(SSLConfigured(held[c], challenge, provider))
  /\ Return(c)

SuspendLookup(c, n) == Lookup(c, "suspend", n)

SuspendSave(c) ==
  /\ pc[c] = "suspend"
  /\ SaveCustomDomain(Suspended(held[c]))
  /\ Return(c)

UnsuspendLookup(c, n) == Lookup(c, "unsuspend", n)

UnsuspendSave(c) ==
  /\ pc[c] = "unsuspend"
  /\ SaveCustomDomain(Unsuspended(held[c]))
  /\ Return(c)

\* RenewDomainSSL writes the record back as it read it: its SSL status is
\* pending already and its challenge never empty.
RenewSSLLookup(c, n) ==
  /\ Lookup(c, "renewSSL", n)
  /\ FindCustomDomainByDomain(n).sslEnabled

RenewSSLSave(c) ==
  /\ pc[c] = "renewSSL"
  /\ SaveCustomDomain(held[c])
  /\ Return(c)

\* DeleteUserDomain and DeleteOrganizationDomain by an owner, DeleteDomain by
\* an administrator: the same two calls, and an owner deletes its own only.
DeleteLookup(c, n) == Lookup(c, "delete", n)

Delete(c) ==
  /\ pc[c] = "delete"
  /\ IF held[c].id \in DOMAIN domainsByID
     THEN DeleteCustomDomainByID(held[c].id)
     ELSE UNCHANGED store                            \* store.ErrNotFound
  /\ Return(c)

-----------------------------------------------------------------------------
Init ==
  /\ domainsByID = EmptyMap
  /\ domainIDsByName = EmptyMap
  /\ nextDomainID = 1
  /\ pc = [c \in Client |-> "idle"]
  /\ held = [c \in Client |-> ZeroDomain]

Create(c) ==
  \/ \E o \in Owner, n \in Name : CreateList(c, o, n)
  \/ CreateFind(c)
  \/ CreateSave(c)

OwnerRequest(c) ==
  \/ \E o \in Owner, n \in Name : VerifyLookup(c, o, n) \/ ConfigureSSLLookup(c, o, n)
  \/ VerifySave(c)
  \/ ConfigureSSLSave(c)

AdminRequest(c) ==
  \/ \E n \in Name : \/ SuspendLookup(c, n) \/ UnsuspendLookup(c, n)
                     \/ RenewSSLLookup(c, n) \/ DeleteLookup(c, n)
  \/ SuspendSave(c)
  \/ UnsuspendSave(c)
  \/ RenewSSLSave(c)
  \/ Delete(c)

Next == \E c \in Client : Create(c) \/ OwnerRequest(c) \/ AdminRequest(c)

Spec == Init /\ [][Next]_vars

-----------------------------------------------------------------------------
(***************************************************************************)
(* Properties that hold whatever requests run at the same time.            *)
(***************************************************************************)

\* Every table holds what its Go type allows, IDs count up from 1, and a
\* request in the middle of an operation holds a record.
TypeOK ==
  /\ nextDomainID \in Nat \ {0}
  /\ DOMAIN domainsByID \subseteq 1..(nextDomainID - 1)
  /\ \A id \in DOMAIN domainsByID :
       domainsByID[id] \in Domain /\ domainsByID[id].id = id
  /\ DOMAIN domainIDsByName \subseteq Name
  /\ \A n \in DOMAIN domainIDsByName : domainIDsByName[n] \in 1..(nextDomainID - 1)
  /\ pc \in [Client -> {"idle"} \cup CreateSteps \cup HoldingSteps]
  /\ DOMAIN held = Client
  /\ \A c \in Client : pc[c] # "idle" => held[c] \in Domain

\* The records of the system: those stored and those in a request's hands.
InHand(c) == pc[c] \in HoldingSteps
Copies ==
  {domainsByID[id] : id \in DOMAIN domainsByID} \cup {held[c] : c \in {k \in Client : InHand(k)}}

\* FindCustomDomainByDomain does not check that the record is there
\* (memory.go:683): it never has to, for the index of a name always leads to a
\* stored record of that name, whatever stale copies are written back.
IndexSound ==
  \A n \in DOMAIN domainIDsByName :
    /\ domainIDsByName[n] \in DOMAIN domainsByID
    /\ domainsByID[domainIDsByName[n]].name = n

\* A domain serves traffic only after a verification: no interleaving of
\* verify, unsuspend and stale saves makes a record active and unverified.
ActiveOnlyIfVerified ==
  \A d \in Copies : d.status = "active" => d.verification = "verified"

\* TLS is only ever configured for a domain that was verified at some time,
\* and a dns-01 challenge always has a provider to answer it.
SSLNeedsVerification ==
  \A d \in Copies : /\ d.sslEnabled => d.verifiedAt
                    /\ d.sslChallenge = "dns-01" => d.sslProvider

\* A domain never changes hands: no stale copy moves an ID to another owner or
\* to another name, even when it brings back a record deleted meanwhile.
CopiesAgree ==
  \A d, e \in Copies : d.id = e.id => d.owner = e.owner /\ d.name = e.name

\* A deletion is final once the requests that overlap it have come to their end:
\* an ID that is gone from the table, with no request holding a copy of its record,
\* never comes back, whatever the index led a later request to (domain.go:426,
\* memory.go:679).
Gone == {id \in 1..(nextDomainID - 1) : id \notin DOMAIN domainsByID}
HoldersOf(id) == {c \in Client : InHand(c) /\ held[c].id = id}
SettledStaysDeleted ==
  [][\A id \in Gone : HoldersOf(id) = {} => id \in Gone' /\ HoldersOf(id)' = {}]_vars

\* The limit is checked well before the save it guards (domain.go:275, 299),
\* so racing requests overshoot it, but each request by at most one record.
OvershootBounded ==
  \A o \in Owner : Limit[o] > 0 =>
    Cardinality(OwnedIDs(o)) <= Limit[o] + Cardinality(Client) - 1

-----------------------------------------------------------------------------
(***************************************************************************)
(* Properties of requests that run one at a time (one client).  Two at     *)
(* once break each of them.                                                 *)
(***************************************************************************)

\* One name is registered once: DOMAIN_EXISTS refuses the second.
NamesUnique ==
  \A i, j \in DOMAIN domainsByID : domainsByID[i].name = domainsByID[j].name => i = j

\* No owner has more records than its limit allows: DOMAIN_LIMIT.
LimitRespected ==
  \A o \in Owner : Limit[o] > 0 => Cardinality(OwnedIDs(o)) <= Limit[o]

\* A record that was deleted stays deleted: no request writes it back.
DeletedStaysDeleted ==
  [][\A id \in 1..(nextDomainID - 1) :
       id \in DOMAIN domainsByID' => id \in DOMAIN domainsByID]_store

\* Every stored record is reached by its name, so its owner and the
\* administrator can see it, verify it and delete it.
EveryRecordReachable ==
  \A id \in DOMAIN domainsByID :
    /\ domainsByID[id].name \in DOMAIN domainIDsByName
    /\ domainIDsByName[domainsByID[id].name] = id

\* The service is the registry its callers take it for: every operation acts
\* at once, on the record the name has at that moment.
Registry == INSTANCE DomainRegistry WITH
  registry <- [n \in DOMAIN domainIDsByName |->
                 LET d == FindCustomDomainByDomain(n)
                 IN  [owner |-> d.owner, status |-> d.status,
                      verification |-> d.verification, secured |-> d.sslEnabled]]

ImplementsRegistry == Registry!Spec

-----------------------------------------------------------------------------
(***************************************************************************)
(* What the documentation says and the code does not do, even one request  *)
(* at a time.                                                              *)
(***************************************************************************)

\* Only an administrator's unsuspend takes a domain out of suspension.
SuspendedUntilUnsuspended ==
  [][\A id \in DOMAIN domainsByID \cap DOMAIN domainsByID' :
       domainsByID[id].status = "suspended" /\ domainsByID'[id].status # "suspended"
         => \E c \in Client : pc[c] = "unsuspend" /\ held[c].id = id /\ pc'[c] = "idle"]_vars

\* The certificate of a wildcard domain is asked for with dns-01.
WildcardUsesDNS01 ==
  \A id \in DOMAIN domainsByID :
    domainsByID[id].name \in WildcardName /\ domainsByID[id].sslEnabled
      => domainsByID[id].sslChallenge = "dns-01"

=============================================================================
