------------------------- MODULE CustomDomainsProofs ------------------------
(***************************************************************************)
(* Proofs about CustomDomains, for any set of requests, names and owners.  *)
(*                                                                         *)
(* The stored tables alone do not explain why the name index stays sound:  *)
(* what a request will write is in its hands, possibly for as long as a    *)
(* DNS lookup takes.  The inductive invariant therefore speaks of every    *)
(* copy of a record, stored or held, and says that copies of one ID agree  *)
(* on name and owner, and that a held ID was handed out before.  From it   *)
(* follows when a deletion is settled: no request that starts after it     *)
(* gets hold of the record, so none can write it back.                     *)
(*                                                                         *)
(* For requests that run one at a time what a request read is still so     *)
(* when it writes (SerialInv), and the service implements DomainRegistry;  *)
(* and of the stored records one at most claims a host, so that a tenant   *)
(* resolver has no choice, however a client spells the host.               *)
(***************************************************************************)
EXTENDS TenantResolver, FiniteSetTheorems, TLAPS

\* What every record satisfies on its own.
Sane(d) ==
  /\ d.status = "active" => d.verification = "verified"
  /\ d.sslEnabled => d.verifiedAt
  /\ d.verification = "verified" => d.verifiedAt
  /\ d.sslChallenge = "dns-01" => d.sslProvider

SameDomain(d, e) == d.owner = e.owner /\ d.name = e.name

\* The record in the hands of a request: one without an ID while it is being
\* created, else a copy of a record that was stored at some time.
HeldInv ==
  \A c \in Client :
    /\ pc[c] # "idle" => held[c] \in Domain /\ Sane(held[c])
    /\ pc[c] \in CreateSteps => held[c].id = 0
    /\ InHand(c) => held[c].id \in 1..(nextDomainID - 1)
    /\ pc[c] = "configureSSL" => held[c].verification = "verified"

StoredInv == \A id \in DOMAIN domainsByID : Sane(domainsByID[id])

AgreeInv ==
  /\ \A c \in Client : InHand(c) /\ held[c].id \in DOMAIN domainsByID
       => SameDomain(held[c], domainsByID[held[c].id])
  /\ \A c, k \in Client : InHand(c) /\ InHand(k) /\ held[c].id = held[k].id
       => SameDomain(held[c], held[k])

IInv == TypeOK /\ IndexSound /\ HeldInv /\ StoredInv /\ AgreeInv

-----------------------------------------------------------------------------
(***************************************************************************)
(* The parts of a step.                                                    *)
(***************************************************************************)

\* A request that answers leaves the hands empty and disturbs no other.
LEMMA ReturnStep ==
  ASSUME TypeOK, NEW c \in Client, Return(c)
  PROVE  /\ pc' \in [Client -> {"idle"} \cup CreateSteps \cup HoldingSteps]
         /\ DOMAIN held' = Client
         /\ pc'[c] = "idle"
         /\ \A k \in Client \ {c} : pc'[k] = pc[k] /\ held'[k] = held[k]
BY DEF TypeOK, Return

\* What a request may write: a sane record that is either new or another
\* version of the one it holds.
Writable(c, d) ==
  /\ d \in Domain
  /\ Sane(d)
  /\ \/ d.id = 0
     \/ InHand(c) /\ d.id = held[c].id /\ SameDomain(d, held[c])

LEMMA SaveStep ==
  ASSUME IInv, NEW c \in Client, NEW d, Writable(c, d),
         SaveCustomDomain(d), Return(c)
  PROVE  IInv'
<1> DEFINE saved == IF d.id = 0 THEN [d EXCEPT !.id = nextDomainID] ELSE d
<1>1. /\ saved \in Domain
      /\ Sane(saved)
      /\ SameDomain(saved, d)
      /\ saved.id \in 1..(nextDomainID' - 1)
      /\ nextDomainID \in Nat \ {0}
      /\ nextDomainID' \in Nat \ {0}
      /\ nextDomainID <= nextDomainID'
  BY DEF IInv, TypeOK, HeldInv, Writable, SaveCustomDomain, Domain, Sane, SameDomain
<1>2. /\ domainsByID' = [k \in DOMAIN domainsByID \cup {saved.id} |->
                           IF k = saved.id THEN saved ELSE domainsByID[k]]
      /\ domainIDsByName' = [k \in DOMAIN domainIDsByName \cup {saved.name} |->
                               IF k = saved.name THEN saved.id ELSE domainIDsByName[k]]
  BY DEF SaveCustomDomain, Put
<1>3. ASSUME saved.id \in DOMAIN domainsByID
      PROVE  SameDomain(saved, domainsByID[saved.id])
  BY <1>1, <1>3 DEF IInv, TypeOK, AgreeInv, Writable, SameDomain, Domain
<1>4. ASSUME NEW k \in Client, InHand(k), held[k].id = saved.id
      PROVE  SameDomain(held[k], saved)
  BY <1>1, <1>4 DEF IInv, TypeOK, HeldInv, AgreeInv, Writable, SameDomain, Domain
<1> HIDE DEF saved
<1>5. TypeOK'
  BY <1>1, <1>2, ReturnStep DEF IInv, TypeOK, Domain
<1>6. IndexSound'
  BY <1>1, <1>2, <1>3 DEF IInv, TypeOK, IndexSound, SameDomain, Domain
<1>7. HeldInv'
  BY <1>1, ReturnStep DEF IInv, TypeOK, HeldInv, InHand, HoldingSteps, CreateSteps
<1>8. StoredInv'
  BY <1>1, <1>2 DEF IInv, StoredInv
<1>9. AgreeInv'
  <2>1. \A k \in Client : InHand(k)' => k # c /\ InHand(k) /\ held'[k] = held[k]
    BY ReturnStep DEF IInv, InHand, HoldingSteps
  <2>2. QED
    BY <1>1, <1>2, <1>4, <2>1 DEF IInv, AgreeInv
<1>10. QED
  BY <1>5, <1>6, <1>7, <1>8, <1>9 DEF IInv

\* A name that is registered leads to the stored record of that name.
LEMMA FindStored ==
  ASSUME IInv, NEW n \in DOMAIN domainIDsByName
  PROVE  \E id \in DOMAIN domainsByID :
           /\ FindCustomDomainByDomain(n) = domainsByID[id]
           /\ domainsByID[id].id = id
           /\ domainsByID[id] \in Domain
           /\ Sane(domainsByID[id])
BY DEF IInv, TypeOK, IndexSound, StoredInv, FindCustomDomainByDomain

\* Reading a record into the hands of a request.
LEMMA LookupStep ==
  ASSUME IInv, NEW c \in Client, NEW step \in HoldingSteps, NEW n \in Name,
         Lookup(c, step, n),
         step = "configureSSL" => FindCustomDomainByDomain(n).verification = "verified"
  PROVE  IInv'
<1>1. PICK id \in DOMAIN domainsByID :
        /\ FindCustomDomainByDomain(n) = domainsByID[id]
        /\ domainsByID[id].id = id
        /\ domainsByID[id] \in Domain
        /\ Sane(domainsByID[id])
  BY FindStored DEF Lookup
<1>2. /\ held'[c] = domainsByID[id]
      /\ pc'[c] = step
      /\ \A k \in Client \ {c} : pc'[k] = pc[k] /\ held'[k] = held[k]
      /\ DOMAIN held' = Client
      /\ pc' \in [Client -> {"idle"} \cup CreateSteps \cup HoldingSteps]
      /\ UNCHANGED <<domainsByID, domainIDsByName, nextDomainID>>
  BY <1>1 DEF Lookup, Begin, store, IInv, TypeOK
<1>3. TypeOK' /\ IndexSound' /\ StoredInv'
  BY <1>1, <1>2 DEF IInv, TypeOK, IndexSound, StoredInv
<1>4. HeldInv'
  BY <1>1, <1>2 DEF IInv, TypeOK, HeldInv, InHand, HoldingSteps, CreateSteps
<1>5. AgreeInv'
  BY <1>1, <1>2 DEF IInv, TypeOK, AgreeInv, InHand, SameDomain
<1>6. QED
  BY <1>3, <1>4, <1>5 DEF IInv

\* A request that keeps a new record in its hands.
LEMMA CreateStep ==
  ASSUME IInv, NEW c \in Client,
         UNCHANGED store,
         \/ \E o \in Owner, n \in Name : Begin(c, "createFind", NewDomain(o, n))
         \/ /\ pc[c] = "createFind"
            /\ pc' = [pc EXCEPT ![c] = "createSave"]
            /\ UNCHANGED held
  PROVE  IInv'
<1>1. /\ pc'[c] \in CreateSteps
      /\ held'[c] \in Domain
      /\ Sane(held'[c])
      /\ held'[c].id = 0
      /\ \A k \in Client \ {c} : pc'[k] = pc[k] /\ held'[k] = held[k]
      /\ DOMAIN held' = Client
      /\ pc' \in [Client -> {"idle"} \cup CreateSteps \cup HoldingSteps]
      /\ UNCHANGED <<domainsByID, domainIDsByName, nextDomainID>>
  <2>1. CASE \E o \in Owner, n \in Name : Begin(c, "createFind", NewDomain(o, n))
    <3>1. PICK o \in Owner, n \in Name : Begin(c, "createFind", NewDomain(o, n))
      BY <2>1
    <3>2. NewDomain(o, n) \in Domain /\ Sane(NewDomain(o, n)) /\ NewDomain(o, n).id = 0
      BY DEF NewDomain, Domain, Sane, Status, Verification, Challenge
    <3>3. QED
      BY <3>1, <3>2 DEF Begin, IInv, TypeOK, CreateSteps, store
  <2>2. CASE /\ pc[c] = "createFind"
             /\ pc' = [pc EXCEPT ![c] = "createSave"]
             /\ UNCHANGED held
    BY <2>2 DEF IInv, TypeOK, HeldInv, CreateSteps, store
  <2>3. QED
    BY <2>1, <2>2
<1>2. TypeOK' /\ IndexSound' /\ StoredInv'
  BY <1>1 DEF IInv, TypeOK, IndexSound, StoredInv
<1>3. HeldInv'
  BY <1>1 DEF IInv, TypeOK, HeldInv, InHand, HoldingSteps, CreateSteps
<1>4. AgreeInv'
  BY <1>1 DEF IInv, TypeOK, AgreeInv, InHand, HoldingSteps, CreateSteps, SameDomain
<1>5. QED
  BY <1>2, <1>3, <1>4 DEF IInv

\* A request that answers without having written.
LEMMA RefuseStep ==
  ASSUME IInv, NEW c \in Client, Return(c), UNCHANGED store
  PROVE  IInv'
<1>1. UNCHANGED <<domainsByID, domainIDsByName, nextDomainID>>
  BY DEF store
<1>2. TypeOK' /\ IndexSound' /\ StoredInv'
  BY <1>1, ReturnStep DEF IInv, TypeOK, IndexSound, StoredInv
<1>3. HeldInv' /\ AgreeInv'
  BY <1>1, ReturnStep DEF IInv, HeldInv, AgreeInv, InHand, HoldingSteps, CreateSteps
<1>4. QED
  BY <1>2, <1>3 DEF IInv

LEMMA DeleteStep ==
  ASSUME IInv, NEW c \in Client, Delete(c)
  PROVE  IInv'
<1>1. CASE held[c].id \notin DOMAIN domainsByID
  BY <1>1, RefuseStep DEF Delete
<1>2. CASE held[c].id \in DOMAIN domainsByID
  <2> DEFINE id == held[c].id
             name == domainsByID[id].name
  <2>1. /\ domainsByID' = [i \in DOMAIN domainsByID \ {id} |-> domainsByID[i]]
        /\ domainIDsByName' = [n \in DOMAIN domainIDsByName \ {name} |-> domainIDsByName[n]]
        /\ nextDomainID' = nextDomainID
        /\ Return(c)
    BY <1>2 DEF Delete, DeleteCustomDomainByID, Drop, Restrict
  <2>2. TypeOK'
    BY <2>1, ReturnStep DEF IInv, TypeOK
  <2>3. IndexSound'
    BY <2>1 DEF IInv, IndexSound
  <2>4. StoredInv'
    BY <2>1 DEF IInv, StoredInv
  <2>5. HeldInv' /\ AgreeInv'
    BY <2>1, ReturnStep DEF IInv, HeldInv, AgreeInv, InHand, HoldingSteps, CreateSteps
  <2>6. QED
    BY <2>2, <2>3, <2>4, <2>5 DEF IInv
<1>3. QED
  BY <1>1, <1>2

-----------------------------------------------------------------------------
(***************************************************************************)
(* The invariant.                                                          *)
(***************************************************************************)

LEMMA InitInv == Init => IInv
BY DEF Init, EmptyMap, IInv, TypeOK, IndexSound, HeldInv, StoredInv, AgreeInv, InHand,
       HoldingSteps, CreateSteps

\* The versions of a held record that the operations write back.
LEMMA WritableVersions ==
  ASSUME IInv, NEW c \in Client
  PROVE  /\ pc[c] = "createSave" => Writable(c, held[c])
         /\ pc[c] = "verify" => Writable(c, Verified(held[c])) /\ Writable(c, VerifyFailed(held[c]))
         /\ pc[c] = "suspend" => Writable(c, Suspended(held[c]))
         /\ pc[c] = "unsuspend" => Writable(c, Unsuspended(held[c]))
         /\ pc[c] = "renewSSL" => Writable(c, held[c])
<1> USE DEF IInv, HeldInv, Writable, InHand, HoldingSteps, CreateSteps, Sane, SameDomain
<1>1. pc[c] = "createSave" => Writable(c, held[c])
  OBVIOUS
<1>2. pc[c] = "verify" => Writable(c, Verified(held[c])) /\ Writable(c, VerifyFailed(held[c]))
  BY DEF Verified, VerifyFailed, Domain, Status, Verification
<1>3. pc[c] = "suspend" => Writable(c, Suspended(held[c]))
  BY DEF Suspended, Domain, Status
<1>4. pc[c] = "unsuspend" => Writable(c, Unsuspended(held[c]))
  BY DEF Unsuspended, Domain, Status
<1>5. pc[c] = "renewSSL" => Writable(c, held[c])
  OBVIOUS
<1>6. QED
  BY <1>1, <1>2, <1>3, <1>4, <1>5

LEMMA WritableSSL ==
  ASSUME IInv, NEW c \in Client, pc[c] = "configureSSL",
         NEW challenge \in RequestedChallenge, NEW provider \in BOOLEAN,
         ChosenChallenge(held[c], challenge) = "dns-01" => provider
  PROVE  Writable(c, SSLConfigured(held[c], challenge, provider))
<1>1. /\ held[c] \in Domain
      /\ Sane(held[c])
      /\ held[c].verification = "verified"
      /\ InHand(c)
  BY DEF IInv, HeldInv, InHand, HoldingSteps
<1>2. ChosenChallenge(held[c], challenge) \in Challenge
  BY RequestedChallengeAssumption DEF ChosenChallenge, SelectSSLChallenge, Challenge
<1> DEFINE chosen == ChosenChallenge(held[c], challenge)
           d == SSLConfigured(held[c], challenge, provider)
<1>3. d = [held[c] EXCEPT !.sslEnabled = TRUE, !.sslProvider = provider,
                          !.sslChallenge = chosen]
  BY DEF SSLConfigured
<1> HIDE DEF chosen, d
<1>4. /\ d \in Domain
      /\ d.id = held[c].id /\ d.owner = held[c].owner /\ d.name = held[c].name
      /\ d.status = held[c].status /\ d.verification = held[c].verification
      /\ d.verifiedAt = held[c].verifiedAt
      /\ d.sslProvider = provider /\ d.sslChallenge = chosen
  BY <1>1, <1>2, <1>3 DEF Domain, chosen
<1>5. Sane(d) /\ SameDomain(d, held[c])
  BY <1>1, <1>4 DEF Sane, SameDomain, chosen
<1>6. QED
  BY <1>1, <1>4, <1>5 DEF Writable, d

LEMMA NextInv == IInv /\ [Next]_vars => IInv'
<1> SUFFICES ASSUME IInv, [Next]_vars PROVE IInv'
  OBVIOUS
<1>1. ASSUME NEW c \in Client, Create(c) PROVE IInv'
  <2>1. CASE \E o \in Owner, n \in Name : CreateList(c, o, n)
    BY <2>1, CreateStep DEF CreateList, Begin
  <2>2. CASE CreateFind(c)
    BY <2>2, CreateStep, RefuseStep DEF CreateFind
  <2>3. CASE CreateSave(c)
    BY <2>3, WritableVersions, SaveStep DEF CreateSave
  <2>4. QED
    BY <1>1, <2>1, <2>2, <2>3 DEF Create
<1>2. ASSUME NEW c \in Client, OwnerRequest(c) PROVE IInv'
  <2>1. CASE \E o \in Owner, n \in Name : VerifyLookup(c, o, n)
    BY <2>1, LookupStep DEF VerifyLookup, OwnerLookup, HoldingSteps
  <2>2. CASE \E o \in Owner, n \in Name : ConfigureSSLLookup(c, o, n)
    BY <2>2, LookupStep DEF ConfigureSSLLookup, OwnerLookup, HoldingSteps
  <2>3. CASE VerifySave(c)
    BY <2>3, WritableVersions, SaveStep DEF VerifySave
  <2>4. CASE ConfigureSSLSave(c)
    BY <2>4, WritableSSL, SaveStep DEF ConfigureSSLSave
  <2>5. QED
    BY <1>2, <2>1, <2>2, <2>3, <2>4 DEF OwnerRequest
<1>3. ASSUME NEW c \in Client, AdminRequest(c) PROVE IInv'
  <2>1. ASSUME NEW n \in Name,
               SuspendLookup(c, n) \/ UnsuspendLookup(c, n) \/ RenewSSLLookup(c, n)
                 \/ DeleteLookup(c, n)
        PROVE  IInv'
    BY <2>1, LookupStep DEF SuspendLookup, UnsuspendLookup, RenewSSLLookup, DeleteLookup,
                            HoldingSteps
  <2>2. CASE SuspendSave(c)
    BY <2>2, WritableVersions, SaveStep DEF SuspendSave
  <2>3. CASE UnsuspendSave(c)
    BY <2>3, WritableVersions, SaveStep DEF UnsuspendSave
  <2>4. CASE RenewSSLSave(c)
    BY <2>4, WritableVersions, SaveStep DEF RenewSSLSave
  <2>5. CASE Delete(c)
    BY <2>5, DeleteStep
  <2>6. QED
    BY <1>3, <2>1, <2>2, <2>3, <2>4, <2>5 DEF AdminRequest
<1>4. CASE UNCHANGED vars
  BY <1>4 DEF vars, store, IInv, TypeOK, IndexSound, HeldInv, StoredInv, AgreeInv, InHand
<1>5. QED
  BY <1>1, <1>2, <1>3, <1>4 DEF Next

\* The inductive invariant of the domain service.
THEOREM Invariance == Spec => []IInv
BY InitInv, NextInv, PTL DEF Spec

-----------------------------------------------------------------------------
(***************************************************************************)
(* Theorems: the invariants TLC checks on small instances, for all of them.*)
(***************************************************************************)

\* The tables of the store and the requests always have their types.
THEOREM TypeCorrect == Spec => []TypeOK
<1>1. IInv => TypeOK
  BY DEF IInv
<1>2. QED
  BY Invariance, <1>1, PTL

\* The name index never dangles and never names another domain, however many
\* requests write back however stale records.
THEOREM IndexIsSound == Spec => []IndexSound
<1>1. IInv => IndexSound
  BY DEF IInv
<1>2. QED
  BY Invariance, <1>1, PTL

\* No interleaving makes a record active that was not verified.
THEOREM ActiveIsVerified == Spec => []ActiveOnlyIfVerified
<1>1. IInv => ActiveOnlyIfVerified
  BY DEF IInv, StoredInv, HeldInv, InHand, HoldingSteps, ActiveOnlyIfVerified, Copies, Sane
<1>2. QED
  BY Invariance, <1>1, PTL

\* No interleaving configures TLS for a domain that never was verified, or a
\* dns-01 challenge without a provider.
THEOREM SSLIsVerified == Spec => []SSLNeedsVerification
<1>1. IInv => SSLNeedsVerification
  BY DEF IInv, StoredInv, HeldInv, InHand, HoldingSteps, SSLNeedsVerification, Copies, Sane
<1>2. QED
  BY Invariance, <1>1, PTL

\* An ID keeps its owner and its name in every copy there is of its record.
THEOREM DomainsKeepIdentity == Spec => []CopiesAgree
<1>1. IInv => CopiesAgree
  BY DEF IInv, TypeOK, AgreeInv, InHand, CopiesAgree, Copies, SameDomain
<1>2. QED
  BY Invariance, <1>1, PTL

-----------------------------------------------------------------------------
(***************************************************************************)
(* A record that is deleted and in nobody's hands.                         *)
(***************************************************************************)

\* A save stores the record the request holds, or a new one under a new ID.
LEMMA SettledSave ==
  ASSUME IInv, NEW c \in Client, NEW d, Writable(c, d), SaveCustomDomain(d), Return(c),
         NEW id \in Gone, HoldersOf(id) = {}
  PROVE  id \in Gone' /\ HoldersOf(id)' = {}
<1>1. id \in 1..(nextDomainID - 1) /\ nextDomainID \in Nat /\ d.id # id
  BY DEF Gone, HoldersOf, Writable, IInv, TypeOK
<1>2. /\ DOMAIN domainsByID' = DOMAIN domainsByID \cup {IF d.id = 0 THEN nextDomainID ELSE d.id}
      /\ nextDomainID' = IF d.id = 0 THEN nextDomainID + 1 ELSE nextDomainID
  BY DEF SaveCustomDomain, Put, Writable, Domain
<1>3. id \in Gone'
  BY <1>1, <1>2 DEF Gone
<1>4. HoldersOf(id)' = {}
  BY ReturnStep DEF IInv, HoldersOf, InHand, HoldingSteps
<1>5. QED
  BY <1>3, <1>4

\* A lookup takes a stored record into the hands, so not this one.
LEMMA SettledLookup ==
  ASSUME IInv, NEW c \in Client, NEW step \in HoldingSteps, NEW n \in Name,
         Lookup(c, step, n), NEW id \in Gone, HoldersOf(id) = {}
  PROVE  id \in Gone' /\ HoldersOf(id)' = {}
<1>1. PICK i \in DOMAIN domainsByID :
        FindCustomDomainByDomain(n) = domainsByID[i] /\ domainsByID[i].id = i
  BY FindStored DEF Lookup
<1>2. /\ held'[c].id = i /\ i # id
      /\ \A k \in Client \ {c} : pc'[k] = pc[k] /\ held'[k] = held[k]
      /\ UNCHANGED <<domainsByID, nextDomainID>>
  BY <1>1 DEF Lookup, Begin, store, IInv, TypeOK, Gone
<1>3. QED
  BY <1>2 DEF Gone, HoldersOf, InHand

LEMMA SettledStep ==
  ASSUME IInv, [Next]_vars, NEW id \in Gone, HoldersOf(id) = {}
  PROVE  id \in Gone' /\ HoldersOf(id)' = {}
<1>1. ASSUME NEW c \in Client, Create(c)
      PROVE  id \in Gone' /\ HoldersOf(id)' = {}
  <2>1. CASE \E o \in Owner, n \in Name : CreateList(c, o, n)
    <3>1. /\ pc'[c] = "createFind" /\ UNCHANGED <<domainsByID, nextDomainID>>
          /\ \A k \in Client \ {c} : pc'[k] = pc[k] /\ held'[k] = held[k]
      BY <2>1 DEF CreateList, Begin, store, IInv, TypeOK
    <3>2. QED
      BY <3>1 DEF Gone, HoldersOf, InHand, HoldingSteps
  <2>2. CASE CreateFind(c)
    <3>1. /\ pc'[c] \in {"idle", "createSave"} /\ UNCHANGED <<domainsByID, nextDomainID>>
          /\ \A k \in Client \ {c} : pc'[k] = pc[k] /\ held'[k] = held[k]
      BY <2>2, ReturnStep DEF CreateFind, store, IInv, TypeOK
    <3>2. QED
      BY <3>1 DEF Gone, HoldersOf, InHand, HoldingSteps
  <2>3. CASE CreateSave(c)
    BY <2>3, WritableVersions, SettledSave DEF CreateSave
  <2>4. QED
    BY <1>1, <2>1, <2>2, <2>3 DEF Create
<1>2. ASSUME NEW c \in Client, OwnerRequest(c)
      PROVE  id \in Gone' /\ HoldersOf(id)' = {}
  <2>1. CASE \E o \in Owner, n \in Name : VerifyLookup(c, o, n) \/ ConfigureSSLLookup(c, o, n)
    BY <2>1, SettledLookup DEF VerifyLookup, ConfigureSSLLookup, OwnerLookup, HoldingSteps
  <2>2. CASE VerifySave(c)
    BY <2>2, WritableVersions, SettledSave DEF VerifySave
  <2>3. CASE ConfigureSSLSave(c)
    BY <2>3, WritableSSL, SettledSave DEF ConfigureSSLSave
  <2>4. QED
    BY <1>2, <2>1, <2>2, <2>3 DEF OwnerRequest
<1>3. ASSUME NEW c \in Client, AdminRequest(c)
      PROVE  id \in Gone' /\ HoldersOf(id)' = {}
  <2>1. ASSUME NEW n \in Name,
               SuspendLookup(c, n) \/ UnsuspendLookup(c, n) \/ RenewSSLLookup(c, n)
                 \/ DeleteLookup(c, n)
        PROVE  id \in Gone' /\ HoldersOf(id)' = {}
    BY <2>1, SettledLookup DEF SuspendLookup, UnsuspendLookup, RenewSSLLookup, DeleteLookup,
                               HoldingSteps
  <2>2. CASE SuspendSave(c)
    BY <2>2, WritableVersions, SettledSave DEF SuspendSave
  <2>3. CASE UnsuspendSave(c)
    BY <2>3, WritableVersions, SettledSave DEF UnsuspendSave
  <2>4. CASE RenewSSLSave(c)
    BY <2>4, WritableVersions, SettledSave DEF RenewSSLSave
  <2>5. CASE Delete(c)
    <3>1. /\ DOMAIN domainsByID' \subseteq DOMAIN domainsByID
          /\ nextDomainID' = nextDomainID
      BY <2>5 DEF Delete, DeleteCustomDomainByID, Drop, Restrict, store
    <3>2. /\ pc'[c] = "idle"
          /\ \A k \in Client \ {c} : pc'[k] = pc[k] /\ held'[k] = held[k]
      BY <2>5, ReturnStep DEF Delete, IInv
    <3>3. QED
      BY <3>1, <3>2 DEF Gone, HoldersOf, InHand, HoldingSteps
  <2>6. QED
    BY <1>3, <2>1, <2>2, <2>3, <2>4, <2>5 DEF AdminRequest
<1>4. CASE UNCHANGED vars
  BY <1>4 DEF vars, store, Gone, HoldersOf, InHand
<1>5. QED
  BY <1>1, <1>2, <1>3, <1>4 DEF Next

\* Whatever requests overlap, a deletion is final once nobody holds a copy.
THEOREM DeletionSettles == Spec => SettledStaysDeleted
<1>1. IInv /\ [Next]_vars =>
        [\A id \in Gone : HoldersOf(id) = {} => id \in Gone' /\ HoldersOf(id)' = {}]_vars
  BY SettledStep
<1>2. QED
  BY <1>1, Invariance, PTL DEF Spec, SettledStaysDeleted

-----------------------------------------------------------------------------
(***************************************************************************)
(* How far racing requests overshoot a limit.  A request can add to an     *)
(* owner's records in two ways: it is past the limit check of a create, or *)
(* it holds a record that may have been deleted meanwhile and writes it    *)
(* back.  Counting both kinds as if they were written already gives a      *)
(* number that only CreateList increases, and CreateList has seen fewer    *)
(* records than the limit while at most one per request is outstanding.    *)
(***************************************************************************)

Creating(o) == {c \in Client : pc[c] \in CreateSteps /\ held[c].owner = o}
Holding(o) == {c \in Client : InHand(c) /\ held[c].owner = o}
HeldIDs(o) == {held[c].id : c \in Holding(o)}
Claimed(o) == OwnedIDs(o) \cup HeldIDs(o)

ClaimBound(o) ==
  Cardinality(Claimed(o)) + Cardinality(Creating(o)) <= Limit[o] + Cardinality(Client) - 1

BoundInv == \A o \in Owner : Limit[o] > 0 => ClaimBound(o)

LEMMA ClaimsFinite ==
  ASSUME IInv, NEW o
  PROVE  /\ IsFiniteSet(Claimed(o)) /\ IsFiniteSet(OwnedIDs(o)) /\ IsFiniteSet(HeldIDs(o))
         /\ IsFiniteSet(Creating(o)) /\ IsFiniteSet(Holding(o))
         /\ Claimed(o) \subseteq 1..(nextDomainID - 1)
<1>1. Claimed(o) \subseteq 1..(nextDomainID - 1)
  BY DEF IInv, TypeOK, HeldInv, Claimed, OwnedIDs, HeldIDs, Holding
<1>2. IsFiniteSet(1..(nextDomainID - 1))
  BY FS_Interval DEF IInv, TypeOK
<1>3. OwnedIDs(o) \subseteq Claimed(o) /\ HeldIDs(o) \subseteq Claimed(o)
  BY DEF Claimed
<1>4. IsFiniteSet(Claimed(o)) /\ IsFiniteSet(OwnedIDs(o)) /\ IsFiniteSet(HeldIDs(o))
  BY <1>1, <1>2, <1>3, FS_Subset
<1>5. Creating(o) \in SUBSET Client /\ Holding(o) \in SUBSET Client
  BY DEF Creating, Holding
<1>6. QED
  BY <1>1, <1>4, <1>5, FS_Subset, ConstantsAssumption

\* The bound survives every step that claims nothing new.
LEMMA ClaimsShrink ==
  ASSUME IInv, IInv', NEW o \in Owner, ClaimBound(o), Limit[o] > 0,
         Claimed(o)' \subseteq Claimed(o), Creating(o)' \subseteq Creating(o)
  PROVE  ClaimBound(o)'
<1>1. Cardinality(Claimed(o)') <= Cardinality(Claimed(o))
  BY ClaimsFinite, FS_Subset
<1>2. Cardinality(Creating(o)') <= Cardinality(Creating(o))
  BY ClaimsFinite, FS_Subset
<1>3. /\ Cardinality(Claimed(o)) \in Nat /\ Cardinality(Creating(o)) \in Nat
      /\ Cardinality(Claimed(o)') \in Nat /\ Cardinality(Creating(o)') \in Nat
      /\ Cardinality(Client) \in Nat
  <2>1. /\ IsFiniteSet(Claimed(o)) /\ IsFiniteSet(Creating(o))
        /\ IsFiniteSet(Claimed(o)') /\ IsFiniteSet(Creating(o)')
    BY ClaimsFinite, FS_Subset
  <2>2. QED
    BY <2>1, FS_CardinalityType, ConstantsAssumption
<1>4. QED
  BY <1>1, <1>2, <1>3, ConstantsAssumption DEF ClaimBound

\* No more IDs are held than requests hold one.
LEMMA FewHeldIDs ==
  ASSUME IInv, NEW o
  PROVE  /\ Cardinality(HeldIDs(o)) <= Cardinality(Holding(o))
         /\ Cardinality(HeldIDs(o)) \in Nat /\ Cardinality(Holding(o)) \in Nat
<1> DEFINE f == [c \in Holding(o) |-> held[c].id]
<1>1. f \in Surjection(Holding(o), HeldIDs(o))
  BY DEF Surjection, HeldIDs
<1>2. IsFiniteSet(Holding(o)) /\ IsFiniteSet(HeldIDs(o))
  BY ClaimsFinite
<1> HIDE DEF f
<1>3. QED
  BY <1>1, <1>2, FS_Surjection, FS_CardinalityType

LEMMA DisjointRequests ==
  ASSUME NEW S \in SUBSET Client, NEW T \in SUBSET Client, S \cap T = {}
  PROVE  /\ Cardinality(S) + Cardinality(T) <= Cardinality(Client)
         /\ Cardinality(S) \in Nat /\ Cardinality(T) \in Nat
<1>1. IsFiniteSet(S) /\ IsFiniteSet(T)
  BY FS_Subset, ConstantsAssumption
<1>2. Cardinality(S \cup T) <= Cardinality(Client)
  BY FS_Subset, ConstantsAssumption
<1>3. Cardinality(S \cup T) = Cardinality(S) + Cardinality(T) - Cardinality(S \cap T)
  BY <1>1, FS_Union
<1>4. Cardinality(S \cap T) = 0
  BY FS_EmptySet
<1>5. /\ Cardinality(S) \in Nat /\ Cardinality(T) \in Nat /\ Cardinality(Client) \in Nat
  BY <1>1, FS_CardinalityType, ConstantsAssumption
<1>6. QED
  BY <1>2, <1>3, <1>4, <1>5

LEMMA CreateListBound ==
  ASSUME IInv, IInv', BoundInv, NEW c \in Client, NEW o \in Owner, NEW n \in Name,
         CreateList(c, o, n)
  PROVE  BoundInv'
<1> SUFFICES ASSUME NEW p \in Owner, Limit[p] > 0 PROVE ClaimBound(p)'
  BY DEF BoundInv
<1>1. /\ pc[c] = "idle" /\ pc'[c] = "createFind"
      /\ held'[c] = NewDomain(o, n)
      /\ \A k \in Client \ {c} : pc'[k] = pc[k] /\ held'[k] = held[k]
      /\ UNCHANGED <<domainsByID, domainIDsByName, nextDomainID>>
  BY DEF CreateList, Begin, store, IInv, TypeOK
<1>2. OwnedIDs(p)' = OwnedIDs(p)
  BY <1>1 DEF OwnedIDs
<1>3. Holding(p)' = Holding(p) /\ HeldIDs(p)' = HeldIDs(p)
  BY <1>1 DEF Holding, HeldIDs, InHand, HoldingSteps
<1>4. CASE p # o
  <2>1. Creating(p)' = Creating(p)
    BY <1>1, <1>4 DEF Creating, NewDomain, CreateSteps
  <2>2. QED
    BY <1>2, <1>3, <2>1, ClaimsShrink DEF BoundInv, Claimed
<1>5. CASE p = o
  <2>1. Cardinality(OwnedIDs(p)) < Limit[p] /\ Limit[p] \in Nat
    BY <1>5, ConstantsAssumption DEF CreateList, HasRoom
  <2>2. /\ IsFiniteSet(OwnedIDs(p)) /\ IsFiniteSet(HeldIDs(p))
    BY ClaimsFinite
  <2>3. /\ Cardinality(OwnedIDs(p)) \in Nat
        /\ Cardinality(OwnedIDs(p) \cap HeldIDs(p)) \in Nat
        /\ Cardinality(Client) \in Nat
    BY <2>2, FS_CardinalityType, FS_Intersection, ConstantsAssumption
  <2>4. Cardinality(Claimed(p)) <= Cardinality(OwnedIDs(p)) + Cardinality(HeldIDs(p))
    BY <2>2, <2>3, FewHeldIDs, FS_Union DEF Claimed
  <2>5. Cardinality(Claimed(p)) \in Nat
    BY ClaimsFinite, FS_CardinalityType
  <2>6. /\ Cardinality(Creating(p)') + Cardinality(Holding(p)') <= Cardinality(Client)
        /\ Cardinality(Creating(p)') \in Nat
    <3>1. /\ Creating(p)' \in SUBSET Client /\ Holding(p)' \in SUBSET Client
          /\ Creating(p)' \cap Holding(p)' = {}
      BY DEF Creating, Holding, InHand, CreateSteps, HoldingSteps
    <3>2. QED
      BY <3>1, DisjointRequests
  <2>7. Claimed(p)' = Claimed(p)
    BY <1>2, <1>3 DEF Claimed
  <2>8. QED
    BY <1>3, <2>1, <2>3, <2>4, <2>5, <2>6, <2>7, FewHeldIDs DEF ClaimBound
<1>6. QED
  BY <1>4, <1>5

\* Saving a new record turns a claim into a record.
LEMMA CreateSaveBound ==
  ASSUME IInv, IInv', BoundInv, NEW c \in Client, CreateSave(c)
  PROVE  BoundInv'
<1> SUFFICES ASSUME NEW p \in Owner, Limit[p] > 0 PROVE ClaimBound(p)'
  BY DEF BoundInv
<1> DEFINE new == [held[c] EXCEPT !.id = nextDomainID]
<1>1. /\ held[c] \in Domain /\ held[c].id = 0 /\ nextDomainID \in Nat \ {0}
      /\ new.id = nextDomainID /\ new.owner = held[c].owner
  BY DEF CreateSave, IInv, TypeOK, HeldInv, CreateSteps, Domain
<1>2. domainsByID' = [k \in DOMAIN domainsByID \cup {nextDomainID} |->
                        IF k = nextDomainID THEN new ELSE domainsByID[k]]
  BY <1>1 DEF CreateSave, SaveCustomDomain, Put
<1>3. nextDomainID \notin DOMAIN domainsByID
  BY DEF IInv, TypeOK
<1>4. pc[c] = "createSave" /\ Return(c)
  BY DEF CreateSave
<1> HIDE DEF new
<1>5. Holding(p)' = Holding(p) /\ HeldIDs(p)' = HeldIDs(p)
  BY <1>4, ReturnStep DEF IInv, Holding, HeldIDs, InHand, HoldingSteps
<1>6. Creating(p)' = Creating(p) \ {c}
  BY <1>4, ReturnStep DEF IInv, Creating, CreateSteps
<1>7. CASE held[c].owner # p
  <2>1. OwnedIDs(p)' = OwnedIDs(p)
    <3>1. new.owner # p
      BY <1>1, <1>7
    <3>2. QED
      BY <1>2, <1>3, <3>1 DEF OwnedIDs
  <2>2. QED
    BY <1>5, <1>6, <2>1, ClaimsShrink DEF BoundInv, Claimed
<1>8. CASE held[c].owner = p
  <2>1. OwnedIDs(p)' = OwnedIDs(p) \cup {nextDomainID}
    <3>1. new.owner = p
      BY <1>1, <1>8
    <3>2. QED
      BY <1>2, <1>3, <3>1 DEF OwnedIDs
  <2>2. Claimed(p)' = Claimed(p) \cup {nextDomainID} /\ nextDomainID \notin Claimed(p)
    <3>1. Claimed(p)' = Claimed(p) \cup {nextDomainID}
      BY <1>5, <2>1 DEF Claimed
    <3>2. nextDomainID \notin 1..(nextDomainID - 1)
      BY <1>1
    <3>3. QED
      BY <3>1, <3>2, ClaimsFinite
  <2>3. Cardinality(Claimed(p)') = Cardinality(Claimed(p)) + 1
    BY <2>2, ClaimsFinite, FS_AddElement
  <2>4. c \in Creating(p)
    BY <1>4, <1>8 DEF Creating, CreateSteps
  <2>5. Cardinality(Creating(p)') = Cardinality(Creating(p)) - 1
    BY <1>6, <2>4, ClaimsFinite, FS_RemoveElement
  <2>6. Cardinality(Claimed(p)) \in Nat /\ Cardinality(Creating(p)) \in Nat
    BY ClaimsFinite, FS_CardinalityType
  <2>7. QED
    BY <2>3, <2>5, <2>6 DEF BoundInv, ClaimBound
<1>9. QED
  BY <1>7, <1>8

\* Writing back a held record, however stale, claims nothing new.
LEMMA WriteBackBound ==
  ASSUME IInv, IInv', BoundInv, NEW c \in Client, NEW d, InHand(c), Writable(c, d),
         d.id = held[c].id, SaveCustomDomain(d), Return(c)
  PROVE  BoundInv'
<1> SUFFICES ASSUME NEW p \in Owner, Limit[p] > 0 PROVE ClaimBound(p)'
  BY DEF BoundInv
<1>1. d.id # 0 /\ SameDomain(d, held[c])
  BY DEF IInv, TypeOK, HeldInv, Writable
<1>2. domainsByID' = [k \in DOMAIN domainsByID \cup {d.id} |->
                        IF k = d.id THEN d ELSE domainsByID[k]]
  BY <1>1 DEF SaveCustomDomain, Put
<1>3. OwnedIDs(p)' \subseteq OwnedIDs(p) \cup HeldIDs(p)
  BY <1>1, <1>2 DEF OwnedIDs, HeldIDs, Holding, SameDomain
<1>4. HeldIDs(p)' \subseteq HeldIDs(p) /\ Creating(p)' \subseteq Creating(p)
  BY ReturnStep DEF IInv, HeldIDs, Holding, Creating, InHand, HoldingSteps, CreateSteps
<1>5. QED
  BY <1>3, <1>4, ClaimsShrink DEF BoundInv, Claimed

\* Taking a record into the hands claims nothing new: it is stored.
LEMMA LookupBound ==
  ASSUME IInv, IInv', BoundInv, NEW c \in Client, NEW step \in HoldingSteps,
         NEW n \in Name, Lookup(c, step, n)
  PROVE  BoundInv'
<1> SUFFICES ASSUME NEW p \in Owner, Limit[p] > 0 PROVE ClaimBound(p)'
  BY DEF BoundInv
<1>1. PICK id \in DOMAIN domainsByID :
        FindCustomDomainByDomain(n) = domainsByID[id] /\ domainsByID[id].id = id
  BY FindStored DEF Lookup
<1>2. /\ held'[c] = domainsByID[id]
      /\ pc'[c] = step /\ pc[c] = "idle"
      /\ \A k \in Client \ {c} : pc'[k] = pc[k] /\ held'[k] = held[k]
      /\ UNCHANGED <<domainsByID, domainIDsByName, nextDomainID>>
  BY <1>1 DEF Lookup, Begin, store, IInv, TypeOK
<1>3. OwnedIDs(p)' = OwnedIDs(p)
  BY <1>2 DEF OwnedIDs
<1>4. HeldIDs(p)' \subseteq HeldIDs(p) \cup OwnedIDs(p)
  BY <1>1, <1>2 DEF HeldIDs, Holding, InHand, OwnedIDs
<1>5. Creating(p)' \subseteq Creating(p)
  BY <1>2 DEF Creating, CreateSteps, HoldingSteps
<1>6. QED
  BY <1>3, <1>4, <1>5, ClaimsShrink DEF BoundInv, Claimed

\* A request that ends without saving claims nothing new.
LEMMA EndBound ==
  ASSUME IInv, IInv', BoundInv, NEW c \in Client, Return(c),
         \/ UNCHANGED store
         \/ held[c].id \in DOMAIN domainsByID /\ DeleteCustomDomainByID(held[c].id)
  PROVE  BoundInv'
<1> SUFFICES ASSUME NEW p \in Owner, Limit[p] > 0 PROVE ClaimBound(p)'
  BY DEF BoundInv
<1>1. OwnedIDs(p)' \subseteq OwnedIDs(p)
  BY DEF OwnedIDs, DeleteCustomDomainByID, Drop, Restrict, store
<1>2. HeldIDs(p)' \subseteq HeldIDs(p) /\ Creating(p)' \subseteq Creating(p)
  BY ReturnStep DEF IInv, HeldIDs, Holding, Creating, InHand, HoldingSteps, CreateSteps
<1>3. QED
  BY <1>1, <1>2, ClaimsShrink DEF BoundInv, Claimed

LEMMA NextBound == IInv /\ IInv' /\ BoundInv /\ [Next]_vars => BoundInv'
<1> SUFFICES ASSUME IInv, IInv', BoundInv, [Next]_vars PROVE BoundInv'
  OBVIOUS
<1>1. ASSUME NEW c \in Client, Create(c) PROVE BoundInv'
  <2>1. CASE \E o \in Owner, n \in Name : CreateList(c, o, n)
    BY <2>1, CreateListBound
  <2>2. CASE CreateFind(c)
    <3>1. CASE Return(c)
      BY <2>2, <3>1, EndBound DEF CreateFind
    <3>2. CASE pc[c] = "createFind" /\ pc' = [pc EXCEPT ![c] = "createSave"] /\ UNCHANGED held
      <4>1. \A p \in Owner : /\ OwnedIDs(p)' = OwnedIDs(p)
                              /\ HeldIDs(p)' = HeldIDs(p)
                              /\ Creating(p)' = Creating(p)
        BY <2>2, <3>2 DEF CreateFind, store, OwnedIDs, HeldIDs, Holding, Creating, InHand,
                          HoldingSteps, CreateSteps, IInv, TypeOK
      <4>2. QED
        BY <4>1, ClaimsShrink DEF BoundInv, Claimed
    <3>3. QED
      BY <2>2, <3>1, <3>2 DEF CreateFind
  <2>3. CASE CreateSave(c)
    BY <2>3, CreateSaveBound
  <2>4. QED
    BY <1>1, <2>1, <2>2, <2>3 DEF Create
<1>2. ASSUME NEW c \in Client, OwnerRequest(c) PROVE BoundInv'
  <2>1. CASE \E o \in Owner, n \in Name : VerifyLookup(c, o, n) \/ ConfigureSSLLookup(c, o, n)
    BY <2>1, LookupBound DEF VerifyLookup, ConfigureSSLLookup, OwnerLookup, HoldingSteps
  <2>2. CASE VerifySave(c)
    <3>1. /\ Verified(held[c]).id = held[c].id
          /\ VerifyFailed(held[c]).id = held[c].id
          /\ InHand(c)
      BY <2>2 DEF VerifySave, IInv, HeldInv, InHand, HoldingSteps, Verified, VerifyFailed, Domain
    <3>2. QED
      BY <2>2, <3>1, WritableVersions, WriteBackBound DEF VerifySave
  <2>3. CASE ConfigureSSLSave(c)
    <3>1. PICK challenge \in RequestedChallenge, provider \in BOOLEAN :
            /\ ChosenChallenge(held[c], challenge) = "dns-01" => provider
            /\ SaveCustomDomain(SSLConfigured(held[c], challenge, provider))
      BY <2>3 DEF ConfigureSSLSave
    <3>2. SSLConfigured(held[c], challenge, provider).id = held[c].id /\ InHand(c)
      BY <2>3 DEF ConfigureSSLSave, IInv, HeldInv, InHand, HoldingSteps, SSLConfigured, Domain
    <3>3. QED
      BY <2>3, <3>1, <3>2, WritableSSL, WriteBackBound DEF ConfigureSSLSave
  <2>4. QED
    BY <1>2, <2>1, <2>2, <2>3 DEF OwnerRequest
<1>3. ASSUME NEW c \in Client, AdminRequest(c) PROVE BoundInv'
  <2>1. ASSUME NEW n \in Name,
               SuspendLookup(c, n) \/ UnsuspendLookup(c, n) \/ RenewSSLLookup(c, n)
                 \/ DeleteLookup(c, n)
        PROVE  BoundInv'
    BY <2>1, LookupBound DEF SuspendLookup, UnsuspendLookup, RenewSSLLookup, DeleteLookup,
                             HoldingSteps
  <2>2. CASE SuspendSave(c)
    <3>1. Suspended(held[c]).id = held[c].id /\ InHand(c)
      BY <2>2 DEF SuspendSave, IInv, HeldInv, InHand, HoldingSteps, Suspended, Domain
    <3>2. QED
      BY <2>2, <3>1, WritableVersions, WriteBackBound DEF SuspendSave
  <2>3. CASE UnsuspendSave(c)
    <3>1. Unsuspended(held[c]).id = held[c].id /\ InHand(c)
      BY <2>3 DEF UnsuspendSave, IInv, HeldInv, InHand, HoldingSteps, Unsuspended, Domain
    <3>2. QED
      BY <2>3, <3>1, WritableVersions, WriteBackBound DEF UnsuspendSave
  <2>4. CASE RenewSSLSave(c)
    BY <2>4, WritableVersions, WriteBackBound DEF RenewSSLSave, InHand, HoldingSteps
  <2>5. CASE Delete(c)
    BY <2>5, EndBound DEF Delete
  <2>6. QED
    BY <1>3, <2>1, <2>2, <2>3, <2>4, <2>5 DEF AdminRequest
<1>4. CASE UNCHANGED vars
  <2>1. \A p \in Owner : Claimed(p)' = Claimed(p) /\ Creating(p)' = Creating(p)
    BY <1>4 DEF vars, store, Claimed, OwnedIDs, HeldIDs, Holding, Creating, InHand
  <2>2. QED
    BY <2>1, ClaimsShrink DEF BoundInv
<1>5. QED
  BY <1>1, <1>2, <1>3, <1>4 DEF Next

LEMMA InitBound == Init => BoundInv
<1> SUFFICES ASSUME Init, NEW p \in Owner, Limit[p] > 0 PROVE ClaimBound(p)
  BY DEF BoundInv
<1>1. Claimed(p) = {} /\ Creating(p) = {}
  BY DEF Init, EmptyMap, Claimed, OwnedIDs, HeldIDs, Holding, Creating, InHand,
         HoldingSteps, CreateSteps
<1>2. Cardinality(Claimed(p)) = 0 /\ Cardinality(Creating(p)) = 0
  BY <1>1, FS_EmptySet
<1>3. Limit[p] \in Nat /\ Cardinality(Client) \in Nat
  BY FS_CardinalityType, ConstantsAssumption
<1>4. QED
  BY <1>2, <1>3 DEF ClaimBound

\* Racing requests overshoot an owner's limit by at most one record for each
\* request but one.
THEOREM OvershootIsBounded == Spec => []OvershootBounded
<1>1. Spec => []BoundInv
  BY InitBound, NextBound, Invariance, PTL DEF Spec
<1>2. IInv /\ BoundInv => OvershootBounded
  <2> SUFFICES ASSUME IInv, BoundInv, NEW o \in Owner, Limit[o] > 0
               PROVE  Cardinality(OwnedIDs(o)) <= Limit[o] + Cardinality(Client) - 1
    BY DEF OvershootBounded
  <2>1. Cardinality(OwnedIDs(o)) <= Cardinality(Claimed(o))
    BY ClaimsFinite, FS_Subset DEF Claimed
  <2>2. /\ Cardinality(OwnedIDs(o)) \in Nat /\ Cardinality(Claimed(o)) \in Nat
        /\ Cardinality(Creating(o)) \in Nat /\ Cardinality(Client) \in Nat
        /\ Limit[o] \in Nat
    BY ClaimsFinite, FS_CardinalityType, ConstantsAssumption
  <2>3. QED
    BY <2>1, <2>2 DEF BoundInv, ClaimBound
<1>3. QED
  BY <1>1, <1>2, Invariance, PTL

-----------------------------------------------------------------------------
(***************************************************************************)
(* Requests that run one at a time.  What a request learned when it read   *)
(* is still so when it writes: the name it found free is free, the record  *)
(* it holds is stored.                                                     *)
(***************************************************************************)

OneAtATime == \A c, k \in Client : c = k

FreshInv ==
  \A c \in Client :
    /\ pc[c] = "createSave" => held[c].name \notin DOMAIN domainIDsByName
    /\ InHand(c) => held[c].id \in DOMAIN domainsByID

SerialInv == EveryRecordReachable /\ FreshInv

NothingReturns ==
  \A id \in 1..(nextDomainID - 1) : id \in DOMAIN domainsByID' => id \in DOMAIN domainsByID

LEMMA SerialSave ==
  ASSUME IInv, SerialInv, OneAtATime, NEW c \in Client, NEW d, Writable(c, d),
         d.id = 0 => d.name \notin DOMAIN domainIDsByName,
         SaveCustomDomain(d), Return(c)
  PROVE  SerialInv' /\ NothingReturns
<1> DEFINE saved == IF d.id = 0 THEN [d EXCEPT !.id = nextDomainID] ELSE d
<1>1. /\ domainsByID' = [k \in DOMAIN domainsByID \cup {saved.id} |->
                           IF k = saved.id THEN saved ELSE domainsByID[k]]
      /\ domainIDsByName' = [k \in DOMAIN domainIDsByName \cup {saved.name} |->
                               IF k = saved.name THEN saved.id ELSE domainIDsByName[k]]
  BY DEF SaveCustomDomain, Put
<1>2. CASE d.id = 0
  <2>1. saved.id = nextDomainID /\ saved.name \notin DOMAIN domainIDsByName
    BY <1>2 DEF Writable, Domain
  <2>2. saved.id \notin 1..(nextDomainID - 1)
    BY <2>1 DEF IInv, TypeOK
  <2> HIDE DEF saved
  <2>3. EveryRecordReachable'
    BY <1>1, <2>1, <2>2 DEF SerialInv, EveryRecordReachable, IInv, TypeOK
  <2>4. NothingReturns
    BY <1>1, <2>2 DEF NothingReturns
  <2>5. QED
    BY <2>3, <2>4, ReturnStep DEF SerialInv, FreshInv, OneAtATime, InHand, HoldingSteps, IInv
<1>3. CASE d.id # 0
  <2>1. /\ saved.id \in DOMAIN domainsByID
        /\ saved.name = domainsByID[saved.id].name
    BY <1>3 DEF Writable, SerialInv, FreshInv, IInv, AgreeInv, SameDomain
  <2>2. saved.name \in DOMAIN domainIDsByName /\ domainIDsByName[saved.name] = saved.id
    BY <2>1 DEF SerialInv, EveryRecordReachable
  <2> HIDE DEF saved
  <2>3. EveryRecordReachable' /\ NothingReturns
    BY <1>1, <2>1, <2>2 DEF SerialInv, EveryRecordReachable, NothingReturns
  <2>4. QED
    BY <2>3, ReturnStep DEF SerialInv, FreshInv, OneAtATime, InHand, HoldingSteps, IInv
<1>4. QED
  BY <1>2, <1>3

LEMMA SerialDelete ==
  ASSUME IInv, SerialInv, OneAtATime, NEW c \in Client, Delete(c)
  PROVE  SerialInv' /\ NothingReturns
<1> DEFINE id == held[c].id
<1>1. id \in DOMAIN domainsByID
  BY DEF Delete, SerialInv, FreshInv, InHand, HoldingSteps
<1>2. /\ domainsByID' = [k \in DOMAIN domainsByID \ {id} |-> domainsByID[k]]
      /\ domainIDsByName' = [k \in DOMAIN domainIDsByName \ {domainsByID[id].name} |->
                               domainIDsByName[k]]
  BY <1>1 DEF Delete, DeleteCustomDomainByID, Drop, Restrict
<1> HIDE DEF id
<1>3. EveryRecordReachable' /\ NothingReturns
  BY <1>1, <1>2 DEF SerialInv, EveryRecordReachable, NothingReturns
<1>4. QED
  BY <1>3, ReturnStep DEF Delete, SerialInv, FreshInv, OneAtATime, InHand, HoldingSteps, IInv

\* A request that begins, or goes on, leaves the tables alone.
LEMMA SerialRead ==
  ASSUME IInv, SerialInv, OneAtATime, NEW c \in Client, UNCHANGED store,
         DOMAIN held' = Client,
         pc'[c] = "createSave" => held'[c].name \notin DOMAIN domainIDsByName,
         pc'[c] \in HoldingSteps => held'[c].id \in DOMAIN domainsByID
  PROVE  SerialInv' /\ NothingReturns
BY DEF SerialInv, EveryRecordReachable, FreshInv, NothingReturns, OneAtATime, InHand, store

LEMMA SerialLookup ==
  ASSUME IInv, SerialInv, OneAtATime, NEW c \in Client, NEW step \in HoldingSteps,
         NEW n \in Name, Lookup(c, step, n)
  PROVE  SerialInv' /\ NothingReturns
<1>1. PICK id \in DOMAIN domainsByID :
        FindCustomDomainByDomain(n) = domainsByID[id] /\ domainsByID[id].id = id
  BY FindStored DEF Lookup
<1>2. /\ UNCHANGED store
      /\ DOMAIN held' = Client
      /\ pc'[c] = step
      /\ held'[c].id \in DOMAIN domainsByID
  BY <1>1 DEF Lookup, Begin, IInv, TypeOK
<1>3. step # "createSave"
  BY DEF HoldingSteps
<1>4. QED
  BY <1>2, <1>3, SerialRead

LEMMA SerialStep ==
  ASSUME IInv, SerialInv, OneAtATime, [Next]_vars
  PROVE  SerialInv' /\ NothingReturns
<1>1. ASSUME NEW c \in Client, Create(c)
      PROVE  SerialInv' /\ NothingReturns
  <2>1. CASE \E o \in Owner, n \in Name : CreateList(c, o, n)
    BY <2>1, SerialRead DEF CreateList, Begin, HoldingSteps, IInv, TypeOK
  <2>2. CASE CreateFind(c)
    BY <2>2, SerialRead DEF CreateFind, Return, HoldingSteps, IInv, TypeOK
  <2>3. CASE CreateSave(c)
    BY <2>3, WritableVersions, SerialSave DEF CreateSave, SerialInv, FreshInv
  <2>4. QED
    BY <1>1, <2>1, <2>2, <2>3 DEF Create
<1>2. ASSUME NEW c \in Client, OwnerRequest(c)
      PROVE  SerialInv' /\ NothingReturns
  <2>1. CASE \E o \in Owner, n \in Name : VerifyLookup(c, o, n) \/ ConfigureSSLLookup(c, o, n)
    BY <2>1, SerialLookup DEF VerifyLookup, ConfigureSSLLookup, OwnerLookup, HoldingSteps
  <2>2. CASE VerifySave(c)
    <3>1. held[c].id # 0
      BY <2>2 DEF VerifySave, IInv, HeldInv, InHand, HoldingSteps
    <3>2. Verified(held[c]).id = held[c].id /\ VerifyFailed(held[c]).id = held[c].id
      BY <2>2 DEF VerifySave, Verified, VerifyFailed, IInv, TypeOK, Domain
    <3>3. QED
      BY <2>2, <3>1, <3>2, WritableVersions, SerialSave DEF VerifySave
  <2>3. CASE ConfigureSSLSave(c)
    <3>1. held[c].id # 0
      BY <2>3 DEF ConfigureSSLSave, IInv, HeldInv, InHand, HoldingSteps
    <3>2. \A challenge, provider : SSLConfigured(held[c], challenge, provider).id = held[c].id
      BY <2>3 DEF ConfigureSSLSave, SSLConfigured, IInv, TypeOK, Domain
    <3>3. QED
      BY <2>3, <3>1, <3>2, WritableSSL, SerialSave DEF ConfigureSSLSave
  <2>4. QED
    BY <1>2, <2>1, <2>2, <2>3 DEF OwnerRequest
<1>3. ASSUME NEW c \in Client, AdminRequest(c)
      PROVE  SerialInv' /\ NothingReturns
  <2>1. CASE \E n \in Name : \/ SuspendLookup(c, n) \/ UnsuspendLookup(c, n)
                             \/ RenewSSLLookup(c, n) \/ DeleteLookup(c, n)
    BY <2>1, SerialLookup DEF SuspendLookup, UnsuspendLookup, RenewSSLLookup, DeleteLookup,
                              HoldingSteps
  <2>2. CASE SuspendSave(c) \/ UnsuspendSave(c) \/ RenewSSLSave(c)
    <3>1. held[c].id # 0
      BY <2>2 DEF SuspendSave, UnsuspendSave, RenewSSLSave, IInv, HeldInv, InHand, HoldingSteps
    <3>2. Suspended(held[c]).id = held[c].id /\ Unsuspended(held[c]).id = held[c].id
      BY <2>2 DEF SuspendSave, UnsuspendSave, RenewSSLSave, Suspended, Unsuspended, IInv,
                  TypeOK, Domain
    <3>3. QED
      BY <2>2, <3>1, <3>2, WritableVersions, SerialSave
      DEF SuspendSave, UnsuspendSave, RenewSSLSave
  <2>3. CASE Delete(c)
    BY <2>3, SerialDelete
  <2>4. QED
    BY <1>3, <2>1, <2>2, <2>3 DEF AdminRequest
<1>4. CASE UNCHANGED vars
  BY <1>4 DEF vars, store, SerialInv, EveryRecordReachable, FreshInv, NothingReturns, InHand
<1>5. QED
  BY <1>1, <1>2, <1>3, <1>4 DEF Next

LEMMA SerialInit == Init => SerialInv
BY DEF Init, EmptyMap, SerialInv, EveryRecordReachable, FreshInv, InHand, HoldingSteps

\* Of requests that run one at a time none leaves a record that its name does
\* not lead to: createDomain finds a name taken before it takes it again.
THEOREM SerialReachable ==
  ASSUME OneAtATime PROVE Spec => []EveryRecordReachable
<1>1. Init => SerialInv
  BY SerialInit
<1>2. IInv /\ SerialInv /\ [Next]_vars => SerialInv'
  BY SerialStep
<1>3. SerialInv => EveryRecordReachable
  BY DEF SerialInv
<1>4. QED
  BY <1>1, <1>2, <1>3, Invariance, PTL DEF Spec

\* Hosts with the same four fields are one.
LEMMA HostFields ==
  ASSUME NEW g \in Host, NEW h \in Host,
         g.name = h.name, g.rough = h.rough, g.dotted = h.dotted, g.port = h.port
  PROVE  g = h
<1>1. /\ g = [name |-> g.name, rough |-> g.rough, dotted |-> g.dotted, port |-> g.port]
      /\ h = [name |-> h.name, rough |-> h.rough, dotted |-> h.dotted, port |-> h.port]
  BY DEF Host
<1>2. QED
  BY <1>1

\* A host without its port, field by field.
LEMMA HostWithoutPort ==
  ASSUME NEW host \in Host
  PROVE  /\ WithoutPort(host) \in Host
         /\ WithoutPort(host).name = host.name
         /\ WithoutPort(host).dotted = host.dotted
         /\ WithoutPort(host).port = IF host.port = "port" THEN "none" ELSE host.port
BY DEF WithoutPort, Host

\* The normal form of the resolver, field by field.
LEMMA NormalHost ==
  ASSUME NEW host \in Host
  PROVE  /\ normalizeHost(host) \in Host
         /\ normalizeHost(host).name = host.name
         /\ normalizeHost(host).rough = FALSE
         /\ normalizeHost(host).dotted = host.dotted
         /\ normalizeHost(host).port = IF host.port = "port" THEN "none" ELSE host.port
<1> DEFINE w == WithoutPort(host)
<1>1. /\ w \in Host /\ w.name = host.name /\ w.dotted = host.dotted
      /\ w.port = IF host.port = "port" THEN "none" ELSE host.port
  BY HostWithoutPort
<1> HIDE DEF w
<1>2. LET f == [w EXCEPT !.rough = FALSE]
      IN  /\ f \in Host /\ f.name = w.name /\ f.rough = FALSE
          /\ f.dotted = w.dotted /\ f.port = w.port
  BY <1>1 DEF Host
<1>3. normalizeHost(host) = [w EXCEPT !.rough = FALSE]
  BY DEF normalizeHost, w
<1>4. QED
  BY <1>1, <1>2, <1>3

\* The normal form of the tables, field by field.
LEMMA NormalName ==
  ASSUME NEW host \in Host
  PROVE  LET f == NormalizeDomainName(host)
         IN  /\ f \in Host /\ f.name = host.name /\ f.rough = FALSE
             /\ f.dotted = (host.dotted /\ host.port # "none") /\ f.port = host.port
BY DEF NormalizeDomainName, Host

\* A name as it is stored is in the normal form of the resolver already, and
\* different names are different keys.
LEMMA StoredNames ==
  ASSUME NEW m \in Name, NEW n \in Name
  PROVE  /\ normalizeHost(Spelled(n)) = Spelled(n)
         /\ Spelled(m) = Spelled(n) => m = n
<1>1. /\ Spelled(n) \in Host /\ Spelled(n).name = n /\ Spelled(n).rough = FALSE
      /\ Spelled(n).port = "none" /\ Spelled(m).name = m
  BY HostAssumption DEF Spelled, Host
<1>2. normalizeHost(Spelled(n)) = Spelled(n)
  BY <1>1, NormalHost, HostFields, ZenonT(40)
<1>3. QED
  BY <1>1, <1>2

\* When both tables are sound and every record is reachable, a resolver has only
\* one binding to be built from, whatever order the map is walked in: the index.
LEMMA OnlyBinding ==
  ASSUME TypeOK, IndexSound, EveryRecordReachable, NEW b \in Bindings
  PROVE  /\ DOMAIN b = {Spelled(n) : n \in DOMAIN domainIDsByName}
         /\ \A n \in DOMAIN domainIDsByName :
              domainsByID[b[Spelled(n)]] = FindCustomDomainByDomain(n)
<1> DEFINE keys == {BindingKey(id) : id \in DOMAIN domainsByID}
<1>1. /\ DOMAIN b = keys
      /\ \A key \in keys : b[key] \in DOMAIN domainsByID /\ BindingKey(b[key]) = key
  BY DEF Bindings
<1>2. \A id \in DOMAIN domainsByID : BindingKey(id) = Spelled(domainsByID[id].name)
  BY StoredNames DEF BindingKey, TypeOK, Domain
<1>3. keys = {Spelled(n) : n \in DOMAIN domainIDsByName}
  BY <1>2 DEF IndexSound, EveryRecordReachable
<1>4. ASSUME NEW n \in DOMAIN domainIDsByName
      PROVE  domainsByID[b[Spelled(n)]] = FindCustomDomainByDomain(n)
  <2> DEFINE id == b[Spelled(n)]
  <2>1. id \in DOMAIN domainsByID /\ BindingKey(id) = Spelled(n)
    BY <1>1, <1>3
  <2>2. domainsByID[id].name = n
    BY <1>2, <1>4, <2>1, StoredNames DEF TypeOK, Domain
  <2>3. domainIDsByName[n] = id
    BY <2>1, <2>2 DEF EveryRecordReachable
  <2>4. QED
    BY <2>1, <2>3 DEF FindCustomDomainByDomain
<1>5. QED
  BY <1>1, <1>3, <1>4

\* The resolver takes two hosts for one exactly if a client does.
LEMMA SameKey ==
  ASSUME NEW g \in Host, NEW h \in Host
  PROVE  normalizeHost(g) = normalizeHost(h) <=> SameHost(g, h)
<1>1. g.port \in {"none", "port", "unsplit"} /\ h.port \in {"none", "port", "unsplit"}
  BY DEF Host
<1>2. (g.port = "unsplit" <=> h.port = "unsplit")
        <=> normalizeHost(g).port = normalizeHost(h).port
  BY <1>1, NormalHost
<1>3. normalizeHost(g) = normalizeHost(h)
        <=> /\ normalizeHost(g).name = normalizeHost(h).name
            /\ normalizeHost(g).dotted = normalizeHost(h).dotted
            /\ normalizeHost(g).port = normalizeHost(h).port
  <2>1. /\ normalizeHost(g) \in Host /\ normalizeHost(h) \in Host
        /\ normalizeHost(g).rough = normalizeHost(h).rough
    BY NormalHost
  <2>2. QED
    BY <2>1, HostFields
<1>4. QED
  BY <1>2, <1>3, NormalHost DEF SameHost

\* The two normal forms of a host: the index finds what the resolver finds, and
\* the names with a dot at their end as well.
LEMMA TwoNormalForms ==
  ASSUME NEW host \in Host, NEW n \in Name
  PROVE  /\ normalizeHost(host) = Spelled(n)
              <=> ~host.dotted /\ NormalizeDomainName(WithoutPort(host)) = Spelled(n)
         /\ NormalizeDomainName(WithoutPort(host)) = Spelled(n) => host.name = n
<1> DEFINE w == WithoutPort(host)
           k == normalizeHost(host)
           f == NormalizeDomainName(w)
           s == Spelled(n)
<1>1. /\ w \in Host /\ w.name = host.name /\ w.dotted = host.dotted
      /\ w.port = IF host.port = "port" THEN "none" ELSE host.port
  BY HostWithoutPort
<1>2. /\ k \in Host /\ k.name = host.name /\ k.rough = FALSE
      /\ k.dotted = host.dotted /\ k.port = w.port
  BY <1>1, NormalHost
<1>3. /\ f \in Host /\ f.name = host.name /\ f.rough = FALSE
      /\ f.dotted = (host.dotted /\ w.port # "none") /\ f.port = w.port
  <2> HIDE DEF w
  <2>1. QED
    BY <1>1, NormalName
<1>4. /\ s \in Host /\ s.name = n /\ s.rough = FALSE
      /\ s.dotted = FALSE /\ s.port = "none"
  BY HostAssumption DEF Spelled, Host
<1>5. host.dotted \in BOOLEAN
  BY DEF Host
<1> HIDE DEF w, k, f, s
<1>6. k = s <=> host.name = n /\ ~host.dotted /\ w.port = "none"
  BY <1>2, <1>4, <1>5, HostFields
<1>7. f = s <=> host.name = n /\ w.port = "none"
  BY <1>3, <1>4, <1>5, HostFields
<1>8. QED
  BY <1>6, <1>7 DEF w, k, f, s

\* Of requests that run one at a time a resolver built between any two steps
\* sends a host where the index sends the administrator, unless the host is the
\* service's own or ends with a dot: nothing depends on the order in which the
\* records are listed, nor on how a client spells the host.
THEOREM SerialResolver ==
  ASSUME OneAtATime PROVE Spec => []ResolverFollowsIndex
<1>1. Init => SerialInv
  BY SerialInit
<1>2. IInv /\ SerialInv /\ [Next]_vars => SerialInv'
  BY SerialStep
<1>3. ASSUME IInv, SerialInv, NEW b \in Bindings, NEW host \in Host
      PROVE  Resolve(b, host) =
               LET found == {n \in DOMAIN domainIDsByName :
                               NormalizeDomainName(WithoutPort(host)) = Spelled(n)}
               IN  IF \E own \in PlatformHost : SameHost(host, own) THEN [kind |-> "platform"]
                   ELSE IF host.dotted \/ found = {} THEN [kind |-> "unknown"]
                   ELSE TenantOf(FindCustomDomainByDomain(host.name))
  <2> DEFINE found == {n \in DOMAIN domainIDsByName :
                         NormalizeDomainName(WithoutPort(host)) = Spelled(n)}
             key == normalizeHost(host)
  <2>1. key \in PlatformHostKeys <=> \E own \in PlatformHost : SameHost(host, own)
    BY SameKey, HostAssumption DEF PlatformHostKeys
  <2>2. /\ DOMAIN b = {Spelled(n) : n \in DOMAIN domainIDsByName}
        /\ \A n \in DOMAIN domainIDsByName :
             domainsByID[b[Spelled(n)]] = FindCustomDomainByDomain(n)
    BY <1>3, OnlyBinding DEF IInv, SerialInv
  <2>3. key \in DOMAIN b <=> ~host.dotted /\ found # {}
    <3>1. DOMAIN domainIDsByName \subseteq Name
      BY <1>3 DEF IInv, TypeOK
    <3>2. \A n \in DOMAIN domainIDsByName : key = Spelled(n) <=> ~host.dotted /\ n \in found
      BY <3>1, TwoNormalForms
    <3> HIDE DEF found, key
    <3>3. found \subseteq DOMAIN domainIDsByName
      BY DEF found
    <3>4. QED
      BY <2>2, <3>2, <3>3
  <2>4. ASSUME key \in DOMAIN b
        PROVE  domainsByID[b[key]] = FindCustomDomainByDomain(host.name)
    <3>1. PICK n \in DOMAIN domainIDsByName : key = Spelled(n)
      BY <2>2, <2>4
    <3>2. host.name = n
      BY <1>3, <3>1, TwoNormalForms DEF IInv, TypeOK
    <3>3. QED
      BY <2>2, <3>1, <3>2
  <2>5. QED
    BY <2>1, <2>3, <2>4 DEF Resolve
<1>4. IInv /\ SerialInv => ResolverFollowsIndex
  BY <1>3 DEF ResolverFollowsIndex
<1>5. QED
  BY <1>1, <1>2, <1>4, Invariance, PTL DEF Spec

\* Of requests that run one at a time none writes a deleted record back.
THEOREM SerialDeletion ==
  ASSUME OneAtATime PROVE Spec => DeletedStaysDeleted
<1>1. Init => SerialInv
  BY SerialInit
<1>2. IInv /\ SerialInv /\ [Next]_vars => SerialInv'
  BY SerialStep
<1>3. IInv /\ SerialInv /\ [Next]_vars
        => [\A id \in 1..(nextDomainID - 1) :
              id \in DOMAIN domainsByID' => id \in DOMAIN domainsByID]_store
  BY SerialStep DEF NothingReturns
<1>4. QED
  BY <1>1, <1>2, <1>3, Invariance, PTL DEF Spec, DeletedStaysDeleted

\* Requests that run one at a time keep every owner within its limit: N - 1
\* records too many are none for N = 1.
THEOREM SerialLimit ==
  ASSUME OneAtATime PROVE Spec => []LimitRespected
<1>1. Cardinality(Client) <= 1
  <2>1. CASE Client = {}
    BY <2>1, FS_EmptySet
  <2>2. CASE Client # {}
    <3>1. PICK c : Client = {c}
      BY <2>2 DEF OneAtATime
    <3>2. Cardinality({c}) = 1
      BY FS_Singleton
    <3>3. QED
      BY <3>1, <3>2
  <2>3. QED
    BY <2>1, <2>2
<1>2. IInv /\ OvershootBounded => LimitRespected
  <2> SUFFICES ASSUME IInv, OvershootBounded, NEW o \in Owner, Limit[o] > 0
               PROVE  Cardinality(OwnedIDs(o)) <= Limit[o]
    BY DEF LimitRespected
  <2>1. /\ Cardinality(OwnedIDs(o)) \in Nat /\ Cardinality(Client) \in Nat
        /\ Limit[o] \in Nat
    BY ClaimsFinite, FS_CardinalityType, ConstantsAssumption
  <2>2. QED
    BY <1>1, <2>1 DEF OvershootBounded
<1>3. QED
  BY <1>2, Invariance, OvershootIsBounded, PTL

-----------------------------------------------------------------------------
(***************************************************************************)
(* Refinement: requests that run one at a time keep the registry.  A       *)
(* request takes effect when it saves, and what it read is still so.       *)
(***************************************************************************)

View(d) ==
  [owner |-> d.owner, status |-> d.status, verification |-> d.verification,
   secured |-> d.sslEnabled]

Reg == [n \in DOMAIN domainIDsByName |->
         LET d == FindCustomDomainByDomain(n)
         IN  [owner |-> d.owner, status |-> d.status,
              verification |-> d.verification, secured |-> d.sslEnabled]]

MirrorInv ==
  \A c \in Client :
    /\ InHand(c) => held[c] = domainsByID[held[c].id]
    /\ pc[c] \in CreateSteps =>
         /\ HasRoom(held[c].owner)
         /\ held[c].owner \in Owner /\ held[c].name \in Name
         /\ held[c] = NewDomain(held[c].owner, held[c].name)

LEMMA RegIsView ==
  ASSUME IInv
  PROVE  Reg = [n \in DOMAIN domainIDsByName |-> View(domainsByID[domainIDsByName[n]])]
BY DEF Reg, View, FindCustomDomainByDomain, IInv, IndexSound

LEMMA MirrorStep ==
  ASSUME IInv, MirrorInv, OneAtATime, [Next]_vars
  PROVE  MirrorInv'
<1>1. CASE UNCHANGED vars
  BY <1>1 DEF vars, store, MirrorInv, InHand, HasRoom, OwnedIDs
<1>2. ASSUME NEW c \in Client, pc'[c] = "idle"
      PROVE  MirrorInv'
  BY <1>2 DEF MirrorInv, OneAtATime, InHand, HoldingSteps, CreateSteps
<1>3. ASSUME NEW c \in Client, Return(c)
      PROVE  MirrorInv'
  BY <1>2, <1>3 DEF Return, IInv, TypeOK
<1>4. ASSUME NEW c \in Client, NEW step \in HoldingSteps, NEW n \in Name, Lookup(c, step, n)
      PROVE  MirrorInv'
  <2>1. PICK id \in DOMAIN domainsByID :
          FindCustomDomainByDomain(n) = domainsByID[id] /\ domainsByID[id].id = id
    BY <1>4, FindStored DEF Lookup
  <2>2. pc'[c] = step /\ held'[c] = domainsByID[id] /\ UNCHANGED domainsByID
    BY <1>4, <2>1 DEF Lookup, Begin, store, IInv, TypeOK
  <2>3. QED
    BY <2>1, <2>2 DEF MirrorInv, OneAtATime, InHand, HoldingSteps, CreateSteps
<1>5. ASSUME NEW c \in Client, NEW o \in Owner, NEW n \in Name, CreateList(c, o, n)
      PROVE  MirrorInv'
  <2>1. /\ pc'[c] = "createFind" /\ held'[c] = NewDomain(o, n) /\ UNCHANGED domainsByID
        /\ HasRoom(o)
    BY <1>5 DEF CreateList, Begin, store, IInv, TypeOK
  <2>2. NewDomain(o, n).owner = o /\ NewDomain(o, n).name = n
    BY DEF NewDomain
  <2>3. HasRoom(o)'
    BY <2>1 DEF HasRoom, OwnedIDs
  <2>4. QED
    BY <2>1, <2>2, <2>3 DEF MirrorInv, OneAtATime, InHand, HoldingSteps
<1>6. ASSUME NEW c \in Client, CreateFind(c)
      PROVE  MirrorInv'
  <2>1. CASE held[c].name \in DOMAIN domainIDsByName
    BY <1>3, <1>6, <2>1 DEF CreateFind
  <2>2. CASE held[c].name \notin DOMAIN domainIDsByName
    <3>1. /\ pc[c] = "createFind" /\ pc'[c] = "createSave"
          /\ UNCHANGED <<held, domainsByID>>
      BY <1>6, <2>2 DEF CreateFind, store, IInv, TypeOK
    <3>2. HasRoom(held[c].owner)'
      BY <3>1 DEF MirrorInv, CreateSteps, HasRoom, OwnedIDs
    <3>3. QED
      BY <3>1, <3>2 DEF MirrorInv, OneAtATime, InHand, HoldingSteps, CreateSteps
  <2>3. QED
    BY <2>1, <2>2
<1>7. ASSUME NEW c \in Client, OwnerRequest(c)
      PROVE  MirrorInv'
  BY <1>3, <1>4, <1>7 DEF OwnerRequest, VerifyLookup, ConfigureSSLLookup, OwnerLookup,
                          HoldingSteps, VerifySave, ConfigureSSLSave
<1>8. ASSUME NEW c \in Client, AdminRequest(c)
      PROVE  MirrorInv'
  BY <1>3, <1>4, <1>8 DEF AdminRequest, SuspendLookup, UnsuspendLookup, RenewSSLLookup,
                          DeleteLookup, HoldingSteps, SuspendSave, UnsuspendSave,
                          RenewSSLSave, Delete
<1>9. ASSUME NEW c \in Client, CreateSave(c)
      PROVE  MirrorInv'
  BY <1>3, <1>9 DEF CreateSave
<1>10. QED
  BY <1>1, <1>5, <1>6, <1>7, <1>8, <1>9 DEF Next, Create

\* A request that saves another version of its record changes one entry.
LEMMA VersionSaved ==
  ASSUME IInv, IInv', SerialInv, MirrorInv, NEW c \in Client, InHand(c),
         NEW d, d.id = held[c].id, d.name = held[c].name, SaveCustomDomain(d)
  PROVE  /\ held[c].name \in DOMAIN Reg
         /\ Reg[held[c].name] = View(held[c])
         /\ Reg' = [Reg EXCEPT ![held[c].name] = View(d)]
<1> DEFINE id == held[c].id
           name == held[c].name
<1>1. /\ id \in DOMAIN domainsByID /\ id # 0
      /\ held[c] = domainsByID[id] /\ domainsByID[id].name = name
  BY DEF SerialInv, FreshInv, MirrorInv, IInv, TypeOK, HeldInv
<1>2. name \in DOMAIN domainIDsByName /\ domainIDsByName[name] = id
  BY <1>1 DEF SerialInv, EveryRecordReachable
<1>3. /\ domainsByID' = [k \in DOMAIN domainsByID \cup {id} |->
                           IF k = id THEN d ELSE domainsByID[k]]
      /\ domainIDsByName' = [k \in DOMAIN domainIDsByName \cup {name} |->
                               IF k = name THEN id ELSE domainIDsByName[k]]
  BY <1>1 DEF SaveCustomDomain, Put
<1>4. Reg' = [n \in DOMAIN domainIDsByName' |-> View(domainsByID'[domainIDsByName'[n]])]
  BY DEF Reg, View, FindCustomDomainByDomain, IInv, IndexSound
<1>5. held[c] = domainsByID[domainIDsByName[name]]
  BY <1>1, <1>2
<1> HIDE DEF id, name
<1>6. \A m \in DOMAIN domainIDsByName \ {name} :
        domainIDsByName[m] \in DOMAIN domainsByID /\ domainIDsByName[m] # id
  BY <1>1 DEF IInv, IndexSound
<1>7. /\ DOMAIN domainIDsByName' = DOMAIN domainIDsByName
      /\ domainsByID'[domainIDsByName'[name]] = d
      /\ \A m \in DOMAIN domainIDsByName \ {name} :
           domainsByID'[domainIDsByName'[m]] = domainsByID[domainIDsByName[m]]
  BY <1>2, <1>3, <1>6
<1>8. /\ name \in DOMAIN Reg
      /\ Reg[name] = View(held[c])
      /\ Reg' = [Reg EXCEPT ![name] = View(d)]
  <2>1. name \in DOMAIN Reg /\ Reg[name] = View(held[c])
    BY <1>2, <1>5, RegIsView
  <2>2. DOMAIN Reg' = DOMAIN Reg /\ Reg'[name] = View(d)
    BY <1>2, <1>4, <1>7, RegIsView
  <2>3. \A m \in DOMAIN Reg \ {name} : Reg'[m] = Reg[m]
    BY <1>4, <1>7, RegIsView
  <2>4. Reg' = [m \in DOMAIN Reg' |-> Reg'[m]]
    BY <1>4
  <2>5. Reg' = [Reg EXCEPT ![name] = View(d)]
    BY <2>1, <2>2, <2>3, <2>4
  <2>6. QED
    BY <2>1, <2>5
<1>9. QED
  BY <1>8 DEF name

LEMMA ViewFields ==
  ASSUME NEW d, d.owner \in Owner, d.status \in Status, d.verification \in Verification,
         d.sslEnabled \in BOOLEAN
  PROVE  /\ View(d) \in Registry!Entry
         /\ View(d).owner = d.owner /\ View(d).status = d.status
         /\ View(d).verification = d.verification /\ View(d).secured = d.sslEnabled
BY DEF View, Registry!Entry, Status, Verification

\* What the versions of a record look like.
LEMMA VersionViews ==
  ASSUME NEW h \in Domain
  PROVE  /\ View(Verified(h)) = [View(h) EXCEPT !.status = "active", !.verification = "verified"]
         /\ View(VerifyFailed(h)) = [View(h) EXCEPT !.status = "error", !.verification = "failed"]
         /\ View(Suspended(h)) = [View(h) EXCEPT !.status = "suspended"]
         /\ View(Unsuspended(h)) = [View(h) EXCEPT
              !.status = IF View(h).verification = "verified" THEN "active" ELSE "pending"]
         /\ \A challenge, provider :
              View(SSLConfigured(h, challenge, provider)) = [View(h) EXCEPT !.secured = TRUE]
<1>1. ASSUME NEW d, NEW status \in Status, NEW verification \in Verification,
             NEW secured \in BOOLEAN,
             d.owner = h.owner, d.status = status, d.verification = verification,
             d.sslEnabled = secured
      PROVE  /\ View(d) \in Registry!Entry /\ View(h) \in Registry!Entry
             /\ View(d).owner = View(h).owner /\ View(d).status = status
             /\ View(d).verification = verification /\ View(d).secured = secured
             /\ View(h).status = h.status /\ View(h).verification = h.verification
             /\ View(h).secured = h.sslEnabled
  BY <1>1, ViewFields DEF Domain
<1>2. h.status \in Status /\ h.verification \in Verification /\ h.sslEnabled \in BOOLEAN
  BY DEF Domain
<1>3. View(Verified(h)) = [View(h) EXCEPT !.status = "active", !.verification = "verified"]
  <2> DEFINE d == Verified(h)
  <2>1. d.owner = h.owner /\ d.status = "active" /\ d.verification = "verified"
        /\ d.sslEnabled = h.sslEnabled
    BY DEF Domain, Verified
  <2>2. "active" \in Status /\ "verified" \in Verification /\ h.sslEnabled \in BOOLEAN
    BY <1>2 DEF Status, Verification
  <2> HIDE DEF d
  <2>3. /\ View(d) \in Registry!Entry /\ View(h) \in Registry!Entry
        /\ View(d).owner = View(h).owner /\ View(d).status = "active"
        /\ View(d).verification = "verified" /\ View(d).secured = h.sslEnabled
        /\ View(h).status = h.status /\ View(h).verification = h.verification
        /\ View(h).secured = h.sslEnabled
    BY <1>1, <2>1, <2>2
  <2>4. View(d) = [View(h) EXCEPT !.status = "active", !.verification = "verified"]
    BY <2>3 DEF Registry!Entry
  <2>5. QED
    BY <2>4 DEF d
<1>4. View(VerifyFailed(h)) = [View(h) EXCEPT !.status = "error", !.verification = "failed"]
  <2> DEFINE d == VerifyFailed(h)
  <2>1. d.owner = h.owner /\ d.status = "error" /\ d.verification = "failed"
        /\ d.sslEnabled = h.sslEnabled
    BY DEF Domain, VerifyFailed
  <2>2. "error" \in Status /\ "failed" \in Verification /\ h.sslEnabled \in BOOLEAN
    BY <1>2 DEF Status, Verification
  <2> HIDE DEF d
  <2>3. /\ View(d) \in Registry!Entry /\ View(h) \in Registry!Entry
        /\ View(d).owner = View(h).owner /\ View(d).status = "error"
        /\ View(d).verification = "failed" /\ View(d).secured = h.sslEnabled
        /\ View(h).status = h.status /\ View(h).verification = h.verification
        /\ View(h).secured = h.sslEnabled
    BY <1>1, <2>1, <2>2
  <2>4. View(d) = [View(h) EXCEPT !.status = "error", !.verification = "failed"]
    BY <2>3 DEF Registry!Entry
  <2>5. QED
    BY <2>4 DEF d
<1>5. View(Suspended(h)) = [View(h) EXCEPT !.status = "suspended"]
  <2> DEFINE d == Suspended(h)
  <2>1. d.owner = h.owner /\ d.status = "suspended" /\ d.verification = h.verification
        /\ d.sslEnabled = h.sslEnabled
    BY DEF Domain, Suspended
  <2>2. "suspended" \in Status /\ h.verification \in Verification /\ h.sslEnabled \in BOOLEAN
    BY <1>2 DEF Status, Verification
  <2> HIDE DEF d
  <2>3. /\ View(d) \in Registry!Entry /\ View(h) \in Registry!Entry
        /\ View(d).owner = View(h).owner /\ View(d).status = "suspended"
        /\ View(d).verification = h.verification /\ View(d).secured = h.sslEnabled
        /\ View(h).status = h.status /\ View(h).verification = h.verification
        /\ View(h).secured = h.sslEnabled
    BY <1>1, <2>1, <2>2
  <2>4. View(d) = [View(h) EXCEPT !.status = "suspended"]
    BY <2>3 DEF Registry!Entry
  <2>5. QED
    BY <2>4 DEF d
<1>6. View(Unsuspended(h)) = [View(h) EXCEPT 
        !.status = IF View(h).verification = "verified" THEN "active" ELSE "pending"]
  <2> DEFINE d == Unsuspended(h)
  <2>1. d.owner = h.owner /\ d.status = (IF h.verification = "verified" THEN "active" ELSE "pending") /\ d.verification = h.verification
        /\ d.sslEnabled = h.sslEnabled
    BY DEF Domain, Unsuspended
  <2>2. (IF h.verification = "verified" THEN "active" ELSE "pending") \in Status /\ h.verification \in Verification /\ h.sslEnabled \in BOOLEAN
    BY <1>2 DEF Status, Verification
  <2> HIDE DEF d
  <2>3. /\ View(d) \in Registry!Entry /\ View(h) \in Registry!Entry
        /\ View(d).owner = View(h).owner /\ View(d).status = (IF h.verification = "verified" THEN "active" ELSE "pending")
        /\ View(d).verification = h.verification /\ View(d).secured = h.sslEnabled
        /\ View(h).status = h.status /\ View(h).verification = h.verification
        /\ View(h).secured = h.sslEnabled
    BY <1>1, <2>1, <2>2
  <2>4. View(d) = [View(h) EXCEPT 
        !.status = IF View(h).verification = "verified" THEN "active" ELSE "pending"]
    BY <2>3 DEF Registry!Entry
  <2>5. QED
    BY <2>4 DEF d
<1>7. ASSUME NEW challenge, NEW provider
      PROVE  View(SSLConfigured(h, challenge, provider)) = [View(h) EXCEPT !.secured = TRUE]
  <2> DEFINE d == SSLConfigured(h, challenge, provider)
  <2>1. d.owner = h.owner /\ d.status = h.status /\ d.verification = h.verification
        /\ d.sslEnabled = TRUE
    BY DEF Domain, SSLConfigured
  <2>2. h.status \in Status /\ h.verification \in Verification /\ TRUE \in BOOLEAN
    BY <1>2 DEF Status, Verification
  <2> HIDE DEF d
  <2>3. /\ View(d) \in Registry!Entry /\ View(h) \in Registry!Entry
        /\ View(d).owner = View(h).owner /\ View(d).status = h.status
        /\ View(d).verification = h.verification /\ View(d).secured = TRUE
        /\ View(h).status = h.status /\ View(h).verification = h.verification
        /\ View(h).secured = h.sslEnabled
    BY <1>1, <2>1, <2>2
  <2>4. View(d) = [View(h) EXCEPT !.secured = TRUE]
    BY <2>3 DEF Registry!Entry
  <2>5. QED
    BY <2>4 DEF d
<1>8. QED
  BY <1>3, <1>4, <1>5, <1>6, <1>7

LEMMA RegistryVerify ==
  ASSUME IInv, IInv', SerialInv, MirrorInv, NEW c \in Client, VerifySave(c)
  PROVE  \E n \in DOMAIN Reg : Registry!Verify(n)
<1>1. InHand(c) /\ held[c] \in Domain
  BY DEF VerifySave, InHand, HoldingSteps, IInv, TypeOK
<1>2. PICK d \in {Verified(held[c]), VerifyFailed(held[c])} : SaveCustomDomain(d)
  BY DEF VerifySave
<1>3. d.id = held[c].id /\ d.name = held[c].name
  BY <1>1 DEF Verified, VerifyFailed, Domain
<1>4. \/ View(d) = [View(held[c]) EXCEPT !.status = "active", !.verification = "verified"]
      \/ View(d) = [View(held[c]) EXCEPT !.status = "error", !.verification = "failed"]
  BY <1>1, VersionViews
<1>5. /\ held[c].name \in DOMAIN Reg
      /\ Reg[held[c].name] = View(held[c])
      /\ Reg' = [Reg EXCEPT ![held[c].name] = View(d)]
  BY <1>1, <1>2, <1>3, VersionSaved
<1>6. Registry!Verify(held[c].name)
  BY <1>4, <1>5 DEF Registry!Verify, Registry!Change, Reg
<1>7. QED
  BY <1>5, <1>6

LEMMA RegistrySecure ==
  ASSUME IInv, IInv', SerialInv, MirrorInv, NEW c \in Client, ConfigureSSLSave(c)
  PROVE  \E n \in DOMAIN Reg : Registry!Secure(n)
<1>1. InHand(c) /\ held[c] \in Domain /\ held[c].verification = "verified"
  BY DEF ConfigureSSLSave, InHand, HoldingSteps, IInv, TypeOK, HeldInv
<1>2. PICK challenge \in RequestedChallenge, provider \in BOOLEAN :
        SaveCustomDomain(SSLConfigured(held[c], challenge, provider))
  BY DEF ConfigureSSLSave
<1> DEFINE d == SSLConfigured(held[c], challenge, provider)
<1>3. d.id = held[c].id /\ d.name = held[c].name
  BY <1>1 DEF SSLConfigured, Domain
<1>4. View(d) = [View(held[c]) EXCEPT !.secured = TRUE]
  <2>1. \A ask, prov :
          View(SSLConfigured(held[c], ask, prov)) = [View(held[c]) EXCEPT !.secured = TRUE]
    BY <1>1, VersionViews
  <2>2. QED
    BY <2>1
<1> HIDE DEF d
<1>5. /\ held[c].name \in DOMAIN Reg
      /\ Reg[held[c].name] = View(held[c])
      /\ Reg' = [Reg EXCEPT ![held[c].name] = View(d)]
  BY <1>1, <1>2, <1>3, VersionSaved DEF d
<1>6. Reg[held[c].name].verification = "verified"
  BY <1>1, <1>5 DEF View
<1>7. Registry!Secure(held[c].name)
  BY <1>4, <1>5, <1>6 DEF Registry!Secure, Registry!Change, Reg
<1>8. QED
  BY <1>5, <1>7

LEMMA RegistrySuspend ==
  ASSUME IInv, IInv', SerialInv, MirrorInv, NEW c \in Client, SuspendSave(c)
  PROVE  \E n \in DOMAIN Reg : Registry!Suspend(n)
<1>1. InHand(c) /\ held[c] \in Domain
  BY DEF SuspendSave, InHand, HoldingSteps, IInv, TypeOK
<1> DEFINE d == Suspended(held[c])
<1>2. d.id = held[c].id /\ d.name = held[c].name
  BY <1>1 DEF Suspended, Domain
<1>3. SaveCustomDomain(d)
  BY SMTT(30) DEF SuspendSave
<1>4. View(d) = [View(held[c]) EXCEPT !.status = "suspended"]
  BY <1>1, VersionViews
<1> HIDE DEF d
<1>5. /\ held[c].name \in DOMAIN Reg
      /\ Reg[held[c].name] = View(held[c])
      /\ Reg' = [Reg EXCEPT ![held[c].name] = View(d)]
  BY <1>1, <1>2, <1>3, VersionSaved
<1>6. Registry!Suspend(held[c].name)
  BY <1>4, <1>5 DEF Registry!Suspend, Registry!Change, Reg
<1>7. QED
  BY <1>5, <1>6

LEMMA RegistryUnsuspend ==
  ASSUME IInv, IInv', SerialInv, MirrorInv, NEW c \in Client, UnsuspendSave(c)
  PROVE  \E n \in DOMAIN Reg : Registry!Unsuspend(n)
<1>1. InHand(c) /\ held[c] \in Domain
  BY DEF UnsuspendSave, InHand, HoldingSteps, IInv, TypeOK
<1> DEFINE d == Unsuspended(held[c])
<1>2. d.id = held[c].id /\ d.name = held[c].name
  BY <1>1 DEF Unsuspended, Domain
<1>3. SaveCustomDomain(d)
  BY DEF UnsuspendSave
<1>4. View(d) = [View(held[c]) EXCEPT
        !.status = IF View(held[c]).verification = "verified" THEN "active" ELSE "pending"]
  BY <1>1, VersionViews
<1> HIDE DEF d
<1>5. /\ held[c].name \in DOMAIN Reg
      /\ Reg[held[c].name] = View(held[c])
      /\ Reg' = [Reg EXCEPT ![held[c].name] = View(d)]
  BY <1>1, <1>2, <1>3, VersionSaved
<1>6. Registry!Unsuspend(held[c].name)
  BY <1>4, <1>5 DEF Registry!Unsuspend, Registry!Change, Reg
<1>7. QED
  BY <1>5, <1>6

\* A renewal saves what it read: it is not seen.
LEMMA RegistryRenew ==
  ASSUME IInv, IInv', SerialInv, MirrorInv, NEW c \in Client, RenewSSLSave(c)
  PROVE  Reg' = Reg
<1>1. InHand(c) /\ SaveCustomDomain(held[c])
  BY DEF RenewSSLSave, InHand, HoldingSteps
<1>2. /\ held[c].name \in DOMAIN Reg
      /\ Reg[held[c].name] = View(held[c])
      /\ Reg' = [Reg EXCEPT ![held[c].name] = View(held[c])]
  BY <1>1, VersionSaved
<1>3. Reg = [n \in DOMAIN Reg |-> Reg[n]]
  BY DEF Reg
<1>4. QED
  BY <1>2, <1>3

LEMMA RegistryRemove ==
  ASSUME IInv, IInv', SerialInv, MirrorInv, NEW c \in Client, Delete(c)
  PROVE  \E n \in DOMAIN Reg : Registry!Remove(n)
<1> DEFINE id == held[c].id
           name == held[c].name
<1>1. /\ id \in DOMAIN domainsByID
      /\ domainsByID[id].name = name
  BY DEF Delete, SerialInv, FreshInv, MirrorInv, InHand, HoldingSteps
<1>2. name \in DOMAIN domainIDsByName /\ domainIDsByName[name] = id
  BY <1>1 DEF SerialInv, EveryRecordReachable
<1>3. /\ domainsByID' = [k \in DOMAIN domainsByID \ {id} |-> domainsByID[k]]
      /\ domainIDsByName' = [k \in DOMAIN domainIDsByName \ {name} |-> domainIDsByName[k]]
  BY <1>1 DEF Delete, DeleteCustomDomainByID, Drop, Restrict
<1> HIDE DEF id, name
<1>4. \A m \in DOMAIN domainIDsByName \ {name} :
        domainIDsByName[m] \in DOMAIN domainsByID \ {id}
  BY <1>1 DEF IInv, IndexSound
<1>5. Reg' = [n \in DOMAIN domainIDsByName' |-> View(domainsByID'[domainIDsByName'[n]])]
  BY DEF Reg, View, FindCustomDomainByDomain, IInv, IndexSound
<1>6. DOMAIN Reg = DOMAIN domainIDsByName /\ Reg' = [n \in DOMAIN Reg \ {name} |-> Reg[n]]
  BY <1>3, <1>4, <1>5, RegIsView
<1>7. name \in DOMAIN Reg /\ Registry!Remove(name)
  BY <1>2, <1>6 DEF Registry!Remove, Registry!Drop, Registry!Restrict, Reg
<1>8. QED
  BY <1>7

\* An owner has no more names than records.
LEMMA FewNames ==
  ASSUME IInv, NEW o \in Owner
  PROVE  /\ Cardinality(Registry!OwnedBy(o)) <= Cardinality(OwnedIDs(o))
         /\ Cardinality(Registry!OwnedBy(o)) \in Nat /\ Cardinality(OwnedIDs(o)) \in Nat
<1> DEFINE names == {n \in DOMAIN domainIDsByName : domainsByID[domainIDsByName[n]].owner = o}
           f == [n \in names |-> domainIDsByName[n]]
<1>1. Registry!OwnedBy(o) = names
  <2>1. Registry!OwnedBy(o) = {n \in DOMAIN Reg : Reg[n].owner = o}
    BY DEF Registry!OwnedBy, Registry!Registered, Reg
  <2>2. DOMAIN Reg = DOMAIN domainIDsByName
    BY DEF Reg
  <2>3. \A n \in DOMAIN Reg : Reg[n].owner = domainsByID[domainIDsByName[n]].owner
    BY RegIsView DEF View
  <2>4. QED
    BY <2>1, <2>2, <2>3
<1>2. f \in [names -> OwnedIDs(o)]
  BY DEF IInv, IndexSound, OwnedIDs
<1>3. \A m, n \in names : f[m] = f[n] => m = n
  BY DEF IInv, IndexSound
<1> HIDE DEF f, names
<1>4. f \in Injection(names, OwnedIDs(o))
  BY <1>2, <1>3 DEF Injection, IsInjective
<1>5. IsFiniteSet(OwnedIDs(o))
  BY ClaimsFinite
<1>6. IsFiniteSet(names) /\ Cardinality(names) <= Cardinality(OwnedIDs(o))
  BY <1>4, <1>5, FS_Injection
<1>7. QED
  BY <1>1, <1>5, <1>6, FS_CardinalityType

LEMMA RegistryRegister ==
  ASSUME IInv, IInv', SerialInv, MirrorInv, NEW c \in Client, CreateSave(c)
  PROVE  \E n \in Name, o \in Owner : Registry!Register(n, o)
<1> DEFINE n == held[c].name
           o == held[c].owner
           d == [held[c] EXCEPT !.id = nextDomainID]
<1>1. /\ n \notin DOMAIN domainIDsByName /\ n \in Name /\ o \in Owner
      /\ HasRoom(o)
      /\ held[c] = NewDomain(o, n) /\ held[c] \in Domain /\ held[c].id = 0
  BY DEF CreateSave, SerialInv, FreshInv, MirrorInv, CreateSteps, IInv, TypeOK, HeldInv
<1>2. /\ held[c].status = "pending" /\ held[c].verification = "pending"
      /\ held[c].sslEnabled = FALSE
  BY <1>1 DEF NewDomain
<1>3. d.id = nextDomainID /\ d.name = n /\ d.owner = o /\ d.status = "pending"
      /\ d.verification = "pending" /\ d.sslEnabled = FALSE
  BY <1>1, <1>2 DEF Domain
<1>4. /\ domainsByID' = [k \in DOMAIN domainsByID \cup {d.id} |->
                           IF k = d.id THEN d ELSE domainsByID[k]]
      /\ domainIDsByName' = [k \in DOMAIN domainIDsByName \cup {d.name} |->
                               IF k = d.name THEN d.id ELSE domainIDsByName[k]]
  BY <1>1 DEF CreateSave, SaveCustomDomain, Put
<1> HIDE DEF n, o, d
<1>5. d.id \notin DOMAIN domainsByID
  BY <1>3 DEF IInv, TypeOK
<1>6. Reg' = [m \in DOMAIN domainIDsByName' |-> View(domainsByID'[domainIDsByName'[m]])]
  BY DEF Reg, View, FindCustomDomainByDomain, IInv, IndexSound
<1>7. \A m \in DOMAIN domainIDsByName : m # n /\ domainIDsByName[m] \in DOMAIN domainsByID
  BY <1>1 DEF IInv, IndexSound
<1>8. DOMAIN Reg = DOMAIN domainIDsByName
      /\ Reg' = [m \in DOMAIN Reg \cup {n} |-> IF m = n THEN View(d) ELSE Reg[m]]
  BY <1>3, <1>4, <1>5, <1>6, <1>7, RegIsView
<1>9. View(d) = [owner |-> o, status |-> "pending", verification |-> "pending",
                 secured |-> FALSE]
  BY <1>3 DEF View
<1>10. Limit[o] > 0 => Cardinality(Registry!OwnedBy(o)) < Limit[o]
  BY <1>1, FewNames, ConstantsAssumption DEF HasRoom
<1>11. \A S : Registry!Cardinality(S) = Cardinality(S)
  BY DEF Registry!Cardinality, Cardinality
<1>12. Registry!Register(n, o)
  <2>1. n \notin DOMAIN Reg
    BY <1>1, <1>8
  <2>2. Reg' = [m \in DOMAIN Reg \cup {n} |->
                 IF m = n THEN [owner |-> o, status |-> "pending",
                                verification |-> "pending", secured |-> FALSE]
                 ELSE Reg[m]]
    BY <1>8, <1>9
  <2>3. Reg' = Registry!Put(Reg, n, [owner |-> o, status |-> "pending",
                                     verification |-> "pending", secured |-> FALSE])
    BY <2>2 DEF Registry!Put
  <2>4. QED
    BY <1>10, <1>11, <2>1, <2>3 DEF Registry!Register, Registry!Registered, Reg
<1>13. QED
  BY <1>1, <1>12

LEMMA RegistryStep ==
  ASSUME IInv, IInv', SerialInv, MirrorInv, OneAtATime, [Next]_vars
  PROVE  [Registry!Next]_Reg
<1>1. ASSUME UNCHANGED store
      PROVE  Reg' = Reg
  BY <1>1 DEF store, Reg, FindCustomDomainByDomain
<1>2. ASSUME NEW c \in Client, Create(c)
      PROVE  [Registry!Next]_Reg
  <2>1. CASE CreateSave(c)
    BY <2>1, RegistryRegister DEF Registry!Next
  <2>2. CASE ~CreateSave(c)
    BY <1>1, <1>2, <2>2 DEF Create, CreateList, CreateFind, Begin
  <2>3. QED
    BY <2>1, <2>2
<1>3. ASSUME NEW c \in Client, OwnerRequest(c)
      PROVE  [Registry!Next]_Reg
  <2>1. CASE \E o \in Owner, n \in Name : VerifyLookup(c, o, n) \/ ConfigureSSLLookup(c, o, n)
    BY <1>1, <2>1 DEF VerifyLookup, ConfigureSSLLookup, OwnerLookup, Lookup, Begin
  <2>2. CASE VerifySave(c)
    BY <2>2, RegistryVerify DEF Registry!Next, Registry!Registered, Reg
  <2>3. CASE ConfigureSSLSave(c)
    BY <2>3, RegistrySecure DEF Registry!Next, Registry!Registered, Reg
  <2>4. QED
    BY <1>3, <2>1, <2>2, <2>3 DEF OwnerRequest
<1>4. ASSUME NEW c \in Client, AdminRequest(c)
      PROVE  [Registry!Next]_Reg
  <2>1. CASE \E n \in Name : \/ SuspendLookup(c, n) \/ UnsuspendLookup(c, n)
                             \/ RenewSSLLookup(c, n) \/ DeleteLookup(c, n)
    BY <1>1, <2>1 DEF SuspendLookup, UnsuspendLookup, RenewSSLLookup, DeleteLookup, Lookup,
                      Begin
  <2>2. CASE SuspendSave(c)
    BY <2>2, RegistrySuspend DEF Registry!Next, Registry!Registered, Reg
  <2>3. CASE UnsuspendSave(c)
    BY <2>3, RegistryUnsuspend DEF Registry!Next, Registry!Registered, Reg
  <2>4. CASE RenewSSLSave(c)
    BY <2>4, RegistryRenew
  <2>5. CASE Delete(c)
    BY <2>5, RegistryRemove DEF Registry!Next, Registry!Registered, Reg
  <2>6. QED
    BY <1>4, <2>1, <2>2, <2>3, <2>4, <2>5 DEF AdminRequest
<1>5. CASE UNCHANGED vars
  BY <1>1, <1>5 DEF vars
<1>6. QED
  BY <1>2, <1>3, <1>4, <1>5 DEF Next

\* Requests that run one at a time are, to their callers, the registry: every
\* operation acts at once on the entry its name has at that moment.
THEOREM SerialKeepsRegistry ==
  ASSUME OneAtATime PROVE Spec => ImplementsRegistry
<1>1. Init => SerialInv
  BY SerialInit
<1>2. IInv /\ SerialInv /\ [Next]_vars => SerialInv'
  BY SerialStep
<1>3. Init => MirrorInv
  BY DEF Init, MirrorInv, InHand, HoldingSteps, CreateSteps
<1>4. IInv /\ MirrorInv /\ [Next]_vars => MirrorInv'
  BY MirrorStep
<1>5. Init => Registry!Init
  BY DEF Init, Registry!Init, Registry!EmptyMap, EmptyMap
<1>6. IInv /\ IInv' /\ SerialInv /\ MirrorInv /\ [Next]_vars
        => [Registry!Next]_[n \in DOMAIN domainIDsByName |->
                             LET d == FindCustomDomainByDomain(n)
                             IN  [owner |-> d.owner, status |-> d.status,
                                  verification |-> d.verification, secured |-> d.sslEnabled]]
  BY RegistryStep DEF Reg
<1>7. QED
  BY <1>1, <1>2, <1>3, <1>4, <1>5, <1>6, Invariance, PTL
  DEF Spec, ImplementsRegistry, Registry!Spec

=============================================================================
