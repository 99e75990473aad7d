------------------------- MODULE UserSettingsProofs -------------------------
(***************************************************************************)
(* Proofs about UserSettings, for any set of updates, users, extensions    *)
(* and posts, and any deployment.                                          *)
(*                                                                         *)
(* Settings fit an extension if merging them with it changes nothing and   *)
(* an update of a user with that extension accepts them.  Every update     *)
(* makes settings that fit the extension it read (MergeFits), and carries  *)
(* both to the store, so what is stored fits the extension it was saved    *)
(* with, however old that extension is.                                    *)
(***************************************************************************)
EXTENDS UserSettings, Extrema, TLAPS

Fits(s, e) == LoadContext(e, s) = s /\ Acceptable(s, e)

RequestInv == \A r \in Request : pc[r] = "save" => Fits(merged[r], held[r])

StoreInv == \A u \in DOMAIN settings : Fits(settings[u], savedWith[u].extension)

IInv == TypeOK /\ RequestInv /\ StoreInv

-----------------------------------------------------------------------------
LEMMA DefaultsTyped == DefaultSettings \in Settings
BY DEF DefaultSettings, Settings

LEMMA MergeFits ==
  ASSUME NEW p \in Settings, NEW s \in Settings, NEW e \in Extension \cup {NoExtension},
         Acceptable(p, e)
  PROVE  Merge(p, e, s) \in Settings /\ Fits(Merge(p, e, s), e)
<1> DEFINE m == Merge(p, e, s)
<1>1. /\ e.endpoint \in Endpoint \cup {NoEndpoint}
      /\ e.voicemail \in BOOLEAN
      /\ e.id \in Nat
  <2>1. CASE e \in Extension
    BY <2>1 DEF Extension
  <2>2. CASE e = NoExtension
    BY <2>2 DEF NoExtension
  <2>3. QED
    BY <2>1, <2>2
<1>2. LoadContext(e, s).extensionID = IF e = NoExtension THEN s.extensionID ELSE e.id
  BY DEF LoadContext, Settings
<1> DEFINE id == IF e = NoExtension THEN s.extensionID ELSE e.id
           endpoint == IF p.endpoint = NoEndpoint THEN e.endpoint ELSE p.endpoint
<1>3. /\ m \in [{"extensionID", "voicemail", "webphone", "messaging", "endpoint"} ->
                  Nat \cup BOOLEAN \cup Endpoint \cup {NoEndpoint}]
      /\ m.extensionID = id /\ m.endpoint = endpoint
      /\ m.voicemail = p.voicemail /\ m.webphone = p.webphone /\ m.messaging = p.messaging
  BY <1>1, <1>2 DEF Merge, Settings
<1>4. m \in Settings
  BY <1>1, <1>3 DEF Settings
<1>5. Acceptable(m, e)
  BY <1>3 DEF Acceptable
<1>6. LoadContext(e, m) = m
  <2>1. p.messaging => Messaging
    BY DEF Acceptable
  <2>2. p.webphone => BrowserCalling
    BY DEF Acceptable, SupportsWebphone
  <2>3. p.voicemail => e.voicemail
    BY DEF Acceptable, SupportsVoicemail
  <2>4. CASE e = NoExtension
    BY <1>3, <2>1, <2>2, <2>4, SettingsAssumption DEF LoadContext, Settings, NoExtension
  <2>5. CASE e # NoExtension
    BY <1>1, <1>3, <2>1, <2>2, <2>3, <2>5, SettingsAssumption DEF LoadContext, Settings
  <2>6. QED
    BY <2>4, <2>5
<1>7. QED
  BY <1>4, <1>5, <1>6 DEF Fits

\* findUserExtension finds an extension of the plan or none.
LEMMA ExtensionOfTyped ==
  ASSUME TypeOK, NEW u \in User
  PROVE  ExtensionOf(u) \in Extension \cup {NoExtension}
<1>1. CASE Owned(u) = {}
  BY <1>1 DEF ExtensionOf
<1>2. CASE Owned(u) # {}
  <2> DEFINE Numbers == {e.number : e \in Owned(u)}
  <2>1. /\ Owned(u) \subseteq Extension
        /\ \A e \in Owned(u) : e.number \in Nat /\ e.id \in Nat
    BY SettingsAssumption DEF TypeOK, Owned, Extension
  <2>2. Numbers \in SUBSET Nat /\ Numbers # {}
    BY <1>2, <2>1
  <2>3. PICK n \in Numbers : \A m \in Numbers : n <= m
    BY <2>2, LeastNatural
  <2> DEFINE IDs == {e.id : e \in {f \in Owned(u) : f.number = n}}
  <2>4. IDs \in SUBSET Nat /\ IDs # {}
    BY <2>1, <2>3
  <2>5. PICK i \in IDs : \A j \in IDs : i <= j
    BY <2>4, LeastNatural
  <2>6. PICK e \in Owned(u) : e.number = n /\ e.id = i
    BY <2>5
  <2>7. \A f \in Owned(u) : e.number < f.number \/ (e.number = f.number /\ e.id <= f.id)
    <3> SUFFICES ASSUME NEW f \in Owned(u), ~ (e.number < f.number)
                 PROVE  e.number = f.number /\ e.id <= f.id
      OBVIOUS
    <3>1. n <= f.number /\ n \in Nat /\ f.number \in Nat
      BY <2>1, <2>2, <2>3
    <3>2. f.number = n
      BY <2>6, <3>1
    <3>3. f.id \in IDs
      BY <3>2
    <3>4. QED
      BY <2>5, <2>6, <3>2, <3>3
  <2>8. ExtensionOf(u) \in Owned(u)
    BY <1>2, <2>7 DEF ExtensionOf
  <2>9. QED
    BY <2>1, <2>8
<1>3. QED
  BY <1>1, <1>2

-----------------------------------------------------------------------------
LEMMA InitIInv == Init => IInv
<1> SUFFICES ASSUME Init PROVE IInv
  OBVIOUS
<1>1. DOMAIN settings = {} /\ DOMAIN savedWith = {}
  BY DEF Init, EmptyMap
<1>2. TypeOK
  BY <1>1, DefaultsTyped DEF Init, TypeOK
<1>3. QED
  BY <1>1, <1>2 DEF Init, IInv, RequestInv, StoreInv

LEMMA CreateStep ==
  ASSUME IInv, NEW u \in User, NEW n \in Number,
         NEW endpoint \in Endpoint \cup {NoEndpoint}, NEW voicemail \in BOOLEAN,
         CreateExtension(u, n, endpoint, voicemail)
  PROVE  IInv'
<1>1. PICK last \in 0..(MaxID - 1) :
        /\ IsLastID(last)
        /\ extensions' = extensions \cup
             {[id |-> last + 1, number |-> n, user |-> u, endpoint |-> endpoint,
               voicemail |-> voicemail]}
  BY DEF CreateExtension
<1> DEFINE new == [id |-> last + 1, number |-> n, user |-> u, endpoint |-> endpoint,
                   voicemail |-> voicemail]
<1>2. last \in Nat /\ new \in Extension
  BY <1>1, MaxAssumption DEF Extension
<1>3. \A e \in extensions : e.id # new.id
  BY <1>1, <1>2 DEF IsLastID, IInv, TypeOK, Extension
<1> HIDE DEF new
<1>4. extensions' = extensions \cup {new}
  BY <1>1 DEF new
<1>5. TypeOK'
  BY <1>2, <1>3, <1>4 DEF IInv, TypeOK, CreateExtension, requests
<1>6. QED
  BY <1>5 DEF IInv, RequestInv, StoreInv, CreateExtension, requests

LEMMA DeleteStep ==
  ASSUME IInv, NEW e \in extensions, DeleteExtension(e)
  PROVE  IInv'
<1>1. TypeOK'
  BY DEF IInv, TypeOK, DeleteExtension, requests
<1>2. QED
  BY <1>1 DEF IInv, RequestInv, StoreInv, DeleteExtension, requests

LEMMA ReadPlanStep ==
  ASSUME IInv, NEW r \in Request, NEW u \in User, NEW p \in Post, ReadPlan(r, u, p)
  PROVE  IInv'
<1>1. p \in Settings /\ ExtensionOf(u) \in Extension \cup {NoExtension}
  BY ExtensionOfTyped, PostAssumption DEF IInv
<1>2. TypeOK'
  BY <1>1 DEF IInv, TypeOK, ReadPlan
<1>3. RequestInv'
  BY DEF IInv, TypeOK, RequestInv, ReadPlan
<1>4. StoreInv'
  BY DEF IInv, StoreInv, ReadPlan
<1>5. QED
  BY <1>2, <1>3, <1>4 DEF IInv

\* A request that ends holds nothing any more.
LEMMA FinishStep ==
  ASSUME IInv, NEW r \in Request, Finish(r)
  PROVE  /\ pc' \in [Request -> {"idle", "read", "save"}]
         /\ user' \in [Request -> User \cup {"none"}]
         /\ posted' \in [Request -> Settings]
         /\ held' \in [Request -> Extension \cup {NoExtension}]
         /\ merged' \in [Request -> Settings]
         /\ \A q \in Request : pc'[q] # "idle" => user'[q] \in User
         /\ RequestInv'
<1>1. RequestInv'
  BY DEF IInv, TypeOK, RequestInv, Finish
<1>2. QED
  BY <1>1, DefaultsTyped DEF IInv, TypeOK, Finish

LEMMA ReadSettingsStep ==
  ASSUME IInv, NEW r \in Request, ReadSettings(r)
  PROVE  IInv'
<1>1. CASE Acceptable(posted[r], held[r])
  <2>1. Stored(user[r]) \in Settings
    BY DefaultsTyped DEF IInv, TypeOK, Stored
  <2> DEFINE m == Merge(posted[r], held[r], Stored(user[r]))
  <2>2. m \in Settings /\ Fits(m, held[r])
    BY <1>1, <2>1, MergeFits DEF IInv, TypeOK
  <2>3. /\ pc' = [pc EXCEPT ![r] = "save"]
        /\ merged' = [merged EXCEPT ![r] = m]
        /\ UNCHANGED <<user, posted, held, extensions, settings, savedWith>>
    BY <1>1 DEF ReadSettings
  <2>4. user[r] \in User
    BY DEF IInv, TypeOK, ReadSettings
  <2> HIDE DEF m
  <2>5. TypeOK'
    BY <2>2, <2>3, <2>4 DEF IInv, TypeOK
  <2>6. RequestInv'
    BY <2>2, <2>3 DEF IInv, TypeOK, RequestInv
  <2>7. StoreInv'
    BY <2>3 DEF IInv, StoreInv
  <2>8. QED
    BY <2>5, <2>6, <2>7 DEF IInv
<1>2. CASE ~ Acceptable(posted[r], held[r])
  <2>1. Finish(r) /\ UNCHANGED <<extensions, settings, savedWith>>
    BY <1>2 DEF ReadSettings
  <2>2. TypeOK' /\ RequestInv'
    BY <2>1, FinishStep DEF IInv, TypeOK
  <2>3. StoreInv'
    BY <2>1 DEF IInv, StoreInv
  <2>4. QED
    BY <2>2, <2>3 DEF IInv
<1>3. QED
  BY <1>1, <1>2

LEMMA SaveSettingsStep ==
  ASSUME IInv, NEW r \in Request, SaveSettings(r)
  PROVE  IInv'
<1> DEFINE u == user[r]
           with == [extension |-> held[r], post |-> posted[r]]
<1>1. u \in User /\ merged[r] \in Settings /\ Fits(merged[r], held[r])
  BY DEF IInv, TypeOK, RequestInv, SaveSettings
<1>2. /\ settings' = [k \in DOMAIN settings \cup {u} |-> IF k = u THEN merged[r] ELSE settings[k]]
      /\ savedWith' = [k \in DOMAIN savedWith \cup {u} |-> IF k = u THEN with ELSE savedWith[k]]
      /\ UNCHANGED extensions
  BY DEF SaveSettings, Put
<1>3. Finish(r)
  BY DEF SaveSettings
<1>4. TypeOK' /\ RequestInv'
  BY <1>1, <1>2, <1>3, FinishStep DEF IInv, TypeOK
<1>5. StoreInv'
  BY <1>1, <1>2 DEF IInv, TypeOK, StoreInv
<1>6. QED
  BY <1>4, <1>5 DEF IInv

\* The inductive invariant holds in every reachable state.
THEOREM Invariance == Spec => []IInv
<1>1. Init => IInv
  BY InitIInv
<1>2. IInv /\ [Next]_vars => IInv'
  <2> SUFFICES ASSUME IInv, [Next]_vars PROVE IInv'
    OBVIOUS
  <2>1. CASE Administrate
    BY <2>1, CreateStep, DeleteStep DEF Administrate
  <2>2. ASSUME NEW r \in Request, Update(r) PROVE IInv'
    BY <2>2, ReadPlanStep, ReadSettingsStep, SaveSettingsStep DEF Update
  <2>3. CASE UNCHANGED vars
    <3>1. TypeOK'
      BY <2>3 DEF vars, requests, IInv, TypeOK
    <3>2. QED
      BY <2>3, <3>1 DEF vars, requests, IInv, RequestInv, StoreInv
  <2>4. QED
    BY <2>1, <2>2, <2>3 DEF Next
<1>3. QED
  BY <1>1, <1>2, PTL DEF Spec

\* Both tables are well formed, and IDs of extensions unique.
THEOREM TypeCorrect == Spec => []TypeOK
<1>1. IInv => TypeOK
  BY DEF IInv
<1>2. QED
  BY <1>1, Invariance, PTL

\* What a user saved is what the user is shown, while the extension it was
\* saved with is the user's.
THEOREM UpdatesLast == Spec => []SavedIsShown
<1>1. IInv => SavedIsShown
  <2> SUFFICES ASSUME IInv, NEW u \in DOMAIN settings,
                      savedWith[u].extension = ExtensionOf(u)
               PROVE  Shown(u) = settings[u]
    BY DEF SavedIsShown
  <2>1. QED
    BY DEF IInv, StoreInv, Fits, Shown, Stored
<1>2. QED
  BY <1>1, Invariance, PTL

\* What an update was allowed to switch on is listed and opens.
THEOREM AcceptedOpens == Spec => []AcceptedWorks
<1>1. IInv => AcceptedWorks
  <2> SUFFICES ASSUME IInv, NEW u \in DOMAIN settings,
                      savedWith[u].extension = ExtensionOf(u)
               PROVE  /\ settings[u].webphone => Visible(u).webphone /\ Open(u).webphone
                      /\ settings[u].voicemail => Visible(u).voicemail /\ Open(u).voicemail
                      /\ settings[u].messaging => Visible(u).messages /\ Open(u).messages
    BY DEF AcceptedWorks
  <2>1. Fits(settings[u], ExtensionOf(u)) /\ Shown(u) = settings[u]
    BY DEF IInv, StoreInv, Fits, Shown, Stored
  <2>2. QED
    BY <2>1 DEF Fits, Acceptable, Visible, Open
<1>2. QED
  BY <1>1, Invariance, PTL

=============================================================================
