---------------------------- MODULE UserSettings ----------------------------
(***************************************************************************)
(* UserCommunicationsService (service/user_communications.go): a user's    *)
(* communications settings, merged on every request from the extension the *)
(* PBX plan gives the user, what the Asterisk deployment can do, and what  *)
(* the user saved; and the surfaces that open or stay hidden accordingly.  *)
(*                                                                         *)
(* An update reads the plan and the stored settings in two store calls and *)
(* saves in a third.  The Asterisk state is saved once, before the server  *)
(* starts, so what it can do are constants.  A change of the plan is one   *)
(* step here: PBXPlan shows what becomes of it when two overlap.           *)
(***************************************************************************)
EXTENDS Maps, Integers, FiniteSets

CONSTANTS
  Request,           \* concurrent updates
  User,
  Number,            \* extension numbers, in the order of their strings
  Endpoint,          \* endpoint names
  Telephony,         \* supportsTelephony: a channel driver or endpoint stack
  BrowserCalling,    \* the capability browser_calling
  Messaging,         \* supportsMessaging
  VoicemailCapable,  \* the capability voicemail or recordings
  Post,              \* what clients post: the whole settings, each time
  MaxID              \* bound: no extension is created once this ID is used

\* The empty string: no endpoint given.
NoEndpoint == "none"

ASSUME SettingsAssumption ==
  /\ Number \subseteq Nat
  /\ NoEndpoint \notin Endpoint
  /\ "none" \notin User
  /\ {Telephony, BrowserCalling, Messaging, VoicemailCapable} \subseteq BOOLEAN

\* model.Extension, as far as a user's surfaces depend on it.
Extension ==
  [id: Nat \ {0}, number: Number, user: User,
   endpoint: Endpoint \cup {NoEndpoint}, voicemail: BOOLEAN]
NoExtension ==
  [id |-> 0, number |-> 0, user |-> "none", endpoint |-> NoEndpoint,
   voicemail |-> FALSE]

(***************************************************************************)
(* model.UserCommunicationSettings.  PresenceEnabled passes every check    *)
(* that MessagingEnabled passes, which stands for both; DoNotDisturb and   *)
(* the addresses are stored and shown as they come.                        *)
(***************************************************************************)
Settings ==
  [extensionID: Nat, voicemail: BOOLEAN, webphone: BOOLEAN, messaging: BOOLEAN,
   endpoint: Endpoint \cup {NoEndpoint}]
DefaultSettings ==
  [extensionID |-> 0, voicemail |-> TRUE, webphone |-> TRUE, messaging |-> TRUE,
   endpoint |-> NoEndpoint]

ASSUME MaxAssumption == MaxID \in Nat

\* A client posts everything but the extension.
ASSUME PostAssumption == Post \subseteq {s \in Settings : s.extensionID = 0}

VARIABLES
  extensions,        \* those of the PBX plan that belong to a user
  settings,          \* userCommPrefs: what each user saved
  pc,                \* what an update does next
  user,              \* whose it is
  posted,            \* what it was sent
  held,              \* the extension it found, then
  merged,            \* what it is about to save
  savedWith          \* the extension and the post of each user's last update

requests == <<pc, user, posted, held, merged>>
vars == <<extensions, settings, requests, savedWith>>

-----------------------------------------------------------------------------
(***************************************************************************)
(* The merge (loadContext), and what depends on it.                        *)
(***************************************************************************)

Owned(u) == {e \in extensions : e.user = u}

\* findUserExtension takes the first; the plan is sorted by number, and of
\* two with the same number the older comes first.
ExtensionOf(u) ==
  IF Owned(u) = {} THEN NoExtension
  ELSE CHOOSE e \in Owned(u) : \A f \in Owned(u) :
         e.number < f.number \/ (e.number = f.number /\ e.id <= f.id)

Stored(u) == IF u \in DOMAIN settings THEN settings[u] ELSE DefaultSettings

LoadContext(e, s) ==
  LET withExtension == [s EXCEPT !.extensionID = e.id,
                                 !.endpoint = IF @ = NoEndpoint THEN e.endpoint ELSE @,
                                 !.voicemail = @ /\ e.voicemail]
      t == IF e = NoExtension THEN s ELSE withExtension
  IN  [t EXCEPT !.messaging = @ /\ Messaging, !.webphone = @ /\ BrowserCalling]

SupportsVoicemail(e) == e # NoExtension /\ e.voicemail /\ VoicemailCapable
SupportsWebphone(e) == e # NoExtension /\ Telephony /\ BrowserCalling

\* GetSettings
Shown(u) == LoadContext(ExtensionOf(u), Stored(u))

\* The optional entries of the dashboard (visibleUserCommunicationSurfaces).
Visible(u) ==
  LET e == ExtensionOf(u)
  IN  [callHistory |-> e # NoExtension /\ Telephony,
       voicemail   |-> SupportsVoicemail(e),
       messages    |-> Messaging,
       presence    |-> Messaging,
       webphone    |-> SupportsWebphone(e)]

\* The surfaces that do not answer COMMUNICATION_UNAVAILABLE.
Open(u) ==
  LET e == ExtensionOf(u)
  IN  [callHistory |-> e # NoExtension /\ Telephony,
       voicemail   |-> SupportsVoicemail(e),
       messages    |-> Messaging /\ Shown(u).messaging,
       presence    |-> Messaging,
       webphone    |-> SupportsWebphone(e)]

\* The endpoint the webphone is told to register.
WebphoneEndpoint(u) ==
  IF Shown(u).endpoint # NoEndpoint THEN Shown(u).endpoint ELSE ExtensionOf(u).endpoint

-----------------------------------------------------------------------------
(***************************************************************************)
(* The plan.                                                               *)
(***************************************************************************)

\* Mutant: any ID there is.
IsAnyID(id) == id \in {0} \cup {e.id : e \in extensions}

\* The ID the next one follows (nextExtensionID): the largest there is.
IsLastID(id) ==
  /\ id \in {0} \cup {e.id : e \in extensions}
  /\ \A e \in extensions : e.id <= id

\* PBXService.CreateExtension for an extension with an owner.
CreateExtension(u, n, endpoint, voicemail) ==
  \E last \in 0..(MaxID - 1) :
    /\ IsLastID(last)
    /\ extensions' = extensions \cup
         {[id |-> last + 1, number |-> n, user |-> u, endpoint |-> endpoint,
           voicemail |-> voicemail]}
    /\ UNCHANGED <<settings, requests, savedWith>>

DeleteExtension(e) ==
  /\ extensions' = extensions \ {e}
  /\ UNCHANGED <<settings, requests, savedWith>>

-----------------------------------------------------------------------------
(***************************************************************************)
(* UpdateSettings.                                                         *)
(***************************************************************************)

ReadPlan(r, u, p) ==
  /\ pc[r] = "idle"
  /\ pc' = [pc EXCEPT ![r] = "read"]
  /\ user' = [user EXCEPT ![r] = u]
  /\ posted' = [posted EXCEPT ![r] = p]
  /\ held' = [held EXCEPT ![r] = ExtensionOf(u)]
  /\ UNCHANGED <<extensions, settings, merged, savedWith>>

\* Mutant: the voicemail setting is not checked.
AcceptableWithoutMailbox(p, e) ==
  /\ p.webphone => SupportsWebphone(e)
  /\ p.messaging => Messaging

Acceptable(p, e) ==
  /\ p.webphone => SupportsWebphone(e)
  /\ p.messaging => Messaging
  /\ p.voicemail => SupportsVoicemail(e)

\* Mutant: the endpoint of the extension is not filled in.
MergeKeepsEndpoint(p, e, s) == [p EXCEPT !.extensionID = LoadContext(e, s).extensionID]

\* Of what was stored, the post replaces all but the extension.
Merge(p, e, s) ==
  [p EXCEPT !.extensionID = LoadContext(e, s).extensionID,
            !.endpoint = IF @ = NoEndpoint THEN e.endpoint ELSE @]

Finish(r) ==
  /\ pc' = [pc EXCEPT ![r] = "idle"]
  /\ user' = [user EXCEPT ![r] = "none"]
  /\ posted' = [posted EXCEPT ![r] = DefaultSettings]
  /\ held' = [held EXCEPT ![r] = NoExtension]
  /\ merged' = [merged EXCEPT ![r] = DefaultSettings]

ReadSettings(r) ==
  /\ pc[r] = "read"
  /\ IF Acceptable(posted[r], held[r])
     THEN /\ pc' = [pc EXCEPT ![r] = "save"]
          /\ merged' = [merged EXCEPT ![r] = Merge(posted[r], held[r], Stored(user[r]))]
          /\ UNCHANGED <<user, posted, held>>
     ELSE Finish(r)                                  \* COMMUNICATION_INVALID
  /\ UNCHANGED <<extensions, settings, savedWith>>

SaveSettings(r) ==
  /\ pc[r] = "save"
  /\ settings' = Put(settings, user[r], merged[r])
  /\ savedWith' = Put(savedWith, user[r], [extension |-> held[r], post |-> posted[r]])
  /\ Finish(r)
  /\ UNCHANGED extensions

-----------------------------------------------------------------------------
Init ==
  /\ extensions = {}
  /\ settings = EmptyMap
  /\ pc = [r \in Request |-> "idle"]
  /\ user = [r \in Request |-> "none"]
  /\ posted = [r \in Request |-> DefaultSettings]
  /\ held = [r \in Request |-> NoExtension]
  /\ merged = [r \in Request |-> DefaultSettings]
  /\ savedWith = EmptyMap

Administrate ==
  \/ \E u \in User, n \in Number,
        endpoint \in Endpoint \cup {NoEndpoint}, voicemail \in BOOLEAN :
       CreateExtension(u, n, endpoint, voicemail)
  \/ \E e \in extensions : DeleteExtension(e)

Update(r) ==
  \/ \E u \in User, p \in Post : ReadPlan(r, u, p)
  \/ ReadSettings(r)
  \/ SaveSettings(r)

Next == Administrate \/ \E r \in Request : Update(r)

Spec == Init /\ [][Next]_vars

-----------------------------------------------------------------------------
(***************************************************************************)
(* Properties that hold whatever overlaps.                                 *)
(***************************************************************************)

\* Both tables hold what their Go types allow, IDs of extensions are unique,
\* and an update that saves was accepted for the extension it holds.
TypeOK ==
  /\ extensions \subseteq Extension
  /\ \A e, f \in extensions : e.id = f.id => e = f
  /\ DOMAIN settings \subseteq User
  /\ \A u \in DOMAIN settings : settings[u] \in Settings
  /\ pc \in [Request -> {"idle", "read", "save"}]
  /\ user \in [Request -> User \cup {"none"}]
  /\ \A r \in Request : pc[r] # "idle" => user[r] \in User
  /\ posted \in [Request -> Settings]
  /\ held \in [Request -> Extension \cup {NoExtension}]
  /\ merged \in [Request -> Settings]
  /\ DOMAIN savedWith = DOMAIN settings

\* An update lasts: for as long as the extension it was made for is the user's,
\* the settings shown are exactly those that were saved, whatever other
\* updates and changes of the plan ran meanwhile.
SavedIsShown ==
  \A u \in DOMAIN settings :
    savedWith[u].extension = ExtensionOf(u) => Shown(u) = settings[u]

\* What an update was allowed to switch on works: its surface is listed and
\* opens, for as long as the extension it was allowed for is the user's.
AcceptedWorks ==
  \A u \in DOMAIN settings :
    savedWith[u].extension = ExtensionOf(u) =>
      /\ settings[u].webphone => Visible(u).webphone /\ Open(u).webphone
      /\ settings[u].voicemail => Visible(u).voicemail /\ Open(u).voicemail
      /\ settings[u].messaging => Visible(u).messages /\ Open(u).messages

-----------------------------------------------------------------------------
(***************************************************************************)
(* What the documentation says and the code does not do, even one update   *)
(* at a time.                                                              *)
(***************************************************************************)

\* A surface the dashboard lists opens.
VisibleOpens == \A u \in User : \A s \in DOMAIN Visible(u) : Visible(u)[s] => Open(u)[s]

\* What the settings show as switched on is available: the same settings
\* posted back are accepted.
ShownIsAcceptable == \A u \in User : Acceptable(Shown(u), ExtensionOf(u))

\* The webphone of a user who did not name an endpoint registers the endpoint
\* of the extension it shows.
WebphoneUsesOwnEndpoint ==
  \A u \in DOMAIN settings :
    Open(u).webphone /\ savedWith[u].post.endpoint = NoEndpoint
      => WebphoneEndpoint(u) = ExtensionOf(u).endpoint

=============================================================================
