SPECIFICATION Spec
CONSTANTS
  acme = acme
  globex = globex
  ann = ann
  bob = bob
  cookie = cookie
  token = token
  orgToken = orgToken
  Request = {r1}
  Org = {acme, globex}
  User = {ann, bob}
  Profile <- OnePublic
  Credential = {cookie, token, orgToken}
  Kind <- Kinds
  Subject <- Subjects
  Preference = {"default", "custom"}
  DefaultPreference = "default"
  Asked <- FewCalls
  Founded = {acme}
  Row <- FewRows
  MaxMemberID = 2
INVARIANTS
  TypeOK
  PrivateStaysPrivate
  ManagersOnly
  HiddenStaysHidden
PROPERTIES
  QuietPreferencesLast
