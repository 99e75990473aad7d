SPECIFICATION Spec
CONSTANTS
  desk = desk
  web = web
  Request = {r1, r2}
  User = {u1}
  Number = {1}
  Endpoint = {web}
  Telephony = TRUE
  BrowserCalling = TRUE
  Messaging = TRUE
  VoicemailCapable = TRUE
  Post <- FewPosts
  MaxID = 2
SYMMETRY RequestSymmetry
INVARIANTS
  TypeOK
  AcceptedWorks
  SavedIsShown
