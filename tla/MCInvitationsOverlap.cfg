\* Two overlapping requests about two addresses and two accounts.
SPECIFICATION Spec
CONSTANTS
  a1 = a1  a2 = a2  e1 = e1  e2 = e2  t1 = t1  t2 = t2
  r1 = r1  r2 = r2  r3 = r3
  Emails = {e1, e2}
  Accounts = {a1, a2}
  Tokens = {t1}
  Requests = {r1, r2}
  NoEmail = NoEmail
  NoAccount = NoAccount
  NoToken = NoToken
SYMMETRY Symmetry
INVARIANTS
  TypeOK
  EmailUnique
  ReferencesSound
  AcceptedHasCredential
PROPERTIES
  SpentStaysSpent
  ImplementsOnboarding
