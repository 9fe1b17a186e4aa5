\* One invite at a time, whose email may fail to send.
SPECIFICATION Spec
CONSTANTS
  a1 = a1  a2 = a2  e1 = e1  e2 = e2  t1 = t1  t2 = t2
  r1 = r1  r2 = r2  r3 = r3
  Emails = {e1}
  Accounts = {a1}
  Tokens = {t1}
  Requests = {r1}
  NoEmail = NoEmail
  NoAccount = NoAccount
  NoToken = NoToken
SYMMETRY Symmetry
PROPERTIES
  ResendPossible
