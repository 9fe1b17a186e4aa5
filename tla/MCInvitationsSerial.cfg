\* Requests served one at a time: nothing interleaves, requests still die.
SPECIFICATION Spec
CONSTANTS
  a1 = a1  a2 = a2  e1 = e1  e2 = e2  t1 = t1  t2 = t2
  r1 = r1  r2 = r2  r3 = r3
  Emails = {e1, e2}
  Accounts = {a1, a2}
  Tokens = {t1, t2}
  Requests = {r1}
  NoEmail = NoEmail
  NoAccount = NoAccount
  NoToken = NoToken
SYMMETRY Symmetry
INVARIANTS
  SerialReads
  OnePending
PROPERTIES
  OutcomeFinal
  InviteGetsThrough
