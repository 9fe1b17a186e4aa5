\* Two overlapping requests about two accounts, with administrators, demotions,
\* deactivations, new passwords and tokens that expire, or an invitation.
\* When every account is deactivated and the tokens have expired, nobody gets in.
SPECIFICATION MCSpec
CONSTANTS
  admin = admin  ops = ops  u1 = u1  u2 = u2  p1 = p1  p2 = p2  r1 = r1  r2 = r2
  l1 = l1
  Users = {u1, u2}
  Passwords = {p1, p2}
  Requests = {r1, r2}
  Links = {l1}
  Roles = {admin, ops}
  AdminRoles = {admin}
  AccessTTL = 1
  Asked <- Patches
  MaxTime = 1
  MaxTokens = 2
  NoUser = NoUser
  NoRole = NoRole
  NoPassword = NoPassword
  NoLink = NoLink
  Keep = Keep
CHECK_DEADLOCK FALSE
SYMMETRY Symmetry
INVARIANTS
  TypeOK
  LoginOneMoment
  HandledAuthorized
PROPERTIES
  OnlyEntitled
