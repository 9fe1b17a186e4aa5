-------------------------- MODULE InvitationsProofs --------------------------
(***************************************************************************)
(* Theorems about Invitations, for all sets of emails, accounts, tokens    *)
(* and request slots.                                                      *)
(***************************************************************************)
EXTENDS Invitations, TLAPS

-----------------------------------------------------------------------------
\* Type correctness

\* The local states a handler step builds are well typed.
LEMMA AtType ==
  ASSUME NEW s \in Steps, NEW e \in Emails \cup {NoEmail},
         NEW a \in Accounts \cup {NoAccount}, NEW t \in Tokens \cup {NoToken},
         NEW p \in Patches
  PROVE  At(s, e, a, t, p) \in Locals
BY DEF At, Locals

LEMMA IdleType == Idle \in Locals
BY DEF Idle, At, Locals, Steps, NoPatch, Patches

LEMMA NoPatchType == NoPatch \in Patches
BY DEF NoPatch, Patches

LEMMA NextPcType ==
  ASSUME NEW q \in Locals, NEW s \in Steps
  PROVE  [q EXCEPT !.pc = s] \in Locals
BY DEF Locals

\* Moving a request to a well typed local state keeps req well typed.
LEMMA GoToType ==
  ASSUME TypeOK, NEW r \in Requests, NEW q \in Locals, GoTo(r, q)
  PROVE  req' \in [Requests -> Locals]
BY DEF TypeOK, GoTo

LEMMA ReturnType ==
  ASSUME TypeOK, NEW r \in Requests, Return(r)
  PROVE  req' \in [Requests -> Locals]
BY IdleType, GoToType DEF Return

LEMMA ReqType ==
  ASSUME TypeOK, NEW r \in Requests
  PROVE  /\ req[r] \in Locals
         /\ req[r].email \in Emails \cup {NoEmail}
         /\ req[r].account \in Accounts \cup {NoAccount}
         /\ req[r].token \in Tokens \cup {NoToken}
         /\ req[r].patch \in Patches
BY DEF TypeOK, Locals

LEMMA InviteStepType ==
  ASSUME TypeOK, NEW r \in Requests, InviteStep(r)
  PROVE  TypeOK'
<1> USE ReqType, ReturnType
<1>1. ASSUME NEW e \in Emails, Invite(r, e) PROVE TypeOK'
  <2>1. PICK a \in FindByEmail(e) :
          GoTo(r, At("findPending", e, a, NoToken, NoPatch))
    BY <1>1 DEF Invite
  <2>2. a \in Accounts \cup {NoAccount}
    BY DEF FindByEmail, Holders
  <2>3. At("findPending", e, a, NoToken, NoPatch) \in Locals
    BY <2>2, AtType, NoPatchType DEF Steps
  <2> QED
    BY <1>1, <2>1, <2>3, GoToType DEF Invite, TypeOK
<1>2. CASE InviteConflict(r)
  BY <1>2 DEF InviteConflict, TypeOK
<1>3. CASE InviteNoPending(r)
  <2>1. \A s \in {"existsByEmail", "resetUser"} :
          [req[r] EXCEPT !.pc = s] \in Locals
    BY NextPcType DEF Steps
  <2>2. req' \in [Requests -> Locals]
    BY <1>3, <2>1, GoToType DEF InviteNoPending
  <2> QED
    BY <1>3, <2>2 DEF InviteNoPending, TypeOK
<1>4. CASE CreateInvitedCheck(r)
  <2>1. [req[r] EXCEPT !.pc = "insertInvited"] \in Locals
    BY NextPcType DEF Steps
  <2>2. req' \in [Requests -> Locals]
    BY <1>4, <2>1, GoToType DEF CreateInvitedCheck
  <2> QED
    BY <1>4, <2>2 DEF CreateInvitedCheck, TypeOK
<1>5. CASE CreateInvited(r)
  <2>1. CASE EmailTaken(req[r].email)
    BY <1>5, <2>1 DEF CreateInvited, TypeOK
  <2>2. CASE ~EmailTaken(req[r].email)
    <3> DEFINE doc == [email |-> req[r].email, active |-> FALSE, password |-> FALSE]
               loc(a) == [req[r] EXCEPT !.pc = "createInvitation", !.account = a]
    <3>1. PICK a \in Accounts : users' = [users EXCEPT ![a] = doc] /\ GoTo(r, loc(a))
      BY <1>5, <2>2 DEF CreateInvited
    <3>2. doc \in UserDocs
      BY DEF UserDocs
    <3>3. loc(a) \in Locals
      BY DEF Locals, Steps
    <3>4. users' \in [Accounts -> UserDocs]
      BY <3>1, <3>2 DEF TypeOK
    <3>5. req' \in [Requests -> Locals]
      BY <3>1, <3>3, GoToType
    <3> QED
      BY <1>5, <3>4, <3>5 DEF CreateInvited, TypeOK
  <2> QED
    BY <2>1, <2>2
<1>6. CASE ResetUser(r)
  <2>1. users' \in [Accounts -> UserDocs]
    BY <1>6 DEF ResetUser, TypeOK, UserDocs
  <2>2. [req[r] EXCEPT !.pc = "createInvitation"] \in Locals
    BY NextPcType DEF Steps
  <2>3. req' \in [Requests -> Locals]
    BY <1>6, <2>2, GoToType DEF ResetUser
  <2> QED
    BY <1>6, <2>1, <2>3 DEF ResetUser, TypeOK
<1>7. CASE CreateInvitation(r)
  <2> DEFINE doc == [email |-> req[r].email, account |-> req[r].account,
                     status |-> "PENDING"]
             loc(t) == [req[r] EXCEPT !.pc = "sendEmail", !.token = t]
  <2>1. PICK t \in Tokens : /\ invitations' = [invitations EXCEPT ![t] = doc]
                            /\ GoTo(r, loc(t))
    BY <1>7 DEF CreateInvitation
  <2>2. doc \in InvitationDocs
    BY DEF InvitationDocs
  <2>3. loc(t) \in Locals
    BY DEF Locals, Steps
  <2>4. invitations' \in [Tokens -> InvitationDocs]
    BY <2>1, <2>2 DEF TypeOK
  <2>5. req' \in [Requests -> Locals]
    BY <2>1, <2>3, GoToType
  <2> QED
    BY <1>7, <2>4, <2>5 DEF CreateInvitation, TypeOK
<1>8. CASE SendInviteEmail(r)
  <2>1. mail' \in [Tokens -> {"unsent", "sent", "failed"}]
    BY <1>8 DEF SendInviteEmail, TypeOK
  <2> QED
    BY <1>8, <2>1 DEF SendInviteEmail, TypeOK
<1> QED
  BY <1>1, <1>2, <1>3, <1>4, <1>5, <1>6, <1>7, <1>8 DEF InviteStep

LEMMA AcceptStepType ==
  ASSUME TypeOK, NEW r \in Requests, AcceptStep(r)
  PROVE  TypeOK'
<1> USE ReqType, ReturnType
<1>1. ASSUME NEW t \in Tokens, Accept(r, t) PROVE TypeOK'
  <2>1. invitations[t].account \in Accounts \cup {NoAccount}
    BY DEF TypeOK, InvitationDocs
  <2>2. At("activate", NoEmail, invitations[t].account, t, NoPatch) \in Locals
    BY <2>1, AtType, NoPatchType DEF Steps
  <2> QED
    BY <1>1, <2>2, GoToType DEF Accept, TypeOK
<1>2. ASSUME NEW t \in Tokens, FindLapsed(r, t) PROVE TypeOK'
  <2>1. At("markExpired", NoEmail, NoAccount, t, NoPatch) \in Locals
    BY AtType, NoPatchType DEF Steps
  <2> QED
    BY <1>2, <2>1, GoToType DEF FindLapsed, TypeOK
<1>3. CASE ActivateInvited(r)
  <2>1. users' \in [Accounts -> UserDocs]
    BY <1>3 DEF ActivateInvited, TypeOK, UserDocs
  <2>2. [req[r] EXCEPT !.pc = "markAccepted"] \in Locals
    BY NextPcType DEF Steps
  <2> QED
    BY <1>3, <2>1, <2>2, GoToType DEF ActivateInvited, TypeOK
<1>4. CASE MarkAccepted(r)
  <2>1. invitations' \in [Tokens -> InvitationDocs]
    BY <1>4 DEF MarkAccepted, TypeOK, InvitationDocs
  <2> QED
    BY <1>4, <2>1 DEF MarkAccepted, TypeOK
<1>5. CASE MarkExpired(r)
  <2>1. invitations' \in [Tokens -> InvitationDocs]
    BY <1>5 DEF MarkExpired, TypeOK, InvitationDocs
  <2> QED
    BY <1>5, <2>1 DEF MarkExpired, TypeOK
<1> QED
  BY <1>1, <1>2, <1>3, <1>4, <1>5 DEF AcceptStep

LEMMA PatchedType ==
  ASSUME NEW u \in UserDocs, NEW e \in Emails \cup {NoEmail}, NEW p \in Patches
  PROVE  Patched(u, e, p) \in UserDocs
<1> DEFINE email    == IF e = NoEmail THEN u.email ELSE e
           active   == IF p.active = "keep" THEN u.active ELSE p.active = "on"
           password == u.password \/ p.password
<1>1. email \in Emails \cup {NoEmail}
  BY DEF UserDocs
<1>2. u.active \in BOOLEAN
  BY DEF UserDocs
<1>3. active \in BOOLEAN
  BY <1>2, Zenon
<1>4. password \in BOOLEAN
  BY Zenon
<1>5. Patched(u, e, p) = [email |-> email, active |-> active, password |-> password]
  BY DEF Patched
<1> HIDE DEF email, active, password
<1> QED
  BY <1>1, <1>3, <1>4, <1>5 DEF UserDocs

LEMMA UserStepType ==
  ASSUME TypeOK, NEW r \in Requests, UserStep(r)
  PROVE  TypeOK'
<1> USE ReqType, ReturnType
<1>1. ASSUME NEW e \in Emails, CreateCheck(r, e) PROVE TypeOK'
  <2>1. At("insertUser", e, NoAccount, NoToken, NoPatch) \in Locals
    BY AtType, NoPatchType DEF Steps
  <2> QED
    BY <1>1, <2>1, GoToType DEF CreateCheck, TypeOK
<1>2. CASE Create(r)
  <2>1. [email |-> req[r].email, active |-> TRUE, password |-> TRUE] \in UserDocs
    BY DEF UserDocs
  <2>2. users' \in [Accounts -> UserDocs]
    BY <1>2, <2>1 DEF Create, TypeOK
  <2> QED
    BY <1>2, <2>2 DEF Create, TypeOK
<1>3. ASSUME NEW a \in Accounts, NEW e \in Emails \cup {NoEmail},
             NEW p \in Patches,
             UpdateCheck(r, a, e, p)
      PROVE  TypeOK'
  <2>1. At("writeUser", e, a, NoToken, p) \in Locals
    BY AtType DEF Steps
  <2> QED
    BY <1>3, <2>1, GoToType DEF UpdateCheck, TypeOK
<1>4. CASE Update(r)
  <2>1. \A a \in Accounts : Patched(users[a], req[r].email, req[r].patch) \in UserDocs
    BY PatchedType DEF TypeOK
  <2>2. users' \in [Accounts -> UserDocs]
    BY <1>4, <2>1 DEF Update, TypeOK
  <2> QED
    BY <1>4, <2>2 DEF Update, TypeOK
<1> QED
  BY <1>1, <1>2, <1>3, <1>4 DEF UserStep

LEMMA OtherStepType ==
  ASSUME TypeOK
  PROVE  /\ \A r \in Requests : Abort(r) => TypeOK'
         /\ \A r \in Requests, a \in Accounts : Deactivate(r, a) => TypeOK'
         /\ \A t \in Tokens : Expire(t) => TypeOK'
<1>1. ASSUME NEW r \in Requests, Abort(r) PROVE TypeOK'
  BY <1>1, ReturnType DEF Abort, TypeOK
<1>2. ASSUME NEW r \in Requests, NEW a \in Accounts, Deactivate(r, a) PROVE TypeOK'
  BY <1>2 DEF Deactivate, TypeOK, UserDocs
<1>3. ASSUME NEW t \in Tokens, Expire(t) PROVE TypeOK'
  BY <1>3 DEF Expire, TypeOK
<1> QED
  BY <1>1, <1>2, <1>3

\* Type correctness of the component, for every value of the constants.
THEOREM TypeCorrect == Spec => []TypeOK
<1>1. Init => TypeOK
  BY IdleType DEF Init, TypeOK, NoUser, NoInvitation, UserDocs, InvitationDocs
<1>2. TypeOK /\ [Next]_vars => TypeOK'
  <2> SUFFICES ASSUME TypeOK, [Next]_vars PROVE TypeOK'
    OBVIOUS
  <2>1. CASE Next
    BY <2>1, InviteStepType, AcceptStepType, UserStepType, OtherStepType
       DEF Next
  <2>2. CASE UNCHANGED vars
    BY <2>2 DEF vars, TypeOK
  <2> QED
    BY <2>1, <2>2
<1> QED
  BY <1>1, <1>2, PTL DEF Spec

-----------------------------------------------------------------------------
\* What a step may do to the documents

\* The actions that leave the users collection alone.
UsersUntouched ==
  \E r \in Requests :
    \/ \E e \in Emails : Invite(r, e) \/ CreateCheck(r, e)
    \/ InviteConflict(r)
    \/ InviteNoPending(r)
    \/ CreateInvitedCheck(r)
    \/ CreateInvitation(r)
    \/ SendInviteEmail(r)
    \/ \E t \in Tokens : Accept(r, t) \/ FindLapsed(r, t)
    \/ MarkAccepted(r)
    \/ MarkExpired(r)
    \/ \E a \in Accounts, e \in Emails \cup {NoEmail}, p \in Patches :
         UpdateCheck(r, a, e, p)
    \/ Abort(r)

\* Next, split by what happens to the users collection.
LEMMA NextByUsers ==
  ASSUME Next
  PROVE  \/ UsersUntouched
         \/ \E t \in Tokens : Expire(t)
         \/ \E r \in Requests : \/ CreateInvited(r)
                                \/ ResetUser(r)
                                \/ ActivateInvited(r)
                                \/ Create(r)
                                \/ Update(r)
         \/ \E r \in Requests, a \in Accounts : Deactivate(r, a)
BY DEF Next, InviteStep, AcceptStep, UserStep, UsersUntouched

LEMMA UntouchedUsers ==
  ASSUME UsersUntouched
  PROVE  users' = users
BY DEF UsersUntouched, Invite, CreateCheck, InviteConflict, InviteNoPending,
       CreateInvitedCheck, CreateInvitation, SendInviteEmail, Accept, FindLapsed,
       MarkAccepted, MarkExpired, UpdateCheck, Abort

\* A write to the users collection stores one document, under an email the
\* unique index lets it have, or leaves every email as it was.  No write
\* removes a document or a password.
UsersWrite ==
  /\ \/ \A a \in Accounts : users'[a].email = users[a].email
     \/ \E a \in Accounts :
          /\ \A b \in Accounts \ {a} : users'[b].email = users[b].email
          /\ \A b \in Accounts \ {a} : users[b].email # users'[a].email
  /\ \A a \in Accounts : Exists(a) => Exists(a)'
  /\ \A a \in Accounts : Exists(a) /\ users[a].password => users'[a].password

\* A member keeps the password it has, and its email unless a new one is given.
LEMMA PatchedKeeps ==
  ASSUME NEW u \in UserDocs, NEW e \in Emails \cup {NoEmail}, NEW p \in Patches
  PROVE  /\ Patched(u, e, p).email = IF e = NoEmail THEN u.email ELSE e
         /\ u.password => Patched(u, e, p).password
BY DEF Patched

LEMMA UsersWriteStep ==
  ASSUME TypeOK, [Next]_vars
  PROVE  UsersWrite
<1> USE DEF UsersWrite, Exists
<1>1. CASE users' = users
  BY <1>1
<1>2. ASSUME NEW r \in Requests, NEW a \in Accounts, NEW doc \in UserDocs,
             ~EmailTaken(doc.email), ~Exists(a), users' = [users EXCEPT ![a] = doc]
      PROVE  UsersWrite
  <2>1. users'[a] = doc /\ \A b \in Accounts \ {a} : users'[b] = users[b]
    BY <1>2 DEF TypeOK
  <2>2. \A b \in Accounts : users[b].email # doc.email
    BY <1>2 DEF EmailTaken, Holders
  <2> QED
    BY <1>2, <2>1, <2>2
<1>3. ASSUME NEW r \in Requests, CreateInvited(r) PROVE UsersWrite
  <2> DEFINE doc == [email |-> req[r].email, active |-> FALSE, password |-> FALSE]
  <2>1. doc \in UserDocs /\ doc.email = req[r].email
    BY ReqType DEF UserDocs
  <2> HIDE DEF doc
  <2> QED
    BY <1>1, <1>2, <1>3, <2>1 DEF CreateInvited, doc
<1>4. ASSUME NEW r \in Requests, Create(r) PROVE UsersWrite
  <2> DEFINE doc == [email |-> req[r].email, active |-> TRUE, password |-> TRUE]
  <2>1. doc \in UserDocs /\ doc.email = req[r].email
    BY ReqType DEF UserDocs
  <2> HIDE DEF doc
  <2> QED
    BY <1>1, <1>2, <1>4, <2>1 DEF Create, doc
<1>5. ASSUME NEW r \in Requests, ResetUser(r) PROVE UsersWrite
  BY <1>5 DEF ResetUser, TypeOK, UserDocs
<1>6. ASSUME NEW r \in Requests, ActivateInvited(r) PROVE UsersWrite
  BY <1>6 DEF ActivateInvited, TypeOK, UserDocs
<1>7. ASSUME NEW r \in Requests, NEW a \in Accounts, Deactivate(r, a) PROVE UsersWrite
  BY <1>7 DEF Deactivate, TypeOK, UserDocs
<1>8. ASSUME NEW r \in Requests, Update(r) PROVE UsersWrite
  <2> DEFINE a == req[r].account  e == req[r].email  p == req[r].patch
  <2>1. CASE ~(a \in Accounts /\ IndexAdmits(a, e))
    <3>1. users' = users
      BY <1>8, <2>1 DEF Update, TypeOK
    <3> QED
      BY <3>1, <1>1
  <2>2. CASE a \in Accounts /\ IndexAdmits(a, e)
    <3>1. users[a] \in UserDocs
      BY <2>2 DEF TypeOK
    <3>2. /\ Patched(users[a], e, p).email = IF e = NoEmail THEN users[a].email ELSE e
          /\ users[a].password => Patched(users[a], e, p).password
      BY <3>1, ReqType, PatchedKeeps
    <3>3. /\ users'[a] = Patched(users[a], e, p)
          /\ \A b \in Accounts \ {a} : users'[b] = users[b]
      BY <1>8, <2>2 DEF Update, TypeOK
    <3>4. e # NoEmail => \A b \in Accounts \ {a} : users[b].email # e
      BY <2>2 DEF IndexAdmits, Holders
    <3> QED
      BY <3>2, <3>3, <3>4, <2>2
  <2> QED
    BY <2>1, <2>2
<1>9. CASE Next
  <2>1. CASE UsersUntouched
    BY <2>1, <1>1, UntouchedUsers
  <2>2. ASSUME NEW t \in Tokens, Expire(t) PROVE UsersWrite
    BY <2>2, <1>1 DEF Expire
  <2> QED
    BY <1>9, <2>1, <2>2, <1>3, <1>4, <1>5, <1>6, <1>7, <1>8, NextByUsers
<1>10. CASE UNCHANGED vars
  BY <1>10, <1>1 DEF vars
<1> QED
  BY <1>9, <1>10

-----------------------------------------------------------------------------
\* The unique email index

\* The check-then-insert of create and createInvited, and the check-then-write
\* of update, never leave two accounts with one email.
THEOREM EmailsStayUnique == Spec => []EmailUnique
<1>1. Init => EmailUnique
  BY DEF Init, EmailUnique, Exists, NoUser
<1>2. TypeOK /\ EmailUnique /\ [Next]_vars => EmailUnique'
  <2> SUFFICES ASSUME TypeOK, EmailUnique, [Next]_vars PROVE EmailUnique'
    OBVIOUS
  <2>1. UsersWrite
    BY UsersWriteStep
  <2>2. CASE \A a \in Accounts : users'[a].email = users[a].email
    BY <2>2 DEF EmailUnique, Exists
  <2>3. ASSUME NEW a \in Accounts,
               \A b \in Accounts \ {a} : users'[b].email = users[b].email,
               \A b \in Accounts \ {a} : users[b].email # users'[a].email
        PROVE  EmailUnique'
    BY <2>3 DEF EmailUnique, Exists
  <2> QED
    BY <2>1, <2>2, <2>3 DEF UsersWrite
<1> QED
  BY <1>1, <1>2, TypeCorrect, PTL DEF Spec

-----------------------------------------------------------------------------
\* References and credentials

\* The only steps that write an invitation document.
LEMMA InvitationsWriters ==
  ASSUME [Next]_vars
  PROVE  \/ invitations' = invitations
         \/ \E r \in Requests : \/ CreateInvitation(r)
                                \/ MarkAccepted(r)
                                \/ MarkExpired(r)
<1>1. ASSUME NEW r \in Requests, InviteStep(r), ~CreateInvitation(r)
      PROVE  invitations' = invitations
  BY <1>1 DEF InviteStep, Invite, InviteConflict, InviteNoPending,
     CreateInvitedCheck, CreateInvited, ResetUser, SendInviteEmail
<1>2. ASSUME NEW r \in Requests, AcceptStep(r), ~MarkAccepted(r), ~MarkExpired(r)
      PROVE  invitations' = invitations
  BY <1>2 DEF AcceptStep, Accept, FindLapsed, ActivateInvited
<1>3. ASSUME NEW r \in Requests, UserStep(r) \/ Abort(r)
      PROVE  invitations' = invitations
  BY <1>3 DEF UserStep, CreateCheck, Create, UpdateCheck, Update, Abort
<1>4. ASSUME \/ \E r \in Requests, a \in Accounts : Deactivate(r, a)
             \/ \E t \in Tokens : Expire(t)
             \/ UNCHANGED vars
      PROVE  invitations' = invitations
  BY <1>4 DEF Deactivate, Expire, vars
<1> QED
  BY <1>1, <1>2, <1>3, <1>4 DEF Next

\* An invitation document is never removed and keeps the account it is for.
InvitationsKept ==
  \A t \in Tokens : invitations[t].status # "NONE" =>
    /\ invitations'[t].status # "NONE"
    /\ invitations'[t].account = invitations[t].account

LEMMA InvitationsKeptStep ==
  ASSUME TypeOK, [Next]_vars
  PROVE  InvitationsKept
<1>1. CASE invitations' = invitations
  BY <1>1 DEF InvitationsKept
<1>2. ASSUME NEW r \in Requests, CreateInvitation(r) PROVE InvitationsKept
  BY <1>2 DEF InvitationsKept, CreateInvitation, TypeOK
<1>3. ASSUME NEW r \in Requests, MarkAccepted(r) PROVE InvitationsKept
  BY <1>3 DEF InvitationsKept, MarkAccepted, TypeOK, InvitationDocs
<1>4. ASSUME NEW r \in Requests, MarkExpired(r) PROVE InvitationsKept
  BY <1>4 DEF InvitationsKept, MarkExpired, TypeOK, InvitationDocs
<1> QED
  BY <1>1, <1>2, <1>3, <1>4, InvitationsWriters

\* What a request remembered stays true while others write.
LEMMA RefsPersist ==
  ASSUME TypeOK, InvitationRefs, UsersWrite, InvitationsKept,
         NEW r \in Requests, RefsOf(req[r]), req'[r] = req[r]
  PROVE  RefsOf(req[r])'
BY DEF RefsOf, AccountKnown, TokenKnown, InvitationRefs, UsersWrite, InvitationsKept

\* The same for the local state an acting request moves to, q.
LEMMA RefsMoved ==
  ASSUME TypeOK, InvitationRefs, RequestRefs, UsersWrite, InvitationsKept,
         NEW r \in Requests, NEW q, GoTo(r, q), RefsOf(req[r])'
  PROVE  RequestRefs'
<1> SUFFICES ASSUME NEW s \in Requests PROVE RefsOf(req[s])'
  BY DEF RequestRefs
<1>1. CASE s = r
  BY <1>1
<1>2. CASE s # r
  BY <1>2, RefsPersist DEF RequestRefs, GoTo, TypeOK
<1> QED
  BY <1>1, <1>2

\* An idle request remembers nothing.
LEMMA RefsReturned ==
  ASSUME TypeOK, InvitationRefs, RequestRefs, UsersWrite, InvitationsKept,
         NEW r \in Requests, Return(r)
  PROVE  RequestRefs'
<1>1. RefsOf(req[r])'
  BY DEF Return, GoTo, TypeOK, Idle, At, RefsOf
<1> QED
  BY <1>1, RefsMoved DEF Return

LEMMA RequestRefsStep ==
  ASSUME TypeOK, InvitationRefs, RequestRefs, [Next]_vars
  PROVE  RequestRefs'
<1>1. UsersWrite /\ InvitationsKept
  BY UsersWriteStep, InvitationsKeptStep
<1>2. CASE req' = req
  BY <1>1, <1>2, RefsPersist DEF RequestRefs
<1>3. ASSUME NEW r \in Requests, InviteStep(r) PROVE RequestRefs'
  <2>1. RefsOf(req[r])
    BY DEF RequestRefs
  <2>2. ASSUME NEW q, GoTo(r, q) PROVE req'[r] = q
    BY <2>2 DEF GoTo, TypeOK
  <2>3. ASSUME NEW e \in Emails, Invite(r, e) PROVE RequestRefs'
    <3>1. PICK a \in FindByEmail(e) :
            GoTo(r, At("findPending", e, a, NoToken, NoPatch))
      BY <2>3 DEF Invite
    <3>2. users' = users
      BY <2>3 DEF Invite
    <3>3. a = NoAccount \/ (a \in Accounts /\ Exists(a))
      BY NoValues DEF FindByEmail, Holders, Exists
    <3>4. RefsOf(req[r])'
      BY <2>2, <3>1, <3>2, <3>3 DEF RefsOf, AccountKnown, At, Exists
    <3> QED
      BY <1>1, <3>1, <3>4, RefsMoved
  <2>4. CASE InviteConflict(r)
    BY <1>1, <2>4, RefsReturned DEF InviteConflict
  <2>5. CASE InviteNoPending(r)
    <3> DEFINE next == IF req[r].account = NoAccount THEN "existsByEmail"
                                                   ELSE "resetUser"
    <3>1. GoTo(r, [req[r] EXCEPT !.pc = next])
      BY <2>5 DEF InviteNoPending
    <3>2. req[r] \in Locals
      BY ReqType
    <3>3. req'[r].pc = next /\ req'[r].account = req[r].account
      BY <2>2, <3>1, <3>2 DEF Locals
    <3>4. req[r].account = NoAccount \/ AccountKnown(req[r])
      BY <2>1, <2>5 DEF RefsOf, InviteNoPending
    <3>5. RefsOf(req[r])'
      BY <3>3, <3>4, <1>1 DEF RefsOf, AccountKnown, UsersWrite
    <3> QED
      BY <1>1, <3>1, <3>5, RefsMoved
  <2>6. CASE CreateInvitedCheck(r)
    <3> DEFINE q == [req[r] EXCEPT !.pc = "insertInvited"]
    <3>1. CASE Return(r)
      BY <1>1, <3>1, RefsReturned
    <3>2. CASE GoTo(r, q)
      <4>1. req'[r].pc = "insertInvited"
        BY <2>2, <3>2, ReqType DEF Locals
      <4>2. RefsOf(req[r])'
        BY <4>1 DEF RefsOf
      <4> QED
        BY <1>1, <3>2, <4>2, RefsMoved
    <3> QED
      BY <2>6, <3>1, <3>2 DEF CreateInvitedCheck
  <2>7. CASE CreateInvited(r)
    <3>1. CASE Return(r)
      BY <1>1, <3>1, RefsReturned
    <3>2. ASSUME NEW a \in Accounts, ~Exists(a), ~EmailTaken(req[r].email),
                 users' = [users EXCEPT ![a] =
                   [email |-> req[r].email, active |-> FALSE, password |-> FALSE]],
                 GoTo(r, [req[r] EXCEPT !.pc = "createInvitation", !.account = a])
          PROVE  RequestRefs'
      <4>1. req'[r].pc = "createInvitation" /\ req'[r].account = a
        BY <2>2, <3>2, ReqType DEF Locals
      <4>2. users'[a].email = req[r].email
        BY <3>2 DEF TypeOK
      <4>3. req[r].email # NoEmail
        BY <3>2 DEF EmailTaken, Holders, Exists
      <4>4. RefsOf(req[r])'
        BY <4>1, <4>2, <4>3 DEF RefsOf, AccountKnown, Exists
      <4> QED
        BY <1>1, <3>2, <4>4, RefsMoved
    <3> QED
      BY <2>7, <3>1, <3>2 DEF CreateInvited
  <2>8. CASE ResetUser(r)
    <3> DEFINE q == [req[r] EXCEPT !.pc = "createInvitation"]
    <3>1. GoTo(r, q) /\ req[r].pc = "resetUser"
      BY <2>8 DEF ResetUser
    <3>2. req'[r].pc = "createInvitation" /\ req'[r].account = req[r].account
      BY <2>2, <3>1, ReqType DEF Locals
    <3>3. RefsOf(req[r])'
      BY <1>1, <2>1, <3>1, <3>2 DEF RefsOf, AccountKnown, UsersWrite
    <3> QED
      BY <1>1, <3>1, <3>3, RefsMoved
  <2>9. CASE CreateInvitation(r)
    <3> DEFINE q(t) == [req[r] EXCEPT !.pc = "sendEmail", !.token = t]
    <3>1. PICK t \in Tokens :
            /\ invitations' = [invitations EXCEPT ![t] =
                 [email |-> req[r].email, account |-> req[r].account,
                  status |-> "PENDING"]]
            /\ GoTo(r, q(t))
      BY <2>9 DEF CreateInvitation
    <3>2. req'[r].pc = "sendEmail" /\ req'[r].token = t
      BY <2>2, <3>1, ReqType DEF Locals
    <3>3. invitations'[t].status = "PENDING"
      BY <3>1 DEF TypeOK
    <3>4. RefsOf(req[r])'
      BY <3>2, <3>3 DEF RefsOf, TokenKnown
    <3> QED
      BY <1>1, <3>1, <3>4, RefsMoved
  <2>10. CASE SendInviteEmail(r)
    BY <1>1, <2>10, RefsReturned DEF SendInviteEmail
  <2> QED
    BY <1>3, <2>3, <2>4, <2>5, <2>6, <2>7, <2>8, <2>9, <2>10 DEF InviteStep
<1>4. ASSUME NEW r \in Requests, AcceptStep(r) PROVE RequestRefs'
  <2>1. RefsOf(req[r])
    BY DEF RequestRefs
  <2>2. ASSUME NEW q, GoTo(r, q) PROVE req'[r] = q
    BY <2>2 DEF GoTo, TypeOK
  <2>3. ASSUME NEW t \in Tokens, Accept(r, t) PROVE RequestRefs'
    <3> DEFINE q == At("activate", NoEmail, invitations[t].account, t, NoPatch)
    <3>1. GoTo(r, q) /\ invitations' = invitations /\ invitations[t].status # "NONE"
      BY <2>3 DEF Accept, Usable
    <3>2. RefsOf(req[r])'
      BY <2>2, <3>1 DEF RefsOf, TokenKnown, At
    <3> QED
      BY <1>1, <3>1, <3>2, RefsMoved
  <2>4. ASSUME NEW t \in Tokens, FindLapsed(r, t) PROVE RequestRefs'
    <3> DEFINE q == At("markExpired", NoEmail, NoAccount, t, NoPatch)
    <3>1. GoTo(r, q) /\ invitations' = invitations /\ invitations[t].status # "NONE"
      BY <2>4 DEF FindLapsed, Lapsed
    <3>2. RefsOf(req[r])'
      BY <2>2, <3>1 DEF RefsOf, TokenKnown, At
    <3> QED
      BY <1>1, <3>1, <3>2, RefsMoved
  <2>5. CASE ActivateInvited(r)
    <3> DEFINE q == [req[r] EXCEPT !.pc = "markAccepted"]
               a == req[r].account
    <3>1. /\ GoTo(r, q) /\ invitations' = invitations /\ req[r].pc = "activate"
          /\ users' = [users EXCEPT ![a].active = TRUE, ![a].password = TRUE]
      BY <2>5 DEF ActivateInvited
    <3>2. req'[r].pc = "markAccepted" /\ req'[r].token = req[r].token
      BY <2>2, <3>1, ReqType DEF Locals
    <3>3. TokenKnown(req[r]) /\ a = invitations[req[r].token].account
      BY <2>1, <3>1 DEF RefsOf
    <3>4. a \in Accounts
      BY <3>3 DEF InvitationRefs, TokenKnown
    <3>5. users'[a].password
      BY <3>1, <3>4 DEF TypeOK, UserDocs
    <3>6. RefsOf(req[r])'
      BY <3>1, <3>2, <3>3, <3>5 DEF RefsOf, TokenKnown
    <3> QED
      BY <1>1, <3>1, <3>6, RefsMoved
  <2>6. CASE MarkAccepted(r)
    BY <1>1, <2>6, RefsReturned DEF MarkAccepted
  <2>7. CASE MarkExpired(r)
    BY <1>1, <2>7, RefsReturned DEF MarkExpired
  <2> QED
    BY <1>4, <2>3, <2>4, <2>5, <2>6, <2>7 DEF AcceptStep
<1>5. ASSUME NEW r \in Requests, UserStep(r) PROVE RequestRefs'
  <2>1. ASSUME NEW q, GoTo(r, q) PROVE req'[r] = q
    BY <2>1 DEF GoTo, TypeOK
  <2>2. ASSUME NEW e \in Emails, CreateCheck(r, e) PROVE RequestRefs'
    <3>1. GoTo(r, At("insertUser", e, NoAccount, NoToken, NoPatch))
      BY <2>2 DEF CreateCheck
    <3>2. RefsOf(req[r])'
      BY <2>1, <3>1 DEF RefsOf, At
    <3> QED
      BY <1>1, <3>1, <3>2, RefsMoved
  <2>3. CASE Create(r)
    BY <1>1, <2>3, RefsReturned DEF Create
  <2>4. ASSUME NEW a \in Accounts, NEW e \in Emails \cup {NoEmail},
             NEW p \in Patches,
               UpdateCheck(r, a, e, p)
        PROVE  RequestRefs'
    <3>1. GoTo(r, At("writeUser", e, a, NoToken, p)) /\ Exists(a) /\ users' = users
      BY <2>4 DEF UpdateCheck
    <3>2. RefsOf(req[r])'
      BY <2>1, <3>1 DEF RefsOf, At, AccountKnown, Exists
    <3> QED
      BY <1>1, <3>1, <3>2, RefsMoved
  <2>5. CASE Update(r)
    BY <1>1, <2>5, RefsReturned DEF Update
  <2> QED
    BY <1>5, <2>2, <2>3, <2>4, <2>5 DEF UserStep
<1>6. ASSUME NEW r \in Requests, Abort(r) PROVE RequestRefs'
  BY <1>1, <1>6, RefsReturned DEF Abort
<1>7. ASSUME \/ \E r \in Requests, a \in Accounts : Deactivate(r, a)
             \/ \E t \in Tokens : Expire(t)
             \/ UNCHANGED vars
      PROVE  RequestRefs'
  BY <1>2, <1>7 DEF Deactivate, Expire, vars
<1> QED
  BY <1>3, <1>4, <1>5, <1>6, <1>7 DEF Next

\* A step that writes a status writes it into the request's own document.
LEMMA MarkWrites ==
  ASSUME TypeOK, RequestRefs, NEW r \in Requests, NEW s,
         req[r].pc \in {"markAccepted", "markExpired"},
         invitations' = [invitations EXCEPT ![req[r].token].status = s],
         NEW t \in Tokens
  PROVE  /\ t = req[r].token => /\ invitations[t].status # "NONE"
                                /\ invitations'[t].status = s
                                /\ invitations'[t].account = invitations[t].account
         /\ t # req[r].token => invitations'[t] = invitations[t]
<1>1. TokenKnown(req[r])
  BY DEF RequestRefs, RefsOf
<1> QED
  BY <1>1 DEF TokenKnown, TypeOK, InvitationDocs

\* The document CreateInvitation adds is for an account that exists.
LEMMA CreateWrites ==
  ASSUME TypeOK, RequestRefs, NEW r \in Requests, CreateInvitation(r),
         NEW t \in Tokens, invitations'[t] # invitations[t]
  PROVE  /\ invitations'[t].status = "PENDING"
         /\ invitations'[t].account = req[r].account
         /\ AccountKnown(req[r])
         /\ invitations[t].status = "NONE"
<1>1. AccountKnown(req[r])
  BY DEF CreateInvitation, RequestRefs, RefsOf
<1>2. PICK u \in Tokens :
        /\ invitations[u].status = "NONE"
        /\ invitations' = [invitations EXCEPT ![u] =
             [email |-> req[r].email, account |-> req[r].account,
              status |-> "PENDING"]]
  BY DEF CreateInvitation
<1>3. u = t
  BY <1>2 DEF TypeOK
<1> QED
  BY <1>1, <1>2, <1>3 DEF TypeOK

LEMMA InvitationRefsStep ==
  ASSUME TypeOK, InvitationRefs, RequestRefs, [Next]_vars
  PROVE  InvitationRefs'
<1>1. UsersWrite /\ InvitationsKept
  BY UsersWriteStep, InvitationsKeptStep
<1> DEFINE Good(t) == /\ invitations'[t].account \in Accounts
                      /\ users'[invitations'[t].account].email # NoEmail
<1>2. ASSUME NEW t \in Tokens, invitations[t].status # "NONE"
      PROVE  Good(t)
  BY <1>1, <1>2 DEF InvitationRefs, UsersWrite, InvitationsKept, Exists
<1>3. ASSUME NEW t \in Tokens, invitations[t].status = "NONE",
             invitations'[t].status # "NONE"
      PROVE  Good(t)
  <2>1. ASSUME NEW r \in Requests, MarkAccepted(r) \/ MarkExpired(r) PROVE FALSE
    BY <1>3, <2>1, MarkWrites DEF MarkAccepted, MarkExpired
  <2>2. PICK r \in Requests : CreateInvitation(r)
    BY <1>3, <2>1, InvitationsWriters
  <2>3. AccountKnown(req[r]) /\ invitations'[t].account = req[r].account
    BY <1>3, <2>2, CreateWrites
  <2>4. users' = users
    BY <2>2 DEF CreateInvitation
  <2> QED
    BY <2>3, <2>4 DEF AccountKnown, Exists
<1> QED
  BY <1>2, <1>3 DEF InvitationRefs, Exists

LEMMA AcceptedHasCredentialStep ==
  ASSUME TypeOK, InvitationRefs, RequestRefs, AcceptedHasCredential, [Next]_vars
  PROVE  AcceptedHasCredential'
<1>1. UsersWrite /\ InvitationsKept
  BY UsersWriteStep, InvitationsKeptStep
<1>2. ASSUME NEW t \in Tokens, invitations[t].status = "ACCEPTED"
      PROVE  users'[invitations'[t].account].password
  BY <1>1, <1>2 DEF AcceptedHasCredential, InvitationRefs, UsersWrite, InvitationsKept
<1>3. ASSUME NEW t \in Tokens, invitations[t].status # "ACCEPTED",
             invitations'[t].status = "ACCEPTED"
      PROVE  users'[invitations'[t].account].password
  <2>1. ASSUME NEW r \in Requests, CreateInvitation(r) PROVE FALSE
    BY <1>3, <2>1, CreateWrites
  <2>2. ASSUME NEW r \in Requests, MarkExpired(r) PROVE FALSE
    BY <1>3, <2>2, MarkWrites DEF MarkExpired
  <2>3. PICK r \in Requests : MarkAccepted(r)
    BY <1>3, <2>1, <2>2, InvitationsWriters
  <2>4. /\ t = req[r].token
        /\ invitations'[t].account = invitations[t].account
    BY <1>3, <2>3, MarkWrites DEF MarkAccepted
  <2>5. users' = users /\ req[r].pc = "markAccepted"
    BY <2>3 DEF MarkAccepted
  <2>6. users[invitations[req[r].token].account].password
    BY <2>5 DEF RequestRefs, RefsOf
  <2> QED
    BY <2>4, <2>5, <2>6
<1> QED
  BY <1>2, <1>3 DEF AcceptedHasCredential

\* expiresAt passes for one token at a time and never comes back.
LEMMA ExpiredStep ==
  ASSUME [Next]_vars
  PROVE  expired' = expired \/ \E t \in Tokens : Expire(t)
<1>1. ASSUME NEW r \in Requests, InviteStep(r)
      PROVE  expired' = expired
  BY <1>1 DEF InviteStep, Invite, InviteConflict, InviteNoPending,
     CreateInvitedCheck, CreateInvited, ResetUser, CreateInvitation,
     SendInviteEmail
<1>2. ASSUME NEW r \in Requests, AcceptStep(r)
      PROVE  expired' = expired
  BY <1>2 DEF AcceptStep, Accept, FindLapsed, ActivateInvited,
     MarkAccepted, MarkExpired
<1>3. ASSUME NEW r \in Requests, UserStep(r) \/ Abort(r)
      PROVE  expired' = expired
  BY <1>3 DEF UserStep, CreateCheck, Create, UpdateCheck, Update, Abort
<1>4. ASSUME NEW r \in Requests, NEW a \in Accounts, Deactivate(r, a)
      PROVE  expired' = expired
  BY <1>4 DEF Deactivate
<1>5. CASE UNCHANGED vars
  BY <1>5 DEF vars
<1> QED
  BY <1>1, <1>2, <1>3, <1>4, <1>5 DEF Next

LEMMA ExpiredRefsStep ==
  ASSUME TypeOK, ExpiredRefs, [Next]_vars
  PROVE  ExpiredRefs'
<1>1. InvitationsKept
  BY InvitationsKeptStep
<1>2. CASE expired' = expired
  BY <1>1, <1>2 DEF ExpiredRefs, InvitationsKept, TypeOK
<1>3. ASSUME NEW t \in Tokens, Expire(t) PROVE ExpiredRefs'
  BY <1>3 DEF ExpiredRefs, Expire
<1> QED
  BY <1>2, <1>3, ExpiredStep

\* References are sound in every reachable state, whatever interleaves and
\* whichever requests die.
THEOREM ReferencesStaySound == Spec => []ReferencesSound
<1>1. Init => ReferencesSound
  BY DEF Init, ReferencesSound, InvitationRefs, ExpiredRefs, RequestRefs, RefsOf,
         Idle, At, NoInvitation
<1>2. TypeOK /\ ReferencesSound /\ [Next]_vars => ReferencesSound'
  BY RequestRefsStep, InvitationRefsStep, ExpiredRefsStep DEF ReferencesSound
<1> QED
  BY <1>1, <1>2, TypeCorrect, PTL DEF Spec

\* An accepted invitation's account always has a password.
THEOREM AcceptedCredential == Spec => []AcceptedHasCredential
<1>1. Init => AcceptedHasCredential
  BY DEF Init, AcceptedHasCredential, NoInvitation
<1>2. TypeOK /\ ReferencesSound /\ AcceptedHasCredential /\ [Next]_vars
        => AcceptedHasCredential'
  BY AcceptedHasCredentialStep DEF ReferencesSound
<1> QED
  BY <1>1, <1>2, TypeCorrect, ReferencesStaySound, PTL DEF Spec

-----------------------------------------------------------------------------
\* Spent links

\* Which tokens pass findUsableInvite only shrinks once they are issued.
LEMMA DeadStep ==
  ASSUME TypeOK, RequestRefs, [Next]_vars, NEW t \in Tokens, Dead(t)
  PROVE  Dead(t)'
<1>1. expired \subseteq expired'
  BY ExpiredStep DEF Expire
<1>2. CASE invitations'[t] = invitations[t]
  BY <1>1, <1>2 DEF Dead, Usable
<1>3. CASE invitations'[t] # invitations[t]
  <2>1. ASSUME NEW r \in Requests, CreateInvitation(r) PROVE FALSE
    BY <1>3, <2>1, CreateWrites DEF Dead
  <2>2. ASSUME NEW r \in Requests, MarkAccepted(r) PROVE Dead(t)'
    BY <1>3, <2>2, MarkWrites DEF MarkAccepted, Dead, Usable
  <2>3. ASSUME NEW r \in Requests, MarkExpired(r) PROVE Dead(t)'
    BY <1>3, <2>3, MarkWrites DEF MarkExpired, Dead, Usable
  <2> QED
    BY <1>3, <2>1, <2>2, <2>3, InvitationsWriters
<1> QED
  BY <1>2, <1>3

\* The one step that moves a request to the activation await is Accept.
LEMMA OnlyAcceptActivates ==
  ASSUME TypeOK, [Next]_vars, NEW r \in Requests,
         req'[r] # req[r], req'[r].pc = "activate"
  PROVE  \E t \in Tokens : Accept(r, t)
<1>1. ASSUME NEW s \in Requests, NEW q, GoTo(s, q)
      PROVE  s = r /\ q.pc = "activate"
  BY <1>1 DEF GoTo, TypeOK
<1>2. ASSUME NEW s \in Requests PROVE ~Return(s)
  BY <1>1 DEF Return, Idle, At
<1>3. ASSUME NEW s \in Requests, NEW p \in Steps, GoTo(s, [req[s] EXCEPT !.pc = p])
      PROVE  p = "activate"
  <2>1. [req[s] EXCEPT !.pc = p].pc = p
    BY ReqType DEF Locals
  <2> QED
    BY <1>1, <1>3, <2>1
<1>4. ASSUME NEW s \in Requests, InviteStep(s) PROVE FALSE
  <2>1. ASSUME NEW e \in Emails, Invite(s, e) PROVE FALSE
    BY <1>1, <2>1 DEF Invite, At
  <2>2. ~InviteConflict(s) /\ ~SendInviteEmail(s)
    BY <1>2 DEF InviteConflict, SendInviteEmail
  <2>3. ~InviteNoPending(s)
    BY <1>3 DEF InviteNoPending, Steps
  <2>4. ~CreateInvitedCheck(s)
    BY <1>2, <1>3 DEF CreateInvitedCheck, Steps
  <2>5. ~ResetUser(s)
    BY <1>3 DEF ResetUser, Steps
  <2>6. CASE CreateInvited(s)
    <3>1. \A a \in Accounts :
            [req[s] EXCEPT !.pc = "createInvitation", !.account = a].pc
              = "createInvitation"
      BY ReqType DEF Locals
    <3> QED
      BY <1>1, <1>2, <2>6, <3>1 DEF CreateInvited
  <2>7. CASE CreateInvitation(s)
    <3>1. \A t \in Tokens :
            [req[s] EXCEPT !.pc = "sendEmail", !.token = t].pc = "sendEmail"
      BY ReqType DEF Locals
    <3> QED
      BY <1>1, <2>7, <3>1 DEF CreateInvitation
  <2> QED
    BY <1>4, <2>1, <2>2, <2>3, <2>4, <2>5, <2>6, <2>7 DEF InviteStep
<1>5. ASSUME NEW s \in Requests, UserStep(s) \/ Abort(s) PROVE FALSE
  <2>1. ~Create(s) /\ ~Update(s) /\ ~Abort(s)
    BY <1>2 DEF Create, Update, Abort
  <2>2. ASSUME NEW e \in Emails, CreateCheck(s, e) PROVE FALSE
    BY <1>1, <2>2 DEF CreateCheck, At
  <2>3. ASSUME NEW a \in Accounts, NEW e \in Emails \cup {NoEmail},
             NEW p \in Patches,
               UpdateCheck(s, a, e, p)
        PROVE  FALSE
    BY <1>1, <2>3 DEF UpdateCheck, At
  <2> QED
    BY <1>5, <2>1, <2>2, <2>3 DEF UserStep
<1>6. ASSUME NEW s \in Requests, AcceptStep(s)
      PROVE  \E t \in Tokens : Accept(r, t)
  <2>1. ~MarkAccepted(s) /\ ~MarkExpired(s)
    BY <1>2 DEF MarkAccepted, MarkExpired
  <2>2. ~ActivateInvited(s)
    BY <1>3 DEF ActivateInvited, Steps
  <2>3. ASSUME NEW t \in Tokens, FindLapsed(s, t) PROVE FALSE
    BY <1>1, <2>3 DEF FindLapsed, At
  <2>4. ASSUME NEW t \in Tokens, Accept(s, t) PROVE s = r
    BY <1>1, <2>4 DEF Accept
  <2> QED
    BY <1>6, <2>1, <2>2, <2>3, <2>4 DEF AcceptStep
<1>7. ASSUME \/ \E s \in Requests, a \in Accounts : Deactivate(s, a)
             \/ \E t \in Tokens : Expire(t)
             \/ UNCHANGED vars
      PROVE  FALSE
  BY <1>7 DEF Deactivate, Expire, vars
<1> QED
  BY <1>4, <1>5, <1>6, <1>7 DEF Next

\* A token comes to be held only by an accept that found it usable.
LEMMA HeldStep ==
  ASSUME TypeOK, [Next]_vars, NEW t \in Tokens, Held(t)', ~Held(t)
  PROVE  Usable(t)
<1>1. PICK r \in Requests : req'[r].pc = "activate" /\ req'[r].token = t
  BY DEF Held
<1>2. req'[r] # req[r]
  BY <1>1 DEF Held
<1>3. PICK u \in Tokens : Accept(r, u)
  BY <1>1, <1>2, OnlyAcceptActivates
<1>4. req'[r].token = u
  BY <1>3 DEF Accept, GoTo, TypeOK, At
<1> QED
  BY <1>1, <1>3, <1>4 DEF Accept

\* Once findUsableInvite would refuse a link and nobody is past it, the link
\* can never activate an account again.
THEOREM SpentLinksStaySpent == Spec => SpentStaysSpent
<1>1. ASSUME TypeOK, RequestRefs, [Next]_vars, NEW t \in Tokens, Spent(t)
      PROVE  Spent(t)'
  BY <1>1, DeadStep, HeldStep DEF Spent, Dead
<1>2. TypeOK /\ ReferencesSound /\ [Next]_vars
        => [\A t \in Tokens : Spent(t) => Spent(t)']_vars
  BY <1>1 DEF ReferencesSound
<1> QED
  BY <1>2, TypeCorrect, ReferencesStaySound, PTL DEF Spec, SpentStaysSpent

-----------------------------------------------------------------------------
\* Invitations implements Onboarding

\* How a step of Invitations can look through the refinement mapping.
AbstractStep == [Promise!Next]_(Promise!vars)

SameLink(t) == LinkState(t)' = LinkState(t)

\* Nothing a client of Onboarding could see has changed.
LEMMA AbstractStutter ==
  ASSUME \A t \in Tokens : SameLink(t), UNCHANGED <<Owners, Grants, Members>>
  PROVE  AbstractStep
BY DEF AbstractStep, Promise!vars, SameLink, LinkMap

\* One link was closed, or nothing happened.
LEMMA AbstractClose ==
  ASSUME NEW t \in Tokens, \A u \in Tokens \ {t} : SameLink(u),
         LinkState(t) = "open", LinkState(t)' = "closed",
         UNCHANGED <<Owners, Grants, Members>>
  PROVE  AbstractStep
<1>1. LinkMap[t] = "open"
  BY DEF LinkMap
<1>2. LinkMap' = [LinkMap EXCEPT ![t] = "closed"]
  BY DEF LinkMap, SameLink
<1>3. Promise!CloseLink(t)
  BY <1>1, <1>2 DEF Promise!CloseLink
<1> QED
  BY <1>3 DEF AbstractStep, Promise!Next

\* An account that was not invited registered, or nothing happened.
LEMMA AbstractRegister ==
  ASSUME NEW a \in Accounts, \A t \in Tokens : SameLink(t),
         UNCHANGED <<Owners, Grants>>,
         \A t \in Tokens : invitations[t].status # "NONE" =>
           invitations[t].account # a,
         Members' = Members \cup {a}
  PROVE  AbstractStep
<1>1. UNCHANGED LinkMap
  BY DEF LinkMap, SameLink
<1>2. ~Promise!Invited(a)
  BY DEF Promise!Invited, LinkMap, LinkState, Owners
<1>3. Promise!Register(a)
  BY <1>1, <1>2 DEF Promise!Register
<1> QED
  BY <1>3 DEF AbstractStep, Promise!Next

\* An administrator's update of a comes to its write, or dies before it.
LEMMA AbstractGrant ==
  ASSUME NEW a \in Accounts, \A t \in Tokens : SameLink(t), UNCHANGED Owners,
         \/ Grants' = Grants \cup {a} /\ UNCHANGED Members
         \/ /\ a \in Grants
            /\ Grants' \in {Grants, Grants \ {a}}
            /\ Members' \in {Members, Members \cup {a}}
  PROVE  AbstractStep
<1>1. UNCHANGED LinkMap
  BY DEF LinkMap, SameLink
<1>2. Promise!BeginGrant(a) \/ Promise!EndGrant(a)
  BY <1>1 DEF Promise!BeginGrant, Promise!EndGrant
<1> QED
  BY <1>2 DEF AbstractStep, Promise!Next

\* A step of a request that neither was nor will be past findUsableInvite
\* holds no token, before or after.
LEMMA HeldSame ==
  ASSUME TypeOK, NEW r \in Requests, NEW q, GoTo(r, q),
         req[r].pc # "activate", q.pc # "activate", NEW t \in Tokens
  PROVE  Held(t)' = Held(t)
BY DEF GoTo, TypeOK, Held

\* Nor does one that neither was nor will be at update's write grant anything.
LEMMA GrantsSame ==
  ASSUME TypeOK, NEW r \in Requests, NEW q, GoTo(r, q),
         req[r].pc # "writeUser", q.pc # "writeUser"
  PROVE  UNCHANGED Grants
BY DEF GoTo, TypeOK, Grants, Granting

\* A request that leaves update's write ends at most its own grant.
LEMMA GrantEnds ==
  ASSUME TypeOK, NEW r \in Requests, Return(r), req[r].pc = "writeUser"
  PROVE  /\ Grants' \in {Grants, Grants \ {req[r].account}}
         /\ ~req[r].patch.password => UNCHANGED Grants
<1>1. req' = [req EXCEPT ![r] = Idle] /\ Idle.pc = "idle"
  BY DEF Return, GoTo, Idle, At
<1>2. \A a \in Accounts \ {req[r].account} : a \in Grants <=> a \in Grants'
  BY <1>1 DEF Grants, Granting, TypeOK
<1>3. req[r].account \in Grants' => req[r].account \in Grants
  BY <1>1 DEF Grants, Granting, TypeOK
<1>4. Grants \subseteq Accounts /\ Grants' \subseteq Accounts
  BY DEF Grants
<1>5. ~req[r].patch.password => UNCHANGED Grants
  BY <1>1 DEF Grants, Granting, TypeOK
<1> HIDE DEF Grants
<1> QED
  BY <1>2, <1>3, <1>4, <1>5

LEMMA LinkSame ==
  ASSUME NEW t \in Tokens, invitations'[t] = invitations[t],
         t \in expired' <=> t \in expired, Held(t)' = Held(t)
  PROVE  SameLink(t)
BY DEF SameLink, LinkState, Spent, Dead, Usable

\* The links a step that holds no token leaves as they were.
LEMMA QuietLinks ==
  ASSUME TypeOK, NEW r \in Requests, NEW q, GoTo(r, q),
         req[r].pc # "activate", q.pc # "activate",
         UNCHANGED <<invitations, expired>>
  PROVE  /\ \A t \in Tokens : SameLink(t)
         /\ UNCHANGED Owners
<1>1. \A t \in Tokens : Held(t)' = Held(t)
  BY HeldSame
<1> QED
  BY <1>1, LinkSame DEF Owners

LEMMA QuietStep ==
  ASSUME TypeOK, NEW r \in Requests, NEW q, GoTo(r, q),
         req[r].pc \notin {"activate", "writeUser"},
         q.pc \notin {"activate", "writeUser"},
         UNCHANGED <<invitations, expired, Members>>
  PROVE  AbstractStep
BY QuietLinks, GrantsSame, AbstractStutter

LEMMA SameMembers ==
  ASSUME users' = users
  PROVE  UNCHANGED Members
BY DEF Members, Exists

\* The pc a handler sets is the one its next await names.
LEMMA SetPc ==
  ASSUME TypeOK, NEW r \in Requests, NEW s
  PROVE  /\ [req[r] EXCEPT !.pc = s].pc = s
         /\ \A a : [req[r] EXCEPT !.pc = s, !.account = a].pc = s
         /\ \A t : [req[r] EXCEPT !.pc = s, !.token = t].pc = s
BY ReqType DEF Locals

LEMMA QuietMove ==
  ASSUME TypeOK, NEW r \in Requests, NEW s, s \notin {"activate", "writeUser"},
         GoTo(r, [req[r] EXCEPT !.pc = s]),
         req[r].pc \notin {"activate", "writeUser"},
         UNCHANGED <<invitations, expired, Members>>
  PROVE  AbstractStep
<1> DEFINE q == [req[r] EXCEPT !.pc = s]
<1>1. q.pc = s
  BY SetPc
<1>2. GoTo(r, q)
  OBVIOUS
<1> HIDE DEF q
<1> QED
  BY <1>1, <1>2, QuietStep

LEMMA InviteRefines ==
  ASSUME TypeOK, ReferencesSound, NEW r \in Requests, InviteStep(r)
  PROVE  AbstractStep
<1> USE QuietStep, SetPc, SameMembers DEF Return, At, Idle
<1>1. ASSUME NEW e \in Emails, Invite(r, e) PROVE AbstractStep
  BY <1>1 DEF Invite
<1>2. CASE InviteConflict(r)
  BY <1>2 DEF InviteConflict
<1>3. CASE InviteNoPending(r)
  <2>1. PICK s \in {"existsByEmail", "resetUser"} : GoTo(r, [req[r] EXCEPT !.pc = s])
    BY <1>3 DEF InviteNoPending
  <2> QED
    BY <1>3, <2>1, QuietMove DEF InviteNoPending
<1>4. CASE CreateInvitedCheck(r)
  BY <1>4, QuietMove DEF CreateInvitedCheck
<1>5. CASE CreateInvited(r)
  <2>1. CASE EmailTaken(req[r].email)
    BY <1>5, <2>1 DEF CreateInvited
  <2>2. CASE ~EmailTaken(req[r].email)
    <3>1. PICK a \in Accounts :
            /\ ~Exists(a)
            /\ users' = [users EXCEPT ![a] =
                 [email |-> req[r].email, active |-> FALSE, password |-> FALSE]]
            /\ GoTo(r, [req[r] EXCEPT !.pc = "createInvitation", !.account = a])
      BY <1>5, <2>2 DEF CreateInvited
    <3>2. UNCHANGED Members
      BY <3>1 DEF Members, Exists, TypeOK
    <3> DEFINE q == [req[r] EXCEPT !.pc = "createInvitation", !.account = a]
    <3>3. q.pc = "createInvitation"
      BY SetPc
    <3>4. /\ GoTo(r, q) /\ UNCHANGED <<invitations, expired>>
          /\ req[r].pc = "insertInvited"
      BY <1>5, <3>1 DEF CreateInvited
    <3> HIDE DEF q
    <3> QED
      BY <3>2, <3>3, <3>4, QuietStep
  <2> QED
    BY <2>1, <2>2
<1>6. CASE ResetUser(r)
  <2>1. UNCHANGED Members
    BY <1>6 DEF ResetUser, Members, Exists, TypeOK, UserDocs
  <2> QED
    BY <1>6, <2>1, QuietMove DEF ResetUser
<1>7. CASE CreateInvitation(r)
  <2> DEFINE doc == [email |-> req[r].email, account |-> req[r].account,
                     status |-> "PENDING"]
             q(t) == [req[r] EXCEPT !.pc = "sendEmail", !.token = t]
  <2>1. PICK t \in Tokens : /\ invitations[t].status = "NONE"
                            /\ invitations' = [invitations EXCEPT ![t] = doc]
                            /\ GoTo(r, q(t))
    BY <1>7 DEF CreateInvitation
  <2>2. (\A u \in Tokens : Held(u)' = Held(u)) /\ UNCHANGED Grants
    <3>1. q(t).pc = "sendEmail" /\ req[r].pc = "createInvitation"
      BY <1>7, SetPc DEF CreateInvitation
    <3> HIDE DEF q
    <3> QED
      BY <2>1, <3>1, HeldSame, GrantsSame
  <2>3. expired' = expired /\ users' = users
    BY <1>7 DEF CreateInvitation
  <2>4. \A u \in Tokens \ {t} : SameLink(u)
    BY <2>1, <2>2, <2>3, LinkSame DEF TypeOK
  <2>5. invitations'[t] = doc
    BY <2>1 DEF TypeOK
  <2>6. LinkState(t) = "unissued" /\ LinkState(t)' = "open"
    BY <2>1, <2>3, <2>5
       DEF LinkState, Spent, Dead, Usable, ReferencesSound, ExpiredRefs
  <2>7. LinkMap[t] = "unissued" /\ LinkMap' = [LinkMap EXCEPT ![t] = "open"]
    BY <2>4, <2>6 DEF LinkMap, SameLink
  <2>8. Owners' = [Owners EXCEPT ![t] = req[r].account]
    BY <2>1, <2>5 DEF Owners, TypeOK
  <2>9. req[r].account \in Accounts
    BY <1>7 DEF CreateInvitation, ReferencesSound, RequestRefs, RefsOf, AccountKnown
  <2>10. Promise!IssueLink(t, req[r].account)
    BY <2>2, <2>3, <2>7, <2>8, SameMembers DEF Promise!IssueLink
  <2> QED
    BY <2>9, <2>10 DEF AbstractStep, Promise!Next
<1>8. CASE SendInviteEmail(r)
  BY <1>8 DEF SendInviteEmail
<1> QED
  BY <1>1, <1>2, <1>3, <1>4, <1>5, <1>6, <1>7, <1>8 DEF InviteStep

\* A step that touches one token and no account closes its link or hides.
LEMMA CloseOrStutter ==
  ASSUME TypeOK, RequestRefs, [Next]_vars, NEW t \in Tokens,
         \A u \in Tokens \ {t} : SameLink(u),
         invitations[t].status # "NONE", InvitationsKept,
         UNCHANGED <<Owners, Grants, Members>>
  PROVE  AbstractStep
<1>1. LinkState(t) \in {"open", "closed"} /\ LinkState(t)' \in {"open", "closed"}
  BY DEF LinkState, InvitationsKept
<1>2. CASE LinkState(t)' = LinkState(t)
  BY <1>2, AbstractStutter DEF SameLink
<1>3. CASE LinkState(t) = "open" /\ LinkState(t)' = "closed"
  BY <1>3, AbstractClose
<1>4. ~(LinkState(t) = "closed" /\ LinkState(t)' = "open")
  BY DeadStep, HeldStep DEF LinkState, Spent, Dead
<1> QED
  BY <1>1, <1>2, <1>3, <1>4

LEMMA AcceptRefines ==
  ASSUME TypeOK, ReferencesSound, NEW r \in Requests, AcceptStep(r)
  PROVE  AbstractStep
<1> USE DEF ReferencesSound
<1>1. [Next]_vars /\ InvitationsKept
  BY InvitationsKeptStep DEF Next
<1>2. ASSUME NEW t \in Tokens, Accept(r, t) PROVE AbstractStep
  <2>1. /\ UNCHANGED <<invitations, expired>> /\ users' = users
        /\ req[r].pc = "idle" /\ Usable(t)
        /\ req' = [req EXCEPT ![r] =
             At("activate", NoEmail, invitations[t].account, t, NoPatch)]
    BY <1>2 DEF Accept, GoTo
  <2>2. \A u \in Tokens \ {t} : Held(u)' = Held(u)
    BY <2>1 DEF Held, At, TypeOK
  <2>3. \A u \in Tokens \ {t} : SameLink(u)
    BY <2>1, <2>2, LinkSame
  <2>4. UNCHANGED <<Owners, Grants, Members>>
    <3>1. UNCHANGED <<Owners, Members>>
      BY <2>1, SameMembers DEF Owners
    <3>2. UNCHANGED Grants
      BY <2>1 DEF Grants, Granting, At, TypeOK
    <3> QED
      BY <3>1, <3>2
  <2>5. invitations[t].status # "NONE"
    BY <2>1 DEF Usable
  <2> QED
    BY <1>1, <2>3, <2>4, <2>5, CloseOrStutter
<1>3. ASSUME NEW t \in Tokens, FindLapsed(r, t) PROVE AbstractStep
  BY <1>3, QuietStep, SameMembers DEF FindLapsed, At
<1>4. CASE ActivateInvited(r)
  <2>1. /\ req[r].pc = "activate" /\ UNCHANGED <<invitations, expired>>
        /\ users' = [users EXCEPT ![req[r].account].active = TRUE,
                                  ![req[r].account].password = TRUE]
        /\ GoTo(r, [req[r] EXCEPT !.pc = "markAccepted"])
    BY <1>4 DEF ActivateInvited
  <2>2. /\ TokenKnown(req[r])
        /\ req[r].account = invitations[req[r].token].account
    BY <2>1 DEF RequestRefs, RefsOf
  <2>3. PICK t \in Tokens, a \in Accounts :
          /\ t = req[r].token /\ a = req[r].account /\ a = invitations[t].account
          /\ invitations[t].status # "NONE" /\ Exists(a)
    BY <2>2 DEF TokenKnown, InvitationRefs
  <2>4. req' = [req EXCEPT ![r].pc = "markAccepted"]
    BY <2>1 DEF GoTo, TypeOK
  <2>5. \A u \in Tokens \ {t} : Held(u)' = Held(u)
    BY <2>1, <2>3, <2>4 DEF Held, TypeOK, Locals
  <2>6. \A u \in Tokens \ {t} : SameLink(u)
    BY <2>1, <2>5, LinkSame
  <2>7. LinkState(t) = "open"
    BY <2>1, <2>3 DEF LinkState, Spent, Held
  <2>8. LinkState(t)' \in {"open", "closed"}
    BY <2>1, <2>3 DEF LinkState
  <2>9. Members' = Members \cup {a}
    BY <2>1, <2>3 DEF Members, Exists, TypeOK, UserDocs
  <2>10. Owners' = Owners /\ Owners[t] = a /\ UNCHANGED Grants
    <3>1. Owners' = Owners /\ Owners[t] = a
      BY <2>1, <2>2, <2>3 DEF Owners
    <3>2. [req[r] EXCEPT !.pc = "markAccepted"].pc = "markAccepted"
      BY SetPc
    <3>3. UNCHANGED Grants
      BY <2>1, <3>2, GrantsSame
    <3> QED
      BY <3>1, <3>3
  <2>11. LinkMap[t] = "open" /\ LinkMap' = [LinkMap EXCEPT ![t] = LinkState(t)']
    BY <2>3, <2>6, <2>7 DEF LinkMap, SameLink
  <2>12. Promise!UseLink(t)
    BY <2>8, <2>9, <2>10, <2>11 DEF Promise!UseLink
  <2> QED
    BY <2>3, <2>12 DEF AbstractStep, Promise!Next
<1>5. CASE MarkAccepted(r) \/ MarkExpired(r)
  <2> DEFINE t == req[r].token
  <2>1. /\ req[r].pc \in {"markAccepted", "markExpired"} /\ users' = users
        /\ \E s : invitations' = [invitations EXCEPT ![t].status = s]
        /\ Return(r) /\ expired' = expired
    BY <1>5 DEF MarkAccepted, MarkExpired
  <2>2. t \in Tokens /\ invitations[t].status # "NONE"
    BY <2>1 DEF RequestRefs, RefsOf, TokenKnown
  <2>3. \A u \in Tokens : /\ invitations'[u].account = invitations[u].account
                          /\ u # t => invitations'[u] = invitations[u]
    BY <2>1, <2>2 DEF TypeOK, InvitationDocs
  <2>4. \A u \in Tokens : Held(u)' = Held(u)
    BY <2>1, HeldSame DEF Return, Idle, At
  <2>5. \A u \in Tokens \ {t} : SameLink(u)
    BY <2>1, <2>3, <2>4, LinkSame
  <2>6. UNCHANGED <<Owners, Grants, Members>>
    BY <2>1, <2>3, SameMembers, GrantsSame DEF Owners, Return, Idle, At
  <2> QED
    BY <1>1, <2>2, <2>5, <2>6, CloseOrStutter
<1> QED
  BY <1>2, <1>3, <1>4, <1>5 DEF AcceptStep

\* The members after a write to one account that keeps its password.
LEMMA OneMember ==
  ASSUME UsersWrite, NEW a \in Accounts,
         \A b \in Accounts \ {a} : users'[b] = users[b]
  PROVE  Members' \in {Members, Members \cup {a}}
<1>1. \A b \in Accounts \ {a} : b \in Members <=> b \in Members'
  BY DEF Members, Exists
<1>2. a \in Members => a \in Members'
  BY DEF Members, Exists, UsersWrite
<1>3. Members \subseteq Accounts /\ Members' \subseteq Accounts
  BY DEF Members
<1> QED
  BY <1>1, <1>2, <1>3

LEMMA UserRefines ==
  ASSUME TypeOK, ReferencesSound, NEW r \in Requests, UserStep(r)
  PROVE  AbstractStep
<1>1. UsersWrite
  BY UsersWriteStep DEF Next
<1>2. ASSUME NEW e \in Emails, CreateCheck(r, e) PROVE AbstractStep
  BY <1>2, QuietStep, SameMembers DEF CreateCheck, At
<1>3. ASSUME NEW a \in Accounts, NEW e \in Emails \cup {NoEmail},
             NEW p \in Patches, UpdateCheck(r, a, e, p)
      PROVE  AbstractStep
  <2> DEFINE q == At("writeUser", e, a, NoToken, p)
  <2>1. /\ req[r].pc = "idle" /\ GoTo(r, q) /\ users' = users
        /\ UNCHANGED <<invitations, expired>>
    BY <1>3 DEF UpdateCheck
  <2>2. q.pc = "writeUser" /\ q.account = a /\ q.patch = p
    BY DEF At
  <2> HIDE DEF q
  <2>3. (\A t \in Tokens : SameLink(t)) /\ UNCHANGED Owners
    BY <2>1, <2>2, QuietLinks
  <2>4. req' = [req EXCEPT ![r] = q]
    BY <2>1 DEF GoTo
  <2>5. Grants' = Grants \/ Grants' = Grants \cup {a}
    BY <2>1, <2>2, <2>4 DEF Grants, Granting, TypeOK
  <2> QED
    BY <2>1, <2>3, <2>5, SameMembers, AbstractStutter, AbstractGrant
<1>4. ASSUME req[r].pc # "activate", Return(r), UNCHANGED <<invitations, expired>>
      PROVE  (\A t \in Tokens : SameLink(t)) /\ UNCHANGED Owners
  BY <1>4, QuietLinks DEF Return, Idle, At
<1>5. CASE Create(r)
  <2>1. /\ req[r].pc = "insertUser" /\ Return(r) /\ UNCHANGED <<invitations, expired>>
    BY <1>5 DEF Create
  <2>2. UNCHANGED <<Owners, Grants>> /\ \A t \in Tokens : SameLink(t)
    BY <1>4, <2>1, GrantsSame DEF Return, Idle, At
  <2>3. CASE users' = users
    BY <2>2, <2>3, SameMembers, AbstractStutter
  <2>4. CASE users' # users
    <3>1. PICK a \in Accounts : ~Exists(a) /\ \A b \in Accounts \ {a} : users'[b] = users[b]
      BY <1>5, <2>4 DEF Create, TypeOK
    <3>2. \A t \in Tokens : invitations[t].status # "NONE" =>
            invitations[t].account # a
      BY <3>1 DEF ReferencesSound, InvitationRefs
    <3> QED
      BY <1>1, <2>2, <3>1, <3>2, OneMember, AbstractStutter, AbstractRegister
  <2> QED
    BY <2>3, <2>4
<1>6. CASE Update(r)
  <2>1. PICK a \in Accounts : a = req[r].account /\ Exists(a)
    BY <1>6 DEF Update, ReferencesSound, RequestRefs, RefsOf, AccountKnown
  <2>2. /\ req[r].pc = "writeUser" /\ Return(r) /\ UNCHANGED <<invitations, expired>>
    BY <1>6 DEF Update
  <2>3. UNCHANGED Owners /\ \A t \in Tokens : SameLink(t)
    BY <1>4, <2>2
  <2>4. \A b \in Accounts \ {a} : users'[b] = users[b]
    BY <1>6, <2>1 DEF Update, TypeOK
  <2>5. Members' \in {Members, Members \cup {a}}
    BY <1>1, <2>4, OneMember
  <2>6. Grants' \in {Grants, Grants \ {a}}
    BY <2>1, <2>2, GrantEnds
  <2>7. CASE req[r].patch.password
    <3>1. a \in Grants
      BY <2>1, <2>2, <2>7 DEF Grants, Granting
    <3> QED
      BY <2>3, <2>5, <2>6, <3>1, AbstractGrant
  <2>8. CASE ~req[r].patch.password
    <3>1. users'[a].password = users[a].password
      BY <1>6, <2>1, <2>8 DEF Update, Patched, TypeOK, UserDocs
    <3>2. Members' = Members
      BY <1>1, <2>1, <2>4, <2>5, <3>1 DEF Members, UsersWrite
    <3>3. UNCHANGED Grants
      BY <2>2, <2>8, GrantEnds
    <3> QED
      BY <2>3, <3>2, <3>3, AbstractStutter
  <2> QED
    BY <2>7, <2>8
<1> QED
  BY <1>2, <1>3, <1>5, <1>6 DEF UserStep

LEMMA AbortRefines ==
  ASSUME TypeOK, ReferencesSound, NEW r \in Requests, Abort(r)
  PROVE  AbstractStep
<1> USE DEF ReferencesSound
<1>1. [Next]_vars /\ InvitationsKept
  BY InvitationsKeptStep DEF Next
<1>2. /\ UNCHANGED <<invitations, expired>> /\ users' = users
      /\ Return(r) /\ GoTo(r, Idle) /\ Idle.pc = "idle"
  BY DEF Abort, Return, Idle, At
<1>3. UNCHANGED <<Owners, Members>>
  BY <1>2, SameMembers DEF Owners
<1>4. CASE req[r].pc \notin {"activate", "writeUser"}
  BY <1>2, <1>3, <1>4, QuietStep
<1>5. CASE req[r].pc = "activate"
  <2>1. PICK t \in Tokens : t = req[r].token /\ invitations[t].status # "NONE"
    BY <1>5 DEF RequestRefs, RefsOf, TokenKnown
  <2>2. \A u \in Tokens \ {t} : Held(u)' = Held(u)
    BY <1>2, <1>5, <2>1 DEF Held, GoTo, TypeOK
  <2>3. \A u \in Tokens \ {t} : SameLink(u)
    BY <1>2, <2>2, LinkSame
  <2>4. UNCHANGED Grants
    BY <1>2, <1>5, GrantsSame
  <2> QED
    BY <1>1, <1>3, <2>1, <2>3, <2>4, CloseOrStutter
<1>6. CASE req[r].pc = "writeUser"
  <2>1. req[r].account \in Accounts
    BY <1>6 DEF RequestRefs, RefsOf, AccountKnown
  <2>2. \A t \in Tokens : SameLink(t)
    BY <1>2, <1>6, QuietLinks
  <2>3. \/ Grants' = Grants
        \/ req[r].account \in Grants /\ Grants' = Grants \ {req[r].account}
    BY <1>2, <1>6, GrantEnds
  <2> QED
    BY <1>3, <2>1, <2>2, <2>3, AbstractStutter, AbstractGrant
<1> QED
  BY <1>4, <1>5, <1>6

LEMMA OtherRefines ==
  ASSUME TypeOK, ReferencesSound, [Next]_vars,
         \/ \E r \in Requests, a \in Accounts : Deactivate(r, a)
         \/ \E t \in Tokens : Expire(t)
         \/ UNCHANGED vars
  PROVE  AbstractStep
<1> USE DEF ReferencesSound
<1>1. InvitationsKept
  BY InvitationsKeptStep
<1>2. ASSUME UNCHANGED <<invitations, expired, req>>
      PROVE  (\A t \in Tokens : SameLink(t)) /\ UNCHANGED <<Owners, Grants>>
  BY <1>2 DEF SameLink, LinkState, Spent, Dead, Usable, Held, Owners, Grants
<1>3. ASSUME NEW r \in Requests, NEW a \in Accounts, Deactivate(r, a)
      PROVE  AbstractStep
  <2>1. UNCHANGED <<invitations, expired, req>>
    BY <1>3 DEF Deactivate
  <2>2. UNCHANGED Members
    BY <1>3 DEF Deactivate, Members, Exists, TypeOK, UserDocs
  <2> QED
    BY <1>2, <2>1, <2>2, AbstractStutter
<1>4. ASSUME NEW t \in Tokens, Expire(t) PROVE AbstractStep
  <2>1. /\ UNCHANGED <<invitations, req>> /\ users' = users
        /\ expired' = expired \cup {t} /\ invitations[t].status # "NONE"
    BY <1>4 DEF Expire
  <2>2. \A u \in Tokens \ {t} : SameLink(u)
    BY <2>1 DEF SameLink, LinkState, Spent, Dead, Usable, Held
  <2>3. UNCHANGED <<Owners, Grants, Members>>
    BY <2>1, SameMembers DEF Owners, Grants
  <2> QED
    BY <1>1, <2>1, <2>2, <2>3, CloseOrStutter
<1>5. CASE UNCHANGED vars
  BY <1>2, <1>5, AbstractStutter, SameMembers DEF vars
<1> QED
  BY <1>3, <1>4, <1>5

\* UsersService and InvitationsService implement Onboarding: no interleaving,
\* expiry or crash gives an invited account a password except through an open
\* link issued for it or by an update that carries one.
THEOREM OnboardingImplemented == Spec => ImplementsOnboarding
<1>1. Init => Promise!Init
  BY DEF Init, Promise!Init, LinkMap, LinkState, Owners, Members, Exists,
         Grants, Granting, Idle, At, NoUser, NoInvitation
<1>2. TypeOK /\ ReferencesSound /\ [Next]_vars => [Promise!Next]_(Promise!vars)
  BY InviteRefines, AcceptRefines, UserRefines, AbortRefines, OtherRefines
     DEF Next, AbstractStep
<1> QED
  BY <1>1, <1>2, TypeCorrect, ReferencesStaySound, PTL
     DEF Spec, ImplementsOnboarding, Promise!Spec

-----------------------------------------------------------------------------
\* One request at a time

LEMMA SerialMoved ==
  ASSUME Serial, TypeOK, NEW r \in Requests, ReadsHold(req[r])'
  PROVE  SerialReads'
BY DEF Serial, SerialReads

LEMMA SerialReturned ==
  ASSUME Serial, TypeOK, NEW r \in Requests, Return(r)
  PROVE  SerialReads'
<1>1. ReadsHold(req[r])'
  BY DEF Return, GoTo, TypeOK, Idle, At, ReadsHold
<1> QED
  BY <1>1, SerialMoved

\* The pending invitations depend on the invitations alone.
LEMMA SamePending ==
  ASSUME invitations' = invitations, NEW e
  PROVE  PendingFor(e)' = PendingFor(e)
BY DEF PendingFor

LEMMA SerialInvite ==
  ASSUME Serial, TypeOK, SerialReads, ReferencesSound,
         NEW r \in Requests, InviteStep(r)
  PROVE  SerialReads'
<1> USE SerialMoved, SerialReturned
<1>1. ReadsHold(req[r])
  BY DEF SerialReads
<1>2. ASSUME NEW q, GoTo(r, q) PROVE req'[r] = q
  BY <1>2 DEF GoTo, TypeOK
<1>3. ASSUME NEW e \in Emails, Invite(r, e) PROVE SerialReads'
  <2>1. PICK a \in FindByEmail(e) :
          /\ a # NoAccount => ~users[a].active
          /\ GoTo(r, At("findPending", e, a, NoToken, NoPatch))
    BY <1>3 DEF Invite
  <2>2. users' = users
    BY <1>3 DEF Invite
  <2>3. ReadsHold(req[r])'
    BY <1>2, <2>1, <2>2 DEF ReadsHold, At
  <2> QED
    BY <2>3
<1>4. CASE InviteConflict(r) \/ SendInviteEmail(r)
  BY <1>4 DEF InviteConflict, SendInviteEmail
<1>5. CASE InviteNoPending(r)
  <2> DEFINE next == IF req[r].account = NoAccount THEN "existsByEmail"
                                                 ELSE "resetUser"
  <2>1. /\ GoTo(r, [req[r] EXCEPT !.pc = next])
        /\ UNCHANGED <<users, invitations>>
        /\ req[r].pc = "findPending" /\ PendingFor(req[r].email) = {}
    BY <1>5 DEF InviteNoPending
  <2>2. /\ req'[r].pc = next /\ req'[r].account = req[r].account
        /\ req'[r].email = req[r].email
    BY <1>2, <2>1, ReqType DEF Locals
  <2>3. ReadsHold(req[r])'
    BY <1>1, <2>1, <2>2 DEF ReadsHold, PendingFor
  <2> QED
    BY <2>3
<1>6. CASE CreateInvitedCheck(r) /\ ~Return(r)
  <2>1. /\ GoTo(r, [req[r] EXCEPT !.pc = "insertInvited"])
        /\ req[r].pc = "existsByEmail" /\ UNCHANGED invitations
    BY <1>6 DEF CreateInvitedCheck
  <2>2. req'[r].pc = "insertInvited" /\ req'[r].email = req[r].email
    BY <1>2, <2>1, ReqType DEF Locals
  <2>3. ReadsHold(req[r])'
    BY <1>1, <2>1, <2>2 DEF ReadsHold, PendingFor
  <2> QED
    BY <2>3
<1>7. CASE CreateInvited(r) /\ ~Return(r)
  <2>1. PICK a \in Accounts :
          GoTo(r, [req[r] EXCEPT !.pc = "createInvitation", !.account = a])
    BY <1>7 DEF CreateInvited
  <2>2. req[r].pc = "insertInvited" /\ UNCHANGED invitations
    BY <1>7 DEF CreateInvited
  <2>3. req'[r].pc = "createInvitation" /\ req'[r].email = req[r].email
    BY <1>2, <2>1, ReqType DEF Locals
  <2>4. ReadsHold(req[r])'
    BY <1>1, <2>2, <2>3 DEF ReadsHold, PendingFor
  <2> QED
    BY <2>4
<1>8. CASE ResetUser(r)
  <2>1. /\ GoTo(r, [req[r] EXCEPT !.pc = "createInvitation"])
        /\ req[r].pc = "resetUser" /\ UNCHANGED invitations
    BY <1>8 DEF ResetUser
  <2>2. req'[r].pc = "createInvitation" /\ req'[r].email = req[r].email
    BY <1>2, <2>1, ReqType DEF Locals
  <2>3. ReadsHold(req[r])'
    BY <1>1, <2>1, <2>2 DEF ReadsHold, PendingFor
  <2> QED
    BY <2>3
<1>9. CASE CreateInvitation(r)
  <2>1. PICK t \in Tokens : GoTo(r, [req[r] EXCEPT !.pc = "sendEmail", !.token = t])
    BY <1>9 DEF CreateInvitation
  <2>2. req'[r].pc = "sendEmail"
    BY <1>2, <2>1, ReqType DEF Locals
  <2>3. ReadsHold(req[r])'
    BY <2>2 DEF ReadsHold
  <2> QED
    BY <2>3
<1> QED
  BY <1>3, <1>4, <1>5, <1>6, <1>7, <1>8, <1>9
     DEF InviteStep, CreateInvitedCheck, CreateInvited

LEMMA SerialAccept ==
  ASSUME Serial, TypeOK, SerialReads, NEW r \in Requests, AcceptStep(r)
  PROVE  SerialReads'
<1> USE SerialMoved, SerialReturned
<1>1. ReadsHold(req[r])
  BY DEF SerialReads
<1>2. ASSUME NEW q, GoTo(r, q) PROVE req'[r] = q
  BY <1>2 DEF GoTo, TypeOK
<1>3. ASSUME NEW t \in Tokens, Accept(r, t) \/ FindLapsed(r, t) PROVE SerialReads'
  <2>1. /\ req'[r].pc \in {"activate", "markExpired"} /\ req'[r].token = t
        /\ invitations[t].status = "PENDING" /\ UNCHANGED invitations
    BY <1>2, <1>3 DEF Accept, FindLapsed, Usable, Lapsed, At
  <2>2. ReadsHold(req[r])'
    BY <2>1 DEF ReadsHold
  <2> QED
    BY <2>2
<1>4. CASE ActivateInvited(r)
  <2>1. /\ GoTo(r, [req[r] EXCEPT !.pc = "markAccepted"])
        /\ req[r].pc = "activate" /\ UNCHANGED invitations
    BY <1>4 DEF ActivateInvited
  <2>2. req'[r].pc = "markAccepted" /\ req'[r].token = req[r].token
    BY <1>2, <2>1, ReqType DEF Locals
  <2>3. ReadsHold(req[r])'
    BY <1>1, <2>1, <2>2 DEF ReadsHold
  <2> QED
    BY <2>3
<1>5. CASE MarkAccepted(r) \/ MarkExpired(r)
  BY <1>5 DEF MarkAccepted, MarkExpired
<1> QED
  BY <1>3, <1>4, <1>5 DEF AcceptStep

LEMMA SerialOther ==
  ASSUME Serial, TypeOK, SerialReads,
         \/ \E r \in Requests : UserStep(r) \/ Abort(r)
         \/ \E r \in Requests, a \in Accounts : Deactivate(r, a)
         \/ \E t \in Tokens : Expire(t)
         \/ UNCHANGED vars
  PROVE  SerialReads'
<1>1. ASSUME NEW r \in Requests, UserStep(r) \/ Abort(r) PROVE SerialReads'
  <2>1. ASSUME NEW q, GoTo(r, q) PROVE req'[r] = q
    BY <2>1 DEF GoTo, TypeOK
  <2>2. CASE Create(r) \/ Update(r) \/ Abort(r)
    BY <2>2, SerialReturned DEF Create, Update, Abort
  <2>3. ASSUME \/ \E e \in Emails : CreateCheck(r, e)
               \/ \E a \in Accounts, e \in Emails \cup {NoEmail}, p \in Patches :
                    UpdateCheck(r, a, e, p)
        PROVE  SerialReads'
    <3>1. req'[r].pc \in {"insertUser", "writeUser"}
      <4>1. ASSUME NEW e \in Emails, CreateCheck(r, e)
            PROVE  req'[r].pc = "insertUser"
        BY <2>1, <4>1 DEF CreateCheck, At
      <4>2. ASSUME NEW a \in Accounts, NEW e \in Emails \cup {NoEmail},
             NEW p \in Patches,
                   UpdateCheck(r, a, e, p)
            PROVE  req'[r].pc = "writeUser"
        BY <2>1, <4>2 DEF UpdateCheck, At
      <4> QED
        BY <2>3, <4>1, <4>2
    <3>2. ReadsHold(req[r])'
      BY <3>1 DEF ReadsHold
    <3> QED
      BY <3>2, SerialMoved
  <2> QED
    BY <1>1, <2>2, <2>3 DEF UserStep
<1>2. ASSUME NEW r \in Requests, NEW a \in Accounts,
             Deactivate(r, a)
      PROVE  SerialReads'
  <2>1. req'[r].pc = "idle"
    BY <1>2 DEF Deactivate
  <2>2. ReadsHold(req[r])'
    BY <2>1 DEF ReadsHold
  <2> QED
    BY <2>2, SerialMoved
<1>3. CASE (\E t \in Tokens : Expire(t)) \/ UNCHANGED vars
  <2>1. UNCHANGED <<users, invitations, req>>
    BY <1>3 DEF Expire, vars
  <2> QED
    BY <2>1 DEF SerialReads, ReadsHold, PendingFor
<1> QED
  BY <1>1, <1>2, <1>3

LEMMA OnePendingStep ==
  ASSUME TypeOK, SerialReads, OnePending, ReferencesSound, [Next]_vars
  PROVE  OnePending'
<1> USE DEF ReferencesSound
<1>1. CASE invitations' = invitations
  BY <1>1 DEF OnePending
<1>2. ASSUME NEW r \in Requests, CreateInvitation(r) PROVE OnePending'
  <2>1. PendingFor(req[r].email) = {}
    BY <1>2 DEF CreateInvitation, SerialReads, ReadsHold
  <2>2. PICK t \in Tokens :
          invitations' = [invitations EXCEPT ![t] =
            [email |-> req[r].email, account |-> req[r].account,
             status |-> "PENDING"]]
    BY <1>2 DEF CreateInvitation
  <2>3. /\ invitations'[t].email = req[r].email
        /\ \A u \in Tokens \ {t} : invitations'[u] = invitations[u]
    BY <2>2 DEF TypeOK
  <2> QED
    BY <2>1, <2>3 DEF OnePending, PendingFor
<1>3. ASSUME NEW r \in Requests, MarkAccepted(r) \/ MarkExpired(r) PROVE OnePending'
  <2>1. PICK s \in {"ACCEPTED", "EXPIRED"} :
          /\ invitations' = [invitations EXCEPT ![req[r].token].status = s]
          /\ req[r].pc \in {"markAccepted", "markExpired"}
    BY <1>3 DEF MarkAccepted, MarkExpired
  <2>2. \A t \in Tokens : invitations'[t].status = "PENDING" =>
          invitations'[t] = invitations[t]
    BY <2>1, MarkWrites
  <2> QED
    BY <2>2 DEF OnePending
<1> QED
  BY <1>1, <1>2, <1>3, InvitationsWriters

LEMMA SerialInvariant ==
  ASSUME Serial
  PROVE  Spec => [](SerialReads /\ OnePending)
<1>1. Init => SerialReads /\ OnePending
  BY DEF Init, SerialReads, ReadsHold, OnePending, Idle, At, NoInvitation
<1>2. TypeOK /\ ReferencesSound /\ SerialReads /\ OnePending /\ [Next]_vars
        => (SerialReads /\ OnePending)'
  BY SerialInvite, SerialAccept, SerialOther, OnePendingStep DEF Next
<1> QED
  BY <1>1, <1>2, TypeCorrect, ReferencesStaySound, PTL DEF Spec

\* With requests served one at a time, what invite and accept read from the
\* collections still holds at every later await, whatever expires meanwhile.
THEOREM SerialReadsHold ==
  ASSUME Serial
  PROVE  Spec => []SerialReads
BY SerialInvariant, PTL

\* With requests served one at a time, an email never has two pending
\* invitations, crashes and expiries included.
THEOREM SerialOnePending ==
  ASSUME Serial
  PROVE  Spec => []OnePending
BY SerialInvariant, PTL

\* With requests served one at a time, accepted and expired are final.
THEOREM SerialOutcomeFinal ==
  ASSUME Serial
  PROVE  Spec => OutcomeFinal
<1>1. ASSUME TypeOK, ReferencesSound, SerialReads, [Next]_vars, NEW t \in Tokens,
             invitations[t].status \in {"ACCEPTED", "EXPIRED"}
      PROVE  invitations'[t].status = invitations[t].status
  <2>1. ASSUME NEW r \in Requests, CreateInvitation(r)
        PROVE  invitations'[t] = invitations[t]
    BY <1>1, <2>1, CreateWrites DEF ReferencesSound
  <2>2. ASSUME NEW r \in Requests, MarkAccepted(r) \/ MarkExpired(r)
        PROVE  invitations'[t] = invitations[t]
    <3>1. invitations[req[r].token].status = "PENDING"
      BY <1>1, <2>2 DEF MarkAccepted, MarkExpired, SerialReads, ReadsHold
    <3>2. t # req[r].token
      BY <1>1, <3>1
    <3> QED
      BY <1>1, <2>2, <3>2, MarkWrites DEF MarkAccepted, MarkExpired, ReferencesSound
  <2> QED
    BY <1>1, <2>1, <2>2, InvitationsWriters
<1>2. TypeOK /\ ReferencesSound /\ SerialReads /\ [Next]_vars
        => [\A t \in Tokens : invitations[t].status \in {"ACCEPTED", "EXPIRED"} =>
              invitations'[t].status = invitations[t].status]_vars
  BY <1>1
<1> QED
  BY <1>2, TypeCorrect, ReferencesStaySound, SerialInvariant, PTL
     DEF Spec, OutcomeFinal

\* An invite that goes on to createInvited found no account of its address.
AddressFree(q) ==
  (q.pc = "findPending" /\ q.account = NoAccount) \/ q.pc \in {"existsByEmail", "insertInvited"}
    => ~EmailTaken(q.email)

AddressesFree == \A r \in Requests : AddressFree(req[r])

LEMMA AddressesFreeStep ==
  ASSUME Serial, TypeOK, AddressesFree, [Next]_vars
  PROVE  AddressesFree'
<1>1. ASSUME NEW r \in Requests, req'[r].pc \notin {"findPending", "existsByEmail", "insertInvited"}
      PROVE  AddressesFree'
  BY <1>1 DEF Serial, AddressesFree, AddressFree
<1>2. ASSUME NEW r \in Requests, NEW q, GoTo(r, q) PROVE req'[r] = q
  BY <1>2 DEF GoTo, TypeOK
<1>3. ASSUME NEW r \in Requests, Return(r) PROVE AddressesFree'
  BY <1>1, <1>2, <1>3 DEF Return, Idle, At
<1>4. ASSUME UNCHANGED <<users, req>> PROVE AddressesFree'
  BY <1>4 DEF AddressesFree, AddressFree, EmailTaken, Holders
<1>5. ASSUME NEW r \in Requests, NEW e \in Emails, Invite(r, e) PROVE AddressesFree'
  <2>1. PICK a \in FindByEmail(e) : GoTo(r, At("findPending", e, a, NoToken, NoPatch))
    BY <1>5 DEF Invite
  <2>2. a = NoAccount => ~EmailTaken(e)
    BY <2>1, NoValues DEF FindByEmail, Holders
  <2>3. users' = users
    BY <1>5 DEF Invite
  <2>4. req'[r].account = a /\ req'[r].email = e /\ req'[r].pc = "findPending"
    BY <1>2, <2>1 DEF At
  <2>5. AddressFree(req[r])'
    BY <2>2, <2>3, <2>4 DEF AddressFree, EmailTaken, Holders
  <2> QED
    BY <2>5 DEF Serial, AddressesFree
<1>6. ASSUME NEW r \in Requests, InviteNoPending(r) PROVE AddressesFree'
  <2> DEFINE next == IF req[r].account = NoAccount THEN "existsByEmail"
                                                  ELSE "resetUser"
  <2>1. /\ GoTo(r, [req[r] EXCEPT !.pc = next]) /\ users' = users
        /\ req[r].pc = "findPending" /\ AddressFree(req[r])
    BY <1>6 DEF InviteNoPending, AddressesFree
  <2>2. req'[r].pc = next /\ req'[r].email = req[r].email
    BY <1>2, <2>1, ReqType DEF Locals
  <2>3. AddressFree(req[r])'
    BY <2>1, <2>2 DEF AddressFree, EmailTaken, Holders
  <2> QED
    BY <2>3 DEF Serial, AddressesFree
<1>7. ASSUME NEW r \in Requests, CreateInvitedCheck(r) PROVE AddressesFree'
  <2>1. CASE Return(r)
    BY <1>3, <2>1
  <2>2. CASE ~Return(r)
    <3>1. /\ GoTo(r, [req[r] EXCEPT !.pc = "insertInvited"]) /\ users' = users
          /\ ~EmailTaken(req[r].email)
      BY <1>7, <2>2 DEF CreateInvitedCheck
    <3>2. req'[r].email = req[r].email
      BY <1>2, <3>1, ReqType DEF Locals
    <3>3. AddressFree(req[r])'
      BY <3>1, <3>2 DEF AddressFree, EmailTaken, Holders
    <3> QED
      BY <3>3 DEF Serial, AddressesFree
  <2> QED
    BY <2>1, <2>2
<1>8. ASSUME NEW r \in Requests, CreateInvited(r) PROVE AddressesFree'
  <2>1. CASE Return(r)
    BY <1>3, <2>1
  <2>2. CASE ~Return(r)
    <3>1. PICK a \in Accounts :
            GoTo(r, [req[r] EXCEPT !.pc = "createInvitation", !.account = a])
      BY <1>8, <2>2 DEF CreateInvited
    <3>2. req'[r].pc = "createInvitation"
      BY <1>2, <3>1, ReqType DEF Locals
    <3> QED
      BY <1>1, <3>2
  <2> QED
    BY <2>1, <2>2
<1>9. ASSUME NEW r \in Requests, ResetUser(r) \/ ActivateInvited(r) \/ CreateInvitation(r)
      PROVE  AddressesFree'
  <2>1. req[r] \in Locals
    BY ReqType
  <2>2. CASE ResetUser(r)
    <3>1. req'[r].pc = "createInvitation"
      BY <1>2, <2>1, <2>2 DEF ResetUser, Locals
    <3> QED
      BY <1>1, <3>1
  <2>3. CASE ActivateInvited(r)
    <3>1. req'[r].pc = "markAccepted"
      BY <1>2, <2>1, <2>3 DEF ActivateInvited, Locals
    <3> QED
      BY <1>1, <3>1
  <2>4. CASE CreateInvitation(r)
    <3>1. req'[r].pc = "sendEmail"
      BY <1>2, <2>1, <2>4 DEF CreateInvitation, Locals
    <3> QED
      BY <1>1, <3>1
  <2> QED
    BY <1>9, <2>2, <2>3, <2>4
<1>10. ASSUME NEW r \in Requests, InviteConflict(r) \/ SendInviteEmail(r)
                                     \/ MarkAccepted(r) \/ MarkExpired(r)
                                     \/ Create(r) \/ Update(r) \/ Abort(r)
       PROVE  AddressesFree'
  BY <1>3, <1>10 DEF InviteConflict, SendInviteEmail, MarkAccepted, MarkExpired, Create,
     Update, Abort
<1>11. ASSUME NEW r \in Requests,
              \/ \E t \in Tokens : Accept(r, t) \/ FindLapsed(r, t)
              \/ \E e \in Emails : CreateCheck(r, e)
              \/ \E a \in Accounts, e \in Emails \cup {NoEmail}, p \in Patches :
                   UpdateCheck(r, a, e, p)
       PROVE  AddressesFree'
  <2>1. req'[r].pc \in {"activate", "markExpired", "insertUser", "writeUser"}
    <3>1. ASSUME NEW t \in Tokens, Accept(r, t) \/ FindLapsed(r, t)
          PROVE  req'[r].pc \in {"activate", "markExpired"}
      BY <1>2, <3>1 DEF Accept, FindLapsed, At
    <3>2. ASSUME NEW e \in Emails, CreateCheck(r, e) PROVE req'[r].pc = "insertUser"
      BY <1>2, <3>2 DEF CreateCheck, At
    <3>3. ASSUME NEW a \in Accounts, NEW e \in Emails \cup {NoEmail},
                 NEW p \in Patches, UpdateCheck(r, a, e, p)
          PROVE  req'[r].pc = "writeUser"
      BY <1>2, <3>3 DEF UpdateCheck, At
    <3> QED
      BY <1>11, <3>1, <3>2, <3>3
  <2> QED
    BY <1>1, <2>1
<1>12. ASSUME NEW r \in Requests, NEW a \in Accounts, Deactivate(r, a) PROVE AddressesFree'
  BY <1>1, <1>12 DEF Deactivate
<1>13. CASE (\E t \in Tokens : Expire(t)) \/ UNCHANGED vars
  BY <1>4, <1>13 DEF Expire, vars
<1> QED
  BY <1>5, <1>6, <1>7, <1>8, <1>9, <1>10, <1>11, <1>12, <1>13
     DEF Next, InviteStep, AcceptStep, UserStep

\* With requests served one at a time, the check and the index of createInvited
\* never refuse an invite that got as far, so an account left behind by an
\* invite that died is invited again, not run into.
THEOREM SerialInviteGetsThrough ==
  ASSUME Serial
  PROVE  Spec => InviteGetsThrough
<1>1. Init => AddressesFree
  BY DEF Init, AddressesFree, AddressFree, Idle, At
<1>2. TypeOK /\ AddressesFree /\ [Next]_vars => AddressesFree'
  BY AddressesFreeStep
<1>3. TypeOK /\ AddressesFree /\ [Next]_vars
        => [\A r \in Requests : CreateInvitedCheck(r) \/ CreateInvited(r) => ~Return(r)]_vars
  <2> SUFFICES ASSUME TypeOK, AddressesFree, NEW r \in Requests,
                      CreateInvitedCheck(r) \/ CreateInvited(r)
               PROVE  ~Return(r)
    OBVIOUS
  <2>1. ~EmailTaken(req[r].email) /\ req[r] \in Locals
    BY ReqType DEF AddressesFree, AddressFree, CreateInvitedCheck, CreateInvited
  <2>2. ASSUME NEW q, GoTo(r, q) PROVE req'[r] = q
    BY <2>2 DEF GoTo, TypeOK
  <2>3. req'[r].pc \in {"insertInvited", "createInvitation"}
    BY <2>1, <2>2 DEF CreateInvitedCheck, CreateInvited, Locals
  <2> QED
    BY <2>2, <2>3 DEF Return, Idle, At
<1> QED
  BY <1>1, <1>2, <1>3, TypeCorrect, PTL DEF Spec, InviteGetsThrough
=============================================================================
