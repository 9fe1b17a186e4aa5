---------------------------- MODULE Invitations ----------------------------
(***************************************************************************)
(* Users and invitations: UsersService, InvitationsService and their two   *)
(* MongoDB collections.                                                    *)
(*                                                                         *)
(* Each HTTP request is a process that takes one step per awaited database *)
(* call; between two awaits the Node event loop runs other requests, so    *)
(* every interleaving of those steps is possible.  A step reads or writes  *)
(* one document atomically, as a single MongoDB operation does, and the    *)
(* unique indexes on users.email and invitations.tokenHash are enforced at *)
(* the write.  A request may die at any await (a driver error, or the      *)
(* process crashing) without undoing what it wrote: nothing in the code    *)
(* opens a transaction.                                                    *)
(*                                                                         *)
(* Names and roles are left out; a password is only present or absent.     *)
(* So is the status REVOKED: the enum has it and findUsableInvite tests    *)
(* for it, but no code ever writes it.                                     *)
(*                                                                         *)
(* A definition headed "Faulty" is a plausible bug in the definition below *)
(* it: no action uses it, and a property is checked to fail with it.       *)
(***************************************************************************)
CONSTANTS Emails,     \* normalised (lower-case) email addresses
          Accounts,   \* ids of documents of the users collection
          Tokens,     \* invite tokens; each also names its invitation document
          Requests,   \* slots in which requests are served, one at a time
          NoEmail, NoAccount, NoToken

ASSUME NoValues == /\ NoEmail \notin Emails
                   /\ NoAccount \notin Accounts
                   /\ NoToken \notin Tokens

VARIABLES users,        \* users[a]: the document with id a, if any
          invitations,  \* invitations[t]: the document whose hash is t's
          expired,      \* the tokens whose expiresAt lies in the past
          mail,         \* mail[t]: what the server knows of the invitation email
          req           \* req[r]: where request r is and its local variables

vars == <<users, invitations, expired, mail, req>>

-----------------------------------------------------------------------------
\* Documents and requests

UserDocs ==
  [email : Emails \cup {NoEmail}, active : BOOLEAN, password : BOOLEAN]
InvitationDocs ==
  [email : Emails \cup {NoEmail}, account : Accounts \cup {NoAccount},
   status : {"NONE", "PENDING", "ACCEPTED", "EXPIRED"}]

\* No document with that id.
NoUser == [email |-> NoEmail, active |-> FALSE, password |-> FALSE]
NoInvitation ==
  [email |-> NoEmail, account |-> NoAccount, status |-> "NONE"]

Patches == [active : {"keep", "on", "off"}, password : BOOLEAN]
NoPatch == [active |-> "keep", password |-> FALSE]

Steps == {"idle",
          \* invite
          "findPending", "existsByEmail", "insertInvited", "resetUser",
          "createInvitation", "sendEmail",
          \* accept, and the lazy expiry accept shares with validateToken
          "activate", "markAccepted", "markExpired",
          \* create / register, update
          "insertUser", "writeUser"}

\* Where a request is, and what it remembers from its earlier awaits.
Locals ==
  [pc : Steps, email : Emails \cup {NoEmail}, account : Accounts \cup {NoAccount},
   token : Tokens \cup {NoToken}, patch : Patches]

At(step, e, a, t, p) ==
  [pc |-> step, email |-> e, account |-> a, token |-> t, patch |-> p]
Idle == At("idle", NoEmail, NoAccount, NoToken, NoPatch)

GoTo(r, local) == req' = [req EXCEPT ![r] = local]
Return(r) == GoTo(r, Idle)

Init ==
  /\ users = [a \in Accounts |-> NoUser]
  /\ invitations = [t \in Tokens |-> NoInvitation]
  /\ expired = {}
  /\ mail = [t \in Tokens |-> "unsent"]
  /\ req = [r \in Requests |-> Idle]

-----------------------------------------------------------------------------
\* Reads of the two repositories

Exists(a) == users[a].email # NoEmail

Holders(e) == {a \in Accounts : users[a].email = e}

EmailTaken(e) == Holders(e) # {}

\* findByEmail: one of the documents with that email, or null.
FindByEmail(e) == IF EmailTaken(e) THEN Holders(e) ELSE {NoAccount}

\* Faulty: a lapsed invitation does not count as pending.
PendingUnexpired(e) ==
  {t \in Tokens \ expired : /\ invitations[t].email = e
                            /\ invitations[t].status = "PENDING"}

\* findPendingByEmail looks at the status only, never at expiresAt.
PendingFor(e) ==
  {t \in Tokens : /\ invitations[t].email = e
                  /\ invitations[t].status = "PENDING"}

\* Faulty: no unique index, only the services' own duplicate checks.
IndexAdmitsAny(a, e) == TRUE

\* The unique index on users.email: document a may take address e, if any.
IndexAdmits(a, e) == e = NoEmail \/ Holders(e) \subseteq {a}

-----------------------------------------------------------------------------
\* InvitationsService.invite

\* The first await of invite.  An active account is refused.
Invite(r, e) ==
  /\ req[r].pc = "idle"
  /\ \E a \in FindByEmail(e) :
       /\ a # NoAccount => ~users[a].active
       /\ GoTo(r, At("findPending", e, a, NoToken, NoPatch))
  /\ UNCHANGED <<users, invitations, expired, mail>>

InviteConflict(r) ==
  /\ req[r].pc = "findPending"
  /\ PendingFor(req[r].email) # {}
  /\ Return(r)
  /\ UNCHANGED <<users, invitations, expired, mail>>

\* Faulty: the answer of findPendingByEmail is not looked at.
InviteUnchecked(r) ==
  /\ req[r].pc = "findPending"
  /\ LET next == IF req[r].account = NoAccount THEN "existsByEmail"
                                               ELSE "resetUser"
     IN  GoTo(r, [req[r] EXCEPT !.pc = next])
  /\ UNCHANGED <<users, invitations, expired, mail>>

\* Faulty: the invitation of a new address is stored before its account.
InviteBeforeAccount(r) ==
  /\ req[r].pc = "findPending"
  /\ PendingFor(req[r].email) = {}
  /\ GoTo(r, [req[r] EXCEPT !.pc = "createInvitation"])
  /\ UNCHANGED <<users, invitations, expired, mail>>

\* Faulty: every invite goes on to createInvited, that of an inactive account
\* as well.
InviteAlwaysCreates(r) ==
  /\ req[r].pc = "findPending"
  /\ PendingFor(req[r].email) = {}
  /\ GoTo(r, [req[r] EXCEPT !.pc = "existsByEmail"])
  /\ UNCHANGED <<users, invitations, expired, mail>>

InviteNoPending(r) ==
  /\ req[r].pc = "findPending"
  /\ PendingFor(req[r].email) = {}
  /\ LET next == IF req[r].account = NoAccount THEN "existsByEmail"
                                               ELSE "resetUser"
     IN  GoTo(r, [req[r] EXCEPT !.pc = next])
  /\ UNCHANGED <<users, invitations, expired, mail>>

\* UsersService.createInvited: countDocuments, then the insert.
CreateInvitedCheck(r) ==
  /\ req[r].pc = "existsByEmail"
  /\ IF EmailTaken(req[r].email)
       THEN Return(r)
       ELSE GoTo(r, [req[r] EXCEPT !.pc = "insertInvited"])
  /\ UNCHANGED <<users, invitations, expired, mail>>

CreateInvited(r) ==
  /\ req[r].pc = "insertInvited"
  /\ IF EmailTaken(req[r].email)
       THEN /\ Return(r)                      \* duplicate key
            /\ UNCHANGED users
       ELSE \E a \in Accounts :
              /\ ~Exists(a)
              /\ users' = [users EXCEPT ![a] =
                   [email |-> req[r].email, active |-> FALSE, password |-> FALSE]]
              /\ GoTo(r, [req[r] EXCEPT !.pc = "createInvitation",
                                        !.account = a])
  /\ UNCHANGED <<invitations, expired, mail>>

\* Re-inviting an account that was found inactive: update(isActive: false),
\* by id and without looking at the document again.
ResetUser(r) ==
  /\ req[r].pc = "resetUser"
  /\ users' = [users EXCEPT ![req[r].account].active = FALSE]
  /\ GoTo(r, [req[r] EXCEPT !.pc = "createInvitation"])
  /\ UNCHANGED <<invitations, expired, mail>>

\* The token is 32 fresh random bytes: one no document carries yet.
CreateInvitation(r) ==
  /\ req[r].pc = "createInvitation"
  /\ \E t \in Tokens :
       /\ invitations[t].status = "NONE"
       /\ invitations' = [invitations EXCEPT ![t] =
            [email |-> req[r].email, account |-> req[r].account,
             status |-> "PENDING"]]
       /\ GoTo(r, [req[r] EXCEPT !.pc = "sendEmail", !.token = t])
  /\ UNCHANGED <<users, expired, mail>>

\* A failed send is logged and swallowed: invite answers 201 either way.
SendInviteEmail(r) ==
  /\ req[r].pc = "sendEmail"
  /\ \E outcome \in {"sent", "failed"} :
       mail' = [mail EXCEPT ![req[r].token] = outcome]
  /\ Return(r)
  /\ UNCHANGED <<users, invitations, expired>>

-----------------------------------------------------------------------------
\* InvitationsService.accept and validateToken.  A request can carry the token
\* of any stored invitation: its email is under way before the await of the
\* send returns, and may have arrived although the send failed.

\* findUsableInvite lets the document through.
Usable(t) == invitations[t].status = "PENDING" /\ t \notin expired

\* Faulty: expiresAt is looked at before the status.
LapsedAnyStatus(t) == invitations[t].status # "NONE" /\ t \in expired

\* findUsableInvite read a PENDING document past its expiresAt; its next
\* await writes EXPIRED and the request is refused.
Lapsed(t) == invitations[t].status = "PENDING" /\ t \in expired

\* Faulty: accept writes ACCEPTED without activating the account first.
AcceptMarksFirst(r, t) ==
  /\ req[r].pc = "idle"
  /\ Usable(t)
  /\ GoTo(r, At("markAccepted", NoEmail, invitations[t].account, t, NoPatch))
  /\ UNCHANGED <<users, invitations, expired, mail>>

\* Faulty: accept does not look at expiresAt.
AcceptLapsed(r, t) ==
  /\ req[r].pc = "idle"
  /\ Usable(t) \/ Lapsed(t)
  /\ GoTo(r, At("activate", NoEmail, invitations[t].account, t, NoPatch))
  /\ UNCHANGED <<users, invitations, expired, mail>>

\* Accept reads the invitation, then hashes the password; the document it
\* goes on with is the one it read.
Accept(r, t) ==
  /\ req[r].pc = "idle"
  /\ Usable(t)
  /\ GoTo(r, At("activate", NoEmail, invitations[t].account, t, NoPatch))
  /\ UNCHANGED <<users, invitations, expired, mail>>

\* Faulty: the account is looked up by the invited address, which an update
\* may have given to another account.
ActivateByEmail(r) ==
  /\ req[r].pc = "activate"
  /\ \E a \in Holders(invitations[req[r].token].email) :
       users' = [users EXCEPT ![a].active = TRUE, ![a].password = TRUE]
  /\ GoTo(r, [req[r] EXCEPT !.pc = "markAccepted"])
  /\ UNCHANGED <<invitations, expired, mail>>

ActivateInvited(r) ==
  /\ req[r].pc = "activate"
  /\ users' = [users EXCEPT ![req[r].account].active = TRUE,
                            ![req[r].account].password = TRUE]
  /\ GoTo(r, [req[r] EXCEPT !.pc = "markAccepted"])
  /\ UNCHANGED <<invitations, expired, mail>>

\* findByIdAndUpdate with no condition on the status it replaces.
MarkAccepted(r) ==
  /\ req[r].pc = "markAccepted"
  /\ invitations' = [invitations EXCEPT ![req[r].token].status = "ACCEPTED"]
  /\ Return(r)
  /\ UNCHANGED <<users, expired, mail>>

\* Both accept and validateToken take this branch of findUsableInvite.
FindLapsed(r, t) ==
  /\ req[r].pc = "idle"
  /\ Lapsed(t)
  /\ GoTo(r, At("markExpired", NoEmail, NoAccount, t, NoPatch))
  /\ UNCHANGED <<users, invitations, expired, mail>>

\* Faulty: a status the schema's enum does not have (findByIdAndUpdate runs no
\* validators, so the write would go through).
MarkLapsed(r) ==
  /\ req[r].pc = "markExpired"
  /\ invitations' = [invitations EXCEPT ![req[r].token].status = "LAPSED"]
  /\ Return(r)
  /\ UNCHANGED <<users, expired, mail>>

MarkExpired(r) ==
  /\ req[r].pc = "markExpired"
  /\ invitations' = [invitations EXCEPT ![req[r].token].status = "EXPIRED"]
  /\ Return(r)
  /\ UNCHANGED <<users, expired, mail>>

-----------------------------------------------------------------------------
\* UsersService.create (POST /users and POST /auth/register), update and
\* deactivate

CreateCheck(r, e) ==
  /\ req[r].pc = "idle"
  /\ ~EmailTaken(e)
  /\ GoTo(r, At("insertUser", e, NoAccount, NoToken, NoPatch))
  /\ UNCHANGED <<users, invitations, expired, mail>>

Create(r) ==
  /\ req[r].pc = "insertUser"
  /\ IF EmailTaken(req[r].email)
       THEN UNCHANGED users                   \* duplicate key
       ELSE \E a \in Accounts :
              /\ ~Exists(a)
              /\ users' = [users EXCEPT ![a] =
                   [email |-> req[r].email, active |-> TRUE, password |-> TRUE]]
  /\ Return(r)
  /\ UNCHANGED <<invitations, expired, mail>>

\* The $set of findByIdAndUpdate: fields absent from the payload stay.
Patched(user, e, p) ==
  [email    |-> IF e = NoEmail THEN user.email ELSE e,
   active   |-> IF p.active = "keep" THEN user.active ELSE p.active = "on",
   password |-> user.password \/ p.password]

\* update awaits a duplicate check if the payload has an email and bcrypt if
\* it has a password; either may be absent.
UpdateCheck(r, a, e, p) ==
  /\ req[r].pc = "idle"
  /\ Exists(a)
  /\ e # NoEmail => FindByEmail(e) \subseteq {a, NoAccount}
  /\ GoTo(r, At("writeUser", e, a, NoToken, p))
  /\ UNCHANGED <<users, invitations, expired, mail>>

Update(r) ==
  /\ req[r].pc = "writeUser"
  /\ users' = IF IndexAdmits(req[r].account, req[r].email)
                THEN [users EXCEPT ![req[r].account] =
                        Patched(@, req[r].email, req[r].patch)]
                ELSE users                    \* duplicate key
  /\ Return(r)
  /\ UNCHANGED <<invitations, expired, mail>>

Deactivate(r, a) ==
  /\ req[r].pc = "idle"
  /\ Exists(a)
  /\ users' = [users EXCEPT ![a].active = FALSE]
  /\ UNCHANGED <<invitations, expired, mail, req>>

-----------------------------------------------------------------------------
\* The environment

\* expiresAt of an invitation passes.
Expire(t) ==
  /\ invitations[t].status # "NONE"
  /\ t \notin expired
  /\ expired' = expired \cup {t}
  /\ UNCHANGED <<users, invitations, mail, req>>

\* A database call of r throws, or the process dies under it.
Abort(r) ==
  /\ req[r].pc # "idle"
  /\ Return(r)
  /\ UNCHANGED <<users, invitations, expired, mail>>

-----------------------------------------------------------------------------

InviteStep(r) ==
  \/ \E e \in Emails : Invite(r, e)
  \/ InviteConflict(r)
  \/ InviteNoPending(r)
  \/ CreateInvitedCheck(r)
  \/ CreateInvited(r)
  \/ ResetUser(r)
  \/ CreateInvitation(r)
  \/ SendInviteEmail(r)

AcceptStep(r) ==
  \/ \E t \in Tokens : Accept(r, t) \/ FindLapsed(r, t)
  \/ ActivateInvited(r)
  \/ MarkAccepted(r)
  \/ MarkExpired(r)

UserStep(r) ==
  \/ \E e \in Emails : CreateCheck(r, e)
  \/ Create(r)
  \/ \E a \in Accounts, e \in Emails \cup {NoEmail}, p \in Patches :
       UpdateCheck(r, a, e, p)
  \/ Update(r)

Next ==
  \/ \E r \in Requests :
       InviteStep(r) \/ AcceptStep(r) \/ UserStep(r) \/ Abort(r)
  \/ \E r \in Requests, a \in Accounts : Deactivate(r, a)
  \/ \E t \in Tokens : Expire(t)

Spec == Init /\ [][Next]_vars

-----------------------------------------------------------------------------
\* Properties

\* Every variable stays in its type: documents have the fields their schemas
\* declare, and a request is at one of the awaits of its handler.
TypeOK ==
  /\ users \in [Accounts -> UserDocs]
  /\ invitations \in [Tokens -> InvitationDocs]
  /\ expired \subseteq Tokens
  /\ mail \in [Tokens -> {"unsent", "sent", "failed"}]
  /\ req \in [Requests -> Locals]

\* No two accounts share an email, although create, createInvited and update
\* all check for a duplicate in one await and write in another.
EmailUnique ==
  \A a, b \in Accounts : Exists(a) /\ users[a].email = users[b].email => a = b

\* References between documents, and from a request to the documents it
\* read before an await, stay good: MongoDB has no foreign keys, and accept
\* writes through the userId and the id it read several awaits earlier.
InvitationRefs ==
  \A t \in Tokens : invitations[t].status # "NONE" =>
    /\ invitations[t].account \in Accounts
    /\ Exists(invitations[t].account)

\* Only a stored invitation has an expiresAt to pass.
ExpiredRefs == \A t \in expired : invitations[t].status # "NONE"

AccountKnown(q) == q.account \in Accounts /\ Exists(q.account)
TokenKnown(q) == q.token \in Tokens /\ invitations[q.token].status # "NONE"

RefsOf(q) ==
  /\ q.pc = "findPending" => q.account = NoAccount \/ AccountKnown(q)
  /\ q.pc \in {"resetUser", "createInvitation", "writeUser"} => AccountKnown(q)
  /\ q.pc \in {"sendEmail", "activate", "markAccepted", "markExpired"} =>
       TokenKnown(q)
  /\ q.pc = "activate" => q.account = invitations[q.token].account
  /\ q.pc = "markAccepted" => users[invitations[q.token].account].password

RequestRefs == \A r \in Requests : RefsOf(req[r])

ReferencesSound == InvitationRefs /\ ExpiredRefs /\ RequestRefs

\* An invitation is marked ACCEPTED only once its account holds a password:
\* a crash between the two writes of accept leaves a reusable invitation,
\* never a used one whose owner cannot log in.
AcceptedHasCredential ==
  \A t \in Tokens : invitations[t].status = "ACCEPTED" =>
    users[invitations[t].account].password

\* A link is spent when findUsableInvite would refuse it and no request is
\* past that check with it.
Dead(t) == invitations[t].status # "NONE" /\ ~Usable(t)
Held(t) == \E r \in Requests : req[r].pc = "activate" /\ req[r].token = t
Spent(t) == Dead(t) /\ ~Held(t)

\* A spent link stays spent: whatever concurrent accepts, validations and
\* expiries write over each other's status, no later request can activate an
\* account with it.
SpentStaysSpent == [][\A t \in Tokens : Spent(t) => Spent(t)']_vars

\* The subsystem implements Onboarding: an account that was invited gets a
\* password only through an unspent link issued for that account, or from an
\* update that carries one; an invitation never changes hands.
LinkState(t) == IF invitations[t].status = "NONE" THEN "unissued"
                ELSE IF Spent(t) THEN "closed" ELSE "open"
LinkMap == [t \in Tokens |-> LinkState(t)]
Owners == [t \in Tokens |-> invitations[t].account]
Members == {a \in Accounts : Exists(a) /\ users[a].password}

Granting(q, a) == q.pc = "writeUser" /\ q.account = a /\ q.patch.password
Grants == {a \in Accounts : \E r \in Requests : Granting(req[r], a)}

Promise == INSTANCE Onboarding
             WITH Links <- Tokens, link <- LinkMap, owner <- Owners,
                  grants <- Grants, members <- Members

ImplementsOnboarding == Promise!Spec

-----------------------------------------------------------------------------
\* What holds when requests are served one at a time (Requests a singleton)

Serial == \A r, s \in Requests : r = s

\* Nothing a request decided on has changed by the time it acts on it.
ReadsHold(q) ==
  /\ q.pc = "findPending" => q.account = NoAccount \/ ~users[q.account].active
  /\ q.pc = "resetUser" => ~users[q.account].active
  /\ q.pc \in {"existsByEmail", "insertInvited", "resetUser", "createInvitation"}
       => PendingFor(q.email) = {}
  /\ q.pc \in {"activate", "markAccepted", "markExpired"} =>
       invitations[q.token].status = "PENDING"

SerialReads == \A r \in Requests : ReadsHold(req[r])

\* At most one invitation is pending for an email: the check of
\* findPendingByEmail and the insert that follows are one step apart.
OnePending ==
  \A t, u \in Tokens :
    /\ invitations[t].status = "PENDING"
    /\ invitations[u].status = "PENDING"
    /\ invitations[t].email = invitations[u].email
    => t = u

\* ACCEPTED and EXPIRED are final: the unconditional status writes of accept
\* and findUsableInvite never overwrite each other.
OutcomeFinal ==
  [][\A t \in Tokens : invitations[t].status \in {"ACCEPTED", "EXPIRED"} =>
       invitations'[t].status = invitations[t].status]_vars

\* An invite that found no active account and nothing pending is refused no
\* more: createInvited, which looks for the address once more and writes under
\* the unique index, never answers it with a conflict.  So an account whose
\* invite died before storing an invitation is taken up by the next invite.
InviteGetsThrough ==
  [][\A r \in Requests : CreateInvitedCheck(r) \/ CreateInvited(r) => ~Return(r)]_vars

\* The comment in sendInviteEmail: when the email could not be sent the
\* invitation can be resent.  So an invite is refused as already pending
\* only if some pending invitation for that address did not fail to send.
ResendPossible ==
  [][\A r \in Requests : InviteConflict(r) =>
       \E t \in PendingFor(req[r].email) : mail[t] # "failed"]_vars
=============================================================================
