------------------------------ MODULE Sessions ------------------------------
(***************************************************************************)
(* Who is let in: AuthService, JwtStrategy, JwtAuthGuard, RolesGuard, and  *)
(* the requests about accounts that they protect.                          *)
(*                                                                         *)
(* A login reads its account once and answers several awaits later from    *)
(* what it read.  Every other request carries an access token; the         *)
(* strategy reads the account the token names, the guard compares its role *)
(* with the handler's, and the handler runs after that.  Tokens are not    *)
(* kept by the server and cannot be revoked: whether one still opens       *)
(* anything is decided when it is presented.  Refresh tokens, signed with  *)
(* a secret no strategy knows, open nothing and are left out.              *)
(*                                                                         *)
(* Every write to an account is here: creating, updating and deactivating  *)
(* one, inviting somebody to a new one or back to an old one, and the      *)
(* public accept of an invitation.  An account stands for its address:     *)
(* moved addresses and overlapping creations of one address are the        *)
(* subject of Invitations.  lastLoginAt, which nothing reads back, is left *)
(* out.  A request that is refused at its first await is not a step.       *)
(*                                                                         *)
(* A definition headed "Faulty" is a plausible bug in the definition below *)
(* it: no action uses it, and a property is checked to fail with it.       *)
(***************************************************************************)
EXTENDS Integers, FiniteSets

CONSTANTS Users, Passwords, Requests,
          Links,      \* ids of documents of the invitations collection
          Roles,      \* UserRole
          AdminRoles, \* ADMIN_ROLES
          AccessTTL,  \* JWT_EXPIRES_IN
          Asked,      \* the changes administrators ask for
          MaxTime,    \* bound on the clock
          MaxTokens,  \* bound on the tokens issued
          NoUser, NoRole, NoPassword, NoLink, Keep

ASSUME Parameters == /\ AdminRoles \subseteq Roles
                     /\ NoUser \notin Users
                     /\ NoRole \notin Roles
                     /\ NoPassword \notin Passwords
                     /\ NoLink \notin Links
                     /\ Keep \notin Roles
                     /\ Keep \notin Passwords
                     /\ Keep \notin BOOLEAN
                     /\ AccessTTL \in Nat
                     /\ MaxTime \in Nat

VARIABLES now,    \* the clock
          users,  \* users[u]: the account with id u, if any
          links,  \* links[l]: the invitation with id l, if any
          tokens, \* the access tokens in clients' hands
          req     \* req[r]: where request r is and its local variables

vars == <<now, users, links, tokens, req>>

-----------------------------------------------------------------------------

Times == 0 .. MaxTime

\* Invited accounts have no password yet.
UserDocs == [role : Roles, isActive : BOOLEAN, password : Passwords \cup {NoPassword}]
NoDoc == [role |-> NoRole, isActive |-> FALSE, password |-> NoPassword]

Exists(u) == users[u] # NoDoc

\* Status "spent" stands for ACCEPTED and EXPIRED.
LinkDocs == [user : Users \cup {NoUser}, role : Roles \cup {NoRole},
             status : {"none", "pending", "spent"}]
NoInvitation == [user |-> NoUser, role |-> NoRole, status |-> "none"]

\* What a token says; exp follows from iat.
Tokens == [sub : Users, role : Roles, iat : Times]

\* PATCH /users/:id: fields absent from the payload are kept.
Changes == [role : Roles \cup {Keep}, isActive : BOOLEAN \cup {Keep},
            password : Passwords \cup {Keep}]
NoChange == [role |-> Keep, isActive |-> Keep, password |-> Keep]

ASSUME AskedChanges == Asked \subseteq Changes

\* Operations that need a token, and what invite asks for: the role, and that
\* an account there is already stays shut until the invitation is accepted.
Operations == {"me", "create", "update", "deactivate", "invite"}
Invited == {[NoChange EXCEPT !.role = role, !.isActive = FALSE] : role \in Roles}

\* The awaits of invite behind its first one.
Inviting == {"pending", "createInvited", "reset", "createInvitation"}

\* user: the account the request speaks for.  doc: that account as it was
\* read, or as activateInvited left it.  presented: the password sent.
\* target, change: what an administrator asks for.  link: the invitation
\* accepted.  role: the role in the token presented, or in the tokens to
\* issue.  existed: whether invite found an account.  seen: history, what
\* user was since the request began.
Locals ==
  [pc : {"idle", "compare", "record", "activate", "accepted", "issue",
         "validate", "handle"} \cup Inviting,
   op : Operations \cup {"login"}, user : Users \cup {NoUser},
   doc : UserDocs \cup {NoDoc}, presented : Passwords \cup {NoPassword},
   target : Users \cup {NoUser}, change : Changes,
   link : Links \cup {NoLink}, role : Roles \cup {NoRole}, existed : BOOLEAN,
   seen : SUBSET UserDocs]
Idle == [pc |-> "idle", op |-> "me", user |-> NoUser, doc |-> NoDoc,
         presented |-> NoPassword, target |-> NoUser, change |-> NoChange,
         link |-> NoLink, role |-> NoRole, existed |-> FALSE, seen |-> {}]

GoTo(r, local) == req' = [req EXCEPT ![r] = local]

Init ==
  /\ now = 0
  /\ users = [u \in Users |-> NoDoc]
  /\ links = [l \in Links |-> NoInvitation]
  /\ tokens = {}
  /\ req = [r \in Requests |-> Idle]

-----------------------------------------------------------------------------
\* POST /auth/login and /auth/register

\* findByEmailWithPassword, and the first refusal.
Login(r, u, password) ==
  /\ req[r].pc = "idle"
  /\ Exists(u)
  /\ users[u].isActive
  /\ users[u].password # NoPassword
  /\ GoTo(r, [Idle EXCEPT !.pc = "compare", !.op = "login", !.user = u,
                          !.doc = users[u], !.presented = password,
                          !.seen = {users[u]}])
  /\ UNCHANGED <<now, users, links, tokens>>

\* Faulty: the password is compared with the one the account has by now.
CompareFresh(r) ==
  /\ req[r].pc = "compare"
  /\ GoTo(r, IF req[r].presented = users[req[r].user].password
               THEN [req[r] EXCEPT !.pc = "record"] ELSE Idle)
  /\ UNCHANGED <<now, users, links, tokens>>

Compare(r) ==
  /\ req[r].pc = "compare"
  /\ GoTo(r, IF req[r].presented = req[r].doc.password
               THEN [req[r] EXCEPT !.pc = "record"] ELSE Idle)
  /\ UNCHANGED <<now, users, links, tokens>>

\* What requests under way note when account u becomes doc.
Noting(u, doc) ==
  [q \in Requests |-> IF req[q].pc # "idle" /\ req[q].user = u
                        THEN [req[q] EXCEPT !.seen = @ \cup {doc}]
                        ELSE req[q]]

\* Faulty: the whole document is saved, as it was read.
RecordLoginSaved(r) ==
  /\ req[r].pc = "record"
  /\ LET u == req[r].user
     IN  /\ users' = [users EXCEPT ![u] = req[r].doc]
         /\ req' = [Noting(u, req[r].doc) EXCEPT
                      ![r].pc = "issue", ![r].role = req[r].doc.role]
  /\ UNCHANGED <<now, links, tokens>>

\* recordLogin sets lastLoginAt and no other field.
RecordLogin(r) ==
  /\ req[r].pc = "record"
  /\ GoTo(r, [req[r] EXCEPT !.pc = "issue", !.role = req[r].doc.role])
  /\ UNCHANGED <<now, users, links, tokens>>

IssueTokens(r) ==
  /\ req[r].pc = "issue"
  /\ Cardinality(tokens) < MaxTokens
  /\ tokens' = tokens \cup {[sub |-> req[r].user, role |-> req[r].role, iat |-> now]}
  /\ GoTo(r, Idle)
  /\ UNCHANGED <<now, users, links>>

\* create of UsersService in one step: its own races are those of Invitations.
Register(r, u, password, role) ==
  /\ req[r].pc = "idle"
  /\ ~Exists(u)
  /\ LET doc == [role |-> role, isActive |-> TRUE, password |-> password]
     IN  /\ users' = [users EXCEPT ![u] = doc]
         /\ GoTo(r, [Idle EXCEPT !.pc = "issue", !.op = "login", !.user = u,
                                 !.doc = doc, !.presented = password,
                                 !.role = role, !.seen = {doc}])
  /\ UNCHANGED <<now, links, tokens>>

-----------------------------------------------------------------------------
\* POST /invitations/:token/accept

\* findUsableInvite, and the hash of the password.
Accept(r, l, password) ==
  /\ req[r].pc = "idle"
  /\ links[l].status = "pending"
  /\ GoTo(r, [Idle EXCEPT !.pc = "activate", !.op = "login",
                          !.user = links[l].user, !.presented = password,
                          !.link = l, !.role = links[l].role,
                          !.seen = {users[links[l].user]}])
  /\ UNCHANGED <<now, users, links, tokens>>

\* activateInvited, whatever became of the account since it was invited.
ActivateInvited(r) ==
  /\ req[r].pc = "activate"
  /\ LET doc == [role |-> req[r].role, isActive |-> TRUE, password |-> req[r].presented]
     IN  /\ users' = [users EXCEPT ![req[r].user] = doc]
         /\ req' = [Noting(req[r].user, doc) EXCEPT ![r].pc = "accepted", ![r].doc = doc]
  /\ UNCHANGED <<now, links, tokens>>

MarkAccepted(r) ==
  /\ req[r].pc = "accepted"
  /\ links' = [links EXCEPT ![req[r].link].status = "spent"]
  /\ GoTo(r, [req[r] EXCEPT !.pc = "issue"])
  /\ UNCHANGED <<now, users, tokens>>

\* Somebody presents the link of an invitation past its expiresAt, which may
\* be the case of any: no run of the clock here is as long as its days.
Lapse(l) ==
  /\ links[l].status = "pending"
  /\ links' = [links EXCEPT ![l].status = "spent"]
  /\ UNCHANGED <<now, users, tokens, req>>

-----------------------------------------------------------------------------
\* Requests with a token

\* ignoreExpiration is off.
Verified(t) == now < t.iat + AccessTTL

Present(r, t, op, target, change) ==
  /\ req[r].pc = "idle"
  /\ Verified(t)
  /\ op \notin {"update", "invite"} => change = NoChange
  /\ op = "invite" => change \in Invited
  /\ op = "me" => target = t.sub
  /\ GoTo(r, [Idle EXCEPT !.pc = "validate", !.op = op, !.user = t.sub,
                          !.target = target, !.change = change,
                          !.role = t.role, !.seen = {users[t.sub]}])
  /\ UNCHANGED <<now, users, links, tokens>>

\* @Roles of the handlers; none for GET /auth/me.
Required(op) == IF op = "me" THEN {} ELSE AdminRoles

Allowed(role, op) == Required(op) = {} \/ role \in Required(op)

\* Faulty: the guard goes by the role in the token.
ValidateToken(r) ==
  /\ req[r].pc = "validate"
  /\ LET doc == users[req[r].user]
     IN  GoTo(r, IF doc.isActive /\ Allowed(req[r].role, req[r].op)
                   THEN [req[r] EXCEPT !.pc = "handle", !.doc = doc] ELSE Idle)
  /\ UNCHANGED <<now, users, links, tokens>>

\* validate of JwtStrategy, and RolesGuard without an await in between.
Validate(r) ==
  /\ req[r].pc = "validate"
  /\ LET doc == users[req[r].user]
     IN  GoTo(r, IF doc.isActive /\ Allowed(doc.role, req[r].op)
                   THEN [req[r] EXCEPT !.pc = "handle", !.doc = doc] ELSE Idle)
  /\ UNCHANGED <<now, users, links, tokens>>

\* The handler of request r stores doc as account u, and goes on or answers.
Store(r, u, pc, doc) ==
  /\ users' = [users EXCEPT ![u] = doc]
  /\ req' = [Noting(u, doc) EXCEPT
               ![r] = IF pc = "idle" THEN Idle ELSE [@ EXCEPT !.pc = pc]]
  /\ UNCHANGED <<now, links, tokens>>

\* Faulty: absent fields are written too.
PatchedBlank(doc, change) == change

\* The $set of findByIdAndUpdate.
Patched(doc, change) ==
  [role     |-> IF change.role = Keep THEN doc.role ELSE change.role,
   isActive |-> IF change.isActive = Keep THEN doc.isActive ELSE change.isActive,
   password |-> IF change.password = Keep THEN doc.password ELSE change.password]

UpdateUser(r) ==
  /\ req[r].pc = "handle"
  /\ req[r].op = "update"
  /\ Exists(req[r].target)
  /\ Store(r, req[r].target, "idle", Patched(users[req[r].target], req[r].change))

Deactivate(r) ==
  /\ req[r].pc = "handle"
  /\ req[r].op = "deactivate"
  /\ Exists(req[r].target)
  /\ Store(r, req[r].target, "idle", [users[req[r].target] EXCEPT !.isActive = FALSE])

CreateUser(r, role, password) ==
  /\ req[r].pc = "handle"
  /\ req[r].op = "create"
  /\ ~Exists(req[r].target)
  /\ Store(r, req[r].target, "idle",
           [role |-> role, isActive |-> TRUE, password |-> password])

\* GET /auth/me, and the requests that meet no account (404) or one too many
\* (409).
Answer(r) ==
  /\ LET missing == ~Exists(req[r].target)
     IN  \/ /\ req[r].pc = "handle"
            /\ \/ req[r].op = "me"
               \/ req[r].op \in {"update", "deactivate"} /\ missing
               \/ req[r].op = "create" /\ ~missing
         \/ req[r].pc = "createInvited" /\ ~missing
  /\ GoTo(r, Idle)
  /\ UNCHANGED <<now, users, links, tokens>>

-----------------------------------------------------------------------------
\* POST /invitations

\* findByEmail: only an active account is in the way.
Invite(r) ==
  /\ req[r].pc = "handle"
  /\ req[r].op = "invite"
  /\ LET u == req[r].target
     IN  GoTo(r, IF Exists(u) /\ users[u].isActive THEN Idle
                 ELSE [req[r] EXCEPT !.pc = "pending", !.existed = Exists(u)])
  /\ UNCHANGED <<now, users, links, tokens>>

PendingFor(u) == {l \in Links : links[l].status = "pending" /\ links[l].user = u}

\* findPendingByEmail
InvitePending(r) ==
  /\ req[r].pc = "pending"
  /\ GoTo(r, IF PendingFor(req[r].target) # {} THEN Idle
             ELSE [req[r] EXCEPT
                     !.pc = IF req[r].existed THEN "reset" ELSE "createInvited"])
  /\ UNCHANGED <<now, users, links, tokens>>

\* createInvited, in one step for the same reason as Register.
CreateInvited(r) ==
  /\ req[r].pc = "createInvited"
  /\ ~Exists(req[r].target)
  /\ Store(r, req[r].target, "createInvitation",
           [role |-> req[r].change.role, isActive |-> FALSE, password |-> NoPassword])

\* update, on the account as it is by now.
ResetUser(r) ==
  /\ req[r].pc = "reset"
  /\ Store(r, req[r].target, "createInvitation",
           Patched(users[req[r].target], req[r].change))

CreateInvitation(r) ==
  /\ req[r].pc = "createInvitation"
  /\ \E l \in Links :
       /\ links[l].status = "none"
       /\ links' = [links EXCEPT ![l] =
            [user |-> req[r].target, role |-> req[r].change.role, status |-> "pending"]]
  /\ GoTo(r, Idle)
  /\ UNCHANGED <<now, users, tokens>>

-----------------------------------------------------------------------------

\* A database call of a request throws, or the process dies under it.
Abort(r) ==
  /\ req[r].pc # "idle"
  /\ GoTo(r, Idle)
  /\ UNCHANGED <<now, users, links, tokens>>

Tick ==
  /\ now < MaxTime
  /\ now' = now + 1
  /\ UNCHANGED <<users, links, tokens, req>>

Next ==
  \/ \E r \in Requests, u \in Users, p \in Passwords :
       \/ Login(r, u, p)
       \/ \E role \in Roles : Register(r, u, p, role)
  \/ \E r \in Requests :
       \/ Compare(r) \/ RecordLogin(r) \/ IssueTokens(r)
       \/ \E t \in tokens, op \in Operations, target \in Users,
             change \in Asked \cup {NoChange} :
            Present(r, t, op, target, change)
       \/ Validate(r) \/ UpdateUser(r) \/ Deactivate(r) \/ Answer(r) \/ Abort(r)
       \/ \E role \in Roles, p \in Passwords : CreateUser(r, role, p)
       \/ Invite(r) \/ InvitePending(r) \/ CreateInvited(r) \/ ResetUser(r)
       \/ CreateInvitation(r)
       \/ \E l \in Links, p \in Passwords : Accept(r, l, p)
       \/ ActivateInvited(r) \/ MarkAccepted(r)
  \/ \E l \in Links : Lapse(l)
  \/ Tick

Spec == Init /\ [][Next]_vars

-----------------------------------------------------------------------------
\* Properties

\* Every variable stays in its type.
TypeOK ==
  /\ now \in Times
  /\ users \in [Users -> UserDocs \cup {NoDoc}]
  /\ links \in [Links -> LinkDocs]
  /\ tokens \subseteq Tokens
  /\ req \in [Requests -> Locals]

\* A login, or the accept of an invitation, is answered for one moment of it:
\* there was an instant since it began at which the account was active, had
\* the password that was sent, and had the role the token will say, whatever
\* administrators do meanwhile.
LoginOneMoment ==
  \A r \in Requests : req[r].pc \in {"record", "accepted", "issue"} =>
    \E doc \in req[r].seen :
      /\ doc.isActive
      /\ doc.password = req[r].presented
      /\ doc.role = req[r].doc.role
      /\ req[r].pc # "record" => doc.role = req[r].role

\* A handler runs, at each of its awaits, only for an account that at some
\* instant of the request was active and had a role the handler admits:
\* neither an old token nor a change of the account between the strategy and
\* the guard opens more.
HandledAuthorized ==
  \A r \in Requests : req[r].pc \in {"handle"} \cup Inviting =>
    \E doc \in req[r].seen : doc.isActive /\ Allowed(doc.role, req[r].op)

\* The step request r is at is an administrator's about account u: an update,
\* a deactivation, or the reset of an account that is invited again.
Administers(r, u) ==
  /\ req[r].target = u
  /\ \/ req[r].pc = "handle" /\ req[r].op \in {"update", "deactivate"}
     \/ req[r].pc = "reset"

\* The step request r is at accepts an invitation issued for account u.
Activates(r, u) ==
  /\ req[r].pc = "activate"
  /\ req[r].link \in Links
  /\ links[req[r].link].user = u

\* An account changes only by the step of an administrator's request about it,
\* or by that of an accept of an invitation issued for it, which leaves it
\* with the role an administrator put there: logins that overlap a
\* deactivation, a demotion or an accept do not undo it.
OnlyEntitled ==
  [][\A u \in Users :
       Exists(u) /\ users'[u] # users[u] =>
         \E r \in Requests :
           /\ req'[r].pc # req[r].pc
           /\ \/ Administers(r, u)
              \/ Activates(r, u) /\ users'[u].role = links[req[r].link].role]_vars
=============================================================================
