--------------------------- MODULE SessionsProofs ---------------------------
(***************************************************************************)
(* Theorems about Sessions, for any accounts, invitations, tokens, changes *)
(* and requests that overlap: type correctness, what a login and a handler *)
(* rely on, and who changes an account.                                    *)
(*                                                                         *)
(* The argument is one invariant: an account that exists never goes away,  *)
(* so what a request has read is among the states it has seen, and the     *)
(* checks it has passed still hold of what it read (Sound); and what an    *)
(* invitation says of its account and role never changes.                  *)
(***************************************************************************)
EXTENDS Sessions, TLAPS

-----------------------------------------------------------------------------
\* The inductive invariant

Answering == {"compare", "record", "accepted", "issue"}
Handling == {"handle"} \cup Inviting
Guarded == {"validate"} \cup Handling

Issued(l) == links[l].status # "none"

\* What a request has read and which checks it has passed.
Sound(local) ==
  local.pc # "idle" =>
    /\ local.user \in Users
    /\ Exists(local.user)
    /\ users[local.user] \in local.seen
    /\ local.pc \in Answering => local.doc \in local.seen /\ local.doc.isActive
    /\ local.pc \in {"record", "accepted", "issue"} => local.doc.password = local.presented
    /\ local.pc \in {"accepted", "issue"} => local.role = local.doc.role
    /\ local.pc \in {"activate", "accepted"} => local.link \in Links /\ Issued(local.link)
    /\ local.pc = "activate" => /\ local.presented \in Passwords
                                /\ local.role \in Roles
                                /\ links[local.link].user = local.user
                                /\ links[local.link].role = local.role
    /\ local.pc \in Guarded => local.target \in Users
    /\ local.pc \in Guarded /\ local.op = "invite" => local.change \in Invited
    /\ local.pc \in Inviting => local.op = "invite"
    /\ local.pc = "pending" /\ local.existed => Exists(local.target)
    /\ local.pc \in {"reset", "createInvitation"} => Exists(local.target)
    /\ local.pc \in Handling => /\ local.doc \in local.seen
                                /\ local.doc.isActive
                                /\ Allowed(local.doc.role, local.op)

Inv ==
  /\ TypeOK
  /\ \A t \in tokens : Exists(t.sub)
  /\ \A l \in Links : Issued(l) => /\ links[l].user \in Users
                                  /\ links[l].role \in Roles
                                  /\ Exists(links[l].user)
  /\ \A r \in Requests : Sound(req[r])

-----------------------------------------------------------------------------

LEMMA StoredIsNoMissing == NoDoc \notin UserDocs
BY Parameters DEF NoDoc, UserDocs

LEMMA IdleSound == Idle \in Locals /\ Sound(Idle) /\ NoChange \in Changes
BY DEF Idle, Locals, Operations, NoChange, Changes, NoDoc, Sound

LEMMA TimesAreNumbers == Times \subseteq Int /\ 0 \in Times
BY Parameters DEF Times

\* Accounts never go away, and an invitation stays the one it was issued as.
Grown ==
  /\ \A u \in Users : Exists(u) => Exists(u)'
  /\ \A l \in Links : Issued(l) => /\ Issued(l)'
                                  /\ links'[l].user = links[l].user
                                  /\ links'[l].role = links[l].role

\* What was sound of a request stays so if it notes what its account becomes.
LEMMA SoundLater ==
  ASSUME Grown, NEW q \in Requests, Sound(req'[q]),
         req'[q].pc # "idle" => users'[req'[q].user] \in req'[q].seen
  PROVE  Sound(req[q])'
BY DEF Grown, Sound, Guarded, Handling, Inviting

\* A step of one request that writes nothing, to a place where it is sound.
LEMMA LocalStep ==
  ASSUME Inv, NEW r \in Requests, NEW local \in Locals, Sound(local),
         GoTo(r, local), UNCHANGED <<now, users, links, tokens>>
  PROVE  Inv'
<1>1. TypeOK'
  BY DEF Inv, TypeOK, GoTo
<1>2. Grown
  BY DEF Grown, Exists, Issued
<1>3. ASSUME NEW q \in Requests PROVE Sound(req[q])'
  <2>1. req'[q] = local \/ req'[q] = req[q]
    BY DEF Inv, TypeOK, GoTo
  <2>2. Sound(req'[q])
    BY <2>1 DEF Inv
  <2>3. req'[q].pc # "idle" => users'[req'[q].user] \in req'[q].seen
    BY <2>2 DEF Sound
  <2> QED
    BY <1>2, <2>2, <2>3, SoundLater
<1> QED
  BY <1>1, <1>3 DEF Inv, Exists, Issued

-----------------------------------------------------------------------------
\* Logins

LEMMA LoginStep ==
  ASSUME Inv, NEW r \in Requests, NEW u \in Users, NEW p \in Passwords, Login(r, u, p)
  PROVE  Inv'
<1> DEFINE local == [Idle EXCEPT !.pc = "compare", !.op = "login", !.user = u,
                                 !.doc = users[u], !.presented = p,
                                 !.seen = {users[u]}]
<1>1. users[u] \in UserDocs
  BY DEF Login, Inv, TypeOK, Exists
<1>2. local \in Locals
  BY <1>1, IdleSound DEF Locals, Idle
<1>3. Sound(local)
  BY DEF Login, Sound, Answering, Guarded, Handling, Inviting, Idle
<1> QED
  BY <1>2, <1>3, LocalStep DEF Login

LEMMA CompareStep ==
  ASSUME Inv, NEW r \in Requests, Compare(r)
  PROVE  Inv'
<1> DEFINE local == [req[r] EXCEPT !.pc = "record"]
<1>1. req[r] \in Locals /\ Sound(req[r]) /\ req[r].pc = "compare"
  BY DEF Compare, Inv, TypeOK
<1>2. local \in Locals
  BY <1>1 DEF Locals
<1>3. CASE req[r].presented = req[r].doc.password
  <2>1. Sound(local)
    BY <1>1, <1>3 DEF Sound, Answering, Guarded, Handling, Inviting, Locals
  <2> QED
    BY <1>2, <1>3, <2>1, LocalStep DEF Compare
<1>4. CASE req[r].presented # req[r].doc.password
  BY <1>4, IdleSound, LocalStep DEF Compare
<1> QED
  BY <1>3, <1>4

LEMMA RecordLoginStep ==
  ASSUME Inv, NEW r \in Requests, RecordLogin(r)
  PROVE  Inv'
<1> DEFINE local == [req[r] EXCEPT !.pc = "issue", !.role = req[r].doc.role]
<1>1. req[r] \in Locals /\ Sound(req[r]) /\ req[r].pc = "record"
  BY DEF RecordLogin, Inv, TypeOK
<1>2. req[r].doc \in UserDocs
  BY <1>1 DEF Sound, Answering, Locals
<1>3. local \in Locals
  BY <1>1, <1>2 DEF Locals, UserDocs
<1>4. Sound(local)
  BY <1>1 DEF Sound, Answering, Guarded, Handling, Inviting, Locals
<1> QED
  BY <1>3, <1>4, LocalStep DEF RecordLogin

LEMMA IssueTokensStep ==
  ASSUME Inv, NEW r \in Requests, IssueTokens(r)
  PROVE  Inv'
<1> DEFINE t == [sub |-> req[r].user, role |-> req[r].role, iat |-> now]
<1>1. /\ req[r] \in Locals /\ Sound(req[r]) /\ req[r].pc = "issue"
      /\ req[r].doc \in UserDocs
  BY DEF IssueTokens, Inv, TypeOK, Sound, Answering, Locals
<1>2. t \in Tokens /\ Exists(t.sub)
  BY <1>1 DEF Tokens, Sound, UserDocs, Inv, TypeOK
<1> HIDE DEF t
<1>3. tokens' = tokens \cup {t} /\ UNCHANGED <<now, users, links>>
  BY DEF IssueTokens, t
<1>4. TypeOK'
  BY <1>2, <1>3, IdleSound DEF Inv, TypeOK, IssueTokens, GoTo
<1>5. ASSUME NEW q \in Requests PROVE Sound(req[q])'
  <2>1. req'[q] = Idle \/ req'[q] = req[q]
    BY DEF Inv, TypeOK, IssueTokens, GoTo
  <2> QED
    BY <1>3, <2>1 DEF Inv, Sound, Exists, Issued, Idle
<1> QED
  BY <1>2, <1>3, <1>4, <1>5 DEF Inv, Exists, Issued

LEMMA RegisterStep ==
  ASSUME Inv, NEW r \in Requests, NEW u \in Users, NEW p \in Passwords,
         NEW role \in Roles, Register(r, u, p, role)
  PROVE  Inv'
<1> DEFINE doc == [role |-> role, isActive |-> TRUE, password |-> p]
           local == [Idle EXCEPT !.pc = "issue", !.op = "login", !.user = u,
                                 !.doc = doc, !.presented = p, !.role = role,
                                 !.seen = {doc}]
<1>1. doc \in UserDocs /\ doc.role = role /\ doc.isActive /\ doc.password = p
  BY DEF UserDocs
<1>2. users' = [users EXCEPT ![u] = doc] /\ GoTo(r, local) /\ ~Exists(u)
  BY DEF Register
<1> HIDE DEF doc
<1>3. local \in Locals
  BY <1>1, IdleSound DEF Locals, Idle
<1>4. local.pc = "issue" /\ local.user = u /\ local.doc = doc /\ local.presented = p
      /\ local.role = role /\ local.seen = {doc}
  BY DEF Idle
<1> HIDE DEF local
<1>5. /\ users'[u] = doc /\ doc # NoDoc
      /\ \A x \in Users : Exists(x) => users'[x] = users[x]
      /\ UNCHANGED <<now, links, tokens>>
  BY <1>1, <1>2, StoredIsNoMissing DEF Inv, TypeOK, Exists, Register
<1>6. TypeOK'
  <2>1. users' \in [Users -> UserDocs \cup {NoDoc}]
    BY <1>1, <1>2 DEF Inv, TypeOK
  <2>2. req' \in [Requests -> Locals]
    BY <1>2, <1>3 DEF Inv, TypeOK, GoTo
  <2> QED
    BY <1>5, <2>1, <2>2 DEF Inv, TypeOK
<1>7. Grown
  BY <1>5 DEF Grown, Exists, Issued
<1>8. ASSUME NEW q \in Requests PROVE Sound(req[q])'
  <2>1. req'[q] = local \/ req'[q] = req[q]
    BY <1>2 DEF Inv, TypeOK, GoTo
  <2>2. CASE req'[q] = local
    BY <1>1, <1>4, <1>5, <2>2 DEF Sound, Exists, Answering, Guarded, Handling, Inviting
  <2>3. CASE req'[q] = req[q]
    <3>1. Sound(req'[q])
      BY <2>3 DEF Inv
    <3>2. req'[q].pc # "idle" => users'[req'[q].user] \in req'[q].seen
      BY <1>5, <3>1 DEF Sound
    <3> QED
      BY <1>7, <3>1, <3>2, SoundLater
  <2> QED
    BY <2>1, <2>2, <2>3
<1>9. \A x \in Users : Exists(x) => Exists(x)'
  BY <1>7 DEF Grown
<1> QED
  BY <1>5, <1>6, <1>8, <1>9 DEF Inv, TypeOK, Tokens, Issued

-----------------------------------------------------------------------------
\* Requests with a token

LEMMA PresentStep ==
  ASSUME Inv, NEW r \in Requests, NEW t \in tokens, NEW op \in Operations,
         NEW target \in Users, NEW change \in Asked \cup {NoChange},
         Present(r, t, op, target, change)
  PROVE  Inv'
<1> DEFINE local == [Idle EXCEPT !.pc = "validate", !.op = op, !.user = t.sub,
                                 !.target = target, !.change = change,
                                 !.role = t.role, !.seen = {users[t.sub]}]
<1>1. /\ t.sub \in Users /\ t.role \in Roles /\ Exists(t.sub)
      /\ users[t.sub] \in UserDocs
  BY DEF Inv, TypeOK, Tokens, Exists
<1>2. change \in Changes
  BY IdleSound, AskedChanges
<1>3. local \in Locals
  BY <1>1, <1>2, IdleSound DEF Locals, Idle
<1>4. Sound(local)
  BY <1>1 DEF Present, Sound, Answering, Guarded, Handling, Inviting, Idle
<1> QED
  BY <1>3, <1>4, LocalStep DEF Present

LEMMA ValidateStep ==
  ASSUME Inv, NEW r \in Requests, Validate(r)
  PROVE  Inv'
<1> DEFINE doc == users[req[r].user]
           local == [req[r] EXCEPT !.pc = "handle", !.doc = doc]
<1>1. req[r] \in Locals /\ Sound(req[r]) /\ req[r].pc = "validate"
  BY DEF Validate, Inv, TypeOK
<1>2. doc \in UserDocs
  BY <1>1 DEF Sound, Inv, TypeOK, Exists
<1>3. local \in Locals
  BY <1>1, <1>2 DEF Locals
<1>4. CASE doc.isActive /\ Allowed(doc.role, req[r].op)
  <2>1. Sound(local)
    BY <1>1, <1>4 DEF Sound, Answering, Guarded, Handling, Inviting, Locals
  <2> QED
    BY <1>3, <1>4, <2>1, LocalStep DEF Validate
<1>5. CASE ~(doc.isActive /\ Allowed(doc.role, req[r].op))
  BY <1>5, IdleSound, LocalStep DEF Validate
<1> QED
  BY <1>4, <1>5

-----------------------------------------------------------------------------
\* Steps that write an account or an invitation

\* Account u becomes doc, and every request is sound with it.
LEMMA WriteStep ==
  ASSUME Inv, NEW u \in Users, NEW doc \in UserDocs,
         users' = [users EXCEPT ![u] = doc], UNCHANGED <<now, links, tokens>>,
         req' \in [Requests -> Locals], \A q \in Requests : Sound(req[q])'
  PROVE  Inv'
<1>1. TypeOK'
  BY DEF Inv, TypeOK
<1>2. \A x \in Users : Exists(x) => Exists(x)'
  BY StoredIsNoMissing DEF Inv, TypeOK, Exists
<1> QED
  BY <1>1, <1>2 DEF Inv, TypeOK, Tokens, Issued

\* A request that goes on, or notes what its account becomes, stays sound.
LEMMA NotingSound ==
  ASSUME Inv, NEW u \in Users, NEW doc \in UserDocs,
         users' = [users EXCEPT ![u] = doc], UNCHANGED links,
         NEW q \in Requests, req'[q] = Noting(u, doc)[q]
  PROVE  req'[q] \in Locals /\ Sound(req[q])'
<1>1. req[q] \in Locals /\ Sound(req[q])
  BY DEF Inv, TypeOK
<1>2. /\ users'[u] = doc
      /\ \A x \in Users : x # u => users'[x] = users[x]
      /\ Grown
  BY StoredIsNoMissing DEF Inv, TypeOK, Grown, Exists, Issued
<1>3. CASE req[q].pc # "idle" /\ req[q].user = u
  <2>1. req'[q] = [req[q] EXCEPT !.seen = @ \cup {doc}]
    BY <1>3 DEF Noting
  <2>2. req'[q] \in Locals
    BY <1>1, <2>1 DEF Locals
  <2>3. /\ req'[q].pc = req[q].pc /\ req'[q].op = req[q].op
        /\ req'[q].user = req[q].user /\ req'[q].doc = req[q].doc
        /\ req'[q].presented = req[q].presented
        /\ req'[q].target = req[q].target /\ req'[q].role = req[q].role
        /\ req'[q].change = req[q].change /\ req'[q].link = req[q].link
        /\ req'[q].existed = req[q].existed
        /\ req'[q].seen = req[q].seen \cup {doc}
    BY <1>1, <2>1 DEF Locals
  <2>4. Sound(req'[q])
    BY <1>1, <2>3 DEF Sound
  <2>5. users'[req'[q].user] \in req'[q].seen
    BY <1>2, <1>3, <2>3
  <2> QED
    BY <1>2, <2>2, <2>4, <2>5, SoundLater
<1>4. CASE ~(req[q].pc # "idle" /\ req[q].user = u)
  <2>1. req'[q] = req[q]
    BY <1>4 DEF Noting
  <2>2. req'[q].pc # "idle" => users'[req'[q].user] \in req'[q].seen
    BY <1>1, <1>2, <1>4, <2>1 DEF Sound
  <2> QED
    BY <1>1, <1>2, <2>1, <2>2, SoundLater
<1> QED
  BY <1>3, <1>4

\* What an administrator's handler stores, and where it goes on.
LEMMA StoreStep ==
  ASSUME Inv, NEW r \in Requests, NEW u \in Users, NEW doc \in UserDocs,
         NEW pc \in {"idle", "createInvitation"}, Store(r, u, pc, doc),
         pc = "createInvitation" => req[r].pc \in Inviting /\ req[r].target = u
  PROVE  Inv'
<1>1. /\ users' = [users EXCEPT ![u] = doc]
      /\ users'[u] = doc /\ doc # NoDoc
      /\ \A x \in Users : x # u => users'[x] = users[x]
      /\ UNCHANGED <<now, links, tokens>>
  BY StoredIsNoMissing DEF Store, Inv, TypeOK
<1> DEFINE noted == Noting(u, doc)[r]
           local == IF pc = "idle" THEN Idle ELSE [noted EXCEPT !.pc = pc]
<1>2. /\ req'[r] = local
      /\ \A q \in Requests : q # r => req'[q] = Noting(u, doc)[q]
      /\ req' \in [Requests -> {req'[q] : q \in Requests}]
  BY DEF Store, Noting
<1>3. req'[r] \in Locals /\ Sound(req[r])'
  <2>1. CASE pc = "idle"
    BY <1>2, <2>1, IdleSound DEF Sound, Idle
  <2>2. CASE pc = "createInvitation"
    <3>1. req[r] \in Locals /\ Sound(req[r]) /\ req[r].pc \in Inviting
          /\ req[r].target = u
      BY <2>2 DEF Inv, TypeOK
    <3>2. noted = [req[r] EXCEPT !.seen = IF req[r].user = u THEN @ \cup {doc} ELSE @]
      BY <3>1 DEF Noting, Inviting, Locals
    <3>3. req'[r] \in Locals
      <4>1. noted \in Locals
        BY <3>1, <3>2 DEF Locals
      <4> HIDE DEF noted
      <4>2. [noted EXCEPT !.pc = "createInvitation"] \in Locals
        BY <4>1 DEF Locals, Inviting
      <4> QED
        BY <1>2, <2>2, <4>2
    <3>4. /\ req'[r].pc = "createInvitation" /\ req'[r].op = req[r].op
          /\ req'[r].user = req[r].user /\ req'[r].doc = req[r].doc
          /\ req'[r].target = u /\ req'[r].change = req[r].change
          /\ req[r].seen \subseteq req'[r].seen
          /\ req[r].user = u => doc \in req'[r].seen
      BY <1>2, <2>2, <3>1, <3>2 DEF Locals
    <3>5. /\ req[r].user \in Users /\ Exists(req[r].user)
          /\ users[req[r].user] \in req[r].seen
          /\ req[r].change \in Invited /\ req[r].op = "invite"
          /\ req[r].doc \in req[r].seen /\ req[r].doc.isActive
          /\ Allowed(req[r].doc.role, req[r].op)
      BY <3>1 DEF Sound, Inviting, Handling, Guarded
    <3>6. Exists(req[r].user)' /\ users'[req[r].user] \in req'[r].seen /\ Exists(u)'
      BY <1>1, <3>4, <3>5 DEF Exists
    <3> QED
      BY <3>3, <3>4, <3>5, <3>6 DEF Sound, Exists, Answering, Guarded, Handling, Inviting
  <2> QED
    BY <2>1, <2>2
<1>4. \A q \in Requests : req'[q] \in Locals /\ Sound(req[q])'
  BY <1>1, <1>2, <1>3, NotingSound
<1> HIDE DEF local
<1>5. req' \in [Requests -> Locals]
  BY <1>2, <1>4
<1> QED
  BY <1>1, <1>4, <1>5, WriteStep

LEMMA ActivateInvitedStep ==
  ASSUME Inv, NEW r \in Requests, ActivateInvited(r)
  PROVE  Inv'
<1> DEFINE u == req[r].user
           doc == [role |-> req[r].role, isActive |-> TRUE,
                   password |-> req[r].presented]
           noted == Noting(u, doc)[r]
<1>1. /\ req[r] \in Locals /\ Sound(req[r]) /\ req[r].pc = "activate"
      /\ u \in Users /\ req[r].link \in Links /\ Issued(req[r].link)
      /\ req[r].role \in Roles /\ req[r].presented \in Passwords
  BY DEF ActivateInvited, Inv, TypeOK, Sound
<1>2. doc \in UserDocs /\ doc.isActive /\ doc.role = req[r].role
      /\ doc.password = req[r].presented
  BY <1>1 DEF UserDocs
<1>3. /\ users' = [users EXCEPT ![u] = doc]
      /\ req' = [Noting(u, doc) EXCEPT ![r].pc = "accepted", ![r].doc = doc]
      /\ UNCHANGED <<now, links, tokens>>
  BY DEF ActivateInvited
<1>4. noted = [req[r] EXCEPT !.seen = @ \cup {doc}]
  BY <1>1 DEF Noting
<1> HIDE DEF doc, u
<1>5. /\ req'[r] = [noted EXCEPT !.pc = "accepted", !.doc = doc]
      /\ \A q \in Requests : q # r => req'[q] = Noting(u, doc)[q]
      /\ req' \in [Requests -> {req'[q] : q \in Requests}]
  BY <1>3 DEF Noting
<1>6. users'[u] = doc /\ doc # NoDoc
  BY <1>1, <1>2, <1>3, StoredIsNoMissing DEF Inv, TypeOK
<1>7. req'[r] \in Locals
  <2>1. noted \in Locals
    BY <1>1, <1>2, <1>4 DEF Locals
  <2> HIDE DEF noted
  <2>2. [noted EXCEPT !.pc = "accepted", !.doc = doc] \in Locals
    BY <1>2, <2>1 DEF Locals
  <2> QED
    BY <1>5, <2>2
<1>8. /\ req'[r].pc = "accepted" /\ req'[r].user = u /\ req'[r].doc = doc
      /\ req'[r].presented = req[r].presented /\ req'[r].role = req[r].role
      /\ req'[r].link = req[r].link /\ doc \in req'[r].seen
  BY <1>1, <1>4, <1>5 DEF Locals, u
<1>9. Sound(req[r])'
  BY <1>1, <1>2, <1>3, <1>6, <1>8
  DEF Sound, Exists, Issued, Answering, Guarded, Handling, Inviting
<1>10. \A q \in Requests : req'[q] \in Locals /\ Sound(req[q])'
  BY <1>1, <1>2, <1>3, <1>5, <1>7, <1>9, NotingSound
<1>11. req' \in [Requests -> Locals]
  BY <1>5, <1>10
<1> QED
  BY <1>1, <1>2, <1>3, <1>10, <1>11, WriteStep

\* Invitation l becomes doc, for an account there is, with a role; if it was
\* issued before then for the same account and with the same role.
LEMMA LinkStep ==
  ASSUME Inv, NEW l \in Links, NEW doc \in LinkDocs,
         links' = [links EXCEPT ![l] = doc], UNCHANGED <<now, users, tokens>>,
         doc.status # "none", doc.user \in Users, doc.role \in Roles, Exists(doc.user),
         Issued(l) => doc.user = links[l].user /\ doc.role = links[l].role,
         req' \in [Requests -> Locals], \A q \in Requests : Sound(req'[q])
  PROVE  Inv'
<1>1. TypeOK'
  BY DEF Inv, TypeOK
<1>2. Grown
  BY DEF Grown, Issued, Exists, Inv, TypeOK
<1>3. \A q \in Requests : Sound(req[q])'
  <2> TAKE q \in Requests
  <2>1. req'[q].pc # "idle" => users'[req'[q].user] \in req'[q].seen
    BY DEF Sound
  <2> QED
    BY <1>2, <2>1, SoundLater
<1>4. \A k \in Links : Issued(k)' => /\ links'[k].user \in Users
                                    /\ links'[k].role \in Roles
                                    /\ Exists(links[k].user)'
  BY DEF Inv, TypeOK, Issued, Exists
<1> QED
  BY <1>1, <1>3, <1>4 DEF Inv, Exists

LEMMA InvitationSteps ==
  ASSUME Inv
  PROVE  /\ \A r \in Requests : MarkAccepted(r) \/ CreateInvitation(r) => Inv'
         /\ \A l \in Links : Lapse(l) => Inv'
<1>1. \A k \in Links : Issued(k) =>
        /\ [links[k] EXCEPT !.status = "spent"] \in LinkDocs
        /\ [links[k] EXCEPT !.status = "spent"].status = "spent"
        /\ [links[k] EXCEPT !.status = "spent"].user = links[k].user
        /\ [links[k] EXCEPT !.status = "spent"].role = links[k].role
  BY DEF Inv, TypeOK, LinkDocs
<1>2. \A r \in Requests : req[r] \in Locals /\ Sound(req[r])
  BY DEF Inv, TypeOK
<1>3. ASSUME NEW r \in Requests, MarkAccepted(r) PROVE Inv'
  <2> DEFINE k == req[r].link
             local == [req[r] EXCEPT !.pc = "issue"]
  <2>1. k \in Links /\ req[r].pc = "accepted"
    BY <1>2, <1>3 DEF MarkAccepted, Sound
  <2>2. local \in Locals /\ Sound(local)
    BY <1>2, <2>1 DEF Locals, Sound, Answering, Guarded, Handling, Inviting
  <2>3. links' = [links EXCEPT ![k] = [links[k] EXCEPT !.status = "spent"]]
    BY <1>3 DEF MarkAccepted
  <2>4. req' \in [Requests -> Locals] /\ \A q \in Requests : Sound(req'[q])
    BY <1>3, <2>2 DEF MarkAccepted, GoTo, Inv, TypeOK
  <2>5. /\ Issued(k) /\ links[k].user \in Users /\ links[k].role \in Roles
        /\ Exists(links[k].user)
    BY <1>2, <2>1 DEF Inv, Sound
  <2> QED
    BY <1>1, <1>3, <2>1, <2>3, <2>4, <2>5, LinkStep DEF MarkAccepted
<1>4. ASSUME NEW r \in Requests, CreateInvitation(r) PROVE Inv'
  <2> DEFINE doc == [user |-> req[r].target, role |-> req[r].change.role,
                     status |-> "pending"]
  <2>1. PICK k \in Links : /\ links[k].status = "none"
                           /\ links' = [links EXCEPT ![k] = doc]
    BY <1>4 DEF CreateInvitation
  <2>2. req[r].target \in Users /\ Exists(req[r].target) /\ req[r].change.role \in Roles
    BY <1>2, <1>4 DEF CreateInvitation, Sound, Guarded, Handling, Inviting, Invited,
       NoChange
  <2>3. /\ doc \in LinkDocs /\ doc.status # "none" /\ doc.user \in Users
        /\ doc.role \in Roles /\ Exists(doc.user)
    BY <2>2 DEF LinkDocs
  <2>4. req' \in [Requests -> Locals] /\ \A q \in Requests : Sound(req'[q])
    BY <1>4, IdleSound DEF CreateInvitation, GoTo, Inv, TypeOK
  <2> QED
    BY <1>4, <2>1, <2>3, <2>4, LinkStep DEF CreateInvitation, Issued
<1>5. ASSUME NEW l \in Links, Lapse(l) PROVE Inv'
  <2>1. links' = [links EXCEPT ![l] = [links[l] EXCEPT !.status = "spent"]]
        /\ Issued(l)
    BY <1>5 DEF Lapse, Issued
  <2>2. req' \in [Requests -> Locals] /\ \A q \in Requests : Sound(req'[q])
    BY <1>5 DEF Lapse, Inv, TypeOK
  <2> QED
    BY <1>1, <1>5, <2>1, <2>2, LinkStep DEF Lapse, Inv
<1> QED
  BY <1>3, <1>4, <1>5

-----------------------------------------------------------------------------
\* Handlers, and the accept of an invitation

LEMMA HandlerSteps ==
  ASSUME Inv, NEW r \in Requests
  PROVE  /\ UpdateUser(r) => Inv'
         /\ Deactivate(r) => Inv'
         /\ \A role \in Roles, p \in Passwords : CreateUser(r, role, p) => Inv'
         /\ CreateInvited(r) => Inv'
         /\ ResetUser(r) => Inv'
         /\ Answer(r) \/ Abort(r) => Inv'
<1>1. req[r].pc \in Guarded => req[r].target \in Users
  BY DEF Inv, Sound, Guarded, Handling, Inviting
<1>2. \A u \in Users : Exists(u) => users[u] \in UserDocs
  BY DEF Inv, TypeOK, Exists
<1>3. \A doc \in UserDocs : Patched(doc, req[r].change) \in UserDocs
  <2>1. req[r].change \in Changes
    BY DEF Inv, TypeOK, Locals
  <2> QED
    BY <2>1, Parameters DEF Patched, UserDocs, Changes
<1>4. ASSUME UpdateUser(r) PROVE Inv'
  BY <1>1, <1>2, <1>3, <1>4, StoreStep DEF UpdateUser, Guarded, Handling
<1>5. ASSUME Deactivate(r) PROVE Inv'
  <2>1. [users[req[r].target] EXCEPT !.isActive = FALSE] \in UserDocs
    BY <1>1, <1>2, <1>5 DEF Deactivate, UserDocs, Guarded, Handling
  <2> QED
    BY <1>1, <1>5, <2>1, StoreStep DEF Deactivate, Guarded, Handling
<1>6. ASSUME NEW role \in Roles, NEW p \in Passwords, CreateUser(r, role, p) PROVE Inv'
  <2>1. [role |-> role, isActive |-> TRUE, password |-> p] \in UserDocs
    BY DEF UserDocs
  <2> QED
    BY <1>1, <1>6, <2>1, StoreStep DEF CreateUser, Guarded, Handling
<1>7. ASSUME CreateInvited(r) PROVE Inv'
  <2>1. req[r].change.role \in Roles
    BY <1>7 DEF CreateInvited, Inv, Sound, Guarded, Handling, Inviting, Invited, NoChange
  <2>2. [role |-> req[r].change.role, isActive |-> FALSE, password |-> NoPassword]
          \in UserDocs
    BY <2>1 DEF UserDocs
  <2> QED
    BY <1>1, <1>7, <2>2, StoreStep DEF CreateInvited, Guarded, Handling, Inviting
<1>8. ASSUME ResetUser(r) PROVE Inv'
  <2>1. req[r].target \in Users /\ Exists(req[r].target)
    BY <1>1, <1>8 DEF ResetUser, Inv, Sound, Guarded, Handling, Inviting
  <2> QED
    BY <1>2, <1>3, <1>8, <2>1, StoreStep DEF ResetUser, Inviting
<1>9. ASSUME Answer(r) \/ Abort(r) PROVE Inv'
  BY <1>9, IdleSound, LocalStep DEF Answer, Abort
<1> QED
  BY <1>4, <1>5, <1>6, <1>7, <1>8, <1>9

LEMMA InviteSteps ==
  ASSUME Inv, NEW r \in Requests
  PROVE  Invite(r) \/ InvitePending(r) => Inv'
<1>1. req[r] \in Locals /\ Sound(req[r])
  BY DEF Inv, TypeOK
<1>2. ASSUME Invite(r) PROVE Inv'
  <2> DEFINE local == [req[r] EXCEPT !.pc = "pending", !.existed = Exists(req[r].target)]
  <2>1. Exists(req[r].target) \in BOOLEAN
    BY DEF Exists
  <2>2. local \in Locals
    BY <1>1, <2>1 DEF Locals, Inviting
  <2>3. Sound(local)
    BY <1>1, <1>2 DEF Invite, Sound, Locals, Answering, Guarded, Handling, Inviting
  <2> QED
    BY <1>2, <2>2, <2>3, IdleSound, LocalStep DEF Invite
<1>3. ASSUME InvitePending(r) PROVE Inv'
  <2> DEFINE local == [req[r] EXCEPT
                         !.pc = IF req[r].existed THEN "reset" ELSE "createInvited"]
  <2>1. local \in Locals
    BY <1>1 DEF Locals, Inviting
  <2>2. Sound(local)
    BY <1>1, <1>3 DEF InvitePending, Sound, Locals, Answering, Guarded, Handling, Inviting
  <2> QED
    BY <1>3, <2>1, <2>2, IdleSound, LocalStep DEF InvitePending
<1> QED
  BY <1>2, <1>3

LEMMA AcceptStep ==
  ASSUME Inv, NEW r \in Requests, NEW l \in Links, NEW p \in Passwords, Accept(r, l, p)
  PROVE  Inv'
<1> DEFINE u == links[l].user
           local == [Idle EXCEPT !.pc = "activate", !.op = "login", !.user = u,
                                 !.presented = p, !.link = l, !.role = links[l].role,
                                 !.seen = {users[u]}]
<1>1. Issued(l) /\ u \in Users /\ links[l].role \in Roles /\ Exists(u)
  BY DEF Accept, Inv, Issued
<1>2. users[u] \in UserDocs
  BY <1>1 DEF Inv, TypeOK, Exists
<1>3. local \in Locals
  BY <1>1, <1>2, IdleSound DEF Locals, Idle
<1>4. Sound(local)
  BY <1>1 DEF Sound, Answering, Guarded, Handling, Inviting, Idle
<1> QED
  BY <1>3, <1>4, LocalStep DEF Accept

LEMMA TickStep ==
  ASSUME Inv, Tick
  PROVE  Inv'
<1>1. now' \in Times
  BY Parameters DEF Inv, TypeOK, Tick, Times
<1> QED
  BY <1>1 DEF Inv, TypeOK, Tick, Sound, Exists, Issued

-----------------------------------------------------------------------------
\* The theorems

LEMMA Initially == Init => Inv
BY IdleSound, TimesAreNumbers DEF Init, Inv, TypeOK, LinkDocs, NoInvitation, Issued

LEMMA Inductive ==
  ASSUME Inv, [Next]_vars
  PROVE  Inv'
<1>1. CASE UNCHANGED vars
  BY <1>1 DEF vars, Inv, TypeOK, Sound, Exists, Issued
<1>2. CASE Next
  BY <1>2, LoginStep, RegisterStep, CompareStep, RecordLoginStep, IssueTokensStep,
     PresentStep, ValidateStep, HandlerSteps, InviteSteps, InvitationSteps, AcceptStep,
     ActivateInvitedStep, TickStep DEF Next
<1> QED
  BY <1>1, <1>2

LEMMA Always == Spec => []Inv
BY Initially, Inductive, PTL DEF Spec

\* Accounts, invitations, tokens and requests keep their types, whatever is
\* asked for.
THEOREM TypeCorrect == Spec => []TypeOK
<1>1. Inv => TypeOK
  BY DEF Inv
<1> QED
  BY <1>1, Always, PTL

\* A login, and the accept of an invitation, is answered for one moment of it.
THEOREM LoginsOfOneMoment == Spec => []LoginOneMoment
<1>1. Inv => LoginOneMoment
  BY DEF Inv, Sound, Answering, LoginOneMoment
<1> QED
  BY <1>1, Always, PTL

\* A handler runs, at each of its awaits, only for an account that was entitled
\* to it at some instant of the request.
THEOREM HandlersAuthorized == Spec => []HandledAuthorized
<1>1. Inv => HandledAuthorized
  BY DEF Inv, Sound, Handling, Inviting, HandledAuthorized
<1> QED
  BY <1>1, Always, PTL

\* Whoever writes an account that exists is entitled to it.
LEMMA ChangesEntitled ==
  ASSUME Inv, [Next]_vars, NEW u \in Users, Exists(u), users'[u] # users[u]
  PROVE  \E r \in Requests :
           /\ req'[r].pc # req[r].pc
           /\ \/ Administers(r, u)
              \/ Activates(r, u) /\ users'[u].role = links[req[r].link].role
<1>1. Next /\ users' # users
  BY DEF vars
<1>2. ASSUME NEW r \in Requests, NEW x \in Users, NEW doc,
             NEW pc \in {"idle", "createInvitation"}, Store(r, x, pc, doc)
      PROVE  (x = u \/ users'[u] = users[u]) /\ req'[r].pc = pc
  <2>1. Noting(x, doc)[r] \in {req[r], [req[r] EXCEPT !.seen = @ \cup {doc}]}
    BY DEF Noting
  <2>2. req[r] \in Locals
    BY DEF Inv, TypeOK
  <2>3. req'[r] = IF pc = "idle" THEN Idle ELSE [Noting(x, doc)[r] EXCEPT !.pc = pc]
    BY <1>2 DEF Store, Noting
  <2>4. [Noting(x, doc)[r] EXCEPT !.pc = pc].pc = pc
    BY <2>1, <2>2 DEF Locals
  <2>5. req'[r].pc = pc
    BY <2>3, <2>4 DEF Idle
  <2> QED
    BY <1>2, <2>5 DEF Store, Inv, TypeOK
<1>3. \A r \in Requests : req[r].pc \in Guarded => req[r].target \in Users
  BY DEF Inv, Sound, Guarded, Handling, Inviting
<1>4. ASSUME NEW r \in Requests, UpdateUser(r) \/ Deactivate(r)
      PROVE  Administers(r, u) /\ req'[r].pc # req[r].pc
  BY <1>2, <1>3, <1>4 DEF UpdateUser, Deactivate, Administers, Guarded, Handling
<1>5. ASSUME NEW r \in Requests, ResetUser(r)
      PROVE  Administers(r, u) /\ req'[r].pc # req[r].pc
  BY <1>2, <1>3, <1>5 DEF ResetUser, Administers, Guarded, Handling, Inviting
<1>6. ASSUME NEW r \in Requests, ActivateInvited(r)
      PROVE  /\ Activates(r, u) /\ req'[r].pc # req[r].pc
             /\ users'[u].role = links[req[r].link].role
  <2>1. req[r] \in Locals /\ Sound(req[r]) /\ req[r].pc = "activate"
    BY <1>6 DEF ActivateInvited, Inv, TypeOK
  <2>2. req[r].user = u
    BY <1>6 DEF ActivateInvited, Inv, TypeOK
  <2>3. /\ req[r].link \in Links /\ links[req[r].link].user = u
        /\ links[req[r].link].role = req[r].role
    BY <2>1, <2>2 DEF Sound
  <2>4. users'[u].role = req[r].role
    BY <1>6, <2>2 DEF ActivateInvited, Inv, TypeOK
  <2>5. req'[r].pc = "accepted"
    BY <1>6, <2>1 DEF ActivateInvited, Noting, Locals
  <2> QED
    BY <2>1, <2>3, <2>4, <2>5 DEF Activates
<1>7. ASSUME NEW r \in Requests, NEW role \in Roles, NEW p \in Passwords,
             CreateUser(r, role, p)
      PROVE  FALSE
  BY <1>2, <1>3, <1>7 DEF CreateUser, Guarded, Handling
<1>8. ASSUME NEW r \in Requests, CreateInvited(r)
      PROVE  FALSE
  BY <1>2, <1>3, <1>8 DEF CreateInvited, Guarded, Handling, Inviting
<1>9. ASSUME NEW r \in Requests, NEW x \in Users, NEW p \in Passwords,
             NEW role \in Roles, Register(r, x, p, role)
      PROVE  FALSE
  <2>1. x = u
    BY <1>9 DEF Register, Inv, TypeOK
  <2> QED
    BY <1>9, <2>1 DEF Register
<1> QED
  BY <1>1, <1>4, <1>5, <1>6, <1>7, <1>8, <1>9 DEF Next, Login, Compare, RecordLogin,
     IssueTokens, Present, Validate, Answer, Abort, Invite, InvitePending,
     CreateInvitation, Accept, MarkAccepted, Lapse, Tick

\* No login or other request overlapping an administrator's, or an accept,
\* undoes what it wrote.
THEOREM AccountsEntitled == Spec => OnlyEntitled
<1>1. ASSUME Inv, [Next]_vars
      PROVE  [\A u \in Users : Exists(u) /\ users'[u] # users[u] =>
                \E r \in Requests :
                  /\ req'[r].pc # req[r].pc
                  /\ \/ Administers(r, u)
                     \/ Activates(r, u) /\ users'[u].role = links[req[r].link].role]_vars
  BY <1>1, ChangesEntitled
<1> QED
  BY <1>1, Always, PTL DEF Spec, OnlyEntitled
=============================================================================
