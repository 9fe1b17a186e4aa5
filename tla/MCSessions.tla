----------------------------- MODULE MCSessions -----------------------------
(***************************************************************************)
(* Instances of Sessions for TLC: an administrator and another account,    *)
(* either of which may be demoted, locked out or given a new password.     *)
(* One run checks two scenes: tokens that expire while accounts change;    *)
(* an invitation, at one moment.                                           *)
(***************************************************************************)
EXTENDS Sessions, TLC

CONSTANTS admin, ops, u1, u2, p1, p2, r1, r2, l1

VARIABLE scene

\* A demotion that lets the account in again, a new password for an account
\* that is shut out, and what an invitation to operations asks for.
Demoted == [NoChange EXCEPT !.role = ops, !.isActive = TRUE]
Rekeyed == [NoChange EXCEPT !.password = p2, !.isActive = FALSE]
InvitedAs == [NoChange EXCEPT !.role = ops, !.isActive = FALSE]

Patches == {Demoted, Rekeyed, InvitedAs}

MCInit == Init /\ scene \in {"tokens", "invitation"}

ByToken == \A r \in Requests : req'[r].change # InvitedAs

ByInvitation ==
  /\ now' = 0
  /\ \A r \in Requests : /\ req'[r].op \notin {"create", "deactivate"}
                         /\ req'[r].change # Demoted
                         /\ req'[r].op = "me" => req'[r].pc = "idle"

MCNext ==
  /\ Next
  /\ UNCHANGED scene
  /\ \/ scene = "tokens" /\ ByToken
     \/ scene = "invitation" /\ ByInvitation

MCSpec == MCInit /\ [][MCNext]_<<vars, scene>>

\* Accounts and requests are interchangeable.
Symmetry == Permutations(Users) \cup Permutations(Requests)
=============================================================================
