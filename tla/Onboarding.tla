----------------------------- MODULE Onboarding -----------------------------
(***************************************************************************)
(* What the invitation subsystem promises, without saying how: an account  *)
(* that was invited gets its credential through a link that was issued for *)
(* that very account and is still open, or from an administrator who is    *)
(* updating that account; any other account gets it when it registers.  A  *)
(* closed link stays closed, a link never changes hands, and a credential  *)
(* is never withdrawn.  Module Invitations is shown to implement this.     *)
(***************************************************************************)
CONSTANTS Links,      \* invitation links that can ever be issued
          Accounts,   \* user accounts that can ever exist
          NoAccount   \* the owner of a link that was not issued

VARIABLES link,       \* link[l] is "unissued", "open" or "closed"
          owner,      \* owner[l] is the account link l was issued for
          grants,     \* accounts an administrator is setting a password for
          members     \* the accounts that hold a credential

vars == <<link, owner, grants, members>>

Init ==
  /\ link = [l \in Links |-> "unissued"]
  /\ owner = [l \in Links |-> NoAccount]
  /\ grants = {}
  /\ members = {}

Invited(a) == \E l \in Links : link[l] # "unissued" /\ owner[l] = a

IssueLink(l, a) ==
  /\ link[l] = "unissued"
  /\ link' = [link EXCEPT ![l] = "open"]
  /\ owner' = [owner EXCEPT ![l] = a]
  /\ UNCHANGED <<grants, members>>

\* Using a link may leave it open to another request that is already past
\* the check, or close it behind the last one.
UseLink(l) ==
  /\ link[l] = "open"
  /\ members' = members \cup {owner[l]}
  /\ \E s \in {"open", "closed"} : link' = [link EXCEPT ![l] = s]
  /\ UNCHANGED <<owner, grants>>

CloseLink(l) ==
  /\ link[l] = "open"
  /\ link' = [link EXCEPT ![l] = "closed"]
  /\ UNCHANGED <<owner, grants, members>>

Register(a) ==
  /\ ~Invited(a)
  /\ members' = members \cup {a}
  /\ UNCHANGED <<link, owner, grants>>

BeginGrant(a) ==
  /\ grants' = grants \cup {a}
  /\ UNCHANGED <<link, owner, members>>

\* The last administrator at work on an account ends the grant, having set
\* the password or not.
EndGrant(a) ==
  /\ a \in grants
  /\ members' \in {members, members \cup {a}}
  /\ grants' \in {grants, grants \ {a}}
  /\ UNCHANGED <<link, owner>>

Next ==
  \/ \E l \in Links :
       \/ \E a \in Accounts : IssueLink(l, a)
       \/ UseLink(l)
       \/ CloseLink(l)
  \/ \E a \in Accounts : Register(a) \/ BeginGrant(a) \/ EndGrant(a)

Spec == Init /\ [][Next]_vars
=============================================================================
