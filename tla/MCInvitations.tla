--------------------------- MODULE MCInvitations ---------------------------
(***************************************************************************)
(* Instances of Invitations for TLC.  The configurations choose how many   *)
(* addresses, documents and overlapping requests there are.                *)
(***************************************************************************)
EXTENDS Invitations, TLC

CONSTANTS a1, a2, e1, e2, t1, t2, r1, r2, r3

\* Addresses, documents and request slots are interchangeable.
Symmetry ==
  Permutations(Accounts) \cup Permutations(Emails)
    \cup Permutations(Tokens) \cup Permutations(Requests)
=============================================================================
