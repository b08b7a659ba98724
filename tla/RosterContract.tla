--------------------------- MODULE RosterContract ---------------------------
(***************************************************************************)
(* What the admin requests promise of the organization's users as long as  *)
(* they only take access away: each change is that of one user, and an     *)
(* active admin's access is taken while another active admin is there, in  *)
(* one step.  The reads, the locks and the transactions are abstracted     *)
(* away.                                                                   *)
(***************************************************************************)
CONSTANT Users

VARIABLE access

\* admin: an active admin.  other: any other user, active or not.
RosterInit ==
    /\ access \in [Users -> {"unborn", "admin", "other"}]
    /\ \E u \in Users : access[u] = "admin"

Becomes(u, a) == access' = [access EXCEPT ![u] = a]

Join(u) ==
    /\ access[u] = "unborn"
    /\ Becomes(u, "admin") \/ Becomes(u, "other")

\* Demoted, deactivated or deleted.
Disarm(u) ==
    /\ access[u] = "admin"
    /\ \E v \in Users \ {u} : access[v] = "admin"
    /\ Becomes(u, "other") \/ Becomes(u, "gone")

Leave(u) == access[u] = "other" /\ Becomes(u, "gone")

RosterNext == \E u \in Users : Join(u) \/ Disarm(u) \/ Leave(u)

RosterSpec == RosterInit /\ [][RosterNext]_access
=============================================================================
