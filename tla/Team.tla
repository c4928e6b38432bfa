-------------------------------- MODULE Team --------------------------------
(***************************************************************************)
(* The users of an account: the members and the outstanding invitations,   *)
(* two listings of the service that fetch_users unifies (PagedReading), and *)
(* invite_user and delete_user of providers/appstore/client.rs, called by  *)
(* several hosts while the persons invited accept.                         *)
(*                                                                         *)
(* A member and an invitation have identifiers of their own: the one is    *)
(* not found under the other's.  The service refuses to invite whom the    *)
(* account has.                                                            *)
(***************************************************************************)
EXTENDS PagedReading

ASSUME TeamAssumption == Team \subseteq Listings

VARIABLES
  shown,   \* the members and invitations a host may know of, gone or not
  removed  \* history: those a delete_user returned Ok for, not invited since
teamVars == <<pagedVars, shown, removed>>

Pairs == {x \in Team \X Entries : x[2] \in held[x[1]]}
Users == UNION {held[l] : l \in Team}

TeamTypeOK ==
  /\ PagedTypeOK
  /\ shown \subseteq Team \X Entries
  /\ removed \subseteq Entries

TeamInit ==
  /\ PagedInit
  /\ shown = Pairs
  /\ removed = {}

\* some host invites e, or the website does, or anything else changes
Others ==
  /\ ServiceNext
  /\ shown' = shown \cup Pairs'
  /\ removed' = removed \ (Users' \ Users)

\* an Ok, or an error because the answer was lost
invite_user(e) ==
  /\ Enter("userInvitations", e)
  /\ shown' = shown \cup Pairs'
  /\ removed' = removed \ {e}

delete_user_NotFoundIsOk(e, pending) ==
  LET listing == IF pending THEN "userInvitations" ELSE "users" IN
  /\ <<listing, e>> \in shown
  /\ IF e \in held[listing] THEN Leave(listing, e) ELSE UNCHANGED pagedVars
  /\ removed' = removed \cup {e}
  /\ shown' = shown

\* is_pending is what a listing once said; an identifier that is gone (404) is
\* an error, as is a lost answer
delete_user(e, pending) ==
  LET listing == IF pending THEN "userInvitations" ELSE "users" IN
  /\ <<listing, e>> \in shown
  /\ Leave(listing, e)
  /\ removed' = removed \/ removed' = removed \cup {e}
  /\ shown' = shown

TeamNext ==
  \/ Others
  \/ \E e \in Entries : invite_user(e) \/ \E pending \in BOOLEAN : delete_user(e, pending)
  \/ \E t \in Tasks : ReadNext(t) /\ UNCHANGED <<shown, removed>>

TeamSpec == TeamInit /\ [][TeamNext]_teamVars

-----------------------------------------------------------------------------
(* Properties.                                                             *)

\* An Ok of delete_user means that the person is out, as member and as invited,
\* until invited again, however old the host's listing was and whether or not
\* the person accepted meanwhile.
RemovedStaysOut == removed \cap Users = {}
=============================================================================
