------------------------------ MODULE AppClaims ------------------------------
(***************************************************************************)
(* What service/app_operations.go promises: one operation per app. An app  *)
(* belongs to nobody or to one operation, and it changes hands only by     *)
(* being let go first. Who waits, what is only marked, and what an         *)
(* operation is called are the business of the table that keeps the        *)
(* promise (AppOperations).                                                *)
(***************************************************************************)
CONSTANTS Apps, Handles, Nobody

VARIABLE owner          \* app -> the operation it belongs to, or Nobody

ClaimsInit == owner = [a \in Apps |-> Nobody]

Claim(h, a) ==
  /\ owner[a] = Nobody
  /\ \A b \in Apps : owner[b] # h
  /\ owner' = [owner EXCEPT ![a] = h]

LetGo(h, a) ==
  /\ owner[a] = h
  /\ owner' = [owner EXCEPT ![a] = Nobody]

\* Whatever else goes on, an app changes hands.
ClaimsNext == owner' # owner /\ \E h \in Handles, a \in Apps : Claim(h, a) \/ LetGo(h, a)

ClaimsSpec == ClaimsInit /\ [][ClaimsNext]_owner
=============================================================================
