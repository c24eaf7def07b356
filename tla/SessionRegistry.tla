--------------------------- MODULE SessionRegistry ---------------------------
(***************************************************************************)
(* What the `sessions` table promises to everyone who reads it (the JWT    *)
(* guard, the refresh endpoint, the audit trail), whatever the order in    *)
(* which the handlers of auth.service.ts reach it:                         *)
(*                                                                         *)
(*   - a row is opened once, active, for one user, and is never reopened;  *)
(*   - a row opened in exchange for a refresh token names the row it       *)
(*     replaces, which belongs to the same user and is already closed;     *)
(*   - a step closes rows of one user only.                                *)
(*                                                                         *)
(* It is the abstract specification that AuthSessions implements.          *)
(***************************************************************************)
CONSTANTS Users, Sessions, NoUser, NoSession

VARIABLES
    status,   \* sessions.is_active; "none" while the row does not exist
    owner,    \* sessions.user_id
    parent    \* the row whose refresh token was exchanged for this one

regVars == <<status, owner, parent>>

RegInit ==
    /\ status = [s \in Sessions |-> "none"]
    /\ owner = [s \in Sessions |-> NoUser]
    /\ parent = [s \in Sessions |-> NoSession]

MayReplace(p, u) ==
    p # NoSession => status[p] = "inactive" /\ owner[p] = u

Open(s, u, p) ==
    /\ status[s] = "none"
    /\ MayReplace(p, u)
    /\ status' = [status EXCEPT ![s] = "active"]
    /\ owner' = [owner EXCEPT ![s] = u]
    /\ parent' = [parent EXCEPT ![s] = p]

Close(u, S) ==
    /\ \A s \in S : status[s] # "none" /\ owner[s] = u
    /\ status' = [s \in Sessions |-> IF s \in S THEN "inactive" ELSE status[s]]
    /\ UNCHANGED <<owner, parent>>

RegNext ==
    \/ \E s \in Sessions, u \in Users, p \in Sessions \cup {NoSession} : Open(s, u, p)
    \/ \E u \in Users, S \in SUBSET Sessions : Close(u, S)

RegSpec == RegInit /\ [][RegNext]_regVars
=============================================================================
