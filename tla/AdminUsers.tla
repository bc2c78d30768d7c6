----------------------------- MODULE AdminUsers -----------------------------
(***************************************************************************)
(* The administrators' accounts and sessions (internal/store/              *)
(* admin_users.go, internal/gateway/admin_auth.go, admin_users.go). Every  *)
(* statement is a step: none of these operations runs in a transaction.    *)
(* Names and passwords are left out, and so is ADMIN_TOKEN.                *)
(***************************************************************************)
EXTENDS FiniteSets

CONSTANTS
  Users,      \* ids of accounts
  Bootstrap,  \* the account that the process creates when it first starts
  Handlers,   \* requests under way
  Nobody

VARIABLES
  status,     \* admin_users: account -> its status, or "none"
  sessions,   \* accounts with a session in admin_sessions that has not expired
  at,         \* handler -> how far it is
  local       \* handler -> the account it is about, and the status to write

vars == <<status, sessions, at, local>>

NoLocals == [user |-> Nobody, status |-> "none"]

(* EnsureAdminUser, at the first start. *)
Init ==
  /\ status = [u \in Users |-> IF u = Bootstrap THEN "active" ELSE "none"]
  /\ sessions = {}
  /\ at = [h \in Handlers |-> "idle"] /\ local = [h \in Handlers |-> NoLocals]

Go(h, from, to, l) ==
  /\ at[h] = from
  /\ at' = [at EXCEPT ![h] = to]
  /\ local' = [local EXCEPT ![h] = IF to = "idle" THEN NoLocals ELSE l]

(* login: VerifyAdminLogin, and afterwards CreateAdminSession. *)
VerifyLogin(h, u) ==
  /\ status[u] = "active"
  /\ Go(h, "idle", "verified", [user |-> u, status |-> "active"])
  /\ UNCHANGED <<status, sessions>>

CreateSession(h) ==
  /\ Go(h, "verified", "idle", NoLocals)
  /\ sessions' = sessions \cup {local[h].user}
  /\ UNCHANGED status

(* logout, or the end of its time. *)
EndSession(u) ==
  /\ u \in sessions
  /\ sessions' = sessions \ {u}
  /\ UNCHANGED <<status, at, local>>

(* adminAuth: the session exists and its account is active. *)
AuthenticateAdminSession(h) ==
  /\ \E u \in sessions : status[u] = "active"
  /\ Go(h, "idle", "admitted", NoLocals)
  /\ UNCHANGED <<status, sessions>>

CreateAdminUser(h, u, new) ==
  /\ status[u] = "none"
  /\ Go(h, "admitted", "idle", NoLocals)
  /\ status' = [status EXCEPT ![u] = new]
  /\ UNCHANGED sessions

(* UpdateAdminUser reads the account; if it is to be disabled it counts    *)
(* the other active ones; then it writes. DELETE is this with "disabled".  *)
ReadUser(h, u, new) ==
  /\ status[u] # "none"
  /\ Go(h, "admitted", IF status[u] = "active" /\ new = "disabled" THEN "checking" ELSE "writing",
        [user |-> u, status |-> new])
  /\ UNCHANGED <<status, sessions>>

EnsureNotLastActiveAdmin(h) ==
  /\ Go(h, "checking",
        IF \E u \in Users \ {local[h].user} : status[u] = "active" THEN "writing" ELSE "idle",
        local[h])
  /\ UNCHANGED <<status, sessions>>

WriteUser(h) ==
  /\ Go(h, "writing", "idle", NoLocals)
  /\ status' = [status EXCEPT ![local[h].user] = local[h].status]
  /\ UNCHANGED sessions

Next ==
  \/ \E h \in Handlers, u \in Users : VerifyLogin(h, u)
  \/ \E h \in Handlers : CreateSession(h) \/ AuthenticateAdminSession(h)
  \/ \E u \in Users : EndSession(u)
  \/ \E h \in Handlers, u \in Users, new \in {"active", "disabled"} :
       CreateAdminUser(h, u, new) \/ ReadUser(h, u, new)
  \/ \E h \in Handlers : EnsureNotLastActiveAdmin(h) \/ WriteUser(h)

Spec == Init /\ [][Next]_vars

----------------------------------------------------------------------------
(* The last active account is never disabled, so that somebody can always  *)
(* log in. It is violated: two requests that disable one account each may  *)
(* both count the other one before either of them writes.                  *)
SomebodyActive == \E u \in Users : status[u] = "active"
=============================================================================
