------------------------------ MODULE KeyStore ------------------------------
(***************************************************************************)
(* The records of API keys, employees and one JWT grant in the control     *)
(* database (internal/store: store.go, api_keys.go, employee_keys.go,      *)
(* jwt_grants.go) and the requests that are authenticated with them        *)
(* (internal/gateway/proxy.go, employee_keys.go).                          *)
(* The database has one connection: a transaction is one step, and so is a *)
(* statement outside of one. Everything else interleaves: the reads of an  *)
(* employee's first access with its registration, the read of a PATCH with *)
(* its write. Expiry dates are left out; forced stands for them.           *)
(***************************************************************************)
EXTENDS Integers, FiniteSets

CONSTANTS
  Keys,         \* ids of records, never used twice
  Employees,    \* verified identities (issuer, claim, subject)
  Accesses,     \* handlers of client requests
  Admins,       \* handlers of administrators' requests
  NoKey, NoOne,
  MaxQuota,     \* bound on the issue quota of the grant
  MaxEdits      \* bound on the administrators' requests

ASSUME KeyStoreAssumption ==
  /\ NoKey \notin Keys /\ NoOne \notin Employees /\ MaxQuota \in Nat /\ MaxEdits \in Nat
  /\ IsFiniteSet(Keys)

VARIABLES
  rows,       \* api_keys
  binding,    \* employee_identities: employee -> id, or NoKey
  archived,   \* employee_identity_history: id -> employee, or NoOne
  grant,      \* the row of jwt_grants
  edits,      \* how many requests administrators have made
  edit,       \* admin -> the PATCH of a key it has read the row for
  grantEdit,  \* admin -> the PATCH of the grant it has read the row for
  at,         \* access -> how far it is
  local       \* access -> the variables of its handler

adminVars == <<edits, edit, grantEdit>>
accessVars == <<at, local>>
identities == <<binding, archived>>
vars == <<rows, identities, grant, adminVars, accessVars>>

Sources == {"none", "admin", "jwt", "employee"}

(* What a record is called: the number of the employee, the name in a      *)
(* token, or a name somebody gave it.                                      *)
RecordNames == {"number", "token", "given"}
Rows == [source : Sources, active : BOOLEAN, forced : BOOLEAN, deleted : BOOLEAN,
         name : RecordNames]
NoRow == [source |-> "none", active |-> FALSE, forced |-> FALSE, deleted |-> FALSE,
          name |-> "given"]

(* A broken variant: the row has no source. *)
UnmarkedRow(source, name) ==
  [source |-> "device", active |-> TRUE, forced |-> FALSE, deleted |-> FALSE, name |-> name]

(* createAPIKeyInTx *)
NewRow(source, name) ==
  [source |-> source, active |-> TRUE, forced |-> FALSE, deleted |-> FALSE, name |-> name]

Stored == {k \in Keys : rows[k].source # "none"}
Fresh == Keys \ Stored
Issued == {k \in Keys : rows[k].source = "jwt"}

NoEdit == [key |-> NoKey, row |-> NoRow]
NoGrantEdit == [busy |-> FALSE, active |-> FALSE, quota |-> 0, issued |-> 0]

(* A client's handler: who it is (NoOne for the holder of a plain key),    *)
(* whether its token carries a name, the id it works with, and, a history, *)
(* the records that were its own and live since it arrived.                *)
NoLocals == [employee |-> NoOne, named |-> FALSE, key |-> NoKey, since |-> {}]

Init ==
  /\ rows = [k \in Keys |-> NoRow]
  /\ binding = [e \in Employees |-> NoKey] /\ archived = [k \in Keys |-> NoOne]
  /\ grant = [state |-> "none", active |-> FALSE, quota |-> 0, issued |-> 0]
  /\ edits = 0 /\ edit = [m \in Admins |-> NoEdit] /\ grantEdit = [m \in Admins |-> NoGrantEdit]
  /\ at = [x \in Accesses |-> "idle"] /\ local = [x \in Accesses |-> NoLocals]

----------------------------------------------------------------------------
(* ValidateUsableKey, as far as it is about the record itself. *)
ValidateUsableKey(row) == row.active /\ ~row.forced

Idle == {"idle", "accepted"}

(* The live record of employee e; with NoOne, the live plain keys.         *)
LiveIn(table, bound, e) ==
  {k \in Keys : /\ table[k].source # "none" /\ ~table[k].deleted
                /\ IF table[k].source = "employee" THEN e \in Employees /\ bound[e] = k
                   ELSE e = NoOne}

LiveFor(e) == LiveIn(rows, binding, e)

(* Whatever happens to the records, requests under way remember it. *)
WithNote ==
  [x \in Accesses |->
     IF at[x] \in Idle THEN local[x]
     ELSE [local[x] EXCEPT !.since = @ \cup LiveIn(rows', binding', local[x].employee)]]

Noted == local' = WithNote

(* A broken variant: the identity goes to the history but stays bound. *)
ArchiveOnly(ks) ==
  /\ archived' = [k \in Keys |->
                    IF k \in ks /\ archived[k] = NoOne /\ \E e \in Employees : binding[e] = k
                    THEN CHOOSE e \in Employees : binding[e] = k ELSE archived[k]]
  /\ UNCHANGED binding

(* archiveEmployeeIdentities, for the records of ks. *)
ArchiveIdentities(ks) ==
  /\ archived' = [k \in Keys |->
                    IF k \in ks /\ archived[k] = NoOne /\ \E e \in Employees : binding[e] = k
                    THEN CHOOSE e \in Employees : binding[e] = k ELSE archived[k]]
  /\ binding' = [e \in Employees |-> IF binding[e] \in ks THEN NoKey ELSE binding[e]]

Erased(row) == [row EXCEPT !.active = FALSE, !.forced = TRUE, !.deleted = TRUE]

(* An administrator's next request. *)
Begin(m) ==
  /\ edit[m].key = NoKey /\ ~grantEdit[m].busy
  /\ edits < MaxEdits /\ edits' = edits + 1

----------------------------------------------------------------------------
(* The administrators' requests about keys. *)

CreateAPIKey(m, k) ==
  /\ Begin(m) /\ k \in Fresh
  /\ rows' = [rows EXCEPT ![k] = NewRow("admin", "given")]
  /\ UNCHANGED <<identities, grant, edit, grantEdit, at>> /\ Noted

(* UpdateAPIKey reads the row, deleted or not, replaces in its copy the    *)
(* fields of the PATCH, and writes every field of the copy but deleted_at. *)
ReadForUpdate(m, k, name, active, forced) ==
  /\ Begin(m) /\ k \in Stored
  /\ edit' = [edit EXCEPT ![m] =
       [key |-> k, row |-> [rows[k] EXCEPT !.name = name, !.active = active, !.forced = forced]]]
  /\ UNCHANGED <<rows, identities, grant, grantEdit, accessVars>>

UpdateAPIKey(m) ==
  /\ edit[m].key # NoKey
  /\ LET k == edit[m].key  copy == edit[m].row
     IN rows' = [rows EXCEPT ![k] = [@ EXCEPT !.name = copy.name, !.active = copy.active,
                                              !.forced = copy.forced]]
  /\ edit' = [edit EXCEPT ![m] = NoEdit]
  /\ UNCHANGED <<identities, grant, grantEdit, at, edits>> /\ Noted

DeleteAPIKey(m, k) ==
  /\ Begin(m) /\ k \in Stored
  /\ ArchiveIdentities({k})
  /\ rows' = [rows EXCEPT ![k] = Erased(@)]
  /\ UNCHANGED <<grant, edit, grantEdit, at>> /\ Noted

(* BatchAPIKeys, for the records that the ids or the issuer_jti name.      *)
BatchDelete(m, ks) ==
  /\ Begin(m)
  /\ LET live == {k \in ks \cap Stored : ~rows[k].deleted}
     IN /\ live # {}
        /\ ArchiveIdentities(live)
        /\ rows' = [k \in Keys |-> IF k \in live THEN Erased(rows[k]) ELSE rows[k]]
  /\ UNCHANGED <<grant, edit, grantEdit, at>> /\ Noted

BatchInactive(m, ks) ==
  /\ Begin(m)
  /\ LET live == {k \in ks \cap Stored : ~rows[k].deleted}
     IN /\ live # {}
        /\ rows' = [k \in Keys |->
                      IF k \in live THEN [rows[k] EXCEPT !.active = FALSE] ELSE rows[k]]
  /\ UNCHANGED <<identities, grant, edit, grantEdit, at>> /\ Noted

----------------------------------------------------------------------------
(* The grant. *)

CreateJWTGrant(m, quota) ==
  /\ Begin(m) /\ grant.state = "none"
  /\ grant' = [state |-> "live", active |-> TRUE, quota |-> quota, issued |-> 0]
  /\ UNCHANGED <<rows, identities, edit, grantEdit, accessVars>>

(* A broken variant: every column of the copy is written. *)
GrantReplaced(copy) ==
  [grant EXCEPT !.active = copy.active, !.quota = copy.quota, !.issued = copy.issued]

(* UpdateJWTGrant, like UpdateAPIKey, reads first and writes afterwards;   *)
(* it does not write issued_count.                                         *)
ReadGrantForUpdate(m, active, quota) ==
  /\ Begin(m) /\ grant.state = "live"
  /\ grantEdit' = [grantEdit EXCEPT ![m] =
       [busy |-> TRUE, active |-> active, quota |-> quota, issued |-> grant.issued]]
  /\ UNCHANGED <<rows, identities, grant, edit, accessVars>>

GrantWith(copy) == [grant EXCEPT !.active = copy.active, !.quota = copy.quota]

UpdateJWTGrant(m) ==
  /\ grantEdit[m].busy
  /\ grant' = IF grant.state = "live" THEN GrantWith(grantEdit[m]) ELSE grant
  /\ grantEdit' = [grantEdit EXCEPT ![m] = NoGrantEdit]
  /\ UNCHANGED <<rows, identities, edit, accessVars, edits>>

(* A broken variant: records that are disabled already are skipped. *)
OfGrantEnabled(k) == rows[k].source = "jwt" /\ ~rows[k].deleted /\ rows[k].active

OfGrant(k) == rows[k].source = "jwt" /\ ~rows[k].deleted

DeleteJWTGrant(m, withKeys) ==
  /\ Begin(m) /\ grant.state = "live"
  /\ rows' = IF withKeys THEN [k \in Keys |-> IF OfGrant(k) THEN Erased(rows[k]) ELSE rows[k]]
             ELSE rows
  /\ grant' = [grant EXCEPT !.state = IF withKeys THEN "purged" ELSE "gone"]
  /\ UNCHANGED <<identities, edit, grantEdit, at>> /\ Noted

(* IssueAPIKeyFromJWTGrant, for a client that shows the grant.             *)
IssueAPIKey(k) ==
  /\ k \in Fresh
  /\ grant.state = "live" /\ grant.active
  /\ grant.quota = 0 \/ grant.issued < grant.quota
  /\ rows' = [rows EXCEPT ![k] = NewRow("jwt", "given")]
  /\ grant' = [grant EXCEPT !.issued = @ + 1]
  /\ UNCHANGED <<identities, adminVars, at>> /\ Noted

----------------------------------------------------------------------------
(* A client's request: lookupPublicKey and ValidateUsableKey. *)

Go(x, to, l) == at' = [at EXCEPT ![x] = to] /\ local' = [local EXCEPT ![x] = l]

Decide(x, l, row) ==
  IF ValidateUsableKey(row)
  THEN Go(x, "accepted", [NoLocals EXCEPT !.employee = l.employee, !.key = l.key])
  ELSE Go(x, "idle", NoLocals)

(* A broken variant: rows that are only marked as deleted are found. *)
FindableByHash(k) == rows[k].source \in {"admin", "jwt"}

(* FindAPIKeyByPlainText finds the row by the hash of the plain key. *)
Findable(k) == rows[k].source \in {"admin", "jwt"} /\ ~rows[k].deleted

AuthenticateKey(x, k) ==
  /\ at[x] \in Idle /\ Findable(k)
  /\ Decide(x, [NoLocals EXCEPT !.key = k], rows[k])
  /\ UNCHANGED <<rows, identities, grant, adminVars>>

(* An employee's token. ResolveEmployeeKey looks for the identity ...      *)
LookupEmployee(x, e, named) ==
  /\ at[x] \in Idle
  /\ Go(x, IF binding[e] = NoKey THEN "unknown" ELSE "known",
        [employee |-> e, named |-> named, key |-> binding[e], since |-> LiveFor(e)])
  /\ UNCHANGED <<rows, identities, grant, adminVars>>

(* ... reads the record of a known one, and may have a name to fill in ... *)
LoadEmployee(x) ==
  /\ at[x] = "known"
  /\ LET l == local[x]  row == rows[l.key]
     IN IF l.named /\ row.name = "number" /\ row.active /\ ~row.deleted
        THEN Go(x, "naming", l)
        ELSE Decide(x, l, row)
  /\ UNCHANGED <<rows, identities, grant, adminVars>>

(* A broken variant: UPDATE ... WHERE id = ?. *)
NamedAnyway(row) == [row EXCEPT !.name = "token"]

(* ... which it does if the record is still as it was when it was read ... *)
Named(row) ==
  IF row.name = "number" /\ row.active /\ ~row.deleted THEN [row EXCEPT !.name = "token"]
  ELSE row

BackfillName(x) ==
  /\ at[x] = "naming"
  /\ rows' = [rows EXCEPT ![local[x].key] = Named(@)]
  /\ Go(x, "resolved", [local[x] EXCEPT !.named = FALSE])
  /\ UNCHANGED <<identities, grant, adminVars>>

(* A broken variant: the transaction trusts the read made before it. *)
RegisterAnyway(x, k) ==
  /\ at[x] = "unknown" /\ k \in Fresh
  /\ LET l == local[x]
     IN /\ rows' = [rows EXCEPT ![k] = NewRow("employee", IF l.named THEN "token" ELSE "number")]
        /\ binding' = [binding EXCEPT ![l.employee] = k]
        /\ at' = [at EXCEPT ![x] = "resolved"]
        /\ local' = [WithNote EXCEPT ![x].key = k, ![x].named = FALSE]
  /\ UNCHANGED <<archived, grant, adminVars>>

(* ... or registers an unknown one, unless another request just did.       *)
RegisterEmployee(x, k) ==
  /\ at[x] = "unknown" /\ k \in Fresh
  /\ LET l == local[x]
     IN /\ binding[l.employee] = NoKey
        /\ rows' = [rows EXCEPT ![k] = NewRow("employee", IF l.named THEN "token" ELSE "number")]
        /\ binding' = [binding EXCEPT ![l.employee] = k]
        /\ at' = [at EXCEPT ![x] = "resolved"]
        /\ local' = [WithNote EXCEPT ![x].key = k, ![x].named = FALSE]
  /\ UNCHANGED <<archived, grant, adminVars>>

FindRegistered(x) ==
  /\ at[x] = "unknown" /\ binding[local[x].employee] # NoKey
  /\ Go(x, "resolved", [local[x] EXCEPT !.key = binding[local[x].employee], !.named = FALSE])
  /\ UNCHANGED <<rows, identities, grant, adminVars>>

(* The last GetAPIKey, and the decision. *)
AuthoriseEmployee(x) ==
  /\ at[x] = "resolved"
  /\ Decide(x, local[x], rows[local[x].key])
  /\ UNCHANGED <<rows, identities, grant, adminVars>>

----------------------------------------------------------------------------
Administration(m) ==
  \/ \E k \in Keys : CreateAPIKey(m, k) \/ DeleteAPIKey(m, k)
  \/ \E k \in Keys, name \in RecordNames, active, forced \in BOOLEAN :
       /\ \/ name = rows[k].name
          \/ name = "given" /\ active = rows[k].active /\ forced = rows[k].forced
       /\ ReadForUpdate(m, k, name, active, forced)
  \/ UpdateAPIKey(m)
  \/ \E ks \in SUBSET Keys : BatchDelete(m, ks) \/ BatchInactive(m, ks)
  \/ \E quota \in 0 .. MaxQuota : CreateJWTGrant(m, quota)
  \/ \E active \in BOOLEAN, quota \in 0 .. MaxQuota : ReadGrantForUpdate(m, active, quota)
  \/ UpdateJWTGrant(m)
  \/ \E withKeys \in BOOLEAN : DeleteJWTGrant(m, withKeys)

Access(x) ==
  \/ \E k \in Keys : AuthenticateKey(x, k) \/ RegisterEmployee(x, k)
  \/ \E e \in Employees, named \in BOOLEAN : LookupEmployee(x, e, named)
  \/ LoadEmployee(x) \/ BackfillName(x) \/ FindRegistered(x) \/ AuthoriseEmployee(x)

Next ==
  \/ \E m \in Admins : Administration(m)
  \/ \E k \in Keys : IssueAPIKey(k)
  \/ \E x \in Accesses : Access(x)

Spec == Init /\ [][Next]_vars
----------------------------------------------------------------------------
TypeOK ==
  /\ rows \in [Keys -> Rows]
  /\ binding \in [Employees -> Keys \cup {NoKey}]
  /\ archived \in [Keys -> Employees \cup {NoOne}]
  /\ grant \in [state : {"none", "live", "gone", "purged"}, active : BOOLEAN,
                quota : 0 .. MaxQuota, issued : Nat]
  /\ edits \in 0 .. MaxEdits
  /\ edit \in [Admins -> [key : Keys \cup {NoKey}, row : Rows]]
  /\ grantEdit \in [Admins -> [busy : BOOLEAN, active : BOOLEAN, quota : 0 .. MaxQuota,
                                issued : Nat]]
  /\ at \in [Accesses -> Idle \cup {"known", "unknown", "naming", "resolved"}]
  /\ local \in [Accesses -> [employee : Employees \cup {NoOne}, named : BOOLEAN,
                              key : Keys \cup {NoKey}, since : SUBSET Keys]]

(* An employee has at most one live record, whatever first accesses and    *)
(* deletions race: the one its identity is bound to. A deleted record is   *)
(* bound to nobody and keeps its owner in the history.                     *)
OneLiveRecord ==
  \A k \in Keys : rows[k].source = "employee" =>
    /\ ~rows[k].deleted <=> \E e \in Employees : binding[e] = k
    /\ rows[k].deleted <=> archived[k] # NoOne
    /\ \A e, f \in Employees : binding[e] = k /\ binding[f] = k => e = f

(* A request is admitted only with a record that was its caller's and not  *)
(* deleted at some moment since the request arrived, and that is active    *)
(* and not forced to expire when the decision is taken: identity, record   *)
(* and name are read and written in separate statements, and rows can be   *)
(* edited, and set to active, after they were deleted.                     *)
Admits(x) == at'[x] = "accepted" /\ <<at[x], local[x]>> # <<at'[x], local'[x]>>

AcceptedOnLiveRecord ==
  [][\A x \in Accesses : Admits(x) =>
       LET k == local'[x].key  e == local'[x].employee
       IN /\ k \in LiveFor(e) \cup IF at[x] \in Idle THEN {} ELSE local[x].since
          /\ rows[k].active /\ ~rows[k].forced]_vars

(* A grant never gives out more keys than its quota of the moment allows,  *)
(* and none while it is disabled, however its edits race with issuance.    *)
IssuesWithinQuota ==
  [][Issued' # Issued =>
       /\ grant.state = "live" /\ grant.active
       /\ grant.quota = 0 \/ Cardinality(Issued) < grant.quota]_vars

(* A grant that was deleted together with its keys leaves none of them     *)
(* behind, and nothing it issued comes back.                               *)
PurgedForGood ==
  grant.state = "purged" => \A k \in Issued : rows[k].deleted

(* The name a person gave to a record is not overwritten by the name that  *)
(* tokens carry (with one administrator's request at a time).              *)
GivenNameKept ==
  [][\A k \in Stored : rows[k].name = "given" => rows'[k].name = "given"]_vars

=============================================================================
