--------------------------- MODULE KeyStoreProofs ---------------------------
(***************************************************************************)
(* Proofs about KeyStore, for every set of ids, employees, requests and    *)
(* administrators, and every bound.                                        *)
(***************************************************************************)
EXTENDS KeyStore, TLAPS, FiniteSetTheorems

(* Requests under way know whom they serve, and with which record. *)
Serving ==
  \A x \in Accesses : at[x] \notin Idle =>
    /\ local[x].employee \in Employees
    /\ at[x] # "unknown" => local[x].key \in Keys

(* What is bound or archived is an employee's record. *)
EmployeeRecords ==
  /\ \A e \in Employees : binding[e] # NoKey => rows[binding[e]].source = "employee"
  /\ \A k \in Keys : archived[k] # NoOne => rows[k].source = "employee"

IInv == TypeOK /\ Serving /\ EmployeeRecords /\ OneLiveRecord

----------------------------------------------------------------------------
LEMMA NewRowType ==
  \A source \in Sources, name \in RecordNames : NewRow(source, name) \in Rows
  BY DEF NewRow, Rows

LEMMA ErasedRow ==
  \A row \in Rows : /\ Erased(row) \in Rows /\ Erased(row).source = row.source
                    /\ Erased(row).deleted
  BY DEF Erased, Rows

LEMMA FreshRow == \A k \in Fresh : k \in Keys /\ rows[k].source = "none"
  BY DEF Fresh, Stored

(* A fresh id is bound to nobody and in nobody's history. *)
LEMMA FreshUnknown ==
  ASSUME IInv, NEW k \in Fresh
  PROVE  archived[k] = NoOne /\ \A e \in Employees : binding[e] # k
<1>1. k \in Keys /\ rows[k].source = "none"
  BY FreshRow
<1> QED
  BY <1>1, KeyStoreAssumption DEF IInv, EmployeeRecords

LEMMA InitInv == Init => IInv
<1> SUFFICES ASSUME Init PROVE IInv
  OBVIOUS
<1>1. NoRow \in Rows /\ NoRow.source = "none"
  BY DEF NoRow, Rows, Sources, RecordNames
<1>2. TypeOK
  BY <1>1, KeyStoreAssumption DEF Init, TypeOK, NoEdit, NoGrantEdit, NoLocals, Idle
<1>3. Serving /\ EmployeeRecords
  BY DEF Init, Serving, EmployeeRecords, Idle
<1>4. OneLiveRecord
  BY <1>1 DEF Init, OneLiveRecord
<1> QED
  BY <1>2, <1>3, <1>4 DEF IInv

----------------------------------------------------------------------------
(* Noting what happens changes nothing that a request works with. *)
LocalsType ==
  [employee : Employees \cup {NoOne}, named : BOOLEAN, key : Keys \cup {NoKey},
   since : SUBSET Keys]

LEMMA WithNoteType ==
  ASSUME TypeOK
  PROVE  /\ WithNote \in [Accesses -> LocalsType]
         /\ \A x \in Accesses : /\ WithNote[x].employee = local[x].employee
                                /\ WithNote[x].key = local[x].key
<1>1. local \in [Accesses -> LocalsType]
  BY DEF TypeOK, LocalsType
<1> SUFFICES ASSUME NEW x \in Accesses
             PROVE  /\ WithNote[x] \in LocalsType
                    /\ WithNote[x].employee = local[x].employee
                    /\ WithNote[x].key = local[x].key
  BY DEF WithNote
<1> DEFINE live == LiveIn(rows', binding', local[x].employee)
<1>2. live \in SUBSET Keys
  BY DEF LiveIn
<1>3. WithNote[x] = IF at[x] \in Idle THEN local[x]
                    ELSE [local[x] EXCEPT !.since = @ \cup live]
  BY DEF WithNote
<1> HIDE DEF live
<1> QED
  BY <1>1, <1>2, <1>3 DEF LocalsType

LEMMA NotedKeeps ==
  ASSUME TypeOK, Serving, Noted, at' = at
  PROVE  local' \in [Accesses -> LocalsType] /\ Serving'
  BY WithNoteType DEF Noted, Serving

(* An action that keeps who is an employee's record, and which records are *)
(* deleted, keeps the invariant about them.                                *)
LEMMA SameRecords ==
  ASSUME IInv, UNCHANGED identities,
         \A k \in Keys : /\ (rows'[k].source = "employee") <=> (rows[k].source = "employee")
                         /\ rows[k].source = "employee" => rows'[k].deleted = rows[k].deleted
  PROVE  EmployeeRecords' /\ OneLiveRecord'
<1>1. binding \in [Employees -> Keys \cup {NoKey}]
  BY DEF IInv, TypeOK
<1> QED
  BY <1>1, KeyStoreAssumption DEF IInv, EmployeeRecords, OneLiveRecord, identities

(* Deleting records archives the identities bound to them. *)
LEMMA ArchivedRecords ==
  ASSUME IInv, NEW ks \in SUBSET Stored, ArchiveIdentities(ks),
         rows' = [k \in Keys |-> IF k \in ks THEN Erased(rows[k]) ELSE rows[k]]
  PROVE  /\ rows' \in [Keys -> Rows] /\ binding' \in [Employees -> Keys \cup {NoKey}]
         /\ archived' \in [Keys -> Employees \cup {NoOne}]
         /\ EmployeeRecords' /\ OneLiveRecord'
<1>1. /\ binding \in [Employees -> Keys \cup {NoKey}]
      /\ archived \in [Keys -> Employees \cup {NoOne}] /\ rows \in [Keys -> Rows]
  BY DEF IInv, TypeOK
<1>2. \A k \in Keys : /\ rows'[k] \in Rows /\ rows'[k].source = rows[k].source
                      /\ k \in ks => rows'[k].deleted
                      /\ k \notin ks => rows'[k] = rows[k]
  BY <1>1, ErasedRow
<1>3. rows' \in [Keys -> Rows]
  BY <1>1, <1>2
<1>4. \A k \in Keys :
        archived'[k] = IF k \in ks /\ archived[k] = NoOne /\ \E e \in Employees : binding[e] = k
                       THEN CHOOSE e \in Employees : binding[e] = k ELSE archived[k]
  BY DEF ArchiveIdentities
<1>5. \A k \in Keys : (\E e \in Employees : binding[e] = k)
                     => (CHOOSE e \in Employees : binding[e] = k) \in Employees
  OBVIOUS
<1>6. archived' \in [Keys -> Employees \cup {NoOne}]
  BY <1>1, <1>4, <1>5 DEF ArchiveIdentities
<1>7. \A e \in Employees : binding'[e] = IF binding[e] \in ks THEN NoKey ELSE binding[e]
  BY DEF ArchiveIdentities
<1>8. binding' \in [Employees -> Keys \cup {NoKey}]
  BY <1>1, <1>7 DEF ArchiveIdentities
<1>9. \A k \in Keys : archived'[k] # NoOne
        <=> (archived[k] # NoOne \/ (k \in ks /\ \E e \in Employees : binding[e] = k))
  BY <1>4, <1>5, KeyStoreAssumption
<1>10. EmployeeRecords'
  <2>1. \A e \in Employees : (binding'[e] # NoKey) => rows'[binding'[e]].source = "employee"
    BY <1>1, <1>2, <1>7 DEF IInv, EmployeeRecords
  <2>2. \A k \in Keys : archived'[k] # NoOne => rows'[k].source = "employee"
    BY <1>1, <1>2, <1>9, KeyStoreAssumption DEF IInv, EmployeeRecords
  <2> QED
    BY <2>1, <2>2 DEF EmployeeRecords
<1>11. OneLiveRecord'
  <2> SUFFICES ASSUME NEW k \in Keys, rows[k].source = "employee"
               PROVE  /\ ~rows'[k].deleted <=> \E e \in Employees : binding'[e] = k
                      /\ rows'[k].deleted <=> archived'[k] # NoOne
                      /\ \A e, f \in Employees : (binding'[e] = k /\ binding'[f] = k) => e = f
    BY <1>2 DEF OneLiveRecord
  <2>1. /\ ~rows[k].deleted <=> \E e \in Employees : binding[e] = k
        /\ rows[k].deleted <=> archived[k] # NoOne
        /\ \A e, f \in Employees : binding[e] = k /\ binding[f] = k => e = f
    BY DEF IInv, OneLiveRecord
  <2>2. k # NoKey
    BY KeyStoreAssumption
  <2>3. CASE k \in ks
    BY <1>2, <1>7, <1>9, <2>1, <2>2, <2>3
  <2>4. CASE k \notin ks
    BY <1>2, <1>7, <1>9, <2>1, <2>2, <2>4
  <2> QED
    BY <2>3, <2>4
<1> QED
  BY <1>3, <1>6, <1>8, <1>10, <1>11

----------------------------------------------------------------------------
(* The steps of a client's request. *)

Stages == Idle \cup {"known", "unknown", "naming", "resolved"}

LEMMA Went ==
  ASSUME IInv, NEW x \in Accesses, NEW to \in Stages, NEW l \in LocalsType, Go(x, to, l),
         to \notin Idle => l.employee \in Employees /\ (to # "unknown" => l.key \in Keys)
  PROVE  /\ at' \in [Accesses -> Stages] /\ local' \in [Accesses -> LocalsType]
         /\ Serving'
<1>1. /\ at \in [Accesses -> Stages] /\ local \in [Accesses -> LocalsType]
  BY DEF IInv, TypeOK, Stages, LocalsType
<1>2. Serving
  BY DEF IInv
<1> QED
  BY <1>1, <1>2 DEF Go, Serving

LEMMA Decided ==
  ASSUME IInv, NEW x \in Accesses, NEW l \in LocalsType, NEW row, Decide(x, l, row)
  PROVE  /\ at' \in [Accesses -> Stages] /\ local' \in [Accesses -> LocalsType]
         /\ Serving'
<1>1. /\ NoLocals \in LocalsType
      /\ [NoLocals EXCEPT !.employee = l.employee, !.key = l.key] \in LocalsType
  BY DEF NoLocals, LocalsType
<1>2. "accepted" \in Stages /\ "idle" \in Stages /\ "accepted" \in Idle /\ "idle" \in Idle
  BY DEF Stages, Idle
<1>3. CASE ValidateUsableKey(row)
  <2>1. Go(x, "accepted", [NoLocals EXCEPT !.employee = l.employee, !.key = l.key])
    BY <1>3 DEF Decide
  <2> QED
    BY <2>1, <1>1, <1>2, Went
<1>4. CASE ~ValidateUsableKey(row)
  <2>1. Go(x, "idle", NoLocals)
    BY <1>4 DEF Decide
  <2> QED
    BY <2>1, <1>1, <1>2, Went
<1> QED
  BY <1>3, <1>4

(* A step of a request that changes no record. *)
LEMMA ReadingStep ==
  ASSUME IInv, UNCHANGED <<rows, identities, grant, adminVars>>,
         at' \in [Accesses -> Stages], local' \in [Accesses -> LocalsType], Serving'
  PROVE  IInv'
<1>1. EmployeeRecords' /\ OneLiveRecord'
  BY SameRecords
<1>2. TypeOK'
  BY DEF IInv, TypeOK, identities, adminVars, Stages, LocalsType
<1> QED
  BY <1>1, <1>2 DEF IInv

LEMMA RequestParts ==
  ASSUME IInv, NEW x \in Accesses
  PROVE  /\ local[x] \in LocalsType
         /\ at[x] \notin Idle => local[x].employee \in Employees
         /\ at[x] \in {"known", "naming", "resolved"} => local[x].key \in Keys
         /\ at[x] \in {"known", "unknown", "naming", "resolved"} => at[x] \notin Idle
  BY DEF IInv, TypeOK, Serving, LocalsType, Idle

LEMMA InvAuthenticateKey ==
  ASSUME IInv, NEW x \in Accesses, NEW k \in Keys, AuthenticateKey(x, k)
  PROVE  IInv'
<1>1. [NoLocals EXCEPT !.key = k] \in LocalsType
  BY DEF NoLocals, LocalsType
<1> QED
  BY <1>1, Decided, ReadingStep DEF AuthenticateKey

LEMMA InvLookupEmployee ==
  ASSUME IInv, NEW x \in Accesses, NEW e \in Employees, NEW named \in BOOLEAN,
         LookupEmployee(x, e, named)
  PROVE  IInv'
<1> DEFINE l == [employee |-> e, named |-> named, key |-> binding[e], since |-> LiveFor(e)]
           to == IF binding[e] = NoKey THEN "unknown" ELSE "known"
<1>1. binding[e] \in Keys \cup {NoKey} /\ LiveFor(e) \in SUBSET Keys
  BY DEF IInv, TypeOK, LiveFor, LiveIn
<1>2. l \in LocalsType /\ l.employee \in Employees
  BY <1>1 DEF LocalsType
<1>3. to \in Stages /\ (to # "unknown" => l.key \in Keys)
  BY <1>1 DEF Stages
<1>4. Go(x, to, l)
  BY DEF LookupEmployee
<1> HIDE DEF l, to
<1>5. /\ at' \in [Accesses -> Stages] /\ local' \in [Accesses -> LocalsType] /\ Serving'
  BY <1>2, <1>3, <1>4, Went
<1> QED
  BY <1>5, ReadingStep DEF LookupEmployee

LEMMA InvLoadEmployee ==
  ASSUME IInv, NEW x \in Accesses, LoadEmployee(x)
  PROVE  IInv'
<1>1. /\ local[x] \in LocalsType /\ local[x].employee \in Employees /\ local[x].key \in Keys
      /\ "naming" \in Stages
  BY RequestParts DEF LoadEmployee, Stages
<1>2. Go(x, "naming", local[x]) \/ Decide(x, local[x], rows[local[x].key])
  BY DEF LoadEmployee
<1>3. /\ at' \in [Accesses -> Stages] /\ local' \in [Accesses -> LocalsType] /\ Serving'
  BY <1>1, <1>2, Went, Decided
<1> QED
  BY <1>3, ReadingStep DEF LoadEmployee

LEMMA InvFindRegistered ==
  ASSUME IInv, NEW x \in Accesses, FindRegistered(x)
  PROVE  IInv'
<1> DEFINE e == local[x].employee
           l == [local[x] EXCEPT !.key = binding[e], !.named = FALSE]
<1>1. local[x] \in LocalsType /\ e \in Employees
  BY RequestParts DEF FindRegistered
<1>2. binding[e] \in Keys
  BY <1>1 DEF FindRegistered, IInv, TypeOK
<1>3. l \in LocalsType /\ l.employee \in Employees /\ l.key \in Keys
  BY <1>1, <1>2 DEF LocalsType
<1>4. Go(x, "resolved", l) /\ "resolved" \in Stages
  BY DEF FindRegistered, Stages
<1> HIDE DEF l
<1>5. /\ at' \in [Accesses -> Stages] /\ local' \in [Accesses -> LocalsType] /\ Serving'
  BY <1>3, <1>4, Went
<1> QED
  BY <1>5, ReadingStep DEF FindRegistered

LEMMA InvAuthoriseEmployee ==
  ASSUME IInv, NEW x \in Accesses, AuthoriseEmployee(x)
  PROVE  IInv'
<1>1. local[x] \in LocalsType
  BY RequestParts
<1> QED
  BY <1>1, Decided, ReadingStep DEF AuthoriseEmployee

LEMMA NamedRow ==
  \A row \in Rows : /\ Named(row) \in Rows /\ Named(row).source = row.source
                    /\ Named(row).deleted = row.deleted
  BY DEF Named, Rows, RecordNames

LEMMA InvBackfillName ==
  ASSUME IInv, NEW x \in Accesses, BackfillName(x)
  PROVE  IInv'
<1> DEFINE key == local[x].key
           l == [local[x] EXCEPT !.named = FALSE]
<1>1. local[x] \in LocalsType /\ local[x].employee \in Employees /\ key \in Keys
  BY RequestParts DEF BackfillName
<1>2. l \in LocalsType /\ l.employee \in Employees /\ l.key \in Keys /\ "resolved" \in Stages
  BY <1>1 DEF LocalsType, Stages
<1>3. Go(x, "resolved", l)
  BY DEF BackfillName
<1> HIDE DEF l
<1>4. /\ at' \in [Accesses -> Stages] /\ local' \in [Accesses -> LocalsType] /\ Serving'
  BY <1>2, <1>3, Went
<1>5. rows \in [Keys -> Rows]
  BY DEF IInv, TypeOK
<1>6. rows' = [rows EXCEPT ![key] = Named(rows[key])]
  BY DEF BackfillName
<1> HIDE DEF key
<1>7. /\ rows' \in [Keys -> Rows]
      /\ \A k \in Keys : /\ rows'[k].source = rows[k].source
                         /\ rows'[k].deleted = rows[k].deleted
  BY <1>1, <1>5, <1>6, NamedRow
<1>8. UNCHANGED <<identities, grant, adminVars>>
  BY DEF BackfillName
<1>9. EmployeeRecords' /\ OneLiveRecord'
  BY <1>7, <1>8, SameRecords
<1>10. TypeOK'
  BY <1>4, <1>7, <1>8 DEF IInv, TypeOK, identities, adminVars, Stages, LocalsType
<1> QED
  BY <1>4, <1>9, <1>10 DEF IInv

LEMMA InvRegisterEmployee ==
  ASSUME IInv, NEW x \in Accesses, NEW k \in Keys, RegisterEmployee(x, k)
  PROVE  IInv'
<1> DEFINE e == local[x].employee
           row == NewRow("employee", IF local[x].named THEN "token" ELSE "number")
<1>1. /\ e \in Employees /\ k \in Fresh /\ binding[e] = NoKey
      /\ at[x] = "unknown" /\ x \in Accesses
  BY RequestParts DEF RegisterEmployee
<1>2. /\ rows \in [Keys -> Rows] /\ binding \in [Employees -> Keys \cup {NoKey}]
      /\ at \in [Accesses -> Stages] /\ archived \in [Keys -> Employees \cup {NoOne}]
  BY DEF IInv, TypeOK, Stages
<1>3. row \in Rows /\ row.source = "employee" /\ ~row.deleted
  BY NewRowType DEF NewRow, Sources, RecordNames
<1>4. /\ rows' = [rows EXCEPT ![k] = row] /\ binding' = [binding EXCEPT ![e] = k]
      /\ at' = [at EXCEPT ![x] = "resolved"]
      /\ local' = [WithNote EXCEPT ![x].key = k, ![x].named = FALSE]
      /\ UNCHANGED <<archived, grant, adminVars>>
  BY DEF RegisterEmployee
<1> HIDE DEF e, row
<1>5. rows' \in [Keys -> Rows] /\ binding' \in [Employees -> Keys \cup {NoKey}]
  BY <1>1, <1>2, <1>3, <1>4
<1>6. at' \in [Accesses -> Stages]
  BY <1>2, <1>4 DEF Stages
<1>7. /\ WithNote \in [Accesses -> LocalsType]
      /\ \A y \in Accesses : /\ WithNote[y].employee = local[y].employee
                             /\ WithNote[y].key = local[y].key
  BY WithNoteType DEF IInv
<1>8. /\ local' \in [Accesses -> LocalsType]
      /\ \A y \in Accesses : /\ local'[y].employee = local[y].employee
                             /\ local'[y].key = IF y = x THEN k ELSE local[y].key
  <2>1. \A y \in Accesses : local'[y] =
          IF y = x THEN [WithNote[x] EXCEPT !.key = k, !.named = FALSE] ELSE WithNote[y]
    BY <1>4, <1>7
  <2>2. [WithNote[x] EXCEPT !.key = k, !.named = FALSE] \in LocalsType
    BY <1>7 DEF LocalsType
  <2>3. \A y \in Accesses : local'[y] \in LocalsType
    BY <2>1, <2>2, <1>7
  <2>4. local' = [y \in Accesses |-> local'[y]]
    BY <1>4, <1>7
  <2>5. local' \in [Accesses -> LocalsType]
    BY <2>3, <2>4
  <2>6. \A y \in Accesses : /\ local'[y].employee = local[y].employee
                            /\ local'[y].key = IF y = x THEN k ELSE local[y].key
    BY <2>1, <1>7 DEF LocalsType
  <2> QED
    BY <2>5, <2>6
<1>9. Serving'
  BY <1>1, <1>2, <1>4, <1>8, RequestParts DEF IInv, Serving, Idle
<1>10. archived[k] = NoOne /\ \A f \in Employees : binding[f] # k
  BY <1>1, FreshUnknown
<1>11. EmployeeRecords'
  BY <1>1, <1>2, <1>3, <1>4, <1>10, KeyStoreAssumption DEF IInv, EmployeeRecords
<1>12. OneLiveRecord'
  <2> SUFFICES ASSUME NEW j \in Keys, rows'[j].source = "employee"
               PROVE  /\ ~rows'[j].deleted <=> \E f \in Employees : binding'[f] = j
                      /\ rows'[j].deleted <=> archived'[j] # NoOne
                      /\ \A f, g \in Employees : (binding'[f] = j /\ binding'[g] = j) => f = g
    BY DEF OneLiveRecord
  <2>1. \A f \in Employees : binding'[f] = IF f = e THEN k ELSE binding[f]
    BY <1>1, <1>2, <1>4
  <2>2. CASE j = k
    BY <1>1, <1>2, <1>3, <1>4, <1>10, <2>1, <2>2
  <2>3. CASE j # k
    <3>1. rows'[j] = rows[j] /\ archived'[j] = archived[j]
      BY <1>2, <1>4, <2>3
    <3>2. \A f \in Employees : (binding'[f] = j) <=> (binding[f] = j)
      BY <1>1, <2>1, <2>3, KeyStoreAssumption
    <3> QED
      BY <3>1, <3>2 DEF IInv, OneLiveRecord
  <2> QED
    BY <2>2, <2>3
<1>13. TypeOK'
  BY <1>4, <1>5, <1>6, <1>8 DEF IInv, TypeOK, adminVars, Stages, LocalsType
<1> QED
  BY <1>9, <1>11, <1>12, <1>13 DEF IInv

----------------------------------------------------------------------------
(* The administrators' requests, and the issuance of keys.                 *)

GrantType ==
  [state : {"none", "live", "gone", "purged"}, active : BOOLEAN, quota : 0 .. MaxQuota,
   issued : Nat]
EditType == [key : Keys \cup {NoKey}, row : Rows]
GrantEditType == [busy : BOOLEAN, active : BOOLEAN, quota : 0 .. MaxQuota, issued : Nat]

LEMMA StateParts ==
  ASSUME IInv
  PROVE  /\ rows \in [Keys -> Rows] /\ grant \in GrantType
         /\ edit \in [Admins -> EditType] /\ grantEdit \in [Admins -> GrantEditType]
         /\ edits \in 0 .. MaxEdits
  BY DEF IInv, TypeOK, GrantType, EditType, GrantEditType

LEMMA BeginType ==
  ASSUME IInv, NEW m \in Admins, Begin(m)
  PROVE  edits' \in 0 .. MaxEdits
  BY KeyStoreAssumption DEF IInv, TypeOK, Begin

(* A step of an administrator that changes no record. *)
LEMMA EditingStep ==
  ASSUME IInv, UNCHANGED <<rows, identities, accessVars>>, edits' \in 0 .. MaxEdits,
         grant' \in GrantType, edit' \in [Admins -> EditType],
         grantEdit' \in [Admins -> GrantEditType]
  PROVE  IInv'
<1>1. EmployeeRecords' /\ OneLiveRecord'
  BY SameRecords
<1>2. Serving'
  BY DEF IInv, Serving, accessVars
<1>3. TypeOK'
  BY DEF IInv, TypeOK, identities, accessVars, GrantType, EditType, GrantEditType
<1> QED
  BY <1>1, <1>2, <1>3 DEF IInv

(* A step that changes records, noted by the requests under way. *)
LEMMA RecordStep ==
  ASSUME IInv, Noted, at' = at, rows' \in [Keys -> Rows],
         binding' \in [Employees -> Keys \cup {NoKey}],
         archived' \in [Keys -> Employees \cup {NoOne}],
         EmployeeRecords', OneLiveRecord',
         edits' \in 0 .. MaxEdits, grant' \in GrantType,
         edit' \in [Admins -> EditType], grantEdit' \in [Admins -> GrantEditType]
  PROVE  IInv'
<1>1. local' \in [Accesses -> LocalsType] /\ Serving'
  BY NotedKeeps DEF IInv
<1>2. TypeOK'
  BY <1>1 DEF IInv, TypeOK, LocalsType, GrantType, EditType, GrantEditType
<1> QED
  BY <1>1, <1>2 DEF IInv

(* The same, if no employee's record appears or is deleted. *)
LEMMA PlainStep ==
  ASSUME IInv, Noted, UNCHANGED <<identities, at>>, rows' \in [Keys -> Rows],
         \A k \in Keys : /\ (rows'[k].source = "employee") <=> (rows[k].source = "employee")
                         /\ rows[k].source = "employee" => rows'[k].deleted = rows[k].deleted,
         edits' \in 0 .. MaxEdits, grant' \in GrantType,
         edit' \in [Admins -> EditType], grantEdit' \in [Admins -> GrantEditType]
  PROVE  IInv'
<1>1. EmployeeRecords' /\ OneLiveRecord'
  BY SameRecords
<1>2. /\ binding' \in [Employees -> Keys \cup {NoKey}]
      /\ archived' \in [Keys -> Employees \cup {NoOne}]
  BY DEF IInv, TypeOK, identities
<1> QED
  BY <1>1, <1>2, RecordStep

LEMMA InvCreateAPIKey ==
  ASSUME IInv, NEW m \in Admins, NEW k \in Keys, CreateAPIKey(m, k)
  PROVE  IInv'
<1> DEFINE row == NewRow("admin", "given")
<1>1. row \in Rows /\ row.source = "admin"
  BY NewRowType DEF NewRow, Sources, RecordNames
<1>2. rows' = [rows EXCEPT ![k] = row] /\ rows[k].source = "none"
  BY FreshRow DEF CreateAPIKey
<1> HIDE DEF row
<1>3. rows' \in [Keys -> Rows]
  BY <1>1, <1>2, StateParts
<1>4. \A j \in Keys : /\ (rows'[j].source = "employee") <=> (rows[j].source = "employee")
                      /\ rows[j].source = "employee" => rows'[j].deleted = rows[j].deleted
  BY <1>1, <1>2, StateParts
<1>5. Noted /\ UNCHANGED <<identities, grant, edit, grantEdit, at>> /\ edits' \in 0 .. MaxEdits
  BY BeginType DEF CreateAPIKey
<1> QED
  BY <1>3, <1>4, <1>5, StateParts, PlainStep

LEMMA InvReadForUpdate ==
  ASSUME IInv, NEW m \in Admins, NEW k \in Keys, NEW name \in RecordNames,
         NEW active \in BOOLEAN, NEW forced \in BOOLEAN,
         ReadForUpdate(m, k, name, active, forced)
  PROVE  IInv'
<1> DEFINE copy == [rows[k] EXCEPT !.name = name, !.active = active, !.forced = forced]
<1>1. copy \in Rows
  BY StateParts DEF Rows
<1>2. edit' = [edit EXCEPT ![m] = [key |-> k, row |-> copy]]
  BY DEF ReadForUpdate
<1> HIDE DEF copy
<1>3. edit' \in [Admins -> EditType]
  BY <1>1, <1>2, StateParts DEF EditType
<1>4. UNCHANGED <<rows, identities, accessVars, grant, grantEdit>> /\ edits' \in 0 .. MaxEdits
  BY BeginType DEF ReadForUpdate
<1> QED
  BY <1>3, <1>4, StateParts, EditingStep

LEMMA InvUpdateAPIKey ==
  ASSUME IInv, NEW m \in Admins, UpdateAPIKey(m)
  PROVE  IInv'
<1> DEFINE k == edit[m].key
           copy == edit[m].row
           row == [rows[k] EXCEPT !.name = copy.name, !.active = copy.active,
                                  !.forced = copy.forced]
<1>1. k \in Keys /\ copy \in Rows
  BY StateParts DEF UpdateAPIKey, EditType
<1>2. row \in Rows /\ row.source = rows[k].source /\ row.deleted = rows[k].deleted
  BY <1>1, StateParts DEF Rows
<1>3. rows' = [rows EXCEPT ![k] = row] /\ edit' = [edit EXCEPT ![m] = NoEdit]
  BY DEF UpdateAPIKey
<1> HIDE DEF k, copy, row
<1>4. rows' \in [Keys -> Rows]
  BY <1>1, <1>2, <1>3, StateParts
<1>5. \A j \in Keys : /\ (rows'[j].source = "employee") <=> (rows[j].source = "employee")
                      /\ rows[j].source = "employee" => rows'[j].deleted = rows[j].deleted
  BY <1>1, <1>2, <1>3, StateParts
<1>6. NoEdit \in EditType
  BY DEF NoEdit, EditType, NoRow, Rows, Sources, RecordNames
<1>7. edit' \in [Admins -> EditType]
  BY <1>3, <1>6, StateParts
<1>8. Noted /\ UNCHANGED <<identities, at, grant, grantEdit, edits>>
  BY DEF UpdateAPIKey
<1> QED
  BY <1>4, <1>5, <1>7, <1>8, StateParts, PlainStep

LEMMA InvDeleteAPIKey ==
  ASSUME IInv, NEW m \in Admins, NEW k \in Keys, DeleteAPIKey(m, k)
  PROVE  IInv'
<1>1. {k} \in SUBSET Stored /\ ArchiveIdentities({k})
  BY DEF DeleteAPIKey
<1>2. rows' = [j \in Keys |-> IF j \in {k} THEN Erased(rows[j]) ELSE rows[j]]
  BY StateParts DEF DeleteAPIKey
<1>3. Noted /\ UNCHANGED <<at, grant, edit, grantEdit>> /\ edits' \in 0 .. MaxEdits
  BY BeginType DEF DeleteAPIKey
<1> QED
  BY <1>1, <1>2, <1>3, StateParts, ArchivedRecords, RecordStep

LEMMA InvBatchDelete ==
  ASSUME IInv, NEW m \in Admins, NEW ks \in SUBSET Keys, BatchDelete(m, ks)
  PROVE  IInv'
<1> DEFINE live == {k \in ks \cap Stored : ~rows[k].deleted}
<1>1. live \in SUBSET Stored
  OBVIOUS
<1>2. /\ ArchiveIdentities(live)
      /\ rows' = [k \in Keys |-> IF k \in live THEN Erased(rows[k]) ELSE rows[k]]
  BY DEF BatchDelete
<1>3. Noted /\ UNCHANGED <<at, grant, edit, grantEdit>> /\ edits' \in 0 .. MaxEdits
  BY BeginType DEF BatchDelete
<1> HIDE DEF live
<1> QED
  BY <1>1, <1>2, <1>3, StateParts, ArchivedRecords, RecordStep

LEMMA InvBatchInactive ==
  ASSUME IInv, NEW m \in Admins, NEW ks \in SUBSET Keys, BatchInactive(m, ks)
  PROVE  IInv'
<1> DEFINE live == {k \in ks \cap Stored : ~rows[k].deleted}
<1>1. rows' = [k \in Keys |-> IF k \in live THEN [rows[k] EXCEPT !.active = FALSE] ELSE rows[k]]
  BY DEF BatchInactive
<1> HIDE DEF live
<1>2. \A row \in Rows : /\ [row EXCEPT !.active = FALSE] \in Rows
                        /\ [row EXCEPT !.active = FALSE].source = row.source
                        /\ [row EXCEPT !.active = FALSE].deleted = row.deleted
  BY DEF Rows
<1>3. /\ rows' \in [Keys -> Rows]
      /\ \A k \in Keys : /\ rows'[k].source = rows[k].source
                         /\ rows'[k].deleted = rows[k].deleted
  BY <1>1, <1>2, StateParts
<1>4. Noted /\ UNCHANGED <<identities, at, grant, edit, grantEdit>> /\ edits' \in 0 .. MaxEdits
  BY BeginType DEF BatchInactive
<1> QED
  BY <1>3, <1>4, StateParts, PlainStep

LEMMA InvCreateJWTGrant ==
  ASSUME IInv, NEW m \in Admins, NEW quota \in 0 .. MaxQuota, CreateJWTGrant(m, quota)
  PROVE  IInv'
<1>1. grant' \in GrantType
  BY DEF CreateJWTGrant, GrantType
<1>2. UNCHANGED <<rows, identities, accessVars, edit, grantEdit>> /\ edits' \in 0 .. MaxEdits
  BY BeginType DEF CreateJWTGrant
<1> QED
  BY <1>1, <1>2, StateParts, EditingStep

LEMMA InvReadGrantForUpdate ==
  ASSUME IInv, NEW m \in Admins, NEW active \in BOOLEAN, NEW quota \in 0 .. MaxQuota,
         ReadGrantForUpdate(m, active, quota)
  PROVE  IInv'
<1>1. grantEdit' \in [Admins -> GrantEditType]
  BY StateParts DEF ReadGrantForUpdate, GrantEditType, GrantType
<1>2. UNCHANGED <<rows, identities, accessVars, edit, grant>> /\ edits' \in 0 .. MaxEdits
  BY BeginType DEF ReadGrantForUpdate
<1> QED
  BY <1>1, <1>2, StateParts, EditingStep

LEMMA InvUpdateJWTGrant ==
  ASSUME IInv, NEW m \in Admins, UpdateJWTGrant(m)
  PROVE  IInv'
<1>1. GrantWith(grantEdit[m]) \in GrantType
  BY StateParts DEF GrantWith, GrantType, GrantEditType
<1>2. grant' \in GrantType
  BY <1>1, StateParts DEF UpdateJWTGrant
<1>3. NoGrantEdit \in GrantEditType
  BY KeyStoreAssumption DEF NoGrantEdit, GrantEditType
<1>4. grantEdit' \in [Admins -> GrantEditType]
  BY <1>3, StateParts DEF UpdateJWTGrant
<1>5. UNCHANGED <<rows, identities, accessVars, edit, edits>>
  BY DEF UpdateJWTGrant
<1> QED
  BY <1>2, <1>4, <1>5, StateParts, EditingStep

LEMMA InvDeleteJWTGrant ==
  ASSUME IInv, NEW m \in Admins, NEW withKeys \in BOOLEAN, DeleteJWTGrant(m, withKeys)
  PROVE  IInv'
<1>1. rows' = rows \/ rows' = [k \in Keys |-> IF OfGrant(k) THEN Erased(rows[k]) ELSE rows[k]]
  BY DEF DeleteJWTGrant
<1>2. /\ rows' \in [Keys -> Rows]
      /\ \A k \in Keys : /\ rows'[k].source = rows[k].source
                         /\ rows[k].source = "employee" => rows'[k].deleted = rows[k].deleted
  BY <1>1, StateParts, ErasedRow DEF OfGrant
<1>3. grant' \in GrantType
  BY StateParts DEF DeleteJWTGrant, GrantType
<1>4. Noted /\ UNCHANGED <<identities, at, edit, grantEdit>> /\ edits' \in 0 .. MaxEdits
  BY BeginType DEF DeleteJWTGrant
<1> QED
  BY <1>2, <1>3, <1>4, StateParts, PlainStep

LEMMA InvIssueAPIKey ==
  ASSUME IInv, NEW k \in Keys, IssueAPIKey(k)
  PROVE  IInv'
<1> DEFINE row == NewRow("jwt", "given")
<1>1. row \in Rows /\ row.source = "jwt"
  BY NewRowType DEF NewRow, Sources, RecordNames
<1>2. rows' = [rows EXCEPT ![k] = row] /\ rows[k].source = "none"
  BY FreshRow DEF IssueAPIKey
<1> HIDE DEF row
<1>3. rows' \in [Keys -> Rows]
  BY <1>1, <1>2, StateParts
<1>4. \A j \in Keys : /\ (rows'[j].source = "employee") <=> (rows[j].source = "employee")
                      /\ rows[j].source = "employee" => rows'[j].deleted = rows[j].deleted
  BY <1>1, <1>2, StateParts
<1>5. grant' \in GrantType
  BY StateParts DEF IssueAPIKey, GrantType
<1>6. Noted /\ UNCHANGED <<identities, edits, edit, grantEdit, at>>
  BY DEF IssueAPIKey, adminVars
<1> QED
  BY <1>3, <1>4, <1>5, <1>6, StateParts, PlainStep

----------------------------------------------------------------------------
LEMMA InvStep == IInv /\ [Next]_vars => IInv'
<1> SUFFICES ASSUME IInv, [Next]_vars PROVE IInv'
  OBVIOUS
<1>1. CASE UNCHANGED vars
  BY <1>1 DEF vars, identities, adminVars, accessVars, IInv, TypeOK, Serving,
              EmployeeRecords, OneLiveRecord
<1>2. CASE \E m \in Admins : Administration(m)
  <2>1. PICK m \in Admins : Administration(m)
    BY <1>2
  <2>2. CASE \E k \in Keys : CreateAPIKey(m, k) \/ DeleteAPIKey(m, k)
    BY <2>2, InvCreateAPIKey, InvDeleteAPIKey
  <2>3. CASE \E k \in Keys, name \in RecordNames, active, forced \in BOOLEAN :
               ReadForUpdate(m, k, name, active, forced)
    BY <2>3, InvReadForUpdate
  <2>4. CASE UpdateAPIKey(m)
    BY <2>4, InvUpdateAPIKey
  <2>5. CASE \E ks \in SUBSET Keys : BatchDelete(m, ks) \/ BatchInactive(m, ks)
    BY <2>5, InvBatchDelete, InvBatchInactive
  <2>6. CASE \E quota \in 0 .. MaxQuota : CreateJWTGrant(m, quota)
    BY <2>6, InvCreateJWTGrant
  <2>7. CASE \E active \in BOOLEAN, quota \in 0 .. MaxQuota : ReadGrantForUpdate(m, active, quota)
    BY <2>7, InvReadGrantForUpdate
  <2>8. CASE UpdateJWTGrant(m)
    BY <2>8, InvUpdateJWTGrant
  <2>9. CASE \E withKeys \in BOOLEAN : DeleteJWTGrant(m, withKeys)
    BY <2>9, InvDeleteJWTGrant
  <2> QED
    BY <2>1, <2>2, <2>3, <2>4, <2>5, <2>6, <2>7, <2>8, <2>9 DEF Administration
<1>3. CASE \E k \in Keys : IssueAPIKey(k)
  BY <1>3, InvIssueAPIKey
<1>4. CASE \E x \in Accesses : Access(x)
  <2>1. PICK x \in Accesses : Access(x)
    BY <1>4
  <2>2. CASE \E k \in Keys : AuthenticateKey(x, k) \/ RegisterEmployee(x, k)
    BY <2>2, InvAuthenticateKey, InvRegisterEmployee
  <2>3. CASE \E e \in Employees, named \in BOOLEAN : LookupEmployee(x, e, named)
    BY <2>3, InvLookupEmployee
  <2>4. CASE LoadEmployee(x) \/ BackfillName(x) \/ FindRegistered(x) \/ AuthoriseEmployee(x)
    BY <2>4, InvLoadEmployee, InvBackfillName, InvFindRegistered, InvAuthoriseEmployee
  <2> QED
    BY <2>1, <2>2, <2>3, <2>4 DEF Access
<1> QED
  BY <1>1, <1>2, <1>3, <1>4 DEF Next

LEMMA Inductive == Spec => []IInv
  BY InitInv, InvStep, PTL DEF Spec

(* Every variable of the key store has its type. *)
THEOREM KeyStoreTyped == Spec => []TypeOK
<1>1. IInv => TypeOK
  BY DEF IInv
<1> QED
  BY <1>1, Inductive, PTL

(* However first accesses, batches and deletions interleave, an employee   *)
(* has at most one live record, the one its identity is bound to, and a    *)
(* deleted record is bound to nobody and keeps its owner in the history.   *)
THEOREM EmployeesHaveOneLiveRecord == Spec => []OneLiveRecord
<1>1. IInv => OneLiveRecord
  BY DEF IInv
<1> QED
  BY <1>1, Inductive, PTL

----------------------------------------------------------------------------
(* What a request remembers: every record that is its own and live while   *)
(* it runs, and so the one it works with.                                  *)
Remembering ==
  \A x \in Accesses : at[x] \notin Idle =>
    /\ LiveFor(local[x].employee) \subseteq local[x].since
    /\ at[x] # "unknown" => local[x].key \in local[x].since

(* The record an identity is bound to is live. *)
LEMMA BoundIsLive ==
  ASSUME IInv, NEW e \in Employees, binding[e] # NoKey
  PROVE  binding[e] \in LiveFor(e)
<1>1. binding[e] \in Keys /\ rows[binding[e]].source = "employee"
  BY DEF IInv, TypeOK, EmployeeRecords
<1>2. ~rows[binding[e]].deleted
  BY <1>1 DEF IInv, OneLiveRecord
<1> QED
  BY <1>1, <1>2 DEF LiveFor, LiveIn

LEMMA RememberNoted ==
  ASSUME IInv, Remembering, Noted, at' = at
  PROVE  Remembering'
<1> SUFFICES ASSUME NEW x \in Accesses, at[x] \notin Idle
             PROVE  /\ LiveFor(local[x].employee)' \subseteq local'[x].since
                    /\ at[x] # "unknown" => local'[x].key \in local'[x].since
  BY DEF Remembering
<1> DEFINE live == LiveIn(rows', binding', local[x].employee)
<1>1. local'[x] = [local[x] EXCEPT !.since = @ \cup live]
  BY DEF Noted, WithNote
<1>2. local[x] \in LocalsType
  BY RequestParts
<1>3. /\ local'[x].employee = local[x].employee /\ local'[x].key = local[x].key
      /\ local'[x].since = local[x].since \cup live
  <2> HIDE DEF live
  <2> QED
    BY <1>1, <1>2 DEF LocalsType
<1>4. LiveFor(local[x].employee)' = live
  BY <1>3 DEF LiveFor
<1>5. at[x] # "unknown" => local[x].key \in local[x].since
  BY DEF Remembering
<1> HIDE DEF live
<1> QED
  BY <1>3, <1>4, <1>5

(* Neither reading nor naming a record changes what is live. *)
LEMMA SameLive ==
  ASSUME binding' = binding,
         \A k \in Keys : /\ rows'[k].source = rows[k].source
                         /\ rows'[k].deleted = rows[k].deleted
  PROVE  \A e : LiveIn(rows', binding', e) = LiveIn(rows, binding, e)
  BY DEF LiveIn

LEMMA RememberGo ==
  ASSUME IInv, Remembering, binding' = binding,
         \A k \in Keys : /\ rows'[k].source = rows[k].source
                         /\ rows'[k].deleted = rows[k].deleted,
         NEW x \in Accesses, NEW to \in Stages, NEW l \in LocalsType, Go(x, to, l),
         to \notin Idle => /\ LiveFor(l.employee) \subseteq l.since
                           /\ to # "unknown" => l.key \in l.since
  PROVE  Remembering'
<1>1. /\ at \in [Accesses -> Stages] /\ local \in [Accesses -> LocalsType]
  BY DEF IInv, TypeOK, Stages, LocalsType
<1> SUFFICES ASSUME NEW y \in Accesses, at'[y] \notin Idle
             PROVE  /\ LiveFor(local[y].employee)' \subseteq local'[y].since
                    /\ at'[y] # "unknown" => local'[y].key \in local'[y].since
  BY DEF Remembering
<1>2. LiveFor(local[y].employee)' = LiveFor(local'[y].employee)
  BY SameLive DEF LiveFor
<1>3. CASE y = x
  <2>1. at'[y] = to /\ local'[y] = l
    BY <1>1, <1>3 DEF Go
  <2> QED
    BY <1>2, <2>1
<1>4. CASE y # x
  <2>1. at'[y] = at[y] /\ local'[y] = local[y]
    BY <1>1, <1>4 DEF Go
  <2> QED
    BY <1>2, <2>1 DEF Remembering
<1> QED
  BY <1>3, <1>4

LEMMA RememberDecide ==
  ASSUME IInv, Remembering, UNCHANGED <<rows, binding>>,
         NEW x \in Accesses, NEW l \in LocalsType, NEW row, Decide(x, l, row)
  PROVE  Remembering'
<1>1. /\ NoLocals \in LocalsType
      /\ [NoLocals EXCEPT !.employee = l.employee, !.key = l.key] \in LocalsType
  BY DEF NoLocals, LocalsType
<1>2. "accepted" \in Stages /\ "idle" \in Stages /\ "accepted" \in Idle /\ "idle" \in Idle
  BY DEF Stages, Idle
<1>3. \/ Go(x, "accepted", [NoLocals EXCEPT !.employee = l.employee, !.key = l.key])
      \/ Go(x, "idle", NoLocals)
  BY DEF Decide
<1> QED
  BY <1>1, <1>2, <1>3, RememberGo

LEMMA RememberRegister ==
  ASSUME IInv, IInv', Remembering, NEW x \in Accesses, NEW k \in Keys, RegisterEmployee(x, k)
  PROVE  Remembering'
<1>1. /\ WithNote \in [Accesses -> LocalsType] /\ at \in [Accesses -> Stages]
      /\ \A y \in Accesses : /\ WithNote[y].employee = local[y].employee
                             /\ WithNote[y].key = local[y].key
  BY WithNoteType DEF IInv, TypeOK, Stages
<1>2. /\ at[x] = "unknown" /\ at' = [at EXCEPT ![x] = "resolved"]
      /\ local' = [WithNote EXCEPT ![x].key = k, ![x].named = FALSE]
      /\ binding' = [binding EXCEPT ![local[x].employee] = k]
      /\ local[x].employee \in Employees
  BY RequestParts DEF RegisterEmployee
<1>3. binding'[local[x].employee] = k
  BY <1>2 DEF IInv, TypeOK
<1> SUFFICES ASSUME NEW y \in Accesses, at'[y] \notin Idle
             PROVE  /\ LiveFor(local[y].employee)' \subseteq local'[y].since
                    /\ at'[y] # "unknown" => local'[y].key \in local'[y].since
  BY DEF Remembering
<1> DEFINE live == LiveIn(rows', binding', local[y].employee)
<1>4. at[y] \notin Idle
  BY <1>1, <1>2 DEF Idle
<1>5. WithNote[y] = [local[y] EXCEPT !.since = @ \cup live]
  BY <1>4 DEF WithNote
<1>6. local[y] \in LocalsType
  BY RequestParts
<1>7. /\ local'[y].employee = local[y].employee /\ local'[y].since = local[y].since \cup live
      /\ local'[y].key = IF y = x THEN k ELSE local[y].key
  <2>1. WithNote[y].since = local[y].since \cup live
    <3> HIDE DEF live
    <3> QED
      BY <1>5, <1>6 DEF LocalsType
  <2>2. local'[y] = IF y = x THEN [WithNote[x] EXCEPT !.key = k, !.named = FALSE]
                    ELSE WithNote[y]
    BY <1>1, <1>2
  <2> HIDE DEF live
  <2> QED
    BY <1>1, <2>1, <2>2 DEF LocalsType
<1>8. LiveFor(local[y].employee)' = live
  BY <1>7 DEF LiveFor
<1>9. y = x => k \in live
  <2> SUFFICES ASSUME y = x PROVE k \in LiveIn(rows', binding', local[x].employee)
    OBVIOUS
  <2>1. rows'[k].source = "employee"
    BY <1>2, <1>3, KeyStoreAssumption DEF IInv, EmployeeRecords
  <2>2. ~rows'[k].deleted
    BY <1>2, <1>3, <2>1 DEF IInv, OneLiveRecord
  <2> QED
    BY <1>2, <1>3, <2>1, <2>2 DEF LiveIn
<1>10. y # x => at'[y] = at[y]
  BY <1>1, <1>2
<1>11. at[y] # "unknown" => local[y].key \in local[y].since
  BY <1>4 DEF Remembering
<1> HIDE DEF live
<1> QED
  BY <1>2, <1>7, <1>8, <1>9, <1>10, <1>11

LEMMA RememberLookup ==
  ASSUME IInv, Remembering, NEW x \in Accesses, NEW e \in Employees, NEW named \in BOOLEAN,
         LookupEmployee(x, e, named)
  PROVE  Remembering'
<1> DEFINE l == [employee |-> e, named |-> named, key |-> binding[e], since |-> LiveFor(e)]
           to == IF binding[e] = NoKey THEN "unknown" ELSE "known"
<1>1. binding[e] \in Keys \cup {NoKey} /\ LiveFor(e) \in SUBSET Keys
  BY DEF IInv, TypeOK, LiveFor, LiveIn
<1>2. l \in LocalsType /\ to \in Stages
  BY <1>1 DEF LocalsType, Stages
<1>3. LiveFor(l.employee) \subseteq l.since /\ (to # "unknown" => l.key \in l.since)
  BY BoundIsLive
<1>4. Go(x, to, l) /\ UNCHANGED <<rows, binding>>
  BY DEF LookupEmployee, identities
<1> HIDE DEF l, to
<1> QED
  BY <1>2, <1>3, <1>4, RememberGo

LEMMA RememberLoad ==
  ASSUME IInv, Remembering, NEW x \in Accesses, LoadEmployee(x)
  PROVE  Remembering'
<1>1. local[x] \in LocalsType /\ "naming" \in Stages
  BY RequestParts DEF Stages
<1>2. LiveFor(local[x].employee) \subseteq local[x].since /\ local[x].key \in local[x].since
  BY RequestParts DEF LoadEmployee, Remembering
<1>3. UNCHANGED <<rows, binding>>
  BY DEF LoadEmployee, identities
<1>4. Go(x, "naming", local[x]) \/ Decide(x, local[x], rows[local[x].key])
  BY DEF LoadEmployee
<1> QED
  BY <1>1, <1>2, <1>3, <1>4, RememberGo, RememberDecide

LEMMA RememberFind ==
  ASSUME IInv, Remembering, NEW x \in Accesses, FindRegistered(x)
  PROVE  Remembering'
<1> DEFINE e == local[x].employee
           l == [local[x] EXCEPT !.key = binding[e], !.named = FALSE]
<1>1. local[x] \in LocalsType /\ e \in Employees /\ binding[e] # NoKey
  BY RequestParts DEF FindRegistered
<1>2. binding[e] \in Keys /\ binding[e] \in LiveFor(e)
  BY <1>1, BoundIsLive DEF IInv, TypeOK
<1>3. LiveFor(e) \subseteq local[x].since
  BY RequestParts DEF FindRegistered, Remembering
<1>4. l \in LocalsType /\ LiveFor(l.employee) \subseteq l.since /\ l.key \in l.since
  BY <1>1, <1>2, <1>3 DEF LocalsType
<1>5. Go(x, "resolved", l) /\ "resolved" \in Stages /\ UNCHANGED <<rows, binding>>
  BY DEF FindRegistered, Stages, identities
<1> HIDE DEF l
<1> QED
  BY <1>4, <1>5, RememberGo

LEMMA RememberBackfill ==
  ASSUME IInv, Remembering, NEW x \in Accesses, BackfillName(x)
  PROVE  Remembering'
<1> DEFINE key == local[x].key
           l == [local[x] EXCEPT !.named = FALSE]
<1>1. local[x] \in LocalsType /\ key \in Keys
  BY RequestParts DEF BackfillName
<1>2. LiveFor(local[x].employee) \subseteq local[x].since /\ key \in local[x].since
  BY RequestParts DEF BackfillName, Remembering
<1>3. l \in LocalsType /\ LiveFor(l.employee) \subseteq l.since /\ l.key \in l.since
  BY <1>1, <1>2 DEF LocalsType
<1>4. Go(x, "resolved", l) /\ "resolved" \in Stages /\ binding' = binding
  BY DEF BackfillName, Stages, identities
<1> HIDE DEF l
<1>5. rows \in [Keys -> Rows] /\ rows' = [rows EXCEPT ![key] = Named(rows[key])]
  BY DEF IInv, TypeOK, BackfillName
<1> HIDE DEF key
<1>6. \A k \in Keys : /\ rows'[k].source = rows[k].source
                      /\ rows'[k].deleted = rows[k].deleted
  BY <1>1, <1>5, NamedRow
<1> QED
  BY <1>3, <1>4, <1>6, RememberGo

LEMMA RememberDecision ==
  ASSUME IInv, Remembering, NEW x \in Accesses,
         AuthoriseEmployee(x) \/ \E k \in Keys : AuthenticateKey(x, k)
  PROVE  Remembering'
<1>1. UNCHANGED <<rows, binding>>
  BY DEF AuthoriseEmployee, AuthenticateKey, identities
<1>2. CASE AuthoriseEmployee(x)
  BY <1>1, <1>2, RequestParts, RememberDecide DEF AuthoriseEmployee
<1>3. CASE \E k \in Keys : AuthenticateKey(x, k)
  <2>1. PICK k \in Keys : AuthenticateKey(x, k)
    BY <1>3
  <2>2. [NoLocals EXCEPT !.key = k] \in LocalsType
    BY DEF NoLocals, LocalsType
  <2> QED
    BY <1>1, <2>1, <2>2, RememberDecide DEF AuthenticateKey
<1> QED
  BY <1>2, <1>3

(* Administrators' requests either change no record or are noted. *)
LEMMA AdministrationNoted ==
  ASSUME NEW m \in Admins, Administration(m)
  PROVE  at' = at /\ (Noted \/ UNCHANGED <<rows, binding, local>>)
<1>1. CASE \E k \in Keys : CreateAPIKey(m, k) \/ DeleteAPIKey(m, k)
  BY <1>1 DEF CreateAPIKey, DeleteAPIKey
<1>2. CASE \E k \in Keys, name \in RecordNames, active, forced \in BOOLEAN :
             ReadForUpdate(m, k, name, active, forced)
  BY <1>2 DEF ReadForUpdate, identities, accessVars
<1>3. CASE UpdateAPIKey(m)
  BY <1>3 DEF UpdateAPIKey
<1>4. CASE \E ks \in SUBSET Keys : BatchDelete(m, ks) \/ BatchInactive(m, ks)
  BY <1>4 DEF BatchDelete, BatchInactive
<1>5. CASE \E quota \in 0 .. MaxQuota : CreateJWTGrant(m, quota)
  BY <1>5 DEF CreateJWTGrant, identities, accessVars
<1>6. CASE \E active \in BOOLEAN, quota \in 0 .. MaxQuota : ReadGrantForUpdate(m, active, quota)
  BY <1>6 DEF ReadGrantForUpdate, identities, accessVars
<1>7. CASE UpdateJWTGrant(m)
  BY <1>7 DEF UpdateJWTGrant, identities, accessVars
<1>8. CASE \E withKeys \in BOOLEAN : DeleteJWTGrant(m, withKeys)
  BY <1>8 DEF DeleteJWTGrant
<1> QED
  BY <1>1, <1>2, <1>3, <1>4, <1>5, <1>6, <1>7, <1>8 DEF Administration

LEMMA RememberUnchanged ==
  ASSUME Remembering, UNCHANGED <<rows, binding, at, local>>
  PROVE  Remembering'
  BY DEF Remembering, LiveFor

LEMMA RememberStep == IInv /\ IInv' /\ Remembering /\ [Next]_vars => Remembering'
<1> SUFFICES ASSUME IInv, IInv', Remembering, [Next]_vars PROVE Remembering'
  OBVIOUS
<1>1. CASE UNCHANGED vars
  BY <1>1, RememberUnchanged DEF vars, identities, accessVars
<1>2. CASE \E m \in Admins : Administration(m)
  BY <1>2, AdministrationNoted, RememberNoted, RememberUnchanged
<1>3. CASE \E k \in Keys : IssueAPIKey(k)
  BY <1>3, RememberNoted DEF IssueAPIKey
<1>4. CASE \E x \in Accesses : Access(x)
  <2>1. PICK x \in Accesses : Access(x)
    BY <1>4
  <2>2. CASE \E k \in Keys : AuthenticateKey(x, k) \/ RegisterEmployee(x, k)
    BY <2>2, RememberDecision, RememberRegister
  <2>3. CASE \E e \in Employees, named \in BOOLEAN : LookupEmployee(x, e, named)
    BY <2>3, RememberLookup
  <2>4. CASE LoadEmployee(x) \/ BackfillName(x) \/ FindRegistered(x) \/ AuthoriseEmployee(x)
    BY <2>4, RememberLoad, RememberBackfill, RememberFind, RememberDecision
  <2> QED
    BY <2>1, <2>2, <2>3, <2>4 DEF Access
<1> QED
  BY <1>1, <1>2, <1>3, <1>4 DEF Next

----------------------------------------------------------------------------
(* What AcceptedOnLiveRecord says of a step. *)
AcceptanceOf(x) ==
  LET k == local'[x].key  e == local'[x].employee
  IN /\ k \in LiveFor(e) \cup IF at[x] \in Idle THEN {} ELSE local[x].since
     /\ rows[k].active /\ ~rows[k].forced

(* A decision for the better admits with the record it was taken on. *)
LEMMA DecidedWell ==
  ASSUME IInv, NEW x \in Accesses, NEW y \in Accesses, NEW l \in LocalsType, NEW row,
         Decide(x, l, row), Admits(y)
  PROVE  /\ y = x /\ ValidateUsableKey(row)
         /\ local'[x].employee = l.employee /\ local'[x].key = l.key
<1>1. at \in [Accesses -> Stages] /\ local \in [Accesses -> LocalsType]
  BY DEF IInv, TypeOK, Stages, LocalsType
<1> DEFINE good == [NoLocals EXCEPT !.employee = l.employee, !.key = l.key]
<1>2. good.employee = l.employee /\ good.key = l.key
  BY DEF NoLocals
<1>3. CASE ValidateUsableKey(row)
  <2>1. Go(x, "accepted", good)
    BY <1>3 DEF Decide
  <2> HIDE DEF good
  <2>2. y = x
    BY <1>1, <2>1 DEF Go, Admits
  <2> QED
    BY <1>1, <1>2, <1>3, <2>1, <2>2 DEF Go
<1>4. CASE ~ValidateUsableKey(row)
  BY <1>1, <1>4 DEF Decide, Go, Admits
<1> QED
  BY <1>3, <1>4

LEMMA GoneElsewhere ==
  ASSUME IInv, NEW x \in Accesses, NEW y \in Accesses, NEW to, to # "accepted", NEW l,
         Go(x, to, l)
  PROVE  ~Admits(y)
<1>1. at \in [Accesses -> Stages] /\ local \in [Accesses -> LocalsType]
  BY DEF IInv, TypeOK, Stages, LocalsType
<1> QED
  BY <1>1 DEF Go, Admits

(* Noting does not touch the requests that are over. *)
LEMMA NotedAdmitsNone ==
  ASSUME Noted, at' = at, NEW y \in Accesses
  PROVE  ~Admits(y)
  BY DEF Noted, WithNote, Admits, Idle

LEMMA RegisterAdmitsNone ==
  ASSUME IInv, NEW x \in Accesses, NEW y \in Accesses, NEW k \in Keys, RegisterEmployee(x, k)
  PROVE  ~Admits(y)
<1>1. at \in [Accesses -> Stages] /\ WithNote \in [Accesses -> LocalsType]
  BY WithNoteType DEF IInv, TypeOK, Stages
<1>2. at' = [at EXCEPT ![x] = "resolved"]
      /\ local' = [WithNote EXCEPT ![x].key = k, ![x].named = FALSE]
  BY DEF RegisterEmployee
<1>3. CASE y = x
  BY <1>1, <1>2, <1>3 DEF Admits
<1>4. CASE y # x
  <2>1. at'[y] = at[y] /\ local'[y] = WithNote[y]
    BY <1>1, <1>2, <1>4
  <2>2. at[y] = "accepted" => WithNote[y] = local[y]
    BY DEF WithNote, Idle
  <2> QED
    BY <2>1, <2>2 DEF Admits
<1> QED
  BY <1>3, <1>4

LEMMA PlainKeyWell ==
  ASSUME IInv, NEW x \in Accesses, NEW y \in Accesses, NEW k \in Keys, AuthenticateKey(x, k),
         Admits(y)
  PROVE  AcceptanceOf(y)
<1> DEFINE l == [NoLocals EXCEPT !.key = k]
<1>1. l \in LocalsType /\ l.employee = NoOne /\ l.key = k
  BY DEF NoLocals, LocalsType
<1>2. Decide(x, l, rows[k])
  BY DEF AuthenticateKey
<1> HIDE DEF l
<1>3. /\ y = x /\ ValidateUsableKey(rows[k])
      /\ local'[x].employee = NoOne /\ local'[x].key = k
  BY <1>1, <1>2, DecidedWell
<1>4. k \in LiveFor(NoOne)
  BY KeyStoreAssumption DEF AuthenticateKey, Findable, LiveFor, LiveIn
<1> QED
  BY <1>3, <1>4 DEF AcceptanceOf, ValidateUsableKey

LEMMA EmployeeWell ==
  ASSUME IInv, Remembering, NEW x \in Accesses, NEW y \in Accesses,
         at[x] \in {"known", "resolved"}, Decide(x, local[x], rows[local[x].key]), Admits(y)
  PROVE  AcceptanceOf(y)
<1>1. local[x] \in LocalsType /\ at[x] \notin Idle /\ at[x] # "unknown"
  BY RequestParts
<1>2. /\ y = x /\ ValidateUsableKey(rows[local[x].key]) /\ local'[x].key = local[x].key
  BY <1>1, DecidedWell
<1>3. local[x].key \in local[x].since
  BY <1>1 DEF Remembering
<1> QED
  BY <1>1, <1>2, <1>3 DEF AcceptanceOf, ValidateUsableKey

LEMMA AcceptedStep ==
  ASSUME IInv, Remembering, [Next]_vars, NEW y \in Accesses, Admits(y)
  PROVE  AcceptanceOf(y)
<1>1. CASE UNCHANGED vars
  BY <1>1 DEF vars, accessVars, Admits
<1>2. CASE \E m \in Admins : Administration(m)
  BY <1>2, AdministrationNoted, NotedAdmitsNone DEF Admits
<1>3. CASE \E k \in Keys : IssueAPIKey(k)
  BY <1>3, NotedAdmitsNone DEF IssueAPIKey
<1>4. CASE \E x \in Accesses : Access(x)
  <2>1. PICK x \in Accesses : Access(x)
    BY <1>4
  <2>2. CASE \E k \in Keys : AuthenticateKey(x, k) \/ RegisterEmployee(x, k)
    BY <2>2, PlainKeyWell, RegisterAdmitsNone
  <2>3. CASE \E e \in Employees, named \in BOOLEAN : LookupEmployee(x, e, named)
    BY <2>3, GoneElsewhere DEF LookupEmployee
  <2>4. CASE LoadEmployee(x)
    BY <2>4, GoneElsewhere, EmployeeWell DEF LoadEmployee
  <2>5. CASE BackfillName(x) \/ FindRegistered(x)
    BY <2>5, GoneElsewhere DEF BackfillName, FindRegistered
  <2>6. CASE AuthoriseEmployee(x)
    BY <2>6, EmployeeWell DEF AuthoriseEmployee
  <2> QED
    BY <2>1, <2>2, <2>3, <2>4, <2>5, <2>6 DEF Access
<1> QED
  BY <1>1, <1>2, <1>3, <1>4 DEF Next

(* A request is admitted only with a record that was its caller's and not  *)
(* deleted at some moment since the request arrived, and that is active    *)
(* and not forced to expire at the decision, although the identity, the    *)
(* record and its name are read and written in separate statements.        *)
THEOREM RequestsAreAcceptedOnLiveRecords == Spec => AcceptedOnLiveRecord
<1>1. Init => Remembering
  BY DEF Init, Remembering, Idle
<1>2. IInv /\ Remembering /\ [Next]_vars
      => [\A x \in Accesses : Admits(x) =>
            LET k == local'[x].key  e == local'[x].employee
            IN /\ k \in LiveFor(e) \cup IF at[x] \in Idle THEN {} ELSE local[x].since
               /\ rows[k].active /\ ~rows[k].forced]_vars
  BY AcceptedStep DEF AcceptanceOf
<1>3. Spec => []Remembering
  BY <1>1, RememberStep, Inductive, PTL DEF Spec
<1> QED
  BY <1>2, <1>3, Inductive, PTL DEF Spec, AcceptedOnLiveRecord


----------------------------------------------------------------------------
(* What happens to records: a record keeps where it comes from, a deleted  *)
(* one stays deleted; and only issuance makes records of the grant.        *)
Keeping ==
  \A k \in Keys :
    /\ rows[k].source # "none" =>
         rows'[k].source = rows[k].source /\ (rows[k].deleted => rows'[k].deleted)
    /\ rows[k].source = "none" => rows'[k].source # "jwt"

Naming == \A k \in Stored : rows[k].name = "given" => rows'[k].name = "given"

LEMMA SameRows == ASSUME rows' = rows PROVE Keeping /\ Naming
BY DEF Keeping, Naming, Stored

LEMMA ErasingRows ==
  ASSUME IInv, NEW ks, rows' = [k \in Keys |-> IF k \in ks THEN Erased(rows[k]) ELSE rows[k]]
  PROVE  Keeping /\ Naming
<1>1. \A row \in Rows : /\ Erased(row).source = row.source /\ Erased(row).deleted
                        /\ Erased(row).name = row.name
  BY DEF Erased, Rows
<1> QED
  BY <1>1, StateParts DEF Keeping, Naming, Stored

LEMMA CreatedRow ==
  ASSUME IInv, NEW k \in Fresh, NEW source \in {"admin", "employee"}, NEW name \in RecordNames,
         rows' = [rows EXCEPT ![k] = NewRow(source, name)]
  PROVE  Keeping /\ Naming
<1>1. NewRow(source, name).source = source
  BY DEF NewRow
<1>2. rows[k].source = "none" /\ k \in Keys
  BY FreshRow
<1>3. rows'[k].source = source /\ \A j \in Keys \ {k} : rows'[j] = rows[j]
  BY <1>1, <1>2, StateParts
<1> QED
  BY <1>2, <1>3 DEF Keeping, Naming, Stored

LEMMA AdministrationKeeps ==
  ASSUME IInv, NEW m \in Admins, Administration(m)
  PROVE  Keeping /\ (Naming \/ UpdateAPIKey(m))
<1>1. CASE \E k \in Keys : CreateAPIKey(m, k)
  BY <1>1, CreatedRow DEF CreateAPIKey, RecordNames
<1>2. ASSUME NEW k \in Keys, DeleteAPIKey(m, k) PROVE Keeping /\ Naming
  <2>1. rows' = [j \in Keys |-> IF j \in {k} THEN Erased(rows[j]) ELSE rows[j]]
    BY <1>2, StateParts DEF DeleteAPIKey
  <2> QED
    BY <2>1, ErasingRows
<1>3. ASSUME NEW ks \in SUBSET Keys, BatchDelete(m, ks) PROVE Keeping /\ Naming
  BY <1>3, ErasingRows DEF BatchDelete
<1>4. ASSUME NEW withKeys \in BOOLEAN, DeleteJWTGrant(m, withKeys) PROVE Keeping /\ Naming
  <2>1. rows' = rows \/ rows' = [k \in Keys |-> IF OfGrant(k) THEN Erased(rows[k]) ELSE rows[k]]
    BY <1>4 DEF DeleteJWTGrant
  <2>2. rows' = rows \/ rows' = [k \in Keys |-> IF k \in {j \in Keys : OfGrant(j)}
                                                THEN Erased(rows[k]) ELSE rows[k]]
    BY <2>1
  <2> QED
    BY <2>2, ErasingRows, SameRows
<1>5. ASSUME NEW ks \in SUBSET Keys, BatchInactive(m, ks) PROVE Keeping /\ Naming
  <2> DEFINE live == {k \in ks \cap Stored : ~rows[k].deleted}
  <2>1. rows' = [k \in Keys |-> IF k \in live THEN [rows[k] EXCEPT !.active = FALSE] ELSE rows[k]]
    BY <1>5 DEF BatchInactive
  <2> HIDE DEF live
  <2>2. \A row \in Rows : /\ [row EXCEPT !.active = FALSE].name = row.name
                          /\ [row EXCEPT !.active = FALSE].source = row.source
                          /\ [row EXCEPT !.active = FALSE].deleted = row.deleted
    BY DEF Rows
  <2>3. \A k \in Keys : /\ rows'[k].name = rows[k].name /\ rows'[k].source = rows[k].source
                        /\ rows'[k].deleted = rows[k].deleted
    BY <2>1, <2>2, StateParts
  <2> QED
    BY <2>3 DEF Keeping, Naming, Stored
<1>6. CASE UpdateAPIKey(m)
  <2> DEFINE k == edit[m].key
             copy == edit[m].row
             row == [rows[k] EXCEPT !.name = copy.name, !.active = copy.active,
                                    !.forced = copy.forced]
  <2>1. k \in Keys /\ copy \in Rows
    BY <1>6, StateParts DEF UpdateAPIKey, EditType
  <2>2. row.source = rows[k].source /\ row.deleted = rows[k].deleted
    BY <2>1, StateParts DEF Rows
  <2>3. rows' = [rows EXCEPT ![k] = row]
    BY <1>6 DEF UpdateAPIKey
  <2> HIDE DEF k, copy, row
  <2>4. \A j \in Keys : rows'[j].source = rows[j].source /\ rows'[j].deleted = rows[j].deleted
    BY <2>1, <2>2, <2>3, StateParts
  <2> QED
    BY <1>6, <2>4 DEF Keeping
<1>7. CASE \/ \E k \in Keys, name \in RecordNames, active, forced \in BOOLEAN :
                ReadForUpdate(m, k, name, active, forced)
           \/ \E quota \in 0 .. MaxQuota : CreateJWTGrant(m, quota)
           \/ \E active \in BOOLEAN, quota \in 0 .. MaxQuota : ReadGrantForUpdate(m, active, quota)
           \/ UpdateJWTGrant(m)
  BY <1>7, SameRows DEF ReadForUpdate, CreateJWTGrant, ReadGrantForUpdate, UpdateJWTGrant
<1> QED
  BY <1>1, <1>2, <1>3, <1>4, <1>5, <1>6, <1>7 DEF Administration

LEMMA AccessKeeps ==
  ASSUME IInv, NEW x \in Accesses, Access(x)
  PROVE  Keeping /\ Naming
<1>1. ASSUME NEW k \in Keys, RegisterEmployee(x, k) PROVE Keeping /\ Naming
  <2> DEFINE name == IF local[x].named THEN "token" ELSE "number"
  <2>1. name \in RecordNames /\ k \in Fresh
    BY <1>1 DEF RegisterEmployee, RecordNames
  <2>2. rows' = [rows EXCEPT ![k] = NewRow("employee", name)]
    BY <1>1 DEF RegisterEmployee
  <2> HIDE DEF name
  <2> QED
    BY <2>1, <2>2, CreatedRow
<1>2. CASE BackfillName(x)
  <2>1. rows' = [rows EXCEPT ![local[x].key] = Named(rows[local[x].key])]
    BY <1>2 DEF BackfillName
  <2>2. \A row \in Rows : /\ Named(row).source = row.source /\ Named(row).deleted = row.deleted
                          /\ row.name = "given" => Named(row).name = "given"
    BY DEF Named, Rows
  <2>3. \A k \in Keys : /\ rows'[k].source = rows[k].source /\ rows'[k].deleted = rows[k].deleted
                        /\ rows[k].name = "given" => rows'[k].name = "given"
    BY <2>1, <2>2, StateParts
  <2> QED
    BY <2>3 DEF Keeping, Naming, Stored
<1>3. CASE \/ \E k \in Keys : AuthenticateKey(x, k)
           \/ \E e \in Employees, named \in BOOLEAN : LookupEmployee(x, e, named)
           \/ LoadEmployee(x) \/ FindRegistered(x) \/ AuthoriseEmployee(x)
  BY <1>3, SameRows DEF AuthenticateKey, LookupEmployee, LoadEmployee, FindRegistered,
     AuthoriseEmployee
<1> QED
  BY <1>1, <1>2, <1>3 DEF Access

----------------------------------------------------------------------------
(* The grant: it counts the keys it has issued.                            *)
Granted ==
  /\ grant.issued = Cardinality(Issued)
  /\ grant.state = "none" => Issued = {}
  /\ PurgedForGood

LEMMA KeptGranted ==
  ASSUME Granted, Keeping, grant' = grant
  PROVE  Granted' /\ Issued' = Issued
<1>1. Issued' = Issued
  BY DEF Keeping, Issued
<1>2. \A k \in Issued : rows[k].deleted => rows'[k].deleted
  BY DEF Keeping, Issued
<1> QED
  BY <1>1, <1>2 DEF Granted, PurgedForGood

LEMMA AdministrationGranted ==
  ASSUME IInv, Granted, NEW m \in Admins, Administration(m)
  PROVE  Granted' /\ Issued' = Issued
<1>1. Keeping
  BY AdministrationKeeps
<1>2. Issued' = Issued
  BY <1>1 DEF Keeping, Issued
<1>3. CASE grant' = grant
  BY <1>1, <1>3, KeptGranted
<1>4. ASSUME NEW quota \in 0 .. MaxQuota, CreateJWTGrant(m, quota) PROVE Granted'
  <2>1. grant.state = "none" /\ grant'.issued = 0 /\ grant'.state = "live"
    BY <1>4 DEF CreateJWTGrant
  <2> QED
    BY <1>2, <2>1, FS_EmptySet DEF Granted, PurgedForGood
<1>5. ASSUME UpdateJWTGrant(m), grant.state = "live" PROVE Granted'
  <2>1. grant'.state = "live" /\ grant'.issued = grant.issued
    BY <1>5, StateParts DEF UpdateJWTGrant, GrantWith, GrantType
  <2> QED
    BY <1>2, <2>1 DEF Granted, PurgedForGood
<1>6. ASSUME NEW withKeys \in BOOLEAN, DeleteJWTGrant(m, withKeys) PROVE Granted'
  <2>1. grant'.issued = grant.issued /\ grant'.state = IF withKeys THEN "purged" ELSE "gone"
    BY <1>6, StateParts DEF DeleteJWTGrant, GrantType
  <2>2. ASSUME withKeys, NEW k \in Issued PROVE rows'[k].deleted
    BY <1>6, <2>2, StateParts, ErasedRow DEF DeleteJWTGrant, OfGrant, Issued
  <2> QED
    BY <1>2, <2>1, <2>2 DEF Granted, PurgedForGood
<1>7. \/ grant' = grant \/ \E quota \in 0 .. MaxQuota : CreateJWTGrant(m, quota)
      \/ UpdateJWTGrant(m) /\ grant.state = "live"
      \/ \E withKeys \in BOOLEAN : DeleteJWTGrant(m, withKeys)
  BY DEF Administration, CreateAPIKey, DeleteAPIKey, ReadForUpdate, UpdateAPIKey, BatchDelete,
         BatchInactive, ReadGrantForUpdate, UpdateJWTGrant
<1> QED
  BY <1>2, <1>3, <1>4, <1>5, <1>6, <1>7

(* The quota that issuance checks is the one of the grant, for the count   *)
(* it compares is the number of keys there are.                            *)
LEMMA IssueGranted ==
  ASSUME IInv, Granted, NEW k \in Keys, IssueAPIKey(k)
  PROVE  /\ Granted' /\ grant.state = "live" /\ grant.active
         /\ grant.quota = 0 \/ Cardinality(Issued) < grant.quota
<1>1. /\ k \in Fresh /\ grant.state = "live" /\ grant.active
      /\ grant.quota = 0 \/ grant.issued < grant.quota
      /\ rows' = [rows EXCEPT ![k] = NewRow("jwt", "given")]
      /\ grant' = [grant EXCEPT !.issued = @ + 1]
  BY DEF IssueAPIKey
<1>2. rows[k].source = "none" /\ NewRow("jwt", "given").source = "jwt"
  BY <1>1, FreshRow DEF NewRow
<1>3. Issued' = Issued \cup {k} /\ k \notin Issued
  BY <1>1, <1>2, StateParts DEF Issued
<1>4. IsFiniteSet(Issued)
  BY KeyStoreAssumption, FS_Subset DEF Issued
<1>5. Cardinality(Issued') = Cardinality(Issued) + 1
  BY <1>3, <1>4, FS_AddElement
<1>6. grant'.issued = grant.issued + 1 /\ grant'.state = "live"
  BY <1>1, StateParts DEF GrantType
<1> QED
  BY <1>1, <1>5, <1>6 DEF Granted, PurgedForGood

LEMMA GrantedStep ==
  ASSUME IInv, Granted, [Next]_vars
  PROVE  /\ Granted'
         /\ Issued' # Issued =>
              /\ grant.state = "live" /\ grant.active
              /\ grant.quota = 0 \/ Cardinality(Issued) < grant.quota
<1>1. CASE UNCHANGED vars
  BY <1>1, SameRows, KeptGranted DEF vars
<1>2. CASE \E m \in Admins : Administration(m)
  BY <1>2, AdministrationGranted
<1>3. CASE \E k \in Keys : IssueAPIKey(k)
  BY <1>3, IssueGranted
<1>4. ASSUME NEW x \in Accesses, Access(x) PROVE Granted' /\ Issued' = Issued
  <2>1. grant' = grant
    BY <1>4 DEF Access, AuthenticateKey, RegisterEmployee, LookupEmployee, LoadEmployee,
                BackfillName, FindRegistered, AuthoriseEmployee
  <2> QED
    BY <1>4, <2>1, AccessKeeps, KeptGranted
<1> QED
  BY <1>1, <1>2, <1>3, <1>4 DEF Next

LEMMA GrantInvariant == Spec => []Granted
<1>1. Init => Granted
  <2>1. Init => Issued = {} /\ grant.issued = 0 /\ grant.state = "none"
    BY DEF Init, Issued, NoRow
  <2> QED
    BY <2>1, FS_EmptySet DEF Granted, PurgedForGood
<1>2. IInv /\ Granted /\ [Next]_vars => Granted'
  BY GrantedStep
<1> QED
  BY <1>1, <1>2, Inductive, PTL DEF Spec

(* A grant that was deleted together with its keys leaves none of them     *)
(* behind and issues no more, although edits of single keys, or of the     *)
(* grant, that were read before the deletion are written after it.         *)
THEOREM PurgedGrantsStayPurged == Spec => []PurgedForGood
<1>1. Granted => PurgedForGood
  BY DEF Granted
<1> QED
  BY <1>1, GrantInvariant, PTL

(* Every key a grant gives out is within the quota of that moment, however *)
(* its edits race with issuance and with each other.                       *)
THEOREM GrantsKeepTheirQuota == Spec => IssuesWithinQuota
<1>1. IInv /\ Granted /\ [Next]_vars
      => [Issued' # Issued =>
            /\ grant.state = "live" /\ grant.active
            /\ grant.quota = 0 \/ Cardinality(Issued) < grant.quota]_vars
  BY GrantedStep
<1> QED
  BY <1>1, Inductive, GrantInvariant, PTL DEF Spec, IssuesWithinQuota

----------------------------------------------------------------------------
(* Names, as long as administrators' requests do not overlap.              *)

(* A PATCH under way would write the name that is there, or a given one.   *)
Careful ==
  \A m \in Admins : edit[m].key # NoKey =>
    /\ edit[m].key \in Stored
    /\ rows[edit[m].key].name = "given" => edit[m].row.name = "given"

Alone == \A m, n \in Admins : m = n

LEMMA CarefulStep ==
  ASSUME Alone, IInv, Careful, [Next]_vars
  PROVE  Careful' /\ Naming
<1>1. ASSUME UNCHANGED <<rows, edit>> PROVE Careful' /\ Naming
  BY <1>1, SameRows DEF Careful, Stored
<1>2. ASSUME NEW m \in Admins, Administration(m) PROVE Careful' /\ Naming
  <2>1. CASE UpdateAPIKey(m)
    <3> DEFINE k == edit[m].key
               copy == edit[m].row
               row == [rows[k] EXCEPT !.name = copy.name, !.active = copy.active,
                                      !.forced = copy.forced]
    <3>1. k \in Keys /\ copy \in Rows /\ k # NoKey
      BY <2>1, StateParts DEF UpdateAPIKey, EditType
    <3>2. row.name = copy.name
      BY <3>1, StateParts DEF Rows
    <3>3. rows' = [rows EXCEPT ![k] = row] /\ edit' = [edit EXCEPT ![m] = NoEdit]
      BY <2>1 DEF UpdateAPIKey
    <3>4. rows[k].name = "given" => copy.name = "given"
      BY <3>1 DEF Careful
    <3> HIDE DEF k, copy, row
    <3>5. \A j \in Keys : rows[j].name = "given" => rows'[j].name = "given"
      BY <3>1, <3>2, <3>3, <3>4, StateParts
    <3>6. edit'[m].key = NoKey
      BY <3>3, StateParts DEF NoEdit
    <3> QED
      BY <3>5, <3>6 DEF Careful, Naming, Stored, Alone
  <2>2. ASSUME NEW k \in Keys, NEW name \in RecordNames, NEW active \in BOOLEAN,
               NEW forced \in BOOLEAN, ReadForUpdate(m, k, name, active, forced),
               name = rows[k].name \/ name = "given"
        PROVE  Careful' /\ Naming
    <3> DEFINE copy == [rows[k] EXCEPT !.name = name, !.active = active, !.forced = forced]
    <3>1. copy.name = name
      BY StateParts DEF Rows
    <3>2. /\ k \in Stored /\ rows' = rows
          /\ edit' = [edit EXCEPT ![m] = [key |-> k, row |-> copy]]
      BY <2>2 DEF ReadForUpdate
    <3> HIDE DEF copy
    <3>3. edit'[m].key = k /\ edit'[m].row.name = name
      BY <3>1, <3>2, StateParts
    <3>4. Stored' = Stored
      BY <3>2 DEF Stored
    <3> QED
      BY <2>2, <3>2, <3>3, <3>4, SameRows DEF Careful, Alone
  <2>3. CASE edit' = edit /\ edit[m].key = NoKey
    BY <1>2, <2>3, AdministrationKeeps DEF Careful, Alone, UpdateAPIKey
  <2>4. CASE UpdateJWTGrant(m)
    BY <1>1, <2>4 DEF UpdateJWTGrant
  <2> QED
    BY <1>2, <2>1, <2>2, <2>3, <2>4
    DEF Administration, CreateAPIKey, DeleteAPIKey, BatchDelete, BatchInactive, CreateJWTGrant,
        ReadGrantForUpdate, DeleteJWTGrant, Begin
<1>3. ASSUME NEW k \in Keys, IssueAPIKey(k) PROVE Careful' /\ Naming
  <2>1. k \in Fresh /\ edit' = edit /\ rows' = [rows EXCEPT ![k] = NewRow("jwt", "given")]
    BY <1>3 DEF IssueAPIKey, adminVars
  <2>2. \A j \in Stored : rows'[j] = rows[j] /\ j \in Stored'
    BY <2>1, StateParts DEF Fresh, Stored
  <2> QED
    BY <2>1, <2>2 DEF Careful, Naming
<1>4. ASSUME NEW x \in Accesses, Access(x) PROVE Careful' /\ Naming
  <2>1. Keeping /\ Naming
    BY <1>4, AccessKeeps
  <2>2. edit' = edit
    BY <1>4 DEF Access, AuthenticateKey, RegisterEmployee, LookupEmployee, LoadEmployee,
                BackfillName, FindRegistered, AuthoriseEmployee, adminVars
  <2>3. \A k \in Stored : rows'[k].name = "given" => rows[k].name = "given"
    <3>1. CASE \E k \in Keys : RegisterEmployee(x, k)
      <4>1. PICK k \in Fresh : \E row : rows' = [rows EXCEPT ![k] = row]
        BY <3>1 DEF RegisterEmployee
      <4> QED
        BY <4>1, StateParts DEF Fresh, Stored
    <3>2. CASE BackfillName(x)
      <4>1. rows' = [rows EXCEPT ![local[x].key] = Named(rows[local[x].key])]
        BY <3>2 DEF BackfillName
      <4>2. \A row \in Rows : Named(row).name = "given" => row.name = "given"
        BY DEF Named, Rows
      <4> QED
        BY <4>1, <4>2, StateParts DEF Stored
    <3>3. CASE rows' = rows
      BY <3>3
    <3> QED
      BY <1>4, <3>1, <3>2, <3>3 DEF Access, AuthenticateKey, LookupEmployee, LoadEmployee,
                                    FindRegistered, AuthoriseEmployee
  <2>4. Stored \subseteq Stored'
    BY <2>1 DEF Keeping, Stored
  <2> QED
    BY <2>1, <2>2, <2>3, <2>4 DEF Careful
<1>5. CASE UNCHANGED vars
  BY <1>1, <1>5 DEF vars, adminVars
<1> QED
  BY <1>2, <1>3, <1>4, <1>5 DEF Next

(* As long as there is one administrator's request at a time, the name a   *)
(* person gave to a record is not overwritten: neither by the name in an   *)
(* employee's token, whose backfill read the record before, nor by a PATCH *)
(* of other fields. (Without the hypothesis it is not true: two PATCHes    *)
(* under way both write the name they read.)                               *)
THEOREM GivenNamesAreKept ==
  ASSUME Alone
  PROVE  Spec => GivenNameKept
<1>1. Init => Careful
  BY DEF Init, Careful, NoEdit
<1>2. IInv /\ Careful /\ [Next]_vars => Careful'
  BY CarefulStep
<1>3. IInv /\ Careful /\ [Next]_vars
      => [\A k \in Stored : rows[k].name = "given" => rows'[k].name = "given"]_vars
  BY CarefulStep DEF Naming
<1> QED
  BY <1>1, <1>2, <1>3, Inductive, PTL DEF Spec, GivenNameKept

=============================================================================
