------------------------- MODULE TenantMembersProofs -------------------------
(***************************************************************************)
(* Proofs about TenantMembers for any users, sessions and organization:    *)
(* with no superuser among the users, and with conflicting requests kept   *)
(* apart, the guards of addMember and removeMember always leave an admin.  *)
(***************************************************************************)
EXTENDS TenantMembers, FiniteSetTheorems, TLAPS

LEMMA IdleType == Idle.pc = "idle" /\ Idle \notin Requests
BY DEF Idle, Requests

LEMMA TypeInit == Init => TypeOK
BY DEF Init, TypeOK, Roles

(* Every step keeps the types: what is written is what a body may name.    *)
LEMMA TypeNext == TypeOK /\ [Next]_vars => TypeOK'
<1> SUFFICES ASSUME TypeOK, [Next]_vars PROVE TypeOK'
  OBVIOUS
<1> USE DEF TypeOK
<1>1. ASSUME NEW s \in Sessions, NEW p \in Requests, Begin(s, p) PROVE TypeOK'
  BY <1>1 DEF Begin
<1>2. ASSUME NEW s \in Sessions, AddMember(s) PROVE TypeOK'
  BY <1>1, <1>2 DEF AddMember, Requests
<1>3. ASSUME NEW s \in Sessions, RemoveMember(s) PROVE TypeOK'
  BY <1>1, <1>3 DEF RemoveMember, Requests
<1>4. ASSUME NEW s \in Sessions, CountAdmins(s) PROVE TypeOK'
  BY <1>4, IdleType DEF CountAdmins, Answer, Requests
<1>5. ASSUME NEW s \in Sessions, UpsertRow(s) \/ DeleteRow(s) PROVE TypeOK'
  BY <1>5, IdleType DEF UpsertRow, DeleteRow, Answer, Requests
<1>6. ASSUME NEW s \in Sessions, DbError(s) PROVE TypeOK'
  BY <1>6 DEF DbError, Answer
<1>7. QED
  BY <1>2, <1>3, <1>4, <1>5, <1>6 DEF Next, vars

(* Type correctness of every reachable state, under any interleaving.      *)
THEOREM TypeCorrect == Spec => []TypeOK
  BY TypeInit, TypeNext, PTL DEF Spec

-----------------------------------------------------------------------------
(* When the count finds more than one admin, one of them is somebody else. *)
LEMMA AnotherAdmin ==
    ASSUME TypeOK, NEW u \in Users, ~(Cardinality(AdminRows) <= 1)
    PROVE  \E v \in Users : v # u /\ role[v] = "admin"
<1> SUFFICES ASSUME AdminRows \subseteq {u} PROVE FALSE
  BY DEF AdminRows
<1>1. IsFiniteSet({u}) /\ Cardinality({u}) = 1
  BY FS_Singleton
<1>2. Cardinality(AdminRows) <= 1
  BY <1>1, FS_Subset
<1>3. QED
  BY <1>2

SafeMode == LoweringAlone /\ Superusers = {}

(* A request in flight still has an admin behind it, and a self-demotion   *)
(* that passed the count still has another admin to leave the tenant to.   *)
Ready(s) ==
    req[s] # Idle =>
        /\ role[Caller[s]] = "admin"
        /\ req[s].pc = "delete" => req[s].target # Caller[s] /\ req[s].role # "admin"
        /\ (req[s].pc = "upsert" /\ req[s].role # "admin" /\ req[s].target = Caller[s]) =>
              \E v \in Users : v # Caller[s] /\ role[v] = "admin"

NoConflict ==
    \A s, d \in Sessions :
        s # d /\ req[s] # Idle /\ req[d] # Idle => ~Conflict(s, req[s], d, req[d])

Inv == TypeOK /\ HasAdmin /\ NoConflict /\ \A s \in Sessions : Ready(s)

LEMMA InvInit == Init => Inv
BY TypeInit, TenantMembersAssumption DEF Init, Inv, HasAdmin, AdminRows, NoConflict, Ready

LEMMA BeginSafe ==
    ASSUME Inv, TypeOK', SafeMode, NEW s \in Sessions, NEW p \in Requests,
           MayStart(s, p), Begin(s, p), role[Caller[s]] = "admin",
           p.pc = "delete" => p.target # Caller[s] /\ p.role # "admin",
           p.pc = "upsert" /\ p.target = Caller[s] => p.role = "admin"
    PROVE  Inv'
<1>1. /\ role' = role /\ req[s] = Idle
      /\ \A d \in Sessions : req'[d] = IF d = s THEN p ELSE req[d]
      /\ \A d \in Sessions : req[d] # Idle => ~Conflict(s, p, d, req[d])
  BY DEF Begin, Inv, TypeOK, MayStart, SafeMode
<1>2. HasAdmin'
  BY <1>1 DEF Inv, HasAdmin, AdminRows
<1>3. NoConflict'
  BY <1>1 DEF Inv, NoConflict, Conflict
<1>4. ASSUME NEW d \in Sessions PROVE Ready(d)'
  BY <1>1 DEF Inv, Ready
<1>5. QED
  BY <1>2, <1>3, <1>4 DEF Inv

(* A request that ends without a change, or goes on after the count.       *)
LEMMA QuietSafe ==
    ASSUME Inv, TypeOK', role' = role, NEW s \in Sessions,
           \/ Answer(s)
           \/ /\ req[s].pc = "count" /\ ~(Cardinality(AdminRows) <= 1)
              /\ req' = [req EXCEPT ![s].pc = "upsert"]
    PROVE  Inv'
<1>1. HasAdmin'
  BY DEF Inv, HasAdmin, AdminRows
<1>2. CASE Answer(s)
  <2>1. \A d \in Sessions : req'[d] = IF d = s THEN Idle ELSE req[d]
    BY <1>2 DEF Answer, Inv, TypeOK
  <2>2. NoConflict' /\ \A d \in Sessions : Ready(d)'
    BY <2>1 DEF Inv, NoConflict, Conflict, Ready
  <2>3. QED
    BY <1>1, <2>2 DEF Inv
<1>3. CASE ~Answer(s)
  <2>1. /\ req[s].pc = "count" /\ ~(Cardinality(AdminRows) <= 1)
        /\ req' = [req EXCEPT ![s].pc = "upsert"]
    BY <1>3
  <2>2. req[s] \in Requests /\ req[s] # Idle
    BY <2>1, IdleType DEF Inv, TypeOK
  <2>3. /\ \A d \in Sessions : d # s => req'[d] = req[d]
        /\ req'[s].target = req[s].target /\ req'[s].role = req[s].role
        /\ req'[s].pc = "upsert"
    BY <2>1, <2>2 DEF Inv, TypeOK, Requests
  <2>4. \E v \in Users : v # Caller[s] /\ role[v] = "admin"
    BY <2>1, AnotherAdmin, TenantMembersAssumption DEF Inv
  <2>5. NoConflict'
    BY <2>2, <2>3 DEF Inv, NoConflict, Conflict
  <2>6. ASSUME NEW d \in Sessions PROVE Ready(d)'
    BY <2>2, <2>3, <2>4 DEF Inv, Ready
  <2>7. QED
    BY <1>1, <2>5, <2>6 DEF Inv
<1>4. QED
  BY <1>2, <1>3

(* A write changes one row.  A promotion lowers nobody; a request that     *)
(* lowers somebody runs beside no other such request, and lowers neither   *)
(* the caller of another request nor the last admin.                       *)
LEMMA WriteSafe ==
    ASSUME Inv, TypeOK', NEW s \in Sessions, req[s].pc \in {"upsert", "delete"}, Answer(s),
           \/ role' = role
           \/ role' = [role EXCEPT ![req[s].target] = req[s].role]
           \/ req[s].pc = "delete" /\ role' = [role EXCEPT ![req[s].target] = "none"]
    PROVE  Inv'
<1> DEFINE t == req[s].target
<1>1. CASE role' = role
  BY <1>1, QuietSafe
<1>2. CASE role' # role
  <2>1. req[s] \in Requests /\ req[s] # Idle
    BY IdleType DEF Inv, TypeOK
  <2>2. PICK new : /\ role' = [role EXCEPT ![t] = new]
                   /\ new = req[s].role \/ (req[s].pc = "delete" /\ new = "none")
    BY <1>2
  <2>3. \A u \in Users : role'[u] = IF u = t THEN new ELSE role[u]
    BY <2>2 DEF Inv, TypeOK
  <2>4. \A d \in Sessions : req'[d] = IF d = s THEN Idle ELSE req[d]
    BY DEF Answer, Inv, TypeOK
  <2>5. Caller[s] \in Users /\ t \in Users /\ role[Caller[s]] = "admin"
    BY <2>1, TenantMembersAssumption DEF Inv, Ready, Requests
  <2>6. \E v \in Users : role'[v] = "admin"
    <3>1. CASE new = "admin"
      BY <2>3, <2>5, <3>1
    <3>2. CASE t # Caller[s]
      BY <2>3, <2>5, <3>2
    <3>3. CASE new # "admin" /\ t = Caller[s]
      <4>1. req[s].pc = "upsert" /\ req[s].role # "admin"
        BY <2>1, <2>2, <3>3 DEF Inv, Ready
      <4>2. PICK v \in Users : v # Caller[s] /\ role[v] = "admin"
        BY <2>1, <3>3, <4>1 DEF Inv, Ready
      <4>3. QED
        BY <2>3, <3>3, <4>2
    <3>4. QED
      BY <3>1, <3>2, <3>3
  <2>7. NoConflict'
    BY <2>4 DEF Inv, NoConflict, Conflict
  <2>8. ASSUME NEW d \in Sessions, d # s, req[d] # Idle PROVE Ready(d)'
    <3>1. /\ Ready(d) /\ req'[d] = req[d] /\ Caller[d] \in Users
          /\ ~Conflict(s, req[s], d, req[d])
      BY <2>1, <2>4, <2>8, TenantMembersAssumption DEF Inv, NoConflict
    <3>2. CASE new = "admin"
      BY <2>3, <3>1, <3>2 DEF Ready
    <3>3. CASE new # "admin"
      <4>1. req[s].role # "admin"
        BY <2>1, <2>2, <3>3 DEF Inv, Ready
      <4>2. req[d].role = "admin" /\ t # Caller[d]
        BY <3>1, <4>1 DEF Conflict
      <4>3. QED
        BY <2>3, <3>1, <4>2 DEF Ready
    <3>4. QED
      BY <3>2, <3>3
  <2>9. \A d \in Sessions : Ready(d)'
    BY <2>4, <2>8 DEF Ready
  <2>10. QED
    BY <2>6, <2>7, <2>9 DEF Inv, HasAdmin, AdminRows
<1>3. QED
  BY <1>1, <1>2

LEMMA InvNext == SafeMode /\ Inv /\ [Next]_vars => Inv'
<1> SUFFICES ASSUME SafeMode, Inv, [Next]_vars PROVE Inv'
  OBVIOUS
<1>1. TypeOK'
  BY TypeNext DEF Inv
<1>2. \A u \in Users : ActsAsAdmin(u) <=> role[u] = "admin"
  BY DEF SafeMode, ActsAsAdmin
<1>3. \A s \in Sessions : Caller[s] \in Users
  BY TenantMembersAssumption
<1>4. ASSUME NEW s \in Sessions, AddMember(s) PROVE Inv'
  <2>1. PICK u \in Users, r \in Roles :
            LET p == [target |-> u, role |-> r,
                      pc |-> IF u = Caller[s] /\ r # "admin" THEN "count" ELSE "upsert"]
            IN  MayStart(s, p) /\ ActsAsAdmin(Caller[s]) /\ Begin(s, p)
    BY <1>4 DEF AddMember
  <2> DEFINE p == [target |-> u, role |-> r,
                   pc |-> IF u = Caller[s] /\ r # "admin" THEN "count" ELSE "upsert"]
  <2>2. /\ p \in Requests /\ MayStart(s, p) /\ Begin(s, p)
        /\ p.pc # "delete" /\ (p.pc = "upsert" /\ p.target = Caller[s] => p.role = "admin")
    BY <2>1 DEF Requests
  <2>3. role[Caller[s]] = "admin"
    BY <1>2, <1>3, <2>1
  <2> HIDE DEF p
  <2>4. QED
    BY <1>1, <2>2, <2>3, BeginSafe
<1>5. ASSUME NEW s \in Sessions, RemoveMember(s) PROVE Inv'
  <2>1. PICK u \in Users \ {Caller[s]} :
            LET p == [target |-> u, role |-> "none", pc |-> "delete"]
            IN  MayStart(s, p) /\ ActsAsAdmin(Caller[s]) /\ Begin(s, p)
    BY <1>5 DEF RemoveMember
  <2> DEFINE p == [target |-> u, role |-> "none", pc |-> "delete"]
  <2>2. /\ p \in Requests /\ MayStart(s, p) /\ Begin(s, p)
        /\ p.pc = "delete" /\ p.target # Caller[s] /\ p.role # "admin"
    BY <2>1 DEF Requests
  <2>3. role[Caller[s]] = "admin"
    BY <1>2, <1>3, <2>1
  <2> HIDE DEF p
  <2>4. QED
    BY <1>1, <2>2, <2>3, BeginSafe
<1>6. ASSUME NEW s \in Sessions, CountAdmins(s) PROVE Inv'
  BY <1>1, <1>6, QuietSafe DEF CountAdmins
<1>7. ASSUME NEW s \in Sessions, UpsertRow(s) PROVE Inv'
  BY <1>1, <1>7, WriteSafe DEF UpsertRow
<1>8. ASSUME NEW s \in Sessions, DeleteRow(s) PROVE Inv'
  BY <1>1, <1>8, WriteSafe DEF DeleteRow
<1>9. ASSUME NEW s \in Sessions, DbError(s) PROVE Inv'
  BY <1>1, <1>9, QuietSafe DEF DbError
<1>10. CASE UNCHANGED vars
  BY <1>1, <1>10 DEF vars, Inv, HasAdmin, AdminRows, NoConflict, Conflict, Ready
<1>11. QED
  BY <1>4, <1>5, <1>6, <1>7, <1>8, <1>9, <1>10 DEF Next

(* With conflicting requests kept apart and no superuser, no interleaving  *)
(* of membership requests leaves the tenant without an admin.              *)
THEOREM AlwaysHasAdmin == SafeMode => (Spec => []HasAdmin)
<1>1. Inv => HasAdmin
  BY DEF Inv
<1>2. SafeMode => []SafeMode
  OBVIOUS
<1>3. QED
  BY <1>1, <1>2, InvInit, InvNext, PTL DEF Spec

=============================================================================
