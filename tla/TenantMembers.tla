---------------------------- MODULE TenantMembers ----------------------------
(***************************************************************************)
(* The members of one tenant: its rows of `tenant_members` and the two     *)
(* handlers of TenantController that change them, addMember and            *)
(* removeMember.  Tenants share no row, so one stands for all.             *)
(*                                                                         *)
(* TenantFilter reads the caller's role once, before the handler; the      *)
(* handler's own statements run later, each in a step of its own, whatever *)
(* became of that role meanwhile.                                          *)
(***************************************************************************)
EXTENDS Integers, FiniteSets

CONSTANTS
    Users,
    Sessions,       \* request slots
    Caller,         \* the user each of them acts for
    Superusers,     \* users.platform_role is 'superuser'
    InOrg,          \* users of the tenant's organization
    Founder,        \* the member the tenant was created with
    LoweringAlone   \* are requests that lower someone kept apart (see MayStart)?

Roles == {"viewer", "editor", "admin"}

ASSUME TenantMembersAssumption ==
    /\ IsFiniteSet(Users)
    /\ Caller \in [Sessions -> Users]
    /\ Superusers \subseteq Users /\ InOrg \subseteq Users
    /\ Founder \in InOrg
    /\ LoweringAlone \in BOOLEAN

VARIABLES
    role,           \* user -> the role of its row, or "none" without a row
    req             \* what each request in flight remembers

vars == <<role, req>>

Idle == [pc |-> "idle", target |-> Founder, role |-> "none"]

Requests == [pc : {"count", "upsert", "delete"}, target : Users, role : Roles \union {"none"}]

AdminRows == {u \in Users : role[u] = "admin"}

(* AuthController: a tenant starts with one member, its admin.             *)
Init ==
    /\ role = [u \in Users |-> IF u = Founder THEN "admin" ELSE "none"]
    /\ req = [s \in Sessions |-> Idle]

Begin(s, p) == req' = [req EXCEPT ![s] = p] /\ UNCHANGED role
Answer(s)   == req' = [req EXCEPT ![s] = Idle]

(* TenantFilter, and the handlers' first check on the role it stored.      *)
ActsAsAdmin(u) == u \in Superusers \/ role[u] = "admin"

(* Two requests conflict when both would lower someone, or one would lower *)
(* the user the other acts for.                                            *)
Conflict(s, p, d, q) ==
    \/ p.role # "admin" /\ q.role # "admin"
    \/ p.role # "admin" /\ p.target = Caller[d]
    \/ q.role # "admin" /\ q.target = Caller[s]

(* The discipline under which the guards suffice: requests that conflict   *)
(* do not overlap.  The code imposes none.                                 *)
MayStart(s, p) ==
    /\ req[s] = Idle
    /\ LoweringAlone => \A d \in Sessions : req[d] # Idle => ~Conflict(s, p, d, req[d])

-----------------------------------------------------------------------------
(* Mutant: the role is stored as the body spells it.                        *)
AddMemberAnyRole(s) ==
    \E u \in Users, r \in Roles \union {"owner"} :
        LET p == [target |-> u, role |-> r,
                  pc |-> IF u = Caller[s] /\ r # "admin" THEN "count" ELSE "upsert"]
        IN  MayStart(s, p) /\ ActsAsAdmin(Caller[s]) /\ Begin(s, p)

(* POST .../members: only who demotes itself counts the admins first.      *)
AddMember(s) ==
    \E u \in Users, r \in Roles :
        LET p == [target |-> u, role |-> r,
                  pc |-> IF u = Caller[s] /\ r # "admin" THEN "count" ELSE "upsert"]
        IN  MayStart(s, p) /\ ActsAsAdmin(Caller[s]) /\ Begin(s, p)

(* Mutant: off by one.                                                     *)
CountAdminsAllowsLast(s) ==
    /\ req[s].pc = "count"
    /\ IF Cardinality(AdminRows) < 1 THEN Answer(s) ELSE req' = [req EXCEPT ![s].pc = "upsert"]
    /\ UNCHANGED role

CountAdmins(s) ==
    /\ req[s].pc = "count"
    /\ IF Cardinality(AdminRows) <= 1 THEN Answer(s) ELSE req' = [req EXCEPT ![s].pc = "upsert"]
    /\ UNCHANGED role

(* The check that the target is in the organization, which never changes,  *)
(* and INSERT ... ON DUPLICATE KEY UPDATE.                                  *)
UpsertRow(s) ==
    /\ req[s].pc = "upsert"
    /\ role' = IF req[s].target \in InOrg THEN [role EXCEPT ![req[s].target] = req[s].role]
               ELSE role
    /\ Answer(s)

(* DELETE .../members/{userId}: anyone but the caller.                     *)
RemoveMember(s) ==
    \E u \in Users \ {Caller[s]} :
        LET p == [target |-> u, role |-> "none", pc |-> "delete"]
        IN  MayStart(s, p) /\ ActsAsAdmin(Caller[s]) /\ Begin(s, p)

DeleteRow(s) ==
    /\ req[s].pc = "delete"
    /\ role' = [role EXCEPT ![req[s].target] = "none"]
    /\ Answer(s)

(* A statement fails; the handler answers 500.                             *)
DbError(s) ==
    /\ req[s] # Idle
    /\ Answer(s)
    /\ UNCHANGED role

Next ==
    \E s \in Sessions :
        \/ AddMember(s) \/ CountAdmins(s) \/ UpsertRow(s)
        \/ RemoveMember(s) \/ DeleteRow(s)
        \/ DbError(s)

Spec == Init /\ [][Next]_vars

-----------------------------------------------------------------------------
(* Properties.                                                             *)

(* Type correctness: at most one row per user, one request per slot.       *)
TypeOK ==
    /\ role \in [Users -> Roles \union {"none"}]
    /\ req \in [Sessions -> Requests \union {Idle}]

(* A tenant without an admin has no way back through the API, which is what *)
(* the guard in addMember and the self-removal check are there to prevent.  *)
HasAdmin == AdminRows # {}

Rank(r) == CASE r = "none" -> 0 [] r = "viewer" -> 1 [] r = "editor" -> 2 [] r = "admin" -> 3

(* "Only `admin`-role members may manage tenant membership"                *)
(* (docs/REQUIREMENTS.md:142), their own included: who was removed or      *)
(* demoted gets a role back only by the request of another user.  With     *)
(* LoweringAlone = FALSE it is not so: the role is read before the handler,*)
(* and a request begun as an admin puts its caller's row back.             *)
NobodyRaisesThemselves ==
    [][\A u \in Users : Rank(role'[u]) > Rank(role[u]) =>
          \E s \in Sessions : Caller[s] # u /\ (UpsertRow(s) \/ DeleteRow(s))]_vars

=============================================================================
