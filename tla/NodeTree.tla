------------------------------ MODULE NodeTree ------------------------------
(***************************************************************************)
(* The node tree of the annotated-maps backend: the rows of table `nodes`  *)
(* (database/migrations/001_schema.sql) and of `node_visibility`, and the  *)
(* five handlers of NodeController that change them: create, move, copy,   *)
(* delete and set-visibility.                                              *)
(*                                                                         *)
(* A handler is a chain of asynchronous SQL statements.  One statement, or *)
(* one transaction, is one action; between two of them any other request   *)
(* may run.  What a handler remembers from one statement to the next is    *)
(* the record req[c].  A request that its first statement refuses changes  *)
(* nothing and holds nothing, so it is not represented: the action that    *)
(* starts a request is that first statement succeeding.  Users, roles,     *)
(* permissions, maps and groups do not change here, so a statement that    *)
(* reads only those commutes with everything and is part of that action.   *)
(*                                                                         *)
(* Names, colours, GeoJSON, descriptions, visibility_override and audit    *)
(* records are left out: no guard of these handlers reads them.            *)
(***************************************************************************)
EXTENDS Integers, FiniteSets

CONSTANTS
    Clients,            \* request slots, each with the user it acts for
    Tenants, Maps,      \* rows of `tenants` and `maps`
    TenantOf,           \* maps.tenant_id
    Groups,             \* rows of `visibility_groups`
    GroupTenant,        \* visibility_groups.tenant_id
    Members,            \* client -> tenants it has a tenant_members row in
    Admins,             \* client -> those where the row says 'admin'
    Superusers,         \* clients whose users.platform_role is 'superuser'
    Managers,           \* client -> tenants where it is in a manages_visibility group
    Edits,              \* client -> maps it owns or has edit/moderate/admin on
    MAX_NODE_DEPTH, MAX_NODES_PER_MAP,   \* the caps of NodeController.h
    MAX_CASCADE,        \* MySQL's limit on nested ON DELETE CASCADE
    MaxNodeId,          \* bound: AUTO_INCREMENT stops here and INSERT fails
    RelocateAlone,      \* may a body give newMapId (another map) and no newParentId?
    BesideMove,         \* kinds of requests in flight together with a move on one map
    BesideRelocation    \* and with a move to another map

NULL    == 0
Omitted == -1
Ids     == 1 .. MaxNodeId
Kinds   == {"create", "move", "copy", "setvis", "delete"}

ASSUME NodeTreeAssumption ==
    /\ MaxNodeId \in Nat
    /\ MAX_NODE_DEPTH \in Nat \ {0} /\ MAX_NODES_PER_MAP \in Nat /\ MAX_CASCADE \in Nat
    /\ TenantOf \in [Maps -> Tenants]
    /\ GroupTenant \in [Groups -> Tenants]
    /\ Members \in [Clients -> SUBSET Tenants]
    /\ Admins \in [Clients -> SUBSET Tenants]
    /\ Superusers \subseteq Clients
    /\ Managers \in [Clients -> SUBSET Tenants]
    /\ Edits \in [Clients -> SUBSET Maps]
    /\ RelocateAlone \in BOOLEAN
    /\ BesideMove \subseteq Kinds /\ BesideRelocation \subseteq Kinds

VARIABLES
    live,       \* the ids of the rows of `nodes`
    parent,     \* nodes.parent_id of each live row
    mapOf,      \* nodes.map_id of each live row
    tags,       \* the node_visibility groups of each live row
    nextId,     \* AUTO_INCREMENT of `nodes`
    req         \* what each client's request in flight remembers

tree == <<live, parent, mapOf, tags, nextId>>
vars == <<live, parent, mapOf, tags, nextId, req>>

-----------------------------------------------------------------------------
(* Requests.  `map` is the map of the URL, `dest` the one the effect goes  *)
(* to, `par` the new parent (Omitted when the body has none), `desc` the   *)
(* subtree read by a move or a copy, `links` the parents a copy read.      *)

NoLinks == [x \in Ids |-> NULL]

Idle == [op |-> "none", pc |-> "idle", node |-> NULL, map |-> NULL, dest |-> NULL,
         par |-> NULL, groups |-> {}, desc |-> {}, links |-> NoLinks]

Requests ==
    [op : {"create", "move", "copy", "setvis"},
     pc : {"parent", "count", "insert", "subtree", "apply", "commit"},
     node : Ids \union {NULL}, map : Maps, dest : Maps,
     par : Ids \union {NULL, Omitted}, groups : SUBSET Groups,
     desc : SUBSET Ids, links : [Ids -> Ids \union {NULL}]]

Begin(c, r) == req' = [req EXCEPT ![c] = r]
GoTo(c, pc) == req' = [req EXCEPT ![c].pc = pc]
Answer(c)   == req' = [req EXCEPT ![c] = Idle]

At(c, op, pc) == req[c].op = op /\ req[c].pc = pc

(* TenantFilter: who gets past it on a tenant's URLs, and with which role. *)
Admitted(c, m)    == c \in Superusers \/ TenantOf[m] \in Members[c]
ActsAsAdmin(c, t) == c \in Superusers \/ t \in Admins[c]

(* The discipline under which the tree is safe: what runs beside a move.   *)
(* The code imposes none, which is Kinds for both constants.               *)
Beside(r) == IF r.dest = r.map THEN BesideMove ELSE BesideRelocation

MayStart(c, r) ==
    /\ req[c] = Idle
    /\ \A d \in Clients : req[d] # Idle =>
          /\ r.op = "move" => req[d].op \in Beside(r)
          /\ req[d].op = "move" => r.op \in Beside(req[d])

Start(c, r) == MayStart(c, r) /\ Begin(c, r)

Known == 1 .. (nextId - 1)      \* the ids a client can have seen

-----------------------------------------------------------------------------
(* The tree.                                                               *)

OnMap(m) == {n \in live : mapOf[n] = m}

(* n and what hangs below it through rows of K: the least set with n in it *)
(* that is closed under "child, in K, of a member".                        *)
Subtree(n, K) ==
    {d \in live : /\ n \in live
                  /\ \A S \in SUBSET live :
                        n \in S /\ (\A x \in K : parent[x] \in S => x \in S) => d \in S}

(* The recursive CTE of move and copy: children on n's own map only.       *)
Descendants(n) == IF n \in live THEN Subtree(n, OnMap(mapOf[n])) ELSE {}

(* On a cycle that CTE (UNION ALL, no depth bound) runs until MySQL stops  *)
(* it with an error.                                                       *)
Looping(n) == n \in live /\ parent[n] \in Descendants(n)

(* n itself, its parent, its grandparent, ... at most `steps` of them.     *)
Chain(n, steps) ==
    LET up[k \in 0 .. steps] == IF k = 0 THEN n
                                ELSE IF up[k - 1] \in live THEN parent[up[k - 1]]
                                ELSE NULL
    IN  up

(* Depth of n counted from its root, as the CTE of createNode counts it:   *)
(* it stops climbing after MAX_NODE_DEPTH steps.                           *)
Depth(n) ==
    LET up == Chain(n, MAX_NODE_DEPTH)
    IN  CHOOSE k \in 0 .. MAX_NODE_DEPTH :
            /\ up[k] \in live
            /\ k = MAX_NODE_DEPTH \/ up[k + 1] \notin live

(* Every row a DELETE of n cascades to is within MySQL's nesting limit.    *)
Cascades(n) ==
    \A d \in Subtree(n, live) :
        \E k \in 0 .. MAX_CASCADE : Chain(d, MAX_CASCADE)[k] = n

(* The foreign key fk_nodes_parent accepts p.                              *)
References(p) == p \in live \union {NULL}

(* INSERT of the rows DOMAIN newParents: override FALSE and no tags.        *)
InsertRows(newParents, m) ==
    LET new == DOMAIN newParents IN
    /\ live'   = live \union new
    /\ parent' = [x \in live \union new |-> IF x \in new THEN newParents[x] ELSE parent[x]]
    /\ mapOf'  = [x \in live \union new |-> IF x \in new THEN m ELSE mapOf[x]]
    /\ tags'   = [x \in live \union new |-> IF x \in new THEN {} ELSE tags[x]]

DeleteRows(gone) ==
    /\ live'   = live \ gone
    /\ parent' = [x \in live \ gone |-> parent[x]]
    /\ mapOf'  = [x \in live \ gone |-> mapOf[x]]
    /\ tags'   = [x \in live \ gone |-> tags[x]]

Init ==
    /\ live = {}
    /\ parent = [x \in {} |-> NULL]
    /\ mapOf = [x \in {} |-> NULL]
    /\ tags = [x \in {} |-> {}]
    /\ nextId = 1
    /\ req = [c \in Clients |-> Idle]

-----------------------------------------------------------------------------
(* POST .../nodes (createNode): map access, parent, cap, INSERT.           *)

CreateNode(c) ==
    \E m \in Maps, p \in live \union {NULL} :
        /\ Admitted(c, m) /\ m \in Edits[c]
        /\ Start(c, [Idle EXCEPT !.op = "create", !.map = m, !.dest = m, !.par = p,
                                 !.pc = IF p = NULL THEN "count" ELSE "parent"])
        /\ UNCHANGED tree

(* Mutant: the parent is looked up by id alone.                            *)
CreateParentOnAnyMap(c) ==
    LET r == req[c] IN
    /\ At(c, "create", "parent")
    /\ IF r.par \in live /\ Depth(r.par) + 1 < MAX_NODE_DEPTH
         THEN GoTo(c, "count")
         ELSE Answer(c)
    /\ UNCHANGED tree

(* Mutant: off by one.                                                     *)
CreateParentOneDeeper(c) ==
    LET r == req[c] IN
    /\ At(c, "create", "parent")
    /\ IF r.par \in OnMap(r.map) /\ Depth(r.par) + 1 <= MAX_NODE_DEPTH
         THEN GoTo(c, "count")
         ELSE Answer(c)
    /\ UNCHANGED tree

CreateParent(c) ==
    LET r == req[c] IN
    /\ At(c, "create", "parent")
    /\ IF r.par \in OnMap(r.map) /\ Depth(r.par) + 1 < MAX_NODE_DEPTH
         THEN GoTo(c, "count")
         ELSE Answer(c)
    /\ UNCHANGED tree

CreateCount(c) ==
    /\ At(c, "create", "count")
    /\ IF Cardinality(OnMap(req[c].map)) >= MAX_NODES_PER_MAP
         THEN Answer(c)
         ELSE GoTo(c, "insert")
    /\ UNCHANGED tree

CreateInsert(c) ==
    LET r == req[c] IN
    /\ At(c, "create", "insert")
    /\ IF References(r.par) /\ nextId \in Ids
         THEN InsertRows([x \in {nextId} |-> r.par], r.map) /\ nextId' = nextId + 1
         ELSE UNCHANGED tree
    /\ Answer(c)

-----------------------------------------------------------------------------
(* POST .../nodes/{id}/move and .../copy: the checks they share.           *)

(* No statement checks the new parent of a request that names none.        *)
ParentStep(p) == IF p \in {NULL, Omitted} THEN "subtree" ELSE "parent"

(* Mutant: the admin role is asked for in the source tenant only.          *)
MayPlaceSourceAdmin(c, m, d) ==
    d # m => /\ d \in Edits[c]
             /\ TenantOf[d] # TenantOf[m] => ActsAsAdmin(c, TenantOf[m])

(* Edit access on the destination map; across tenants, admin in both: by   *)
(* the role TenantFilter stored for the source, by a row for the other.    *)
MayPlace(c, m, d) ==
    d # m => /\ d \in Edits[c]
             /\ TenantOf[d] # TenantOf[m] => /\ ActsAsAdmin(c, TenantOf[m])
                                             /\ TenantOf[d] \in Admins[c]

(* For a copy a missing new parent means "no parent"; for a move it means  *)
(* "leave the parent as it is", which across maps is RelocateAlone.        *)
StartRelocation(c, op) ==
    \E n \in live, m \in Maps, d \in Maps, p \in live \union {NULL, Omitted} :
        /\ Admitted(c, m) /\ m \in Edits[c] /\ n \in OnMap(m)
        /\ op = "move" => p # n
        /\ (op = "move" /\ p = Omitted /\ d # m) => RelocateAlone
        /\ MayPlace(c, m, d)
        /\ Start(c, [Idle EXCEPT !.op = op, !.node = n, !.map = m, !.dest = d,
                                 !.par = IF op = "copy" /\ p = Omitted THEN NULL ELSE p,
                                 !.pc = ParentStep(p)])
        /\ UNCHANGED tree

CheckParent(c, op) ==
    LET r == req[c] IN
    /\ At(c, op, "parent")
    /\ IF r.par \in OnMap(r.dest) THEN GoTo(c, "subtree") ELSE Answer(c)
    /\ UNCHANGED tree

-----------------------------------------------------------------------------
(* moveNode.                                                               *)

MoveNode(c)   == StartRelocation(c, "move")
MoveParent(c) == CheckParent(c, "move")

(* Mutant: only the self-loop is refused.                                  *)
MoveSubtreeNoCycleCheck(c) ==
    LET r == req[c] IN
    /\ At(c, "move", "subtree")
    /\ IF Looping(r.node)
         THEN Answer(c)
         ELSE Begin(c, [r EXCEPT !.pc = "apply", !.desc = Descendants(r.node)])
    /\ UNCHANGED tree

(* Mutant: a subtree query that fails on a cycle is never answered.        *)
MoveSubtreeNoErrorCallback(c) ==
    LET r == req[c] IN
    /\ At(c, "move", "subtree") /\ ~Looping(r.node)
    /\ IF r.par \in Descendants(r.node)
         THEN Answer(c)
         ELSE Begin(c, [r EXCEPT !.pc = "apply", !.desc = Descendants(r.node)])
    /\ UNCHANGED tree

(* The subtree, and the only check against cycles.                         *)
MoveSubtree(c) ==
    LET r == req[c] IN
    /\ At(c, "move", "subtree")
    /\ IF Looping(r.node) \/ r.par \in Descendants(r.node)
         THEN Answer(c)
         ELSE Begin(c, [r EXCEPT !.pc = "apply", !.desc = Descendants(r.node)])
    /\ UNCHANGED tree

(* Mutant: the UPDATE runs with whatever newParentId was initialised to.   *)
SetParentAlways(n, p) == parent' = IF n \in live THEN [parent EXCEPT ![n] = p] ELSE parent

(* UPDATE nodes SET parent_id = p WHERE id = n: no row is also a success.  *)
SetParent(n, p) ==
    parent' = IF p # Omitted /\ n \in live THEN [parent EXCEPT ![n] = p] ELSE parent

(* The foreign key is asked only when there is a row to update.            *)
ParentAccepted(r) == r.par = Omitted \/ r.node \notin live \/ References(r.par)

(* On one map: a single UPDATE.                                            *)
MoveApply(c) ==
    LET r == req[c] IN
    /\ At(c, "move", "apply") /\ r.dest = r.map
    /\ IF ParentAccepted(r) THEN SetParent(r.node, r.par) ELSE UNCHANGED parent
    /\ Answer(c)
    /\ UNCHANGED <<live, mapOf, tags, nextId>>

(* Mutant: the tags travel along.                                          *)
MoveCommitKeepsTags(c) ==
    LET r == req[c] IN
    /\ At(c, "move", "apply") /\ r.dest # r.map
    /\ IF r.desc # {} /\ ParentAccepted(r)
         THEN /\ mapOf' = [x \in live |-> IF x \in r.desc THEN r.dest ELSE mapOf[x]]
              /\ SetParent(r.node, r.par)
         ELSE UNCHANGED <<mapOf, parent>>
    /\ Answer(c)
    /\ UNCHANGED <<live, tags, nextId>>

(* Across maps: one transaction over the ids read before.  With no id the  *)
(* statement is malformed and the transaction rolls back.                  *)
MoveCommit(c) ==
    LET r == req[c] IN
    /\ At(c, "move", "apply") /\ r.dest # r.map
    /\ IF r.desc # {} /\ ParentAccepted(r)
         THEN /\ mapOf' = [x \in live |-> IF x \in r.desc THEN r.dest ELSE mapOf[x]]
              /\ tags'  = [x \in live |-> IF x \in r.desc THEN {} ELSE tags[x]]
              /\ SetParent(r.node, r.par)
         ELSE UNCHANGED <<mapOf, tags, parent>>
    /\ Answer(c)
    /\ UNCHANGED <<live, nextId>>

-----------------------------------------------------------------------------
(* copyNode.                                                               *)

CopyNode(c)   == StartRelocation(c, "copy")
CopyParent(c) == CheckParent(c, "copy")

(* The rows to copy, with their parents: the copy is built from these.     *)
CopySubtree(c) ==
    LET r == req[c]
        D == Descendants(r.node) IN
    /\ At(c, "copy", "subtree")
    /\ IF Looping(r.node)
         THEN Answer(c)
         ELSE Begin(c, [r EXCEPT !.pc = "count", !.desc = D,
                                 !.links = [x \in Ids |-> IF x \in D THEN parent[x] ELSE NULL]])
    /\ UNCHANGED tree

CopyCount(c) ==
    LET r == req[c] IN
    /\ At(c, "copy", "count")
    /\ IF Cardinality(OnMap(r.dest)) + Cardinality(r.desc) > MAX_NODES_PER_MAP
         THEN Answer(c)
         ELSE GoTo(c, "commit")
    /\ UNCHANGED tree

(* idMap: fresh ids for the rows read, parents before children.            *)
IdMaps(r) ==
    {b \in [r.desc -> nextId .. (nextId + Cardinality(r.desc) - 1)] :
        /\ \A x, y \in r.desc : b[x] = b[y] => x = y
        /\ \A x \in r.desc \ {r.node} : b[r.links[x]] < b[x]}

(* Mutant: the parents are read again when the copies are written.         *)
CopiedParentsReread(r, idMap) ==
    LET source == [x \in {idMap[y] : y \in r.desc} |-> CHOOSE y \in r.desc : idMap[y] = x]
    IN  [x \in {idMap[y] : y \in r.desc} |->
            IF source[x] = r.node THEN r.par
            ELSE IF source[x] \in live /\ parent[source[x]] \in r.desc
              THEN idMap[parent[source[x]]]
            ELSE NULL]

(* The parents of the copies: the root goes under the new parent, another  *)
(* row under the copy of the parent it had.                                *)
CopiedParents(r, idMap) ==
    LET source == [x \in {idMap[y] : y \in r.desc} |-> CHOOSE y \in r.desc : idMap[y] = x]
    IN  [x \in {idMap[y] : y \in r.desc} |->
            IF source[x] = r.node THEN r.par ELSE idMap[r.links[source[x]]]]

(* One transaction: an INSERT per row read.  With no row it rolls back.    *)
CopyCommit(c) ==
    LET r == req[c] IN
    /\ At(c, "copy", "commit")
    /\ IF /\ r.desc # {} /\ References(r.par)
          /\ nextId + Cardinality(r.desc) - 1 \in Ids
         THEN /\ \E idMap \in IdMaps(r) : InsertRows(CopiedParents(r, idMap), r.dest)
              /\ nextId' = nextId + Cardinality(r.desc)
         ELSE UNCHANGED tree
    /\ Answer(c)

-----------------------------------------------------------------------------
(* DELETE .../nodes/{id}: one statement, cascading through fk_nodes_parent. *)

(* Mutant: no edit access is asked for.                                    *)
DeleteNodeUnchecked(c) ==
    \E m \in Maps : \E n \in OnMap(m) :
        /\ MayStart(c, [Idle EXCEPT !.op = "delete"])
        /\ Admitted(c, m)
        /\ Cascades(n)
        /\ DeleteRows(Subtree(n, live))
        /\ UNCHANGED <<nextId, req>>

(* Mutant: the subtree is deleted map by map, as move and copy read it.    *)
DeleteNodeOnMap(c) ==
    \E m \in Maps : \E n \in OnMap(m) :
        /\ MayStart(c, [Idle EXCEPT !.op = "delete"])
        /\ Admitted(c, m) /\ m \in Edits[c]
        /\ Cascades(n)
        /\ DeleteRows(Descendants(n))
        /\ UNCHANGED <<nextId, req>>

DeleteNode(c) ==
    \E m \in Maps : \E n \in OnMap(m) :
        /\ MayStart(c, [Idle EXCEPT !.op = "delete"])
        /\ Admitted(c, m) /\ m \in Edits[c]
        /\ Cascades(n)
        /\ DeleteRows(Subtree(n, live))
        /\ UNCHANGED <<nextId, req>>

-----------------------------------------------------------------------------
(* POST .../nodes/{id}/visibility with groupIds (setVisibility): manager,  *)
(* the node on the URL's map, every group in that map's tenant; then one   *)
(* transaction.                                                            *)

SetVisibility(c) ==
    \E m \in Maps : \E n \in OnMap(m), G \in SUBSET Groups :
        /\ Admitted(c, m)
        /\ ActsAsAdmin(c, TenantOf[m]) \/ TenantOf[m] \in Managers[c]
        /\ \A g \in G : GroupTenant[g] = TenantOf[m]
        /\ Start(c, [Idle EXCEPT !.op = "setvis", !.pc = "commit", !.node = n,
                                 !.map = m, !.dest = m, !.groups = G])
        /\ UNCHANGED tree

(* Mutant: no transaction, so the INSERT may fail after the DELETE.         *)
VisibilityCommitHalf(c) ==
    LET r == req[c] IN
    /\ At(c, "setvis", "commit")
    /\ \E G \in {{}, r.groups} :
          tags' = IF r.node \in live THEN [tags EXCEPT ![r.node] = G] ELSE tags
    /\ Answer(c)
    /\ UNCHANGED <<live, parent, mapOf, nextId>>

(* DELETE every tag of the node, then INSERT the new ones: by node id only. *)
VisibilityCommit(c) ==
    LET r == req[c] IN
    /\ At(c, "setvis", "commit")
    /\ tags' = IF r.node \in live THEN [tags EXCEPT ![r.node] = r.groups] ELSE tags
    /\ Answer(c)
    /\ UNCHANGED <<live, parent, mapOf, nextId>>

-----------------------------------------------------------------------------
(* Any statement may fail: the handler's error callback answers 500, and   *)
(* what a transaction did is rolled back.                                  *)
DbError(c) ==
    /\ req[c] # Idle
    /\ Answer(c)
    /\ UNCHANGED tree

Request(c) == CreateNode(c) \/ MoveNode(c) \/ CopyNode(c) \/ SetVisibility(c) \/ DeleteNode(c)

Handle(c) ==
    \/ CreateParent(c) \/ CreateCount(c) \/ CreateInsert(c)
    \/ MoveParent(c) \/ MoveSubtree(c) \/ MoveApply(c) \/ MoveCommit(c)
    \/ CopyParent(c) \/ CopySubtree(c) \/ CopyCount(c) \/ CopyCommit(c)
    \/ VisibilityCommit(c)

Next == \E c \in Clients : Request(c) \/ Handle(c) \/ DbError(c)

(* The database client answers every statement it was given; nothing       *)
(* obliges a client to send a request or a statement to fail.              *)
Fairness == \A c \in Clients : WF_vars(Handle(c))

Spec     == Init /\ [][Next]_vars
FairSpec == Spec /\ Fairness

-----------------------------------------------------------------------------
(* Properties.                                                             *)

(* Type correctness: the five columns are functions on the live rows, ids  *)
(* are below the counter, and a request in flight has fields of its kind.  *)
TypeOK ==
    /\ nextId \in Nat \ {0} /\ live \subseteq Known /\ Known \subseteq Ids
    /\ parent \in [live -> Known \union {NULL}]
    /\ mapOf \in [live -> Maps]
    /\ tags \in [live -> SUBSET Groups]
    /\ req \in [Clients -> Requests \union {Idle}]

(* Referential integrity: a parent is a row.  Whatever requests interleave, *)
(* inserts and moves under a parent deleted meanwhile must leave no orphan. *)
NoOrphans == \A n \in live : References(parent[n])

(* "Nodes form a tree per-map via parent_id": no group of nodes hangs only  *)
(* from itself.  Such nodes would be listed under no root, and every walk   *)
(* up or down from them would not end.                                      *)
Acyclic == \A S \in SUBSET live : S # {} => \E n \in S : parent[n] \notin S

(* "parent_id must reference a node on the same map (enforced at the        *)
(* application layer)", which is the handlers of this module.               *)
ParentOnSameMap == \A n \in live : parent[n] \in live => mapOf[parent[n]] = mapOf[n]

(* The groups that tag a node belong to the tenant of its map, so that the  *)
(* members of another tenant's groups never see it through a tag.           *)
TagsInTenant == \A n \in live : \A g \in tags[n] : GroupTenant[g] = TenantOf[mapOf[n]]

(* "Tree depth is capped": no node is deeper than MAX_NODE_DEPTH - 1.       *)
DepthWithinCap == \A n \in live : Depth(n) < MAX_NODE_DEPTH

(* The depth check of createNode still holds when its INSERT runs, and     *)
(* lets the last permitted level in and no further one: the row it adds is *)
(* within the cap, counted to the real root and not by the capped walk.    *)
CreatesWithinCap ==
    [][\A c \in Clients : At(c, "create", "insert") /\ req'[c] = Idle =>
          \A n \in live' \ live : Chain(n, MAX_NODE_DEPTH)'[MAX_NODE_DEPTH] = NULL]_vars

(* What a map holds: its rows, with their parents.                          *)
Content(m) == {<<n, parent[n]>> : n \in OnMap(m)}

(* A step changes only maps that its client may edit: those it had edit     *)
(* access on when the request began, wherever the row is by now.            *)
OnlyEditorsChangeMaps ==
    [][\A m \in Maps : Content(m)' # Content(m) =>
          \E c \in Clients : m \in Edits[c] /\ (Handle(c) \/ DeleteNode(c))]_vars

(* A node changes tenant only by the hand of a client that is admin in both. *)
CrossTenantNeedsBothAdmins ==
    [][\A n \in live \intersect live' :
          LET from == TenantOf[mapOf[n]]
              to   == TenantOf[mapOf'[n]]
          IN  from # to => \E c \in Clients : /\ req[c].op = "move" /\ req'[c] = Idle
                                             /\ ActsAsAdmin(c, from) /\ to \in Admins[c]]_vars

(* Tags are replaced as a whole: a node's tag set becomes the set one       *)
(* visibility request asked for, or is emptied by a move that takes the     *)
(* node to another map; a row never starts with tags.  No interleaving      *)
(* leaves a node half tagged, or under a tag it was given for another map.  *)
TagsReplacedWhole ==
    [][\A n \in live' :
          \/ n \notin live /\ tags'[n] = {}
          \/ n \in live /\ tags'[n] = tags[n]
          \/ \E c \in Clients :
                \/ /\ At(c, "move", "apply") /\ req'[c] = Idle /\ n \in req[c].desc
                   /\ req[c].dest # req[c].map /\ mapOf'[n] = req[c].dest /\ tags'[n] = {}
                \/ /\ At(c, "setvis", "commit") /\ req'[c] = Idle
                   /\ req[c].node = n /\ tags'[n] = req[c].groups]_vars

(* The rows one step adds are one tree on one map: a copy never lands in    *)
(* pieces or keeps a link into the subtree it was made from, even when that *)
(* subtree changed after it was read.                                       *)
NewRowsAreOneTree ==
    [][LET new == live' \ live IN
       new # {} => \E root \in new :
                      /\ parent'[root] \notin new
                      /\ \A x \in new : mapOf'[x] = mapOf'[root]
                      /\ \A x \in new \ {root} : parent'[x] \in new]_vars

(* The rows behave as the forest of module Forest: what a handler checked  *)
(* in an earlier statement still holds when it writes, so that each of its *)
(* writes is one whole graft, attachment, relocation or drop.              *)
Abstract == INSTANCE Forest WITH live <- live, parent <- parent, mapOf <- mapOf,
                                 nextId <- nextId, Maps <- Maps, MaxNodeId <- MaxNodeId
ImplementsForest == Abstract!ForestSpec

(* Every request is answered, whatever else runs: also when the node, the   *)
(* parent or the whole subtree it works on is gone, moved or on a cycle.    *)
EveryRequestAnswered == \A c \in Clients : req[c] # Idle ~> req[c] = Idle

=============================================================================
