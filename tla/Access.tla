------------------------------- MODULE Access -------------------------------
(***************************************************************************)
(* Who is shown what, in one tenant: the maps and their permissions        *)
(* (MapController), the visibility groups (VisibilityGroupController), the *)
(* tags of the nodes, and the handlers of NodeController, EdgeController   *)
(* and PlotController that answer with nodes, edges or plots.              *)
(*                                                                         *)
(* The writes are instants here: the statement that writes is the last of  *)
(* its handler, and it asks again, in its WHERE clause or by a foreign     *)
(* key, for the rows that the earlier ones found.  Only the permission to  *)
(* write may be stale by then; that is left out, and so are the requests   *)
(* that are refused.  NodeTree is where moveNode and setVisibility         *)
(* interleave, statement by statement.  The reads run statement by         *)
(* statement: req[c] is what a reader has got so far.                      *)
(*                                                                         *)
(* Nodes move on their map, to another map and to another tenant; NodeTree *)
(* has how they come and go otherwise.  Edges and plots do not change      *)
(* (Contents does that) except when their nodes go or leave the tenant.    *)
(* Names, texts and geometry are left out, and so is the tenant: it is the *)
(* one of the URL in every statement.  What becomes of a node in another   *)
(* tenant is left out too, and that it may come back.                      *)
(***************************************************************************)
EXTENDS Forest, Functions

CONSTANTS
    Users,          \* users of the tenant's organization who pass TenantFilter
    Admins,         \* those whose tenantRole is admin
    Founder,        \* who registered the tenant and drew its first map
    PUBLIC,         \* map_permissions.user_id IS NULL
    Levels,         \* the levels setPermission is asked for
    Edges,          \* <<map_id, source_node_id, dest_node_id>>
    PlotNodes,      \* the nodes of a plot
    MaxMapId, MaxGroupId,   \* bounds on AUTO_INCREMENT
    MAX_MAPS,       \* 1000 in createMap
    MAX_NODE_DEPTH, \* 15
    PageLimit,      \* ?limit= of getSubtree
    MaxReaders      \* bound on the reads in flight, which do not touch each other

AllLevels == {"none", "view", "comment", "edit", "moderate", "admin"}
VIEWING   == AllLevels \ {"none"}
EDITING   == {"edit", "moderate", "admin"}
GroupIds  == 1 .. MaxGroupId

ASSUME AccessAssumption ==
    /\ MaxNodeId \in Nat /\ MaxMapId \in Nat /\ MaxGroupId \in Nat \ {0}
    /\ MAX_MAPS \in Nat /\ MAX_NODE_DEPTH \in Nat /\ PageLimit \in Nat \ {0} /\ MaxReaders \in Nat
    /\ Maps = 1 .. MaxMapId /\ 1 \in Maps
    /\ Admins \subseteq Users /\ Founder \in Users /\ PUBLIC \notin Users
    /\ Levels \subseteq AllLevels
    /\ Edges \subseteq {1} \X Ids \X Ids /\ PlotNodes \subseteq Ids

VARIABLES
    owner, nextMap,     \* owner_id of the rows of `maps`, AUTO_INCREMENT
    xray,               \* the maps with owner_xray
    grant,              \* <<map_id, user_id>> -> level of `map_permissions`
    manages, nextGroup, \* manages_visibility of `visibility_groups`, AUTO_INCREMENT
    members,            \* <<visibility_group_id, user_id>> of `visibility_group_members`
    override, tags,     \* visibility_override and `node_visibility` of a node
    req,                \* what each user's request has got so far
    saw                 \* history: what the user might have been shown since it asked

maps   == <<owner, nextMap, xray, grant>>
groups == <<manages, nextGroup, members>>
marks  == <<override, tags>>
db     == <<rows, maps, groups, marks>>
vars   == <<db, req, saw>>

Elsewhere == 0      \* the map_id of a node that has gone to another tenant

LiveMaps == DOMAIN owner
Groups   == DOMAIN manages

-----------------------------------------------------------------------------
(* The predicates the statements share.                                    *)

Grants(m, t, levels) == <<m, t>> \in DOMAIN grant /\ grant[<<m, t>>] \in levels

(* MAP_VIEW_PREDICATE, MAP_EDIT_PREDICATE.                                 *)
MayView(c, m) ==
    m \in LiveMaps /\ (owner[m] = c \/ Grants(m, c, VIEWING) \/ Grants(m, PUBLIC, VIEWING))

MayEdit(c, m) == m \in LiveMaps /\ (owner[m] = c \/ Grants(m, c, EDITING))

(* requireVisibilityGroupManager.                                          *)
Manager(c) == c \in Admins \/ \E g \in Groups : manages[g] /\ <<g, c>> \in members

(* The rows of the CTE `resolve` that start at n.                          *)
Resolve(n) ==
    LET cur[k \in 0 .. MAX_NODE_DEPTH] ==
          IF k = 0 THEN n
          ELSE IF cur[k - 1] = NULL \/ override[cur[k - 1]] THEN NULL
          ELSE parent[cur[k - 1]]
    IN  {cur[k] : k \in 0 .. MAX_NODE_DEPTH} \intersect live

Tagged(c, n) == \E g \in tags[n] : <<g, c>> \in members

(* Mutant: an override without tags hides nothing.                         *)
VisibleStartsUntagged(c, m) ==
    {n \in OnMap(m) : \E r \in Resolve(n) : override[r] /\ (tags[r] = {} \/ Tagged(c, r))}

VisibleStarts(c, m) ==
    {n \in OnMap(m) : \E r \in Resolve(n) : override[r] /\ Tagged(c, r)}

Xray(c, m) == m \in xray /\ owner[m] = c

Bypasses(c, m) == c \in Admins \/ Xray(c, m)

(* VISIBILITY_PREDICATE, which tenant admins bypass.                       *)
Unhidden(c, m) == IF Bypasses(c, m) THEN OnMap(m) ELSE VisibleStarts(c, m)

(* The nodes of m that one statement shows to c.                           *)
Shown(c, m) == IF MayView(c, m) THEN Unhidden(c, m) ELSE {}

(* The rows of the CTE `subtree`: no descent below a node that is hidden.  *)
SubtreeRows(c, m, root) ==
    LET below[k \in 0 .. MAX_NODE_DEPTH] ==
          IF k = 0 THEN Shown(c, m) \intersect {root}
          ELSE {n \in Unhidden(c, m) : parent[n] \in below[k - 1]}
    IN  UNION {below[k] : k \in 0 .. MAX_NODE_DEPTH}

EndsOf(e) == {e[2], e[3]}
Ends(E)   == UNION {EndsOf(e) : e \in E}

(* The rows of node_edges with this map_id, wherever their ends are now.   *)
EdgesOn(m) == {e \in Edges : e[1] = m /\ m \in LiveMaps /\ EndsOf(e) \subseteq live}

(* Mutant: one end that may be seen is enough.                             *)
ShownEdgesByOneEnd(c, m) ==
    {e \in EdgesOn(m) : Bypasses(c, m) \/ EndsOf(e) \intersect VisibleStarts(c, m) # {}}

(* EDGE_VISIBILITY_PREDICATE: who bypasses it gets the map's edges without *)
(* a look at their ends.                                                   *)
ShownEdges(c, m) ==
    {e \in EdgesOn(m) : Bypasses(c, m) \/ EndsOf(e) \subseteq VisibleStarts(c, m)}

ParentsIn(S) == {parent[n] : n \in S} \ {NULL}

-----------------------------------------------------------------------------
(* Requests of readers.                                                    *)

Idle == [op |-> "none"]

(* An answer names maps, nodes as rows of their own, and nodes as parents. *)
Reply(kind, M, N, P) == [op |-> "answer", kind |-> kind, maps |-> M, rows |-> N, parents |-> P]

Kinds == {"maps", "nodes", "children", "subtree", "edges", "plot", "plots"}

Requests ==
    [op : {"none"}]
    \union [op : {"answer"}, kind : Kinds, maps : SUBSET Maps,
            rows : SUBSET Ids, parents : SUBSET Ids]
    \union [op : {"parent"}, map : Maps, node : Ids, parent : Ids]
    \union [op : {"page"}, map : Maps, node : Ids, cursor : Ids \union {0}, rows : SUBSET Ids]
    \union [op : {"edges"}, map : Maps, among : SUBSET Edges]
    \union [op : {"node"}, map : Maps, node : Ids]

At(c, op)  == req[c].op = op
Get(c, r)  == req' = [req EXCEPT ![c] = r]
Ask(c, r)  ==
    /\ At(c, "none") /\ Cardinality({d \in Users : ~At(d, "none")}) < MaxReaders
    /\ Get(c, r) /\ UNCHANGED db
Then(c, r) == Get(c, r) /\ UNCHANGED db

Nothing == [maps |-> {}, nodes |-> {}, strays |-> {}, kept |-> {}]

Init ==
    /\ live = Ids /\ mapOf = [n \in Ids |-> 1] /\ nextId = MaxNodeId + 1
    /\ parent \in [Ids -> Ids \union {NULL}] /\ \A n \in Ids : parent[n] < n
    /\ owner = [m \in {1} |-> Founder] /\ nextMap = 2 /\ xray = {}
    /\ grant = [k \in {} |-> "none"]
    /\ \E G \in {{}, {1}} :    \* register makes the first group, other ways to a tenant do not
          /\ manages = [g \in G |-> TRUE] /\ nextGroup = Cardinality(G) + 1
          /\ members = G \X {Founder}
    /\ override = [n \in Ids |-> FALSE] /\ tags = [n \in Ids |-> {}]
    /\ req = [c \in Users |-> Idle]
    /\ saw = [c \in Users |-> Nothing]

-----------------------------------------------------------------------------
(* Maps and permissions (MapController).                                   *)

CreateMap(c) ==
    /\ nextMap \in Maps /\ Cardinality(LiveMaps) < MAX_MAPS
    /\ nextMap' = nextMap + 1
    /\ owner' = [m \in LiveMaps \union {nextMap} |-> IF m = nextMap THEN c ELSE owner[m]]
    /\ \E on \in BOOLEAN : xray' = IF on THEN xray \union {nextMap} ELSE xray
    /\ UNCHANGED <<rows, grant, groups, marks, req>>

UpdateMap(c) ==
    /\ \E m \in LiveMaps, on \in BOOLEAN :
          /\ owner[m] = c
          /\ xray' = IF on THEN xray \union {m} ELSE xray \ {m}
    /\ UNCHANGED <<rows, owner, nextMap, grant, groups, marks, req>>

(* The foreign keys take the permissions and the nodes along, with all     *)
(* that hangs from these, on other maps too.                               *)
DeleteMap(c) ==
    /\ \E m \in LiveMaps :
          LET left == live \ UNION {Subtree(n) : n \in OnMap(m)} IN
          /\ owner[m] = c
          /\ owner' = Restrict(owner, LiveMaps \ {m}) /\ xray' = xray \ {m}
          /\ grant' = Restrict(grant, {k \in DOMAIN grant : k[1] # m})
          /\ live' = left
          /\ parent' = Restrict(parent, left) /\ mapOf' = Restrict(mapOf, left)
          /\ override' = Restrict(override, left) /\ tags' = Restrict(tags, left)
    /\ UNCHANGED <<nextId, nextMap, groups, req>>

(* A trigger refuses a second public row before ON DUPLICATE KEY sees it.  *)
SetPermission(c) ==
    /\ \E m \in LiveMaps, t \in Users \union {PUBLIC}, l \in Levels :
          /\ owner[m] = c
          /\ t = PUBLIC => <<m, t>> \notin DOMAIN grant
          /\ grant' = [k \in DOMAIN grant \union {<<m, t>>} |-> IF k = <<m, t>> THEN l ELSE grant[k]]
    /\ UNCHANGED <<rows, owner, nextMap, xray, groups, marks, req>>

RemovePermission(c) ==
    /\ \E m \in LiveMaps, t \in Users \union {PUBLIC} :
          /\ owner[m] = c
          /\ grant' = Restrict(grant, DOMAIN grant \ {<<m, t>>})
    /\ UNCHANGED <<rows, owner, nextMap, xray, groups, marks, req>>

-----------------------------------------------------------------------------
(* Visibility groups (VisibilityGroupController).                          *)

CreateGroup(c) ==
    /\ Manager(c) /\ nextGroup \in GroupIds
    /\ nextGroup' = nextGroup + 1
    /\ \E flag \in BOOLEAN :
          /\ flag => c \in Admins
          /\ manages' = [g \in Groups \union {nextGroup} |-> IF g = nextGroup THEN flag ELSE manages[g]]
    /\ UNCHANGED <<rows, maps, members, marks, req>>

(* Only an update that sends managesVisibility is more than a text.        *)
UpdateGroup(c) ==
    /\ c \in Admins
    /\ \E g \in Groups, flag \in BOOLEAN : manages' = [manages EXCEPT ![g] = flag]
    /\ UNCHANGED <<rows, maps, nextGroup, members, marks, req>>

(* Mutant: no foreign key from node_visibility.                            *)
DeleteGroupKeepingTags(c) ==
    /\ Manager(c)
    /\ \E g \in Groups :
          /\ manages' = Restrict(manages, Groups \ {g})
          /\ members' = {x \in members : x[1] # g}
    /\ UNCHANGED <<rows, maps, nextGroup, marks, req>>

(* The foreign keys take its members and its tags along.                   *)
DeleteGroup(c) ==
    /\ Manager(c)
    /\ \E g \in Groups :
          /\ manages' = Restrict(manages, Groups \ {g})
          /\ members' = {x \in members : x[1] # g}
          /\ tags' = [n \in live |-> tags[n] \ {g}]
    /\ UNCHANGED <<rows, maps, nextGroup, override, req>>

AddMember(c) ==
    /\ Manager(c)
    /\ \E g \in Groups, u \in Users : members' = members \union {<<g, u>>}
    /\ UNCHANGED <<rows, maps, manages, nextGroup, marks, req>>

RemoveMember(c) ==
    /\ Manager(c)
    /\ \E x \in members : members' = members \ {x}
    /\ UNCHANGED <<rows, maps, manages, nextGroup, marks, req>>

-----------------------------------------------------------------------------
(* What the other modules do to the nodes.                                 *)

(* setVisibility: a field left out does what sending its value would do.   *)
SetVisibility(c) ==
    /\ Manager(c)
    /\ \E n \in live, flag \in BOOLEAN, G \in SUBSET Groups :
          /\ mapOf[n] \in LiveMaps
          /\ override' = [override EXCEPT ![n] = flag]
          /\ tags' = [tags EXCEPT ![n] = G]
    /\ UNCHANGED <<rows, maps, groups, req>>

(* The rows of the CTE `descendants`: it does not leave n's map.           *)
Branch(n) ==
    {d \in live : \A S \in SUBSET live :
        n \in S /\ (\A x \in OnMap(mapOf[n]) : parent[x] \in S => x \in S) => d \in S}

(* moveNode on one map.                                                    *)
MoveNode(c) ==
    /\ \E n \in live, p \in live \union {NULL} :
          /\ MayEdit(c, mapOf[n]) /\ p \in (OnMap(mapOf[n]) \ Branch(n)) \union {NULL}
          /\ parent' = [parent EXCEPT ![n] = p]
    /\ UNCHANGED <<live, mapOf, nextId, maps, groups, marks, req>>

(* moveNode to another map, in one transaction: the branch loses its tags, *)
(* its edges stay where they are.  Without a newParentId the node keeps    *)
(* its parent, on whichever map that is.                                   *)
RelocateNode(c) ==
    /\ \E n \in live, d \in LiveMaps \union {Elsewhere}, p \in live \union {NULL} :
          LET S == Branch(n) IN
          /\ MayEdit(c, mapOf[n]) /\ d # mapOf[n]
          /\ IF d = Elsewhere THEN c \in Admins ELSE MayEdit(c, d)
          /\ p \in OnMap(d) \union {NULL, parent[n]}
          /\ parent' = [parent EXCEPT ![n] = p]
          /\ mapOf' = [x \in live |-> IF x \in S THEN d ELSE mapOf[x]]
          /\ tags' = [x \in live |-> IF x \in S THEN {} ELSE tags[x]]
    /\ UNCHANGED <<live, nextId, override, maps, groups, req>>

-----------------------------------------------------------------------------
(* Reads of maps.                                                          *)

ListMaps(c) == Ask(c, Reply("maps", {m \in LiveMaps : MayView(c, m)}, {}, {}))

(* The permission getMap answers with, and refuses on: it does not count   *)
(* the levels "moderate" and "admin" when they are public.                 *)
GetMap(c) ==
    \E m \in LiveMaps :
       /\ \/ owner[m] = c
          \/ Grants(m, c, VIEWING)
          \/ Grants(m, PUBLIC, {"view", "comment", "edit"})
       /\ Ask(c, Reply("maps", {m}, {}, {}))

-----------------------------------------------------------------------------
(* Reads of nodes (NodeController).                                        *)

(* ?parentId=: absent, empty or a number.                                  *)
Filters(m) == {OnMap(m)} \union {{n \in OnMap(m) : parent[n] = p} : p \in Ids \union {NULL}}

(* Parents that are not rows of the answer are left out.                   *)
ListNodes(c) ==
    \E m \in LiveMaps : \E F \in Filters(m) :
       LET N == Shown(c, m) \intersect F IN
       Ask(c, Reply("nodes", {m}, N, ParentsIn(N) \intersect N))

ListChildren(c) ==
    \E m \in LiveMaps, id \in Ids :
       LET N == {n \in Shown(c, m) : parent[n] = id} IN
       Ask(c, Reply("children", {m}, N, ParentsIn(N)))

(* The node first; unless the reader is an admin, its parent is asked for  *)
(* in a second statement.                                                  *)
GetNode(c) ==
    \E m \in LiveMaps : \E n \in Shown(c, m) :
       IF c \in Admins \/ parent[n] = NULL
         THEN Ask(c, Reply("nodes", {m}, {n}, ParentsIn({n})))
         ELSE Ask(c, [op |-> "parent", map |-> m, node |-> n, parent |-> parent[n]])

(* Mutant: the parent is named when the map may be viewed.                 *)
ShowParentUnchecked(c) ==
    LET r == req[c] IN
    /\ At(c, "parent")
    /\ Then(c, Reply("nodes", {r.map}, {r.node}, IF MayView(c, r.map) THEN {r.parent} ELSE {}))

(* An error of this statement hides the parent too.                        *)
ShowParent(c) ==
    LET r == req[c] IN
    /\ At(c, "parent")
    /\ \E P \in {Shown(c, r.map) \intersect {r.parent}, {}} :
          Then(c, Reply("nodes", {r.map}, {r.node}, P))

(* A reader follows nextCursor from page to page.  The depth and the       *)
(* parent of its rows are left out.                                        *)
GetSubtree(c) ==
    \E m \in LiveMaps, n \in live :
       Ask(c, [op |-> "page", map |-> m, node |-> n, cursor |-> 0, rows |-> {}])

(* The first PageLimit ids of S.                                           *)
FirstOf(S) == {n \in S : Cardinality({x \in S : x < n}) < PageLimit}

(* Mutant: the cursor is the row after the page.                           *)
NextPageSkipping(c) ==
    LET r    == req[c]
        N    == {n \in SubtreeRows(c, r.map, r.node) : n > r.cursor}
        page == FirstOf(N) IN
    /\ At(c, "page")
    /\ IF N # page
         THEN Then(c, [r EXCEPT !.cursor = CHOOSE n \in N \ page : \A x \in N \ page : n <= x,
                                !.rows = @ \union page])
         ELSE Then(c, Reply("subtree", {r.map}, r.rows \union page, {}))

(* SELECT ... WHERE id > cursor ORDER BY id LIMIT limit + 1: one row more  *)
(* than the page shows that there is another page, after its last row.     *)
NextPage(c) ==
    LET r    == req[c]
        N    == {n \in SubtreeRows(c, r.map, r.node) : n > r.cursor}
        page == FirstOf(N) IN
    /\ At(c, "page")
    /\ IF N # page
         THEN Then(c, [r EXCEPT !.cursor = CHOOSE n \in page : \A x \in page : x <= n,
                                !.rows = @ \union page])
         ELSE Then(c, Reply("subtree", {r.map}, r.rows \union page, {}))

-----------------------------------------------------------------------------
(* Reads of edges and plots (EdgeController, PlotController).              *)

(* listEdges, getEdge: the map first.                                      *)
ListEdges(c) ==
    \E m \in LiveMaps, among \in {Edges} \union {{e} : e \in Edges} :
       MayView(c, m) /\ Ask(c, [op |-> "edges", map |-> m, among |-> among])

(* listEdgesForNode: the map, then the node, then its edges.               *)
ListEdgesForNode(c) ==
    \E m \in LiveMaps, n \in live :
       MayView(c, m) /\ Ask(c, [op |-> "node", map |-> m, node |-> n])

NodeChecked(c) ==
    LET r == req[c] IN
    /\ At(c, "node")
    /\ IF r.node \in Unhidden(c, r.map)
         THEN Then(c, [op |-> "edges", map |-> r.map, among |-> {e \in Edges : r.node \in EndsOf(e)}])
         ELSE Then(c, Idle)

ShowEdges(c) ==
    LET r == req[c] IN
    /\ At(c, "edges")
    /\ Then(c, Reply("edges", {r.map}, Ends(ShownEdges(c, r.map) \intersect r.among), {}))

(* Admins need no permission on the map here.  Rows come with parent_id as *)
(* it is.  A node that leaves the tenant leaves its plots.                 *)
ListMembers(c) ==
    LET N == {n \in PlotNodes \intersect live :
                mapOf[n] \in LiveMaps /\ (c \in Admins \/ n \in Shown(c, mapOf[n]))} IN
    Ask(c, Reply("plot", {mapOf[n] : n \in N}, N, ParentsIn(N)))

(* Which plots a node is in: asks for no permission on the map.            *)
ListPlotsForNode(c) ==
    \E m \in LiveMaps : \E n \in Unhidden(c, m) : Ask(c, Reply("plots", {m}, {n}, {}))

Done(c) == At(c, "answer") /\ Then(c, Idle)

-----------------------------------------------------------------------------
(* What c might be shown by a reading of the tables at one instant, by how *)
(* tags are handed down rather than by the code's walk upwards.            *)

(* The nodes that inherit from r: r, and the children of such a node that  *)
(* have no override of their own.                                          *)
Inherits(r) ==
    {d \in live : \A S \in SUBSET live :
        r \in S /\ (\A x \in live : ~override[x] /\ parent[x] \in S => x \in S) => d \in S}

Sees(c) ==
    {n \in live :
       /\ mapOf[n] \in LiveMaps
       /\ \/ Bypasses(c, mapOf[n])
          \/ \E r \in live : override[r] /\ Tagged(c, r) /\ n \in Inherits(r)}

(* The ends that edges of a map have elsewhere, for who bypasses the look  *)
(* at them.                                                                *)
Strays(c) ==
    {k \in LiveMaps \X live : Bypasses(c, k[1]) /\ k[2] \in Ends(EdgesOn(k[1])) \ OnMap(k[1])}

(* No node of m is more than MAX_NODE_DEPTH levels down.  A branch moved   *)
(* lower than that is beyond the walks of the CTEs.                        *)
Shallow(m) ==
    ~\E f \in [0 .. MAX_NODE_DEPTH + 1 -> live] :
        f[0] \in OnMap(m) /\ \A i \in 1 .. MAX_NODE_DEPTH + 1 : f[i] = parent[f[i - 1]]

(* The nodes under root that c reaches from it through nodes of the map    *)
(* that it sees.                                                           *)
Reaches(c, m, root) ==
    LET hidden == Subtree(root) \ (Sees(c) \intersect OnMap(m)) IN
    IF MayView(c, m) /\ root \in OnMap(m) /\ Shallow(m)
      THEN Subtree(root) \ UNION {Subtree(x) : x \in hidden}
      ELSE {}

Observe ==
    saw' = [c \in Users |->
      LET now  == [maps   |-> {m \in LiveMaps : MayView(c, m)},
                   nodes  |-> Sees(c),
                   strays |-> Strays(c),
                   kept   |-> IF At(c, "page") THEN Reaches(c, req[c].map, req[c].node) ELSE {}]
          was  == saw[c]
      IN  IF At(c, "none")' THEN Nothing
          ELSE IF At(c, "none") THEN now'
          ELSE [maps   |-> was.maps \union now.maps',
                nodes  |-> was.nodes \union now.nodes',
                strays |-> was.strays \union now.strays',
                kept   |-> IF At(c, "page") /\ At(c, "page")'
                             THEN was.kept \intersect now.kept' ELSE was.kept]]

Write(c) ==
    \/ CreateMap(c) \/ UpdateMap(c) \/ DeleteMap(c)
    \/ SetPermission(c) \/ RemovePermission(c)
    \/ CreateGroup(c) \/ UpdateGroup(c) \/ DeleteGroup(c)
    \/ AddMember(c) \/ RemoveMember(c)
    \/ SetVisibility(c) \/ MoveNode(c) \/ RelocateNode(c)

Read(c) ==
    \/ ListMaps(c) \/ GetMap(c)
    \/ ListNodes(c) \/ ListChildren(c) \/ GetNode(c) \/ ShowParent(c)
    \/ GetSubtree(c) \/ NextPage(c)
    \/ ListEdges(c) \/ ListEdgesForNode(c) \/ NodeChecked(c) \/ ShowEdges(c)
    \/ ListMembers(c) \/ ListPlotsForNode(c)

(* An answer is out of the server's hands: it is taken before all else.    *)
Next ==
    /\ \/ \E c \in Users : Done(c)
       \/ (\A c \in Users : ~At(c, "answer")) /\ \E c \in Users : Write(c) \/ Read(c)
    /\ Observe

Spec == Init /\ [][Next]_vars

-----------------------------------------------------------------------------
Hist == [maps : SUBSET Maps, nodes : SUBSET Ids, strays : SUBSET (Maps \X Ids), kept : SUBSET Ids]

(* Every row belongs to rows that exist.                                   *)
TypeOK ==
    /\ live \subseteq Ids /\ nextId = MaxNodeId + 1
    /\ parent \in [live -> live \union {NULL}] /\ mapOf \in [live -> LiveMaps \union {Elsewhere}]
    /\ owner \in [LiveMaps -> Users] /\ LiveMaps \subseteq Maps \intersect (1 .. nextMap - 1)
    /\ nextMap \in 1 .. MaxMapId + 1 /\ xray \subseteq LiveMaps
    /\ grant \in [DOMAIN grant -> AllLevels]
    /\ DOMAIN grant \subseteq LiveMaps \X (Users \union {PUBLIC})
    /\ manages \in [Groups -> BOOLEAN] /\ Groups \subseteq GroupIds \intersect (1 .. nextGroup - 1)
    /\ nextGroup \in 1 .. MaxGroupId + 1 /\ members \subseteq Groups \X Users
    /\ override \in [live -> BOOLEAN] /\ tags \in [live -> SUBSET Groups]
    /\ req \in [Users -> Requests] /\ saw \in [Users -> Hist]

Answered(c) == At(c, "answer")

(* Every row an answer names is of a map the reader might view, and is a   *)
(* node it might see, at some instant since it asked; only the plots of a  *)
(* node, and a plot's members for an admin, are told without asking for    *)
(* the map.  The one thing more that is told is the end of an edge that    *)
(* has left the edge's map, on another map or in another tenant: to admins *)
(* and to an owner who x-rays the edge's map, whom edges are shown to      *)
(* without a look at their ends.                                           *)
AnswersWereSeen ==
    \A c \in Users : Answered(c) =>
       /\ \A n \in req[c].rows \ saw[c].nodes :
             req[c].kind = "edges" /\ \E m \in req[c].maps : <<m, n>> \in saw[c].strays
       /\ \/ req[c].maps \subseteq saw[c].maps
          \/ req[c].rows = {} /\ req[c].kind # "maps"
          \/ req[c].kind = "plots"
          \/ req[c].kind = "plot" /\ c \in Admins

(* An answer of listNodes or getNode names no parent the reader could not  *)
(* see itself, wherever moves have left it.  Admins are told parent_id as  *)
(* it is.                                                                  *)
HiddenParentsUnnamed ==
    \A c \in Users \ Admins :
       Answered(c) /\ req[c].kind = "nodes" => req[c].parents \subseteq saw[c].nodes

(* A reader who pages through a subtree gets every node that was all the   *)
(* time in it and on the map, unless the map's tree was once too deep for  *)
(* the walks.                                                              *)
PagesMissNothing ==
    \A c \in Users : Answered(c) /\ req[c].kind = "subtree" => saw[c].kept \subseteq req[c].rows

(* When rows of groups, members, tags and permissions only go, nobody is   *)
(* shown a node that was hidden.                                           *)
OnlyTakesAway ==
    /\ <<members, tags, grant, xray>>' # <<members, tags, grant, xray>>
    /\ UNCHANGED <<rows, override, owner>>
    /\ xray' \subseteq xray /\ members' \subseteq members
    /\ \A n \in live : tags'[n] \subseteq tags[n]
    /\ \A k \in DOMAIN grant' : k \in DOMAIN grant /\ grant'[k] = grant[k]

TakingAwayHides ==
    [][OnlyTakesAway => \A c \in Users, m \in LiveMaps : Shown(c, m)' \subseteq Shown(c, m)]_vars
=============================================================================
