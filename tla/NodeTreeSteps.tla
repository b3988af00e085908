--------------------------- MODULE NodeTreeSteps ---------------------------
(***************************************************************************)
(* What a step of NodeTree may do, proved: it is a step of Forest, it      *)
(* changes only maps its client may edit, it takes a node to another       *)
(* tenant only for an admin in both, and a create adds no row below the    *)
(* depth cap.  The checks of a request lie several statements before its   *)
(* writes; SafeInv of NodeTreeProofs, AccessInv and CapInv say what of     *)
(* them still holds when it writes.                                        *)
(***************************************************************************)
EXTENDS NodeTreeProofs, Recursion

-----------------------------------------------------------------------------
(* NodeTree implements Forest when moves keep apart and name their parent. *)

(* A cascading DELETE and a subtree of the forest are the same rows.        *)
LEMMA SameSubtree ==
    ASSUME NEW n \in live
    PROVE  Abstract!Subtree(n) = Subtree(n, live)
BY DEF Abstract!Subtree, Subtree

(* Where parents are on their children's map, what a move reads map by map  *)
(* is the whole subtree.                                                    *)
LEMMA SubtreeOnOneMap ==
    ASSUME ParentOnSameMap, NEW n \in live
    PROVE  Abstract!Subtree(n) = Descendants(n)
<1> DEFINE D == Descendants(n)
           W == Subtree(n, live)
<1>1. D = Subtree(n, OnMap(mapOf[n])) /\ OnMap(mapOf[n]) \subseteq live
  BY DEF Descendants, OnMap
<1>2. n \in D /\ D \subseteq live /\ \A d \in D : mapOf[d] = mapOf[n]
  BY DescendantsHaveParents
<1>3. \A x \in live : parent[x] \in D => x \in D
  <2>1. ASSUME NEW x \in live, parent[x] \in D PROVE x \in D
    <3>1. x \in OnMap(mapOf[n])
      BY <1>2, <2>1 DEF ParentOnSameMap, OnMap
    <3>2. QED
      BY <1>1, <2>1, <3>1, SubtreeHasChildren
  <2>2. QED
    BY <2>1
<1>4. W \subseteq D
  BY <1>2, <1>3 DEF Subtree
<1>5. D \subseteq W
  BY <1>1 DEF Subtree, OnMap
<1>6. QED
  BY <1>4, <1>5, SameSubtree

(* A create that inserts grafts one row: its parent is on the map of the    *)
(* request, or gone, and the foreign key excludes "gone".                   *)
LEMMA CreateGrafts ==
    ASSUME SafeInv, NEW c \in Clients, CreateInsert(c), ~UNCHANGED tree
    PROVE  Abstract!ForestNext
<1> DEFINE r == req[c]
           P == [x \in {nextId} |-> r.par]
<1>1. /\ r \in Requests /\ References(r.par) /\ nextId \notin live /\ nextId # NULL
      /\ nextId' = nextId + 1
  BY CreateInsertRow DEF SafeInv
<1>2. r.op = "create" /\ r.pc = "insert" /\ Ready(r) /\ nextId \in Ids /\ InsertRows(P, r.map)
  BY DEF SafeInv, CreateInsert, At
<1>3. nextId \in Nat /\ MaxNodeId \in Nat /\ nextId' \in (nextId + 1) .. (MaxNodeId + 1)
  BY <1>1, <1>2, NodeTreeAssumption DEF Ids, SafeInv, TypeInv, TypeOK
<1>4. r.map \in Maps /\ r.par \in live \union {NULL} /\ r.par # nextId
  BY <1>1 DEF Requests, References
<1>5. r.par \in Abstract!OnMap(r.map) \union {Abstract!NULL}
  BY <1>2, <1>4 DEF Ready, CreateReady, Abstract!OnMap, Abstract!NULL, NULL
<1>6. Abstract!IsTree(P, r.par)
  BY <1>4 DEF Abstract!IsTree
<1>7. /\ DOMAIN P = {nextId} /\ DOMAIN P # {}
      /\ DOMAIN P \subseteq nextId .. (nextId' - 1)
      /\ P \in [DOMAIN P -> DOMAIN P \union {r.par}]
  BY <1>1, <1>3
<1> HIDE DEF P, r
<1>8. Abstract!Graft(P, r.map, r.par)
  BY <1>2, <1>5, <1>6, <1>7 DEF Abstract!Graft, InsertRows
<1>9. QED
  BY <1>3, <1>4, <1>7, <1>8 DEF Abstract!ForestNext, Abstract!NULL, NULL

(* A copy that commits grafts a tree, whatever has become of its source.    *)
LEMMA CopyGrafts ==
    ASSUME SafeInv, RowsInv, NEW c \in Clients, CopyCommit(c), ~UNCHANGED tree
    PROVE  Abstract!ForestNext
<1> DEFINE r == req[c]
           k == Cardinality(r.desc)
<1>1. r \in Requests /\ r.op = "copy" /\ r.pc = "commit" /\ References(r.par)
  BY CopyCommitRows DEF SafeInv
<1>2. PICK b \in IdMaps(r) :
               /\ InsertRows(CopiedParents(r, b), r.dest)
               /\ DOMAIN CopiedParents(r, b) = {b[y] : y \in r.desc}
               /\ \A y \in r.desc :
                     /\ b[y] \notin Known /\ b[y] # NULL
                     /\ CopiedParents(r, b)[b[y]] = IF y = r.node THEN r.par ELSE b[r.links[y]]
                     /\ y # r.node => r.links[y] \in r.desc
  BY CopyCommitRows DEF SafeInv
<1>3. r.node \in r.desc /\ nextId' = nextId + k /\ nextId + k - 1 \in Ids /\ Ready(r)
  BY <1>1 DEF CopyCommit, RowsInv, RootInside, SafeInv
<1>4. k \in Nat /\ nextId \in Nat /\ MaxNodeId \in Nat
  BY <1>1, IdsFinite, NodeTreeAssumption DEF Requests, SafeInv, TypeInv, TypeOK
<1> DEFINE P == CopiedParents(r, b)
           new == {b[y] : y \in r.desc}
<1>5. DOMAIN P = new
  BY <1>2
<1>6. \A y \in r.desc : b[y] \in nextId .. (nextId + k - 1)
  BY DEF IdMaps
<1>7. \A y \in r.desc \ {r.node} : b[r.links[y]] < b[y]
  BY DEF IdMaps
<1>8. new # {} /\ new \subseteq nextId .. (nextId' - 1)
  BY <1>3, <1>4, <1>6
<1>9. nextId' \in (nextId + 1) .. (MaxNodeId + 1)
  BY <1>3, <1>4, <1>6 DEF Ids
<1>10. /\ r.dest \in Maps /\ r.par \in live \union {NULL}
       /\ r.par \in live => mapOf[r.par] = r.dest
  BY <1>1, <1>3 DEF Requests, References, Ready, CopyReady
<1>11. r.par \in Abstract!OnMap(r.dest) \union {Abstract!NULL}
  BY <1>10 DEF Abstract!OnMap, Abstract!NULL, NULL
<1>12. r.par \notin new
  BY <1>2, <1>10 DEF SafeInv, TypeInv, TypeOK
<1>13. ASSUME NEW x \in new \ {b[r.node]} PROVE P[x] \in new /\ P[x] < x
  BY <1>2, <1>7
<1>14. b[r.node] \in new /\ P[b[r.node]] = r.par
  BY <1>2, <1>3
<1>15. P \in [new -> new \union {r.par}]
  <2>1. \A x \in new : P[x] \in new \union {r.par}
    BY <1>13, <1>14
  <2>2. P = [x \in DOMAIN P |-> P[x]]
    BY DEF CopiedParents
  <2> HIDE DEF P, new
  <2>3. QED
    BY <1>5, <2>1, <2>2
<1>16. InsertRows(P, r.dest)
  BY <1>2
<1> HIDE DEF P, new, r, k
<1>17. Abstract!IsTree(P, r.par)
  BY <1>5, <1>12, <1>13, <1>14 DEF Abstract!IsTree
<1>18. Abstract!Graft(P, r.dest, r.par)
  BY <1>5, <1>8, <1>11, <1>16, <1>17 DEF Abstract!Graft, InsertRows
<1>19. new \in SUBSET (nextId .. (nextId' - 1))
  BY <1>8
<1>20. QED
  BY <1>9, <1>10, <1>15, <1>18, <1>19 DEF Abstract!ForestNext, Abstract!NULL, NULL

LEMMA DeleteDrops ==
    ASSUME NEW c \in Clients, DeleteNode(c)
    PROVE  Abstract!ForestNext
<1>1. PICK n \in live : DeleteRows(Subtree(n, live)) /\ nextId' = nextId
  BY DEF DeleteNode, OnMap
<1>2. Abstract!Drop(n)
  BY <1>1, SameSubtree DEF Abstract!Drop, DeleteRows
<1>3. QED
  BY <1>2 DEF Abstract!ForestNext

(* A move on one map attaches: the subtree it read is still the subtree.    *)
LEMMA MoveAttaches ==
    ASSUME SafeInv, NEW c \in Clients, MoveApply(c), ~UNCHANGED tree
    PROVE  Abstract!ForestNext
<1> DEFINE r == req[c]
<1>1. /\ At(c, "move", "apply") /\ r.dest = r.map /\ Answer(c)
      /\ live' = live /\ mapOf' = mapOf /\ tags' = tags /\ nextId' = nextId
      /\ parent' # parent
  BY DEF MoveApply, tree
<1>2. MoveReady(r) /\ r.op = "move" /\ r.pc = "apply" /\ r.par \notin Descendants(r.node)
  BY <1>1, MoveStillReady
<1>3. /\ r.node \in live /\ r.par \in live \union {NULL}
      /\ parent' = [parent EXCEPT ![r.node] = r.par]
  BY <1>1 DEF MoveApply, SetParent, ParentAccepted, References
<1>4. r.par \in live => mapOf[r.par] = mapOf[r.node]
  BY <1>1, <1>2, <1>3 DEF MoveReady
<1>5. Abstract!Subtree(r.node) = Descendants(r.node)
  BY <1>3, SubtreeOnOneMap DEF SafeInv, Shape
<1>6. Abstract!Attach(r.node, r.par)
  BY <1>1, <1>2, <1>3, <1>4, <1>5 DEF Abstract!Attach, Abstract!OnMap, Abstract!NULL, NULL
<1> HIDE DEF r
<1>7. QED
  BY <1>3, <1>6 DEF Abstract!ForestNext, Abstract!NULL, NULL

(* A move across maps relocates the whole subtree and no other row.         *)
LEMMA MoveRelocates ==
    ASSUME SafeInv, NEW c \in Clients, MoveCommit(c), ~UNCHANGED tree
    PROVE  Abstract!ForestNext
<1> DEFINE r == req[c]
<1>1. /\ At(c, "move", "apply") /\ Answer(c) /\ r.dest # r.map
      /\ live' = live /\ nextId' = nextId
  BY DEF MoveCommit
<1>2. /\ r \in Requests /\ MoveReady(r) /\ r.op = "move" /\ r.pc = "apply"
      /\ r.desc \intersect live = Descendants(r.node)
  BY <1>1, MoveStillReady
<1>3. /\ r.node \in live /\ mapOf[r.node] = r.map /\ r.dest \in Maps
      /\ r.par \in live \union {NULL} /\ r.par # Omitted
      /\ r.par \in live => mapOf[r.par] = r.dest
  <2>1. r.node \in live /\ ParentAccepted(r)
    BY <1>1, GoneMovesNothing DEF MoveCommit, tree
  <2>2. r.par # Omitted
    BY <1>1, <1>2 DEF MoveReady
  <2>3. QED
    BY <1>2, <2>1, <2>2 DEF ParentAccepted, References, MoveReady, Requests
<1>4. /\ mapOf' = [x \in live |-> IF x \in r.desc THEN r.dest ELSE mapOf[x]]
      /\ SetParent(r.node, r.par)
  BY <1>1 DEF MoveCommit, tree
<1>5. parent' = [parent EXCEPT ![r.node] = r.par]
  BY <1>3, <1>4 DEF SetParent
<1>6. Abstract!Subtree(r.node) = r.desc \intersect live
  BY <1>2, <1>3, SubtreeOnOneMap DEF SafeInv, Shape
<1>7. Abstract!Relocate(r.node, r.dest, r.par)
  BY <1>1, <1>3, <1>4, <1>5, <1>6 DEF Abstract!Relocate, Abstract!OnMap, Abstract!NULL, NULL
<1> HIDE DEF r
<1>8. QED
  BY <1>3, <1>7 DEF Abstract!ForestNext, Abstract!NULL, NULL

(* Every step of the handlers is a step of the forest or none.              *)
LEMMA StepIsForestStep ==
    SafeMode /\ SafeInv /\ RowsInv /\ [Next]_vars => [Abstract!ForestNext]_(Abstract!rows)
<1> SUFFICES ASSUME SafeInv, RowsInv, [Next]_vars
             PROVE  Abstract!ForestNext \/ UNCHANGED Abstract!rows
  OBVIOUS
<1>1. CASE UNCHANGED tree
  BY <1>1 DEF tree, Abstract!rows
<1>2. ASSUME NEW c \in Clients, Request(c) \/ Handle(c) \/ DbError(c), ~UNCHANGED tree
      PROVE  Abstract!ForestNext \/ UNCHANGED Abstract!rows
  <2>1. CASE VisibilityCommit(c)
    BY <2>1 DEF VisibilityCommit, Abstract!rows
  <2>2. QED
    BY <1>2, <2>1, OnlyWritersWrite, CreateGrafts, CopyGrafts, DeleteDrops, MoveAttaches,
       MoveRelocates
<1>3. QED
  BY <1>1, <1>2 DEF Next, vars, tree

(* The tree that the handlers keep, each with its checks and its writes in  *)
(* statements of their own, is a forest that changes by whole grafts,       *)
(* attachments, relocations and drops: with moves kept apart, every other   *)
(* interleaving of the handlers has the effect of atomic operations.        *)
THEOREM ImplementsTheForest == SafeMode => (Spec => ImplementsForest)
<1>1. Init => Abstract!ForestInit
  BY DEF Init, Abstract!ForestInit, NULL, Abstract!NULL
<1>2. SafeMode /\ SafeInv /\ RowsInv /\ [Next]_vars => [Abstract!ForestNext]_(Abstract!rows)
  BY StepIsForestStep
<1>3. SafeMode => []SafeMode
  OBVIOUS
<1>4. QED
  BY <1>1, <1>2, <1>3, SafeAlways, RowsAlways, PTL DEF Spec, ImplementsForest, Abstract!ForestSpec

-----------------------------------------------------------------------------
(* Who changes which map.                                                  *)

(* What the checks of a handler established about its caller.               *)
Cleared(c, r) ==
    /\ r.op \in {"create", "move", "copy"} => r.map \in Edits[c] /\ r.dest \in Edits[c]
    /\ r.op = "move" /\ TenantOf[r.dest] # TenantOf[r.map] =>
          ActsAsAdmin(c, TenantOf[r.map]) /\ TenantOf[r.dest] \in Admins[c]

AccessInv == \A c \in Clients : Cleared(c, req[c])

LEMMA IdleCleared == \A c \in Clients : Cleared(c, Idle)
BY IdleType DEF Cleared

(* A continuation keeps what the request was cleared for.                   *)
LEMMA Continues ==
    ASSUME TypeInv, AccessInv, NEW c \in Clients, NEW r, Begin(c, r), Cleared(c, r)
    PROVE  AccessInv'
BY DEF Begin, AccessInv, Cleared, ActsAsAdmin, TypeInv, TypeOK

LEMMA AccessNext == TypeInv /\ AccessInv /\ [Next]_vars => AccessInv'
<1> SUFFICES ASSUME TypeInv, AccessInv, [Next]_vars PROVE AccessInv'
  OBVIOUS
<1>1. ASSUME NEW c \in Clients, Answer(c) PROVE AccessInv'
  <2>1. Begin(c, Idle)
    BY <1>1 DEF Answer, Begin
  <2>2. QED
    BY <2>1, IdleCleared, Continues
<1>2. ASSUME NEW c \in Clients, NEW pc, GoTo(c, pc), req[c] # Idle PROVE AccessInv'
  <2>1. req[c] \in Requests /\ Cleared(c, req[c])
    BY <1>2 DEF TypeInv, TypeOK, AccessInv
  <2>2. Begin(c, [req[c] EXCEPT !.pc = pc])
    BY <1>2, <2>1 DEF GoTo, Begin, TypeInv, TypeOK
  <2>3. Cleared(c, [req[c] EXCEPT !.pc = pc])
    BY <2>1 DEF Cleared, Requests
  <2>4. QED
    BY <2>2, <2>3, Continues
<1>3. ASSUME NEW c \in Clients, CreateNode(c) PROVE AccessInv'
  <2>1. PICK m \in Maps, p \in live \union {NULL} :
               /\ m \in Edits[c]
               /\ Start(c, [Idle EXCEPT !.op = "create", !.map = m, !.dest = m, !.par = p,
                                        !.pc = IF p = NULL THEN "count" ELSE "parent"])
    BY <1>3 DEF CreateNode
  <2> DEFINE r == [Idle EXCEPT !.op = "create", !.map = m, !.dest = m, !.par = p,
                               !.pc = IF p = NULL THEN "count" ELSE "parent"]
  <2>2. r.op = "create" /\ r.map = m /\ r.dest = m
    BY IdleType
  <2>3. Begin(c, r)
    BY <2>1 DEF Start
  <2> HIDE DEF r
  <2>4. QED
    BY <2>1, <2>2, <2>3, Continues DEF Cleared
<1>4. ASSUME NEW c \in Clients, NEW op \in {"move", "copy"}, StartRelocation(c, op)
      PROVE  AccessInv'
  <2>1. PICK n \in live, m \in Maps, d \in Maps, p \in live \union {NULL, Omitted} :
               /\ m \in Edits[c] /\ MayPlace(c, m, d)
               /\ Start(c, [Idle EXCEPT !.op = op, !.node = n, !.map = m, !.dest = d,
                                        !.par = IF op = "copy" /\ p = Omitted THEN NULL ELSE p,
                                        !.pc = ParentStep(p)])
    BY <1>4 DEF StartRelocation
  <2> DEFINE r == [Idle EXCEPT !.op = op, !.node = n, !.map = m, !.dest = d,
                               !.par = IF op = "copy" /\ p = Omitted THEN NULL ELSE p,
                               !.pc = ParentStep(p)]
  <2>2. r.op = op /\ r.map = m /\ r.dest = d
    BY IdleType
  <2>3. Begin(c, r)
    BY <2>1 DEF Start
  <2> HIDE DEF r
  <2>4. QED
    BY <2>1, <2>2, <2>3, Continues DEF Cleared, MayPlace
<1>5. ASSUME NEW c \in Clients, SetVisibility(c) PROVE AccessInv'
  <2>1. PICK m \in Maps, n \in live, G \in SUBSET Groups :
               Start(c, [Idle EXCEPT !.op = "setvis", !.pc = "commit", !.node = n,
                                     !.map = m, !.dest = m, !.groups = G])
    BY <1>5 DEF SetVisibility, OnMap
  <2> DEFINE r == [Idle EXCEPT !.op = "setvis", !.pc = "commit", !.node = n,
                               !.map = m, !.dest = m, !.groups = G]
  <2>2. r.op = "setvis"
    BY IdleType
  <2>3. Begin(c, r)
    BY <2>1 DEF Start
  <2> HIDE DEF r
  <2>4. QED
    BY <2>2, <2>3, Continues DEF Cleared
<1>6. ASSUME NEW c \in Clients, MoveSubtree(c) \/ CopySubtree(c) PROVE AccessInv'
  <2>1. req[c] \in Requests /\ Cleared(c, req[c])
    BY <1>6, IdleType DEF MoveSubtree, CopySubtree, At, TypeInv, TypeOK, AccessInv
  <2> DEFINE D == Descendants(req[c].node)
             moved  == [req[c] EXCEPT !.pc = "apply", !.desc = D]
             copied == [req[c] EXCEPT !.pc = "count", !.desc = D,
                                      !.links = [x \in Ids |-> IF x \in D THEN parent[x] ELSE NULL]]
  <2>2. Answer(c) \/ Begin(c, moved) \/ Begin(c, copied)
    BY <1>6 DEF MoveSubtree, CopySubtree
  <2>3. Cleared(c, moved) /\ Cleared(c, copied)
    BY <2>1 DEF Cleared, Requests
  <2> HIDE DEF moved, copied
  <2>4. QED
    BY <1>1, <2>2, <2>3, Continues
<1>7. ASSUME NEW c \in Clients, Request(c) PROVE AccessInv'
  <2>1. CASE DeleteNode(c)
    BY <2>1 DEF DeleteNode, AccessInv, Cleared, ActsAsAdmin
  <2>2. QED
    BY <1>3, <1>4, <1>5, <1>7, <2>1 DEF Request, MoveNode, CopyNode
<1>8. ASSUME NEW c \in Clients, Handle(c) PROVE AccessInv'
  <2>1. \A op \in {"create", "move", "copy"} : \A pc : At(c, op, pc) => req[c] # Idle
    BY IdleType DEF At
  <2>2. CASE CreateParent(c) \/ CreateCount(c) \/ CreateInsert(c)
    BY <1>1, <1>2, <2>1, <2>2 DEF CreateParent, CreateCount, CreateInsert
  <2>3. CASE MoveParent(c) \/ CopyParent(c) \/ CopyCount(c)
    BY <1>1, <1>2, <2>1, <2>3 DEF MoveParent, CopyParent, CheckParent, CopyCount
  <2>4. CASE MoveApply(c) \/ MoveCommit(c) \/ CopyCommit(c) \/ VisibilityCommit(c)
    BY <1>1, <2>4 DEF MoveApply, MoveCommit, CopyCommit, VisibilityCommit
  <2>5. QED
    BY <1>6, <1>8, <2>2, <2>3, <2>4 DEF Handle
<1>9. QED
  BY <1>1, <1>7, <1>8 DEF Next, DbError, vars, AccessInv, Cleared, ActsAsAdmin

SafeAccess == SafeInv /\ AccessInv

LEMMA SafeAccessAlways == SafeMode /\ Init /\ [][Next]_vars => []SafeAccess
<1>1. Init => AccessInv
  BY IdleCleared DEF Init, AccessInv
<1>2. SafeInv /\ AccessInv /\ [Next]_vars => AccessInv'
  BY AccessNext DEF SafeInv
<1>3. QED
  BY <1>1, <1>2, SafeAlways, PTL DEF SafeAccess

(* The maps whose content a step of c may change: those c was cleared for.  *)
LEMMA ChangesOwnMaps ==
    ASSUME SafeAccess, NEW c \in Clients, ~UNCHANGED tree,
           \/ CreateInsert(c) \/ CopyCommit(c) \/ DeleteNode(c) \/ MoveApply(c)
           \/ MoveCommit(c) \/ VisibilityCommit(c),
           NEW m \in Maps, Content(m)' # Content(m)
    PROVE  m \in Edits[c]
<1> DEFINE r == req[c]
<1>1. TypeInv /\ ParentOnSameMap /\ Cleared(c, r)
  BY DEF SafeAccess, SafeInv, Shape, AccessInv
<1>2. ASSUME NEW P, NEW d, InsertRows(P, d), DOMAIN P \intersect live = {}, m # d PROVE FALSE
  <2>1. \A n : n \in OnMap(m)' <=> n \in OnMap(m)
    BY <1>2 DEF InsertRows, OnMap
  <2>2. \A n \in OnMap(m) : parent'[n] = parent[n]
    BY <1>2 DEF InsertRows, OnMap
  <2>3. QED
    BY <2>1, <2>2 DEF Content
<1>3. CASE CreateInsert(c)
  <2>1. /\ InsertRows([x \in {nextId} |-> r.par], r.map) /\ nextId \notin live
        /\ r.op = "create"
    BY <1>1, <1>3, CreateInsertRow DEF CreateInsert, At
  <2>2. QED
    BY <1>1, <1>2, <2>1 DEF Cleared
<1>4. CASE CopyCommit(c)
  <2>1. r.op = "copy"
    BY <1>4 DEF CopyCommit, At
  <2>2. PICK b \in IdMaps(r) :
               /\ InsertRows(CopiedParents(r, b), r.dest)
               /\ DOMAIN CopiedParents(r, b) = {b[y] : y \in r.desc}
               /\ \A y \in r.desc : b[y] \notin Known
    BY <1>1, <1>4, CopyCommitRows
  <2>3. DOMAIN CopiedParents(r, b) \intersect live = {}
    BY <1>1, <2>2 DEF TypeInv, TypeOK
  <2>4. QED
    BY <1>1, <1>2, <2>1, <2>2, <2>3 DEF Cleared
<1>5. CASE DeleteNode(c)
  <2>1. PICK d \in Maps, n \in live :
               d \in Edits[c] /\ n \in OnMap(d) /\ DeleteRows(Subtree(n, live))
    BY <1>5 DEF DeleteNode, OnMap
  <2>2. n \in live /\ mapOf[n] = d
    BY <2>1 DEF OnMap
  <2>3. \A x \in Subtree(n, live) : mapOf[x] = d
    BY <1>1, <2>2, SameSubtree, SubtreeOnOneMap, DescendantsHaveParents
  <2>4. CASE m # d
    <3>1. \A x : x \in OnMap(m)' <=> x \in OnMap(m)
      BY <2>1, <2>3, <2>4 DEF DeleteRows, OnMap
    <3>2. \A x \in OnMap(m) : parent'[x] = parent[x]
      BY <2>1, <2>3, <2>4 DEF DeleteRows, OnMap
    <3>3. QED
      BY <3>1, <3>2 DEF Content
  <2>5. QED
    BY <2>1, <2>4
<1>6. CASE MoveApply(c) \/ MoveCommit(c)
  <2>1. /\ At(c, "move", "apply") /\ Answer(c) /\ live' = live
    BY <1>6 DEF MoveApply, MoveCommit
  <2>2. /\ MoveReady(r) /\ r.op = "move"
        /\ r.dest # r.map => r.desc \intersect live = Descendants(r.node)
    BY <2>1, MoveStillReady DEF SafeAccess
  <2>3. /\ r.node \in live => mapOf[r.node] = r.map
        /\ r.dest # r.map => \A x \in r.desc \intersect live : mapOf[x] = r.map
    BY <2>2, DescendantsHaveParents DEF MoveReady
  <2>4. CASE m # r.map /\ m # r.dest
    <3>1. \A x \in live : x # r.node => parent'[x] = parent[x]
      BY <1>1, <1>6, <2>1 DEF MoveApply, MoveCommit, SetParent, TypeInv, TypeOK
    <3>2. \A x \in live : mapOf'[x] = m <=> mapOf[x] = m
      BY <1>6, <2>1, <2>3, <2>4 DEF MoveApply, MoveCommit
    <3>3. \A x : x \in OnMap(m)' <=> x \in OnMap(m)
      BY <2>1, <3>2 DEF OnMap
    <3>4. \A x \in OnMap(m) : parent'[x] = parent[x]
      BY <2>3, <2>4, <3>1 DEF OnMap
    <3>5. QED
      BY <3>3, <3>4 DEF Content
  <2>5. QED
    BY <1>1, <2>2, <2>4 DEF Cleared
<1>7. CASE VisibilityCommit(c)
  BY <1>7 DEF VisibilityCommit, Content, OnMap
<1>8. QED
  BY <1>3, <1>4, <1>5, <1>6, <1>7

EditorsOnly ==
    \A m \in Maps : Content(m)' # Content(m) =>
        \E c \in Clients : m \in Edits[c] /\ (Handle(c) \/ DeleteNode(c))

LEMMA EditorsStep == SafeAccess /\ [Next]_vars => EditorsOnly
<1> SUFFICES ASSUME SafeAccess, [Next]_vars, NEW m \in Maps, Content(m)' # Content(m)
             PROVE  \E c \in Clients : m \in Edits[c] /\ (Handle(c) \/ DeleteNode(c))
  BY DEF EditorsOnly
<1>1. ~UNCHANGED tree
  BY DEF tree, Content, OnMap
<1>2. PICK c \in Clients : Request(c) \/ Handle(c) \/ DbError(c)
  BY <1>1 DEF Next, vars, tree
<1>3. \/ CreateInsert(c) \/ CopyCommit(c) \/ DeleteNode(c)
      \/ MoveApply(c) \/ MoveCommit(c) \/ VisibilityCommit(c)
  BY <1>1, <1>2, OnlyWritersWrite
<1>4. m \in Edits[c]
  BY <1>1, <1>3, ChangesOwnMaps
<1>5. QED
  BY <1>3, <1>4 DEF Handle

(* With moves apart, the rows of a map and their parents change only by a   *)
(* request whose caller may edit that map, although edit access was read in *)
(* an earlier statement and a DELETE cascades without asking.               *)
THEOREM EditorsAlone == SafeMode => (Spec => OnlyEditorsChangeMaps)
<1>1. SafeAccess /\ [Next]_vars => [EditorsOnly]_vars
  BY EditorsStep
<1>2. SafeMode => []SafeMode
  OBVIOUS
<1>3. QED
  BY <1>1, <1>2, SafeAccessAlways, PTL DEF Spec, OnlyEditorsChangeMaps, EditorsOnly

CrossingByAdmins ==
    \A n \in live \intersect live' :
        LET from == TenantOf[mapOf[n]]
            to   == TenantOf[mapOf'[n]]
        IN  from # to => \E c \in Clients : /\ req[c].op = "move" /\ req'[c] = Idle
                                           /\ ActsAsAdmin(c, from) /\ to \in Admins[c]

LEMMA CrossingStep == SafeAccess /\ [Next]_vars => CrossingByAdmins
<1> SUFFICES ASSUME SafeAccess, [Next]_vars, NEW n \in live \intersect live',
                    TenantOf[mapOf[n]] # TenantOf[mapOf'[n]]
             PROVE  \E c \in Clients : /\ req[c].op = "move" /\ req'[c] = Idle
                                       /\ ActsAsAdmin(c, TenantOf[mapOf[n]])
                                       /\ TenantOf[mapOf'[n]] \in Admins[c]
  BY DEF CrossingByAdmins
<1>1. ~UNCHANGED tree
  BY DEF tree
<1>2. PICK c \in Clients : Request(c) \/ Handle(c) \/ DbError(c)
  BY <1>1 DEF Next, vars, tree
<1>3. \/ CreateInsert(c) \/ CopyCommit(c) \/ DeleteNode(c)
      \/ MoveApply(c) \/ MoveCommit(c) \/ VisibilityCommit(c)
  BY <1>1, <1>2, OnlyWritersWrite
<1>4. TypeInv /\ AccessInv
  BY DEF SafeAccess, SafeInv
<1>5. CASE CreateInsert(c)
  BY <1>1, <1>4, <1>5, CreateInsertRow
<1>6. CASE CopyCommit(c)
  <2>1. PICK b \in IdMaps(req[c]) :
               /\ InsertRows(CopiedParents(req[c], b), req[c].dest)
               /\ DOMAIN CopiedParents(req[c], b) = {b[y] : y \in req[c].desc}
               /\ \A y \in req[c].desc : b[y] \notin Known
    BY <1>1, <1>4, <1>6, CopyCommitRows
  <2>2. n \notin DOMAIN CopiedParents(req[c], b)
    BY <1>4, <2>1 DEF TypeInv, TypeOK
  <2>3. QED
    BY <2>1, <2>2 DEF InsertRows
<1>7. CASE MoveCommit(c)
  <2> DEFINE r == req[c]
  <2>1. At(c, "move", "apply") /\ Answer(c)
    BY <1>7 DEF MoveCommit
  <2>2. /\ MoveReady(r) /\ r.op = "move"
        /\ r.desc \intersect live = Descendants(r.node)
    BY <1>7, <2>1, MoveStillReady DEF MoveCommit, SafeAccess
  <2>3. \A x \in r.desc \intersect live : mapOf[x] = r.map
    BY <2>2, DescendantsHaveParents DEF MoveReady
  <2>4. n \in r.desc /\ mapOf'[n] = r.dest
    BY <1>7 DEF MoveCommit
  <2>5. req'[c] = Idle
    BY <1>4, <2>1 DEF Answer, TypeInv, TypeOK
  <2>6. Cleared(c, r)
    BY <1>4 DEF AccessInv
  <2>7. QED
    BY <2>2, <2>3, <2>4, <2>5, <2>6 DEF Cleared
<1>8. CASE DeleteNode(c) \/ MoveApply(c) \/ VisibilityCommit(c)
  BY <1>8 DEF DeleteNode, DeleteRows, MoveApply, VisibilityCommit
<1>9. QED
  BY <1>3, <1>5, <1>6, <1>7, <1>8

(* With moves apart, a node changes tenant only by the request of a client  *)
(* who acts as admin in the tenant it leaves and has an admin row in the    *)
(* other: no interleaving lets one of the two checks be of another tenant.  *)
THEOREM BothAdminsMove == SafeMode => (Spec => CrossTenantNeedsBothAdmins)
<1>1. SafeAccess /\ [Next]_vars => [CrossingByAdmins]_vars
  BY CrossingStep
<1>2. SafeMode => []SafeMode
  OBVIOUS
<1>3. QED
  BY <1>1, <1>2, SafeAccessAlways, PTL DEF Spec, CrossTenantNeedsBothAdmins, CrossingByAdmins

-----------------------------------------------------------------------------
(* The depth cap.                                                          *)

(* Climbing N steps from n over the rows L with parents P, as Chain does.  *)
Up(L, P, n, N) ==
    LET up[k \in 0 .. N] == IF k = 0 THEN n
                            ELSE IF up[k - 1] \in L THEN P[up[k - 1]]
                            ELSE NULL
    IN  up

LEMMA UpUnfolds ==
    ASSUME NEW L, NULL \notin L, NEW P \in [L -> L \union {NULL}],
           NEW n \in L \union {NULL}, NEW N \in Nat
    PROVE  /\ Up(L, P, n, N) \in [0 .. N -> L \union {NULL}]
           /\ Up(L, P, n, N)[0] = n
           /\ \A k \in 1 .. N :
                 Up(L, P, n, N)[k] = IF Up(L, P, n, N)[k - 1] \in L
                                     THEN P[Up(L, P, n, N)[k - 1]] ELSE NULL
<1> DEFINE D == L \union {NULL}
           F == [x \in D |-> IF x \in L THEN P[x] ELSE NULL]
           Eq(g) == g = [k \in 0 .. N |-> IF k = 0 THEN n
                                          ELSE IF g[k - 1] \in L THEN P[g[k - 1]]
                                          ELSE NULL]
           up == CHOOSE g : Eq(g)
<1>1. F \in [D -> D] /\ n \in D
  OBVIOUS
<1>2. PICK g : g \in Iterates(D, F, n, N)
  <2> HIDE DEF D, F
  <2>1. Iterates(D, F, n, N) # {}
    BY <1>1, Iteration
  <2>2. QED
    BY <2>1
<1>3. g \in [0 .. N -> D] /\ g[0] = n /\ \A k \in 1 .. N : g[k] = F[g[k - 1]]
  BY <1>2 DEF Iterates
<1>4. ASSUME NEW k \in 1 .. N PROVE g[k] = IF g[k - 1] \in L THEN P[g[k - 1]] ELSE NULL
  <2>1. k - 1 \in 0 .. N
    OBVIOUS
  <2>2. g[k - 1] \in D
    BY <1>3, <2>1
  <2>3. QED
    BY <1>3, <2>2
<1>5. Eq(g)
  <2>1. g = [k \in 0 .. N |-> g[k]]
    BY <1>3
  <2>2. \A k \in 0 .. N : g[k] = IF k = 0 THEN n
                                 ELSE IF g[k - 1] \in L THEN P[g[k - 1]] ELSE NULL
    BY <1>3, <1>4
  <2>3. QED
    BY <2>1, <2>2
<1>6. Eq(up)
  BY <1>5
<1>7. up[0] = n /\ \A k \in 1 .. N : up[k] = IF up[k - 1] \in L THEN P[up[k - 1]] ELSE NULL
  <2> HIDE DEF up
  <2>1. QED
    BY <1>6
<1>8. \A k \in 0 .. N : up[k] \in D
  <2> DEFINE T == {k \in 0 .. N : up[k] \notin D}
  <2>1. SUFFICES ASSUME T # {} PROVE FALSE
    OBVIOUS
  <2>2. PICK k \in T : \A y \in T : k <= y
    BY <2>1, Smallest, T \subseteq Nat
  <2>3. k # 0
    BY <1>7, <2>2
  <2>4. k \in 1 .. N /\ k - 1 \in 0 .. N /\ k - 1 \notin T
    BY <2>2, <2>3
  <2> HIDE DEF up
  <2>5. QED
    BY <1>7, <2>2, <2>4
<1>9. up \in [0 .. N -> D]
  <2> HIDE DEF up
  <2>1. up = [k \in 0 .. N |-> up[k]]
    BY <1>6
  <2> HIDE DEF D
  <2>2. QED
    BY <1>8, <2>1
<1>10. Up(L, P, n, N) = up
  BY DEF Up
<1> HIDE DEF up
<1>11. QED
  BY <1>7, <1>9, <1>10

(* A climb that has left the rows stays outside.                           *)
LEMMA UpEnds ==
    ASSUME NEW L, NULL \notin L, NEW P \in [L -> L \union {NULL}],
           NEW n \in L \union {NULL}, NEW N \in Nat,
           NEW i \in 0 .. N, Up(L, P, n, N)[i] = NULL, NEW j \in i .. N
    PROVE  Up(L, P, n, N)[j] = NULL
<1> DEFINE up == Up(L, P, n, N)
           T == {k \in i .. N : up[k] # NULL}
<1>1. SUFFICES ASSUME T # {} PROVE FALSE
  OBVIOUS
<1>2. PICK k \in T : \A y \in T : k <= y
  BY <1>1, Smallest, T \subseteq Nat
<1>3. k # i
  BY <1>2
<1>4. k \in 1 .. N /\ k - 1 \in i .. N /\ k - 1 \notin T
  BY <1>2, <1>3
<1>5. up[k - 1] = NULL
  BY <1>4
<1>6. QED
  BY <1>2, <1>4, <1>5, UpUnfolds

(* A row's climb is its parent's, one step later.                          *)
LEMMA UpOfParent ==
    ASSUME NEW L, NULL \notin L, NEW P \in [L -> L \union {NULL}],
           NEW n \in L, NEW N \in Nat, NEW j \in 1 .. N
    PROVE  Up(L, P, n, N)[j] = Up(L, P, P[n], N)[j - 1]
<1> DEFINE up == Up(L, P, n, N)
           vp == Up(L, P, P[n], N)
           T == {k \in 1 .. N : up[k] # vp[k - 1]}
<1>0. P[n] \in L \union {NULL}
  OBVIOUS
<1>1. SUFFICES ASSUME T # {} PROVE FALSE
  OBVIOUS
<1>2. PICK k \in T : \A y \in T : k <= y
  BY <1>1, Smallest, T \subseteq Nat
<1>3. /\ up[0] = n /\ \A x \in 1 .. N : up[x] = IF up[x - 1] \in L THEN P[up[x - 1]] ELSE NULL
      /\ vp[0] = P[n] /\ \A x \in 1 .. N : vp[x] = IF vp[x - 1] \in L THEN P[vp[x - 1]] ELSE NULL
  BY <1>0, UpUnfolds
<1> HIDE DEF up, vp
<1>4. k # 1
  BY <1>2, <1>3
<1>5. k \in 1 .. N /\ k - 1 \in 1 .. N /\ k - 1 \notin T
  BY <1>2, <1>4
<1>6. up[k - 1] = vp[k - 1 - 1]
  BY <1>5
<1>7. QED
  BY <1>2, <1>3, <1>5, <1>6

(* The climb from a row that stays is the same while rows keep their       *)
(* parents, whatever rows come and go.                                     *)
LEMMA UpIsKept ==
    ASSUME NEW L, NULL \notin L, NEW P \in [L -> L \union {NULL}],
           NEW L2, NULL \notin L2, NEW P2 \in [L2 -> L2 \union {NULL}],
           \A x \in L \intersect L2 : P2[x] = P[x],
           NEW n \in L \intersect L2, NEW N \in Nat, NEW j \in 0 .. N
    PROVE  Up(L2, P2, n, N)[j] = Up(L, P, n, N)[j]
<1> DEFINE up == Up(L, P, n, N)
           vp == Up(L2, P2, n, N)
           D == (L \intersect L2) \union {NULL}
           T == {k \in 0 .. N : vp[k] # up[k] \/ up[k] \notin D}
<1>1. SUFFICES ASSUME T # {} PROVE FALSE
  OBVIOUS
<1>2. PICK k \in T : \A y \in T : k <= y
  BY <1>1, Smallest, T \subseteq Nat
<1>3. /\ up[0] = n /\ \A x \in 1 .. N : up[x] = IF up[x - 1] \in L THEN P[up[x - 1]] ELSE NULL
      /\ vp[0] = n /\ \A x \in 1 .. N : vp[x] = IF vp[x - 1] \in L2 THEN P2[vp[x - 1]] ELSE NULL
  BY UpUnfolds
<1> HIDE DEF up, vp
<1>4. k # 0
  BY <1>2, <1>3
<1>5. k \in 1 .. N /\ k - 1 \in 0 .. N /\ k - 1 \notin T
  BY <1>2, <1>4
<1>6. vp[k - 1] = up[k - 1] /\ up[k - 1] \in D
  BY <1>5
<1>7. CASE up[k - 1] = NULL
  BY <1>2, <1>3, <1>5, <1>6, <1>7
<1>8. CASE up[k - 1] \in L \intersect L2
  <2>1. up[k] = P[up[k - 1]] /\ vp[k] = P[up[k - 1]] /\ P2[up[k - 1]] = P[up[k - 1]]
    BY <1>3, <1>5, <1>6, <1>8
  <2>2. P[up[k - 1]] \in D
    BY <1>8, <2>1
  <2>3. QED
    BY <1>2, <2>1, <2>2
<1>9. QED
  BY <1>6, <1>7, <1>8

LEMMA ChainIsUp ==
    ASSUME NEW n, NEW N
    PROVE  Chain(n, N) = Up(live, parent, n, N) /\ Chain(n, N)' = Up(live', parent', n, N)
BY DEF Chain, Up

LEMMA ParentsAreRows ==
    ASSUME TypeOK, NoOrphans
    PROVE  NULL \notin live /\ parent \in [live -> live \union {NULL}]
BY DEF TypeOK, Known, NULL, NoOrphans, References

LEMMA ParentsStayRows ==
    ASSUME TypeOK', NoOrphans'
    PROVE  NULL \notin live' /\ parent' \in [live' -> live' \union {NULL}]
<1>1. parent' \in [live' -> Known' \union {NULL}] /\ live' \subseteq Known' /\ nextId' \in Nat
  BY DEF TypeOK
<1>2. \A x \in live' : parent'[x] \in live' \union {NULL}
  BY DEF NoOrphans, References
<1>3. NULL \notin Known'
  BY <1>1 DEF Known, NULL
<1>4. QED
  BY <1>1, <1>2, <1>3

(* The walk upwards ends at the depth that createNode measures.            *)
LEMMA ShallowParent ==
    ASSUME TypeOK, NoOrphans, NEW n \in live, Depth(n) + 1 < MAX_NODE_DEPTH
    PROVE  Chain(n, MAX_NODE_DEPTH)[MAX_NODE_DEPTH - 1] = NULL
<1> DEFINE N == MAX_NODE_DEPTH
           up == Chain(n, N)
           S == {k \in 0 .. N : up[k] \in live /\ (k = N \/ up[k + 1] \notin live)}
           T == {k \in 0 .. N : up[k] \notin live}
<1>0. N \in Nat \ {0} /\ NULL \notin live /\ parent \in [live -> live \union {NULL}]
  BY NodeTreeAssumption, ParentsAreRows
<1>1. /\ up \in [0 .. N -> live \union {NULL}] /\ up[0] = n
      /\ \A k \in 1 .. N : up[k] = IF up[k - 1] \in live THEN parent[up[k - 1]] ELSE NULL
  BY <1>0, ChainIsUp, UpUnfolds
<1>2. S # {}
  <2> HIDE DEF up
  <2>1. CASE T = {}
    BY <1>0, <2>1
  <2>2. CASE T # {}
    <3>1. PICK m \in T : \A y \in T : m <= y
      BY <1>0, <2>2, Smallest, T \subseteq Nat
    <3>2. m # 0
      BY <1>1, <3>1
    <3>3. m - 1 \in 0 .. N /\ m - 1 \notin T /\ (m - 1) + 1 = m
      BY <1>0, <3>1, <3>2
    <3>4. m - 1 \in S
      BY <3>1, <3>3
    <3>5. QED
      BY <3>4
  <2>3. QED
    BY <2>1, <2>2
<1>3. Depth(n) = CHOOSE k \in 0 .. N : up[k] \in live /\ (k = N \/ up[k + 1] \notin live)
  BY DEF Depth
<1>4. Depth(n) \in S
  <2> HIDE DEF up
  <2>1. QED
    BY <1>2, <1>3
<1>5. PICK d : d = Depth(n)
  OBVIOUS
<1>6. d \in 0 .. N /\ d + 1 < N /\ up[d + 1] \notin live
  BY <1>0, <1>4, <1>5
<1>7. d + 1 \in 0 .. N /\ N - 1 \in (d + 1) .. N
  BY <1>0, <1>6
<1>8. up[d + 1] = NULL
  BY <1>1, <1>6, <1>7
<1>9. QED
  BY <1>0, <1>7, <1>8, ChainIsUp, UpEnds

(* Under this discipline the check of createNode outlives the wait for its *)
(* INSERT: no move runs beside it.                                         *)
CapMode == "create" \notin BesideMove \union BesideRelocation

CreatesApart == \A c, d \in Clients : req[c].op = "create" => req[d].op # "move"

(* A create past its depth check has a parent that is shallow enough.      *)
DepthReady(r) ==
    r.op = "create" =>
        /\ r.par \in Known \union {NULL}
        /\ r.pc \in {"count", "insert"} /\ r.par \in live =>
              Chain(r.par, MAX_NODE_DEPTH)[MAX_NODE_DEPTH - 1] = NULL

CapInv ==
    /\ TypeInv /\ NoOrphans
    /\ CreatesApart
    /\ \A c \in Clients : DepthReady(req[c])

LEMMA CreatesApartNext ==
    ASSUME CapMode, TypeInv, CreatesApart, [Next]_vars
    PROVE  CreatesApart'
<1> USE DEF CreatesApart
<1>0. DOMAIN req = Clients
  BY DEF TypeInv, TypeOK
<1>1. ASSUME NEW c \in Clients, NEW r, Begin(c, r), r.op = req[c].op PROVE CreatesApart'
  BY <1>0, <1>1 DEF Begin
<1>2. ASSUME NEW c \in Clients, NEW r \in Requests, Start(c, r) PROVE CreatesApart'
  <2>1. \A d \in Clients : req'[d] = IF d = c THEN r ELSE req[d]
    BY <1>0, <1>2 DEF Start, Begin
  <2>2. ASSUME NEW d \in Clients, req[d].op \in {"create", "move"}
        PROVE  /\ r.op = "move" => req[d].op # "create"
               /\ req[d].op = "move" => r.op # "create"
    <3>1. req[d] # Idle
      BY <2>2, IdleType
    <3>2. QED
      BY <1>2, <3>1 DEF Start, MayStart, Beside, CapMode
  <2>3. QED
    BY <2>1, <2>2
<1>3. ASSUME NEW c \in Clients, Answer(c) PROVE CreatesApart'
  BY <1>0, <1>3, IdleType DEF Answer
<1>4. ASSUME NEW c \in Clients, NEW pc, req[c].op # "none", GoTo(c, pc) PROVE CreatesApart'
  BY <1>1, <1>4, GoToRequest
<1>5. ASSUME NEW c \in Clients, Request(c) PROVE CreatesApart'
  <2>1. CASE CreateNode(c)
    BY <1>2, <2>1, CreateRequest
  <2>2. ASSUME NEW op \in {"move", "copy"}, StartRelocation(c, op) PROVE CreatesApart'
    <3>1. \E r \in Requests : Start(c, r)
      BY <2>2, RelocationRequest
    <3>2. QED
      BY <1>2, <3>1
  <2>3. CASE SetVisibility(c)
    BY <1>2, <2>3, SetvisRequest
  <2>4. QED
    BY <1>5, <2>1, <2>2, <2>3 DEF Request, MoveNode, CopyNode, DeleteNode
<1>6. ASSUME NEW c \in Clients, Handle(c) \/ DbError(c) PROVE CreatesApart'
  <2>1. CASE MoveSubtree(c)
    BY <1>1, <1>3, <2>1, MoveRead
  <2>2. CASE CopySubtree(c)
    BY <1>1, <1>3, <2>2, CopyRead
  <2>3. QED
    BY <1>3, <1>4, <1>6, <2>1, <2>2
    DEF Handle, DbError, At, CreateParent, CreateCount, CreateInsert, MoveParent, CheckParent,
        MoveApply, MoveCommit, CopyParent, CopyCount, CopyCommit, VisibilityCommit
<1>7. QED
  BY <1>5, <1>6 DEF Next, vars

(* What a create found out stays true while rows keep their parents.       *)
LEMMA DepthKept ==
    ASSUME TypeOK, NoOrphans, TypeOK', NoOrphans', NEW r, DepthReady(r),
           Known \subseteq Known', live' \intersect Known \subseteq live,
           \A x \in live \intersect live' : parent'[x] = parent[x]
    PROVE  DepthReady(r)'
<1> DEFINE N == MAX_NODE_DEPTH
<1>1. NULL \notin live /\ parent \in [live -> live \union {NULL}]
  BY ParentsAreRows
<1>2. NULL \notin live' /\ parent' \in [live' -> live' \union {NULL}]
  BY ParentsStayRows
<1>3. N \in Nat /\ N - 1 \in 0 .. N
  BY NodeTreeAssumption
<1>4. ASSUME NEW n \in live \intersect live' PROVE Chain(n, N)'[N - 1] = Chain(n, N)[N - 1]
  <2>1. Up(live', parent', n, N)[N - 1] = Up(live, parent, n, N)[N - 1]
    BY <1>1, <1>2, <1>3, UpIsKept
  <2>2. QED
    BY <2>1, ChainIsUp
<1>5. ASSUME r.op = "create"
      PROVE  /\ r.par \in Known' \union {NULL}
             /\ r.pc \in {"count", "insert"} /\ r.par \in live' => Chain(r.par, N)'[N - 1] = NULL
  BY <1>2, <1>4, <1>5 DEF DepthReady
<1> HIDE DEF N
<1>6. QED
  BY <1>5 DEF DepthReady, N

(* A step keeps CapInv when the request it changes is ready and either     *)
(* rows keep their parents or no create is in flight.                      *)
LEMMA CapKept ==
    ASSUME CapInv, TypeInv', NoOrphans', CreatesApart',
           Known \subseteq Known', live' \intersect Known \subseteq live,
           NEW c \in Clients, NEW r, Begin(c, r), DepthReady(r),
           \/ \A x \in live \intersect live' : parent'[x] = parent[x]
           \/ req[c].op = "move" /\ r = Idle
    PROVE  CapInv'
<1>1. \A d \in Clients : req'[d] = IF d = c THEN r ELSE req[d]
  BY DEF Begin, CapInv, TypeInv, TypeOK
<1>2. ASSUME NEW d \in Clients PROVE DepthReady(req[d])'
  <2>1. PICK q : q = req'[d]
    OBVIOUS
  <2>2. DepthReady(q)
    BY <1>1, <2>1 DEF CapInv
  <2>3. DepthReady(q)'
    <3>1. CASE \A x \in live \intersect live' : parent'[x] = parent[x]
      BY <2>2, <3>1, DepthKept DEF CapInv, TypeInv
    <3>2. CASE req[c].op = "move" /\ r = Idle
      <4>1. q.op # "create"
        BY <1>1, <2>1, <3>2, IdleType DEF CapInv, CreatesApart
      <4>2. QED
        BY <4>1 DEF DepthReady
    <3>3. QED
      BY <3>1, <3>2
  <2>4. QED
    BY <2>1, <2>3 DEF DepthReady
<1>3. QED
  BY <1>2 DEF CapInv

LEMMA CapNext == CapMode /\ CapInv /\ [Next]_vars => CapInv'
<1> SUFFICES ASSUME CapMode, CapInv, [Next]_vars PROVE CapInv'
  OBVIOUS
<1>0. /\ TypeInv /\ NoOrphans /\ live \subseteq Known /\ NULL \notin live
      /\ TypeInv' /\ NoOrphans' /\ CreatesApart'
  BY TypeNext, OrphansNext, CreatesApartNext DEF CapInv, TypeInv, TypeOK, Known, NULL
<1>i. DepthReady(Idle)
  BY IdleType DEF DepthReady
<1>a. ASSUME NEW c \in Clients, Answer(c) PROVE Begin(c, Idle)
  BY <1>a DEF Answer, Begin
<1>t. ASSUME NEW c \in Clients, NEW r, Begin(c, r), DepthReady(r), UNCHANGED tree PROVE CapInv'
  <2>1. live' = live /\ parent' = parent /\ Known' = Known
    BY <1>t DEF tree, Known
  <2>2. QED
    BY <1>0, <1>t, <2>1, CapKept
<1>1. ASSUME NEW c \in Clients, CreateNode(c) PROVE CapInv'
  <2>1. PICK r \in Requests :
             /\ Start(c, r) /\ UNCHANGED tree
             /\ LinksInside(r) /\ r.op = "create" /\ r.pc \in {"count", "parent"}
             /\ r.par \in live \union {NULL} /\ (r.pc = "count" => r.par = NULL)
    BY <1>0, <1>1, CreateRequest
  <2>2. DepthReady(r)
    BY <1>0, <2>1 DEF DepthReady
  <2>3. QED
    BY <1>t, <2>1, <2>2 DEF Start
<1>2. ASSUME NEW c \in Clients, NEW pc, GoTo(c, pc), UNCHANGED tree, req[c].op # "none",
             req[c].op = "create" => req[c].pc = "count" \/ Depth(req[c].par) + 1 < MAX_NODE_DEPTH
      PROVE  CapInv'
  <2>1. PICK r : /\ Begin(c, r) /\ r.op = req[c].op /\ r.par = req[c].par
    BY <1>0, <1>2, GoToRequest
  <2>2. DepthReady(r)
    BY <1>0, <1>2, <2>1, ShallowParent DEF DepthReady, CapInv, TypeInv
  <2>3. QED
    BY <1>2, <1>t, <2>1, <2>2
<1>3. ASSUME NEW c \in Clients, NEW r, Begin(c, r), UNCHANGED tree, r.op # "create" PROVE CapInv'
  BY <1>3, <1>t DEF DepthReady
<1>4. ASSUME NEW c \in Clients, Answer(c), UNCHANGED tree PROVE CapInv'
  BY <1>4, <1>a, <1>i, <1>t
<1>5. ASSUME NEW c \in Clients, Request(c) PROVE CapInv'
  <2>1. ASSUME NEW op \in {"move", "copy"}, StartRelocation(c, op) PROVE CapInv'
    <3>1. \E r \in Requests : Start(c, r) /\ UNCHANGED tree /\ r.op = op
      BY <1>0, <2>1, RelocationRequest
    <3>2. QED
      BY <1>3, <3>1 DEF Start
  <2>2. CASE SetVisibility(c)
    <3>1. \E r \in Requests : Start(c, r) /\ UNCHANGED tree /\ r.op = "setvis"
      BY <1>0, <2>2, SetvisRequest
    <3>2. QED
      BY <1>3, <3>1 DEF Start
  <2>3. CASE DeleteNode(c)
    <3>1. /\ live' \subseteq live /\ nextId' = nextId /\ req' = req
          /\ \A x \in live' : parent'[x] = parent[x]
      BY <2>3 DEF DeleteNode, DeleteRows
    <3>2. Known' = Known /\ Begin(c, req[c])
      BY <1>0, <3>1 DEF Known, Begin, TypeInv, TypeOK
    <3>3. DepthReady(req[c])
      BY DEF CapInv
    <3>4. QED
      BY <1>0, <3>1, <3>2, <3>3, CapKept
  <2>4. QED
    BY <1>1, <1>5, <2>1, <2>2, <2>3 DEF Request, MoveNode, CopyNode
<1>6. ASSUME NEW c \in Clients, CreateInsert(c) \/ CopyCommit(c) PROVE CapInv'
  <2>1. CASE UNCHANGED tree
    BY <1>4, <1>6, <2>1 DEF CreateInsert, CopyCommit
  <2>2. CASE ~UNCHANGED tree
    <3>1. PICK P, m : InsertRows(P, m) /\ DOMAIN P \intersect Known = {}
      <4>1. CASE CreateInsert(c)
        <5>1. InsertRows([x \in {nextId} |-> req[c].par], req[c].map)
          BY <2>2, <4>1 DEF CreateInsert
        <5>2. nextId \notin Known
          BY <1>0 DEF TypeInv, TypeOK, Known
        <5>3. QED
          BY <5>1, <5>2
      <4>2. CASE CopyCommit(c)
        <5>1. PICK b \in IdMaps(req[c]) :
                     /\ InsertRows(CopiedParents(req[c], b), req[c].dest)
                     /\ DOMAIN CopiedParents(req[c], b) = {b[y] : y \in req[c].desc}
                     /\ \A y \in req[c].desc : b[y] \notin Known
          BY <1>0, <2>2, <4>2, CopyCommitRows
        <5>2. QED
          BY <5>1
      <4>3. QED
        BY <1>6, <4>1, <4>2
    <3>2. /\ live' \intersect Known \subseteq live
          /\ \A x \in live \intersect live' : parent'[x] = parent[x]
      BY <1>0, <3>1 DEF InsertRows
    <3>3. Known \subseteq Known'
      <4>1. CASE CreateInsert(c)
        <5>1. nextId' = nextId + 1 /\ nextId \in Nat
          BY <1>0, <2>2, <4>1 DEF CreateInsert, TypeInv, TypeOK
        <5>2. QED
          BY <5>1 DEF Known
      <4>2. CASE CopyCommit(c)
        <5>1. req[c] \in Requests
          BY <1>0, <2>2, <4>2, CopyCommitRows
        <5>2. Cardinality(req[c].desc) \in Nat
          BY <5>1, IdsFinite DEF Requests
        <5>3. nextId' = nextId + Cardinality(req[c].desc) /\ nextId \in Nat
          BY <1>0, <2>2, <4>2 DEF CopyCommit, TypeInv, TypeOK
        <5>4. QED
          BY <5>2, <5>3 DEF Known
      <4>3. QED
        BY <1>6, <4>1, <4>2
    <3>4. Begin(c, Idle)
      BY <1>6, <1>a DEF CreateInsert, CopyCommit
    <3>5. QED
      BY <1>0, <1>i, <3>2, <3>3, <3>4, CapKept
  <2>3. QED
    BY <2>1, <2>2
<1>7. ASSUME NEW c \in Clients, MoveApply(c) \/ MoveCommit(c) PROVE CapInv'
  <2>1. live' = live /\ Known' = Known /\ req[c].op = "move" /\ Answer(c)
    BY <1>7 DEF MoveApply, MoveCommit, At, Known
  <2>2. QED
    BY <1>0, <1>a, <1>i, <2>1, CapKept
<1>8. ASSUME NEW c \in Clients, VisibilityCommit(c) PROVE CapInv'
  <2>1. live' = live /\ Known' = Known /\ parent' = parent /\ Answer(c)
    BY <1>8 DEF VisibilityCommit, Known
  <2>2. QED
    BY <1>0, <1>a, <1>i, <2>1, CapKept
<1>9. ASSUME NEW c \in Clients, CreateParent(c) \/ CreateCount(c) PROVE CapInv'
  BY <1>2, <1>4, <1>9 DEF CreateParent, CreateCount, At
<1>10. ASSUME NEW c \in Clients, MoveParent(c) \/ CopyParent(c) \/ CopyCount(c) PROVE CapInv'
  BY <1>2, <1>4, <1>10 DEF MoveParent, CopyParent, CheckParent, CopyCount, At
<1>11. ASSUME NEW c \in Clients, MoveSubtree(c) PROVE CapInv'
  BY <1>0, <1>3, <1>4, <1>11, MoveRead
<1>12. ASSUME NEW c \in Clients, CopySubtree(c) PROVE CapInv'
  BY <1>0, <1>3, <1>4, <1>12, CopyRead
<1>13. ASSUME NEW c \in Clients, Handle(c) \/ DbError(c) PROVE CapInv'
  BY <1>4, <1>6, <1>7, <1>8, <1>9, <1>10, <1>11, <1>12, <1>13 DEF Handle, DbError
<1>14. CASE UNCHANGED vars
  <2>1. live' = live /\ parent' = parent /\ Known' = Known /\ req' = req
    BY <1>14 DEF vars, Known
  <2>2. ASSUME NEW d \in Clients PROVE DepthReady(req[d])'
    <3>1. PICK q : q = req[d]
      OBVIOUS
    <3>2. DepthReady(q)'
      BY <1>0, <2>1, <3>1, DepthKept DEF CapInv, TypeInv
    <3>3. QED
      BY <2>1, <3>1, <3>2 DEF DepthReady
  <2>3. QED
    BY <1>0, <2>2 DEF CapInv
<1>15. QED
  BY <1>5, <1>13, <1>14 DEF Next

LEMMA CapAlways == CapMode /\ Init /\ [][Next]_vars => []CapInv
<1>1. Init => CapInv
  BY TypeInit, IdleType DEF Init, CapInv, NoOrphans, CreatesApart, DepthReady
<1>2. CapMode /\ CapInv /\ [Next]_vars => CapInv'
  BY CapNext
<1>3. CapMode => []CapMode
  OBVIOUS
<1>4. QED
  BY <1>1, <1>2, <1>3, PTL

CreatedWithinCap ==
    \A c \in Clients : At(c, "create", "insert") /\ req'[c] = Idle =>
        \A n \in live' \ live : Chain(n, MAX_NODE_DEPTH)'[MAX_NODE_DEPTH] = NULL

LEMMA CapStep == CapMode /\ CapInv /\ [Next]_vars => CreatedWithinCap
<1> SUFFICES ASSUME CapInv, CapInv', [Next]_vars, NEW c \in Clients,
                    At(c, "create", "insert"), req'[c] = Idle, NEW n \in live' \ live
             PROVE  Chain(n, MAX_NODE_DEPTH)'[MAX_NODE_DEPTH] = NULL
  BY CapNext DEF CreatedWithinCap
<1> DEFINE N == MAX_NODE_DEPTH
           r == req[c]
<1>1. ~UNCHANGED tree
  BY DEF tree
<1>2. PICK d \in Clients : Request(d) \/ Handle(d) \/ DbError(d)
  BY <1>1 DEF Next, vars, tree
<1>3. CreateInsert(d) \/ CopyCommit(d)
  BY <1>1, <1>2, OnlyWritersWrite
  DEF DeleteNode, DeleteRows, MoveApply, MoveCommit, VisibilityCommit
<1>4. d = c
  <2>1. req[c] # Idle
    BY IdleType DEF At
  <2>2. Answer(d)
    BY <1>3 DEF CreateInsert, CopyCommit
  <2>3. QED
    BY <2>1, <2>2 DEF Answer, CapInv, TypeInv, TypeOK
<1>5. CreateInsert(c)
  BY <1>3, <1>4 DEF CopyCommit, At
<1>6. /\ References(r.par) /\ nextId \notin live
      /\ live'   = live \union {nextId}
      /\ parent' = [x \in live' |-> IF x = nextId THEN r.par ELSE parent[x]]
  BY <1>1, <1>5, CreateInsertRow DEF CapInv
<1>7. n = nextId /\ parent'[n] = r.par /\ \A x \in live \intersect live' : parent'[x] = parent[x]
  BY <1>6
<1>8. NULL \notin live /\ parent \in [live -> live \union {NULL}]
  BY ParentsAreRows DEF CapInv, TypeInv
<1>9. NULL \notin live' /\ parent' \in [live' -> live' \union {NULL}]
  BY ParentsStayRows DEF CapInv, TypeInv
<1>10. N \in Nat /\ N \in 1 .. N /\ N - 1 \in 0 .. N
  BY NodeTreeAssumption
<1>11. PICK p : p = r.par
  OBVIOUS
<1>12. Up(live', parent', n, N)[N] = Up(live', parent', p, N)[N - 1]
  BY <1>7, <1>9, <1>10, <1>11, UpOfParent
<1>13. Up(live', parent', p, N)[N - 1] = NULL
  <2>1. CASE p = NULL
    <3>1. Up(live', parent', p, N)[0] = NULL
      BY <1>9, <1>10, <2>1, UpUnfolds
    <3>2. QED
      BY <1>9, <1>10, <2>1, <3>1, UpEnds
  <2>2. CASE p \in live
    <3>1. Chain(p, N)[N - 1] = NULL
      BY <1>11, <2>2 DEF CapInv, DepthReady, At
    <3>2. Up(live, parent, p, N)[N - 1] = NULL
      BY <3>1, ChainIsUp
    <3>3. p \in live \intersect live'
      BY <1>6, <2>2
    <3>4. QED
      BY <1>7, <1>8, <1>9, <1>10, <3>2, <3>3, UpIsKept
  <2>3. QED
    BY <1>6, <1>11, <2>1, <2>2 DEF References
<1>14. QED
  BY <1>12, <1>13, ChainIsUp

(* When no move runs beside a create, the depth that createNode measured   *)
(* in its parent check still holds when its INSERT runs, whatever else was *)
(* added, copied or deleted meanwhile: no row it adds is below the cap.    *)
THEOREM CreatesStayWithinCap == CapMode => (Spec => CreatesWithinCap)
<1>1. CapMode /\ CapInv /\ [Next]_vars => [CreatedWithinCap]_vars
  BY CapStep
<1>2. CapMode => []CapMode
  OBVIOUS
<1>3. QED
  BY <1>1, <1>2, CapAlways, PTL DEF Spec, CreatesWithinCap, CreatedWithinCap

=============================================================================
