--------------------------- MODULE NodeTreeProofs ---------------------------
(***************************************************************************)
(* Proofs about NodeTree, for every number of clients, maps, tenants and   *)
(* node ids.                                                               *)
(***************************************************************************)
EXTENDS NodeTree, FiniteSetTheorems, TLAPS

-----------------------------------------------------------------------------
(* Subtrees: what the CTEs of move and copy and a cascading DELETE reach.  *)

(* A live node is in its own subtree, and the subtree holds live nodes.    *)
LEMMA SubtreeHasRoot ==
    ASSUME NEW n \in live, NEW K
    PROVE  n \in Subtree(n, K) /\ Subtree(n, K) \subseteq live
BY DEF Subtree

(* A row of K whose parent is in the subtree is in the subtree.            *)
LEMMA SubtreeHasChildren ==
    ASSUME NEW n, NEW K, K \subseteq live,
           NEW x \in K, parent[x] \in Subtree(n, K)
    PROVE  x \in Subtree(n, K)
BY DEF Subtree

(* Apart from its root, a subtree has only rows of K, each with its parent. *)
LEMMA SubtreeHasParents ==
    ASSUME NEW n, NEW K, K \subseteq live,
           NEW d \in Subtree(n, K), d # n
    PROVE  d \in K /\ parent[d] \in Subtree(n, K)
<1> DEFINE S == {x \in live : x = n \/ (x \in K /\ parent[x] \in Subtree(n, K))}
<1>1. n \in live /\ d \in live
  BY DEF Subtree
<1>2. S \subseteq Subtree(n, K)
  BY <1>1, SubtreeHasRoot, SubtreeHasChildren
<1>3. \A x \in K : parent[x] \in S => x \in S
  BY <1>2
<1>4. d \in S
  BY <1>1, <1>3 DEF Subtree
<1>5. QED
  BY <1>4

(* The subtree that move and copy read holds live rows, with their parents. *)
LEMMA DescendantsHaveParents ==
    ASSUME NEW n
    PROVE  /\ Descendants(n) \subseteq live
           /\ n \in live => n \in Descendants(n)
           /\ \A d \in Descendants(n) : d # n => parent[d] \in Descendants(n)
           /\ \A d \in Descendants(n) : n \in live /\ mapOf[d] = mapOf[n]
<1>1. CASE n \notin live
  BY <1>1 DEF Descendants
<1>2. CASE n \in live
  <2>1. Descendants(n) = Subtree(n, OnMap(mapOf[n])) /\ OnMap(mapOf[n]) \subseteq live
    BY <1>2 DEF Descendants, OnMap
  <2>2. \A d \in Descendants(n) : d # n => d \in OnMap(mapOf[n]) /\ parent[d] \in Descendants(n)
    BY <2>1, SubtreeHasParents
  <2>3. QED
    BY <1>2, <2>1, <2>2, SubtreeHasRoot DEF OnMap
<1>3. QED
  BY <1>1, <1>2

-----------------------------------------------------------------------------
(* Typing.  The ids a copy gives out are taken from a map on the rows it   *)
(* read, so the parents it read must be among them: TypeOK is inductive    *)
(* only together with that.                                                *)

LinksInside(r) ==
    r.op = "copy" => \A x \in r.desc : x # r.node => r.links[x] \in r.desc

TypeInv ==
    /\ TypeOK
    /\ \A c \in Clients : LinksInside(req[c])

LEMMA IdleType ==
    /\ Idle = [op |-> "none", pc |-> "idle", node |-> NULL, map |-> NULL, dest |-> NULL,
               par |-> NULL, groups |-> {}, desc |-> {}, links |-> NoLinks]
    /\ NoLinks \in [Ids -> Ids \union {NULL}]
    /\ Idle.op = "none"
    /\ LinksInside(Idle)
BY DEF Idle, NoLinks, LinksInside

(* A set of ids is finite, so what a copy counts is a number.              *)
LEMMA IdsFinite ==
    ASSUME NEW D \in SUBSET Ids
    PROVE  IsFiniteSet(D) /\ Cardinality(D) \in Nat
<1>1. IsFiniteSet(Ids)
  BY FS_Interval, NodeTreeAssumption DEF Ids
<1>2. IsFiniteSet(D)
  BY <1>1, FS_Subset
<1>3. QED
  BY <1>2, FS_CardinalityType

(* What an INSERT of rows with fresh ids and accepted parents leaves.      *)
LEMMA InsertRowsType ==
    ASSUME TypeOK, NEW P, NEW m \in Maps, NEW k \in Nat,
           DOMAIN P \subseteq nextId .. (nextId + k - 1),
           \A x \in DOMAIN P : P[x] \in live \union DOMAIN P \union {NULL},
           nextId + k - 1 \in Ids \/ k = 0,
           InsertRows(P, m), nextId' = nextId + k,
           req' \in [Clients -> Requests \union {Idle}]
    PROVE  TypeOK'
<1>1. /\ nextId \in Nat \ {0} /\ live \subseteq 1 .. (nextId - 1) /\ 1 .. (nextId - 1) \subseteq Ids
      /\ parent \in [live -> 1 .. (nextId - 1) \union {NULL}]
      /\ mapOf \in [live -> Maps] /\ tags \in [live -> SUBSET Groups]
  BY DEF TypeOK, Known
<1>2. nextId' \in Nat \ {0} /\ 1 .. (nextId' - 1) \subseteq Ids
  <2>1. nextId' \in Nat \ {0}
    BY <1>1
  <2>2. CASE k = 0
    BY <1>1, <2>2
  <2>3. CASE nextId + k - 1 \in Ids
    BY <1>1, <2>3, NodeTreeAssumption DEF Ids
  <2>4. QED
    BY <2>1, <2>2, <2>3
<1>3. DOMAIN P \subseteq 1 .. (nextId' - 1) /\ live \subseteq 1 .. (nextId' - 1)
  BY <1>1
<1>4. live' = live \union DOMAIN P /\ live' \subseteq 1 .. (nextId' - 1)
  BY <1>3 DEF InsertRows
<1>5. parent' \in [live' -> 1 .. (nextId' - 1) \union {NULL}]
  <2>1. parent' = [x \in live' |-> IF x \in DOMAIN P THEN P[x] ELSE parent[x]]
    BY DEF InsertRows
  <2>2. ASSUME NEW x \in live'
        PROVE  (IF x \in DOMAIN P THEN P[x] ELSE parent[x]) \in 1 .. (nextId' - 1) \union {NULL}
    BY <1>1, <1>3, <1>4, <2>2
  <2>3. QED
    BY <2>1, <2>2
<1>6. mapOf' \in [live' -> Maps]
  BY <1>1 DEF InsertRows
<1>7. tags' \in [live' -> SUBSET Groups]
  BY <1>1 DEF InsertRows
<1>8. QED
  BY <1>2, <1>4, <1>5, <1>6, <1>7 DEF TypeOK, Known

LEMMA TypeInit == Init => TypeInv
BY NodeTreeAssumption, IdleType DEF Init, TypeInv, TypeOK, Known, Ids

(* Giving one client a well-formed request, or none, keeps them all so.    *)
LEMMA RequestType ==
    ASSUME TypeInv, NEW c \in Clients, NEW r \in Requests \union {Idle},
           LinksInside(r), Begin(c, r)
    PROVE  /\ req' \in [Clients -> Requests \union {Idle}]
           /\ \A d \in Clients : LinksInside(req'[d])
BY DEF TypeInv, TypeOK, Begin

LEMMA AnswerType ==
    ASSUME TypeInv, NEW c \in Clients, Answer(c)
    PROVE  /\ req' \in [Clients -> Requests \union {Idle}]
           /\ \A d \in Clients : LinksInside(req'[d])
BY RequestType, IdleType DEF Answer, Begin

LEMMA GoToType ==
    ASSUME TypeInv, NEW c \in Clients, req[c].op # "none",
           NEW pc \in {"parent", "count", "insert", "subtree", "apply", "commit"},
           GoTo(c, pc)
    PROVE  /\ req' \in [Clients -> Requests \union {Idle}]
           /\ \A d \in Clients : LinksInside(req'[d])
<1> DEFINE r == [req[c] EXCEPT !.pc = pc]
<1>1. req[c] \in Requests
  BY IdleType DEF TypeInv, TypeOK
<1>2. r \in Requests /\ LinksInside(r)
  BY <1>1 DEF TypeInv, Requests, LinksInside
<1>3. Begin(c, r)
  BY DEF GoTo, Begin, TypeInv, TypeOK
<1>4. QED
  BY <1>2, <1>3, RequestType

(* The requests that the handlers' first statements leave behind.          *)
LEMMA CreateRequest ==
    ASSUME TypeInv, NEW c \in Clients, CreateNode(c)
    PROVE  \E r \in Requests :
             /\ Start(c, r) /\ UNCHANGED tree
             /\ LinksInside(r) /\ r.op = "create" /\ r.pc \in {"count", "parent"}
             /\ r.par \in live \union {NULL} /\ (r.pc = "count" => r.par = NULL)
<1>1. PICK m \in Maps, p \in live \union {NULL} :
             /\ Start(c, [Idle EXCEPT !.op = "create", !.map = m, !.dest = m, !.par = p,
                                      !.pc = IF p = NULL THEN "count" ELSE "parent"])
             /\ UNCHANGED tree
  BY DEF CreateNode
<1> DEFINE r == [Idle EXCEPT !.op = "create", !.map = m, !.dest = m, !.par = p,
                             !.pc = IF p = NULL THEN "count" ELSE "parent"]
<1>2. /\ r \in Requests /\ LinksInside(r) /\ r.op = "create"
      /\ r.pc \in {"count", "parent"} /\ r.par = p /\ (r.pc = "count" => p = NULL)
  BY IdleType DEF Requests, LinksInside, TypeInv, TypeOK
<1>3. QED
  BY <1>1, <1>2

LEMMA RelocationRequest ==
    ASSUME TypeInv, NEW c \in Clients, NEW op \in {"move", "copy"}, StartRelocation(c, op)
    PROVE  \E r \in Requests :
             /\ Start(c, r) /\ UNCHANGED tree
             /\ LinksInside(r) /\ r.op = op /\ r.pc \in {"parent", "subtree"}
             /\ r.node \in live /\ mapOf[r.node] = r.map
             /\ r.par \in live \union {NULL, Omitted}
             /\ r.pc = "subtree" => r.par \in {NULL, Omitted}
             /\ op = "copy" => r.par # Omitted
             /\ op = "move" => r.par # r.node
             /\ op = "move" /\ r.par = Omitted /\ r.dest # r.map => RelocateAlone
<1> DEFINE q(p) == IF op = "copy" /\ p = Omitted THEN NULL ELSE p
           new(n, m, d, p) == [Idle EXCEPT !.op = op, !.node = n, !.map = m, !.dest = d,
                                           !.par = q(p), !.pc = ParentStep(p)]
<1>1. PICK n \in live, m \in Maps, d \in Maps, p \in live \union {NULL, Omitted} :
             /\ Admitted(c, m) /\ m \in Edits[c] /\ n \in OnMap(m)
             /\ op = "move" => p # n
             /\ (op = "move" /\ p = Omitted /\ d # m) => RelocateAlone
             /\ MayPlace(c, m, d)
             /\ Start(c, new(n, m, d, p))
             /\ UNCHANGED tree
  BY DEF StartRelocation
<1> DEFINE r == new(n, m, d, p)
<1>2. q(p) \in Ids \union {NULL, Omitted} /\ n \in Ids /\ (op = "copy" => q(p) # Omitted)
  BY DEF TypeInv, TypeOK, NULL, Omitted, Ids
<1>3. /\ ParentStep(p) \in {"parent", "subtree"}
      /\ ParentStep(p) = "subtree" => p \in {NULL, Omitted}
  BY DEF ParentStep
<1>4. /\ r.op = op /\ r.pc = ParentStep(p) /\ r.node = n /\ r.map = m /\ r.dest = d
      /\ r.par = q(p)
  BY IdleType
<1>5. r \in Requests /\ LinksInside(r)
  BY <1>2, <1>3, IdleType DEF Requests, LinksInside
<1>6. n \in live /\ mapOf[n] = m
  BY <1>1 DEF OnMap
<1> HIDE DEF new
<1>7. QED
  BY <1>1, <1>2, <1>3, <1>4, <1>5, <1>6

LEMMA SetvisRequest ==
    ASSUME TypeInv, NEW c \in Clients, SetVisibility(c)
    PROVE  \E r \in Requests :
             /\ Start(c, r) /\ UNCHANGED tree
             /\ LinksInside(r) /\ r.op = "setvis"
             /\ r.node \in live /\ mapOf[r.node] = r.map
             /\ \A g \in r.groups : GroupTenant[g] = TenantOf[r.map]
<1>1. PICK m \in Maps, n \in live, G \in SUBSET Groups :
             /\ mapOf[n] = m
             /\ \A g \in G : GroupTenant[g] = TenantOf[m]
             /\ Start(c, [Idle EXCEPT !.op = "setvis", !.pc = "commit", !.node = n,
                                      !.map = m, !.dest = m, !.groups = G])
             /\ UNCHANGED tree
  BY DEF SetVisibility, OnMap
<1> DEFINE r == [Idle EXCEPT !.op = "setvis", !.pc = "commit", !.node = n,
                             !.map = m, !.dest = m, !.groups = G]
<1>2. /\ r \in Requests /\ LinksInside(r) /\ r.op = "setvis"
      /\ r.node = n /\ r.map = m /\ r.groups = G
  BY IdleType DEF Requests, LinksInside, TypeInv, TypeOK
<1>3. QED
  BY <1>1, <1>2

(* What reading the subtree adds to a move and to a copy.                  *)
LEMMA MoveRead ==
    ASSUME TypeInv, NEW c \in Clients, MoveSubtree(c)
    PROVE  /\ req[c] \in Requests /\ req[c].op = "move" /\ req[c].pc = "subtree"
           /\ UNCHANGED tree
           /\ \/ Answer(c)
              \/ \E r \in Requests :
                    /\ Begin(c, r) /\ r.op = "move" /\ r.pc = "apply"
                    /\ r.desc = Descendants(r.node) /\ r.par \notin r.desc
                    /\ r.node = req[c].node /\ r.map = req[c].map
                    /\ r.dest = req[c].dest /\ r.par = req[c].par
<1> DEFINE D == Descendants(req[c].node)
           r == [req[c] EXCEPT !.pc = "apply", !.desc = D]
<1>1. req[c] \in Requests /\ req[c].op = "move" /\ req[c].pc = "subtree" /\ UNCHANGED tree
  BY IdleType DEF MoveSubtree, At, TypeInv, TypeOK
<1>2. D \in SUBSET Ids
  BY DescendantsHaveParents DEF TypeInv, TypeOK
<1>3. /\ r \in Requests /\ r.op = "move" /\ r.pc = "apply" /\ r.desc = D
      /\ r.node = req[c].node /\ r.map = req[c].map
      /\ r.dest = req[c].dest /\ r.par = req[c].par
  BY <1>1, <1>2 DEF Requests
<1>4. Answer(c) \/ (Begin(c, r) /\ req[c].par \notin D)
  BY DEF MoveSubtree
<1> HIDE DEF r
<1>5. QED
  BY <1>1, <1>3, <1>4

LEMMA CopyRead ==
    ASSUME TypeInv, NEW c \in Clients, CopySubtree(c)
    PROVE  /\ req[c] \in Requests /\ req[c].op = "copy" /\ req[c].pc = "subtree"
           /\ UNCHANGED tree
           /\ \/ Answer(c)
              \/ \E r \in Requests :
                    /\ Begin(c, r) /\ r.op = "copy" /\ r.pc = "count"
                    /\ r.desc = Descendants(r.node)
                    /\ \A x \in r.desc : r.links[x] = parent[x]
                    /\ LinksInside(r) /\ r.map = req[c].map
                    /\ r.dest = req[c].dest /\ r.par = req[c].par
<1> DEFINE D == Descendants(req[c].node)
           L == [x \in Ids |-> IF x \in D THEN parent[x] ELSE NULL]
           r == [req[c] EXCEPT !.pc = "count", !.desc = D, !.links = L]
<1>1. req[c] \in Requests /\ req[c].op = "copy" /\ req[c].pc = "subtree" /\ UNCHANGED tree
  BY IdleType DEF CopySubtree, At, TypeInv, TypeOK
<1>2. /\ D \in SUBSET Ids /\ L \in [Ids -> Ids \union {NULL}]
      /\ \A x \in D : L[x] = parent[x]
  BY DescendantsHaveParents DEF TypeInv, TypeOK
<1>3. \A x \in D : x # req[c].node => L[x] \in D
  BY <1>2, DescendantsHaveParents
<1>4. Begin(c, r) \/ Answer(c)
  BY DEF CopySubtree
<1> HIDE DEF D, L
<1>5. /\ r \in Requests /\ r.op = "copy" /\ r.pc = "count" /\ r.desc = D /\ r.links = L
      /\ r.node = req[c].node /\ r.map = req[c].map
      /\ r.dest = req[c].dest /\ r.par = req[c].par
  BY <1>1, <1>2 DEF Requests
<1>6. LinksInside(r)
  BY <1>3, <1>5 DEF LinksInside
<1>7. r.desc = Descendants(r.node)
  BY <1>5 DEF D
<1> HIDE DEF r
<1>8. QED
  BY <1>1, <1>2, <1>4, <1>5, <1>6, <1>7

(* Typing is preserved by every step.                                      *)
LEMMA TypeNext == TypeInv /\ [Next]_vars => TypeInv'
<1> SUFFICES ASSUME TypeInv, [Next]_vars PROVE TypeInv'
  OBVIOUS
<1> USE DEF TypeInv
<1>r. ASSUME NEW c \in Clients, req[c].op # "none" PROVE req[c] \in Requests
  BY <1>r, IdleType DEF TypeOK
<1>u. ASSUME UNCHANGED tree,
             req' \in [Clients -> Requests \union {Idle}],
             \A d \in Clients : LinksInside(req'[d])
      PROVE  TypeInv'
  BY <1>u DEF tree, TypeOK, Known, LinksInside
<1>1. ASSUME NEW c \in Clients, CreateNode(c) PROVE TypeInv'
  BY <1>1, <1>u, CreateRequest, RequestType DEF Start
<1>2. ASSUME NEW c \in Clients, CreateParent(c) PROVE TypeInv'
  BY <1>2, <1>u, GoToType, AnswerType DEF CreateParent, At
<1>3. ASSUME NEW c \in Clients, CreateCount(c) PROVE TypeInv'
  BY <1>3, <1>u, GoToType, AnswerType DEF CreateCount, At
<1>4. ASSUME NEW c \in Clients, CreateInsert(c) PROVE TypeInv'
  <2> DEFINE r == req[c]
  <2>0. r \in Requests /\ r.op = "create"
    BY <1>4, <1>r DEF CreateInsert, At
  <2>1. /\ req' \in [Clients -> Requests \union {Idle}]
        /\ \A d \in Clients : LinksInside(req'[d])
    BY <1>4, AnswerType DEF CreateInsert
  <2>2. CASE References(r.par) /\ nextId \in Ids
    <3> DEFINE P == [x \in {nextId} |-> r.par]
    <3>1. InsertRows(P, r.map) /\ nextId' = nextId + 1
      BY <1>4, <2>2 DEF CreateInsert
    <3>2. r.map \in Maps
      BY <2>0 DEF Requests
    <3>3. nextId \in Nat
      BY DEF TypeOK
    <3>4. DOMAIN P \subseteq nextId .. (nextId + 1 - 1) /\ nextId + 1 - 1 \in Ids
      BY <2>2, <3>3
    <3>5. \A x \in DOMAIN P : P[x] \in live \union DOMAIN P \union {NULL}
      BY <2>2 DEF References
    <3> HIDE DEF P
    <3>6. TypeOK'
      BY <2>1, <3>1, <3>2, <3>4, <3>5, InsertRowsType
    <3>7. QED
      BY <2>1, <3>6 DEF LinksInside
  <2>3. CASE ~(References(r.par) /\ nextId \in Ids)
    BY <1>4, <1>u, <2>1, <2>3 DEF CreateInsert
  <2>4. QED
    BY <2>2, <2>3
<1>5. ASSUME NEW c \in Clients, NEW op \in {"move", "copy"}, StartRelocation(c, op) PROVE TypeInv'
  BY <1>5, <1>u, RelocationRequest, RequestType DEF Start
<1>6. ASSUME NEW c \in Clients, NEW op \in {"move", "copy"}, CheckParent(c, op) PROVE TypeInv'
  BY <1>6, <1>u, GoToType, AnswerType DEF CheckParent, At
<1>7. ASSUME NEW c \in Clients, MoveSubtree(c) PROVE TypeInv'
  <2>1. UNCHANGED tree
    BY <1>7, MoveRead
  <2>2. \/ Answer(c)
        \/ \E r \in Requests : Begin(c, r) /\ r.op = "move"
    BY <1>7, MoveRead
  <2>3. QED
    BY <2>1, <2>2, <1>u, RequestType, AnswerType DEF LinksInside
<1>8. ASSUME NEW c \in Clients, MoveApply(c) \/ MoveCommit(c) PROVE TypeInv'
  <2> DEFINE r == req[c]
  <2>1. r \in Requests /\ r.dest \in Maps
    BY <1>8, <1>r DEF MoveApply, MoveCommit, At, Requests
  <2>2. /\ req' \in [Clients -> Requests \union {Idle}]
        /\ \A d \in Clients : LinksInside(req'[d])
    BY <1>8, AnswerType DEF MoveApply, MoveCommit
  <2>3. ASSUME ParentAccepted(r), SetParent(r.node, r.par)
        PROVE  parent' \in [live -> Known \union {NULL}]
    BY <2>3 DEF ParentAccepted, SetParent, References, TypeOK
  <2>4. parent' \in [live -> Known \union {NULL}]
    BY <1>8, <2>3 DEF MoveApply, MoveCommit, TypeOK
  <2>5. mapOf' \in [live -> Maps] /\ tags' \in [live -> SUBSET Groups]
    BY <1>8, <2>1 DEF MoveApply, MoveCommit, TypeOK
  <2>6. UNCHANGED <<live, nextId>>
    BY <1>8 DEF MoveApply, MoveCommit
  <2>7. QED
    BY <2>2, <2>4, <2>5, <2>6 DEF TypeOK, Known
<1>9. ASSUME NEW c \in Clients, CopySubtree(c) PROVE TypeInv'
  <2>1. UNCHANGED tree
    BY <1>9, CopyRead
  <2>2. \/ Answer(c)
        \/ \E r \in Requests : Begin(c, r) /\ LinksInside(r)
    BY <1>9, CopyRead
  <2>3. QED
    BY <2>1, <2>2, <1>u, RequestType, AnswerType
<1>10. ASSUME NEW c \in Clients, CopyCount(c) PROVE TypeInv'
  BY <1>10, <1>u, GoToType, AnswerType DEF CopyCount, At
<1>11. ASSUME NEW c \in Clients, CopyCommit(c) PROVE TypeInv'
  <2> DEFINE r == req[c]
             k == Cardinality(r.desc)
  <2>0. r \in Requests /\ r.op = "copy"
    BY <1>11, <1>r DEF CopyCommit, At
  <2>1. /\ req' \in [Clients -> Requests \union {Idle}]
        /\ \A d \in Clients : LinksInside(req'[d])
    BY <1>11, AnswerType DEF CopyCommit
  <2>2. CASE r.desc # {} /\ References(r.par) /\ nextId + k - 1 \in Ids
    <3>1. PICK idMap \in IdMaps(r) : InsertRows(CopiedParents(r, idMap), r.dest)
      BY <1>11, <2>2 DEF CopyCommit
    <3>2. nextId' = nextId + k
      BY <1>11, <2>2 DEF CopyCommit
    <3>3. r.dest \in Maps /\ r.desc \in SUBSET Ids
      BY <2>0 DEF Requests
    <3>4. k \in Nat
      BY <3>3, IdsFinite
    <3> DEFINE P == CopiedParents(r, idMap)
    <3>5. DOMAIN P = {idMap[y] : y \in r.desc}
      BY DEF CopiedParents
    <3>6. \A y \in r.desc : idMap[y] \in nextId .. (nextId + k - 1)
      BY DEF IdMaps
    <3>7. ASSUME NEW x \in DOMAIN P
          PROVE  P[x] \in live \union DOMAIN P \union {NULL}
      <4> DEFINE y == CHOOSE z \in r.desc : idMap[z] = x
      <4>1. y \in r.desc
        BY <3>5
      <4>2. P[x] = IF y = r.node THEN r.par ELSE idMap[r.links[y]]
        BY <3>5 DEF CopiedParents
      <4>3. y # r.node => r.links[y] \in r.desc
        BY <2>0, <4>1 DEF LinksInside
      <4> HIDE DEF y, P
      <4>4. QED
        BY <2>2, <3>5, <4>1, <4>2, <4>3 DEF References
    <3> HIDE DEF P
    <3>8. DOMAIN P \subseteq nextId .. (nextId + k - 1)
      BY <3>5, <3>6
    <3>9. InsertRows(P, r.dest)
      BY <3>1 DEF P
    <3> HIDE DEF k
    <3>10. TypeOK'
      BY <2>1, <2>2, <3>2, <3>3, <3>4, <3>7, <3>8, <3>9, InsertRowsType
    <3>11. QED
      BY <2>1, <3>10 DEF LinksInside
  <2>3. CASE ~(r.desc # {} /\ References(r.par) /\ nextId + k - 1 \in Ids)
    BY <1>11, <1>u, <2>1, <2>3 DEF CopyCommit
  <2>4. QED
    BY <2>2, <2>3
<1>12. ASSUME NEW c \in Clients, DeleteNode(c) PROVE TypeInv'
  BY <1>12 DEF DeleteNode, DeleteRows, TypeOK, Known, LinksInside
<1>13. ASSUME NEW c \in Clients, SetVisibility(c) PROVE TypeInv'
  BY <1>13, <1>u, SetvisRequest, RequestType DEF Start
<1>14. ASSUME NEW c \in Clients, VisibilityCommit(c) PROVE TypeInv'
  <2>1. req[c] \in Requests
    BY <1>14, <1>r DEF VisibilityCommit, At
  <2>2. tags' \in [live -> SUBSET Groups]
    BY <1>14, <2>1 DEF VisibilityCommit, TypeOK, Requests
  <2>3. /\ req' \in [Clients -> Requests \union {Idle}]
        /\ \A d \in Clients : LinksInside(req'[d])
    BY <1>14, AnswerType DEF VisibilityCommit
  <2>4. QED
    BY <1>14, <2>2, <2>3 DEF VisibilityCommit, TypeOK, Known
<1>15. ASSUME NEW c \in Clients, DbError(c) PROVE TypeInv'
  BY <1>15, <1>u, AnswerType DEF DbError
<1>16. CASE UNCHANGED vars
  BY <1>16 DEF vars, TypeOK, Known, LinksInside
<1>17. QED
  BY <1>1, <1>2, <1>3, <1>4, <1>5, <1>6, <1>7, <1>8, <1>9, <1>10, <1>11, <1>12, <1>13,
     <1>14, <1>15, <1>16
  DEF Next, Request, Handle, MoveNode, CopyNode, MoveParent, CopyParent

(* The tables and the requests stay well typed, whatever runs.             *)
THEOREM TypeCorrect == Spec => []TypeOK
<1>1. Init => TypeInv
  BY TypeInit
<1>2. TypeInv /\ [Next]_vars => TypeInv'
  BY TypeNext
<1>3. TypeInv => TypeOK
  BY DEF TypeInv
<1>4. QED
  BY <1>1, <1>2, <1>3, PTL DEF Spec

-----------------------------------------------------------------------------
(* The rows of a copy.                                                     *)

LEMMA CopyCommitRows ==
    ASSUME TypeInv, NEW c \in Clients, CopyCommit(c), ~UNCHANGED tree
    PROVE  LET r == req[c] IN
           /\ r \in Requests /\ r.op = "copy" /\ r.pc = "commit"
           /\ References(r.par)
           /\ \E idMap \in IdMaps(r) :
                 /\ InsertRows(CopiedParents(r, idMap), r.dest)
                 /\ DOMAIN CopiedParents(r, idMap) = {idMap[y] : y \in r.desc}
                 /\ \A y \in r.desc :
                       /\ idMap[y] \notin Known /\ idMap[y] # NULL
                       /\ CopiedParents(r, idMap)[idMap[y]] =
                             IF y = r.node THEN r.par ELSE idMap[r.links[y]]
                       /\ y # r.node => r.links[y] \in r.desc
<1> DEFINE r == req[c]
           k == Cardinality(r.desc)
<1>1. r \in Requests /\ r.op = "copy" /\ r.pc = "commit"
  BY IdleType DEF CopyCommit, At, TypeInv, TypeOK
<1>2. r.desc # {} /\ References(r.par) /\ nextId + k - 1 \in Ids
  BY DEF CopyCommit
<1>3. PICK idMap \in IdMaps(r) : InsertRows(CopiedParents(r, idMap), r.dest)
  BY <1>2 DEF CopyCommit
<1> DEFINE P == CopiedParents(r, idMap)
<1>4. DOMAIN P = {idMap[y] : y \in r.desc}
  BY DEF CopiedParents
<1>5. \A x, y \in r.desc : idMap[x] = idMap[y] => x = y
  BY DEF IdMaps
<1>6. ASSUME NEW y \in r.desc
      PROVE  /\ idMap[y] \notin Known /\ idMap[y] # NULL
             /\ P[idMap[y]] = IF y = r.node THEN r.par ELSE idMap[r.links[y]]
             /\ y # r.node => r.links[y] \in r.desc
  <2>1. k \in Nat
    BY <1>1, IdsFinite DEF Requests
  <2>2. idMap[y] \in nextId .. (nextId + k - 1)
    BY <1>6 DEF IdMaps
  <2>3. idMap[y] \notin Known /\ idMap[y] # NULL
    BY <2>1, <2>2 DEF Known, NULL, TypeInv, TypeOK
  <2> DEFINE z == CHOOSE x \in r.desc : idMap[x] = idMap[y]
  <2>4. z = y
    BY <1>5, <1>6
  <2>5. idMap[y] \in DOMAIN P
    BY <1>4, <1>6
  <2>6. P[idMap[y]] = IF z = r.node THEN r.par ELSE idMap[r.links[z]]
    BY <1>4, <2>5 DEF CopiedParents
  <2>7. y # r.node => r.links[y] \in r.desc
    BY <1>1, <1>6 DEF TypeInv, LinksInside
  <2> HIDE DEF z
  <2>8. QED
    BY <2>3, <2>4, <2>6, <2>7
<1>7. QED
  BY <1>1, <1>2, <1>3, <1>4, <1>6

(* The one row of a create.                                                *)
LEMMA CreateInsertRow ==
    ASSUME TypeInv, NEW c \in Clients, CreateInsert(c), ~UNCHANGED tree
    PROVE  LET r == req[c] IN
           /\ r \in Requests /\ r.op = "create" /\ r.pc = "insert"
           /\ References(r.par) /\ nextId \notin live /\ nextId # NULL
           /\ live'   = live \union {nextId}
           /\ parent' = [x \in live' |-> IF x = nextId THEN r.par ELSE parent[x]]
           /\ mapOf'  = [x \in live' |-> IF x = nextId THEN r.map ELSE mapOf[x]]
           /\ tags'   = [x \in live' |-> IF x = nextId THEN {} ELSE tags[x]]
           /\ nextId' = nextId + 1
<1> DEFINE r == req[c]
           P == [x \in {nextId} |-> r.par]
<1>1. r \in Requests /\ r.op = "create" /\ r.pc = "insert"
  BY IdleType DEF CreateInsert, At, TypeInv, TypeOK
<1>2. References(r.par) /\ InsertRows(P, r.map) /\ nextId' = nextId + 1
  BY DEF CreateInsert
<1>3. DOMAIN P = {nextId} /\ P[nextId] = r.par
  OBVIOUS
<1>4. nextId \notin live /\ nextId # NULL
  BY DEF TypeInv, TypeOK, Known, NULL
<1> HIDE DEF P
<1>5. QED
  BY <1>1, <1>2, <1>3, <1>4 DEF InsertRows

-----------------------------------------------------------------------------
(* Referential integrity, under any interleaving of any requests.          *)

LEMMA OrphansNext == TypeInv /\ NoOrphans /\ [Next]_vars => NoOrphans'
<1> SUFFICES ASSUME TypeInv, NoOrphans, [Next]_vars PROVE NoOrphans'
  OBVIOUS
<1> USE DEF NoOrphans, References
<1>u. ASSUME UNCHANGED <<live, parent>> PROVE NoOrphans'
  BY <1>u
<1>t. ASSUME UNCHANGED tree PROVE NoOrphans'
  BY <1>t, <1>u DEF tree
<1>1. ASSUME NEW c \in Clients, CreateInsert(c) PROVE NoOrphans'
  BY <1>1, <1>t, CreateInsertRow
<1>2. ASSUME NEW c \in Clients, CopyCommit(c) PROVE NoOrphans'
  <2>1. CASE UNCHANGED tree
    BY <2>1, <1>t
  <2>2. CASE ~UNCHANGED tree
    <3> DEFINE r == req[c]
    <3>1. PICK idMap \in IdMaps(r) :
                 /\ InsertRows(CopiedParents(r, idMap), r.dest)
                 /\ DOMAIN CopiedParents(r, idMap) = {idMap[y] : y \in r.desc}
                 /\ \A y \in r.desc :
                       /\ idMap[y] \notin Known /\ idMap[y] # NULL
                       /\ CopiedParents(r, idMap)[idMap[y]] =
                             IF y = r.node THEN r.par ELSE idMap[r.links[y]]
                       /\ y # r.node => r.links[y] \in r.desc
      <4> HIDE DEF NoOrphans, References
      <4>1. QED
        BY <1>2, <2>2, CopyCommitRows
    <3>2. References(r.par)
      BY <1>2, <2>2, CopyCommitRows
    <3> DEFINE P == CopiedParents(r, idMap)
    <3>3. \A x \in DOMAIN P : P[x] \in live \union DOMAIN P \union {NULL}
      BY <3>1, <3>2
    <3> HIDE DEF P
    <3>4. InsertRows(P, r.dest)
      BY <3>1 DEF P
    <3>5. QED
      BY <3>3, <3>4 DEF InsertRows
  <2>3. QED
    BY <2>1, <2>2
<1>3. ASSUME NEW c \in Clients, MoveApply(c) \/ MoveCommit(c) PROVE NoOrphans'
  <2>1. live' = live
    BY <1>3 DEF MoveApply, MoveCommit
  <2>2. \/ parent' = parent
        \/ ParentAccepted(req[c]) /\ SetParent(req[c].node, req[c].par)
    BY <1>3 DEF MoveApply, MoveCommit
  <2>3. QED
    BY <2>1, <2>2 DEF ParentAccepted, SetParent, TypeInv, TypeOK
<1>4. ASSUME NEW c \in Clients, DeleteNode(c) PROVE NoOrphans'
  <2>1. PICK n : DeleteRows(Subtree(n, live))
    BY <1>4 DEF DeleteNode
  <2>2. \A x \in live : parent[x] \in Subtree(n, live) => x \in Subtree(n, live)
    BY SubtreeHasChildren
  <2>3. QED
    BY <2>1, <2>2 DEF DeleteRows
<1>5. ASSUME NEW c \in Clients, Request(c) \/ Handle(c) \/ DbError(c) PROVE NoOrphans'
  BY <1>5, <1>u, <1>t, <1>1, <1>2, <1>3, <1>4
  DEF Request, Handle, CreateNode, CreateParent, CreateCount, MoveNode, MoveParent,
      MoveSubtree, CopyNode, CopyParent, CopySubtree, CopyCount, StartRelocation, CheckParent,
      SetVisibility, VisibilityCommit, DbError
<1>6. CASE UNCHANGED vars
  BY <1>6, <1>u DEF vars
<1>7. QED
  BY <1>5, <1>6 DEF Next

(* A parent is always a row: no request, however it interleaves with the   *)
(* deletion or the move of the rows it works on, leaves an orphan.         *)
THEOREM NeverOrphans == Spec => []NoOrphans
<1>1. Init => TypeInv /\ NoOrphans
  BY TypeInit DEF Init, NoOrphans
<1>2. TypeInv /\ NoOrphans /\ [Next]_vars => (TypeInv /\ NoOrphans)'
  BY TypeNext, OrphansNext
<1>3. QED
  BY <1>1, <1>2, PTL DEF Spec

-----------------------------------------------------------------------------
(* What rows a step adds and how it changes tags, under any interleaving.  *)

(* Six actions change rows; the others leave the tree alone.               *)
LEMMA OnlyWritersWrite ==
    ASSUME NEW c \in Clients, Request(c) \/ Handle(c) \/ DbError(c)
    PROVE  \/ UNCHANGED tree
           \/ CreateInsert(c) \/ CopyCommit(c) \/ DeleteNode(c)
           \/ MoveApply(c) \/ MoveCommit(c) \/ VisibilityCommit(c)
BY DEF Request, Handle, CreateNode, CreateParent, CreateCount, MoveNode, MoveParent,
       MoveSubtree, CopyNode, CopyParent, CopySubtree, CopyCount, StartRelocation, CheckParent,
       SetVisibility, DbError

(* The rows a copy read include the one it was asked to copy.              *)
RootInside ==
    \A c \in Clients : req[c].op = "copy" /\ req[c].desc # {} => req[c].node \in req[c].desc

LEMMA RootInsideNext == TypeInv /\ RootInside /\ [Next]_vars => RootInside'
<1> SUFFICES ASSUME TypeInv, RootInside, [Next]_vars PROVE RootInside'
  OBVIOUS
<1>1. ASSUME NEW c \in Clients, NEW r, Begin(c, r),
             r.op = "copy" /\ r.desc # {} => r.node \in r.desc
      PROVE  RootInside'
  BY <1>1 DEF RootInside, Begin, TypeInv, TypeOK
<1>2. ASSUME NEW c \in Clients, Answer(c) PROVE RootInside'
  BY <1>1, <1>2, IdleType DEF Answer, Begin
<1>3. ASSUME NEW c \in Clients, NEW pc, GoTo(c, pc) PROVE RootInside'
  BY <1>3, IdleType DEF GoTo, RootInside, TypeInv, TypeOK, Requests
<1>4. ASSUME NEW c \in Clients, Request(c) PROVE RootInside'
  <2>1. ASSUME CreateNode(c) PROVE RootInside'
    BY <1>1, <2>1, IdleType DEF CreateNode, Start
  <2>2. ASSUME NEW op, StartRelocation(c, op) PROVE RootInside'
    BY <1>1, <2>2, IdleType DEF StartRelocation, Start
  <2>3. ASSUME SetVisibility(c) PROVE RootInside'
    BY <1>1, <2>3, IdleType DEF SetVisibility, Start
  <2>4. ASSUME DeleteNode(c) PROVE RootInside'
    BY <2>4 DEF DeleteNode, RootInside
  <2>5. QED
    BY <1>4, <2>1, <2>2, <2>3, <2>4 DEF Request, MoveNode, CopyNode
<1>5. ASSUME NEW c \in Clients, Handle(c) PROVE RootInside'
  <2>1. ASSUME MoveSubtree(c) PROVE RootInside'
    <3>1. req[c] \in Requests /\ req[c].op = "move"
      BY <2>1, IdleType DEF MoveSubtree, At, TypeInv, TypeOK
    <3> DEFINE r == [req[c] EXCEPT !.pc = "apply", !.desc = Descendants(req[c].node)]
    <3>2. r.op = "move"
      BY <3>1 DEF Requests
    <3>3. Answer(c) \/ Begin(c, r)
      BY <2>1 DEF MoveSubtree
    <3> HIDE DEF r
    <3>4. QED
      BY <1>1, <1>2, <3>2, <3>3
  <2>2. ASSUME CopySubtree(c) PROVE RootInside'
    <3>1. req[c] \in Requests
      BY <2>2, IdleType DEF CopySubtree, At, TypeInv, TypeOK
    <3> DEFINE D == Descendants(req[c].node)
               r == [req[c] EXCEPT !.pc = "count", !.desc = D,
                        !.links = [x \in Ids |-> IF x \in D THEN parent[x] ELSE NULL]]
    <3>2. r.desc = D /\ r.node = req[c].node
      BY <3>1 DEF Requests
    <3>3. D # {} => req[c].node \in D
      BY DescendantsHaveParents
    <3>4. Answer(c) \/ Begin(c, r)
      BY <2>2 DEF CopySubtree
    <3> HIDE DEF r, D
    <3>5. QED
      BY <1>1, <1>2, <3>2, <3>3, <3>4
  <2>3. QED
    BY <1>2, <1>3, <1>5, <2>1, <2>2
    DEF Handle, CreateParent, CreateCount, CreateInsert, MoveParent, MoveApply, MoveCommit,
        CopyParent, CheckParent, CopyCount, CopyCommit, VisibilityCommit
<1>6. ASSUME NEW c \in Clients, DbError(c) PROVE RootInside'
  BY <1>2, <1>6 DEF DbError
<1>7. CASE UNCHANGED vars
  BY <1>7 DEF vars, RootInside
<1>8. QED
  BY <1>4, <1>5, <1>6, <1>7 DEF Next

RowsInv == TypeInv /\ RootInside

LEMMA RowsAlways == Init /\ [][Next]_vars => []RowsInv
<1>1. Init => RowsInv
  BY TypeInit, IdleType DEF Init, RowsInv, RootInside
<1>2. RowsInv /\ [Next]_vars => RowsInv'
  BY TypeNext, RootInsideNext DEF RowsInv
<1>3. QED
  BY <1>1, <1>2, PTL

(* New rows with parents P hang from one of them.                          *)
OneTree(P) ==
    /\ DOMAIN P \intersect live = {}
    /\ \E root \in DOMAIN P : /\ P[root] \notin DOMAIN P
                              /\ \A x \in DOMAIN P \ {root} : P[x] \in DOMAIN P

LEMMA InsertsOneTree ==
    ASSUME RowsInv, NEW c \in Clients, CreateInsert(c) \/ CopyCommit(c), ~UNCHANGED tree
    PROVE  \E P, m : InsertRows(P, m) /\ OneTree(P)
<1>1. CASE CreateInsert(c)
  <2> DEFINE P == [x \in {nextId} |-> req[c].par]
  <2>1. InsertRows(P, req[c].map)
    BY <1>1 DEF CreateInsert
  <2>2. References(req[c].par) /\ nextId \notin live /\ nextId # NULL
    BY <1>1, CreateInsertRow DEF RowsInv
  <2>3. OneTree(P)
    BY <2>2 DEF OneTree, References
  <2>4. QED
    BY <2>1, <2>3
<1>2. CASE CopyCommit(c)
  <2> DEFINE r == req[c]
  <2>1. PICK idMap \in IdMaps(r) :
               /\ InsertRows(CopiedParents(r, idMap), r.dest)
               /\ DOMAIN CopiedParents(r, idMap) = {idMap[y] : y \in r.desc}
               /\ \A y \in r.desc :
                     /\ idMap[y] \notin Known /\ idMap[y] # NULL
                     /\ CopiedParents(r, idMap)[idMap[y]] =
                           IF y = r.node THEN r.par ELSE idMap[r.links[y]]
                     /\ y # r.node => r.links[y] \in r.desc
    BY <1>2, CopyCommitRows DEF RowsInv
  <2>2. r.op = "copy" /\ References(r.par)
    BY <1>2, CopyCommitRows DEF RowsInv
  <2>3. r.node \in r.desc
    BY <1>2, <2>2 DEF CopyCommit, RowsInv, RootInside
  <2> DEFINE P == CopiedParents(r, idMap)
             root == idMap[r.node]
  <2>4. DOMAIN P \intersect live = {} /\ NULL \notin DOMAIN P
    BY <2>1 DEF RowsInv, TypeInv, TypeOK
  <2>5. root \in DOMAIN P /\ P[root] = r.par
    BY <2>1, <2>3
  <2>6. P[root] \notin DOMAIN P
    BY <2>2, <2>4, <2>5 DEF References
  <2>7. \A x \in DOMAIN P \ {root} : P[x] \in DOMAIN P
    BY <2>1
  <2> HIDE DEF P, root
  <2>8. InsertRows(P, r.dest)
    BY <2>1 DEF P
  <2>9. QED
    BY <2>4, <2>5, <2>6, <2>7, <2>8 DEF OneTree
<1>3. QED
  BY <1>1, <1>2

OneTreeAdded ==
    LET new == live' \ live IN
    new # {} => \E root \in new :
                   /\ parent'[root] \notin new
                   /\ \A x \in new : mapOf'[x] = mapOf'[root]
                   /\ \A x \in new \ {root} : parent'[x] \in new

LEMMA OneTreeNext == RowsInv /\ [Next]_vars => OneTreeAdded
<1> SUFFICES ASSUME RowsInv, [Next]_vars PROVE OneTreeAdded
  OBVIOUS
<1>1. ASSUME live' \subseteq live PROVE OneTreeAdded
  BY <1>1 DEF OneTreeAdded
<1>2. ASSUME NEW c \in Clients, CreateInsert(c) \/ CopyCommit(c), ~UNCHANGED tree
      PROVE  OneTreeAdded
  <2>1. PICK P, m : InsertRows(P, m) /\ OneTree(P)
    BY <1>2, InsertsOneTree
  <2>2. live' \ live = DOMAIN P /\ \A x \in DOMAIN P : parent'[x] = P[x] /\ mapOf'[x] = m
    BY <2>1 DEF InsertRows, OneTree
  <2>3. QED
    BY <2>1, <2>2 DEF OneTree, OneTreeAdded
<1>3. ASSUME NEW c \in Clients, Request(c) \/ Handle(c) \/ DbError(c) PROVE OneTreeAdded
  <2>1. CASE DeleteNode(c) \/ MoveApply(c) \/ MoveCommit(c) \/ VisibilityCommit(c)
    BY <1>1, <2>1 DEF DeleteNode, DeleteRows, MoveApply, MoveCommit, VisibilityCommit
  <2>2. CASE UNCHANGED tree
    BY <1>1, <2>2 DEF tree
  <2>3. QED
    BY <1>2, <1>3, <2>1, <2>2, OnlyWritersWrite
<1>4. QED
  BY <1>1, <1>3 DEF Next, vars

(* A copy arrives as one tree on one map, however its source changed after *)
(* it was read and whatever else runs.                                     *)
THEOREM CopiesAreTrees == Spec => NewRowsAreOneTree
<1>1. RowsInv /\ [Next]_vars => [OneTreeAdded]_vars
  BY OneTreeNext
<1>2. Init /\ [][Next]_vars => [][OneTreeAdded]_vars
  BY <1>1, RowsAlways, PTL
<1>3. QED
  BY <1>2 DEF Spec, NewRowsAreOneTree, OneTreeAdded

TagStep(n) ==
    \/ n \notin live /\ tags'[n] = {}
    \/ n \in live /\ tags'[n] = tags[n]
    \/ \E c \in Clients :
          \/ /\ At(c, "move", "apply") /\ req'[c] = Idle /\ n \in req[c].desc
             /\ req[c].dest # req[c].map /\ mapOf'[n] = req[c].dest /\ tags'[n] = {}
          \/ /\ At(c, "setvis", "commit") /\ req'[c] = Idle
             /\ req[c].node = n /\ tags'[n] = req[c].groups

TagStepAll == \A n \in live' : TagStep(n)

LEMMA TagsNext == RowsInv /\ [Next]_vars => TagStepAll
<1> SUFFICES ASSUME RowsInv, [Next]_vars PROVE TagStepAll
  OBVIOUS
<1>1. ASSUME UNCHANGED <<live, tags>> PROVE TagStepAll
  BY <1>1 DEF TagStepAll, TagStep
<1>2. ASSUME NEW c \in Clients, CreateInsert(c) \/ CopyCommit(c), ~UNCHANGED tree
      PROVE  TagStepAll
  <2>1. PICK P, m : InsertRows(P, m) /\ OneTree(P)
    BY <1>2, InsertsOneTree
  <2>2. QED
    BY <2>1 DEF InsertRows, OneTree, TagStepAll, TagStep
<1>3. ASSUME NEW c \in Clients, DeleteNode(c) PROVE TagStepAll
  BY <1>3 DEF DeleteNode, DeleteRows, TagStepAll, TagStep
<1>4. ASSUME NEW c \in Clients, MoveApply(c) PROVE TagStepAll
  BY <1>1, <1>4 DEF MoveApply
<1>5. ASSUME NEW c \in Clients, MoveCommit(c) PROVE TagStepAll
  <2>1. /\ live' = live /\ At(c, "move", "apply") /\ req'[c] = Idle
        /\ req[c].dest # req[c].map
    BY <1>5 DEF MoveCommit, Answer, RowsInv, TypeInv, TypeOK
  <2>2. \A n \in live : \/ tags'[n] = tags[n]
                        \/ n \in req[c].desc /\ mapOf'[n] = req[c].dest /\ tags'[n] = {}
    BY <1>5 DEF MoveCommit
  <2>3. QED
    BY <2>1, <2>2 DEF TagStepAll, TagStep
<1>6. ASSUME NEW c \in Clients, VisibilityCommit(c) PROVE TagStepAll
  <2>1. live' = live /\ At(c, "setvis", "commit") /\ req'[c] = Idle
    BY <1>6 DEF VisibilityCommit, Answer, RowsInv, TypeInv, TypeOK
  <2>2. \A n \in live : tags'[n] = tags[n] \/ (n = req[c].node /\ tags'[n] = req[c].groups)
    <3>1. tags \in [live -> SUBSET Groups]
      BY DEF RowsInv, TypeInv, TypeOK
    <3>2. tags' = IF req[c].node \in live THEN [tags EXCEPT ![req[c].node] = req[c].groups]
                  ELSE tags
      BY <1>6 DEF VisibilityCommit
    <3>3. QED
      BY <3>1, <3>2
  <2>3. QED
    BY <2>1, <2>2 DEF TagStepAll, TagStep
<1>7. ASSUME NEW c \in Clients, Request(c) \/ Handle(c) \/ DbError(c) PROVE TagStepAll
  BY <1>1, <1>2, <1>3, <1>4, <1>5, <1>6, <1>7, OnlyWritersWrite DEF tree
<1>8. QED
  BY <1>1, <1>7 DEF Next, vars

(* A node's tags change to what one request asked for, or go when a move   *)
(* takes the node to another map, under every interleaving.                *)
THEOREM TagsAreReplacedWhole == Spec => TagsReplacedWhole
<1>1. RowsInv /\ [Next]_vars => [TagStepAll]_vars
  BY TagsNext
<1>2. Init /\ [][Next]_vars => [][TagStepAll]_vars
  BY <1>1, RowsAlways, PTL
<1>3. QED
  BY <1>2 DEF Spec, TagsReplacedWhole, TagStepAll, TagStep

-----------------------------------------------------------------------------
(* The shape of the tree, when moves keep apart and each move across maps  *)
(* names its new parent: beside a move on one map anything but a second    *)
(* move may run, beside a move to another map only deletes.  What a        *)
(* request checked must still hold when it acts on it: that is what the    *)
(* invariant adds to the properties.                                       *)

SafeMode ==
    "move" \notin BesideMove /\ BesideRelocation \subseteq {"delete"} /\ ~RelocateAlone

Apart ==
    \A c, d \in Clients : c # d /\ req[c].op = "move" /\ req[d] # Idle =>
        req[d].op # "move" /\ req[c].dest = req[c].map

CreateReady(r) ==
    r.op = "create" =>
        /\ r.par \in Known \union {NULL}
        /\ r.pc \in {"count", "insert"} /\ r.par \in live => mapOf[r.par] = r.map

LinksAcyclic(r) == \A T \in SUBSET r.desc : T # {} => \E x \in T : r.links[x] \notin T

CopyReady(r) ==
    r.op = "copy" =>
        /\ r.par \in Known \union {NULL}
        /\ r.pc # "parent" /\ r.par \in live => mapOf[r.par] = r.dest
        /\ r.pc \in {"count", "commit"} => LinksAcyclic(r)

MoveReady(r) ==
    r.op = "move" =>
        /\ r.node \in Known
        /\ r.node \in live => mapOf[r.node] = r.map
        /\ r.par \in Known \union {NULL, Omitted} /\ r.par # r.node
        /\ r.par = Omitted => r.dest = r.map
        /\ r.pc # "parent" /\ r.par \in live => mapOf[r.par] = r.dest
        /\ r.pc = "apply" =>
              /\ r.par \notin Descendants(r.node)
              /\ r.dest # r.map => r.desc \intersect live = Descendants(r.node)

SetvisReady(r) ==
    r.op = "setvis" =>
        /\ r.node \in Known
        /\ r.node \in live => mapOf[r.node] = r.map
        /\ \A g \in r.groups : GroupTenant[g] = TenantOf[r.map]

Ready(r) == CreateReady(r) /\ CopyReady(r) /\ MoveReady(r) /\ SetvisReady(r)

Shape == NoOrphans /\ Acyclic /\ ParentOnSameMap /\ TagsInTenant

SafeInv ==
    /\ TypeInv
    /\ Shape
    /\ Apart
    /\ \A c \in Clients : Ready(req[c])

LEMMA IdleReady == Ready(Idle)
BY IdleType DEF Ready, CreateReady, CopyReady, MoveReady, SetvisReady

(* What a request other than a move found out stays true when rows are     *)
(* added, deleted or tagged: ids are not reused, and rows keep their map.  *)
LEMMA KeptRequest ==
    ASSUME TypeInv, NEW d \in Clients, Ready(req[d]), req'[d] = req[d], req[d].op # "move",
           TypeOK', Known \subseteq Known',
           \A x \in Known : x \in live' => x \in live /\ mapOf'[x] = mapOf[x]
    PROVE  Ready(req[d])'
<1>1. nextId' \in Nat /\ live' \subseteq Known'
  BY DEF TypeOK
<1>2. \A x \in Known \union {NULL} : x \in live' => x \in live /\ mapOf'[x] = mapOf[x]
  BY <1>1 DEF Known, NULL
<1> USE DEF Ready
<1>3. CreateReady(req[d])'
  BY <1>2 DEF CreateReady
<1>4. CopyReady(req[d])'
  <2>1. LinksAcyclic(req[d])' <=> LinksAcyclic(req[d])
    BY DEF LinksAcyclic
  <2>2. QED
    BY <1>2, <2>1 DEF CopyReady
<1>5. MoveReady(req[d])'
  BY DEF MoveReady
<1>6. SetvisReady(req[d])'
  BY <1>2 DEF SetvisReady
<1>7. QED
  BY <1>3, <1>4, <1>5, <1>6

(* New rows add no old row to a subtree: each is below new rows only.      *)
LEMMA DescendantsAfterInsert ==
    ASSUME TypeInv, NEW P, NEW m, InsertRows(P, m),
           \A x \in DOMAIN P : x \notin Known /\ x # NULL, NEW n \in Known
    PROVE  Descendants(n)' \intersect Known \subseteq Descendants(n)
<1> DEFINE new == DOMAIN P
           D == Descendants(n)
           S == D \union new
<1>1. /\ live' = live \union new /\ live \subseteq Known
      /\ \A x \in live : x \notin new /\ parent[x] \in Known \union {NULL}
  BY DEF InsertRows, TypeInv, TypeOK
<1>2. \A x \in live : parent'[x] = parent[x] /\ mapOf'[x] = mapOf[x]
  BY <1>1 DEF InsertRows
<1>3. SUFFICES ASSUME NEW d \in Descendants(n)', d \in Known PROVE d \in D
  OBVIOUS
<1>4. /\ n \in live' /\ d \in live'
      /\ \A T \in SUBSET live' :
            n \in T /\ (\A x \in OnMap(mapOf[n])' : parent'[x] \in T => x \in T) => d \in T
  BY <1>3 DEF Descendants, Subtree
<1>5. n \in live /\ d \notin new
  BY <1>1, <1>3, <1>4
<1>6. n \in D /\ S \in SUBSET live'
  BY <1>1, <1>5, DescendantsHaveParents
<1>7. ASSUME NEW x \in OnMap(mapOf[n])', parent'[x] \in S, x \notin new PROVE x \in D
  <2>1. x \in live /\ mapOf[x] = mapOf[n] /\ parent[x] \in S
    BY <1>1, <1>2, <1>5, <1>7 DEF OnMap
  <2>2. parent[x] \in D
    BY <1>1, <2>1
  <2>3. x \in OnMap(mapOf[n]) /\ OnMap(mapOf[n]) \subseteq live
    BY <2>1 DEF OnMap
  <2>4. QED
    BY <1>5, <2>2, <2>3, SubtreeHasChildren DEF Descendants
<1>8. d \in S
  BY <1>4, <1>6, <1>7
<1>9. QED
  BY <1>5, <1>8

(* A cascading DELETE takes whole subtrees: what is left of one is what    *)
(* is left of its rows.                                                    *)
LEMMA DescendantsAfterDelete ==
    ASSUME NEW g \in live, DeleteRows(Subtree(g, live)), NEW n
    PROVE  Descendants(n)' = Descendants(n) \intersect live'
<1> DEFINE gone == Subtree(g, live)
           D == Descendants(n)
           K == OnMap(mapOf[n])
<1>1. /\ live' = live \ gone /\ gone \subseteq live
      /\ \A x \in live' : x \in live /\ parent'[x] = parent[x] /\ mapOf'[x] = mapOf[x]
      /\ \A x \in live : parent[x] \in gone => x \in gone
  BY SubtreeHasRoot, SubtreeHasChildren DEF DeleteRows
<1>2. D \subseteq live /\ K \subseteq live
  BY DescendantsHaveParents DEF OnMap
<1> HIDE DEF gone
<1>3. CASE n \notin live'
  <2>1. Descendants(n)' = {}
    BY <1>3 DEF Descendants
  <2>2. ASSUME NEW d \in D PROVE d \in gone
    <3>1. n \in live /\ n \in gone
      BY <1>1, <1>3, <2>2 DEF Descendants
    <3>2. \A x \in K : parent[x] \in gone => x \in gone
      BY <1>1, <1>2
    <3>3. QED
      BY <1>1, <2>2, <3>1, <3>2 DEF Descendants, Subtree
  <2>3. QED
    BY <1>1, <2>1, <2>2
<1>4. CASE n \in live'
  <2> DEFINE E == Descendants(n)'
  <2>1. n \in live /\ D = Subtree(n, K)
    BY <1>1, <1>4 DEF Descendants
  <2>2. \A x \in live' : x \in OnMap(mapOf[n])' <=> x \in K
    BY <1>1, <1>4 DEF OnMap
  <2>3. E \subseteq live' /\ n \in E
    BY <1>4 DEF Descendants, Subtree
  <2>4. \A x \in K \ gone : parent[x] \in E => x \in E
    <3>1. ASSUME NEW x \in K \ gone, parent[x] \in E PROVE x \in E
      <4>1. x \in live' /\ x \in OnMap(mapOf[n])' /\ parent'[x] \in E
        BY <1>1, <1>2, <2>2, <3>1
      <4>2. QED
        BY <1>4, <4>1 DEF Descendants, Subtree
    <3>2. QED
      BY <3>1
  <2>5. ASSUME NEW d \in D, d \in live' PROVE d \in E
    <3> DEFINE T == E \union gone
    <3>1. T \in SUBSET live /\ n \in T
      BY <1>1, <2>3
    <3>2. \A x \in K : parent[x] \in T => x \in T
      BY <1>1, <1>2, <2>4
    <3> HIDE DEF E, K
    <3>3. d \in T
      BY <2>1, <2>5, <3>1, <3>2 DEF Subtree
    <3>4. QED
      BY <1>1, <2>5, <3>3
  <2>6. ASSUME NEW d \in E PROVE d \in D
    <3> DEFINE T == D \intersect live'
    <3>1. T \in SUBSET live' /\ n \in T
      BY <1>4, <2>1, SubtreeHasRoot
    <3>2. ASSUME NEW x \in OnMap(mapOf[n])', parent'[x] \in T PROVE x \in T
      <4>1. x \in live' /\ x \in K /\ parent[x] \in D
        BY <1>1, <2>2, <3>2 DEF OnMap
      <4>2. QED
        BY <1>2, <2>1, <4>1, SubtreeHasChildren
    <3> HIDE DEF T
    <3>3. d \in T
      BY <1>4, <2>6, <3>1, <3>2 DEF Descendants, Subtree
    <3>4. QED
      BY <3>3 DEF T
  <2>7. QED
    BY <2>3, <2>5, <2>6
<1>5. QED
  BY <1>3, <1>4

(* What a move found out stays true when rows are added, deleted or tagged *)
(* if no old row joins the subtree and, when the move is to another map,   *)
(* the subtree only loses rows that are deleted.                           *)
LEMMA KeptMove ==
    ASSUME TypeInv, NEW d \in Clients, MoveReady(req[d]), req'[d] = req[d], req[d].op = "move",
           TypeOK', Known \subseteq Known',
           \A x \in Known : x \in live' => x \in live /\ mapOf'[x] = mapOf[x],
           NEW n, n = req[d].node,
           Descendants(n)' \intersect Known \subseteq Descendants(n),
           req[d].dest # req[d].map =>
               live' \subseteq live /\ Descendants(n)' = Descendants(n) \intersect live'
    PROVE  Ready(req[d])'
<1>1. PICK q : q = req[d]
  OBVIOUS
<1>2. nextId' \in Nat /\ live' \subseteq Known' /\ NULL \notin live' /\ Omitted \notin live'
  BY DEF TypeOK, Known, NULL, Omitted
<1>3. Descendants(n)' \subseteq live'
  BY DEF Descendants, Subtree
<1>4. /\ q.op = "move" /\ q.node = n /\ n \in Known
      /\ n \in live => mapOf[n] = q.map
      /\ q.par \in Known \union {NULL, Omitted} /\ q.par # n
      /\ q.par = Omitted => q.dest = q.map
      /\ q.pc # "parent" /\ q.par \in live => mapOf[q.par] = q.dest
      /\ q.pc = "apply" =>
            /\ q.par \notin Descendants(n)
            /\ q.dest # q.map => q.desc \intersect live = Descendants(n)
  BY <1>1 DEF MoveReady
<1>5. q.pc = "apply" => q.par \notin Descendants(n)'
  BY <1>2, <1>3, <1>4
<1>6. q.pc = "apply" /\ q.dest # q.map => q.desc \intersect live' = Descendants(n)'
  BY <1>1, <1>4
<1>7. MoveReady(q)'
  <2>1. /\ q.node \in Known' /\ (q.node \in live' => mapOf'[q.node] = q.map)
        /\ q.par \in Known' \union {NULL, Omitted}
        /\ q.pc # "parent" /\ q.par \in live' => mapOf'[q.par] = q.dest
    BY <1>2, <1>4
  <2> HIDE DEF Descendants
  <2>2. QED
    BY <1>4, <1>5, <1>6, <2>1 DEF MoveReady
<1>8. MoveReady(req[d])'
  BY <1>1, <1>7
<1>9. QED
  BY <1>8 DEF Ready, CreateReady, CopyReady, SetvisReady

(* A step that leaves the tree alone is safe when the request it leaves    *)
(* behind is.                                                              *)
LEMMA SameTree ==
    ASSUME SafeInv, TypeInv', UNCHANGED tree, Apart',
           NEW c \in Clients, NEW r, Begin(c, r), Ready(r)
    PROVE  SafeInv'
<1>1. Shape'
  BY DEF SafeInv, Shape, tree, NoOrphans, References, Acyclic, ParentOnSameMap, TagsInTenant
<1>2. \A d \in Clients : req'[d] = IF d = c THEN r ELSE req[d]
  BY DEF Begin, SafeInv, TypeInv, TypeOK
<1>3. \A d \in Clients : Ready(req'[d])
  BY <1>2 DEF SafeInv
<1>4. ASSUME NEW d \in Clients PROVE Ready(req[d])'
  <2>1. /\ CreateReady(req'[d]) /\ CopyReady(req'[d])
        /\ MoveReady(req'[d]) /\ SetvisReady(req'[d])
    BY <1>3 DEF Ready
  <2>2. /\ live' = live /\ mapOf' = mapOf /\ parent' = parent /\ Known' = Known
    BY DEF tree, Known
  <2>3. CreateReady(req[d])'
    BY <2>1, <2>2 DEF CreateReady
  <2>4. CopyReady(req[d])'
    BY <2>1, <2>2 DEF CopyReady, LinksAcyclic
  <2>5. MoveReady(req[d])'
    BY <2>1, <2>2 DEF MoveReady, Descendants, Subtree, OnMap
  <2>6. SetvisReady(req[d])'
    BY <2>1, <2>2 DEF SetvisReady
  <2>7. QED
    BY <2>3, <2>4, <2>5, <2>6 DEF Ready
<1>5. QED
  BY <1>1, <1>4 DEF SafeInv

(* New rows on one map, under parents of that map, without a cycle among   *)
(* them: a cycle through old rows would have been there before.            *)
LEMMA InsertShape ==
    ASSUME TypeInv, Shape, NEW P, NEW m \in Maps, InsertRows(P, m),
           \A x \in DOMAIN P : x \notin Known /\ x # NULL,
           \A x \in DOMAIN P : P[x] \in live \union DOMAIN P \union {NULL},
           \A x \in DOMAIN P : P[x] \in live => mapOf[P[x]] = m,
           \A T \in SUBSET DOMAIN P : T # {} => \E x \in T : P[x] \notin T
    PROVE  (Acyclic /\ ParentOnSameMap /\ TagsInTenant)'
<1> DEFINE new == DOMAIN P
<1>1. /\ live' = live \union new
      /\ \A x \in live : x \notin new /\ x # NULL
      /\ \A x \in new : x # NULL
  BY DEF InsertRows, TypeInv, TypeOK, Known, NULL
<1>2. /\ \A x \in live : parent'[x] = parent[x] /\ mapOf'[x] = mapOf[x] /\ tags'[x] = tags[x]
      /\ \A x \in new : parent'[x] = P[x] /\ mapOf'[x] = m /\ tags'[x] = {}
  BY <1>1 DEF InsertRows
<1>3. \A x \in live : parent[x] \in live \union {NULL}
  BY DEF Shape, NoOrphans, References
<1>4. ASSUME NEW S \in SUBSET live', S # {}, \A x \in S : parent'[x] \in S
      PROVE  FALSE
  <2>1. \A x \in S \intersect live : parent[x] \in S \intersect live
    BY <1>1, <1>2, <1>3, <1>4
  <2>2. S \intersect live = {}
    BY <2>1 DEF Shape, Acyclic
  <2>3. S \in SUBSET new /\ \A x \in S : P[x] \in S
    BY <1>1, <1>2, <1>4, <2>2
  <2>4. QED
    BY <1>4, <2>3
<1>5. Acyclic'
  BY <1>4 DEF Acyclic
<1>6. ParentOnSameMap'
  BY <1>1, <1>2, <1>3 DEF ParentOnSameMap, Shape
<1>7. TagsInTenant'
  BY <1>1, <1>2 DEF TagsInTenant, Shape
<1>8. QED
  BY <1>5, <1>6, <1>7

(* Hanging n under a node outside its subtree closes no cycle: one would   *)
(* lie inside the subtree, and n's new parent is not there.                *)
LEMMA MoveAcyclic ==
    ASSUME TypeInv, Shape, NEW n \in live, NEW p \in live \union {NULL},
           p \notin Descendants(n),
           live' = live, parent' = [parent EXCEPT ![n] = p]
    PROVE  Acyclic'
<1> DEFINE D == Descendants(n)
<1>1. \A x \in live : parent'[x] = IF x = n THEN p ELSE parent[x]
  BY DEF TypeInv, TypeOK
<1>2. n \in D /\ D \subseteq live /\ \A d \in D : mapOf[d] = mapOf[n]
  BY DescendantsHaveParents
<1>3. ASSUME NEW x \in live, parent[x] \in D PROVE x \in D
  <2>1. mapOf[x] = mapOf[n]
    BY <1>2, <1>3 DEF Shape, ParentOnSameMap
  <2>2. x \in OnMap(mapOf[n]) /\ OnMap(mapOf[n]) \subseteq live
    BY <2>1 DEF OnMap
  <2>3. D = Subtree(n, OnMap(mapOf[n]))
    BY DEF Descendants
  <2>4. QED
    BY <1>3, <2>2, <2>3, SubtreeHasChildren
<1>4. ASSUME NEW S \in SUBSET live, S # {}, \A x \in S : parent'[x] \in S
      PROVE  FALSE
  <2> HIDE DEF D
  <2>1. \A x \in S \ D : parent[x] \in S \ D
    BY <1>1, <1>2, <1>3, <1>4
  <2>2. S \ D = {}
    BY <2>1 DEF Shape, Acyclic
  <2>3. n \notin S
    BY <1>1, <1>4, <2>2 DEF D
  <2>4. \A x \in S : parent[x] \in S
    BY <1>1, <1>4, <2>3
  <2>5. QED
    BY <1>4, <2>4 DEF Shape, Acyclic
<1>5. QED
  BY <1>4 DEF Acyclic

(* The discipline is kept: a move starts when nothing is in flight that it *)
(* excludes, and nothing that it excludes starts while it is.              *)
LEMMA ApartNext ==
    ASSUME SafeMode, TypeInv, Apart, [Next]_vars
    PROVE  Apart'
<1> USE DEF Apart
<1>0. DOMAIN req = Clients
  BY DEF TypeInv, TypeOK
<1>1. ASSUME NEW c \in Clients, NEW r, Begin(c, r), req[c].op # "none",
             r.op = req[c].op, r.map = req[c].map, r.dest = req[c].dest
      PROVE  Apart'
  <2>1. req[c] # Idle /\ \A d \in Clients : req'[d] = IF d = c THEN r ELSE req[d]
    BY <1>0, <1>1, IdleType DEF Begin
  <2>2. QED
    BY <1>1, <2>1
<1>2. ASSUME NEW c \in Clients, NEW r \in Requests, Start(c, r) PROVE Apart'
  <2>1. \A d \in Clients : req'[d] = IF d = c THEN r ELSE req[d]
    BY <1>0, <1>2 DEF Start, Begin
  <2>2. ASSUME NEW q, q \in Requests, NEW q2, q2 \in Requests, q.op = "move", q2.op \in Beside(q)
        PROVE  q2.op # "move" /\ q.dest = q.map
    BY <2>2 DEF Beside, SafeMode, Requests
  <2>3. ASSUME NEW d \in Clients, req[d] # Idle
        PROVE  /\ req[d] \in Requests
               /\ r.op = "move" => req[d].op \in Beside(r)
               /\ req[d].op = "move" => r.op \in Beside(req[d])
    BY <1>2, <2>3 DEF Start, MayStart, TypeInv, TypeOK
  <2>4. ASSUME NEW d \in Clients, req[d] # Idle
        PROVE  /\ r.op = "move" => req[d].op # "move" /\ r.dest = r.map
               /\ req[d].op = "move" => r.op # "move" /\ req[d].dest = req[d].map
    BY <1>2, <2>2, <2>3, <2>4
  <2>5. \A d \in Clients : req[d].op = "move" => req[d] # Idle
    BY IdleType
  <2>6. QED
    BY <2>1, <2>4, <2>5
<1>3. ASSUME NEW c \in Clients, Answer(c) PROVE Apart'
  BY <1>0, <1>3, IdleType DEF Answer
<1>4. ASSUME NEW c \in Clients, NEW pc, req[c].op # "none", GoTo(c, pc) PROVE Apart'
  <2> DEFINE r == [req[c] EXCEPT !.pc = pc]
  <2>1. req[c] \in Requests
    BY <1>4, IdleType DEF TypeInv, TypeOK
  <2>2. r.op = req[c].op /\ r.map = req[c].map /\ r.dest = req[c].dest
    BY <2>1 DEF Requests
  <2>3. Begin(c, r)
    BY <1>0, <1>4 DEF GoTo, Begin
  <2>4. QED
    BY <1>1, <1>4, <2>2, <2>3
<1>5. ASSUME NEW c \in Clients, CreateNode(c) PROVE Apart'
  BY <1>5, <1>2, CreateRequest
<1>6. ASSUME NEW c \in Clients, NEW op \in {"move", "copy"}, StartRelocation(c, op)
      PROVE  Apart'
  <2>1. \E r \in Requests : Start(c, r)
    BY <1>6, RelocationRequest
  <2>2. QED
    BY <2>1, <1>2
<1>7. ASSUME NEW c \in Clients, SetVisibility(c) PROVE Apart'
  BY <1>7, <1>2, SetvisRequest
<1>8. ASSUME NEW c \in Clients, MoveSubtree(c) PROVE Apart'
  BY <1>8, <1>1, <1>3, MoveRead
<1>9. ASSUME NEW c \in Clients, CopySubtree(c) PROVE Apart'
  BY <1>9, <1>1, <1>3, CopyRead
<1>10. ASSUME NEW c \in Clients, Request(c) PROVE Apart'
  BY <1>10, <1>5, <1>6, <1>7 DEF Request, MoveNode, CopyNode, DeleteNode
<1>11. ASSUME NEW c \in Clients, Handle(c) \/ DbError(c) PROVE Apart'
  BY <1>11, <1>3, <1>4, <1>8, <1>9
  DEF Handle, DbError, At, CreateParent, CreateCount, CreateInsert, MoveParent, CheckParent,
      MoveApply, MoveCommit, CopyParent, CopyCount, CopyCommit, VisibilityCommit
<1>12. QED
  BY <1>10, <1>11 DEF Next, vars

(* A request that goes on to another statement keeps all but its pc.       *)
LEMMA GoToRequest ==
    ASSUME TypeInv, NEW c \in Clients, req[c].op # "none", NEW pc, GoTo(c, pc)
    PROVE  \E r : /\ Begin(c, r) /\ r.pc = pc /\ req[c] \in Requests
                  /\ r.op = req[c].op /\ r.node = req[c].node /\ r.map = req[c].map
                  /\ r.dest = req[c].dest /\ r.par = req[c].par /\ r.groups = req[c].groups
                  /\ r.desc = req[c].desc /\ r.links = req[c].links
<1> DEFINE r == [req[c] EXCEPT !.pc = pc]
<1>1. req[c] \in Requests
  BY IdleType DEF TypeInv, TypeOK
<1>2. /\ r.op = req[c].op /\ r.node = req[c].node /\ r.map = req[c].map
      /\ r.dest = req[c].dest /\ r.par = req[c].par /\ r.groups = req[c].groups
      /\ r.desc = req[c].desc /\ r.links = req[c].links /\ r.pc = pc
  BY <1>1 DEF Requests
<1>3. Begin(c, r)
  BY DEF TypeInv, TypeOK, GoTo, Begin
<1> HIDE DEF r
<1>4. QED
  BY <1>1, <1>2, <1>3

LEMMA AnswerSafe ==
    ASSUME SafeInv, TypeInv', UNCHANGED tree, Apart', NEW c \in Clients, Answer(c)
    PROVE  SafeInv'
<1>1. Begin(c, Idle)
  BY DEF Answer, Begin
<1>2. QED
  BY <1>1, IdleReady, SameTree

(* The statements that start a request: it holds what they just read.      *)
LEMMA StartSafe ==
    ASSUME SafeMode, SafeInv, TypeInv', Apart', NEW c \in Clients,
           CreateNode(c) \/ MoveNode(c) \/ CopyNode(c) \/ SetVisibility(c)
    PROVE  SafeInv'
<1> USE DEF SafeInv
<1>1. live \subseteq Known
  BY DEF TypeInv, TypeOK
<1>2. CASE CreateNode(c)
  <2>1. PICK r \in Requests :
             /\ Start(c, r) /\ UNCHANGED tree
             /\ LinksInside(r) /\ r.op = "create" /\ r.pc \in {"count", "parent"}
             /\ r.par \in live \union {NULL} /\ (r.pc = "count" => r.par = NULL)
    BY <1>2, CreateRequest
  <2>2. NULL \notin live
    BY DEF TypeInv, TypeOK, Known, NULL
  <2>3. Ready(r)
    BY <1>1, <2>1, <2>2 DEF Ready, CreateReady, CopyReady, MoveReady, SetvisReady
  <2>4. QED
    BY <2>1, <2>3, SameTree DEF Start
<1>3. ASSUME NEW op \in {"move", "copy"}, StartRelocation(c, op) PROVE SafeInv'
  <2>1. PICK r \in Requests :
             /\ Start(c, r) /\ UNCHANGED tree
             /\ LinksInside(r) /\ r.op = op /\ r.pc \in {"parent", "subtree"}
             /\ r.node \in live /\ mapOf[r.node] = r.map
             /\ r.par \in live \union {NULL, Omitted}
             /\ r.pc = "subtree" => r.par \in {NULL, Omitted}
             /\ op = "copy" => r.par # Omitted
             /\ op = "move" => r.par # r.node
             /\ op = "move" /\ r.par = Omitted /\ r.dest # r.map => RelocateAlone
    BY <1>3, RelocationRequest
  <2>2. NULL \notin live /\ Omitted \notin live
    BY DEF TypeInv, TypeOK, Known, NULL, Omitted
  <2>3. r.op = "move" => MoveReady(r)
    BY <1>1, <2>1, <2>2, DescendantsHaveParents DEF MoveReady, SafeMode
  <2>4. r.op = "copy" => CopyReady(r)
    BY <1>1, <2>1, <2>2 DEF CopyReady
  <2>5. Ready(r)
    BY <1>3, <2>1, <2>3, <2>4 DEF Ready, CreateReady, CopyReady, MoveReady, SetvisReady
  <2>6. QED
    BY <2>1, <2>5, SameTree DEF Start
<1>4. CASE SetVisibility(c)
  <2>1. PICK r \in Requests :
             /\ Start(c, r) /\ UNCHANGED tree
             /\ LinksInside(r) /\ r.op = "setvis"
             /\ r.node \in live /\ mapOf[r.node] = r.map
             /\ \A g \in r.groups : GroupTenant[g] = TenantOf[r.map]
    BY <1>4, SetvisRequest
  <2>2. Ready(r)
    BY <1>1, <2>1 DEF Ready, CreateReady, CopyReady, MoveReady, SetvisReady
  <2>3. QED
    BY <2>1, <2>2, SameTree DEF Start
<1>5. QED
  BY <1>2, <1>3, <1>4 DEF MoveNode, CopyNode

(* The statements that only read: what they found is what the next one     *)
(* relies on.                                                              *)
LEMMA ReadSafe ==
    ASSUME SafeInv, TypeInv', Apart', NEW c \in Clients,
           \/ CreateParent(c) \/ CreateCount(c) \/ MoveParent(c) \/ MoveSubtree(c)
           \/ CopyParent(c) \/ CopySubtree(c) \/ CopyCount(c)
    PROVE  SafeInv'
<1>0. /\ TypeInv /\ Ready(req[c]) /\ Shape
      /\ \A m \in Maps : OnMap(m) = {n \in live : mapOf[n] = m}
  BY DEF SafeInv, OnMap
<1>1. CASE CreateParent(c)
  <2>1. CASE GoTo(c, "count")
    <3>1. /\ req[c].op = "create" /\ UNCHANGED tree
          /\ GoTo(c, "count") /\ (req[c].par \in OnMap(req[c].map) \/ Answer(c))
      BY <1>1, <2>1 DEF CreateParent, At
    <3>2. CASE Answer(c)
      BY <3>1, <3>2, AnswerSafe
    <3>3. CASE req[c].par \in OnMap(req[c].map)
      <4>1. PICK r : /\ Begin(c, r) /\ r.pc = "count" /\ req[c] \in Requests
                  /\ r.op = req[c].op /\ r.node = req[c].node /\ r.map = req[c].map
                  /\ r.dest = req[c].dest /\ r.par = req[c].par /\ r.groups = req[c].groups
                  /\ r.desc = req[c].desc /\ r.links = req[c].links
        BY <1>0, <3>1, GoToRequest
      <4>2. Ready(r)
        BY <1>0, <3>1, <3>3, <4>1
        DEF Ready, CreateReady, CopyReady, MoveReady, SetvisReady, OnMap
      <4>3. QED
        BY <3>1, <4>1, <4>2, SameTree
    <3>4. QED
      BY <3>1, <3>2, <3>3
  <2>2. CASE Answer(c)
    BY <1>1, <2>2, AnswerSafe DEF CreateParent
  <2>3. QED
    BY <1>1, <2>1, <2>2 DEF CreateParent
<1>2. CASE CreateCount(c)
  <2>1. CASE GoTo(c, "insert")
    <3>1. At(c, "create", "count") /\ UNCHANGED tree
      BY <1>2 DEF CreateCount
    <3>2. PICK r : /\ Begin(c, r) /\ r.pc = "insert" /\ req[c] \in Requests
                  /\ r.op = req[c].op /\ r.node = req[c].node /\ r.map = req[c].map
                  /\ r.dest = req[c].dest /\ r.par = req[c].par /\ r.groups = req[c].groups
                  /\ r.desc = req[c].desc /\ r.links = req[c].links
      BY <1>0, <2>1, <3>1, GoToRequest DEF At
    <3>3. Ready(r)
      BY <1>0, <3>1, <3>2 DEF At, Ready, CreateReady, CopyReady, MoveReady, SetvisReady
    <3>4. QED
      BY <3>1, <3>2, <3>3, SameTree
  <2>2. CASE Answer(c)
    BY <1>2, <2>2, AnswerSafe DEF CreateCount
  <2>3. QED
    BY <1>2, <2>1, <2>2 DEF CreateCount
<1>3. ASSUME NEW op \in {"move", "copy"}, CheckParent(c, op) PROVE SafeInv'
  <2>1. At(c, op, "parent") /\ UNCHANGED tree
    BY <1>3 DEF CheckParent
  <2>2. CASE GoTo(c, "subtree") /\ req[c].par \in OnMap(req[c].dest)
    <3>1. PICK r : /\ Begin(c, r) /\ r.pc = "subtree" /\ req[c] \in Requests
                  /\ r.op = req[c].op /\ r.node = req[c].node /\ r.map = req[c].map
                  /\ r.dest = req[c].dest /\ r.par = req[c].par /\ r.groups = req[c].groups
                  /\ r.desc = req[c].desc /\ r.links = req[c].links
      BY <1>0, <1>3, <2>1, <2>2, GoToRequest DEF At
    <3>2. mapOf[r.par] = r.dest
      BY <2>2, <3>1 DEF OnMap
    <3>3. Ready(r)
      BY <1>0, <1>3, <2>1, <3>1, <3>2
      DEF At, Ready, CreateReady, CopyReady, MoveReady, SetvisReady
    <3>4. QED
      BY <2>1, <3>1, <3>3, SameTree
  <2>3. CASE Answer(c)
    BY <2>1, <2>3, AnswerSafe
  <2>4. QED
    BY <1>3, <2>2, <2>3 DEF CheckParent
<1>4. CASE MoveSubtree(c)
  <2>1. CASE Answer(c)
    BY <1>0, <1>4, <2>1, AnswerSafe, MoveRead
  <2>2. CASE ~Answer(c)
    <3>1. PICK r \in Requests :
                    /\ Begin(c, r) /\ r.op = "move" /\ r.pc = "apply"
                    /\ r.desc = Descendants(r.node) /\ r.par \notin r.desc
                    /\ r.node = req[c].node /\ r.map = req[c].map
                    /\ r.dest = req[c].dest /\ r.par = req[c].par
      BY <1>0, <1>4, <2>2, MoveRead
    <3>2. req[c].op = "move" /\ req[c].pc = "subtree" /\ UNCHANGED tree
      BY <1>0, <1>4, MoveRead
    <3>3. r.desc \intersect live = Descendants(r.node)
      BY <3>1, DescendantsHaveParents
    <3>4. Ready(r)
      BY <1>0, <3>1, <3>2, <3>3 DEF Ready, CreateReady, CopyReady, MoveReady, SetvisReady
    <3>5. QED
      BY <3>1, <3>2, <3>4, SameTree
  <2>3. QED
    BY <2>1, <2>2
<1>5. CASE CopySubtree(c)
  <2>1. CASE Answer(c)
    BY <1>0, <1>5, <2>1, AnswerSafe, CopyRead
  <2>2. CASE ~Answer(c)
    <3>1. PICK r \in Requests :
                    /\ Begin(c, r) /\ r.op = "copy" /\ r.pc = "count"
                    /\ r.desc = Descendants(r.node)
                    /\ \A x \in r.desc : r.links[x] = parent[x]
                    /\ LinksInside(r) /\ r.map = req[c].map
                    /\ r.dest = req[c].dest /\ r.par = req[c].par
      BY <1>0, <1>5, <2>2, CopyRead
    <3>2. req[c].op = "copy" /\ req[c].pc = "subtree" /\ UNCHANGED tree
      BY <1>0, <1>5, CopyRead
    <3>3. r.desc \subseteq live
      BY <3>1, DescendantsHaveParents
    <3>4. LinksAcyclic(r)
      BY <1>0, <3>1, <3>3 DEF LinksAcyclic, Shape, Acyclic
    <3>5. Ready(r)
      BY <1>0, <3>1, <3>2, <3>4 DEF Ready, CreateReady, CopyReady, MoveReady, SetvisReady
    <3>6. QED
      BY <3>1, <3>2, <3>5, SameTree
  <2>3. QED
    BY <2>1, <2>2
<1>6. CASE CopyCount(c)
  <2>1. CASE GoTo(c, "commit")
    <3>1. At(c, "copy", "count") /\ UNCHANGED tree
      BY <1>6 DEF CopyCount
    <3>2. PICK r : /\ Begin(c, r) /\ r.pc = "commit" /\ req[c] \in Requests
                  /\ r.op = req[c].op /\ r.node = req[c].node /\ r.map = req[c].map
                  /\ r.dest = req[c].dest /\ r.par = req[c].par /\ r.groups = req[c].groups
                  /\ r.desc = req[c].desc /\ r.links = req[c].links
      BY <1>0, <2>1, <3>1, GoToRequest DEF At
    <3>3. CopyReady(r)
      BY <1>0, <3>1, <3>2 DEF At, Ready, CopyReady, LinksAcyclic
    <3>4. Ready(r)
      BY <3>1, <3>2, <3>3 DEF At, Ready, CreateReady, MoveReady, SetvisReady
    <3>5. QED
      BY <3>1, <3>2, <3>4, SameTree
  <2>2. CASE Answer(c)
    BY <1>6, <2>2, AnswerSafe DEF CopyCount
  <2>3. QED
    BY <1>6, <2>1, <2>2 DEF CopyCount
<1>7. QED
  BY <1>1, <1>2, <1>3, <1>4, <1>5, <1>6 DEF MoveParent, CopyParent

(* When a request ends by adding or tagging rows, the others in flight,    *)
(* none of which is a move to another map, can go on.                      *)
LEMMA OthersKept ==
    ASSUME SafeInv, TypeOK', NEW c \in Clients, Answer(c), req[c].op \notin {"none", "move"},
           Known \subseteq Known',
           \A x \in Known : x \in live' => x \in live /\ mapOf'[x] = mapOf[x],
           \A x \in Known : Descendants(x)' \intersect Known \subseteq Descendants(x)
    PROVE  \A d \in Clients : Ready(req[d])'
<1>1. \A d \in Clients : req'[d] = IF d = c THEN Idle ELSE req[d]
  BY DEF Answer, SafeInv, TypeInv, TypeOK
<1>2. ASSUME NEW d \in Clients, d # c PROVE Ready(req[d])'
  <2>1. CASE req[d].op # "move"
    BY <1>1, <1>2, <2>1, KeptRequest DEF SafeInv
  <2>2. CASE req[d].op = "move"
    <3>1. req[d].dest = req[d].map /\ MoveReady(req[d]) /\ req'[d] = req[d] /\ TypeInv
      BY <1>1, <1>2, <2>2, IdleType DEF SafeInv, Apart, Ready
    <3>2. PICK n : n = req[d].node
      OBVIOUS
    <3>3. Descendants(n)' \intersect Known \subseteq Descendants(n)
      BY <2>2, <3>1, <3>2 DEF MoveReady
    <3>4. QED
      BY <2>2, <3>1, <3>2, <3>3, KeptMove
  <2>3. QED
    BY <2>1, <2>2
<1>3. Ready(req[c])'
  <2>1. req'[c].op = "none"
    BY <1>1, IdleType
  <2>2. QED
    BY <2>1 DEF Ready, CreateReady, CopyReady, MoveReady, SetvisReady
<1>4. QED
  BY <1>2, <1>3

LEMMA CreateInsertSafe ==
    ASSUME SafeInv, TypeInv', Apart', NoOrphans', NEW c \in Clients, CreateInsert(c)
    PROVE  SafeInv'
<1> DEFINE r == req[c]
           P == [x \in {nextId} |-> r.par]
<1>1. TypeInv /\ Shape /\ Ready(r) /\ Answer(c) /\ r.op = "create" /\ r.pc = "insert"
  BY DEF SafeInv, CreateInsert, At
<1>2. CASE UNCHANGED tree
  BY <1>1, <1>2, AnswerSafe
<1>3. CASE ~UNCHANGED tree
  <2>1. /\ r \in Requests /\ References(r.par) /\ nextId \notin live /\ nextId # NULL
        /\ nextId' = nextId + 1 /\ live' = live \union {nextId}
        /\ mapOf' = [x \in live' |-> IF x = nextId THEN r.map ELSE mapOf[x]]
    BY <1>1, <1>3, CreateInsertRow
  <2>2. InsertRows(P, r.map)
    BY <1>3 DEF CreateInsert
  <2>3. r.map \in Maps /\ nextId \notin Known /\ nextId \in Nat
    BY <1>1, <2>1 DEF Requests, Known, TypeInv, TypeOK
  <2>4. r.par \in live => mapOf[r.par] = r.map
    BY <1>1 DEF Ready, CreateReady
  <2>5. /\ \A x \in DOMAIN P : x \notin Known /\ x # NULL
        /\ \A x \in DOMAIN P : P[x] \in live \union DOMAIN P \union {NULL}
        /\ \A x \in DOMAIN P : P[x] \in live => mapOf[P[x]] = r.map
    BY <2>1, <2>3, <2>4 DEF References
  <2>6. \A T \in SUBSET DOMAIN P : T # {} => \E x \in T : P[x] \notin T
    BY <2>1 DEF References
  <2>7. (Acyclic /\ ParentOnSameMap /\ TagsInTenant)'
    <3> HIDE DEF P, r
    <3>1. QED
      BY <1>1, <2>2, <2>3, <2>5, <2>6, InsertShape
  <2>8. Known \subseteq Known'
    BY <2>1, <2>3 DEF Known
  <2>9. \A x \in Known : x \in live' => x \in live /\ mapOf'[x] = mapOf[x]
    BY <2>1, <2>3
  <2>10. \A d \in Clients : Ready(req[d])'
    <3>1. ASSUME NEW x \in Known PROVE Descendants(x)' \intersect Known \subseteq Descendants(x)
      <4> HIDE DEF P, r
      <4>1. QED
        BY <1>1, <2>2, <2>5, DescendantsAfterInsert
    <3>2. QED
      BY <1>1, <2>8, <2>9, <3>1, OthersKept DEF TypeInv
  <2>11. QED
    BY <2>7, <2>10 DEF SafeInv, Shape
<1>4. QED
  BY <1>2, <1>3

(* The copies are as acyclic as the rows they were made from: a cycle of   *)
(* copies would be the image of one.                                       *)
LEMMA CopyCommitSafe ==
    ASSUME SafeInv, TypeInv', Apart', NoOrphans', NEW c \in Clients, CopyCommit(c)
    PROVE  SafeInv'
<1> DEFINE r == req[c]
<1>1. TypeInv /\ Shape /\ Ready(r) /\ Answer(c) /\ r.op = "copy" /\ r.pc = "commit"
  BY DEF SafeInv, CopyCommit, At
<1>2. CASE UNCHANGED tree
  BY <1>1, <1>2, AnswerSafe
<1>3. CASE ~UNCHANGED tree
  <2>1. r \in Requests /\ References(r.par)
    BY <1>1, <1>3, CopyCommitRows
  <2>2. PICK b \in IdMaps(r) :
                 /\ InsertRows(CopiedParents(r, b), r.dest)
                 /\ DOMAIN CopiedParents(r, b) = {b[y] : y \in r.desc}
                 /\ \A y \in r.desc :
                       /\ b[y] \notin Known /\ b[y] # NULL
                       /\ CopiedParents(r, b)[b[y]] =
                             IF y = r.node THEN r.par ELSE b[r.links[y]]
                       /\ y # r.node => r.links[y] \in r.desc
    BY <1>1, <1>3, CopyCommitRows
  <2> DEFINE P == CopiedParents(r, b)
             new == {b[y] : y \in r.desc}
  <2>3. \A x, y \in r.desc : b[x] = b[y] => x = y
    BY DEF IdMaps
  <2>4. /\ r.dest \in Maps /\ live \subseteq Known
        /\ r.par \in live \union {NULL} /\ (r.par \in live => mapOf[r.par] = r.dest)
        /\ \A T \in SUBSET r.desc : T # {} => \E x \in T : r.links[x] \notin T
    BY <1>1, <2>1
    DEF Requests, TypeInv, TypeOK, References, Ready, CopyReady, LinksAcyclic
  <2>5. r.par \notin new
    BY <2>2, <2>4
  <2>6. /\ \A x \in new : x \notin Known /\ x # NULL
        /\ \A x \in new : P[x] \in live \union new \union {NULL}
    BY <2>2, <2>4
  <2>7. \A x \in new : P[x] \in live => mapOf[P[x]] = r.dest
    BY <2>2, <2>4
  <2>8. ASSUME NEW S \in SUBSET new, S # {}, \A x \in S : P[x] \in S
        PROVE  FALSE
    <3> DEFINE T == {y \in r.desc : b[y] \in S}
    <3>1. T \in SUBSET r.desc /\ T # {}
      BY <2>8
    <3>2. PICK y \in T : r.links[y] \notin T
      BY <3>1, <2>4
    <3>3. y \in r.desc /\ b[y] \in S
      BY <3>1
    <3>4. P[b[y]] \in S
      BY <2>8, <3>3
    <3>5. y # r.node
      BY <2>2, <2>5, <2>8, <3>3, <3>4
    <3>6. P[b[y]] = b[r.links[y]] /\ r.links[y] \in r.desc
      BY <2>2, <3>3, <3>5
    <3>7. r.links[y] \in T
      BY <3>4, <3>6
    <3>8. QED
      BY <3>2, <3>7
  <2>9. \A S \in SUBSET new : S # {} => \E x \in S : P[x] \notin S
    BY <2>8
  <2>10. (Acyclic /\ ParentOnSameMap /\ TagsInTenant)'
    <3>1. DOMAIN P = new /\ InsertRows(P, r.dest)
      BY <2>2
    <3> HIDE DEF P, new, r
    <3>2. QED
      BY <1>1, <2>4, <2>6, <2>7, <2>9, <3>1, InsertShape
  <2>11. \A x \in Known : x \in live' => x \in live /\ mapOf'[x] = mapOf[x]
    BY <2>2, <2>6 DEF InsertRows
  <2>12. Known \subseteq Known'
    <3>1. Cardinality(r.desc) \in Nat
      BY <2>1, IdsFinite DEF Requests
    <3>2. nextId' = nextId + Cardinality(r.desc) /\ nextId \in Nat
      BY <1>1, <1>3 DEF CopyCommit, TypeInv, TypeOK
    <3>3. QED
      BY <3>1, <3>2 DEF Known
  <2>13. \A d \in Clients : Ready(req[d])'
    <3>1. ASSUME NEW x \in Known PROVE Descendants(x)' \intersect Known \subseteq Descendants(x)
      <4>1. InsertRows(P, r.dest) /\ \A y \in DOMAIN P : y \notin Known /\ y # NULL
        BY <2>2, <2>6
      <4> HIDE DEF P, new, r
      <4>2. QED
        BY <1>1, <4>1, DescendantsAfterInsert
    <3>2. QED
      BY <1>1, <2>11, <2>12, <3>1, OthersKept DEF TypeInv
  <2>14. QED
    BY <2>10, <2>13 DEF SafeInv, Shape
<1>4. QED
  BY <1>2, <1>3

LEMMA VisibilityCommitSafe ==
    ASSUME SafeInv, TypeInv', Apart', NoOrphans', NEW c \in Clients,
           VisibilityCommit(c)
    PROVE  SafeInv'
<1> DEFINE r == req[c]
<1>1. /\ TypeInv /\ Shape /\ Ready(r) /\ Answer(c) /\ r.op = "setvis"
      /\ live' = live /\ parent' = parent /\ mapOf' = mapOf /\ nextId' = nextId
  BY DEF SafeInv, VisibilityCommit, At
<1>2. \A n \in live : tags'[n] = tags[n] \/ (n = r.node /\ tags'[n] = r.groups)
  BY <1>1 DEF VisibilityCommit, TypeInv, TypeOK
<1>3. (Acyclic /\ ParentOnSameMap /\ TagsInTenant)'
  <2>1. Acyclic' /\ ParentOnSameMap'
    BY <1>1 DEF Shape, Acyclic, ParentOnSameMap
  <2>2. TagsInTenant'
    BY <1>1, <1>2 DEF Shape, TagsInTenant, Ready, SetvisReady
  <2>3. QED
    BY <2>1, <2>2
<1>4. \A d \in Clients : Ready(req[d])'
  <2>1. Known \subseteq Known' /\ \A x \in Known : x \in live' => x \in live /\ mapOf'[x] = mapOf[x]
    BY <1>1 DEF Known
  <2>2. \A x \in Known : Descendants(x)' = Descendants(x)
    BY <1>1 DEF Descendants, Subtree, OnMap
  <2>3. QED
    BY <1>1, <2>1, <2>2, OthersKept DEF TypeInv
<1>5. QED
  BY <1>3, <1>4 DEF SafeInv, Shape

(* A delete runs at once, and leaves every move that it overlaps with the  *)
(* rest of its subtree.                                                    *)
LEMMA DeleteNodeSafe ==
    ASSUME SafeInv, TypeInv', Apart', NoOrphans', NEW c \in Clients, DeleteNode(c)
    PROVE  SafeInv'
<1>1. PICK n \in live : DeleteRows(Subtree(n, live)) /\ nextId' = nextId /\ req' = req
  BY DEF DeleteNode, OnMap
<1> DEFINE gone == Subtree(n, live)
<1>2. /\ live' = live \ gone
      /\ \A x \in live' : /\ x \in live /\ parent'[x] = parent[x]
                          /\ mapOf'[x] = mapOf[x] /\ tags'[x] = tags[x]
  BY <1>1 DEF DeleteRows
<1>3. Acyclic'
  <2>1. ASSUME NEW S \in SUBSET live', S # {} PROVE \E x \in S : parent'[x] \notin S
    <3>1. S \in SUBSET live
      BY <1>2
    <3>2. PICK x \in S : parent[x] \notin S
      BY <2>1, <3>1 DEF SafeInv, Shape, Acyclic
    <3>3. QED
      BY <1>2, <3>2
  <2>2. QED
    BY <2>1 DEF Acyclic
<1>4. ParentOnSameMap' /\ TagsInTenant'
  BY <1>2 DEF SafeInv, Shape, ParentOnSameMap, TagsInTenant
<1>5. ASSUME NEW d \in Clients PROVE Ready(req[d])'
  <2>1. PICK m : m = req[d].node
    OBVIOUS
  <2>2. Known \subseteq Known' /\ \A x \in Known : x \in live' => x \in live /\ mapOf'[x] = mapOf[x]
    BY <1>1, <1>2 DEF Known
  <2>3. Ready(req[d]) /\ TypeInv /\ TypeOK' /\ req'[d] = req[d]
    BY <1>1 DEF SafeInv, TypeInv
  <2>4. Descendants(m)' = Descendants(m) \intersect live'
    BY <1>1, DescendantsAfterDelete
  <2>5. live' \subseteq live
    BY <1>2
  <2>6. CASE req[d].op # "move"
    BY <2>2, <2>3, <2>6, KeptRequest
  <2>7. CASE req[d].op = "move"
    <3>1. MoveReady(req[d])
      BY <2>3 DEF Ready
    <3>2. Descendants(m)' \intersect Known \subseteq Descendants(m)
      BY <2>4
    <3> HIDE DEF gone
    <3>3. QED
      BY <2>1, <2>2, <2>3, <2>4, <2>5, <2>7, <3>1, <3>2, KeptMove
  <2>8. QED
    BY <2>6, <2>7
<1>6. QED
  BY <1>3, <1>4, <1>5 DEF SafeInv, Shape

(* A move that commits still has what it read, less what was deleted.      *)
LEMMA MoveStillReady ==
    ASSUME SafeInv, NEW c \in Clients, At(c, "move", "apply")
    PROVE  /\ req[c] \in Requests /\ MoveReady(req[c])
           /\ req[c].op = "move" /\ req[c].pc = "apply"
           /\ req[c].par \notin Descendants(req[c].node)
           /\ req[c].dest # req[c].map =>
                 req[c].desc \intersect live = Descendants(req[c].node)
<1>1. req[c] \in Requests /\ MoveReady(req[c]) /\ req[c].op = "move" /\ req[c].pc = "apply"
  BY IdleType DEF SafeInv, TypeInv, TypeOK, Ready, At
<1>2. QED
  BY <1>1 DEF MoveReady

(* The requests that a move leaves in flight can go on: after one on its   *)
(* map no row has changed map, after one to another map there is none.     *)
LEMMA OthersKeptByMove ==
    ASSUME SafeInv, TypeInv', NEW c \in Clients, req[c].op = "move", Answer(c),
           live' = live, nextId' = nextId, req[c].dest = req[c].map => mapOf' = mapOf
    PROVE  \A d \in Clients : Ready(req[d])'
<1>1. \A d \in Clients : req'[d] = IF d = c THEN Idle ELSE req[d]
  BY DEF Answer, SafeInv, TypeInv, TypeOK
<1>2. ASSUME NEW d \in Clients, req'[d] = Idle PROVE Ready(req[d])'
  <2>1. req'[d].op = "none"
    BY <1>2, IdleType
  <2>2. QED
    BY <2>1 DEF Ready, CreateReady, CopyReady, MoveReady, SetvisReady
<1>3. ASSUME NEW d \in Clients, req'[d] # Idle PROVE Ready(req[d])'
  <2>1. d # c /\ req'[d] = req[d] /\ req[d].op # "move" /\ req[c].dest = req[c].map
    BY <1>1, <1>3 DEF SafeInv, Apart
  <2>2. Known \subseteq Known' /\ \A x \in Known : x \in live' => x \in live /\ mapOf'[x] = mapOf[x]
    BY <2>1 DEF Known
  <2>3. QED
    BY <2>1, <2>2, KeptRequest DEF SafeInv, TypeInv
<1>4. QED
  BY <1>2, <1>3

LEMMA MoveApplySafe ==
    ASSUME SafeInv, TypeInv', Apart', NoOrphans', NEW c \in Clients, MoveApply(c)
    PROVE  SafeInv'
<1> DEFINE r == req[c]
<1>1. /\ TypeInv /\ Shape /\ At(c, "move", "apply") /\ Answer(c) /\ r.dest = r.map
      /\ live' = live /\ mapOf' = mapOf /\ tags' = tags /\ nextId' = nextId
  BY DEF SafeInv, MoveApply
<1>2. /\ MoveReady(r) /\ r.op = "move" /\ r.par \notin Descendants(r.node)
      /\ \A d \in Clients : Ready(req[d])'
  BY <1>1, MoveStillReady, OthersKeptByMove DEF At
<1>3. CASE parent' = parent
  BY <1>1, <1>3, AnswerSafe DEF tree
<1>4. CASE parent' # parent
  <2>1. /\ r.node \in live /\ r.par # Omitted /\ ParentAccepted(r)
        /\ parent' = [parent EXCEPT ![r.node] = r.par]
    BY <1>4 DEF MoveApply, SetParent
  <2>0. r.par \in live \union {NULL}
    BY <2>1 DEF ParentAccepted, References
  <2>2. Acyclic'
    BY <1>1, <1>2, <2>0, <2>1, MoveAcyclic
  <2>3. \A x \in live : parent'[x] = IF x = r.node THEN r.par ELSE parent[x]
    BY <1>1, <2>1 DEF TypeInv, TypeOK
  <2>4. r.par \in live => mapOf[r.par] = mapOf[r.node]
    BY <1>1, <1>2, <2>1 DEF MoveReady, At
  <2>5. ParentOnSameMap' /\ TagsInTenant'
    BY <1>1, <2>3, <2>4 DEF Shape, ParentOnSameMap, TagsInTenant
  <2>6. QED
    BY <1>2, <2>2, <2>5 DEF SafeInv, Shape
<1>5. QED
  BY <1>3, <1>4

(* A move to another map of a node deleted meanwhile changes nothing: its  *)
(* subtree went with it.                                                   *)
LEMMA GoneMovesNothing ==
    ASSUME SafeInv, NEW c \in Clients, MoveCommit(c), req[c].node \notin live
    PROVE  UNCHANGED <<mapOf, tags, parent>>
<1> DEFINE r == req[c]
<1>1. TypeInv /\ At(c, "move", "apply") /\ r.dest # r.map
  BY DEF SafeInv, MoveCommit
<1>2. r.desc \intersect live = Descendants(r.node)
  BY <1>1, MoveStillReady
<1>3. \A x \in live : x \notin r.desc
  BY <1>2 DEF Descendants
<1>4. mapOf = [x \in live |-> mapOf[x]] /\ tags = [x \in live |-> tags[x]]
  BY <1>1 DEF TypeInv, TypeOK
<1>5. QED
  BY <1>3, <1>4 DEF MoveCommit, SetParent

(* The rows that change map are those of the subtree, and only its root    *)
(* had a parent outside; nothing outside has a parent inside.              *)
LEMMA MoveCommitSafe ==
    ASSUME SafeInv, TypeInv', Apart', NoOrphans', NEW c \in Clients, MoveCommit(c)
    PROVE  SafeInv'
<1> DEFINE r == req[c]
           D == Descendants(r.node)
<1>1. /\ TypeInv /\ Shape /\ At(c, "move", "apply") /\ Answer(c) /\ r.dest # r.map
      /\ live' = live /\ nextId' = nextId
  BY DEF SafeInv, MoveCommit
<1>2. /\ MoveReady(r) /\ r.op = "move" /\ r.desc \intersect live = D /\ r.par \notin D
      /\ \A d \in Clients : Ready(req[d])'
  BY <1>1, MoveStillReady, OthersKeptByMove DEF At
<1>3. CASE UNCHANGED <<mapOf, tags, parent>>
  BY <1>1, <1>3, AnswerSafe DEF tree
<1>4. CASE ~UNCHANGED <<mapOf, tags, parent>>
  <2>1. /\ r.node \in live /\ r.par \in live \union {NULL} /\ r.par # Omitted
        /\ r.par \in live => mapOf[r.par] = r.dest
    <3>1. r.node \in live /\ ParentAccepted(r)
      BY <1>4, GoneMovesNothing DEF MoveCommit
    <3>2. r.par # Omitted
      BY <1>1, <1>2 DEF MoveReady
    <3>3. QED
      BY <1>1, <1>2, <3>1, <3>2 DEF ParentAccepted, References, MoveReady, At
  <2>2. /\ mapOf' = [x \in live |-> IF x \in r.desc THEN r.dest ELSE mapOf[x]]
        /\ tags'  = [x \in live |-> IF x \in r.desc THEN {} ELSE tags[x]]
        /\ SetParent(r.node, r.par)
    BY <1>4 DEF MoveCommit
  <2>3. parent' = [parent EXCEPT ![r.node] = r.par]
    BY <2>1, <2>2 DEF SetParent
  <2>4. /\ \A x \in live : x \in r.desc <=> x \in D
        /\ \A x \in live : mapOf'[x] = IF x \in D THEN r.dest ELSE mapOf[x]
        /\ \A x \in live : tags'[x] = IF x \in D THEN {} ELSE tags[x]
        /\ \A x \in live : parent'[x] = IF x = r.node THEN r.par ELSE parent[x]
    BY <1>1, <1>2, <2>2, <2>3 DEF TypeInv, TypeOK
  <2>5. Acyclic'
    BY <1>1, <1>2, <2>1, <2>3, MoveAcyclic
  <2>6. /\ D \subseteq live /\ r.node \in D
        /\ \A d \in D : d # r.node => parent[d] \in D
        /\ \A d \in D : mapOf[d] = mapOf[r.node]
    BY <2>1, DescendantsHaveParents
  <2>7. ASSUME NEW x \in live, parent[x] \in D PROVE x \in D
    <3>1. mapOf[x] = mapOf[r.node]
      BY <1>1, <2>6, <2>7 DEF Shape, ParentOnSameMap
    <3>2. x \in OnMap(mapOf[r.node]) /\ OnMap(mapOf[r.node]) \subseteq live
      BY <3>1 DEF OnMap
    <3>3. D = Subtree(r.node, OnMap(mapOf[r.node]))
      BY <2>1 DEF Descendants
    <3>4. QED
      BY <2>7, <3>2, <3>3, SubtreeHasChildren
  <2>8. ASSUME NEW x \in live, parent'[x] \in live PROVE mapOf'[parent'[x]] = mapOf'[x]
    <3> HIDE DEF D
    <3>1. CASE x = r.node
      BY <1>2, <2>1, <2>4, <2>6, <2>8, <3>1
    <3>2. CASE x # r.node /\ x \in D
      BY <2>4, <2>6, <2>8, <3>2
    <3>3. CASE x \notin D
      <4>1. x # r.node /\ parent[x] \notin D
        BY <2>6, <2>7, <3>3
      <4>2. QED
        BY <1>1, <2>4, <2>8, <3>3, <4>1 DEF Shape, ParentOnSameMap
    <3>4. QED
      BY <3>1, <3>2, <3>3
  <2>9. ParentOnSameMap'
    BY <1>1, <2>8 DEF ParentOnSameMap
  <2>10. TagsInTenant'
    BY <1>1, <2>4 DEF Shape, TagsInTenant
  <2>11. QED
    BY <1>2, <2>5, <2>9, <2>10 DEF SafeInv, Shape
<1>5. QED
  BY <1>3, <1>4

LEMMA SafeInit == Init => SafeInv
<1> SUFFICES ASSUME Init PROVE SafeInv
  OBVIOUS
<1>1. Shape
  BY DEF Init, Shape, NoOrphans, Acyclic, ParentOnSameMap, TagsInTenant
<1>2. Apart /\ \A c \in Clients : Ready(req[c])
  BY IdleReady, IdleType DEF Init, Apart
<1>3. QED
  BY <1>1, <1>2, TypeInit DEF SafeInv

LEMMA SafeNext == SafeMode /\ SafeInv /\ [Next]_vars => SafeInv'
<1> SUFFICES ASSUME SafeMode, SafeInv, [Next]_vars PROVE SafeInv'
  OBVIOUS
<1>1. TypeInv' /\ Apart' /\ NoOrphans'
  BY TypeNext, ApartNext, OrphansNext DEF SafeInv, Shape
<1>2. ASSUME NEW c \in Clients, Request(c) PROVE SafeInv'
  BY <1>1, <1>2, StartSafe, DeleteNodeSafe DEF Request
<1>3. ASSUME NEW c \in Clients, Handle(c) PROVE SafeInv'
  BY <1>1, <1>3, ReadSafe, CreateInsertSafe, MoveApplySafe, MoveCommitSafe, CopyCommitSafe,
     VisibilityCommitSafe DEF Handle
<1>4. ASSUME NEW c \in Clients, DbError(c) PROVE SafeInv'
  BY <1>1, <1>4, AnswerSafe DEF DbError
<1>5. CASE UNCHANGED vars
  <2>1. Shape'
    BY <1>5 DEF vars, SafeInv, Shape, NoOrphans, References, Acyclic, ParentOnSameMap,
       TagsInTenant
  <2>2. ASSUME NEW d \in Clients PROVE Ready(req[d])'
    <3>1. /\ live' = live /\ mapOf' = mapOf /\ parent' = parent /\ Known' = Known
          /\ req' = req
      BY <1>5 DEF vars, Known
    <3>2. CreateReady(req[d])' /\ CopyReady(req[d])'
      BY <3>1 DEF SafeInv, Ready, CreateReady, CopyReady, LinksAcyclic
    <3>3. MoveReady(req[d])'
      BY <3>1 DEF SafeInv, Ready, MoveReady, Descendants, Subtree, OnMap
    <3>4. SetvisReady(req[d])'
      BY <3>1 DEF SafeInv, Ready, SetvisReady
    <3>5. QED
      BY <3>2, <3>3, <3>4 DEF Ready
  <2>3. QED
    BY <1>1, <2>1, <2>2 DEF SafeInv
<1>6. QED
  BY <1>2, <1>3, <1>4, <1>5 DEF Next

LEMMA SafeAlways == SafeMode /\ Init /\ [][Next]_vars => []SafeInv
<1>1. SafeMode /\ Init => SafeInv
  BY SafeInit
<1>2. SafeMode /\ SafeInv /\ [Next]_vars => SafeInv'
  BY SafeNext
<1>3. SafeMode => []SafeMode
  OBVIOUS
<1>4. QED
  BY <1>1, <1>2, <1>3, PTL

(* With moves apart and every move across maps naming its parent, no       *)
(* interleaving of the five handlers closes a cycle: the one cycle check,  *)
(* made in moveNode before its UPDATE, is enough.                          *)
THEOREM AlwaysAcyclic == SafeMode => (Spec => []Acyclic)
<1>1. SafeInv => Acyclic
  BY DEF SafeInv, Shape
<1>2. QED
  BY <1>1, SafeAlways, PTL DEF Spec

(* Under the same two conditions a node and its parent are always on one   *)
(* map: the handlers' checks enforce what the schema leaves to them.       *)
THEOREM ParentsShareTheMap == SafeMode => (Spec => []ParentOnSameMap)
<1>1. SafeInv => ParentOnSameMap
  BY DEF SafeInv, Shape
<1>2. QED
  BY <1>1, SafeAlways, PTL DEF Spec

(* Under the same two conditions no node carries another tenant's group:   *)
(* setVisibility checks the tenant, and a move across maps clears the tags. *)
THEOREM TagsStayInTenant == SafeMode => (Spec => []TagsInTenant)
<1>1. SafeInv => TagsInTenant
  BY DEF SafeInv, Shape
<1>2. QED
  BY <1>1, SafeAlways, PTL DEF Spec

=============================================================================
