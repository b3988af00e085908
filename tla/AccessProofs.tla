---------------------------- MODULE AccessProofs ----------------------------
(***************************************************************************)
(* Proofs about module Access, for any users, maps, nodes and groups.      *)
(*                                                                         *)
(*  1. The nodes the code's walk upwards shows are those that tags handed  *)
(*     down from an override reach (ResolveInherits, SubtreeIsSeen).       *)
(*     Both walks are functions defined by recursion on their step number; *)
(*     Iteration says such functions exist, by the least number for which  *)
(*     they would not, so that the recursion may be unfolded.              *)
(*  2. Every handler that writes keeps the tables well formed              *)
(*     (WritesKeepTables).                                                 *)
(*  3. A request under way holds only what its reader could see since it   *)
(*     asked (Honest).  Every reading statement keeps this, because what   *)
(*     it adds is shown at its own instant; every other step keeps it,     *)
(*     because what was seen only grows (InvStep).                         *)
(*  4. Where the tree is shallow enough the two walks find all they should *)
(*     (SeenIsUnhidden, ReachesAreRows), so that a page without gaps loses *)
(*     nothing of what was reached all the time (Paged).                   *)
(***************************************************************************)
EXTENDS Access, Recursion, FiniteSetTheorems, TLAPS

-----------------------------------------------------------------------------
(* Visibility.                                                             *)

RowsOK ==
    /\ live \subseteq Ids /\ parent \in [live -> live \union {NULL}]
    /\ mapOf \in [live -> LiveMaps \union {Elsewhere}]

(* cur climbs in k steps from n to r, over nodes without an override.      *)
IsWalk(cur, k, n, r) ==
    /\ cur[0] = n /\ cur[k] = r
    /\ \A i \in 1 .. k :
          cur[i - 1] \in live /\ ~override[cur[i - 1]] /\ parent[cur[i - 1]] = cur[i]

(* The recursion of Resolve, unfolded.                                     *)
LEMMA ResolveUnfolds ==
    ASSUME RowsOK, NEW n \in live
    PROVE  \E cur : /\ Resolve(n) = {cur[k] : k \in 0 .. MAX_NODE_DEPTH} \intersect live
                    /\ cur[0] = n
                    /\ \A k \in 1 .. MAX_NODE_DEPTH :
                          cur[k] = IF cur[k - 1] = NULL \/ override[cur[k - 1]] THEN NULL
                                   ELSE parent[cur[k - 1]]
<1> DEFINE D == live \union {NULL}
           F == [x \in D |-> IF x = NULL \/ override[x] THEN NULL ELSE parent[x]]
           Eq(g) == g = [k \in 0 .. MAX_NODE_DEPTH |->
                           IF k = 0 THEN n
                           ELSE IF g[k - 1] = NULL \/ override[g[k - 1]] THEN NULL
                           ELSE parent[g[k - 1]]]
           cur == CHOOSE g : Eq(g)
<1>0. MAX_NODE_DEPTH \in Nat /\ NULL \notin live /\ parent \in [live -> D]
  BY AccessAssumption DEF RowsOK, Ids, NULL
<1>1. F \in [D -> D] /\ n \in D
  BY <1>0
<1>2. PICK g : g \in Iterates(D, F, n, MAX_NODE_DEPTH)
  <2> HIDE DEF D, F
  <2>1. Iterates(D, F, n, MAX_NODE_DEPTH) # {}
    BY <1>0, <1>1, Iteration
  <2> QED
    BY <2>1
<1>3. g \in [0 .. MAX_NODE_DEPTH -> D] /\ g[0] = n
      /\ \A k \in 1 .. MAX_NODE_DEPTH : g[k] = F[g[k - 1]]
  BY <1>2 DEF Iterates
<1>4. \A k \in 1 .. MAX_NODE_DEPTH :
          g[k] = IF g[k - 1] = NULL \/ override[g[k - 1]] THEN NULL ELSE parent[g[k - 1]]
  <2> SUFFICES ASSUME NEW k \in 1 .. MAX_NODE_DEPTH
               PROVE  g[k] = IF g[k - 1] = NULL \/ override[g[k - 1]] THEN NULL ELSE parent[g[k - 1]]
    OBVIOUS
  <2>1. g[k - 1] \in D
    BY <1>0, <1>3
  <2> QED
    BY <2>1, <1>3
<1>5. Eq(g)
  <2>1. g = [k \in 0 .. MAX_NODE_DEPTH |-> g[k]]
    BY <1>3
  <2>2. \A k \in 0 .. MAX_NODE_DEPTH :
           g[k] = IF k = 0 THEN n
                  ELSE IF g[k - 1] = NULL \/ override[g[k - 1]] THEN NULL ELSE parent[g[k - 1]]
    BY <1>0, <1>3, <1>4
  <2> QED
    BY <2>1, <2>2
<1>6. Eq(cur)
  BY <1>5
<1>7. /\ cur[0] = n
      /\ \A k \in 1 .. MAX_NODE_DEPTH :
            cur[k] = IF cur[k - 1] = NULL \/ override[cur[k - 1]] THEN NULL ELSE parent[cur[k - 1]]
  <2> HIDE DEF cur
  <2> QED
    BY <1>0, <1>6
<1>8. Resolve(n) = {cur[k] : k \in 0 .. MAX_NODE_DEPTH} \intersect live
  BY DEF Resolve
<1> HIDE DEF cur
<1> QED
  BY <1>7, <1>8

(* Reading the walk of the CTE from its start.                             *)
LEMMA Walk ==
    ASSUME RowsOK,
           NEW n \in live, NEW r \in Resolve(n)
    PROVE  r \in live /\ \E k \in 0 .. MAX_NODE_DEPTH : \E cur : IsWalk(cur, k, n, r)
<1>0. MAX_NODE_DEPTH \in Nat /\ NULL \notin live /\ parent \in [live -> live \union {NULL}]
  BY AccessAssumption DEF RowsOK, Ids, NULL
<1>7. PICK cur : /\ Resolve(n) = {cur[k] : k \in 0 .. MAX_NODE_DEPTH} \intersect live
                 /\ cur[0] = n
                 /\ \A k \in 1 .. MAX_NODE_DEPTH :
                       cur[k] = IF cur[k - 1] = NULL \/ override[cur[k - 1]] THEN NULL
                                ELSE parent[cur[k - 1]]
  BY ResolveUnfolds
<1>9. PICK k \in 0 .. MAX_NODE_DEPTH : cur[k] = r /\ r \in live
  BY <1>7
<1>10. \A i \in 0 .. k : cur[i] # NULL
  <2> DEFINE T == {d \in Nat : d <= k /\ cur[k - d] = NULL}
  <2>1. ASSUME T # {} PROVE FALSE
    <3>1. PICK d \in T : \A y \in T : d <= y
      BY <2>1, Smallest, T \subseteq Nat
    <3>2. d # 0
      BY <3>1, <1>9, <1>0
    <3>3. k - d \in Nat /\ k - d + 1 \in 1 .. MAX_NODE_DEPTH /\ (k - d + 1) - 1 = k - d /\ cur[k - d] = NULL
      BY <3>1, <3>2, <1>0
    <3>4. cur[k - d + 1] = NULL
      BY <3>3, <1>7
    <3>5. d - 1 \in T
      BY <3>1, <3>2, <3>4
    <3> QED
      BY <3>1, <3>5
  <2>2. ASSUME NEW i \in 0 .. k PROVE cur[i] # NULL
    <3>1. k - i \in Nat /\ k - i <= k /\ k - (k - i) = i
      BY <1>0
    <3> QED
      BY <3>1, <2>1
  <2> QED
    BY <2>2
<1>11. \A i \in 0 .. k : cur[i] \in live
  <2> DEFINE T == {i \in Nat : i <= k /\ cur[i] \notin live}
  <2>1. ASSUME T # {} PROVE FALSE
    <3>1. PICK i \in T : \A y \in T : i <= y
      BY <2>1, Smallest, T \subseteq Nat
    <3>2. i # 0
      BY <3>1, <1>7
    <3>3. i - 1 \in 0 .. k /\ i \in 1 .. MAX_NODE_DEPTH /\ i \in 0 .. k
      BY <3>1, <3>2, <1>0
    <3>4. cur[i - 1] \in live
      BY <3>1, <3>3
    <3>5. cur[i] = parent[cur[i - 1]]
      BY <3>3, <1>7, <1>10
    <3>6. cur[i] \in live
      BY <3>3, <3>4, <3>5, <1>0, <1>10
    <3> QED
      BY <3>1, <3>6
  <2> QED
    BY <2>1, <1>0
<1>12. ASSUME NEW i \in 1 .. k
       PROVE  cur[i - 1] \in live /\ ~override[cur[i - 1]] /\ parent[cur[i - 1]] = cur[i]
  <2>1. i - 1 \in 0 .. k /\ i \in 0 .. k /\ i \in 1 .. MAX_NODE_DEPTH
    BY <1>0
  <2> QED
    BY <2>1, <1>7, <1>10, <1>11
<1>13. IsWalk(cur, k, n, r)
  BY <1>7, <1>9, <1>12 DEF IsWalk
<1> QED
  BY <1>9, <1>13

(* What the walk upwards finds is what tags handed down give.              *)
LEMMA ResolveInherits ==
    ASSUME RowsOK, NEW n \in live, NEW r \in Resolve(n)
    PROVE  r \in live /\ n \in Inherits(r)
<1>0. PICK k \in 0 .. MAX_NODE_DEPTH : r \in live /\ \E cur : IsWalk(cur, k, n, r)
  BY Walk
<1>1. PICK cur :
              /\ cur[0] = n /\ cur[k] = r /\ r \in live
              /\ \A i \in 1 .. k : /\ cur[i - 1] \in live /\ ~override[cur[i - 1]]
                                   /\ parent[cur[i - 1]] = cur[i]
  BY <1>0 DEF IsWalk
<1>2. ASSUME NEW S \in SUBSET live, r \in S,
             \A x \in live : ~override[x] /\ parent[x] \in S => x \in S
      PROVE  n \in S
  <2> DEFINE T == {d \in Nat : d <= k /\ cur[k - d] \notin S}
  <2>1. ASSUME T # {} PROVE FALSE
    <3>1. PICK d \in T : \A y \in T : d <= y
      BY <2>1, Smallest, T \subseteq Nat
    <3>2. d # 0
      BY <3>1, <1>1, <1>2
    <3>3. k - d + 1 \in 1 .. k /\ (k - d + 1) - 1 = k - d /\ d - 1 \in Nat /\ d - 1 <= k /\ d - 1 \notin T
          /\ k - (d - 1) = k - d + 1
      BY <3>1, <3>2
    <3>4. cur[k - d + 1] \in S
      BY <3>3
    <3>5. cur[k - d] \in S
      BY <3>3, <3>4, <1>1, <1>2
    <3> QED
      BY <3>1, <3>5
  <2>2. k \in Nat /\ k <= k /\ k - k = 0
    OBVIOUS
  <2>3. k \notin T
    BY <2>1
  <2>4. cur[k - k] \in S
    BY <2>2, <2>3
  <2> QED
    BY <2>2, <2>4, <1>1
<1> QED
  BY <1>1, <1>2 DEF Inherits

(* What VISIBILITY_PREDICATE lets through is seen.                         *)
LEMMA UnhiddenIsSeen ==
    ASSUME RowsOK, NEW c, NEW m \in LiveMaps
    PROVE  Unhidden(c, m) \subseteq Sees(c)
<1> SUFFICES ASSUME NEW n \in Unhidden(c, m) PROVE n \in Sees(c)
  OBVIOUS
<1>1. n \in live /\ mapOf[n] = m
  BY DEF Unhidden, OnMap, VisibleStarts
<1>2. CASE Bypasses(c, m)
  BY <1>1, <1>2 DEF Sees
<1>3. CASE n \in VisibleStarts(c, m)
  BY <1>1, <1>3, ResolveInherits DEF VisibleStarts, Sees
<1> QED
  BY <1>2, <1>3 DEF Unhidden

LEMMA ShownIsSeen ==
    ASSUME RowsOK, NEW c, NEW m
    PROVE  Shown(c, m) \subseteq Sees(c) /\ (Shown(c, m) # {} => MayView(c, m))
BY UnhiddenIsSeen DEF Shown, MayView

LEMMA AdminsSeeAll ==
    ASSUME NEW c \in Admins, NEW n \in live, mapOf[n] \in LiveMaps
    PROVE  n \in Sees(c)
BY DEF Sees, Bypasses

(* The recursion of SubtreeRows, unfolded.                                 *)
IsDescent(below, c, m, root) ==
    /\ SubtreeRows(c, m, root) = UNION {below[k] : k \in 0 .. MAX_NODE_DEPTH}
    /\ below[0] = Shown(c, m) \intersect {root}
    /\ \A k \in 1 .. MAX_NODE_DEPTH :
          below[k] = {n \in Unhidden(c, m) : parent[n] \in below[k - 1]}

LEMMA SubtreeUnfolds ==
    ASSUME NEW c, NEW m, NEW root
    PROVE  \E below : IsDescent(below, c, m, root)
<1> DEFINE U == Unhidden(c, m)
           D == SUBSET U
           I == Shown(c, m) \intersect {root}
           Below(S) == {n \in U : parent[n] \in S}
           F == [S \in D |-> Below(S)]
           Eq(g) == g = [k \in 0 .. MAX_NODE_DEPTH |-> IF k = 0 THEN I ELSE Below(g[k - 1])]
           below == CHOOSE g : Eq(g)
<1>0. MAX_NODE_DEPTH \in Nat
  BY AccessAssumption
<1>1. F \in [D -> D] /\ I \in D
  BY DEF Shown
<1>2. PICK g : g \in Iterates(D, F, I, MAX_NODE_DEPTH)
  <2> HIDE DEF D, F, I
  <2>1. Iterates(D, F, I, MAX_NODE_DEPTH) # {}
    BY <1>0, <1>1, Iteration
  <2> QED
    BY <2>1
<1>3. g \in [0 .. MAX_NODE_DEPTH -> D] /\ g[0] = I
      /\ \A k \in 1 .. MAX_NODE_DEPTH : g[k] = F[g[k - 1]]
  BY <1>2 DEF Iterates
<1>4. ASSUME NEW k \in 1 .. MAX_NODE_DEPTH
      PROVE  g[k] = Below(g[k - 1])
  <2>1. g[k - 1] \in D
    <3> HIDE DEF D
    <3> QED BY <1>0, <1>3
  <2> QED
    BY <2>1, <1>3
<1>5. Eq(g)
  <2> HIDE DEF Below, I
  <2> QED BY <1>0, <1>3, <1>4
<1>6. Eq(below)
  BY <1>5
<1>7. /\ below[0] = I
      /\ \A k \in 1 .. MAX_NODE_DEPTH : below[k] = Below(below[k - 1])
  <2> HIDE DEF below, Below, I
  <2> QED
    BY <1>0, <1>6
<1>8. SubtreeRows(c, m, root) = UNION {below[k] : k \in 0 .. MAX_NODE_DEPTH}
  BY DEF SubtreeRows
<1> HIDE DEF below
<1> QED
  BY <1>7, <1>8 DEF IsDescent

(* Every row of the CTE `subtree` is shown, and there is none on a map     *)
(* that may not be viewed.                                                 *)
LEMMA SubtreeIsSeen ==
    ASSUME RowsOK, NEW c, NEW m, NEW root
    PROVE  SubtreeRows(c, m, root) \subseteq Sees(c) /\ (SubtreeRows(c, m, root) # {} => MayView(c, m))
<1> DEFINE U == Unhidden(c, m)
           I == Shown(c, m) \intersect {root}
           Below(S) == {n \in U : parent[n] \in S}
<1>0. MAX_NODE_DEPTH \in Nat
  BY AccessAssumption
<1>1. I \subseteq U
  BY DEF Shown
<1>2. PICK below : IsDescent(below, c, m, root)
  BY SubtreeUnfolds
<1>7. /\ SubtreeRows(c, m, root) = UNION {below[k] : k \in 0 .. MAX_NODE_DEPTH}
      /\ below[0] = I
      /\ \A k \in 1 .. MAX_NODE_DEPTH : below[k] = Below(below[k - 1])
  BY <1>2 DEF IsDescent
<1> HIDE DEF I
<1>9. \A k \in 0 .. MAX_NODE_DEPTH : below[k] \subseteq U
  <2> SUFFICES ASSUME NEW k \in 0 .. MAX_NODE_DEPTH PROVE below[k] \subseteq U
    OBVIOUS
  <2>1. CASE k = 0
    BY <2>1, <1>1, <1>7
  <2>2. CASE k \in 1 .. MAX_NODE_DEPTH
    BY <2>2, <1>7
  <2> QED
    BY <1>0, <2>1, <2>2
<1>10. ASSUME ~MayView(c, m) PROVE \A k \in 0 .. MAX_NODE_DEPTH : below[k] = {}
  <2> DEFINE T == {k \in Nat : k <= MAX_NODE_DEPTH /\ below[k] # {}}
  <2>1. I = {}
    BY <1>10 DEF I, Shown
  <2>2. ASSUME T # {} PROVE FALSE
    <3>1. PICK k \in T : \A y \in T : k <= y
      BY <2>2, Smallest, T \subseteq Nat
    <3>2. k # 0
      BY <3>1, <2>1, <1>7
    <3>3. k \in 1 .. MAX_NODE_DEPTH /\ k - 1 \in Nat /\ k - 1 <= MAX_NODE_DEPTH /\ k - 1 \notin T
      BY <1>0, <3>1, <3>2
    <3>4. below[k - 1] = {}
      BY <3>3
    <3> QED
      BY <3>1, <3>3, <3>4, <1>7
  <2> QED
    BY <1>0, <2>2
<1>11. CASE MayView(c, m)
  <2>1. U \subseteq Sees(c)
    BY <1>11, UnhiddenIsSeen DEF MayView
  <2> QED
    BY <1>7, <1>9, <1>11, <2>1
<1> QED
  BY <1>7, <1>10, <1>11

-----------------------------------------------------------------------------
(* Conversely, on a map that is shallow the walks of the CTEs find all     *)
(* that tags handed down give: where one ended too early there would be a  *)
(* climb of more than MAX_NODE_DEPTH steps.                                *)

(* f climbs k steps, whatever the overrides.                               *)
Climb(f, k) == f \in [0 .. k -> live] /\ \A i \in 1 .. k : f[i] = parent[f[i - 1]]

LEMMA ClimbFrom ==
    ASSUME NEW k \in Nat, NEW f, Climb(f, k), NEW x \in live, parent[x] = f[0]
    PROVE  \E h : Climb(h, k + 1) /\ h[0] = x
<1> DEFINE h == [i \in 0 .. k + 1 |-> IF i = 0 THEN x ELSE f[i - 1]]
<1>1. f \in [0 .. k -> live] /\ \A i \in 1 .. k : f[i] = parent[f[i - 1]]
  BY DEF Climb
<1>2. h \in [0 .. k + 1 -> live] /\ h[0] = x
  BY <1>1
<1>3. ASSUME NEW i \in 1 .. k + 1 PROVE h[i] = parent[h[i - 1]]
  <2>1. CASE i = 1
    BY <2>1
  <2>2. CASE i # 1
    <3>1. i \in 0 .. k + 1 /\ i - 1 \in 0 .. k + 1 /\ i # 0 /\ i - 1 # 0 /\ i - 1 \in 1 .. k
      BY <2>2
    <3>2. h[i] = f[i - 1] /\ h[i - 1] = f[i - 1 - 1]
      BY <3>1
    <3> QED
      BY <1>1, <3>1, <3>2
  <2> QED
    BY <2>1, <2>2
<1> QED
  BY <1>2, <1>3 DEF Climb

LEMMA WalkIsClimb ==
    ASSUME NEW k \in Nat, NEW cur, NEW n \in live, NEW r \in live, IsWalk(cur, k, n, r)
    PROVE  \E f : Climb(f, k) /\ f[0] = n
<1> DEFINE f == [i \in 0 .. k |-> cur[i]]
<1>1. cur[0] = n /\ cur[k] = r /\ \A i \in 1 .. k : cur[i - 1] \in live /\ parent[cur[i - 1]] = cur[i]
  BY DEF IsWalk
<1>2. ASSUME NEW i \in 0 .. k PROVE cur[i] \in live
  <2>1. CASE i = k
    BY <1>1, <2>1
  <2>2. CASE i # k
    <3>1. i + 1 \in 1 .. k /\ i + 1 - 1 = i
      BY <2>2
    <3> QED
      BY <1>1, <3>1
  <2> QED
    BY <2>1, <2>2
<1>3. f \in [0 .. k -> live] /\ f[0] = n
  BY <1>1, <1>2
<1>4. ASSUME NEW i \in 1 .. k PROVE f[i] = parent[f[i - 1]]
  BY <1>1
<1> QED
  BY <1>3, <1>4 DEF Climb

LEMMA WalkFrom ==
    ASSUME NEW k \in Nat, NEW cur, NEW p, NEW r, IsWalk(cur, k, p, r),
           NEW x \in live, ~override[x], parent[x] = p
    PROVE  \E h : IsWalk(h, k + 1, x, r)
<1> DEFINE h == [i \in 0 .. k + 1 |-> IF i = 0 THEN x ELSE cur[i - 1]]
<1>1. cur[0] = p /\ cur[k] = r
      /\ \A i \in 1 .. k : cur[i - 1] \in live /\ ~override[cur[i - 1]] /\ parent[cur[i - 1]] = cur[i]
  BY DEF IsWalk
<1>2. h[0] = x /\ h[k + 1] = r
  BY <1>1
<1>3. ASSUME NEW i \in 1 .. k + 1
      PROVE  h[i - 1] \in live /\ ~override[h[i - 1]] /\ parent[h[i - 1]] = h[i]
  <2>1. CASE i = 1
    BY <1>1, <2>1
  <2>2. CASE i # 1
    <3>1. i \in 0 .. k + 1 /\ i - 1 \in 0 .. k + 1 /\ i # 0 /\ i - 1 # 0 /\ i - 1 \in 1 .. k
      BY <2>2
    <3>2. h[i] = cur[i - 1] /\ h[i - 1] = cur[i - 1 - 1]
      BY <3>1
    <3> QED
      BY <1>1, <3>1, <3>2
  <2> QED
    BY <2>1, <2>2
<1> QED
  BY <1>2, <1>3 DEF IsWalk

(* The walk of the CTE finds the end of every climb over nodes without an  *)
(* override that is not too long for it.                                   *)
LEMMA WalkIsResolved ==
    ASSUME RowsOK, NEW n \in live, NEW r \in live, NEW k \in 0 .. MAX_NODE_DEPTH,
           NEW w, IsWalk(w, k, n, r)
    PROVE  r \in Resolve(n)
<1>0. MAX_NODE_DEPTH \in Nat /\ NULL \notin live
  BY AccessAssumption DEF RowsOK, Ids, NULL
<1>1. PICK cur : /\ Resolve(n) = {cur[j] : j \in 0 .. MAX_NODE_DEPTH} \intersect live
                 /\ cur[0] = n
                 /\ \A j \in 1 .. MAX_NODE_DEPTH :
                       cur[j] = IF cur[j - 1] = NULL \/ override[cur[j - 1]] THEN NULL
                                ELSE parent[cur[j - 1]]
  BY ResolveUnfolds
<1>2. w[0] = n /\ w[k] = r
      /\ \A i \in 1 .. k : w[i - 1] \in live /\ ~override[w[i - 1]] /\ parent[w[i - 1]] = w[i]
  BY DEF IsWalk
<1> DEFINE T == {i \in Nat : i <= k /\ cur[i] # w[i]}
<1>3. ASSUME T # {} PROVE FALSE
  <2>1. PICK i \in T : \A y \in T : i <= y
    BY <1>3, Smallest, T \subseteq Nat
  <2>2. i # 0
    BY <1>1, <1>2, <2>1
  <2>3. i \in 1 .. k /\ i \in 1 .. MAX_NODE_DEPTH /\ i - 1 \in Nat /\ i - 1 <= k /\ i - 1 \notin T
    BY <1>0, <2>1, <2>2
  <2>4. cur[i - 1] = w[i - 1]
    BY <2>3
  <2>5. w[i - 1] \in live /\ ~override[w[i - 1]] /\ parent[w[i - 1]] = w[i]
    BY <1>2, <2>3
  <2>6. cur[i] = parent[cur[i - 1]]
    BY <1>0, <1>1, <2>3, <2>4, <2>5
  <2> QED
    BY <2>1, <2>4, <2>5, <2>6
<1>4. cur[k] = r
  <2>1. k \notin T /\ k \in Nat
    BY <1>0, <1>3
  <2> QED
    BY <1>2, <2>1
<1> QED
  BY <1>1, <1>4

LEMMA ShallowClimbs ==
    ASSUME NEW m, Shallow(m), NEW f, f[0] \in OnMap(m)
    PROVE  ~Climb(f, MAX_NODE_DEPTH + 1)
BY DEF Shallow, Climb

(* Whoever inherits from r on a shallow map has r at the end of its walk,  *)
(* on whichever maps the nodes between them are.                           *)
LEMMA ShallowResolves ==
    ASSUME RowsOK, NEW m, Shallow(m), NEW r \in live, NEW n \in Inherits(r), mapOf[n] = m
    PROVE  r \in Resolve(n)
<1> DEFINE S == {d \in live : \E k \in Nat : \E cur : IsWalk(cur, k, d, r)}
<1>0. MAX_NODE_DEPTH \in Nat
  BY AccessAssumption
<1>1. r \in S
  <2> DEFINE w == [i \in {0} |-> r]
  <2>1. IsWalk(w, 0, r, r)
    BY DEF IsWalk
  <2> HIDE DEF w
  <2> QED
    BY <2>1
<1>2. ASSUME NEW x \in live, ~override[x], parent[x] \in S PROVE x \in S
  <2>1. PICK k \in Nat : \E cur : IsWalk(cur, k, parent[x], r)
    BY <1>2
  <2>2. \E h : IsWalk(h, k + 1, x, r)
    BY <1>2, <2>1, WalkFrom
  <2> QED
    BY <2>2
<1>3. S \in SUBSET live
  OBVIOUS
<1>4. n \in live /\ \E k \in Nat : \E cur : IsWalk(cur, k, n, r)
  <2> HIDE DEF S
  <2>1. n \in S
    BY <1>1, <1>2, <1>3 DEF Inherits
  <2> QED
    BY <2>1 DEF S
<1>5. PICK k \in Nat : \E cur : IsWalk(cur, k, n, r)
  BY <1>4
<1>6. k <= MAX_NODE_DEPTH
  <2> SUFFICES ASSUME k > MAX_NODE_DEPTH PROVE FALSE
    BY <1>0
  <2>1. PICK f : Climb(f, k) /\ f[0] = n
    BY <1>4, <1>5, WalkIsClimb
  <2> DEFINE g == [i \in 0 .. MAX_NODE_DEPTH + 1 |-> f[i]]
  <2>2. g \in [0 .. MAX_NODE_DEPTH + 1 -> live] /\ g[0] = n
    BY <1>0, <2>1 DEF Climb
  <2>3. ASSUME NEW i \in 1 .. MAX_NODE_DEPTH + 1 PROVE g[i] = parent[g[i - 1]]
    <3>1. i \in 1 .. k /\ i \in 0 .. MAX_NODE_DEPTH + 1 /\ i - 1 \in 0 .. MAX_NODE_DEPTH + 1
      BY <1>0
    <3> QED
      BY <2>1, <3>1 DEF Climb
  <2>4. g[0] \in OnMap(m)
    BY <1>4, <2>2 DEF OnMap
  <2> HIDE DEF g
  <2> QED
    BY <2>2, <2>3, <2>4, ShallowClimbs DEF Climb
<1> QED
  BY <1>0, <1>4, <1>5, <1>6, WalkIsResolved

(* VISIBILITY_PREDICATE hides nothing of a shallow map that is seen.       *)
LEMMA SeenIsUnhidden ==
    ASSUME RowsOK, NEW c, NEW m, Shallow(m)
    PROVE  Sees(c) \intersect OnMap(m) \subseteq Unhidden(c, m)
<1> SUFFICES ASSUME NEW n \in Sees(c), n \in OnMap(m) PROVE n \in Unhidden(c, m)
  OBVIOUS
<1>1. n \in live /\ mapOf[n] = m
  BY DEF OnMap
<1>2. CASE Bypasses(c, m)
  BY <1>2 DEF Unhidden
<1>3. CASE \E r \in live : override[r] /\ Tagged(c, r) /\ n \in Inherits(r)
  <2>1. PICK r \in live : override[r] /\ Tagged(c, r) /\ n \in Inherits(r)
    BY <1>3
  <2>2. r \in Resolve(n)
    BY <1>1, <2>1, ShallowResolves
  <2>3. n \in VisibleStarts(c, m)
    BY <2>1, <2>2 DEF VisibleStarts
  <2> QED
    BY <2>3 DEF Unhidden, VisibleStarts
<1> QED
  BY <1>1, <1>2, <1>3 DEF Sees

LEMMA SubtreeHasRoot ==
    ASSUME NEW n \in live
    PROVE  n \in Subtree(n)
BY DEF Subtree

LEMMA SubtreeHasChildren ==
    ASSUME NEW n, NEW x \in live, parent[x] \in Subtree(n)
    PROVE  x \in Subtree(n)
BY DEF Subtree

(* The CTE `subtree` finds every node that is reached from its root over   *)
(* nodes of the map that are seen.                                         *)
LEMMA ReachesAreRows ==
    ASSUME RowsOK, NEW c, NEW m, NEW root
    PROVE  Reaches(c, m, root) \subseteq SubtreeRows(c, m, root)
<1> SUFFICES ASSUME NEW n \in Reaches(c, m, root) PROVE n \in SubtreeRows(c, m, root)
  OBVIOUS
<1> DEFINE hidden == Subtree(root) \ (Sees(c) \intersect OnMap(m))
           R == SubtreeRows(c, m, root)
           U == Unhidden(c, m)
           G == {d \in Subtree(root) : d \in R \/ \E x \in hidden : d \in Subtree(x)}
<1>0. MAX_NODE_DEPTH \in Nat /\ NULL \notin live
  BY AccessAssumption DEF RowsOK, Ids, NULL
<1>1. /\ MayView(c, m) /\ root \in OnMap(m) /\ root \in live /\ Shallow(m)
      /\ n \in Subtree(root) /\ \A x \in hidden : n \notin Subtree(x)
  BY DEF Reaches, OnMap
<1> PICK below : IsDescent(below, c, m, root)
  BY SubtreeUnfolds
<1>2. /\ R = UNION {below[k] : k \in 0 .. MAX_NODE_DEPTH}
      /\ below[0] = Shown(c, m) \intersect {root}
      /\ \A k \in 1 .. MAX_NODE_DEPTH : below[k] = {d \in U : parent[d] \in below[k - 1]}
  BY DEF IsDescent
<1>3. Sees(c) \intersect OnMap(m) \subseteq U /\ U \subseteq OnMap(m) /\ OnMap(m) \subseteq live /\ Shown(c, m) = U
  BY <1>1, SeenIsUnhidden DEF Unhidden, VisibleStarts, OnMap, Shown
<1> HIDE DEF R, U, hidden
<1>4. ASSUME NEW k \in 0 .. MAX_NODE_DEPTH, NEW d \in below[k]
      PROVE  d \in OnMap(m) /\ \E f : Climb(f, k) /\ f[0] = d
  <2> DEFINE Low(j) == \E e \in below[j] : ~\E f : Climb(f, j) /\ f[0] = e
             T == {j \in Nat : j <= MAX_NODE_DEPTH /\ Low(j)}
  <2>1. ASSUME T # {} PROVE FALSE
    <3>1. PICK j \in T : \A y \in T : j <= y
      <4> HIDE DEF Low
      <4> QED BY <2>1, Smallest, T \subseteq Nat
    <3>2. PICK e \in below[j] : ~\E f : Climb(f, j) /\ f[0] = e
      BY <3>1
    <3>3. CASE j = 0
      <4> DEFINE f == [i \in 0 .. 0 |-> root]
      <4>1. e = root
        BY <1>2, <3>2, <3>3
      <4>2. f \in [0 .. 0 -> live] /\ f[0] = root /\ 1 .. 0 = {}
        BY <1>1
      <4>3. Climb(f, 0)
        BY <4>2 DEF Climb
      <4> HIDE DEF f
      <4> QED
        BY <3>2, <3>3, <4>1, <4>2, <4>3
    <3>4. CASE j # 0
      <4>1. j \in 1 .. MAX_NODE_DEPTH /\ j - 1 \in Nat /\ j - 1 + 1 = j /\ j - 1 \notin T
            /\ j - 1 <= MAX_NODE_DEPTH
        BY <1>0, <3>1, <3>4
      <4>2. e \in live /\ parent[e] \in below[j - 1]
        BY <1>2, <1>3, <3>2, <4>1
      <4>3. PICK f : Climb(f, j - 1) /\ f[0] = parent[e]
        BY <4>1, <4>2
      <4>4. \E h : Climb(h, j - 1 + 1) /\ h[0] = e
        BY <4>1, <4>2, <4>3, ClimbFrom
      <4> QED
        BY <3>2, <4>1, <4>4
    <3> QED
      BY <3>3, <3>4
  <2>2. k \notin T /\ k \in Nat /\ k <= MAX_NODE_DEPTH
    BY <1>0, <2>1
  <2>3. d \in OnMap(m)
    BY <1>0, <1>1, <1>2, <1>3
  <2> QED
    BY <2>2, <2>3
<1>5. ASSUME NEW x \in hidden PROVE x \in Subtree(x) /\ x \in Subtree(root)
  BY <1>5, SubtreeHasRoot DEF hidden, Subtree
<1>6. root \in G
  <2>1. root \in Subtree(root)
    BY <1>1, SubtreeHasRoot
  <2>2. CASE root \in hidden
    BY <1>5, <2>1, <2>2
  <2>3. CASE root \notin hidden
    <3>1. root \in below[0]
      BY <1>1, <1>2, <1>3, <2>1, <2>3 DEF hidden
    <3> QED
      BY <1>0, <1>2, <2>1, <3>1
  <2> QED
    BY <2>2, <2>3
<1>7. ASSUME NEW x \in live, parent[x] \in G PROVE x \in G
  <2>1. x \in Subtree(root)
    BY <1>7, SubtreeHasChildren
  <2>2. CASE x \in hidden
    BY <1>5, <2>1, <2>2
  <2>3. CASE \E h \in hidden : parent[x] \in Subtree(h)
    BY <2>1, <2>3, SubtreeHasChildren
  <2>4. CASE x \notin hidden /\ parent[x] \in R
    <3>1. PICK k \in 0 .. MAX_NODE_DEPTH : parent[x] \in below[k]
      BY <1>2, <2>4
    <3>2. PICK f : Climb(f, k) /\ f[0] = parent[x]
      BY <1>4, <3>1
    <3>4. x \in OnMap(m) /\ x \in Sees(c)
      BY <2>1, <2>4 DEF hidden
    <3>5. x \in U
      BY <1>3, <3>4
    <3>6. CASE k = MAX_NODE_DEPTH
      <4>1. \E h : Climb(h, k + 1) /\ h[0] = x
        BY <3>2, ClimbFrom
      <4> QED
        BY <1>1, <3>4, <3>6, <4>1, ShallowClimbs
    <3>7. CASE k # MAX_NODE_DEPTH
      <4>1. k + 1 \in 1 .. MAX_NODE_DEPTH /\ k + 1 - 1 = k /\ k + 1 \in 0 .. MAX_NODE_DEPTH
        BY <1>0, <3>7
      <4>2. x \in below[k + 1]
        BY <1>2, <3>1, <3>5, <4>1
      <4> QED
        BY <1>2, <2>1, <4>1, <4>2
    <3> QED
      BY <3>6, <3>7
  <2> QED
    BY <1>7, <2>2, <2>3, <2>4
<1>8. G \in SUBSET live
  BY DEF Subtree
<1> HIDE DEF G
<1>9. n \in G
  BY <1>1, <1>6, <1>7, <1>8 DEF Subtree
<1> QED
  BY <1>1, <1>9 DEF G, R

-----------------------------------------------------------------------------
(* The tables.                                                             *)

MapsOK ==
    /\ owner \in [LiveMaps -> Users] /\ LiveMaps \subseteq Maps \intersect (1 .. nextMap - 1)
    /\ nextMap \in 1 .. MaxMapId + 1 /\ xray \subseteq LiveMaps
    /\ grant \in [DOMAIN grant -> AllLevels]
    /\ DOMAIN grant \subseteq LiveMaps \X (Users \union {PUBLIC})

GroupsOK ==
    /\ manages \in [Groups -> BOOLEAN] /\ Groups \subseteq GroupIds \intersect (1 .. nextGroup - 1)
    /\ nextGroup \in 1 .. MaxGroupId + 1 /\ members \subseteq Groups \X Users

MarksOK == override \in [live -> BOOLEAN] /\ tags \in [live -> SUBSET Groups]

DbOK == RowsOK /\ nextId = MaxNodeId + 1 /\ MapsOK /\ GroupsOK /\ MarksOK

LEMMA InitTables == Init => DbOK
<1> SUFFICES ASSUME Init PROVE DbOK
  OBVIOUS
<1>1. live = Ids /\ mapOf = [n \in Ids |-> 1] /\ nextId = MaxNodeId + 1
      /\ parent \in [Ids -> Ids \union {NULL}] /\ owner = [m \in {1} |-> Founder]
      /\ nextMap = 2 /\ xray = {} /\ grant = [k \in {} |-> "none"]
      /\ override = [n \in Ids |-> FALSE] /\ tags = [n \in Ids |-> {}]
  BY DEF Init
<1>2. RowsOK
  BY <1>1 DEF RowsOK, LiveMaps
<1>4. MapsOK
  BY <1>1, AccessAssumption DEF MapsOK, LiveMaps
<1>5. GroupsOK
  <2>1. PICK G \in {{}, {1}} : manages = [g \in G |-> TRUE] /\ nextGroup = Cardinality(G) + 1
                              /\ members = G \X {Founder}
    BY DEF Init
  <2>2. CASE G = {}
    BY <2>1, <2>2, FS_EmptySet, AccessAssumption DEF GroupsOK, Groups
  <2>3. CASE G = {1}
    <3>1. nextGroup = 2
      <4>1. Cardinality({1}) = 1
        BY FS_Singleton
      <4> QED
        BY <2>1, <2>3, <4>1
    <3>2. Groups = {1} /\ members = {1} \X {Founder} /\ manages = [g \in {1} |-> TRUE]
      BY <2>1, <2>3 DEF Groups
    <3> QED
      BY <3>1, <3>2, AccessAssumption DEF GroupsOK, GroupIds
  <2> QED
    BY <2>1, <2>2, <2>3
<1>6. MarksOK
  BY <1>1 DEF MarksOK
<1> QED
  BY <1>1, <1>2, <1>4, <1>5, <1>6 DEF DbOK

LEMMA TablesUnchanged ==
    ASSUME DbOK, UNCHANGED db
    PROVE  DbOK'
BY DEF DbOK, db, rows, maps, groups, marks, RowsOK, MapsOK, GroupsOK, MarksOK, LiveMaps, Groups

(* One step per handler that writes; the tables it leaves alone are fine   *)
(* when those they refer to are.                                           *)
LEMMA WritesKeepTables ==
    ASSUME DbOK, NEW c \in Users, Write(c)
    PROVE  DbOK' /\ req' = req
<1> USE DEF DbOK, rows, maps, groups, marks, LiveMaps, Groups
<1>1. CASE CreateMap(c)
  <2>1. MapsOK'
    BY <1>1, AccessAssumption DEF CreateMap, MapsOK
  <2> QED
    BY <1>1, <2>1 DEF CreateMap, RowsOK, GroupsOK, MarksOK
<1>2. CASE UpdateMap(c)
  BY <1>2 DEF UpdateMap, RowsOK, MapsOK, GroupsOK, MarksOK
<1>3. CASE DeleteMap(c)
  <2> DEFINE gone(m) == UNION {Subtree(n) : n \in OnMap(m)}
  <2>1. PICK m \in LiveMaps :
          /\ owner' = Restrict(owner, LiveMaps \ {m}) /\ xray' = xray \ {m}
          /\ grant' = Restrict(grant, {k \in DOMAIN grant : k[1] # m})
          /\ live' = live \ gone(m)
          /\ parent' = Restrict(parent, live') /\ mapOf' = Restrict(mapOf, live')
          /\ override' = Restrict(override, live') /\ tags' = Restrict(tags, live')
    BY <1>3 DEF DeleteMap
  <2>2. UNCHANGED <<nextId, nextMap, groups, req>>
    BY <1>3 DEF DeleteMap
  <2>3. live' \subseteq live /\ \A x \in live' : parent[x] \notin gone(m) /\ mapOf[x] # m
    <3>1. ASSUME NEW x \in live, x \notin gone(m) PROVE parent[x] \notin gone(m) /\ mapOf[x] # m
      BY <3>1, SubtreeHasRoot, SubtreeHasChildren DEF OnMap
    <3> HIDE DEF gone
    <3> QED
      BY <2>1, <3>1
  <2> HIDE DEF gone
  <2>4. RowsOK'
    <3>1. parent' \in [live' -> live' \union {NULL}]
      BY <2>1, <2>3 DEF RowsOK, Restrict
    <3>2. mapOf' \in [live' -> (LiveMaps \ {m}) \union {Elsewhere}] /\ LiveMaps' = LiveMaps \ {m}
      BY <2>1, <2>3 DEF RowsOK, Restrict
    <3> QED
      BY <2>3, <3>1, <3>2 DEF RowsOK
  <2>5. MapsOK'
    BY <2>1, <2>2 DEF MapsOK, Restrict
  <2>6. MarksOK'
    BY <2>1, <2>2, <2>3 DEF MarksOK, Restrict
  <2> QED
    BY <2>2, <2>4, <2>5, <2>6 DEF GroupsOK
<1>4. CASE SetPermission(c)
  <2>1. MapsOK'
    BY <1>4, AccessAssumption DEF SetPermission, MapsOK
  <2> QED
    BY <1>4, <2>1 DEF SetPermission, RowsOK, GroupsOK, MarksOK
<1>5. CASE RemovePermission(c)
  <2>1. MapsOK'
    BY <1>5 DEF RemovePermission, MapsOK, Restrict
  <2> QED
    BY <1>5, <2>1 DEF RemovePermission, RowsOK, GroupsOK, MarksOK
<1>6. CASE CreateGroup(c)
  <2>1. GroupsOK' /\ Groups \subseteq Groups'
    BY <1>6, AccessAssumption DEF CreateGroup, GroupsOK, GroupIds
  <2> QED
    BY <1>6, <2>1 DEF CreateGroup, RowsOK, MapsOK, MarksOK
<1>7. CASE UpdateGroup(c)
  <2>1. GroupsOK' /\ Groups' = Groups
    BY <1>7 DEF UpdateGroup, GroupsOK
  <2> QED
    BY <1>7, <2>1 DEF UpdateGroup, RowsOK, MapsOK, MarksOK
<1>8. CASE DeleteGroup(c)
  <2>1. PICK g \in Groups : /\ manages' = Restrict(manages, Groups \ {g})
                            /\ members' = {x \in members : x[1] # g}
                            /\ tags' = [n \in live |-> tags[n] \ {g}]
    BY <1>8 DEF DeleteGroup
  <2>2. UNCHANGED <<rows, maps, nextGroup, override, req>>
    BY <1>8 DEF DeleteGroup
  <2>3. GroupsOK' /\ Groups' = Groups \ {g}
    BY <2>1, <2>2 DEF GroupsOK, Restrict
  <2>4. MarksOK'
    BY <2>1, <2>2, <2>3 DEF MarksOK
  <2> QED
    BY <2>2, <2>3, <2>4 DEF RowsOK, MapsOK
<1>9. CASE AddMember(c)
  BY <1>9 DEF AddMember, RowsOK, MapsOK, GroupsOK, MarksOK
<1>10. CASE RemoveMember(c)
  BY <1>10 DEF RemoveMember, RowsOK, MapsOK, GroupsOK, MarksOK
<1>11. CASE SetVisibility(c)
  <2>1. MarksOK'
    BY <1>11 DEF SetVisibility, MarksOK
  <2> QED
    BY <1>11, <2>1 DEF SetVisibility, RowsOK, MapsOK, GroupsOK
<1>12. CASE MoveNode(c)
  <2>1. RowsOK'
    BY <1>12 DEF MoveNode, RowsOK, OnMap
  <2> QED
    BY <1>12, <2>1 DEF MoveNode, MapsOK, GroupsOK, MarksOK
<1>13. CASE RelocateNode(c)
  <2>1. PICK n \in live, d \in LiveMaps \union {Elsewhere}, p \in live \union {NULL} :
          /\ parent' = [parent EXCEPT ![n] = p]
          /\ mapOf' = [x \in live |-> IF x \in Branch(n) THEN d ELSE mapOf[x]]
          /\ tags' = [x \in live |-> IF x \in Branch(n) THEN {} ELSE tags[x]]
    BY <1>13 DEF RelocateNode
  <2>2. UNCHANGED <<live, nextId, override, maps, groups, req>>
    BY <1>13 DEF RelocateNode
  <2>3. RowsOK'
    BY <2>1, <2>2 DEF RowsOK
  <2>4. MarksOK'
    BY <2>1, <2>2 DEF MarksOK
  <2> QED
    BY <2>2, <2>3, <2>4 DEF MapsOK, GroupsOK
<1> QED
  BY <1>1, <1>2, <1>3, <1>4, <1>5, <1>6, <1>7, <1>8, <1>9, <1>10, <1>11, <1>12, <1>13 DEF Write

-----------------------------------------------------------------------------
(* What a request has got so far, against what its reader could see.       *)

View(c) == {m \in LiveMaps : MayView(c, m)}

(* r names no map but those of M, and no node but those of N or, as an end *)
(* of an edge, those of X; the other exceptions are those of               *)
(* AnswersWereSeen.                                                        *)
Honest(c, r, M, N, X) ==
    /\ r.op = "answer" =>
          /\ \A n \in r.rows \ N : r.kind = "edges" /\ \E m \in r.maps : <<m, n>> \in X
          /\ c \notin Admins /\ r.kind = "nodes" => r.parents \subseteq N
          /\ \/ r.maps \subseteq M
             \/ r.rows = {} /\ r.kind # "maps"
             \/ r.kind = "plots"
             \/ r.kind = "plot" /\ c \in Admins
    /\ r.op = "parent" => r.node \in N /\ r.map \in M
    /\ r.op = "page" => r.rows \subseteq N /\ (r.rows = {} \/ r.map \in M)
    /\ r.op \in {"edges", "node"} => r.map \in M

LEMMA HonestGrows ==
    ASSUME NEW c, NEW r, NEW M, NEW N, NEW X, Honest(c, r, M, N, X),
           NEW M2, NEW N2, NEW X2, M \subseteq M2, N \subseteq N2, X \subseteq X2
    PROVE  Honest(c, r, M2, N2, X2)
BY DEF Honest

SawMaps(c)   == IF At(c, "none") THEN {} ELSE saw[c].maps
SawNodes(c)  == IF At(c, "none") THEN {} ELSE saw[c].nodes
SawStrays(c) == IF At(c, "none") THEN {} ELSE saw[c].strays

(* What Observe writes of a request that is not over.                      *)
LEMMA Observed ==
    ASSUME saw \in [Users -> Hist], Observe, NEW c \in Users, ~At(c, "none")'
    PROVE  LET R == Reaches(c, req[c].map, req[c].node)'
               w == saw[c] IN
           /\ saw'[c].maps = SawMaps(c) \union View(c)'
           /\ saw'[c].nodes = SawNodes(c) \union Sees(c)'
           /\ saw'[c].strays = SawStrays(c) \union Strays(c)'
           /\ At(c, "none") => saw'[c].kept = IF At(c, "page")' THEN R ELSE {}
           /\ ~At(c, "none") =>
                 saw'[c].kept = IF At(c, "page") /\ At(c, "page")' THEN w.kept \intersect R ELSE w.kept
<1> DEFINE R == Reaches(c, req[c].map, req[c].node)'
           V == View(c)'
           E == Sees(c)'
           Y == Strays(c)'
           K == IF At(c, "page")' THEN R ELSE {}
           w == saw[c]
<1>1. saw'[c] = IF At(c, "none") THEN [maps |-> V, nodes |-> E, strays |-> Y, kept |-> K]
                ELSE [maps |-> w.maps \union V, nodes |-> w.nodes \union E, strays |-> w.strays \union Y,
                      kept |-> IF At(c, "page") /\ At(c, "page")' THEN w.kept \intersect K ELSE w.kept]
  BY DEF Observe, View
<1> HIDE DEF V, E, Y, R
<1>2. CASE At(c, "none")
  BY <1>1, <1>2 DEF SawMaps, SawNodes, SawStrays, V, E, Y, R
<1>3. CASE ~At(c, "none")
  BY <1>1, <1>3 DEF SawMaps, SawNodes, SawStrays, V, E, Y, R
<1> QED
  BY <1>2, <1>3

LEMMA WatchedType ==
    ASSUME saw \in [Users -> Hist], DbOK', Observe
    PROVE  saw' \in [Users -> Hist]
<1>1. ASSUME NEW c \in Users
      PROVE  /\ View(c)' \subseteq Maps /\ Sees(c)' \subseteq Ids /\ Strays(c)' \subseteq Maps \X Ids
             /\ Reaches(c, req[c].map, req[c].node)' \subseteq Ids
  BY <1>1 DEF View, Sees, Strays, Reaches, Subtree, DbOK, RowsOK, MapsOK
<1>2. ASSUME NEW c \in Users PROVE saw'[c] \in Hist
  <2> DEFINE K == IF At(c, "page")' THEN Reaches(c, req[c].map, req[c].node)' ELSE {}
             V == View(c)'
             E == Sees(c)'
             Y == Strays(c)'
             w == saw[c]
  <2>1. saw'[c] = IF At(c, "none")' THEN Nothing
                  ELSE IF At(c, "none") THEN [maps |-> V, nodes |-> E, strays |-> Y, kept |-> K]
                  ELSE [maps |-> w.maps \union V, nodes |-> w.nodes \union E, strays |-> w.strays \union Y,
                        kept |-> IF At(c, "page") /\ At(c, "page")' THEN w.kept \intersect K ELSE w.kept]
    BY DEF Observe, View
  <2>2. w \in Hist /\ V \subseteq Maps /\ E \subseteq Ids /\ Y \subseteq Maps \X Ids /\ K \subseteq Ids
    BY <1>1
  <2>3. Nothing \in Hist
    BY DEF Nothing, Hist
  <2> HIDE DEF V, E, K, Y, w
  <2>4. \A A \in SUBSET Maps, B \in SUBSET Ids, D \in SUBSET (Maps \X Ids), C \in SUBSET Ids :
           [maps |-> A, nodes |-> B, strays |-> D, kept |-> C] \in Hist
    BY DEF Hist
  <2>5. w.maps \union V \in SUBSET Maps /\ w.nodes \union E \in SUBSET Ids
        /\ w.strays \union Y \in SUBSET (Maps \X Ids)
        /\ w.kept \intersect K \in SUBSET Ids /\ w.kept \in SUBSET Ids
    BY <2>2 DEF Hist
  <2> QED
    BY <2>1, <2>2, <2>3, <2>4, <2>5
<1>3. DOMAIN saw' = Users /\ saw' = [c \in Users |-> saw'[c]]
  BY DEF Observe
<1> QED
  BY <1>2, <1>3

-----------------------------------------------------------------------------
(* The readers' steps.                                                     *)

KnownMaps(c)   == View(c) \union SawMaps(c)
KnownNodes(c)  == Sees(c) \union SawNodes(c)
KnownStrays(c) == Strays(c) \union SawStrays(c)

HonestlyKnown(c, r) == Honest(c, r, KnownMaps(c), KnownNodes(c), KnownStrays(c))

(* A step of c that leaves the tables alone and c with an honest request.  *)
ReadsHonestly(c) ==
    \E r \in Requests : Then(c, r) /\ HonestlyKnown(c, r)

LEMMA AskIsThen == \A c, r : Ask(c, r) => Then(c, r)
BY DEF Ask, Then

LEMMA HonestAnswer ==
    ASSUME NEW c, NEW kind \in Kinds, NEW M \in SUBSET Maps, NEW N \in SUBSET Ids, NEW P \in SUBSET Ids,
           Then(c, Reply(kind, M, N, P)),
           \A n \in N \ KnownNodes(c) : kind = "edges" /\ \E m \in M : <<m, n>> \in KnownStrays(c),
           c \notin Admins /\ kind = "nodes" => P \subseteq KnownNodes(c),
           \/ M \subseteq KnownMaps(c)
           \/ N = {} /\ kind # "maps"
           \/ kind = "plots"
           \/ kind = "plot" /\ c \in Admins
    PROVE  ReadsHonestly(c)
<1> DEFINE r == Reply(kind, M, N, P)
<1>1. r \in Requests
  BY DEF Reply, Requests
<1>2. HonestlyKnown(c, r)
  BY DEF Reply, Honest, HonestlyKnown
<1> QED
  BY <1>1, <1>2 DEF ReadsHonestly

LEMMA TypesOfRows ==
    ASSUME DbOK, NEW c, NEW m
    PROVE  /\ live \subseteq Ids /\ LiveMaps \subseteq Maps /\ RowsOK
           /\ Unhidden(c, m) \subseteq OnMap(m) /\ Shown(c, m) \subseteq Unhidden(c, m)
           /\ OnMap(m) \subseteq live
           /\ \A S \in SUBSET live : ParentsIn(S) \subseteq live
BY DEF DbOK, RowsOK, MapsOK, Unhidden, Shown, VisibleStarts, OnMap, ParentsIn

LEMMA ViewedMap ==
    ASSUME NEW c, NEW m, MayView(c, m)
    PROVE  m \in View(c) /\ m \in LiveMaps
BY DEF View, MayView

LEMMA HonestListMaps ==
    ASSUME DbOK, NEW c \in Users, ListMaps(c)
    PROVE  ReadsHonestly(c)
<1>1. Then(c, Reply("maps", View(c), {}, {}))
  BY AskIsThen DEF ListMaps, View
<1>2. View(c) \in SUBSET Maps /\ View(c) \subseteq KnownMaps(c) /\ "maps" \in Kinds
  BY DEF View, DbOK, MapsOK, KnownMaps, Kinds
<1> QED
  BY <1>1, <1>2, HonestAnswer

LEMMA HonestGetMap ==
    ASSUME DbOK, NEW c \in Users, GetMap(c)
    PROVE  ReadsHonestly(c)
<1>1. PICK m \in LiveMaps : MayView(c, m) /\ Then(c, Reply("maps", {m}, {}, {}))
  BY AskIsThen DEF GetMap, MayView, Grants, VIEWING, AllLevels
<1>2. {m} \in SUBSET Maps /\ {m} \subseteq KnownMaps(c) /\ "maps" \in Kinds
  BY <1>1, ViewedMap, TypesOfRows DEF KnownMaps, Kinds
<1> QED
  BY <1>1, <1>2, HonestAnswer

LEMMA HonestListNodes ==
    ASSUME DbOK, NEW c \in Users, ListNodes(c)
    PROVE  ReadsHonestly(c)
<1>0. PICK m \in LiveMaps : \E F \in Filters(m) :
          LET N == Shown(c, m) \intersect F IN Ask(c, Reply("nodes", {m}, N, ParentsIn(N) \intersect N))
  BY DEF ListNodes
<1>1. PICK N \in SUBSET Shown(c, m) : Then(c, Reply("nodes", {m}, N, ParentsIn(N) \intersect N))
  <2>1. PICK F : Then(c, Reply("nodes", {m}, Shown(c, m) \intersect F,
                               ParentsIn(Shown(c, m) \intersect F) \intersect (Shown(c, m) \intersect F)))
    BY <1>0, AskIsThen
  <2>2. Shown(c, m) \intersect F \in SUBSET Shown(c, m)
    OBVIOUS
  <2> QED
    BY <2>1, <2>2
<1>2. N \subseteq Sees(c) /\ (N # {} => m \in KnownMaps(c)) /\ N \in SUBSET Ids /\ {m} \in SUBSET Maps
  BY <1>1, ShownIsSeen, ViewedMap, TypesOfRows DEF KnownMaps
<1>3. "nodes" \in Kinds /\ "nodes" # "maps"
  BY DEF Kinds
<1>4. N \subseteq KnownNodes(c) /\ ParentsIn(N) \intersect N \subseteq KnownNodes(c)
      /\ ParentsIn(N) \intersect N \in SUBSET Ids
  BY <1>2 DEF KnownNodes
<1> QED
  BY <1>1, <1>2, <1>3, <1>4, HonestAnswer

LEMMA HonestListChildren ==
    ASSUME DbOK, NEW c \in Users, ListChildren(c)
    PROVE  ReadsHonestly(c)
<1>0. PICK m \in LiveMaps, id \in Ids :
          LET N == {n \in Shown(c, m) : parent[n] = id} IN Ask(c, Reply("children", {m}, N, ParentsIn(N)))
  BY DEF ListChildren
<1>1. PICK N \in SUBSET Shown(c, m) : Then(c, Reply("children", {m}, N, ParentsIn(N)))
  <2>1. {n \in Shown(c, m) : parent[n] = id} \in SUBSET Shown(c, m)
    OBVIOUS
  <2> QED
    BY <1>0, <2>1, AskIsThen
<1>2. N \subseteq Sees(c) /\ (N # {} => m \in KnownMaps(c)) /\ N \in SUBSET Ids /\ {m} \in SUBSET Maps
      /\ ParentsIn(N) \in SUBSET Ids
  BY <1>1, ShownIsSeen, ViewedMap, TypesOfRows DEF KnownMaps
<1>3. "children" \in Kinds /\ "children" # "maps" /\ "children" # "nodes" /\ N \subseteq KnownNodes(c)
  BY <1>2 DEF Kinds, KnownNodes
<1> QED
  BY <1>1, <1>2, <1>3, HonestAnswer

LEMMA HonestGetNode ==
    ASSUME DbOK, NEW c \in Users, GetNode(c)
    PROVE  ReadsHonestly(c)
<1>0. PICK m \in LiveMaps : \E n \in Shown(c, m) :
          IF c \in Admins \/ parent[n] = NULL
            THEN Ask(c, Reply("nodes", {m}, {n}, ParentsIn({n})))
            ELSE Ask(c, [op |-> "parent", map |-> m, node |-> n, parent |-> parent[n]])
  BY DEF GetNode
<1>1. PICK n \in Shown(c, m) :
          IF c \in Admins \/ parent[n] = NULL
            THEN Ask(c, Reply("nodes", {m}, {n}, ParentsIn({n})))
            ELSE Ask(c, [op |-> "parent", map |-> m, node |-> n, parent |-> parent[n]])
  BY <1>0
<1>2. n \in live /\ n \in Ids /\ n \in KnownNodes(c) /\ m \in KnownMaps(c) /\ m \in Maps
      /\ ParentsIn({n}) \subseteq live
  BY ShownIsSeen, ViewedMap, TypesOfRows DEF KnownMaps, KnownNodes
<1>3. CASE c \in Admins \/ parent[n] = NULL
  <2>1. c \notin Admins => ParentsIn({n}) \subseteq KnownNodes(c)
    BY <1>3 DEF ParentsIn
  <2>2. ParentsIn({n}) \in SUBSET Ids /\ "nodes" \in Kinds
    BY <1>2, TypesOfRows DEF Kinds
  <2>3. Then(c, Reply("nodes", {m}, {n}, ParentsIn({n})))
    BY <1>1, <1>3, AskIsThen
  <2>4. {n} \ KnownNodes(c) = {} /\ {n} \in SUBSET Ids /\ {m} \in SUBSET Maps /\ {m} \subseteq KnownMaps(c)
    BY <1>2
  <2> QED
    BY <2>1, <2>2, <2>3, <2>4, HonestAnswer
<1>4. CASE ~(c \in Admins \/ parent[n] = NULL)
  <2> DEFINE r == [op |-> "parent", map |-> m, node |-> n, parent |-> parent[n]]
  <2>1. parent[n] \in Ids
    BY <1>2, <1>4, TypesOfRows DEF RowsOK
  <2>2. r \in Requests
    BY <1>2, <2>1 DEF Requests
  <2>3. Then(c, r)
    BY <1>1, <1>4, AskIsThen
  <2>4. HonestlyKnown(c, r)
    BY <1>2 DEF HonestlyKnown, Honest
  <2> QED
    BY <2>2, <2>3, <2>4 DEF ReadsHonestly
<1> QED
  BY <1>3, <1>4

(* A request under way is one of Requests, and honest about what its       *)
(* reader could see since it asked.                                        *)
Standing(c) == req[c] \in Requests /\ Honest(c, req[c], SawMaps(c), SawNodes(c), SawStrays(c))

LEMMA HonestShowParent ==
    ASSUME DbOK, NEW c \in Users, Standing(c), ShowParent(c)
    PROVE  ReadsHonestly(c)
<1> DEFINE r == req[c]
<1>1. r.op = "parent" /\ r.map \in Maps /\ r.node \in Ids /\ r.node \in SawNodes(c) /\ r.map \in SawMaps(c)
  BY DEF ShowParent, Standing, At, Requests, Honest
<1>2. PICK P \in {Shown(c, r.map) \intersect {r.parent}, {}} : Then(c, Reply("nodes", {r.map}, {r.node}, P))
  BY DEF ShowParent
<1>3. P \in SUBSET Ids /\ P \subseteq KnownNodes(c)
  BY <1>2, ShownIsSeen, TypesOfRows DEF KnownNodes
<1>4. {r.map} \in SUBSET Maps /\ {r.map} \subseteq KnownMaps(c) /\ {r.node} \in SUBSET Ids
      /\ {r.node} \subseteq KnownNodes(c) /\ "nodes" \in Kinds
  BY <1>1 DEF KnownMaps, KnownNodes, Kinds
<1> HIDE DEF r
<1> QED
  BY <1>2, <1>3, <1>4, HonestAnswer

LEMMA HonestGetSubtree ==
    ASSUME DbOK, NEW c \in Users, GetSubtree(c)
    PROVE  ReadsHonestly(c)
<1>1. PICK m \in LiveMaps, n \in live :
          Then(c, [op |-> "page", map |-> m, node |-> n, cursor |-> 0, rows |-> {}])
  BY AskIsThen DEF GetSubtree
<1> DEFINE r == [op |-> "page", map |-> m, node |-> n, cursor |-> 0, rows |-> {}]
<1>2. r \in Requests
  BY TypesOfRows DEF Requests
<1>3. HonestlyKnown(c, r)
  BY DEF HonestlyKnown, Honest
<1> QED
  BY <1>1, <1>2, <1>3 DEF ReadsHonestly

(* A page that is not everything has a last row.                           *)
LEMMA PageHasLast ==
    ASSUME NEW N, N \subseteq Ids, N # FirstOf(N)
    PROVE  \E n \in FirstOf(N) : \A x \in FirstOf(N) : x <= n
<1>0. N \subseteq Nat /\ N # {} /\ MaxNodeId \in Nat
  BY AccessAssumption DEF Ids, FirstOf
<1>1. PICK n \in N : \A y \in N : n <= y
  BY <1>0, Smallest
<1>2. {x \in N : x < n} = {}
  <2>1. ASSUME NEW x \in N PROVE ~(x < n)
    BY <1>0, <1>1
  <2> QED
    BY <2>1, Zenon
<1>3. Cardinality({x \in N : x < n}) = 0
  BY <1>2, FS_EmptySet
<1>4. n \in FirstOf(N)
  BY <1>3, AccessAssumption DEF FirstOf
<1> DEFINE T == {MaxNodeId - x : x \in FirstOf(N)}
<1>5. FirstOf(N) \subseteq 1 .. MaxNodeId
  BY AccessAssumption DEF FirstOf, Ids
<1>6. T \subseteq Nat /\ T # {}
  BY <1>0, <1>4, <1>5
<1>7. PICK t \in T : \A y \in T : t <= y
  <2> HIDE DEF T
  <2> QED BY <1>6, Smallest
<1>8. PICK x \in FirstOf(N) : t = MaxNodeId - x
  BY <1>7
<1>9. ASSUME NEW y \in FirstOf(N) PROVE y <= x
  <2>1. MaxNodeId - y \in T
    OBVIOUS
  <2> QED
    BY <2>1, <1>0, <1>5, <1>7, <1>8
<1> QED
  BY <1>8, <1>9

LEMMA HonestNextPage ==
    ASSUME DbOK, NEW c \in Users, Standing(c), NextPage(c)
    PROVE  ReadsHonestly(c)
<1> DEFINE r == req[c]
           N == {n \in SubtreeRows(c, r.map, r.node) : n > r.cursor}
           page == FirstOf(N)
           last == CHOOSE n \in page : \A x \in page : x <= n
<1>1. r \in [op : {"page"}, map : Maps, node : Ids, cursor : Ids \union {0}, rows : SUBSET Ids]
      /\ r.rows \subseteq SawNodes(c) /\ (r.rows = {} \/ r.map \in SawMaps(c))
  BY DEF NextPage, Standing, At, Requests, Honest
<1>2. N \subseteq Sees(c) /\ (N # {} => MayView(c, r.map)) /\ page \subseteq N
  BY SubtreeIsSeen, TypesOfRows DEF FirstOf
<1>3. page \subseteq Sees(c) /\ (page # {} => r.map \in View(c)) /\ N \subseteq Ids /\ page \subseteq Ids
  <2> HIDE DEF N, page, r
  <2>1. Sees(c) \subseteq Ids
    BY TypesOfRows DEF Sees
  <2> QED
    BY <1>2, <2>1, ViewedMap
<1>4. IF N # page
        THEN Then(c, [r EXCEPT !.cursor = last, !.rows = @ \union page])
        ELSE Then(c, Reply("subtree", {r.map}, r.rows \union page, {}))
  BY DEF NextPage
<1>5. N # page => last \in page
  <2> HIDE DEF N, r
  <2> QED BY <1>3, PageHasLast
<1> HIDE DEF N, page, last, r
<1> DEFINE R2 == r.rows \union page
<1>6. R2 \in SUBSET Ids /\ R2 \subseteq KnownNodes(c) /\ (R2 = {} \/ r.map \in KnownMaps(c))
  BY <1>1, <1>3 DEF KnownNodes, KnownMaps
<1>7. CASE N # page
  <2> DEFINE s == [r EXCEPT !.cursor = last, !.rows = @ \union page]
  <2>1. s \in [op : {"page"}, map : Maps, node : Ids, cursor : Ids \union {0}, rows : SUBSET Ids]
        /\ s.rows = R2 /\ s.map = r.map
    BY <1>1, <1>3, <1>5, <1>7
  <2> HIDE DEF s, R2
  <2>2. s \in Requests
    BY <2>1 DEF Requests
  <2>3. HonestlyKnown(c, s)
    BY <1>6, <2>1 DEF HonestlyKnown, Honest
  <2>4. Then(c, s)
    BY <1>4, <1>7 DEF s
  <2> QED
    BY <2>2, <2>3, <2>4 DEF ReadsHonestly
<1>8. CASE N = page
  <2>1. Then(c, Reply("subtree", {r.map}, R2, {}))
    BY <1>4, <1>8
  <2>2. {r.map} \in SUBSET Maps /\ "subtree" \in Kinds /\ "subtree" # "nodes" /\ "subtree" # "maps"
        /\ (R2 = {} \/ {r.map} \subseteq KnownMaps(c)) /\ {} \in SUBSET Ids
    BY <1>1, <1>6 DEF Kinds
  <2> HIDE DEF R2
  <2> QED
    BY <1>6, <2>1, <2>2, HonestAnswer
<1> QED
  BY <1>7, <1>8

LEMMA HonestListEdges ==
    ASSUME DbOK, NEW c \in Users, ListEdges(c)
    PROVE  ReadsHonestly(c)
<1>1. PICK m \in LiveMaps, among \in {Edges} \union {{e} : e \in Edges} :
          MayView(c, m) /\ Then(c, [op |-> "edges", map |-> m, among |-> among])
  BY AskIsThen DEF ListEdges
<1> DEFINE r == [op |-> "edges", map |-> m, among |-> among]
<1>2. r \in Requests
  BY TypesOfRows DEF Requests
<1>3. HonestlyKnown(c, r)
  BY <1>1, ViewedMap DEF HonestlyKnown, Honest, KnownMaps
<1> QED
  BY <1>1, <1>2, <1>3 DEF ReadsHonestly

LEMMA HonestListEdgesForNode ==
    ASSUME DbOK, NEW c \in Users, ListEdgesForNode(c)
    PROVE  ReadsHonestly(c)
<1>1. PICK m \in LiveMaps, n \in live :
          MayView(c, m) /\ Then(c, [op |-> "node", map |-> m, node |-> n])
  BY AskIsThen DEF ListEdgesForNode
<1> DEFINE r == [op |-> "node", map |-> m, node |-> n]
<1>2. r \in Requests
  BY TypesOfRows DEF Requests
<1>3. HonestlyKnown(c, r)
  BY <1>1, ViewedMap DEF HonestlyKnown, Honest, KnownMaps
<1> QED
  BY <1>1, <1>2, <1>3 DEF ReadsHonestly

LEMMA HonestIdle ==
    ASSUME NEW c, Then(c, Idle)
    PROVE  ReadsHonestly(c)
<1>1. Idle \in Requests /\ HonestlyKnown(c, Idle)
  BY DEF Idle, Requests, Honest, HonestlyKnown
<1> QED
  BY <1>1 DEF ReadsHonestly

LEMMA HonestNodeChecked ==
    ASSUME DbOK, NEW c \in Users, Standing(c), NodeChecked(c)
    PROVE  ReadsHonestly(c)
<1> DEFINE r == req[c]
           s == [op |-> "edges", map |-> r.map, among |-> {e \in Edges : r.node \in EndsOf(e)}]
<1>1. r.map \in Maps /\ r.map \in SawMaps(c)
  BY DEF NodeChecked, Standing, At, Requests, Honest
<1>2. CASE Then(c, s)
  <2> HIDE DEF r
  <2>1. s \in Requests
    BY <1>1 DEF Requests
  <2>2. HonestlyKnown(c, s)
    BY <1>1 DEF HonestlyKnown, Honest, KnownMaps
  <2> QED
    BY <1>2, <2>1, <2>2 DEF ReadsHonestly
<1>3. CASE Then(c, Idle)
  BY <1>3, HonestIdle
<1> QED
  BY <1>2, <1>3 DEF NodeChecked

LEMMA HonestShowEdges ==
    ASSUME DbOK, NEW c \in Users, Standing(c), ShowEdges(c)
    PROVE  ReadsHonestly(c)
<1> DEFINE r == req[c]
           N == Ends(ShownEdges(c, r.map) \intersect r.among)
<1>1. r.map \in Maps /\ r.map \in SawMaps(c)
  BY DEF ShowEdges, Standing, At, Requests, Honest
<1>2. Then(c, Reply("edges", {r.map}, N, {}))
  BY DEF ShowEdges
<1> HIDE DEF r, N
<1>3. ASSUME NEW n \in N
      PROVE  n \in Ids /\ (n \in KnownNodes(c) \/ <<r.map, n>> \in KnownStrays(c))
  <2>1. PICK e \in EdgesOn(r.map) :
           n \in EndsOf(e) /\ (Bypasses(c, r.map) \/ EndsOf(e) \subseteq VisibleStarts(c, r.map))
    BY <1>3 DEF N, Ends, ShownEdges
  <2>2. r.map \in LiveMaps /\ n \in live /\ n \in Ids
    BY <2>1, TypesOfRows DEF EdgesOn
  <2>3. CASE n \in Unhidden(c, r.map)
    BY <2>2, <2>3, UnhiddenIsSeen, TypesOfRows DEF KnownNodes
  <2>4. CASE n \notin Unhidden(c, r.map)
    <3>1. Bypasses(c, r.map) /\ n \notin OnMap(r.map)
      BY <2>1, <2>4 DEF Unhidden, VisibleStarts
    <3>2. n \in Ends(EdgesOn(r.map))
      BY <2>1 DEF Ends
    <3>3. <<r.map, n>> \in Strays(c)
      BY <2>2, <3>1, <3>2 DEF Strays
    <3> QED
      BY <2>2, <3>3 DEF KnownStrays
  <2> QED
    BY <2>3, <2>4
<1>4. N \in SUBSET Ids
  BY <1>3
<1>5. {r.map} \in SUBSET Maps /\ {r.map} \subseteq KnownMaps(c) /\ "edges" \in Kinds /\ "edges" # "nodes"
      /\ {} \in SUBSET Ids
  BY <1>1 DEF KnownMaps, Kinds
<1>6. \A n \in N \ KnownNodes(c) : \E m \in {r.map} : <<m, n>> \in KnownStrays(c)
  BY <1>3
<1> QED
  BY <1>2, <1>4, <1>5, <1>6, HonestAnswer

LEMMA HonestListMembers ==
    ASSUME DbOK, NEW c \in Users, ListMembers(c)
    PROVE  ReadsHonestly(c)
<1> DEFINE N == {n \in PlotNodes \intersect live :
                   mapOf[n] \in LiveMaps /\ (c \in Admins \/ n \in Shown(c, mapOf[n]))}
           M == {mapOf[n] : n \in N}
<1>1. Then(c, Reply("plot", M, N, ParentsIn(N)))
  BY AskIsThen DEF ListMembers
<1>2. N \subseteq Sees(c)
  BY ShownIsSeen, AdminsSeeAll, TypesOfRows
<1>3. c \in Admins \/ M \subseteq View(c)
  BY ShownIsSeen, ViewedMap, TypesOfRows
<1>4. N \in SUBSET live /\ M \in SUBSET Maps
  BY TypesOfRows DEF RowsOK
<1> HIDE DEF M, N
<1>5. N \in SUBSET Ids /\ ParentsIn(N) \in SUBSET Ids /\ N \subseteq KnownNodes(c)
      /\ (c \in Admins \/ M \subseteq KnownMaps(c))
  BY <1>2, <1>3, <1>4, TypesOfRows DEF KnownNodes, KnownMaps
<1>6. "plot" \in Kinds /\ "plot" # "nodes"
  BY DEF Kinds
<1> QED
  BY <1>1, <1>4, <1>5, <1>6, HonestAnswer

LEMMA HonestListPlotsForNode ==
    ASSUME DbOK, NEW c \in Users, ListPlotsForNode(c)
    PROVE  ReadsHonestly(c)
<1>1. PICK m \in LiveMaps : \E n \in Unhidden(c, m) : Then(c, Reply("plots", {m}, {n}, {}))
  BY AskIsThen DEF ListPlotsForNode
<1>2. PICK n \in Unhidden(c, m) : Then(c, Reply("plots", {m}, {n}, {}))
  BY <1>1
<1>3. {n} \in SUBSET Ids /\ {n} \subseteq KnownNodes(c) /\ {m} \in SUBSET Maps /\ {} \in SUBSET Ids
  BY <1>2, UnhiddenIsSeen, TypesOfRows DEF KnownNodes
<1>4. "plots" \in Kinds /\ "plots" # "nodes"
  BY DEF Kinds
<1> QED
  BY <1>2, <1>3, <1>4, HonestAnswer

LEMMA ReadsAreHonest ==
    ASSUME DbOK, NEW c \in Users, Standing(c), Read(c) \/ Done(c)
    PROVE  ReadsHonestly(c)
<1>1. CASE Read(c)
  BY <1>1, HonestListMaps, HonestGetMap, HonestListNodes, HonestListChildren, HonestGetNode, HonestShowParent,
     HonestGetSubtree, HonestNextPage, HonestListEdges, HonestListEdgesForNode, HonestNodeChecked,
     HonestShowEdges, HonestListMembers, HonestListPlotsForNode DEF Read
<1>2. CASE Done(c)
  BY <1>2, HonestIdle DEF Done
<1> QED
  BY <1>1, <1>2

-----------------------------------------------------------------------------
(* The invariant, and what follows.                                        *)

IInv ==
    /\ DbOK /\ req \in [Users -> Requests] /\ saw \in [Users -> Hist]
    /\ \A c \in Users : Honest(c, req[c], SawMaps(c), SawNodes(c), SawStrays(c))

(* What a reader could see is in its history once the step is over.        *)
LEMMA KnownIsKept ==
    ASSUME IInv, Observe, NEW c \in Users, ~At(c, "none")'
    PROVE  /\ SawMaps(c) \subseteq SawMaps(c)' /\ SawNodes(c) \subseteq SawNodes(c)'
           /\ SawStrays(c) \subseteq SawStrays(c)'
           /\ UNCHANGED db => /\ KnownMaps(c) \subseteq SawMaps(c)' /\ KnownNodes(c) \subseteq SawNodes(c)'
                              /\ KnownStrays(c) \subseteq SawStrays(c)'
<1>1. /\ saw'[c].maps = SawMaps(c) \union View(c)' /\ saw'[c].nodes = SawNodes(c) \union Sees(c)'
      /\ saw'[c].strays = SawStrays(c) \union Strays(c)'
  BY Observed DEF IInv
<1>2. SawMaps(c)' = saw'[c].maps /\ SawNodes(c)' = saw'[c].nodes /\ SawStrays(c)' = saw'[c].strays
  BY DEF SawMaps, SawNodes, SawStrays
<1>3. ASSUME UNCHANGED db PROVE View(c)' = View(c) /\ Sees(c)' = Sees(c) /\ Strays(c)' = Strays(c)
  BY <1>3 DEF db, rows, maps, groups, marks, View, MayView, Grants, LiveMaps, Sees, Strays, EdgesOn, OnMap,
              Bypasses, Xray, Tagged, Inherits
<1> QED
  BY <1>1, <1>2, <1>3 DEF KnownMaps, KnownNodes, KnownStrays

LEMMA InvInit == Init => IInv
<1> SUFFICES ASSUME Init PROVE IInv
  OBVIOUS
<1>1. req = [c \in Users |-> Idle] /\ saw = [c \in Users |-> Nothing]
  BY DEF Init
<1>2. DbOK
  BY InitTables
<1>3. Idle \in Requests /\ Nothing \in Hist
  BY DEF Idle, Requests, Nothing, Hist
<1>4. ASSUME NEW c \in Users PROVE Honest(c, req[c], SawMaps(c), SawNodes(c), SawStrays(c))
  BY <1>1 DEF Idle, Honest
<1> QED
  BY <1>1, <1>2, <1>3, <1>4 DEF IInv

LEMMA InvStep == IInv /\ [Next]_vars => IInv'
<1> SUFFICES ASSUME IInv, [Next]_vars PROVE IInv'
  OBVIOUS
<1>1. CASE UNCHANGED vars
  <2>1. DbOK' /\ req' = req /\ saw' = saw
    BY <1>1, TablesUnchanged DEF IInv, vars
  <2>2. \A c \in Users : Honest(c, req[c], SawMaps(c), SawNodes(c), SawStrays(c))
    BY DEF IInv
  <2>3. \A c \in Users : Honest(c, req[c], SawMaps(c), SawNodes(c), SawStrays(c))'
    BY <2>1, <2>2 DEF Honest, SawMaps, SawNodes, SawStrays, At
  <2> QED
    BY <2>1, <2>3 DEF IInv
<1>2. ASSUME NEW c \in Users, Write(c), Observe PROVE IInv'
  <2>1. DbOK' /\ req' = req
    BY <1>2, WritesKeepTables DEF IInv
  <2>2. saw' \in [Users -> Hist]
    BY <1>2, <2>1, WatchedType DEF IInv
  <2>3. ASSUME NEW d \in Users PROVE Honest(d, req[d], SawMaps(d), SawNodes(d), SawStrays(d))'
    <3>1. Honest(d, req[d], SawMaps(d), SawNodes(d), SawStrays(d))
      BY DEF IInv
    <3>2. CASE At(d, "none")'
      BY <3>2 DEF At, Honest
    <3>3. CASE ~At(d, "none")'
      BY <1>2, <2>1, <3>1, <3>3, KnownIsKept, HonestGrows
    <3> QED
      BY <3>2, <3>3
  <2> QED
    BY <2>1, <2>2, <2>3 DEF IInv
<1>3. ASSUME NEW c \in Users, Read(c) \/ Done(c), Observe PROVE IInv'
  <2>1. PICK r \in Requests : Then(c, r) /\ HonestlyKnown(c, r)
    BY <1>3, ReadsAreHonest DEF IInv, Standing, ReadsHonestly
  <2>2. req' = [req EXCEPT ![c] = r] /\ UNCHANGED db
    BY <2>1 DEF Then, Get
  <2>3. DbOK' /\ req' \in [Users -> Requests]
    BY <2>2, TablesUnchanged DEF IInv
  <2>4. saw' \in [Users -> Hist]
    BY <1>3, <2>3, WatchedType DEF IInv
  <2>5. ASSUME NEW d \in Users PROVE Honest(d, req[d], SawMaps(d), SawNodes(d), SawStrays(d))'
    <3>1. CASE At(d, "none")'
      BY <3>1 DEF At, Honest
    <3>2. CASE ~At(d, "none")' /\ d = c
      <4>1. req'[d] = r
        BY <2>2, <3>2 DEF IInv
      <4>2. /\ KnownMaps(c) \subseteq SawMaps(c)' /\ KnownNodes(c) \subseteq SawNodes(c)'
            /\ KnownStrays(c) \subseteq SawStrays(c)'
        BY <1>3, <2>2, <3>2, KnownIsKept
      <4> QED
        BY <2>1, <3>2, <4>1, <4>2, HonestGrows DEF HonestlyKnown
    <3>3. CASE ~At(d, "none")' /\ d # c
      <4>1. req'[d] = req[d] /\ Honest(d, req[d], SawMaps(d), SawNodes(d), SawStrays(d))
        BY <2>2, <3>3 DEF IInv
      <4>2. /\ SawMaps(d) \subseteq SawMaps(d)' /\ SawNodes(d) \subseteq SawNodes(d)'
            /\ SawStrays(d) \subseteq SawStrays(d)'
        BY <1>3, <3>3, KnownIsKept
      <4> QED
        BY <4>1, <4>2, HonestGrows
    <3> QED
      BY <3>1, <3>2, <3>3
  <2> QED
    BY <2>3, <2>4, <2>5 DEF IInv
<1> QED
  BY <1>1, <1>2, <1>3 DEF Next

LEMMA Invariance == Spec => []IInv
BY InvInit, InvStep, PTL DEF Spec

(* TypeOK holds in every run: rows refer only to rows that exist, whatever *)
(* the handlers create, delete, permit and tag.                            *)
THEOREM TypeCorrect == Spec => []TypeOK
<1>1. IInv => TypeOK
  BY DEF IInv, DbOK, RowsOK, MapsOK, GroupsOK, MarksOK, TypeOK
<1> QED
  BY <1>1, Invariance, PTL

(* Whatever the handlers answer, statement by statement while others move, *)
(* tag, permit and delete, is of maps and nodes the reader might be shown  *)
(* at some instant since it asked, for any users, nodes, maps and groups.  *)
(* Not so the ends of edges that have left the edge's map: admins and      *)
(* owners with x-ray are told these as well, wherever they are by then.    *)
THEOREM OnlySeenIsTold == Spec => []AnswersWereSeen
<1>1. IInv => AnswersWereSeen
  BY DEF IInv, AnswersWereSeen, Answered, At, Honest, SawMaps, SawNodes, SawStrays
<1> QED
  BY <1>1, Invariance, PTL

(* listNodes and getNode name no parent that was hidden all the time from  *)
(* a reader who is not an admin, though a move across maps may leave a     *)
(* node under a parent on another map.                                     *)
THEOREM ParentsStayHidden == Spec => []HiddenParentsUnnamed
<1>1. IInv => HiddenParentsUnnamed
  BY DEF IInv, HiddenParentsUnnamed, Answered, At, Honest, SawNodes
<1> QED
  BY <1>1, Invariance, PTL

LEMMA ResolveStays ==
    ASSUME UNCHANGED <<rows, override>>, NEW n
    PROVE  Resolve(n)' = Resolve(n) /\ Resolve(n) \subseteq live
<1>1. live' = live /\ parent' = parent /\ override' = override
  BY DEF rows
<1> QED
  BY <1>1 DEF Resolve

LEMMA MayViewShrinks ==
    ASSUME OnlyTakesAway, NEW c, NEW m, MayView(c, m)'
    PROVE  MayView(c, m)
BY DEF OnlyTakesAway, MayView, Grants, LiveMaps

LEMMA VisibleStartsShrink ==
    ASSUME OnlyTakesAway, NEW c, NEW m
    PROVE  VisibleStarts(c, m)' \subseteq VisibleStarts(c, m)
<1> SUFFICES ASSUME NEW n \in VisibleStarts(c, m)' PROVE n \in VisibleStarts(c, m)
  OBVIOUS
<1>1. UNCHANGED <<rows, override>> /\ members' \subseteq members /\ \A x \in live : tags'[x] \subseteq tags[x]
  BY DEF OnlyTakesAway
<1>2. n \in OnMap(m)' /\ \E r \in Resolve(n)' : override'[r] /\ Tagged(c, r)'
  BY DEF VisibleStarts
<1>3. OnMap(m)' = OnMap(m)
  BY <1>1 DEF OnMap, rows
<1>4. PICK r \in Resolve(n) : r \in live /\ override[r] /\ Tagged(c, r)'
  BY <1>1, <1>2, ResolveStays
<1>5. Tagged(c, r)
  BY <1>1, <1>4 DEF Tagged
<1> QED
  BY <1>2, <1>3, <1>4, <1>5 DEF VisibleStarts

(* Removing a member, a group, a tag or a permission shows nobody anything *)
(* new: an override whose last tag goes hides its subtree.                 *)
THEOREM TakingAwayOnlyHides == Spec => TakingAwayHides
<1>1. ASSUME OnlyTakesAway, NEW c \in Users, NEW m \in LiveMaps
      PROVE  Shown(c, m)' \subseteq Shown(c, m)
  <2>1. OnMap(m)' = OnMap(m) /\ xray' \subseteq xray /\ owner' = owner
    BY <1>1 DEF OnlyTakesAway, OnMap, rows
  <2>2. Bypasses(c, m)' => Bypasses(c, m)
    BY <2>1 DEF Bypasses, Xray
  <2>3. VisibleStarts(c, m)' \subseteq VisibleStarts(c, m) /\ VisibleStarts(c, m) \subseteq OnMap(m)
    BY <1>1, VisibleStartsShrink DEF VisibleStarts
  <2>4. Unhidden(c, m)' \subseteq Unhidden(c, m)
    BY <2>1, <2>2, <2>3 DEF Unhidden
  <2>5. MayView(c, m)' => MayView(c, m)
    BY <1>1, MayViewShrinks
  <2> QED
    BY <2>4, <2>5 DEF Shown
<1>2. [Next]_vars => [OnlyTakesAway => \A c \in Users, m \in LiveMaps : Shown(c, m)' \subseteq Shown(c, m)]_vars
  BY <1>1
<1> QED
  BY <1>2, PTL DEF Spec, TakingAwayHides

-----------------------------------------------------------------------------
(* Paging through a subtree.                                               *)

(* What was kept for c is still reached, and what of it is not after the   *)
(* cursor has been shown.                                                  *)
Paged(c) ==
    LET r == req[c]
        K == saw[c].kept IN
    /\ r.op = "page" =>
          K \subseteq Reaches(c, r.map, r.node) /\ \A n \in K : n <= r.cursor => n \in r.rows
    /\ r.op = "answer" => (r.kind = "subtree" => K \subseteq r.rows)

(* A page has no gaps.                                                     *)
LEMMA PageIsPrefix ==
    ASSUME NEW N, N \subseteq Ids, NEW y \in FirstOf(N), NEW x \in N, x <= y
    PROVE  x \in FirstOf(N)
<1> DEFINE A == {z \in N : z < x}
           B == {z \in N : z < y}
<1>1. N \subseteq Nat /\ MaxNodeId \in Nat /\ PageLimit \in Nat /\ y \in N
  BY AccessAssumption DEF Ids, FirstOf
<1>2. IsFiniteSet(Ids)
  BY <1>1, FS_Interval DEF Ids
<1>3. A \subseteq B /\ B \subseteq Ids
  <2>1. \A z \in N : z < x => z < y
    <3>1. ASSUME NEW z \in N, z < x PROVE z < y
      <4>1. z \in Nat /\ x \in Nat /\ y \in Nat
        BY <1>1
      <4> QED
        BY <3>1, <4>1
    <3> QED
      BY <3>1
  <2> QED
    BY <2>1
<1>4. Cardinality(B) < PageLimit
  BY DEF FirstOf
<1> HIDE DEF A, B
<1>5. IsFiniteSet(B)
  BY <1>2, <1>3, FS_Subset
<1>6. IsFiniteSet(A) /\ Cardinality(A) <= Cardinality(B)
  BY <1>3, <1>5, FS_Subset
<1>7. Cardinality(A) \in Nat /\ Cardinality(B) \in Nat
  BY <1>5, <1>6, FS_CardinalityType
<1>8. Cardinality(A) < PageLimit
  BY <1>1, <1>4, <1>6, <1>7
<1> QED
  BY <1>8 DEF FirstOf, A

(* What Observe keeps.                                                     *)
LEMMA Kept ==
    ASSUME saw \in [Users -> Hist], Observe, NEW c \in Users, ~At(c, "none")'
    PROVE  /\ At(c, "none") /\ At(c, "page")' => saw'[c].kept = Reaches(c, req[c].map, req[c].node)'
           /\ At(c, "page") /\ At(c, "page")' =>
                 saw'[c].kept = saw[c].kept \intersect Reaches(c, req[c].map, req[c].node)'
           /\ ~At(c, "none") /\ ~At(c, "page")' => saw'[c].kept = saw[c].kept
BY Observed DEF At

LEMMA PagedUntouched ==
    ASSUME saw \in [Users -> Hist], Observe, NEW c \in Users, Paged(c), req'[c] = req[c]
    PROVE  Paged(c)'
<1>1. CASE At(c, "page")
  <2>1. At(c, "page")' /\ ~At(c, "none")' /\ req'[c].op # "answer"
    BY <1>1 DEF At
  <2>2. saw'[c].kept = saw[c].kept \intersect Reaches(c, req[c].map, req[c].node)'
    BY <1>1, <2>1, Kept
  <2> QED
    BY <1>1, <2>1, <2>2 DEF Paged, At
<1>2. CASE ~At(c, "page") /\ ~At(c, "none")
  <2>1. ~At(c, "page")' /\ ~At(c, "none")' /\ req'[c].op # "page"
    BY <1>2 DEF At
  <2>2. saw'[c].kept = saw[c].kept
    BY <1>2, <2>1, Kept
  <2> QED
    BY <2>1, <2>2 DEF Paged
<1>3. CASE At(c, "none")
  <2>1. req'[c].op # "page" /\ req'[c].op # "answer"
    BY <1>3 DEF At
  <2> QED
    BY <2>1 DEF Paged
<1> QED
  BY <1>1, <1>2, <1>3

LEMMA PagedGetSubtree ==
    ASSUME req \in [Users -> Requests], saw \in [Users -> Hist], DbOK',
           Observe, NEW c \in Users, GetSubtree(c)
    PROVE  Paged(c)'
<1>1. PICK m \in LiveMaps, n \in live :
          Ask(c, [op |-> "page", map |-> m, node |-> n, cursor |-> 0, rows |-> {}])
  BY DEF GetSubtree
<1>2. At(c, "none") /\ req'[c] = [op |-> "page", map |-> m, node |-> n, cursor |-> 0, rows |-> {}]
  BY <1>1 DEF Ask, Get
<1>3. At(c, "page")' /\ ~At(c, "none")'
  BY <1>2 DEF At
<1>4. saw'[c].kept = Reaches(c, req[c].map, req[c].node)'
  BY <1>2, <1>3, Kept
<1>5. saw'[c].kept \subseteq Ids
  BY <1>4 DEF Reaches, Subtree, DbOK, RowsOK
<1>6. \A x \in saw'[c].kept : ~(x <= 0)
  BY <1>5, AccessAssumption DEF Ids
<1> QED
  BY <1>2, <1>4, <1>6 DEF Paged

LEMMA PagedNextPage ==
    ASSUME DbOK, req \in [Users -> Requests], saw \in [Users -> Hist],
           Observe, NEW c \in Users, Paged(c), NextPage(c)
    PROVE  Paged(c)'
<1> DEFINE r == req[c]
           K == saw[c].kept
           N == {n \in SubtreeRows(c, r.map, r.node) : n > r.cursor}
           page == FirstOf(N)
           last == CHOOSE n \in page : \A x \in page : x <= n
<1>1. r \in [op : {"page"}, map : Maps, node : Ids, cursor : Ids \union {0}, rows : SUBSET Ids]
      /\ At(c, "page") /\ ~At(c, "none")
  BY DEF NextPage, At, Requests
<1>2. K \subseteq Reaches(c, r.map, r.node) /\ \A n \in K : n <= r.cursor => n \in r.rows
  BY <1>1 DEF Paged
<1>3. K \subseteq SubtreeRows(c, r.map, r.node)
  BY <1>2, ReachesAreRows DEF DbOK
<1>4. SubtreeRows(c, r.map, r.node) \subseteq Ids
  BY SubtreeIsSeen DEF DbOK, RowsOK, Sees
<1>5. \A n \in Ids : n \in Nat
  BY AccessAssumption DEF Ids
<1>6. \A n \in K : n \in r.rows \/ n \in N
  BY <1>1, <1>2, <1>3, <1>4, <1>5
<1>7. IF N # page
        THEN Then(c, [r EXCEPT !.cursor = last, !.rows = @ \union page])
        ELSE Then(c, Reply("subtree", {r.map}, r.rows \union page, {}))
  BY DEF NextPage
<1>8. N \subseteq Ids
  BY <1>4
<1>9. N # page => last \in page
  <2> HIDE DEF N
  <2> QED BY <1>8, PageHasLast
<1>10. CASE N # page
  <2>1. Then(c, [r EXCEPT !.cursor = last, !.rows = @ \union page])
    BY <1>7, <1>10
  <2>2. req'[c] = [r EXCEPT !.cursor = last, !.rows = @ \union page]
    BY <2>1 DEF Then, Get
  <2> HIDE DEF N, page, last, K
  <2>3. req'[c].op = "page" /\ req'[c].cursor = last /\ req'[c].rows = r.rows \union page
    BY <1>1, <2>2
  <2>4. saw'[c].kept = K \intersect Reaches(c, req[c].map, req[c].node)'
    BY <1>1, <2>3, Kept DEF At, K
  <2>5. ASSUME NEW n \in K, n <= last PROVE n \in r.rows \union page
    <3>1. CASE n \in N
      BY <1>8, <1>9, <1>10, <2>5, <3>1, PageIsPrefix DEF page
    <3> QED
      BY <1>6, <3>1
  <2> QED
    BY <2>3, <2>4, <2>5 DEF Paged
<1>11. CASE N = page
  <2>1. Then(c, Reply("subtree", {r.map}, r.rows \union page, {}))
    BY <1>7, <1>11
  <2> HIDE DEF N, page, last, K
  <2>2. req'[c].op = "answer" /\ req'[c].rows = r.rows \union page
    BY <2>1 DEF Then, Get, Reply
  <2>3. saw'[c].kept = K
    BY <1>1, <2>2, Kept DEF At, K
  <2> QED
    BY <1>6, <1>11, <2>2, <2>3 DEF Paged
<1> QED
  BY <1>10, <1>11

(* No other read leaves a page behind, or is taken for one.                *)
LEMMA OthersUnpaged ==
    ASSUME req \in [Users -> Requests], NEW c \in Users, Read(c) \/ Done(c), ~GetSubtree(c), ~NextPage(c)
    PROVE  Paged(c)'
<1> DEFINE Plain(r) == r.op # "page" /\ (r.op = "answer" => r.kind # "subtree")
<1>1. \A k, M, N, P : Reply(k, M, N, P).op = "answer" /\ Reply(k, M, N, P).kind = k
  BY DEF Reply
<1>2. ASSUME NEW k, k # "subtree", NEW M, NEW N, NEW P PROVE Plain(Reply(k, M, N, P))
  BY <1>1, <1>2
<1>3. \A m, n, p : Plain([op |-> "parent", map |-> m, node |-> n, parent |-> p])
  OBVIOUS
<1>4. /\ \A m, a : Plain([op |-> "edges", map |-> m, among |-> a])
      /\ \A m, n : Plain([op |-> "node", map |-> m, node |-> n])
      /\ Plain(Idle)
  BY DEF Idle
<1> HIDE DEF Plain
<1>5. \E r : Then(c, r) /\ Plain(r)
  <2>1. CASE ListMaps(c)
    BY <1>2, <2>1, AskIsThen DEF ListMaps
  <2>2. CASE GetMap(c)
    BY <1>2, <2>2, AskIsThen DEF GetMap
  <2>3. CASE ListNodes(c)
    BY <1>2, <2>3, AskIsThen DEF ListNodes
  <2>4. CASE ListChildren(c)
    BY <1>2, <2>4, AskIsThen DEF ListChildren
  <2>5. CASE GetNode(c)
    BY <1>2, <1>3, <2>5, AskIsThen DEF GetNode
  <2>6. CASE ShowParent(c)
    BY <1>2, <2>6 DEF ShowParent
  <2>7. CASE ListEdges(c)
    BY <1>4, <2>7, AskIsThen DEF ListEdges
  <2>8. CASE ListEdgesForNode(c)
    BY <1>4, <2>8, AskIsThen DEF ListEdgesForNode
  <2>9. CASE NodeChecked(c)
    BY <1>4, <2>9 DEF NodeChecked
  <2>10. CASE ShowEdges(c)
    BY <1>2, <2>10 DEF ShowEdges
  <2>11. CASE ListMembers(c)
    BY <1>2, <2>11, AskIsThen DEF ListMembers
  <2>12. CASE ListPlotsForNode(c)
    BY <1>2, <2>12, AskIsThen DEF ListPlotsForNode
  <2>13. CASE Done(c)
    BY <1>4, <2>13 DEF Done
  <2> QED
    BY <2>1, <2>2, <2>3, <2>4, <2>5, <2>6, <2>7, <2>8, <2>9, <2>10, <2>11, <2>12, <2>13 DEF Read
<1>6. PICK r : Then(c, r) /\ Plain(r)
  BY <1>5
<1>7. req'[c] = r
  BY <1>6 DEF Then, Get
<1> QED
  BY <1>6, <1>7 DEF Paged, Plain

LEMMA PagedInit == Init => \A c \in Users : Paged(c)
<1> SUFFICES ASSUME Init, NEW c \in Users PROVE Paged(c)
  OBVIOUS
<1>1. req[c].op = "none"
  BY DEF Init, Idle
<1> QED
  BY <1>1 DEF Paged

LEMMA PagedStep == IInv /\ IInv' /\ (\A c \in Users : Paged(c)) /\ [Next]_vars => (\A c \in Users : Paged(c))'
<1> SUFFICES ASSUME IInv, IInv', \A c \in Users : Paged(c), [Next]_vars, NEW d \in Users PROVE Paged(d)'
  OBVIOUS
<1>0. DbOK /\ DbOK' /\ req \in [Users -> Requests] /\ saw \in [Users -> Hist] /\ Paged(d)
  BY DEF IInv
<1>1. CASE UNCHANGED vars
  <2>1. Reaches(d, req[d].map, req[d].node)' = Reaches(d, req[d].map, req[d].node) /\ req' = req /\ saw' = saw
    BY <1>1 DEF vars, db, rows, maps, groups, marks, Reaches, Shallow, MayView, Grants, LiveMaps, OnMap,
                Subtree, Sees, Bypasses, Xray, Tagged, Inherits
  <2> QED
    BY <1>0, <2>1 DEF Paged
<1>2. ASSUME NEW c \in Users, Write(c), Observe PROVE Paged(d)'
  BY <1>0, <1>2, WritesKeepTables, PagedUntouched
<1>3. ASSUME NEW c \in Users, Read(c) \/ Done(c), Observe PROVE Paged(d)'
  <2>1. CASE d # c
    <3>1. PICK r : Then(c, r)
      BY <1>0, <1>3, ReadsAreHonest DEF IInv, Standing, ReadsHonestly
    <3>2. req'[d] = req[d]
      BY <1>0, <2>1, <3>1 DEF Then, Get
    <3> QED
      BY <1>0, <1>3, <3>2, PagedUntouched
  <2>2. CASE d = c
    BY <1>0, <1>3, <2>2, PagedGetSubtree, PagedNextPage, OthersUnpaged
  <2> QED
    BY <2>1, <2>2
<1> QED
  BY <1>1, <1>2, <1>3 DEF Next

(* A reader who follows the cursor from page to page is shown every node   *)
(* that it could reach, over nodes it sees, at every instant since it      *)
(* asked, as long as the tree was within the walks: whatever is moved,     *)
(* hidden or deleted between two pages, and whatever the page size is.     *)
THEOREM PagingMissesNothing == Spec => []PagesMissNothing
<1>1. Spec => [](\A c \in Users : Paged(c))
  BY Invariance, PagedInit, PagedStep, PTL DEF Spec
<1>2. (\A c \in Users : Paged(c)) => PagesMissNothing
  BY DEF Paged, PagesMissNothing, Answered, At
<1> QED
  BY <1>1, <1>2, PTL
=============================================================================
