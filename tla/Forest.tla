------------------------------- MODULE Forest -------------------------------
(***************************************************************************)
(* What the node tree promises: a forest on each map that changes only in  *)
(* four ways, each at one instant.  A tree of new rows is grafted under a  *)
(* row of its map or at the top; a node is attached elsewhere on its map;  *)
(* a subtree is relocated to another map as a whole; a subtree is dropped. *)
(* NodeTree, whose handlers check in one statement and write in another,   *)
(* implements this when moves keep apart.  Contents builds on it.          *)
(***************************************************************************)
EXTENDS Integers, FiniteSets

CONSTANTS
    Maps,           \* rows of `maps`
    MaxNodeId       \* bound on the ids of `nodes`

VARIABLES
    live,           \* the ids of the rows of `nodes`
    parent, mapOf,  \* their parent_id and map_id
    nextId          \* AUTO_INCREMENT

rows == <<live, parent, mapOf, nextId>>

NULL == 0
Ids  == 1 .. MaxNodeId

OnMap(m) == {n \in live : mapOf[n] = m}

(* n and all that hangs from it: the least set with n that is closed under  *)
(* "child of a member".                                                    *)
Subtree(n) ==
    {d \in live : \A S \in SUBSET live :
        n \in S /\ (\A x \in live : parent[x] \in S => x \in S) => d \in S}

(* P gives one root the parent p and every other new row a new row before it. *)
IsTree(P, p) ==
    \E root \in DOMAIN P :
        /\ P[root] = p /\ p \notin DOMAIN P
        /\ \A x \in DOMAIN P \ {root} : P[x] \in DOMAIN P /\ P[x] < x

ForestInit ==
    /\ live = {}
    /\ parent = [x \in {} |-> NULL]
    /\ mapOf = [x \in {} |-> NULL]
    /\ nextId = 1

(* New rows DOMAIN P on m, with ids never used before.                     *)
Graft(P, m, p) ==
    LET new == DOMAIN P IN
    /\ new # {} /\ new \subseteq nextId .. (nextId' - 1)
    /\ p \in OnMap(m) \union {NULL}
    /\ IsTree(P, p)
    /\ live'   = live \union new
    /\ parent' = [x \in live \union new |-> IF x \in new THEN P[x] ELSE parent[x]]
    /\ mapOf'  = [x \in live \union new |-> IF x \in new THEN m ELSE mapOf[x]]

(* n goes under p, another row of its map outside n's subtree, or to the top. *)
Attach(n, p) ==
    /\ UNCHANGED <<live, mapOf, nextId>>
    /\ parent' = [parent EXCEPT ![n] = p]
    /\ n \in live
    /\ p \in (OnMap(mapOf[n]) \ Subtree(n)) \union {NULL}

(* n and its subtree go to the map d, under p of that map or at the top.   *)
Relocate(n, d, p) ==
    LET S == Subtree(n) IN
    /\ UNCHANGED <<live, nextId>>
    /\ parent' = [parent EXCEPT ![n] = p]
    /\ n \in live /\ d # mapOf[n]
    /\ p \in OnMap(d) \union {NULL}
    /\ mapOf' = [x \in live |-> IF x \in S THEN d ELSE mapOf[x]]

(* n and its subtree are gone.                                             *)
Drop(n) ==
    LET left == live \ Subtree(n) IN
    /\ n \in live
    /\ UNCHANGED nextId
    /\ live'   = left
    /\ parent' = [x \in left |-> parent[x]]
    /\ mapOf'  = [x \in left |-> mapOf[x]]

ForestNext ==
    \/ \E next \in (nextId + 1) .. (MaxNodeId + 1) :
          /\ nextId' = next
          /\ \E new \in SUBSET (nextId .. (next - 1)), m \in Maps, p \in live \union {NULL} :
                \E P \in [new -> new \union {p}] : Graft(P, m, p)
    \/ \E n \in live, p \in live \union {NULL} :
          Attach(n, p) \/ \E d \in Maps : Relocate(n, d, p)
    \/ \E n \in live : Drop(n)

ForestSpec == ForestInit /\ [][ForestNext]_rows

=============================================================================
