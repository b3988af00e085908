----------------------------- MODULE MCNodeTree -----------------------------
(* Small instances of NodeTree for TLC.                                    *)
EXTENDS NodeTree

CONSTANTS ann, bob,      \* clients
          t1, t2,        \* tenants
          m1, m2,        \* maps
          g1, g2         \* visibility groups

(* Two tenants with a map and a group each.                                *)
MCTenantOf    == [m \in Maps |-> IF m = m2 THEN t2 ELSE t1]
MCGroupTenant == [g \in Groups |-> IF g = g2 THEN t2 ELSE t1]

(* ann is a superuser with edit on every map and an admin row in t2 only:  *)
(* she moves from m1 to m2, never back.  bob belongs to both tenants and   *)
(* manages visibility in t1, but edits m1 alone.                           *)
MCMembers  == [c \in Clients |-> IF c = ann THEN {} ELSE Tenants]
MCAdmins   == [c \in Clients |-> IF c = ann THEN {t2} ELSE {}]
MCManagers == [c \in Clients |-> IF c = ann THEN {} ELSE {t1}]
MCEdits    == [c \in Clients |-> IF c = ann THEN Maps ELSE {m1}]

(* Tags are a matter of one node and its map: one node has them at a time. *)
MCOneTagged == Cardinality({n \in live : tags[n] # {}}) <= 1

(* A copy that the ids left cannot hold is not followed to its rollback.   *)
MCCopiesFit ==
    \A c \in Clients : req[c].op = "copy" => nextId + Cardinality(req[c].desc) <= MaxNodeId + 1

(* Where everything runs beside everything there are two rows to work on:  *)
(* what the next rows are is checked when they arrive, and no further.     *)
MCTwoRows == nextId <= 3

(* Where other requests run beside moves, only ann copies.                 *)
MCApart ==
    /\ MCOneTagged /\ MCCopiesFit
    /\ req[bob].op # "copy"
=============================================================================
