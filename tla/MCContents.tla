----------------------------- MODULE MCContents -----------------------------
(* Small instances of Contents for TLC.                                    *)
EXTENDS Contents, TLC

CONSTANTS ann, bob, t1, t2, m1, m2, g1, g2, g3

(* A map in each of two tenants, two groups in the first and one in the    *)
(* second.                                                                 *)
MCTenantOf    == [m \in Maps |-> IF m = m2 THEN t2 ELSE t1]
MCGroupTenant == [g \in Groups |-> IF g = g3 THEN t2 ELSE t1]

(* ann is admin of both tenants, edits both maps and works on the content  *)
(* of the first; bob, in both tenants too, views m1 alone, writes notes    *)
(* there and works on plots.                                               *)
MCMembers  == [c \in Clients |-> Tenants]
MCViews    == [c \in Clients |-> IF c = ann THEN Maps ELSE {m1}]
MCEdits    == [c \in Clients |-> IF c = ann THEN Maps ELSE {}]
MCEditors  == [c \in Clients |-> {t1}]
MCAdmins   == [c \in Clients |-> IF c = ann THEN Tenants ELSE {}]
MCManagers == [c \in Clients |-> IF c = ann THEN {t1} ELSE {}]

(* Edges, tags and plots have nothing to do with each other: a behaviour   *)
(* has edges, or notes with their tags, or plots with one note and no tags. *)
MCOneKind ==
    \/ nextPlot = 1 /\ (nextEdge = 1 \/ nextNote = 1)
    \/ /\ nextEdge = 1 /\ nextNote <= 2
       /\ \A x \in Notes : notes[x].tags = {}
       /\ \A c \in Clients : creq[c].op \notin {"clear", "tag"}

(* One request at a time: the tree does not change under a request.        *)
MCSerial == rows' = rows \/ \A c \in Clients : creq[c] = Idle

(* Nothing tells the two groups of the first tenant apart.                 *)
MCSymmetry == Permutations({g1, g2})
=============================================================================
