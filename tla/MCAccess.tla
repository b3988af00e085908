------------------------------ MODULE MCAccess ------------------------------
(* A small instance of Access for TLC.                                     *)
EXTENDS Access, TLC

CONSTANTS own, rdr, adm

(* The founder's second map stays private, without x-ray.  One permission  *)
(* at a time is given, for the first map; the admin, who is in no group,   *)
(* may get it, and then send the second node to another tenant.            *)
MCFew ==
    /\ Cardinality(DOMAIN grant) <= 1 /\ \A k \in DOMAIN grant : k[1] = 1 /\ k[2] # own
    /\ nextMap = 3 => LiveMaps = {1, 2} /\ owner[2] = own /\ 2 \notin xray
    /\ \A x \in members : x[2] # adm
    /\ 1 \in live => mapOf[1] # Elsewhere

(* What the reader's statements do not look at stays as it is meanwhile:   *)
(* who may manage groups, and the x-ray of an owner who is not reading.    *)
(* Admins get their answers in one step, but for the edges of their map.   *)
MCReading(c) ==
    \/ At(c, "none") \/ At(c, "answer")
    \/ /\ \A g \in Groups : manages[g]
       /\ c # own => xray = {}
       /\ c = adm => At(c, "edges") /\ DOMAIN grant = {<<1, adm>>}
MCQuiet == \A c \in Users : MCReading(c)

(* While there are two maps, nothing is x-rayed, the reader has its        *)
(* permission and its group, and the founder's answers take one step.      *)
MCTwoMaps ==
    Cardinality(LiveMaps) = 2 =>
       /\ xray = {} /\ (At(own, "none") \/ At(own, "answer"))
       /\ DOMAIN grant = {<<1, rdr>>}
       /\ Groups = {1} /\ manages[1] /\ members = {<<1, rdr>>}
       /\ \A n \in live : tags[n] # {} => override[n]

MCMaps == 1 .. 2
MCEdges == {<<1, 1, 2>>}
=============================================================================
