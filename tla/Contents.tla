------------------------------ MODULE Contents ------------------------------
(***************************************************************************)
(* What hangs on the node tree: notes and their visibility tags, edges     *)
(* between nodes, plots and their members (tables notes, note_visibility,  *)
(* node_edges, plots, plot_nodes, plot_notes), with every handler of       *)
(* NoteController, EdgeController and PlotController that changes them.    *)
(*                                                                         *)
(* The tree is that of module Forest, whose changes are instants here:     *)
(* NodeTree is where its handlers interleave.  A change of the tree also   *)
(* changes what hangs on it, by foreign keys or in the same transaction.   *)
(* The handlers of this module check in one statement and write in a later *)
(* one: creq[c] is the write a client's request still has to do.  As in    *)
(* NodeTree, a request that is refused is not represented, permissions do  *)
(* not change, and a check of permissions alone is part of the next step.  *)
(*                                                                         *)
(* Texts, colours, pins, visibility_override, media and the columns that   *)
(* updateNote, updateEdge and updatePlot set are left out: no statement    *)
(* that changes these tables reads them.                                   *)
(***************************************************************************)
EXTENDS Forest, Functions

CONSTANTS
    Clients,            \* request slots, each with the user it acts for
    Members,            \* client -> tenants it passes TenantFilter for
    Tenants, TenantOf,  \* rows of `tenants`, maps.tenant_id
    Groups, GroupTenant,\* rows of `visibility_groups`, their tenant_id
    Views, Edits,       \* client -> maps of those tenants it may view, may edit
    Editors,            \* client -> tenants where its role is editor or admin
    Admins,             \* client -> tenants where it is admin
    Managers,           \* client -> tenants where requireVisibilityGroupManager lets it by
    MAX_NOTES_PER_MAP,  \* 10000 in createNote
    MaxNoteId, MaxEdgeId, MaxPlotId     \* bounds on AUTO_INCREMENT

NoteIds == 1 .. MaxNoteId
EdgeIds == 1 .. MaxEdgeId
PlotIds == 1 .. MaxPlotId

ASSUME ContentsAssumption ==
    /\ MaxNodeId \in Nat /\ MAX_NOTES_PER_MAP \in Nat
    /\ MaxNoteId \in Nat /\ MaxEdgeId \in Nat /\ MaxPlotId \in Nat
    /\ TenantOf \in [Maps -> Tenants] /\ GroupTenant \in [Groups -> Tenants]
    /\ Members \in [Clients -> SUBSET Tenants]
    /\ Views \in [Clients -> SUBSET Maps] /\ Edits \in [Clients -> SUBSET Maps]
    /\ Editors \in [Clients -> SUBSET Tenants] /\ Admins \in [Clients -> SUBSET Tenants]
    /\ Managers \in [Clients -> SUBSET Tenants]

VARIABLES
    notes,                          \* id -> node_id, created_by and note_visibility
    edges,                          \* id -> map_id, source_node_id, dest_node_id
    plots,                          \* id -> tenant_id
    plotNodes, plotNotes,           \* rows <<plot_id, node_id>>, <<plot_id, note_id>>
    nextNote, nextEdge, nextPlot,   \* AUTO_INCREMENT of the three tables
    creq,                           \* the write each client's request has still to do
    met,            \* history: <<map, node, node>> where the two were on the map together
    overtaken,      \* history: requests in flight that another one has overtaken
    strays          \* history: the rows of plotNodes that an overtaken request wrote

counters == <<nextNote, nextEdge, nextPlot>>
contents == <<notes, edges, plots, plotNodes, plotNotes>>
history  == <<met, overtaken, strays>>
vars     == <<rows, contents, counters, creq, history>>

-----------------------------------------------------------------------------
(* Requests: `map` is that of the URL, `a` and `b` the rows to be written. *)

Idle == [op |-> "none", map |-> NULL, a |-> NULL, b |-> NULL, groups |-> {}]

Begin(c, op, m, a, b, G) ==
    /\ creq[c] = Idle
    /\ creq' = [creq EXCEPT ![c] = [op |-> op, map |-> m, a |-> a, b |-> b, groups |-> G]]

Answer(c) == creq' = [creq EXCEPT ![c] = Idle]

At(c, op) == creq[c].op = op

Notes      == DOMAIN notes
NoteMap(x) == mapOf[notes[x].node]
NotesOn(m) == {x \in Notes : NoteMap(x) = m}
NotesAt(S) == {x \in Notes : notes[x].node \in S}

Init ==
    /\ ForestInit
    /\ notes = [x \in {} |-> NULL] /\ edges = [x \in {} |-> NULL] /\ plots = [x \in {} |-> NULL]
    /\ plotNodes = {} /\ plotNotes = {}
    /\ nextNote = 1 /\ nextEdge = 1 /\ nextPlot = 1
    /\ creq = [c \in Clients |-> Idle]
    /\ met = {} /\ overtaken = {} /\ strays = {}

-----------------------------------------------------------------------------
(* Writes shared by several statements.                                    *)

(* INSERT of notes, without tags.                                          *)
AddNotes(new) ==
    notes' = [x \in Notes \union DOMAIN new |-> IF x \in Notes THEN notes[x] ELSE new[x]]

(* ON DELETE CASCADE from the notes X, whose rows go too.                  *)
DropNotes(X) ==
    /\ notes' = Restrict(notes, Notes \ X)
    /\ plotNotes' = {l \in plotNotes : l[2] \notin X}

(* Mutant: no foreign key from node_edges to its destination.              *)
DropContentSources(S) ==
    LET kept == {e \in DOMAIN edges : edges[e].src \notin S} IN
    /\ DropNotes(NotesAt(S))
    /\ edges' = Restrict(edges, kept)
    /\ plotNodes' = {l \in plotNodes : l[2] \notin S}

(* ON DELETE CASCADE from the nodes S.                                     *)
DropContent(S) ==
    LET kept == {e \in DOMAIN edges : edges[e].src \notin S /\ edges[e].dst \notin S} IN
    /\ DropNotes(NotesAt(S))
    /\ edges' = Restrict(edges, kept)
    /\ plotNodes' = {l \in plotNodes : l[2] \notin S}

-----------------------------------------------------------------------------
(* The tree (NodeController).                                              *)

CreateNode(c) ==
    /\ \E m \in Edits[c], p \in live \union {NULL} :
          IF nextId \in Ids
            THEN nextId' = nextId + 1 /\ Graft([x \in {nextId} |-> p], m, p)
            ELSE UNCHANGED rows
    /\ UNCHANGED <<contents, counters, creq>>

ReparentNode(c) ==
    /\ \E n \in live, p \in live \union {NULL} : mapOf[n] \in Edits[c] /\ Attach(n, p)
    /\ UNCHANGED <<contents, counters, creq>>

(* Mutant: the plots keep the nodes that left their tenant.                *)
RelocateNodeKeepingPlots(c) ==
    /\ \E n \in live, d \in Edits[c], p \in live \union {NULL} :
          LET S == Subtree(n)
              crossTenant == TenantOf[d] # TenantOf[mapOf[n]] IN
          /\ mapOf[n] \in Edits[c]
          /\ crossTenant => {TenantOf[d], TenantOf[mapOf[n]]} \subseteq Admins[c]
          /\ Relocate(n, d, p)
    /\ UNCHANGED <<contents, counters, creq>>

(* Across maps the edges stay as they are; across tenants plot_nodes is    *)
(* cleared for the subtree, plot_notes and note_visibility are not.        *)
RelocateNode(c) ==
    /\ \E n \in live, d \in Edits[c], p \in live \union {NULL} :
          LET S == Subtree(n)
              crossTenant == TenantOf[d] # TenantOf[mapOf[n]] IN
          /\ mapOf[n] \in Edits[c]
          /\ crossTenant => {TenantOf[d], TenantOf[mapOf[n]]} \subseteq Admins[c]
          /\ Relocate(n, d, p)
          /\ plotNodes' = {l \in plotNodes : crossTenant => l[2] \notin S}
    /\ UNCHANGED <<notes, edges, plots, plotNotes, counters, creq>>

(* One-to-one maps from X to the next free ids of a table.                 *)
FreshIds(X, next) == Injection(X, next .. (next + Cardinality(X) - 1))

(* The copies of the notes on the nodes DOMAIN new: on the copy of their   *)
(* node, written by the one who copies, without tags.                      *)
CopiesOf(new, by) ==
    {[y \in {f[x] : x \in NotesAt(DOMAIN new)} |->
        [node |-> new[notes[AntiFunction(f)[y]].node], by |-> by, tags |-> {}]] :
     f \in FreshIds(NotesAt(DOMAIN new), nextNote)}

(* One transaction for the rows and the notes on them.                     *)
CopyNode(c) ==
    /\ \E n \in live, m \in Edits[c], p \in live \union {NULL} :
          LET S == Subtree(n) IN
          /\ mapOf[n] \in Edits[c]
          /\ TenantOf[m] # TenantOf[mapOf[n]] =>
                {TenantOf[m], TenantOf[mapOf[n]]} \subseteq Admins[c]
          /\ nextId' = nextId + Cardinality(S) /\ nextId' <= MaxNodeId + 1
          /\ nextNote' = nextNote + Cardinality(NotesAt(S)) /\ nextNote' <= MaxNoteId + 1
          /\ \E new \in FreshIds(S, nextId) :
                /\ Graft([y \in {new[x] : x \in S} |->
                            LET x == AntiFunction(new)[y]
                            IN  IF x = n THEN p ELSE new[parent[x]]], m, p)
                /\ \E copies \in CopiesOf(new, c) : AddNotes(copies)
    /\ UNCHANGED <<edges, plots, plotNodes, plotNotes, nextEdge, nextPlot, creq>>

DeleteNode(c) ==
    /\ \E n \in live : mapOf[n] \in Edits[c] /\ Drop(n) /\ DropContent(Subtree(n))
    /\ UNCHANGED <<plots, counters, creq>>

-----------------------------------------------------------------------------
(* Edges (EdgeController).                                                 *)

(* Mutant: only the source is looked up on the map.                        *)
CreateEdgeHalfChecked(c) ==
    /\ \E m \in Edits[c] : \E a \in OnMap(m), b \in live :
          /\ TenantOf[m] \in Editors[c] /\ a # b
          /\ Begin(c, "edge", m, a, b, {})
    /\ UNCHANGED <<rows, contents, counters>>

(* The two ends are counted on the map, then the edge is inserted.         *)
CreateEdge(c) ==
    /\ \E m \in Edits[c] : \E a, b \in OnMap(m) :
          /\ TenantOf[m] \in Editors[c] /\ a # b
          /\ Begin(c, "edge", m, a, b, {})
    /\ UNCHANGED <<rows, contents, counters>>

(* The foreign keys ask for live ends, on whatever map they are by now.    *)
InsertEdge(c) ==
    LET r == creq[c] IN
    /\ At(c, "edge")
    /\ IF {r.a, r.b} \subseteq live /\ nextEdge \in EdgeIds
         THEN /\ nextEdge' = nextEdge + 1
              /\ edges' = [e \in DOMAIN edges \union {nextEdge} |->
                              IF e = nextEdge THEN [map |-> r.map, src |-> r.a, dst |-> r.b]
                                              ELSE edges[e]]
         ELSE UNCHANGED <<edges, nextEdge>>
    /\ Answer(c)
    /\ UNCHANGED <<rows, notes, plots, plotNodes, plotNotes, nextNote, nextPlot>>

DeleteEdge(c) ==
    /\ \E e \in DOMAIN edges :
          LET m == edges[e].map IN
          /\ creq[c] = Idle
          /\ m \in Edits[c] /\ TenantOf[m] \in Editors[c]
          /\ edges' = Restrict(edges, DOMAIN edges \ {e})
    /\ UNCHANGED <<rows, notes, plots, plotNodes, plotNotes, counters, creq>>

-----------------------------------------------------------------------------
(* Notes (NoteController).                                                 *)

CreateNote(c) ==
    /\ \E m \in Views[c] : \E n \in OnMap(m) : Begin(c, "note", m, n, NULL, {})
    /\ UNCHANGED <<rows, contents, counters>>

(* Mutant: off by one.                                                     *)
InsertNoteOneMore(c) ==
    LET r == creq[c] IN
    /\ At(c, "note")
    /\ IF /\ r.a \in live /\ nextNote \in NoteIds
          /\ Cardinality(NotesOn(r.map)) <= MAX_NOTES_PER_MAP
         THEN /\ nextNote' = nextNote + 1
              /\ AddNotes([x \in {nextNote} |-> [node |-> r.a, by |-> c, tags |-> {}]])
         ELSE UNCHANGED <<notes, nextNote>>
    /\ Answer(c)
    /\ UNCHANGED <<rows, edges, plots, plotNodes, plotNotes, nextEdge, nextPlot>>

(* Count and INSERT in one statement; the foreign key asks for the node.   *)
InsertNote(c) ==
    LET r == creq[c] IN
    /\ At(c, "note")
    /\ IF /\ r.a \in live /\ nextNote \in NoteIds
          /\ Cardinality(NotesOn(r.map)) < MAX_NOTES_PER_MAP
         THEN /\ nextNote' = nextNote + 1
              /\ AddNotes([x \in {nextNote} |-> [node |-> r.a, by |-> c, tags |-> {}]])
         ELSE UNCHANGED <<notes, nextNote>>
    /\ Answer(c)
    /\ UNCHANGED <<rows, edges, plots, plotNodes, plotNotes, nextEdge, nextPlot>>

(* Who wrote the note needs no permission on the map it is on by now.      *)
DeleteNote(c) ==
    /\ creq[c] = Idle
    /\ \E x \in Notes :
          /\ \/ NoteMap(x) \in Edits[c]
             \/ notes[x].by = c /\ TenantOf[NoteMap(x)] \in Members[c]
          /\ DropNotes({x})
    /\ UNCHANGED <<rows, edges, plots, plotNodes, counters, creq>>

(* Mutant: the groups are looked up in any tenant.                         *)
SetNoteVisibilityAnyGroup(c) ==
    /\ \E x \in Notes, G \in SUBSET Groups :
          /\ TenantOf[NoteMap(x)] \in Managers[c]
          /\ Begin(c, "clear", NoteMap(x), x, NULL, G)
    /\ UNCHANGED <<rows, contents, counters>>

(* Note on map and tenant, groups in the tenant; then two statements that  *)
(* no transaction joins.                                                   *)
SetNoteVisibility(c) ==
    /\ \E x \in Notes, G \in SUBSET Groups :
          /\ TenantOf[NoteMap(x)] \in Managers[c]
          /\ \A g \in G : GroupTenant[g] = TenantOf[NoteMap(x)]
          /\ Begin(c, "clear", NoteMap(x), x, NULL, G)
    /\ UNCHANGED <<rows, contents, counters>>

Retag(x, G) ==
    notes' = IF x \in Notes THEN [notes EXCEPT ![x].tags = G] ELSE notes

(* Mutant: the old tags stay.                                              *)
ClearTagsNot(c) ==
    /\ At(c, "clear")
    /\ IF creq[c].groups = {} THEN Answer(c) ELSE creq' = [creq EXCEPT ![c].op = "tag"]
    /\ UNCHANGED <<rows, contents, counters>>

ClearTags(c) ==
    /\ At(c, "clear")
    /\ Retag(creq[c].a, {})
    /\ IF creq[c].groups = {} THEN Answer(c) ELSE creq' = [creq EXCEPT ![c].op = "tag"]
    /\ UNCHANGED <<rows, edges, plots, plotNodes, plotNotes, counters>>

(* The primary key refuses a tag that is there, and with it all the others. *)
InsertTags(c) ==
    LET r == creq[c]
        had == IF r.a \in Notes THEN notes[r.a].tags ELSE {} IN
    /\ At(c, "tag")
    /\ IF had \intersect r.groups = {} THEN Retag(r.a, had \union r.groups) ELSE UNCHANGED notes
    /\ Answer(c)
    /\ UNCHANGED <<rows, edges, plots, plotNodes, plotNotes, counters>>

-----------------------------------------------------------------------------
(* Plots (PlotController).                                                 *)

CreatePlot(c) ==
    /\ creq[c] = Idle
    /\ \E t \in Editors[c] :
          IF nextPlot \in PlotIds
            THEN /\ nextPlot' = nextPlot + 1
                 /\ plots' = [p \in DOMAIN plots \union {nextPlot} |->
                                 IF p = nextPlot THEN t ELSE plots[p]]
            ELSE UNCHANGED <<plots, nextPlot>>
    /\ UNCHANGED <<rows, notes, edges, plotNodes, plotNotes, nextNote, nextEdge, creq>>

DeletePlot(c) ==
    /\ creq[c] = Idle
    /\ \E p \in DOMAIN plots :
          /\ plots[p] \in Editors[c]
          /\ plots' = Restrict(plots, DOMAIN plots \ {p})
          /\ plotNodes' = {l \in plotNodes : l[1] # p}
          /\ plotNotes' = {l \in plotNotes : l[1] # p}
    /\ UNCHANGED <<rows, notes, edges, counters, creq>>

(* The plot and the node, or the note, are looked up in the tenant; then   *)
(* INSERT IGNORE, which adds nothing when either is gone by then.          *)
AddNode(c) ==
    /\ \E p \in DOMAIN plots, n \in live :
          /\ plots[p] \in Editors[c] /\ TenantOf[mapOf[n]] = plots[p]
          /\ Begin(c, "plotNode", NULL, p, n, {})
    /\ UNCHANGED <<rows, contents, counters>>

AddNote(c) ==
    /\ \E p \in DOMAIN plots, x \in Notes :
          /\ plots[p] \in Editors[c] /\ TenantOf[NoteMap(x)] = plots[p]
          /\ Begin(c, "plotNote", NULL, p, x, {})
    /\ UNCHANGED <<rows, contents, counters>>

(* Mutant: the two ids are bound in the wrong order.                       *)
InsertPlotNodeSwapped(c) ==
    LET r == creq[c] IN
    /\ At(c, "plotNode")
    /\ plotNodes' = IF r.a \in DOMAIN plots /\ r.b \in live
                      THEN plotNodes \union {<<r.b, r.a>>} ELSE plotNodes
    /\ Answer(c)
    /\ UNCHANGED <<rows, notes, edges, plots, plotNotes, counters>>

InsertPlotNode(c) ==
    LET r == creq[c] IN
    /\ At(c, "plotNode")
    /\ plotNodes' = IF r.a \in DOMAIN plots /\ r.b \in live
                      THEN plotNodes \union {<<r.a, r.b>>} ELSE plotNodes
    /\ Answer(c)
    /\ UNCHANGED <<rows, notes, edges, plots, plotNotes, counters>>

InsertPlotNote(c) ==
    LET r == creq[c] IN
    /\ At(c, "plotNote")
    /\ plotNotes' = IF r.a \in DOMAIN plots /\ r.b \in Notes
                      THEN plotNotes \union {<<r.a, r.b>>} ELSE plotNotes
    /\ Answer(c)
    /\ UNCHANGED <<rows, notes, edges, plots, plotNodes, counters>>

RemoveNode(c) ==
    /\ creq[c] = Idle
    /\ \E l \in plotNodes : plots[l[1]] \in Editors[c] /\ plotNodes' = plotNodes \ {l}
    /\ UNCHANGED <<rows, notes, edges, plots, plotNotes, counters, creq>>

RemoveNote(c) ==
    /\ creq[c] = Idle
    /\ \E l \in plotNotes : plots[l[1]] \in Editors[c] /\ plotNotes' = plotNotes \ {l}
    /\ UNCHANGED <<rows, notes, edges, plots, plotNodes, counters, creq>>

-----------------------------------------------------------------------------
(* A statement that fails is answered 500; what was written before stays.  *)
DbError(c) ==
    /\ creq[c] # Idle
    /\ Answer(c)
    /\ UNCHANGED <<rows, contents, counters>>

Tree(c) == CreateNode(c) \/ ReparentNode(c) \/ RelocateNode(c) \/ CopyNode(c) \/ DeleteNode(c)

Request(c) ==
    \/ CreateEdge(c) \/ DeleteEdge(c)
    \/ CreateNote(c) \/ DeleteNote(c) \/ SetNoteVisibility(c)
    \/ CreatePlot(c) \/ DeletePlot(c) \/ AddNode(c) \/ AddNote(c) \/ RemoveNode(c) \/ RemoveNote(c)

Handle(c) ==
    \/ InsertEdge(c) \/ InsertNote(c) \/ ClearTags(c) \/ InsertTags(c)
    \/ InsertPlotNode(c) \/ InsertPlotNote(c)

(* The node of an addNode has gone to another tenant since it was looked   *)
(* up; the note of a setVisibility has been tagged since it was cleared.   *)
Overtakes(c) ==
    LET r == creq[c] IN
    \/ /\ At(c, "plotNode") /\ r.b \in live \intersect live'
       /\ TenantOf[mapOf[r.b]] # TenantOf[mapOf'[r.b]]
    \/ At(c, "tag") /\ r.a \in Notes' /\ notes'[r.a].tags # {}

Observe ==
    /\ met' = met \union {k \in Maps \X live' \X live' : mapOf'[k[2]] = k[1] /\ mapOf'[k[3]] = k[1]}
    /\ overtaken' = {c \in Clients : creq'[c] # Idle /\ (c \in overtaken \/ Overtakes(c))}
    /\ strays' = {l \in plotNodes' :
                    \/ l \in strays
                    \/ l \notin plotNodes /\ \E c \in overtaken : At(c, "plotNode") /\ creq'[c] = Idle}

Next ==
    /\ \E c \in Clients : Tree(c) \/ Request(c) \/ Handle(c) \/ DbError(c)
    /\ Observe

Spec == Init /\ [][Next]_vars

-----------------------------------------------------------------------------
(* Properties.                                                             *)

NoteRows == [node : Ids, by : Clients, tags : SUBSET Groups]
EdgeRows == [map : Maps, src : Ids, dst : Ids]
Requests ==
    [op : {"edge", "note", "clear", "tag"}, map : Maps, a : Nat, b : Nat, groups : SUBSET Groups]
    \union [op : {"plotNode", "plotNote"}, map : {NULL}, a : Nat, b : Nat, groups : {{}}]

RowsOK ==
    /\ nextId \in 1 .. (MaxNodeId + 1) /\ live \subseteq 1 .. (nextId - 1)
    /\ parent \in [live -> Ids \union {NULL}] /\ mapOf \in [live -> Maps]

ContentOK ==
    /\ nextNote \in 1 .. (MaxNoteId + 1) /\ Notes \subseteq 1 .. (nextNote - 1)
    /\ notes \in [Notes -> NoteRows]
    /\ nextEdge \in 1 .. (MaxEdgeId + 1) /\ DOMAIN edges \subseteq 1 .. (nextEdge - 1)
    /\ edges \in [DOMAIN edges -> EdgeRows]
    /\ nextPlot \in 1 .. (MaxPlotId + 1) /\ DOMAIN plots \subseteq 1 .. (nextPlot - 1)
    /\ plots \in [DOMAIN plots -> Tenants]
    /\ plotNodes \subseteq PlotIds \X Ids /\ plotNotes \subseteq PlotIds \X NoteIds

(* Type correctness: rows have ids below their counter, and a request in   *)
(* flight has fields of its kind.                                          *)
TypeOK ==
    /\ RowsOK /\ ContentOK /\ creq \in [Clients -> Requests \union {Idle}]
    /\ met \subseteq Maps \X Ids \X Ids /\ overtaken \subseteq Clients /\ strays \subseteq plotNodes

(* Referential integrity: whatever is deleted between the check and the    *)
(* write of a request, every note, edge and plot link refers to rows.      *)
NoDangling ==
    /\ \A x \in Notes : notes[x].node \in live
    /\ \A e \in DOMAIN edges : {edges[e].src, edges[e].dst} \subseteq live
    /\ plotNodes \subseteq (DOMAIN plots) \X live
    /\ plotNotes \subseteq (DOMAIN plots) \X Notes

(* "Cross-map edges are out of scope for v1; the controller enforces 'both *)
(* nodes belong to map_id' at insert time" (003_edges.sql): an edge and    *)
(* its two ends are on one map.  moveNode leaves edges behind.             *)
EdgesOnOneMap ==
    \A e \in DOMAIN edges : \A n \in {edges[e].src, edges[e].dst} : mapOf[n] = edges[e].map

(* What that check is worth when moves interleave: the two ends of an edge *)
(* were on its map at one and the same time, wherever they are by now.     *)
EdgeEndsMet ==
    \A e \in DOMAIN edges : <<edges[e].map, edges[e].src, edges[e].dst>> \in met

(* The tenants n has been in.                                              *)
Visited(n) == {TenantOf[m] : m \in {k \in Maps : <<k, n, n>> \in met}}

(* "All groupIds must belong to {tenantId}" (setVisibility of a note): the *)
(* groups that tag a note are of tenants its node has been in, whatever    *)
(* moves came between the check and the two statements that write.         *)
NoteTagsOfVisited ==
    \A x \in Notes : \A g \in notes[x].tags : GroupTenant[g] \in Visited(notes[x].node)

(* "Plots are tenant-scoped" (moveNode): a node of a plot is in its tenant *)
(* unless it left between the check and the write of the addNode that put  *)
(* it there; the node of a note of a plot is or has been in its tenant.    *)
PlotsInTenant ==
    /\ \A l \in plotNodes \ strays : TenantOf[mapOf[l[2]]] = plots[l[1]]
    /\ \A l \in plotNotes : plots[l[1]] \in Visited(notes[l[2]].node)

(* "replace tag set": the tags of a note are emptied, or become just the   *)
(* set that one visibility request asked for, unless another request has   *)
(* tagged the note since this one cleared it.                              *)
NoteTagsWhole ==
    [][\A x \in Notes \intersect Notes' :
          \/ notes'[x].tags \in {notes[x].tags, {}}
          \/ \E c \in Clients : /\ At(c, "tag") /\ creq'[c] = Idle /\ creq[c].a = x
                                /\ c \in overtaken \/ notes'[x].tags = creq[c].groups]_vars

(* "Atomic INSERT-with-limit-check (10k notes per map)": however many      *)
(* createNote requests passed their first check, none takes its map over   *)
(* the cap.                                                                *)
CreatedNotesWithinCap ==
    [][\A c \in Clients, m \in Maps :
          At(c, "note") /\ creq[c].map = m /\ creq'[c] = Idle /\ notes' # notes =>
              Cardinality(NotesOn(m)') <= MAX_NOTES_PER_MAP]_vars

=============================================================================
