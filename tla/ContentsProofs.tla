--------------------------- MODULE ContentsProofs ---------------------------
(***************************************************************************)
(* Theorems about Contents, for every interleaving of its requests and of  *)
(* the changes of the tree.  The tables' types and NoDangling are inductive *)
(* together; the rest also needs what each request in flight still knows   *)
(* of the rows it has checked (Flight).                                    *)
(***************************************************************************)
EXTENDS Contents, FiniteSetTheorems, TLAPS

TablesOK == RowsOK /\ ContentOK /\ creq \in [Clients -> Requests \union {Idle}]
Sound    == TablesOK /\ NoDangling

(* A step keeps the rows it does not delete on their map, on their node    *)
(* and in their tenant, and never gives an id twice.                       *)
Stable ==
    /\ nextId <= nextId'
    /\ \A x \in live' : x < nextId => x \in live /\ mapOf'[x] = mapOf[x]
    /\ nextNote <= nextNote'
    /\ \A x \in Notes' : x < nextNote => x \in Notes /\ notes'[x].node = notes[x].node
    /\ nextPlot <= nextPlot'
    /\ \A p \in DOMAIN plots' : p < nextPlot => p \in DOMAIN plots /\ plots'[p] = plots[p]

(* The same of a step that may take rows to another map.                   *)
Lasting ==
    /\ nextId <= nextId' /\ \A x \in live' : x < nextId => x \in live
    /\ nextNote <= nextNote'
    /\ \A x \in Notes' : x < nextNote => x \in Notes /\ notes'[x].node = notes[x].node
    /\ nextPlot <= nextPlot'
    /\ \A p \in DOMAIN plots' : p < nextPlot => p \in DOMAIN plots /\ plots'[p] = plots[p]

(* A step adds no edge, no tag and no member of a plot.                    *)
Shrinks ==
    /\ \A e \in DOMAIN edges' : e \in DOMAIN edges /\ edges'[e] = edges[e]
    /\ \A x \in Notes' : \/ notes'[x].tags = {}
                         \/ x \in Notes /\ notes'[x].tags = notes[x].tags
    /\ plotNodes' \subseteq plotNodes /\ plotNotes' \subseteq plotNotes

-----------------------------------------------------------------------------
(* The tree.                                                               *)

LEMMA Wider ==
    ASSUME NEW a \in Nat, NEW b \in Nat, a <= b, NEW S, S \subseteq 1 .. (a - 1)
    PROVE  S \subseteq 1 .. (b - 1)
OBVIOUS

LEMMA SubtreeIsLive == \A n : Subtree(n) \subseteq live
BY DEF Subtree

LEMMA BelowCounter ==
    ASSUME NEW i \in 1 .. (MaxNodeId + 1), NEW S, S \subseteq 1 .. (i - 1)
    PROVE  S \subseteq Ids
BY ContentsAssumption DEF Ids

LEMMA LiveIds == RowsOK => live \subseteq Ids
BY BelowCounter DEF RowsOK

LEMMA LiveIdsNext ==
    ASSUME RowsOK'
    PROVE  live' \subseteq Ids
<1>1. nextId' \in 1 .. (MaxNodeId + 1)
  BY DEF RowsOK
<1>2. live' \subseteq 1 .. (nextId' - 1)
  BY DEF RowsOK
<1> QED
  BY <1>1, <1>2, BelowCounter

LEMMA GraftType ==
    ASSUME RowsOK, nextId' \in Nat, nextId' <= MaxNodeId + 1,
           NEW P, NEW m \in Maps, NEW p, Graft(P, m, p)
    PROVE  /\ RowsOK' /\ live \subseteq live' /\ DOMAIN P = live' \ live
           /\ \A x \in live : mapOf'[x] = mapOf[x]
           /\ nextId <= nextId' /\ \A x \in live' : x < nextId => x \in live
<1> DEFINE new == DOMAIN P
<1>1. new # {} /\ new \subseteq nextId .. (nextId' - 1) /\ live' = live \union new
  BY DEF Graft
<1>2. nextId \in Nat /\ nextId >= 1 /\ live \subseteq 1 .. (nextId - 1)
  BY DEF RowsOK
<1>3. nextId' \in Nat /\ nextId <= nextId'
  BY <1>1, <1>2
<1>4. nextId' \in 1 .. (MaxNodeId + 1) /\ live' \subseteq 1 .. (nextId' - 1)
  <2>1. nextId' \in 1 .. (MaxNodeId + 1)
    BY <1>2, <1>3, ContentsAssumption
  <2>2. \A i \in new : i \in 1 .. (nextId' - 1)
    BY <1>1, <1>2, <1>3
  <2>3. live \subseteq 1 .. (nextId' - 1)
    BY <1>2, <1>3, Wider
  <2> QED
    BY <1>1, <2>1, <2>2, <2>3
<1>5. \A x \in new : P[x] \in Ids \union {NULL}
  <2>1. p \in live \union {NULL}
    BY DEF Graft, OnMap
  <2>2. live \subseteq Ids /\ new \subseteq Ids
    BY <1>1, <1>2, <1>3, ContentsAssumption DEF Ids, RowsOK
  <2>3. PICK root \in new : P[root] = p /\ \A x \in new \ {root} : P[x] \in new
    BY DEF Graft, IsTree
  <2> QED
    BY <2>1, <2>2, <2>3
<1>6. parent' \in [live' -> Ids \union {NULL}] /\ mapOf' \in [live' -> Maps]
  BY <1>1, <1>5 DEF Graft, RowsOK
<1>7. new \intersect live = {}
  BY <1>1, <1>2
<1>8. \A x \in live' : x < nextId => x \in live
  BY <1>1, <1>2, <1>3
<1> QED
  BY <1>1, <1>3, <1>4, <1>6, <1>7, <1>8 DEF RowsOK, Graft

LEMMA AttachType ==
    ASSUME RowsOK, NEW n, NEW p, Attach(n, p)
    PROVE  RowsOK' /\ live' = live /\ mapOf' = mapOf
<1>1. p \in Ids \union {NULL}
  BY ContentsAssumption DEF Attach, RowsOK, OnMap, Ids
<1> QED
  BY <1>1 DEF Attach, RowsOK

LEMMA RelocateType ==
    ASSUME RowsOK, NEW n, NEW d \in Maps, NEW p, Relocate(n, d, p)
    PROVE  RowsOK' /\ live' = live
           /\ \A x \in live : mapOf'[x] = IF x \in Subtree(n) THEN d ELSE mapOf[x]
<1>1. p \in Ids \union {NULL}
  BY ContentsAssumption DEF Relocate, RowsOK, OnMap, Ids
<1> QED
  BY <1>1 DEF Relocate, RowsOK

LEMMA DropType ==
    ASSUME RowsOK, NEW n, Drop(n)
    PROVE  RowsOK' /\ live' = live \ Subtree(n) /\ \A x \in live' : mapOf'[x] = mapOf[x]
BY DEF Drop, RowsOK

-----------------------------------------------------------------------------
(* The content.                                                            *)

(* A step that leaves the tables alone.                                    *)
LEMMA ContentStutter ==
    ASSUME ContentOK, NoDangling, UNCHANGED <<contents, counters>>, live \subseteq live'
    PROVE  ContentOK' /\ NoDangling'
BY DEF ContentOK, NoDangling, contents, counters, Notes

LEMMA ContentUnchanged ==
    ASSUME ContentOK, UNCHANGED <<contents, counters>>,
           nextId <= nextId', \A x \in live' : x < nextId => x \in live /\ mapOf'[x] = mapOf[x]
    PROVE  Stable /\ Shrinks
<1>1. nextNote \in Nat /\ nextPlot \in Nat
  BY DEF ContentOK
<1> QED
  BY <1>1 DEF Stable, Shrinks, contents, counters, Notes

LEMMA RowsUnchanged ==
    ASSUME RowsOK, UNCHANGED rows
    PROVE  /\ RowsOK' /\ live' = live /\ mapOf' = mapOf /\ nextId <= nextId'
           /\ \A x \in live' : x < nextId => x \in live /\ mapOf'[x] = mapOf[x]
<1>1. nextId \in Nat
  BY DEF RowsOK
<1> QED
  BY <1>1 DEF rows, RowsOK

LEMMA DropContentKeeps ==
    ASSUME ContentOK, NoDangling, NEW S, DropContent(S), live' = live \ S,
           UNCHANGED <<plots, counters>>
    PROVE  /\ ContentOK' /\ NoDangling' /\ Shrinks
           /\ \A x \in Notes' : x \in Notes /\ notes'[x] = notes[x]
<1>1. Notes' = Notes \ NotesAt(S) /\ \A x \in Notes' : notes'[x] = notes[x]
  BY DEF DropContent, DropNotes, Restrict, Notes
<1>2. /\ DOMAIN edges' = {e \in DOMAIN edges : edges[e].src \notin S /\ edges[e].dst \notin S}
      /\ \A e \in DOMAIN edges' : edges'[e] = edges[e]
  BY DEF DropContent, Restrict
<1>3. notes' \in [Notes' -> NoteRows]
  BY <1>1 DEF DropContent, DropNotes, Restrict, Notes, ContentOK
<1>4. edges' \in [DOMAIN edges' -> EdgeRows]
  BY <1>2 DEF DropContent, Restrict, ContentOK
<1>5. ContentOK'
  BY <1>1, <1>2, <1>3, <1>4 DEF ContentOK, DropContent, DropNotes, counters
<1>6. /\ \A x \in Notes' : notes'[x].node \in live'
      /\ \A e \in DOMAIN edges' : {edges'[e].src, edges'[e].dst} \subseteq live'
  BY <1>1, <1>2 DEF NoDangling, NotesAt
<1>7. plotNodes' \subseteq (DOMAIN plots') \X live' /\ plotNotes' \subseteq (DOMAIN plots') \X Notes'
  BY <1>1 DEF NoDangling, DropContent, DropNotes
<1>8. Shrinks
  BY <1>1, <1>2 DEF Shrinks, DropContent, DropNotes
<1> QED
  BY <1>1, <1>5, <1>6, <1>7, <1>8 DEF NoDangling

LEMMA DropNotesKeeps ==
    ASSUME ContentOK, NoDangling, NEW X, DropNotes(X),
           UNCHANGED <<live, edges, plots, plotNodes, counters>>
    PROVE  ContentOK' /\ NoDangling' /\ Notes' = Notes \ X
           /\ \A x \in Notes' : notes'[x] = notes[x]
<1>1. Notes' = Notes \ X /\ \A x \in Notes' : notes'[x] = notes[x]
  BY DEF DropNotes, Restrict, Notes
<1>2. notes' \in [Notes' -> NoteRows]
  BY <1>1 DEF DropNotes, Restrict, Notes, ContentOK
<1>3. ContentOK'
  BY <1>1, <1>2 DEF ContentOK, DropNotes, counters
<1>4. NoDangling'
  BY <1>1 DEF NoDangling, DropNotes
<1> QED
  BY <1>1, <1>3, <1>4

LEMMA AddNotesKeeps ==
    ASSUME ContentOK, NoDangling, NEW new, AddNotes(new),
           new \in [DOMAIN new -> NoteRows],
           nextNote' \in Nat, nextNote <= nextNote', nextNote' <= MaxNoteId + 1,
           DOMAIN new \subseteq nextNote .. (nextNote' - 1),
           \A x \in DOMAIN new : new[x].node \in live',
           live \subseteq live',
           UNCHANGED <<edges, plots, plotNodes, plotNotes, nextEdge, nextPlot>>
    PROVE  ContentOK' /\ NoDangling' /\ Notes' = Notes \union DOMAIN new
           /\ Notes \intersect DOMAIN new = {}
           /\ \A x \in Notes' : notes'[x] = IF x \in Notes THEN notes[x] ELSE new[x]
<1>1. Notes' = Notes \union DOMAIN new
  BY DEF AddNotes, Notes
<1>2. \A x \in Notes' : notes'[x] = IF x \in Notes THEN notes[x] ELSE new[x]
  BY DEF AddNotes, Notes
<1>3. nextNote \in Nat /\ nextNote >= 1 /\ Notes \subseteq 1 .. (nextNote - 1)
  BY DEF ContentOK
<1>4. Notes \intersect DOMAIN new = {}
  BY <1>3
<1>5. nextNote' \in 1 .. (MaxNoteId + 1) /\ Notes' \subseteq 1 .. (nextNote' - 1)
  BY <1>1, <1>3, ContentsAssumption
<1>6. notes' \in [Notes' -> NoteRows]
  BY <1>1, <1>2 DEF AddNotes, ContentOK, Notes
<1>7. ContentOK'
  BY <1>5, <1>6 DEF ContentOK
<1>8. NoDangling'
  BY <1>1, <1>2, <1>4 DEF NoDangling
<1> QED
  BY <1>1, <1>2, <1>4, <1>7, <1>8

LEMMA RetagKeeps ==
    ASSUME ContentOK, NoDangling, NEW x, NEW G \in SUBSET Groups, Retag(x, G),
           UNCHANGED <<live, edges, plots, plotNodes, plotNotes, counters>>
    PROVE  ContentOK' /\ NoDangling' /\ Notes' = Notes
           /\ \A y \in Notes : /\ notes'[y].node = notes[y].node
                               /\ notes'[y].tags = IF y = x THEN G ELSE notes[y].tags
<1>1. Notes' = Notes
  BY DEF Retag, Notes
<1>2. notes' \in [Notes -> NoteRows]
  BY DEF Retag, ContentOK, NoteRows, Notes
<1>3. \A y \in Notes : notes[y] \in NoteRows
  BY DEF ContentOK
<1>4. \A y \in Notes : /\ notes'[y].node = notes[y].node
                       /\ notes'[y].tags = IF y = x THEN G ELSE notes[y].tags
  BY <1>3 DEF Retag, NoteRows, Notes
<1>5. ContentOK'
  BY <1>1, <1>2 DEF ContentOK, counters
<1>6. NoDangling'
  BY <1>1, <1>4 DEF NoDangling
<1> QED
  BY <1>1, <1>4, <1>5, <1>6

-----------------------------------------------------------------------------
(* Requests.                                                               *)

ReqOK == creq \in [Clients -> Requests \union {Idle}]

LEMMA BeginType ==
    ASSUME ReqOK, NEW c \in Clients, NEW op \in {"edge", "note", "clear", "tag"}, NEW m \in Maps,
           NEW a \in Nat, NEW b \in Nat, NEW G \in SUBSET Groups, Begin(c, op, m, a, b, G)
    PROVE  ReqOK'
<1> DEFINE r == [op |-> op, map |-> m, a |-> a, b |-> b, groups |-> G]
<1>1. r \in Requests
  BY DEF Requests
<1> QED
  BY <1>1 DEF ReqOK, Begin

LEMMA BeginPlotType ==
    ASSUME ReqOK, NEW c \in Clients, NEW op \in {"plotNode", "plotNote"},
           NEW a \in Nat, NEW b \in Nat, Begin(c, op, NULL, a, b, {})
    PROVE  ReqOK'
<1> DEFINE r == [op |-> op, map |-> NULL, a |-> a, b |-> b, groups |-> {}]
<1>1. r \in Requests
  BY DEF Requests
<1> QED
  BY <1>1 DEF ReqOK, Begin

LEMMA AnswerType ==
    ASSUME ReqOK, NEW c \in Clients, Answer(c)
    PROVE  ReqOK'
BY DEF ReqOK, Answer

(* What a request in flight holds, by the write it has still to do.        *)
LEMMA RequestFields ==
    ASSUME ReqOK, NEW c \in Clients, creq[c].op # "none"
    PROVE  /\ creq[c].a \in Nat /\ creq[c].b \in Nat /\ creq[c].groups \in SUBSET Groups
           /\ creq[c].op \in {"edge", "note", "clear", "tag"} => creq[c].map \in Maps
BY DEF ReqOK, Requests, Idle

-----------------------------------------------------------------------------
(* The changes of the tree.                                                *)

LEMMA CreateNodeSound ==
    ASSUME Sound, NEW c \in Clients, CreateNode(c)
    PROVE  Sound' /\ Stable /\ Shrinks
<1>1. PICK m \in Edits[c], p \in live \union {NULL} :
        IF nextId \in Ids
          THEN nextId' = nextId + 1 /\ Graft([x \in {nextId} |-> p], m, p)
          ELSE UNCHANGED rows
  BY DEF CreateNode
<1>2. m \in Maps
  BY ContentsAssumption
<1>3. CASE nextId \in Ids
  <2>1. nextId' \in Nat /\ nextId' <= MaxNodeId + 1
    BY <1>1, <1>3, ContentsAssumption DEF Ids
  <2>2. Graft([x \in {nextId} |-> p], m, p)
    BY <1>1, <1>3
  <2>3. /\ RowsOK' /\ live \subseteq live' /\ \A x \in live : mapOf'[x] = mapOf[x]
        /\ nextId <= nextId' /\ \A x \in live' : x < nextId => x \in live
    <3>1. RowsOK
      BY DEF Sound, TablesOK
    <3> QED
      BY <1>2, <2>1, <2>2, <3>1, GraftType
  <2>4. Sound'
    BY <2>3, ContentStutter DEF CreateNode, Sound, TablesOK
  <2> QED
    BY <2>3, <2>4, ContentUnchanged DEF CreateNode, Sound, TablesOK
<1>4. CASE nextId \notin Ids
  <2>1. UNCHANGED rows
    BY <1>1, <1>4
  <2>2. Sound'
    BY <2>1, ContentStutter DEF CreateNode, Sound, TablesOK, rows, RowsOK
  <2> QED
    BY <2>1, <2>2, ContentUnchanged, RowsUnchanged DEF CreateNode, Sound, TablesOK
<1> QED
  BY <1>3, <1>4

LEMMA ReparentNodeSound ==
    ASSUME Sound, NEW c \in Clients, ReparentNode(c)
    PROVE  Sound' /\ Stable /\ Shrinks
<1>1. PICK n \in live, p \in live \union {NULL} : Attach(n, p)
  BY DEF ReparentNode
<1>2. RowsOK' /\ live' = live /\ mapOf' = mapOf /\ nextId' = nextId /\ nextId \in Nat
  <2>1. RowsOK' /\ live' = live /\ mapOf' = mapOf
    BY <1>1, AttachType DEF Sound, TablesOK
  <2> QED
    BY <1>1, <2>1 DEF Sound, TablesOK, RowsOK, Attach
<1>3. Sound'
  BY <1>2, ContentStutter DEF ReparentNode, Sound, TablesOK
<1> QED
  BY <1>2, <1>3, ContentUnchanged DEF ReparentNode, Sound, TablesOK

LEMMA RelocateNodeSound ==
    ASSUME Sound, NEW c \in Clients, RelocateNode(c)
    PROVE  Sound' /\ Lasting /\ Shrinks
<1>1. PICK n \in live, d \in Edits[c], p \in live \union {NULL} : Relocate(n, d, p)
  BY DEF RelocateNode
<1>2. RowsOK' /\ live' = live
  BY <1>1, RelocateType, ContentsAssumption DEF Sound, TablesOK
<1>3. plotNodes' \subseteq plotNodes
  BY DEF RelocateNode
<1>4. ContentOK' /\ NoDangling'
  BY <1>2, <1>3 DEF Sound, TablesOK, ContentOK, NoDangling, RelocateNode, counters, Notes
<1>5. nextId' = nextId /\ nextId \in Nat /\ nextNote \in Nat /\ nextPlot \in Nat
  BY <1>1 DEF Relocate, Sound, TablesOK, RowsOK, ContentOK
<1>6. Lasting /\ Shrinks
  BY <1>2, <1>3, <1>5 DEF Lasting, Shrinks, RelocateNode, counters, Notes
<1> QED
  BY <1>2, <1>4, <1>6 DEF Sound, TablesOK, RelocateNode

LEMMA DeleteNodeSound ==
    ASSUME Sound, NEW c \in Clients, DeleteNode(c)
    PROVE  Sound' /\ Stable /\ Shrinks
<1>1. PICK n \in live : Drop(n) /\ DropContent(Subtree(n))
  BY DEF DeleteNode
<1>2. /\ RowsOK' /\ live' = live \ Subtree(n) /\ nextId' = nextId
      /\ \A x \in live' : mapOf'[x] = mapOf[x]
  BY <1>1, DropType DEF Sound, TablesOK, Drop
<1>3. /\ ContentOK' /\ NoDangling' /\ Shrinks
      /\ \A x \in Notes' : x \in Notes /\ notes'[x] = notes[x]
  BY <1>1, <1>2, DropContentKeeps DEF DeleteNode, Sound, TablesOK
<1>4. nextId \in Nat /\ nextNote \in Nat /\ nextPlot \in Nat
  BY DEF Sound, TablesOK, RowsOK, ContentOK
<1>5. Stable
  BY <1>2, <1>3, <1>4 DEF Stable, DeleteNode, counters
<1> QED
  BY <1>2, <1>3, <1>5 DEF Sound, TablesOK, DeleteNode

(* The copies of the notes are on the rows the graft adds.                 *)
LEMMA CopiesType ==
    ASSUME NEW S, NEW new, DOMAIN new = S, \A x \in S : new[x] \in Ids,
           NEW c \in Clients, NEW copies \in CopiesOf(new, c), nextNote \in Nat,
           Cardinality(NotesAt(S)) \in Nat
    PROVE  /\ copies \in [DOMAIN copies -> NoteRows]
           /\ DOMAIN copies \subseteq nextNote .. (nextNote + Cardinality(NotesAt(S)) - 1)
           /\ \A y \in DOMAIN copies :
                copies[y].node \in {new[x] : x \in S} /\ copies[y].tags = {}
<1> DEFINE X == NotesAt(S)
<1>1. PICK f \in FreshIds(X, nextNote) :
        copies = [y \in {f[x] : x \in X} |->
                    [node |-> new[notes[AntiFunction(f)[y]].node], by |-> c, tags |-> {}]]
  BY DEF CopiesOf
<1>2. f \in [X -> nextNote .. (nextNote + Cardinality(X) - 1)]
  BY DEF FreshIds, Injection
<1>3. ASSUME NEW y \in {f[x] : x \in X}
      PROVE  AntiFunction(f)[y] \in X
  <2>1. AntiFunction(f) = [t \in {f[x] : x \in X} |->
                              CHOOSE z \in X : t \in {f[x] : x \in X} => f[z] = t]
    BY <1>2 DEF AntiFunction, Inverse, Range
  <2>2. PICK x \in X : f[x] = y
    BY <1>3
  <2> QED
    BY <2>1, <2>2
<1>4. \A x \in X : notes[x].node \in S
  BY DEF NotesAt
<1>5. \A y \in DOMAIN copies : /\ copies[y] \in NoteRows
                               /\ copies[y].node \in {new[x] : x \in S} /\ copies[y].tags = {}
  BY <1>1, <1>3, <1>4 DEF NoteRows
<1>6. DOMAIN copies \subseteq nextNote .. (nextNote + Cardinality(X) - 1)
  BY <1>1, <1>2
<1>7. copies \in [DOMAIN copies -> NoteRows]
  BY <1>1, <1>5
<1> QED
  BY <1>5, <1>6, <1>7

LEMMA NotesAtFinite ==
    ASSUME ContentOK, NEW S
    PROVE  IsFiniteSet(NotesAt(S)) /\ Cardinality(NotesAt(S)) \in Nat
<1>1. NotesAt(S) \subseteq 1 .. (nextNote - 1) /\ nextNote - 1 \in Int
  BY DEF ContentOK, NotesAt
<1>2. IsFiniteSet(1 .. (nextNote - 1))
  BY <1>1, FS_Interval
<1> QED
  BY <1>1, <1>2, FS_Subset, FS_CardinalityType

LEMMA SubtreeFinite ==
    ASSUME RowsOK, NEW n
    PROVE  Cardinality(Subtree(n)) \in Nat
<1>1. live \subseteq 1 .. (nextId - 1) /\ nextId - 1 \in Int /\ 1 \in Int
  BY DEF RowsOK
<1>2. IsFiniteSet(1 .. (nextId - 1))
  BY <1>1, FS_Interval
<1>3. Subtree(n) \subseteq 1 .. (nextId - 1)
  BY <1>1, SubtreeIsLive
<1> QED
  BY <1>2, <1>3, FS_Subset, FS_CardinalityType

LEMMA CopyNodeSound ==
    ASSUME Sound, NEW c \in Clients, CopyNode(c)
    PROVE  Sound' /\ Stable /\ Shrinks
<1>1. PICK n \in live, m \in Edits[c], p \in live \union {NULL} :
          LET S == Subtree(n) IN
          /\ nextId' = nextId + Cardinality(S) /\ nextId' <= MaxNodeId + 1
          /\ nextNote' = nextNote + Cardinality(NotesAt(S)) /\ nextNote' <= MaxNoteId + 1
          /\ \E new \in FreshIds(S, nextId) :
                /\ Graft([y \in {new[x] : x \in S} |->
                            LET x == AntiFunction(new)[y]
                            IN  IF x = n THEN p ELSE new[parent[x]]], m, p)
                /\ \E copies \in CopiesOf(new, c) : AddNotes(copies)
  BY DEF CopyNode
<1> DEFINE S == Subtree(n)
<1>2. PICK new \in FreshIds(S, nextId) :
                /\ Graft([y \in {new[x] : x \in S} |->
                            LET x == AntiFunction(new)[y]
                            IN  IF x = n THEN p ELSE new[parent[x]]], m, p)
                /\ \E copies \in CopiesOf(new, c) : AddNotes(copies)
  BY <1>1
<1>3. PICK copies \in CopiesOf(new, c) : AddNotes(copies)
  BY <1>2
<1> DEFINE P == [y \in {new[x] : x \in S} |->
                    LET x == AntiFunction(new)[y]
                    IN  IF x = n THEN p ELSE new[parent[x]]]
<1>4. Graft(P, m, p) /\ DOMAIN P = {new[x] : x \in S}
  BY <1>2
<1> HIDE DEF P
<1>5. m \in Maps
  BY ContentsAssumption
<1>6. RowsOK /\ ContentOK /\ NoDangling
  BY DEF Sound, TablesOK
<1>7. nextId' \in Nat /\ nextId' <= MaxNodeId + 1
  BY <1>1, <1>6, SubtreeFinite DEF RowsOK
<1>8. /\ RowsOK' /\ live \subseteq live' /\ DOMAIN P = live' \ live
      /\ \A x \in live : mapOf'[x] = mapOf[x]
      /\ nextId <= nextId' /\ \A x \in live' : x < nextId => x \in live
  BY <1>4, <1>5, <1>6, <1>7, GraftType
<1>9. DOMAIN new = S /\ \A x \in S : new[x] \in live'
  BY <1>4, <1>8 DEF FreshIds, Injection
<1>10. \A x \in S : new[x] \in Ids
  BY <1>8, <1>9, LiveIdsNext
<1>11. nextNote \in Nat /\ Cardinality(NotesAt(S)) \in Nat
  BY <1>6, NotesAtFinite DEF ContentOK
<1>12. /\ copies \in [DOMAIN copies -> NoteRows]
       /\ DOMAIN copies \subseteq nextNote .. (nextNote + Cardinality(NotesAt(S)) - 1)
       /\ \A y \in DOMAIN copies :
            copies[y].node \in {new[x] : x \in S} /\ copies[y].tags = {}
  BY <1>3, <1>9, <1>10, <1>11, CopiesType
<1>13. /\ nextNote' \in Nat /\ nextNote <= nextNote' /\ nextNote' <= MaxNoteId + 1
       /\ DOMAIN copies \subseteq nextNote .. (nextNote' - 1)
  <2>1. nextNote' = nextNote + Cardinality(NotesAt(S)) /\ nextNote' <= MaxNoteId + 1
    BY <1>1
  <2> QED
    BY <2>1, <1>11, <1>12
<1>14. \A y \in DOMAIN copies : copies[y].node \in live'
  BY <1>9, <1>12
<1>15. UNCHANGED <<edges, plots, plotNodes, plotNotes, nextEdge, nextPlot, creq>>
  BY DEF CopyNode
<1>16. /\ ContentOK' /\ NoDangling' /\ Notes' = Notes \union DOMAIN copies
       /\ Notes \intersect DOMAIN copies = {}
       /\ \A x \in Notes' : notes'[x] = IF x \in Notes THEN notes[x] ELSE copies[x]
  BY <1>3, <1>6, <1>8, <1>12, <1>13, <1>14, <1>15, AddNotesKeeps
<1>17. Sound'
  BY <1>8, <1>15, <1>16 DEF Sound, TablesOK
<1>18. nextPlot \in Nat
  BY <1>6 DEF ContentOK
<1>19. \A x \in Notes' : x < nextNote => x \in Notes
  BY <1>11, <1>12, <1>16
<1>20. Stable
  BY <1>8, <1>13, <1>15, <1>16, <1>18, <1>19 DEF Stable
<1>21. Shrinks
  BY <1>12, <1>15, <1>16 DEF Shrinks
<1> QED
  BY <1>17, <1>20, <1>21

-----------------------------------------------------------------------------
(* The handlers.                                                           *)

LEMMA InsertEdgeSound ==
    ASSUME Sound, NEW c \in Clients, InsertEdge(c)
    PROVE  /\ Sound' /\ Stable
           /\ \A e \in DOMAIN edges' :
                \/ e \in DOMAIN edges /\ edges'[e] = edges[e]
                \/ /\ edges'[e] = [map |-> creq[c].map, src |-> creq[c].a, dst |-> creq[c].b]
                   /\ {creq[c].a, creq[c].b} \subseteq live
<1> DEFINE r == creq[c]
<1>0. Stable
  <2>1. nextId \in Nat /\ nextNote \in Nat /\ nextPlot \in Nat
    BY DEF Sound, TablesOK, RowsOK, ContentOK
  <2> QED
    BY <2>1 DEF Stable, InsertEdge, rows, Notes
<1>1. /\ RowsOK' /\ ReqOK' /\ live' = live /\ plots' = plots
      /\ notes' = notes /\ plotNodes' = plotNodes /\ plotNotes' = plotNotes
      /\ nextNote' = nextNote /\ nextPlot' = nextPlot
  <2>1. ReqOK'
    BY AnswerType DEF InsertEdge, Sound, TablesOK, ReqOK
  <2> QED
    BY <2>1 DEF InsertEdge, Sound, TablesOK, rows, RowsOK
<1>2. CASE {r.a, r.b} \subseteq live /\ nextEdge \in EdgeIds
  <2> DEFINE e == [map |-> r.map, src |-> r.a, dst |-> r.b]
  <2>1. e \in EdgeRows
    <3>1. r.map \in Maps
      BY RequestFields DEF InsertEdge, At, Sound, TablesOK, ReqOK
    <3>2. live \subseteq Ids
      BY LiveIds DEF Sound, TablesOK
    <3> QED
      BY <1>2, <3>1, <3>2 DEF EdgeRows
  <2>2. /\ nextEdge' = nextEdge + 1
        /\ edges' = [x \in DOMAIN edges \union {nextEdge} |-> IF x = nextEdge THEN e ELSE edges[x]]
    BY <1>2 DEF InsertEdge
  <2>3. nextEdge' \in 1 .. (MaxEdgeId + 1) /\ DOMAIN edges' \subseteq 1 .. (nextEdge' - 1)
    BY <1>2, <2>2, ContentsAssumption DEF Sound, TablesOK, ContentOK, EdgeIds
  <2>4. edges' \in [DOMAIN edges' -> EdgeRows]
    BY <2>1, <2>2 DEF Sound, TablesOK, ContentOK
  <2>5. ContentOK'
    BY <1>1, <2>3, <2>4 DEF Sound, TablesOK, ContentOK, Notes
  <2>6. NoDangling'
    BY <1>1, <1>2, <2>2 DEF Sound, NoDangling, Notes
  <2>7. \A x \in DOMAIN edges' :
          \/ x \in DOMAIN edges /\ edges'[x] = edges[x]
          \/ edges'[x] = e /\ {r.a, r.b} \subseteq live
    BY <1>2, <2>2
  <2> QED
    BY <1>0, <1>1, <2>5, <2>6, <2>7 DEF Sound, TablesOK, ReqOK
<1>3. CASE ~({r.a, r.b} \subseteq live /\ nextEdge \in EdgeIds)
  BY <1>0, <1>1, <1>3 DEF InsertEdge, Sound, TablesOK, ReqOK, ContentOK, NoDangling, Notes
<1> QED
  BY <1>2, <1>3

LEMMA InsertNoteSound ==
    ASSUME Sound, NEW c \in Clients, InsertNote(c)
    PROVE  /\ Sound' /\ Stable /\ Shrinks /\ \A x \in Notes : notes'[x] = notes[x]
           /\ notes' # notes =>
                /\ nextNote \notin Notes /\ Notes' = Notes \union {nextNote}
                /\ notes'[nextNote] = [node |-> creq[c].a, by |-> c, tags |-> {}]
                /\ creq[c].a \in live
                /\ Cardinality(NotesOn(creq[c].map)) < MAX_NOTES_PER_MAP
<1> DEFINE r == creq[c]
           guard == /\ r.a \in live /\ nextNote \in NoteIds
                    /\ Cardinality(NotesOn(r.map)) < MAX_NOTES_PER_MAP
           new == [x \in {nextNote} |-> [node |-> r.a, by |-> c, tags |-> {}]]
<1>0. nextId \in Nat /\ nextNote \in Nat /\ nextPlot \in Nat
  BY DEF Sound, TablesOK, RowsOK, ContentOK
<1>1. /\ RowsOK' /\ ReqOK' /\ live' = live
      /\ UNCHANGED <<edges, plots, plotNodes, plotNotes, nextEdge, nextPlot>>
  <2>1. ReqOK'
    BY AnswerType DEF InsertNote, Sound, TablesOK, ReqOK
  <2> QED
    BY <2>1 DEF InsertNote, Sound, TablesOK, rows, RowsOK
<1>2. CASE guard
  <2>1. nextNote' = nextNote + 1 /\ AddNotes(new)
    BY <1>2 DEF InsertNote
  <2>2. r.a \in Ids
    BY <1>2, LiveIds DEF Sound, TablesOK
  <2>3. /\ new \in [DOMAIN new -> NoteRows] /\ DOMAIN new = {nextNote}
        /\ \A x \in DOMAIN new : new[x].node \in live'
    BY <1>1, <1>2, <2>2 DEF NoteRows
  <2>4. /\ nextNote' \in Nat /\ nextNote <= nextNote' /\ nextNote' <= MaxNoteId + 1
        /\ DOMAIN new \subseteq nextNote .. (nextNote' - 1)
    BY <1>2, <2>1, <2>3, ContentsAssumption DEF NoteIds
  <2>5. ContentOK /\ NoDangling
    BY DEF Sound, TablesOK
  <2> HIDE DEF new
  <2>6. /\ ContentOK' /\ NoDangling' /\ Notes' = Notes \union DOMAIN new
        /\ Notes \intersect DOMAIN new = {}
        /\ \A x \in Notes' : notes'[x] = IF x \in Notes THEN notes[x] ELSE new[x]
    BY <1>1, <2>1, <2>3, <2>4, <2>5, AddNotesKeeps
  <2>7. new[nextNote] = [node |-> r.a, by |-> c, tags |-> {}]
    BY DEF new
  <2>8. Stable
    BY <1>0, <2>3, <2>4, <2>6 DEF Stable, InsertNote, rows
  <2>9. Shrinks
    BY <1>1, <2>3, <2>6, <2>7 DEF Shrinks
  <2> QED
    BY <1>1, <1>2, <2>3, <2>6, <2>7, <2>8, <2>9 DEF Sound, TablesOK, ReqOK
<1>3. CASE ~guard
  <2>1. UNCHANGED <<notes, nextNote>>
    BY <1>3 DEF InsertNote
  <2>2. Sound'
    BY <1>1, <2>1 DEF Sound, TablesOK, ReqOK, ContentOK, NoDangling, Notes
  <2>3. Stable
    BY <1>0, <2>1 DEF Stable, InsertNote, rows, Notes
  <2>4. Shrinks
    BY <1>1, <2>1 DEF Shrinks, Notes
  <2> QED
    BY <2>1, <2>2, <2>3, <2>4
<1> QED
  BY <1>2, <1>3

(* A step that only begins or answers a request.                           *)
LEMMA RequestOnlySound ==
    ASSUME Sound, ReqOK', UNCHANGED <<rows, contents, counters>>
    PROVE  Sound' /\ Stable /\ Shrinks
<1>1. RowsOK /\ ContentOK /\ NoDangling
  BY DEF Sound, TablesOK
<1>2. /\ RowsOK' /\ live' = live /\ mapOf' = mapOf /\ nextId <= nextId'
      /\ \A x \in live' : x < nextId => x \in live /\ mapOf'[x] = mapOf[x]
  BY <1>1, RowsUnchanged
<1>3. Stable /\ Shrinks
  BY <1>1, <1>2, ContentUnchanged
<1>4. ContentOK' /\ NoDangling'
  BY <1>1, <1>2, ContentStutter
<1> QED
  BY <1>2, <1>3, <1>4 DEF Sound, TablesOK, ReqOK

LEMMA CheckSound ==
    ASSUME Sound, NEW c \in Clients,
           \/ CreateEdge(c) \/ CreateNote(c) \/ SetNoteVisibility(c)
           \/ AddNode(c) \/ AddNote(c) \/ DbError(c)
    PROVE  Sound' /\ Stable /\ Shrinks
<1>1. ReqOK /\ live \subseteq Nat /\ Notes \subseteq Nat /\ DOMAIN plots \subseteq Nat /\ NULL \in Nat
  BY DEF Sound, TablesOK, ReqOK, RowsOK, ContentOK, NULL
<1>2. UNCHANGED <<rows, contents, counters>>
  BY DEF CreateEdge, CreateNote, SetNoteVisibility, AddNode, AddNote, DbError
<1>3. CASE CreateEdge(c)
  <2>1. PICK m \in Edits[c] : \E a, b \in OnMap(m) : Begin(c, "edge", m, a, b, {})
    BY <1>3 DEF CreateEdge
  <2>2. PICK a, b \in OnMap(m) : Begin(c, "edge", m, a, b, {})
    BY <2>1
  <2>3. m \in Maps /\ a \in Nat /\ b \in Nat
    BY <1>1, ContentsAssumption DEF OnMap
  <2> QED
    BY <1>1, <1>2, <2>2, <2>3, BeginType, RequestOnlySound
<1>4. CASE CreateNote(c)
  <2>1. PICK m \in Views[c] : \E n \in OnMap(m) : Begin(c, "note", m, n, NULL, {})
    BY <1>4 DEF CreateNote
  <2>2. PICK n \in OnMap(m) : Begin(c, "note", m, n, NULL, {})
    BY <2>1
  <2>3. m \in Maps /\ n \in Nat
    BY <1>1, ContentsAssumption DEF OnMap
  <2> QED
    BY <1>1, <1>2, <2>2, <2>3, BeginType, RequestOnlySound
<1>5. CASE SetNoteVisibility(c)
  <2>1. PICK x \in Notes, G \in SUBSET Groups : Begin(c, "clear", NoteMap(x), x, NULL, G)
    BY <1>5 DEF SetNoteVisibility
  <2>2. NoteMap(x) \in Maps
    <3>1. notes[x].node \in live
      BY DEF Sound, NoDangling
    <3> QED
      BY <3>1 DEF Sound, TablesOK, RowsOK, NoteMap
  <2>3. x \in Nat
    BY <1>1
  <2> QED
    BY <1>1, <1>2, <2>1, <2>2, <2>3, BeginType, RequestOnlySound
<1>6. CASE AddNode(c)
  <2>1. PICK p \in DOMAIN plots, n \in live : Begin(c, "plotNode", NULL, p, n, {})
    BY <1>6 DEF AddNode
  <2>2. p \in Nat /\ n \in Nat
    BY <1>1
  <2> QED
    BY <1>1, <1>2, <2>1, <2>2, BeginPlotType, RequestOnlySound
<1>7. CASE AddNote(c)
  <2>1. PICK p \in DOMAIN plots, x \in Notes : Begin(c, "plotNote", NULL, p, x, {})
    BY <1>7 DEF AddNote
  <2>2. p \in Nat /\ x \in Nat
    BY <1>1
  <2> QED
    BY <1>1, <1>2, <2>1, <2>2, BeginPlotType, RequestOnlySound
<1>8. CASE DbError(c)
  BY <1>1, <1>2, <1>8, AnswerType, RequestOnlySound DEF DbError
<1> QED
  BY <1>3, <1>4, <1>5, <1>6, <1>7, <1>8

LEMMA DeleteEdgeSound ==
    ASSUME Sound, NEW c \in Clients, DeleteEdge(c)
    PROVE  Sound' /\ Stable /\ Shrinks
<1>1. PICK e \in DOMAIN edges : edges' = Restrict(edges, DOMAIN edges \ {e})
  BY DEF DeleteEdge
<1>2. DOMAIN edges' = DOMAIN edges \ {e} /\ \A x \in DOMAIN edges' : edges'[x] = edges[x]
  BY <1>1 DEF Restrict
<1>3. UNCHANGED <<rows, notes, plots, plotNodes, plotNotes, counters, creq>>
  BY DEF DeleteEdge
<1>4. edges' \in [DOMAIN edges' -> EdgeRows]
  BY <1>1, <1>2 DEF Restrict, Sound, TablesOK, ContentOK
<1>5. Sound'
  BY <1>2, <1>3, <1>4 DEF Sound, TablesOK, RowsOK, ContentOK, NoDangling, rows, counters, Notes
<1>6. nextId \in Nat /\ nextNote \in Nat /\ nextPlot \in Nat
  BY DEF Sound, TablesOK, RowsOK, ContentOK
<1>7. Stable /\ Shrinks
  BY <1>2, <1>3, <1>6 DEF Stable, Shrinks, rows, counters, Notes
<1> QED
  BY <1>5, <1>7

LEMMA DeleteNoteSound ==
    ASSUME Sound, NEW c \in Clients, DeleteNote(c)
    PROVE  Sound' /\ Stable /\ Shrinks
<1>1. PICK x \in Notes : DropNotes({x})
  BY DEF DeleteNote
<1>2. UNCHANGED <<rows, edges, plots, plotNodes, counters, creq>>
  BY DEF DeleteNote
<1>3. /\ ContentOK' /\ NoDangling' /\ Notes' = Notes \ {x}
      /\ \A y \in Notes' : notes'[y] = notes[y]
  BY <1>1, <1>2, DropNotesKeeps DEF Sound, TablesOK, rows
<1>4. RowsOK' /\ Sound'
  BY <1>2, <1>3 DEF Sound, TablesOK, RowsOK, rows
<1>5. nextId \in Nat /\ nextNote \in Nat /\ nextPlot \in Nat
  BY DEF Sound, TablesOK, RowsOK, ContentOK
<1>6. Stable
  BY <1>2, <1>3, <1>5 DEF Stable, rows, counters
<1>7. Shrinks
  BY <1>1, <1>2, <1>3 DEF Shrinks, DropNotes
<1> QED
  BY <1>4, <1>6, <1>7

(* The two statements of setVisibility write the tags of one note.         *)
LEMMA RetagSound ==
    ASSUME Sound, NEW x, NEW G \in SUBSET Groups, Retag(x, G), ReqOK',
           UNCHANGED <<rows, edges, plots, plotNodes, plotNotes, counters>>
    PROVE  /\ Sound' /\ Stable
           /\ Notes' = Notes
           /\ \A y \in Notes : notes'[y].tags = IF y = x THEN G ELSE notes[y].tags
<1>1. ContentOK /\ NoDangling /\ UNCHANGED <<live, edges, plots, plotNodes, plotNotes, counters>>
  BY DEF Sound, TablesOK, rows
<1>2. /\ ContentOK' /\ NoDangling' /\ Notes' = Notes
      /\ \A y \in Notes : /\ notes'[y].node = notes[y].node
                          /\ notes'[y].tags = IF y = x THEN G ELSE notes[y].tags
  BY <1>1, RetagKeeps
<1>3. RowsOK' /\ Sound'
  BY <1>2 DEF Sound, TablesOK, RowsOK, rows, ReqOK
<1>4. nextId \in Nat /\ nextNote \in Nat /\ nextPlot \in Nat
  BY DEF Sound, TablesOK, RowsOK, ContentOK
<1>5. Stable
  BY <1>2, <1>4 DEF Stable, rows, counters
<1> QED
  BY <1>2, <1>3, <1>5

LEMMA ClearTagsSound ==
    ASSUME Sound, NEW c \in Clients, ClearTags(c)
    PROVE  Sound' /\ Stable /\ Shrinks
<1>1. creq[c].op = "clear" /\ ReqOK
  BY DEF ClearTags, At, Sound, TablesOK, ReqOK
<1>2. ReqOK'
  <2>1. CASE creq[c].groups = {}
    BY <1>1, <2>1, AnswerType DEF ClearTags
  <2>2. CASE creq[c].groups # {}
    <3>1. creq' = [creq EXCEPT ![c].op = "tag"]
      BY <2>2 DEF ClearTags
    <3>2. creq[c] \in Requests
      BY <1>1 DEF ReqOK, Idle
    <3>3. creq[c] \in [op : {"edge", "note", "clear", "tag"}, map : Maps, a : Nat, b : Nat,
                       groups : SUBSET Groups]
      BY <1>1, <3>2 DEF Requests
    <3>4. [creq[c] EXCEPT !.op = "tag"] \in Requests
      BY <3>3 DEF Requests
    <3> QED
      BY <1>1, <3>1, <3>4 DEF ReqOK
  <2> QED
    BY <2>1, <2>2
<1>3. Retag(creq[c].a, {})
      /\ UNCHANGED <<rows, edges, plots, plotNodes, plotNotes, counters>>
  BY DEF ClearTags
<1>4. /\ Sound' /\ Stable /\ Notes' = Notes
      /\ \A y \in Notes : notes'[y].tags = IF y = creq[c].a THEN {} ELSE notes[y].tags
  BY <1>2, <1>3, RetagSound
<1>5. Shrinks
  BY <1>3, <1>4 DEF Shrinks
<1> QED
  BY <1>4, <1>5

LEMMA InsertTagsSound ==
    ASSUME Sound, NEW c \in Clients, InsertTags(c)
    PROVE  /\ Sound' /\ Stable
           /\ UNCHANGED <<edges, plotNodes, plotNotes>> /\ Notes' = Notes
           /\ \A y \in Notes : \/ notes'[y].tags = notes[y].tags
                               \/ /\ y = creq[c].a
                                  /\ notes'[y].tags = notes[y].tags \union creq[c].groups
<1> DEFINE r == creq[c]
           had == IF r.a \in Notes THEN notes[r.a].tags ELSE {}
<1>1. creq[c].op = "tag" /\ ReqOK
  BY DEF InsertTags, At, Sound, TablesOK, ReqOK
<1>2. ReqOK' /\ UNCHANGED <<rows, edges, plots, plotNodes, plotNotes, counters>>
  BY <1>1, AnswerType DEF InsertTags
<1>3. CASE had \intersect r.groups = {}
  <2>1. Retag(r.a, had \union r.groups)
    BY <1>3 DEF InsertTags
  <2>2. had \union r.groups \in SUBSET Groups
    <3>1. r.groups \subseteq Groups
      BY <1>1, RequestFields
    <3>2. \A y \in Notes : notes[y].tags \subseteq Groups
      BY DEF Sound, TablesOK, ContentOK, NoteRows
    <3> QED
      BY <3>1, <3>2
  <2> HIDE DEF had
  <2>3. /\ Sound' /\ Stable /\ Notes' = Notes
        /\ \A y \in Notes : notes'[y].tags = IF y = r.a THEN had \union r.groups ELSE notes[y].tags
    BY <1>2, <2>1, <2>2, RetagSound
  <2> QED
    BY <1>2, <2>3 DEF had
<1>4. CASE had \intersect r.groups # {}
  <2>1. UNCHANGED notes
    BY <1>4 DEF InsertTags
  <2>2. UNCHANGED <<rows, contents, counters>>
    BY <1>2, <2>1 DEF contents
  <2> QED
    BY <1>2, <2>1, <2>2, RequestOnlySound DEF Notes
<1> QED
  BY <1>3, <1>4

LEMMA CreatePlotSound ==
    ASSUME Sound, NEW c \in Clients, CreatePlot(c)
    PROVE  Sound' /\ Stable /\ Shrinks
<1>1. PICK t \in Editors[c] :
          IF nextPlot \in PlotIds
            THEN /\ nextPlot' = nextPlot + 1
                 /\ plots' = [p \in DOMAIN plots \union {nextPlot} |->
                                 IF p = nextPlot THEN t ELSE plots[p]]
            ELSE UNCHANGED <<plots, nextPlot>>
  BY DEF CreatePlot
<1>2. UNCHANGED <<rows, notes, edges, plotNodes, plotNotes, nextNote, nextEdge, creq>>
  BY DEF CreatePlot
<1>3. nextId \in Nat /\ nextNote \in Nat /\ nextPlot \in Nat
  BY DEF Sound, TablesOK, RowsOK, ContentOK
<1>4. CASE nextPlot \in PlotIds
  <2>1. DOMAIN plots \subseteq 1 .. (nextPlot - 1)
    BY DEF Sound, TablesOK, ContentOK
  <2>2. /\ nextPlot' = nextPlot + 1 /\ DOMAIN plots' = DOMAIN plots \union {nextPlot}
        /\ \A p \in DOMAIN plots' : plots'[p] = IF p = nextPlot THEN t ELSE plots[p]
    BY <1>1, <1>4
  <2>3. nextPlot' \in 1 .. (MaxPlotId + 1) /\ DOMAIN plots' \subseteq 1 .. (nextPlot' - 1)
    BY <1>4, <2>1, <2>2, ContentsAssumption DEF PlotIds
  <2>4. plots' \in [DOMAIN plots' -> Tenants]
    <3>1. t \in Tenants
      BY ContentsAssumption
    <3> QED
      BY <1>1, <1>4, <3>1 DEF Sound, TablesOK, ContentOK
  <2>5. ContentOK'
    BY <1>2, <2>3, <2>4 DEF Sound, TablesOK, ContentOK, Notes
  <2>6. NoDangling'
    BY <1>2, <2>2 DEF Sound, NoDangling, Notes, rows
  <2>7. Stable /\ Shrinks
    BY <1>2, <1>3, <2>1, <2>2 DEF Stable, Shrinks, Notes, rows
  <2> QED
    BY <1>2, <2>5, <2>6, <2>7 DEF Sound, TablesOK, RowsOK, rows
<1>5. CASE nextPlot \notin PlotIds
  <2>1. UNCHANGED <<rows, contents, counters>> /\ ReqOK'
    BY <1>1, <1>2, <1>5 DEF contents, counters, Sound, TablesOK, ReqOK
  <2> QED
    BY <2>1, RequestOnlySound
<1> QED
  BY <1>4, <1>5

LEMMA DeletePlotSound ==
    ASSUME Sound, NEW c \in Clients, DeletePlot(c)
    PROVE  Sound' /\ Stable /\ Shrinks
<1>1. PICK p \in DOMAIN plots :
          /\ plots' = Restrict(plots, DOMAIN plots \ {p})
          /\ plotNodes' = {l \in plotNodes : l[1] # p}
          /\ plotNotes' = {l \in plotNotes : l[1] # p}
  BY DEF DeletePlot
<1>2. UNCHANGED <<rows, notes, edges, counters, creq>>
  BY DEF DeletePlot
<1>3. DOMAIN plots' = DOMAIN plots \ {p} /\ \A q \in DOMAIN plots' : plots'[q] = plots[q]
  BY <1>1 DEF Restrict
<1>4. plots' \in [DOMAIN plots' -> Tenants]
  BY <1>1, <1>3 DEF Restrict, Sound, TablesOK, ContentOK
<1>5. ContentOK'
  BY <1>1, <1>2, <1>3, <1>4 DEF Sound, TablesOK, ContentOK, Notes, counters
<1>6. NoDangling'
  BY <1>1, <1>2, <1>3 DEF Sound, NoDangling, Notes, rows
<1>7. nextId \in Nat /\ nextNote \in Nat /\ nextPlot \in Nat
  BY DEF Sound, TablesOK, RowsOK, ContentOK
<1>8. Stable /\ Shrinks
  BY <1>1, <1>2, <1>3, <1>7 DEF Stable, Shrinks, Notes, rows, counters
<1> QED
  BY <1>2, <1>5, <1>6, <1>8 DEF Sound, TablesOK, RowsOK, rows

LEMMA RemoveSound ==
    ASSUME Sound, NEW c \in Clients, RemoveNode(c) \/ RemoveNote(c)
    PROVE  Sound' /\ Stable /\ Shrinks
<1>1. /\ UNCHANGED <<rows, notes, edges, plots, counters, creq>>
      /\ plotNodes' \subseteq plotNodes /\ plotNotes' \subseteq plotNotes
  BY DEF RemoveNode, RemoveNote
<1>2. nextId \in Nat /\ nextNote \in Nat /\ nextPlot \in Nat
  BY DEF Sound, TablesOK, RowsOK, ContentOK
<1>3. Stable /\ Shrinks
  BY <1>1, <1>2 DEF Stable, Shrinks, Notes, rows, counters
<1>4. ContentOK' /\ RowsOK'
  BY <1>1 DEF Sound, TablesOK, RowsOK, ContentOK, rows, counters, Notes
<1>5. NoDangling'
  BY <1>1 DEF Sound, NoDangling, rows, Notes
<1> QED
  BY <1>1, <1>3, <1>4, <1>5 DEF Sound, TablesOK

(* What the foreign keys of plot_nodes and plot_notes let in.              *)
LEMMA InsertPlotSound ==
    ASSUME Sound, NEW c \in Clients, InsertPlotNode(c) \/ InsertPlotNote(c)
    PROVE  /\ Sound' /\ Stable /\ UNCHANGED <<notes, edges>>
           /\ plotNodes' \subseteq plotNodes \union
                {l \in {<<creq[c].a, creq[c].b>>} : /\ creq[c].op = "plotNode"
                                                    /\ creq[c].a \in DOMAIN plots
                                                    /\ creq[c].b \in live}
           /\ plotNotes' \subseteq plotNotes \union
                {l \in {<<creq[c].a, creq[c].b>>} : /\ creq[c].op = "plotNote"
                                                    /\ creq[c].a \in DOMAIN plots
                                                    /\ creq[c].b \in Notes}
<1> DEFINE link == <<creq[c].a, creq[c].b>>
<1>1. /\ UNCHANGED <<rows, notes, edges, plots, counters>>
      /\ plotNodes' \subseteq plotNodes \union
           {l \in {link} : creq[c].op = "plotNode" /\ creq[c].a \in DOMAIN plots /\ creq[c].b \in live}
      /\ plotNotes' \subseteq plotNotes \union
           {l \in {link} : creq[c].op = "plotNote" /\ creq[c].a \in DOMAIN plots /\ creq[c].b \in Notes}
  BY DEF InsertPlotNode, InsertPlotNote, At
<1>2. ReqOK'
  BY AnswerType DEF InsertPlotNode, InsertPlotNote, Sound, TablesOK, ReqOK
<1>3. nextId \in Nat /\ nextNote \in Nat /\ nextPlot \in Nat
  BY DEF Sound, TablesOK, RowsOK, ContentOK
<1>4. Stable
  BY <1>1, <1>3 DEF Stable, Notes, rows, counters
<1>5. live \subseteq Ids /\ DOMAIN plots \subseteq PlotIds /\ Notes \subseteq NoteIds
  <2>1. /\ nextPlot \in 1 .. (MaxPlotId + 1) /\ DOMAIN plots \subseteq 1 .. (nextPlot - 1)
        /\ nextNote \in 1 .. (MaxNoteId + 1) /\ Notes \subseteq 1 .. (nextNote - 1)
    BY DEF Sound, TablesOK, ContentOK
  <2>2. DOMAIN plots \subseteq PlotIds /\ Notes \subseteq NoteIds
    BY <2>1, ContentsAssumption DEF PlotIds, NoteIds
  <2> QED
    BY <2>2, LiveIds DEF Sound, TablesOK
<1>6. plotNodes' \subseteq PlotIds \X Ids /\ plotNotes' \subseteq PlotIds \X NoteIds
  BY <1>1, <1>5 DEF Sound, TablesOK, ContentOK
<1>7. ContentOK' /\ RowsOK'
  BY <1>1, <1>6 DEF Sound, TablesOK, RowsOK, ContentOK, rows, counters, Notes
<1>8. plotNodes' \subseteq (DOMAIN plots) \X live /\ plotNotes' \subseteq (DOMAIN plots) \X Notes
  BY <1>1 DEF Sound, NoDangling
<1>9. NoDangling'
  BY <1>1, <1>8 DEF Sound, NoDangling, rows, Notes
<1> QED
  BY <1>1, <1>2, <1>4, <1>7, <1>9 DEF Sound, TablesOK, ReqOK

LEMMA SoundInit == Init => Sound
<1> SUFFICES ASSUME Init PROVE Sound
  OBVIOUS
<1>1. nextId \in 1 .. (MaxNodeId + 1) /\ live \subseteq 1 .. (nextId - 1)
  BY ContentsAssumption DEF Init, ForestInit
<1>2. RowsOK
  BY <1>1 DEF Init, ForestInit, RowsOK
<1>3. ContentOK
  <2>1. nextNote \in 1 .. (MaxNoteId + 1) /\ nextEdge \in 1 .. (MaxEdgeId + 1)
        /\ nextPlot \in 1 .. (MaxPlotId + 1)
    BY ContentsAssumption DEF Init
  <2> QED
    BY <2>1 DEF Init, ContentOK, Notes
<1> QED
  BY <1>2, <1>3 DEF Init, Sound, TablesOK, NoDangling, Notes

(* A step, what it records aside.                                          *)
Work(c) == Tree(c) \/ Request(c) \/ Handle(c) \/ DbError(c)

LEMMA StableLasts == Stable => Lasting
BY DEF Stable, Lasting

LEMMA WorkSound ==
    ASSUME Sound, NEW c \in Clients, Work(c)
    PROVE  /\ Sound' /\ Lasting
           /\ RelocateNode(c) \/ Stable
           /\ InsertEdge(c) \/ InsertTags(c) \/ InsertPlotNode(c) \/ InsertPlotNote(c) \/ Shrinks
<1>1. CASE RelocateNode(c)
  BY <1>1, RelocateNodeSound
<1>2. CASE Tree(c) /\ ~RelocateNode(c)
  BY <1>2, CreateNodeSound, ReparentNodeSound, CopyNodeSound, DeleteNodeSound, StableLasts DEF Tree
<1>3. CASE Request(c) \/ DbError(c)
  BY <1>3, CheckSound, DeleteEdgeSound, DeleteNoteSound, CreatePlotSound, DeletePlotSound,
     RemoveSound, StableLasts DEF Request
<1>4. CASE Handle(c)
  BY <1>4, InsertEdgeSound, InsertNoteSound, ClearTagsSound, InsertTagsSound, InsertPlotSound,
     StableLasts DEF Handle
<1> QED
  BY <1>1, <1>2, <1>3, <1>4 DEF Work

LEMMA SoundStep == Sound /\ [Next]_vars => Sound'
<1> SUFFICES ASSUME Sound, [Next]_vars PROVE Sound'
  OBVIOUS
<1>1. CASE Next
  BY <1>1, WorkSound DEF Next, Work
<1>2. CASE UNCHANGED vars
  BY <1>2 DEF vars, rows, contents, counters, Sound, TablesOK, RowsOK, ContentOK, NoDangling, Notes
<1> QED
  BY <1>1, <1>2

LEMMA SoundAlways == Spec => []Sound
BY SoundInit, SoundStep, PTL DEF Spec

(* What is recorded has its type, too.                                     *)
HistoryOK == met \subseteq Maps \X Ids \X Ids /\ overtaken \subseteq Clients /\ strays \subseteq plotNodes

LEMMA HistoryStep == Sound /\ HistoryOK /\ [Next]_vars => HistoryOK'
<1> SUFFICES ASSUME Sound, HistoryOK, [Next]_vars PROVE HistoryOK'
  OBVIOUS
<1>1. CASE Next
  <2>1. Observe /\ Sound'
    BY <1>1, SoundStep DEF Next
  <2>2. live' \subseteq Ids
    BY <2>1, LiveIdsNext DEF Sound, TablesOK
  <2>3. met' \subseteq Maps \X Ids \X Ids
    BY <2>1, <2>2 DEF Observe, HistoryOK
  <2> QED
    BY <2>1, <2>3 DEF Observe, HistoryOK
<1>2. CASE UNCHANGED vars
  BY <1>2 DEF vars, history, contents, HistoryOK
<1> QED
  BY <1>1, <1>2

(* Every row, counter and request has its type, whatever the requests do   *)
(* to each other, moves included.                                          *)
THEOREM TypeCorrect == Spec => []TypeOK
<1>1. Init => HistoryOK
  BY DEF Init, HistoryOK
<1>2. Sound /\ HistoryOK => TypeOK
  BY DEF Sound, TablesOK, HistoryOK, TypeOK
<1> QED
  BY <1>1, <1>2, SoundAlways, HistoryStep, PTL DEF Spec

(* No note, edge or plot link refers to a row that is gone, though the     *)
(* handlers check their rows in one statement and write in a later one.    *)
THEOREM NothingDangles == Spec => []NoDangling
<1>1. Sound => NoDangling
  BY DEF Sound
<1> QED
  BY <1>1, SoundAlways, PTL

-----------------------------------------------------------------------------
(* Moves keep the tree a tree.                                             *)

(* A node's parent is there and on its map.                                *)
Rooted == \A x \in live : parent[x] # NULL => parent[x] \in live /\ mapOf[parent[x]] = mapOf[x]

LEMMA SubtreeClosed ==
    \A n : \A x \in live : parent[x] \in Subtree(n) => x \in Subtree(n)
BY DEF Subtree

LEMMA SubtreeParents ==
    ASSUME NEW n \in live, NEW x \in Subtree(n), x # n
    PROVE  parent[x] \in Subtree(n)
<1> SUFFICES ASSUME parent[x] \notin Subtree(n) PROVE FALSE
  OBVIOUS
<1> DEFINE T == Subtree(n) \ {x}
<1>1. T \in SUBSET live /\ x \in live
  BY SubtreeIsLive
<1>2. n \in Subtree(n)
  BY DEF Subtree
<1>3. n \in T /\ \A y \in live : parent[y] \in T => y \in T
  BY <1>2, SubtreeClosed
<1> QED
  BY <1>1, <1>3 DEF Subtree

LEMMA SubtreeOnOneMap ==
    ASSUME RowsOK, Rooted, NEW n \in live, NEW x \in Subtree(n)
    PROVE  mapOf[x] = mapOf[n]
<1> DEFINE T == OnMap(mapOf[n])
<1>1. T \in SUBSET live /\ n \in T
  BY DEF OnMap
<1>2. \A y \in live : parent[y] \in T => y \in T
  <2>1. NULL \notin live
    BY DEF RowsOK, NULL
  <2> QED
    BY <2>1 DEF OnMap, Rooted
<1>3. x \in T
  BY <1>1, <1>2 DEF Subtree
<1> QED
  BY <1>3 DEF OnMap

LEMMA RootedTree ==
    ASSUME Sound, Rooted, NEW c \in Clients, Tree(c)
    PROVE  Rooted'
<1>1. RowsOK /\ NULL \notin live
  BY DEF Sound, TablesOK, RowsOK, NULL
<1>2. ASSUME NEW P, NEW m, NEW p, Graft(P, m, p)
      PROVE  Rooted'
  <2>1. PICK root \in DOMAIN P : P[root] = p /\ \A x \in DOMAIN P \ {root} : P[x] \in DOMAIN P
    BY <1>2 DEF Graft, IsTree
  <2>2. (p \in live /\ mapOf[p] = m) \/ p = NULL
    BY <1>2 DEF Graft, OnMap
  <2>3. /\ live' = live \union DOMAIN P
        /\ \A x \in live' : /\ parent'[x] = IF x \in DOMAIN P THEN P[x] ELSE parent[x]
                            /\ mapOf'[x] = IF x \in DOMAIN P THEN m ELSE mapOf[x]
    BY <1>2 DEF Graft
  <2>4. DOMAIN P \intersect live = {}
    <3>1. nextId \in Nat /\ live \subseteq 1 .. (nextId - 1)
      BY <1>1 DEF RowsOK
    <3>2. DOMAIN P \subseteq nextId .. (nextId' - 1)
      BY <1>2 DEF Graft
    <3> QED
      BY <3>1, <3>2
  <2> QED
    BY <2>1, <2>2, <2>3, <2>4 DEF Rooted
<1>3. CASE CreateNode(c)
  <2>1. PICK m \in Edits[c], p \in live \union {NULL} :
          Graft([x \in {nextId} |-> p], m, p) \/ UNCHANGED rows
    BY <1>3 DEF CreateNode
  <2> QED
    BY <1>2, <2>1 DEF Rooted, rows
<1>4. CASE CopyNode(c)
  <2>1. \E P, m, p : Graft(P, m, p)
    BY <1>4 DEF CopyNode
  <2> QED
    BY <1>2, <2>1
<1>5. CASE ReparentNode(c)
  <2>1. PICK n \in live, p \in live \union {NULL} : Attach(n, p)
    BY <1>5 DEF ReparentNode
  <2>2. (p \in live /\ mapOf[p] = mapOf[n]) \/ p = NULL
    BY <2>1 DEF Attach, OnMap
  <2>3. /\ live' = live /\ mapOf' = mapOf
        /\ \A x \in live : parent'[x] = IF x = n THEN p ELSE parent[x]
    BY <1>1, <2>1 DEF Attach, RowsOK
  <2> QED
    BY <2>2, <2>3 DEF Rooted
<1>6. CASE RelocateNode(c)
  <2>1. PICK n \in live, d \in Edits[c], p \in live \union {NULL} : Relocate(n, d, p)
    BY <1>6 DEF RelocateNode
  <2>2. (p \in live /\ mapOf[p] = d) \/ p = NULL
    BY <2>1 DEF Relocate, OnMap
  <2>3. /\ live' = live /\ d # mapOf[n]
        /\ \A x \in live : /\ parent'[x] = IF x = n THEN p ELSE parent[x]
                           /\ mapOf'[x] = IF x \in Subtree(n) THEN d ELSE mapOf[x]
    BY <1>1, <2>1 DEF Relocate, RowsOK
  <2>4. p \notin Subtree(n)
    BY <1>1, <2>2, <2>3, SubtreeOnOneMap, SubtreeIsLive
  <2>5. n \in Subtree(n)
    BY DEF Subtree
  <2> SUFFICES ASSUME NEW x \in live, parent'[x] # NULL
               PROVE  parent'[x] \in live /\ mapOf'[parent'[x]] = mapOf'[x]
    BY <2>3 DEF Rooted
  <2>6. CASE x = n
    BY <2>2, <2>3, <2>4, <2>5, <2>6
  <2>7. CASE x # n
    <3>1. parent'[x] = parent[x] /\ parent[x] \in live /\ mapOf[parent[x]] = mapOf[x]
      BY <2>3, <2>7 DEF Rooted
    <3>2. x \in Subtree(n) <=> parent[x] \in Subtree(n)
      BY <2>7, SubtreeParents, SubtreeClosed
    <3> QED
      BY <2>3, <3>1, <3>2
  <2> QED
    BY <2>6, <2>7
<1>7. CASE DeleteNode(c)
  <2>1. PICK n \in live : Drop(n)
    BY <1>7 DEF DeleteNode
  <2>2. /\ live' = live \ Subtree(n)
        /\ \A x \in live' : parent'[x] = parent[x] /\ mapOf'[x] = mapOf[x]
    BY <2>1 DEF Drop
  <2> QED
    BY <2>2, SubtreeClosed DEF Rooted
<1> QED
  BY <1>3, <1>4, <1>5, <1>6, <1>7 DEF Tree

(* A row of plot_nodes that outlives a step keeps its node's tenant: a move *)
(* to another tenant clears the rows of the whole subtree.                  *)
LEMMA PlotNodesKeepTenant ==
    ASSUME Sound, Rooted, NEW c \in Clients, Work(c), NEW l \in plotNodes, l \in plotNodes'
    PROVE  TenantOf[mapOf'[l[2]]] = TenantOf[mapOf[l[2]]]
<1>1. Sound' /\ l[2] \in live /\ l[2] \in live' /\ live \subseteq 1 .. (nextId - 1) /\ nextId \in Nat
  BY WorkSound DEF Sound, NoDangling, TablesOK, RowsOK
<1>2. CASE Stable
  <2>1. \A n \in live : n \in live' => mapOf'[n] = mapOf[n]
    BY <1>1, <1>2 DEF Stable
  <2> QED
    BY <1>1, <2>1
<1>3. CASE RelocateNode(c)
  <2>1. PICK n \in live, d \in Edits[c], p \in live \union {NULL} :
          /\ Relocate(n, d, p)
          /\ plotNodes' = {k \in plotNodes : TenantOf[d] # TenantOf[mapOf[n]] => k[2] \notin Subtree(n)}
    BY <1>3 DEF RelocateNode
  <2>2. mapOf'[l[2]] = IF l[2] \in Subtree(n) THEN d ELSE mapOf[l[2]]
    BY <1>1, <2>1 DEF Relocate
  <2>3. l[2] \in Subtree(n) => mapOf[l[2]] = mapOf[n]
    BY SubtreeOnOneMap DEF Sound, TablesOK
  <2> QED
    BY <2>1, <2>2, <2>3
<1> QED
  BY <1>2, <1>3, WorkSound

LEMMA RootedWork ==
    ASSUME Sound, Rooted, NEW c \in Clients, Work(c)
    PROVE  Rooted'
<1>1. CASE Tree(c)
  BY <1>1, RootedTree
<1>2. CASE Request(c) \/ Handle(c) \/ DbError(c)
  <2>1. UNCHANGED rows
    BY <1>2 DEF Request, Handle, DbError, CreateEdge, DeleteEdge, CreateNote, DeleteNote,
       SetNoteVisibility, CreatePlot, DeletePlot, AddNode, AddNote, RemoveNode, RemoveNote,
       InsertEdge, InsertNote, ClearTags, InsertTags, InsertPlotNode, InsertPlotNote
  <2> QED
    BY <2>1 DEF Rooted, rows
<1> QED
  BY <1>1, <1>2 DEF Work

-----------------------------------------------------------------------------
(* What requests in flight still know, while nodes move.                   *)

(* What has been on a map together stays so; nodes on a map are.           *)
(* The tenants n has been in, by what is recorded in h.                    *)
TenantsIn(h, n) == {TenantOf[m] : m \in {k \in Maps : <<k, n, n>> \in h}}

LEMMA MetGrows ==
    ASSUME Sound, Sound', Observe
    PROVE  /\ met \subseteq met'
           /\ \A n \in live' : <<mapOf'[n], n, n>> \in met'
           /\ \A n : TenantsIn(met, n) \subseteq TenantsIn(met', n)
           /\ \A n \in live' : TenantOf[mapOf'[n]] \in TenantsIn(met', n)
<1>1. met \subseteq met'
  BY DEF Observe
<1>2. \A n \in live' : mapOf'[n] \in Maps /\ <<mapOf'[n], n, n>> \in met'
  BY DEF Observe, Sound, TablesOK, RowsOK
<1> QED
  BY <1>1, <1>2 DEF TenantsIn

(* Until it is answered, a request knows of the rows it is about what it   *)
(* has checked, as far as moves cannot change it, unless they are gone;    *)
(* ids that are gone do not come back.                                     *)
Flight(c) ==
    LET r == creq[c] IN
    /\ r.op = "edge" => <<r.map, r.a, r.b>> \in met
    /\ r.op \in {"clear", "tag"} =>
         /\ r.a < nextNote
         /\ r.a \in Notes => TenantOf[r.map] \in TenantsIn(met, notes[r.a].node)
         /\ \A g \in r.groups : GroupTenant[g] = TenantOf[r.map]
    /\ r.op = "tag" => (c \notin overtaken /\ r.a \in Notes => notes[r.a].tags = {})
    /\ r.op = "plotNode" =>
         /\ r.a < nextPlot /\ r.b < nextId
         /\ c \notin overtaken /\ r.a \in DOMAIN plots /\ r.b \in live =>
              TenantOf[mapOf[r.b]] = plots[r.a]
    /\ r.op = "plotNote" =>
         /\ r.a < nextPlot /\ r.b < nextNote
         /\ r.a \in DOMAIN plots /\ r.b \in Notes => plots[r.a] \in TenantsIn(met, notes[r.b].node)

LEMMA WaitingKeepsFlight ==
    ASSUME Sound, Sound', Lasting, Observe, NEW c \in Clients, Flight(c), creq'[c] = creq[c]
    PROVE  Flight(c)'
<1> DEFINE r == creq[c]
<1>1. creq'[c] = r
  OBVIOUS
<1>2. /\ nextId \in Nat /\ nextNote \in Nat /\ nextPlot \in Nat
      /\ nextId' \in Nat /\ nextNote' \in Nat /\ nextPlot' \in Nat
  BY DEF Sound, TablesOK, RowsOK, ContentOK
<1>3. r.op # "none" => r.a \in Nat /\ r.b \in Nat
  BY RequestFields DEF Sound, TablesOK, ReqOK
<1>4. \A i \in Nat : /\ i < nextId => i < nextId'
                     /\ i < nextNote => i < nextNote'
                     /\ i < nextPlot => i < nextPlot'
  BY <1>2 DEF Lasting
<1>5. r # Idle => (c \notin overtaken' => c \notin overtaken /\ ~Overtakes(c))
  BY DEF Observe
<1>6. \A n : TenantsIn(met, n) \subseteq TenantsIn(met', n)
  BY MetGrows
<1>7. CASE r.op = "edge"
  BY <1>1, <1>7, MetGrows DEF Flight
<1>8. CASE r.op \in {"clear", "tag"}
  <2>1. /\ r.a < nextNote
        /\ r.a \in Notes => TenantOf[r.map] \in TenantsIn(met, notes[r.a].node)
        /\ \A g \in r.groups : GroupTenant[g] = TenantOf[r.map]
    BY <1>8 DEF Flight
  <2>2. r.a \in Notes' => r.a \in Notes /\ notes'[r.a].node = notes[r.a].node
    BY <2>1 DEF Lasting
  <2>3. r.a < nextNote'
    BY <1>3, <1>4, <1>8, <2>1
  <2>4. r.a \in Notes' => TenantOf[r.map] \in TenantsIn(met', notes'[r.a].node)
    BY <1>6, <2>1, <2>2
  <2>5. r.op = "tag" => (c \notin overtaken' /\ r.a \in Notes' => notes'[r.a].tags = {})
    BY <1>5 DEF Overtakes, At, Idle
  <2> QED
    BY <1>1, <1>8, <2>1, <2>3, <2>4, <2>5 DEF Flight
<1>9. CASE r.op = "plotNode"
  <2>1. /\ r.a < nextPlot /\ r.b < nextId
        /\ c \notin overtaken /\ r.a \in DOMAIN plots /\ r.b \in live =>
             TenantOf[mapOf[r.b]] = plots[r.a]
    BY <1>9 DEF Flight
  <2>2. /\ r.a \in DOMAIN plots' => r.a \in DOMAIN plots /\ plots'[r.a] = plots[r.a]
        /\ r.b \in live' => r.b \in live
    BY <2>1 DEF Lasting
  <2>3. c \notin overtaken' /\ r.b \in live' =>
          c \notin overtaken /\ TenantOf[mapOf'[r.b]] = TenantOf[mapOf[r.b]]
    BY <1>5, <1>9, <2>2 DEF Overtakes, At, Idle
  <2>4. r.a < nextPlot' /\ r.b < nextId'
    BY <1>3, <1>4, <1>9, <2>1
  <2> QED
    BY <1>1, <1>9, <2>1, <2>2, <2>3, <2>4 DEF Flight
<1>10. CASE r.op = "plotNote"
  <2>1. /\ r.a < nextPlot /\ r.b < nextNote
        /\ r.a \in DOMAIN plots /\ r.b \in Notes => plots[r.a] \in TenantsIn(met, notes[r.b].node)
    BY <1>10 DEF Flight
  <2>2. /\ r.a \in DOMAIN plots' => r.a \in DOMAIN plots /\ plots'[r.a] = plots[r.a]
        /\ r.b \in Notes' => r.b \in Notes /\ notes'[r.b].node = notes[r.b].node
    BY <2>1 DEF Lasting
  <2>3. r.a < nextPlot' /\ r.b < nextNote'
    BY <1>3, <1>4, <1>10, <2>1
  <2>4. r.a \in DOMAIN plots' /\ r.b \in Notes' => plots'[r.a] \in TenantsIn(met', notes'[r.b].node)
    BY <1>6, <2>1, <2>2
  <2> QED
    BY <1>1, <1>10, <2>3, <2>4 DEF Flight
<1> QED
  BY <1>1, <1>7, <1>8, <1>9, <1>10 DEF Flight

(* A check puts into flight only what it has found to hold.                *)
LEMMA CheckKeepsFlight ==
    ASSUME Sound, NEW c \in Clients, NEW d \in Clients, Observe, creq'[c] # creq[c],
           \/ CreateEdge(d) \/ CreateNote(d) \/ SetNoteVisibility(d)
           \/ AddNode(d) \/ AddNote(d) \/ DbError(d)
    PROVE  Flight(c)'
<1>1. creq \in [Clients -> Requests \union {Idle}]
  BY DEF Sound, TablesOK
<1>2. UNCHANGED <<rows, contents, counters>>
  BY DEF CreateEdge, CreateNote, SetNoteVisibility, AddNode, AddNote, DbError
<1>3. /\ live \subseteq 1 .. (nextId - 1) /\ nextId \in Nat
      /\ Notes \subseteq 1 .. (nextNote - 1) /\ nextNote \in Nat
      /\ DOMAIN plots \subseteq 1 .. (nextPlot - 1) /\ nextPlot \in Nat
  BY DEF Sound, TablesOK, RowsOK, ContentOK
<1>4. /\ \A n \in live : n < nextId
      /\ \A x \in Notes : x < nextNote
      /\ \A p \in DOMAIN plots : p < nextPlot
  BY <1>3
<1>5. \A x \in Notes : TenantOf[NoteMap(x)] \in TenantsIn(met', notes[x].node)
  <2>1. Sound'
    BY CheckSound
  <2>2. \A x \in Notes : notes[x].node \in live' /\ mapOf'[notes[x].node] = NoteMap(x)
    BY <1>2 DEF Sound, NoDangling, NoteMap, rows
  <2> QED
    BY <2>1, <2>2, MetGrows
<1>6. CASE CreateEdge(d)
  <2>1. PICK m \in Edits[d] : \E a, b \in OnMap(m) : Begin(d, "edge", m, a, b, {})
    BY <1>6 DEF CreateEdge
  <2>2. PICK a, b \in OnMap(m) : Begin(d, "edge", m, a, b, {})
    BY <2>1
  <2>3. creq'[c] = [op |-> "edge", map |-> m, a |-> a, b |-> b, groups |-> {}]
    BY <1>1, <2>2 DEF Begin
  <2>4. <<m, a, b>> \in met'
    <3>1. m \in Maps /\ a \in live' /\ b \in live' /\ mapOf'[a] = m /\ mapOf'[b] = m
      BY <1>2, ContentsAssumption DEF OnMap, rows
    <3> QED
      BY <3>1 DEF Observe
  <2> QED
    BY <2>3, <2>4 DEF Flight
<1>7. CASE CreateNote(d)
  <2>1. creq'[c].op = "note"
    BY <1>1, <1>7 DEF CreateNote, Begin
  <2> QED
    BY <2>1 DEF Flight
<1>8. CASE SetNoteVisibility(d)
  <2>1. PICK x \in Notes, G \in SUBSET Groups :
          /\ \A g \in G : GroupTenant[g] = TenantOf[NoteMap(x)]
          /\ Begin(d, "clear", NoteMap(x), x, NULL, G)
    BY <1>8 DEF SetNoteVisibility
  <2>2. creq'[c] = [op |-> "clear", map |-> NoteMap(x), a |-> x, b |-> NULL, groups |-> G]
    BY <1>1, <2>1 DEF Begin
  <2>3. notes' = notes /\ nextNote' = nextNote
    BY <1>2 DEF contents, counters
  <2> QED
    BY <1>4, <1>5, <2>1, <2>2, <2>3 DEF Flight
<1>9. CASE AddNode(d)
  <2>1. PICK p \in DOMAIN plots, n \in live :
          TenantOf[mapOf[n]] = plots[p] /\ Begin(d, "plotNode", NULL, p, n, {})
    BY <1>9 DEF AddNode
  <2>2. creq'[c] = [op |-> "plotNode", map |-> NULL, a |-> p, b |-> n, groups |-> {}]
    BY <1>1, <2>1 DEF Begin
  <2> QED
    BY <1>2, <1>4, <2>1, <2>2 DEF Flight, rows, contents, counters
<1>10. CASE AddNote(d)
  <2>1. PICK p \in DOMAIN plots, x \in Notes :
          TenantOf[NoteMap(x)] = plots[p] /\ Begin(d, "plotNote", NULL, p, x, {})
    BY <1>10 DEF AddNote
  <2>2. creq'[c] = [op |-> "plotNote", map |-> NULL, a |-> p, b |-> x, groups |-> {}]
    BY <1>1, <2>1 DEF Begin
  <2>3. notes' = notes /\ nextNote' = nextNote /\ plots' = plots /\ nextPlot' = nextPlot
    BY <1>2 DEF contents, counters
  <2> QED
    BY <1>4, <1>5, <2>1, <2>2, <2>3 DEF Flight
<1>11. CASE DbError(d)
  <2>1. creq'[c] = Idle
    BY <1>1, <1>11 DEF DbError, Answer
  <2> QED
    BY <2>1 DEF Flight, Idle
<1> QED
  BY <1>6, <1>7, <1>8, <1>9, <1>10, <1>11

(* setVisibility goes on to its second statement with no tag on its note.  *)
LEMMA ClearKeepsFlight ==
    ASSUME Sound, NEW c \in Clients, ClearTags(c), Flight(c), Observe, creq'[c] # Idle
    PROVE  Flight(c)'
<1>1. creq \in [Clients -> Requests \union {Idle}] /\ creq[c].op = "clear"
  BY DEF Sound, TablesOK, ClearTags, At
<1>2. creq[c] \in [op : {"edge", "note", "clear", "tag"}, map : Maps, a : Nat, b : Nat,
                   groups : SUBSET Groups]
  BY <1>1 DEF Requests, Idle
<1>3. creq'[c] = [creq[c] EXCEPT !.op = "tag"]
  BY <1>1 DEF ClearTags, Answer
<1>4. PICK a, m, G : a = creq[c].a /\ m = creq[c].map /\ G = creq[c].groups
  OBVIOUS
<1>5. creq'[c].op = "tag" /\ creq'[c].a = a /\ creq'[c].map = m /\ creq'[c].groups = G
  BY <1>2, <1>3, <1>4
<1>6. /\ a < nextNote /\ \A g \in G : GroupTenant[g] = TenantOf[m]
      /\ a \in Notes => TenantOf[m] \in TenantsIn(met, notes[a].node)
  BY <1>1, <1>4 DEF Flight
<1>7. Retag(a, {}) /\ nextNote' = nextNote /\ notes \in [Notes -> NoteRows]
  BY <1>4 DEF ClearTags, counters, Sound, TablesOK, ContentOK
<1>8. a \in Notes' => a \in Notes /\ notes'[a].node = notes[a].node /\ notes'[a].tags = {}
  BY <1>7 DEF Retag, Notes, NoteRows
<1>9. \A n : TenantsIn(met, n) \subseteq TenantsIn(met', n)
  BY DEF Observe, TenantsIn
<1>10. a \in Notes' => TenantOf[m] \in TenantsIn(met', notes'[a].node)
  BY <1>6, <1>8, <1>9
<1> QED
  BY <1>5, <1>6, <1>7, <1>8, <1>10 DEF Flight

LEMMA WorkKeepsFlight ==
    ASSUME Sound, NEW c \in Clients, NEW d \in Clients, Work(d), Observe, Flight(c)
    PROVE  Flight(c)'
<1>1. Sound' /\ Lasting
  BY WorkSound
<1>2. CASE creq'[c] = creq[c]
  BY <1>1, <1>2, WaitingKeepsFlight
<1>3. CASE creq'[c] = Idle
  BY <1>3 DEF Flight, Idle
<1>4. CASE creq'[c] # creq[c] /\ creq'[c] # Idle
  <2>1. creq \in [Clients -> Requests \union {Idle}]
    BY DEF Sound, TablesOK
  <2>2. CASE \/ CreateEdge(d) \/ CreateNote(d) \/ SetNoteVisibility(d)
             \/ AddNode(d) \/ AddNote(d) \/ DbError(d)
    BY <1>4, <2>2, CheckKeepsFlight
  <2>3. CASE ClearTags(d)
    <3>1. c = d
      BY <1>4, <2>1, <2>3 DEF ClearTags, Answer
    <3> QED
      BY <1>4, <2>3, <3>1, ClearKeepsFlight
  <2>4. CASE \/ InsertEdge(d) \/ InsertNote(d) \/ InsertTags(d)
             \/ InsertPlotNode(d) \/ InsertPlotNote(d)
    BY <1>4, <2>1, <2>4 DEF InsertEdge, InsertNote, InsertTags, InsertPlotNode, InsertPlotNote, Answer
  <2>5. CASE \/ Tree(d) \/ DeleteEdge(d) \/ DeleteNote(d) \/ CreatePlot(d) \/ DeletePlot(d)
             \/ RemoveNode(d) \/ RemoveNote(d)
    BY <1>4, <2>5 DEF Tree, CreateNode, ReparentNode, RelocateNode, CopyNode, DeleteNode,
       DeleteEdge, DeleteNote, CreatePlot, DeletePlot, RemoveNode, RemoveNote
  <2> QED
    BY <2>2, <2>3, <2>4, <2>5 DEF Work, Request, Handle
<1> QED
  BY <1>2, <1>3, <1>4

-----------------------------------------------------------------------------
(* What edges, tags and plots refer to.                                    *)

Kept == /\ Sound /\ Rooted /\ \A c \in Clients : Flight(c)
        /\ EdgeEndsMet /\ NoteTagsOfVisited /\ PlotsInTenant

LEMMA EdgesStep ==
    ASSUME Kept, NEW c \in Clients, Work(c), Observe
    PROVE  EdgeEndsMet'
<1> SUFFICES ASSUME NEW e \in DOMAIN edges'
             PROVE  <<edges'[e].map, edges'[e].src, edges'[e].dst>> \in met'
  BY DEF EdgeEndsMet
<1>1. met \subseteq met'
  BY DEF Observe
<1>2. CASE e \in DOMAIN edges /\ edges'[e] = edges[e]
  BY <1>1, <1>2 DEF Kept, EdgeEndsMet
<1>3. CASE InsertEdge(c) /\ edges'[e] = [map |-> creq[c].map, src |-> creq[c].a, dst |-> creq[c].b]
  <2>1. <<creq[c].map, creq[c].a, creq[c].b>> \in met
    BY <1>3 DEF Kept, Flight, InsertEdge, At
  <2> QED
    BY <1>1, <1>3, <2>1
<1>4. CASE InsertEdge(c)
  BY <1>2, <1>3, <1>4, InsertEdgeSound DEF Kept
<1>5. CASE InsertTags(c) \/ InsertPlotNode(c) \/ InsertPlotNote(c)
  BY <1>2, <1>5 DEF InsertTags, InsertPlotNode, InsertPlotNote
<1>6. CASE Shrinks
  BY <1>2, <1>6 DEF Shrinks
<1> QED
  BY <1>4, <1>5, <1>6, WorkSound DEF Kept

(* What a step may do to tags: take them away, or InsertTags.              *)
LEMMA StepTags ==
    ASSUME Sound, NEW c \in Clients, Work(c), ~InsertTags(c)
    PROVE  \A x \in Notes' : notes'[x].tags = {} \/ (x \in Notes /\ notes'[x].tags = notes[x].tags)
<1>1. CASE InsertEdge(c) \/ InsertPlotNode(c) \/ InsertPlotNote(c)
  BY <1>1 DEF InsertEdge, InsertPlotNode, InsertPlotNote, Notes
<1>2. CASE Shrinks
  BY <1>2 DEF Shrinks
<1> QED
  BY <1>1, <1>2, WorkSound

LEMMA NoteTagsStep ==
    ASSUME Kept, NEW c \in Clients, Work(c), Observe
    PROVE  NoteTagsOfVisited'
<1> SUFFICES ASSUME NEW x \in Notes', NEW g \in notes'[x].tags
             PROVE  GroupTenant[g] \in TenantsIn(met', notes'[x].node)
  BY DEF NoteTagsOfVisited, Visited, TenantsIn
<1>1. Sound /\ Sound' /\ Lasting
  BY WorkSound DEF Kept
<1>2. x \in Notes /\ (g \in notes[x].tags \/ (InsertTags(c) /\ x = creq[c].a /\ g \in creq[c].groups))
  BY <1>1, StepTags, InsertTagsSound
<1>3. notes'[x].node = notes[x].node
  <2>1. x < nextNote
    BY <1>1, <1>2 DEF Sound, TablesOK, ContentOK
  <2> QED
    BY <1>1, <2>1 DEF Lasting
<1>4. GroupTenant[g] \in TenantsIn(met, notes[x].node)
  <2>1. CASE g \in notes[x].tags
    BY <1>2, <2>1 DEF Kept, NoteTagsOfVisited, Visited, TenantsIn
  <2>2. CASE InsertTags(c) /\ x = creq[c].a /\ g \in creq[c].groups
    BY <1>2, <2>2 DEF Kept, Flight, InsertTags, At
  <2> QED
    BY <1>2, <2>1, <2>2
<1> QED
  BY <1>1, <1>3, <1>4, MetGrows

LEMMA PlotsStep ==
    ASSUME Kept, NEW c \in Clients, Work(c), Observe
    PROVE  PlotsInTenant'
<1> DEFINE r == creq[c]
<1>1. Sound /\ Sound' /\ Lasting /\ Rooted
  BY WorkSound DEF Kept
<1>2. /\ \A l \in plotNodes' \ plotNodes :
           InsertPlotNode(c) /\ l = <<r.a, r.b>> /\ r.a \in DOMAIN plots /\ r.b \in live
      /\ \A l \in plotNotes' \ plotNotes :
           InsertPlotNote(c) /\ l = <<r.a, r.b>> /\ r.a \in DOMAIN plots /\ r.b \in Notes
  <2>1. CASE InsertPlotNode(c)
    BY <2>1 DEF InsertPlotNode
  <2>2. CASE InsertPlotNote(c)
    BY <2>2 DEF InsertPlotNote
  <2>3. CASE InsertEdge(c) \/ InsertTags(c)
    BY <2>3 DEF InsertEdge, InsertTags
  <2>4. CASE Shrinks
    BY <2>4 DEF Shrinks
  <2> QED
    BY <1>1, <2>1, <2>2, <2>3, <2>4, WorkSound
<1>3. \A p \in DOMAIN plots : p \in DOMAIN plots' => plots'[p] = plots[p]
  <2>1. DOMAIN plots \subseteq 1 .. (nextPlot - 1) /\ nextPlot \in Nat
    BY <1>1 DEF Sound, TablesOK, ContentOK
  <2> QED
    BY <1>1, <2>1 DEF Lasting
<1>4. ASSUME NEW l \in plotNodes', l \notin strays'
      PROVE  TenantOf[mapOf'[l[2]]] = plots'[l[1]]
  <2>1. CASE l \in plotNodes
    <3>1. l \notin strays /\ l[1] \in DOMAIN plots /\ l[1] \in DOMAIN plots'
      BY <1>1, <1>4, <2>1 DEF Observe, Sound, NoDangling
    <3> QED
      BY <1>1, <1>3, <2>1, <3>1, PlotNodesKeepTenant DEF Kept, PlotsInTenant
  <2>2. CASE l \notin plotNodes
    <3>1. InsertPlotNode(c) /\ l = <<r.a, r.b>> /\ r.a \in DOMAIN plots /\ r.b \in live
      BY <1>2, <2>2
    <3>2. At(c, "plotNode") /\ creq'[c] = Idle /\ UNCHANGED <<rows, plots>>
      BY <1>1, <3>1 DEF InsertPlotNode, Answer, Sound, TablesOK
    <3>3. c \notin overtaken
      BY <1>4, <2>2, <3>2 DEF Observe
    <3>4. TenantOf[mapOf[r.b]] = plots[r.a]
      BY <3>1, <3>2, <3>3 DEF Kept, Flight, At
    <3> QED
      BY <3>1, <3>2, <3>4 DEF rows
  <2> QED
    BY <2>1, <2>2
<1>5. ASSUME NEW l \in plotNotes'
      PROVE  plots'[l[1]] \in TenantsIn(met', notes'[l[2]].node)
  <2>1. /\ l[1] \in DOMAIN plots /\ l[2] \in Notes /\ l[1] \in DOMAIN plots' /\ l[2] \in Notes'
        /\ plots[l[1]] \in TenantsIn(met, notes[l[2]].node)
    <3>1. l[1] \in DOMAIN plots' /\ l[2] \in Notes'
      BY <1>1 DEF Sound, NoDangling
    <3>2. CASE l \in plotNotes
      BY <1>1, <3>1, <3>2 DEF Kept, PlotsInTenant, Visited, TenantsIn, Sound, NoDangling
    <3>3. CASE l \notin plotNotes
      <4>1. At(c, "plotNote") /\ l[1] = r.a /\ l[2] = r.b /\ r.a \in DOMAIN plots /\ r.b \in Notes
        BY <1>2, <3>3 DEF InsertPlotNote
      <4>2. plots[r.a] \in TenantsIn(met, notes[r.b].node)
        BY <4>1 DEF Kept, Flight, At
      <4> QED
        BY <3>1, <4>1, <4>2
    <3> QED
      BY <3>2, <3>3
  <2>2. notes'[l[2]].node = notes[l[2]].node
    <3>1. l[2] < nextNote
      BY <1>1, <2>1 DEF Sound, TablesOK, ContentOK
    <3> QED
      BY <1>1, <2>1, <3>1 DEF Lasting
  <2> QED
    BY <1>1, <1>3, <2>1, <2>2, MetGrows
<1> QED
  BY <1>4, <1>5 DEF PlotsInTenant, Visited, TenantsIn

LEMMA KeptInit == Init => Kept
<1> SUFFICES ASSUME Init PROVE Kept
  OBVIOUS
<1>1. EdgeEndsMet /\ NoteTagsOfVisited /\ PlotsInTenant /\ Rooted
  BY DEF Init, ForestInit, EdgeEndsMet, NoteTagsOfVisited, PlotsInTenant, Rooted, Notes
<1>2. \A c \in Clients : Flight(c)
  BY DEF Init, Flight, Idle
<1> QED
  BY <1>1, <1>2, SoundInit DEF Kept

LEMMA KeptStep == Kept /\ [Next]_vars => Kept'
<1> SUFFICES ASSUME Kept, [Next]_vars PROVE Kept'
  OBVIOUS
<1>1. CASE Next
  <2>1. PICK c \in Clients : Work(c)
    BY <1>1 DEF Next, Work
  <2>2. Observe
    BY <1>1 DEF Next
  <2>3. Sound' /\ Rooted' /\ \A d \in Clients : Flight(d)'
    BY <2>1, <2>2, WorkSound, RootedWork, WorkKeepsFlight DEF Kept
  <2> QED
    BY <2>1, <2>2, <2>3, EdgesStep, NoteTagsStep, PlotsStep DEF Kept
<1>2. CASE UNCHANGED vars
  <2>1. Sound'
    BY SoundStep DEF Kept
  <2>2. \A d \in Clients : Flight(d)'
    BY <1>2 DEF Kept, Flight, TenantsIn, vars, rows, contents, counters, history, Notes
  <2>3. EdgeEndsMet' /\ NoteTagsOfVisited' /\ PlotsInTenant' /\ Rooted'
    BY <1>2 DEF Kept, EdgeEndsMet, NoteTagsOfVisited, PlotsInTenant, Rooted, Visited,
                vars, rows, contents, history, Notes
  <2> QED
    BY <2>1, <2>2, <2>3 DEF Kept
<1> QED
  BY <1>1, <1>2

LEMMA KeptAlways == Spec => []Kept
BY KeptInit, KeptStep, PTL DEF Spec

(* However moves interleave with createEdge's check and INSERT, and        *)
(* wherever nodes have gone since: the two ends of every edge were on its  *)
(* map at one and the same time.                                           *)
THEOREM EdgesJoinWhatMet == Spec => []EdgeEndsMet
<1>1. Kept => EdgeEndsMet
  BY DEF Kept
<1> QED
  BY <1>1, KeptAlways, PTL

(* Whatever moves come between setVisibility's checks and its statements,  *)
(* the groups that tag a note are of tenants its node has been in.         *)
THEOREM NoteTagsFollow == Spec => []NoteTagsOfVisited
<1>1. Kept => NoteTagsOfVisited
  BY DEF Kept
<1> QED
  BY <1>1, KeptAlways, PTL

(* The nodes of a plot are in its tenant, but for those that left between  *)
(* the check and the write of the addNode that made them members; the      *)
(* nodes of its notes are or have been there.                              *)
THEOREM PlotsStayInTenant == Spec => []PlotsInTenant
<1>1. Kept => PlotsInTenant
  BY DEF Kept
<1> QED
  BY <1>1, KeptAlways, PTL

-----------------------------------------------------------------------------
(* The cap.                                                                *)

NoteStep(c, m) ==
    At(c, "note") /\ creq[c].map = m /\ creq'[c] = Idle /\ notes' # notes =>
        Cardinality(NotesOn(m)') <= MAX_NOTES_PER_MAP

NoteStepAll == \A c \in Clients, m \in Maps : NoteStep(c, m)

LEMMA NoteStepNext == Sound /\ [Next]_vars => NoteStepAll
<1> SUFFICES ASSUME Sound, [Next]_vars, NEW c \in Clients, NEW m \in Maps,
                    At(c, "note"), creq[c].map = m, creq'[c] = Idle, notes' # notes
             PROVE  Cardinality(NotesOn(m)') <= MAX_NOTES_PER_MAP
  BY DEF NoteStepAll, NoteStep
<1>1. creq \in [Clients -> Requests \union {Idle}] /\ creq[c].op = "note" /\ creq[c] # creq'[c]
  BY DEF Sound, TablesOK, At, Idle
<1>2. PICK d \in Clients : Tree(d) \/ Request(d) \/ Handle(d) \/ DbError(d)
  BY DEF Next, vars, contents
<1>3. ~Tree(d)
  BY <1>1 DEF Tree, CreateNode, ReparentNode, RelocateNode, CopyNode, DeleteNode
<1>4. ~Request(d)
  <2>1. \A op, n, a, b, G : ~Begin(d, op, n, a, b, G)
    BY <1>1 DEF Begin, Idle
  <2> QED
    BY <1>1, <2>1 DEF Request, CreateEdge, DeleteEdge, CreateNote, DeleteNote, SetNoteVisibility,
                      CreatePlot, DeletePlot, AddNode, AddNote, RemoveNode, RemoveNote
<1>5. ~DbError(d)
  BY DEF DbError, contents
<1>6. d = c /\ InsertNote(c)
  BY <1>1, <1>2, <1>3, <1>4, <1>5 DEF Handle, InsertEdge, InsertNote, ClearTags, InsertTags,
     InsertPlotNode, InsertPlotNote, Answer, At
<1>7. /\ Sound' /\ \A x \in Notes : notes'[x] = notes[x]
      /\ Notes' = Notes \union {nextNote}
      /\ Cardinality(NotesOn(m)) < MAX_NOTES_PER_MAP
  BY <1>6, InsertNoteSound
<1>8. UNCHANGED rows
  BY <1>6 DEF InsertNote
<1>9. NotesOn(m)' \subseteq NotesOn(m) \union {nextNote}
  BY <1>7, <1>8 DEF NotesOn, NoteMap, rows
<1>10. IsFiniteSet(NotesOn(m))
  <2>1. Notes \subseteq 1 .. (nextNote - 1) /\ nextNote - 1 \in Int
    BY DEF Sound, TablesOK, ContentOK
  <2>2. NotesOn(m) \subseteq 1 .. (nextNote - 1)
    BY <2>1 DEF NotesOn
  <2>3. IsFiniteSet(1 .. (nextNote - 1))
    BY <2>1, FS_Interval
  <2> QED
    BY <2>2, <2>3, FS_Subset
<1>11. /\ IsFiniteSet(NotesOn(m) \union {nextNote})
       /\ Cardinality(NotesOn(m) \union {nextNote}) <= Cardinality(NotesOn(m)) + 1
       /\ Cardinality(NotesOn(m)) \in Nat
  <2> DEFINE N == NotesOn(m)
  <2>1. IsFiniteSet(N)
    BY <1>10
  <2> HIDE DEF N
  <2>2. Cardinality(N) \in Nat
    BY <2>1, FS_CardinalityType
  <2>3. /\ IsFiniteSet(N \union {nextNote})
        /\ Cardinality(N \union {nextNote}) =
             IF nextNote \in N THEN Cardinality(N) ELSE Cardinality(N) + 1
    BY <2>1, FS_AddElement
  <2>4. Cardinality(N \union {nextNote}) <= Cardinality(N) + 1
    BY <2>2, <2>3
  <2> QED
    BY <2>2, <2>3, <2>4 DEF N
<1>12. /\ Cardinality(NotesOn(m)') <= Cardinality(NotesOn(m) \union {nextNote})
       /\ Cardinality(NotesOn(m)') \in Nat
       /\ Cardinality(NotesOn(m) \union {nextNote}) \in Nat
  BY <1>9, <1>11, FS_Subset, FS_CardinalityType
<1> QED
  BY <1>7, <1>11, <1>12, ContentsAssumption

(* However many createNote requests passed their check, none of them takes *)
(* its map over the cap: the count and the INSERT are one statement.       *)
THEOREM NotesWithinCap == Spec => CreatedNotesWithinCap
<1>1. Sound /\ [Next]_vars => [NoteStepAll]_vars
  BY NoteStepNext
<1>2. Init /\ [][Next]_vars => [][NoteStepAll]_vars
  BY <1>1, SoundAlways, PTL DEF Spec
<1> QED
  BY <1>2 DEF Spec, CreatedNotesWithinCap, NoteStepAll, NoteStep

-----------------------------------------------------------------------------
(* The tags of a note.                                                     *)

TagStep ==
    \A x \in Notes \intersect Notes' :
        \/ notes'[x].tags \in {notes[x].tags, {}}
        \/ \E c \in Clients : /\ At(c, "tag") /\ creq'[c] = Idle /\ creq[c].a = x
                              /\ c \in overtaken \/ notes'[x].tags = creq[c].groups

LEMMA TagsStep == Kept /\ [Next]_vars => [TagStep]_vars
<1> SUFFICES ASSUME Kept, Next PROVE TagStep
  OBVIOUS
<1>1. PICK c \in Clients : Work(c)
  BY DEF Next, Work
<1>2. CASE ~InsertTags(c)
  BY <1>1, <1>2, StepTags DEF Kept, TagStep
<1>3. CASE InsertTags(c)
  <2>1. \A y \in Notes : \/ notes'[y].tags = notes[y].tags
                         \/ /\ y = creq[c].a
                            /\ notes'[y].tags = notes[y].tags \union creq[c].groups
    BY <1>3, InsertTagsSound DEF Kept
  <2>2. At(c, "tag") /\ creq'[c] = Idle
    BY <1>3 DEF InsertTags, Answer, Kept, Sound, TablesOK
  <2>3. c \notin overtaken /\ creq[c].a \in Notes => notes[creq[c].a].tags = {}
    BY <2>2 DEF Kept, Flight, At
  <2> QED
    BY <2>1, <2>2, <2>3 DEF TagStep
<1> QED
  BY <1>2, <1>3

(* The tags of a note are emptied, or become just the set that one request *)
(* asked for, never a mix of two, unless another request tagged the note   *)
(* between this one's DELETE and INSERT.                                   *)
THEOREM NoteTagsReplacedWhole == Spec => NoteTagsWhole
<1>1. Init /\ [][Next]_vars => [][TagStep]_vars
  BY TagsStep, KeptAlways, PTL DEF Spec
<1> QED
  BY <1>1 DEF Spec, NoteTagsWhole, TagStep

=============================================================================
