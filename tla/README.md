# annotated-maps in TLA+

Specifications, model checks and proofs of the backend of annotated-maps
(`backend/src`, C++ on Drogon, over the MySQL schema in `database/migrations`).
The subject is what several requests do to shared rows when their SQL statements
interleave: the node tree and what hangs on it, who is shown what, accounts and
logins, the members of a tenant, and the state the process itself shares between
threads, the rate limiter and the one-time values of the SSO flow.

Contents: [the system](#1-the-system) · [hard behaviours](#2-what-is-hard) ·
[modules](#3-the-modules) · [runs](#4-the-runs) · [proofs](#5-the-proofs) ·
[findings](#6-where-code-and-documents-disagree) · [not modelled](#7-what-is-not-modelled) ·
[plan](#8-plan).

Run a check with `tlc -workers 2 -config NodeTreeApart.cfg MCNodeTree`, and the
proofs of a module with `tlapm NodeTreeProofs.tla`.

## 1. The system

A request passes filters (`JwtFilter`, then `TenantFilter`, then `RateLimitFilter`
on the writing routes) and reaches a handler of a controller. A handler is a
chain of callbacks: it sends one SQL statement with `execSqlAsync` and goes on in
the callback. `backend/config.json` sets `threads_num: 4`, so between two statements of
one handler any statement of any other may run. Some handlers wrap their
writes in a transaction; their checks always run before it, outside.

| Component | State | Operations | Interacts with | Must be true of it |
|---|---|---|---|---|
| Node tree (`NodeController`) | `nodes` (id, map, parent), `node_visibility` | create, update, delete, move, copy, setVisibility; list, get, children, subtree | maps and permissions (edit access), tenants (admin role across tenants), groups; notes, plots and edges hang from nodes | a tree per map, no cycle, parent on the same map, tags of the map's own tenant, only editors change it |
| Tenant membership (`TenantController`) | `tenant_members` | addMember, removeMember, listMembers, branding | `TenantFilter` reads the role it checks | a tenant keeps an admin; who is no admin any more gives itself no role |
| Rate limiter (`RateLimitFilter`) | `sWindows`, `sCallCount` under `sMutex` | `doFilter` | every writing route | a window admits no more than the limit; idle clients are forgotten |
| JWT filter | none | signature, then one SELECT of status and platform role | sets `userId`, `platformRole` | a disabled user is refused |
| Tenant filter | none | one SELECT of the role, or superuser | sets `tenantRole` | no membership, no access |
| Visibility of nodes (read side) | none of its own | `VISIBILITY_RESOLVE_CTE` in list, get, children, subtree, and in the reads of edges and plots | reads tree, tags, override, group members | an answer names only what its reader might be shown while it was made: by the groups of the nearest override, as an admin, or as owner with x-ray |
| Visibility groups | `visibility_groups`, `visibility_group_members` | CRUD of groups and members | tags refer to groups; `manages_visibility` gives the right to tag | managers and admins only |
| Notes | `notes`, `note_visibility` | CRUD, setVisibility in three separate statements | cascade from nodes; copied with a subtree | tags replaced whole, by groups of a tenant the note is or was in |
| Edges | `node_edges` | CRUD: check of both ends, then INSERT | cascade from nodes | both ends on the edge's map, at least when it is drawn |
| Plots | `plots`, `plot_nodes`, `plot_notes` | CRUD, membership by check then INSERT IGNORE | a move across tenants deletes links | members of the plot's tenant |
| Maps and permissions | `maps`, `map_permissions` | CRUD, permission grants with a public row | gate of everything else | only owner or map admin grants |
| Registration and login | `organizations`, `tenants`, `users`, ... | one transaction of seven statements; login | creates a tenant with its first admin | all or nothing, one answer |
| SSO | `pendingStates_`, `pendingAppCodes_` (mutexes), `users` | initiate, callback, exchange | identity provider over HTTP | a state or code is used once, one account per external user |
| Media attachments | `node_media`, `note_media` | CRUD of URL rows | nodes, notes | owner access |
| Audit log | `audit_log` | INSERT, never awaited | every handler | nothing depends on it |
| Frontend | React state | views over the API | never calls move or copy | — |
| Start-up | configuration | — | — | — |

## 2. What is hard

Each of these is in the `hazards` of `PROJECT.json` with its line.

* **Check, then act, in separate statements.** Edit access, "the parent is on the
  destination map", "not into its own subtree", "another admin exists", "the
  groups are of this tenant": all are read in one statement and relied on in a
  later one. No statement repeats a check, no row is locked (`FOR UPDATE` does not
  occur in the code), so whatever is checked can be stale.
* **Values carried along.** A move updates the ids it read, a copy builds new rows
  from the rows it read, an addMember acts on the role the filter read.
* **Cascades.** A DELETE takes whatever is below the node at that moment, on any
  map, and MySQL limits how deep a cascade nests; that limit is why
  `MAX_NODE_DEPTH` is 15.
* **Failure of any statement**, inside or outside a transaction.
* **Reads of several statements.** `getNode`, `getSubtree` (a page at a time),
  `listEdgesForNode` and the member lists of a plot ask for the map in one statement and
  for the rows in another, while permissions, groups and tags change between.
* **One long transaction.** Registration writes seven tables, statement by statement; another
  registration or an SSO login that wants the same username or address waits for it, and
  each of its callbacks, and the commit's, may answer.
* **One-time values in memory.** A login is three requests and two visits to a provider,
  joined by a state and a code that expire, may be repeated, and may race the purge.
* **Rows that a move must remember.** Tags, plot rows, notes' tags and edges each depend on
  the map or tenant of a node; a move that changes it must change or clear each of them.
* **The clock is read before the mutex** in the rate limiter, so stamps enter a
  deque out of order.

## 3. The modules

| Module | What it is | Uses |
|---|---|---|
| `Forest` | abstract specification: a forest on each map that changes by graft, attach, relocate and drop, each at one instant | |
| `NodeTree` | the node tree and its five writing handlers, statement by statement | `Forest` (refinement) |
| `Contents` | notes, edges, plots and their handlers, over the changes of the tree | `Forest` (extended) |
| `Access` | maps, permissions, groups and tags, and all reads of nodes, edges and plots | `Forest` (extended) |
| `Accounts` | registration, login, the SSO flow | |
| `TenantMembers` | the members of one tenant | |
| `RateLimit` | the sliding window | |
| `NodeTreeProofs` | theorems on `NodeTree`: types, orphans, tags, the shape of the tree | `NodeTree` |
| `NodeTreeSteps` | theorems on what a step of `NodeTree` may do: the refinement, the access rules, the depth cap | `NodeTreeProofs`, `Recursion` |
| `Recursion` | functions by recursion on numbers, for proofs about the walks of the recursive CTEs | |
| `ContentsProofs`, `AccessProofs`, `AccountsProofs`, `TenantMembersProofs`, `RateLimitProofs` | theorems on the module each is named after | |
| `MCNodeTree`, `MCContents`, `MCAccess`, `MCAccounts`, `MCTenantMembers`, `MCRateLimit` | the small instances TLC checks | |

The tree is the centre: `NodeTree` shows that its handlers, although they check in one
statement and write in another, change the tree as `Forest` says, under a condition that
section 4 states. `Contents` and `Access` then take `Forest`'s instants as the changes of the
tree, and spend their own steps on the statements of their own handlers.

In all modules one SQL statement or one transaction is one action, a request that is
refused before it changed anything is not represented, and a constant stands for rows the
module does not change.

### NodeTree

*State.* `live` is the set of ids in `nodes`; `parent`, `mapOf` and `tags` are the
columns `parent_id`, `map_id` and the rows of `node_visibility`, as functions on
`live`; `nextId` is the AUTO_INCREMENT. `req[c]` is what client `c`'s request
carries from one callback to the next: the captures of the lambdas.

*Actions.* One statement or one transaction is one action.

| Handler | Actions, in order |
|---|---|
| `createNode` | `CreateNode` (edit access) → `CreateParent` (depth CTE, skipped without a parent) → `CreateCount` → `CreateInsert` |
| `moveNode` | `MoveNode` (body, source, destination, admin roles) → `MoveParent` → `MoveSubtree` (descendants, cycle check) → `MoveApply` on one map, `MoveCommit` across maps |
| `copyNode` | `CopyNode` → `CopyParent` → `CopySubtree` → `CopyCount` → `CopyCommit` |
| `deleteNode` | `DeleteNode`: a single statement that checks, deletes and cascades |
| `setVisibility` | `SetVisibility` (manager, node, groups) → `VisibilityCommit` |
| any | `DbError`: the statement fails, the transaction rolls back, the handler answers 500 |

*Why a transaction may be one action.* The transactions of these handlers read nothing of
these tables (copy reads notes): every decision was taken before they begin. Their first statement on
a row takes InnoDB's exclusive lock on it, and a foreign-key check locks the
parent it finds, until commit; a statement of another request on these rows
comes before or after the transaction. A deadlock between two of them is a failed
statement, `DbError`.

*What is folded into the first action.* Rows of `maps`, `users`, `tenant_members`,
`map_permissions` and `visibility_groups` are constants here, so a statement that
reads only those commutes with everything and needs no step of its own
(`MayPlace`: the destination map and the admin row). Deleting a map, or revoking
access in the middle of a request, is therefore outside this module.

*Data left out.* Names, GeoJSON, colours, descriptions, `visibility_override`: no
guard of these handlers reads them. `updateNode` writes nothing else, so it
stutters. Notes, edges and plot rows that a copy, move or delete takes along are the
subject of `Contents`.

*What runs beside a move.* `BesideMove` is the set of kinds of requests (`Kinds`: create, move, copy,
setvis, delete) that may be in flight together with a move on one map, `BesideRelocation` the same for a move
to another map; `MayStart` applies them to both parties, whichever was first. `RelocateAlone` permits a body
with `newMapId` (of another map) and no `newParentId`. The code imposes nothing: both sets are `Kinds` and
`RelocateAlone` is TRUE there, and so it breaks (section 6). The other values of the constants say how much
has to be kept apart for the tree to be safe, and section 5 that it is no more than needed.

### Contents

*State.* `notes` (node, author, tags), `edges` (map, source, destination), `plots` (tenant),
`plotNodes`, `plotNotes`, with the AUTO_INCREMENT of each; `creq[c]` is the write that
client `c`'s request has still to do. The variables of `Forest` are the nodes.

| Code | Actions |
|---|---|
| `createEdge` (both ends on the map, then INSERT) | `CreateEdge` → `InsertEdge` |
| `createNote` (view access, first check; INSERT ... SELECT with the cap) | `CreateNote` → `InsertNote` |
| `setVisibility` of a note (groups checked; DELETE; INSERT) | `SetNoteVisibility` → `ClearTags` → `InsertTags` |
| `addNode`, `addNote` of a plot (look up in the tenant, then INSERT IGNORE) | `AddNode` → `InsertPlotNode`, `AddNote` → `InsertPlotNote` |
| `deleteEdge`, `deleteNote`, `createPlot`, `deletePlot`, `removeNode`, `removeNote` | one action each |
| what the node handlers do to all of these | `CreateNode`, `ReparentNode`, `RelocateNode` (clears plot rows across tenants), `CopyNode` (copies notes), `DeleteNode` (cascades) |

Everything interleaves with everything; nothing is kept apart. `RelocateNode` does what `moveNode`'s transaction
does and no more: edges, `note_visibility` and `plot_notes` stay as they are, and a move or a second tagging
request may come between the check and the write of another request. So the invariants one would like (an edge is on
one map, a note's groups are of its tenant) are not invariants of the code, and section 6 has the findings. The
properties say what the checks are still worth: `EdgeEndsMet`, `NoteTagsOfVisited`, `PlotsInTenant`,
`NoteTagsWhole`.

*History.* Three variables that no action reads remember what these speak of: `met`, which pairs of nodes have been
on one map together, and so which tenants a node has been in (`Visited`); `overtaken`, the
requests in flight whose node has left the tenant, or whose note has been tagged, since they last looked; `strays`,
the rows of `plot_nodes` that such a request wrote.

### Access

*State.* `owner`, `xray`, `grant` (`maps`, `map_permissions`), `manages`, `members` (the
groups), `override`, `tags` (`nodes.visibility_override`, `node_visibility`). `req[c]` is what a
reader has got so far; `saw[c]` is a history of what it might have been shown since it asked,
which no action reads.

*Definitions of the code.* `MayView` and `MayEdit` are `MAP_VIEW_PREDICATE` and
`MAP_EDIT_PREDICATE`; `Resolve` is `VISIBILITY_RESOLVE_CTE`, the walk upwards to the nearest
override with its depth cap; `VisibleStarts`, `Unhidden` and `Shown` are how the handlers use it;
`SubtreeRows` is the downward CTE of `getSubtree`. Both walks are recursive functions. `Shallow` says of a
map that neither walk is cut off by its cap; what paging owes its reader is claimed while it holds, since moves
may make a tree deeper than the walks go.

*Definitions of the properties.* `Inherits` and `Sees` say the same of a reading at one
instant by tags handed down from an override to the children without one, which is not how the code
computes it. That the two agree is a theorem.

*Actions.* The writes are one action each: create, update, delete of a map, of a group, set
and remove of a permission (with the trigger that refuses a second public row), members, tags, a move on the map
(`MoveNode`) and one to another map or tenant (`RelocateNode`). The reads run by statement: `ListNodes`, `ListChildren`, `ListMaps`, `GetMap` and
`ListEdges` in one; `GetNode` → `ShowParent`; `GetSubtree` → `NextPage`, page by page, each
page a request of its own; `ListEdgesForNode` → `NodeChecked` → `ShowEdges`; the nodes of a plot
and the plots of a node.

*Moves away.* `RelocateNode` changes `map_id` of the rows of the `descendants` CTE (`Branch`), clears their tags, and
leaves their edges where they are. Without a `newParentId` the node keeps its parent, on whichever map that is, so trees
across maps and even cycles occur here; what the properties say holds of them too. A node sent to another tenant is
`Elsewhere`: out of reach for every statement of this tenant but those that find it by an edge left behind, or as the
kept parent of a row. `EdgesOn` lists the edges of a map by `map_id` alone, as the statements do, and `ShownEdges` is who
gets which.

### Accounts

*State.* `db` is what is committed, `trx[c]` the rows an open registration has written, `creq[c]` the
request and where it is, `sent[c]` the answers it was given (a sequence, so that a second one would
show), `pendingStates` and `pendingAppCodes` the two maps of `SsoController`. `authenticated` is
the provider's side: who signed in with which nonce. `redeemed` is a history of flows that
ended in a token.

*Registration.* `Register`, then `Statement` once per INSERT. A row that collides with a
committed one is an error (`Fail`: answer, then roll back); one that collides with a row of an
open transaction waits, as InnoDB does. `Commit` happens when the last reference to the
transaction goes, and may fail; `Rollback` also calls the commit callback, with `false`.
`Respond` is `respondOnce`.

*SSO.* `Initiate`, `SignIn` (the browser, at the provider), `Callback` (takes the state),
`ProviderAnswers` or `ProviderRefused`, `Lookup` → `Enroll` or `Rename` → `IssueCode`,
`Exchange`. `Expire` makes a value late at any time; the purges are inside the actions that
call them. The provider reports any name and address in `Profiles`, another one each time.

### TenantMembers

*State.* `role[u]`, the user's row or "none". `req[s]`: the target and role of a
request past its first check. `AddMember` and `RemoveMember` are `TenantFilter`'s read
of the caller's role with the handler's check of it; `CountAdmins` is the guard
against the last admin demoting itself; `UpsertRow` and `DeleteRow` write.
`LoweringAlone` keeps apart two requests when both lower someone, or one lowers
the caller of the other; everything else interleaves. The code imposes no such order: two runs
(`two_admins_race`, `demoted_admin_returns`) show what happens without it. Superusers are a constant:
a superuser may remove the last admin, and may add one again, so runs and
theorems about `HasAdmin` take a tenant without one.

### RateLimit

*State.* `windows` is `sWindows`, `calls` is `sCallCount` modulo the sweep interval,
`held[t]` is the key and `now` a thread has before it gets the mutex, `clock` is
`steady_clock` in seconds. `accepted` is, per key, the stamps of what was let
through, in the order it was: it is a history variable no action reads. `Stamp` is the code before
`lock_guard`, `Refuse` and `Admit` the two ways through the critical section.

## 4. The runs

| Run | Instance | Shows |
|---|---|---|
| `tree_moves_apart` | two clients, 3 nodes; copies, tagging and deletes beside a move on one map, deletes beside a move to another, creates beside no move | statements interleaving, `NodeTree` still implements `Forest`; shape, tags, both access rules, and the depth cap on creates hold: the hypotheses of the proofs |
| `tree_races` | two clients, 2 nodes and 2 more ids for what is added, everything interleaves, moves with no parent too, under fairness | what survives all races: no orphan, a copy arrives as one tree although its source changed after it was read, tags replaced whole, every request answered |
| `contents` | two clients, 2 nodes, 2 notes, an edge, a plot, 2 tenants, everything interleaves | no dangling row; edges between nodes that met on their map; note tags of tenants the note was in; plots of their tenant but for overtaken requests; tags replaced whole likewise; the note cap at its limit |
| `access` | owner, reader, admin; 2 nodes, an edge, 2 maps, another tenant, a group | answers name only what was seen, but for ends of edges left behind, told to admins and x-raying owners; no hidden parent is named, paging loses nothing, taking rights away hides |
| `accounts` | two clients, one name and address registered, one subject, 2 accounts, 2 states, 2 codes, under fairness | all or nothing, one true answer, one account per subject, one token per flow and for its owner, every request answered |
| `members_kept_apart` | 3 users, 3 requests | an admin remains |
| `rate_window` | 3 threads, 2 clients, limit 3, window 1, clock 0 to 2 | admission and refusal bounds, no empty deque |
| `two_moves_close_a_cycle` | two clients, 2 nodes | **violation**: two moves close a cycle |
| `move_ignores_depth` | one client, 3 nodes | **violation**: a move passes the depth cap |
| `two_admins_race` | as `members_kept_apart`, unrestricted | **violation**: a tenant without admin |
| `demoted_admin_returns` | the same | **violation**: a removed admin is back by its own request |
| `edges_left_behind` | as `contents`, with one note and no move during another request (`MCSerial`) | **violation**: an edge across maps after one move |

*Bounds of the tree.* A cycle needs two nodes, a stale parent or a
subtree that changes under its reader three (root, child, and the node moved or
created), a copy of a parent and child four ids. Two clients give every race of
two handlers, and every hazard found is one of two. `MAX_NODE_DEPTH` 2 and
`MAX_NODES_PER_MAP` 2 or 3 make both caps bite with so few nodes; `MAX_CASCADE` 2 lets
a DELETE reach a grandchild and refuse more. `MaxNodeId` bounds the ids: an INSERT
beyond it fails, as at the end of AUTO_INCREMENT. The two clients differ on purpose:
`ann` is a superuser with an admin row in `t2` only, `bob` a plain member of both,
who manages visibility in `t1`; so each access rule is met by one and missed by the other.
The group of `t2` is left out (`Groups = {g1}`) to save states: a `g1` tag that reaches
a map of `t2` is what `TagsInTenant` would see. `tree_moves_apart` has 304 thousand states, by a constraint
(`MCApart`) of three parts: one node is tagged at a time, a tag being a matter of its node and the node's map;
only `ann` copies, so that of two copies, which merely add rows, one is enough; and a copy that the
ids left cannot hold is not followed to its rollback, which `tree_races` does. `tree_races` works on two rows
(`MCTwoRows`): what a step adds to them is checked when it arrives, and not followed further. Two rows are a root and
a child, so a copy adds two, and each of the two may move, be tagged, deleted or get a sibling
between the copy's read and its INSERTs.

*Bounds of the contents.* One map in each of two tenants; a cap of one note, so that two creates
race for it; two notes, so that a copy adds one; three groups, two of them interchangeable
(symmetry) and one of the other tenant. Edges and plots never meet in a statement, so a behaviour
has edges, or notes with their tags, or plots with one untagged note (`MCOneKind`). `ann` is admin of both tenants and
edits both maps, so she moves nodes either way while `bob`'s request is between its check and its write.

*Bounds of access.* The two nodes are a parent and a child; they cannot exceed a depth cap of 1, a page of one row makes every
subtree two pages, `MAX_MAPS` 2 makes the cap bite at the second map. One reader runs at a time (`MaxReaders`):
readers write nothing. `MCFew` allows one permission at a time, for the first map and for the reader, the public or
the admin, and no memberships of the admin, from whom nothing is hidden; the founder draws the second map, and only the
second node, the child and the edge's end, leaves for another tenant. `MCQuiet` fixes, while a read
is under way, what its statements do not look at (`manages_visibility`, and the x-ray of an owner who is not
the reader), and lets an admin read in several statements only for edges. `MCTwoMaps` keeps, while there are two maps,
the reader's permission and group, no x-ray, and the founder out of reads of several statements. With that, a page is read while
a node is on the second map and after it is back; an edge is read with an end in another tenant, by the admin, by an
x-raying owner and by the reader, to whom it is not shown; and moves that keep a parent close a cycle. 224 thousand
states.

*Bounds of the accounts.* Everything that can collide does: the provider reports, in different
answers, the registered username, the registered address, or no address. Two clients, so two
registrations, two first logins of one subject, or one of each; two states and codes, so one flow
can be late or repeated while another runs.

*Bounds of members and limiter.* Three requests, two of one user, suffice for an admin's
request to overlap its own demotion and a third party. Three threads
show that the bound is "one per other thread" and not "one": with one less it is broken, by
admission and by refusal. The limit is above the number of other threads, so that neither
bound is empty, and the clock leaves the first window. Longer clocks (3 with this window,
4 with a window of 2) were tried and show nothing new.

*Fairness.* `tree_races` and `accounts` assume `WF_vars(Handle(c))` for each client: the database
client calls back for each statement it was given. Nothing is assumed of
clients sending requests, of errors, or of the identity provider (`sendRequest` is called without a
timeout), so `EveryRequestAnswered` of `Accounts` lets a request wait at the provider.
In `NodeTree`, `Handle(c)` is enabled in every state with a
request in flight, so liveness also says no continuation lacks a branch. In `Accounts`, `Handle`
includes `DbError`, which covers the end of a wait for a lock (`innodb_lock_wait_timeout`): a statement
that waits is answered sooner or later, and no order of locks leaves two waiting for ever.
One assumption about Drogon is inside the actions of `NodeTree`: on a failed transaction the
handlers call `rollback()` and send nothing, relying on the commit callback being
called with `false`, as the comment at `NodeController.cpp:872` says it is. Drogon is not
part of the repository, and `registerUser` does not rely on it
(`AuthController.cpp:112-118`).

`CHECK_DEADLOCK` is on everywhere.

*What the properties would catch.* Each property of a passing run has a mutant of the
code's definition (in the module, next to the original) that breaks it: a
dropped cycle check, a parent looked up by id alone, tags that travel with a node,
an off-by-one in the admin count, a cutoff compared with `<=`, a page that begins one row late, a
group deleted without its tags, an edge shown for one end, parents read a second time, a nonce that is not compared, a callback
that answers twice, a code erased only when it is purged.

## 5. The proofs

All are checked by TLAPS, for any number of clients, tenants, maps, groups, users,
threads, subjects and ids, and any caps. The assumptions are the `ASSUME`s of the modules: caps are
naturals, the constant tables are functions of the right type, no subject of a provider is the
null value. Every theorem listed in `PROJECT.json` names a property some run checks.

**`NodeTreeProofs`.** `TypeCorrect` and `NeverOrphans` hold with every interleaving: the
foreign key is what protects, and the proof shows the one place it does not reach,
`IdMaps`, where a copied row gets the copy of its parent: that works because
`CopySubtree` read a set closed under parents up to its root. The same fact, with "the
rows read include the node asked for" (`RowsInv`), gives `CopiesAreTrees`: every step adds one tree,
however stale its source. `TagsAreReplacedWhole` follows the six actions that write.
Proving it showed what the small instance cannot: a second move of the same node empties tags
given to it after the first, so the property lets any move across maps empty them.

`AlwaysAcyclic`, `ParentsShareTheMap` and `TagsStayInTenant` hold under `SafeMode`: no second move beside a
move (`"move" \notin BesideMove`), nothing but deletes beside a move to another map
(`BesideRelocation \subseteq {"delete"}`), and `~RelocateAlone`. None is inductive by itself. `SafeInv` adds:

* `Apart`: beside a move in flight there is no other move, and nothing that began (deletes are over at once) if
  it goes to another map;
* `Ready(r)`: what a request in flight may still rely on. A create or copy past its
  check has a parent that is on the destination map *or gone*; a copy's `links` form a
  rooted forest on the ids it read, whatever has become of those rows; a
  setVisibility has groups of the node's tenant, if the node still exists; a move about to write has its new
  parent outside its *current* subtree, and, if it goes to another map, the ids it read are the current subtree
  but for rows that are gone.

`Ready` is what can go stale, so the proof has one step per action that changes rows, each showing that the other
clients' `Ready` survives. For a move in flight that is a matter of what an insert and a
delete do to a subtree (`DescendantsAfterInsert`, `DescendantsAfterDelete`): new rows hang below old ones, so
no old row enters a subtree it was not in, and a delete takes whole subtrees with it. A move on
one map writes only one row, so new rows below it do no harm; a move to another map writes the ids it read, and a row
copied or created below them meanwhile would stay behind. A move changes parents and maps, and what it may
disturb is excluded by `Apart`, but for creates, copies and tagging beside a move that stays on its map, which
rely on no more than maps of rows (`OthersKeptByMove`). A move whose node was deleted finds no row
(`GoneMovesNothing`).

*The hypotheses are needed.* With any one kind more TLC finds a counterexample on the instance of
`tree_moves_apart`: a move beside a move breaks `Acyclic` (`two_moves_close_a_cycle`); beside a move to
another map, a create or a copy breaks `ParentOnSameMap`, a setVisibility `TagsInTenant`, another move
`ParentOnSameMap`; with `RelocateAlone`, `ParentOnSameMap` fails after one request. A create beside a
move on one map harms no shape, only the depth cap. Acyclicity is stated on sets (no
nonempty set in which every node has its parent), which makes the step of a move a
matter of two sets, the subtree and the rest, with no induction on paths.

**`NodeTreeSteps`: the refinement.** `ImplementsTheForest`: under `SafeMode` every step of `NodeTree` is one step of
`Forest` or a stutter. `CreateGrafts` and `CopyGrafts` use that what was read is on the destination map *or
gone*, and that the foreign key excludes "gone"; the move uses `SubtreeOnOneMap`: where parents
share the map, the subtree that a move collected map by map is the one a cascade would reach. The
refinement mapping takes the four variables of `Forest` to those of the same name.

**`NodeTreeSteps`: the access rules.** `EditorsAlone` and `BothAdminsMove`. The strengthening
`AccessInv` says of a request what its first statement established, so the proof is
that each continuation carries it along; the writes then change only maps it names.

**`NodeTreeSteps`: the depth cap.** `CreatesStayWithinCap`, under `CapMode`: no create beside a move, of either
kind; nothing else is asked, neither of moves beside moves nor of their bodies. The chain above the parent is
measured in one statement and the row is inserted two statements later. `CapInv` adds `CreatesApart` and
`DepthReady`: the climb from the parent of a create past its check ends within the cap, *if the parent is
still there*. Climbs are recursive functions; `Recursion` gives their unfolding (`UpUnfolds`), and three lemmas do the
rest: a climb that has ended stays ended (`UpEnds`), the climb from a child is its parent's one step later
(`UpOfParent`), and the climb from a row that stays is the same while rows keep their parents, whatever comes
and goes elsewhere (`UpIsKept`), for a delete that took a row above would have taken this one.

**`ContentsProofs`.** All of it holds with every interleaving, moves included. `Sound`, the types with `NoDangling`, is
inductive. `Kept` adds what each request in flight still knows of what it checked (`Flight`): the ends of an edge met on its map;
the groups of a tagging request are of a tenant the note's node has been in; the node of an `addNode` is in the
plot's tenant, *or gone, or the request has been overtaken*. Ids are never reused, so "gone" stays gone, and `met` only
grows (`MetGrows`), which is why nothing has to be kept apart. From `Kept` follow `EdgesJoinWhatMet`,
`NoteTagsFollow` and `PlotsStayInTenant`; the last needs that only a relocation changes a node's tenant, and that
it takes the subtree's plot rows with it, with the whole subtree on one map (`SubtreeOnOneMap`, `PlotNodesKeepTenant`).
`NotesWithinCap` is about one INSERT ... SELECT, which counts and inserts in one statement, and holds of any number of
them. `NoteTagsReplacedWhole` follows a tagging request from its DELETE to its INSERT.

**`AccessProofs`.** The main theorem, `OnlySeenIsTold`, has two parts. First, whatever node
the code's walk upwards shows, tags handed down from an override reach as well (`ResolveInherits`,
`SubtreeIsSeen`). Both walks are functions defined by recursion on the step number; the provers cannot
use the library's induction, so `Smallest` of `Recursion` (a set of numbers has a least one) takes its place.
Second, `Honest`: a request holds only what its reader could see since it asked. Every statement
keeps it, for what it adds is shown at its own instant, and every other step does, for what was
seen only grows. Nothing is assumed of the shape of the tree: rows may hang across maps and in cycles. Edges are where the
statement has an exception, and the proof shows it is the only one: an end on the edge's map is a node its reader
bypasses or sees, and an end elsewhere comes only in an answer to one who bypasses (`HonestShowEdges`). `TypeCorrect` is referential integrity under all the deletes and cascades.
`TakingAwayOnlyHides` compares two instants and rests on the monotonicity of every predicate.
`PagingMissesNothing` is the converse of the first part: where the walks are not cut off (`Shallow`), a node that
inherits visibility is unhidden by the code's walk (`SeenIsUnhidden`), and one that is reached over such nodes is among
the rows of the downward CTE (`ReachesAreRows`). The invariant `Paged` says of a reader between two pages that what
was reachable all the time is reachable now, and shown already if its id is not above the cursor. A page keeps it because it is the
first rows above the cursor, without a gap (`PageIsPrefix`), and every other step because what was reachable
all the time only shrinks.

**`AccountsProofs`.** Three layers. `TInv`: types, and which answer a request has at which
point (`OneAnswer`). `FInv`: an open transaction holds exactly the rows of the
statements behind it (`TrxOK`); accounts, committed or not, differ in every unique key (`UsersOK`), since a
statement waits for a row it would collide with; and the id a registration drew is nobody
else's until its commit (`Mine`). From it follow `RegistrationIsAtomic`, `AnswersTell` and
`SubjectsHaveOneAccount`; the last needs the uncommitted rows too, although it speaks of
committed ones. `SInv`: a flow is in one place, and whatever has been called back works for the subject of its
nonce. The four steps that move a flow on replace one claim by another, and all others claim
nothing new (`ClaimsFewer`), which gives `FlowsEndOnce`; with the account kept from step to step it
gives `TokensAreOwned`.

**`TenantMembersProofs`.** `TypeCorrect`; `AlwaysHasAdmin` under
`LoweringAlone /\ Superusers = {}`. The strengthening: requests in flight do not
conflict, and the caller of each is an admin now, because only a request
that conflicts could have lowered it. A delete leaves its caller; a
self-demotion past its count leaves the second admin it counted. That nobody who was demoted comes back by its own
request is no theorem: it is false of the code, and under `LoweringAlone` it would say nothing.

**`RateLimitProofs`.** `TypeCorrect` (no deque exceeds `MaxRequests`, whatever order
stamps arrive in) and `NothingToSweep` (no deque in the map is ever empty between
requests), for any number of threads. `AdmissionBound` and `RefusalBound` are about numbers of stamps in a window.
The invariant `CountInv` makes them a matter of positions in a sequence instead of sums: a deque is a suffix of
the key's history of admissions (`DequeIsSuffix`). `Budget` says of each window that either nothing of it has left
the deque, which is no longer than the limit, or the window is over by the clock, and then what was let through in it
and the threads that still hold a stamp of it are together within the bound. `Latecomers` says that whoever is let through
after a request with an older stamp held it already when that request was, which is at most one per *other* thread.

**Model-checked only.** `EveryRequestAnswered` of both modules: liveness is out of the prover's
reach. Every other property of a passing run is a theorem.

## 6. Where code and documents disagree

The first five have a run that exhibits them. The others were met while modelling; `findings` of
`PROJECT.json` quotes both sides of each.

1. Two concurrent moves close a cycle: "cycles rejected on move" holds of one at a time
   (`two_moves_close_a_cycle`).
2. `SECURITY-AUDIT.md` and `REQUIREMENTS.md` say the depth cap is enforced on move (and copy);
   only create checks it (`move_ignores_depth`).
3. Two admins at once leave a tenant without one, which the guard is there to prevent (`two_admins_race`).
4. An admin who is removed while a request of its own is in flight can be put back by that request
   (`demoted_admin_returns`); "only admin-role members may manage tenant membership".
5. A move to another map leaves the edges of the subtree behind; "cross-map edges are out of
   scope", yet one request makes them (`edges_left_behind`).
6. To admins and x-raying owners such an edge names a node of another map or tenant: their statements do not look at
   the ends. `AnswersWereSeen` shows that nobody else learns of it.
7. A move with `newMapId` and no `newParentId` leaves a non-root node under its old
   parent, on another map. The schema says a parent is on the same map "(enforced at the
   application layer"; the handler's comment promises "relocate to a new map (new
   top-level)". Deleting the old parent then deletes rows of another map, and as the cycle check does not leave the
   map either, moves one after the other can close a cycle.
8. A move across tenants clears `plot_nodes` and node tags, and leaves `plot_notes` and note tags of the old tenant.
9. An `addNode` of a plot, or a `setVisibility` of a node, that is overtaken by a move to another tenant writes
   its row all the same: a plot, or a group's tag, across tenants.
10. `setVisibility` of a note is three statements outside a transaction, as
    `SECURITY-AUDIT-NODES-REBUILD.md` already said of it; the nodes' handler has been given one.
11. The rate limiter's sweep removes "IPs with empty deques"; there never is one, so
   `sWindows` keeps every client it has seen (`NoEmptyDeque`).
12. `max_requests` is exceeded by up to one per other thread in a window.
13. An SSO login whose provider reports another address is refused, where `REQUIREMENTS.md` says the
    address is kept in sync.
14. `getSubtree`'s `nextCursor` is the last row shown, not the extra row its comment names; the comment's
    version would lose a row per page.
15. A node with an override and no tags is hidden from all but admins and an x-raying owner; a comment in
    `setVisibility` says "visible to everyone".
16. `getMap` refuses maps whose public level is `moderate` or `admin`, which `listMaps` lists and every other
    handler opens.
17. The upsert of a public permission is unreachable: a trigger refuses the INSERT first.
18. `listNodes?parentId=N` leaves out `parentId` in every row, visible parent or not.

## 7. What is not modelled

* **Of modelled components**: the reads of notes, `getVisibility`, and lists that read rows back; updates of
  text, colour, pin, names and geometry (`updateNode`, `updateNote`, `updateEdge`, `updatePlot`), which no guard reads;
  branding; requests that are refused before they change anything.
* **Kept parents in `Contents`.** Its moves are those of `Forest`, which name their parent or go to the top; a move without
  a `newParentId` is in `NodeTree` (`RelocateAlone`) and in `Access`. Likewise the races of two moves, which `Forest` does
  not have, are in `NodeTree` alone.
* **JWT filter, media attachments, audit log, frontend, start-up**: no state others depend on; reasons are in
  `components` of `PROJECT.json`.
* **Permission revoked while a write is in flight.** `NodeTree` and `Contents` take permissions as constants;
  `Access` changes them, against reads. A write that was permitted when it was checked and no longer when it happens is
  outside all three.
* **Memory.** `copyNode`'s closures that capture themselves
  (`NodeController.cpp:2026`, released on success only) are a matter of memory and connections, not of rows.
* **The per-map cap of nodes** is modelled with its race but no property claims it: concurrent requests may pass
  it, and moves are not counted.
* **Time.** Expiry is a step that may happen at any moment; the clock of the limiter is in seconds.

## 8. Plan

1. *Done*: `NodeTree`, `TenantMembers`, `RateLimit` with their runs and theorems.
2. *Done*: `Forest` and the refinement; the access rules of `NodeTree`.
3. *Done*: `Contents` over `Forest`.
4. *Done*: `Accounts`, registration and SSO in one module, since they meet in `users`.
5. *Done*: `Access`: visibility, groups, maps and permissions.
6. *Done*: proofs of the bounds of the limiter, of paging, of the depth cap; moves beside other requests.
7. *Done*: `Contents` without any order imposed on its requests; moves to other maps and tenants in `Access`.
8. Next: permissions that change while `NodeTree`'s and `Contents`'s writes are in flight; the reads of
   notes; kept parents in `Contents`; `TenantMembers` with superusers.
