# DiVoid in TLA+

DiVoid keeps a graph of typed nodes for people and agents: a .NET backend over
PostgreSQL, an MCP server that offers it to agents as tools, and a React
frontend. This directory holds the specifications of its parts, the TLC
configurations that check them on small instances, and the theorems about them
that TLAPS has checked.

    tlc -workers 2 -config MCNodeGraph_tables.cfg MCNodeGraph
    tlapm NodeGraph_proofs.tla

`PROJECT.json` lists the runs, what each definition translates (`map`), a
mutation of the code for each property (`mutants`), the hazards the properties
are for, and the theorems.

## 1. Inventory

The state of the server lives in the tables of one PostgreSQL database (SQLite in
tests). Every backend process, the command line verbs and the MCP server behind
HTTP work on it at the same time; there is no other shared state. The frontend
keeps a state of its own in every browser tab: the session, a cache of what it
asked the API, and the state of the page that is open.

| Component | State | Operations | Hard part | Modelled |
|---|---|---|---|---|
| Node graph (`NodeService`, `NodeAuthorization`, controllers) | tables `node`, `nodelink`, `nodehook`, `nodetype`; inserts into `message` | create, delete, link, unlink, patch, patch link, upload and edit content, register and delete hook, place | who may do what to whose node; who is told of what; tables without keys or foreign keys | `NodeGraph` |
| Mutation transactions (`MutationTransaction`, `LockNodes`) | row locks, snapshots | lock, write, commit, abort | interleaving, deadlock, phantom rows | `NodeTransactions` |
| Embeddings (`EmbeddingModelGuard`, `EmbeddingBackfillService`, `EmbeddingWrite`) | `node.embedding`, `metadata` row `embedding.model` | start, embed within a mutation, backfill, switch the model | vectors of two models in one database, a backfill that writes what it read earlier | `Embeddings` |
| Embedding model files | files of a directory shared by processes | verify, download, move into place | crash in the middle, two downloads at once | no: section 8 |
| Embedding input (`EmbeddingInputComposer`) | none | compose, windows | integer boundaries | no: section 8 |
| Embedding inference, tokenizer, vector text | loaded model | embed | numeric | no: arithmetic on floats, no state |
| Content editing (`ContentEditor`) | none | apply edits to one snapshot | offsets, overlaps, code points | no: section 8 |
| Queries (`GenerateFilter`, `ComposeHops`, `PathQueryParser`, paging) | none | list, list by path, search | visibility on every hop | no: section 8 |
| Messages (`MessageService`) | table `message` | create, get, list, delete | recipient checked before the insert | no: section 8 |
| Users (`UserService`) | table `divoid_user` | create, update, delete | other tables keep ids of deleted users | partly in `NodeGraph` |
| API keys and authentication | table `apikey`, claims of a request | create, look up, update, delete; claims | when a withdrawal takes effect | no: section 8 |
| Layout command | none | read unplaced nodes, compute, write | nodes placed meanwhile | its write is in `NodeGraph` |
| Command line, start-up | schema | create-admin, backfill, layout; schema, pgvector | failure between two inserts | no: section 8 |
| HTTP formatting, binding, error handlers | none | | | no: no state |
| MCP composite tools | none | create node + content + links + substance | a request in the middle fails | no: section 8 |
| MCP content edits, messages | none | append, send | length read before the edit | no: section 8 |
| Frontend session (`createApiClient`, `useApiClient`, `AuthProvider`, `ProtectedRoute`, `Callback`) | per hook: refresh in flight, dead, redirect fired; the user of the OIDC library | call, refresh, retry, give up, sign in and out | many calls denied at once, a rendered token older than the refresh, a session that dies | `ApiClient` |
| Frontend queries and mutations (`useNode...`, `mutations.ts`) | the query cache | fetch, invalidate; create, patch, delete, link, unlink, upload | answers read before a mutation that arrive after it; what a mutation must invalidate | `NodeQueries` |
| Node page, wiki page, peek panel (`NodeDetailView`, `WikiLayout`, dialogs, `MarkdownEditorSurface`) | modes, dialogs, forms, draft | open, edit, save, upload, link, unlink, delete, add a child | forms filled from a cache that changes, callbacks of a page that shows another node by now | `NodeViews` |
| Workspace canvas (`WorkspaceCanvas`, `reconcile.ts`, `useMoveNode`) | cards, edges, what is under the mouse | pan, drag, connect, delete, undo, create, drop a file | optimistic state against refetches, several requests for one gesture | `WorkspaceCanvas` |
| Workspace filters (`useWorkspaceFilters`) | selections, sessionStorage | toggle, discover types, reload | stored selections older than the catalog | `WorkspaceFilters` |
| Task list and board (`TaskListView`, `TaskKanbanBoard`, `CreateTaskDialog`) | filter, overrides | filter, drop, create | overrides that outlive their request, create-then-link | `TaskBoard` |
| Task page navigation, search, start page, drawing | few | choose, search, draw | | no: section 8 |

How the parts meet: controllers turn the claims of a request into a caller id
and an admin flag and call a service; a mutation of `NodeService` locks the
rows it names, changes them, embeds and notifies inside one transaction; the
messages it inserts are read later through `MessageService`; `UserService`
changes the rows `CanRead` consults, outside of any transaction of
`NodeService`; the backfill and layout commands run in processes of their own. In the browser,
components read nodes through query hooks and change them through mutation
hooks; both call the API through a client the hook owns, which asks the OIDC
library for a new token when it is denied. The callbacks of a mutation
invalidate queries, and they are the only way a component hears of a change.

What can go wrong where a test hardly looks, with the line it bites at, is the
list `hazards` of `PROJECT.json`. In short: who is told of a change when the
same change takes the right to know away; link and hook tables that no key or
foreign key protects; locks that Delete takes out of order; inserts two
transactions cannot see of each other; vectors computed from what was read
earlier; a model switch made of two statements of a human; and, in the browser,
what is drawn, typed or cached while requests are under way that may be late,
lost, or refused.

## 2. Plan

1. `NodeGraph`: every mutation of `NodeService` as one step. It is the abstract
   specification of the node tables and the place for properties of access,
   subscriptions and links.
2. `NodeTransactions`: the same mutations as interleaved transactions, shown to
   implement `NodeGraph` (`Graph == INSTANCE NodeGraph WITH ...`, `AtomicGraph`).
3. `Embeddings`: vectors, models, backfill.
4. `ApiClient`: the session of the frontend, on its own, since a call comes back
   to its hook as an answer or an error whatever happened in between.
5. `NodeQueries`, and over it `NodeViews`, `WorkspaceCanvas` and `TaskBoard`: the
   cache, the mutations, and the pages; `WorkspaceFilters`, which shares nothing
   with them. `Frontend` composes the five: one page is open at a time.

All of these are there. What would come next: `Accounts` (users, API keys,
messages, create-admin), `AgentTools` (the composite tools of the MCP server over
`NodeGraph`), and the pure algorithms (`ContentEditor`, the windows of
`EmbeddingInputComposer`). Every safety property the passing runs check has a theorem.

## 3. Modules

### NodeGraph

State: `nodes`, `links` and `hooks` are the tables `node`, `nodelink` and
`nodehook`; `issued` is what the identity column has handed out; `accounts`,
`enabled` and `admins` are what `CanRead` reads of `divoid_user`; `notices` are
the rows the latest transaction inserted into `message`. A row has the columns
access and notification tell apart: owner, access mask, status, place, content,
substance, and `meta` for the rest of the metadata (name, type, severity,
refinement, root, opt-out of embedding).

One action per operation: `CreateNode`, `Delete`, `LinkNodes`, `UnlinkNodes`,
`PatchLink`, `Patch`, `UploadContent`, `PatchContent`, `RegisterHook`,
`DeleteHook`, the layout's `PositionUnpositionedNode`, and `UpdateUser` and
`DeleteUser` of `UserService`. An action is everything a handler does between
`MutationTransaction()` and `Commit()`, messages included; a handler that
throws or returns earlier changes nothing and is no action. The gate of the
handler (`BuildVisibilityPredicate`, `BuildOwnerPredicate`, the gate of a patch)
is its guard. `Notify` computes the messages by the rules of
`NodeService.Notify`: which hooks are looked at, who of them is concerned, and
whether the body lists the changes.

Choices: `By(c)` is what a request of caller `c` can do, the caller being the id
and admin flag a controller takes from the claims. `CreateNode` links to any ids
whatever: of nodes that are there, that have been deleted, that are not created
yet, and the id the new node is about to get. A pair can so come to have two rows,
and a node one to itself; the handlers treat them as the code does (`PairNotices`,
`Again`: a subscriber of a node that loses a link to itself is told twice;
`PatchLink` compares one row of the pair before with one after). Patches of a node
are taken to change every column they touch, which changes no outcome: the gate of
an ineffective column is only stricter.

### NodeTransactions

State: the committed tables, `lastId` (the sequence), `born` (committed ids),
`notices` (messages of the latest effective commit), `missed` (a history variable,
below), and per request a transaction: its phase, the request `op`, the snapshot `snap`, the rows still to
lock `todo`, the rows `held`, and `changed`, the rows others committed since the
snapshot.

Actions follow the statements: `Begin` opens the transaction and takes the
snapshot; `LockNode` is one iteration of `LockNodes`, in ascending order;
`LockNeighbors` is the second call of `LockNodes` that only Delete makes;
`Write` stands for the remaining statements, which touch rows nobody else can
see or change; `Commit`, `CommitFails`, `DeadlockAbort` and `Fail` end it. Row
locks, the refusal to update a row changed since the snapshot, deadlock
detection and the failure of a non-serializable pair of inserts are PostgreSQL's
and marked external in `map`. The server retries none of them and neither does
the model. Requests name any ids, as in `NodeGraph`. One failure to serialize comes
from that alone: a transaction that looked for links and missed one, which another
made to a node it could not see, and which therefore has to come before as well as
after (`Queried` in `Unserializable`). `missed` are the messages a commit would have
inserted had its snapshot shown a node that was created since: a `CreateNode` that
names a node ahead of its creation takes no row of it into its snapshot, so
subscribers the node has got by the commit are told nothing of the link. It is the
one thing in which the code is not atomic, and `AtomicGraph` is stated about
`notices \cup missed`. `CreateNode` takes part by its links and hooks and by the type row
`ResolveOrCreateTypeId` may insert. PatchLink, content writes and the layout's
write lock one node or one pair before they write, exactly as Patch and Unlink
do, and are left out here; access is left out as well, since a gate is evaluated
on a row the transaction holds.

### Embeddings

State: of each node the name, body, opt-out, `LastUpdate` (`stamp`) and vector;
a vector is remembered as the model and the texts it was computed from.
`recorded` is the row `embedding.model` of `metadata`. `proc` is what each
process, an instance or a run of `backfill-embeddings`, is doing, with what it
has read so far. `switch` is how far an operator is with the README's procedure
for another model.

Actions: `Start`; the guard statement by statement (`LoadRecorded`,
`HasVectors`, `Record`, `LoadWinner`), since no two of its statements share a
transaction; the embedding part of each mutation (`CreateNode`, `Patch`,
`UploadContent`, `PatchContent`, `Delete`); the backfill (`LoadCandidates`,
`LoadContent`, `WriteCandidate`, `Complete`), where any number of mutations can
happen between two steps; `Exit` at any moment; and the operator's
`BeginSwitch`, `ClearVectors`, `DeleteRecord`, `Abandon`. `Compose`,
`RegenerateEmbedding` and `RegenerateContentEmbedding` decide what is embedded.

Taken from the procedure, not from the code: nothing is started during a switch.
Taken for granted: two updates of a node never get the same `LastUpdate`.
Windows and truncation of long texts do not matter to whose vector it is and
are left out, as are the layout's and the links' writes, which touch neither
`LastUpdate` nor the vector, and names of white space only.

### ApiClient

State: per client (every hook that calls the API makes its own) whether it has
given up (`dead`), asked for the login (`fired`), has a refresh under way
(`inFlight`, and the calls of `signinSilent` in `renewals`); per call where its
`_fetch` stands; `user` is what the OIDC library and `DiVoidAuthEventWatcher`
know and `shown` what was last rendered, which is all a client reads. `page` is
the route, as far as the sign-in goes; `redirects` counts who asked for the login.

Actions: `StartCall`, the outcomes of a request (`Answered`, `Denied`,
`DeniedAgain`) and of a refresh (`Refreshed`, `RefreshRejected`), each with all
that runs in the same turn of the event loop: all the calls that waited go on in
the step that settles their promise. `SessionLost`, `RenewedInTime`, `Expire` and
`NoUserFound` are the library and the provider, `Render` is React with the effect
of `ProtectedRoute`, and `SignOut`, `Leave`, `AskToSignIn`, `Return`, `Exchange`
are the dance around it. A page load starts without a user: the user store is
memory. A retry takes the token of the latest render or that of the refresh,
since the render may come first or not.

### NodeQueries, NodeViews, WorkspaceCanvas, TaskBoard, WorkspaceFilters, Frontend

State: `rows`, `links` and `issued` are the API's side, a small `NodeGraph`
without access rights; `cache` and `observed` are TanStack Query, an entry
holding data, error, staleness and what is on the wire; `requests` are the
mutations that were sent, with who sent them and whether he still listens. The
pages add what their components keep: `NodeViews` the node that is shown and its
editor, dialog and form (`shown`, `panel`); `WorkspaceCanvas` the cards, edges,
drag and toasts; `TaskBoard` the filter, the view, the overrides and what was last
`drawn` of them; `WorkspaceFilters` the selections and sessionStorage.

A request takes three steps: the gesture sends it, `Execute` carries it out or
refuses it (or `Lose` loses it, before or after), and the callbacks run
(`ViewSettles`, `CanvasSettles`, `PanelSettles`, `DropSettles`, `TaskSettles`).
A fetch takes three as well: it is asked, `Serve` reads the answer, and `Arrives`
delivers it; between the two anything can happen. Nothing keeps two requests in
order. Each mutation hook is an operator of its name that lists the keys it
invalidates, and `Outdated` what its callers add; each query hook is an operator
that says what the API answers.

The cache is external and modelled as TanStack Query 5 behaves: an observed key
is fetched when it has no data or stale data, a fetch is aborted with its last
observer, invalidation starts an observed fetch again except for a key without
data. A callback that is bound to a node by its hook follows the hook: when the
component shows another node by then, it names that one (`Rebound`).

Choices. A page is drawn in the step that changes its cache, except for the
overrides of the board. `handleDragEnd` works on a copy of those it was last
rendered with while answers clear the current ones, so `overrides` are React's state
with its queued updates applied, `drawn` what the last render saw, and
`BoardRedraws` the render. A drop is drawn before the next gesture; how long React
takes for the clear of an answer is left open. A drag is the moment of its drop:
that the card goes from the list during the drag is not modelled. The board has
columns for the statuses that are listed, none when all are. The five list
queries are one kind each, with the first page for the list. The form of a
dialog is a value per field; a text is a value, `Trim` takes the spaces around it
away, and `Absent` is the field that is empty in a form, null in a request, and not
there in an answer: `EditNodeDialog` compares null with undefined for the status,
and guards against it for the rest (`ChangedFields`). An edge that is drawn twice, as
after an undo, counts once. `write` permission is taken to be
there. The canvas shows one of a few fixed windows. `sessionStorage` does not
fail. The filters of the workspace are explored without the canvas: the type and
status parameters of its query are left out of the cards. Markers, link types and
contexts are left out of the edges.

## 4. Runs

Every cfg gives each dimension that its question is not about a single value.
Two nodes are enough for what joins or separates nodes (the proofs of section 6
cover more), one node and two users for one who loses what another keeps, two requests for
every race and every cycle of waiters that two rows allow, and three processes
for a record that two others race for.

| Run | Question | Bounds | Distinct states |
|---|---|---|---|
| `graph_tables` | Do the link and hook tables stay consistent without keys (`HooksWatchNodes`, `SourcesExist`, `DeletionTakesLinks`)? When is a pair joined twice (`DoublesOnlyAhead`)? Is each subscriber told exactly once of all a handler changed (`SubscribersAreTold`)? | 2 nodes, 1 user, a substance, 2 labels and a patch without effect | 33,000 |
| `graph_readers` | Who is told, and what, when read access comes and goes (`RevocationIsTold`, `NoticesOnlyToReaders`)? What can a caller do to nodes of others (`OthersNodesStay`), and who can give access to whom (`NoSelfGrant`)? `TypeOK` | 1 node with content, which others may read or write, 2 users of which one is managed and may call as administrator, hooks for everything or for the content | 18,000 |
| `graph_losses` | Is loss of read access always delivered, whatever causes it? `LossOfReadIsDelivered`: no, see section 7 | as `graph_readers` | violation |
| `tx_links` | Are the handlers that lock two nodes atomic (`AtomicGraph`)? Who can deadlock (`OnlyDeletionsDeadlock`), and does every request end (`RequestsEnd`)? Does a type name get one row (`TypeNamesUnique`)? | 2 requests, 2 nodes, create, link, delete, fair | 96,000 |
| `tx_deleting` | Are deletions and subscriptions atomic (`AtomicGraph`)? Is a held row as the snapshot shows it (`LocksProtectSnapshots`)? | 2 requests, 2 nodes with hooks, created with links | 615,000 |
| `tx_rows` | Are they atomic for the columns of a row, its subscription and a link to itself (`AtomicGraph`)? `TypeOK` | 2 requests, 1 node, 2 statuses, 2 types | 282,000 |
| `emb_models` | Does the database keep to one model? `OneModelPerDatabase` | 3 processes, 2 models, 1 node, 1 change | 117,000 |
| `emb_backfill` | Can a vector of an outdated text be stored (`FreshVectors`)? What has a finished backfill embedded (`BackfillEmbedsUntouched`)? `TypeOK` | 2 nodes, 2 processes, a name, a text, an empty text and a blob, 2 changes | 1,890,000 |
| `emb_every` | Has it embedded every node? `BackfillEmbedsEveryNode`: no, see section 7 | as `emb_backfill`, without the blob | violation |
| `session` | Does a client refresh once (`SingleFlight`) and redirect once (`OneRedirect`)? Is a 401 shown only when the session is over (`DeniedMeansDead`), and is the user led away then (`DeadIsLeaving`)? Does every call come back (`CallsSettle`)? `TypeOK` | 2 hooks, one with 2 calls, 2 tokens | 79,000 |
| `pages` | Is what the cache holds as fresh true once all mutations have settled (`CacheTellsTheTruth`)? Do canvas and links agree (`CanvasAgrees`), does a card stay under the mouse (`DraggedStays`), what can leave an override without its request (`LeftByDropsOnly`), does a form send no older value than the one it shows (`FormsSendWhatIsShown`), is a child linked to its page (`ChildOfItsPage`), does the catalog select a type at most once (`SelectedOnce`)? `TypeOK` | 20 scenarios, up to 4 nodes, up to 3 changes | 844,000 |
| `newtask` | Does a new task appear in the list? `NewTaskAppears`: no, see section 7 | 2 nodes and the new one | violation |

A scenario of `pages` (`SmallScenarios` of `MCFrontend`) is an initial page with
its nodes, the gestures and events that are explored together (`explored`), the
nodes gestures reach for (`targets`), and a bound on mutations (`changes`). All
gestures of one page at once are out of TLC's reach; the scenarios put together
those that work on the same state: moves with refetches of another window, undo
with deletion, a second node with a pending deletion, a board that is left with a
pending drop, and so on. Two tasks on a board are what it takes for one to be dropped
while the other is answered, and a node without a status and with a space behind its
name (`Bare`) is what the trimming of a form is about. At most one node is created in a
scenario. Two places and two windows are enough for a card to leave a window, two values
for a field to differ.

`SubscribersAreTold` speaks of the patch of a link only where the pair has one row
(`Followed`): of two, the handler compares whichever the database gives it first.

`CacheTellsTheTruth` leaves out what the code leaves out, and `Untold` names it: a
move and the upload after a file drop invalidate nothing, a node created on the
canvas or the link of a new task is not told to every list (the second is the
finding of section 7), a first load may have been answered before the mutation,
and a callback may name another node by then. It leaves out, too, a mutation that was
carried out and reported as lost (`gap`): its hook takes it for failed and tells
nobody. `CanvasAgrees` speaks of changes
that succeeded and did not overtake each other (`CanvasRests`). The canvas draws an
answer only when it differs from the one before, so an edge it has taken away by
itself stays away when the nodes are linked again, by somebody who draws no edge,
before an answer without the link was read. Two can do that: the panel (`InPanel`;
section 7) and the Undo button, when the refetch after the unlinking
is not there yet or has failed (`gap` in `Undo`). The property leaves these out, and
with them the cards that an answer spared under the mouse and no longer lists.

Bounds with a name: `NodeIds` and `MaxNode` bound ids, `Managed` whose accounts
change, `MaxStamp` the number of changes, `Handlers` which handlers take part, `MaxToken`
the tokens the provider issues, `MaxId` the nodes of the frontend, `Typed` what
its users type, `Scenarios` the rest.
Ids are only compared for equality in `NodeGraph`, so runs over two or more
nodes use symmetry; requests and processes differ in their name only.
No run has hooks together with links that `LinkNodes` and `UnlinkNodes` make between
two nodes that exist, interleaved: that these are told rightly is checked step by step in
`graph_tables` and proved for the transactions (`AtomicGraphHolds`).
`CHECK_DEADLOCK FALSE` stands where nothing is left to do once the ids have run
out: `graph_tables`, the runs of `NodeTransactions`, and those of `Frontend`,
whose changes run out.

Each property has a mutant in `PROJECT.json`, a plausible bug of the code that
breaks it: a registration that does not look at the node, a pair looked up in
its stored direction only, an unlocked neighbor, READ COMMITTED or REPEATABLE
READ in place of SERIALIZABLE, a backfill that writes whatever happened since,
and so on.

## 5. Fairness

`RequestsEnd` and `CallsSettle` need some. `WF_vars(Step(r))`: the server runs every request
it has accepted, and PostgreSQL resolves every deadlock within
`deadlock_timeout`. `SF_vars(LockNode(r))`: a released row lock goes to a waiter
of its queue, so no waiter is passed over for ever. Failures are never assumed,
and clients need not ask anything.

In `ApiClient`, `WF_vars(Responds(r))`: a request ends, at the latest by the abort
after 30 seconds; `WF_vars(RefreshSettles(c))`: so does a token request of the OIDC
library, which has a timeout of its own; `WF_vars(Render)`: React draws. Nobody is
obliged to sign in, and no token to expire.

## 6. Proofs

`tlapm` checks eight modules for every value of the constants that the named
assumptions of the models allow: `NodeGraph_proofs`, `NodeTransactions_proofs` and
`NodeTransactions_refinement`, `Embeddings_proofs`, `ApiClient_proofs`,
`Frontend_proofs`, `Frontend_truth` and `Frontend_canvas`. The assumptions
say little: null is none of the values, the mutable accounts and the callers are
users, the gate is no client, a set is not the value for nothing stored, no answer
is the value for no fetch, the bounds are naturals, a scenario starts with nodes
whose ids were given out and links between two of them, and the mark of a deleted
node is no node (`FrontendAssumption`), and
the node graph that `NodeTransactions` implements is an instance its own
assumptions allow (`GraphAssumption`). TLC evaluates each of them on every run of
its module.

`NodeGraph_proofs`:

- `TypeCorrect`.
- `DoublesOnlyAheadAlways`, `SourcesExistAlways`, `HooksWatchNodesAlways`. The
  inductive invariant `Integrity` adds `FreshIdsUnused`: an id that was not
  issued has no row, no hook, and no link starts there, though one may end there;
  and `OneRowEachWay`: no two links have the same source and target. So a link
  `CreateNode` inserts can only meet one that runs the other way, from a node that
  named the new one ahead; `LinkNodes` looks for both ways, and the other handlers
  add no link.
- `DeletionTakesLinksAlways`: an action property, from the definitions of the
  actions.
- `NoSelfGrantAlways`, `OthersNodesStayAlways`: one case per request. The
  argument of the first is that a request reaches owner and access columns
  through gates that leave them alone or that the caller passes anyway.

Its second half has the three properties about messages. The lemma they rest on
(`StepTells`, from `NotifiedOnce` for each handler) says that a step has one call of
`Notify` for each node that is told of, with its row before and after and with all
of its changed links. What is in the messages then follows from the rules of
`Notify` alone: nothing that must be told is missing (`NotifyComplete`), nothing
else is in it (`NotifySound`).

- `SubscribersAreToldAlways`, `NoticesOnlyToReadersAlways`: action properties that
  need no invariant but `TypeOK`.
- `RevocationIsToldAlways` needs `HooksWatchNodes`: a hook of a node that is not
  there would be of nobody who could lose access.

`Embeddings_proofs`:

- `TypeCorrect`, over the lemma `MutationStep` that sums up what a mutation does
  to a row; the other two theorems use it as well.
- `OneModelPerDatabaseAlways`. `ModelInvariant` adds that no process runs during
  a switch, that after `ClearVectors` there are no vectors until the record is
  gone, and that a process about to record a model other than `Legacy` on a
  database without a record faces no vectors: nobody is past the guard then, so
  none can have been added since it looked.
- `FreshVectorsAlways`. `FreshInvariant` adds that what a backfill remembers of a
  candidate, and of its body once read, is true of the row as long as the row
  has the candidate's `LastUpdate`, which no change leaves alone.
- `BackfillEmbedsUntouchedAlways`. `CoverInvariant` says where an untouched node
  is while a run is under way: it has a vector, or it is still on the list of
  the run, or it is the candidate in hand. It needs `FreshInvariant`, because a
  candidate is dropped when what was read of it has nothing to embed, and
  `ModelInvariant`, because only a switch takes vectors away and a switch waits for
  every process.

`NodeTransactions_proofs`:

- `TypeCorrect`, `LocksProtectSnapshotsAlways`, `OnlyDeletionsDeadlockAlways`, for
  any number of requests and nodes. The inductive invariant `LockInv` has a part for
  each thing a handler relies on: what nobody has changed since the snapshot is as
  the snapshot shows it (`Current`), and what it holds nobody has changed (`Locked`).
  That only holds because a commit changes rows it holds, or a row whose id nobody
  has seen (`NodesCommitted`, over `Visible` and `Decided`), and hooks of rows it
  holds or of nodes that are gone (`HooksCommitted`, over `Gone`: Unregister goes on
  when its node does not exist). `Ascending` orders the first round of locks; in a
  cycle of waiters without a deletion the one that wants the most would want less
  than another holds.
- `TypeNamesUniqueAlways`, from `Unserializable`: two inserts of a name that miss
  each other do not both commit.

`NodeTransactions_refinement` has `AtomicGraphHolds`: `Spec` implements `NodeGraph`.
Begin, locks, writes and aborts are stutters, and a commit is the operation of its
handler, or changes nothing the graph shows and is a stutter as well. A handler
decides by its snapshot, the operation by the tables at the commit: `LockInv` says
that the two agree on the rows a handler holds, and `LinksInv`, proved here, on the
rest: a link of the snapshot is still there as long as nobody has changed its source
(`LinksKept`), the neighbors of a node about to be deleted are held or gone, and what
was written to be told is what has changed. Links may be added at a node that is held,
by a creation that names it without seeing it; of those that a handler looks for,
`Unserializable` (`Queried`) says that there are none if it commits. The messages of a
commit and the `missed` ones are together those of the operation (`ToldIsTrue`). There is one lemma per handler; the one
of `Delete` is the longest, since it reads neighbors before it holds them.

`ApiClient_proofs`:

- `TypeCorrect` and `OneRefresh`: a client's count of refreshes is one or zero
  with its flag, for any number of hooks and calls.
- `OneRedirectHolds`. A client has asked exactly when it has fired (`FiredOnce`),
  so `GiveUp` cannot ask again; the gate asks when its count is zero.
- `DeniedIsFinal`: every step that answers `denied` gives the client up.
- `DeadLeaves`. `Telling` adds that a dead client has fired, that one that fired
  is on a page somebody leaves, and that a session marked as failed in what is
  rendered has made the gate ask. The last is why a client may keep still then.
  It needs `Starting`: as long as the library is loading, no client was called.

`Frontend_proofs`, for any number of nodes, values and changes, any windows, and any
scenarios:

- `FiltersTypeCorrect` and `SelectedOnceAlways`, about `WorkspaceFilters`: an action
  property from `Saved`: whenever something was offered, the selection that is
  stored is the one in memory, so that entering the workspace again restores it.
- `FrontendTypeCorrect`. `TypeOK` is not inductive: that an edge joins two nodes
  depends on what the cache holds, and that a link does on who sent the request.
  `FrontendInv` adds both. `IsCache` gives the data an entry can hold by its key and
  the ids given out so far (`DataOf`); `Sound` says what each sender makes of a
  request, for example that a page in creation and its parent are two nodes because the
  parent's id was given out before. `Quiet`: nothing is fetched without an observer,
  so the answers that may still come are of queries somebody looks at.
- `FormsSendWhatIsShownAlways`, `ChildOfItsPageAlways`. Both are about requests that are new,
  and `StepGrows` sums up a step for them: requests only go on and stay what
  they were (`Kin`, `Further`), and each new one has its `Origin`. The first needs
  `FormFits` of `FrontendInv`: in the form that is drawn, a field nobody typed in is
  the node's, so all there is to send of it is what trimming takes away or the null of
  a status that is not there. The second needs that the creation a
  link goes back to is past the API (`ChildInv`): one that is still to be carried
  out would get another node.
- `DraggedStaysAlways`: whatever draws the canvas leaves the cards in `dragging`
  alone, and no gesture takes away a card while one is dragged.
- `LeftByDropsOnlyAlways`: on the other pages no request is by the board and there is
  nothing to draw; on the task page each step keeps the request an override waits for
  or takes the override with it, except a drop, which replaces the overrides by those
  last drawn and may bring back one that is over.

`Frontend_truth` has `CacheTellsTheTruthAlways`. The property speaks of quiet states
and is not inductive; `TruthInv` says what holds in between. An entry that is fresh
and an answer that is on its way are true (`EntryTrue`) unless some request owes the
key the news (`Owes`): it does from the moment the API carries it out, if it changes
what that key is answered (`Affects`), until its callbacks have invalidated the key,
and for ever if it is one of those the code tells nothing (`gap`, a move). Each kind of
step has its lemma:

- A step of a page only lets entries fade (`Fades`: become stale, be dropped, be
  fetched anew) and leaves what is owed (`Steady`), so the invariant stays (`HoldsOn`).
- A request that is carried out changes the answer of a key only if it affects it
  (`ExecuteAnswers`), and owes it from then on (`ExecuteTruth`).
- When it settles, `AffectedTold` says that what it affected is invalidated: each key is
  stale or asked for again, or is a query that no component of this page has, which
  holds nothing (`Foreign`, `Tidy`).
- `Serve` reads the answer at that moment; what arrives is an answer that was still
  true, or is owed (`ReceivedHolds`).

`LinksBorn` is needed for creation: a node that is new has no links, so no list but the
viewport shows it.

`Frontend_canvas` has `CanvasAgreesAlways`. The property speaks of a canvas at rest;
`AgreeInv` says what holds at every moment, on top of `FrontendInv`, unless a change has
failed or may have overtaken another (`Hopeless`: the property says nothing of the
canvas from then on, and no step makes it say anything again):

- An edge that differs from the answer it is drawn over is accounted for by one
  request of the canvas (`JoinedBy`): the last one about its pair, all others being
  done, which asked for what is drawn and is under way, or was carried out, so that the
  links are as drawn (`Decided`), or is done and has outrun the answer (`Outrun`:
  that is stale, and the one on its way, if any, is another one, so that it will be
  drawn). A card out of place is accounted for by the last move of it (`MovedBy`).
- The nodes of a fresh answer are there or have been deleted by a request whose
  success is still to be told (`NodesThere`). Without it a link could be done with one
  of its ends gone, and its edge would stay on a canvas nobody tells.
- One card is dragged at a time, and the canvas is there to be answered (`CanvasAlone`).

There are four kinds of steps. What happens to the cache lets the answer lag or arrive
(`Lag`, `Arrived`), and the canvas keeps what it has or is drawn anew (`Kept`, `Anew`,
`CanvasOn`). A request that is carried out changes the link or the place it is about
and may then account for the edge it had announced (`ExecuteAgrees`). When one settles,
all windows are told (`ToldNow`), which is what `Outrun` asks of it (`SettledStands`). An answer
that is read has the links as they are, so when a request that is done accounts for an
edge, the answer is not the one drawn, and the edge is corrected when it comes
(`ServeEdges`). A gesture sends the request that accounts for
what it draws (`AsksAgree`): with an older one of the same nodes under way it has a
`gap`, so the older ones are done (`DoneBefore`). At rest every request is done and the
answer is not stale, so nothing is accounted for any more, and nothing differs
(`RestingAgrees`).

Model-checked only: `RequestsEnd` and `CallsSettle`, since liveness is out of the
prover's reach.

## 7. Where code and documentation disagree

The first three have a run. The statements of the next four are definitions beside the
properties that hold in their place; put into the cfg of the run that is named, TLC finds
each violated.

- *Loss of read access is always delivered* (`node_hooks.py:89`). It is when the
  owner or the access mask of the node changes (`RevocationIsTold`). It is not
  when `UserService.UpdateUser` takes the admin permission from a subscriber
  that could read the node by it: no message is inserted (`graph_losses`).
- *Run backfill-embeddings to embed every node again* (`README.md:68`). A
  candidate whose status, say, is patched between the load of the candidates and
  its own turn has a new `LastUpdate` and no vector; the write misses it, it is
  counted as `skipped_changed`, and the command still exits with 0
  (`emb_every`). A second run embeds it.
- *Mutation invalidates the task-list query; the new task appears*
  (`docs/architecture/frontend-bootstrap.md:306`). `CreateTaskDialog` creates a node
  and links it to the Tasks group; neither hook invalidates the path query behind
  the list and the board, which goes on showing the old list as fresh until its 30
  seconds are over (`newtask`). The board knows the gap for its drops and
  invalidates everything itself (`TaskKanbanBoard.tsx:132`).
- *Reverse direction is still a duplicate on an undirected graph*
  (`NodeServiceTests.cs:332`), and the test expects one row for the pair. `LinkNodes`
  does; `CreateNode` (`NodeService.cs:140`) inserts what it is sent. Ids are
  sequential: a node created with a link to the next id, and the node that gets it
  created with a link back, are joined by two rows, and a node that names its own id is
  linked to itself, which `LinkNodes` refuses (`NodeService.cs:237`). `DoublesOnlyAhead`
  says that there is no other way; `OneLinkPerPair` fails in the bounds of
  `graph_tables`.
- *click "Rename" ... PATCH /nodes/42 with replace /name op* (`WikiW2.test.tsx:599`), and
  the test expects that one operation, for a node with a status. For a node without one
  `node.status` is undefined, since the backend leaves nulls out of its JSON
  (`SemanticSearchTests.cs:246`), against the type (`divoid.ts:22`: `string | null`), and
  `EditNodeDialog.tsx:101` compares it with null: every submit also sends
  `/status: null` and erases a status somebody has set in the meantime. The refinement is
  guarded (`:106`). A name with spaces around it is sent trimmed, untouched as well.
  `FormsSendWhatIsShown` says that this is all; `FormsKeepTheRest` fails in the scenario
  `Bare` of `pages`.
- *On success: clears the override (cache invalidation delivers real status)*, *On error:
  clears override (revert)* (`TaskKanbanBoard.tsx:8`). `handleDragEnd` sets a copy of the
  overrides of its last render (`:117`), so a clear that an answer has queued and that is
  not drawn yet is lost: the task keeps the status of a request that is over until it
  is dropped again and answered or the board goes. `LeftByDropsOnly` says that nothing
  else leaves one; `OverridesArePending` fails in the scenarios `TwoTasks` of `pages`.
- *A type the user previously deselected ... stays deselected*
  (`useWorkspaceFilters.ts:36`, and `:173`: *they must NOT be re-added here*). A type of
  the fallback options that is deselected before the first answer of the catalog is not
  known yet, and that answer selects it again (`:186`). `SelectedOnce` says that this
  happens once at most; `DeselectedStays` fails in the scenario `filters` of `pages`.
- *Link (modal Link dialog): covered, canvas refetches and rebuilds edges*
  (`docs/architecture/workspace-modal-preview.md:305`). It does when the answer is
  another one than before. Take an edge off the canvas, which removes it from the
  drawing at once, and link the two nodes again in the panel before the refetch is
  answered: the answer equals the cached one, the query keeps its object, the effect
  at `WorkspaceCanvas.tsx:418` does not run, and the edge stays away although the link
  is there. The next answer that differs, or a pan, draws it. No run is kept for this:
  `CanvasAgrees` without `~InPanel(l)` is violated in the scenario
  `Two("workspace", {"delete edge", "open", "link"}, {1, 2}, 2)`.

Seen while modelling, without a run: a comment says a card whose move failed snaps
back with the next poll (`useMoveNode.ts:14`); an answer that is the same as the
last one merges nothing, so it stays until the viewport or the node changes. The
editor keeps its draft when the panel swaps to another node whose editor is open as
well, and saves it there (`MarkdownEditorSurface.tsx:85`, against
`docs/architecture/workspace-modal-preview.md:442`).

## 8. Not modelled

- Inference, tokenizing, vector text, the forces of the layout: floats, no state.
- JSON, parameter binding, error bodies, schema creation, the checks of start-up:
  input and output.
- `ContentEditor`, the windows of `EmbeddingInputComposer`, filters and hops of
  list requests: pure functions without a history; what the models need of them
  is in `PatchContent`, `Compose` and `Answer`.
- Embedding model files: one temporary file, one rename.
- API keys, creation and listing of users, messages of users, create-admin: single
  statements without a lock or a state between requests. Their hazards are listed.
- The MCP server: sequences of requests without a transaction or a way back. What
  is left when one fails is clear from the code; its hazards are listed.
- In the frontend: `SearchPage`, `WorkspaceSearchBar` and the search of the wiki's
  side nav (reads only), `TasksPage` (which project it opens follows from queries
  and one selected organization), the start page, the shell, and drawing; in the
  modelled pages, what section 3 names as choices, the wiki's upload zone, and the
  viewport stored in sessionStorage.
- The answers a handler reads after its commit are not part of `NodeGraph`; they
  may show a later state than the one committed.
