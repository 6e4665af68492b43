# Stuga: a TLA+ model of the node's core

Stuga is a team wiki that people and AI agents write in together. A node is one Node.js process and
a Postgres database. Each document (and each database) is an *actor*: an object with its own SQLite
file, its own sockets and one lock, so that one handler of it runs at a time. Everything else, from
the REST API to backups, goes through those actors or through tables their jobs fill.

The modules here model the places where a step out of order costs somebody their work:

| module | models | runs |
| --- | --- | --- |
| `RunLedger` | what agents proposed to one document and what people decided | `RunLedgerChain`, `RunLedgerLevels`, `RunLedgerEvict` |
| `ReviewGate` | what review promises, without runs, queues or lists: the abstract specification of `RunLedger` | `RunLedgerLevels`, `RunLedgerEvict` |
| `RunLedgerProofs` | theorems about `RunLedger`, checked by TLAPS: types, signatures, closed runs | |
| `RunLedgerQueueProofs` | theorems about its queue, its notes and its cap | |
| `RunLedgerGateProofs` | theorems about its text, and that it implements `ReviewGate` | |
| `RunLedgerDisk` | the same ledger, write by write, through crashes and failed writes, and the index behind it | `RunLedgerDisk` |
| `RunLedgerDiskProofs` | theorems about `RunLedgerDisk`, checked by TLAPS: rows, objects, list, text and inbox | |
| `DocStore` | from a keystroke to the version list: memory, SQLite, blob store, index jobs, Postgres | `DocStoreFaults`, `DocStoreJobs` |
| `DocStoreProofs` | theorems about `DocStore`, checked by TLAPS: what is stored, saved, armed, replaced and listed | |
| `DocSync` | the open pages of a document, their sockets, and the write gates of its actor | `DocSync`, `DocSyncLevels`, `DocSyncRestore` |
| `DocSyncProofs` | theorems about what pages hold, what a restore took out, and the level a page goes by | |
| `ActorHost` | the host that opens, locks, wakes, evicts and pauses actors | `ActorHost` |
| `ActorHostProofs` | theorems about `ActorHost`, checked by TLAPS | |
| `HeldPages` | a new page held back until its change is decided, and what settles it | `HeldPages`, `HeldPagesRevert` |
| `HeldPagesProofs` | theorems about `HeldPages`, checked by TLAPS | |
| `MC...` | the instances TLC checks, one module for each of the above | |

`PROJECT.json` maps every definition to the lines it translates, lists the runs with their
properties, one broken variant of the code per property (the definitions marked "Mutant" beside the
one they break), the hazards and the findings.

## 1. Inventory

### Components, their state and their operations

*Actor host* (`packages/runtime/src/actor-host.ts`). State: the hosts in memory (`actors`), those
still closing, timers of actors in memory and of actors that are not (`coldAlarms`), alarms put aside
during a pause (`heldAlarms`), each store's alarm row, each socket's held frames. Operations: a
handle's `fetch`, the entry of a frame, a departure or an alarm into the lock queue, `evictIdle`,
`release`, `close`, `pause`, `resume`, boot. Correct when one SQLite file never has two hosts, what a
leaving peer sent is handled before the store closes, an alarm always has something that will wake
it, and after `pause` resolves nothing writes.

*Document store* (`packages/doc-actor/src/store/`). State: the live Yjs document, the pending log
and its mirror in SQLite, `meta` (head `seq`, rollback `epoch`, version ring, last version hash), a
snapshot per seq in the blob store. Operations: apply an update, mirror the log, flush, record a
version, promote the head to one, checkpoint, restore, recover an unreadable head, hydrate, prune.
Correct when nothing once stored is lost by a failure or a crash, what a restore replaces can be had
back, and unsaved edits always have an alarm coming.

*Run ledger* (`packages/doc-actor/src/ledger/`, `packages/protocol/src/domain/runs.ts`). State: runs
and their hunks, the run each agent adds to, which run waits behind which, the notes a reviewer left
for an agent. Operations: propose, read back, accept, reject, revert, undo, acknowledge, leave and
answer notes, close, evict. Correct when nobody approves what their own agent wrote, no text stands
in the document that the ledger says did not land, queued changes land in order, and nothing somebody
still owes is evicted.

*Node index* (`services/node/src/jobs/index-doc.ts`, `packages/db/src/{versions,search,jobs}.ts`,
`services/node/src/api/versions.ts`). State: the job table, version rows, `docs.version_floor`,
`docs.snapshot_seq`, the search text. Operations: run a job (at least once, in any order), list
versions, delete one. Correct when what is listed can be read and search holds the text of the head.

*Document sync* (`packages/doc-actor/src/{doc-actor,session}.ts`, `sync/gates.ts`,
`apps/web/src/sync/stuga-provider.ts`). State: per socket whether it acknowledged the present
generation and may write; per page its own copy of the document, the generation it holds, its ticket
and level; the actor's mirrors of the row's lock and trash flag. Operations: connect, the handshake in
both directions, an update and its fan-out, a refusal, a reset, a new level, a link that dies. Correct
when a page with nothing on its way shows the document, what was typed arrives or is refused aloud,
and what a restore took out is not brought back by a page that was away.

*Changes across pages* (`services/node/src/changes/`). State: a row per page of a change (held,
released, removed), the runs linked to the change, the page's own grants, lock and trash. Operations:
decide a run or the whole change, read the runs of a page, settle it, release or remove it, announce
it, and the owner's sharing, which releases too. Correct when a page is settled once, by a person, is
never open to more than it was held for before that, and is not left held with everything decided.

*Co-author* (`packages/doc-actor/src/coauthor/`): a turn with a language model, run under the lock of
its document, that may read and propose into other documents through the node.

*Other parts*, with the reason each is not modelled (yet), are in `PROJECT.json`: the database ledger, the filters of the
review inbox, the job queue's leases, governance and webhooks, identity and OAuth, the copying of a
backup, HTTP, search, wiki, archive, remote access, the rest of the web client.

### How they interact

- A client's frame or a request reaches an actor only through its host, into the lock queue.
- A flush puts a snapshot in the blob store, sends an `index_doc` job, then commits `meta` and clears
  the log and the alarm in SQLite. The node runs the job later and fills its own tables from it. The
  actor and the node therefore each have a head seq and an idea of which versions exist, and each acts
  on its own: the actor prunes, the node lists and deletes.
- A decision on a run changes the live document, flushes the store, saves the run and queues a
  `run_index` job, in one handler under the lock.
- A co-author turn calls the node in process, which calls the other document's actor: a lock is held
  while another is waited for.
- A restore, a lock, the trash and a new tier are rows of the node first and calls to the actor after;
  the actor keeps mirrors of them, and the open pages hear of each from the actor.
- A decision made through the node ends by looking at the page's row and at every run of its change,
  each in its own actor, with no transaction around them.
- A backup pauses the host, so that the SQLite files are still while they are copied.

### What is hard

The list in `PROJECT.json` under "hazards" is what the properties are for, each at its line:
hosts closing while requests, departures and alarms arrive; three owners of one alarm; failures and
crashes between the put, the send and the commit of a flush; jobs that are late, doubled or
overtaken, feeding a second copy of the same facts; a body, a row and a list that a crash leaves at
different points of one handler; pages that come back after a restore, and sockets nobody reads any
more; two people deciding the last of a change at once; long legal sequences of accept, undo, revert and
propose against pointers (`queued_behind`, `active`, the feedback list) that went stale; limits at
which runs are evicted and snapshots pruned; locks held across calls to other actors.

## 2. RunLedger

A document is a set of passages (`Slots`). A hunk replaces one passage: it names the text it expects
and the text it puts there. The text a hunk writes is named by the hunk, `<<run, index>>`, so what
stands in the document says who let it in; text a person typed is a member of `Plain`, and `Gone` is
the text of a deleted passage. Whether an edit fits (`applyStrEditsStrict` in the code) is whether the passage
still holds the expected text.

`runs` holds the `run:<id>` records with their bodies, `active` the `run-active:<alias>` pointers,
`listed` the `feedback-pending:<alias>` lists, in the order ids are minted. Because the lock admits
one handler at a time, each handler is one action, built from the ledger's own operations as
functions from one ledger to the next: `Prepared`, `Tracked` (with its eviction), `Unlinked`, `Closed`,
`Noted`, `Scanned` and so on, in the order the code calls them.

| action | code |
| --- | --- |
| `Propose`, `ProposeNothing` | `ledger/propose.ts`, `prepareRun`/`track` in `run-store.ts` |
| `ReadBack` | the projection and the notes an agent's read returns |
| `Accept`, `Reject` | `handleRunDecide` |
| `Revert`, `Undo`, `Ack` | `handleRunRevert`, `handleRunUndo`, `handleRunAck` |
| `PersonEdits`, `GoesIdle`, `FeedbackAges`, `GoesOld` | people at the editor, and the clock: three ages stand for `RUN_IDLE_MS` and `RUN_FEEDBACK_LOOKBACK_DAYS` |

The node decides who may act and says so with each call (`approver`, `manager`); the model lets it
vouch for any combination each time. The level it sends may be another than the one the run was
proposed at.

Properties:

- `ColleagueSigned`: a hunk proposed at `colleague` that stands accepted was signed by a person who is
  not the one its agent works for.
- `OnlyLandedText`: a hunk's text stands in the document only while the ledger says it landed.
- `StatusTruth`: a closed run holds nothing that waits and its status is true.
- `QueueIsUsable` (`AheadHasWork`, `OwnWorkShown`): a run that blocks another can itself be decided; an
  agent whose work waits sees it when it reads.
- `AcceptedInOrder`: nothing is let in while a run it was built on waits.
- `NotesAreListed`, `NothingOwedIsEvicted`: the cap and the lists never lose a note or a waiting run.
- `ImplementsReviewGate` (in `RunLedgerLevels` and `RunLedgerEvict`): `RunLedger` implements `ReviewGate`. There a hunk has one fate (new, waiting,
  in, out, forgotten); `FateOf` is the refinement mapping. Hunks enter by a person's decision or at
  `auto`, leave whole, and no decision touches text that is not in the document.

Instances. One agent is enough for the chain: queues are per agent, and a run of another agent never
enters `AheadOf`. Three runs of one hunk are the shortest chain with a middle (a run both waiting and
waited for); `RunLedgerChain` lets them move between two changes. Two hunks in one run over two
passages are the least for a blocked hunk and for a partial revert (`RunLedgerLevels`). The eviction
instance keeps two runs and opens three. The refinement is checked at every level with one
run, and with eviction and two agents of two people, each of whom may decide for the other. `Symmetry` permutes passages and changes, which differ in name only
and of which no formula chooses one. `CHECK_DEADLOCK FALSE`: the ids run out, after which nothing need
be possible; liveness is not stated, since nobody is obliged to review.

### RunLedgerDisk

`RunLedger` takes a handler as one step. `RunLedgerDisk` takes it as the sequence of its writes, in the
order of the code: `op.todo` holds those still to make. An entry is a put of the open-run pointer, of the
feedback list or of the document's text (`Commit` and flush), or the saves of one or several runs, the
first-opened first: `PutBody` stores the object of the first of them, `PutRow` its row and sends the index
job, after which the others remain (`Others`); `PutOther` makes the other puts. `cached` is the mirror of
bodies, which a handler changes before any write and which survives a handler that throws but not the process.

| fault | what it stands for |
| --- | --- |
| `blob`, `list` | `put` throws and the handler with it: what it did to the mirror stays (`PutFails`) |
| `send` | the `run_index` job is not stored; `enqueue` swallows that (`SendFails`) |
| `crash` | the process ends between two writes (`Crash`); `Evict` empties the mirror without a fault |
| `lose` | a body is gone from the blob store (`LoseBody`) |

`Index` runs a job, in any order, as `upsertAgentRun` does; a row is replaced only by one with as late
a stamp.

- `StoredTogether` (`RowsHaveBodies`, `AnsweredIsStored`): a row never lists more hunks than its object
  holds, which would lock the run for good; and what was answered to a person is on disk, also when the answer
  is to a retry of a decision that failed half way.
- `HunksAreKept`: no handler writes back the empty body of a failed read.
- `NotesOutliveCrashes`: a saved note its agent has not answered stays on the list reads go by.
- `LandedBeforeRecorded`: nothing is recorded as landed before its text is in the stored document.
- `InboxShowsTheRow`: with every job done the inbox agrees with the row.

Instance: two runs of two hunks, four handlers, one fault. Two runs are the fewest with a queue and with an
unlink; four handlers allow propose, decide, fail and retry. The document is at `colleague`, where the
approvals are, and `Propose` also lands at once ("auto"). `Symmetry` permutes the two changes. `CHECK_DEADLOCK FALSE`: the calls run out. No
liveness: a handler that a crash ended is not resumed by anything.

What TLC showed of the code beyond those properties, by instances that are too large or statements
that fail: a crash between body and row, or a failed put of the body and a retry, loses the approvals of
the first try; a crash after a close leaves the agent's pointer unset; with three runs a crash between
close and unlink lets the third be accepted before the first (`run-store.ts:78` promises the order);
two failed puts may record as accepted what was taken out again.

## 3. DocStore

A document is the set of edits applied to it. `Silent` edits leave its Markdown as it was, `Parked`
ones wait for a Yjs dependency that never comes; both differ from the text without changing it, and
the version hash, the checkpoint and the index look at text. `live` is the instance (`DocStore`'s
fields), `meta`, `log` and `alarm` its SQLite rows, `blob` the snapshots, `jobs`, `versions`, `floor`
and `indexed` the node's side.

The lock makes handlers sequential, so `op` names the one in flight and how far it has come. Every
await of the blob store or the job queue is a step of its own (`PutSnapshot`, `Send`, `CommitSnapshot`,
`Prune`, `PutHead`, `CommitHead`, `DropLog`), each may fail (`PutFails`, `SendFails`, with `RolledBack`
undoing memory as the `catch` does), and the process may die between any two. A send may be stored
and still reported failed ("unacked"). SQLite writes of one tick are one step, as `storage` buffers
them, except the two awaits of `installHead`. `Incidents` selects what may go wrong in an instance.
The interval between versions is a free choice, except where the code does not ask the clock.

Properties:

- `NothingStoredIsLost`: no step other than a head install, or the head deleted by a person or lost by the
  blob store, takes back an edit the log or the head once held.
- `CleanMeansSaved`, `DirtyHasBackstop`: what memory calls saved is saved, unless a person deleted that
  version; what it calls unsaved has an alarm.
- `ReplacedIsKept`: what a head install replaces is a version or was written aside (a restore over an
  unreadable head excepted: `RestoreCanBeUndone`, below; and the text of a version a person deleted).
- `ListMatchesRing` (`ListedHasBytes`, `RingIsListed`): with no job outstanding, the node lists what the
  actor keeps.
- `HeadIsReadable`: a deletion from the history list never takes the head.
- `LogDrains` (liveness): a mirrored edit reaches a snapshot.

Instances. `SNAPSHOT_KEEP` and `VERSION_KEEP` of 1 or 2 make pruning and ring eviction happen within a few
flushes. `DocStoreFaults` allows two incidents, because the interesting losses need two (a failed
flush, then a crash), one restore or recovery, one deletion, and two jobs in flight. `DocStoreJobs` allows
three jobs in flight, the fewest for one to be late between two, with one failed put, one restore and one
deletion; crashes are left to the other run, because a crash between send and commit really breaks
`HeadIsReadable`. `RetentionAssumption` asks for `VERSION_KEEP >= SNAPSHOT_KEEP` and `VERSION_KEEP >= 2`, true of
the values in the code (20): without the first `ListedHasBytes` fails, and with a ring of one entry the
version of the new head would push out the version of the old one, which `ReplacedIsKept` forbids. `CHECK_DEADLOCK FALSE`: once the edits are typed and the
incidents spent a saved document rests.

Fairness: the lock holder goes on (an await settles one way or the other), a set alarm fires
(`ActorHost`'s `AlarmRuns`), and the job worker polls for as long as jobs exist, so each is run and
acknowledged in the end.

### DocSync

A document is the set of edits merged into it, so merging is union and a state vector is the set held.
`socks[t][s]` is a socket of page `t` as the server has it: how it was closed, whether the page still
listens (`live`), `epochAcked`, `canWrite`, the frames queued for the actor (`up`) and for the page (`down`).
A page has as many sockets as places in `Slots`, since the server keeps one the page gave up on until it notices.
`tabs` is the page's provider: its copy, the generation it `heard`, whether this socket's was `accepted`,
its level and its ticket. `row`, `calls` and `asked` are the node: what it stored, and what it has yet to
tell the actor. Two facts of the model exist for the properties only: `undone` (what a restore took out,
and nothing put back) and `early` (typed by a page that had heard no generation).

| action | code |
| --- | --- |
| `Type`, `Mint`, `LinkDies`, `Hears`, `HearsClose` | `stuga-provider.ts`: `onLocalUpdate`, `connect`, `abandonSocket`, `onMessage`, `acceptEpoch`, `onClose` |
| `Connect` | `api/ws.ts`, `routeWebSocket`, and the actor's `connect` |
| `HandleAck`, `HandleStep1`, `HandleWrite` | `doc-actor.ts`, `onMessage`; `Verdict` is `judgeWrite` with its gates in order |
| `Departs`, `Save`, `Restore`, `Deliver` | `webSocketClose`, flush, `restoreToVersion`, `/set-locked`, `/set-trashed`, `/revoke` |
| `AskRestore`, `Flip` | the routes of the node that change the row and then call the actor |
| `Crash` | storage and rows stay; memory, sockets and calls on their way are gone |

Frames the code sends back to back are one frame. A restore closes the sockets, but what they had queued
is handled: the handlers of a closed socket run as any other, and only what they send goes nowhere.

- `QuietMeansSame`: a page with nothing on its way shows the whole document, and beyond it only what it
  was told was refused.
- `EditsArrive` (liveness): what a page holds is merged, refused, or gone with a reload or the page.
- `ReturningTabsAreFenced`: what a restore took out comes back only in frames queued before it, never
  from a page that returns.
- `MirrorsAgree`: with no call on its way, no socket is open or writes above the row's tier, and the
  trash flag is the row's; the lock too, unless the process ended with a call on its way.
- `PageKnowsItsLevel`: a page with nothing on its way is read-only exactly when its writes would be refused.

Instances. `DocSync`: two pages with two places each, one edit, a crash and a dead link: two pages are the fewest
for a fan-out, and the second place is the socket left behind. `DocSyncLevels`: one page against a restore, a
flip of every kind, a refusal, a crash and a dead link: a level, unlike an edit, never passes from page to
page. `DocSyncRestore`: the shortest instance of the finding. `CHECK_DEADLOCK FALSE`: pages at rest, or over.

Fairness (`DocSync` only): the network delivers and the actor serves every page and every call (weak);
a page keeps trying to connect while it holds a ticket (strong, since crashes and dead links
interrupt it: its backoff is seconds, a ticket lives for minutes). Nobody has to type, restore or change a row.

## 4. ActorHost

A host is a lock queue whose head is running. Each name has two places for hosts, so that a host
still closing and the one that follows can be seen at once; `OneHostPerStore` says they never are both
open. `call` is what a caller asked of a handle: waiting for a close, woken by it, queued, answered or
refused. Time is an alarm row that is "later" and then "soon". What a handler does with the alarm row
is open for actors in `Alarmed`; what it calls is open among `Calls`.

Continuations that run as microtasks are kept where the code relies on them: a caller woken by a close
goes on before any sweep or release looks at that name (`AskedAgain`), and what `evict` does after the
close belongs to the step that closes.

Properties: `StoreIsExclusive` (`OneHostPerStore`, and `PausedIsStill`: no store is open between the end of
`pause` and `resume`), `NothingIsForgotten` (`NothingBehindClose`: nothing is queued behind a close;
`LeaversAreHeard`: a departing peer's frames are handled, in order, before its departure, which comes
before the close; `AlarmHasTimer`: every pending alarm has one of its four owners), and the liveness
properties `AlarmRuns` (a due alarm runs, is moved or deleted, across evictions, pauses and a crash) and
`PauseResolves`.

Instance `ActorHost`: two actors, one with alarms, a socket with two frames and a request for it, a call
from it to the other, one pause, one crash, one retry of a failing alarm. Two frames are the fewest
whose order can go wrong; one socket and one request give a leaver and a caller at the same close.
`CHECK_DEADLOCK FALSE`: idle actors with no alarm have nothing to do.

Fairness: handlers return (weak fairness of `Work`), time passes, timers fire, woken callers go on, a
backup ends. A host's own timer is strongly fair, since eviction may disable it over and over: the
idle time is minutes, and a due timer fires long before. No fairness is assumed of clients.
`PauseResolves` relies on calls going one way (`Calls <- OneWay`); with `Calls <- BothWays` and a socket
on each document TLC finds
turns of two documents that call each other waiting for good, and with them `pause` and so a backup
(`cross-doc.ts` guards each turn against its own document only).

## 5. HeldPages

One page an agent made in a change, where AI edits wait for a colleague. `row` is its state in
`wiki_change_pages`, `doc` its grants, lock and trash, `runs` the items of its runs at their actor, `linked` the
runs its change knows of, `feed` how often `doc.created` went out. A request is a record in `calls` with the
point it has come to (`at`) and what it read (`first`, `fresh`, `got`, `view`); every await is a step of
its own, so two requests, the agent, the owner and a crash interleave at each. One decision at the
actor is one step: its lock, and `RunLedger`, make it so.

| action | code |
| --- | --- |
| `DecideRun`, `AtTheActor`, `Undo` | `api/runs.ts`, `decideDocRunAs`, `revertDocRun`, and the actor's handlers |
| `ReadRow` ... `Settle` | `changes/held.ts`, `settleHeldPage`: `changePageOf`, `getDoc`, `listChangeRuns`, `tallyRuns`, `settleChangePage` |
| `ReadGrants`, `TakeAccess`, `Announce`, `Trash` | `releasePage`, `removePage` |
| `DecideChange`, `ReadCard` ... `SettlePage` | `changes/routes.ts`, `decideChange` |
| `Share`, `SetSharing`, `ReadShared`, `ReleaseShared` | the sharing route and `releasedBySharing` |
| `Propose`, `Link` | the agent's proposal, and its link to the change, which may come late |
| `Unreadable`, `Unsent`, `Crash`, `Lock` | an actor that does not answer, an event not stored, the end of the process, the owner's lock |

- `SettledOnce` (`AnnouncedOnce`, `SettledByAPerson`): whoever races, the page is settled and announced once,
  on something a person did.
- `NeverWider`: until it is released, nobody opens it but those it was held for, unless its owner shared it.
- `DecidedMeansSettled`: with nothing failed or locked and every run linked in time, the last of any number of
  concurrent decisions settles the page.
- `ReleasedIsOpen`: a release that nothing interrupted leaves the page following its folder, announced.

Instance: two requests at once, two runs of one item, one fault or change of lock, one sharing; the pages' races are
between two requests, and a settled page has no third. `Symmetry` permutes requests and items, of which no formula
chooses one. `HeldPagesRevert` is one request at a time with no fault. `CHECK_DEADLOCK FALSE`: the requests
run out. No liveness: nobody is obliged to decide.

Interleavings the code allows and no property forbids: a release overwrites grants the owner set between its
read and its write; a page goes to the trash although a run was linked to its change, or it was locked,
after the card was read; a crash between settling the row and setting the access leaves it released, narrow and
unannounced; a run decided before it was linked leaves the page held until the next decision.

## 6. Proofs

`RunLedgerProofs` proves, for any agents, people, passages, levels and bounds:

- `LedgerInvariant`: `Spec => []IInv`, the inductive invariant.
- `TypeCorrect`: `Spec => []TypeOK`.
- `NobodyApprovesTheirOwn`: `Spec => []ColleagueSigned`.
- `ClosedRunsAreDecided`: `Spec => []StatusTruth`.

Assumptions, all named in `RunLedger`: `BoundsAssumption` (the bounds are naturals),
`ReviewerAssumption` (every agent works for a person), `TextAssumption` (a deleted passage, people's
text and hunks' text are told apart), `InputAssumption` (the instance's inputs are of their types).

Why the strengthening. `ColleagueSigned` is not inductive: an accept goes by the level of the *run*
(`stored.review_mode`), and the hunk's own level says nothing to it. `Signed` adds that a run holding a
hunk proposed at `colleague` is itself at `colleague`, which proposals keep by raising the run's level
and never lowering it. `StatusTruth` needs that `closedStatus` is applied to a run with nothing pending,
and that every operation which changes a hunk of a closed run reopens it; together with the types
these are conjuncts of `RunOK`, one run's share of the invariant. `IInv` says every run of the ledger
satisfies it, so each lemma about an operation (`UnlinkedOK`, `ClosedOK`, `TrackedOK`, `NotedOK`, ...) has
the form "from a good ledger to a good ledger", and the proof of a handler follows the handler: one
lemma each (`AcceptOK`, `RejectOK`, `RevertOK`, `UndoOK`, `AckOK`, `ProposeOK`, ...), and `StepOK` splits on `Next`.

`RunLedgerQueueProofs` proves, from the same assumptions:

- `QueueInvariant`: `Spec => []QInv`, the inductive invariant.
- `QueueStaysUsable`: `Spec => []QueueIsUsable`.
- `NotesReachTheirAgents`: `Spec => []NotesAreListed`.
- `AcceptsInOrder`: `Spec => AcceptedInOrder`.
- `EvictsNothingOwed`: `Spec => NothingOwedIsEvicted`.

Why the strengthening. A run names the run it waits behind (`queued_behind`) and those it was proposed on top of
(`stacked_on`), and nothing in the code compares the two. `Behind` is what a person sees: the run named is older,
of the same agent, and can be decided. It is kept when a run in the middle closes only because the others
move up to what it stood behind, and when a closed run is reopened only because nothing of that agent may be open
then: `InLine`. `InLine` is also why order holds: of two open runs the newer stands no further up than the
older, so a hunk that may be accepted, in a run behind none, has no open run of its agent below it; and what it was
proposed on top of is older and of its agent (`Stacked`). `Pointed` says the agent's pointer names the newest
open run. `NotesHeld` adds to `NotesAreListed` that a run with a note to show is not yet old, since eviction
goes by the run's age and not by its notes; `Numbered` that a run id is kept only once it was handed out. The
proofs reduce every handler to one of four changes of a ledger: places kept (`LinedSame`), a run ended
(`LinedUnlinked`), reopened, or opened.

`RunLedgerGateProofs` proves, from the same assumptions:

- `GateInvariant`: `Spec => []GInv`, the inductive invariant.
- `OnlyLandedTextStands`: `Spec => []OnlyLandedText`.
- `LedgerImplementsGate`: `Spec => ImplementsReviewGate`, the refinement of `ReviewGate`.

Why the strengthening. An undo puts back what its hunk once found (`TextBefore`), so what may come to stand in the
document is decided by text nobody sees: the `old` of hunks that landed. `Sound` speaks of it: an agent's text that
is shown, or is the `old` of a hunk that stands, landed itself at that passage, or its run was forgotten
since; and it lies in one place, shown or under one hunk only. Without the last part a hunk could be
taken out while another still covers its text, and undoing that one would bring it back. `Tidy` says that a
hunk writes its own name or nothing. `SoundLanded` and `TakesOut` carry `Sound` over hunks applied one upon the
other and taken out newest first; they, and the lemmas on `TextAfter` and `TextBefore`, need no induction
over the list of hunks, since the model says of each passage which hunk is the newest or the oldest there.

The simulation follows the handlers: `RejectG` is the gate's `TurnDown`, `AcceptG` its `LetIn`, `RevertG` and `UndoG` its
`TakeBack`, `ProposeG` its `Offer`, `PersonEditsG` its `Write`, each of them a stutter when nothing is decided
by it, and `AckG`, `ClockG`, `ReadBackG`, `ProposeNothingG` always. `AllSame` is what lets a handler be
taken apart: rolling a run over, closing the queue up and answering notes move no hunk the gate knows.
`GStepOK` has both results: the invariant is preserved, and the step is one of the gate's.

`RunLedgerDiskProofs` proves, for any changes, runs, hunks, handlers and faults:

- `DiskInvariant`: `Spec => []IInv`, the inductive invariant.
- `DiskTypes`: `Spec => []TypeOK`.
- `RowsAndObjectsAgree`: `Spec => []StoredTogether`.
- `NotesStayListed`: `Spec => []NotesOutliveCrashes`.
- `InboxFollowsTheRows`: `Spec => []InboxShowsTheRow`.
- `NoHunkIsForgotten`: `Spec => HunksAreKept`.
- `TextComesFirst`: `Spec => LandedBeforeRecorded`.

Assumption: `DiskAssumption` (no run, body or record is the mark for none; the faults are of the kinds modelled; the
bounds are naturals, and a run may have a hunk; there is a change to work on).

Why the strengthening. Between two puts the disk is in no state a handler would leave, so the invariant speaks of the
disk *and* of the writes still to come. `Once` says a handler saves a run once; `Longer` that each save to come
is at least as long as the object and the row it replaces, which is `RowsHaveBodies` and `HunksAreKept`;
`Newer` that it bears a stamp no older than the row's, which with `Shown` is the inbox; `Settling`, that the run being
decided is saved settled or already is, which is what an answer to a retry rests on. `Lists` and `Drops` say where in the list of writes
the put of the feedback list stands: before the save of a note that is new, behind the save of one that was
answered. `InText` says the same of the text and of what lands. `Mirrors`, `Minds` and `ToCome` tie the mirror to the disk: what
is in the mirror is stored, or is among the writes to come, unless a put threw. The last is what fails after a throw, and
why `NotesOutliveCrashes` and `LandedBeforeRecorded` except it: the next handler then starts from a mirror that is ahead of the disk.

A put takes the first write off, so each of these predicates is shown to pass from a list of writes to what
remains of it (`Remains`, `TailRemains`, `OthersRemain`); a fault empties the list (`NothingToDo`). A handler that begins is
brought to one form, five stages: what is closed before, the text, the list if it grows, the saves, the list if
it shrinks (`Stages`). `Planned` says what must be true of the stages for the invariant to hold, `BeginStep` that it is
enough, and for each handler there remains to show that its writes are such a plan (`OneRunPlan` does it for the handlers of one run).

`HeldPagesProofs` proves, for any number of requests at once, runs, items, faults and sharings:

- `HeldInvariant`: `Spec => []IInv`, the inductive invariant.
- `TypeCorrect`: `Spec => []TypeOK`.
- `LeavesItsHoldOnce`: `Spec => []SettledOnce`.
- `HeldStaysHeld`: `Spec => []NeverWider`.
- `ReleaseCompletes`: `Spec => []ReleasedIsOpen`.
- `SettlingInvariant`: `Spec => []SInv`, what `DecidedMeansSettled` needs beside the first.
- `TheLastDecisionSettles`: `Spec => []DecidedMeansSettled`.

Assumptions: `HeldAssumption` (the bounds are naturals, there is an item and a run, the owner's grants are of
their type) and `IdleAssumption` (no request is told apart from a request).

Why the strengthening. Everything a request does goes by what it read some awaits ago, so the properties say
nothing until each point of a request says what must still be true there: that is `Good`. A request at
`grants`, `access` or `announce` stands on a row that is released and not announced, and nobody but the owner can
have touched the grants since; one at `trash` stands on a row that is removed; a status it read was
some person's decision, whatever became of the item meanwhile. `Alone` is the race itself: at most one
request releases the page, because `settleChangePage` lets only one past a row that is `held`, which `HeldYet` and
`Settles` use. `UnderWay` carries `ReleasedIsOpen` through the awaits of a release: it is done, or somebody
is at it. Most steps only read; `Reads`, `ReadsOn` and `GoesOnOK` take them all at once, `Aside` those of nobody's
request, and the lemmas of `Settles`, `ReadGrants`, `TakeAccess`, `ReleaseEnds`, `Trash` and `SetSharing` are the rest.

`DecidedMeansSettled` speaks of a moment when no request is under way; `Settling` says what is true before it: of a
page still held with everything decided, somebody is on the way to settle it. Whoever has landed a decision and
has not listed the runs yet is (`Carries`), since what it will read is decided; so is whoever is reading them, if what it
has read and what it has yet to read settle the page. Two decisions that race may each read a run before the other
decided it; the one that landed last has still everything to read. A page that follows its folder is settled by no
decision (`first.inherits`), so `Opening` is needed too: a held page follows its folder only while the sharing that
made it so is about to release it. `Onward` takes a request that goes on, `Beside` one that was not on its way.

`ActorHostProofs` proves, for any actors, peers, requests, calls between actors, alarms, pauses and crashes:

- `Invariant`: `Spec => [](HInv /\ PInv)`, the inductive invariant.
- `TypeCorrect`: `Spec => []TypeOK`.
- `StoresAreExclusive`: `Spec => []StoreIsExclusive`.
- `NothingForgotten`: `Spec => []NothingIsForgotten`.
- `OnlyTheConnectedAreDropped`: `Spec => [][DropsOnlyTheConnected]_vars`: a close drops no socket whose departure
  is still to be handled.

Assumptions: `NamesAssumption` (every client asks for an actor), `CallsAssumption` (no actor calls itself),
`LimitsAssumption` (the bounds are naturals) and `CallersAssumption` (no client is a host).

Why the strengthening. `HInv` is about hosts. `OneHostPerStore` alone says nothing of the host that `open` is about
to make: it is preserved because a place that is not in memory is either empty or on its way to its
close, which `HostOK` says for the four records that must agree (`closed`, `done`, `resident`, and the close at the
end of the queue, `Working`). `AlarmHasTimer` needs the rest: `Wakes` for a host that is open, `NameOK` for a
name none is open of, and that a cold timer never coexists with a host. `PInv` is about sockets. A frame of a peer
is in one of four places, handled (`got`), in the queue, held, or kept with a departure, and `Heard` says
that these, in this order, count from 1 to what the peer has sent; `LastLeft` puts the departure behind
all of them. `Owns` says whose the entries are: one of a peer that has no socket can only be its next request, which
is there once. Without it a frame left over from an earlier socket of the same peer would be counted again.
Most steps do nothing to a peer (`Aside`); the others change one peer, and `SocketStep` and `ArrivalStep` leave
four facts to show of each (`RunFramePeers`, `RunLeftPeers`, `RunDeparturePeers`, `SendPeers`, `DepartPeers`, ...).

`DocStoreProofs` proves, for any edits, retention, incidents, installs and deletions:

- `DocInvariant`: `Spec => []DInv`, the inductive invariant.
- `TypeCorrect`: `Spec => []TypeOK`.
- `CleanIsSaved`: `Spec => []CleanMeansSaved`.
- `DirtyHasAlarm`: `Spec => []DirtyHasBackstop`.
- `StoredIsKept`: `Spec => NothingStoredIsLost`.

Assumptions: `RetentionAssumption`; of the edits and the incidents nothing is needed.

Why the strengthening. `CleanMeansSaved` and `DirtyHasBackstop` speak of an actor at rest, so the invariant says
what holds at every await between. `Held` and `OnHead`: memory is the stored head with the log and more edits on
it, whatever handler runs, until a head install has replaced it (`Replaced`). `InFlight`: from its put to its
commit a snapshot has its blob in the store and remembers the stored ring to roll back to, which is what makes
a failure at any of the awaits a return to `Memory`. `Phase` says which awaits a handler can be at. `Backstop` is
`DirtyHasBackstop` where no alarm is under way: a flush or the alarm's own handler may have none, since they re-arm
when they fail. `AtNode` bounds the node from the actor's side: it is at most one head ahead (a crash or a
lost answer fell between the job and the commit), hence nobody deletes a number past the stored head, and a
deleted number never has bytes again. Without the last part a rewritten head could be taken for the deleted one.

About versions it proves, from the same assumption:

- `VersionsStand`: `Spec => []VInv`, the inductive invariant.
- `ReplacedTextIsKept`: `Spec => ReplacedIsKept`.

Why the strengthening. A restore makes no version of a document whose hash is the newest version's, so what has to
hold is that this hash tells the truth: `Witness`, the newest version of the ring has bytes of that text, or a
person deleted it, or it is the head and the blob store lost it. `Standing` says so of the stored ring, `Entering`
of a ring that a failed promotion would go back to, and that a version on its way is that of the snapshot being
written. `Checkpointed` and `Replacing` carry the fact through the handlers: after a checkpoint, or when none was
due, the text is `Kept`, and it stays so through the put of the new head (`KeptStays`) up to its commit, where
`NewestNoted` shows that entering the new head leaves the version before it in the ring. Pruning spares the newest
version (`NewestRetained`), and `EpochKept` that no other step is a replacement.

About the node's list it proves, from the same assumption and for the incidents named:

- `ListFollowsRing`: `Incidents \subseteq {"put", "send"}` and `"send" \in Incidents => MaxInstalls = 0` imply
  `Spec => []ListMatchesRing`.
- `HeadStaysReadable`: `Incidents \subseteq {"put", "send"}` implies `Spec => []HeadIsReadable`.

The hypotheses leave out what makes the statements false. After a crash between job and commit, or a job whose answer is
lost, the node is a head ahead of the actor: it lists a version the actor never committed, and lets the actor's head be
deleted. A head install lets a failed send of its own job go (`head.ts`), so its version is in the ring and
in no row until the next one comes. A blob that is lost is a listed version without its bytes.

Why the strengthening. `ListMatchesRing` speaks of an actor at rest and no job left, so `LInv` says where the list will
end. `Ring` is the ring the node has been told of: a snapshot's is in memory once its job is sent, a promotion's is stored
before that, so until then it is the one to roll back to, and a refused send leaves it alone. `Untold` are the version
jobs the node has yet to handle, `Known` the rows it has or will have. `Adding` says that what a send is about to
tell is the ring with one version more. `RowsAreRing`: these
are the ring, less what a person deleted, with versions the ring has outgrown. `FloorIsHead`: no job carries a floor past the
start of the ring and some job, or the node, has it, which is why order does not matter. `Stepped`: the ring rises, so what left it lies
below its start. `RowReaches`: the node's own seq rests on the newest version at least, so what its
window lists is in the actor's window too or at or past the start of the ring (this uses `VERSION_KEEP >= SNAPSHOT_KEEP`).
`BytesAreKept` is then about the actor's pruning alone. `HInv` needs less: the stored head has its bytes, and `Ahead`
bounds the row and every job by what the actor has sent, so a deletion, which is below the row, is below the head.

`DocSyncProofs` proves, for any pages, edits, places for sockets, restores, crashes and flips:

- `ContentsInvariant`: `Spec => []CInv`, the inductive invariant of contents.
- `TypeCorrect`: `Spec => []TypeOK`.
- `QuietPagesAreWhole`: `Spec => []QuietMeansSame`.
- `RolledBackOnlyInOldQueues`: `Spec => ReturningTabsAreFenced`.
- `MirrorsInvariant`: `Spec => []MInv`, the inductive invariant of rights.
- `TheActorFollowsTheRow`: `Spec => []MirrorsAgree`.
- `LevelsInvariant`: `Spec => []KInv`, the inductive invariant of levels.
- `PagesKnowTheirLevel`: `Spec => []PageKnowsItsLevel`.

Assumptions: `MarksAssumption` (no place for a socket and no generation is the mark for none), `BoundsAssumption`,
`TiersAssumption` and `FlipsAssumption` (the tiers and the changes an instance tries are those the code has).

Why the strengthening. `QuietMeansSame` speaks of empty queues; the invariant says what is in full ones. `Links` comes first:
an open socket is of the present generation, a page listens to one socket at most, and the generation is the first frame
on it and comes once, so what a page answers is what its socket was opened with. On it stands `Contents`: what the document
has and a page has not is on its way to the page, or the page has yet to ask (its state vector waits, or the greeting
does), and what the page has and the document has not is on its way up, refused, or yet to be offered.
`Documents`, `SocketContent` and `PageContent` also say where what a restore took out (`undone`) may be: in no document, in
no frame and no page of the present generation but for what was typed `early`. The fence follows: whatever brings an
edit of `undone` back is a frame of an older generation, whose socket is closed. Every step of the actor treats sockets
alike, so one lemma says what may pass on a socket (`Passes`, `PassedOn`), and each handler only shows which frames it sends.

`Mirrors` does the same for rights: a call carries the row as it was when the row changed, so the last of a kind has what the row
has (`Agrees`), and what the actor has may differ only while one of that kind is queued (`Reached`). `Levels` is about the
frames to a page. The last level among them is the one the actor acts on, and a refusal after it denies only what the
level does (`Tells`): a handshake and every change send a level, and each gate that says "locked", "trashed" or "acl" reads the
same flags. It is claimed only of a page whose state vector has been answered, and while no trash call is on its way: a
page that connects brings the flag to the actor ahead of that call, and the other pages are told when it arrives.

The attempts at these proofs corrected what was stated before, all of it about a crash or a lost answer that leaves the
node a head ahead, so that a person may delete what the actor still counts on: `CleanMeansSaved` and
`ReplacedIsVersion` now except a version a person deleted, and `DocStoreFaults` allows a deletion.

Only model-checked: liveness under fairness (`LogDrains`, `EditsArrive`, `AlarmRuns`, `PauseResolves`), which is out of
the prover's reach. Every invariant and action property of the passing runs is a theorem; two of them, about `DocStore`,
with a hypothesis on `Incidents` without which TLC refutes them.

## 7. Findings

Each is a run expected to fail, with one property quoting what the repository says of itself.

1. `DocSyncRestore` (`RolledBackStaysGone`): a frame queued on a socket behind a restore is handled
   afterwards, and `epochAcked` of that socket is still true, so the fence of `sync/gates.ts` lets it merge
   back what the restore took out. (`destroy` latches for this reason; `restoreToVersion` does not.)
2. `HeldPagesRevert` (`NothingLandedIsNotReleased`): approving one item of a held page and then reverting its run
   releases and announces the page although nothing of the change is in it: `tallyRuns` counts
   statuses, which a revert leaves as they are. `api/runs.ts`: "a new page of a change with nothing landed goes."

Statements TLC refutes that are kept beside their module, without a run of their own. To see one, put it in
the configuration given.

| statement | configuration | what the code does |
| --- | --- | --- |
| `ReviewedOnlyIfSeen` | `RunLedgerLevels` | acknowledging an `auto` run marks as reviewed what it receives afterwards (`agents/edits.ts`) |
| `RestoreCanBeUndone` | `DocStoreFaults` | a restore while the head could not be read discards what was typed since: `checkpoint` returns early (`head.ts`) |
| `HeadIsReadable` | `DocStoreJobs` with `Incidents = {"crash"}` | after a crash between job and commit the node is one seq ahead and lets the actor's head be deleted (`api/versions.ts`) |
| `IndexIsCurrent` | `DocStoreJobs` | "every seq since the row's holds this text" is false while a job in between is outstanding (`jobs/index-doc.ts`) |
| `SavedNotesAreListed` | `RunLedgerDisk` | an undo or acknowledgement whose body put fails leaves a stored note on no list (`run-store.ts:496` says it cannot) |
| `NewTierReaches` | `DocSync` with `Flips = {"tier"}`, `MaxFlips = 2` | a page with a ticket of the old tier reconnects at that tier (`doc-actor.ts`, SYNC_STEP_1, says it catches up) |
| `PauseResolves` | `ActorHost` with `Calls <- BothWays`, `Peers = {p1, p2}` | two turns that call each other never end, nor does the pause |

Seen on the way and kept as hazards: a redelivered version job inserts a row a person deleted; an alarm
consumed by a handler that a crash ends is gone; a `pause` rejected by one failing close may drop alarms
set aside after `resume`; two saves of a run within one millisecond tie in the index. The actor is never told that a version was deleted: a
document that returns to the text of its newest version after a person deleted that version is taken for recorded,
and a restore then replaces it without a trace (`ReplacedIsKept` excepts such text; in the model, where no edit
is unsaid, it takes a crash to get there).

## 8. Not modelled, and why

- *RunLedger*, *RunLedgerDisk*: character ranges and fuzzy matching of quotes; comments and thread links;
  two saves with one stamp; partial writes of one row.
- *DocStore*: destroy, authors and titles, mentions, wiki sync, embeddings, forced reindexing, buried jobs,
  failures of SQLite or of deleting a blob. The merge of Yjs updates is a library.
- *DocSync*: agents' sockets, awareness, size limits (a refusal "limit" stands for the rate window and the table
  guard), the persistence notice, sockets of databases.
- *ActorHost*: a `close` that throws, stores written by a newer version, cancelled frames, wake-ups of
  timers longer than the platform allows, more than one call per frame.
- *HeldPages*: the row pages of a held database, creating the page and its failure, a page the owner trashes,
  withdrawing a change, which change a proposal joins, who may decide.
- *Database ledger*: the runs of a database are a ledger of their own over typed operations on rows and columns;
  the largest part of the node's logic still to model.
- *Job queue* (leases, backoff, burying) and *sessions* (rotation of refresh tokens): a module each; only how jobs
  come late, twice, lost or out of order is modelled, where their handlers meet it.
- Pure I/O, rendering, and text algorithms: archive, remote access, wiki, agent surface, HTTP, search, edits.

## 9. Plan

Done: the ledger as handlers and as writes, the store, the pages, the host, held pages; one refinement and its
proof; the theorems of section 6. Next:

1. `DatabaseLedger`, `JobQueue`, `Sessions`: modelled when they can have runs of their own.
