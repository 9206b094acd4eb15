# They Work: a TLA+ specification

They Work draws a pixel office in a terminal in which every coding agent of the
user is a worker. It has two halves. One *acts*: the control host
(`theywork-control`), a background process that starts conversations in a Codex
app-server, sends instructions to it and answers its approval requests. An
instruction sent twice, an approval given to the wrong process, or a receipt
that says "rejected" of something that was done cannot be taken back. The other
*observes*: collectors follow transcripts and stores that others write, a world
is built from what they say, and a loop draws it and takes the user's keys. What
can go wrong there is quieter: a worker that never leaves, a loss nobody admits,
a key that answers another question than the one on the screen. Both depend on
orders of events that tests seldom produce.

Paths below are relative to `src/crates/`.

## 1. Inventory

| Component | Source | State it keeps | Operations |
|---|---|---|---|
| Operation admission | `theywork-control/src/supervisor.rs` `Host::load`, `handle`, `execute` | `ControlSnapshot.operations` (10,000 receipts), `mutations` lock, `state.json` | load with recovery, admit, save intent, execute, settle |
| Provider session | `supervisor.rs` `provider`, `register_thread`, `set_turn`, `apply_event` | threads with capabilities and active turn, `pending_requests` (64), `connected`, `connection_generation` | start, send, interrupt, reply, reconnect; one application per provider event |
| Provider transport | `rpc.rs` | waiters by id, child process, pipes | launch, call with timeout, reply, reader thread |
| State storage | `state_storage.rs`, `security.rs` | initialised flag, latched fault, `state.json`, candidates | load, write, check_health; staged replacement |
| Event stream | `stream.rs`, `supervisor.rs` `apply_event` | 256 events, stream id, sequence numbers | initialise/repair, append, rotate, batched save |
| Snapshot bridge | `bridge.rs` | `BridgeCursor`: lineage, high water, gap ranges, deferred events, roster | reconcile one snapshot |
| Client and host startup | `client.rs`, `run_supervisor` | `startup.lock`, `host.lock`, `endpoint.json`, `config.json` | connect, spawn, serve, wait for endpoint |
| Terminal host | `theywork-tui/src/{main,control_host}.rs`, `theywork-render/src/views/control.rs` | event queue, bridge cursor, poller and job threads; the panel's drafts, selected request, pending command | input, outcomes, batches of events, replacing the sources, lending the terminal |
| Frame scheduling | `theywork-tui/src/{frame_schedule,frame_output,main}.rs`, `theywork-terminal-image` | what the terminal shows, the image held, slow frames | compose, throttle, resize, give up graphics |
| World | `theywork-core/src/{world,collaboration}.rs` | offices, workers, desks, relations, source coverage | apply one event, tick, tree of a worker |
| Conversation history | `theywork-core/src/history.rs` | bounded records and per-project windows | insert, evict, recount |
| Collectors | `theywork-collect/src/{lib,claude,codex_source,util}.rs` | file cursors, per-transcript state, fingerprints | discover, poll, parse |
| Claude correlation | `theywork-collect/src/claude_pending.rs` | tool calls waiting for results, byte and entry accounts | insert, remove, evict, rebase |
| Native consoles | `native.rs` | none | detect programs, build command lines |
| Navigation | `theywork-render/src/{lib,ui_interaction}.rs`, `views/{finder,phone,workboard}.rs` | view, selected floor and person by position and ID, pending requests, panels, visits, reading markers | keys, clicks, resolution by the next frame |
| Rendering | `theywork-render`, `theywork-terminal-image` | sprites, layout | draw |

How they interact. The terminal host talks to the supervisor through a local
socket (`client.rs`): one request, one response. The supervisor serialises
operations with the `mutations` mutex but releases the `state` mutex between
the steps of one operation, because it waits for the provider there. Provider
answers go from the reader thread straight to the waiting operation; provider
events go through a channel to an event thread, which takes the `state` mutex
for each. Both threads save the whole snapshot with `StateStorage`, the event
thread at most every 250 ms. Clients poll the snapshot, live or (when the host
cannot be reached) from `state.json`, and feed it through `reconcile_snapshot`
into the same queue of office events the collectors fill; `World` consumes it,
and a frame is composed from it.

What is hard about it, and what makes each component correct:

* **Crash between effect and record.** The host may die after the provider got
  an instruction and before anything says so. Never send twice; never call
  rejected what may have happened; never act before the intent is durable.
* **A failing save is ambiguous.** It may fail after the rename, so disk and
  memory disagree, and the fault must latch.
* **Two threads learn of one turn.** The acknowledgement and the turn's own
  events arrive in either order, and the connection may end in between.
* **Ids live on one connection.** Approval ids mean nothing to a later process.
* **Sequence numbers are shown before they are saved.** A crash frees numbers
  that clients have seen.
* **The client changes between live and saved snapshots**, which may go back
  in time within one lineage.
* **What is observed changes while it is read.** A poll of a store is several
  queries, a poll of a transcript several system calls; files are appended to,
  rewritten, replaced; two halves of one fact are in two files.
* **Events are sorted by the time they carry**, not by the order they were made.
* **The user acts on a picture that is older than the state.** A key must act on
  what was drawn; a draft must stay with its recipient while receipts, requests
  and restarts move the panel under it.
* **What a key names may be gone when it acts.** Keys and clicks name floors,
  people and records of the last frame; the next frame resolves them against a
  roster that has changed.
* **A terminal is written as differences.** Whoever clears it, draws over it or
  moves an image must make the difference forget what is gone.
* **Bounded everything**: 10,000 receipts, 64 approvals, 256 events, gap ranges,
  deferred events, 512 history records, 8192 waiting calls, candidates of
  failed saves. What falls out must be admitted and counted.

`PROJECT.json` lists each hazard with its line and the properties that cover it.
The list is kept to the forty that matter most; section 8 names the others.

## 2. Modules

| Module | Models | Extends | Checked by |
|---|---|---|---|
| `OperationLedger` | abstract: what the ledger of operations promises a caller | | refined by `Admission` |
| `Admission` | admission, intent, effects, crash, restart, timeouts | | `MCAdmission`, `AdmissionProofs` |
| `ProviderSession` | conversations, turns, approvals and connections | | `MCProviderSession`, `ProviderSessionProofs` |
| `StateStorage` | the staged replacement of `state.json`, one system call a step | | `MCSnapshots`, `SnapshotProofs` |
| `EventStream` | lineages, numbering, batched save, restart | | `MCSnapshots`, `SnapshotProofs` |
| `Bridge` | one client's cursor over live and saved snapshots | `EventStream` | `MCSnapshots`, `SnapshotProofs` |
| `HostStartup` | callers that find or start the host of one directory | | `MCHostStartup`, `HostStartupProofs` |
| `HistoryStore` | the bounded history and its windows | | `MCObservation`, `WorldProofs` |
| `Kinship` | the relations between workers and the tree drawn of them | | `MCObservation`, `WorldProofs` |
| `World` | offices, desks, workers, beats, source coverage | `Kinship`, `HistoryStore` | `MCObservation`, `WorldProofs` |
| `CodexSource` | the poll of the Codex store, and the world that applies its batches | `World` | `MCObservation`, `WorldProofs` |
| `ClaudeRoster` | who is followed in Claude transcripts, and who delegated to whom | | `MCObservation`, `CollectorProofs` |
| `TranscriptTail` | reading one transcript while it changes | | `MCObservation`, `CollectorProofs` |
| `PendingStore` | tool calls waiting for their results | | `MCObservation`, `CollectorProofs` |
| `ControlPanel` | drafts, requests and commands of the panel, key by key | | `MCOffice` |
| `OfficeLoop` | the main loop with the poller and the job thread | `ControlPanel` | `MCOffice`, `OfficeLoopProofs` |
| `Presenter` | how a frame becomes a screen, with and without images | | `MCObservation`, `ScreenProofs` |
| `Navigation` | floors and people that keys, clicks, finder, phone and notebook name, and the frame that opens them | | `MCObservation`, `ScreenProofs` |

An `MC` module gives one or several of these modules small constants. Where it
holds several (`MCSnapshots`, `MCObservation`, `MCOffice`) a variable `part`
says which one moves in a behaviour, so the instances add up instead of
multiplying; it is chosen initially and never changes.

## 3. What each module says

### Admission

`operations` and `saved` are the receipts in `ControlSnapshot.operations` and in
`state.json`; `canonical` says whether that file can be read (`valid`), holds
something else (`corrupt`) or is missing (`lost`); `fault` is the latch of
`StateStorage`; `inflight` is what was written to the provider and not
performed; `performed` counts, per operation, what the provider did. `phase` and
`current` are the place of the handler that holds `mutations`, and its
operation. Each step of the handler that waits, saves or writes is an action of
its own, so a crash, a save by the event thread or the provider may come between
any two.

The provider is external: it may perform an instruction at any time after it
reached the pipe, answer, answer with an error or never answer. A write that
fails may have delivered the whole line, and a timeout may expire before the
answer arrives. A save may fail before it changed the file or after.

`OperationLedger` is the abstract specification, about one idea: a receipt is
first absent, then `Sending`, then settled for good while the host lives; and
`Rejected` is only said of what was never performed. `ImplementsPromise` states
that `Admission` implements it.

### ProviderSession

The snapshot's fields are variables of the same names (`known`, `managed`,
`authority` and `active` are the fields of `ManagedThread` that control depends
on). `pc`, `op`, `seen` and `answer` are the handler: `seen` is the copy of the
active turn it took under the lock and uses after it. `commands`, `loaded`,
`running`, `asked` are the provider process; `queue` is the channel to the event
thread and always ends with `eof` after `Die`. `window` keeps of each retained
event only what `set_turn` looks for: which turn it completed. Two variables are
for the properties only: `written` records replies, and `missed` the turns whose
completion was pushed out of the window while the handler, already acknowledged,
had not yet called `set_turn` (`DropsAwaited`). Only these may be shown though
they are over.

### StateStorage

One action per system call of `write_private_impl`: create and write the
candidate, sync it, rename it, sync the directory, read it back. `file`, as
processes see it, and `durable`, as a power loss leaves it, differ until a sync;
a power loss may keep or lose any unsynced step; a process death keeps all of them. The file may also be damaged
or removed by somebody else (`Disrupt`), or put back (`Repair`).

### EventStream and Bridge

`EventStream` keeps the live and the saved snapshot: lineage, retained events,
high-water mark. An event is identified by its place in the history of what the
provider said, so the property that "a number means one event" can be stated
over all snapshots any client ever saw. An event is about a conversation or,
like a notice of the account, about none (`NoThread`). `revision` counts, as a
ghost, every change of the roster: events make some, and `Revise` and `Learn`
stand for those that no number tells of (`register_thread`, `set_turn`, a
transport that ends or is replaced, an operation). `Bridge` adds one client: its
cursor, the batch it produced and the roster it has shown. `PollLive` is the
poll through the socket; `PollSaved` the fallback to the file.

### HostStartup

Several calls of `connect_or_spawn` share one directory; each may have a
provider home of its own, and each may start a host, which is named by the call
that started it. `startup` and `lock` are the two lock files, `config` and
`endpoint` the two JSON files, and every system call between them is an action,
so a caller or a host may die, and a deadline expire, between any two. A host
that dies releases its lock and leaves `endpoint.json` behind, and the port it
names may pass to the next host.

### HistoryStore, Kinship and World

`records` is the store of `history.rs` with the counters each project's window
keeps. An insertion may replace a record of the same key, evict the oldest of
the project that holds most, or open and forget windows. `Kinship` keeps the
relationships between workers and derives the tree the office draws: an edge
that would close a cycle of explicit records is refused, and there is a limit
after which records go. `World` applies one event of a collector per action,
with the record of a worker in one of two places: at a desk, or retired. `Tick`
is the clock that makes workers idle and offline. Names and appearance are
left out; a project is its number, and the order of numbers is that of names.

### CodexSource

A poll is three queries without a transaction: `ReadRoster`, then `ReadTurns`,
then `ReadItems`, which makes the batch. Between them, and between polls, the
external store may list, unlist, move, update and end what it likes, and each
may find the store unreadable. The batch has departures, arrivals, items, turns
and what a turn says of the life of its thread; an item that is a user message
(`UserItems`) begins a turn as well, at its own time. All are sorted by the time
they carry, and `queue` is applied to `World` one event at a time. A turn that
completed is dated by its end, one that failed or was interrupted by its start.
`prints` are the fingerprints by which an item that was seen is not told again.
`asked` is a ghost: the threads with a user message newer than the turn that was
read with it, or read when the turn had not changed. They are shown at work
although the turn that was read last may be over.

### ClaudeRoster and TranscriptTail

`TranscriptTail` follows one file: its content, inode and modification time
change between any two of the system calls of `read_file`, and a poll reads in
chunks from its offset. A file may fail to open (`Fail`), its tail may be
unreadable, and a reading may break off anywhere (`Break`), which keeps what was
read and no checkpoint of it. `lines` are the lines parsed, `consumed` a ghost
of the bytes they stand for, and `trust` a ghost that says whether the file was
written anew since and whether a comparison has vouched for what was read before
it went on. `ClaudeRoster` has several files of one session, each read from its
beginning whenever it is found, and of which a poll reads any prefix of the
lines not read yet; `seated` is the roster the office was told, `joined` the
delegations it knows. A file may be followed under its file name until a line
names its agent.

### PendingStore

Entries, index by age, bytes per cursor and in total, as `claude_pending.rs`
keeps them, with every operation: register, insert, conflict, result, evict for
the cursor's or the store's limit, rebase the ordinals, close. `awaited` is a
ghost: which calls a transcript waits for.

### ControlPanel and OfficeLoop

A key of the panel is an action: compose, type, send, review, choose, answer,
leave, reopen. `drafts` holds one text per recipient, each labelled with the
recipient it was written for (a ghost, for the properties). `OfficeLoop` walks
one iteration of `run`: input, latest status, outcomes, events, drawing; the
poller and the control host's job thread run between any two of its steps.
Events carry numbers, so that what reached the world can be compared with what
was made. Choosing other sources, or lending the terminal to a console,
replaces both threads, and with them what they had not handed over.

### Presenter

One row of a terminal: `screen` is the text and the pixel of each column,
`buffer` what ratatui believes it drew, `presenter` the `TerminalImagePresenter`
with the text it believes is written. A frame is composed as the code does:
remove, throttle or place the image, then write the difference. Kitty's images
lie under the text, Sixel's are replaced by it. `drawn` is the frame that should
be seen; `blanked` records that the screen was cleared under a text the
presenter takes for written, which is finding 6 below.

### Navigation

`selection` holds the selected floor and person, each by position and by ID, as
`Ui` does; `pending` is what a key or a click left for the next frame: a person,
what the finder found, the controls. `known` and `targets` are what the last
frame left behind and what the next key or click acts on. `Draw` is `Ui::draw`
in its order: the find, the floor, the person that was asked for, the visit, the
selected person, the controls, the lists of the panels, the offers. `shown`,
`named`, `steered` and `stay` are ghosts: what the last frame showed, who was
asked for by name since, whether a key moved the selection, and when visits
ended.

## 4. Runs

| Run | Instance | Shows |
|---|---|---|
| `admission` | three operations, requests of each kind (start, send, reply), a ledger of two receipts, crashes, failing saves, damage to the file | at most once, durable intent, truthful receipts, every operation settles, implements `OperationLedger` |
| `provider_session` | one owned and one spawned conversation, 2 turns, 2 connections, 2 requests, 1 pending request kept, window of 3 | approvals stay on their connection and are answered once, spawned conversations are never controlled, in quiescence the snapshot agrees with the provider, but for a turn in `missed` |
| `host_startup` | three of 4 calls, each with its host: two of one directory and one of another on 2 ports, or three of one directory, also on 2 ports, of which the first caller's host takes the first; 2 homes; with fairness | the serving host is the one `endpoint.json` names; a caller is answered by a host of its own directory and home; a directory never passes to another home; every call returns |
| `snapshots` | window of 2, numbers end at 6, legacy files, conversations that become known at any time and one other change of the roster that no number tells of; "lineage": 3 events about 2 conversations or none, 3 lineages; "gaps": 6 events about one conversation, 2 lineages, 1 gap range; "storage": 5 versions, 2 disruptions | truth of numbering, each observed event about a conversation shown once or accounted for, gaps exact, the roster goes back over no event; an acknowledged save survives, memory is current |
| `observation` | fifteen parts, below | what the office shows is what the sources said, or admits what is missing; the screen shows the frame; a frame opens who was asked for |
| `office_loop` | "events": 4 control events, one of another project, and 2 source events; "drafts": 2 tasks and a new one, 2 texts for one of them; "answers": 3 requests of 2 workers | events reach the world once and in order; receipts, choices and commands act on what they were meant for; commands end |
| `disconnected_uncontrolled`, `reply_connection`, `sent_means_written` | as `provider_session` | **violated**, findings 1-3 |
| `codex_left_moved`, `office_restored` | as `observation` | **violated**, findings 4 and 6 |
| `drafts_keep_recipient` | as `office_loop`, one text | **violated**, finding 5 |

The parts of `observation`:

| Part | Instance | Properties |
|---|---|---|
| history | 3 projects, 3 keys, 2 times, a store of 2 records and 2 windows, 5 insertions | `LossDisclosed`, `FairShare` |
| kin | 3 workers, every kind of relation, 2 times, 3 relations kept | `KinshipSound` |
| roster | worker 1 with every event, another that comes and goes, 2 offices, 1 retired record | `RosterAgrees` |
| coverage | every combination of 2 streams and 2 epochs with and without loss | `LossNeverForgotten` |
| beats | 2 beats kept, 3 times out of order | `RosterAgrees` |
| codex | 2 threads (workers that no other part seats), 2 projects, 2 items, one of them a user message, 2 turns, a tail of 1, 5 steps of the clock | `StoreFollowed` |
| pending | 2 transcripts, 2 ids of 1 byte, 3 calls, limits 2 and 3 entries, 3 and 5 bytes, ordinals end at 4 | `AccountsExact`, `LossAdmitted` |
| tail | bytes and newlines, chunks of 2, lines of 1, a checkpoint of 2, files of 3, 1 replacement, any number of rewrites and of readings that break off | `TailExact` |
| screen | 1 or 2 columns, 2 areas, 2 images, Kitty, Sixel and none, 2 actions (the second with the smaller image), graphics given up at the first slow frame | `ScreenShowsFrame`, `ClicksAsShown` |
| claude | 3 files, 3 lines in all, 2 correlations, 1 remembered call | `SessionsFollowed`, `DelegationsJoined` |
| keys, finder, phone | 2 floors, 2 people that come and go; one change of the world and one key or click (with a find, three) between two frames | `FrameShowsChosen` |
| marks | 3 records, one of them of somebody who is not there, 1 marker of each kind; a click on a row after a key that switched the channel; who asks for attention changes while that channel is shown | `MarkersFiled` |
| visits | 3 records, 3 moments | `SinceLastVisit` |

Bounds. The limits of the code (256 events, 64 approvals, 10,000 receipts, 512
records, 8192 calls, `u64::MAX`) are CONSTANTS, and the runs choose them so
small that they are reached: a window of two or three drops events between two
polls, numbers and ordinals that end early make the stream roll over and the
index rebase, a history of two records for three projects has to choose whose
record goes, one retired record makes the next departure forget the last. The
other bounds (`MaxTurn`, `MaxConnection`, `MaxVersion`, `MaxStreams`,
`MaxClock`, `MaxMade`, `MaxBytes`, ...) only end the run. Two connections are
the least with which an id can be reused, two turns the least with which a
completion can be confused with a later start, three lineages allow a restart of
a restart, three workers are the least for a cycle through a third, three
projects the least with which a fair share is not a half, two columns the least
with an area beside text, and three transcripts the least in which a delegate
delegates. Every property has a mutant of the mapped code that the same run
refutes, so each bound is large enough for the property to fail. Symmetry is
used for the conversations of `snapshots` only, whose properties are all
invariants and action properties that treat them alike.

Fairness. Three liveness properties. `EveryOperationSettles`: the specification
of `Admission` assumes weak fairness of the handler's steps - a thread of the
host is scheduled, `recv_timeout` (`rpc.rs:96`) bounds each wait, and a save
returns. It also assumes that a write to the provider returns, which the code
does not ensure: `rpc.rs:111` writes to a pipe without a timeout while
`mutations` is held. The provider and the disruptions have no fairness.
`EveryCallReturns`: `HostStartup` assumes weak fairness of each call's own steps
and strong fairness of its timeout, since the clock reaches the deadline of
`wait_for_endpoint` whatever happens in between; nothing is assumed of hosts,
which may hang or die. The number of calls is finite there: who waits for
`startup.lock` waits without a deadline, and an endless stream of other callers
could overtake it for ever. `SendingEnds`: `OfficeLoop` assumes weak fairness of
the loop, which does nothing that blocks but drawing and input with a timeout,
and of the job thread while it has a command (the call it makes to the host has
a timeout, `client.rs`).

Deadlock is checked in `admission`. It is off in the others, whose instances end
at their bounds; a host whose storage failed and a program that was quit really
stop, too.

## 5. What the violated runs show

1. `DisconnectedMeansUncontrolled`. `tests/control.rs:717` states that nothing
   stays controllable once the provider is gone. The event thread applies the
   disconnect; the operation that already holds an acknowledgement from that
   connection then writes authority or an active turn into the snapshot. The
   next Send launches a provider that never loaded the conversation; a stuck
   turn makes Reconnect refuse.
2. `RepliesStayOnConnection`. The reply's transport is asked for after the
   request was checked (`supervisor.rs:463-497`); `provider()` replaces a dead
   transport, and the old id goes to the new process. `model.rs:107` says ids
   are never reused across connections.
3. `SentMeansWritten`. `reply_sent` is set before the save and the launch that
   may fail (`supervisor.rs:482-497`). The receipt then says that the reply was
   not sent, and the mark refuses every further reply.
4. `LeftMeansEnded`. A Codex thread whose project changes is reported as left,
   at the time of the poll, and as seen elsewhere, at the time of its last
   update; sorted by time, the departure comes last, and the running thread
   leaves the office (`codex_source.rs:449-486`, `720`).
5. `DraftKeepsRecipient`. Opening the requests changes the task the panel is
   about and leaves the text in it (`control.rs:307`): the draft is remembered
   under, shown for and sent to another task than it was written for.
6. `OfficeRestored`. The terminal is cleared after a console and after the
   source screen, but what the presenter takes for written is forgotten only
   when an image was shown or the size changed (`main.rs:2436`): a view without
   art stays blank but for what changes.

## 6. What is proved

Every theorem is for all values of the constants that satisfy the named
assumptions of the modules.

| Module | Theorems | Inductive invariant |
|---|---|---|
| `AdmissionProofs` | `TypeCorrect`, `AtMostOnceCorrect`, `DurableIntentCorrect`, `ReceiptsTruthfulCorrect`, `ReceiptsOnlySettleCorrect`, `PromiseImplemented` | `IInv` (`Invariance`) |
| `ProviderSessionProofs` | `PendingCurrentCorrect`, `NoControlOverChildrenCorrect`, `ReplyOnceCorrect`, `OffersAreOpenCorrect`, `TurnViewAgreesCorrect`, `TypeOKCorrect` | `Typed`, `Owned`, `InChannel`, `ReplyInv` and those named below |
| `SnapshotProofs` | `StorageTypeCorrect`, `AckedSurvivesCorrect`, `MemoryCurrentCorrect`, `CandidatesBoundedCorrect`, `FaultIsFinalCorrect` | `StorageInv` (`StorageInvariance`) |
| | `LineageTruthfulCorrect`, `WindowValidCorrect`, `GapsExactCorrect`, `DeferredAccountedCorrect`, `ProjectedOnceCorrect`, `ViewAdvancesCorrect` | `IInv` (`StreamInvariance`), `ClientInv` (`ClientInvariance`) |
| `HostStartupProofs` | `TypeCorrect`, `ServingIsNamedCorrect`, `AnsweredByOwnHostCorrect`, `HostOfOwnHomeCorrect`, `DirectoryKeepsHomeCorrect` | `IInv` (`Invariance`) |
| `WorldProofs` | `HistoryTypeCorrect`, `LossDisclosedCorrect`, `FairShareCorrect`, `RosterAgreesCorrect`, `LossNeverForgottenCorrect`, `AcyclicCorrect`, `KinshipSoundCorrect`, `WorldKeepsHistory` | `HistoryInv` (`HistoryInvariance`), `RosterInv` and `KinInv` (`PeopleInvariance`) |
| | `StoreFollowedCorrect` | `CodexInv` (`CodexInvariance`) |
| `CollectorProofs` | `SessionsFollowedCorrect`, `DelegationsJoinedCorrect` | `CollectorInv`, `DelegationsInv` |
| | `AccountsExactCorrect`, `LossAdmittedCorrect` | `PendingInv` (`PendingInvariance`) |
| | `TailExactCorrect` | `TailInv` (`TailInvariance`) |
| `OfficeLoopProofs` | `ChoiceWasShownCorrect`, `ReceiptClearsOnlySentCorrect`, `EventsExactCorrect` | `HitsShown`, `PanelInv`, `EventsInv` |
| `ScreenProofs` | `ScreenShowsFrameCorrect`, `ClicksAsShownCorrect` | `PresenterInv` (`PresenterInvariance`) |
| | `MarkersFiledCorrect`, `SinceLastVisitCorrect`, `FrameShowsChosenCorrect` | `NavInv` (`NavInvariance`) |

None of the properties is inductive as it stands. What the invariants add:

* **Admission**: that nothing was performed twice says nothing of an instruction
  still in the pipe, nor of a receipt a restart will find. An operation in the
  pipe or performed has a receipt in `state.json` while that file is intact; the
  handler's place determines how many instructions of its operation can exist;
  only the handler's own operation has an unsettled receipt in memory; a receipt
  that says `Rejected` belongs to an operation of which nothing is in the pipe
  and nothing was done. The refinement follows from the invariant.
* **ProviderSession**: children get no authority because no command the handler
  is about to write, no command in the pipe and no answer names one (`Owned`);
  pending requests are current because events in the channel belong to the
  connection that is alive until its `eof` (`InChannel`); one reply at most,
  because request numbers are handed out once (`Numbered`), what is in the
  channel was not answered (`Fresh`) and what was answered is marked (`Marked`).
  What is offered is open or about to close: for every pending request that the
  provider has closed, the event that closes it - its resolution, the completion
  of its turn or the end of the output - is still in the channel, behind the
  request itself (`OffersSettle`). The snapshot's turn is right once the channel
  is drained because, while it is not, the channel holds for each conversation
  that differs the event that will correct it (`View`, by cases: just attached,
  ending, settled), because a turn starts and completes once (`TurnsOnce`,
  `Lives`), and because an acknowledgement is shown only after the window was
  searched for the completion that overtook it (`Acknowledged`): that completion
  is in the channel, in the window, or `missed`, which is the one exception. The
  type invariant needs the bounds of the window and of the pending requests as
  well (`Shaped`, `PendingBounded`).
* **StateStorage**: saves come in order, the copies that a power loss may leave
  are in order too, and a host that runs has evidence that its memory is the
  newest version acknowledged.
* **EventStream**: the numbers of the live lineage are at most `live.last`, no
  lineage beyond `streams` was used, and a saved window with a lineage is valid;
  lemmas about the operators carry this over a restart, the repair of an older
  file and the exhaustion of the numbers.
* **Bridge**: a valid window is an interval of numbers, so what a poll observes
  and what it reports missing are intervals that meet: together they are exactly
  the numbers from the first it opened to the one applied (`Track`). Each event
  about a conversation that is observed has a number of its own behind the
  cursor, so it enters the books of its lineage - deferred or projected - once
  (`Books`); one about none enters only `seen`. Of the rosters of one lineage -
  in memory, on disk and on show - none that changed less often has seen more
  events (`Behind`, `InOrder`), so a poll that goes back goes back over none.
* **HostStartup**: the place of each call and each host is tied to the locks it
  holds and the files it has seen.
* **HistoryStore**: a project that lost a record has a window that says so, or
  the store says that windows were forgotten. For `FairShare` the victim is the
  project that holds most, which exists because finite sets of numbers have
  least elements, and by counting - an injection of the records into as many
  copies of its share as there are projects - it holds at least its share.
* **Kinship**: one adds that relationships join two different workers. If an
  admitted relationship made a cycle, what stood above its parent before is
  closed under all links, the new one included, so the cycle or the refusal was
  there before (`AcyclicGrows`). For the tree, the walk that draws it has an
  invariant of its own (`Walked`): no worker has two rows, each row and each
  entry that waits hangs one step below a row already drawn with only deeper
  rows between, and every child of a row that is not passed over is drawn or
  waits. A step draws a row, whose records then are no longer ahead, or drops an
  entry, so the steps are enough (`StepsLeft`, `TreeIsWalked`). Nobody is missed
  by passing over members: only those are passed over who descend by explicit
  records, and along these records the walk reaches them (`TreeSound`).
* **World**: everyone present sits in the one room of their office, with one
  record, and the index of desks names exactly those; the retired have no desk.
  Whatever is noted first seats its worker, and the four ways to do so - there
  already, moved, returned, new - have one result (`SeatedShape`); departures
  take desk and seat together (`RetireStep`), and counting who is ahead of whom
  shows that the limit holds (`ForgottenLimits`). `LossNeverForgotten` follows
  since only an observation changes what is known of the sources, and a merge
  keeps every loss (`ToolMerges`, `StreamMerges`).
* **CodexSource**: that the office follows the collector holds when nothing is
  on its way; what is invariant (`CodexInv`) is that for whatever the office
  does not show yet - a desk, an open or closed turn, somebody who should be
  gone - a message is in the queue, and that no message says otherwise of a
  thread that never moved (`Says`). A poll starts when the queue is empty, so
  the batch need only have a message for each difference between two rosters
  (`BatchTells`); sorting loses none since the places of a finite order are
  filled one by one (`PlacesFilled`, `ByTimeIn`). Whether a thread is shown at
  work is what the last message about it in the queue says (`Settles`,
  `Confirms`): of the message of a user and of the turn read with it the later
  one decides, and `asked` records which. Applying a message settles its own
  thread and keeps the records of all others (`MessageApplied`, from what
  `NotedStep` says of any event): a message without a turn keeps the turn of
  whoever is at home.
* **ClaudeRoster**: reading only goes on from where it was (`Goes`) and
  transcripts only grow, so what was read keeps saying the same (`Unaltered`),
  and a transcript without a new line keeps its name. Since a call is made once
  (`CallsOnce`), what the collector remembers of links and calls is what the
  lines that were read say (`LinksKnown`, `CallsKnown`), and the poll that reads
  the second half of a pair finds the first. The assumption that a name is not
  the value that stands for no name is part of the module's constants.
* **TranscriptTail**: the lines that were parsed are those of the bytes that
  were consumed, however the chunks cut them (`ReadSoFar`). That these are bytes
  of the file is not invariant, for the file may be replaced at any moment; what
  is invariant is that the file agrees with them before the offset unless its
  identity already tells that it is another one, in which case the next poll
  starts anew (`Waiting`, `Examined` and `Reading`, by where the poll is).
  Written anew in place, it may disagree until the last bytes that a checkpoint
  keeps are compared on the next poll (`trust` is "changed"); where that
  comparison says nothing, because an earlier reading broke off or the tail
  cannot be read, nothing more is known (`trust` is "lost") until the file is
  read anew.
* **PendingStore**: a sum of bytes does not depend on the order in which it is
  taken (`BytesAddUp`), so what leaves the entries leaves the accounts
  (`BytesWithout`, `BytesReplaced`, `BytesDifference`). An eviction keeps the
  accounts and admits its loss (`EvictKeepsAccounts`), and it leaves one entry
  less, so each of the two loops ends, with room for what comes (`RoomMade`). An
  empty store has room because what does not fit at all was refused before. The
  ordinals that `rebase_ordinals` gives are the ranks of the old ones: distinct,
  in the same order and below the next (`RankGrows`). A call that waits is still
  there or gone with a loss, in each step (`Carried`).
* **OfficeLoop**: whenever keys are taken, what can be chosen is on the screen
  (`HitsShown`); while a draft is under way the text in the composer is also
  remembered for somebody (`Kept`, in `PanelInv`). No event is lost or doubled
  because the world's log, the queue and the results put together are only ever
  extended by what a cursor passes over; that sorting a batch keeps each
  source's order is a lemma about the minimum of a finite set (`Sorted`).
* **Presenter**: every pixel belongs to the image that is held (`PixelsOwn`),
  the text and the image that are held belong together (`Held`), every column
  shows what the last text says of it (`TextTrue`), and what is held is the last
  frame (`Holds`). Three lemmas show it for a frame whose image stays, comes or
  goes, and one for text alone.
* **Navigation**: who was asked for by name is the person or the find that is
  still pending (`AskInv`); unless a key moved the selection it is what the last
  frame showed (`SelectionInv`); the rows of the notebook are of the channel
  whose "Mark" can still be clicked (`NotebookInv`), so an attention never files
  a delivery; baselines and dates say when visits ended (`VisitInv`). Keys and
  clicks keep these one by one; a frame brings them up to date whatever the
  world has become (`DrawKeeps`). Of sorting and filtering the proofs need that
  `FlattenSeq` and folds yield sequences of what they were given, by the least
  length that fails (`FlattenIs`). The first attempt failed on the ghost
  `named`, which forgot a person on the phone when only the find was withdrawn;
  the small runs could not tell, the module now can.

Three proved invariants have no run of their own, since they support others:
`CandidatesBounded`, `FaultIsFinal` and `PendingCurrent`.

Only model-checked: the liveness properties `EveryOperationSettles`,
`EveryCallReturns` and `SendingEnds`, since fairness is outside the prover's
reach. Every other property of the passing runs is a theorem. No module declares
a recursive operator.

## 7. Not modelled, and why

* **Drawing** (`theywork-render/src/{views,sprite,font,canvas}`, most of
  `theywork-terminal-image`): about half of the lines of the repository.
  Sprites, layout and the encoding of pixels are functions judged by eye; a
  model would repeat them line by line. What drawing must do for correctness -
  that the screen shows the frame and that keys act on what was shown - is in
  `Presenter` and `ControlPanel`.
* **Parsing** (the event parsers of `claude.rs`, `codex_source.rs` and
  `codex_control.rs`, `bridge.rs` `project_event` and `item_events`): wording
  and shapes of JSON. A line is a record of what it says; what a malformed line
  is skipped for is not modelled.
* **Discovery, preferences, options, installers, native consoles**: reading of
  paths and environment without state that persists.
* Therefore the definitions stand for well under a third of the
  implementation's lines: nearly all of its lines that keep state over time, and
  few of those that draw, parse or format.

## 8. Abstractions and known limits

* `ProviderSession` is one life of the host; restarts are in `Admission` and
  `EventStream`. A request always names its turn there, and request ids within
  one connection are those the provider numbers.
* The provider is external everywhere and modelled by how the code uses it:
  answers, events in order, refusals, death at any moment.
* Contents (prompts, texts, schemas, `validate_reply`, the 16 MiB bound of a
  snapshot) are not modelled: a check that may fail is a choice.
* `StateStorage` is the Unix variant; access-control lists of Windows are not
  modelled, nor a read error that goes away by itself, nor two reads of one load
  that disagree (`state_storage.rs:113`).
* Of a host's configuration `HostStartup` keeps the provider home only, and the
  authentication of an answer (token, protocol) is that the answering host is
  the one that wrote the endpoint.
* `Bridge` counts deferred events where the code also counts their bytes; it
  models one source; the projection of an event to office events is one step.
* `TranscriptTail` lets the writer append and replace at any moment, but rewrite
  in place only between polls; two files never share an identity. A reading that
  fails halfway (`claude.rs:917`) or cannot go to its offset (`claude.rs:909`)
  keeps the offset and the unfinished line it has reached, with the checkpoint
  of the reading before. When the file is then rewritten, that checkpoint is of
  another offset: it mostly differs, and the file is read again from its
  beginning, or there is none, and the old lines stay before the new ones. The
  second is the exception that `TailExact` names.
* `ClaudeRoster`: workers whose files vanish while the projects cannot be read
  are never dismissed by the collector (`strays`); the world's clock makes them
  go offline. `SessionsFollowed` excludes them.
* `StoreFollowed` excludes threads that move (finding 4) and that go while the
  store is unreadable. A thread counts as at work when a user message came to
  light after its turn or is newer than it: a turn that failed is dated by its
  start (`codex_source.rs:797`), so the message that began it, read in the same
  poll, comes last and leaves the thread shown at work. Completed, failed and
  cancelled turns end a life alike and are one case. Tokens, coverage, errors
  and the wait of an automatic review (`codex_source.rs:659`) are not modelled.
* An event about no conversation (`bridge.rs:141`) is observed and passed over;
  it is neither projected, deferred nor counted, and `DeferredAccounted` does
  not count it.
* `ViewAdvances`: a roster has no age but the number of its last event. What
  changed without one may be undone on screen by a file saved before the change.
* `Navigation` lists the records of conversations under "Changes", and not the
  beats of workers (`workboard.rs:526-564`), which obey the same baseline and
  are sorted among them.
* `ReceiptClearsOnlySent` is stated while texts are at their recipients, since
  finding 5 moves them. Pasting into an expired panel (`control.rs:737`) and the
  turn a submission expects from a status not yet drawn (`control_host.rs:113`)
  are left out.
* `Presenter` draws one row, and a frame whole; a terminal that shrinks and
  grows between two frames is not modelled, since what it keeps is its own
  affair.
* Hazards of lesser weight that no property covers: the order of siblings in the
  tree of `world.rs`, the activity a retired worker keeps, the sorting of Claude
  events by source time (`claude.rs:325`), and that a request dropped beyond 64
  (`supervisor.rs:862`), which `last_error` tells of until the next error, can
  not be answered from the panel.
