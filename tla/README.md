# TLA+ models of the riseonly desktop client

This directory specifies the riseonly desktop client, a Rust application, in
TLA+: the connection and the request/response correlation over it, the engine
with its durable outbox and encrypted store, the accounts and their credentials,
the repositories behind the screens, the window and its navigation, the media
schedulers and caches, the text field, and the updater. The specifications are
checked with TLC on small instances, and the central properties are proved with
TLAPS for every value of the constants. `PROJECT.json` lists components, runs,
mutants, theorems, hazards and, for every definition, the lines of code it stands
for.

## 1. The system

The client is a GPUI application over a Tokio runtime. Feature modules own their
state in an *actor*: one task that takes commands from a bounded channel and
handles each to its end, awaiting the server inside the handler, and publishes a
snapshot. All traffic goes through one WebSocket.

```
 views -> feature actors -> RiseWire::call -> command channel -> socket host -> gateway
   |         |                  ^  slot table                        |
   |         |                  +---------- accept(frame) <----------+
   |         +-- auth actor: secure store, accounts.json, Authenticate(credential)
   |         +-- debouncers: a later command into the actor's own channel
   +-- navigation, overlays, leases of what is on screen (per frame)
   +-- text field, playback slots, textures, rasterised frames
 engine: lease + file lock -> store thread -> batches -> broadcast of revisions
 composition root: account and connection changes fanned out to the modules
```

### Inventory

| Component | State | Operations | What is hard | What makes it correct |
|---|---|---|---|---|
| Socket host (`core/engine_bridge`) | command channel, offline queue, credential, attempt, connection | connect, wait, drain, pump, heartbeat, authenticate, shutdown | backoff against commands, drops in the middle of a write, a full channel | a frame goes out under the right credential and once; the host ends up connected |
| RiseWire (`rise_wire`) | slot table, request ids | call, accept, fail_all_pending | late answers, timeouts, dropped futures, slots drained between insert and send | an answer reaches its own caller; no slot leaks; every call ends |
| Durable outbox (`rise_sync`) | rows with state, attempt, claim token | enqueue, claim, complete, fail | stale reports after a reconnect, lanes, backoff | one in flight per lane; one landing per operation; no early retry |
| Request ids (`rise-core`) | logical clock and sequence | next | a clock that goes back, threads that enter with swapped readings | ids increase |
| Encrypted store, engine open (`rise_store`, `rise_engine`) | lease, file lock, schema version, verifier, rows, revisions | open, prepare, submit, read, observe, close, drop | a second opener, a crash during preparation, a batch refused half way, a reader that fell behind | one owner per account; whole batches; a reader that has heard everything is current |
| Debouncer (`rise_task`) | pending task, burst start | send, flush, cancel | a fired task waiting for room, abort by a newer edit | the newest edit is delivered, in time |
| Upload progress (`rise_upload`) | last reported per upload | report, forget_terminal | sends outside the lock | receivers are never far behind |
| Auth actor (`modules/auth`) | accounts, active account, token pair, secure store, accounts.json, socket credential | restore, sign in, refresh, switch, sign out | refresh while anything fails, two stores, a crash between them | whole session, agreeing stores, nobody dropped without a reason |
| User actor (`modules/user`) | profiles, generations, committed relationship, debouncers | load, toggle, commit, reset, change of viewer | a read or an account switch between a press and its commit | the button tells the truth and mutates as the account that pressed |
| Presence, composition root | desired sets per owner, subscribed union | set_desired, resubscribe, reset | overtaking requests, a reconnect nobody sees | what is on screen is subscribed |
| Posts, session list | pages and rows, rollback snapshot | load, page, interact, terminate | overlapping pages, rollback over a newer state, account switch | lists show what the server has, each row once |
| Active screens | leases, claims, cycle | appear, vanish, claim, evict | eviction inside a cycle | a refresh is granted once per cycle |
| Navigation, window (`root_view.rs`) | stacks, history, layout, overlays, views, leases | open, back, forward, resize, sign in and out | a handler that does not mark the screens; layout changes between back and forward | forward undoes back; leases, overlays and fields tell one story |
| Video and audio schedulers (`rise-media`) | live decoders | plan for a viewport, advance, preload, close | scrolling past more than there are decoders | never one decoder too many, in any prefix of a plan |
| Raster pool, frame cache | queue, in-flight set, two caches, ledger | request, draw, sweep, teardown, memory pressure | victims picked under a lock and torn down outside it | retained frames survive; the ledger is what is resident |
| Audio ring, pump, trimmer | indices, slots, trim counters | push, pop, trim, seek | two threads without a lock, wrapping indices | samples are heard in order, none lost or repeated |
| Playback hub, textures | grants and budget; ledger, pages, tiles | admit, revoke, renew; reserve, resize, shrink, invalidate | a budget that comes and goes; refused resizes | every slot and every byte is paid for |
| Text field, caret (`rise-ui`) | document, selection, composition, history; epoch | insert, delete, compose, undo, redo, move; tick, pause | the input method changes the text behind the history | an undo run restores what was there; one blink cycle |
| Updater (`rise-platform`) | three paths, plan, swap | decide, prepare, install, relaunch | a rename refused or a death between two renames | a whole, permitted, not older copy is there |
| HTTP host, platform integration, themes, texts, validation, codecs | | | | outside these models, see section 8 |

Feature actors await the server inside their handler, so nothing of their state
moves during an await; the checks they make after it ("generation moved under
us") never fire. What interleaves with them is their channel, their debouncers,
the server, and the account and connection they depend on. The models keep that
distinction: a handler is split exactly where it awaits.

## 2. The modules

| Module | Models | Code |
|---|---|---|
| `RpcContract` | what a call promises, abstractly | - |
| `RiseWire` | the correlator: slot table, request ids, outcomes of a call | `rise_wire.rs` |
| `SocketHost` | the host task, its channel, the network and the gateway, with `RiseWire` inside | `socket_host.rs`, `socket_policy.rs` |
| `OutboxContract` | what an enqueued operation is promised, abstractly | - |
| `DurableOutbox` | rows, claims, reports, backoff, lane choice | `rise_sync.rs` |
| `EngineStore` | lease, lock, preparation, store thread, close and kill | `rise_engine.rs`, `rise_sqlite.rs`, `rise_store_concurrency.rs` |
| `StoreViews` | batches over entities, aliases and view rows, triggers, paging | `rise_store_writes.rs`, `rise_store_reads.rs` |
| `RevisionBus` | the broadcast of revisions and its readers | `rise_store_observation.rs` |
| `Debounce` | windows, ceiling, flush, cancel, drop | `rise_debounce.rs` |
| `RequestIds` | the id allocator under any clock | `identifiers.rs` |
| `UploadProgress` | coalesced progress | `rise_upload_progress.rs` |
| `AuthRepository` | the auth actor with both of its stores | `rise_auth_repository.rs`, `rise_auth_credential_store.rs`, `auth_session_guard.rs` |
| `UserFollow` | the follow button: actor, debouncers, server | `rise_user_repository.rs` |
| `Presence` | desired sets, spawned requests, renewal | `modules/presence`, `composition.rs` |
| `PostRepository`, `SessionRepository` | the feed and the session list | `modules/post`, `modules/session` |
| `ActiveScreens` | leases, claims, cycles | `active_screens.rs` |
| `PaneNavigation`, `Shell` | stacks, layouts, history; one window over them and over `ActiveScreens` | `core/navigation`, `root_view.rs` |
| `FeedScheduler`, `TrackScheduler` | decoders of a feed and of a queue | `video/feed_scheduler.rs`, `audio` |
| `RasterPool`, `AudioRing` | threads, caches, a lock-free ring behind a pump and a trimmer | `lottie`, `audio/ring.rs`, `audio/pump.rs`, `audio/gapless.rs` |
| `SampleChannel` | what the ring promises its two threads, abstractly | - |
| `PlaybackHub`, `TextureLedger` | slots to animate, texture memory | `lottie/playback_hub.rs`, `texture` |
| `InputField`, `CaretBlink` | a text field and its caret | `input_ui` |
| `AppUpdate` | decision, plan and swap of an update | `updater.rs` |
| `Removal` | what remains of a sequence: `retain()` and `filter()` | several |
| `DecoderPlans` | what a player has open that applies a plan | the schedulers |
| `MC*` | TLC instances | |
| `*Proofs`, `Stepwise` | theorems and their proofs; what they share | |

How the larger ones correspond to the code:

**RiseWire and SocketHost.** `RiseWire` has one action per half of `call()`:
`Insert` (the slot), `SendAccepted`/`SendRefused` (the hand-over), `Return`,
`Timeout`, `Drop` (the future is dropped), and `Accept` and `FailAllPending` on
the host's side. `SocketHost` EXTENDS it and adds the task: `host` says where it
is (`waiting` in its backoff, `connecting`, `draining` the offline queue,
`pumping`, and the ways a pump ends), `inbox` is the command channel, `queued`
the frames set aside offline, `link`, `uplink` and `downlink` the network.
Writes over a broken link fail or disappear. Each branch of the pump's `select!`
is an action. `RpcContract` is the abstract specification: a call ends at most
once, and is answered only if its own request was served. `KeepsContract` is the
refinement, with each caller's state and answer mapped to an outcome.

**DurableOutbox.** A row's `state`, `attempts`, `nextAt` and `token` are its
fields. `Claim` picks the first claimable operation as `next_claimable` does;
`Complete`, `FailRetryable` and `FailTerminal` are enabled for every token ever
made, so a report may be late or repeated, and `CheckClaim` decides. The drain
and the deletion of a completed row are external. `OutboxContract` is the abstract
specification: an operation is owed from its acceptance until it lands or is given
up, is attempted only while owed, and never beside another of its lane.
`KeepsTheOutboxContract` is the refinement; rows, tokens, delays and reports that
come late are hidden by it. It includes that one operation of a lane at most is in
flight and that none lands twice (`OneInFlightPerLane`, `LandsAtMostOnce`), which
is why these are no properties of a run: their mutants of the code, a lane that
never blocks and a claim check without the token, are checked against the contract.

**EngineStore, StoreViews, RevisionBus.** The store in three modules that meet
only in the database: who owns it, what a batch does to it, and who hears of it.
`EngineStore` has one action per step that another process could fall between,
and `Kill` at any of them. Each statement of `prepare` and each system call may
fail (`Mishap`): most errors close the connection and give both guards back, and
a verifier that cannot be read is told as a wrong key. `close` is split into its
send, its answer and its join; `HolderCloses` is a clone of the handle that closes
the store under its engine, whose own close then finds nobody to join. An engine
that ends in that way, or is dropped without a close, is `astray`. `StoreViews` computes a batch operation by operation
and then commits or discards all of it. In `RevisionBus` a commit and its
publication are two steps, since the code sends after the transaction.

**AuthRepository.** `accounts`, `active`, `tokens` and `socket` are the actor's
memory and what it last told the socket; `registry`, `lastActive` and `secrets`
are on disk. `at` splits a handler at its awaits (login, logout, refresh) and
before `clear_active_account`. Every step that touches a store chooses which of
its operations fail. `accounts.json` is read anew for each use (`Registry`), and a
read that fails says that there are no accounts: memory then lists none, and what
`save`, `remove` and `set_active` write back has lost the others. `misreads` counts
those reads. `Crash` loses memory and channel and restarts with
`Restore`; with `CutOff` it also leaves the first of two writes behind. `why`
records why an account's session ended.

**UserFollow.** `shown`, `inFlight` and `loaded` are fields of a profile entry,
`committed` what a rollback returns to, `generation` the counter commits are
checked against, `debounced` the commit a debouncer holds. `Fire` puts it into
the command channel when there is room. The server applies a follow, refuses it,
or applies it and its answer is lost.

**PaneNavigation and Shell.** `PaneNavigation` maps stores to stores, one
operator per operation of the navigation store; `Shell` is the window: a handler
changes the store and marks the screens dirty, `RenderFrame` mounts what is drawn and
synchronises the leases, and between two frames comes any handler, a sign-in or a
sign-out. `ReplaceRoot` is what a change of identity does to the views. Two history
variables remember it: `old`, the screens the store still holds from before the last
change, and `oldViews`, the views mounted before it that are still mounted, those of
section roots among them. The palette and a menu may stay open through it, as in the
code.

**RasterPool.** Workers and callers interleave at every lock: a sweep picks its
victims in one step and tears them down one by one in later ones, while views
open, retain and release the same sequences.

**AudioRing.** The decode thread copies a block slot by slot and then stores the
write index; the callback reads slot by slot and then stores the read index. The
indices wrap at a multiple of the capacity. `tape` is what was pushed, frame by
frame. `Seek` moves the decoder to a frame, and the trimmer to what is left of that
frame on its way through milliseconds (`Reported`, at a rate of `SampleRate` frames
to `SecondMillis` milliseconds); `mark` and `aim` remember the last one. The ring
keeps what it holds. `SampleChannel` is the abstract
specification, a queue of bounded room; `IsAChannel` is the refinement, in which
storing the write index sends the block and reading a slot receives a sample.

**InputField.** `text`, `selection`, `composition` and the two stacks are the
fields of the code. Every action is one public operation; `Replace` is the path
through the history, `Mark` the input method's own. Two history variables remember
the text of the last reset and whether a composition was dropped without ending.

**AppUpdate.** `swap_in_place` is five actions, one per file-system call;
`Die` is enabled at each of them. `stranded` is set when a refused rollback or a
death leaves the place of the installed copy empty, and reset by the swap that fills
it.

### How parts share a run

`MCEngine` and `MCApp` EXTEND modules that share no state. The variable `part`
chooses one of them initially and `Next` moves only that one, so each part is
explored exactly as if it stood alone: state spaces add up rather than multiply,
and no part is restricted by another. `SocketHost` with `RiseWire`,
`Shell` with `PaneNavigation` and `ActiveScreens`, and `Presence` with the
connection are compositions in the proper sense, where components do interact.

## 3. Runs

| Run | Shows |
|---|---|
| `socket_host` | types; `AnswersAreOwn`, `SlotsMatchCallers`, `NeverUnderAnEarlierCredential`, and the refinement `KeepsContract` |
| `socket_host_live` | `CallsEnd`, `HostSettles` |
| `socket_replay` (violated) | a frame whose write failed is written again |
| `outbox_reorder` (violated) | a retrying head is overtaken in its lane |
| `auth` | types; `SessionIsWhole`, `StoresAgree`, `WithinLimit`, `OnlyEndedSessionsAreDropped` |
| `auth_socket_left` (violated) | a signed-out bearer stays on the socket |
| `auth_outage` (violated) | an overloaded refresh endpoint signs out |
| `follow_lost` (violated) | a refresh voids a follow, which is never sent |
| `engine` | the outbox (`BackoffIsHonoured` and the refinement `KeepsTheOutboxContract`), the store (`OneOwner`, `AnswersAreTrue`, `TablesAgree`, `BatchesAreWhole`, `CaughtUpIsCurrent`), debouncer, ids and uploads (`NewestRunsInTime`, `IdsIncrease`, `NeverFarBehind`), and media (`DecodersHold`, `FramesAreKept`, `HeardInOrder`, and the refinement `IsAChannel`) |
| `debounce_per_edit` (violated) | after one burst has run, a debouncer with a ceiling runs once per edit |
| `app` | the repositories (`RestingButtonIsTrue`, `FollowsAreMeant`, `WireFollowsTheScreens`, `ListsAreTrue`), the window (`RefreshedOncePerCycle`, `BackThenForward`, `TheWindowAgrees`, `LayoutDoesNotStrobe`), what is drawn (`DrawingIsPaid`), typing (`UndoRunsBack`, `OneBlinkCycle`), and `UpdatesAreSafe` |
| `undo_while_composing` (violated) | an undo during a composition replaces a range the text does not have |

Five properties are conjunctions of two that speak of one thing in two parts:
`ListsAreTrue` of `FeedIsTrue` and `RestingListIsTrue`, `DrawingIsPaid` of
`SlotsAreSpent` and `MemoryIsAccounted`, `DecodersHold` of `FeedPoolHolds` and
`TrackPoolHolds`; `TheWindowAgrees` and `FeedIsTrue` have their parts in their own
modules.

### Bounds, and why they suffice

The `.cfg` files name every bound; these are the reasons.

* *Socket.* Two calls are what it takes to confuse an answer. Three ids let a
  heartbeat draw one between them. A channel of two is both empty and full within
  a few steps, so both branches of every `try_send` are taken; one fault falls
  before, during and after any write. The live run has two faults, a channel and a
  queue of one, and no symmetry.
* *Outbox.* Three operations over two lanes give a lane with a competitor beside
  another lane; four claims let an operation be claimed again while its old token
  is still held.
* *Accounts.* Three exceed a limit of two; one store fault reaches each store
  operation by itself, each read of `accounts.json` included, and a crash with a cut-off write every pair of writes.
* *Follow.* Six commands fit load, press, press, read, account switch and back, over
  two profiles; an answer may be lost once.
* *Store.* Two processes of two openings each, one mishap (a death, or a statement
  or call that fails, at any step) and one engine astray: every pair of steps of two
  openers. Three batches of up to two operations: one refused
  in the middle between two that commit. A broadcast of two is overrun by the third
  of four commits.
* *Ids.* A sequence of two overflows within four ids; a clock of three values jumps
  both ways.
* *Media.* Eight videos, four on screen, five decoders with two ahead and one
  behind: plans that open, keep warm and close. A queue of one request and a cache
  without room for a frame nobody draws make every push drop and every sweep evict.
  A ring of two slots with indices that wrap at four is full and empty and wraps
  within one stream. Five frames to two milliseconds lose up to two frames of a
  seek's position and none, which an integral number of frames would not.
* *Lists.* Two pages that overlap by a row, two accounts, four commands on the feed
  and five on the sessions.
* *Window.* Two sections, three columns' worth of widths, two screens besides the
  roots, and one handler between two frames; the histories hold two.
* *Drawing.* A budget for three animations or for one and a video; two streams and
  an atlas of two pages under a ceiling that refuses the last resize.
* *Text.* Two characters, three edits, compositions, history operations and changes
  of the program each; the selection moves while an edit may still follow. Typed
  runs merge, split and are undone in the middle of a composition within three
  edits. A caret epoch of five outlives every timer twice.
* *Update.* Three feeds, three checks and three troubles: an update, its successor,
  and a refusal in each of their renames and in a rollback.

Every passing run exhausts its state space (`engine` and `app`
1.2 and 1.1 million states), and each property has a mutant of the code that breaks it
under the same bounds. Symmetry is used only in runs without liveness;
in `engine` the parts share two pairs of model values (processes and raster threads,
jobs and canvases), since no part relates what it calls by them to another's. Deadlock is
not checked, since a bounded run ends, by design, when its commands, claims or
faults are used up.

## 4. Fairness

Only `SocketHost` states fairness (`FairSpec`), and only for what the runtime
does by itself: a live caller's future is polled and its timer fires; the host
task is polled, its backoff ends, a connect or a write completes one way or the
other, a branch of `select!` that stays ready is eventually taken (Tokio picks
among ready branches at random). Nothing is assumed of the gateway (it may never
serve), of callers (they may start nothing or drop), of heartbeats, or of the
network, whose faults are bounded: `HostSettles` says what happens once it stops
failing. That a connect ends is the runtime's and the system's doing, not the
client's: `socket_host.rs:219` awaits it without a timeout, and where the system never
gives up on one, `HostSettles` does not hold. Elsewhere what must eventually happen waits for a user, a server or a
frame, of which nothing is assumed; there the safety properties say what holds
whenever a part is at rest.

## 5. What disagrees with the documentation

Seven runs end in a counterexample on purpose; each checks a sentence of the
repository against what the code does.

* `socket_replay`: frames whose write failed are written again, session
  termination among them (`modules/session/CONTEXT.txt:18`).
* `outbox_reorder`: two mutations of one ordering key can land out of order
  (comment at `rise_sync.rs:209`).
* `auth_socket_left`: after a sign-out the socket may keep the bearer of the
  account that left.
* `auth_outage`: a 429 or 503 of the refresh endpoint removes the account.
* `follow_lost`: refreshing a profile right after pressing follow drops the
  follow, and the entry stays in flight for good.
* `debounce_per_edit`: `burst_started` outlives the burst, so a debouncer with
  `max_wait` that fired once fires on each later edit (`rise_debounce.rs:79`).
* `undo_while_composing`: undo does not tell the history of the composition it
  drops; the step it runs names a range of another text
  (`input_ui_state.rs:841`).

### What the models showed besides

None of these contradicts a sentence sharply enough to be a run. Each is behaviour
the models contain, and which the stated properties are phrased around.

*Connection and accounts.*
* `fail_all_pending` answers a lost connection as a remote error
  (`rise_wire.rs:158`), which callers treat like an answer of the server.
* `complete()` leaves a row in flight without a token (`rise_sync.rs:177`), which
  the schema's check at `rise_sqlite.rs:139` would refuse; no code stores a
  completed row yet.
* A full channel drops a sign-out or an account switch
  (`rise_auth_repository.rs:112`) and a credential change (`socket_host.rs:76`).
* A failing read of `accounts.json` counts as an empty file
  (`rise_auth_credential_store.rs:131`), which the next write makes true: a refused
  read during a sign-in, a switch or a sign-out drops every other account, and a
  sign-in after one passes the account limit. `WithinLimit` and
  `OnlyEndedSessionsAreDropped` count exactly these reads.
* The result of `remove()` is ignored (`rise_auth_repository.rs:332`): the account
  stays listed when the secure store refuses. Two sign-outs in the channel sign
  out two accounts (line 304). Switching to an account whose credential cannot be
  read leaves the old one active, and the checks that follow judge that one and may
  clear it (line 291). A tag check already queued runs under the
  generation of a newer keystroke (line 630).
* A push receiver that lags loses pushes (`composition.rs:183`); an account switch
  resets presence, posts and profiles but not the session list
  (`composition.rs:232`).
* A drop and a reconnect between two readings of the connection watch renew no
  presence subscription (`composition.rs:207`).

*Store.*
* A process that dies, or a statement that fails, between the schema version and the
  verifier leaves a store whose right key is "wrong" for good
  (`rise_sqlite.rs:211-212`), and inside the schema one that cannot be created any
  more; a verifier that cannot be read is reported as a wrong key too (line 254).
* `StoreHandle::close` through a clone of the handle takes the thread's join handle,
  so the engine's own close may return, and give its guards back, while the
  connection is still open (`rise_store_concurrency.rs:133-144`).
* Paging by position alone skips rows that share one with the last row of a page
  (`rise_store_reads.rs:108`).

*Screens.*
* Posts: a full channel may drop the change of identity as well as a page
  (`rise_post_repository.rs:129`); a toggle acts for the account at the time it is
  served, not at the time it was pressed (378); two presses on repost before the
  first answer ask for two reposts (419).
* An account switch keeps the screens of the account before, since only a change
  between signed in and signed out replaces them (`root_view.rs:457`); the rail is
  decided by the screens that are drawn, not by whether anybody is signed in (148).
* A lease that is keyed anew keeps the revision it had seen
  (`active_screens.rs:353`).

*Media, text, update.*
* A visible video may lose its decoder to a warm one for one pass
  (`feed_scheduler.rs:176-229`); nothing in the application uses it yet.
* `PlaybackHub`: a participant granted anew keeps its grant's id, against its own
  lines 9-11; changing the kind of an active player neither checks the budget nor
  refills it.
* A texture whose refused resize cannot take its bytes back makes the ledger
  undercount from then on.
* `RasterPool`: a sequence may be swept between `open` and `retain`; a frame drawn
  after `forget` stays decoded.
* `Pump::seek` says that it discards everything buffered (`pump.rs:153`), and the ring
  that its `clear` is what a seek does (`ring.rs:154`); nobody calls it, so the device
  plays what the ring holds of the old position first. `Seek` leaves the ring alone, as
  the code does, and `HeardInOrder` says that what follows it is heard after that.
* A seek loses up to a millisecond of frames on the way to the trimmer: so much of
  the padding at the end is played after it, or so much of the audio at the front is
  left out (`pump.rs:157`). A truncated push may drop samples of one channel only.
* A refused rollback is ignored (`updater.rs:929`) and a retry then removes the
  only copy left (915), so that no copy is left until a swap succeeds, against the assertion of the test at line 1967; what is
  installed may go back to a version below one that was installed and never
  relaunched.

## 6. What is proved

The proofs hold for every value of the constants that satisfies the modules'
named assumptions: sentinels are no members of the sets beside them
(`WireAssumption`, `HostAssumption`, `AuthAssumption`, `FollowAssumption`, ...),
sets of members, frames, textures and the like are finite, capacities are
positive and bounds are natural numbers (`RasterAssumption`, `LedgerAssumption`,
`CostsAssumption`, `ViewsAssumption`, `FieldAssumption`, ...). Five say more,
each because the code does: the ring's capacity divides the modulus of its
indices (`RingAssumption`: a power of two under `usize`), the sequence mask of
the request ids is positive (`MaskAssumption`), a debouncer's ceiling is at least
its window or absent (`MaxWaitAssumption`), the hysteresis is no wider than an
aside (`PaneAssumption`), and the overlay stack has room for two
(`ShellAssumption`). TLC evaluates all of them on the instances of the runs;
the proofs do not depend on the sizes chosen there.

An invariant that a run checks is seldom inductive. Below, for each theorem, what
had to be added.

### `SocketHostProofs`: the connection

`TypeCorrect`, `SlotsCorrect`, `AnswersCorrect`, and `ContractKept`, that every
step is a step of `RpcContract` or a stutter, follow from one invariant: no two
calls share an id; every frame and reply in the channel, the queue or the network
names the call its id was allocated for; a slot belongs to the call that inserted
it, and an open call that inserted one still has it; only served calls have
replies on their way.

`CredentialsKeepOrder`: frames wait in the channel between credential changes, so
the invariant names a position for each place in it: how far in the history of
accepted credentials the host will be once it has taken what lies before.
Positions never decrease along the channel, each fits the changes before it, and
no frame was issued later than its own position.

### `AuthRepositoryProofs`: the accounts

`AuthInvHolds` is the invariant. A whole session needs that a stored pair is its
own account's, that a refresh or a logout under way has an active account, and
that an account about to be cleared has its reason already; the limit needs that a
grant is admitted against a list that lacks nothing of what is stored, or against an
empty one: before the restore, or after a read that failed, which makes room for one
(`KnowsItsAccounts`). `AuthTypeCorrect`,
`SessionsAreWhole`, `StoresKeepAgreeing`, `LimitIsKept` and `DroppedForAReason`
follow.

### `EngineProofs`: the engine crate, the audio ring and the decoders

* The outbox. `LanesAreExclusive` and `LandingIsUnique` need each other: a
  completion lands because its token matches, so only a row in flight holds a
  token. `RowsKeepTheirTypes` counts attempts against claims, and
  `BackoffIsWaitedOut` follows the powers of two of the delay one at a time.
  `OutboxKeepsItsContract` maps every step to one of `OutboxContract` or a stutter.
  What the other invariant lacks for it is that a row in flight without a token,
  and a row that is gone, has landed: only then is the deletion of a row the end of
  an attempt that succeeded, and never the loss of an operation that is owed.
* The store. `OneOwnerAlways` ties every stage of an engine to the guards it must
  hold and counts who holds them; only an engine astray may have its thread connected
  after that. That the right key is accepted while nothing failed needs that a
  version without a verifier has its opener still about to write it (`SealedSoon`); that a
  close waits for its thread needs that the thread of an open engine runs until that
  close, unless it went astray (`OpenIsServed`). `SubmittersAreToldTheTruth`: a job without an
  answer is in one channel at one place, or in the hands of the thread, and what
  the thread applied and has not answered is the only thing that may be in the
  database without a caller who knows. `StoreKeepsItsTypes`.
* The tables. `ViewsAgree`, `WholeBatchesOnly`, `ViewsAreTyped`: both the
  committed and the working tables count their rows and refer to nothing that is
  gone, and the working ones are the committed ones after the first `done`
  operations of the batch. Reading page by page sees every row because a page is
  the least rows beyond the cursor.
* `IdsIncreaseThm`: the allocator's own state bounds every id it gave out and a
  turn moves it strictly up. `ReadersCatchUp`: for a reader that shows an old
  revision the news is in a writer's hand, or in the channel ahead of its cursor.
  `ObserversKeepUp`: what a reporter holds outside the lock is what is published.
* The debouncer. `NewestAlwaysRunsInTime` and `DebouncerKeepsItsTypes`: only the
  pending task is alive and wakes no later than the ceiling after its burst began.
* The ring. `TheDeviceHearsInOrder` and `RingKeepsItsTypes`, for every capacity
  that divides the modulus: what lies between the two indices is what was pushed
  and not yet heard, a slot before the writer's index holds half a push at most,
  and the tape goes on, frame after frame, from where the last
  seek went, shifted by what that seek lost; the trimmer's counters are those of a
  decoder that far behind. That the shift is bounded by a millisecond is a lemma on
  the two conversions. The lemmas on modular
  arithmetic say that positions less than a capacity apart use different slots.
  `RingImplementsAChannel` follows from the same invariant: the block whose index is
  stored continues what was pushed and fits what is free, and the slot the callback
  reads holds the next sample to be heard.
* The schedulers of decoders. `DecodersAlwaysHold`: the pool's order is apart and
  names exactly the live videos, and its plan leads a player from what was open to
  those without ever exceeding the ceiling. It is kept by each transition that is
  added: closing makes room, and a wish is reached while there is room because no
  more is wished than the ceiling allows. Of the tracks only the current one and
  the one ahead are ever open.
* `EngineIsTyped`: the type invariant of the run `engine`, from the type theorems
  of its parts, the raster pool's among them. `EngineKeepsItsPromises` states all
  the other properties of that run of the engine as it is put together, of which
  one part moves at a time.

### `DrawingProofs`: threads that draw, and their caches

* The raster pool. `FramesStayKept` and `RasterKeepsItsTypes`: a frame is named
  once among queue and workers, and those are the frames in flight; what is
  resident belongs to its key and is not doomed; `retained` counts the holders;
  and either everything fits or somebody who kept a frame has yet to sweep, which
  is why the ledger may exceed its ceiling between two locks only.
* The texture budget. `MemoryStaysAccounted`: the free slots of a page are apart
  and, with the drawn ones, all it has; the memory in use is the sum of the
  charges and the pages, until a refused rollback undercounts it.
* The hub. `SlotsStaySpent`: everyone has one seat, each playing under a grant of
  their own which is what the host knows, and the budget is kept and used. What
  fills the seats and what empties them are recursive functions, followed one
  member at a time: after a whole pass nothing that waits would fit.

### `MemberProofs`: what members see and press

* The follow button. `FollowInvHolds` combines facts none of which survives alone:
  a commit on its way is of an older generation or of the account that pressed and
  still views the profile; a loaded profile's `committed` is what the server has;
  the follow being sent differs from it. `RestingButtonStaysTrue`,
  `MutationsAreNeverEmpty`, `FollowsStayTheTogglers` and `FollowsStayMeant` follow.
* Presence. `WireHearsTheScreens`, `PresenceKeepsItsTypes`: the differences on
  their way add up from what the wire has to what is desired.
* The session list. `SessionListIsTrue`, `SessionsKeepTheirTypes`: a snapshot is
  the list from before the command being served.
* The feed. `FeedStaysTrue`, `PostsKeepTheirTypes`: every copy of a post on every
  page shows the same, and a rollback row what it showed before the press; a page
  that is appended adds the rows that are not there yet.

### `WindowProofs`: the window, the text field and the updater

* `KeysRefreshOnce`: the record of claims is the tail of what was granted.
  `ColumnsDoNotStrobe`: where the layout turned last is on the far side of the
  boundary it would have to cross back.
* `CaretBlinksOnce`: of the timers that may still fire, one at most is of the
  current epoch.
* The text field. `UndoAlwaysRunsBack`, `FieldKeepsItsTypes`: the invariant is a
  path of documents, from the last reset over the recorded edits to the committed
  text and on along what was undone, in which each edit leads from one to the
  next, by the lengths of what it put in and took away. An edit that is merged
  into the last one joins two steps of the path.
* The updater. `UpdatesStaySafe`: a plan, what is staged under it and what lies at
  the path are no older than everything that ran, and so is what was moved aside
  between the renames, since a rollback installs it again. Where a rollback was
  refused or the process died there, the place stays empty until a swap succeeds, and
  the theorem says so: it promises no copy then.
* Screens. `ScreensKeepTheirTypes`: a screen has one lease and no more are kept
  than may be, whether it registers, is registered by a sync, or is dropped for
  room. A sync is followed one visible screen at a time, and the depths it gives
  are counts of what lies below.
* The window. `BackAlwaysUndone`, `WindowStaysInAgreement` and `WindowTyped`
  follow from one invariant of four parts. The store: every stack holds screens
  of its slot, what was touched last comes first, and while somebody is signed in
  nothing lies above a root. The views: none is of a pre-authentication screen
  then, and none, a root's no more than another's, was mounted before the last change
  of identity, just as no screen of that time is in the store. The leases: apart,
  each in its screen's column, and after a frame those of what is drawn. The overlays: each is stacked once and
  exactly while it is open, so a capacity of two never refuses one.

### `AppProofs`: the whole

A part that moves takes a step of its own and a part at rest takes none
(`PartsStepOnTheirOwn`), so a theorem of a part holds in `AppSpec`.
`ListsStayTrue` and `DrawingStaysPaid` are the two properties of the run `app`
that join two parts, and `AppIsTyped` is the type invariant of that run, from the
type theorems of the parts; `AppKeepsItsPromises` states all its other properties
of the whole. `AppIsTyped` assumes `DepthAssumption`, that the bound on a
lease's depth lets the two screens lie over each other that `Visible` syncs.

### `Stepwise`: the common ground

Induction cannot be cited for an arbitrary predicate, so it is cited for a set
that holds the cases: `StepByStep` for the naturals, and from it sums over finite
sets, one member at a time, what `Remaining` keeps of a sequence and in which
order, and sequences whose elements are apart, as one is put at either end or in
the place of another.

### Only model-checked

Liveness (`CallsEnd`, `HostSettles`) is out of the prover's reach, since it needs
fairness and `ENABLED`; the counterexamples of section 5 are runs by nature. Every
safety and action property and every refinement of the passing runs has a theorem.

Proving changed the models in one respect that mattered: the `CASE` of
`PostRepository` that merges a page had two overlapping branches, of which TLA+
may choose either; it is now ordered as the code is. Elsewhere definitions were
only put into a form that can be reasoned about: recursive functions for folds,
explicit records for updates of updates.

## 7. Abstractions

* Time is a choice wherever the code reads a clock to decide (token expiry, backoff
  of the host); the outbox and the debouncer have a clock because their properties
  are about delays.
* `Shell` and `PaneNavigation` compare widths with thresholds of the same order as
  the code's, not with its pixels; the order of a sequence stands for `appeared_at`
  and for the store's clock.
* The schema is two statements, which is enough for a process to die between them.
* `RasterPool` prices all entries in one step, as the code does under its lock.
  `TextureLedger` has one tile size, and `Shrink`, which releases page by page, is
  one step: pages only go while it runs, and each release takes the lock by itself
  with nothing read in between.
* Aborting a debouncer's task takes effect at once; in the code it does at the task's
  next await. `StoresAgree` is stated as long as no store operation failed or was cut
  off; what a crash between the two writes leaves is explored by the same run under
  the other three. `WireFollowsTheScreens` excepts connections lost unseen and requests
  that overtook each other or failed, as `Presence` marks them.
* No packet of the stream in `AudioRing` is corrupt, and a failing seek changes nothing.
* Offsets in `InputField` count characters: boundaries of graphemes and of UTF-16
  are not told apart.
* `AppUpdate` has versions as numbers; a version at a path stands for a whole copy.
* The gateway, the services, the secure store, the file system and the operating
  system are external. They are modelled from what the code can see of them: any
  order, any answer, any failure.

## 8. Not modelled, and why

* Pushes and undecodable frames in `RiseWire`, the routing of pushes in the
  composition root, `PushBatch` in `rise_sync`: accumulators without a decision.
* The registration form of the auth actor; private profiles and own or tag keys of
  the user actor; opening a single post.
* `Shutdown` of the feature actors and of the raster pool, which end the process.
* The cipher and the SQL of reads by id; the durable operations table.
* HTTP host: stateless; its outcomes are the three answers of a refresh.
* Codecs, sinks, imports, rendering, themes, translations, table-tested validation:
  computations over data with no protocol between them. Calls into the operating
  systems (hotkeys, media keys, autostart, notifications, materials) are bindings:
  three platform implementations of one call each.
* Onboarding and the remaining feature modules are stubs or sequences of screens.

These make up most of the repository's lines, which is why the mapped share is
small: the models stand for the state machines, and the lines around them draw,
decode or call the platform.

## 9. Plan

1. The registration form: code entry and tag checks in `AuthRepository`, with
   `Debounce` and its channel.
2. Pushes: `RiseWire`'s broadcast, the composition root's routing and the statuses of
   `Presence`.
3. Several tile sizes and the drop of the atlas in `TextureLedger`.
4. The handover of links between two processes, composed with `Shell`.
5. Proofs for what these add, from the invariants of section 6: a slot that is
   drained by a push, a page of the atlas that holds tiles of two sizes.

The order follows importance: what loses or misattributes a user's action comes
first, what wastes work last.
