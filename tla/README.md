# Rawframe Engine: TLA+ models, checks and proofs

Rawframe Engine is a C++23 game engine whose server decides and whose clients
mirror and predict. This directory models the parts of it where an ordinary
test reaches least: what a client ends up holding over a lossy network, what it
predicts ahead of it, what a file or a library holds after any failure, what
each end of a connection is told, and what still lives when the last of some
asynchronous work ends. TLC checks the models on small instances, TLAPS proves
the main safety properties for every value of their parameters, and
`PROJECT.json` lists components, runs, hazards, theorems and the source lines
each definition stands for.

All source paths below are under `src/modules/` unless they start with
`src/`.

## 1. The system

A process is a **Host** that runs one composition of participants in fixed
phases (`platform_poll`, `ingress`, `advance_clocks`, `run_worlds`,
`presentation_extract`, `present`, `egress`, `maintenance`, `frame_end`),
all on its own thread. Work leaves that thread only by way of two executors
(CPU and blocking I/O), the QUIC library's callbacks and the audio device.
Servers and clients are compositions of the same modules; a server's World is
the authority, a client holds a mirror of what it was shown.

| Component | State it keeps | Operations | Meets | Hard because | Correct when |
| --- | --- | --- | --- | --- | --- |
| State replication (`world_replication`: publish, server, client, peers) | per connection: mappings, what was sent and acknowledged of each value, unsettled entities, retirements; on the client the mirror and what it received | step, publish, declare and retire, send and receive state, acknowledge | the World, sessions | datagrams lost, duplicated, late; budgets; an incremental look that skips what it takes as settled | the client shows what the server takes it to show, and in the end exactly the World |
| Input and pacing (`server.cpp`, `client.cpp`) | windows of commands, ticks consumed, leads | sample, resend, apply, hold, pace | sessions, the World's tick | commands late, twice, out of order; measurements of a past lead | each tick consumes one command, its own |
| Prediction (`prediction.cpp`) | ring of predicted states, ledger of effects | advance, authoritative, rollback | input, replication | states out of order, values that go back, a bounded ring and ledger | an effect is delivered once; what is confirmed is what the server's player was |
| Sessions (`network`) | per connection: phase, epoch, deadline, gathered frames, refusals held | pump, send, flush, close | a Provider, the owner | streams that overtake each other, closes that overtake everything, deadlines | the owner hears a story that makes sense; nothing stays half open |
| Providers (`network_loopback`, `network_quic`, `network_web`) | what is on its way | connect, accept, send, close | sessions | callbacks, loss, failure of a path | the Provider contract |
| Saves (`world_runtime/saves.cpp`, `world_save/store.cpp`, `base/files.cpp`) | queue of captures, a flag, files | capture, keep, load, join, leave, stop | blocking-I/O executor, World, players | two threads over one queue and one flag; crashes within a file's replacement | a file is old or new, never part of one; later captures stay |
| Checkpoints (`world_runtime/checkpoints.cpp`) | one capture under way | capture, seal, write, finish, restore | both executors, the World | a capture moves between three threads | one at a time, none lost at a stop |
| World (`world`) | entities under generations, components, deferred commands | spawn, despawn, defer, apply, tick | every participant | reuse of a slot, order of deferred commands | a stale handle finds nothing |
| Assets (`assets`) | entries under generations, their interest, requesters, bytes resident, a reload under way | request, release, handle, update, close; reads and decodings that end | the content store, two executors | loads that end in any order, reloads beside requests, slots reused | interest counts requesters, a handle reads what it named, a reload reaches all at once |
| Execution (`execution`) | queues with quotas, scopes with counts, cancellation trees | submit, run, join, cancel, stop | everything asynchronous | threads, joins that help, refusals, shutdown | nothing outlives its scope, a wait ends, a stop ends |
| Composition and host (`composition`, `host`) | slots in plan order | construct, start, phases, quiesce, stop | participants, executors | starts that fail half way with work under way | everything started is stopped, in reverse, after its work |
| Install (`install`) | blobs, Builds, Compositions, the active record and what is retained | add, update, follow, heal, rollback, collect | origin, file system | stops and power failures between steps, flushes that fail or never come, collection, shared blobs | what is active or retained is held, but for what is known to be lost |
| Authoring (`authoring`, `authoring_session`) | documents, generations, undo histories, selections | begin, stage, commit, cancel, undo, redo, rebase | editors over links | several authors over one history | a commit is whole or nothing; clean is never said falsely |
| Diagnostics (`diagnostics`) | records on their way to a bounded sink | emit, limit, write, rotate | all threads | bounds | what is dropped is counted |

The rest is data conversion (schemas, documents, cooking, importing, snapshots'
bytes, materials, localization), numeric code (physics, navigation, animation,
particles, mixing), bindings to vendored libraries and tools over them.
`PROJECT.json` names each with the reason it is left out.

The ways these components meet that are modelled here: publish and
acknowledge between a server and a client by way of a control stream that is
ordered and datagrams that are not (Replication); labels, windows and paces
between a client and a server's tick (InputLane), and the client's own run of
the game over them, corrected by states (Prediction); a session and its peer by
way of a provider, and each session and its owner by way of what a pump hands
over (Session); the Host's thread and the executor's workers by way of a queue
under a mutex, an atomic flag and the file system (Saves), or by way of
operations, jobs and waits that help (Composition over Execution); an
AssetSet's thread and the loads that end beside it (Assets).

## 2. Modules

| Module | Stands for |
| --- | --- |
| `Replication` | `world_replication`: the state lane of one connection, from the World to the mirror |
| `InputLane` | the input lane of one connection, and its pacing |
| `Prediction`, which extends it | `prediction.cpp` with the server's player, its states and their acknowledgement |
| `EffectSink` | what presentation is promised of predicted effects: an abstract specification, which Prediction implements |
| `Saves` | `world_runtime/saves.cpp` with the store, the file replacement and the executor's task under it |
| `Session` | `network/session.cpp` at a server and its clients, over the loopback provider or QUIC |
| `Assets` | one AssetSet over a content store whose catalog is replaced |
| `Execution` | one executor, operation and job scopes, the stacks of threads that help |
| `Composition`, which extends it | `composition.cpp` and `host.cpp`: participants that own work, from construction to the stop |
| `Install` | the library a machine installs into, and its failures |
| `MC...` | a module's instance for TLC: values, bounds, a fair specification |
| `...Proofs` | a module's proofs |

Every definition that stands for code has its lines in `PROJECT.json` under
`map`; one that says "Mutant" in its comment is a broken variant that some
property is known to tell apart, and is used by no specification.

### Replication

*State.* `world`, `near`, `within` are what a tick left behind (Step stands
for any game: any World may follow any other, with any interest). `previous`,
`changed`, `lookedAt` are what `ReplicationServer` knows of past publishes.
`mapped`, `unsettled`, `bounded`, `nextNet`, `unacked`, `sequence`, `sent` are
the server's `Peer` (peers.h); `mirror`, `owned`, `received`, `closed` are the
client's `State` (client.cpp). `toClient`, `toServer` are the control stream's
two directions; `states` and `acks` are every datagram ever sent, none ever
taken away, so that each may arrive never, once, often, late and in any order.

*Actions.* `Step` (a tick), `PublishNothing` and `Publish` (`publishTo` with all
it calls: who comes and goes, retirements and declarations under their budgets,
records in waiting order under a byte budget, resends, the settled set),
`ReceiveMappingAck` and `ReceiveStateAck` (`onFrame`, `onInput`'s
acknowledgement), `ReceiveFrame` (declare, retire), `ReceiveState` and
`SendStateAck` (the client's `receive`, `onState` and acknowledgement).

*What is abstracted.* A value is a member of a small set; a byte budget is a
number of records, and a mapping's bytes are a number of units. Entity
references inside values, which are encoded per connection and always count as
changed (publish.cpp:200-202), numeric blending, checksums, the memory of
retired mappings (`retired`, kept for lag compensation) and the pace datagrams
that share the sequence are left out. Connections share nothing but the World
they read, so one stands for all.

### InputLane, Prediction and EffectSink

*State.* Of the client, `nextLabel` and `unconsumed` (the command labelled for
each tick to come and those sent until consumed) and its pacing; of the
server's peer, `nextInput`, `waiting`, `lastCommand` and `held`, and its
measures of the lead. `windows` and `paces` are sets of everything sent.
`labelled`, `played` and `gapped` record what happened, for the properties.
Prediction adds the server's player (`truth`) with its replica and states, and
the client's `base`, `compared`, `ahead` (the ring), `ledger` and `sink`.

*Actions.* `Sample`, `SendWindow`, `OnPace`, `HearConsumed` at the client,
`Hear` and `Play` at the server (a tick: its inputs, its pace); over them
Prediction's `PSample` and its kin, which add what the client predicts as it
labels and what the server's World does as it ticks, `AckArrives` and `OnState`
(apply, compare, confirm or roll back and resimulate).

*What is abstracted.* The game is a constant: a step of it, what it emits, and
what else the server's World may do to the player. The player is mapped from
the start. The two input bounds per pump and the memory they guard count as
loss. `reset`, `skipInputTo`, perception, checksums, the rollback alarm, and
steps that fail are left out. `LedgerHolds` assumes of the ledger the bound
prediction.h:133-135 asks for.

`EffectSink` says all that presentation may hear: an effect shown, taken back
if it may be, and shown again only after that. `Prediction!Sink` is its
instance under the client's `sink`; `EffectsOnce` is its specification.

### Saves

One step is what one thread does between two points where another can see or
change what it works on: a lock, the atomic flag, a file operation. `pc` places
each thread in its task or its drain, `stage` says which drain: the task's first,
the task's second (after it looks at the queue again, saves.cpp:289-296), or
stop()'s own (saves.cpp:165). A file's replacement (files.cpp:186) is
`MakePartial`, `FillPartial`, `MovePartial`, `FlushDirectory`, each of which may
be the last before a `Crash`. `kept` is what a load would read, `disk` is what a
power failure would leave. The directory's flush may fail without anyone
hearing of it (files.cpp:176-184, 212-213; on Windows there is none), and the
save is reported kept all the same: such a slot is `unsure` until a later flush
of it. A load (`Loads`) reads a save, or fails to read it, whole as it may be,
or finds no file, which is also what every file that does not open is taken for
(store.cpp:44-46); a slot taken so is `missed` for as long as the process lives.
A capture's contents are its number: what it holds of the
game, and what a load brings back of it, is not told; reports and logs are left
out. The executor's queue is one
flag (the participant's quota is one pending task, saves.cpp:396), and a Host
that joins helps with the task (`TakeTask` by the Host).

### Session

One server and a client for each connection. `conn` is what each side's
Sessions keep of a connection, `way` is what the provider has under way to each
side, `told` is the sequence of events each owner was handed. A pump is a
window (`pumping`): it hears what may arrive while it is open, so that events
of several connections and ends may meet in one pump. `Loopback` chooses the
provider: one arrival order and a close known at once at both ends, or an
order for each stream alone and closes that overtake. The actions are the
handlers: `HearAccepted`, `HearConnected`, `Refuse`, `Admit`, `HearReject`,
`HearAccept`, `HearGame`, `HearOutOfTurn`, `HearEnd`, `HearNothing` in a pump;
`Poll`, `Expire`, `Flush`; the owner's `Connect`, `SendFrame`, `SendDatagram`,
`SendEvent`, `Close`, `CloseAfterSending`; and `Vanish`, `Fail` and `Time` for
what happens to it.

*What is abstracted.* Epochs are counted, where the code draws 64 random bits;
frames, records and datagrams are numbered, where the code sends bytes; one
event lane stands for several. Strikes (session.cpp:195), malformed bytes,
buffer limits and frame sizes are left out. A datagram is lost at sending or
not at all; whether a record that is acknowledged has been heard is a free
choice, for the transport acknowledges before the owner reads; a QUIC send
after an end the side has not heard succeeds or fails freely.

### Assets

`set` is the AssetSet's `State`: its entries, its requesters, the bytes it holds
and the catalog it has reconciled. The set's own thread requests, releases,
takes handles and updates; `Read` and `Decode` are an entry's operations, which
end while that thread does anything else. An `Update` is the whole of the
code's: it reconciles with a new catalog or abandons a reload a newer one has
overtaken, settles loads that ended in any order, gives up requests past their
deadline, publishes a reload whose candidates are all made, and evicts for
room. What a form is, which evictable one is oldest, and why a load failed are
left out.

### Execution and Composition

A thread is a **stack** of tasks: a wait for a handle, for a scope or for jobs
runs whatever is queued above what waits (executor.cpp:240-251), and a job the
queue refuses runs where it was asked (job_scope.h:53-63). A task goes through
the stages of `at`: asked (counted by its scope, not yet submitted), queued,
begun, at work, joining its jobs, delivering, reporting its failure, finishing
(the last touch of its scope), leaving its slot. `inside` is a scope's count,
`open` the scopes that live. The executor's mutex and each scope's make one
step of what they guard; what a thread does between two of them is another.

Composition runs the Host's thread through `phase`: participants are
constructed, started, run, quiesced, stopped, destroyed and retired, by the
plan or in reverse, and any construction or start may fail. A participant owns
one OperationScope, as AssetSet and ContentStore do, whose destructor cancels
and joins (`Destroy`, `Joined`); from its start, its phases and its stop it may
start operations, wait for a handle, or cancel.

*What is abstracted.* One executor stands for two. A cancellation is one step:
its tree, callbacks and deadlines are left out (section 7), and a job's scope
is taken to be cancelled by its participant's. The generations that supersede
an operation's result, the budgets that turn a stop that lasts too long into a
panic, the table of owners' size and the build without threads are left out.
Background work may be taken at any time, where the code takes it once it has
waited long. A wait helps whenever it looks, where the code may find itself
done first.

### Install

`disk` is what the file system shows, `durable` what has been flushed of it: of
every thing kept by its digest (a blob, a Build, a Composition) whether it is
held, and held whole, and of the installed pointer and the channel's sequence
what they say. A thing is published by a rename, shown at once, and flushed
after it (`flushing`). The flush may fail silently (base/files.cpp:176-184), or
be cut short with the process, and then the rename is left `unflushed`: who
comes next finds the blob or the Build held, or the pointer there
(installation.cpp:174, 193, 230-232), and does not flush it again. A writer is
at `pc` in its operation `op`: it fetches blobs, verifies Builds, publishes
them, keeps the Composition, moves the pointer and, for a follow, keeps the
channel's sequence. A blob whose read fails counts as damaged
(content/library.cpp:157-165): `VerifyBuild` removes it, good as it may be, and
the origin may then refuse to send it again.

`Crash` and `PowerFailure` may stop a writer between any two steps; opening the
library again reads what is left. A crash loses nothing and flushes nothing. A
power failure leaves of each thing that differs the new or the old, and of a
Build whose files were not flushed, or that was being removed, perhaps a part.
`lost` says what need not be there until it is published and flushed anew:
blobs that rotted or were removed as unreadable, what the power took of what
was left unflushed, and, where that was the pointer, whatever is not there, for
the old pointer may name what was collected since.

*What is abstracted.* A flush is told of the thing renamed alone: what it does
for others in the same directory is not counted on. What is staged is dropped
when the library is opened and is not told. The order in which a collect
removes things of one kind is free. It is assumed that a blob's own directory
is as durable as what is flushed in it, that removals succeed,
that `retained` is the same at every opening (after a lower one
the list is longer until the next update), and that the file system
answers whether a name is there (section 4 says what follows where it does
not).

## 3. What the runs show

Each run finishes in minutes at most. "Bound" says why so small an instance
still meets the case in question.

| Run | Shows | Bound |
| --- | --- | --- |
| `replication_lossy` | what `Replica::held` concludes is true of the client (`HeldIsShown`), a state that calls the player whole tells the truth, a mirror never goes back | one entity of two values under one record a datagram, five ticks with losses in all and writes in the first four, a resend held back for a tick after a send (`ResendAfter` two): several datagrams of one value, records left to a later datagram, an acknowledgement window (1) and a sent window (2) that both overflow, refusals by the provider |
| `replication_interest` | an honest client is neither struck nor driven to close (`NeverEnded`), nothing mirrored is orphaned | three entities for two mappings, so that coming in needs another's retirement, and three IDs, so that IDs run out |
| `replication_converge` | the incremental look leaves out nothing that differs (`SettledIsShown`), the fast path over what came and went misses nothing, the client's own entity is the player, and once the World is still and what is sent arrives, the mirror becomes exactly the World (`Converges`) | publishes every second tick, two values, one retirement and one record a publish, loss and writes until tick six, twelve ticks: enough for resends after `ResendAfter`, for entities that are held and left out by a look, and for values that change, between two publishes or over several, and change back while the client holds them |
| `saves_up` | no torn file; what was reported survives the process always, and the power unless its directory could not be flushed; what did not read is not written over, unless it did not open | a World, a player, two workers, two captures, two crashes, each with or without the power, at any step; files that do not open or read, flushes that fail: a save reported over a failed flush, taken back by the power or flushed by the next, and a save taken as absent, or a good one refused, after the first crash |
| `saves_stop` | one writer at a time and the later capture stays, until stop()'s own drain; stop() comes back | three captures, so that one is queued in each window of the task, with failing writes and submissions |
| `saves_torn` | a finding, section 4 | |
| `session_lanes` | the owner's story, one epoch at both ends, events whole and in order, frames before what relies on them, a rejection before its close, and every connection settles | one QUIC connection that may fail at any step, a server that sends one frame, three records with one unread at most, one datagram |
| `session_bounds` | the server's bounds on connections | two clients for one place over the loopback provider; a third would only repeat the second's refusal, and the theorem below covers any number |
| `prediction_ahead` | ticks are played with their own commands, what is confirmed is the server's, what is shown is what the present prediction emits, both sides hold alike, and prediction implements EffectSink | two commands over three ticks, windows of two, one shove by the World: a lost window made up for by the next, a late one, a held tick, a rollback across an effect of either class, a resimulation that no longer emits it |
| `assets_reload` | interest counts requesters, the budget is kept, handles name what they were taken for, a reload moves all at once, nothing waits for ever | two resources, four slots (one for each form and each candidate), room for three, a second catalog that may come within the first's reload |
| `composition_quits` | nothing outlives what it uses, counts are right, every retirement is accepted, and starts, stops and waits end | two participants, an operation with a normal and a background job and one without, a queue of two, one worker: the worker in a join while the Host helps or waits, a queue that is full for an operation and for a job, a failure that cancels a sibling, every failure of a start |
| `install_stopped` | what the pointer names is held but for what was lost, retained Compositions are apart, a sequence follows what it names | four Compositions that share two Builds that share a blob, two retained, a channel that offers one, and any two failures, each a blob that rots, a blob that does not read, a flush that fails, a stop of the process or of the power: a rename left unflushed by the first and passed over by the retry before the second |

Deadlock is not checked: every instance stops at its bounds or where its
participants have nothing left to ask.

The limit of operations in flight is not met in `composition_quits`, for each
of its owners has one operation; the theorems hold whatever the limit.

**Fairness.** `Converges` assumes that the Host goes on ticking and publishing
and that what is sent after tick six arrives, once, in any order; what was
sent before may never. `StopReturns` assumes that a thread that can go on goes
on, which is the operating system's scheduling; players, games and crashes owe
nothing. `Settles` assumes that owners pump and that time passes (weak
fairness), and that what is offered to a pump again and again is heard in one
of them (strong fairness), which holds because every pump polls all that has
arrived (session.cpp:750-760). `Quits` assumes only that while any thread can
go on some thread does; nobody has to ask, to fail or to stop.

**Symmetry** is used only where no fairness tells the alike apart: workers in
the Saves runs but `saves_stop`, connections in `session_bounds`, consumers in
`assets_reload`, and in `install_stopped` the two Compositions that no channel
offers and that name the same Builds.

## 4. Findings

The one finding is a run whose counterexample shows the code doing what a
comment says it does not.

- *A crash may leave part of a save* (`saves_torn`). stop() takes a clear flag
  for the end of the task (saves.cpp:155) and drains on its own thread, while
  the task, which clears the flag and looks at the queue again, may take the
  flag once more and drain beside it; two replacements of one file then share
  its partial file. world_save/store.h:41-44 says that a crash leaves the old
  save or the new one. The other properties of the Saves runs are stated up to
  that drain (`Up`), or for a Host that nothing stops (`Stops = FALSE`).

Met on the way, and not the subject of a run:

- *A removed component stays.* A publish sends only values that are present
  (publish.cpp:772-803) and a client only sets or inserts (client.cpp:386-392),
  so a component removed from an entity that keeps another stays on the mirror.
- *A player past the bound.* The connection's own player is declared without a
  look at the mapping bound (publish.cpp:591-594). If it first holds a
  replicated value when the bound is already full, it is mapped past it, and a
  client under the same bound closes (client.cpp:136-137).
  `replication_interest` therefore has a player who holds a value from the
  first tick (`Late = FALSE`), as every game whose player is spawned whole does.
- *A gap in the labels.* A pace may make the client jump past ticks it has not
  labelled (client.cpp:264-273) while earlier commands are not consumed. A
  window says its newest tick alone (client.cpp:805-828) and the server places
  its commands on the consecutive ticks that end there (server.cpp:213-232), so
  that those behind the gap are read as later ticks', and one may be played
  twice; records.h:151-153 and client.cpp:240-241 promise otherwise.
  `InTheirTicks` says all until such a gap and what still holds past it.
- *A player who comes back at once finds an older save.* joined() reads the
  store (saves.cpp:174) while what leaving() captured is on the queue. And a
  keep queued after the last pop of the task's second drain, before the flag is
  cleared, waits for the next keep or the stop (saves.cpp:293-296).
- *An early record ends an honest client.* A server may send records from its
  accept on, and QUIC may deliver an event stream before the control stream's
  accept; the client, awaiting the verdict, ends the connection
  (session.cpp:416). A client may also be told that a queue was exhausted where
  the server closed for another reason, when the close overtakes its own
  connecting.
- *Prediction that starts late.* A state that is not whole confirms with the
  values it gave; and where prediction starts from a whole state older than a
  component it already had from a later, partial one, a compare is made with
  that component as it was later (`BaseIsServers` leaves this out, and says
  so). A rollback takes back effects at ticks the server has consumed.
- *Reloads.* A catalog that returns to an earlier revision while that revision's
  form is retiring lets a request join the retiring entry (assets.cpp:170-175),
  which waits for a form that never comes, until the slot is freed under it
  (:505) with its interest still counted: the slot's next use starts with one
  too many and does not become evictable, where assets.h:156 has the last
  interest going make it so; and the request, once past its deadline, may take
  an interest of another's (:565-573). beginReload() leaves retiring forms out
  of the same search (:264-272). A candidate made resident while others load may
  be requested, released and evicted by a third party, and the entry it was to
  replace then keeps its old revision unannounced. In `assets_reload` no catalog
  returns to a revision, and its two requests leave none for a third party.
- *A save that does not open is written over.* saves.cpp:65-71 says that a kept
  save that does not read never is, but a file that cannot be opened, for
  whatever reason, is answered as absent (world_save/store.cpp:44-46): the
  player or the World starts fresh (saves.cpp:175-178, 238-245) and the next
  keep replaces the file, readable or not. `UnreadStays` therefore speaks of
  slots that did not come to that (`missed`). The other way about, a read that
  fails once refuses a player, or a start, whose save is good.
- *A report over a failed flush.* replaceFile() calls a replacement done whether
  the directory was flushed or not (base/files.cpp:176-184, 212-213), and on
  Windows it never is: the power may take back a save that was reported kept.
  `ReportedStays` says this of such slots alone (`unsure`).
- *Renames that nobody flushes.* install/src/files.h:22-24 says that a published
  file is whole or absent after a crash, since its directory is flushed. But the
  flush may fail unheard, and a process stopped after the rename
  (install/src/files.cpp:57) and before it (:62) leaves it to a retry, which
  finds the blob, the Build or the pointer there and passes it over
  (installation.cpp:174, 193, 230-232). The power may then take a blob or a part
  of a Build that a durable pointer names, or give back an older pointer, whose
  Compositions a collect may have removed from meanwhile and whose channel's
  sequence is past it; packaging.md:50 says that a library interrupted at any
  moment is either the old one or the new one. `KeptWhole` and `SequenceFollows`
  except exactly this (`lost`, `unflushed`).
- *A good blob removed.* A blob held that cannot be read at the moment is taken
  for damaged (content/library.cpp:157-165) and removed to be fetched again
  (installation.cpp:146-149). If the origin then fails, the active Composition
  is without a blob it had, where installation.h:11-13 says that an update
  stopped at any point leaves the installed state as it was.
- *A broken Build stays refused.* A crash within collect()'s removal of a Build
  leaves part of it, as a power failure may of one whose files were not flushed,
  and a damaged manifest cannot be read: an update that names the Build is then
  refused (installation.cpp:174-175) and heal() does not repair it, until
  collect() runs again, where the header promises a Build already held is
  verified and healed. One the active Composition names collect() refuses too.
- *A pointer that is not seen.* Where the file system fails to answer whether
  the installed pointer is there, open() takes the library as empty
  (installation.cpp:76), and a collect would remove all of it; a follow would
  take its channel as new (follow.cpp:62). The model assumes that it answers.
- *A cancellation without a reason.* cancelled() may answer by a deadline while
  the cancel of an expired ancestor, won by another thread, has not reached the
  scope, so that `*scope.reason()` (operation.h:229) reads nothing; deadlines
  have no caller outside tests. invalidate() between an operation's look at its
  generation and its delivery (operation.h:212-222) lets through a result it
  should supersede; it has no caller outside tests either. A task that is helped
  above another and waits for that one's own handle would wait for ever.

## 5. What is proved

All by TLAPS, for every value of the constants that satisfies the modules'
named assumptions: any number of entities, values, workers, players,
connections, participants and tasks, any game, any library, and any bounds.

**Replication.** Everything its runs check but `Converges`: `TypeOK`,
`AckedIsMirrored`, `HeldIsShown`, `NeverOlder`, `WholeIsWhole`, `NoOrphan`,
`OwnedIsPlayer`, `NeverEnded`, `NothingUnmapped` and `SettledIsShown`.
`HeldIsShown` is far from inductive: that an acknowledged tick implies a shown
value depends on what every datagram still under way carries, and on what every
acknowledgement under way covers. The inductive invariant `IInv` is

- `Streams`: no two mappings share an ID, every ID met anywhere was given, no
  retirement under way names a mapping, what is acknowledged is mirrored;
- `Numbering`: datagrams are of ticks gone by, each under its own sequence, and
  what the server remembers of one is what it carried;
- `Records`: a record under way is of an acknowledged mapping and, unless older
  than the last change, carries the value last sent;
- `Copies`: a copy as new as the last change holds the value last sent, and is
  as new as the server was told;
- `Applied`: what was received, or is acknowledged anywhere as received, has
  been applied or superseded;

with `TypeOK` and `AckedIsMirrored`. The publish, which is most of the module,
is summed up once (`PublishStep`) by what the other parts rely on: mappings
change only in known ways, sequences grow, each new datagram carries values of
acknowledged mappings at this tick. The rest is one lemma for each action. The
others rest on `IInv` and on an invariant of their own:

- `WholeKnown`: a state just made that says the player is whole carries each of
  its values that the server does not know the client to hold. What is known so
  is shown (`HeldIsShown`), and a client that has applied it keeps it.
- `Known`: what the client mirrors, or has a declaration of on its way, is
  mapped, or its retirement is behind it on the control stream; so nothing is
  orphaned, and the client's own entity is the player's.
- `Answers`: what the client answers is the oldest of the runs declared and not
  answered, in order, whole. `StruckNever` says what follows for every client
  that keeps to the protocol; `NeverEnded` needs an argument about bounds
  besides: it holds if the client's is above the server's (`EndedNever`), or is
  no less and the player stays in the World (`EndedNeverOf`). Between the two
  lies the player past the bound of section 4.
- `Recent` and `Returned`: the changes kept are those of the latest publishes,
  one each and no older than a period, and what is present has come back since
  it was last gone. From them, that the fast path leaves nothing out
  (`UnmappedNothing`: for a connection without an interest line, as the property
  says) and that an incremental look leaves out only what the client shows
  (`SettledShown`).

**InputLane.** `InTheirTicks` (`TicksTheirOwn`) and that a command is held for
at most `HoldLast` ticks after its own (`HeldInReach`). The invariant `LaneInv`
places every command wherever it is: in the client's list, in a window under
way, waiting at the server, played; each under its own tick until a gap, and
under a tick not before its own after one.

**Prediction.** `SinkIsServed`: the detailed module implements `EffectSink`. The
initial states map to its initial state, and every step tells presentation of
each effect what the abstract one may, or nothing; the proof follows what each
part of a step (advance, confirm, forget, roll back) does to the ledger and the
sink. It rests on `PredictionTypes`, where the recursion over resimulated ticks
is shown to be defined by the least-number principle. The lane's guarantee
carries over (`PredictedTicksTheirOwn`), for every step of the composition is
one of the lane's or leaves it alone.

`PlayedAsTaken` (`HoldsAlike`) compares two holds that never meet: what the
server plays at a tick is told from the last command that came in time (`HoldsOn`),
and what the client takes it to play is told from its own labels; when all came
the two are the same. `ShownAsEmitted` (`ShownIsEmitted`) rests on
`AheadEmits`: the ledger holds, of every tick ahead, what the present prediction
emits there. `BaseAsServers` (`BaseIsServers`) rests on `BaseInv`, which follows
a component from the server's player to the client: a state gives what was true
at its tick (`GivenTrue`); what was sent since a change is what was last sent
(`SentSince`); the server takes no more for held than was applied
(`AcksApplied`); what a whole state leaves out has stood since a tick the client
has applied (`WholeStands`); and what the client knows it heard (`KnownHeard`).

**Saves.** `OneWriter` rests on `FlagInv`: the flag is set exactly while some
thread is between taking and clearing it, and only stop()'s drain goes without.
`LaterKept` rests on `Order`: the queue is ordered by capture, what a thread
writes is older than all of it and newer than what is kept. `NeverTorn` and
`ReportedStays` hold for a Host that nothing stops (`~Stops`), from `Whole`:
every file is whole on the disk as well as in place, what is in place is as new
as what was reported, and so is the disk but for slots last reported over a
flush that failed. `UnreadStays` needs no such assumption and rests on `Left`:
nothing of a slot that did not read is queued, in hand, or half made, unless
this process once took it as absent; what the disk holds of a slot that does not
read is that same file, so that no power failure brings another.

**Session.** `WithinBounds`: a server keeps no more connections than its bound,
and admits no more than it has places, for any number of clients. The proof
sorts every action by what it does to the server's side of a connection (leaves
its phase or ends it, takes it in, admits it) and counts.

The other five, `OwnersStory`, `OneEpoch`, `EventsKept`, `FramesFirst` and
`RejectionArrives`, are about one connection, and follow from one invariant of
it (`ConnectionsKept`), which says of both sides and of all that is on its way
that:

- nothing is there before the client asks, and the server's provider says first
  that it asked (`AskedOf`);
- an owner has been told of its admission before anything of the game and of an
  end last (`Story`), and a client has only been told the epoch its server was
  told first (`EpochOf`);
- a close was sent by a server that is done, and one that rejected had held the
  client until its deadline (`ClosingOf`);
- no datagram is under way, or heard, ahead of a frame it counts (`FramesOf`);
- the records told and under way are numbered in order, and none before one of
  them is missing unless its owner is done with the connection (`EventsOf`).

Every action is shown to be one of three things on one connection: a side's
`Turn` (it takes some of what has arrived, and keeps, sends, tells), a provider
`Failing`, or a connection that `Begins`; and that each of the three keeps the
invariant is shown once. The handlers differ only in the turn they take.

**Assets.** `BudgetKept`, `HandlesName` and `MovedTogether` hold whatever the
consumers ask and whatever the catalogs bring, from `AssetsInv`: the set is
`Sound` (its bytes are those of the forms held and within the budget, and a
candidate replaces a live form of its resource at another revision, unless that
form's slot has another use), the candidates are of the newest catalog once it
is reconciled, and a handle's slot is in the use it was taken for or in a later
one. `InterestCounted` and `NothingWaits` need that what each entry counts is
the requesters interested in it, and that none is interested in a form that
retires or may be evicted (`Wanted`). That is no invariant of the code: it is
lost when a catalog brings back a revision whose replaced form a consumer still
holds (section 4). So both are proved of every behaviour in which no catalog
does that: `Spec /\ [][BringsNoneBack]_vars => []InterestCounted`. Nothing else
is assumed of the catalogs, and the hypothesis says something only of the step
that publishes one.

An update is four passes over the slots. Each step of each is put as changes of
one entry (`Put`), which keep what is sound and wanted (`Goes`); a pass is a
function on the slots, defined and kept within what its steps keep by the
least-number principle (`PassExists`, `Climbs`), which is also how `HeldBytes`,
a sum over the slots, follows one entry's change (`HeldPut`).

**Composition.** `NothingOutlived`, `Counted` and `AllRetired`, from one
invariant, `QuitInv`. `TaskInv` says of the work that what is queued waits once
and under its own priority, that a JobScope lives exactly while its task's work
may ask or waits, that a scope lives while any of its work is in hand and
counts it. `Places` says of the Host's thread what lives in each phase: the
objects, scopes and quotas of a first part of the plan, and who is quiesced. A
step of a thread is summed up once (`Carries`). The step that needs the whole is
`Joined`: a count of none says that no operation of the participant is in hand,
and no job of a job can be either, for a job in hand has its parent in hand and
no set of jobs lies under itself (`Forest`, `NoneOf`). So nothing of it is
queued when its quota is retired, and the retirement is not refused.

**Install.** `KeptWhole`, `RetainedApart` and `SequenceFollows`, from `KeptInv`:
what is shown whole is durable unless it awaits its flush or was left without
(`Durables`), where a writer is and what for (`Phases`), what an update has
verified is held or lost since, and what it has published is held (`Progress`),
and all that either the shown pointer or, where none was left unflushed, the
durable one needs is lost or `Safe` (`Kept`): held, durable unless left
unflushed, and no Build that is being published, which a power failure might
break. `KeptWhole` alone says nothing of what the power may leave; `Safe` is what
a power failure turns into held or lost. What a writer changes of the disk is a
thing published (`PublishKept`), the pointer moved (`PointToKept`), what no
pointer needs removed (`RemoveKept`), or a blob that is thereby lost.

## 6. What is only model-checked, and why

- Liveness (`Converges`, `StopReturns`, `Settles`, `Quits`): proofs under
  fairness are outside what the installed provers do. `NothingWaits`, which is
  proved, says in its stead of Assets that whatever waits has something to wait
  for.
- What a recursive definition computes for every input cannot be proved by
  induction over it. Where one is met (the ticks of a resimulation, the passes
  over an asset set's slots), the proofs show that it is defined, of its type,
  and keeps what each of its steps keeps, and need no more.

Everything else a run checks is stated by a theorem of section 5, some with a
hypothesis that the run satisfies by its constants: `NeverTorn` and
`ReportedStays` for a Host nothing stops, `NeverEnded` for bounds or a player as
above, `InterestCounted` and `NothingWaits` for catalogs that bring back nothing
still held.

## 7. Not modelled, and plan

In the order of what they would add:

1. **Cancellation** (`execution/cancellation.cpp`): the tree of scopes, the
   compare-and-swap on a reason, deadlines, callbacks that run once and not
   after their removal. Section 4 says what a reading of it met.
2. **Checkpoints** beside saves, which share the executors and the Host's
   phases: one capture moved between three threads.
3. **Replication's memory** of retired mappings, and what lag compensation reads
   of it (`sentSince`, server.cpp:662). **Session's** strikes within their
   window and several event lanes.
4. **World**: slots and generations, deferred commands; a handle names at most
   one entity ever. It is sequential, and its tests reach most of it.
5. **Authoring**: transactions, generations, bounded undo, undo rebased over
   what other editors changed since.
6. **Audio's rings** of one producer and one consumer, whose hazards are the
   memory model's, below what a step of TLA+ shows; **Diagnostics**' bounded
   emission with counted drops.

Left out for good: that the lead between a client and a server settles under
pacing (client.cpp:253) depends on how long a datagram takes, and needs a timed
model; the QUIC library's and the browser's own behaviour is theirs; numeric
code and conversions have no behaviour over time; studio, tools and launcher
assemble the parts above.
