# CrossBag: a TLA+ verification project

CrossBag synchronises directories between machines over an Easytier overlay
network. This directory holds TLA+ models of its components, translated from the
Rust source, TLC configurations that check them on small instances, and TLAPS
proofs of the safety properties for every value of the constants. Source lines
are given as `file.rs:line`; the files are in `src/src/`. `PROJECT.json` maps
every definition to the lines it models.

## 1. The system

| Component | State | Operations | Talks to |
|---|---|---|---|
| NetworkManager (`network.rs`) | peer table (`state`, `write_tx` per peer) behind an `RwLock`, `running` flag | connect loop, writer and reader task per connection, command handler, `stop`, accept loop | daemon (two unbounded channels), peers (TCP) |
| SyncDaemon (`daemon.rs`) | action queue, one `SyncState` per pair | one handler per `SyncAction` | network (`NetworkCommand`), watcher bridge, timers |
| SyncState (`state.rs`) | `files`: path -> size, second, hash; the JSON state file | `load`, `incremental_update`, `save` | daemon, file system |
| SyncEngine (`sync.rs`) | `index_cache` (written, never read) | `build_file_index`, `diff_indexes`, `full_sync`, chunks | daemon |
| EasytierManager (`easytier.rs`) | child handle, `restart_count` | `start` and three siblings, `health_check`, `stop`, drop | child process; `serve`, `start-connect`, `connect` |
| Pairing (`pairing.rs`) | code with its token, the exchange on one TCP connection | listener, connector, saving the peer | configuration file, EasytierManager |
| Pairing code (`pairing.rs:30-251`) | none | `encode`, `decode`, `verify_network` | `start-connect` shows it, a user types it into `connect` |
| FileWatcher, bridge (`watcher.rs:14-170`, `daemon.rs:369-418`) | event channel, batch | `watch_path`, `start`, `flush_batch` | operating system, daemon |
| ChangeCollector (`watcher.rs:172-229`) | buffer, deadline | `collect_batch` | FileWatcher; no command uses it |
| Configuration (`config.rs`) | the TOML file, which nothing locks | load, save, validate | all commands |
| Commands (`main.rs`, `cli.rs`) | the configuration each has loaded | `init`, `add`, `serve`, `start-connect`, `connect`; `status`, `list`, `sync`, `service` | all of the above |
| Protocol (`protocol.rs`), OS service (`service.rs`) | none | message kinds; calls of the service managers | network, pairing |

What is hard here:

- *Overlapping connections.* The tasks of a connection outlive its place in the
  table and clean up by peer, not by connection (`network.rs:210-230`).
- *A lock held across an await.* The command handler keeps the table's read guard
  while it waits for room in a bounded channel (`network.rs:304-310`).
- *Stale snapshots.* The connect loop works through a snapshot of the table; the
  daemons compare indexes taken at different times.
- *A cache keyed by coarse stamps*, over a directory that changes during the walk,
  persisted without atomicity (`state.rs:71-88, 174`).
- *A child process* that may exit between any two steps, with a health check and a
  stop that share its manager (`main.rs:153-185`).
- *An exchange with no timeout on one side*, stale codes and wrong partners
  (`pairing.rs:317-619`).
- *A file that several commands load, change and write whole*, one of which waits for a
  day between the two; `fs::write` truncates before it writes (`config.rs:340`).
- *Merged events*: a debounce window, the end of the watcher and its deadline
  (`watcher.rs:189-219`).
- *A code that people type*, with bit arithmetic on both sides (`pairing.rs:66-116`).
- *A lossy path.* Commands for a peer without a channel are dropped and nothing is
  ever sent again except by a later index.

For each component, correct means:

- network: the table never shows a connected peer without a channel, or an old
  channel; sends cannot deadlock; a message is read at most once and in order per
  connection; a peer that can be reached is connected in the end;
- state: what the cache makes of the files is what a full rebuild would make;
- daemon and engine: two nodes take opposite sides on every path they differ on;
  a node is asked only for what it announced; a file is sent whole, in one
  version; the exchange ends;
- easytier: one process, a bounded number of restarts, stop ends and touches its
  child only, a crash does not go unnoticed;
- configuration: whatever commands overlap, and wherever a save is cut short, a file that
  can be loaded is one `serve` accepts; commands one after the other lose nothing, however
  long they wait;
- watcher and collector: an edit is reported to the daemon; merging hides no path;
- pairing code: what is typed is read as it was meant, or refused;
- pairing: only the machine and session of the code pair, once, and the connector
  never believes in a pairing the listener does not have.

`PROJECT.json` lists the hazards at their lines, with the properties that cover
them, or a note where none does yet.

## 2. Modules

| Module | Models | State and actions |
|---|---|---|
| `PeerConnections` | outgoing half of NetworkManager | `state`, `tx` are the table; a connection is a number and has `owner`, `sock`, `writer`, `reader`, `queue` (the write channel), `wire` (the socket). One action per lock section or await of the loop, the tasks, the handler and `stop`. |
| `LossyDelivery` | what the network promises the daemon | offered commands reach each addressee at most once, or are lost |
| `SyncState` | `state.rs`, `SyncDaemon::new`, `handle_local_changes` | the directory (`kind`, `content`, `mtime`), the cache, the state file, the walk one entry at a time: `VisitFile` reads the metadata, `ReuseHash`/`HashFile`/`HashFails` the hash; a directory gets size 0 and the time of the call (`state.rs:148-155`), in `FullIndex` its metadata (`sync.rs:115-147`) |
| `FileIndexes` | `diff_indexes`, `is_same_as` | pure operators on indexes |
| `SyncDaemon` | the action loop on every node, with the messages between nodes | one action per handler, except that a request is served file by file and chunk by chunk; `ReadFails` ends it at any path that cannot be read |
| `EasytierManager` | child, `start`, `health_check`, `stop`, the tasks of the three commands | `holder` is the mutex of `main.rs:84`; `child = "reaped"` is a handle whose status was read |
| `Pairing` | `wait_for_pairing`, `handle_pairing_connection`, `PairingConnector::connect`, `save_peer_to_config` | several listeners (machines) with several sessions each, and several runs of `connect`; what dials a listener may also be another machine's `serve`, whose handshake is refused without an answer (`PeerDials`, `RejectRequest`) |
| `PairingCode` | the codec of the pairing code | pure operators; a byte is a number, a character a one-letter string; `EncodeByte` and `DecodeChar` are the bodies of the loops, with their accumulator |
| `ConfigFile` | the file under `load`, `save`, `validate` | `file` is a configuration (its peers and pairs), `Missing`, `Empty` (truncated) or `Garbage` (does not parse). A save cut short (`CutShort`) leaves any of these or a beginning of its text that loads: serde fills in what is missing. `torn` says where the text comes from: `"no"`, `"cut"`, or `"spliced"` when a text cut short and another lie over one another, which may load as any of `Mixtures` |
| `Commands` | `main.rs`: `init`, `add`, `serve`, `start-connect`, `connect`, with `ConfigFile` and `PairingCode` | runs of commands as processes; a save is two steps (`BeginSave` truncates, `EndSave` writes), so others read or write between them |
| `FileWatcher` | the watcher's callback, thread and channel, and a directory that other programs edit | `Translate` is the callback; `unseen` notes edits it does not report: kinds it does not translate, and errors of notify (`watcher.rs:127`) |
| `ChangeCollector` | `collect_batch` | extends `FileWatcher`; `cpc` is the await or test it stands at, `remaining` the time to the deadline |
| `WatcherBridge` | `handle_serve`'s wiring and `spawn_watcher_bridge` | extends `FileWatcher`; `owner` is who has the watcher |
| `MC...` | instances for TLC | constants and symmetry only |
| `..._proofs` | theorems and proofs | |

How they fit: `PeerConnections` is shown to implement `LossyDelivery`
(`DeliveryRefined`, with the refinement mapping `InFlight`, `ReadBy`). `SyncDaemon`
assumes of its network no more than `LossyDelivery` promises: its `net` loses, delays
and reorders. (`net` is a set, so two equal messages under way are one; a handler
that gets a message twice is reached by losing the second.) `SyncDaemon` takes the
index that `handle_local_changes` sends as a snapshot of the directory;
`UpdateMatchesRebuild` of `SyncState` is what justifies it when nothing changes under
the walk: files are listed as a rebuild lists them. Directories are not; the walk gives
them the time of the call, so a directory that nobody touched looks changed to
`diff_indexes`, and `SyncDaemon` sends them with the current time too. `FileIndexes` is shared. `FileWatcher` is composed with each of its two readers.
`Commands` has the exchange of `Pairing` as one step that succeeds or fails, and adds what
surrounds it: the code is typed and read, the peer goes into a file others use.

Definitions named `...Variant` are plausible slips in the definition that follows
them. No specification uses them; each one breaks the property `PROJECT.json`
pairs it with under `mutants`, which shows that the property depends on the code.

Conventions of the models:

- A content stands for its hash: BLAKE3 is taken as injective.
- Times are whole seconds, as `as_secs()` makes them (`state.rs:165`, `sync.rs:123`).
- Exclude patterns and hidden names only decide which paths exist for the walk.
- The write lock of the peer table is not a variable: `WriteLockFree` says that no
  send holds the read guard, and every write section is one action.
- `LocalChange` actions come through `action_sender`, which `daemon.rs:97` documents
  as the injection point. The `serve` command itself never submits one: see the run
  `serve_watch`.
- In `Pairing` a token is a pair of listener and session, so two sessions never draw
  the same four random bytes.

## 3. Runs

| Run | What it asks | Bounds, and why they are enough |
|---|---|---|
| `conn_safety` | table, channels, lock, order, refinement | 2 peers, 2 connections, 2 commands, channel and socket of capacity 1, silent peers and `stop`. Two connections to one peer are the overlap that the cleanups race in; capacity 1 makes a full channel; two commands make order and a blocked second send. 1.5 million states. |
| `conn_live` | the liveness of loop, handler and channel | 1 peer that closes rather than vanishes, 3 connections, 2 commands, at most 4 of both together (`MaxTotal`), channel and socket of capacity 1, `stop` at any time. `EventuallyConnected` excuses a peer only at the last connection, so after the first one and its late cleanups it must be connected again. Two commands with capacity 1 make the handler wait at a full channel with the read guard held. 103 thousand states. |
| `conn_stale` (violation) | `HealthyConnectionKept` | |
| `state_cache` | the cache against a full rebuild | 2 paths, 2 contents of one size, 2 seconds, each path written at most once per second; paths become directories and back, entries appear in directories (`TouchDir`, which changes their mtime), `DirSize` is not 0; crashes, torn files, failing walks. 2.3 million states. |
| `easytier` | one process, restarts, stop, crashes | `max_restarts` 3; the state space is finite without further bounds |
| `easytier_signal` (violation) | `OnlyChildSignalled` | |
| `sync_exchange` | decisions, requests, chunks, rest | 2 nodes paired with each other, 1 path (decisions are per path), a content of one chunk and one of two, 1 edit, 2 submitted actions, 2 seconds; the first directories are arbitrary. With 2 edits (1.2 million states) it passes as well. |
| `pairing` | both sides, codes, termination | 2 listeners, 2 runs of `connect` on one machine, 2 sessions per listener: an old code, another machine's code, a second connector for the same code and the dial of a `serve` all occur |
| `pairing_address` (violation) | `AddressIsRemote` | |
| `commands` | the configuration file under overlapping commands; the codec on typed text | 1 `init`, 2 `add`, 1 `start-connect`, 1 `connect`, 1 `serve`; 2 nodes, 2 pair ids: two writers overlap in every way, a pair may name a peer the other command's file lacks, two adds compete for one id or leave two pairs, of which a save cut short may leave one. 1 mixture, inconsistent on purpose. 3 codes (one direct, one without an address, one of another network), each typed in 3 right and 5 wrong ways. 381 thousand states. |
| `collector` | merging, the end of the watcher, the deadline | 2 paths, 2 contents, 2 changes in the channel, a buffer of 2 while edits go on, a window of 1 tick; edits that notify reports with an unspecific kind or as an error |
| `serve_watch` (violation) | `ChangesReachDaemon` | 1 watched pair |

Deadlock is checked in `state_cache` and `collector`. Elsewhere a behaviour really ends:
the command returns, or the bounds on connections, edits and sessions are used up.

Each violation run shows one disagreement between the code and what its comments say:

- `conn_stale`: a reader notices that its connection died and marks the peer
  Disconnected, the loop dials and installs a new connection, and then the old
  writer's cleanup drops the *new* channel (`network.rs:210-217`). The table is
  "活跃连接" (`network.rs:50`).
- `easytier_signal`: a child that exits early is reaped by `wait_for_ready` but its
  handle stays, and `serve` only warns and goes on (`main.rs:82-85`); at Ctrl-C,
  before a health check has replaced it, `stop` computes pid 0, and
  `kill(0, SIGTERM)` is for the whole process group (`easytier.rs:272-287, 380`).
- `pairing_address`: `PeerInfo` is "配对成功后获得的远端节点信息" (`pairing.rs:261`), but
  the listener fills in its own address (`pairing.rs:481`).
- `serve_watch`: "启动文件监控 → 注入到 daemon" (`main.rs:113`), but the watcher moves into a
  bridge that only takes its receiver (`daemon.rs:377`); `start` is called by `spawn`
  alone, which `serve` calls only when there is nothing to watch (`main.rs:128-132`). With
  the watcher started, the property holds in the same instance.

Three more divergences show in the models and are kept out of the properties by a
proviso that says so: a peer that goes silent before its HandshakeAck stops the connect
loop for all peers (`EveryTurnComes` and `EventuallyConnected` need `MayVanish = FALSE`;
`network.rs:613-628` has no timeout); a file rewritten with the same size in the same second keeps its old hash
(`ReuseIsSound` needs `Spaced`; `state.rs:164`); a path in a request that cannot be read,
a directory for one, which indexes list like a file, ends the whole request (`ReadFails`
of `SyncDaemon`; `daemon.rs:312`).

Bounds with a name: `MaxConn`, `MaxMsg` and `MaxTotal` (connections, commands, both
together; 4 in `conn_safety` and 2 in `conn_stale`, where it excludes nothing), `Cap`,
`WireCap`, `MaxTime`, `MaxEdits`, `MaxActions`, `MaxSessions`, `MaxQueue`, `MaxBatch`. The
theorems hold for every value of them.

## 4. Fairness

- `PeerConnections`: the tasks run under the tokio scheduler (WF per task); its `RwLock`
  is FIFO, so a cleanup gets its turn. A peer that is dialed again and again accepts
  in the end (SF on `DialOk` and `AckOk`); without it nothing could ever be connected.
  A socket that closed is noticed; one that is merely silent need not be. Nothing is
  assumed of breaks, of `stop` or of the daemon.
- `EasytierManager`: tasks run; the tokio mutex is FIFO, so a waiting `stop` gets it (SF);
  the health check ticks and `try_wait` does not fail for ever. The child never has
  to exit and the user never has to stop the program.
- `SyncDaemon`: the daemons run and the network gets rid of each message, by losing it
  even. No edit, timer or watcher event has to happen.
- `ChangeCollector`: the task that awaits `collect_batch` runs and time passes while a
  window is open. No edit has to happen, the watcher need not end, and the caller need not
  ask for the next batch.
- `WatcherBridge`: `serve` gets through its wiring, the spawned thread and task run.
- `Pairing`: only the timer of `wait_for_pairing` and the save after it. No connector is
  assumed to do anything.

## 5. Proofs

The assumptions are the named `ASSUME`s of the modules: finite sets of peers, natural
bounds, model values that differ, mixtures that are configurations (any), and that a pairing code
has the layout of the struct (four fields of four bytes, a port of 16 bits). Nothing is
assumed of which half-written configuration files load: `Beginnings` says it, from the order
in which the text is written and the serde defaults. `Spec` has no fairness, so the theorems hold for
every schedule. Every invariant and every action property of a passing run is a theorem.

| Module | Theorems | Argument |
|---|---|---|
| `PeerConnections_proofs`, the table | `TypeCorrect`, `ConnectedPeersHaveChannels`, `ChannelsAreNewest`, `ConnectedPeersAreNotDialed`, `StopLeavesAtMostOneChannel`, `BlockedSendsCanEnd` | One inductive invariant. `ChannelIsNewest` and `BlockedSendCanEnd` are not inductive alone: they need that connections are opened in order and owned once, that tasks exist for installed connections only, that the loop's connection is the newest one while it is dialed and installed, and that the table is not written while a send is in hand. |
| | `OnlyOlderTasksDisconnect` | What the run `conn_stale` refutes fails in this way only: while the manager runs, a peer whose socket is up is called disconnected by a task of an *older* connection, never by the loop or by its own tasks. A writer ends only when its socket is down or the table has let go of its channel, a reader only when the socket is down (`DownInv`), so a task that cleans up beside a socket that is up belongs to another connection, and the channel in the table is the newest. |
| `PeerConnections_proofs`, the messages | `InOrderAlways`, `DeliveryImplemented` | The messages of a connection stand in one line: read by the peer, in the socket, in the write channel, in hand, submitted. The invariant (`DInv`) says that this line is increasing, and that two connections of one peer never hold the same message, whatever becomes of them. Order is then read off; for the refinement, `InFlightIs` says which pairs the mapping holds, a read takes exactly one of them away, a submission adds its addressees, and every other step can only lose some. |
| `SyncState_proofs` | `TypeCorrect`, `ReuseSound`, `UpdateRebuilds`, `AbsentPruned` | For soundness: no stamp lies in the future, the last write of a file is its mtime, and while a file is being hashed a stamp that still fits belongs to the content that is there. For the rebuild: while `quiet`, the entry of every path already visited stands for that of the full index (`StandsFor`): the same, or that of a directory whose time lies between its mtime and now. |
| `SyncDaemon_proofs` | `ListsAreDisjoint`, `ListsAreComplete`, `OffersAreRequested`, `SwapsAreTies`; `TypeCorrect`, `DecisionsAgreeAlways`, `AnnouncedOnly`, `FilesAreSentWhole` | The first four are about `diff_indexes` alone. Decisions: what a node requested is what `RemoteOnly` makes of the two indexes it last compared. Requests: every index under way, queued or compared lists announced paths only, and so does every request. Chunks: a path leaves the request's list when it is read, so nothing sent of it is of another version; of the file in hand all chunks below `next` have been sent. |
| `EasytierManager_proofs` | `TypeCorrect`, `RestartsBounded`, `SingleProcess` | Spawns never exceed one plus the restarts, less one while a start is pending; a process that `stop` waits for excludes a new one because the lock is held. |
| | `GroupSignalExplained` | What the run `easytier_signal` refutes: the signal for the whole group takes a `start` that failed and after which `stop` is still called. `connect` never gets there, `start-connect` only once it has fallen back to the standard mode, `serve` only if the last report of its health check, if there was one, was not Running (`ReapedInv`). |
| `Pairing_proofs` | `TypeCorrect`, `CodesPairOnce`, `CodesWereGiven`, `PairedOnBothSides` | None of the three is inductive alone. A request carries the code of its connector, and behind the token check the connector being served was given the code of the present session; a recorded pairing of the present session means that the listener has returned; until the response is sent nothing is under way to the connector, an acknowledgement in a channel exists only when the pairing was returned, and nothing but an acknowledgement follows the first message. |
| | `AddressesSaved` | What the run `pairing_address` refutes: `connect` saves the address of the machine it dialed, or none; `start-connect` saves its own, or none, under the connector's name, and never the connector's. A connector hears only of the machine it dialed (`HeardInv`). |
| `PairingCode_proofs` | `EncodedCodeDecodes`, `DecodingRegroupsBits` | For every code and for readable texts of every length. The bytes and the characters are digits of base 256 and 32; after each round of a loop the low bits of the accumulator are those that went in last, and what was put out are the bits before them (`Encoded`, `Decoded`). The two loops agree because 8 digits of 5 bits and 5 bytes hold the same bits. That dropping bits above the accumulator's width does no harm is part of it. |
| `Commands_proofs`, the file | `ConfigurationServes`, `SerialUpdatesSurvive` | The configuration in every process, read or changed, is consistent, because `load` accepts no other and each command checks what it adds; a beginning of a consistent text is consistent, because the peers are written before the pairs (`BeginningsOk`); so the file is consistent whenever it can be loaded, unless a save that was cut short overlapped another (`torn = "spliced"`), of which nothing is claimed. For updates: while no two sections overlap and no save is cut short, a process between load and save holds the file with its own change. |
| `Commands_proofs`, the code | `TypeCorrect`, `CodesAreReadBack`, `BytesAreTheBits` | What may be typed for a code *spells* its digits, with dashes, small letters and aliases anywhere; every such text decodes to the code. Of other texts it is shown that what they decode to, if they do, has the layout of a code (`DecodedType`) and the bits of the text. |
| `ChangeCollector_proofs` | `TypeCorrect`, `CollectorHidesNothing`, `EmptyBatchMeansEnd` | `NothingHidden` is inductive once written as: a path on which caller and directory differ is named by an event in the channel, in the buffer or in the batch on its way, or is `unseen`. Merging drops an event only where the buffer has one of the same path. |

The loops of the codec are recursive functions, and the library's induction theorems take
an operator that no installed prover can instantiate. `NatSetInduction` goes round this: it
is induction for a *set* of numbers, from `WFMin` and `NatLessThanWellFounded`, and
`LoopRuns` gets from it that a loop written as a recursive function has a value after each
round. Nothing about the codec is taken on trust.

Only model-checked: the liveness properties, because fairness and `ENABLED` are out of the
prover's reach: `EventuallyConnected`, `EveryTurnComes`, `CommandsDrain`, `AcceptedIsRead`,
`StopFinishes`, `CrashIsHandled`, `ComesToRest`, `ListenerEnds`, `BatchEnds`. The violation runs are
counterexamples and need no proof; three theorems say how far what they refute goes.

## 6. Not modelled, and the plan

Not modelled, with the reason:

- `service.rs`: it calls the operating system's service managers and keeps no state.
- `write_file_chunks`, `verify_file`, `add_peer_connection`, `NetworkManager::send_to_peer`:
  no command calls them. Received chunks are dropped (`network.rs:568`), so nothing is
  ever written and no property of convergence is stated.
- Bincode framing, message sizes, glob patterns, tool output: data that the properties
  do not look at.
- `pair.direction`: no code consults it.

- Settings other than peers and pairs: `load`, `save` and the commands carry them along.
- `max_restarts` 0: documented as unlimited (`config.rs:101`), but it means never
  (`easytier.rs:423`); `RestartsBounded` is proved for every value, 0 included.

What is left, in this order:

1. The receiving half of the network as a module of its own: `handle_incoming_connection`
   with its handshake, and the frame limit of 100 MB that only the receiver knows
   (`network.rs:667`).
2. The zero hash that sticks when a file could not be read (`state.rs:178`) as a property.
3. `status`, `list` and `sync` of `main.rs`, which read the configuration only.
