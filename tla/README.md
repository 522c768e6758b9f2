# A TLA+ model of soal

soal keeps the versions of a folder in a content-addressed vault and syncs
vaults between peers. This directory models it: modules that follow the Rust
source, TLC runs that check them on small instances, and TLAPS proofs of what
holds for every value of the constants.

Paths below are those of the repository (`src/src/vault.rs` is `vault.rs`).

## 1. The system

| Component | State | Operations | Modelled in |
|---|---|---|---|
| Vault store, `vault.rs`, `store.rs`, `commit.rs` | `HEAD`, `HEADS`, `commits/`, `trees/`, `chunks/` | `add_path`, `snapshot`, `merge_head`, `set_head_public`, imports, `gc_all` | `Vault` |
| Tree merge, `tree.rs` | a map from paths to entries | `merge_with_conflicts` | `TreeMerge`, `MergeLoop` |
| Sync engine, `sync.rs` | `sync/jobs/<target>.json`, the walk's queue | `fetch_dag`, `sync_head` | `SyncEngine` |
| Snapshot registry, `policy.rs` | `snapshots.json` | `register_snapshot`, `prune_snapshot_registry`, `apply_retention`, `protected_commit_roots` | `Upkeep`; as roots of gc in `Vault` |
| Scheduler, `policy.rs`, `schedule.rs` | `policy_state.json`, the clock | `snapshot_due`, `maybe_auto_snapshot`, `run_tick`, `run_for`, `force_auto_snapshot` | `Upkeep`; a tick's pins in `Replicas`, its gc in `Vault` |
| Head gossip, `network.rs`, `identity.rs` | `node.json`, the last sequence number received per vault and node | `announce_head_signed`, `validate_announcement`, `listen_for_heads_vault`, `persist_peers` | `HeadAnnounce` |
| Replication, `replication.rs` | `pins.json`, `peer_have.json`, `peer_health.json` | `ensure_local_pins`, `note_peer_has`, `replicate_head`, `estimated_replicas`, `rank_peers` | `Replicas` |
| Watcher, `watch.rs` | the channel, pending paths, debounce clock | event loop, `flush_pending` | `Watch` |
| Config, policy, members, keys, `vault.rs`, `invite.rs`, `policy.rs` | `vault.json`, `vault.key`, `vault.wrapped.json`, `policy.json` | `create_with_policy`, `open_with_passphrase`, `enable_passphrase`, `add_member`, `join_invite`, `apply_policy` | `VaultConfig` |
| Health and diff, `health.rs` | none | `assess_vault`, `assess_cluster_with_peers` | operators of `Replicas`; the diff is not |
| Formats, `codec.rs` | none | encode, decode, import | `Wire` |
| Chunking, `chunking.rs` | none | cut a file at content-defined places | not: a hash is an identity here |
| Blob transport, discovery, `network.rs` | connections | tickets, probes, transfers | as used by `SyncEngine` and `Replicas`; the rest is I/O of iroh |
| Facade and command line, `api.rs`, `main.rs` | none | forward to the above | as commands and guards of the modules |

How they interact. Every `soal` command is a process over one directory, and
nothing locks that directory; `soal watch` and `soal schedule` are long-lived
processes that call `add_path`, `snapshot` and (a tick of the scheduler)
`gc_all` next to whatever the user runs.
`sync` fetches objects through the network into the vault, then either replaces
`HEAD` (`set_head_public`) or merges (`merge_head`). `gc` reads the registry
(`protected_commit_roots`) to decide what the vault may delete. Gossip tells
other nodes about a new head; its receiver runs a sync.

What is hard here:

- *Overlap*: `HEAD` is read several times within one command, `HEADS`,
  `snapshots.json` and `node.json` are read, changed and written back.
- *Kills*: `HEAD`, `HEADS`, trees and imported objects are written in place
  (`fs::write`), so that a kill can leave them truncated; chunks and checkpoints
  go through a rename. A commit takes several files.
- *Retries*: a fetch resumes from a checkpoint that may be older, or newer, than
  the disk, after a gc for instance.
- *Peers*: objects arrive piece by piece; a peer may stop answering; gossip is
  lost, repeated and reordered.
- *gc*: marks and deletes while others add.
- *Time*: the watcher waits until it is quiet, the scheduler compares times that
  it reads from a clock somebody may set.
- *Old vaults*: opening one brings its files up to date, in several writes.

What makes each component correct: the vault never publishes or keeps a root
that cannot be restored, deletes nothing a root reaches, and loses nothing it
has acknowledged; an add changes only the paths added; a merge loses no file of
either side and can be repeated; a sync that says Ok has the whole history, and
one that was interrupted completes in the end; the registry keeps the newest
snapshots, and automatic ones come at their interval; the watcher forgets no
change it was told of; a vault that exists can be opened and never loses its
key; the notes about who has what survive, and reports do not make a loss look
like less; an object has one encoding.

## 2. The modules

`Trees` is the vocabulary: a tree maps paths to a content (one chunk each) or
`NoFile`. `TreeMerge` is the merge as a function of two trees, `MergeLoop` the
same loop one entry per step.

`VersionedFolder` is the abstract specification: a folder and the versions that
exist. `Vault` implements it (`ImplementsFolder`), with the tree of the commit
last written to `HEAD` as the folder.

`Vault` has one program counter per process and one action per access to the
disk that another process or a kill could come between.

| Code | Actions |
|---|---|
| `add_path` | `AddPath`, `StoreChunk` per chunk, `ReadHeadTree`, `SaveTree`, `WriteTree`, `ReadParents`, `SaveCommit`, `SetHead`, `WriteHead` |
| `snapshot` | `Snapshot` (reads `HEAD` once), the commit steps above, `LoadSnapshots`, `RegisterSnapshot`, `LoadSnapshots`, `ApplyRetention` |
| `merge_head` | `MergeHead`, `SaveTree` .. `WriteHead`, `SetHeads`, `WriteHeads` |
| `set_head_public` | `SetHeadPublic`, `SetHead`, `WriteHead`, `ReadHeads`, `SetHeads`, `WriteHeads` |
| `soal gc` | `Gc`, `LoadSnapshots`, `ApplyRetention`, `MarkChunks`, `SweepChunk` per file, `MarkObjects`, `SweepCommit`, `ListTrees`, `SweepTree`, `EndGc` |
| imports | `ImportCommit`, `ImportTree`, `ImportStoredChunk` |

`fs::write` is two actions: `SaveTree`/`WriteTree` and `SetHead`/`WriteHead`
truncate, then fill. `SetHeads`/`WriteHeads` do the same to
`HEADS`, whose truncated file reads as no tips, which is what the empty set says.
`record_head` reads `HEADS` a step before (`ReadHeads`), so that what another
process writes in between is overwritten. A CID is the position of a commit in the ghost sequence
`dag`; trees and chunks are named by their contents. The ghosts `acked` and
`tip` record what was published and what `HEAD` named last. `Crash` ends a
command at any step; the constant `Crashes` says whether it may land inside a
file write.

`SyncEngine` is `fetch_dag`: the fast path, the walk with its cap, failover
(`Available`), checkpoints after each object and every `CheckpointEvery` chunks,
verification and adoption. Around it: kills, also inside an import
(a truncated file that counts as present), gcs between runs, peers that come and
go.

`HeadFeed` is the abstract specification of announcing: each node numbers its
announcements for a vault upwards, whoever listens takes those of one node in
that order and each at most once, if the vault is one of `Ordered`. `HeadAnnounce`
implements it, with the vaults that one process at most listens for at a time as
the ordered ones (`Orderly`). Where two tasks listen for one vault through a
shared `Network`, both may accept the same announcement, the stored number may
go back, and it may be one that nobody has announced (`heads_digits`).

| Code | Actions |
|---|---|
| `NodeState::save`, `store_last_recv_seq` | `OpenTmp`, `WriteTmp`, `Rename` |
| `Network::open` with `load_or_create` | `Open`, the save of a new `node.json`, `Opened` |
| `announce_head_signed` with `next_announce_seq` | `NextAnnounceSeq`, the save, `Broadcast` |
| `add_peer`, `remove_peer` with `persist_peers` | `PersistPeers`, the save, `EndSend` |
| `listen_for_heads_vault` with `validate_announcement` | `Validate`, the save, `Accept` |

One home announces, another listens. Both save through a temporary file with a
fixed name and a rename, so that overlapping processes share the temporary file:
`tmp` is its contents, and `at` says where the file that a process has open is
by now (still the temporary one, renamed over the real one, or replaced). A
write into a file that another process has written (`Written`) leaves what sticks
out of the longer one: a `node.json` with a tail does not parse (`Mixed`), but
the digits of two numbers read as a third ("9" over "10" is 90), so numbers are
written out in `Digits`, to the constant `Base`. `Torn` is a truncated file.
Gossip is `said`, the set of all that was broadcast: a listener may get any
member, at any time, again, or never.

The other modules are each about files (or bytes) of their own:

- `Upkeep` is snapshots over time: a scheduler and a user, each with a list of
  steps left to do (`plan`). A snapshot is a number. An update of
  `snapshots.json` is `LoadLog`, `WriteLog`, `RenameLog`, through a temporary
  file both processes share. `RunTick` decides by `SnapshotDue` with its
  saturating subtraction, `SaveState` records the time at which the tick began.
  `RefreshPins` and `Collect` are the pins and the gc of a tick: they leave these
  files alone, but an error of the first ends the scheduler (`schedule.rs:38`).
  `SetClock` sets the clock forward or back. Ghosts measure real time
  (`elapsed`, `waited`) and how far the clock was set (`ahead`, `behind`).
- `Watch` is the watcher's loop (`Receive`, `Quiesce`, `Deadline`, `AddPending`
  per file, `EndFlush`) next to a folder in which files are saved, moved over
  each other, removed and read. The channel holds the events; an event may be
  lost. Time is `WatchTick`.
- `VaultConfig` is the files that make a vault. A client has the list of the
  file steps left of its command (`steps`) and its copy of the config; a write
  is a truncation and a fill, so that overlapping writes and kills are seen.
  `Open` includes both migrations of an old vault (the key out of the config,
  the missing id and number). A signature is the fields it covers, a wrapped key
  the passphrase and the id it is bound to.
- `Replicas` is the records of who has what. `LoadRecord`, `OpenDraft`,
  `FillDraft`, `RenameDraft` save `pins.json` and `peer_have.json`; `fd` says
  where the file a worker has open is by now, as `at` does in `HeadAnnounce`.
  The replica estimate, the ranking of the peers and the levels of the health
  reports are operators over this state, evaluated in each state the commands,
  damage to the disk, probes and time lead to.
- `Wire` is the CBOR of trees, commits and head announcements, as sequences of
  items with the size of their length field; whoever forwards them may lengthen
  a field, change a number, cut, append, or give a directory chunks. `Imports`
  is the test of the import functions: what decodes must encode to the same
  bytes.

`MCParts` runs these five and `MergeLoop`, none of which reads what another
writes: a behaviour is one of one part, chosen at the start (`scene`), and the
other parts stand still. `Overlap` does the same for commands of `Vault` at once:
a behaviour keeps to one mix of commands, inputs, peers and kills. `MCOverlap`
has three.

Simplifications, most of them in what may overlap:

- In `Vault` the load and the save of `snapshots.json` are a step each, so that one
  process saves over what another has saved, but a save is one step. The
  temporary file and its rename are in `Upkeep`, where the write of it is one
  step, and what two writes of such a file do is in `HeadAnnounce` and `Replicas`.
  Of two snapshots at once `vault_overlap` asks that what the registry lists is on
  disk, whichever of two versions of it was saved last.
- Lists of roots (`list_heads`, `protected_commit_roots`, the mark) are read in one
  action, from several files.
- In `Vault` an import is one action; torn imports and checkpoints are in
  `SyncEngine`, whose runs do not overlap.
- A tree entry has one chunk. A commit file is written in one action: its name
  is new, so that nothing refers to it before it is complete.
- Members, signatures and encryption are left out: they reject objects, and
  an object that is rejected here is one that a peer does not serve. Likewise
  signature, clock skew, vault and membership of an announcement: they are
  tested before the number, and reject without a trace.
- `HeadAnnounce` has announcements by vault id only. The older ones by vault
  name (`announce_head`, which nothing calls, and `listen_for_heads`, for a vault
  that cannot be opened) have a topic of their own; `listen_for_heads` tests the
  signature, neither tests nor stores the number, and its caller only prints.
- In `Upkeep` the policy does not change while the scheduler runs, a tick takes
  less than a second, and the clock is not set within one.
- In `Watch` the folder is flat, and the add of a file is one step: what it does
  to the vault is in `Vault`.
- In `VaultConfig` vaults are encrypted; two creations of one name do not race
  (`root.exists()` at `vault.rs:112` and the `create_dir_all` after it are one
  step); members are those besides the own node; the reads within an open are
  one step.
- In `Replicas` peers are configured by node id. `note_peer_has` is called with
  node ids and `rank_peers` looks them up under the peer string, so a peer
  configured by a ticket gets no points for what it has. A commit adds one chunk
  to those of its parent, and storing or fetching it is one step.
- `Wire` has the framed objects, not the JSON an old version wrote, which the
  decoders also take. Strings are opaque; the contents of a hash, a name or a
  message are not changed on the way, as another object is another object.

## 3. The runs

| Run | Question | Answer |
|---|---|---|
| `vault_history` | Does one command at a time, killed between file writes, keep every published version through adds, snapshots, retention and gc? | yes: `AddKeepsParentFiles`, `AckedKept`, `AddParentedToHead` |
| `vault_peers` | The same vault with peers' commits merged or adopted: are roots restorable, does gc keep them, is it the abstract folder? | yes: `TypeOK`, `RootsRestorable`, `GcKeepsRoots`, `ImplementsFolder` |
| `vault_overlap` | Two commands at once. Without gc, can adds, snapshots, merges and syncs damage a commit, killed or not? With gc, merges and adopted heads: can overlap alone leave a file truncated? | no and no: `RootsWithoutGc`, `AckedWithoutGc` (they can hide a commit), `QuietDiskIntact` |
| `parts` | Each part with files of its own; see below | yes: 21 properties |
| `sync_resume` | With failing peers, kills, torn imports and gcs: is `HEAD` restorable, does a walk that succeeds have the history, do checkpoints follow the disk, does a repeated sync complete? | yes, if the checkpoint is usable: `HeadsRestorable`, `WalkFetchesHistory`, `CheckpointFollowsDisk`, `Resumes` |
| `heads_feed` | With commands of the announcing home one after the other, kills anywhere and gossip that loses, repeats and reorders: are numbers unique, fresh for a lone listener and accepted by it in order, and is the key kept? | yes: `TypeOK`, `NumbersUnique`, `NextIsFresh`, `ImplementsFeed`, `KeyStays` |
| `vault_tornhead` | Do the documented roots survive a gc after a kill inside the write of `HEAD`? | no |
| `vault_staletree` | Does an add keep its parent's files when another runs next to it? | no |
| `merge_copies` | Does a second merge under the same label keep our files? | no |
| `sync_fastpath` | Does Ok mean that the history is here? | no |
| `heads_firststart` | Does the identity persist when two commands start a home at once? | no |
| `heads_digits` | Is the number stored one that was announced when two tasks listen for a vault? | no |

What `parts` asks of each part:

| Part | Properties | They say |
|---|---|---|
| `MergeLoop` | `KeepsOurs`, `KeepsTheirs`, `CountsConflicts`, `Remerging` | a merge of two folders that no merge has touched loses no file, counts each conflict once, and repeating it changes nothing |
| `Watch` | `Tracked`, `Debounced`, `Converges` | no change it was told of is forgotten; commits of a file are the debounce time apart; once the folder is calm it is in the vault |
| `Upkeep` | `RegistryIsNewest`, `RetentionHolds` | without overlap the registry is the newest snapshots in order, whatever is killed; with it, no more than the policy keeps |
| | `SnapshotsApart`, `GapBounded` | automatic snapshots are the interval apart, and come at the latest one poll after it, but for the jumps of the clock |
| `VaultConfig` | `KeyKept`, `Openable`, `PlainKeyGone` | the key is never lost but by a kill inside its write; a vault opens after kills between writes; after `protect` no plain key is left |
| | `MinAgrees`, `SignatureCovers` | policy and config agree once a policy command has returned; a signature on disk covers what it is on |
| `Replicas` | `NotedStays`, `PreferredFirst`, `LossIsCritical` | what a command noted alone stays; preferred peers come first and live ones before dead ones; a loss the report can see is critical |
| `Wire` | `OneWirePerObject` | what is sent is taken for what it was, and what is taken is the one encoding of it |
| all | `PartsTypeOK` | the types |

Three more configurations stand beside the runs that `PROJECT.json` lists. TLC
finds each property violated within seconds:

| Configuration | Question | Answer |
|---|---|---|
| `MCVault_lategc.cfg` | Does a gc keep what an add next to it publishes? (`GcKeepsRoots`) | no |
| `MCHeadAnnounce_twotasks.cfg` | Are numbers unique when two tasks announce through one `Network`? (`NumbersUnique`) | no |
| `MCParts_owncopy.cfg` | Does the estimate count no more replicas than there are nodes with a copy? (`EstimateCountsNodes`) | no |

The last six runs and these three are disagreements between the code and what it
says of itself.

- *Torn HEAD* (`vault_tornhead`). `set_head` truncates `HEAD` in place. If the
  process is killed there, `protected_commit_roots` fails as a whole, the
  fallback of its callers (`vault.rs:901`, `935`) has no root, and `gc --apply`
  deletes the registered snapshots and the other tips too.
- *Stale tree* (`vault_staletree`). `add_path` reads `HEAD` at line 674 for the
  tree and at 686 for the parent. A commit made in between becomes the parent of
  a tree that lacks its files, so the next restore misses them.
- *Conflict copies* (`merge_copies`). The copy's name depends on path and label
  only. The second merge of a file under one label writes over the first copy.
- *Fast path* (`sync_fastpath`). `is_complete` asks about the target's own tree
  and chunks. A sync killed after those and before the parents is Ok at the
  next run, and the parents are never fetched.
- *First start* (`heads_firststart`). `load_or_create` tests for `node.json` and
  saves a new one, and nothing excludes another process. The second key replaces
  the first, or is written into the file that the first one has just renamed.
- *Mixed digits* (`heads_digits`). `store_last_recv_seq` writes the text of the
  number to a temporary file of one name. Two tasks that listen for one vault
  both truncate it; one writes "10", the other "9" over it, and 90 is renamed into
  place. The announcements 11 to 90 are then dropped as replays.
- *Own copy* (`MCParts_owncopy.cfg`). `replicate_head` notes what `HEAD` needs under
  the node's own id, and `estimated_replicas` adds the ids in the have-map to the
  local copy. After `soal replicate --push` the only copy of a chunk counts
  twice, and with `min_replicas` 2 it is not reported as under-replicated.
- *Late gc* (`MCVault_lategc.cfg`), against "HEAD + registered snapshots + HEADS"
  "must stay live for GC" (`policy.rs:337`). `gc_unreachable_chunks` reads the roots, then lists
  the store and deletes. A chunk that a running add has stored is in no commit
  yet and not marked; it is deleted after `HEAD` has come to name its commit.
  `soal schedule` runs this gc itself after each of its snapshots, next to
  whatever the user runs.
- *Two tasks* (`MCHeadAnnounce_twotasks.cfg`), against "Per-node monotonic
  sequence" (`codec.rs:623`). `next_announce_seq` takes `&self` and excludes
  nobody, and `api.rs` exports `announce_head(&Network)` and
  `SharedNetwork = Arc<Network>`. Two tasks that announce through one read the
  same number, and listeners drop the second head as a replay. (In the run each
  task has an `Open` of its own; the second finds the `node.json` of the first,
  as the tasks of one `Network` have it.)

Six more are not violations of anything the repository states, and shape
properties instead. A checkpoint that lists objects a gc has deleted is
believed: every later run fails at the same object, which is why `Resumes`
assumes `UsableCheckpoint`. And a plain `sync` replaces `HEAD` even when the
commit does not descend from it, and what it replaces is recorded nowhere, which
is why `AckedKept` is checked and proved without it. Protecting a protected vault again
truncates the one form of its key that there is, and a kill there loses it
(`KeyKept` has that exception). Two first opens of an old vault without an id
make up two ids: a key that one of them wraps is bound to its own, and if the
other's config is the last one written, the passphrase does not open the vault
(`Openable` is about one command at a time). Two writes of the config at once
can leave a mixture of both. And a creation that is killed before it has made
its directories leaves a name that `create` refuses and `open` cannot read
(`born` says when a vault has got past this).

*Two tasks* and *First start* are why `heads_feed` and the theorems about
it have one announcing command at a time, which is how `main.rs` uses the
network: its commands announce once per process, and the blob store, opened by
`Network::open` after `load_or_create`, is a database that one process at a time
can be expected to open. For the same reason two listeners of one vault are tasks
of one `Network`, never two commands. *Late gc* is why the properties of
`vault_overlap` that ask for complete commits are checked without gc, and the
theorems that allow it (`RootsAreRestorable`, `GcIsSafe`) with one command at a
time.

### Bounds

- `MaxCommits` 3 or 4 in the single-process vault runs: a commit, one that hides
  it or makes its chunks reachable through history only, a snapshot that
  retention prunes, and one more on top. 2 with gc and overlap: both processes
  make one.
- Two files and two contents: overwrite and keep are then different, and one
  chunk is shared by two trees. A third path is the conflict copy. `MergeLoop`
  alone has four paths, with copies that sort before and after their file, and
  three contents.
- `Retain` 1: the second snapshot prunes the first. 0 where retention is not
  the question.
- Two processes: every hazard listed is between two. They are symmetric where
  the run has only invariants.
- `SyncEngine`: four commits with a merge among them, shared trees and chunks,
  two peers of which neither has everything; `CheckpointEvery` 2, so that some
  chunks are in no checkpoint; `MaxJobCommits` 3, which the longest history
  goes past; `MaxFaults` 2, so that a kill can follow a gc and a gc a kill.
- `HeadAnnounce`: two vaults, one with a single listener and one with two, so
  that orderly and overlapping listeners are in one run; `MaxSaid` 2, a second
  number for one vault or a first one for each; `MaxKeys` 2, so that a command
  killed before it saves its key is followed by another key; `MaxHeard` 3, so
  that a replay has room to be accepted twice. Heads and the two overlapping
  listeners are symmetric. `Base` is the code's 10 where lengths do not matter; it
  is 2 in `heads_feed` and 3 in `heads_digits`, so that numbers of two digits come
  within the bound.
- `MCOverlap`: two inputs and three commits with adds and snapshots, one input and
  three commits with merges, syncs and peers, one input and two commits with gc;
  two processes in all.
- `Watch`: a file and a temporary one, two saves, two events in the channel, a
  debounce of two ticks: an event can come before, at and after the debounce,
  and another file's event restarts it.
- `Upkeep`: interval 2 and poll 1, so that a tick falls between two snapshots;
  four clock values, two snapshots, one registry entry, one change of the clock.
  Overlapping commands are explored where nothing was killed and the clock not
  set before (`UpkeepBound`).
- `VaultConfig`: two clients and three commands, of which the last overlaps none
  (`ConfigBound`): two overlap, or one is killed, and then another sees what is
  left. Two passphrases, so that one can be the wrong one; one invite, two
  values of `min_replicas`.
- `Replicas`: two workers on one commit, or one worker on two with damage or
  probes (`ReplicasBound`); a tick of ten hours, so that one is past
  `MaxHeadAge` and past the age at which the ranking stops to count; two peers,
  of which the second by name is preferred.
- `Wire`: all trees of two entries over two good paths (a third is refused), all
  commits with up to one parent, numbers on both sides of each size of the
  length field, one change on the way.

### Fairness

Of the vault, the announcements and the parts other than the watcher everything
said is safety. `Watch` assumes weak fairness of the loop, a thread that
is ready to run, and of time. Nothing is assumed of the folder, of events, or of
adds: `Converges` has the premise that nobody touches the folder any more (under
steady activity the debounce never ends, and the code gives no bound), and
leaves out the files whose event was lost or whose add failed. `SyncEngine` assumes weak
fairness of the engine's steps, because a running process runs, and strong
fairness of the call for each target, because "resume" is about a user (or
a schedule) who asks again. No fairness is given to peers: `Resumes` has the
premise that they stay reachable from some time on. `CHECK_DEADLOCK` is off in
the overlapping vault runs, which end when `MaxCommits` commits are made, in
`HeadAnnounce`, which ends at its bounds or with a `node.json` that no command
can read, and in `parts`, whose merge ends, whose watcher has a deadline and
whose commands are bounded.

## 4. The proofs

Those about the vault hold for every number of processes, every set of paths, chunks, inputs and
peer trees, every `Retain` and `MaxCommits`, under `VaultAssumption` and
`MergeAssumption`. The latter is what the vault needs of a merge, and
`MergesAreTrees` proves it of `MergeWithConflicts`, for every order of the paths
and every naming of the copies.

| Theorem | Says | Under |
|---|---|---|
| `TypeCorrect` | `TypeOK` | nothing |
| `OnlyWritersTruncate`, `QuietDisk` | a truncated file has a writer; none when all are idle | no kill inside a write; any overlap |
| `RootsAreRestorable` | `RootsRestorable` | `Disciplined` |
| `GcIsSafe` | `GcKeepsRoots` | `Disciplined` |
| `AddsKeepFiles`, `AddsFollowHead` | `AddKeepsParentFiles`, `AddParentedToHead` | `Disciplined` |
| `NothingPublishedIsLost` | `AckedKept` | `Disciplined`, no plain sync |
| `NothingIsDamaged` | `RootsRestorable` | no gc, no `mergeany`, no kill inside a write; any overlap |
| `OverlapKeepsRoots`, `OverlapKeepsAcked` | `RootsWithoutGc`, `AckedWithoutGc` | no kill inside a write; any overlap |
| `VaultIsFolder` | `ImplementsFolder` | commands do not overlap; any kill |
| `LoopTypes`, `MergeInventsNothing` | types; no new chunk | nothing |
| `OursStay`, `TheirsAreKept`, `CountIsExact` | `KeepsOurs`, `KeepsTheirs`, `CountsConflicts` | `Apart`: no merge has touched either side |
| `MergingAgainChangesNothing` | `Remerging` | `Apart` |
| `MergesAreTrees`, `LoopComputes` | `MergeAssumption` for `MergeWithConflicts`; the loop computes that function | nothing |
| `TypeCorrect` of `HeadAnnounceProofs` | `TypeOK` | nothing |
| `WatchTypes`, `NothingForgotten` | `WatchTypeOK`, `Tracked` | nothing |
| `CommitsApart` | `Debounced` | nothing |
| `Numbers`, `Identity` | `NumbersUnique`, `KeyStays` | `OneSender`; any number of listeners, any kill |
| `Fresh` | `NextIsFresh`, which is about the vaults that one task listens for | `OneSender`; any number of listeners, any kill, any `Base` |
| `FeedIsOrdered` | `ImplementsFeed` | `OneSender`; any number of listeners, any kill |
| `HeadsStayRestorable`, `WalksAreComplete`, `CheckpointsFollow` | `HeadsRestorable`, `WalkFetchesHistory`, `CheckpointFollowsDisk` | nothing |
| `UpkeepTypes`, `ConfigTypes` | `UpkeepTypeOK`, `ConfigTypeOK` | nothing |
| `RegistryStaysNewest`, `RetentionIsKept` | `RegistryIsNewest`, `RetentionHolds` | what the properties say of overlap and kills |
| `GapIsBounded`, `SnapshotsStayApart` | `GapBounded`, `SnapshotsApart` | the same |
| `KeyIsKept`, `StaysOpenable`, `PlainKeyIsGone` | `KeyKept`, `Openable`, `PlainKeyGone` | the same |
| `PolicyAgrees`, `SignaturesCover` | `MinAgrees`, `SignatureCovers` | the same |
| `ReplicasTypes`, `NotesStay` | `ReplicasTypeOK`, `NotedStays` | nothing |
| `PreferredGoFirst`, `LossIsReported` | `PreferredFirst`, `LossIsCritical` | nothing |
| `WireTypes`, `WiresAreCanonical` | `WireTypeOK`, `OneWirePerObject` | nothing |
| `RunIsOfEachPart` | `PartsSpec` implements the parts' specifications, but for the watcher's fairness | nothing |
| `PartsTypes`, `PartsAreSafe` | `PartsTypeOK`; all the safety that `parts` checks | nothing; of a merge `Apart` |
| `TreesComeBack`, `FieldsComeBack` | what is encoded is decoded: any tree within the limits, any fields the decoder takes | nothing |

`OneSender` says that the commands of the announcing home do not overlap; their
kills and the listeners are unrestricted. `heads_firststart` and
`MCHeadAnnounce_twotasks.cfg` show that it cannot be dropped, `heads_digits` that `NextIsFresh` needs the lone
listener. `Disciplined` says that commands do not overlap, that no kill lands inside an
`fs::write`, and that merges are those of `sync --merge`, which fetches first.
The runs `vault_staletree` and `vault_tornhead`, and `MCVault_lategc.cfg`, show that
neither of the first two can be dropped.

The argument, in the order of the modules:

1. `VaultProofs`: `TypeOK` is inductive by itself. Its lemmas, one per group of
   actions, are used by all that follows.
2. `VaultProofs` too: `Intact` (each truncated file has a process about to fill it)
   is inductive for any overlap. `SafeInv` needs the discipline: at most one
   command runs; each root is `Stored`; `WriterInv` says what a command has
   secured by each program point (the chunks before the tree, the tree before
   the commit, the commit before `HEAD`, and
   each entry of the registry as it has loaded it); `GcInv` says that what gc is about to
   delete is disjoint from what the roots reach, first by the mark of the
   chunks, then by `Covers(live)`, a set closed under parents on disk.
   `RootsRestorable` alone is not inductive: in the middle of a gc it says
   nothing of the todo list.
3. At its end, `BuildsInv` ties the prepared tree and parents to the one
   `HEAD`; `HistoryInv` says that all that was published is on disk and reached
   from `tip`, by induction over the commits that are minted, each a child of
   `tip`. Of overlapping commands `OverlapInv` says less, and needs less: as
   nothing is deleted, what a command has secured when it moves `HEAD` or writes
   `HEADS` is still there whatever the others have done. The lemmas on what
   each step secures (`AddSecures`, `HeadSecures`) serve both.
   The refinement comes last. `FolderInv` says that a `HEAD` that can be read is
   the commit written last, and (`MakeInv`) that the tree a command is about to
   commit is what the command promises of the folder as it still is: so the
   write of `HEAD` is `Put`, `MergeIn` or `Adopt`, an import is `Offer`, and
   every other step a stutter. A commit that is minted and never named by
   `HEAD`, because of a kill, is no version yet.
4. `ContentProofs`, the merge: `LoopInv` splits the paths into those visited and the rest,
   and says of each what the merged tree has; the count is the cardinality of
   the visited conflicts. `MergeWithConflicts` is a recursive function, and
   `MergeVisits` names its value after each visit (`NumberRecursion` says that
   there is such a function, and goes up the numbers). By `LoopInv` a visit of any
   path changes nothing once the loop is done, hence neither do all of them.
5. `HeadAnnounceProofs`: `Typed` says what a process holds at each point of its
   command. `SendInv` follows a new `node.json` from the read to the rename: it
   is `Ahead` of the one on disk, the temporary file has it when it is renamed,
   and a `Pending` announcement has a number above all that were said. `NodeInv`
   makes the file on disk whole and ahead of all that was said, `ListenInv` says
   that what a listener is about to store was announced.
   For the feed, `OrderInv` says that the number stored is not below any that
   was heard, and `AloneInv` follows a lone listener's number through its save,
   whose files nobody else writes, until it accepts. On it rests `StoredInv`:
   in a vault with a lone listener every number in a file was announced, for
   nobody's digits get between its own. `NextIsFresh` follows, and alone is not
   inductive: it says nothing of numbers on their way to a file.
6. `ServiceProofs`, the watcher: `Tracked` is inductive with the types, as an event that
   leaves the channel puts its files into `pending`, and those go to the batch
   together. `Debounced` needs `Rested`: a pending file was last added before
   the debounce began, so that at its end it has rested as long.
7. `SyncEngineProofs`: `HeadInv` says that a target about to be adopted was found
   complete; a collected file is one that no head reaches. `WalkInv` splits the
   history into what is visited, whose commits, trees and parents were read, and
   the queue. That is not enough for `WalkFetchesHistory`, as a checkpoint may
   name chunks that a gc has removed since: `OrderInv` says that the target is
   always fetched before its ancestors, so that (`StaleInv`) with a stale
   chunk some object of the target itself is checked off and missing, and Verify
   fails.
8. `ServiceProofs`, the scheduler: `PlanInv` says what is left of a command; `RetentionInv` that
   a registry that is too long has a prune ahead of it that will load it again,
   or has a short log to rename over it; `AloneInv` ties the registry to all that
   was entered, while updates do not overlap. `TimeInv` adds the sleep that is
   left to the time waited: `GapBounded` alone says nothing of a scheduler
   that oversleeps. The registry is made with a recursive function; that it
   drops the one entry that a register enters again is proved with
   `NumberRecursion`, which has induction for a set of numbers, from a least
   counterexample, as the library states it for an operator.
9. `ConfigProofs`: a command is a sequence of steps, and the invariant has to
   say what is left of it. Every plan is `Ordered` and, if it is given a
   passphrase, `Protects`; both are inherited by tails, so that every action is
   a turn that takes the first step, a launch or a kill. `KeyInv` has the key
   of a command that overlaps others: `KeyKept` alone is not inductive, because
   it lets a client remove the key file when the wrapped key is not there yet.
   `SerialInv`, `OpenInv`, `PlainInv` and `MinInv` are about commands that do
   not overlap and say what is true between any two steps of theirs; `SignInv`
   says that a config in memory that its signature does not cover is signed
   again before it is written.
10. `ServiceProofs`, the records: `NotedStays` alone is not inductive, as it says nothing of
   what is about to be renamed over a record. `SaveInv` says that what a worker
   has in hand has all that is safe, and that the temporary file of a worker
   that is not overlapped is its own; `FileInv` that a draft which parses
   has all that is safe. The two other properties follow from the types (an
   answer is never later than the clock, a walk gets to commits on disk). The
   lines of ancestors are recursive functions, whose type is proved by a descent
   along the parents. The order of the peers is a choice: that there is one to
   choose is `Arrangement`, an insertion sort by induction on the number of peers.

11. `ContentProofs`, the encodings: the state says little (`WireInv`: the wire is
   items, and the encoding of the object until it is changed), so the work is in
   the operators. An encoding is a number of parts laid end to end, and
   `FlattenAt` says where each item of each part is (`Offsets`); the decoders'
   recursive functions (`StartsAt`, `KeyAt`), unrolled by `StartSteps` and `KeySteps`,
   are then shown to stop at the same places, by induction on the number of
   entries or keys. That gives `TreesComeBack` and `FieldsComeBack`. In the other
   direction, what a decoder returns is well typed (`TreeTyped`, `FieldsTyped`),
   and the encoding of what is well typed has its shortest form and no keys
   the decoder leaves out (`TreeIsRegular`, `FieldsAreShort`): as an import
   compares the two, so has the wire.
12. `PartsProofs`: `MCParts` begins as every part does, and each of its steps is one
   of a part's or leaves that part alone, so that it implements each of them. The
   theorems about a part then hold of the run that checks them. Fairness is
   granted to the watcher only where it runs, and safety does not need it
   (`WatchSteps`).

`RejectedAssumption` says that the result for an error is no value that is sent.
`ConfigAssumption` and its like say that values that stand for different things
are different (a file that cannot be read is no config, a number of replicas no
node), that what an invite says is of its type, and that there is a passphrase.

Only model-checked: `Converges` and `Resumes`, which are liveness and stay with
TLC. Every invariant and every other action property of the passing runs is the
statement of a theorem.

## 5. Not modelled

- Restore, history and the diff of commits read and print.
- `set_divergent_head` and `ingest_commit_from_peer` are called by nothing.
- Chunking and encryption turn bytes into bytes; that a chunk is
  the one its hash names is what the store tests.
- Making and verifying invites, announcements' signatures, clock skew and
  membership reject before any state changes.
- Transport and discovery are I/O of iroh; the modules have what the code makes
  of the answers.
- `api.rs` forwards.

## 6. Plan

A gc next to other commands loses what they publish (`MCVault_lategc.cfg`), so that no
property asks for complete commits there. What a gc and a snapshot at once do to
the registry (a stale list that is saved after the gc names a commit the gc has
deleted) can be run as soon as the code has a lock whose scope says which
overlap remains.
