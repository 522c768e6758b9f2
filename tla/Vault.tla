------------------------------- MODULE Vault -------------------------------
(***************************************************************************)
(* The on-disk vault of src/src/vault.rs and the commands that change it.  *)
(*                                                                         *)
(* Every soal command is a process of its own over the same directory and  *)
(* nothing locks it.  A process has a program counter and locals; one      *)
(* action is one access to the disk that another process, or a kill,       *)
(* could come between.  Files written with fs::write take two actions, the *)
(* truncation and the contents; files written through a rename take one.   *)
(*                                                                         *)
(* A commit CID is the position of the commit in dag, which records what   *)
(* every CID ever minted stands for: content addressing makes that         *)
(* immutable.  Which of those commits are on disk is the variable commits. *)
(***************************************************************************)
EXTENDS Trees, Naturals, Sequences, FiniteSets

CONSTANTS Procs,              \* soal processes
          Commands,           \* the commands users run, among AllCommands
          Inputs,             \* what one `add` is given, as a tree
          PeerTrees,          \* trees peers commit
          Retain,             \* policy.retain_snapshots, 0 for no pruning
          MaxCommits,         \* bound on the commits ever made
          Concurrent,         \* may commands overlap?
          Crashes,            \* when a process may be killed
          None, Torn,         \* HEAD: no file; a truncated file
          MergeTrees(_, _)    \* Tree::merge_with_conflicts

AllCommands == {"add", "snapshot", "merge", "mergeany", "sync", "gc"}

ASSUME VaultAssumption ==
  /\ Commands \subseteq AllCommands
  /\ Inputs \subseteq Tree \ {EmptyTree}
  /\ PeerTrees \subseteq Tree
  /\ Retain \in Nat
  /\ MaxCommits \in Nat
  /\ Concurrent \in BOOLEAN
  /\ Crashes \in {"never", "between writes", "anywhere"}
  /\ None \notin Nat /\ Torn \notin Nat /\ None # Torn

\* What the vault relies on from a merge (module TreeMerge has the loop).
ASSUME MergeAssumption ==
  \A ours, theirs \in Tree :
     /\ MergeTrees(ours, theirs) \in Tree
     /\ ChunksOf(MergeTrees(ours, theirs)) \subseteq
          ChunksOf(ours) \cup ChunksOf(theirs)

VARIABLES
  head,      \* HEAD file: a commit, None or Torn
  heads,     \* HEADS file: recorded alternate tips
  commits,   \* commit files present
  trees,     \* tree files present, the truncated ones included
  torn,      \* tree files whose contents are truncated
  chunks,    \* chunk files present (put_verified renames: never truncated)
  snaps,     \* snapshots.json, newest last
  pc, cmd,   \* per process: next step, command
  files,     \* add: the input
  ltree,     \* tree being written
  lparents,  \* parents of the commit being made
  lcommit,   \* the commit HEAD will name
  lheads,    \* the tips HEADS will name
  lsnaps,    \* snapshots.json as loaded
  live,      \* gc: commits marked by the object mark
  todo,      \* add: chunks to store; gc: objects to delete
  dag,       \* ghost: what each CID stands for
  acked,     \* ghost: commits local commands published as HEAD
  tip        \* ghost: last commit written to HEAD

disk   == <<head, heads, commits, trees, torn, chunks, snaps>>
locals == <<files, ltree, lparents, lcommit, lheads, lsnaps, live, todo>>
ghosts == <<dag, acked, tip>>
vars   == <<disk, pc, cmd, locals, ghosts>>

Commit == 1 .. Len(dag)

CommitRecord == [tree: Tree, parents: SUBSET Nat, by: AllCommands \cup {"peer"},
                 files: Tree]

PCs == {"idle", "store", "headtree", "savetree", "writetree", "parents",
        "savecommit", "sethead", "writehead", "readheads", "setheads",
        "writeheads", "loadregister", "register", "loadretention", "retention",
        "markchunks", "sweepchunks", "sweepcommits", "sweeptrees"}

SnapSet == {snaps[i] : i \in DOMAIN snaps}

HeadSet == IF head \in Commit THEN {head} ELSE {}

-----------------------------------------------------------------------------
(* What the disk holds.                                                    *)

\* load_tree succeeds: the file is there and hashes to its name.
Readable(t) == t \in trees \ torn

\* Vault::is_complete: the commit, its tree and its chunks; not its parents.
IsComplete(c) ==
  /\ c \in commits
  /\ Readable(dag[c].tree)
  /\ ChunksOf(dag[c].tree) \subseteq chunks

\* The mark loop: everything reached from R, walking the parents of the
\* commits that are on disk and skipping the others.
Closed(S) == \A c \in S \cap commits : dag[c].parents \subseteq S
Reached(R) == {c \in Commit : \A S \in SUBSET Commit :
                                 (R \subseteq S /\ Closed(S)) => c \in S}
Marked(R) == Reached(R) \cap commits

\* The roots policy.rs documents: HEAD, registered snapshots, HEADS.
Roots == HeadSet \cup heads \cup SnapSet

\* Mutants of MarkRoots: gc forgets HEAD, or HEADS.
BugMarkSnapshotsOnly == SnapSet
BugMarkWithoutHeads == HeadSet \cup SnapSet

\* protected_commit_roots with the fallback of its two callers: when HEAD
\* cannot be parsed the whole list is an error, and the fallback reads HEAD
\* again and has nothing.
MarkRoots == IF head = Torn THEN {} ELSE Roots

-----------------------------------------------------------------------------
Init ==
  /\ head = None /\ heads = {} /\ snaps = <<>>
  /\ commits = {} /\ trees = {} /\ torn = {} /\ chunks = {}
  /\ pc = [p \in Procs |-> "idle"]
  /\ cmd = [p \in Procs |-> "none"]
  /\ files = [p \in Procs |-> EmptyTree]
  /\ ltree = [p \in Procs |-> EmptyTree]
  /\ lparents = [p \in Procs |-> {}]
  /\ lcommit = [p \in Procs |-> None]
  /\ lheads = [p \in Procs |-> {}]
  /\ lsnaps = [p \in Procs |-> <<>>]
  /\ live = [p \in Procs |-> {}]
  /\ todo = [p \in Procs |-> {}]
  /\ dag = <<>> /\ acked = {} /\ tip = None

AllIdle == \A p \in Procs : pc[p] = "idle"

MayStart(p) == pc[p] = "idle" /\ (Concurrent \/ AllIdle)

\* Room for one more commit besides those in the making (bound MaxCommits).
Room == Len(dag) + Cardinality({p \in Procs : pc[p] # "idle"}) < MaxCommits

Goto(p, l) == pc' = [pc EXCEPT ![p] = l]

Start(p, command, l) ==
  /\ MayStart(p)
  /\ command \in Commands
  /\ cmd' = [cmd EXCEPT ![p] = command]
  /\ Goto(p, l)

\* The command returns, with success or with an error, or is killed.
Stop(p) ==
  /\ Goto(p, "idle")
  /\ cmd' = [cmd EXCEPT ![p] = "none"]
  /\ files' = [files EXCEPT ![p] = EmptyTree]
  /\ ltree' = [ltree EXCEPT ![p] = EmptyTree]
  /\ lparents' = [lparents EXCEPT ![p] = {}]
  /\ lcommit' = [lcommit EXCEPT ![p] = None]
  /\ lheads' = [lheads EXCEPT ![p] = {}]
  /\ lsnaps' = [lsnaps EXCEPT ![p] = <<>>]
  /\ live' = [live EXCEPT ![p] = {}]
  /\ todo' = [todo EXCEPT ![p] = {}]

-----------------------------------------------------------------------------
(* Vault::add_path                                                         *)

AddPath(p, fs) ==
  /\ Room
  /\ Start(p, "add", "store")
  /\ files' = [files EXCEPT ![p] = fs]
  /\ todo' = [todo EXCEPT ![p] = ChunksOf(fs)]
  /\ UNCHANGED <<disk, ltree, lparents, lcommit, lheads, lsnaps, live, ghosts>>

\* Mutant of StoreChunk: the command goes on once one chunk is stored.
BugStoreOneChunk(p, k) ==
  /\ pc[p] = "store"
  /\ k \in todo[p]
  /\ chunks' = chunks \cup {k}
  /\ todo' = [todo EXCEPT ![p] = {}]
  /\ Goto(p, "headtree")
  /\ UNCHANGED <<head, heads, commits, trees, torn, snaps, cmd, files, ltree,
                 lparents, lcommit, lheads, lsnaps, live, ghosts>>

\* store_chunk of one chunk; put_verified leaves an existing file alone.
StoreChunk(p, k) ==
  /\ pc[p] = "store"
  /\ k \in todo[p]
  /\ chunks' = chunks \cup {k}
  /\ todo' = [todo EXCEPT ![p] = @ \ {k}]
  /\ IF todo[p] = {k} THEN Goto(p, "headtree") ELSE UNCHANGED pc
  /\ UNCHANGED <<head, heads, commits, trees, torn, snaps, cmd, files, ltree,
                 lparents, lcommit, lheads, lsnaps, live, ghosts>>

\* head_tree succeeds: no HEAD yet, or HEAD's commit and tree both load.
HeadLoads == \/ head = None
             \/ head \in commits /\ Readable(dag[head].tree)
HeadTree == IF head = None THEN EmptyTree ELSE dag[head].tree

\* Mutant of NewTree: the input replaces the tree.
BugNewTreeAlone(p) == files[p]

\* The tree add makes: the input's files inserted into HEAD's tree.
NewTree(p) == Overlay(HeadTree, files[p])

\* head_tree.
ReadHeadTree(p) ==
  /\ pc[p] = "headtree"
  /\ \/ /\ HeadLoads
        /\ ltree' = [ltree EXCEPT ![p] = NewTree(p)]
        /\ Goto(p, "savetree")
        /\ UNCHANGED <<cmd, files, lparents, lcommit, lheads, lsnaps, live, todo>>
     \/ ~HeadLoads /\ Stop(p)
  /\ UNCHANGED <<disk, ghosts>>

\* save_tree opens the file, truncating one that is already there ...
SaveTree(p) ==
  /\ pc[p] = "savetree"
  /\ trees' = trees \cup {ltree[p]}
  /\ torn' = torn \cup {ltree[p]}
  /\ Goto(p, "writetree")
  /\ UNCHANGED <<head, heads, commits, chunks, snaps, cmd, locals, ghosts>>

\* ... and writes the contents.
WriteTree(p) ==
  /\ pc[p] = "writetree"
  /\ torn' = torn \ {ltree[p]}
  /\ Goto(p, IF cmd[p] = "add" THEN "parents" ELSE "savecommit")
  /\ UNCHANGED <<head, heads, commits, trees, chunks, snaps, cmd, locals,
                 ghosts>>

\* Mutants of ReadParents: HEAD is not looked at before it is a parent, or the
\* commit gets no parent.
BugUncheckedParents(p) ==
  /\ pc[p] = "parents"
  /\ lparents' = [lparents EXCEPT ![p] = {head}]
  /\ Goto(p, "savecommit")
  /\ UNCHANGED <<cmd, files, ltree, lcommit, lheads, lsnaps, live, todo, disk, ghosts>>

BugNoParents(p) ==
  /\ pc[p] = "parents"
  /\ lparents' = [lparents EXCEPT ![p] = {}]
  /\ Goto(p, "savecommit")
  /\ UNCHANGED <<cmd, files, ltree, lcommit, lheads, lsnaps, live, todo, disk, ghosts>>

\* add_path reads HEAD a second time, for the parents of its commit.
ReadParents(p) ==
  /\ pc[p] = "parents"
  /\ \/ /\ head # Torn
        /\ lparents' = [lparents EXCEPT ![p] = HeadSet]
        /\ Goto(p, "savecommit")
        /\ UNCHANGED <<cmd, files, ltree, lcommit, lheads, lsnaps, live, todo>>
     \/ head = Torn /\ Stop(p)
  /\ UNCHANGED <<disk, ghosts>>

\* make_commit and save_commit.  The file is new, so a crash while it is
\* being written leaves at worst a commit nothing refers to.
SaveCommit(p) ==
  /\ pc[p] = "savecommit"
  /\ dag' = Append(dag, [tree |-> ltree[p], parents |-> lparents[p],
                         by |-> cmd[p], files |-> files[p]])
  /\ commits' = commits \cup {Len(dag) + 1}
  /\ lcommit' = [lcommit EXCEPT ![p] = Len(dag) + 1]
  /\ Goto(p, "sethead")
  /\ UNCHANGED <<head, heads, trees, torn, chunks, snaps, cmd, files, ltree,
                 lparents, lheads, lsnaps, live, todo, acked, tip>>

\* set_head truncates HEAD ...
SetHead(p) ==
  /\ pc[p] = "sethead"
  /\ head' = Torn
  /\ Goto(p, "writehead")
  /\ UNCHANGED <<heads, commits, trees, torn, chunks, snaps, cmd, locals,
                 ghosts>>

\* Mutant of WriteHead: set_head checks, with the file open, that the commit
\* is still there.
BugWriteHeadChecks(p) ==
  /\ pc[p] = "writehead"
  /\ head' = IF lcommit[p] \in commits THEN lcommit[p] ELSE head
  /\ tip' = lcommit[p]
  /\ acked' = acked \cup {lcommit[p]}
  /\ Stop(p)
  /\ UNCHANGED <<heads, commits, trees, torn, chunks, snaps, dag>>

\* ... and writes the commit's hash.  add is then done; snapshot registers
\* the tip; a merge collapses the tips to its own commit; a sync adds to them.
WriteHead(p) ==
  /\ pc[p] = "writehead"
  /\ head' = lcommit[p]
  /\ tip' = lcommit[p]
  /\ acked' = IF cmd[p] = "sync" THEN acked ELSE acked \cup {lcommit[p]}
  /\ CASE cmd[p] = "add" -> Stop(p)
       [] cmd[p] = "snapshot" -> Goto(p, "loadregister") /\ UNCHANGED <<cmd, locals>>
       [] cmd[p] = "sync" -> Goto(p, "readheads") /\ UNCHANGED <<cmd, locals>>
       [] OTHER -> /\ lheads' = [lheads EXCEPT ![p] = {lcommit[p]}]
                   /\ Goto(p, "setheads")
                   /\ UNCHANGED <<cmd, files, ltree, lparents, lcommit, lsnaps,
                                  live, todo>>
  /\ UNCHANGED <<heads, commits, trees, torn, chunks, snaps, dag>>

-----------------------------------------------------------------------------
(* Vault::snapshot, policy::register_snapshot, policy::apply_retention     *)

\* Mutant of Snapshot: with no HEAD, the empty tree is not saved.
BugSnapshotNoTree(p) ==
  /\ Room
  /\ Start(p, "snapshot", "savecommit")
  /\ head = None \/ head \in commits
  /\ ltree' = [ltree EXCEPT ![p] = HeadTree]
  /\ lparents' = [lparents EXCEPT ![p] = HeadSet]
  /\ UNCHANGED <<disk, files, lcommit, lheads, lsnaps, live, todo, ghosts>>

Snapshot(p) ==
  /\ Room
  /\ Start(p, "snapshot", IF head = None THEN "savetree" ELSE "savecommit")
  /\ head = None \/ head \in commits
  /\ ltree' = [ltree EXCEPT ![p] = HeadTree]
  /\ lparents' = [lparents EXCEPT ![p] = HeadSet]
  /\ UNCHANGED <<disk, files, lcommit, lheads, lsnaps, live, todo, ghosts>>

\* The registry without the entry for c (there is at most one).
Without(s, c) ==
  IF \E i \in DOMAIN s : s[i] = c
  THEN LET i == CHOOSE j \in DOMAIN s : s[j] = c
       IN  SubSeq(s, 1, i - 1) \o SubSeq(s, i + 1, Len(s))
  ELSE s

\* Registering and retention both load the registry ...
LoadSnapshots(p) ==
  /\ \/ pc[p] = "loadregister" /\ Goto(p, "register")
     \/ pc[p] = "loadretention" /\ Goto(p, "retention")
  /\ lsnaps' = [lsnaps EXCEPT ![p] = snaps]
  /\ UNCHANGED <<disk, cmd, files, ltree, lparents, lcommit, lheads, live, todo,
                 ghosts>>

\* ... and save what they make of it, whatever another process has saved by
\* then.  The tip becomes the newest entry.
RegisterSnapshot(p) ==
  /\ pc[p] = "register"
  /\ snaps' = Append(Without(lsnaps[p], lcommit[p]), lcommit[p])
  /\ Goto(p, "loadretention")
  /\ UNCHANGED <<head, heads, commits, trees, torn, chunks, cmd, locals, ghosts>>

\* prune_snapshot_registry: the newest Retain entries stay.
Pruned(s) == IF Retain = 0 \/ Len(s) <= Retain THEN s
             ELSE SubSeq(s, Len(s) - Retain + 1, Len(s))

\* Retention saves only if it prunes.  It ends a snapshot.  It comes first in a
\* gc, and without --apply it is all a gc does.
ApplyRetention(p) ==
  /\ pc[p] = "retention"
  /\ snaps' = IF Pruned(lsnaps[p]) = lsnaps[p] THEN snaps ELSE Pruned(lsnaps[p])
  /\ \/ Stop(p)
     \/ cmd[p] = "gc" /\ Goto(p, "markchunks") /\ UNCHANGED <<cmd, locals>>
  /\ UNCHANGED <<head, heads, commits, trees, torn, chunks, ghosts>>

-----------------------------------------------------------------------------
(* Objects from peers, merge_head and set_head_public                      *)

\* The commits whose hashes anyone has been told: those of peers, and those
\* local commands have finished with.
Known == {c \in Commit : dag[c].by = "peer"} \cup acked

\* A peer makes a commit, on top of one it knows or of none; nothing of it
\* is here yet.
Publish(t, parents) ==
  /\ Room
  /\ Commands \cap {"merge", "mergeany", "sync"} # {}
  /\ dag' = Append(dag, [tree |-> t, parents |-> parents, by |-> "peer",
                         files |-> EmptyTree])
  /\ UNCHANGED <<disk, pc, cmd, locals, acked, tip>>

\* The imports fetch_dag makes, in its order (commit, its tree, the tree's
\* chunks) and only of what is missing.  Its checkpoints are in SyncEngine.
MayImport == Concurrent \/ AllIdle

ImportCommit(c) ==
  /\ MayImport
  /\ c \in Known
  /\ c \notin commits
  /\ commits' = commits \cup {c}
  /\ UNCHANGED <<head, heads, trees, torn, chunks, snaps, pc, cmd, locals,
                 ghosts>>

ImportTree(c) ==
  /\ MayImport
  /\ c \in commits
  /\ dag[c].tree \notin trees
  /\ trees' = trees \cup {dag[c].tree}
  /\ UNCHANGED <<head, heads, commits, torn, chunks, snaps, pc, cmd, locals,
                 ghosts>>

ImportStoredChunk(c, k) ==
  /\ MayImport
  /\ c \in commits /\ Readable(dag[c].tree)
  /\ k \in ChunksOf(dag[c].tree) \ chunks
  /\ chunks' = chunks \cup {k}
  /\ UNCHANGED <<head, heads, commits, trees, torn, snaps, pc, cmd, locals,
                 ghosts>>

\* Mutant of MergedTree: their tree is taken for ours.
BugMergeSwapped(r) == MergeTrees(dag[r].tree, HeadTree)

\* The tree a merge makes: theirs inserted into ours.
MergedTree(r) == MergeTrees(HeadTree, dag[r].tree)

\* merge_head up to save_tree.  `sync --merge` gets here only when fetch_dag
\* has found the remote commit complete; `soal merge HASH` asks for nothing
\* but its commit and tree.  HEAD is read once.
MergeHead(p, r, command) ==
  /\ Room
  /\ Start(p, command, "savetree")
  /\ r \in Known \cap commits /\ Readable(dag[r].tree)
  /\ command = "merge" => IsComplete(r)
  /\ HeadLoads
  /\ ltree' = [ltree EXCEPT ![p] = MergedTree(r)]
  /\ lparents' = [lparents EXCEPT ![p] = HeadSet \cup {r}]
  /\ UNCHANGED <<disk, files, lcommit, lheads, lsnaps, live, todo, ghosts>>

\* Mutant of SetHeadPublic: HEAD moves before the chunks are here.
BugAdoptIncomplete(p, r) ==
  /\ Start(p, "sync", "sethead")
  /\ r \in Known /\ Readable(dag[r].tree)
  /\ lcommit' = [lcommit EXCEPT ![p] = r]
  /\ UNCHANGED <<disk, files, ltree, lparents, lheads, lsnaps, live, todo, ghosts>>

\* `soal sync` without --merge: set_head_public on a fetched commit,
\* whatever HEAD was.
SetHeadPublic(p, r) ==
  /\ Start(p, "sync", "sethead")
  /\ r \in Known /\ IsComplete(r)
  /\ lcommit' = [lcommit EXCEPT ![p] = r]
  /\ UNCHANGED <<disk, files, ltree, lparents, lheads, lsnaps, live, todo, ghosts>>

\* record_head lists the tips: those in HEADS, HEAD if it can be parsed, and
\* the adopted commit.
ReadHeads(p) ==
  /\ pc[p] = "readheads"
  /\ \/ /\ head # Torn
        /\ lheads' = [lheads EXCEPT ![p] = heads \cup HeadSet \cup {lcommit[p]}]
        /\ Goto(p, "setheads")
        /\ UNCHANGED <<cmd, files, ltree, lparents, lcommit, lsnaps, live, todo>>
     \/ head = Torn /\ Stop(p)
  /\ UNCHANGED <<disk, ghosts>>

\* write_heads truncates HEADS, whatever another process has written to it
\* since it was read ...
SetHeads(p) ==
  /\ pc[p] = "setheads"
  /\ heads' = {}
  /\ Goto(p, "writeheads")
  /\ UNCHANGED <<head, commits, trees, torn, chunks, snaps, cmd, locals, ghosts>>

\* ... and writes the tips.
WriteHeads(p) ==
  /\ pc[p] = "writeheads"
  /\ heads' = lheads[p]
  /\ Stop(p)
  /\ UNCHANGED <<head, commits, trees, torn, chunks, snaps, ghosts>>

-----------------------------------------------------------------------------
(* `soal gc`: retention, then gc_all                                       *)

Gc(p) ==
  /\ Start(p, "gc", "loadretention")
  /\ UNCHANGED <<disk, locals, ghosts>>

\* live_chunk_hashes: only trees that are on disk are asked for chunks.
LiveChunks(M) ==
  UNION {ChunksOf(dag[c].tree) : c \in {d \in M : dag[d].tree \in trees}}

\* gc_unreachable_chunks marks, then lists the store.  A marked tree that
\* does not load fails the command before anything is deleted.
MarkChunks(p) ==
  /\ pc[p] = "markchunks"
  /\ LET M == Marked(MarkRoots) IN
       \/ /\ \A c \in M : dag[c].tree \notin torn
          /\ todo' = [todo EXCEPT ![p] = chunks \ LiveChunks(M)]
          /\ Goto(p, "sweepchunks")
          /\ UNCHANGED <<cmd, files, ltree, lparents, lcommit, lheads, lsnaps, live>>
       \/ (\E c \in M : dag[c].tree \in torn) /\ Stop(p)
  /\ UNCHANGED <<disk, ghosts>>

SweepChunk(p, k) ==
  /\ pc[p] = "sweepchunks"
  /\ k \in todo[p]
  /\ chunks' = chunks \ {k}
  /\ todo' = [todo EXCEPT ![p] = @ \ {k}]
  /\ UNCHANGED <<head, heads, commits, trees, torn, snaps, pc, cmd, files,
                 ltree, lparents, lcommit, lheads, lsnaps, live, ghosts>>

\* gc_unreachable_objects marks again, from the roots of that moment, and
\* goes through the commit files.
MarkObjects(p) ==
  /\ pc[p] = "sweepchunks"
  /\ todo[p] = {}
  /\ live' = [live EXCEPT ![p] = Marked(MarkRoots)]
  /\ todo' = [todo EXCEPT ![p] = commits \ Marked(MarkRoots)]
  /\ Goto(p, "sweepcommits")
  /\ UNCHANGED <<disk, cmd, files, ltree, lparents, lcommit, lheads, lsnaps, ghosts>>

\* A file another gc deleted first is an error.
SweepCommit(p, c) ==
  /\ pc[p] = "sweepcommits"
  /\ c \in todo[p]
  /\ \/ /\ c \in commits
        /\ commits' = commits \ {c}
        /\ todo' = [todo EXCEPT ![p] = @ \ {c}]
        /\ UNCHANGED <<pc, cmd, files, ltree, lparents, lcommit, lheads, lsnaps, live>>
     \/ c \notin commits /\ Stop(p) /\ UNCHANGED commits
  /\ UNCHANGED <<head, heads, trees, torn, chunks, snaps, ghosts>>

\* Then the tree files, against the same mark.
ListTrees(p) ==
  /\ pc[p] = "sweepcommits"
  /\ todo[p] = {}
  /\ todo' = [todo EXCEPT ![p] = trees \ {dag[c].tree : c \in live[p]}]
  /\ Goto(p, "sweeptrees")
  /\ UNCHANGED <<disk, cmd, files, ltree, lparents, lcommit, lheads, lsnaps, live,
                 ghosts>>

SweepTree(p, t) ==
  /\ pc[p] = "sweeptrees"
  /\ t \in todo[p]
  /\ \/ /\ t \in trees
        /\ trees' = trees \ {t}
        /\ torn' = torn \ {t}
        /\ todo' = [todo EXCEPT ![p] = @ \ {t}]
        /\ UNCHANGED <<pc, cmd, files, ltree, lparents, lcommit, lheads, lsnaps, live>>
     \/ t \notin trees /\ Stop(p) /\ UNCHANGED <<trees, torn>>
  /\ UNCHANGED <<head, heads, commits, chunks, snaps, ghosts>>

EndGc(p) ==
  /\ pc[p] = "sweeptrees"
  /\ todo[p] = {}
  /\ Stop(p)
  /\ UNCHANGED <<disk, ghosts>>

-----------------------------------------------------------------------------
\* The process is killed.  "between writes" leaves out the kills that land
\* inside an fs::write, after the truncation.
Crash(p) ==
  /\ pc[p] # "idle"
  /\ Crashes # "never"
  /\ Crashes = "between writes" =>
        pc[p] \notin {"writetree", "writehead", "writeheads"}
  /\ Stop(p)
  /\ UNCHANGED <<disk, ghosts>>

AddSteps(p) ==
  \/ \E fs \in Inputs : AddPath(p, fs)
  \/ \E k \in todo[p] : StoreChunk(p, k)
  \/ ReadHeadTree(p)
  \/ SaveTree(p)
  \/ WriteTree(p)
  \/ ReadParents(p)
  \/ SaveCommit(p)
  \/ SetHead(p)
  \/ WriteHead(p)

HeadSteps(p) ==
  \/ Snapshot(p)
  \/ LoadSnapshots(p)
  \/ RegisterSnapshot(p)
  \/ ApplyRetention(p)
  \/ \E r \in commits, command \in {"merge", "mergeany"} : MergeHead(p, r, command)
  \/ \E r \in commits : SetHeadPublic(p, r)
  \/ ReadHeads(p)
  \/ SetHeads(p)
  \/ WriteHeads(p)

GcSteps(p) ==
  \/ Gc(p)
  \/ MarkChunks(p)
  \/ \E k \in todo[p] : SweepChunk(p, k)
  \/ MarkObjects(p)
  \/ \E c \in todo[p] : SweepCommit(p, c)
  \/ ListTrees(p)
  \/ \E t \in todo[p] : SweepTree(p, t)
  \/ EndGc(p)

PeerSteps ==
  \/ \E t \in PeerTrees, ps \in {{}} \cup {{c} : c \in Known} :
        Publish(t, ps)
  \/ \E c \in Commit : ImportCommit(c)
  \/ \E c \in commits : ImportTree(c)
  \/ \E c \in commits, k \in Chunks : ImportStoredChunk(c, k)

Next ==
  \/ \E p \in Procs : AddSteps(p) \/ HeadSteps(p) \/ GcSteps(p) \/ Crash(p)
  \/ PeerSteps

Spec == Init /\ [][Next]_vars

-----------------------------------------------------------------------------
(* Properties                                                              *)

\* Every variable holds a value of its kind.
TypeOK ==
  /\ head \in Commit \cup {None, Torn}
  /\ heads \subseteq Commit
  /\ commits \subseteq Commit
  /\ trees \subseteq Tree
  /\ torn \subseteq trees
  /\ chunks \subseteq Chunks
  /\ snaps \in Seq(Nat) /\ SnapSet \subseteq Commit
  /\ pc \in [Procs -> PCs]
  /\ cmd \in [Procs -> AllCommands \cup {"none"}]
  /\ files \in [Procs -> Tree]
  /\ ltree \in [Procs -> Tree]
  /\ lparents \in [Procs -> SUBSET Nat] /\ \A p \in Procs : lparents[p] \subseteq Commit
  /\ lcommit \in [Procs -> Nat \cup {None}]
  /\ \A p \in Procs : lcommit[p] \in Commit \cup {None}
  /\ lheads \in [Procs -> SUBSET Nat] /\ \A p \in Procs : lheads[p] \subseteq Commit
  /\ lsnaps \in [Procs -> Seq(Nat)]
  /\ \A p \in Procs : \A i \in DOMAIN lsnaps[p] : lsnaps[p][i] \in Commit
  /\ live \in [Procs -> SUBSET Nat] /\ \A p \in Procs : live[p] \subseteq Commit
  /\ DOMAIN todo = Procs
  /\ \A p \in Procs :
       /\ cmd[p] = "none" => pc[p] = "idle"
       /\ pc[p] = "store" => todo[p] \subseteq Chunks
       /\ pc[p] \in {"sethead", "writehead", "readheads", "loadregister", "register"} =>
            lcommit[p] # None
  /\ dag \in Seq(CommitRecord)
  /\ \A c \in Commit : dag[c].parents \subseteq Commit
  /\ acked \subseteq Commit
  /\ tip \in Commit \cup {None}

\* Whenever no command runs, HEAD, every tip in HEADS and every registered
\* snapshot can be restored: commit, tree and chunks are on disk and intact.
RootsRestorable == AllIdle => \A r \in Roots : IsComplete(r)

\* "Commit roots that must stay live for GC: HEAD + registered snapshots +
\* HEADS" (policy.rs): no step deletes a commit that is reached from a root,
\* its tree, or a chunk of its tree.
GcKeepsRoots ==
  [][\A c \in Marked(Roots) :
       /\ c \in commits'
       /\ dag[c].tree \in trees =>
            /\ dag[c].tree \in trees'
            /\ ChunksOf(dag[c].tree) \cap chunks \subseteq chunks']_vars

\* "Previous files remain unless overwritten by the same logical path"
\* (add_path): the tree of a commit made by add is its parent's tree with
\* the added files put over it.
AddKeepsParentFiles ==
  \A c \in Commit : dag[c].by = "add" =>
    /\ dag[c].parents = {} => dag[c].tree = Overlay(EmptyTree, dag[c].files)
    /\ \A q \in dag[c].parents : dag[c].tree = Overlay(dag[q].tree, dag[c].files)

\* "Each successful add creates a commit parented to the previous HEAD"
\* (spec.md): when an add has written HEAD, its commit's parent is the commit
\* HEAD named last.
AddParentedToHead ==
  [][\A c \in acked' \ acked :
       dag'[c].by = "add" => dag'[c].parents = IF tip = None THEN {} ELSE {tip}]_vars

\* Whatever add, snapshot or merge has published as HEAD stays a restorable
\* version in the history of some root, through later commands and gc.
AckedKept ==
  AllIdle => \A c \in acked : c \in Marked(Roots) /\ IsComplete(c)

\* Without gc, overlapping commands may hide one another's commits but never
\* damage one: everything published can still be restored by its hash.
AckedOnDisk == AllIdle => \A c \in acked : IsComplete(c)

\* Files are written in place, by several processes at once and while a gc
\* deletes them: once every command has returned, whatever the overlap was,
\* no file is left truncated.  Only a kill inside a write can do that.
QuietDiskIntact == AllIdle => head # Torn /\ torn = {}

\* The vault implements the abstract folder: the folder is the tree of the
\* commit last written to HEAD, its versions are the trees of the known
\* commits.
TipTree == IF tip = None THEN EmptyTree ELSE dag[tip].tree
KnownTrees == {EmptyTree} \cup {dag[c].tree : c \in Known}
Folder == INSTANCE VersionedFolder WITH folder <- TipTree, versions <- KnownTrees
ImplementsFolder == Folder!Spec
=============================================================================
