----------------------------- MODULE SyncEngine -----------------------------
(***************************************************************************)
(* sync::fetch_dag (src/src/sync.rs): the walk from a target commit over   *)
(* its parents, their trees and their chunks, with failover between peers, *)
(* and the checkpoint file that lets a later run resume it.  Runs do not   *)
(* overlap; between two of them a gc may delete what was fetched so far    *)
(* and nothing refers to yet.                                              *)
(***************************************************************************)
EXTENDS Naturals, Sequences, FiniteSets

CONSTANTS Commits, Trees, Chunks,
          Parents,          \* parents of a commit, in order
          TreeOf,           \* tree of a commit
          ChunksIn,         \* chunks of a tree
          Targets,          \* heads the user asks for
          LocalHeads,       \* commits a vault's own HEAD may name at first
          Peers,
          Holds,            \* objects a peer can serve
          CheckpointEvery,  \* chunks between two checkpoints (32)
          MaxJobCommits,    \* MAX_JOB_COMMITS
          MaxFaults,        \* bound on kills and gcs
          None

Objects == Commits \cup Trees \cup Chunks

JobStates == {"Fetching", "Verifying", "Done", "Failed"}
Job == [state: JobStates, done: SUBSET Objects]

ASSUME SyncAssumption ==
  /\ Parents \in [Commits -> Seq(Commits)]
  /\ TreeOf \in [Commits -> Trees]
  /\ ChunksIn \in [Trees -> SUBSET Chunks]
  /\ Commits \cap Trees = {} /\ Commits \cap Chunks = {} /\ Trees \cap Chunks = {}
  /\ Targets \subseteq Commits
  /\ LocalHeads \subseteq Commits \cup {None}
  /\ Holds \in [Peers -> SUBSET Objects]
  /\ CheckpointEvery \in Nat \ {0} /\ MaxJobCommits \in Nat /\ MaxFaults \in Nat
  /\ None \notin Commits \cup Job

VARIABLES
  disk,      \* objects whose file is there
  torn,      \* those whose file is truncated
  head,      \* HEAD
  heads,     \* HEADS
  job,       \* checkpoint file of each target, or None
  up,        \* peers that answer
  pc,
  target,    \* the commit asked for
  sethead,   \* the set_head argument: not `sync --merge`
  done,      \* job.done_commits, done_trees and done_chunks, in memory
  queue, visited,
  cur,       \* commit being fetched
  faults     \* kills and gcs so far

stored  == <<disk, torn, head, heads, job>>
running == <<pc, target, sethead, done, queue, visited, cur>>
vars    == <<stored, up, running, faults>>

Parent(c) == {Parents[c][i] : i \in DOMAIN Parents[c]}

\* The commits a walk from R gets to when it can load the commits in D.
Reached(R, D) ==
  {a \in Commits : \A S \in SUBSET Commits :
     (R \subseteq S /\ \A d \in S \cap D : Parent(d) \subseteq S) => a \in S}
History(c) == Reached({c}, Commits)

Readable(o) == o \in disk \ torn

\* Vault::is_complete: the commit, its tree and the chunks; an unreadable
\* file is an error, never an Ok(true).
IsComplete(c) ==
  /\ Readable(c) /\ Readable(TreeOf[c])
  /\ ChunksIn[TreeOf[c]] \subseteq disk
IsUnreadable(c) == c \in torn \/ (c \in disk /\ TreeOf[c] \in torn)

\* get_blob_with_failover: some peer of the list answers.
Available(o) == \E p \in up : o \in Holds[p]

-----------------------------------------------------------------------------
\* Commits with their trees, and the chunks of those trees that are in D.
WithTrees(H) == H \cup {TreeOf[c] : c \in H}
WithChunks(H, D) ==
  WithTrees(H) \cup UNION {ChunksIn[TreeOf[c]] : c \in {h \in H : TreeOf[h] \in D}}

Heads == heads \cup ({head} \ {None})

Init ==
  /\ head \in LocalHeads
  /\ disk = IF head = None THEN {} ELSE WithChunks(History(head), Trees)
  /\ torn = {} /\ heads = {}
  /\ job = [t \in Targets |-> None]
  /\ up = Peers
  /\ pc = "idle" /\ target = None /\ sethead = FALSE
  /\ done = {} /\ queue = <<>> /\ visited = {} /\ cur = None
  /\ faults = 0

\* fetch_dag returns, or its process is killed.
Exit ==
  /\ pc' = "idle" /\ target' = None /\ sethead' = FALSE
  /\ done' = {} /\ queue' = <<>> /\ visited' = {} /\ cur' = None

\* persist_job: through a rename, so old contents or new.
Persist(state, d) == job' = [job EXCEPT ![target] = [state |-> state, done |-> d]]

\* Any error inside the walk: the job is kept, as Failed.
Fail ==
  /\ Persist("Failed", done)
  /\ Exit
  /\ UNCHANGED <<disk, torn, head, heads>>

\* Mutant of FetchDag: a Failed job is final.
BugFailedIsFinal(t, sh) ==
  /\ pc = "idle"
  /\ ~IsUnreadable(t)
  /\ job[t] = None
  /\ target' = t /\ sethead' = sh
  /\ pc' = IF IsComplete(t) THEN "fast" ELSE "walk"
  /\ queue' = <<t>>
  /\ job' = [job EXCEPT ![t] = [state |-> "Fetching", done |-> {}]]
  /\ UNCHANGED <<disk, torn, head, heads, up, done, visited, cur, faults>>

\* The fast path looks at the target alone; an unreadable target is an error
\* that leaves no trace; else the walk starts from the checkpoint, unless the
\* last walk was Done.
FetchDag(t, sh) ==
  /\ pc = "idle"
  /\ ~IsUnreadable(t)
  /\ target' = t /\ sethead' = sh
  /\ \/ /\ IsComplete(t)
        /\ pc' = "fast"
        /\ UNCHANGED <<job, done, queue>>
     \/ /\ ~IsComplete(t)
        /\ pc' = "walk"
        /\ queue' = <<t>>
        /\ done' = IF job[t] = None THEN {}
                   ELSE IF job[t].state = "Done" THEN {} ELSE job[t].done
        /\ job' = [job EXCEPT ![t] = [state |-> "Fetching", done |-> done']]
  /\ UNCHANGED <<disk, torn, head, heads, up, visited, cur, faults>>

\* set_head_public, if asked for.
AdoptTarget ==
  /\ head' = IF sethead THEN target ELSE head
  /\ heads' = IF sethead THEN heads \cup {target} ELSE heads

FastPath ==
  /\ pc = "fast"
  /\ AdoptTarget
  /\ Exit
  /\ UNCHANGED <<disk, torn, job, up, faults>>

\* The cap counts the commits visited, and is looked at before the commit
\* popped is known to be a new one.
Pop ==
  /\ pc = "walk" /\ queue # <<>>
  /\ \/ Cardinality(visited) > MaxJobCommits /\ Fail
     \/ /\ Cardinality(visited) <= MaxJobCommits
        /\ queue' = Tail(queue)
        /\ visited' = visited \cup {Head(queue)}
        /\ IF Head(queue) \in visited THEN UNCHANGED <<pc, cur>>
           ELSE pc' = "commit" /\ cur' = Head(queue)
        /\ UNCHANGED <<stored, target, sethead, done>>
  /\ UNCHANGED <<up, faults>>

\* Mutant of Get: an object that no peer serves is checked off all the same.
BugGetUnavailable(o, at, note, load) ==
  /\ pc = at
  /\ disk' = IF o \in done \/ ~Available(o) THEN disk ELSE disk \cup {o}
  /\ pc' = IF o \in done THEN load ELSE note
  /\ UNCHANGED <<torn, head, heads, job, up, target, sethead, done, queue,
                 visited, cur, faults>>

\* What the walk does with the commit and the tree object o at step `at`:
\* nothing if the checkpoint has it; fetch it if its file is missing.
Get(o, at, note, load) ==
  /\ pc = at
  /\ \/ /\ o \in done
        /\ pc' = load
        /\ UNCHANGED disk
     \/ /\ o \notin done
        /\ o \in disk \/ Available(o)
        /\ disk' = disk \cup {o}
        /\ pc' = note
  /\ UNCHANGED <<torn, head, heads, job, up, target, sethead, done, queue,
                 visited, cur, faults>>

Unavailable(o, at) ==
  /\ pc = at
  /\ o \notin done \cup disk /\ ~Available(o)
  /\ Fail
  /\ UNCHANGED <<up, faults>>

\* Checked off, and the checkpoint written.
Note(o, at, load) ==
  /\ pc = at
  /\ done' = done \cup {o}
  /\ Persist("Fetching", done')
  /\ pc' = load
  /\ UNCHANGED <<disk, torn, head, heads, up, target, sethead, queue, visited,
                 cur, faults>>

\* An existing commit file is loaded, for its signature, before it is noted.
GetCommit ==
  \/ cur \notin torn \ done /\ Get(cur, "commit", "notecommit", "loadcommit")
  \/ cur \in torn \ done /\ pc = "commit" /\ Fail /\ UNCHANGED <<up, faults>>
  \/ Unavailable(cur, "commit")

NoteCommit == Note(cur, "notecommit", "loadcommit")

\* Mutant of LoadCommit: only the first parent is followed.
BugFirstParent ==
  /\ pc = "loadcommit"
  /\ \/ /\ Readable(cur)
        /\ queue' = IF Parents[cur] = <<>> THEN queue ELSE Append(queue, Parents[cur][1])
        /\ pc' = "tree"
        /\ UNCHANGED <<stored, target, sethead, done, visited, cur>>
     \/ ~Readable(cur) /\ Fail
  /\ UNCHANGED <<up, faults>>

\* The parents are queued.
LoadCommit ==
  /\ pc = "loadcommit"
  /\ \/ /\ Readable(cur)
        /\ queue' = queue \o Parents[cur]
        /\ pc' = "tree"
        /\ UNCHANGED <<stored, target, sethead, done, visited, cur>>
     \/ ~Readable(cur) /\ Fail
  /\ UNCHANGED <<up, faults>>

GetTree ==
  \/ Get(TreeOf[cur], "tree", "notetree", "loadtree")
  \/ Unavailable(TreeOf[cur], "tree")

NoteTree == Note(TreeOf[cur], "notetree", "loadtree")

LoadTree ==
  /\ pc = "loadtree"
  /\ \/ /\ Readable(TreeOf[cur])
        /\ pc' = "chunks"
        /\ UNCHANGED <<stored, target, sethead, done, queue, visited, cur>>
     \/ ~Readable(TreeOf[cur]) /\ Fail
  /\ UNCHANGED <<up, faults>>

ChunksLeft == IF pc = "chunks" THEN ChunksIn[TreeOf[cur]] \ done ELSE {}

\* A chunk is checked off in memory; the checkpoint is written once in a
\* while.
GetChunk(k) ==
  /\ k \in ChunksLeft
  /\ k \in disk \/ Available(k)
  /\ disk' = disk \cup {k}
  /\ done' = done \cup {k}
  /\ IF Cardinality(done' \cap Chunks) % CheckpointEvery = 0
     THEN Persist("Fetching", done') ELSE UNCHANGED job
  /\ UNCHANGED <<torn, head, heads, up, pc, target, sethead, queue, visited,
                 cur, faults>>

ChunkUnavailable(k) == Unavailable(k, "chunks")

EndCommit ==
  /\ pc = "chunks" /\ ChunksLeft = {}
  /\ pc' = "walk"
  /\ UNCHANGED <<stored, up, target, sethead, done, queue, visited, cur, faults>>

EndWalk ==
  /\ pc = "walk" /\ queue = <<>>
  /\ Persist("Verifying", done)
  /\ pc' = "verify"
  /\ UNCHANGED <<disk, torn, head, heads, up, target, sethead, done, queue,
                 visited, cur, faults>>

\* Mutant of Verify: the walk is trusted.
BugTrustWalk ==
  /\ pc = "verify"
  /\ AdoptTarget
  /\ pc' = "finish"
  /\ UNCHANGED <<disk, torn, job, target, sethead, done, queue, visited, cur, up, faults>>

Verify ==
  /\ pc = "verify"
  /\ \/ /\ IsComplete(target)
        /\ AdoptTarget
        /\ pc' = "finish"
        /\ UNCHANGED <<disk, torn, job, target, sethead, done, queue, visited, cur>>
     \/ ~IsComplete(target) /\ Fail
  /\ UNCHANGED <<up, faults>>

Finish ==
  /\ pc = "finish"
  /\ Persist("Done", done)
  /\ Exit
  /\ UNCHANGED <<disk, torn, head, heads, up, faults>>

Engine ==
  \/ FastPath \/ Pop \/ EndWalk \/ Verify \/ Finish
  \/ GetCommit \/ NoteCommit \/ LoadCommit
  \/ GetTree \/ NoteTree \/ LoadTree
  \/ (\E k \in ChunksLeft : GetChunk(k) \/ ChunkUnavailable(k)) \/ EndCommit

-----------------------------------------------------------------------------
(* The surroundings                                                        *)

\* The process is killed, possibly while import_commit_bytes or
\* import_tree_bytes writes a file.
Crash ==
  /\ pc # "idle"
  /\ faults < MaxFaults /\ faults' = faults + 1
  /\ \/ UNCHANGED <<disk, torn>>
     \/ \E o \in CASE pc = "commit" -> {cur} [] pc = "tree" -> {TreeOf[cur]} [] OTHER -> {} :
          /\ o \notin disk \cup done /\ Available(o)
          /\ disk' = disk \cup {o} /\ torn' = torn \cup {o}
  /\ Exit
  /\ UNCHANGED <<head, heads, job, up>>

\* Vault::gc_all between two runs: what HEAD and HEADS reach stays.  An
\* unreadable object among it fails the gc.  A gc killed half way has deleted
\* chunks only.
Live == Reached(Heads, disk) \cap disk

Gc ==
  /\ pc = "idle"
  /\ faults < MaxFaults /\ faults' = faults + 1
  /\ WithTrees(Live) \cap torn = {}
  /\ \E sweep \in {Chunks, Objects} :
       disk' = disk \ (sweep \ WithChunks(Live, disk))
  /\ torn' = torn \cap disk'
  /\ UNCHANGED <<head, heads, job, up, running>>

PeersChange ==
  /\ up' \in SUBSET Peers
  /\ UNCHANGED <<stored, running, faults>>

Next ==
  \/ \E t \in Targets, sh \in BOOLEAN : FetchDag(t, sh)
  \/ Engine
  \/ Crash
  \/ Gc
  \/ PeersChange

Spec == Init /\ [][Next]_vars

\* A running process keeps running, and the user keeps asking for every
\* target.
FairSpec ==
  /\ Spec
  /\ WF_vars(Engine)
  /\ \A t \in Targets : SF_vars(\E sh \in BOOLEAN : FetchDag(t, sh))

-----------------------------------------------------------------------------
\* A sync moves HEAD only to a commit that can be restored, and no gc or kill
\* afterwards changes that.
HeadsRestorable == \A h \in Heads : IsComplete(h)

\* "Fetch a complete commit DAG (target + parents)" (fetch_dag): when it is
\* about to return Ok, every commit of the target's history can be restored.
FetchesHistory(at) == pc \in at => \A c \in History(target) : IsComplete(c)
OkMeansHistory == FetchesHistory({"fast", "finish"})

\* The same of a run that walked, even from a checkpoint that gc or a kill
\* has made stale.
WalkFetchesHistory == FetchesHistory({"finish"})

\* A checkpoint never gets ahead of the disk: what a step adds to one has
\* its file, whenever the process is killed.
CheckpointFollowsDisk ==
  [][\A t \in Targets :
       job'[t] # None =>
         job'[t].done \ (IF job[t] = None THEN {} ELSE job[t].done) \subseteq disk']_vars

\* "Interrupted syncs can resume" (sync.rs): if the peers stay reachable from
\* some time on, then the target gets complete, unless its checkpoint names
\* files that a kill truncated or a gc deleted.
UsableCheckpoint(t) == torn = {} /\ (job[t] # None => job[t].done \subseteq disk)
Resumes ==
  \A t \in Targets :
    <>[](up = Peers) /\ []UsableCheckpoint(t) => <>IsComplete(t)
=============================================================================
