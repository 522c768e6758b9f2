-------------------------- MODULE SyncEngineProofs --------------------------
(***************************************************************************)
(* What fetch_dag keeps for every history, every set of peers and every    *)
(* order of kills, gcs and unreachable peers: heads stay restorable,       *)
(* checkpoints do not get ahead of the disk, and a walk that says Ok has   *)
(* fetched the whole history, although it believes checkpoints that a gc   *)
(* has made stale.                                                         *)
(***************************************************************************)
EXTENDS SyncEngine, SequenceTheorems, TLAPS

InCommit == {"commit", "notecommit", "loadcommit", "tree", "notetree", "loadtree", "chunks"}
Loaded == {"tree", "notetree", "loadtree", "chunks"}
Walks == InCommit \cup {"walk", "verify", "finish"}
Items(s) == {s[i] : i \in DOMAIN s}

-----------------------------------------------------------------------------
(* The inductive invariant                                                 *)

Types ==
  /\ disk \subseteq Objects /\ torn \subseteq disk
  /\ head \in Commits \cup {None} /\ heads \subseteq Commits
  /\ job \in [Targets -> Job \cup {None}]
  /\ up \subseteq Peers
  /\ pc \in Walks \cup {"idle", "fast"}
  /\ target \in Targets \cup {None} /\ sethead \in BOOLEAN
  /\ done \subseteq Objects
  /\ queue \in Seq(Commits) /\ visited \subseteq Commits
  /\ cur \in Commits \cup {None}
  /\ faults \in Nat
  /\ pc # "idle" => target \in Targets
  /\ pc \in InCommit => cur \in Commits

\* What is adopted was found complete.
HeadInv ==
  /\ HeadsRestorable
  /\ pc \in {"fast", "finish"} => IsComplete(target)

\* What a run has checked off was in the checkpoint or is on disk.
CheckInv ==
  pc \in Walks =>
    /\ job[target] # None
    /\ done \subseteq disk \cup job[target].done
    /\ pc = "notecommit" => cur \in disk
    /\ pc = "notetree" => TreeOf[cur] \in disk

\* The walk is through with a commit: it could be loaded, and its parents are
\* visited or wait in the queue.
Seen(c) ==
  /\ Readable(c) /\ Readable(TreeOf[c])
  /\ Parent(c) \subseteq visited \cup Items(queue)
  /\ ChunksIn[TreeOf[c]] \subseteq done

WalkInv ==
  /\ pc = "idle" => visited = {}
  /\ pc \in Walks =>
       /\ target \in visited \cup Items(queue)
       /\ \A c \in visited : Seen(c) \/ (pc \in InCommit /\ c = cur)
       /\ pc \in InCommit => cur \in visited
       /\ pc \in Loaded =>
            Readable(cur) /\ Parent(cur) \subseteq visited \cup Items(queue)
       /\ pc = "chunks" => Readable(TreeOf[cur])
       /\ pc \in {"verify", "finish"} => queue = <<>>

\* The objects of a commit.
Own(c) == {c, TreeOf[c]} \cup ChunksIn[TreeOf[c]]

\* The target comes first in the walk: what is checked off is part of it, or
\* has all of it.
TargetFirst(t, d) == d \subseteq Own(t) \/ Own(t) \subseteq d

OrderInv ==
  /\ \A t \in Targets : job[t] # None => TargetFirst(t, job[t].done)
  /\ pc \in Walks =>
       /\ TargetFirst(target, done)
       /\ visited = {} => pc = "walk" /\ queue = <<target>>
       /\ pc \in InCommit => cur = target \/ Own(target) \subseteq done
       /\ pc \notin InCommit /\ visited # {} => Own(target) \subseteq done
       /\ pc \in Loaded \cup {"loadcommit"} => cur \in done
       /\ pc \in {"loadtree", "chunks"} => TreeOf[cur] \in done

\* An object of the target that is checked off but not there: it is never
\* fetched again, so that Verify fails.
Lost(o) == o \in done /\ IF o \in Chunks THEN o \notin disk ELSE ~Readable(o)

StaleInv ==
  /\ pc \in Walks => done \cap Chunks \subseteq disk \/ \E o \in Own(target) : Lost(o)
  /\ pc = "finish" => done \cap Chunks \subseteq disk

IInv == Types /\ HeadInv /\ CheckInv /\ WalkInv /\ OrderInv /\ StaleInv

-----------------------------------------------------------------------------
(* Facts about the data                                                    *)

LEMMA TailItems ==
  ASSUME NEW S, NEW s \in Seq(S), s # <<>>
  PROVE  /\ Tail(s) \in Seq(S) /\ Head(s) \in S
         /\ Items(s) = {Head(s)} \cup Items(Tail(s))
<1>1. Tail(s) \in Seq(S) /\ Head(s) \in S /\ Len(s) > 0
  OBVIOUS
<1>2. ASSUME NEW i \in DOMAIN s  PROVE s[i] \in {Head(s)} \cup Items(Tail(s))
  <2>1. CASE i = 1
    BY <2>1
  <2>2. CASE i # 1
    <3>1. i - 1 \in DOMAIN Tail(s) /\ Tail(s)[i - 1] = s[i]
      BY <1>1, <1>2, <2>2
    <3> QED
      BY <3>1 DEF Items
  <2> QED
    BY <2>1, <2>2
<1>3. ASSUME NEW i \in DOMAIN Tail(s)  PROVE Tail(s)[i] \in Items(s)
  <2>1. i + 1 \in DOMAIN s /\ Tail(s)[i] = s[i + 1]
    BY <1>1, <1>3
  <2> QED
    BY <2>1 DEF Items
<1>4. Head(s) \in Items(s)
  <2>1. 1 \in DOMAIN s /\ Head(s) = s[1]
    BY <1>1
  <2> QED
    BY <2>1 DEF Items
<1> QED
  BY <1>1, <1>2, <1>3, <1>4 DEF Items

LEMMA ConcatItems ==
  ASSUME NEW S, NEW s \in Seq(S), NEW u \in Seq(S)
  PROVE  s \o u \in Seq(S) /\ Items(s \o u) = Items(s) \cup Items(u)
<1>1. s \o u \in Seq(S) /\ Len(s \o u) = Len(s) + Len(u)
  OBVIOUS
<1>2. ASSUME NEW i \in DOMAIN (s \o u)  PROVE (s \o u)[i] \in Items(s) \cup Items(u)
  <2>1. CASE i <= Len(s)
    <3>1. i \in DOMAIN s /\ (s \o u)[i] = s[i]
      BY <1>2, <2>1
    <3> QED
      BY <3>1 DEF Items
  <2>2. CASE i > Len(s)
    <3>1. i - Len(s) \in DOMAIN u /\ (s \o u)[i] = u[i - Len(s)]
      BY <1>2, <2>2
    <3> QED
      BY <3>1 DEF Items
  <2> QED
    BY <1>1, <2>1, <2>2
<1>3. ASSUME NEW i \in DOMAIN s  PROVE s[i] \in Items(s \o u)
  <2>1. i \in DOMAIN (s \o u) /\ (s \o u)[i] = s[i]
    BY <1>3
  <2> QED
    BY <2>1 DEF Items
<1>4. ASSUME NEW i \in DOMAIN u  PROVE u[i] \in Items(s \o u)
  <2>1. i + Len(s) \in DOMAIN (s \o u) /\ (s \o u)[i + Len(s)] = u[i]
    BY <1>4
  <2> QED
    BY <2>1 DEF Items
<1> QED
  BY <1>1, <1>2, <1>3, <1>4 DEF Items

LEMMA SingleItem == ASSUME NEW c \in Commits
                    PROVE <<c>> \in Seq(Commits) /\ Items(<<c>>) = {c} /\ <<c>> # <<>>
BY DEF Items

LEMMA DataTypes ==
  /\ \A c \in Commits : /\ Parents[c] \in Seq(Commits) /\ Parent(c) = Items(Parents[c])
                        /\ Parent(c) \subseteq Commits
                        /\ TreeOf[c] \in Trees /\ ChunksIn[TreeOf[c]] \subseteq Chunks
  /\ Commits \cap Trees = {} /\ Commits \cap Chunks = {} /\ Trees \cap Chunks = {}
  /\ None \notin Commits \cup Job /\ Targets \subseteq Commits
BY SyncAssumption DEF Parent, Items

\* A job that is rewritten.
LEMMA Persisted ==
  ASSUME Types, target \in Targets, NEW s \in JobStates, NEW d \in SUBSET Objects,
         Persist(s, d)
  PROVE  /\ job' \in [Targets -> Job \cup {None}]
         /\ job'[target] # None /\ job'[target].done = d
         /\ \A t \in Targets \ {target} : job'[t] = job[t]
<1>1. [state |-> s, done |-> d] \in Job
  BY DEF Job
<1> QED
  BY <1>1, DataTypes DEF Types, Persist

-----------------------------------------------------------------------------
(* Types                                                                   *)

LEMMA TypesInit == Init => Types
<1> SUFFICES ASSUME Init PROVE Types
  OBVIOUS
<1>1. head \in Commits \cup {None}
  BY SyncAssumption DEF Init
<1>2. \A h : History(h) \subseteq Commits
  BY DEF History, Reached
<1>3. disk \subseteq Objects
  <2>1. \A h \in Commits : WithChunks(History(h), Trees) \subseteq Objects
    BY <1>2, DataTypes DEF WithChunks, WithTrees, Objects
  <2> QED
    BY <1>1, <2>1 DEF Init
<1>4. queue \in Seq(Commits)
  BY DEF Init
<1>5. job \in [Targets -> Job \cup {None}]
  BY DEF Init
<1> QED
  BY <1>1, <1>3, <1>4, <1>5 DEF Init, Types, InCommit, Walks

\* A run that ends.
LEMMA ExitTypes ==
  ASSUME Types, Exit, disk' \subseteq Objects, torn' \subseteq disk',
         head' \in Commits \cup {None}, heads' \subseteq Commits,
         job' \in [Targets -> Job \cup {None}], up' \subseteq Peers, faults' \in Nat
  PROVE  Types'
<1>1. queue' \in Seq(Commits) /\ pc' = "idle" /\ pc' \notin InCommit
  BY DEF Exit, InCommit
<1> QED
  BY <1>1 DEF Exit, Types

LEMMA FailTypes ==
  ASSUME Types, target \in Targets, Fail, UNCHANGED <<up, faults>>
  PROVE  Types'
<1>1. job' \in [Targets -> Job \cup {None}]
  BY Persisted DEF Fail, Types, JobStates
<1> QED
  BY <1>1, ExitTypes DEF Fail, Types

LEMMA TypesNext == Types /\ [Next]_vars => Types'
<1> SUFFICES ASSUME Types, [Next]_vars PROVE Types'
  OBVIOUS
<1> USE DEF stored, running, InCommit, Walks
<1>1. ASSUME NEW t \in Targets, NEW sh \in BOOLEAN, FetchDag(t, sh) PROVE Types'
  <2>0. /\ queue' \in Seq(Commits) /\ pc' \in {"fast", "walk"} /\ target' = t /\ sethead' = sh
        /\ UNCHANGED <<disk, torn, head, heads, up, visited, cur, faults>>
    <3>1. t \in Commits
      BY DataTypes
    <3> QED
      BY <1>1, <3>1, SingleItem DEF FetchDag, Types
  <2>1. CASE job' = job /\ done' = done
    BY <1>1, <2>0, <2>1 DEF Types
  <2>2. CASE job' = [job EXCEPT ![t] = [state |-> "Fetching", done |-> done']] /\ done' \subseteq Objects
    <3>1. job' \in [Targets -> Job \cup {None}]
      BY <2>2, <1>1 DEF Types, Job, JobStates
    <3> QED
      BY <1>1, <2>0, <2>2, <3>1 DEF Types
  <2>3. job[t] # None => job[t].done \subseteq Objects
    BY <1>1 DEF Types, Job
  <2> QED
    BY <1>1, <2>1, <2>2, <2>3 DEF FetchDag
<1>2. CASE FastPath
  <2>1. head' \in Commits \cup {None} /\ heads' \subseteq Commits
    BY <1>2, DataTypes DEF FastPath, AdoptTarget, Types
  <2> QED
    BY <1>2, <2>1, ExitTypes DEF FastPath, Types
<1>3. CASE Pop
  <2>1. target \in Targets
    BY <1>3 DEF Pop, Types
  <2>2. CASE Fail
    BY <1>3, <2>1, <2>2, FailTypes DEF Pop
  <2>3. CASE ~Fail
    <3>1. Tail(queue) \in Seq(Commits) /\ Head(queue) \in Commits
      BY <1>3, TailItems DEF Pop, Types
    <3> QED
      BY <1>3, <2>3, <3>1 DEF Pop, Types
  <2> QED
    BY <2>2, <2>3
<1>4. CASE EndWalk
  BY <1>4, Persisted DEF EndWalk, Types, JobStates
<1>5. CASE Verify
  <2>0. target \in Targets
    BY <1>5 DEF Verify, Types
  <2>1. CASE Fail
    BY <1>5, <2>1, <2>0, FailTypes DEF Verify
  <2> QED
    BY <1>5, <2>0, <2>1, DataTypes DEF Verify, AdoptTarget, Types
<1>6. CASE Finish
  <2>1. job' \in [Targets -> Job \cup {None}]
    BY <1>6, Persisted DEF Finish, Types, JobStates
  <2> QED
    BY <1>6, <2>1, ExitTypes DEF Finish, Types
<1>7. ASSUME NEW o \in Objects, NEW at, NEW note \in InCommit, NEW load \in InCommit,
             cur \in Commits, target \in Targets, Get(o, at, note, load) PROVE Types'
  BY <1>7 DEF Get, Types
<1>8. ASSUME NEW o, NEW at \in InCommit, Unavailable(o, at) PROVE Types'
  <2>1. target \in Targets
    BY <1>8 DEF Unavailable, Types
  <2> QED
    BY <1>8, <2>1, FailTypes DEF Unavailable
<1>9. ASSUME NEW o \in Objects, NEW at, NEW load \in InCommit,
             cur \in Commits, target \in Targets, Note(o, at, load) PROVE Types'
  BY <1>9, Persisted DEF Note, Types, JobStates
<1>10. CASE GetCommit
  <2>1. pc = "commit" /\ cur \in Commits /\ target \in Targets
    BY <1>10 DEF GetCommit, Get, Unavailable, Types
  <2>2. CASE pc = "commit" /\ Fail /\ UNCHANGED <<up, faults>>
    BY <2>1, <2>2, FailTypes
  <2> QED
    BY <1>10, <2>1, <2>2, <1>7, <1>8 DEF GetCommit, Objects
<1>11. CASE NoteCommit
  <2>1. pc = "notecommit" /\ cur \in Commits /\ target \in Targets
    BY <1>11 DEF NoteCommit, Note, Types
  <2> QED
    BY <1>11, <2>1, <1>9 DEF NoteCommit, Objects
<1>12. CASE LoadCommit
  <2>0. target \in Targets
    BY <1>12 DEF LoadCommit, Types
  <2>1. CASE Fail
    BY <1>12, <2>0, <2>1, FailTypes DEF LoadCommit
  <2>2. CASE ~Fail
    <3>1. queue \o Parents[cur] \in Seq(Commits)
      BY <1>12, DataTypes, ConcatItems DEF LoadCommit, Types
    <3> QED
      BY <1>12, <2>2, <3>1 DEF LoadCommit, Types
  <2> QED
    BY <2>1, <2>2
<1>13. CASE GetTree
  <2>1. pc = "tree" /\ cur \in Commits /\ target \in Targets
    BY <1>13 DEF GetTree, Get, Unavailable, Types
  <2> QED
    BY <1>13, <2>1, <1>7, <1>8, DataTypes DEF GetTree, Objects
<1>14. CASE NoteTree
  <2>1. pc = "notetree" /\ cur \in Commits /\ target \in Targets
    BY <1>14 DEF NoteTree, Note, Types
  <2> QED
    BY <1>14, <2>1, <1>9, DataTypes DEF NoteTree, Objects
<1>15. CASE LoadTree
  <2>0. target \in Targets
    BY <1>15 DEF LoadTree, Types
  <2>1. CASE Fail
    BY <1>15, <2>0, <2>1, FailTypes DEF LoadTree
  <2> QED
    BY <1>15, <2>1 DEF LoadTree, Types
<1>16. ASSUME NEW k \in ChunksLeft, GetChunk(k) PROVE Types'
  <2>1. pc = "chunks" /\ target \in Targets /\ k \in Objects
    BY <1>16, DataTypes DEF ChunksLeft, Types, Objects
  <2>2. job' \in [Targets -> Job \cup {None}]
    BY <1>16, <2>1, Persisted DEF GetChunk, Types, JobStates
  <2> QED
    BY <1>16, <2>1, <2>2 DEF GetChunk, Types
<1>17. ASSUME NEW k \in ChunksLeft, ChunkUnavailable(k) PROVE Types'
  BY <1>17, <1>8 DEF ChunkUnavailable
<1>18. CASE EndCommit
  BY <1>18 DEF EndCommit, Types
<1>19. CASE Crash
  <2>1. ASSUME NEW o \in CASE pc = "commit" -> {cur} [] pc = "tree" -> {TreeOf[cur]} [] OTHER -> {}
        PROVE o \in Objects
    BY <2>1, DataTypes DEF Types, Objects
  <2> QED
    BY <1>19, <2>1, ExitTypes DEF Crash, Types
<1>20. CASE Gc
  BY <1>20 DEF Gc, Types
<1>21. CASE PeersChange
  BY <1>21 DEF PeersChange, Types
<1>22. CASE UNCHANGED vars
  BY <1>22 DEF vars, Types
<1> QED
  BY <1>1, <1>2, <1>3, <1>4, <1>5, <1>6, <1>10, <1>11, <1>12, <1>13, <1>14, <1>15,
     <1>16, <1>17, <1>18, <1>19, <1>20, <1>21, <1>22 DEF Next, Engine

-----------------------------------------------------------------------------
(* What a step does to the disk and the heads                              *)

\* The disk grows while a run goes on, and at any time but in a gc.
LEMMA DiskGrows ==
  ASSUME Types, [Next]_vars
  PROVE  /\ Gc \/ (disk \subseteq disk' /\ torn' \cap disk \subseteq torn)
         /\ pc' \in Walks => disk \subseteq disk' /\ torn' = torn
<1> USE DEF stored, running, InCommit, Walks
<1>1. ASSUME NEW t, NEW sh, FetchDag(t, sh) PROVE UNCHANGED <<disk, torn>>
  BY <1>1 DEF FetchDag
<1>2. CASE FastPath \/ Pop \/ EndWalk \/ Verify \/ Finish \/ EndCommit
  <2>1. UNCHANGED <<disk, torn>>
    BY <1>2 DEF FastPath, Pop, EndWalk, Verify, Finish, EndCommit, Fail
  <2> QED
    BY <2>1
<1>3. CASE GetCommit \/ NoteCommit \/ LoadCommit
  BY <1>3 DEF GetCommit, NoteCommit, LoadCommit, Get, Note, Unavailable, Fail
<1>4. CASE GetTree \/ NoteTree \/ LoadTree
  BY <1>4 DEF GetTree, NoteTree, LoadTree, Get, Note, Unavailable, Fail
<1>5. ASSUME NEW k, GetChunk(k) \/ ChunkUnavailable(k)
      PROVE disk \subseteq disk' /\ torn' = torn
  BY <1>5 DEF GetChunk, ChunkUnavailable, Unavailable, Fail
<1>6. CASE Crash
  BY <1>6 DEF Crash, Exit
<1>7. CASE Gc
  BY <1>7 DEF Gc, Exit
<1>8. CASE PeersChange \/ UNCHANGED vars
  BY <1>8 DEF PeersChange, vars
<1> QED
  BY <1>1, <1>2, <1>3, <1>4, <1>5, <1>6, <1>7, <1>8 DEF Next, Engine

LEMMA CompleteStays ==
  ASSUME disk \subseteq disk', torn' \cap disk \subseteq torn, NEW c, IsComplete(c)
  PROVE  IsComplete(c)'
BY DEF IsComplete, Readable

\* Heads change by adoption of a complete target only.
LEMMA HeadsChange ==
  ASSUME Types, HeadInv, [Next]_vars
  PROVE  UNCHANGED <<head, heads>> \/ (AdoptTarget /\ IsComplete(target))
<1> USE DEF stored, running
<1>1. ASSUME NEW t, NEW sh, FetchDag(t, sh) PROVE UNCHANGED <<head, heads>>
  BY <1>1 DEF FetchDag
<1>2. CASE FastPath \/ Verify
  BY <1>2 DEF FastPath, Verify, Fail, HeadInv
<1>3. CASE Pop \/ EndWalk \/ Finish \/ EndCommit
  BY <1>3 DEF Pop, EndWalk, Finish, EndCommit, Fail
<1>4. CASE GetCommit \/ NoteCommit \/ LoadCommit
  BY <1>4 DEF GetCommit, NoteCommit, LoadCommit, Get, Note, Unavailable, Fail
<1>5. CASE GetTree \/ NoteTree \/ LoadTree
  BY <1>5 DEF GetTree, NoteTree, LoadTree, Get, Note, Unavailable, Fail
<1>6. ASSUME NEW k, GetChunk(k) \/ ChunkUnavailable(k) PROVE UNCHANGED <<head, heads>>
  BY <1>6 DEF GetChunk, ChunkUnavailable, Unavailable, Fail
<1>7. CASE Crash \/ Gc \/ PeersChange \/ UNCHANGED vars
  BY <1>7 DEF Crash, Gc, PeersChange, vars
<1> QED
  BY <1>1, <1>2, <1>3, <1>4, <1>5, <1>6, <1>7 DEF Next, Engine

\* Which steps lead to the adoption.
LEMMA AdoptingSteps ==
  ASSUME Types, HeadInv, [Next]_vars, pc' \in {"fast", "finish"}
  PROVE  IsComplete(target') /\ UNCHANGED <<disk, torn>>
<1> USE DEF stored, running
<1>1. ASSUME NEW t, NEW sh, FetchDag(t, sh) PROVE IsComplete(target') /\ UNCHANGED <<disk, torn>>
  BY <1>1 DEF FetchDag
<1>2. CASE Verify \/ PeersChange \/ UNCHANGED vars
  BY <1>2 DEF Verify, Fail, Exit, PeersChange, vars, HeadInv
<1>3. CASE FastPath \/ Pop \/ EndWalk \/ Finish \/ EndCommit
  BY <1>3 DEF FastPath, Pop, EndWalk, Finish, EndCommit, Fail, Exit
<1>4. CASE GetCommit \/ NoteCommit \/ LoadCommit
  BY <1>4 DEF GetCommit, NoteCommit, LoadCommit, Get, Note, Unavailable, Fail, Exit
<1>5. CASE GetTree \/ NoteTree \/ LoadTree
  BY <1>5 DEF GetTree, NoteTree, LoadTree, Get, Note, Unavailable, Fail, Exit
<1>6. ASSUME NEW k \in ChunksLeft, GetChunk(k) \/ ChunkUnavailable(k) PROVE FALSE
  BY <1>6 DEF GetChunk, ChunksLeft, ChunkUnavailable, Unavailable, Fail, Exit
<1>7. CASE Crash \/ Gc
  BY <1>7 DEF Crash, Gc, Exit
<1> QED
  BY <1>1, <1>2, <1>3, <1>4, <1>5, <1>6, <1>7 DEF Next, Engine

LEMMA HeadInit == Init => HeadInv
<1> SUFFICES ASSUME Init, head \in Commits PROVE IsComplete(head)
  BY SyncAssumption DEF Init, HeadInv, HeadsRestorable, Heads
<1>1. head \in History(head)
  BY DEF History, Reached
<1>2. disk = WithChunks(History(head), Trees) /\ torn = {}
  BY SyncAssumption DEF Init
<1> QED
  BY <1>1, <1>2, DataTypes DEF WithChunks, WithTrees, IsComplete, Readable

\* A gc keeps what a head needs.
LEMMA GcKeepsHeads == Types /\ HeadInv /\ Gc => HeadInv'
<1> SUFFICES ASSUME Types, HeadInv, Gc PROVE HeadInv'
  OBVIOUS
<1>1. pc' = "idle" /\ Heads' = Heads
  BY DEF Gc, running, Heads
<1>2. ASSUME NEW h \in Heads PROVE IsComplete(h)'
  <2>1. h \in Commits /\ IsComplete(h)
    BY DEF Types, Heads, HeadInv, HeadsRestorable
  <2>2. h \in Live
    BY <2>1 DEF Live, Reached, IsComplete, Readable
  <2>3. {h, TreeOf[h]} \cup ChunksIn[TreeOf[h]] \subseteq WithChunks(Live, disk)
    BY <2>1, <2>2 DEF WithChunks, WithTrees, IsComplete, Readable
  <2>4. disk \cap WithChunks(Live, disk) \subseteq disk' /\ torn' \subseteq torn
    BY DEF Gc
  <2> QED
    BY <2>1, <2>3, <2>4 DEF IsComplete, Readable
<1> QED
  BY <1>1, <1>2 DEF HeadInv, HeadsRestorable

LEMMA HeadNext == Types /\ HeadInv /\ [Next]_vars => HeadInv'
<1> SUFFICES ASSUME Types, HeadInv, [Next]_vars, ~Gc PROVE HeadInv'
  BY GcKeepsHeads
<1>1. disk \subseteq disk' /\ torn' \cap disk \subseteq torn
  BY DiskGrows
<1>2. Heads' \subseteq Heads \cup {c \in {target} : IsComplete(c)}
  BY HeadsChange DEF AdoptTarget, Heads
<1>3. \A h \in Heads' : IsComplete(h)'
  BY <1>1, <1>2, CompleteStays DEF HeadInv, HeadsRestorable
<1>4. pc' \in {"fast", "finish"} => IsComplete(target)'
  BY AdoptingSteps DEF IsComplete, Readable
<1> QED
  BY <1>3, <1>4 DEF HeadInv, HeadsRestorable

-----------------------------------------------------------------------------
(* Checkpoints                                                             *)

\* A walk starts from the checkpoint, and with it.
LEMMA StartedJob ==
  ASSUME Types, [Next]_vars, NEW t \in Targets, NEW sh, FetchDag(t, sh), pc' = "walk"
  PROVE  /\ done' = {} \/ (job[t] # None /\ done' = job[t].done)
         /\ job'[t] # None /\ job'[t].done = done'
         /\ \A u \in Targets \ {t} : job'[u] = job[u]
<1>1. /\ done' = {} \/ (job[t] # None /\ done' = job[t].done)
      /\ job' = [job EXCEPT ![t] = [state |-> "Fetching", done |-> done']]
  BY DEF FetchDag
<1>2. [state |-> "Fetching", done |-> done'] \in Job
  BY <1>1 DEF Types, Job, JobStates
<1> QED
  BY <1>1, <1>2, DataTypes DEF Types

\* What a run keeps in memory is in its checkpoint or on disk.
LEMMA CheckNext == Types /\ CheckInv /\ [Next]_vars => CheckInv'
<1> SUFFICES ASSUME Types, CheckInv, [Next]_vars, pc' \in Walks PROVE CheckInv'
  BY DEF CheckInv
<1> USE DEF stored, running, InCommit, Walks, CheckInv
<1>0. pc \in Walks => target \in Targets
  BY DEF Types
<1>1. ASSUME NEW t \in Targets, NEW sh, FetchDag(t, sh) PROVE CheckInv'
  <2>1. pc' = "walk" /\ target' = t /\ job' = [job EXCEPT ![t] = [state |-> "Fetching", done |-> done']]
    BY <1>1 DEF FetchDag
  <2>2. job'[t].done = done' /\ job'[t] # None
    BY <2>1, <1>1, StartedJob
  <2> QED
    BY <2>1, <2>2
<1>2. CASE Pop
  BY <1>2 DEF Pop, Fail, Exit
<1>3. CASE FastPath \/ Finish
  BY <1>3 DEF FastPath, Finish, Exit
<1>4. CASE EndWalk
  BY <1>4, <1>0, Persisted DEF EndWalk, Types, JobStates
<1>5. CASE Verify \/ LoadCommit \/ LoadTree \/ EndCommit
  BY <1>5 DEF Verify, LoadCommit, LoadTree, EndCommit, Fail, Exit
<1>6. CASE GetCommit
  BY <1>6 DEF GetCommit, Get, Unavailable, Fail, Exit
<1>7. CASE NoteCommit
  BY <1>7, <1>0, Persisted DEF NoteCommit, Note, Types, JobStates, Objects
<1>8. CASE GetTree
  BY <1>8 DEF GetTree, Get, Unavailable, Fail, Exit
<1>9. CASE NoteTree
  BY <1>9, <1>0, Persisted, DataTypes DEF NoteTree, Note, Types, JobStates, Objects
<1>10. ASSUME NEW k \in ChunksLeft, GetChunk(k) PROVE CheckInv'
  BY <1>10, <1>0, Persisted, DataTypes DEF GetChunk, ChunksLeft, Types, JobStates, Objects
<1>11. ASSUME NEW k \in ChunksLeft, ChunkUnavailable(k) PROVE CheckInv'
  BY <1>11 DEF ChunkUnavailable, Unavailable, Fail, Exit
<1>12. CASE Crash \/ Gc \/ PeersChange \/ UNCHANGED vars
  BY <1>12 DEF Crash, Gc, Exit, PeersChange, vars
<1> QED
  BY <1>1, <1>2, <1>3, <1>4, <1>5, <1>6, <1>7, <1>8, <1>9, <1>10, <1>11, <1>12
  DEF Next, Engine

-----------------------------------------------------------------------------
(* The walk                                                                *)

LEMMA SeenStays ==
  ASSUME disk \subseteq disk', torn' = torn, done \subseteq done',
         visited \cup Items(queue) \subseteq visited' \cup Items(queue'),
         NEW c, Seen(c)
  PROVE  Seen(c)'
BY DEF Seen, Readable

\* A step within a commit, and a Pop, leave what the walk has seen.
LEMMA WalkNext == Types /\ WalkInv /\ [Next]_vars => WalkInv'
<1> SUFFICES ASSUME Types, WalkInv, [Next]_vars PROVE WalkInv'
  OBVIOUS
<1> USE DEF stored, running, InCommit, Loaded, Walks
<1>0. pc' \in Walks => disk \subseteq disk' /\ torn' = torn
  BY DiskGrows
<1>1. ASSUME Exit PROVE WalkInv'
  BY <1>1 DEF Exit, WalkInv
<1>2. ASSUME NEW t \in Targets, NEW sh, FetchDag(t, sh) PROVE WalkInv'
  <2>1. pc = "idle" /\ pc' \in {"walk", "fast"} /\ target' = t /\ visited' = visited
        /\ (pc' = "walk" => queue' = <<t>>)
    BY <1>2 DEF FetchDag
  <2>2. Items(<<t>>) = {t}
    BY SingleItem, DataTypes
  <2> QED
    BY <2>1, <2>2 DEF WalkInv
<1>3. CASE FastPath \/ Finish
  BY <1>3, <1>1 DEF FastPath, Finish
<1>4. CASE Pop
  <2>1. CASE Fail
    BY <2>1, <1>1 DEF Fail
  <2>2. CASE ~Fail
    <3>1. /\ visited' = visited \cup {Head(queue)} /\ queue' = Tail(queue)
          /\ Items(queue) = {Head(queue)} \cup Items(queue')
          /\ pc = "walk" /\ UNCHANGED <<target, done, disk, torn>>
          /\ IF Head(queue) \in visited THEN pc' = "walk"
             ELSE pc' = "commit" /\ cur' = Head(queue)
      BY <1>4, <2>2, TailItems DEF Pop, Types
    <3>2. \A c \in visited : Seen(c)'
      BY <3>1, SeenStays DEF WalkInv
    <3> QED
      BY <3>1, <3>2 DEF WalkInv
  <2> QED
    BY <2>1, <2>2
<1>5. CASE EndWalk
  <2>1. UNCHANGED <<disk, torn, done, visited, queue, target>> /\ pc = "walk" /\ pc' = "verify"
        /\ queue = <<>>
    BY <1>5 DEF EndWalk
  <2> QED
    BY <2>1, SeenStays DEF WalkInv
<1>6. CASE Verify
  <2>1. CASE Fail
    BY <2>1, <1>1 DEF Fail
  <2>2. CASE ~Fail
    <3>1. UNCHANGED <<disk, torn, done, visited, queue, target>> /\ pc = "verify" /\ pc' = "finish"
      BY <1>6, <2>2 DEF Verify
    <3> QED
      BY <3>1, SeenStays DEF WalkInv
  <2> QED
    BY <2>1, <2>2
\* The steps within a commit.
<1>7. ASSUME pc \in InCommit, pc' \in InCommit, UNCHANGED <<visited, target, cur>>,
             done \subseteq done', Items(queue) \subseteq Items(queue'),
             \/ pc' \notin Loaded \/ pc \in Loaded
             \/ Readable(cur) /\ Parent(cur) \subseteq Items(queue'),
             pc' # "chunks" \/ pc = "chunks" \/ Readable(TreeOf[cur])
      PROVE  WalkInv'
  <2>1. \A c \in visited : Seen(c) => Seen(c)'
    BY <1>0, <1>7, SeenStays
  <2> QED
    BY <1>0, <1>7, <2>1 DEF WalkInv, Readable
<1>8. CASE GetCommit
  <2>1. CASE Fail
    BY <2>1, <1>1 DEF Fail
  <2> QED
    BY <1>7, <1>8, <2>1 DEF GetCommit, Get, Unavailable
<1>9. CASE NoteCommit
  BY <1>7, <1>9 DEF NoteCommit, Note
<1>10. CASE LoadCommit
  <2>1. CASE Fail
    BY <2>1, <1>1 DEF Fail
  <2>2. CASE ~Fail
    <3>1. Items(queue') = Items(queue) \cup Parent(cur)
      <4>1. queue \in Seq(Commits) /\ Parents[cur] \in Seq(Commits)
            /\ Parent(cur) = Items(Parents[cur])
        BY <1>10, DataTypes DEF LoadCommit, Types
      <4>2. queue' = queue \o Parents[cur]
        BY <1>10, <2>2 DEF LoadCommit
      <4> QED
        BY <4>1, <4>2, ConcatItems
    <3> QED
      BY <1>7, <1>10, <2>2, <3>1 DEF LoadCommit
  <2> QED
    BY <2>1, <2>2
<1>11. CASE GetTree
  <2>1. CASE Fail
    BY <2>1, <1>1 DEF Fail
  <2> QED
    BY <1>7, <1>11, <2>1 DEF GetTree, Get, Unavailable
<1>12. CASE NoteTree
  BY <1>7, <1>12 DEF NoteTree, Note
<1>13. CASE LoadTree
  <2>1. CASE Fail
    BY <2>1, <1>1 DEF Fail
  <2> QED
    BY <1>7, <1>13, <2>1 DEF LoadTree
<1>14. ASSUME NEW k \in ChunksLeft, GetChunk(k) PROVE WalkInv'
  BY <1>7, <1>14 DEF GetChunk, ChunksLeft
<1>15. ASSUME NEW k \in ChunksLeft, ChunkUnavailable(k) PROVE WalkInv'
  BY <1>15, <1>1 DEF ChunkUnavailable, Unavailable, Fail
<1>16. CASE EndCommit
  <2>1. pc = "chunks" /\ pc' = "walk" /\ UNCHANGED <<disk, torn, done, visited, queue, target, cur>>
        /\ ChunksIn[TreeOf[cur]] \subseteq done
    BY <1>16 DEF EndCommit, ChunksLeft
  <2>2. Seen(cur)
    BY <2>1 DEF WalkInv, Seen
  <2> QED
    BY <2>1, <2>2, SeenStays DEF WalkInv
<1>17. CASE Crash
  BY <1>17, <1>1 DEF Crash
<1>18. CASE Gc
  BY <1>18 DEF Gc, Types, WalkInv
<1>19. CASE PeersChange \/ UNCHANGED vars
  <2>1. UNCHANGED <<stored, running>>
    BY <1>19 DEF PeersChange, vars
  <2> QED
    BY <2>1, SeenStays DEF WalkInv, Readable
<1> QED
  BY <1>2, <1>3, <1>4, <1>5, <1>6, <1>8, <1>9, <1>10, <1>11, <1>12, <1>13, <1>14,
     <1>15, <1>16, <1>17, <1>18, <1>19 DEF Next, Engine

-----------------------------------------------------------------------------
(* Stale checkpoints                                                       *)

LEMMA FirstGrows ==
  ASSUME NEW t, NEW d, TargetFirst(t, d), NEW o, o \in Own(t) \/ Own(t) \subseteq d
  PROVE  TargetFirst(t, d \cup {o})
BY DEF TargetFirst

\* The steps that leave the checkpoint, or write what is in memory.
LEMMA JobsOrdered ==
  ASSUME Types, OrderInv, target \in Targets,
         UNCHANGED job \/ (\E s \in JobStates : Persist(s, done')),
         done' \subseteq Objects, TargetFirst(target, done')
  PROVE  \A t \in Targets : job'[t] # None => TargetFirst(t, job'[t].done)
<1>1. CASE UNCHANGED job
  BY <1>1 DEF OrderInv
<1>2. ASSUME NEW s \in JobStates, Persist(s, done')
      PROVE \A t \in Targets : job'[t] # None => TargetFirst(t, job'[t].done)
  BY <1>2, Persisted DEF OrderInv
<1> QED
  BY <1>1, <1>2

LEMMA OrderNext == Types /\ WalkInv /\ OrderInv /\ [Next]_vars => OrderInv'
<1> SUFFICES ASSUME Types, WalkInv, OrderInv, [Next]_vars PROVE OrderInv'
  OBVIOUS
<1> USE DEF stored, running, InCommit, Loaded, Walks
<1>0. pc \in Walks => target \in Targets /\ TargetFirst(target, done) /\ done \subseteq Objects
  BY DEF Types, OrderInv
<1>1. ASSUME Exit, UNCHANGED job PROVE OrderInv'
  BY <1>1 DEF Exit, OrderInv
<1>2. ASSUME pc \in Walks, Exit, NEW s \in JobStates, Persist(s, done) PROVE OrderInv'
  <2>1. \A t \in Targets : job'[t] # None => TargetFirst(t, job'[t].done)
    BY <1>0, <1>2, Persisted DEF OrderInv
  <2> QED
    BY <1>2, <2>1 DEF Exit, OrderInv
<1>3. ASSUME pc \in Walks, Fail PROVE OrderInv'
  BY <1>2, <1>3 DEF Fail, JobStates
<1>4. ASSUME NEW t \in Targets, NEW sh, FetchDag(t, sh) PROVE OrderInv'
  <2>1. CASE pc' = "fast"
    BY <1>4, <2>1 DEF FetchDag, OrderInv
  <2>2. CASE pc' = "walk"
    <3>1. /\ done' = {} \/ (job[t] # None /\ done' = job[t].done)
          /\ job'[t].done = done' /\ \A u \in Targets \ {t} : job'[u] = job[u]
      BY <1>4, <2>2, StartedJob
    <3>2. TargetFirst(t, done')
      BY <3>1 DEF OrderInv, TargetFirst
    <3>3. target' = t /\ visited' = {} /\ queue' = <<t>>
      BY <1>4, <2>2 DEF FetchDag, WalkInv
    <3> QED
      BY <2>2, <3>1, <3>2, <3>3 DEF OrderInv
  <2> QED
    BY <1>4, <2>1, <2>2 DEF FetchDag
<1>5. CASE FastPath
  BY <1>5, <1>1 DEF FastPath
<1>6. CASE Finish
  BY <1>6, <1>2 DEF Finish, JobStates
<1>7. CASE Crash
  BY <1>7, <1>1 DEF Crash
<1>8. CASE Pop
  <2>1. CASE Fail
    BY <1>8, <2>1, <1>3 DEF Pop
  <2>2. CASE ~Fail
    <3>1. /\ visited' = visited \cup {Head(queue)} /\ pc = "walk"
          /\ UNCHANGED <<target, done, job>>
          /\ IF Head(queue) \in visited THEN pc' = "walk"
             ELSE pc' = "commit" /\ cur' = Head(queue)
      BY <1>8, <2>2 DEF Pop
    <3>2. CASE visited = {}
      <4>1. Head(queue) = target
        BY <3>1, <3>2 DEF OrderInv
      <4> QED
        BY <3>1, <3>2, <4>1 DEF OrderInv
    <3>3. CASE visited # {}
      BY <3>1, <3>3 DEF OrderInv
    <3> QED
      BY <3>2, <3>3
  <2> QED
    BY <2>1, <2>2
<1>9. CASE EndWalk
  <2>1. /\ pc = "walk" /\ pc' = "verify" /\ queue = <<>> /\ Persist("Verifying", done)
        /\ UNCHANGED <<target, done, visited, queue>>
    BY <1>9 DEF EndWalk
  <2>2. \A t \in Targets : job'[t] # None => TargetFirst(t, job'[t].done)
    BY <1>0, <2>1, JobsOrdered DEF JobStates
  <2>3. visited # {}
    BY <2>1 DEF WalkInv, Items
  <2> QED
    BY <2>1, <2>2, <2>3 DEF OrderInv
<1>10. CASE Verify
  <2>1. CASE Fail
    BY <1>10, <2>1, <1>3 DEF Verify
  <2> QED
    BY <1>10, <2>1 DEF Verify, OrderInv
\* The steps within a commit check off nothing, or one object of it.
<1>11. ASSUME pc \in InCommit, pc' \in InCommit, UNCHANGED <<visited, target, cur>>,
              \/ done' = done
              \/ \E o \in Objects : o \in Own(cur) /\ done' = done \cup {o},
              UNCHANGED job \/ (\E s \in JobStates : Persist(s, done')),
              pc' \notin Loaded \cup {"loadcommit"} \/ pc \in Loaded \cup {"loadcommit"}
                \/ cur \in done',
              pc' \notin {"loadtree", "chunks"} \/ pc \in {"loadtree", "chunks"}
                \/ TreeOf[cur] \in done'
       PROVE  OrderInv'
  <2>1. TargetFirst(target, done') /\ done \subseteq done' /\ done' \subseteq Objects
    BY <1>0, <1>11, FirstGrows DEF OrderInv
  <2>2. \A t \in Targets : job'[t] # None => TargetFirst(t, job'[t].done)
    BY <1>0, <1>11, <2>1, JobsOrdered
  <2>3. visited' # {}
    BY <1>11 DEF OrderInv
  <2> QED
    BY <1>11, <2>1, <2>2, <2>3 DEF OrderInv
<1>12. CASE GetCommit
  <2>1. pc = "commit"
    BY <1>12 DEF GetCommit, Get, Unavailable
  <2>2. CASE Fail
    BY <1>3, <2>1, <2>2
  <2> QED
    BY <1>11, <1>12, <2>2 DEF GetCommit, Get, Unavailable
<1>13. CASE NoteCommit
  <2>1. cur \in Objects /\ cur \in Own(cur)
    BY <1>13 DEF NoteCommit, Note, Types, Objects, Own
  <2> QED
    BY <1>11, <1>13, <2>1 DEF NoteCommit, Note, JobStates
<1>14. CASE LoadCommit
  <2>1. CASE Fail
    BY <1>3, <1>14, <2>1 DEF LoadCommit
  <2> QED
    BY <1>11, <1>14, <2>1 DEF LoadCommit
<1>15. CASE GetTree
  <2>1. pc = "tree"
    BY <1>15 DEF GetTree, Get, Unavailable
  <2>2. CASE Fail
    BY <1>3, <2>1, <2>2
  <2> QED
    BY <1>11, <1>15, <2>2 DEF GetTree, Get, Unavailable
<1>16. CASE NoteTree
  <2>1. TreeOf[cur] \in Objects /\ TreeOf[cur] \in Own(cur)
    BY <1>16, DataTypes DEF NoteTree, Note, Types, Objects, Own
  <2> QED
    BY <1>11, <1>16, <2>1 DEF NoteTree, Note, JobStates
<1>17. CASE LoadTree
  <2>1. CASE Fail
    BY <1>3, <1>17, <2>1 DEF LoadTree
  <2> QED
    BY <1>11, <1>17, <2>1 DEF LoadTree
<1>18. ASSUME NEW k \in ChunksLeft, GetChunk(k) PROVE OrderInv'
  <2>1. pc = "chunks" /\ k \in Objects /\ k \in Own(cur)
    BY <1>18, DataTypes DEF ChunksLeft, Types, Objects, Own
  <2> QED
    BY <1>11, <1>18, <2>1 DEF GetChunk, JobStates
<1>19. ASSUME NEW k \in ChunksLeft, ChunkUnavailable(k) PROVE OrderInv'
  BY <1>3, <1>19 DEF ChunkUnavailable, Unavailable
<1>20. CASE EndCommit
  <2>1. /\ pc = "chunks" /\ pc' = "walk" /\ UNCHANGED <<job, done, visited, queue, target, cur>>
        /\ ChunksIn[TreeOf[cur]] \subseteq done
    BY <1>20 DEF EndCommit, ChunksLeft
  <2>2. Own(target) \subseteq done
    BY <2>1 DEF OrderInv, Own
  <2>3. visited # {}
    BY <2>1 DEF OrderInv
  <2> QED
    BY <2>1, <2>2, <2>3 DEF OrderInv
<1>21. CASE Gc \/ PeersChange \/ UNCHANGED vars
  BY <1>21 DEF Gc, PeersChange, vars, OrderInv
<1> QED
  BY <1>4, <1>5, <1>6, <1>7, <1>8, <1>9, <1>10, <1>12, <1>13, <1>14, <1>15, <1>16,
     <1>17, <1>18, <1>19, <1>20, <1>21 DEF Next, Engine

\* A run that goes on fetches nothing that is checked off, and checks off no
\* chunk that is not there.
LEMMA FetchesMissing ==
  ASSUME Types, [Next]_vars, pc \in Walks, pc' \in Walks
  PROVE  /\ target' = target /\ torn' = torn
         /\ disk' \cap done \subseteq disk /\ disk \subseteq disk' /\ done \subseteq done'
         /\ (done' \ done) \cap Chunks \subseteq disk'
<1> USE DEF stored, running, InCommit, Loaded, Walks
<1>1. ASSUME NEW t, NEW sh, FetchDag(t, sh) PROVE FALSE
  BY <1>1 DEF FetchDag
<1>2. CASE FastPath \/ Finish \/ Crash
  BY <1>2 DEF FastPath, Finish, Crash, Exit
<1>3. CASE Pop \/ EndWalk \/ Verify \/ EndCommit \/ LoadCommit \/ LoadTree
  <2>1. UNCHANGED <<disk, torn, done, target>>
    BY <1>3 DEF Pop, EndWalk, Verify, EndCommit, LoadCommit, LoadTree, Fail, Exit
  <2> QED
    BY <2>1
<1>4. CASE GetCommit \/ GetTree
  BY <1>4 DEF GetCommit, GetTree, Get, Unavailable, Fail, Exit
<1>5. CASE NoteCommit
  BY <1>5, DataTypes DEF NoteCommit, Note, Types
<1>6. CASE NoteTree
  BY <1>6, DataTypes DEF NoteTree, Note, Types
<1>7. ASSUME NEW k \in ChunksLeft, GetChunk(k) \/ ChunkUnavailable(k)
      PROVE  /\ target' = target /\ torn' = torn
             /\ disk' \cap done \subseteq disk /\ disk \subseteq disk' /\ done \subseteq done'
             /\ (done' \ done) \cap Chunks \subseteq disk'
  BY <1>7 DEF GetChunk, ChunksLeft, ChunkUnavailable, Unavailable, Fail, Exit
<1>8. CASE Gc \/ PeersChange \/ UNCHANGED vars
  BY <1>8 DEF Gc, PeersChange, vars
<1> QED
  BY <1>1, <1>2, <1>3, <1>4, <1>5, <1>6, <1>7, <1>8 DEF Next, Engine

\* What a step of a run checks off has its file.
LEMMA AddsPresent ==
  ASSUME Types, CheckInv, [Next]_vars, pc \in Walks, pc' \in Walks
  PROVE  done' \ done \subseteq disk'
<1> USE DEF stored, running, InCommit, Loaded, Walks
<1>1. ASSUME NEW t, NEW sh, FetchDag(t, sh) PROVE FALSE
  BY <1>1 DEF FetchDag
<1>2. CASE FastPath \/ Finish \/ Crash
  BY <1>2 DEF FastPath, Finish, Crash, Exit
<1>3. CASE Pop \/ EndWalk \/ Verify \/ EndCommit \/ LoadCommit \/ LoadTree
  BY <1>3 DEF Pop, EndWalk, Verify, EndCommit, LoadCommit, LoadTree, Fail, Exit
<1>4. CASE GetCommit \/ GetTree
  BY <1>4 DEF GetCommit, GetTree, Get, Unavailable, Fail, Exit
<1>5. CASE NoteCommit \/ NoteTree
  BY <1>5 DEF NoteCommit, NoteTree, Note, CheckInv
<1>6. ASSUME NEW k \in ChunksLeft, GetChunk(k) \/ ChunkUnavailable(k)
      PROVE  done' \ done \subseteq disk'
  BY <1>6 DEF GetChunk, ChunkUnavailable, Unavailable, Fail, Exit
<1>7. CASE Gc \/ PeersChange \/ UNCHANGED vars
  BY <1>7 DEF Gc, PeersChange, vars
<1> QED
  BY <1>1, <1>2, <1>3, <1>4, <1>5, <1>6, <1>7 DEF Next, Engine

\* Steps into a run and into its end.
LEMMA RunSteps ==
  ASSUME Types, [Next]_vars
  PROVE  /\ pc' \in Walks /\ pc \notin Walks =>
              \E t \in Targets : \E sh : FetchDag(t, sh) /\ ~IsComplete(t) /\ pc' = "walk"
         /\ pc' = "finish" /\ pc # "finish" =>
              IsComplete(target) /\ UNCHANGED <<disk, torn, done>>
<1> USE DEF stored, running, InCommit, Loaded, Walks
<1>1. ASSUME NEW t, NEW sh, FetchDag(t, sh)
      PROVE pc' = "fast" \/ (~IsComplete(t) /\ pc' = "walk")
  BY <1>1 DEF FetchDag
<1>2. ASSUME FastPath \/ Finish \/ Crash PROVE pc' = "idle"
  BY <1>2 DEF FastPath, Finish, Crash, Exit
<1>3. ASSUME Pop \/ EndWalk \/ EndCommit \/ LoadCommit \/ LoadTree PROVE pc \in Walks /\ pc' # "finish"
  BY <1>3 DEF Pop, EndWalk, EndCommit, LoadCommit, LoadTree, Fail, Exit
<1>4. ASSUME Verify PROVE pc \in Walks /\ (pc' = "finish" => IsComplete(target) /\ UNCHANGED <<disk, torn, done>>)
  BY <1>4 DEF Verify, Fail, Exit
<1>5. ASSUME GetCommit \/ NoteCommit PROVE pc \in Walks /\ pc' # "finish"
  BY <1>5 DEF GetCommit, Get, NoteCommit, Note, Unavailable, Fail, Exit
<1>6. ASSUME GetTree \/ NoteTree PROVE pc \in Walks /\ pc' # "finish"
  BY <1>6 DEF GetTree, Get, NoteTree, Note, Unavailable, Fail, Exit
<1>7. ASSUME NEW k \in ChunksLeft, GetChunk(k) \/ ChunkUnavailable(k)
      PROVE  pc \in Walks /\ pc' # "finish"
  BY <1>7 DEF GetChunk, ChunksLeft, ChunkUnavailable, Unavailable, Fail, Exit
<1>8. ASSUME Gc \/ PeersChange \/ UNCHANGED vars PROVE pc' = pc
  BY <1>8 DEF Gc, PeersChange, vars
<1> QED
  BY <1>1, <1>2, <1>3, <1>4, <1>5, <1>6, <1>7, <1>8 DEF Next, Engine

LEMMA StaleNext == Types /\ OrderInv /\ StaleInv /\ [Next]_vars => StaleInv'
<1> SUFFICES ASSUME Types, OrderInv, StaleInv, [Next]_vars PROVE StaleInv'
  OBVIOUS
<1>1. ASSUME pc \in Walks, pc' \in Walks
      PROVE  done' \cap Chunks \subseteq disk' \/ \E o \in Own(target)' : Lost(o)'
  <2>1. CASE done \cap Chunks \subseteq disk
    BY <1>1, <2>1, FetchesMissing
  <2>2. ASSUME NEW o \in Own(target), Lost(o) PROVE o \in Own(target)' /\ Lost(o)'
    BY <1>1, <2>2, FetchesMissing DEF Own, Lost, Readable
  <2> QED
    BY <1>1, <2>1, <2>2 DEF StaleInv
<1>2. ASSUME pc \notin Walks, pc' \in Walks
      PROVE  pc' = "walk" /\ (done' \cap Chunks \subseteq disk' \/ \E o \in Own(target)' : Lost(o)')
  <2>1. PICK t \in Targets : \E sh : FetchDag(t, sh) /\ ~IsComplete(t) /\ pc' = "walk"
    BY <1>2, RunSteps
  <2>2. PICK sh : FetchDag(t, sh)
    BY <2>1
  <2>3. target' = t /\ UNCHANGED <<disk, torn>>
    BY <2>2 DEF FetchDag
  <2>4. done' = {} \/ (job[t] # None /\ done' = job[t].done)
    BY <2>1, <2>2, StartedJob
  <2>5. TargetFirst(t, done')
    BY <2>4 DEF OrderInv, TargetFirst
  <2>6. CASE done' \cap Chunks \subseteq disk'
    BY <2>1, <2>6
  <2>7. CASE ~(done' \cap Chunks \subseteq disk')
    <3>1. CASE Own(t) \subseteq done'
      <4>1. PICK o \in Own(t) : IF o \in Chunks THEN o \notin disk ELSE ~Readable(o)
        BY <2>1, DataTypes DEF IsComplete, Own, Readable
      <4> QED
        BY <2>1, <2>3, <3>1, <4>1 DEF Lost, Readable, Own
    <3>2. CASE done' \subseteq Own(t)
      <4>1. PICK o \in done' \cap Chunks : o \notin disk'
        BY <2>7
      <4> QED
        BY <2>1, <2>3, <3>2, <4>1 DEF Lost, Own
    <3> QED
      BY <2>5, <3>1, <3>2 DEF TargetFirst
  <2> QED
    BY <2>6, <2>7
<1>3. ASSUME pc' = "finish" PROVE done' \cap Chunks \subseteq disk'
  <2>1. CASE pc = "finish"
    BY <1>3, <2>1, FetchesMissing DEF StaleInv, Walks
  <2>2. CASE pc # "finish"
    <3>1. pc \in Walks
      BY <1>2, <1>3 DEF Walks
    <3>2. IsComplete(target) /\ UNCHANGED <<disk, torn, done>> /\ target \in Commits
      BY <1>3, <2>2, <3>1, RunSteps, DataTypes DEF Types, Walks, InCommit
    <3>3. \A o \in Own(target) : ~Lost(o)
      BY <3>2, DataTypes DEF IsComplete, Own, Lost
    <3> QED
      BY <3>1, <3>2, <3>3 DEF StaleInv
  <2> QED
    BY <2>1, <2>2
<1> QED
  BY <1>1, <1>2, <1>3 DEF StaleInv
-----------------------------------------------------------------------------
(* Theorems                                                                *)

LEMMA InvInit == Init => IInv
<1> SUFFICES ASSUME Init PROVE IInv
  OBVIOUS
<1>1. Types
  BY TypesInit
<1>2. pc = "idle" /\ visited = {} /\ \A t \in Targets : job[t] = None
  BY DEF Init
<1>3. pc \notin Walks /\ pc \notin InCommit /\ pc # "finish"
  BY <1>2 DEF Walks, InCommit
<1> QED
  BY <1>1, <1>2, <1>3, HeadInit DEF IInv, CheckInv, WalkInv, OrderInv, StaleInv

\* The data of a run and the files it relies on stay consistent, in every
\* interleaving of the walk with kills, gcs and peers that come and go.
THEOREM InvHolds == Spec => []IInv
<1>1. IInv /\ [Next]_vars => IInv'
  BY TypesNext, HeadNext, CheckNext, WalkNext, OrderNext, StaleNext DEF IInv
<1> QED
  BY InvInit, <1>1, PTL DEF Spec

\* What HEAD and HEADS name can be restored: set_head_public comes after
\* is_complete (sync.rs), and gc keeps what they reach.
THEOREM HeadsStayRestorable == Spec => []HeadsRestorable
<1>1. IInv => HeadsRestorable
  BY DEF IInv, HeadInv
<1> QED
  BY InvHolds, <1>1, PTL

\* At its end a walk has visited the whole history, and every commit visited
\* can be restored.
LEMMA WalkComplete == IInv => WalkFetchesHistory
<1> SUFFICES ASSUME IInv, pc = "finish", NEW c \in History(target) PROVE IsComplete(c)
  BY DEF WalkFetchesHistory, FetchesHistory
<1>1. pc \in Walks /\ pc \notin InCommit /\ target \in Commits /\ visited \subseteq Commits
  BY DataTypes DEF IInv, Types, Walks, InCommit
<1>2. Items(queue) = {}
  BY <1>1 DEF IInv, WalkInv, Items
<1>3. target \in visited /\ \A d \in visited : Seen(d)
  BY <1>1, <1>2 DEF IInv, WalkInv
<1>4. \A d \in visited : Parent(d) \subseteq visited
  BY <1>2, <1>3 DEF Seen
<1>5. c \in visited
  BY <1>1, <1>3, <1>4 DEF History, Reached
<1>6. done \cap Chunks \subseteq disk
  BY DEF IInv, StaleInv
<1> QED
  BY <1>1, <1>3, <1>5, <1>6, DataTypes DEF Seen, IsComplete

\* A fetch_dag that walked and returns Ok has every commit of the target's
\* history, however stale the checkpoint it started from.
THEOREM WalksAreComplete == Spec => []WalkFetchesHistory
BY InvHolds, WalkComplete, PTL

\* A step writes the checkpoint of the running target only, and only with
\* what is in memory.
LEMMA JobSteps ==
  ASSUME Types, [Next]_vars
  PROVE  \/ UNCHANGED job
         \/ \E t \in Targets : \E sh : FetchDag(t, sh) /\ pc' = "walk"
         \/ /\ pc \in Walks
            /\ \E s \in JobStates : Persist(s, done) \/ (Persist(s, done') /\ pc' \in Walks)
<1> USE DEF stored, running, InCommit, Loaded, Walks, JobStates
<1>1. ASSUME NEW t, NEW sh, FetchDag(t, sh) PROVE UNCHANGED job \/ pc' = "walk"
  BY <1>1 DEF FetchDag
<1>2. ASSUME pc \in Walks, Fail PROVE \E s \in JobStates : Persist(s, done)
  BY <1>2 DEF Fail
<1>3. CASE FastPath \/ Crash \/ Gc \/ PeersChange \/ EndCommit \/ UNCHANGED vars
  BY <1>3 DEF FastPath, Crash, Gc, PeersChange, EndCommit, vars
<1>4. CASE Finish \/ EndWalk
  BY <1>4 DEF Finish, EndWalk
<1>5. CASE Pop \/ LoadCommit \/ LoadTree \/ Verify
  <2>1. UNCHANGED job \/ (pc \in Walks /\ Fail)
    BY <1>5 DEF Pop, LoadCommit, LoadTree, Verify
  <2> QED
    BY <1>2, <2>1
<1>6. CASE GetCommit \/ GetTree
  <2>1. UNCHANGED job \/ (pc \in Walks /\ Fail)
    BY <1>6 DEF GetCommit, GetTree, Get, Unavailable
  <2> QED
    BY <1>2, <2>1
<1>7. CASE NoteCommit \/ NoteTree
  BY <1>7 DEF NoteCommit, NoteTree, Note
<1>8. ASSUME NEW k \in ChunksLeft, ChunkUnavailable(k)
      PROVE pc \in Walks /\ Fail
  BY <1>8 DEF ChunkUnavailable, Unavailable
<1>9. ASSUME NEW k \in ChunksLeft, GetChunk(k)
      PROVE  UNCHANGED job \/ (pc \in Walks /\ pc' \in Walks /\ Persist("Fetching", done'))
  BY <1>9 DEF GetChunk, ChunksLeft
<1> QED
  BY <1>1, <1>2, <1>3, <1>4, <1>5, <1>6, <1>7, <1>8, <1>9 DEF Next, Engine

\* persist_job is called after the files it speaks of are written: whatever a
\* step adds to a checkpoint is on disk.
THEOREM CheckpointsFollow == Spec => CheckpointFollowsDisk
<1> DEFINE Follows ==
      \A t \in Targets :
        job'[t] # None =>
          job'[t].done \ (IF job[t] = None THEN {} ELSE job[t].done) \subseteq disk'
<1>1. ASSUME IInv, [Next]_vars PROVE Follows
  <2>0. Types /\ CheckInv /\ CheckInv'
    BY <1>1, TypesNext, CheckNext DEF IInv
  <2>1. CASE UNCHANGED job
    BY <2>1
  <2>2. ASSUME NEW t \in Targets, NEW sh, FetchDag(t, sh), pc' = "walk" PROVE Follows
    <3>1. /\ done' = {} \/ (job[t] # None /\ done' = job[t].done)
          /\ job'[t].done = done' /\ \A u \in Targets \ {t} : job'[u] = job[u]
      BY <1>1, <2>0, <2>2, StartedJob
    <3> QED
      BY <3>1
  <2>3. ASSUME pc \in Walks, NEW s \in JobStates, NEW d \in SUBSET Objects, Persist(s, d),
               d \subseteq disk' \cup job[target].done
        PROVE  Follows
    <3>1. target \in Targets /\ job[target] # None
      BY <2>0, <2>3 DEF CheckInv, Types, Walks, InCommit
    <3>2. job'[target].done = d /\ \A t \in Targets \ {target} : job'[t] = job[t]
      BY <2>0, <2>3, <3>1, Persisted
    <3> QED
      BY <2>3, <3>1, <3>2
  <2>4. pc \in Walks => disk \subseteq disk'
    BY <1>1, <2>0, DiskGrows DEF Gc, Walks, InCommit
  <2>5. ASSUME pc \in Walks, NEW s \in JobStates, Persist(s, done) PROVE Follows
    <3>1. done \subseteq disk' \cup job[target].done /\ done \subseteq Objects
      BY <2>0, <2>4, <2>5 DEF CheckInv, Types
    <3> QED
      BY <2>3, <2>5, <3>1
  <2>6. ASSUME pc \in Walks, pc' \in Walks, NEW s \in JobStates, Persist(s, done') PROVE Follows
    <3>1. done' \subseteq Objects
      BY <1>1, <2>0, TypesNext DEF Types
    <3>2. done' \subseteq disk' \cup job[target].done
      BY <1>1, <2>0, <2>4, <2>6, FetchesMissing, AddsPresent DEF CheckInv
    <3> QED
      BY <2>3, <2>6, <3>1, <3>2
  <2> QED
    BY <1>1, <2>0, <2>1, <2>2, <2>5, <2>6, JobSteps
<1>2. IInv /\ [Next]_vars => [Follows]_vars
  BY <1>1
<1> QED
  BY InvHolds, <1>2, PTL DEF Spec, CheckpointFollowsDisk
=============================================================================
