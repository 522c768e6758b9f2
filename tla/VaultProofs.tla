---------------------------- MODULE VaultProofs ----------------------------
(***************************************************************************)
(* Theorems about modules Vault and Overlap, for every value of their      *)
(* constants.                                                              *)
(***************************************************************************)
EXTENDS Overlap, SequenceTheorems, TLAPS

-----------------------------------------------------------------------------
(* Trees and the ghost dag                                                 *)

\* Inserting files makes a tree, of chunks that either side had.
LEMMA OverlayTree ==
  ASSUME NEW t \in Tree, NEW fs \in Tree
  PROVE  /\ Overlay(t, fs) \in Tree
         /\ ChunksOf(Overlay(t, fs)) \subseteq ChunksOf(t) \cup ChunksOf(fs)
BY DEF Tree, Overlay, ChunksOf

\* The empty tree is a tree and needs no chunk.
LEMMA EmptyTreeType == EmptyTree \in Tree /\ ChunksOf(EmptyTree) = {}
BY DEF EmptyTree, Tree, ChunksOf

\* Minting a commit leaves what the earlier CIDs stand for alone.
LEMMA DagGrows ==
  ASSUME dag \in Seq(CommitRecord), NEW r \in CommitRecord, dag' = Append(dag, r)
  PROVE  /\ dag' \in Seq(CommitRecord)
         /\ Commit' = Commit \cup {Len(dag) + 1}
         /\ Len(dag) + 1 \in Commit' /\ Len(dag) + 1 \notin Commit
         /\ dag'[Len(dag) + 1] = r
         /\ \A c \in Commit : dag'[c] = dag[c]
BY DEF Commit

\* Commits are numbers, so None and Torn are none of them.
LEMMA CommitsAreNat ==
  ASSUME dag \in Seq(CommitRecord)
  PROVE  Commit \subseteq Nat /\ None \notin Commit /\ Torn \notin Commit /\ None # Torn
<1>1. Commit \subseteq Nat
  BY DEF Commit
<1>2. None \notin Nat /\ Torn \notin Nat /\ None # Torn
  BY VaultAssumption
<1> QED
  BY <1>1, <1>2

\* What a commit stands for.
LEMMA CommitType ==
  ASSUME dag \in Seq(CommitRecord), NEW c \in Commit
  PROVE  dag[c].tree \in Tree /\ dag[c].parents \subseteq Nat /\ dag[c].files \in Tree
<1>1. dag[c] \in CommitRecord
  BY DEF Commit
<1> QED
  BY <1>1 DEF CommitRecord

-----------------------------------------------------------------------------
(* Type correctness                                                        *)

\* The part of the type invariant that is about the locals of processes.
LocalsOK ==
  /\ pc \in [Procs -> PCs]
  /\ cmd \in [Procs -> AllCommands \cup {"none"}]
  /\ files \in [Procs -> Tree]
  /\ ltree \in [Procs -> Tree]
  /\ lparents \in [Procs -> SUBSET Nat] /\ \A p \in Procs : lparents[p] \subseteq Commit
  /\ lcommit \in [Procs -> Nat \cup {None}]
  /\ \A p \in Procs : lcommit[p] \in Commit \cup {None}
  /\ lheads \in [Procs -> SUBSET Nat] /\ \A p \in Procs : lheads[p] \subseteq Commit
  /\ lsnaps \in [Procs -> Seq(Nat)]
  /\ \A p \in Procs : \A i \in DOMAIN lsnaps[p] : lsnaps[p][i] \in Commit
  /\ live \in [Procs -> SUBSET Nat] /\ \A p \in Procs : live[p] \subseteq Commit
  /\ DOMAIN todo = Procs
  /\ \A p \in Procs :
       /\ cmd[p] = "none" => pc[p] = "idle"
       /\ pc[p] = "store" => todo[p] \subseteq Chunks
       /\ pc[p] \in {"sethead", "writehead", "readheads", "loadregister", "register"} =>
            lcommit[p] # None

\* ... and the part about the disk and the ghosts.
DiskOK ==
  /\ head \in Commit \cup {None, Torn}
  /\ heads \subseteq Commit
  /\ commits \subseteq Commit
  /\ trees \subseteq Tree
  /\ torn \subseteq trees
  /\ chunks \subseteq Chunks
  /\ snaps \in Seq(Nat) /\ SnapSet \subseteq Commit
  /\ dag \in Seq(CommitRecord)
  /\ \A c \in Commit : dag[c].parents \subseteq Commit
  /\ acked \subseteq Commit
  /\ tip \in Commit \cup {None}

LEMMA TypeParts ==
  /\ TypeOK <=> DiskOK /\ LocalsOK
  /\ TypeOK' <=> DiskOK' /\ LocalsOK'
BY DEF TypeOK, DiskOK, LocalsOK

LEMMA TypeInit == Init => TypeOK
<1> SUFFICES ASSUME Init PROVE TypeOK
  OBVIOUS
<1>1. DiskOK
  BY DEF Init, DiskOK, Commit, SnapSet
<1>2. LocalsOK
  BY EmptyTreeType DEF Init, LocalsOK, PCs, Commit
<1> QED
  BY <1>1, <1>2, TypeParts

LEMMA DiskStays ==
  ASSUME DiskOK, UNCHANGED <<disk, ghosts>>
  PROVE  DiskOK'
BY DEF DiskOK, disk, ghosts, Commit, SnapSet

LEMMA LocalsStay ==
  ASSUME LocalsOK, UNCHANGED <<pc, cmd, locals, dag>>
  PROVE  LocalsOK'
BY DEF LocalsOK, locals, Commit

\* A command that returns or is killed.
LEMMA StopType ==
  ASSUME LocalsOK, NEW p \in Procs, Stop(p), UNCHANGED dag
  PROVE  LocalsOK'
BY EmptyTreeType DEF LocalsOK, Stop, Goto, PCs, Commit

\* A step to another place in the command, that keeps the other locals.
LEMMA GotoType ==
  ASSUME LocalsOK, NEW p \in Procs, pc[p] # "idle",
         NEW l \in PCs \ {"store"}, Goto(p, l),
         l \in {"sethead", "writehead", "readheads", "loadregister", "register"} =>
           lcommit[p] # None,
         UNCHANGED <<cmd, locals, dag>>
  PROVE  LocalsOK'
BY DEF LocalsOK, Goto, locals, Commit

\* Taking an entry out of the registry, or the oldest ones, adds none.
LEMMA RegistryType ==
  ASSUME NEW s \in Seq(Nat)
  PROVE  /\ \A c \in Nat : /\ Without(s, c) \in Seq(Nat)
                            /\ \A i \in DOMAIN Without(s, c) :
                                  \E j \in DOMAIN s : Without(s, c)[i] = s[j]
         /\ Pruned(s) \in Seq(Nat)
         /\ \A i \in DOMAIN Pruned(s) : \E j \in DOMAIN s : Pruned(s)[i] = s[j]
<1>1. ASSUME NEW c \in Nat, \E i \in DOMAIN s : s[i] = c
      PROVE  /\ Without(s, c) \in Seq(Nat)
             /\ \A i \in DOMAIN Without(s, c) :
                  \E j \in DOMAIN s : Without(s, c)[i] = s[j]
  <2> DEFINE i == CHOOSE j \in DOMAIN s : s[j] = c
             before == SubSeq(s, 1, i - 1)
             after == SubSeq(s, i + 1, Len(s))
  <2>1. i \in 1 .. Len(s)
    BY <1>1
  <2>2. Without(s, c) = before \o after
    BY <1>1 DEF Without
  <2> HIDE DEF i
  <2>3. /\ before \in Seq(Nat) /\ Len(before) = i - 1
        /\ \A n \in 1 .. i - 1 : before[n] = s[n]
    BY <2>1
  <2>4. /\ after \in Seq(Nat) /\ Len(after) = Len(s) - i
        /\ \A n \in 1 .. Len(s) - i : after[n] = s[n + i]
    BY <2>1
  <2> HIDE DEF before, after
  <2> DEFINE w == before \o after
  <2>5. /\ w \in Seq(Nat)
        /\ Len(w) = Len(s) - 1
        /\ \A n \in 1 .. Len(s) - 1 : w[n] = IF n <= i - 1 THEN before[n] ELSE after[n - i + 1]
    <3>1. /\ w \in Seq(Nat) /\ Len(w) = Len(before) + Len(after)
          /\ \A n \in 1 .. Len(before) + Len(after) :
               w[n] = IF n <= Len(before) THEN before[n] ELSE after[n - Len(before)]
      BY <2>3, <2>4, ConcatProperties, Zenon
    <3>2. Len(before) + Len(after) = Len(s) - 1
      BY <2>1, <2>3, <2>4
    <3>3. \A n \in 1 .. Len(s) - 1 : n - Len(before) = n - i + 1
      BY <2>1, <2>3
    <3> HIDE DEF w
    <3>4. ASSUME NEW n \in 1 .. Len(s) - 1
          PROVE  w[n] = IF n <= i - 1 THEN before[n] ELSE after[n - i + 1]
      BY <2>3, <3>1, <3>2, <3>3
    <3> QED
      BY <3>1, <3>2, <3>4
  <2> HIDE DEF w
  <2>6. ASSUME NEW n \in 1 .. Len(s) - 1
        PROVE  \E j \in 1 .. Len(s) : w[n] = s[j]
    <3>1. CASE n <= i - 1
      <4>1. w[n] = s[n]
        BY <2>1, <2>3, <2>5, <3>1
      <4> QED
        BY <4>1
    <3>2. CASE ~(n <= i - 1)
      <4>1. n + 1 \in 1 .. Len(s) /\ n - i + 1 \in 1 .. Len(s) - i
        BY <2>1, <3>2
      <4>2. w[n] = after[n - i + 1]
        BY <2>1, <2>5, <3>2
      <4>3. after[n - i + 1] = s[(n - i + 1) + i]
        BY <2>4, <4>1
      <4>4. (n - i + 1) + i = n + 1
        BY <2>1
      <4> QED
        BY <4>1, <4>2, <4>3, <4>4
    <3> QED
      BY <3>1, <3>2
  <2>7. DOMAIN w = 1 .. Len(s) - 1 /\ DOMAIN s = 1 .. Len(s)
    BY <2>5
  <2>8. Without(s, c) = w
    BY <2>2 DEF w
  <2> QED
    BY <2>5, <2>6, <2>7, <2>8
<1>2. ASSUME NEW c \in Nat, ~ \E i \in DOMAIN s : s[i] = c
      PROVE  Without(s, c) = s
  BY <1>2 DEF Without
<1>3. /\ Pruned(s) \in Seq(Nat)
      /\ \A i \in DOMAIN Pruned(s) : \E j \in DOMAIN s : Pruned(s)[i] = s[j]
  <2>1. CASE Retain = 0 \/ Len(s) <= Retain
    BY <2>1 DEF Pruned
  <2>2. CASE ~(Retain = 0 \/ Len(s) <= Retain)
    <3>1. Retain \in Nat
      BY VaultAssumption
    <3>2. Pruned(s) = SubSeq(s, Len(s) - Retain + 1, Len(s))
      BY <2>2 DEF Pruned
    <3>3. /\ Pruned(s) \in Seq(Nat) /\ Len(Pruned(s)) = Retain
          /\ \A n \in 1 .. Retain : Pruned(s)[n] = s[n + Len(s) - Retain]
      BY <2>2, <3>1, <3>2
    <3>4. \A n \in 1 .. Retain : n + Len(s) - Retain \in DOMAIN s
      BY <2>2, <3>1
    <3> QED
      BY <3>3, <3>4
  <2> QED
    BY <2>1, <2>2
<1> QED
  BY <1>1, <1>2, <1>3

\* A tree that HEAD names, when it loads, is a tree.
LEMMA HeadTreeType ==
  ASSUME DiskOK
  PROVE  /\ HeadSet \subseteq Commit
         /\ HeadLoads => HeadTree \in Tree
<1>1. CASE head = None
  BY <1>1, EmptyTreeType DEF HeadTree, HeadSet
<1>2. CASE head # None /\ HeadLoads
  <2>1. head \in Commit
    BY <1>2 DEF HeadLoads, DiskOK
  <2> QED
    BY <1>2, <2>1, CommitType DEF DiskOK, HeadTree, HeadSet
<1> QED
  BY <1>1, <1>2 DEF HeadSet

\* A commit that is minted, here or by a peer.
LEMMA MintDisk ==
  ASSUME DiskOK, NEW r \in CommitRecord, dag' = Append(dag, r),
         r.parents \subseteq Commit,
         UNCHANGED <<head, heads, trees, torn, chunks, snaps, acked, tip>>,
         commits' \in {commits, commits \cup {Len(dag) + 1}}
  PROVE  /\ DiskOK'
         /\ Commit' = Commit \cup {Len(dag) + 1}
<1>1. /\ dag' \in Seq(CommitRecord)
      /\ Commit' = Commit \cup {Len(dag) + 1}
      /\ dag'[Len(dag) + 1] = r
      /\ \A c \in Commit : dag'[c] = dag[c]
  BY DagGrows DEF DiskOK
<1>2. \A c \in Commit' : dag'[c].parents \subseteq Commit'
  BY <1>1 DEF DiskOK
<1>3. SnapSet' = SnapSet
  BY DEF SnapSet
<1> QED
  BY <1>1, <1>2, <1>3 DEF DiskOK

\* The steps of add.
LEMMA AddTypes ==
  ASSUME TypeOK, NEW p \in Procs, AddSteps(p)
  PROVE  TypeOK'
<1>0. DiskOK /\ LocalsOK
  BY TypeParts
<1>1. ASSUME NEW fs \in Inputs, AddPath(p, fs)
      PROVE  TypeOK'
  <2>1. DiskOK'
    BY <1>0, <1>1, DiskStays DEF AddPath
  <2>2. fs \in Tree /\ ChunksOf(fs) \subseteq Chunks
    BY VaultAssumption DEF Tree, ChunksOf
  <2>3. LocalsOK'
    BY <1>0, <1>1, <2>2
    DEF LocalsOK, AddPath, Start, Goto, PCs, AllCommands, ghosts, Commit
  <2> QED
    BY <2>1, <2>3, TypeParts
<1>2. ASSUME NEW k \in todo[p], StoreChunk(p, k)
      PROVE  TypeOK'
  <2>1. k \in Chunks
    BY <1>0, <1>2 DEF LocalsOK, StoreChunk
  <2>2. DiskOK'
    BY <1>0, <1>2, <2>1 DEF DiskOK, StoreChunk, ghosts, Commit, SnapSet
  <2>3. LocalsOK'
    <3>1. /\ UNCHANGED <<cmd, files, ltree, lparents, lcommit, lheads, lsnaps, live>>
          /\ Commit' = Commit
      BY <1>2 DEF StoreChunk, ghosts, Commit
    <3>2. /\ pc' \in [Procs -> PCs]
          /\ pc[p] = "store" /\ pc'[p] \in {"store", "headtree"}
          /\ \A q \in Procs : q # p => pc'[q] = pc[q]
      <4>1. pc \in [Procs -> PCs]
        BY <1>0 DEF LocalsOK
      <4>2. pc[p] = "store" /\ (pc' = [pc EXCEPT ![p] = "headtree"] \/ pc' = pc)
        BY <1>2 DEF StoreChunk, Goto
      <4> QED
        BY <4>1, <4>2 DEF PCs
    <3>3. /\ DOMAIN todo' = Procs /\ todo'[p] \subseteq todo[p]
          /\ \A q \in Procs : q # p => todo'[q] = todo[q]
      BY <1>0, <1>2 DEF LocalsOK, StoreChunk
    <3> QED
      BY <1>0, <3>1, <3>2, <3>3 DEF LocalsOK
  <2> QED
    BY <2>2, <2>3, TypeParts
<1>3. CASE ReadHeadTree(p)
  <2>1. DiskOK'
    BY <1>0, <1>3, DiskStays DEF ReadHeadTree
  <2>2. ~HeadLoads => LocalsOK'
    BY <1>0, <1>3, StopType DEF ReadHeadTree, ghosts
  <2>3. HeadLoads => NewTree(p) \in Tree
    BY <1>0, HeadTreeType, OverlayTree DEF LocalsOK, NewTree
  <2>4. HeadLoads /\ ~Stop(p) => LocalsOK'
    <3> SUFFICES ASSUME HeadLoads, ~Stop(p) PROVE LocalsOK'
      OBVIOUS
    <3>1. /\ UNCHANGED <<cmd, files, lparents, lcommit, lheads, lsnaps, live, todo>>
          /\ Commit' = Commit
      BY <1>3 DEF ReadHeadTree, ghosts, Commit
    <3>2. ltree' \in [Procs -> Tree]
      BY <1>0, <1>3, <2>3 DEF LocalsOK, ReadHeadTree
    <3>3. /\ pc' \in [Procs -> PCs] /\ pc[p] = "headtree"
          /\ pc'[p] \notin {"idle", "store", "sethead", "writehead", "readheads",
                            "loadregister", "register"}
          /\ \A q \in Procs : q # p => pc'[q] = pc[q]
      BY <1>0, <1>3 DEF LocalsOK, ReadHeadTree, Goto, PCs
    <3> QED
      BY <1>0, <3>1, <3>2, <3>3 DEF LocalsOK
  <2> QED
    BY <1>0, <1>3, <2>1, <2>2, <2>4, StopType, TypeParts DEF ReadHeadTree, ghosts
<1>4. CASE SaveTree(p)
  <2>1. DiskOK'
    <3>1. ltree[p] \in Tree
      BY <1>0 DEF LocalsOK
    <3> QED
      BY <1>0, <1>4, <3>1 DEF DiskOK, SaveTree, ghosts, Commit, SnapSet
  <2>2. LocalsOK'
    BY <1>0, <1>4, GotoType DEF SaveTree, PCs, ghosts
  <2> QED
    BY <2>1, <2>2, TypeParts
<1>5. CASE WriteTree(p)
  <2>1. DiskOK'
    BY <1>0, <1>5 DEF DiskOK, WriteTree, ghosts, Commit, SnapSet
  <2>2. LocalsOK'
    BY <1>0, <1>5, GotoType DEF WriteTree, PCs, ghosts
  <2> QED
    BY <2>1, <2>2, TypeParts
<1>6. CASE ReadParents(p)
  <2>1. DiskOK'
    BY <1>0, <1>6, DiskStays DEF ReadParents
  <2>2. HeadSet \subseteq Commit /\ HeadSet \in SUBSET Nat
    BY <1>0, HeadTreeType, CommitsAreNat DEF DiskOK
  <2>3. ASSUME ~Stop(p) PROVE LocalsOK'
    <3>1. /\ lparents' = [lparents EXCEPT ![p] = HeadSet]
          /\ Goto(p, "savecommit")
          /\ pc[p] = "parents"
          /\ UNCHANGED <<cmd, files, ltree, lcommit, lheads, lsnaps, live, todo>>
      BY <1>6, <2>3 DEF ReadParents
    <3>2. Commit' = Commit
      BY <1>6 DEF ReadParents, ghosts, Commit
    <3>3. /\ lparents' \in [Procs -> SUBSET Nat]
          /\ \A q \in Procs : lparents'[q] \subseteq Commit
      BY <1>0, <2>2, <3>1 DEF LocalsOK
    <3> QED
      BY <1>0, <3>1, <3>2, <3>3 DEF LocalsOK, Goto, PCs
  <2> QED
    BY <1>0, <1>6, <2>1, <2>3, StopType, TypeParts DEF ReadParents, ghosts
<1>7. CASE SaveCommit(p)
  <2> DEFINE r == [tree |-> ltree[p], parents |-> lparents[p],
                   by |-> cmd[p], files |-> files[p]]
  <2>1. r \in CommitRecord /\ r.parents \subseteq Commit
    BY <1>0, <1>7 DEF LocalsOK, SaveCommit, CommitRecord, AllCommands
  <2>2. DiskOK' /\ Commit' = Commit \cup {Len(dag) + 1}
    BY <1>0, <1>7, <2>1, MintDisk DEF SaveCommit
  <2>3. Len(dag) + 1 \in Nat /\ Len(dag) + 1 # None
    <3>1. dag \in Seq(CommitRecord)
      BY <1>0 DEF DiskOK
    <3>2. Len(dag) + 1 \in Nat
      BY <3>1
    <3> QED
      BY <3>2, VaultAssumption
  <2>4. /\ lcommit' \in [Procs -> Nat \cup {None}]
        /\ lcommit'[p] # None
        /\ \A q \in Procs : lcommit'[q] \in Commit' \cup {None}
        /\ \A q \in Procs : q # p => lcommit'[q] = lcommit[q]
    BY <1>0, <1>7, <2>2, <2>3 DEF LocalsOK, SaveCommit
  <2>5. pc' \in [Procs -> PCs] /\ pc'[p] = "sethead" /\ pc[p] = "savecommit"
        /\ \A q \in Procs : q # p => pc'[q] = pc[q]
    BY <1>0, <1>7 DEF LocalsOK, SaveCommit, Goto, PCs
  <2>6. UNCHANGED <<cmd, files, ltree, lparents, lheads, lsnaps, live, todo>>
    BY <1>7 DEF SaveCommit
  <2>7. LocalsOK'
    BY <1>0, <2>2, <2>4, <2>5, <2>6 DEF LocalsOK
  <2> QED
    BY <2>2, <2>7, TypeParts
<1>8. CASE SetHead(p)
  <2>1. DiskOK'
    BY <1>0, <1>8 DEF DiskOK, SetHead, ghosts, Commit, SnapSet
  <2>2. LocalsOK'
    BY <1>0, <1>8, GotoType DEF SetHead, PCs, ghosts, LocalsOK
  <2> QED
    BY <2>1, <2>2, TypeParts
<1>9. CASE WriteHead(p)
  <2>1. lcommit[p] \in Commit
    BY <1>0, <1>9 DEF LocalsOK, WriteHead
  <2>2. DiskOK'
    BY <1>0, <1>9, <2>1 DEF DiskOK, WriteHead, Commit, SnapSet
  <2>3. CASE cmd[p] = "add"
    BY <1>0, <1>9, <2>2, <2>3, StopType, TypeParts DEF WriteHead
  <2>4. CASE cmd[p] = "snapshot"
    <3>1. Goto(p, "loadregister") /\ pc[p] # "idle" /\ UNCHANGED <<cmd, locals, dag>>
      BY <1>9, <2>4 DEF WriteHead
    <3>2. lcommit[p] # None
      BY <1>0, <1>9 DEF LocalsOK, WriteHead
    <3> QED
      BY <1>0, <2>2, <3>1, <3>2, GotoType, TypeParts DEF PCs
  <2>5. CASE cmd[p] = "sync"
    <3>1. Goto(p, "readheads") /\ pc[p] # "idle" /\ UNCHANGED <<cmd, locals, dag>>
      BY <1>9, <2>5 DEF WriteHead
    <3>2. lcommit[p] # None
      BY <1>0, <1>9 DEF LocalsOK, WriteHead
    <3> QED
      BY <1>0, <2>2, <3>1, <3>2, GotoType, TypeParts DEF PCs
  <2>6. CASE cmd[p] \notin {"add", "snapshot", "sync"}
    <3>1. /\ lheads' = [lheads EXCEPT ![p] = {lcommit[p]}]
          /\ Goto(p, "setheads") /\ pc[p] = "writehead"
          /\ UNCHANGED <<cmd, files, ltree, lparents, lcommit, lsnaps, live, todo, dag>>
      BY <1>9, <2>6 DEF WriteHead
    <3>2. /\ lheads' \in [Procs -> SUBSET Nat]
          /\ \A q \in Procs : lheads'[q] \subseteq Commit
      BY <1>0, <2>1, <3>1, CommitsAreNat DEF LocalsOK
    <3>3. LocalsOK'
      BY <1>0, <3>1, <3>2 DEF LocalsOK, Goto, PCs, Commit
    <3> QED
      BY <2>2, <3>3, TypeParts
  <2> QED
    BY <2>3, <2>4, <2>5, <2>6
<1> QED
  BY <1>1, <1>2, <1>3, <1>4, <1>5, <1>6, <1>7, <1>8, <1>9 DEF AddSteps

\* The steps of snapshot, retention, merge and sync.
LEMMA HeadTypes ==
  ASSUME TypeOK, NEW p \in Procs, HeadSteps(p)
  PROVE  TypeOK'
<1>0. DiskOK /\ LocalsOK
  BY TypeParts
<1>1. CASE Snapshot(p)
  <2>1. DiskOK'
    BY <1>0, <1>1, DiskStays DEF Snapshot
  <2>2. HeadSet \subseteq Commit /\ HeadSet \in SUBSET Nat
    BY <1>0, HeadTreeType, CommitsAreNat DEF DiskOK
  <2>3. HeadTree \in Tree
    BY <1>0, <1>1, CommitType, EmptyTreeType DEF Snapshot, HeadTree, DiskOK
  <2>4. /\ pc' \in [Procs -> PCs] /\ cmd'[p] = "snapshot"
        /\ pc'[p] \in {"savetree", "savecommit"}
        /\ \A q \in Procs : q # p => pc'[q] = pc[q] /\ cmd'[q] = cmd[q]
        /\ cmd' \in [Procs -> AllCommands \cup {"none"}]
    BY <1>0, <1>1 DEF LocalsOK, Snapshot, Start, Goto, PCs, AllCommands
  <2>5. /\ lparents' \in [Procs -> SUBSET Nat]
        /\ \A q \in Procs : lparents'[q] \subseteq Commit
        /\ ltree' \in [Procs -> Tree]
    BY <1>0, <1>1, <2>2, <2>3 DEF LocalsOK, Snapshot
  <2>6. Commit' = Commit /\ UNCHANGED <<files, lcommit, lheads, lsnaps, live, todo>>
    BY <1>1 DEF Snapshot, ghosts, Commit
  <2>7. LocalsOK'
    BY <1>0, <2>4, <2>5, <2>6 DEF LocalsOK
  <2> QED
    BY <2>1, <2>7, TypeParts
<1>2. CASE RegisterSnapshot(p)
  <2>1. lcommit[p] \in Commit /\ lcommit[p] \in Nat
    BY <1>0, <1>2, CommitsAreNat DEF LocalsOK, DiskOK, RegisterSnapshot
  <2> DEFINE l == lsnaps[p]
             s == Without(l, lcommit[p])
  <2>0. l \in Seq(Nat) /\ \A i \in DOMAIN l : l[i] \in Commit
    BY <1>0 DEF LocalsOK
  <2>2. s \in Seq(Nat) /\ \A i \in DOMAIN s : s[i] \in Commit
    <3> HIDE DEF l
    <3>1. /\ Without(l, lcommit[p]) \in Seq(Nat)
          /\ \A i \in DOMAIN Without(l, lcommit[p]) :
                \E j \in DOMAIN l : Without(l, lcommit[p])[i] = l[j]
      BY <2>0, <2>1, RegistryType
    <3> HIDE DEF s
    <3>2. s \in Seq(Nat) /\ \A i \in DOMAIN s : \E j \in DOMAIN l : s[i] = l[j]
      BY <3>1 DEF s
    <3> QED
      BY <2>0, <3>2
  <2>3. snaps' = Append(s, lcommit[p])
    BY <1>2 DEF RegisterSnapshot
  <2> HIDE DEF s
  <2>4. snaps' \in Seq(Nat) /\ \A i \in DOMAIN snaps' : snaps'[i] \in Commit
    BY <2>1, <2>2, <2>3
  <2>5. Commit' = Commit
    BY <1>2 DEF RegisterSnapshot, ghosts, Commit
  <2>6. DiskOK'
    BY <1>0, <1>2, <2>4, <2>5 DEF DiskOK, RegisterSnapshot, ghosts, SnapSet
  <2>7. LocalsOK'
    BY <1>0, <1>2, GotoType DEF RegisterSnapshot, PCs, ghosts
  <2> QED
    BY <2>6, <2>7, TypeParts
<1>3. CASE ApplyRetention(p)
  <2> DEFINE s == Pruned(lsnaps[p])
  <2>1. s \in Seq(Nat) /\ \A i \in DOMAIN s : s[i] \in Commit
    BY <1>0, RegistryType DEF LocalsOK
  <2>2. Commit' = Commit /\ snaps' \in {snaps, s}
    BY <1>3 DEF ApplyRetention, ghosts, Commit
  <2> HIDE DEF s
  <2>3. DiskOK'
    BY <1>0, <1>3, <2>1, <2>2 DEF DiskOK, ApplyRetention, ghosts, SnapSet
  <2>4. LocalsOK'
    BY <1>0, <1>3, StopType, GotoType DEF ApplyRetention, PCs, ghosts
  <2> QED
    BY <2>3, <2>4, TypeParts
<1>4. ASSUME NEW r \in commits, NEW command \in {"merge", "mergeany"},
             MergeHead(p, r, command)
      PROVE  TypeOK'
  <2>1. DiskOK'
    BY <1>0, <1>4, DiskStays DEF MergeHead
  <2>2. HeadSet \cup {r} \subseteq Commit /\ HeadSet \cup {r} \in SUBSET Nat
    BY <1>0, HeadTreeType, CommitsAreNat DEF DiskOK
  <2>3. MergedTree(r) \in Tree
    <3>1. HeadTree \in Tree /\ dag[r].tree \in Tree
      BY <1>0, <1>4, HeadTreeType, CommitType DEF MergeHead, DiskOK
    <3> QED
      BY <3>1, MergeAssumption DEF MergedTree
  <2>4. /\ pc' \in [Procs -> PCs] /\ cmd'[p] = command
        /\ pc'[p] = "savetree"
        /\ \A q \in Procs : q # p => pc'[q] = pc[q] /\ cmd'[q] = cmd[q]
        /\ cmd' \in [Procs -> AllCommands \cup {"none"}]
    BY <1>0, <1>4 DEF LocalsOK, MergeHead, Start, Goto, PCs, AllCommands
  <2>5. /\ lparents' \in [Procs -> SUBSET Nat]
        /\ \A q \in Procs : lparents'[q] \subseteq Commit
        /\ ltree' \in [Procs -> Tree]
    BY <1>0, <1>4, <2>2, <2>3 DEF LocalsOK, MergeHead
  <2>6. Commit' = Commit /\ UNCHANGED <<files, lcommit, lheads, lsnaps, live, todo>>
    BY <1>4 DEF MergeHead, ghosts, Commit
  <2>7. LocalsOK'
    BY <1>0, <2>4, <2>5, <2>6 DEF LocalsOK
  <2> QED
    BY <2>1, <2>7, TypeParts
<1>5. ASSUME NEW r \in commits, SetHeadPublic(p, r)
      PROVE  TypeOK'
  <2>1. DiskOK'
    BY <1>0, <1>5, DiskStays DEF SetHeadPublic
  <2>2. r \in Commit /\ r \in Nat /\ r # None
    BY <1>0, CommitsAreNat DEF DiskOK
  <2>3. /\ lcommit' \in [Procs -> Nat \cup {None}]
        /\ \A q \in Procs : lcommit'[q] \in Commit \cup {None}
        /\ \A q \in Procs : q # p => lcommit'[q] = lcommit[q]
        /\ lcommit'[p] = r
    BY <1>0, <1>5, <2>2 DEF LocalsOK, SetHeadPublic
  <2>4. /\ pc' \in [Procs -> PCs] /\ cmd'[p] = "sync"
        /\ pc'[p] = "sethead"
        /\ \A q \in Procs : q # p => pc'[q] = pc[q] /\ cmd'[q] = cmd[q]
        /\ cmd' \in [Procs -> AllCommands \cup {"none"}]
    BY <1>0, <1>5 DEF LocalsOK, SetHeadPublic, Start, Goto, PCs, AllCommands
  <2>5. /\ Commit' = Commit
        /\ UNCHANGED <<files, ltree, lparents, lheads, lsnaps, live, todo>>
    BY <1>5 DEF SetHeadPublic, ghosts, Commit
  <2>6. LocalsOK'
    <3>1. lcommit'[p] # None
      BY <2>2, <2>3
    <3>2. \A q \in Procs : pc'[q] = "store" => todo'[q] \subseteq Chunks
      BY <1>0, <2>4, <2>5 DEF LocalsOK
    <3> QED
      BY <1>0, <2>3, <2>4, <2>5, <3>1, <3>2 DEF LocalsOK
  <2> QED
    BY <2>1, <2>6, TypeParts
<1>6. CASE ReadHeads(p)
  <2>1. DiskOK'
    BY <1>0, <1>6, DiskStays DEF ReadHeads
  <2>2. ASSUME ~Stop(p) PROVE LocalsOK'
    <3> DEFINE tips == heads \cup HeadSet \cup {lcommit[p]}
    <3>1. lcommit[p] \in Commit
      BY <1>0, <1>6 DEF LocalsOK, ReadHeads
    <3>2. tips \subseteq Commit /\ tips \in SUBSET Nat
      BY <1>0, <3>1, HeadTreeType, CommitsAreNat DEF DiskOK
    <3>3. lheads' = [lheads EXCEPT ![p] = tips]
      BY <1>6, <2>2 DEF ReadHeads
    <3> HIDE DEF tips
    <3>4. /\ lheads' \in [Procs -> SUBSET Nat]
          /\ \A q \in Procs : lheads'[q] \subseteq Commit
      BY <1>0, <3>2, <3>3 DEF LocalsOK
    <3>5. /\ Goto(p, "setheads") /\ Commit' = Commit /\ pc[p] = "readheads"
          /\ UNCHANGED <<cmd, files, ltree, lparents, lcommit, lsnaps, live, todo>>
      BY <1>6, <2>2 DEF ReadHeads, ghosts, Commit
    <3> QED
      BY <1>0, <3>4, <3>5 DEF LocalsOK, Goto, PCs
  <2>3. ASSUME Stop(p) PROVE LocalsOK'
    BY <1>0, <1>6, <2>3, StopType DEF ReadHeads, ghosts
  <2> QED
    BY <2>1, <2>2, <2>3, TypeParts
<1>7. CASE SetHeads(p)
  <2>1. DiskOK'
    BY <1>0, <1>7 DEF DiskOK, SetHeads, ghosts, Commit, SnapSet
  <2>2. LocalsOK'
    BY <1>0, <1>7, GotoType DEF SetHeads, PCs, ghosts, LocalsOK
  <2> QED
    BY <2>1, <2>2, TypeParts
<1>8. CASE WriteHeads(p)
  <2>1. DiskOK'
    BY <1>0, <1>8 DEF DiskOK, LocalsOK, WriteHeads, ghosts, Commit, SnapSet
  <2> QED
    BY <1>0, <1>8, <2>1, StopType, TypeParts DEF WriteHeads, ghosts
<1>9. CASE LoadSnapshots(p)
  <2>1. DiskOK'
    BY <1>0, <1>9, DiskStays DEF LoadSnapshots
  <2>2. snaps \in Seq(Nat) /\ \A i \in DOMAIN snaps : snaps[i] \in Commit
    BY <1>0 DEF DiskOK, SnapSet
  <2>3. /\ lsnaps' \in [Procs -> Seq(Nat)]
        /\ \A q \in Procs : \A i \in DOMAIN lsnaps'[q] : lsnaps'[q][i] \in Commit
    BY <1>0, <1>9, <2>2 DEF LocalsOK, LoadSnapshots
  <2>4. /\ pc' \in [Procs -> PCs] /\ pc[p] \in {"loadregister", "loadretention"}
        /\ pc'[p] \in {"register", "retention"}
        /\ pc'[p] = "register" => pc[p] = "loadregister"
        /\ \A q \in Procs : q # p => pc'[q] = pc[q]
    BY <1>0, <1>9 DEF LocalsOK, LoadSnapshots, Goto, PCs
  <2>5. /\ UNCHANGED <<cmd, files, ltree, lparents, lcommit, lheads, live, todo>>
        /\ Commit' = Commit
    BY <1>9 DEF LoadSnapshots, ghosts, Commit
  <2>6. LocalsOK'
    BY <1>0, <2>3, <2>4, <2>5 DEF LocalsOK
  <2> QED
    BY <2>1, <2>6, TypeParts
<1> QED
  BY <1>1, <1>2, <1>3, <1>4, <1>5, <1>6, <1>7, <1>8, <1>9 DEF HeadSteps

\* A gc step that changes its todo list, its mark or its place, and may
\* delete from the disk.
LEMMA GcLocals ==
  ASSUME LocalsOK, NEW p \in Procs, NEW l \in PCs \ {"store"},
         pc[p] \notin {"idle", "store"},
         pc' = [pc EXCEPT ![p] = l],
         l \notin {"sethead", "writehead", "readheads", "loadregister", "register"},
         live' \in [Procs -> SUBSET Nat],
         \A q \in Procs : live'[q] \subseteq Commit,
         DOMAIN todo' = Procs,
         \A q \in Procs : q # p => todo'[q] = todo[q],
         UNCHANGED <<cmd, files, ltree, lparents, lcommit, lheads, lsnaps, dag>>
  PROVE  LocalsOK'
BY DEF LocalsOK, Commit

\* The steps of gc.
LEMMA GcTypes ==
  ASSUME TypeOK, NEW p \in Procs, GcSteps(p)
  PROVE  TypeOK'
<1>0. DiskOK /\ LocalsOK
  BY TypeParts
<1>1. CASE Gc(p)
  <2>1. DiskOK'
    BY <1>0, <1>1, DiskStays DEF Gc
  <2>2. LocalsOK'
    BY <1>0, <1>1 DEF LocalsOK, Gc, Start, Goto, PCs, AllCommands, locals, ghosts, Commit
  <2> QED
    BY <2>1, <2>2, TypeParts
<1>2. CASE MarkChunks(p)
  <2>1. DiskOK'
    BY <1>0, <1>2, DiskStays DEF MarkChunks
  <2>2. ASSUME ~Stop(p) PROVE LocalsOK'
    <3>1. /\ todo' = [todo EXCEPT ![p] = chunks \ LiveChunks(Marked(MarkRoots))]
          /\ Goto(p, "sweepchunks") /\ pc[p] = "markchunks"
          /\ UNCHANGED <<cmd, files, ltree, lparents, lcommit, lheads, lsnaps, live,
                         dag>>
      BY <1>2, <2>2 DEF MarkChunks, ghosts
    <3> QED
      BY <1>0, <3>1, GcLocals DEF LocalsOK, Goto, PCs
  <2> QED
    BY <1>0, <1>2, <2>1, <2>2, StopType, TypeParts DEF MarkChunks, ghosts
<1>3. ASSUME NEW k \in todo[p], SweepChunk(p, k)
      PROVE  TypeOK'
  <2>1. DiskOK'
    BY <1>0, <1>3 DEF DiskOK, SweepChunk, ghosts, Commit, SnapSet
  <2>2. LocalsOK'
    BY <1>0, <1>3 DEF LocalsOK, SweepChunk, ghosts, Commit
  <2> QED
    BY <2>1, <2>2, TypeParts
<1>4. CASE MarkObjects(p)
  <2>1. DiskOK'
    BY <1>0, <1>4, DiskStays DEF MarkObjects
  <2> DEFINE M == Marked(MarkRoots)
  <2>2. M \subseteq Commit /\ M \in SUBSET Nat
    BY <1>0, CommitsAreNat DEF DiskOK, Marked
  <2>3. /\ live' = [live EXCEPT ![p] = M]
        /\ todo' = [todo EXCEPT ![p] = commits \ M]
        /\ Goto(p, "sweepcommits") /\ pc[p] = "sweepchunks"
        /\ UNCHANGED <<cmd, files, ltree, lparents, lcommit, lheads, lsnaps, dag>>
    BY <1>4 DEF MarkObjects, ghosts
  <2> HIDE DEF M
  <2>4. live' \in [Procs -> SUBSET Nat] /\ \A q \in Procs : live'[q] \subseteq Commit
    BY <1>0, <2>2, <2>3 DEF LocalsOK
  <2>5. LocalsOK'
    BY <1>0, <2>3, <2>4, GcLocals DEF LocalsOK, Goto, PCs
  <2> QED
    BY <2>1, <2>5, TypeParts
<1>5. ASSUME NEW c \in todo[p], SweepCommit(p, c)
      PROVE  TypeOK'
  <2>1. DiskOK'
    BY <1>0, <1>5 DEF DiskOK, SweepCommit, ghosts, Commit, SnapSet
  <2>2. ASSUME ~Stop(p) PROVE LocalsOK'
    BY <1>0, <1>5, <2>2 DEF LocalsOK, SweepCommit, ghosts, Commit
  <2> QED
    BY <1>0, <1>5, <2>1, <2>2, StopType, TypeParts DEF SweepCommit, ghosts
<1>6. CASE ListTrees(p)
  <2>1. DiskOK'
    BY <1>0, <1>6, DiskStays DEF ListTrees
  <2>2. /\ DOMAIN todo' = Procs /\ \A q \in Procs : q # p => todo'[q] = todo[q]
        /\ pc' = [pc EXCEPT ![p] = "sweeptrees"] /\ pc[p] = "sweepcommits"
        /\ UNCHANGED <<cmd, files, ltree, lparents, lcommit, lheads, lsnaps, live, dag>>
    BY <1>0, <1>6 DEF ListTrees, Goto, LocalsOK, ghosts
  <2>3. LocalsOK'
    BY <1>0, <2>2, GcLocals DEF LocalsOK, PCs
  <2> QED
    BY <2>1, <2>3, TypeParts
<1>7. ASSUME NEW t \in todo[p], SweepTree(p, t)
      PROVE  TypeOK'
  <2>1. DiskOK'
    BY <1>0, <1>7 DEF DiskOK, SweepTree, ghosts, Commit, SnapSet
  <2>2. ASSUME ~Stop(p) PROVE LocalsOK'
    BY <1>0, <1>7, <2>2 DEF LocalsOK, SweepTree, ghosts, Commit
  <2> QED
    BY <1>0, <1>7, <2>1, <2>2, StopType, TypeParts DEF SweepTree, ghosts
<1>8. CASE EndGc(p)
  BY <1>0, <1>8, DiskStays, StopType, TypeParts DEF EndGc, ghosts
<1> QED
  BY <1>1, <1>2, <1>3, <1>4, <1>5, <1>6, <1>7, <1>8 DEF GcSteps

\* What peers and fetches do.
LEMMA PeerTypes ==
  ASSUME TypeOK, PeerSteps
  PROVE  TypeOK'
<1>0. DiskOK /\ LocalsOK
  BY TypeParts
<1>1. ASSUME NEW t \in PeerTrees, NEW ps \in {{}} \cup {{c} : c \in Known},
             Publish(t, ps)
      PROVE  TypeOK'
  <2> DEFINE r == [tree |-> t, parents |-> ps, by |-> "peer", files |-> EmptyTree]
  <2>1. ps \subseteq Commit /\ ps \in SUBSET Nat
    BY <1>0, CommitsAreNat DEF Known, DiskOK
  <2>2. t \in Tree
    BY VaultAssumption
  <2>3. r \in CommitRecord /\ r.parents \subseteq Commit
    BY <2>1, <2>2, EmptyTreeType DEF CommitRecord
  <2>4. DiskOK' /\ Commit' = Commit \cup {Len(dag) + 1}
    BY <1>0, <1>1, <2>3, MintDisk DEF Publish, disk
  <2>5. LocalsOK'
    BY <1>0, <1>1, <2>4 DEF LocalsOK, Publish, locals
  <2> QED
    BY <2>4, <2>5, TypeParts
<1>2. ASSUME NEW c \in Commit, ImportCommit(c)
      PROVE  TypeOK'
  <2>1. DiskOK'
    BY <1>0, <1>2 DEF DiskOK, ImportCommit, ghosts, Commit, SnapSet
  <2> QED
    BY <1>0, <1>2, <2>1, LocalsStay, TypeParts DEF ImportCommit, ghosts
<1>3. ASSUME NEW c \in commits, ImportTree(c)
      PROVE  TypeOK'
  <2>1. dag[c].tree \in Tree
    BY <1>0, CommitType DEF DiskOK
  <2>2. DiskOK'
    BY <1>0, <1>3, <2>1 DEF DiskOK, ImportTree, ghosts, Commit, SnapSet
  <2> QED
    BY <1>0, <1>3, <2>2, LocalsStay, TypeParts DEF ImportTree, ghosts
<1>4. ASSUME NEW c \in commits, NEW k \in Chunks, ImportStoredChunk(c, k)
      PROVE  TypeOK'
  <2>1. DiskOK'
    BY <1>0, <1>4 DEF DiskOK, ImportStoredChunk, ghosts, Commit, SnapSet
  <2> QED
    BY <1>0, <1>4, <2>1, LocalsStay, TypeParts DEF ImportStoredChunk, ghosts
<1> QED
  BY <1>1, <1>2, <1>3, <1>4 DEF PeerSteps

LEMMA TypeStep == TypeOK /\ [Next]_vars => TypeOK'
<1> SUFFICES ASSUME TypeOK, [Next]_vars PROVE TypeOK'
  OBVIOUS
<1>1. ASSUME NEW p \in Procs, Crash(p) PROVE TypeOK'
  BY <1>1, DiskStays, StopType, TypeParts DEF Crash, ghosts
<1>2. CASE UNCHANGED vars
  BY <1>2, DiskStays, LocalsStay, TypeParts DEF vars, ghosts
<1> QED
  BY <1>1, <1>2, AddTypes, HeadTypes, GcTypes, PeerTypes DEF Next

\* Every variable of the vault always holds a value of its kind: commits that
\* files and processes name have been minted, a truncated tree is a file.
THEOREM TypeCorrect == Spec => []TypeOK
BY TypeInit, TypeStep, PTL DEF Spec

-----------------------------------------------------------------------------
(***************************************************************************)
(* What the vault keeps when the discipline its authors assume is kept:    *)
(* commands do not overlap, no kill lands inside an fs::write, and merges  *)
(* are made through `sync --merge`, which fetches first.                   *)
(***************************************************************************)

Disciplined == ~Concurrent /\ Crashes # "anywhere" /\ "mergeany" \notin Commands

-----------------------------------------------------------------------------
(* The inductive invariant                                                 *)

\* A truncated file is being written.
Intact ==
  /\ head = Torn => \E p \in Procs : pc[p] = "writehead"
  /\ \A t \in torn : \E p \in Procs : pc[p] = "writetree" /\ ltree[p] = t

\* At most one command runs.
Serial == \A p, q \in Procs : pc[p] # "idle" /\ pc[q] # "idle" => p = q

\* The commit, its tree and its chunks are on disk, the tree file perhaps
\* being rewritten with the same contents.
Stored(c) ==
  /\ c \in commits
  /\ dag[c].tree \in trees
  /\ ChunksOf(dag[c].tree) \subseteq chunks

RootsStored == \A r \in Roots : Stored(r)

\* M holds the roots on disk and, with a commit, its parents on disk.
Covers(M) ==
  /\ M \subseteq commits
  /\ Roots \cap commits \subseteq M
  /\ \A c \in M : dag[c].parents \cap commits \subseteq M

\* What a command has secured by the time it gets to each step.
WriterInv(p) ==
  /\ pc[p] = "store" => ChunksOf(files[p]) \subseteq chunks \cup todo[p]
  /\ pc[p] = "headtree" => ChunksOf(files[p]) \subseteq chunks
  /\ pc[p] \in {"savetree", "writetree", "parents", "savecommit"} =>
        ChunksOf(ltree[p]) \subseteq chunks
  /\ pc[p] \in {"writetree", "parents", "savecommit"} => ltree[p] \in trees
  /\ pc[p] \in {"sethead", "writehead", "readheads", "loadregister", "register"} =>
        Stored(lcommit[p])
  /\ pc[p] \in {"setheads", "writeheads"} => \A c \in lheads[p] : Stored(c)
  /\ pc[p] \in {"register", "retention"} =>
        \A i \in DOMAIN lsnaps[p] : Stored(lsnaps[p][i])

\* What gc deletes is not needed.
GcInv(p) ==
  /\ pc[p] = "sweepchunks" =>
        \A c \in Marked(Roots) :
           dag[c].tree \in trees => ChunksOf(dag[c].tree) \cap todo[p] = {}
  /\ pc[p] \in {"sweepcommits", "sweeptrees"} => Covers(live[p])
  /\ pc[p] = "sweepcommits" => todo[p] \cap live[p] = {}
  /\ pc[p] = "sweeptrees" => \A c \in live[p] : dag[c].tree \notin todo[p]

\* What a step of p leaves.
Secured(p) == RootsStored /\ WriterInv(p) /\ GcInv(p)

SafeInv ==
  /\ Serial
  /\ RootsStored
  /\ \A p \in Procs : WriterInv(p) /\ GcInv(p)

-----------------------------------------------------------------------------
(* Frames                                                                  *)

Steps(p) == AddSteps(p) \/ HeadSteps(p) \/ GcSteps(p) \/ Crash(p)

\* What q has is as it was.
SameLocals(q) ==
  /\ pc'[q] = pc[q] /\ files'[q] = files[q] /\ ltree'[q] = ltree[q]
  /\ lcommit'[q] = lcommit[q] /\ lheads'[q] = lheads[q] /\ todo'[q] = todo[q]
  /\ lsnaps'[q] = lsnaps[q]

\* A step of p leaves every other process alone.
LEMMA Frame ==
  ASSUME TypeOK, NEW p \in Procs, Steps(p), NEW q \in Procs \ {p}
  PROVE  SameLocals(q)
<1>0. /\ pc \in [Procs -> PCs] /\ files \in [Procs -> Tree] /\ ltree \in [Procs -> Tree]
      /\ DOMAIN lcommit = Procs /\ DOMAIN lheads = Procs /\ DOMAIN todo = Procs
      /\ DOMAIN lsnaps = Procs
  BY DEF TypeOK
<1> USE DEF SameLocals
<1>1. ASSUME Stop(p) PROVE SameLocals(q)
  BY <1>0, <1>1 DEF Stop, Goto
<1>2. CASE AddSteps(p)
  BY <1>0, <1>1, <1>2
  DEF AddSteps, AddPath, StoreChunk, ReadHeadTree, SaveTree, WriteTree, ReadParents,
      SaveCommit, SetHead, WriteHead, Start, Goto, locals
<1>3. CASE HeadSteps(p)
  BY <1>0, <1>1, <1>3
  DEF HeadSteps, Snapshot, LoadSnapshots, RegisterSnapshot, ApplyRetention,
      MergeHead, SetHeadPublic, ReadHeads, SetHeads, WriteHeads, Start, Goto, locals
<1>4. CASE GcSteps(p)
  BY <1>0, <1>1, <1>4
  DEF GcSteps, Gc, MarkChunks, SweepChunk, MarkObjects, SweepCommit, ListTrees,
      SweepTree, EndGc, Start, Goto, locals
<1>5. CASE Crash(p)
  BY <1>1, <1>5 DEF Crash
<1> QED
  BY <1>2, <1>3, <1>4, <1>5 DEF Steps

-----------------------------------------------------------------------------
(* Truncated files, whatever the commands and their overlap                *)

LEMMA IntactStep ==
  ASSUME Crashes # "anywhere", TypeOK, TypeOK', Intact, [Next]_vars
  PROVE  Intact'
<1>0. /\ pc \in [Procs -> PCs] /\ ltree \in [Procs -> Tree] /\ torn \subseteq trees
      /\ head \in Commit \cup {None, Torn}
  BY DEF TypeOK
<1>1. ASSUME NEW p \in Procs, Steps(p),
             pc[p] \notin {"writehead", "writetree"},
             head' = head, torn' \subseteq torn
      PROVE  Intact'
  BY <1>1, Frame DEF Intact, SameLocals
<1>2. ASSUME NEW p \in Procs, Steps(p) PROVE Intact'
  <2>1. CASE SaveTree(p)
    <3>1. /\ head' = head /\ torn' = torn \cup {ltree[p]}
          /\ pc[p] = "savetree" /\ pc'[p] = "writetree" /\ ltree'[p] = ltree[p]
      BY <1>0, <2>1 DEF SaveTree, Goto, locals
    <3> QED
      BY <1>2, <3>1, Frame DEF Intact, SameLocals
  <2>2. CASE WriteTree(p)
    <3>1. head' = head /\ torn' = torn \ {ltree[p]} /\ pc[p] = "writetree"
      BY <2>2 DEF WriteTree
    <3> QED
      BY <1>2, <3>1, Frame DEF Intact, SameLocals
  <2>3. CASE SetHead(p)
    <3>1. torn' = torn /\ pc[p] = "sethead" /\ pc'[p] = "writehead"
      BY <1>0, <2>3 DEF SetHead, Goto
    <3> QED
      BY <1>2, <3>1, Frame DEF Intact, SameLocals
  <2>4. CASE WriteHead(p)
    <3>1. torn' = torn /\ pc[p] = "writehead" /\ head' = lcommit[p]
      BY <2>4 DEF WriteHead
    <3>2. head' # Torn
      BY <3>1, CommitsAreNat DEF TypeOK
    <3> QED
      BY <1>2, <3>1, <3>2, Frame DEF Intact, SameLocals
  <2>5. CASE Crash(p)
    <3>1. Crashes = "between writes" \/ Crashes = "never"
      BY VaultAssumption
    <3>2. pc[p] \notin {"writehead", "writetree"} /\ head' = head /\ torn' = torn
      BY <2>5, <3>1 DEF Crash, disk
    <3> QED
      BY <1>1, <1>2, <3>2
  <2>6. CASE AddSteps(p) /\ ~SaveTree(p) /\ ~WriteTree(p) /\ ~SetHead(p) /\ ~WriteHead(p)
    <3>1. pc[p] \notin {"writehead", "writetree"} /\ head' = head /\ torn' = torn
      BY <2>6
      DEF AddSteps, AddPath, StoreChunk, ReadHeadTree, ReadParents, SaveCommit, Start,
          MayStart, disk
    <3> QED
      BY <1>1, <1>2, <3>1
  <2>7. CASE HeadSteps(p)
    <3>1. pc[p] \notin {"writehead", "writetree"} /\ head' = head /\ torn' = torn
      BY <2>7
      DEF HeadSteps, Snapshot, LoadSnapshots, RegisterSnapshot, ApplyRetention,
          MergeHead, SetHeadPublic, ReadHeads, SetHeads, WriteHeads, Start,
          MayStart, disk
    <3> QED
      BY <1>1, <1>2, <3>1
  <2>8. CASE GcSteps(p)
    <3>1. pc[p] \notin {"writehead", "writetree"} /\ head' = head /\ torn' \subseteq torn
      BY <2>8
      DEF GcSteps, Gc, MarkChunks, SweepChunk, MarkObjects, SweepCommit, ListTrees,
          SweepTree, EndGc, Start, MayStart, disk
    <3> QED
      BY <1>1, <1>2, <3>1
  <2> QED
    BY <1>2, <2>1, <2>2, <2>3, <2>4, <2>5, <2>6, <2>7, <2>8 DEF Steps
<1>3. CASE PeerSteps
  <2>1. UNCHANGED <<pc, ltree, head, torn>>
    BY <1>3
    DEF PeerSteps, Publish, ImportCommit, ImportTree, ImportStoredChunk, disk, locals
  <2> QED
    BY <2>1 DEF Intact
<1>4. CASE UNCHANGED vars
  BY <1>4 DEF vars, disk, locals, Intact
<1> QED
  BY <1>2, <1>3, <1>4 DEF Next, Steps

\* However commands overlap, a file is truncated only while somebody writes
\* it, unless a kill lands inside the write.
THEOREM OnlyWritersTruncate ==
  ASSUME Crashes # "anywhere"
  PROVE  Spec => []Intact
<1>1. Init => Intact
  BY VaultAssumption DEF Init, Intact
<1>2. TypeOK /\ TypeOK' /\ Intact /\ [Next]_vars => Intact'
  BY IntactStep
<1> QED
  BY <1>1, <1>2, TypeCorrect, PTL DEF Spec

\* Once every command has returned no file is left truncated.
THEOREM QuietDisk ==
  ASSUME Crashes # "anywhere"
  PROVE  Spec => []QuietDiskIntact
<1>1. Intact => QuietDiskIntact
  BY DEF Intact, QuietDiskIntact, AllIdle
<1> QED
  BY <1>1, OnlyWritersTruncate, PTL

-----------------------------------------------------------------------------
(* The mark                                                                *)

LEMMA RootsType == TypeOK => Roots \subseteq Commit
BY DEF TypeOK, Roots, HeadSet

\* The mark of the roots holds them, and the parents of what it holds.
LEMMA MarkCovers ==
  ASSUME TypeOK
  PROVE  Covers(Marked(Roots))
<1>1. Roots \cap commits \subseteq Marked(Roots)
  BY RootsType DEF Marked, Reached
<1>2. ASSUME NEW c \in Marked(Roots), NEW q \in dag[c].parents \cap commits
      PROVE  q \in Marked(Roots)
  <2>1. c \in Commit /\ c \in commits /\ q \in Commit
    BY <1>2 DEF Marked, Reached, TypeOK
  <2>2. ASSUME NEW S \in SUBSET Commit, Roots \subseteq S, Closed(S)
        PROVE  q \in S
    <3>1. c \in S
      BY <1>2, <2>2 DEF Marked, Reached
    <3> QED
      BY <1>2, <2>1, <2>2, <3>1 DEF Closed
  <2> QED
    BY <1>2, <2>1, <2>2 DEF Marked, Reached
<1> QED
  BY <1>1, <1>2 DEF Covers, Marked

\* It is the least such set: whatever covers the roots holds all that any gc
\* must keep.
LEMMA CoversMark ==
  ASSUME TypeOK, NEW M, Covers(M)
  PROVE  Marked(Roots) \subseteq M
<1> DEFINE S == M \cup (Commit \ commits)
<1>1. S \in SUBSET Commit /\ Roots \subseteq S
  BY RootsType DEF Covers, TypeOK
<1>2. Closed(S)
  BY DEF Closed, Covers, TypeOK
<1> HIDE DEF S
<1>3. \A c \in Marked(Roots) : c \in S /\ c \in commits
  BY <1>1, <1>2 DEF Marked, Reached
<1> QED
  BY <1>3 DEF S

\* A commit of a peer, none of it here, changes nothing that is marked.
LEMMA MarkOld ==
  ASSUME TypeOK, Commit \subseteq Commit', \A c \in Commit : dag'[c] = dag[c],
         Roots' = Roots, commits' = commits
  PROVE  Marked(Roots)' \subseteq Marked(Roots)
<1> SUFFICES ASSUME NEW c \in Marked(Roots)'
             PROVE  c \in Marked(Roots)
  OBVIOUS
<1>1. c \in commits /\ c \in Commit
  BY DEF Marked, TypeOK
<1>2. ASSUME NEW S \in SUBSET Commit, Roots \subseteq S, Closed(S)
      PROVE  c \in S
  <2>1. S \in SUBSET Commit' /\ Roots' \subseteq S
    BY <1>2
  <2>2. \A x \in S \cap commits' : dag'[x].parents \subseteq S
    BY <1>2 DEF Closed
  <2> QED
    BY <2>1, <2>2 DEF Marked, Reached, Closed
<1> QED
  BY <1>1, <1>2 DEF Marked, Reached

-----------------------------------------------------------------------------
(* Serial steps                                                            *)

\* While p takes a step nobody else runs, and at most one process runs after.
LEMMA SerialStep ==
  ASSUME ~Concurrent, TypeOK, Serial, NEW p \in Procs, Steps(p)
  PROVE  /\ Serial'
         /\ \A q \in Procs \ {p} : pc[q] = "idle" /\ pc'[q] = "idle"
<1>1. pc[p] # "idle" \/ AllIdle
  <2>1. CASE AddSteps(p)
    BY <2>1
    DEF AddSteps, AddPath, StoreChunk, ReadHeadTree, SaveTree, WriteTree,
        ReadParents, SaveCommit, SetHead, WriteHead, Start, MayStart
  <2>2. CASE HeadSteps(p)
    BY <2>2
    DEF HeadSteps, Snapshot, LoadSnapshots, RegisterSnapshot, ApplyRetention,
        MergeHead, SetHeadPublic, ReadHeads, SetHeads, WriteHeads, Start, MayStart
  <2>3. CASE GcSteps(p)
    BY <2>3
    DEF GcSteps, Gc, MarkChunks, SweepChunk, MarkObjects, SweepCommit,
        ListTrees, SweepTree, EndGc, Start, MayStart
  <2>4. CASE Crash(p)
    BY <2>4 DEF Crash
  <2> QED
    BY <2>1, <2>2, <2>3, <2>4 DEF Steps
<1>2. \A q \in Procs \ {p} : pc[q] = "idle" /\ pc'[q] = pc[q]
  BY <1>1, Frame DEF Serial, AllIdle, SameLocals
<1> QED
  BY <1>2 DEF Serial

\* It is then enough to look at p.
LEMMA OneProcess ==
  ASSUME Disciplined, TypeOK, SafeInv, NEW p \in Procs, Steps(p),
         RootsStored', WriterInv(p)', GcInv(p)'
  PROVE  SafeInv'
<1>1. /\ Serial'
      /\ \A q \in Procs \ {p} : pc'[q] = "idle"
  BY SerialStep DEF SafeInv, Disciplined
<1>2. \A q \in Procs \ {p} : WriterInv(q)' /\ GcInv(q)'
  BY <1>1 DEF WriterInv, GcInv
<1> QED
  BY <1>1, <1>2 DEF SafeInv

\* Nobody writes HEAD while a gc runs, so that it marks from all the roots.
LEMMA GcSeesHead ==
  ASSUME Intact, Serial, NEW p \in Procs, pc[p] \notin {"idle", "writehead"}
  PROVE  MarkRoots = Roots
BY DEF Intact, Serial, MarkRoots

LEMMA SameRoots ==
  ASSUME UNCHANGED <<head, heads, snaps, dag>>
  PROVE  Roots' = Roots /\ Commit' = Commit
BY DEF Roots, HeadSet, SnapSet, Commit

\* Nothing is lost and no root is added.
LEMMA RootsStay ==
  ASSUME RootsStored, Roots' \subseteq Roots,
         commits \subseteq commits', trees \subseteq trees', chunks \subseteq chunks',
         \A c \in Roots : dag'[c] = dag[c]
  PROVE  RootsStored'
BY DEF RootsStored, Stored

\* A process that is idle, or about to do something else, has secured nothing.
LEMMA IdleInv ==
  ASSUME NEW p \in Procs, pc'[p] \in {"idle", "loadretention", "markchunks"}
  PROVE  WriterInv(p)' /\ GcInv(p)'
BY DEF WriterInv, GcInv

LEMMA StopInv ==
  ASSUME TypeOK, NEW p \in Procs, Stop(p)
  PROVE  WriterInv(p)' /\ GcInv(p)'
BY IdleInv DEF TypeOK, Stop, Goto

-----------------------------------------------------------------------------
(* Each step keeps the invariant                                           *)

\* Commits are numbers after the step too.
LEMMA NextCommitsAreNat ==
  ASSUME TypeOK'
  PROVE  None \notin Commit' /\ Torn \notin Commit'
<1>1. dag' \in Seq(CommitRecord)
  BY DEF TypeOK
<1>2. Commit' \subseteq Nat
  BY <1>1 DEF Commit
<1> QED
  BY <1>2, VaultAssumption

LEMMA AddSecures ==
  ASSUME TypeOK, TypeOK', RootsStored, NEW p \in Procs, WriterInv(p), AddSteps(p)
  PROVE  Secured(p)'
<1>0. /\ RootsStored /\ WriterInv(p) /\ Roots \subseteq Commit
      /\ pc \in [Procs -> PCs] /\ files \in [Procs -> Tree] /\ ltree \in [Procs -> Tree]
      /\ DOMAIN todo = Procs /\ DOMAIN lcommit = Procs /\ DOMAIN lparents = Procs
      /\ dag \in Seq(CommitRecord)
  BY RootsType DEF TypeOK
<1>s. ASSUME RootsStored', WriterInv(p)', GcInv(p)' PROVE Secured(p)'
  BY <1>s DEF Secured
<1>1. ASSUME NEW fs \in Inputs, AddPath(p, fs)
      PROVE  Secured(p)'
  <2>1. UNCHANGED disk /\ UNCHANGED dag
    BY <1>1 DEF AddPath, ghosts
  <2>2. RootsStored'
    BY <1>0, <2>1, SameRoots, RootsStay DEF disk
  <2>3. pc'[p] = "store" /\ files'[p] = fs /\ todo'[p] = ChunksOf(fs)
    BY <1>0, <1>1 DEF AddPath, Start, Goto
  <2>4. WriterInv(p)' /\ GcInv(p)'
    BY <2>3 DEF WriterInv, GcInv
  <2> QED
    BY <2>2, <2>4, <1>s
<1>2. ASSUME NEW k \in todo[p], StoreChunk(p, k)
      PROVE  Secured(p)'
  <2>1. /\ UNCHANGED <<head, heads, snaps, dag, commits, trees, files>>
        /\ chunks' = chunks \cup {k}
        /\ pc[p] = "store" /\ todo'[p] = todo[p] \ {k}
        /\ pc'[p] = IF todo[p] = {k} THEN "headtree" ELSE "store"
    BY <1>0, <1>2 DEF StoreChunk, Goto, ghosts
  <2>2. RootsStored'
    BY <1>0, <2>1, SameRoots, RootsStay
  <2>3. ChunksOf(files[p]) \subseteq chunks \cup todo[p]
    BY <1>0, <2>1 DEF WriterInv
  <2>4. WriterInv(p)' /\ GcInv(p)'
    BY <2>1, <2>3 DEF WriterInv, GcInv
  <2> QED
    BY <2>2, <2>4, <1>s
<1>3. CASE ReadHeadTree(p)
  <2>1. UNCHANGED disk /\ UNCHANGED dag
    BY <1>3 DEF ReadHeadTree, ghosts
  <2>2. RootsStored'
    BY <1>0, <2>1, SameRoots, RootsStay DEF disk
  <2>3. ASSUME ~Stop(p) PROVE WriterInv(p)' /\ GcInv(p)'
    <3>1. /\ HeadLoads /\ pc[p] = "headtree" /\ pc'[p] = "savetree"
          /\ ltree'[p] = NewTree(p)
      BY <1>0, <1>3, <2>3 DEF ReadHeadTree, Goto
    <3>2. HeadTree \in Tree /\ files[p] \in Tree
      BY <1>0, <3>1, HeadTreeType, TypeParts
    <3>3. ChunksOf(HeadTree) \subseteq chunks
      <4>1. CASE head = None
        BY <4>1, EmptyTreeType DEF HeadTree
      <4>2. CASE head # None
        <5>1. head \in Roots
          BY <3>1, <4>2 DEF HeadLoads, Roots, HeadSet, TypeOK
        <5> QED
          BY <1>0, <4>2, <5>1 DEF HeadTree, RootsStored, Stored
      <4> QED
        BY <4>1, <4>2
    <3>4. ChunksOf(files[p]) \subseteq chunks
      BY <1>0, <3>1 DEF WriterInv
    <3>5. ChunksOf(NewTree(p)) \subseteq chunks
      BY <3>2, <3>3, <3>4, OverlayTree DEF NewTree
    <3> QED
      BY <2>1, <3>1, <3>5 DEF WriterInv, GcInv, disk
  <2> QED
    BY <2>2, <2>3, <1>s, StopInv
<1>4. CASE SaveTree(p)
  <2>1. /\ UNCHANGED <<head, heads, snaps, dag, commits, chunks, ltree>>
        /\ trees' = trees \cup {ltree[p]}
        /\ pc[p] = "savetree" /\ pc'[p] = "writetree"
    BY <1>0, <1>4 DEF SaveTree, Goto, ghosts, locals
  <2>2. RootsStored'
    BY <1>0, <2>1, SameRoots, RootsStay
  <2>3. WriterInv(p)' /\ GcInv(p)'
    BY <1>0, <2>1 DEF WriterInv, GcInv
  <2> QED
    BY <2>2, <2>3, <1>s
<1>5. CASE WriteTree(p)
  <2>1. /\ UNCHANGED <<head, heads, snaps, dag, commits, trees, chunks, ltree>>
        /\ pc[p] = "writetree" /\ pc'[p] \in {"parents", "savecommit"}
    BY <1>0, <1>5 DEF WriteTree, Goto, ghosts, locals
  <2>2. RootsStored'
    BY <1>0, <2>1, SameRoots, RootsStay
  <2>3. WriterInv(p)' /\ GcInv(p)'
    BY <1>0, <2>1 DEF WriterInv, GcInv
  <2> QED
    BY <2>2, <2>3, <1>s
<1>6. CASE ReadParents(p)
  <2>1. UNCHANGED disk /\ UNCHANGED dag
    BY <1>6 DEF ReadParents, ghosts
  <2>2. RootsStored'
    BY <1>0, <2>1, SameRoots, RootsStay DEF disk
  <2>3. ASSUME ~Stop(p) PROVE WriterInv(p)' /\ GcInv(p)'
    <3>1. pc[p] = "parents" /\ pc'[p] = "savecommit" /\ UNCHANGED <<ltree, trees, chunks>>
      BY <1>0, <1>6, <2>3 DEF ReadParents, Goto, disk
    <3> QED
      BY <1>0, <3>1 DEF WriterInv, GcInv
  <2> QED
    BY <2>2, <2>3, <1>s, StopInv
<1>7. CASE SaveCommit(p)
  <2> DEFINE r == [tree |-> ltree[p], parents |-> lparents[p],
                   by |-> cmd[p], files |-> files[p]]
  <2>1. /\ UNCHANGED <<head, heads, snaps, trees, chunks>>
        /\ dag' = Append(dag, r) /\ commits' = commits \cup {Len(dag) + 1}
        /\ pc[p] = "savecommit" /\ pc'[p] = "sethead" /\ lcommit'[p] = Len(dag) + 1
    BY <1>0, <1>7 DEF SaveCommit, Goto
  <2>2. r \in CommitRecord
    BY <1>7 DEF TypeOK, SaveCommit, CommitRecord, AllCommands
  <2>3. /\ dag'[Len(dag) + 1] = r /\ \A c \in Commit : dag'[c] = dag[c]
        /\ Commit' = Commit \cup {Len(dag) + 1} /\ Len(dag) + 1 \notin Commit
    BY <1>0, <2>1, <2>2, DagGrows
  <2>4. None \notin Commit' /\ Torn \notin Commit'
    BY NextCommitsAreNat
  <2>5. Roots' = Roots
    BY <2>1, <2>3, <2>4 DEF TypeOK, Roots, HeadSet, SnapSet
  <2>6. RootsStored'
    BY <1>0, <2>1, <2>3, <2>5, RootsStay
  <2>7. r.tree \in trees /\ ChunksOf(r.tree) \subseteq chunks
    BY <1>0, <2>1 DEF WriterInv
  <2>8. Stored(lcommit[p])'
    BY <2>1, <2>3, <2>7 DEF Stored
  <2>9. WriterInv(p)' /\ GcInv(p)'
    BY <2>1, <2>8 DEF WriterInv, GcInv
  <2> QED
    BY <2>6, <2>9, <1>s
<1>8. CASE SetHead(p)
  <2>1. /\ UNCHANGED <<heads, snaps, dag, commits, trees, chunks, lcommit>>
        /\ head' = Torn
        /\ pc[p] = "sethead" /\ pc'[p] = "writehead"
    BY <1>0, <1>8 DEF SetHead, Goto, ghosts, locals
  <2>2. Roots' \subseteq Roots
    <3>1. Torn \notin Commit'
      BY NextCommitsAreNat
    <3> QED
      BY <2>1, <3>1 DEF Roots, HeadSet, SnapSet
  <2>3. RootsStored'
    BY <1>0, <2>1, <2>2, RootsStay
  <2>4. WriterInv(p)' /\ GcInv(p)'
    BY <1>0, <2>1 DEF WriterInv, GcInv, Stored
  <2> QED
    BY <2>3, <2>4, <1>s
<1>9. CASE WriteHead(p)
  <2>1. /\ UNCHANGED <<heads, snaps, dag, commits, trees, chunks>>
        /\ head' = lcommit[p] /\ pc[p] = "writehead"
    BY <1>9 DEF WriteHead
  <2>2. Stored(lcommit[p])
    BY <1>0, <2>1 DEF WriterInv
  <2>3. Roots' \subseteq Roots \cup {lcommit[p]}
    BY <2>1 DEF Roots, HeadSet, SnapSet
  <2>4. RootsStored'
    BY <1>0, <2>1, <2>2, <2>3 DEF RootsStored, Stored
  <2>5. CASE cmd[p] = "add"
    BY <1>9, <2>4, <2>5, <1>s, StopInv DEF WriteHead
  <2>6. CASE cmd[p] \in {"snapshot", "sync"}
    <3>1. pc'[p] \in {"loadregister", "readheads"} /\ lcommit' = lcommit
      BY <1>0, <1>9, <2>6 DEF WriteHead, Goto, locals
    <3>2. WriterInv(p)' /\ GcInv(p)'
      BY <2>1, <2>2, <3>1 DEF WriterInv, GcInv, Stored
    <3> QED
      BY <2>4, <3>2, <1>s
  <2>7. CASE cmd[p] \notin {"add", "snapshot", "sync"}
    <3>1. pc'[p] = "setheads" /\ lheads'[p] = {lcommit[p]}
      BY <1>0, <1>9, <2>7 DEF WriteHead, Goto, TypeOK
    <3>2. WriterInv(p)' /\ GcInv(p)'
      BY <2>1, <2>2, <3>1 DEF WriterInv, GcInv, Stored
    <3> QED
      BY <2>4, <3>2, <1>s
  <2> QED
    BY <2>5, <2>6, <2>7
<1> QED
  BY <1>1, <1>2, <1>3, <1>4, <1>5, <1>6, <1>7, <1>8, <1>9 DEF AddSteps

LEMMA HeadSecures ==
  ASSUME TypeOK, TypeOK', RootsStored, NEW p \in Procs, WriterInv(p), HeadSteps(p),
         \A r \in commits : ~MergeHead(p, r, "mergeany")
  PROVE  Secured(p)'
<1>0. /\ RootsStored /\ WriterInv(p) /\ Roots \subseteq Commit
      /\ pc \in [Procs -> PCs] /\ ltree \in [Procs -> Tree]
      /\ DOMAIN lcommit = Procs /\ DOMAIN lparents = Procs /\ DOMAIN lheads = Procs
      /\ dag \in Seq(CommitRecord) /\ snaps \in Seq(Nat)
      /\ lcommit \in [Procs -> Nat \cup {None}]
      /\ lsnaps \in [Procs -> Seq(Nat)]
  BY RootsType DEF TypeOK
<1>s. ASSUME RootsStored', WriterInv(p)', GcInv(p)' PROVE Secured(p)'
  BY <1>s DEF Secured
<1>1. CASE Snapshot(p)
  <2>1. UNCHANGED disk /\ UNCHANGED dag
    BY <1>1 DEF Snapshot, ghosts
  <2>2. RootsStored'
    BY <1>0, <2>1, SameRoots, RootsStay DEF disk
  <2>3. /\ pc'[p] = IF head = None THEN "savetree" ELSE "savecommit"
        /\ ltree'[p] = HeadTree
        /\ head = None \/ head \in commits
    BY <1>0, <1>1 DEF Snapshot, Start, Goto
  <2>4. CASE head = None
    <3>1. HeadTree = EmptyTree /\ pc'[p] = "savetree"
      BY <2>3, <2>4 DEF HeadTree
    <3> QED
      BY <2>2, <2>3, <3>1, <1>s, EmptyTreeType DEF WriterInv, GcInv
  <2>5. CASE head # None
    <3>1. head \in Roots
      BY <2>3, <2>5 DEF Roots, HeadSet, TypeOK
    <3>2. HeadTree \in trees /\ ChunksOf(HeadTree) \subseteq chunks
      BY <1>0, <2>5, <3>1 DEF RootsStored, Stored, HeadTree
    <3>3. WriterInv(p)' /\ GcInv(p)'
      BY <2>1, <2>3, <2>5, <3>2 DEF WriterInv, GcInv, disk
    <3> QED
      BY <2>2, <3>3, <1>s
  <2> QED
    BY <2>4, <2>5
<1>2. CASE RegisterSnapshot(p)
  <2>1. /\ UNCHANGED <<head, heads, dag, commits, trees, chunks>>
        /\ snaps' = Append(Without(lsnaps[p], lcommit[p]), lcommit[p])
        /\ pc[p] = "register" /\ pc'[p] = "loadretention"
    BY <1>0, <1>2 DEF RegisterSnapshot, Goto, ghosts
  <2>2. Stored(lcommit[p]) /\ \A i \in DOMAIN lsnaps[p] : Stored(lsnaps[p][i])
    BY <1>0, <2>1 DEF WriterInv
  <2>3. \A c \in SnapSet' : Stored(c)
    <3>1. lcommit[p] \in Nat
      BY <1>0, <2>1, VaultAssumption DEF TypeOK
    <3> DEFINE l == lsnaps[p]
               s == Without(l, lcommit[p])
    <3>2. s \in Seq(Nat) /\ \A i \in DOMAIN s : Stored(s[i])
      <4>1. l \in Seq(Nat) /\ \A i \in DOMAIN l : Stored(l[i])
        BY <1>0, <2>2
      <4> HIDE DEF l
      <4> QED
        BY <3>1, <4>1, RegistryType
    <3>3. snaps' = Append(s, lcommit[p])
      BY <2>1
    <3> HIDE DEF s
    <3>4. \A i \in DOMAIN snaps' : Stored(snaps'[i])
      BY <2>2, <3>1, <3>2, <3>3
    <3> QED
      BY <3>4 DEF SnapSet
  <2>4. Roots' \subseteq Roots \cup SnapSet'
    BY <2>1 DEF Roots, HeadSet, Commit
  <2>5. RootsStored'
    BY <1>0, <2>1, <2>3, <2>4 DEF RootsStored, Stored
  <2> QED
    BY <2>1, <2>5, <1>s, IdleInv
<1>3. CASE ApplyRetention(p)
  <2>1. /\ UNCHANGED <<head, heads, dag, commits, trees, chunks>>
        /\ snaps' \in {snaps, Pruned(lsnaps[p])} /\ pc[p] = "retention"
    BY <1>3 DEF ApplyRetention, ghosts
  <2>2. \A c \in SnapSet' : Stored(c)
    <3>1. \A i \in DOMAIN lsnaps[p] : Stored(lsnaps[p][i])
      BY <1>0, <2>1 DEF WriterInv
    <3>2. \A i \in DOMAIN Pruned(lsnaps[p]) : Stored(Pruned(lsnaps[p])[i])
      BY <1>0, <3>1, RegistryType
    <3>3. \A i \in DOMAIN snaps : Stored(snaps[i])
      BY <1>0 DEF RootsStored, Roots, SnapSet
    <3> QED
      BY <2>1, <3>2, <3>3 DEF SnapSet
  <2>3. Roots' \subseteq Roots \cup SnapSet'
    BY <2>1 DEF Roots, HeadSet, Commit
  <2>4. RootsStored'
    BY <1>0, <2>1, <2>2, <2>3 DEF RootsStored, Stored
  <2>5. WriterInv(p)' /\ GcInv(p)'
    BY <1>0, <1>3, StopInv, IdleInv DEF ApplyRetention, Goto
  <2> QED
    BY <2>4, <2>5, <1>s
<1>4. ASSUME NEW r \in commits, NEW command \in {"merge", "mergeany"},
             MergeHead(p, r, command)
      PROVE  Secured(p)'
  <2>1. UNCHANGED disk /\ UNCHANGED dag
    BY <1>4 DEF MergeHead, ghosts
  <2>2. RootsStored'
    BY <1>0, <2>1, SameRoots, RootsStay DEF disk
  <2>3. /\ pc'[p] = "savetree" /\ ltree'[p] = MergedTree(r)
        /\ HeadLoads /\ IsComplete(r)
    BY <1>0, <1>4 DEF MergeHead, Start, Goto
  <2>4. HeadTree \in Tree /\ dag[r].tree \in Tree
    BY <1>0, <2>3, HeadTreeType, TypeParts, CommitType DEF TypeOK
  <2>5. ChunksOf(HeadTree) \subseteq chunks
    <3>1. CASE head = None
      BY <3>1, EmptyTreeType DEF HeadTree
    <3>2. CASE head # None
      <4>1. head \in Roots
        BY <2>3, <3>2 DEF HeadLoads, Roots, HeadSet, TypeOK
      <4> QED
        BY <1>0, <3>2, <4>1 DEF HeadTree, RootsStored, Stored
    <3> QED
      BY <3>1, <3>2
  <2>6. ChunksOf(dag[r].tree) \subseteq chunks
    BY <2>3 DEF IsComplete
  <2>7. ChunksOf(MergedTree(r)) \subseteq ChunksOf(HeadTree) \cup ChunksOf(dag[r].tree)
    BY <2>4, MergeAssumption DEF MergedTree
  <2>8. WriterInv(p)' /\ GcInv(p)'
    BY <2>1, <2>3, <2>5, <2>6, <2>7 DEF WriterInv, GcInv, disk
  <2> QED
    BY <2>2, <2>8, <1>s
<1>5. ASSUME NEW r \in commits, SetHeadPublic(p, r)
      PROVE  Secured(p)'
  <2>1. UNCHANGED disk /\ UNCHANGED dag
    BY <1>5 DEF SetHeadPublic, ghosts
  <2>2. RootsStored'
    BY <1>0, <2>1, SameRoots, RootsStay DEF disk
  <2>3. pc'[p] = "sethead" /\ lcommit'[p] = r /\ IsComplete(r)
    BY <1>0, <1>5 DEF SetHeadPublic, Start, Goto
  <2>4. WriterInv(p)' /\ GcInv(p)'
    BY <2>1, <2>3 DEF WriterInv, GcInv, Stored, IsComplete, Readable, disk
  <2> QED
    BY <2>2, <2>4, <1>s
<1>6. CASE ReadHeads(p)
  <2>1. UNCHANGED disk /\ UNCHANGED dag /\ pc[p] = "readheads"
    BY <1>6 DEF ReadHeads, ghosts
  <2>2. RootsStored'
    BY <1>0, <2>1, SameRoots, RootsStay DEF disk
  <2>3. ASSUME ~Stop(p) PROVE WriterInv(p)' /\ GcInv(p)'
    <3>1. /\ pc'[p] = "setheads"
          /\ lheads'[p] = heads \cup HeadSet \cup {lcommit[p]}
      BY <1>0, <1>6, <2>3 DEF ReadHeads, Goto
    <3>2. Stored(lcommit[p])
      BY <1>0, <2>1 DEF WriterInv
    <3>3. \A c \in lheads'[p] : Stored(c)
      BY <1>0, <3>1, <3>2 DEF RootsStored, Roots
    <3> QED
      BY <2>1, <3>1, <3>3 DEF WriterInv, GcInv, Stored, disk
  <2> QED
    BY <2>2, <2>3, <1>s, StopInv
<1>7. CASE SetHeads(p)
  <2>1. /\ UNCHANGED <<head, snaps, dag, commits, trees, chunks, lheads>>
        /\ heads' = {} /\ pc[p] = "setheads" /\ pc'[p] = "writeheads"
    BY <1>0, <1>7 DEF SetHeads, Goto, locals, ghosts
  <2>2. Roots' \subseteq Roots
    BY <2>1 DEF Roots, HeadSet, SnapSet, Commit
  <2>3. RootsStored'
    BY <1>0, <2>1, <2>2, RootsStay
  <2>4. WriterInv(p)' /\ GcInv(p)'
    BY <1>0, <2>1 DEF WriterInv, GcInv, Stored
  <2> QED
    BY <2>3, <2>4, <1>s
<1>8. CASE WriteHeads(p)
  <2>1. /\ UNCHANGED <<head, snaps, dag, commits, trees, chunks>>
        /\ heads' = lheads[p] /\ pc[p] = "writeheads" /\ Stop(p)
    BY <1>8 DEF WriteHeads, ghosts
  <2>2. \A c \in lheads[p] : Stored(c)
    BY <1>0, <2>1 DEF WriterInv
  <2>3. Roots' \subseteq Roots \cup lheads[p]
    BY <2>1 DEF Roots, HeadSet, SnapSet, Commit
  <2>4. RootsStored'
    BY <1>0, <2>1, <2>2, <2>3 DEF RootsStored, Stored
  <2> QED
    BY <2>1, <2>4, <1>s, StopInv
<1>9. CASE LoadSnapshots(p)
  <2>1. UNCHANGED disk /\ UNCHANGED dag /\ lcommit' = lcommit
    BY <1>9 DEF LoadSnapshots, ghosts
  <2>2. RootsStored'
    BY <1>0, <2>1, SameRoots, RootsStay DEF disk
  <2>3. /\ pc'[p] \in {"register", "retention"}
        /\ pc'[p] = "register" => pc[p] = "loadregister"
        /\ lsnaps'[p] = snaps
    BY <1>0, <1>9 DEF LoadSnapshots, Goto
  <2>4. \A i \in DOMAIN snaps : Stored(snaps[i])
    BY <1>0 DEF RootsStored, Roots, SnapSet
  <2>5. WriterInv(p)' /\ GcInv(p)'
    BY <1>0, <2>1, <2>3, <2>4 DEF WriterInv, GcInv, Stored, disk
  <2> QED
    BY <2>2, <2>5, <1>s
<1> QED
  BY <1>1, <1>2, <1>3, <1>4, <1>5, <1>6, <1>7, <1>8, <1>9 DEF HeadSteps

\* While the files are those that were marked, the mark is the same.
LEMMA MarkSame ==
  ASSUME UNCHANGED <<head, heads, snaps, commits, dag>>
  PROVE  Marked(Roots)' = Marked(Roots)
BY DEF Marked, Reached, Closed, Roots, HeadSet, SnapSet, Commit

LEMMA GcSafe ==
  ASSUME Disciplined, TypeOK, TypeOK', SafeInv, Intact, NEW p \in Procs, GcSteps(p)
  PROVE  SafeInv'
<1>0. /\ RootsStored /\ WriterInv(p) /\ GcInv(p) /\ Serial /\ Roots \subseteq Commit
      /\ pc \in [Procs -> PCs] /\ live \in [Procs -> SUBSET Nat]
      /\ DOMAIN todo = Procs
  BY RootsType DEF SafeInv, TypeOK
<1>s. ASSUME RootsStored', WriterInv(p)', GcInv(p)' PROVE SafeInv'
  BY <1>s, OneProcess DEF Steps
<1>1. CASE Gc(p)
  <2>1. UNCHANGED disk /\ UNCHANGED dag /\ pc'[p] = "loadretention"
    BY <1>0, <1>1 DEF Gc, Start, Goto, ghosts
  <2>2. RootsStored'
    BY <1>0, <2>1, SameRoots, RootsStay DEF disk
  <2> QED
    BY <2>1, <2>2, <1>s, IdleInv
<1>2. CASE MarkChunks(p)
  <2>1. UNCHANGED disk /\ UNCHANGED dag /\ pc[p] = "markchunks"
    BY <1>2 DEF MarkChunks, ghosts
  <2>2. RootsStored'
    BY <1>0, <2>1, SameRoots, RootsStay DEF disk
  <2>3. ASSUME ~Stop(p) PROVE WriterInv(p)' /\ GcInv(p)'
    <3>1. MarkRoots = Roots
      BY <1>0, <2>1, GcSeesHead
    <3>2. /\ pc'[p] = "sweepchunks"
          /\ todo'[p] = chunks \ LiveChunks(Marked(Roots))
      BY <1>0, <1>2, <2>3, <3>1 DEF MarkChunks, Goto
    <3>3. \A c \in Marked(Roots) :
             dag[c].tree \in trees => ChunksOf(dag[c].tree) \cap todo'[p] = {}
      BY <3>2 DEF LiveChunks
    <3>4. Marked(Roots)' = Marked(Roots)
      BY <2>1, MarkSame DEF disk
    <3> QED
      BY <2>1, <3>2, <3>3, <3>4 DEF WriterInv, GcInv, disk
  <2> QED
    BY <2>2, <2>3, <1>s, StopInv
<1>3. ASSUME NEW k \in todo[p], SweepChunk(p, k)
      PROVE  SafeInv'
  <2>1. /\ UNCHANGED <<head, heads, snaps, commits, trees, dag>>
        /\ chunks' = chunks \ {k}
        /\ pc[p] = "sweepchunks" /\ pc'[p] = "sweepchunks"
        /\ todo'[p] \subseteq todo[p]
    BY <1>0, <1>3 DEF SweepChunk, ghosts
  <2>2. \A c \in Marked(Roots) :
           dag[c].tree \in trees => ChunksOf(dag[c].tree) \cap todo[p] = {}
    BY <1>0, <2>1 DEF GcInv
  <2>3. \A r \in Roots : r \in Marked(Roots)
    BY <1>0, MarkCovers DEF Covers, RootsStored, Stored
  <2>4. RootsStored'
    BY <1>0, <1>3, <2>1, <2>2, <2>3, SameRoots DEF RootsStored, Stored
  <2>5. Marked(Roots)' = Marked(Roots)
    BY <2>1, MarkSame
  <2>6. WriterInv(p)' /\ GcInv(p)'
    BY <2>1, <2>2, <2>5 DEF WriterInv, GcInv
  <2> QED
    BY <2>4, <2>6, <1>s
<1>4. CASE MarkObjects(p)
  <2>1. UNCHANGED disk /\ UNCHANGED dag /\ pc[p] = "sweepchunks"
    BY <1>4 DEF MarkObjects, ghosts
  <2>2. RootsStored'
    BY <1>0, <2>1, SameRoots, RootsStay DEF disk
  <2>3. /\ pc'[p] = "sweepcommits"
        /\ live'[p] = Marked(Roots)
        /\ todo'[p] = commits \ Marked(Roots)
    BY <1>0, <1>4, <2>1, GcSeesHead DEF MarkObjects, Goto
  <2>4. Covers(live'[p])
    BY <2>3, MarkCovers
  <2>5. Covers(live[p])'
    BY <2>1, <2>4, SameRoots DEF Covers, disk
  <2>6. WriterInv(p)' /\ GcInv(p)'
    BY <2>3, <2>5 DEF WriterInv, GcInv
  <2> QED
    BY <2>2, <2>6, <1>s
<1>5. ASSUME NEW c \in todo[p], SweepCommit(p, c)
      PROVE  SafeInv'
  <2>1. /\ UNCHANGED <<head, heads, snaps, trees, chunks, dag>>
        /\ pc[p] = "sweepcommits"
        /\ commits' \in {commits, commits \ {c}}
    BY <1>5 DEF SweepCommit, ghosts
  <2>2. Covers(live[p]) /\ c \notin live[p] /\ todo[p] \cap live[p] = {}
    BY <1>0, <1>5, <2>1 DEF GcInv
  <2>3. RootsStored'
    BY <1>0, <2>1, <2>2, SameRoots DEF RootsStored, Stored, Covers
  <2>4. ASSUME ~Stop(p) PROVE WriterInv(p)' /\ GcInv(p)'
    <3>1. /\ pc'[p] = "sweepcommits" /\ live'[p] = live[p]
          /\ todo'[p] = todo[p] \ {c} /\ commits' = commits \ {c}
      BY <1>0, <1>5, <2>1, <2>4 DEF SweepCommit
    <3>2. Covers(live[p])'
      BY <2>1, <2>2, <3>1, SameRoots DEF Covers
    <3> QED
      BY <2>2, <3>1, <3>2 DEF WriterInv, GcInv
  <2> QED
    BY <2>3, <2>4, <1>s, StopInv
<1>6. CASE ListTrees(p)
  <2>1. UNCHANGED disk /\ UNCHANGED dag /\ pc[p] = "sweepcommits"
    BY <1>6 DEF ListTrees, ghosts
  <2>2. RootsStored'
    BY <1>0, <2>1, SameRoots, RootsStay DEF disk
  <2>3. /\ pc'[p] = "sweeptrees" /\ live'[p] = live[p]
        /\ todo'[p] = trees \ {dag[c].tree : c \in live[p]}
    BY <1>0, <1>6 DEF ListTrees, Goto
  <2>4. Covers(live[p])
    BY <1>0, <2>1 DEF GcInv
  <2>5. Covers(live[p])'
    BY <2>1, <2>3, <2>4, SameRoots DEF Covers, disk
  <2>6. WriterInv(p)' /\ GcInv(p)'
    BY <2>1, <2>3, <2>5 DEF WriterInv, GcInv
  <2> QED
    BY <2>2, <2>6, <1>s
<1>7. ASSUME NEW t \in todo[p], SweepTree(p, t)
      PROVE  SafeInv'
  <2>1. /\ UNCHANGED <<head, heads, snaps, commits, chunks, dag>>
        /\ pc[p] = "sweeptrees"
        /\ trees' \in {trees, trees \ {t}}
    BY <1>7 DEF SweepTree, ghosts
  <2>2. Covers(live[p]) /\ \A c \in live[p] : dag[c].tree \notin todo[p]
    BY <1>0, <2>1 DEF GcInv
  <2>3. RootsStored'
    BY <1>0, <1>7, <2>1, <2>2, SameRoots DEF RootsStored, Stored, Covers
  <2>4. ASSUME ~Stop(p) PROVE WriterInv(p)' /\ GcInv(p)'
    <3>1. pc'[p] = "sweeptrees" /\ live'[p] = live[p] /\ todo'[p] \subseteq todo[p]
      BY <1>0, <1>7, <2>1, <2>4 DEF SweepTree
    <3>2. Covers(live[p])'
      BY <2>1, <2>2, <3>1, SameRoots DEF Covers
    <3> QED
      BY <2>1, <2>2, <3>1, <3>2 DEF WriterInv, GcInv
  <2> QED
    BY <2>3, <2>4, <1>s, StopInv
<1>8. CASE EndGc(p)
  <2>1. UNCHANGED disk /\ UNCHANGED dag
    BY <1>8 DEF EndGc, ghosts
  <2>2. RootsStored'
    BY <1>0, <2>1, SameRoots, RootsStay DEF disk
  <2> QED
    BY <1>8, <2>2, <1>s, StopInv DEF EndGc
<1> QED
  BY <1>1, <1>2, <1>3, <1>4, <1>5, <1>6, <1>7, <1>8 DEF GcSteps

LEMMA PeerSafe ==
  ASSUME Disciplined, TypeOK, TypeOK', SafeInv, PeerSteps
  PROVE  SafeInv'
<1>0. /\ RootsStored /\ Serial /\ Roots \subseteq Commit
      /\ \A p \in Procs : WriterInv(p) /\ GcInv(p)
      /\ dag \in Seq(CommitRecord)
  BY RootsType DEF SafeInv, TypeOK
<1>1. ASSUME NEW t \in PeerTrees, NEW ps \in {{}} \cup {{c} : c \in Known},
             Publish(t, ps)
      PROVE  SafeInv'
  <2> DEFINE r == [tree |-> t, parents |-> ps, by |-> "peer", files |-> EmptyTree]
  <2>1. /\ UNCHANGED <<head, heads, snaps, commits, trees, chunks, pc, files, ltree,
                       lcommit, lheads, lsnaps, live, todo>>
        /\ dag' = Append(dag, r)
    BY <1>1 DEF Publish, disk, locals
  <2>2. r \in CommitRecord
    <3>1. ps \subseteq Nat
      BY <1>0, CommitsAreNat DEF Known, TypeOK
    <3> QED
      BY <3>1, VaultAssumption, EmptyTreeType DEF CommitRecord
  <2>3. /\ \A c \in Commit : dag'[c] = dag[c]
        /\ Commit' = Commit \cup {Len(dag) + 1}
    BY <1>0, <2>1, <2>2, DagGrows
  <2>4. Roots' = Roots
    <3>1. None \notin Commit' /\ Torn \notin Commit'
      BY NextCommitsAreNat
    <3> QED
      BY <2>1, <2>3, <3>1 DEF TypeOK, Roots, HeadSet, SnapSet
  <2>5. RootsStored'
    BY <1>0, <2>1, <2>3, <2>4, RootsStay
  <2>6. Serial'
    BY <1>0, <2>1 DEF Serial
  <2>7. ASSUME NEW p \in Procs PROVE WriterInv(p)'
    <3>1. lheads[p] \subseteq Commit /\ (lcommit[p] # None => lcommit[p] \in Commit)
      BY DEF TypeOK
    <3>2. \A c \in Commit : Stored(c) => Stored(c)'
      BY <2>1, <2>3 DEF Stored
    <3>3. pc[p] \in {"sethead", "writehead", "readheads", "loadregister", "register"} =>
            Stored(lcommit[p])'
      BY <1>0, <2>1, <3>1, <3>2 DEF WriterInv, TypeOK, Stored
    <3>4. pc[p] \in {"setheads", "writeheads"} => \A c \in lheads[p] : Stored(c)'
      BY <1>0, <3>1, <3>2 DEF WriterInv
    <3>5. \A i \in DOMAIN lsnaps[p] : lsnaps[p][i] \in Commit
      BY DEF TypeOK
    <3>6. ASSUME pc[p] \in {"register", "retention"}, NEW i \in DOMAIN lsnaps[p]
          PROVE  Stored(lsnaps[p][i])'
      <4>1. PICK c \in Commit : c = lsnaps[p][i] /\ Stored(c)
        BY <1>0, <3>5, <3>6 DEF WriterInv
      <4>2. Stored(c)'
        BY <3>2, <4>1
      <4>3. c = lsnaps'[p][i]
        BY <2>1, <4>1
      <4> QED
        BY <4>2, <4>3
    <3>7. (pc[p] \in {"register", "retention"} =>
             \A i \in DOMAIN lsnaps[p] : Stored(lsnaps[p][i]))'
      BY <2>1, <3>6
    <3>8. (/\ pc[p] = "store" => ChunksOf(files[p]) \subseteq chunks \cup todo[p]
           /\ pc[p] = "headtree" => ChunksOf(files[p]) \subseteq chunks
           /\ pc[p] \in {"savetree", "writetree", "parents", "savecommit"} =>
                 ChunksOf(ltree[p]) \subseteq chunks
           /\ pc[p] \in {"writetree", "parents", "savecommit"} => ltree[p] \in trees
           /\ pc[p] \in {"sethead", "writehead", "readheads", "loadregister", "register"} =>
                 Stored(lcommit[p])
           /\ pc[p] \in {"setheads", "writeheads"} => \A c \in lheads[p] : Stored(c))'
      BY <1>0, <2>1, <3>3, <3>4 DEF WriterInv
    <3> QED
      BY <3>7, <3>8 DEF WriterInv
  <2>8. ASSUME NEW p \in Procs PROVE GcInv(p)'
    <3>1. Marked(Roots)' \subseteq Marked(Roots)
      BY <2>1, <2>3, <2>4, MarkOld
    <3>2. \A c \in Marked(Roots) \cup live[p] : dag'[c] = dag[c]
      BY <2>3 DEF Marked, Reached, TypeOK
    <3>3. Covers(live[p]) => Covers(live[p])'
      BY <2>1, <2>4, <3>2 DEF Covers
    <3> QED
      BY <1>0, <2>1, <3>1, <3>2, <3>3 DEF GcInv
  <2> QED
    BY <2>5, <2>6, <2>7, <2>8 DEF SafeInv
<1>2. CASE /\ AllIdle
           /\ UNCHANGED <<head, heads, snaps, pc, dag>>
           /\ commits \subseteq commits' /\ trees \subseteq trees' /\ chunks \subseteq chunks'
  <2>1. RootsStored'
    BY <1>0, <1>2, SameRoots, RootsStay
  <2>2. \A p \in Procs : pc'[p] = "idle"
    BY <1>2 DEF AllIdle
  <2>3. Serial' /\ \A p \in Procs : WriterInv(p)' /\ GcInv(p)'
    BY <2>2, IdleInv DEF Serial
  <2> QED
    BY <2>1, <2>3 DEF SafeInv
<1>3. ASSUME NEW c \in Commit, ImportCommit(c) PROVE SafeInv'
  BY <1>2, <1>3 DEF ImportCommit, MayImport, Disciplined, ghosts
<1>4. ASSUME NEW c \in commits, ImportTree(c) PROVE SafeInv'
  BY <1>2, <1>4 DEF ImportTree, MayImport, Disciplined, ghosts
<1>5. ASSUME NEW c \in commits, NEW k \in Chunks, ImportStoredChunk(c, k) PROVE SafeInv'
  BY <1>2, <1>5 DEF ImportStoredChunk, MayImport, Disciplined, ghosts
<1> QED
  BY <1>1, <1>3, <1>4, <1>5 DEF PeerSteps

LEMMA SafeInit == Init => SafeInv
<1> SUFFICES ASSUME Init PROVE SafeInv
  OBVIOUS
<1>1. Roots = {}
  BY DEF Init, Roots, HeadSet, SnapSet, Commit
<1> QED
  BY <1>1 DEF Init, SafeInv, Serial, RootsStored, WriterInv, GcInv

LEMMA SafeStep ==
  ASSUME Disciplined, TypeOK, TypeOK', Intact, SafeInv, [Next]_vars
  PROVE  SafeInv'
<1>1. ASSUME NEW p \in Procs, Crash(p) PROVE SafeInv'
  <2>1. UNCHANGED disk /\ UNCHANGED dag /\ Stop(p)
    BY <1>1 DEF Crash, ghosts
  <2>2. RootsStored'
    BY <2>1, SameRoots, RootsStay DEF disk, SafeInv
  <2> QED
    BY <1>1, <2>1, <2>2, StopInv, OneProcess DEF Steps
<1>2. CASE UNCHANGED vars
  <2>1. UNCHANGED <<head, heads, snaps, commits, trees, chunks, dag, pc, files, ltree,
                    lcommit, lheads, lsnaps, live, todo>>
    BY <1>2 DEF vars, disk, locals, ghosts
  <2>2. Marked(Roots)' = Marked(Roots) /\ Roots' = Roots
    BY <2>1, MarkSame, SameRoots
  <2>3. \A p \in Procs : WriterInv(p)' /\ GcInv(p)'
    BY <2>1, <2>2 DEF SafeInv, WriterInv, GcInv, Stored, Covers
  <2> QED
    BY <2>1, <2>2, <2>3 DEF SafeInv, Serial, RootsStored, Stored
<1>3. ASSUME NEW p \in Procs, AddSteps(p) \/ HeadSteps(p) PROVE SafeInv'
  <2>1. \A r \in commits : ~MergeHead(p, r, "mergeany")
    BY DEF MergeHead, Start, Disciplined
  <2>2. Secured(p)'
    BY <1>3, <2>1, AddSecures, HeadSecures DEF SafeInv
  <2> QED
    BY <1>3, <2>2, OneProcess DEF Secured, Steps
<1> QED
  BY <1>1, <1>2, <1>3, GcSafe, PeerSafe DEF Next

-----------------------------------------------------------------------------
(* The theorems                                                            *)

\* What each command has secured by each of its steps.
THEOREM Safe ==
  ASSUME Disciplined
  PROVE  Spec => []SafeInv
<1>1. TypeOK /\ TypeOK' /\ Intact /\ SafeInv /\ [Next]_vars => SafeInv'
  BY SafeStep
<1>2. Crashes # "anywhere"
  BY DEF Disciplined
<1>3. Spec => []Intact
  BY <1>2, OnlyWritersTruncate
<1> QED
  BY <1>1, <1>3, SafeInit, TypeCorrect, PTL DEF Spec

\* HEAD, the tips and the snapshots can be restored whenever no command runs.
THEOREM RootsAreRestorable ==
  ASSUME Disciplined
  PROVE  Spec => []RootsRestorable
<1>1. Intact /\ SafeInv => RootsRestorable
  BY DEF Intact, SafeInv, RootsStored, RootsRestorable, AllIdle, IsComplete, Readable,
         Stored
<1>2. Crashes # "anywhere"
  BY DEF Disciplined
<1>3. Spec => []Intact
  BY <1>2, OnlyWritersTruncate
<1> QED
  BY <1>1, <1>3, Safe, PTL

\* No step deletes anything the roots reach.
LEMMA KeepStep ==
  ASSUME TypeOK, SafeInv, [Next]_vars, NEW c \in Marked(Roots)
  PROVE  /\ c \in commits'
         /\ dag[c].tree \in trees =>
              /\ dag[c].tree \in trees'
              /\ ChunksOf(dag[c].tree) \cap chunks \subseteq chunks'
<1>0. c \in commits
  BY DEF Marked
<1>1. CASE commits \subseteq commits' /\ trees \subseteq trees' /\ chunks \subseteq chunks'
  BY <1>0, <1>1
<1>2. ASSUME NEW p \in Procs, NEW k \in todo[p], SweepChunk(p, k)
      PROVE  /\ UNCHANGED <<commits, trees>> /\ chunks' = chunks \ {k}
             /\ dag[c].tree \in trees => k \notin ChunksOf(dag[c].tree)
  BY <1>2 DEF SweepChunk, SafeInv, GcInv
<1>3. ASSUME NEW p \in Procs, NEW d \in todo[p], SweepCommit(p, d)
      PROVE  UNCHANGED <<trees, chunks>> /\ commits' \in {commits, commits \ {d}} /\ c # d
  <2>1. Covers(live[p]) /\ d \notin live[p]
    BY <1>3 DEF SweepCommit, SafeInv, GcInv
  <2> QED
    BY <1>3, <2>1, CoversMark DEF SweepCommit
<1>4. ASSUME NEW p \in Procs, NEW t \in todo[p], SweepTree(p, t)
      PROVE  UNCHANGED <<commits, chunks>> /\ trees' \in {trees, trees \ {t}} /\ dag[c].tree # t
  <2>1. Covers(live[p]) /\ \A d \in live[p] : dag[d].tree # t
    BY <1>4 DEF SweepTree, SafeInv, GcInv
  <2> QED
    BY <1>4, <2>1, CoversMark DEF SweepTree
<1>5. ASSUME NEW p \in Procs, AddSteps(p)
      PROVE  commits \subseteq commits' /\ trees \subseteq trees' /\ chunks \subseteq chunks'
  BY <1>5
  DEF AddSteps, AddPath, StoreChunk, ReadHeadTree, SaveTree, WriteTree, ReadParents,
      SaveCommit, SetHead, WriteHead, disk
<1>6. ASSUME NEW p \in Procs, HeadSteps(p)
      PROVE  commits \subseteq commits' /\ trees \subseteq trees' /\ chunks \subseteq chunks'
  BY <1>6
  DEF HeadSteps, Snapshot, LoadSnapshots, RegisterSnapshot, ApplyRetention,
      MergeHead, SetHeadPublic, ReadHeads, SetHeads, WriteHeads, disk
<1>7. ASSUME NEW p \in Procs,
             Gc(p) \/ MarkChunks(p) \/ MarkObjects(p) \/ ListTrees(p) \/ EndGc(p) \/ Crash(p)
      PROVE  commits \subseteq commits' /\ trees \subseteq trees' /\ chunks \subseteq chunks'
  BY <1>7 DEF Gc, MarkChunks, MarkObjects, ListTrees, EndGc, Crash, disk
<1>8. CASE PeerSteps
  BY <1>1, <1>8 DEF PeerSteps, Publish, ImportCommit, ImportTree, ImportStoredChunk, disk
<1>9. CASE UNCHANGED vars
  BY <1>1, <1>9 DEF vars, disk
<1> QED
  BY <1>0, <1>1, <1>2, <1>3, <1>4, <1>5, <1>6, <1>7, <1>8, <1>9 DEF Next, GcSteps

\* gc deletes nothing that a root reaches.
THEOREM GcIsSafe ==
  ASSUME Disciplined
  PROVE  Spec => GcKeepsRoots
<1>1. TypeOK /\ SafeInv /\ [Next]_vars =>
        [\A c \in Marked(Roots) :
           /\ c \in commits'
           /\ dag[c].tree \in trees =>
                /\ dag[c].tree \in trees'
                /\ ChunksOf(dag[c].tree) \cap chunks \subseteq chunks']_vars
  BY KeepStep
<1> QED
  BY <1>1, Safe, TypeCorrect, PTL DEF Spec, GcKeepsRoots

-----------------------------------------------------------------------------
(***************************************************************************)
(* What becomes of the versions that commands have published, under the    *)
(* same discipline: each add builds on the HEAD it is parented to, and, as *)
(* long as nobody takes a peer's commit in place of HEAD (a plain          *)
(* `soal sync`), nothing published is ever lost.                           *)
(***************************************************************************)
(* The inductive invariants                                                *)

\* The tree and the parents a command has prepared belong to one HEAD, and it
\* is the present one.
BuildInv(p) ==
  /\ pc[p] \in {"store", "headtree", "parents"} => cmd[p] = "add"
  /\ pc[p] \in {"savetree", "writetree", "parents", "savecommit"} =>
       /\ cmd[p] # "sync"
       /\ cmd[p] = "add" => ltree[p] = NewTree(p)
       /\ cmd[p] # "add" => HeadSet \subseteq lparents[p]
  /\ pc[p] = "savecommit" /\ cmd[p] = "add" => lparents[p] = HeadSet
  /\ pc[p] \in {"sethead", "writehead"} /\ cmd[p] # "sync" =>
       LET c == dag[lcommit[p]] IN
         /\ c.by = cmd[p]
         /\ tip # None => tip \in c.parents
         /\ cmd[p] = "add" => c.parents = IF tip = None THEN {} ELSE {tip}

BuildsInv ==
  /\ head # Torn => head = tip
  /\ AddKeepsParentFiles
  /\ \A p \in Procs : BuildInv(p)

\* Everything published is on disk and is reached from the commit HEAD named
\* last, through commits that are on disk.
HistoryInv ==
  /\ acked # {} => tip \in Commit /\ acked \subseteq Marked({tip})
  /\ \A c \in acked : Stored(c)
  /\ \A p \in Procs : cmd[p] # "sync"

-----------------------------------------------------------------------------
(* Adds build on the HEAD they are parented to                             *)

LEMMA OneBuilds ==
  ASSUME Disciplined, TypeOK, SafeInv, NEW p \in Procs, Steps(p),
         head' # Torn => head' = tip', AddKeepsParentFiles', BuildInv(p)'
  PROVE  BuildsInv'
<1>1. \A q \in Procs \ {p} : pc'[q] = "idle"
  BY SerialStep DEF SafeInv, Disciplined
<1>2. \A q \in Procs \ {p} : BuildInv(q)'
  BY <1>1 DEF BuildInv
<1> QED
  BY <1>2 DEF BuildsInv

\* What the steps that mint no commit owe.
LEMMA SameCommits ==
  ASSUME BuildsInv, UNCHANGED dag
  PROVE  AddKeepsParentFiles'
BY DEF BuildsInv, AddKeepsParentFiles, Commit

\* A process elsewhere in its command has nothing in the making.
LEMMA NotBuilding ==
  ASSUME NEW p \in Procs,
         pc'[p] \notin {"store", "headtree", "parents", "savetree", "writetree",
                        "savecommit", "sethead", "writehead"}
  PROVE  BuildInv(p)'
BY DEF BuildInv

LEMMA StopNotBuilding ==
  ASSUME TypeOK, NEW p \in Procs, Stop(p)
  PROVE  BuildInv(p)'
BY NotBuilding DEF TypeOK, Stop, Goto

\* The tree of an add does not change while HEAD does not.
LEMMA SameNewTree ==
  ASSUME NEW p \in Procs, UNCHANGED <<head, dag>>, files'[p] = files[p]
  PROVE  NewTree(p)' = NewTree(p) /\ HeadSet' = HeadSet
BY DEF NewTree, HeadTree, HeadSet, Commit

LEMMA AddBuilds ==
  ASSUME Disciplined, TypeOK, TypeOK', SafeInv, Intact, BuildsInv,
         NEW p \in Procs, AddSteps(p)
  PROVE  BuildsInv'
<1>0. /\ BuildInv(p) /\ (head # Torn => head = tip) /\ AddKeepsParentFiles /\ Serial
      /\ pc \in [Procs -> PCs] /\ cmd \in [Procs -> AllCommands \cup {"none"}]
      /\ files \in [Procs -> Tree] /\ ltree \in [Procs -> Tree]
      /\ lparents \in [Procs -> SUBSET Nat] /\ DOMAIN lcommit = Procs
      /\ dag \in Seq(CommitRecord) /\ head \in Commit \cup {None, Torn}
      /\ \A c \in Commit : dag[c].parents \subseteq Commit
  BY DEF SafeInv, BuildsInv, TypeOK
<1>s. ASSUME head' # Torn => head' = tip', AddKeepsParentFiles', BuildInv(p)'
      PROVE  BuildsInv'
  BY <1>s, OneBuilds DEF Steps
<1>1. ASSUME NEW fs \in Inputs, AddPath(p, fs)
      PROVE  BuildsInv'
  <2>1. UNCHANGED <<head, dag, tip>> /\ pc'[p] = "store" /\ cmd'[p] = "add"
    BY <1>0, <1>1 DEF AddPath, Start, Goto, disk, ghosts
  <2>2. BuildInv(p)'
    BY <2>1 DEF BuildInv
  <2> QED
    BY <1>0, <2>1, <2>2, <1>s, SameCommits
<1>2. ASSUME NEW k \in todo[p], StoreChunk(p, k)
      PROVE  BuildsInv'
  <2>1. /\ UNCHANGED <<head, dag, tip, cmd>> /\ pc[p] = "store"
        /\ pc'[p] \in {"store", "headtree"}
    BY <1>0, <1>2 DEF StoreChunk, Goto, ghosts
  <2>2. BuildInv(p)'
    BY <1>0, <2>1 DEF BuildInv
  <2> QED
    BY <1>0, <2>1, <2>2, <1>s, SameCommits
<1>3. CASE ReadHeadTree(p)
  <2>1. UNCHANGED <<head, dag, tip>> /\ pc[p] = "headtree"
    BY <1>3 DEF ReadHeadTree, disk, ghosts
  <2>2. ASSUME ~Stop(p) PROVE BuildInv(p)'
    <3>1. /\ pc'[p] = "savetree" /\ cmd' = cmd /\ files' = files
          /\ ltree'[p] = NewTree(p)
      BY <1>0, <1>3, <2>2 DEF ReadHeadTree, Goto
    <3>2. cmd[p] = "add"
      BY <1>0, <2>1 DEF BuildInv
    <3> QED
      BY <2>1, <3>1, <3>2, SameNewTree DEF BuildInv
  <2> QED
    BY <1>0, <2>1, <2>2, <1>s, SameCommits, StopNotBuilding
<1>4. CASE SaveTree(p)
  <2>1. /\ UNCHANGED <<head, dag, tip, cmd, files, ltree, lparents>>
        /\ pc[p] = "savetree" /\ pc'[p] = "writetree"
    BY <1>0, <1>4 DEF SaveTree, Goto, ghosts, locals
  <2>2. BuildInv(p)'
    BY <1>0, <2>1, SameNewTree DEF BuildInv
  <2> QED
    BY <1>0, <2>1, <2>2, <1>s, SameCommits
<1>5. CASE WriteTree(p)
  <2>1. /\ UNCHANGED <<head, dag, tip, cmd, files, ltree, lparents>>
        /\ pc[p] = "writetree"
        /\ pc'[p] = IF cmd[p] = "add" THEN "parents" ELSE "savecommit"
    BY <1>0, <1>5 DEF WriteTree, Goto, ghosts, locals
  <2>2. BuildInv(p)'
    BY <1>0, <2>1, SameNewTree DEF BuildInv
  <2> QED
    BY <1>0, <2>1, <2>2, <1>s, SameCommits
<1>6. CASE ReadParents(p)
  <2>1. UNCHANGED <<head, dag, tip>> /\ pc[p] = "parents"
    BY <1>6 DEF ReadParents, disk, ghosts
  <2>2. ASSUME ~Stop(p) PROVE BuildInv(p)'
    <3>1. /\ pc'[p] = "savecommit" /\ UNCHANGED <<cmd, files, ltree>>
          /\ lparents'[p] = HeadSet
      BY <1>0, <1>6, <2>2 DEF ReadParents, Goto
    <3> QED
      BY <1>0, <2>1, <3>1, SameNewTree DEF BuildInv
  <2> QED
    BY <1>0, <2>1, <2>2, <1>s, SameCommits, StopNotBuilding
<1>7. CASE SaveCommit(p)
  <2> DEFINE n == Len(dag) + 1
             r == [tree |-> ltree[p], parents |-> lparents[p],
                   by |-> cmd[p], files |-> files[p]]
  <2>1. /\ UNCHANGED <<head, tip, cmd>>
        /\ dag' = Append(dag, r)
        /\ pc[p] = "savecommit" /\ pc'[p] = "sethead" /\ lcommit'[p] = n
    BY <1>0, <1>7 DEF SaveCommit, Goto
  <2>2. r \in CommitRecord
    BY <1>7 DEF TypeOK, SaveCommit, CommitRecord, AllCommands
  <2>3. /\ dag'[n] = r /\ \A c \in Commit : dag'[c] = dag[c]
        /\ Commit' = Commit \cup {n}
    BY <1>0, <2>1, <2>2, DagGrows
  <2>4. head # Torn /\ head = tip
    BY <1>0, <2>1 DEF Intact, Serial
  <2>5. /\ cmd[p] = "add" => ltree[p] = NewTree(p) /\ lparents[p] = HeadSet
        /\ cmd[p] # "add" => HeadSet \subseteq lparents[p]
    BY <1>0, <2>1 DEF BuildInv
  <2>6. HeadSet = IF tip = None THEN {} ELSE {tip}
    BY <1>0, <2>4, CommitsAreNat DEF HeadSet
  <2>7. BuildInv(p)'
    BY <2>1, <2>3, <2>5, <2>6 DEF BuildInv
  <2>8. cmd[p] = "add" =>
          /\ lparents[p] = {} => ltree[p] = Overlay(EmptyTree, files[p])
          /\ \A q \in lparents[p] : q \in Commit /\ ltree[p] = Overlay(dag[q].tree, files[p])
    BY <1>0, <2>4, <2>5, <2>6 DEF NewTree, HeadTree
  <2>9. AddKeepsParentFiles'
    <3> SUFFICES ASSUME NEW c \in Commit', dag'[c].by = "add"
                 PROVE  /\ dag'[c].parents = {} =>
                             dag'[c].tree = Overlay(EmptyTree, dag'[c].files)
                        /\ \A q \in dag'[c].parents :
                             dag'[c].tree = Overlay(dag'[q].tree, dag'[c].files)
      BY DEF AddKeepsParentFiles
    <3>1. CASE c \in Commit
      BY <1>0, <2>3, <3>1 DEF AddKeepsParentFiles
    <3>2. CASE c = n
      <4>1. /\ dag'[c].tree = ltree[p] /\ dag'[c].parents = lparents[p]
            /\ dag'[c].by = cmd[p] /\ dag'[c].files = files[p]
        BY <2>3, <3>2
      <4>2. cmd[p] = "add"
        BY <4>1
      <4>3. \A q \in lparents[p] : dag'[q] = dag[q]
        BY <2>3, <2>8, <4>2
      <4> HIDE DEF r, n
      <4> QED
        BY <2>8, <4>1, <4>2, <4>3
    <3> QED
      BY <2>3, <3>1, <3>2
  <2> QED
    BY <2>1, <2>4, <2>7, <2>9, <1>s
<1>8. CASE SetHead(p)
  <2>1. /\ UNCHANGED <<dag, tip, cmd, lcommit>> /\ head' = Torn
        /\ pc[p] = "sethead" /\ pc'[p] = "writehead"
    BY <1>0, <1>8 DEF SetHead, Goto, ghosts, locals
  <2>2. BuildInv(p)'
    BY <1>0, <2>1 DEF BuildInv
  <2> QED
    BY <2>1, <2>2, <1>s, SameCommits
<1>9. CASE WriteHead(p)
  <2>1. head' = tip' /\ UNCHANGED dag
    BY <1>9 DEF WriteHead
  <2>2. ASSUME ~Stop(p) PROVE pc'[p] \in {"loadregister", "readheads", "setheads"}
    BY <1>0, <1>9, <2>2 DEF WriteHead, Goto
  <2>3. BuildInv(p)'
    BY <2>2, NotBuilding, StopNotBuilding
  <2> QED
    BY <2>1, <2>3, <1>s, SameCommits
<1> QED
  BY <1>1, <1>2, <1>3, <1>4, <1>5, <1>6, <1>7, <1>8, <1>9 DEF AddSteps

LEMMA OtherBuilds ==
  ASSUME Disciplined, TypeOK, TypeOK', SafeInv, Intact, BuildsInv,
         NEW p \in Procs, HeadSteps(p) \/ GcSteps(p) \/ Crash(p)
  PROVE  BuildsInv'
<1>0. /\ pc \in [Procs -> PCs] /\ cmd \in [Procs -> AllCommands \cup {"none"}]
      /\ DOMAIN lparents = Procs /\ DOMAIN ltree = Procs
  BY DEF TypeOK
<1>1. UNCHANGED <<head, dag, tip>>
  BY DEF HeadSteps, Snapshot, LoadSnapshots, RegisterSnapshot, ApplyRetention,
         MergeHead, SetHeadPublic, ReadHeads, SetHeads, WriteHeads, GcSteps, Gc,
         MarkChunks, SweepChunk, MarkObjects, SweepCommit, ListTrees, SweepTree,
         EndGc, Crash, disk, ghosts
<1>2. BuildInv(p)' => BuildsInv'
  BY <1>1, OneBuilds, SameCommits DEF Steps, BuildsInv
<1>3. CASE Snapshot(p)
  <2>1. /\ pc'[p] \in {"savetree", "savecommit"} /\ cmd'[p] = "snapshot"
        /\ lparents'[p] = HeadSet
    BY <1>0, <1>3 DEF Snapshot, Start, Goto
  <2>2. HeadSet' = HeadSet
    BY <1>1 DEF HeadSet, Commit
  <2> QED
    BY <1>2, <2>1, <2>2 DEF BuildInv
<1>4. ASSUME NEW r \in commits, NEW command \in {"merge", "mergeany"},
             MergeHead(p, r, command)
      PROVE  BuildsInv'
  <2>1. /\ pc'[p] = "savetree" /\ cmd'[p] = command
        /\ lparents'[p] = HeadSet \cup {r}
    BY <1>0, <1>4 DEF MergeHead, Start, Goto
  <2>2. HeadSet' = HeadSet
    BY <1>1 DEF HeadSet, Commit
  <2> QED
    BY <1>2, <2>1, <2>2 DEF BuildInv
<1>5. ASSUME NEW r \in commits, SetHeadPublic(p, r)
      PROVE  BuildsInv'
  <2>1. pc'[p] = "sethead" /\ cmd'[p] = "sync"
    BY <1>0, <1>5 DEF SetHeadPublic, Start, Goto
  <2> QED
    BY <1>2, <2>1 DEF BuildInv
<1>6. CASE LoadSnapshots(p) \/ RegisterSnapshot(p) \/ ApplyRetention(p) \/ ReadHeads(p)
          \/ SetHeads(p) \/ WriteHeads(p)
  <2>1. ~Stop(p) => pc'[p] \in {"register", "loadretention", "retention", "markchunks",
                                "setheads", "writeheads"}
    BY <1>0, <1>6
    DEF LoadSnapshots, RegisterSnapshot, ApplyRetention, ReadHeads, SetHeads,
        WriteHeads, Goto
  <2> QED
    BY <1>2, <2>1, NotBuilding, StopNotBuilding
<1>7. CASE GcSteps(p) \/ Crash(p)
  <2>1. ~Stop(p) =>
          pc'[p] \in {"loadretention", "sweepchunks", "sweepcommits", "sweeptrees"}
    BY <1>0, <1>7
    DEF GcSteps, Gc, MarkChunks, SweepChunk, MarkObjects, SweepCommit, ListTrees,
        SweepTree, EndGc, Crash, Start, Goto
  <2> QED
    BY <1>2, <2>1, NotBuilding, StopNotBuilding
<1> QED
  BY <1>3, <1>4, <1>5, <1>6, <1>7 DEF HeadSteps

LEMMA PeerBuilds ==
  ASSUME Disciplined, TypeOK, TypeOK', SafeInv, Intact, BuildsInv, PeerSteps
  PROVE  BuildsInv'
<1>0. /\ (head # Torn => head = tip) /\ AddKeepsParentFiles /\ Serial
      /\ \A p \in Procs : BuildInv(p)
      /\ dag \in Seq(CommitRecord) /\ head \in Commit \cup {None, Torn}
      /\ \A c \in Commit : dag[c].parents \subseteq Commit
  BY DEF SafeInv, BuildsInv, TypeOK
<1>1. ASSUME NEW t \in PeerTrees, NEW ps \in {{}} \cup {{c} : c \in Known},
             Publish(t, ps)
      PROVE  BuildsInv'
  <2> DEFINE n == Len(dag) + 1
             r == [tree |-> t, parents |-> ps, by |-> "peer", files |-> EmptyTree]
  <2>1. /\ UNCHANGED <<head, tip, pc, cmd, files, ltree, lparents, lcommit>>
        /\ dag' = Append(dag, r)
    BY <1>1 DEF Publish, disk, locals
  <2>2. r \in CommitRecord
    <3>1. ps \subseteq Nat
      BY <1>0, CommitsAreNat DEF Known, TypeOK
    <3> QED
      BY <3>1, VaultAssumption, EmptyTreeType DEF CommitRecord
  <2>3. /\ dag'[n] = r /\ \A c \in Commit : dag'[c] = dag[c]
        /\ Commit' = Commit \cup {n}
    BY <1>0, <2>1, <2>2, DagGrows
  <2>4. AddKeepsParentFiles'
    <3>1. \A c \in Commit' : dag'[c].by = "add" => c \in Commit
      BY <2>3
    <3> QED
      BY <1>0, <2>3, <3>1 DEF AddKeepsParentFiles
  <2>5. None \notin Commit' /\ Torn \notin Commit'
    BY NextCommitsAreNat
  <2>6. HeadSet' = HeadSet
    BY <1>0, <2>1, <2>3, <2>5 DEF HeadSet
  <2>7. ASSUME NEW p \in Procs PROVE BuildInv(p)'
    <3>1. CASE pc[p] \in {"savetree", "writetree", "parents", "savecommit"}
      <4>1. head # Torn
        BY <1>0, <3>1 DEF Intact, Serial
      <4>2. NewTree(p)' = NewTree(p)
        BY <1>0, <2>1, <2>3, <4>1 DEF NewTree, HeadTree
      <4> QED
        BY <1>0, <2>1, <2>6, <3>1, <4>2 DEF BuildInv
    <3>2. CASE pc[p] \in {"sethead", "writehead"}
      <4>1. lcommit[p] \in Commit
        BY <3>2 DEF TypeOK
      <4> QED
        BY <1>0, <2>1, <2>3, <3>2, <4>1 DEF BuildInv
    <3>3. CASE pc[p] \notin {"savetree", "writetree", "parents", "savecommit",
                             "sethead", "writehead"}
      BY <1>0, <2>1, <3>3 DEF BuildInv
    <3> QED
      BY <3>1, <3>2, <3>3
  <2> QED
    BY <1>0, <2>1, <2>4, <2>7 DEF BuildsInv
<1>2. CASE UNCHANGED <<head, tip, dag, pc, cmd, files, ltree, lparents, lcommit>>
  <2>1. \A p \in Procs : NewTree(p)' = NewTree(p) /\ HeadSet' = HeadSet
    BY <1>2, SameNewTree
  <2>2. \A p \in Procs : BuildInv(p)'
    BY <1>0, <1>2, <2>1 DEF BuildInv
  <2> QED
    BY <1>0, <1>2, <2>2, SameCommits DEF BuildsInv
<1> QED
  BY <1>1, <1>2
  DEF PeerSteps, ImportCommit, ImportTree, ImportStoredChunk, locals, ghosts

LEMMA BuildsStep ==
  ASSUME Disciplined, TypeOK, TypeOK', SafeInv, Intact, BuildsInv, [Next]_vars
  PROVE  BuildsInv'
<1>1. CASE UNCHANGED vars
  <2>1. UNCHANGED <<head, tip, dag, pc, cmd, files, ltree, lparents, lcommit>>
    BY <1>1 DEF vars, disk, locals, ghosts
  <2>2. \A p \in Procs : NewTree(p)' = NewTree(p) /\ HeadSet' = HeadSet
    BY <2>1, SameNewTree
  <2>3. \A p \in Procs : BuildInv(p)'
    BY <2>1, <2>2 DEF BuildInv, BuildsInv
  <2> QED
    BY <2>1, <2>3, SameCommits DEF BuildsInv
<1> QED
  BY <1>1, AddBuilds, OtherBuilds, PeerBuilds DEF Next

\* Without overlap the tree of add was built on the HEAD that is still there,
\* the commit gets that HEAD as its parent, and what it publishes is complete.
THEOREM Builds ==
  ASSUME Disciplined
  PROVE  Spec => []BuildsInv
<1>1. Init => BuildsInv
  BY DEF Init, BuildsInv, BuildInv, AddKeepsParentFiles, Commit
<1>2. TypeOK /\ TypeOK' /\ SafeInv /\ Intact /\ BuildsInv /\ [Next]_vars => BuildsInv'
  BY BuildsStep
<1>3. Crashes # "anywhere"
  BY DEF Disciplined
<1>4. Spec => []Intact
  BY <1>3, OnlyWritersTruncate
<1> QED
  BY <1>1, <1>2, <1>4, Safe, TypeCorrect, PTL DEF Spec

\* An add keeps every file of the commit it is parented to.
THEOREM AddsKeepFiles ==
  ASSUME Disciplined
  PROVE  Spec => []AddKeepsParentFiles
BY Builds, PTL DEF BuildsInv

\* The commit an add publishes is parented to the HEAD before it.
THEOREM AddsFollowHead ==
  ASSUME Disciplined
  PROVE  Spec => AddParentedToHead
<1>1. TypeOK /\ BuildsInv /\ [Next]_vars =>
        [\A c \in acked' \ acked :
           dag'[c].by = "add" => dag'[c].parents = IF tip = None THEN {} ELSE {tip}]_vars
  <2> SUFFICES ASSUME TypeOK, BuildsInv, Next, NEW c \in acked' \ acked, dag'[c].by = "add"
               PROVE  dag'[c].parents = IF tip = None THEN {} ELSE {tip}
    OBVIOUS
  <2>1. PICK p \in Procs : WriteHead(p)
    <3>1. acked' # acked
      OBVIOUS
    <3>2. PeerSteps => acked' = acked
      BY DEF PeerSteps, Publish, ImportCommit, ImportTree, ImportStoredChunk, ghosts
    <3>3. ASSUME NEW p \in Procs, AddSteps(p), ~WriteHead(p) PROVE acked' = acked
      BY <3>3
      DEF AddSteps, AddPath, StoreChunk, ReadHeadTree, SaveTree, WriteTree, ReadParents,
          SaveCommit, SetHead, ghosts
    <3>4. ASSUME NEW p \in Procs, HeadSteps(p) PROVE acked' = acked
      BY <3>4
      DEF HeadSteps, Snapshot, LoadSnapshots, RegisterSnapshot, ApplyRetention, MergeHead,
          SetHeadPublic, ReadHeads, SetHeads, WriteHeads, ghosts
    <3>5. ASSUME NEW p \in Procs, GcSteps(p) \/ Crash(p) PROVE acked' = acked
      BY <3>5
      DEF GcSteps, Gc, MarkChunks, SweepChunk, MarkObjects, SweepCommit, ListTrees,
          SweepTree, EndGc, Crash, ghosts
    <3> QED
      BY <3>1, <3>2, <3>3, <3>4, <3>5 DEF Next
  <2>2. /\ pc[p] = "writehead" /\ dag' = dag /\ cmd[p] # "sync" /\ c = lcommit[p]
    BY <2>1 DEF WriteHead
  <2> QED
    BY <2>2 DEF BuildsInv, BuildInv
<1> QED
  BY <1>1, Builds, TypeCorrect, PTL DEF Spec, AddParentedToHead

-----------------------------------------------------------------------------
(* Nothing published is lost                                               *)

\* More roots reach more.
LEMMA MarkMonotone ==
  ASSUME NEW R, NEW Q, R \subseteq Q
  PROVE  Marked(R) \subseteq Marked(Q)
BY DEF Marked, Reached

\* New commits, here or in the making, take nothing from the mark.
LEMMA MarkGrows ==
  ASSUME TypeOK, TypeOK', tip \in Commit, tip' = tip,
         Commit \subseteq Commit', \A c \in Commit : dag'[c] = dag[c],
         commits \subseteq commits'
  PROVE  Marked({tip}) \subseteq Marked({tip})'
<1> SUFFICES ASSUME NEW c \in Marked({tip})
             PROVE  c \in Marked({tip})'
  OBVIOUS
<1>1. c \in commits /\ c \in Commit
  BY DEF Marked, TypeOK
<1>2. ASSUME NEW S \in SUBSET Commit', {tip} \subseteq S,
             \A x \in S \cap commits' : dag'[x].parents \subseteq S
      PROVE  c \in S
  <2> DEFINE T == S \cap Commit
  <2>1. T \in SUBSET Commit /\ {tip} \subseteq T
    BY <1>2
  <2>2. \A x \in T \cap commits : dag[x].parents \subseteq T
    BY <1>2 DEF TypeOK
  <2> HIDE DEF T
  <2>3. c \in T
    BY <2>1, <2>2 DEF Marked, Reached, Closed
  <2> QED
    BY <2>3 DEF T
<1> QED
  BY <1>1, <1>2 DEF Marked, Reached, Closed

\* Neither does deleting a commit that is not marked.
LEMMA MarkSwept ==
  ASSUME TypeOK, tip \in Commit, UNCHANGED <<tip, dag>>,
         NEW d \in commits, d \notin Marked({tip}), commits' = commits \ {d}
  PROVE  Marked({tip}) \subseteq Marked({tip})'
<1> SUFFICES ASSUME NEW c \in Marked({tip})
             PROVE  c \in Marked({tip})'
  OBVIOUS
<1>1. c \in commits' /\ c \in Commit /\ Commit' = Commit
  BY DEF Marked, TypeOK, Commit
<1>2. d \notin Reached({tip})
  BY DEF Marked
<1>3. ASSUME NEW x \in Reached({tip}) \cap commits
      PROVE  dag[x].parents \subseteq Reached({tip})
  <2>1. x \in Commit /\ dag[x].parents \subseteq Commit
    BY DEF TypeOK
  <2>2. \A S \in SUBSET Commit :
           {tip} \subseteq S /\ Closed(S) => dag[x].parents \subseteq S
    BY DEF Reached, Closed
  <2> QED
    BY <2>1, <2>2 DEF Reached
<1>4. tip \in Reached({tip}) /\ Reached({tip}) \subseteq Commit
  BY DEF Reached
<1>5. ASSUME NEW S \in SUBSET Commit, {tip} \subseteq S,
             \A x \in S \cap commits' : dag[x].parents \subseteq S
      PROVE  c \in S
  <2> DEFINE T == S \cap Reached({tip})
  <2>1. T \in SUBSET Commit /\ {tip} \subseteq T
    BY <1>4, <1>5
  <2>2. \A x \in T \cap commits : dag[x].parents \subseteq T
    BY <1>2, <1>3, <1>5
  <2>3. Closed(T)
    BY <2>2 DEF Closed
  <2> HIDE DEF T
  <2>4. c \in T
    BY <2>1, <2>3 DEF Marked, Reached
  <2> QED
    BY <2>4 DEF T
<1> QED
  BY <1>1, <1>5 DEF Marked, Reached, Closed

\* The published commits are among those gc must keep.
LEMMA AckedMarked ==
  ASSUME TypeOK, BuildsInv, HistoryInv, head # Torn, acked # {}
  PROVE  acked \subseteq Marked(Roots) /\ Marked({tip}) \subseteq Marked(Roots)
<1>1. {tip} \subseteq Roots
  BY DEF HistoryInv, BuildsInv, Roots, HeadSet
<1> QED
  BY <1>1, MarkMonotone DEF HistoryInv

\* A step that publishes nothing and deletes nothing.
LEMMA HistoryGrows ==
  ASSUME TypeOK, TypeOK', HistoryInv, UNCHANGED <<acked, tip>>,
         Commit \subseteq Commit', \A c \in Commit : dag'[c] = dag[c],
         commits \subseteq commits', trees \subseteq trees', chunks \subseteq chunks',
         \A p \in Procs : cmd'[p] # "sync"
  PROVE  HistoryInv'
<1>1. \A c \in acked : Stored(c)'
  BY DEF HistoryInv, TypeOK, Stored
<1>2. acked # {} => tip \in Commit' /\ acked \subseteq Marked({tip})'
  BY MarkGrows DEF HistoryInv
<1> QED
  BY <1>1, <1>2 DEF HistoryInv

LEMMA NoSync ==
  ASSUME "sync" \notin Commands, TypeOK, HistoryInv, [Next]_vars
  PROVE  \A p \in Procs : cmd'[p] # "sync"
<1>0. cmd \in [Procs -> AllCommands \cup {"none"}] /\ \A p \in Procs : cmd[p] # "sync"
  BY DEF TypeOK, HistoryInv
<1>1. ASSUME NEW p \in Procs, Stop(p) PROVE \A q \in Procs : cmd'[q] # "sync"
  BY <1>0, <1>1 DEF Stop
<1>3. ASSUME NEW p \in Procs, AddSteps(p) PROVE \A q \in Procs : cmd'[q] # "sync"
  BY <1>0, <1>1, <1>3
  DEF AddSteps, AddPath, StoreChunk, ReadHeadTree, SaveTree, WriteTree, ReadParents,
      SaveCommit, SetHead, WriteHead, Start
<1>4. ASSUME NEW p \in Procs, HeadSteps(p) PROVE \A q \in Procs : cmd'[q] # "sync"
  BY <1>0, <1>1, <1>4
  DEF HeadSteps, Snapshot, LoadSnapshots, RegisterSnapshot, ApplyRetention,
      MergeHead, SetHeadPublic, ReadHeads, SetHeads, WriteHeads, Start
<1>5. ASSUME NEW p \in Procs, GcSteps(p) PROVE \A q \in Procs : cmd'[q] # "sync"
  BY <1>0, <1>1, <1>5
  DEF GcSteps, Gc, MarkChunks, SweepChunk, MarkObjects, SweepCommit, ListTrees,
      SweepTree, EndGc, Start
<1>6. CASE PeerSteps \/ UNCHANGED vars
  BY <1>0, <1>6
  DEF PeerSteps, Publish, ImportCommit, ImportTree, ImportStoredChunk, vars
<1> QED
  BY <1>1, <1>3, <1>4, <1>5, <1>6 DEF Next, Crash

LEMMA HistoryStep ==
  ASSUME Disciplined, "sync" \notin Commands, TypeOK, TypeOK', SafeInv, Intact, BuildsInv,
         HistoryInv, [Next]_vars
  PROVE  HistoryInv'
<1>0. \A p \in Procs : cmd'[p] # "sync"
  BY NoSync
<1>1. ASSUME NEW p \in Procs, WriteHead(p) PROVE HistoryInv'
  <2> DEFINE n == lcommit[p]
  <2>1. /\ UNCHANGED <<commits, trees, chunks, dag>> /\ tip' = n
        /\ acked' = acked \cup {n} /\ pc[p] = "writehead"
    BY <1>1 DEF WriteHead, HistoryInv
  <2>2. Stored(n) /\ n \in Commit
    BY <2>1 DEF SafeInv, WriterInv, TypeOK
  <2>3. tip # None => tip \in dag[n].parents
    BY <2>1 DEF BuildsInv, BuildInv, HistoryInv
  <2> HIDE DEF n
  <2>4. n \in Marked({n})
    BY <2>2 DEF Marked, Reached, Stored
  <2>5. ASSUME acked # {} PROVE Marked({tip}) \subseteq Marked({n})
    <3>1. tip \in Commit /\ tip \in dag[n].parents
      BY <2>3, <2>5, CommitsAreNat DEF HistoryInv, TypeOK
    <3>2. \A S \in SUBSET Commit : {n} \subseteq S /\ Closed(S) => {tip} \subseteq S
      BY <2>2, <3>1 DEF Closed, Stored
    <3> QED
      BY <3>2 DEF Marked, Reached
  <2>6. acked' \subseteq Marked({n})
    BY <2>1, <2>4, <2>5 DEF HistoryInv
  <2>7. Marked({tip})' = Marked({n})
    BY <2>1 DEF Marked, Reached, Closed, Commit
  <2>8. \A c \in acked' : Stored(c)'
    BY <2>1, <2>2 DEF HistoryInv, Stored
  <2>9. tip' \in Commit'
    BY <2>1, <2>2 DEF Commit
  <2> QED
    BY <1>0, <2>6, <2>7, <2>8, <2>9 DEF HistoryInv
<1>2. ASSUME NEW p \in Procs, NEW k \in todo[p], SweepChunk(p, k) PROVE HistoryInv'
  <2>1. /\ UNCHANGED <<commits, trees, dag, acked, tip>> /\ pc[p] = "sweepchunks"
    BY <1>2 DEF SweepChunk, ghosts
  <2>2. head # Torn
    BY <2>1 DEF Intact, SafeInv, Serial
  <2>3. \A c \in acked : Stored(c)'
    BY <2>1, <2>2, AckedMarked, KeepStep DEF HistoryInv, Stored
  <2>4. Marked({tip})' = Marked({tip}) /\ Commit' = Commit
    BY <2>1 DEF Marked, Reached, Closed, Commit
  <2> QED
    BY <1>0, <2>1, <2>3, <2>4 DEF HistoryInv
<1>3. ASSUME NEW p \in Procs, NEW d \in todo[p], SweepCommit(p, d) PROVE HistoryInv'
  <2>1. /\ UNCHANGED <<trees, chunks, dag, acked, tip>> /\ pc[p] = "sweepcommits"
        /\ commits' = commits \/ (d \in commits /\ commits' = commits \ {d})
    BY <1>3 DEF SweepCommit, ghosts
  <2>2. head # Torn
    BY <2>1 DEF Intact, SafeInv, Serial
  <2>3. \A c \in acked : Stored(c)'
    BY <2>1, <2>2, AckedMarked, KeepStep DEF HistoryInv, Stored
  <2>4. ASSUME acked # {} PROVE tip \in Commit' /\ acked \subseteq Marked({tip})'
    <3>1. tip \in Commit /\ Commit' = Commit
      BY <2>1, <2>4 DEF HistoryInv, Commit
    <3>2. d \notin Marked({tip})
      <4>1. Covers(live[p]) /\ d \notin live[p]
        BY <1>3, <2>1 DEF SafeInv, GcInv
      <4> QED
        BY <2>2, <2>4, <4>1, CoversMark, AckedMarked
    <3>3. CASE commits' = commits
      BY <2>1, <2>4, <3>1, <3>3 DEF HistoryInv, Marked, Reached, Closed
    <3>4. CASE d \in commits /\ commits' = commits \ {d}
      BY <2>1, <2>4, <3>1, <3>2, <3>4, MarkSwept DEF HistoryInv
    <3> QED
      BY <2>1, <3>1, <3>3, <3>4
  <2> QED
    BY <1>0, <2>1, <2>3, <2>4 DEF HistoryInv
<1>4. ASSUME NEW p \in Procs, NEW t \in todo[p], SweepTree(p, t) PROVE HistoryInv'
  <2>1. /\ UNCHANGED <<commits, chunks, dag, acked, tip>> /\ pc[p] = "sweeptrees"
    BY <1>4 DEF SweepTree, ghosts
  <2>2. head # Torn
    BY <2>1 DEF Intact, SafeInv, Serial
  <2>3. \A c \in acked : Stored(c)'
    BY <2>1, <2>2, AckedMarked, KeepStep DEF HistoryInv, Stored
  <2>4. Marked({tip})' = Marked({tip}) /\ Commit' = Commit
    BY <2>1 DEF Marked, Reached, Closed, Commit
  <2> QED
    BY <1>0, <2>1, <2>3, <2>4 DEF HistoryInv
<1>5. CASE /\ UNCHANGED <<dag, acked, tip>>
           /\ commits \subseteq commits' /\ trees \subseteq trees' /\ chunks \subseteq chunks'
  <2>1. Commit' = Commit
    BY <1>5 DEF Commit
  <2> QED
    BY <1>0, <1>5, <2>1, HistoryGrows
<1>6. ASSUME NEW r \in CommitRecord, dag' = Append(dag, r), UNCHANGED <<acked, tip>>,
             commits \subseteq commits', trees \subseteq trees', chunks \subseteq chunks'
      PROVE  HistoryInv'
  <2>1. dag \in Seq(CommitRecord)
    BY DEF TypeOK
  <2>2. /\ Commit' = Commit \cup {Len(dag) + 1}
        /\ \A c \in Commit : dag'[c] = dag[c]
    BY <1>6, <2>1, DagGrows
  <2>3. Commit \subseteq Commit'
    BY <2>2
  <2> QED
    BY <1>0, <1>6, <2>2, <2>3, HistoryGrows
<1>7. ASSUME NEW p \in Procs, SaveCommit(p) PROVE HistoryInv'
  <2> DEFINE r == [tree |-> ltree[p], parents |-> lparents[p],
                   by |-> cmd[p], files |-> files[p]]
  <2>1. r \in CommitRecord
    BY <1>7 DEF TypeOK, SaveCommit, CommitRecord, AllCommands
  <2> QED
    BY <1>6, <1>7, <2>1 DEF SaveCommit
<1>8. ASSUME NEW t \in PeerTrees, NEW ps \in {{}} \cup {{c} : c \in Known}, Publish(t, ps)
      PROVE  HistoryInv'
  <2> DEFINE r == [tree |-> t, parents |-> ps, by |-> "peer", files |-> EmptyTree]
  <2>1. ps \subseteq Nat
    BY CommitsAreNat DEF Known, TypeOK
  <2>2. r \in CommitRecord
    BY <2>1, VaultAssumption, EmptyTreeType DEF CommitRecord
  <2> QED
    BY <1>6, <1>8, <2>2 DEF Publish, disk
<1>9. ASSUME NEW p \in Procs, AddSteps(p), ~SaveCommit(p), ~WriteHead(p)
      PROVE  HistoryInv'
  BY <1>5, <1>9
  DEF AddSteps, AddPath, StoreChunk, ReadHeadTree, SaveTree, WriteTree, ReadParents,
      SetHead, disk, ghosts
<1>10. ASSUME NEW p \in Procs, HeadSteps(p) PROVE HistoryInv'
  BY <1>5, <1>10
  DEF HeadSteps, Snapshot, LoadSnapshots, RegisterSnapshot, ApplyRetention,
      MergeHead, SetHeadPublic, ReadHeads, SetHeads, WriteHeads, disk, ghosts
<1>11. ASSUME NEW p \in Procs,
              Gc(p) \/ MarkChunks(p) \/ MarkObjects(p) \/ ListTrees(p) \/ EndGc(p) \/ Crash(p)
       PROVE  HistoryInv'
  BY <1>5, <1>11 DEF Gc, MarkChunks, MarkObjects, ListTrees, EndGc, Crash, disk, ghosts
<1>12. ASSUME PeerSteps, ~\E t \in PeerTrees, ps \in {{}} \cup {{c} : c \in Known} :
                              Publish(t, ps)
       PROVE  HistoryInv'
  BY <1>5, <1>12 DEF PeerSteps, ImportCommit, ImportTree, ImportStoredChunk, ghosts
<1>13. CASE UNCHANGED vars
  BY <1>5, <1>13 DEF vars, disk, ghosts
<1> QED
  BY <1>1, <1>2, <1>3, <1>4, <1>7, <1>8, <1>9, <1>10, <1>11, <1>12, <1>13
  DEF Next, GcSteps

\* Without overlap, plain sync or torn writes, the history of the roots holds
\* everything that was ever published.
THEOREM History ==
  ASSUME Disciplined, "sync" \notin Commands
  PROVE  Spec => []HistoryInv
<1>1. Init => HistoryInv
  BY DEF Init, HistoryInv
<1>2. /\ TypeOK /\ TypeOK' /\ SafeInv /\ Intact /\ BuildsInv /\ HistoryInv
      /\ [Next]_vars
      => HistoryInv'
  BY HistoryStep
<1>3. Crashes # "anywhere"
  BY DEF Disciplined
<1>4. Spec => []Intact
  BY <1>3, OnlyWritersTruncate
<1> QED
  BY <1>1, <1>2, <1>4, Safe, Builds, TypeCorrect, PTL DEF Spec

\* A version that add, snapshot or merge has published stays restorable, in the
\* history of a root, through any number of later commands, kills and gcs.
THEOREM NothingPublishedIsLost ==
  ASSUME Disciplined, "sync" \notin Commands
  PROVE  Spec => []AckedKept
<1>1. TypeOK /\ Intact /\ BuildsInv /\ HistoryInv => AckedKept
  <2> SUFFICES ASSUME TypeOK, Intact, BuildsInv, HistoryInv, AllIdle, NEW c \in acked
               PROVE  c \in Marked(Roots) /\ IsComplete(c)
    BY DEF AckedKept
  <2>1. head # Torn /\ torn = {}
    BY DEF Intact, AllIdle
  <2> QED
    BY <2>1, AckedMarked DEF HistoryInv, IsComplete, Readable, Stored
<1>2. Crashes # "anywhere"
  BY DEF Disciplined
<1>3. Spec => []Intact
  BY <1>2, OnlyWritersTruncate
<1> QED
  BY <1>1, <1>3, Builds, History, TypeCorrect, PTL
-----------------------------------------------------------------------------
(***************************************************************************)
(* Overlapping commands.  Without gc nothing is deleted, so that what a    *)
(* command has secured stays whatever the others do; only merges that do   *)
(* not fetch first are left out, as they may bring in trees without their  *)
(* chunks.                                                                 *)
(***************************************************************************)

GcPCs == {"markchunks", "sweepchunks", "sweepcommits", "sweeptrees"}

\* No process runs a command that deletes, or merges what it has not fetched.
Calm == \A p \in Procs : cmd[p] \notin {"gc", "mergeany"} /\ pc[p] \notin GcPCs

OverlapInv ==
  /\ Calm
  /\ RootsStored
  /\ \A c \in acked : Stored(c)
  /\ \A p \in Procs : WriterInv(p)

\* Files are added and commits minted.
Grows ==
  /\ commits \subseteq commits' /\ trees \subseteq trees' /\ chunks \subseteq chunks'
  /\ Commit \subseteq Commit' /\ \A c \in Commit : dag'[c] = dag[c]

LEMMA StoredStays ==
  ASSUME Grows, NEW c \in Commit, Stored(c)
  PROVE  Stored(c)'
BY DEF Grows, Stored

\* What a process has secured stays when it stays where it is.
LEMMA SecuredStays ==
  ASSUME TypeOK, Grows, NEW q \in Procs, WriterInv(q), SameLocals(q)
  PROVE  WriterInv(q)'
<1>1. /\ lheads[q] \subseteq Commit /\ lcommit[q] \in Commit \cup {None}
      /\ pc[q] \in {"sethead", "writehead", "readheads", "loadregister", "register"} =>
           lcommit[q] # None
      /\ \A i \in DOMAIN lsnaps[q] : lsnaps[q][i] \in Commit
  BY DEF TypeOK
<1>2. pc[q] \in {"sethead", "writehead", "readheads", "loadregister", "register"} =>
        Stored(lcommit[q])'
  <2>1. SUFFICES ASSUME pc[q] \in {"sethead", "writehead", "readheads",
                                    "loadregister", "register"}
                 PROVE  Stored(lcommit[q])'
    OBVIOUS
  <2>2. Stored(lcommit[q]) /\ lcommit[q] \in Commit
    BY <1>1, <2>1 DEF WriterInv
  <2>3. /\ lcommit[q] \in commits' /\ dag'[lcommit[q]] = dag[lcommit[q]]
        /\ dag[lcommit[q]].tree \in trees' /\ ChunksOf(dag[lcommit[q]].tree) \subseteq chunks'
    BY <2>2 DEF Grows, Stored
  <2> QED
    BY <2>3 DEF Stored, SameLocals
<1>3. pc[q] \in {"setheads", "writeheads"} => \A c \in lheads[q] : Stored(c)'
  BY <1>1, StoredStays DEF WriterInv
<1>4. ASSUME pc[q] \in {"register", "retention"}, NEW i \in DOMAIN lsnaps[q]
      PROVE  Stored(lsnaps[q][i])'
  <2>1. PICK c \in Commit : c = lsnaps[q][i] /\ Stored(c)
    BY <1>1, <1>4 DEF WriterInv
  <2>2. Stored(c)'
    BY <2>1, StoredStays
  <2>3. c = lsnaps'[q][i]
    BY <2>1 DEF SameLocals
  <2> QED
    BY <2>2, <2>3
<1>5. (pc[q] \in {"register", "retention"} =>
         \A i \in DOMAIN lsnaps[q] : Stored(lsnaps[q][i]))'
  BY <1>4 DEF SameLocals
<1>6. (/\ pc[q] = "store" => ChunksOf(files[q]) \subseteq chunks \cup todo[q]
       /\ pc[q] = "headtree" => ChunksOf(files[q]) \subseteq chunks
       /\ pc[q] \in {"savetree", "writetree", "parents", "savecommit"} =>
             ChunksOf(ltree[q]) \subseteq chunks
       /\ pc[q] \in {"writetree", "parents", "savecommit"} => ltree[q] \in trees
       /\ pc[q] \in {"sethead", "writehead", "readheads", "loadregister", "register"} =>
             Stored(lcommit[q])
       /\ pc[q] \in {"setheads", "writeheads"} => \A c \in lheads[q] : Stored(c))'
  BY <1>2, <1>3 DEF WriterInv, SameLocals, Grows
<1> QED
  BY <1>5, <1>6 DEF WriterInv

\* A step that deletes nothing.
LEMMA StepGrows ==
  ASSUME TypeOK, TypeOK', NEW p \in Procs, AddSteps(p) \/ HeadSteps(p) \/ Crash(p)
  PROVE  /\ Grows
         /\ acked' = acked \/ (pc[p] = "writehead" /\ acked' \subseteq acked \cup {lcommit[p]})
<1>0. dag \in Seq(CommitRecord)
  BY DEF TypeOK
<1>1. CASE SaveCommit(p)
  <2> DEFINE r == [tree |-> ltree[p], parents |-> lparents[p],
                   by |-> cmd[p], files |-> files[p]]
  <2>1. /\ UNCHANGED <<trees, chunks, acked>>
        /\ dag' = Append(dag, r) /\ commits' = commits \cup {Len(dag) + 1}
    BY <1>1 DEF SaveCommit
  <2>2. r \in CommitRecord
    BY <1>1 DEF TypeOK, SaveCommit, CommitRecord, AllCommands
  <2> QED
    BY <1>0, <2>1, <2>2, DagGrows DEF Grows
<1>2. CASE AddSteps(p) /\ ~SaveCommit(p)
  <2>1. /\ UNCHANGED <<dag, commits>> /\ trees \subseteq trees' /\ chunks \subseteq chunks'
        /\ acked' = acked \/ (pc[p] = "writehead" /\ acked' \subseteq acked \cup {lcommit[p]})
    BY <1>2
    DEF AddSteps, AddPath, StoreChunk, ReadHeadTree, SaveTree, WriteTree, ReadParents,
        SetHead, WriteHead, disk, ghosts
  <2> QED
    BY <2>1 DEF Grows, Commit
<1>3. CASE HeadSteps(p) \/ Crash(p)
  <2>1. UNCHANGED <<dag, commits, trees, chunks, acked>>
    BY <1>3
    DEF HeadSteps, Snapshot, LoadSnapshots, RegisterSnapshot, ApplyRetention,
        MergeHead, SetHeadPublic, ReadHeads, SetHeads, WriteHeads, Crash, disk,
        ghosts
  <2> QED
    BY <2>1 DEF Grows, Commit
<1> QED
  BY <1>1, <1>2, <1>3

\* Only a gc gets to where something is deleted.
LEMMA CalmStep ==
  ASSUME TypeOK, Calm, NEW p \in Procs, Steps(p),
         \A q \in Procs : cmd'[q] \notin {"gc", "mergeany"}
  PROVE  Calm' /\ ~GcSteps(p) /\ \A r \in commits : ~MergeHead(p, r, "mergeany")
<1>0. /\ pc \in [Procs -> PCs] /\ cmd \in [Procs -> AllCommands \cup {"none"}]
      /\ cmd[p] \notin {"gc", "mergeany"} /\ pc[p] \notin GcPCs
      /\ cmd'[p] \notin {"gc", "mergeany"}
  BY DEF TypeOK, Calm
<1>1. ~GcSteps(p)
  BY <1>0
  DEF GcSteps, Gc, MarkChunks, SweepChunk, MarkObjects, SweepCommit, ListTrees, SweepTree,
      EndGc, Start, GcPCs
<1>2. \A r \in commits : ~MergeHead(p, r, "mergeany")
  BY <1>0 DEF MergeHead, Start
<1>3. pc'[p] \notin GcPCs
  <2>1. Stop(p) => pc'[p] = "idle"
    BY <1>0 DEF Stop, Goto
  <2>2. CASE AddSteps(p)
    BY <1>0, <2>1, <2>2
    DEF AddSteps, AddPath, StoreChunk, ReadHeadTree, SaveTree, WriteTree, ReadParents,
        SaveCommit, SetHead, WriteHead, Start, Goto, GcPCs
  <2>3. CASE HeadSteps(p)
    BY <1>0, <2>1, <2>3
    DEF HeadSteps, Snapshot, LoadSnapshots, RegisterSnapshot, ApplyRetention,
        MergeHead, SetHeadPublic, ReadHeads, SetHeads, WriteHeads, Start, Goto,
        GcPCs
  <2>4. CASE Crash(p)
    BY <2>1, <2>4 DEF Crash, GcPCs
  <2> QED
    BY <1>1, <2>2, <2>3, <2>4 DEF Steps
<1>4. \A q \in Procs \ {p} : pc'[q] \notin GcPCs
  BY Frame DEF Calm, SameLocals
<1> QED
  BY <1>1, <1>2, <1>3, <1>4 DEF Calm

LEMMA OverlapStep ==
  ASSUME TypeOK, TypeOK', OverlapInv, NEW p \in Procs, Steps(p),
         \A q \in Procs : cmd'[q] \notin {"gc", "mergeany"}
  PROVE  OverlapInv'
<1>1. Calm' /\ ~GcSteps(p) /\ \A r \in commits : ~MergeHead(p, r, "mergeany")
  BY CalmStep DEF OverlapInv
<1>2. RootsStored /\ WriterInv(p) /\ acked \subseteq Commit
  BY DEF OverlapInv, TypeOK
<1>3. /\ Grows
      /\ acked' = acked \/ (pc[p] = "writehead" /\ acked' \subseteq acked \cup {lcommit[p]})
  BY <1>1, StepGrows DEF Steps
<1>4. RootsStored' /\ WriterInv(p)'
  <2>1. CASE AddSteps(p)
    BY <1>2, <2>1, AddSecures DEF Secured
  <2>2. CASE HeadSteps(p)
    BY <1>1, <1>2, <2>2, HeadSecures DEF Secured
  <2>3. CASE Crash(p)
    <3>1. UNCHANGED <<head, heads, snaps, dag, commits, trees, chunks>> /\ Stop(p)
      BY <2>3 DEF Crash, disk, ghosts
    <3>2. RootsStored'
      BY <1>2, <3>1, SameRoots, RootsStay
    <3> QED
      BY <3>1, <3>2, StopInv
  <2> QED
    BY <1>1, <2>1, <2>2, <2>3 DEF Steps
<1>5. \A q \in Procs \ {p} : WriterInv(q)'
  BY <1>3, Frame, SecuredStays DEF OverlapInv
<1>6. ASSUME NEW c \in acked' PROVE Stored(c)'
  <2>1. CASE c \in acked
    BY <1>2, <1>3, <2>1, StoredStays DEF OverlapInv
  <2>2. CASE pc[p] = "writehead" /\ c = lcommit[p]
    <3>1. Stored(c) /\ c \in Commit
      BY <1>2, <2>2 DEF WriterInv, TypeOK
    <3> QED
      BY <1>3, <3>1, StoredStays
  <2> QED
    BY <1>3, <1>6, <2>1, <2>2
<1> QED
  BY <1>1, <1>4, <1>5, <1>6 DEF OverlapInv

LEMMA OverlapPeers ==
  ASSUME TypeOK, TypeOK', OverlapInv, PeerSteps
  PROVE  OverlapInv'
<1>0. /\ dag \in Seq(CommitRecord) /\ Roots \subseteq Commit
  BY RootsType DEF TypeOK
<1>1. UNCHANGED <<head, heads, snaps, pc, cmd, files, ltree, lcommit, lheads, lsnaps,
                  todo, acked>>
  BY DEF PeerSteps, Publish, ImportCommit, ImportTree, ImportStoredChunk, disk, locals,
         ghosts
<1>2. Grows
  <2>1. ASSUME NEW t \in PeerTrees, NEW ps \in {{}} \cup {{c} : c \in Known}, Publish(t, ps)
        PROVE  Grows
    <3> DEFINE r == [tree |-> t, parents |-> ps, by |-> "peer", files |-> EmptyTree]
    <3>1. dag' = Append(dag, r) /\ UNCHANGED <<commits, trees, chunks>>
      BY <2>1 DEF Publish, disk
    <3>2. r \in CommitRecord
      <4>1. ps \subseteq Nat
        BY <1>0, CommitsAreNat DEF Known, TypeOK
      <4> QED
        BY <4>1, VaultAssumption, EmptyTreeType DEF CommitRecord
    <3> QED
      BY <1>0, <3>1, <3>2, DagGrows DEF Grows
  <2>2. ASSUME UNCHANGED dag, commits \subseteq commits', trees \subseteq trees',
               chunks \subseteq chunks'
        PROVE  Grows
    BY <2>2 DEF Grows, Commit
  <2>3. ASSUME NEW c \in Commit, ImportCommit(c) PROVE Grows
    BY <2>2, <2>3 DEF ImportCommit, ghosts
  <2>4. ASSUME NEW c \in commits, ImportTree(c) PROVE Grows
    BY <2>2, <2>4 DEF ImportTree, ghosts
  <2>5. ASSUME NEW c \in commits, NEW k \in Chunks, ImportStoredChunk(c, k) PROVE Grows
    BY <2>2, <2>5 DEF ImportStoredChunk, ghosts
  <2> QED
    BY <2>1, <2>3, <2>4, <2>5 DEF PeerSteps
<1>3. Roots' = Roots
  <2>1. None \notin Commit' /\ Torn \notin Commit'
    BY NextCommitsAreNat
  <2> QED
    BY <1>1, <1>2, <2>1 DEF Grows, TypeOK, Roots, HeadSet, SnapSet
<1>4. RootsStored'
  BY <1>0, <1>2, <1>3, RootsStay DEF OverlapInv, Grows
<1>5. \A p \in Procs : WriterInv(p)'
  BY <1>1, <1>2, SecuredStays DEF OverlapInv, SameLocals
<1>6. \A c \in acked' : Stored(c)'
  BY <1>1, <1>2, StoredStays DEF OverlapInv, TypeOK
<1> QED
  BY <1>1, <1>4, <1>5, <1>6 DEF OverlapInv, Calm

LEMMA OverlapStays ==
  ASSUME TypeOK, TypeOK', OverlapInv, [Next]_vars,
         \A q \in Procs : cmd'[q] \notin {"gc", "mergeany"}
  PROVE  OverlapInv'
<1>1. CASE UNCHANGED vars
  <2>1. UNCHANGED <<head, heads, snaps, commits, trees, chunks, dag, pc, cmd, files, ltree,
                    lcommit, lheads, lsnaps, todo, acked>>
    BY <1>1 DEF vars, disk, locals, ghosts
  <2>2. Grows /\ Roots' = Roots /\ \A c \in Roots : dag'[c] = dag[c]
    BY <2>1, SameRoots DEF Grows, Commit
  <2>3. RootsStored'
    BY <2>1, <2>2, RootsStay DEF OverlapInv
  <2>4. \A p \in Procs : WriterInv(p)'
    BY <2>1, <2>2, SecuredStays DEF OverlapInv, SameLocals
  <2>5. \A c \in acked' : Stored(c)'
    BY <2>1, <2>2, StoredStays DEF OverlapInv, TypeOK
  <2> QED
    BY <2>1, <2>3, <2>4, <2>5 DEF OverlapInv, Calm
<1> QED
  BY <1>1, OverlapStep, OverlapPeers DEF Next, Steps

LEMMA OverlapStart == Init => OverlapInv
<1> SUFFICES ASSUME Init PROVE OverlapInv
  OBVIOUS
<1>1. Roots = {}
  BY DEF Init, Roots, HeadSet, SnapSet, Commit
<1> QED
  BY <1>1 DEF Init, OverlapInv, Calm, GcPCs, RootsStored, WriterInv

\* With no truncated file left, what is stored can be restored.
LEMMA OverlapRestores == Intact /\ OverlapInv => RootsRestorable /\ AckedOnDisk
BY DEF Intact, OverlapInv, RootsStored, RootsRestorable, AckedOnDisk, AllIdle, IsComplete,
       Readable, Stored

\* A process that starts runs one of the commands there are.
LEMMA CommandsRun ==
  ASSUME TypeOK, [Next]_vars
  PROVE  \A q \in Procs : cmd'[q] \in {cmd[q], "none"} \cup Commands
<1>0. cmd \in [Procs -> AllCommands \cup {"none"}]
  BY DEF TypeOK
<1>1. ASSUME NEW p \in Procs, Steps(p)
      PROVE  UNCHANGED cmd \/ \E x \in {"none"} \cup Commands : cmd' = [cmd EXCEPT ![p] = x]
  <2>1. CASE Stop(p)
    BY <2>1 DEF Stop
  <2>2. CASE AddSteps(p) /\ ~Stop(p)
    BY <2>2
    DEF AddSteps, AddPath, StoreChunk, ReadHeadTree, SaveTree, WriteTree, ReadParents,
        SaveCommit, SetHead, WriteHead, Start
  <2>3. CASE HeadSteps(p) /\ ~Stop(p)
    BY <2>3
    DEF HeadSteps, Snapshot, LoadSnapshots, RegisterSnapshot, ApplyRetention,
        MergeHead, SetHeadPublic, ReadHeads, SetHeads, WriteHeads, Start
  <2>4. CASE GcSteps(p) /\ ~Stop(p)
    BY <2>4
    DEF GcSteps, Gc, MarkChunks, SweepChunk, MarkObjects, SweepCommit, ListTrees,
        SweepTree, EndGc, Start, locals
  <2> QED
    BY <1>1, <2>1, <2>2, <2>3, <2>4 DEF Steps, Crash
<1>2. CASE PeerSteps \/ UNCHANGED vars
  BY <1>2 DEF PeerSteps, Publish, ImportCommit, ImportTree, ImportStoredChunk, vars
<1> QED
  BY <1>0, <1>1, <1>2 DEF Next, Steps

\* A vault on which gc is never run: however commands overlap and are killed
\* between writes, all roots and all commits published can be restored.
THEOREM NothingIsDamaged ==
  ASSUME Commands \cap {"gc", "mergeany"} = {}, Crashes # "anywhere"
  PROVE  Spec => [](RootsRestorable /\ AckedOnDisk)
<1>1. ASSUME TypeOK, TypeOK', OverlapInv, [Next]_vars PROVE OverlapInv'
  <2>1. \A p \in Procs : cmd[p] \notin {"gc", "mergeany"}
    BY <1>1 DEF OverlapInv, Calm
  <2>2. \A q \in Procs : cmd'[q] \in {cmd[q], "none"} \cup Commands
    BY <1>1, CommandsRun
  <2> QED
    BY <1>1, <2>1, <2>2, OverlapStays
<1>2. TypeOK /\ TypeOK' /\ OverlapInv /\ [Next]_vars => OverlapInv'
  BY <1>1
<1>3. Spec => []Intact
  BY OnlyWritersTruncate
<1> QED
  BY <1>2, <1>3, OverlapStart, OverlapRestores, TypeCorrect, PTL DEF Spec

-----------------------------------------------------------------------------
(* The mixes of module Overlap                                             *)

MixInv == NoGc => OverlapInv

\* A step of a mix is one of the vault, and starts no command that is not of
\* the mix.
LEMMA MixSteps ==
  ASSUME [OverlapNext]_<<vars, mix>>
  PROVE  /\ [Next]_vars
         /\ mix' = mix
         /\ vars' = vars \/ \A p \in Procs : cmd'[p] \in mix.commands \cup {"none"}
<1>1. CASE OverlapNext
  BY <1>1 DEF OverlapNext, Next, Within
<1> QED
  BY <1>1

LEMMA MixTypes == OverlapSpec => [](TypeOK)
<1>1. OverlapInit => TypeOK
  BY TypeInit DEF OverlapInit
<1>2. TypeOK /\ [OverlapNext]_<<vars, mix>> => TypeOK'
  BY MixSteps, TypeStep
<1> QED
  BY <1>1, <1>2, PTL DEF OverlapSpec

LEMMA MixIntact ==
  ASSUME Crashes # "anywhere"
  PROVE  OverlapSpec => []Intact
<1>1. OverlapInit => Intact
  BY VaultAssumption DEF OverlapInit, Init, Intact
<1>2. TypeOK /\ TypeOK' /\ Intact /\ [OverlapNext]_<<vars, mix>> => Intact'
  BY MixSteps, IntactStep
<1> QED
  BY <1>1, <1>2, MixTypes, PTL DEF OverlapSpec

LEMMA MixInvHolds == OverlapSpec => []MixInv
<1>1. OverlapInit => MixInv
  BY OverlapStart DEF OverlapInit, MixInv
<1>2. ASSUME TypeOK, TypeOK', MixInv, [OverlapNext]_<<vars, mix>> PROVE MixInv'
  <2> SUFFICES ASSUME NoGc' PROVE OverlapInv'
    BY DEF MixInv
  <2>1. NoGc /\ OverlapInv /\ [Next]_vars
    BY <1>2, MixSteps DEF NoGc, MixInv
  <2>2. \A p \in Procs : cmd'[p] \notin {"gc", "mergeany"}
    <3>1. CASE vars' = vars
      BY <2>1, <3>1 DEF vars, OverlapInv, Calm
    <3>2. CASE vars' # vars
      BY <1>2, <2>1, <3>2, MixSteps DEF NoGc
    <3> QED
      BY <3>1, <3>2
  <2> QED
    BY <1>2, <2>1, <2>2, OverlapStays
<1>3. TypeOK /\ TypeOK' /\ MixInv /\ [OverlapNext]_<<vars, mix>> => MixInv'
  BY <1>2
<1> QED
  BY <1>1, <1>3, MixTypes, PTL DEF OverlapSpec

\* In a mix without gc, however commands overlap and wherever they are killed
\* between two writes, no root is left that cannot be restored.
THEOREM OverlapKeepsRoots ==
  ASSUME Crashes # "anywhere"
  PROVE  OverlapSpec => []RootsWithoutGc
<1>1. Intact /\ MixInv => RootsWithoutGc
  BY OverlapRestores DEF MixInv, RootsWithoutGc
<1>2. OverlapSpec => []Intact
  BY MixIntact
<1> QED
  BY <1>1, <1>2, MixInvHolds, PTL

\* ... and no published commit is damaged.
THEOREM OverlapKeepsAcked ==
  ASSUME Crashes # "anywhere"
  PROVE  OverlapSpec => []AckedWithoutGc
<1>1. Intact /\ MixInv => AckedWithoutGc
  BY OverlapRestores DEF MixInv, AckedWithoutGc
<1>2. OverlapSpec => []Intact
  BY MixIntact
<1> QED
  BY <1>1, <1>2, MixInvHolds, PTL

-----------------------------------------------------------------------------
(***************************************************************************)
(* The vault implements the folder of module VersionedFolder, when no two  *)
(* commands overlap: whatever the commands are and wherever they are       *)
(* killed, a truncated HEAD included.                                      *)
(***************************************************************************)
(* The inductive invariant                                                 *)

\* t is what the command of p promises to make of the folder.
Making(p, t) ==
  /\ cmd[p] \in {"add", "snapshot", "merge", "mergeany"}
  /\ cmd[p] = "add" => files[p] \in Inputs /\ t = Overlay(TipTree, files[p])
  /\ cmd[p] = "snapshot" => t = TipTree
  /\ cmd[p] \in {"merge", "mergeany"} =>
       \E v \in KnownTrees : t = MergeTrees(TipTree, v)

\* The tree, and then the commit, that p is writing is what it promises.
MakeInv(p) ==
  /\ pc[p] \in {"store", "headtree"} => cmd[p] = "add" /\ files[p] \in Inputs
  /\ pc[p] \in {"savetree", "writetree", "parents", "savecommit"} =>
       Making(p, ltree[p])
  /\ pc[p] \in {"sethead", "writehead"} =>
       IF cmd[p] = "sync" THEN lcommit[p] \in Known
                          ELSE Making(p, dag[lcommit[p]].tree)

\* A HEAD that can be read is the commit written last, and a known one.
FolderInv ==
  /\ Serial
  /\ head # Torn => head = tip
  /\ tip # None => tip \in Known
  /\ \A p \in Procs : MakeInv(p)

\* What a step of the vault is to the folder.
FolderStep == Folder!Next \/ UNCHANGED <<TipTree, KnownTrees>>

-----------------------------------------------------------------------------
(* Steps that publish nothing                                              *)

LEMMA SameVersions ==
  ASSUME UNCHANGED ghosts
  PROVE  /\ TipTree' = TipTree /\ KnownTrees' = KnownTrees /\ Known' = Known
         /\ FolderStep
BY DEF ghosts, TipTree, KnownTrees, Known, Commit, FolderStep

\* Minting a commit that nobody knows yet.
LEMMA SameTips ==
  ASSUME TypeOK, NEW r \in CommitRecord, dag' = Append(dag, r), UNCHANGED <<acked, tip>>
  PROVE  /\ TipTree' = TipTree
         /\ Known' = Known \cup (IF r.by = "peer" THEN {Len(dag) + 1} ELSE {})
         /\ KnownTrees' = KnownTrees \cup (IF r.by = "peer" THEN {r.tree} ELSE {})
<1>0. dag \in Seq(CommitRecord) /\ acked \subseteq Commit /\ tip \in Commit \cup {None}
  BY DEF TypeOK
<1>1. /\ Commit' = Commit \cup {Len(dag) + 1}
      /\ dag'[Len(dag) + 1] = r
      /\ \A c \in Commit : dag'[c] = dag[c]
  BY <1>0, DagGrows
<1>2. TipTree' = TipTree
  BY <1>0, <1>1 DEF TipTree
<1>3. Known' = Known \cup (IF r.by = "peer" THEN {Len(dag) + 1} ELSE {})
  BY <1>0, <1>1 DEF Known
<1>4. Known \subseteq Commit
  BY <1>0 DEF Known
<1>5. KnownTrees' = KnownTrees \cup (IF r.by = "peer" THEN {r.tree} ELSE {})
  <2>1. \A c \in Known : dag'[c].tree = dag[c].tree
    BY <1>1, <1>4
  <2>2. dag'[Len(dag) + 1].tree = r.tree
    BY <1>1
  <2>3. KnownTrees' = {EmptyTree} \cup {dag'[c].tree : c \in Known'}
    BY DEF KnownTrees
  <2>4. {EmptyTree} \cup {dag'[c].tree : c \in Known} = KnownTrees
    BY <2>1 DEF KnownTrees
  <2>5. CASE r.by = "peer"
    BY <1>3, <2>2, <2>3, <2>4, <2>5
  <2>6. CASE r.by # "peer"
    BY <1>3, <2>3, <2>4, <2>6
  <2> QED
    BY <2>5, <2>6
<1> QED
  BY <1>2, <1>3, <1>5

\* The other processes make nothing.
LEMMA OneMakes ==
  ASSUME ~Concurrent, TypeOK, FolderInv, NEW p \in Procs, Steps(p),
         head' # Torn => head' = tip', tip' # None => tip' \in Known', MakeInv(p)'
  PROVE  FolderInv'
<1>1. Serial' /\ \A q \in Procs \ {p} : pc'[q] = "idle"
  BY SerialStep DEF FolderInv
<1>2. \A q \in Procs \ {p} : MakeInv(q)'
  BY <1>1 DEF MakeInv
<1> QED
  BY <1>1, <1>2 DEF FolderInv

\* ... and neither does one that stops or is elsewhere in its command.
LEMMA NotMaking ==
  ASSUME NEW p \in Procs,
         pc'[p] \notin {"store", "headtree", "parents", "savetree", "writetree",
                        "savecommit", "sethead", "writehead"}
  PROVE  MakeInv(p)'
BY DEF MakeInv

LEMMA StopNotMaking ==
  ASSUME TypeOK, NEW p \in Procs, Stop(p)
  PROVE  MakeInv(p)'
BY NotMaking DEF TypeOK, Stop, Goto

\* The tree HEAD names, when it can be read.
LEMMA HeadIsTip ==
  ASSUME TypeOK, FolderInv, head = None \/ head \in commits
  PROVE  HeadTree = TipTree
<1>1. head # Torn
  BY CommitsAreNat DEF TypeOK
<1> QED
  BY <1>1 DEF FolderInv, HeadTree, TipTree

\* A known commit's tree is a version.
LEMMA KnownIsVersion ==
  /\ \A c \in Known : dag[c].tree \in KnownTrees
  /\ \A c \in Known' : dag'[c].tree \in KnownTrees'
BY DEF KnownTrees

-----------------------------------------------------------------------------
(* Each step                                                               *)

\* The steps of add up to its commit, which those of a merge and of a
\* snapshot share.
LEMMA TreeMakes ==
  ASSUME ~Concurrent, TypeOK, FolderInv, NEW p \in Procs,
         \/ \E fs \in Inputs : AddPath(p, fs)
         \/ \E k \in todo[p] : StoreChunk(p, k)
         \/ ReadHeadTree(p) \/ SaveTree(p) \/ WriteTree(p) \/ ReadParents(p)
         \/ SetHead(p)
  PROVE  FolderInv' /\ FolderStep
<1>0. /\ MakeInv(p) /\ (head # Torn => head = tip) /\ (tip # None => tip \in Known)
      /\ pc \in [Procs -> PCs] /\ cmd \in [Procs -> AllCommands \cup {"none"}]
      /\ files \in [Procs -> Tree] /\ ltree \in [Procs -> Tree]
  BY DEF FolderInv, TypeOK
<1>1. UNCHANGED ghosts
  BY DEF AddPath, StoreChunk, ReadHeadTree, SaveTree, WriteTree, ReadParents, SetHead
<1>2. /\ TipTree' = TipTree /\ KnownTrees' = KnownTrees /\ Known' = Known
      /\ FolderStep /\ UNCHANGED <<tip, dag>>
  BY <1>1, SameVersions DEF ghosts
<1>3. ASSUME MakeInv(p)' PROVE FolderInv'
  <2>1. head' = Torn \/ head' = head
    BY DEF AddPath, StoreChunk, ReadHeadTree, SaveTree, WriteTree, ReadParents, SetHead, disk
  <2>2. (head' # Torn => head' = tip') /\ (tip' # None => tip' \in Known')
    BY <1>0, <1>2, <2>1
  <2>3. AddSteps(p)
    BY DEF AddSteps
  <2> QED
    BY <1>3, <2>2, <2>3, OneMakes DEF Steps
<1>4. ASSUME NEW fs \in Inputs, AddPath(p, fs)
      PROVE  MakeInv(p)'
  <2>1. pc'[p] = "store" /\ cmd'[p] = "add" /\ files'[p] = fs
    BY <1>0, <1>4 DEF AddPath, Start, Goto
  <2> QED
    BY <1>4, <2>1 DEF MakeInv
<1>5. ASSUME NEW k \in todo[p], StoreChunk(p, k)
      PROVE  MakeInv(p)'
  <2>1. pc[p] = "store" /\ pc'[p] \in {"store", "headtree"} /\ UNCHANGED <<cmd, files>>
    BY <1>0, <1>5 DEF StoreChunk, Goto
  <2> QED
    BY <1>0, <2>1 DEF MakeInv
<1>6. ASSUME ReadHeadTree(p), ~Stop(p)
      PROVE  MakeInv(p)'
  <2>1. /\ pc[p] = "headtree" /\ pc'[p] = "savetree" /\ UNCHANGED <<cmd, files>>
        /\ ltree'[p] = NewTree(p) /\ HeadLoads
    BY <1>0, <1>6 DEF ReadHeadTree, Goto
  <2>2. HeadTree = TipTree
    BY <2>1, HeadIsTip DEF HeadLoads
  <2>3. ltree'[p] = Overlay(TipTree, files[p])
    BY <2>1, <2>2 DEF NewTree
  <2>4. cmd[p] = "add" /\ files[p] \in Inputs
    BY <1>0, <2>1 DEF MakeInv
  <2> QED
    BY <1>2, <2>1, <2>3, <2>4 DEF MakeInv, Making
<1>7. ASSUME SaveTree(p) \/ WriteTree(p) \/ (ReadParents(p) /\ ~Stop(p))
      PROVE  MakeInv(p)'
  <2>1. /\ pc[p] \in {"savetree", "writetree", "parents"}
        /\ pc'[p] \in {"writetree", "parents", "savecommit"}
        /\ UNCHANGED <<cmd, files, ltree>>
    BY <1>0, <1>7 DEF SaveTree, WriteTree, ReadParents, Goto, locals
  <2>2. Making(p, ltree[p])
    BY <1>0, <2>1 DEF MakeInv
  <2>3. Making(p, ltree[p])'
    BY <1>2, <2>1, <2>2 DEF Making
  <2> QED
    BY <2>1, <2>3 DEF MakeInv
<1>8. ASSUME SetHead(p)
      PROVE  MakeInv(p)'
  <2>1. /\ pc[p] = "sethead" /\ pc'[p] = "writehead"
        /\ UNCHANGED <<cmd, files, lcommit>>
    BY <1>0, <1>8 DEF SetHead, Goto, locals
  <2> QED
    BY <1>0, <1>2, <2>1 DEF MakeInv, Making
<1> QED
  BY <1>2, <1>3, <1>4, <1>5, <1>6, <1>7, <1>8, StopNotMaking

\* The commit a command saves is nobody's yet.
LEMMA CommitMakes ==
  ASSUME ~Concurrent, TypeOK, FolderInv, NEW p \in Procs, SaveCommit(p)
  PROVE  FolderInv' /\ FolderStep
<1>0. /\ MakeInv(p) /\ (head # Torn => head = tip) /\ (tip # None => tip \in Known)
      /\ pc \in [Procs -> PCs] /\ DOMAIN lcommit = Procs
      /\ files \in [Procs -> Tree] /\ ltree \in [Procs -> Tree]
      /\ lparents \in [Procs -> SUBSET Nat] /\ dag \in Seq(CommitRecord)
  BY DEF FolderInv, TypeOK
<1> DEFINE n == Len(dag) + 1
           r == [tree |-> ltree[p], parents |-> lparents[p],
                 by |-> cmd[p], files |-> files[p]]
<1>1. /\ UNCHANGED <<head, tip, acked, cmd, files>>
      /\ dag' = Append(dag, r)
      /\ pc[p] = "savecommit" /\ pc'[p] = "sethead" /\ lcommit'[p] = n
  BY <1>0 DEF SaveCommit, Goto
<1>2. Making(p, ltree[p])
  BY <1>0, <1>1 DEF MakeInv
<1>3. cmd[p] \in AllCommands /\ cmd[p] # "sync"
  BY <1>2 DEF Making, AllCommands
<1>4. r \in CommitRecord /\ r.by # "peer" /\ r.tree = ltree[p]
  BY <1>0, <1>3 DEF CommitRecord, AllCommands
<1>5. dag'[n] = r
  BY <1>0, <1>1, <1>4, DagGrows
<1> HIDE DEF n, r
<1>6. TipTree' = TipTree /\ Known' = Known /\ KnownTrees' = KnownTrees
  BY <1>1, <1>4, SameTips DEF n
<1>7. Making(p, dag[lcommit[p]].tree)'
  BY <1>1, <1>2, <1>4, <1>5, <1>6 DEF Making
<1>8. MakeInv(p)'
  BY <1>1, <1>3, <1>7 DEF MakeInv
<1>9. AddSteps(p)
  BY DEF AddSteps
<1>10. FolderInv'
  BY <1>0, <1>1, <1>6, <1>8, <1>9, OneMakes DEF Steps
<1> QED
  BY <1>6, <1>10 DEF FolderStep

\* The write of HEAD is the step of the folder: the files put over it, a
\* version merged in, a version taken in its place; a snapshot changes nothing.
LEMMA HeadMakes ==
  ASSUME ~Concurrent, TypeOK, FolderInv, NEW p \in Procs, WriteHead(p)
  PROVE  FolderInv' /\ FolderStep
<1>0. /\ MakeInv(p) /\ (tip # None => tip \in Known)
      /\ pc \in [Procs -> PCs] /\ acked \subseteq Commit
      /\ dag \in Seq(CommitRecord)
  BY DEF FolderInv, TypeOK
<1>1. PICK c \in Commit : c = lcommit[p]
  BY DEF WriteHead, TypeOK
<1>2. /\ pc[p] = "writehead" /\ UNCHANGED dag /\ head' = c /\ tip' = c
      /\ acked' = IF cmd[p] = "sync" THEN acked ELSE acked \cup {c}
  BY <1>1 DEF WriteHead
<1>3. IF cmd[p] = "sync" THEN c \in Known ELSE Making(p, dag[c].tree)
  BY <1>0, <1>1, <1>2 DEF MakeInv
<1>4. c # None
  BY <1>0, CommitsAreNat
<1>5. TipTree' = dag[c].tree
  BY <1>2, <1>4 DEF TipTree
<1>6. Known' = Known \cup {c}
  BY <1>2, <1>3 DEF Known, Commit
<1>7. KnownTrees' = KnownTrees \cup {dag[c].tree}
  BY <1>2, <1>6 DEF KnownTrees
<1>8. FolderInv'
  <2>1. ~Stop(p) => pc'[p] \in {"loadregister", "readheads", "setheads"}
    BY <1>0 DEF WriteHead, Goto
  <2>2. MakeInv(p)'
    BY <2>1, NotMaking, StopNotMaking
  <2>3. AddSteps(p)
    BY DEF AddSteps
  <2>4. (head' # Torn => head' = tip') /\ (tip' # None => tip' \in Known')
    BY <1>2, <1>6
  <2> QED
    BY <2>2, <2>3, <2>4, OneMakes DEF Steps
<1>9. Folder!Become(dag[c].tree)
  BY <1>5, <1>7 DEF Folder!Become
<1>10. FolderStep
  <2>1. CASE cmd[p] = "sync"
    <3>1. dag[c].tree \in KnownTrees
      BY <1>3, <2>1, KnownIsVersion
    <3>2. Folder!Adopt(dag[c].tree)
      BY <1>9, <3>1 DEF Folder!Adopt
    <3> QED
      BY <3>1, <3>2 DEF FolderStep, Folder!Next
  <2>2. CASE cmd[p] # "sync" /\ cmd[p] = "add"
    <3>1. files[p] \in Inputs /\ dag[c].tree = Overlay(TipTree, files[p])
      BY <1>3, <2>2 DEF Making
    <3>2. Folder!Put(files[p])
      BY <1>9, <3>1 DEF Folder!Put, Folder!Overlay, Overlay
    <3> QED
      BY <3>1, <3>2 DEF FolderStep, Folder!Next
  <2>3. CASE cmd[p] # "sync" /\ cmd[p] = "snapshot"
    <3>1. dag[c].tree = TipTree
      BY <1>3, <2>3 DEF Making
    <3>2. TipTree \in KnownTrees
      BY <1>0, KnownIsVersion DEF TipTree, KnownTrees
    <3> QED
      BY <1>5, <1>7, <3>1, <3>2 DEF FolderStep
  <2>4. CASE cmd[p] # "sync" /\ cmd[p] \in {"merge", "mergeany"}
    <3>1. PICK v \in KnownTrees : dag[c].tree = MergeTrees(TipTree, v)
      BY <1>3, <2>4 DEF Making
    <3>2. Folder!MergeIn(v)
      BY <1>9, <3>1 DEF Folder!MergeIn
    <3> QED
      BY <3>1, <3>2 DEF FolderStep, Folder!Next
  <2> QED
    BY <1>3, <2>1, <2>2, <2>3, <2>4 DEF Making
<1> QED
  BY <1>8, <1>10

\* The rest of snapshot, merge, sync and gc, and a kill.
LEMMA OtherMakes ==
  ASSUME ~Concurrent, TypeOK, FolderInv, NEW p \in Procs,
         HeadSteps(p) \/ GcSteps(p) \/ Crash(p)
  PROVE  FolderInv' /\ FolderStep
<1>0. /\ MakeInv(p) /\ (head # Torn => head = tip) /\ (tip # None => tip \in Known)
      /\ pc \in [Procs -> PCs] /\ cmd \in [Procs -> AllCommands \cup {"none"}]
      /\ ltree \in [Procs -> Tree] /\ DOMAIN lcommit = Procs
  BY DEF FolderInv, TypeOK
<1>1. UNCHANGED ghosts /\ UNCHANGED head
  BY DEF HeadSteps, Snapshot, LoadSnapshots, RegisterSnapshot, ApplyRetention,
         MergeHead, SetHeadPublic, ReadHeads, SetHeads, WriteHeads, GcSteps, Gc,
         MarkChunks, SweepChunk, MarkObjects, SweepCommit, ListTrees, SweepTree,
         EndGc, Crash, disk, ghosts
<1>2. /\ TipTree' = TipTree /\ KnownTrees' = KnownTrees /\ Known' = Known
      /\ FolderStep /\ UNCHANGED <<tip, dag>>
  BY <1>1, SameVersions DEF ghosts
<1>3. MakeInv(p)' => FolderInv'
  BY <1>0, <1>1, <1>2, OneMakes DEF Steps
<1>4. CASE Snapshot(p)
  <2>1. /\ pc'[p] \in {"savetree", "savecommit"} /\ cmd'[p] = "snapshot"
        /\ ltree'[p] = HeadTree /\ (head = None \/ head \in commits)
    BY <1>0, <1>4 DEF Snapshot, Start, Goto
  <2>2. ltree'[p] = TipTree
    BY <2>1, HeadIsTip
  <2> QED
    BY <1>2, <1>3, <2>1, <2>2 DEF MakeInv, Making
<1>5. ASSUME NEW r \in commits, NEW command \in {"merge", "mergeany"},
             MergeHead(p, r, command)
      PROVE  FolderInv'
  <2>1. /\ pc'[p] = "savetree" /\ cmd'[p] = command
        /\ ltree'[p] = MergeTrees(HeadTree, dag[r].tree) /\ r \in Known /\ HeadLoads
    BY <1>0, <1>5 DEF MergeHead, MergedTree, Start, Goto
  <2>2. HeadTree = TipTree
    BY <2>1, HeadIsTip DEF HeadLoads
  <2>3. dag[r].tree \in KnownTrees
    BY <2>1, KnownIsVersion
  <2>4. Making(p, ltree[p])'
    BY <1>2, <2>1, <2>2, <2>3 DEF Making
  <2> QED
    BY <1>3, <2>1, <2>4 DEF MakeInv
<1>6. ASSUME NEW r \in commits, SetHeadPublic(p, r)
      PROVE  FolderInv'
  <2>1. pc'[p] = "sethead" /\ cmd'[p] = "sync" /\ lcommit'[p] = r /\ r \in Known
    BY <1>0, <1>6 DEF SetHeadPublic, Start, Goto
  <2> QED
    BY <1>2, <1>3, <2>1 DEF MakeInv
<1>7. CASE LoadSnapshots(p) \/ RegisterSnapshot(p) \/ ApplyRetention(p) \/ ReadHeads(p)
          \/ SetHeads(p) \/ WriteHeads(p)
  <2>1. ~Stop(p) => pc'[p] \in {"register", "loadretention", "retention", "markchunks",
                                "setheads", "writeheads"}
    BY <1>0, <1>7
    DEF LoadSnapshots, RegisterSnapshot, ApplyRetention, ReadHeads, SetHeads,
        WriteHeads, Goto
  <2> QED
    BY <1>2, <1>3, <2>1, NotMaking, StopNotMaking
<1>8. CASE GcSteps(p) \/ Crash(p)
  <2>1. ~Stop(p) =>
          pc'[p] \in {"loadretention", "sweepchunks", "sweepcommits", "sweeptrees"}
    BY <1>0, <1>8
    DEF GcSteps, Gc, MarkChunks, SweepChunk, MarkObjects, SweepCommit, ListTrees,
        SweepTree, EndGc, Crash, Start, Goto
  <2> QED
    BY <1>2, <1>3, <2>1, NotMaking, StopNotMaking
<1> QED
  BY <1>2, <1>4, <1>5, <1>6, <1>7, <1>8 DEF HeadSteps

\* What a command is making stays made when the versions only grow.
LEMMA StillMaking ==
  ASSUME TypeOK, NEW p \in Procs, MakeInv(p),
         UNCHANGED <<pc, cmd, files, ltree, lcommit>>, TipTree' = TipTree,
         KnownTrees \subseteq KnownTrees', Known \subseteq Known',
         \A c \in Commit : dag'[c] = dag[c]
  PROVE  MakeInv(p)'
<1>1. pc[p] \in {"savetree", "writetree", "parents", "savecommit"} =>
        Making(p, ltree[p])'
  BY DEF MakeInv, Making
<1>2. CASE pc[p] \in {"sethead", "writehead"} /\ cmd[p] # "sync"
  <2>1. lcommit[p] \in Commit
    BY <1>2 DEF TypeOK
  <2>2. dag'[lcommit'[p]].tree = dag[lcommit[p]].tree
    BY <2>1
  <2>3. Making(p, dag[lcommit[p]].tree)
    BY <1>2 DEF MakeInv
  <2>4. Making(p, dag[lcommit[p]].tree)'
    BY <2>2, <2>3 DEF Making
  <2> QED
    BY <1>2, <2>4 DEF MakeInv
<1>3. CASE ~(pc[p] \in {"sethead", "writehead"} /\ cmd[p] # "sync")
  BY <1>1, <1>3 DEF MakeInv
<1> QED
  BY <1>2, <1>3

\* A peer's commit is one more version; imports change no version.
LEMMA PeerMakes ==
  ASSUME ~Concurrent, TypeOK, FolderInv, PeerSteps
  PROVE  FolderInv' /\ FolderStep
<1>0. /\ (head # Torn => head = tip) /\ (tip # None => tip \in Known) /\ Serial
      /\ \A p \in Procs : MakeInv(p)
      /\ dag \in Seq(CommitRecord)
  BY DEF FolderInv, TypeOK
<1>1. ASSUME NEW t \in PeerTrees, NEW ps \in {{}} \cup {{c} : c \in Known},
             Publish(t, ps)
      PROVE  FolderInv' /\ FolderStep
  <2> DEFINE r == [tree |-> t, parents |-> ps, by |-> "peer", files |-> EmptyTree]
  <2>1. /\ UNCHANGED <<head, tip, acked, pc, cmd, files, ltree, lcommit>>
        /\ dag' = Append(dag, r)
    BY <1>1 DEF Publish, disk, locals
  <2>2. r \in CommitRecord /\ r.by = "peer" /\ r.tree = t
    <3>1. ps \subseteq Nat
      BY <1>0, CommitsAreNat DEF Known, TypeOK
    <3> QED
      BY <3>1, VaultAssumption, EmptyTreeType DEF CommitRecord
  <2> HIDE DEF r
  <2>3. \A c \in Commit : dag'[c] = dag[c]
    BY <1>0, <2>1, <2>2, DagGrows
  <2>4. /\ TipTree' = TipTree /\ Known \subseteq Known'
        /\ KnownTrees' = KnownTrees \cup {t}
    BY <2>1, <2>2, SameTips
  <2>5. \A p \in Procs : MakeInv(p)'
    BY <1>0, <2>1, <2>3, <2>4, StillMaking
  <2>6. FolderInv'
    BY <1>0, <2>1, <2>4, <2>5 DEF FolderInv, Serial
  <2>7. Folder!Offer(t)
    BY <2>4 DEF Folder!Offer
  <2> QED
    BY <2>6, <2>7 DEF FolderStep, Folder!Next
<1>2. CASE UNCHANGED <<head, ghosts, pc, cmd, files, ltree, lcommit>>
  <2>1. /\ TipTree' = TipTree /\ KnownTrees' = KnownTrees /\ Known' = Known
        /\ FolderStep /\ UNCHANGED <<tip, dag>>
    BY <1>2, SameVersions DEF ghosts
  <2>2. \A p \in Procs : MakeInv(p)'
    BY <1>0, <1>2, <2>1, StillMaking
  <2> QED
    BY <1>0, <1>2, <2>1, <2>2 DEF FolderInv, Serial
<1> QED
  BY <1>1, <1>2 DEF PeerSteps, ImportCommit, ImportTree, ImportStoredChunk, locals

LEMMA FolderSimulates ==
  ASSUME ~Concurrent, TypeOK, FolderInv, [Next]_vars
  PROVE  FolderInv' /\ FolderStep
<1>1. CASE UNCHANGED vars
  <2>1. UNCHANGED <<head, ghosts, pc, cmd, files, ltree, lcommit>>
    BY <1>1 DEF vars, disk, locals
  <2>2. /\ TipTree' = TipTree /\ KnownTrees' = KnownTrees /\ Known' = Known
        /\ FolderStep /\ UNCHANGED <<tip, dag>>
    BY <2>1, SameVersions DEF ghosts
  <2>3. \A p \in Procs : MakeInv(p)'
    BY <2>1, <2>2, StillMaking DEF FolderInv
  <2> QED
    BY <2>1, <2>2, <2>3 DEF FolderInv, Serial
<1>2. ASSUME NEW p \in Procs, AddSteps(p)
      PROVE  FolderInv' /\ FolderStep
  <2>1. CASE SaveCommit(p)
    BY <2>1, CommitMakes
  <2>2. CASE WriteHead(p)
    BY <2>2, HeadMakes
  <2>3. CASE ~SaveCommit(p) /\ ~WriteHead(p)
    <3>1. \/ \E fs \in Inputs : AddPath(p, fs)
          \/ \E k \in todo[p] : StoreChunk(p, k)
          \/ ReadHeadTree(p) \/ SaveTree(p) \/ WriteTree(p) \/ ReadParents(p)
          \/ SetHead(p)
      BY <1>2, <2>3 DEF AddSteps
    <3> QED
      BY <3>1, TreeMakes
  <2> QED
    BY <2>1, <2>2, <2>3
<1>3. ASSUME NEW p \in Procs, HeadSteps(p) \/ GcSteps(p) \/ Crash(p)
      PROVE  FolderInv' /\ FolderStep
  BY <1>3, OtherMakes
<1>4. CASE PeerSteps
  BY <1>4, PeerMakes
<1> QED
  BY <1>1, <1>2, <1>3, <1>4 DEF Next

LEMMA FolderStarts == Init => FolderInv /\ Folder!Init
BY DEF Init, FolderInv, Serial, MakeInv, TipTree, KnownTrees, Known, Commit,
       Folder!Init, Folder!EmptyTree, EmptyTree

\* Commands that run one at a time make of the vault a versioned folder: what
\* add puts is put over every other file, a merge and a sync take versions that
\* exist, and nothing else - a snapshot, a gc, an import, a kill at any point,
\* even inside the write of HEAD - changes the folder or loses a version of it.
THEOREM VaultIsFolder ==
  ASSUME ~Concurrent
  PROVE  Spec => ImplementsFolder
<1>1. TypeOK /\ FolderInv /\ [Next]_vars => FolderInv' /\ FolderStep
  BY FolderSimulates
<1>2. FolderStep => [Folder!Next]_<<TipTree, KnownTrees>>
  BY DEF FolderStep
<1> QED
  BY <1>1, <1>2, FolderStarts, TypeCorrect, PTL DEF Spec, ImplementsFolder, Folder!Spec
=============================================================================
