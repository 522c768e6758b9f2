--------------------------- MODULE ContentProofs ---------------------------
(***************************************************************************)
(* Theorems about what a vault holds: the merge of two folders             *)
(* (MergeLoop), then the encodings of trees, commits and head              *)
(* announcements (Wire).                                                   *)
(***************************************************************************)
EXTENDS MergeLoop, Wire, SequenceTheorems, FiniteSetTheorems, NumberRecursion

\* A visit makes a tree of a tree, and takes no chunk from elsewhere.
LEMMA VisitTree ==
  ASSUME NEW m \in Tree, NEW p \in Paths, NEW entry \in Chunks \cup {NoFile}
  PROVE  /\ Visit(m, p, entry) \in Tree
         /\ ChunksOf(Visit(m, p, entry)) \subseteq ChunksOf(m) \cup ({entry} \ {NoFile})
<1>1. ConflictPath[p] \in Paths
  BY TreeMergeAssumption
<1>2. Visit(m, p, entry) \in Tree
  BY <1>1 DEF Visit, IsConflict, Tree
<1>3. ASSUME NEW q \in Paths
      PROVE  Visit(m, p, entry)[q] \in {m[q], entry}
  BY <1>1 DEF Visit, IsConflict, Tree
<1>4. QED
  BY <1>2, <1>3 DEF ChunksOf

\* The paths of Order are paths.
LEMMA OrderPaths == ASSUME NEW i \in DOMAIN Order PROVE Order[i] \in Paths
BY TreeMergeAssumption

-----------------------------------------------------------------------------
\* Every variable of the loop holds a value of its kind.
THEOREM LoopTypes == Spec => []TypeOK
<1>1. Init => TypeOK
  BY SidesAssumption, TreeMergeAssumption DEF Init, TypeOK
<1>2. TypeOK /\ [Step]_vars => TypeOK'
  <2> SUFFICES ASSUME TypeOK, Step PROVE TypeOK'
    BY DEF vars, TypeOK
  <2>1. next \in DOMAIN Order
    BY TreeMergeAssumption DEF TypeOK, Step
  <2>2. theirs[Order[next]] \in Chunks \cup {NoFile}
    BY <2>1, OrderPaths, SidesAssumption DEF TypeOK, Tree
  <2>3. merged' \in Tree
    BY <2>1, <2>2, OrderPaths, VisitTree DEF TypeOK, Step
  <2>4. conflicts' \in Nat
    BY DEF TypeOK, Step
  <2>5. next' \in 1 .. Len(Order) + 1
    BY <2>1, TreeMergeAssumption DEF TypeOK, Step
  <2>6. QED
    BY <2>3, <2>4, <2>5 DEF TypeOK, Step
<1>3. QED
  BY <1>1, <1>2, PTL DEF Spec

\* merge_head saves the merged tree without looking at the chunk store: the
\* tree needs no chunk that neither side needs.  It is what module Vault
\* assumes of a merge.
THEOREM MergeInventsNothing == Spec => []NothingInvented
<1>1. Init => NothingInvented
  BY DEF Init, NothingInvented
<1>2. TypeOK /\ NothingInvented /\ [Step]_vars => NothingInvented'
  <2> SUFFICES ASSUME TypeOK, NothingInvented, Step PROVE NothingInvented'
    BY DEF vars, NothingInvented
  <2>1. next \in DOMAIN Order /\ Order[next] \in Paths
    BY TreeMergeAssumption, OrderPaths DEF TypeOK, Step
  <2>2. theirs[Order[next]] \in Chunks \cup {NoFile}
    BY <2>1, SidesAssumption DEF TypeOK, Tree
  <2>3. {theirs[Order[next]]} \ {NoFile} \subseteq ChunksOf(theirs)
    BY <2>1 DEF ChunksOf
  <2>4. ChunksOf(merged') \subseteq ChunksOf(merged) \cup ({theirs[Order[next]]} \ {NoFile})
    BY <2>1, <2>2, VisitTree DEF TypeOK, Step
  <2>5. QED
    BY <2>3, <2>4 DEF NothingInvented, Step
<1>3. QED
  BY <1>1, <1>2, LoopTypes, PTL DEF Spec

-----------------------------------------------------------------------------
\* Our entries are where they were; a path of theirs visited already is
\* settled; one not visited yet still has our entry.
LoopInv ==
  /\ \A p \in Paths : ours[p] # NoFile => merged[p] = ours[p]
  /\ \A i \in 1 .. next - 1 :
       LET p == Order[i] IN theirs[p] # NoFile =>
         IF ours[p] \in {NoFile, theirs[p]} THEN merged[p] = theirs[p]
                                            ELSE merged[ConflictPath[p]] = theirs[p]
  /\ \A i \in next .. Len(Order) :
       theirs[Order[i]] # NoFile => merged[Order[i]] = ours[Order[i]]

\* A step of the loop keeps its invariant.
LEMMA LoopStep ==
  ASSUME Apart, TypeOK, LoopInv, Step
  PROVE  LoopInv'
<1> DEFINE p == Order[next]
           e == theirs[p]
           c == ConflictPath[p]
<1>1. next \in DOMAIN Order /\ next \in Nat /\ p \in Paths /\ c \in Paths
  BY TreeMergeAssumption, OrderPaths DEF TypeOK, Step
<1>2. ours \in Tree /\ theirs \in Tree /\ merged \in Tree
      /\ ours \in OurSides /\ theirs \in TheirSides
  BY SidesAssumption DEF TypeOK
<1>3. /\ ours' = ours /\ theirs' = theirs /\ next' = next + 1
      /\ merged' = Visit(merged, p, e)
  BY DEF Step
<1>4. \A q \in Paths : ours[ConflictPath[q]] = NoFile /\ theirs[ConflictPath[q]] = NoFile
  BY <1>2 DEF Apart
<1>5. DOMAIN Order = 1 .. Len(Order) /\ Len(Order) \in Nat
  BY TreeMergeAssumption
<1>6. CASE e = NoFile
  <2>1. merged' = merged
    BY <1>3, <1>6 DEF Visit, IsConflict
  <2>2. ASSUME NEW i \in 1 .. next' - 1, theirs[Order[i]] # NoFile
        PROVE  i \in 1 .. next - 1
    BY <1>1, <1>3, <1>6, <2>2
  <2>3. \A i \in next' .. Len(Order) : i \in next .. Len(Order)
    BY <1>1, <1>3, <1>5
  <2>4. QED
    BY <1>3, <2>1, <2>2, <2>3 DEF LoopInv
<1>7. CASE e # NoFile
  <2>1. merged[p] = ours[p]
    BY <1>1, <1>5, <1>7 DEF LoopInv
  <2>2. ASSUME NEW i \in DOMAIN Order, i # next
        PROVE  Order[i] # p
    BY <1>1, <2>2, TreeMergeAssumption
  <2>3. \A q \in Paths : ConflictPath[q] # p
    BY <1>4, <1>7
  <2>4. CASE IsConflict(merged, p, e)
    <3>1. merged' = [merged EXCEPT ![c] = e]
      BY <1>3, <1>7, <2>4 DEF Visit
    <3>2. ours[c] = NoFile /\ theirs[c] = NoFile
      BY <1>1, <1>4
    <3>3. merged'[c] = e /\ \A q \in Paths : q # c => merged'[q] = merged[q]
      BY <1>1, <1>2, <3>1 DEF Tree
    <3>4. \A q \in Paths : ours[q] # NoFile => merged'[q] = ours[q]
      BY <3>2, <3>3 DEF LoopInv
    <3>5. ASSUME NEW i \in 1 .. next' - 1, theirs[Order[i]] # NoFile
          PROVE  IF ours[Order[i]] \in {NoFile, theirs[Order[i]]}
                 THEN merged'[Order[i]] = theirs[Order[i]]
                 ELSE merged'[ConflictPath[Order[i]]] = theirs[Order[i]]
      <4>1. i \in DOMAIN Order /\ Order[i] \in Paths /\ Order[i] # c
        BY <1>1, <1>3, <1>5, <3>2, <3>5, OrderPaths
      <4>2. CASE i = next
        BY <2>1, <2>4, <3>3, <4>2 DEF IsConflict
      <4>3. CASE i # next
        <5>1. i \in 1 .. next - 1
          BY <1>1, <1>3, <4>3
        <5>2. ConflictPath[Order[i]] # c
          BY <1>1, <1>2, <1>7, <2>2, <3>5, <4>1, <4>3 DEF Apart
        <5>3. ConflictPath[Order[i]] \in Paths
          BY <4>1, TreeMergeAssumption
        <5>4. QED
          BY <3>3, <3>5, <4>1, <5>1, <5>2, <5>3 DEF LoopInv
      <4>4. QED
        BY <4>2, <4>3
    <3>6. ASSUME NEW i \in next' .. Len(Order), theirs[Order[i]] # NoFile
          PROVE  merged'[Order[i]] = ours[Order[i]]
      <4>1. i \in DOMAIN Order /\ i \in next .. Len(Order) /\ Order[i] \in Paths
        BY <1>1, <1>3, <1>5, OrderPaths
      <4>2. Order[i] # c
        BY <3>2, <3>6
      <4>3. QED
        BY <3>3, <3>6, <4>1, <4>2 DEF LoopInv
    <3>7. QED
      BY <1>3, <3>4, <3>5, <3>6 DEF LoopInv
  <2>5. CASE ~IsConflict(merged, p, e)
    <3>1. merged' = [merged EXCEPT ![p] = e]
      BY <1>3, <1>7, <2>5 DEF Visit
    <3>2. ours[p] \in {NoFile, e}
      BY <1>7, <2>1, <2>5 DEF IsConflict
    <3>3. merged'[p] = e /\ \A q \in Paths : q # p => merged'[q] = merged[q]
      BY <1>1, <1>2, <3>1 DEF Tree
    <3>4. \A q \in Paths : ours[q] # NoFile => merged'[q] = ours[q]
      BY <3>2, <3>3 DEF LoopInv
    <3>5. ASSUME NEW i \in 1 .. next' - 1, theirs[Order[i]] # NoFile
          PROVE  IF ours[Order[i]] \in {NoFile, theirs[Order[i]]}
                 THEN merged'[Order[i]] = theirs[Order[i]]
                 ELSE merged'[ConflictPath[Order[i]]] = theirs[Order[i]]
      <4>1. i \in DOMAIN Order /\ Order[i] \in Paths
        BY <1>1, <1>3, <1>5, OrderPaths
      <4>2. CASE i = next
        BY <3>2, <3>3, <4>2
      <4>3. CASE i # next
        <5>1. i \in 1 .. next - 1
          BY <1>1, <1>3, <4>3
        <5>2. Order[i] # p /\ ConflictPath[Order[i]] # p /\ ConflictPath[Order[i]] \in Paths
          BY <2>2, <2>3, <4>1, <4>3, TreeMergeAssumption
        <5>3. QED
          BY <3>3, <3>5, <4>1, <5>1, <5>2 DEF LoopInv
      <4>4. QED
        BY <4>2, <4>3
    <3>6. ASSUME NEW i \in next' .. Len(Order), theirs[Order[i]] # NoFile
          PROVE  merged'[Order[i]] = ours[Order[i]]
      <4>1. i \in DOMAIN Order /\ i \in next .. Len(Order) /\ i # next /\ Order[i] \in Paths
        BY <1>1, <1>3, <1>5, OrderPaths
      <4>2. QED
        BY <2>2, <3>3, <3>6, <4>1 DEF LoopInv
    <3>7. QED
      BY <1>3, <3>4, <3>5, <3>6 DEF LoopInv
  <2>6. QED
    BY <2>4, <2>5
<1>8. QED
  BY <1>6, <1>7

\* The inductive invariant of the loop, for folders no merge has touched.
THEOREM Loop == Apart => (Spec => []LoopInv)
<1>1. Init => LoopInv
  BY DEF Init, LoopInv
<1>2. Apart /\ TypeOK /\ LoopInv /\ [Step]_vars => LoopInv'
  <2>1. ASSUME LoopInv, UNCHANGED vars PROVE LoopInv'
    BY <2>1 DEF vars, LoopInv
  <2>2. QED
    BY <2>1, LoopStep
<1>3. ASSUME Apart PROVE Spec => []LoopInv
  <2>1. TypeOK /\ LoopInv /\ [Step]_vars => LoopInv'
    BY <1>2, <1>3
  <2>2. QED
    BY <1>1, <2>1, LoopTypes, PTL DEF Spec
<1>4. QED
  BY <1>3

\* "Keep our entry at the original path" (tree.rs): a merge into a folder no
\* merge has touched changes none of our files.
THEOREM OursStay == Apart => (Spec => []KeepsOurs)
<1>1. LoopInv => KeepsOurs
  BY DEF LoopInv, KeepsOurs
<1>2. QED
  BY <1>1, Loop, PTL

\* Design guarantee 9 of the README: each of their files is in the merged
\* tree, at its path or as the conflict copy.
THEOREM TheirsAreKept == Apart => (Spec => []KeepsTheirs)
<1>1. TypeOK /\ LoopInv => KeepsTheirs
  <2> SUFFICES ASSUME TypeOK, LoopInv, Done, NEW p \in Paths, theirs[p] # NoFile
               PROVE  theirs[p] \in {merged[p], merged[ConflictPath[p]]}
    BY DEF KeepsTheirs
  <2>1. PICK i \in DOMAIN Order : Order[i] = p
    BY TreeMergeAssumption
  <2>2. i \in 1 .. next - 1
    BY TreeMergeAssumption DEF Done, TypeOK
  <2>3. QED
    BY <2>1, <2>2 DEF LoopInv
<1>2. QED
  BY <1>1, Loop, LoopTypes, PTL

-----------------------------------------------------------------------------
\* The paths visited that the two sides disagree on.
Disputed == {p \in Paths : \E i \in 1 .. next - 1 :
                              Order[i] = p /\ IsConflict(ours, p, theirs[p])}

CountInv == IsFiniteSet(Disputed) /\ conflicts = Cardinality(Disputed)

\* "Returns the number of conflict copies created" (tree.rs): a merge into a
\* folder no merge has touched counts each disputed path once.
THEOREM CountIsExact == Apart => (Spec => []CountsConflicts)
<1>1. Init => CountInv
  <2> SUFFICES ASSUME Init PROVE CountInv
    OBVIOUS
  <2>1. Disputed = {}
    BY DEF Init, Disputed
  <2>2. QED
    BY <2>1, FS_EmptySet DEF Init, CountInv
<1>2. TypeOK /\ LoopInv /\ CountInv /\ [Step]_vars => CountInv'
  <2>1. ASSUME CountInv, UNCHANGED vars PROVE CountInv'
    BY <2>1 DEF vars, CountInv, Disputed
  <2>2. ASSUME TypeOK, LoopInv, CountInv, Step PROVE CountInv'
    <3> DEFINE p == Order[next]
    <3>1. next \in DOMAIN Order /\ next \in Nat /\ p \in Paths /\ 1 .. next' - 1 = (1 .. next - 1) \cup {next}
      BY <2>2, TreeMergeAssumption, OrderPaths DEF TypeOK, Step
    <3>2. p \notin Disputed
      BY <3>1, TreeMergeAssumption DEF Disputed
    <3>3. ours' = ours /\ theirs' = theirs
      BY <2>2 DEF Step
    <3>4. IsConflict(merged, p, theirs[p]) <=> IsConflict(ours, p, theirs[p])
      <4>1. theirs[p] # NoFile => merged[p] = ours[p]
        BY <2>2, <3>1, TreeMergeAssumption DEF LoopInv
      <4>2. QED
        BY <4>1 DEF IsConflict
    <3>5. Disputed' = Disputed \cup (IF IsConflict(ours, p, theirs[p]) THEN {p} ELSE {})
      BY <3>1, <3>3 DEF Disputed
    <3>6. CASE IsConflict(ours, p, theirs[p])
      <4>1. Disputed' = Disputed \cup {p}
        BY <3>5, <3>6
      <4>2. IsFiniteSet(Disputed') /\ Cardinality(Disputed') = Cardinality(Disputed) + 1
        BY <2>2, <3>2, <4>1, FS_AddElement DEF CountInv
      <4>3. conflicts' = conflicts + 1
        BY <2>2, <3>4, <3>6 DEF Step
      <4>4. QED
        BY <2>2, <4>2, <4>3 DEF CountInv
    <3>7. CASE ~IsConflict(ours, p, theirs[p])
      <4>1. Disputed' = Disputed
        BY <3>5, <3>7
      <4>2. conflicts' = conflicts
        BY <2>2, <3>4, <3>7 DEF Step, TypeOK
      <4>3. QED
        BY <2>2, <4>1, <4>2 DEF CountInv
    <3>8. QED
      BY <3>6, <3>7
  <2>3. QED
    BY <2>1, <2>2
<1>3. TypeOK /\ CountInv => CountsConflicts
  <2> SUFFICES ASSUME TypeOK, CountInv, Done
               PROVE  conflicts = Cardinality({p \in Paths : IsConflict(ours, p, theirs[p])})
    BY DEF CountsConflicts
  <2>1. DOMAIN Order \subseteq 1 .. next - 1
    BY TreeMergeAssumption DEF Done, TypeOK
  <2>2. Disputed = {p \in Paths : IsConflict(ours, p, theirs[p])}
    BY <2>1, TreeMergeAssumption DEF Disputed
  <2>3. QED
    BY <2>2 DEF CountInv
<1>4. QED
  BY <1>1, <1>2, <1>3, Loop, LoopTypes, PTL DEF Spec
-----------------------------------------------------------------------------
(* The loop as a function of the two trees                                 *)

\* f[i] is our tree after i visits.
Visits(f, mine, their) ==
  /\ f \in [0 .. Len(Order) -> Tree] /\ f[0] = mine
  /\ \A i \in 1 .. Len(Order) : f[i] = Visit(f[i - 1], Order[i], their[Order[i]])

\* The recursion of MergeWithConflicts, made explicit.
LEMMA MergeVisits ==
  ASSUME NEW mine \in Tree, NEW their \in Tree
  PROVE  \E f : Visits(f, mine, their) /\ MergeWithConflicts(mine, their) = f[Len(Order)]
<1> DEFINE n == Len(Order)
           entry(i) == their[Order[i]]
           F == [i \in 1 .. n |-> [m \in Tree |-> Visit(m, Order[i], entry(i))]]
           Def(g) == g = [i \in 0 .. n |-> IF i = 0 THEN mine
                                           ELSE Visit(g[i - 1], Order[i], their[Order[i]])]
           loop == CHOOSE g : Def(g)
<1>1. n \in Nat /\ DOMAIN Order = 1 .. n
  BY TreeMergeAssumption
<1>2. ASSUME NEW i \in 1 .. n, NEW m \in Tree PROVE Visit(m, Order[i], entry(i)) \in Tree
  <2>1. Order[i] \in Paths
    BY <1>1, OrderPaths
  <2>2. entry(i) \in Chunks \cup {NoFile}
    BY <2>1 DEF Tree
  <2> HIDE DEF entry
  <2> QED
    BY <2>1, <2>2, VisitTree
<1>3. F \in [1 .. n -> [Tree -> Tree]]
  <2> HIDE DEF n, entry
  <2> QED
    BY <1>2
<1>4. PICK f \in [0 .. n -> Tree] : Iterates(f, n, mine, F)
  <2> HIDE DEF F, n
  <2> QED
    BY <1>1, <1>3, Iteration
<1>5. Visits(f, mine, their)
  <2>1. ASSUME NEW i \in 1 .. n PROVE f[i] = Visit(f[i - 1], Order[i], their[Order[i]])
    <3>1. i - 1 \in 0 .. n
      BY <1>1
    <3>2. f[i - 1] \in Tree
      BY <3>1
    <3>3. f[i] = F[i][f[i - 1]]
      BY <1>4 DEF Iterates
    <3> QED
      BY <3>2, <3>3
  <2> QED
    BY <1>4, <2>1 DEF Iterates, Visits
<1>6. Def(f)
  <2>1. \A i \in 0 .. n : i # 0 => i \in 1 .. n
    BY <1>1
  <2> HIDE DEF n, F
  <2> QED
    BY <1>5, <2>1 DEF Visits, n
<1>7. Def(loop)
  <2> HIDE DEF Def
  <2> QED
    BY <1>6
<1>8. MergeWithConflicts(mine, their) = loop[n]
  BY DEF MergeWithConflicts
<1>9. loop[0] = mine
      /\ \A i \in 1 .. n : loop[i] = Visit(loop[i - 1], Order[i], their[Order[i]])
  <2> HIDE DEF loop
  <2>1. 0 \in 0 .. n /\ \A i \in 1 .. n : i \in 0 .. n /\ i # 0
    BY <1>1
  <2> HIDE DEF n
  <2> QED
    BY <1>7, <2>1
<1>10. loop[n] = f[n]
  <2> HIDE DEF loop, n
  <2> DEFINE H == {i \in 0 .. n : loop[i] = f[i]}
  <2>1. 0 \in H
    BY <1>1, <1>5, <1>9 DEF Visits
  <2>2. ASSUME NEW i \in 0 .. n, i < n, i \in H PROVE i + 1 \in H
    <3>1. i + 1 \in 1 .. n /\ (i + 1) - 1 = i
      BY <2>2, <1>1
    <3> QED
      BY <3>1, <1>5, <1>9, <2>2 DEF Visits, n
  <2>3. 0 .. n \subseteq H
    <3> HIDE DEF H
    <3> QED
      BY <1>1, <2>1, <2>2, UpTo
  <2> QED
    BY <1>1, <2>3
<1> QED
  BY <1>5, <1>8, <1>10

\* What the loop makes of two trees is a tree, and needs no chunk that
\* neither of them needs: the assumption under which module Vault merges.
THEOREM MergesAreTrees ==
  \A mine, their \in Tree :
    /\ MergeWithConflicts(mine, their) \in Tree
    /\ ChunksOf(MergeWithConflicts(mine, their)) \subseteq ChunksOf(mine) \cup ChunksOf(their)
<1> TAKE mine, their \in Tree
<1> DEFINE n == Len(Order)
<1>1. n \in Nat /\ DOMAIN Order = 1 .. n
  BY TreeMergeAssumption
<1>2. PICK f : Visits(f, mine, their) /\ MergeWithConflicts(mine, their) = f[n]
  BY MergeVisits
<1>3. f \in [0 .. n -> Tree] /\ f[0] = mine
  BY <1>2 DEF Visits
<1> DEFINE H == {i \in 0 .. n : ChunksOf(f[i]) \subseteq ChunksOf(mine) \cup ChunksOf(their)}
<1>4. 0 \in H
  BY <1>1, <1>3
<1>5. ASSUME NEW i \in 0 .. n, i < n, i \in H PROVE i + 1 \in H
  <2>1. i + 1 \in 1 .. n /\ i + 1 \in 0 .. n /\ (i + 1) - 1 = i
    BY <1>1, <1>5
  <2> DEFINE e == their[Order[i + 1]]
  <2>2. Order[i + 1] \in Paths
    BY <1>1, <2>1, OrderPaths
  <2>3. e \in Chunks \cup {NoFile} /\ {e} \ {NoFile} \subseteq ChunksOf(their)
    BY <2>2 DEF Tree, ChunksOf
  <2>4. f[i] \in Tree
    BY <1>3
  <2>5. f[i + 1] = Visit(f[i], Order[i + 1], e)
    BY <1>2, <2>1 DEF Visits
  <2>6. ChunksOf(f[i + 1]) \subseteq ChunksOf(f[i]) \cup ({e} \ {NoFile})
    <3> HIDE DEF e
    <3> QED
      BY <2>2, <2>3, <2>4, <2>5, VisitTree
  <2>7. ChunksOf(f[i]) \subseteq ChunksOf(mine) \cup ChunksOf(their)
    BY <1>5
  <2> HIDE DEF e
  <2> QED
    BY <2>1, <2>3, <2>6, <2>7
<1>6. n \in H
  <2> HIDE DEF H, n
  <2>1. 0 .. n \subseteq H
    BY <1>1, <1>4, <1>5, UpTo
  <2> QED
    BY <1>1, <2>1
<1> QED
  BY <1>1, <1>2, <1>3, <1>6

\* The loop of the steps computes the function: what the runs and the proofs
\* say of the loop holds of every merge in module Vault.
ComputeInv == \E f : Visits(f, ours, theirs) /\ merged = f[next - 1]
                     /\ MergeWithConflicts(ours, theirs) = f[Len(Order)]

THEOREM LoopComputes == Spec => [](Done => merged = MergeWithConflicts(ours, theirs))
<1>1. Init => ComputeInv
  <2> SUFFICES ASSUME Init PROVE ComputeInv
    OBVIOUS
  <2>1. ours \in Tree /\ theirs \in Tree
    BY SidesAssumption DEF Init
  <2>2. PICK f : Visits(f, ours, theirs) /\ MergeWithConflicts(ours, theirs) = f[Len(Order)]
    BY <2>1, MergeVisits
  <2>3. merged = f[0] /\ next - 1 = 0
    BY <2>2 DEF Init, Visits
  <2> QED
    BY <2>2, <2>3 DEF ComputeInv
<1>2. TypeOK /\ ComputeInv /\ [Step]_vars => ComputeInv'
  <2>1. ASSUME ComputeInv, UNCHANGED vars PROVE ComputeInv'
    BY <2>1 DEF vars, ComputeInv
  <2>2. ASSUME TypeOK, ComputeInv, Step PROVE ComputeInv'
    <3>1. PICK f : Visits(f, ours, theirs) /\ merged = f[next - 1]
                   /\ MergeWithConflicts(ours, theirs) = f[Len(Order)]
      BY <2>2 DEF ComputeInv
    <3>2. next \in 1 .. Len(Order) /\ next' - 1 = next
      BY <2>2, TreeMergeAssumption DEF TypeOK, Step
    <3>3. merged' = f[next' - 1]
      BY <2>2, <3>1, <3>2 DEF Step, Visits
    <3>4. ours' = ours /\ theirs' = theirs
      BY <2>2 DEF Step
    <3> QED
      BY <3>1, <3>3, <3>4 DEF ComputeInv
  <2> QED
    BY <2>1, <2>2
<1>3. TypeOK /\ ComputeInv => (Done => merged = MergeWithConflicts(ours, theirs))
  <2> SUFFICES ASSUME TypeOK, ComputeInv, Done
               PROVE  merged = MergeWithConflicts(ours, theirs)
    OBVIOUS
  <2>1. next - 1 = Len(Order)
    BY TreeMergeAssumption DEF TypeOK, Done
  <2> QED
    BY <2>1 DEF ComputeInv
<1> QED
  BY <1>1, <1>2, <1>3, LoopTypes, PTL DEF Spec

\* "sync --merge runs merge_head again": a second merge of the same head
\* changes nothing, each of its files being at its path or in its copy.
THEOREM MergingAgainChangesNothing == Apart => (Spec => []Remerging)
<1>1. TypeOK /\ LoopInv /\ Apart => Remerging
  <2> SUFFICES ASSUME TypeOK, LoopInv, Apart, Done
               PROVE  MergeWithConflicts(merged, theirs) = merged
    BY DEF Remerging
  <2> DEFINE n == Len(Order)
  <2>1. n \in Nat /\ DOMAIN Order = 1 .. n /\ next - 1 = n
    BY TreeMergeAssumption DEF Done, TypeOK
  <2>2. merged \in Tree /\ theirs \in Tree /\ ours \in Tree /\ theirs \in TheirSides
    BY SidesAssumption DEF TypeOK
  <2>3. ASSUME NEW i \in 1 .. n
        PROVE  Visit(merged, Order[i], theirs[Order[i]]) = merged
    <3> DEFINE p == Order[i]
               e == theirs[p]
               c == ConflictPath[p]
    <3>1. p \in Paths /\ c \in Paths /\ i \in 1 .. next - 1
      BY <2>1, OrderPaths, TreeMergeAssumption
    <3>2. CASE e = NoFile
      BY <3>2 DEF Visit, IsConflict
    <3>3. CASE e # NoFile /\ ours[p] \in {NoFile, e}
      <4>1. merged[p] = e
        BY <3>1, <3>3 DEF LoopInv
      <4>2. ~IsConflict(merged, p, e)
        BY <4>1 DEF IsConflict
      <4>3. Visit(merged, p, e) = [merged EXCEPT ![p] = e]
        BY <3>3, <4>2 DEF Visit
      <4> QED
        BY <2>2, <3>1, <4>1, <4>3 DEF Tree
    <3>4. CASE e # NoFile /\ ours[p] \notin {NoFile, e}
      <4>1. merged[c] = e /\ merged[p] = ours[p]
        BY <3>1, <3>4 DEF LoopInv
      <4>2. IsConflict(merged, p, e)
        BY <3>4, <4>1 DEF IsConflict
      <4>3. Visit(merged, p, e) = [merged EXCEPT ![c] = e]
        BY <3>4, <4>2 DEF Visit
      <4> QED
        BY <2>2, <3>1, <4>1, <4>3 DEF Tree
    <3> QED
      BY <3>2, <3>3, <3>4
  <2>4. PICK f : Visits(f, merged, theirs) /\ MergeWithConflicts(merged, theirs) = f[n]
    BY <2>2, MergeVisits
  <2> DEFINE H == {i \in 0 .. n : f[i] = merged}
  <2>5. 0 \in H
    BY <2>1, <2>4 DEF Visits
  <2>6. ASSUME NEW i \in 0 .. n, i < n, i \in H PROVE i + 1 \in H
    <3>1. i + 1 \in 1 .. n /\ i + 1 \in 0 .. n /\ (i + 1) - 1 = i
      BY <2>1, <2>6
    <3>2. f[i + 1] = Visit(f[i], Order[i + 1], theirs[Order[i + 1]])
      BY <2>4, <3>1 DEF Visits
    <3> QED
      BY <2>3, <2>6, <3>1, <3>2
  <2>7. n \in H
    <3> HIDE DEF H, n
    <3>1. 0 .. n \subseteq H
      BY <2>1, <2>5, <2>6, UpTo
    <3> QED
      BY <2>1, <3>1
  <2> QED
    BY <2>4, <2>7
<1>2. ASSUME Apart PROVE Spec => []Remerging
  <2>1. TypeOK /\ LoopInv => Remerging
    BY <1>1, <1>2
  <2>2. Spec => []LoopInv
    BY <1>2, Loop
  <2> QED
    BY <2>1, <2>2, LoopTypes, PTL
<1> QED
  BY <1>2

-----------------------------------------------------------------------------
(* Sequences laid end to end                                               *)

\* What stands where in two sequences laid end to end.
LEMMA ConcatAt ==
  ASSUME NEW T, NEW x \in Seq(T), NEW y \in Seq(T)
  PROVE  /\ x \o y \in Seq(T) /\ Len(x \o y) = Len(x) + Len(y)
         /\ \A i \in 1 .. Len(x) : (x \o y)[i] = x[i]
         /\ \A j \in 1 .. Len(y) : (x \o y)[Len(x) + j] = y[j]
OBVIOUS

\* f[i] is the first i of the parts, laid end to end.
Joins(f, parts, T) ==
  /\ f \in [0 .. Len(parts) -> Seq(T)] /\ f[0] = <<>>
  /\ \A i \in 1 .. Len(parts) : f[i] = f[i - 1] \o parts[i]

\* The recursion of FlattenSeq, made explicit.
LEMMA FlattenSteps ==
  ASSUME NEW T, NEW parts \in Seq(Seq(T))
  PROVE  \E f : Joins(f, parts, T) /\ Seqs!FlattenSeq(parts) = f[Len(parts)]
<1> DEFINE n == Len(parts)
           E == Seq(T)
           e == <<>>
           F == [i \in 1 .. n |-> [x \in E |-> x \o parts[i]]]
           Def(g) == g = [i \in 1 .. n |-> IF i = 1 THEN parts[i] ELSE g[i - 1] \o parts[i]]
           flatten == CHOOSE g : Def(g)
<1>1. n \in Nat /\ e \in E
  OBVIOUS
<1>2. ASSUME NEW i \in 1 .. n, NEW x \in E PROVE x \o parts[i] \in E
  <2>1. parts[i] \in Seq(T)
    OBVIOUS
  <2> QED
    BY <2>1
<1>3. F \in [1 .. n -> [E -> E]]
  <2> HIDE DEF n, E
  <2> QED
    BY <1>2
<1>4. PICK f \in [0 .. n -> E] : Iterates(f, n, e, F)
  <2> HIDE DEF F, n, E, e
  <2> QED
    BY <1>1, <1>3, Iteration
<1>5. \A i \in 1 .. n : f[i] = f[i - 1] \o parts[i]
  <2> TAKE i \in 1 .. n
  <2>1. i - 1 \in 0 .. n
    BY <1>1
  <2>2. f[i - 1] \in E
    BY <2>1
  <2>3. f[i] = F[i][f[i - 1]]
    BY <1>4 DEF Iterates
  <2> QED
    BY <2>2, <2>3
<1>6. Joins(f, parts, T)
  BY <1>4, <1>5 DEF Iterates, Joins
<1>7. CASE n = 0
  <2>1. parts = <<>>
    BY <1>7, EmptySeq
  <2>2. Seqs!FlattenSeq(parts) = parts
    BY <1>7 DEF Seqs!FlattenSeq
  <2> QED
    BY <1>6, <1>7, <2>1, <2>2 DEF Joins
<1>8. CASE n # 0
  <2> DEFINE g == [i \in 1 .. n |-> f[i]]
  <2>1. f[1] = parts[1]
    <3>1. 1 \in 1 .. n /\ 1 - 1 = 0
      BY <1>1, <1>8
    <3>2. f[1] = f[1 - 1] \o parts[1]
      BY <1>5, <3>1
    <3>3. f[1 - 1] = <<>>
      BY <1>6, <3>1 DEF Joins
    <3>4. parts[1] \in Seq(T)
      BY <3>1
    <3>5. <<>> \o parts[1] = parts[1]
      BY <3>4
    <3> QED
      BY <3>2, <3>3, <3>5
  <2>2. Def(g)
    <3>1. \A i \in 1 .. n : i # 1 => i - 1 \in 1 .. n
      BY <1>1
    <3> HIDE DEF n, F
    <3> QED
      BY <1>5, <2>1, <3>1
  <2>3. Def(flatten)
    <3> HIDE DEF Def, g
    <3> QED
      BY <2>2
  <2>4. Seqs!FlattenSeq(parts) = flatten[n]
    BY <1>8 DEF Seqs!FlattenSeq
  <2>5. \A i \in 1 .. n : flatten[i] = IF i = 1 THEN parts[i] ELSE flatten[i - 1] \o parts[i]
    <3> HIDE DEF flatten, n
    <3> QED
      BY <2>3
  <2>6. flatten[n] = f[n]
    <3> HIDE DEF flatten, n
    <3> DEFINE H == {i \in 0 .. n : i = 0 \/ flatten[i] = f[i]}
    <3>1. 0 \in H
      BY <1>1
    <3>2. ASSUME NEW i \in 0 .. n, i < n, i \in H PROVE i + 1 \in H
      <4>1. i + 1 \in 1 .. n /\ (i + 1) - 1 = i /\ i + 1 \in 0 .. n
        BY <3>2, <1>1
      <4>2. CASE i = 0
        <5>1. i + 1 = 1
          BY <4>2
        <5>2. flatten[1] = parts[1] /\ f[1] = parts[1]
          BY <2>1, <2>5, <4>1, <5>1
        <5> QED
          BY <4>1, <5>1, <5>2
      <4>3. CASE i # 0
        <5>1. i + 1 # 1
          BY <4>3
        <5>2. flatten[i + 1] = flatten[i] \o parts[i + 1]
          BY <2>5, <4>1, <5>1
        <5>3. f[i + 1] = f[i] \o parts[i + 1]
          BY <1>5, <4>1
        <5> QED
          BY <3>2, <4>1, <4>3, <5>2, <5>3
      <4> QED
        BY <4>2, <4>3
    <3>3. 0 .. n \subseteq H
      <4> HIDE DEF H
      <4> QED
        BY <1>1, <3>1, <3>2, UpTo
    <3>4. n \in 0 .. n
      BY <1>1
    <3> QED
      BY <1>8, <3>3, <3>4
  <2> QED
    BY <1>6, <2>4, <2>6
<1> QED
  BY <1>7, <1>8

\* What the parts are, when it is kept by laying end to end, the whole is.
LEMMA FlattenIn ==
  ASSUME NEW T, NEW parts \in Seq(Seq(T)), NEW G \in SUBSET Seq(T), <<>> \in G,
         \A i \in 1 .. Len(parts) : parts[i] \in G,
         \A x \in G : \A y \in G : x \o y \in G
  PROVE  Seqs!FlattenSeq(parts) \in G
<1> DEFINE n == Len(parts)
<1>1. n \in Nat
  OBVIOUS
<1>2. PICK f : Joins(f, parts, T) /\ Seqs!FlattenSeq(parts) = f[n]
  BY FlattenSteps
<1> DEFINE H == {i \in 0 .. n : f[i] \in G}
<1>3. 0 \in H
  BY <1>1, <1>2 DEF Joins
<1>4. ASSUME NEW i \in 0 .. n, i < n, i \in H PROVE i + 1 \in H
  <2>1. i + 1 \in 1 .. n /\ (i + 1) - 1 = i /\ i + 1 \in 0 .. n
    BY <1>1, <1>4
  <2>2. f[i + 1] = f[i] \o parts[i + 1] /\ parts[i + 1] \in G /\ f[i] \in G
    BY <1>2, <1>4, <2>1 DEF Joins
  <2> QED
    BY <2>1, <2>2
<1>5. n \in H
  <2> HIDE DEF H, n
  <2>1. 0 .. n \subseteq H
    BY <1>1, <1>3, <1>4, UpTo
  <2> QED
    BY <1>1, <2>1
<1> QED
  BY <1>2, <1>5

\* off[j] is the length of the first j parts.
Offsets(off, parts) ==
  /\ off \in [0 .. Len(parts) -> Nat] /\ off[0] = 0
  /\ \A j \in 1 .. Len(parts) : off[j] = off[j - 1] + Len(parts[j])

\* There are such offsets.
LEMMA OffsetsExist ==
  ASSUME NEW T, NEW parts \in Seq(Seq(T))
  PROVE  \E off : Offsets(off, parts)
<1> DEFINE n == Len(parts)
           F == [i \in 1 .. n |-> [x \in Nat |-> x + Len(parts[i])]]
<1>1. n \in Nat
  OBVIOUS
<1>2. ASSUME NEW i \in 1 .. n PROVE Len(parts[i]) \in Nat
  <2>1. parts[i] \in Seq(T)
    OBVIOUS
  <2> QED
    BY <2>1
<1>3. F \in [1 .. n -> [Nat -> Nat]]
  <2> HIDE DEF n
  <2> QED
    BY <1>2
<1>4. PICK f \in [0 .. n -> Nat] : Iterates(f, n, 0, F)
  <2> HIDE DEF F, n
  <2> QED
    BY <1>1, <1>3, Iteration
<1>5. \A i \in 1 .. n : f[i] = f[i - 1] + Len(parts[i])
  <2> TAKE i \in 1 .. n
  <2>1. i - 1 \in 0 .. n
    BY <1>1
  <2>2. f[i - 1] \in Nat
    BY <2>1
  <2>3. f[i] = F[i][f[i - 1]]
    BY <1>4 DEF Iterates
  <2> QED
    BY <2>2, <2>3
<1>6. Offsets(f, parts)
  BY <1>4, <1>5 DEF Iterates, Offsets
<1> QED
  BY <1>6

\* Where the items of each part are.
LEMMA FlattenAt ==
  ASSUME NEW T, NEW parts \in Seq(Seq(T)), NEW off, Offsets(off, parts)
  PROVE  /\ Seqs!FlattenSeq(parts) \in Seq(T)
         /\ Len(Seqs!FlattenSeq(parts)) = off[Len(parts)]
         /\ \A j \in 1 .. Len(parts) : \A k \in 1 .. Len(parts[j]) :
              /\ off[j - 1] + k \in 1 .. off[Len(parts)]
              /\ Seqs!FlattenSeq(parts)[off[j - 1] + k] = parts[j][k]
<1> DEFINE n == Len(parts)
<1>1. n \in Nat
  OBVIOUS
<1>2. PICK f : Joins(f, parts, T) /\ Seqs!FlattenSeq(parts) = f[n]
  BY FlattenSteps
<1> DEFINE Laid(i, j) == \A k \in 1 .. Len(parts[j]) :
                          off[j - 1] + k \in 1 .. off[i] /\ f[i][off[j - 1] + k] = parts[j][k]
           H == {i \in 0 .. n : Len(f[i]) = off[i] /\ \A j \in 1 .. i : Laid(i, j)}
<1>3. \A j \in 1 .. n : parts[j] \in Seq(T) /\ Len(parts[j]) \in Nat
  <2> TAKE j \in 1 .. n
  <2>1. parts[j] \in Seq(T)
    OBVIOUS
  <2> QED
    BY <2>1
<1>4. \A i \in 0 .. n : f[i] \in Seq(T) /\ off[i] \in Nat
  BY <1>2 DEF Joins, Offsets
<1>5. 0 \in H
  <2>1. 0 \in 0 .. n /\ f[0] = <<>> /\ off[0] = 0
    BY <1>1, <1>2 DEF Joins, Offsets
  <2> HIDE DEF Laid
  <2> QED
    BY <2>1
<1>6. ASSUME NEW i \in 0 .. n, i < n, i \in H PROVE i + 1 \in H
  <2>1. i + 1 \in 1 .. n /\ (i + 1) - 1 = i /\ i + 1 \in 0 .. n
    BY <1>1, <1>6
  <2> DEFINE m == i + 1
             p == parts[m]
  <2>2. f[m] = f[i] \o p
    BY <1>2, <2>1 DEF Joins
  <2>3. off[m] = off[i] + Len(p)
    BY <2>1 DEF Offsets
  <2>4. /\ f[i] \in Seq(T) /\ off[i] \in Nat /\ Len(f[i]) = off[i]
        /\ p \in Seq(T) /\ Len(p) \in Nat
    BY <1>3, <1>4, <1>6, <2>1
  <2>5. Len(f[m]) = off[m]
    <3> HIDE DEF m, p
    <3> QED
      BY <2>2, <2>3, <2>4
  <2>6. ASSUME NEW j \in 1 .. m PROVE Laid(m, j)
    <3> SUFFICES ASSUME NEW k \in 1 .. Len(parts[j])
                 PROVE  off[j - 1] + k \in 1 .. off[m] /\ f[m][off[j - 1] + k] = parts[j][k]
      OBVIOUS
    <3>1. CASE j = m
      <4>1. j - 1 = i /\ parts[j] = p /\ k \in 1 .. Len(p)
        BY <2>1, <3>1
      <4>2. off[i] + k \in 1 .. off[m]
        <5> HIDE DEF m, p
        <5>1. off[i] \in Nat /\ Len(p) \in Nat /\ k \in 1 .. Len(p)
          BY <2>4, <4>1
        <5> QED
          BY <2>3, <5>1
      <4>3. (f[i] \o p)[off[i] + k] = p[k]
        <5> HIDE DEF m, p
        <5>1. f[i] \in Seq(T) /\ p \in Seq(T) /\ Len(f[i]) = off[i] /\ k \in 1 .. Len(p)
          BY <2>4, <4>1
        <5> DEFINE g == f[i]
        <5> HIDE DEF g
        <5>2. (g \o p)[Len(g) + k] = p[k]
          BY <5>1, SMTT(30) DEF g
        <5> QED
          BY <5>1, <5>2 DEF g
      <4> QED
        BY <2>2, <4>1, <4>2, <4>3
    <3>2. CASE j # m
      <4>1. j \in 1 .. i /\ j \in 1 .. n
        BY <1>1, <2>1, <3>2
      <4>2. off[j - 1] + k \in 1 .. off[i] /\ f[i][off[j - 1] + k] = parts[j][k]
        BY <1>6, <4>1
      <4> DEFINE x == off[j - 1] + k
      <4>3. x \in 1 .. off[m]
        <5>1. x \in 1 .. off[i] /\ off[i] \in Nat /\ Len(p) \in Nat
          BY <2>4, <4>2
        <5> HIDE DEF m, p, x
        <5> QED
          BY <2>3, <5>1
      <4>4. (f[i] \o p)[x] = f[i][x]
        <5> HIDE DEF m, p, x
        <5>1. x \in 1 .. Len(f[i])
          BY <2>4, <4>2 DEF x
        <5> QED
          BY <2>4, <5>1
      <4> QED
        BY <2>2, <4>2, <4>3, <4>4
    <3> QED
      BY <3>1, <3>2
  <2> HIDE DEF Laid, p
  <2> QED
    BY <2>1, <2>5, <2>6
<1>7. n \in H
  <2> HIDE DEF H, n, Laid
  <2>1. 0 .. n \subseteq H
    BY <1>1, <1>5, <1>6, UpTo
  <2> QED
    BY <1>1, <2>1
<1>8. \A j \in 1 .. n : Laid(n, j)
  <2> HIDE DEF Laid, n
  <2> QED
    BY <1>7
<1> QED
  BY <1>2, <1>4, <1>7, <1>8

-----------------------------------------------------------------------------
(* Items, fields and entries                                               *)

Texts == Said \cup {NoText, Unsigned}
Kinds == {"uint", "map", "array", "bstr", "tstr"}
Items == [type : Kinds, width : {0, 1, 2, 4, 8, 9}, number : Nat, text : Texts]
ShortItems == {x \in Items : Shortest(x)}

FieldNames == {"number", "short", "text", "hashes", "bytes16", "bytes32", "bytes64"}

\* The values of a field that a decoder takes.
FieldValues(field) ==
  CASE field = "number" -> Nat
    [] field = "short" -> {v \in Nat : v < 65536}
    [] field = "hashes" -> {s \in Seq(Texts) : Len(s) <= MaxParents}
    [] OTHER -> Texts

Files == [dir : {FALSE}, size : Nat, chunks : Seq(Texts), hash : {NoText}]
Dirs == [dir : {TRUE}, size : {0}, chunks : {<<>>}, hash : Texts]
Entries == Files \cup Dirs

\* The encoder's items have their shortest form.
LEMMA ItemIsShort ==
  ASSUME NEW type \in Kinds, NEW v \in Nat, NEW text \in Texts
  PROVE  Item(type, v, text) \in ShortItems
<1>1. Item(type, v, text) \in Items
  BY DEF Item, Items, Width
<1>2. Shortest(Item(type, v, text))
  BY DEF Item, Shortest, Width
<1> QED
  BY <1>1, <1>2 DEF ShortItems

\* So do the items of every kind.
LEMMA ItemsAreShort ==
  /\ \A v \in Nat : /\ Uint(v) \in ShortItems /\ MapOf(v) \in ShortItems
                    /\ ArrayOf(v) \in ShortItems /\ PathItem(v) \in ShortItems
  /\ \A text \in Texts : Name(text) \in ShortItems
  /\ \A v \in Nat, text \in Texts : Bytes(v, text) \in ShortItems
<1>1. NoText \in Texts /\ 8 \in Nat
  BY DEF Texts
<1>2. "uint" \in Kinds /\ "map" \in Kinds /\ "array" \in Kinds /\ "bstr" \in Kinds /\ "tstr" \in Kinds
  BY DEF Kinds
<1> QED
  BY <1>1, <1>2, ItemIsShort DEF Uint, MapOf, ArrayOf, PathItem, Name, Bytes

\* What the items of an array of hashes are.
LEMMA HashItemsAre ==
  ASSUME NEW s \in Seq(Texts)
  PROVE  /\ HashItems(s) \in Seq(ShortItems) /\ Len(HashItems(s)) = Len(s) + 1
         /\ HashItems(s)[1] = ArrayOf(Len(s))
         /\ \A j \in 1 .. Len(s) : HashItems(s)[j + 1] = Bytes(32, s[j])
<1> DEFINE a == <<ArrayOf(Len(s))>>
           b == [j \in 1 .. Len(s) |-> Bytes(32, s[j])]
<1>1. a \in Seq(ShortItems) /\ Len(a) = 1 /\ a[1] = ArrayOf(Len(s))
  <2>1. ArrayOf(Len(s)) \in ShortItems
    BY ItemsAreShort
  <2> QED
    BY <2>1
<1>2. b \in Seq(ShortItems) /\ Len(b) = Len(s) /\ \A j \in 1 .. Len(s) : b[j] = Bytes(32, s[j])
  <2>1. \A j \in 1 .. Len(s) : Bytes(32, s[j]) \in ShortItems
    <3> TAKE j \in 1 .. Len(s)
    <3>1. s[j] \in Texts /\ 32 \in Nat
      OBVIOUS
    <3> QED
      BY <3>1, ItemsAreShort
  <2> QED
    BY <2>1
<1>3. HashItems(s) = a \o b
  BY DEF HashItems
<1> HIDE DEF a, b
<1>4. /\ a \o b \in Seq(ShortItems) /\ Len(a \o b) = Len(s) + 1
      /\ (a \o b)[1] = a[1] /\ \A j \in 1 .. Len(s) : (a \o b)[j + 1] = b[j]
  <2> DEFINE n == Len(s)
             S == ShortItems
  <2>1. n \in Nat
    OBVIOUS
  <2>2. a \in Seq(S) /\ b \in Seq(S) /\ Len(a) = 1 /\ Len(b) = n
    BY <1>1, <1>2
  <2> HIDE DEF n, S
  <2>3. /\ a \o b \in Seq(S) /\ Len(a \o b) = 1 + n
        /\ \A i \in 1 .. 1 : (a \o b)[i] = a[i]
        /\ \A j \in 1 .. n : (a \o b)[1 + j] = b[j]
    BY <2>2, ConcatAt, SMTT(30)
  <2>4. \A j \in 1 .. n : 1 + j = j + 1
    BY <2>1
  <2> QED
    BY <2>1, <2>3, <2>4 DEF n, S
<1> QED
  BY <1>1, <1>2, <1>3, <1>4

\* A field's items have their shortest form.
LEMMA FieldItemsAreShort ==
  ASSUME NEW field \in FieldNames, NEW v \in FieldValues(field)
  PROVE  FieldItems(field, v) \in Seq(ShortItems)
<1>1. CASE field \in {"number", "short"}
  <2>1. v \in Nat
    BY <1>1 DEF FieldValues
  <2>2. Uint(v) \in ShortItems
    BY <2>1, ItemsAreShort
  <2> QED
    BY <1>1, <2>2 DEF FieldItems
<1>2. CASE field = "hashes"
  <2>1. v \in Seq(Texts)
    BY <1>2 DEF FieldValues
  <2>2. HashItems(v) \in Seq(ShortItems)
    BY <2>1, HashItemsAre
  <2> QED
    BY <1>2, <2>2 DEF FieldItems
<1>3. CASE field \notin {"number", "short", "hashes"}
  <2>1. v \in Texts
    BY <1>3 DEF FieldValues
  <2>2. Name(v) \in ShortItems /\ Bytes(Long(field), v) \in ShortItems
    <3>1. Long(field) \in Nat
      BY DEF Long
    <3> QED
      BY <2>1, <3>1, ItemsAreShort
  <2> QED
    BY <1>3, <2>2 DEF FieldItems
<1> QED
  BY <1>1, <1>2, <1>3

\* The parts of a map of fields.
FieldParts(fields, value) ==
  [k \in 1 .. Len(fields) |-> <<Uint(k)>> \o FieldItems(fields[k], value[k])]

\* So has every part.
LEMMA FieldPartsAre ==
  ASSUME NEW fields \in Seq(FieldNames), NEW value,
         \A k \in 1 .. Len(fields) : value[k] \in FieldValues(fields[k])
  PROVE  /\ FieldParts(fields, value) \in Seq(Seq(ShortItems))
         /\ Len(FieldParts(fields, value)) = Len(fields)
<1>1. ASSUME NEW k \in 1 .. Len(fields)
      PROVE  <<Uint(k)>> \o FieldItems(fields[k], value[k]) \in Seq(ShortItems)
  <2>1. fields[k] \in FieldNames /\ value[k] \in FieldValues(fields[k])
    OBVIOUS
  <2>2. FieldItems(fields[k], value[k]) \in Seq(ShortItems)
    BY <2>1, FieldItemsAreShort
  <2>3. Uint(k) \in ShortItems
    BY ItemsAreShort
  <2> QED
    BY <2>2, <2>3
<1> QED
  BY <1>1 DEF FieldParts

\* And so has the whole map.
LEMMA FieldsAreShort ==
  ASSUME NEW fields \in Seq(FieldNames), NEW value,
         \A k \in 1 .. Len(fields) : value[k] \in FieldValues(fields[k])
  PROVE  EncodeFields(fields, value) \in Seq(ShortItems)
<1> DEFINE parts == FieldParts(fields, value)
<1>1. parts \in Seq(Seq(ShortItems))
  BY FieldPartsAre
<1>2. PICK off : Offsets(off, parts)
  <2> HIDE DEF parts
  <2> QED
    BY <1>1, OffsetsExist
<1>3. Seqs!FlattenSeq(parts) \in Seq(ShortItems)
  <2> HIDE DEF parts
  <2> QED
    BY <1>1, <1>2, FlattenAt
<1>4. MapOf(Len(fields)) \in ShortItems
  BY ItemsAreShort
<1>5. EncodeFields(fields, value) = <<MapOf(Len(fields))>> \o Seqs!FlattenSeq(parts)
  BY DEF EncodeFields, FieldParts
<1> HIDE DEF parts
<1> QED
  BY <1>3, <1>4, <1>5

-----------------------------------------------------------------------------
(* What a decoder takes                                                    *)

\* What is read is there.
LEMMA ReadsIn ==
  ASSUME NEW w, NEW i, NEW type \in Kinds, Reads(w, i, type)
  PROVE  i \in DOMAIN w /\ w[i].type = type /\ ItemAt(w, i) = w[i]
BY DEF Reads, ItemAt, Kinds

\* What an array of hashes is read as.
LEMMA HashesTyped ==
  ASSUME NEW w \in Seq(Items), NEW i, ReadsHashes(w, i)
  PROVE  /\ i \in DOMAIN w /\ HashesAt(w, i) \in Seq(Texts)
         /\ Len(HashesAt(w, i)) = w[i].number
<1>1. "array" \in Kinds /\ "bstr" \in Kinds
  BY DEF Kinds
<1>2. i \in DOMAIN w /\ ItemAt(w, i) = w[i]
  BY <1>1, ReadsIn DEF ReadsHashes
<1>3. w[i] \in Items /\ w[i].number \in Nat
  <2>1. w[i] \in Items
    BY <1>2
  <2> QED
    BY <2>1 DEF Items
<1>4. ASSUME NEW j \in 1 .. w[i].number PROVE w[i + j].text \in Texts
  <2>1. Reads(w, i + j, "bstr")
    BY <1>2 DEF ReadsHashes, ReadsBytes
  <2>2. i + j \in DOMAIN w
    BY <1>1, <2>1, ReadsIn
  <2>3. w[i + j] \in Items
    BY <2>2
  <2> QED
    BY <2>3 DEF Items
<1> QED
  BY <1>2, <1>3, <1>4 DEF HashesAt

\* A field is read as a value it may have.
LEMMA FieldTyped ==
  ASSUME NEW w \in Seq(Items), NEW i, NEW field \in FieldNames, ReadsField(field, w, i)
  PROVE  FieldAt(field, w, i) \in FieldValues(field)
<1>1. "uint" \in Kinds /\ "tstr" \in Kinds /\ "bstr" \in Kinds
  BY DEF Kinds
<1>2. CASE field \in {"number", "short"}
  <2>1. i \in DOMAIN w
    BY <1>1, <1>2, ReadsIn DEF ReadsField
  <2>2. w[i] \in Items
    BY <2>1
  <2> QED
    BY <1>2, <2>2 DEF Items, FieldAt, FieldValues, ReadsField
<1>3. CASE field = "hashes"
  <2>1. ReadsHashes(w, i) /\ w[i].number <= MaxParents
    BY <1>3 DEF ReadsField
  <2>2. HashesAt(w, i) \in Seq(Texts) /\ Len(HashesAt(w, i)) = w[i].number
    BY <2>1, HashesTyped
  <2> QED
    BY <1>3, <2>1, <2>2 DEF FieldAt, FieldValues
<1>4. CASE field \notin {"number", "short", "hashes"}
  <2>1. i \in DOMAIN w
    BY <1>1, <1>4, ReadsIn DEF ReadsField, ReadsBytes
  <2>2. w[i] \in Items
    BY <2>1
  <2> QED
    BY <1>4, <2>2 DEF Items, FieldAt, FieldValues
<1> QED
  BY <1>2, <1>3, <1>4

\* So is every field of a map.
LEMMA FieldsTyped ==
  ASSUME NEW w \in Seq(Items), NEW fields \in Seq(FieldNames),
         DecodeFields(fields, w) # Rejected
  PROVE  /\ DOMAIN DecodeFields(fields, w) = 1 .. Len(fields)
         /\ \A k \in 1 .. Len(fields) : DecodeFields(fields, w)[k] \in FieldValues(fields[k])
<1> DEFINE key == KeyAt(fields, w)
           n == Len(fields)
           value == [k \in 1 .. n |-> FieldAt(fields[k], w, key[k] + 1)]
<1>1. DecodeFields(fields, w) = value /\ \A k \in 1 .. n : ReadsField(fields[k], w, key[k] + 1)
  <2> HIDE DEF key
  <2> QED
    BY DEF DecodeFields, key
<1> HIDE DEF key
<1>2. ASSUME NEW k \in 1 .. n PROVE value[k] \in FieldValues(fields[k])
  <2>1. fields[k] \in FieldNames /\ ReadsField(fields[k], w, key[k] + 1)
    BY <1>1
  <2>2. FieldAt(fields[k], w, key[k] + 1) \in FieldValues(fields[k])
    BY <2>1, FieldTyped
  <2> QED
    BY <2>2
<1> QED
  BY <1>1, <1>2

\* A commit that is imported is in its shortest form.
LEMMA CommitCanonical ==
  ASSUME NEW w \in Seq(Items), Imports("commit", w)
  PROVE  w \in Seq(ShortItems)
<1> DEFINE v == DecodeFields(CommitFields, w)
           u == Sent(v)
<1>1. Decode("commit", w) = v /\ v # Rejected
  BY DEF Imports, Decode
<1>2. Encode([kind |-> "commit", value |-> v]) = w
  BY <1>1 DEF Imports
<1>3. EncodeFields(CommitFields, u) = w
  BY <1>2 DEF Encode
<1>4. /\ CommitFields \in Seq(FieldNames) /\ Len(CommitFields) = 7 /\ CommitFields[6] = "short"
  BY DEF CommitFields, FieldNames
<1>5. DOMAIN v = 1 .. 7 /\ \A k \in 1 .. 7 : v[k] \in FieldValues(CommitFields[k])
  BY <1>1, <1>4, FieldsTyped
<1>6. \A k \in 1 .. 7 : u[k] \in FieldValues(CommitFields[k])
  <2> HIDE DEF v
  <2> TAKE k \in 1 .. 7
  <2>1. CASE k # 6
    BY <1>5, <2>1 DEF Sent
  <2>2. CASE k = 6
    <3>1. u[6] = IF v[6] = 0 THEN 1 ELSE v[6]
      BY <1>5 DEF Sent
    <3>2. FieldValues(CommitFields[6]) = {x \in Nat : x < 65536}
      BY <1>4 DEF FieldValues
    <3>3. v[6] \in FieldValues(CommitFields[6])
      BY <1>5
    <3> QED
      BY <2>2, <3>1, <3>2, <3>3
  <2> QED
    BY <2>1, <2>2
<1> HIDE DEF u
<1> QED
  BY <1>3, <1>4, <1>6, FieldsAreShort

-----------------------------------------------------------------------------
(* The items of a tree                                                     *)

\* The path and the items of an entry.
EntryPart(p, e) == <<PathItem(p)>> \o EntryItems(e)

\* What a file's items are.
LEMMA FilePart ==
  ASSUME NEW p \in Nat, NEW e \in Files
  PROVE  LET s == EntryPart(p, e) IN
           /\ s \in Seq(ShortItems) /\ Len(s) = 8 + Len(e.chunks)
           /\ s[1] = PathItem(p) /\ s[2] = MapOf(3) /\ s[3] = Uint(1) /\ s[4] = Uint(0)
           /\ s[5] = Uint(2) /\ s[6] = Uint(e.size) /\ s[7] = Uint(3)
           /\ s[8] = ArrayOf(Len(e.chunks))
           /\ \A j \in 1 .. Len(e.chunks) : s[8 + j] = Bytes(32, e.chunks[j])
<1> DEFINE a == <<PathItem(p)>>
           b == <<MapOf(3), Uint(1), Uint(0), Uint(2), Uint(e.size), Uint(3)>>
           c == HashItems(e.chunks)
           L == Len(e.chunks)
           S == ShortItems
<1>1. e.size \in Nat /\ e.chunks \in Seq(Texts) /\ ~e.dir /\ L \in Nat
  <2>1. e.size \in Nat /\ e.chunks \in Seq(Texts) /\ ~e.dir
    BY DEF Files
  <2> QED
    BY <2>1
<1>2. a \in Seq(S) /\ Len(a) = 1 /\ a[1] = PathItem(p)
  <2>1. PathItem(p) \in S
    BY ItemsAreShort
  <2> QED
    BY <2>1
<1>3. /\ b \in Seq(S) /\ Len(b) = 6 /\ b[1] = MapOf(3) /\ b[2] = Uint(1) /\ b[3] = Uint(0)
      /\ b[4] = Uint(2) /\ b[5] = Uint(e.size) /\ b[6] = Uint(3)
  <2>1. MapOf(3) \in S /\ Uint(1) \in S /\ Uint(0) \in S /\ Uint(2) \in S /\ Uint(3) \in S
    BY ItemsAreShort
  <2>2. Uint(e.size) \in S
    BY <1>1, ItemsAreShort
  <2> HIDE DEF S
  <2> QED
    BY <2>1, <2>2
<1>4. /\ c \in Seq(S) /\ Len(c) = L + 1 /\ c[1] = ArrayOf(L)
      /\ \A j \in 1 .. L : c[j + 1] = Bytes(32, e.chunks[j])
  BY <1>1, HashItemsAre
<1>5. EntryPart(p, e) = a \o (b \o c)
  BY <1>1 DEF EntryPart, EntryItems
<1> HIDE DEF a, b, c, L, S
<1>6. /\ b \o c \in Seq(S) /\ Len(b \o c) = 7 + L
      /\ \A i \in 1 .. 6 : (b \o c)[i] = b[i]
      /\ \A j \in 1 .. L + 1 : (b \o c)[6 + j] = c[j]
  <2>0. b \in Seq(S) /\ c \in Seq(S)
    BY <1>3, <1>4
  <2>1. /\ b \o c \in Seq(S) /\ Len(b \o c) = Len(b) + Len(c)
        /\ \A i \in 1 .. Len(b) : (b \o c)[i] = b[i]
        /\ \A j \in 1 .. Len(c) : (b \o c)[Len(b) + j] = c[j]
    BY <2>0, ConcatAt
  <2>2. Len(b) = 6 /\ Len(c) = L + 1 /\ L \in Nat
    BY <1>1, <1>3, <1>4
  <2>3. Len(b \o c) = 7 + L
    BY <2>1, <2>2
  <2> QED
    BY <2>1, <2>2, <2>3
<1> DEFINE d == b \o c
           s == a \o d
<1>7. /\ s \in Seq(S) /\ Len(s) = 8 + L /\ s[1] = a[1]
      /\ \A j \in 1 .. 7 + L : s[1 + j] = d[j]
  <2>1. d \in Seq(S) /\ Len(d) = 7 + L
    BY <1>6
  <2> HIDE DEF d
  <2>0. a \in Seq(S) /\ d \in Seq(S)
    BY <1>2, <2>1
  <2>2. /\ s \in Seq(S) /\ Len(s) = Len(a) + Len(d)
        /\ \A i \in 1 .. Len(a) : s[i] = a[i]
        /\ \A j \in 1 .. Len(d) : s[Len(a) + j] = d[j]
    BY <2>0, ConcatAt
  <2> HIDE DEF s
  <2> QED
    BY <1>1, <1>2, <2>1, <2>2
<1> HIDE DEF d, s
<1>8. \A j \in 1 .. 6 : d[j] = b[j]
  BY <1>6 DEF d
<1>9. \A j \in 1 .. L + 1 : d[6 + j] = c[j]
  BY <1>6 DEF d
<1>10. \A j \in 1 .. 6 : s[1 + j] = b[j]
  <2> TAKE j \in 1 .. 6
  <2>1. j \in 1 .. 7 + L
    BY <1>1
  <2> QED
    BY <1>7, <1>8, <2>1
<1>11. \A j \in 1 .. L + 1 : s[7 + j] = c[j]
  <2> TAKE j \in 1 .. L + 1
  <2>1. 6 + j \in 1 .. 7 + L /\ 1 + (6 + j) = 7 + j
    BY <1>1
  <2> QED
    BY <1>7, <1>9, <2>1
<1>12. s[2] = b[1] /\ s[3] = b[2] /\ s[4] = b[3] /\ s[5] = b[4] /\ s[6] = b[5] /\ s[7] = b[6]
  BY <1>10
<1>13. s[8] = c[1]
  BY <1>1, <1>11
<1>14. \A j \in 1 .. L : s[8 + j] = Bytes(32, e.chunks[j])
  <2> TAKE j \in 1 .. L
  <2>1. j + 1 \in 1 .. L + 1 /\ 7 + (j + 1) = 8 + j
    BY <1>1
  <2> QED
    BY <1>4, <1>11, <2>1
<1>15. s = EntryPart(p, e)
  BY <1>5 DEF s, d
<1> QED
  BY <1>2, <1>3, <1>4, <1>7, <1>12, <1>13, <1>14, <1>15 DEF L, S

\* What a directory's items are.
LEMMA DirPart ==
  ASSUME NEW p \in Nat, NEW e \in Dirs
  PROVE  LET s == EntryPart(p, e) IN
           /\ s \in Seq(ShortItems) /\ Len(s) = 6
           /\ s[1] = PathItem(p) /\ s[2] = MapOf(2) /\ s[3] = Uint(1) /\ s[4] = Uint(1)
           /\ s[5] = Uint(2) /\ s[6] = Bytes(32, e.hash)
<1> DEFINE a == <<PathItem(p)>>
           b == <<MapOf(2), Uint(1), Uint(1), Uint(2), Bytes(32, e.hash)>>
           S == ShortItems
<1>1. e.dir /\ e.hash \in Texts
  BY DEF Dirs
<1>2. a \in Seq(S) /\ Len(a) = 1 /\ a[1] = PathItem(p)
  <2>1. PathItem(p) \in S
    BY ItemsAreShort
  <2> QED
    BY <2>1
<1>3. /\ b \in Seq(S) /\ Len(b) = 5 /\ b[1] = MapOf(2) /\ b[2] = Uint(1) /\ b[3] = Uint(1)
      /\ b[4] = Uint(2) /\ b[5] = Bytes(32, e.hash)
  <2>1. MapOf(2) \in S /\ Uint(1) \in S /\ Uint(2) \in S
    BY ItemsAreShort
  <2>2. Bytes(32, e.hash) \in S
    BY <1>1, ItemsAreShort
  <2> HIDE DEF S
  <2> QED
    BY <2>1, <2>2
<1> DEFINE s == a \o b
<1>4. EntryPart(p, e) = s
  BY <1>1 DEF EntryPart, EntryItems
<1> HIDE DEF a, b, S
<1>5. /\ s \in Seq(S) /\ Len(s) = 6 /\ s[1] = a[1]
      /\ \A j \in 1 .. 5 : s[1 + j] = b[j]
  <2>0. a \in Seq(S) /\ b \in Seq(S)
    BY <1>2, <1>3
  <2>1. /\ s \in Seq(S) /\ Len(s) = Len(a) + Len(b)
        /\ \A i \in 1 .. Len(a) : s[i] = a[i]
        /\ \A j \in 1 .. Len(b) : s[Len(a) + j] = b[j]
    BY <2>0, ConcatAt
  <2> HIDE DEF s
  <2> QED
    BY <1>2, <1>3, <2>1
<1> HIDE DEF s
<1>6. s[2] = b[1] /\ s[3] = b[2] /\ s[4] = b[3] /\ s[5] = b[4] /\ s[6] = b[5]
  BY <1>5
<1> QED
  BY <1>2, <1>3, <1>4, <1>5, <1>6 DEF S

\* Sequences in which a map of three keys says that it is a file.
Regular ==
  {s \in Seq(ShortItems) :
     \A i \in 1 .. Len(s) : s[i] = MapOf(3) => i + 2 <= Len(s) /\ s[i + 2] = Uint(0)}

\* Regular sequences laid end to end are regular.
LEMMA RegularJoins ==
  ASSUME NEW x \in Regular, NEW y \in Regular
  PROVE  x \o y \in Regular
<1> DEFINE m == Len(x)
           n == Len(y)
           z == x \o y
           Keeps(s, i) == s[i] = MapOf(3) => i + 2 <= Len(s) /\ s[i + 2] = Uint(0)
<1>1. x \in Seq(ShortItems) /\ y \in Seq(ShortItems)
  BY DEF Regular
<1>2. /\ (\A i \in 1 .. m : Keeps(x, i)) /\ (\A j \in 1 .. n : Keeps(y, j))
      /\ m \in Nat /\ n \in Nat
  BY <1>1 DEF Regular
<1>3. /\ z \in Seq(ShortItems) /\ Len(z) = m + n
      /\ \A i \in 1 .. m : z[i] = x[i]
      /\ \A j \in 1 .. n : z[m + j] = y[j]
  BY <1>1, ConcatAt
<1> HIDE DEF z, m, n
<1>4. ASSUME NEW i \in 1 .. m + n, z[i] = MapOf(3)
      PROVE  i + 2 <= m + n /\ z[i + 2] = Uint(0)
  <2>1. CASE i <= m
    <3>1. i \in 1 .. m /\ x[i] = MapOf(3)
      BY <1>2, <1>3, <1>4, <2>1
    <3>2. i + 2 <= m /\ x[i + 2] = Uint(0)
      BY <1>2, <3>1 DEF m
    <3>3. i + 2 \in 1 .. m
      BY <1>2, <3>2
    <3> QED
      BY <1>2, <1>3, <3>2, <3>3
  <2>2. CASE i > m
    <3> DEFINE j == i - m
    <3>1. j \in 1 .. n /\ i = m + j
      BY <1>2, <2>2
    <3>2. y[j] = MapOf(3)
      BY <1>3, <1>4, <3>1
    <3>3. j + 2 <= n /\ y[j + 2] = Uint(0)
      <4> HIDE DEF j
      <4> QED
        BY <1>2, <3>1, <3>2 DEF n
    <3>4. j + 2 \in 1 .. n /\ i + 2 = m + (j + 2)
      BY <1>2, <3>1, <3>3
    <3>5. z[m + (j + 2)] = y[j + 2]
      <4> HIDE DEF j
      <4> QED
        BY <1>3, <3>4
    <3> QED
      BY <1>2, <3>3, <3>4, <3>5
  <2> QED
    BY <1>2, <2>1, <2>2
<1>5. z \in Regular
  BY <1>3, <1>4 DEF Regular
<1> QED
  BY <1>5 DEF z

\* An entry is regular.
LEMMA PartIsRegular ==
  ASSUME NEW p \in Nat, NEW e \in Entries
  PROVE  EntryPart(p, e) \in Regular
<1> DEFINE s == EntryPart(p, e)
<1>1. /\ PathItem(p).type = "tstr" /\ MapOf(3).type = "map"
      /\ \A v \in Nat : Uint(v).type = "uint" /\ ArrayOf(v).type = "array"
      /\ MapOf(3).number = 3 /\ MapOf(2).number = 2
  BY DEF PathItem, MapOf, Uint, ArrayOf, Item
<1>2. \A v, x : Bytes(v, x).type = "bstr"
  BY DEF Bytes, Item
<1>3. CASE e \in Files
  <2> DEFINE L == Len(e.chunks)
  <2>1. e.chunks \in Seq(Texts) /\ e.size \in Nat
    BY <1>3 DEF Files
  <2>2. L \in Nat
    BY <2>1
  <2>3. /\ s \in Seq(ShortItems) /\ Len(s) = 8 + L
        /\ s[1] = PathItem(p) /\ s[2] = MapOf(3) /\ s[3] = Uint(1) /\ s[4] = Uint(0)
        /\ s[5] = Uint(2) /\ s[6] = Uint(e.size) /\ s[7] = Uint(3)
        /\ s[8] = ArrayOf(L)
        /\ \A j \in 1 .. L : s[8 + j] = Bytes(32, e.chunks[j])
    BY <1>3, FilePart
  <2> HIDE DEF s, L
  <2>4. ASSUME NEW i \in 1 .. 8 + L, s[i] = MapOf(3) PROVE i = 2
    <3>1. CASE i > 8
      <4>1. i - 8 \in 1 .. L /\ 8 + (i - 8) = i
        BY <2>2, <3>1
      <4>2. s[i].type = "bstr"
        BY <1>2, <2>3, <4>1
      <4> QED
        BY <1>1, <2>4, <4>2
    <3>2. CASE i <= 8
      <4>1. i \in {1, 2, 3, 4, 5, 6, 7, 8}
        BY <3>2
      <4>2. i \in {1, 3, 4, 5, 6, 7, 8} => s[i].type # "map"
        <5>1. s[1].type = "tstr" /\ s[8].type = "array"
          BY <1>1, <2>2, <2>3
        <5>2. s[3].type = "uint" /\ s[4].type = "uint" /\ s[5].type = "uint"
          BY <1>1, <2>3
        <5>3. s[6].type = "uint" /\ s[7].type = "uint"
          BY <1>1, <2>1, <2>3
        <5> QED
          BY <5>1, <5>2, <5>3
      <4> QED
        BY <1>1, <2>4, <4>1, <4>2
    <3> QED
      BY <2>2, <3>1, <3>2
  <2>5. s \in Regular
    BY <2>2, <2>3, <2>4 DEF Regular
  <2> QED
    BY <2>5 DEF s
<1>4. CASE e \in Dirs
  <2>1. /\ s \in Seq(ShortItems) /\ Len(s) = 6
        /\ s[1] = PathItem(p) /\ s[2] = MapOf(2) /\ s[3] = Uint(1) /\ s[4] = Uint(1)
        /\ s[5] = Uint(2) /\ s[6] = Bytes(32, e.hash)
    BY <1>4, DirPart
  <2> HIDE DEF s
  <2>2. ASSUME NEW i \in 1 .. 6 PROVE s[i] # MapOf(3)
    <3>1. i \in {1, 2, 3, 4, 5, 6}
      OBVIOUS
    <3>2. i # 2 => s[i].type # "map"
      BY <1>1, <1>2, <2>1, <3>1
    <3> QED
      BY <1>1, <2>1, <3>2
  <2>3. s \in Regular
    BY <2>1, <2>2 DEF Regular
  <2> QED
    BY <2>3 DEF s
<1> QED
  BY <1>3, <1>4 DEF Entries

-----------------------------------------------------------------------------
(* The order of the paths                                                  *)

Lists(s, S) ==
  /\ s \in [1 .. Cardinality(S) -> S]
  /\ \A i, j \in 1 .. Cardinality(S) : i < j => s[i] < s[j]
  /\ \A p \in S : \E i \in 1 .. Cardinality(S) : s[i] = p

\* A finite set of numbers can be listed in order.
LEMMA ListsExist ==
  ASSUME NEW D \in SUBSET Nat, IsFiniteSet(D)
  PROVE  \E s : Lists(s, D)
<1> DEFINE N == Cardinality(D)
           H == {k \in 0 .. N : \A S \in SUBSET D : Cardinality(S) = k => \E s : Lists(s, S)}
<1>1. N \in Nat
  BY FS_CardinalityType
<1>2. \A S \in SUBSET D : IsFiniteSet(S) /\ Cardinality(S) \in Nat /\ (Cardinality(S) = 0 <=> S = {})
  BY FS_Subset, FS_CardinalityType, FS_EmptySet
<1>3. 0 \in H
  <2>1. ASSUME NEW S \in SUBSET D, Cardinality(S) = 0 PROVE \E s : Lists(s, S)
    <3>1. S = {} /\ 1 .. Cardinality(S) = {}
      BY <1>2, <2>1
    <3> DEFINE s == [i \in 1 .. Cardinality(S) |-> i]
    <3>2. Lists(s, S)
      BY <3>1 DEF Lists
    <3> QED
      BY <3>2
  <2>2. 0 \in 0 .. N
    BY <1>1
  <2> QED
    BY <2>1, <2>2
<1>4. ASSUME NEW k \in 0 .. N, k < N, k \in H PROVE k + 1 \in H
  <2>1. ASSUME NEW S \in SUBSET D, Cardinality(S) = k + 1 PROVE \E s : Lists(s, S)
    <3>1. S # {} /\ S \subseteq Nat /\ IsFiniteSet(S) /\ k \in Nat
      BY <1>2, <2>1
    <3>2. PICK m \in S : \A y \in S : m <= y
      BY <3>1, NatMin
    <3> DEFINE R == S \ {m}
    <3>3. Cardinality(R) = k /\ R \in SUBSET D
      <4>1. Cardinality(S \ {m}) = Cardinality(S) - 1
        BY <3>1, FS_RemoveElement
      <4> QED
        BY <2>1, <3>1, <4>1
    <3>4. PICK r : Lists(r, R)
      BY <1>4, <3>3
    <3>5. /\ r \in [1 .. k -> R] /\ (\A i, j \in 1 .. k : i < j => r[i] < r[j])
          /\ \A p \in R : \E i \in 1 .. k : r[i] = p
      BY <3>3, <3>4 DEF Lists
    <3> DEFINE s == [i \in 1 .. k + 1 |-> IF i = 1 THEN m ELSE r[i - 1]]
    <3>6. s[1] = m /\ \A i \in 1 .. k + 1 : i # 1 => i - 1 \in 1 .. k /\ s[i] = r[i - 1]
      BY <3>1
    <3>7. s \in [1 .. k + 1 -> S]
      <4>1. ASSUME NEW i \in 1 .. k + 1 PROVE s[i] \in S
        BY <3>5, <3>6
      <4> QED
        BY <4>1
    <3> HIDE DEF s
    <3>8. ASSUME NEW i \in 1 .. k + 1, NEW j \in 1 .. k + 1, i < j PROVE s[i] < s[j]
      <4>1. j # 1 /\ j - 1 \in 1 .. k /\ s[j] = r[j - 1]
        BY <3>6, <3>8
      <4>2. s[j] \in R /\ s[j] \in Nat /\ m \in Nat
        BY <3>1, <3>5, <4>1
      <4>3. CASE i = 1
        <5>1. s[i] = m /\ m <= s[j] /\ m # s[j]
          BY <3>2, <3>6, <4>2, <4>3
        <5> QED
          BY <4>2, <5>1
      <4>4. CASE i # 1
        <5>1. i - 1 \in 1 .. k /\ s[i] = r[i - 1]
          BY <3>6, <4>4
        <5>2. i - 1 < j - 1
          BY <3>8
        <5> QED
          BY <3>5, <4>1, <5>1, <5>2
      <4> QED
        BY <4>3, <4>4
    <3>9. ASSUME NEW p \in S PROVE \E i \in 1 .. k + 1 : s[i] = p
      <4>1. CASE p = m
        <5>1. 1 \in 1 .. k + 1
          BY <3>1
        <5> QED
          BY <3>6, <4>1, <5>1
      <4>2. CASE p # m
        <5>1. PICK i \in 1 .. k : r[i] = p
          BY <3>5, <4>2
        <5>2. i + 1 \in 1 .. k + 1 /\ i + 1 # 1 /\ (i + 1) - 1 = i
          BY <3>1
        <5>3. s[i + 1] = r[(i + 1) - 1]
          BY <3>6, <5>2
        <5> QED
          BY <5>1, <5>2, <5>3
      <4> QED
        BY <4>1, <4>2
    <3>10. Lists(s, S)
      BY <2>1, <3>7, <3>8, <3>9 DEF Lists
    <3> QED
      BY <3>10
  <2>2. k + 1 \in 0 .. N
    BY <1>1, <1>4
  <2> QED
    BY <2>1, <2>2
<1>5. N \in H
  <2> HIDE DEF H, N
  <2>1. 0 .. N \subseteq H
    BY <1>1, <1>3, <1>4, UpTo
  <2> QED
    BY <1>1, <2>1
<1> QED
  BY <1>5

\* InOrder lists what it is given.
LEMMA InOrderLists ==
  ASSUME NEW D \in SUBSET Nat, IsFiniteSet(D)
  PROVE  Lists(InOrder(D), D) /\ Cardinality(D) \in Nat
<1> DEFINE n == Cardinality(D)
           Q(s) == /\ \A i, j \in DOMAIN s : i < j => s[i] < s[j]
                   /\ \A p \in D : \E i \in DOMAIN s : s[i] = p
<1>1. PICK r : Lists(r, D)
  BY ListsExist
<1>2. r \in [1 .. n -> D] /\ Q(r)
  BY <1>1 DEF Lists
<1>3. InOrder(D) \in [1 .. n -> D] /\ Q(InOrder(D))
  <2>1. InOrder(D) = CHOOSE s \in [1 .. n -> D] : Q(s)
    BY DEF InOrder
  <2> HIDE DEF Q, n
  <2> QED
    BY <1>2, <2>1
<1>4. Lists(InOrder(D), D)
  BY <1>3 DEF Lists
<1> QED
  BY <1>4, FS_CardinalityType

-----------------------------------------------------------------------------
(* A tree, laid out                                                        *)

\* The trees that can be encoded: finitely many paths.
IsTree(t) ==
  DOMAIN t \in SUBSET Nat /\ IsFiniteSet(DOMAIN t) /\ t \in [DOMAIN t -> Entries]

TreePaths(t) == InOrder(DOMAIN t)
TreeParts(t) ==
  [i \in DOMAIN TreePaths(t) |-> EntryPart(TreePaths(t)[i], t[TreePaths(t)[i]])]
TreeHead(n) == <<MapOf(1), Uint(1), MapOf(n)>>

\* What a tree's encoding is made of.
LEMMA TreeIs ==
  ASSUME NEW t, IsTree(t)
  PROVE  /\ Cardinality(DOMAIN t) \in Nat
         /\ Lists(TreePaths(t), DOMAIN t)
         /\ Len(TreePaths(t)) = Cardinality(DOMAIN t)
         /\ Len(TreeParts(t)) = Cardinality(DOMAIN t)
         /\ TreeParts(t) \in Seq(Seq(ShortItems))
         /\ \A i \in 1 .. Cardinality(DOMAIN t) :
              /\ TreePaths(t)[i] \in DOMAIN t /\ TreePaths(t)[i] \in Nat
              /\ t[TreePaths(t)[i]] \in Entries
              /\ TreeParts(t)[i] = EntryPart(TreePaths(t)[i], t[TreePaths(t)[i]])
              /\ TreeParts(t)[i] \in Regular
         /\ EncodeTree(t) = TreeHead(Cardinality(DOMAIN t)) \o Seqs!FlattenSeq(TreeParts(t))
<1> DEFINE D == DOMAIN t
           n == Cardinality(D)
           paths == TreePaths(t)
           parts == TreeParts(t)
<1>1. D \in SUBSET Nat /\ IsFiniteSet(D) /\ t \in [D -> Entries]
  BY DEF IsTree
<1>2. Lists(paths, D) /\ n \in Nat
  <2> HIDE DEF D
  <2> QED
    BY <1>1, InOrderLists DEF TreePaths, D
<1>3. paths \in [1 .. n -> D] /\ DOMAIN paths = 1 .. n
  BY <1>2 DEF Lists
<1>4. paths \in Seq(D) /\ Len(paths) = n
  <2> HIDE DEF paths, n, D
  <2> QED
    BY <1>2, <1>3
<1>5. ASSUME NEW i \in 1 .. n
      PROVE  /\ paths[i] \in D /\ paths[i] \in Nat /\ t[paths[i]] \in Entries
             /\ parts[i] = EntryPart(paths[i], t[paths[i]])
             /\ parts[i] \in Regular
  <2>1. paths[i] \in D /\ paths[i] \in Nat /\ t[paths[i]] \in Entries
    <3> HIDE DEF paths, D, n
    <3>1. paths[i] \in D
      BY <1>3
    <3> QED
      BY <1>1, <3>1
  <2>2. parts[i] = EntryPart(paths[i], t[paths[i]])
    BY <1>3 DEF TreeParts
  <2>3. EntryPart(paths[i], t[paths[i]]) \in Regular
    <3> HIDE DEF paths
    <3> QED
      BY <2>1, PartIsRegular
  <2> QED
    BY <2>1, <2>2, <2>3
<1>6. parts \in Seq(Seq(ShortItems)) /\ Len(parts) = n
  <2>1. DOMAIN parts = 1 .. n /\ parts = [i \in 1 .. n |-> parts[i]]
    BY <1>3 DEF TreeParts
  <2>2. \A i \in 1 .. n : parts[i] \in Seq(ShortItems)
    BY <1>5 DEF Regular
  <2> HIDE DEF parts, n
  <2> QED
    BY <1>2, <2>1, <2>2
<1>7. EncodeTree(t) = TreeHead(Len(paths)) \o Seqs!FlattenSeq(parts)
  BY DEF EncodeTree, TreeHead, TreeParts, TreePaths, EntryPart
<1> QED
  BY <1>2, <1>4, <1>5, <1>6, <1>7

\* What stands before the entries.
LEMMA HeadIs ==
  ASSUME NEW n \in Nat
  PROVE  /\ TreeHead(n) \in Seq(ShortItems) /\ Len(TreeHead(n)) = 3
         /\ TreeHead(n)[1] = MapOf(1) /\ TreeHead(n)[2] = Uint(1) /\ TreeHead(n)[3] = MapOf(n)
<1>1. MapOf(1) \in ShortItems /\ Uint(1) \in ShortItems /\ MapOf(n) \in ShortItems
  BY ItemsAreShort
<1> QED
  BY <1>1 DEF TreeHead

\* A tree that is encoded is in its shortest form, and its directories have
\* nothing but their hashes.
LEMMA TreeIsRegular ==
  ASSUME NEW t, IsTree(t)
  PROVE  /\ EncodeTree(t) \in Seq(ShortItems)
         /\ \A i \in 4 .. Len(EncodeTree(t)) :
              EncodeTree(t)[i] = MapOf(3) =>
                i + 2 <= Len(EncodeTree(t)) /\ EncodeTree(t)[i + 2] = Uint(0)
<1> DEFINE n == Cardinality(DOMAIN t)
           f == Seqs!FlattenSeq(TreeParts(t))
           h == TreeHead(n)
           w == h \o f
           m == Len(f)
<1>1. /\ n \in Nat /\ TreeParts(t) \in Seq(Seq(ShortItems)) /\ Len(TreeParts(t)) = n
      /\ \A i \in 1 .. n : TreeParts(t)[i] \in Regular
      /\ EncodeTree(t) = w
  BY TreeIs
<1>2. f \in Regular
  <2> DEFINE parts == TreeParts(t)
             T == ShortItems
  <2>1. Regular \in SUBSET Seq(T) /\ <<>> \in Regular
    BY DEF Regular
  <2>2. \A x \in Regular : \A y \in Regular : x \o y \in Regular
    BY RegularJoins
  <2>3. parts \in Seq(Seq(T)) /\ \A i \in 1 .. Len(parts) : parts[i] \in Regular
    BY <1>1
  <2> HIDE DEF parts, T
  <2>4. Seqs!FlattenSeq(parts) \in Regular
    BY <2>1, <2>2, <2>3, FlattenIn
  <2> QED
    BY <2>4 DEF parts
<1>3. /\ f \in Seq(ShortItems) /\ m \in Nat
      /\ \A j \in 1 .. m : f[j] = MapOf(3) => j + 2 <= m /\ f[j + 2] = Uint(0)
  BY <1>2 DEF Regular
<1>4. h \in Seq(ShortItems) /\ Len(h) = 3
  BY <1>1, HeadIs
<1> HIDE DEF f, h, n
<1>5. /\ w \in Seq(ShortItems) /\ Len(w) = 3 + m
      /\ \A j \in 1 .. m : w[3 + j] = f[j]
  <2>0. h \in Seq(ShortItems) /\ f \in Seq(ShortItems)
    BY <1>3, <1>4
  <2>1. w \in Seq(ShortItems) /\ Len(w) = Len(h) + m /\ \A j \in 1 .. m : w[Len(h) + j] = f[j]
    BY <2>0, ConcatAt
  <2> QED
    BY <1>4, <2>1
<1> HIDE DEF w, m
<1>6. ASSUME NEW i \in 4 .. 3 + m, w[i] = MapOf(3)
      PROVE  i + 2 <= 3 + m /\ w[i + 2] = Uint(0)
  <2> DEFINE j == i - 3
  <2>1. j \in 1 .. m /\ 3 + j = i
    BY <1>3
  <2>2. f[j] = MapOf(3)
    BY <1>5, <1>6, <2>1
  <2>3. j + 2 <= m /\ f[j + 2] = Uint(0)
    BY <1>3, <2>1, <2>2
  <2>4. j + 2 \in 1 .. m /\ 3 + (j + 2) = i + 2
    BY <1>3, <2>1, <2>3
  <2>5. w[3 + (j + 2)] = f[j + 2]
    BY <1>5, <2>4
  <2> QED
    BY <1>3, <2>3, <2>4, <2>5
<1> QED
  BY <1>1, <1>5, <1>6

-----------------------------------------------------------------------------
(* What the tree decoder takes                                             *)

\* An entry that is read is an entry, of a path that is a number.
LEMMA EntryTyped ==
  ASSUME NEW w \in Seq(Items), NEW i
  PROVE  /\ EntryAt(w, i).entry \in Entries /\ EntryAt(w, i).next \in Nat
         /\ EntryAt(w, i).next # 0 => i \in DOMAIN w /\ w[i].number \in Nat
<1> DEFINE chunked == ReadsUint(w, i + 6, 3) /\ ReadsHashes(w, i + 7)
           A == /\ Reads(w, i, "tstr") /\ ReadsMap(w, i + 1, 3)
                /\ Reads(w, i + 5, "uint") /\ chunked
           B == /\ Reads(w, i, "tstr") /\ ReadsBytes(w, i + 5, 32)
           C == B /\ chunked
           file == [entry |-> File(w[i + 5].number, HashesAt(w, i + 7)),
                    next |-> i + 8 + w[i + 7].number]
           dir(n) == [entry |-> Dir(w[i + 5].text), next |-> n]
           none == [entry |-> Dir(NoText), next |-> 0]
<1>1. \/ A /\ EntryAt(w, i) = file
      \/ B /\ EntryAt(w, i) = dir(i + 6)
      \/ C /\ EntryAt(w, i) = dir(i + 8 + w[i + 7].number)
      \/ EntryAt(w, i) = none
  BY DEF EntryAt
<1>2. "tstr" \in Kinds /\ "uint" \in Kinds /\ "bstr" \in Kinds /\ NoText \in Texts
  BY DEF Kinds, Texts
<1>3. Reads(w, i, "tstr") => i \in Nat /\ i \in DOMAIN w /\ w[i].number \in Nat
  <2> HAVE Reads(w, i, "tstr")
  <2>1. i \in DOMAIN w
    BY <1>2, ReadsIn
  <2>2. w[i] \in Items /\ i \in Nat
    BY <2>1
  <2> QED
    BY <2>1, <2>2 DEF Items
<1>4. chunked => w[i + 7].number \in Nat /\ HashesAt(w, i + 7) \in Seq(Texts)
  <2> HAVE chunked
  <2>1. i + 7 \in DOMAIN w /\ HashesAt(w, i + 7) \in Seq(Texts)
    BY HashesTyped
  <2>2. w[i + 7] \in Items
    BY <2>1
  <2> QED
    BY <2>1, <2>2 DEF Items
<1>5. A => w[i + 5].number \in Nat
  <2> HAVE A
  <2>1. i + 5 \in DOMAIN w
    BY <1>2, ReadsIn
  <2>2. w[i + 5] \in Items
    BY <2>1
  <2> QED
    BY <2>2 DEF Items
<1>6. B => w[i + 5].text \in Texts
  <2> HAVE B
  <2>1. i + 5 \in DOMAIN w
    BY <1>2, ReadsIn DEF ReadsBytes
  <2>2. w[i + 5] \in Items
    BY <2>1
  <2> QED
    BY <2>2 DEF Items
<1>7. \A h \in Texts : Dir(h) \in Entries
  BY DEF Dir, Entries, Dirs
<1>8. \A v \in Nat, s \in Seq(Texts) : File(v, s) \in Entries
  BY DEF File, Entries, Files
<1> HIDE DEF chunked
<1>9. CASE A /\ EntryAt(w, i) = file
  <2>1. file.entry \in Entries /\ file.next \in Nat /\ i \in DOMAIN w /\ w[i].number \in Nat
    <3>1. Reads(w, i, "tstr") /\ chunked
      BY <1>9
    <3>2. i \in Nat /\ i \in DOMAIN w /\ w[i].number \in Nat
      BY <1>3, <3>1
    <3>3. w[i + 7].number \in Nat /\ HashesAt(w, i + 7) \in Seq(Texts)
      BY <1>4, <3>1
    <3>4. w[i + 5].number \in Nat
      BY <1>5, <1>9
    <3>5. File(w[i + 5].number, HashesAt(w, i + 7)) \in Entries
      BY <1>8, <3>3, <3>4
    <3>6. i + 8 + w[i + 7].number \in Nat
      BY <3>2, <3>3
    <3> QED
      BY <3>2, <3>5, <3>6
  <2> HIDE DEF file, A
  <2> QED
    BY <1>9, <2>1
<1>10. CASE B /\ EntryAt(w, i) = dir(i + 6)
  <2>1. i \in Nat /\ i \in DOMAIN w /\ w[i].number \in Nat /\ Dir(w[i + 5].text) \in Entries
    BY <1>3, <1>6, <1>7, <1>10
  <2> HIDE DEF B
  <2> QED
    BY <1>10, <2>1
<1>11. CASE C /\ EntryAt(w, i) = dir(i + 8 + w[i + 7].number)
  <2>1. /\ i \in Nat /\ i \in DOMAIN w /\ w[i].number \in Nat /\ Dir(w[i + 5].text) \in Entries
        /\ w[i + 7].number \in Nat
    BY <1>3, <1>4, <1>6, <1>7, <1>11
  <2> HIDE DEF C
  <2> QED
    BY <1>11, <2>1
<1>12. CASE EntryAt(w, i) = none
  BY <1>2, <1>7, <1>12
<1> HIDE DEF A, B, C, file, dir, none
<1> QED
  BY <1>1, <1>9, <1>10, <1>11, <1>12

\* The recursion of StartsAt, made explicit.
LEMMA StartSteps ==
  ASSUME NEW w \in Seq(Items), NEW n \in Nat
  PROVE  /\ StartsAt(w, n) \in [1 .. n + 1 -> Nat] /\ StartsAt(w, n)[1] = 4
         /\ \A j \in 1 .. n : StartsAt(w, n)[j + 1] =
              IF StartsAt(w, n)[j] = 0 THEN 0 ELSE EntryAt(w, StartsAt(w, n)[j]).next
<1> DEFINE Next(x) == IF x = 0 THEN 0 ELSE EntryAt(w, x).next
           F == [i \in 1 .. n |-> [x \in Nat |-> Next(x)]]
           Def(g) == g = [j \in 1 .. n + 1 |-> IF j = 1 THEN 4
                          ELSE IF g[j - 1] = 0 THEN 0 ELSE EntryAt(w, g[j - 1]).next]
           start == CHOOSE g : Def(g)
<1>1. \A x \in Nat : Next(x) \in Nat
  BY EntryTyped
<1>2. F \in [1 .. n -> [Nat -> Nat]] /\ 4 \in Nat
  <2> HIDE DEF Next
  <2> QED
    BY <1>1
<1>3. PICK f \in [0 .. n -> Nat] : Iterates(f, n, 4, F)
  <2> HIDE DEF F
  <2> QED
    BY <1>2, Iteration
<1>4. f[0] = 4 /\ \A i \in 1 .. n : f[i] = Next(f[i - 1])
  <2>1. f[0] = 4
    BY <1>3 DEF Iterates
  <2>2. ASSUME NEW i \in 1 .. n PROVE f[i] = Next(f[i - 1])
    <3>1. i - 1 \in 0 .. n
      OBVIOUS
    <3>2. f[i - 1] \in Nat /\ f[i] = F[i][f[i - 1]]
      BY <1>3, <3>1 DEF Iterates
    <3> HIDE DEF Next
    <3> QED
      BY <3>2
  <2> QED
    BY <2>1, <2>2
<1> DEFINE g == [j \in 1 .. n + 1 |-> f[j - 1]]
<1>5. /\ g[1] = 4 /\ g \in [1 .. n + 1 -> Nat]
      /\ \A j \in 1 .. n + 1 : j # 1 => g[j] = Next(g[j - 1])
  <2>1. 1 \in 1 .. n + 1 /\ 1 - 1 = 0
    OBVIOUS
  <2>2. g[1] = 4
    BY <1>4, <2>1
  <2>3. \A j \in 1 .. n + 1 : j - 1 \in 0 .. n
    OBVIOUS
  <2>4. ASSUME NEW j \in 1 .. n + 1, j # 1 PROVE g[j] = Next(g[j - 1])
    <3>1. j - 1 \in 1 .. n /\ j - 1 \in 1 .. n + 1
      BY <2>4
    <3>2. g[j] = f[j - 1] /\ g[j - 1] = f[(j - 1) - 1]
      BY <3>1
    <3>3. f[j - 1] = Next(f[(j - 1) - 1])
      BY <1>4, <3>1
    <3> HIDE DEF Next, g
    <3> QED
      BY <3>2, <3>3
  <2> QED
    BY <2>2, <2>3, <2>4
<1>6. Def(g)
  <2>1. g = [j \in 1 .. n + 1 |-> g[j]]
    OBVIOUS
  <2>2. \A j \in 1 .. n + 1 : g[j] = IF j = 1 THEN 4
                          ELSE IF g[j - 1] = 0 THEN 0 ELSE EntryAt(w, g[j - 1]).next
    <3> HIDE DEF g
    <3> QED
      BY <1>5
  <2> HIDE DEF g
  <2> QED
    BY <2>1, <2>2
<1>7. Def(start)
  <2> HIDE DEF Def, g
  <2> QED
    BY <1>6
<1>8. StartsAt(w, n) = start
  BY DEF StartsAt
<1> HIDE DEF start, g, F
<1>9. start[1] = 4
  <2>1. 1 \in 1 .. n + 1
    OBVIOUS
  <2> QED
    BY <1>7, <2>1
<1>10. \A j \in 1 .. n : start[j + 1] = Next(start[j])
  <2> TAKE j \in 1 .. n
  <2>1. j + 1 \in 1 .. n + 1 /\ j + 1 # 1 /\ (j + 1) - 1 = j
    OBVIOUS
  <2> QED
    BY <1>7, <2>1
<1>11. start \in [1 .. n + 1 -> Nat]
  <2>1. start = [j \in 1 .. n + 1 |-> start[j]]
    BY <1>7
  <2> DEFINE H == {i \in 0 .. n : start[i + 1] \in Nat}
  <2>2. 0 \in H
    BY <1>9
  <2>3. ASSUME NEW i \in 0 .. n, i < n, i \in H PROVE i + 1 \in H
    <3>1. i + 1 \in 1 .. n /\ i + 1 \in 0 .. n
      BY <2>3
    <3>2. start[(i + 1) + 1] = Next(start[i + 1]) /\ start[i + 1] \in Nat
      BY <1>10, <2>3, <3>1
    <3>3. Next(start[i + 1]) \in Nat
      BY <1>1, <3>2
    <3> HIDE DEF Next
    <3> QED
      BY <3>1, <3>2, <3>3
  <2>4. 0 .. n \subseteq H
    <3> HIDE DEF H
    <3> QED
      BY <2>2, <2>3, UpTo
  <2>5. ASSUME NEW j \in 1 .. n + 1 PROVE start[j] \in Nat
    <3>1. j - 1 \in H /\ (j - 1) + 1 = j
      <4>1. j - 1 \in 0 .. n
        OBVIOUS
      <4> HIDE DEF H
      <4> QED
        BY <2>4, <4>1
    <3> QED
      BY <3>1
  <2> QED
    BY <2>1, <2>5
<1> QED
  BY <1>8, <1>9, <1>10, <1>11

\* What a tree is decoded to can be encoded.
LEMMA TreeTyped ==
  ASSUME NEW w \in Seq(Items), DecodeTree(w) # Rejected
  PROVE  IsTree(DecodeTree(w))
<1> DEFINE n == ItemAt(w, 3).number
           start == StartsAt(w, n)
           path(j) == w[start[j]].number
           P == {path(j) : j \in 1 .. n}
           t == [p \in P |-> EntryAt(w, start[CHOOSE j \in 1 .. n : path(j) = p]).entry]
<1>1. /\ Reads(w, 3, "map") /\ start[n + 1] = Len(w) + 1 /\ DecodeTree(w) = t
  <2> HIDE DEF start
  <2> QED
    BY DEF DecodeTree, start
<1>2. n \in Nat
  <2>1. 3 \in DOMAIN w /\ ItemAt(w, 3) = w[3]
    <3>1. "map" \in Kinds
      BY DEF Kinds
    <3> QED
      BY <1>1, <3>1, ReadsIn
  <2>2. w[3] \in Items
    BY <2>1
  <2> QED
    BY <2>1, <2>2 DEF Items
<1> HIDE DEF n
<1>3. /\ start \in [1 .. n + 1 -> Nat]
      /\ \A j \in 1 .. n : start[j + 1] = IF start[j] = 0 THEN 0 ELSE EntryAt(w, start[j]).next
  BY <1>2, StartSteps
<1> HIDE DEF start
<1>4. \A j \in 1 .. n : start[j + 1] # 0
  <2> DEFINE H == {i \in 0 .. n : i < n => start[(n - i) + 1] # 0}
  <2>1. 0 \in H
    BY <1>1, <1>2
  <2>2. ASSUME NEW i \in 0 .. n, i < n, i \in H PROVE i + 1 \in H
    <3>1. CASE i + 1 < n
      <4>1. n - i \in 1 .. n /\ (n - (i + 1)) + 1 = n - i
        BY <1>2, <2>2, <3>1
      <4>2. start[(n - i) + 1] # 0
        BY <2>2
      <4>3. start[n - i] # 0
        BY <1>3, <4>1, <4>2
      <4> QED
        BY <1>2, <2>2, <4>1, <4>3
    <3>2. CASE ~(i + 1 < n)
      BY <1>2, <2>2, <3>2
    <3> QED
      BY <3>1, <3>2
  <2>3. 0 .. n \subseteq H
    <3> HIDE DEF H
    <3> QED
      BY <1>2, <2>1, <2>2, UpTo
  <2> TAKE j \in 1 .. n
  <2>4. n - j \in 0 .. n /\ n - j < n /\ (n - (n - j)) + 1 = j + 1
    BY <1>2
  <2>5. n - j \in H
    <3> HIDE DEF H
    <3> QED
      BY <2>3, <2>4
  <2> QED
    BY <2>4, <2>5
<1>5. ASSUME NEW j \in 1 .. n PROVE path(j) \in Nat
  <2>1. EntryAt(w, start[j]).next # 0
    BY <1>3, <1>4
  <2> QED
    BY <2>1, EntryTyped
<1>6. P \in SUBSET Nat
  BY <1>5
<1>7. IsFiniteSet(P)
  <2> DEFINE f == [j \in 1 .. n |-> path(j)]
  <2>1. IsFiniteSet(1 .. n)
    BY <1>2, FS_Interval
  <2>2. f \in Surjection(1 .. n, P)
    BY DEF Surjection
  <2> HIDE DEF f, P
  <2> QED
    BY <2>1, <2>2, FS_Surjection
<1>8. t \in [P -> Entries]
  BY EntryTyped
<1>9. DOMAIN t = P
  OBVIOUS
<1> HIDE DEF t, P
<1> QED
  BY <1>1, <1>6, <1>7, <1>8, <1>9 DEF IsTree

\* A tree that is imported is in its shortest form, and nothing in it was
\* left out.
LEMMA TreeCanonical ==
  ASSUME NEW w \in Seq(Items), Imports("tree", w)
  PROVE  /\ w \in Seq(ShortItems)
         /\ \A i \in 4 .. Len(w) : w[i] = MapOf(3) => i + 2 <= Len(w) /\ w[i + 2] = Uint(0)
<1> DEFINE t == DecodeTree(w)
<1>1. Decode("tree", w) = t /\ t # Rejected
  BY DEF Imports, Decode
<1>2. Encode([kind |-> "tree", value |-> t]) = w
  BY <1>1 DEF Imports
<1>3. EncodeTree(t) = w
  BY <1>2 DEF Encode
<1>4. IsTree(t)
  BY <1>1, TreeTyped
<1> HIDE DEF t
<1> QED
  BY <1>3, <1>4, TreeIsRegular

-----------------------------------------------------------------------------
(* What is encoded is decoded                                              *)

\* The items of s are those of w from i on.
Laid(w, i, s) == \A k \in 1 .. Len(s) : i + k - 1 \in DOMAIN w /\ w[i + k - 1] = s[k]

\* What the encoder's items are read as.
LEMMA EncodedReads ==
  ASSUME NEW w, NEW i \in DOMAIN w, NEW v \in Nat
  PROVE  /\ w[i] = Uint(v) => ReadsUint(w, i, v) /\ Reads(w, i, "uint") /\ w[i].number = v
         /\ w[i] = MapOf(v) => ReadsMap(w, i, v) /\ Reads(w, i, "map") /\ w[i].number = v
         /\ w[i] = ArrayOf(v) => Reads(w, i, "array") /\ w[i].number = v
         /\ w[i] = PathItem(v) => Reads(w, i, "tstr") /\ w[i].number = v
         /\ \A x : w[i] = Bytes(v, x) => ReadsBytes(w, i, v) /\ w[i].text = x
         /\ \A x : w[i] = Name(x) => Reads(w, i, "tstr") /\ w[i].text = x
<1>1. ItemAt(w, i) = w[i]
  BY DEF ItemAt
<1>2. Width(v) # 9 /\ Width(8) # 9
  BY DEF Width
<1> QED
  BY <1>1, <1>2 DEF Reads, ReadsUint, ReadsMap, ReadsBytes, Uint, MapOf, ArrayOf, PathItem,
                    Bytes, Name, Item

\* An array of hashes is read as what it was.
LEMMA HashesBack ==
  ASSUME NEW w, NEW i \in Nat, NEW s \in Seq(Texts), i \in DOMAIN w, w[i] = ArrayOf(Len(s)),
         \A j \in 1 .. Len(s) : i + j \in DOMAIN w /\ w[i + j] = Bytes(32, s[j])
  PROVE  ReadsHashes(w, i) /\ HashesAt(w, i) = s /\ w[i].number = Len(s)
<1> DEFINE n == Len(s)
<1>1. n \in Nat /\ 32 \in Nat
  OBVIOUS
<1>2. Reads(w, i, "array") /\ w[i].number = n
  BY <1>1, EncodedReads
<1>3. ItemAt(w, i) = w[i]
  BY DEF ItemAt
<1>4. \A j \in 1 .. n : ReadsBytes(w, i + j, 32) /\ w[i + j].text = s[j]
  BY <1>1, EncodedReads
<1>5. s = [j \in 1 .. n |-> s[j]]
  OBVIOUS
<1>6. HashesAt(w, i) = s
  <2>1. HashesAt(w, i) = [j \in 1 .. n |-> w[i + j].text]
    BY <1>2 DEF HashesAt
  <2> HIDE DEF n
  <2> QED
    BY <1>4, <1>5, <2>1
<1> QED
  BY <1>2, <1>3, <1>4, <1>6 DEF ReadsHashes

\* The fields of what EntryAt returns.
LEMMA EntryOf ==
  ASSUME NEW r, NEW a, NEW b, r = [entry |-> a, next |-> b]
  PROVE  r.entry = a /\ r.next = b
  OBVIOUS

\* An entry is read as what it was, up to where the next one starts.
LEMMA EntryBack ==
  ASSUME NEW w, NEW i \in Nat, NEW p \in Nat, NEW e \in Entries, Laid(w, i, EntryPart(p, e))
  PROVE  /\ EntryAt(w, i) = [entry |-> e, next |-> i + Len(EntryPart(p, e))]
         /\ i \in DOMAIN w /\ w[i].number = p
<1> DEFINE s == EntryPart(p, e)
<1>1. CASE e \in Files
  <2> DEFINE L == Len(e.chunks)
  <2>1. e.chunks \in Seq(Texts) /\ e.size \in Nat /\ e = File(e.size, e.chunks)
    BY <1>1 DEF Files, File
  <2>2. L \in Nat
    BY <2>1
  <2>3. /\ Len(s) = 8 + L
        /\ s[1] = PathItem(p) /\ s[2] = MapOf(3) /\ s[3] = Uint(1) /\ s[4] = Uint(0)
        /\ s[5] = Uint(2) /\ s[6] = Uint(e.size) /\ s[7] = Uint(3)
        /\ s[8] = ArrayOf(L)
        /\ \A j \in 1 .. L : s[8 + j] = Bytes(32, e.chunks[j])
    BY <1>1, FilePart
  <2> HIDE DEF s, L
  <2>4. ASSUME NEW k \in 1 .. 8 + L PROVE i + k - 1 \in DOMAIN w /\ w[i + k - 1] = s[k]
    BY <2>3 DEF Laid, s
  <2>5. /\ i \in DOMAIN w /\ i + 1 \in DOMAIN w /\ i + 2 \in DOMAIN w /\ i + 3 \in DOMAIN w
        /\ i + 4 \in DOMAIN w /\ i + 5 \in DOMAIN w /\ i + 6 \in DOMAIN w /\ i + 7 \in DOMAIN w
        /\ w[i] = s[1] /\ w[i + 1] = s[2] /\ w[i + 2] = s[3] /\ w[i + 3] = s[4]
        /\ w[i + 4] = s[5] /\ w[i + 5] = s[6] /\ w[i + 6] = s[7] /\ w[i + 7] = s[8]
    <3>1. /\ i + 1 - 1 = i /\ i + 2 - 1 = i + 1 /\ i + 3 - 1 = i + 2 /\ i + 4 - 1 = i + 3
          /\ i + 5 - 1 = i + 4 /\ i + 6 - 1 = i + 5 /\ i + 7 - 1 = i + 6 /\ i + 8 - 1 = i + 7
      OBVIOUS
    <3>2. \A k \in 1 .. 8 : k \in 1 .. 8 + L
      BY <2>2
    <3> QED
      BY <2>4, <3>1, <3>2
  <2>6. ReadsHashes(w, i + 7) /\ HashesAt(w, i + 7) = e.chunks /\ w[i + 7].number = L
    <3>1. \A j \in 1 .. L : (i + 7) + j \in DOMAIN w /\ w[(i + 7) + j] = Bytes(32, e.chunks[j])
      <4> TAKE j \in 1 .. L
      <4>1. 8 + j \in 1 .. 8 + L /\ i + (8 + j) - 1 = (i + 7) + j
        BY <2>2
      <4> QED
        BY <2>3, <2>4, <4>1
    <3>2. i + 7 \in Nat /\ w[i + 7] = ArrayOf(L) /\ i + 7 \in DOMAIN w
      BY <2>3, <2>5
    <3> QED
      BY <2>1, <3>1, <3>2, HashesBack DEF L
  <2>7. /\ Reads(w, i, "tstr") /\ w[i].number = p
        /\ Reads(w, i + 1, "map") /\ ReadsMap(w, i + 1, 3)
        /\ ReadsUint(w, i + 2, 1) /\ ReadsUint(w, i + 3, 0) /\ ReadsUint(w, i + 4, 2)
        /\ Reads(w, i + 5, "uint") /\ w[i + 5].number = e.size /\ ReadsUint(w, i + 6, 3)
    <3>1. Reads(w, i, "tstr") /\ w[i].number = p
      <4>1. i \in DOMAIN w /\ w[i] = PathItem(p)
        BY <2>3, <2>5
      <4> QED
        BY <4>1, EncodedReads
    <3>2. Reads(w, i + 1, "map") /\ ReadsMap(w, i + 1, 3)
      <4>1. i + 1 \in DOMAIN w /\ w[i + 1] = MapOf(3)
        BY <2>3, <2>5
      <4> QED
        BY <4>1, EncodedReads
    <3>3. ReadsUint(w, i + 2, 1) /\ ReadsUint(w, i + 3, 0) /\ ReadsUint(w, i + 4, 2)
      <4>1. /\ i + 2 \in DOMAIN w /\ w[i + 2] = Uint(1)
            /\ i + 3 \in DOMAIN w /\ w[i + 3] = Uint(0)
            /\ i + 4 \in DOMAIN w /\ w[i + 4] = Uint(2)
        BY <2>3, <2>5
      <4> QED
        BY <4>1, EncodedReads
    <3>4. Reads(w, i + 5, "uint") /\ w[i + 5].number = e.size
      <4>1. i + 5 \in DOMAIN w /\ w[i + 5] = Uint(e.size)
        BY <2>3, <2>5
      <4> QED
        BY <2>1, <4>1, EncodedReads
    <3>5. ReadsUint(w, i + 6, 3)
      <4>1. i + 6 \in DOMAIN w /\ w[i + 6] = Uint(3)
        BY <2>3, <2>5
      <4> QED
        BY <4>1, EncodedReads
    <3> QED
      BY <3>1, <3>2, <3>3, <3>4, <3>5
  <2>8. EntryAt(w, i) = [entry |-> File(w[i + 5].number, HashesAt(w, i + 7)),
                         next |-> i + 8 + w[i + 7].number]
    <3>1. ~ReadsMap(w, i + 1, 2) /\ ~ReadsUint(w, i + 3, 1)
      BY <2>7 DEF ReadsMap, ReadsUint
    <3> QED
      BY <2>6, <2>7, <3>1 DEF EntryAt
  <2> QED
    BY <2>1, <2>2, <2>3, <2>5, <2>6, <2>7, <2>8 DEF s
<1>2. CASE e \in Dirs
  <2>1. e.hash \in Texts /\ e = Dir(e.hash)
    BY <1>2 DEF Dirs, Dir
  <2>2. /\ Len(s) = 6
        /\ s[1] = PathItem(p) /\ s[2] = MapOf(2) /\ s[3] = Uint(1) /\ s[4] = Uint(1)
        /\ s[5] = Uint(2) /\ s[6] = Bytes(32, e.hash)
    BY <1>2, DirPart
  <2> HIDE DEF s
  <2>3. ASSUME NEW k \in 1 .. 6 PROVE i + k - 1 \in DOMAIN w /\ w[i + k - 1] = s[k]
    BY <2>2 DEF Laid, s
  <2>4. /\ i \in DOMAIN w /\ i + 1 \in DOMAIN w /\ i + 2 \in DOMAIN w /\ i + 3 \in DOMAIN w
        /\ i + 4 \in DOMAIN w /\ i + 5 \in DOMAIN w
        /\ w[i] = s[1] /\ w[i + 1] = s[2] /\ w[i + 2] = s[3] /\ w[i + 3] = s[4]
        /\ w[i + 4] = s[5] /\ w[i + 5] = s[6]
    <3>1. /\ i + 1 - 1 = i /\ i + 2 - 1 = i + 1 /\ i + 3 - 1 = i + 2 /\ i + 4 - 1 = i + 3
          /\ i + 5 - 1 = i + 4 /\ i + 6 - 1 = i + 5
      OBVIOUS
    <3> QED
      BY <2>3, <3>1
  <2>5. /\ Reads(w, i, "tstr") /\ w[i].number = p
        /\ Reads(w, i + 1, "map") /\ ReadsMap(w, i + 1, 2)
        /\ ReadsUint(w, i + 2, 1) /\ ReadsUint(w, i + 3, 1) /\ ReadsUint(w, i + 4, 2)
        /\ ReadsBytes(w, i + 5, 32) /\ w[i + 5].text = e.hash
    BY <2>1, <2>2, <2>4, EncodedReads
  <2>6. EntryAt(w, i) = [entry |-> Dir(w[i + 5].text), next |-> i + 6]
    <3>1. ~ReadsMap(w, i + 1, 3) /\ ~ReadsUint(w, i + 3, 0)
      BY <2>5 DEF ReadsMap, ReadsUint
    <3> QED
      BY <2>5, <3>1 DEF EntryAt
  <2> QED
    BY <2>1, <2>2, <2>4, <2>5, <2>6 DEF s
<1> QED
  BY <1>1, <1>2 DEF Entries

\* What DecodeTree makes of a wire: the number of its entries, where they start,
\* their paths and the tree.
Count(w) == ItemAt(w, 3).number
Starts(w) == StartsAt(w, Count(w))
PathIn(w, j) == w[Starts(w)[j]].number
TreeIn(w) ==
  [p \in {PathIn(w, j) : j \in 1 .. Count(w)} |->
     EntryAt(w, Starts(w)[CHOOSE j \in 1 .. Count(w) : PathIn(w, j) = p]).entry]

\* What a tree is decoded to, when nothing in it is refused.
LEMMA TreeDecoded ==
  ASSUME NEW w, ReadsMap(w, 1, 1), ReadsUint(w, 2, 1), Reads(w, 3, "map"),
         Count(w) <= MaxEntries, Starts(w)[Count(w) + 1] = Len(w) + 1,
         ~\E j \in 1 .. Count(w) : PathIn(w, j) \in BadPaths,
         ~\E k \in 1 .. Count(w) - 1 : PathIn(w, k + 1) <= PathIn(w, k)
  PROVE  DecodeTree(w) = TreeIn(w)
  BY ZenonT(30) DEF DecodeTree, TreeIn, PathIn, Starts, Count

\* A wire whose entries are those of t is decoded to t.
LEMMA TreeRead ==
  ASSUME NEW w, NEW n \in Nat, NEW t, NEW paths, n = Count(w),
         ReadsMap(w, 1, 1), ReadsUint(w, 2, 1), Reads(w, 3, "map"), n <= MaxEntries,
         Starts(w)[n + 1] = Len(w) + 1,
         t = [p \in DOMAIN t |-> t[p]], DOMAIN t \cap BadPaths = {},
         n = Cardinality(DOMAIN t), Lists(paths, DOMAIN t),
         \A j \in 1 .. n :
           /\ paths[j] \in DOMAIN t /\ paths[j] \in Nat
           /\ PathIn(w, j) = paths[j]
           /\ EntryAt(w, Starts(w)[j]).entry = t[paths[j]]
  PROVE  DecodeTree(w) = t
<1> DEFINE P == {PathIn(w, j) : j \in 1 .. n}
           u == TreeIn(w)
<1>1. ~\E j \in 1 .. n : PathIn(w, j) \in BadPaths
  OBVIOUS
<1>2. ~\E k \in 1 .. n - 1 : PathIn(w, k + 1) <= PathIn(w, k)
  <2> SUFFICES ASSUME NEW k \in 1 .. n - 1 PROVE ~(PathIn(w, k + 1) <= PathIn(w, k))
    OBVIOUS
  <2>1. k \in 1 .. n /\ k + 1 \in 1 .. n /\ k < k + 1
    OBVIOUS
  <2>2. paths[k] < paths[k + 1]
    BY <2>1 DEF Lists
  <2>3. paths[k] \in Nat /\ paths[k + 1] \in Nat
    BY <2>1
  <2>4. PathIn(w, k) = paths[k] /\ PathIn(w, k + 1) = paths[k + 1]
    BY <2>1
  <2> QED
    BY <2>2, <2>3, <2>4
<1>3. DecodeTree(w) = u
  BY <1>1, <1>2, TreeDecoded
<1>4. P = DOMAIN t
  <2>1. \A j \in 1 .. n : PathIn(w, j) \in DOMAIN t
    OBVIOUS
  <2>2. ASSUME NEW p \in DOMAIN t PROVE p \in P
    <3>1. PICK j \in 1 .. n : paths[j] = p
      BY DEF Lists
    <3> QED
      BY <3>1
  <2>3. ASSUME NEW p \in P PROVE p \in DOMAIN t
    BY <2>1
  <2> HIDE DEF P
  <2> QED
    BY <2>2, <2>3
<1>5. ASSUME NEW p \in DOMAIN t PROVE u[p] = t[p]
  <2> DEFINE c == CHOOSE j \in 1 .. n : PathIn(w, j) = p
  <2>1. p \in P
    BY <1>4
  <2>2. \E j \in 1 .. n : PathIn(w, j) = p
    BY <2>1
  <2>3. c \in 1 .. n /\ PathIn(w, c) = p
    BY <2>2
  <2>4. u[p] = EntryAt(w, Starts(w)[c]).entry
    BY <2>1 DEF TreeIn
  <2> HIDE DEF c, u
  <2> QED
    BY <2>3, <2>4
<1>6. u = t
  <2>1. DOMAIN u = P /\ u = [p \in DOMAIN u |-> u[p]]
    BY DEF TreeIn
  <2>2. u = [p \in DOMAIN t |-> u[p]]
    <3> HIDE DEF u, P
    <3> QED
      BY <1>4, <2>1, Zenon
  <2> HIDE DEF u
  <2> QED
    BY <1>5, <2>2
<1> QED
  BY <1>3, <1>6, Zenon

\* decode_tree_body makes of what encode_tree_body wrote the tree it was, for
\* every tree within the limits, however many entries and chunks it has.
THEOREM TreesComeBack ==
  ASSUME NEW t, IsTree(t), Cardinality(DOMAIN t) <= MaxEntries, DOMAIN t \cap BadPaths = {}
  PROVE  DecodeTree(EncodeTree(t)) = t
<1> DEFINE n == Cardinality(DOMAIN t)
           paths == TreePaths(t)
           parts == TreeParts(t)
           f == Seqs!FlattenSeq(parts)
           h == TreeHead(n)
           w == h \o f
           D == DOMAIN t
<1>1. /\ n \in Nat /\ Lists(paths, D) /\ Len(parts) = n
      /\ parts \in Seq(Seq(ShortItems)) /\ EncodeTree(t) = w
      /\ \A i \in 1 .. n :
           /\ paths[i] \in D /\ paths[i] \in Nat /\ t[paths[i]] \in Entries
           /\ parts[i] = EntryPart(paths[i], t[paths[i]])
  BY TreeIs
<1>2. PICK off : Offsets(off, parts)
  <2> HIDE DEF parts
  <2> QED
    BY <1>1, OffsetsExist
<1>3. /\ f \in Seq(ShortItems) /\ Len(f) = off[n]
      /\ \A j \in 1 .. n : \A k \in 1 .. Len(parts[j]) :
           off[j - 1] + k \in 1 .. off[n] /\ f[off[j - 1] + k] = parts[j][k]
  <2> DEFINE T == ShortItems
  <2> HIDE DEF parts, T
  <2>1. parts \in Seq(Seq(T))
    BY <1>1 DEF T
  <2>2. /\ f \in Seq(T) /\ Len(f) = off[Len(parts)]
        /\ \A j \in 1 .. Len(parts) : \A k \in 1 .. Len(parts[j]) :
             off[j - 1] + k \in 1 .. off[Len(parts)] /\ f[off[j - 1] + k] = parts[j][k]
    <3>1. f \in Seq(T)
      BY <1>2, <2>1, FlattenAt
    <3>2. Len(f) = off[Len(parts)]
      BY <1>2, <2>1, FlattenAt
    <3>3. \A j \in 1 .. Len(parts) : \A k \in 1 .. Len(parts[j]) :
             /\ off[j - 1] + k \in 1 .. off[Len(parts)]
             /\ f[off[j - 1] + k] = parts[j][k]
      BY <1>2, <2>1, FlattenAt
    <3> QED
      BY <3>1, <3>2, <3>3
  <2>3. Len(parts) = n
    BY <1>1
  <2> QED
    BY <2>2, <2>3 DEF T
<1>4. /\ off \in [0 .. n -> Nat] /\ off[0] = 0
      /\ \A j \in 1 .. n : off[j] = off[j - 1] + Len(parts[j])
  BY <1>1, <1>2 DEF Offsets
<1>5. /\ h \in Seq(ShortItems) /\ Len(h) = 3
      /\ h[1] = MapOf(1) /\ h[2] = Uint(1) /\ h[3] = MapOf(n)
  BY <1>1, HeadIs
<1> HIDE DEF f, h, parts, paths
<1>6. /\ w \in Seq(ShortItems) /\ Len(w) = 3 + off[n]
      /\ w[1] = h[1] /\ w[2] = h[2] /\ w[3] = h[3]
      /\ \A k \in 1 .. off[n] : w[3 + k] = f[k]
  <2>1. h \in Seq(ShortItems) /\ f \in Seq(ShortItems)
    BY <1>3, <1>5
  <2>2. /\ w \in Seq(ShortItems) /\ Len(w) = Len(h) + Len(f)
        /\ \A i \in 1 .. Len(h) : w[i] = h[i]
        /\ \A k \in 1 .. Len(f) : w[Len(h) + k] = f[k]
    BY <2>1, ConcatAt
  <2> QED
    BY <1>3, <1>5, <2>2
<1> HIDE DEF w
<1>7. w \in Seq(Items) /\ off[n] \in Nat /\ DOMAIN w = 1 .. 3 + off[n]
  <2>1. off[n] \in Nat
    BY <1>1, <1>4
  <2>2. ShortItems \subseteq Items
    BY DEF ShortItems
  <2>3. w \in Seq(Items)
    BY <1>6, <2>2
  <2> QED
    BY <1>6, <2>1, <2>3
<1>8. ASSUME NEW j \in 1 .. n
      PROVE  /\ off[j - 1] \in Nat /\ off[j] = off[j - 1] + Len(parts[j])
             /\ Laid(w, 4 + off[j - 1], parts[j])
  <2>1. j - 1 \in 0 .. n
    BY <1>1
  <2>2. off[j - 1] \in Nat /\ off[j] = off[j - 1] + Len(parts[j])
    BY <1>4, <2>1
  <2>3. ASSUME NEW k \in 1 .. Len(parts[j])
        PROVE  /\ (4 + off[j - 1]) + k - 1 \in DOMAIN w
               /\ w[(4 + off[j - 1]) + k - 1] = parts[j][k]
    <3>1. off[j - 1] + k \in 1 .. off[n] /\ f[off[j - 1] + k] = parts[j][k]
      BY <1>3
    <3>2. w[3 + (off[j - 1] + k)] = parts[j][k]
      BY <1>6, <3>1
    <3>3. /\ (4 + off[j - 1]) + k - 1 = 3 + (off[j - 1] + k)
          /\ 3 + (off[j - 1] + k) \in 1 .. 3 + off[n]
      <4> DEFINE o == off[j - 1]
                 z == off[n]
      <4>1. o \in Nat /\ z \in Nat /\ k \in Nat /\ o + k \in 1 .. z
        <5>1. Len(parts[j]) \in Nat
          <6>1. parts[j] \in Seq(ShortItems)
            BY <1>1
          <6> QED
            BY <6>1
        <5>2. k \in Nat
          BY <5>1
        <5> QED
          BY <1>7, <2>2, <3>1, <5>2
      <4> HIDE DEF o, z
      <4>2. (4 + o) + k - 1 = 3 + (o + k) /\ 3 + (o + k) \in 1 .. 3 + z
        BY <4>1
      <4> QED
        BY <4>2 DEF o, z
    <3> QED
      BY <1>7, <3>2, <3>3
  <2> QED
    BY <2>2, <2>3 DEF Laid
<1>9. ASSUME NEW j \in 1 .. n
      PROVE  /\ EntryAt(w, 4 + off[j - 1]) = [entry |-> t[paths[j]], next |-> 4 + off[j]]
             /\ w[4 + off[j - 1]].number = paths[j]
  <2> DEFINE i == 4 + off[j - 1]
             p == paths[j]
             e == t[paths[j]]
  <2>1. p \in Nat /\ e \in Entries /\ parts[j] = EntryPart(p, e) /\ i \in Nat
    BY <1>1, <1>8
  <2>2. Laid(w, i, EntryPart(p, e))
    BY <1>8, <2>1
  <2> HIDE DEF i, p, e
  <2>3. /\ EntryAt(w, i) = [entry |-> e, next |-> i + Len(EntryPart(p, e))]
        /\ w[i].number = p
    BY <2>1, <2>2, EntryBack
  <2>4. off[j] = off[j - 1] + Len(EntryPart(p, e)) /\ off[j - 1] \in Nat
    BY <1>8, <2>1
  <2>5. Len(EntryPart(p, e)) \in Nat
    <3>1. parts[j] \in Seq(ShortItems)
      BY <1>1
    <3>2. Len(parts[j]) \in Nat
      BY <3>1
    <3> QED
      BY <2>1, <3>2
  <2>6. i + Len(EntryPart(p, e)) = 4 + off[j]
    BY <2>4, <2>5 DEF i
  <2> QED
    BY <2>3, <2>6 DEF i, p, e
<1> DEFINE start == StartsAt(w, n)
<1>10. ASSUME NEW j \in 1 .. n + 1 PROVE start[j] = 4 + off[j - 1]
  <2>1. /\ start[1] = 4
        /\ \A k \in 1 .. n : start[k + 1] = IF start[k] = 0 THEN 0 ELSE EntryAt(w, start[k]).next
    BY <1>1, <1>7, StartSteps
  <2> HIDE DEF start
  <2> DEFINE H == {i \in 0 .. n : start[i + 1] = 4 + off[i]}
  <2>2. 0 \in H
    BY <1>1, <1>4, <2>1
  <2>3. ASSUME NEW i \in 0 .. n, i < n, i \in H PROVE i + 1 \in H
    <3>1. i + 1 \in 1 .. n /\ i + 1 \in 0 .. n /\ (i + 1) - 1 = i
      BY <1>1, <2>3
    <3>2. start[i + 1] = 4 + off[i] /\ off[i] \in Nat
      BY <1>4, <2>3
    <3>3. EntryAt(w, 4 + off[i]).next = 4 + off[i + 1]
      <4> DEFINE j1 == i + 1
      <4>1. j1 \in 1 .. n /\ j1 - 1 = i
        BY <3>1
      <4> HIDE DEF j1
      <4>2. EntryAt(w, 4 + off[j1 - 1]) = [entry |-> t[paths[j1]], next |-> 4 + off[j1]]
        BY <1>9, <4>1, Zenon
      <4>3. EntryAt(w, 4 + off[j1 - 1]).next = 4 + off[j1]
        BY <4>2, EntryOf
      <4> QED
        BY <4>1, <4>3 DEF j1
    <3>4. 4 + off[i] # 0
      BY <3>2
    <3>5. start[(i + 1) + 1] = EntryAt(w, start[i + 1]).next
      BY <2>1, <3>1, <3>2, <3>4
    <3> QED
      BY <3>1, <3>2, <3>3, <3>5
  <2>4. 0 .. n \subseteq H
    <3> HIDE DEF H, n
    <3> QED
      BY <1>1, <2>2, <2>3, UpTo
  <2>5. j - 1 \in 0 .. n /\ (j - 1) + 1 = j
    BY <1>1
  <2>6. j - 1 \in H
    <3> HIDE DEF H, n
    <3> QED
      BY <2>4, <2>5
  <2> QED
    BY <2>5, <2>6
<1> HIDE DEF start
<1>11. /\ ItemAt(w, 3).number = n /\ Reads(w, 3, "map")
       /\ ReadsMap(w, 1, 1) /\ ReadsUint(w, 2, 1)
  <2>1. 1 \in DOMAIN w /\ 2 \in DOMAIN w /\ 3 \in DOMAIN w /\ ItemAt(w, 3) = w[3]
    <3>1. 1 \in DOMAIN w /\ 2 \in DOMAIN w /\ 3 \in DOMAIN w
      BY <1>7
    <3> QED
      BY <3>1 DEF ItemAt
  <2> QED
    BY <1>1, <1>5, <1>6, <2>1, EncodedReads
<1>12. start[n + 1] = Len(w) + 1
  <2>1. n + 1 \in 1 .. n + 1 /\ (n + 1) - 1 = n
    BY <1>1
  <2> QED
    BY <1>6, <1>7, <1>10, <2>1
<1>13. \A j \in 1 .. n : /\ w[start[j]].number = paths[j]
                         /\ EntryAt(w, start[j]).entry = t[paths[j]]
  <2> TAKE j \in 1 .. n
  <2>1. j \in 1 .. n + 1
    BY <1>1
  <2>2. start[j] = 4 + off[j - 1]
    BY <1>10, <2>1
  <2>3. /\ EntryAt(w, 4 + off[j - 1]) = [entry |-> t[paths[j]], next |-> 4 + off[j]]
        /\ w[4 + off[j - 1]].number = paths[j]
    BY <1>9
  <2>4. EntryAt(w, 4 + off[j - 1]).entry = t[paths[j]]
    BY <2>3, EntryOf
  <2> QED
    BY <2>2, <2>3, <2>4, Zenon
<1>14. n <= MaxEntries /\ D \cap BadPaths = {} /\ t = [p \in D |-> t[p]]
  BY DEF IsTree
<1>15. start = StartsAt(w, n)
  BY DEF start
<1>16. DecodeTree(w) = t
  <2>1. n = Cardinality(DOMAIN t) /\ Lists(paths, DOMAIN t)
    BY <1>1
  <2>2. \A j \in 1 .. n : paths[j] \in DOMAIN t /\ paths[j] \in Nat
    BY <1>1
  <2>3. n \in Nat /\ n = ItemAt(w, 3).number
    BY <1>1, <1>11
  <2> HIDE DEF n
  <2>4. n = Count(w) /\ start = Starts(w)
    BY <1>15, <2>3 DEF Starts, Count
  <2>5. \A j \in 1 .. n : /\ PathIn(w, j) = paths[j]
                          /\ EntryAt(w, Starts(w)[j]).entry = t[paths[j]]
    BY <1>13, <2>4 DEF PathIn
  <2>6. Starts(w)[n + 1] = Len(w) + 1
    BY <1>12, <2>4
  <2> QED
    BY <1>11, <1>14, <2>1, <2>2, <2>3, <2>4, <2>5, <2>6, TreeRead
<1> QED
  BY <1>1, <1>16, Zenon

\* The recursion of KeyAt, made explicit.
LEMMA KeySteps ==
  ASSUME NEW w \in Seq(Items), NEW fields \in Seq(FieldNames)
  PROVE  /\ KeyAt(fields, w)[1] = 2
         /\ \A k \in 1 .. Len(fields) : KeyAt(fields, w)[k + 1] =
              KeyAt(fields, w)[k] + 2 + (IF fields[k] = "hashes"
                                         THEN ItemAt(w, KeyAt(fields, w)[k] + 1).number ELSE 0)
<1> DEFINE n == Len(fields)
           After(k, x) == x + 2 + (IF fields[k] = "hashes" THEN ItemAt(w, x + 1).number ELSE 0)
           F == [k \in 1 .. n |-> [x \in Nat |-> After(k, x)]]
           Def(g) == g = [k \in 1 .. n + 1 |-> IF k = 1 THEN 2
                          ELSE g[k - 1] + 2 + (IF fields[k - 1] = "hashes"
                                               THEN ItemAt(w, g[k - 1] + 1).number ELSE 0)]
           key == CHOOSE g : Def(g)
<1> n \in Nat
  OBVIOUS
<1>1. ASSUME NEW k, NEW x \in Nat PROVE After(k, x) \in Nat
  <2>1. ItemAt(w, x + 1).number \in Nat
    <3>1. CASE x + 1 \in DOMAIN w
      <4>1. w[x + 1] \in Items
        BY <3>1
      <4> QED
        BY <3>1, <4>1 DEF ItemAt, Items
    <3>2. CASE x + 1 \notin DOMAIN w
      BY <3>2 DEF ItemAt
    <3> QED
      BY <3>1, <3>2
  <2> QED
    BY <2>1
<1>2. F \in [1 .. n -> [Nat -> Nat]] /\ 2 \in Nat
  <2> HIDE DEF After, n
  <2> QED
    BY <1>1
<1>3. PICK f \in [0 .. n -> Nat] : Iterates(f, n, 2, F)
  <2> HIDE DEF F, n
  <2> QED
    BY <1>2, Iteration
<1>4. f[0] = 2 /\ \A i \in 1 .. n : f[i] = After(i, f[i - 1])
  <2>1. f[0] = 2
    BY <1>3 DEF Iterates
  <2>2. ASSUME NEW i \in 1 .. n PROVE f[i] = After(i, f[i - 1])
    <3>1. i - 1 \in 0 .. n
      OBVIOUS
    <3>2. f[i - 1] \in Nat /\ f[i] = F[i][f[i - 1]]
      BY <1>3, <3>1 DEF Iterates
    <3> HIDE DEF After
    <3> QED
      BY <3>2
  <2> QED
    BY <2>1, <2>2
<1> DEFINE g == [k \in 1 .. n + 1 |-> f[k - 1]]
<1>5. /\ g[1] = 2
      /\ \A k \in 1 .. n + 1 : k # 1 => g[k] = After(k - 1, g[k - 1])
  <2>1. 1 \in 1 .. n + 1 /\ 1 - 1 = 0
    OBVIOUS
  <2>2. g[1] = 2
    BY <1>4, <2>1
  <2>3. ASSUME NEW k \in 1 .. n + 1, k # 1 PROVE g[k] = After(k - 1, g[k - 1])
    <3>1. k - 1 \in 1 .. n /\ k - 1 \in 1 .. n + 1
      BY <2>3
    <3>2. g[k] = f[k - 1] /\ g[k - 1] = f[(k - 1) - 1]
      BY <3>1
    <3>3. f[k - 1] = After(k - 1, f[(k - 1) - 1])
      BY <1>4, <3>1
    <3> HIDE DEF After, g
    <3> QED
      BY <3>2, <3>3
  <2> QED
    BY <2>2, <2>3
<1>6. Def(g)
  <2>1. g = [k \in 1 .. n + 1 |-> g[k]]
    OBVIOUS
  <2>2. \A k \in 1 .. n + 1 : g[k] = IF k = 1 THEN 2
                          ELSE g[k - 1] + 2 + (IF fields[k - 1] = "hashes"
                                               THEN ItemAt(w, g[k - 1] + 1).number ELSE 0)
    <3> HIDE DEF g
    <3> QED
      BY <1>5
  <2> HIDE DEF g
  <2> QED
    BY <2>1, <2>2
<1>7. Def(key)
  <2> HIDE DEF Def, g
  <2> QED
    BY <1>6
<1>8. KeyAt(fields, w) = key
  BY DEF KeyAt
<1> HIDE DEF key, g, F
<1>9. key[1] = 2
  <2>1. 1 \in 1 .. n + 1
    OBVIOUS
  <2> QED
    BY <1>7, <2>1
<1>10. \A k \in 1 .. n : key[k + 1] = After(k, key[k])
  <2> TAKE k \in 1 .. n
  <2>1. k + 1 \in 1 .. n + 1 /\ k + 1 # 1 /\ (k + 1) - 1 = k
    OBVIOUS
  <2> QED
    BY <1>7, <2>1
<1> QED
  BY <1>8, <1>9, <1>10

\* A field is read as what it was.
LEMMA FieldBack ==
  ASSUME NEW w, NEW i \in Nat, NEW field \in FieldNames, NEW v \in FieldValues(field),
         Laid(w, i, FieldItems(field, v))
  PROVE  /\ ReadsField(field, w, i) /\ FieldAt(field, w, i) = v
         /\ Len(FieldItems(field, v)) =
              1 + (IF field = "hashes" THEN ItemAt(w, i).number ELSE 0)
<1> DEFINE s == FieldItems(field, v)
<1>1. CASE field \in {"number", "short"}
  <2>1. v \in Nat /\ (field = "short" => v < 65536)
    BY <1>1 DEF FieldValues
  <2>2. s = <<Uint(v)>>
    BY <1>1 DEF FieldItems
  <2>3. Len(s) = 1 /\ s[1] = Uint(v)
    BY <2>2
  <2> HIDE DEF s
  <2>4. i \in DOMAIN w /\ w[i] = Uint(v)
    <3>1. 1 \in 1 .. Len(s) /\ i + 1 - 1 = i
      BY <2>3
    <3> QED
      BY <2>3, <3>1 DEF Laid, s
  <2>5. Reads(w, i, "uint") /\ w[i].number = v
    BY <2>1, <2>4, EncodedReads
  <2> QED
    BY <1>1, <2>1, <2>3, <2>5 DEF ReadsField, FieldAt, s
<1>2. CASE field = "hashes"
  <2> DEFINE L == Len(v)
  <2>1. v \in Seq(Texts) /\ L <= MaxParents
    BY <1>2 DEF FieldValues
  <2>2. L \in Nat
    BY <2>1
  <2>3. s = HashItems(v)
    BY <1>2 DEF FieldItems
  <2>4. /\ Len(s) = L + 1 /\ s[1] = ArrayOf(L)
        /\ \A j \in 1 .. L : s[j + 1] = Bytes(32, v[j])
    BY <2>1, <2>3, HashItemsAre
  <2> HIDE DEF s, L
  <2>5. ASSUME NEW k \in 1 .. L + 1 PROVE i + k - 1 \in DOMAIN w /\ w[i + k - 1] = s[k]
    BY <2>4 DEF Laid, s
  <2>6. i \in DOMAIN w /\ w[i] = ArrayOf(L)
    <3>1. 1 \in 1 .. L + 1 /\ i + 1 - 1 = i
      BY <2>2
    <3> QED
      BY <2>4, <2>5, <3>1
  <2>7. \A j \in 1 .. L : i + j \in DOMAIN w /\ w[i + j] = Bytes(32, v[j])
    <3> TAKE j \in 1 .. L
    <3>1. j + 1 \in 1 .. L + 1 /\ i + (j + 1) - 1 = i + j
      BY <2>2
    <3> QED
      BY <2>4, <2>5, <3>1
  <2>8. ReadsHashes(w, i) /\ HashesAt(w, i) = v /\ w[i].number = L
    BY <2>1, <2>6, <2>7, HashesBack DEF L
  <2>9. ItemAt(w, i) = w[i]
    BY <2>6 DEF ItemAt
  <2>10. ReadsField(field, w, i) /\ FieldAt(field, w, i) = v
    BY <1>2, <2>1, <2>8 DEF ReadsField, FieldAt
  <2>11. Len(s) = 1 + ItemAt(w, i).number
    BY <2>2, <2>4, <2>8, <2>9
  <2> QED
    BY <1>2, <2>10, <2>11 DEF s
<1>3. CASE field \notin {"number", "short", "hashes"}
  <2>1. v \in Texts
    BY <1>3 DEF FieldValues
  <2> DEFINE x == IF field = "text" THEN Name(v) ELSE Bytes(Long(field), v)
  <2>2. s = <<x>>
    BY <1>3 DEF FieldItems, FieldNames
  <2>3. Len(s) = 1 /\ s[1] = x
    BY <2>2
  <2> HIDE DEF s, x
  <2>4. i \in DOMAIN w /\ w[i] = x
    <3>1. 1 \in 1 .. Len(s) /\ i + 1 - 1 = i
      BY <2>3
    <3> QED
      BY <2>3, <3>1 DEF Laid, s
  <2>5. CASE field = "text"
    <3>1. 8 \in Nat /\ x = Name(v)
      BY <2>5 DEF x
    <3>2. Reads(w, i, "tstr") /\ w[i].text = v
      BY <2>4, <3>1, EncodedReads
    <3> QED
      BY <2>3, <2>5, <3>2 DEF ReadsField, FieldAt, s
  <2>6. CASE field # "text"
    <3>1. Long(field) \in Nat /\ x = Bytes(Long(field), v)
      BY <2>6 DEF x, Long
    <3>2. ReadsBytes(w, i, Long(field)) /\ w[i].text = v
      BY <2>4, <3>1, EncodedReads
    <3> QED
      BY <1>3, <2>3, <2>6, <3>2 DEF ReadsField, FieldAt, s, FieldNames
  <2> QED
    BY <2>5, <2>6
<1> QED
  BY <1>1, <1>2, <1>3

\* decode_commit_body and decode_head_announcement make of what was encoded the
\* values it had, for every value the decoder takes.
THEOREM FieldsComeBack ==
  ASSUME NEW fields \in Seq(FieldNames), NEW value,
         value = [k \in 1 .. Len(fields) |-> value[k]],
         \A k \in 1 .. Len(fields) : value[k] \in FieldValues(fields[k])
  PROVE  DecodeFields(fields, EncodeFields(fields, value)) = value
<1> DEFINE n == Len(fields)
           parts == FieldParts(fields, value)
           f == Seqs!FlattenSeq(parts)
           h == <<MapOf(n)>>
           w == h \o f
<1>1. /\ n \in Nat /\ parts \in Seq(Seq(ShortItems)) /\ Len(parts) = n
      /\ EncodeFields(fields, value) = w
  BY FieldPartsAre DEF EncodeFields, FieldParts
<1>2. ASSUME NEW k \in 1 .. n
      PROVE  /\ fields[k] \in FieldNames /\ value[k] \in FieldValues(fields[k])
             /\ FieldItems(fields[k], value[k]) \in Seq(ShortItems)
             /\ parts[k] = <<Uint(k)>> \o FieldItems(fields[k], value[k])
  <2>1. fields[k] \in FieldNames /\ value[k] \in FieldValues(fields[k])
    OBVIOUS
  <2>2. FieldItems(fields[k], value[k]) \in Seq(ShortItems)
    BY <2>1, FieldItemsAreShort
  <2> QED
    BY <2>1, <2>2 DEF FieldParts
<1>3. PICK off : Offsets(off, parts)
  <2> HIDE DEF parts
  <2> QED
    BY <1>1, OffsetsExist
<1>4. /\ f \in Seq(ShortItems) /\ Len(f) = off[n]
      /\ \A j \in 1 .. n : \A k \in 1 .. Len(parts[j]) :
           off[j - 1] + k \in 1 .. off[n] /\ f[off[j - 1] + k] = parts[j][k]
  <2> DEFINE T == ShortItems
  <2> HIDE DEF parts, T
  <2>1. parts \in Seq(Seq(T))
    BY <1>1 DEF T
  <2>2. /\ f \in Seq(T) /\ Len(f) = off[Len(parts)]
        /\ \A j \in 1 .. Len(parts) : \A k \in 1 .. Len(parts[j]) :
             off[j - 1] + k \in 1 .. off[Len(parts)] /\ f[off[j - 1] + k] = parts[j][k]
    BY <1>3, <2>1, FlattenAt
  <2> QED
    BY <1>1, <2>2 DEF T
<1>5. /\ off \in [0 .. n -> Nat] /\ off[0] = 0
      /\ \A j \in 1 .. n : off[j] = off[j - 1] + Len(parts[j])
  BY <1>1, <1>3 DEF Offsets
<1>6. h \in Seq(ShortItems) /\ Len(h) = 1 /\ h[1] = MapOf(n)
  <2>1. MapOf(n) \in ShortItems
    BY <1>1, ItemsAreShort
  <2> QED
    BY <2>1
<1>0. n \in Nat
  OBVIOUS
<1> HIDE DEF f, h, parts, n
<1>7. /\ w \in Seq(ShortItems) /\ Len(w) = 1 + off[n] /\ w[1] = MapOf(n)
      /\ \A k \in 1 .. off[n] : w[1 + k] = f[k]
  <2>1. h \in Seq(ShortItems) /\ f \in Seq(ShortItems)
    BY <1>4, <1>6
  <2>2. /\ w \in Seq(ShortItems) /\ Len(w) = Len(h) + Len(f)
        /\ \A i \in 1 .. Len(h) : w[i] = h[i]
        /\ \A k \in 1 .. Len(f) : w[Len(h) + k] = f[k]
    BY <2>1, ConcatAt
  <2> QED
    BY <1>4, <1>6, <2>2
<1> HIDE DEF w
<1>8. w \in Seq(Items) /\ off[n] \in Nat /\ DOMAIN w = 1 .. 1 + off[n]
  <2>1. off[n] \in Nat
    BY <1>1, <1>5
  <2>2. ShortItems \subseteq Items
    BY DEF ShortItems
  <2>3. w \in Seq(Items)
    BY <1>7, <2>2
  <2> QED
    BY <1>7, <2>1, <2>3
<1>9. ASSUME NEW j \in 1 .. n
      PROVE  /\ off[j - 1] \in Nat
             /\ ReadsUint(w, 2 + off[j - 1], j)
             /\ Laid(w, 3 + off[j - 1], FieldItems(fields[j], value[j]))
             /\ off[j] = off[j - 1] + 1 + Len(FieldItems(fields[j], value[j]))
             /\ Len(FieldItems(fields[j], value[j])) \in Nat
  <2> DEFINE s == FieldItems(fields[j], value[j])
             L == Len(s)
             u == <<Uint(j)>>
             o == off[j - 1]
  <2>1. s \in Seq(ShortItems) /\ parts[j] = u \o s
    BY <1>2
  <2>2. u \in Seq(ShortItems) /\ Len(u) = 1 /\ u[1] = Uint(j)
    <3>1. Uint(j) \in ShortItems
      BY ItemsAreShort
    <3> QED
      BY <3>1
  <2> HIDE DEF s, u
  <2>3. /\ Len(parts[j]) = 1 + L /\ parts[j][1] = Uint(j) /\ L \in Nat
        /\ \A k \in 1 .. L : parts[j][1 + k] = s[k]
    <3> DEFINE T == ShortItems
    <3> HIDE DEF T
    <3>1. s \in Seq(T) /\ u \in Seq(T) /\ L \in Nat
      BY <2>1, <2>2 DEF T
    <3>2. /\ Len(u \o s) = Len(u) + L
          /\ \A i \in 1 .. Len(u) : (u \o s)[i] = u[i]
          /\ \A k \in 1 .. L : (u \o s)[Len(u) + k] = s[k]
      BY <3>1, ConcatAt
    <3>3. 1 \in 1 .. 1
      OBVIOUS
    <3> QED
      BY <2>1, <2>2, <3>1, <3>2, <3>3
  <2>4. o \in Nat /\ off[j] = o + (1 + L)
    <3>1. j - 1 \in 0 .. n
      BY <1>1
    <3> QED
      BY <1>5, <2>3, <3>1
  <2> HIDE DEF L, o
  <2>5. ASSUME NEW k \in 1 .. 1 + L
        PROVE  (1 + o) + k \in DOMAIN w /\ w[(1 + o) + k] = parts[j][k]
    <3>1. o + k \in 1 .. off[n] /\ f[o + k] = parts[j][k]
      BY <1>4, <2>3 DEF o
    <3>2. w[1 + (o + k)] = parts[j][k]
      BY <1>7, <3>1
    <3>3. 1 + (o + k) = (1 + o) + k /\ 1 + (o + k) \in 1 .. 1 + off[n]
      BY <1>8, <2>4, <3>1
    <3> QED
      BY <1>8, <3>2, <3>3
  <2>6. ReadsUint(w, 2 + o, j)
    <3>1. 1 \in 1 .. 1 + L /\ (1 + o) + 1 = 2 + o
      BY <2>3, <2>4
    <3>2. 2 + o \in DOMAIN w /\ w[2 + o] = Uint(j)
      BY <2>3, <2>5, <3>1
    <3> QED
      BY <3>2, EncodedReads
  <2>7. ASSUME NEW k \in 1 .. L
        PROVE  (3 + o) + k - 1 \in DOMAIN w /\ w[(3 + o) + k - 1] = s[k]
    <3>1. 1 + k \in 1 .. 1 + L /\ (1 + o) + (1 + k) = (3 + o) + k - 1
      <4>1. L \in Nat /\ o \in Nat
        BY <2>3, <2>4
      <4> QED
        BY <4>1
    <3> QED
      BY <2>3, <2>5, <3>1
  <2>8. Laid(w, 3 + o, s)
    BY <2>7 DEF Laid, L
  <2>9. off[j] = o + 1 + L
    BY <2>3, <2>4
  <2> QED
    BY <2>3, <2>4, <2>6, <2>8, <2>9 DEF L, s, o
<1>10. ASSUME NEW j \in 1 .. n
       PROVE  /\ ReadsField(fields[j], w, 3 + off[j - 1])
              /\ FieldAt(fields[j], w, 3 + off[j - 1]) = value[j]
              /\ off[j] = off[j - 1] + 2 + (IF fields[j] = "hashes"
                                            THEN ItemAt(w, 3 + off[j - 1]).number ELSE 0)
  <2> DEFINE i == 3 + off[j - 1]
             field == fields[j]
             v == value[j]
  <2>1. i \in Nat /\ field \in FieldNames /\ v \in FieldValues(field) /\ Laid(w, i, FieldItems(field, v))
    <3>1. i \in Nat
      <4>1. off[j - 1] \in Nat
        BY <1>9
      <4> QED
        BY <4>1
    <3>2. field \in FieldNames /\ v \in FieldValues(field)
      BY <1>2
    <3>3. Laid(w, i, FieldItems(field, v))
      BY <1>9
    <3> QED
      BY <3>1, <3>2, <3>3
  <2> HIDE DEF i, field, v
  <2>2. /\ ReadsField(field, w, i) /\ FieldAt(field, w, i) = v
        /\ Len(FieldItems(field, v)) = 1 + (IF field = "hashes" THEN ItemAt(w, i).number ELSE 0)
    BY <2>1, FieldBack
  <2> DEFINE d == IF field = "hashes" THEN ItemAt(w, i).number ELSE 0
  <2>3. Len(FieldItems(field, v)) \in Nat /\ off[j - 1] \in Nat
        /\ off[j] = off[j - 1] + 1 + Len(FieldItems(field, v))
    BY <1>9 DEF field, v
  <2>4. d \in Nat
    <3>1. CASE field = "hashes"
      <4>1. ReadsHashes(w, i)
        BY <2>2, <3>1 DEF ReadsField
      <4>2. i \in DOMAIN w
        BY <1>8, <4>1, HashesTyped
      <4>3. w[i] \in Items
        BY <1>8, <4>2
      <4> QED
        BY <3>1, <4>2, <4>3 DEF ItemAt, Items
    <3> QED
      BY <3>1
  <2>5. Len(FieldItems(field, v)) = 1 + d
    BY <2>2
  <2> HIDE DEF d
  <2>6. off[j] = off[j - 1] + 2 + d
    <3> DEFINE o == off[j - 1]
               L == Len(FieldItems(field, v))
    <3>1. o \in Nat /\ L = 1 + d /\ off[j] = o + 1 + L
      BY <2>3, <2>5
    <3> HIDE DEF o, L
    <3>2. off[j] = o + 2 + d
      BY <2>4, <3>1
    <3> QED
      BY <3>2 DEF o
  <2> QED
    BY <2>2, <2>6 DEF d, i, field, v
<1> DEFINE key == KeyAt(fields, w)
<1>11. ASSUME NEW j \in 1 .. n + 1 PROVE key[j] = 2 + off[j - 1]
  <2> DEFINE d(k, x) == IF fields[k] = "hashes" THEN ItemAt(w, x).number ELSE 0
  <2>1. key[1] = 2 /\ \A k \in 1 .. n : key[k + 1] = key[k] + 2 + d(k, key[k] + 1)
    BY <1>8, KeySteps DEF n
  <2> HIDE DEF key
  <2> DEFINE H == {i \in 0 .. n : key[i + 1] = 2 + off[i]}
  <2>2. 0 \in H
    BY <1>1, <1>5, <2>1
  <2>3. ASSUME NEW i \in 0 .. n, i < n, i \in H PROVE i + 1 \in H
    <3> DEFINE j1 == i + 1
    <3>1. j1 \in 1 .. n /\ j1 \in 0 .. n /\ j1 - 1 = i
      <4>1. i + 1 \in 1 .. n /\ i + 1 \in 0 .. n /\ (i + 1) - 1 = i
        BY <1>0, <2>3
      <4> QED
        BY <4>1
    <3>2. key[i + 1] = 2 + off[i] /\ off[i] \in Nat
      BY <1>5, <2>3
    <3>3. key[j1] = 2 + off[j1 - 1] /\ off[j1 - 1] \in Nat /\ off[j1] \in Nat
      BY <1>5, <3>1, <3>2
    <3> HIDE DEF j1
    <3>4. off[j1] = off[j1 - 1] + 2 + d(j1, 3 + off[j1 - 1])
      BY <1>10, <3>1
    <3>5. key[j1] + 1 = 3 + off[j1 - 1]
      BY <3>3
    <3>6. key[j1 + 1] = key[j1] + 2 + d(j1, 3 + off[j1 - 1])
      BY <2>1, <3>1, <3>5
    <3> DEFINE e == d(j1, 3 + off[j1 - 1])
    <3>7. e \in Nat
      <4>1. CASE fields[j1] = "hashes"
        <5> DEFINE i1 == 3 + off[j1 - 1]
                   field == fields[j1]
        <5>0. ReadsField(field, w, i1)
          BY <1>10, <3>1
        <5> HIDE DEF i1
        <5>1. ReadsHashes(w, i1)
          <6>1. field = "hashes"
            BY <4>1
          <6> HIDE DEF field
          <6> QED
            BY <5>0, <6>1 DEF ReadsField
        <5>2. i1 \in DOMAIN w
          BY <1>8, <5>1, HashesTyped
        <5>3. w[i1] \in Items
          BY <1>8, <5>2
        <5>4. ItemAt(w, i1).number \in Nat
          BY <5>2, <5>3 DEF ItemAt, Items
        <5> QED
          BY <4>1, <5>4 DEF i1
      <4> QED
        BY <4>1
    <3> HIDE DEF e, d
    <3>8. key[j1 + 1] = 2 + off[j1]
      BY <3>3, <3>4, <3>6, <3>7 DEF e
    <3> QED
      BY <3>1, <3>8 DEF j1
  <2>4. 0 .. n \subseteq H
    <3> HIDE DEF H, n
    <3> QED
      BY <1>1, <2>2, <2>3, UpTo
  <2>5. j - 1 \in 0 .. n /\ (j - 1) + 1 = j
    BY <1>1
  <2>6. j - 1 \in H
    <3> HIDE DEF H, n
    <3> QED
      BY <2>4, <2>5
  <2> QED
    BY <2>5, <2>6 DEF key
<1> HIDE DEF key
<1>12. ReadsMap(w, 1, n)
  <2>1. 1 \in DOMAIN w
    BY <1>8
  <2> QED
    BY <1>1, <1>7, <2>1, EncodedReads
<1>13. ASSUME NEW k \in 1 .. n
       PROVE  /\ ReadsUint(w, key[k], k) /\ ReadsField(fields[k], w, key[k] + 1)
              /\ FieldAt(fields[k], w, key[k] + 1) = value[k]
  <2>1. k \in 1 .. n + 1 /\ off[k - 1] \in Nat
    <3>1. k \in 1 .. n + 1
      BY <1>0
    <3> QED
      BY <1>9, <3>1
  <2>2. key[k] = 2 + off[k - 1]
    BY <1>11, <2>1
  <2>3. key[k] + 1 = 3 + off[k - 1]
    BY <2>1, <2>2
  <2> QED
    BY <1>9, <1>10, <2>2, <2>3
<1>14. key[n + 1] = Len(w) + 1
  <2>1. n + 1 \in 1 .. n + 1 /\ (n + 1) - 1 = n
    BY <1>1
  <2> QED
    BY <1>7, <1>8, <1>11, <2>1
<1> DEFINE u == [k \in 1 .. n |-> FieldAt(fields[k], w, key[k] + 1)]
<1>15. DecodeFields(fields, w) = u
  <2>1. \A k \in 1 .. n : ReadsUint(w, key[k], k) /\ ReadsField(fields[k], w, key[k] + 1)
    BY <1>13
  <2> QED
    BY <1>12, <1>14, <2>1, SMTT(30) DEF DecodeFields, key, n
<1>16. u = value
  <2>1. \A k \in 1 .. n : u[k] = value[k]
    BY <1>13
  <2>2. u = [k \in 1 .. n |-> u[k]]
    OBVIOUS
  <2>3. value = [k \in 1 .. n |-> value[k]]
    BY DEF n
  <2> HIDE DEF u
  <2> QED
    BY <2>1, <2>2, <2>3
<1> HIDE DEF u
<1> QED
  BY <1>1, <1>15, <1>16, Zenon

\* What the fields of a commit and of a head announcement are.
LEMMA FieldsKnown ==
  /\ CommitFields \in Seq(FieldNames) /\ Len(CommitFields) = 7
  /\ HeadFields \in Seq(FieldNames) /\ Len(HeadFields) = 9
  BY DEF CommitFields, HeadFields, FieldNames

\* The lists of hashes that SomeTrees and SomeCommits use.
LEMMA OneHash ==
  ASSUME NEW s \in {<<>>} \cup {<<g>> : g \in Said}
  PROVE  s \in Seq(Texts)
<1>1. CASE s = <<>>
  BY <1>1
<1>2. CASE s # <<>>
  <2>1. PICK g \in Said : s = <<g>>
    BY <1>2
  <2>2. g \in Texts
    BY DEF Texts
  <2> QED
    BY <2>1, <2>2
<1> QED
  BY <1>1, <1>2

\* SomeTrees are trees within the limits.
LEMMA SomeTreesAre ==
  ASSUME NEW t \in SomeTrees
  PROVE  IsTree(t) /\ Cardinality(DOMAIN t) <= MaxEntries /\ DOMAIN t \cap BadPaths = {}
<1> DEFINE Some == {File(s, c) : s \in {0, 24}, c \in {<<>>} \cup {<<h>> : h \in Said}}
                     \cup {Dir(h) : h \in Said}
<1>1. PICK q \in SUBSET (PathNames \ BadPaths) :
         IsFiniteSet(q) /\ Cardinality(q) <= MaxEntries /\ t \in [q -> Some]
  BY DEF SomeTrees
<1>2. Some \subseteq Entries
  <2>1. \A s \in {0, 24}, c \in {<<>>} \cup {<<h>> : h \in Said} : File(s, c) \in Entries
    <3> TAKE s \in {0, 24}, c \in {<<>>} \cup {<<h>> : h \in Said}
    <3>1. s \in Nat /\ c \in Seq(Texts)
      BY OneHash
    <3> QED
      BY <3>1 DEF Entries, Files, File
  <2>2. \A h \in Said : Dir(h) \in Entries
    BY DEF Entries, Dirs, Dir, Texts
  <2> QED
    BY <2>1, <2>2
<1> HIDE DEF Some
<1>3. DOMAIN t = q /\ t \in [q -> Entries]
  BY <1>1, <1>2
<1>4. q \subseteq Nat /\ q \cap BadPaths = {}
  BY <1>1, WireAssumption
<1> QED
  BY <1>1, <1>3, <1>4 DEF IsTree

\* SomeCommits go out with values the decoder takes.
LEMMA SomeCommitsAre ==
  ASSUME NEW c \in SomeCommits
  PROVE  /\ Sent(c) = [k \in 1 .. 7 |-> Sent(c)[k]] /\ Sent(Sent(c)) = Sent(c)
         /\ \A k \in 1 .. 7 : Sent(c)[k] \in FieldValues(CommitFields[k])
<1>1. PICK h \in Said, ps \in {q \in {<<>>} \cup {<<g>> : g \in Said} : Len(q) <= MaxParents},
           x \in Numbers, v \in {y \in Numbers : y < 65536}, s \in {Unsigned} :
         c = <<h, ps, h, x, h, v, s>>
  BY DEF SomeCommits
<1>2. /\ h \in Texts /\ s \in Texts /\ ps \in Seq(Texts) /\ Len(ps) <= MaxParents
      /\ x \in Nat /\ v \in Nat /\ v < 65536
  <2>1. ps \in Seq(Texts) /\ Len(ps) <= MaxParents
    BY OneHash
  <2> QED
    BY <2>1, WireAssumption DEF Texts
<1> DEFINE v1 == IF v = 0 THEN 1 ELSE v
           u == <<h, ps, h, x, h, v1, s>>
<1>3. v1 \in Nat /\ v1 < 65536 /\ v1 # 0
  BY <1>2
<1>4. Sent(c) = u /\ u[6] = v1
  BY <1>1 DEF Sent
<1>5. Sent(u) = u
  <2> HIDE DEF v1
  <2> QED
    BY <1>3 DEF Sent
<1>6. /\ CommitFields[1] = "bytes32" /\ CommitFields[2] = "hashes" /\ CommitFields[3] = "bytes32"
      /\ CommitFields[4] = "number" /\ CommitFields[5] = "text" /\ CommitFields[6] = "short"
      /\ CommitFields[7] = "bytes64"
  BY DEF CommitFields
<1>7. \A k \in 1 .. 7 : u[k] \in FieldValues(CommitFields[k])
  <2>1. u[1] \in FieldValues("bytes32") /\ u[3] \in FieldValues("bytes32")
    BY <1>2 DEF FieldValues
  <2>2. u[2] \in FieldValues("hashes")
    BY <1>2 DEF FieldValues
  <2>3. u[4] \in FieldValues("number")
    BY <1>2 DEF FieldValues
  <2>4. u[5] \in FieldValues("text") /\ u[7] \in FieldValues("bytes64")
    BY <1>2 DEF FieldValues
  <2>5. u[6] \in FieldValues("short")
    BY <1>3 DEF FieldValues
  <2> HIDE DEF u
  <2> QED
    BY <1>6, <2>1, <2>2, <2>3, <2>4, <2>5
<1>8. u = [k \in 1 .. 7 |-> u[k]]
  <2> HIDE DEF v1
  <2> QED
    OBVIOUS
<1> HIDE DEF u
<1> QED
  BY <1>4, <1>5, <1>7, <1>8

\* SomeHeads have values the decoder takes.
LEMMA SomeHeadsAre ==
  ASSUME NEW c \in SomeHeads
  PROVE  /\ c = [k \in 1 .. 9 |-> c[k]]
         /\ \A k \in 1 .. 9 : c[k] \in FieldValues(HeadFields[k])
<1>1. PICK h \in Said, x \in Numbers, n \in Numbers : c = <<1, h, h, h, x, h, n, 0, Unsigned>>
  BY DEF SomeHeads
<1>2. h \in Texts /\ Unsigned \in Texts /\ x \in Nat /\ n \in Nat
  BY WireAssumption DEF Texts
<1>3. /\ HeadFields[1] = "number" /\ HeadFields[2] = "bytes16" /\ HeadFields[3] = "text"
      /\ HeadFields[4] = "bytes32" /\ HeadFields[5] = "number" /\ HeadFields[6] = "bytes32"
      /\ HeadFields[7] = "number" /\ HeadFields[8] = "number" /\ HeadFields[9] = "bytes64"
  BY DEF HeadFields
<1>4. /\ FieldValues("number") = Nat /\ FieldValues("bytes16") = Texts
      /\ FieldValues("text") = Texts /\ FieldValues("bytes32") = Texts
      /\ FieldValues("bytes64") = Texts
  BY DEF FieldValues
<1>5. /\ c[1] \in Nat /\ c[2] \in Texts /\ c[3] \in Texts /\ c[4] \in Texts /\ c[5] \in Nat
      /\ c[6] \in Texts /\ c[7] \in Nat /\ c[8] \in Nat /\ c[9] \in Texts
  BY <1>1, <1>2
<1>6. c = [k \in 1 .. 9 |-> c[k]]
  BY <1>1
<1> QED
  BY <1>3, <1>4, <1>5, <1>6

-----------------------------------------------------------------------------
(* Sending, changing and importing                                         *)

Sendable == [kind : {"tree"}, value : SomeTrees] \cup [kind : {"commit"}, value : SomeCommits]
              \cup [kind : {"head"}, value : SomeHeads]

\* What is sent is taken.
LEMMA SentIsTaken ==
  ASSUME NEW o \in Sendable
  PROVE  /\ Encode(o) \in Seq(Items) /\ Imports(o.kind, Encode(o))
         /\ o.kind = "commit" \/ Decode(o.kind, Encode(o)) = o.value
<1> DEFINE w == Encode(o)
<1>1. ShortItems \subseteq Items
  BY DEF ShortItems
<1>2. CASE o.kind = "tree"
  <2> DEFINE t == o.value
  <2>1. t \in SomeTrees
    BY <1>2 DEF Sendable
  <2>2. w = EncodeTree(t)
    BY <1>2 DEF Encode
  <2> HIDE DEF t, w
  <2>3. IsTree(t) /\ Cardinality(DOMAIN t) <= MaxEntries /\ DOMAIN t \cap BadPaths = {}
    BY <2>1, SomeTreesAre
  <2>4. w \in Seq(ShortItems)
    BY <2>2, <2>3, TreeIsRegular
  <2>5. Decode("tree", w) = t
    BY <2>2, <2>3, TreesComeBack DEF Decode
  <2>6. Encode([kind |-> "tree", value |-> t]) = w
    BY <2>2 DEF Encode
  <2>7. t # Rejected
    BY <2>1, RejectedAssumption
  <2>8. Imports("tree", w)
    BY <2>5, <2>6, <2>7 DEF Imports
  <2> QED
    BY <1>1, <1>2, <2>4, <2>5, <2>8 DEF t, w
<1>3. CASE o.kind = "commit"
  <2> DEFINE c == o.value
             u == Sent(c)
  <2>1. c \in SomeCommits
    BY <1>3 DEF Sendable
  <2>2. w = EncodeFields(CommitFields, u)
    BY <1>3 DEF Encode
  <2> HIDE DEF c, w
  <2>3. /\ u = [k \in 1 .. 7 |-> u[k]] /\ Sent(u) = u
        /\ \A k \in 1 .. 7 : u[k] \in FieldValues(CommitFields[k])
    BY <2>1, SomeCommitsAre
  <2>4. u # Rejected
    BY <2>1, RejectedAssumption
  <2> HIDE DEF u
  <2>5. w \in Seq(ShortItems)
    BY <2>2, <2>3, FieldsKnown, FieldsAreShort
  <2>6. Decode("commit", w) = u
    BY <2>2, <2>3, FieldsKnown, FieldsComeBack DEF Decode
  <2>7. Encode([kind |-> "commit", value |-> u]) = w
    BY <2>2, <2>3 DEF Encode
  <2>8. Imports("commit", w)
    BY <2>4, <2>6, <2>7 DEF Imports
  <2> QED
    BY <1>1, <1>3, <2>5, <2>8 DEF w
<1>4. CASE o.kind = "head"
  <2> DEFINE h == o.value
  <2>1. h \in SomeHeads
    BY <1>4 DEF Sendable
  <2>2. w = EncodeFields(HeadFields, h)
    BY <1>4 DEF Encode
  <2> HIDE DEF h, w
  <2>3. h = [k \in 1 .. 9 |-> h[k]] /\ \A k \in 1 .. 9 : h[k] \in FieldValues(HeadFields[k])
    BY <2>1, SomeHeadsAre
  <2>4. h # Rejected
    BY <2>1, RejectedAssumption
  <2>5. w \in Seq(ShortItems)
    BY <2>2, <2>3, FieldsKnown, FieldsAreShort
  <2>6. Decode("head", w) = h
    BY <2>2, <2>3, FieldsKnown, FieldsComeBack DEF Decode
  <2>7. Imports("head", w)
    BY <2>4, <2>6 DEF Imports
  <2> QED
    BY <1>1, <1>4, <2>5, <2>6, <2>7 DEF h, w
<1> QED
  BY <1>2, <1>3, <1>4 DEF Sendable

\* The inductive invariant: the wire is items, and until the first change the
\* encoding of the object.
WireInv ==
  /\ object \in Sendable /\ wire \in Seq(Items) /\ edits \in 0 .. MaxEdits
  /\ edits = 0 => wire = Encode(object)

\* It holds at the start,
LEMMA WireInvInit == WireInit => WireInv
<1> SUFFICES ASSUME WireInit PROVE WireInv
  OBVIOUS
<1>1. object \in Sendable /\ wire = Encode(object) /\ edits = 0
  BY DEF WireInit, Sendable
<1>2. wire \in Seq(Items)
  BY <1>1, SentIsTaken
<1> QED
  BY <1>1, <1>2, WireAssumption DEF WireInv

\* What comes out of a change is items again.
LEMMA EditKeeps ==
  ASSUME WireInv, NEW w \in Seq(Items), Edit(w)
  PROVE  WireInv'
<1>1. /\ object' = object /\ wire' = w /\ edits' = edits + 1 /\ edits < MaxEdits
      /\ edits \in 0 .. MaxEdits /\ object \in Sendable
  BY DEF Edit, WireInv
<1>2. edits' \in 0 .. MaxEdits /\ edits' # 0
  BY <1>1, WireAssumption
<1>3. object' \in Sendable'
  BY <1>1
<1> QED
  BY <1>1, <1>2, <1>3 DEF WireInv

\* every step keeps it,
LEMMA WireStep ==
  ASSUME WireInv, [WireNext]_wireVars
  PROVE  WireInv'
<1> DEFINE T == Items
<1>1. wire \in Seq(T)
  BY DEF WireInv
<1>2. ASSUME NEW i \in DOMAIN wire
      PROVE  /\ i \in 1 .. Len(wire) /\ wire[i] \in Items
             /\ wire[i].type \in Kinds /\ wire[i].text \in Texts
             /\ wire[i].number \in Nat
  <2>1. i \in 1 .. Len(wire) /\ wire[i] \in Items
    BY <1>1
  <2> QED
    BY <2>1 DEF Items
<1>3. ASSUME NEW i \in DOMAIN wire, Widen(i) PROVE WireInv'
  <2>1. PICK width \in {1, 2, 4, 8, 9} : Edit([wire EXCEPT ![i].width = width])
    BY <1>3 DEF Widen
  <2> DEFINE x == [wire[i] EXCEPT !.width = width]
  <2>2. x \in Items
    <3>1. wire[i] \in Items /\ width \in {0, 1, 2, 4, 8, 9}
      BY <1>2
    <3> QED
      BY <3>1 DEF Items
  <2>3. [wire EXCEPT ![i].width = width] = [wire EXCEPT ![i] = x]
    OBVIOUS
  <2> HIDE DEF x
  <2>4. [wire EXCEPT ![i] = x] \in Seq(Items)
    BY <1>1, <2>2
  <2> QED
    BY <2>1, <2>3, <2>4, EditKeeps
<1>4. ASSUME NEW i \in DOMAIN wire, Renumber(i) PROVE WireInv'
  <2>1. PICK v \in Numbers \cup PathNames \cup {2, 3} :
          Edit([wire EXCEPT ![i] = Item(@.type, v, @.text)])
    BY <1>4 DEF Renumber
  <2> DEFINE x == Item(wire[i].type, v, wire[i].text)
  <2>2. x \in Items
    <3>1. v \in Nat
      BY WireAssumption
    <3>2. x \in ShortItems
      BY <1>2, <3>1, ItemIsShort
    <3> QED
      BY <3>2 DEF ShortItems
  <2>3. [wire EXCEPT ![i] = Item(@.type, v, @.text)] = [wire EXCEPT ![i] = x]
    OBVIOUS
  <2> HIDE DEF x
  <2>4. [wire EXCEPT ![i] = x] \in Seq(Items)
    BY <1>1, <2>2
  <2> QED
    BY <2>1, <2>3, <2>4, EditKeeps
<1>5. Uint(0) \in Items /\ MapOf(3) \in Items /\ Uint(3) \in Items /\ ArrayOf(0) \in Items
  BY ItemsAreShort DEF ShortItems
<1>6. ASSUME NEW i \in DOMAIN wire, AddChunks(i) PROVE WireInv'
  <2> DEFINE a == SubSeq(wire, 1, i - 1)
             b == <<MapOf(3)>>
             c == SubSeq(wire, i + 1, i + 4)
             d == <<Uint(3), ArrayOf(0)>>
             e == SubSeq(wire, i + 5, Len(wire))
  <2>1. Edit(a \o b \o c \o d \o e) /\ i + 4 <= Len(wire)
    BY <1>6 DEF AddChunks
  <2>2. b \in Seq(T) /\ d \in Seq(T)
    BY <1>5
  <2>3. a \in Seq(T) /\ c \in Seq(T) /\ e \in Seq(T)
    <3>1. i \in 1 .. Len(wire) /\ i + 4 <= Len(wire)
      BY <1>2, <2>1
    <3> HIDE DEF T
    <3>2. a \in Seq(T)
      BY <1>1, <3>1
    <3>3. c \in Seq(T)
      BY <1>1, <3>1
    <3>4. e \in Seq(T)
      BY <1>1, <3>1
    <3> QED
      BY <3>2, <3>3, <3>4
  <2> HIDE DEF a, b, c, d, e
  <2>4. a \o b \o c \o d \o e \in Seq(T)
    <3> HIDE DEF T
    <3>1. a \o b \in Seq(T)
      BY <2>2, <2>3
    <3>2. (a \o b) \o c \in Seq(T)
      BY <2>3, <3>1
    <3>3. ((a \o b) \o c) \o d \in Seq(T)
      BY <2>2, <3>2
    <3> QED
      BY <2>3, <3>3
  <2> QED
    BY <2>1, <2>4, EditKeeps
<1>7. ASSUME Resize PROVE WireInv'
  <2>1. Seqs!Front(wire) \in Seq(T)
    <3>1. Seqs!Front(wire) = SubSeq(wire, 1, Len(wire) - 1)
      BY DEF Seqs!Front
    <3> HIDE DEF T
    <3> QED
      BY <1>1, <3>1
  <2>2. Append(wire, Uint(0)) \in Seq(T)
    BY <1>1, <1>5
  <2> QED
    BY <1>7, <2>1, <2>2, EditKeeps DEF Resize
<1>8. ASSUME UNCHANGED wireVars PROVE WireInv'
  <2>1. object' = object /\ wire' = wire /\ edits' = edits
    BY <1>8 DEF wireVars
  <2> QED
    BY <2>1 DEF WireInv
<1> QED
  BY <1>3, <1>4, <1>6, <1>7, <1>8 DEF WireNext

\* and so it always holds.
LEMMA WireInvHolds == WireSpec => []WireInv
<1> QED
  BY WireInvInit, WireStep, PTL DEF WireSpec

\* The wire is always a sequence of items, changed within the bound.
THEOREM WireTypes == WireSpec => []WireTypeOK
<1>1. WireInv => WireTypeOK
  <2> SUFFICES ASSUME WireInv PROVE WireTypeOK
    OBVIOUS
  <2>1. wire \in Seq(Items) /\ edits \in 0 .. MaxEdits
    BY DEF WireInv
  <2>2. \A i \in DOMAIN wire : wire[i] \in Items
    BY <2>1
  <2> QED
    BY <2>1, <2>2 DEF WireTypeOK, Items, Kinds
<1> QED
  BY <1>1, WireInvHolds, PTL

\* What is sent is taken, as what it was; and what is taken, of a tree or a
\* commit, is the one encoding of it, in whatever form it arrived.
THEOREM WiresAreCanonical == WireSpec => []OneWirePerObject
<1>1. WireInv => OneWirePerObject
  <2> SUFFICES ASSUME WireInv PROVE OneWirePerObject
    OBVIOUS
  <2>1. object \in Sendable /\ wire \in Seq(Items) /\ (edits = 0 => wire = Encode(object))
    BY DEF WireInv
  <2>2. edits = 0 =>
          /\ Imports(object.kind, wire)
          /\ object.kind = "commit" \/ Decode(object.kind, wire) = object.value
    BY <2>1, SentIsTaken
  <2>3. object.kind \in {"tree", "commit", "head"}
    BY <2>1 DEF Sendable
  <2>4. ASSUME object.kind = "tree", Imports("tree", wire)
        PROVE  /\ wire \in Seq(ShortItems)
               /\ \A i \in 5 .. Len(wire) - 2 : wire[i] = MapOf(3) => wire[i + 2] = Uint(0)
    <3>1. /\ wire \in Seq(ShortItems)
          /\ \A i \in 4 .. Len(wire) : wire[i] = MapOf(3) => wire[i + 2] = Uint(0)
      BY <2>1, <2>4, TreeCanonical
    <3>2. \A i \in 5 .. Len(wire) - 2 : i \in 4 .. Len(wire)
      BY <2>1
    <3> QED
      BY <3>1, <3>2
  <2>5. ASSUME object.kind = "commit", Imports("commit", wire)
        PROVE  wire \in Seq(ShortItems)
    BY <2>1, <2>5, CommitCanonical
  <2>6. wire \in Seq(ShortItems) => \A i \in DOMAIN wire : Shortest(wire[i])
    <3> HAVE wire \in Seq(ShortItems)
    <3>1. \A i \in DOMAIN wire : wire[i] \in ShortItems
      OBVIOUS
    <3> QED
      BY <3>1 DEF ShortItems
  <2>7. ASSUME object.kind # "head", Imports(object.kind, wire)
        PROVE  /\ \A i \in DOMAIN wire : Shortest(wire[i])
               /\ \A i \in 5 .. Len(wire) - 2 :
                    object.kind = "tree" /\ wire[i] = MapOf(3) => wire[i + 2] = Uint(0)
    <3>1. CASE object.kind = "tree"
      BY <2>4, <2>6, <2>7, <3>1
    <3>2. CASE object.kind = "commit"
      BY <2>5, <2>6, <2>7, <3>2
    <3> QED
      BY <2>3, <2>7, <3>1, <3>2
  <2> QED
    BY <2>2, <2>7 DEF OneWirePerObject
<1> QED
  BY <1>1, WireInvHolds, PTL
=============================================================================
