----------------------------- MODULE TreeMerge -----------------------------
(***************************************************************************)
(* Tree::merge_with_conflicts (src/src/tree.rs): their entries are visited *)
(* in the order of the BTreeMap and inserted into ours.  A path is a       *)
(* constant; the order of the paths and the conflict-copy name of each are *)
(* constants too, because both depend on the file name: the copy           *)
(* "a (conflict from L).txt" sorts before "a.txt", while the copy          *)
(* "a (conflict from L)" sorts after "a".                                  *)
(***************************************************************************)
EXTENDS Trees, Naturals, Sequences

CONSTANTS Order,          \* the paths in BTreeMap order
          ConflictPath    \* conflict_path_name, for one label

ASSUME TreeMergeAssumption ==
  /\ Order \in Seq(Paths)
  /\ \A p \in Paths : \E i \in DOMAIN Order : Order[i] = p
  /\ \A i, j \in DOMAIN Order : Order[i] = Order[j] => i = j
  /\ ConflictPath \in [Paths -> Paths]

\* Our entry is another file than theirs.
IsConflict(m, p, entry) == entry # NoFile /\ m[p] \notin {NoFile, entry}

\* Mutants of Visit.  The other side wins (Tree::merge, the function above
\* merge_with_conflicts in tree.rs).
BugTheirsWin(m, p, entry) ==
  IF entry = NoFile THEN m ELSE [m EXCEPT ![p] = entry]

\* Our side wins and theirs gets no copy.
BugNoCopy(m, p, entry) ==
  IF entry = NoFile \/ IsConflict(m, p, entry) THEN m ELSE [m EXCEPT ![p] = entry]

\* The disputed entry moves to its conflict path, and ours goes away.
BugMoveAway(m, p, entry) ==
  CASE entry = NoFile          -> m
    [] IsConflict(m, p, entry) -> [m EXCEPT ![ConflictPath[p]] = entry, ![p] = NoFile]
    [] OTHER                   -> [m EXCEPT ![p] = entry]

\* One visit: insert if absent, keep if identical, else write the conflict
\* copy, over whatever entry has its name.
Visit(m, p, entry) ==
  CASE entry = NoFile          -> m
    [] IsConflict(m, p, entry) -> [m EXCEPT ![ConflictPath[p]] = entry]
    [] OTHER                   -> [m EXCEPT ![p] = entry]

\* The whole loop as a function of the two trees.
MergeWithConflicts(ours, theirs) ==
  LET merged[n \in 0 .. Len(Order)] ==
        IF n = 0 THEN ours ELSE Visit(merged[n - 1], Order[n], theirs[Order[n]])
  IN  merged[Len(Order)]
=============================================================================
