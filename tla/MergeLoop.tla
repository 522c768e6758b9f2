----------------------------- MODULE MergeLoop -----------------------------
(***************************************************************************)
(* The loop of Tree::merge_with_conflicts (module TreeMerge), one visited  *)
(* entry per step, so that what it does to entries visited earlier or      *)
(* later can be stated.  The label of a merge is "remote" unless the user  *)
(* names one, so folders that hold the conflict copies of an earlier merge *)
(* are merged under the same label again.                                  *)
(***************************************************************************)
EXTENDS TreeMerge, FiniteSets

CONSTANTS OurSides,       \* the trees a vault's HEAD may have
          TheirSides      \* the trees that get merged into it

ASSUME SidesAssumption == OurSides \subseteq Tree /\ TheirSides \subseteq Tree

VARIABLES ours, theirs,   \* the two trees as they came in
          merged,         \* self.entries
          next,           \* position in Order of the entry visited next
          conflicts       \* conflict copies written

vars == <<ours, theirs, merged, next, conflicts>>

\* Mutant of Init: the position starts one too low.
BugInit ==
  /\ ours \in OurSides /\ theirs \in TheirSides
  /\ merged = ours /\ next = 0 /\ conflicts = 0

Init ==
  /\ ours \in OurSides /\ theirs \in TheirSides
  /\ merged = ours /\ next = 1 /\ conflicts = 0

\* Mutant of Step: entries both sides have count, identical or not.
BugCountIdentical ==
  /\ next <= Len(Order)
  /\ LET p == Order[next] IN
       /\ merged' = Visit(merged, p, theirs[p])
       /\ conflicts' = conflicts +
            (IF NoFile \notin {merged[p], theirs[p]} THEN 1 ELSE 0)
  /\ next' = next + 1
  /\ UNCHANGED <<ours, theirs>>

Step ==
  /\ next <= Len(Order)
  /\ LET p == Order[next] IN
       /\ merged' = Visit(merged, p, theirs[p])
       /\ conflicts' = conflicts + (IF IsConflict(merged, p, theirs[p]) THEN 1 ELSE 0)
  /\ next' = next + 1
  /\ UNCHANGED <<ours, theirs>>

Done == next > Len(Order)

Spec == Init /\ [][Step]_vars

-----------------------------------------------------------------------------
TypeOK ==
  /\ ours \in OurSides /\ theirs \in TheirSides
  /\ merged \in Tree
  /\ next \in 1 .. Len(Order) + 1
  /\ conflicts \in Nat

\* The folders no merge has touched: no file that is merged has the name of a
\* conflict copy, and no two of them share one.
Apart ==
  /\ \A t \in OurSides \cup TheirSides, p \in Paths : t[ConflictPath[p]] = NoFile
  /\ \A s, t \in TheirSides, p, q \in Paths :
       /\ s[p] # NoFile /\ t[q] # NoFile
       /\ ConflictPath[p] = ConflictPath[q]
       => p = q

\* "Keep our entry at the original path" (tree.rs).
KeepsOurs == Done => \A p \in Paths : ours[p] # NoFile => merged[p] = ours[p]

\* "Divergent multi-head merges keep both sides via conflict copy paths"
\* (design guarantee 9 of the README), for their side.
KeepsTheirs ==
  Done => \A p \in Paths : theirs[p] # NoFile =>
            theirs[p] \in {merged[p], merged[ConflictPath[p]]}

\* merge_head saves the result without looking at the chunk store: it must
\* need no chunk that neither side needs.
NothingInvented == ChunksOf(merged) \subseteq ChunksOf(ours) \cup ChunksOf(theirs)

\* "Returns the number of conflict copies created" (tree.rs): each path the
\* two sides disagree on counts once.
CountsConflicts ==
  Done => conflicts = Cardinality({p \in Paths : IsConflict(ours, p, theirs[p])})

\* sync --merge runs merge_head again for a head it has merged before: that
\* must neither multiply the conflict copies nor swap the sides.
Remerging == Done => MergeWithConflicts(merged, theirs) = merged
=============================================================================
