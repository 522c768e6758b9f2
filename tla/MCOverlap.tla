----------------------------- MODULE MCOverlap -----------------------------
(***************************************************************************)
(* The mixes that are checked.  Without gc: adds and snapshots, or adds    *)
(* and what `soal sync` does with peers, and kills between file writes.    *)
(* With gc: adds, merges, adopted heads and imports from peers next to it, *)
(* no kills.                                                               *)
(***************************************************************************)
EXTENDS MCVault, Overlap

WithoutGc == [commands |-> {"add", "snapshot"}, inputs |-> MCInputsB,
              peers |-> FALSE, kills |-> TRUE, commits |-> 3]
Exchanging == [commands |-> {"add", "merge", "sync"}, inputs |-> MCOneInput,
               peers |-> TRUE, kills |-> TRUE, commits |-> 3]
WithGc == [commands |-> {"add", "mergeany", "sync", "gc"}, inputs |-> MCOneInput,
           peers |-> TRUE, kills |-> FALSE, commits |-> 2]

MCMixes == {WithoutGc, Exchanging, WithGc}
=============================================================================
