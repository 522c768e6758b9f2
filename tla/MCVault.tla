------------------------------ MODULE MCVault ------------------------------
(***************************************************************************)
(* One vault, two files a and b.  Adds overwrite a with other content or   *)
(* put b; peers commit their own a, so that a merge makes the conflict     *)
(* copy ac.  Peers never commit b or ac: the copies of those are not       *)
(* needed and stand for themselves in MCConflictPath.                      *)
(***************************************************************************)
EXTENDS Vault, TLC

CONSTANTS a, ac, b, k1, k2, p1, p2

MCPaths == {a, ac, b}
MCConflictPath == [p \in MCPaths |-> IF p = a THEN ac ELSE p]

File(path, k) == [EmptyTree EXCEPT ![path] = k]

\* One file, or two: adding the one after the two leaves the chunk k2 live
\* through history only, and keeps b.
MCInputs == {File(a, k1), [File(a, k2) EXCEPT ![b] = k1]}
MCOneInput == {File(a, k1)}
\* Also an add of b alone, next to an add of a alone.
MCInputsB == MCInputs \cup {File(b, k2)}
MCPeerTrees == {File(a, k2)}

Merger == INSTANCE TreeMerge WITH Order <- <<ac, a, b>>,
                                  ConflictPath <- MCConflictPath
MCMergeTrees(ours, theirs) == Merger!MergeWithConflicts(ours, theirs)

Symmetry == Permutations(Procs)
=============================================================================
