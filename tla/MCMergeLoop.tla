---------------------------- MODULE MCMergeLoop ----------------------------
(***************************************************************************)
(* Two files, a and b.  The conflict copy ac of a sorts before a (a name   *)
(* with an extension), the copy bc of b after b (one without).  Their side *)
(* holds no copies, so the conflict names of ac and bc are never asked     *)
(* for.                                                                    *)
(***************************************************************************)
EXTENDS MergeLoop

CONSTANTS a, b, ac, bc, k1, k2, k3

MCPaths == {a, b, ac, bc}
MCOrder == <<ac, a, b, bc>>
MCConflictPath ==
  [p \in MCPaths |-> CASE p = a -> ac [] p = b -> bc [] OTHER -> p]

\* Folders no merge has touched.
Fresh == {t \in Tree : t[ac] = NoFile /\ t[bc] = NoFile}
=============================================================================
