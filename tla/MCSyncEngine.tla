---------------------------- MODULE MCSyncEngine ----------------------------
(***************************************************************************)
(* A history with a merge, whose last commit is one too many for the cap:  *)
(* c1 <- c2, c3 merges c1 and c2, c4 follows c3.  Trees and chunks are     *)
(* shared between commits, and no peer holds everything.                   *)
(***************************************************************************)
EXTENDS SyncEngine

CONSTANTS c1, c2, c3, c4, t1, t2, k1, k2, p1, p2

MCParents == [c \in Commits |-> CASE c = c1 -> <<>> [] c = c2 -> <<c1>>
                                  [] c = c3 -> <<c1, c2>> [] c = c4 -> <<c3>>]
MCTreeOf == [c \in Commits |-> IF c \in {c1, c4} THEN t1 ELSE t2]
MCChunksIn == [t \in Trees |-> IF t = t1 THEN {k1} ELSE {k1, k2}]
MCHolds == [p \in Peers |-> IF p = p1 THEN Objects \ {k1} ELSE Objects \ {c1, t2}]
=============================================================================
