--------------------------- MODULE MCHeadAnnounce ---------------------------
(***************************************************************************)
(* One process listens for the vault v1, two listen for v2 and overlap.    *)
(***************************************************************************)
EXTENDS HeadAnnounce, TLC

CONSTANTS s1, s2, r1, r2, r3, v1, v2, h1, h2, q1

MCVaultOf == [p \in Listeners |-> IF p = r1 THEN v1 ELSE v2]
Symmetry == Permutations({r2, r3}) \cup Permutations(Heads)
=============================================================================
