------------------------------ MODULE Overlap ------------------------------
(***************************************************************************)
(* Commands that overlap, in mixes with bounds of their own: which         *)
(* commands are run with which inputs, whether peers make and serve        *)
(* commits meanwhile, and whether commands are killed.  A behaviour keeps  *)
(* to one mix.                                                             *)
(***************************************************************************)
EXTENDS Vault

CONSTANT Mixes    \* [commands, inputs, peers, kills, commits]

ASSUME MixesAssumption ==
  \A m \in Mixes : m.commands \subseteq Commands /\ m.inputs \subseteq Inputs

VARIABLE mix

OverlapInit == Init /\ mix \in Mixes

\* Room within the mix's bound on commits.
RoomInMix ==
  Len(dag) + Cardinality({q \in Procs : pc[q] # "idle"}) < mix.commits

\* What a process starts is of the mix.
Within(p) ==
  /\ cmd'[p] \in mix.commands \cup {"none"}
  /\ files'[p] \in mix.inputs \cup {EmptyTree}
  /\ cmd[p] = "none" /\ cmd'[p] \in {"add", "snapshot", "merge", "mergeany"} => RoomInMix

OverlapNext ==
  /\ \/ \E p \in Procs : AddSteps(p) \/ HeadSteps(p) \/ GcSteps(p)
     \/ mix.kills /\ \E p \in Procs : Crash(p)
     \/ mix.peers /\ PeerSteps /\ (dag' # dag => RoomInMix)
  /\ \A p \in Procs : Within(p)
  /\ UNCHANGED mix

OverlapSpec == OverlapInit /\ [][OverlapNext]_<<vars, mix>>

\* Nothing is deleted, and merges fetch first.
NoGc == mix.commands \cap {"gc", "mergeany"} = {}

\* However commands other than gc overlap, they never leave a root that cannot
\* be restored, whatever is killed between two file writes (RootsRestorable of
\* Vault).
RootsWithoutGc == NoGc => RootsRestorable

\* Nor do they damage a commit that one of them has published (AckedOnDisk of
\* Vault): they can only hide it.
AckedWithoutGc == NoGc => AckedOnDisk
=============================================================================
