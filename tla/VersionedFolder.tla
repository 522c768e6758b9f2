-------------------------- MODULE VersionedFolder --------------------------
(***************************************************************************)
(* What a vault promises its user, with no files, commits or processes: a  *)
(* folder, and the versions of it that exist here or at peers.  Putting    *)
(* files keeps every file that is not among those put (design guarantee 3  *)
(* of the README); another version can be merged in, or taken in place of  *)
(* the folder.  Labelling, garbage collection and crashes change nothing.  *)
(***************************************************************************)
EXTENDS Trees

CONSTANTS Inputs, PeerTrees, MergeTrees(_, _)

VARIABLES folder, versions

Init == folder = EmptyTree /\ versions = {EmptyTree}

\* The folder becomes t, which is a version from then on.
Become(t) == folder' = t /\ versions' = versions \cup {t}

Put(fs) == Become(Overlay(folder, fs))

MergeIn(t) == t \in versions /\ Become(MergeTrees(folder, t))

Adopt(t) == t \in versions /\ Become(t)

\* A peer makes a version.
Offer(t) == versions' = versions \cup {t} /\ UNCHANGED folder

Next == \/ \E fs \in Inputs : Put(fs)
        \/ \E t \in versions : MergeIn(t) \/ Adopt(t)
        \/ \E t \in PeerTrees : Offer(t)

Spec == Init /\ [][Next]_<<folder, versions>>
=============================================================================
