------------------------------ MODULE HeadFeed ------------------------------
(***************************************************************************)
(* What announcing heads promises, with no files and no processes: each    *)
(* node numbers its announcements for a vault upwards; only announcements  *)
(* are heard, and those of one node for an ordered vault are heard in that *)
(* order, each at most once.  Gaps are fine: an announcement may never     *)
(* arrive.                                                                 *)
(***************************************************************************)
EXTENDS Naturals, Sequences

CONSTANT Ordered   \* vaults whose announcements are heard in order

VARIABLES said,    \* announcements made
          heard    \* announcements accepted, oldest first

\* Announcements for one vault by one node are ordered.
SameFeed(a, b) == a.vault = b.vault /\ a.key = b.key
Newer(a, S) == \A b \in S : SameFeed(a, b) => a.seq > b.seq

Init == said = {} /\ heard = <<>>

\* The announcement is newer than all the node has made.
Say == /\ \E a \in said' : said' = said \cup {a} /\ Newer(a, said)
       /\ UNCHANGED heard

\* For an ordered vault, it is newer than all that was heard from the node.
Hear == /\ \E a \in said :
             /\ a.vault \in Ordered => Newer(a, {heard[i] : i \in DOMAIN heard})
             /\ heard' = Append(heard, a)
        /\ UNCHANGED said

Spec == Init /\ [][Say \/ Hear]_<<said, heard>>
=============================================================================
