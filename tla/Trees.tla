------------------------------- MODULE Trees -------------------------------
(***************************************************************************)
(* Vault trees (src/src/tree.rs) as total functions: a path that a tree    *)
(* does not hold maps to NoFile.  Trees are content-addressed, so a tree   *)
(* is its own CID.  A file's data is abstracted to one chunk: chunking     *)
(* and encryption are deterministic, so a file's chunk list is a function  *)
(* of its bytes, and every property here only asks which chunks a tree     *)
(* needs.                                                                  *)
(***************************************************************************)

CONSTANTS Paths,    \* logical vault paths
          Chunks,   \* storage CIDs of file contents
          NoFile    \* "this tree has no entry at the path"

ASSUME NoFileAssumption == NoFile \notin Chunks

Tree == [Paths -> Chunks \cup {NoFile}]

\* Tree::new
EmptyTree == [p \in Paths |-> NoFile]

\* Tree::all_chunk_hashes: the chunks a tree refers to.
ChunksOf(t) == {t[p] : p \in Paths} \ {NoFile}

\* The loop of try_add_file calls in Vault::add_path: every path of fs is
\* inserted, replacing an entry of the same name; other entries stay.
Overlay(t, fs) == [p \in Paths |-> IF fs[p] = NoFile THEN t[p] ELSE fs[p]]
=============================================================================
