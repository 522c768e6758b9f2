-------------------------------- MODULE Wire --------------------------------
(***************************************************************************)
(* Trees, commits and head announcements as they travel (src/src/codec.rs, *)
(* the import and export functions of vault.rs): encoded as CBOR items,    *)
(* changed by whoever stores or forwards them, decoded, and imported if    *)
(* they are the one encoding of what they decode to.                       *)
(*                                                                         *)
(* A wire is a sequence of items.  An item has a type, the size of its     *)
(* length field in bytes (0: in the first byte; 9: a reserved form), its   *)
(* number - for a string or an array its length, for a path its place in   *)
(* the order of paths - and for a string what it says.  The hash function  *)
(* is taken to have no collisions: importing under the hash of the wire    *)
(* compares the wire with its re-encoding.                                 *)
(***************************************************************************)
EXTENDS Naturals, Sequences, FiniteSets
Seqs == INSTANCE SequencesExt

CONSTANTS Said,          \* what strings say: hashes, names, messages
          PathNames,     \* paths, as numbers in the order of their names
          BadPaths,      \* those validate_path refuses
          Numbers,       \* sizes, timestamps, sequence numbers, versions
          NoText, Unsigned, Rejected,
          MaxEntries, MaxParents,  \* MAX_TREE_ENTRIES, MAX_COMMIT_PARENTS
          MaxEdits       \* bound on the changes to one wire

ASSUME WireAssumption ==
  /\ PathNames \subseteq Nat /\ BadPaths \subseteq PathNames
  /\ Numbers \subseteq Nat
  /\ MaxEntries \in Nat /\ MaxParents \in Nat /\ MaxEdits \in Nat
  /\ NoText \notin Said /\ Unsigned \notin Said

VARIABLES object,        \* what the sender has: [kind, value]
          wire,          \* its encoding, as it arrives
          edits          \* changes on the way

wireVars == <<object, wire, edits>>

-----------------------------------------------------------------------------
(* Items                                                                   *)

\* push_uint: the shortest form.
Width(v) ==
  IF v < 24 THEN 0 ELSE IF v < 256 THEN 1 ELSE IF v < 65536 THEN 2
  ELSE IF v \div 65536 < 65536 THEN 4 ELSE 8

Item(type, v, text) == [type |-> type, width |-> Width(v), number |-> v, text |-> text]
Uint(v) == Item("uint", v, NoText)
MapOf(n) == Item("map", n, NoText)
ArrayOf(n) == Item("array", n, NoText)
Bytes(n, text) == Item("bstr", n, text)
Name(text) == Item("tstr", 8, text)
PathItem(p) == Item("tstr", p, NoText)

\* Cursor::read_uint accepts every form that is not reserved.
ItemAt(w, i) ==
  IF i \in DOMAIN w THEN w[i] ELSE [type |-> "end", width |-> 9, number |-> 0, text |-> NoText]
Reads(w, i, type) == ItemAt(w, i).type = type /\ ItemAt(w, i).width # 9
ReadsUint(w, i, v) == Reads(w, i, "uint") /\ w[i].number = v
ReadsMap(w, i, n) == Reads(w, i, "map") /\ w[i].number = n
ReadsBytes(w, i, n) == Reads(w, i, "bstr") /\ w[i].number = n

\* An array of hashes at i.
ReadsHashes(w, i) ==
  Reads(w, i, "array") /\ \A j \in 1 .. ItemAt(w, i).number : ReadsBytes(w, i + j, 32)
HashesAt(w, i) == [j \in 1 .. w[i].number |-> w[i + j].text]
HashItems(s) == <<ArrayOf(Len(s))>> \o [j \in 1 .. Len(s) |-> Bytes(32, s[j])]

-----------------------------------------------------------------------------
(* Commits and head announcements: maps with the keys 1, 2, ... in order   *)

CommitFields == <<"bytes32", "hashes", "bytes32", "number", "text", "short", "bytes64">>
HeadFields == <<"number", "bytes16", "text", "bytes32", "number", "bytes32",
                "number", "number", "bytes64">>

Long(field) == CASE field = "bytes16" -> 16 [] field = "bytes32" -> 32 [] OTHER -> 64

FieldItems(field, v) ==
  CASE field \in {"number", "short"} -> <<Uint(v)>>
    [] field = "text" -> <<Name(v)>>
    [] field = "hashes" -> HashItems(v)
    [] OTHER -> <<Bytes(Long(field), v)>>

\* encode_commit_body, encode_head_announcement
EncodeFields(fields, value) ==
  <<MapOf(Len(fields))>>
    \o Seqs!FlattenSeq([k \in 1 .. Len(fields) |-> <<Uint(k)>> \o FieldItems(fields[k], value[k])])

\* Where the key of field k is.
KeyAt(fields, w) ==
  LET key[k \in 1 .. Len(fields) + 1] ==
        IF k = 1 THEN 2
        ELSE key[k - 1] + 2 + (IF fields[k - 1] = "hashes" THEN ItemAt(w, key[k - 1] + 1).number
                               ELSE 0)
  IN key

ReadsField(field, w, i) ==
  CASE field = "number" -> Reads(w, i, "uint")
    [] field = "short" -> Reads(w, i, "uint") /\ w[i].number < 65536
    [] field = "text" -> Reads(w, i, "tstr")
    [] field = "hashes" -> ReadsHashes(w, i) /\ w[i].number <= MaxParents
    [] OTHER -> ReadsBytes(w, i, Long(field))
FieldAt(field, w, i) ==
  IF field \in {"number", "short"} THEN w[i].number
  ELSE IF field = "hashes" THEN HashesAt(w, i) ELSE w[i].text

\* decode_commit_body, decode_head_announcement: as many keys as there are
\* fields, rising and known, are 1, 2, ...; and nothing follows.
DecodeFields(fields, w) ==
  LET n == Len(fields)
      key == KeyAt(fields, w)
  IN IF /\ ReadsMap(w, 1, n)
        /\ \A k \in 1 .. n : ReadsUint(w, key[k], k) /\ ReadsField(fields[k], w, key[k] + 1)
        /\ key[n + 1] = Len(w) + 1
     THEN [k \in 1 .. n |-> FieldAt(fields[k], w, key[k] + 1)]
     ELSE Rejected

-----------------------------------------------------------------------------
(* Trees: a path maps to [size, chunks], or to the hash of a directory     *)

File(size, chunks) == [dir |-> FALSE, size |-> size, chunks |-> chunks, hash |-> NoText]
Dir(hash) == [dir |-> TRUE, size |-> 0, chunks |-> <<>>, hash |-> hash]

EntryItems(e) ==
  IF e.dir THEN <<MapOf(2), Uint(1), Uint(1), Uint(2), Bytes(32, e.hash)>>
  ELSE <<MapOf(3), Uint(1), Uint(0), Uint(2), Uint(e.size), Uint(3)>> \o HashItems(e.chunks)

\* The paths of a BTreeMap, in order.
InOrder(S) ==
  CHOOSE s \in [1 .. Cardinality(S) -> S] :
    /\ \A i, j \in DOMAIN s : i < j => s[i] < s[j]
    /\ \A p \in S : \E i \in DOMAIN s : s[i] = p

\* encode_tree_body: the entries in the order of their paths.
EncodeTree(t) ==
  LET paths == InOrder(DOMAIN t)
  IN <<MapOf(1), Uint(1), MapOf(Len(paths))>>
       \o Seqs!FlattenSeq([i \in DOMAIN paths |-> <<PathItem(paths[i])>> \o EntryItems(t[paths[i]])])

\* The entry whose path is at i, and where the next one starts: 0 if
\* decode_tree_body refuses it.  The chunks of a directory are read and left
\* out.
EntryAt(w, i) ==
  LET keyed == /\ Reads(w, i, "tstr") /\ Reads(w, i + 1, "map")
               /\ ReadsUint(w, i + 2, 1) /\ ReadsUint(w, i + 4, 2)
      chunked == ReadsUint(w, i + 6, 3) /\ ReadsHashes(w, i + 7)
  IN CASE /\ keyed /\ ReadsMap(w, i + 1, 3) /\ ReadsUint(w, i + 3, 0)
          /\ Reads(w, i + 5, "uint") /\ chunked ->
            [entry |-> File(w[i + 5].number, HashesAt(w, i + 7)),
             next |-> i + 8 + w[i + 7].number]
       [] keyed /\ ReadsMap(w, i + 1, 2) /\ ReadsUint(w, i + 3, 1) /\ ReadsBytes(w, i + 5, 32) ->
            [entry |-> Dir(w[i + 5].text), next |-> i + 6]
       [] /\ keyed /\ ReadsMap(w, i + 1, 3) /\ ReadsUint(w, i + 3, 1)
          /\ ReadsBytes(w, i + 5, 32) /\ chunked ->
            [entry |-> Dir(w[i + 5].text), next |-> i + 8 + w[i + 7].number]
       [] OTHER -> [entry |-> Dir(NoText), next |-> 0]

\* Where the entries start and the last one ends, 0 behind one that is refused.
StartsAt(w, n) ==
  LET start[j \in 1 .. n + 1] ==
        IF j = 1 THEN 4
        ELSE IF start[j - 1] = 0 THEN 0 ELSE EntryAt(w, start[j - 1]).next
  IN start

\* decode_tree_body
DecodeTree(w) ==
  LET n == ItemAt(w, 3).number
      start == StartsAt(w, n)
      path(j) == w[start[j]].number
  IN IF ~(ReadsMap(w, 1, 1) /\ ReadsUint(w, 2, 1) /\ Reads(w, 3, "map") /\ n <= MaxEntries)
     THEN Rejected
     ELSE IF \/ start[n + 1] # Len(w) + 1
             \/ \E j \in 1 .. n : path(j) \in BadPaths
             \/ \E k \in 1 .. n - 1 : path(k + 1) <= path(k)
     THEN Rejected
     ELSE [p \in {path(j) : j \in 1 .. n} |->
             EntryAt(w, start[CHOOSE j \in 1 .. n : path(j) = p]).entry]

-----------------------------------------------------------------------------
(* Sending and importing                                                   *)

\* A commit of protocol version 0 goes out as version 1.
Sent(commit) == [commit EXCEPT ![6] = IF @ = 0 THEN 1 ELSE @]

Encode(o) ==
  CASE o.kind = "tree" -> EncodeTree(o.value)
    [] o.kind = "commit" -> EncodeFields(CommitFields, Sent(o.value))
    [] OTHER -> EncodeFields(HeadFields, o.value)

Decode(kind, w) ==
  CASE kind = "tree" -> DecodeTree(w)
    [] kind = "commit" -> DecodeFields(CommitFields, w)
    [] OTHER -> DecodeFields(HeadFields, w)

\* Mutant of Imports: what decodes is stored.
BugNoReencode(kind, w) == Decode(kind, w) # Rejected

\* import_tree_bytes, import_commit_bytes and the same tests of load_tree and
\* load_commit.  A head announcement is not stored: what decodes is taken.
Imports(kind, w) ==
  LET value == Decode(kind, w)
  IN /\ value # Rejected
     /\ kind = "head" \/ Encode([kind |-> kind, value |-> value]) = w

SomeTrees == UNION {[ps -> {File(s, c) : s \in {0, 24}, c \in {<<>>} \cup {<<h>> : h \in Said}}
                             \cup {Dir(h) : h \in Said}] :
                      ps \in {q \in SUBSET (PathNames \ BadPaths) :
                               IsFiniteSet(q) /\ Cardinality(q) <= MaxEntries}}
SomeCommits ==
  {<<h, ps, h, t, h, v, s>> :
     h \in Said, ps \in {q \in {<<>>} \cup {<<g>> : g \in Said} : Len(q) <= MaxParents}, t \in Numbers,
     v \in {x \in Numbers : x < 65536}, s \in {Unsigned}}
SomeHeads ==
  {<<1, h, h, h, t, h, n, 0, Unsigned>> : h \in Said, t \in Numbers, n \in Numbers}

\* An error is not a value.
ASSUME RejectedAssumption ==
  /\ \A t \in SomeTrees : t # Rejected
  /\ \A c \in SomeCommits : Sent(c) # Rejected
  /\ \A h \in SomeHeads : h # Rejected

WireInit ==
  /\ object \in [kind : {"tree"}, value : SomeTrees] \cup [kind : {"commit"}, value : SomeCommits]
                  \cup [kind : {"head"}, value : SomeHeads]
  /\ wire = Encode(object) /\ edits = 0

Edit(w) == edits < MaxEdits /\ wire' = w /\ edits' = edits + 1 /\ UNCHANGED object

\* An item gets a longer or a reserved form.
Widen(i) ==
  \E width \in {1, 2, 4, 8, 9} :
    width > wire[i].width /\ Edit([wire EXCEPT ![i].width = width])

\* A number, a length or a path becomes another.
Renumber(i) ==
  \E v \in Numbers \cup PathNames \cup {2, 3} :
    v # wire[i].number /\ Edit([wire EXCEPT ![i] = Item(@.type, v, @.text)])

\* The end is cut off, or something follows.
Resize == Edit(Seqs!Front(wire)) \/ Edit(Append(wire, Uint(0)))

\* A directory gets chunks: a third key.
AddChunks(i) ==
  /\ i + 4 <= Len(wire) /\ wire[i] = MapOf(2) /\ wire[i + 4].type = "bstr"
  /\ Edit(SubSeq(wire, 1, i - 1) \o <<MapOf(3)>> \o SubSeq(wire, i + 1, i + 4)
            \o <<Uint(3), ArrayOf(0)>> \o SubSeq(wire, i + 5, Len(wire)))

WireNext ==
  \/ \E i \in DOMAIN wire : Widen(i) \/ Renumber(i) \/ AddChunks(i)
  \/ Resize

WireSpec == WireInit /\ [][WireNext]_wireVars

-----------------------------------------------------------------------------
WireTypeOK ==
  /\ edits \in 0 .. MaxEdits
  /\ \A i \in DOMAIN wire :
       /\ wire[i].type \in {"uint", "map", "array", "bstr", "tstr"}
       /\ wire[i].width \in {0, 1, 2, 4, 8, 9} /\ wire[i].number \in Nat

\* The form in which a number is the shortest there is, and the next shorter
\* one does not hold it.
Shortest(item) ==
  \/ item.width = 0 /\ item.number < 24
  \/ item.width = 1 /\ item.number >= 24 /\ item.number < 256
  \/ item.width = 2 /\ item.number >= 256 /\ item.number < 65536
  \/ item.width \in {4, 8} /\ item.number > 65535

\* What is sent is taken, as what it was; and a tree or commit that is taken
\* has the one encoding of it: every number in its shortest form, and nothing
\* in it that the decoder leaves out.  So no two names stand for one object, and
\* what was imported can be loaded.
OneWirePerObject ==
  /\ edits = 0 =>
       /\ Imports(object.kind, wire)
       /\ object.kind = "commit" \/ Decode(object.kind, wire) = object.value
  /\ object.kind # "head" /\ Imports(object.kind, wire) =>
       /\ \A i \in DOMAIN wire : Shortest(wire[i])
       /\ \A i \in 5 .. Len(wire) - 2 :
            object.kind = "tree" /\ wire[i] = MapOf(3) => wire[i + 2] = Uint(0)
=============================================================================
