---------------------------- MODULE HeadAnnounce ----------------------------
(***************************************************************************)
(* Announcing heads to other nodes (src/src/network.rs).  One soal home    *)
(* announces: node.json has its key, its peers and the number of its last  *)
(* announcement for each vault.  Another home listens: a file per vault    *)
(* and announcing node has the number accepted last.  Gossip loses,        *)
(* repeats and reorders.                                                   *)
(*                                                                         *)
(* All these files are saved through one temporary file each and a rename. *)
(* The name of the temporary file is fixed, so that processes which        *)
(* overlap open the same one: what a process writes may land in a file     *)
(* another process has renamed meanwhile.                                  *)
(*                                                                         *)
(* Signature, clock skew, vault id and membership are left out: they are   *)
(* checked before the number is, and reject without a trace.               *)
(***************************************************************************)
EXTENDS Naturals, Sequences, Functions

CONSTANTS Base,                \* numbers are saved as text to this base: 10
          Senders,             \* processes or tasks of the announcing home
          Listeners,           \* processes or tasks of the listening home
          VaultOf,             \* the vault a process listens for
          Vaults, Heads, Peers,
          MaxSaid,             \* bound on the numbers given out
          MaxKeys,             \* bound on the keys generated
          MaxHeard,            \* bound on the announcements accepted
          NodeFile,            \* names node.json
          None, Torn, Mixed    \* no file; truncated; overwritten in part

Procs == Senders \cup Listeners
Keys  == 1 .. MaxKeys
Files == {NodeFile} \cup (Vaults \X Keys)

NodeState    == [key : Keys, peers : SUBSET Peers, seq : [Vaults -> Nat]]
Announcement == [vault : Vaults, key : Keys, seq : Nat \ {0}, head : Heads]

ASSUME HeadAnnounceAssumption ==
  /\ Senders \cap Listeners = {}
  /\ VaultOf \in [Listeners -> Vaults]
  /\ Base \in Nat \ {0, 1}
  /\ MaxSaid \in Nat /\ MaxKeys \in Nat /\ MaxHeard \in Nat
  /\ NodeFile \notin Vaults \X Keys
  /\ {None, Torn, Mixed} \cap (Nat \cup NodeState \cup Announcement) = {}

VARIABLES
  file, tmp,   \* contents of each file and of its temporary file
  keys,        \* keys generated so far
  pc, cmd,     \* per process: next step; what a sender does
  self,        \* Network: the key and the peers that were read at open
  name, rec,   \* file being saved, and its new contents
  at,          \* where the file that the process writes now is
  ann,         \* announcement being made or validated
  said, heard  \* announcements broadcast; accepted, oldest first

files  == <<file, tmp>>
locals == <<cmd, self, name, rec, ann>>
vars   == <<files, keys, pc, locals, at, said, heard>>

\* load_or_create finds a node.json it can parse.
HasNode == file[NodeFile] \notin {None, Torn, Mixed}
Node == file[NodeFile]

\* load_last_recv_seq: no number is 0.
LastRecv(v, k) == IF file[<<v, k>>] \in Nat THEN file[<<v, k>>] ELSE 0

-----------------------------------------------------------------------------
Init ==
  /\ file = [f \in Files |-> None]
  /\ tmp = [f \in Files |-> None]
  /\ keys = 0
  /\ pc = [p \in Procs |-> "idle"]
  /\ cmd = [p \in Procs |-> None]
  /\ self = [p \in Procs |-> None]
  /\ name = [p \in Procs |-> None]
  /\ rec = [p \in Procs |-> None]
  /\ at = [p \in Procs |-> "nowhere"]
  /\ ann = [p \in Procs |-> None]
  /\ said = {} /\ heard = <<>>

Goto(p, l) == pc' = [pc EXCEPT ![p] = l]

\* The process ends, with or without an error, or is killed.
Stop(p) ==
  /\ Goto(p, "idle")
  /\ cmd' = [cmd EXCEPT ![p] = None]
  /\ self' = [self EXCEPT ![p] = None]
  /\ name' = [name EXCEPT ![p] = None]
  /\ rec' = [rec EXCEPT ![p] = None]
  /\ at' = [at EXCEPT ![p] = "nowhere"]
  /\ ann' = [ann EXCEPT ![p] = None]

-----------------------------------------------------------------------------
(* NodeState::save and store_last_recv_seq                                 *)

\* Mutant of OpenTmp: the file is written in place.
BugInPlace(p) ==
  /\ pc[p] = "opentmp"
  /\ file' = [file EXCEPT ![name[p]] = Torn]
  /\ at' = [at EXCEPT ![p] = "file"]
  /\ Goto(p, "writetmp")
  /\ UNCHANGED <<tmp, keys, locals, said, heard>>

\* fs::write opens the temporary file, truncating it ...
OpenTmp(p) ==
  /\ pc[p] = "opentmp"
  /\ tmp' = [tmp EXCEPT ![name[p]] = Torn]
  /\ at' = [at EXCEPT ![p] = "tmp"]
  /\ Goto(p, "writetmp")
  /\ UNCHANGED <<file, keys, locals, said, heard>>

\* The text of a number.
Digits[n \in Nat] ==
  IF n < Base THEN <<n>> ELSE Append(Digits[n \div Base], n % Base)

\* What of a text is left behind another one written over its beginning.
Rest(old, new) == SubSeq(old, Len(new) + 1, Len(old))

\* ... and writes from its beginning.  What somebody else has written since
\* sticks out behind if it is longer: a node.json with a tail does not parse,
\* the digits of two numbers read as another number (which has as many digits
\* as the longer one, hence the bound).
Written(f, old, new) ==
  IF old \in {Torn, new} THEN {new}
  ELSE IF f = NodeFile THEN {new, Mixed}
  ELSE {n \in 0 .. Base * (old + new) :
          Digits[n] = Digits[new] \o Rest(Digits[old], Digits[new])}

WriteTmp(p) ==
  /\ pc[p] = "writetmp"
  /\ \/ /\ at[p] = "tmp"
        /\ \E c \in Written(name[p], tmp[name[p]], rec[p]) : tmp' = [tmp EXCEPT ![name[p]] = c]
        /\ UNCHANGED file
     \/ /\ at[p] = "file"
        /\ \E c \in Written(name[p], file[name[p]], rec[p]) : file' = [file EXCEPT ![name[p]] = c]
        /\ UNCHANGED tmp
     \/ at[p] = "gone" /\ UNCHANGED files
  /\ at' = [at EXCEPT ![p] = "nowhere"]
  /\ Goto(p, "rename")
  /\ UNCHANGED <<keys, locals, said, heard>>

\* The temporary file replaces the file, under the hands of those that have
\* either of them open.
Moved(f, q) ==
  IF name[q] # f THEN at[q]
  ELSE CASE at[q] = "tmp" -> "file" [] at[q] = "file" -> "gone" [] OTHER -> at[q]

Rename(p) ==
  /\ pc[p] = "rename"
  /\ \/ /\ tmp[name[p]] # None
        /\ file' = [file EXCEPT ![name[p]] = tmp[name[p]]]
        /\ tmp' = [tmp EXCEPT ![name[p]] = None]
        /\ at' = [q \in Procs |-> Moved(name[p], q)]
        /\ Goto(p, "saved")
        /\ UNCHANGED locals
     \/ tmp[name[p]] = None /\ Stop(p) /\ UNCHANGED files
  /\ UNCHANGED <<keys, said, heard>>

Save(p, f, c) ==
  /\ name' = [name EXCEPT ![p] = f]
  /\ rec' = [rec EXCEPT ![p] = c]
  /\ Goto(p, "opentmp")

-----------------------------------------------------------------------------
(* The announcing home                                                     *)

\* Network::open, with load_or_create.  A node.json that does not parse is
\* an error.
Open(p, command) ==
  /\ p \in Senders /\ pc[p] = "idle"
  /\ cmd' = [cmd EXCEPT ![p] = command]
  /\ \/ /\ HasNode
        /\ self' = [self EXCEPT ![p] = [key |-> Node.key, peers |-> Node.peers]]
        /\ Goto(p, "open")
        /\ UNCHANGED <<keys, name, rec>>
     \/ /\ Node = None /\ keys < MaxKeys
        /\ keys' = keys + 1
        /\ self' = [self EXCEPT ![p] = [key |-> keys', peers |-> {}]]
        /\ Save(p, NodeFile, [key |-> keys', peers |-> {}, seq |-> [v \in Vaults |-> 0]])
  /\ UNCHANGED <<files, at, ann, said, heard>>

\* A node.json that was made is there.
Opened(p) ==
  /\ pc[p] = "saved" /\ cmd[p] \in {"announce", "peers"} /\ ann[p] = None
  /\ Goto(p, "open")
  /\ UNCHANGED <<files, keys, locals, at, said, heard>>

\* Room for another announcement (bound MaxSaid).
Room == FoldFunction(+, 0, Node.seq) < MaxSaid

\* Mutant of NextAnnounceSeq: the number is taken before it is raised.
BugNumberBefore(p, v, h) ==
  /\ pc[p] = "open" /\ cmd[p] = "announce"
  /\ HasNode /\ Room
  /\ ann' = [ann EXCEPT ![p] = [vault |-> v, key |-> self[p].key,
                                seq |-> Node.seq[v], head |-> h]]
  /\ Save(p, NodeFile, [Node EXCEPT !.seq[v] = @ + 1])
  /\ UNCHANGED <<files, keys, cmd, self, at, said, heard>>

\* next_announce_seq of announce_head_signed: node.json is read again.
NextAnnounceSeq(p, v, h) ==
  /\ pc[p] = "open" /\ cmd[p] = "announce"
  /\ HasNode /\ Room
  /\ ann' = [ann EXCEPT ![p] = [vault |-> v, key |-> self[p].key,
                                seq |-> Node.seq[v] + 1, head |-> h]]
  /\ Save(p, NodeFile, [Node EXCEPT !.seq[v] = @ + 1])
  /\ UNCHANGED <<files, keys, cmd, self, at, said, heard>>

\* The announcement goes out; that nobody gets it is possible.
Broadcast(p) ==
  /\ pc[p] = "saved" /\ p \in Senders /\ ann[p] # None
  /\ said' = said \cup {ann[p]}
  /\ Stop(p)
  /\ UNCHANGED <<files, keys, heard>>

\* Mutant of PersistPeers: the state is made anew from what was opened.
BugPersistOpened(p, q) ==
  /\ pc[p] = "open" /\ cmd[p] = "peers"
  /\ HasNode
  /\ cmd' = [cmd EXCEPT ![p] = "persist"]
  /\ Save(p, NodeFile, [key |-> self[p].key, peers |-> self[p].peers \cup {q},
                        seq |-> [v \in Vaults |-> 0]])
  /\ UNCHANGED <<files, keys, self, at, ann, said, heard>>

\* add_peer or remove_peer, with persist_peers: node.json is read again, and
\* gets the peers that are in memory.
PersistPeers(p, q) ==
  /\ pc[p] = "open" /\ cmd[p] = "peers"
  /\ HasNode
  /\ cmd' = [cmd EXCEPT ![p] = "persist"]
  /\ \/ Save(p, NodeFile, [Node EXCEPT !.peers = self[p].peers \cup {q}])
     \/ /\ q \in self[p].peers
        /\ Save(p, NodeFile, [Node EXCEPT !.peers = self[p].peers \ {q}])
  /\ UNCHANGED <<files, keys, self, at, ann, said, heard>>

\* The command is done, or fails before it saves anything: node.json does not
\* parse, the blobs cannot be provided, the peer is no peer id.
EndSend(p) ==
  /\ \/ pc[p] = "saved" /\ cmd[p] = "persist"
     \/ pc[p] = "open"
  /\ Stop(p)
  /\ UNCHANGED <<files, keys, said, heard>>

-----------------------------------------------------------------------------
(* The listening home                                                      *)

\* Mutant of Validate: the last number is good once more.
BugAcceptLast(p, a) ==
  /\ p \in Listeners /\ pc[p] = "idle" /\ a.vault = VaultOf[p]
  /\ a.seq >= LastRecv(a.vault, a.key) /\ Len(heard) < MaxHeard
  /\ ann' = [ann EXCEPT ![p] = a]
  /\ Save(p, <<a.vault, a.key>>, a.seq)
  /\ UNCHANGED <<files, keys, cmd, self, at, said, heard>>

\* listen_for_heads_vault gets any announcement ever broadcast, in any order
\* and any number of times, and validate_announcement stores its number.
Validate(p, a) ==
  /\ p \in Listeners /\ pc[p] = "idle" /\ a.vault = VaultOf[p]
  /\ a.seq > LastRecv(a.vault, a.key) /\ Len(heard) < MaxHeard
  /\ ann' = [ann EXCEPT ![p] = a]
  /\ Save(p, <<a.vault, a.key>>, a.seq)
  /\ UNCHANGED <<files, keys, cmd, self, at, said, heard>>

\* The announcement is added to those received, whose heads get fetched when
\* the window of two seconds closes.
Accept(p) ==
  /\ pc[p] = "saved" /\ p \in Listeners
  /\ heard' = Append(heard, ann[p])
  /\ Stop(p)
  /\ UNCHANGED <<files, keys, said>>

-----------------------------------------------------------------------------
\* A process is killed anywhere, the writing of the temporary file included.
Crash(p) ==
  /\ pc[p] # "idle"
  /\ Stop(p)
  /\ UNCHANGED <<files, keys, said, heard>>

SendSteps(p) ==
  \/ \E command \in {"announce", "peers"} : Open(p, command)
  \/ Opened(p)
  \/ \E v \in Vaults, h \in Heads : NextAnnounceSeq(p, v, h)
  \/ Broadcast(p)
  \/ \E q \in Peers : PersistPeers(p, q)
  \/ EndSend(p)

ListenSteps(p) ==
  \/ \E a \in said : Validate(p, a)
  \/ Accept(p)

Next == \E p \in Procs :
  \/ SendSteps(p) \/ ListenSteps(p)
  \/ OpenTmp(p) \/ WriteTmp(p) \/ Rename(p)
  \/ Crash(p)

Spec == Init /\ [][Next]_vars

-----------------------------------------------------------------------------
(* Properties                                                              *)

PCs == {"idle", "open", "opentmp", "writetmp", "rename", "saved"}

\* What a file holds.
Contents(f) == IF f = NodeFile THEN NodeState ELSE Nat

TypeOK ==
  /\ DOMAIN file = Files /\ DOMAIN tmp = Files
  /\ \A f \in Files : {file[f], tmp[f]} \subseteq Contents(f) \cup {None, Torn, Mixed}
  /\ keys \in 0 .. MaxKeys
  /\ pc \in [Procs -> PCs]
  /\ cmd \in [Procs -> {"announce", "peers", "persist", None}]
  /\ self \in [Procs -> [key : Keys, peers : SUBSET Peers] \cup {None}]
  /\ name \in [Procs -> Files \cup {None}]
  /\ DOMAIN rec = Procs
  /\ \A p \in Procs : rec[p] \in Contents(name[p]) \cup {None}
  /\ at \in [Procs -> {"nowhere", "tmp", "file", "gone"}]
  /\ ann \in [Procs -> Announcement \cup {None}]
  /\ said \subseteq Announcement /\ heard \in Seq(Announcement)

\* The vaults that one process at most listens for at a time.
Orderly == {v \in Vaults : \A p, q \in Listeners : VaultOf[p] = v /\ VaultOf[q] = v => p = q}

\* "Per-node monotonic sequence (INV-REPLAY-01)" (codec.rs): whatever is lost,
\* repeated, reordered or killed, a node numbers its announcements upwards,
\* and a process that listens for a vault alone takes each at most once and
\* never an older one later.
Feed == INSTANCE HeadFeed WITH Ordered <- Orderly
ImplementsFeed == Feed!Spec

\* What of that every listener needs: two announcements of a node for a vault
\* never have one number, or the second is taken for a replay of the first.
NumbersUnique ==
  \A a, b \in said : a.vault = b.vault /\ a.key = b.key /\ a.seq = b.seq => a = b

\* For a vault that one process at most listens for, the next announcement
\* gets past the replay check: the number on the announcing node's disk is
\* never behind the one stored, so that announcing again helps a listener that
\* has lost an announcement, or was killed between storing and fetching it.
NextIsFresh ==
  HasNode => \A v \in Orderly : LastRecv(v, Node.key) <= Node.seq[v]

\* "Persist last **received** announce seq for (vault_id, node_id)"
\* (store_last_recv_seq): the number stored for a node and a vault is one that
\* the node has given an announcement for it.
StoredWasSaid ==
  \A v \in Vaults, k \in Keys : LastRecv(v, k) # 0 =>
    \E a \in said : a.vault = v /\ a.key = k /\ a.seq = LastRecv(v, k)

\* "Open (or create) a network endpoint with persistent identity"
\* (Network::open): once node.json has a key it is readable, with that key,
\* for good.
KeyStays == [][HasNode => HasNode' /\ Node'.key = Node.key]_vars
=============================================================================
