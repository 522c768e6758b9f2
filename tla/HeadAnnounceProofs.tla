------------------------- MODULE HeadAnnounceProofs -------------------------
(***************************************************************************)
(* The types of announcing, and what it keeps when the commands of the     *)
(* announcing home run one after the other, however they are killed and    *)
(* however many processes listen and overlap: node.json is never damaged,  *)
(* no number is given out twice, the next number is always one that a lone *)
(* listener takes, and it takes them in order.                             *)
(***************************************************************************)
EXTENDS HeadAnnounce, TLAPS

\* The announcing home has one slot, which one command after the other takes.
OneSender == \A p, q \in Senders : p = q

Saving == {"opentmp", "writetmp", "rename"}
Self == [key : Keys, peers : SUBSET Peers]

-----------------------------------------------------------------------------
(* Types                                                                   *)

FilesOK ==
  /\ DOMAIN file = Files /\ DOMAIN tmp = Files
  /\ \A f \in Files : {file[f], tmp[f]} \subseteq Contents(f) \cup {None, Torn, Mixed}
LocalsOK ==
  /\ pc \in [Procs -> PCs]
  /\ cmd \in [Procs -> {"announce", "peers", "persist", None}]
  /\ self \in [Procs -> Self \cup {None}]
  /\ name \in [Procs -> Files \cup {None}]
  /\ DOMAIN rec = Procs
  /\ at \in [Procs -> {"nowhere", "tmp", "file", "gone"}]
  /\ ann \in [Procs -> Announcement \cup {None}]
RestOK ==
  /\ keys \in 0 .. MaxKeys
  /\ said \subseteq Announcement /\ heard \in Seq(Announcement)
RecOK == \A p \in Procs : rec[p] \in Contents(name[p]) \cup {None}

\* Where a process has got to in its command decides what it holds.
HoldInv(p) ==
  /\ pc[p] \in Saving => name[p] \in Files /\ rec[p] \in Contents(name[p])
  /\ pc[p] \in Saving \cup {"saved"} /\ p \in Listeners => ann[p] \in Announcement
  /\ pc[p] = "open" => p \in Senders
  /\ pc[p] # "idle" /\ p \in Senders => self[p] \in Self
  /\ pc[p] = "idle" => self[p] = None /\ ann[p] = None

Typed == FilesOK /\ LocalsOK /\ RestOK /\ RecOK /\ \A p \in Procs : HoldInv(p)

LEMMA SomeNames ==
  /\ \A v \in Vaults, k \in Keys : <<v, k>> \in Files /\ Contents(<<v, k>>) = Nat
  /\ NodeFile \in Files /\ Contents(NodeFile) = NodeState
  /\ None \notin Announcement /\ Torn \notin NodeState /\ None \notin NodeState
  /\ Mixed \notin NodeState /\ None \notin Nat /\ Torn \notin Nat /\ Mixed \notin Nat
BY HeadAnnounceAssumption DEF Files, Contents

LEMMA NodeIsState == FilesOK /\ HasNode => Node \in NodeState
BY SomeNames DEF FilesOK, HasNode, Node

LEMMA TypedInit == Init => Typed
BY HeadAnnounceAssumption, SomeNames
DEF Init, Typed, FilesOK, LocalsOK, RestOK, RecOK, HoldInv, PCs, Saving

\* A process that ends.
LEMMA StopTyped ==
  ASSUME Typed, NEW p \in Procs, Stop(p)
  PROVE  LocalsOK' /\ RecOK' /\ \A q \in Procs : HoldInv(q)'
BY DEF Typed, Stop, Goto, LocalsOK, RecOK, HoldInv, PCs, Saving

\* The steps of a save.
LEMMA SaveTyped ==
  ASSUME Typed, NEW p \in Procs, OpenTmp(p) \/ WriteTmp(p) \/ Rename(p)
  PROVE  Typed'
<1>1. CASE OpenTmp(p)
  BY <1>1 DEF OpenTmp, Goto, locals, Typed, FilesOK, LocalsOK, RestOK, RecOK, HoldInv, PCs, Saving
<1>2. CASE WriteTmp(p)
  <2>1. name[p] \in Files /\ rec[p] \in Contents(name[p])
    BY <1>2 DEF WriteTmp, Typed, HoldInv, Saving
  <2>2. \A old : Written(name[p], old, rec[p]) \subseteq Contents(name[p]) \cup {Mixed}
    <3>1. CASE name[p] = NodeFile
      BY <2>1, <3>1 DEF Written
    <3>2. CASE name[p] # NodeFile
      <4>1. Contents(name[p]) = Nat
        BY <2>1, <3>2, SomeNames DEF Contents
      <4>2. \A b : 0 .. b \subseteq Nat
        OBVIOUS
      <4> QED
        BY <2>1, <3>2, <4>1, <4>2 DEF Written
    <3> QED
      BY <3>1, <3>2
  <2>3. FilesOK'
    BY <1>2, <2>1, <2>2 DEF WriteTmp, Typed, FilesOK, files
  <2> QED
    BY <1>2, <2>3 DEF WriteTmp, Goto, locals, Typed, LocalsOK, RestOK, RecOK, HoldInv, PCs, Saving
<1>3. CASE Rename(p) /\ Stop(p) /\ UNCHANGED files
  BY <1>3, StopTyped DEF Rename, Typed, FilesOK, RestOK, files
<1>4. CASE /\ pc[p] = "rename" /\ UNCHANGED locals
           /\ file' = [file EXCEPT ![name[p]] = tmp[name[p]]]
           /\ tmp' = [tmp EXCEPT ![name[p]] = None]
           /\ at' = [q \in Procs |-> Moved(name[p], q)]
           /\ Goto(p, "saved")
           /\ UNCHANGED <<keys, said, heard>>
  <2>1. name[p] \in Files
    BY <1>4 DEF Typed, HoldInv, Saving
  <2>2. FilesOK'
    BY <1>4, <2>1 DEF Typed, FilesOK
  <2>3. \A q \in Procs : Moved(name[p], q) \in {"nowhere", "tmp", "file", "gone"}
    BY DEF Typed, LocalsOK, Moved
  <2> QED
    BY <1>4, <2>2, <2>3 DEF Goto, locals, Typed, LocalsOK, RestOK, RecOK, HoldInv, PCs, Saving
<1> QED
  BY <1>1, <1>2, <1>3, <1>4 DEF Rename

\* The steps of the announcing home.
LEMMA SendTyped ==
  ASSUME Typed, NEW p \in Procs, SendSteps(p)
  PROVE  Typed'
<1>1. ASSUME NEW command \in {"announce", "peers"}, Open(p, command)
      PROVE  Typed'
  <2>1. CASE /\ HasNode
             /\ self' = [self EXCEPT ![p] = [key |-> Node.key, peers |-> Node.peers]]
             /\ Goto(p, "open")
             /\ UNCHANGED <<keys, name, rec>>
    <3>1. [key |-> Node.key, peers |-> Node.peers] \in Self
      BY <2>1, NodeIsState DEF Typed, NodeState, Self
    <3> QED
      BY <1>1, <2>1, <3>1 DEF Open, Goto, files, Typed, FilesOK, LocalsOK, RestOK, RecOK, HoldInv, PCs, Saving
  <2>2. CASE /\ keys < MaxKeys
             /\ keys' = keys + 1
             /\ self' = [self EXCEPT ![p] = [key |-> keys', peers |-> {}]]
             /\ Save(p, NodeFile, [key |-> keys', peers |-> {}, seq |-> [v \in Vaults |-> 0]])
    <3>1. keys' \in Keys /\ keys' \in 0 .. MaxKeys
      BY <2>2, HeadAnnounceAssumption DEF Typed, RestOK, Keys
    <3>2. [key |-> keys', peers |-> {}, seq |-> [v \in Vaults |-> 0]] \in NodeState
      BY <3>1 DEF NodeState
    <3>3. [key |-> keys', peers |-> {}] \in Self
      BY <3>1 DEF Self
    <3>4. /\ p \in Senders /\ p \notin Listeners /\ pc[p] = "idle"
          /\ cmd' = [cmd EXCEPT ![p] = command]
          /\ UNCHANGED <<files, at, ann, said, heard>>
      BY <1>1, HeadAnnounceAssumption DEF Open
    <3>5. /\ pc' = [pc EXCEPT ![p] = "opentmp"]
          /\ name' = [name EXCEPT ![p] = NodeFile]
          /\ \E c \in NodeState : rec' = [rec EXCEPT ![p] = c]
      BY <2>2, <3>2 DEF Save, Goto
    <3>6. LocalsOK' /\ RecOK'
      BY <2>2, <3>3, <3>4, <3>5, SomeNames DEF Typed, LocalsOK, RecOK, PCs
    <3>7. \A q \in Procs : HoldInv(q)'
      BY <2>2, <3>3, <3>4, <3>5, SomeNames DEF Typed, LocalsOK, HoldInv, Saving
    <3> QED
      BY <3>1, <3>4, <3>6, <3>7 DEF files, Typed, FilesOK, RestOK
  <2> QED
    BY <1>1, <2>1, <2>2 DEF Open
<1>2. CASE Opened(p)
  BY <1>2, SomeNames DEF Procs, Opened, Goto, files, locals, Typed, FilesOK, LocalsOK, RestOK, RecOK, HoldInv, PCs, Saving
<1>3. ASSUME NEW v \in Vaults, NEW h \in Heads, NextAnnounceSeq(p, v, h)
      PROVE  Typed'
  <2>1. Node \in NodeState /\ p \in Senders /\ self[p] \in Self
    BY <1>3, NodeIsState DEF NextAnnounceSeq, Typed, HoldInv
  <2>2. [Node EXCEPT !.seq[v] = @ + 1] \in NodeState
    BY <2>1 DEF NodeState
  <2>3. [vault |-> v, key |-> self[p].key, seq |-> Node.seq[v] + 1, head |-> h] \in Announcement
    BY <2>1 DEF NodeState, Self, Announcement
  <2> QED
    BY <1>3, <2>1, <2>2, <2>3, SomeNames, HeadAnnounceAssumption
    DEF NextAnnounceSeq, Save, Goto, files, Typed, FilesOK, LocalsOK, RestOK, RecOK, HoldInv, PCs, Saving
<1>4. CASE Broadcast(p)
  BY <1>4, StopTyped DEF Broadcast, files, Typed, FilesOK, LocalsOK, RestOK
<1>5. ASSUME NEW q \in Peers, PersistPeers(p, q)
      PROVE  Typed'
  <2>1. Node \in NodeState /\ p \in Senders /\ self[p] \in Self
    BY <1>5, NodeIsState DEF PersistPeers, Typed, HoldInv
  <2>2. /\ [Node EXCEPT !.peers = self[p].peers \cup {q}] \in NodeState
        /\ [Node EXCEPT !.peers = self[p].peers \ {q}] \in NodeState
    BY <2>1 DEF NodeState, Self
  <2>3. PICK c \in NodeState : Save(p, NodeFile, c)
    BY <1>5, <2>2 DEF PersistPeers
  <2> QED
    BY <1>5, <2>1, <2>3, SomeNames, HeadAnnounceAssumption
    DEF PersistPeers, Save, Goto, files, Typed, FilesOK, LocalsOK, RestOK, RecOK, HoldInv, PCs, Saving
<1>6. CASE EndSend(p)
  BY <1>6, StopTyped DEF EndSend, files, Typed, FilesOK, RestOK
<1> QED
  BY <1>1, <1>2, <1>3, <1>4, <1>5, <1>6 DEF SendSteps

\* The steps of the listening home, and kills.
LEMMA ListenTyped ==
  ASSUME Typed, NEW p \in Procs, ListenSteps(p) \/ Crash(p)
  PROVE  Typed'
<1>1. ASSUME NEW a \in said, Validate(p, a)
      PROVE  Typed'
  <2>1. a \in Announcement /\ a.seq \in Nat /\ <<a.vault, a.key>> \in Files
    BY SomeNames DEF Typed, RestOK, Announcement
  <2>2. Contents(<<a.vault, a.key>>) = Nat
    BY <2>1, SomeNames DEF Announcement
  <2>3. /\ p \in Listeners /\ p \notin Senders
        /\ pc' = [pc EXCEPT ![p] = "opentmp"]
        /\ ann' = [ann EXCEPT ![p] = a]
        /\ name' = [name EXCEPT ![p] = <<a.vault, a.key>>]
        /\ rec' = [rec EXCEPT ![p] = a.seq]
        /\ UNCHANGED <<file, tmp, keys, cmd, self, at, said, heard>>
    BY <1>1, HeadAnnounceAssumption DEF Validate, Save, Goto, files
  <2>4. LocalsOK' /\ RecOK'
    BY <2>1, <2>2, <2>3 DEF Typed, LocalsOK, RecOK, PCs
  <2>5. \A q \in Procs : HoldInv(q)'
    BY <2>1, <2>2, <2>3 DEF Typed, LocalsOK, HoldInv, Saving
  <2> QED
    BY <2>3, <2>4, <2>5 DEF Typed, FilesOK, RestOK
<1>2. CASE Accept(p)
  <2>1. ann[p] \in Announcement
    BY <1>2 DEF Accept, Typed, HoldInv
  <2> QED
    BY <1>2, <2>1, StopTyped DEF Accept, files, Typed, FilesOK, RestOK
<1>3. CASE Crash(p)
  BY <1>3, StopTyped DEF Crash, files, Typed, FilesOK, RestOK
<1> QED
  BY <1>1, <1>2, <1>3 DEF ListenSteps

LEMMA TypedStep == Typed /\ [Next]_vars => Typed'
<1>1. ASSUME Typed, UNCHANGED vars
      PROVE  Typed'
  BY <1>1 DEF vars, files, locals, Typed, FilesOK, LocalsOK, RestOK, RecOK, HoldInv
<1> QED
  BY <1>1, SaveTyped, SendTyped, ListenTyped DEF Next

\* Every variable of the two homes always holds a value of its kind, however
\* their processes overlap and are killed.
THEOREM TypeCorrect == Spec => []TypeOK
<1>1. Typed => TypeOK
  BY DEF Typed, FilesOK, LocalsOK, RestOK, RecOK, TypeOK, Self
<1> QED
  BY <1>1, TypedInit, TypedStep, PTL DEF Spec

-----------------------------------------------------------------------------
(* Numbers                                                                 *)

\* A new node.json that continues the one on disk.
Ahead(c) ==
  /\ c \in NodeState
  /\ HasNode => c.key = Node.key /\ \A v \in Vaults : Node.seq[v] <= c.seq[v]

\* An announcement that has not gone out has a number above all that have.
Pending(p) ==
  /\ HasNode /\ self[p].key = Node.key /\ ann[p].key = Node.key
  /\ pc[p] \in Saving => rec[p].seq[ann[p].vault] = ann[p].seq
  /\ pc[p] = "saved" => Node.seq[ann[p].vault] = ann[p].seq
  /\ \A a \in said : a.vault = ann[p].vault => a.seq < ann[p].seq

SendInv(p) ==
  /\ pc[p] \in Saving => name[p] = NodeFile /\ Ahead(rec[p]) /\ rec[p].key = self[p].key
  /\ pc[p] = "writetmp" => at[p] = "tmp" /\ tmp[NodeFile] = Torn
  /\ pc[p] = "rename" => tmp[NodeFile] = rec[p]
  /\ pc[p] \in {"open", "saved"} => HasNode /\ self[p].key = Node.key
  /\ pc[p] = "open" => ann[p] = None
  /\ ann[p] # None => Pending(p)

\* node.json is whole, and ahead of everything that was said.
NodeInv ==
  /\ file[NodeFile] \in NodeState \cup {None}
  /\ \A a \in said : HasNode /\ a.key = Node.key /\ a.seq <= Node.seq[a.vault]
  /\ NumbersUnique

\* What a listener stores is the number of an announcement.
ListenInv(p) ==
  pc[p] # "idle" =>
    ann[p] \in said /\ name[p] = <<ann[p].vault, ann[p].key>> /\ rec[p] = ann[p].seq

Inv ==
  /\ Typed /\ NodeInv
  /\ \A p \in Senders : SendInv(p)
  /\ \A p \in Listeners : ListenInv(p)

KeyKept == HasNode => HasNode' /\ Node'.key = Node.key

LEMMA Slots ==
  /\ \A p \in Senders : p \in Procs /\ p \notin Listeners
  /\ \A p \in Listeners : p \in Procs /\ p \notin Senders
  /\ \A v \in Vaults, k \in Keys : <<v, k>> # NodeFile
BY HeadAnnounceAssumption DEF Procs

LEMMA HasNodeMeans == NodeInv => (HasNode <=> file[NodeFile] \in NodeState)
BY SomeNames DEF NodeInv, HasNode

\* What a process does that leaves node.json alone, and its temporary file.
LEMMA NodeFrame ==
  ASSUME NodeInv, file'[NodeFile] = file[NodeFile], said' = said
  PROVE  NodeInv' /\ KeyKept
BY DEF NodeInv, NumbersUnique, KeyKept, HasNode, Node

LEMMA SendFrame ==
  ASSUME NEW p \in Senders, SendInv(p), said' = said,
         file'[NodeFile] = file[NodeFile], tmp'[NodeFile] = tmp[NodeFile],
         pc'[p] = pc[p], self'[p] = self[p], name'[p] = name[p],
         rec'[p] = rec[p], ann'[p] = ann[p], pc[p] \in Saving => at'[p] = at[p]
  PROVE  SendInv(p)'
BY DEF SendInv, Saving, Ahead, Pending, HasNode, Node

LEMMA SendIdle ==
  ASSUME NEW p \in Procs, pc'[p] = "idle", ann'[p] = None
  PROVE  SendInv(p)' /\ ListenInv(p)'
BY DEF SendInv, ListenInv, Saving

LEMMA ListenFrame ==
  ASSUME NEW p \in Listeners, ListenInv(p), said \subseteq said',
         pc'[p] = pc[p], name'[p] = name[p], rec'[p] = rec[p], ann'[p] = ann[p]
  PROVE  ListenInv(p)'
BY DEF ListenInv

LEMMA StopIs ==
  ASSUME Typed, NEW p \in Procs, Stop(p)
  PROVE  /\ pc'[p] = "idle" /\ ann'[p] = None
         /\ \A q \in Procs : q # p =>
              /\ pc'[q] = pc[q] /\ self'[q] = self[q] /\ name'[q] = name[q]
              /\ rec'[q] = rec[q] /\ at'[q] = at[q] /\ ann'[q] = ann[q]
BY DEF Stop, Goto, Typed, LocalsOK

\* A step of p, of any kind.
Step(p) ==
  SendSteps(p) \/ ListenSteps(p) \/ OpenTmp(p) \/ WriteTmp(p) \/ Rename(p) \/ Crash(p)

\* No step touches what another process holds, except the file it writes.
LEMMA OthersKeep ==
  ASSUME Typed, NEW p \in Procs, Step(p), NEW q \in Procs, q # p
  PROVE  /\ pc'[q] = pc[q] /\ self'[q] = self[q] /\ name'[q] = name[q]
         /\ rec'[q] = rec[q] /\ ann'[q] = ann[q]
         /\ name[q] # name[p] \/ ~Rename(p) => at'[q] = at[q]
<1>1. CASE Stop(p)
  BY <1>1, StopIs
<1>2. CASE OpenTmp(p) \/ WriteTmp(p)
  BY <1>2 DEF OpenTmp, WriteTmp, Goto, locals, Typed, LocalsOK
<1>3. CASE /\ Rename(p) /\ UNCHANGED locals /\ Goto(p, "saved")
           /\ at' = [r \in Procs |-> Moved(name[p], r)]
  BY <1>3 DEF Goto, locals, Moved, Typed, LocalsOK
<1>4. CASE SendSteps(p) /\ ~Stop(p)
  BY <1>4 DEF SendSteps, Open, Opened, NextAnnounceSeq, Broadcast, PersistPeers, EndSend,
              Save, Goto, locals, Typed, LocalsOK, RecOK
<1>5. CASE ListenSteps(p) /\ ~Stop(p)
  BY <1>5 DEF ListenSteps, Validate, Accept, Save, Goto, Typed, LocalsOK, RecOK
<1> QED
  BY <1>1, <1>2, <1>3, <1>4, <1>5 DEF Step, Rename, Crash

\* The announcing home does nothing to the listening one.
LEMMA SendApart ==
  ASSUME Inv, NEW p \in Senders, Step(p)
  PROVE  \A q \in Listeners : ListenInv(q)'
<1>1. ~ListenSteps(p)
  BY Slots DEF ListenSteps, Validate, Accept
<1>2. said \subseteq said'
  BY <1>1 DEF Step, SendSteps, Open, Opened, NextAnnounceSeq, Broadcast, PersistPeers, EndSend,
              OpenTmp, WriteTmp, Rename, Crash
<1> QED
  BY <1>2, OthersKeep, ListenFrame, Slots DEF Inv

\* Saving node.json: the new one is whole and continues the old one.
LEMMA SendSave ==
  ASSUME Inv, NEW p \in Senders, OpenTmp(p) \/ WriteTmp(p) \/ Rename(p)
  PROVE  NodeInv' /\ KeyKept /\ SendInv(p)'
<1>1. /\ name[p] = NodeFile /\ Ahead(rec[p]) /\ rec[p].key = self[p].key
      /\ p \in Procs /\ SendInv(p) /\ NodeFile \in Files
      /\ pc \in [Procs -> PCs] /\ at \in [Procs -> {"nowhere", "tmp", "file", "gone"}]
      /\ DOMAIN file = Files /\ DOMAIN tmp = Files
  BY Slots, SomeNames DEF OpenTmp, WriteTmp, Rename, Inv, Typed, LocalsOK, FilesOK, SendInv, Saving
<1>2. CASE OpenTmp(p)
  <2>1. /\ file'[NodeFile] = file[NodeFile] /\ said' = said
        /\ tmp'[NodeFile] = Torn /\ at'[p] = "tmp" /\ pc[p] = "opentmp" /\ pc'[p] = "writetmp"
        /\ self' = self /\ name' = name /\ rec' = rec /\ ann' = ann
    BY <1>1, <1>2 DEF OpenTmp, Goto, locals
  <2>2. SendInv(p)'
    BY <1>1, <2>1 DEF SendInv, Saving, Ahead, Pending, HasNode, Node
  <2> QED
    BY <2>1, <2>2, NodeFrame DEF Inv
<1>3. CASE WriteTmp(p)
  <2>1. at[p] = "tmp" /\ tmp[NodeFile] = Torn
    BY <1>1, <1>3 DEF WriteTmp, SendInv
  <2>2. /\ file'[NodeFile] = file[NodeFile] /\ said' = said
        /\ tmp'[NodeFile] = rec[p] /\ pc[p] = "writetmp" /\ pc'[p] = "rename"
        /\ self' = self /\ name' = name /\ rec' = rec /\ ann' = ann
    BY <1>1, <1>3, <2>1 DEF WriteTmp, Written, Goto, locals
  <2>3. SendInv(p)'
    BY <1>1, <2>2 DEF SendInv, Saving, Ahead, Pending, HasNode, Node
  <2> QED
    BY <2>2, <2>3, NodeFrame DEF Inv
<1>4. CASE Rename(p)
  <2>1. tmp[NodeFile] = rec[p] /\ rec[p] \in NodeState /\ rec[p] # None
    BY <1>1, <1>4, SomeNames DEF Rename, SendInv, Ahead
  <2>2. /\ file'[NodeFile] = rec[p] /\ said' = said
        /\ pc[p] = "rename" /\ pc'[p] = "saved"
        /\ self' = self /\ name' = name /\ rec' = rec /\ ann' = ann
    BY <1>1, <1>4, <2>1 DEF Rename, Goto, locals
  <2>3. HasNode' /\ Node' = rec[p]
    BY <2>1, <2>2, SomeNames DEF HasNode, Node
  <2>4. KeyKept
    BY <1>1, <2>3 DEF KeyKept, Ahead
  <2>5. NodeInv'
    <3>1. ASSUME NEW a \in said
          PROVE  a.key = Node'.key /\ a.seq <= Node'.seq[a.vault]
      <4>1. /\ HasNode /\ a.key = Node.key /\ a.seq <= Node.seq[a.vault]
            /\ a.vault \in Vaults /\ a.seq \in Nat
        BY DEF Inv, NodeInv, Typed, RestOK, Announcement
      <4>2. Node.seq[a.vault] \in Nat /\ rec[p].seq[a.vault] \in Nat
        BY <2>1, <4>1, NodeIsState DEF Inv, Typed, NodeState
      <4> QED
        BY <1>1, <2>3, <4>1, <4>2 DEF Ahead
    <3> QED
      BY <2>1, <2>2, <2>3, <3>1 DEF Inv, NodeInv, NumbersUnique
  <2>6. SendInv(p)'
    BY <1>1, <2>2, <2>3 DEF SendInv, Saving, Ahead, Pending
  <2> QED
    BY <2>4, <2>5, <2>6
<1> QED
  BY <1>2, <1>3, <1>4

\* The commands, between the saves.
LEMMA SendCommand ==
  ASSUME Inv, NEW p \in Senders, SendSteps(p) \/ Crash(p)
  PROVE  NodeInv' /\ KeyKept /\ SendInv(p)'
<1>1. /\ p \in Procs /\ SendInv(p) /\ HoldInv(p) /\ NodeInv
      /\ HasNode => Node \in NodeState
      /\ pc \in [Procs -> PCs] /\ self \in [Procs -> Self \cup {None}]
      /\ name \in [Procs -> Files \cup {None}] /\ DOMAIN rec = Procs
      /\ ann \in [Procs -> Announcement \cup {None}]
  BY Slots, NodeIsState DEF Inv, Typed, LocalsOK
<1>2. ASSUME file'[NodeFile] = file[NodeFile], tmp'[NodeFile] = tmp[NodeFile], said' = said,
             SendInv(p)'
      PROVE  NodeInv' /\ KeyKept /\ SendInv(p)'
  BY <1>1, <1>2, NodeFrame
<1>3. ASSUME NEW command \in {"announce", "peers"}, Open(p, command)
      PROVE  SendInv(p)'
  <2>1. pc[p] = "idle" /\ ann[p] = None /\ ann' = ann /\ file' = file
    BY <1>1, <1>3 DEF Open, files, HoldInv
  <2>2. CASE /\ HasNode
             /\ self' = [self EXCEPT ![p] = [key |-> Node.key, peers |-> Node.peers]]
             /\ Goto(p, "open")
    BY <1>1, <2>1, <2>2 DEF Goto, SendInv, Saving, HasNode, Node
  <2>3. CASE /\ Node = None /\ keys < MaxKeys
             /\ keys' = keys + 1
             /\ self' = [self EXCEPT ![p] = [key |-> keys', peers |-> {}]]
             /\ Save(p, NodeFile, [key |-> keys', peers |-> {}, seq |-> [v \in Vaults |-> 0]])
    <3>1. keys' \in Keys
      BY <2>3, HeadAnnounceAssumption DEF Inv, Typed, RestOK, Keys
    <3>2. [key |-> keys', peers |-> {}, seq |-> [v \in Vaults |-> 0]] \in NodeState
      BY <3>1 DEF NodeState
    <3>3. /\ pc'[p] = "opentmp" /\ name'[p] = NodeFile /\ self'[p].key = keys'
          /\ rec'[p] \in NodeState /\ rec'[p].key = keys'
      BY <1>1, <2>3, <3>2 DEF Save, Goto
    <3>4. ~HasNode' /\ ann'[p] = None
      BY <2>1, <2>3 DEF HasNode, Node
    <3> QED
      BY <3>3, <3>4 DEF SendInv, Saving, Ahead
  <2> QED
    BY <1>3, <2>2, <2>3 DEF Open
<1>4. CASE Opened(p)
  BY <1>1, <1>4 DEF Opened, Goto, files, locals, SendInv, Saving, HasNode, Node, NodeInv, KeyKept, NumbersUnique
<1>5. ASSUME NEW v \in Vaults, NEW h \in Heads, NextAnnounceSeq(p, v, h)
      PROVE  SendInv(p)'
  <2>1. /\ HasNode /\ Node \in NodeState /\ self[p].key = Node.key
        /\ file' = file /\ self' = self /\ said' = said
    BY <1>1, <1>5 DEF NextAnnounceSeq, SendInv, files
  <2> DEFINE n == [Node EXCEPT !.seq[v] = @ + 1]
  <2>2. /\ n \in NodeState /\ n.key = Node.key /\ n.seq[v] = Node.seq[v] + 1
        /\ \A w \in Vaults : Node.seq[w] <= n.seq[w]
    BY <2>1 DEF NodeState
  <2>3. /\ pc'[p] = "opentmp" /\ name'[p] = NodeFile /\ rec'[p] = n
        /\ ann'[p] = [vault |-> v, key |-> self[p].key, seq |-> Node.seq[v] + 1, head |-> h]
    BY <1>1, <1>5 DEF NextAnnounceSeq, Save, Goto
  <2>4. HasNode' /\ Node' = Node
    BY <2>1 DEF HasNode, Node
  <2>5. \A a \in said : a.vault = v => a.seq < Node.seq[v] + 1
    <3>1. Node.seq[v] \in Nat /\ \A a \in said : a.seq \in Nat
      BY <2>1 DEF NodeState, Inv, Typed, RestOK, Announcement
    <3> QED
      BY <1>1, <3>1 DEF NodeInv
  <2>6. Pending(p)'
    BY <2>1, <2>2, <2>3, <2>4, <2>5 DEF Pending, Saving
  <2>7. Ahead(rec[p])'
    BY <2>2, <2>3, <2>4 DEF Ahead
  <2> QED
    BY <2>1, <2>2, <2>3, <2>6, <2>7 DEF SendInv, Saving
<1>6. CASE Broadcast(p)
  <2>1. /\ pc[p] = "saved" /\ Pending(p) /\ ann[p] \in Announcement
        /\ said' = said \cup {ann[p]} /\ file' = file
    BY <1>1, <1>6 DEF Broadcast, SendInv, files
  <2>2. HasNode' /\ HasNode /\ Node' = Node /\ Node.seq[ann[p].vault] \in Nat
    BY <1>1, <2>1 DEF Pending, HasNode, Node, Announcement, NodeState
  <2>3. \A a \in said' : HasNode' /\ a.key = Node'.key /\ a.seq <= Node'.seq[a.vault]
    BY <1>1, <2>1, <2>2 DEF Pending, NodeInv
  <2>4. NumbersUnique'
    <3>1. \A a \in said : a.seq \in Nat /\ (a.vault = ann[p].vault => a.seq # ann[p].seq)
      BY <2>1 DEF Pending, Inv, Typed, RestOK, Announcement
    <3> QED
      BY <1>1, <2>1, <3>1 DEF NodeInv, NumbersUnique
  <2>5. SendInv(p)'
    BY <1>1, <1>6, StopIs, SendIdle DEF Broadcast, Inv
  <2> QED
    BY <1>1, <2>1, <2>2, <2>3, <2>4, <2>5 DEF NodeInv, KeyKept
<1>7. ASSUME NEW q \in Peers, PersistPeers(p, q)
      PROVE  SendInv(p)'
  <2>1. /\ HasNode /\ Node \in NodeState /\ self[p].key = Node.key /\ self[p].peers \subseteq Peers
        /\ file' = file /\ self' = self /\ ann'[p] = None
    BY <1>1, <1>7 DEF PersistPeers, SendInv, HoldInv, Self, files
  <2>2. PICK c \in {self[p].peers \cup {q}, self[p].peers \ {q}} :
          Save(p, NodeFile, [Node EXCEPT !.peers = c])
    BY <1>7 DEF PersistPeers
  <2> DEFINE n == [Node EXCEPT !.peers = c]
  <2>3. n \in NodeState /\ n.key = Node.key /\ n.seq = Node.seq
    BY <2>1 DEF NodeState
  <2>4. \A w \in Vaults : Node.seq[w] <= n.seq[w]
    BY <2>1, <2>3 DEF NodeState
  <2>5. pc'[p] = "opentmp" /\ name'[p] = NodeFile /\ rec'[p] = n
    BY <1>1, <2>2 DEF Save, Goto
  <2>6. HasNode' /\ Node' = Node
    BY <2>1 DEF HasNode, Node
  <2>7. Ahead(rec[p])'
    BY <2>3, <2>4, <2>5, <2>6 DEF Ahead
  <2> QED
    BY <2>1, <2>3, <2>5, <2>7 DEF SendInv, Saving
<1>8. CASE EndSend(p) \/ Crash(p)
  BY <1>1, <1>8, StopIs, SendIdle DEF EndSend, Crash, Inv, files, NodeInv, KeyKept, HasNode, Node, NumbersUnique
<1>9. ASSUME NEW command \in {"announce", "peers"}, Open(p, command)
      PROVE  file' = file /\ tmp' = tmp /\ said' = said
  BY <1>9 DEF Open, files
<1>10. ASSUME NEW v \in Vaults, NEW h \in Heads, NextAnnounceSeq(p, v, h)
       PROVE  file' = file /\ tmp' = tmp /\ said' = said
  BY <1>10 DEF NextAnnounceSeq, files
<1>11. ASSUME NEW q \in Peers, PersistPeers(p, q)
       PROVE  file' = file /\ tmp' = tmp /\ said' = said
  BY <1>11 DEF PersistPeers, files
<1> QED
  BY <1>2, <1>3, <1>4, <1>5, <1>6, <1>7, <1>8, <1>9, <1>10, <1>11 DEF SendSteps

\* The listening home does nothing to the announcing one ...
LEMMA ListenApart ==
  ASSUME Inv, NEW p \in Listeners, Step(p)
  PROVE  /\ said' = said /\ NodeInv' /\ KeyKept
         /\ \A q \in Senders : SendInv(q)'
<1>1. p \in Procs /\ p \notin Senders /\ ListenInv(p) /\ HoldInv(p)
  BY Slots DEF Inv, Typed
<1>2. pc[p] # "idle" => name[p] # NodeFile /\ ann[p] # None
  BY <1>1, Slots, SomeNames DEF ListenInv, Inv, Typed, RestOK, Announcement
<1>3. SendSteps(p) => EndSend(p)
  BY <1>1, <1>2 DEF SendSteps, Open, Opened, NextAnnounceSeq, Broadcast, PersistPeers, HoldInv
<1>4. /\ said' = said
      /\ file'[NodeFile] = file[NodeFile] /\ tmp'[NodeFile] = tmp[NodeFile]
  BY <1>2, <1>3, SomeNames
  DEF Step, EndSend, ListenSteps, Validate, Accept, OpenTmp, WriteTmp, Rename, Crash, files, Inv, Typed, FilesOK
<1>5. ASSUME NEW q \in Senders
      PROVE  SendInv(q)'
  <2>1. q \in Procs /\ q # p /\ SendInv(q)
    BY <1>1, Slots DEF Inv
  <2>2. pc[q] \in Saving => name[q] # name[p] \/ ~Rename(p)
    BY <1>2, <2>1 DEF SendInv, Rename
  <2> QED
    BY <1>1, <1>4, <2>1, <2>2, OthersKeep, SendFrame DEF Inv
<1> QED
  BY <1>4, <1>5, NodeFrame DEF Inv

\* ... and stores the numbers it has been sent.
LEMMA ListenKeeps ==
  ASSUME Inv, NEW p \in Listeners, Step(p)
  PROVE  \A q \in Listeners : ListenInv(q)'
<1>1. /\ p \in Procs /\ p \notin Senders /\ ListenInv(p) /\ HoldInv(p) /\ said' = said
      /\ pc \in [Procs -> PCs] /\ name \in [Procs -> Files \cup {None}] /\ DOMAIN rec = Procs
      /\ ann \in [Procs -> Announcement \cup {None}]
  BY Slots, ListenApart DEF Inv, Typed, LocalsOK, FilesOK
<1>2. pc[p] # "idle" => ann[p] # None
  BY <1>1, SomeNames DEF ListenInv, Inv, Typed, RestOK
<1>3. SendSteps(p) => EndSend(p)
  BY <1>1, <1>2 DEF SendSteps, Open, Opened, NextAnnounceSeq, Broadcast, PersistPeers, HoldInv
<1>4. ASSUME NEW q \in Listeners, q # p
      PROVE  ListenInv(q)'
  BY <1>1, <1>4, OthersKeep, ListenFrame, Slots DEF Inv
<1>5. CASE Stop(p)
  BY <1>1, <1>4, <1>5, StopIs, SendIdle DEF Inv
<1>6. ASSUME NEW a \in said, Validate(p, a)
      PROVE  ListenInv(p)'
  BY <1>1, <1>6 DEF Validate, Save, Goto, ListenInv
<1>7. CASE OpenTmp(p) \/ WriteTmp(p) \/ (Rename(p) /\ tmp[name[p]] # None)
  <2>1. ListenInv(p)'
    BY <1>1, <1>7 DEF OpenTmp, WriteTmp, Rename, Goto, locals, ListenInv
  <2> QED
    BY <1>4, <2>1
<1> QED
  BY <1>3, <1>4, <1>5, <1>6, <1>7 DEF Step, EndSend, ListenSteps, Accept, Crash, OpenTmp, WriteTmp, Rename

LEMMA InvInit == Init => Inv
<1> SUFFICES ASSUME Init PROVE Inv
  OBVIOUS
<1>1. ~HasNode
  BY SomeNames DEF Init, HasNode
<1>2. NodeInv
  BY SomeNames DEF Init, NodeInv, NumbersUnique
<1>3. \A p \in Procs : SendInv(p) /\ ListenInv(p)
  BY DEF Init, SendInv, ListenInv, Saving
<1> QED
  BY <1>2, <1>3, TypedInit, Slots DEF Inv

LEMMA InvStep == OneSender /\ Inv /\ [Next]_vars => Inv' /\ KeyKept
<1> SUFFICES ASSUME OneSender, Inv, [Next]_vars PROVE Inv' /\ KeyKept
  OBVIOUS
<1>1. Typed'
  BY TypedStep DEF Inv
<1>2. CASE UNCHANGED vars
  <2>1. NodeInv' /\ KeyKept
    BY <1>2, NodeFrame DEF vars, files, Inv
  <2>2. \A p \in Senders : SendInv(p)'
    BY <1>2, SendFrame DEF vars, files, locals, Inv
  <2>3. \A p \in Listeners : ListenInv(p)'
    BY <1>2, ListenFrame DEF vars, files, locals, Inv
  <2> QED
    BY <1>1, <2>1, <2>2, <2>3 DEF Inv
<1>3. ASSUME NEW p \in Procs, Step(p)
      PROVE  Inv' /\ KeyKept
  <2>1. CASE p \in Senders
    <3>1. ~ListenSteps(p)
      BY <2>1, Slots DEF ListenSteps, Validate, Accept
    <3>2. NodeInv' /\ KeyKept /\ SendInv(p)'
      BY <1>3, <2>1, <3>1, SendSave, SendCommand DEF Step
    <3>3. \A q \in Listeners : ListenInv(q)'
      BY <1>3, <2>1, SendApart
    <3> QED
      BY <1>1, <2>1, <3>2, <3>3 DEF Inv, OneSender
  <2>2. CASE p \in Listeners
    BY <1>1, <1>3, <2>2, ListenApart, ListenKeeps DEF Inv
  <2> QED
    BY <2>1, <2>2 DEF Procs
<1> QED
  BY <1>2, <1>3 DEF Next, Step

\* With one command at a time, no two announcements of the node for a vault
\* share a number: no listener takes a new head for a replay of another one.
THEOREM Numbers ==
  ASSUME OneSender
  PROVE  Spec => []NumbersUnique
<1>1. Inv => NumbersUnique
  BY DEF Inv, NodeInv
<1>2. Inv /\ [Next]_vars => Inv'
  BY InvStep
<1> QED
  BY <1>1, <1>2, InvInit, PTL DEF Spec

\* With one command at a time, no kill in the middle of a save costs the node
\* its identity: once node.json has a key it always reads back with that key.
THEOREM Identity ==
  ASSUME OneSender
  PROVE  Spec => KeyStays
<1>1. Inv /\ [Next]_vars => Inv' /\ [HasNode => HasNode' /\ Node'.key = Node.key]_vars
  BY InvStep DEF KeyKept
<1> QED
  BY <1>1, InvInit, PTL DEF Spec, KeyStays

-----------------------------------------------------------------------------
(* The feed                                                                *)

\* What was heard of node k for v has numbers up to n.
HeardUpTo(v, k, n) ==
  \A a \in Range(heard) : a.vault = v /\ a.key = k => a.seq <= n

\* The number on disk is the last one that was heard, or a later one.
OrderInv == \A v \in Orderly, k \in Keys : HeardUpTo(v, k, LastRecv(v, k))

\* A process that listens for a vault alone saves a number above all it has
\* heard, into files that nobody else writes.
AloneInv(p) ==
  /\ pc[p] \in Saving => LastRecv(ann[p].vault, ann[p].key) < ann[p].seq
  /\ pc[p] = "writetmp" => at[p] = "tmp" /\ tmp[name[p]] = Torn
  /\ pc[p] = "rename" => tmp[name[p]] = rec[p]
  /\ pc[p] = "saved" =>
       /\ file[name[p]] = rec[p]
       /\ \A a \in Range(heard) :
            a.vault = ann[p].vault /\ a.key = ann[p].key => a.seq < ann[p].seq

ForInv(p) == pc[p] # "idle" => ann[p].vault = VaultOf[p]

FeedInv ==
  /\ OrderInv
  /\ \A p \in Listeners : ForInv(p) /\ (VaultOf[p] \in Orderly => AloneInv(p))

FeedStep == Feed!Say \/ Feed!Hear \/ UNCHANGED <<said, heard>>

LEMMA HeardIsSet ==
  ASSUME heard \in Seq(Announcement), NEW a \in Announcement, heard' = Append(heard, a)
  PROVE  Range(heard') = Range(heard) \cup {a}
BY DEF Range

\* What a listener that is at work holds.
LEMMA ListenerHolds ==
  ASSUME Inv, FeedInv, NEW p \in Listeners, pc[p] # "idle"
  PROVE  /\ ann[p] \in said /\ ann[p] \in Announcement /\ ann[p].seq \in Nat
         /\ ann[p].vault = VaultOf[p] /\ ann[p].vault \in Vaults /\ ann[p].key \in Keys
         /\ name[p] = <<ann[p].vault, ann[p].key>> /\ name[p] \in Files
         /\ name[p] # NodeFile /\ rec[p] = ann[p].seq
<1>1. /\ ann[p] \in said /\ name[p] = <<ann[p].vault, ann[p].key>> /\ rec[p] = ann[p].seq
      /\ ann[p].vault = VaultOf[p]
  BY DEF Inv, ListenInv, FeedInv, ForInv
<1>2. ann[p] \in Announcement
  BY <1>1 DEF Inv, Typed, RestOK
<1>3. ann[p].seq \in Nat /\ ann[p].vault \in Vaults /\ ann[p].key \in Keys
  BY <1>2 DEF Announcement
<1> QED
  BY <1>1, <1>2, <1>3, SomeNames, Slots

\* What a listener does.
LEMMA ListenerSteps ==
  ASSUME Inv, NEW p \in Listeners, Step(p)
  PROVE  \/ Stop(p) /\ UNCHANGED <<files, heard>>
         \/ \E a \in said : Validate(p, a)
         \/ OpenTmp(p) \/ WriteTmp(p) \/ (Rename(p) /\ tmp[name[p]] # None)
         \/ Accept(p)
<1>1. p \notin Senders /\ ListenInv(p) /\ p \in Procs /\ HoldInv(p)
  BY Slots DEF Inv, Typed
<1>2. pc[p] # "idle" => ann[p] # None
  BY <1>1, SomeNames DEF ListenInv, Inv, Typed, RestOK
<1>3. SendSteps(p) => EndSend(p)
  BY <1>1, <1>2 DEF SendSteps, Open, Opened, NextAnnounceSeq, Broadcast, PersistPeers, HoldInv
<1> QED
  BY <1>3 DEF Step, EndSend, ListenSteps, Crash, Rename

\* Nothing happens to the vault v: its files stay and nothing of it is heard.
SameVault(v) ==
  /\ \A k \in Keys : file'[<<v, k>>] = file[<<v, k>>] /\ tmp'[<<v, k>>] = tmp[<<v, k>>]
  /\ \A a \in Range(heard') : a.vault = v => a \in Range(heard)

\* A step that is not of a listener for v leaves v alone.
LEMMA VaultStays ==
  ASSUME Inv, FeedInv, NEW p \in Procs, Step(p), NEW v \in Vaults,
         p \in Senders \/ VaultOf[p] # v
  PROVE  SameVault(v)
<1>1. /\ DOMAIN file = Files /\ DOMAIN tmp = Files /\ heard \in Seq(Announcement)
      /\ \A k \in Keys : <<v, k>> \in Files /\ <<v, k>> # NodeFile
  BY Slots, SomeNames DEF Inv, Typed, FilesOK, RestOK
<1>2. CASE p \in Senders
  <2>1. p \notin Listeners /\ SendInv(p)
    BY <1>2, Slots DEF Inv
  <2>2. pc[p] \in Saving => name[p] = NodeFile
    BY <2>1 DEF SendInv
  <2>3. UNCHANGED heard
    BY <2>1 DEF Step, SendSteps, Open, Opened, NextAnnounceSeq, Broadcast, PersistPeers,
                EndSend, ListenSteps, Validate, Accept, OpenTmp, WriteTmp, Rename, Crash
  <2>4. \A f \in Files : f # NodeFile => file'[f] = file[f] /\ tmp'[f] = tmp[f]
    BY <1>1, <2>1, <2>2
    DEF Step, SendSteps, Open, Opened, NextAnnounceSeq, Broadcast, PersistPeers, EndSend,
        ListenSteps, Validate, Accept, OpenTmp, WriteTmp, Rename, Crash, files, Saving
  <2> QED
    BY <1>1, <2>3, <2>4 DEF SameVault
<1>3. CASE p \in Listeners /\ VaultOf[p] # v
  <2>1. \A k \in Keys : pc[p] # "idle" => name[p] # <<v, k>>
    BY <1>3, ListenerHolds
  <2>2. \A k \in Keys : file'[<<v, k>>] = file[<<v, k>>] /\ tmp'[<<v, k>>] = tmp[<<v, k>>]
    BY <1>1, <1>3, <2>1, ListenerSteps
    DEF Validate, OpenTmp, WriteTmp, Rename, Accept, files
  <2>3. \A a \in Range(heard') : a.vault = v => a \in Range(heard)
    <3>1. CASE Accept(p)
      <4>1. ann[p] \in Announcement /\ ann[p].vault # v /\ heard' = Append(heard, ann[p])
        BY <1>3, <3>1, ListenerHolds DEF Accept
      <4> QED
        BY <1>1, <4>1, HeardIsSet
    <3>2. CASE ~Accept(p)
      BY <1>3, <3>2, ListenerSteps DEF Validate, OpenTmp, WriteTmp, Rename
    <3> QED
      BY <3>1, <3>2
  <2> QED
    BY <2>2, <2>3 DEF SameVault
<1> QED
  BY <1>2, <1>3 DEF Procs

\* ... and what another process has for v.
Untouched(q) ==
  /\ pc'[q] = pc[q] /\ name'[q] = name[q] /\ rec'[q] = rec[q] /\ ann'[q] = ann[q]
  /\ pc[q] # "idle" => at'[q] = at[q]
  /\ SameVault(VaultOf[q])

LEMMA OtherListeners ==
  ASSUME Inv, FeedInv, NEW p \in Procs, Step(p), NEW q \in Listeners, q # p,
         p \in Senders \/ VaultOf[p] # VaultOf[q]
  PROVE  Untouched(q)
<1>1. q \in Procs /\ VaultOf[q] \in Vaults
  BY Slots, HeadAnnounceAssumption
<1>2. pc'[q] = pc[q] /\ name'[q] = name[q] /\ rec'[q] = rec[q] /\ ann'[q] = ann[q]
  BY <1>1, OthersKeep DEF Inv
<1>3. pc[q] # "idle" /\ Rename(p) => name[q] # name[p]
  <2> SUFFICES ASSUME pc[q] # "idle", Rename(p) PROVE name[q] # name[p]
    OBVIOUS
  <2>1. /\ name[q] = <<ann[q].vault, ann[q].key>> /\ ann[q].vault = VaultOf[q]
        /\ name[q] # NodeFile
    BY ListenerHolds
  <2>2. pc[p] = "rename"
    BY DEF Rename
  <2>3. CASE p \in Senders
    BY <2>1, <2>2, <2>3 DEF Inv, SendInv, Saving
  <2>4. CASE p \in Listeners /\ VaultOf[p] # VaultOf[q]
    BY <2>1, <2>2, <2>4, ListenerHolds
  <2> QED
    BY <2>3, <2>4 DEF Procs
<1>4. pc[q] # "idle" => at'[q] = at[q]
  BY <1>1, <1>3, OthersKeep DEF Inv
<1>5. SameVault(VaultOf[q])
  BY <1>1, VaultStays
<1> QED
  BY <1>2, <1>4, <1>5 DEF Untouched

\* Then what q relies on stays.
LEMMA AloneStays ==
  ASSUME Inv, FeedInv, NEW q \in Listeners, AloneInv(q), Untouched(q)
  PROVE  AloneInv(q)'
<1>1. CASE pc[q] = "idle"
  BY <1>1 DEF AloneInv, Untouched, Saving
<1>2. CASE pc[q] # "idle"
  <2>1. /\ ann[q].vault = VaultOf[q] /\ ann[q].key \in Keys
        /\ name[q] = <<VaultOf[q], ann[q].key>>
    BY <1>2, ListenerHolds
  <2>2. file'[name[q]] = file[name[q]] /\ tmp'[name[q]] = tmp[name[q]]
    BY <2>1 DEF Untouched, SameVault
  <2>3. LastRecv(ann[q].vault, ann[q].key)' = LastRecv(ann[q].vault, ann[q].key)
    BY <2>1, <2>2 DEF LastRecv, Untouched
  <2> QED
    BY <1>2, <2>1, <2>2, <2>3 DEF AloneInv, Untouched, SameVault
<1> QED
  BY <1>1, <1>2

LEMMA OrderStays ==
  ASSUME Inv, FeedInv, NEW v \in Orderly, NEW k \in Keys,
         file'[<<v, k>>] = file[<<v, k>>],
         \A a \in Range(heard') : a.vault = v => a \in Range(heard)
  PROVE  HeardUpTo(v, k, LastRecv(v, k))'
<1>1. HeardUpTo(v, k, LastRecv(v, k))
  BY DEF FeedInv, OrderInv
<1>2. LastRecv(v, k)' = LastRecv(v, k)
  BY DEF LastRecv
<1> QED
  BY <1>1, <1>2 DEF HeardUpTo

\* A step of a listener that is alone with its vault.
LEMMA AloneStep ==
  ASSUME Inv, FeedInv, NEW p \in Listeners, VaultOf[p] \in Orderly, Step(p)
  PROVE  /\ AloneInv(p)'
         /\ \A k \in Keys : HeardUpTo(VaultOf[p], k, LastRecv(VaultOf[p], k))'
         /\ FeedStep
<1>1. /\ p \in Procs /\ AloneInv(p) /\ said' = said
      /\ pc \in [Procs -> PCs] /\ name \in [Procs -> Files \cup {None}] /\ DOMAIN rec = Procs
      /\ ann \in [Procs -> Announcement \cup {None}]
      /\ at \in [Procs -> {"nowhere", "tmp", "file", "gone"}]
      /\ DOMAIN file = Files /\ DOMAIN tmp = Files /\ heard \in Seq(Announcement)
  BY Slots, ListenApart DEF Inv, Typed, LocalsOK, FilesOK, RestOK, FeedInv
<1>2. ASSUME UNCHANGED <<file, heard>>
      PROVE  /\ \A k \in Keys : HeardUpTo(VaultOf[p], k, LastRecv(VaultOf[p], k))'
             /\ FeedStep
  BY <1>1, <1>2, OrderStays DEF FeedStep
<1>3. CASE Stop(p) /\ UNCHANGED <<files, heard>>
  <2>1. AloneInv(p)'
    BY <1>1, <1>3 DEF Stop, Goto, AloneInv, Saving
  <2> QED
    BY <1>2, <1>3, <2>1 DEF files
<1>4. ASSUME NEW a \in said, Validate(p, a)
      PROVE  AloneInv(p)' /\ UNCHANGED <<file, heard>>
  <2>1. /\ pc'[p] = "opentmp" /\ ann'[p] = a /\ UNCHANGED <<file, heard>>
        /\ LastRecv(a.vault, a.key) < a.seq
    <3>1. a.seq \in Nat /\ LastRecv(a.vault, a.key) \in Nat
      BY DEF Inv, Typed, RestOK, Announcement, LastRecv
    <3> QED
      BY <1>1, <1>4, <3>1 DEF Validate, Save, Goto, files
  <2>2. LastRecv(a.vault, a.key)' = LastRecv(a.vault, a.key)
    BY <2>1 DEF LastRecv
  <2>3. LastRecv(ann[p].vault, ann[p].key)' < ann'[p].seq
    BY <2>1 DEF LastRecv
  <2> QED
    BY <2>1, <2>3 DEF AloneInv, Saving
<1>5. ASSUME OpenTmp(p) \/ WriteTmp(p)
      PROVE  AloneInv(p)' /\ UNCHANGED <<file, heard>>
  <2>1. /\ name[p] \in Files /\ name[p] # NodeFile
    BY <1>5, ListenerHolds DEF OpenTmp, WriteTmp
  <2>2. UNCHANGED <<heard, ann, name, rec>>
    BY <1>5 DEF OpenTmp, WriteTmp, locals
  <2>3. LastRecv(ann[p].vault, ann[p].key) < ann[p].seq
    BY <1>1, <1>5 DEF OpenTmp, WriteTmp, AloneInv, Saving
  <2>4. /\ UNCHANGED file
        /\ \/ pc'[p] = "writetmp" /\ at'[p] = "tmp" /\ tmp'[name[p]] = Torn
           \/ pc'[p] = "rename" /\ tmp'[name[p]] = rec[p]
    BY <1>1, <1>5, <2>1 DEF OpenTmp, WriteTmp, Written, AloneInv, Goto
  <2>5. LastRecv(ann[p].vault, ann[p].key)' = LastRecv(ann[p].vault, ann[p].key)
    BY <2>2, <2>4 DEF LastRecv
  <2> QED
    BY <2>2, <2>3, <2>4, <2>5 DEF AloneInv, Saving
<1>6. CASE Rename(p) /\ tmp[name[p]] # None
  <2>1. /\ name[p] = <<VaultOf[p], ann[p].key>> /\ name[p] \in Files
        /\ rec[p] = ann[p].seq /\ ann[p].seq \in Nat
        /\ ann[p].vault = VaultOf[p] /\ ann[p].key \in Keys
    BY <1>6, ListenerHolds DEF Rename
  <2>2. /\ pc'[p] = "saved" /\ UNCHANGED <<heard, ann, name, rec>>
        /\ file' = [file EXCEPT ![name[p]] = rec[p]]
        /\ LastRecv(VaultOf[p], ann[p].key) < ann[p].seq
    <3>1. pc[p] = "rename" /\ ~(tmp[name[p]] = None)
      BY <1>6 DEF Rename
    <3>2. tmp[name[p]] = rec[p] /\ LastRecv(VaultOf[p], ann[p].key) < ann[p].seq
      BY <1>1, <2>1, <3>1 DEF AloneInv, Saving
    <3> QED
      BY <1>1, <1>6, <3>1, <3>2 DEF Rename, Goto, locals
  <2>3. HeardUpTo(VaultOf[p], ann[p].key, LastRecv(VaultOf[p], ann[p].key))
    BY <2>1 DEF FeedInv, OrderInv
  <2>4. \A a \in Range(heard) : a.seq \in Nat
    <3>1. \A a \in Range(heard) : a \in Announcement
      BY <1>1 DEF Range
    <3> QED
      BY <3>1 DEF Announcement
  <2>5. LastRecv(VaultOf[p], ann[p].key) \in Nat
    BY DEF LastRecv
  <2>6. \A a \in Range(heard) :
          a.vault = VaultOf[p] /\ a.key = ann[p].key => a.seq < ann[p].seq
    BY <2>1, <2>2, <2>3, <2>4, <2>5 DEF HeardUpTo
  <2>7. AloneInv(p)'
    BY <1>1, <2>1, <2>2, <2>6 DEF AloneInv, Saving
  <2>8. ASSUME NEW k \in Keys
        PROVE  HeardUpTo(VaultOf[p], k, LastRecv(VaultOf[p], k))'
    <3>1. CASE k = ann[p].key
      <4>1. LastRecv(VaultOf[p], k)' = ann[p].seq
        BY <1>1, <2>1, <2>2, <3>1 DEF LastRecv
      <4> QED
        BY <2>1, <2>2, <2>4, <2>6, <3>1, <4>1 DEF HeardUpTo
    <3>2. CASE k # ann[p].key
      <4>1. file'[<<VaultOf[p], k>>] = file[<<VaultOf[p], k>>]
        BY <1>1, <2>1, <2>2, <3>2
      <4> QED
        BY <2>2, <4>1, OrderStays
    <3> QED
      BY <3>1, <3>2
  <2> QED
    BY <1>1, <2>2, <2>7, <2>8 DEF FeedStep
<1>7. CASE Accept(p)
  <2>1. /\ name[p] = <<VaultOf[p], ann[p].key>> /\ ann[p] \in said /\ ann[p] \in Announcement
        /\ rec[p] = ann[p].seq /\ ann[p].seq \in Nat
        /\ ann[p].vault = VaultOf[p] /\ ann[p].key \in Keys
    BY <1>7, ListenerHolds DEF Accept
  <2>2. /\ pc[p] = "saved" /\ pc'[p] = "idle" /\ UNCHANGED file
        /\ heard' = Append(heard, ann[p])
    BY <1>1, <1>7 DEF Accept, Stop, Goto, files
  <2>3. Range(heard') = Range(heard) \cup {ann[p]}
    BY <1>1, <2>1, <2>2, HeardIsSet
  <2>4. /\ file[name[p]] = rec[p]
        /\ \A a \in Range(heard) :
             a.vault = ann[p].vault /\ a.key = ann[p].key => a.seq < ann[p].seq
    BY <1>1, <2>2 DEF AloneInv
  <2>5. AloneInv(p)'
    BY <2>2 DEF AloneInv, Saving
  <2>6. ASSUME NEW k \in Keys
        PROVE  HeardUpTo(VaultOf[p], k, LastRecv(VaultOf[p], k))'
    <3>1. HeardUpTo(VaultOf[p], k, LastRecv(VaultOf[p], k))
      BY DEF FeedInv, OrderInv
    <3>2. LastRecv(VaultOf[p], k)' = LastRecv(VaultOf[p], k)
      BY <2>2 DEF LastRecv
    <3>3. k = ann[p].key => LastRecv(VaultOf[p], k) = ann[p].seq
      BY <2>1, <2>4 DEF LastRecv
    <3> QED
      BY <2>1, <2>3, <3>1, <3>2, <3>3 DEF HeardUpTo
  <2>7. Feed!Hear
    <3>1. \A a \in Range(heard) :
            a.vault = ann[p].vault /\ a.key = ann[p].key => ann[p].seq > a.seq
      BY <1>1, <2>1, <2>4 DEF Range, Announcement
    <3>2. Feed!Newer(ann[p], {heard[i] : i \in DOMAIN heard})
      BY <3>1 DEF Range, Feed!Newer, Feed!SameFeed
    <3> QED
      BY <1>1, <2>1, <2>2, <3>2 DEF Feed!Hear
  <2> QED
    BY <2>5, <2>6, <2>7 DEF FeedStep
<1> QED
  BY <1>2, <1>3, <1>4, <1>5, <1>6, <1>7, ListenerSteps

\* Whoever takes a step, announcements go out with rising numbers and only
\* what was announced is heard.
LEMMA FeedSays ==
  ASSUME OneSender, Inv, FeedInv, NEW p \in Senders, Step(p)
  PROVE  FeedStep
<1>1. p \in Procs /\ p \notin Listeners /\ SendInv(p) /\ HoldInv(p)
  BY Slots DEF Inv, Typed
<1>2. CASE Broadcast(p)
  <2>1. /\ ann[p] \in Announcement /\ said' = said \cup {ann[p]} /\ UNCHANGED heard
        /\ Pending(p) /\ \A a \in said : a \in Announcement
    BY <1>1, <1>2 DEF Broadcast, SendInv, Inv, Typed, LocalsOK, RestOK
  <2>2. \A a \in said : a.vault = ann[p].vault => ann[p].seq > a.seq
    BY <2>1 DEF Pending, Announcement
  <2>3. Feed!Newer(ann[p], said)
    BY <2>2 DEF Feed!Newer, Feed!SameFeed
  <2> QED
    BY <2>1, <2>3 DEF FeedStep, Feed!Say
<1>3. CASE ~Broadcast(p)
  BY <1>1, <1>3
  DEF FeedStep, Step, SendSteps, Open, Opened, NextAnnounceSeq, PersistPeers, EndSend,
      ListenSteps, Validate, Accept, OpenTmp, WriteTmp, Rename, Crash
<1> QED
  BY <1>2, <1>3

LEMMA SharedHears ==
  ASSUME Inv, FeedInv, NEW p \in Listeners, VaultOf[p] \notin Orderly, Step(p)
  PROVE  FeedStep
<1>1. said' = said
  BY ListenApart
<1>2. CASE Accept(p)
  <2>1. ann[p] \in said /\ ann[p].vault \notin Orderly /\ heard' = Append(heard, ann[p])
    BY <1>2, ListenerHolds DEF Accept
  <2> QED
    BY <1>1, <2>1 DEF FeedStep, Feed!Hear
<1>3. CASE ~Accept(p)
  BY <1>1, <1>3, ListenerSteps DEF FeedStep, Validate, OpenTmp, WriteTmp, Rename
<1> QED
  BY <1>2, <1>3

\* A listener holds an announcement for its vault only.
LEMMA ForStep ==
  ASSUME Inv, FeedInv, NEW p \in Procs, Step(p), NEW q \in Listeners
  PROVE  ForInv(q)'
<1>1. /\ q \in Procs /\ ForInv(q)
      /\ pc \in [Procs -> PCs] /\ ann \in [Procs -> Announcement \cup {None}]
  BY Slots DEF FeedInv, Inv, Typed, LocalsOK
<1>2. CASE q # p
  BY <1>1, <1>2, OthersKeep DEF ForInv, Inv
<1>3. CASE q = p
  BY <1>1, <1>3, ListenerSteps
  DEF ForInv, Stop, Goto, Validate, Save, OpenTmp, WriteTmp, Rename, Accept, locals
<1> QED
  BY <1>2, <1>3

LEMMA FeedSimulates ==
  ASSUME OneSender, Inv, FeedInv, [Next]_vars
  PROVE  FeedInv' /\ FeedStep
<1>0. \A q \in Listeners : VaultOf[q] \in Vaults
  BY HeadAnnounceAssumption
<1>1. CASE UNCHANGED vars
  <2>1. FeedStep /\ \A q \in Listeners : Untouched(q) /\ ForInv(q)'
    BY <1>1 DEF vars, files, locals, FeedStep, Untouched, SameVault, FeedInv, ForInv
  <2>2. \A q \in Listeners : VaultOf[q] \in Orderly => AloneInv(q)'
    BY <2>1, AloneStays DEF FeedInv
  <2>3. OrderInv'
    BY <1>1, OrderStays DEF vars, files, OrderInv
  <2> QED
    BY <2>1, <2>2, <2>3 DEF FeedInv
<1>2. ASSUME NEW p \in Procs, Step(p)
      PROVE  FeedInv' /\ FeedStep
  <2>1. \A q \in Listeners : ForInv(q)'
    BY <1>2, ForStep
  <2>2. \A q \in Listeners : VaultOf[q] \in Orderly /\ q # p => Untouched(q)
    BY <1>0, <1>2, OtherListeners DEF Orderly, Procs
  <2>3. \A q \in Listeners : VaultOf[q] \in Orderly /\ q # p => AloneInv(q)'
    BY <2>2, AloneStays DEF FeedInv
  <2>4. FeedStep /\ \A q \in Listeners : VaultOf[q] \in Orderly => AloneInv(q)'
    BY <1>2, <2>3, FeedSays, SharedHears, AloneStep DEF Procs
  <2>5. ASSUME NEW v \in Orderly, NEW k \in Keys
        PROVE  HeardUpTo(v, k, LastRecv(v, k))'
    <3>1. CASE p \in Listeners /\ VaultOf[p] = v
      BY <1>2, <3>1, AloneStep
    <3>2. CASE p \in Senders \/ VaultOf[p] # v
      <4>1. /\ file'[<<v, k>>] = file[<<v, k>>]
            /\ \A a \in Range(heard') : a.vault = v => a \in Range(heard)
        BY <1>2, <3>2, VaultStays DEF Orderly, SameVault
      <4> QED
        BY <4>1, OrderStays
    <3> QED
      BY <3>1, <3>2 DEF Procs
  <2> QED
    BY <2>1, <2>4, <2>5 DEF FeedInv, OrderInv
<1> QED
  BY <1>1, <1>2 DEF Next, Step

\* The number stored for an orderly vault is one that was announced.
StoredInv ==
  \A v \in Orderly, k \in Keys : file[<<v, k>>] \in Nat =>
    \E a \in said : a.vault = v /\ a.key = k /\ a.seq = file[<<v, k>>]

\* A lone listener renames the file that it has written, with the number of
\* the announcement it holds.
LEMMA LoneRename ==
  ASSUME Inv, FeedInv, NEW p \in Listeners, VaultOf[p] \in Orderly, Step(p),
         NEW k \in Keys
  PROVE  \/ file'[<<VaultOf[p], k>>] = file[<<VaultOf[p], k>>]
         \/ \E a \in said : /\ a.vault = VaultOf[p] /\ a.key = k
                            /\ a.seq = file'[<<VaultOf[p], k>>]
<1>1. p \in Procs /\ AloneInv(p) /\ DOMAIN file = Files
  BY Slots DEF Inv, Typed, FilesOK, FeedInv
<1>2. CASE Rename(p) /\ tmp[name[p]] # None
  <2>1. pc[p] = "rename" /\ file' = [file EXCEPT ![name[p]] = tmp[name[p]]]
    BY <1>2 DEF Rename
  <2>2. /\ ann[p] \in said /\ ann[p].vault = VaultOf[p] /\ rec[p] = ann[p].seq
        /\ name[p] = <<VaultOf[p], ann[p].key>> /\ name[p] \in Files
    BY <2>1, ListenerHolds
  <2>3. file'[name[p]] = ann[p].seq
    BY <1>1, <2>1, <2>2 DEF AloneInv
  <2>4. CASE k = ann[p].key
    BY <2>2, <2>3, <2>4
  <2>5. CASE k # ann[p].key
    BY <1>1, <2>1, <2>2, <2>5
  <2> QED
    BY <2>4, <2>5
<1>3. CASE OpenTmp(p) \/ WriteTmp(p)
  <2>1. pc[p] # "idle" /\ (WriteTmp(p) => at[p] = "tmp")
    BY <1>1, <1>3 DEF OpenTmp, WriteTmp, AloneInv
  <2> QED
    BY <1>3, <2>1 DEF OpenTmp, WriteTmp
<1>4. CASE ~(Rename(p) /\ tmp[name[p]] # None) /\ ~OpenTmp(p) /\ ~WriteTmp(p)
  BY <1>4, ListenerSteps DEF Validate, Accept, files
<1> QED
  BY <1>2, <1>3, <1>4

LEMMA StoredStep ==
  ASSUME Inv, FeedInv, StoredInv, [Next]_vars
  PROVE  StoredInv'
<1>1. CASE UNCHANGED vars
  BY <1>1 DEF vars, files, StoredInv
<1>2. ASSUME NEW p \in Procs, Step(p)
      PROVE  StoredInv'
  <2>1. said \subseteq said'
    BY <1>2 DEF Step, SendSteps, Open, Opened, NextAnnounceSeq, Broadcast, PersistPeers, EndSend,
                ListenSteps, Validate, Accept, OpenTmp, WriteTmp, Rename, Crash
  <2>2. ASSUME NEW v \in Orderly, NEW k \in Keys
        PROVE  \/ file'[<<v, k>>] = file[<<v, k>>]
               \/ \E a \in said : a.vault = v /\ a.key = k /\ a.seq = file'[<<v, k>>]
    <3>1. CASE p \in Listeners /\ VaultOf[p] = v
      BY <1>2, <3>1, LoneRename
    <3>2. CASE p \in Senders \/ VaultOf[p] # v
      BY <1>2, <3>2, VaultStays DEF Orderly, SameVault
    <3> QED
      BY <3>1, <3>2 DEF Procs
  <2>3. ASSUME NEW v \in Orderly, NEW k \in Keys, file'[<<v, k>>] \in Nat
        PROVE  \E a \in said' : a.vault = v /\ a.key = k /\ a.seq = file'[<<v, k>>]
    BY <2>1, <2>2, <2>3 DEF StoredInv
  <2> QED
    BY <2>3 DEF StoredInv
<1> QED
  BY <1>1, <1>2 DEF Next, Step

LEMMA FeedStarts == Init => FeedInv /\ Feed!Init
BY DEF Init, FeedInv, OrderInv, HeardUpTo, ForInv, AloneInv, Saving, Range, Procs, Feed!Init

\* With one command at a time, the two homes implement the ordered feed: each
\* announcement has a number above all that its node has made for the vault,
\* only announcements are accepted, and a process that listens for a vault
\* alone accepts those of a node in the order of their numbers, however gossip
\* loses, repeats and reorders them and whoever is killed in the middle of a
\* save.
THEOREM FeedIsOrdered ==
  ASSUME OneSender
  PROVE  Spec => ImplementsFeed
<1>1. Inv /\ FeedInv /\ [Next]_vars => Inv' /\ FeedInv' /\ FeedStep
  BY FeedSimulates, InvStep
<1>2. FeedStep => [Feed!Say \/ Feed!Hear]_<<said, heard>>
  BY DEF FeedStep
<1> QED
  BY <1>1, <1>2, FeedStarts, InvInit, PTL DEF Spec, ImplementsFeed, Feed!Spec

\* With one command at a time, for a vault that one process at most listens
\* for, the number in node.json is at least the one that is stored, whoever
\* was killed and whatever gossip has lost: the next announcement gets past
\* the replay check.
THEOREM Fresh ==
  ASSUME OneSender
  PROVE  Spec => []NextIsFresh
<1>1. ASSUME Inv, StoredInv, HasNode, NEW v \in Orderly
      PROVE  LastRecv(v, Node.key) <= Node.seq[v]
  <2>1. v \in Vaults /\ Node \in NodeState /\ Node.key \in Keys /\ Node.seq[v] \in Nat
    BY <1>1, NodeIsState DEF Orderly, Inv, Typed, NodeState
  <2>2. CASE file[<<v, Node.key>>] \in Nat
    <3>1. PICK a \in said : a.vault = v /\ a.key = Node.key /\ a.seq = file[<<v, Node.key>>]
      BY <1>1, <2>1, <2>2 DEF StoredInv
    <3> QED
      BY <1>1, <2>2, <3>1 DEF Inv, NodeInv, LastRecv
  <2>3. CASE file[<<v, Node.key>>] \notin Nat
    BY <2>1, <2>3 DEF LastRecv
  <2> QED
    BY <2>2, <2>3
<1>2. Inv /\ StoredInv => NextIsFresh
  BY <1>1 DEF NextIsFresh
<1>3. Init => StoredInv
  BY SomeNames DEF Init, StoredInv, Orderly
<1>4. Inv /\ FeedInv /\ StoredInv /\ [Next]_vars => Inv' /\ FeedInv' /\ StoredInv'
  BY FeedSimulates, InvStep, StoredStep
<1> QED
  BY <1>2, <1>3, <1>4, FeedStarts, InvInit, PTL DEF Spec
=============================================================================
