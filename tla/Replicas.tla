------------------------------ MODULE Replicas ------------------------------
(***************************************************************************)
(* Who has what (src/src/replication.rs, health.rs).  Commands that pin    *)
(* the live chunks in pins.json, note in peer_have.json what nodes have,   *)
(* and save both through a temporary file of one name; the estimate of the *)
(* number of replicas; the order in which a sync tries its peers; and what *)
(* the health report makes of a damaged vault.                             *)
(*                                                                         *)
(* A commit is a number, and adds one chunk to those of its parent.  How   *)
(* commits are stored and fetched is in modules Vault and SyncEngine: here *)
(* that takes one step.  Syncs are plain (no --merge).                     *)
(***************************************************************************)
EXTENDS Naturals, Integers, Sequences, FiniteSets

CONSTANTS Workers,       \* the processes that run commands
          NameOrder,     \* the peers, in the order of their names
          Self,          \* the own node id
          Preferred,     \* policy.prefer_nodes
          MinReplicas,   \* config.min_replicas
          MaxHeadAge,    \* policy.max_head_age_secs, 0 for none
          Unit,          \* seconds per tick of the clock
          Torn, NoDraft, \* a file that does not parse; no temporary file
          Never,         \* no time
          MaxCommits, MaxHeard, MaxNow, MaxDamage  \* bounds

Peers == {NameOrder[i] : i \in 1 .. Len(NameOrder)}
Holders == Peers \cup {Self}
Objects == {"commit", "tree", "chunk"} \X (1 .. MaxCommits)
RecordFiles == {"pins", "have"}
Contents == SUBSET (Holders \X Objects)

ASSUME ReplicasAssumption ==
  /\ NameOrder \in Seq(Peers)
  /\ Self \notin Peers /\ Preferred \subseteq Peers
  /\ MinReplicas \in Nat \ {0} /\ MaxHeadAge \in Nat /\ Unit \in Nat \ {0}
  /\ {MaxCommits, MaxHeard, MaxNow, MaxDamage} \subseteq Nat
  /\ Torn # NoDraft /\ \A c \in Contents : c # Torn /\ c # NoDraft
  /\ Never \notin Nat

VARIABLES parents,       \* parents[n]: the parent of commit n, 0 for none
          dated,         \* dated[n]: its timestamp
          tip,           \* HEAD, 0 for none
          tips,          \* the heads file
          disk,          \* the objects in the vault
          records,       \* pins.json and peer_have.json: who has what
          drafts,        \* their temporary files
          todo,          \* per worker: the steps of its command
          at,            \* per worker: "load", "truncate", "fill", "rename"
          mine,          \* per worker: the content it will save
          fd,            \* per worker: where the file it has opened is now
          provided,      \* commits provided to the network
          pulled,        \* per peer: commits it has with their history
          now,           \* the clock, in ticks
          seen, alive,   \* peer_health.json: last_seen and alive
          damaged,       \* losses so far
          alone,         \* ghost: the worker's save is not overlapped
          crossed,       \* ghost: two commands have overlapped
          safe           \* ghost: what was saved without overlap

replicasVault == <<parents, dated, tip, tips, disk, damaged>>
replicasSaves == <<records, drafts, at, mine, fd, alone, safe>>
replicasPeers == <<provided, pulled, seen, alive>>
replicasVars == <<replicasVault, replicasSaves, todo, replicasPeers, now, crossed>>

ReplicasInit ==
  /\ parents = <<>> /\ dated = <<>> /\ tip = 0 /\ tips = {} /\ disk = {}
  /\ damaged = 0
  /\ records = [f \in RecordFiles |-> {}]
  /\ drafts = [f \in RecordFiles |-> NoDraft]
  /\ todo = [w \in Workers |-> <<>>]
  /\ at = [w \in Workers |-> "load"]
  /\ mine = [w \in Workers |-> {}]
  /\ fd = [w \in Workers |-> "none"]
  /\ provided = {} /\ pulled = [p \in Peers |-> {}]
  /\ now = 0
  /\ seen = [p \in Peers |-> Never] /\ alive = [p \in Peers |-> "unknown"]
  /\ alone = [w \in Workers |-> FALSE] /\ crossed = FALSE
  /\ safe = [f \in RecordFiles |-> {}]

-----------------------------------------------------------------------------
(* Commits and what they need                                              *)

\* n and its ancestors.
Line(n) ==
  LET line[k \in 0 .. Len(parents)] ==
        IF k = 0 THEN {} ELSE {k} \cup line[parents[k]]
  IN line[n]

ChunksIn(n) == {<<"chunk", k>> : k \in Line(n)}
ObjectsOf(n) == {<<"commit", n>>, <<"tree", n>>} \cup ChunksIn(n)
DagOf(n) == UNION {ObjectsOf(k) : k \in Line(n)}

\* is_complete
Whole(n) == ObjectsOf(n) \subseteq disk

\* The commits a walk from n gets to: a commit that is not on disk ends it.
Reached(n) ==
  LET reached[k \in 0 .. Len(parents)] ==
        IF <<"commit", k>> \notin disk THEN {}
        ELSE {k} \cup reached[parents[k]]
  IN reached[n]

\* live_chunk_hashes, from HEAD and the heads file.
Live ==
  UNION {ChunksIn(k) : k \in {j \in UNION {Reached(n) : n \in tips \cup {tip}} :
                                <<"tree", j>> \in disk}}

\* collect_provide_hashes
Providable ==
  UNION {{<<"commit", k>>} \cup
         (IF <<"tree", k>> \in disk THEN ObjectsOf(k) \cap disk ELSE {}) :
           k \in Reached(tip)}

-----------------------------------------------------------------------------
(* Commands                                                                *)

Pin(strict) == [do |-> "pin", of |-> Self, head |-> 0, strict |-> strict]
Note(node, n, strict) ==
  [do |-> "note", of |-> node, head |-> n, strict |-> strict]
Provide == [do |-> "provide", of |-> Self, head |-> 0, strict |-> TRUE]
Fetch(n) == [do |-> "fetch", of |-> Self, head |-> n, strict |-> FALSE]

\* replicate_head: the node notes itself.
ReplicateSteps == <<Pin(TRUE), Note(Self, 0, TRUE), Provide>>

\* Commands::Sync: what was heard is noted first, then each head is fetched.
SyncSteps(heard) ==
  LET Notes == [i \in DOMAIN heard |-> Note(heard[i].node, heard[i].head, FALSE)]
      Fetches[i \in 0 .. Len(heard)] ==
        IF i = 0 THEN <<>>
        ELSE IF \E j \in 1 .. i - 1 : heard[j].head = heard[i].head
        THEN Fetches[i - 1]
        ELSE Fetches[i - 1] \o <<Fetch(heard[i].head), Pin(FALSE)>>
  IN Notes \o Fetches[Len(heard)]

Working(w) == todo[w] # <<>>
Others(w) == \E v \in Workers \ {w} : Working(v)

Start(w, steps) ==
  /\ ~Working(w)
  /\ todo' = [todo EXCEPT ![w] = steps]
  /\ at' = [at EXCEPT ![w] = "load"]
  /\ fd' = [fd EXCEPT ![w] = "none"]
  /\ alone' = [v \in Workers |-> FALSE]
  /\ crossed' = (crossed \/ Others(w))
  /\ UNCHANGED <<records, drafts, mine, safe, replicasPeers, now>>

\* `soal add`
Add(w) ==
  /\ Len(parents) < MaxCommits
  /\ tip # 0 => {<<"commit", tip>>, <<"tree", tip>>} \subseteq disk
  /\ LET n == Len(parents) + 1
     IN /\ parents' = Append(parents, tip) /\ dated' = Append(dated, now)
        /\ disk' = disk \cup {<<"commit", n>>, <<"tree", n>>, <<"chunk", n>>}
        /\ tip' = n
  /\ Start(w, <<Pin(FALSE)>>)
  /\ UNCHANGED <<tips, damaged>>

\* `soal replicate`, with and without --push
Replicate(w) ==
  /\ Start(w, ReplicateSteps) \/ Start(w, <<Pin(TRUE)>>)
  /\ UNCHANGED replicasVault

Hearings == [node : Peers, head : 1 .. Len(parents)]

\* `soal sync`
Sync(w, heard) ==
  /\ heard # <<>>
  /\ \A i \in DOMAIN heard : heard[i].head \in pulled[heard[i].node]
  /\ Start(w, SyncSteps(heard))
  /\ UNCHANGED replicasVault

-----------------------------------------------------------------------------
(* Steps.  An error of a strict step ends the command.                     *)

Current(w) == Head(todo[w])
RecordOf(w) == IF Current(w).do = "pin" THEN "pins" ELSE "have"
Saving(w) == Working(w) /\ Current(w).do \in {"pin", "note"}

Resume(w, steps) ==
  /\ todo' = [todo EXCEPT ![w] = steps]
  /\ at' = [at EXCEPT ![w] = "load"]
  /\ fd' = [fd EXCEPT ![w] = "none"]
  /\ mine' = [mine EXCEPT ![w] = {}]
Finish(w) == Resume(w, Tail(todo[w]))
Fail(w) == Resume(w, IF Current(w).strict THEN <<>> ELSE Tail(todo[w]))

\* What ensure_local_pins and note_peer_has add.
Added(w) ==
  CASE Current(w).do = "pin" -> {Self} \X Live
    [] Current(w).of = Self -> {Self} \X Providable
    [] OTHER -> {<<Current(w).of, <<"commit", Current(w).head>>>>}

\* Mutant of NewRecord: the entry of the node is replaced.
BugReplaceEntry(w) ==
  IF Saving(w) /\ Current(w).do = "note"
  THEN {e \in records["have"] : e[1] # Current(w).of} \cup Added(w)
  ELSE records[RecordOf(w)] \cup Added(w)

\* The sets only grow.
NewRecord(w) == records[RecordOf(w)] \cup Added(w)

\* replicate_head of a vault without HEAD has nothing to note and provide.
LoadRecord(w) ==
  /\ Saving(w) /\ at[w] = "load"
  /\ \/ /\ Current(w).do = "note" /\ Current(w).of = Self /\ tip = 0
        /\ Resume(w, <<>>) /\ UNCHANGED alone
     \/ /\ ~(Current(w).do = "note" /\ Current(w).of = Self /\ tip = 0)
        /\ records[RecordOf(w)] = Torn
        /\ Fail(w) /\ UNCHANGED alone
     \/ /\ ~(Current(w).do = "note" /\ Current(w).of = Self /\ tip = 0)
        /\ records[RecordOf(w)] # Torn
        /\ mine' = [mine EXCEPT ![w] = NewRecord(w)]
        /\ at' = [at EXCEPT ![w] = "truncate"]
        /\ alone' = [alone EXCEPT ![w] = ~Others(w)]
        /\ UNCHANGED <<todo, fd>>
  /\ UNCHANGED <<replicasVault, records, drafts, safe, replicasPeers, now, crossed>>

\* fs::write empties the temporary file ...
OpenDraft(w) ==
  /\ Saving(w) /\ at[w] = "truncate"
  /\ drafts' = [drafts EXCEPT ![RecordOf(w)] = Torn]
  /\ fd' = [fd EXCEPT ![w] = "draft"]
  /\ at' = [at EXCEPT ![w] = "fill"]
  /\ UNCHANGED <<replicasVault, records, mine, alone, safe, todo, replicasPeers,
                 now, crossed>>

\* What a file holds after w has written to it: another may have written there
\* since w has emptied it, and the longer text shows at the end.
Filled(w, file) == IF file = Torn THEN {mine[w]} ELSE {mine[w], Torn}

\* ... and fills it, wherever it is by now ...
FillDraft(w) ==
  /\ Saving(w) /\ at[w] = "fill"
  /\ LET f == RecordOf(w)
     IN \/ /\ fd[w] = "draft"
           /\ \E c \in Filled(w, drafts[f]) : drafts' = [drafts EXCEPT ![f] = c]
           /\ UNCHANGED records
        \/ /\ fd[w] = "record"
           /\ \E c \in Filled(w, records[f]) : records' = [records EXCEPT ![f] = c]
           /\ UNCHANGED drafts
        \/ fd[w] = "gone" /\ UNCHANGED <<records, drafts>>
  /\ at' = [at EXCEPT ![w] = "rename"]
  /\ UNCHANGED <<replicasVault, mine, fd, alone, safe, todo, replicasPeers, now,
                 crossed>>

\* ... and what has its name is renamed.
RenameDraft(w) ==
  /\ Saving(w) /\ at[w] = "rename"
  /\ LET f == RecordOf(w)
         Moved(v) == Saving(v) /\ RecordOf(v) = f /\ at[v] \in {"fill", "rename"}
     IN \/ /\ drafts[f] # NoDraft
           /\ records' = [records EXCEPT ![f] = drafts[f]]
           /\ drafts' = [drafts EXCEPT ![f] = NoDraft]
           /\ fd' = [v \in Workers |->
                       IF v = w THEN "none"
                       ELSE IF ~Moved(v) THEN fd[v]
                       ELSE IF fd[v] = "draft" THEN "record" ELSE "gone"]
           /\ safe' = IF alone[w] THEN [safe EXCEPT ![f] = @ \cup mine[w]] ELSE safe
           /\ todo' = [todo EXCEPT ![w] = Tail(@)]
           /\ at' = [at EXCEPT ![w] = "load"]
           /\ mine' = [mine EXCEPT ![w] = {}]
        \/ /\ drafts[f] = NoDraft
           /\ Fail(w)
           /\ UNCHANGED <<records, drafts, safe>>
  /\ UNCHANGED <<replicasVault, alone, replicasPeers, now, crossed>>

\* provide_from_vault, which may fail, and the announcement, which may not
\* arrive.
ProvideHead(w) ==
  /\ Working(w) /\ Current(w).do = "provide"
  /\ \/ Finish(w) /\ provided' = provided \cup Reached(tip)
     \/ Fail(w) /\ UNCHANGED provided
  /\ UNCHANGED <<replicasVault, records, drafts, alone, safe, pulled, seen, alive,
                 now, crossed>>

\* fetch_dag and set_head_public; a fetch that fails may leave some objects.
FetchHead(w) ==
  /\ Working(w) /\ Current(w).do = "fetch"
  /\ LET n == Current(w).head
     IN \/ /\ disk' = IF Whole(n) THEN disk ELSE disk \cup DagOf(n)
           /\ tip' = n /\ tips' = tips \cup {n}
           /\ Finish(w)
        \/ /\ ~Whole(n)
           /\ \E got \in SUBSET (ObjectsOf(n) \ disk) :
                got # ObjectsOf(n) \ disk /\ disk' = disk \cup got
           \* the pin that would follow is left out
           /\ Resume(w, Tail(Tail(todo[w])))
           /\ UNCHANGED <<tip, tips>>
  /\ UNCHANGED <<parents, dated, damaged, records, drafts, alone, safe,
                 replicasPeers, now, crossed>>

KillWorker(w) ==
  /\ Working(w)
  /\ Resume(w, <<>>)
  /\ UNCHANGED <<replicasVault, records, drafts, alone, safe, replicasPeers, now,
                 crossed>>

-----------------------------------------------------------------------------
(* What happens around the commands                                        *)

\* A peer fetches a provided commit and its history.
PeerPulls(p, n) ==
  /\ n \in provided /\ n \notin pulled[p]
  /\ pulled' = [pulled EXCEPT ![p] = @ \cup Line(n)]
  /\ UNCHANGED <<replicasVault, replicasSaves, todo, provided, seen, alive, now,
                 crossed>>

\* probe_peer
Probe(p, answers) ==
  /\ alive' = [alive EXCEPT ![p] = IF answers THEN "alive" ELSE "dead"]
  /\ seen' = IF answers THEN [seen EXCEPT ![p] = now] ELSE seen
  /\ UNCHANGED <<replicasVault, replicasSaves, todo, provided, pulled, now, crossed>>

\* The disk loses a file of the vault.
Damage(o) ==
  /\ damaged < MaxDamage /\ o \in disk
  /\ disk' = disk \ {o} /\ damaged' = damaged + 1
  /\ UNCHANGED <<parents, dated, tip, tips, replicasSaves, todo, replicasPeers, now,
                 crossed>>

TimePasses ==
  /\ now < MaxNow /\ now' = now + 1
  /\ UNCHANGED <<replicasVault, replicasSaves, todo, replicasPeers, crossed>>

ReplicasNext ==
  \/ \E w \in Workers :
       \/ Add(w) \/ Replicate(w)
       \/ \E k \in 1 .. MaxHeard : \E heard \in [1 .. k -> Hearings] : Sync(w, heard)
       \/ LoadRecord(w) \/ OpenDraft(w) \/ FillDraft(w) \/ RenameDraft(w)
       \/ ProvideHead(w) \/ FetchHead(w) \/ KillWorker(w)
  \/ \E p \in Peers :
       \/ \E n \in 1 .. MaxCommits : PeerPulls(p, n)
       \/ \E answers \in BOOLEAN : Probe(p, answers)
  \/ \E o \in Objects : Damage(o)
  \/ TimePasses

ReplicasSpec == ReplicasInit /\ [][ReplicasNext]_replicasVars

-----------------------------------------------------------------------------
(* Reports                                                                 *)

\* load_have: a file that does not parse is an empty one.
Have == IF records["have"] = Torn THEN {} ELSE records["have"]

\* estimated_replicas
Estimate(o) ==
  (IF o \in disk THEN 1 ELSE 0) + Cardinality({n \in Holders : <<n, o>> \in Have})

\* under_replicated_chunks
UnderReplicated == {c \in Live : Estimate(c) < MinReplicas}

\* Mutant of Freshness: the age counts without limit.
BugNoFloor(p) ==
  IF seen[p] = Never THEN -20 ELSE 100 - (((now - seen[p]) * Unit) \div 36)

\* rank_peers: the age of the last answer, from 100 down to -100.
Freshness(p) ==
  IF seen[p] = Never THEN -20
  ELSE LET ago == ((now - seen[p]) * Unit) \div 36
       IN 100 - (IF ago > 200 THEN 200 ELSE ago)

Score(p) ==
  (IF p \in Preferred THEN 1000 ELSE 0)
    + Freshness(p)
    + (CASE alive[p] = "alive" -> 200 [] alive[p] = "dead" -> -300 [] OTHER -> 0)
    + (IF <<p, <<"commit", tip>>>> \in Have THEN 50 ELSE 0)

\* Whether the i-th peer by name goes before the j-th.
Ahead(i, j) ==
  LET si == Score(NameOrder[i])
      sj == Score(NameOrder[j])
  IN si > sj \/ (si = sj /\ i < j)

\* ordered_peers_for_sync: all of them, in that order.
PeerOrder ==
  LET places == 1 .. Len(NameOrder)
      ranked == CHOOSE r \in [places -> places] :
                  /\ \A i \in places : \E k \in places : r[k] = i
                  /\ \A k, m \in places : k < m => Ahead(r[k], r[m])
  IN [k \in places |-> NameOrder[ranked[k]]]

Worst(levels) ==
  IF "crit" \in levels THEN "crit" ELSE IF "warn" \in levels THEN "warn" ELSE "ok"

\* Mutant of VaultLevel: the report looks at HEAD only.
BugHeadOnly(signed) ==
  IF tip # 0 /\ ~({<<"commit", tip>>, <<"tree", tip>>} \subseteq disk) THEN "error"
  ELSE IF tip # 0 /\ ~Whole(tip) THEN "crit" ELSE "ok"

\* assess_vault; it fails if HEAD cannot be loaded.
VaultLevel(signed) ==
  IF tip # 0 /\ ~({<<"commit", tip>>, <<"tree", tip>>} \subseteq disk) THEN "error"
  ELSE Worst(
    {IF tip = 0 THEN "warn" ELSE IF Whole(tip) THEN "ok" ELSE "crit",
     IF tip # 0 /\ MaxHeadAge > 0 /\ (now - dated[tip]) * Unit > MaxHeadAge
       THEN "warn" ELSE "ok",
     IF Live \subseteq disk THEN "ok" ELSE "crit",
     IF UnderReplicated # {} /\ MinReplicas > 1 THEN "warn" ELSE "ok",
     IF signed THEN "ok" ELSE "warn",
     IF Cardinality((tips \cup {tip}) \ {0}) > 1 THEN "warn" ELSE "ok"})

\* assess_cluster_with_peers, of one vault: it may not open without its
\* passphrase, and records that do not load are an error.
ClusterLevel(opens, signed) ==
  Worst(
    {IF ~opens THEN "warn"
     ELSE IF VaultLevel(signed) = "error" \/ records["pins"] = Torn THEN "crit"
     ELSE VaultLevel(signed),
     IF Peers = {} \/ \E p \in Peers : alive[p] = "dead" THEN "warn" ELSE "ok"})

-----------------------------------------------------------------------------
ReplicasTypeOK ==
  /\ parents \in Seq(Nat) /\ Len(parents) <= MaxCommits
  /\ \A n \in DOMAIN parents : parents[n] < n
  /\ dated \in Seq(Nat) /\ Len(dated) = Len(parents)
  /\ tip \in 0 .. Len(parents) /\ tips \subseteq 1 .. Len(parents)
  /\ disk \subseteq Objects /\ damaged \in 0 .. MaxDamage
  /\ \A f \in RecordFiles : /\ records[f] = Torn \/ records[f] \in Contents
                            /\ drafts[f] \in {Torn, NoDraft} \/ drafts[f] \in Contents
                            /\ safe[f] \in Contents
  /\ todo \in [Workers -> Seq([do : {"pin", "note", "provide", "fetch"}, of : Holders,
                               head : 0 .. MaxCommits, strict : BOOLEAN])]
  /\ at \in [Workers -> {"load", "truncate", "fill", "rename"}]
  /\ mine \in [Workers -> Contents]
  /\ fd \in [Workers -> {"none", "draft", "record", "gone"}]
  /\ alone \in [Workers -> BOOLEAN] /\ crossed \in BOOLEAN
  /\ provided \subseteq 1 .. Len(parents)
  /\ pulled \in [Peers -> SUBSET (1 .. Len(parents))]
  /\ now \in Nat /\ seen \in [Peers -> Nat \cup {Never}]
  /\ alive \in [Peers -> {"unknown", "alive", "dead"}]

\* Pins and notes saved by a command that ran alone stay, whatever commands
\* overlap or are killed later, unless the file as a whole stops to parse; and
\* that takes two commands at once.
NotedStays ==
  \A f \in RecordFiles :
    IF records[f] = Torn THEN crossed ELSE safe[f] \subseteq records[f]

\* A sync tries every peer the policy prefers before any other, dead or alive,
\* and of the rest the ones that answered the last probe before the ones that
\* did not, however old the answers are.
PreferredFirst ==
  LET order == PeerOrder
  IN \A i, j \in DOMAIN order :
       LET p == order[i]  q == order[j]
       IN \/ q \in Preferred /\ p \notin Preferred
          \/ /\ (q \in Preferred <=> p \in Preferred)
             /\ alive[q] = "alive" /\ alive[p] = "dead"
          => j < i

\* The cluster report is critical as long as HEAD, or a commit of its history
\* or of another head that the walk still gets to and whose tree is there,
\* cannot be restored.
LossIsCritical ==
  \/ ~Whole(tip) /\ tip # 0
  \/ \E n \in UNION {Reached(k) : k \in tips \cup {tip}} :
       <<"tree", n>> \in disk /\ ~Whole(n)
  => \A signed \in BOOLEAN : ClusterLevel(TRUE, signed) = "crit"

\* replication.rs: "Estimate replica count for a CID: local + peers who
\* announced it".  No more replicas are counted than there are nodes with the
\* object.  A replicate --push notes the own node, and counts it twice.
EstimateCountsNodes ==
  \A o \in Objects :
    Estimate(o) <= Cardinality({p \in Peers : \E n \in pulled[p] : o \in ObjectsOf(n)})
                     + 1
=============================================================================
