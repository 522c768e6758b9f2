------------------------------ MODULE MCParts -------------------------------
(***************************************************************************)
(* The parts of the program that work on files of their own: the merge     *)
(* loop, the watcher, the scheduler with the snapshot registry, the files  *)
(* that make a vault, the replica records, and the wire formats.  None of  *)
(* them reads what another writes here, so one run checks them all: a      *)
(* behaviour is one of one part, chosen at the start, and the others stay  *)
(* as they begin.                                                          *)
(*                                                                         *)
(* The bounds on what two commands do at once are here: the modules'       *)
(* next-state relations have none.                                         *)
(***************************************************************************)
EXTENDS MergeLoop, Watch, Upkeep, VaultConfig, Replicas, Wire

CONSTANTS Scenes, a, b, ac, bc, k1, k2, k3, n1, i1, p1, p2, wk1, wk2

VARIABLE scene

-----------------------------------------------------------------------------
(* Two files, a and b.  The conflict copy ac of a sorts before a (a name   *)
(* with an extension), the copy bc of b after b (one without).             *)

MCPaths == {a, b, ac, bc}
MCOrder == <<ac, a, b, bc>>
MCConflictPath ==
  [p \in MCPaths |-> CASE p = a -> ac [] p = b -> bc [] OTHER -> p]

\* Folders no merge has touched.
Fresh == {t \in Tree : t[ac] = NoFile /\ t[bc] = NoFile}

MCTerms == [i \in Invites |-> [seq |-> 2, members |-> {n1}, min |-> 1]]
MCNameOrder == <<p1, p2>>

-----------------------------------------------------------------------------
PartsInit ==
  /\ scene \in Scenes
  /\ Init
  /\ scene # "merge" => ours = EmptyTree /\ theirs = EmptyTree
  /\ WatchInit
  /\ UpkeepInit
  /\ ConfigInit
  /\ scene # "config" => ~legacy
  /\ ReplicasInit
  /\ IF scene = "wire" THEN WireInit
     ELSE object = [kind |-> "tree", value |-> <<>>] /\ wire = Encode(object) /\ edits = 0

\* A command takes less than a second.  Overlap is checked where the clock has
\* not been set and nothing killed before: of the two commands one may fail at
\* the rename of its log, and none starts after them.
UpkeepBound ==
  /\ clock' # clock => AtRest
  /\ overlapped' => resets' = 0 /\ (overlapped \/ ~cut')
  /\ overlapped =>
       /\ clock' = clock
       /\ \A p \in Runners : plan[p] = <<>> => plan'[p] = <<>>
       /\ ~cut' \/ cut \/ \E p \in Runners : wrote[p] = "rename" /\ wrote'[p] # "rename"

\* The last command overlaps none.
ConfigBound == together' => commands' < MaxCommands

Probed == now > 0 \/ \E p \in Peers : alive[p] # "unknown"

\* Two workers on a vault of one commit, where wk2 starts first what overlaps,
\* and wk1 nothing more after that; or one worker, and two commits and damage,
\* or two peers that are probed once the commands are over.
\* Only p1 pulls.
ReplicasBound ==
  /\ todo[wk2] = <<>> /\ todo'[wk2] # <<>> => todo[wk1] # <<>> \/ crossed
  /\ crossed => Len(todo'[wk1]) <= Len(todo[wk1])
  /\ todo'[wk2] # <<>> \/ crossed' => Len(parents') = 1 /\ damaged' = 0 /\ ~Probed'
  /\ Probed' => damaged' = 0 /\ Len(parents') <= 1
  /\ Probed' => todo'[wk1] = <<>>
  /\ pulled'[p2] = {}

Frozen(s, v) == IF scene = s THEN TRUE ELSE UNCHANGED v

PartsNext ==
  /\ \/ scene = "merge" /\ Step
     \/ scene = "watch" /\ WatchNext
     \/ scene = "upkeep" /\ UpkeepNext /\ UpkeepBound
     \/ scene = "config" /\ ConfigNext /\ ConfigBound
     \/ scene = "replicas" /\ ReplicasNext /\ ReplicasBound
     \/ scene = "wire" /\ WireNext
  /\ UNCHANGED scene
  /\ Frozen("merge", vars) /\ Frozen("watch", watchVars)
  /\ Frozen("upkeep", upkeepVars) /\ Frozen("config", configVars)
  /\ Frozen("replicas", replicasVars) /\ Frozen("wire", wireVars)

partsVars == <<scene, vars, watchVars, upkeepVars, configVars, replicasVars, wireVars>>

PartsSpec ==
  /\ PartsInit /\ [][PartsNext]_partsVars
  /\ WF_watchVars(scene = "watch" /\ LoopSteps)
  /\ WF_watchVars(scene = "watch" /\ WatchTick)

\* Every part keeps its types.
PartsTypeOK ==
  CASE scene = "merge" -> TypeOK
    [] scene = "watch" -> WatchTypeOK
    [] scene = "upkeep" -> UpkeepTypeOK
    [] scene = "config" -> ConfigTypeOK
    [] scene = "replicas" -> ReplicasTypeOK
    [] OTHER -> WireTypeOK
=============================================================================
