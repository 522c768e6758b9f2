------------------------------ MODULE Upkeep -------------------------------
(***************************************************************************)
(* Snapshots over time: `soal schedule` (src/src/schedule.rs) next to the  *)
(* snapshots a user takes, the registry file snapshots.json with the file  *)
(* steps of its updates, and the state file that remembers when the last   *)
(* automatic snapshot was (src/src/policy.rs).                             *)
(*                                                                         *)
(* The commits themselves are in module Vault: a snapshot here is a        *)
(* number.  The write of snapshots.json.tmp is one step; what happens when *)
(* two of those meet is in HeadAnnounce, which saves in the same way.  A   *)
(* tick also refreshes the local pins and collects garbage: what the first *)
(* writes is in Replicas, what the second deletes in Vault, and here they  *)
(* are steps that take their turn, the first of which may fail.            *)
(***************************************************************************)
EXTENDS Naturals, Sequences, FiniteSets

CONSTANTS Interval,      \* policy.snapshot_interval_secs, 0 for never
          Poll,          \* --every-secs
          KeepNewest,    \* policy.retain_snapshots, 0 for no pruning
          NoLog,         \* snapshots.json.tmp: no file
          MaxClock,      \* bounds on the clock, the snapshots made and the
          MaxMade,       \*   changes of the clock
          MaxResets

ASSUME UpkeepAssumption ==
  /\ Interval \in Nat /\ Poll \in Nat \ {0} /\ KeepNewest \in Nat
  /\ MaxClock \in Nat /\ MaxMade \in Nat /\ MaxResets \in Nat
  /\ NoLog \notin Seq(Nat)

Runners == {"scheduler", "user"}

VARIABLES registry,    \* snapshots.json, newest last
          regtmp,      \* snapshots.json.tmp
          lastAuto,    \* policy_state.json: last_auto_snapshot_at, 0 for never
          headed,      \* there is a HEAD
          made,        \* snapshots made so far
          clock,       \* the wall clock
          sleep,       \* ticks until run_for's next tick
          plan,        \* per process: the steps still to do
          wrote,       \* per process: "start", "write", "rename" of a log update
          mylog,       \* per process: the log it will save
          mysnap,      \* per process: the snapshot it has made
          stamp,       \* the time at which the tick began
          serving,     \* run_for runs
          resets,      \* changes of the clock so far
          entered,     \* ghost: all that was registered, in order, without overlap
          overlapped,  \* ghost: two updates have overlapped
          cut,         \* ghost: killed or failed since the last start from rest
          unsaved,     \* ghost: an automatic snapshot whose time is not saved
          elapsed,     \* ghost: real time since the last automatic snapshot
          waited,      \* ghost: real time the scheduler has gone without one
          ahead, behind  \* ghost: clock changes since lastAuto was saved

upkeepFiles == <<registry, regtmp, lastAuto>>
upkeepTime == <<clock, sleep, resets, elapsed, waited, ahead, behind>>
upkeepLocals == <<plan, wrote, mylog, mysnap, stamp, serving>>
upkeepGhosts == <<entered, overlapped, cut, unsaved>>
upkeepVars == <<upkeepFiles, headed, made, upkeepTime, upkeepLocals, upkeepGhosts>>

UpkeepInit ==
  /\ registry = <<>> /\ regtmp = NoLog /\ lastAuto = 0
  /\ headed = FALSE /\ made = 0 /\ clock = 1 /\ sleep = 0 /\ resets = 0
  /\ plan = [p \in Runners |-> <<>>]
  /\ wrote = [p \in Runners |-> "start"]
  /\ mylog = [p \in Runners |-> <<>>]
  /\ mysnap = [p \in Runners |-> 0]
  /\ stamp = 0
  /\ serving = FALSE
  /\ entered = <<>> /\ overlapped = FALSE /\ cut = FALSE /\ unsaved = FALSE
  /\ elapsed = 0 /\ waited = 0 /\ ahead = 0 /\ behind = 0

-----------------------------------------------------------------------------
(* What the commands do.  An error of a strict step ends the command, that *)
(* of another is ignored.                                                  *)

Do(step, strict) == [do |-> step, strict |-> strict]

\* Mutant of SnapshotSteps: the prune comes before the entry it must make room
\* for.
BugPruneFirst ==
  <<Do("commit", TRUE), Do("prune", FALSE), Do("register", FALSE)>>

\* Vault::snapshot.
SnapshotSteps == <<Do("commit", TRUE), Do("register", FALSE), Do("prune", FALSE)>>

\* run_tick, when a snapshot is due and when none is.  A tick that has neither
\* made a snapshot nor pruned leaves the gc out, which changes nothing here.
DueSteps ==
  SnapshotSteps \o <<Do("register", TRUE), Do("prune", TRUE), Do("save", TRUE),
                     Do("pins", TRUE), Do("prune", TRUE), Do("gc", FALSE)>>
NotDueSteps == <<Do("pins", TRUE), Do("prune", TRUE), Do("gc", FALSE)>>

\* force_auto_snapshot.
ForceSteps == SnapshotSteps \o <<Do("prune", TRUE), Do("save", TRUE)>>

Busy(p) == plan[p] # <<>>
AtRest == \A p \in Runners : ~Busy(p)

\* Mutants of SnapshotDue: a clock that went back makes it due; it is due only
\* after the interval.
BugDueWhenBack ==
  Interval > 0 /\ (lastAuto = 0 \/ clock < lastAuto \/ clock - lastAuto >= Interval)
BugDueLate ==
  Interval > 0 /\ (lastAuto = 0 \/ (clock > lastAuto /\ clock - lastAuto > Interval))

\* snapshot_due, with its saturating subtraction.
SnapshotDue ==
  /\ Interval > 0
  /\ lastAuto = 0 \/ (clock >= lastAuto /\ clock - lastAuto >= Interval)

Begin(p, steps) ==
  /\ ~Busy(p)
  /\ plan' = [plan EXCEPT ![p] = steps]
  /\ wrote' = [wrote EXCEPT ![p] = "start"]
  /\ overlapped' = (overlapped \/ ~AtRest)
  /\ cut' = (cut /\ ~AtRest)

\* `soal snapshot`, and `soal schedule --force` once there is a HEAD.
UserSnapshot ==
  /\ made < MaxMade
  /\ \/ Begin("user", SnapshotSteps)
     \/ headed /\ Begin("user", ForceSteps)
  /\ UNCHANGED <<upkeepFiles, headed, made, upkeepTime, mylog, mysnap, stamp,
                 serving, entered, unsaved>>

\* `soal add` gives the vault a HEAD.
UserAdd ==
  /\ ~headed /\ headed' = TRUE
  /\ UNCHANGED <<upkeepFiles, made, upkeepTime, upkeepLocals, upkeepGhosts>>

\* `soal schedule`: run_for ticks at once, then every Poll seconds.
StartScheduler ==
  /\ ~serving /\ ~Busy("scheduler")
  /\ serving' = TRUE /\ sleep' = 0 /\ waited' = 0
  /\ UNCHANGED <<upkeepFiles, headed, made, clock, resets, elapsed, ahead, behind,
                 plan, wrote, mylog, mysnap, stamp, upkeepGhosts>>

RunTick ==
  /\ serving /\ sleep = 0
  /\ SnapshotDue /\ headed => made < MaxMade
  /\ Begin("scheduler", IF SnapshotDue /\ headed THEN DueSteps ELSE NotDueSteps)
  /\ stamp' = IF SnapshotDue /\ headed THEN clock ELSE stamp
  /\ sleep' = Poll
  /\ UNCHANGED <<upkeepFiles, headed, made, clock, resets, elapsed, waited, ahead,
                 behind, mylog, mysnap, serving, entered, unsaved>>

\* run_for's duration is over.
EndScheduler ==
  /\ serving /\ ~Busy("scheduler")
  /\ serving' = FALSE
  /\ UNCHANGED <<upkeepFiles, headed, made, upkeepTime, plan, wrote, mylog, mysnap,
                 stamp, upkeepGhosts>>
-----------------------------------------------------------------------------
(* The steps                                                               *)

At(p, step) == Busy(p) /\ Head(plan[p]).do = step

\* The process goes on with what is left to do.
GoOn(p, steps) ==
  /\ plan' = [plan EXCEPT ![p] = steps]
  /\ wrote' = [wrote EXCEPT ![p] = "start"]
  /\ mylog' = [mylog EXCEPT ![p] = <<>>]
Advance(p) == GoOn(p, Tail(plan[p]))

\* The command ends before its time, and the scheduler with it.
Abort(p) ==
  /\ GoOn(p, <<>>)
  /\ serving' = (serving /\ p # "scheduler")
  /\ cut' = TRUE

Automatic(p) == Len(plan[p]) > Len(SnapshotSteps)

\* make_commit, save_commit and set_head.
CommitSnapshot(p) ==
  /\ At(p, "commit")
  /\ made' = made + 1
  /\ mysnap' = [mysnap EXCEPT ![p] = made']
  /\ headed' = TRUE
  /\ IF Automatic(p) THEN unsaved' = TRUE /\ elapsed' = 0
                     ELSE UNCHANGED <<unsaved, elapsed>>
  /\ Advance(p)
  /\ UNCHANGED <<upkeepFiles, clock, sleep, resets, waited, ahead, behind, stamp,
                 serving, entered, overlapped, cut>>

LogWithout(log, c) ==
  LET kept[i \in 0 .. Len(log)] ==
        IF i = 0 THEN <<>>
        ELSE IF log[i] = c THEN kept[i - 1] ELSE Append(kept[i - 1], log[i])
  IN kept[Len(log)]

\* Mutant of NewLog: the tip is not looked for.
BugNoDedupe(p) ==
  IF At(p, "register") THEN Append(registry, mysnap[p])
  ELSE IF KeepNewest = 0 \/ Len(registry) <= KeepNewest THEN registry
  ELSE SubSeq(registry, Len(registry) - KeepNewest + 1, Len(registry))

\* register_snapshot: the tip becomes the newest entry;
\* prune_snapshot_registry: the newest KeepNewest entries stay.
NewLog(p) ==
  IF At(p, "register")
  THEN Append(LogWithout(registry, mysnap[p]), mysnap[p])
  ELSE IF KeepNewest = 0 \/ Len(registry) <= KeepNewest THEN registry
  ELSE SubSeq(registry, Len(registry) - KeepNewest + 1, Len(registry))

\* load_snapshots; a prune with nothing to drop is over.
LoadLog(p) ==
  /\ At(p, "register") \/ At(p, "prune")
  /\ wrote[p] = "start"
  /\ IF At(p, "prune") /\ NewLog(p) = registry
     THEN Advance(p)
     ELSE /\ mylog' = [mylog EXCEPT ![p] = NewLog(p)]
          /\ wrote' = [wrote EXCEPT ![p] = "write"]
          /\ UNCHANGED plan
  /\ UNCHANGED <<upkeepFiles, headed, made, upkeepTime, mysnap, stamp, serving,
                 upkeepGhosts>>

\* save_snapshots: the temporary file, of one name for all processes ...
WriteLog(p) ==
  /\ wrote[p] = "write"
  /\ regtmp' = mylog[p]
  /\ wrote' = [wrote EXCEPT ![p] = "rename"]
  /\ UNCHANGED <<registry, lastAuto, headed, made, upkeepTime, plan, mylog, mysnap,
                 stamp, serving, upkeepGhosts>>

\* ... which another may have renamed by now, or replaced.
RenameLog(p) ==
  /\ wrote[p] = "rename"
  /\ \/ /\ regtmp # NoLog
        /\ registry' = regtmp /\ regtmp' = NoLog
        /\ entered' = IF overlapped THEN <<>>
                      ELSE IF At(p, "register")
                      THEN Append(LogWithout(entered, mysnap[p]), mysnap[p])
                      ELSE entered
        /\ Advance(p)
        /\ UNCHANGED <<serving, cut>>
     \/ /\ regtmp = NoLog
        /\ IF Head(plan[p]).strict THEN Abort(p)
                                   ELSE Advance(p) /\ UNCHANGED <<serving, cut>>
        /\ UNCHANGED <<registry, regtmp, entered>>
  /\ UNCHANGED <<lastAuto, headed, made, upkeepTime, mysnap, stamp, overlapped, unsaved>>

\* save_state, with the time the tick began, or the time by now of a forced one.
SaveState(p) ==
  /\ At(p, "save")
  /\ lastAuto' = IF p = "scheduler" THEN stamp ELSE clock
  /\ stamp' = IF p = "scheduler" THEN 0 ELSE stamp
  /\ unsaved' = FALSE
  /\ waited' = 0 /\ ahead' = 0 /\ behind' = 0
  /\ Advance(p)
  /\ UNCHANGED <<registry, regtmp, headed, made, clock, sleep, resets, elapsed,
                 mysnap, serving, entered, overlapped, cut>>

\* ensure_local_pins, whose error ends the tick and run_for with it.
RefreshPins(p) ==
  /\ At(p, "pins")
  /\ \/ Advance(p) /\ UNCHANGED <<serving, cut>>
     \/ Abort(p)
  /\ UNCHANGED <<upkeepFiles, headed, made, upkeepTime, mysnap, stamp, entered,
                 overlapped, unsaved>>

\* gc_all, whose error is ignored.
Collect(p) ==
  /\ At(p, "gc")
  /\ Advance(p)
  /\ UNCHANGED <<upkeepFiles, headed, made, upkeepTime, mysnap, stamp, serving,
                 upkeepGhosts>>

\* The process is killed.
KillRunner(p) ==
  /\ Busy(p)
  /\ Abort(p)
  /\ UNCHANGED <<upkeepFiles, headed, made, upkeepTime, mysnap, stamp, entered, overlapped, unsaved>>

\* A tick takes less than a second, and the clock is not set in it.
Asleep == ~Busy("scheduler") /\ (serving => sleep > 0)

\* A second passes.
ClockTick ==
  /\ clock < MaxClock /\ Asleep
  /\ clock' = clock + 1
  /\ sleep' = IF sleep > 0 THEN sleep - 1 ELSE 0
  /\ elapsed' = IF elapsed < Interval THEN elapsed + 1 ELSE elapsed
  /\ waited' = IF serving /\ headed THEN waited + 1 ELSE 0
  /\ UNCHANGED <<upkeepFiles, headed, made, resets, ahead, behind, upkeepLocals,
                 upkeepGhosts>>

\* The clock is set, forward or back.
SetClock(t) ==
  /\ Asleep
  /\ resets < MaxResets /\ resets' = resets + 1
  /\ clock' = t
  /\ ahead' = IF t > clock THEN ahead + (t - clock) ELSE ahead
  /\ behind' = IF t < clock THEN behind + (clock - t) ELSE behind
  /\ UNCHANGED <<upkeepFiles, headed, made, sleep, elapsed, waited, upkeepLocals,
                 upkeepGhosts>>

UpkeepNext ==
  \/ UserSnapshot \/ UserAdd \/ StartScheduler \/ RunTick \/ EndScheduler
  \/ \E p \in Runners : CommitSnapshot(p) \/ LoadLog(p) \/ WriteLog(p)
                          \/ RenameLog(p) \/ SaveState(p) \/ RefreshPins(p)
                          \/ Collect(p) \/ KillRunner(p)
  \/ ClockTick
  \/ \E t \in 1 .. MaxClock : SetClock(t)

UpkeepSpec == UpkeepInit /\ [][UpkeepNext]_upkeepVars

-----------------------------------------------------------------------------
UpkeepTypeOK ==
  /\ registry \in Seq(Nat) /\ regtmp \in Seq(Nat) \cup {NoLog}
  /\ lastAuto \in Nat /\ made \in Nat /\ stamp \in Nat
  /\ {headed, serving, overlapped, cut, unsaved} \subseteq BOOLEAN
  /\ \A n \in {clock, sleep, resets, elapsed, waited, ahead, behind} : n \in Nat
  /\ plan \in [Runners -> Seq([do : {"commit", "register", "prune", "save", "pins",
                                     "gc"},
                               strict : BOOLEAN])]
  /\ wrote \in [Runners -> {"start", "write", "rename"}]
  /\ mylog \in [Runners -> Seq(Nat)] /\ mysnap \in [Runners -> Nat]
  /\ entered \in Seq(Nat)

\* As long as updates do not overlap the registry is the newest of what was
\* registered, each once and in order, whatever is killed: a prune never takes
\* a newer entry and keeps an older one, and none goes before there are more
\* than the policy keeps.
RegistryIsNewest ==
  ~overlapped =>
    /\ Len(registry) <= Len(entered)
    /\ registry = SubSeq(entered, Len(entered) - Len(registry) + 1, Len(entered))
    /\ KeepNewest = 0 \/ Len(registry) < KeepNewest => registry = entered

\* Overlap may lose entries, but it leaves no more than the policy keeps once
\* all commands have returned: whoever renames last has pruned.
RetentionHolds == AtRest /\ ~cut /\ KeepNewest > 0 => Len(registry) <= KeepNewest

\* Two automatic snapshots are the interval apart in real time, but for the
\* jumps of the clock.  Only a kill between a snapshot and save_state, or a
\* forced one next to a tick, brings the next one early.
SnapshotsApart ==
  [][made' # made /\ At("scheduler", "commit") /\ lastAuto # 0 /\ ~unsaved
       /\ ~overlapped => elapsed + ahead >= Interval]_upkeepVars

\* While the scheduler runs on a vault with a HEAD, no time longer than the
\* interval and one poll goes by without a snapshot; a clock that is set back
\* delays it by as much, and no more.
GapBounded == Interval > 0 => waited < Interval + Poll + behind
=============================================================================
