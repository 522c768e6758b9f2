---------------------------- MODULE ServiceProofs ---------------------------
(***************************************************************************)
(* What runs beside a user's commands, or between nodes: the watcher, the  *)
(* scheduler of snapshots, and the records of who has what.                *)
(*                                                                         *)
(* The watcher, for any folder, debounce time and channel: nothing it was  *)
(* told of is forgotten, and the commits of a file keep their distance.    *)
(* The snapshots, for every interval, poll period and retention, every     *)
(* number of commands, and any overlap of the scheduler with a user's      *)
(* commands, kills and changes of the clock.  The records, the order of    *)
(* the peers and the health reports, for every set of workers and peers,   *)
(* every policy, and any overlap of commands, kills, damage to the disk,   *)
(* answers of peers and time between them.                                 *)
(***************************************************************************)
EXTENDS Watch, Upkeep, Replicas, SequenceTheorems, NumberRecursion

-----------------------------------------------------------------------------
(* The watcher                                                             *)

EventSet == [interesting : BOOLEAN, paths : SUBSET WatchedFiles]

LEMMA EventIn ==
  ASSUME NEW i \in BOOLEAN, NEW ps \in SUBSET WatchedFiles
  PROVE  Event(i, ps) \in EventSet
BY DEF Event, EventSet

\* What Send leaves in the channel: what was there, and the new event.
LEMMA SendAppends ==
  ASSUME events \in Seq(EventSet), NEW e \in EventSet, Send(e)
  PROVE  /\ events' \in Seq(EventSet) /\ events' # <<>>
         /\ Len(events') = Len(events) + 1
         /\ events'[Len(events')] = e
         /\ \A i \in DOMAIN events : i \in DOMAIN events' /\ events'[i] = events[i]
BY DEF Send

\* What Receive takes is the first event.
LEMMA ReceiveTakes ==
  ASSUME events \in Seq(EventSet), events # <<>>, events' = Tail(events)
  PROVE  /\ Head(events) \in EventSet /\ Head(events) = events[1]
         /\ events' \in Seq(EventSet)
         /\ \A i \in DOMAIN events : i # 1 => i - 1 \in DOMAIN events' /\ events'[i - 1] = events[i]
<1>1. /\ Head(events) \in EventSet /\ Head(events) = events[1]
      /\ Tail(events) \in Seq(EventSet)
      /\ Len(Tail(events)) = Len(events) - 1
      /\ \A i \in 1 .. Len(Tail(events)) : Tail(events)[i] = events[i + 1]
  BY HeadTailProperties
<1>2. ASSUME NEW i \in DOMAIN events, i # 1
      PROVE  i - 1 \in DOMAIN events' /\ events'[i - 1] = events[i]
  <2>1. i \in 2 .. Len(events) /\ DOMAIN events' = 1 .. Len(events) - 1
    BY <1>1, <1>2, LenProperties
  <2>2. i - 1 \in 1 .. Len(Tail(events)) /\ (i - 1) + 1 = i
    BY <1>1, <2>1, LenProperties
  <2>3. QED
    BY <1>1, <2>1, <2>2
<1>3. QED
  BY <1>1, <1>2

LEMMA DebounceNat ==
  /\ Debounce \in Nat /\ 0 \in 0 .. Debounce /\ Debounce \in 0 .. Debounce
  /\ 0 \in Nat
BY WatchAssumption

LEMMA DebounceRange ==
  ASSUME NEW n \in 0 .. Debounce
  PROVE  UpToDebounce(n) \in 0 .. Debounce
<1>1. Debounce \in Nat /\ n \in Int
  BY WatchAssumption
<1>2. QED
  BY <1>1 DEF UpToDebounce

LEMMA SaveCounts == ASSUME saves \in Nat, saves' = saves + 1 PROVE saves' \in Nat
OBVIOUS

-----------------------------------------------------------------------------
LEMMA WatchTypeInit == WatchInit => WatchTypeOK
<1> SUFFICES ASSUME WatchInit PROVE WatchTypeOK
  OBVIOUS
<1>1. /\ saved \in [WatchedFiles -> Nat] /\ added \in [WatchedFiles -> Nat]
      /\ saves \in Nat /\ calm \in BOOLEAN
      /\ age \in [WatchedFiles -> 0 .. Debounce] /\ quiet \in 0 .. Debounce
  BY DebounceNat DEF WatchInit
<1>2. events \in Seq([interesting : BOOLEAN, paths : SUBSET WatchedFiles])
  BY DEF WatchInit
<1>3. QED
  BY <1>1, <1>2 DEF WatchInit, WatchTypeOK

LEMMA WatchTypeStep == WatchTypeOK /\ [WatchNext]_watchVars => WatchTypeOK'
<1> SUFFICES ASSUME WatchTypeOK, [WatchNext]_watchVars PROVE WatchTypeOK'
  OBVIOUS
<1> USE DebounceNat DEF WatchTypeOK, folder, Flushing
<1>1. events \in Seq(EventSet)
  BY DEF EventSet
<1>2. ASSUME NEW f \in WatchedFiles, SaveFile(f) PROVE WatchTypeOK'
  <2> saves' \in Nat
    <3>1. saves' = saves + 1
      BY <1>2 DEF SaveFile
    <3>2. saves \in Nat
      OBVIOUS
    <3>3. QED
      BY <3>1, <3>2, SaveCounts
  <2> saved' \in [WatchedFiles -> Nat]
    BY <1>2 DEF SaveFile
  <2>1. CASE Send(Event(TRUE, {f})) /\ missed' = missed \ {f}
    <3>1. Event(TRUE, {f}) \in EventSet
      BY EventIn
    <3>2. events' \in Seq(EventSet)
      BY <1>1, <2>1, <3>1, SendAppends
    <3>3. QED
      BY <1>2, <2>1, <3>2 DEF SaveFile, EventSet
  <2>2. CASE missed' = missed \cup {f} /\ UNCHANGED events
    BY <1>2, <2>2 DEF SaveFile
  <2>3. QED
    BY <1>2, <2>1, <2>2 DEF SaveFile
<1>3. ASSUME NEW f \in WatchedFiles, NEW g \in WatchedFiles, MoveFile(f, g)
      PROVE  WatchTypeOK'
  BY <1>1, <1>3, EventIn, SendAppends DEF MoveFile, EventSet
<1>4. ASSUME NEW f \in WatchedFiles, RemoveFile(f) PROVE WatchTypeOK'
  BY <1>1, <1>4, EventIn, SendAppends DEF RemoveFile, EventSet
<1>5. ASSUME NEW f \in WatchedFiles, AccessFile(f) PROVE WatchTypeOK'
  BY <1>1, <1>5, EventIn, SendAppends DEF AccessFile, EventSet
<1>6. CASE BecomeCalm
  BY <1>6 DEF BecomeCalm
<1>7. CASE Receive
  BY <1>1, <1>7, ReceiveTakes DEF Receive, EventSet
<1>8. CASE Quiesce
  BY <1>8 DEF Quiesce
<1>9. CASE Deadline
  BY <1>9 DEF Deadline
<1>10. ASSUME NEW f \in batch, AddPending(f) PROVE WatchTypeOK'
  <2> f \in WatchedFiles /\ saved[f] \in Nat
    OBVIOUS
  <2>1. batch' \subseteq WatchedFiles /\ missed' \subseteq WatchedFiles
    BY <1>10 DEF AddPending
  <2>2. added' \in [WatchedFiles -> Nat]
    BY <1>10 DEF AddPending
  <2>3. age' \in [WatchedFiles -> 0 .. Debounce]
    <3>1. age' = age \/ age' = [age EXCEPT ![f] = 0]
      BY <1>10 DEF AddPending
    <3>2. QED
      BY <3>1
  <2>4. QED
    BY <1>10, <2>1, <2>2, <2>3 DEF AddPending
<1>11. CASE EndFlush
  BY <1>11 DEF EndFlush
<1>12. CASE WatchTick
  BY <1>12, DebounceRange DEF WatchTick
<1>13. CASE UNCHANGED watchVars
  BY <1>13 DEF watchVars
<1>14. QED
  BY <1>2, <1>3, <1>4, <1>5, <1>6, <1>7, <1>8, <1>9, <1>10, <1>11, <1>12, <1>13
     DEF WatchNext, FolderSteps, LoopSteps

\* The watcher without its fairness: all of its safety needs no more.
WatchSteps == WatchInit /\ [][WatchNext]_watchVars

LEMMA TypesOfSteps == WatchSteps => []WatchTypeOK
BY WatchTypeInit, WatchTypeStep, PTL DEF WatchSteps

\* Every variable of the watcher and its folder holds a value of its kind.
THEOREM WatchTypes == WatchSpec => []WatchTypeOK
BY TypesOfSteps, PTL DEF WatchSpec, WatchSteps

-----------------------------------------------------------------------------
(* Nothing is forgotten.                                                   *)

\* An event in the channel is still there, or was the one received.
LEMMA StillAnnounced ==
  ASSUME events \in Seq(EventSet), NEW f \in WatchedFiles, Announced(f),
         events # <<>>, events' = Tail(events)
  PROVE  Announced(f)' \/ (Head(events).interesting /\ f \in Head(events).paths)
<1>1. PICK i \in DOMAIN events : events[i].interesting /\ f \in events[i].paths
  BY DEF Announced
<1>2. CASE i = 1
  BY <1>1, <1>2, ReceiveTakes
<1>3. CASE i # 1
  BY <1>1, <1>3, ReceiveTakes DEF Announced
<1>4. QED
  BY <1>2, <1>3

\* Sending announces, and takes nothing back.
LEMMA SendAnnounces ==
  ASSUME events \in Seq(EventSet), NEW i \in BOOLEAN, NEW ps \in SUBSET WatchedFiles,
         Send(Event(i, ps)), NEW f \in WatchedFiles
  PROVE  /\ Announced(f) => Announced(f)'
         /\ i /\ f \in ps => Announced(f)'
<1> DEFINE e == Event(i, ps)
<1>1. e \in EventSet
  BY EventIn
<1>2. /\ events' \in Seq(EventSet) /\ events' # <<>>
      /\ events'[Len(events')] = e
      /\ \A j \in DOMAIN events : j \in DOMAIN events' /\ events'[j] = events[j]
  BY <1>1, SendAppends
<1>3. Len(events') \in DOMAIN events'
  BY <1>2, EmptySeq, LenProperties
<1>4. Announced(f) => Announced(f)'
  BY <1>2 DEF Announced
<1>5. i /\ f \in ps => Announced(f)'
  BY <1>2, <1>3 DEF Announced, Event
<1>6. QED
  BY <1>4, <1>5

LEMMA TrackedStep ==
  ASSUME WatchTypeOK, Tracked, [WatchNext]_watchVars
  PROVE  Tracked'
<1> SUFFICES ASSUME watching' # "done", NEW f \in WatchedFiles, Stale(f)'
             PROVE  f \in (pending \cup batch \cup missed)' \/ Announced(f)'
  BY DEF Tracked
<1>1. events \in Seq(EventSet)
  BY DEF EventSet, WatchTypeOK
<1>2. ASSUME watching # "done", Stale(f)
      PROVE  f \in pending \cup batch \cup missed \/ Announced(f)
  BY <1>2 DEF Tracked
<1>3. ASSUME NEW g \in WatchedFiles, SaveFile(g)
      PROVE  f \in (pending \cup batch \cup missed)' \/ Announced(f)'
  <2>1. CASE Send(Event(TRUE, {g})) /\ missed' = missed \ {g}
    <3>1. (f = g \/ Announced(f)) => Announced(f)'
      BY <1>1, <2>1, SendAnnounces
    <3>2. f # g => Stale(f)
      BY <1>3 DEF SaveFile, Stale, WatchTypeOK
    <3>3. QED
      BY <1>2, <1>3, <2>1, <3>1, <3>2 DEF SaveFile
  <2>2. CASE missed' = missed \cup {g} /\ UNCHANGED events
    <3>1. f # g => Stale(f)
      BY <1>3 DEF SaveFile, Stale, WatchTypeOK
    <3>2. QED
      BY <1>2, <1>3, <2>2, <3>1 DEF SaveFile, Announced
  <2>3. QED
    BY <1>3, <2>1, <2>2 DEF SaveFile
<1>4. ASSUME NEW g \in WatchedFiles, NEW h \in WatchedFiles, MoveFile(g, h)
      PROVE  f \in (pending \cup batch \cup missed)' \/ Announced(f)'
  <2>1. (f \in {g, h} \/ Announced(f)) => Announced(f)'
    BY <1>1, <1>4, SendAnnounces DEF MoveFile
  <2>2. f \notin {g, h} => Stale(f)
    BY <1>4 DEF MoveFile, Stale, WatchTypeOK
  <2>3. QED
    BY <1>2, <1>4, <2>1, <2>2 DEF MoveFile
<1>5. ASSUME NEW g \in WatchedFiles, RemoveFile(g)
      PROVE  f \in (pending \cup batch \cup missed)' \/ Announced(f)'
  <2>1. Announced(f) => Announced(f)'
    BY <1>1, <1>5, SendAnnounces DEF RemoveFile
  <2>2. Stale(f)
    BY <1>5 DEF RemoveFile, Stale, WatchTypeOK
  <2>3. QED
    BY <1>2, <1>5, <2>1, <2>2 DEF RemoveFile
<1>6. ASSUME NEW g \in WatchedFiles, AccessFile(g)
      PROVE  f \in (pending \cup batch \cup missed)' \/ Announced(f)'
  <2>1. Announced(f) => Announced(f)'
    BY <1>1, <1>6, SendAnnounces DEF AccessFile
  <2>2. QED
    BY <1>2, <1>6, <2>1 DEF AccessFile, Stale, folder
<1>7. CASE BecomeCalm
  BY <1>2, <1>7 DEF BecomeCalm, Stale, Announced
<1>8. CASE Receive
  <2>1. saved' = saved /\ added' = added /\ batch' = batch /\ missed' = missed
    BY <1>8 DEF Receive, folder
  <2>2. pending \subseteq pending'
    BY <1>8 DEF Receive
  <2>3. Announced(f) => Announced(f)' \/ f \in pending'
    BY <1>1, <1>8, <2>1, StillAnnounced DEF Receive, Stale
  <2>4. QED
    BY <1>2, <1>8, <2>1, <2>2, <2>3 DEF Receive, Stale
<1>9. CASE Quiesce
  BY <1>2, <1>9 DEF Quiesce, Stale, Announced, folder, WatchTypeOK, Flushing
<1>10. CASE Deadline
  BY <1>2, <1>10 DEF Deadline, Stale, Announced, folder, WatchTypeOK, Flushing
<1>11. ASSUME NEW g \in batch, AddPending(g)
       PROVE  f \in (pending \cup batch \cup missed)' \/ Announced(f)'
  <2>1. CASE f = g
    BY <1>11, <2>1 DEF AddPending, Stale, folder, WatchTypeOK
  <2>2. CASE f # g
    BY <1>2, <1>11, <2>2 DEF AddPending, Stale, Announced, folder, WatchTypeOK
  <2>3. QED
    BY <2>1, <2>2
<1>12. CASE EndFlush
  BY <1>2, <1>12 DEF EndFlush, Stale, Announced, folder
<1>13. CASE WatchTick
  BY <1>2, <1>13 DEF WatchTick, Stale, Announced, folder
<1>14. CASE UNCHANGED watchVars
  BY <1>2, <1>14 DEF watchVars, Stale, Announced, folder
<1>15. QED
  BY <1>3, <1>4, <1>5, <1>6, <1>7, <1>8, <1>9, <1>10, <1>11, <1>12, <1>13, <1>14
     DEF WatchNext, FolderSteps, LoopSteps

LEMMA TrackedBySteps == WatchSteps => []Tracked
<1>1. WatchInit => Tracked
  BY DEF WatchInit, Tracked, Stale
<1>2. WatchTypeOK /\ Tracked /\ [WatchNext]_watchVars => Tracked'
  BY TrackedStep
<1>3. QED
  BY <1>1, <1>2, TypesOfSteps, PTL DEF WatchSteps

\* Whatever changes, fails or is removed meanwhile, a file that differs from
\* the vault is known to the watcher, unless its change had no event or its
\* add failed.
THEOREM NothingForgotten == WatchSpec => []Tracked
BY TrackedBySteps, PTL DEF WatchSpec, WatchSteps

-----------------------------------------------------------------------------
(* Two commits of a file.                                                  *)

\* A pending file was last added before the debounce began, and a file in the
\* batch of a flush after it.
Rested ==
  /\ watching # "loop" => pending = {}
  /\ \A f \in pending : quiet <= age[f]
  /\ watching = "flush" => \A f \in batch : age[f] = Debounce

LEMMA RestedStep ==
  ASSUME WatchTypeOK, Rested, [WatchNext]_watchVars
  PROVE  Rested'
<1>1. /\ quiet \in Nat /\ Debounce \in Nat /\ quiet <= Debounce
      /\ \A f \in WatchedFiles : age[f] \in Nat /\ age[f] <= Debounce
  <2>1. quiet \in 0 .. Debounce /\ \A f \in WatchedFiles : age[f] \in 0 .. Debounce
    BY DEF WatchTypeOK
  <2>2. QED
    BY <2>1, DebounceNat
<1> pending \subseteq WatchedFiles /\ batch \subseteq WatchedFiles
  BY DEF WatchTypeOK
<1> pending' \subseteq WatchedFiles
  BY WatchTypeStep DEF WatchTypeOK
<1>2. CASE FolderSteps \/ UNCHANGED watchVars
  <2>1. UNCHANGED <<watching, pending, quiet, age, batch>>
    BY <1>2 DEF FolderSteps, SaveFile, MoveFile, RemoveFile, AccessFile, BecomeCalm,
                watchVars
  <2>2. QED
    BY <2>1 DEF Rested
<1>3. CASE Receive
  <2>1. /\ watching' = "loop" /\ quiet' = 0
        /\ \A f \in WatchedFiles : 0 <= age'[f]
    BY <1>1, <1>3 DEF Receive
  <2>2. QED
    BY <2>1 DEF Rested
<1>4. CASE Quiesce
  BY <1>1, <1>4 DEF Rested, Quiesce
<1>5. CASE Deadline
  BY <1>5 DEF Rested, Deadline
<1>6. ASSUME NEW f \in batch, AddPending(f) PROVE Rested'
  <2>1. /\ watching' = watching /\ pending' = pending /\ quiet' = quiet
        /\ watching # "loop" /\ batch' = batch \ {f}
    BY <1>6 DEF AddPending, Flushing
  <2>2. \A g \in batch' : age'[g] = age[g]
    BY <1>1, <1>6, <2>1 DEF AddPending, WatchTypeOK
  <2>3. QED
    BY <2>1, <2>2 DEF Rested
<1>7. CASE EndFlush
  BY <1>7 DEF Rested, EndFlush, Flushing
<1>8. CASE WatchTick
  <2>1. /\ UNCHANGED <<watching, pending, batch>>
        /\ quiet' = UpToDebounce(quiet)
        /\ \A f \in WatchedFiles : age'[f] = UpToDebounce(age[f])
    BY <1>8 DEF WatchTick
  <2>2. ASSUME NEW f \in pending PROVE quiet' <= age'[f]
    <3>1. quiet <= age[f] /\ f \in WatchedFiles
      BY <1>1 DEF Rested
    <3>2. QED
      BY <1>1, <2>1, <3>1 DEF UpToDebounce
  <2>3. ASSUME NEW f \in batch, age[f] = Debounce PROVE age'[f] = Debounce
    BY <1>1, <2>1, <2>3 DEF UpToDebounce
  <2>4. QED
    BY <2>1, <2>2, <2>3 DEF Rested
<1>9. QED
  BY <1>2, <1>3, <1>4, <1>5, <1>6, <1>7, <1>8 DEF WatchNext, LoopSteps

LEMMA ApartBySteps == WatchSteps => Debounced
<1>1. WatchInit => Rested
  BY DEF WatchInit, Rested
<1>2. WatchTypeOK /\ Rested /\ [WatchNext]_watchVars => Rested'
  BY RestedStep
<1> DEFINE Step ==
      \A f \in WatchedFiles :
        added'[f] # added[f] /\ watching = "flush" => age[f] = Debounce
<1>3. WatchTypeOK /\ Rested /\ [WatchNext]_watchVars => [Step]_watchVars
  <2> SUFFICES ASSUME WatchTypeOK, Rested, WatchNext, NEW f \in WatchedFiles,
                      added'[f] # added[f], watching = "flush"
               PROVE  age[f] = Debounce
    OBVIOUS
  <2>1. ASSUME NEW g \in batch, AddPending(g) PROVE age[f] = Debounce
    <3>1. f = g
      BY <2>1 DEF AddPending, WatchTypeOK
    <3>2. QED
      BY <2>1, <3>1 DEF Rested
  <2>2. CASE added' = added
    BY <2>2
  <2>3. QED
    BY <2>1, <2>2 DEF WatchNext, FolderSteps, LoopSteps, SaveFile, MoveFile, RemoveFile,
         AccessFile, BecomeCalm, Receive, Quiesce, Deadline, EndFlush, WatchTick
<1>4. QED
  BY <1>1, <1>2, <1>3, TypesOfSteps, PTL DEF WatchSteps, Debounced

\* Two commits of a file are the debounce time apart, but for those of the
\* flush at the deadline.
THEOREM CommitsApart == WatchSpec => Debounced
BY ApartBySteps, PTL DEF WatchSpec, WatchSteps

-----------------------------------------------------------------------------
(* The scheduler and the registry                                          *)

Steps == [do : {"commit", "register", "prune", "save", "pins", "gc"}, strict : BOOLEAN]

Types ==
  /\ registry \in Seq(Nat) /\ regtmp \in Seq(Nat) \cup {NoLog}
  /\ lastAuto \in Nat /\ made \in Nat /\ stamp \in Nat
  /\ headed \in BOOLEAN /\ serving \in BOOLEAN /\ overlapped \in BOOLEAN
  /\ cut \in BOOLEAN /\ unsaved \in BOOLEAN
  /\ clock \in Nat /\ sleep \in Nat /\ resets \in Nat /\ elapsed \in Nat
  /\ waited \in Nat /\ ahead \in Nat /\ behind \in Nat
  /\ plan \in [Runners -> Seq(Steps)]
  /\ wrote \in [Runners -> {"start", "write", "rename"}]
  /\ mylog \in [Runners -> Seq(Nat)] /\ mysnap \in [Runners -> Nat]
  /\ entered \in Seq(Nat)

\* Some step of a plan.
Has(s, step) == \E i \in DOMAIN s : s[i].do = step

\* A log that is being written belongs to a register or a prune; a plan saves
\* the time once.
PlanInv ==
  \A p \in Runners :
    /\ wrote[p] # "start" => At(p, "register") \/ At(p, "prune")
    /\ \A i \in DOMAIN plan[p] :
         /\ plan[p][i].do = "commit" => i = 1
         /\ plan[p][i].do = "register" =>
              \E j \in DOMAIN plan[p] : j > i /\ plan[p][j].do = "prune"
         /\ plan[p][i].do = "save" =>
              \A j \in DOMAIN plan[p] : plan[p][j].do = "save" => j = i

-----------------------------------------------------------------------------
(* Retention                                                               *)

TooLong(log) == Len(log) > KeepNewest

\* A process that has still to load the registry for a prune, or has the short log to write.
Pruning(p) ==
  /\ Busy(p)
  /\ \/ Has(Tail(plan[p]), "prune")
     \/ At(p, "prune") /\ wrote[p] # "rename"

RetentionInv ==
  KeepNewest > 0 =>
    /\ \A p \in Runners : At(p, "prune") /\ wrote[p] # "start" => ~TooLong(mylog[p])
    /\ ~cut /\ TooLong(registry) =>
         \E p \in Runners :
           \/ Pruning(p)
           \/ At(p, "prune") /\ wrote[p] = "rename" /\ regtmp # NoLog /\ ~TooLong(regtmp)
    /\ ~cut /\ regtmp # NoLog /\ TooLong(regtmp) /\ (\E p \in Runners : wrote[p] = "rename") =>
         \E p \in Runners : At(p, "register") /\ wrote[p] = "rename"

-----------------------------------------------------------------------------
(* The registry and what was entered                                       *)

\* The last k entries.
Latest(s, k) == SubSeq(s, Len(s) - k + 1, Len(s))

Newest(log, all) ==
  /\ Len(log) <= Len(all)
  /\ log = Latest(all, Len(log))
  /\ KeepNewest = 0 \/ Len(log) < KeepNewest => log = all

AloneInv ==
  ~overlapped =>
    /\ \A p, q \in Runners : Busy(p) /\ Busy(q) => p = q
    /\ \A p \in Runners :
         /\ wrote[p] # "start" => mylog[p] = NewLog(p)
         /\ wrote[p] = "rename" => regtmp = mylog[p]
         /\ Has(plan[p], "register") => Has(plan[p], "commit") \/ mysnap[p] = made
    /\ \A i \in DOMAIN entered : entered[i] <= made /\ (i < Len(entered) => entered[i] < made)
    /\ Newest(registry, entered)

-----------------------------------------------------------------------------
(* Time                                                                    *)

TimeInv ==
  /\ sleep <= Poll
  /\ ~headed => waited = 0
  /\ Has(plan["scheduler"], "save") => stamp = clock
  /\ Has(plan["scheduler"], "commit") /\ ~overlapped => SnapshotDue
  /\ lastAuto # 0 => lastAuto + waited <= clock + behind
  /\ Interval > 0 =>
       /\ waited < Interval + Poll + behind
       /\ serving => \/ Has(plan["scheduler"], "save")
                     \/ waited + sleep < Interval + Poll + behind
  /\ lastAuto # 0 /\ ~unsaved => elapsed >= Interval \/ elapsed + ahead + lastAuto >= clock

UInv == Types /\ PlanInv /\ RetentionInv /\ AloneInv /\ TimeInv
-----------------------------------------------------------------------------
(* The log without an entry                                                *)

\* The recursion of LogWithout, made explicit.
LEMMA WithoutSteps ==
  ASSUME NEW log \in Seq(Nat), NEW c
  PROVE  \E f \in [0 .. Len(log) -> Seq(Nat)] :
           /\ LogWithout(log, c) = f[Len(log)] /\ f[0] = <<>>
           /\ \A i \in 1 .. Len(log) :
                f[i] = IF log[i] = c THEN f[i - 1] ELSE Append(f[i - 1], log[i])
<1> DEFINE n == Len(log)
           T == Seq(Nat)
           e == <<>>
           F == [i \in 1 .. n |-> [x \in T |-> IF log[i] = c THEN x ELSE Append(x, log[i])]]
           Def(g) == g = [i \in 0 .. n |-> IF i = 0 THEN <<>>
                          ELSE IF log[i] = c THEN g[i - 1] ELSE Append(g[i - 1], log[i])]
           kept == CHOOSE g : Def(g)
<1>1. F \in [1 .. n -> [T -> T]] /\ n \in Nat /\ e \in T
  OBVIOUS
<1>2. PICK f \in [0 .. n -> T] : Iterates(f, n, e, F)
  <2> HIDE DEF F, n, T, e
  <2> QED
    BY <1>1, Iteration
<1>3. \A i \in 1 .. n : f[i] = IF log[i] = c THEN f[i - 1] ELSE Append(f[i - 1], log[i])
  <2> TAKE i \in 1 .. n
  <2>1. i - 1 \in 0 .. n
    OBVIOUS
  <2>2. f[i - 1] \in T
    BY <2>1
  <2>3. f[i] = F[i][f[i - 1]]
    BY <1>2 DEF Iterates
  <2> QED
    BY <2>2, <2>3
<1>4. f[0] = <<>> /\ Def(f)
  <2>1. \A i \in 0 .. n : i # 0 => i \in 1 .. n
    BY <1>1
  <2>2. f[0] = <<>>
    BY <1>2 DEF Iterates
  <2> HIDE DEF F, n
  <2> QED
    BY <1>3, <2>1, <2>2
<1>5. Def(kept)
  <2> HIDE DEF Def
  <2> QED
    BY <1>4
<1>6. LogWithout(log, c) = kept[n]
  BY DEF LogWithout
<1>7. kept[0] = <<>>
      /\ \A i \in 1 .. n : kept[i] = IF log[i] = c THEN kept[i - 1] ELSE Append(kept[i - 1], log[i])
  <2> HIDE DEF kept
  <2>1. 0 \in 0 .. n /\ \A i \in 1 .. n : i \in 0 .. n /\ i # 0
    BY <1>1
  <2> HIDE DEF n
  <2> QED
    BY <1>5, <2>1
<1>8. kept[n] = f[n]
  <2> HIDE DEF kept, n
  <2> DEFINE H == {i \in 0 .. n : kept[i] = f[i]}
  <2>1. 0 \in H
    BY <1>1, <1>4, <1>7
  <2>2. ASSUME NEW i \in 0 .. n, i < n, i \in H PROVE i + 1 \in H
    <3>1. i + 1 \in 1 .. n /\ (i + 1) - 1 = i
      BY <2>2, <1>1
    <3> QED
      BY <3>1, <1>3, <1>7, <2>2
  <2>3. 0 .. n \subseteq H
    <3> HIDE DEF H
    <3> QED
      BY <1>1, <2>1, <2>2, UpTo
  <2> QED
    BY <1>1, <2>3
<1> QED
  BY <1>3, <1>4, <1>6, <1>8

\* An entry that may be the newest, and no other: all but the newest is left,
\* or all.
LEMMA WithoutTip ==
  ASSUME NEW log \in Seq(Nat), NEW c, \A i \in 1 .. Len(log) - 1 : log[i] # c
  PROVE  LogWithout(log, c) = IF log # <<>> /\ log[Len(log)] = c
                              THEN SubSeq(log, 1, Len(log) - 1) ELSE log
<1>1. PICK f \in [0 .. Len(log) -> Seq(Nat)] :
        /\ LogWithout(log, c) = f[Len(log)] /\ f[0] = <<>>
        /\ \A i \in 1 .. Len(log) :
             f[i] = IF log[i] = c THEN f[i - 1] ELSE Append(f[i - 1], log[i])
  BY WithoutSteps, SMTT(30)
<1>2. CASE log = <<>>
  BY <1>1, <1>2
<1>3. CASE log # <<>>
  <2> DEFINE n == Len(log)
  <2>0. n \in Nat /\ n - 1 \in Nat
    BY <1>3
  <2> DEFINE H == {i \in 0 .. n - 1 : f[i] = SubSeq(log, 1, i)}
  <2>1. 0 \in H
    BY <1>1, <2>0
  <2>2. ASSUME NEW i \in 0 .. n - 1, i < n - 1, i \in H PROVE i + 1 \in H
    <3>1. i + 1 \in 1 .. n /\ (i + 1) - 1 = i /\ i + 1 \in 1 .. n - 1
      BY <2>2, <2>0
    <3>2. log[i + 1] # c
      BY <3>1
    <3>3. f[i + 1] = Append(SubSeq(log, 1, i), log[i + 1])
      BY <1>1, <3>1, <3>2, <2>2
    <3>4. Append(SubSeq(log, 1, i), log[i + 1]) = SubSeq(log, 1, i + 1)
      BY <3>1
    <3>5. i + 1 \in 0 .. n - 1
      BY <3>1
    <3> QED
      BY <3>3, <3>4, <3>5
  <2>3. n - 1 \in H
    <3> HIDE DEF H
    <3>1. 0 .. n - 1 \subseteq H
      BY <2>0, <2>1, <2>2, UpTo
    <3> QED
      BY <2>0, <3>1
  <2>4. f[n] = IF log[n] = c THEN SubSeq(log, 1, n - 1) ELSE Append(SubSeq(log, 1, n - 1), log[n])
    <3>1. n \in 1 .. Len(log) /\ f[n - 1] = SubSeq(log, 1, n - 1)
      BY <2>0, <2>3
    <3> QED
      BY <1>1, <3>1
  <2>5. Append(SubSeq(log, 1, n - 1), log[n]) = log
    BY <2>0
  <2> QED
    BY <1>1, <1>3, <2>4, <2>5
<1> QED
  BY <1>2, <1>3

LEMMA WithoutType == ASSUME NEW log \in Seq(Nat), NEW c PROVE LogWithout(log, c) \in Seq(Nat)
BY WithoutSteps

-----------------------------------------------------------------------------
(* Plans                                                                   *)

\* What is left of a plan after its first step.
LEMMA TailOfPlan ==
  ASSUME NEW s \in Seq(Steps), s # <<>>
  PROVE  /\ Tail(s) \in Seq(Steps) /\ Head(s) \in Steps
         /\ \A step : Has(Tail(s), step) => Has(s, step)
         /\ \A step : Has(s, step) => Has(Tail(s), step) \/ Head(s).do = step
         /\ \A i \in DOMAIN Tail(s) : i + 1 \in DOMAIN s /\ Tail(s)[i] = s[i + 1]
         /\ \A i \in DOMAIN s : i = 1 \/ (i - 1 \in DOMAIN Tail(s) /\ s[i] = Tail(s)[i - 1])
<1>1. Tail(s) \in Seq(Steps) /\ Head(s) \in Steps /\ Len(s) > 0 /\ Head(s) = s[1]
  OBVIOUS
<1>2. \A i \in DOMAIN Tail(s) : i + 1 \in DOMAIN s /\ Tail(s)[i] = s[i + 1]
  BY <1>1
<1>3. \A i \in DOMAIN s : i = 1 \/ (i - 1 \in DOMAIN Tail(s) /\ s[i] = Tail(s)[i - 1])
  BY <1>1
<1> QED
  BY <1>1, <1>2, <1>3 DEF Has

\* The plans of the commands.
LEMMA Plans ==
  /\ SnapshotSteps \in Seq(Steps) /\ DueSteps \in Seq(Steps)
  /\ NotDueSteps \in Seq(Steps) /\ ForceSteps \in Seq(Steps)
<1>1. /\ Do("commit", TRUE) \in Steps /\ Do("register", TRUE) \in Steps
      /\ Do("register", FALSE) \in Steps /\ Do("prune", TRUE) \in Steps
      /\ Do("prune", FALSE) \in Steps /\ Do("save", TRUE) \in Steps
      /\ Do("pins", TRUE) \in Steps /\ Do("gc", FALSE) \in Steps
  BY DEF Do, Steps
<1>2. \A u, v, w, x, y, z \in Steps :
        /\ <<x, y>> \in Seq(Steps) /\ <<x, y, z>> \in Seq(Steps)
        /\ <<u, v, w, x, y, z>> \in Seq(Steps)
  OBVIOUS
<1>3. SnapshotSteps \in Seq(Steps) /\ NotDueSteps \in Seq(Steps)
  BY <1>1, <1>2 DEF SnapshotSteps, NotDueSteps
<1>4. /\ <<Do("prune", TRUE), Do("save", TRUE)>> \in Seq(Steps)
      /\ <<Do("register", TRUE), Do("prune", TRUE), Do("save", TRUE), Do("pins", TRUE),
           Do("prune", TRUE), Do("gc", FALSE)>> \in Seq(Steps)
  BY <1>1, <1>2
<1>5. \A u, v \in Seq(Steps) : u \o v \in Seq(Steps)
  OBVIOUS
<1> QED
  BY <1>3, <1>4, <1>5 DEF DueSteps, ForceSteps

\* Each registers before it prunes, and prunes at the end.
LEMMA PlansPrune ==
  ASSUME NEW s \in {SnapshotSteps, DueSteps, NotDueSteps, ForceSteps}
  PROVE  /\ s # <<>> /\ Has(s, "prune")
         /\ Has(s, "register") => Has(s, "commit")
         /\ \A i \in DOMAIN s :
              /\ s[i].do = "commit" => i = 1
              /\ s[i].do = "register" => \E j \in DOMAIN s : j > i /\ s[j].do = "prune"
              /\ s[i].do = "save" => \A j \in DOMAIN s : s[j].do = "save" => j = i
<1>1. CASE s = SnapshotSteps
  <2>1. Len(s) = 3 /\ s[1].do = "commit" /\ s[2].do = "register" /\ s[3].do = "prune"
    BY <1>1 DEF SnapshotSteps, Do
  <2>2. DOMAIN s = 1 .. 3 /\ s # <<>>
    BY <1>1 DEF SnapshotSteps
  <2> QED
    BY <2>1, <2>2 DEF Has
<1>2. CASE s = ForceSteps
  <2>1. /\ s[1].do = "commit" /\ s[2].do = "register" /\ s[3].do = "prune"
        /\ s[4].do = "prune" /\ s[5].do = "save"
    BY <1>2 DEF ForceSteps, SnapshotSteps, Do
  <2>2. DOMAIN s = 1 .. 5 /\ s # <<>>
    BY <1>2 DEF ForceSteps, SnapshotSteps
  <2> QED
    BY <2>1, <2>2 DEF Has
<1>3. CASE s = DueSteps
  <2>1. /\ s[1].do = "commit" /\ s[2].do = "register" /\ s[3].do = "prune"
        /\ s[4].do = "register" /\ s[5].do = "prune" /\ s[6].do = "save"
        /\ s[7].do = "pins" /\ s[8].do = "prune" /\ s[9].do = "gc"
    BY <1>3 DEF DueSteps, SnapshotSteps, Do
  <2>2. DOMAIN s = 1 .. 9 /\ s # <<>>
    BY <1>3 DEF DueSteps, SnapshotSteps
  <2> QED
    BY <2>1, <2>2 DEF Has
<1>4. CASE s = NotDueSteps
  <2>1. /\ s[1].do = "pins" /\ s[2].do = "prune" /\ s[3].do = "gc"
        /\ DOMAIN s = 1 .. 3 /\ s # <<>>
    BY <1>4 DEF NotDueSteps, Do
  <2> QED
    BY <2>1 DEF Has
<1> QED
  BY <1>1, <1>2, <1>3, <1>4

\* Only a tick that is due commits and saves.
LEMMA DuePlan ==
  /\ Has(DueSteps, "save") /\ Has(DueSteps, "commit")
  /\ ~Has(NotDueSteps, "save") /\ ~Has(NotDueSteps, "commit")
  /\ ~Has(<<>>, "save") /\ ~Has(<<>>, "commit") /\ ~Has(<<>>, "register")
<1>1. 1 \in DOMAIN DueSteps /\ 6 \in DOMAIN DueSteps
      /\ DueSteps[1].do = "commit" /\ DueSteps[6].do = "save"
  BY DEF DueSteps, SnapshotSteps, Do
<1>2. /\ NotDueSteps[1].do = "pins" /\ NotDueSteps[2].do = "prune"
      /\ NotDueSteps[3].do = "gc" /\ DOMAIN NotDueSteps = 1 .. 3
  BY DEF NotDueSteps, Do
<1> QED
  BY <1>1, <1>2 DEF Has

-----------------------------------------------------------------------------
(* Types                                                                   *)

LEMMA TypesInit == UpkeepInit => Types
<1>1. <<>> \in Seq(Steps) /\ <<>> \in Seq(Nat)
  OBVIOUS
<1>2. ASSUME UpkeepInit
      PROVE  /\ plan \in [Runners -> Seq(Steps)]
             /\ wrote \in [Runners -> {"start", "write", "rename"}]
             /\ mylog \in [Runners -> Seq(Nat)] /\ mysnap \in [Runners -> Nat]
  BY <1>1, <1>2 DEF UpkeepInit
<1>3. ASSUME UpkeepInit
      PROVE  /\ registry \in Seq(Nat) /\ regtmp = NoLog /\ entered \in Seq(Nat)
             /\ headed = FALSE /\ serving = FALSE /\ overlapped = FALSE
             /\ cut = FALSE /\ unsaved = FALSE
             /\ \A n \in {lastAuto, made, stamp, clock, sleep, resets, elapsed, waited,
                          ahead, behind} : n \in Nat
  BY <1>1, <1>3 DEF UpkeepInit
<1> QED
  BY <1>2, <1>3 DEF Types

\* The current step, and the process that has one.
LEMMA CurrentLog ==
  ASSUME Types, NEW p \in Runners, NEW x, At(p, x)
  PROVE  /\ plan[p] \in Seq(Steps) /\ plan[p] # <<>> /\ Head(plan[p]).do = x
         /\ Tail(plan[p]) \in Seq(Steps) /\ Has(plan[p], x)
<1>1. plan[p] \in Seq(Steps) /\ plan[p] # <<>> /\ Head(plan[p]).do = x
  BY DEF At, Busy, Types
<1>2. 1 \in DOMAIN plan[p] /\ Head(plan[p]) = plan[p][1]
  BY <1>1
<1> QED
  BY <1>1, <1>2, TailOfPlan DEF Has

LEMMA LogTypes == ASSUME Types, NEW p \in Runners PROVE NewLog(p) \in Seq(Nat)
<1>1. registry \in Seq(Nat) /\ mysnap[p] \in Nat /\ KeepNewest \in Nat
  BY UpkeepAssumption DEF Types
<1>2. Append(LogWithout(registry, mysnap[p]), mysnap[p]) \in Seq(Nat)
  BY <1>1, WithoutType
<1>3. CASE Len(registry) > KeepNewest
  BY <1>1, <1>2, <1>3 DEF NewLog
<1>4. CASE Len(registry) <= KeepNewest
  BY <1>1, <1>2, <1>4 DEF NewLog
<1> QED
  BY <1>1, <1>3, <1>4

\* A step that leaves every file here alone: pins that are refreshed, or a gc.
Passes(p) ==
  /\ At(p, "pins") \/ At(p, "gc")
  /\ Advance(p)
  /\ UNCHANGED <<upkeepFiles, headed, made, upkeepTime, mysnap, stamp, serving,
                 upkeepGhosts>>

\* Pins that cannot be refreshed end the tick where a kill would.
LEMMA PinsAndGc ==
  ASSUME NEW p \in Runners, RefreshPins(p) \/ Collect(p)
  PROVE  Passes(p) \/ KillRunner(p)
<1>1. ASSUME Collect(p) PROVE Passes(p)
  BY <1>1 DEF Collect, Passes
<1>2. ASSUME RefreshPins(p), Abort(p) PROVE KillRunner(p)
  BY <1>2 DEF RefreshPins, KillRunner, At
<1>3. ASSUME RefreshPins(p), ~Abort(p) PROVE Passes(p)
  BY <1>3 DEF RefreshPins, Passes, upkeepGhosts
<1> QED
  BY <1>1, <1>2, <1>3

LEMMA TypesNext == Types /\ PlanInv /\ [UpkeepNext]_upkeepVars => Types'
<1> SUFFICES ASSUME Types, PlanInv, [UpkeepNext]_upkeepVars PROVE Types'
  OBVIOUS
<1> USE DEF upkeepFiles, upkeepTime, upkeepLocals, upkeepGhosts
<1>0. Interval \in Nat /\ Poll \in Nat /\ MaxClock \in Nat
  BY UpkeepAssumption
<1> DEFINE Places ==
      /\ plan \in [Runners -> Seq(Steps)]
      /\ wrote \in [Runners -> {"start", "write", "rename"}]
      /\ mylog \in [Runners -> Seq(Nat)]
\* A command that starts.
<1>1. ASSUME NEW p \in Runners, NEW s \in Seq(Steps), Begin(p, s), UNCHANGED mylog
      PROVE  Places' /\ overlapped' \in BOOLEAN /\ cut' \in BOOLEAN
  BY <1>1 DEF Begin, Types
\* A step that ends.
<1>2. ASSUME NEW p \in Runners, NEW s \in Seq(Steps), GoOn(p, s) PROVE Places'
  BY <1>2 DEF GoOn, Types
<1>3. ASSUME NEW p \in Runners, NEW x, At(p, x), Advance(p) PROVE Places'
  BY <1>2, <1>3, CurrentLog DEF Advance
<1>4. ASSUME NEW p \in Runners, Abort(p)
      PROVE  Places' /\ serving' \in BOOLEAN /\ cut' \in BOOLEAN
  <2>1. <<>> \in Seq(Steps)
    OBVIOUS
  <2> QED
    BY <1>2, <1>4, <2>1 DEF Abort, Types
<1>5. CASE UserSnapshot
  <2>1. Places' /\ overlapped' \in BOOLEAN /\ cut' \in BOOLEAN
    BY <1>1, <1>5, Plans DEF UserSnapshot, Runners
  <2> QED
    BY <1>5, <2>1 DEF UserSnapshot, Types
<1>6. CASE UserAdd \/ StartScheduler \/ EndScheduler
  <2>1. CASE UserAdd
    BY <2>1 DEF UserAdd, Types
  <2>2. CASE StartScheduler
    BY <2>2 DEF StartScheduler, Types
  <2>3. CASE EndScheduler
    BY <2>3 DEF EndScheduler, Types
  <2> QED
    BY <1>6, <2>1, <2>2, <2>3
<1>7. CASE RunTick
  <2>1. stamp' \in Nat /\ sleep' \in Nat
    BY <1>0, <1>7 DEF RunTick, Types
  <2>2. Places' /\ overlapped' \in BOOLEAN /\ cut' \in BOOLEAN
    BY <1>1, <1>7, Plans DEF RunTick, Runners
  <2> QED
    BY <1>7, <2>1, <2>2 DEF RunTick, Types
<1>8. ASSUME NEW p \in Runners, CommitSnapshot(p) PROVE Types'
  <2>1. made' \in Nat /\ mysnap' \in [Runners -> Nat]
    BY <1>8 DEF CommitSnapshot, Types
  <2>2. unsaved' \in BOOLEAN /\ elapsed' \in Nat /\ headed' \in BOOLEAN
    <3>1. CASE Automatic(p)
      BY <1>8, <3>1 DEF CommitSnapshot, Types
    <3>2. CASE ~Automatic(p)
      BY <1>8, <3>2 DEF CommitSnapshot, Types
    <3> QED
      BY <3>1, <3>2
  <2>3. Places'
    BY <1>3, <1>8 DEF CommitSnapshot
  <2> QED
    BY <1>8, <2>1, <2>2, <2>3 DEF CommitSnapshot, Types
<1>9. ASSUME NEW p \in Runners, LoadLog(p) PROVE Types'
  <2>1. CASE UNCHANGED plan /\ mylog' = [mylog EXCEPT ![p] = NewLog(p)]
             /\ wrote' = [wrote EXCEPT ![p] = "write"]
    <3>1. NewLog(p) \in Seq(Nat)
      BY LogTypes
    <3>2. Places'
      BY <2>1, <3>1 DEF Types
    <3> QED
      BY <1>9, <3>2 DEF LoadLog, Types
  <2>2. CASE Advance(p)
    <3>1. Places'
      BY <1>3, <1>9, <2>2 DEF LoadLog
    <3> QED
      BY <1>9, <3>1 DEF LoadLog, Types
  <2> QED
    BY <1>9, <2>1, <2>2 DEF LoadLog
<1>10. ASSUME NEW p \in Runners, WriteLog(p) PROVE Types'
  BY <1>10 DEF WriteLog, Types
<1>11. ASSUME NEW p \in Runners, RenameLog(p) PROVE Types'
  <2>1. registry' \in Seq(Nat) /\ regtmp' \in Seq(Nat) \cup {NoLog}
    BY <1>11 DEF RenameLog, Types
  <2>2. entered' \in Seq(Nat)
    <3>1. mysnap[p] \in Nat /\ LogWithout(entered, mysnap[p]) \in Seq(Nat)
      BY WithoutType DEF Types
    <3>2. Append(LogWithout(entered, mysnap[p]), mysnap[p]) \in Seq(Nat) /\ <<>> \in Seq(Nat)
      BY <3>1
    <3> QED
      BY <1>11, <3>2 DEF RenameLog, Types
  <2>3. CASE Abort(p)
    <3>1. Places' /\ serving' \in BOOLEAN /\ cut' \in BOOLEAN
      BY <1>4, <2>3
    <3> QED
      BY <1>11, <2>1, <2>2, <3>1 DEF RenameLog, Types
  <2>4. CASE Advance(p) /\ UNCHANGED <<serving, cut>>
    <3>1. At(p, "register") \/ At(p, "prune")
      BY <1>11 DEF RenameLog, PlanInv
    <3>2. Places'
      BY <1>3, <2>4, <3>1
    <3> QED
      BY <1>11, <2>1, <2>2, <2>4, <3>2 DEF RenameLog, Types
  <2> QED
    BY <1>11, <2>3, <2>4 DEF RenameLog
<1>12. ASSUME NEW p \in Runners, SaveState(p) PROVE Types'
  <2>1. lastAuto' \in Nat /\ stamp' \in Nat
    BY <1>12 DEF SaveState, Types
  <2>2. Places'
    BY <1>3, <1>12 DEF SaveState
  <2> QED
    BY <1>12, <2>1, <2>2 DEF SaveState, Types
<1>13. ASSUME NEW p \in Runners, KillRunner(p) PROVE Types'
  <2>1. Places' /\ serving' \in BOOLEAN /\ cut' \in BOOLEAN
    BY <1>4, <1>13 DEF KillRunner
  <2> QED
    BY <1>13, <2>1 DEF KillRunner, Types
<1>14. CASE ClockTick
  BY <1>0, <1>14 DEF ClockTick, Types
<1>15. ASSUME NEW t \in 1 .. MaxClock, SetClock(t) PROVE Types'
  BY <1>0, <1>15 DEF SetClock, Types
<1>16. CASE UNCHANGED upkeepVars
  BY <1>16 DEF upkeepVars, Types
<1>17. ASSUME NEW p \in Runners, Passes(p) PROVE Types'
  <2>1. Places'
    BY <1>3, <1>17 DEF Passes
  <2> QED
    BY <1>17, <2>1 DEF Passes, Types
<1> QED
  BY <1>5, <1>6, <1>7, <1>8, <1>9, <1>10, <1>11, <1>12, <1>13, <1>14, <1>15, <1>16, <1>17,
     PinsAndGc DEF UpkeepNext

-----------------------------------------------------------------------------
(* Steps and plans                                                         *)

CommandPlans == {SnapshotSteps, DueSteps, NotDueSteps, ForceSteps}

\* The steps by what they do to plans and logs.
LEMMA StepKinds ==
  ASSUME [UpkeepNext]_upkeepVars
  PROVE  \/ UNCHANGED <<plan, wrote, mylog, mysnap, made, registry, regtmp, entered,
                        overlapped, cut>>
         \/ \E p \in Runners, s \in CommandPlans :
              Begin(p, s) /\ UNCHANGED <<mylog, mysnap, made, registry, regtmp, entered>>
         \/ \E p \in Runners : \/ CommitSnapshot(p) \/ LoadLog(p) \/ WriteLog(p)
                               \/ RenameLog(p) \/ SaveState(p) \/ KillRunner(p)
                               \/ Passes(p)
<1> USE DEF upkeepFiles, upkeepTime, upkeepLocals, upkeepGhosts
<1>1. CASE UserAdd \/ StartScheduler \/ EndScheduler
  BY <1>1 DEF UserAdd, StartScheduler, EndScheduler
<1>2. CASE ClockTick \/ (\E t \in 1 .. MaxClock : SetClock(t))
  BY <1>2 DEF ClockTick, SetClock
<1>3. CASE UNCHANGED upkeepVars
  BY <1>3 DEF upkeepVars
<1>4. CASE UserSnapshot
  BY <1>4 DEF UserSnapshot, CommandPlans, Runners
<1>5. CASE RunTick
  BY <1>5 DEF RunTick, CommandPlans, Runners
<1> QED
  BY <1>1, <1>2, <1>3, <1>4, <1>5, PinsAndGc DEF UpkeepNext

\* A plan without its first step.
LEMMA Advanced ==
  ASSUME Types, PlanInv, NEW p \in Runners, plan[p] # <<>>, Advance(p)
  PROVE  /\ plan'[p] = Tail(plan[p]) /\ wrote'[p] = "start"
         /\ \A q \in Runners \ {p} : plan'[q] = plan[q] /\ wrote'[q] = wrote[q] /\ mylog'[q] = mylog[q]
         /\ \A i \in DOMAIN plan'[p] :
              /\ plan'[p][i].do # "commit"
              /\ plan'[p][i].do = "register" =>
                   \E j \in DOMAIN plan'[p] : j > i /\ plan'[p][j].do = "prune"
              /\ plan'[p][i].do = "save" =>
                   /\ \A j \in DOMAIN plan'[p] : plan'[p][j].do = "save" => j = i
                   /\ ~At(p, "save")
<1>1. plan'[p] = Tail(plan[p]) /\ wrote'[p] = "start"
      /\ \A q \in Runners \ {p} : plan'[q] = plan[q] /\ wrote'[q] = wrote[q] /\ mylog'[q] = mylog[q]
  BY DEF Advance, GoOn, Types
<1>2. ASSUME NEW i \in DOMAIN Tail(plan[p])
      PROVE  /\ Tail(plan[p])[i].do # "commit"
             /\ Tail(plan[p])[i].do = "register" =>
                  \E j \in DOMAIN Tail(plan[p]) : j > i /\ Tail(plan[p])[j].do = "prune"
             /\ Tail(plan[p])[i].do = "save" =>
                  /\ \A j \in DOMAIN Tail(plan[p]) : Tail(plan[p])[j].do = "save" => j = i
                  /\ ~At(p, "save")
  <2>0. plan[p] \in Seq(Steps) /\ i \in Nat \ {0}
    BY DEF Types
  <2>1. i + 1 \in DOMAIN plan[p] /\ Tail(plan[p])[i] = plan[p][i + 1] /\ i + 1 # 1
    BY <2>0, <1>2, TailOfPlan
  <2>2. Tail(plan[p])[i].do # "commit"
    BY <2>1 DEF PlanInv
  <2>3. ASSUME Tail(plan[p])[i].do = "register"
        PROVE  \E j \in DOMAIN Tail(plan[p]) : j > i /\ Tail(plan[p])[j].do = "prune"
    <3>1. PICK j \in DOMAIN plan[p] : j > i + 1 /\ plan[p][j].do = "prune"
      BY <2>1, <2>3 DEF PlanInv
    <3>2. j \in Nat /\ j - 1 \in DOMAIN Tail(plan[p]) /\ plan[p][j] = Tail(plan[p])[j - 1]
      BY <2>0, <3>1, TailOfPlan
    <3>3. j - 1 > i
      BY <2>0, <3>1, <3>2
    <3> QED
      BY <3>1, <3>2, <3>3
  <2>4. ASSUME Tail(plan[p])[i].do = "save"
        PROVE  /\ \A j \in DOMAIN Tail(plan[p]) : Tail(plan[p])[j].do = "save" => j = i
               /\ ~At(p, "save")
    <3>1. \A j \in DOMAIN plan[p] : plan[p][j].do = "save" => j = i + 1
      BY <2>1, <2>4 DEF PlanInv
    <3>2. ASSUME NEW j \in DOMAIN Tail(plan[p]), Tail(plan[p])[j].do = "save" PROVE j = i
      <4>1. j + 1 \in DOMAIN plan[p] /\ plan[p][j + 1].do = "save" /\ j \in Nat
        BY <2>0, <3>2, TailOfPlan
      <4>2. j + 1 = i + 1
        BY <3>1, <4>1
      <4> QED
        BY <2>0, <4>1, <4>2
    <3>3. 1 \in DOMAIN plan[p] /\ Head(plan[p]) = plan[p][1]
      BY <2>0
    <3>4. ~At(p, "save")
      BY <2>1, <3>1, <3>3 DEF At
    <3> QED
      BY <3>2, <3>4
  <2> QED
    BY <2>2, <2>3, <2>4
<1> QED
  BY <1>1, <1>2

LEMMA PlanInit == UpkeepInit => PlanInv
BY DEF UpkeepInit, PlanInv

\* A step of a plan.
LEMMA StepsAt ==
  ASSUME Types, PlanInv, NEW p \in Runners,
         \/ CommitSnapshot(p) \/ LoadLog(p) \/ WriteLog(p) \/ RenameLog(p) \/ SaveState(p)
         \/ Passes(p)
  PROVE  \E x \in {"commit", "register", "prune", "save", "pins", "gc"} :
           At(p, x) /\ plan[p] # <<>>
BY DEF CommitSnapshot, LoadLog, WriteLog, RenameLog, SaveState, Passes, PlanInv, At, Busy

LEMMA PlanNext == Types /\ PlanInv /\ [UpkeepNext]_upkeepVars => PlanInv'
<1> SUFFICES ASSUME Types, PlanInv, [UpkeepNext]_upkeepVars PROVE PlanInv'
  OBVIOUS
<1>1. CASE UNCHANGED <<plan, wrote>>
  BY <1>1 DEF PlanInv, At, Busy
<1>2. ASSUME NEW p \in Runners, NEW s \in CommandPlans, Begin(p, s) PROVE PlanInv'
  <2>1. plan'[p] = s /\ wrote'[p] = "start"
        /\ \A q \in Runners \ {p} : plan'[q] = plan[q] /\ wrote'[q] = wrote[q]
    BY <1>2 DEF Begin, Types
  <2> QED
    BY <2>1, PlansPrune DEF PlanInv, At, Busy, CommandPlans
<1>3. ASSUME NEW p \in Runners, plan[p] # <<>>, Advance(p) PROVE PlanInv'
  BY <1>3, Advanced DEF PlanInv, At, Busy
<1>4. ASSUME NEW p \in Runners, Abort(p) PROVE PlanInv'
  <2>1. plan'[p] = <<>> /\ wrote'[p] = "start"
        /\ \A q \in Runners \ {p} : plan'[q] = plan[q] /\ wrote'[q] = wrote[q]
    BY <1>4 DEF Abort, GoOn, Types
  <2> QED
    BY <2>1 DEF PlanInv, At, Busy
<1>5. ASSUME NEW p \in Runners, UNCHANGED plan, \A q \in Runners \ {p} : wrote'[q] = wrote[q],
             At(p, "register") \/ At(p, "prune")
      PROVE PlanInv'
  BY <1>5 DEF PlanInv, At, Busy
<1>6. ASSUME NEW p \in Runners, LoadLog(p) PROVE PlanInv'
  <2>1. plan[p] # <<>>
    BY <1>6, StepsAt
  <2> QED
    BY <1>3, <1>5, <1>6, <2>1 DEF LoadLog, Types
<1>7. ASSUME NEW p \in Runners, WriteLog(p) PROVE PlanInv'
  BY <1>5, <1>7 DEF WriteLog, PlanInv, Types
<1>8. ASSUME NEW p \in Runners,
             \/ CommitSnapshot(p) \/ SaveState(p) \/ RenameLog(p) \/ KillRunner(p)
             \/ Passes(p)
      PROVE  PlanInv'
  <2>1. Abort(p) \/ (Advance(p) /\ plan[p] # <<>>)
    BY <1>8, StepsAt DEF CommitSnapshot, SaveState, RenameLog, KillRunner, Passes
  <2> QED
    BY <1>3, <1>4, <2>1
<1> QED
  BY <1>1, <1>2, <1>6, <1>7, <1>8, StepKinds

-----------------------------------------------------------------------------
(* Retention                                                               *)

\* A prune that is still to come keeps coming.
LEMMA PruningStays ==
  ASSUME Types, PlanInv, NEW p \in Runners
  PROVE  /\ Has(Tail(plan[p]), "prune") /\ plan[p] # <<>> /\ Advance(p) => Pruning(p)'
         /\ plan'[p] = plan[p] /\ wrote'[p] = wrote[p] => (Pruning(p)' <=> Pruning(p))
         /\ At(p, "register") => Has(Tail(plan[p]), "prune") /\ Pruning(p)
<1>0. plan[p] \in Seq(Steps)
  BY DEF Types
<1>1. ASSUME Has(Tail(plan[p]), "prune"), plan[p] # <<>>, Advance(p) PROVE Pruning(p)'
  <2>1. plan'[p] = Tail(plan[p]) /\ wrote'[p] = "start" /\ Tail(plan[p]) \in Seq(Steps)
    BY <1>0, <1>1, Advanced, TailOfPlan
  <2>2. plan'[p] # <<>>
    BY <1>1, <2>1 DEF Has
  <2>3. Has(Tail(plan'[p]), "prune") \/ Head(plan'[p]).do = "prune"
    <3>1. Has(plan'[p], "prune") /\ plan'[p] \in Seq(Steps)
      BY <1>1, <2>1
    <3> QED
      BY <2>2, <3>1, TailOfPlan
  <2> QED
    BY <2>1, <2>2, <2>3 DEF Pruning, Busy, At
<1>2. plan'[p] = plan[p] /\ wrote'[p] = wrote[p] => (Pruning(p)' <=> Pruning(p))
  BY DEF Pruning, Busy, At
<1>3. ASSUME At(p, "register") PROVE Has(Tail(plan[p]), "prune") /\ Pruning(p)
  <2>1. plan[p] # <<>> /\ 1 \in DOMAIN plan[p] /\ plan[p][1].do = "register"
    BY <1>0, <1>3 DEF At, Busy
  <2>2. PICK j \in DOMAIN plan[p] : j > 1 /\ plan[p][j].do = "prune"
    BY <2>1 DEF PlanInv
  <2>3. j # 1
    BY <2>2
  <2>4. j - 1 \in DOMAIN Tail(plan[p]) /\ plan[p][j] = Tail(plan[p])[j - 1]
    BY <1>0, <2>1, <2>3, TailOfPlan
  <2> QED
    BY <2>1, <2>2, <2>4 DEF Has, Pruning, Busy
<1> QED
  BY <1>1, <1>2, <1>3

\* What a prune leaves is short.
LEMMA PrunedShort ==
  ASSUME Types, KeepNewest > 0, NEW p \in Runners, At(p, "prune")
  PROVE  ~TooLong(NewLog(p))
<1>1. ~At(p, "register")
  BY DEF At
<1>2. registry \in Seq(Nat) /\ KeepNewest \in Nat
  BY UpkeepAssumption DEF Types
<1>3. CASE Len(registry) <= KeepNewest
  BY <1>1, <1>2, <1>3 DEF NewLog, TooLong
<1>4. CASE ~(Len(registry) <= KeepNewest)
  <2>1. NewLog(p) = SubSeq(registry, Len(registry) - KeepNewest + 1, Len(registry))
    BY <1>1, <1>2, <1>4 DEF NewLog
  <2> QED
    BY <1>2, <1>4, <2>1 DEF TooLong
<1> QED
  BY <1>3, <1>4

LEMMA RetentionInit == UpkeepInit => RetentionInv
BY UpkeepAssumption DEF UpkeepInit, RetentionInv, TooLong

LEMMA RetentionNext == Types /\ PlanInv /\ RetentionInv /\ [UpkeepNext]_upkeepVars => RetentionInv'
<1> SUFFICES ASSUME Types, PlanInv, RetentionInv, [UpkeepNext]_upkeepVars, KeepNewest > 0
             PROVE  RetentionInv'
  BY DEF RetentionInv
<1> USE DEF upkeepFiles, upkeepTime, upkeepLocals, upkeepGhosts
<1> DEFINE Waits(p) == At(p, "prune") /\ wrote[p] = "rename" /\ regtmp # NoLog /\ ~TooLong(regtmp)
<1>0. \A p \in Runners : ~Busy(p) => wrote[p] = "start"
  BY DEF PlanInv, At, Types
<1>1. CASE UNCHANGED <<plan, wrote, mylog, registry, regtmp, cut>>
  BY <1>1 DEF RetentionInv, Pruning, At, Busy
<1>2. ASSUME NEW p \in Runners, NEW s \in CommandPlans, Begin(p, s),
             UNCHANGED <<mylog, registry, regtmp>>
      PROVE  RetentionInv'
  <2>1. plan'[p] = s /\ wrote'[p] = "start" /\ ~Busy(p)
        /\ \A q \in Runners \ {p} : plan'[q] = plan[q] /\ wrote'[q] = wrote[q]
    BY <1>2 DEF Begin, Types
  <2>2. Pruning(p)'
    <3>1. s \in Seq(Steps) /\ s # <<>> /\ Has(s, "prune")
      BY Plans, PlansPrune DEF CommandPlans
    <3>2. Has(Tail(s), "prune") \/ Head(s).do = "prune"
      BY <3>1, TailOfPlan
    <3> QED
      BY <2>1, <3>1, <3>2 DEF Pruning, Busy, At
  <2>3. CASE AtRest
    <3>1. \A q \in Runners : wrote'[q] = "start"
      BY <1>0, <2>1, <2>3 DEF AtRest
    <3> QED
      BY <2>2, <3>1 DEF RetentionInv
  <2>4. CASE ~AtRest
    <3>1. cut' = cut
      BY <1>2, <2>4 DEF Begin, Types
    <3>2. \A q \in Runners : wrote'[q] # "start" => q # p /\ wrote'[q] = wrote[q] /\ plan'[q] = plan[q]
      BY <2>1
    <3>3. \A q \in Runners : At(q, "register") => q # p
      BY <2>1 DEF At
    <3> QED
      BY <1>2, <2>1, <2>2, <3>1, <3>2, <3>3 DEF RetentionInv, At, Busy
  <2> QED
    BY <2>3, <2>4
\* A step that is over, and left the logs alone.
<1>3. ASSUME NEW p \in Runners, plan[p] # <<>>, Advance(p), UNCHANGED <<registry, regtmp, cut>>,
             wrote[p] = "start",
             ~At(p, "prune") \/ ~TooLong(registry)
      PROVE  RetentionInv'
  <2>1. plan'[p] = Tail(plan[p]) /\ wrote'[p] = "start"
        /\ \A q \in Runners \ {p} : plan'[q] = plan[q] /\ wrote'[q] = wrote[q] /\ mylog'[q] = mylog[q]
    BY <1>3, Advanced
  <2>2. \A q \in Runners : Pruning(q) /\ TooLong(registry) => Pruning(q)'
    BY <1>3, <2>1, PruningStays DEF Pruning
  <2>3. \A q \in Runners : wrote[q] # "start" =>
          /\ q # p /\ wrote'[q] = wrote[q] /\ mylog'[q] = mylog[q]
          /\ \A x : At(q, x)' <=> At(q, x)
    BY <1>3, <2>1 DEF At, Busy
  <2>4. \A q \in Runners : wrote'[q] # "start" => wrote[q] = wrote'[q]
    BY <2>1
  <2> QED
    BY <1>3, <2>2, <2>3, <2>4 DEF RetentionInv
<1>4. ASSUME NEW p \in Runners, CommitSnapshot(p) \/ SaveState(p) \/ Passes(p)
      PROVE  RetentionInv'
  <2>1. plan[p] # <<>> /\ Advance(p) /\ UNCHANGED <<registry, regtmp, cut>> /\ ~At(p, "prune")
        /\ ~At(p, "register")
    BY <1>4 DEF CommitSnapshot, SaveState, Passes, At, Busy
  <2>2. wrote[p] = "start"
    BY <2>1 DEF PlanInv
  <2> QED
    BY <1>3, <2>1, <2>2
<1>5. ASSUME NEW p \in Runners, LoadLog(p) PROVE RetentionInv'
  <2>1. CASE At(p, "prune") /\ NewLog(p) = registry
    <3>1. ~TooLong(registry)
      BY <2>1, PrunedShort
    <3> QED
      BY <1>3, <1>5, <2>1, <3>1, StepsAt DEF LoadLog
  <2>2. CASE ~(At(p, "prune") /\ NewLog(p) = registry)
    <3>1. /\ mylog'[p] = NewLog(p) /\ wrote'[p] = "write" /\ wrote[p] = "start"
          /\ UNCHANGED <<plan, registry, regtmp, cut>>
          /\ \A q \in Runners \ {p} : wrote'[q] = wrote[q] /\ mylog'[q] = mylog[q]
      BY <1>5, <2>2 DEF LoadLog, Types
    <3>2. \A q \in Runners : Pruning(q) => Pruning(q)'
      BY <3>1 DEF Pruning, At, Busy
    <3>3. \A q \in Runners : \A x : At(q, x)' <=> At(q, x)
      BY <3>1 DEF At, Busy
    <3>4. At(p, "prune") => ~TooLong(mylog'[p])
      BY <3>1, PrunedShort
    <3> QED
      BY <3>1, <3>2, <3>3, <3>4 DEF RetentionInv
  <2> QED
    BY <2>1, <2>2
<1>6. ASSUME NEW p \in Runners, WriteLog(p) PROVE RetentionInv'
  <2>1. /\ wrote[p] = "write" /\ regtmp' = mylog[p] /\ wrote'[p] = "rename"
        /\ UNCHANGED <<registry, plan, mylog, cut>>
        /\ \A q \in Runners \ {p} : wrote'[q] = wrote[q]
    BY <1>6 DEF WriteLog, Types
  <2>2. mylog[p] # NoLog
    BY UpkeepAssumption DEF Types
  <2>3. \A q \in Runners : \A x : At(q, x)' <=> At(q, x)
    BY <2>1 DEF At, Busy
  <2>4. \A q \in Runners \ {p} : Pruning(q)' <=> Pruning(q)
    BY <2>1, PruningStays
  <2>5. At(p, "register") \/ At(p, "prune")
    BY <2>1 DEF PlanInv
  <2>6. CASE At(p, "register")
    <3>1. Pruning(p)'
      BY <2>1, <2>6, PruningStays DEF Pruning, Busy, At
    <3> QED
      BY <2>1, <2>3, <2>6, <3>1 DEF RetentionInv
  <2>7. CASE At(p, "prune")
    <3>1. ~TooLong(mylog[p])
      BY <2>1, <2>7 DEF RetentionInv
    <3> QED
      BY <2>1, <2>2, <2>3, <2>7, <3>1 DEF RetentionInv
  <2> QED
    BY <2>5, <2>6, <2>7
<1>7. ASSUME NEW p \in Runners, RenameLog(p) PROVE RetentionInv'
  <2>1. wrote[p] = "rename" /\ plan[p] # <<>> /\ (Abort(p) \/ (Advance(p) /\ UNCHANGED cut))
    BY <1>7, StepsAt DEF RenameLog
  <2>2. regtmp' = NoLog
    BY <1>7 DEF RenameLog
  <2>3. CASE Abort(p)
    <3>1. cut' = TRUE /\ plan'[p] = <<>> /\ wrote'[p] = "start"
          /\ \A q \in Runners \ {p} : plan'[q] = plan[q] /\ wrote'[q] = wrote[q] /\ mylog'[q] = mylog[q]
      BY <2>3 DEF Abort, GoOn, Types
    <3> QED
      BY <3>1 DEF RetentionInv, At, Busy
  <2>4. CASE Advance(p) /\ UNCHANGED cut
    <3>1. plan'[p] = Tail(plan[p]) /\ wrote'[p] = "start"
          /\ \A q \in Runners \ {p} : plan'[q] = plan[q] /\ wrote'[q] = wrote[q] /\ mylog'[q] = mylog[q]
      BY <2>1, <2>4, Advanced
    <3>2. \A q \in Runners : At(q, "prune")' /\ wrote'[q] # "start" => ~TooLong(mylog'[q])
      BY <3>1 DEF RetentionInv, At, Busy
    <3>3. \A q \in Runners : Pruning(q) => Pruning(q)'
      BY <2>1, <2>4, <3>1, PruningStays DEF Pruning
    <3>4. ASSUME ~cut, TooLong(registry') PROVE \E q \in Runners : Pruning(q)
      <4>1. CASE regtmp = NoLog
        <5>1. registry' = registry
          BY <1>7, <4>1 DEF RenameLog
        <5> QED
          BY <3>4, <4>1, <5>1 DEF RetentionInv
      <4>2. CASE regtmp # NoLog
        <5>1. registry' = regtmp
          BY <1>7, <4>2 DEF RenameLog
        <5>2. PICK q \in Runners : At(q, "register")
          BY <2>1, <3>4, <4>2, <5>1 DEF RetentionInv
        <5> QED
          BY <5>2, PruningStays
      <4> QED
        BY <4>1, <4>2
    <3> QED
      BY <2>2, <2>4, <3>2, <3>3, <3>4 DEF RetentionInv
  <2> QED
    BY <2>1, <2>3, <2>4
<1>8. ASSUME NEW p \in Runners, KillRunner(p) PROVE RetentionInv'
  <2>1. cut' = TRUE /\ plan'[p] = <<>> /\ wrote'[p] = "start"
        /\ \A q \in Runners \ {p} : plan'[q] = plan[q] /\ wrote'[q] = wrote[q] /\ mylog'[q] = mylog[q]
    BY <1>8 DEF KillRunner, Abort, GoOn, Types
  <2> QED
    BY <2>1 DEF RetentionInv, At, Busy
<1> QED
  BY <1>1, <1>2, <1>4, <1>5, <1>6, <1>7, <1>8, StepKinds

-----------------------------------------------------------------------------
(* The registry and what was entered                                       *)

Dated(all, last) == \A i \in DOMAIN all : all[i] <= last /\ (i < Len(all) => all[i] < last)


LEMMA LatestAt ==
  ASSUME NEW s \in Seq(Nat), NEW k \in 0 .. Len(s)
  PROVE  /\ Latest(s, k) \in Seq(Nat) /\ Len(Latest(s, k)) = k
         /\ \A i \in 1 .. k : /\ Latest(s, k)[i] = s[Len(s) - k + i]
                              /\ Len(s) - k + i \in 1 .. Len(s)
<1>1. Len(s) \in Nat /\ k \in Nat /\ k <= Len(s)
  OBVIOUS
<1>2. Latest(s, k) \in Seq(Nat) /\ Len(Latest(s, k)) = k
  <2>1. CASE k = 0
    BY <1>1, <2>1 DEF Latest
  <2>2. CASE k # 0
    BY <1>1, <2>2 DEF Latest
  <2> QED
    BY <2>1, <2>2
<1>3. ASSUME NEW i \in 1 .. k
      PROVE  Latest(s, k)[i] = s[Len(s) - k + i] /\ Len(s) - k + i \in 1 .. Len(s)
  <2>1. Len(s) - k + 1 \in 1 .. Len(s) /\ (Len(s) - k + 1) + i - 1 = Len(s) - k + i
    BY <1>1
  <2>2. Len(s) - k + i \in 1 .. Len(s)
    BY <1>1
  <2> QED
    BY <1>1, <2>1, <2>2 DEF Latest
<1> QED
  BY <1>2, <1>3

LEMMA Appended ==
  ASSUME NEW s \in Seq(Nat), NEW c \in Nat
  PROVE  /\ Append(s, c) \in Seq(Nat) /\ Len(Append(s, c)) = Len(s) + 1
         /\ \A i \in 1 .. Len(s) : Append(s, c)[i] = s[i]
         /\ Append(s, c)[Len(s) + 1] = c
OBVIOUS

LEMMA SameLog ==
  ASSUME NEW s \in Seq(Nat), NEW t \in Seq(Nat), Len(s) = Len(t),
         \A i \in 1 .. Len(s) : s[i] = t[i]
  PROVE  s = t
OBVIOUS

\* What the newest are, entry by entry.
LEMMA NewestAt ==
  ASSUME NEW log \in Seq(Nat), NEW all \in Seq(Nat)
  PROVE  Newest(log, all) <=>
           /\ Len(log) <= Len(all)
           /\ \A i \in 1 .. Len(log) : /\ log[i] = all[Len(all) - Len(log) + i]
                                       /\ Len(all) - Len(log) + i \in 1 .. Len(all)
           /\ KeepNewest = 0 \/ Len(log) < KeepNewest => log = all
<1>1. SUFFICES ASSUME Len(log) <= Len(all)
               PROVE  log = Latest(all, Len(log)) <=>
                        \A i \in 1 .. Len(log) :
                          /\ log[i] = all[Len(all) - Len(log) + i]
                          /\ Len(all) - Len(log) + i \in 1 .. Len(all)
  BY DEF Newest
<1>2. Len(log) \in 0 .. Len(all)
  BY <1>1
<1>3. /\ Latest(all, Len(log)) \in Seq(Nat) /\ Len(Latest(all, Len(log))) = Len(log)
      /\ \A i \in 1 .. Len(log) :
           /\ Latest(all, Len(log))[i] = all[Len(all) - Len(log) + i]
           /\ Len(all) - Len(log) + i \in 1 .. Len(all)
  BY <1>2, LatestAt
<1>4. ASSUME \A i \in 1 .. Len(log) : log[i] = all[Len(all) - Len(log) + i]
      PROVE  log = Latest(all, Len(log))
  <2>1. \A i \in 1 .. Len(log) : log[i] = Latest(all, Len(log))[i]
    BY <1>3, <1>4
  <2> QED
    BY <1>3, <2>1, SameLog
<1> QED
  BY <1>3, <1>4

\* An entry becomes the newest of both.
LEMMA NewestEntered ==
  ASSUME NEW log \in Seq(Nat), NEW all \in Seq(Nat), NEW c \in Nat,
         Newest(log, all), Dated(all, c)
  PROVE  /\ Newest(Append(LogWithout(log, c), c), Append(LogWithout(all, c), c))
         /\ Dated(Append(LogWithout(all, c), c), c)
<1> DEFINE n == Len(all)
           k == Len(log)
<1>0. n \in Nat /\ k \in Nat /\ k <= n /\ KeepNewest \in Nat
      /\ (KeepNewest = 0 \/ k < KeepNewest => log = all)
  BY UpkeepAssumption DEF Newest
<1>1. \A i \in 1 .. k : log[i] = all[n - k + i] /\ n - k + i \in 1 .. n
  BY NewestAt
<1>2. /\ \A i \in 1 .. n - 1 : all[i] # c
      /\ \A i \in 1 .. k - 1 : log[i] # c
  <2>1. ASSUME NEW i \in 1 .. n - 1 PROVE all[i] # c
    <3>1. i \in DOMAIN all /\ i < n /\ all[i] \in Nat
      BY <1>0
    <3> QED
      BY <3>1 DEF Dated
  <2>2. ASSUME NEW i \in 1 .. k - 1 PROVE log[i] # c
    <3>1. i \in 1 .. k /\ n - k + i \in 1 .. n - 1
      BY <1>0
    <3> QED
      BY <1>1, <2>1, <3>1
  <2> QED
    BY <2>1, <2>2
<1>3. /\ LogWithout(all, c) = IF all # <<>> /\ all[n] = c THEN SubSeq(all, 1, n - 1) ELSE all
      /\ LogWithout(log, c) = IF log # <<>> /\ log[k] = c THEN SubSeq(log, 1, k - 1) ELSE log
  BY <1>2, WithoutTip
<1>4. log # <<>> => k > 0 /\ log[k] = all[n] /\ all # <<>>
  <2> SUFFICES ASSUME log # <<>> PROVE k > 0 /\ log[k] = all[n] /\ all # <<>>
    OBVIOUS
  <2>1. k \in 1 .. k /\ n > 0 /\ n - k + k = n
    BY <1>0
  <2>2. log[k] = all[n - k + k]
    BY <1>1, <2>1
  <2>3. log[k] = all[n]
    BY <2>1, <2>2
  <2> QED
    BY <2>1, <2>3
<1>5. CASE all # <<>> /\ all[n] = c
  <2>1. Append(LogWithout(all, c), c) = all
    <3>1. LogWithout(all, c) = SubSeq(all, 1, n - 1)
      BY <1>3, <1>5
    <3>2. n # 0
      BY <1>5
    <3>3. Append(SubSeq(all, 1, n - 1), all[n]) = all
      BY <3>2
    <3> QED
      BY <1>5, <3>1, <3>3
  <2>2. log # <<>>
    <3>1. SUFFICES ASSUME log = <<>> PROVE FALSE
      OBVIOUS
    <3>2. k = 0
      BY <3>1
    <3> QED
      BY <1>0, <1>5, <3>1, <3>2
  <2>3. Append(LogWithout(log, c), c) = log
    <3>1. log[k] = c /\ k # 0
      BY <1>4, <1>5, <2>2
    <3>2. LogWithout(log, c) = SubSeq(log, 1, k - 1)
      BY <1>3, <2>2, <3>1
    <3>3. Append(SubSeq(log, 1, k - 1), log[k]) = log
      BY <3>1
    <3> QED
      BY <3>1, <3>2, <3>3
  <2> QED
    BY <2>1, <2>3
<1>6. CASE ~(all # <<>> /\ all[n] = c)
  <2>1. LogWithout(all, c) = all /\ LogWithout(log, c) = log
    BY <1>3, <1>4, <1>6
  <2> DEFINE log2 == Append(log, c)
             all2 == Append(all, c)
  <2>2. /\ log2 \in Seq(Nat) /\ Len(log2) = k + 1 /\ log2[k + 1] = c
        /\ all2 \in Seq(Nat) /\ Len(all2) = n + 1 /\ all2[n + 1] = c
        /\ \A i \in 1 .. k : log2[i] = log[i]
        /\ \A i \in 1 .. n : all2[i] = all[i]
    BY Appended
  <2>3. KeepNewest = 0 \/ k + 1 < KeepNewest => log2 = all2
    BY <1>0
  <2> HIDE DEF log2, all2
  <2>4. Newest(log2, all2)
    <3>1. ASSUME NEW i \in 1 .. k + 1
          PROVE  log2[i] = all2[(n + 1) - (k + 1) + i] /\ (n + 1) - (k + 1) + i \in 1 .. n + 1
      <4>1. CASE i = k + 1
        <5>1. (n + 1) - (k + 1) + i = n + 1
          BY <1>0, <4>1
        <5>2. log2[i] = c /\ all2[n + 1] = c
          BY <2>2, <4>1
        <5>3. n + 1 \in 1 .. n + 1
          BY <1>0
        <5> QED
          BY <5>1, <5>2, <5>3
      <4>2. CASE i # k + 1
        <5>1. i \in 1 .. k /\ (n + 1) - (k + 1) + i = n - k + i
          BY <1>0, <4>2
        <5>2. log[i] = all[n - k + i] /\ n - k + i \in 1 .. n
          BY <1>1, <5>1
        <5>3. n - k + i \in 1 .. n + 1
          BY <1>0, <5>2
        <5> QED
          BY <2>2, <5>1, <5>2, <5>3
      <4> QED
        BY <4>1, <4>2
    <3>2. Len(log2) <= Len(all2)
      BY <1>0, <2>2
    <3> HIDE DEF n, k
    <3> QED
      BY <2>2, <2>3, <3>1, <3>2, NewestAt
  <2>5. Dated(all2, c)
    <3>1. ASSUME NEW i \in 1 .. n + 1
          PROVE all2[i] <= c /\ (i < n + 1 => all2[i] < c)
      <4>1. CASE i = n + 1
        <5>1. all2[i] = c /\ c <= c
          BY <2>2, <4>1
        <5>2. ~(i < n + 1)
          BY <1>0, <4>1
        <5> QED
          BY <5>1, <5>2
      <4>2. CASE i # n + 1
        <5>1. i \in 1 .. n
          BY <1>0, <4>2
        <5>2. i \in DOMAIN all /\ all2[i] = all[i] /\ all[i] \in Nat
          <6>1. i \in DOMAIN all
            BY <5>1
          <6>2. all[i] \in Nat
            BY <6>1
          <6>3. all2[i] = all[i]
            BY <2>2, <5>1
          <6> QED
            BY <6>1, <6>2, <6>3
        <5>3. all[i] # c
          <6>1. CASE i = n
            BY <1>6, <5>1, <6>1
          <6>2. CASE i # n
            BY <1>0, <1>2, <5>1, <6>2
          <6> QED
            BY <6>1, <6>2
        <5>4. all[i] <= c
          BY <5>2 DEF Dated
        <5> QED
          BY <5>2, <5>3, <5>4
      <4> QED
        BY <4>1, <4>2
    <3> QED
      BY <1>0, <2>2, <3>1 DEF Dated
  <2> QED
    BY <2>1, <2>4, <2>5 DEF log2, all2
<1> QED
  BY <1>5, <1>6

\* The newest of the newest.
LEMMA NewestPruned ==
  ASSUME NEW log \in Seq(Nat), NEW all \in Seq(Nat), Newest(log, all),
         KeepNewest # 0, Len(log) > KeepNewest
  PROVE  Newest(Latest(log, KeepNewest), all)
<1> DEFINE n == Len(all)
           k == Len(log)
           u == Latest(log, KeepNewest)
<1>0. n \in Nat /\ k \in Nat /\ k <= n /\ KeepNewest \in Nat \ {0} /\ KeepNewest < k
      /\ KeepNewest \in 0 .. k /\ KeepNewest <= n
  BY UpkeepAssumption DEF Newest
<1>1. /\ u \in Seq(Nat) /\ Len(u) = KeepNewest
      /\ \A i \in 1 .. KeepNewest : u[i] = log[k - KeepNewest + i]
                                    /\ k - KeepNewest + i \in 1 .. k
  BY <1>0, LatestAt
<1>2. \A j \in 1 .. k : log[j] = all[n - k + j] /\ n - k + j \in 1 .. n
  BY NewestAt
<1> HIDE DEF u
<1>3. ASSUME NEW i \in 1 .. KeepNewest
      PROVE u[i] = all[n - KeepNewest + i] /\ n - KeepNewest + i \in 1 .. n
  <2>1. n - k + (k - KeepNewest + i) = n - KeepNewest + i
    BY <1>0
  <2> QED
    BY <1>1, <1>2, <2>1
<1> HIDE DEF n, k
<1>4. Newest(u, all)
  <2>1. /\ Len(u) <= Len(all) /\ ~(KeepNewest = 0 \/ Len(u) < KeepNewest)
        /\ \A i \in 1 .. Len(u) : /\ u[i] = all[Len(all) - Len(u) + i]
                                  /\ Len(all) - Len(u) + i \in 1 .. Len(all)
    BY <1>0, <1>1, <1>3 DEF n
  <2> QED
    BY <1>1, <2>1, NewestAt
<1> QED
  BY <1>4 DEF u

\* Only one process does anything.
LEMMA Alone ==
  ASSUME Types, PlanInv, AloneInv, ~overlapped, NEW p \in Runners, plan[p] # <<>>
  PROVE  \A q \in Runners \ {p} : plan[q] = <<>> /\ wrote[q] = "start"
BY DEF AloneInv, PlanInv, At, Busy, Types

\* It has made the commit it registers.
LEMMA RegistersTip ==
  ASSUME Types, PlanInv, AloneInv, ~overlapped, NEW p \in Runners, Has(plan[p], "register"),
         ~At(p, "commit")
  PROVE  mysnap[p] = made
<1>1. plan[p] \in Seq(Steps)
  BY DEF Types
<1>2. ASSUME Has(plan[p], "commit") PROVE At(p, "commit")
  <2>1. PICK i \in DOMAIN plan[p] : plan[p][i].do = "commit"
    BY <1>2 DEF Has
  <2>2. i = 1
    BY <2>1 DEF PlanInv
  <2>3. plan[p] # <<>> /\ Head(plan[p]) = plan[p][1]
    BY <1>1, <2>1
  <2> QED
    BY <2>1, <2>2, <2>3 DEF At, Busy
<1> QED
  BY <1>2 DEF AloneInv

LEMMA AloneInit == UpkeepInit => AloneInv
<1> SUFFICES ASSUME UpkeepInit PROVE AloneInv
  OBVIOUS
<1>1. Newest(<<>>, <<>>)
  <2>1. SubSeq(<<>>, 1, 0) = <<>> /\ Len(<<>>) = 0
    OBVIOUS
  <2> QED
    BY <2>1 DEF Newest, Latest
<1>2. \A p \in Runners : ~Busy(p) /\ wrote[p] = "start" /\ ~Has(plan[p], "register")
  BY DuePlan DEF UpkeepInit, Busy
<1> QED
  BY <1>1, <1>2 DEF UpkeepInit, AloneInv

LEMMA AloneNext == Types /\ PlanInv /\ AloneInv /\ [UpkeepNext]_upkeepVars => AloneInv'
<1> SUFFICES ASSUME Types, PlanInv, AloneInv, [UpkeepNext]_upkeepVars, ~overlapped'
             PROVE  AloneInv'
  BY DEF AloneInv
<1> USE DEF upkeepFiles, upkeepTime, upkeepLocals, upkeepGhosts
<1>1. CASE UNCHANGED <<plan, wrote, mylog, mysnap, made, registry, regtmp, entered, overlapped>>
  BY <1>1 DEF AloneInv, NewLog, At, Busy
<1>2. ASSUME NEW p \in Runners, NEW s \in CommandPlans, Begin(p, s),
             UNCHANGED <<mylog, mysnap, made, registry, regtmp, entered>>
      PROVE  AloneInv'
  <2>1. AtRest /\ ~overlapped
    BY <1>2 DEF Begin, Types
  <2>2. plan'[p] = s /\ wrote'[p] = "start"
        /\ \A q \in Runners \ {p} : plan'[q] = <<>> /\ wrote'[q] = "start"
    BY <1>2, <2>1 DEF Begin, Types, AtRest, Busy, PlanInv, At
  <2>3. \A q \in Runners : wrote'[q] = "start"
    BY <2>2
  <2>4. \A q \in Runners : Has(plan'[q], "register") => Has(plan'[q], "commit")
    BY <2>2, PlansPrune, DuePlan DEF CommandPlans
  <2>5. \A q, r \in Runners : plan'[q] # <<>> /\ plan'[r] # <<>> => q = r
    BY <2>2
  <2> QED
    BY <1>2, <2>1, <2>3, <2>4, <2>5 DEF AloneInv, Busy
\* A step that is over.
<1>3. ASSUME NEW p \in Runners, plan[p] # <<>>, Advance(p), ~overlapped,
             mysnap'[p] = made' \/ (~At(p, "commit") /\ UNCHANGED <<mysnap, made>>),
             Dated(entered', made'), Newest(registry', entered')
      PROVE  AloneInv'
  <2>1. plan'[p] = Tail(plan[p]) /\ plan[p] \in Seq(Steps)
    BY <1>3, Advanced DEF Types
  <2>2. \A q \in Runners \ {p} : plan'[q] = <<>>
    BY <1>3, Alone, Advanced
  <2>3. \A q \in Runners : wrote'[q] = "start"
    BY <1>3, Alone, Advanced
  <2>4. Has(plan'[p], "register") => mysnap'[p] = made'
    <3>1. Has(plan'[p], "register") => Has(plan[p], "register")
      BY <1>3, <2>1, TailOfPlan
    <3> QED
      BY <1>3, <3>1, RegistersTip
  <2>5. \A q \in Runners : Has(plan'[q], "register") => mysnap'[q] = made'
    BY <2>2, <2>4, DuePlan
  <2>6. \A q, r \in Runners : plan'[q] # <<>> /\ plan'[r] # <<>> => q = r
    BY <2>2
  <2>7. \A i \in DOMAIN entered' : entered'[i] <= made' /\ (i < Len(entered') => entered'[i] < made')
    BY <1>3 DEF Dated
  <2> QED
    BY <1>3, <2>3, <2>5, <2>6, <2>7 DEF AloneInv, Busy
\* A file step.
<1>4. ASSUME NEW p \in Runners, plan[p] # <<>>, ~overlapped,
             UNCHANGED <<plan, registry, mysnap, made, entered>>,
             \A q \in Runners \ {p} : wrote'[q] = wrote[q],
             mylog'[p] = NewLog(p), wrote'[p] = "rename" => regtmp' = mylog'[p]
      PROVE  AloneInv'
  <2>1. \A q \in Runners \ {p} : wrote'[q] = "start"
    BY <1>4, Alone
  <2>2. NewLog(p)' = NewLog(p)
    BY <1>4 DEF NewLog, At, Busy
  <2>3. \A q \in Runners : /\ wrote'[q] # "start" => mylog'[q] = NewLog(q)'
                           /\ wrote'[q] = "rename" => regtmp' = mylog'[q]
    BY <1>4, <2>1, <2>2
  <2>4. /\ \A q \in Runners : Has(plan'[q], "register") => Has(plan'[q], "commit") \/ mysnap'[q] = made'
        /\ \A q, r \in Runners : plan'[q] # <<>> /\ plan'[r] # <<>> => q = r
        /\ \A i \in DOMAIN entered' : entered'[i] <= made' /\ (i < Len(entered') => entered'[i] < made')
        /\ Newest(registry', entered')
    BY <1>4 DEF AloneInv, Busy
  <2> QED
    BY <2>3, <2>4 DEF AloneInv, Busy
<1>5. ASSUME ~overlapped
      PROVE  /\ Dated(entered, made) /\ Dated(entered, made + 1) /\ Newest(registry, entered)
             /\ entered \in Seq(Nat) /\ registry \in Seq(Nat) /\ made \in Nat
  <2>1. Dated(entered, made) /\ Newest(registry, entered)
        /\ entered \in Seq(Nat) /\ registry \in Seq(Nat) /\ made \in Nat
    BY <1>5 DEF AloneInv, Dated, Types
  <2>2. \A i \in DOMAIN entered : entered[i] \in Nat
    BY <2>1
  <2> QED
    BY <2>1, <2>2 DEF Dated
<1>6. ASSUME NEW p \in Runners, CommitSnapshot(p) PROVE AloneInv'
  <2>1. /\ plan[p] # <<>> /\ Advance(p) /\ ~overlapped /\ mysnap'[p] = made' /\ made' = made + 1
        /\ UNCHANGED <<registry, entered>>
    BY <1>6 DEF CommitSnapshot, At, Busy, Types
  <2> QED
    BY <1>3, <1>5, <2>1
<1>7. ASSUME NEW p \in Runners, LoadLog(p) PROVE AloneInv'
  <2>1. ~overlapped /\ plan[p] # <<>> /\ ~At(p, "commit")
        /\ UNCHANGED <<registry, mysnap, made, entered>>
    BY <1>7 DEF LoadLog, At, Busy
  <2>2. CASE Advance(p)
    BY <1>3, <1>5, <2>1, <2>2
  <2>3. CASE ~Advance(p)
    <3>1. /\ mylog'[p] = NewLog(p) /\ wrote'[p] = "write" /\ UNCHANGED plan
          /\ \A q \in Runners \ {p} : wrote'[q] = wrote[q]
      BY <1>7, <2>3 DEF LoadLog, Types
    <3> QED
      BY <1>4, <2>1, <3>1
  <2> QED
    BY <2>2, <2>3
<1>8. ASSUME NEW p \in Runners, WriteLog(p) PROVE AloneInv'
  <2>1. /\ ~overlapped /\ plan[p] # <<>> /\ wrote[p] = "write"
        /\ UNCHANGED <<plan, registry, mysnap, made, entered, mylog>>
        /\ \A q \in Runners \ {p} : wrote'[q] = wrote[q]
        /\ regtmp' = mylog[p]
    BY <1>8, StepsAt DEF WriteLog, Types
  <2>2. mylog[p] = NewLog(p)
    BY <2>1 DEF AloneInv
  <2> QED
    BY <1>4, <2>1, <2>2
<1>9. ASSUME NEW p \in Runners, RenameLog(p) PROVE AloneInv'
  <2>1. ~overlapped /\ wrote[p] = "rename" /\ plan[p] # <<>> /\ UNCHANGED <<mysnap, made>>
    BY <1>9, StepsAt DEF RenameLog
  <2>2. regtmp = NewLog(p) /\ regtmp # NoLog
    <3>1. regtmp = NewLog(p)
      BY <2>1 DEF AloneInv
    <3>2. NewLog(p) \in Seq(Nat)
      BY LogTypes
    <3> QED
      BY <3>1, <3>2, UpkeepAssumption
  <2>3. /\ registry' = NewLog(p) /\ Advance(p)
        /\ entered' = IF At(p, "register") THEN Append(LogWithout(entered, mysnap[p]), mysnap[p])
                      ELSE entered
    BY <1>9, <2>1, <2>2 DEF RenameLog
  <2>4. ~At(p, "commit") /\ (At(p, "register") \/ At(p, "prune"))
    BY <2>1 DEF PlanInv, At
  <2>5. CASE At(p, "register")
    <3>1. mysnap[p] = made
      BY <2>1, <2>4, <2>5, CurrentLog, RegistersTip
    <3>2. /\ registry' = Append(LogWithout(registry, made), made)
          /\ entered' = Append(LogWithout(entered, made), made)
      BY <2>3, <2>5, <3>1 DEF NewLog
    <3>3. Newest(registry', entered') /\ Dated(entered', made)
      BY <1>5, <2>1, <3>2, NewestEntered
    <3> QED
      BY <1>3, <2>1, <2>3, <2>4, <3>3
  <2>6. CASE ~At(p, "register")
    <3>1. entered' = entered
      BY <2>3, <2>6
    <3>2. Newest(registry', entered)
      <4>1. CASE KeepNewest = 0 \/ Len(registry) <= KeepNewest
        BY <1>5, <2>1, <2>3, <2>6, <4>1 DEF NewLog
      <4>2. CASE ~(KeepNewest = 0 \/ Len(registry) <= KeepNewest)
        <5>1. registry' = Latest(registry, KeepNewest)
          BY <2>3, <2>6, <4>2 DEF NewLog, Latest
        <5>2. KeepNewest # 0 /\ Len(registry) > KeepNewest
          BY <1>5, <2>1, <4>2, UpkeepAssumption
        <5> QED
          BY <1>5, <2>1, <5>1, <5>2, NewestPruned
      <4> QED
        BY <4>1, <4>2
    <3> QED
      BY <1>3, <1>5, <2>1, <2>3, <2>4, <3>1, <3>2
  <2> QED
    BY <2>5, <2>6
<1>10. ASSUME NEW p \in Runners, SaveState(p) \/ Passes(p) PROVE AloneInv'
  <2>1. /\ plan[p] # <<>> /\ Advance(p) /\ ~overlapped /\ ~At(p, "commit")
        /\ UNCHANGED <<registry, entered, mysnap, made>>
    BY <1>10 DEF SaveState, Passes, At, Busy
  <2> QED
    BY <1>3, <1>5, <2>1
<1>11. ASSUME NEW p \in Runners, KillRunner(p) PROVE AloneInv'
  <2>1. /\ ~overlapped /\ plan[p] # <<>> /\ plan'[p] = <<>> /\ wrote'[p] = "start"
        /\ \A q \in Runners \ {p} : plan'[q] = plan[q] /\ wrote'[q] = wrote[q]
        /\ UNCHANGED <<registry, entered, made>>
    BY <1>11 DEF KillRunner, Abort, GoOn, Types, Busy
  <2>2. \A q \in Runners : plan'[q] = <<>> /\ wrote'[q] = "start"
    BY <2>1, Alone
  <2>3. \A q \in Runners : ~Has(plan'[q], "register")
    BY <2>2, DuePlan
  <2>4. /\ Newest(registry', entered')
        /\ \A i \in DOMAIN entered' : entered'[i] <= made' /\ (i < Len(entered') => entered'[i] < made')
    BY <2>1 DEF AloneInv
  <2> QED
    BY <2>2, <2>3, <2>4 DEF AloneInv, Busy
<1> QED
  BY <1>1, <1>2, <1>6, <1>7, <1>8, <1>9, <1>10, <1>11, StepKinds
-----------------------------------------------------------------------------
(* Time                                                                    *)

\* What a step leaves of the scheduler's plan.
LEMMA SchedulerKeeps ==
  ASSUME Types, PlanInv, NEW p \in Runners, plan[p] # <<>>, Advance(p)
  PROVE  /\ ~Has(plan'["scheduler"], "commit") \/ (p # "scheduler" /\ plan'["scheduler"] = plan["scheduler"])
         /\ Has(plan'["scheduler"], "save") => Has(plan["scheduler"], "save")
         /\ Has(plan["scheduler"], "save") =>
              Has(plan'["scheduler"], "save") \/ At("scheduler", "save")
         /\ Has(plan'["scheduler"], "save") => ~(p = "scheduler" /\ At(p, "save"))
<1>1. CASE p = "scheduler"
  <2>1. plan["scheduler"] \in Seq(Steps) /\ plan'["scheduler"] = Tail(plan["scheduler"])
    BY <1>1, Advanced DEF Types
  <2>2. ~Has(plan'["scheduler"], "commit")
    BY <1>1, Advanced DEF Has
  <2>3. Has(plan'["scheduler"], "save") => ~At("scheduler", "save")
    BY <1>1, Advanced DEF Has
  <2>4. /\ Has(plan'["scheduler"], "save") => Has(plan["scheduler"], "save")
        /\ Has(plan["scheduler"], "save") =>
             Has(plan'["scheduler"], "save") \/ Head(plan["scheduler"]).do = "save"
    BY <1>1, <2>1, TailOfPlan
  <2> QED
    BY <1>1, <2>2, <2>3, <2>4 DEF At, Busy
<1>2. CASE p # "scheduler"
  <2>1. plan'["scheduler"] = plan["scheduler"]
    BY <1>2, Advanced DEF Runners
  <2> QED
    BY <1>2, <2>1
<1> QED
  BY <1>1, <1>2

LEMMA TimeInit == UpkeepInit => TimeInv
<1> SUFFICES ASSUME UpkeepInit PROVE TimeInv
  OBVIOUS
<1>1. ~Has(plan["scheduler"], "save") /\ ~Has(plan["scheduler"], "commit")
  BY DuePlan DEF UpkeepInit, Runners
<1> QED
  BY <1>1, UpkeepAssumption DEF UpkeepInit, TimeInv

LEMMA TimeNext ==
  Types /\ PlanInv /\ AloneInv /\ TimeInv /\ [UpkeepNext]_upkeepVars => TimeInv'
<1> SUFFICES ASSUME Types, PlanInv, AloneInv, TimeInv, [UpkeepNext]_upkeepVars PROVE TimeInv'
  OBVIOUS
<1> USE DEF upkeepFiles, upkeepTime, upkeepLocals, upkeepGhosts
<1>0. /\ Interval \in Nat /\ Poll \in Nat \ {0}
      /\ lastAuto \in Nat /\ stamp \in Nat /\ clock \in Nat /\ sleep \in Nat
      /\ elapsed \in Nat /\ waited \in Nat /\ ahead \in Nat /\ behind \in Nat
      /\ headed \in BOOLEAN /\ serving \in BOOLEAN /\ overlapped \in BOOLEAN /\ unsaved \in BOOLEAN
  BY UpkeepAssumption DEF Types
<1>1. /\ sleep <= Poll /\ (~headed => waited = 0)
      /\ Has(plan["scheduler"], "save") => stamp = clock
      /\ Has(plan["scheduler"], "commit") /\ ~overlapped => SnapshotDue
      /\ lastAuto # 0 => lastAuto + waited <= clock + behind
      /\ Interval > 0 => waited < Interval + Poll + behind
      /\ Interval > 0 /\ serving => \/ Has(plan["scheduler"], "save")
                                    \/ waited + sleep < Interval + Poll + behind
      /\ lastAuto # 0 /\ ~unsaved => elapsed >= Interval \/ elapsed + ahead + lastAuto >= clock
  BY DEF TimeInv
<1>2. ~Busy("scheduler") => ~Has(plan["scheduler"], "save") /\ ~Has(plan["scheduler"], "commit")
  BY DuePlan DEF Busy
<1>3. CASE UserSnapshot
  <2>1. PICK s \in CommandPlans : Begin("user", s)
    BY <1>3 DEF UserSnapshot, CommandPlans
  <2>2. plan'["scheduler"] = plan["scheduler"] /\ (~overlapped' => ~overlapped)
    BY <2>1 DEF Begin, Types, Runners
  <2>3. UNCHANGED <<lastAuto, clock, sleep, elapsed, waited, ahead, behind, headed, serving,
                    unsaved, stamp>>
    BY <1>3 DEF UserSnapshot
  <2> QED
    BY <1>1, <2>2, <2>3 DEF TimeInv, SnapshotDue
<1>4. CASE UserAdd
  BY <1>1, <1>4 DEF UserAdd, TimeInv, SnapshotDue
<1>5. CASE StartScheduler
  <2>1. /\ serving' = TRUE /\ sleep' = 0 /\ waited' = 0
        /\ UNCHANGED <<lastAuto, clock, elapsed, ahead, behind, headed, unsaved, stamp, plan,
                       overlapped>>
    BY <1>5 DEF StartScheduler
  <2>2. (SnapshotDue' <=> SnapshotDue)
    BY <2>1 DEF SnapshotDue
  <2>3. /\ sleep' <= Poll /\ (~headed' => waited' = 0)
        /\ lastAuto' # 0 => lastAuto' + waited' <= clock' + behind'
        /\ Interval > 0 => waited' < Interval + Poll + behind'
        /\ Interval > 0 => waited' + sleep' < Interval + Poll + behind'
    BY <1>0, <1>1, <2>1
  <2> QED
    BY <1>1, <2>1, <2>2, <2>3 DEF TimeInv
<1>6. CASE RunTick
  <2>1. /\ serving /\ sleep = 0 /\ sleep' = Poll
        /\ UNCHANGED <<lastAuto, clock, elapsed, waited, ahead, behind, headed, serving, unsaved>>
        /\ stamp' = IF SnapshotDue /\ headed THEN clock ELSE stamp
        /\ Begin("scheduler", IF SnapshotDue /\ headed THEN DueSteps ELSE NotDueSteps)
    BY <1>6 DEF RunTick
  <2>2. /\ plan'["scheduler"] = IF SnapshotDue /\ headed THEN DueSteps ELSE NotDueSteps
        /\ ~Busy("scheduler") /\ (~overlapped' => ~overlapped)
    BY <2>1 DEF Begin, Types, Runners
  <2>3. SnapshotDue' <=> SnapshotDue
    BY <2>1 DEF SnapshotDue
  <2>4. CASE SnapshotDue /\ headed
    <3>1. Has(plan'["scheduler"], "save") /\ stamp' = clock'
      BY <2>1, <2>2, <2>4, DuePlan
    <3> QED
      BY <1>0, <1>1, <2>1, <2>3, <2>4, <3>1 DEF TimeInv
  <2>5. CASE ~(SnapshotDue /\ headed)
    <3>1. ~Has(plan'["scheduler"], "save") /\ ~Has(plan'["scheduler"], "commit")
      BY <2>2, <2>5, DuePlan
    <3>2. Interval > 0 => waited' + sleep' < Interval + Poll + behind'
      <4>1. CASE ~headed
        BY <1>0, <1>1, <2>1, <4>1
      <4>2. CASE headed
        <5>1. Interval > 0 => lastAuto # 0 /\ ~(clock >= lastAuto /\ clock - lastAuto >= Interval)
          BY <1>0, <2>5, <4>2 DEF SnapshotDue
        <5>2. Interval > 0 => clock < lastAuto + Interval
          BY <1>0, <5>1
        <5> QED
          BY <1>0, <1>1, <2>1, <5>1, <5>2
      <4> QED
        BY <4>1, <4>2
    <3> QED
      BY <1>0, <1>1, <2>1, <3>1, <3>2 DEF TimeInv
  <2> QED
    BY <2>4, <2>5
<1>7. CASE EndScheduler
  <2>1. /\ serving' = FALSE
        /\ UNCHANGED <<lastAuto, clock, sleep, elapsed, waited, ahead, behind, headed, unsaved,
                       stamp, plan, overlapped>>
    BY <1>7 DEF EndScheduler
  <2> QED
    BY <1>1, <2>1 DEF TimeInv, SnapshotDue
\* A step that is over, but for the saving of the time.
<1>8. ASSUME NEW p \in Runners, plan[p] # <<>>, Advance(p), ~At(p, "save"),
             UNCHANGED <<lastAuto, clock, sleep, waited, ahead, behind, serving, stamp, overlapped>>,
             headed => headed',
             unsaved' = TRUE \/ UNCHANGED <<unsaved, elapsed>>
      PROVE  TimeInv'
  <2>1. /\ Has(plan'["scheduler"], "save") => Has(plan["scheduler"], "save")
        /\ Has(plan'["scheduler"], "commit") => Has(plan["scheduler"], "commit")
    BY <1>8, SchedulerKeeps
  <2>2. Has(plan["scheduler"], "save") => Has(plan'["scheduler"], "save")
    <3>1. CASE p = "scheduler"
      BY <1>8, <3>1, SchedulerKeeps
    <3>2. CASE p # "scheduler"
      <4>1. plan'["scheduler"] = plan["scheduler"]
        BY <1>8, <3>2, Advanced DEF Runners
      <4> QED
        BY <4>1
    <3> QED
      BY <3>1, <3>2
  <2>3. SnapshotDue' <=> SnapshotDue
    BY <1>8 DEF SnapshotDue
  <2> QED
    BY <1>1, <1>8, <2>1, <2>2, <2>3 DEF TimeInv
<1>9. ASSUME NEW p \in Runners, Abort(p),
             UNCHANGED <<lastAuto, clock, sleep, waited, ahead, behind, stamp, overlapped, headed,
                         unsaved, elapsed>>
      PROVE  TimeInv'
  <2>1. SnapshotDue' <=> SnapshotDue
    BY <1>9 DEF SnapshotDue
  <2>2. CASE p = "scheduler"
    <3>1. plan'["scheduler"] = <<>> /\ serving' = FALSE
      BY <1>9, <2>2 DEF Abort, GoOn, Types, Runners
    <3>2. ~Has(plan'["scheduler"], "save") /\ ~Has(plan'["scheduler"], "commit")
      BY <3>1, DuePlan
    <3> QED
      BY <1>1, <1>9, <3>1, <3>2 DEF TimeInv
  <2>3. CASE p # "scheduler"
    <3>1. plan'["scheduler"] = plan["scheduler"] /\ serving' = serving
      BY <1>0, <1>9, <2>3 DEF Abort, GoOn, Types, Runners
    <3> QED
      BY <1>1, <1>9, <2>1, <3>1 DEF TimeInv
  <2> QED
    BY <2>2, <2>3
<1>10. ASSUME NEW p \in Runners, CommitSnapshot(p) PROVE TimeInv'
  <2>1. /\ plan[p] # <<>> /\ Advance(p) /\ ~At(p, "save") /\ headed' = TRUE
        /\ unsaved' = TRUE \/ UNCHANGED <<unsaved, elapsed>>
        /\ UNCHANGED <<lastAuto, clock, sleep, waited, ahead, behind, serving, stamp, overlapped>>
    BY <1>10 DEF CommitSnapshot, At, Busy
  <2> QED
    BY <1>8, <2>1
<1>11. ASSUME NEW p \in Runners, LoadLog(p) \/ WriteLog(p) PROVE TimeInv'
  <2>1. UNCHANGED <<lastAuto, clock, sleep, elapsed, waited, ahead, behind, headed, serving,
                    stamp, overlapped, unsaved>>
    BY <1>11 DEF LoadLog, WriteLog
  <2>2. CASE UNCHANGED plan
    BY <1>1, <2>1, <2>2 DEF TimeInv, SnapshotDue
  <2>3. CASE ~UNCHANGED plan
    <3>1. Advance(p) /\ ~At(p, "save") /\ plan[p] # <<>>
      BY <1>11, <2>3 DEF LoadLog, WriteLog, At, Busy
    <3> QED
      BY <1>8, <2>1, <3>1
  <2> QED
    BY <2>2, <2>3
<1>12. ASSUME NEW p \in Runners, RenameLog(p) PROVE TimeInv'
  <2>1. UNCHANGED <<lastAuto, clock, sleep, elapsed, waited, ahead, behind, headed,
                    stamp, overlapped, unsaved>>
    BY <1>12 DEF RenameLog
  <2>2. plan[p] # <<>> /\ ~At(p, "save")
    BY <1>12 DEF RenameLog, PlanInv, At, Busy
  <2>3. Abort(p) \/ (Advance(p) /\ UNCHANGED serving)
    BY <1>12 DEF RenameLog
  <2> QED
    BY <1>8, <1>9, <2>1, <2>2, <2>3
<1>13. ASSUME NEW p \in Runners, SaveState(p) PROVE TimeInv'
  <2>1. /\ plan[p] # <<>> /\ Advance(p) /\ At(p, "save")
        /\ lastAuto' = IF p = "scheduler" THEN stamp ELSE clock
        /\ stamp' = IF p = "scheduler" THEN 0 ELSE stamp
        /\ waited' = 0 /\ ahead' = 0 /\ behind' = 0
        /\ UNCHANGED <<clock, sleep, elapsed, headed, serving, overlapped>>
    BY <1>13 DEF SaveState, At, Busy
  <2>2. lastAuto' = clock
    <3>1. CASE p = "scheduler"
      BY <1>1, <2>1, <3>1, CurrentLog
    <3> QED
      BY <2>1, <3>1
  <2>3. Has(plan'["scheduler"], "save") => stamp' = clock'
    BY <1>1, <2>1, SchedulerKeeps
  <2>4. Has(plan'["scheduler"], "commit") => overlapped'
    <3>1. ASSUME Has(plan'["scheduler"], "commit"), ~overlapped PROVE FALSE
      <4>1. p # "scheduler" /\ Has(plan["scheduler"], "commit")
        BY <2>1, <3>1, SchedulerKeeps
      <4>2. plan["scheduler"] = <<>>
        BY <2>1, <3>1, <4>1, Alone DEF Runners
      <4> QED
        BY <4>1, <4>2, DuePlan
    <3> QED
      BY <2>1, <3>1
  <2>5. /\ sleep' <= Poll /\ (~headed' => waited' = 0)
        /\ lastAuto' # 0 => lastAuto' + waited' <= clock' + behind'
        /\ Interval > 0 => waited' < Interval + Poll + behind'
        /\ Interval > 0 => waited' + sleep' < Interval + Poll + behind'
        /\ elapsed' + ahead' + lastAuto' >= clock'
    BY <1>0, <1>1, <2>1, <2>2
  <2> QED
    BY <2>3, <2>4, <2>5 DEF TimeInv
<1>14. ASSUME NEW p \in Runners, KillRunner(p) PROVE TimeInv'
  BY <1>9, <1>14 DEF KillRunner
<1>15. CASE ClockTick
  <2>1. /\ Asleep /\ clock' = clock + 1
        /\ sleep' = IF sleep > 0 THEN sleep - 1 ELSE 0
        /\ elapsed' = IF elapsed < Interval THEN elapsed + 1 ELSE elapsed
        /\ waited' = IF serving /\ headed THEN waited + 1 ELSE 0
        /\ UNCHANGED <<lastAuto, ahead, behind, headed, serving, unsaved, stamp, plan, overlapped>>
    BY <1>15 DEF ClockTick
  <2>2. ~Has(plan'["scheduler"], "save") /\ ~Has(plan'["scheduler"], "commit")
        /\ ~Has(plan["scheduler"], "save")
    BY <1>2, <2>1 DEF Asleep
  <2>3. Interval > 0 /\ serving => sleep > 0 /\ waited + sleep < Interval + Poll + behind
    BY <1>1, <2>1, <2>2 DEF Asleep
  <2>4. /\ sleep' <= Poll /\ (~headed' => waited' = 0)
        /\ Interval > 0 /\ serving' => waited' + sleep' < Interval + Poll + behind'
        /\ Interval > 0 => waited' < Interval + Poll + behind'
    <3>1. CASE serving /\ headed
      BY <1>0, <1>1, <2>1, <2>3, <3>1
    <3>2. CASE ~(serving /\ headed)
      BY <1>0, <1>1, <2>1, <2>3, <3>2
    <3> QED
      BY <3>1, <3>2
  <2>5. lastAuto' # 0 => lastAuto' + waited' <= clock' + behind'
    BY <1>0, <1>1, <2>1
  <2>6. lastAuto' # 0 /\ ~unsaved' => elapsed' >= Interval \/ elapsed' + ahead' + lastAuto' >= clock'
    BY <1>0, <1>1, <2>1
  <2> QED
    BY <2>2, <2>4, <2>5, <2>6 DEF TimeInv
<1>16. ASSUME NEW t \in 1 .. MaxClock, SetClock(t) PROVE TimeInv'
  <2>1. /\ Asleep /\ clock' = t /\ t \in Nat
        /\ ahead' = IF t > clock THEN ahead + (t - clock) ELSE ahead
        /\ behind' = IF t < clock THEN behind + (clock - t) ELSE behind
        /\ UNCHANGED <<lastAuto, sleep, elapsed, waited, headed, serving, unsaved, stamp, plan,
                       overlapped>>
    BY <1>16, UpkeepAssumption DEF SetClock
  <2>2. ~Has(plan'["scheduler"], "save") /\ ~Has(plan'["scheduler"], "commit")
        /\ ~Has(plan["scheduler"], "save")
    BY <1>2, <2>1 DEF Asleep
  <2>3. /\ behind' >= behind /\ behind' \in Nat /\ clock + behind <= clock' + behind'
        /\ ahead' + clock >= ahead + clock'
    BY <1>0, <2>1
  <2>4. /\ Interval > 0 => waited' < Interval + Poll + behind'
        /\ Interval > 0 /\ serving' => waited' + sleep' < Interval + Poll + behind'
        /\ lastAuto' # 0 => lastAuto' + waited' <= clock' + behind'
    BY <1>0, <1>1, <2>1, <2>2, <2>3
  <2>5. lastAuto' # 0 /\ ~unsaved' => elapsed' >= Interval \/ elapsed' + ahead' + lastAuto' >= clock'
    BY <1>0, <1>1, <2>1, <2>3
  <2> QED
    BY <1>1, <2>1, <2>2, <2>4, <2>5 DEF TimeInv
<1>17. CASE UNCHANGED upkeepVars
  BY <1>1, <1>17 DEF upkeepVars, TimeInv, SnapshotDue
<1>18. ASSUME NEW p \in Runners, Passes(p) PROVE TimeInv'
  <2>1. /\ plan[p] # <<>> /\ Advance(p) /\ ~At(p, "save")
        /\ UNCHANGED <<lastAuto, clock, sleep, elapsed, waited, ahead, behind, headed, serving,
                       stamp, overlapped, unsaved>>
    BY <1>18 DEF Passes, At, Busy
  <2> QED
    BY <1>8, <2>1
<1> QED
  BY <1>3, <1>4, <1>5, <1>6, <1>7, <1>10, <1>11, <1>12, <1>13, <1>14, <1>15, <1>16, <1>17,
     <1>18, PinsAndGc DEF UpkeepNext
-----------------------------------------------------------------------------
(* The specification                                                       *)

\* What all of the results below follow from.
THEOREM UpkeepInvariant == UpkeepSpec => []UInv
<1>1. UpkeepInit => UInv
  BY TypesInit, PlanInit, RetentionInit, AloneInit, TimeInit DEF UInv
<1>2. UInv /\ [UpkeepNext]_upkeepVars => UInv'
  BY TypesNext, PlanNext, RetentionNext, AloneNext, TimeNext DEF UInv
<1> QED
  BY <1>1, <1>2, PTL DEF UpkeepSpec

\* The types of what the scheduler and the commands keep.
THEOREM UpkeepTypes == UpkeepSpec => []UpkeepTypeOK
<1>1. Types => {headed, serving, overlapped, cut, unsaved} \subseteq BOOLEAN
  BY Zenon DEF Types
<1>2. Types => \A n \in {clock, sleep, resets, elapsed, waited, ahead, behind} : n \in Nat
  BY DEF Types
<1>3. Types => UpkeepTypeOK
  BY <1>1, <1>2 DEF Types, UpkeepTypeOK, Steps
<1>4. UInv => UpkeepTypeOK
  BY <1>3 DEF UInv
<1> QED
  BY <1>4, UpkeepInvariant, PTL

\* As long as updates of snapshots.json do not overlap, register_snapshot and
\* prune_snapshot_registry leave in it the newest of what was registered, each
\* once and in order, wherever a command is killed and whatever retention is
\* set.
THEOREM RegistryStaysNewest == UpkeepSpec => []RegistryIsNewest
<1>1. UInv => RegistryIsNewest
  BY DEF UInv, AloneInv, Newest, Latest, RegistryIsNewest
<1> QED
  BY <1>1, UpkeepInvariant, PTL

\* Once all commands have returned, with none cut short, the registry holds no
\* more than retain_snapshots, however the updates have overlapped.
THEOREM RetentionIsKept == UpkeepSpec => []RetentionHolds
<1>1. UInv => RetentionHolds
  <2> SUFFICES ASSUME UInv, AtRest, ~cut, KeepNewest > 0, Len(registry) > KeepNewest
               PROVE  FALSE
    BY UpkeepAssumption DEF RetentionHolds, UInv, Types
  <2>1. PICK p \in Runners : Pruning(p) \/ At(p, "prune")
    BY DEF UInv, RetentionInv, TooLong
  <2> QED
    BY <2>1 DEF Pruning, At, AtRest
<1> QED
  BY <1>1, UpkeepInvariant, PTL

\* While run_for runs on a vault with a HEAD, the time without an automatic
\* snapshot is less than the interval, a poll and what the clock was set back.
THEOREM GapIsBounded == UpkeepSpec => []GapBounded
<1>1. UInv => GapBounded
  BY DEF UInv, TimeInv, GapBounded
<1> QED
  BY <1>1, UpkeepInvariant, PTL

\* The scheduler makes no snapshot before the interval has passed in real time
\* since the last one, but for the jumps of the clock, unless a kill kept the
\* time of the last one from being saved, or a user's command overlapped.
THEOREM SnapshotsStayApart == UpkeepSpec => SnapshotsApart
<1>1. UInv /\ [UpkeepNext]_upkeepVars =>
        [made' # made /\ At("scheduler", "commit") /\ lastAuto # 0 /\ ~unsaved
           /\ ~overlapped => elapsed + ahead >= Interval]_upkeepVars
  <2> SUFFICES ASSUME UInv, At("scheduler", "commit"), lastAuto # 0, ~unsaved, ~overlapped
               PROVE  elapsed + ahead >= Interval
    OBVIOUS
  <2>1. Has(plan["scheduler"], "commit")
    BY CurrentLog DEF UInv, Runners
  <2>2. SnapshotDue /\ (elapsed >= Interval \/ elapsed + ahead + lastAuto >= clock)
    BY <2>1 DEF UInv, TimeInv
  <2>3. /\ clock \in Nat /\ lastAuto \in Nat /\ elapsed \in Nat /\ ahead \in Nat
        /\ Interval \in Nat
    BY UpkeepAssumption DEF UInv, Types
  <2> QED
    BY <2>2, <2>3 DEF SnapshotDue
<1> QED
  BY <1>1, UpkeepInvariant, PTL DEF UpkeepSpec, SnapshotsApart

-----------------------------------------------------------------------------
(* The records of who has what: types                                      *)

\* The steps of commands, where there are n commits.
StepsUpTo(n) ==
  {s \in [do : {"pin", "note", "provide", "fetch"}, of : Holders,
          head : 0 .. MaxCommits, strict : BOOLEAN] :
     /\ s.head <= n
     /\ s.do = "fetch" => s.head # 0
     /\ s.do = "note" /\ s.of # Self => s.head # 0}

\* What a worker may have ahead of it: something follows a fetch.
PlansUpTo(n) ==
  {s \in Seq(StepsUpTo(n)) : \A i \in 1 .. Len(s) : s[i].do = "fetch" => i < Len(s)}

VaultTypes ==
  /\ parents \in Seq(Nat) /\ Len(parents) \in Nat /\ Len(parents) <= MaxCommits
  /\ \A n \in DOMAIN parents : parents[n] < n
  /\ dated \in Seq(Nat) /\ Len(dated) = Len(parents)
  /\ tip \in 0 .. Len(parents) /\ tips \subseteq 1 .. Len(parents)
  /\ disk \subseteq Objects /\ damaged \in 0 .. MaxDamage

SaveTypes ==
  /\ records \in [RecordFiles -> {Torn} \cup Contents]
  /\ drafts \in [RecordFiles -> {Torn, NoDraft} \cup Contents]
  /\ safe \in [RecordFiles -> Contents]
  /\ todo \in [Workers -> PlansUpTo(Len(parents))]
  /\ at \in [Workers -> {"load", "truncate", "fill", "rename"}]
  /\ mine \in [Workers -> Contents]
  /\ fd \in [Workers -> {"none", "draft", "record", "gone"}]
  /\ alone \in [Workers -> BOOLEAN] /\ crossed \in BOOLEAN

PeerTypes ==
  /\ provided \subseteq 1 .. Len(parents)
  /\ pulled \in [Peers -> SUBSET (1 .. Len(parents))]
  /\ now \in Nat /\ seen \in [Peers -> Nat \cup {Never}]
  /\ \A p \in Peers : seen[p] # Never => seen[p] <= now
  /\ alive \in [Peers -> {"unknown", "alive", "dead"}]

RepTypes == VaultTypes /\ SaveTypes /\ PeerTypes

-----------------------------------------------------------------------------
(* Lines of commits                                                        *)

\* n and its ancestors are commits.
LEMMA LineIs ==
  ASSUME parents \in Seq(Nat), \A k \in DOMAIN parents : parents[k] < k,
         NEW n \in 0 .. Len(parents)
  PROVE  Line(n) \subseteq 1 .. Len(parents)
<1> DEFINE m == Len(parents)
           T == SUBSET (1 .. m)
           e == {}
           F == [i \in 1 .. m |-> [x \in T |-> {i} \cup x]]
           Def(g) == g = [k \in 0 .. m |-> IF k = 0 THEN {} ELSE {k} \cup g[parents[k]]]
           line == CHOOSE g : Def(g)
<1>1. /\ m \in Nat /\ e \in T /\ parents \in [1 .. m -> Nat]
      /\ \A i \in 1 .. m : parents[i] \in 0 .. i - 1
  OBVIOUS
<1>2. F \in [1 .. m -> [T -> T]]
  OBVIOUS
<1>3. PICK f \in [0 .. m -> T] : Unfolds(f, m, parents, e, F)
  <2> HIDE DEF F, m, T, e
  <2> QED
    BY <1>1, <1>2, Recursion
<1>4. ASSUME NEW k \in 1 .. m PROVE f[k] = {k} \cup f[parents[k]]
  <2>1. parents[k] \in 0 .. k - 1
    BY <1>1
  <2>2. parents[k] \in 0 .. m
    BY <2>1
  <2>3. f[parents[k]] \in T
    BY <2>2
  <2> QED
    BY <1>3, <2>3 DEF Unfolds
<1>5. Def(f)
  <2>1. \A k \in 0 .. m : k # 0 => k \in 1 .. m
    BY <1>1
  <2>2. f[0] = {}
    BY <1>3 DEF Unfolds
  <2> HIDE DEF F, m
  <2> QED
    BY <1>4, <2>1, <2>2
<1>6. Def(line)
  <2> HIDE DEF Def
  <2> QED
    BY <1>5
<1>7. Line(n) = line[n]
  BY DEF Line
<1> HIDE DEF line
<1> DEFINE G == {k \in 0 .. m : line[k] \in T}
<1>8. 0 \in G
  <2>1. line[0] = {} /\ 0 \in 0 .. m
    BY <1>1, <1>6
  <2> QED
    BY <2>1
<1>9. ASSUME NEW k \in 1 .. m, parents[k] \in G PROVE k \in G
  <2>1. k \in 0 .. m /\ k # 0
    BY <1>1
  <2>2. line[k] = {k} \cup line[parents[k]]
    BY <1>6, <2>1
  <2> QED
    BY <1>9, <2>1, <2>2
<1>10. 0 .. m \subseteq G
  <2> HIDE DEF G, m
  <2> QED
    BY <1>1, <1>8, <1>9, Descent
<1> QED
  BY <1>7, <1>10

\* What a walk gets to are commits on disk.
LEMMA ReachedIs ==
  ASSUME parents \in Seq(Nat), \A k \in DOMAIN parents : parents[k] < k,
         disk \subseteq Objects, NEW n \in 0 .. Len(parents)
  PROVE  Reached(n) \subseteq {k \in 1 .. Len(parents) : <<"commit", k>> \in disk}
<1> DEFINE m == Len(parents)
           T == SUBSET {k \in 1 .. m : <<"commit", k>> \in disk}
           e == {}
           F == [i \in 1 .. m |->
                   [x \in T |-> IF <<"commit", i>> \notin disk THEN {} ELSE {i} \cup x]]
           Def(g) == g = [k \in 0 .. m |->
                            IF <<"commit", k>> \notin disk THEN {}
                            ELSE {k} \cup g[parents[k]]]
           reached == CHOOSE g : Def(g)
<1>0. <<"commit", 0>> \notin disk
  BY DEF Objects
<1>1. /\ m \in Nat /\ e \in T /\ parents \in [1 .. m -> Nat]
      /\ \A i \in 1 .. m : parents[i] \in 0 .. i - 1
  OBVIOUS
<1>2. F \in [1 .. m -> [T -> T]]
  <2>1. ASSUME NEW i \in 1 .. m, NEW x \in T
        PROVE  (IF <<"commit", i>> \notin disk THEN {} ELSE {i} \cup x) \in T
    OBVIOUS
  <2> HIDE DEF T
  <2> QED
    BY <2>1
<1>3. PICK f \in [0 .. m -> T] : Unfolds(f, m, parents, e, F)
  <2> HIDE DEF F, m, T, e
  <2> QED
    BY <1>1, <1>2, Recursion
<1>4. ASSUME NEW k \in 1 .. m
      PROVE  f[k] = IF <<"commit", k>> \notin disk THEN {} ELSE {k} \cup f[parents[k]]
  <2>1. parents[k] \in 0 .. k - 1
    BY <1>1
  <2>2. parents[k] \in 0 .. m
    BY <2>1
  <2>3. f[parents[k]] \in T
    BY <2>2
  <2>4. f[k] = F[k][f[parents[k]]]
    BY <1>3 DEF Unfolds
  <2> HIDE DEF T, m
  <2> QED
    BY <2>3, <2>4
<1>5. Def(f)
  <2>1. \A k \in 0 .. m : k # 0 => k \in 1 .. m
    BY <1>1
  <2>2. f[0] = {}
    BY <1>3 DEF Unfolds
  <2> HIDE DEF F, m, T
  <2> QED
    BY <1>0, <1>4, <2>1, <2>2
<1>6. Def(reached)
  <2> HIDE DEF Def
  <2> QED
    BY <1>5
<1>7. Reached(n) = reached[n]
  BY DEF Reached
<1> HIDE DEF reached
<1> DEFINE G == {k \in 0 .. m : reached[k] \in T}
<1>8. 0 \in G
  <2>1. reached[0] = {} /\ 0 \in 0 .. m
    BY <1>0, <1>1, <1>6
  <2> QED
    BY <2>1
<1>9. ASSUME NEW k \in 1 .. m, parents[k] \in G PROVE k \in G
  <2>1. k \in 0 .. m /\ k # 0
    BY <1>1
  <2>2. reached[k] = IF <<"commit", k>> \notin disk THEN {} ELSE {k} \cup reached[parents[k]]
    BY <1>6, <2>1
  <2> QED
    BY <1>9, <2>1, <2>2
<1>10. 0 .. m \subseteq G
  <2> HIDE DEF G, m
  <2> QED
    BY <1>1, <1>8, <1>9, Descent
<1> QED
  BY <1>7, <1>10

-----------------------------------------------------------------------------
(* Plans                                                                   *)

\* Later there are more commits.
LEMMA PlansGrow ==
  ASSUME NEW n \in Nat, NEW m \in Nat, m <= n PROVE PlansUpTo(m) \subseteq PlansUpTo(n)
<1>1. StepsUpTo(m) \subseteq StepsUpTo(n)
  BY ReplicasAssumption DEF StepsUpTo
<1>2. Seq(StepsUpTo(m)) \subseteq Seq(StepsUpTo(n))
  <2> HIDE DEF StepsUpTo
  <2> QED
    BY <1>1
<1> QED
  BY <1>2 DEF PlansUpTo

\* What is left of a plan after its first step, and what that step is.
LEMMA RestOfPlan ==
  ASSUME NEW n, NEW s \in PlansUpTo(n), s # <<>>
  PROVE  /\ Head(s) \in StepsUpTo(n) /\ Tail(s) \in PlansUpTo(n)
         /\ Head(s).do = "fetch" => Tail(s) # <<>>
<1> DEFINE T == StepsUpTo(n)
<1>0. s \in Seq(T) /\ \A i \in 1 .. Len(s) : s[i].do = "fetch" => i < Len(s)
  BY DEF PlansUpTo
<1>1. s[1] \in T /\ Head(s) = s[1] /\ Len(s) >= 1
  <2> HIDE DEF T
  <2> QED
    BY <1>0
<1>2. /\ Tail(s) \in Seq(T) /\ Len(Tail(s)) = Len(s) - 1
      /\ \A i \in 1 .. Len(s) - 1 : Tail(s)[i] = s[i + 1]
  <2> HIDE DEF T
  <2> QED
    BY <1>0
<1>3. ASSUME NEW i \in 1 .. Len(Tail(s)), Tail(s)[i].do = "fetch" PROVE i < Len(Tail(s))
  <2>1. i + 1 \in 1 .. Len(s) /\ s[i + 1].do = "fetch"
    BY <1>0, <1>2, <1>3
  <2>2. i + 1 < Len(s)
    BY <1>0, <2>1
  <2> QED
    BY <1>0, <1>2, <2>2
<1>4. Head(s).do = "fetch" => 1 < Len(s)
  BY <1>0, <1>1
<1>5. Tail(s) = <<>> => Len(Tail(s)) = 0
  <2> HIDE DEF T
  <2> QED
    BY <1>2, EmptySeq
<1>6. Tail(s) \in PlansUpTo(n)
  BY <1>2, <1>3 DEF PlansUpTo
<1> QED
  BY <1>0, <1>1, <1>2, <1>4, <1>5, <1>6

\* One plan after the other.
LEMMA PlansJoin ==
  ASSUME NEW n, NEW s \in PlansUpTo(n), NEW t \in PlansUpTo(n) PROVE s \o t \in PlansUpTo(n)
<1> DEFINE T == StepsUpTo(n)
<1>1. s \in Seq(T) /\ t \in Seq(T)
  BY DEF PlansUpTo
<1>2. /\ s \o t \in Seq(T) /\ Len(s \o t) = Len(s) + Len(t)
      /\ \A i \in 1 .. Len(s) + Len(t) :
           (s \o t)[i] = IF i <= Len(s) THEN s[i] ELSE t[i - Len(s)]
      /\ Len(s) \in Nat /\ Len(t) \in Nat
  <2> HIDE DEF T
  <2> QED
    BY <1>1
<1>3. ASSUME NEW i \in 1 .. Len(s \o t), (s \o t)[i].do = "fetch" PROVE i < Len(s \o t)
  <2>1. CASE i <= Len(s)
    <3>1. i \in 1 .. Len(s) /\ s[i].do = "fetch"
      BY <1>2, <1>3, <2>1
    <3>2. i < Len(s)
      BY <3>1 DEF PlansUpTo
    <3> QED
      BY <1>2, <3>2
  <2>2. CASE i > Len(s)
    <3>1. i - Len(s) \in 1 .. Len(t) /\ t[i - Len(s)].do = "fetch"
      BY <1>2, <1>3, <2>2
    <3>2. i - Len(s) < Len(t)
      BY <3>1 DEF PlansUpTo
    <3> QED
      BY <1>2, <3>1, <3>2
  <2> QED
    BY <1>2, <2>1, <2>2
<1> QED
  BY <1>2, <1>3 DEF PlansUpTo

\* The steps that commands are made of.
LEMMA StepTypes ==
  ASSUME NEW n \in Nat, n <= MaxCommits
  PROVE  /\ Pin(TRUE) \in StepsUpTo(n) /\ Pin(TRUE).do = "pin"
         /\ Pin(FALSE) \in StepsUpTo(n) /\ Pin(FALSE).do = "pin"
         /\ Note(Self, 0, TRUE) \in StepsUpTo(n) /\ Note(Self, 0, TRUE).do = "note"
         /\ \A p \in Peers, h \in 1 .. n :
               Note(p, h, FALSE) \in StepsUpTo(n) /\ Note(p, h, FALSE).do = "note"
         /\ Provide \in StepsUpTo(n) /\ Provide.do = "provide"
         /\ \A h \in 1 .. n : Fetch(h) \in StepsUpTo(n) /\ Fetch(h).do = "fetch"
BY ReplicasAssumption DEF Pin, Note, Provide, Fetch, StepsUpTo, Holders

\* Plans of one step, two and three.
LEMMA ShortPlans ==
  ASSUME NEW n \in Nat, NEW x \in StepsUpTo(n), NEW y \in StepsUpTo(n), NEW z \in StepsUpTo(n),
         z.do # "fetch", y.do # "fetch"
  PROVE  /\ <<z>> \in PlansUpTo(n) /\ <<x, z>> \in PlansUpTo(n)
         /\ <<x, y, z>> \in PlansUpTo(n) /\ <<>> \in PlansUpTo(n)
<1> DEFINE T == StepsUpTo(n)
<1>1. x \in T /\ y \in T /\ z \in T
  OBVIOUS
<1>5. <<z>> \in Seq(T) /\ <<x, z>> \in Seq(T) /\ <<x, y, z>> \in Seq(T) /\ <<>> \in Seq(T)
  <2> HIDE DEF T
  <2>1. <<z>> \in Seq(T)
    BY <1>1
  <2>2. <<x, z>> \in Seq(T)
    BY <1>1
  <2>3. <<x, y, z>> \in Seq(T)
    BY <1>1
  <2> QED
    BY <2>1, <2>2, <2>3
<1>2. \A i \in 1 .. Len(<<z>>) : <<z>>[i].do = "fetch" => i < Len(<<z>>)
  OBVIOUS
<1>3. \A i \in 1 .. Len(<<x, z>>) : <<x, z>>[i].do = "fetch" => i < Len(<<x, z>>)
  OBVIOUS
<1>4. \A i \in 1 .. Len(<<x, y, z>>) : <<x, y, z>>[i].do = "fetch" => i < Len(<<x, y, z>>)
  OBVIOUS
<1> QED
  BY <1>5, <1>2, <1>3, <1>4 DEF PlansUpTo

\* What a sync does: the notes, then each head once, with a pin after it.
LEMMA SyncPlan ==
  ASSUME Len(parents) \in Nat, Len(parents) <= MaxCommits,
         NEW k \in Nat, NEW heard \in [1 .. k -> Hearings]
  PROVE  SyncSteps(heard) \in PlansUpTo(Len(parents))
<1> DEFINE n == Len(parents)
           T == PlansUpTo(n)
           e == <<>>
           Seen(i) == \E j \in 1 .. i - 1 : heard[j].head = heard[i].head
           Two(i) == <<Fetch(heard[i].head), Pin(FALSE)>>
           F == [i \in 1 .. k |-> [x \in T |-> IF Seen(i) THEN x ELSE x \o Two(i)]]
           Q == [i \in 1 .. k |-> i - 1]
           Def(g) == g = [i \in 0 .. k |-> IF i = 0 THEN <<>>
                                           ELSE IF Seen(i) THEN g[i - 1]
                                           ELSE g[i - 1] \o Two(i)]
           fetches == CHOOSE g : Def(g)
           Notes == [i \in DOMAIN heard |-> Note(heard[i].node, heard[i].head, FALSE)]
<1>1. Len(heard) = k /\ DOMAIN heard = 1 .. k
  OBVIOUS
<1>2. \A i \in 1 .. k : heard[i].node \in Peers /\ heard[i].head \in 1 .. n
  BY DEF Hearings
<1>3. \A i \in 1 .. k : Two(i) \in T
  <2> TAKE i \in 1 .. k
  <2>1. Fetch(heard[i].head) \in StepsUpTo(n)
    BY <1>2, StepTypes
  <2>2. Pin(FALSE) \in StepsUpTo(n) /\ Pin(FALSE).do # "fetch"
    BY StepTypes
  <2> QED
    BY <2>1, <2>2, ShortPlans
<1>4. e \in T
  BY ShortPlans, StepTypes
<1>5. F \in [1 .. k -> [T -> T]]
  <2>1. ASSUME NEW i \in 1 .. k, NEW x \in T
        PROVE  (IF Seen(i) THEN x ELSE x \o Two(i)) \in T
    <3> HIDE DEF Seen, Two
    <3> QED
      BY <1>3, PlansJoin
  <2> HIDE DEF T, Seen, Two
  <2> QED
    BY <2>1
<1>6. Q \in [1 .. k -> Nat] /\ \A i \in 1 .. k : Q[i] \in 0 .. i - 1
  OBVIOUS
<1>7. PICK f \in [0 .. k -> T] : Unfolds(f, k, Q, e, F)
  <2> HIDE DEF F, T, e, Q
  <2> QED
    BY <1>4, <1>5, <1>6, Recursion
<1>8. ASSUME NEW i \in 1 .. k
      PROVE  f[i] = IF Seen(i) THEN f[i - 1] ELSE f[i - 1] \o Two(i)
  <2>1. i - 1 \in 0 .. k /\ Q[i] = i - 1
    OBVIOUS
  <2>2. f[i - 1] \in T
    BY <2>1
  <2>3. f[i] = F[i][f[i - 1]]
    BY <1>7, <2>1 DEF Unfolds
  <2> HIDE DEF T, Seen, Two
  <2> QED
    BY <2>2, <2>3
<1>9. Def(f)
  <2>1. \A i \in 0 .. k : i # 0 => i \in 1 .. k
    OBVIOUS
  <2>2. f[0] = <<>>
    BY <1>7 DEF Unfolds
  <2> HIDE DEF F, T, Seen, Two
  <2> QED
    BY <1>8, <2>1, <2>2
<1>10. Def(fetches)
  <2> HIDE DEF Def
  <2> QED
    BY <1>9
<1>11. SyncSteps(heard) = Notes \o fetches[k]
  BY <1>1 DEF SyncSteps
<1> HIDE DEF fetches
<1> DEFINE G == {i \in 0 .. k : fetches[i] \in T}
<1>12. 0 \in G
  <2>1. fetches[0] = <<>> /\ 0 \in 0 .. k
    BY <1>10
  <2> HIDE DEF T
  <2> QED
    BY <1>4, <2>1
<1>13. ASSUME NEW i \in 1 .. k, Q[i] \in G PROVE i \in G
  <2>1. i \in 0 .. k /\ i # 0 /\ Q[i] = i - 1
    OBVIOUS
  <2>2. fetches[i] = IF Seen(i) THEN fetches[i - 1] ELSE fetches[i - 1] \o Two(i)
    <3> HIDE DEF Seen, Two
    <3> QED
      BY <1>10, <2>1
  <2>3. fetches[i - 1] \in T
    BY <1>13, <2>1
  <2>4. fetches[i - 1] \o Two(i) \in T
    <3> HIDE DEF Two
    <3> QED
      BY <1>3, <2>3, PlansJoin
  <2> HIDE DEF T, Seen, Two
  <2> QED
    BY <2>1, <2>2, <2>3, <2>4
<1>14. 0 .. k \subseteq G
  <2> HIDE DEF G, Q
  <2> QED
    BY <1>6, <1>12, <1>13, Descent
<1>15. Notes \in T
  <2>1. \A i \in 1 .. k : Notes[i] \in StepsUpTo(n) /\ Notes[i].do = "note"
    BY <1>1, <1>2, StepTypes
  <2>2. Notes \in [1 .. k -> StepsUpTo(n)]
    <3> DEFINE S == StepsUpTo(n)
    <3> HIDE DEF S
    <3> QED
      BY <1>1, <2>1 DEF S
  <2>3. Notes \in Seq(StepsUpTo(n)) /\ Len(Notes) = k
    <3> DEFINE S == StepsUpTo(n)
    <3>1. Notes \in [1 .. k -> S]
      BY <2>2
    <3> HIDE DEF S, Notes
    <3>2. Notes \in Seq(S) /\ Len(Notes) = k
      BY <3>1
    <3> QED
      BY <3>2 DEF S
  <2> HIDE DEF Notes
  <2> QED
    BY <2>1, <2>3 DEF PlansUpTo
<1> QED
  <2>1. fetches[k] \in T
    BY <1>14
  <2> HIDE DEF Notes
  <2> QED
    BY <1>11, <1>15, <2>1, PlansJoin

-----------------------------------------------------------------------------
(* What commits need                                                       *)

LEMMA ObjectTypes ==
  ASSUME RepTypes
  PROVE  /\ \A n \in 1 .. Len(parents) : ObjectsOf(n) \subseteq Objects
         /\ \A n \in 0 .. Len(parents) : DagOf(n) \subseteq Objects
         /\ Live \subseteq Objects /\ Providable \subseteq Objects
<1>1. /\ parents \in Seq(Nat) /\ \A k \in DOMAIN parents : parents[k] < k
      /\ Len(parents) \in Nat /\ Len(parents) <= MaxCommits
      /\ disk \subseteq Objects
      /\ tip \in 0 .. Len(parents) /\ tips \subseteq 0 .. Len(parents)
  BY DEF RepTypes, VaultTypes
<1>2. \A k \in 1 .. Len(parents) : {<<"commit", k>>, <<"tree", k>>, <<"chunk", k>>} \subseteq Objects
  BY <1>1, ReplicasAssumption DEF Objects
<1>3. \A n \in 0 .. Len(parents) : Line(n) \subseteq 1 .. Len(parents)
  BY <1>1, LineIs
<1>4. \A n \in 0 .. Len(parents) : Reached(n) \subseteq 1 .. Len(parents)
  BY <1>1, ReachedIs
<1>5. \A n \in 0 .. Len(parents) : ChunksIn(n) \subseteq Objects
  BY <1>2, <1>3 DEF ChunksIn
<1>6. \A n \in 1 .. Len(parents) : ObjectsOf(n) \subseteq Objects
  <2> TAKE n \in 1 .. Len(parents)
  <2>1. n \in 0 .. Len(parents)
    OBVIOUS
  <2> QED
    BY <1>2, <1>5, <2>1 DEF ObjectsOf
<1>7. \A n \in 0 .. Len(parents) : DagOf(n) \subseteq Objects
  BY <1>3, <1>6 DEF DagOf
<1>8. \A k \in 1 .. Len(parents) : k \in 0 .. Len(parents)
  BY <1>1
<1>9. Live \subseteq Objects
  <2>1. \A k \in UNION {Reached(n) : n \in tips \cup {tip}} : k \in 1 .. Len(parents)
    BY <1>1, <1>4
  <2> QED
    BY <1>5, <1>8, <2>1 DEF Live
<1>10. Providable \subseteq Objects
  BY <1>1, <1>2, <1>4, <1>6 DEF Providable
<1> QED
  BY <1>6, <1>7, <1>9, <1>10

-----------------------------------------------------------------------------
(* The types                                                               *)

LEMMA TypesSay == ASSUME RepTypes PROVE ReplicasTypeOK
<1>1. Len(parents) \in Nat
  BY DEF RepTypes, VaultTypes
<1>2. \A w \in Workers :
        todo[w] \in Seq([do : {"pin", "note", "provide", "fetch"}, of : Holders,
                         head : 0 .. MaxCommits, strict : BOOLEAN])
  <2> DEFINE R == [do : {"pin", "note", "provide", "fetch"}, of : Holders,
                   head : 0 .. MaxCommits, strict : BOOLEAN]
             T == StepsUpTo(Len(parents))
  <2>1. T \subseteq R
    BY DEF StepsUpTo
  <2>2. \A w \in Workers : todo[w] \in Seq(T)
    BY DEF RepTypes, SaveTypes, PlansUpTo
  <2> HIDE DEF R, T
  <2>3. Seq(T) \subseteq Seq(R)
    BY <2>1
  <2>4. \A w \in Workers : todo[w] \in Seq(R)
    BY <2>2, <2>3
  <2> QED
    BY <2>4 DEF R
<1>3. todo \in [Workers -> Seq([do : {"pin", "note", "provide", "fetch"}, of : Holders,
                               head : 0 .. MaxCommits, strict : BOOLEAN])]
  <2> DEFINE S == Seq([do : {"pin", "note", "provide", "fetch"}, of : Holders,
                       head : 0 .. MaxCommits, strict : BOOLEAN])
  <2>1. \A w \in Workers : todo[w] \in S
    BY <1>2
  <2>2. todo \in [Workers -> PlansUpTo(Len(parents))]
    BY DEF RepTypes, SaveTypes
  <2> HIDE DEF S
  <2>3. todo \in [Workers -> S]
    BY <2>1, <2>2
  <2> QED
    BY <2>3 DEF S
<1> QED
  BY <1>3 DEF RepTypes, VaultTypes, SaveTypes, PeerTypes, ReplicasTypeOK

LEMMA RepTypesInit == ReplicasInit => RepTypes
<1> SUFFICES ASSUME ReplicasInit PROVE RepTypes
  OBVIOUS
<1>1. parents = <<>> /\ dated = <<>> /\ Len(parents) = 0 /\ Len(dated) = 0
  BY DEF ReplicasInit
<1>2. VaultTypes
  BY <1>1, ReplicasAssumption DEF ReplicasInit, VaultTypes
<1>3. <<>> \in PlansUpTo(0)
  <2>1. 0 \in Nat /\ 0 <= MaxCommits
    BY ReplicasAssumption
  <2>2. Pin(TRUE) \in StepsUpTo(0) /\ Pin(TRUE).do # "fetch"
    BY <2>1, StepTypes
  <2> QED
    BY <2>1, <2>2, ShortPlans
<1>4. SaveTypes
  BY <1>1, <1>3 DEF ReplicasInit, SaveTypes, Contents
<1>5. PeerTypes
  BY <1>1 DEF ReplicasInit, PeerTypes
<1> QED
  BY <1>2, <1>4, <1>5 DEF RepTypes

\* The step of a worker, and what is left after it.
LEMMA CurrentTypes ==
  ASSUME RepTypes, NEW w \in Workers, Working(w)
  PROVE  /\ Current(w) \in StepsUpTo(Len(parents))
         /\ Tail(todo[w]) \in PlansUpTo(Len(parents)) /\ <<>> \in PlansUpTo(Len(parents))
         /\ Current(w).do = "fetch" =>
              /\ Tail(Tail(todo[w])) \in PlansUpTo(Len(parents))
              /\ Current(w).head \in 1 .. Len(parents)
<1>1. todo[w] \in PlansUpTo(Len(parents)) /\ todo[w] # <<>> /\ Len(parents) \in Nat
      /\ Len(parents) <= MaxCommits
  BY DEF RepTypes, SaveTypes, VaultTypes, Working
<1>2. /\ Current(w) \in StepsUpTo(Len(parents)) /\ Tail(todo[w]) \in PlansUpTo(Len(parents))
      /\ Current(w).do = "fetch" => Tail(todo[w]) # <<>>
  BY <1>1, RestOfPlan DEF Current
<1>3. Tail(todo[w]) # <<>> => Tail(Tail(todo[w])) \in PlansUpTo(Len(parents))
  BY <1>2, RestOfPlan
<1>4. <<>> \in PlansUpTo(Len(parents))
  BY <1>1, ShortPlans, StepTypes
<1>5. Current(w).do = "fetch" => Current(w).head \in 1 .. Len(parents)
  BY <1>1, <1>2, ReplicasAssumption DEF StepsUpTo
<1> QED
  BY <1>2, <1>3, <1>4, <1>5

\* What is saved is a record.
LEMMA RecordTypes ==
  ASSUME RepTypes, NEW w \in Workers, Saving(w)
  PROVE  /\ RecordOf(w) \in RecordFiles
         /\ Added(w) \in Contents
         /\ records[RecordOf(w)] # Torn => NewRecord(w) \in Contents
<1>1. RecordOf(w) \in RecordFiles
  BY DEF RecordOf, RecordFiles
<1>2. Current(w) \in StepsUpTo(Len(parents)) /\ Current(w).do \in {"pin", "note"}
  BY CurrentTypes DEF Saving
<1>3. Len(parents) \in Nat /\ Len(parents) <= MaxCommits /\ MaxCommits \in Nat
  BY ReplicasAssumption DEF RepTypes, VaultTypes
<1>4. CASE Current(w).do = "pin"
  BY <1>1, <1>4, ObjectTypes DEF Added, NewRecord, Contents, Holders, RepTypes, SaveTypes
<1>5. CASE Current(w).do # "pin" /\ Current(w).of = Self
  BY <1>1, <1>5, ObjectTypes DEF Added, NewRecord, Contents, Holders, RepTypes, SaveTypes
<1>6. CASE Current(w).do # "pin" /\ Current(w).of # Self
  <2>1. Current(w).of \in Holders /\ Current(w).head \in 1 .. MaxCommits
    BY <1>2, <1>3, <1>6 DEF StepsUpTo
  <2>2. <<"commit", Current(w).head>> \in Objects
    BY <2>1 DEF Objects
  <2>3. Added(w) \in Contents
    BY <1>6, <2>1, <2>2 DEF Added, Contents
  <2> QED
    BY <1>1, <2>3 DEF NewRecord, Contents, RepTypes, SaveTypes
<1> QED
  BY <1>4, <1>5, <1>6

\* A command starts.
LEMMA StartTypes ==
  ASSUME RepTypes, NEW w \in Workers, NEW steps \in PlansUpTo(Len(parents)'), Start(w, steps),
         Len(parents)' \in Nat, Len(parents) <= Len(parents)'
  PROVE  SaveTypes' /\ PeerTypes'
<1>1. Len(parents) \in Nat
  BY DEF RepTypes, VaultTypes
<1>2. PlansUpTo(Len(parents)) \subseteq PlansUpTo(Len(parents)')
  BY <1>1, PlansGrow
<1>3. todo' \in [Workers -> PlansUpTo(Len(parents)')]
  BY <1>2 DEF RepTypes, SaveTypes, Start
<1>4. SaveTypes'
  BY <1>3 DEF RepTypes, SaveTypes, Start
<1>5. 1 .. Len(parents) \subseteq 1 .. Len(parents)'
  BY <1>1
<1>6. PeerTypes'
  BY <1>5 DEF RepTypes, PeerTypes, Start, replicasPeers
<1> QED
  BY <1>4, <1>6

\* A command goes on, or ends.
LEMMA ResumeTypes ==
  ASSUME RepTypes, NEW w \in Workers, NEW steps \in PlansUpTo(Len(parents)), Resume(w, steps),
         UNCHANGED <<parents, records, drafts, alone, safe, crossed>>
  PROVE  SaveTypes'
<1>1. {} \in Contents
  BY DEF Contents
<1>2. todo' \in [Workers -> PlansUpTo(Len(parents))]
  BY DEF RepTypes, SaveTypes, Resume
<1> QED
  BY <1>1, <1>2 DEF RepTypes, SaveTypes, Resume

LEMMA FailTypes ==
  ASSUME RepTypes, NEW w \in Workers, Working(w), Fail(w),
         UNCHANGED <<parents, records, drafts, alone, safe, crossed>>
  PROVE  SaveTypes'
BY CurrentTypes, ResumeTypes DEF Fail

\* Steps that leave the vault, the saves or the peers alone.
LEMMA VaultAlone == ASSUME RepTypes, UNCHANGED replicasVault PROVE VaultTypes'
BY DEF RepTypes, VaultTypes, replicasVault

LEMMA SavesAlone ==
  ASSUME RepTypes, UNCHANGED <<replicasSaves, todo, parents, crossed>> PROVE SaveTypes'
BY DEF RepTypes, SaveTypes, replicasSaves

LEMMA PeersAlone ==
  ASSUME RepTypes, UNCHANGED <<replicasPeers, parents, now>> PROVE PeerTypes'
BY DEF RepTypes, PeerTypes, replicasPeers

LEMMA AddTypes == ASSUME RepTypes, NEW w \in Workers, Add(w) PROVE RepTypes'
<1> DEFINE n == Len(parents) + 1
<1>1. /\ parents \in Seq(Nat) /\ tip \in 0 .. Len(parents) /\ Len(parents) \in Nat
      /\ n <= MaxCommits /\ MaxCommits \in Nat /\ disk \subseteq Objects
      /\ \A k \in DOMAIN parents : parents[k] < k
  BY ReplicasAssumption DEF RepTypes, VaultTypes, Add
<1>2. parents' = Append(parents, tip)
  BY DEF Add
<1>3. /\ parents' \in Seq(Nat) /\ Len(parents)' = n
      /\ \A k \in DOMAIN parents' : parents'[k] < k
  BY <1>1, <1>2
<1>4. dated' \in Seq(Nat) /\ Len(dated)' = n
  BY <1>1 DEF Add, RepTypes, VaultTypes, PeerTypes
<1>5. disk' \subseteq Objects
  <2>1. n \in 1 .. MaxCommits
    BY <1>1
  <2>2. {<<"commit", n>>, <<"tree", n>>, <<"chunk", n>>} \subseteq Objects
    BY <2>1 DEF Objects
  <2> QED
    BY <1>1, <2>2 DEF Add
<1>6. VaultTypes'
  <2>1. tip' \in 0 .. n /\ tips' \subseteq 1 .. n
    BY <1>1 DEF Add, RepTypes, VaultTypes
  <2>2. damaged' \in 0 .. MaxDamage
    BY DEF Add, RepTypes, VaultTypes
  <2> QED
    BY <1>1, <1>3, <1>4, <1>5, <2>1, <2>2 DEF VaultTypes
<1>7. <<Pin(FALSE)>> \in PlansUpTo(n)
  <2>1. n \in Nat /\ n <= MaxCommits
    BY <1>1
  <2> HIDE DEF n
  <2>2. Pin(FALSE) \in StepsUpTo(n) /\ Pin(FALSE).do # "fetch"
    BY <2>1, StepTypes
  <2> QED
    BY <2>1, <2>2, ShortPlans
<1>8. SaveTypes' /\ PeerTypes'
  <2>1. Start(w, <<Pin(FALSE)>>)
    BY DEF Add
  <2> QED
    BY <1>1, <1>3, <1>7, <2>1, StartTypes
<1> QED
  BY <1>6, <1>8 DEF RepTypes

LEMMA ReplicateTypes == ASSUME RepTypes, NEW w \in Workers, Replicate(w) PROVE RepTypes'
<1>1. Len(parents) \in Nat /\ Len(parents) <= MaxCommits /\ Len(parents)' = Len(parents)
  BY DEF RepTypes, VaultTypes, Replicate, replicasVault
<1>2. ReplicateSteps \in PlansUpTo(Len(parents))
  <2>1. /\ Pin(TRUE) \in StepsUpTo(Len(parents)) /\ Note(Self, 0, TRUE) \in StepsUpTo(Len(parents))
        /\ Provide \in StepsUpTo(Len(parents)) /\ Provide.do # "fetch"
        /\ Note(Self, 0, TRUE).do # "fetch"
    BY <1>1, StepTypes
  <2> QED
    BY <1>1, <2>1, ShortPlans DEF ReplicateSteps
<1>3. <<Pin(TRUE)>> \in PlansUpTo(Len(parents))
  BY <1>1, StepTypes, ShortPlans
<1>4. SaveTypes' /\ PeerTypes'
  <2>1. PICK steps \in PlansUpTo(Len(parents)) : Start(w, steps)
    BY <1>2, <1>3 DEF Replicate
  <2> QED
    BY <1>1, <2>1, StartTypes
<1> QED
  BY <1>4, VaultAlone DEF Replicate, RepTypes

LEMMA SyncTypes ==
  ASSUME RepTypes, NEW w \in Workers, NEW k \in Nat, NEW heard \in [1 .. k -> Hearings],
         Sync(w, heard)
  PROVE  RepTypes'
<1>1. Len(parents) \in Nat /\ Len(parents) <= MaxCommits /\ Len(parents)' = Len(parents)
  BY DEF RepTypes, VaultTypes, Sync, replicasVault
<1>2. SyncSteps(heard) \in PlansUpTo(Len(parents))
  BY <1>1, SyncPlan
<1>3. SaveTypes' /\ PeerTypes'
  <2>1. Start(w, SyncSteps(heard))
    BY DEF Sync
  <2> QED
    BY <1>1, <1>2, <2>1, StartTypes
<1> QED
  BY <1>3, VaultAlone DEF Sync, RepTypes

LEMMA LoadTypes == ASSUME RepTypes, NEW w \in Workers, LoadRecord(w) PROVE RepTypes'
<1>1. VaultTypes' /\ PeerTypes'
  BY VaultAlone, PeersAlone DEF LoadRecord, replicasVault
<1>2. Working(w) /\ Saving(w)
  BY DEF LoadRecord, Saving
<1>3. UNCHANGED <<parents, records, drafts, safe, crossed>>
  BY DEF LoadRecord, replicasVault
<1>4. ASSUME Resume(w, <<>>), UNCHANGED alone PROVE SaveTypes'
  BY <1>2, <1>3, <1>4, CurrentTypes, ResumeTypes
<1>5. ASSUME Fail(w), UNCHANGED alone PROVE SaveTypes'
  BY <1>2, <1>3, <1>5, FailTypes
<1>6. ASSUME records[RecordOf(w)] # Torn,
             mine' = [mine EXCEPT ![w] = NewRecord(w)],
             at' = [at EXCEPT ![w] = "truncate"],
             alone' = [alone EXCEPT ![w] = ~Others(w)],
             UNCHANGED <<todo, fd>>
      PROVE  SaveTypes'
  <2>1. NewRecord(w) \in Contents
    BY <1>2, <1>6, RecordTypes
  <2>2. Others(w) \in BOOLEAN
    BY Zenon DEF Others
  <2>3. alone' \in [Workers -> BOOLEAN]
    BY <1>6, <2>2 DEF RepTypes, SaveTypes
  <2> QED
    BY <1>3, <1>6, <2>1, <2>3 DEF RepTypes, SaveTypes
<1>7. SaveTypes'
  BY <1>4, <1>5, <1>6 DEF LoadRecord
<1> QED
  BY <1>1, <1>7 DEF RepTypes

LEMMA OpenTypes == ASSUME RepTypes, NEW w \in Workers, OpenDraft(w) PROVE RepTypes'
<1>1. VaultTypes' /\ PeerTypes'
  BY VaultAlone, PeersAlone DEF OpenDraft, replicasVault
<1>2. SaveTypes'
  BY DEF OpenDraft, replicasVault, RepTypes, SaveTypes
<1> QED
  BY <1>1, <1>2 DEF RepTypes

LEMMA FillTypes == ASSUME RepTypes, NEW w \in Workers, FillDraft(w) PROVE RepTypes'
<1>1. VaultTypes' /\ PeerTypes'
  BY VaultAlone, PeersAlone DEF FillDraft, replicasVault
<1>2. \A file : Filled(w, file) \subseteq {Torn} \cup Contents
  BY DEF Filled, RepTypes, SaveTypes
<1>3. /\ records' \in [RecordFiles -> {Torn} \cup Contents]
      /\ drafts' \in [RecordFiles -> {Torn, NoDraft} \cup Contents]
  BY <1>2 DEF FillDraft, RepTypes, SaveTypes
<1>4. SaveTypes'
  BY <1>3 DEF FillDraft, replicasVault, RepTypes, SaveTypes
<1> QED
  BY <1>1, <1>4 DEF RepTypes

LEMMA RenameTypes == ASSUME RepTypes, NEW w \in Workers, RenameDraft(w) PROVE RepTypes'
<1>1. VaultTypes' /\ PeerTypes'
  BY VaultAlone, PeersAlone DEF RenameDraft, replicasVault
<1>2. /\ Working(w) /\ Saving(w) /\ RecordOf(w) \in RecordFiles
      /\ Tail(todo[w]) \in PlansUpTo(Len(parents))
      /\ UNCHANGED <<parents, alone, crossed>>
  BY CurrentTypes, RecordTypes DEF RenameDraft, Saving, replicasVault
<1> DEFINE f == RecordOf(w)
           Moved(v) == Saving(v) /\ RecordOf(v) = f /\ at[v] \in {"fill", "rename"}
           After(v) == IF v = w THEN "none"
                       ELSE IF ~Moved(v) THEN fd[v]
                       ELSE IF fd[v] = "draft" THEN "record" ELSE "gone"
<1>3. ASSUME drafts[f] # NoDraft,
             records' = [records EXCEPT ![f] = drafts[f]],
             drafts' = [drafts EXCEPT ![f] = NoDraft],
             fd' = [v \in Workers |-> After(v)],
             safe' = IF alone[w] THEN [safe EXCEPT ![f] = @ \cup mine[w]] ELSE safe,
             todo' = [todo EXCEPT ![w] = Tail(@)],
             at' = [at EXCEPT ![w] = "load"],
             mine' = [mine EXCEPT ![w] = {}]
      PROVE  SaveTypes'
  <2>1. \A v \in Workers : After(v) \in {"none", "draft", "record", "gone"}
    BY DEF RepTypes, SaveTypes
  <2>2. fd' \in [Workers -> {"none", "draft", "record", "gone"}]
    <3> HIDE DEF After
    <3> QED
      BY <1>3, <2>1
  <2>3. safe' \in [RecordFiles -> Contents]
    BY <1>2, <1>3 DEF RepTypes, SaveTypes, Contents
  <2>4. /\ records' \in [RecordFiles -> {Torn} \cup Contents]
        /\ drafts' \in [RecordFiles -> {Torn, NoDraft} \cup Contents]
    BY <1>2, <1>3 DEF RepTypes, SaveTypes
  <2>5. /\ mine' \in [Workers -> Contents] /\ todo' \in [Workers -> PlansUpTo(Len(parents))]
        /\ at' \in [Workers -> {"load", "truncate", "fill", "rename"}]
    BY <1>2, <1>3 DEF RepTypes, SaveTypes, Contents
  <2> QED
    BY <1>2, <2>2, <2>3, <2>4, <2>5 DEF RepTypes, SaveTypes
<1>4. ASSUME Fail(w), UNCHANGED <<records, drafts, safe>> PROVE SaveTypes'
  BY <1>2, <1>4, FailTypes
<1>5. SaveTypes'
  BY <1>3, <1>4 DEF RenameDraft
<1> QED
  BY <1>1, <1>5 DEF RepTypes

LEMMA ProvideTypes == ASSUME RepTypes, NEW w \in Workers, ProvideHead(w) PROVE RepTypes'
<1>1. VaultTypes'
  BY VaultAlone DEF ProvideHead
<1>2. Working(w) /\ UNCHANGED <<parents, records, drafts, alone, safe, crossed>>
  BY DEF ProvideHead, replicasVault
<1>3. SaveTypes'
  <2>1. CASE Finish(w)
    BY <1>2, <2>1, CurrentTypes, ResumeTypes DEF Finish
  <2>2. CASE Fail(w)
    BY <1>2, <2>2, FailTypes
  <2> QED
    BY <2>1, <2>2 DEF ProvideHead
<1>4. Reached(tip) \subseteq 1 .. Len(parents)
  BY ReachedIs DEF RepTypes, VaultTypes
<1>5. provided' \subseteq 1 .. Len(parents)
  BY <1>4 DEF ProvideHead, RepTypes, PeerTypes
<1>6. PeerTypes'
  BY <1>2, <1>5 DEF ProvideHead, RepTypes, PeerTypes
<1> QED
  BY <1>1, <1>3, <1>6 DEF RepTypes

LEMMA FetchTypes == ASSUME RepTypes, NEW w \in Workers, FetchHead(w) PROVE RepTypes'
<1> DEFINE n == Current(w).head
<1>1. PeerTypes'
  BY PeersAlone DEF FetchHead
<1>2. /\ Working(w) /\ UNCHANGED <<parents, records, drafts, alone, safe, crossed>>
      /\ n \in 1 .. Len(parents)
      /\ Tail(todo[w]) \in PlansUpTo(Len(parents))
      /\ Tail(Tail(todo[w])) \in PlansUpTo(Len(parents))
  BY CurrentTypes DEF FetchHead
<1>3. SaveTypes'
  <2>1. CASE Finish(w)
    BY <1>2, <2>1, ResumeTypes DEF Finish
  <2>2. CASE Resume(w, Tail(Tail(todo[w])))
    BY <1>2, <2>2, ResumeTypes
  <2> QED
    BY <2>1, <2>2 DEF FetchHead
<1>4. ObjectsOf(n) \subseteq Objects /\ DagOf(n) \subseteq Objects
  <2>1. n \in 0 .. Len(parents)
    BY <1>2
  <2> QED
    BY <1>2, <2>1, ObjectTypes
<1>5. disk' \subseteq Objects /\ tip' \in 0 .. Len(parents) /\ tips' \subseteq 1 .. Len(parents)
  <2> HIDE DEF n
  <2>1. n \in 0 .. Len(parents)
    BY <1>2
  <2> QED
    BY <1>2, <1>4, <2>1 DEF FetchHead, RepTypes, VaultTypes, n
<1>6. VaultTypes'
  BY <1>5, <1>2 DEF FetchHead, RepTypes, VaultTypes
<1> QED
  BY <1>1, <1>3, <1>6 DEF RepTypes

LEMMA KillTypes == ASSUME RepTypes, NEW w \in Workers, KillWorker(w) PROVE RepTypes'
BY VaultAlone, PeersAlone, CurrentTypes, ResumeTypes DEF KillWorker, RepTypes, replicasVault

LEMMA AroundTypes ==
  ASSUME RepTypes,
         \/ \E p \in Peers : \E n \in 1 .. MaxCommits : PeerPulls(p, n)
         \/ \E p \in Peers : \E answers \in BOOLEAN : Probe(p, answers)
         \/ \E o \in Objects : Damage(o)
         \/ TimePasses
         \/ UNCHANGED replicasVars
  PROVE  RepTypes'
<1>1. ASSUME NEW p \in Peers, NEW n \in 1 .. MaxCommits, PeerPulls(p, n) PROVE RepTypes'
  <2>1. n \in 0 .. Len(parents)
    BY <1>1 DEF PeerPulls, RepTypes, PeerTypes, VaultTypes
  <2>2. Line(n) \subseteq 1 .. Len(parents)
    BY <2>1, LineIs DEF RepTypes, VaultTypes
  <2>3. PeerTypes'
    BY <1>1, <2>2 DEF PeerPulls, RepTypes, PeerTypes, replicasVault
  <2> QED
    BY <1>1, <2>3, VaultAlone, SavesAlone DEF PeerPulls, RepTypes, replicasVault
<1>2. ASSUME NEW p \in Peers, NEW answers \in BOOLEAN, Probe(p, answers) PROVE RepTypes'
  <2>1. PeerTypes'
    BY <1>2 DEF Probe, RepTypes, PeerTypes, replicasVault
  <2> QED
    BY <1>2, <2>1, VaultAlone, SavesAlone DEF Probe, RepTypes, replicasVault
<1>3. ASSUME NEW o \in Objects, Damage(o) PROVE RepTypes'
  <2>1. VaultTypes'
    BY <1>3, ReplicasAssumption DEF Damage, RepTypes, VaultTypes
  <2> QED
    BY <1>3, <2>1, PeersAlone, SavesAlone DEF Damage, RepTypes
<1>4. ASSUME TimePasses PROVE RepTypes'
  <2>1. PeerTypes'
    BY <1>4 DEF TimePasses, RepTypes, PeerTypes, replicasVault, replicasPeers
  <2> QED
    BY <1>4, <2>1, VaultAlone, SavesAlone DEF TimePasses, RepTypes, replicasVault
<1>5. CASE UNCHANGED replicasVars
  BY <1>5, VaultAlone, SavesAlone, PeersAlone DEF replicasVars, RepTypes, replicasVault
<1> QED
  BY <1>1, <1>2, <1>3, <1>4, <1>5

LEMMA TypesStep == RepTypes /\ [ReplicasNext]_replicasVars => RepTypes'
<1> SUFFICES ASSUME RepTypes, [ReplicasNext]_replicasVars PROVE RepTypes'
  OBVIOUS
<1>1. ASSUME NEW w \in Workers, NEW k \in 1 .. MaxHeard,
             NEW heard \in [1 .. k -> Hearings], Sync(w, heard)
      PROVE  RepTypes'
  BY <1>1, SyncTypes
<1> QED
  BY <1>1, AddTypes, ReplicateTypes, LoadTypes, OpenTypes, FillTypes, RenameTypes,
     ProvideTypes, FetchTypes, KillTypes, AroundTypes DEF ReplicasNext

\* All that commands, damage, peers and time do to the vault, the records and
\* what is known of the peers leaves them well typed.
THEOREM ReplicasTypes == ReplicasSpec => []ReplicasTypeOK
<1>1. ReplicasInit => RepTypes
  BY RepTypesInit
<1>2. RepTypes /\ [ReplicasNext]_replicasVars => RepTypes'
  BY TypesStep
<1>3. RepTypes => ReplicasTypeOK
  BY TypesSay
<1> QED
  BY <1>1, <1>2, <1>3, PTL DEF ReplicasSpec

-----------------------------------------------------------------------------
(* What a command that ran alone has noted stays                           *)

\* Nobody has come in between since w has read the record it saves.
Solo(w) == alone[w] \/ ~crossed

\* What a worker is about to save has all that is safe.  While it is alone the
\* temporary file is its own.
SaveInv(w) ==
  /\ Saving(w) /\ at[w] # "load" => safe[RecordOf(w)] \subseteq mine[w]
  /\ Working(w) /\ Solo(w) => ~Others(w)
  /\ Saving(w) /\ Solo(w) =>
       /\ at[w] = "fill" => drafts[RecordOf(w)] = Torn /\ fd[w] = "draft"
       /\ at[w] = "rename" => drafts[RecordOf(w)] = mine[w]

\* A file that is whole has all that is safe, and so has one that is to take
\* its place.
FileInv(f) ==
  /\ records[f] = Torn => crossed
  /\ records[f] # Torn => safe[f] \subseteq records[f]
  /\ drafts[f] \notin {Torn, NoDraft} => safe[f] \subseteq drafts[f]

NotedInv ==
  /\ \A w \in Workers : SaveInv(w)
  /\ \A f \in RecordFiles : FileInv(f)

LEMMA NotedInit == ReplicasInit => NotedInv
<1> SUFFICES ASSUME ReplicasInit PROVE NotedInv
  OBVIOUS
<1>1. ASSUME NEW w \in Workers PROVE SaveInv(w)
  <2>1. ~Working(w)
    BY DEF ReplicasInit, Working
  <2> QED
    BY <2>1 DEF SaveInv, Saving
<1>2. ASSUME NEW f \in RecordFiles PROVE FileInv(f)
  <2>1. {} \in Contents
    BY DEF Contents
  <2>2. records[f] = {} /\ drafts[f] = NoDraft /\ safe[f] = {} /\ Torn # {}
    BY <2>1, ReplicasAssumption DEF ReplicasInit
  <2> QED
    BY <2>2 DEF FileInv
<1> QED
  BY <1>1, <1>2 DEF NotedInv

\* While w works, another worker that is not overlapped does not.
LEMMA OnlyOneSolo ==
  ASSUME NotedInv, NEW w \in Workers, Working(w), NEW v \in Workers \ {w}, Working(v)
  PROVE  ~Solo(v)
BY DEF NotedInv, SaveInv, Others

\* A step of w that leaves the other workers to what they were about.
LEMMA OthersKeep ==
  ASSUME NotedInv, NEW w \in Workers, Working(w), NEW v \in Workers \ {w},
         todo'[v] = todo[v], at'[v] = at[v], mine'[v] = mine[v], alone'[v] = alone[v],
         crossed' = crossed, \A f \in RecordFiles : safe'[f] = safe[f]
  PROVE  SaveInv(v)'
<1>1. ~Working(v) => ~Working(v)' /\ ~Saving(v)'
  BY DEF Working, Saving
<1>2. Working(v) => ~Solo(v)'
  BY OnlyOneSolo DEF Solo
<1>3. Saving(v)' = Saving(v) /\ RecordOf(v)' = RecordOf(v) /\ RecordOf(v) \in RecordFiles
  BY DEF Saving, Working, Current, RecordOf, RecordFiles
<1>4. Saving(v)' /\ at'[v] # "load" => safe'[RecordOf(v)'] \subseteq mine'[v]
  BY <1>3 DEF NotedInv, SaveInv
<1> QED
  BY <1>1, <1>2, <1>4 DEF SaveInv

\* After a step of w by which nobody starts.
LEMMA StaysAlone ==
  ASSUME NotedInv, NEW w \in Workers, Working(w),
         \A v \in Workers \ {w} : todo'[v] = todo[v], alone'[w] = alone[w], crossed' = crossed
  PROVE  Solo(w)' => ~Others(w)'
BY DEF NotedInv, SaveInv, Solo, Others, Working

\* A command that goes on, or ends, is about to load.
LEMMA ResumeNoted ==
  ASSUME RepTypes, NotedInv, NEW w \in Workers, Working(w), NEW steps, Resume(w, steps),
         UNCHANGED <<records, drafts, alone, safe, crossed>>
  PROVE  NotedInv'
<1>1. at'[w] = "load"
  BY DEF Resume, RepTypes, SaveTypes
<1>2. \A v \in Workers \ {w} :
        /\ todo'[v] = todo[v] /\ at'[v] = at[v] /\ mine'[v] = mine[v] /\ alone'[v] = alone[v]
  BY DEF Resume, RepTypes, SaveTypes
<1>3. \A v \in Workers \ {w} : SaveInv(v)'
  BY <1>2, OthersKeep
<1>4. SaveInv(w)'
  <2>1. Solo(w)' => ~Others(w)'
    BY <1>2, StaysAlone
  <2> QED
    BY <1>1, <2>1 DEF SaveInv
<1>5. \A f \in RecordFiles : FileInv(f)'
  BY DEF NotedInv, FileInv
<1> QED
  BY <1>3, <1>4, <1>5 DEF NotedInv

\* A command starts: who was alone is not any more.
LEMMA StartNoted ==
  ASSUME RepTypes, NotedInv, NEW w \in Workers, NEW steps, Start(w, steps)
  PROVE  NotedInv'
<1>1. /\ ~Working(w) /\ at'[w] = "load" /\ crossed' = (crossed \/ Others(w))
      /\ \A v \in Workers : alone'[v] = FALSE
      /\ UNCHANGED <<records, drafts, mine, safe>>
  BY DEF Start, RepTypes, SaveTypes
<1>2. \A v \in Workers \ {w} : todo'[v] = todo[v] /\ at'[v] = at[v]
  BY DEF Start, RepTypes, SaveTypes
<1>3. ASSUME NEW v \in Workers \ {w} PROVE SaveInv(v)'
  <2>1. Working(v)' => Others(w)
    BY <1>2 DEF Working, Others
  <2>2. Working(v)' => ~Solo(v)'
    BY <1>1, <2>1 DEF Solo
  <2>3. Saving(v)' = Saving(v) /\ RecordOf(v)' = RecordOf(v)
    BY <1>2 DEF Saving, Working, Current, RecordOf
  <2>4. Saving(v)' /\ at'[v] # "load" => safe'[RecordOf(v)'] \subseteq mine'[v]
    BY <1>1, <1>2, <2>3 DEF NotedInv, SaveInv
  <2>5. Saving(v)' => Working(v)'
    BY DEF Saving
  <2> QED
    BY <2>2, <2>4, <2>5 DEF SaveInv
<1>4. SaveInv(w)'
  <2>1. Solo(w)' => ~Others(w)
    BY <1>1 DEF Solo
  <2>2. Others(w)' => Others(w)
    BY <1>2 DEF Others, Working
  <2> QED
    BY <1>1, <2>1, <2>2 DEF SaveInv
<1>5. \A f \in RecordFiles : FileInv(f)'
  BY <1>1 DEF NotedInv, FileInv
<1> QED
  BY <1>3, <1>4, <1>5 DEF NotedInv

LEMMA LoadNoted == ASSUME RepTypes, NotedInv, NEW w \in Workers, LoadRecord(w) PROVE NotedInv'
<1>1. /\ Saving(w) /\ Working(w) /\ RecordOf(w) \in RecordFiles
      /\ UNCHANGED <<records, drafts, safe, crossed>>
  BY RecordTypes DEF LoadRecord, Saving
<1>2. ASSUME Resume(w, <<>>), UNCHANGED alone PROVE NotedInv'
  BY <1>1, <1>2, ResumeNoted
<1>3. ASSUME Fail(w), UNCHANGED alone PROVE NotedInv'
  BY <1>1, <1>3, ResumeNoted DEF Fail
<1>4. ASSUME records[RecordOf(w)] # Torn,
             mine' = [mine EXCEPT ![w] = NewRecord(w)],
             at' = [at EXCEPT ![w] = "truncate"],
             alone' = [alone EXCEPT ![w] = ~Others(w)],
             UNCHANGED <<todo, fd>>
      PROVE  NotedInv'
  <2>1. \A v \in Workers \ {w} :
          /\ todo'[v] = todo[v] /\ at'[v] = at[v] /\ mine'[v] = mine[v]
          /\ alone'[v] = alone[v]
    BY <1>4 DEF RepTypes, SaveTypes
  <2>2. \A v \in Workers \ {w} : SaveInv(v)'
    BY <1>1, <2>1, OthersKeep
  <2>3. RecordOf(w)' = RecordOf(w) /\ mine'[w] = NewRecord(w) /\ at'[w] = "truncate"
    BY <1>4 DEF RecordOf, Current, RepTypes, SaveTypes
  <2>4. safe'[RecordOf(w)'] \subseteq mine'[w]
    BY <1>1, <1>4, <2>3 DEF NotedInv, FileInv, NewRecord
  <2>5. Solo(w)' => ~Others(w)'
    <3>1. Others(w)' = Others(w)
      BY <1>4 DEF Others, Working
    <3>2. alone'[w] => ~Others(w)
      BY <1>4 DEF RepTypes, SaveTypes
    <3>3. ~crossed => ~Others(w)
      BY <1>1 DEF NotedInv, SaveInv, Solo
    <3> QED
      BY <1>1, <3>1, <3>2, <3>3 DEF Solo
  <2>6. SaveInv(w)'
    BY <2>3, <2>4, <2>5 DEF SaveInv
  <2>7. \A f \in RecordFiles : FileInv(f)'
    BY <1>1 DEF NotedInv, FileInv
  <2> QED
    BY <2>2, <2>6, <2>7 DEF NotedInv
<1> QED
  BY <1>2, <1>3, <1>4 DEF LoadRecord

LEMMA OpenNoted == ASSUME RepTypes, NotedInv, NEW w \in Workers, OpenDraft(w) PROVE NotedInv'
<1>1. /\ Saving(w) /\ Working(w) /\ RecordOf(w) \in RecordFiles /\ at[w] = "truncate"
      /\ UNCHANGED <<records, mine, alone, safe, todo, crossed>>
  BY RecordTypes DEF OpenDraft, Saving
<1>2. /\ at'[w] = "fill" /\ fd'[w] = "draft" /\ drafts'[RecordOf(w)] = Torn
      /\ \A v \in Workers \ {w} : at'[v] = at[v]
      /\ \A f \in RecordFiles : drafts'[f] = Torn \/ drafts'[f] = drafts[f]
  BY <1>1 DEF OpenDraft, RepTypes, SaveTypes
<1>3. \A v \in Workers \ {w} : SaveInv(v)'
  BY <1>1, <1>2, OthersKeep
<1>4. SaveInv(w)'
  <2>1. Solo(w)' => ~Others(w)'
    BY <1>1, StaysAlone
  <2>2. RecordOf(w)' = RecordOf(w) /\ safe'[RecordOf(w)'] \subseteq mine'[w]
    BY <1>1 DEF NotedInv, SaveInv, RecordOf, Current
  <2> QED
    BY <1>2, <2>1, <2>2 DEF SaveInv
<1>5. \A f \in RecordFiles : FileInv(f)'
  BY <1>1, <1>2 DEF NotedInv, FileInv
<1> QED
  BY <1>3, <1>4, <1>5 DEF NotedInv

LEMMA FillNoted == ASSUME RepTypes, NotedInv, NEW w \in Workers, FillDraft(w) PROVE NotedInv'
<1> DEFINE f == RecordOf(w)
<1>1. /\ Saving(w) /\ Working(w) /\ f \in RecordFiles /\ at[w] = "fill"
      /\ UNCHANGED <<mine, alone, safe, todo, crossed>>
      /\ safe[f] \subseteq mine[w] /\ mine[w] \in Contents
  BY RecordTypes DEF FillDraft, Saving, NotedInv, SaveInv, RepTypes, SaveTypes
<1>2. at'[w] = "rename" /\ \A v \in Workers \ {w} : at'[v] = at[v]
  BY DEF FillDraft, RepTypes, SaveTypes
<1>3. \A v \in Workers \ {w} : SaveInv(v)'
  BY <1>1, <1>2, OthersKeep
<1>4. \A file, c : c \in Filled(w, file) => c = Torn \/ c = mine[w]
  BY DEF Filled
<1>5. SaveInv(w)'
  <2>1. Solo(w)' => ~Others(w)'
    BY <1>1, StaysAlone
  <2>2. RecordOf(w)' = f
    BY <1>1 DEF RecordOf, Current
  <2>3. Solo(w)' => drafts[f] = Torn /\ fd[w] = "draft"
    BY <1>1 DEF NotedInv, SaveInv, Solo
  <2>4. Solo(w)' => drafts'[f] = mine[w]
    <3> SUFFICES ASSUME Solo(w)' PROVE drafts'[f] = mine[w]
      OBVIOUS
    <3>1. drafts' = [drafts EXCEPT ![f] = mine[w]]
      BY <2>3 DEF FillDraft, Filled
    <3> QED
      BY <1>1, <3>1 DEF RepTypes, SaveTypes
  <2> HIDE DEF f
  <2> QED
    BY <1>1, <1>2, <2>1, <2>2, <2>4 DEF SaveInv
<1>6. ASSUME NEW g \in RecordFiles PROVE FileInv(g)'
  <2>1. drafts'[g] = drafts[g] \/ drafts'[g] = Torn \/ (g = f /\ drafts'[g] = mine[w])
    BY <1>1, <1>4 DEF FillDraft, RepTypes, SaveTypes
  <2>2. records'[g] = records[g] \/ records'[g] = Torn \/ (g = f /\ records'[g] = mine[w])
    BY <1>1, <1>4 DEF FillDraft, RepTypes, SaveTypes
  <2>3. records'[g] = Torn => crossed
    <3>1. CASE records' = records
      BY <3>1 DEF NotedInv, FileInv
    <3>2. CASE fd[w] = "record"
      BY <1>1, <3>2 DEF NotedInv, SaveInv, Solo
    <3> QED
      BY <3>1, <3>2 DEF FillDraft
  <2>4. drafts'[g] \notin {Torn, NoDraft} => safe'[g] \subseteq drafts'[g]
    BY <1>1, <2>1 DEF NotedInv, FileInv
  <2>5. records'[g] # Torn => safe'[g] \subseteq records'[g]
    BY <1>1, <2>2 DEF NotedInv, FileInv
  <2> QED
    BY <1>1, <2>3, <2>4, <2>5 DEF FileInv
<1> QED
  BY <1>3, <1>5, <1>6 DEF NotedInv

LEMMA RenameNoted == ASSUME RepTypes, NotedInv, NEW w \in Workers, RenameDraft(w) PROVE NotedInv'
<1>0. PICK f \in RecordFiles : f = RecordOf(w)
  BY RecordTypes DEF RenameDraft
<1>1. /\ Saving(w) /\ Working(w) /\ at[w] = "rename"
      /\ UNCHANGED <<alone, crossed>>
      /\ safe[f] \subseteq mine[w] /\ mine[w] \in Contents /\ mine[w] # Torn
  BY <1>0, RecordTypes, ReplicasAssumption
     DEF RenameDraft, Saving, NotedInv, SaveInv, RepTypes, SaveTypes
<1>2. ASSUME Fail(w), UNCHANGED <<records, drafts, safe>> PROVE NotedInv'
  BY <1>1, <1>2, ResumeNoted DEF Fail
<1>3. ASSUME drafts[f] # NoDraft,
             records' = [records EXCEPT ![f] = drafts[f]],
             drafts' = [drafts EXCEPT ![f] = NoDraft],
             safe' = IF alone[w] THEN [safe EXCEPT ![f] = @ \cup mine[w]] ELSE safe,
             todo' = [todo EXCEPT ![w] = Tail(@)],
             at' = [at EXCEPT ![w] = "load"],
             mine' = [mine EXCEPT ![w] = {}]
      PROVE  NotedInv'
  <2>1. /\ at'[w] = "load"
        /\ \A v \in Workers \ {w} :
             /\ todo'[v] = todo[v] /\ at'[v] = at[v] /\ mine'[v] = mine[v]
             /\ alone'[v] = alone[v]
    BY <1>1, <1>3 DEF RepTypes, SaveTypes
  <2>2. Solo(w) => drafts[f] = mine[w]
    BY <1>0, <1>1 DEF NotedInv, SaveInv
  <2>3. ASSUME NEW v \in Workers \ {w} PROVE SaveInv(v)'
    <3>1. CASE alone[w]
      <4>1. ~Working(v)
        BY <1>1, <3>1 DEF NotedInv, SaveInv, Solo, Others
      <4> QED
        BY <2>1, <4>1 DEF SaveInv, Working, Saving
    <3>2. CASE ~alone[w]
      <4>1. safe' = safe
        BY <1>3, <3>2
      <4> QED
        BY <1>1, <2>1, <4>1, OthersKeep
    <3> QED
      BY <3>1, <3>2
  <2>4. SaveInv(w)'
    <3>1. Solo(w)' => ~Others(w)'
      BY <1>1, <2>1, StaysAlone
    <3> QED
      BY <2>1, <3>1 DEF SaveInv
  <2>5. /\ records'[f] = drafts[f] /\ drafts'[f] = NoDraft
        /\ safe'[f] = IF alone[w] THEN safe[f] \cup mine[w] ELSE safe[f]
        /\ \A g \in RecordFiles \ {f} : /\ records'[g] = records[g] /\ drafts'[g] = drafts[g]
                                        /\ safe'[g] = safe[g]
    BY <1>1, <1>3 DEF RepTypes, SaveTypes
  <2>6. \A g \in RecordFiles \ {f} : FileInv(g)'
    BY <1>1, <2>5 DEF NotedInv, FileInv
  <2>7. FileInv(f)'
    <3>1. records'[f] = Torn => crossed
      BY <1>1, <2>2, <2>5 DEF Solo
    <3>2. records'[f] # Torn => safe'[f] \subseteq records'[f]
      <4>1. CASE alone[w]
        BY <1>1, <2>2, <2>5, <4>1 DEF Solo
      <4>2. CASE ~alone[w]
        BY <1>1, <1>3, <2>5, <4>2 DEF NotedInv, FileInv
      <4> QED
        BY <4>1, <4>2
    <3> QED
      BY <1>1, <2>5, <3>1, <3>2 DEF FileInv
  <2>8. \A g \in RecordFiles : FileInv(g)'
    <3> QED
      BY <1>1, <2>6, <2>7
  <2> QED
    BY <2>3, <2>4, <2>8 DEF NotedInv
<1> QED
  BY <1>0, <1>2, <1>3 DEF RenameDraft

\* What happens around the commands touches no record.
LEMMA AroundNoted ==
  ASSUME NotedInv, UNCHANGED <<replicasSaves, todo, crossed>>
  PROVE  NotedInv'
<1>1. \A v \in Workers :
        /\ Working(v)' = Working(v) /\ Saving(v)' = Saving(v) /\ Solo(v)' = Solo(v)
        /\ RecordOf(v)' = RecordOf(v) /\ Others(v)' = Others(v)
  BY DEF replicasSaves, Working, Saving, Current, RecordOf, Others, Solo
<1>2. \A v \in Workers : SaveInv(v)'
  BY <1>1 DEF NotedInv, SaveInv, replicasSaves
<1>3. \A f \in RecordFiles : FileInv(f)'
  BY DEF NotedInv, FileInv, replicasSaves
<1> QED
  BY <1>2, <1>3 DEF NotedInv

LEMMA NotedStep == RepTypes /\ NotedInv /\ [ReplicasNext]_replicasVars => NotedInv'
<1> SUFFICES ASSUME RepTypes, NotedInv, [ReplicasNext]_replicasVars PROVE NotedInv'
  OBVIOUS
<1>1. ASSUME NEW w \in Workers, Add(w) \/ Replicate(w) PROVE NotedInv'
  <2>1. PICK steps : Start(w, steps)
    BY <1>1 DEF Add, Replicate
  <2> QED
    BY <2>1, StartNoted
<1>2. ASSUME NEW w \in Workers, NEW heard, Sync(w, heard) PROVE NotedInv'
  BY <1>2, StartNoted DEF Sync
<1>3. ASSUME NEW w \in Workers, ProvideHead(w) PROVE NotedInv'
  BY <1>3, ResumeNoted DEF ProvideHead, Finish, Fail
<1>4. ASSUME NEW w \in Workers, FetchHead(w) PROVE NotedInv'
  BY <1>4, ResumeNoted DEF FetchHead, Finish
<1>5. ASSUME NEW w \in Workers, KillWorker(w) PROVE NotedInv'
  BY <1>5, ResumeNoted DEF KillWorker
<1>6. ASSUME \/ \E p \in Peers : \E n \in 1 .. MaxCommits : PeerPulls(p, n)
             \/ \E p \in Peers : \E answers \in BOOLEAN : Probe(p, answers)
             \/ \E o \in Objects : Damage(o)
             \/ TimePasses
             \/ UNCHANGED replicasVars
      PROVE  NotedInv'
  <2>1. UNCHANGED <<replicasSaves, todo, crossed>>
    BY <1>6 DEF PeerPulls, Probe, Damage, TimePasses, replicasVars
  <2> QED
    BY <2>1, AroundNoted
<1> QED
  BY <1>1, <1>2, <1>3, <1>4, <1>5, <1>6, LoadNoted, OpenNoted, FillNoted, RenameNoted
     DEF ReplicasNext

\* What a command that ran alone has pinned or noted stays in the file,
\* whatever commands overlap or are killed later, unless the file stops to
\* parse as a whole; and that takes two commands at once.
THEOREM NotesStay == ReplicasSpec => []NotedStays
<1>1. ReplicasInit => RepTypes /\ NotedInv
  BY RepTypesInit, NotedInit
<1>2. RepTypes /\ NotedInv /\ [ReplicasNext]_replicasVars => RepTypes' /\ NotedInv'
  BY TypesStep, NotedStep
<1>3. NotedInv => NotedStays
  BY DEF NotedInv, FileInv, NotedStays
<1> QED
  BY <1>1, <1>2, <1>3, PTL DEF ReplicasSpec

-----------------------------------------------------------------------------
(* The order of the peers                                                  *)

\* A relation that is a strict total order of the numbers up to n.
Orders(R, n) ==
  /\ \A i, j \in 1 .. n : i # j => <<i, j>> \in R \/ <<j, i>> \in R
  /\ \A i, j, k \in 1 .. n : <<i, j>> \in R /\ <<j, k>> \in R => <<i, k>> \in R

\* All numbers up to m, in the order of R.
Sorted(r, R, m) ==
  /\ \A i \in 1 .. m : \E k \in 1 .. m : r[k] = i
  /\ \A k, l \in 1 .. m : k < l => <<r[k], r[l]>> \in R

\* One more number goes before the first that it precedes.
LEMMA Insertion ==
  ASSUME NEW m \in Nat, NEW R, Orders(R, m + 1), NEW r \in [1 .. m -> 1 .. m],
         Sorted(r, R, m)
  PROVE  \E s \in [1 .. m + 1 -> 1 .. m + 1] : Sorted(s, R, m + 1)
<1> DEFINE new == m + 1
           H == {i \in 1 .. m : <<new, r[i]>> \in R} \cup {new}
<1>1. PICK c \in H : \A y \in H : c <= y
  <2>1. H \subseteq Nat /\ H # {}
    OBVIOUS
  <2> HIDE DEF H
  <2> QED
    BY <2>1, NatMin
<1>2. c \in 1 .. new /\ (c # new => c \in 1 .. m /\ <<new, r[c]>> \in R)
  BY <1>1
<1>3. \A i \in 1 .. m : i < c => <<r[i], new>> \in R
  <2> TAKE i \in 1 .. m
  <2> HAVE i < c
  <2>1. i \notin H
    BY <1>1, <1>2
  <2>2. <<new, r[i]>> \notin R
    BY <2>1
  <2>3. r[i] \in 1 .. m + 1 /\ new \in 1 .. m + 1 /\ r[i] # new
    OBVIOUS
  <2> HIDE DEF new
  <2> QED
    BY <2>2, <2>3 DEF Orders
<1> DEFINE s == [i \in 1 .. new |-> IF i < c THEN r[i] ELSE IF i = c THEN new ELSE r[i - 1]]
<1>4. /\ \A i \in 1 .. new : i < c => i \in 1 .. m /\ s[i] = r[i]
      /\ s[c] = new
      /\ \A i \in 1 .. new : i > c => i - 1 \in 1 .. m /\ s[i] = r[i - 1]
  BY <1>2
<1>5. s \in [1 .. new -> 1 .. new]
  <2>1. ASSUME NEW i \in 1 .. new PROVE s[i] \in 1 .. new
    <3>1. CASE i < c
      BY <1>4, <3>1
    <3>2. CASE i = c
      BY <1>4, <3>2
    <3>3. CASE i > c
      <4>1. i - 1 \in 1 .. m /\ s[i] = r[i - 1]
        BY <1>4, <3>3
      <4> HIDE DEF s
      <4> QED
        BY <4>1
    <3> QED
      BY <1>2, <3>1, <3>2, <3>3
  <2> QED
    BY <2>1
<1> HIDE DEF s
<1>6. ASSUME NEW i \in 1 .. new PROVE \E k \in 1 .. new : s[k] = i
  <2>1. CASE i = new
    BY <1>2, <1>4, <2>1
  <2>2. CASE i # new
    <3>1. i \in 1 .. m
      BY <2>2
    <3>2. PICK k \in 1 .. m : r[k] = i
      BY <3>1 DEF Sorted
    <3>3. CASE k < c
      <4>1. k \in 1 .. new
        OBVIOUS
      <4>2. s[k] = r[k]
        BY <1>4, <3>3, <4>1
      <4> QED
        BY <3>2, <4>1, <4>2
    <3>4. CASE k >= c
      <4>1. k + 1 \in 1 .. new /\ k + 1 > c /\ (k + 1) - 1 = k
        BY <1>2, <3>4
      <4>2. s[k + 1] = r[(k + 1) - 1]
        BY <1>4, <4>1
      <4> QED
        BY <3>2, <4>1, <4>2
    <3> QED
      BY <1>2, <3>3, <3>4
  <2> QED
    BY <2>1, <2>2
<1>7. ASSUME NEW i \in 1 .. new, NEW j \in 1 .. new, i < j PROVE <<s[i], s[j]>> \in R
  <2>1. CASE j < c
    <3>1. i < c
      BY <1>2, <1>7, <2>1
    <3>2. i \in 1 .. m /\ j \in 1 .. m /\ s[i] = r[i] /\ s[j] = r[j]
      BY <1>4, <2>1, <3>1
    <3> QED
      BY <1>7, <3>2 DEF Sorted
  <2>2. CASE j = c
    BY <1>3, <1>4, <1>7, <2>2
  <2>3. CASE i < c /\ j > c
    <3>1. i \in 1 .. m /\ j - 1 \in 1 .. m /\ i < j - 1
      BY <1>2, <2>3
    <3> QED
      BY <1>4, <2>3, <3>1 DEF Sorted
  <2>4. CASE i = c
    <3>1. c # new /\ j > c /\ j - 1 \in 1 .. m /\ s[j] = r[j - 1] /\ s[i] = new
      BY <1>2, <1>4, <1>7, <2>4
    <3>2. c \in 1 .. m /\ <<new, r[c]>> \in R
      BY <1>2, <3>1
    <3>3. CASE j - 1 = c
      BY <3>1, <3>2, <3>3
    <3>4. CASE j - 1 # c
      <4>1. c < j - 1
        BY <1>7, <2>4, <3>4
      <4>2. <<r[c], r[j - 1]>> \in R
        BY <3>1, <3>2, <4>1 DEF Sorted
      <4>3. r[c] \in 1 .. m + 1 /\ r[j - 1] \in 1 .. m + 1 /\ new \in 1 .. m + 1
        <5>1. r[c] \in 1 .. m
          BY <3>2
        <5>2. r[j - 1] \in 1 .. m
          BY <3>1
        <5>3. \A x \in 1 .. m : x \in 1 .. m + 1
          OBVIOUS
        <5>4. new \in 1 .. m + 1
          OBVIOUS
        <5> HIDE DEF new
        <5> QED
          BY <5>1, <5>2, <5>3, <5>4
      <4> HIDE DEF new
      <4>4. <<new, r[j - 1]>> \in R
        BY <3>2, <4>2, <4>3 DEF Orders
      <4> QED
        BY <3>1, <4>4
    <3> QED
      BY <3>3, <3>4
  <2>5. CASE i > c
    <3>1. i - 1 \in 1 .. m /\ j - 1 \in 1 .. m /\ i - 1 < j - 1 /\ j > c
      BY <1>2, <1>7, <2>5
    <3>2. s[i] = r[i - 1] /\ s[j] = r[j - 1]
      BY <1>4, <2>5, <3>1
    <3> QED
      BY <3>1, <3>2 DEF Sorted
  <2> QED
    BY <1>2, <1>7, <2>1, <2>2, <2>3, <2>4, <2>5
<1>8. Sorted(s, R, new)
  BY <1>6, <1>7 DEF Sorted
<1> QED
  BY <1>5, <1>8

\* A total order has an arrangement.
LEMMA Arrangement ==
  ASSUME NEW n \in Nat, NEW R, Orders(R, n)
  PROVE  \E r \in [1 .. n -> 1 .. n] : Sorted(r, R, n)
<1> DEFINE G == {m \in 0 .. n : \E r \in [1 .. m -> 1 .. m] : Sorted(r, R, m)}
           Q == [i \in 1 .. n |-> i - 1]
<1>1. 0 \in G
  <2> DEFINE r == [i \in 1 .. 0 |-> i]
  <2>1. r \in [1 .. 0 -> 1 .. 0] /\ Sorted(r, R, 0)
    BY DEF Sorted
  <2>2. 0 \in 0 .. n
    OBVIOUS
  <2> HIDE DEF r
  <2> QED
    BY <2>1, <2>2
<1>2. ASSUME NEW k \in 1 .. n, Q[k] \in G PROVE k \in G
  <2> DEFINE m == k - 1
  <2>1. m \in G /\ m \in Nat /\ m + 1 = k /\ k \in 0 .. n
    BY <1>2
  <2>2. PICK r \in [1 .. m -> 1 .. m] : Sorted(r, R, m)
    BY <2>1
  <2>3. Orders(R, k)
    <3>1. \A i \in 1 .. k : i \in 1 .. n
      OBVIOUS
    <3> QED
      BY <3>1 DEF Orders
  <2>4. \E s \in [1 .. m + 1 -> 1 .. m + 1] : Sorted(s, R, m + 1)
    <3> HIDE DEF m
    <3> QED
      BY <2>1, <2>2, <2>3, Insertion
  <2> QED
    BY <2>1, <2>4
<1>3. Q \in [1 .. n -> Nat] /\ \A i \in 1 .. n : Q[i] \in 0 .. i - 1
  OBVIOUS
<1>4. n \in G
  <2> HIDE DEF G, Q
  <2>1. 0 .. n \subseteq G
    BY <1>1, <1>2, <1>3, Descent
  <2> QED
    BY <2>1
<1> QED
  BY <1>4

\* The age of an answer counts from 100 down to -100.
LEMMA FreshnessBounds ==
  ASSUME RepTypes, NEW p \in Peers
  PROVE  Freshness(p) \in -100 .. 100
<1>1. CASE seen[p] = Never
  BY <1>1 DEF Freshness
<1>2. CASE seen[p] # Never
  <2>1. now \in Nat /\ seen[p] \in Nat /\ seen[p] <= now /\ Unit \in Nat
    BY <1>2, ReplicasAssumption DEF RepTypes, PeerTypes
  <2> DEFINE old == (now - seen[p]) * Unit
  <2>2. old \in Nat
    <3>1. now - seen[p] \in Nat
      BY <2>1
    <3> QED
      BY <2>1, <3>1
  <2> HIDE DEF old
  <2> DEFINE ago == old \div 36
  <2>3. ago \in Nat
    BY <2>2
  <2>4. Freshness(p) = 100 - (IF ago > 200 THEN 200 ELSE ago)
    BY <1>2 DEF Freshness, old
  <2> HIDE DEF ago
  <2> QED
    BY <2>3, <2>4
<1> QED
  BY <1>1, <1>2

\* What of the score is left to the rest of the policy.
LEMMA ScoreBounds ==
  ASSUME RepTypes, NEW p \in Peers
  PROVE  /\ Score(p) \in Int
         /\ p \in Preferred => Score(p) >= 600
         /\ p \notin Preferred => Score(p) <= 350
         /\ alive[p] = "alive" => Score(p) >= (IF p \in Preferred THEN 1000 ELSE 0) + 100
         /\ alive[p] = "dead" => Score(p) <= (IF p \in Preferred THEN 1000 ELSE 0) - 150
<1> DEFINE liked == IF p \in Preferred THEN 1000 ELSE 0
           fresh == Freshness(p)
           known == CASE alive[p] = "alive" -> 200 [] alive[p] = "dead" -> -300 [] OTHER -> 0
           has == IF <<p, <<"commit", tip>>>> \in Have THEN 50 ELSE 0
<1>1. fresh \in -100 .. 100
  BY FreshnessBounds
<1>2. known \in -300 .. 200 /\ (alive[p] = "alive" => known = 200)
      /\ (alive[p] = "dead" => known = -300)
  OBVIOUS
<1>3. has \in 0 .. 50
  OBVIOUS
<1>4. Score(p) = liked + fresh + known + has
  BY DEF Score
<1> HIDE DEF fresh, known, has
<1> QED
  BY <1>1, <1>2, <1>3, <1>4

\* The peers as they are tried: all of them, in the order of their scores.
LEMMA PeerOrderIs ==
  ASSUME RepTypes
  PROVE  \E r \in [1 .. Len(NameOrder) -> 1 .. Len(NameOrder)] :
           /\ PeerOrder = [k \in 1 .. Len(NameOrder) |-> NameOrder[r[k]]]
           /\ \A k, m \in 1 .. Len(NameOrder) : k < m => Ahead(r[k], r[m])
<1> DEFINE n == Len(NameOrder)
           R == {q \in (1 .. n) \X (1 .. n) : Ahead(q[1], q[2])}
           Ranks(r) == /\ r \in [1 .. n -> 1 .. n]
                       /\ \A i \in 1 .. n : \E k \in 1 .. n : r[k] = i
                       /\ \A k, m \in 1 .. n : k < m => Ahead(r[k], r[m])
           ranked == CHOOSE r \in [1 .. n -> 1 .. n] :
                       /\ \A i \in 1 .. n : \E k \in 1 .. n : r[k] = i
                       /\ \A k, m \in 1 .. n : k < m => Ahead(r[k], r[m])
<1>1. n \in Nat /\ \A i \in 1 .. n : NameOrder[i] \in Peers
  BY ReplicasAssumption
<1>2. \A i \in 1 .. n : Score(NameOrder[i]) \in Int
  BY <1>1, ScoreBounds
<1>3. \A i, j \in 1 .. n : <<i, j>> \in R <=> Ahead(i, j)
  OBVIOUS
<1>4. Orders(R, n)
  <2>1. \A i, j \in 1 .. n : i # j => Ahead(i, j) \/ Ahead(j, i)
    BY <1>1, <1>2 DEF Ahead
  <2>2. \A i, j, k \in 1 .. n : Ahead(i, j) /\ Ahead(j, k) => Ahead(i, k)
    BY <1>1, <1>2 DEF Ahead
  <2> HIDE DEF R, n
  <2> QED
    BY <1>3, <2>1, <2>2 DEF Orders
<1>5. PICK r \in [1 .. n -> 1 .. n] : Sorted(r, R, n)
  <2> HIDE DEF R, n
  <2> QED
    BY <1>1, <1>4, Arrangement
<1>6. Ranks(r)
  <2> HIDE DEF R, n
  <2> QED
    BY <1>3, <1>5 DEF Sorted, Ranks
<1>7. Ranks(ranked)
  BY <1>6
<1>8. PeerOrder = [k \in 1 .. n |-> NameOrder[ranked[k]]]
  BY DEF PeerOrder
<1> HIDE DEF ranked
<1> QED
  BY <1>7, <1>8

LEMMA Preference == RepTypes => PreferredFirst
<1> SUFFICES ASSUME RepTypes PROVE PreferredFirst
  OBVIOUS
<1> DEFINE n == Len(NameOrder)
           order == PeerOrder
<1>1. PICK r \in [1 .. n -> 1 .. n] :
        /\ order = [k \in 1 .. n |-> NameOrder[r[k]]]
        /\ \A k, m \in 1 .. n : k < m => Ahead(r[k], r[m])
  BY PeerOrderIs
<1>2. \A k \in 1 .. n : order[k] = NameOrder[r[k]] /\ order[k] \in Peers
  BY <1>1 DEF Peers
<1>3. DOMAIN order = 1 .. n /\ n \in Nat
  BY <1>1, ReplicasAssumption
<1>4. ASSUME NEW i \in 1 .. n, NEW j \in 1 .. n, i < j
      PROVE  Score(order[i]) >= Score(order[j])
  <2>1. Ahead(r[i], r[j])
    BY <1>1, <1>4
  <2>2. Score(order[i]) \in Int /\ Score(order[j]) \in Int
    BY <1>2, ScoreBounds
  <2> QED
    BY <1>2, <2>1, <2>2 DEF Ahead
<1>5. ASSUME NEW i \in 1 .. n, NEW j \in 1 .. n,
             \/ order[j] \in Preferred /\ order[i] \notin Preferred
             \/ /\ (order[j] \in Preferred <=> order[i] \in Preferred)
                /\ alive[order[j]] = "alive" /\ alive[order[i]] = "dead"
      PROVE  j < i
  <2> HIDE DEF order
  <2>1. order[i] \in Peers /\ order[j] \in Peers
    BY <1>2
  <2>2. Score(order[j]) > Score(order[i])
    BY <1>5, <2>1, ScoreBounds
  <2>3. ~(i < j)
    BY <1>4, <2>1, <2>2, ScoreBounds
  <2>4. i # j
    BY <1>5
  <2> QED
    BY <1>3, <2>3, <2>4
<1> QED
  BY <1>3, <1>5 DEF PreferredFirst

\* A sync tries the peers the policy prefers before the others, and of either
\* the ones that answered the last probe before the ones that did not, however
\* long ago.
THEOREM PreferredGoFirst == ReplicasSpec => []PreferredFirst
<1>1. ReplicasInit => RepTypes
  BY RepTypesInit
<1>2. RepTypes /\ [ReplicasNext]_replicasVars => RepTypes'
  BY TypesStep
<1>3. RepTypes => PreferredFirst
  BY Preference
<1> QED
  BY <1>1, <1>2, <1>3, PTL DEF ReplicasSpec

-----------------------------------------------------------------------------
(* The health report                                                       *)

LEMMA Critical == ASSUME NEW levels, "crit" \in levels PROVE Worst(levels) = "crit"
BY DEF Worst

\* A commit that the walk from a head gets to and whose tree is there lacks a
\* chunk, and that is one of the live ones.
LEMMA LossIsSeen ==
  ASSUME RepTypes, NEW h \in tips \cup {tip}, NEW n \in Reached(h),
         <<"tree", n>> \in disk, ~Whole(n)
  PROVE  ~(Live \subseteq disk)
<1>1. h \in 0 .. Len(parents)
  BY DEF RepTypes, VaultTypes
<1>2. <<"commit", n>> \in disk
  BY <1>1, ReachedIs DEF RepTypes, VaultTypes
<1>3. ~(ChunksIn(n) \subseteq disk)
  BY <1>2 DEF Whole, ObjectsOf
<1>4. n \in {j \in UNION {Reached(k) : k \in tips \cup {tip}} : <<"tree", j>> \in disk}
  OBVIOUS
<1>5. ChunksIn(n) \subseteq Live
  BY <1>4 DEF Live
<1> QED
  BY <1>3, <1>5

LEMMA LossReported == RepTypes => LossIsCritical
<1> SUFFICES ASSUME RepTypes,
                    \/ ~Whole(tip) /\ tip # 0
                    \/ \E n \in UNION {Reached(k) : k \in tips \cup {tip}} :
                         <<"tree", n>> \in disk /\ ~Whole(n),
                    NEW signed \in BOOLEAN
             PROVE  ClusterLevel(TRUE, signed) = "crit"
  BY DEF LossIsCritical
<1>1. (tip # 0 /\ ~Whole(tip)) \/ ~(Live \subseteq disk)
  BY LossIsSeen
<1>2. VaultLevel(signed) \in {"error", "crit"}
  <2>1. CASE tip # 0 /\ ~({<<"commit", tip>>, <<"tree", tip>>} \subseteq disk)
    BY <2>1 DEF VaultLevel
  <2>2. CASE ~(tip # 0 /\ ~({<<"commit", tip>>, <<"tree", tip>>} \subseteq disk))
    BY <1>1, <2>2, Critical DEF VaultLevel
  <2> QED
    BY <2>1, <2>2
<1> QED
  BY <1>2, Critical DEF ClusterLevel

\* As long as HEAD, or a commit that the walks get to and whose tree is there,
\* cannot be restored, the report says that the state is critical.
THEOREM LossIsReported == ReplicasSpec => []LossIsCritical
<1>1. ReplicasInit => RepTypes
  BY RepTypesInit
<1>2. RepTypes /\ [ReplicasNext]_replicasVars => RepTypes'
  BY TypesStep
<1>3. RepTypes => LossIsCritical
  BY LossReported
<1> QED
  BY <1>1, <1>2, <1>3, PTL DEF ReplicasSpec

=============================================================================
