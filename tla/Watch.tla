------------------------------- MODULE Watch -------------------------------
(***************************************************************************)
(* `soal watch`: the event loop of src/src/watch.rs.  The folder changes   *)
(* under it, the notify library queues an event for each change it sees    *)
(* (it may miss one), and the loop collects the files named by events      *)
(* until none has come for the debounce time, then adds them.  A file's    *)
(* content is the number of the save that wrote it, 0 for no file.         *)
(***************************************************************************)
EXTENDS Naturals, Sequences, FiniteSets

CONSTANTS WatchedFiles,
          Temporary,     \* names flush_pending skips: .x, x~, x.swp
          Debounce,      \* in ticks
          MaxSaves,      \* bound on the saves
          MaxEvents      \* bound on the events waiting in the channel

ASSUME WatchAssumption ==
  /\ Temporary \subseteq WatchedFiles
  /\ Debounce \in Nat \ {0} /\ MaxSaves \in Nat /\ MaxEvents \in Nat

VARIABLES saved,      \* the folder: the content of each file
          saves,      \* saves so far
          calm,       \* nobody uses the folder any more
          events,     \* the channel: [interesting, paths]
          pending,    \* files to add once it is quiet
          batch,      \* flush_pending: files still to look at
          added,      \* content last added to the vault
          quiet,      \* ticks since the last event was handled
          age,        \* per file, ticks since it was last added
          watching,   \* "loop", "flush", "last flush", "done"
          missed      \* files whose last change had no event, or whose add failed

folder == <<saved, saves, calm>>
watchVars == <<folder, events, pending, batch, added, quiet, age, watching, missed>>

WatchInit ==
  /\ saved = [f \in WatchedFiles |-> 0] /\ saves = 0 /\ calm = FALSE
  /\ events = <<>> /\ pending = {} /\ batch = {} /\ missed = {}
  /\ added = [f \in WatchedFiles |-> 0]
  /\ quiet = 0 /\ watching = "loop"
  /\ age = [f \in WatchedFiles |-> Debounce]

Event(interesting, paths) == [interesting |-> interesting, paths |-> paths]

-----------------------------------------------------------------------------
(* The folder                                                              *)

Send(e) == Len(events) < MaxEvents /\ events' = Append(events, e)

\* A file is created or written.  The event may be lost: notify reports an
\* error or an overflow instead, which the loop only records.
SaveFile(f) ==
  /\ ~calm /\ saves < MaxSaves
  /\ saves' = saves + 1
  /\ saved' = [saved EXCEPT ![f] = saves']
  /\ \/ Send(Event(TRUE, {f})) /\ missed' = missed \ {f}
     \/ missed' = missed \cup {f} /\ UNCHANGED events
  /\ UNCHANGED <<calm, pending, batch, added, quiet, age, watching>>

\* A file moves over another, as editors do that write a temporary file
\* first: one event with both paths.
MoveFile(f, g) ==
  /\ ~calm /\ f # g /\ saved[f] # 0
  /\ saved' = [saved EXCEPT ![f] = 0, ![g] = saved[f]]
  /\ Send(Event(TRUE, {f, g}))
  /\ missed' = missed \ {g}
  /\ UNCHANGED <<saves, calm, pending, batch, added, quiet, age, watching>>

\* Neither a removal nor an access is interesting, but both are events.
RemoveFile(f) ==
  /\ ~calm /\ saved[f] # 0
  /\ saved' = [saved EXCEPT ![f] = 0]
  /\ Send(Event(FALSE, {f}))
  /\ UNCHANGED <<saves, calm, pending, batch, added, quiet, age, watching, missed>>

AccessFile(f) ==
  /\ ~calm
  /\ Send(Event(FALSE, {f}))
  /\ UNCHANGED <<folder, pending, batch, added, quiet, age, watching, missed>>

BecomeCalm ==
  /\ ~calm /\ calm' = TRUE
  /\ UNCHANGED <<saved, saves, events, pending, batch, added, quiet, age,
                 watching, missed>>

-----------------------------------------------------------------------------
(* watch_vault_path and flush_pending                                      *)

\* Any event starts the debounce again; the files of an interesting one that
\* are there are to be added.
Receive ==
  /\ watching = "loop" /\ events # <<>>
  /\ events' = Tail(events)
  /\ quiet' = 0
  /\ pending' = IF Head(events).interesting
                THEN pending \cup {f \in Head(events).paths : saved[f] # 0}
                ELSE pending
  /\ UNCHANGED <<folder, batch, added, age, watching, missed>>

\* Mutants of Quiesce: the flush does not wait for the debounce, or comes with
\* an event instead of a timeout.
BugFlushEarly ==
  /\ watching = "loop" /\ events = <<>> /\ pending # {}
  /\ batch' = pending /\ pending' = {} /\ watching' = "flush"
  /\ UNCHANGED <<folder, events, added, quiet, age, missed>>
BugFlushOnEvent ==
  /\ watching = "loop" /\ events # <<>> /\ pending # {} /\ quiet = Debounce
  /\ batch' = pending /\ pending' = {} /\ watching' = "flush"
  /\ UNCHANGED <<folder, events, added, quiet, age, missed>>

\* recv_timeout times out, the debounce time after the last event or later.
Quiesce ==
  /\ watching = "loop" /\ events = <<>> /\ pending # {} /\ quiet = Debounce
  /\ batch' = pending /\ pending' = {} /\ watching' = "flush"
  /\ UNCHANGED <<folder, events, added, quiet, age, missed>>

\* max_duration is over.  What is pending is added; what is still in the
\* channel is not.
Deadline ==
  /\ watching = "loop"
  /\ batch' = pending /\ pending' = {} /\ watching' = "last flush"
  /\ UNCHANGED <<folder, events, added, quiet, age, missed>>

Flushing == watching \in {"flush", "last flush"}

\* One file of the batch: skipped, added with the content it has by now, or
\* failed, which is recorded and not tried again.
AddPending(f) ==
  /\ Flushing /\ f \in batch
  /\ batch' = batch \ {f}
  /\ \/ /\ saved[f] # 0 /\ f \notin Temporary
        /\ added' = [added EXCEPT ![f] = saved[f]]
        /\ age' = [age EXCEPT ![f] = 0]
        /\ missed' = missed \ {f}
     \/ /\ saved[f] # 0 /\ f \notin Temporary
        /\ missed' = missed \cup {f}
        /\ UNCHANGED <<added, age>>
     \/ /\ saved[f] = 0 \/ f \in Temporary
        /\ UNCHANGED <<added, age, missed>>
  /\ UNCHANGED <<folder, events, pending, quiet, watching>>

\* Mutant of EndFlush: what came in during the flush is taken for its echo.
BugDrainAfterFlush ==
  /\ Flushing /\ batch = {}
  /\ watching' = IF watching = "flush" THEN "loop" ELSE "done"
  /\ events' = <<>>
  /\ UNCHANGED <<folder, pending, batch, added, quiet, age, missed>>

EndFlush ==
  /\ Flushing /\ batch = {}
  /\ watching' = IF watching = "flush" THEN "loop" ELSE "done"
  /\ UNCHANGED <<folder, events, pending, batch, added, quiet, age, missed>>

\* Time passes, up to the debounce time.
UpToDebounce(n) == IF n < Debounce THEN n + 1 ELSE n
WatchTick ==
  /\ watching # "done"
  /\ quiet' = UpToDebounce(quiet)
  /\ age' = [f \in WatchedFiles |-> UpToDebounce(age[f])]
  /\ UNCHANGED <<folder, events, pending, batch, added, watching, missed>>

FolderSteps ==
  \/ \E f \in WatchedFiles : SaveFile(f) \/ RemoveFile(f) \/ AccessFile(f)
  \/ \E f, g \in WatchedFiles : MoveFile(f, g)
  \/ BecomeCalm

LoopSteps ==
  \/ Receive \/ Quiesce \/ EndFlush
  \/ \E f \in batch : AddPending(f)

WatchNext == FolderSteps \/ LoopSteps \/ Deadline \/ WatchTick

\* The loop runs and time passes; nothing is assumed of the folder.
WatchFairness == WF_watchVars(LoopSteps) /\ WF_watchVars(WatchTick)

WatchSpec == WatchInit /\ [][WatchNext]_watchVars /\ WatchFairness

-----------------------------------------------------------------------------
WatchTypeOK ==
  /\ saved \in [WatchedFiles -> Nat] /\ added \in [WatchedFiles -> Nat]
  /\ saves \in Nat /\ calm \in BOOLEAN
  /\ events \in Seq([interesting : BOOLEAN, paths : SUBSET WatchedFiles])
  /\ pending \subseteq WatchedFiles /\ missed \subseteq WatchedFiles
  /\ batch \subseteq WatchedFiles
  /\ batch # {} => Flushing
  /\ quiet \in 0 .. Debounce /\ age \in [WatchedFiles -> 0 .. Debounce]
  /\ watching \in {"loop", "flush", "last flush", "done"}

\* A file the vault does not have as it is now.
Stale(f) == f \notin Temporary /\ saved[f] \notin {0, added[f]}

Announced(f) ==
  \E i \in DOMAIN events : events[i].interesting /\ f \in events[i].paths

\* While the watcher runs, no change it was told of is forgotten, whatever
\* else changes, fails or is removed meanwhile: a file that differs from the
\* vault is in the channel, pending or in the batch.
Tracked ==
  watching # "done" =>
    \A f \in WatchedFiles : Stale(f) =>
      f \in pending \cup batch \cup missed \/ Announced(f)

\* "Debounce" (watch.rs:3): two commits of a file are the debounce time apart,
\* also when an add takes long and events pile up behind it.  The flush at
\* the deadline waits for nothing.
Debounced ==
  [][\A f \in WatchedFiles :
       added'[f] # added[f] /\ watching = "flush" => age[f] = Debounce]_watchVars

\* Once nobody touches the folder, everything the watcher was told of gets
\* into the vault, unless its time is over first.  Under steady activity it
\* need not: each event restarts the debounce.
Converges ==
  calm ~> (watching = "done" \/ \A f \in WatchedFiles : Stale(f) => f \in missed)
=============================================================================
