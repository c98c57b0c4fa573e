------------------------------- MODULE Watch --------------------------------
(***************************************************************************)
(* `fluxion watch` (fluxion-cli/watch.rs): a blocking thread turns         *)
(* events of the file system into messages of a bounded channel; the main  *)
(* loop waits until there have been none for the debounce time, reads the  *)
(* workflow and runs it, and does not look at the channel meanwhile.       *)
(*                                                                         *)
(* Time is left out: the debounce timer, which every turn of the loop      *)
(* starts anew, may have run out whenever a change has been seen.          *)
(***************************************************************************)
EXTENDS Naturals

CONSTANTS
  Capacity,  \* of the mpsc channel
  MaxSaves   \* bound: how often the file is saved

ASSUME WatchAssumption == Capacity \in Nat \ {0} /\ MaxSaves \in Nat

VARIABLES
  file,        \* the workflow file: its version, or Torn between two writes
  saves,       \* history: how many saves have begun
  raw,         \* events in the std channel of the watcher's callback
  chan,        \* messages in the mpsc channel
  thread,      \* run_watcher: setting up, at one of its steps, or ended
  shutdown,    \* the flag
  main,        \* watch_and_run: in select, in a run, or returned
  lastChange,  \* whether last_change is Some
  read,        \* history: what the main loop last read
  missed,      \* history: the last write of the file came before the watcher was set up
  opens        \* whether this system reports it when a file is opened

watchVars == <<file, saves, raw, chan, thread, shutdown, main, lastChange, read, missed, opens>>

\* Half of a file, a version of its own.
Torn == MaxSaves + 1

WatchInit ==
  /\ file = 0 /\ saves = 0 /\ read = 0
  /\ raw = 0 /\ chan = 0
  /\ thread = "setup" /\ shutdown = FALSE
  /\ main = "select" /\ lastChange = FALSE /\ missed = FALSE
  /\ opens \in BOOLEAN

-----------------------------------------------------------------------------
(* The editor                                                              *)

\* The callback: an event of our file, if there is a watcher.
Event ==
  /\ raw' = IF thread \in {"setup", "ended"} THEN raw ELSE raw + 1
  /\ missed' = (thread = "setup")

\* The file is truncated, or half of it written;
BeginSave ==
  /\ file # Torn /\ saves < MaxSaves
  /\ file' = Torn /\ saves' = saves + 1
  /\ Event
  /\ UNCHANGED <<chan, thread, shutdown, main, lastChange, read, opens>>

\* then the rest.
EndSave ==
  /\ file = Torn
  /\ file' = saves
  /\ Event
  /\ UNCHANGED <<saves, chan, thread, shutdown, main, lastChange, read, opens>>

\* A new file is renamed over the old one.
Replace ==
  /\ file # Torn /\ saves < MaxSaves
  /\ file' = saves + 1 /\ saves' = saves + 1
  /\ Event
  /\ UNCHANGED <<chan, thread, shutdown, main, lastChange, read, opens>>

-----------------------------------------------------------------------------
(* run_watcher                                                             *)

SetUp ==
  /\ thread = "setup"
  /\ thread' = "check"
  /\ UNCHANGED <<file, saves, raw, chan, shutdown, main, lastChange, read, missed, opens>>

CheckShutdown ==
  /\ thread = "check"
  /\ thread' = IF shutdown THEN "ended" ELSE "recv"
  /\ UNCHANGED <<file, saves, raw, chan, shutdown, main, lastChange, read, missed, opens>>

\* recv_timeout: an event, or nothing for 100 ms.
ThreadReceives ==
  /\ thread = "recv"
  /\ IF raw > 0 THEN raw' = raw - 1 /\ thread' = "send"
     ELSE UNCHANGED raw /\ thread' = "check"
  /\ UNCHANGED <<file, saves, chan, shutdown, main, lastChange, read, missed, opens>>

\* Faulty variant: the receiver outlives the main loop.
ForwardIntoFull ==
  /\ thread = "send"
  /\ chan < Capacity /\ chan' = chan + 1
  /\ thread' = "check"
  /\ UNCHANGED <<file, saves, raw, shutdown, main, lastChange, read, missed, opens>>

\* blocking_send: waits for room, fails when the receiver is gone.
Forward ==
  /\ thread = "send"
  /\ IF main = "returned" THEN UNCHANGED chan
     ELSE chan < Capacity /\ chan' = chan + 1
  /\ thread' = "check"
  /\ UNCHANGED <<file, saves, raw, shutdown, main, lastChange, read, missed, opens>>

\* The watcher cannot be set up: the thread ends, the main loop goes on.
WatcherFails ==
  /\ thread = "setup"
  /\ thread' = "ended"
  /\ UNCHANGED <<file, saves, raw, chan, shutdown, main, lastChange, read, missed, opens>>

-----------------------------------------------------------------------------
(* The main loop                                                           *)

ChangeReceived ==
  /\ main = "select" /\ chan > 0
  /\ chan' = chan - 1
  /\ lastChange' = TRUE
  /\ UNCHANGED <<file, saves, raw, thread, shutdown, main, read, missed, opens>>

\* Workflow::from_file; half of a file may or may not be a workflow.
Debounced ==
  /\ main = "select" /\ lastChange
  /\ read' = file
  /\ raw' = IF opens /\ thread \notin {"setup", "ended"} THEN raw + 1 ELSE raw
  /\ \/ main' = "run" /\ UNCHANGED lastChange
     \/ main' = "select" /\ file = Torn /\ lastChange' = FALSE
  /\ UNCHANGED <<file, saves, chan, thread, shutdown, missed, opens>>

\* Faulty variant: what has come in during the run is thrown away.
RunEndsAndDrains ==
  /\ main = "run"
  /\ main' = "select" /\ lastChange' = FALSE /\ chan' = 0
  /\ UNCHANGED <<file, saves, raw, thread, shutdown, read, missed, opens>>

\* Faulty variant: last_change is left as it was.
RunEndsUnsettled ==
  /\ main = "run"
  /\ main' = "select"
  /\ UNCHANGED <<file, saves, raw, chan, thread, shutdown, lastChange, read, missed, opens>>

\* The run succeeds or fails; last_change = None.
RunEnds ==
  /\ main = "run"
  /\ main' = "select" /\ lastChange' = FALSE
  /\ UNCHANGED <<file, saves, raw, chan, thread, shutdown, read, missed, opens>>

\* ctrl_c in select.  During a run nothing listens, and the signal is lost.
Interrupted ==
  /\ main = "select"
  /\ shutdown' = TRUE
  /\ main' = "returned"
  /\ UNCHANGED <<file, saves, raw, chan, thread, lastChange, read, missed, opens>>

-----------------------------------------------------------------------------

ThreadStep == SetUp \/ CheckShutdown \/ ThreadReceives \/ Forward
MainStep   == ChangeReceived \/ Debounced \/ RunEnds

WatchNext ==
  \/ BeginSave \/ EndSave \/ Replace
  \/ ThreadStep \/ WatcherFails
  \/ MainStep \/ Interrupted

(***************************************************************************)
(* The thread runs, and the loop takes a branch of select that is ready; a *)
(* run ends (Scheduler, RunEnds).  A begun save is finished; nobody owes   *)
(* another, nor Ctrl+C.                                                    *)
(***************************************************************************)
WatchFairness == WF_watchVars(ThreadStep) /\ WF_watchVars(MainStep) /\ WF_watchVars(EndSave)

WatchSpec == WatchInit /\ [][WatchNext]_watchVars
FairWatchSpec == WatchSpec /\ WatchFairness

-----------------------------------------------------------------------------
(* Properties                                                              *)

\* Events on their way to the main loop.
OnTheWay == raw + chan + (IF thread = "send" THEN 1 ELSE 0)

\* The type invariant.
WatchTypeOK ==
  /\ file \in 0 .. MaxSaves \cup {Torn} /\ read \in 0 .. MaxSaves \cup {Torn}
  /\ saves \in 0 .. MaxSaves
  /\ raw \in Nat /\ chan \in 0 .. Capacity
  /\ thread \in {"setup", "check", "recv", "send", "ended"}
  /\ main \in {"select", "run", "returned"}
  /\ shutdown \in BOOLEAN /\ lastChange \in BOOLEAN /\ opens \in BOOLEAN /\ missed \in BOOLEAN

(***************************************************************************)
(* A save is not forgotten, also when it comes during a run or is read     *)
(* half: as long as the file is another than the loop last read, an event  *)
(* is on its way or has been seen.  Only what is saved between the start   *)
(* and the set-up of the watcher stays unseen, until the next save.        *)
(***************************************************************************)
SaveIsNotForgotten ==
  file # read /\ ~missed /\ thread # "ended" /\ main # "returned" =>
    OnTheWay > 0 \/ (lastChange /\ main = "select")

(***************************************************************************)
(* What was saved last is read and run, unless the watcher failed or the   *)
(* watch was ended.                                                        *)
(***************************************************************************)
LastSaveIsRun ==
  []<>((file = read /\ main # "run") \/ missed \/ thread = "ended" \/ main = "returned")

(***************************************************************************)
(* The thread ends after the main loop, even when it was waiting for room  *)
(* in the channel: the runtime waits for it before the process can exit.   *)
(***************************************************************************)
ThreadEnds == main = "returned" ~> thread = "ended"

(***************************************************************************)
(* When nobody saves any more, the runs stop, where opening a file is not  *)
(* an event: Access events are counted (watch.rs:125), and where it is one *)
(* the loop's own reading starts the next run.                             *)
(***************************************************************************)
RunsStop == opens \/ <>[](main # "run")
=============================================================================
