--------------------------- MODULE ScheduleDaemon ---------------------------
(***************************************************************************)
(* `fluxion schedule`: the schedules table of the run store, the commands  *)
(* that add and remove rows, and the daemons that poll it.  Any number of  *)
(* daemon processes share one table; each is sequential, and every store   *)
(* call is a connection of its own, so that anything may happen between    *)
(* two of them.                                                            *)
(***************************************************************************)
EXTENDS Naturals, FiniteSets

CONSTANTS
  Schedules,  \* the ids a schedule may get; an id is used once
  Daemons,    \* the daemon processes
  Upcoming,   \* the cron library: the first occurrence after a time, or Never
  Horizon,    \* bound: the last second of the clock
  MaxFaults   \* bound: store errors, unreadable files and deaths of daemons

\* The expression has no occurrence any more: it names years that are over.
Never == 0

ASSUME DaemonAssumption ==
  /\ Horizon \in Nat /\ MaxFaults \in Nat
  /\ \A s \in Schedules, t \in 0 .. Horizon :
       Upcoming[s][t] \in Nat /\ (Upcoming[s][t] = Never \/ Upcoming[s][t] > t)

VARIABLES
  now,       \* the clock, in seconds
  listed,    \* the schedules that have a row
  unused,    \* the ids no schedule has had yet
  nextRun,   \* the next_run_at column
  pc,        \* where each daemon is in fire_due_schedules
  due,       \* what is left of the rows it read
  cur,       \* sched and next: the row it is at, and the time it computed for it
  faults,    \* history: how many faults there have been
  claimed,   \* history: the occurrences of each schedule some daemon claimed
  fired,     \* history: the occurrences for which the workflow was started
  repeated,  \* history: the schedules an occurrence of which was started again
  late       \* history: the schedules a run of which outlasted the next occurrence

table   == <<listed, unused, nextRun>>
daemons == <<pc, due, cur>>
hist    == <<claimed, fired, repeated, late>>
vars    == <<now, table, daemons, faults, hist>>

DaemonPc == {"sleep", "pick", "claim", "load", "run", "record", "down"}
Entry    == [id : Schedules, at : Nat]

-----------------------------------------------------------------------------
(* Faulty variants of definitions below, to test the properties with       *)

DueBefore(s) == s \in listed /\ nextRun[s] < now
Unguarded(e) == e.id \in listed

-----------------------------------------------------------------------------

\* WHERE next_run_at <= now
IsDue(s) == s \in listed /\ nextRun[s] <= now

\* The row claim_schedule's UPDATE matches.
Unclaimed(e) == e.id \in listed /\ nextRun[e.id] = e.at

Init ==
  /\ now = 0
  /\ listed = {} /\ unused = Schedules /\ nextRun = [s \in Schedules |-> 0]
  /\ pc = [d \in Daemons |-> "sleep"]
  /\ due = [d \in Daemons |-> {}]
  /\ cur \in [Daemons -> {[id |-> s, at |-> 0, next |-> 0] : s \in Schedules}]
  /\ faults = 0
  /\ claimed = [s \in Schedules |-> {}] /\ fired = [s \in Schedules |-> {}]
  /\ repeated = {} /\ late = {}

Tick ==
  /\ now < Horizon /\ now' = now + 1
  /\ UNCHANGED <<table, daemons, faults, hist>>

\* cmd_schedule_add, which computed the first occurrence some time before.
Add(s) ==
  /\ s \in unused
  /\ unused' = unused \ {s}
  /\ listed' = listed \cup {s}
  /\ \E t \in 0 .. now :
       Upcoming[s][t] # Never /\ nextRun' = [nextRun EXCEPT ![s] = Upcoming[s][t]]
  /\ UNCHANGED <<now, daemons, faults, hist>>

\* cmd_schedule_remove
Remove(s) ==
  /\ s \in listed
  /\ listed' = listed \ {s}
  /\ UNCHANGED <<now, unused, nextRun, daemons, faults, hist>>

Goto(d, l) == pc' = [pc EXCEPT ![d] = l]

-----------------------------------------------------------------------------
(* A daemon's cycle: fire_due_schedules                                    *)

Rows(S) == {[id |-> s, at |-> nextRun[s]] : s \in S}

\* Faulty variant: WHERE next_run_at < now.
ReadDueBefore(d) ==
  /\ pc[d] = "sleep"
  /\ Goto(d, "pick")
  /\ due' = [due EXCEPT ![d] = Rows({s \in Schedules : DueBefore(s)})]
  /\ UNCHANGED <<now, table, cur, faults, hist>>

\* due_schedules
ReadDue(d) ==
  /\ pc[d] = "sleep"
  /\ Goto(d, "pick")
  /\ due' = [due EXCEPT ![d] = Rows({s \in Schedules : IsDue(s)})]
  /\ UNCHANGED <<now, table, cur, faults, hist>>

Rest(d) ==
  /\ pc[d] = "pick" /\ due[d] = {}
  /\ Goto(d, "sleep")
  /\ UNCHANGED <<now, table, due, cur, faults, hist>>

\* The row the loop comes to, oldest first.
Oldest(d) == {e \in due[d] : \A f \in due[d] : e.at <= f.at}

\* The occurrence after the present time is computed.
Pick(d) ==
  /\ pc[d] = "pick"
  /\ \E e \in Oldest(d) :
       /\ Upcoming[e.id][now] # Never
       /\ cur' = [cur EXCEPT ![d] = [id |-> e.id, at |-> e.at, next |-> Upcoming[e.id][now]]]
       /\ due' = [due EXCEPT ![d] = @ \ {e}]
  /\ Goto(d, "claim")
  /\ UNCHANGED <<now, table, faults, hist>>

\* There is none: the row is passed over, and left as it is.
PassOver(d) ==
  /\ pc[d] = "pick"
  /\ \E e \in Oldest(d) :
       /\ Upcoming[e.id][now] = Never
       /\ due' = [due EXCEPT ![d] = @ \ {e}]
  /\ UNCHANGED <<now, table, pc, cur, faults, hist>>

ClaimLost(d) ==
  /\ pc[d] = "claim" /\ ~Unclaimed(cur[d])
  /\ Goto(d, "pick")
  /\ UNCHANGED <<now, table, due, cur, faults, hist>>

\* Faulty variant: `if claimed { continue }`.
ClaimDropped(d) ==
  /\ pc[d] = "claim" /\ Unclaimed(cur[d])
  /\ nextRun' = [nextRun EXCEPT ![cur[d].id] = cur[d].next]
  /\ claimed' = [claimed EXCEPT ![cur[d].id] = @ \cup {cur[d].at}]
  /\ Goto(d, "pick")
  /\ UNCHANGED <<now, listed, unused, due, cur, faults, fired, repeated, late>>

ClaimWon(d) ==
  /\ pc[d] = "claim" /\ Unclaimed(cur[d])
  /\ nextRun' = [nextRun EXCEPT ![cur[d].id] = cur[d].next]
  /\ claimed' = [claimed EXCEPT ![cur[d].id] = @ \cup {cur[d].at}]
  /\ Goto(d, "load")
  /\ UNCHANGED <<now, listed, unused, due, cur, faults, fired, repeated, late>>

\* The workflow file was read: run_with_strategy starts.
Start(d) ==
  /\ pc[d] = "load"
  /\ LET e == cur[d]
     IN /\ fired' = [fired EXCEPT ![e.id] = @ \cup {e.at}]
        /\ repeated' = IF e.at \in fired[e.id] THEN repeated \cup {e.id} ELSE repeated
  /\ Goto(d, "run")
  /\ UNCHANGED <<now, table, due, cur, faults, claimed, late>>

\* The run has ended, with whatever result.
Finish(d) ==
  /\ pc[d] = "run"
  /\ Goto(d, "record")
  /\ UNCHANGED <<now, table, due, cur, faults, hist>>

\* update_schedule_next: last_run_at, which nothing reads, and next_run_at again.
Record(d) ==
  /\ pc[d] = "record"
  /\ nextRun' = IF cur[d].id \in listed THEN [nextRun EXCEPT ![cur[d].id] = cur[d].next]
                ELSE nextRun
  /\ late' = IF now >= cur[d].next THEN late \cup {cur[d].id} ELSE late
  /\ Goto(d, "pick")
  /\ UNCHANGED <<now, listed, unused, due, cur, faults, claimed, fired, repeated>>

-----------------------------------------------------------------------------

\* A store call fails, or the workflow file cannot be read: on to the next row.
GiveUp(d) ==
  /\ faults < MaxFaults /\ faults' = faults + 1
  /\ pc[d] \in {"claim", "load", "record"}
  /\ Goto(d, "pick")
  /\ UNCHANGED <<now, table, due, cur, hist>>

\* The process ends; a signal is looked at in "sleep" only, a kill anywhere.
Die(d) ==
  /\ faults < MaxFaults /\ faults' = faults + 1
  /\ pc[d] # "down"
  /\ Goto(d, "down")
  /\ due' = [due EXCEPT ![d] = {}]
  /\ UNCHANGED <<now, table, cur, hist>>

Restart(d) ==
  /\ pc[d] = "down"
  /\ Goto(d, "sleep")
  /\ UNCHANGED <<now, table, due, cur, faults, hist>>

DaemonStep(d) ==
  \/ ReadDue(d) \/ Rest(d) \/ Pick(d) \/ PassOver(d) \/ ClaimLost(d) \/ ClaimWon(d)
  \/ Start(d) \/ Finish(d) \/ Record(d)

Next ==
  \/ Tick
  \/ \E s \in Schedules : Add(s) \/ Remove(s)
  \/ \E d \in Daemons : DaemonStep(d) \/ Restart(d) \/ GiveUp(d) \/ Die(d)

\* The poll interval is bounded and the daemon's own steps do not wait.  That a run
\* ends is not owed, nor that somebody restarts a daemon.
Fairness == \A d \in Daemons : WF_vars(pc[d] # "run" /\ DaemonStep(d))

Spec == Init /\ [][Next]_vars
FairSpec == Spec /\ Fairness

-----------------------------------------------------------------------------
(* Properties                                                              *)

\* The type invariant.
TypeOK ==
  /\ now \in 0 .. Horizon
  /\ listed \subseteq Schedules /\ unused \subseteq Schedules
  /\ nextRun \in [Schedules -> Nat]
  /\ pc \in [Daemons -> DaemonPc]
  /\ due \in [Daemons -> SUBSET Entry]
  /\ cur \in [Daemons -> [id : Schedules, at : Nat, next : Nat]]
  /\ faults \in 0 .. MaxFaults
  /\ claimed \in [Schedules -> SUBSET Nat] /\ fired \in [Schedules -> SUBSET Nat]
  /\ repeated \subseteq Schedules /\ late \subseteq Schedules

(***************************************************************************)
(* claim_schedule avoids duplicate executions: no occurrence is fired      *)
(* twice as long as no run of the schedule lasts until its next            *)
(* occurrence, whatever the daemons do.                                    *)
(***************************************************************************)
OnceUnlessLate == repeated \subseteq late

\* next_run_at goes back only when such a late run is recorded.
RewoundOnlyLate ==
  [][\A s \in Schedules : nextRun'[s] < nextRun[s] => s \in late']_vars

\* The occurrences that were claimed, and neither fired nor about to be: nobody
\* will ever fire them.
Lost ==
  {p \in UNION {{s} \X claimed[s] : s \in Schedules} :
     /\ p[2] \notin fired[p[1]]
     /\ \A d \in Daemons : pc[d] = "load" => <<cur[d].id, cur[d].at>> # p}

(***************************************************************************)
(* Claiming before firing loses what a daemon has claimed when it dies or  *)
(* cannot read the file.  It loses no more: each fault costs at most one   *)
(* occurrence, whatever the other daemons claim meanwhile, and through     *)
(* schedules that are removed and rows a late run has put back.            *)
(***************************************************************************)
OneLossAFault == Cardinality(Lost) <= faults

(***************************************************************************)
(* A schedule that is due does not stay so for ever: it is claimed as long *)
(* as one daemon neither stays dead nor stays in a run, and unless its     *)
(* expression has no further occurrence.                                   *)
(***************************************************************************)
DueIsServed ==
  (\E d \in Daemons : []<>(pc[d] \notin {"run", "down"})) =>
    \A s \in Schedules : IsDue(s) ~> (~IsDue(s) \/ Upcoming[s][now] = Never)
=============================================================================
