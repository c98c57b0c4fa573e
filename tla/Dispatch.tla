------------------------------ MODULE Dispatch ------------------------------
(***************************************************************************)
(* Sending a job to worker servers: the failover loops of scheduler.rs,    *)
(* run_remote and run_remote_async of remote.rs, and the handlers, the job *)
(* table and the counter of fluxion-worker, over a network that loses      *)
(* answers and workers that die and come back without their memory.        *)
(*                                                                         *)
(* A dispatch is the remote part of one task of a run.  A synchronous one  *)
(* waits for the answer of POST /run under the task's timeout, which is    *)
(* shorter than the request's own; an asynchronous one submits the job     *)
(* with POST /jobs and polls GET /jobs/:id.  Components travel inline.     *)
(***************************************************************************)
EXTENDS Naturals, Sequences, FiniteSets

CONSTANTS
  Dispatches,  \* the jobs being dispatched
  Async,       \* those of them with async_dispatch
  Workers,     \* the worker servers
  Lists,       \* what effective_workers may have found: sequences of workers
  MaxTries,    \* the length of the longest of them
  MaxFaults    \* bound: lost or unreadable messages, failing handlers, panics, deaths

ASSUME DispatchAssumption ==
  /\ Async \subseteq Dispatches
  /\ MaxTries \in Nat \ {0} /\ MaxFaults \in Nat
  /\ \A l \in Lists : l \in Seq(Workers) /\ Len(l) \in 1 .. MaxTries

VARIABLES
  phase,      \* where each dispatch is
  list,       \* the workers it tries, in order
  at,         \* which of them it is at
  answer,     \* the response on its way to it
  result,     \* what it returned to the task
  up,         \* the workers that run
  executing,  \* the executions going on at each worker
  handled,    \* those for which a handler of POST /run still waits
  table,      \* the worker's job table
  active,     \* the worker's ACTIVE_JOBS
  faults,     \* history: how many faults there have been
  starts,     \* history: how often the component was started for a dispatch
  verdicts,   \* history: what the workers made of it
  mishaps,    \* history: what happened to a dispatch
  leaked      \* history: the executions a worker, since its start, will not subtract

client  == <<phase, list, at, answer, result>>
servers == <<up, executing, handled, table, active>>
hist    == <<starts, verdicts, mishaps, leaked>>
vars    == <<client, servers, faults, hist>>

Outcome == {"succeeded", "failed"}
Phase   == {"new", "send", "await", "submitted", "poll", "done"}
Mishap  == {"lost", "forgotten", "unreadable", "late"}

\* An execution, named after the attempt that asked for it: the uuid of POST /jobs.
Execution == [job : Dispatches, try : 1 .. MaxTries]

Current(d) == [job |-> d, try |-> at[d]]
Target(d)  == list[d][at[d]]

-----------------------------------------------------------------------------

Init ==
  /\ phase = [d \in Dispatches |-> "new"]
  /\ list = [d \in Dispatches |-> <<>>]
  /\ at = [d \in Dispatches |-> 1]
  /\ answer = [d \in Dispatches |-> "none"]
  /\ result = [d \in Dispatches |-> "none"]
  /\ up = Workers
  /\ executing = [w \in Workers |-> {}] /\ handled = [w \in Workers |-> {}]
  /\ table = [w \in Workers |-> [x \in Execution |-> "none"]]
  /\ active = [w \in Workers |-> 0]
  /\ faults = 0
  /\ starts = [d \in Dispatches |-> 0] /\ verdicts = [d \in Dispatches |-> {}]
  /\ mishaps = [d \in Dispatches |-> {}] /\ leaked = [w \in Workers |-> {}]

Goto(d, p) == phase' = [phase EXCEPT ![d] = p]

Return(d, r) ==
  /\ Goto(d, "done")
  /\ result' = [result EXCEPT ![d] = r]
  /\ answer' = [answer EXCEPT ![d] = "none"]
  /\ UNCHANGED <<list, at>>

\* Faulty variant: the last worker is not tried.
FailOverShort(d) ==
  IF at[d] + 1 < Len(list[d])
  THEN /\ Goto(d, "send")
       /\ at' = [at EXCEPT ![d] = @ + 1]
       /\ answer' = [answer EXCEPT ![d] = "none"]
       /\ UNCHANGED <<list, result>>
  ELSE Return(d, "failed")

\* RemoteError::Unreachable: the next worker, if there is one.
FailOver(d) ==
  IF at[d] < Len(list[d])
  THEN /\ Goto(d, "send")
       /\ at' = [at EXCEPT ![d] = @ + 1]
       /\ answer' = [answer EXCEPT ![d] = "none"]
       /\ UNCHANGED <<list, result>>
  ELSE Return(d, "failed")

Suffer(d, m) == mishaps' = [mishaps EXCEPT ![d] = @ \cup {m}]

-----------------------------------------------------------------------------
(* The dispatching side                                                    *)

\* resolve_workers: the list from any start on, whatever the strategy computes.
Resolve(d) ==
  /\ phase[d] = "new"
  /\ \E l \in Lists : \E start \in 0 .. Len(l) - 1 :
       list' = [list EXCEPT ![d] = [i \in 1 .. Len(l) |-> l[((start + i - 1) % Len(l)) + 1]]]
  /\ Goto(d, "send")
  /\ UNCHANGED <<at, answer, result, servers, faults, hist>>

\* The request reaches the worker, whose handler starts the component.
Post(d) ==
  /\ phase[d] = "send" /\ Target(d) \in up
  /\ LET w == Target(d)
         x == Current(d)
     IN /\ executing' = [executing EXCEPT ![w] = @ \cup {x}]
        /\ active' = [active EXCEPT ![w] = @ + 1]
        /\ IF d \in Async
           THEN /\ table' = [table EXCEPT ![w][x] = "running"]
                /\ answer' = [answer EXCEPT ![d] = "accepted"]
                /\ Goto(d, "submitted")
                /\ UNCHANGED handled
           ELSE /\ handled' = [handled EXCEPT ![w] = @ \cup {x}]
                /\ Goto(d, "await")
                /\ UNCHANGED <<table, answer>>
  /\ starts' = [starts EXCEPT ![d] = @ + 1]
  /\ UNCHANGED <<list, at, result, up, faults, verdicts, mishaps, leaked>>

\* The handler gives up before it counts and starts the component.
HandlerFails(d) ==
  /\ faults < MaxFaults /\ faults' = faults + 1
  /\ phase[d] = "send" /\ Target(d) \in up
  /\ IF d \in Async
     THEN /\ table' = [table EXCEPT ![Target(d)][Current(d)] = "failed"]
          /\ answer' = [answer EXCEPT ![d] = "accepted"]
          /\ Goto(d, "submitted")
     ELSE /\ answer' = [answer EXCEPT ![d] = "failed"]
          /\ Goto(d, "await")
          /\ UNCHANGED table
  /\ verdicts' = [verdicts EXCEPT ![d] = @ \cup {"failed"}]
  /\ UNCHANGED <<list, at, result, up, executing, handled, active, starts, mishaps, leaked>>

\* Connection refused: nobody is there to take the job.
Refused(d) ==
  /\ phase[d] = "send" /\ Target(d) \notin up
  /\ FailOver(d)
  /\ UNCHANGED <<servers, faults, hist>>

\* Faulty variant: an execution error fails over too.
ReceiveAndRetry(d) ==
  /\ phase[d] = "await" /\ answer[d] \in Outcome
  /\ IF answer[d] = "failed" THEN FailOver(d) ELSE Return(d, answer[d])
  /\ UNCHANGED <<servers, faults, hist>>

\* The worker answered POST /run; a failure is the component's.
Receive(d) ==
  /\ phase[d] = "await" /\ answer[d] \in Outcome
  /\ Return(d, answer[d])
  /\ UNCHANGED <<servers, faults, hist>>

\* Faulty variant: 202 is a success.
AcceptedIsDone(d) ==
  /\ phase[d] = "submitted" /\ answer[d] = "accepted"
  /\ Return(d, "succeeded")
  /\ UNCHANGED <<servers, faults, hist>>

\* The worker accepted the job and gave it an id.
Accepted(d) ==
  /\ phase[d] = "submitted" /\ answer[d] = "accepted"
  /\ Goto(d, "poll")
  /\ answer' = [answer EXCEPT ![d] = "none"]
  /\ UNCHANGED <<list, at, result, servers, faults, hist>>

\* Faulty variant: only "succeeded" ends the loop.
PollForSuccess(d) ==
  /\ phase[d] = "poll" /\ Target(d) \in up
  /\ table[Target(d)][Current(d)] = "succeeded"
  /\ Return(d, "succeeded")
  /\ UNCHANGED <<servers, faults, hist>>

\* GET /jobs/:id; "running" means sleep and ask again.
Poll(d) ==
  /\ phase[d] = "poll" /\ Target(d) \in up
  /\ table[Target(d)][Current(d)] \in Outcome
  /\ Return(d, table[Target(d)][Current(d)])
  /\ UNCHANGED <<servers, faults, hist>>

\* 404: the worker has forgotten the job; an execution error to the caller.
PollNotFound(d) ==
  /\ phase[d] = "poll" /\ Target(d) \in up
  /\ table[Target(d)][Current(d)] = "none"
  /\ Return(d, "failed")
  /\ Suffer(d, "forgotten")
  /\ UNCHANGED <<servers, faults, starts, verdicts, leaked>>

\* The connection broke under the request, or the poll was refused.
Broken(d) ==
  \/ /\ phase[d] = "await" /\ answer[d] = "none"
     /\ Current(d) \notin handled[Target(d)]
  \/ phase[d] = "poll" /\ Target(d) \notin up

Disconnected(d) ==
  /\ Broken(d)
  /\ FailOver(d)
  /\ Suffer(d, "lost")
  /\ UNCHANGED <<servers, faults, starts, verdicts, leaked>>

\* The network loses a request, an answer or a poll.
Lose(d) ==
  /\ faults < MaxFaults /\ faults' = faults + 1
  /\ phase[d] \in {"send", "await", "submitted", "poll"}
  /\ FailOver(d)
  /\ IF phase[d] = "send" THEN UNCHANGED mishaps ELSE Suffer(d, "lost")
  /\ UNCHANGED <<servers, starts, verdicts, leaked>>

\* The component's file, a certificate or the body of a response cannot be read,
\* or the server has no /jobs: RemoteError::Execution, whatever the worker does.
Unreadable(d) ==
  /\ faults < MaxFaults /\ faults' = faults + 1
  /\ \/ phase[d] \in {"send", "submitted", "poll"}
     \/ phase[d] = "await" /\ answer[d] = "succeeded"
  /\ Return(d, "failed")
  /\ Suffer(d, "unreadable")
  /\ UNCHANGED <<servers, starts, verdicts, leaked>>

\* timeout_secs for a synchronous job, the polling deadline for the other.
TimeOut(d) ==
  /\ IF d \in Async THEN phase[d] = "poll" ELSE phase[d] \in {"send", "await"}
  /\ Return(d, "failed")
  /\ Suffer(d, "late")
  /\ UNCHANGED <<servers, faults, starts, verdicts, leaked>>

-----------------------------------------------------------------------------
(* The worker                                                              *)

\* Somebody still listens to the handler's response.
Listening(x) == phase[x.job] = "await" /\ at[x.job] = x.try

\* The task that handle_submit_job spawned puts the outcome into its entry.
Enter(w, x, o) ==
  IF x.job \in Async THEN table' = [table EXCEPT ![w][x] = o] ELSE UNCHANGED table

\* Faulty variant: a failed job keeps its entry and its place in the counter.
ExecutionEndsQuietly(w, x, o) ==
  /\ x \in executing[w]
  /\ executing' = [executing EXCEPT ![w] = @ \ {x}]
  /\ handled' = [handled EXCEPT ![w] = @ \ {x}]
  /\ IF o = "succeeded" /\ (x.job \in Async \/ x \in handled[w])
     THEN active' = [active EXCEPT ![w] = @ - 1] ELSE UNCHANGED active
  /\ IF o = "succeeded" /\ x.job \in Async
     THEN table' = [table EXCEPT ![w][x] = o] ELSE UNCHANGED table
  /\ IF x \in handled[w] /\ Listening(x)
     THEN answer' = [answer EXCEPT ![x.job] = o] ELSE UNCHANGED answer
  /\ verdicts' = [verdicts EXCEPT ![x.job] = @ \cup {o}]
  /\ UNCHANGED <<phase, list, at, result, up, faults, starts, mishaps, leaked>>

\* run_component_measured returns; what follows runs only if it is awaited.
ExecutionEnds(w, x, o) ==
  /\ x \in executing[w]
  /\ executing' = [executing EXCEPT ![w] = @ \ {x}]
  /\ handled' = [handled EXCEPT ![w] = @ \ {x}]
  /\ IF x.job \in Async \/ x \in handled[w]
     THEN active' = [active EXCEPT ![w] = @ - 1] ELSE UNCHANGED active
  /\ Enter(w, x, o)
  /\ IF x \in handled[w] /\ Listening(x)
     THEN answer' = [answer EXCEPT ![x.job] = o] ELSE UNCHANGED answer
  /\ verdicts' = [verdicts EXCEPT ![x.job] = @ \cup {o}]
  /\ UNCHANGED <<phase, list, at, result, up, faults, starts, mishaps, leaked>>

\* The blocking task panics.  run_request_inner leaves by `?` before it lowers the
\* counter; handle_run lowers it there too, which is ExecutionEnds.
ExecutionPanics(w, x) ==
  /\ faults < MaxFaults /\ faults' = faults + 1
  /\ x \in executing[w] /\ x.job \in Async
  /\ executing' = [executing EXCEPT ![w] = @ \ {x}]
  /\ Enter(w, x, "failed")
  /\ leaked' = [leaked EXCEPT ![w] = @ \cup {x}]
  /\ verdicts' = [verdicts EXCEPT ![x.job] = @ \cup {"failed"}]
  /\ UNCHANGED <<client, up, handled, active, starts, mishaps>>

\* The server sees that the client of POST /run is gone, and drops its handler.
DropHandler(w, x) ==
  /\ x \in handled[w] /\ ~Listening(x)
  /\ handled' = [handled EXCEPT ![w] = @ \ {x}]
  /\ leaked' = [leaked EXCEPT ![w] = @ \cup {x}]
  /\ UNCHANGED <<client, up, executing, table, active, faults, starts, verdicts, mishaps>>

WorkerDies(w) ==
  /\ faults < MaxFaults /\ faults' = faults + 1
  /\ w \in up
  /\ up' = up \ {w}
  /\ executing' = [executing EXCEPT ![w] = {}] /\ handled' = [handled EXCEPT ![w] = {}]
  /\ table' = [table EXCEPT ![w] = [x \in Execution |-> "none"]]
  /\ active' = [active EXCEPT ![w] = 0]
  /\ leaked' = [leaked EXCEPT ![w] = {}]
  /\ UNCHANGED <<client, starts, verdicts, mishaps>>

WorkerStarts(w) ==
  /\ w \notin up
  /\ up' = up \cup {w}
  /\ UNCHANGED <<client, executing, handled, table, active, faults, hist>>

-----------------------------------------------------------------------------

ClientStep(d) ==
  \/ Resolve(d) \/ Post(d) \/ Refused(d) \/ Receive(d) \/ Accepted(d)
  \/ Poll(d) \/ PollNotFound(d) \/ Disconnected(d)

WorkerStep(w) ==
  \E x \in executing[w] : ExecutionEnds(w, x, "succeeded") \/ ExecutionEnds(w, x, "failed")

Next ==
  \/ \E d \in Dispatches : ClientStep(d) \/ HandlerFails(d) \/ Lose(d) \/ Unreadable(d) \/ TimeOut(d)
  \/ \E w \in Workers : \/ WorkerStep(w) \/ WorkerDies(w) \/ WorkerStarts(w)
                        \/ \E x \in executing[w] : ExecutionPanics(w, x)
                        \/ \E x \in handled[w] : DropHandler(w, x)

(***************************************************************************)
(* A dispatch is polled by the runtime, and executions are taken to end:   *)
(* the component's own deadline stops a guest that computes.  One that     *)
(* stays in a host call for ever is left to the client's deadlines, which  *)
(* are not owed here, and neither is the restart of a worker.              *)
(***************************************************************************)
Fairness ==
  /\ \A d \in Dispatches : WF_vars(ClientStep(d))
  /\ \A w \in Workers : WF_vars(WorkerStep(w))

Spec == Init /\ [][Next]_vars
FairSpec == Spec /\ Fairness
-----------------------------------------------------------------------------
(* Properties                                                              *)

\* The type invariant; ACTIVE_JOBS is a usize, and never goes below zero.
TypeOK ==
  /\ phase \in [Dispatches -> Phase]
  /\ list \in [Dispatches -> Seq(Workers)]
  /\ \A d \in Dispatches : Len(list[d]) <= MaxTries
  /\ at \in [Dispatches -> 1 .. MaxTries]
  /\ answer \in [Dispatches -> Outcome \cup {"none", "accepted"}]
  /\ result \in [Dispatches -> Outcome \cup {"none"}]
  /\ up \subseteq Workers
  /\ executing \in [Workers -> SUBSET Execution]
  /\ handled \in [Workers -> SUBSET Execution]
  /\ table \in [Workers -> [Execution -> Outcome \cup {"none", "running"}]]
  /\ active \in [Workers -> Nat]
  /\ faults \in 0 .. MaxFaults
  /\ starts \in [Dispatches -> Nat]
  /\ verdicts \in [Dispatches -> SUBSET Outcome]
  /\ mishaps \in [Dispatches -> SUBSET Mishap]
  /\ leaked \in [Workers -> SUBSET Execution]

(***************************************************************************)
(* A job is started a second time only when a message was lost or a worker *)
(* died after the first start: neither a failure of the component nor a    *)
(* deadline sends it to another worker (remote.rs, RemoteError).           *)
(***************************************************************************)
AgainOnlyAfterLoss ==
  \A d \in Dispatches : starts[d] > 1 => "lost" \in mishaps[d]

(***************************************************************************)
(* What the task is told happened: a success was some worker's, and so was *)
(* a failure of a job that was started and met with no mishap.             *)
(***************************************************************************)
HonestResult ==
  \A d \in Dispatches :
    /\ result[d] = "succeeded" => "succeeded" \in verdicts[d]
    /\ result[d] = "failed" /\ starts[d] > 0 /\ mishaps[d] = {} => "failed" \in verdicts[d]

(***************************************************************************)
(* A dispatch is not given up while workers are left, unless a worker      *)
(* answered it: the promise of run_with_failover.                          *)
(***************************************************************************)
FailsOverWhileItCan ==
  \A d \in Dispatches :
    result[d] = "failed" /\ mishaps[d] \subseteq {"lost"} /\ "failed" \notin verdicts[d]
      => at[d] = Len(list[d])

\* What the counter has risen for and not fallen.
Counted(w) == executing[w] \cup leaked[w]

(***************************************************************************)
(* ACTIVE_JOBS is off by the executions whose handler was dropped or that  *)
(* panicked, each once and for good, and by nothing else, through          *)
(* failovers, lost answers and restarts.                                   *)
(***************************************************************************)
GaugeOffByLeaks == \A w \in Workers : active[w] = Cardinality(Counted(w))

(***************************************************************************)
(* The job table says "running" of an asynchronous job exactly as long as  *)
(* it runs, also when the client has long gone to another worker.          *)
(***************************************************************************)
TableTruth ==
  \A w \in Workers, x \in Execution :
    x.job \in Async => (table[w][x] = "running" <=> x \in executing[w])

(***************************************************************************)
(* Every dispatch returns, though answers are lost and workers die, even   *)
(* if no deadline ever passes.                                             *)
(***************************************************************************)
DispatchEnds == \A d \in Dispatches : <>(phase[d] = "done")

(***************************************************************************)
(* What a worker says of itself: its counter, which least-connections asks *)
(* for, errs by the executions that leaked and by no other, and its table, *)
(* which clients poll, does not err.                                       *)
(***************************************************************************)
WorkerTellsTruth == GaugeOffByLeaks /\ TableTruth
=============================================================================
