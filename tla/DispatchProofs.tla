--------------------------- MODULE DispatchProofs ---------------------------
(***************************************************************************)
(* What dispatching guarantees for any number of jobs, workers and faults: *)
(* a second start only after a loss, honest results, failover to the end   *)
(* of the list, workers whose table says what is going on, and whose       *)
(* counter errs by the executions that leaked.                             *)
(*                                                                         *)
(* The argument rests on names: an execution is named after its attempt,   *)
(* and an attempt posts once.  So a new execution is new to every worker,  *)
(* and what a counter or a table gains by it it can lose only once.        *)
(***************************************************************************)
EXTENDS Dispatch, TLAPS, FiniteSetTheorems

(***************************************************************************)
(* The invariant                                                           *)
(***************************************************************************)

\* How far a dispatch is, by its phase.
ProgressInv ==
  \A d \in Dispatches :
    /\ phase[d] = "new" => starts[d] = 0 /\ at[d] = 1
    /\ phase[d] # "new" => at[d] <= Len(list[d])
    /\ phase[d] = "done" <=> result[d] # "none"
    /\ phase[d] = "send" /\ starts[d] > 0 => "lost" \in mishaps[d]

\* What is said of an execution, in an answer or in a table, it came to.
SaidInv ==
  /\ \A d \in Dispatches : answer[d] \in Outcome => answer[d] \in verdicts[d]
  /\ \A w \in Workers, x \in Execution :
       table[w][x] \in Outcome => table[w][x] \in verdicts[x.job]

\* The attempts of a dispatch that have been posted.
Posted(x) ==
  \/ x.try < at[x.job]
  \/ x.try = at[x.job] /\ phase[x.job] \notin {"new", "send"}

PostedInv == \A w \in Workers : \A x \in Counted(w) : Posted(x)

\* Which of the executions of a worker will lower the counter when they end.
CountInv ==
  \A w \in Workers :
    /\ IsFiniteSet(Counted(w))
    /\ handled[w] \subseteq executing[w]
    /\ \A x \in handled[w] : x.job \notin Async
    /\ \A x \in executing[w] : x \in leaked[w] <=> ~(x.job \in Async \/ x \in handled[w])

IInv ==
  /\ TypeOK /\ ProgressInv /\ SaidInv /\ PostedInv /\ CountInv
  /\ AgainOnlyAfterLoss /\ HonestResult /\ FailsOverWhileItCan /\ WorkerTellsTruth

-----------------------------------------------------------------------------
(* The client's moves                                                      *)

LEMMA CurrentIsExecution ==
  ASSUME TypeOK, NEW d \in Dispatches
  PROVE  Current(d) \in Execution /\ Current(d).job = d /\ Current(d).try = at[d]
BY DEF TypeOK, Current, Execution

LEMMA TargetIsWorker ==
  ASSUME TypeOK, ProgressInv, NEW d \in Dispatches, phase[d] # "new"
  PROVE  Target(d) \in Workers
BY DEF TypeOK, ProgressInv, Target

\* What a step of the client may be that starts nothing: a new list,
TakesList(d) ==
  /\ phase[d] = "new" /\ Goto(d, "send")
  /\ list' \in [Dispatches -> Seq(Workers)]
  /\ \A e \in Dispatches : Len(list'[e]) <= MaxTries
  /\ Len(list'[d]) > 0 /\ \A e \in Dispatches \ {d} : list'[e] = list[e]
  /\ UNCHANGED <<at, answer, result, mishaps>>

\* the word that a job was accepted,
IsAccepted(d) ==
  /\ phase[d] = "submitted" /\ Goto(d, "poll")
  /\ answer' = [answer EXCEPT ![d] = "none"]
  /\ UNCHANGED <<list, at, result, mishaps>>

\* a loss, or a worker that is not there,
LosesWorker(d) ==
  /\ phase[d] \notin {"new", "done"} /\ FailOver(d)
  /\ \/ phase[d] = "send" /\ UNCHANGED mishaps
     \/ Suffer(d, "lost")

\* another mishap,
GivesUp(d) ==
  /\ phase[d] \notin {"new", "done"} /\ Return(d, "failed")
  /\ \E m \in Mishap \ {"lost"} : Suffer(d, m)

\* or a worker's verdict.
IsTold(d) ==
  /\ phase[d] \notin {"new", "done"}
  /\ \E r \in Outcome : r \in verdicts[d] /\ Return(d, r)
  /\ UNCHANGED mishaps

ClientMoves(d) ==
  /\ TakesList(d) \/ IsAccepted(d) \/ LosesWorker(d) \/ GivesUp(d) \/ IsTold(d)
  /\ faults' \in 0 .. MaxFaults
  /\ UNCHANGED <<servers, starts, verdicts, leaked>>

LEMMA ResolveMoves ==
  ASSUME IInv, NEW d \in Dispatches, Resolve(d)
  PROVE  ClientMoves(d)
<1>0. PICK l \in Lists : \E start \in 0 .. Len(l) - 1 :
        list' = [list EXCEPT ![d] = [i \in 1 .. Len(l) |-> l[((start + i - 1) % Len(l)) + 1]]]
  BY DEF Resolve
<1>1. PICK start \in 0 .. Len(l) - 1 :
        list' = [list EXCEPT ![d] = [i \in 1 .. Len(l) |-> l[((start + i - 1) % Len(l)) + 1]]]
  BY <1>0
<1> DEFINE place(i) == ((start + i - 1) % Len(l)) + 1
           turned == [i \in 1 .. Len(l) |-> l[place(i)]]
<1>2. l \in Seq(Workers) /\ Len(l) \in 1 .. MaxTries
  BY DispatchAssumption
<1>3. \A i \in 1 .. Len(l) : place(i) \in 1 .. Len(l)
  BY <1>2
<1>4. list' = [list EXCEPT ![d] = turned]
  BY <1>1
<1> HIDE DEF place
<1>5. turned \in [1 .. Len(l) -> Workers]
  BY <1>2, <1>3
<1>6. turned \in Seq(Workers) /\ Len(turned) = Len(l)
  BY <1>2, <1>5
<1> HIDE DEF turned
<1>7. list' \in [Dispatches -> Seq(Workers)] /\ \A e \in Dispatches : Len(list'[e]) <= MaxTries
  BY <1>2, <1>4, <1>6, DispatchAssumption DEF IInv, TypeOK
<1>8. Len(list'[d]) > 0 /\ \A e \in Dispatches \ {d} : list'[e] = list[e]
  BY <1>2, <1>4, <1>6 DEF IInv, TypeOK
<1> QED
  BY <1>7, <1>8 DEF IInv, TypeOK, Resolve, ClientMoves, TakesList, hist

LEMMA ClientStepsMove ==
  ASSUME IInv, NEW d \in Dispatches,
         \/ Resolve(d) \/ Refused(d) \/ Receive(d) \/ Accepted(d) \/ Poll(d) \/ PollNotFound(d)
         \/ Disconnected(d) \/ Lose(d) \/ Unreadable(d) \/ TimeOut(d)
  PROVE  ClientMoves(d)
<1> USE DEF IInv, TypeOK, Mishap, hist
<1>1. ASSUME Refused(d) PROVE ClientMoves(d)
  BY <1>1 DEF Refused, ClientMoves, LosesWorker
<1>2. ASSUME Receive(d) PROVE ClientMoves(d)
  BY <1>2 DEF Receive, ClientMoves, IsTold, SaidInv
<1>3. ASSUME Accepted(d) PROVE ClientMoves(d)
  BY <1>3 DEF Accepted, ClientMoves, IsAccepted
<1>4. ASSUME Poll(d) PROVE ClientMoves(d)
  <2>1. Target(d) \in Workers /\ Current(d) \in Execution /\ Current(d).job = d
    BY <1>4, TargetIsWorker, CurrentIsExecution DEF Poll
  <2>2. table[Target(d)][Current(d)] \in verdicts[d]
    BY <1>4, <2>1 DEF Poll, SaidInv
  <2> QED BY <1>4, <2>2 DEF Poll, ClientMoves, IsTold
<1>5. ASSUME PollNotFound(d) PROVE ClientMoves(d)
  BY <1>5 DEF PollNotFound, ClientMoves, GivesUp
<1>6. ASSUME Disconnected(d) PROVE ClientMoves(d)
  BY <1>6 DEF Disconnected, Broken, ClientMoves, LosesWorker
<1>7. ASSUME Lose(d) PROVE ClientMoves(d)
  BY <1>7, DispatchAssumption DEF Lose, ClientMoves, LosesWorker
<1>8. ASSUME Unreadable(d) PROVE ClientMoves(d)
  BY <1>8, DispatchAssumption DEF Unreadable, ClientMoves, GivesUp
<1>9. ASSUME TimeOut(d) PROVE ClientMoves(d)
  BY <1>9 DEF TimeOut, ClientMoves, GivesUp
<1> QED BY <1>1, <1>2, <1>3, <1>4, <1>5, <1>6, <1>7, <1>8, <1>9, ResolveMoves

\* What such a step may do to its dispatch; the others it leaves alone.
LEMMA MoveEffect ==
  ASSUME IInv, NEW d \in Dispatches, ClientMoves(d)
  PROVE  /\ \A e \in Dispatches \ {d} :
              /\ phase'[e] = phase[e] /\ list'[e] = list[e] /\ at'[e] = at[e]
              /\ answer'[e] = answer[e] /\ result'[e] = result[e] /\ mishaps'[e] = mishaps[e]
         /\ phase'[d] \in {"send", "poll", "done"} /\ phase[d] # "done"
         /\ phase[d] = "new" => phase'[d] = "send"
         /\ \/ at'[d] = at[d] /\ (phase'[d] = "send" => phase[d] = "new")
            \/ /\ at'[d] = at[d] + 1 /\ at[d] < Len(list[d]) /\ phase[d] # "new"
               /\ phase'[d] = "send" /\ (phase[d] = "send" \/ "lost" \in mishaps'[d])
         /\ IF phase[d] = "new" THEN Len(list'[d]) > 0 ELSE list'[d] = list[d]
         /\ mishaps[d] \subseteq mishaps'[d]
         /\ answer'[d] \in {"none", answer[d]}
         /\ phase'[d] # "done" => result'[d] = result[d]
         /\ phase'[d] = "done" =>
              \/ result'[d] \in verdicts[d] \cap Outcome
              \/ result'[d] = "failed" /\ mishaps'[d] \ {"lost"} # {}
              \/ /\ result'[d] = "failed" /\ at'[d] = Len(list'[d])
                 /\ phase[d] = "send" \/ "lost" \in mishaps'[d]
<1> USE DEF IInv, TypeOK, Phase
<1>1. CASE TakesList(d)
  BY <1>1 DEF Goto, TakesList
<1>2. CASE IsAccepted(d)
  BY <1>2 DEF Goto, IsAccepted
<1>3. CASE LosesWorker(d)
  <2>1. at[d] <= Len(list[d]) /\ Len(list[d]) \in Nat
    BY <1>3 DEF ProgressInv, LosesWorker
  <2>2. CASE at[d] < Len(list[d])
    BY <1>3, <2>2 DEF LosesWorker, FailOver, Goto, Suffer
  <2>3. CASE ~(at[d] < Len(list[d]))
    BY <1>3, <2>1, <2>3 DEF LosesWorker, FailOver, Return, Goto, Suffer
  <2> QED BY <2>2, <2>3
<1>4. CASE GivesUp(d)
  <2>1. PICK m \in Mishap \ {"lost"} : Suffer(d, m)
    BY <1>4 DEF GivesUp
  <2>2. mishaps'[d] = mishaps[d] \cup {m} /\ \A e \in Dispatches \ {d} : mishaps'[e] = mishaps[e]
    BY <2>1 DEF Suffer
  <2>3. mishaps'[d] \ {"lost"} # {}
    BY <2>2
  <2> QED BY <1>4, <2>2, <2>3 DEF GivesUp, Return, Goto
<1>5. CASE IsTold(d)
  BY <1>5 DEF IsTold, Return, Goto
<1> QED BY <1>1, <1>2, <1>3, <1>4, <1>5 DEF ClientMoves

LEMMA MoveTypes ==
  ASSUME IInv, NEW d \in Dispatches, ClientMoves(d)
  PROVE  TypeOK'
<1> USE DEF IInv
<1>1. UNCHANGED <<servers, starts, verdicts, leaked>> /\ faults' \in 0 .. MaxFaults
  BY DEF ClientMoves
<1>2. ASSUME NEW r \in Outcome, Return(d, r)
      PROVE  UNCHANGED <<list, at>> /\ phase' \in [Dispatches -> Phase]
             /\ answer' \in [Dispatches -> Outcome \cup {"none", "accepted"}]
             /\ result' \in [Dispatches -> Outcome \cup {"none"}]
  BY <1>2 DEF TypeOK, Return, Goto, Phase
<1>3. ASSUME NEW m \in Mishap, Suffer(d, m) PROVE mishaps' \in [Dispatches -> SUBSET Mishap]
  BY <1>3 DEF TypeOK, Suffer
<1>4. "failed" \in Outcome /\ "lost" \in Mishap
  BY DEF Outcome, Mishap
<1>5. /\ phase' \in [Dispatches -> Phase] /\ at' \in [Dispatches -> 1 .. MaxTries]
      /\ answer' \in [Dispatches -> Outcome \cup {"none", "accepted"}]
      /\ result' \in [Dispatches -> Outcome \cup {"none"}]
      /\ mishaps' \in [Dispatches -> SUBSET Mishap]
  <2>1. CASE TakesList(d)
    BY <2>1 DEF TypeOK, TakesList, Goto, Phase
  <2>2. CASE IsAccepted(d)
    BY <2>2 DEF TypeOK, IsAccepted, Goto, Phase
  <2>3. CASE LosesWorker(d)
    <3>1. mishaps' \in [Dispatches -> SUBSET Mishap]
      BY <1>3, <1>4, <2>3 DEF TypeOK, LosesWorker
    <3>2. CASE at[d] < Len(list[d])
      <4>1. Len(list[d]) \in Nat /\ Len(list[d]) <= MaxTries /\ at[d] \in 1 .. MaxTries
        BY DEF TypeOK
      <4>2. at[d] + 1 \in 1 .. MaxTries
        BY <3>2, <4>1, DispatchAssumption
      <4>3. /\ phase' = [phase EXCEPT ![d] = "send"] /\ at' = [at EXCEPT ![d] = @ + 1]
            /\ answer' = [answer EXCEPT ![d] = "none"] /\ result' = result
        BY <2>3, <3>2 DEF LosesWorker, FailOver, Goto
      <4> QED BY <3>1, <4>2, <4>3 DEF TypeOK, Phase
    <3>3. CASE ~(at[d] < Len(list[d]))
      BY <1>2, <1>4, <2>3, <3>1, <3>3 DEF TypeOK, LosesWorker, FailOver
    <3> QED BY <3>2, <3>3
  <2>4. CASE GivesUp(d)
    <3>1. PICK m \in Mishap \ {"lost"} : Suffer(d, m)
      BY <2>4 DEF GivesUp
    <3> QED BY <1>2, <1>3, <1>4, <2>4, <3>1 DEF TypeOK, GivesUp
  <2>5. CASE IsTold(d)
    <3>1. PICK r \in Outcome : Return(d, r)
      BY <2>5 DEF IsTold
    <3> QED BY <1>2, <2>5, <3>1 DEF TypeOK, IsTold
  <2> QED BY <2>1, <2>2, <2>3, <2>4, <2>5 DEF ClientMoves
<1>6. list' \in [Dispatches -> Seq(Workers)] /\ \A e \in Dispatches : Len(list'[e]) <= MaxTries
  <2>1. CASE TakesList(d)
    BY <2>1 DEF TakesList
  <2>2. CASE list' = list
    BY <2>2 DEF TypeOK
  <2> QED BY <2>1, <2>2 DEF ClientMoves, IsAccepted, LosesWorker, FailOver, GivesUp, IsTold, Return
<1> QED BY <1>1, <1>5, <1>6 DEF TypeOK, servers

LEMMA MoveKeeps ==
  ASSUME IInv, NEW d \in Dispatches, ClientMoves(d)
  PROVE  IInv'
<1> USE DEF IInv
<1>1. TypeOK'
  BY MoveTypes
<1>2. /\ executing' = executing /\ handled' = handled /\ table' = table /\ active' = active
      /\ starts' = starts /\ verdicts' = verdicts /\ leaked' = leaked
  BY DEF ClientMoves, servers
<1>3. /\ at[d] \in Nat /\ Len(list[d]) \in Nat /\ Len(list'[d]) \in Nat /\ starts[d] \in Nat
      /\ phase[d] # "new" => at[d] <= Len(list[d])
      /\ phase[d] = "new" => starts[d] = 0 /\ at[d] = 1
      /\ phase[d] = "send" /\ starts[d] > 0 => "lost" \in mishaps[d]
      /\ result[d] = "none" /\ "none" \notin Outcome
      /\ answer[d] \in Outcome => answer[d] \in verdicts[d]
  <2>1. at[d] \in Nat /\ Len(list[d]) \in Nat /\ Len(list'[d]) \in Nat /\ starts[d] \in Nat
    BY <1>1 DEF TypeOK
  <2>2. result[d] = "none"
    BY MoveEffect DEF ProgressInv
  <2>3. "none" \notin Outcome
    BY DEF Outcome
  <2> QED BY <2>1, <2>2, <2>3 DEF ProgressInv, SaidInv
<1>4. ProgressInv'
  <2> SUFFICES ASSUME NEW e \in Dispatches
               PROVE /\ phase'[e] = "new" => starts[e] = 0 /\ at'[e] = 1
                     /\ phase'[e] # "new" => at'[e] <= Len(list'[e])
                     /\ phase'[e] = "done" <=> result'[e] # "none"
                     /\ phase'[e] = "send" /\ starts[e] > 0 => "lost" \in mishaps'[e]
    BY <1>2 DEF ProgressInv
  <2>1. CASE e # d
    BY <2>1, MoveEffect DEF ProgressInv
  <2>2. CASE e = d
    <3>1. at'[d] <= Len(list'[d])
      BY <1>3, MoveEffect
    <3>2. phase'[d] = "send" /\ starts[d] > 0 => "lost" \in mishaps'[d]
      BY <1>3, MoveEffect
    <3>3. phase'[d] = "done" <=> result'[d] # "none"
      BY <1>3, MoveEffect DEF Outcome
    <3> QED BY <2>2, <3>1, <3>2, <3>3, MoveEffect
  <2> QED BY <2>1, <2>2
<1>5. SaidInv'
  <2>1. ASSUME NEW e \in Dispatches, answer'[e] \in Outcome PROVE answer'[e] \in verdicts[e]
    <3>1. CASE e # d
      BY <2>1, <3>1, MoveEffect DEF SaidInv
    <3>2. CASE e = d
      BY <1>3, <2>1, <3>2, MoveEffect
    <3> QED BY <3>1, <3>2
  <2> QED BY <1>2, <2>1 DEF SaidInv
<1>6. PostedInv'
  <2> SUFFICES ASSUME NEW w \in Workers, NEW x \in Counted(w) PROVE Posted(x)'
    BY <1>2 DEF PostedInv, Counted
  <2>1. x \in Execution /\ x.job \in Dispatches /\ x.try \in Nat /\ Posted(x)
    BY DEF TypeOK, PostedInv, Counted, Execution
  <2>2. CASE x.job # d
    BY <2>1, <2>2, MoveEffect DEF Posted
  <2>3. CASE x.job = d
    BY <1>3, <2>1, <2>3, MoveEffect DEF Posted
  <2> QED BY <2>2, <2>3
<1>7. CountInv' /\ WorkerTellsTruth'
  BY <1>2 DEF CountInv, Counted, WorkerTellsTruth, GaugeOffByLeaks, TableTruth
<1>8. AgainOnlyAfterLoss'
  <2> SUFFICES ASSUME NEW e \in Dispatches, starts[e] > 1 PROVE "lost" \in mishaps'[e]
    BY <1>2 DEF AgainOnlyAfterLoss
  <2> QED BY MoveEffect DEF AgainOnlyAfterLoss
<1>9. HonestResult'
  <2> SUFFICES ASSUME NEW e \in Dispatches
               PROVE /\ result'[e] = "succeeded" => "succeeded" \in verdicts[e]
                     /\ result'[e] = "failed" /\ starts[e] > 0 /\ mishaps'[e] = {} => "failed" \in verdicts[e]
    BY <1>2 DEF HonestResult
  <2>1. CASE e # d
    BY <2>1, MoveEffect DEF HonestResult
  <2>2. CASE e = d
    BY <1>3, <2>2, MoveEffect DEF Outcome
  <2> QED BY <2>1, <2>2
<1>10. FailsOverWhileItCan'
  <2> SUFFICES ASSUME NEW e \in Dispatches, result'[e] = "failed", mishaps'[e] \subseteq {"lost"},
                      "failed" \notin verdicts[e]
               PROVE  at'[e] = Len(list'[e])
    BY <1>2 DEF FailsOverWhileItCan
  <2>1. CASE e # d
    BY <2>1, MoveEffect DEF FailsOverWhileItCan
  <2>2. CASE e = d
    BY <1>3, <2>2, MoveEffect DEF Outcome
  <2> QED BY <2>1, <2>2
<1> QED BY <1>1, <1>4, <1>5, <1>6, <1>7, <1>8, <1>9, <1>10

-----------------------------------------------------------------------------
(* Posting a job                                                           *)

\* A request's phase and answer change, and nothing else of the client's.
LEMMA PostedPhase ==
  ASSUME IInv, NEW d \in Dispatches, phase[d] = "send",
         \/ Goto(d, "submitted") \/ Goto(d, "await"),
         UNCHANGED <<list, at, result, mishaps>>, starts'[d] \in Nat,
         \A e \in Dispatches \ {d} : starts'[e] = starts[e]
  PROVE  /\ ProgressInv'
         /\ phase' \in [Dispatches -> Phase]
         /\ \A x \in Execution : Posted(x) => Posted(x)'
         /\ Posted(Current(d))'
<1> USE DEF IInv
<1>1. phase' \in [Dispatches -> Phase] /\ phase'[d] \in {"submitted", "await"}
      /\ \A e \in Dispatches \ {d} : phase'[e] = phase[e]
  BY DEF TypeOK, Goto, Phase
<1>2. ProgressInv'
  <2> SUFFICES ASSUME NEW e \in Dispatches
               PROVE /\ phase'[e] = "new" => starts'[e] = 0 /\ at[e] = 1
                     /\ phase'[e] # "new" => at[e] <= Len(list[e])
                     /\ phase'[e] = "done" <=> result[e] # "none"
                     /\ phase'[e] = "send" /\ starts'[e] > 0 => "lost" \in mishaps[e]
    BY DEF ProgressInv
  <2>1. CASE e # d
    BY <1>1, <2>1 DEF ProgressInv
  <2>2. CASE e = d
    BY <1>1, <2>2 DEF ProgressInv
  <2> QED BY <2>1, <2>2
<1>3. ASSUME NEW x \in Execution, Posted(x) PROVE Posted(x)'
  <2>1. x.job \in Dispatches
    BY DEF Execution
  <2> QED BY <1>1, <1>3, <2>1 DEF Posted
<1>4. Posted(Current(d))'
  BY <1>1, CurrentIsExecution DEF Posted, Current
<1> QED BY <1>1, <1>2, <1>3, <1>4

LEMMA PostKeeps ==
  ASSUME IInv, NEW d \in Dispatches, Post(d)
  PROVE  IInv'
<1> USE DEF IInv
<1>w. PICK w \in Workers : w = Target(d)
  BY TargetIsWorker DEF Post
<1>x. PICK x \in Execution : x = Current(d)
  BY CurrentIsExecution
<1>1. w \in Workers /\ x \in Execution /\ x.job = d /\ x.try = at[d]
  BY <1>x, CurrentIsExecution
<1>2. x \notin Counted(w)
  <2>1. phase[d] = "send" /\ at[d] \in Nat
    BY DEF Post, TypeOK
  <2>2. ~Posted(x)
    BY <1>1, <2>1 DEF Posted
  <2> QED BY <1>1, <2>2 DEF PostedInv
<1>3. starts' = [starts EXCEPT ![d] = @ + 1] /\ starts[d] \in Nat /\ starts \in [Dispatches -> Nat]
  BY DEF Post, TypeOK
<1>4. /\ executing' = [executing EXCEPT ![w] = @ \cup {x}]
      /\ active' = [active EXCEPT ![w] = @ + 1]
      /\ UNCHANGED <<list, at, result, up, faults, verdicts, mishaps, leaked>>
  BY <1>w, <1>x DEF Post
<1>5. \/ /\ d \in Async /\ table' = [table EXCEPT ![w][x] = "running"]
         /\ answer' = [answer EXCEPT ![d] = "accepted"]
         /\ Goto(d, "submitted") /\ handled' = handled
      \/ /\ d \notin Async /\ handled' = [handled EXCEPT ![w] = @ \cup {x}]
         /\ Goto(d, "await") /\ table' = table /\ answer' = answer
  BY <1>w, <1>x DEF Post
<1>6. /\ ProgressInv'
      /\ phase' \in [Dispatches -> Phase]
      /\ \A y \in Execution : Posted(y) => Posted(y)'
      /\ Posted(x)'
  <2>1. phase[d] = "send" /\ (Goto(d, "submitted") \/ Goto(d, "await"))
    BY <1>5 DEF Post
  <2>2. starts'[d] \in Nat /\ \A e \in Dispatches \ {d} : starts'[e] = starts[e]
    BY <1>3
  <2>3. UNCHANGED <<list, at, result, mishaps>>
    BY <1>4
  <2>4. Posted(Current(d))' <=> Posted(x)'
    BY <1>x, <2>3 DEF Current
  <2> QED BY <2>1, <2>2, <2>3, <2>4, PostedPhase
<1>7. TypeOK'
  <2>1. executing' \in [Workers -> SUBSET Execution] /\ active' \in [Workers -> Nat]
    <3>1. executing \in [Workers -> SUBSET Execution] /\ active \in [Workers -> Nat]
      BY DEF TypeOK
    <3> QED BY <1>1, <1>4, <3>1
  <2>2. handled' \in [Workers -> SUBSET Execution]
    <3>1. handled \in [Workers -> SUBSET Execution]
      BY DEF TypeOK
    <3> QED BY <1>1, <1>5, <3>1
  <2>3. table' \in [Workers -> [Execution -> Outcome \cup {"none", "running"}]]
    <3>1. table \in [Workers -> [Execution -> Outcome \cup {"none", "running"}]]
      BY DEF TypeOK
    <3> QED BY <1>1, <1>5, <3>1
  <2>4. answer' \in [Dispatches -> Outcome \cup {"none", "accepted"}] /\ starts' \in [Dispatches -> Nat]
    <3>1. answer \in [Dispatches -> Outcome \cup {"none", "accepted"}]
      BY DEF TypeOK
    <3>2. answer' \in [Dispatches -> Outcome \cup {"none", "accepted"}]
      BY <1>5, <3>1
    <3>3. starts' \in [Dispatches -> Nat]
      BY <1>3
    <3> QED BY <3>2, <3>3
  <2> QED BY <1>4, <1>6, <2>1, <2>2, <2>3, <2>4 DEF TypeOK
<1>8. SaidInv'
  <2>1. ASSUME NEW e \in Dispatches, answer'[e] \in Outcome PROVE answer'[e] \in verdicts[e]
    <3>1. answer'[e] = answer[e] \/ answer'[e] = "accepted"
      BY <1>5 DEF TypeOK
    <3> QED BY <2>1, <3>1 DEF SaidInv, Outcome
  <2>2. ASSUME NEW v \in Workers, NEW y \in Execution, table'[v][y] \in Outcome
        PROVE  table'[v][y] \in verdicts[y.job]
    <3>1. table \in [Workers -> [Execution -> Outcome \cup {"none", "running"}]]
      BY DEF TypeOK
    <3>2. table'[v][y] = table[v][y] \/ table'[v][y] = "running"
      BY <1>1, <1>5, <3>1
    <3> QED BY <2>2, <3>2 DEF SaidInv, Outcome
  <2> QED BY <1>4, <2>1, <2>2 DEF SaidInv
<1>9. PostedInv'
  <2> SUFFICES ASSUME NEW v \in Workers, NEW y \in Counted(v)' PROVE Posted(y)'
    BY DEF PostedInv
  <2>1. CASE y \in Counted(v)
    BY <1>6, <2>1 DEF PostedInv, TypeOK, Counted
  <2>2. CASE y = x
    BY <1>6, <2>2
  <2> QED BY <1>1, <1>4, <2>1, <2>2 DEF TypeOK, Counted
<1>10. \A v \in Workers \ {w} : /\ executing'[v] = executing[v] /\ active'[v] = active[v]
                                /\ handled'[v] = handled[v] /\ table'[v] = table[v]
  BY <1>1, <1>4, <1>5 DEF TypeOK
<1>11. /\ executing'[w] = executing[w] \cup {x} /\ active'[w] = active[w] + 1
       /\ handled'[w] = IF d \in Async THEN handled[w] ELSE handled[w] \cup {x}
  BY <1>1, <1>4, <1>5 DEF TypeOK
<1>12. Counted(w)' = Counted(w) \cup {x}
  BY <1>4, <1>11 DEF Counted
<1>13. IsFiniteSet(Counted(w)') /\ Cardinality(Counted(w)') = Cardinality(Counted(w)) + 1
  BY <1>1, <1>2, <1>12, FS_AddElement DEF CountInv
<1>14. \A v \in Workers \ {w} : Counted(v)' = Counted(v)
  BY <1>4, <1>10 DEF Counted
<1>15. CountInv'
  <2> SUFFICES ASSUME NEW v \in Workers
               PROVE  /\ IsFiniteSet(Counted(v)')
                      /\ handled'[v] \subseteq executing'[v]
                      /\ \A y \in handled'[v] : y.job \notin Async
                      /\ \A y \in executing'[v] :
                           y \in leaked[v] <=> ~(y.job \in Async \/ y \in handled'[v])
    BY <1>4 DEF CountInv
  <2>1. CASE v = w
    <3>1. x \notin leaked[w] /\ (x.job \in Async \/ x \in handled'[w])
      BY <1>1, <1>2, <1>11 DEF Counted
    <3>2. \A y \in executing'[w] : y \in leaked[w] <=> ~(y.job \in Async \/ y \in handled'[w])
      <4> SUFFICES ASSUME NEW y \in executing[w], y # x
                   PROVE  y \in leaked[w] <=> ~(y.job \in Async \/ y \in handled'[w])
        BY <1>11, <3>1
      <4> QED BY <1>1, <1>11 DEF CountInv
    <3>3. handled'[w] \subseteq executing'[w] /\ \A y \in handled'[w] : y.job \notin Async
      BY <1>1, <1>11 DEF CountInv
    <3> QED BY <1>13, <2>1, <3>2, <3>3
  <2>2. CASE v # w
    BY <1>10, <1>14, <2>2 DEF CountInv
  <2> QED BY <2>1, <2>2
<1>16. WorkerTellsTruth'
  <2>1. ASSUME NEW v \in Workers PROVE active'[v] = Cardinality(Counted(v)')
    <3>1. active[v] = Cardinality(Counted(v))
      BY DEF WorkerTellsTruth, GaugeOffByLeaks
    <3> QED BY <1>10, <1>11, <1>13, <1>14, <3>1
  <2>2. ASSUME NEW v \in Workers, NEW y \in Execution, y.job \in Async
        PROVE  table'[v][y] = "running" <=> y \in executing'[v]
    <3>1. table[v][y] = "running" <=> y \in executing[v]
      BY <2>2 DEF WorkerTellsTruth, TableTruth
    <3>2. CASE v = w /\ y = x
      BY <1>1, <1>5, <1>11, <2>2, <3>2 DEF TypeOK
    <3>3. CASE ~(v = w /\ y = x)
      <4>1. table'[v][y] = table[v][y] /\ (y \in executing'[v] <=> y \in executing[v])
        BY <1>1, <1>5, <1>10, <1>11, <3>3 DEF TypeOK
      <4> QED BY <3>1, <4>1
    <3> QED BY <3>2, <3>3
  <2> QED BY <1>4, <2>1, <2>2 DEF WorkerTellsTruth, GaugeOffByLeaks, TableTruth
<1>17. AgainOnlyAfterLoss'
  <2> SUFFICES ASSUME NEW e \in Dispatches, starts'[e] > 1 PROVE "lost" \in mishaps[e]
    BY <1>4 DEF AgainOnlyAfterLoss
  <2>1. CASE e = d
    <3>1. phase[d] = "send" /\ starts[d] > 0
      BY <1>3, <2>1 DEF Post
    <3> QED BY <2>1, <3>1 DEF ProgressInv
  <2>2. CASE e # d
    BY <1>3, <2>2 DEF AgainOnlyAfterLoss
  <2> QED BY <2>1, <2>2
<1>18. result[d] = "none"
  BY DEF Post, ProgressInv
<1>19. HonestResult' /\ FailsOverWhileItCan'
  BY <1>3, <1>4, <1>18 DEF HonestResult, FailsOverWhileItCan
<1> QED BY <1>6, <1>7, <1>8, <1>9, <1>15, <1>16, <1>17, <1>19

\* An entry of a job table is written, and no other.
LEMMA OneEntry ==
  ASSUME TypeOK, NEW w \in Workers, NEW x \in Execution, NEW o,
         table' = [table EXCEPT ![w][x] = o]
  PROVE  \A v \in Workers, y \in Execution :
           table'[v][y] = IF v = w /\ y = x THEN o ELSE table[v][y]
<1>1. table \in [Workers -> [Execution -> Outcome \cup {"none", "running"}]]
  BY DEF TypeOK
<1>2. table'[w] = [table[w] EXCEPT ![x] = o] /\ \A v \in Workers \ {w} : table'[v] = table[v]
  BY <1>1
<1>3. \A y \in Execution : table'[w][y] = IF y = x THEN o ELSE table[w][y]
  BY <1>1, <1>2
<1> QED BY <1>2, <1>3

\* A handler that fails first leaves only its word, in an answer or an entry.
LEMMA HandlerFailsKeeps ==
  ASSUME IInv, NEW d \in Dispatches, HandlerFails(d)
  PROVE  IInv'
<1> USE DEF IInv
<1>w. PICK w \in Workers : w = Target(d)
  BY TargetIsWorker DEF HandlerFails
<1>x. PICK x \in Execution : x = Current(d)
  BY CurrentIsExecution
<1>1. w \in Workers /\ x \in Execution /\ x.job = d /\ x.try = at[d]
  BY <1>x, CurrentIsExecution
<1>2. x \notin Counted(w)
  <2>1. phase[d] = "send" /\ at[d] \in Nat
    BY DEF HandlerFails, TypeOK
  <2>2. ~Posted(x)
    BY <1>1, <2>1 DEF Posted
  <2> QED BY <1>1, <2>2 DEF PostedInv
<1>3. /\ UNCHANGED <<list, at, result, up, executing, handled, active, starts, mishaps, leaked>>
      /\ verdicts' = [verdicts EXCEPT ![d] = @ \cup {"failed"}]
      /\ faults' = faults + 1 /\ faults < MaxFaults
  BY DEF HandlerFails
<1>4. \/ /\ d \in Async /\ table' = [table EXCEPT ![w][x] = "failed"]
         /\ answer' = [answer EXCEPT ![d] = "accepted"] /\ Goto(d, "submitted")
      \/ /\ d \notin Async /\ table' = table
         /\ answer' = [answer EXCEPT ![d] = "failed"] /\ Goto(d, "await")
  BY <1>w, <1>x DEF HandlerFails
<1>5. verdicts' \in [Dispatches -> SUBSET Outcome] /\ "failed" \in verdicts'[d]
      /\ \A e \in Dispatches : verdicts[e] \subseteq verdicts'[e]
  <2>1. verdicts \in [Dispatches -> SUBSET Outcome] /\ "failed" \in Outcome
    BY DEF TypeOK, Outcome
  <2> QED BY <1>3, <2>1
<1>6. /\ ProgressInv' /\ phase' \in [Dispatches -> Phase]
      /\ \A y \in Execution : Posted(y) => Posted(y)'
  <2>1. phase[d] = "send" /\ (Goto(d, "submitted") \/ Goto(d, "await"))
    BY <1>4 DEF HandlerFails
  <2>2. starts'[d] \in Nat /\ \A e \in Dispatches \ {d} : starts'[e] = starts[e]
    BY <1>3 DEF TypeOK
  <2> QED BY <1>3, <2>1, <2>2, PostedPhase
<1>7. TypeOK'
  <2>1. table' \in [Workers -> [Execution -> Outcome \cup {"none", "running"}]]
    <3>1. table \in [Workers -> [Execution -> Outcome \cup {"none", "running"}]]
      BY DEF TypeOK
    <3> QED BY <1>1, <1>4, <3>1 DEF Outcome
  <2>2. answer' \in [Dispatches -> Outcome \cup {"none", "accepted"}]
    <3>1. answer \in [Dispatches -> Outcome \cup {"none", "accepted"}]
      BY DEF TypeOK
    <3> QED BY <1>4, <3>1 DEF Outcome
  <2>3. faults' \in 0 .. MaxFaults
    BY <1>3, DispatchAssumption DEF TypeOK
  <2> QED BY <1>3, <1>5, <1>6, <2>1, <2>2, <2>3 DEF TypeOK
<1>8. \A v \in Workers, y \in Execution :
         table'[v][y] = table[v][y] \/ (v = w /\ y = x /\ table'[v][y] = "failed")
  BY <1>4, OneEntry
<1>9. SaidInv'
  <2>1. ASSUME NEW e \in Dispatches, answer'[e] \in Outcome PROVE answer'[e] \in verdicts'[e]
    <3>1. answer \in [Dispatches -> Outcome \cup {"none", "accepted"}]
      BY DEF TypeOK
    <3>2. answer'[e] = answer[e] \/ answer'[e] = "accepted" \/ (e = d /\ answer'[e] = "failed")
      <4>1. CASE answer' = [answer EXCEPT ![d] = "accepted"]
        BY <3>1, <4>1
      <4>2. CASE answer' = [answer EXCEPT ![d] = "failed"]
        BY <3>1, <4>2
      <4> QED BY <1>4, <4>1, <4>2
    <3> QED BY <1>5, <2>1, <3>2 DEF SaidInv, Outcome
  <2>2. ASSUME NEW v \in Workers, NEW y \in Execution, table'[v][y] \in Outcome
        PROVE  table'[v][y] \in verdicts'[y.job]
    <3>1. y.job \in Dispatches
      BY DEF Execution
    <3>2. table'[v][y] = table[v][y] \/ (v = w /\ y = x /\ table'[v][y] = "failed")
      BY <1>8
    <3> QED BY <1>1, <1>5, <2>2, <3>1, <3>2 DEF SaidInv
  <2> QED BY <2>1, <2>2 DEF SaidInv
<1>10. PostedInv'
  <2>1. \A v \in Workers : Counted(v) \subseteq Execution
    BY DEF TypeOK, Counted
  <2> QED BY <1>3, <1>6, <2>1 DEF PostedInv, Counted
<1>11. CountInv'
  BY <1>3 DEF CountInv, Counted
<1>12. WorkerTellsTruth'
  <2>1. TableTruth'
    <3> SUFFICES ASSUME NEW v \in Workers, NEW y \in Execution, y.job \in Async
                 PROVE  table'[v][y] = "running" <=> y \in executing[v]
      BY <1>3 DEF TableTruth
    <3>1. table[v][y] = "running" <=> y \in executing[v]
      BY DEF WorkerTellsTruth, TableTruth
    <3>2. table'[v][y] = table[v][y] \/ (v = w /\ y = x /\ table'[v][y] = "failed")
      BY <1>8
    <3> QED BY <1>2, <3>1, <3>2 DEF Counted
  <2> QED BY <1>3, <2>1 DEF WorkerTellsTruth, GaugeOffByLeaks, Counted
<1>13. AgainOnlyAfterLoss'
  BY <1>3 DEF AgainOnlyAfterLoss
<1>14. HonestResult' /\ FailsOverWhileItCan'
  <2>1. HonestResult'
    BY <1>3, <1>5 DEF HonestResult
  <2>2. FailsOverWhileItCan'
    BY <1>3, <1>5 DEF FailsOverWhileItCan
  <2> QED BY <2>1, <2>2
<1> QED BY <1>6, <1>7, <1>9, <1>10, <1>11, <1>12, <1>13, <1>14

-----------------------------------------------------------------------------
(* The worker's moves                                                      *)

(***************************************************************************)
(* A worker's move leaves the client where it is, but for an answer that   *)
(* came to a verdict.                                                      *)
(***************************************************************************)
LEMMA ClientStays ==
  ASSUME IInv, UNCHANGED <<phase, list, at, result, starts, mishaps>>,
         \A d \in Dispatches : verdicts[d] \subseteq verdicts'[d]
  PROVE  /\ ProgressInv' /\ AgainOnlyAfterLoss' /\ HonestResult' /\ FailsOverWhileItCan'
         /\ \A x \in Execution : Posted(x)' <=> Posted(x)
<1> USE DEF IInv
<1>1. ProgressInv' /\ AgainOnlyAfterLoss'
  BY DEF ProgressInv, AgainOnlyAfterLoss
<1>2. HonestResult'
  BY DEF HonestResult
<1>3. FailsOverWhileItCan'
  BY DEF FailsOverWhileItCan
<1>4. \A x \in Execution : Posted(x)' <=> Posted(x)
  BY DEF Posted
<1> QED BY <1>1, <1>2, <1>3, <1>4

(***************************************************************************)
(* An execution leaves: either the counter falls, or it never will for it. *)
(***************************************************************************)
ExecutionLeaves(w, x, o) ==
  /\ executing' = [executing EXCEPT ![w] = @ \ {x}] /\ handled' = [handled EXCEPT ![w] = @ \ {x}]
  /\ verdicts' = [verdicts EXCEPT ![x.job] = @ \cup {o}]
  /\ table' = IF x.job \in Async THEN [table EXCEPT ![w][x] = o] ELSE table
  /\ answer' = [answer EXCEPT ![x.job] = o] \/ answer' = answer
  /\ \/ active' = active /\ leaked' = [leaked EXCEPT ![w] = @ \cup {x}]
     \/ x \notin leaked[w] /\ active' = [active EXCEPT ![w] = @ - 1] /\ leaked' = leaked
  /\ faults' \in 0 .. MaxFaults
  /\ UNCHANGED <<phase, list, at, result, up, starts, mishaps>>

LEMMA EndIsLeaving ==
  ASSUME IInv, NEW w \in Workers, NEW x \in executing[w], NEW o \in Outcome, ExecutionEnds(w, x, o)
  PROVE  ExecutionLeaves(w, x, o)
<1> USE DEF IInv
<1>1. x \in leaked[w] <=> ~(x.job \in Async \/ x \in handled[w])
  BY DEF CountInv
<1>2. leaked \in [Workers -> SUBSET Execution] /\ faults \in 0 .. MaxFaults
  BY DEF TypeOK
<1>3. x \in leaked[w] => leaked = [leaked EXCEPT ![w] = @ \cup {x}]
  <2> SUFFICES ASSUME x \in leaked[w] PROVE leaked = [leaked EXCEPT ![w] = @ \cup {x}]
    OBVIOUS
  <2>1. leaked[w] \cup {x} = leaked[w]
    OBVIOUS
  <2> QED BY <1>2, <2>1
<1> QED BY <1>1, <1>2, <1>3 DEF ExecutionEnds, ExecutionLeaves, Enter

LEMMA PanicIsLeaving ==
  ASSUME IInv, NEW w \in Workers, NEW x \in executing[w], ExecutionPanics(w, x)
  PROVE  ExecutionLeaves(w, x, "failed")
<1> USE DEF IInv
<1>1. handled = [handled EXCEPT ![w] = @ \ {x}]
  <2>1. x \notin handled[w] /\ handled \in [Workers -> SUBSET Execution]
    BY DEF ExecutionPanics, CountInv, TypeOK
  <2>2. handled[w] \ {x} = handled[w]
    BY <2>1
  <2> QED BY <2>1, <2>2
<1>2. faults' \in 0 .. MaxFaults
  BY DispatchAssumption DEF ExecutionPanics, TypeOK
<1> QED BY <1>1, <1>2 DEF ExecutionPanics, ExecutionLeaves, Enter, client

LEMMA LeavingKeeps ==
  ASSUME IInv, NEW w \in Workers, NEW x \in executing[w], NEW o \in Outcome, ExecutionLeaves(w, x, o)
  PROVE  IInv'
<1> USE DEF IInv
<1>1. x \in Execution /\ x.job \in Dispatches
  BY DEF TypeOK, Execution
<1>2. /\ executing' = [executing EXCEPT ![w] = @ \ {x}] /\ handled' = [handled EXCEPT ![w] = @ \ {x}]
      /\ verdicts' = [verdicts EXCEPT ![x.job] = @ \cup {o}]
      /\ UNCHANGED <<phase, list, at, result, up, starts, mishaps>>
      /\ faults' \in 0 .. MaxFaults
  BY DEF ExecutionLeaves
<1>3. /\ table' = IF x.job \in Async THEN [table EXCEPT ![w][x] = o] ELSE table
      /\ answer' = [answer EXCEPT ![x.job] = o] \/ answer' = answer
  BY DEF ExecutionLeaves
<1>4. /\ executing \in [Workers -> SUBSET Execution] /\ handled \in [Workers -> SUBSET Execution]
      /\ table \in [Workers -> [Execution -> Outcome \cup {"none", "running"}]]
      /\ answer \in [Dispatches -> Outcome \cup {"none", "accepted"}]
      /\ active \in [Workers -> Nat] /\ verdicts \in [Dispatches -> SUBSET Outcome]
      /\ leaked \in [Workers -> SUBSET Execution]
  BY DEF TypeOK
<1>5. /\ verdicts' \in [Dispatches -> SUBSET Outcome] /\ o \in verdicts'[x.job]
      /\ \A d \in Dispatches : verdicts[d] \subseteq verdicts'[d]
  BY <1>1, <1>2, <1>4
<1>6. /\ ProgressInv' /\ AgainOnlyAfterLoss' /\ HonestResult' /\ FailsOverWhileItCan'
      /\ \A y \in Execution : Posted(y)' <=> Posted(y)
  BY <1>2, <1>5, ClientStays
<1>7. \A v \in Workers \ {w} : /\ executing'[v] = executing[v] /\ handled'[v] = handled[v]
                               /\ active'[v] = active[v] /\ table'[v] = table[v]
                               /\ leaked'[v] = leaked[v]
  BY <1>2, <1>3, <1>4 DEF ExecutionLeaves
<1>8. executing'[w] = executing[w] \ {x} /\ handled'[w] = handled[w] \ {x}
  BY <1>2, <1>4
<1>9. \/ active'[w] = active[w] /\ leaked'[w] = leaked[w] \cup {x} /\ Counted(w)' = Counted(w)
      \/ /\ active'[w] = active[w] - 1 /\ leaked'[w] = leaked[w]
         /\ Counted(w)' = Counted(w) \ {x}
  BY <1>4, <1>8 DEF ExecutionLeaves, Counted
<1>10. x \in Counted(w) /\ IsFiniteSet(Counted(w)) /\ active[w] = Cardinality(Counted(w))
  BY DEF CountInv, Counted, WorkerTellsTruth, GaugeOffByLeaks
<1>11. /\ IsFiniteSet(Counted(w)') /\ active'[w] = Cardinality(Counted(w)')
       /\ active'[w] \in Nat
  <2>1. CASE active'[w] = active[w] /\ Counted(w)' = Counted(w)
    BY <1>4, <1>10, <2>1
  <2>2. CASE active'[w] = active[w] - 1 /\ Counted(w)' = Counted(w) \ {x}
    <3>1. IsFiniteSet(Counted(w) \ {x}) /\ Cardinality(Counted(w) \ {x}) = Cardinality(Counted(w)) - 1
      BY <1>10, FS_RemoveElement
    <3>2. Cardinality(Counted(w) \ {x}) \in Nat
      BY <3>1, FS_CardinalityType
    <3> QED BY <1>10, <2>2, <3>1, <3>2
  <2> QED BY <1>9, <2>1, <2>2
<1>12. \A v \in Workers \ {w} : Counted(v)' = Counted(v)
  BY <1>7 DEF Counted
<1>13. TypeOK'
  <2>1. executing' \in [Workers -> SUBSET Execution] /\ handled' \in [Workers -> SUBSET Execution]
    BY <1>2, <1>4
  <2>2. active' \in [Workers -> Nat]
    <3>1. CASE active' = active
      BY <1>4, <3>1
    <3>2. CASE active' = [active EXCEPT ![w] = @ - 1]
      <4>1. active'[w] = active[w] - 1
        BY <1>4, <3>2
      <4> QED BY <1>4, <1>11, <3>2, <4>1
    <3> QED BY <3>1, <3>2 DEF ExecutionLeaves
  <2>5. leaked' \in [Workers -> SUBSET Execution]
    BY <1>1, <1>4 DEF ExecutionLeaves
  <2>3. table' \in [Workers -> [Execution -> Outcome \cup {"none", "running"}]]
    BY <1>1, <1>3, <1>4
  <2>4. answer' \in [Dispatches -> Outcome \cup {"none", "accepted"}]
    BY <1>1, <1>3, <1>4
  <2> QED BY <1>2, <1>5, <2>1, <2>2, <2>3, <2>4, <2>5 DEF TypeOK
<1>14. SaidInv'
  <2>1. ASSUME NEW d \in Dispatches, answer'[d] \in Outcome PROVE answer'[d] \in verdicts'[d]
    <3>1. answer'[d] = answer[d] \/ (d = x.job /\ answer'[d] = o)
      <4>1. CASE answer' = [answer EXCEPT ![x.job] = o]
        BY <1>4, <4>1
      <4> QED BY <1>3, <4>1
    <3> QED BY <1>5, <2>1, <3>1 DEF SaidInv
  <2>2. ASSUME NEW v \in Workers, NEW y \in Execution, table'[v][y] \in Outcome
        PROVE  table'[v][y] \in verdicts'[y.job]
    <3>1. table'[v][y] = table[v][y] \/ (v = w /\ y = x /\ table'[v][y] = o)
      BY <1>1, <1>3, OneEntry
    <3>2. y.job \in Dispatches
      BY DEF Execution
    <3> QED BY <1>5, <2>2, <3>1, <3>2 DEF SaidInv
  <2> QED BY <2>1, <2>2 DEF SaidInv
<1>15. PostedInv'
  <2>1. \A v \in Workers : Counted(v)' \subseteq Counted(v) /\ Counted(v) \subseteq Execution
    BY <1>4, <1>9, <1>12 DEF Counted
  <2> QED BY <1>6, <2>1 DEF PostedInv
<1>16. CountInv'
  <2> SUFFICES ASSUME NEW v \in Workers
               PROVE  /\ IsFiniteSet(Counted(v)')
                      /\ handled'[v] \subseteq executing'[v]
                      /\ \A y \in handled'[v] : y.job \notin Async
                      /\ \A y \in executing'[v] :
                           y \in leaked'[v] <=> ~(y.job \in Async \/ y \in handled'[v])
    BY DEF CountInv
  <2>1. CASE v = w
    <3>1. handled'[w] \subseteq executing'[w] /\ \A y \in handled'[w] : y.job \notin Async
      BY <1>8 DEF CountInv
    <3>2. ASSUME NEW y \in executing'[w]
          PROVE  y \in leaked'[w] <=> ~(y.job \in Async \/ y \in handled'[w])
      <4>1. y \in executing[w] /\ y # x
        BY <1>8
      <4>2. y \in leaked'[w] <=> y \in leaked[w]
        BY <1>9, <4>1
      <4>3. y \in handled'[w] <=> y \in handled[w]
        BY <1>8, <4>1
      <4> QED BY <4>1, <4>2, <4>3 DEF CountInv
    <3> QED BY <1>11, <2>1, <3>1, <3>2
  <2>2. CASE v # w
    BY <1>7, <1>12, <2>2 DEF CountInv
  <2> QED BY <2>1, <2>2
<1>17. WorkerTellsTruth'
  <2>1. ASSUME NEW v \in Workers PROVE active'[v] = Cardinality(Counted(v)')
    <3>1. active[v] = Cardinality(Counted(v))
      BY DEF WorkerTellsTruth, GaugeOffByLeaks
    <3> QED BY <1>7, <1>11, <1>12, <3>1
  <2>2. ASSUME NEW v \in Workers, NEW y \in Execution, y.job \in Async
        PROVE  table'[v][y] = "running" <=> y \in executing'[v]
    <3>1. table[v][y] = "running" <=> y \in executing[v]
      BY <2>2 DEF WorkerTellsTruth, TableTruth
    <3>2. CASE v = w /\ y = x
      <4>1. table'[w][x] = o /\ x \notin executing'[w]
        <5>1. table' = [table EXCEPT ![w][x] = o]
          BY <1>3, <2>2, <3>2
        <5>2. table'[w][x] = o
          BY <1>4, <1>1, <5>1
        <5> QED BY <1>8, <5>2
      <4> QED BY <3>2, <4>1 DEF Outcome
    <3>3. CASE ~(v = w /\ y = x)
      <4>1. table'[v][y] = table[v][y]
        BY <1>1, <1>3, <3>3, OneEntry
      <4>2. y \in executing'[v] <=> y \in executing[v]
        BY <1>7, <1>8, <3>3
      <4> QED BY <3>1, <4>1, <4>2
    <3> QED BY <3>2, <3>3
  <2> QED BY <1>2, <2>1, <2>2 DEF WorkerTellsTruth, GaugeOffByLeaks, TableTruth
<1> QED BY <1>6, <1>13, <1>14, <1>15, <1>16, <1>17

LEMMA DropHandlerKeeps ==
  ASSUME IInv, NEW w \in Workers, NEW x \in handled[w], DropHandler(w, x)
  PROVE  IInv'
<1> USE DEF IInv
<1>1. /\ handled' = [handled EXCEPT ![w] = @ \ {x}] /\ leaked' = [leaked EXCEPT ![w] = @ \cup {x}]
      /\ UNCHANGED <<client, up, executing, table, active, faults, starts, verdicts, mishaps>>
  BY DEF DropHandler
<1>2. x \in executing[w] /\ x \in Execution /\ x.job \notin Async
  BY DEF CountInv, TypeOK
<1>3. handled \in [Workers -> SUBSET Execution] /\ leaked \in [Workers -> SUBSET Execution]
  BY DEF TypeOK
<1>4. TypeOK'
  <2>1. handled' \in [Workers -> SUBSET Execution] /\ leaked' \in [Workers -> SUBSET Execution]
    BY <1>1, <1>2, <1>3
  <2> QED BY <1>1, <2>1 DEF TypeOK, client
<1>5. /\ ProgressInv' /\ AgainOnlyAfterLoss' /\ HonestResult' /\ FailsOverWhileItCan'
      /\ \A y \in Execution : Posted(y)' <=> Posted(y)
  BY <1>1, ClientStays DEF client
<1>6. SaidInv'
  BY <1>1 DEF SaidInv, client
<1>7. \A v \in Workers : Counted(v)' = Counted(v)
  BY <1>1, <1>2, <1>3 DEF Counted
<1>8. PostedInv'
  <2>1. \A v \in Workers : Counted(v) \subseteq Execution
    BY DEF TypeOK, Counted
  <2> QED BY <1>5, <1>7, <2>1 DEF PostedInv
<1>9. CountInv'
  <2> SUFFICES ASSUME NEW v \in Workers
               PROVE  /\ IsFiniteSet(Counted(v)')
                      /\ handled'[v] \subseteq executing[v]
                      /\ \A y \in handled'[v] : y.job \notin Async
                      /\ \A y \in executing[v] :
                           y \in leaked'[v] <=> ~(y.job \in Async \/ y \in handled'[v])
    BY <1>1 DEF CountInv
  <2>1. CASE v = w
    <3>1. handled'[w] = handled[w] \ {x} /\ leaked'[w] = leaked[w] \cup {x}
      BY <1>1, <1>3
    <3> QED BY <1>2, <1>7, <2>1, <3>1 DEF CountInv
  <2>2. CASE v # w
    <3>1. handled'[v] = handled[v] /\ leaked'[v] = leaked[v]
      BY <1>1, <1>3, <2>2
    <3> QED BY <1>7, <3>1 DEF CountInv
  <2> QED BY <2>1, <2>2
<1>10. WorkerTellsTruth'
  BY <1>1, <1>7 DEF WorkerTellsTruth, GaugeOffByLeaks, TableTruth
<1> QED BY <1>4, <1>5, <1>6, <1>8, <1>9, <1>10

LEMMA WorkerDiesKeeps ==
  ASSUME IInv, NEW w \in Workers, WorkerDies(w)
  PROVE  IInv'
<1> USE DEF IInv
<1>1. /\ executing' = [executing EXCEPT ![w] = {}] /\ handled' = [handled EXCEPT ![w] = {}]
      /\ table' = [table EXCEPT ![w] = [x \in Execution |-> "none"]]
      /\ active' = [active EXCEPT ![w] = 0] /\ leaked' = [leaked EXCEPT ![w] = {}]
      /\ up' = up \ {w} /\ faults' = faults + 1 /\ faults < MaxFaults
      /\ UNCHANGED <<client, starts, verdicts, mishaps>>
  BY DEF WorkerDies
<1>2. /\ executing \in [Workers -> SUBSET Execution] /\ handled \in [Workers -> SUBSET Execution]
      /\ table \in [Workers -> [Execution -> Outcome \cup {"none", "running"}]]
      /\ active \in [Workers -> Nat] /\ leaked \in [Workers -> SUBSET Execution]
  BY DEF TypeOK
<1>3. \A v \in Workers \ {w} : /\ executing'[v] = executing[v] /\ handled'[v] = handled[v]
                               /\ active'[v] = active[v] /\ table'[v] = table[v]
                               /\ leaked'[v] = leaked[v]
  BY <1>1, <1>2
<1>4. /\ executing'[w] = {} /\ handled'[w] = {} /\ active'[w] = 0 /\ leaked'[w] = {}
      /\ \A y \in Execution : table'[w][y] = "none"
  BY <1>1, <1>2
<1>5. TypeOK'
  <2>1. executing' \in [Workers -> SUBSET Execution] /\ handled' \in [Workers -> SUBSET Execution]
    BY <1>1, <1>2
  <2>2. active' \in [Workers -> Nat] /\ leaked' \in [Workers -> SUBSET Execution]
    BY <1>1, <1>2
  <2>3. table' \in [Workers -> [Execution -> Outcome \cup {"none", "running"}]]
    BY <1>1, <1>2
  <2>4. faults' \in 0 .. MaxFaults /\ up' \subseteq Workers
    BY <1>1, DispatchAssumption DEF TypeOK
  <2> QED BY <1>1, <2>1, <2>2, <2>3, <2>4 DEF TypeOK, client
<1>6. /\ ProgressInv' /\ AgainOnlyAfterLoss' /\ HonestResult' /\ FailsOverWhileItCan'
      /\ \A y \in Execution : Posted(y)' <=> Posted(y)
  BY <1>1, ClientStays DEF client
<1>7. SaidInv'
  <2>1. ASSUME NEW v \in Workers, NEW y \in Execution, table'[v][y] \in Outcome
        PROVE  table'[v][y] \in verdicts[y.job]
    BY <1>3, <1>4, <2>1 DEF SaidInv, Outcome
  <2> QED BY <1>1, <2>1 DEF SaidInv, client
<1>8. Counted(w)' = {} /\ \A v \in Workers \ {w} : Counted(v)' = Counted(v)
  BY <1>3, <1>4 DEF Counted
<1>9. PostedInv'
  <2>1. \A v \in Workers : Counted(v) \subseteq Execution
    BY DEF TypeOK, Counted
  <2> QED BY <1>6, <1>8, <2>1 DEF PostedInv
<1>10. CountInv'
  <2> SUFFICES ASSUME NEW v \in Workers
               PROVE  /\ IsFiniteSet(Counted(v)')
                      /\ handled'[v] \subseteq executing'[v]
                      /\ \A y \in handled'[v] : y.job \notin Async
                      /\ \A y \in executing'[v] :
                           y \in leaked'[v] <=> ~(y.job \in Async \/ y \in handled'[v])
    BY DEF CountInv
  <2>1. CASE v = w
    BY <1>4, <1>8, <2>1, FS_EmptySet
  <2>2. CASE v # w
    BY <1>3, <1>8, <2>2 DEF CountInv
  <2> QED BY <2>1, <2>2
<1>11. WorkerTellsTruth'
  <2>1. ASSUME NEW v \in Workers PROVE active'[v] = Cardinality(Counted(v)')
    <3>1. CASE v = w
      BY <1>4, <1>8, <3>1, FS_EmptySet
    <3>2. CASE v # w
      BY <1>3, <1>8, <3>2 DEF WorkerTellsTruth, GaugeOffByLeaks
    <3> QED BY <3>1, <3>2
  <2>2. ASSUME NEW v \in Workers, NEW y \in Execution, y.job \in Async
        PROVE  table'[v][y] = "running" <=> y \in executing'[v]
    <3>1. CASE v = w
      BY <1>4, <3>1
    <3>2. CASE v # w
      BY <1>3, <2>2, <3>2 DEF WorkerTellsTruth, TableTruth
    <3> QED BY <3>1, <3>2
  <2> QED BY <2>1, <2>2 DEF WorkerTellsTruth, GaugeOffByLeaks, TableTruth
<1> QED BY <1>5, <1>6, <1>7, <1>9, <1>10, <1>11

\* A worker comes back, or nothing happens.
LEMMA RestKeeps ==
  ASSUME IInv, (\E w \in Workers : WorkerStarts(w)) \/ UNCHANGED vars
  PROVE  IInv'
<1> USE DEF IInv
<1>1. UNCHANGED <<phase, list, at, answer, result, executing, handled, table, active, faults,
                  starts, verdicts, mishaps, leaked>> /\ up' \subseteq Workers
  BY DEF WorkerStarts, vars, client, servers, hist, TypeOK
<1>2. TypeOK'
  BY <1>1 DEF TypeOK
<1>3. /\ ProgressInv' /\ AgainOnlyAfterLoss' /\ HonestResult' /\ FailsOverWhileItCan'
      /\ \A y \in Execution : Posted(y)' <=> Posted(y)
  BY <1>1, ClientStays
<1>4. SaidInv'
  BY <1>1 DEF SaidInv
<1>5. PostedInv'
  <2>1. \A w \in Workers : Counted(w) \subseteq Execution
    BY DEF TypeOK, Counted
  <2> QED BY <1>1, <1>3, <2>1 DEF PostedInv, Counted
<1>6. CountInv'
  BY <1>1 DEF CountInv, Counted
<1>7. WorkerTellsTruth'
  BY <1>1 DEF WorkerTellsTruth, GaugeOffByLeaks, TableTruth, Counted
<1> QED BY <1>2, <1>3, <1>4, <1>5, <1>6, <1>7

-----------------------------------------------------------------------------
(* The invariant is inductive                                              *)

LEMMA InitIInv == Init => IInv
<1> SUFFICES ASSUME Init PROVE IInv
  OBVIOUS
<1>1. TypeOK
  <2>1. list \in [Dispatches -> Seq(Workers)] /\ \A d \in Dispatches : Len(list[d]) <= MaxTries
    BY DispatchAssumption DEF Init
  <2>2. /\ phase \in [Dispatches -> Phase] /\ at \in [Dispatches -> 1 .. MaxTries]
        /\ answer \in [Dispatches -> Outcome \cup {"none", "accepted"}]
        /\ result \in [Dispatches -> Outcome \cup {"none"}] /\ faults \in 0 .. MaxFaults
    BY DispatchAssumption DEF Init, Phase
  <2>3. table \in [Workers -> [Execution -> Outcome \cup {"none", "running"}]]
    BY DEF Init
  <2> QED BY <2>1, <2>2, <2>3 DEF Init, TypeOK
<1>2. ProgressInv /\ AgainOnlyAfterLoss /\ HonestResult /\ FailsOverWhileItCan
  BY DEF Init, ProgressInv, AgainOnlyAfterLoss, HonestResult, FailsOverWhileItCan
<1>3. SaidInv /\ PostedInv
  BY DEF Init, SaidInv, PostedInv, Outcome, Counted
<1>4. \A w \in Workers : Counted(w) = {} /\ executing[w] = {} /\ handled[w] = {} /\ active[w] = 0
  BY DEF Init, Counted
<1>5. CountInv /\ WorkerTellsTruth
  <2>1. CountInv
    BY <1>4, FS_EmptySet DEF CountInv
  <2>2. WorkerTellsTruth
    BY <1>4, FS_EmptySet DEF Init, WorkerTellsTruth, GaugeOffByLeaks, TableTruth
  <2> QED BY <2>1, <2>2
<1> QED BY <1>1, <1>2, <1>3, <1>5 DEF IInv

LEMMA NextIInv == IInv /\ [Next]_vars => IInv'
<1> SUFFICES ASSUME IInv, [Next]_vars PROVE IInv'
  OBVIOUS
<1>1. ASSUME NEW d \in Dispatches, ClientStep(d) \/ Lose(d) \/ Unreadable(d) \/ TimeOut(d) PROVE IInv'
  <2>1. CASE Post(d)
    BY <2>1, PostKeeps
  <2>2. CASE ~Post(d)
    BY <1>1, <2>2, ClientStepsMove, MoveKeeps DEF ClientStep
  <2> QED BY <2>1, <2>2
<1>2. ASSUME NEW d \in Dispatches, HandlerFails(d) PROVE IInv'
  BY <1>2, HandlerFailsKeeps
<1>3. ASSUME NEW w \in Workers, WorkerStep(w) PROVE IInv'
  <2>1. PICK x \in executing[w] : ExecutionEnds(w, x, "succeeded") \/ ExecutionEnds(w, x, "failed")
    BY <1>3 DEF WorkerStep
  <2> QED BY <2>1, EndIsLeaving, LeavingKeeps DEF Outcome
<1>4. ASSUME NEW w \in Workers, NEW x \in handled[w], DropHandler(w, x) PROVE IInv'
  BY <1>4, DropHandlerKeeps
<1>5. ASSUME NEW w \in Workers, WorkerDies(w) PROVE IInv'
  BY <1>5, WorkerDiesKeeps
<1>6. ASSUME NEW w \in Workers, NEW x \in executing[w], ExecutionPanics(w, x) PROVE IInv'
  BY <1>6, PanicIsLeaving, LeavingKeeps DEF Outcome
<1> QED BY <1>1, <1>2, <1>3, <1>4, <1>5, <1>6, RestKeeps DEF Next

LEMMA Inductive == Spec => []IInv
BY InitIInv, NextIInv, PTL DEF Spec

-----------------------------------------------------------------------------
(* The results                                                             *)

(***************************************************************************)
(* ACTIVE_JOBS, a usize that is lowered where an execution ends, never     *)
(* falls below zero; and every variable keeps its type.                    *)
(***************************************************************************)
THEOREM TypeCorrect == Spec => []TypeOK
BY Inductive, PTL DEF IInv

\* A job is started again only after a loss: RemoteError::Unreachable of remote.rs.
THEOREM StartedAgainOnlyAfterLoss == Spec => []AgainOnlyAfterLoss
BY Inductive, PTL DEF IInv

\* What run_with_failover returns to the task is what happened at some worker.
THEOREM ResultsHonest == Spec => []HonestResult
BY Inductive, PTL DEF IInv

\* run_with_failover gives up only at the end of the list.
THEOREM TriesTheWholeList == Spec => []FailsOverWhileItCan
BY Inductive, PTL DEF IInv

(***************************************************************************)
(* Through failovers, losses, deaths and restarts the job table of         *)
(* fluxion-worker says what the worker executes, and its counter errs by   *)
(* the executions that leaked: those of POST /run whose handler was        *)
(* dropped, and those of POST /jobs that panicked.                         *)
(***************************************************************************)
THEOREM WorkersErrByLeaks == Spec => []WorkerTellsTruth
BY Inductive, PTL DEF IInv
=============================================================================
