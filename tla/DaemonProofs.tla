---------------------------- MODULE DaemonProofs ----------------------------
(***************************************************************************)
(* What the claim protects and what it does not, for any number of         *)
(* daemons, schedules and faults.  The claim is a compare-and-set, the     *)
(* record that follows the run is not: it is harmless exactly as long as   *)
(* the value it writes is still the one in the row, and that is so until   *)
(* that value has come due.                                                *)
(***************************************************************************)
EXTENDS ScheduleDaemon, Watch, FiniteSetTheorems, TLAPS

Holding(d) == pc[d] \in {"load", "run", "record"}

\* What a daemon has read was due when it read it, and of rows that existed.
ReadInv ==
  /\ \A s \in unused : claimed[s] = {} /\ fired[s] = {} /\ nextRun[s] = 0 /\ s \notin listed
  /\ \A d \in Daemons :
       /\ \A e \in due[d] : e.at <= now /\ e.id \notin unused
       /\ pc[d] = "claim" \/ Holding(d) => cur[d].id \notin unused
       /\ pc[d] = "claim" => cur[d].at <= now /\ cur[d].at < cur[d].next

(***************************************************************************)
(* Of a schedule without a late run: the row is past everything that was   *)
(* claimed or fired, a claim that is held is nobody else's and is not      *)
(* fired before its start, and the row moves on only when it is due.       *)
(***************************************************************************)
HeldInv(s) ==
  /\ \A o \in claimed[s] \cup fired[s] : o < nextRun[s]
  /\ \A d \in Daemons : Holding(d) /\ cur[d].id = s =>
       /\ cur[d].at < nextRun[s]
       /\ cur[d].next <= nextRun[s]
       /\ nextRun[s] = cur[d].next \/ now >= cur[d].next
  /\ \A d \in Daemons : pc[d] = "load" /\ cur[d].id = s =>
       /\ cur[d].at \notin fired[s]
       /\ \A c \in Daemons : pc[c] = "load" /\ cur[c].id = s /\ cur[c].at = cur[d].at => c = d

ClaimInv == \A s \in Schedules \ late : HeldInv(s) /\ s \notin repeated

Inv == TypeOK /\ ReadInv /\ ClaimInv

-----------------------------------------------------------------------------

LEMMA DaemonTypeInit == Init => TypeOK
BY DaemonAssumption DEF Init, TypeOK, DaemonPc, Entry

LEMMA DaemonTypeNext == TypeOK /\ [Next]_vars => TypeOK'
<1> SUFFICES ASSUME TypeOK, [Next]_vars PROVE TypeOK'
  OBVIOUS
<1> USE DEF TypeOK, Goto, DaemonPc, Entry, table, daemons, hist
<1>0. now \in 0 .. Horizon /\ now \in Nat /\ MaxFaults \in Nat
  BY DaemonAssumption
<1>1. CASE Tick
  BY <1>0, <1>1, DaemonAssumption DEF Tick
<1>2. ASSUME NEW s \in Schedules, Add(s) \/ Remove(s) PROVE TypeOK'
  <2>1. \A t \in 0 .. now : Upcoming[s][t] \in Nat
    BY <1>0, DaemonAssumption
  <2>2. ASSUME Add(s) PROVE TypeOK'
    <3>1. PICK t \in 0 .. now : nextRun' = [nextRun EXCEPT ![s] = Upcoming[s][t]]
      BY <2>2 DEF Add
    <3> QED BY <2>1, <2>2, <3>1 DEF Add
  <2> QED BY <1>2, <2>2 DEF Remove
<1>3. ASSUME NEW d \in Daemons,
             Rest(d) \/ ClaimLost(d) \/ Finish(d) \/ Restart(d) \/ GiveUp(d) \/ Die(d)
      PROVE TypeOK'
  <2>1. ASSUME Rest(d) \/ ClaimLost(d) \/ Finish(d) PROVE TypeOK'
    BY <2>1 DEF Rest, ClaimLost, Finish
  <2>2. ASSUME Restart(d) PROVE TypeOK'
    BY <2>2 DEF Restart
  <2>3. ASSUME GiveUp(d) \/ Die(d) PROVE TypeOK'
    BY <1>0, <2>3 DEF GiveUp, Die
  <2> QED BY <1>3, <2>1, <2>2, <2>3
<1>4. ASSUME NEW d \in Daemons, ReadDue(d) PROVE TypeOK'
  BY <1>4 DEF ReadDue, Rows
<1>5. ASSUME NEW d \in Daemons, Pick(d) PROVE TypeOK'
  <2>1. PICK e \in due[d] :
          /\ cur' = [cur EXCEPT ![d] = [id |-> e.id, at |-> e.at, next |-> Upcoming[e.id][now]]]
          /\ due' = [due EXCEPT ![d] = @ \ {e}]
    BY <1>5 DEF Pick, Oldest
  <2>2. e.id \in Schedules /\ e.at \in Nat /\ Upcoming[e.id][now] \in Nat
    BY <1>0, DaemonAssumption
  <2> QED BY <1>5, <2>1, <2>2 DEF Pick
<1>6. ASSUME NEW d \in Daemons, ClaimWon(d) PROVE TypeOK'
  BY <1>6 DEF ClaimWon
<1>7. ASSUME NEW d \in Daemons, Start(d) PROVE TypeOK'
  BY <1>7 DEF Start
<1>8. ASSUME NEW d \in Daemons, Record(d) PROVE TypeOK'
  BY <1>8 DEF Record
<1>9. CASE UNCHANGED vars
  BY <1>9 DEF vars
<1>10. ASSUME NEW d \in Daemons, PassOver(d) PROVE TypeOK'
  BY <1>10 DEF PassOver
<1> QED BY <1>1, <1>2, <1>3, <1>4, <1>5, <1>6, <1>7, <1>8, <1>9, <1>10 DEF Next, DaemonStep

-----------------------------------------------------------------------------

LEMMA ReadNext == TypeOK /\ ReadInv /\ [Next]_vars => ReadInv'
<1> SUFFICES ASSUME TypeOK, ReadInv, [Next]_vars PROVE ReadInv'
  OBVIOUS
<1> USE DEF TypeOK, Goto, DaemonPc, Entry, table, daemons, hist, ReadInv, Holding
<1>0. now \in 0 .. Horizon /\ now \in Nat
  BY DaemonAssumption
<1>1. CASE Tick
  BY <1>0, <1>1 DEF Tick
<1>2. ASSUME NEW s \in Schedules, Add(s) \/ Remove(s) PROVE ReadInv'
  BY <1>2 DEF Add, Remove
<1>3. ASSUME NEW d \in Daemons,
             Rest(d) \/ ClaimLost(d) \/ Finish(d) \/ Restart(d) \/ GiveUp(d) \/ Die(d)
      PROVE ReadInv'
  BY <1>3 DEF Rest, ClaimLost, Finish, Restart, GiveUp, Die
<1>4. ASSUME NEW d \in Daemons, ReadDue(d) PROVE ReadInv'
  BY <1>4 DEF ReadDue, Rows, IsDue
<1>5. ASSUME NEW d \in Daemons, Pick(d) PROVE ReadInv'
  <2>1. PICK e \in due[d] :
          /\ Upcoming[e.id][now] # Never
          /\ cur' = [cur EXCEPT ![d] = [id |-> e.id, at |-> e.at, next |-> Upcoming[e.id][now]]]
          /\ due' = [due EXCEPT ![d] = @ \ {e}]
    BY <1>5 DEF Pick, Oldest
  <2>2. /\ e.id \in Schedules /\ e.at \in Nat
        /\ Upcoming[e.id][now] \in Nat /\ Upcoming[e.id][now] > now
    BY <1>0, <2>1, DaemonAssumption
  <2> QED BY <1>0, <1>5, <2>1, <2>2 DEF Pick
<1>6. ASSUME NEW d \in Daemons, ClaimWon(d) PROVE ReadInv'
  BY <1>6 DEF ClaimWon
<1>7. ASSUME NEW d \in Daemons, Start(d) PROVE ReadInv'
  BY <1>7 DEF Start
<1>8. ASSUME NEW d \in Daemons, Record(d) PROVE ReadInv'
  BY <1>8 DEF Record
<1>9. CASE UNCHANGED vars
  BY <1>9 DEF vars
<1>10. ASSUME NEW d \in Daemons, PassOver(d) PROVE ReadInv'
  BY <1>10 DEF PassOver
<1> QED BY <1>1, <1>2, <1>3, <1>4, <1>5, <1>6, <1>7, <1>8, <1>9, <1>10 DEF Next, DaemonStep

-----------------------------------------------------------------------------

\* Nothing about the schedule changes, and a claim that is held was held before.
LEMMA HeldKept ==
  ASSUME TypeOK, NEW s \in Schedules, HeldInv(s), now' >= now, now' \in Nat,
         UNCHANGED <<cur, claimed, fired>>, nextRun'[s] = nextRun[s],
         \A d \in Daemons : cur[d].id = s /\ Holding(d)' => Holding(d),
         \A d \in Daemons : cur[d].id = s /\ pc'[d] = "load" => pc[d] = "load"
  PROVE  HeldInv(s)'
<1>1. now \in Nat /\ nextRun[s] \in Nat /\ \A d \in Daemons : cur[d].next \in Nat
  BY DaemonAssumption DEF TypeOK
<1> QED BY <1>1 DEF HeldInv

LEMMA ClaimNext == Inv /\ [Next]_vars => ClaimInv'
<1> SUFFICES ASSUME Inv, [Next]_vars, NEW s \in Schedules, s \notin late'
             PROVE  HeldInv(s)' /\ s \notin repeated'
  BY DaemonTypeNext DEF ClaimInv, Inv, TypeOK
<1> USE DEF Goto, table, daemons, hist
<1>0. /\ now \in 0 .. Horizon /\ now \in Nat /\ TypeOK /\ ReadInv
      /\ now' \in Nat /\ TypeOK'
  BY DaemonAssumption, DaemonTypeNext DEF Inv, TypeOK
<1>1. s \notin late
  BY DEF Inv, Next, vars, Tick, Add, Remove, DaemonStep, ReadDue, Rest, Pick, PassOver, ClaimLost,
         ClaimWon, Start, Finish, Record, Restart, GiveUp, Die
<1>2. HeldInv(s) /\ s \notin repeated
  BY <1>1 DEF Inv, ClaimInv
<1>3. CASE Tick
  <2>1. now' = now + 1 /\ UNCHANGED <<table, daemons, hist>>
    BY <1>3 DEF Tick
  <2> QED BY <1>0, <1>2, <2>1, HeldKept DEF Holding
<1>4. ASSUME NEW r \in Schedules, Remove(r) PROVE HeldInv(s)' /\ s \notin repeated'
  <2>1. UNCHANGED <<now, nextRun, pc, cur, hist>>
    BY <1>4 DEF Remove
  <2> QED BY <1>0, <1>2, <2>1, HeldKept DEF Holding
<1>5. ASSUME NEW r \in Schedules, Add(r) PROVE HeldInv(s)' /\ s \notin repeated'
  <2>1. PICK t \in 0 .. now :
          /\ nextRun' = [nextRun EXCEPT ![r] = Upcoming[r][t]] /\ r \in unused
          /\ UNCHANGED <<now, pc, cur, hist>>
    BY <1>5 DEF Add
  <2>2. CASE r = s
    <3>1. claimed[s] = {} /\ fired[s] = {} /\ \A d \in Daemons : Holding(d) => cur[d].id # s
      BY <1>0, <2>1, <2>2 DEF ReadInv
    <3> QED BY <1>2, <2>1, <3>1 DEF HeldInv, Holding
  <2>3. CASE r # s
    <3>1. nextRun'[s] = nextRun[s]
      BY <1>0, <2>1, <2>3 DEF TypeOK
    <3> QED BY <1>0, <1>2, <2>1, <3>1, HeldKept DEF Holding
  <2> QED BY <2>2, <2>3
<1>6. ASSUME NEW d \in Daemons, Rest(d) \/ ClaimLost(d) \/ Finish(d) \/ Restart(d) \/ GiveUp(d)
                                 \/ Die(d) \/ ReadDue(d) \/ PassOver(d)
      PROVE HeldInv(s)' /\ s \notin repeated'
  <2>1. UNCHANGED <<now, nextRun, cur, hist>>
    BY <1>6 DEF Rest, ClaimLost, Finish, Restart, GiveUp, Die, ReadDue, PassOver
  <2>2. \A c \in Daemons : /\ Holding(c)' => Holding(c)
                           /\ pc'[c] = "load" => pc[c] = "load"
    BY <1>0, <1>6 DEF Rest, ClaimLost, Finish, Restart, GiveUp, Die, ReadDue, PassOver, Holding,
                      TypeOK
  <2> QED BY <1>0, <1>2, <2>1, <2>2, HeldKept
<1>7. ASSUME NEW d \in Daemons, Pick(d) PROVE HeldInv(s)' /\ s \notin repeated'
  <2>1. /\ pc' = [pc EXCEPT ![d] = "claim"] /\ UNCHANGED <<now, nextRun, hist>>
        /\ \A c \in Daemons \ {d} : cur'[c] = cur[c]
    BY <1>0, <1>7 DEF Pick, TypeOK
  <2>2. /\ ~Holding(d)' /\ pc'[d] # "load"
        /\ \A c \in Daemons \ {d} : Holding(c)' = Holding(c) /\ pc'[c] = pc[c]
    BY <1>0, <2>1 DEF Holding, TypeOK
  <2> QED BY <1>2, <2>1, <2>2 DEF HeldInv
<1>8. ASSUME NEW d \in Daemons, ClaimWon(d) PROVE HeldInv(s)' /\ s \notin repeated'
  <2>1. /\ pc[d] = "claim" /\ nextRun[cur[d].id] = cur[d].at
        /\ nextRun' = [nextRun EXCEPT ![cur[d].id] = cur[d].next]
        /\ claimed' = [claimed EXCEPT ![cur[d].id] = @ \cup {cur[d].at}]
        /\ pc' = [pc EXCEPT ![d] = "load"]
        /\ UNCHANGED <<now, cur, fired, repeated>>
    BY <1>8 DEF ClaimWon, Unclaimed
  <2>2. /\ pc'[d] = "load" /\ ~Holding(d)
        /\ \A c \in Daemons \ {d} : pc'[c] = pc[c] /\ Holding(c)' = Holding(c)
    BY <1>0, <2>1 DEF TypeOK, Holding
  <2>3. CASE cur[d].id # s
    <3>1. nextRun'[s] = nextRun[s] /\ claimed'[s] = claimed[s]
      BY <1>0, <2>1, <2>3 DEF TypeOK
    <3> QED BY <1>2, <2>1, <2>2, <2>3, <3>1 DEF HeldInv
  <2>4. CASE cur[d].id = s
    <3>1. /\ nextRun[s] = cur[d].at /\ nextRun'[s] = cur[d].next
          /\ claimed'[s] = claimed[s] \cup {cur[d].at}
      BY <1>0, <2>1, <2>4 DEF TypeOK
    <3>2. /\ cur[d].at < cur[d].next /\ cur[d].at <= now
          /\ cur[d].at \in Nat /\ cur[d].next \in Nat
      BY <1>0, <2>1 DEF ReadInv, TypeOK
    <3>3. \A o \in claimed'[s] \cup fired[s] : o < nextRun'[s]
      BY <1>0, <1>2, <3>1, <3>2 DEF HeldInv, TypeOK
    <3>4. ASSUME NEW c \in Daemons, Holding(c)', cur[c].id = s
          PROVE  /\ cur[c].at < nextRun'[s] /\ cur[c].next <= nextRun'[s]
                 /\ nextRun'[s] = cur[c].next \/ now >= cur[c].next
      <4>1. cur[c].at \in Nat /\ cur[c].next \in Nat
        BY <1>0 DEF TypeOK
      <4>2. CASE c = d
        BY <3>1, <3>2, <4>1, <4>2
      <4>3. CASE c # d
        <5>1. cur[c].at < nextRun[s] /\ cur[c].next <= nextRun[s]
          BY <1>2, <2>2, <3>4, <4>3 DEF HeldInv
        <5> QED BY <1>0, <3>1, <3>2, <4>1, <5>1
      <4> QED BY <4>2, <4>3
    <3>5. ASSUME NEW c \in Daemons, pc'[c] = "load", cur[c].id = s
          PROVE  /\ cur[c].at \notin fired[s]
                 /\ \A b \in Daemons : pc'[b] = "load" /\ cur[b].id = s /\ cur[b].at = cur[c].at => b = c
      <4>1. cur[d].at \notin fired[s]
        BY <1>2, <3>1, <3>2 DEF HeldInv
      <4>2. \A b \in Daemons \ {d} : pc'[b] = "load" /\ cur[b].id = s => cur[b].at # cur[d].at
        BY <1>2, <2>2, <3>1, <3>2 DEF HeldInv, Holding
      <4> QED BY <1>2, <2>2, <3>5, <4>1, <4>2 DEF HeldInv
    <3> QED BY <1>2, <2>1, <3>3, <3>4, <3>5 DEF HeldInv
  <2> QED BY <2>3, <2>4
<1>9. ASSUME NEW d \in Daemons, Start(d) PROVE HeldInv(s)' /\ s \notin repeated'
  <2>1. /\ pc[d] = "load" /\ pc' = [pc EXCEPT ![d] = "run"]
        /\ fired' = [fired EXCEPT ![cur[d].id] = @ \cup {cur[d].at}]
        /\ repeated' = IF cur[d].at \in fired[cur[d].id] THEN repeated \cup {cur[d].id} ELSE repeated
        /\ UNCHANGED <<now, nextRun, cur, claimed>>
    BY <1>9 DEF Start
  <2>2. /\ pc'[d] = "run" /\ \A c \in Daemons : Holding(c)' = Holding(c)
        /\ \A c \in Daemons \ {d} : pc'[c] = pc[c]
    BY <1>0, <2>1 DEF TypeOK, Holding
  <2>3. CASE cur[d].id # s
    <3>1. fired'[s] = fired[s]
      BY <1>0, <2>1, <2>3 DEF TypeOK
    <3> QED BY <1>2, <2>1, <2>2, <2>3, <3>1 DEF HeldInv
  <2>4. CASE cur[d].id = s
    <3>1. fired'[s] = fired[s] \cup {cur[d].at}
      BY <1>0, <2>1, <2>4 DEF TypeOK
    <3>2. cur[d].at \notin fired[s] /\ cur[d].at < nextRun[s]
      BY <1>2, <2>1, <2>4 DEF HeldInv, Holding
    <3>3. \A c \in Daemons : pc'[c] = "load" /\ cur[c].id = s =>
             pc[c] = "load" /\ cur[c].at # cur[d].at
      BY <1>2, <2>1, <2>2, <2>4 DEF HeldInv
    <3> QED BY <1>2, <2>1, <2>2, <2>4, <3>1, <3>2, <3>3 DEF HeldInv
  <2> QED BY <2>3, <2>4
<1>10. ASSUME NEW d \in Daemons, Record(d) PROVE HeldInv(s)' /\ s \notin repeated'
  <2>1. /\ pc[d] = "record" /\ pc' = [pc EXCEPT ![d] = "pick"]
        /\ late' = IF now >= cur[d].next THEN late \cup {cur[d].id} ELSE late
        /\ nextRun' = IF cur[d].id \in listed THEN [nextRun EXCEPT ![cur[d].id] = cur[d].next]
                      ELSE nextRun
        /\ UNCHANGED <<now, cur, claimed, fired, repeated>>
    BY <1>10 DEF Record
  <2>2. \A c \in Daemons : /\ Holding(c)' => Holding(c)
                           /\ pc'[c] = "load" => pc[c] = "load"
    BY <1>0, <2>1 DEF TypeOK, Holding
  <2>3. nextRun'[s] = nextRun[s]
    <3>1. CASE cur[d].id # s
      BY <1>0, <2>1, <3>1 DEF TypeOK
    <3>2. CASE cur[d].id = s
      <4>1. ~(now >= cur[d].next)
        BY <2>1, <3>2
      <4>2. nextRun[s] = cur[d].next
        BY <1>2, <2>1, <3>2, <4>1 DEF HeldInv, Holding
      <4> QED BY <1>0, <2>1, <3>2, <4>2 DEF TypeOK
    <3> QED BY <3>1, <3>2
  <2> QED BY <1>0, <1>2, <2>1, <2>2, <2>3, HeldKept
<1>11. CASE UNCHANGED vars
  <2>1. UNCHANGED <<now, table, daemons, hist>>
    BY <1>11 DEF vars
  <2> QED BY <1>0, <1>2, <2>1, HeldKept DEF Holding
<1> QED BY <1>3, <1>4, <1>5, <1>6, <1>7, <1>8, <1>9, <1>10, <1>11 DEF Next, DaemonStep

-----------------------------------------------------------------------------
(* The theorems                                                            *)

LEMMA DaemonInvariant == Spec => []Inv
<1>1. Init => Inv
  <2> SUFFICES ASSUME Init PROVE Inv
    OBVIOUS
  <2>1. TypeOK
    BY DaemonTypeInit
  <2> QED BY <2>1 DEF Init, Inv, ReadInv, ClaimInv, HeldInv, Holding
<1>2. Inv /\ [Next]_vars => Inv'
  BY DaemonTypeNext, ReadNext, ClaimNext DEF Inv
<1> QED BY <1>1, <1>2, PTL DEF Spec

(***************************************************************************)
(* However many daemons poll the table, and whatever goes wrong with them, *)
(* an occurrence is fired twice only for a schedule one of whose runs      *)
(* lasted until the next occurrence.                                       *)
(***************************************************************************)
THEOREM FiredOnceUnlessLate == Spec => []OnceUnlessLate
<1>1. Inv => OnceUnlessLate
  BY DEF Inv, TypeOK, ClaimInv, OnceUnlessLate
<1> QED BY <1>1, DaemonInvariant, PTL

\* Only the record of such a run moves next_run_at back.
THEOREM RewoundOnlyByLateRuns == Spec => RewoundOnlyLate
<1>1. Inv /\ [Next]_vars => [\A s \in Schedules : nextRun'[s] < nextRun[s] => s \in late']_vars
  <2> SUFFICES ASSUME Inv, [Next]_vars, NEW s \in Schedules, s \notin late'
               PROVE  ~(nextRun'[s] < nextRun[s])
    OBVIOUS
  <2>0. /\ TypeOK /\ now \in Nat /\ now \in 0 .. Horizon /\ nextRun[s] \in Nat
        /\ nextRun'[s] \in Nat
    BY DaemonAssumption, DaemonTypeNext DEF Inv, TypeOK
  <2>1. CASE UNCHANGED nextRun
    BY <2>0, <2>1
  <2>2. ASSUME NEW r \in Schedules, Add(r) PROVE ~(nextRun'[s] < nextRun[s])
    <3>1. PICK t \in 0 .. now : nextRun[r] = 0 /\ nextRun' = [nextRun EXCEPT ![r] = Upcoming[r][t]]
      BY <2>2 DEF Add, Inv, ReadInv
    <3>2. Upcoming[r][t] \in Nat
      BY <2>0, DaemonAssumption
    <3> QED BY <2>0, <3>1, <3>2 DEF TypeOK
  <2>3. ASSUME NEW d \in Daemons, ClaimWon(d) PROVE ~(nextRun'[s] < nextRun[s])
    <3>1. /\ nextRun[cur[d].id] = cur[d].at /\ cur[d].at < cur[d].next
          /\ nextRun' = [nextRun EXCEPT ![cur[d].id] = cur[d].next]
      BY <2>3 DEF ClaimWon, Unclaimed, Inv, ReadInv
    <3>2. cur[d].at \in Nat /\ cur[d].next \in Nat
      BY <2>0 DEF TypeOK
    <3> QED BY <2>0, <3>1, <3>2 DEF TypeOK
  <2>4. ASSUME NEW d \in Daemons, Record(d) PROVE ~(nextRun'[s] < nextRun[s])
    <3>1. /\ pc[d] = "record"
          /\ late' = IF now >= cur[d].next THEN late \cup {cur[d].id} ELSE late
          /\ nextRun' = IF cur[d].id \in listed THEN [nextRun EXCEPT ![cur[d].id] = cur[d].next]
                        ELSE nextRun
      BY <2>4 DEF Record
    <3>2. CASE cur[d].id # s
      BY <2>0, <3>1, <3>2 DEF TypeOK
    <3>3. CASE cur[d].id = s
      <4>1. ~(now >= cur[d].next) /\ s \notin late
        BY <3>1, <3>3
      <4>2. nextRun[s] = cur[d].next
        BY <3>1, <3>3, <4>1 DEF Inv, ClaimInv, HeldInv, Holding
      <4> QED BY <2>0, <3>1, <3>3, <4>2 DEF TypeOK
    <3> QED BY <3>2, <3>3
  <2>5. UNCHANGED nextRun \/ (\E r \in Schedules : Add(r))
          \/ (\E d \in Daemons : ClaimWon(d) \/ Record(d))
    BY DEF Next, vars, Tick, Remove, DaemonStep, ReadDue, Rest, Pick, PassOver, ClaimLost, Start, Finish,
           Restart, GiveUp, Die, table
  <2> QED BY <2>1, <2>2, <2>3, <2>4, <2>5
<1> QED BY <1>1, DaemonInvariant, PTL DEF Spec, RewoundOnlyLate

-----------------------------------------------------------------------------
(***************************************************************************)
(* What a fault costs.  A claimed occurrence is lost when a daemon that    *)
(* holds it in "load" leaves without firing it: it holds one at a time,    *)
(* and leaves so by a fault only.                                          *)
(***************************************************************************)

Holds(d, p) == pc[d] = "load" /\ <<cur[d].id, cur[d].at>> = p

LossInv == IsFiniteSet(Lost) /\ OneLossAFault

\* Which occurrences are lost, said of the occurrence.
LEMMA LostMeans ==
  \A p : p \in Lost <=> /\ \E s \in Schedules : \E o \in claimed[s] : p = <<s, o>> /\ o \notin fired[s]
                        /\ \A d \in Daemons : ~Holds(d, p)
<1>1. \A p : p \in UNION {{s} \X claimed[s] : s \in Schedules}
               <=> \E s \in Schedules : \E o \in claimed[s] : p = <<s, o>>
  OBVIOUS
<1> QED BY <1>1 DEF Lost, Holds

\* A step that adds no loss, and one that adds at most one and is a fault.
LEMMA LossKept ==
  ASSUME TypeOK, LossInv, Lost' \subseteq Lost, faults' = faults
  PROVE  LossInv'
<1>1. IsFiniteSet(Lost') /\ Cardinality(Lost') <= Cardinality(Lost)
  BY FS_Subset DEF LossInv
<1>2. Cardinality(Lost) \in Nat /\ Cardinality(Lost') \in Nat /\ faults \in Nat
  BY <1>1, FS_CardinalityType, DaemonAssumption DEF LossInv, TypeOK
<1> QED BY <1>1, <1>2 DEF LossInv, OneLossAFault

LEMMA LossPaid ==
  ASSUME TypeOK, LossInv, NEW p, Lost' \subseteq Lost \cup {p}, faults' = faults + 1
  PROVE  LossInv'
<1>1. /\ IsFiniteSet(Lost \cup {p})
      /\ Cardinality(Lost \cup {p}) <= Cardinality(Lost) + 1
  <2>1. Cardinality(Lost) \in Nat
    BY FS_CardinalityType DEF LossInv
  <2> QED BY <2>1, FS_AddElement DEF LossInv
<1>2. IsFiniteSet(Lost') /\ Cardinality(Lost') <= Cardinality(Lost \cup {p})
  BY <1>1, FS_Subset
<1>3. /\ Cardinality(Lost) \in Nat /\ Cardinality(Lost \cup {p}) \in Nat
      /\ Cardinality(Lost') \in Nat /\ faults \in Nat
  BY <1>1, <1>2, FS_CardinalityType, DaemonAssumption DEF LossInv, TypeOK
<1> QED BY <1>1, <1>2, <1>3 DEF LossInv, OneLossAFault

LEMMA LossNext == TypeOK /\ LossInv /\ [Next]_vars => LossInv'
<1> SUFFICES ASSUME TypeOK, LossInv, [Next]_vars PROVE LossInv'
  OBVIOUS
<1> USE DEF Goto, table, daemons, hist
<1>1. ASSUME UNCHANGED <<faults, claimed, fired>>,
             \A d \in Daemons : pc[d] = "load" => pc'[d] = "load" /\ cur'[d] = cur[d]
      PROVE  LossInv'
  <2>1. Lost' \subseteq Lost
    BY <1>1, LostMeans DEF Lost, Holds
  <2> QED BY <1>1, <2>1, LossKept
<1>2. CASE Tick \/ (\E s \in Schedules : Add(s) \/ Remove(s)) \/ UNCHANGED vars
  <2>1. UNCHANGED <<faults, claimed, fired, pc, cur>>
    BY <1>2 DEF Tick, Add, Remove, vars
  <2> QED BY <2>1, <1>1
<1>3. ASSUME NEW d \in Daemons, ReadDue(d) \/ Rest(d) \/ Pick(d) \/ PassOver(d) \/ ClaimLost(d)
                                 \/ Finish(d) \/ Record(d) \/ Restart(d)
      PROVE LossInv'
  <2>1. UNCHANGED <<faults, claimed, fired>>
    BY <1>3 DEF ReadDue, Rest, Pick, PassOver, ClaimLost, Finish, Record, Restart
  <2>2. pc[d] # "load" /\ \A c \in Daemons \ {d} : pc'[c] = pc[c] /\ cur'[c] = cur[c]
    BY <1>3 DEF ReadDue, Rest, Pick, PassOver, ClaimLost, Finish, Record, Restart, TypeOK
  <2> QED BY <2>1, <2>2, <1>1
<1>4. ASSUME NEW d \in Daemons, ClaimWon(d) PROVE LossInv'
  <2>1. /\ pc[d] = "claim" /\ pc'[d] = "load" /\ \A c \in Daemons \ {d} : pc'[c] = pc[c]
        /\ \A s \in Schedules : claimed'[s] = IF s = cur[d].id THEN claimed[s] \cup {cur[d].at}
                                              ELSE claimed[s]
        /\ UNCHANGED <<cur, faults, fired>>
    BY <1>4 DEF ClaimWon, TypeOK
  <2>2. ASSUME NEW p \in Lost' PROVE p \in Lost
    <3>0. PICK s \in Schedules : \E o \in claimed'[s] : p = <<s, o>> /\ o \notin fired[s]
      BY <2>1 DEF Lost
    <3>1. PICK o \in claimed'[s] : p = <<s, o>> /\ o \notin fired[s]
      BY <3>0
    <3>2. \A c \in Daemons : ~Holds(c, p)'
      BY DEF Lost, Holds
    <3>3. p # <<cur[d].id, cur[d].at>>
      BY <2>1, <3>2 DEF Holds
    <3>4. o \in claimed[s]
      BY <2>1, <3>1, <3>3
    <3>5. \A c \in Daemons : ~Holds(c, p)
      BY <2>1, <3>2 DEF Holds
    <3> QED BY <3>1, <3>4, <3>5, LostMeans
  <2> QED BY <2>1, <2>2, LossKept
<1>5. ASSUME NEW d \in Daemons, Start(d) PROVE LossInv'
  <2>1. /\ pc[d] = "load" /\ \A c \in Daemons \ {d} : pc'[c] = pc[c]
        /\ \A s \in Schedules : fired'[s] = IF s = cur[d].id THEN fired[s] \cup {cur[d].at}
                                            ELSE fired[s]
        /\ UNCHANGED <<cur, faults, claimed>>
    BY <1>5 DEF Start, TypeOK
  <2>2. ASSUME NEW p \in Lost' PROVE p \in Lost
    <3>0. PICK s \in Schedules : \E o \in claimed[s] : p = <<s, o>> /\ o \notin fired'[s]
      BY <2>1 DEF Lost
    <3>1. PICK o \in claimed[s] : p = <<s, o>> /\ o \notin fired'[s]
      BY <3>0
    <3>2. o \notin fired[s] /\ p # <<cur[d].id, cur[d].at>>
      BY <2>1, <3>1
    <3>3. \A c \in Daemons : ~Holds(c, p)
      BY <2>1, <3>2 DEF Lost, Holds
    <3> QED BY <3>1, <3>2, <3>3, LostMeans
  <2> QED BY <2>1, <2>2, LossKept
<1>6. ASSUME NEW d \in Daemons, GiveUp(d) \/ Die(d) PROVE LossInv'
  <2>1. /\ faults' = faults + 1 /\ UNCHANGED <<cur, claimed, fired>>
        /\ \A c \in Daemons \ {d} : pc'[c] = pc[c]
    BY <1>6 DEF GiveUp, Die, TypeOK
  <2>2. Lost' \subseteq Lost \cup {<<cur[d].id, cur[d].at>>}
    <3> SUFFICES ASSUME NEW p \in Lost', p # <<cur[d].id, cur[d].at>> PROVE p \in Lost
      OBVIOUS
    <3>0. PICK s \in Schedules : \E o \in claimed[s] : p = <<s, o>> /\ o \notin fired[s]
      BY <2>1 DEF Lost
    <3>1. PICK o \in claimed[s] : p = <<s, o>> /\ o \notin fired[s]
      BY <3>0
    <3>2. \A c \in Daemons : ~Holds(c, p)
      BY <2>1 DEF Lost, Holds
    <3> QED BY <3>1, <3>2, LostMeans
  <2> QED BY <2>1, <2>2, LossPaid
<1> QED BY <1>2, <1>3, <1>4, <1>5, <1>6 DEF Next, DaemonStep

(***************************************************************************)
(* However many daemons claim, die and come back: no more occurrences that *)
(* were claimed are lost than there have been faults.                      *)
(***************************************************************************)
THEOREM AFaultLosesOne == Spec => []OneLossAFault
<1>1. Init => LossInv
  <2> SUFFICES ASSUME Init PROVE LossInv
    OBVIOUS
  <2>1. Lost = {}
    BY LostMeans DEF Init
  <2> QED BY <2>1, FS_EmptySet DEF Init, LossInv, OneLossAFault
<1>2. Inv /\ LossInv /\ [Next]_vars => LossInv'
  BY LossNext DEF Inv
<1>3. LossInv => OneLossAFault
  BY DEF LossInv
<1> QED BY <1>1, <1>2, <1>3, DaemonInvariant, PTL DEF Spec

-----------------------------------------------------------------------------
(***************************************************************************)
(* The other command that stays: `fluxion watch`, of module Watch.         *)
(* A save is on its way until the main loop has read the file after it.    *)
(* The count bounds what may be on its way, and with it the queue between  *)
(* the watcher and its thread, which the code does not bound.              *)
(***************************************************************************)

\* What is still to become a reading: events, one that was seen, the rest of a save.
Seen == IF lastChange /\ main = "select" THEN 1 ELSE 0
Half == IF file = Torn THEN 1 ELSE 0
CountInv == OnTheWay + Seen + Half <= 2 * saves

WatchInv == WatchTypeOK /\ CountInv /\ SaveIsNotForgotten

Numbers ==
  /\ file \in 0 .. MaxSaves \cup {Torn} /\ read \in 0 .. MaxSaves \cup {Torn}
  /\ saves \in 0 .. MaxSaves /\ raw \in Nat /\ chan \in 0 .. Capacity
Flags ==
  /\ thread \in {"setup", "check", "recv", "send", "ended"}
  /\ main \in {"select", "run", "returned"}
  /\ shutdown \in BOOLEAN /\ lastChange \in BOOLEAN /\ opens \in BOOLEAN /\ missed \in BOOLEAN

LEMMA WatchInvInit == WatchInit => WatchInv
<1> SUFFICES ASSUME WatchInit PROVE WatchInv
  OBVIOUS
<1>1. Torn # 0 /\ OnTheWay = 0
  BY WatchAssumption DEF WatchInit, Torn, OnTheWay
<1>2. Numbers
  BY WatchAssumption DEF WatchInit, Numbers
<1>3. Flags
  BY DEF WatchInit, Flags
<1>4. CountInv
  BY <1>1 DEF WatchInit, CountInv, Seen, Half
<1> QED BY <1>2, <1>3, <1>4 DEF WatchTypeOK, Numbers, Flags, WatchInit, WatchInv, SaveIsNotForgotten

LEMMA WatchInvNext == WatchInv /\ [WatchNext]_watchVars => WatchInv'
<1> SUFFICES ASSUME WatchInv, [WatchNext]_watchVars PROVE WatchInv'
  OBVIOUS
<1> USE WatchAssumption DEF WatchInv
<1>1. CASE BeginSave \/ EndSave \/ Replace
  <2> USE <1>1 DEF BeginSave, EndSave, Replace, Event
  <2>1. CountInv'
    BY DEF CountInv, Seen, Half, Torn, OnTheWay, WatchTypeOK
  <2>2. Numbers'
    BY DEF Numbers, Torn, WatchTypeOK
  <2>3. Flags'
    BY DEF Flags, WatchTypeOK
  <2>4. SaveIsNotForgotten'
    <3>1. CASE thread = "setup"
      <4>1. missed'
        BY <3>1
      <4> QED BY <4>1 DEF SaveIsNotForgotten
    <3>2. CASE thread = "ended"
      <4>1. thread' = "ended"
        BY <3>2
      <4> QED BY <4>1 DEF SaveIsNotForgotten
    <3>3. CASE thread \notin {"setup", "ended"}
      <4>1. OnTheWay' > 0
        BY <3>3 DEF OnTheWay, WatchTypeOK
      <4> QED BY <4>1 DEF SaveIsNotForgotten
    <3> QED BY <3>1, <3>2, <3>3
  <2> QED BY <2>1, <2>2, <2>3, <2>4 DEF WatchTypeOK, Numbers, Flags
<1>2. CASE SetUp \/ CheckShutdown \/ ThreadReceives \/ Forward \/ WatcherFails
  <2> USE <1>2 DEF SetUp, CheckShutdown, ThreadReceives, Forward, WatcherFails
  <2>1. CountInv'
    BY DEF CountInv, Seen, Half, Torn, OnTheWay, WatchTypeOK
  <2>2. Numbers'
    BY DEF Numbers, Torn, WatchTypeOK
  <2>3. Flags'
    BY DEF Flags, WatchTypeOK
  <2>4. SaveIsNotForgotten'
    BY DEF SaveIsNotForgotten, OnTheWay, WatchTypeOK
  <2> QED BY <2>1, <2>2, <2>3, <2>4 DEF WatchTypeOK, Numbers, Flags
<1>3. CASE ChangeReceived \/ Debounced \/ RunEnds \/ Interrupted
  <2> USE <1>3 DEF ChangeReceived, Debounced, RunEnds, Interrupted
  <2>1. CountInv'
    BY DEF CountInv, Seen, Half, Torn, OnTheWay, WatchTypeOK
  <2>2. Numbers'
    BY DEF Numbers, Torn, WatchTypeOK
  <2>3. Flags'
    BY DEF Flags, WatchTypeOK
  <2>4. SaveIsNotForgotten'
    BY DEF SaveIsNotForgotten, OnTheWay, WatchTypeOK
  <2> QED BY <2>1, <2>2, <2>3, <2>4 DEF WatchTypeOK, Numbers, Flags
<1>4. CASE UNCHANGED watchVars
  BY <1>4 DEF watchVars, WatchTypeOK, OnTheWay, Torn, CountInv, Seen, Half, SaveIsNotForgotten
<1> QED BY <1>1, <1>2, <1>3, <1>4 DEF WatchNext, ThreadStep, MainStep

\* The watcher's variables have their types in every behaviour.
THEOREM WatchTypeCorrect == WatchSpec => []WatchTypeOK
<1>1. WatchInv => WatchTypeOK
  BY DEF WatchInv
<1> QED BY <1>1, WatchInvInit, WatchInvNext, PTL DEF WatchSpec

\* A save is not forgotten, also when it comes during a run or is read half: as
\* long as the file is another than the loop last read, an event is on its way.
THEOREM SavesAreNotForgotten == WatchSpec => []SaveIsNotForgotten
<1>1. WatchInv => SaveIsNotForgotten
  BY DEF WatchInv
<1> QED BY <1>1, WatchInvInit, WatchInvNext, PTL DEF WatchSpec

\* Nor do the events multiply where the loop's own reading makes one: there are
\* never more on the way than the writes of the file have made.
THEOREM EventsDoNotMultiply == WatchSpec => [](OnTheWay <= 2 * saves)
<1>1. WatchInv => OnTheWay <= 2 * saves
  BY DEF WatchInv, CountInv, Seen, Half, OnTheWay, WatchTypeOK
<1> QED BY <1>1, WatchInvInit, WatchInvNext, PTL DEF WatchSpec
=============================================================================
