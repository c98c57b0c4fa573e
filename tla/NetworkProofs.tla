--------------------------- MODULE NetworkProofs ---------------------------
(***************************************************************************)
(* What network.allow guarantees for any number of jobs, names, addresses  *)
(* and lists, and any time to live: a guest may connect only to what its   *)
(* list names or is read as naming, to all the addresses in it, and a      *)
(* fresh entry of the cache was true a lookup before its time stamp at the *)
(* most.                                                                   *)
(*                                                                         *)
(* `last` only grows: what a text, an answer on its way or an entry of the *)
(* cache owes its address to stays so, whoever looks up what in between.   *)
(***************************************************************************)
EXTENDS NetworkAllow, TLAPS

(***************************************************************************)
(* The invariant                                                           *)
(***************************************************************************)

\* What the DNS says was last so now, and nothing was last so in the future.
LastInv ==
  /\ \A n \in Names, i \in Ips : last[n][i] <= clock
  /\ \A n \in Names : \A i \in dns[n] : last[n][i] = clock

\* The cache holds addresses the names once had, stamped in the past.
CacheInv ==
  \A e \in Hosts : cache[e].at <= clock /\ \A i \in cache[e].ips : last[e.target][i] >= 0

\* A name has had this address, and not too long before the job began.
HadLately(j, n, i) == Lately(j, last[n][i])

\* An entry of the job's list is the text's reason.
Justified(j, t) ==
  \E e \in Allow[j] :
    /\ e.port = t.port
    /\ \/ t.listed /\ e.target = t.ip
       \/ ~t.listed /\ e.target \in Names /\ HadLately(j, e.target, t.ip)

\* A lookup is of an entry of the list and within the resolver's patience.
LookupInv(j) ==
  /\ asking[j].entry \in Allow[j] /\ asking[j].entry.target \in Names
  /\ asking[j].since >= begun[j] /\ asking[j].since <= clock /\ clock - asking[j].since <= MaxLookup
  /\ \A i \in asking[j].ips : last[asking[j].entry.target][i] >= asking[j].since

\* The address of an entry stands in the list so far, as it was written.
Passed(j, e) == [ip |-> e.target, port |-> e.port, listed |-> TRUE] \in out[j]

JobInv(j) ==
  /\ begun[j] <= clock
  /\ todo[j] \subseteq Allow[j]
  /\ LookingUp(j) => LookupInv(j)
  /\ \A t \in out[j] : Justified(j, t)
  /\ phase[j] # "idle" => \A e \in Allow[j] \ todo[j] : e.target \in Ips => Passed(j, e)
  /\ phase[j] \in {"running", "refused"} => todo[j] = {}
  /\ phase[j] = "refused" => out[j] # {} /\ Entries(j) = {}

IInv ==
  /\ TypeOK /\ LastInv /\ CacheInv /\ CacheTruthful
  /\ \A j \in Jobs : JobInv(j)

-----------------------------------------------------------------------------
(* What time does                                                          *)

\* What everybody may rely on.
LastGrows ==
  /\ last' \in [Names -> [Ips -> -1 .. MaxTime]]
  /\ \A n \in Names, i \in Ips : last'[n][i] >= last[n][i]

LEMMA ClockTypes ==
  ASSUME TypeOK
  PROVE  /\ clock \in Int /\ MaxTime \in Int /\ TTL \in Nat /\ MaxLookup \in Nat
         /\ \A n \in Names, i \in Ips : last[n][i] \in Int
         /\ \A j \in Jobs : begun[j] \in Nat
         /\ \A e \in Hosts : cache[e].at \in Int /\ cache[e].ips \subseteq Ips
<1>1. clock \in Int /\ MaxTime \in Int /\ TTL \in Nat /\ MaxLookup \in Nat
  BY NetworkAssumption DEF TypeOK
<1>2. \A n \in Names, i \in Ips : last[n][i] \in Int
  <2> TAKE n \in Names, i \in Ips
  <2>1. last[n] \in [Ips -> -1 .. MaxTime]
    BY DEF TypeOK
  <2>2. last[n][i] \in -1 .. MaxTime
    BY <2>1
  <2> QED BY <1>1, <2>2
<1>3. \A j \in Jobs : begun[j] \in Nat
  <2> TAKE j \in Jobs
  <2>1. begun[j] \in 0 .. MaxTime
    BY DEF TypeOK
  <2> QED BY <1>1, <2>1
<1>4. \A e \in Hosts : cache[e].at \in Int /\ cache[e].ips \subseteq Ips
  BY DEF TypeOK
<1> QED BY <1>1, <1>2, <1>3, <1>4

LEMMA ListsAreEntries ==
  ASSUME NEW j \in Jobs, NEW e \in Allow[j]
  PROVE  e \in Entry /\ (e.target \in Names => e \in Hosts)
BY NetworkAssumption DEF Hosts

\* A text that had its reason still has it.
LEMMA JustifiedStays ==
  ASSUME TypeOK, LastGrows, NEW j \in Jobs, begun'[j] = begun[j],
         NEW t \in Text, Justified(j, t)
  PROVE  Justified(j, t)'
<1>1. PICK e \in Allow[j] :
        /\ e.port = t.port
        /\ \/ t.listed /\ e.target = t.ip
           \/ ~t.listed /\ e.target \in Names /\ HadLately(j, e.target, t.ip)
  BY DEF Justified
<1>2. CASE t.listed /\ e.target = t.ip
  BY <1>1, <1>2 DEF Justified
<1>3. CASE ~t.listed /\ e.target \in Names /\ HadLately(j, e.target, t.ip)
  <2>1. t.ip \in Ips
    BY DEF Text
  <2>2. /\ last[e.target][t.ip] \in Int /\ last'[e.target][t.ip] \in Int
        /\ last'[e.target][t.ip] >= last[e.target][t.ip]
        /\ begun[j] \in Nat /\ TTL \in Nat /\ MaxLookup \in Nat
    BY <1>3, <2>1, ClockTypes DEF LastGrows
  <2>3. last'[e.target][t.ip] >= 0 /\ last'[e.target][t.ip] >= begun[j] - TTL - MaxLookup
    BY <1>3, <2>2 DEF HadLately, Lately
  <2> QED BY <1>1, <1>3, <2>3 DEF Justified, HadLately, Lately
<1> QED BY <1>1, <1>2, <1>3

\* A job that does not move keeps what is so of it.
LEMMA BystanderKeeps ==
  ASSUME TypeOK, LastGrows, NEW j \in Jobs, JobInv(j),
         phase'[j] = phase[j], begun'[j] = begun[j], todo'[j] = todo[j],
         asking'[j] = asking[j], out'[j] = out[j],
         clock' \in Int, clock' >= clock,
         LookingUp(j) => clock' - asking[j].since <= MaxLookup
  PROVE  JobInv(j)'
<1>1. begun'[j] <= clock'
  BY ClockTypes DEF JobInv
<1>2. LookingUp(j)' => LookupInv(j)'
  <2> SUFFICES ASSUME LookingUp(j)
               PROVE  LookupInv(j)'
    BY DEF LookingUp
  <2>1. LookupInv(j)
    BY DEF JobInv
  <2>2. asking[j].since \in Int /\ asking[j].ips \subseteq Ips
    BY DEF TypeOK, Idle
  <2>3. asking[j].since <= clock'
    BY <2>1, <2>2, ClockTypes DEF LookupInv
  <2>4. \A i \in asking[j].ips : last'[asking[j].entry.target][i] >= asking[j].since
    <3> TAKE i \in asking[j].ips
    <3> DEFINE n == asking[j].entry.target
    <3>1. n \in Names /\ i \in Ips /\ last[n][i] >= asking[j].since
      BY <2>1, <2>2 DEF LookupInv
    <3>2. last[n][i] \in Int /\ last'[n][i] \in Int /\ last'[n][i] >= last[n][i]
      BY <3>1, ClockTypes DEF LastGrows
    <3> HIDE DEF n
    <3>3. last'[n][i] >= asking[j].since
      BY <2>2, <3>1, <3>2
    <3> QED BY <3>3 DEF n
  <2> QED BY <2>1, <2>3, <2>4 DEF LookupInv
<1>3. \A t \in out'[j] : Justified(j, t)'
  <2> TAKE t \in out'[j]
  <2>1. t \in Text /\ Justified(j, t)
    BY DEF TypeOK, JobInv
  <2> QED BY <2>1, JustifiedStays
<1>4. phase'[j] = "refused" => out'[j] # {} /\ Entries(j)' = {}
  BY DEF JobInv, Entries
<1>5. /\ phase'[j] # "idle" => \A e \in Allow[j] \ todo'[j] : e.target \in Ips => Passed(j, e)'
      /\ phase'[j] \in {"running", "refused"} => todo'[j] = {}
  BY DEF JobInv, Passed
<1> QED BY <1>1, <1>2, <1>3, <1>4, <1>5 DEF JobInv

\* The cache, unchanged, owes its addresses what it did.
LEMMA CacheStays ==
  ASSUME TypeOK, LastGrows, cache' = cache, clock' \in Int, clock' >= clock,
         CacheInv, CacheTruthful
  PROVE  CacheInv' /\ CacheTruthful'
<1>1. \A e \in Hosts : e.target \in Names
  BY DEF Hosts
<1>2. \A e \in Hosts : \A i \in cache[e].ips :
        /\ last[e.target][i] \in Int /\ last'[e.target][i] \in Int
        /\ last'[e.target][i] >= last[e.target][i]
  BY <1>1, ClockTypes DEF LastGrows
<1>3. \A e \in Hosts : cache[e].at \in Int /\ clock \in Int /\ MaxLookup \in Int
  BY ClockTypes
<1>4. \A e \in Hosts : cache'[e].at <= clock'
  BY <1>3 DEF CacheInv
<1>5. \A e \in Hosts : \A i \in cache'[e].ips : last'[e.target][i] >= 0
  BY <1>2 DEF CacheInv
<1>6. \A e \in Hosts : \A i \in cache'[e].ips : last'[e.target][i] >= cache'[e].at - MaxLookup
  BY <1>2, <1>3 DEF CacheTruthful
<1> QED BY <1>4, <1>5, <1>6 DEF CacheInv, CacheTruthful

-----------------------------------------------------------------------------
(* What a step of a job does                                               *)

Phases  == {"idle", "resolve", "asking", "answered", "running", "refused"}
Lookups == [entry : Entry, since : 0 .. MaxTime, ips : SUBSET Ips]

\* A job's step to a place; it says nothing of what it found out.
Moves(j, l) ==
  /\ UNCHANGED <<clock, dns, last, changes>>
  /\ l \in Phases /\ phase' = [phase EXCEPT ![j] = l]
  /\ begun' = begun \/ begun' = [begun EXCEPT ![j] = clock]
  /\ todo' = todo \/ \E es \in SUBSET Entry : todo' = [todo EXCEPT ![j] = es]
  /\ \E a \in Lookups \cup {Idle} :
       /\ asking' = [asking EXCEPT ![j] = a]
       /\ a = Idle <=> l \notin {"asking", "answered"}
  /\ out' = out \/ \E ts \in SUBSET Text : out' = [out EXCEPT ![j] = ts]

LEMMA MoveEffect ==
  ASSUME TypeOK, NEW j \in Jobs, NEW l, Moves(j, l),
         cache' \in [Hosts -> [ips : SUBSET Ips, at : -1 .. MaxTime]]
  PROVE  /\ TypeOK' /\ phase'[j] = l
         /\ \A k \in Jobs \ {j} : /\ phase'[k] = phase[k] /\ begun'[k] = begun[k] /\ todo'[k] = todo[k]
                                  /\ asking'[k] = asking[k] /\ out'[k] = out[k]
<1>1. /\ clock \in 0 .. MaxTime /\ phase \in [Jobs -> Phases] /\ begun \in [Jobs -> 0 .. MaxTime]
      /\ todo \in [Jobs -> SUBSET Entry] /\ asking \in [Jobs -> Lookups \cup {Idle}]
      /\ out \in [Jobs -> SUBSET Text]
  BY DEF TypeOK, Phases, Lookups
<1>2. phase' \in [Jobs -> Phases] /\ phase'[j] = l /\ \A k \in Jobs \ {j} : phase'[k] = phase[k]
  BY <1>1 DEF Moves
<1>3. begun' \in [Jobs -> 0 .. MaxTime] /\ \A k \in Jobs \ {j} : begun'[k] = begun[k]
  BY <1>1 DEF Moves
<1>4. todo' \in [Jobs -> SUBSET Entry] /\ \A k \in Jobs \ {j} : todo'[k] = todo[k]
  BY <1>1 DEF Moves
<1>5. out' \in [Jobs -> SUBSET Text] /\ \A k \in Jobs \ {j} : out'[k] = out[k]
  BY <1>1 DEF Moves
<1>6. PICK a \in Lookups \cup {Idle} :
        /\ asking' = [asking EXCEPT ![j] = a]
        /\ a = Idle <=> l \notin {"asking", "answered"}
  BY DEF Moves
<1>7. asking' \in [Jobs -> Lookups \cup {Idle}] /\ asking'[j] = a /\ \A k \in Jobs \ {j} : asking'[k] = asking[k]
  BY <1>1, <1>6
<1>8. \A k \in Jobs : asking'[k] = Idle <=> phase'[k] \notin {"asking", "answered"}
  <2> TAKE k \in Jobs
  <2>1. CASE k = j
    BY <1>2, <1>6, <1>7, <2>1
  <2>2. CASE k # j
    <3>1. asking[k] = Idle <=> phase[k] \notin {"asking", "answered"}
      BY DEF TypeOK, LookingUp
    <3> QED BY <1>2, <1>7, <2>2, <3>1
  <2> QED BY <2>1, <2>2
<1>9. /\ clock' \in 0 .. MaxTime /\ changes' \in 0 .. MaxChanges /\ dns' \in [Names -> SUBSET Ips]
      /\ last' \in [Names -> [Ips -> -1 .. MaxTime]]
  BY DEF Moves, TypeOK
<1>10. TypeOK'
  BY <1>2, <1>3, <1>4, <1>5, <1>7, <1>8, <1>9 DEF TypeOK, Phases, Lookups, LookingUp, Idle
<1> QED BY <1>2, <1>3, <1>4, <1>5, <1>7, <1>10

\* A job's step: what is left is what it makes of the job and of the cache.
LEMMA MoveKeeps ==
  ASSUME IInv, NEW j \in Jobs, NEW l, Moves(j, l),
         cache' \in [Hosts -> [ips : SUBSET Ips, at : -1 .. MaxTime]],
         CacheInv', CacheTruthful', JobInv(j)'
  PROVE  IInv'
<1>1. TypeOK /\ TypeOK'
  BY MoveEffect DEF IInv
<1>2. LastInv'
  BY DEF IInv, LastInv, Moves
<1>3. LastGrows
  BY <1>1, ClockTypes DEF LastGrows, TypeOK, Moves
<1>4. \A k \in Jobs : JobInv(k)'
  <2> TAKE k \in Jobs
  <2>1. CASE k = j
    BY <2>1
  <2>2. CASE k # j
    <3>1. /\ phase'[k] = phase[k] /\ begun'[k] = begun[k] /\ todo'[k] = todo[k]
          /\ asking'[k] = asking[k] /\ out'[k] = out[k]
      BY <1>1, <2>2, MoveEffect
    <3>2. clock' = clock /\ clock \in Int
      BY <1>1, ClockTypes DEF Moves
    <3>3. JobInv(k)
      BY DEF IInv
    <3>4. LookingUp(k) => clock' - asking[k].since <= MaxLookup
      BY <3>2, <3>3 DEF JobInv, LookupInv
    <3> QED BY <1>1, <1>3, <3>1, <3>2, <3>3, <3>4, BystanderKeeps
  <2> QED BY <2>1, <2>2
<1> QED BY <1>1, <1>2, <1>4 DEF IInv

\* A step that leaves the cache alone.
LEMMA QuietKeeps ==
  ASSUME IInv, NEW j \in Jobs, NEW l, Moves(j, l), cache' = cache, JobInv(j)'
  PROVE  IInv'
<1>1. cache' \in [Hosts -> [ips : SUBSET Ips, at : -1 .. MaxTime]]
  BY DEF IInv, TypeOK
<1>2. CacheInv' /\ CacheTruthful'
  BY DEF IInv, CacheInv, CacheTruthful, Moves
<1> QED BY <1>1, <1>2, MoveKeeps

-----------------------------------------------------------------------------
(* The time and the DNS                                                    *)

LEMMA TickKeeps ==
  ASSUME IInv, Tick
  PROVE  IInv'
<1> USE DEF jobVars
<1>1. TypeOK /\ clock \in Int /\ MaxTime \in Int
  BY ClockTypes DEF IInv
<1>2. clock' = clock + 1 /\ clock' \in 0 .. MaxTime
  BY <1>1 DEF Tick, TypeOK
<1>3. last' \in [Names -> [Ips -> -1 .. MaxTime]]
  BY <1>1, <1>2 DEF Tick, TypeOK
<1>4. TypeOK'
  BY <1>1, <1>2, <1>3 DEF Tick, TypeOK, LookingUp
<1>5. \A n \in Names, i \in Ips : last'[n][i] = IF i \in dns[n] THEN clock + 1 ELSE last[n][i]
  BY DEF Tick
<1>6. \A n \in Names, i \in Ips : last[n][i] \in Int /\ last[n][i] <= clock
  BY <1>1, ClockTypes DEF IInv, LastInv
<1>7. LastGrows
  BY <1>1, <1>3, <1>5, <1>6 DEF LastGrows
<1>8. LastInv'
  <2>1. \A n \in Names, i \in Ips : last'[n][i] <= clock'
    BY <1>1, <1>2, <1>5, <1>6
  <2>2. \A n \in Names : dns'[n] = dns[n] /\ dns[n] \subseteq Ips
    BY <1>1 DEF Tick, TypeOK
  <2>3. \A n \in Names : \A i \in dns'[n] : last'[n][i] = clock'
    BY <1>2, <1>5, <2>2
  <2> QED BY <2>1, <2>3 DEF LastInv
<1>9. CacheInv' /\ CacheTruthful'
  BY <1>1, <1>2, <1>7, CacheStays DEF IInv, Tick
<1>10. \A j \in Jobs : JobInv(j)'
  <2> TAKE j \in Jobs
  <2>1. /\ phase'[j] = phase[j] /\ begun'[j] = begun[j] /\ todo'[j] = todo[j]
        /\ asking'[j] = asking[j] /\ out'[j] = out[j]
    BY DEF Tick
  <2>2. LookingUp(j) => clock' - asking[j].since <= MaxLookup
    <3> SUFFICES ASSUME LookingUp(j)
                 PROVE  clock' - asking[j].since <= MaxLookup
      OBVIOUS
    <3>1. clock - asking[j].since < MaxLookup
      BY DEF Tick
    <3>2. asking[j].since \in Int /\ MaxLookup \in Int
      BY <1>1, ClockTypes DEF TypeOK, Idle
    <3> QED BY <1>1, <1>2, <3>1, <3>2
  <2>3. JobInv(j)
    BY DEF IInv
  <2> QED BY <1>1, <1>2, <1>7, <2>1, <2>2, <2>3, BystanderKeeps
<1> QED BY <1>4, <1>8, <1>9, <1>10 DEF IInv

LEMMA RenumberKeeps ==
  ASSUME IInv, NEW n \in Names, NEW S \in SUBSET Ips, Renumber(n, S)
  PROVE  IInv'
<1> USE DEF jobVars
<1>1. TypeOK /\ clock \in Int /\ MaxTime \in Int
  BY ClockTypes DEF IInv
<1>2. clock' = clock /\ clock \in 0 .. MaxTime
  BY <1>1 DEF Renumber, TypeOK
<1>3. /\ last' = [last EXCEPT ![n] = [i \in Ips |-> IF i \in S THEN clock ELSE last[n][i]]]
      /\ last \in [Names -> [Ips -> -1 .. MaxTime]]
  BY <1>1 DEF Renumber, TypeOK
<1>4. [i \in Ips |-> IF i \in S THEN clock ELSE last[n][i]] \in [Ips -> -1 .. MaxTime]
  <2>1. last[n] \in [Ips -> -1 .. MaxTime] /\ clock \in -1 .. MaxTime
    BY <1>1, <1>2, <1>3
  <2> QED BY <2>1
<1>5. last' \in [Names -> [Ips -> -1 .. MaxTime]]
  BY <1>3, <1>4
<1>6. \A m \in Names, i \in Ips : last'[m][i] = IF m = n /\ i \in S THEN clock ELSE last[m][i]
  BY <1>3
<1>7. changes' \in 0 .. MaxChanges /\ dns' \in [Names -> SUBSET Ips]
  BY <1>1, NetworkAssumption DEF Renumber, TypeOK
<1>8. TypeOK'
  BY <1>1, <1>2, <1>5, <1>7 DEF Renumber, TypeOK, LookingUp
<1>9. \A m \in Names, i \in Ips : last[m][i] \in Int /\ last[m][i] <= clock
  BY <1>1, ClockTypes DEF IInv, LastInv
<1>10. LastGrows
  BY <1>1, <1>5, <1>6, <1>9 DEF LastGrows
<1>11. LastInv'
  <2>1. \A m \in Names, i \in Ips : last'[m][i] <= clock'
    BY <1>1, <1>2, <1>6, <1>9
  <2>2. \A m \in Names : dns'[m] = IF m = n THEN S ELSE dns[m]
    BY <1>1 DEF Renumber, TypeOK
  <2>3. \A m \in Names : dns[m] \subseteq Ips /\ \A i \in dns[m] : last[m][i] = clock
    BY <1>1 DEF IInv, LastInv, TypeOK
  <2>4. \A m \in Names : \A i \in dns'[m] : last'[m][i] = clock'
    BY <1>2, <1>6, <2>2, <2>3
  <2> QED BY <2>1, <2>4 DEF LastInv
<1>12. CacheInv' /\ CacheTruthful'
  BY <1>1, <1>2, <1>10, CacheStays DEF IInv, Renumber
<1>13. \A j \in Jobs : JobInv(j)'
  <2> TAKE j \in Jobs
  <2>1. /\ phase'[j] = phase[j] /\ begun'[j] = begun[j] /\ todo'[j] = todo[j]
        /\ asking'[j] = asking[j] /\ out'[j] = out[j]
    BY DEF Renumber
  <2>2. JobInv(j)
    BY DEF IInv
  <2>3. LookingUp(j) => clock' - asking[j].since <= MaxLookup
    BY <1>2, <2>2 DEF JobInv, LookupInv
  <2> QED BY <1>1, <1>2, <1>10, <2>1, <2>2, <2>3, BystanderKeeps
<1> QED BY <1>8, <1>11, <1>12, <1>13 DEF IInv

-----------------------------------------------------------------------------
(* The steps of a job                                                      *)

LEMMA JobFacts ==
  ASSUME IInv, NEW j \in Jobs
  PROVE  /\ TypeOK /\ JobInv(j) /\ Allow[j] \in SUBSET Entry
         /\ clock \in 0 .. MaxTime /\ begun[j] \in 0 .. MaxTime
         /\ todo[j] \in SUBSET Entry /\ out[j] \in SUBSET Text
         /\ asking \in [Jobs -> Lookups \cup {Idle}] /\ asking[j] \in Lookups \cup {Idle}
         /\ asking[j] = Idle <=> ~LookingUp(j)
<1>1. TypeOK /\ JobInv(j) /\ Allow[j] \in SUBSET Entry
  BY NetworkAssumption DEF IInv
<1> QED BY <1>1 DEF TypeOK, Lookups

LEMMA BeginKeeps ==
  ASSUME IInv, NEW j \in Jobs, Begin(j)
  PROVE  IInv'
<1>1. /\ TypeOK /\ Allow[j] \in SUBSET Entry /\ asking[j] = Idle
      /\ asking \in [Jobs -> Lookups \cup {Idle}]
  BY JobFacts DEF Begin, LookingUp
<1>2. asking' = [asking EXCEPT ![j] = Idle]
  BY <1>1 DEF Begin
<1>3. Moves(j, "resolve") /\ cache' = cache
  BY <1>1, <1>2 DEF Moves, Begin, Phases
<1>4. phase'[j] = "resolve" /\ begun'[j] = clock /\ todo'[j] = Allow[j] /\ out'[j] = {} /\ clock' = clock
  BY <1>1 DEF Begin, TypeOK
<1>5. clock \in Int
  BY <1>1, ClockTypes
<1>6. JobInv(j)'
  BY <1>4, <1>5 DEF JobInv, LookingUp
<1> QED BY <1>3, <1>6, QuietKeeps

LEMMA TextsAreTexts ==
  ASSUME NEW e \in Entry, NEW ips \in SUBSET Ips, NEW listed \in BOOLEAN
  PROVE  /\ Texts(ips, e, listed) \in SUBSET Text
         /\ \A t \in Texts(ips, e, listed) : t.ip \in ips /\ t.port = e.port /\ t.listed = listed
<1>1. e.port \in Ports \cup {Any}
  BY DEF Entry
<1>2. \A i \in ips : [ip |-> i, port |-> e.port, listed |-> listed] \in Text
  BY <1>1, Zenon DEF Text
<1>3. Texts(ips, e, listed) \in SUBSET Text
  BY <1>2 DEF Texts
<1>4. \A t \in Texts(ips, e, listed) : t.ip \in ips /\ t.port = e.port /\ t.listed = listed
  BY DEF Texts
<1> QED BY <1>3, <1>4

\* An entry is done with: its texts have it for their reason.
LEMMA TextsJustify ==
  ASSUME NEW j \in Jobs, NEW e \in Allow[j], e.target \in Names,
         NEW ips \in SUBSET Ips, \A i \in ips : HadLately(j, e.target, i)
  PROVE  /\ Texts(ips, e, FALSE) \in SUBSET Text
         /\ \A t \in Texts(ips, e, FALSE) : Justified(j, t)
<1>1. e \in Entry
  BY ListsAreEntries
<1>2. Texts(ips, e, FALSE) \in SUBSET Text
  BY <1>1, TextsAreTexts
<1>3. \A t \in Texts(ips, e, FALSE) : Justified(j, t)
  <2> TAKE t \in Texts(ips, e, FALSE)
  <2>1. t.ip \in ips /\ t.port = e.port /\ t.listed = FALSE
    BY <1>1, TextsAreTexts
  <2> QED BY <1>1, <2>1 DEF Justified
<1> QED BY <1>2, <1>3

LEMMA ExtendMakes ==
  ASSUME IInv, NEW j \in Jobs, NEW e \in Entry, NEW texts \in SUBSET Text,
         \A t \in texts : Justified(j, t),
         e.target \in Ips => [ip |-> e.target, port |-> e.port, listed |-> TRUE] \in texts,
         Extend(j, e, texts), phase[j] # "idle", phase'[j] = "resolve",
         UNCHANGED <<clock, last, begun>>
  PROVE  JobInv(j)'
<1>1. /\ out'[j] = out[j] \cup texts /\ todo'[j] = todo[j] \ {e}
  BY DEF IInv, TypeOK, Extend
<1>2. JobInv(j)
  BY DEF IInv
<1>3. \A t \in out'[j] : Justified(j, t)'
  BY <1>1, <1>2 DEF JobInv, Justified, HadLately, Lately
<1>4. \A f \in Allow[j] \ todo'[j] : f.target \in Ips => Passed(j, f)'
  BY <1>1, <1>2 DEF JobInv, Passed
<1> QED BY <1>1, <1>2, <1>3, <1>4 DEF JobInv, LookingUp

LEMMA PassThroughKeeps ==
  ASSUME IInv, NEW j \in Jobs, NEW e \in todo[j], PassThrough(j, e)
  PROVE  IInv'
<1> DEFINE texts == Texts({e.target}, e, TRUE)
<1>1. /\ e \in Allow[j] /\ e \in Entry /\ asking[j] = Idle
      /\ asking \in [Jobs -> Lookups \cup {Idle}] /\ out[j] \in SUBSET Text /\ todo[j] \in SUBSET Entry
      /\ phase \in [Jobs -> Phases] /\ phase[j] = "resolve"
  BY JobFacts, ListsAreEntries DEF JobInv, PassThrough, LookingUp, TypeOK, Phases
<1>2. texts \in SUBSET Text /\ \A t \in texts : t.ip = e.target /\ t.port = e.port /\ t.listed = TRUE
  <2>1. {e.target} \in SUBSET Ips
    BY DEF PassThrough
  <2> QED BY <1>1, <2>1, TextsAreTexts
<1>3. \A t \in texts : Justified(j, t)
  BY <1>1, <1>2 DEF Justified
<1>4. Extend(j, e, texts) /\ [ip |-> e.target, port |-> e.port, listed |-> TRUE] \in texts
  BY DEF PassThrough, Texts
<1> HIDE DEF texts
<1>5. asking' = [asking EXCEPT ![j] = Idle] /\ phase' = [phase EXCEPT ![j] = "resolve"]
  BY <1>1 DEF PassThrough
<1>6. Moves(j, "resolve") /\ cache' = cache
  BY <1>1, <1>2, <1>4, <1>5 DEF Moves, PassThrough, Phases, Extend
<1>7. JobInv(j)'
  BY <1>1, <1>2, <1>3, <1>4, <1>5, ExtendMakes DEF PassThrough, IInv, TypeOK
<1> QED BY <1>6, <1>7, QuietKeeps

LEMMA CacheHitKeeps ==
  ASSUME IInv, NEW j \in Jobs, NEW e \in todo[j], CacheHit(j, e)
  PROVE  IInv'
<1> DEFINE texts == Texts(cache[e].ips, e, FALSE)
<1>1. /\ e \in Allow[j] /\ e \in Hosts /\ e \in Entry /\ e.target \in Names /\ asking[j] = Idle
      /\ asking \in [Jobs -> Lookups \cup {Idle}] /\ out[j] \in SUBSET Text /\ todo[j] \in SUBSET Entry
      /\ phase \in [Jobs -> Phases] /\ phase[j] = "resolve" /\ begun[j] <= clock /\ TypeOK
  BY JobFacts, ListsAreEntries DEF JobInv, CacheHit, LookingUp, TypeOK, Phases
<1>2. \A i \in cache[e].ips : HadLately(j, e.target, i)
  <2> TAKE i \in cache[e].ips
  <2>1. /\ cache[e].at \in Int /\ i \in Ips /\ last[e.target][i] \in Int
        /\ clock \in Int /\ begun[j] \in Nat /\ TTL \in Nat /\ MaxLookup \in Nat
    BY <1>1, ClockTypes
  <2>2. last[e.target][i] >= 0 /\ last[e.target][i] >= cache[e].at - MaxLookup
    BY <1>1 DEF IInv, CacheInv, CacheTruthful
  <2>3. clock - cache[e].at < TTL
    BY DEF CacheHit, Fresh
  <2>4. last[e.target][i] >= begun[j] - TTL - MaxLookup
    BY <1>1, <2>1, <2>2, <2>3
  <2> QED BY <2>2, <2>4 DEF HadLately, Lately
<1>3. cache[e].ips \in SUBSET Ips
  BY <1>1, ClockTypes
<1>4. texts \in SUBSET Text /\ \A t \in texts : Justified(j, t)
  BY <1>1, <1>2, <1>3, TextsJustify
<1>5. Extend(j, e, texts)
  BY DEF CacheHit
<1> HIDE DEF texts
<1>6. asking' = [asking EXCEPT ![j] = Idle] /\ phase' = [phase EXCEPT ![j] = "resolve"]
  BY <1>1 DEF CacheHit
<1>7. Moves(j, "resolve") /\ cache' = cache
  BY <1>1, <1>4, <1>5, <1>6 DEF Moves, CacheHit, Phases, Extend
<1>8. JobInv(j)'
  <2>1. e.target \notin Ips /\ phase'[j] = "resolve"
    BY <1>1, <1>6, NetworkAssumption
  <2> QED BY <1>1, <1>4, <1>5, <2>1, ExtendMakes DEF CacheHit
<1> QED BY <1>7, <1>8, QuietKeeps

LEMMA AskKeeps ==
  ASSUME IInv, NEW j \in Jobs, NEW e \in todo[j], Ask(j, e)
  PROVE  IInv'
<1> DEFINE a == [entry |-> e, since |-> clock, ips |-> {}]
<1>1. /\ TypeOK /\ JobInv(j) /\ e \in Allow[j] /\ e \in Entry /\ e.target \in Names
      /\ clock \in 0 .. MaxTime /\ asking \in [Jobs -> Lookups \cup {Idle}]
  BY JobFacts, ListsAreEntries DEF JobInv, Ask
<1>2. a \in Lookups /\ a # Idle
  <2>1. e.target # None
    BY <1>1, NetworkAssumption
  <2> QED BY <1>1, <2>1 DEF Lookups, Idle
<1>3. asking' = [asking EXCEPT ![j] = a]
  BY DEF Ask
<1>4. a.entry = e /\ a.since = clock /\ a.ips = {}
  OBVIOUS
<1> HIDE DEF a
<1>5. Moves(j, "asking") /\ cache' = cache
  BY <1>2, <1>3 DEF Moves, Ask, Phases
<1>6. asking'[j] = a
  BY <1>1, <1>3
<1>7. LookupInv(j)'
  <2>1. clock' = clock /\ begun'[j] = begun[j] /\ begun[j] <= clock
    BY <1>1 DEF Ask, JobInv
  <2>2. clock \in Int /\ MaxLookup \in Nat /\ clock - clock <= MaxLookup
    BY <1>1, ClockTypes
  <2> QED BY <1>1, <1>4, <1>6, <2>1, <2>2 DEF LookupInv
<1>8. JobInv(j)'
  <2>1. phase'[j] = "asking" /\ todo'[j] = todo[j] /\ out'[j] = out[j] /\ begun'[j] = begun[j]
    BY <1>1 DEF Ask, TypeOK
  <2>2. UNCHANGED <<clock, last>>
    BY DEF Ask
  <2>3. phase[j] = "resolve"
    BY DEF Ask
  <2> QED BY <1>1, <1>7, <2>1, <2>2, <2>3 DEF JobInv, Justified, HadLately, Lately, Passed
<1> QED BY <1>5, <1>8, QuietKeeps

LEMMA AnswerKeeps ==
  ASSUME IInv, NEW j \in Jobs, Answer(j)
  PROVE  IInv'
<1> DEFINE n == asking[j].entry.target
           a == [asking[j] EXCEPT !.ips = dns[n]]
<1>1. /\ TypeOK /\ JobInv(j) /\ LookupInv(j) /\ LookingUp(j)
      /\ asking \in [Jobs -> Lookups \cup {Idle}] /\ asking[j] \in Lookups
  BY JobFacts DEF JobInv, Answer, LookingUp
<1>2. n \in Names /\ dns[n] \in SUBSET Ips
  BY <1>1 DEF LookupInv, TypeOK
<1>3. /\ a \in Lookups /\ a.entry = asking[j].entry /\ a.since = asking[j].since /\ a.ips = dns[n]
  BY <1>1, <1>2 DEF Lookups
<1>4. a # Idle
  <2>1. a.entry.target # None
    BY <1>2, <1>3, NetworkAssumption
  <2> HIDE DEF a
  <2> QED BY <2>1 DEF Idle
<1>5. asking' = [asking EXCEPT ![j] = a]
  BY <1>1 DEF Answer
<1>6. \A i \in dns[n] : last[n][i] = clock
  BY <1>2 DEF IInv, LastInv
<1> HIDE DEF a
<1>7. asking'[j] = a
  BY <1>1, <1>5
<1>8. Moves(j, "answered") /\ cache' = cache
  BY <1>3, <1>4, <1>5 DEF Moves, Answer, Phases
<1>9. LookupInv(j)'
  <2>1. UNCHANGED <<clock, last, begun>>
    BY DEF Answer
  <2>2. clock \in Int
    BY <1>1, ClockTypes
  <2>3. \A i \in a.ips : last[a.entry.target][i] >= a.since
    BY <1>1, <1>3, <1>6 DEF LookupInv
  <2> QED BY <1>1, <1>3, <1>7, <2>1, <2>3 DEF LookupInv
<1>10. JobInv(j)'
  <2>1. phase'[j] = "answered" /\ UNCHANGED <<clock, last, begun, todo, out>>
    BY <1>1 DEF Answer, TypeOK
  <2>2. phase[j] = "asking"
    BY DEF Answer
  <2> QED BY <1>1, <1>9, <2>1, <2>2 DEF JobInv, Justified, HadLately, Lately, Passed
<1> QED BY <1>8, <1>10, QuietKeeps

\* What a lookup may go on to: its entry is still one of the job's.
LEMMA LookupFacts ==
  ASSUME IInv, NEW j \in Jobs, LookingUp(j)
  PROVE  /\ LookupInv(j) /\ asking[j] \in Lookups /\ asking \in [Jobs -> Lookups \cup {Idle}]
         /\ asking[j].entry \in Hosts /\ asking[j].entry \in Entry
         /\ asking[j].entry.target \in Names /\ asking[j].ips \in SUBSET Ips
<1>1. LookupInv(j) /\ asking[j] \in Lookups /\ asking \in [Jobs -> Lookups \cup {Idle}]
  BY JobFacts DEF JobInv
<1> QED BY <1>1, ListsAreEntries DEF LookupInv, Lookups

LEMMA LookupFailsKeeps ==
  ASSUME IInv, NEW j \in Jobs, LookupFails(j)
  PROVE  IInv'
<1> DEFINE e == asking[j].entry
<1>1. LookingUp(j) /\ e \in Entry /\ e.target \in Names
  BY LookupFacts DEF LookupFails
<1>2. todo[j] \in SUBSET Entry /\ out[j] \in SUBSET Text
  BY JobFacts
<1> HIDE DEF e
<1>3. /\ Extend(j, e, {}) /\ phase' = [phase EXCEPT ![j] = "resolve"]
      /\ asking' = [asking EXCEPT ![j] = Idle] /\ UNCHANGED <<clock, dns, last, changes, cache, begun>>
  BY DEF LookupFails, e
<1>4. Moves(j, "resolve")
  BY <1>2, <1>3 DEF Moves, Phases, Extend
<1>5. phase'[j] = "resolve"
  BY <1>3 DEF IInv, TypeOK
<1>6. JobInv(j)'
  <2>1. e.target \notin Ips /\ phase[j] # "idle"
    BY <1>1, NetworkAssumption DEF LookingUp
  <2>2. PICK texts \in SUBSET Text : texts = {}
    OBVIOUS
  <2>3. Extend(j, e, texts) /\ \A t \in texts : Justified(j, t)
    BY <1>3, <2>2
  <2> QED BY <1>1, <1>3, <1>5, <2>1, <2>3, ExtendMakes
<1> QED BY <1>3, <1>4, <1>6, QuietKeeps

\* The step that puts what was learnt into the cache: the answer is at most a
\* lookup older than its time stamp.
LEMMA InsertKeeps ==
  ASSUME IInv, NEW j \in Jobs, Insert(j)
  PROVE  IInv'
<1> DEFINE e == asking[j].entry
           ips == asking[j].ips
           texts == Texts(ips, e, FALSE)
<1>1. /\ LookingUp(j) /\ LookupInv(j) /\ TypeOK /\ JobInv(j)
      /\ e \in Hosts /\ e \in Entry /\ e \in Allow[j] /\ e.target \in Names /\ ips \in SUBSET Ips
      /\ todo[j] \in SUBSET Entry /\ out[j] \in SUBSET Text /\ clock \in 0 .. MaxTime
      /\ asking[j].since \in 0 .. MaxTime
  BY JobFacts, LookupFacts DEF Insert, LookingUp, LookupInv, Lookups
<1>2. \A i \in ips : /\ last[e.target][i] \in Int /\ last[e.target][i] >= 0
                     /\ last[e.target][i] >= clock - MaxLookup
                     /\ HadLately(j, e.target, i)
  <2> TAKE i \in ips
  <2>1. /\ i \in Ips /\ last[e.target][i] \in Int /\ clock \in Int /\ asking[j].since \in Nat
        /\ begun[j] \in Nat /\ TTL \in Nat /\ MaxLookup \in Nat
    BY <1>1, ClockTypes
  <2>2. /\ last[e.target][i] >= asking[j].since /\ asking[j].since >= begun[j]
        /\ clock - asking[j].since <= MaxLookup
    BY <1>1 DEF LookupInv
  <2> HIDE DEF e
  <2>3. /\ last[e.target][i] >= 0 /\ last[e.target][i] >= clock - MaxLookup
        /\ last[e.target][i] >= begun[j] - TTL - MaxLookup
    BY <2>1, <2>2
  <2> QED BY <2>1, <2>3 DEF HadLately, Lately
<1>3. texts \in SUBSET Text /\ \A t \in texts : Justified(j, t)
  BY <1>1, <1>2, TextsJustify
<1>4. /\ Extend(j, e, texts) /\ phase' = [phase EXCEPT ![j] = "resolve"]
      /\ asking' = [asking EXCEPT ![j] = Idle] /\ UNCHANGED <<clock, dns, last, changes, begun>>
      /\ cache' = [cache EXCEPT ![e] = [ips |-> ips, at |-> clock]]
  BY DEF Insert
<1> HIDE DEF e, ips, texts
<1>5. Moves(j, "resolve")
  BY <1>1, <1>3, <1>4 DEF Moves, Phases, Extend
<1>6. [ips |-> ips, at |-> clock] \in [ips : SUBSET Ips, at : -1 .. MaxTime]
  <2>1. clock \in -1 .. MaxTime
    BY <1>1
  <2> QED BY <1>1, <2>1
<1>7. cache \in [Hosts -> [ips : SUBSET Ips, at : -1 .. MaxTime]]
  BY <1>1 DEF TypeOK
<1>8. cache' \in [Hosts -> [ips : SUBSET Ips, at : -1 .. MaxTime]]
  BY <1>4, <1>6, <1>7
<1>9. \A f \in Hosts : cache'[f] = IF f = e THEN [ips |-> ips, at |-> clock] ELSE cache[f]
  BY <1>4, <1>7
<1>10. CacheInv' /\ CacheTruthful'
  <2>1. CacheInv /\ CacheTruthful /\ clock \in Int /\ clock' = clock /\ last' = last
    BY <1>1, <1>4, ClockTypes DEF IInv
  <2>2. CacheInv'
    BY <1>2, <1>9, <2>1 DEF CacheInv
  <2>3. CacheTruthful'
    BY <1>2, <1>9, <2>1 DEF CacheTruthful
  <2> QED BY <2>2, <2>3
<1>11. phase'[j] = "resolve"
  BY <1>1, <1>4 DEF TypeOK
<1>12. JobInv(j)'
  <2>1. e.target \notin Ips /\ phase[j] # "idle"
    BY <1>1, NetworkAssumption DEF LookingUp
  <2> QED BY <1>1, <1>3, <1>4, <1>11, <2>1, ExtendMakes
<1> QED BY <1>5, <1>8, <1>10, <1>12, MoveKeeps

LEMMA BuildCtxKeeps ==
  ASSUME IInv, NEW j \in Jobs, BuildCtx(j)
  PROVE  IInv'
<1>1. /\ TypeOK /\ JobInv(j) /\ asking[j] = Idle
      /\ asking \in [Jobs -> Lookups \cup {Idle}] /\ phase \in [Jobs -> Phases]
  BY JobFacts DEF BuildCtx, LookingUp, TypeOK, Phases
<1>2. asking' = [asking EXCEPT ![j] = Idle]
  BY <1>1 DEF BuildCtx
<1>3. /\ UNCHANGED <<clock, dns, last, changes, cache, begun, todo, out>>
      /\ phase[j] = "resolve" /\ todo[j] = {}
  BY DEF BuildCtx
<1>4. PICK l \in {"running", "refused"} :
        /\ phase' = [phase EXCEPT ![j] = l]
        /\ l = "refused" => out[j] # {} /\ Entries(j) = {}
  BY DEF BuildCtx
<1>5. Moves(j, l)
  BY <1>2, <1>3, <1>4 DEF Moves, Phases
<1>6. JobInv(j)'
  <2>1. phase'[j] = l /\ Entries(j)' = Entries(j)
    BY <1>1, <1>3, <1>4 DEF Entries
  <2> QED BY <1>1, <1>3, <1>4, <2>1 DEF JobInv, Justified, HadLately, Lately, LookingUp, Passed
<1> QED BY <1>3, <1>5, <1>6, QuietKeeps

LEMMA EndsKeeps ==
  ASSUME IInv, NEW j \in Jobs, Ends(j)
  PROVE  IInv'
<1>1. /\ TypeOK /\ JobInv(j) /\ asking[j] = Idle
      /\ asking \in [Jobs -> Lookups \cup {Idle}] /\ phase \in [Jobs -> Phases]
  BY JobFacts DEF Ends, LookingUp, TypeOK, Phases
<1>2. asking' = [asking EXCEPT ![j] = Idle]
  BY <1>1 DEF Ends
<1>3. Moves(j, "idle") /\ cache' = cache
  BY <1>2 DEF Moves, Phases, Ends
<1>4. phase'[j] = "idle" /\ out'[j] = {} /\ UNCHANGED <<clock, begun, todo>>
  BY <1>1 DEF Ends, TypeOK
<1>5. JobInv(j)'
  BY <1>1, <1>4 DEF JobInv, LookingUp
<1> QED BY <1>3, <1>5, QuietKeeps

-----------------------------------------------------------------------------
(* The theorems                                                            *)

LEMMA InitEstablishes ==
  ASSUME Init
  PROVE  IInv
<1>1. 0 \in 0 .. MaxTime /\ 0 \in 0 .. MaxChanges /\ -1 \in -1 .. MaxTime /\ 0 \in -1 .. MaxTime
  BY NetworkAssumption
<1>2. \A n \in Names, i \in Ips : last[n][i] = IF i \in dns[n] THEN 0 ELSE -1
  BY DEF Init
<1>3. last \in [Names -> [Ips -> -1 .. MaxTime]]
  BY <1>1 DEF Init
<1>4. cache \in [Hosts -> [ips : SUBSET Ips, at : -1 .. MaxTime]]
  BY <1>1 DEF Init, Empty
<1>5. TypeOK
  BY <1>1, <1>3, <1>4 DEF Init, TypeOK, LookingUp
<1>6. LastInv
  BY <1>2 DEF Init, LastInv
<1>7. \A e \in Hosts : cache[e].ips = {} /\ cache[e].at = -1
  BY DEF Init, Empty
<1>8. CacheInv /\ CacheTruthful
  BY <1>7 DEF Init, CacheInv, CacheTruthful
<1>9. \A j \in Jobs : JobInv(j)
  <2> TAKE j \in Jobs
  <2>1. clock = 0 /\ phase[j] = "idle" /\ begun[j] = 0 /\ todo[j] = {} /\ out[j] = {}
    BY DEF Init
  <2> QED BY <2>1 DEF JobInv, LookingUp
<1> QED BY <1>5, <1>6, <1>8, <1>9 DEF IInv

LEMMA StepKeeps ==
  ASSUME IInv, [Next]_vars
  PROVE  IInv'
<1>1. CASE Tick
  BY <1>1, TickKeeps
<1>2. ASSUME NEW n \in Names, NEW S \in SUBSET Ips, Renumber(n, S)
      PROVE  IInv'
  BY <1>2, RenumberKeeps
<1>3. ASSUME NEW j \in Jobs, Begin(j) \/ Answer(j) \/ Insert(j) \/ LookupFails(j) \/ BuildCtx(j) \/ Ends(j)
      PROVE  IInv'
  BY <1>3, BeginKeeps, AnswerKeeps, InsertKeeps, LookupFailsKeeps, BuildCtxKeeps, EndsKeeps
<1>4. ASSUME NEW j \in Jobs, NEW e \in todo[j], PassThrough(j, e) \/ CacheHit(j, e) \/ Ask(j, e)
      PROVE  IInv'
  BY <1>4, PassThroughKeeps, CacheHitKeeps, AskKeeps
<1>5. CASE UNCHANGED vars
  <2> USE <1>5 DEF vars, jobVars
  <2>1. TypeOK'
    BY DEF IInv, TypeOK, LookingUp
  <2>2. LastInv' /\ CacheInv' /\ CacheTruthful'
    BY DEF IInv, LastInv, CacheInv, CacheTruthful
  <2>3. \A j \in Jobs : JobInv(j)'
    BY DEF IInv, JobInv, LookupInv, LookingUp, Justified, HadLately, Lately, Passed, Entries
  <2> QED BY <2>1, <2>2, <2>3 DEF IInv
<1> QED BY <1>1, <1>2, <1>3, <1>4, <1>5 DEF Next

THEOREM Invariance == Spec => []IInv
<1>1. Init => IInv
  BY InitEstablishes
<1>2. IInv /\ [Next]_vars => IInv'
  BY StepKeeps
<1> QED BY <1>1, <1>2, PTL DEF Spec

\* Clock, DNS, cache, lookups and lists are well-formed in every state: the
\* bounds of the clock and of the DNS's changes hold, and a job has a lookup
\* exactly while it is in resolve_entry's await.
THEOREM TypeCorrect == Spec => []TypeOK
<1>1. IInv => TypeOK
  BY DEF IInv
<1> QED BY <1>1, Invariance, PTL

\* DNS_CACHE: an address was one of the name's at most a lookup before the time
\* stamp resolve_entry put on it, however many jobs looked the name up at once.
THEOREM CacheIsTruthful == Spec => []CacheTruthful
<1>1. IInv => CacheTruthful
  BY DEF IInv
<1> QED BY <1>1, Invariance, PTL

\* What does not read as it was meant is an address of version 6, which a name
\* of the list lately had, with the port of the entry behind it.
LEMMA MisreadFollows ==
  ASSUME IInv, NEW j \in Jobs, NEW t \in out[j],
         Parsed(t) # {[ip |-> t.ip, port |-> t.port]}
  PROVE  /\ ReadAs(j, Respelled[<<t.ip, t.port>>])
         /\ Parsed(t) = IF Respelled[<<t.ip, t.port>>] = None THEN {}
                        ELSE {[ip |-> Respelled[<<t.ip, t.port>>], port |-> Any]}
<1>1. t \in Text /\ Justified(j, t)
  BY JobFacts DEF JobInv
<1>2. ~t.listed /\ t.port # Any /\ t.ip \in V6
  BY DEF Parsed
<1>3. PICK e \in Allow[j] : e.port = t.port /\ e.target \in Names /\ HadLately(j, e.target, t.ip)
  BY <1>1, <1>2 DEF Justified
<1>4. ReadAs(j, Respelled[<<t.ip, t.port>>])
  BY <1>2, <1>3 DEF ReadAs, HadLately
<1> QED BY <1>2, <1>4 DEF Parsed

\* An entry that matches a connection is a text's own address and port, or what
\* is read of it; and the text has an entry of network.allow behind it.
LEMMA GrantsFollow ==
  ASSUME IInv
  PROVE  GrantsOnlyNamed
<1> SUFFICES ASSUME NEW j \in Jobs, NEW ip \in Ips, NEW p \in Ports, MayConnect(j, ip, p)
             PROVE  Named(j, ip, p) \/ ReadAs(j, ip)
  BY DEF GrantsOnlyNamed
<1>1. PICK t \in out[j] : \E r \in Parsed(t) : r.ip = ip /\ r.port \in {p, Any}
  BY DEF MayConnect, Entries
<1>2. CASE Parsed(t) = {[ip |-> t.ip, port |-> t.port]}
  <2>1. t.ip = ip /\ t.port \in {p, Any}
    BY <1>1, <1>2
  <2>2. Justified(j, t)
    BY <1>1, JobFacts DEF JobInv
  <2> QED BY <2>1, <2>2 DEF Justified, HadLately, Named
<1>3. CASE Parsed(t) # {[ip |-> t.ip, port |-> t.port]}
  <2>1. Respelled[<<t.ip, t.port>>] = ip
    BY <1>1, <1>3, MisreadFollows
  <2> QED BY <1>3, <2>1, MisreadFollows
<1> QED BY <1>2, <1>3

LEMMA AddressesFollow ==
  ASSUME IInv
  PROVE  AddressesOpen
<1> SUFFICES ASSUME NEW j \in Jobs, phase[j] \in {"running", "refused"},
                    NEW e \in Allow[j], e.target \in Ips
             PROVE  [ip |-> e.target, port |-> e.port] \in Entries(j)
  BY DEF AddressesOpen
<1> DEFINE t == [ip |-> e.target, port |-> e.port, listed |-> TRUE]
<1>1. t \in out[j]
  BY JobFacts DEF JobInv, Passed
<1>2. Parsed(t) = {[ip |-> e.target, port |-> e.port]}
  BY DEF Parsed
<1> QED BY <1>1, <1>2 DEF Entries

LEMMA RefusalsFollow ==
  ASSUME IInv
  PROVE  RefusedOnlyUnread
<1> SUFFICES ASSUME NEW j \in Jobs, phase[j] = "refused"
             PROVE  ReadAs(j, None)
  BY DEF RefusedOnlyUnread
<1>1. PICK t \in out[j] : Parsed(t) = {}
  BY JobFacts DEF JobInv, Entries
<1>2. Respelled[<<t.ip, t.port>>] = None /\ ReadAs(j, Respelled[<<t.ip, t.port>>])
  BY <1>1, MisreadFollows
<1> QED BY <1>2

(***************************************************************************)
(* resolve_network_allow and build_wasi_ctx together, for every list and   *)
(* DNS: a guest may connect only to an address that stands in its list or  *)
(* that a name in it had no longer ago than the cache keeps answers and a  *)
(* lookup takes, or to what such an address of version 6 is misread as;    *)
(* the addresses in the list are open, and a job is refused only over an   *)
(* address that reads as none, never because nothing was resolved.         *)
(***************************************************************************)
THEOREM ListsAreHonoured == Spec => []AllowHonoured
<1>1. IInv => AllowHonoured
  BY GrantsFollow, AddressesFollow, RefusalsFollow DEF AllowHonoured
<1> QED BY <1>1, Invariance, PTL
=============================================================================
