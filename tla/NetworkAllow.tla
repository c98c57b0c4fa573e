---------------------------- MODULE NetworkAllow ----------------------------
(***************************************************************************)
(* From `network.allow` of a job to the addresses its guest may connect to *)
(* (fluxion-host/lib.rs): resolve_entry with the process-wide DNS_CACHE,   *)
(* build_wasi_ctx and the check it installs.                               *)
(*                                                                         *)
(* Between the look into the cache and the insertion of an answer there is *)
(* an await and no lock: jobs look the same entry up at the same time, and *)
(* answers arrive in any order, stamped with the time of their insertion.  *)
(***************************************************************************)
EXTENDS Integers

CONSTANTS
  Jobs,
  Names,      \* host names
  Ips,        \* addresses
  V6,         \* those of version 6
  Respelled,  \* what `<v6 address>:<port>` reads as: an address, or None
  Ports,
  Any,        \* an entry without a port
  None,
  Allow,      \* network.allow of each job
  TTL,        \* DNS_CACHE_TTL
  MaxLookup,  \* the resolver's patience
  MaxTime,    \* bound of the clock
  MaxChanges  \* bound: changes of the DNS

Entry == [target : Names \cup Ips, port : Ports \cup {Any}]

ASSUME NetworkAssumption ==
  /\ Names \cap Ips = {}
  /\ V6 \subseteq Ips /\ Respelled \in [V6 \X Ports -> Ips \cup {None}]
  /\ Any \notin Ports /\ None \notin Names \cup Ips
  /\ Allow \in [Jobs -> SUBSET Entry]
  /\ TTL \in Nat /\ MaxLookup \in Nat /\ MaxTime \in Nat /\ MaxChanges \in Nat

VARIABLES
  clock,
  dns,      \* what the DNS says of each name
  last,     \* history: when each name last had each address
  changes,  \* history: how often the DNS has changed
  cache,    \* DNS_CACHE: entry -> addresses and the time of their insertion
  phase,    \* where each job is
  begun,    \* history: when it began to resolve its list
  todo,     \* the entries it has not come to
  asking,   \* the entry it looks up, since when, and the answer
  out       \* the list it has so far: addresses with ports, as texts

vars == <<clock, dns, last, changes, cache, phase, begun, todo, asking, out>>
jobVars == <<phase, begun, todo, asking, out>>

Empty == [ips |-> {}, at |-> -1]
Idle  == [entry |-> [target |-> None, port |-> Any], since |-> 0, ips |-> {}]
Text  == [ip : Ips, port : Ports \cup {Any}, listed : BOOLEAN]  \* as it was written in the list
Hosts == {e \in UNION {Allow[j] : j \in Jobs} : e.target \in Names}

Init ==
  /\ clock = 0
  /\ dns \in [Names -> SUBSET Ips]
  /\ last = [n \in Names |-> [i \in Ips |-> IF i \in dns[n] THEN 0 ELSE -1]]
  /\ changes = 0
  /\ cache = [e \in Hosts |-> Empty]
  /\ phase = [j \in Jobs |-> "idle"]
  /\ begun = [j \in Jobs |-> 0]
  /\ todo = [j \in Jobs |-> {}]
  /\ asking = [j \in Jobs |-> Idle]
  /\ out = [j \in Jobs |-> {}]

LookingUp(j) == phase[j] \in {"asking", "answered"}

Tick ==
  /\ clock < MaxTime
  /\ \A j \in Jobs : LookingUp(j) => clock - asking[j].since < MaxLookup
  /\ clock' = clock + 1
  /\ last' = [n \in Names |-> [i \in Ips |-> IF i \in dns[n] THEN clock + 1 ELSE last[n][i]]]
  /\ UNCHANGED <<dns, changes, cache, jobVars>>

Renumber(n, S) ==
  /\ changes < MaxChanges /\ changes' = changes + 1
  /\ dns' = [dns EXCEPT ![n] = S]
  /\ last' = [last EXCEPT ![n] = [i \in Ips |-> IF i \in S THEN clock ELSE @[i]]]
  /\ UNCHANGED <<clock, cache, jobVars>>

-----------------------------------------------------------------------------
(* resolve_network_allow                                                   *)

\* launch, with a permit: an empty list is left as it is.
Begin(j) ==
  /\ phase[j] = "idle"
  /\ phase' = [phase EXCEPT ![j] = "resolve"]
  /\ begun' = [begun EXCEPT ![j] = clock]
  /\ todo' = [todo EXCEPT ![j] = Allow[j]]
  /\ out' = [out EXCEPT ![j] = {}]
  /\ UNCHANGED <<clock, dns, last, changes, cache, asking>>

Texts(ips, e, listed) == {[ip |-> i, port |-> e.port, listed |-> listed] : i \in ips}

\* The entry is done with and gives these texts.
Extend(j, e, texts) ==
  /\ out' = [out EXCEPT ![j] = @ \cup texts]
  /\ todo' = [todo EXCEPT ![j] = @ \ {e}]

\* An entry that is an address passes through.
PassThrough(j, e) ==
  /\ phase[j] = "resolve" /\ e \in todo[j] /\ e.target \in Ips
  /\ Extend(j, e, Texts({e.target}, e, TRUE))
  /\ UNCHANGED <<clock, dns, last, changes, cache, phase, begun, asking>>

Fresh(e) == cache[e] # Empty /\ clock - cache[e].at < TTL

CacheHit(j, e) ==
  /\ phase[j] = "resolve" /\ e \in todo[j] /\ e.target \in Names
  /\ Fresh(e)
  /\ Extend(j, e, Texts(cache[e].ips, e, FALSE))
  /\ UNCHANGED <<clock, dns, last, changes, cache, phase, begun, asking>>

Ask(j, e) ==
  /\ phase[j] = "resolve" /\ e \in todo[j] /\ e.target \in Names
  /\ ~Fresh(e)
  /\ phase' = [phase EXCEPT ![j] = "asking"]
  /\ asking' = [asking EXCEPT ![j] = [entry |-> e, since |-> clock, ips |-> {}]]
  /\ UNCHANGED <<clock, dns, last, changes, cache, begun, todo, out>>

\* The DNS answers; the answer is on its way.
Answer(j) ==
  /\ phase[j] = "asking" /\ dns[asking[j].entry.target] # {}
  /\ asking' = [asking EXCEPT ![j].ips = dns[asking[j].entry.target]]
  /\ phase' = [phase EXCEPT ![j] = "answered"]
  /\ UNCHANGED <<clock, dns, last, changes, cache, begun, todo, out>>

\* Faulty variant: the answer is added to what is known.
InsertMerging(j) ==
  /\ phase[j] = "answered"
  /\ cache' = [cache EXCEPT ![asking[j].entry] = [ips |-> @.ips \cup asking[j].ips, at |-> clock]]
  /\ Extend(j, asking[j].entry, Texts(asking[j].ips, asking[j].entry, FALSE))
  /\ phase' = [phase EXCEPT ![j] = "resolve"]
  /\ asking' = [asking EXCEPT ![j] = Idle]
  /\ UNCHANGED <<clock, dns, last, changes, begun>>

\* DNS_CACHE.insert, stamped Instant::now().
Insert(j) ==
  /\ phase[j] = "answered"
  /\ cache' = [cache EXCEPT ![asking[j].entry] = [ips |-> asking[j].ips, at |-> clock]]
  /\ Extend(j, asking[j].entry, Texts(asking[j].ips, asking[j].entry, FALSE))
  /\ phase' = [phase EXCEPT ![j] = "resolve"]
  /\ asking' = [asking EXCEPT ![j] = Idle]
  /\ UNCHANGED <<clock, dns, last, changes, begun>>

\* Faulty variant: an entry that cannot be looked up keeps its old addresses.
LookupFailsToOld(j) ==
  /\ LookingUp(j)
  /\ Extend(j, asking[j].entry, Texts(cache[asking[j].entry].ips, asking[j].entry, FALSE))
  /\ phase' = [phase EXCEPT ![j] = "resolve"]
  /\ asking' = [asking EXCEPT ![j] = Idle]
  /\ UNCHANGED <<clock, dns, last, changes, cache, begun>>

\* No such name, or no answer: the entry is dropped, the cache left alone.
LookupFails(j) ==
  /\ LookingUp(j)
  /\ Extend(j, asking[j].entry, {})
  /\ phase' = [phase EXCEPT ![j] = "resolve"]
  /\ asking' = [asking EXCEPT ![j] = Idle]
  /\ UNCHANGED <<clock, dns, last, changes, cache, begun>>

-----------------------------------------------------------------------------
(* build_wasi_ctx                                                          *)

\* parse_network_entry of a text: `format!("{ip}:{p}")` puts no brackets
\* around an address of version 6, which then reads as another or as none.
\* What stood in the list as an address reads as it did there.
Parsed(t) ==
  IF t.listed \/ t.port = Any \/ t.ip \notin V6 THEN {[ip |-> t.ip, port |-> t.port]}
  ELSE IF Respelled[<<t.ip, t.port>>] = None THEN {}
  ELSE {[ip |-> Respelled[<<t.ip, t.port>>], port |-> Any]}

Entries(j) == UNION {Parsed(t) : t \in out[j]}

\* The context is made, or `ensure!` finds a list without an address.
BuildCtx(j) ==
  /\ phase[j] = "resolve" /\ todo[j] = {}
  /\ phase' = [phase EXCEPT ![j] = IF out[j] # {} /\ Entries(j) = {} THEN "refused" ELSE "running"]
  /\ UNCHANGED <<clock, dns, last, changes, cache, begun, todo, asking, out>>

\* The guest ends; the workflow is run again in the same process.
Ends(j) ==
  /\ phase[j] \in {"running", "refused"}
  /\ phase' = [phase EXCEPT ![j] = "idle"]
  /\ out' = [out EXCEPT ![j] = {}]
  /\ UNCHANGED <<clock, dns, last, changes, cache, begun, todo, asking>>

\* The check installed by build_wasi_ctx; without a list everything is denied.
MayConnect(j, ip, port) ==
  \E e \in Entries(j) : e.ip = ip /\ e.port \in {port, Any}

Next ==
  \/ Tick
  \/ \E n \in Names, S \in SUBSET Ips : Renumber(n, S)
  \/ \E j \in Jobs :
       \/ Begin(j) \/ Answer(j) \/ Insert(j) \/ LookupFails(j) \/ BuildCtx(j) \/ Ends(j)
       \/ \E e \in todo[j] : PassThrough(j, e) \/ CacheHit(j, e) \/ Ask(j, e)

Spec == Init /\ [][Next]_vars

-----------------------------------------------------------------------------
(* Properties                                                              *)

\* The type invariant.
TypeOK ==
  /\ clock \in 0 .. MaxTime /\ changes \in 0 .. MaxChanges
  /\ dns \in [Names -> SUBSET Ips]
  /\ last \in [Names -> [Ips -> -1 .. MaxTime]]
  /\ cache \in [Hosts -> [ips : SUBSET Ips, at : -1 .. MaxTime]]
  /\ phase \in [Jobs -> {"idle", "resolve", "asking", "answered", "running", "refused"}]
  /\ begun \in [Jobs -> 0 .. MaxTime]
  /\ todo \in [Jobs -> SUBSET Entry]
  /\ asking \in [Jobs -> [entry : Entry, since : 0 .. MaxTime, ips : SUBSET Ips] \cup {Idle}]
  /\ \A j \in Jobs : asking[j] = Idle <=> ~LookingUp(j)
  /\ out \in [Jobs -> SUBSET Text]

\* A time no longer before the job began than the cache keeps answers and a lookup takes.
Lately(j, t) == t >= 0 /\ t >= begun[j] - TTL - MaxLookup

\* The list names this address on this port.
Named(j, ip, p) ==
  \E e \in Allow[j] :
    /\ e.port \in {p, Any}
    /\ e.target = ip \/ (e.target \in Names /\ Lately(j, last[e.target][ip]))

\* A name in the list, with a port, lately had an address that reads as this one.
ReadAs(j, x) ==
  \E e \in Allow[j] : \E i \in V6 :
    /\ e.target \in Names /\ e.port # Any /\ Lately(j, last[e.target][i])
    /\ Respelled[<<i, e.port>>] = x

(***************************************************************************)
(* What the list of a job opens is what it names: an address in the list,  *)
(* or one that a name in it had no longer ago than the cache keeps answers *)
(* and a lookup takes, on the port of the entry.  The one thing more is    *)
(* what build_wasi_ctx reads where resolve_entry has put a port behind     *)
(* such an address of version 6, and that on every port.                   *)
(***************************************************************************)
GrantsOnlyNamed ==
  \A j \in Jobs, ip \in Ips, p \in Ports :
    phase[j] = "running" /\ MayConnect(j, ip, p) => Named(j, ip, p) \/ ReadAs(j, ip)

(***************************************************************************)
(* A fresh entry of the cache was true not longer than a lookup before its *)
(* time stamp, whatever other lookups of it were under way.                *)
(***************************************************************************)
CacheTruthful ==
  \A e \in Hosts : \A i \in cache[e].ips : last[e.target][i] >= cache[e].at - MaxLookup

(***************************************************************************)
(* An address that stands in the list is open, on the port it has there,   *)
(* whatever becomes of the names beside it.                                *)
(***************************************************************************)
AddressesOpen ==
  \A j \in Jobs : phase[j] \in {"running", "refused"} =>
    \A e \in Allow[j] : e.target \in Ips => [ip |-> e.target, port |-> e.port] \in Entries(j)

(***************************************************************************)
(* "All entries at this point are IP-based": a list whose names cannot be  *)
(* resolved denies everything but does not fail the job.  A job fails over *)
(* its list only when a name in it, with a port, has just had an address   *)
(* of version 6 that reads as none.                                        *)
(***************************************************************************)
RefusedOnlyUnread == \A j \in Jobs : phase[j] = "refused" => ReadAs(j, None)

(***************************************************************************)
(* A job's list means what it says, but for the misreading: it opens what  *)
(* it names and nothing else, and does not keep the job from running.      *)
(***************************************************************************)
AllowHonoured == GrantsOnlyNamed /\ AddressesOpen /\ RefusedOnlyUnread
=============================================================================
