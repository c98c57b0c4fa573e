--------------------------- MODULE ComponentCache ---------------------------
(***************************************************************************)
(* From the bytes of a component to an instance of it: cache.rs and the    *)
(* compile and instantiate phases of FluxionHost in fluxion-host/lib.rs.   *)
(*                                                                         *)
(* L2 is a directory of compiled artifacts which every process of the user *)
(* shares; L1 (mem_cache) and L0 (pre_cache) are LRU maps of one host, the *)
(* mutex of each held for one get or one put.  Nothing is locked from a    *)
(* miss to the put that answers it.                                        *)
(*                                                                         *)
(* The SHA-256 of some bytes is the bytes themselves.  An artifact carries *)
(* the wasmtime version that compiled it, and only that version loads it.  *)
(***************************************************************************)
EXTENDS Naturals, Sequences, FiniteSets, SequencesExt

CONSTANTS
  Contents,   \* the component files' possible contents
  Invalid,    \* those that wasmtime does not compile
  Hosts,      \* the FluxionHosts, each in a process of its own
  Versions,   \* wasmtime versions; the directory outlives an upgrade
  VersionOf,  \* the one each host is linked with
  Jobs,       \* the executions
  HostOf,     \* the host each runs on
  Leftover,   \* the artifacts an earlier process left: content -> version or Garbage
  Garbage,    \* what no version loads
  Cap,        \* MEM_CACHE_CAP and PRE_CACHE_CAP
  MaxFaults   \* bound: I/O errors of the artifact directory

ASSUME CacheAssumption ==
  /\ Invalid \subseteq Contents /\ "none" \notin Contents
  /\ VersionOf \in [Hosts -> Versions] /\ HostOf \in [Jobs -> Hosts]
  /\ DOMAIN Leftover \subseteq Contents
  /\ \A c \in DOMAIN Leftover : Leftover[c] \in Versions \cup {Garbage}
  /\ Garbage \notin Versions
  /\ Cap \in Nat \ {0} /\ MaxFaults \in Nat

VARIABLES
  disk,     \* the artifact directory: a key -> an artifact, or nothing
  mem,      \* L1 of each host: <<key, component>>, most recently used first
  pre,      \* L0 of each host: <<key, what is ready to instantiate>>
  stage,    \* where each execution is
  bytes,    \* the bytes it has read
  comp,     \* the component it holds
  result,   \* how it ended
  faults,   \* history: how many I/O errors there have been
  foreign   \* history: keys whose artifact was strange to one of the executions

cacheVars == <<disk, mem, pre, stage, bytes, comp, result, faults, foreign>>

Artifact == [of : Contents, by : Versions \cup {Garbage}]
Absent   == [of |-> "none", by |-> "none"]
Version(j) == VersionOf[HostOf[j]]

\* Faulty variant: the first eight of the 64 digits, in which two contents agree.
ShortKey(b) == IF b \in Invalid THEN b ELSE CHOOSE c \in Contents \ Invalid : TRUE

\* as_str_key and wasm_key; CacheKey::Digest holds the digest of the same bytes.
Key(b) == b

Loadable(a, j) == a.by = Version(j)

CacheInit(present) ==
  /\ disk = [k \in Contents |-> IF k \in DOMAIN Leftover
                                THEN [of |-> k, by |-> Leftover[k]] ELSE Absent]
  /\ mem = [h \in Hosts |-> <<>>] /\ pre = [h \in Hosts |-> <<>>]
  /\ stage = [j \in Jobs |-> IF j \in present THEN "new" ELSE "ended"]
  /\ bytes = [j \in Jobs |-> "none"]
  /\ comp = [j \in Jobs |-> Absent]
  /\ result = [j \in Jobs |-> IF j \in present THEN "none" ELSE "not_started"]
  /\ faults = 0
  /\ foreign = {k \in DOMAIN Leftover : \E j \in present : Leftover[k] # Version(j)}

Goto(j, s) == stage' = [stage EXCEPT ![j] = s]

\* A version that one of the executions does not have.
Strange(v) == \E j \in Jobs : result[j] # "not_started" /\ Version(j) # v

End(j, r) ==
  /\ Goto(j, "ended")
  /\ result' = [result EXCEPT ![j] = r]

-----------------------------------------------------------------------------
(* LruCache of the crate lru                                               *)

Cached(lru, k)  == \E i \in 1 .. Len(lru) : lru[i][1] = k
Place(lru, k)   == CHOOSE i \in 1 .. Len(lru) : lru[i][1] = k
Without(lru, k) == IF Cached(lru, k) THEN RemoveAt(lru, Place(lru, k)) ELSE lru
Lookup(lru, k)  == lru[Place(lru, k)][2]

\* get moves the entry to the front; put does, and drops the last beyond Cap.
Touched(lru, k)   == <<<<k, Lookup(lru, k)>>>> \o Without(lru, k)
WithPut(lru, k, v) == LET l == <<<<k, v>>>> \o Without(lru, k)
                     IN SubSeq(l, 1, IF Len(l) > Cap THEN Cap ELSE Len(l))

-----------------------------------------------------------------------------
(* The compile phase                                                       *)

\* mem_cache.get: a hit spares the disk.
MemLookup(j) ==
  LET h == HostOf[j]
      k == Key(bytes[j])
  IN /\ stage[j] = "mem"
     /\ IF Cached(mem[h], k)
        THEN /\ comp' = [comp EXCEPT ![j] = Lookup(mem[h], k)]
             /\ mem' = [mem EXCEPT ![h] = Touched(@, k)]
             /\ Goto(j, "pre")
        ELSE /\ Goto(j, "exists")
             /\ UNCHANGED <<comp, mem>>
     /\ UNCHANGED <<disk, pre, bytes, result, faults, foreign>>

\* load: path.exists()
ArtifactExists(j) ==
  /\ stage[j] = "exists"
  /\ Goto(j, IF disk[Key(bytes[j])] = Absent THEN "compile" ELSE "open")
  /\ UNCHANGED <<disk, mem, pre, bytes, comp, result, faults, foreign>>

\* load: deserialize_file, which checks the version.
OpenArtifact(j) ==
  LET a == disk[Key(bytes[j])]
  IN /\ stage[j] = "open"
     /\ IF a # Absent /\ Loadable(a, j)
        THEN comp' = [comp EXCEPT ![j] = a] /\ Goto(j, "put")
        ELSE UNCHANGED comp /\ Goto(j, "evict")
     /\ UNCHANGED <<disk, mem, pre, bytes, result, faults, foreign>>

\* load: remove_file, whatever is there by now.
EvictArtifact(j) ==
  /\ stage[j] = "evict"
  /\ disk' = [disk EXCEPT ![Key(bytes[j])] = Absent]
  /\ Goto(j, "compile")
  /\ UNCHANGED <<mem, pre, bytes, comp, result, faults, foreign>>

\* store: precompile_component
Compile(j) ==
  /\ stage[j] = "compile"
  /\ IF bytes[j] \in Invalid
     THEN End(j, "not_a_component")
     ELSE Goto(j, "persist") /\ UNCHANGED result
  /\ UNCHANGED <<disk, mem, pre, bytes, comp, faults, foreign>>

Partial(j) == [of |-> bytes[j], by |-> Garbage]

\* Faulty variant: the artifact is written in place, in two pieces.
PersistInPlace(j) ==
  LET k == Key(bytes[j])
      a == [of |-> bytes[j], by |-> Version(j)]
  IN /\ stage[j] = "persist"
     /\ IF disk[k] = Partial(j)
        THEN /\ disk' = [disk EXCEPT ![k] = a] /\ Goto(j, "reload")
             /\ foreign' = IF Strange(Version(j))
                           THEN foreign \cup {k} ELSE foreign
        ELSE disk' = [disk EXCEPT ![k] = Partial(j)] /\ UNCHANGED <<stage, foreign>>
     /\ UNCHANGED <<mem, pre, bytes, comp, result, faults>>

\* store: atomic_write, a temporary file renamed over the artifact.
Persist(j) ==
  LET k == Key(bytes[j])
  IN /\ stage[j] = "persist"
     /\ disk' = [disk EXCEPT ![k] = [of |-> bytes[j], by |-> Version(j)]]
     /\ foreign' = IF Strange(Version(j))
                   THEN foreign \cup {k} ELSE foreign
     /\ Goto(j, "reload")
     /\ UNCHANGED <<mem, pre, bytes, comp, result, faults>>

\* The directory is missing, full or read-only.
PersistFails(j) ==
  /\ stage[j] = "persist"
  /\ faults < MaxFaults /\ faults' = faults + 1
  /\ End(j, "io_error")
  /\ UNCHANGED <<disk, mem, pre, bytes, comp, foreign>>

\* store: deserialize_file(&path)?, of whatever is there by now.
Reload(j) ==
  LET a == disk[Key(bytes[j])]
  IN /\ stage[j] = "reload"
     /\ IF a # Absent /\ Loadable(a, j)
        THEN comp' = [comp EXCEPT ![j] = a] /\ Goto(j, "put") /\ UNCHANGED result
        ELSE End(j, "cache_error") /\ UNCHANGED comp
     /\ UNCHANGED <<disk, mem, pre, bytes, faults, foreign>>

MemPut(j) ==
  /\ stage[j] = "put"
  /\ mem' = [mem EXCEPT ![HostOf[j]] = WithPut(@, Key(bytes[j]), comp[j])]
  /\ Goto(j, "pre")
  /\ UNCHANGED <<disk, pre, bytes, comp, result, faults, foreign>>

-----------------------------------------------------------------------------
(* The instantiate phase                                                   *)

\* pre_cache.get: what it finds takes the place of the component.
PreLookup(j) ==
  LET h == HostOf[j]
      k == Key(bytes[j])
  IN /\ stage[j] = "pre"
     /\ IF Cached(pre[h], k)
        THEN /\ comp' = [comp EXCEPT ![j] = Lookup(pre[h], k)]
             /\ pre' = [pre EXCEPT ![h] = Touched(@, k)]
             /\ Goto(j, "instantiate")
        ELSE /\ Goto(j, "link")
             /\ UNCHANGED <<comp, pre>>
     /\ UNCHANGED <<disk, mem, bytes, result, faults, foreign>>

\* instantiate_pre and pre_cache.put
PrePut(j) ==
  /\ stage[j] = "link"
  /\ pre' = [pre EXCEPT ![HostOf[j]] = WithPut(@, Key(bytes[j]), comp[j])]
  /\ Goto(j, "instantiate")
  /\ UNCHANGED <<disk, mem, bytes, comp, result, faults, foreign>>

CacheStep(j) ==
  \/ MemLookup(j) \/ ArtifactExists(j) \/ OpenArtifact(j) \/ EvictArtifact(j)
  \/ Compile(j) \/ Persist(j) \/ Reload(j) \/ MemPut(j) \/ PreLookup(j) \/ PrePut(j)

-----------------------------------------------------------------------------
(* Properties                                                              *)

CacheStage == {"mem", "exists", "open", "evict", "compile", "persist", "reload", "put",
               "pre", "link"}

\* What a host's maps hold; a part of the type invariant.
LruOK(l) ==
  /\ l \in Seq(Contents \X Artifact) /\ Len(l) <= Cap
  /\ \A i, i2 \in 1 .. Len(l) : l[i][1] = l[i2][1] => i = i2

(***************************************************************************)
(* What is about to be instantiated was compiled, by this host's version,  *)
(* from the bytes this execution read: through two maps and a directory    *)
(* that other executions, processes and versions write and evict.          *)
(***************************************************************************)
InstanceOfWhatWasRead ==
  \A j \in Jobs :
    stage[j] \in {"link", "instantiate", "run"} =>
      comp[j] = [of |-> bytes[j], by |-> Version(j)]

(***************************************************************************)
(* The artifact directory never holds an artifact under another's key, nor *)
(* a torn one: whatever is left of what was there at the beginning apart,  *)
(* a file was renamed into place whole (cache.rs, atomic_write).           *)
(***************************************************************************)
ArtifactsWhole ==
  \A k \in Contents : disk[k] # Absent =>
    /\ disk[k].of = k
    /\ disk[k].by = Garbage => k \in DOMAIN Leftover /\ Leftover[k] = Garbage

(***************************************************************************)
(* An execution of a valid component fails in the cache only if the        *)
(* directory had, at some time, an artifact that one of the executions     *)
(* cannot load: concurrent ones of one version do not disturb each other.  *)
(***************************************************************************)
FailsOnlyOverForeign ==
  \A j \in Jobs : result[j] = "cache_error" => Key(bytes[j]) \in foreign

(***************************************************************************)
(* Bytes, artifact and instance belong together, on disk as in the maps.   *)
(***************************************************************************)
CacheSound == InstanceOfWhatWasRead /\ ArtifactsWhole
=============================================================================
