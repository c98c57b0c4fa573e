--------------------------- MODULE ExecutionProofs ---------------------------
(***************************************************************************)
(* What the cache guarantees for any contents, hosts, versions and jobs:   *)
(* an instance is of the bytes that were read, artifacts are whole, only a *)
(* version's upgrade disturbs an execution, and a pin is honoured unless   *)
(* the file moved; over two LRU maps whose every entry is as its key says. *)
(*                                                                         *)
(* The argument follows one job: what it knows at each stage, and that no  *)
(* step of another takes it away, except under a key some version finds    *)
(* strange.                                                                *)
(***************************************************************************)
EXTENDS HostExecution, SequenceTheorems, TLAPS

(***************************************************************************)
(* The invariant                                                           *)
(***************************************************************************)

\* What a job's bytes are compiled to on a host.
Compiled(h, k) == [of |-> k, by |-> VersionOf[h]]
Whole(j)       == Compiled(HostOf[j], bytes[j])

\* The entries of a map are what their keys say.
Truthful(h, lru) == \A i \in 1 .. Len(lru) : lru[i][2] = Compiled(h, lru[i][1])
MapsInv == \A h \in Hosts : Truthful(h, mem[h]) /\ Truthful(h, pre[h])

\* An artifact that a job of the run could not load has been counted as foreign.
ForeignInv ==
  \A k \in Contents, j \in Jobs :
    disk[k] # Absent /\ result[j] # "not_started" /\ disk[k].by # Version(j) => k \in foreign

\* There is an artifact for the job's bytes, or strangers share the key.
Found(j) == disk[bytes[j]] # Absent \/ bytes[j] \in foreign

HasRead(j) == stage[j] \in CacheStage \cup {"instantiate", "run", "hostcall"}

\* What is so of an execution, by its stage.
JobInv(j) ==
  /\ HasRead(j) => bytes[j] \in Contents
  /\ stage[j] \in {"put", "pre", "link", "instantiate", "run", "hostcall"} => comp[j] = Whole(j)
  /\ stage[j] \in {"open", "reload"} => Found(j)
  /\ stage[j] = "evict" => bytes[j] \in foreign
  /\ stage[j] \in {"blocking", "read"} => j \notin Direct /\ file[PathOf[j]] \in Contents
  /\ result[j] = "cache_error" => bytes[j] \in foreign
  /\ j \in DOMAIN Pin \ moved =>
       /\ stage[j] \in {"blocking", "read"} => file[PathOf[j]] = Pin[j]
       /\ HasRead(j) => bytes[j] = Pin[j]

IInv ==
  /\ TypeOK /\ MapsInv /\ ArtifactsWhole /\ ForeignInv
  /\ \A j \in Jobs : JobInv(j)

-----------------------------------------------------------------------------
(* The LRU maps                                                            *)

LEMMA CompiledIsArtifact ==
  ASSUME NEW h \in Hosts, NEW k \in Contents
  PROVE  Compiled(h, k) \in Artifact
BY CacheAssumption DEF Compiled, Artifact

LEMMA PlaceOfCached ==
  ASSUME NEW l, NEW k, Cached(l, k)
  PROVE  Place(l, k) \in 1 .. Len(l) /\ l[Place(l, k)][1] = k
BY DEF Cached, Place

\* Three facts about sequences: removing a place, putting an element in front, a prefix.
LEMMA RemovedPlace ==
  ASSUME NEW S, NEW l \in Seq(S), NEW p \in 1 .. Len(l)
  PROVE  /\ RemoveAt(l, p) \in Seq(S) /\ Len(RemoveAt(l, p)) = Len(l) - 1
         /\ \A n \in 1 .. Len(l) - 1 : RemoveAt(l, p)[n] = IF n < p THEN l[n] ELSE l[n + 1]
<1> DEFINE a == SubSeq(l, 1, p - 1)
           b == SubSeq(l, p + 1, Len(l))
<1>1. Len(l) \in Nat /\ p \in Nat /\ \A i \in 1 .. Len(l) : l[i] \in S
  BY ElementOfSeq, LenProperties
<1>2. /\ a \in Seq(S) /\ Len(a) = p - 1
      /\ \A i \in 1 .. p - 1 : a[i] = l[i]
  BY <1>1, SubSeqProperties
<1>3. /\ b \in Seq(S) /\ Len(b) = Len(l) - p
      /\ \A i \in 1 .. Len(l) - p : b[i] = l[p + i]
  <2>1. \A i \in p + 1 .. Len(l) : l[i] \in S
    BY <1>1
  <2>2. /\ b \in Seq(S) /\ Len(b) = IF p + 1 <= Len(l) THEN Len(l) - (p + 1) + 1 ELSE 0
        /\ \A i \in 1 .. Len(l) - (p + 1) + 1 : b[i] = l[(p + 1) + i - 1]
    BY <1>1, <2>1, SubSeqProperties
  <2>3. Len(b) = Len(l) - p
    BY <1>1, <2>2
  <2>4. \A i \in 1 .. Len(l) - p : i \in 1 .. Len(l) - (p + 1) + 1 /\ (p + 1) + i - 1 = p + i
    BY <1>1
  <2> QED BY <2>2, <2>3, <2>4
<1>4. RemoveAt(l, p) = a \o b
  BY DEF RemoveAt
<1> HIDE DEF a, b
<1>5. /\ a \o b \in Seq(S) /\ Len(a \o b) = Len(a) + Len(b)
      /\ \A n \in 1 .. Len(a) + Len(b) : (a \o b)[n] = IF n <= Len(a) THEN a[n] ELSE b[n - Len(a)]
  BY <1>2, <1>3, ConcatProperties
<1>6. ASSUME NEW n \in 1 .. Len(l) - 1
      PROVE  (a \o b)[n] = IF n < p THEN l[n] ELSE l[n + 1]
  <2>1. CASE n < p
    BY <1>1, <1>2, <1>3, <1>5, <2>1
  <2>2. CASE ~(n < p)
    <3>1. n - (p - 1) \in 1 .. Len(l) - p /\ p + (n - (p - 1)) = n + 1
      BY <1>1, <2>2
    <3>2. n \in 1 .. Len(a) + Len(b) /\ ~(n <= Len(a)) /\ n - Len(a) = n - (p - 1)
      BY <1>1, <1>2, <1>3, <2>2
    <3>3. (a \o b)[n] = b[n - (p - 1)]
      BY <1>5, <3>2
    <3> QED BY <1>3, <2>2, <3>1, <3>3
  <2> QED BY <2>1, <2>2
<1> QED BY <1>1, <1>2, <1>3, <1>4, <1>5, <1>6

LEMMA PutInFront ==
  ASSUME NEW S, NEW e \in S, NEW m \in Seq(S)
  PROVE  /\ <<e>> \o m \in Seq(S) /\ Len(<<e>> \o m) = Len(m) + 1
         /\ \A n \in 1 .. Len(m) + 1 : (<<e>> \o m)[n] = IF n = 1 THEN e ELSE m[n - 1]
<1>1. <<e>> \in Seq(S) /\ Len(<<e>>) = 1 /\ <<e>>[1] = e /\ Len(m) \in Nat
  OBVIOUS
<1>2. /\ <<e>> \o m \in Seq(S) /\ Len(<<e>> \o m) = 1 + Len(m)
      /\ \A n \in 1 .. 1 + Len(m) : (<<e>> \o m)[n] = IF n <= 1 THEN <<e>>[n] ELSE m[n - 1]
  BY <1>1, ConcatProperties
<1> QED BY <1>1, <1>2

LEMMA PrefixOf ==
  ASSUME NEW S, NEW f \in Seq(S), NEW n \in Nat, n <= Len(f)
  PROVE  /\ SubSeq(f, 1, n) \in Seq(S) /\ Len(SubSeq(f, 1, n)) = n
         /\ \A i \in 1 .. n : SubSeq(f, 1, n)[i] = f[i] /\ i \in 1 .. Len(f)
<1>1. Len(f) \in Nat /\ \A i \in 1 .. n : f[i] \in S /\ i \in 1 .. Len(f)
  BY ElementOfSeq, LenProperties
<1> QED BY <1>1, SubSeqProperties

\* What is left without a key: the other entries, and no more of them.
LEMMA WithoutKey ==
  ASSUME NEW l, LruOK(l), NEW k
  PROVE  /\ Without(l, k) \in Seq(Contents \X Artifact)
         /\ Len(Without(l, k)) = IF Cached(l, k) THEN Len(l) - 1 ELSE Len(l)
         /\ \A n \in 1 .. Len(Without(l, k)) : \E i \in 1 .. Len(l) :
              Without(l, k)[n] = l[i] /\ l[i][1] # k
         /\ \A n, n2 \in 1 .. Len(Without(l, k)) :
              Without(l, k)[n][1] = Without(l, k)[n2][1] => n = n2
<1>S. PICK S : S = Contents \X Artifact
  OBVIOUS
<1>m. PICK m : m = Without(l, k)
  OBVIOUS
<1>1. l \in Seq(S) /\ Len(l) \in Nat /\ \A i, i2 \in 1 .. Len(l) : l[i][1] = l[i2][1] => i = i2
  BY <1>S DEF LruOK
<1>2. CASE ~Cached(l, k)
  <2>1. Without(l, k) = l
    BY <1>2 DEF Without
  <2> QED BY <1>1, <1>2, <1>S, <2>1 DEF Cached
<1>3. CASE Cached(l, k)
  <2>1. PICK p \in 1 .. Len(l) : p = Place(l, k) /\ l[p][1] = k
    BY <1>3, PlaceOfCached
  <2>2. m = RemoveAt(l, p)
    BY <1>3, <1>m, <2>1 DEF Without
  <2>3. /\ m \in Seq(S) /\ Len(m) = Len(l) - 1
        /\ \A n \in 1 .. Len(l) - 1 : m[n] = IF n < p THEN l[n] ELSE l[n + 1]
    BY <1>1, <2>1, <2>2, RemovedPlace
  <2> DEFINE from(n) == IF n < p THEN n ELSE n + 1
  <2>4. ASSUME NEW n \in 1 .. Len(m)
        PROVE  from(n) \in 1 .. Len(l) /\ from(n) # p /\ m[n] = l[from(n)]
    BY <1>1, <2>1, <2>3
  <2>5. \A n, n2 \in 1 .. Len(m) : from(n) = from(n2) => n = n2
    BY <1>1, <2>1, <2>3
  <2> HIDE DEF from
  <2>6. \A n \in 1 .. Len(m) : \E i \in 1 .. Len(l) : m[n] = l[i] /\ l[i][1] # k
    <3> SUFFICES ASSUME NEW n \in 1 .. Len(m) PROVE \E i \in 1 .. Len(l) : m[n] = l[i] /\ l[i][1] # k
      OBVIOUS
    <3>1. l[from(n)][1] # k
      BY <1>1, <2>1, <2>4
    <3> QED BY <2>4, <3>1
  <2>7. \A n, n2 \in 1 .. Len(m) : m[n][1] = m[n2][1] => n = n2
    BY <1>1, <2>4, <2>5
  <2> QED BY <1>3, <1>m, <1>S, <2>3, <2>6, <2>7
<1> QED BY <1>2, <1>3

\* An entry in front of the others.
Fronted(h, l, k) == <<<<k, Compiled(h, k)>>>> \o Without(l, k)

\* A map in order and truthful, but for its length.
Orderly(h, f) ==
  /\ f \in Seq(Contents \X Artifact) /\ Truthful(h, f)
  /\ \A n, n2 \in 1 .. Len(f) : f[n][1] = f[n2][1] => n = n2

LEMMA InFront ==
  ASSUME NEW h \in Hosts, NEW l, LruOK(l), Truthful(h, l), NEW k \in Contents
  PROVE  /\ Orderly(h, Fronted(h, l, k))
         /\ Len(Fronted(h, l, k)) = Len(Without(l, k)) + 1
<1>f. PICK f : f = Fronted(h, l, k)
  OBVIOUS
<1>S. PICK S : S = Contents \X Artifact
  OBVIOUS
<1>m. PICK m : m = Without(l, k)
  OBVIOUS
<1>e. PICK e : e = <<k, Compiled(h, k)>>
  OBVIOUS
<1>1. e \in S /\ e[1] = k /\ e[2] = Compiled(h, k)
  BY <1>S, <1>e, CompiledIsArtifact
<1>2. /\ m \in Seq(S) /\ Len(m) \in Nat
      /\ \A n \in 1 .. Len(m) : \E i \in 1 .. Len(l) : m[n] = l[i] /\ l[i][1] # k
      /\ \A n, n2 \in 1 .. Len(m) : m[n][1] = m[n2][1] => n = n2
  <2>1. Without(l, k) \in Seq(Contents \X Artifact)
    BY WithoutKey
  <2>2. m \in Seq(S) /\ Len(m) \in Nat
    BY <1>S, <1>m, <2>1, LenProperties
  <2> QED BY <1>m, <2>2, WithoutKey
<1>3. \A n \in 1 .. Len(m) : m[n][1] # k /\ m[n][2] = Compiled(h, m[n][1])
  BY <1>2 DEF Truthful
<1>4. f = <<e>> \o m
  BY <1>f, <1>m, <1>e DEF Fronted
<1>5. /\ f \in Seq(S) /\ Len(f) = Len(m) + 1
      /\ \A n \in 1 .. Len(f) : f[n] = IF n = 1 THEN e ELSE m[n - 1]
  <2>1. /\ <<e>> \o m \in Seq(S) /\ Len(<<e>> \o m) = Len(m) + 1
        /\ \A n \in 1 .. Len(m) + 1 : (<<e>> \o m)[n] = IF n = 1 THEN e ELSE m[n - 1]
    BY <1>1, <1>2, PutInFront
  <2> QED BY <1>4, <2>1
<1>6. ASSUME NEW n \in 1 .. Len(f), n # 1
      PROVE  n - 1 \in 1 .. Len(m) /\ f[n] = m[n - 1]
  BY <1>2, <1>5, <1>6
<1>7. 1 \in 1 .. Len(f) /\ f[1] = e
  BY <1>2, <1>5
<1>8. \A n \in 1 .. Len(f) : f[n][2] = Compiled(h, f[n][1])
  BY <1>1, <1>3, <1>6, <1>7
<1>9. ASSUME NEW n \in 1 .. Len(f), NEW n2 \in 1 .. Len(f), f[n][1] = f[n2][1] PROVE n = n2
  <2>1. CASE n = 1 \/ n2 = 1
    <3>1. \A i \in 1 .. Len(f) : i # 1 => f[i][1] # k
      BY <1>3, <1>6
    <3> QED BY <1>1, <1>7, <1>9, <2>1, <3>1
  <2>2. CASE n # 1 /\ n2 # 1
    <3>1. n - 1 = n2 - 1
      BY <1>2, <1>6, <1>9, <2>2
    <3> QED BY <1>2, <1>5, <3>1
  <2> QED BY <2>1, <2>2
<1> QED BY <1>S, <1>f, <1>m, <1>5, <1>8, <1>9 DEF Orderly, Truthful

LEMMA LookupIsTruthful ==
  ASSUME NEW h \in Hosts, NEW l, Truthful(h, l), NEW k, Cached(l, k)
  PROVE  Lookup(l, k) = Compiled(h, k)
BY PlaceOfCached DEF Lookup, Truthful

\* A hit keeps a map in order and truthful.
LEMMA TouchedKeeps ==
  ASSUME NEW h \in Hosts, NEW l, LruOK(l), Truthful(h, l), NEW k \in Contents, Cached(l, k)
  PROVE  LruOK(Touched(l, k)) /\ Truthful(h, Touched(l, k))
<1>1. Touched(l, k) = Fronted(h, l, k)
  BY LookupIsTruthful DEF Touched, Fronted
<1>2. Orderly(h, Touched(l, k)) /\ Len(Touched(l, k)) = Len(Without(l, k)) + 1
  BY <1>1, InFront
<1>3. l \in Seq(Contents \X Artifact) /\ Len(l) <= Cap
  BY DEF LruOK
<1>4. Len(Without(l, k)) = Len(l) - 1
  BY WithoutKey
<1>5. Len(Touched(l, k)) <= Cap
  BY <1>2, <1>3, <1>4, LenProperties, CacheAssumption
<1> QED BY <1>2, <1>5 DEF LruOK, Orderly

\* So does a put, which drops the last entry of a full map.
LEMMA PutKeeps ==
  ASSUME NEW h \in Hosts, NEW l, LruOK(l), Truthful(h, l), NEW k \in Contents
  PROVE  LruOK(WithPut(l, k, Compiled(h, k))) /\ Truthful(h, WithPut(l, k, Compiled(h, k)))
<1>S. PICK S : S = Contents \X Artifact
  OBVIOUS
<1>f. PICK f : f = Fronted(h, l, k)
  OBVIOUS
<1>n. PICK n : n = IF Len(f) > Cap THEN Cap ELSE Len(f)
  OBVIOUS
<1>w. PICK w : w = SubSeq(f, 1, n)
  OBVIOUS
<1>1. WithPut(l, k, Compiled(h, k)) = w
  BY <1>f, <1>n, <1>w DEF WithPut, Fronted
<1>2. Orderly(h, f)
  BY <1>f, InFront
<1>3. f \in Seq(S) /\ Len(f) \in Nat
  BY <1>S, <1>2, LenProperties DEF Orderly
<1>4. n \in Nat /\ n <= Cap /\ n <= Len(f)
  BY <1>3, <1>n, CacheAssumption
<1>5. w \in Seq(S) /\ Len(w) = n /\ \A i \in 1 .. n : w[i] = f[i] /\ i \in 1 .. Len(f)
  BY <1>3, <1>4, <1>w, PrefixOf
<1>6. Truthful(h, w) /\ \A i, i2 \in 1 .. Len(w) : w[i][1] = w[i2][1] => i = i2
  BY <1>2, <1>5 DEF Orderly, Truthful
<1>7. LruOK(w)
  BY <1>S, <1>4, <1>5, <1>6 DEF LruOK
<1> QED BY <1>1, <1>6, <1>7

-----------------------------------------------------------------------------
(* One job moves                                                           *)

\* What is unchanged for a job, and how the rest may change around it.
Undisturbed(e) ==
  /\ stage'[e] = stage[e] /\ bytes'[e] = bytes[e] /\ comp'[e] = comp[e] /\ result'[e] = result[e]
  /\ e \in moved' <=> e \in moved
  /\ e \notin Direct /\ stage[e] \in {"blocking", "read"} => file'[PathOf[e]] = file[PathOf[e]]

OnlyForeignVanish ==
  /\ foreign \subseteq foreign'
  /\ \A k \in Contents : disk[k] # Absent => disk'[k] # Absent \/ k \in foreign'

LEMMA OthersKeep ==
  ASSUME NEW e \in Jobs, JobInv(e), Undisturbed(e), OnlyForeignVanish
  PROVE  JobInv(e)'
<1>1. HasRead(e)' <=> HasRead(e)
  BY DEF Undisturbed, HasRead
<1>2. stage[e] \in {"open", "reload"} => Found(e)'
  <2> SUFFICES ASSUME stage[e] \in {"open", "reload"} PROVE Found(e)'
    OBVIOUS
  <2>1. Found(e) /\ bytes[e] \in Contents
    BY DEF JobInv, HasRead, CacheStage
  <2> QED BY <2>1 DEF Found, Undisturbed, OnlyForeignVanish
<1>3. Whole(e)' = Whole(e)
  BY DEF Undisturbed, Whole
<1> QED BY <1>1, <1>2, <1>3 DEF JobInv, Undisturbed, OnlyForeignVanish

Stages == CacheStage \cup {"new", "blocking", "read", "instantiate", "run", "hostcall", "ended"}

\* A job's step to another stage; it says nothing of the directory and the maps.
Advances(j, s) ==
  /\ Goto(j, s) /\ s \in Stages /\ stage[j] # "ended"
  /\ bytes' = bytes \/ \E c \in Contents : bytes' = [bytes EXCEPT ![j] = c]
  /\ comp' = comp \/ \E a \in Artifact : comp' = [comp EXCEPT ![j] = a]
  /\ s # "ended" => result' = result
  /\ s = "ended" => \E r \in Result \ {"none", "not_started"} : result' = [result EXCEPT ![j] = r]
  /\ left' \in [Jobs -> 0 .. Deadline] /\ waiter' \in [Jobs -> {"none", "waiting", "gone"}]
  /\ faults' \in 0 .. MaxFaults
  /\ UNCHANGED <<file, rewrites, moved, released, ticking>>

MapTypes ==
  /\ DOMAIN mem = Hosts /\ DOMAIN pre = Hosts
  /\ \A h \in Hosts : LruOK(mem[h]) /\ LruOK(pre[h])

LEMMA AdvanceEffect ==
  ASSUME IInv, NEW j \in Jobs, NEW s, Advances(j, s)
  PROVE  /\ \A e \in Jobs \ {j} : Undisturbed(e)
         /\ \A e \in Jobs : result'[e] = "not_started" <=> result[e] = "not_started"
         /\ result[j] = "none" /\ stage'[j] = s /\ (s # "ended" => result'[j] = "none")
         /\ disk' \in [Contents -> Artifact \cup {Absent}] /\ foreign' \subseteq Contents /\ MapTypes'
              => TypeOK'
<1> USE DEF Advances, Stages
<1>1. /\ stage \in [Jobs -> CacheStage \cup {"new", "blocking", "read", "instantiate", "run", "hostcall", "ended"}]
      /\ bytes \in [Jobs -> Contents \cup {"none"}] /\ comp \in [Jobs -> Artifact \cup {Absent}]
      /\ result \in [Jobs -> Result] /\ \A e \in Jobs : result[e] # "none" <=> stage[e] = "ended"
  BY DEF IInv, TypeOK
<1>2. /\ stage' \in [Jobs -> CacheStage \cup {"new", "blocking", "read", "instantiate", "run", "hostcall", "ended"}]
      /\ stage'[j] = s /\ \A e \in Jobs \ {j} : stage'[e] = stage[e]
  BY <1>1 DEF Goto
<1>3. bytes' \in [Jobs -> Contents \cup {"none"}] /\ \A e \in Jobs \ {j} : bytes'[e] = bytes[e]
  BY <1>1
<1>4. comp' \in [Jobs -> Artifact \cup {Absent}] /\ \A e \in Jobs \ {j} : comp'[e] = comp[e]
  BY <1>1
<1>5. /\ result' \in [Jobs -> Result] /\ \A e \in Jobs \ {j} : result'[e] = result[e]
      /\ result'[j] # "none" <=> s = "ended"
      /\ result'[j] # "not_started" /\ result[j] = "none"
  <2>1. result[j] = "none"
    BY <1>1
  <2>2. CASE s # "ended"
    BY <1>1, <2>1, <2>2
  <2>3. CASE s = "ended"
    BY <1>1, <2>1, <2>3
  <2> QED BY <2>2, <2>3
<1>6. \A e \in Jobs \ {j} : Undisturbed(e)
  BY <1>2, <1>3, <1>4, <1>5 DEF Undisturbed
<1>7. \A e \in Jobs : result'[e] # "none" <=> stage'[e] = "ended"
  BY <1>1, <1>2, <1>5
<1>8. disk' \in [Contents -> Artifact \cup {Absent}] /\ foreign' \subseteq Contents /\ MapTypes'
        => TypeOK'
  BY <1>2, <1>3, <1>4, <1>5, <1>7 DEF IInv, TypeOK, MapTypes
<1> QED BY <1>2, <1>5, <1>6, <1>8

LEMMA AdvanceKeeps ==
  ASSUME IInv, NEW j \in Jobs, NEW s, Advances(j, s), OnlyForeignVanish, JobInv(j)',
         disk' \in [Contents -> Artifact \cup {Absent}], foreign' \subseteq Contents, MapTypes',
         MapsInv', ArtifactsWhole', ForeignInv'
  PROVE  IInv'
<1>1. TypeOK' /\ \A e \in Jobs \ {j} : Undisturbed(e)
  BY AdvanceEffect
<1>2. \A e \in Jobs \ {j} : JobInv(e)'
  BY <1>1, OthersKeep DEF IInv
<1> QED BY <1>1, <1>2 DEF IInv

\* The directory stays as it is.
LEMMA DirectoryStays ==
  ASSUME IInv, NEW j \in Jobs, NEW s, Advances(j, s), UNCHANGED <<disk, foreign>>
  PROVE  /\ OnlyForeignVanish /\ ArtifactsWhole' /\ ForeignInv'
         /\ disk' \in [Contents -> Artifact \cup {Absent}] /\ foreign' \subseteq Contents
<1>1. OnlyForeignVanish /\ ArtifactsWhole'
  BY DEF IInv, OnlyForeignVanish, ArtifactsWhole
<1>2. ForeignInv'
  BY AdvanceEffect DEF IInv, ForeignInv, Version
<1>3. disk' \in [Contents -> Artifact \cup {Absent}] /\ foreign' \subseteq Contents
  BY DEF IInv, TypeOK
<1> QED BY <1>1, <1>2, <1>3

LEMMA MapsStay ==
  ASSUME IInv, UNCHANGED <<mem, pre>>
  PROVE  MapTypes' /\ MapsInv'
BY DEF IInv, TypeOK, MapTypes, MapsInv

\* A job's step that neither the directory nor a map takes part in.
LEMMA QuietKeeps ==
  ASSUME IInv, NEW j \in Jobs, NEW s, Advances(j, s), UNCHANGED <<disk, foreign, mem, pre>>, JobInv(j)'
  PROVE  IInv'
BY AdvanceKeeps, DirectoryStays, MapsStay

\* A step in which one of a host's maps is replaced.
LEMMA MapKeeps ==
  ASSUME IInv, NEW j \in Jobs, NEW s, Advances(j, s), UNCHANGED <<disk, foreign>>, JobInv(j)',
         NEW h \in Hosts, NEW l, LruOK(l), Truthful(h, l),
         \/ mem' = [mem EXCEPT ![h] = l] /\ pre' = pre
         \/ pre' = [pre EXCEPT ![h] = l] /\ mem' = mem
  PROVE  IInv'
<1>1. MapTypes
  BY DEF IInv, TypeOK, MapTypes
<1>2. MapTypes' /\ MapsInv'
  <2>1. CASE mem' = [mem EXCEPT ![h] = l] /\ pre' = pre
    BY <1>1, <2>1 DEF IInv, MapTypes, MapsInv
  <2>2. CASE pre' = [pre EXCEPT ![h] = l] /\ mem' = mem
    BY <1>1, <2>2 DEF IInv, MapTypes, MapsInv
  <2> QED BY <2>1, <2>2
<1> QED BY <1>2, AdvanceKeeps, DirectoryStays

-----------------------------------------------------------------------------
(* From the permit to the bytes                                            *)

\* The facts about constants and types that each step uses.
LEMMA JobFacts ==
  ASSUME IInv, NEW j \in Jobs
  PROVE  /\ HostOf[j] \in Hosts /\ Version(j) = VersionOf[HostOf[j]] /\ Version(j) \in Versions
         /\ j \notin Direct => PathOf[j] \in Paths
         /\ left \in [Jobs -> 0 .. Deadline] /\ waiter \in [Jobs -> {"none", "waiting", "gone"}]
         /\ faults \in 0 .. MaxFaults /\ Deadline \in Nat /\ MaxFaults \in Nat
         /\ DOMAIN Pin \subseteq Jobs \ Direct
         /\ bytes \in [Jobs -> Contents \cup {"none"}] /\ comp \in [Jobs -> Artifact \cup {Absent}]
         /\ stage \in [Jobs -> Stages] /\ file \in [Paths -> Contents \cup {"none"}]
         /\ result \in [Jobs -> Result]
         /\ disk \in [Contents -> Artifact \cup {Absent}] /\ foreign \subseteq Contents
BY CacheAssumption, HostAssumption DEF IInv, TypeOK, Version, Stages

LEMMA SpawnKeeps ==
  ASSUME IInv, NEW j \in Jobs, Spawn(j)
  PROVE  IInv'
<1>1. Advances(j, "blocking")
  BY JobFacts DEF Spawn, Advances, Stages
<1>2. stage'[j] = "blocking" /\ result'[j] = "none"
  BY <1>1, AdvanceEffect
<1>3. file'[PathOf[j]] \in Contents /\ j \notin Direct /\ (j \in DOMAIN Pin => file'[PathOf[j]] = Pin[j])
  BY JobFacts DEF Spawn, DigestMatches
<1>4. JobInv(j)'
  BY <1>2, <1>3 DEF JobInv, HasRead, CacheStage
<1> QED BY <1>1, <1>4, QuietKeeps DEF Spawn

\* A job that ends, other than over the cache, has nothing left to keep.
LEMMA EndKeeps ==
  ASSUME IInv, NEW j \in Jobs, NEW r \in Result \ {"none", "not_started", "cache_error"}, End(j, r),
         stage[j] # "ended", faults' \in 0 .. MaxFaults,
         UNCHANGED <<disk, mem, pre, bytes, comp, foreign, hostVars>>
  PROVE  IInv'
<1>1. Advances(j, "ended")
  BY JobFacts DEF End, Advances, Stages, hostVars
<1>2. stage'[j] = "ended" /\ result'[j] = r
  BY <1>1, AdvanceEffect, JobFacts DEF End
<1>3. JobInv(j)'
  BY <1>2 DEF JobInv, HasRead, CacheStage
<1> QED BY <1>1, <1>3, QuietKeeps

LEMMA RunComponentMeasuredKeeps ==
  ASSUME IInv, NEW j \in Jobs, RunComponentMeasured(j)
  PROVE  IInv'
<1>1. Advances(j, "read")
  BY JobFacts DEF RunComponentMeasured, Advances, Stages
<1>2. stage'[j] = "read" /\ result'[j] = "none"
  BY <1>1, AdvanceEffect
<1>3. JobInv(j)
  BY DEF IInv
<1>4. JobInv(j)'
  BY <1>2, <1>3 DEF RunComponentMeasured, JobInv, HasRead, CacheStage
<1> QED BY <1>1, <1>4, QuietKeeps DEF RunComponentMeasured

LEMMA ReadComponentKeeps ==
  ASSUME IInv, NEW j \in Jobs, ReadComponent(j)
  PROVE  IInv'
<1>1. /\ file[PathOf[j]] \in Contents
      /\ j \in DOMAIN Pin \ moved => file[PathOf[j]] = Pin[j]
  BY DEF IInv, JobInv, ReadComponent
<1>2. Advances(j, "mem")
  BY <1>1, JobFacts DEF ReadComponent, Advances, Stages, CacheStage, hostVars
<1>3. stage'[j] = "mem" /\ result'[j] = "none"
  BY <1>2, AdvanceEffect
<1>4. bytes'[j] = file[PathOf[j]] /\ moved' = moved
  BY JobFacts DEF ReadComponent, hostVars
<1>5. JobInv(j)'
  BY <1>1, <1>3, <1>4 DEF JobInv, HasRead
<1> QED BY <1>2, <1>5, QuietKeeps DEF ReadComponent

LEMMA RunFromOciKeeps ==
  ASSUME IInv, NEW j \in Jobs, NEW c \in Contents, RunFromOci(j, c)
  PROVE  IInv'
<1>1. Advances(j, "mem")
  <2>1. left' \in [Jobs -> 0 .. Deadline]
    BY JobFacts DEF RunFromOci
  <2>2. stage[j] # "ended" /\ Goto(j, "mem") /\ "mem" \in Stages
    BY DEF RunFromOci, Stages, CacheStage
  <2>3. \E b \in Contents : bytes' = [bytes EXCEPT ![j] = b]
    BY DEF RunFromOci
  <2> QED BY <2>1, <2>2, <2>3, JobFacts DEF RunFromOci, Advances
<1>2. stage'[j] = "mem" /\ result'[j] = "none"
  BY <1>1, AdvanceEffect
<1>3. bytes'[j] = c /\ j \notin DOMAIN Pin
  BY JobFacts DEF RunFromOci
<1>4. JobInv(j)'
  BY <1>2, <1>3 DEF JobInv, HasRead
<1> QED BY <1>1, <1>4, QuietKeeps DEF RunFromOci

-----------------------------------------------------------------------------
(* From the bytes to the instance                                          *)

\* What a job at a stage of the cache has.
LEMMA AtCache ==
  ASSUME IInv, NEW j \in Jobs, HasRead(j)
  PROVE  /\ bytes[j] \in Contents /\ Whole(j) \in Artifact
         /\ Whole(j).of = bytes[j] /\ Whole(j).by = Version(j)
         /\ Key(bytes[j]) = bytes[j] /\ result[j] = "none"
<1>1. bytes[j] \in Contents
  BY DEF IInv, JobInv
<1>2. stage[j] # "ended"
  BY DEF HasRead, CacheStage
<1> QED BY <1>1, <1>2, JobFacts, CompiledIsArtifact DEF Whole, Compiled, Key, IInv, TypeOK

(***************************************************************************)
(* A step within the cache and the instantiation keeps the bytes.  It goes *)
(* on with the component where one is held, to a file that is there or a   *)
(* key that is foreign, and otherwise freely.                              *)
(***************************************************************************)
Onward(j, s) ==
  /\ Advances(j, s) /\ s \in (CacheStage \ {"mem"}) \cup {"instantiate", "run", "hostcall"}
  /\ HasRead(j) /\ bytes' = bytes
  /\ s \in {"put", "pre", "link", "instantiate", "run", "hostcall"} => comp'[j] = Whole(j)
  /\ s \in {"open", "reload"} => disk'[bytes[j]] # Absent \/ bytes[j] \in foreign'
  /\ s = "evict" => bytes[j] \in foreign'

LEMMA OnwardKeepsJob ==
  ASSUME IInv, NEW j \in Jobs, NEW s, Onward(j, s)
  PROVE  JobInv(j)'
<1>1. JobInv(j) /\ bytes[j] \in Contents
  BY AtCache DEF IInv, Onward
<1>2. stage'[j] = s /\ result'[j] = "none" /\ bytes'[j] = bytes[j] /\ moved' = moved
  <2>1. s # "ended"
    BY DEF Onward, CacheStage
  <2> QED BY <2>1, AdvanceEffect DEF Onward, Advances
<1>3. Whole(j)' = Whole(j) /\ (Found(j)' <=> disk'[bytes[j]] # Absent \/ bytes[j] \in foreign')
  BY <1>2 DEF Whole, Found
<1>4. s \notin {"blocking", "read"}
  BY DEF Onward, CacheStage
<1>5. HasRead(j) /\ (j \in DOMAIN Pin \ moved => bytes[j] = Pin[j])
  BY <1>1 DEF Onward, JobInv
<1> QED BY <1>1, <1>2, <1>3, <1>4, <1>5 DEF JobInv, Onward

LEMMA MemLookupKeeps ==
  ASSUME IInv, NEW j \in Jobs, MemLookup(j), UNCHANGED hostVars
  PROVE  IInv'
<1>1. HasRead(j)
  BY DEF MemLookup, HasRead, CacheStage
<1>h. PICK h \in Hosts : h = HostOf[j]
  BY JobFacts
<1>k. PICK k \in Contents : k = bytes[j] /\ Key(bytes[j]) = k
  BY <1>1, AtCache
<1>2. LruOK(mem[h]) /\ Truthful(h, mem[h])
  BY DEF IInv, TypeOK, MapsInv
<1>3. CASE Cached(mem[h], k)
  <2>1. /\ comp' = [comp EXCEPT ![j] = Lookup(mem[h], k)] /\ Goto(j, "pre")
        /\ mem' = [mem EXCEPT ![h] = Touched(mem[h], k)]
    BY <1>3, <1>h, <1>k DEF MemLookup
  <2>2. Lookup(mem[h], k) = Whole(j)
    BY <1>2, <1>3, <1>h, <1>k, LookupIsTruthful DEF Whole
  <2>3. Onward(j, "pre")
    BY <1>1, <2>1, <2>2, AtCache, JobFacts DEF Onward, Advances, MemLookup, Stages, CacheStage, hostVars
  <2>4. LruOK(Touched(mem[h], k)) /\ Truthful(h, Touched(mem[h], k))
    BY <1>2, <1>3, TouchedKeeps
  <2> QED BY <2>1, <2>3, <2>4, OnwardKeepsJob, MapKeeps DEF Onward, MemLookup
<1>4. CASE ~Cached(mem[h], k)
  <2>1. Onward(j, "exists") /\ mem' = mem
    BY <1>1, <1>4, <1>h, <1>k, AtCache, JobFacts
    DEF Onward, Advances, MemLookup, Stages, CacheStage, hostVars
  <2> QED BY <2>1, OnwardKeepsJob, QuietKeeps DEF Onward, MemLookup
<1> QED BY <1>3, <1>4

LEMMA ArtifactExistsKeeps ==
  ASSUME IInv, NEW j \in Jobs, ArtifactExists(j), UNCHANGED hostVars
  PROVE  IInv'
<1>1. HasRead(j)
  BY DEF ArtifactExists, HasRead, CacheStage
<1>2. PICK s \in {"compile", "open"} : Goto(j, s) /\ (s = "open" => disk[bytes[j]] # Absent)
  BY <1>1, AtCache DEF ArtifactExists
<1>3. Onward(j, s)
  BY <1>1, <1>2, JobFacts DEF Onward, Advances, ArtifactExists, Stages, CacheStage, hostVars
<1> QED BY <1>3, OnwardKeepsJob, QuietKeeps DEF Onward, ArtifactExists

\* A file of the right version is the right artifact, and any other is foreign.
LEMMA WhatIsThere ==
  ASSUME IInv, NEW j \in Jobs, HasRead(j)
  PROVE  IF disk[bytes[j]] # Absent /\ Loadable(disk[bytes[j]], j)
         THEN disk[bytes[j]] = Whole(j) /\ disk[bytes[j]] \in Artifact
         ELSE Found(j) => bytes[j] \in foreign
<1>a. PICK a : a = disk[bytes[j]]
  OBVIOUS
<1>1. a # Absent => a \in Artifact /\ a.of = bytes[j]
  BY <1>a, AtCache, JobFacts DEF IInv, ArtifactsWhole
<1>2. CASE a # Absent /\ Loadable(a, j)
  <2>1. a.by = Version(j)
    BY <1>2 DEF Loadable
  <2>2. a = Whole(j)
    BY <1>1, <1>2, <2>1, AtCache DEF Artifact
  <2> QED BY <1>a, <1>1, <1>2, <2>2
<1>3. CASE ~(a # Absent /\ Loadable(a, j))
  <2>1. a # Absent => bytes[j] \in foreign
    BY <1>a, <1>3, AtCache DEF Loadable, IInv, ForeignInv
  <2> QED BY <1>a, <1>3, <2>1 DEF Found
<1> QED BY <1>2, <1>3, <1>a

LEMMA OpenArtifactKeeps ==
  ASSUME IInv, NEW j \in Jobs, OpenArtifact(j), UNCHANGED hostVars
  PROVE  IInv'
<1>1. HasRead(j) /\ Found(j) /\ Key(bytes[j]) = bytes[j]
  BY AtCache DEF OpenArtifact, HasRead, CacheStage, IInv, JobInv
<1>2. CASE disk[bytes[j]] # Absent /\ Loadable(disk[bytes[j]], j)
  <2>1. disk[bytes[j]] = Whole(j) /\ disk[bytes[j]] \in Artifact
    BY <1>1, <1>2, WhatIsThere
  <2>2. comp' = [comp EXCEPT ![j] = disk[bytes[j]]] /\ Goto(j, "put")
    BY <1>1, <1>2 DEF OpenArtifact
  <2>3. Onward(j, "put")
    BY <1>1, <2>1, <2>2, JobFacts DEF Onward, Advances, OpenArtifact, Stages, CacheStage, hostVars
  <2> QED BY <2>3, OnwardKeepsJob, QuietKeeps DEF Onward, OpenArtifact
<1>3. CASE ~(disk[bytes[j]] # Absent /\ Loadable(disk[bytes[j]], j))
  <2>1. bytes[j] \in foreign
    BY <1>1, <1>3, WhatIsThere
  <2>2. UNCHANGED comp /\ Goto(j, "evict")
    BY <1>1, <1>3 DEF OpenArtifact
  <2>3. Onward(j, "evict")
    BY <1>1, <2>1, <2>2, JobFacts DEF Onward, Advances, OpenArtifact, Stages, CacheStage, hostVars
  <2> QED BY <2>3, OnwardKeepsJob, QuietKeeps DEF Onward, OpenArtifact
<1> QED BY <1>2, <1>3

LEMMA EvictArtifactKeeps ==
  ASSUME IInv, NEW j \in Jobs, EvictArtifact(j), UNCHANGED hostVars
  PROVE  IInv'
<1>1. HasRead(j) /\ bytes[j] \in foreign
  BY DEF EvictArtifact, HasRead, CacheStage, IInv, JobInv
<1>2. disk' = [disk EXCEPT ![bytes[j]] = Absent] /\ foreign' = foreign
  BY <1>1, AtCache DEF EvictArtifact
<1>3. Onward(j, "compile")
  BY <1>1, JobFacts DEF Onward, Advances, EvictArtifact, Stages, CacheStage, hostVars
<1>4. \A k \in Contents : disk'[k] = IF k = bytes[j] THEN Absent ELSE disk[k]
  BY <1>2, JobFacts
<1>5. OnlyForeignVanish
  BY <1>1, <1>2, <1>4 DEF OnlyForeignVanish
<1>6. ArtifactsWhole'
  BY <1>4 DEF IInv, ArtifactsWhole
<1>7. ForeignInv'
  BY <1>2, <1>3, <1>4, AdvanceEffect DEF Onward, IInv, ForeignInv, Version
<1>8. disk' \in [Contents -> Artifact \cup {Absent}] /\ foreign' \subseteq Contents
  BY <1>2, JobFacts
<1>9. MapTypes' /\ MapsInv'
  BY MapsStay DEF EvictArtifact
<1> QED BY <1>3, <1>5, <1>6, <1>7, <1>8, <1>9, OnwardKeepsJob, AdvanceKeeps DEF Onward

LEMMA CompileKeeps ==
  ASSUME IInv, NEW j \in Jobs, Compile(j), UNCHANGED hostVars
  PROVE  IInv'
<1>1. HasRead(j) /\ stage[j] # "ended"
  BY DEF Compile, HasRead, CacheStage
<1>2. CASE bytes[j] \in Invalid
  BY <1>1, <1>2, EndKeeps, JobFacts DEF Compile, Result
<1>3. CASE bytes[j] \notin Invalid
  <2>1. Onward(j, "persist")
    BY <1>1, <1>3, JobFacts DEF Onward, Advances, Compile, Stages, CacheStage, hostVars
  <2> QED BY <2>1, OnwardKeepsJob, QuietKeeps DEF Onward, Compile
<1> QED BY <1>2, <1>3

LEMMA PersistKeeps ==
  ASSUME IInv, NEW j \in Jobs, Persist(j), UNCHANGED hostVars
  PROVE  IInv'
<1>1. HasRead(j)
  BY DEF Persist, HasRead, CacheStage
<1>w. PICK w \in Artifact : w = Whole(j) /\ w.of = bytes[j] /\ w.by = Version(j)
  BY <1>1, AtCache
<1>2. /\ disk' = [disk EXCEPT ![bytes[j]] = w]
      /\ foreign' = IF Strange(Version(j)) THEN foreign \cup {bytes[j]} ELSE foreign
  BY <1>1, <1>w, AtCache, JobFacts DEF Persist, Whole, Compiled
<1>3. \A k \in Contents : disk'[k] = IF k = bytes[j] THEN w ELSE disk[k]
  BY <1>2, JobFacts
<1>4. bytes[j] \in Contents /\ w # Absent
  <2>1. w.of # "none"
    BY <1>1, <1>w, AtCache, CacheAssumption
  <2> QED BY <1>1, AtCache, <2>1 DEF Absent
<1>5. foreign \subseteq foreign' /\ foreign' \subseteq Contents
  BY <1>2, <1>4, JobFacts
<1>6. Onward(j, "reload")
  <2>1. disk'[bytes[j]] # Absent
    BY <1>3, <1>4
  <2> QED BY <1>1, <2>1, JobFacts DEF Onward, Advances, Persist, Stages, CacheStage, hostVars
<1>7. OnlyForeignVanish
  BY <1>3, <1>4, <1>5 DEF OnlyForeignVanish
<1>8. ArtifactsWhole'
  <2>1. w.by # Garbage
    BY <1>w, JobFacts, CacheAssumption
  <2> QED BY <1>3, <1>w, <2>1 DEF IInv, ArtifactsWhole
<1>9. ForeignInv'
  <2> SUFFICES ASSUME NEW k \in Contents, NEW e \in Jobs, disk'[k] # Absent,
                      result'[e] # "not_started", disk'[k].by # Version(e)
               PROVE  k \in foreign'
    BY DEF ForeignInv, Version
  <2>1. result[e] # "not_started"
    BY <1>6, AdvanceEffect DEF Onward
  <2>2. CASE k = bytes[j]
    <3>1. Version(e) # Version(j)
      BY <1>3, <1>w, <2>2
    <3>2. Strange(Version(j))
      BY <2>1, <3>1 DEF Strange
    <3> QED BY <1>2, <2>2, <3>2
  <2>3. CASE k # bytes[j]
    BY <1>3, <1>5, <2>1, <2>3 DEF IInv, ForeignInv
  <2> QED BY <2>2, <2>3
<1>10. disk' \in [Contents -> Artifact \cup {Absent}]
  BY <1>2, JobFacts
<1>11. MapTypes' /\ MapsInv'
  BY MapsStay DEF Persist
<1> QED BY <1>5, <1>6, <1>7, <1>8, <1>9, <1>10, <1>11, OnwardKeepsJob, AdvanceKeeps DEF Onward

\* A reload that finds no artifact of its version fails, under a foreign key.
LEMMA ReloadKeeps ==
  ASSUME IInv, NEW j \in Jobs, Reload(j), UNCHANGED hostVars
  PROVE  IInv'
<1>1. HasRead(j) /\ Found(j) /\ Key(bytes[j]) = bytes[j]
  BY AtCache DEF Reload, HasRead, CacheStage, IInv, JobInv
<1>2. CASE disk[bytes[j]] # Absent /\ Loadable(disk[bytes[j]], j)
  <2>1. disk[bytes[j]] = Whole(j) /\ disk[bytes[j]] \in Artifact
    BY <1>1, <1>2, WhatIsThere
  <2>2. comp' = [comp EXCEPT ![j] = disk[bytes[j]]] /\ Goto(j, "put") /\ UNCHANGED result
    BY <1>1, <1>2 DEF Reload
  <2>3. Onward(j, "put")
    BY <1>1, <2>1, <2>2, JobFacts DEF Onward, Advances, Reload, Stages, CacheStage, hostVars
  <2> QED BY <2>3, OnwardKeepsJob, QuietKeeps DEF Onward, Reload
<1>3. CASE ~(disk[bytes[j]] # Absent /\ Loadable(disk[bytes[j]], j))
  <2>1. bytes[j] \in foreign
    BY <1>1, <1>3, WhatIsThere
  <2>2. End(j, "cache_error") /\ stage[j] # "ended" /\ comp' = comp
    BY <1>1, <1>3 DEF Reload
  <2>3. Advances(j, "ended")
    <3>1. \E r \in Result \ {"none", "not_started"} : result' = [result EXCEPT ![j] = r]
      BY <2>2 DEF End, Result
    <3> QED BY <2>2, <3>1, JobFacts DEF Reload, End, Advances, Stages, hostVars
  <2>4. stage'[j] = "ended" /\ bytes'[j] = bytes[j] /\ foreign' = foreign
    BY <2>3, AdvanceEffect DEF Reload
  <2>5. JobInv(j)'
    BY <2>1, <2>4 DEF JobInv, HasRead, CacheStage
  <2> QED BY <2>3, <2>5, QuietKeeps DEF Reload
<1> QED BY <1>2, <1>3

LEMMA MemPutKeeps ==
  ASSUME IInv, NEW j \in Jobs, MemPut(j), UNCHANGED hostVars
  PROVE  IInv'
<1>1. HasRead(j) /\ comp[j] = Whole(j)
  BY DEF MemPut, HasRead, CacheStage, IInv, JobInv
<1>h. PICK h \in Hosts : h = HostOf[j]
  BY JobFacts
<1>k. PICK k \in Contents : k = bytes[j] /\ Key(bytes[j]) = k
  BY <1>1, AtCache
<1>2. LruOK(mem[h]) /\ Truthful(h, mem[h])
  BY DEF IInv, TypeOK, MapsInv
<1>3. mem' = [mem EXCEPT ![h] = WithPut(mem[h], k, Compiled(h, k))]
  BY <1>1, <1>h, <1>k DEF MemPut, Whole
<1>4. LruOK(WithPut(mem[h], k, Compiled(h, k))) /\ Truthful(h, WithPut(mem[h], k, Compiled(h, k)))
  BY <1>2, PutKeeps
<1>5. Onward(j, "pre")
  BY <1>1, JobFacts DEF Onward, Advances, MemPut, Stages, CacheStage, hostVars
<1> QED BY <1>3, <1>4, <1>5, OnwardKeepsJob, MapKeeps DEF Onward, MemPut

LEMMA PreLookupKeeps ==
  ASSUME IInv, NEW j \in Jobs, PreLookup(j), UNCHANGED hostVars
  PROVE  IInv'
<1>1. HasRead(j) /\ comp[j] = Whole(j)
  BY DEF PreLookup, HasRead, CacheStage, IInv, JobInv
<1>h. PICK h \in Hosts : h = HostOf[j]
  BY JobFacts
<1>k. PICK k \in Contents : k = bytes[j] /\ Key(bytes[j]) = k
  BY <1>1, AtCache
<1>2. LruOK(pre[h]) /\ Truthful(h, pre[h])
  BY DEF IInv, TypeOK, MapsInv
<1>3. CASE Cached(pre[h], k)
  <2>1. /\ comp' = [comp EXCEPT ![j] = Lookup(pre[h], k)] /\ Goto(j, "instantiate")
        /\ pre' = [pre EXCEPT ![h] = Touched(pre[h], k)]
    BY <1>3, <1>h, <1>k DEF PreLookup
  <2>2. Lookup(pre[h], k) = Whole(j)
    BY <1>2, <1>3, <1>h, <1>k, LookupIsTruthful DEF Whole
  <2>3. Onward(j, "instantiate")
    <3>1. Whole(j) \in Artifact
      BY <1>1, AtCache
    <3>2. Advances(j, "instantiate")
      BY <2>1, <2>2, <3>1, JobFacts DEF Advances, PreLookup, Stages, hostVars
    <3>3. bytes' = bytes /\ comp'[j] = Whole(j)
      BY <2>1, <2>2, JobFacts DEF PreLookup
    <3> QED BY <1>1, <3>2, <3>3 DEF Onward, CacheStage
  <2>4. LruOK(Touched(pre[h], k)) /\ Truthful(h, Touched(pre[h], k))
    BY <1>2, <1>3, TouchedKeeps
  <2> QED BY <2>1, <2>3, <2>4, OnwardKeepsJob, MapKeeps DEF Onward, PreLookup
<1>4. CASE ~Cached(pre[h], k)
  <2>1. Onward(j, "link") /\ pre' = pre
    BY <1>1, <1>4, <1>h, <1>k, AtCache, JobFacts
    DEF Onward, Advances, PreLookup, Stages, CacheStage, hostVars
  <2> QED BY <2>1, OnwardKeepsJob, QuietKeeps DEF Onward, PreLookup
<1> QED BY <1>3, <1>4

LEMMA PrePutKeeps ==
  ASSUME IInv, NEW j \in Jobs, PrePut(j), UNCHANGED hostVars
  PROVE  IInv'
<1>1. HasRead(j) /\ comp[j] = Whole(j)
  BY DEF PrePut, HasRead, CacheStage, IInv, JobInv
<1>h. PICK h \in Hosts : h = HostOf[j]
  BY JobFacts
<1>k. PICK k \in Contents : k = bytes[j] /\ Key(bytes[j]) = k
  BY <1>1, AtCache
<1>2. LruOK(pre[h]) /\ Truthful(h, pre[h])
  BY DEF IInv, TypeOK, MapsInv
<1>3. pre' = [pre EXCEPT ![h] = WithPut(pre[h], k, Compiled(h, k))]
  BY <1>1, <1>h, <1>k DEF PrePut, Whole
<1>4. LruOK(WithPut(pre[h], k, Compiled(h, k))) /\ Truthful(h, WithPut(pre[h], k, Compiled(h, k)))
  BY <1>2, PutKeeps
<1>5. Onward(j, "instantiate")
  <2>1. Advances(j, "instantiate") /\ UNCHANGED <<bytes, comp>>
    BY JobFacts DEF Advances, PrePut, Stages, hostVars
  <2> QED BY <1>1, <2>1 DEF Onward, CacheStage
<1> QED BY <1>3, <1>4, <1>5, OnwardKeepsJob, MapKeeps DEF Onward, PrePut

LEMMA InstantiateKeeps ==
  ASSUME IInv, NEW j \in Jobs, Instantiate(j)
  PROVE  IInv'
<1>1. HasRead(j) /\ comp[j] = Whole(j) /\ stage[j] # "ended"
  BY DEF Instantiate, HasRead, CacheStage, IInv, JobInv
<1>2. CASE Goto(j, "run") /\ UNCHANGED result
  <2>1. Onward(j, "run")
    <3>1. Advances(j, "run") /\ UNCHANGED <<bytes, comp>>
      BY <1>2, JobFacts DEF Advances, Instantiate, Stages, hostVars
    <3> QED BY <1>1, <3>1 DEF Onward, CacheStage
  <2> QED BY <2>1, OnwardKeepsJob, QuietKeeps DEF Onward, Instantiate
<1>3. CASE End(j, "out_of_memory")
  BY <1>1, <1>3, EndKeeps, JobFacts DEF Instantiate, Result
<1> QED BY <1>2, <1>3 DEF Instantiate

\* Between the guest and the host nothing else changes.
LEMMA HostCallKeeps ==
  ASSUME IInv, NEW j \in Jobs, EnterHostCall(j) \/ LeaveHostCall(j)
  PROVE  IInv'
<1>1. HasRead(j) /\ comp[j] = Whole(j) /\ stage[j] # "ended"
  BY DEF EnterHostCall, LeaveHostCall, HasRead, IInv, JobInv
<1>2. PICK s \in {"run", "hostcall"} : Goto(j, s)
  BY DEF EnterHostCall, LeaveHostCall
<1>3. UNCHANGED <<disk, mem, pre, bytes, comp, result, faults, foreign, hostVars>>
  BY DEF EnterHostCall, LeaveHostCall
<1>4. Onward(j, s)
  <2>1. Advances(j, s) /\ UNCHANGED <<bytes, comp>>
    BY <1>1, <1>2, <1>3, JobFacts DEF Advances, Stages, hostVars
  <2> QED BY <1>1, <2>1 DEF Onward, CacheStage
<1> QED BY <1>3, <1>4, OnwardKeepsJob, QuietKeeps DEF Onward

\* The other ends: refused, no room for the artifact, the guest's own, the deadline.
LEMMA OtherEndsKeep ==
  ASSUME IInv, NEW j \in Jobs,
         \/ Refuse(j) \/ EpochTrap(j) \/ (PersistFails(j) /\ UNCHANGED hostVars)
         \/ \E r \in Outcomes : GuestEnds(j, r)
  PROVE  IInv'
<1>1. CASE Refuse(j)
  BY <1>1, EndKeeps, JobFacts DEF Refuse, Result
<1>2. CASE EpochTrap(j)
  BY <1>2, EndKeeps, JobFacts DEF EpochTrap, Result
<1>3. CASE PersistFails(j) /\ UNCHANGED hostVars
  <2>1. faults' \in 0 .. MaxFaults
    BY <1>3, JobFacts DEF PersistFails
  <2> QED BY <1>3, <2>1, EndKeeps DEF PersistFails, Result
<1>4. ASSUME NEW r \in Outcomes, GuestEnds(j, r) PROVE IInv'
  <2>1. r \in Result \ {"none", "not_started", "cache_error"}
    BY DEF Result, Outcomes
  <2> QED BY <1>4, <2>1, EndKeeps, JobFacts DEF GuestEnds
<1> QED BY <1>1, <1>2, <1>3, <1>4

-----------------------------------------------------------------------------
(* Files, waiters and hosts                                                *)

\* A step that leaves the cache alone and writes no file that is about to be read.
LEMMA CacheStaysKeeps ==
  ASSUME IInv, UNCHANGED cacheVars,
         file' \in [Paths -> Contents \cup {"none"}], rewrites' \in 0 .. MaxRewrites,
         moved \subseteq moved', moved' \subseteq Jobs,
         left' \in [Jobs -> 0 .. Deadline], waiter' \in [Jobs -> {"none", "waiting", "gone"}],
         released' \subseteq Hosts, ticking' \subseteq Hosts,
         \A j \in Jobs \ Direct : stage[j] \in {"blocking", "read"} =>
            /\ file'[PathOf[j]] \in Contents
            /\ j \notin moved' => file'[PathOf[j]] = file[PathOf[j]]
  PROVE  IInv'
<1> USE DEF cacheVars
<1>1. TypeOK'
  BY DEF IInv, TypeOK
<1>2. MapsInv' /\ ArtifactsWhole' /\ ForeignInv'
  BY DEF IInv, MapsInv, ArtifactsWhole, ForeignInv
<1>3. ASSUME NEW j \in Jobs PROVE JobInv(j)'
  <2>1. JobInv(j)
    BY DEF IInv
  <2>2. (HasRead(j)' <=> HasRead(j)) /\ (Found(j)' <=> Found(j)) /\ Whole(j)' = Whole(j)
    BY DEF HasRead, Found, Whole
  <2> QED BY <2>1, <2>2 DEF JobInv
<1> QED BY <1>1, <1>2, <1>3 DEF IInv

LEMMA RewriteKeeps ==
  ASSUME IInv, NEW p \in Paths, NEW c \in Contents, Rewrite(p, c)
  PROVE  IInv'
<1>1. /\ file' = [file EXCEPT ![p] = c] /\ file \in [Paths -> Contents \cup {"none"}]
      /\ moved' = moved \cup {j \in Jobs \ Direct : PathOf[j] = p /\ stage[j] \in {"blocking", "read"}}
      /\ UNCHANGED <<cacheVars, left, waiter, released, ticking>>
      /\ rewrites' = rewrites + 1 /\ rewrites < MaxRewrites
  BY DEF Rewrite, IInv, TypeOK
<1>2. ASSUME NEW j \in Jobs \ Direct, stage[j] \in {"blocking", "read"}
      PROVE  /\ file'[PathOf[j]] \in Contents
             /\ j \notin moved' => file'[PathOf[j]] = file[PathOf[j]]
  <2>1. file[PathOf[j]] \in Contents /\ PathOf[j] \in Paths
    BY <1>2, JobFacts DEF IInv, JobInv
  <2>2. CASE PathOf[j] = p
    BY <1>1, <1>2, <2>1, <2>2
  <2>3. CASE PathOf[j] # p
    BY <1>1, <2>1, <2>3
  <2> QED BY <2>2, <2>3
<1>3. rewrites' \in 0 .. MaxRewrites /\ moved' \subseteq Jobs /\ moved \subseteq moved'
  BY <1>1, HostAssumption DEF IInv, TypeOK
<1>4. file' \in [Paths -> Contents \cup {"none"}]
  BY <1>1
<1> QED BY <1>1, <1>2, <1>3, <1>4, CacheStaysKeeps DEF IInv, TypeOK

LEMMA PullKeeps ==
  ASSUME IInv, NEW j \in Jobs, NEW c \in Contents, Pull(j, c)
  PROVE  IInv'
<1>1. /\ file' = [file EXCEPT ![PathOf[j]] = c] /\ file \in [Paths -> Contents \cup {"none"}]
      /\ UNCHANGED <<cacheVars, rewrites, moved, left, waiter, released, ticking>>
      /\ stage[j] = "new" /\ j \in Jobs \ Direct /\ PathOf[j] \in Temporary
  BY DEF Pull, Pulled, IInv, TypeOK
<1>2. ASSUME NEW e \in Jobs \ Direct, stage[e] \in {"blocking", "read"}
      PROVE  file'[PathOf[e]] \in Contents /\ file'[PathOf[e]] = file[PathOf[e]]
  <2>1. file[PathOf[e]] \in Contents /\ PathOf[e] \in Paths
    BY <1>2, JobFacts DEF IInv, JobInv
  <2>2. PathOf[e] # PathOf[j]
    BY <1>1, <1>2, HostAssumption
  <2> QED BY <1>1, <2>1, <2>2
<1>3. file' \in [Paths -> Contents \cup {"none"}]
  BY <1>1
<1> QED BY <1>1, <1>2, <1>3, CacheStaysKeeps DEF IInv, TypeOK

\* Ticks, answers, waiters that give up, and the ends of hosts.
LEMMA AroundKeeps ==
  ASSUME IInv,
         \/ \E j \in Jobs : Answer(j) \/ Abandon(j)
         \/ \E h \in Hosts : EpochTick(h) \/ Release(h) \/ DropHost(h)
         \/ UNCHANGED vars
  PROVE  IInv'
<1>1. UNCHANGED <<cacheVars, file, rewrites, moved>>
  BY DEF Answer, Abandon, EpochTick, Release, DropHost, vars, hostVars
<1>2. left' \in [Jobs -> 0 .. Deadline]
  <2>1. left \in [Jobs -> 0 .. Deadline] /\ Deadline \in Nat
    BY HostAssumption DEF IInv, TypeOK
  <2>2. CASE \E h \in Hosts : EpochTick(h)
    BY <2>1, <2>2 DEF EpochTick
  <2>3. CASE left' = left
    BY <2>1, <2>3
  <2> QED BY <2>2, <2>3 DEF Answer, Abandon, Release, DropHost, vars, hostVars
<1>3. waiter' \in [Jobs -> {"none", "waiting", "gone"}]
  BY DEF Answer, Abandon, EpochTick, Release, DropHost, vars, hostVars, IInv, TypeOK
<1>4. released' \subseteq Hosts /\ ticking' \subseteq Hosts
  BY DEF Answer, Abandon, EpochTick, Release, DropHost, vars, hostVars, IInv, TypeOK
<1>5. /\ file' \in [Paths -> Contents \cup {"none"}] /\ rewrites' \in 0 .. MaxRewrites
      /\ moved' \subseteq Jobs
  BY <1>1 DEF IInv, TypeOK
<1>6. \A j \in Jobs \ Direct : stage[j] \in {"blocking", "read"} => file[PathOf[j]] \in Contents
  BY DEF IInv, JobInv
<1> QED BY <1>1, <1>2, <1>3, <1>4, <1>5, <1>6, CacheStaysKeeps

\* A kill ends the executions of its process where they are.
LEMMA KilledKeeps ==
  ASSUME IInv, NEW h \in Hosts, Killed(h)
  PROVE  IInv'
<1>1. /\ stage'  = [j \in Jobs |-> IF HostOf[j] = h THEN "ended" ELSE stage[j]]
      /\ result' = [j \in Jobs |-> IF HostOf[j] = h /\ stage[j] # "ended" THEN "killed" ELSE result[j]]
      /\ waiter' = [j \in Jobs |-> IF HostOf[j] = h THEN "none" ELSE waiter[j]]
      /\ released' = released \cup {h} /\ ticking' = ticking \ {h}
      /\ faults' = faults + 1 /\ faults < MaxFaults
      /\ UNCHANGED <<disk, mem, pre, bytes, comp, foreign, file, rewrites, moved, left>>
  BY DEF Killed
<1>2. /\ stage \in [Jobs -> CacheStage \cup {"new", "blocking", "read", "instantiate", "run", "hostcall", "ended"}]
      /\ result \in [Jobs -> Result] /\ \A j \in Jobs : result[j] # "none" <=> stage[j] = "ended"
      /\ waiter \in [Jobs -> {"none", "waiting", "gone"}]
  BY DEF IInv, TypeOK
<1>3. TypeOK'
  <2>1. stage' \in [Jobs -> CacheStage \cup {"new", "blocking", "read", "instantiate", "run", "hostcall", "ended"}]
    BY <1>1, <1>2
  <2>2. result' \in [Jobs -> Result]
    BY <1>1, <1>2 DEF Result
  <2>3. \A j \in Jobs : result'[j] # "none" <=> stage'[j] = "ended"
    BY <1>1, <1>2
  <2>4. waiter' \in [Jobs -> {"none", "waiting", "gone"}] /\ faults' \in 0 .. MaxFaults
    BY <1>1, <1>2, CacheAssumption DEF IInv, TypeOK
  <2> QED BY <1>1, <2>1, <2>2, <2>3, <2>4 DEF IInv, TypeOK
<1>4. MapsInv' /\ ArtifactsWhole'
  BY <1>1 DEF IInv, MapsInv, ArtifactsWhole
<1>5. ForeignInv'
  <2>1. \A j \in Jobs : result'[j] # "not_started" => result[j] # "not_started"
    BY <1>1, <1>2
  <2> QED BY <1>1, <2>1 DEF IInv, ForeignInv, Version
<1>6. ASSUME NEW j \in Jobs PROVE JobInv(j)'
  <2>1. JobInv(j)
    BY DEF IInv
  <2>2. CASE HostOf[j] = h
    <3>1. stage'[j] = "ended" /\ (result'[j] = "cache_error" => result[j] = "cache_error")
      BY <1>1, <2>2
    <3> QED BY <1>1, <2>1, <3>1 DEF JobInv, HasRead, CacheStage
  <2>3. CASE HostOf[j] # h
    <3>1. stage'[j] = stage[j] /\ result'[j] = result[j]
      BY <1>1, <2>3
    <3> QED BY <1>1, <2>1, <3>1 DEF JobInv, HasRead, Found, Whole
  <2> QED BY <2>2, <2>3
<1> QED BY <1>3, <1>4, <1>5, <1>6 DEF IInv

-----------------------------------------------------------------------------
(* The invariant is inductive                                              *)

LEMMA InitIInv == Init => IInv
<1> SUFFICES ASSUME Init PROVE IInv
  OBVIOUS
<1>1. PICK present \in Together : CacheInit(present)
  BY DEF Init
<1> USE CacheAssumption, HostAssumption
<1>2. /\ disk = [k \in Contents |-> IF k \in DOMAIN Leftover THEN [of |-> k, by |-> Leftover[k]] ELSE Absent]
      /\ mem = [h \in Hosts |-> <<>>] /\ pre = [h \in Hosts |-> <<>>]
      /\ stage = [j \in Jobs |-> IF j \in present THEN "new" ELSE "ended"]
      /\ bytes = [j \in Jobs |-> "none"] /\ comp = [j \in Jobs |-> Absent]
      /\ result = [j \in Jobs |-> IF j \in present THEN "none" ELSE "not_started"]
      /\ faults = 0 /\ foreign = {k \in DOMAIN Leftover : \E j \in present : Leftover[k] # Version(j)}
  BY <1>1 DEF CacheInit
<1>3. LruOK(<<>>) /\ \A h \in Hosts : Truthful(h, <<>>)
  BY DEF LruOK, Truthful
<1>4. TypeOK
  <2>1. disk \in [Contents -> Artifact \cup {Absent}]
    BY <1>2 DEF Artifact
  <2>2. result \in [Jobs -> Result] /\ \A j \in Jobs : result[j] # "none" <=> stage[j] = "ended"
    BY <1>2 DEF Result
  <2>3. file \in [Paths -> Contents \cup {"none"}]
    BY DEF Init
  <2> QED BY <1>2, <1>3, <2>1, <2>2, <2>3 DEF Init, TypeOK
<1>5. MapsInv
  BY <1>2, <1>3 DEF MapsInv
<1>6. ArtifactsWhole
  BY <1>2 DEF ArtifactsWhole, Absent
<1>7. ForeignInv
  BY <1>2 DEF ForeignInv
<1>8. \A j \in Jobs : JobInv(j)
  BY <1>2 DEF JobInv, HasRead, CacheStage
<1> QED BY <1>4, <1>5, <1>6, <1>7, <1>8 DEF IInv

LEMMA NextIInv == IInv /\ [Next]_vars => IInv'
<1> SUFFICES ASSUME IInv, [Next]_vars PROVE IInv'
  OBVIOUS
<1>1. ASSUME NEW j \in Jobs, CacheStep(j), UNCHANGED hostVars PROVE IInv'
  BY <1>1, MemLookupKeeps, ArtifactExistsKeeps, OpenArtifactKeeps, EvictArtifactKeeps, CompileKeeps,
     PersistKeeps, ReloadKeeps, MemPutKeeps, PreLookupKeeps, PrePutKeeps DEF CacheStep
<1>2. ASSUME NEW j \in Jobs, ThreadStep(j) PROVE IInv'
  BY <1>1, <1>2, RunComponentMeasuredKeeps, ReadComponentKeeps, InstantiateKeeps, OtherEndsKeep
  DEF ThreadStep
<1>3. ASSUME NEW j \in Jobs, Spawn(j) \/ Refuse(j) \/ (PersistFails(j) /\ UNCHANGED hostVars)
      PROVE  IInv'
  BY <1>3, SpawnKeeps, OtherEndsKeep
<1>4. ASSUME NEW j \in Jobs, NEW c \in Contents, Pull(j, c) \/ RunFromOci(j, c) PROVE IInv'
  BY <1>4, PullKeeps, RunFromOciKeeps
<1>5. ASSUME NEW p \in Paths, NEW c \in Contents, Rewrite(p, c) PROVE IInv'
  BY <1>5, RewriteKeeps
<1>6. ASSUME NEW h \in Hosts, Killed(h) PROVE IInv'
  BY <1>6, KilledKeeps
<1>7. ASSUME NEW j \in Jobs, EnterHostCall(j) \/ LeaveHostCall(j) PROVE IInv'
  BY <1>7, HostCallKeeps
<1> QED BY <1>2, <1>3, <1>4, <1>5, <1>6, <1>7, AroundKeeps DEF Next

LEMMA Inductive == Spec => []IInv
BY InitIInv, NextIInv, PTL DEF Spec

-----------------------------------------------------------------------------
(* The results                                                             *)

\* Every variable keeps its type; the LRU maps hold one entry a key, and at most Cap.
THEOREM TypeCorrect == Spec => []TypeOK
BY Inductive, PTL DEF IInv

(***************************************************************************)
(* What run_component_measured instantiates was compiled by this wasmtime  *)
(* from the bytes it read, and the directory of cache.rs holds artifacts   *)
(* whole and under their own keys.                                         *)
(***************************************************************************)
THEOREM CachesSound == Spec => []CacheSound
<1>1. IInv => CacheSound
  <2> SUFFICES ASSUME IInv, NEW j \in Jobs, stage[j] \in {"link", "instantiate", "run"}
               PROVE  comp[j] = [of |-> bytes[j], by |-> Version(j)]
    BY DEF IInv, CacheSound, InstanceOfWhatWasRead
  <2> QED BY JobFacts DEF IInv, JobInv, Whole, Compiled
<1> QED BY <1>1, Inductive, PTL

\* load and store of cache.rs fail a valid component only over another version's artifact.
THEOREM CacheFailsOnlyOverForeign == Spec => []FailsOnlyOverForeign
<1>1. IInv => FailsOnlyOverForeign
  BY DEF IInv, JobInv, FailsOnlyOverForeign, Key
<1> QED BY <1>1, Inductive, PTL

\* verify_component_digest holds for what runs, unless the file moved after it.
THEOREM PinsHonoured == Spec => []PinnedUnlessMoved
<1>1. IInv => PinnedUnlessMoved
  <2> SUFFICES ASSUME IInv, NEW j \in DOMAIN Pin, stage[j] = "run", j \notin moved
               PROVE  comp[j].of = Pin[j]
    BY DEF PinnedUnlessMoved
  <2>1. j \in Jobs
    BY HostAssumption
  <2>2. comp[j] = Whole(j) /\ bytes[j] = Pin[j]
    BY <2>1 DEF IInv, JobInv, HasRead
  <2> QED BY <2>2 DEF Whole, Compiled
<1> QED BY <1>1, Inductive, PTL
==============================================================================
