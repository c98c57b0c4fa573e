--------------------------- MODULE RegistryProofs ----------------------------
(***************************************************************************)
(* What pushes and pulls guarantee for any number of commands, references  *)
(* and contents: no manifest without its blobs, no saved component but     *)
(* what the manifest says, no entry without its file, and the last         *)
(* registered where a tag is resolved, but for the time registering takes. *)
(*                                                                         *)
(* The registry only grows, and so do the clock and the count of entries:  *)
(* what a command has seen or done stays true until it needs it.           *)
(***************************************************************************)
EXTENDS OciRegistry, TLAPS

(***************************************************************************)
(* The invariant                                                           *)
(***************************************************************************)

Pushing == {"put_blob", "put_config", "put_manifest"}
Pulling == {"get_manifest", "get_blob", "verify", "open", "write", "register", "upsert"}
Naming  == Pulling \ {"get_manifest"}
Saving  == {"open", "write", "register", "upsert"}

\* What is so of a command, by where it is.
CommandInv(c) ==
  /\ pc[c] \in Pushing => ref[c] \in OciRef /\ ref[c].tag # None /\ bytes[c] \in Contents
  /\ pc[c] \in {"put_config", "put_manifest"} => <<ref[c].repo, bytes[c]>> \in blobs
  /\ pc[c] = "put_manifest" => <<ref[c].repo, Config>> \in blobs
  /\ pc[c] \in Pulling => ref[c] \in OciRef
  /\ pc[c] \in Naming =>
       /\ layer[c] \in Contents
       /\ c \notin misled => /\ <<ref[c].repo, layer[c]>> \in manifests
                             /\ ref[c].tag = None => layer[c] = ref[c].digest
  /\ pc[c] \in Saving => bytes[c] = layer[c]
  /\ pc[c] \in {"write", "register", "upsert"} => file[File(c)] # None
  /\ pc[c] = "upsert" =>
       /\ stamp[c].at <= clock /\ stamp[c].after <= serial
       /\ \A e \in rows : e.nth <= stamp[c].after => e.at <= stamp[c].at

\* Entries come after what their clock had seen, and name files that there may be.
EntriesInv ==
  /\ \A e \in rows : /\ <<e.dir, e.path>> \in Files
                      /\ e.nth <= serial /\ e.at <= clock /\ e.after <= serial
  /\ \A e, e2 \in rows : e.nth <= e2.after => e.at <= e2.at

\* A tag names a manifest of its repository.
TagsInv == \A r \in Repos, t \in Tags : <<r, tags[r][t]>> \in manifests

IInv ==
  /\ TypeOK /\ ManifestsComplete /\ TagsInv /\ EntriesInv /\ EntriesHaveFiles
  /\ \A c \in Commands : CommandInv(c)

-----------------------------------------------------------------------------
(* One command moves                                                       *)

\* What everybody may rely on: blobs, manifests and files stay, and what comes is later.
OnlyGrows ==
  /\ blobs \subseteq blobs' /\ manifests \subseteq manifests'
  /\ clock <= clock' /\ serial <= serial'
  /\ \A e \in rows' : e \in rows \/ e.nth > serial
  /\ \A f \in Files : file[f] # None => file'[f] # None

\* A command's step to another place; it says nothing of what it stores.
Advances(c, l) ==
  /\ Goto(c, l) /\ l \in Pc
  /\ ref' = ref \/ \E r \in Refs : ref' = [ref EXCEPT ![c] = r]
  /\ bytes' = bytes \/ \E b \in Contents \cup {Damaged} : bytes' = [bytes EXCEPT ![c] = b]
  /\ layer' = layer \/ \E b \in Contents : layer' = [layer EXCEPT ![c] = b]
  /\ stamp' = stamp \/ \E s \in Stamp : stamp' = [stamp EXCEPT ![c] = s]
  /\ misled' = misled \/ misled' = misled \cup {c}
  /\ faults' \in 0 .. MaxFaults

LEMMA FileIsOne ==
  ASSUME NEW c \in Commands, ref[c] \in OciRef
  PROVE  File(c) \in Files
BY RegistryAssumption DEF File, Name, Files, OciRef

LEMMA AdvanceEffect ==
  ASSUME IInv, NEW c \in Commands, NEW l, Advances(c, l)
  PROVE  /\ pc' \in [Commands -> Pc] /\ ref' \in [Commands -> OciRef \cup {NoRef}]
         /\ bytes' \in [Commands -> Contents \cup {None, Damaged}]
         /\ layer' \in [Commands -> Contents \cup {None}]
         /\ stamp' \in [Commands -> Stamp] /\ misled' \subseteq Commands
         /\ pc'[c] = l
         /\ \A d \in Commands \ {c} : /\ pc'[d] = pc[d] /\ ref'[d] = ref[d]
                                      /\ bytes'[d] = bytes[d] /\ layer'[d] = layer[d]
                                      /\ stamp'[d] = stamp[d] /\ (d \in misled' <=> d \in misled)
<1>1. /\ pc \in [Commands -> Pc] /\ ref \in [Commands -> OciRef \cup {NoRef}]
      /\ bytes \in [Commands -> Contents \cup {None, Damaged}]
      /\ layer \in [Commands -> Contents \cup {None}]
      /\ stamp \in [Commands -> Stamp] /\ misled \subseteq Commands
  BY DEF IInv, TypeOK
<1>2. pc' \in [Commands -> Pc] /\ pc'[c] = l /\ \A d \in Commands \ {c} : pc'[d] = pc[d]
  BY <1>1 DEF Advances, Goto
<1>3. ref' \in [Commands -> OciRef \cup {NoRef}] /\ \A d \in Commands \ {c} : ref'[d] = ref[d]
  BY <1>1, RegistryAssumption DEF Advances
<1>4. bytes' \in [Commands -> Contents \cup {None, Damaged}] /\ \A d \in Commands \ {c} : bytes'[d] = bytes[d]
  BY <1>1 DEF Advances
<1>5. layer' \in [Commands -> Contents \cup {None}] /\ \A d \in Commands \ {c} : layer'[d] = layer[d]
  BY <1>1 DEF Advances
<1>6. stamp' \in [Commands -> Stamp] /\ \A d \in Commands \ {c} : stamp'[d] = stamp[d]
  BY <1>1 DEF Advances
<1>7. misled' \subseteq Commands /\ \A d \in Commands \ {c} : d \in misled' <=> d \in misled
  BY <1>1 DEF Advances
<1> QED BY <1>2, <1>3, <1>4, <1>5, <1>6, <1>7

LEMMA OthersKeep ==
  ASSUME IInv, NEW c \in Commands, NEW l, Advances(c, l), OnlyGrows, StoreOK', NEW d \in Commands \ {c}
  PROVE  CommandInv(d)'
<1>1. /\ pc'[d] = pc[d] /\ ref'[d] = ref[d] /\ bytes'[d] = bytes[d] /\ layer'[d] = layer[d]
      /\ stamp'[d] = stamp[d] /\ (d \in misled' <=> d \in misled)
  BY AdvanceEffect
<1>2. CommandInv(d)
  BY DEF IInv
<1>3. File(d)' = File(d) /\ (pc[d] \in Pulling => File(d) \in Files)
  BY <1>1, <1>2, FileIsOne DEF File, Name, CommandInv
<1>4. pc[d] \in {"write", "register", "upsert"} => file'[File(d)] # None
  BY <1>2, <1>3 DEF CommandInv, OnlyGrows, Pulling
<1>5. ASSUME pc[d] = "upsert"
      PROVE  /\ stamp[d].at <= clock' /\ stamp[d].after <= serial'
             /\ \A e \in rows' : e.nth <= stamp[d].after => e.at <= stamp[d].at
  <2>1. /\ stamp[d].at \in Nat /\ stamp[d].after \in Nat /\ clock \in Nat /\ serial \in Nat
        /\ clock' \in Nat /\ serial' \in Nat
    BY DEF IInv, TypeOK, StoreOK, Stamp
  <2>2. /\ stamp[d].at <= clock /\ stamp[d].after <= serial
        /\ \A e \in rows : e.nth <= stamp[d].after => e.at <= stamp[d].at
    BY <1>2, <1>5 DEF CommandInv
  <2>3. stamp[d].at <= clock' /\ stamp[d].after <= serial'
    BY <2>1, <2>2 DEF OnlyGrows
  <2>4. ASSUME NEW e \in rows', e.nth <= stamp[d].after PROVE e.at <= stamp[d].at
    <3>1. e.nth \in Nat
      BY DEF StoreOK, Entry
    <3>2. e \in rows
      BY <2>1, <2>2, <2>4, <3>1 DEF OnlyGrows
    <3> QED BY <2>2, <2>4, <3>2
  <2> QED BY <2>3, <2>4
<1>6. blobs \subseteq blobs' /\ manifests \subseteq manifests'
  BY DEF OnlyGrows
<1>7. /\ pc[d] \in Pushing => ref[d] \in OciRef /\ ref[d].tag # None /\ bytes[d] \in Contents
      /\ pc[d] \in {"put_config", "put_manifest"} => <<ref[d].repo, bytes[d]>> \in blobs'
      /\ pc[d] = "put_manifest" => <<ref[d].repo, Config>> \in blobs'
      /\ pc[d] \in Pulling => ref[d] \in OciRef
  BY <1>2, <1>6 DEF CommandInv
<1>8. /\ pc[d] \in Naming => layer[d] \in Contents
      /\ pc[d] \in Naming /\ d \notin misled =>
           <<ref[d].repo, layer[d]>> \in manifests' /\ (ref[d].tag = None => layer[d] = ref[d].digest)
      /\ pc[d] \in Saving => bytes[d] = layer[d]
  BY <1>2, <1>6 DEF CommandInv
<1>9. /\ pc'[d] \in {"write", "register", "upsert"} => file'[File(d)'] # None
      /\ pc'[d] = "upsert" =>
           /\ stamp'[d].at <= clock' /\ stamp'[d].after <= serial'
           /\ \A e \in rows' : e.nth <= stamp'[d].after => e.at <= stamp'[d].at
  BY <1>1, <1>3, <1>4, <1>5
<1>10. /\ pc'[d] \in Pushing => ref'[d] \in OciRef /\ ref'[d].tag # None /\ bytes'[d] \in Contents
       /\ pc'[d] \in {"put_config", "put_manifest"} => <<ref'[d].repo, bytes'[d]>> \in blobs'
       /\ pc'[d] = "put_manifest" => <<ref'[d].repo, Config>> \in blobs'
       /\ pc'[d] \in Pulling => ref'[d] \in OciRef
  BY <1>1, <1>7
<1>11. /\ pc'[d] \in Naming =>
            /\ layer'[d] \in Contents
            /\ d \notin misled' => /\ <<ref'[d].repo, layer'[d]>> \in manifests'
                                   /\ ref'[d].tag = None => layer'[d] = ref'[d].digest
       /\ pc'[d] \in Saving => bytes'[d] = layer'[d]
  BY <1>1, <1>8
<1> QED BY <1>9, <1>10, <1>11 DEF CommandInv

\* The parts of a step: types of what is stored, the registry, the entries.
StoreTypes ==
  /\ StoreOK /\ blobs \subseteq Repos \X (Contents \cup {Config})
  /\ manifests \subseteq Repos \X Digests /\ tags \in [Repos -> [Tags -> Digests]]
  /\ file \in [Files -> Contents \cup {None, Torn}]

LEMMA AdvanceKeeps ==
  ASSUME IInv, NEW c \in Commands, NEW l, Advances(c, l), OnlyGrows, CommandInv(c)',
         StoreTypes', ManifestsComplete', TagsInv', EntriesInv', EntriesHaveFiles'
  PROVE  IInv'
<1>1. TypeOK'
  BY AdvanceEffect DEF TypeOK, StoreTypes, Advances
<1>2. \A d \in Commands : CommandInv(d)'
  BY <1>1, OthersKeep DEF TypeOK
<1> QED BY <1>1, <1>2 DEF IInv

\* A step that stores nothing.
LEMMA QuietKeeps ==
  ASSUME IInv, NEW c \in Commands, NEW l, Advances(c, l), CommandInv(c)',
         UNCHANGED <<storeVars, netVars, file>>
  PROVE  IInv'
<1> USE DEF storeVars, netVars
<1>1. OnlyGrows
  BY DEF OnlyGrows, IInv, TypeOK, StoreOK
<1>2. StoreTypes'
  BY DEF IInv, TypeOK, StoreTypes, StoreOK
<1>3. ManifestsComplete' /\ TagsInv' /\ EntriesInv' /\ EntriesHaveFiles'
  BY DEF IInv, ManifestsComplete, TagsInv, EntriesInv, EntriesHaveFiles
<1> QED BY <1>1, <1>2, <1>3, AdvanceKeeps

\* A step that writes the command's file.
LEMMA FileKeeps ==
  ASSUME IInv, NEW c \in Commands, NEW l, Advances(c, l), CommandInv(c)', ref[c] \in OciRef,
         NEW b \in Contents \cup {Torn}, file' = [file EXCEPT ![File(c)] = b],
         UNCHANGED <<storeVars, netVars>>
  PROVE  IInv'
<1> USE DEF storeVars, netVars
<1>1. file \in [Files -> Contents \cup {None, Torn}] /\ File(c) \in Files
  BY FileIsOne DEF IInv, TypeOK
<1>2. b # None
  BY TornAssumption, StoreAssumption, RegistryAssumption
<1>3. file' \in [Files -> Contents \cup {None, Torn}] /\ \A f \in Files : file[f] # None => file'[f] # None
  BY <1>1, <1>2
<1>4. OnlyGrows
  BY <1>3 DEF OnlyGrows, IInv, TypeOK, StoreOK
<1>5. StoreTypes'
  BY <1>3 DEF IInv, TypeOK, StoreTypes, StoreOK
<1>6. ManifestsComplete' /\ TagsInv' /\ EntriesInv'
  BY DEF IInv, ManifestsComplete, TagsInv, EntriesInv
<1>7. EntriesHaveFiles'
  BY <1>3 DEF IInv, EntriesInv, EntriesHaveFiles
<1> QED BY <1>4, <1>5, <1>6, <1>7, AdvanceKeeps

\* What each step finds: the types of the command's own state.
LEMMA CommandFacts ==
  ASSUME IInv, NEW c \in Commands
  PROVE  /\ CommandInv(c)
         /\ pc \in [Commands -> Pc] /\ ref \in [Commands -> OciRef \cup {NoRef}]
         /\ bytes \in [Commands -> Contents \cup {None, Damaged}]
         /\ layer \in [Commands -> Contents \cup {None}]
         /\ stamp \in [Commands -> Stamp] /\ misled \subseteq Commands
         /\ faults \in 0 .. MaxFaults /\ MaxFaults \in Nat
         /\ pc[c] \in Pulling \cup Pushing => ref[c].repo \in Repos
         /\ file \in [Files -> Contents \cup {None, Torn}]
<1>1. CommandInv(c)
  BY DEF IInv
<1>2. pc[c] \in Pulling \cup Pushing => ref[c].repo \in Repos
  BY <1>1 DEF CommandInv, OciRef
<1> QED BY <1>1, <1>2, RegistryAssumption DEF IInv, TypeOK

-----------------------------------------------------------------------------
(* push                                                                    *)

LEMMA PushKeeps ==
  ASSUME IInv, NEW c \in Commands, NEW r \in Refs, NEW x \in Contents, Push(c, r, x)
  PROVE  IInv'
<1>1. Advances(c, "put_blob")
  BY CommandFacts DEF Push, Advances, Pc
<1>2. /\ pc'[c] = "put_blob" /\ ref'[c] = r /\ bytes'[c] = x /\ r \in OciRef /\ r.tag # None
  BY <1>1, AdvanceEffect, CommandFacts, RegistryAssumption DEF Push
<1>3. CommandInv(c)'
  BY <1>2 DEF CommandInv, Pushing, Pulling, Naming, Saving
<1> QED BY <1>1, <1>3, QuietKeeps DEF Push

\* A blob comes to its repository.
LEMMA BlobKeeps ==
  ASSUME IInv, NEW c \in Commands, NEW l, Advances(c, l), CommandInv(c)',
         NEW x \in Contents \cup {Config}, ref[c].repo \in Repos,
         blobs' = blobs \cup {<<ref[c].repo, x>>},
         UNCHANGED <<storeVars, manifests, tags, file>>
  PROVE  IInv'
<1> USE DEF storeVars
<1>1. OnlyGrows
  BY DEF OnlyGrows, IInv, TypeOK, StoreOK
<1>2. StoreTypes'
  BY DEF IInv, TypeOK, StoreTypes, StoreOK
<1>3. ManifestsComplete'
  BY DEF IInv, ManifestsComplete
<1>4. TagsInv' /\ EntriesInv' /\ EntriesHaveFiles'
  BY DEF IInv, TagsInv, EntriesInv, EntriesHaveFiles
<1> QED BY <1>1, <1>2, <1>3, <1>4, AdvanceKeeps

LEMMA PutBlobKeeps ==
  ASSUME IInv, NEW c \in Commands, PutBlob(c)
  PROVE  IInv'
<1>1. Advances(c, "put_config") /\ UNCHANGED <<ref, bytes, layer>>
  BY CommandFacts DEF PutBlob, Advances, Pc
<1>2. pc[c] \in Pushing /\ pc[c] = "put_blob" /\ blobs' = blobs \cup {<<ref[c].repo, bytes[c]>>}
  BY DEF PutBlob, Pushing
<1>3. pc'[c] = "put_config" /\ bytes[c] \in Contents /\ ref[c].repo \in Repos
  BY <1>1, <1>2, AdvanceEffect, CommandFacts DEF CommandInv
<1>4. CommandInv(c)'
  BY <1>1, <1>2, <1>3, CommandFacts DEF CommandInv, Pushing, Pulling, Naming, Saving
<1> QED BY <1>1, <1>2, <1>3, <1>4, BlobKeeps DEF PutBlob

LEMMA PutConfigKeeps ==
  ASSUME IInv, NEW c \in Commands, PutConfig(c)
  PROVE  IInv'
<1>1. Advances(c, "put_manifest") /\ UNCHANGED <<ref, bytes, layer>>
  BY CommandFacts DEF PutConfig, Advances, Pc
<1>2. pc[c] \in Pushing /\ pc[c] = "put_config" /\ blobs' = blobs \cup {<<ref[c].repo, Config>>}
  BY DEF PutConfig, Pushing
<1>3. pc'[c] = "put_manifest" /\ ref[c].repo \in Repos
  BY <1>1, <1>2, AdvanceEffect, CommandFacts
<1>4. CommandInv(c)'
  BY <1>1, <1>2, <1>3, CommandFacts DEF CommandInv, Pushing, Pulling, Naming, Saving
<1> QED BY <1>1, <1>2, <1>3, <1>4, BlobKeeps DEF PutConfig

LEMMA PutManifestKeeps ==
  ASSUME IInv, NEW c \in Commands, PutManifest(c)
  PROVE  IInv'
<1>1. Advances(c, "done") /\ UNCHANGED <<storeVars, blobs, ref, bytes, layer, file>>
  BY CommandFacts DEF PutManifest, Advances, Pc
<1>2. /\ pc[c] \in Pushing /\ pc[c] = "put_manifest"
      /\ manifests' = manifests \cup {<<ref[c].repo, bytes[c]>>}
      /\ tags' = [tags EXCEPT ![ref[c].repo][ref[c].tag] = bytes[c]]
  BY DEF PutManifest, Pushing
<1>3. /\ pc'[c] = "done" /\ ref[c].repo \in Repos /\ ref[c].tag \in Tags /\ bytes[c] \in Contents
      /\ <<ref[c].repo, bytes[c]>> \in blobs /\ <<ref[c].repo, Config>> \in blobs
  BY <1>1, <1>2, AdvanceEffect, CommandFacts DEF CommandInv, OciRef
<1>4. CommandInv(c)'
  BY <1>3 DEF CommandInv, Pushing, Pulling, Naming, Saving
<1>5. OnlyGrows
  BY <1>1, <1>2 DEF OnlyGrows, storeVars, IInv, TypeOK, StoreOK
<1>6. tags' \in [Repos -> [Tags -> Digests]]
  <2>1. tags \in [Repos -> [Tags -> Digests]] /\ bytes[c] \in Digests
    BY <1>3, RegistryAssumption DEF IInv, TypeOK
  <2> QED BY <1>2, <1>3, <2>1
<1>7. StoreTypes'
  BY <1>1, <1>2, <1>3, <1>6, RegistryAssumption DEF IInv, TypeOK, StoreTypes, StoreOK, storeVars
<1>8. ManifestsComplete'
  BY <1>1, <1>2, <1>3 DEF IInv, ManifestsComplete
<1>9. EntriesInv' /\ EntriesHaveFiles'
  BY <1>1 DEF IInv, EntriesInv, EntriesHaveFiles, storeVars
<1>10. TagsInv'
  <2> SUFFICES ASSUME NEW r \in Repos, NEW t \in Tags PROVE <<r, tags'[r][t]>> \in manifests'
    BY DEF TagsInv
  <2>1. tags \in [Repos -> [Tags -> Digests]] /\ <<r, tags[r][t]>> \in manifests
    BY DEF IInv, TypeOK, TagsInv
  <2>2. CASE r = ref[c].repo /\ t = ref[c].tag
    <3>1. tags'[r][t] = bytes[c]
      BY <1>2, <1>3, <2>1, <2>2
    <3> QED BY <1>2, <2>2, <3>1
  <2>3. CASE ~(r = ref[c].repo /\ t = ref[c].tag)
    <3>1. tags'[r][t] = tags[r][t]
      BY <1>2, <1>3, <2>1, <2>3
    <3> QED BY <1>2, <2>1, <3>1
  <2> QED BY <2>2, <2>3
<1> QED BY <1>1, <1>4, <1>5, <1>7, <1>8, <1>9, <1>10, AdvanceKeeps

-----------------------------------------------------------------------------
(* pull                                                                    *)

LEMMA PullKeeps ==
  ASSUME IInv, NEW c \in Commands, NEW r \in Refs, Pull(c, r)
  PROVE  IInv'
<1>1. Advances(c, "get_manifest")
  BY CommandFacts DEF Pull, Advances, Pc
<1>2. pc'[c] = "get_manifest" /\ ref'[c] = r /\ r \in OciRef
  BY <1>1, AdvanceEffect, CommandFacts, RegistryAssumption DEF Pull
<1>3. CommandInv(c)'
  BY <1>2 DEF CommandInv, Pushing, Pulling, Naming, Saving
<1> QED BY <1>1, <1>3, QuietKeeps DEF Pull

\* Wherever a command ends, nothing is asked of it any more.
LEMMA OverKeeps ==
  ASSUME IInv, NEW c \in Commands, Goto(c, "failed"), faults' \in 0 .. MaxFaults,
         UNCHANGED <<storeVars, netVars, ref, bytes, layer, stamp, file, misled>>
  PROVE  IInv'
<1>1. Advances(c, "failed")
  BY DEF Advances, Pc
<1>2. pc'[c] = "failed"
  BY <1>1, AdvanceEffect
<1>3. CommandInv(c)'
  BY <1>2 DEF CommandInv, Pushing, Pulling, Naming, Saving
<1> QED BY <1>1, <1>3, QuietKeeps

LEMMA GetManifestKeeps ==
  ASSUME IInv, NEW c \in Commands, GetManifest(c)
  PROVE  IInv'
<1>1. CASE Reference(ref[c]) \in Contents
  <2>1. /\ Advances(c, "get_blob") /\ layer' = [layer EXCEPT ![c] = Reference(ref[c])]
        /\ UNCHANGED <<storeVars, netVars, ref, bytes, file, misled>>
    BY <1>1, CommandFacts DEF GetManifest, Advances, Pc
  <2>2. pc'[c] = "get_blob" /\ layer'[c] = Reference(ref[c]) /\ ref[c] \in OciRef
    BY <2>1, AdvanceEffect, CommandFacts DEF GetManifest, CommandInv, Pulling
  <2>3. ref[c].tag = None => Reference(ref[c]) = ref[c].digest
    BY <1>1, StoreAssumption, RegistryAssumption DEF Reference
  <2>4. <<ref[c].repo, Reference(ref[c])>> \in manifests
    <3>1. ref[c].repo \in Repos /\ (ref[c].tag # None => ref[c].tag \in Tags)
      BY <2>2 DEF OciRef
    <3>2. ref[c].tag # None => <<ref[c].repo, tags[ref[c].repo][ref[c].tag]>> \in manifests
      BY <3>1 DEF IInv, TagsInv
    <3> QED BY <1>1, <3>2, StoreAssumption, RegistryAssumption DEF Reference
  <2>5. CommandInv(c)'
    BY <1>1, <2>1, <2>2, <2>3, <2>4 DEF CommandInv, Pushing, Pulling, Naming, Saving, netVars
  <2> QED BY <2>1, <2>5, QuietKeeps
<1>2. CASE Reference(ref[c]) \notin Contents
  BY <1>2, OverKeeps, CommandFacts DEF GetManifest
<1> QED BY <1>1, <1>2

\* Another manifest than the one that was named leads on as well.
LEMMA GetOtherManifestKeeps ==
  ASSUME IInv, NEW c \in Commands, NEW b \in Contents, GetOtherManifest(c, b)
  PROVE  IInv'
<1>1. faults' \in 0 .. MaxFaults
  BY CommandFacts DEF GetOtherManifest
<1>2. Advances(c, "get_blob") /\ UNCHANGED <<storeVars, netVars, ref, bytes, file>>
  BY <1>1 DEF GetOtherManifest, Advances, Pc
<1>3. pc'[c] = "get_blob" /\ layer'[c] = b /\ c \in misled' /\ ref[c] \in OciRef
  BY <1>2, AdvanceEffect, CommandFacts DEF GetOtherManifest, CommandInv, Pulling
<1>4. CommandInv(c)'
  BY <1>2, <1>3 DEF CommandInv, Pushing, Pulling, Naming, Saving
<1> QED BY <1>2, <1>4, QuietKeeps

\* The blob comes, damaged or not.
LEMMA ArrivalKeeps ==
  ASSUME IInv, NEW c \in Commands, pc[c] = "get_blob", Goto(c, "verify"), faults' \in 0 .. MaxFaults,
         NEW b \in Contents \cup {Damaged}, bytes' = [bytes EXCEPT ![c] = b],
         UNCHANGED <<storeVars, netVars, ref, layer, stamp, file, misled>>
  PROVE  IInv'
<1>1. Advances(c, "verify")
  BY DEF Advances, Pc
<1>2. pc'[c] = "verify"
  BY <1>1, AdvanceEffect
<1>3. CommandInv(c)'
  BY <1>2, CommandFacts DEF CommandInv, Pushing, Pulling, Naming, Saving, netVars
<1> QED BY <1>1, <1>3, QuietKeeps

LEMMA GetBlobKeeps ==
  ASSUME IInv, NEW c \in Commands,
         GetBlob(c) \/ \E b \in Contents \cup {Damaged} : GetDamagedBlob(c, b)
  PROVE  IInv'
<1>1. CASE GetBlob(c)
  <2>1. CASE <<ref[c].repo, layer[c]>> \in blobs
    <3>1. layer[c] \in Contents
      BY <1>1, CommandFacts DEF GetBlob, CommandInv, Naming, Pulling
    <3> QED BY <1>1, <2>1, <3>1, ArrivalKeeps, CommandFacts DEF GetBlob
  <2>2. CASE <<ref[c].repo, layer[c]>> \notin blobs
    BY <1>1, <2>2, OverKeeps, CommandFacts DEF GetBlob
  <2> QED BY <2>1, <2>2
<1>2. ASSUME NEW b \in Contents \cup {Damaged}, GetDamagedBlob(c, b) PROVE IInv'
  <2>1. faults' \in 0 .. MaxFaults
    BY <1>2, CommandFacts DEF GetDamagedBlob
  <2> QED BY <1>2, <2>1, ArrivalKeeps DEF GetDamagedBlob
<1> QED BY <1>1, <1>2

LEMMA VerifyKeeps ==
  ASSUME IInv, NEW c \in Commands, Verify(c)
  PROVE  IInv'
<1>1. CASE bytes[c] = layer[c]
  <2>1. Advances(c, "open") /\ UNCHANGED <<ref, bytes, layer, misled, manifests>>
    BY <1>1, CommandFacts DEF Verify, Advances, Pc, netVars
  <2>2. pc'[c] = "open" /\ pc[c] = "verify"
    BY <2>1, AdvanceEffect DEF Verify
  <2>3. CommandInv(c)'
    BY <1>1, <2>1, <2>2, CommandFacts DEF CommandInv, Pushing, Pulling, Naming, Saving
  <2> QED BY <2>1, <2>3, QuietKeeps DEF Verify
<1>2. CASE bytes[c] # layer[c]
  BY <1>2, OverKeeps, CommandFacts DEF Verify
<1> QED BY <1>1, <1>2

LEMMA OpenKeeps ==
  ASSUME IInv, NEW c \in Commands, Open(c)
  PROVE  IInv'
<1>1. Advances(c, "write") /\ UNCHANGED <<ref, bytes, layer, misled, manifests>>
  BY CommandFacts DEF Open, Advances, Pc, netVars
<1>2. pc'[c] = "write" /\ pc[c] = "open" /\ ref[c] \in OciRef
  BY <1>1, AdvanceEffect, CommandFacts DEF Open, CommandInv, Pulling
<1>3. file'[File(c)]  = Torn
  BY <1>2, FileIsOne, CommandFacts DEF Open
<1>4. File(c)' = File(c)
  BY <1>1 DEF File, Name
<1>5. CommandInv(c)'
  BY <1>1, <1>2, <1>3, <1>4, CommandFacts, TornAssumption DEF CommandInv, Pushing, Pulling, Naming, Saving
<1> QED BY <1>1, <1>2, <1>5, FileKeeps DEF Open

LEMMA WriteKeeps ==
  ASSUME IInv, NEW c \in Commands, Write(c)
  PROVE  IInv'
<1>1. Advances(c, "register") /\ UNCHANGED <<ref, bytes, layer, misled, manifests>>
  BY CommandFacts DEF Write, Advances, Pc, netVars
<1>2. /\ pc'[c] = "register" /\ pc[c] = "write" /\ ref[c] \in OciRef
      /\ bytes[c] = layer[c] /\ layer[c] \in Contents
  BY <1>1, AdvanceEffect, CommandFacts DEF Write, CommandInv, Pulling, Naming, Saving
<1>3. PICK b \in Contents \cup {Torn} : file' = [file EXCEPT ![File(c)] = b]
  BY <1>2 DEF Write
<1>4. file'[File(c)] # None
  <2>1. b # None
    BY TornAssumption, StoreAssumption, RegistryAssumption
  <2> QED BY <1>2, <1>3, <2>1, FileIsOne, CommandFacts
<1>5. File(c)' = File(c)
  BY <1>1 DEF File, Name
<1>6. CommandInv(c)'
  BY <1>1, <1>2, <1>4, <1>5, CommandFacts DEF CommandInv, Pushing, Pulling, Naming, Saving
<1> QED BY <1>1, <1>2, <1>3, <1>6, FileKeeps DEF Write

-----------------------------------------------------------------------------
(* The local registry                                                      *)

\* The clock is read: all that is recorded by now is not later.
LEMMA RegisterKeeps ==
  ASSUME IInv, NEW c \in Commands, Register(c)
  PROVE  IInv'
<1>1. Now \in Stamp /\ Now.at = clock /\ Now.after = serial /\ clock \in Nat /\ serial \in Nat
  BY DEF IInv, TypeOK, StoreOK, Now, Stamp
<1>2. Advances(c, "upsert") /\ UNCHANGED <<storeVars, netVars, ref, bytes, layer, file, misled>>
  BY <1>1, CommandFacts DEF Register, Advances, Pc
<1>3. pc'[c] = "upsert" /\ pc[c] = "register" /\ stamp'[c] = Now
  BY <1>2, AdvanceEffect, CommandFacts DEF Register
<1>4. File(c)' = File(c)
  BY <1>2 DEF File, Name
<1>5. /\ stamp'[c].at <= clock' /\ stamp'[c].after <= serial'
      /\ \A e \in rows' : e.nth <= stamp'[c].after => e.at <= stamp'[c].at
  <2>1. stamp'[c].at = clock /\ stamp'[c].after = serial
    BY <1>1, <1>3
  <2>2. clock' = clock /\ serial' = serial /\ rows' = rows
    BY <1>2 DEF storeVars
  <2>3. \A e \in rows : e.at <= clock
    BY DEF IInv, EntriesInv
  <2> QED BY <1>1, <2>1, <2>2, <2>3
<1>6. CommandInv(c)'
  BY <1>2, <1>3, <1>4, <1>5, CommandFacts DEF CommandInv, Pushing, Pulling, Naming, Saving, netVars
<1> QED BY <1>2, <1>6, QuietKeeps

LEMMA SaveKeeps ==
  ASSUME IInv, NEW c \in Commands, Save(c)
  PROVE  IInv'
<1>0. Unstamped \in Stamp
  BY DEF Unstamped, Stamp
<1>1. Advances(c, "done") /\ UNCHANGED <<netVars, ref, bytes, layer, file>>
  BY <1>0, CommandFacts DEF Save, Advances, Pc
<1>2. pc'[c] = "done" /\ pc[c] = "upsert"
  BY <1>1, AdvanceEffect DEF Save
<1>3. CommandInv(c)'
  BY <1>2 DEF CommandInv, Pushing, Pulling, Naming, Saving
<1>4. /\ ref[c] \in OciRef /\ File(c) \in Files /\ file[File(c)] # None /\ File(c) = <<Cwd[c], Name(c)>>
      /\ Name(c) \in STRING /\ Cwd[c] \in Dirs
  BY <1>2, FileIsOne, CommandFacts, RegistryAssumption DEF CommandInv, Pulling, File, Name, OciRef
<1>s. PICK s \in Stamp : s = stamp[c]
  BY CommandFacts
<1>5. PICK n : n = [ref |-> ref[c], path |-> Name(c), at |-> s.at, dir |-> Cwd[c],
                    nth |-> serial + 1, after |-> s.after]
  OBVIOUS
<1>6. /\ rows' = {e \in rows : e.ref # ref[c]} \cup {n} /\ serial' = serial + 1 /\ clock' = clock
      /\ n.ref = ref[c] /\ n.path = Name(c) /\ n.dir = Cwd[c]
      /\ n.at = s.at /\ n.nth = serial + 1 /\ n.after = s.after
  BY <1>5, <1>s DEF Save, Upsert
<1>7. clock \in Nat /\ serial \in Nat /\ rows \subseteq Entry /\ s.at \in Nat /\ s.after \in Nat
  BY DEF IInv, TypeOK, StoreOK, Stamp
<1>8. \A e \in rows' : e = n \/ (e \in rows /\ e.ref # ref[c])
  BY <1>6
<1>9. StoreOK'
  <2>1. n \in Entry
    BY <1>4, <1>5, <1>7 DEF Entry
  <2>2. rows' \subseteq Entry
    BY <1>6, <1>7, <2>1
  <2>3. \A e, e2 \in rows' : e.ref = e2.ref => e = e2
    BY <1>6, <1>8 DEF IInv, TypeOK, StoreOK
  <2> QED BY <1>6, <1>7, <2>2, <2>3 DEF StoreOK
<1>10. StoreTypes'
  BY <1>1, <1>9 DEF IInv, TypeOK, StoreTypes, netVars
<1>11. EntriesInv'
  <2>1. /\ s.at <= clock /\ s.after <= serial
        /\ \A e \in rows : e.nth <= s.after => e.at <= s.at
    BY <1>2, <1>s, CommandFacts DEF CommandInv
  <2>2. \A d \in rows : /\ d.nth \in Nat /\ d.at \in Nat /\ d.after \in Nat
                        /\ d.nth <= serial /\ d.at <= clock /\ d.after <= serial
    BY <1>7 DEF Entry, IInv, EntriesInv
  <2>3. ASSUME NEW e \in rows'
        PROVE /\ <<e.dir, e.path>> \in Files
              /\ e.nth <= serial' /\ e.at <= clock' /\ e.after <= serial'
    <3>1. CASE e = n
      BY <1>4, <1>6, <1>7, <2>1, <3>1
    <3>2. CASE e \in rows
      BY <1>6, <1>7, <2>2, <3>2 DEF IInv, EntriesInv
    <3> QED BY <1>8, <3>1, <3>2
  <2>4. ASSUME NEW e \in rows', NEW e2 \in rows', e.nth <= e2.after PROVE e.at <= e2.at
    <3>1. CASE e = n
      BY <1>6, <1>7, <1>8, <2>1, <2>2, <2>4, <3>1
    <3>2. CASE e \in rows /\ e2 \in rows
      BY <2>4, <3>2 DEF IInv, EntriesInv
    <3>3. CASE e \in rows /\ e2 = n
      BY <1>6, <2>1, <2>4, <3>3
    <3> QED BY <1>8, <3>1, <3>2, <3>3
  <2> QED BY <2>3, <2>4 DEF EntriesInv
<1>12. EntriesHaveFiles'
  BY <1>1, <1>4, <1>6, <1>8 DEF IInv, EntriesHaveFiles
<1>13. ManifestsComplete' /\ TagsInv'
  BY <1>1 DEF IInv, ManifestsComplete, TagsInv, netVars
<1>14. OnlyGrows
  BY <1>1, <1>6, <1>7, <1>8 DEF OnlyGrows, netVars
<1> QED BY <1>1, <1>3, <1>10, <1>11, <1>12, <1>13, <1>14, AdvanceKeeps

LEMMA RemoveKeeps ==
  ASSUME IInv, NEW c \in Commands, NEW e \in rows, Remove(c, e)
  PROVE  IInv'
<1>1. Advances(c, "done") /\ UNCHANGED <<netVars, ref, bytes, layer, file, clock, serial>>
  BY CommandFacts DEF Remove, Delete, Advances, Pc
<1>2. pc'[c] = "done"
  BY <1>1, AdvanceEffect
<1>3. CommandInv(c)'
  BY <1>2 DEF CommandInv, Pushing, Pulling, Naming, Saving
<1>4. rows' \subseteq rows
  BY DEF Remove, Delete
<1>5. StoreTypes'
  BY <1>1, <1>4 DEF IInv, TypeOK, StoreTypes, StoreOK, netVars
<1>6. EntriesInv' /\ EntriesHaveFiles'
  BY <1>1, <1>4 DEF IInv, EntriesInv, EntriesHaveFiles
<1>7. ManifestsComplete' /\ TagsInv' /\ OnlyGrows
  BY <1>1, <1>4 DEF IInv, TypeOK, StoreOK, ManifestsComplete, TagsInv, OnlyGrows, netVars
<1> QED BY <1>1, <1>3, <1>5, <1>6, <1>7, AdvanceKeeps

\* The clock goes on, or nothing happens.
LEMMA TickKeeps ==
  ASSUME IInv, Tick \/ UNCHANGED vars
  PROVE  IInv'
<1> USE DEF vars, storeVars, netVars, cmdVars
<1>1. /\ UNCHANGED <<rows, serial, netVars, cmdVars, file, misled, faults>>
      /\ clock' = clock \/ clock' = clock + 1
  BY DEF Tick
<1>2. clock \in Nat /\ clock' \in Nat
  BY <1>1 DEF IInv, TypeOK, StoreOK
<1>3. TypeOK'
  BY <1>1, <1>2 DEF IInv, TypeOK, StoreOK
<1>4. ManifestsComplete' /\ TagsInv' /\ EntriesHaveFiles'
  BY <1>1 DEF IInv, ManifestsComplete, TagsInv, EntriesHaveFiles
<1>5. EntriesInv'
  <2>1. \A e \in rows : e.at \in Nat
    BY DEF IInv, TypeOK, StoreOK, Entry
  <2> QED BY <1>1, <1>2, <2>1 DEF IInv, EntriesInv
<1>6. \A c \in Commands : CommandInv(c)'
  <2> SUFFICES ASSUME NEW c \in Commands PROVE CommandInv(c)'
    OBVIOUS
  <2>1. CommandInv(c) /\ stamp[c].at \in Nat
    BY DEF IInv, TypeOK, Stamp
  <2> QED BY <1>1, <1>2, <2>1 DEF CommandInv, File, Name
<1> QED BY <1>3, <1>4, <1>5, <1>6 DEF IInv

-----------------------------------------------------------------------------
(* The invariant is inductive                                              *)

LEMMA InitIInv == Init => IInv
<1> SUFFICES ASSUME Init PROVE IInv
  OBVIOUS
<1> USE DEF Init, StoreInit
<1>1. TypeOK
  <2>1. tags \in [Repos -> [Tags -> Digests]] /\ manifests \subseteq Repos \X Digests
    BY RegistryAssumption
  <2>2. file \in [Files -> Contents \cup {None, Torn}]
    OBVIOUS
  <2>3. pc \in [Commands -> Pc] /\ faults \in 0 .. MaxFaults /\ stamp \in [Commands -> Stamp]
    BY RegistryAssumption DEF Pc, Unstamped, Stamp
  <2> QED BY <2>1, <2>2, <2>3 DEF TypeOK, StoreOK
<1>2. ManifestsComplete /\ TagsInv
  BY RegistryAssumption DEF ManifestsComplete, TagsInv
<1>3. EntriesInv /\ EntriesHaveFiles
  BY DEF EntriesInv, EntriesHaveFiles
<1>4. \A c \in Commands : CommandInv(c)
  BY DEF CommandInv, Pushing, Pulling, Naming, Saving
<1> QED BY <1>1, <1>2, <1>3, <1>4 DEF IInv

LEMMA NextIInv == IInv /\ [Next]_vars => IInv'
<1> SUFFICES ASSUME IInv, [Next]_vars PROVE IInv'
  OBVIOUS
<1>1. ASSUME NEW c \in Commands, NEW r \in Refs,
             Pull(c, r) \/ \E x \in Contents : Push(c, r, x)
      PROVE  IInv'
  BY <1>1, PullKeeps, PushKeeps
<1>2. ASSUME NEW c \in Commands, PutBlob(c) \/ PutConfig(c) \/ PutManifest(c) PROVE IInv'
  BY <1>2, PutBlobKeeps, PutConfigKeeps, PutManifestKeeps
<1>3. ASSUME NEW c \in Commands, GetManifest(c) \/ GetBlob(c) \/ Verify(c) \/ Open(c)
                                \/ Write(c) \/ Register(c) \/ Save(c)
      PROVE  IInv'
  BY <1>3, GetManifestKeeps, GetBlobKeeps, VerifyKeeps, OpenKeeps, WriteKeeps, RegisterKeeps, SaveKeeps
<1>4. ASSUME NEW c \in Commands, NEW b \in Contents \cup {Damaged}, GetDamagedBlob(c, b) PROVE IInv'
  BY <1>4, GetBlobKeeps
<1>5. ASSUME NEW c \in Commands, NEW e \in rows, Remove(c, e) PROVE IInv'
  BY <1>5, RemoveKeeps
<1>6. ASSUME NEW c \in Commands, Fails(c) PROVE IInv'
  <2>1. faults' \in 0 .. MaxFaults
    BY <1>6, CommandFacts DEF Fails
  <2> QED BY <1>6, <2>1, OverKeeps DEF Fails
<1>7. ASSUME NEW c \in Commands, NEW b \in Contents, GetOtherManifest(c, b) PROVE IInv'
  BY <1>7, GetOtherManifestKeeps
<1> QED BY <1>1, <1>2, <1>3, <1>4, <1>5, <1>6, <1>7, TickKeeps DEF Next

LEMMA Inductive == Spec => []IInv
BY InitIInv, NextIInv, PTL DEF Spec

-----------------------------------------------------------------------------
(* The results                                                             *)

\* Every variable keeps its type; an id names one entry of the local registry.
THEOREM TypeCorrect == Spec => []TypeOK
BY Inductive, PTL DEF IInv

\* A manifest in the registry has its layer and its config: push of oci.rs sends it last.
THEOREM NoManifestTooEarly == Spec => []ManifestsComplete
BY Inductive, PTL DEF IInv

(***************************************************************************)
(* What pull of oci.rs returns is the layer of the manifest it was sent,   *)
(* whatever came as the blob; that the manifest is the one it named, by    *)
(* digest or tag, holds where the registry was honest.                     *)
(***************************************************************************)
THEOREM PullsWhatTheManifestSays == Spec => []PulledIsNamed
<1>1. IInv => PulledIsNamed
  <2> SUFFICES ASSUME IInv PROVE PulledIsNamed
    OBVIOUS
  <2>1. ASSUME NEW c \in Commands, pc[c] \in Saving
        PROVE  /\ bytes[c] = layer[c]
               /\ c \notin misled => /\ <<ref[c].repo, bytes[c]>> \in manifests
                                     /\ ref[c].tag = None => bytes[c] = ref[c].digest
    <3>1. pc[c] \in Naming
      BY <2>1 DEF Naming, Pulling, Saving
    <3> QED BY <2>1, <3>1, CommandFacts DEF CommandInv
  <2> QED BY <2>1 DEF PulledIsNamed, Saving
<1> QED BY <1>1, Inductive, PTL

(***************************************************************************)
(* resolve of registry.rs finds the last entry saved for a tag, but for    *)
(* the seconds of its clock and for registers that overlapped, and the     *)
(* file of an entry is in the directory it was saved in.                   *)
(***************************************************************************)
THEOREM ResolvesToWhatWasSaved == Spec => []ResolvesToSaved
<1>1. IInv => ResolvesToLatest
  <2> SUFFICES ASSUME IInv, NEW repo \in Repos, NEW t \in Tags,
                      NEW e \in Resolved([repo |-> repo, tag |-> t, digest |-> None]),
                      NEW e2 \in OfRepo(repo), e2.ref.tag = t
               PROVE  e2.nth <= e.nth \/ e2.at = e.at \/ e2.after < e.nth
    BY DEF ResolvesToLatest
  <2>1. e \in rows /\ e2 \in rows /\ e2.at <= e.at
    BY DEF Resolved, Newest, Matches, OfRepo
  <2>2. /\ e.nth \in Nat /\ e2.after \in Nat /\ e.at \in Nat /\ e2.at \in Nat
        /\ e.nth <= e2.after => e.at <= e2.at
    BY <2>1 DEF IInv, TypeOK, StoreOK, Entry, EntriesInv
  <2> QED BY <2>1, <2>2
<1>2. IInv => ResolvesToSaved
  BY <1>1 DEF ResolvesToSaved, IInv
<1> QED BY <1>2, Inductive, PTL
==============================================================================
