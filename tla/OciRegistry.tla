---------------------------- MODULE OciRegistry -----------------------------
(***************************************************************************)
(* Components through an OCI registry: OciClient::push and pull (oci.rs),  *)
(* as `fluxion registry push`, `pull` and `rm` call them, any number of    *)
(* commands at a time, with the files and the local registry they leave.   *)
(*                                                                         *)
(* The registry itself is somebody else's: it stores the blobs and the     *)
(* manifests it is sent and promises nothing about their order.  Digests   *)
(* are what they are digests of; a manifest is named by its first Wasm     *)
(* layer, for its config is always the same.  The local registry belongs   *)
(* to the user, the files to the working directory of each command.        *)
(***************************************************************************)
EXTENDS RegistryStore

CONSTANTS
  Commands,   \* the commands that are given
  Refs,       \* the references they may be given
  Contents,   \* components
  Image,      \* a manifest of somebody else's without a Wasm layer
  FileOf,     \* the file a repository's component is saved in: its last segment
  Cwd,        \* the directory each command runs in, to which that file is relative
  MaxTime,    \* bound of the clock
  MaxFaults   \* bound: requests that fail, answers that are wrong or damaged, kills

ASSUME RegistryAssumption ==
  /\ Image \notin Contents /\ Digests = Contents \cup {Image}
  /\ Refs \subseteq OciRef
  /\ FileOf \in [Repos -> STRING] /\ Cwd \in [Commands -> Dirs]
  /\ MaxTime \in Nat /\ MaxFaults \in Nat

VARIABLES
  blobs,      \* registry: <<repository, content>>
  manifests,  \* registry: <<repository, digest>>
  tags,       \* registry: what each tag of each repository names
  pc,         \* where each command is
  ref,        \* the reference it was given
  bytes,      \* the component it pushes, or was sent
  layer,      \* the layer digest of the manifest it was sent
  stamp,      \* what register read before its statement
  file,       \* the component files, by directory and name
  misled,     \* history: commands that were sent another manifest than they named
  faults      \* history: how many faults there have been

netVars == <<blobs, manifests, tags>>
cmdVars == <<pc, ref, bytes, layer, stamp>>
vars    == <<storeVars, netVars, cmdVars, file, misled, faults>>

Config  == "config"     \* the blob `{}`
Damaged == "damaged"    \* what no digest belongs to
Torn    == "torn"       \* a file that is being written, or was when its writer died

ASSUME TornAssumption == Torn # None

NoRef     == [repo |-> None, tag |-> None, digest |-> None]
Unstamped == [at |-> 0, after |-> 0]

Files == Dirs \X {FileOf[r] : r \in Repos}

Goto(c, l) == pc' = [pc EXCEPT ![c] = l]

Init ==
  /\ StoreInit
  /\ blobs = {}
  /\ manifests = {<<r, Image>> : r \in Repos}
  /\ tags = [r \in Repos |-> [t \in Tags |-> Image]]
  /\ pc = [c \in Commands |-> "new"]
  /\ ref = [c \in Commands |-> NoRef]
  /\ bytes = [c \in Commands |-> None]
  /\ layer = [c \in Commands |-> None]
  /\ stamp = [c \in Commands |-> Unstamped]
  /\ file = [f \in Files |-> None]
  /\ misled = {} /\ faults = 0

\* The clock of the machine.
Tick ==
  /\ clock < MaxTime /\ clock' = clock + 1
  /\ UNCHANGED <<rows, serial, netVars, cmdVars, file, misled, faults>>

-----------------------------------------------------------------------------
(* push                                                                    *)

\* `fluxion registry push`: the file is read, the reference is the tag.
Push(c, r, content) ==
  /\ pc[c] = "new" /\ r.tag # None
  /\ ref' = [ref EXCEPT ![c] = r]
  /\ bytes' = [bytes EXCEPT ![c] = content]
  /\ Goto(c, "put_blob")
  /\ UNCHANGED <<storeVars, netVars, layer, stamp, file, misled, faults>>

\* Faulty variant: the blob is skipped when another repository has it.
PutBlobOnce(c) ==
  /\ pc[c] = "put_blob"
  /\ blobs' = IF \E r \in Repos : <<r, bytes[c]>> \in blobs
              THEN blobs ELSE blobs \cup {<<ref[c].repo, bytes[c]>>}
  /\ Goto(c, "put_config")
  /\ UNCHANGED <<storeVars, manifests, tags, ref, bytes, layer, stamp, file, misled, faults>>

\* POST .../blobs/uploads/ and the monolithic PUT to the session it opens.
PutBlob(c) ==
  /\ pc[c] = "put_blob"
  /\ blobs' = blobs \cup {<<ref[c].repo, bytes[c]>>}
  /\ Goto(c, "put_config")
  /\ UNCHANGED <<storeVars, manifests, tags, ref, bytes, layer, stamp, file, misled, faults>>

\* push_blob, for the config object.
PutConfig(c) ==
  /\ pc[c] = "put_config"
  /\ blobs' = blobs \cup {<<ref[c].repo, Config>>}
  /\ Goto(c, "put_manifest")
  /\ UNCHANGED <<storeVars, manifests, tags, ref, bytes, layer, stamp, file, misled, faults>>

\* PUT .../manifests/<reference>, the last of the three.
PutManifest(c) ==
  /\ pc[c] = "put_manifest"
  /\ manifests' = manifests \cup {<<ref[c].repo, bytes[c]>>}
  /\ tags' = [tags EXCEPT ![ref[c].repo][ref[c].tag] = bytes[c]]
  /\ Goto(c, "done")
  /\ UNCHANGED <<storeVars, blobs, ref, bytes, layer, stamp, file, misled, faults>>

-----------------------------------------------------------------------------
(* pull                                                                    *)

Pull(c, r) ==
  /\ pc[c] = "new"
  /\ ref' = [ref EXCEPT ![c] = r]
  /\ Goto(c, "get_manifest")
  /\ UNCHANGED <<storeVars, netVars, bytes, layer, stamp, file, misled, faults>>

\* What the registry has under the reference: the tag if there is one, else
\* the digest, else the tag "latest", which nobody has pushed here.
Reference(r) ==
  IF r.tag # None THEN tags[r.repo][r.tag]
  ELSE IF <<r.repo, r.digest>> \in manifests THEN r.digest ELSE None

\* fetch_manifest, and the first layer of the Wasm media type.
GetManifest(c) ==
  /\ pc[c] = "get_manifest"
  /\ IF Reference(ref[c]) \in Contents
     THEN layer' = [layer EXCEPT ![c] = Reference(ref[c])] /\ Goto(c, "get_blob")
     ELSE UNCHANGED layer /\ Goto(c, "failed")
  /\ UNCHANGED <<storeVars, netVars, ref, bytes, stamp, file, misled, faults>>

\* The registry, or who answers for it, sends another manifest: nothing compares
\* it with the digest that was asked for.
GetOtherManifest(c, b) ==
  /\ pc[c] = "get_manifest" /\ b # Reference(ref[c])
  /\ faults < MaxFaults /\ faults' = faults + 1
  /\ layer' = [layer EXCEPT ![c] = b]
  /\ misled' = misled \cup {c}
  /\ Goto(c, "get_blob")
  /\ UNCHANGED <<storeVars, netVars, ref, bytes, stamp, file>>

\* fetch_blob
GetBlob(c) ==
  /\ pc[c] = "get_blob"
  /\ IF <<ref[c].repo, layer[c]>> \in blobs
     THEN bytes' = [bytes EXCEPT ![c] = layer[c]] /\ Goto(c, "verify")
     ELSE UNCHANGED bytes /\ Goto(c, "failed")
  /\ UNCHANGED <<storeVars, netVars, ref, layer, stamp, file, misled, faults>>

\* The blob arrives, but not as it was stored.
GetDamagedBlob(c, b) ==
  /\ pc[c] = "get_blob"
  /\ faults < MaxFaults /\ faults' = faults + 1
  /\ bytes' = [bytes EXCEPT ![c] = b]
  /\ Goto(c, "verify")
  /\ UNCHANGED <<storeVars, netVars, ref, layer, stamp, file, misled>>

\* Faulty variant: any component will do.
VerifyIsComponent(c) ==
  /\ pc[c] = "verify"
  /\ Goto(c, IF bytes[c] \in Contents THEN "open" ELSE "failed")
  /\ UNCHANGED <<storeVars, netVars, ref, bytes, layer, stamp, file, misled, faults>>

\* The digest of the bytes against the manifest's.
Verify(c) ==
  /\ pc[c] = "verify"
  /\ Goto(c, IF bytes[c] = layer[c] THEN "open" ELSE "failed")
  /\ UNCHANGED <<storeVars, netVars, ref, bytes, layer, stamp, file, misled, faults>>

Name(c) == FileOf[ref[c].repo]
File(c) == <<Cwd[c], Name(c)>>

\* Faulty variant: the entry first, then the file.
OpenRegistered(c) ==
  /\ pc[c] = "open"
  /\ Upsert(ref[c], Name(c), Cwd[c], Now)
  /\ Goto(c, "write")
  /\ UNCHANGED <<netVars, ref, bytes, layer, stamp, file, misled, faults>>

\* fs::write truncates the file,
Open(c) ==
  /\ pc[c] = "open"
  /\ file' = [file EXCEPT ![File(c)] = Torn]
  /\ Goto(c, "write")
  /\ UNCHANGED <<storeVars, netVars, ref, bytes, layer, stamp, misled, faults>>

\* and writes it; over what another pull wrote meanwhile, of another length,
\* it may leave the other's end.
Write(c) ==
  /\ pc[c] = "write"
  /\ \E b \in {bytes[c]} \cup (IF file[File(c)] \in {Torn, bytes[c]} THEN {} ELSE {Torn}) :
       file' = [file EXCEPT ![File(c)] = b]
  /\ Goto(c, "register")
  /\ UNCHANGED <<storeVars, netVars, ref, bytes, layer, stamp, misled, faults>>

\* RegistryStore::register: the clock is read,
Register(c) ==
  /\ pc[c] = "register"
  /\ stamp' = [stamp EXCEPT ![c] = Now]
  /\ Goto(c, "upsert")
  /\ UNCHANGED <<storeVars, netVars, ref, bytes, layer, file, misled, faults>>

\* and the statement runs when the database is free.
Save(c) ==
  /\ pc[c] = "upsert"
  /\ Upsert(ref[c], Name(c), Cwd[c], stamp[c])
  /\ stamp' = [stamp EXCEPT ![c] = Unstamped]
  /\ Goto(c, "done")
  /\ UNCHANGED <<netVars, ref, bytes, layer, file, misled, faults>>

\* `fluxion registry rm`, of an id that `list` shows.
Remove(c, e) ==
  /\ pc[c] = "new"
  /\ Delete(e)
  /\ Goto(c, "done")
  /\ UNCHANGED <<netVars, ref, bytes, layer, stamp, file, misled, faults>>

\* A request is lost or refused, or the command is killed: `?` ends it.
Fails(c) ==
  /\ pc[c] \notin {"new", "done", "failed"}
  /\ faults < MaxFaults /\ faults' = faults + 1
  /\ Goto(c, "failed")
  /\ UNCHANGED <<storeVars, netVars, ref, bytes, layer, stamp, file, misled>>

Next ==
  \/ Tick
  \/ \E c \in Commands :
       \/ \E r \in Refs : Pull(c, r) \/ \E content \in Contents : Push(c, r, content)
       \/ PutBlob(c) \/ PutConfig(c) \/ PutManifest(c)
       \/ GetManifest(c) \/ GetBlob(c) \/ Verify(c) \/ Open(c) \/ Write(c)
       \/ Register(c) \/ Save(c)
       \/ \E b \in Contents : GetOtherManifest(c, b)
       \/ \E b \in Contents \cup {Damaged} : GetDamagedBlob(c, b)
       \/ \E e \in rows : Remove(c, e)
       \/ Fails(c)

Spec == Init /\ [][Next]_vars

-----------------------------------------------------------------------------
(* Properties                                                              *)

Pc == {"new", "put_blob", "put_config", "put_manifest", "get_manifest", "get_blob", "verify",
       "open", "write", "register", "upsert", "done", "failed"}

\* The type invariant.
TypeOK ==
  /\ StoreOK
  /\ blobs \subseteq Repos \X (Contents \cup {Config})
  /\ manifests \subseteq Repos \X Digests
  /\ tags \in [Repos -> [Tags -> Digests]]
  /\ pc \in [Commands -> Pc]
  /\ ref \in [Commands -> OciRef \cup {NoRef}]
  /\ bytes \in [Commands -> Contents \cup {None, Damaged}]
  /\ layer \in [Commands -> Contents \cup {None}]
  /\ stamp \in [Commands -> Stamp]
  /\ file \in [Files -> Contents \cup {None, Torn}]
  /\ misled \subseteq Commands
  /\ faults \in 0 .. MaxFaults

(***************************************************************************)
(* A manifest that can be found can be pulled: its layer and its config    *)
(* are in the same repository, whichever pushes were cut short and however *)
(* they overlap (oci.rs, push: the manifest goes last).                    *)
(***************************************************************************)
ManifestsComplete ==
  \A r \in Repos, x \in Contents :
    <<r, x>> \in manifests => <<r, x>> \in blobs /\ <<r, Config>> \in blobs

(***************************************************************************)
(* What a pull saves is the layer of the manifest it was sent, whatever    *)
(* arrived instead of the blob.  If that is the manifest it named, and     *)
(* nothing in pull makes sure of it, the component is one of its           *)
(* repository and, by digest, the very one asked for, wherever the tags    *)
(* have moved.                                                             *)
(***************************************************************************)
PulledIsNamed ==
  \A c \in Commands : pc[c] \in {"open", "write", "register", "upsert"} =>
    /\ bytes[c] = layer[c]
    /\ c \notin misled =>
         /\ <<ref[c].repo, bytes[c]>> \in manifests
         /\ ref[c].tag = None => bytes[c] = ref[c].digest

(***************************************************************************)
(* The file of an entry exists in the directory of the command that made   *)
(* it, to which its path is relative: the entry is recorded when the file  *)
(* has been written, and nothing removes a file.                           *)
(***************************************************************************)
EntriesHaveFiles == \A e \in rows : file[<<e.dir, e.path>>] # None

(***************************************************************************)
(* What resolve finds for a tag is the last that was saved for it, but for *)
(* the time register takes, and its file is where it was saved.            *)
(***************************************************************************)
ResolvesToSaved == EntriesHaveFiles /\ ResolvesToLatest
=============================================================================
