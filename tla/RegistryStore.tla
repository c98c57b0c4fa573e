--------------------------- MODULE RegistryStore ----------------------------
(***************************************************************************)
(* The local registry: the table oci_components of ~/.fluxion/registry.db  *)
(* (fluxion-core/registry.rs), which names the component files that        *)
(* `fluxion registry pull` has saved.  Every call is one SQL statement     *)
(* under the mutex of the connection; register reads the clock before its  *)
(* statement, which may wait for the lock of the database.                 *)
(*                                                                         *)
(* A reference is registry/repository[:tag][@digest], of which the first   *)
(* two are one Repo here.  The id of an entry is a hash of the whole       *)
(* reference; it stands for the reference.                                 *)
(***************************************************************************)
EXTENDS Naturals, FiniteSets

CONSTANTS
  Repos,     \* registry and repository
  Tags,
  Digests,   \* digests of manifests
  Dirs,      \* working directories of commands
  None       \* no tag, no digest

ASSUME StoreAssumption == None \notin Tags \cup Digests

VARIABLES
  rows,      \* the entries, as a set of records
  clock,     \* now_secs()
  serial     \* history: how many registrations there have been

storeVars == <<rows, clock, serial>>

OciRef == [repo : Repos, tag : Tags \cup {None}, digest : Digests \cup {None}]

\* An entry; history: the directory of the command, its number and the one that was
\* the last when its clock was read.
Entry == [ref : OciRef, path : STRING, at : Nat, dir : Dirs, nth : Nat, after : Nat]

\* What register knows when it has read the clock.
Stamp == [at : Nat, after : Nat]
Now   == [at |-> clock, after |-> serial]

StoreInit == rows = {} /\ clock = 0 /\ serial = 0

\* upsert: ON CONFLICT(id) every column is replaced.
Upsert(r, p, d, s) ==
  /\ rows' = {e \in rows : e.ref # r}
               \cup {[ref |-> r, path |-> p, at |-> s.at, dir |-> d, nth |-> serial + 1, after |-> s.after]}
  /\ serial' = serial + 1
  /\ UNCHANGED clock

\* delete: the row goes, the file stays.
Delete(e) ==
  /\ e \in rows
  /\ rows' = rows \ {e}
  /\ UNCHANGED <<clock, serial>>

\* ORDER BY created_at DESC LIMIT 1: of rows of one second, any.
Newest(S) == {e \in S : \A e2 \in S : e2.at <= e.at}

\* resolve: `tag IS ?3 OR (?3 IS NULL AND digest IS ?4)`
Matches(r) ==
  {e \in rows : /\ e.ref.repo = r.repo
                /\ e.ref.tag = r.tag \/ (r.tag = None /\ e.ref.digest = r.digest)}

Resolved(r) == Newest(Matches(r))

\* find_by_repo
OfRepo(repo) == {e \in rows : e.ref.repo = repo}

-----------------------------------------------------------------------------
(* Properties                                                              *)

StoreOK ==
  /\ rows \subseteq Entry
  /\ \A e, e2 \in rows : e.ref = e2.ref => e = e2
  /\ clock \in Nat /\ serial \in Nat

(***************************************************************************)
(* What resolve finds for a tag is the last of the pulls recorded for that *)
(* tag, under whatever digest, unless a later one read the clock in the    *)
(* same second (created_at counts seconds) or before the found one was     *)
(* recorded, and waited for the database.                                  *)
(***************************************************************************)
ResolvesToLatest ==
  \A repo \in Repos, t \in Tags :
    \A e \in Resolved([repo |-> repo, tag |-> t, digest |-> None]) :
      \A e2 \in OfRepo(repo) :
        e2.ref.tag = t => e2.nth <= e.nth \/ e2.at = e.at \/ e2.after < e.nth
=============================================================================
