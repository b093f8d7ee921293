------------------------------- MODULE Cache -------------------------------
(***************************************************************************)
(* The payload cache of internal/fetcher/cache.go: one in-memory entry per *)
(* source, optionally backed by one JSON snapshot per source on disk.      *)
(*                                                                         *)
(* Time is relative: instead of a storedAt instant an entry carries its    *)
(* age, the value of clock.Now().Sub(storedAt).  Ages saturate at AgeCap,  *)
(* which lies above every duration an age is compared with, so no          *)
(* comparison of the code can tell a saturated age from the real one.      *)
(* A payload is reduced to `body`, a name for the content that one fetch   *)
(* returned (the YAML and the captured headers together).                  *)
(***************************************************************************)
EXTENDS Naturals

CONSTANTS
  Sources,      \* every row of subscriptions.csv
  Bodies,       \* contents an upstream may return
  NoPayload,    \* a nil payload, or a snapshot file that is not there
  AgeCap,       \* where ages saturate
  DiskEnabled   \* FALSE models CACHE_DIR = ""

Payload == [body : Bodies, age : 0..AgeCap]

ASSUME CacheAssumption ==
  /\ AgeCap \in Nat
  /\ DiskEnabled \in BOOLEAN
  /\ NoPayload \notin Payload

VARIABLES
  mem,          \* payload and age of each byName entry, NoPayload if nil or absent
  lastFailed,   \* whether the entry's lastFailedAt is set
  disk          \* the snapshot file of each source

cacheVars == <<mem, lastFailed, disk>>

CacheTypeOK ==
  /\ mem \in [Sources -> Payload \cup {NoPayload}]
  /\ lastFailed \in [Sources -> BOOLEAN]
  /\ disk \in [Sources -> Payload \cup {NoPayload}]

\* NewCache: nothing in memory.  The disk keeps what earlier processes left.
EmptyMemory ==
  /\ mem = [s \in Sources |-> NoPayload]
  /\ lastFailed = [s \in Sources |-> FALSE]

ClearMemory ==
  /\ mem' = [s \in Sources |-> NoPayload]
  /\ lastFailed' = [s \in Sources |-> FALSE]

Has(s) == mem[s] # NoPayload

\* Cache.Get: the content, whatever its age.
Get(s) == IF Has(s) THEN mem[s].body ELSE NoPayload

\* Cache.State.
State(s, ttl) ==
  IF ~Has(s) THEN "missing" ELSE IF mem[s].age < ttl THEN "fresh" ELSE "stale"

\* The part of Cache.set done under the lock.
Set(s, p) ==
  /\ mem' = [mem EXCEPT ![s] = p]
  /\ lastFailed' = [lastFailed EXCEPT ![s] = FALSE]

\* Mutant of Persist: the snapshot is stamped when it is written.
PersistNow(s) ==
  disk' = IF DiskEnabled THEN [disk EXCEPT ![s] = [mem[s] EXCEPT !.age = 0]] ELSE disk

\* Cache.persist: the snapshot appears at once by rename, or not at all.  Its
\* FetchedAt, read as the fetch starts, is the storedAt of a later restart.
Persist(s) ==
  disk' = IF DiskEnabled THEN [disk EXCEPT ![s] = mem[s]] ELSE disk

\* Cache.markFailed: the previous payload stays.
MarkFailed(s) ==
  /\ lastFailed' = [lastFailed EXCEPT ![s] = TRUE]
  /\ UNCHANGED <<mem, disk>>

\* Cache.Drop: the error of os.Remove is ignored, so the file may survive.
Drop(s) ==
  /\ mem' = [mem EXCEPT ![s] = NoPayload]
  /\ lastFailed' = [lastFailed EXCEPT ![s] = FALSE]
  /\ \/ disk' = [disk EXCEPT ![s] = NoPayload]
     \/ UNCHANGED disk

\* Cache.LoadFromDisk: a snapshot that cannot be read or parsed is skipped.
LoadFromDisk(skipped) ==
  /\ mem' = [s \in Sources |-> IF s \in skipped THEN NoPayload ELSE disk[s]]
  /\ lastFailed' = [s \in Sources |-> FALSE]
  /\ UNCHANGED disk

\* One unit of time for a payload.
Older(p) ==
  IF p = NoPayload THEN p
  ELSE [p EXCEPT !.age = IF @ < AgeCap THEN @ + 1 ELSE AgeCap]

AgeCache ==
  /\ mem' = [s \in Sources |-> Older(mem[s])]
  /\ disk' = [s \in Sources |-> Older(disk[s])]
  /\ UNCHANGED lastFailed
=============================================================================
