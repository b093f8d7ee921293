----------------------------- MODULE TokenStore -----------------------------
(***************************************************************************)
(* The token store of internal/config/tokens.go and the middleware of      *)
(* internal/auth/auth.go: Load, the fsnotify watcher with its debounce     *)
(* timer, and the reloads the timer starts, against an operator who edits  *)
(* the file.                                                               *)
(*                                                                         *)
(* The file's contents are numbered in the order the operator writes them. *)
(* Time is counted in units of which the debounce takes Debounce.          *)
(***************************************************************************)
EXTENDS Naturals, Sequences, FiniteSets

CONSTANTS
  MaxVersion,   \* bound on the number of contents the operator writes
  Tokens,
  Records,      \* per version and token: "absent", "active", "revoked" or "lapsing"
  Malformed,    \* versions with a duplicate or an empty token
  Edits,        \* how the operator edits: "rename", "rewrite" in place, "swap" of ..data
  Debounce,     \* tokenReloadDebounce
  LoadTime      \* longest a reload takes from the timer to the new map

Versions == 1..MaxVersion
Empty == 0                 \* NewTokenStore's map
Torn == MaxVersion + 1     \* a file that is being rewritten: not JSON yet
Unread == MaxVersion + 2   \* a reload that has not read the file

ASSUME TokenStoreAssumption ==
  /\ MaxVersion \in Nat \ {0}
  /\ Records \in [Versions -> [Tokens -> {"absent", "active", "revoked", "lapsing"}]]
  /\ Malformed \subseteq Versions
  /\ Edits \subseteq {"rename", "rewrite", "swap"}
  /\ Debounce \in Nat /\ LoadTime \in Nat

VARIABLES
  file,     \* what a read of the path returns
  latest,   \* the last version written
  phase,    \* of the process: "off", "loaded", "watching", "stopped" or "fatal"
  store,    \* the version whose records byToken holds
  events,   \* w.Events: the base names the watcher reports
  timers,   \* time left on each running debounce timer
  loads,    \* reloads under way: what they have read, and for how long they run
  lapsed    \* the clock has passed the ExpiresAt of the lapsing tokens

vars == <<file, latest, phase, store, events, timers, loads, lapsed>>

Load == [seen : Versions \cup {Torn, Unread}, age : 0..LoadTime]

TypeOK ==
  /\ file \in Versions \cup {Torn} /\ latest \in Versions
  /\ phase \in {"off", "loaded", "watching", "stopped", "fatal"}
  /\ store \in Versions \cup {Empty}
  /\ events \in Seq({"path", "other"})
  /\ timers \subseteq 0..Debounce /\ Cardinality(timers) <= 1
  /\ loads \subseteq Load
  /\ lapsed \in BOOLEAN

Init ==
  /\ file = 1 /\ latest = 1
  /\ phase = "off" /\ store = Empty
  /\ events = <<>> /\ timers = {} /\ loads = {}
  /\ lapsed = FALSE

\* What Load accepts: a JSON document without an empty or repeated token.
Acceptable(content) == content \in Versions \ Malformed

\* Lookup: present, not revoked, not expired.
Lookup(t) ==
  /\ store # Empty
  /\ \/ Records[store][t] = "active"
     \/ Records[store][t] = "lapsing" /\ ~lapsed

\* RequireToken: the status of a request that carries the token.
RequireToken(t) == IF Lookup(t) THEN "pass" ELSE "401"
-----------------------------------------------------------------------------
(* The operator and the file system *)

\* inotify reports to a watcher that exists.
Notify(name) ==
  events' = IF phase = "watching" THEN Append(events, name) ELSE events

Write(how, content, name) ==
  /\ how \in Edits
  /\ file' = content
  /\ Notify(name)
  /\ UNCHANGED <<phase, store, timers, loads, lapsed>>

\* mv tokens.json.new tokens.json: one Create of the path.
Rename ==
  /\ file # Torn /\ latest < MaxVersion
  /\ Write("rename", latest + 1, "path")
  /\ latest' = latest + 1

\* An editor truncates the file and writes it: two Writes of the path.
Truncate ==
  /\ file # Torn /\ latest < MaxVersion
  /\ Write("rewrite", Torn, "path")
  /\ UNCHANGED latest

Rewrite ==
  /\ file = Torn
  /\ Write("rewrite", latest + 1, "path")
  /\ latest' = latest + 1

\* A Secret mounted on the directory: the kubelet renames ..data, and the path
\* itself stays a symbolic link through it.
Swap ==
  /\ latest < MaxVersion
  /\ Write("swap", latest + 1, "other")
  /\ latest' = latest + 1

Lapse ==
  /\ ~lapsed /\ lapsed' = TRUE
  /\ UNCHANGED <<file, latest, phase, store, events, timers, loads>>
-----------------------------------------------------------------------------
(* The server *)

\* main.run: the first Load, whose error is fatal.
FirstLoad ==
  /\ phase = "off"
  /\ IF Acceptable(file) THEN phase' = "loaded" /\ store' = file
                         ELSE phase' = "fatal" /\ UNCHANGED store
  /\ UNCHANGED <<file, latest, events, timers, loads, lapsed>>

\* Watch, once the directory is added.
Watch ==
  /\ phase = "loaded"
  /\ phase' = "watching"
  /\ UNCHANGED <<file, latest, store, events, timers, loads, lapsed>>

\* Mutant of TriggerReload: the running timer is not stopped.
TriggerReloadAlso == timers' = timers \cup {Debounce}

\* triggerReload: stop the timer if it still runs, start one.
TriggerReload == timers' = {Debounce}

\* Mutant of HandleEvent: an event that comes during a reload is skipped.
HandleEventWhenIdle ==
  /\ phase = "watching" /\ events # <<>>
  /\ events' = Tail(events)
  /\ IF Head(events) = "path" /\ loads = {} THEN TriggerReload ELSE UNCHANGED timers
  /\ UNCHANGED <<file, latest, phase, store, loads, lapsed>>

\* watchLoop takes an event and skips what is not a Write or Create of the path.
HandleEvent ==
  /\ phase = "watching" /\ events # <<>>
  /\ events' = Tail(events)
  /\ IF Head(events) = "path" THEN TriggerReload ELSE UNCHANGED timers
  /\ UNCHANGED <<file, latest, phase, store, loads, lapsed>>

\* The timer expires: its function runs in a goroutine of its own, which Stop
\* does not reach any more.
Fire ==
  /\ 0 \in timers
  /\ timers' = timers \ {0}
  /\ loads' = loads \cup {[seen |-> Unread, age |-> 0]}
  /\ UNCHANGED <<file, latest, phase, store, events, lapsed>>

\* Load: os.ReadFile.
ReadFile(l) ==
  /\ l.seen = Unread
  /\ loads' = (loads \ {l}) \cup {[l EXCEPT !.seen = file]}
  /\ UNCHANGED <<file, latest, phase, store, events, timers, lapsed>>

\* Mutant of Install: a reload that fails leaves an empty map.
InstallOrClear(l) ==
  /\ l.seen # Unread
  /\ store' = IF Acceptable(l.seen) THEN l.seen ELSE Empty
  /\ loads' = loads \ {l}
  /\ UNCHANGED <<file, latest, phase, events, timers, lapsed>>

\* Load: parse, and replace the map under the lock, or keep the previous one.
Install(l) ==
  /\ l.seen # Unread
  /\ store' = IF Acceptable(l.seen) THEN l.seen ELSE store
  /\ loads' = loads \ {l}
  /\ UNCHANGED <<file, latest, phase, events, timers, lapsed>>

\* watchLoop sees ctx.Done and stops the timer.
StopWatch ==
  /\ phase = "watching"
  /\ phase' = "stopped"
  /\ timers' = {}
  /\ UNCHANGED <<file, latest, store, events, loads, lapsed>>

\* A unit of time.  No reload outlasts LoadTime.
Advance ==
  /\ \A l \in loads : l.age < LoadTime
  /\ timers' = {IF d > 0 THEN d - 1 ELSE 0 : d \in timers}
  /\ loads' = {[l EXCEPT !.age = @ + 1] : l \in loads}
  /\ UNCHANGED <<file, latest, phase, store, events, lapsed>>

Server == \/ FirstLoad \/ Watch \/ HandleEvent \/ Fire
          \/ \E l \in loads : ReadFile(l) \/ Install(l)

Next ==
  \/ Rename \/ Truncate \/ Rewrite \/ Swap \/ Lapse
  \/ Server \/ StopWatch \/ Advance

\* The server's goroutines run, timers expire and time passes; the operator
\* and the signals are free.
Spec == Init /\ [][Next]_vars
FairSpec ==
  /\ Spec
  /\ WF_vars(HandleEvent) /\ WF_vars(Fire) /\ WF_vars(Advance)
  /\ WF_vars(\E l \in loads : ReadFile(l) \/ Install(l))
-----------------------------------------------------------------------------
\* Load and FR-017: the store is always one version of the file, as a whole,
\* that Load accepted and that the operator has written, whatever a reload
\* finds in a file that is being rewritten.
StoreIsAVersion ==
  phase \in {"loaded", "watching", "stopped"} => store \in (1..latest) \ Malformed

\* RequireToken and FR-019a: once a request is refused and no version from the
\* store's on accepts its token, it stays refused: an older reload never
\* brings a revoked or expired token back.
RevocationIsFinal ==
  [][\A t \in Tokens :
       /\ store # Empty /\ RequireToken(t) = "401"
       /\ \A v \in store..MaxVersion :
            Records[v][t] \in {"absent", "revoked"} \/ (Records[v][t] = "lapsing" /\ lapsed)
       => RequireToken(t)' = "401"]_vars

\* Watch: a version that is in the file when an event of the path is reported,
\* and is left alone from then on, reaches the store and stays there, whatever
\* reloads of earlier versions are still under way.
HotReload ==
  \A v \in Versions \ Malformed :
    /\ <>(file = v /\ \E i \in DOMAIN events : events[i] = "path")
    /\ <>[](phase = "watching" /\ file = v)
    => <>[](store = v)

\* config/README.md:81, "Kubernetes atomically replaces the mounted file and
\* fsnotify picks it up": what is put into the file under the watcher's eyes,
\* and left alone, reaches the store.
ReplacementReachesStore ==
  \A v \in Versions \ Malformed :
    <>(phase = "watching" /\ file # v) /\ <>[](phase = "watching" /\ file = v)
      => <>[](store = v)
=============================================================================
