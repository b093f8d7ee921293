# Verification of honkai-rule-server

TLA+ modules for the subscription merge server in `src/`: a Go process that
fetches Clash subscriptions from several upstreams, caches them in memory and
on disk, merges them with the operator's own proxies and rules, and serves the
result behind tokens. TLC checks the modules on small instances; TLAPS proves
the central ones for every value of their constants.

## The system

| Part | Code | State | Operations |
|---|---|---|---|
| Payload cache | `internal/fetcher/cache.go` | entry per source (payload, storedAt, lastFailedAt); snapshot file per source | Get, State, set and persist, markFailed, Drop, RefreshIfStale, LoadFromDisk |
| Fetch coordinator | `internal/fetcher/scheduler.go` | bootstrap state and last result per source, Ready channel, a goroutine with a ticker per source | Start, bootstrapAndRun, runSteady, refresh, shouldDrop, promotion, AllSucceeded, SourceStates |
| Upstream fetcher | `internal/fetcher/http.go`, `headers.go` | none | one HTTP request with a timeout, shape check, header parsing |
| Process | `cmd/server/main.go`, `internal/server/app.go` | signal context, listener | load tokens, watch, rehydrate, start coordinator, wait, listen, shut down |
| Handlers | `internal/server/routes/` | none of their own | GET / (gate, Build, Render), GET /health |
| Merge pipeline | `internal/merge/` | none (pure, but reads the cache twice) | namespacing, unions, regions, fan-out, rules, providers, pruning |
| Traffic and daily spend | `internal/merge/traffic.go`, `internal/dailyspend/` | `today-zero.json` | allowance, rollover, spend since midnight, Load and Save |
| Token store | `internal/config/tokens.go`, `internal/auth/auth.go` | token map, debounce timer, reloads under way | Load, Watch, watchLoop, Lookup, RequireToken |
| Loaders | `internal/config/`, `internal/customrules/`, `internal/auth/ua_filter.go` | read once | environment, CSV, own proxies, custom rules, user-agent prefixes |
| Output adapter | `internal/output/` | template | blocks, field order, comments, headers, unescaping |
| Region table | `internal/merge/region_table.go` | none | country and continent of a display name |

What makes it hard: nothing is locked across two reads. Handlers read Ready,
then AllSucceeded, then the cache twice, while goroutines refresh, fail and drop
payloads; the ticker's period equals the TTL, so lateness decides whether a tick
refreshes; the memory and the disk half of a store can succeed separately and a
restart reads the disk half; concurrent requests load, compose and save the
day's snapshot around midnight through one temporary name; token reloads start
from a timer and can overlap while the operator is still editing. The document
itself goes through a dozen passes that each assume what the earlier ones left:
prefixes that keep names apart, a prune that cleans up references, swaps that
order fields, a pass over raw bytes that goes by quotation marks. `PROJECT.json`
lists these hazards line by line with the properties that cover them.

Correct means: the gate opens only when it should and its verdict holds for a
whole request; what is served is recent up to a known bound; a source is dropped
only after its window and comes back by itself; a file is whole or absent; the
header shows today's figures; a revoked token stays revoked; the served document
refers only to what it defines, in the order the operator asked for, and the
client reads in it what the upstreams wrote.

## Modules

| Module | Models | Checked by |
|---|---|---|
| `Cache` | the cache; one operator per method, used by the coordinator's actions | through `Coordinator` |
| `Coordinator` | one goroutine per source (`pc`), Ready, cancellation, exit, restart, time | `MCCoordinator`, proofs |
| `BootstrapGate` | abstract promise of the coordinator to the handlers | refined by `Coordinator` |
| `CoordinatorInv` | the inductive invariant | `MCCoordinator`, proofs |
| `CoordinatorProofs` | theorems | TLAPS |
| `Serving`, `ServingProofs` | listener and both handlers over `Coordinator`, one step per unlocked read | `MCServing`, TLAPS |
| `SnapshotFile`, `SnapshotFileProofs` | Save of the daily snapshot, call by call, on a small file system | `MCSnapshotFile`, TLAPS |
| `TokenStore`, `TokenStoreProofs` | operator, inotify, watcher, timer, reloads, lookups | `MCTokenStore`, TLAPS |
| `Traffic` | arithmetic of the traffic header, as operators | through `DailySpend` and `Response` |
| `DailySpend`, `DailySpendProofs` | the four steps of a request over `Traffic`, a clock and moving counters | its own cfgs, TLAPS |
| `Upstream` | the fetcher's checks and header parsers, as operators | through `Response` |
| `Config` | the loaders and the user-agent filter, as operators | through `Response` |
| `Merge` | the passes of Build, as operators | through `Response` |
| `Regions` | region table and inference | `MCRegionTable`, through `Response` |
| `Layout` | the order of a mapping's fields | through `Response` |
| `Lists` | filtering and stable sorting of sequences | through `Config` and `Merge` |
| `Render` | the output adapter, as operators | through `Response` |
| `Response` | start-up, refresh and GET / composed from `Config`, `Upstream`, `Merge`, `Regions`, `Render` and `Traffic` | `MCResponse` |
| `ResponseProperties` | what a configuration in force and the traffic header satisfy | `MCResponse`, TLAPS |
| `DocumentProperties` | what the served document satisfies | `MCResponse` |
| `OperatorProofs` | theorems and lemmas about `Traffic` and `Layout` | TLAPS |
| `ConfigProofs` | lemmas about `Lists`, `Config` and the header parser of `Upstream` | TLAPS |
| `ResponseProofs` | theorems about `Response` | TLAPS |

Operators and actions carry the names of the code's functions; the `map` of
`PROJECT.json` gives their lines. Operators named in a comment "Mutant of X" are
X with a plausible mistake; they show that the properties can fail.

**Time.** `Coordinator` has no clock. A payload carries its age, a goroutine the
time `elapsed` at its position, a ticker the time to its next tick. `Advance`
lets a unit pass, but not while a goroutine has used up its patience (the fetch
timeout, the retry delay plus `Latency`, else `Latency`). Ages saturate at
`AgeCap`, above every duration they are compared with. `Latency` makes ticks
late, which is where the skipped refreshes come from. A tick that finds the
channel full is lost, as in Go.

**Cache and goroutines.** There is a position before and after each fetch, disk
write and change of bootstrap state. `FetchOk` is the memory half of `set`,
`PersistOk` and `PersistFail` the disk half. `storedAt` is read before the
fetch, so a new entry is `elapsed` old. `Exit` covers both the return of main,
which does not wait for goroutines, and a kill. `Startup` may skip any snapshot
as unreadable. Only one goroutine writes a source's entry, so `shouldDrop` and
`Drop` are one step.

**Names.** A name is the sequence of parts that `_` joins. Source names match
`[a-z]+`, so the first part is the source. The suffix of a colliding proxy name
is two further parts. A part may have a `Spelling`, a sequence of symbols, which
is what the region table and the encoder look at.

**The composition.** `Response` joins everything a request depends on: `Start`
runs the loaders in main's order and ends the process at the first error;
`Refresh` takes a reply per enabled source through the fetcher's checks and the
header parsers; `Serve` filters the user agent, builds, loads and saves the
snapshot, and renders. Each is one step: that refreshes, requests and saves
interleave is the subject of `Coordinator`, `Serving` and `DailySpend`.

**Data.** An environment value or CSV cell is blank, a number or a word. A
header is its sequence of pairs. A mapping is a sequence of keys with values. A
body is a sequence of bytes, of which only those count that the unescaping pass
tells apart; an escape has two hexadecimal digits instead of eight.

## Runs

| Run | Instance | Distinct states |
|---|---|---|
| `coordinator` | one source, TTL 2, window 3, timeout 1, latency 1, two attempts, disk on | 38,492 |
| `serving` | a refreshed, a never-refreshed and a disabled source, one request slot | 867,580 |
| `snapshot_file` | one Save at a time, texts of two lengths, three inodes | 2,950 |
| `daily_spend` | two requests, one source, three days, disk faults | 1,609,500 |
| `token_store` | four versions, one malformed, three kinds of edit | 6,840 |
| `response` | six families of files and replies, two sources, two requests | 73,953 |

- **coordinator.** `ServedAgeBounded` bounds the age of what is served by the
  keep bound plus a TTL, a fetch and the latencies; `DropsOnlyExpired`,
  `GreenNeedsRecentPayload`, `DiskNotNewer` and `ReportedSuccessIsCached` say
  when a payload may go, when a source may turn green, and how memory, disk and
  report relate. `BootstrapEnds`, `Recovers`, `UnreachableIsDropped` and
  `ShutdownDrains` are liveness. One source is enough because sources share only
  the Ready channel; that is what `serving` checks with several. The durations
  let a tick be early, late and lost, and let a window end before and after it.
- **serving.** `GateHoldsThroughBuild` and `HealthAgreesWithSources` are about
  reads that no lock connects; `PinnedIsServed` about Build's two walks;
  `ReadyMeansSettled` and `ImplementsGate` about the Ready channel;
  `PinnedVerdictIsFinal` about the source without a ticker.
- **snapshot_file.** `NeverPartial`, `PublishedFileIsStable`: any call of Save
  may fail, a write may be partial, the process may die between calls. Three
  inodes cover the published, the temporary and a new file.
- **daily_spend.** `SpendIsTodays`, `SavedIsLoadable`. A day is one second long;
  three days give two midnights, each with both requests on either side.
- **token_store.** `StoreIsAVersion`, `RevocationIsFinal`, `HotReload`, for
  reloads that take less than the debounce.
- **response.** Start-up, a refresh, a request, and for two families a second
  refresh and request on the same day or the next. Each family is rich in one
  respect and plain in the others:
  - *config*: every variable with a wrong, a zero and a good value, pairs of CSV
    records from ten kinds, six headers, own-proxies files, pairs of
    custom rule files, templates. `AcceptedConfigIsSound`, `BucketsAnnounced`.
  - *merge*: documents of source a with up to three proxies (with a dialer,
    without a name, listed twice), two groups and three rules (with and without
    a trailing `MATCH`, with backed and unbacked RULE-SETs), source b absent or
    present, own groups and custom rules, selector and fallback called the same
    or not. `ReferencesResolve`, `ProvidersAreThoseUsed`, `RulesByPrecedence`,
    `NamesAreUnique`, `EveryProxySelectable`, `EmptyOnlyByCascade`.
  - *layout*: a group with its fields in rotations of three orders, whole and
    with one field missing. `LayoutIsCanonical`.
  - *texts*: names of up to three symbols among quotation mark, backslash, `U`,
    digit, letter and a supplementary character, longer ones that look like
    escapes, and pairs. `MeaningIsKept`.
  - *fetch*: failing replies, statuses at the boundaries, odd headers, twice.
  - *traffic*: counters up to 2 of two sources with and without expiry, twice,
    around a midnight. `AllowanceLasts` (the allowance is the most that lasts
    until the expiry), `LaterRequestKeepsPin` (the total is that allowance plus
    the spend), `SplitIsProportional`.

  Upstream documents are closed (their own members exist). The inputs leave out
  an empty group named by a provider's `proxy` or by a rule with `src`, a name
  listed three times, and own groups that name upstream proxies or are called
  `region_XX`. Three things are in the inputs and excepted in the properties:
  - the `dialer-proxy` of an upstream proxy. `namespace.go:35-44` prefixes the
    proxy's name and leaves its dialer, so a dialer that is the source's own
    group or proxy names nothing in the served document (`ReferencesResolve`
    speaks of the dialers of own and fan-out proxies);
  - the rule before an unbacked trailing RULE-SET, which is lost
    (`RulesByPrecedence`, see below);
  - a source that lists a name twice (`NamesAreUnique`, see below).

### Where code and documents disagree

| Run | Statement | What happens |
|---|---|---|
| `disk_failure` | `cache.go:105`, `subscription.go:47` | a failed cache write counts as a failed fetch and keeps the gate shut |
| `usable_cache` | `subscription.go:50` | a payload is stored, the process restarts and rehydrates it, the bootstrap fetches fail: it is within its window and not served |
| `snapshot_file_two` | spec 011, `spec.md:39` | two Saves share the temporary name; a reader can find a partial file |
| `captured_twice` | spec 011 FR-003, `spec.md:56` | after midnight two requests load yesterday's snapshot; the second captures another allowance after the first has saved its own |
| `token_swap` | `config/README.md:81` | the rename of `..data` is ignored; the store keeps the old tokens |
| `region_table` | `region_table.go:68`, spec 002 `quickstart.md:137` | 印度 precedes 印度尼西亚, so Indonesia's entry never matches and its proxies land in `_region_IN` |

Each of these runs is expected to find its counterexample.

Further disagreements, without a run of their own:

- A name that one source lists twice is a loud failure according to
  `proxies.go:25-26` and spec 002 (FR-007 at `spec.md:107`, `data-model.md:201`,
  `contracts/served-subscription.changes.md:23`). The code gives the second
  proxy a suffix and serves it, and a third one gets the same suffix.
- Spec 002 keeps every rule but the trailing one (`spec.md:47`) and drops that
  one first (`research.md:42`). `pipeline.go:293` first drops unbacked RULE-SETs;
  when the trailing rule is one, the rule before it is lost too.
- Spec 011 gives the total as allowance plus spend (FR-002, `traffic_test.go:401`)
  and calls it stable through the day, with a remainder that shrinks (FR-003 at
  `spec.md:56`, also lines 25, 102 and 133, `plan.md:172`, `quickstart.md:190` and
  the comment at `traffic.go:28`). Both cannot hold: the code's total grows with
  the spend and the remainder stays the allowance. `LaterRequestKeepsPin` and
  `PinAlwaysKept` state what FR-002 and the test say.

Smaller observations: `own_proxies.go:14` says that both keys
must be present and references must resolve, the code accepts absent keys and
any reference that is not empty; a template whose root is a list or empty passes
start-up and fails every request; an own proxy and an own group may share a
name; the unescaping pass can rewrite the text of an escape in a plain scalar
that follows an odd number of quotation marks, against its comment at line 463.

### Fairness

`Coordinator`: weak fairness of each goroutine and of `SignalReady` (the Go
scheduler runs what is runnable; fetches have a timeout), of time, and strong
fairness of `StopSteady`, because `select` chooses at random among ready cases.
Nothing is assumed of upstreams, disk or signals; `Recovers` and
`UnreachableIsDropped` state their assumptions in the formula. `TokenStore`:
weak fairness of the watcher, the timer, the reloads and time; none of the
operator.

## Proofs

For all sources, rows, durations, retry counts and latencies that satisfy
`CacheAssumption` and `CoordinatorAssumption` (rows have integer intervals and
natural windows, the two defaults are positive, and `AgeCap` is at least the
fetch timeout and every TTL and exceeds every stale window), TLAPS proves:

- `Invariance`: `Spec => []IndInv`, and from it `TypeCorrect`, `ReadySettled`,
  `StalenessBounded`, `DiskIsOlder`, `SuccessIsCached`;
- the action properties `GreenIsRecent`, `DropIsExpired` and `PinnedFinal`;
- `Refinement`: the coordinator implements `BootstrapGate`.

None of the safety properties is inductive. That a served payload is not too old
depends on how long the goroutine has been where it is, which depends on why it
went there. `IndInv` says this position by position: `Lifecycle` and `Control`
(which bookkeeping goes with which position), `Result` (what the last refresh
left), `Timing` (patience and ticker), `Young` and `Expired` (age after a fresh
result, and when a fetch was needed), `Aging` (the age around the ticker loop,
measured by `tick`), `Snapshot` (disk against memory and the fetch under way).
`CoordinatorProofs` has one lemma per action of bootstrap, refresh and the steady
loop about its own source; `Frame` and `LocalStep` extend it to the others. The
process-wide actions follow, and `Advance`, which moves every source at once. The
refinement maps each action to an abstract step or a stutter, using `IndInv`
where the abstract guard mentions the payload or Ready.

**Serving**, for any number of requests. `ServingIsCoordinator`: the composition
is a behaviour of `Coordinator`, so all of the above holds beside the handlers.
`GateHolds`, `HealthAgrees` and `PinnedServed` rest on `ServingInv`, which adds
to the types what a request may rely on at each of its steps: once Ready is
closed a source that has succeeded never goes back (`VerdictStays`), and the
entry of a source without a ticker stays what it is (`PinnedStays`). Both need
`IndInv`.

**SnapshotFile**, for any texts and inodes. `OneSaverNeverPartial` and
`OneSaverStable` assume a single saver; the run `snapshot_file_two` shows that
they need to. `OneSaverInv` says what the temporary file holds at each position
of Save and that it is not the published one.

**TokenStore**, for any versions and tokens. `StoreVersioned` needs nothing.
`RevocationFinal` assumes `LoadTime < Debounce`, which the code does not enforce: a timer that is running beside a
reload has then been running no longer than the reload, no two reloads
overlap, and what a reload has read is not older than the store (`OrderInv`).
Without the assumption a slow reload may install an older version over a newer
one.

**DailySpend**, for any sources, requests, quotas, counters and length of a day
(`TrafficAssumption`, `DailySpendAssumption`: finitely many sources, a day of at
least a second). `SpendTyped` and `SavedAlwaysLoadable` say that whatever overlaps, resets,
gets lost or is damaged, a saved snapshot passes `ValidSnapshot`.
`SpendAlwaysTodays` is not inductive: a request may go by baselines that another
request read, or that lay on disk. `DayInv` is about all readings of the day that
are still around (the counters, what requests have collected, the baselines on
disk and in requests): any two of them are apart by no more than the counters
have `moved` since midnight, summed up over the sources of both. A request's
header is then the growth between two such readings. `straddled` exempts what
follows a snapshot captured after midnight from counters read before it.

**Layout**, for any mapping with distinct keys. `FieldsKept`, `LayoutCanonical`
and `NameFirst` follow from one lemma about a swap (`SwapKeeps`) and one that
placing the next key leaves those before it alone (`PlaceNext`).

**Response**, for any files, replies, clients and clock. Of the inputs the proofs
only assume their shape (`ConfigAssumption`, `ResponseAssumption`: a cell is
blank, a number or a word, a body is a sequence of proxies, and so on; `Words`
stands for the strings that occur as parts of names). Nothing is assumed of what
they contain: numbers may be negative, names repeated, headers odd.

- `ConfigAlwaysSound` rests on `ConfigInv` (what is in force is what `Run` made
  of the files found at start-up) and on what the loaders accept (`RunIs`): rows
  are filtered records (`KeptAre`), custom rule sets are sorted (`LexSorted`).
- `AllowanceAlwaysLasts`: the division the code rounds down is the greatest share
  that lasts, and its count of days the least that reaches the expiry (`ShareIs`,
  `CeilIs`); `AllowanceIs` adds this up over the sources with and without expiry.
  `UserinfoIs` and `HeaderIs` carry it through the header: what the client parses
  is what the server composed.
- `PinAlwaysKept` needs `HeldInv` (what is held is what a header parses to) and
  `PinInv`: from the first request of a day with figures until midnight, the
  snapshot on disk is what that request read, with the allowance it showed. It
  says so only if no counter was negative: such a counter can put an upload ratio
  outside 0 to 1, `Load` refuses the snapshot, and the next request captures
  another.
- `SplitAlwaysProportional` further needs that the code's weighted average of the
  upload ratios lies between the lowest and the highest of them, and that rounding
  to the nearest integer moves it by at most a half. `WeightedSide` shows the
  first for any weights, without dividing; `RoundIs` the second.

**Induction.** What a sum over a set or a concatenation of sequences amounts to
is proved by induction, though the library's induction theorems cannot be used:
`LeastNat`, `NatInduct` and `SetInduct` state induction over a *set* of numbers
or of finite sets, which the provers can instantiate, and are derived from the
theorem that well-founded relations have minimal elements. The recursive function
that a fold chooses has to be shown to exist first (`FlatExists`). `Lists` defines
filtering and sorting from sets and functions for this reason.

Only model-checked: all liveness, since fairness is out of the prover's reach; and
`DocumentProperties`, which are about the composition of all passes of `Merge` and
`Render` (`ReferencesResolve`, `ProvidersAreThoseUsed`, `RulesByPrecedence`,
`NamesAreUnique`, `EveryProxySelectable`, `EmptyOnlyByCascade`,
`LayoutIsCanonical`, `BucketsAnnounced`, `MeaningIsKept`). Some of them hold only
of the documents in the run, see above; of `LayoutIsCanonical` the step that writes
one group is proved.

## Not modelled

`ForceRefresh` (called by tests only); `ComposeServedTrafficHeader` without a
snapshotter (main always sets one); `AggregateSubscriptionUserinfo` (its result
is read by nobody); the figures in the body of `/health`; the normalisation of
`URL_PATH_PREFIX` and the routing table; flow and block style, template comments
and the rest of the YAML text; logging. `Traffic` has exact fractions where the
code uses floating point, and days without DST. `DailySpend` has no negative
counters; `Response` lets them in, but the properties of the figures exclude
them, since no document says what the header should show. English indicators of
the region table are whole words.
