------------------------------ MODULE Response ------------------------------
(***************************************************************************)
(* From the files on disk and the upstream replies to one answer: start-up *)
(* (cmd/server/main.go), a refresh of every source, and GET / past the     *)
(* gate (server/routes/subscription.go): user-agent filter, Build, the     *)
(* traffic header with its snapshot, Render.  How refreshes, requests and  *)
(* snapshot writes interleave is the subject of Coordinator, Serving and   *)
(* DailySpend; here each is one step.                                      *)
(***************************************************************************)
EXTENDS Config, Merge, Regions, Render, Traffic

CONSTANTS
  Spelling,    \* the symbols of the parts of display names that have some
  StartFiles,  \* what the process may find on disk and in its environment
  ReplyMaps,   \* what a refresh may get: a reply of each source
  UserAgents   \* of the clients

-----------------------------------------------------------------------------
(* Functions on some of the sources, and the snapshots on disk.            *)
Partial(T) == UNION {[D -> T] : D \in SUBSET ToSet(Alphabet)}
SnapshotType == [localDate : Int, allowanceToday : Int, baselines : Partial(Int),
                 uploadRatios : Partial([n : Int, d : Int])]

(* The parts of the names that the server itself makes up.                 *)
ServerWords == {"", "@", "via", "AUTO", "region", "continent", "lb", "UNKNOWN", "MATCH",
                "Proxies", "auto"} \cup ToSet(CountryCodes) \cup ToSet(Continents)

ASSUME ResponseAssumption ==
  /\ ServerWords \cup ToSet(Alphabet) \subseteq Words
  /\ NoSnapshot \notin SnapshotType
  /\ \A f \in StartFiles : WellFormed(f)
  /\ \A r \in ReplyMaps : \A s \in DOMAIN r : r[s] \in ReplyType

-----------------------------------------------------------------------------
VARIABLES
  stage,     \* "start", "fatal" or "up"
  files,     \* history: what run() found
  config,    \* what run() loaded
  held,      \* the payloads in memory, by source
  now,       \* the clock
  snapshot,  \* the snapshot on disk, or NoSnapshot
  answer,    \* the answer just given
  first      \* history: what the first request of the day with figures read and showed

responseVars == <<stage, files, config, held, now, snapshot, answer, first>>

(* A name as text: the symbols of its parts, joined by "_".                *)
SpellingOf(part) ==
  IF part \in DOMAIN Spelling THEN Spelling[part] ELSE << <<"ch", part>> >>
DisplayText(name) ==
  Tail(FlattenSeq([i \in DOMAIN name |-> << <<"ch", "_">> >> \o SpellingOf(name[i])]))

(* The country of a display name, tabulated for those of one part.         *)
CountryTable ==
  LET spelling == Spelling IN [part \in DOMAIN spelling |-> InferCountry(spelling[part])]
CountryOf(display) ==
  IF Len(display) = 1 /\ display[1] \in DOMAIN Spelling THEN CountryTable[display[1]]
  ELSE InferCountry(DisplayText(display))

NoConfig == [none |-> TRUE]
NoAnswer == [status |-> 0]
NoRequest == [day |-> -1]

ResponseInit ==
  /\ now \in Nat
  /\ stage = "start" /\ files = NoConfig /\ config = NoConfig
  /\ held = <<>> /\ snapshot = NoSnapshot /\ answer = NoAnswer /\ first = NoRequest

Start(found) ==
  /\ stage = "start" /\ files' = found
  /\ LET result == Run(found)
     IN  IF result.ok THEN stage' = "up" /\ config' = result.val
         ELSE stage' = "fatal" /\ UNCHANGED config
  /\ UNCHANGED <<held, now, snapshot, answer, first>>

Enabled == {config.rows[i].name : i \in {j \in DOMAIN config.rows : config.rows[j].enable}}

(* A reply for each enabled source; a failed one leaves what is held.      *)
Refresh(replies) ==
  /\ stage = "up" /\ Enabled \subseteq DOMAIN replies
  /\ LET fetched == {s \in Enabled : Outcome(replies[s]) = "success"}
     IN  held' = [s \in DOMAIN held \cup fetched |->
                    IF s \in fetched THEN Payload(replies[s]) ELSE held[s]]
  /\ answer' = NoAnswer
  /\ UNCHANGED <<stage, files, config, now, snapshot, first>>

Advance(time) ==
  /\ stage = "up" /\ now < time /\ now' = time
  /\ answer' = NoAnswer
  /\ UNCHANGED <<stage, files, config, held, snapshot, first>>

-----------------------------------------------------------------------------
(* GET / *)

PerSource(payloads) ==
  [s \in {t \in DOMAIN payloads : payloads[t].userinfo # NoUserinfo} |-> payloads[s].userinfo]

(* The shortest interval that is positive, or the default.                 *)
AggregateProfileUpdateInterval(payloads, default) ==
  LET hours == {h \in {payloads[s].interval : s \in DOMAIN payloads} : h > 0}
  IN  IF hours = {} THEN default ELSE Min(hours)

LoadSnapshot(snap) ==
  IF snap # NoSnapshot /\ ValidSnapshot(snap) THEN snap ELSE NoSnapshot

TextOf(name) ==
  LET text == DisplayText(name) IN [i \in DOMAIN text |-> text[i][2]]

UpstreamNames(proxies) ==
  Filter([i \in DOMAIN proxies |-> proxies[i].name], LAMBDA n : Head(n) \in DOMAIN held)

(* Of the encoded document, the scalars that are upstream proxies' names.  *)
Encoded(names) == FlattenSeq([i \in DOMAIN names |-> EncodeScalar(TextOf(names[i]))])

Rendered(merged, header, hours) ==
  [status    |-> 200,
   root      |-> SetBlocks(config.template.root, merged.providers),
   proxies   |-> NormalizeProxyStyle(merged.proxies),
   groups    |-> NormalizeProxyGroupStyle(merged.groups),
   rules     |-> NormalizeRulesPriorityComments(merged.rules),
   providers |-> merged.providers,
   body      |-> UnescapeSupplementaryPlane(Encoded(UpstreamNames(merged.proxies))),
   userinfo  |-> header,
   interval  |-> IntervalHeader(hours)]

(* The filter, Build with the snapshot loaded and a new one saved, Render. *)
(* A template whose root is not a mapping is only noticed by Render.       *)
Serve(ua) ==
  LET docs   == [s \in DOMAIN held |-> held[s].doc]
      merged == Build(config.rows, docs, config.own, config.customs, config.cfg)
      per    == PerSource(held)
      loaded == LoadSnapshot(snapshot)
      hours  == AggregateProfileUpdateInterval(held,
                  config.cfg.ints["DEFAULT_PROFILE_UPDATE_INTERVAL_HOURS"])
      header == IF DOMAIN per = {} THEN <<>> ELSE UserinfoHeader(Compose(per, loaded, now))
  IN  /\ stage = "up"
      /\ IF ~RequireUserAgent(config.cfg.agents, ua)
         THEN answer' = [status |-> 403] /\ UNCHANGED <<snapshot, first>>
         ELSE /\ answer' = IF config.template.kind = "mapping"
                           THEN Rendered(merged, header, hours) ELSE [status |-> 500]
              /\ snapshot' = IF DOMAIN per = {} THEN snapshot
                             ELSE NewSnapshot(per, loaded, now)
              /\ first' = IF DOMAIN per = {} \/ first.day = LocalDate(now) THEN first
                          ELSE [day |-> LocalDate(now), perSource |-> per,
                                userinfo |-> header]
      /\ UNCHANGED <<stage, files, config, held, now>>

-----------------------------------------------------------------------------
ResponseNext ==
  \/ \E found \in StartFiles : Start(found)
  \/ \E replies \in ReplyMaps : Refresh(replies)
  \/ \E time \in Nat : Advance(time)
  \/ \E ua \in UserAgents : Serve(ua)

ResponseSpec == ResponseInit /\ [][ResponseNext]_responseVars
=============================================================================
