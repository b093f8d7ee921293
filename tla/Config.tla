------------------------------- MODULE Config -------------------------------
(***************************************************************************)
(* What the process reads at start-up: the environment                     *)
(* (internal/config/server.go), the subscriptions CSV (subscriptions.go),  *)
(* the own-proxies file (own_proxies.go), the custom rules folder          *)
(* (customrules/loader.go) and the template (output/subscription_mode.go). *)
(* Environment values and CSV cells are Blank, Num(n) or Word(s), trimmed  *)
(* and case-folded where the code does that.  A file that cannot be read   *)
(* or parsed has kind "broken".  Any error ends the process.               *)
(***************************************************************************)
EXTENDS Upstream, Lists

CONSTANTS Alphabet    \* contributors' names, in alphabetical order

ASSUME ConfigAssumption == Alphabet \in Seq(STRING) /\ {"Proxies", "auto"} \subseteq Words

Refused == [ok |-> FALSE]
Accepted(v) == [ok |-> TRUE, val |-> v]

RankOf(name) == SelectInSeq(Alphabet, LAMBDA a : a = name)

(* The shapes of the files.  Of the environment's variables some are names *)
(* or lists of prefixes, the others are cells.                             *)
EnvValues(key) ==
  CASE key \in {"PROXIES_GROUP_NAME", "FALLBACK_RULE_TARGET"} ->
         {Blank} \cup [is : {"word"}, s : NameType]
    [] key = "HONKAI_RULE_CLIENT_UA" ->
         {Blank} \cup [is : {"word"}, s : Seq(Seq(STRING))]
    [] key \in {"URL_TEST_URL", "LOAD_BALANCE_URL"} ->
         {Blank} \cup [is : {"word"}, s : STRING]
    [] OTHER -> CellType
TableType == [header : Seq(STRING), records : Seq(Seq(CellType))]
OwnFileType ==
  [kind    : STRING,
   proxies : Seq([name : NameType, type : STRING, server : STRING, port : Int,
                  node : ProxyType]),
   groups  : Seq([name : NameType, type : STRING, members : Seq(NameType),
                  fields : Seq(FieldType)])]
CustomFileType ==
  [file : ToSet(Alphabet), yaml : BOOLEAN, kind : STRING, name : {""} \cup ToSet(Alphabet),
   priority : {Blank} \cup NumberType, rules : Seq(RuleType)]
TemplateType == [kind : STRING, root : Seq([key : STRING, from : STRING])]

WellFormed(f) ==
  /\ \A k \in DOMAIN f.env : f.env[k] \in EnvValues(k)
  /\ f.csv \in TableType /\ f.own \in OwnFileType /\ f.custom \in Seq(CustomFileType)
  /\ f.template \in TemplateType

-----------------------------------------------------------------------------
(* The environment: a function on the variables that are set.              *)

Required == {"SUBSCRIPTIONS_CSV_PATH", "OWN_PROXIES_YAML_PATH", "TOKENS_PATH",
             "SERVED_CONFIG_TEMPLATE_PATH", "CACHE_DIR"}

IntDefaults ==
  [DEFAULT_TTL_SECONDS |-> 3600, DEFAULT_STALE_ON_ERROR_SECONDS |-> 86400,
   DEFAULT_PROFILE_UPDATE_INTERVAL_HOURS |-> 12, BOOTSTRAP_MAX_ATTEMPTS_PER_SOURCE |-> 3,
   BOOTSTRAP_ATTEMPT_DELAY_SECONDS |-> 5, PORT |-> 8080,
   URL_TEST_INTERVAL_SECONDS |-> 10, URL_TEST_TIMEOUT_MS |-> 3000,
   URL_TEST_MAX_FAILED_TIMES |-> 3, LOAD_BALANCE_INTERVAL_SECONDS |-> 300,
   LOAD_BALANCE_TIMEOUT_MS |-> 1500, LOAD_BALANCE_MAX_FAILED_TIMES |-> 3]

(* The variables with a fixed set of values.  A Boolean is written as the  *)
(* value strconv.ParseBool reads, whatever its spelling; the time zones    *)
(* stand for the names time.LoadLocation knows.                            *)
Vocabulary ==
  [LOG_LEVEL             |-> {"debug", "info", "warn", "warning", "error"},
   URL_TEST_LAZY         |-> {"true", "false"},
   LOAD_BALANCE_LAZY     |-> {"true", "false"},
   LOAD_BALANCE_STRATEGY |-> {"round-robin", "consistent-hashing", "sticky-sessions"},
   DAILY_BUDGET_TIMEZONE |-> {"America/Toronto", "UTC"}]

Getenv(env, key) == IF key \in DOMAIN env THEN env[key] ELSE Blank

PositiveOrBlank(raw) == raw = Blank \/ (IsInt(raw) /\ raw.n >= 1)

ValidEnv(env) ==
  /\ \A k \in Required : Getenv(env, k) # Blank
  /\ \A k \in DOMAIN IntDefaults : PositiveOrBlank(Getenv(env, k))
  /\ \A k \in DOMAIN Vocabulary :
       LET v == Getenv(env, k)
       IN  v = Blank \/ (v.is = "word" /\ v.s \in Vocabulary[k])

(* A comma-separated list of prefixes, each a sequence of characters.      *)
AllowedUserAgentPrefixes(raw) ==
  IF raw = Blank THEN <<>> ELSE Filter(raw.s, LAMBDA p : p # <<>>)

Load(env) ==
  LET IntOf(k)     == LET v == Getenv(env, k)
                      IN  IF v = Blank THEN IntDefaults[k] ELSE v.n
      Text(k, def) == LET v == Getenv(env, k) IN IF v = Blank THEN def ELSE v.s
  IN  IF ~ValidEnv(env) THEN Refused ELSE Accepted(
        [ints         |-> [k \in DOMAIN IntDefaults |-> IntOf(k)],
         proxiesGroup |-> Text("PROXIES_GROUP_NAME", <<"Proxies">>),
         fallback     |-> Text("FALLBACK_RULE_TARGET", <<"auto">>),
         urlTest      |->
           [url      |-> Text("URL_TEST_URL", "generate_204"),
            interval |-> IntOf("URL_TEST_INTERVAL_SECONDS"),
            timeout  |-> IntOf("URL_TEST_TIMEOUT_MS"),
            maxFailedTimes |-> IntOf("URL_TEST_MAX_FAILED_TIMES"),
            lazy     |-> Text("URL_TEST_LAZY", "true")],
         loadBalance  |->
           [url      |-> Text("LOAD_BALANCE_URL", "generate_204"),
            interval |-> IntOf("LOAD_BALANCE_INTERVAL_SECONDS"),
            timeout  |-> IntOf("LOAD_BALANCE_TIMEOUT_MS"),
            maxFailedTimes |-> IntOf("LOAD_BALANCE_MAX_FAILED_TIMES"),
            lazy     |-> Text("LOAD_BALANCE_LAZY", "true"),
            strategy |-> Text("LOAD_BALANCE_STRATEGY", "round-robin")],
         timezone     |-> Text("DAILY_BUDGET_TIMEZONE", "America/Toronto"),
         agents       |-> AllowedUserAgentPrefixes(Getenv(env, "HONKAI_RULE_CLIENT_UA"))])

(* With no prefix configured every client passes.                          *)
RequireUserAgent(prefixes, ua) ==
  prefixes = <<>> \/ (ua # <<>> /\ \E i \in DOMAIN prefixes : IsPrefix(prefixes[i], ua))

-----------------------------------------------------------------------------
(* The subscriptions CSV: a header and records, both sequences of cells.   *)

RequiredCols == {"name", "link", "priority", "enable"}
OptionalCols == {"refresh", "stale_on_error_seconds"}

ValidHeader(header) ==
  RequiredCols \subseteq ToSet(header) /\ ToSet(header) \subseteq RequiredCols \cup OptionalCols

(* A record by column; the last column of a name counts, and a record may  *)
(* be shorter than the header.                                             *)
Cells(header, rec) ==
  [c \in RequiredCols \cup OptionalCols |->
     LET at == SelectLastInSeq(header, LAMBDA h : h = c)
     IN  IF at = 0 \/ at > Len(rec) THEN Blank ELSE rec[at]]

\* ^[a-z]+$, for the words in use.
NameFormatOk(raw) == raw.is = "word" /\ raw.s \in ToSet(Alphabet)

ValidRow(c) ==
  /\ c["link"] = Word("http")
  /\ IsInt(c["priority"])
  /\ c["enable"] \in {Word("Enable"), Word("Disable")}
  /\ c["refresh"] = Blank \/ IsInt(c["refresh"])
  /\ PositiveOrBlank(c["stale_on_error_seconds"])

ParseRow(c) ==
  LET IntOrZero(raw) == IF raw = Blank THEN 0 ELSE raw.n
  IN  [name     |-> c["name"].s,
       rank     |-> RankOf(c["name"].s),
       priority |-> c["priority"].n,
       enable   |-> c["enable"] = Word("Enable"),
       refresh  |-> IntOrZero(c["refresh"]),
       staleOnError |-> IntOrZero(c["stale_on_error_seconds"])]

Distinct(names) == \A i, j \in DOMAIN names : names[i] = names[j] => i = j

\* Mutant of ParseSubscriptions: a second row of a name is not noticed.
ParseSubscriptionsRepeating(csv) ==
  LET cells == [i \in DOMAIN csv.records |-> Cells(csv.header, csv.records[i])]
      kept  == Filter(cells, LAMBDA c : NameFormatOk(c["name"]))
  IN  IF /\ ValidHeader(csv.header)
         /\ \A i \in DOMAIN kept : ValidRow(kept[i])
      THEN Accepted([i \in DOMAIN kept |-> ParseRow(kept[i])]) ELSE Refused

(* A record with a malformed name is skipped before anything else of it is *)
(* looked at; any other fault of the file is an error.                     *)
ParseSubscriptions(csv) ==
  LET cells == [i \in DOMAIN csv.records |-> Cells(csv.header, csv.records[i])]
      kept  == Filter(cells, LAMBDA c : NameFormatOk(c["name"]))
  IN  IF /\ ValidHeader(csv.header)
         /\ \A i \in DOMAIN kept : ValidRow(kept[i])
         /\ Distinct([i \in DOMAIN kept |-> kept[i]["name"]])
      THEN Accepted([i \in DOMAIN kept |-> ParseRow(kept[i])]) ELSE Refused

-----------------------------------------------------------------------------
(* The own-proxies file: the entries of its two sequences, none if a key   *)
(* is absent or the root is not a mapping.                                 *)

ValidOwnProxy(p) == p.name # <<>> /\ p.type # "" /\ p.server # "" /\ p.port \in 1..65535

\* References are only checked for being empty.
ValidOwnGroup(g) ==
  g.name # <<>> /\ g.type # "" /\ \A i \in DOMAIN g.members : g.members[i] # <<>>

LoadOwnProxies(file) ==
  LET proxies == IF file.kind = "mapping" THEN file.proxies ELSE <<>>
      groups  == IF file.kind = "mapping" THEN file.groups ELSE <<>>
  IN  IF /\ file.kind # "broken"
         /\ \A i \in DOMAIN proxies : ValidOwnProxy(proxies[i])
         /\ Distinct([i \in DOMAIN proxies |-> proxies[i].name])
         /\ \A i \in DOMAIN groups : ValidOwnGroup(groups[i])
         /\ Distinct([i \in DOMAIN groups |-> groups[i].name])
      THEN Accepted([proxies |-> [i \in DOMAIN proxies |-> proxies[i].node],
                     groups  |-> [i \in DOMAIN groups |->
                                    [name |-> groups[i].name, members |-> groups[i].members,
                                     fields |-> groups[i].fields]]])
      ELSE Refused

-----------------------------------------------------------------------------
(* The custom rules folder: its entries, in the order of their file names. *)
(* An unusable file is skipped, never an error.                            *)

DefaultPriority == 1000

UsableEntry(entry) ==
  /\ entry.yaml /\ entry.kind # "broken"
  /\ entry.priority = Blank \/ entry.priority.n >= 0

CustomRuleSet(entry) ==
  LET name == IF entry.name = "" THEN entry.file ELSE entry.name
  IN  [name     |-> name,
       rank     |-> RankOf(name),
       priority |-> IF entry.priority = Blank THEN DefaultPriority ELSE entry.priority.n,
       rules    |-> entry.rules]

(* sort.Slice keeps the order of equal elements up to a dozen of them.     *)
LoadCustomRules(folder) ==
  LET usable == Filter(folder, UsableEntry)
      sets   == [i \in DOMAIN usable |-> CustomRuleSet(usable[i])]
      Less(a, b) ==
        a.priority < b.priority \/ (a.priority = b.priority /\ a.rank < b.rank)
  IN  SliceStable(sets, Less)

-----------------------------------------------------------------------------
(* NewSubscriptionMode: the template parses; its root is not looked at.    *)
TemplateParses(template) == template.kind # "broken"

(* run(): the loaders one after the other, the first error is fatal.       *)
Run(files) ==
  LET cfg  == Load(files.env)
      rows == ParseSubscriptions(files.csv)
      own  == LoadOwnProxies(files.own)
  IN  IF cfg.ok /\ rows.ok /\ own.ok /\ TemplateParses(files.template)
      THEN Accepted([cfg |-> cfg.val, rows |-> rows.val, own |-> own.val,
                     customs |-> LoadCustomRules(files.custom),
                     template |-> files.template])
      ELSE Refused
=============================================================================
