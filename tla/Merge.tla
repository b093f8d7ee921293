------------------------------- MODULE Merge -------------------------------
(***************************************************************************)
(* The pure core of merge.Pipeline.Build: what the served document         *)
(* contains, given the documents the cache holds and the operator's own    *)
(* proxies, groups and custom rules.                                       *)
(*                                                                         *)
(* A name is the sequence of the parts that "_" joins: source a's proxy hk *)
(* is <<"a", "hk">>, the operator's own proxy x is <<"", "x">>, a region   *)
(* group is <<"", "region", "HK">>.  Source names match [a-z]+, so the     *)
(* first part of an upstream name is exactly its source.  A rule is the    *)
(* sequence of its comma-separated fields, each a name.  Nodes are reduced *)
(* to what is referred to: a proxy to its name and dialer, a group to its  *)
(* name and members, a rule provider to its key, whether its value is a    *)
(* mapping, its cache file [dir, base, ext] and its fetch-through proxy.   *)
(* Proxies and groups keep their fields, as the pairs [key, val] of their  *)
(* mapping (the values of name, proxies and dialer-proxy are left blank).  *)
(***************************************************************************)
EXTENDS Lists, TLC

CONSTANTS Country(_),    \* inferCountry of a display name, "UNKNOWN" if none
          CountryCodes,  \* the country codes, in alphabetical order
          Continent(_),  \* continentOf a country code, "" if unmapped
          Continents     \* the continent codes, in alphabetical order

None == <<>>             \* an absent dialer-proxy or fetch-through proxy
NoPath == [dir |-> "", base |-> <<>>, ext |-> ""]
Builtins == {<<"DIRECT">>, <<"REJECT">>, <<"REJECT-DROP">>, <<"PASS">>}
Modifiers == {<<"no-resolve">>, <<"src">>, <<"dport">>}
RuleOptions == {<<"no-resolve">>}
IsRuleSet(rule) == Len(rule) >= 2 /\ rule[1] = <<"RULE-SET">>

NamesOf(nodes) == {nodes[i].name : i \in DOMAIN nodes}
Named(nodes) == Filter(nodes, LAMBDA n : n.name # <<>>)

(* members, and then each element of more that is not yet there.           *)
Union(members, more) ==
  members \o KeepAt(more, {i \in DOMAIN more :
                             /\ more[i] \notin ToSet(members)
                             /\ \A j \in 1..(i - 1) : more[j] # more[i]})

(* The value of key, where it stands or in a new pair at the end.          *)
SetMappingValue(fields, key, val) ==
  LET at == SelectInSeq(fields, LAMBDA f : f.key = key)
  IN  IF at = 0 THEN Append(fields, [key |-> key, val |-> val])
      ELSE [fields EXCEPT ![at].val = val]

SetMappingMembers(group, members) ==
  [group EXCEPT !.members = members, !.fields = SetMappingValue(@, "proxies", "")]

(* The members of the first group called name, extended by more.           *)
Augment(groups, name, more) ==
  LET at == SelectInSeq(groups, LAMBDA g : g.name = name)
  IN  IF at = 0 THEN groups
      ELSE [groups EXCEPT ![at] = SetMappingMembers(@, Union(@.members, more))]

-----------------------------------------------------------------------------
(* Namespacing: everything source contributes is prefixed by its name; a   *)
(* node without a name stays without, and the unions leave it out.         *)

Prefixed(prefix, name) == IF name = <<>> THEN name ELSE <<prefix>> \o name

Qualify(source, name) == IF name \in Builtins THEN name ELSE <<source>> \o name

RewriteGroupMembers(group, source) ==
  [group EXCEPT !.name    = Prefixed(source, @),
                !.members = Map(LAMBDA m : Qualify(source, m), @)]

RewriteRuleTarget(rule, source) ==
  LET parts  == IF IsRuleSet(rule) THEN [rule EXCEPT ![2] = <<source>> \o @]
                ELSE rule
      target == Max({1} \cup {i \in 2..Len(parts) : parts[i] \notin Modifiers})
  IN  IF Len(rule) < 2 \/ (IsRuleSet(rule) /\ target <= 2) THEN parts
      ELSE [parts EXCEPT ![target] = Qualify(source, @)]

\* Mutant of SourceDistinctPath: the file keeps its name.
PathAsIs(path, key) == path

SourceDistinctPath(path, key) ==
  IF path = NoPath THEN NoPath ELSE [path EXCEPT !.base = key]

RewriteProvider(provider, source) ==
  [provider EXCEPT
     !.key   = <<source>> \o @,
     !.path  = SourceDistinctPath(@, <<source>> \o provider.key),
     !.proxy = IF @ = None THEN None ELSE Qualify(source, @)]

RewriteSource(source, doc) ==
  [proxies   |-> Map(LAMBDA p : [p EXCEPT !.name = Prefixed(source, @)], doc.proxies),
   groups    |-> Map(LAMBDA g : RewriteGroupMembers(g, source), doc.groups),
   rules     |-> Map(LAMBDA r : RewriteRuleTarget(r, source), doc.rules),
   providers |-> Map(LAMBDA p : RewriteProvider(p, source),
                     Filter(doc.providers, LAMBDA p : p.mapping))]

RewriteOwn(own) ==
  LET mine == NamesOf(Named(own.proxies)) \cup NamesOf(Named(own.groups))
      Member(m) == IF m \in mine \ Builtins THEN <<"">> \o m ELSE m
  IN  [proxies |-> Map(LAMBDA p : [p EXCEPT !.name = Prefixed("", @)], own.proxies),
       groups  |-> Map(LAMBDA g : [g EXCEPT !.name    = Prefixed("", @),
                                            !.members = Map(Member, @)],
                       own.groups)]

(* A rule of type RULE-SET whose provider its source does not define goes. *)
DropUnbackedRuleSetRules(rules, keys) ==
  Filter(rules, LAMBDA r : IsRuleSet(r) => r[2] \in keys)

-----------------------------------------------------------------------------
(* The unions.  order is the sources that hold a document, by priority     *)
(* descending; per[s] is the rewritten document of source s.               *)

AddProxy(merged, p, source) ==
  Append(merged, IF p.name \in NamesOf(merged)
                 THEN [p EXCEPT !.name = @ \o <<"@", source>>] ELSE p)

MergeProxies(per, order, own) ==
  FoldLeft(LAMBDA merged, s :
             FoldLeft(LAMBDA m, p : AddProxy(m, p, s), merged, Named(per[s].proxies)),
           Named(own), order)

(* A group stays where its name first occurs, and gets the members of the  *)
(* later ones of that name.                                                *)
MergeProxyGroups(per, order, own) ==
  LET all == Named(own \o FlattenSeq(Map(LAMBDA s : per[s].groups, order)))
      Called(name) == {i \in DOMAIN all : all[i].name = name}
      Merged(g) == LET rest == Tail(KeepAt(all, Called(g.name)))
                   IN  IF rest = <<>> THEN g
                       ELSE SetMappingMembers(g, Union(g.members,
                              FlattenSeq(Map(LAMBDA q : q.members, rest))))
      firsts == {i \in DOMAIN all : \A j \in 1..(i - 1) : all[j].name # all[i].name}
  IN  Map(Merged, KeepAt(all, firsts))

(* rows carry the alphabetical rank of the contributor's name.             *)
Precedes(c, d) ==
  c.priority < d.priority \/ (c.priority = d.priority /\ c.rank < d.rank)

\* Mutant of Tagged: each rule is put before the earlier ones.
TaggedPrepending(c) ==
  Reverse(Map(LAMBDA r : [rule |-> r, priority |-> c.priority, rank |-> c.rank], c.rules))

(* A contributor's rules, each with its priority and contributor.          *)
Tagged(c) == Map(LAMBDA r : [rule |-> r, priority |-> c.priority, rank |-> c.rank], c.rules)

MergeUnifiedRules(per, rows, customs, fallback) ==
  LET Upstream(row) ==
        [priority |-> row.priority, rank |-> row.rank,
         rules |-> IF row.name \in DOMAIN per THEN Front(per[row.name].rules)
                   ELSE <<>>]
      contributors == Filter(Map(Upstream, rows) \o customs,
                                LAMBDA c : c.rules # <<>>)
  IN  FlattenSeq(Map(Tagged, SliceStable(contributors, Precedes)))
        \o << [rule |-> <<<<"MATCH">>, fallback>>, priority |-> 0, rank |-> 0] >>

-----------------------------------------------------------------------------
(* The groups and proxies the server adds.                                 *)

Typed(type) == << [key |-> "name", val |-> ""], [key |-> "type", val |-> type],
                  [key |-> "proxies", val |-> ""] >>

NewSelectGroup(name, members) ==
  [name |-> name, members |-> members, fields |-> Typed("select")]

NewURLTestGroup(name, members, params) ==
  [name |-> name, members |-> members,
   fields |-> Typed("url-test") \o
     << [key |-> "url", val |-> params.url],
        [key |-> "interval", val |-> ToString(params.interval)],
        [key |-> "timeout", val |-> ToString(params.timeout)],
        [key |-> "max-failed-times", val |-> ToString(params.maxFailedTimes)],
        [key |-> "lazy", val |-> params.lazy] >>]

NewLoadBalanceGroup(name, members, params) ==
  [name |-> name, members |-> members,
   fields |-> Typed("load-balance") \o
     << [key |-> "url", val |-> params.url],
        [key |-> "interval", val |-> ToString(params.interval)],
        [key |-> "lazy", val |-> params.lazy],
        [key |-> "strategy", val |-> params.strategy],
        [key |-> "timeout", val |-> ToString(params.timeout)],
        [key |-> "max-failed-times", val |-> ToString(params.maxFailedTimes)] >>]

\* Mutant of AppendProxiesGroup: a group of that name is left as it is.
AppendProxiesGroupIfAbsent(groups, names, proxiesGroup) ==
  IF proxiesGroup \in NamesOf(groups) THEN groups
  ELSE Append(groups, NewSelectGroup(proxiesGroup, names))

AppendProxiesGroup(groups, names, proxiesGroup) ==
  IF proxiesGroup \in NamesOf(groups) THEN Augment(groups, proxiesGroup, names)
  ELSE Append(groups, NewSelectGroup(proxiesGroup, names))

(* A url-test group per code, each followed by its load-balance sibling,   *)
(* and all of them in the selector.                                        *)
AppendPairs(groups, kind, codes, Members(_), cfg) ==
  LET Pair(c) == LET members == Members(c)
                 IN  << NewURLTestGroup(<<"", kind, c>>, members, cfg.urlTest),
                        NewLoadBalanceGroup(<<"", "lb", kind, c>>, members,
                                            cfg.loadBalance) >>
      pairs == FlattenSeq(Map(Pair, codes))
  IN  Augment(groups \o pairs, cfg.proxiesGroup, Map(LAMBDA g : g.name, pairs))

AppendRegionGroups(groups, names, cfg) ==
  LET found  == {Country(Tail(n)) : n \in ToSet(names)}
      codes  == Filter(Append(CountryCodes, "UNKNOWN"), LAMBDA cc : cc \in found)
      In(cc) == Filter(names, LAMBDA n : Country(Tail(n)) = cc)
  IN  AppendPairs(groups, "region", codes, In, cfg)

(* Only the last group of a name is remembered, own groups included.       *)
RegionMembers(groups, cc) ==
  LET at == SelectLastInSeq(groups, LAMBDA g : g.name = <<"", "region", cc>>)
  IN  IF at = 0 THEN <<>> ELSE groups[at].members

AppendContinentGroups(groups, cfg) ==
  LET names      == NamesOf(groups)
      regions    == Filter(CountryCodes, LAMBDA cc : <<"", "region", cc>> \in names)
      Within(c)  == Filter(regions, LAMBDA cc : Continent(cc) = c)
      Members(c) == FlattenSeq(Map(LAMBDA cc : RegionMembers(groups, cc), Within(c)))
      codes      == Filter(Continents, LAMBDA c : Within(c) # <<>>)
  IN  AppendPairs(groups, "continent", codes, Members, cfg)

(* A copy of each own proxy without a dialer, through each target group.   *)
IsFanoutTarget(name) ==
  \E prefix \in {<<"", "region">>, <<"", "continent">>,
                 <<"", "lb", "region">>, <<"", "lb", "continent">>} :
    IsStrictPrefix(prefix, name)

\* Mutant of AppendFanoutProxies: copies are named after the group's code only.
AppendFanoutByCode(own, groups, proxiesGroup) ==
  LET targets == Filter(Map(LAMBDA g : g.name, groups), IsFanoutTarget)
      Via(p, via, dialer) ==
        [name |-> <<"via">> \o via \o <<"">> \o Tail(p.name), dialer |-> dialer,
         fields |-> SetMappingValue(p.fields, "dialer-proxy", "")]
      Copies(p) == <<Via(p, <<"AUTO">>, proxiesGroup)>>
                     \o Map(LAMBDA t : Via(p, <<Last(t)>>, t), targets)
  IN  FlattenSeq(Map(Copies, Filter(own, LAMBDA p : p.dialer = None)))

AppendFanoutProxies(own, groups, proxiesGroup) ==
  LET targets == Filter(Map(LAMBDA g : g.name, groups), IsFanoutTarget)
      Via(p, via, dialer) ==
        [name |-> <<"via">> \o via \o <<"">> \o Tail(p.name), dialer |-> dialer,
         fields |-> SetMappingValue(p.fields, "dialer-proxy", "")]
      Copies(p) == <<Via(p, <<"AUTO">>, proxiesGroup)>>
                     \o Map(LAMBDA t : Via(p, Tail(t), t), targets)
  IN  FlattenSeq(Map(Copies, Filter(own, LAMBDA p : p.dialer = None)))

-----------------------------------------------------------------------------
(* Empty groups and unreferenced providers go.                             *)

RuleTargetAt(rule) ==
  CASE Len(rule) < 2 -> 0
    [] Len(rule) >= 2 /\ rule[1] = <<"MATCH">> -> 2
    [] OTHER -> IF rule[Len(rule)] \in RuleOptions /\ Len(rule) >= 3
                THEN Len(rule) - 1 ELSE Len(rule)

\* Mutant of PruneEmptyProxyGroups: the references stay.
PruneKeepingMembers(groups, rules, proxiesGroup, fallback) ==
  LET Empty(g) == g.members = <<>> /\ g.name \notin {proxiesGroup, fallback}
  IN  [groups |-> Filter(groups, LAMBDA g : ~Empty(g)), rules |-> rules]

\* Mutant of PruneEmptyProxyGroups: a group that a rule targets stays.
PruneUnlessTargeted(groups, rules, proxiesGroup, fallback) ==
  LET targeted == {r.rule[RuleTargetAt(r.rule)] : r \in ToSet(rules)}
      Empty(g) == g.members = <<>> /\ g.name \notin {proxiesGroup, fallback} \cup targeted
      removed  == NamesOf(Filter(groups, Empty))
      Clean(g) == [g EXCEPT !.members = Filter(@, LAMBDA m : m \notin removed)]
  IN  [groups |-> Map(Clean, Filter(groups, LAMBDA g : ~Empty(g))), rules |-> rules]

PruneEmptyProxyGroups(groups, rules, proxiesGroup, fallback) ==
  LET Empty(g) == g.members = <<>> /\ g.name \notin {proxiesGroup, fallback}
      removed  == NamesOf(Filter(groups, Empty))
      Clean(g) == [g EXCEPT !.members =
                     Filter(@, LAMBDA m : m \notin removed)]
      Retarget(r) ==
        LET at == RuleTargetAt(r.rule)
        IN  IF at = 0 \/ r.rule[at] \notin removed THEN r
            ELSE [r EXCEPT !.rule[at] = fallback]
  IN  [groups |-> Map(Clean, Filter(groups, LAMBDA g : ~Empty(g))),
       rules  |-> Map(Retarget, rules)]

ReferencedRuleProviders(rules) ==
  {r[2] : r \in {q \in ToSet(rules) : IsRuleSet(q)}}

MergeRuleProviders(per, order, referenced) ==
  Filter(FlattenSeq(Map(LAMBDA s : per[s].providers, order)),
            LAMBDA p : p.key \in referenced)

-----------------------------------------------------------------------------
(* Build, from the documents held (a function on the sources in memory),   *)
(* for the configured names and group parameters.                          *)

SortSourcesByPriority(rows) ==
  SliceStable(Filter(rows, LAMBDA r : r.enable),
              LAMBDA r, q : r.priority > q.priority)

KeysOf(providers) == {providers[i].key : i \in DOMAIN providers}

Build(rows, docs, own, customs, cfg) ==
  LET sorted  == SortSourcesByPriority(rows)
      order   == Filter(Map(LAMBDA r : r.name, sorted),
                           LAMBDA s : s \in DOMAIN docs)
      per     == [s \in DOMAIN docs |->
                    LET doc == RewriteSource(s, docs[s])
                    IN  [doc EXCEPT !.rules =
                           DropUnbackedRuleSetRules(@, KeysOf(doc.providers))]]
      mine    == RewriteOwn(own)
      proxies == MergeProxies(per, order, mine.proxies)
      names   == Filter(Map(LAMBDA p : p.name, proxies),
                           LAMBDA n : Head(n) # "")
      merged  == MergeProxyGroups(per, order, mine.groups)
      select  == AppendProxiesGroup(merged, names, cfg.proxiesGroup)
      regions == AppendRegionGroups(select, names, cfg)
      groups  == AppendContinentGroups(regions, cfg)
      rules   == MergeUnifiedRules(per, sorted, customs, cfg.fallback)
      pruned  == PruneEmptyProxyGroups(groups, rules, cfg.proxiesGroup, cfg.fallback)
  IN  [proxies   |-> proxies
                   \o AppendFanoutProxies(mine.proxies, groups, cfg.proxiesGroup),
       groups    |-> pruned.groups,
       rules     |-> pruned.rules,
       providers |-> MergeRuleProviders(per, order,
                       ReferencedRuleProviders(Map(LAMBDA r : r.rule, pruned.rules)))]
=============================================================================
