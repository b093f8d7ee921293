------------------------- MODULE DocumentProperties -------------------------
(***************************************************************************)
(* What GET / promises about the document in an answer.                    *)
(***************************************************************************)
EXTENDS ResponseProperties

-----------------------------------------------------------------------------
(* What was served *)

Served == answer.status = 200
Targets == NamesOf(answer.proxies) \cup NamesOf(answer.groups) \cup Builtins
Selector == config.cfg.proxiesGroup
Fallback == config.cfg.fallback

\* The client's reading of a rule: the last field that is not an option.
TargetOf(rule) == rule[Max({i \in DOMAIN rule : rule[i] # <<"no-resolve">>})]

(* The client refuses a document with a reference to an undefined name     *)
(* (prune.go).  Every group member, rule target and fetch-through proxy of *)
(* the served document, and every dialer of an own or a fan-out proxy, is  *)
(* a served proxy, a served group or a builtin, whichever groups           *)
(* namespacing, merging and pruning removed; the fallback target is the    *)
(* operator's to define.  The dialer of an upstream proxy is excepted:     *)
(* namespacing changes the proxy's name and leaves its dialer-proxy, which *)
(* then names nothing unless it is a builtin (namespace.go).  The inputs   *)
(* leave out what pruning does not clean up: an empty group named by a     *)
(* provider's proxy or by a rule with the option src, and own groups that  *)
(* name a proxy they do not define.                                        *)
ReferencesResolve ==
  Served =>
    /\ \A i \in DOMAIN answer.groups : ToSet(answer.groups[i].members) \subseteq Targets
    /\ \A i \in DOMAIN answer.rules :
         TargetOf(answer.rules[i].rule) \in Targets \cup {Fallback}
    /\ \A i \in DOMAIN answer.proxies :
         Head(answer.proxies[i].name) \notin DOMAIN held =>
           answer.proxies[i].dialer \in Targets \cup {None}
    /\ \A i \in DOMAIN answer.providers : answer.providers[i].proxy \in Targets \cup {None}

(* The served rule-providers block holds exactly the providers that served *)
(* RULE-SET rules name, each once, and no two of them share a cache file   *)
(* of the client, though the sources chose the same one; the block of the  *)
(* template is replaced iff there are some (ruleset.go, pipeline.go Build, *)
(* subscription_mode.go Render).                                           *)
ProvidersAreThoseUsed ==
  Served =>
    LET served == answer.providers
        rules  == {answer.rules[i].rule : i \in DOMAIN answer.rules}
    IN  /\ KeysOf(served) = {q[2] : q \in {p \in rules : p[1] = <<"RULE-SET">>}}
        /\ \A i, j \in DOMAIN served :
             served[i].key = served[j].key \/ served[i].path = served[j].path => i = j
        /\ served # <<>> <=> [key |-> "rule-providers", from |-> "merge"] \in ToSet(answer.root)

\* The k-th rule of source s is the served rule, its RULE-SET name prefixed.
FromSource(served, s, k) ==
  LET rule == held[s].doc.rules[k]
  IN  /\ \E i \in DOMAIN config.rows :
           config.rows[i].name = s /\ config.rows[i].rank = served.rank
      /\ served.rule[1] = rule[1]
      /\ served.rule[2] = IF IsRuleSet(rule) THEN <<s>> \o rule[2] ELSE rule[2]

\* The k-th rule of source s is a RULE-SET without a provider.
Unbacked(s, k) ==
  /\ IsRuleSet(held[s].doc.rules[k])
  /\ \A p \in ToSet(held[s].doc.providers) : p.mapping => p.key # held[s].doc.rules[k][2]

(* The client takes the first rule that matches.  A contributor with a     *)
(* lower priority number has all its rules before those of a higher one,   *)
(* every source's rules keep their document order, and the server's own    *)
(* MATCH is the last rule and the only one.  Of each source all is served  *)
(* but its last rule and the RULE-SETs it does not back; excepted is a     *)
(* source whose last rule is such a RULE-SET, which loses the rule before  *)
(* it too (rules.go, pipeline.go Build).                                   *)
RulesByPrecedence ==
  Served =>
    LET rules == answer.rules
        n     == Len(rules)
    IN  /\ \A i \in 1..n : rules[i].rule[1] = <<"MATCH">> <=> i = n
        /\ \A i, j \in 1..(n - 1) : i < j => rules[i].priority <= rules[j].priority
        /\ \A s \in DOMAIN held :
             LET last == Len(held[s].doc.rules)
             IN  /\ \A i, j \in 1..(n - 1), k, l \in 1..last :
                      i < j /\ FromSource(rules[i], s, k) /\ FromSource(rules[j], s, l) => k < l
                 /\ \A k \in 1..(last - 1) :
                      ~Unbacked(s, k) /\ ~Unbacked(s, last) =>
                        \E i \in 1..(n - 1) : FromSource(rules[i], s, k)

(* No two served proxies and no proxy and group share a name, though two   *)
(* sources use the same names and every own proxy is copied once for each  *)
(* region and continent group and each load-balance sibling, provided no   *)
(* source lists a name twice (proxies.go, namespace.go, fanout.go).  The   *)
(* comment of MergeProxies and 002 FR-007 have such a source fail loudly;  *)
(* the code renames the second proxy, and a third would collide with it.   *)
NamesAreUnique ==
  Served /\ (\A s \in DOMAIN held :
               LET named == Named(held[s].doc.proxies)
               IN  Cardinality(NamesOf(named)) = Len(named)) =>
    /\ Cardinality(NamesOf(answer.proxies)) = Len(answer.proxies)
    /\ Cardinality(NamesOf(answer.groups)) = Len(answer.groups)
    /\ NamesOf(answer.proxies) \cap NamesOf(answer.groups) = {}

(* Every upstream proxy held that has a name is served (one listed twice   *)
(* under two names), can be picked in the selector, and is in the region   *)
(* group of its country only; a continent group is the union of its        *)
(* regions, and an unmapped country is in none (FR-009a: proxy_groups.go,  *)
(* region.go, region_table.go).                                            *)
EveryProxySelectable ==
  Served =>
    LET upstream == {n \in NamesOf(answer.proxies) : n[1] \in DOMAIN held}
        In(kind, n) == {i \in DOMAIN answer.groups :
                          /\ IsStrictPrefix(<<"", kind>>, answer.groups[i].name)
                          /\ n \in ToSet(answer.groups[i].members)}
        CodesOf(kind, n) == {answer.groups[i].name[3] : i \in In(kind, n)}
    IN  /\ \A s \in DOMAIN held :
             Cardinality({n \in upstream : n[1] = s}) = Len(Named(held[s].doc.proxies))
        /\ \A n \in upstream :
             LET country == CountryOf(Tail(n))
             IN  /\ \A i \in DOMAIN answer.groups :
                      answer.groups[i].name = Selector => n \in ToSet(answer.groups[i].members)
                 /\ CodesOf("region", n) = {country} /\ Cardinality(In("region", n)) = 1
                 /\ CodesOf("continent", n) = {ContinentOf(country)} \ {""}

(* Pruning is a single pass (015 FR-005).  A group without members is      *)
(* served only if it is one of the two protected ones or if all it had     *)
(* were groups the pass removed, never because nobody noticed (prune.go).  *)
EmptyOnlyByCascade ==
  Served =>
    LET given == UNION {{RewriteSource(s, held[s].doc).groups[i] :
                           i \in DOMAIN held[s].doc.groups} : s \in DOMAIN held}
                 \cup ToSet(RewriteOwn(config.own).groups)
    IN  \A i \in DOMAIN answer.groups :
          answer.groups[i].members = <<>> =>
            \/ answer.groups[i].name \in {Selector, Fallback}
            \/ \E k \in given : k.name = answer.groups[i].name /\ k.members # <<>>
                                /\ ToSet(k.members) \cap Targets = {}

-----------------------------------------------------------------------------
(* How it was written *)

(* The pass that moves fields swaps pairs one after the other.  None of a  *)
(* group's fields is lost, doubled or changed, and whatever order upstream *)
(* chose, a group with all the fields of its type has them in the          *)
(* documented order (subscription_mode.go reorderProxyGroupFields).        *)
LayoutIsCanonical ==
  Served =>
    \A i \in DOMAIN answer.groups :
      LET name   == answer.groups[i].name
          fields == answer.groups[i].fields
          given  == IF name[1] \in DOMAIN held
                    THEN Filter(held[name[1]].doc.groups,
                                   LAMBDA q : <<name[1]>> \o q.name = name) ELSE <<>>
      IN  /\ Canonical(fields)
          /\ \A k \in DOMAIN given :
               SamePairs(SetMappingValue(given[k].fields, "proxies", ""),
                         SetMappingValue(fields, "proxies", ""))
          /\ IsStrictPrefix(<<"", "region">>, name) => Leads(fields, URLTestOrder)
          /\ IsStrictPrefix(<<"", "lb">>, name) => Leads(fields, LoadBalanceOrder)

(* An operator reads the rules by their comments: going up from a rule,    *)
(* the first comment gives its priority and its contributors, all of those *)
(* that share the priority, and no priority is announced twice.  Rules of  *)
(* priority 0 have no comment (subscription_mode.go                        *)
(* normalizeRulesPriorityComments).                                        *)
BucketsAnnounced ==
  Served =>
    LET rules == answer.rules
        heads == {i \in DOMAIN rules : rules[i].head # NoComment}
    IN  \A i \in DOMAIN rules : rules[i].priority # 0 =>
          LET above == {k \in heads : k <= i}
          IN  /\ above # {}
              /\ rules[Max(above)].head =
                   [priority |-> rules[i].priority,
                    ranks |-> {rules[k].rank : k \in {j \in DOMAIN rules :
                                                rules[j].priority = rules[i].priority}}]
              /\ \A k \in heads : rules[k].priority = rules[i].priority => k = Max(above)

\* The client's reading of a scalar; "?" if it is not one.
Decode(s) ==
  LET n == Len(s)
      body == SubSeq(s, 2, n - 1)
      Begins(i) == Cardinality({k \in 1..(i - 1) : \A l \in k..(i - 1) : body[l] = "b"}) % 2 = 0
      Char(i) ==
        IF ~Begins(i) \/ (i > 1 /\ \E k \in 2..(1 + HexLen) :
             i > k /\ body[i - k] = "b" /\ Begins(i - k) /\ body[i - k + 1] = "U") THEN <<>>
        ELSE IF body[i] # "b" THEN <<body[i]>>
        ELSE IF body[i + 1] \in {"q", "b"} THEN <<body[i + 1]>>
        ELSE IF body[i + 1] = "U" THEN <<body[i + 2] \o body[i + 3]>> ELSE <<"?">>
  IN  IF s[1] = "q" THEN FlattenSeq([i \in DOMAIN body |-> Char(i)])
      ELSE IF s[1] = "s" THEN body ELSE s

(* The unescaping pass runs over the bytes of the whole document and goes  *)
(* by quotation marks it did not write.  The client still reads every      *)
(* upstream name as it was: a mark in a plain or single-quoted name, an    *)
(* escaped mark or backslash and text that looks like an escape change     *)
(* nothing (subscription_mode.go unescapeSupplementaryPlane).  Left out: a *)
(* name that is not double-quoted and holds the text of an escape.         *)
MeaningIsKept ==
  Served =>
    LET texts == [i \in DOMAIN UpstreamNames(answer.proxies) |->
                    TextOf(UpstreamNames(answer.proxies)[i])]
        ends  == {i \in DOMAIN answer.body : answer.body[i] = "n"}
        begin(e) == Max({0} \cup {k \in ends : k < e}) + 1
        LooksEscaped(t) == ToSet(t) \cap Supplementary = {}
                           /\ \E i \in 1..(Len(t) - 1 - HexLen) :
                                /\ t[i] = "b" /\ t[i + 1] = "U"
                                /\ AllHex(SubSeq(t, i + 2, i + 1 + HexLen))
    IN  (\A i \in DOMAIN texts : ~LooksEscaped(texts[i])) =>
          /\ Cardinality(ends) = Len(texts)
          /\ \A e \in ends :
               Decode(SubSeq(answer.body, begin(e), e - 1))
                 = texts[Cardinality({k \in ends : k <= e})]
=============================================================================
