----------------------------- MODULE MCResponse -----------------------------
(***************************************************************************)
(* Response on small inputs: start-up, a refresh, a request, and again a   *)
(* refresh and a request, the same day or the next.  Each family of inputs *)
(* is rich in one respect and plain in the others.                         *)
(***************************************************************************)
EXTENDS DocumentProperties

VARIABLES family, step
vars == <<responseVars, family, step>>

AllWords == STRING
Contributors == <<"a", "b", "c">>
Codes == <<"DE", "HK", "ID", "IN", "ZZ">>
AllContinents == <<"AF", "AS", "EU", "NA", "OC", "SA">>
LowerCase(word) == IF word = "Germany" THEN "germany" ELSE word

-----------------------------------------------------------------------------
(* Names and nodes *)

Field(key, val) == [key |-> key, val |-> val]
Node(name) == [name |-> name, dialer |-> None,
               fields |-> <<Field("type", "ss"), Field("name", "")>>]
Chained(name, dialer) ==
  [Node(name) EXCEPT !.dialer = dialer, !.fields = Append(@, Field("dialer-proxy", ""))]
Group(name, members) ==
  [name |-> name, members |-> members,
   fields |-> <<Field("type", "select"), Field("name", ""), Field("proxies", "")>>]

hk == <<"hk">>
xx == <<"xx">>
g == <<"g">>
h == <<"h">>
r == <<"r">>
DIRECT == <<"DIRECT">>

(* Texts over the bytes the unescaping tells apart and the character 7f,   *)
(* as parts of names; t_ijk is Symbols[i], Symbols[j], Symbols[k].         *)
Symbols == <<"q", "b", "U", "7", "o", "7f">>
Texts == UNION {[1..n -> DOMAIN Symbols] : n \in 1..3}
         \cup {<<2, 3, 4, 4, 6>>, <<6, 2, 3, 4, 4>>, <<2, 2, 3, 4, 4>>}
Digit(text, i) == IF i \in DOMAIN text THEN ToString(text[i]) ELSE ""
PartOf(t) == "t" \o Digit(t, 1) \o Digit(t, 2) \o Digit(t, 3) \o Digit(t, 4) \o Digit(t, 5)
Parts == [t \in Texts |-> PartOf(t)]
TextSpelling == [part \in Range(Parts) |->
                   LET t == CHOOSE u \in Texts : Parts[u] = part
                   IN  [i \in DOMAIN t |-> <<"ch", Symbols[t[i]]>>]]

Spellings ==
  [hk |-> <<<<"ri", "H">>, <<"ri", "K">>>>, de |-> <<<<"en", "Germany">>>>,
   id |-> [i \in 1..5 |-> <<"zh", <<"yin", "du", "ni", "xi", "ya">>[i]>>],
   zz |-> <<<<"ri", "Z">>, <<"ri", "Z">>>>, colon |-> <<<<"ch", "i">>, <<"ch", "q">>>>]
  @@ TextSpelling

-----------------------------------------------------------------------------
(* Plain inputs.  The alphabetical, priority and file orders of the two    *)
(* sources all differ.                                                     *)

PlainEnv == [k \in Required |-> Word("set")]
Columns == <<"name", "link", "priority", "enable", "stale_on_error_seconds">>
Record(name, priority) ==
  <<Word(name), Word("http"), Num(priority), Word("Enable"), Blank>>
PlainCSV == [header |-> Columns, records |-> <<Record("b", 1), Record("a", 3)>>]
OwnProxy(node) == [name |-> node.name, type |-> "ss", server |-> "s", port |-> 1, node |-> node]
OwnGroup(name, members) == [type |-> "select"] @@ Group(name, members)
x == <<"x">>
OwnProxies == <<OwnProxy(Node(x)), OwnProxy([Node(<<"y">>) EXCEPT !.dialer = <<"", "x">>])>>
PlainOwn == [kind |-> "mapping", proxies |-> OwnProxies, groups |-> <<>>]
Block(key) == [key |-> key, from |-> "template"]
PlainFiles == [env |-> PlainEnv, csv |-> PlainCSV, own |-> PlainOwn, custom |-> <<>>,
               template |-> [kind |-> "mapping", root |-> <<Block("port"), Block("rules")>>]]

Doc(proxies, groups, rules, providers) ==
  [proxies |-> proxies, groups |-> groups, rules |-> rules, providers |-> providers]
Provider(key, proxy) ==
  [key |-> key, mapping |-> TRUE, proxy |-> proxy,
   path |-> [dir |-> "sets", base |-> <<"list">>, ext |-> "yaml"]]
Reply(doc) == [network |-> "ok", status |-> 200, userinfo |-> <<>>, interval |-> Blank,
               body |-> [kind |-> "mapping", keys |-> {"proxies"}, doc |-> doc]]
PlainReply == Reply(Doc(<<Node(hk)>>, <<>>, <<>>, <<>>))
Failed == [PlainReply EXCEPT !.network = "refused"]
Replies(a, b) == [s \in {"a", "b"} |-> IF s = "a" THEN a ELSE b]

-----------------------------------------------------------------------------
(* Family "config": one of the files varies. *)

Environments ==
  {(k :> v) @@ PlainEnv : k \in DOMAIN IntDefaults, v \in {Num(-1), Num(0), Num(1), Word("ten")}}
  \cup {(k :> Word(w)) @@ PlainEnv : k \in DOMAIN Vocabulary, w \in {"UTC", "true", "info", "?"}}
  \cup {(k :> Blank) @@ PlainEnv : k \in Required}
  \cup {("HONKAI_RULE_CLIENT_UA" :> Word(p)) @@ PlainEnv :
          p \in {<< <<>> >>, << <<"c", "l">>, <<>> >>, << <<"c">>, <<"m">> >>}}

Records ==
  {Record("a", 3), Record("a", 0), Record("b", 3), Record("b", -1), Record("A", 3),
   <<Word("A"), Word("ftp")>>, <<Word("b"), Word("ftp"), Num(1), Word("Enable"), Blank>>,
   <<Word("b"), Word("http"), Word("high"), Word("Enable"), Blank>>,
   <<Word("b"), Word("http"), Num(1), Word("Disable")>>,
   <<Word("b"), Word("http"), Num(1), Word("Enable"), Num(0)>>}
Tables == {[header |-> Columns, records |-> recs] : recs \in SeqOf(Records, 2)}
  \cup {[PlainCSV EXCEPT !.header = head] :
          head \in {Tail(Columns), Append(Columns, "note"), Append(Columns, "name"),
                    Append(Columns, "refresh"), Reverse(Columns)}}

OwnFiles ==
  {[PlainOwn EXCEPT !.kind = kind] : kind \in {"broken", "other"}}
  \cup {[PlainOwn EXCEPT !.proxies[2] = p] :
          p \in {[OwnProxy(Node(<<"z">>)) EXCEPT !.port = n] : n \in {0, 65535, 65536}}
                \cup {OwnProxy(Node(x)), OwnProxy(Node(<<>>))}}
  \cup {[PlainOwn EXCEPT !.groups = <<OwnGroup(g, <<m>>), OwnGroup(n, <<x>>)>>] :
          m \in {x, <<>>}, n \in {g, h, <<>>}}

CustomEntry(file, name, priority, kind) ==
  [file |-> file, yaml |-> kind # "text", kind |-> kind, name |-> name, priority |-> priority,
   rules |-> << <<<<"DOMAIN">>, <<file>>, <<"Proxies">>>> >>]
Entries(file) ==
  {CustomEntry(file, name, p, "mapping") :
     name \in {"", "b"}, p \in {Blank, Num(-1), Num(0), Num(1), Num(3)}}
  \cup {CustomEntry(file, "", Num(1), kind) : kind \in {"text", "broken"}}
Folders == {<<e>> : e \in Entries("c")} \cup (Entries("a") \X Entries("c"))

Templates ==
  {[kind |-> kind, root |-> <<>>] : kind \in {"mapping", "other", "broken"}}
  \cup {[kind |-> "mapping", root |-> <<Block("rule-providers"), Block("proxies")>>]}

ConfigFiles ==
  {[PlainFiles EXCEPT !.env = e] : e \in Environments}
  \cup {[PlainFiles EXCEPT !.csv = t] : t \in Tables}
  \cup {[PlainFiles EXCEPT !.own = o] : o \in OwnFiles}
  \cup {[PlainFiles EXCEPT !.custom = c] : c \in Folders}
  \cup {[PlainFiles EXCEPT !.template = t] : t \in Templates}

-----------------------------------------------------------------------------
(* Family "merge": documents of two sources, own groups, custom rules and  *)
(* the two configured names.                                               *)

MergeFiles ==
  {[PlainFiles EXCEPT
      !.own.groups = own,
      !.custom = [i \in DOMAIN custom |-> [custom[i] EXCEPT !.rules[1][3] = names[1]]],
      !.env = ("PROXIES_GROUP_NAME" :> Word(names[1])
                 @@ "FALLBACK_RULE_TARGET" :> Word(names[2])) @@ @] :
     <<own, custom>> \in
       {<< <<>>, <<>> >>,
        << <<OwnGroup(<<"mine">>, <<>>), OwnGroup(<<"ours">>, <<<<"mine">>, x>>)>>,
           <<CustomEntry("c", "", Num(3), "mapping")>> >>},
     names \in {<<<<"Proxies">>, <<"Proxies">>>>, <<<<"Proxies">>, <<"a", "g">>>>,
                <<<<"a", "g">>, <<"a", "g">>>>}}

ProxyLists == {<<>>, <<Node(hk)>>, <<Node(hk), Node(<<>>), Chained(xx, g)>>,
               <<Node(hk), Node(hk)>>, <<Node(<<"id">>), Chained(<<"zz">>, DIRECT)>>}
GroupLists ==
  {<<Group(g, <<>>)>>, <<Group(g, <<hk>>)>>, <<Group(<<>>, <<DIRECT>>), Group(g, <<DIRECT>>)>>}
  \cup {<<Group(g, m), Group(h, n)>> : m \in {<<h>>, <<h, hk>>}, n \in {<<>>, <<hk>>}}
domain == <<<<"DOMAIN">>, <<"1">>, g>>
address == <<<<"IP-CIDR">>, <<"2">>, g, <<"no-resolve">>>>
direct == <<<<"DOMAIN">>, <<"3">>, DIRECT>>
ruleset == <<<<"RULE-SET">>, r, g>>
RuleShapes == {domain, address, direct, ruleset}
RulePairs == {<<domain, address>>, <<address, domain>>, <<domain, ruleset>>,
              <<ruleset, domain>>, <<address, ruleset>>, <<ruleset, direct>>}
RuleLists == {Append(s, <<<<"MATCH">>, g>>) :
                s \in {<<>>} \cup {<<shape>> : shape \in RuleShapes} \cup RulePairs}
             \cup {<<>>, <<domain, ruleset>>, <<direct, domain>>}
ProviderLists == {<<>>, <<Provider(r, None)>>,
                  <<[Provider(r, None) EXCEPT !.mapping = FALSE]>>}

\* An upstream document in which every group member is defined.
Closed(doc) ==
  \A i \in DOMAIN doc.groups : \A m \in ToSet(doc.groups[i].members) :
    m \in NamesOf(doc.proxies) \cup NamesOf(doc.groups) \cup Builtins
MergeDocs == {doc \in [proxies : ProxyLists, groups : GroupLists, rules : RuleLists,
                       providers : ProviderLists] : Closed(doc)}
OtherDoc ==
  Doc(<<Node(<<"de">>), Node(hk)>>, <<Group(g, <<hk>>)>>,
      << <<<<"RULE-SET">>, r, <<"REJECT">>>>, <<<<"DOMAIN">>, <<"4">>, g>>, <<<<"MATCH">>, g>> >>,
      <<Provider(r, g), Provider(<<"q">>, None)>>)
MergeReplies == {Replies(Reply(doc), b) : doc \in MergeDocs, b \in {Failed, Reply(OtherDoc)}}

-----------------------------------------------------------------------------
(* Family "layout": a group with its fields in many orders. *)

AllKeys == LoadBalanceOrder
Rotations(s) == {SubSeq(s, i + 1, Len(s)) \o SubSeq(s, 1, i) : i \in 0..(Len(s) - 1)}
Orders == Rotations(AllKeys) \cup Rotations(Reverse(AllKeys)) \cup Rotations(URLTestOrder)
          \cup {SelectSeq(s, LAMBDA k : k # out) :
                  s \in Rotations(Reverse(AllKeys)), out \in ToSet(AllKeys) \ {"name"}}
FieldsIn(order, type) ==
  [i \in DOMAIN order |-> Field(order[i], IF order[i] = "type" THEN type ELSE order[i])]
LayoutReplies ==
  {Replies(Reply(Doc(<<Node(hk)>>,
                     <<[name |-> g, members |-> <<hk>>, fields |-> FieldsIn(order, type)]>>,
                     <<>>, <<>>)), Failed) :
     order \in Orders, type \in {"load-balance", "url-test"}}

-----------------------------------------------------------------------------
(* Family "texts": names with quotation marks, backslashes and escapes. *)

Bearing(parts) == Doc([i \in DOMAIN parts |-> Node(<<parts[i]>>)], <<>>, <<>>, <<>>)
Short == {PartOf(t) : t \in {u \in Texts : Len(u) # 3}}
TextReplies ==
  {Replies(Reply(Bearing(<<part>>)), Failed) : part \in DOMAIN TextSpelling}
  \cup {Replies(Reply(Bearing(<<p, q>>)), Failed) :
          p \in Short \cup {"colon"}, q \in {"t1", "t6", "t26", "t62344"}}

-----------------------------------------------------------------------------
(* Family "fetch": replies that fail or carry odd headers. *)

Pair(key, val) == [key |-> key, val |-> val]
Figures(u, d, t, e) == <<Pair("upload", Num(u)), Pair("download", Num(d)),
                         Pair("total", Num(t)), Pair("expire", Num(e))>>
OddReplies ==
  {[PlainReply EXCEPT !.network = n] : n \in {"ok", "deadline", "refused", "cut"}}
  \cup {[PlainReply EXCEPT !.status = n] : n \in {199, 204, 299, 300, 503}}
  \cup {[PlainReply EXCEPT !.body.kind = k] : k \in {"broken", "other"}}
  \cup {[PlainReply EXCEPT !.body.keys = k] : k \in {{}, {"port"}, {"rules", "port"}}}
  \cup {[PlainReply EXCEPT !.interval = i] :
          i \in {Num(-1), Num(0), Num(6), Num(24), Word("daily")}}
  \cup {[PlainReply EXCEPT !.userinfo = u] :
          u \in {Figures(1, 1, 5, 9), Figures(-1, 1, 5, 9), Figures(1, 2, 5, 0),
                 Append(Figures(1, 1, 5, 9), Pair("upload", Num(2))),
                 Append(Figures(1, 1, 5, 9), Pair("", Blank)),
                 Append(Figures(1, 1, 5, 9), Pair("plan", Word("gold"))),
                 <<Pair("plan", Num(1))>>, <<Pair("total", Num(4))>>}}
FetchReplies ==
  {Replies(a, b) : a \in OddReplies,
                   b \in {Failed, [PlainReply EXCEPT !.interval = Num(12),
                                                     !.userinfo = Figures(0, 1, 5, 0)]}}

-----------------------------------------------------------------------------
(* Family "traffic": the counters of two sources, the second time with the *)
(* same plans.                                                             *)

Bare == Reply(Doc(<<>>, <<>>, <<>>, <<>>))
WithFigures(u, d, e) == [Bare EXCEPT !.userinfo = Figures(u, d, 5, e)]
SomeCounters == {<<0, 0>>, <<1, 1>>, <<2, 1>>, <<0, 2>>}
TrafficReplies ==
  {Replies(WithFigures(c[1], c[2], e), b) :
     c \in (0..2) \X (0..2), e \in {0, 5, 9},
     b \in {Failed} \cup {WithFigures(d[1], d[2], f) : d \in SomeCounters, f \in {0, 9}}}
LaterTraffic ==
  {Replies(WithFigures(c[1], c[2], held["a"].userinfo["expire"]),
           IF "b" \in DOMAIN held
           THEN WithFigures(d[1], d[2], held["b"].userinfo["expire"]) ELSE Failed) :
     c \in (0..2) \X (0..2), d \in SomeCounters}

-----------------------------------------------------------------------------
Families == {"config", "merge", "layout", "texts", "fetch", "traffic"}
FilesOf == [f \in Families |-> CASE f = "config" -> ConfigFiles
                                 [] f = "merge" -> MergeFiles
                                 [] OTHER -> {PlainFiles}]
AllFiles == UNION {FilesOf[f] : f \in Families}
FirstReplies ==
  [f \in Families |-> CASE f = "config" -> {Replies(PlainReply, Reply(OtherDoc))}
                        [] f = "merge" -> MergeReplies
                        [] f = "layout" -> LayoutReplies
                        [] f = "texts" -> TextReplies
                        [] f = "fetch" -> FetchReplies
                        [] f = "traffic" -> TrafficReplies]
AllReplies == UNION {FirstReplies[f] : f \in Families}  \* LaterTraffic has no others
LaterReplies == IF family = "fetch" THEN FetchReplies ELSE LaterTraffic
AllAgents == {<<>>, <<"c", "l", "a">>, <<"x">>}
Agents == IF family = "config" THEN AllAgents ELSE {<<>>}
Times == {4, 5}

Init == /\ family \in Families /\ step = 0
        /\ now \in IF family = "traffic" THEN Times ELSE {Min(Times)}
        /\ ResponseInit

DoStart == step = 0 /\ \E f \in FilesOf[family] : Start(f)
DoRefresh ==
  \/ step = 1 /\ \E replies \in FirstReplies[family] : Refresh(replies)
  \/ /\ step = 3 /\ family \in {"fetch", "traffic"}
     /\ \E replies \in LaterReplies : Refresh(replies)
DoServe == step \in {2, 4} /\ \E ua \in Agents : Serve(ua)
NextDay == /\ step = 3 /\ family = "traffic" /\ now \in Times
           /\ Advance(NextMidnight(now))

Next == /\ \/ (DoStart \/ DoRefresh \/ DoServe) /\ step' = step + 1
           \/ NextDay /\ UNCHANGED step
        /\ UNCHANGED family
Spec == Init /\ [][Next]_vars

=============================================================================
