------------------------------- MODULE Render -------------------------------
(***************************************************************************)
(* What the output adapter makes of the merged configuration               *)
(* (internal/output/subscription_mode.go): blocks set in the template,     *)
(* fields in order, a comment above each priority bucket, the userinfo     *)
(* header, and the bytes of the names after the encoder and the unescaping *)
(* pass.  In a body "q" is the quotation mark, "b" the backslash, "n" the  *)
(* end of a scalar, and a character beyond U+FFFF is the text of its code  *)
(* point: two hexadecimal digits here, eight in YAML.                      *)
(***************************************************************************)
EXTENDS Layout, Upstream

HexLen == 2
HexDigits == {"7", "f"}

(* The template's keys, each with the origin of what it holds.             *)
SetBlock(root, key) ==
  LET at == SelectInSeq(root, LAMBDA b : b.key = key)
  IN  IF at = 0 THEN Append(root, [key |-> key, from |-> "merge"])
      ELSE [root EXCEPT ![at].from = "merge"]

SetBlocks(root, providers) ==
  LET three == SetBlock(SetBlock(SetBlock(root, "proxies"), "proxy-groups"), "rules")
  IN  IF providers = <<>> THEN three ELSE SetBlock(three, "rule-providers")

NormalizeProxyStyle(proxies) ==
  [i \in DOMAIN proxies |-> [proxies[i] EXCEPT !.fields = ReorderNameFirst(@)]]

NormalizeProxyGroupStyle(groups) ==
  [i \in DOMAIN groups |-> [groups[i] EXCEPT !.fields = ReorderProxyGroupFields(@)]]

-----------------------------------------------------------------------------
(* The comment above a rule: none, or a priority and contributors' ranks.  *)

NoComment == [priority |-> 0, ranks |-> {}]

\* Mutant of BucketEnd: a bucket ends with its contributor.
BucketEndByContributor(rules, i) ==
  Max({j \in i..Len(rules) : \A k \in i..j : rules[k].priority = rules[i].priority
                                             /\ rules[k].rank = rules[i].rank})

(* The last rule of the run of equal priorities that begins at i.          *)
BucketEnd(rules, i) ==
  Max({j \in i..Len(rules) : \A k \in i..j : rules[k].priority = rules[i].priority})

(* A rule gets a comment if a bucket begins with it; priority 0 never does. *)
NormalizeRulesPriorityComments(rules) ==
  LET Begins(i) == rules[i].priority # 0
                   /\ (i = 1 \/ BucketEnd(rules, i - 1) = i - 1)
      Ranks(i)  == {rules[k].rank : k \in i..BucketEnd(rules, i)} \ {0}
  IN  [i \in DOMAIN rules |->
         [rule |-> rules[i].rule, priority |-> rules[i].priority, rank |-> rules[i].rank,
          head |-> IF Begins(i) THEN [priority |-> rules[i].priority, ranks |-> Ranks(i)]
                   ELSE NoComment]]

-----------------------------------------------------------------------------
(* Subscription-Userinfo, as the pairs of its text; <<>> leaves it out.    *)
UserinfoHeader(h) ==
  LET total == IF h.total = 0 THEN h.allowance ELSE h.total
  IN  << [key |-> "upload", val |-> Num(h.split.upload)],
         [key |-> "download", val |-> Num(h.split.download)],
         [key |-> "total", val |-> Num(total)],
         [key |-> "expire", val |-> Num(h.expire)] >>

\* Profile-Update-Interval, Blank leaves it out.
IntervalHeader(hours) == IF hours > 0 THEN Num(hours) ELSE Blank
-----------------------------------------------------------------------------
(* The encoder: a scalar with a character beyond U+FFFF is double-quoted   *)
(* and that character escaped; one with an indicator ("i", such as a colon *)
(* and a space) is single-quoted ("s"), any other is plain.                *)

Supplementary == {c \o d : c, d \in HexDigits}

Escape(ch) ==
  IF ch \in {"q", "b"} THEN <<"b", ch>>
  ELSE IF ch \in Supplementary
       THEN <<"b", "U">> \o (CHOOSE hex \in HexDigits \X HexDigits : hex[1] \o hex[2] = ch)
  ELSE <<ch>>

EncodeScalar(text) ==
  IF ToSet(text) \cap Supplementary # {}
  THEN <<"q">> \o FlattenSeq([i \in DOMAIN text |-> Escape(text[i])]) \o <<"q", "n">>
  ELSE IF "i" \in ToSet(text) THEN <<"s">> \o text \o <<"s", "n">>
  ELSE text \o <<"n">>

AllHex(p) == ToSet(p) \subseteq HexDigits

\* Mutant of UnescapeByte: the byte after a backslash may begin an escape.
UnescapeByteAlone(body, st, i) ==
  LET hex == SubSeq(body, i + 2, i + 1 + HexLen)
  IN  IF st.skip > 0 THEN [st EXCEPT !.skip = @ - 1]
      ELSE IF st.inDQ /\ body[i] = "b" /\ i + 1 + HexLen <= Len(body)
              /\ body[i + 1] = "U" /\ AllHex(hex)
           THEN [st EXCEPT !.out = Append(@, hex[1] \o hex[2]), !.skip = 1 + HexLen]
      ELSE [st EXCEPT !.out = Append(@, body[i]), !.inDQ = (@ # (body[i] = "q"))]

(* One step of the pass, at byte i; skip counts the bytes already consumed *)
(* by an escape.                                                           *)
UnescapeByte(body, st, i) ==
  LET hex == SubSeq(body, i + 2, i + 1 + HexLen)
  IN  CASE st.skip > 0 -> [st EXCEPT !.skip = @ - 1]
        [] st.skip = 0 /\ st.inDQ /\ body[i] = "b" /\ i < Len(body) ->
             IF body[i + 1] = "U" /\ i + 1 + HexLen <= Len(body) /\ AllHex(hex)
             THEN [st EXCEPT !.out = Append(@, hex[1] \o hex[2]), !.skip = 1 + HexLen]
             ELSE [st EXCEPT !.out = @ \o <<body[i], body[i + 1]>>, !.skip = 1]
        [] OTHER ->
             [st EXCEPT !.out = Append(@, body[i]), !.inDQ = (@ # (body[i] = "q"))]

UnescapeSupplementaryPlane(body) ==
  LET state[i \in 0..Len(body)] ==
        IF i = 0 THEN [inDQ |-> FALSE, skip |-> 0, out |-> <<>>]
        ELSE UnescapeByte(body, state[i - 1], i)
  IN  state[Len(body)].out
=============================================================================
