------------------------------- MODULE Layout -------------------------------
(***************************************************************************)
(* The order in which the output adapter writes the fields of a mapping    *)
(* (internal/output/subscription_mode.go).  A mapping node is the sequence *)
(* of its pairs [key, val]; yaml.v3 keeps key and value in two slots of    *)
(* Content, so slot 2k of the code is pair k + 1 here.                     *)
(***************************************************************************)
EXTENDS Naturals, Sequences

(* The mappings whose keys are all different.                              *)
DistinctKeys(m) == \A i, j \in DOMAIN m : m[i].key = m[j].key => i = j

Keys(m) == {m[i].key : i \in DOMAIN m}
Pairs(m) == {m[i] : i \in DOMAIN m}

(* The first pair with that key.                                           *)
At(m, key) == CHOOSE i \in DOMAIN m :
                m[i].key = key /\ \A j \in DOMAIN m : m[j].key = key => i <= j

\* Mutant of MoveFieldToPosition: the pair that was there is overwritten.
MoveOverwriting(m, key, target) ==
  IF key \notin Keys(m) \/ target > Len(m) THEN m
  ELSE [m EXCEPT ![target] = m[At(m, key)]]

Swap(m, i, j) == [k \in DOMAIN m |-> IF k = i THEN m[j]
                                    ELSE IF k = j THEN m[i] ELSE m[k]]

(* The pair of key and the one at target change places.                    *)
MoveFieldToPosition(m, key, target) ==
  IF key \notin Keys(m) \/ target > Len(m) THEN m
  ELSE Swap(m, At(m, key), target)

(* The pair of name goes to the front, the ones before it move down.       *)
ReorderNameFirst(m) ==
  IF "name" \notin Keys(m) THEN m
  ELSE LET i == At(m, "name")
       IN  [k \in DOMAIN m |-> IF k = 1 THEN m[i]
                               ELSE IF k <= i THEN m[k - 1] ELSE m[k]]

LeadingTriple(m) ==
  LET named == MoveFieldToPosition(m, "name", 1)
      typed == MoveFieldToPosition(named, "type", 2)
  IN  MoveFieldToPosition(typed, "proxies", 3)

LoadBalanceTail(m) ==
  LET url      == MoveFieldToPosition(m, "url", 4)
      interval == MoveFieldToPosition(url, "interval", 5)
      lazy     == MoveFieldToPosition(interval, "lazy", 6)
      strategy == MoveFieldToPosition(lazy, "strategy", 7)
      timeout  == MoveFieldToPosition(strategy, "timeout", 8)
  IN  MoveFieldToPosition(timeout, "max-failed-times", 9)

URLTestTail(m) ==
  LET url      == MoveFieldToPosition(m, "url", 4)
      interval == MoveFieldToPosition(url, "interval", 5)
      timeout  == MoveFieldToPosition(interval, "timeout", 6)
      failed   == MoveFieldToPosition(timeout, "max-failed-times", 7)
  IN  MoveFieldToPosition(failed, "lazy", 8)

(* The branch goes by the value of the second pair, whatever its key is.   *)
IsLoadBalance(m) == Len(m) >= 2 /\ m[2].val = "load-balance"

ReorderProxyGroupFields(m) ==
  LET led == LeadingTriple(m)
  IN  IF IsLoadBalance(led) THEN LoadBalanceTail(led) ELSE URLTestTail(led)

-----------------------------------------------------------------------------
(* What the reordering promises, for a mapping m rewritten as r.           *)

(* The pairs of m, each once: nothing is lost, doubled or changed.         *)
SamePairs(m, r) ==
  Len(r) = Len(m) /\ Pairs(r) = Pairs(m) /\ DistinctKeys(r)

(* r begins with these keys, in this order.                                *)
Leads(r, keys) == \A k \in DOMAIN keys : r[k].key = keys[k]

Triple == <<"name", "type", "proxies">>
URLTestOrder == <<"name", "type", "proxies", "url", "interval", "timeout",
                  "max-failed-times", "lazy">>
LoadBalanceOrder == <<"name", "type", "proxies", "url", "interval", "lazy",
                      "strategy", "timeout", "max-failed-times">>

Holds(m, order) == \A k \in DOMAIN order : order[k] \in Keys(m)

(* The documented layout: the triple leads, and a group that has all the   *)
(* fields of its type has them in the order of that type.                  *)
Canonical(r) ==
  /\ Holds(r, Triple) => Leads(r, Triple)
  /\ Holds(r, LoadBalanceOrder) /\ IsLoadBalance(r) => Leads(r, LoadBalanceOrder)
  /\ Holds(r, URLTestOrder) /\ ~IsLoadBalance(r) => Leads(r, URLTestOrder)
=============================================================================
