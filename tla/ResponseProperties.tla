------------------------- MODULE ResponseProperties -------------------------
(***************************************************************************)
(* What start-up and GET / promise about the configuration in force and    *)
(* about the figures in the header of an answer.                           *)
(***************************************************************************)
EXTENDS Response

-----------------------------------------------------------------------------
(* What it was made from *)

(* An accepted configuration needs no further check: sources have          *)
(* different names, no record with a proper name was passed over, every    *)
(* number is positive, the prefixes are not blank (a blank one would admit *)
(* everyone), and the custom rule sets are in order (config, customrules). *)
AcceptedConfigIsSound ==
  stage = "up" =>
    LET rows  == config.rows
        named == {i \in DOMAIN files.csv.records :
                    NameFormatOk(Cells(files.csv.header, files.csv.records[i])["name"])}
    IN  /\ Len(rows) = Cardinality({rows[i].name : i \in DOMAIN rows})
        /\ Len(rows) = Cardinality(named)
        /\ \A k \in DOMAIN config.cfg.ints : config.cfg.ints[k] > 0
        /\ \A i \in DOMAIN rows : rows[i].staleOnError >= 0 /\ rows[i].rank > 0
        /\ <<>> \notin ToSet(config.cfg.agents)
        /\ \A i, j \in DOMAIN config.customs :
             i < j => 0 <= config.customs[i].priority
                      /\ config.customs[i].priority <= config.customs[j].priority

-----------------------------------------------------------------------------
(* The figures, as the client reads them from the header *)

Shown(pairs) == ParseSubscriptionUserinfo(pairs)
Used(pairs) == Shown(pairs)["upload"] + Shown(pairs)["download"]
Answers == answer'.status = 200 /\ answer'.userinfo # <<>>
LaterSameDay == /\ Answers /\ first.day = LocalDate(now)
                /\ Counted(first.perSource) /\ Counted(PerSource(held))
Growth(s) == Cumulative(held[s].userinfo) - Cumulative(first.perSource[s])
Known == DOMAIN first.perSource \cap DOMAIN PerSource(held)

(* The first request of a day promises an allowance: of each source the    *)
(* most it can spend on each day that begins before its expiry and stay    *)
(* within what it has left, all that is left of a source without expiry,   *)
(* nothing of an expired one (traffic.go ComputeDailyAllowance).           *)
AllowanceLasts ==
  [][Answers /\ first.day # LocalDate(now) =>
       LET per == PerSource(held)
           left(s) == AtLeast(per[s]["total"] - Cumulative(per[s]), 0)
           days(s) == Min({k \in 1..per[s]["expire"] :
                             now + k * SecondsPerDay >= per[s]["expire"]})
           share(s) == IF NoExpiry(per[s]) THEN left(s)
                       ELSE IF per[s]["expire"] <= now THEN 0
                       ELSE Max({n \in 0..left(s) : n * days(s) <= left(s)})
       IN  Shown(answer'.userinfo)["total"] = SumFunction([s \in DOMAIN per |-> share(s)])
    ]_responseVars

(* A later request of the day shows the allowance of the first one, and    *)
(* counts every source's growth, no source's reset and no source that came *)
(* later, whatever was fetched in between (dailyspend, traffic.go).  The   *)
(* total is allowance plus spend, as FR-002 of spec 011 and the test at    *)
(* traffic_test.go:401 have it: it grows with the spend, and what is left  *)
(* of it stays the allowance.  FR-003 and the comment at traffic.go:28     *)
(* call the same total stable through the day; nothing here says so.       *)
LaterRequestKeepsPin ==
  [][LaterSameDay =>
       LET used == Used(answer'.userinfo)
       IN  /\ Shown(answer'.userinfo)["total"] - used = Shown(first.userinfo)["total"]
           /\ used = SumFunction([s \in Known |-> AtLeast(Growth(s), 0)])
    ]_responseVars

(* The spend shown is split so that its upload part lies between the       *)
(* lowest and the highest upload ratio, at the first request, of the       *)
(* sources that grew (dailyspend SplitUsedToday).                          *)
SplitIsProportional ==
  [][LaterSameDay =>
       LET used == Used(answer'.userinfo)
           u == Shown(answer'.userinfo)["upload"]
           grown == {s \in Known : Growth(s) > 0}
           sum(s) == AtLeast(Cumulative(first.perSource[s]), 1)
           part(s) == 2 * used * first.perSource[s]["upload"]
       IN  grown # {} => /\ \E s \in grown : (2 * u + 1) * sum(s) >= part(s)
                         /\ \E s \in grown : (2 * u - 1) * sum(s) <= part(s)
    ]_responseVars
=============================================================================
