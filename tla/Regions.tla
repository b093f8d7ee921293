------------------------------ MODULE Regions ------------------------------
(***************************************************************************)
(* Country inference from a proxy's display name                           *)
(* (internal/merge/region_table.go).  A display name is a sequence of      *)
(* symbols <<script, x>>: a Chinese character (romanised, homophones told  *)
(* apart by a digit), an English word, or a regional-indicator symbol with *)
(* its letter.  The words of an English indicator are whole words here;    *)
(* the code looks for its letters.                                         *)
(***************************************************************************)
EXTENDS Naturals, Sequences, SequencesExt

CONSTANT Lower(_)   \* strings.ToLower of an English word

Zh(chars, code) == [indicator |-> [i \in DOMAIN chars |-> <<"zh", chars[i]>>],
                    code |-> code, lang |-> "zh"]
En(words, code) == [indicator |-> [i \in DOMAIN words |-> <<"en", words[i]>>],
                    code |-> code, lang |-> "en"]

(* The translation table, in the order in which it is searched.            *)
RegionTable == <<
  Zh(<<"zhong", "guo", "xiang", "gang">>, "HK"), Zh(<<"zhong", "guo", "tai2", "wan">>, "TW"),
  Zh(<<"zhong", "guo", "ao", "men">>, "MO"), Zh(<<"zhong", "guo">>, "CN"),
  Zh(<<"mei", "guo">>, "US"), Zh(<<"ri", "ben">>, "JP"), Zh(<<"han", "guo">>, "KR"),
  Zh(<<"xiang", "gang">>, "HK"), Zh(<<"tai2", "wan">>, "TW"), Zh(<<"tai3", "wan2">>, "TW"),
  Zh(<<"xin", "jia", "po">>, "SG"), Zh(<<"ying", "guo">>, "GB"), Zh(<<"de", "guo">>, "DE"),
  Zh(<<"fa", "guo">>, "FR"), Zh(<<"jia", "na", "da">>, "CA"),
  Zh(<<"ao", "da", "li", "ya">>, "AU"), Zh(<<"e", "luo", "si">>, "RU"),
  Zh(<<"yin", "du">>, "IN"), Zh(<<"yue", "nan">>, "VN"), Zh(<<"tai4", "guo">>, "TH"),
  Zh(<<"ma", "lai", "xi", "ya">>, "MY"), Zh(<<"fei", "lv", "bin">>, "PH"),
  Zh(<<"yin", "du", "ni", "xi", "ya">>, "ID"), Zh(<<"ba", "xi">>, "BR"),
  Zh(<<"a", "gen", "ting">>, "AR"), Zh(<<"tu", "er", "qi">>, "TR"),
  Zh(<<"sha", "te", "a", "la", "bo">>, "SA"), Zh(<<"a", "lian", "qiu">>, "AE"),
  Zh(<<"yi", "se", "lie">>, "IL"), Zh(<<"wu", "ke", "lan">>, "UA"), Zh(<<"bo2", "lan">>, "PL"),
  Zh(<<"he", "lan">>, "NL"), Zh(<<"rui", "shi">>, "CH"), Zh(<<"rui", "dian">>, "SE"),
  Zh(<<"nuo", "wei">>, "NO"), Zh(<<"dan", "mai">>, "DK"), Zh(<<"fen", "lan">>, "FI"),
  Zh(<<"xi", "ban", "ya2">>, "ES"), Zh(<<"yi4", "da", "li">>, "IT"),
  Zh(<<"ai", "er2", "lan">>, "IE"),
  En(<<"hong", "kong">>, "HK"), En(<<"singapore">>, "SG"), En(<<"united", "states">>, "US"),
  En(<<"united", "kingdom">>, "GB"), En(<<"japan">>, "JP"), En(<<"germany">>, "DE"),
  En(<<"france">>, "FR"), En(<<"taiwan">>, "TW"), En(<<"south", "korea">>, "KR"),
  En(<<"canada">>, "CA"), En(<<"australia">>, "AU"), En(<<"russia">>, "RU"),
  En(<<"india">>, "IN"), En(<<"vietnam">>, "VN"), En(<<"thailand">>, "TH"),
  En(<<"malaysia">>, "MY"), En(<<"philippines">>, "PH"), En(<<"indonesia">>, "ID"),
  En(<<"brazil">>, "BR"), En(<<"argentina">>, "AR"), En(<<"turkey">>, "TR"),
  En(<<"netherlands">>, "NL"), En(<<"switzerland">>, "CH"), En(<<"sweden">>, "SE"),
  En(<<"norway">>, "NO"), En(<<"denmark">>, "DK"), En(<<"finland">>, "FI"),
  En(<<"spain">>, "ES"), En(<<"italy">>, "IT"), En(<<"ireland">>, "IE"),
  En(<<"ukraine">>, "UA"), En(<<"poland">>, "PL"), En(<<"israel">>, "IL") >>

(* countryToContinent, by continent.                                       *)
CountriesOf ==
  [AS |-> {"CN", "JP", "KR", "HK", "TW", "MO", "SG", "IN", "VN", "TH", "MY", "PH",
           "ID", "AE", "SA", "IL", "TR"},
   EU |-> {"GB", "DE", "FR", "NL", "CH", "SE", "NO", "DK", "FI", "ES", "IT", "IE",
           "PL", "UA", "RU"},
   NA |-> {"US", "CA", "MX"},
   SA |-> {"BR", "AR", "CL", "CO", "PE", "VE"},
   OC |-> {"AU", "NZ"},
   AF |-> {"ZA", "EG", "NG", "KE", "MA", "TN"}]

(* What init() panics about: an indicator twice, a country twice.          *)
ASSUME TablesAreValid ==
  /\ \A i, j \in DOMAIN RegionTable :
       RegionTable[i].indicator = RegionTable[j].indicator => i = j
  /\ \A c, d \in DOMAIN CountriesOf :
       CountriesOf[c] \cap CountriesOf[d] # {} => c = d

ContinentOf(cc) ==
  IF \E c \in DOMAIN CountriesOf : cc \in CountriesOf[c]
  THEN CHOOSE c \in DOMAIN CountriesOf : cc \in CountriesOf[c] ELSE ""

-----------------------------------------------------------------------------
StringContains(s, sub) ==
  \E i \in 0..(Len(s) - Len(sub)) : SubSeq(s, i + 1, i + Len(sub)) = sub

(* The first two consecutive regional-indicator symbols, whatever country  *)
(* their letters are the code of; "" if there are none.                    *)
DecodeRegionalIndicatorPair(s) ==
  LET at == SelectInSeq([i \in 1..(Len(s) - 1) |-> <<s[i][1], s[i + 1][1]>>],
                        LAMBDA pair : pair = <<"ri", "ri">>)
  IN  IF at = 0 THEN "" ELSE s[at][2] \o s[at + 1][2]

FirstOr(s, default) == IF s = <<>> THEN default ELSE s[1]

FirstMatch(s, lang) ==
  FirstOr(SelectSeq(RegionTable,
                    LAMBDA e : e.lang = lang /\ StringContains(s, e.indicator)),
          [code |-> ""]).code

ToLower(s) == [i \in DOMAIN s |-> <<s[i][1], Lower(s[i][2])>>]

(* A flag, else a Chinese entry, else an English one; "UNKNOWN" if none.   *)
InferCountry(s) ==
  FirstOr(SelectSeq(<<DecodeRegionalIndicatorPair(s), FirstMatch(s, "zh"),
                      FirstMatch(ToLower(s), "en")>>,
                    LAMBDA code : code # ""), "UNKNOWN")
=============================================================================
