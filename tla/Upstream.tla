------------------------------ MODULE Upstream ------------------------------
(***************************************************************************)
(* What one upstream reply becomes (internal/fetcher/http.go, headers.go). *)
(* A text that the code parses is Blank, Num(n) if it is the decimal text  *)
(* of n, or Word(s) for any other text.  A reply is how the exchange ended *)
(* on the network, the status, the two headers and the body; the userinfo  *)
(* header is the sequence of its ";"-separated pairs [key, val], with the  *)
(* key "" for one without "=", and <<>> if it is absent or empty.          *)
(***************************************************************************)
EXTENDS Integers, Sequences, SequencesExt

CONSTANTS Words    \* the parts of names

Blank   == [is |-> "blank"]
Num(n)  == [is |-> "num", n |-> n]
Word(s) == [is |-> "word", s |-> s]
IsInt(raw) == raw.is = "num"

(* The shapes of documents and replies; nothing is said of what is in them. *)
NameType == Seq(Words)
RuleType == Seq(NameType)
NumberType == [is : {"num"}, n : Int]
CellType == {Blank} \cup NumberType \cup [is : {"word"}, s : STRING]
FieldType == [key : STRING, val : STRING]
ProxyType == [name : NameType, dialer : NameType, fields : Seq(FieldType)]
GroupType == [name : NameType, members : Seq(NameType), fields : Seq(FieldType)]
ProviderType == [key : NameType, mapping : BOOLEAN, proxy : NameType,
                 path : [dir : STRING, base : NameType, ext : STRING]]
DocumentType == [proxies : Seq(ProxyType), groups : Seq(GroupType),
                 rules : Seq(RuleType), providers : Seq(ProviderType)]
ReplyType == [network : STRING, status : Int,
              userinfo : Seq([key : STRING, val : CellType]), interval : CellType,
              body : [kind : STRING, keys : SUBSET STRING, doc : DocumentType]]

-----------------------------------------------------------------------------

NoUserinfo == [absent |-> TRUE]
NoInterval == -1

UserinfoFields == {"upload", "download", "total", "expire"}

(* Every pair must have an integer, known key or not; the last value of a  *)
(* key counts, a missing one is 0, and no known key at all is no userinfo. *)
ParseSubscriptionUserinfo(pairs) ==
  LET LastOf(f) == SelectLastInSeq(pairs, LAMBDA p : p.key = f)
  IN  IF \/ \E i \in DOMAIN pairs : pairs[i].key = "" \/ ~IsInt(pairs[i].val)
         \/ \A f \in UserinfoFields : LastOf(f) = 0
      THEN NoUserinfo
      ELSE [f \in UserinfoFields |-> IF LastOf(f) = 0 THEN 0 ELSE pairs[LastOf(f)].val.n]

ParseProfileUpdateInterval(raw) ==
  IF IsInt(raw) /\ raw.n >= 0 THEN raw.n ELSE NoInterval

(* The root is a mapping with at least one of the three blocks.            *)
AssertClashShape(body) ==
  body.kind = "mapping" /\ body.keys \cap {"proxies", "proxy-groups", "rules"} # {}

(* The checks in the order in which Fetch makes them.                      *)
Outcome(reply) ==
  CASE reply.network = "deadline" -> "timeout"
    [] reply.network \in {"refused", "cut"} -> "network_error"
    [] reply.status \notin 200..299 -> "http_error"
    [] reply.body.kind = "broken" \/ ~AssertClashShape(reply.body) -> "parse_error"
    [] OTHER -> "success"

Payload(reply) ==
  [doc      |-> reply.body.doc,
   userinfo |-> ParseSubscriptionUserinfo(reply.userinfo),
   interval |-> ParseProfileUpdateInterval(reply.interval)]
=============================================================================
