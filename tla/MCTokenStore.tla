---------------------------- MODULE MCTokenStore ----------------------------
(***************************************************************************)
(* Four versions of tokens.json: a laptop's token that is revoked by the   *)
(* third, a phone's that expires, a tablet's that is added by the second,  *)
(* and a second last version with a duplicate.                             *)
(***************************************************************************)
EXTENDS TokenStore

CONSTANTS laptop, phone, tablet

MCTokens == {laptop, phone, tablet}

Document(l, p, t) ==
  [x \in MCTokens |-> CASE x = laptop -> l [] x = phone -> p [] OTHER -> t]

MCRecords ==
  <<Document("active", "lapsing", "absent"),
    Document("active", "lapsing", "active"),
    Document("revoked", "active", "active"),
    Document("revoked", "lapsing", "active")>>

MCMalformed == {3}
=============================================================================
