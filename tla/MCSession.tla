----------------------------- MODULE MCSession -----------------------------
(* Instances of Session for TLC: a query and, as the second statement, a   *)
(* query, an update or a procedure call.                                   *)
EXTENDS Session, TLC

CONSTANTS s1, s2

QueryAndQuery  == s1 :> "select" @@ s2 :> "select"
QueryAndUpdate == s1 :> "select" @@ s2 :> "dml"
QueryAndCall   == s1 :> "select" @@ s2 :> "call"
=============================================================================
