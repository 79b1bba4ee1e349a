---------------------------- MODULE MCTxnSession ----------------------------
(* TxnSession for TLC: no write differs from another. *)
EXTENDS TxnSession, TLC

Interchangeable == Permutations(Writes)
=============================================================================
