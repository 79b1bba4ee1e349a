------------------------------ MODULE MCValues ------------------------------
(* Values with parameters and ints of two bits, and shorts of one.           *)
EXTENDS Values

MCNumbers == (-2)..2
=============================================================================
