---------------------------- MODULE DynContract ----------------------------
(***************************************************************************)
(* What a caller is told of DynamicColumn: each object is a map from names   *)
(* to values.  A column with a number is the one of its decimal name.       *)
(***************************************************************************)
EXTENDS Naturals

CONSTANTS Objects, Lost     \* Lost: the contents of an object that was moved from

VARIABLE columns

NoColumns == [n \in {} |-> n]
Init == columns = [d \in Objects |-> NoColumns]

Store(d, m) == columns' = [columns EXCEPT ![d] = m]
Override(d, m) ==
  Store(d, [n \in DOMAIN m \cup DOMAIN columns[d] |->
             IF n \in DOMAIN m THEN m[n] ELSE columns[d][n]])
Delete(d, N) == Store(d, [n \in DOMAIN columns[d] \ N |-> columns[d][n]])
CopyOf(d, s) == Store(d, IF columns[s] = Lost THEN NoColumns ELSE columns[s])
MovedFrom(d, s) == columns' = [columns EXCEPT ![d] = columns[s], ![s] = Lost]
=============================================================================
