------------------------------ MODULE MCDynCol ------------------------------
EXTENDS DynCol, TLC

\* Numbers 0..2, of which 2 is above the limit and too wide for the buffer, and the names "",
\* "0", "1", "2" and one that is too long.
MCNameOf == [n \in Numbers |-> 10 * (n + 1)]
MCNameLength == [n \in Names |-> CASE n = 0 -> 0 [] n = 70 -> 2 [] OTHER -> 1]
MCNumberOf == [n \in {n \in Names : n <= 40} |-> IF n = 0 THEN 0 ELSE n \div 10 - 1]

\* The integer 0, a string, the same with a '\\0' at its end, a map with a column, an empty one.
AllTypes ==
  [zero |-> IntType, text |-> StrType, nul |-> StrType, map |-> MapType, empty |-> MapType]
AllBytes ==
  [zero |-> <<>>, text |-> <<"cs", "x">>, nul |-> <<"cs", "x", "0">>, map |-> <<"0", "m", "m">>,
   empty |-> <<>>]
MCTypeOf == [v \in Values |-> AllTypes[v]]
MCBytes == [v \in Values |-> AllBytes[v]]
Flat == [by \in Formats |-> Values]
\* "text" only comes back, for "nul"; maps only go into named columns.
Stripped == [num |-> {"zero", "nul"}, named |-> {"empty", "nul"}]

ObjectsAlike == Permutations(Objects)
=============================================================================
