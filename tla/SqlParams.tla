------------------------------ MODULE SqlParams ------------------------------
(***************************************************************************)
(* parse_query and parse_query_async of commons-pg: the named parameters   *)
(* of a statement are replaced one after the other, in the order of a hash *)
(* map, wherever ":" and the name occur - inside a longer name as well.    *)
(*                                                                         *)
(* Of a statement only its parameters are kept, each a sequence of units:  *)
(* ":" and the units of a name before, "$" and digits after.               *)
(***************************************************************************)
EXTENDS Integers, Sequences, SequencesExt

Digits == <<"0", "1", "2", "3", "4", "5", "6", "7", "8", "9">>

(* Numbers of at most two digits *)
Decimal(n) == IF n < 10 THEN <<Digits[n + 1]>> ELSE <<Digits[(n \div 10) + 1], Digits[(n % 10) + 1]>>

(* String::replace *)
Replaced(placeholder, name, counter) ==
  LET from == <<":">> \o name
  IN IF IsPrefix(from, placeholder)
       THEN <<"$">> \o Decimal(counter) \o SubSeq(placeholder, Len(from) + 1, Len(placeholder))
       ELSE placeholder

(* names: the names of the parameters, in the order of the map. *)
parse_query_async(placeholders, names) ==
  FoldLeftDomain(LAMBDA sql, counter : [p \in DOMAIN sql |-> Replaced(sql[p], names[counter], counter)],
                 placeholders, names)

-----------------------------------------------------------------------------
(* The database: "$" and digits is the parameter of that number; anything   *)
(* else is an error, and so is a parameter that no place of the statement   *)
(* uses.                                                                    *)
ParameterOf(placeholder, n) == {k \in 1..n : placeholder = <<"$">> \o Decimal(k)}

IsBound(placeholders, n) ==
  /\ \A p \in DOMAIN placeholders : ParameterOf(placeholders[p], n) # {}
  /\ UNION {ParameterOf(placeholders[p], n) : p \in DOMAIN placeholders} = 1..n

(* The numbers of the parameters, in the order of the statement *)
Bindings(placeholders, n) == [p \in DOMAIN placeholders |-> CHOOSE k \in ParameterOf(placeholders[p], n) : TRUE]
=============================================================================
