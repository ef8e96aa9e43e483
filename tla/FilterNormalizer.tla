-------------------------- MODULE FilterNormalizer ---------------------------
(***************************************************************************)
(* filter/filter_normalizer.rs: the three passes between the lexer and the *)
(* parser.  N1 removes doubled parentheses, N2 marks the conditions with   *)
(* "[" and "]", N3 puts a pair of parentheses around every logical         *)
(* operator that has none, AND before OR.                                  *)
(*                                                                         *)
(* Positions in the list of tokens start at 1 here, at 0 in the code.      *)
(***************************************************************************)
EXTENDS FilterLexer, FiniteSets

LogicalOpen    == Token("LogicalOpen", "(", 0)
LogicalClose   == Token("LogicalClose", ")", 0)
ConditionOpen  == Token("ConditionOpen", "[", 0)
ConditionClose == Token("ConditionClose", "]", 0)

(* tokens.get(i), with the kind to suppose when there is none *)
KindAt(tokens, i, otherwise) == IF i \in DOMAIN tokens THEN tokens[i].kind ELSE otherwise

-----------------------------------------------------------------------------
(***************************************************************************)
(* N1.  pairs are the openings that follow one another, in the order they  *)
(* were met: the position of the outer one and its depth x.  A closing     *)
(* that follows another one removes the outer parentheses of the first     *)
(* pair of its depth.                                                      *)
(***************************************************************************)
None == [depth |-> -1, position |-> -1]

NothingSeen == [depth |-> 0, pairs |-> <<>>, last_open |-> None, last_close |-> None, to_be_removed |-> {}]

(* The first pair of that depth, 0 when there is none *)
PairOf(pairs, x) == SelectInSeq(pairs, LAMBDA pair : pair.x = x)

(* A defect: a pair stays in the list when its parenthesis was removed. *)
SpendPair_Never(pairs, x) == pairs

(* "The pair is no longer usable" *)
SpendPair(pairs, x) == IF PairOf(pairs, x) = 0 THEN pairs ELSE [pairs EXCEPT ![PairOf(pairs, x)].x = -1]

Opening(s, p) ==
  [s EXCEPT !.depth = @ + 1,
            !.last_open = [depth |-> s.depth + 1, position |-> p],
            !.pairs = IF s.last_open.position = p - 1
                        THEN @ \o <<[position |-> p - 1, x |-> s.last_open.depth]>>
                        ELSE @]

(* A defect: the parenthesis of the inner pair goes, its partner stays. *)
Closing_RemovesInner(s, p) ==
  LET pair == PairOf(s.pairs, s.depth)
      doubled == s.last_close.position = p - 1 /\ pair # 0
  IN [s EXCEPT !.depth = @ - 1,
               !.last_close = [depth |-> s.depth - 1, position |-> p],
               !.pairs = IF doubled THEN SpendPair(@, s.depth) ELSE @,
               !.to_be_removed = IF doubled THEN @ \cup {s.pairs[pair].position} ELSE @]

Closing(s, p) ==
  LET pair == PairOf(s.pairs, s.depth)
      doubled == s.last_close.position = p - 1 /\ pair # 0
  IN [s EXCEPT !.depth = @ - 1,
               !.last_close = [depth |-> s.depth - 1, position |-> p],
               !.pairs = IF doubled THEN SpendPair(@, s.depth) ELSE @,
               !.to_be_removed = IF doubled THEN @ \cup {s.pairs[pair].position, p} ELSE @]

Other(s, p) ==
  IF s.last_close.position = p - 1
    THEN [s EXCEPT !.pairs = SpendPair(@, s.last_close.depth)]
    ELSE s

n1_remove_successive_logical_open_close(tokens) ==
  LET Seen(s, p) ==
        CASE tokens[p].kind = "LogicalOpen"  -> Opening(s, p)
          [] tokens[p].kind = "LogicalClose" -> Closing(s, p)
          [] OTHER                           -> Other(s, p)
      removed == FoldLeftDomain(Seen, NothingSeen, tokens).to_be_removed
  IN FlattenSeq([p \in DOMAIN tokens |-> IF p \in removed THEN <<>> ELSE <<tokens[p]>>])

-----------------------------------------------------------------------------
(***************************************************************************)
(* N2.  A condition is an attribute, an operator and a value.  Parentheses *)
(* on both of its sides become its marks; otherwise it gets marks of its   *)
(* own.  The pass works on the tokens between two parentheses of its own,  *)
(* and takes them off again, whatever has become of them.                  *)
(***************************************************************************)
n2_mark_condition_open_close(tokens) ==
  LET all == <<LogicalOpen>> \o tokens \o <<LogicalClose>>
      attributes == {p \in DOMAIN all : all[p].kind = "Attribute"}
      enclosed == {p \in attributes : /\ KindAt(all, p - 1, "none") = "LogicalOpen"
                                      /\ KindAt(all, p + 3, "none") = "LogicalClose"}
      bare == attributes \ enclosed
      Marked(p) ==
        (IF p \in bare THEN <<ConditionOpen>> ELSE <<>>)
        \o (IF p - 3 \in bare THEN <<ConditionClose>> ELSE <<>>)
        \o (IF p + 1 \in enclosed THEN <<ConditionOpen>>
            ELSE IF p - 3 \in enclosed THEN <<ConditionClose>>
            ELSE <<all[p]>>)
      marked == FlattenSeq([p \in DOMAIN all |-> Marked(p)])
  IN SubSeq(marked, 2, Len(marked) - 1)

-----------------------------------------------------------------------------
(***************************************************************************)
(* N3.  check_logical_one_direction walks from a logical operator to the   *)
(* end of its operand on one side, and says where a parenthesis has to be  *)
(* inserted there, or that there is one already.  When it leaves through a *)
(* parenthesis of the enclosing group, the position is still that of the   *)
(* operator: nothing assigns it.                                           *)
(***************************************************************************)
Boundary(position, with_logical) == [position |-> position, with_logical |-> with_logical]

RECURSIVE Backward(_, _, _, _)
Backward(tokens, from, i, depth) ==
  LET before == KindAt(tokens, i - 1, "LogicalClose")
      kind == KindAt(tokens, i, "none")
      inside == IF kind = "LogicalOpen" THEN depth - 1
                ELSE IF kind = "LogicalClose" THEN depth + 1 ELSE depth
  IN CASE i = 0 -> Boundary(1, FALSE)
       [] kind = "LogicalOpen" /\ inside = 0 /\ before # "LogicalOpen" -> Boundary(i, FALSE)
       [] kind = "LogicalOpen" /\ inside = -1 -> Boundary(from, TRUE)
       [] kind = "ConditionOpen" /\ depth = 0 -> Boundary(i, before = "LogicalOpen")
       [] OTHER -> Backward(tokens, from, i - 1, inside)

RECURSIVE Forward(_, _, _, _)
Forward(tokens, from, i, depth) ==
  LET after == KindAt(tokens, i + 1, "LogicalOpen")
      kind == KindAt(tokens, i, "none")
      inside == IF kind = "LogicalOpen" THEN depth + 1
                ELSE IF kind = "LogicalClose" THEN depth - 1 ELSE depth
  IN CASE i = Len(tokens) + 1 -> Boundary(i, FALSE)
       [] kind = "LogicalClose" /\ inside = 0 /\ after # "LogicalClose" -> Boundary(i + 1, FALSE)
       [] kind = "LogicalClose" /\ inside = -1 -> Boundary(from, TRUE)
       [] kind = "ConditionClose" /\ depth = 0 -> Boundary(i + 1, after = "LogicalClose")
       [] OTHER -> Forward(tokens, from, i + 1, inside)

(* Where to insert the pair of the operator at p; it has one when both ends do. *)
check_binary_logical_operator(tokens, p) ==
  [left |-> Backward(tokens, p, p - 1, 0), right |-> Forward(tokens, p, p + 1, 0)]

Adjustable(tokens, p) ==
  LET ends == check_binary_logical_operator(tokens, p)
  IN ~(ends.left.with_logical /\ ends.right.with_logical)

Operators(tokens, lop) == {p \in DOMAIN tokens : tokens[p].kind = "BinaryLogicalOperator" /\ tokens[p].token = lop}

(* find_next_ajustable *)
NextAdjustable(tokens, lop) == {p \in Operators(tokens, lop) : Adjustable(tokens, p)}

(* One turn of n3_binary_logical_operator_for_op: the closing one goes in first. *)
n3_insert_pair(tokens, lop) ==
  LET p == CHOOSE q \in NextAdjustable(tokens, lop) : \A r \in NextAdjustable(tokens, lop) : q <= r
      ends == check_binary_logical_operator(tokens, p)
  IN InsertAt(InsertAt(tokens, ends.right.position, LogicalClose), ends.left.position, LogicalOpen)
=============================================================================
