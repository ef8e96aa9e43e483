----------------------------- MODULE MCFullText ------------------------------
(***************************************************************************)
(* Short texts over signs of every kind, and longer ones that fill several *)
(* blocks and parts.  Words have at least two signs, blocks three.         *)
(***************************************************************************)
EXTENDS FullText

Signs == {"a", "1", "-", ".", "@", "'", " "}

Short == UNION {[1..n -> Signs] : n \in 0..4}

Longer ==
  {<<"a", "a", " ", "a", "a">> \o middle \o <<"b", "b", "/", "1", "1", ",", "1", " ", "a", "b">> :
     middle \in {<<" ">>, <<".">>, <<"-">>, <<"'", ":">>, <<" ", " ", " ", " ">>}}
    \cup {<<"1", "1", "/", "1", ":", "a", "@", "b", ".", "a", " ", "-", "1", ",", "1", "'", "a", "a">>}

MCTexts == Short \cup Longer
=============================================================================
