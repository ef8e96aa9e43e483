----------------------------- MODULE MCItemTags -----------------------------
(* Requests about one item and two tags, one of which may be there already. *)
EXTENDS ItemReaders, TLC

CONSTANTS r1, r2, r3, x, a, b, t, u

Job(op, props) == [op |-> op, item |-> x, props |-> props, page |-> 0]

P(tag, type) == [tag |-> tag, type |-> type]

(* Two tags in both orders, by name and by id, with one type or the other. *)
AB == Job("update_item_tag", <<P(a, t), P(b, t)>>)
BA == Job("update_item_tag", <<P(b, t), P(a, t)>>)
AWrong == Job("update_item_tag", <<P(a, u)>>)
ById == Job("update_item_tag", <<P(FirstId, t)>>)
AddX == Job("add_item", <<P(FirstId, u), P(a, t)>>)
NewTag == Job("add_tag", <<P(a, u)>>)
DeleteTags == Job("delete_item_tag", <<P(b, t), P(a, t)>>)
DeleteFirst == Job("delete_tag", <<P(FirstId, t)>>)
DeleteOfNew == [op |-> "delete_item_tag", item |-> r1, props |-> <<P(a, t)>>, page |-> 0]

GetAllItem == Job("get_all_item", <<>>)
GetNewItem == [op |-> "get_item", item |-> r1, props |-> <<>>, page |-> 0]
GetTags == Job("get_all_tag", <<>>)
GetPage1 == [op |-> "get_all_item", item |-> x, props |-> <<>>, page |-> 1]

MCJobs ==
  (r1 :> {AB, AddX, ById}) @@ (r2 :> {BA, AWrong, DeleteFirst, DeleteOfNew})
    @@ (r3 :> {DeleteTags, DeleteFirst, NewTag, GetAllItem, GetNewItem, GetPage1, GetTags})

(* The item that is added comes first in a page, and the one that was there second. *)
MCAlphabet == <<r1, r2, r3, x, a, b>>
=============================================================================
