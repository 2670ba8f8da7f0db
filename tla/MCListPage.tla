---------------------------- MODULE MCListPage ------------------------------
(* Two records, one saved filter of the user's and one of somebody else's,   *)
(* and a text that two live fields search, each finding another record.      *)
EXTENDS ListPage, TLC

Contains == [field |-> "name", op |-> "contains", name |-> "c1"]
Equals == [field |-> "name", op |-> "eq", name |-> "c2"]
MCConditions == {Contains, Equals}
MCMatch == Contains :> {1} @@ Equals :> {2}
MCLiveFields == <<"name", "id">>
MCHits == <<{1}, {}>>
MCConfig == "mine" :> [filters |-> {Contains}, groupBy |-> NoGroup]
         @@ "theirs" :> [filters |-> {Equals}, groupBy |-> "name"]
=============================================================================
