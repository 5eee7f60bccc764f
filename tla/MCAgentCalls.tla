---------------------------- MODULE MCAgentCalls ----------------------------
(***************************************************************************)
(* Three subscriptions on the first page, one of them closed to the        *)
(* adapter, and one on a later page.                                       *)
(***************************************************************************)
EXTENDS CallProperties

FirstPage == <<"closed", "empty", "ours">>
Open      == {"empty", "ours", "later"}
Found     == {[id |-> "acct", subscription |-> "ours"], [id |-> "hidden", subscription |-> "closed"]}
=============================================================================
