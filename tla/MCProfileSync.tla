---------------------------- MODULE MCProfileSync ----------------------------
(* Two changes of a website with an origin store, one change of a website  *)
(* whose heads are in the catalog.                                         *)
EXTENDS ProfileSync
MCMade == [g \in Groups |-> IF g \in Directories THEN 1 ELSE 2]
=============================================================================
