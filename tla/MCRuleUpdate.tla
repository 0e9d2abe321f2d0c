---------------------------- MODULE MCRuleUpdate ----------------------------
(* Two threads and five rules in two files, the second of which also has a rule
   of the first.  Rules 1, 2 and 5 share an attribute, 3 and 4 bring new ones; all
   rules together use one attribute too many, and are one too many themselves.  The data of 10 and of 20 is
   extracted with another attribute, that of 20 with one a rule reads too. *)
EXTENDS RuleUpdate
MCFileRules == <<<<1, 2, 3>>, <<3, 4, 5>>>>
MCRuleAtts  == <<{10}, {10, 20}, {15}, {5, 20, 25}, {10}>>
MCMasks     == {<<<<>>, <<>>>>, <<<<>>, <<3>>>>, <<<<2, 1>>, <<>>>>, <<<<4>>, <<1, 4, 5>>>>}
MCCompanion == 10 :> 11 @@ 20 :> 25
MCExcluded  == {<<>>, <<1, 4>>, <<3>>}
MCRemovals  == {<<1>>, <<2, 4>>}
=============================================================================
