--------------------------- MODULE MCRuleVerdicts ---------------------------
(* The rule "a THEN b" of MCRuleEngine, with the messages remembered. *)
EXTENDS RuleVerdicts, MCRuleEngine
ASSUME IsThen
=============================================================================
