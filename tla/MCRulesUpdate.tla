--------------------------- MODULE MCRulesUpdate ---------------------------
(* Small instances of RulesUpdate for TLC. *)
EXTENDS RulesUpdate
\* The second release was published without a new rules_version.
MCVersion == [r \in Releases |-> IF r = 1 THEN 1 ELSE r - 1]
============================================================================
