----------------------------- MODULE MCGateway -----------------------------
(* Instances of Gateway for TLC. *)
EXTENDS Gateway, TLC

\* One slot an hour, two of them, no limit, and a corridor that is closed.
RuleOf(ps, shape, limit) == [purposes |-> ps, shape |-> shape, limit |-> limit]
MCRules == {RuleOf({"exposure"}, "aggregate_only", 1), RuleOf({"exposure"}, "none", 1),
            RuleOf({}, "aggregate_only", 0), RuleOf({"exposure"}, "aggregate_only", 0)}

MCDefault == RuleOf({"exposure"}, "aggregate_only", 1)

Symmetry == Permutations(Workers)
=============================================================================
