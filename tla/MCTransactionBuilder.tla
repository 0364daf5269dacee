------------------------- MODULE MCTransactionBuilder -------------------------
(***************************************************************************)
(* Instances of TransactionBuilder for model checking.  The calls are the  *)
(* fewest with which builders race for a key, depend on each other's       *)
(* writes, name a key twice, and fail to materialize.                      *)
(***************************************************************************)
EXTENDS TransactionBuilder, TLC

CONSTANTS k1, k2, b1, b2

Op(typ, key, val, conds) ==
    [typ |-> typ, key |-> key, val |-> val, conditions |-> conds,
     buildable |-> TRUE]

RacingCalls ==
    { Op("Create", k1, 1, {}),
      Op("Update", k2, 2, {}) }

MixedCalls ==
    { Op("Create", k1, 1, {}),
      Op("Put", k2, 1, {}),
      Op("UpdateWithBuilder", k1, 2, {AtVersion(1)}),
      Op("ConditionCheck", k2, 1, {IfExists}),
      [Op("Delete", k1, 1, {}) EXCEPT !.buildable = FALSE] }

BuilderSymmetry == Permutations(Builders)
==============================================================================
