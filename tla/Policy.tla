------------------------------- MODULE Policy -------------------------------
(***************************************************************************)
(* policy.ts: what the configuration lets a lending write do.  A health    *)
(* factor is a pair <<limit, debt>>: borrow limit and weighted borrows in  *)
(* one unit, infinite when there is no debt.  An amount that does not      *)
(* parse as an integer is Unparsable.                                      *)
(***************************************************************************)
EXTENDS Integers

CONSTANT Unparsable

LendingProtocols == {"suilend", "navi", "scallop"}

\* A projection without debt is infinite, which a borrow refuses.
HasDebt(health) == health[2] > 0

\* healthFactor >= sui.minHealthFactor
HealthyEnough(health, config) ==
    health[2] <= 0 \/ health[1] >= config.minHealthFactor * health[2]

Bounds(kind, protocol, asset, amount, config) ==
    /\ config.enabled
    /\ protocol \in config.allowedProtocols
    /\ protocol \in config.write
    /\ kind = "supply" => config.enablePositionCreation
    /\ kind = "borrow" => config.enableBorrow
    /\ config.allowedAssets # {} => asset \in config.allowedAssets
    /\ amount # Unparsable
    /\ amount > 0
    /\ amount <= IF kind \in {"borrow", "repay"} THEN config.maxBorrowRaw ELSE config.maxSupplyRaw

\* Mutant: the floor is checked in a dry run only.
NoFloor(kind, protocol, asset, amount, projected, config) ==
    /\ Bounds(kind, protocol, asset, amount, config)
    /\ (kind = "borrow" /\ config.dryRun) => HealthyEnough(projected, config)
    /\ config.dryRun \/ config.keyed

\* The bounds hold in a dry run as well; it only skips the RPC and key checks.
evaluateLendingWrite(kind, protocol, asset, amount, projected, config) ==
    /\ Bounds(kind, protocol, asset, amount, config)
    /\ kind = "borrow" => HasDebt(projected) /\ HealthyEnough(projected, config)
    /\ config.dryRun \/ config.keyed

\* positions: what a client reports, its health factor among it.
evaluateHealthGuard(positions, config) ==
    positions.borrows # <<>> /\ ~HealthyEnough(positions.health, config)
=============================================================================
