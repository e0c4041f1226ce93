--------------------------- MODULE ReserveCurves ---------------------------
(***************************************************************************)
(* The reserve curves of allocation.ts and the ones the protocol clients   *)
(* build: what supplying x more of an asset to a pool earns.               *)
(*                                                                         *)
(* Rates are integers in one unit throughout (0.001 percent in the runs),  *)
(* a utilization is a number of UtilScale parts, amounts are raw units.    *)
(* The code works in doubles; integer division stands for their rounding.  *)
(***************************************************************************)
EXTENDS Integers, FiniteSets, FiniteSetsExt

CONSTANTS
    UtilScale,      \* utilization 1
    Tolerance,      \* 0.5 percent, in the unit of the rates
    Uncapped        \* depositCapRaw left undefined; a pool without a limit

ASSUME CurveAssumption == UtilScale \in Nat \ {0} /\ Tolerance \in Nat /\ Uncapped \notin Int

ProtocolOrder == <<"suilend", "navi", "scallop">>

\* The elements of a set as a sequence, in the order of a relation.
SortedBy(S, before) ==
    CHOOSE o \in [1..Cardinality(S) -> S] :
       \A i, j \in DOMAIN o : i < j => <<o[i], o[j]>> \in before

\* Control points of the borrow rate: from utilizations to rates.
Clamp(value, low, high) == Min({high, Max({low, value})})

borrowApr(points, util) ==
    LET below == {p \in DOMAIN points : p <= util}
        above == {p \in DOMAIN points : p >= util}
    IN  CASE points = <<>> -> 0
          [] points # <<>> /\ below = {} -> points[Min(above)]
          [] points # <<>> /\ above = {} -> points[Max(below)]
          [] OTHER ->
               LET prev == Max(below)  next == Min(above)
               IN  points[prev] + (IF prev = next THEN 0 ELSE
                      ((util - prev) * (points[next] - points[prev])) \div (next - prev))

supplyApr(curve, util) ==
    (((borrowApr(curve.points, util) * util) \div UtilScale)
        * (100 - curve.reserveFactorPct)) \div 100

utilizationAfterDeposit(curve, x) ==
    LET total == curve.borrowed + curve.available + x
    IN  IF total <= 0 THEN 0 ELSE Clamp((curve.borrowed * UtilScale) \div total, 0, UtilScale)

netSupplyApr(curve, x) ==
    supplyApr(curve, utilizationAfterDeposit(curve, x)) + curve.rewardSupplyApr

-----------------------------------------------------------------------------
(* Construction.  A pool is what a client reads of it: what is supplied    *)
(* and borrowed, its deposit limit, the protocol's own rate parameters,    *)
(* and the rates quoted for now.                                           *)

deriveReserveFactorPct(spotBorrow, spotSupply, util) ==
    LET gross == (spotBorrow * util) \div UtilScale
    IN  IF gross <= 0 THEN 0 ELSE Clamp(100 - (100 * spotSupply) \div gross, 0, 95)

fallbackBorrowAprPoints(util, spotBorrow) ==
    [p \in {0, UtilScale} |->
        CASE p = 0 -> 0
          [] p # 0 /\ util <= 0 -> Max({0, spotBorrow})
          [] OTHER -> (spotBorrow * UtilScale) \div util]

validatedBorrowAprPoints(candidate, util, spotBorrow) ==
    LET miss == borrowApr(candidate, util) - spotBorrow
        tolerance == Max({Tolerance, (spotBorrow * 15) \div 100})
    IN  IF Cardinality(DOMAIN candidate) >= 2 /\ miss <= tolerance /\ -miss <= tolerance
        THEN candidate
        ELSE fallbackBorrowAprPoints(util, spotBorrow)

Utilization(pool) ==
    IF pool.supplied <= 0 THEN 0
    ELSE Clamp((pool.borrowed * UtilScale) \div pool.supplied, 0, UtilScale)

Liquidity(pool) == Max({0, pool.supplied - pool.borrowed})

Room(pool) == pool.limit - pool.supplied

\* Suilend states its rate at control points and its spread fee; over its limit
\* a pool gets the cap 0.
SuilendCurve(pool) ==
    [protocol |-> "suilend", borrowed |-> pool.borrowed, available |-> Liquidity(pool),
     points |-> validatedBorrowAprPoints(pool.rates, Utilization(pool), pool.borrowApr),
     reserveFactorPct |-> pool.spreadPct, rewardSupplyApr |-> 0,
     depositCap |-> IF pool.limit = Uncapped THEN Uncapped ELSE Max({0, Room(pool)})]

\* NAVI and Scallop derive the reserve factor from the rates quoted for now, and
\* give a pool at or over its limit no cap at all.
DerivedCurve(protocol, pool, candidate, reward) ==
    [protocol |-> protocol, borrowed |-> pool.borrowed, available |-> Liquidity(pool),
     points |-> validatedBorrowAprPoints(candidate, Utilization(pool), pool.borrowApr),
     reserveFactorPct |->
        deriveReserveFactorPct(pool.borrowApr, pool.supplyApr, Utilization(pool)),
     rewardSupplyApr |-> reward,
     depositCap |-> IF pool.limit # Uncapped /\ Room(pool) > 0 THEN Room(pool) ELSE Uncapped]

\* One kink, with the steps of the rate up to it and beyond it.
NaviCurve(pool) ==
    LET f == pool.rates
        kinked == [u \in {0, f.optimal, UtilScale} |->
                     f.base + (IF u > 0 THEN f.multiplier ELSE 0)
                            + (IF u > f.optimal THEN f.jump ELSE 0)]
    IN  DerivedCurve("navi", pool,
           IF 0 < f.optimal /\ f.optimal < UtilScale THEN kinked ELSE <<>>, pool.boost)

\* Two kinks, with the rates at them.
ScallopCurve(pool) ==
    LET f == pool.rates
        kinked == [u \in {0, f.mid, f.high, UtilScale} |->
                     CASE u = 0 -> f.base [] u = f.mid -> f.atMid
                       [] u = f.high -> f.atHigh [] OTHER -> f.max]
    IN  DerivedCurve("scallop", pool,
           IF 0 < f.mid /\ f.mid < f.high /\ f.high < UtilScale THEN kinked ELSE <<>>, 0)

\* Scallop's client gives no curve for an empty pool.
HasCurve(protocol, pool) == protocol # "scallop" \/ pool.supplied > 0

buildCurve(protocol, pool) ==
    CASE protocol = "suilend" -> SuilendCurve(pool)
      [] protocol = "navi" -> NaviCurve(pool)
      [] OTHER -> ScallopCurve(pool)
=============================================================================
