----------------------------- MODULE Allocation -----------------------------
(***************************************************************************)
(* allocation.ts, the solver the agent previews with and the enclave       *)
(* decides with: water-filling over reserve curves, pruning of small legs, *)
(* and the repair of what rounding lost or added.                          *)
(*                                                                         *)
(* The code halves intervals of doubles until they cannot shrink; here the *)
(* intervals end at neighbouring integers.  Where the sum of the legs      *)
(* jumps at the water line, the double the code ends with lies on either   *)
(* side of the jump: "above" says on which.  bestSingle is left out: each  *)
(* round of the loop returns or prunes one leg, and one leg is returned.   *)
(***************************************************************************)
EXTENDS ReserveCurves, Sequences, SequencesExt, Functions

CONSTANTS LAMBDA_ITERATIONS, X_ITERATIONS

ASSUME AllocationAssumption == {LAMBDA_ITERATIONS, X_ITERATIONS} \subseteq Nat

\* Halves [lo, hi] n times, up from the middle where Up holds.
Bisect(Up(_), lo, hi, n) ==
    LET cut[k \in 0..n] ==
          IF k = 0 THEN [lo |-> lo, hi |-> hi]
          ELSE LET c == cut[k - 1]
                   mid == (c.lo + c.hi) \div 2
               IN  IF Up(mid) THEN [c EXCEPT !.lo = mid] ELSE [c EXCEPT !.hi = mid]
    IN  cut[n]

Interest(curve, x) == x * netSupplyApr(curve, x)

\* The central difference, one unit to each side.
marginalYield(curve, x) ==
    LET lo == Max({0, x - 1})
    IN  (Interest(curve, x + 1) - Interest(curve, lo)) \div (x + 1 - lo)

solveMarginalEquals(curve, lambda, cap) ==
    CASE cap <= 0 \/ marginalYield(curve, 0) <= lambda -> 0
      [] cap > 0 /\ marginalYield(curve, 0) > lambda /\ marginalYield(curve, cap) >= lambda -> cap
      [] OTHER -> Bisect(LAMBDA x : marginalYield(curve, x) > lambda, 0, cap, X_ITERATIONS).lo

\* Mutant: everything into the pool with the best rate now.
AllIntoBest(curves, caps, budget, above) ==
    LET best == CHOOSE i \in DOMAIN curves : \A j \in DOMAIN curves :
                   netSupplyApr(curves[i], 0) >= netSupplyApr(curves[j], 0)
    IN  [i \in DOMAIN curves |-> IF i = best THEN caps[i] ELSE 0]

\* What equalizes the marginal yields at lambda.
allocAt(curves, caps, lambda) ==
    [i \in DOMAIN curves |-> solveMarginalEquals(curves[i], lambda, caps[i])]

\* From below the yield at which the budget is placed to above it.
waterLine(curves, caps, budget) ==
    LET high == Max({0} \cup {marginalYield(curves[i], 0) : i \in DOMAIN curves})
    IN  Bisect(LAMBDA l : SumFunction(allocAt(curves, caps, l)) > budget, 0, high, LAMBDA_ITERATIONS)

\* The legs at the water line, on one side of it or the other.
atLine(curves, caps, budget, line, above) ==
    LET jump == SumFunction(allocAt(curves, caps, line.lo)) - budget > Len(curves)
    IN  allocAt(curves, caps, IF jump /\ above THEN line.lo ELSE line.hi)

\* Every cap, if the budget covers them all.
waterFill(curves, caps, budget, above) ==
    IF budget >= SumFunction(caps) THEN caps
    ELSE atLine(curves, caps, budget, waterLine(curves, caps, budget), above)

largestIndex(amounts) ==
    CHOOSE i \in DOMAIN amounts : \A j \in DOMAIN amounts :
       amounts[j] < amounts[i] \/ (amounts[j] = amounts[i] /\ i <= j)

\* Mutant: what is over the budget stays.
TopUp(amounts, budget) ==
    LET missing == budget - SumFunction(amounts)
        i == largestIndex(amounts)
    IN  IF missing > 0 /\ missing <= Len(amounts) /\ amounts[i] > 0
        THEN [amounts EXCEPT ![i] = @ + missing] ELSE amounts

\* Mutant: any shortfall is given to the largest leg.
AllPlaced(amounts, budget) ==
    [amounts EXCEPT ![largestIndex(amounts)] = Max({0, @ + budget - SumFunction(amounts)})]

\* What is over the budget is taken from the largest leg, and what rounding
\* may have lost is added to it, whatever its cap.
Repaired(amounts, budget) ==
    LET missing == budget - SumFunction(amounts)
        i == largestIndex(amounts)
    IN  CASE missing < 0 -> [amounts EXCEPT ![i] = Max({0, @ + missing})]
          [] missing > 0 /\ missing <= Len(amounts) /\ amounts[i] > 0 ->
                [amounts EXCEPT ![i] = @ + missing]
          [] OTHER -> amounts

\* The indices of the funded legs, in the order of their amounts.
largestFirst(raw) ==
    LET funded == {i \in DOMAIN raw : raw[i] > 0}
    IN  SortedBy(funded, {p \in funded \X funded :
           raw[p[1]] > raw[p[2]] \/ (raw[p[1]] = raw[p[2]] /\ p[1] < p[2])})

\* The funded legs, largest first.
finalize(curves, amounts, budget) ==
    LET raw == Repaired(amounts, budget)
        order == largestFirst(raw)
    IN  [k \in DOMAIN order |-> [protocol |-> curves[order[k]].protocol, amount |-> raw[order[k]]]]

\* Mutant: no leg is pruned.
NotPruned(curves, amounts, minPosition) == curves

\* Without the smallest leg below the minimum, unless it is the only one.
Pruned(curves, amounts, minPosition) ==
    LET small == {i \in DOMAIN amounts : 0 < amounts[i] /\ amounts[i] < minPosition}
        least == CHOOSE i \in small : \A j \in small :
                    amounts[i] < amounts[j] \/ (amounts[i] = amounts[j] /\ i <= j)
    IN  IF small = {} \/ Cardinality({i \in DOMAIN amounts : amounts[i] > 0}) <= 1
        THEN curves ELSE RemoveAt(curves, least)

\* What fits into a pool; perProtocolCap may be Uncapped.
capFor(curve, budget, perProtocolCap) ==
    Max({0, Min({budget} \cup ({perProtocolCap, curve.depositCap} \ {Uncapped}))})

Filled(curves, budget, perProtocolCap, above) ==
    waterFill(curves, [i \in DOMAIN curves |-> capFor(curves[i], budget, perProtocolCap)],
              budget, above)

solveAllocation(curves, budget, perProtocolCap, minPosition, above) ==
    LET filled(cs) == Filled(cs, budget, perProtocolCap, above)
        candidates[k \in 0..Len(curves)] ==
           IF k = 0 \/ minPosition <= 0 THEN curves
           ELSE LET cs == candidates[k - 1] IN Pruned(cs, filled(cs), minPosition)
        left == candidates[Len(curves)]
    IN  IF curves = <<>> \/ budget <= 0 THEN <<>> ELSE finalize(left, filled(left), budget)
=============================================================================
