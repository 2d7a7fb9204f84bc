------------------------------ MODULE Frontier ------------------------------
(***************************************************************************)
(* The efficient frontier of engine/src/analysis.rs                        *)
(* (calculate_efficient_frontier_inner): price the remedy in full, then    *)
(* walk a budget axis and, at every point, pay the schedule that budget    *)
(* buys and test the group coefficient on the wages it produces.           *)
(*                                                                         *)
(* The full price is a call of Remedy with no cap and no goal; a call of   *)
(* Remedy may also be made by itself, and is a behaviour here too. Under   *)
(* Greedy the schedule of a point is the last one's plus what the added    *)
(* money buys, paid from a queue that outlives the point; under Equitable  *)
(* it is figured afresh. The regression at a point is a function of the    *)
(* wages there and is left out: a point is its budget and the raises.      *)
(*                                                                         *)
(* Raises are counted in parts of a dollar, axis.steps to the dollar under *)
(* Greedy and axis.steps * FullCost under Equitable, which makes the steps *)
(* of the axis exact.                                                      *)
(***************************************************************************)
EXTENDS Remedy, Sequences

CONSTANTS
    Axes,    \* the axes a caller may ask for
    Priced   \* what a frontier may be given: rosters and uncapped requests

\* max is the last budget ({}: the remedy's full cost); steps is 50 by default.
Axis == [max : SUBSET Int, steps : Nat]

ASSUME AxesTyped == Axes \subseteq Axis
ASSUME PricedTyped ==
    \A c \in Priced : c[1] \subseteq Roster /\ c[2] \subseteq Request
ASSUME PricedUncapped ==
    \A c \in Priced : \A q \in c[2] :
        q.budget = 0 /\ q.goal = {} /\ ~q.forensic

VARIABLES
    axis,
    stage,    \* where the frontier's own call is, or "remedy": none is made
    queue,    \* the payments from pay_idx on
    owed,     \* PendingPay::gap of each of them
    cursor,   \* budget_cursor
    left,     \* remaining, of this point's money
    raise,    \* current_y less the wages on file
    points    \* the points so far, the baseline first

curve == <<axis, stage, queue, owed, cursor, left, raise, points>>
frontierVars == <<vars, curve>>

-----------------------------------------------------------------------------

NoAxis == [max |-> {}, steps |-> 0]
NoRaise == [r \in Rows |-> 0]
Point(b, y) == [budget |-> b, raise |-> y]

FrontierInit ==
    /\ \/ Init /\ stage = "remedy" /\ axis = NoAxis
       \/ Asked(Priced) /\ stage = "asked" /\ axis \in Axes
    /\ queue = {} /\ owed = NoRaise /\ cursor = 0 /\ left = 0
    /\ raise = NoRaise /\ points = <<>>

InvalidAxis == axis.steps = 0 \/ \E m \in axis.max : m < 0

RefuseAxis ==
    /\ stage = "asked" /\ InvalidAxis
    /\ stage' = "refused"
    /\ UNCHANGED <<vars, axis, queue, owed, cursor, left, raise, points>>

AskForRemedy ==
    /\ stage = "asked" /\ ~InvalidAxis
    /\ stage' = "pricing"
    /\ UNCHANGED <<vars, axis, queue, owed, cursor, left, raise, points>>

\* optimize_inner runs to its end, inside the call or as a call of its own.
Optimize ==
    /\ stage \in {"pricing", "remedy"} /\ phase \notin {"done", "refused"}
    /\ Next
    /\ UNCHANGED curve

\* The remedy was refused, or the pooled design is singular or too small.
GiveUp ==
    /\ stage = "pricing" /\ phase \in {"done", "refused"}
    /\ stage' = "refused"
    /\ UNCHANGED <<vars, axis, queue, owed, cursor, left, raise, points>>

-----------------------------------------------------------------------------
(* The schedule the remedy returned *)

\* An uncapped schedule is in whole dollars (LandsWhereItSays).
Amount(r) == pay[r] \div Unit
FullCost == spend \div Unit

MaxBudget ==
    IF axis.max = {} THEN FullCost ELSE CHOOSE m \in axis.max : TRUE

Target(step) == MaxBudget * step

\* Mutant: a tie is paid by row ordinal, whichever the group.
Ahead_TieByRow(p, q) ==
    \/ Amount(p) > Amount(q)
    \/ Amount(p) = Amount(q) /\ p < q

\* The sort key: the amount, then compared before reference, then the row.
Ahead(p, q) ==
    \/ Amount(p) > Amount(q)
    \/ /\ Amount(p) = Amount(q)
       /\ \/ p \in Compared /\ q \in Reference
          \/ p < q /\ (p \in Compared <=> q \in Compared)

Foremost(r) == r \in queue /\ \A q \in queue \ {r} : Ahead(r, q)

FitPooled ==
    /\ stage = "pricing" /\ phase = "done"
    /\ queue' = {r \in listed : pay[r] > 0}
    /\ owed' = [r \in Rows |-> IF r \in queue' THEN Amount(r) * axis.steps
                               ELSE 0]
    /\ points' = <<Point(0, NoRaise)>>
    /\ stage' = IF MaxBudget = 0 THEN "done" ELSE "stepping"
    /\ UNCHANGED <<vars, axis, cursor, left, raise>>

-----------------------------------------------------------------------------
(* The axis *)

NextTarget == Target(Len(points))

AddPoint(y) ==
    /\ points' = Append(points, Point(NextTarget, y))
    /\ stage' = IF Len(points) = axis.steps THEN "done" ELSE "stepping"

GreedyStep ==
    /\ stage = "stepping" /\ req.strategy = "Greedy"
    /\ left' = NextTarget - cursor
    /\ stage' = "spending"
    /\ UNCHANGED <<vars, axis, queue, owed, cursor, raise, points>>

PayWhole(r) ==
    /\ stage = "spending" /\ left > 0 /\ Foremost(r)
    /\ owed[r] <= left
    /\ raise' = [raise EXCEPT ![r] = @ + owed[r]]
    /\ left' = left - owed[r]
    /\ owed' = [owed EXCEPT ![r] = 0]
    /\ queue' = queue \ {r}
    /\ UNCHANGED <<vars, axis, stage, cursor, points>>

\* Mutant: the part paid is not taken off the money of the step.
PayPart_KeepsMoney(r) ==
    /\ stage = "spending" /\ left > 0 /\ Foremost(r)
    /\ owed[r] > left
    /\ UNCHANGED frontierVars

PayPart(r) ==
    /\ stage = "spending" /\ left > 0 /\ Foremost(r)
    /\ owed[r] > left
    /\ raise' = [raise EXCEPT ![r] = @ + left]
    /\ owed' = [owed EXCEPT ![r] = @ - left]
    /\ left' = 0
    /\ UNCHANGED <<vars, axis, stage, queue, cursor, points>>

GreedyPoint ==
    /\ stage = "spending" /\ (left = 0 \/ queue = {})
    /\ cursor' = NextTarget
    /\ AddPoint(raise)
    /\ UNCHANGED <<vars, axis, queue, owed, left, raise>>

\* Everyone's share of the full schedule, at most all of it.
EquitablePoint ==
    /\ stage = "stepping" /\ req.strategy = "Equitable"
    /\ LET Part(r) == Amount(r) * Lesser(NextTarget, FullCost * axis.steps)
       IN  raise' = [r \in Rows |-> IF r \in queue THEN Part(r) ELSE 0]
    /\ AddPoint(raise')
    /\ UNCHANGED <<vars, axis, queue, owed, cursor, left>>

Return ==
    /\ \/ stage \in {"done", "refused"}
       \/ stage = "remedy" /\ phase \in {"done", "refused"}
    /\ UNCHANGED frontierVars

FrontierNext ==
    \/ RefuseAxis \/ AskForRemedy \/ Optimize \/ GiveUp \/ FitPooled
    \/ GreedyStep \/ GreedyPoint \/ EquitablePoint \/ Return
    \/ \E r \in Rows : PayWhole(r) \/ PayPart(r)

\* One thread runs the call to its end.
FrontierSpec ==
    FrontierInit /\ [][FrontierNext]_frontierVars
        /\ WF_frontierVars(FrontierNext)

-----------------------------------------------------------------------------
(* Properties *)

\* A point pays each row what the remedy's own path pays it at that budget:
\* the curve drawn is the schedule the same budget buys (F-12), whatever the
\* points before it were and however its money was cut into steps.
CurveIsTheSchedule ==
    \A i \in DOMAIN points :
        LET b == Lesser(points[i].budget, AllNeed * axis.steps) IN
        \A r \in Rows :
            points[i].raise[r] =
                IF r \in eligible THEN PathPay(r, b, axis.steps) ELSE 0

\* Every call ends; an accepted frontier has its baseline point and, unless there is
\* no money to spend, a point per step, the last on the axis's end.
CurveCompletes ==
    <>(\/ stage = "refused"
       \/ stage = "remedy" /\ phase \in {"done", "refused"}
       \/ /\ stage = "done"
          /\ Len(points) = IF MaxBudget = 0 THEN 1 ELSE axis.steps + 1
          /\ points[Len(points)].budget = MaxBudget * axis.steps)
=============================================================================
