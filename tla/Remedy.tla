------------------------------- MODULE Remedy -------------------------------
(***************************************************************************)
(* The remedy of engine/src/analysis.rs (optimize_inner): who is below the *)
(* pay line, who of them is eligible, what budget the target gap asks for, *)
(* and how that budget is paid out, largest shortfall first (Greedy) or    *)
(* the same share to everyone (Equitable).                                 *)
(*                                                                         *)
(* The call is one thread; each of its loops is one row per step, because  *)
(* its figures are running sums over rows in two different orders (matrix  *)
(* order, pay order) and its rule is found by walking the pay order.       *)
(*                                                                         *)
(* Money is whole dollars. The gap is carried as the SUM over the compared *)
(* rows of pay minus fair pay (the code's mean times n_T), and a weight is *)
(* the code's weight times n_T. A budget the target rule derives may be a  *)
(* fraction [num, den]; payments are counted in parts of a dollar, `Unit'  *)
(* to the dollar, so that every sum below is exact. The code's tolerances  *)
(* (1e-6 on a shortfall, 1e-10 on the goal, 1e-9 on the budget) compare    *)
(* floating-point sums and are exact comparisons here.                     *)
(***************************************************************************)
EXTENDS Integers, FiniteSets, Functions

CONSTANTS
    Compared, Reference,  \* the analysed rows of each group, by row ordinal
    Cases                 \* <<rosters, requests>>: what a call may be given

Rows == Compared \cup Reference

(* pay: the outcome; fair, width: the midpoint and half-width of the fair  *)
(* range (from the fitted line); weight: how a dollar to the row moves the *)
(* summed gap on the pooled line, or on the refitted reference line.       *)
Roster == [pay : [Rows -> Int], fair : [Rows -> Int],
           width : [Rows -> Nat], weight : [Rows -> Int]]

(* An absent option is {}, a given one a singleton. minPct is in percent.  *)
Request == [budget : Int, goal : SUBSET Int,
            target : {"Reference", "Pooled"},
            strategy : {"Greedy", "Equitable"},
            line : {"Midpoint", "LowerBound", "UpperBound"},
            minPct : Int, adjustBoth : BOOLEAN, forensic : BOOLEAN]

ASSUME Groups ==
    /\ Compared \subseteq Nat /\ Reference \subseteq Nat
    /\ IsFiniteSet(Rows) /\ Compared \cap Reference = {}
ASSUME CasesTyped == \A c \in Cases : c[1] \subseteq Roster /\ c[2] \subseteq Request
ASSUME OneGoal == \A c \in Cases : \A q \in c[2] : \A g, h \in q.goal : g = h

VARIABLES
    roster, req,
    phase,      \* the loop the call is in
    todo,       \* the rows that loop has still to visit
    listed,     \* potential_adjustments
    eligible,   \* those of them a budget may be spent on
    excluded,   \* threshold_excluded_count
    needC,      \* need_target and
    needR,      \* need_reference
    gap,        \* the summed gap before any payment (unexplained_before)
    walk,       \* the running sums of the walk along the pay order
    best,       \* best_reachable_gap, summed
    peak,       \* peak_budget: {} is the end of the path
    rule,       \* the target rule and, once reachable, its budget
    cap,        \* effective_budget
    pay, spend, costC, costR, shift, unfunded,  \* the pay loop's results
    result      \* what the call reports

inputs == <<roster, req>>
figures == <<listed, eligible, excluded, needC, needR, gap>>
rules == <<walk, best, peak, rule, cap>>
payments == <<pay, spend, costC, costR, shift, unfunded>>
vars == <<inputs, phase, todo, figures, rules, payments, result>>

-----------------------------------------------------------------------------
(* The roster under the request *)

Line(r) ==
    roster.fair[r] + (CASE req.line = "Midpoint"   -> 0
                        [] req.line = "LowerBound" -> -roster.width[r]
                        [] req.line = "UpperBound" -> roster.width[r])

Shortfall(r) == Line(r) - roster.pay[r]

\* gap_pct >= min_pct, where gap_pct is Shortfall / pay, or 0 at zero pay.
LargeEnough(r) ==
    LET p == roster.pay[r] IN
    \/ p = 0 /\ req.minPct <= 0
    \/ p > 0 /\ 100 * Shortfall(r) >= req.minPct * p
    \/ p < 0 /\ 100 * Shortfall(r) <= req.minPct * p

Eligible(r) ==
    /\ Shortfall(r) > 0
    /\ LargeEnough(r)
    /\ r \in Reference => req.adjustBoth

\* The pay order: a stable sort by shortfall of compared, then reference rows.
Before(p, q) ==
    \/ Shortfall(p) > Shortfall(q)
    \/ /\ Shortfall(p) = Shortfall(q)
       /\ \/ p \in Compared /\ q \in Reference
          \/ p < q /\ (p \in Compared <=> q \in Compared)

FirstToPay(r) == r \in todo /\ \A q \in todo \ {r} : Before(r, q)
FirstRow(r) == r \in todo /\ \A q \in todo : r <= q

Weight(r) ==
    IF req.target = "Pooled" \/ (req.adjustBoth /\ r \in Reference)
    THEN roster.weight[r]
    ELSE IF r \in Compared THEN 1 ELSE 0

-----------------------------------------------------------------------------
(* Budgets: fractions of a dollar, and the cap the two budgets make *)

Lesser(a, b) == IF a <= b THEN a ELSE b
Whole(n) == [num |-> n, den |-> 1]
Below(a, b) == a.num * b.den < b.num * a.den

AllNeed == needC + needR

UserCap == IF req.budget > 0 THEN {Whole(req.budget)} ELSE {}

\* Mutant: a met target shares the sentinel of "no cap".
TargetCap_MetPaysAll ==
    CASE rule.kind = "Reachable"   -> {rule.least}
      [] rule.kind = "Unreachable" -> {Whole(b) : b \in peak}
      [] OTHER                     -> {}

TargetCap ==
    CASE rule.kind = "NoTarget"    -> {}
      [] rule.kind = "AlreadyMet"  -> {Whole(0)}
      [] rule.kind = "Reachable"   -> {rule.least}
      [] rule.kind = "Unreachable" -> {Whole(b) : b \in peak}

\* An uncapped run gets the whole need and a buffer of 0.001 %.
Uncapped == [num |-> AllNeed * 100001, den |-> 100000]

Caps == UserCap \cup TargetCap

\* The effective budget: the tighter cap there is.
Effective(c) ==
    \/ Caps = {} /\ c = Uncapped
    \/ c \in Caps /\ \A d \in Caps : ~Below(d, c)

\* Mutant: the budget is compared with the need only.
Binding_NeedOnly == \E u \in UserCap : Below(u, Whole(AllNeed))

Binding ==
    \E u \in UserCap : \A c \in TargetCap \cup {Whole(AllNeed)} : Below(u, c)

-----------------------------------------------------------------------------
(* The call *)

NoWalk == [shift |-> 0, spent |-> 0, high |-> 0, at |-> {}]
NoRule == [kind |-> "NoTarget", least |-> Whole(0)]
NoResult == [met |-> {}, toGo |-> {}, least |-> {},
             binding |-> FALSE, unfunded |-> 0, gap |-> 0]

\* A call on one of the cases, before its first line is run.
Asked(cases) ==
    /\ \E c \in cases : roster \in c[1] /\ req \in c[2]
    /\ phase = "asked" /\ todo = {}
    /\ listed = {} /\ eligible = {} /\ excluded = 0
    /\ needC = 0 /\ needR = 0 /\ gap = 0
    /\ walk = NoWalk /\ best = 0 /\ peak = {} /\ rule = NoRule
    /\ cap = Whole(0)
    /\ pay = [r \in Rows |-> 0] /\ spend = 0 /\ costC = 0 /\ costR = 0
    /\ shift = 0 /\ unfunded = 0
    /\ result = NoResult

Init == Asked(Cases)

Invalid ==
    \/ req.budget < 0
    \/ req.goal # {} /\ req.adjustBoth
    \/ req.minPct < 0

Refuse ==
    /\ phase = "asked" /\ Invalid
    /\ phase' = "refused"
    /\ UNCHANGED <<inputs, todo, figures, rules, payments, result>>

\* The line could not be fitted (data, alignment, degrees of freedom).
FitFails ==
    /\ phase = "asked" /\ ~Invalid
    /\ phase' = "refused"
    /\ UNCHANGED <<inputs, todo, figures, rules, payments, result>>

FitLine ==
    /\ phase = "asked" /\ ~Invalid
    /\ phase' = "compared" /\ todo' = Compared
    /\ UNCHANGED <<inputs, figures, rules, payments, result>>

List(r) ==
    /\ eligible' = IF Eligible(r) THEN eligible \cup {r} ELSE eligible
    /\ listed' = IF Eligible(r) \/ req.forensic
                 THEN listed \cup {r} ELSE listed

ReadCompared(r) ==
    /\ phase = "compared" /\ FirstRow(r)
    /\ todo' = todo \ {r}
    /\ List(r)
    /\ gap' = gap + roster.pay[r] - roster.fair[r]
    /\ needC' = IF Eligible(r) THEN needC + Shortfall(r) ELSE needC
    /\ excluded' = IF Shortfall(r) > 0 /\ ~Eligible(r)
                   THEN excluded + 1 ELSE excluded
    /\ UNCHANGED <<inputs, phase, needR, rules, payments, result>>

\* Reference rows are read for reference raises and for the forensic list.
TurnToReference ==
    /\ phase = "compared" /\ todo = {}
    /\ phase' = "reference"
    /\ todo' = IF req.adjustBoth \/ req.forensic THEN Reference ELSE {}
    /\ UNCHANGED <<inputs, figures, rules, payments, result>>

ReadReference(r) ==
    /\ phase = "reference" /\ FirstRow(r)
    /\ todo' = todo \ {r}
    /\ List(r)
    /\ needR' = IF Eligible(r) THEN needR + Shortfall(r) ELSE needR
    /\ UNCHANGED <<inputs, phase, gap, needC, excluded,
                   rules, payments, result>>

StartWalk ==
    /\ phase = "reference" /\ todo = {}
    /\ phase' = "peak" /\ todo' = eligible
    /\ walk' = [NoWalk EXCEPT !.at = IF eligible = {} THEN {} ELSE {0}]
    /\ UNCHANGED <<inputs, figures, best, peak, rule, cap, payments, result>>

-----------------------------------------------------------------------------
(* The highest point of the pay order, and the rule for the budget *)

\* Mutant: the vertex is the money spent before the row that makes the peak.
Climb_BeforeRow(w, r) ==
    LET s == w.shift + Weight(r) * Shortfall(r) IN
    [shift |-> s, spent |-> w.spent + Shortfall(r),
     high |-> IF s >= w.high THEN s ELSE w.high,
     at |-> IF s >= w.high THEN (IF todo = {r} THEN {} ELSE {w.spent})
            ELSE w.at]

\* One row of the walk: `high' is the highest vertex so far, `at' the money
\* spent there ({}: at the end). A tie goes to the later vertex.
Climb(w, r) ==
    LET s == w.shift + Weight(r) * Shortfall(r)
        m == w.spent + Shortfall(r) IN
    [shift |-> s, spent |-> m,
     high |-> IF s >= w.high THEN s ELSE w.high,
     at |-> IF s >= w.high THEN (IF todo = {r} THEN {} ELSE {m}) ELSE w.at]

WalkOn(r) ==
    /\ phase = "peak" /\ FirstToPay(r)
    /\ todo' = todo \ {r}
    /\ walk' = Climb(walk, r)
    /\ UNCHANGED <<inputs, phase, figures, best, peak, rule, cap,
                   payments, result>>

\* Where the path peaks: the whole schedule when reference raises are on.
PeakShift ==
    IF req.adjustBoth THEN walk.shift
    ELSE IF req.strategy = "Greedy" THEN walk.high
    ELSE IF walk.shift >= 0 THEN walk.shift ELSE 0

PeakBudget ==
    IF req.adjustBoth THEN {}
    ELSE IF req.strategy = "Greedy" THEN walk.at
    ELSE IF walk.shift >= 0 THEN {} ELSE {0}

Kind ==
    IF req.goal = {} THEN "NoTarget"
    ELSE IF \E g \in req.goal : g <= gap THEN "AlreadyMet"
    ELSE IF \E g \in req.goal : g > gap + PeakShift THEN "Unreachable"
    ELSE "Reachable"

\* Mutant: a pooled dollar is taken to move the gap like a reference one.
LeastFor_OneForOne(g) == Whole(Lesser(g - gap, needC))

\* The closed forms of a reachable budget, never more than the need.
LeastFor(g) ==
    IF req.target = "Reference"
    THEN Whole(Lesser(g - gap, needC))
    ELSE [num |-> Lesser((g - gap) * needC, needC * walk.shift),
          den |-> walk.shift]

Decide ==
    /\ phase = "peak" /\ todo = {}
    /\ best' = gap + PeakShift /\ peak' = PeakBudget
    /\ \/ /\ Kind = "Reachable"
          /\ req.target = "Pooled" /\ req.strategy = "Greedy"
          /\ phase' = "cross" /\ todo' = eligible
          /\ walk' = NoWalk
          /\ rule' = [rule EXCEPT !.kind = Kind]
       \/ /\ Kind = "Reachable"
          /\ ~(req.target = "Pooled" /\ req.strategy = "Greedy")
          /\ phase' = "ruled" /\ UNCHANGED <<todo, walk>>
          /\ \E g \in req.goal :
                 rule' = [kind |-> Kind, least |-> LeastFor(g)]
       \/ /\ Kind # "Reachable"
          /\ phase' = "ruled" /\ UNCHANGED <<todo, walk>>
          /\ rule' = [rule EXCEPT !.kind = Kind]
    /\ UNCHANGED <<inputs, figures, cap, payments, result>>

\* Does paying row r take the path from below the goal up to it?
Crosses(r, g) ==
    /\ Weight(r) > 0
    /\ gap + walk.shift + Weight(r) * Shortfall(r) >= g

\* Pooled line, Greedy: walk the pay order to the row that crosses the goal.
Pass(r) ==
    /\ phase = "cross" /\ FirstToPay(r)
    /\ \E g \in req.goal : ~Crosses(r, g)
    /\ todo' = todo \ {r}
    /\ walk' = [walk EXCEPT !.shift = @ + Weight(r) * Shortfall(r),
                            !.spent = @ + Shortfall(r)]
    /\ UNCHANGED <<inputs, phase, figures, best, peak, rule, cap,
                   payments, result>>

Cross(r) ==
    /\ phase = "cross" /\ FirstToPay(r)
    /\ \E g \in req.goal :
        /\ Crosses(r, g)
        /\ rule' = [rule EXCEPT !.least =
               [num |-> Lesser(walk.spent * Weight(r) + g - gap - walk.shift,
                               needC * Weight(r)),
                den |-> Weight(r)]]
    /\ phase' = "ruled"
    /\ UNCHANGED <<inputs, todo, figures, walk, best, peak, cap,
                   payments, result>>

SetCap ==
    /\ phase = "ruled"
    /\ \E c \in Caps \cup {Uncapped} : Effective(c) /\ cap' = c
    /\ phase' = "paying" /\ todo' = listed
    /\ UNCHANGED <<inputs, figures, walk, best, peak, rule,
                   payments, result>>

-----------------------------------------------------------------------------
(* Paying *)

\* Parts of a dollar in which payments are counted.
Unit == IF req.strategy = "Greedy" \/ AllNeed = 0 THEN cap.den
        ELSE cap.den * AllNeed

Due(r) == Shortfall(r) * Unit

\* Mutant: the money already spent is not taken off what is left.
Greedy_FullCap(r) == Lesser(Due(r), cap.num)

Greedy(r) ==
    IF cap.num - spend > 0 THEN Lesser(Due(r), cap.num - spend) ELSE 0

\* Mutant: the buffer of an uncapped run is paid out too.
Equitable_Unbounded(r) == Shortfall(r) * cap.num

\* coverage_ratio is the cap's share of the need, and at most 1.
Equitable(r) == Shortfall(r) * Lesser(cap.num, AllNeed * cap.den)

\* Mutant: a row the budget does not cover in full is skipped.
Payment_AllOrNothing(r) ==
    IF r \in eligible
    THEN IF req.strategy = "Greedy"
         THEN IF Due(r) <= cap.num - spend THEN Due(r) ELSE 0
         ELSE Equitable(r)
    ELSE 0

Payment(r) ==
    IF r \in eligible
    THEN IF req.strategy = "Greedy" THEN Greedy(r) ELSE Equitable(r)
    ELSE 0

\* Mutant: reference rows are counted among the unfunded.
Underpaid_AnyGroup(r) == r \in eligible /\ Payment(r) < Due(r)

Underpaid(r) == r \in Compared \cap eligible /\ Payment(r) < Due(r)

PayRow(r) ==
    /\ phase = "paying" /\ FirstToPay(r)
    /\ todo' = todo \ {r}
    /\ pay' = [pay EXCEPT ![r] = Payment(r)]
    /\ spend' = spend + Payment(r)
    /\ costC' = IF r \in Compared THEN costC + Payment(r) ELSE costC
    /\ costR' = IF r \in Reference THEN costR + Payment(r) ELSE costR
    /\ shift' = shift + Weight(r) * Payment(r)
    /\ unfunded' = IF Underpaid(r) THEN unfunded + 1 ELSE unfunded
    /\ UNCHANGED <<inputs, phase, figures, rules, result>>

Report ==
    /\ phase = "paying" /\ todo = {}
    /\ phase' = "done"
    /\ result' =
         [met |-> IF rule.kind = "NoTarget" THEN {}
                  ELSE {rule.kind # "Unreachable"},
          toGo |-> IF rule.kind = "Unreachable"
                   THEN {g - best : g \in req.goal} ELSE {},
          least |-> IF rule.kind = "Unreachable" /\ peak = {}
                    THEN {Whole(needC)} ELSE TargetCap,
          binding |-> Binding,
          unfunded |-> needC * Unit - Lesser(costC, needC * Unit),
          gap |-> gap * Unit + shift]
    /\ UNCHANGED <<inputs, todo, figures, rules, payments>>

Stop ==
    /\ phase \in {"done", "refused"}
    /\ UNCHANGED vars

Next ==
    \/ Refuse \/ FitFails \/ FitLine
    \/ TurnToReference \/ StartWalk \/ Decide \/ SetCap \/ Report \/ Stop
    \/ \E r \in Rows :
          \/ ReadCompared(r) \/ ReadReference(r)
          \/ WalkOn(r) \/ Pass(r) \/ Cross(r) \/ PayRow(r)

Spec == Init /\ [][Next]_vars

-----------------------------------------------------------------------------
(* Properties *)

Ruled == phase \in {"cross", "ruled", "paying", "done"}
Done == phase = "done"
\* What the strategy's own path pays row r, and the gap it reaches, when the
\* first b parts of a dollar (u to the dollar) are spent along it. Equitable
\* is counted in parts u * AllNeed, so Share scales the gap it reaches.
Shortfalls == [r \in Rows |-> Shortfall(r)]
NeedAhead(r) == SumFunctionOnSet(Shortfalls, {q \in eligible : Before(q, r)})
Within(x, hi) == IF x < 0 THEN 0 ELSE Lesser(x, hi)
Share == IF req.strategy = "Greedy" THEN 1 ELSE AllNeed
PathPay(r, b, u) ==
    IF req.strategy = "Greedy"
    THEN Within(b - NeedAhead(r) * u, Shortfall(r) * u)
    ELSE Shortfall(r) * b
Moved(b, u) == [r \in eligible |-> Weight(r) * PathPay(r, b, u)]
PathGap(b, u) == gap * u * Share + SumFunctionOnSet(Moved(b, u), eligible)

\* Types of the variables.
TypeOK ==
    /\ roster \in Roster /\ req \in Request
    /\ phase \in {"asked", "refused", "compared", "reference", "peak",
                  "cross", "ruled", "paying", "done"}
    /\ todo \subseteq Rows /\ eligible \subseteq Rows
    /\ listed \subseteq Rows
    /\ excluded \in Nat /\ needC \in Nat /\ needR \in Nat /\ gap \in Int
    /\ walk \in [shift : Int, spent : Nat, high : Nat, at : SUBSET Nat]
    /\ best \in Int /\ peak \subseteq Nat
    /\ rule \in [kind : {"NoTarget", "AlreadyMet", "Reachable",
                         "Unreachable"},
                 least : [num : Nat, den : Nat \ {0}]]
    /\ cap \in [num : Nat, den : Nat \ {0}]
    /\ pay \in [Rows -> Nat]
    /\ spend \in Nat /\ costC \in Nat /\ costR \in Nat
    /\ shift \in Int /\ unfunded \in Nat

\* Nobody is raised above the pay line, and nobody outside the eligible rows is
\* paid at all (optimize_inner's doc: "up to it, never above").
NeverAboveTheLine ==
    \A r \in Rows : pay[r] # 0 => r \in eligible /\ pay[r] <= Due(r)

\* The two groups' costs are the money spent, which is within the budget and
\* within the need (the float buffer of an uncapped run is never paid out).
\* Under Equitable the bound is on the sum of everyone's share.
SpendIsBounded ==
    /\ spend = costC + costR
    /\ spend <= cap.num * (Unit \div cap.den)
    /\ spend <= AllNeed * Unit

\* Greedy pays a row only when every larger shortfall, and every tie ahead of
\* it, is paid in full; Equitable pays everyone the same share.
PriorityKept ==
    Done => \A p, q \in eligible :
        IF req.strategy = "Greedy"
        THEN Before(p, q) /\ pay[q] > 0 => pay[p] = Due(p)
        ELSE pay[p] * Shortfall(q) = pay[q] * Shortfall(p)

\* best_reachable_gap is the highest gap of the whole path, peak_budget the
\* last budget that reaches it (the walk's vertices miss no higher point).
BestIsThePeak ==
    Ruled /\ ~req.adjustBoth =>
        LET Top == IF peak = {} THEN AllNeed ELSE CHOOSE b \in peak : TRUE IN
        /\ PathGap(Top, 1) = best * Share
        /\ \A b \in 0..AllNeed :
               /\ PathGap(b, 1) <= best * Share
               /\ b > Top => PathGap(b, 1) < best * Share

\* A reachable goal's budget is the least at which the path reaches it: on
\* it the gap is the goal, and at every smaller budget it is below.
LeastBudget ==
    Ruled /\ phase # "cross" /\ rule.kind = "Reachable" =>
        LET b == rule.least.num  u == rule.least.den IN
        \A g \in req.goal :
            /\ PathGap(b, u) = g * u * Share
            /\ \A c \in 0..(b - 1) : PathGap(c, u) < g * u * Share

\* When the user's budget does not bind, the gap after the schedule is what
\* the rule promised: the goal; the best reachable gap if the goal is out of
\* reach; the gap as it was, and nothing spent, if it was already met; and
\* without a goal everyone is paid in full, the float buffer included.
LandsWhereItSays ==
    Done /\ ~result.binding =>
        CASE rule.kind = "Reachable" ->
                 \A g \in req.goal : result.gap = g * Unit
          [] rule.kind = "Unreachable" -> result.gap = best * Unit
          [] rule.kind = "AlreadyMet" -> result.gap = gap * Unit /\ spend = 0
          [] rule.kind = "NoTarget" -> \A r \in eligible : pay[r] = Due(r)

\* budget_binding is reported exactly when the user's budget is spent to the
\* last dollar and leaves a shortfall, or the goal, short.
BindingIsShort ==
    Done => (result.binding <=>
        /\ req.budget > 0 /\ spend = req.budget * Unit
        /\ \E r \in eligible : pay[r] < Due(r)
        /\ rule.kind = "Reachable" =>
               \A g \in req.goal : result.gap < g * Unit
        /\ rule.kind = "Unreachable" => \A b \in peak : req.budget < b)

\* Everyone of the compared group who is still below the line is counted
\* once, as unfunded or as left out by the threshold, and the unfunded money
\* is what the eligible ones are still short of.
StillBelowIsCounted ==
    Done =>
        LET short == [r \in Rows |-> Due(r) - pay[r]]
            Still == {r \in Compared : Shortfall(r) > 0 /\ pay[r] < Due(r)} IN
        /\ Cardinality(Still) = unfunded + excluded
        /\ SumFunctionOnSet(short, Still \cap eligible) = result.unfunded

\* OptimizationRequest::min_gap_pct (types.rs:308): "Someone below the pay
\* line by less than this is left out". Nobody else is.
LeftOutIsSmall ==
    Done => \A r \in Compared \ eligible :
        Shortfall(r) > 0 => 100 * Shortfall(r) < req.minPct * roster.pay[r]
=============================================================================
