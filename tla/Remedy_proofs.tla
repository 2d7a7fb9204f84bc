---------------------------- MODULE Remedy_proofs ----------------------------
(***************************************************************************)
(* Theorems about Remedy and Frontier, for every group of rows, roster,    *)
(* request and axis.                                                       *)
(*                                                                         *)
(* First what each loop knows of the rows it has visited (IInv); then what *)
(* the sums over those rows come to, with the lemmas of Sums; then the     *)
(* path a strategy pays along, which the walk of the target rule, the pay  *)
(* loop and the frontier's queue are all compared with.                    *)
(***************************************************************************)
EXTENDS Frontier, Sums, TLAPS

InputsTyped ==
    roster \in Roster /\ req \in Request /\ \A g, h \in req.goal : g = h
FiguresTyped ==
    /\ listed \subseteq Rows /\ eligible \subseteq Rows /\ excluded \in Nat
    /\ needC \in Nat /\ needR \in Nat /\ gap \in Int
WalkTyped == walk \in [shift : Int, spent : Nat, high : Nat, at : SUBSET Nat]
Fraction == [num : Nat, den : Nat \ {0}]
RulesTyped ==
    /\ best \in Int /\ peak \subseteq Nat /\ cap \in Fraction
    /\ rule \in [kind : {"NoTarget", "AlreadyMet", "Reachable",
                         "Unreachable"}, least : Fraction]
PaymentsTyped ==
    /\ pay \in [Rows -> Nat] /\ spend \in Nat /\ costC \in Nat
    /\ costR \in Nat /\ shift \in Int /\ unfunded \in Nat
PhaseTyped ==
    /\ phase \in {"asked", "refused", "compared", "reference", "peak",
                  "cross", "ruled", "paying", "done"}
    /\ todo \subseteq Rows

\* What is known of the rows the classification read, and of a valid request.
Classified ==
    /\ eligible \subseteq listed
    /\ \A r \in eligible : Shortfall(r) > 0
Accepted == phase \notin {"asked", "refused"} => ~Invalid

\* The walks visit eligible rows only, and the crossing walk is still short.
Walking ==
    /\ phase \in {"peak", "cross"} => todo \subseteq eligible
    /\ phase = "cross" =>
          req.goal # {} /\ \A g \in req.goal : g > gap + walk.shift

\* Rows are paid in the pay order, and only rows the pay loop has visited.
Visited == listed \ todo
Paying == phase \in {"paying", "done"}
InOrder ==
    /\ ~Paying => spend = 0 /\ \A r \in Rows : pay[r] = 0
    /\ phase = "paying" => todo \subseteq listed
    /\ phase = "done" => todo = {}
    /\ Paying => /\ \A p \in Visited, q \in todo : Before(p, q)
                 /\ \A r \in Rows \ (Visited \cap eligible) : pay[r] = 0

\* Greedy: until the cap is spent, everyone visited is paid in full.
GreedyKept ==
    Paying /\ req.strategy = "Greedy" =>
        /\ spend <= cap.num
        /\ spend < cap.num => \A r \in Visited \cap eligible : pay[r] = Due(r)
        /\ \A r \in Visited \cap eligible : pay[r] <= Due(r)
        /\ \A p, q \in Visited \cap eligible :
               Before(p, q) /\ pay[q] > 0 => pay[p] = Due(p)
EquitableKept ==
    Paying /\ req.strategy # "Greedy" =>
        \A r \in Visited \cap eligible : pay[r] = Equitable(r)
CostsKept == spend = costC + costR

Typed == /\ InputsTyped /\ FiguresTyped /\ WalkTyped /\ RulesTyped
         /\ PaymentsTyped /\ PhaseTyped
IInv == /\ Typed /\ Classified /\ Accepted /\ Walking
        /\ InOrder /\ GreedyKept /\ EquitableKept /\ CostsKept

-----------------------------------------------------------------------------
(* Lemmas about the operators *)

\* A row's line, shortfall and weight are whole numbers.
LEMMA RowFacts ==
    ASSUME InputsTyped, NEW r \in Rows
    PROVE  /\ Line(r) \in Int /\ Shortfall(r) \in Int /\ Weight(r) \in Int
           /\ roster.pay[r] \in Int /\ roster.fair[r] \in Int
<1>1. /\ roster.pay[r] \in Int /\ roster.fair[r] \in Int
      /\ roster.width[r] \in Nat /\ roster.weight[r] \in Int
      /\ req.line \in {"Midpoint", "LowerBound", "UpperBound"}
  BY DEF InputsTyped, Roster, Request
<1>2. Line(r) \in Int
  BY <1>1 DEF Line
<1>3. Weight(r) \in Int
  BY <1>1 DEF Weight
<1> QED
  BY <1>1, <1>2, <1>3 DEF Shortfall

\* The pay order is asymmetric: no two rows are each ahead of the other.
LEMMA BeforeAsymmetric ==
    ASSUME InputsTyped, NEW p \in Rows, NEW q \in Rows, Before(p, q)
    PROVE  ~Before(q, p)
<1>1. Shortfall(p) \in Int /\ Shortfall(q) \in Int
  BY RowFacts
<1>2. /\ p \in Nat /\ q \in Nat
      /\ ~(p \in Compared /\ p \in Reference)
      /\ ~(q \in Compared /\ q \in Reference)
  BY Groups DEF Rows
<1> QED
  BY <1>1, <1>2 DEF Before, Rows

\* Multiplying by a shortfall keeps an order.
LEMMA MulBounds ==
    ASSUME NEW s \in Nat, NEW a \in Int, NEW b \in Int, a <= b
    PROVE  s * a \in Int /\ s * a <= s * b /\ (0 <= a => 0 <= s * a)
  OBVIOUS

\* A dollar has at least one part, and the cap's share of the need fits it.
LEMMA UnitFacts ==
    ASSUME FiguresTyped, RulesTyped
    PROVE  /\ cap.num \in Nat /\ cap.den \in Nat \ {0} /\ AllNeed \in Nat
           /\ Unit \in Nat \ {0}
           /\ req.strategy # "Greedy" => AllNeed * cap.den <= Unit
<1>1. cap.num \in Nat /\ cap.den \in Nat \ {0} /\ AllNeed \in Nat
  BY DEF FiguresTyped, RulesTyped, Fraction, AllNeed
<1>2. cap.den * AllNeed \in Nat /\ cap.den * AllNeed = AllNeed * cap.den
  BY <1>1
<1>3. AllNeed # 0 => cap.den * AllNeed # 0
  BY <1>1
<1> DEFINE n == AllNeed
<1>4. AllNeed = 0 => AllNeed * cap.den = 0
  BY <1>1
<1> QED
  BY <1>1, <1>2, <1>3, <1>4 DEF Unit

\* Both strategies' payments lie between nothing and the shortfall, and a
\* Greedy one within what is left of the cap.
LEMMA PaymentFacts ==
    ASSUME InputsTyped, FiguresTyped, RulesTyped, Classified,
           spend \in Nat, NEW r \in eligible
    PROVE  /\ Due(r) \in Nat /\ Equitable(r) \in Nat
           /\ req.strategy # "Greedy" => Equitable(r) <= Due(r)
           /\ Greedy(r) \in Nat /\ Greedy(r) <= Due(r)
           /\ spend <= cap.num => spend + Greedy(r) <= cap.num
           /\ spend + Greedy(r) < cap.num => Greedy(r) = Due(r)
<1>1. Shortfall(r) \in Nat
  BY RowFacts DEF Classified, FiguresTyped
<1>2. /\ cap.num \in Nat /\ cap.den \in Nat \ {0} /\ AllNeed \in Nat
      /\ Unit \in Nat \ {0}
      /\ req.strategy # "Greedy" => AllNeed * cap.den <= Unit
  BY UnitFacts
<1>3. Due(r) \in Nat
  BY <1>1, <1>2 DEF Due
<1> DEFINE c == AllNeed * cap.den
           m == Lesser(cap.num, c)
<1>4. c \in Nat
  BY <1>2
<1>5. m \in Nat /\ m <= c
  BY <1>2, <1>4 DEF Lesser
<1>6. Equitable(r) \in Nat
  BY <1>1, <1>5 DEF Equitable
<1>7. ASSUME req.strategy # "Greedy" PROVE Equitable(r) <= Due(r)
  <2>1. m <= Unit /\ m \in Int /\ Unit \in Int
    BY <1>2, <1>4, <1>5, <1>7
  <2>2. Shortfall(r) * m <= Shortfall(r) * Unit
    BY <2>1, <1>1, MulBounds
  <2> QED
    BY <2>2 DEF Equitable, Due
<1>8. /\ Greedy(r) \in Nat /\ Greedy(r) <= Due(r)
      /\ spend <= cap.num => spend + Greedy(r) <= cap.num
      /\ spend + Greedy(r) < cap.num => Greedy(r) = Due(r)
  BY <1>2, <1>3 DEF Greedy, Lesser
<1> QED
  BY <1>3, <1>6, <1>7, <1>8

\* The roster and the request never change, nor what is read off them.
LEMMA Frozen ==
    ASSUME UNCHANGED inputs
    PROVE  /\ roster' = roster /\ req' = req /\ Invalid' = Invalid
           /\ \A r : Shortfall(r)' = Shortfall(r)
           /\ \A r : Eligible(r)' = Eligible(r) /\ Weight(r)' = Weight(r)
           /\ Shortfalls' = Shortfalls
           /\ \A p, q : Before(p, q)' = Before(p, q)
<1>1. \A r : Shortfall(r)' = Shortfall(r)
  BY DEF inputs, Shortfall, Line
<1>2. \A r : LargeEnough(r)' = LargeEnough(r)
  BY <1>1 DEF inputs, LargeEnough
<1> QED
  BY <1>1, <1>2 DEF inputs, Invalid, Eligible, Weight, Before, Shortfalls

-----------------------------------------------------------------------------
(* Types *)

\* A call on inputs of the right kind, before its first line is run.
Begun == InputsTyped /\ Asked({<<{roster}, {req}>>})

\* A call on one of the cases is one.
LEMMA Opened == Init => Begun
<1> SUFFICES ASSUME Init PROVE Begun
  OBVIOUS
<1>1. PICK c \in Cases : roster \in c[1] /\ req \in c[2]
  BY DEF Init, Asked
<1>2. InputsTyped
  BY <1>1, CasesTyped, OneGoal DEF InputsTyped
<1> QED
  BY <1>2 DEF Begun, Init, Asked

\* The figures of a call just asked for are typed.
LEMMA TypedInit == Begun => Typed
<1> SUFFICES ASSUME Begun PROVE Typed
  OBVIOUS
<1>1. InputsTyped
  BY DEF Begun
<1>2. FiguresTyped /\ WalkTyped /\ RulesTyped /\ PaymentsTyped /\ PhaseTyped
  BY DEF Begun, Asked, FiguresTyped, WalkTyped, RulesTyped, Fraction, PaymentsTyped,
     PhaseTyped, NoWalk, NoRule, Whole
<1> QED
  BY <1>1, <1>2 DEF Typed

\* Which of the typed parts each action leaves alone.
LEMMA InputsNeverChange == [Next]_vars => UNCHANGED inputs
  BY DEF Next, vars, Refuse, FitFails, FitLine, TurnToReference, StartWalk,
     Decide, SetCap, Report, Stop, ReadCompared, ReadReference, WalkOn, Pass,
     Cross, PayRow

\* The classifying loops keep their figures typed.
LEMMA FiguresStep ==
    ASSUME Typed, [Next]_vars
    PROVE  FiguresTyped'
<1> USE DEF Typed
<1>1. ASSUME NEW r \in Rows, ReadCompared(r) PROVE FiguresTyped'
  <2>1. /\ Shortfall(r) \in Int /\ roster.pay[r] \in Int
        /\ roster.fair[r] \in Int
    BY RowFacts
  <2>2. Eligible(r) => Shortfall(r) > 0
    BY DEF Eligible
  <2> QED
    BY <1>1, <2>1, <2>2 DEF ReadCompared, List, FiguresTyped
<1>2. ASSUME NEW r \in Rows, ReadReference(r) PROVE FiguresTyped'
  <2>1. Shortfall(r) \in Int /\ (Eligible(r) => Shortfall(r) > 0)
    BY RowFacts DEF Eligible
  <2> QED
    BY <1>2, <2>1 DEF ReadReference, List, FiguresTyped
<1>3. ASSUME UNCHANGED figures PROVE FiguresTyped'
  BY <1>3 DEF figures, FiguresTyped
<1> QED
  BY <1>1, <1>2, <1>3 DEF Next, vars, Refuse, FitFails, FitLine,
     TurnToReference, StartWalk, Decide, SetCap, Report, Stop, WalkOn, Pass,
     Cross, PayRow

\* The walks along the pay order keep their sums typed.
LEMMA WalkStep ==
    ASSUME IInv, [Next]_vars
    PROVE  WalkTyped'
<1> USE DEF IInv, Typed
<1>1. CASE StartWalk
  BY <1>1 DEF StartWalk, WalkTyped, NoWalk
<1>2. ASSUME NEW r \in Rows, WalkOn(r) PROVE WalkTyped'
  <2>1. r \in eligible
    BY <1>2 DEF WalkOn, FirstToPay, Walking
  <2>2. Shortfall(r) \in Nat /\ Weight(r) \in Int
    BY <2>1, RowFacts DEF Classified
  <2>3. Weight(r) * Shortfall(r) \in Int
    BY <2>2
  <2> DEFINE s == walk.shift + Weight(r) * Shortfall(r)
             m == walk.spent + Shortfall(r)
  <2>4. s \in Int /\ m \in Nat
    BY <2>2, <2>3 DEF WalkTyped
  <2>5. walk' = [shift |-> s, spent |-> m,
                 high |-> IF s >= walk.high THEN s ELSE walk.high,
                 at |-> IF s >= walk.high
                        THEN (IF todo = {r} THEN {} ELSE {m}) ELSE walk.at]
    BY <1>2 DEF WalkOn, Climb
  <2>6. walk.high \in Nat /\ walk.at \in SUBSET Nat
    BY DEF WalkTyped
  <2> HIDE DEF s, m
  <2> QED
    BY <2>4, <2>5, <2>6 DEF WalkTyped
<1>3. CASE Decide
  <2>1. walk' = walk \/ walk' = NoWalk
    BY <1>3 DEF Decide
  <2> QED
    BY <2>1 DEF WalkTyped, NoWalk
<1>4. ASSUME NEW r \in Rows, Pass(r) PROVE WalkTyped'
  <2>1. r \in eligible
    BY <1>4 DEF Pass, FirstToPay, Walking
  <2>2. Shortfall(r) \in Nat /\ Weight(r) * Shortfall(r) \in Int
    BY <2>1, RowFacts DEF Classified
  <2> DEFINE s == walk.shift + Weight(r) * Shortfall(r)
             m == walk.spent + Shortfall(r)
  <2>3. s \in Int /\ m \in Nat
    BY <2>2 DEF WalkTyped
  <2>4. walk' = [walk EXCEPT !.shift = s, !.spent = m]
    BY <1>4 DEF Pass
  <2> HIDE DEF s, m
  <2> QED
    BY <2>3, <2>4 DEF WalkTyped
<1>5. ASSUME UNCHANGED walk PROVE WalkTyped'
  BY <1>5 DEF WalkTyped
<1> QED
  BY <1>1, <1>2, <1>3, <1>4, <1>5 DEF Next, vars, rules, Refuse, FitFails,
     FitLine, TurnToReference, SetCap, Report, Stop, ReadCompared,
     ReadReference, Cross, PayRow

\* A goal the rule calls reachable is above the gap, and on an unpooled or an
\* Equitable path no higher than the whole schedule takes it: the budget the
\* rule divides for has a positive denominator.
LEMMA ReachableFacts ==
    ASSUME InputsTyped, FiguresTyped, WalkTyped, ~Invalid,
           Kind = "Reachable", NEW g \in req.goal
    PROVE  /\ g \in Int /\ g > gap
           /\ req.strategy # "Greedy" => walk.shift >= g - gap
<1>1. req.goal \subseteq Int /\ gap \in Int /\ walk.shift \in Int
  BY DEF InputsTyped, Request, FiguresTyped, WalkTyped
<1>2. ~(g <= gap) /\ ~(g > gap + PeakShift)
  BY DEF Kind
<1>3. ~req.adjustBoth
  BY DEF Invalid
<1>4. req.strategy # "Greedy" =>
          PeakShift = IF walk.shift >= 0 THEN walk.shift ELSE 0
  BY <1>3 DEF PeakShift
<1> QED
  BY <1>1, <1>2, <1>4

\* The closed forms of a reachable budget give a fraction, not below nothing.
LEMMA LeastForTyped ==
    ASSUME InputsTyped, FiguresTyped, WalkTyped, ~Invalid,
           Kind = "Reachable", NEW g \in req.goal,
           ~(req.target = "Pooled" /\ req.strategy = "Greedy")
    PROVE  LeastFor(g) \in Fraction
<1>1. /\ g \in Int /\ g > gap /\ gap \in Int /\ needC \in Nat
      /\ walk.shift \in Int
      /\ req.strategy # "Greedy" => walk.shift >= g - gap
  BY ReachableFacts DEF FiguresTyped, WalkTyped
<1>2. CASE req.target = "Reference"
  <2>1. Lesser(g - gap, needC) \in Nat
    BY <1>1 DEF Lesser
  <2> QED
    BY <1>2, <2>1 DEF LeastFor, Whole, Fraction
<1>3. CASE req.target # "Reference"
  <2>1. req.target = "Pooled"
    BY <1>3 DEF InputsTyped, Request
  <2>2. walk.shift \in Nat \ {0}
    BY <1>1, <2>1
  <2>3. (g - gap) * needC \in Nat /\ needC * walk.shift \in Nat
    BY <1>1, <2>2
  <2>4. Lesser((g - gap) * needC, needC * walk.shift) \in Nat
    BY <2>3 DEF Lesser
  <2> QED
    BY <1>3, <2>2, <2>4 DEF LeastFor, Fraction
<1> QED
  BY <1>2, <1>3

\* The target rule and the cap made from it are typed.
LEMMA RulesStep ==
    ASSUME IInv, [Next]_vars
    PROVE  RulesTyped'
<1> USE DEF IInv, Typed
<1> DEFINE Kinds == {"NoTarget", "AlreadyMet", "Reachable", "Unreachable"}
<1>1. CASE Decide
  <2>1. ~Invalid
    BY <1>1 DEF Decide, Accepted
  <2>2. PeakShift \in Int /\ PeakBudget \subseteq Nat
    BY DEF PeakShift, PeakBudget, WalkTyped
  <2>3. best' \in Int /\ peak' \subseteq Nat /\ cap' \in Fraction
    BY <1>1, <2>2 DEF Decide, FiguresTyped, RulesTyped
  <2>4. Kind \in Kinds
    BY DEF Kind
  <2>5. rule.least \in Fraction /\ rule \in [kind : Kinds, least : Fraction]
    BY DEF RulesTyped
  <2>6. rule' \in [kind : Kinds, least : Fraction]
    <3>1. CASE rule' = [rule EXCEPT !.kind = Kind]
      <4> HIDE DEF Kinds
      <4> QED
        BY <3>1, <2>4, <2>5
    <3>2. ASSUME Kind = "Reachable",
                 ~(req.target = "Pooled" /\ req.strategy = "Greedy"),
                 NEW g \in req.goal,
                 rule' = [kind |-> Kind, least |-> LeastFor(g)]
          PROVE  rule' \in [kind : Kinds, least : Fraction]
      <4>1. LeastFor(g) \in Fraction
        BY <2>1, <3>2, LeastForTyped
      <4> HIDE DEF Kinds
      <4> QED
        BY <3>2, <2>4, <4>1
    <3> QED
      BY <1>1, <3>1, <3>2 DEF Decide
  <2> QED
    BY <2>3, <2>6 DEF RulesTyped
<1>2. ASSUME NEW r \in Rows, Cross(r) PROVE RulesTyped'
  <2>1. PICK g \in req.goal :
            /\ Crosses(r, g)
            /\ rule' = [rule EXCEPT !.least =
                   [num |-> Lesser(walk.spent * Weight(r) + g - gap
                                       - walk.shift, needC * Weight(r)),
                    den |-> Weight(r)]]
    BY <1>2 DEF Cross
  <2>2. g \in Int /\ g > gap + walk.shift
    BY <1>2 DEF Cross, Walking, InputsTyped, Request
  <2>3. Weight(r) \in Nat \ {0}
    BY <2>1, RowFacts DEF Crosses
  <2>4. /\ walk.spent * Weight(r) \in Nat /\ needC * Weight(r) \in Nat
        /\ walk.shift \in Int /\ gap \in Int
    BY <2>3 DEF WalkTyped, FiguresTyped
  <2>5. Lesser(walk.spent * Weight(r) + g - gap - walk.shift,
               needC * Weight(r)) \in Nat
    BY <2>2, <2>4 DEF Lesser
  <2> DEFINE f == [num |-> Lesser(walk.spent * Weight(r) + g - gap
                                      - walk.shift, needC * Weight(r)),
                   den |-> Weight(r)]
  <2>6. f \in Fraction
    BY <2>3, <2>5 DEF Fraction
  <2>7. rule' = [rule EXCEPT !.least = f]
    BY <2>1
  <2>8. best' = best /\ peak' = peak /\ cap' = cap
    BY <1>2 DEF Cross
  <2> HIDE DEF f
  <2> QED
    BY <2>6, <2>7, <2>8 DEF RulesTyped
<1>3. CASE SetCap
  <2>1. AllNeed \in Nat
    BY DEF AllNeed, FiguresTyped
  <2>2. Uncapped \in Fraction
    BY <2>1 DEF Uncapped, Fraction
  <2>3. UserCap \subseteq Fraction
    BY DEF UserCap, Whole, Fraction, InputsTyped, Request
  <2>4. TargetCap \subseteq Fraction
    BY DEF TargetCap, Whole, Fraction, RulesTyped
  <2>5. cap' \in Fraction
    BY <1>3, <2>2, <2>3, <2>4 DEF SetCap, Caps
  <2> QED
    BY <1>3, <2>5 DEF SetCap, RulesTyped
<1>4. ASSUME UNCHANGED <<best, peak, rule, cap>> PROVE RulesTyped'
  BY <1>4 DEF RulesTyped
<1> QED
  BY <1>1, <1>2, <1>3, <1>4 DEF Next, vars, rules, Refuse, FitFails, FitLine,
     TurnToReference, StartWalk, Report, Stop, ReadCompared, ReadReference,
     WalkOn, Pass, PayRow

\* A payment is never negative.
LEMMA PaymentTyped ==
    ASSUME IInv, NEW r \in Rows
    PROVE  Payment(r) \in Nat
  BY PaymentFacts DEF Payment, IInv, Typed, PaymentsTyped

\* The pay loop keeps its sums typed.
LEMMA PaymentsStep ==
    ASSUME IInv, [Next]_vars
    PROVE  PaymentsTyped'
<1> USE DEF IInv, Typed
<1>1. ASSUME NEW r \in Rows, PayRow(r) PROVE PaymentsTyped'
  <2>1. Payment(r) \in Nat /\ Weight(r) * Payment(r) \in Int
    BY PaymentTyped, RowFacts
  <2> QED
    BY <1>1, <2>1 DEF PayRow, PaymentsTyped
<1>2. ASSUME UNCHANGED payments PROVE PaymentsTyped'
  BY <1>2 DEF payments, PaymentsTyped
<1> QED
  BY <1>1, <1>2 DEF Next, vars, Refuse, FitFails, FitLine, TurnToReference,
     StartWalk, Decide, SetCap, Report, Stop, ReadCompared, ReadReference,
     WalkOn, Pass, Cross

\* The call moves from loop to loop, and each visits rows.
LEMMA PhaseStep ==
    ASSUME IInv, [Next]_vars
    PROVE  PhaseTyped'
  BY DEF IInv, Typed, PhaseTyped, FiguresTyped, Rows, Next, vars, Refuse,
     FitFails, FitLine, TurnToReference, StartWalk, Decide, SetCap, Report,
     Stop, ReadCompared, ReadReference, WalkOn, Pass, Cross, PayRow

\* Every step keeps every variable's type.
LEMMA TypedStep ==
    ASSUME IInv, [Next]_vars
    PROVE  Typed'
<1>1. InputsTyped'
  BY InputsNeverChange DEF IInv, Typed, InputsTyped, inputs
<1> QED
  BY <1>1, FiguresStep, WalkStep, RulesStep, PaymentsStep, PhaseStep
  DEF IInv, Typed

-----------------------------------------------------------------------------
(* What the loops know *)

\* Only rows short of the line are eligible, in requests that are accepted.
LEMMA ClassifiedStep ==
    ASSUME IInv, [Next]_vars
    PROVE  Classified' /\ Accepted'
<1> USE DEF IInv
<1>1. /\ Invalid' = Invalid
      /\ \A r : Shortfall(r)' = Shortfall(r)
  BY Frozen, InputsNeverChange
<1>2. Accepted'
  BY <1>1 DEF Accepted, Next, vars, Refuse, FitFails, FitLine,
     TurnToReference, StartWalk, Decide, SetCap, Report, Stop, ReadCompared,
     ReadReference, WalkOn, Pass, Cross, PayRow
<1>3. ASSUME NEW r \in Rows, List(r) PROVE Classified'
  <2>1. eligible' \subseteq listed'
    BY <1>3 DEF List, Classified
  <2>2. \A q \in eligible' : Shortfall(q) > 0
    BY <1>3 DEF List, Classified, Eligible
  <2> QED
    BY <1>1, <2>1, <2>2 DEF Classified
<1>4. ASSUME UNCHANGED figures PROVE Classified'
  BY <1>1, <1>4 DEF figures, Classified
<1> QED
  BY <1>2, <1>3, <1>4 DEF Next, vars, Refuse, FitFails, FitLine,
     TurnToReference, StartWalk, Decide, SetCap, Report, Stop, ReadCompared,
     ReadReference, WalkOn, Pass, Cross, PayRow

\* The walks visit eligible rows, and the crossing walk stays short of the
\* goal until it crosses.
LEMMA WalkingStep ==
    ASSUME IInv, [Next]_vars
    PROVE  Walking'
<1> USE DEF IInv, Typed
<1>1. roster' = roster /\ req' = req
  BY Frozen, InputsNeverChange
<1>2. CASE Decide
  <2>1. ASSUME phase' = "cross" PROVE Walking'
    <3>1. /\ Kind = "Reachable" /\ todo' = eligible /\ walk' = NoWalk
          /\ req.goal # {} /\ eligible' = eligible /\ gap' = gap
      BY <1>2, <2>1 DEF Decide, figures, Kind
    <3>2. \A g \in req.goal : g > gap /\ gap \in Int
      BY <1>2, <3>1, ReachableFacts DEF Decide, Accepted, FiguresTyped
    <3> QED
      BY <1>1, <3>1, <3>2 DEF Walking, NoWalk
  <2> QED
    BY <1>2, <2>1 DEF Decide, Walking
<1>3. ASSUME NEW r \in Rows, Pass(r) PROVE Walking'
  <2>1. /\ r \in eligible /\ phase = "cross" /\ todo' = todo \ {r}
        /\ eligible' = eligible /\ gap' = gap
        /\ walk'.shift = walk.shift + Weight(r) * Shortfall(r)
    BY <1>3 DEF Pass, FirstToPay, Walking, figures, WalkTyped
  <2>2. /\ Weight(r) \in Int /\ Shortfall(r) \in Nat /\ gap \in Int
        /\ walk.shift \in Int /\ Shortfall(r) > 0
    BY <2>1, RowFacts DEF Classified, FiguresTyped, WalkTyped
  <2>3. PICK g \in req.goal : ~Crosses(r, g)
    BY <1>3 DEF Pass
  <2>4. g \in Int /\ (Weight(r) <= 0 => Weight(r) * Shortfall(r) <= 0)
    BY <2>2 DEF InputsTyped, Request
  <2>5. Weight(r) * Shortfall(r) \in Int
    BY <2>2
  <2>6. g > gap + walk.shift
    BY <2>1 DEF Walking
  <2>7. g > gap + walk'.shift
    BY <2>1, <2>2, <2>3, <2>4, <2>5, <2>6 DEF Crosses
  <2> QED
    BY <1>1, <1>3, <2>1, <2>7 DEF Walking, Pass, InputsTyped
<1>4. CASE StartWalk
  BY <1>4 DEF StartWalk, Walking, figures
<1>5. ASSUME NEW r \in Rows, WalkOn(r) PROVE Walking'
  BY <1>5 DEF WalkOn, Walking, figures
<1>6. ASSUME phase' \notin {"peak", "cross"} PROVE Walking'
  BY <1>6 DEF Walking
<1>7. CASE UNCHANGED vars
  BY <1>7 DEF vars, inputs, figures, rules, Walking
<1> QED
  BY <1>2, <1>3, <1>4, <1>5, <1>6, <1>7 DEF Next, Refuse, FitFails,
     FitLine, TurnToReference, SetCap, Report, Stop, ReadCompared,
     ReadReference, Cross, PayRow, Walking

-----------------------------------------------------------------------------
(* Paying *)

\* What a payment is figured from does not change while the rows are paid.
LEMMA TermsFrozen ==
    ASSUME UNCHANGED <<inputs, figures, rules>>
    PROVE  /\ req' = req /\ cap' = cap
           /\ listed' = listed /\ eligible' = eligible
           /\ \A r : Due(r)' = Due(r) /\ Equitable(r)' = Equitable(r)
           /\ \A p, q : Before(p, q)' = Before(p, q)
  BY DEF inputs, figures, rules, Due, Equitable, Unit, AllNeed, Shortfall,
     Line, Before

\* The row that comes first is ahead of all others still to visit, and every
\* row already visited is ahead of it.
LEMMA NextInLine ==
    ASSUME Typed, InOrder, NEW r \in Rows, PayRow(r)
    PROVE  /\ r \in todo /\ r \in listed /\ r \notin Visited
           /\ listed \ (todo \ {r}) = Visited \cup {r}
           /\ \A q \in todo \ {r} : Before(r, q)
           /\ \A p \in Visited : Before(p, r) /\ ~Before(r, p)
<1>1. r \in todo /\ \A q \in todo \ {r} : Before(r, q)
  BY DEF PayRow, FirstToPay
<1>2. todo \subseteq listed /\ listed \subseteq Rows
  BY DEF PayRow, InOrder, Typed, FiguresTyped
<1>3. \A p \in Visited : Before(p, r)
  BY <1>1 DEF PayRow, InOrder, Paying
<1>4. \A p \in Visited : ~Before(r, p)
  BY <1>2, <1>3, BeforeAsymmetric DEF Typed, Visited
<1> QED
  BY <1>1, <1>2, <1>3, <1>4 DEF Visited

\* A row is ahead of none equal to itself.
LEMMA BeforeIrreflexive ==
    ASSUME InputsTyped, NEW r \in Rows
    PROVE  ~Before(r, r)
  BY BeforeAsymmetric

\* Paying a row leaves those visited ahead of those to come.
LEMMA OrderAfterPaying ==
    ASSUME IInv, NEW r \in Rows, PayRow(r)
    PROVE  InOrder'
<1> USE DEF IInv
<1>1. /\ req' = req /\ eligible' = eligible /\ listed' = listed
      /\ \A p, q : Before(p, q)' = Before(p, q)
  BY TermsFrozen DEF PayRow
<1>2. /\ r \in todo /\ r \in listed /\ r \notin Visited
      /\ listed \ (todo \ {r}) = Visited \cup {r}
      /\ \A q \in todo \ {r} : Before(r, q)
  BY NextInLine
<1>3. /\ phase = "paying" /\ phase' = "paying" /\ todo' = todo \ {r}
      /\ pay' = [pay EXCEPT ![r] = Payment(r)] /\ pay \in [Rows -> Nat]
  BY DEF PayRow, Typed, PaymentsTyped
<1>4. Visited' = Visited \cup {r}
  BY <1>1, <1>2, <1>3 DEF Visited
<1>5. \A p \in Visited', q \in todo' : Before(p, q)'
  BY <1>1, <1>2, <1>3, <1>4 DEF InOrder, Paying
<1>6. r \notin eligible => Payment(r) = 0
  BY DEF Payment
<1>7. \A q \in Rows \ (Visited' \cap eligible') : pay'[q] = 0
  BY <1>1, <1>2, <1>3, <1>4, <1>6 DEF InOrder, Paying
<1>8. todo' \subseteq listed'
  BY <1>1, <1>3 DEF InOrder
<1> QED
  BY <1>3, <1>5, <1>7, <1>8 DEF InOrder, Paying

\* Paying a row in Greedy's turn: until the cap is spent all are paid in full.
LEMMA GreedyAfterPaying ==
    ASSUME IInv, NEW r \in Rows, PayRow(r)
    PROVE  GreedyKept'
<1> USE DEF IInv
<1> SUFFICES ASSUME req.strategy = "Greedy" PROVE GreedyKept'
  BY TermsFrozen DEF GreedyKept, PayRow
<1>1. /\ req' = req /\ cap' = cap /\ eligible' = eligible /\ listed' = listed
      /\ \A q : Due(q)' = Due(q)
      /\ \A p, q : Before(p, q)' = Before(p, q)
  BY TermsFrozen DEF PayRow
<1>2. /\ r \notin Visited /\ Visited \subseteq Rows
      /\ listed \ (todo \ {r}) = Visited \cup {r}
      /\ \A p \in Visited : Before(p, r) /\ ~Before(r, p)
  BY NextInLine DEF Visited, Typed, FiguresTyped
<1>3. /\ phase = "paying" /\ phase' = "paying"
      /\ pay' = [pay EXCEPT ![r] = Payment(r)] /\ pay \in [Rows -> Nat]
      /\ spend' = spend + Payment(r) /\ spend \in Nat /\ Payment(r) \in Nat
      /\ cap.num \in Nat
  BY PaymentTyped DEF PayRow, Typed, PaymentsTyped, RulesTyped, Fraction
<1>4. Visited' = Visited \cup {r}
  BY <1>1, <1>2 DEF Visited, PayRow
<1>5. /\ spend <= cap.num
      /\ spend < cap.num => \A q \in Visited \cap eligible : pay[q] = Due(q)
      /\ \A q \in Visited \cap eligible : pay[q] <= Due(q)
      /\ \A p, q \in Visited \cap eligible :
             Before(p, q) /\ pay[q] > 0 => pay[p] = Due(p)
  BY <1>3 DEF GreedyKept, Paying
<1>6. /\ pay'[r] = Payment(r)
      /\ \A q \in Visited : pay'[q] = pay[q]
  BY <1>2, <1>3
<1>7. CASE r \notin eligible
  <2>1. Payment(r) = 0 /\ Visited' \cap eligible' = Visited \cap eligible
    BY <1>1, <1>4, <1>7 DEF Payment
  <2> QED
    BY <1>1, <1>3, <1>5, <1>6, <2>1 DEF GreedyKept
<1>8. CASE r \in eligible
  <2>1. /\ Payment(r) = Greedy(r) /\ Due(r) \in Nat /\ Greedy(r) \in Nat
        /\ Greedy(r) <= Due(r) /\ spend + Greedy(r) <= cap.num
        /\ spend + Greedy(r) < cap.num => Greedy(r) = Due(r)
    BY <1>5, <1>8, PaymentFacts DEF Payment, Typed, PaymentsTyped
  <2>2. spend' <= cap'.num
    BY <1>1, <1>3, <2>1
  <2>3. \A q \in Visited' \cap eligible' : pay'[q] <= Due(q)'
    BY <1>1, <1>4, <1>5, <1>6, <2>1
  <2>4. spend' < cap'.num =>
            \A q \in Visited' \cap eligible' : pay'[q] = Due(q)'
    BY <1>1, <1>3, <1>4, <1>5, <1>6, <2>1
  \* A payment above zero means the cap was not spent when r was reached.
  <2>5. Greedy(r) > 0 => spend < cap.num
    BY <1>3, <2>1
  <2>6. ASSUME NEW p \in Visited' \cap eligible',
               NEW q \in Visited' \cap eligible', Before(p, q)', pay'[q] > 0
        PROVE  pay'[p] = Due(p)'
    <3>1. Before(p, q) /\ ~Before(r, r)
      BY <1>1, <2>6, BeforeIrreflexive DEF Typed
    <3>2. CASE q = r
      <4>1. p \in Visited \cap eligible
        BY <1>1, <1>4, <3>1, <3>2
      <4> QED
        BY <1>1, <1>5, <1>6, <2>1, <2>5, <2>6, <3>2, <4>1
    <3>3. CASE q # r
      <4>1. q \in Visited \cap eligible /\ p # r
        BY <1>1, <1>2, <1>4, <3>1, <3>3
      <4>2. p \in Visited \cap eligible
        BY <1>1, <1>4, <4>1
      <4> QED
        BY <1>1, <1>5, <1>6, <2>6, <3>1, <4>1, <4>2
    <3> QED
      BY <3>2, <3>3
  <2> QED
    BY <2>2, <2>3, <2>4, <2>6 DEF GreedyKept
<1> QED
  BY <1>7, <1>8

\* Paying a row its share, and adding its cost to its group's.
LEMMA EquitableAfterPaying ==
    ASSUME IInv, NEW r \in Rows, PayRow(r)
    PROVE  EquitableKept' /\ CostsKept'
<1> USE DEF IInv
<1>1. /\ req' = req /\ eligible' = eligible /\ listed' = listed
      /\ \A q : Equitable(q)' = Equitable(q)
  BY TermsFrozen DEF PayRow
<1>2. /\ r \notin Visited /\ Visited \subseteq Rows
      /\ listed \ (todo \ {r}) = Visited \cup {r}
  BY NextInLine DEF Visited, Typed, FiguresTyped
<1>3. /\ phase = "paying" /\ pay' = [pay EXCEPT ![r] = Payment(r)]
      /\ pay \in [Rows -> Nat]
  BY DEF PayRow, Typed, PaymentsTyped
<1>4. Visited' = Visited \cup {r}
  BY <1>1, <1>2 DEF Visited, PayRow
<1>5. EquitableKept'
  BY <1>1, <1>2, <1>3, <1>4 DEF EquitableKept, Paying, Payment
<1>6. /\ Payment(r) \in Nat /\ spend \in Nat /\ costC \in Nat /\ costR \in Nat
      /\ (r \in Compared /\ r \notin Reference)
         \/ (r \notin Compared /\ r \in Reference)
  BY PaymentTyped, Groups DEF Typed, PaymentsTyped, Rows
<1>7. CostsKept'
  BY <1>6 DEF CostsKept, PayRow
<1> QED
  BY <1>5, <1>7

\* Every step keeps what the pay loop knows.
LEMMA PayingStep ==
    ASSUME IInv, [Next]_vars
    PROVE  InOrder' /\ GreedyKept' /\ EquitableKept' /\ CostsKept'
<1> USE DEF IInv
<1>1. ASSUME ~Paying, ~Paying', UNCHANGED payments
      PROVE  InOrder' /\ GreedyKept' /\ EquitableKept' /\ CostsKept'
  BY <1>1 DEF payments, InOrder, GreedyKept, EquitableKept, CostsKept, Paying
<1>2. ASSUME SetCap
      PROVE  InOrder' /\ GreedyKept' /\ EquitableKept' /\ CostsKept'
  <2>1. /\ phase' = "paying" /\ todo' = listed /\ listed' = listed
        /\ Visited' = {} /\ ~Paying /\ UNCHANGED payments
    BY <1>2 DEF SetCap, Visited, figures, Paying
  <2>2. spend' = 0 /\ \A r \in Rows : pay'[r] = 0
    BY <2>1 DEF InOrder, payments
  <2>3. cap'.num \in Nat
    BY RulesStep DEF RulesTyped, Fraction
  <2> QED
    BY <2>1, <2>2, <2>3
    DEF InOrder, GreedyKept, EquitableKept, CostsKept, Paying, payments
<1>3. ASSUME UNCHANGED <<inputs, todo, figures, rules, payments>>,
             \/ phase' = phase
             \/ phase = "paying" /\ todo = {} /\ phase' = "done"
      PROVE  InOrder' /\ GreedyKept' /\ EquitableKept' /\ CostsKept'
  <2>1. /\ req' = req /\ cap' = cap /\ listed' = listed
        /\ eligible' = eligible /\ Visited' = Visited /\ todo' = todo
        /\ (Paying' <=> Paying)
        /\ \A r : Due(r)' = Due(r) /\ Equitable(r)' = Equitable(r)
        /\ \A p, q : Before(p, q)' = Before(p, q)
    BY <1>3, TermsFrozen DEF Visited, Paying
  <2>2. pay' = pay /\ spend' = spend /\ costC' = costC /\ costR' = costR
    BY <1>3 DEF payments
  <2>3. InOrder'
    BY <1>3, <2>1, <2>2 DEF InOrder
  <2>4. GreedyKept' /\ EquitableKept' /\ CostsKept'
    BY <2>1, <2>2 DEF GreedyKept, EquitableKept, CostsKept
  <2> QED
    BY <2>3, <2>4
<1>4. ASSUME NEW r \in Rows, PayRow(r)
      PROVE  InOrder' /\ GreedyKept' /\ EquitableKept' /\ CostsKept'
  BY <1>4, OrderAfterPaying, GreedyAfterPaying, EquitableAfterPaying
<1>5. CASE Report
  BY <1>3, <1>5 DEF Report
<1>6. CASE Stop \/ UNCHANGED vars
  BY <1>3, <1>6 DEF Stop, vars
<1>7. \/ Refuse \/ FitFails \/ FitLine \/ TurnToReference \/ StartWalk
      \/ Decide
      \/ \E r \in Rows : \/ ReadCompared(r) \/ ReadReference(r)
                         \/ WalkOn(r) \/ Pass(r) \/ Cross(r)
      => ~Paying /\ ~Paying' /\ UNCHANGED payments
  BY DEF Paying, Refuse, FitFails, FitLine, TurnToReference, StartWalk,
     Decide, ReadCompared, ReadReference, WalkOn, Pass, Cross
<1> QED
  BY <1>1, <1>2, <1>4, <1>5, <1>6, <1>7 DEF Next

-----------------------------------------------------------------------------
(* Theorems *)

\* The invariant holds of a call just asked for.
LEMMA Established == Begun => IInv
<1> SUFFICES ASSUME Begun PROVE IInv
  OBVIOUS
<1>1. Typed
  BY TypedInit
<1>2. /\ phase = "asked" /\ listed = {} /\ eligible = {} /\ todo = {}
      /\ pay = [r \in Rows |-> 0] /\ spend = 0 /\ costC = 0 /\ costR = 0
  BY DEF Begun, Asked
<1> QED
  BY <1>1, <1>2 DEF IInv, Classified, Accepted, Walking, InOrder,
     GreedyKept, EquitableKept, CostsKept, Paying

\* The invariant is inductive.
LEMMA Preserved == IInv /\ [Next]_vars => IInv'
<1> SUFFICES ASSUME IInv, [Next]_vars PROVE IInv'
  OBVIOUS
<1>1. Typed' /\ Classified' /\ Accepted' /\ Walking'
  BY TypedStep, ClassifiedStep, WalkingStep
<1>2. InOrder' /\ GreedyKept' /\ EquitableKept' /\ CostsKept'
  BY PayingStep
<1> QED
  BY <1>1, <1>2 DEF IInv

\* The inductive invariant holds in every reachable state.
THEOREM Invariance == Spec => []IInv
  BY Opened, Established, Preserved, PTL DEF Spec

\* An invariant call keeps every variable typed.
LEMMA TypedOnPath == IInv => TypeOK
  BY DEF IInv, Typed, TypeOK, InputsTyped, FiguresTyped, WalkTyped,
     RulesTyped, Fraction, PaymentsTyped, PhaseTyped

\* Every variable keeps its type, whatever the groups, rosters and requests.
THEOREM TypeCorrect == Spec => []TypeOK
  BY TypedOnPath, Invariance, PTL

\* What each strategy pays is at most the shortfall.
LEMMA KeepsToTheLine == IInv => NeverAboveTheLine
<1> SUFFICES ASSUME IInv, NEW r \in Rows, pay[r] # 0
             PROVE  r \in eligible /\ pay[r] <= Due(r)
  BY DEF NeverAboveTheLine
<1> USE DEF IInv, Typed
<1>1. Paying /\ r \in Visited \cap eligible
  BY DEF InOrder
<1>2. CASE req.strategy = "Greedy"
  BY <1>1, <1>2 DEF GreedyKept
<1>3. CASE req.strategy # "Greedy"
  <2>1. pay[r] = Equitable(r)
    BY <1>1, <1>3 DEF EquitableKept
  <2> QED
    BY <1>1, <1>3, <2>1, PaymentFacts DEF PaymentsTyped
<1> QED
  BY <1>1, <1>2, <1>3

\* Nobody is raised above the pay line, and nobody outside the eligible rows
\* is paid (the schedule of optimize_inner).
THEOREM AboveTheLineNever == Spec => []NeverAboveTheLine
  BY KeepsToTheLine, Invariance, PTL

\* Nobody is paid out of turn, or another share than the others.
LEMMA PriorityOnPath == IInv => PriorityKept
<1> SUFFICES ASSUME IInv, Done, NEW p \in eligible, NEW q \in eligible
             PROVE  IF req.strategy = "Greedy"
                    THEN Before(p, q) /\ pay[q] > 0 => pay[p] = Due(p)
                    ELSE pay[p] * Shortfall(q) = pay[q] * Shortfall(p)
  BY DEF PriorityKept
<1> USE DEF IInv, Typed
<1>1. Paying /\ p \in Visited \cap eligible /\ q \in Visited \cap eligible
  BY DEF Done, Paying, InOrder, Visited, Classified
<1>2. CASE req.strategy = "Greedy"
  BY <1>1, <1>2 DEF GreedyKept
<1>3. CASE req.strategy # "Greedy"
  <2> DEFINE m == Lesser(cap.num, AllNeed * cap.den)
  <2>1. pay[p] = Shortfall(p) * m /\ pay[q] = Shortfall(q) * m
    BY <1>1, <1>3 DEF EquitableKept, Equitable
  <2>2. Shortfall(p) \in Int /\ Shortfall(q) \in Int
    BY RowFacts DEF FiguresTyped
  <2>3. cap.num \in Nat /\ AllNeed * cap.den \in Nat
    BY UnitFacts
  <2>4. m \in Int
    BY <2>3 DEF Lesser
  <2> HIDE DEF m
  <2>5. (Shortfall(p) * m) * Shortfall(q) = (Shortfall(q) * m) * Shortfall(p)
    BY <2>2, <2>4
  <2> QED
    BY <1>3, <2>1, <2>5
<1> QED
  BY <1>2, <1>3

\* Greedy money reaches a row only when everyone ahead of it in the pay order
\* is paid in full, and Equitable money is the same share for everyone.
THEOREM PriorityHolds == Spec => []PriorityKept
  BY PriorityOnPath, Invariance, PTL

-----------------------------------------------------------------------------
(* What the classification adds up *)

\* The compared rows still to be read.
Unread ==
    IF phase \in {"asked", "refused"} THEN Compared
    ELSE IF phase = "compared" THEN todo ELSE {}
LeftOut == {r \in Compared \ Unread : Shortfall(r) > 0 /\ ~Eligible(r)}

\* The figures are about the rows read so far, each counted once.
ReadKept ==
    /\ phase = "compared" => todo \subseteq Compared /\ listed \subseteq Compared
    /\ phase = "reference" => todo \subseteq Reference
    /\ phase \in {"asked", "refused"} => listed = {}
    /\ phase \in {"compared", "reference"} => todo \cap listed = {}
    /\ \A r \in eligible : Eligible(r)
    /\ eligible \cap Compared = {r \in Compared \ Unread : Eligible(r)}
    /\ needC = SumFunctionOnSet(Shortfalls, eligible \cap Compared)
    /\ needR = SumFunctionOnSet(Shortfalls, eligible \cap Reference)
    /\ excluded = Cardinality(LeftOut)

\* Any set of rows is finite and its shortfalls are whole numbers.
LEMMA SetsOfRows ==
    ASSUME InputsTyped, NEW S, S \subseteq Rows
    PROVE  /\ IsFiniteSet(S)
           /\ \A r \in S : Shortfalls[r] = Shortfall(r) /\ Shortfalls[r] \in Int
           /\ SumFunctionOnSet(Shortfalls, S) \in Int
<1>1. IsFiniteSet(S)
  BY Groups, FS_Subset
<1>2. \A r \in S : Shortfalls[r] = Shortfall(r) /\ Shortfalls[r] \in Int
  BY RowFacts DEF Shortfalls
<1> QED
  BY <1>1, <1>2, SumInt

\* Nothing has been read of a call just asked for.
LEMMA ReadInit == Begun => ReadKept
<1> SUFFICES ASSUME Begun PROVE ReadKept
  OBVIOUS
<1>1. /\ phase = "asked" /\ todo = {} /\ listed = {} /\ eligible = {}
      /\ needC = 0 /\ needR = 0 /\ excluded = 0
  BY DEF Begun, Asked
<1>2. LeftOut = {} /\ Unread = Compared
  BY <1>1 DEF LeftOut, Unread
<1>3. eligible \cap Compared = {} /\ eligible \cap Reference = {}
  BY <1>1
<1>4. /\ needC = SumFunctionOnSet(Shortfalls, eligible \cap Compared)
      /\ needR = SumFunctionOnSet(Shortfalls, eligible \cap Reference)
  BY <1>1, <1>3, SumEmpty
<1>5. excluded = Cardinality(LeftOut)
  BY <1>1, <1>2, FS_EmptySet
<1> QED
  BY <1>1, <1>2, <1>4, <1>5 DEF ReadKept

\* A compared row read is counted as eligible, as left out, or not at all.
LEMMA ReadComparedKeeps ==
    ASSUME IInv, ReadKept, NEW r \in Rows, ReadCompared(r)
    PROVE  ReadKept'
<1> USE DEF IInv, Typed
<1>1. /\ \A q : Shortfall(q)' = Shortfall(q) /\ Eligible(q)' = Eligible(q)
      /\ Shortfalls' = Shortfalls
  BY Frozen DEF ReadCompared
<1>2. /\ phase = "compared" /\ phase' = "compared" /\ todo' = todo \ {r}
      /\ r \in todo /\ r \in Compared /\ r \notin listed /\ r \notin eligible
      /\ todo \subseteq Compared /\ listed \subseteq Compared
      /\ needR' = needR /\ r \notin Reference
  BY Groups DEF ReadCompared, FirstRow, ReadKept, Classified
<1>3. Unread' = Unread \ {r} /\ Unread = todo
  BY <1>2 DEF Unread
<1>4. /\ eligible' = IF Eligible(r) THEN eligible \cup {r} ELSE eligible
      /\ listed' = listed \/ listed' = listed \cup {r}
  BY DEF ReadCompared, List
<1>5. /\ \A q \in eligible' : Eligible(q)'
      /\ eligible' \cap Compared = {q \in Compared \ Unread' : Eligible(q)'}
  BY <1>1, <1>2, <1>3, <1>4 DEF ReadKept
<1>6. /\ todo' \subseteq Compared /\ listed' \subseteq Compared
      /\ todo' \cap listed' = {}
  BY <1>2, <1>4 DEF ReadKept
<1>7. needC' = SumFunctionOnSet(Shortfalls, eligible' \cap Compared)
  <2>1. /\ IsFiniteSet(eligible \cap Compared) /\ Shortfalls[r] = Shortfall(r)
        /\ \A q \in eligible \cap Compared : Shortfalls[q] \in Int
        /\ Shortfalls[r] \in Int /\ r \notin eligible \cap Compared
    BY <1>2, SetsOfRows, RowFacts DEF FiguresTyped, Shortfalls, Rows
  <2>2. CASE Eligible(r)
    <3>1. eligible' \cap Compared = (eligible \cap Compared) \cup {r}
      BY <1>2, <1>4, <2>2
    <3>2. needC' = needC + Shortfall(r)
      BY <2>2 DEF ReadCompared
    <3> QED  BY <2>1, <3>1, <3>2, SumAdd DEF ReadKept
  <2>3. CASE ~Eligible(r)
    BY <1>4, <2>3 DEF ReadCompared, ReadKept
  <2> QED  BY <2>2, <2>3
<1>8. eligible' \cap Reference = eligible \cap Reference
  BY <1>2, <1>4
<1>9. excluded' = Cardinality(LeftOut')
  <2>1. IsFiniteSet(LeftOut) /\ r \notin LeftOut
    BY <1>2, <1>3, SetsOfRows DEF LeftOut, Rows
  <2>2. CASE Shortfall(r) > 0 /\ ~Eligible(r)
    <3>1. LeftOut' = LeftOut \cup {r}
      BY <1>1, <1>2, <1>3, <2>2 DEF LeftOut
    <3>2. excluded' = excluded + 1
      BY <2>2 DEF ReadCompared
    <3> QED  BY <2>1, <3>1, <3>2, FS_AddElement DEF ReadKept
  <2>3. CASE ~(Shortfall(r) > 0 /\ ~Eligible(r))
    <3>1. LeftOut' = LeftOut
      BY <1>1, <1>2, <1>3, <2>3 DEF LeftOut
    <3>2. excluded' = excluded
      BY <2>3 DEF ReadCompared
    <3> QED  BY <3>1, <3>2 DEF ReadKept
  <2> QED  BY <2>2, <2>3
<1> QED
  BY <1>1, <1>2, <1>5, <1>6, <1>7, <1>8, <1>9 DEF ReadKept

\* A reference row read is counted in its own group's need.
LEMMA ReadReferenceKeeps ==
    ASSUME IInv, ReadKept, NEW r \in Rows, ReadReference(r)
    PROVE  ReadKept'
<1> USE DEF IInv, Typed
<1>1. /\ \A q : Shortfall(q)' = Shortfall(q) /\ Eligible(q)' = Eligible(q)
      /\ Shortfalls' = Shortfalls
  BY Frozen DEF ReadReference
<1>2. /\ phase = "reference" /\ phase' = "reference" /\ todo' = todo \ {r}
      /\ r \in todo /\ r \in Reference /\ r \notin listed /\ r \notin eligible
      /\ todo \subseteq Reference
      /\ needC' = needC /\ excluded' = excluded /\ r \notin Compared
  BY Groups DEF ReadReference, FirstRow, ReadKept, Classified
<1>3. Unread' = {} /\ Unread = {}
  BY <1>2 DEF Unread
<1>4. /\ eligible' = IF Eligible(r) THEN eligible \cup {r} ELSE eligible
      /\ listed' = listed \/ listed' = listed \cup {r}
  BY DEF ReadReference, List
<1>5. /\ \A q \in eligible' : Eligible(q)'
      /\ eligible' \cap Compared = eligible \cap Compared
      /\ eligible' \cap Compared = {q \in Compared \ Unread' : Eligible(q)'}
  BY <1>1, <1>2, <1>3, <1>4 DEF ReadKept
<1>6. todo' \subseteq Reference /\ todo' \cap listed' = {}
  BY <1>2, <1>4 DEF ReadKept
<1>7. needR' = SumFunctionOnSet(Shortfalls, eligible' \cap Reference)
  <2>1. /\ IsFiniteSet(eligible \cap Reference) /\ Shortfalls[r] = Shortfall(r)
        /\ \A q \in eligible \cap Reference : Shortfalls[q] \in Int
        /\ Shortfalls[r] \in Int /\ r \notin eligible \cap Reference
    BY <1>2, SetsOfRows, RowFacts DEF FiguresTyped, Shortfalls, Rows
  <2>2. CASE Eligible(r)
    <3>1. eligible' \cap Reference = (eligible \cap Reference) \cup {r}
      BY <1>2, <1>4, <2>2
    <3>2. /\ needR' = needR + Shortfall(r)
          /\ needR = SumFunctionOnSet(Shortfalls, eligible \cap Reference)
      BY <2>2 DEF ReadReference, ReadKept
    <3>3. SumFunctionOnSet(Shortfalls, (eligible \cap Reference) \cup {r})
            = SumFunctionOnSet(Shortfalls, eligible \cap Reference)
                + Shortfalls[r]
      BY <2>1, SumAdd
    <3> QED  BY <2>1, <3>1, <3>2, <3>3
  <2>3. CASE ~Eligible(r)
    BY <1>4, <2>3 DEF ReadReference, ReadKept
  <2> QED  BY <2>2, <2>3
<1>8. LeftOut' = LeftOut
  BY <1>1, <1>3 DEF LeftOut
<1> QED
  BY <1>1, <1>2, <1>5, <1>6, <1>7, <1>8 DEF ReadKept

\* Every step keeps what the classification adds up.
LEMMA ReadStep ==
    ASSUME IInv, ReadKept, [Next]_vars
    PROVE  ReadKept'
<1> USE DEF IInv, Typed
<1>1. /\ \A q : Shortfall(q)' = Shortfall(q) /\ Eligible(q)' = Eligible(q)
      /\ Shortfalls' = Shortfalls
  BY Frozen, InputsNeverChange
<1>2. ASSUME UNCHANGED figures, Unread' = Unread,
             phase' = "compared" => \/ phase = "compared" /\ todo' = todo
                                    \/ listed = {} /\ todo' = Compared,
             phase' = "reference" => \/ phase = "reference" /\ todo' = todo
                                     \/ /\ listed \subseteq Compared
                                        /\ todo' \subseteq Reference,
             phase' \in {"asked", "refused"} => phase \in {"asked", "refused"}
      PROVE  ReadKept'
  <2>1. LeftOut' = LeftOut
    BY <1>1, <1>2 DEF LeftOut
  <2>2. /\ listed' = listed /\ eligible' = eligible /\ needC' = needC
        /\ needR' = needR /\ excluded' = excluded
    BY <1>2 DEF figures
  <2>3. /\ phase' = "compared" => todo' \subseteq Compared
                                   /\ listed' \subseteq Compared
        /\ phase' = "reference" => todo' \subseteq Reference
        /\ phase' \in {"asked", "refused"} => listed' = {}
        /\ phase' \in {"compared", "reference"} => todo' \cap listed' = {}
    BY <1>2, <2>2, Groups DEF ReadKept
  <2>4. /\ \A r \in eligible' : Eligible(r)'
        /\ eligible' \cap Compared = {r \in Compared \ Unread' : Eligible(r)'}
    BY <1>1, <1>2, <2>2 DEF ReadKept
  <2>5. /\ needC' = SumFunctionOnSet(Shortfalls', eligible' \cap Compared)
        /\ needR' = SumFunctionOnSet(Shortfalls', eligible' \cap Reference)
        /\ excluded' = Cardinality(LeftOut')
    BY <1>1, <2>1, <2>2 DEF ReadKept
  <2> QED
    BY <2>3, <2>4, <2>5 DEF ReadKept
<1>3. CASE Refuse \/ FitFails \/ FitLine \/ TurnToReference
  BY <1>2, <1>3 DEF Refuse, FitFails, FitLine, TurnToReference, Unread, ReadKept
<1>4. CASE StartWalk \/ Decide \/ SetCap \/ Report
  BY <1>2, <1>4 DEF StartWalk, Decide, SetCap, Report, Unread
<1>5. CASE Stop \/ UNCHANGED vars
  <2>1. UNCHANGED figures /\ phase' = phase /\ todo' = todo /\ Unread' = Unread
    BY <1>5 DEF Stop, vars, Unread
  <2> QED  BY <1>2, <2>1
<1>6. ASSUME NEW r \in Rows, WalkOn(r) \/ Pass(r) \/ Cross(r) \/ PayRow(r)
      PROVE  ReadKept'
  BY <1>2, <1>6 DEF WalkOn, Pass, Cross, PayRow, Unread
<1> QED
  BY <1>3, <1>4, <1>5, <1>6, ReadComparedKeeps, ReadReferenceKeeps DEF Next

-----------------------------------------------------------------------------
(* What the pay loop adds up *)

Lifted == [r \in Rows |-> Weight(r) * pay[r]]
ShortOfDue == {r \in Compared \cap eligible \cap Visited : pay[r] < Due(r)}

\* The costs, the shift and the count are those of the payments made so far.
PaidKept ==
    /\ costC = SumFunctionOnSet(pay, Compared)
    /\ costR = SumFunctionOnSet(pay, Reference)
    /\ shift = SumFunctionOnSet(Lifted, Rows)
    /\ unfunded = IF Paying THEN Cardinality(ShortOfDue) ELSE 0

\* Before a call pays anyone its costs are nothing.
LEMMA PaidInit == Begun => PaidKept
<1> SUFFICES ASSUME Begun PROVE PaidKept
  OBVIOUS
<1>1. /\ phase = "asked" /\ pay = [r \in Rows |-> 0] /\ costC = 0 /\ costR = 0
      /\ shift = 0 /\ unfunded = 0
  BY DEF Begun, Asked
<1>2. InputsTyped
  BY TypedInit DEF Typed
<1>3. \A r \in Rows : pay[r] = 0 /\ Lifted[r] = 0
  BY <1>1, <1>2, RowFacts DEF Lifted
<1>4. IsFiniteSet(Compared) /\ IsFiniteSet(Reference) /\ IsFiniteSet(Rows)
  BY <1>2, SetsOfRows DEF Rows
<1>5. /\ SumFunctionOnSet(pay, Compared) = 0
      /\ SumFunctionOnSet(pay, Reference) = 0
      /\ SumFunctionOnSet(Lifted, Rows) = 0
  BY <1>3, <1>4, SumZero DEF Rows
<1> QED
  BY <1>1, <1>5 DEF PaidKept, Paying

\* A payment is added to its own group's cost, and to the shift by its weight.
LEMMA PayRowKeeps ==
    ASSUME IInv, PaidKept, NEW r \in Rows, PayRow(r)
    PROVE  PaidKept'
<1> USE DEF IInv, Typed
<1>1. /\ eligible' = eligible /\ listed' = listed
      /\ \A q : Due(q)' = Due(q)
  BY TermsFrozen DEF PayRow
<1>2. \A q : Weight(q)' = Weight(q)
  BY Frozen DEF PayRow
<1>3. /\ r \notin Visited /\ r \in listed /\ Visited \subseteq Rows
      /\ listed \ (todo \ {r}) = Visited \cup {r}
  BY NextInLine DEF Visited, FiguresTyped
<1>4. /\ phase = "paying" /\ phase' = "paying" /\ todo' = todo \ {r}
      /\ pay' = [pay EXCEPT ![r] = Payment(r)] /\ pay \in [Rows -> Nat]
      /\ Payment(r) \in Nat
  BY PaymentTyped DEF PayRow, PaymentsTyped
<1>5. pay[r] = 0
  BY <1>3, <1>4 DEF InOrder, Paying
<1>6. /\ pay'[r] = Payment(r) /\ \A q \in Rows \ {r} : pay'[q] = pay[q]
      /\ \A q \in Rows : pay[q] \in Int /\ pay'[q] \in Int
  BY <1>4
<1>7. IsFiniteSet(Compared) /\ IsFiniteSet(Reference) /\ IsFiniteSet(Rows)
  BY SetsOfRows DEF Rows
<1>8. ASSUME NEW G, G \subseteq Rows, IsFiniteSet(G)
      PROVE  SumFunctionOnSet(pay', G) =
               IF r \in G THEN SumFunctionOnSet(pay, G) + Payment(r)
                          ELSE SumFunctionOnSet(pay, G)
  <2>1. CASE r \in G
    <3>1. SumFunctionOnSet(pay', G) =
            SumFunctionOnSet(pay, G) + (pay'[r] - pay[r])
      BY <1>6, <1>8, <2>1, SumChanged
    <3> QED  BY <1>4, <1>5, <1>6, <2>1, <3>1
  <2>2. CASE r \notin G
    <3>1. \A q \in G : pay'[q] = pay[q]
      BY <1>6, <1>8, <2>2
    <3> QED  BY <1>8, <2>2, <3>1, SumSameTerms
  <2> QED  BY <2>1, <2>2
<1>9. /\ costC' = SumFunctionOnSet(pay', Compared)
      /\ costR' = SumFunctionOnSet(pay', Reference)
  BY <1>7, <1>8 DEF PaidKept, PayRow, Rows
<1>10. shift' = SumFunctionOnSet(Lifted', Rows)
  <2>1. /\ \A q \in Rows : Lifted[q] = Weight(q) * pay[q]
        /\ \A q \in Rows : Lifted'[q] = Weight(q) * pay'[q]
    BY <1>2 DEF Lifted
  <2>2. \A q \in Rows : Weight(q) \in Int
    BY RowFacts
  <2>3. \A q \in Rows : Lifted[q] \in Int /\ Lifted'[q] \in Int
    BY <1>6, <2>1, <2>2
  <2>4. \A q \in Rows \ {r} : Lifted'[q] = Lifted[q]
    BY <1>6, <2>1
  <2>5. SumFunctionOnSet(Lifted', Rows) =
          SumFunctionOnSet(Lifted, Rows) + (Lifted'[r] - Lifted[r])
    BY <1>7, <2>3, <2>4, SumChanged
  <2>6. Lifted[r] = 0 /\ Lifted'[r] = Weight(r) * Payment(r)
    BY <1>5, <1>6, <2>1, <2>2
  <2>7. shift' = shift + Weight(r) * Payment(r)
    BY DEF PayRow
  <2> QED  BY <2>3, <2>5, <2>6, <2>7 DEF PaidKept
<1>11. unfunded' = Cardinality(ShortOfDue')
  <2>1. Visited' = Visited \cup {r}
    BY <1>1, <1>3, <1>4 DEF Visited
  <2>2. IsFiniteSet(ShortOfDue) /\ r \notin ShortOfDue
    BY <1>3, SetsOfRows DEF ShortOfDue, Rows
  <2>3. CASE Underpaid(r)
    <3>1. ShortOfDue' = ShortOfDue \cup {r}
      BY <1>1, <1>3, <1>6, <2>1, <2>3 DEF ShortOfDue, Underpaid
    <3>2. unfunded' = unfunded + 1 /\ unfunded = Cardinality(ShortOfDue)
      BY <1>4, <2>3 DEF PayRow, PaidKept, Paying
    <3> QED  BY <2>2, <3>1, <3>2, FS_AddElement
  <2>4. CASE ~Underpaid(r)
    <3>1. ShortOfDue' = ShortOfDue
      BY <1>1, <1>3, <1>6, <2>1, <2>4 DEF ShortOfDue, Underpaid
    <3> QED  BY <1>4, <2>4, <3>1 DEF PayRow, PaidKept, Paying
  <2> QED  BY <2>3, <2>4
<1> QED
  BY <1>4, <1>9, <1>10, <1>11 DEF PaidKept, Paying

\* Every step keeps what the pay loop adds up.
LEMMA PaidStep ==
    ASSUME IInv, PaidKept, [Next]_vars
    PROVE  PaidKept'
<1> USE DEF IInv, Typed
<1>1. \A q : Weight(q)' = Weight(q)
  BY Frozen, InputsNeverChange
<1>2. ASSUME UNCHANGED payments, (Paying' <=> Paying),
             Paying => ShortOfDue' = ShortOfDue
      PROVE  PaidKept'
  <2>1. Lifted' = Lifted
    BY <1>1, <1>2 DEF Lifted, payments
  <2> QED  BY <1>2, <2>1 DEF PaidKept, payments
<1>3. CASE SetCap
  <2>1. UNCHANGED payments /\ ~Paying /\ Visited' = {} /\ Paying'
    BY <1>3 DEF SetCap, Visited, figures, Paying
  <2>2. ShortOfDue' = {}
    BY <2>1 DEF ShortOfDue
  <2>3. Lifted' = Lifted
    BY <1>1, <2>1 DEF Lifted, payments
  <2> QED  BY <2>1, <2>2, <2>3, FS_EmptySet DEF PaidKept, payments
<1>4. ASSUME UNCHANGED <<inputs, todo, figures, rules, payments>>
      PROVE  UNCHANGED payments /\ ShortOfDue' = ShortOfDue
  <2>1. /\ eligible' = eligible /\ Visited' = Visited
        /\ \A q : Due(q)' = Due(q)
    BY <1>4, TermsFrozen DEF Visited
  <2>2. pay' = pay
    BY <1>4 DEF payments
  <2>3. ShortOfDue' = ShortOfDue
    BY <2>1, <2>2 DEF ShortOfDue
  <2> QED  BY <1>4, <2>3
<1>5. CASE Report
  <2>1. UNCHANGED <<inputs, todo, figures, rules, payments>> /\ Paying /\ Paying'
    BY <1>5 DEF Report, Paying
  <2> QED  BY <1>2, <1>4, <2>1
<1>6. CASE Stop \/ UNCHANGED vars
  <2>1. UNCHANGED <<inputs, todo, figures, rules, payments>> /\ phase' = phase
    BY <1>6 DEF Stop, vars
  <2> QED  BY <1>2, <1>4, <2>1 DEF Paying
<1>7. \/ Refuse \/ FitFails \/ FitLine \/ TurnToReference \/ StartWalk
      \/ Decide
      \/ \E r \in Rows : \/ ReadCompared(r) \/ ReadReference(r)
                         \/ WalkOn(r) \/ Pass(r) \/ Cross(r)
      => ~Paying /\ ~Paying' /\ UNCHANGED payments
  BY DEF Paying, Refuse, FitFails, FitLine, TurnToReference, StartWalk,
     Decide, ReadCompared, ReadReference, WalkOn, Pass, Cross
<1> QED
  BY <1>2, <1>3, <1>5, <1>6, <1>7, PayRowKeeps DEF Next

-----------------------------------------------------------------------------
(* The money spent *)

\* The need is everyone's shortfall and the money spent everyone's payment.
LEMMA NeedAndSpend ==
    ASSUME IInv, ReadKept, PaidKept
    PROVE  /\ AllNeed = SumFunctionOnSet(Shortfalls, eligible)
           /\ spend = SumFunctionOnSet(pay, eligible)
           /\ IsFiniteSet(eligible) /\ eligible \subseteq Rows
           /\ \A r \in eligible : /\ Shortfalls[r] = Shortfall(r)
                                  /\ Shortfalls[r] \in Nat \ {0}
                                  /\ pay[r] \in Nat
<1> USE DEF IInv, Typed
<1>1. /\ IsFiniteSet(Compared) /\ IsFiniteSet(Reference)
      /\ IsFiniteSet(eligible) /\ eligible \subseteq Rows
      /\ IsFiniteSet(eligible \cap Compared)
      /\ IsFiniteSet(eligible \cap Reference) /\ IsFiniteSet(Rows \ eligible)
  BY SetsOfRows DEF FiguresTyped, Rows
<1>2. /\ \A r \in eligible : /\ Shortfalls[r] = Shortfall(r)
                             /\ Shortfalls[r] \in Int
      /\ \A r \in Rows : pay[r] \in Int
  BY <1>1, SetsOfRows DEF PaymentsTyped
<1>3. AllNeed = SumFunctionOnSet(Shortfalls, eligible)
  <2>1. /\ eligible = (eligible \cap Compared) \cup (eligible \cap Reference)
        /\ (eligible \cap Compared) \cap (eligible \cap Reference) = {}
    BY <1>1, Groups DEF Rows
  <2>2. SumFunctionOnSet(Shortfalls,
                         (eligible \cap Compared) \cup (eligible \cap Reference))
          = SumFunctionOnSet(Shortfalls, eligible \cap Compared)
              + SumFunctionOnSet(Shortfalls, eligible \cap Reference)
    BY <1>1, <1>2, <2>1, SumOfUnion
  <2> QED  BY <2>1, <2>2 DEF AllNeed, ReadKept
<1>4. spend = SumFunctionOnSet(pay, Rows)
  <2>1. SumFunctionOnSet(pay, Compared \cup Reference)
          = SumFunctionOnSet(pay, Compared) + SumFunctionOnSet(pay, Reference)
    <3>1. Compared \cap Reference = {}
      BY Groups
    <3> QED  BY <1>1, <1>2, <3>1, SumOfUnion DEF Rows
  <2> QED  BY <2>1 DEF PaidKept, CostsKept, Rows
<1>5. SumFunctionOnSet(pay, Rows) = SumFunctionOnSet(pay, eligible)
  <2>1. \A r \in Rows \ eligible : pay[r] = 0
    BY KeepsToTheLine DEF NeverAboveTheLine
  <2>2. IsFiniteSet(Rows) /\ \A r \in eligible : pay[r] \in Int
    BY <1>1, <1>2, Groups
  <2> QED  BY <1>1, <2>1, <2>2, SumOfPart
<1> QED
  BY <1>1, <1>2, <1>3, <1>4, <1>5 DEF Classified, PaymentsTyped

\* What is at most a share of every shortfall is at most that of the need.
LEMMA ShareOfNeed ==
    ASSUME IInv, ReadKept, PaidKept, NEW m \in Int,
           \A r \in eligible : pay[r] <= m * Shortfall(r)
    PROVE  spend <= m * AllNeed
<1> DEFINE whole == [r \in eligible |-> m * Shortfalls[r]]
<1>1. /\ IsFiniteSet(eligible)
      /\ \A r \in eligible : /\ Shortfalls[r] = Shortfall(r)
                             /\ Shortfalls[r] \in Int /\ pay[r] \in Int
  BY NeedAndSpend
<1>2. \A r \in eligible : whole[r] = m * Shortfalls[r] /\ whole[r] \in Int
  BY <1>1
<1>3. \A r \in eligible : pay[r] <= whole[r]
  BY <1>1, <1>2
<1> HIDE DEF whole
<1>4. SumFunctionOnSet(pay, eligible) <= SumFunctionOnSet(whole, eligible)
  BY <1>1, <1>2, <1>3, SumMonotone
<1>5. SumFunctionOnSet(whole, eligible) =
        m * SumFunctionOnSet(Shortfalls, eligible)
  BY <1>1, <1>2, SumScaled
<1> QED  BY <1>4, <1>5, NeedAndSpend

\* The money spent is the two costs, within the budget and within the need.
LEMMA BoundedOnPath == IInv /\ ReadKept /\ PaidKept => SpendIsBounded
<1> SUFFICES ASSUME IInv, ReadKept, PaidKept PROVE SpendIsBounded
  OBVIOUS
<1> USE DEF IInv, Typed
<1>1. /\ cap.num \in Nat /\ cap.den \in Nat \ {0} /\ AllNeed \in Nat
      /\ Unit \in Nat \ {0}
  BY UnitFacts
<1>2. \A r \in eligible : pay[r] <= Unit * Shortfall(r)
  <2> SUFFICES ASSUME NEW r \in eligible PROVE pay[r] <= Unit * Shortfall(r)
    OBVIOUS
  <2>1. Shortfall(r) \in Nat /\ r \in Rows /\ pay[r] \in Nat
    BY NeedAndSpend
  <2>2. Due(r) = Unit * Shortfall(r) /\ 0 <= Unit * Shortfall(r)
    BY <1>1, <2>1 DEF Due
  <2> QED  BY <2>1, <2>2, KeepsToTheLine DEF NeverAboveTheLine
<1>3. spend <= AllNeed * Unit
  <2>1. spend <= Unit * AllNeed
    BY <1>1, <1>2, ShareOfNeed
  <2> QED  BY <1>1, <2>1
<1>4. spend <= cap.num * (Unit \div cap.den)
  <2>1. CASE req.strategy = "Greedy" \/ AllNeed = 0
    <3>1. Unit = cap.den /\ cap.den \div cap.den = 1
      BY <1>1, <2>1 DEF Unit
    <3>2. spend <= cap.num
      <4>1. CASE req.strategy = "Greedy"
        BY <1>1, <4>1 DEF GreedyKept, InOrder
      <4>2. CASE AllNeed = 0
        BY <1>1, <1>3, <4>2 DEF PaymentsTyped
      <4> QED  BY <2>1, <4>1, <4>2
    <3> QED  BY <1>1, <3>1, <3>2
  <2>2. CASE req.strategy # "Greedy" /\ AllNeed # 0
    <3>1. Unit = cap.den * AllNeed /\ (cap.den * AllNeed) \div cap.den = AllNeed
      BY <1>1, <2>2 DEF Unit
    <3> DEFINE m == Lesser(cap.num, AllNeed * cap.den)
    <3>2. AllNeed * cap.den \in Nat
      BY <1>1
    <3>3. m \in Nat /\ m <= cap.num
      BY <1>1, <3>2 DEF Lesser
    <3>4. \A r \in eligible : pay[r] <= m * Shortfall(r)
      <4> SUFFICES ASSUME NEW r \in eligible PROVE pay[r] <= m * Shortfall(r)
        OBVIOUS
      <4>1. Shortfall(r) \in Nat /\ r \in Rows
        BY NeedAndSpend
      <4>2. pay[r] = 0 \/ pay[r] = Shortfall(r) * m
        BY <2>2, <4>1 DEF InOrder, EquitableKept, Equitable
      <4> HIDE DEF m
      <4> QED  BY <3>3, <4>1, <4>2
    <3> HIDE DEF m
    <3>5. spend <= m * AllNeed
      BY <3>3, <3>4, ShareOfNeed
    <3>6. m * AllNeed <= cap.num * AllNeed
      BY <1>1, <3>3
    <3>7. m * AllNeed \in Int /\ cap.num * AllNeed \in Int /\ spend \in Int
      BY <1>1, <3>3 DEF PaymentsTyped
    <3> QED  BY <3>1, <3>5, <3>6, <3>7
  <2> QED  BY <2>1, <2>2
<1> QED  BY <1>3, <1>4 DEF SpendIsBounded, CostsKept

-----------------------------------------------------------------------------
(* Who is still below the line *)

\* What a call that is done has reported.
Reported ==
    Done => /\ result.unfunded = needC * Unit - Lesser(costC, needC * Unit)
            /\ result.binding = Binding
            /\ result.gap = gap * Unit + shift

\* The report is of the figures as the call leaves them.
LEMMA ReportInit == Begun => Reported
  BY DEF Begun, Asked, Reported, Done

\* What is reported is what the figures come to, once the call is done.
LEMMA ReportStep ==
    ASSUME Reported, [Next]_vars
    PROVE  Reported'
<1>1. ASSUME UNCHANGED <<inputs, figures, rules, payments>>
      PROVE  /\ needC' = needC /\ gap' = gap /\ costC' = costC
             /\ shift' = shift /\ Unit' = Unit /\ Binding' = Binding
  BY <1>1 DEF inputs, figures, rules, payments, Unit, AllNeed, Binding, UserCap,
     TargetCap
<1>2. CASE Report
  <2>1. /\ result'.unfunded = needC * Unit - Lesser(costC, needC * Unit)
        /\ result'.binding = Binding /\ result'.gap = gap * Unit + shift
        /\ UNCHANGED <<inputs, figures, rules, payments>>
    BY <1>2 DEF Report
  <2> QED  BY <1>1, <2>1 DEF Reported
<1>3. CASE Stop \/ UNCHANGED vars
  <2>1. /\ UNCHANGED <<inputs, figures, rules, payments>>
        /\ result' = result /\ phase' = phase
    BY <1>3 DEF Stop, vars
  <2> QED  BY <1>1, <2>1 DEF Reported, Done
<1> QED
  BY <1>2, <1>3 DEF Next, Refuse, FitFails, FitLine, TurnToReference,
     StartWalk, Decide, SetCap, ReadCompared, ReadReference, WalkOn, Pass,
     Cross, PayRow, Reported, Done

\* Those still short are the unfunded and the excluded, each counted once.
LEMMA CountedOnPath == IInv /\ ReadKept /\ PaidKept /\ Reported => StillBelowIsCounted
<1> DEFINE short == [r \in Rows |-> Due(r) - pay[r]]
           Still == {r \in Compared : Shortfall(r) > 0 /\ pay[r] < Due(r)}
           EC == eligible \cap Compared
<1> SUFFICES ASSUME IInv, ReadKept, PaidKept, Reported, Done
             PROVE  /\ Cardinality(Still) = unfunded + excluded
                    /\ SumFunctionOnSet(short, Still \cap eligible)
                         = result.unfunded
  BY DEF StillBelowIsCounted
<1> USE DEF IInv, Typed
<1>1. /\ Unread = {} /\ Visited = listed /\ Paying
      /\ eligible \subseteq listed
  BY DEF Done, Unread, InOrder, Visited, Paying, Classified
<1>2. Unit \in Nat \ {0}
  BY UnitFacts
<1>3. \A r \in Rows : /\ Shortfall(r) \in Int /\ pay[r] \in Nat
                      /\ Due(r) \in Int /\ Due(r) = Unit * Shortfall(r)
                      /\ Shortfall(r) > 0 => Due(r) > 0
                      /\ pay[r] # 0 => r \in eligible /\ pay[r] <= Due(r)
  <2> SUFFICES ASSUME NEW r \in Rows
               PROVE  /\ Shortfall(r) \in Int /\ pay[r] \in Nat
                      /\ Due(r) \in Int /\ Due(r) = Unit * Shortfall(r)
                      /\ Shortfall(r) > 0 => Due(r) > 0
                      /\ pay[r] # 0 => r \in eligible /\ pay[r] <= Due(r)
    OBVIOUS
  <2>1. Shortfall(r) \in Int /\ pay[r] \in Nat
    BY RowFacts DEF PaymentsTyped
  <2>2. /\ Due(r) \in Int /\ Due(r) = Unit * Shortfall(r)
        /\ Shortfall(r) > 0 => Due(r) > 0
    BY <1>2, <2>1 DEF Due
  <2> QED  BY <2>1, <2>2, KeepsToTheLine DEF NeverAboveTheLine
<1>4. /\ \A r \in eligible : Shortfall(r) > 0
      /\ EC = {r \in Compared : Eligible(r)}
      /\ EC \subseteq Rows /\ eligible \subseteq Rows /\ Compared \subseteq Rows
  BY <1>1 DEF ReadKept, Classified, FiguresTyped, Rows
<1>5. /\ Still = ShortOfDue \cup LeftOut /\ ShortOfDue \cap LeftOut = {}
      /\ Still \cap eligible = ShortOfDue
      /\ ShortOfDue \subseteq EC
  BY <1>1, <1>3, <1>4 DEF ShortOfDue, LeftOut
<1>6. IsFiniteSet(ShortOfDue) /\ IsFiniteSet(LeftOut) /\ IsFiniteSet(EC)
  BY <1>4, SetsOfRows DEF ShortOfDue, LeftOut
<1>7. Cardinality(Still) = unfunded + excluded
  <2>1. Cardinality(ShortOfDue \cup LeftOut) =
          Cardinality(ShortOfDue) + Cardinality(LeftOut)
    <3>1. Cardinality(ShortOfDue \cap LeftOut) = 0
      BY <1>5, FS_EmptySet
    <3>2. Cardinality(ShortOfDue) \in Nat /\ Cardinality(LeftOut) \in Nat
      BY <1>6, FS_CardinalityType
    <3>3. Cardinality(ShortOfDue \cup LeftOut) =
            Cardinality(ShortOfDue) + Cardinality(LeftOut)
              - Cardinality(ShortOfDue \cap LeftOut)
      BY <1>6, FS_Union
    <3> QED  BY <3>1, <3>2, <3>3
  <2>2. unfunded = Cardinality(ShortOfDue) /\ excluded = Cardinality(LeftOut)
    BY <1>1 DEF PaidKept, ReadKept
  <2> QED  BY <1>5, <2>1, <2>2
<1>8. SumFunctionOnSet(short, Still \cap eligible) =
        SumFunctionOnSet(short, EC)
  <2>1. /\ \A r \in ShortOfDue : short[r] \in Int
        /\ \A r \in EC \ ShortOfDue : short[r] = 0
    BY <1>1, <1>3, <1>4, <1>5 DEF ShortOfDue
  <2> HIDE DEF short, EC, Still
  <2> QED  BY <1>5, <1>6, <2>1, SumOfPart
<1>9. SumFunctionOnSet(short, EC) = needC * Unit - costC
  <2> DEFINE due == [r \in Rows |-> Unit * Shortfalls[r]]
  <2>1. \A r \in EC : /\ Shortfalls[r] = Shortfall(r) /\ Shortfalls[r] \in Int
                      /\ due[r] = Unit * Shortfalls[r]
                      /\ short[r] \in Int /\ pay[r] \in Int
                      /\ due[r] = short[r] + pay[r]
    BY <1>2, <1>3, <1>4 DEF Shortfalls
  <2> HIDE DEF due, short, EC
  <2>2. SumFunctionOnSet(due, EC) = Unit * SumFunctionOnSet(Shortfalls, EC)
    BY <1>2, <1>6, <2>1, SumScaled
  <2>3. SumFunctionOnSet(due, EC) =
          SumFunctionOnSet(short, EC) + SumFunctionOnSet(pay, EC)
    BY <1>6, <2>1, SumPlus
  <2>4. SumFunctionOnSet(pay, Compared) = SumFunctionOnSet(pay, EC)
    <3>1. IsFiniteSet(Compared) /\ \A r \in Compared \ EC : pay[r] = 0
      BY <1>3, <1>4, SetsOfRows DEF EC
    <3> QED  BY <2>1, <3>1, SumOfPart DEF EC
  <2>5. /\ needC = SumFunctionOnSet(Shortfalls, EC)
        /\ costC = SumFunctionOnSet(pay, Compared)
    BY DEF ReadKept, PaidKept, EC
  <2>6. SumFunctionOnSet(short, EC) \in Int
    BY <1>6, <2>1, SumInt
  <2> QED  BY <1>2, <2>2, <2>3, <2>4, <2>5, <2>6 DEF FiguresTyped, PaymentsTyped
<1>10. costC <= needC * Unit
  <2>1. \A r \in EC : short[r] \in Nat
    BY <1>3, <1>4
  <2> HIDE DEF short, EC
  <2>2. SumFunctionOnSet(short, EC) \in Nat
    BY <1>6, <2>1, SumNat
  <2> QED  BY <1>2, <1>9, <2>2 DEF FiguresTyped, PaymentsTyped
<1>11. result.unfunded = needC * Unit - costC
  BY <1>10 DEF Reported, Lesser
<1> QED  BY <1>7, <1>8, <1>9, <1>11

-----------------------------------------------------------------------------
(* The path of a strategy *)

\* The rows that come first in the pay order of the eligible ones.
Leading(V) == V \subseteq eligible /\ \A p \in V, q \in eligible \ V : Before(p, q)
NextOf(V, r) == r \in eligible \ V /\ \A q \in eligible \ V : q # r => Before(r, q)
Need(V) == SumFunctionOnSet(Shortfalls, V)

\* The path's payments, each counted w times.
Weighed(w, b, u) == [r \in eligible |-> w[r] * PathPay(r, b, u)]
Lifts(w) == [r \in Rows |-> w[r] * Shortfall(r)]
Weights == [r \in Rows |-> Weight(r)]
Rise(V) == SumFunctionOnSet(Lifts(Weights), V)

\* What the rows ahead of a row need, beside what a leading set needs.
LEMMA NeedAheadFacts ==
    ASSUME IInv, NEW V, Leading(V)
    PROVE  /\ Need(V) \in Nat
           /\ \A q \in eligible : NeedAhead(q) \in Nat /\ Shortfall(q) \in Nat \ {0}
           /\ \A q \in V : NeedAhead(q) + Shortfall(q) <= Need(V)
           /\ \A q \in eligible \ V : Need(V) <= NeedAhead(q)
           /\ \A r : NextOf(V, r) =>
                 /\ NeedAhead(r) = Need(V)
                 /\ Leading(V \cup {r})
                 /\ Need(V \cup {r}) = Need(V) + Shortfall(r)
<1> USE DEF IInv, Typed
<1> DEFINE Front(q) == {p \in eligible : Before(p, q)}
<1>1. /\ IsFiniteSet(V) /\ V \subseteq eligible /\ eligible \subseteq Rows
      /\ IsFiniteSet(eligible)
      /\ \A q \in eligible : /\ Shortfalls[q] = Shortfall(q)
                             /\ Shortfall(q) \in Nat \ {0}
  <2>1. eligible \subseteq Rows /\ V \subseteq eligible
    BY DEF FiguresTyped, Leading
  <2>2. IsFiniteSet(V) /\ IsFiniteSet(eligible)
    BY <2>1, SetsOfRows
  <2>3. \A q \in eligible : Shortfalls[q] = Shortfall(q) /\ Shortfall(q) \in Int
    BY <2>1, RowFacts DEF Shortfalls
  <2> QED  BY <2>1, <2>2, <2>3 DEF Classified
<1>2. \A q \in eligible : Shortfalls[q] \in Nat /\ Shortfalls[q] \in Int
  BY <1>1
<1>3. Need(V) \in Nat
  BY <1>1, <1>2, SumNat DEF Need
<1>4. ASSUME NEW q \in eligible
      PROVE  /\ Front(q) \subseteq eligible /\ IsFiniteSet(Front(q))
             /\ NeedAhead(q) = Need(Front(q)) /\ NeedAhead(q) \in Nat
             /\ q \notin Front(q)
  <2>1. Front(q) \subseteq eligible
    OBVIOUS
  <2>2. IsFiniteSet(Front(q))
    BY <1>1, <2>1, FS_Subset
  <2>3. q \notin Front(q)
    BY <1>1, BeforeIrreflexive
  <2>4. NeedAhead(q) = Need(Front(q))
    BY DEF NeedAhead, Need
  <2> HIDE DEF Front
  <2>5. Need(Front(q)) \in Nat
    BY <1>2, <2>1, <2>2, SumNat DEF Need
  <2> QED  BY <2>1, <2>2, <2>3, <2>4, <2>5
<1>5. ASSUME NEW q \in V PROVE NeedAhead(q) + Shortfall(q) <= Need(V)
  <2>1. q \in eligible
    BY <1>1
  <2>2. Front(q) \cup {q} \subseteq V
    <3>1. ASSUME NEW p \in eligible, Before(p, q), p \notin V PROVE FALSE
      BY <1>1, <2>1, <3>1, BeforeAsymmetric DEF Leading
    <3> QED  BY <3>1
  <2> HIDE DEF Front
  <2>3. Need(Front(q) \cup {q}) = Need(Front(q)) + Shortfalls[q]
    BY <1>2, <1>4, <2>1, SumAdd DEF Need
  <2>4. Need(Front(q) \cup {q}) <= Need(V)
    BY <1>1, <1>2, <2>2, SumNat DEF Need
  <2> QED  BY <1>1, <1>4, <2>1, <2>3, <2>4
<1>6. ASSUME NEW q \in eligible \ V PROVE Need(V) <= NeedAhead(q)
  <2>1. V \subseteq Front(q)
    BY <1>1 DEF Leading
  <2> HIDE DEF Front
  <2>2. Need(V) <= Need(Front(q))
    BY <1>2, <1>4, <2>1, SumNat DEF Need
  <2> QED  BY <1>4, <2>2
<1>7. ASSUME NEW r, NextOf(V, r)
      PROVE  /\ NeedAhead(r) = Need(V)
             /\ Leading(V \cup {r})
             /\ Need(V \cup {r}) = Need(V) + Shortfall(r)
  <2>1. /\ r \in eligible \ V /\ \A p \in V : Before(p, r)
        /\ \A q \in eligible \ V : q # r => Before(r, q)
    BY <1>7 DEF NextOf, Leading
  <2>2. Front(r) = V
    <3>1. ASSUME NEW p \in eligible \ V, Before(p, r) PROVE FALSE
      BY <1>1, <2>1, <3>1, BeforeAsymmetric, BeforeIrreflexive
    <3> QED  BY <1>1, <2>1, <3>1
  <2> HIDE DEF Front
  <2>3. NeedAhead(r) = Need(V)
    BY <1>4, <2>1, <2>2
  <2>4. Need(V \cup {r}) = Need(V) + Shortfall(r)
    BY <1>1, <1>2, <2>1, SumAdd DEF Need
  <2>5. Leading(V \cup {r})
    BY <2>1 DEF Leading
  <2> QED  BY <2>3, <2>4, <2>5
<1> QED
  BY <1>1, <1>3, <1>4, <1>5, <1>6, <1>7

\* Multiplying by a part of a dollar keeps an order and a sum.
LEMMA InParts ==
    ASSUME NEW a \in Int, NEW b \in Int, NEW u \in Nat \ {0}
    PROVE  /\ a * u \in Int /\ (a + b) * u = a * u + b * u
           /\ a <= b => a * u <= b * u
           /\ a < b => a * u < b * u
           /\ a > 0 => a * u > 0
           /\ a * u <= b * u => a <= b
           /\ a * u < b * u => a < b
  OBVIOUS

\* b parts of a dollar are the need of the leading set V, and no more than
\* that of V and the row r that comes next.
Segment(V, r, b, u) ==
    /\ Leading(V) /\ NextOf(V, r) /\ b \in Int /\ u \in Nat \ {0}
    /\ Need(V) * u <= b /\ b <= (Need(V) + Shortfall(r)) * u

\* Greedy money between the need of a leading set and that of one row more:
\* the set is paid in full, the next row what is left, and nobody else.
LEMMA GreedyPath ==
    ASSUME IInv, req.strategy = "Greedy",
           NEW V, NEW r, NEW b, NEW u, Segment(V, r, b, u)
    PROVE  /\ \A q \in V : PathPay(q, b, u) = Shortfall(q) * u
           /\ PathPay(r, b, u) = b - Need(V) * u
           /\ \A q \in eligible \ (V \cup {r}) : PathPay(q, b, u) = 0
<1> USE DEF Segment
<1>1. /\ Need(V) \in Nat /\ V \subseteq eligible /\ r \in eligible \ V
      /\ \A q \in eligible : NeedAhead(q) \in Nat /\ Shortfall(q) \in Nat \ {0}
      /\ \A q \in V : NeedAhead(q) + Shortfall(q) <= Need(V)
      /\ NeedAhead(r) = Need(V)
      /\ Leading(V \cup {r}) /\ Need(V \cup {r}) = Need(V) + Shortfall(r)
  BY NeedAheadFacts DEF Leading, NextOf
<1>2. \A q \in eligible \ (V \cup {r}) : Need(V) + Shortfall(r) <= NeedAhead(q)
  BY <1>1, NeedAheadFacts
<1>3. ASSUME NEW q \in eligible
      PROVE  PathPay(q, b, u) = Within(b - NeedAhead(q) * u, Shortfall(q) * u)
  BY DEF PathPay
<1>4. ASSUME NEW q \in V PROVE PathPay(q, b, u) = Shortfall(q) * u
  <2>1. (NeedAhead(q) + Shortfall(q)) * u <= Need(V) * u
    BY <1>1, InParts
  <2>2. (NeedAhead(q) + Shortfall(q)) * u = NeedAhead(q) * u + Shortfall(q) * u
    BY <1>1, InParts
  <2>3. Shortfall(q) * u > 0 /\ Shortfall(q) * u \in Int /\ NeedAhead(q) * u \in Int
        /\ Need(V) * u \in Int
    BY <1>1, InParts
  <2> QED  BY <1>1, <1>3, <2>1, <2>2, <2>3 DEF Within, Lesser
<1>5. PathPay(r, b, u) = b - Need(V) * u
  <2>1. (Need(V) + Shortfall(r)) * u = Need(V) * u + Shortfall(r) * u
    BY <1>1, InParts
  <2>2. Need(V) * u \in Int /\ Shortfall(r) * u \in Int
    BY <1>1
  <2> QED  BY <1>1, <1>3, <2>1, <2>2 DEF Within, Lesser
<1>6. ASSUME NEW q \in eligible \ (V \cup {r}) PROVE PathPay(q, b, u) = 0
  <2>1. (Need(V) + Shortfall(r)) * u <= NeedAhead(q) * u
    BY <1>1, <1>2, InParts
  <2>2. /\ NeedAhead(q) * u \in Int /\ Shortfall(q) * u > 0
        /\ Shortfall(q) * u \in Int /\ (Need(V) + Shortfall(r)) * u \in Int
    BY <1>1, InParts
  <2> QED  BY <1>3, <2>1, <2>2 DEF Within, Lesser
<1> QED
  BY <1>4, <1>5, <1>6

\* The moved sum is linear between the needs of a leading set and of one row
\* more, with that row's weight as its slope.
LEMMA GreedySegment ==
    ASSUME IInv, req.strategy = "Greedy",
           NEW V, NEW r, NEW b, NEW u, Segment(V, r, b, u),
           NEW w, \A q \in Rows : w[q] \in Int
    PROVE  /\ SumFunctionOnSet(Lifts(w), V) \in Int
           /\ SumFunctionOnSet(Weighed(w, b, u), eligible) =
                u * SumFunctionOnSet(Lifts(w), V) + w[r] * (b - Need(V) * u)
<1> DEFINE f == Weighed(w, b, u)
           g == Lifts(w)
<1>1. /\ \A q \in V : PathPay(q, b, u) = Shortfall(q) * u
      /\ PathPay(r, b, u) = b - Need(V) * u
      /\ \A q \in eligible \ (V \cup {r}) : PathPay(q, b, u) = 0
  BY GreedyPath
<1>2. /\ V \subseteq eligible /\ r \in eligible \ V /\ Need(V) * u \in Int
      /\ b \in Int /\ u \in Nat \ {0}
      /\ \A q \in eligible : q \in Rows /\ Shortfall(q) \in Int /\ w[q] \in Int
  <2>1. Need(V) \in Nat /\ \A q \in eligible : Shortfall(q) \in Nat
    BY NeedAheadFacts DEF Segment
  <2>2. eligible \subseteq Rows
    BY DEF IInv, Typed, FiguresTyped
  <2> QED  BY <2>1, <2>2 DEF Leading, NextOf, Segment
<1>3. IsFiniteSet(eligible) /\ IsFiniteSet(V) /\ IsFiniteSet(V \cup {r})
  BY <1>2, SetsOfRows, FS_AddElement DEF IInv, Typed
<1>4. ASSUME NEW q \in V
      PROVE  /\ f[q] \in Int /\ g[q] \in Int /\ f[q] = u * g[q]
  <2>1. f[q] = w[q] * (Shortfall(q) * u) /\ g[q] = w[q] * Shortfall(q)
    BY <1>1, <1>2 DEF Weighed, Lifts
  <2> HIDE DEF f, g
  <2> QED  BY <1>2, <2>1
<1>5. f[r] = w[r] * (b - Need(V) * u) /\ f[r] \in Int
  BY <1>1, <1>2 DEF Weighed
<1>6. \A q \in eligible \ (V \cup {r}) : f[q] = 0
  BY <1>1, <1>2 DEF Weighed
<1> HIDE DEF f, g
<1>7. SumFunctionOnSet(f, eligible) = SumFunctionOnSet(f, V \cup {r})
  <2>1. V \cup {r} \subseteq eligible /\ \A q \in V \cup {r} : f[q] \in Int
    BY <1>2, <1>4, <1>5
  <2> QED  BY <1>3, <1>6, <2>1, SumOfPart
<1>8. SumFunctionOnSet(f, V \cup {r}) = SumFunctionOnSet(f, V) + f[r]
  BY <1>2, <1>3, <1>4, <1>5, SumAdd
<1>9. SumFunctionOnSet(f, V) = u * SumFunctionOnSet(g, V)
  <2>1. u \in Int /\ IsFiniteSet(V)
    BY <1>2, <1>3
  <2>2. \A q \in V : g[q] \in Int /\ f[q] = u * g[q]
    BY <1>4
  <2> QED  BY <2>1, <2>2, SumScaled
<1>10. SumFunctionOnSet(g, V) \in Int
  BY <1>3, <1>4, SumInt
<1> QED  BY <1>5, <1>7, <1>8, <1>9, <1>10 DEF f, g

\* Money for the whole need pays everyone in full.
LEMMA GreedyEnd ==
    ASSUME IInv, req.strategy = "Greedy", NEW b \in Int, NEW u \in Nat \ {0},
           Need(eligible) * u <= b
    PROVE  \A q \in eligible : PathPay(q, b, u) = Shortfall(q) * u
<1> SUFFICES ASSUME NEW q \in eligible
             PROVE  PathPay(q, b, u) = Shortfall(q) * u
  OBVIOUS
<1>1. Leading(eligible)
  BY DEF Leading
<1>2. /\ Need(eligible) \in Nat /\ NeedAhead(q) \in Nat
      /\ Shortfall(q) \in Nat \ {0}
      /\ NeedAhead(q) + Shortfall(q) <= Need(eligible)
  BY <1>1, NeedAheadFacts
<1>3. PathPay(q, b, u) = Within(b - NeedAhead(q) * u, Shortfall(q) * u)
  BY DEF PathPay
<1>4. /\ (NeedAhead(q) + Shortfall(q)) * u <= Need(eligible) * u
      /\ (NeedAhead(q) + Shortfall(q)) * u = NeedAhead(q) * u + Shortfall(q) * u
  BY <1>2, InParts
<1>5. /\ Shortfall(q) * u > 0 /\ Shortfall(q) * u \in Int
      /\ NeedAhead(q) * u \in Int /\ Need(eligible) * u \in Int
  BY <1>2, InParts
<1> QED  BY <1>3, <1>4, <1>5 DEF Within, Lesser

\* At the end of the path everyone's weighed shortfall has been moved.
LEMMA WholePath ==
    ASSUME IInv, NEW u \in Nat \ {0}, NEW k \in Int,
           NEW w, \A q \in Rows : w[q] \in Int,
           NEW b, \A q \in eligible : PathPay(q, b, u) = Shortfall(q) * k
    PROVE  /\ SumFunctionOnSet(Lifts(w), eligible) \in Int
           /\ SumFunctionOnSet(Weighed(w, b, u), eligible) =
                k * SumFunctionOnSet(Lifts(w), eligible)
<1> DEFINE f == Weighed(w, b, u)
           g == Lifts(w)
<1>1. /\ IsFiniteSet(eligible)
      /\ \A q \in eligible : q \in Rows /\ Shortfall(q) \in Int /\ w[q] \in Int
  BY SetsOfRows, RowFacts DEF IInv, Typed, FiguresTyped
<1>2. ASSUME NEW q \in eligible PROVE g[q] \in Int /\ f[q] = k * g[q]
  <2>1. f[q] = w[q] * (Shortfall(q) * k) /\ g[q] = w[q] * Shortfall(q)
    BY <1>1 DEF Weighed, Lifts
  <2> HIDE DEF f, g
  <2> QED  BY <1>1, <2>1
<1> HIDE DEF f, g
<1>3. SumFunctionOnSet(f, eligible) = k * SumFunctionOnSet(g, eligible)
  BY <1>1, <1>2, SumScaled
<1>4. SumFunctionOnSet(g, eligible) \in Int
  BY <1>1, <1>2, SumInt
<1> QED  BY <1>3, <1>4 DEF f, g

\* The path is figured from the call's inputs and figures alone.
LEMMA PathFrozen ==
    ASSUME UNCHANGED <<inputs, figures>>
    PROVE  /\ req' = req /\ eligible' = eligible /\ gap' = gap
           /\ needC' = needC /\ AllNeed' = AllNeed /\ Share' = Share
           /\ \A r : Weight(r)' = Weight(r) /\ Shortfall(r)' = Shortfall(r)
           /\ \A p, q : Before(p, q)' = Before(p, q)
           /\ \A V : /\ Need(V)' = Need(V) /\ Rise(V)' = Rise(V)
                     /\ Leading(V)' <=> Leading(V)
           /\ \A r, b, u : PathPay(r, b, u)' = PathPay(r, b, u)
           /\ \A b, u : PathGap(b, u)' = PathGap(b, u)
<1>1. /\ req' = req /\ eligible' = eligible /\ gap' = gap
      /\ needC' = needC /\ AllNeed' = AllNeed /\ Share' = Share
  BY DEF inputs, figures, AllNeed, Share
<1>2. /\ \A r : Weight(r)' = Weight(r) /\ Shortfall(r)' = Shortfall(r)
      /\ Shortfalls' = Shortfalls
      /\ \A p, q : Before(p, q)' = Before(p, q)
  BY Frozen
<1>3. \A V : Need(V)' = Need(V) /\ (Leading(V)' <=> Leading(V))
  BY <1>1, <1>2 DEF Need, Leading
<1>4. Lifts(Weights)' = Lifts(Weights)
  BY <1>2 DEF Lifts, Weights
<1>5. \A V : Rise(V)' = Rise(V)
  BY <1>4 DEF Rise
<1>6. ASSUME NEW r PROVE NeedAhead(r)' = NeedAhead(r)
  <2>1. {q \in eligible : Before(q, r)}' = {q \in eligible : Before(q, r)}
    BY <1>1, <1>2
  <2> QED  BY <1>2, <2>1 DEF NeedAhead
<1>7. \A r, b, u : PathPay(r, b, u)' = PathPay(r, b, u)
  BY <1>1, <1>2, <1>6 DEF PathPay
<1>8. ASSUME NEW b, NEW u PROVE PathGap(b, u)' = PathGap(b, u)
  <2>1. Moved(b, u)' = Moved(b, u)
    BY <1>1, <1>2, <1>7 DEF Moved
  <2> QED  BY <1>1, <2>1 DEF PathGap
<1> QED
  BY <1>1, <1>2, <1>3, <1>5, <1>7, <1>8

\* The need of everyone eligible, which is nothing only if nobody is.
LEMMA WholeNeed ==
    ASSUME IInv, ReadKept
    PROVE  /\ Need(eligible) = AllNeed /\ AllNeed \in Nat /\ gap \in Int
           /\ AllNeed = 0 => eligible = {}
           /\ Rise(eligible) \in Int
           /\ eligible = {} => Rise(eligible) = 0
           /\ \A r \in eligible : /\ r \in Rows /\ Weight(r) \in Int
                                  /\ Weights[r] = Weight(r)
                                  /\ Shortfall(r) \in Nat \ {0}
<1> USE DEF IInv, Typed
<1>1. /\ IsFiniteSet(eligible) /\ eligible \subseteq Rows
      /\ AllNeed \in Nat /\ gap \in Int
  BY SetsOfRows DEF FiguresTyped, AllNeed
<1>2. \A r \in eligible : /\ r \in Rows /\ Weight(r) \in Int
                          /\ Weights[r] = Weight(r)
                          /\ Shortfall(r) \in Nat \ {0}
                          /\ Shortfalls[r] = Shortfall(r)
  BY <1>1, RowFacts DEF Weights, Shortfalls, Classified
<1>3. Need(eligible) = AllNeed
  <2>1. IsFiniteSet(eligible \cap Compared) /\ IsFiniteSet(eligible \cap Reference)
    BY <1>1, SetsOfRows
  <2>2. /\ eligible = (eligible \cap Compared) \cup (eligible \cap Reference)
        /\ (eligible \cap Compared) \cap (eligible \cap Reference) = {}
    BY <1>1, Groups DEF Rows
  <2>3. Need((eligible \cap Compared) \cup (eligible \cap Reference))
          = Need(eligible \cap Compared) + Need(eligible \cap Reference)
    BY <1>2, <2>1, <2>2, SumOfUnion DEF Need
  <2>4. Need(eligible) = Need((eligible \cap Compared) \cup (eligible \cap Reference))
    BY <2>2
  <2> QED  BY <2>3, <2>4 DEF AllNeed, ReadKept, Need
<1>4. ASSUME AllNeed = 0, NEW r \in eligible PROVE FALSE
  <2>1. \A q \in eligible : Shortfalls[q] \in Nat
    BY <1>2
  <2>2. Need({r}) <= Need(eligible)
    BY <1>1, <2>1, SumNat DEF Need
  <2>3. Need({r}) = Need({}) + Shortfalls[r] /\ Need({}) = 0
    <3>1. Need({} \cup {r}) = Need({}) + Shortfalls[r]
      BY <1>2, FS_EmptySet, SumAdd DEF Need
    <3>2. Need({} \cup {r}) = Need({r})
      <4>1. {} \cup {r} = {r}
        OBVIOUS
      <4> QED  BY <4>1
    <3>3. Need({}) = 0
      BY SumEmpty DEF Need
    <3> QED  BY <3>1, <3>2, <3>3
  <2> QED  BY <1>2, <1>3, <1>4, <2>2, <2>3
<1>5. Rise(eligible) \in Int
  <2>1. \A r \in eligible : Lifts(Weights)[r] = Weight(r) * Shortfall(r)
    BY <1>2 DEF Lifts
  <2>2. \A r \in eligible : Lifts(Weights)[r] \in Int
    BY <1>2, <2>1
  <2> QED  BY <1>1, <2>2, SumInt DEF Rise
<1>6. eligible = {} => Rise(eligible) = 0
  <2>1. Rise({}) = 0
    BY SumEmpty DEF Rise
  <2> QED  BY <2>1
<1> QED
  BY <1>1, <1>2, <1>3, <1>4, <1>5, <1>6

\* A Greedy path is straight between the needs of a leading set and of one
\* row more: it climbs there by that row's weight.
LEMMA GreedyGap ==
    ASSUME IInv, req.strategy = "Greedy",
           NEW V, NEW r, NEW b, NEW u, Segment(V, r, b, u)
    PROVE  PathGap(b, u) = gap * u + u * Rise(V) + Weight(r) * (b - Need(V) * u)
<1> USE DEF IInv, Typed
<1>1. \A q \in Rows : Weights[q] = Weight(q) /\ Weights[q] \in Int
  BY RowFacts DEF Weights
<1>2. /\ Rise(V) \in Int
      /\ SumFunctionOnSet(Weighed(Weights, b, u), eligible) =
           u * Rise(V) + Weights[r] * (b - Need(V) * u)
  BY <1>1, GreedySegment DEF Rise
<1>3. eligible \subseteq Rows /\ r \in Rows /\ gap \in Int /\ u \in Int /\ b \in Int
      /\ Need(V) \in Nat
  BY NeedAheadFacts DEF FiguresTyped, Segment, NextOf
<1>4. Weighed(Weights, b, u) = Moved(b, u)
  BY <1>1, <1>3 DEF Weighed, Moved
<1>5. PathGap(b, u) = gap * u * 1 + SumFunctionOnSet(Moved(b, u), eligible)
  BY DEF PathGap, Share
<1>6. PathGap(b, u) = gap * u + SumFunctionOnSet(Weighed(Weights, b, u), eligible)
  <2>1. gap * u * 1 = gap * u
    BY <1>3
  <2> QED  BY <1>4, <1>5, <2>1
<1>7. gap * u \in Int /\ u * Rise(V) \in Int /\ Weight(r) * (b - Need(V) * u) \in Int
  <2>1. Weight(r) \in Int /\ b - Need(V) * u \in Int
    BY <1>1, <1>3
  <2> QED  BY <1>2, <1>3, <2>1
<1> QED
  BY <1>1, <1>2, <1>3, <1>6, <1>7

\* An Equitable path is straight all the way.
LEMMA EquitableGap ==
    ASSUME IInv, ReadKept, req.strategy # "Greedy",
           NEW b \in Int, NEW u \in Nat \ {0}
    PROVE  PathGap(b, u) = gap * u * AllNeed + b * Rise(eligible)
<1> USE DEF IInv, Typed
<1>1. /\ \A q \in Rows : Weights[q] = Weight(q) /\ Weights[q] \in Int
      /\ eligible \subseteq Rows
  BY RowFacts DEF Weights, FiguresTyped
<1>2. \A q \in eligible : PathPay(q, b, u) = Shortfall(q) * b
  BY DEF PathPay
<1>3. SumFunctionOnSet(Weighed(Weights, b, u), eligible) = b * Rise(eligible)
  BY <1>1, <1>2, WholePath DEF Rise
<1>4. Weighed(Weights, b, u) = Moved(b, u)
  BY <1>1 DEF Weighed, Moved
<1> QED
  BY <1>3, <1>4 DEF PathGap, Share

\* Following a slope for d of D dollars goes no further than following it
\* for all of them.
LEMMA Slope ==
    ASSUME NEW W \in Int, NEW d \in Int, NEW D \in Int, 0 <= d, d <= D
    PROVE  /\ W * d \in Int /\ W * D \in Int
           /\ W >= 0 => 0 <= W * d /\ W * d <= W * D
           /\ W < 0 => W * d <= 0 /\ (d > 0 => W * d < 0)
  OBVIOUS

-----------------------------------------------------------------------------
(* The walk along the path *)

Walked == eligible \ todo
OnTheWay == phase \in {"peak", "cross"}

\* The walks' sums are those of the rows they have passed.
WalkKept ==
    OnTheWay => /\ todo \subseteq eligible /\ Leading(Walked)
                /\ walk.spent = Need(Walked) /\ walk.shift = Rise(Walked)

\* The peak of what the first walk has seen: the highest point so far, and
\* on an unpooled line the gap climbs a dollar for a dollar.
SoFar == IF walk.at = {} THEN walk.spent ELSE CHOOSE b \in walk.at : TRUE
OneForOne == \A r \in eligible : Weight(r) = 1
Climbing ==
    phase = "peak" /\ req.strategy = "Greedy" =>
        /\ walk.at = {} => todo = {}
        /\ \A b, c \in walk.at : b = c
        /\ SoFar <= walk.spent
        /\ walk.shift <= walk.high
        /\ PathGap(SoFar, 1) = gap + walk.high
        /\ \A b \in 0..walk.spent :
               /\ PathGap(b, 1) <= gap + walk.high
               /\ b > SoFar => PathGap(b, 1) < gap + walk.high
               /\ OneForOne => PathGap(b, 1) = gap + b

\* Nothing the second walk has passed reaches the goal.
Crossing ==
    phase = "cross" =>
        /\ req.strategy = "Greedy" /\ req.target = "Pooled"
        /\ rule.kind = "Reachable"
        /\ \A g \in req.goal : \A u \in Nat \ {0} :
               \A c \in 0..(walk.spent * u) : PathGap(c, u) < g * u

\* The next row to pay is the next of the path.
LEMMA NextOnTheWay ==
    ASSUME IInv, WalkKept, OnTheWay, NEW r \in Rows, FirstToPay(r)
    PROVE  /\ r \in todo /\ NextOf(Walked, r)
           /\ eligible \ (todo \ {r}) = Walked \cup {r}
           /\ Leading(Walked \cup {r})
           /\ walk.spent \in Nat /\ walk.shift \in Int /\ gap \in Int
           /\ Weight(r) \in Int /\ Shortfall(r) \in Nat \ {0}
           /\ Weight(r) * Shortfall(r) \in Int
           /\ Need(Walked \cup {r}) = walk.spent + Shortfall(r)
           /\ Rise(Walked \cup {r}) = walk.shift + Weight(r) * Shortfall(r)
<1> USE DEF IInv, Typed
<1>1. r \in todo /\ todo \subseteq eligible /\ \A q \in todo \ {r} : Before(r, q)
  BY DEF FirstToPay, WalkKept
<1>2. eligible \ Walked = todo /\ eligible \ (todo \ {r}) = Walked \cup {r}
  BY <1>1 DEF Walked
<1>3. NextOf(Walked, r) /\ Leading(Walked)
  BY <1>1, <1>2 DEF NextOf, WalkKept
<1>4. /\ Leading(Walked \cup {r})
      /\ Need(Walked \cup {r}) = Need(Walked) + Shortfall(r)
      /\ Shortfall(r) \in Nat \ {0}
  BY <1>1, <1>3, NeedAheadFacts
<1>5. /\ walk.spent \in Nat /\ walk.shift \in Int /\ gap \in Int
      /\ Weight(r) \in Int
  BY RowFacts DEF WalkTyped, FiguresTyped
<1>6. Weight(r) * Shortfall(r) \in Int
  BY <1>4, <1>5
<1>7. Rise(Walked \cup {r}) = Rise(Walked) + Weight(r) * Shortfall(r)
  <2>1. \A q \in Rows : Lifts(Weights)[q] = Weight(q) * Shortfall(q)
    BY DEF Lifts, Weights
  <2>2. \A q \in Rows : Weight(q) * Shortfall(q) \in Int
    <3> SUFFICES ASSUME NEW q \in Rows PROVE Weight(q) * Shortfall(q) \in Int
      OBVIOUS
    <3>1. Weight(q) \in Int /\ Shortfall(q) \in Int
      BY RowFacts
    <3> QED  BY <3>1
  <2>3. /\ Walked \subseteq Rows /\ IsFiniteSet(Walked) /\ r \notin Walked
    BY <1>3, SetsOfRows DEF Walked, FiguresTyped, NextOf
  <2>4. \A q \in Walked \cup {r} : Lifts(Weights)[q] \in Int
    BY <2>1, <2>2, <2>3
  <2>5. Rise(Walked \cup {r}) = Rise(Walked) + Lifts(Weights)[r]
    BY <2>3, <2>4, SumAdd DEF Rise
  <2> QED  BY <2>1, <2>5
<1> QED
  BY <1>1, <1>2, <1>3, <1>4, <1>5, <1>6, <1>7 DEF WalkKept

\* On from where a walk is, the gap follows the next row's weight.
LEMMA PathOnward ==
    ASSUME IInv, WalkKept, OnTheWay, req.strategy = "Greedy",
           NEW r \in Rows, FirstToPay(r), NEW b \in Int, NEW u \in Nat \ {0},
           walk.spent * u <= b, b <= (walk.spent + Shortfall(r)) * u
    PROVE  PathGap(b, u) =
             (gap + walk.shift) * u + Weight(r) * (b - walk.spent * u)
<1>1. /\ NextOf(Walked, r) /\ Leading(Walked)
      /\ walk.spent = Need(Walked) /\ walk.shift = Rise(Walked)
      /\ walk.spent \in Nat /\ walk.shift \in Int /\ gap \in Int
      /\ Weight(r) \in Int
  BY NextOnTheWay DEF WalkKept
<1>2. Segment(Walked, r, b, u)
  BY <1>1 DEF Segment
<1>3. PathGap(b, u) =
        gap * u + u * walk.shift + Weight(r) * (b - walk.spent * u)
  BY <1>1, <1>2, GreedyGap
<1>4. gap * u + u * walk.shift = (gap + walk.shift) * u
  BY <1>1
<1> QED  BY <1>3, <1>4

\* The walks' sums grow with the row passed, from nothing.
LEMMA WalkKeptStep ==
    ASSUME IInv, ReadKept, WalkKept, [Next]_vars
    PROVE  WalkKept'
<1> USE DEF IInv, Typed
<1>1. ASSUME UNCHANGED <<inputs, figures>>, todo' = eligible,
             walk'.spent = 0, walk'.shift = 0
      PROVE  WalkKept'
  <2>1. eligible' = eligible /\ Walked' = {}
    BY <1>1, PathFrozen DEF Walked
  <2>2. Need({}) = 0 /\ Rise({}) = 0 /\ Leading({})
    BY SumEmpty DEF Need, Rise, Leading
  <2>3. Need(Walked') = 0 /\ Rise(Walked') = 0 /\ Leading(Walked')
    BY <2>1, <2>2
  <2>4. /\ Need(Walked)' = Need(Walked') /\ Rise(Walked)' = Rise(Walked')
        /\ Leading(Walked)' <=> Leading(Walked')
    BY <1>1, PathFrozen
  <2> QED  BY <1>1, <2>1, <2>3, <2>4 DEF WalkKept
<1>2. CASE StartWalk
  <2>1. walk'.spent = 0 /\ walk'.shift = 0
    BY <1>2 DEF StartWalk, NoWalk
  <2> QED  BY <1>1, <1>2, <2>1 DEF StartWalk
<1>3. CASE Decide
  <2>1. ASSUME phase' = "cross" PROVE WalkKept'
    BY <1>1, <1>3, <2>1 DEF Decide, NoWalk
  <2> QED  BY <1>3, <2>1 DEF Decide, WalkKept, OnTheWay
<1>4. ASSUME NEW r \in Rows, WalkOn(r) \/ Pass(r) PROVE WalkKept'
  <2>1. /\ OnTheWay /\ FirstToPay(r) /\ todo' = todo \ {r}
        /\ UNCHANGED <<inputs, figures>>
        /\ walk'.shift = walk.shift + Weight(r) * Shortfall(r)
        /\ walk'.spent = walk.spent + Shortfall(r)
    <3>1. CASE WalkOn(r)
      BY <3>1 DEF WalkOn, OnTheWay, Climb
    <3>2. CASE Pass(r)
      <4> DEFINE s == walk.shift + Weight(r) * Shortfall(r)
                 m == walk.spent + Shortfall(r)
      <4>1. /\ phase = "cross" /\ FirstToPay(r) /\ todo' = todo \ {r}
            /\ UNCHANGED <<inputs, figures>>
            /\ walk' = [walk EXCEPT !.shift = s, !.spent = m]
        BY <3>2 DEF Pass
      <4> HIDE DEF s, m
      <4>2. walk'.shift = s /\ walk'.spent = m
        BY <4>1 DEF WalkTyped
      <4> QED  BY <4>1, <4>2 DEF OnTheWay, s, m
    <3> QED  BY <1>4, <3>1, <3>2
  <2>2. /\ eligible \ (todo \ {r}) = Walked \cup {r}
        /\ Leading(Walked \cup {r})
        /\ Need(Walked \cup {r}) = walk.spent + Shortfall(r)
        /\ Rise(Walked \cup {r}) = walk.shift + Weight(r) * Shortfall(r)
    BY <2>1, NextOnTheWay
  <2>3. eligible' = eligible /\ Walked' = Walked \cup {r} /\ todo' \subseteq eligible'
    BY <2>1, <2>2, PathFrozen DEF Walked, WalkKept
  <2>4. /\ Need(Walked)' = Need(Walked \cup {r})
        /\ Rise(Walked)' = Rise(Walked \cup {r})
        /\ Leading(Walked)' <=> Leading(Walked \cup {r})
    <3>1. /\ Need(Walked)' = Need(Walked') /\ Rise(Walked)' = Rise(Walked')
          /\ Leading(Walked)' <=> Leading(Walked')
      BY <2>1, PathFrozen
    <3>2. /\ Need(Walked') = Need(Walked \cup {r})
          /\ Rise(Walked') = Rise(Walked \cup {r})
          /\ Leading(Walked') <=> Leading(Walked \cup {r})
      BY <2>3
    <3> QED  BY <3>1, <3>2
  <2> QED  BY <2>1, <2>2, <2>3, <2>4 DEF WalkKept
<1>5. CASE UNCHANGED vars
  <2>1. /\ UNCHANGED <<inputs, figures>> /\ phase' = phase /\ walk' = walk
        /\ todo' = todo
    BY <1>5 DEF vars, rules
  <2>2. eligible' = eligible /\ Walked' = Walked
    BY <2>1, PathFrozen DEF Walked
  <2>3. /\ Need(Walked)' = Need(Walked) /\ Rise(Walked)' = Rise(Walked)
        /\ Leading(Walked)' <=> Leading(Walked)
    BY <2>1, <2>2, PathFrozen
  <2> QED  BY <2>1, <2>2, <2>3 DEF WalkKept, OnTheWay
<1>6. ASSUME ~OnTheWay' PROVE WalkKept'
  BY <1>6 DEF WalkKept
<1> QED
  BY <1>2, <1>3, <1>4, <1>5, <1>6 DEF Next, Refuse, FitFails, FitLine,
     TurnToReference, SetCap, Report, Stop, ReadCompared, ReadReference,
     Cross, PayRow, OnTheWay

\* The gap the path reaches is a whole number of parts.
LEMMA GapIsWhole ==
    ASSUME IInv, NEW b \in Int, NEW u \in Nat \ {0}
    PROVE  PathGap(b, u) \in Int /\ \A r \in eligible : PathPay(r, b, u) \in Int
<1> DEFINE f == Moved(b, u)
<1>1. /\ IsFiniteSet(eligible) /\ eligible \subseteq Rows
      /\ \A q \in eligible : Weight(q) \in Int
  BY SetsOfRows, RowFacts DEF IInv, Typed, FiguresTyped
<1>2. ASSUME NEW q \in eligible PROVE PathPay(q, b, u) \in Int
  <2>1. NeedAhead(q) \in Nat /\ Shortfall(q) \in Nat \ {0}
    <3>1. Leading({})
      BY DEF Leading
    <3> QED  BY <3>1, NeedAheadFacts
  <2>2. NeedAhead(q) * u \in Nat /\ Shortfall(q) * u \in Nat /\ Shortfall(q) * b \in Int
    BY <2>1
  <2>3. Within(b - NeedAhead(q) * u, Shortfall(q) * u) \in Int
    BY <2>2 DEF Within, Lesser
  <2> QED  BY <2>2, <2>3 DEF PathPay
<1>3. \A q \in eligible : f[q] \in Int
  <2>1. \A q \in eligible : f[q] = Weight(q) * PathPay(q, b, u)
    BY DEF Moved
  <2> HIDE DEF f
  <2> QED  BY <1>1, <1>2, <2>1
<1> HIDE DEF f
<1>4. SumFunctionOnSet(f, eligible) \in Int
  BY <1>1, <1>3, SumInt
<1>5. gap \in Int /\ Share \in Int
  BY DEF IInv, Typed, FiguresTyped, Share, AllNeed
<1>6. gap * u * Share \in Int
  BY <1>5
<1> QED  BY <1>2, <1>4, <1>6 DEF PathGap, f

\* Nothing is paid before anything is spent.
LEMMA PathAtStart ==
    ASSUME IInv, NEW u \in Nat \ {0}
    PROVE  \A r \in eligible : PathPay(r, 0, u) = 0
<1> SUFFICES ASSUME NEW r \in eligible PROVE PathPay(r, 0, u) = 0
  OBVIOUS
<1>1. Leading({})
  BY DEF Leading
<1>2. NeedAhead(r) \in Nat /\ Shortfall(r) \in Nat \ {0}
  BY <1>1, NeedAheadFacts
<1>3. /\ NeedAhead(r) * u \in Nat /\ Shortfall(r) * u \in Nat
      /\ Shortfall(r) * 0 = 0
  BY <1>2
<1>4. Within(0 - NeedAhead(r) * u, Shortfall(r) * u) = 0
  BY <1>3 DEF Within, Lesser
<1> QED
  BY <1>3, <1>4 DEF PathPay

\* Before anything is spent the gap is as it was.
LEMMA GapAtStart ==
    ASSUME IInv, NEW u \in Nat \ {0}
    PROVE  PathGap(0, u) = gap * u * Share
<1> DEFINE f == Moved(0, u)
<1>1. /\ IsFiniteSet(eligible) /\ eligible \subseteq Rows
      /\ \A q \in eligible : Weight(q) \in Int
  BY SetsOfRows, RowFacts DEF IInv, Typed, FiguresTyped
<1>2. \A q \in eligible : PathPay(q, 0, u) = 0
  BY PathAtStart
<1>3. \A q \in eligible : f[q] = 0
  <2>1. \A q \in eligible : f[q] = Weight(q) * 0
    BY <1>2 DEF Moved
  <2> HIDE DEF f
  <2> QED  BY <1>1, <2>1
<1> HIDE DEF f
<1>4. SumFunctionOnSet(f, eligible) = 0
  BY <1>1, <1>3, SumZero
<1>5. gap \in Int /\ Share \in Int
  BY DEF IInv, Typed, FiguresTyped, Share, AllNeed
<1>6. gap * u * Share \in Int
  BY <1>5
<1> QED  BY <1>4, <1>6 DEF PathGap, f

\* The first walk has seen the path up to where it stands.
LEMMA ClimbingWalk ==
    ASSUME IInv, WalkKept, Climbing, NEW r \in Rows, WalkOn(r),
           req.strategy = "Greedy"
    PROVE  Climbing'
<1> DEFINE s == walk.shift + Weight(r) * Shortfall(r)
           m == walk.spent + Shortfall(r)
<1>1. /\ phase = "peak" /\ OnTheWay /\ FirstToPay(r) /\ todo' = todo \ {r}
      /\ UNCHANGED <<inputs, figures>> /\ walk' = Climb(walk, r)
  BY DEF WalkOn, OnTheWay
<1>2. /\ walk'.shift = s /\ walk'.spent = m
      /\ walk'.high = IF s >= walk.high THEN s ELSE walk.high
      /\ walk'.at = IF s >= walk.high
                    THEN (IF todo = {r} THEN {} ELSE {m}) ELSE walk.at
  BY <1>1 DEF Climb
<1>3. /\ gap' = gap /\ (OneForOne' <=> OneForOne)
      /\ \A b, u : PathGap(b, u)' = PathGap(b, u)
  BY <1>1, PathFrozen DEF OneForOne
<1>4. /\ r \in todo /\ walk.spent \in Nat /\ walk.shift \in Int /\ gap \in Int
      /\ Weight(r) \in Int /\ Shortfall(r) \in Nat \ {0}
      /\ Weight(r) * Shortfall(r) \in Int
  BY <1>1, NextOnTheWay
<1>5. walk.high \in Nat /\ walk.at \subseteq Nat
  BY DEF IInv, Typed, WalkTyped
<1>6. /\ walk.at # {} /\ \A b, c \in walk.at : b = c
      /\ SoFar <= walk.spent /\ walk.shift <= walk.high
      /\ PathGap(SoFar, 1) = gap + walk.high
      /\ \A b \in 0..walk.spent :
             /\ PathGap(b, 1) <= gap + walk.high
             /\ b > SoFar => PathGap(b, 1) < gap + walk.high
             /\ OneForOne => PathGap(b, 1) = gap + b
  BY <1>1, <1>4 DEF Climbing
<1>7. SoFar \in walk.at /\ SoFar \in Nat
  BY <1>5, <1>6 DEF SoFar
<1>8. s \in Int /\ m \in Nat /\ walk.spent < m
  BY <1>4
<1> HIDE DEF s, m
\* The stretch the step adds.
<1>9. ASSUME NEW b \in Int, walk.spent <= b, b <= m
      PROVE  /\ PathGap(b, 1) =
                  gap + walk.shift + Weight(r) * (b - walk.spent)
             /\ Weight(r) * (b - walk.spent) \in Int
             /\ Weight(r) >= 0 =>
                  /\ walk.shift <= walk.shift + Weight(r) * (b - walk.spent)
                  /\ walk.shift + Weight(r) * (b - walk.spent) <= s
             /\ Weight(r) < 0 =>
                  /\ s < walk.shift
                  /\ Weight(r) * (b - walk.spent) <= 0
                  /\ b > walk.spent => Weight(r) * (b - walk.spent) < 0
  <2> DEFINE d == b - walk.spent
  <2>1. d \in Int /\ 0 <= d /\ d <= Shortfall(r) /\ Shortfall(r) > 0
    BY <1>4, <1>9 DEF m
  <2> HIDE DEF d
  <2>2. /\ Weight(r) * d \in Int
        /\ Weight(r) >= 0 =>
              0 <= Weight(r) * d /\ Weight(r) * d <= Weight(r) * Shortfall(r)
        /\ Weight(r) < 0 => Weight(r) * d <= 0 /\ (d > 0 => Weight(r) * d < 0)
    BY <1>4, <2>1, Slope
  <2>3. Weight(r) < 0 => Weight(r) * Shortfall(r) < 0
    BY <1>4, <2>1, Slope
  <2>4. walk.spent * 1 <= b /\ b <= (walk.spent + Shortfall(r)) * 1
    BY <1>4, <1>9 DEF m
  <2>5. PathGap(b, 1) = (gap + walk.shift) * 1 + Weight(r) * (b - walk.spent * 1)
    BY <1>1, <1>9, <2>4, PathOnward
  <2>6. b - walk.spent * 1 = d
    BY <1>4 DEF d
  <2>7. PathGap(b, 1) = gap + walk.shift + Weight(r) * d
    BY <1>4, <2>2, <2>5, <2>6
  <2>8. b > walk.spent <=> d > 0
    BY <1>4, <1>9 DEF d
  <2> QED  BY <1>4, <2>2, <2>3, <2>7, <2>8 DEF d, s
<1>10. PathGap(m, 1) = gap + s
  <2>1. m - walk.spent = Shortfall(r)
    BY <1>4 DEF m
  <2> QED  BY <1>4, <1>8, <1>9, <2>1 DEF s
<1>11. OneForOne => /\ s = walk.shift + Shortfall(r) /\ walk.shift = walk.spent
                    /\ Weight(r) = 1
  <2>1. OneForOne => Weight(r) = 1
    BY <1>1, <1>4 DEF OneForOne, WalkKept
  <2>2. PathGap(walk.spent, 1) = gap + walk.shift
    <3>1. walk.spent - walk.spent = 0 /\ Weight(r) * 0 = 0
      BY <1>4
    <3> QED  BY <1>4, <1>8, <1>9, <3>1
  <2>3. OneForOne => PathGap(walk.spent, 1) = gap + walk.spent
    BY <1>4, <1>6
  <2> QED  BY <1>4, <2>1, <2>2, <2>3 DEF s
<1>12. ASSUME NEW b \in 0..m, OneForOne PROVE PathGap(b, 1) = gap + b
  <2>1. CASE b <= walk.spent
    BY <1>4, <1>6, <1>12, <2>1
  <2>2. CASE b > walk.spent
    BY <1>4, <1>8, <1>9, <1>11, <1>12, <2>2
  <2> QED  BY <1>4, <2>1, <2>2
<1>13. CASE s >= walk.high
  <2>1. SoFar' = m /\ walk'.high = s /\ \A b, c \in walk'.at : b = c
    BY <1>2, <1>13 DEF SoFar
  <2>2. walk'.at = {} => todo' = {}
    BY <1>1, <1>2, <1>13
  <2>3. ASSUME NEW b \in 0..m PROVE PathGap(b, 1) <= gap + s
    <3>1. CASE b <= walk.spent
      <4>1. b \in 0..walk.spent
        BY <1>4, <1>8, <3>1
      <4>2. PathGap(b, 1) <= gap + walk.high /\ PathGap(b, 1) \in Int
        <5>1. b \in Int /\ 1 \in Nat \ {0}
          BY <1>4
        <5>2. PathGap(b, 1) \in Int
          BY <5>1, GapIsWhole
        <5> QED  BY <1>6, <4>1, <5>2
      <4> QED  BY <1>4, <1>5, <1>8, <1>13, <4>2
    <3>2. CASE b > walk.spent
      BY <1>4, <1>5, <1>6, <1>8, <1>9, <1>13, <3>2
    <3> QED  BY <1>4, <3>1, <3>2
  <2> QED
    BY <1>2, <1>3, <1>8, <1>10, <1>12, <2>1, <2>2, <2>3 DEF Climbing
<1>14. CASE ~(s >= walk.high)
  <2>1. walk'.at = walk.at /\ walk'.high = walk.high /\ SoFar' = SoFar
    BY <1>2, <1>6, <1>14 DEF SoFar
  <2>2. SoFar <= m
    BY <1>4, <1>6, <1>7, <1>8
  <2>3. ASSUME NEW b \in 0..m
        PROVE  /\ PathGap(b, 1) <= gap + walk.high
               /\ b > SoFar => PathGap(b, 1) < gap + walk.high
    <3>1. CASE b <= walk.spent
      BY <1>4, <1>6, <1>8, <3>1
    <3>2. CASE b > walk.spent
      BY <1>4, <1>5, <1>6, <1>8, <1>9, <1>14, <3>2
    <3> QED  BY <1>4, <3>1, <3>2
  <2> QED
    BY <1>2, <1>3, <1>5, <1>6, <1>8, <1>12, <1>14, <2>1, <2>2, <2>3
    DEF Climbing
<1> QED  BY <1>13, <1>14

\* Every step keeps what the first walk has seen.
LEMMA ClimbingStep ==
    ASSUME IInv, WalkKept, Climbing, [Next]_vars
    PROVE  Climbing'
<1> USE DEF IInv, Typed
<1>1. CASE StartWalk
  <2>1. /\ phase' = "peak" /\ todo' = eligible /\ UNCHANGED <<inputs, figures>>
        /\ walk'.shift = 0 /\ walk'.spent = 0 /\ walk'.high = 0
        /\ walk'.at = IF eligible = {} THEN {} ELSE {0}
    BY <1>1 DEF StartWalk, NoWalk
  <2>2. /\ gap' = gap /\ eligible' = eligible /\ req' = req
        /\ \A b, u : PathGap(b, u)' = PathGap(b, u)
    BY <2>1, PathFrozen
  <2>3. SoFar' = 0
    BY <2>1 DEF SoFar
  <2>4. req.strategy = "Greedy" => PathGap(0, 1) = gap
    <3>1. PathGap(0, 1) = gap * 1 * Share
      BY GapAtStart
    <3> QED  BY <3>1 DEF Share, FiguresTyped
  <2>5. gap \in Int /\ 0..0 = {0}
    BY DEF FiguresTyped
  <2> QED  BY <2>1, <2>2, <2>3, <2>4, <2>5 DEF Climbing
<1>2. ASSUME NEW r \in Rows, WalkOn(r) PROVE Climbing'
  <2>1. req' = req
    BY <1>2, PathFrozen DEF WalkOn
  <2> QED  BY <1>2, <2>1, ClimbingWalk DEF Climbing
<1>3. CASE UNCHANGED vars
  <2>1. /\ UNCHANGED <<inputs, figures>> /\ phase' = phase /\ walk' = walk
        /\ todo' = todo
    BY <1>3 DEF vars, rules
  <2>2. /\ gap' = gap /\ req' = req /\ (OneForOne' <=> OneForOne)
        /\ SoFar' = SoFar /\ \A b, u : PathGap(b, u)' = PathGap(b, u)
    BY <2>1, PathFrozen DEF OneForOne, SoFar
  <2> QED  BY <2>1, <2>2 DEF Climbing
<1>4. ASSUME phase' # "peak" PROVE Climbing'
  BY <1>4 DEF Climbing
<1> QED
  BY <1>1, <1>2, <1>3, <1>4 DEF Next, Refuse, FitFails, FitLine,
     TurnToReference, Decide, SetCap, Report, Stop, ReadCompared,
     ReadReference, Pass, Cross, PayRow

\* Passing a row that does not cross the goal leaves the path short of it.
LEMMA CrossingPass ==
    ASSUME IInv, WalkKept, Crossing, NEW r \in Rows, Pass(r)
    PROVE  Crossing'
<1> USE DEF IInv, Typed
<1> DEFINE m == walk.spent + Shortfall(r)
           s == walk.shift + Weight(r) * Shortfall(r)
<1>1. /\ phase = "cross" /\ phase' = "cross" /\ OnTheWay /\ FirstToPay(r)
      /\ UNCHANGED <<inputs, figures>> /\ rule' = rule
      /\ walk' = [walk EXCEPT !.shift = s, !.spent = m]
  BY DEF Pass, OnTheWay
<1>2. /\ r \in todo /\ walk.spent \in Nat /\ walk.shift \in Int /\ gap \in Int
      /\ Weight(r) \in Int /\ Shortfall(r) \in Nat \ {0}
      /\ Weight(r) * Shortfall(r) \in Int
  BY <1>1, NextOnTheWay
<1>3. m \in Nat /\ s \in Int
  BY <1>2
<1>4. req' = req /\ \A b, u : PathGap(b, u)' = PathGap(b, u)
  BY <1>1, PathFrozen
<1>5. walk'.spent = m /\ walk'.shift = s
  <2> HIDE DEF m, s
  <2> QED  BY <1>1 DEF WalkTyped
<1>6. \A g \in req.goal : g \in Int /\ g > gap + walk.shift /\ g > gap + s
  <2>1. Walking' /\ gap' = gap
    <3>1. [Next]_vars
      BY DEF Next
    <3> QED  BY <1>1, <3>1, WalkingStep, PathFrozen
  <2>2. req.goal \subseteq Int
    BY DEF InputsTyped, Request
  <2> QED  BY <1>1, <1>4, <1>5, <2>1, <2>2 DEF Walking
<1>7. ASSUME NEW g \in req.goal, NEW u \in Nat \ {0}, NEW c \in 0..(m * u)
      PROVE  PathGap(c, u) < g * u
  <2>1. /\ c \in Int /\ 0 <= c /\ c <= m * u /\ walk.spent * u \in Nat
        /\ u \in Int
    BY <1>2, <1>3
  <2>2. CASE c <= walk.spent * u
    <3>1. c \in 0..(walk.spent * u)
      BY <2>1, <2>2
    <3> QED  BY <1>1, <3>1 DEF Crossing
  <2>3. CASE c > walk.spent * u
    <3> DEFINE d == c - walk.spent * u
    <3>1. /\ PathGap(c, u) = (gap + walk.shift) * u + Weight(r) * d
      BY <1>1, <2>1, <2>3, PathOnward DEF Crossing
    <3>2. d \in Int /\ 0 <= d /\ d <= Shortfall(r) * u
      <4>1. m * u = walk.spent * u + Shortfall(r) * u
        BY <1>2
      <4>2. Shortfall(r) * u \in Int
        BY <1>2
      <4> QED  BY <2>1, <2>3, <4>1, <4>2
    <3> HIDE DEF d, m, s
    <3>3. Shortfall(r) * u \in Int /\ (gap + walk.shift) * u \in Int
      BY <1>2, <2>1
    <3>4. /\ Weight(r) * d \in Int /\ Weight(r) * (Shortfall(r) * u) \in Int
          /\ Weight(r) >= 0 => Weight(r) * d <= Weight(r) * (Shortfall(r) * u)
          /\ Weight(r) < 0 => Weight(r) * d <= 0
      BY <1>2, <3>2, <3>3, Slope
    <3>5. (gap + walk.shift) * u < g * u
      <4>1. gap + walk.shift \in Int /\ g \in Int /\ gap + walk.shift < g
        BY <1>2, <1>6
      <4> QED  BY <4>1, InParts
    <3>6. (gap + s) * u < g * u
      <4>1. gap + s \in Int /\ g \in Int /\ gap + s < g
        BY <1>2, <1>3, <1>6
      <4> QED  BY <4>1, InParts
    <3>7. (gap + s) * u =
            (gap + walk.shift) * u + Weight(r) * (Shortfall(r) * u)
      <4> DEFINE k == Weight(r) * Shortfall(r)
      <4>1. k \in Int /\ k * u = Weight(r) * (Shortfall(r) * u)
        BY <1>2, <2>1
      <4>2. gap + s = (gap + walk.shift) + k
        BY <1>2 DEF s
      <4> HIDE DEF k
      <4>3. ((gap + walk.shift) + k) * u = (gap + walk.shift) * u + k * u
        BY <1>2, <2>1, <4>1
      <4> QED  BY <4>1, <4>2, <4>3
    <3>8. g * u \in Int
      BY <1>6, <2>1
    <3> QED  BY <1>2, <3>1, <3>3, <3>4, <3>5, <3>6, <3>7, <3>8
  <2> QED  BY <2>1, <2>2, <2>3
<1> HIDE DEF m, s
<1> QED  BY <1>1, <1>4, <1>5, <1>7 DEF Crossing

\* Every step keeps the second walk short of the goal.
LEMMA CrossingStep ==
    ASSUME IInv, WalkKept, Crossing, [Next]_vars
    PROVE  Crossing'
<1> USE DEF IInv, Typed
<1>1. ASSUME Decide, phase' = "cross" PROVE Crossing'
  <2>1. /\ Kind = "Reachable" /\ req.target = "Pooled" /\ req.strategy = "Greedy"
        /\ walk'.spent = 0 /\ rule'.kind = "Reachable" /\ ~Invalid
        /\ UNCHANGED <<inputs, figures>>
    BY <1>1 DEF Decide, NoWalk, Accepted, RulesTyped
  <2>2. req' = req /\ \A b, u : PathGap(b, u)' = PathGap(b, u)
    BY <2>1, PathFrozen
  <2>3. ASSUME NEW g \in req.goal, NEW u \in Nat \ {0}, NEW c \in 0..(0 * u)
        PROVE  PathGap(c, u) < g * u
    <3>1. c = 0
      BY <2>3
    <3>2. PathGap(0, u) = gap * u * 1
      BY <2>1, GapAtStart DEF Share
    <3>3. g \in Int /\ gap < g /\ gap \in Int
      BY <2>1, ReachableFacts DEF FiguresTyped
    <3>4. gap * u < g * u /\ gap * u * 1 = gap * u
      BY <3>3, InParts
    <3> QED  BY <3>1, <3>2, <3>4
  <2> QED  BY <1>1, <2>1, <2>2, <2>3 DEF Crossing
<1>2. CASE UNCHANGED vars
  <2>1. /\ UNCHANGED <<inputs, figures>> /\ phase' = phase /\ walk' = walk
        /\ rule' = rule
    BY <1>2 DEF vars, rules
  <2>2. req' = req /\ \A b, u : PathGap(b, u)' = PathGap(b, u)
    BY <2>1, PathFrozen
  <2> QED  BY <2>1, <2>2 DEF Crossing
<1>3. ASSUME phase' # "cross" PROVE Crossing'
  BY <1>3 DEF Crossing
<1> QED
  BY <1>1, <1>2, <1>3, CrossingPass DEF Next, Refuse, FitFails, FitLine,
     TurnToReference, StartWalk, SetCap, Report, Stop, ReadCompared,
     ReadReference, WalkOn, Cross, PayRow

-----------------------------------------------------------------------------
(* What the rule promises *)

\* At the end of the first walk its sums are those of everyone eligible.
LEMMA WalkedAll ==
    ASSUME IInv, ReadKept, WalkKept, phase = "peak", todo = {}
    PROVE  walk.spent = AllNeed /\ walk.shift = Rise(eligible)
<1>1. Walked = eligible
  BY DEF Walked
<1>2. walk.spent = Need(Walked) /\ walk.shift = Rise(Walked)
  BY DEF WalkKept, OnTheWay
<1> QED  BY <1>1, <1>2, WholeNeed

Top(p) == IF p = {} THEN AllNeed ELSE CHOOSE b \in p : TRUE

\* The highest gap x and the last budget p that reaches it.
Peaks(p, x) ==
    /\ AllNeed = 0 => x = gap
    /\ p \subseteq 0..AllNeed /\ \A b, c \in p : b = c
    /\ PathGap(Top(p), 1) = x * Share
    /\ \A b \in 0..AllNeed : /\ PathGap(b, 1) <= x * Share
                             /\ b > Top(p) => PathGap(b, 1) < x * Share

\* What the first walk calls the peak is the peak of the whole path.
LEMMA PeakOfPath ==
    ASSUME IInv, ReadKept, WalkKept, Climbing,
           phase = "peak", todo = {}, ~req.adjustBoth
    PROVE  Peaks(PeakBudget, gap + PeakShift)
<1> USE DEF IInv, Typed
<1>1. /\ walk.spent = AllNeed /\ walk.shift = Rise(eligible)
      /\ AllNeed \in Nat /\ gap \in Int
      /\ walk.shift \in Int /\ walk.high \in Nat /\ walk.at \subseteq Nat
  BY WalkedAll, WholeNeed DEF WalkTyped
<1>2. CASE req.strategy = "Greedy"
  <2>1. PeakBudget = walk.at /\ PeakShift = walk.high /\ Share = 1
    BY <1>2 DEF PeakBudget, PeakShift, Share
  <2>2. Top(walk.at) = SoFar
    BY <1>1 DEF Top, SoFar
  <2>3. (gap + walk.high) * 1 = gap + walk.high
    BY <1>1
  <2>4. walk.at \subseteq 0..AllNeed
    <3>1. ASSUME NEW b \in walk.at PROVE b = SoFar
      BY <1>2, <3>1 DEF Climbing, SoFar
    <3> QED  BY <1>1, <1>2, <3>1 DEF Climbing
  <2>5. ASSUME AllNeed = 0 PROVE walk.high = 0
    <3>1. PathGap(0, 1) = gap * 1 * Share
      BY GapAtStart
    <3>2. SoFar = 0
      <4>1. 0..0 = {0}
        OBVIOUS
      <4>2. walk.at \subseteq {0}
        BY <2>4, <2>5, <4>1
      <4>3. CASE walk.at = {}
        BY <1>1, <2>5, <4>3 DEF SoFar
      <4>4. CASE walk.at # {}
        <5>1. (CHOOSE b \in walk.at : TRUE) \in walk.at
          BY <4>4
        <5> QED  BY <4>2, <4>4, <5>1 DEF SoFar
      <4> QED  BY <4>3, <4>4
    <3>3. PathGap(0, 1) = gap + walk.high
      BY <1>2, <3>2 DEF Climbing
    <3> QED  BY <1>1, <2>1, <3>1, <3>3
  <2>6. AllNeed = 0 => gap + walk.high = gap
    BY <1>1, <2>5
  <2> QED  BY <1>1, <1>2, <2>1, <2>2, <2>3, <2>4, <2>6 DEF Climbing, Peaks
<1>3. CASE req.strategy # "Greedy"
  <2>1. Share = AllNeed /\ 1 \in Nat \ {0}
    BY <1>3 DEF Share
  <2>2. ASSUME NEW b \in Int
        PROVE  PathGap(b, 1) = gap * AllNeed + b * walk.shift
               /\ gap * AllNeed \in Int /\ b * walk.shift \in Int
    <3>1. PathGap(b, 1) = gap * 1 * AllNeed + b * Rise(eligible)
      BY <1>3, <2>1, EquitableGap
    <3> QED  BY <1>1, <3>1
  <2>3. CASE walk.shift >= 0
    <3>1. PeakBudget = {} /\ PeakShift = walk.shift /\ Top({}) = AllNeed
      BY <1>3, <2>3 DEF PeakBudget, PeakShift, Top
    <3>2. (gap + walk.shift) * AllNeed = gap * AllNeed + AllNeed * walk.shift
      BY <1>1
    <3>3. ASSUME NEW b \in 0..AllNeed
          PROVE  b * walk.shift <= AllNeed * walk.shift
      BY <1>1, <2>3
    <3>4. PathGap(AllNeed, 1) = (gap + walk.shift) * AllNeed
      BY <1>1, <2>2, <3>2
    <3>5. ASSUME NEW b \in 0..AllNeed
          PROVE  PathGap(b, 1) <= (gap + walk.shift) * AllNeed /\ ~(b > AllNeed)
      <4>1. b \in Int /\ AllNeed * walk.shift \in Int
        BY <1>1
      <4> QED  BY <1>1, <2>2, <3>2, <3>3, <4>1
    <3>6. AllNeed = 0 => gap + walk.shift = gap
      BY <1>1, WholeNeed
    <3> QED  BY <2>1, <3>1, <3>4, <3>5, <3>6 DEF Peaks
  <2>4. CASE ~(walk.shift >= 0)
    <3>1. PeakBudget = {0} /\ PeakShift = 0 /\ Top({0}) = 0
      BY <1>3, <2>4 DEF PeakBudget, PeakShift, Top
    <3>2. gap + 0 = gap /\ {0} \subseteq 0..AllNeed
      BY <1>1
    <3>3. PathGap(0, 1) = gap * AllNeed
      <4>1. 0 * walk.shift = 0
        BY <1>1
      <4> QED  BY <2>2, <4>1
    <3>4. ASSUME NEW b \in 0..AllNeed
          PROVE  /\ PathGap(b, 1) <= gap * AllNeed
                 /\ b > 0 => PathGap(b, 1) < gap * AllNeed
      <4>1. b \in Int /\ b >= 0 /\ walk.shift < 0
        BY <1>1, <2>4
      <4>2. b * walk.shift <= 0 /\ (b > 0 => b * walk.shift < 0)
        BY <1>1, <4>1
      <4> QED  BY <2>2, <4>1, <4>2
    <3> QED  BY <2>1, <3>1, <3>2, <3>3, <3>4 DEF Peaks
  <2> QED  BY <2>3, <2>4
<1> QED  BY <1>2, <1>3

\* The peak and the best gap a call has decided on are those of its path.
PeakKept == Ruled /\ ~req.adjustBoth => Peaks(peak, best)

\* The peak is set where the walk ends, and is kept.
LEMMA PeakStep ==
    ASSUME IInv, ReadKept, WalkKept, Climbing, PeakKept, [Next]_vars
    PROVE  PeakKept'
<1>1. ASSUME UNCHANGED <<inputs, figures>>
      PROVE  \A p, x : Peaks(p, x)' <=> Peaks(p, x)
  <2>1. /\ AllNeed' = AllNeed /\ Share' = Share /\ gap' = gap
        /\ \A b, u : PathGap(b, u)' = PathGap(b, u)
    BY <1>1, PathFrozen
  <2>2. \A p : Top(p)' = Top(p)
    BY <2>1 DEF Top
  <2> QED  BY <2>1, <2>2 DEF Peaks
<1>2. CASE Decide
  <2>1. /\ phase = "peak" /\ todo = {} /\ UNCHANGED <<inputs, figures>>
        /\ best' = gap + PeakShift /\ peak' = PeakBudget
    BY <1>2 DEF Decide
  <2>2. req' = req
    BY <2>1, PathFrozen
  <2>3. ~req.adjustBoth => Peaks(peak', best')
    BY <2>1, PeakOfPath
  <2>4. Peaks(peak, best)' <=> Peaks(peak', best')
    BY <1>1, <2>1
  <2> QED  BY <2>2, <2>3, <2>4 DEF PeakKept
<1>3. ASSUME UNCHANGED <<inputs, figures, best, peak>>, Ruled' => Ruled
      PROVE  PeakKept'
  <2>1. req' = req
    BY <1>3, PathFrozen
  <2>2. Peaks(peak, best)' <=> Peaks(peak', best')
    BY <1>1, <1>3
  <2>3. Peaks(peak', best') <=> Peaks(peak, best)
    BY <1>3
  <2> QED  BY <1>3, <2>1, <2>2, <2>3 DEF PeakKept
<1>4. \/ \E r \in Rows : Pass(r) \/ Cross(r) \/ PayRow(r)
      \/ SetCap \/ Report \/ Stop \/ UNCHANGED vars
      => UNCHANGED <<inputs, figures, best, peak>> /\ (Ruled' => Ruled)
  BY DEF Pass, Cross, PayRow, SetCap, Report, Stop, vars, rules, Ruled
<1>5. \/ Refuse \/ FitFails \/ FitLine \/ TurnToReference \/ StartWalk
      \/ \E r \in Rows : ReadCompared(r) \/ ReadReference(r) \/ WalkOn(r)
      => ~Ruled'
  BY DEF Refuse, FitFails, FitLine, TurnToReference, StartWalk, ReadCompared,
     ReadReference, WalkOn, Ruled
<1> QED
  BY <1>2, <1>3, <1>4, <1>5 DEF Next, PeakKept

\* The budget l is the least at which the path reaches the gap g.
Arrives(l, g) ==
    /\ l.num \in Nat /\ l.den \in Nat \ {0} /\ l.num <= AllNeed * l.den
    /\ PathGap(l.num, l.den) = g * l.den * Share
    /\ \A c \in 0..(l.num - 1) : PathGap(c, l.den) < g * l.den * Share

\* A call without reference raises has only compared rows to raise.
LEMMA ComparedOnly ==
    ASSUME IInv, ReadKept, ~req.adjustBoth
    PROVE  /\ eligible \subseteq Compared /\ needC = AllNeed
           /\ req.target = "Reference" => OneForOne
<1>1. eligible \subseteq Compared
  BY DEF ReadKept, Eligible, IInv, Typed, FiguresTyped, Rows
<1>2. needR = 0
  <2>1. eligible \cap Reference = {}
    BY <1>1, Groups
  <2>2. needR = SumFunctionOnSet(Shortfalls, {})
    <3>1. needR = SumFunctionOnSet(Shortfalls, eligible \cap Reference)
      BY DEF ReadKept
    <3> QED  BY <2>1, <3>1
  <2> QED  BY <2>2, SumEmpty
<1>3. req.target = "Reference" => OneForOne
  BY <1>1 DEF OneForOne, Weight
<1> QED
  BY <1>1, <1>2, <1>3 DEF AllNeed, IInv, Typed, FiguresTyped

\* A reachable goal is above the gap and within the peak, and somebody is
\* eligible.
LEMMA ReachableNeeds ==
    ASSUME IInv, ReadKept, WalkKept, Climbing, phase = "peak", todo = {},
           Kind = "Reachable", NEW g \in req.goal
    PROVE  /\ AllNeed > 0 /\ ~req.adjustBoth
           /\ g \in Int /\ g > gap /\ g <= gap + PeakShift
<1> USE DEF IInv, Typed
<1>1. ~Invalid /\ ~req.adjustBoth
  BY DEF Accepted, Invalid
<1>2. g \in Int /\ g > gap
  BY <1>1, ReachableFacts
<1>3. PeakShift \in Int /\ gap \in Int
  BY DEF PeakShift, WalkTyped, FiguresTyped
<1>4. g <= gap + PeakShift
  <2>1. ~(g > gap + PeakShift)
    BY DEF Kind
  <2> QED  BY <1>2, <1>3, <2>1
<1>5. ASSUME AllNeed = 0 PROVE FALSE
  <2>1. gap + PeakShift = gap
    BY <1>1, <1>5, PeakOfPath DEF Peaks
  <2> QED  BY <1>2, <1>3, <1>4, <2>1
<1> QED
  BY <1>1, <1>2, <1>4, <1>5, WholeNeed

\* On an unpooled line a dollar closes a dollar of the gap, whoever gets it.
LEMMA LeastUnpooled ==
    ASSUME IInv, ReadKept, WalkKept, Climbing, phase = "peak", todo = {},
           Kind = "Reachable", NEW g \in req.goal, req.target = "Reference"
    PROVE  Arrives(LeastFor(g), g)
<1> USE DEF IInv, Typed
<1> DEFINE n == g - gap
<1>1. /\ AllNeed \in Nat \ {0} /\ ~req.adjustBoth /\ gap \in Int
      /\ g \in Int /\ g > gap /\ g <= gap + PeakShift
      /\ OneForOne /\ needC = AllNeed /\ PeakShift \in Int
  BY ReachableNeeds, ComparedOnly, WholeNeed DEF PeakShift, WalkTyped
<1>2. n \in Nat /\ gap + n = g
  BY <1>1
<1>3. Peaks(PeakBudget, gap + PeakShift)
  BY <1>1, PeakOfPath
<1>4. Top(PeakBudget) \in 0..AllNeed
  <2>1. PeakBudget \subseteq 0..AllNeed
    BY <1>3 DEF Peaks
  <2>2. CASE PeakBudget = {}
    BY <1>1, <2>2 DEF Top
  <2>3. CASE PeakBudget # {}
    <3>1. (CHOOSE b \in PeakBudget : TRUE) \in PeakBudget
      BY <2>3
    <3> QED  BY <2>1, <2>3, <3>1 DEF Top
  <2> QED  BY <2>2, <2>3
<1>5. \A b \in 0..AllNeed : PathGap(b, 1) = (gap + b) * Share
  <2>1. CASE req.strategy = "Greedy"
    <3>1. Share = 1 /\ walk.spent = AllNeed
      BY <2>1, WalkedAll DEF Share
    <3>2. \A b \in 0..AllNeed : PathGap(b, 1) = gap + b
      BY <1>1, <2>1, <3>1 DEF Climbing
    <3> QED  BY <1>1, <3>1, <3>2
  <2>2. CASE req.strategy # "Greedy"
    <3>1. Rise(eligible) = AllNeed
      <4>1. /\ IsFiniteSet(eligible)
            /\ \A q \in eligible : /\ q \in Rows /\ Shortfalls[q] \in Int
                                   /\ Shortfalls[q] = Shortfall(q)
        BY SetsOfRows DEF FiguresTyped
      <4>2. \A q \in eligible : Lifts(Weights)[q] = Shortfalls[q]
        BY <1>1, <4>1 DEF Lifts, Weights, OneForOne
      <4>3. Rise(eligible) = Need(eligible)
        BY <4>1, <4>2, SumSameTerms DEF Rise, Need
      <4> QED  BY <4>3, WholeNeed
    <3> SUFFICES ASSUME NEW b \in 0..AllNeed
                 PROVE  PathGap(b, 1) = (gap + b) * Share
      OBVIOUS
    <3>2. PathGap(b, 1) = gap * 1 * AllNeed + b * AllNeed
      <4>1. b \in Int /\ 1 \in Nat \ {0}
        BY <1>1
      <4> QED  BY <2>2, <3>1, <4>1, EquitableGap
    <3>3. (gap + b) * AllNeed = gap * 1 * AllNeed + b * AllNeed
      BY <1>1
    <3> QED  BY <2>2, <3>2, <3>3 DEF Share
  <2> QED  BY <2>1, <2>2
<1>6. Share \in Nat \ {0}
  BY <1>1 DEF Share
<1>7. PeakShift <= AllNeed
  <2> DEFINE t == Top(PeakBudget)
  <2>1. t \in 0..AllNeed /\ (gap + t) * Share = (gap + PeakShift) * Share
    BY <1>3, <1>4, <1>5 DEF Peaks
  <2> HIDE DEF t
  <2>2. gap + t \in Int /\ gap + PeakShift \in Int
    BY <1>1, <2>1
  <2>3. gap + PeakShift <= gap + t
    BY <1>6, <2>1, <2>2, InParts
  <2> QED  BY <1>1, <2>1, <2>3
<1>8. n <= AllNeed /\ LeastFor(g) = Whole(n)
  <2>1. n <= AllNeed
    BY <1>1, <1>7
  <2>2. Lesser(n, AllNeed) = n
    BY <2>1 DEF Lesser
  <2> QED  BY <1>1, <2>1, <2>2 DEF LeastFor
<1> HIDE DEF n
<1>9. PathGap(n, 1) = g * 1 * Share
  <2>1. n \in 0..AllNeed /\ g * 1 = g
    BY <1>1, <1>2, <1>8
  <2> QED  BY <1>2, <1>5, <2>1
<1>10. ASSUME NEW c \in 0..(n - 1) PROVE PathGap(c, 1) < g * 1 * Share
  <2>1. c \in 0..AllNeed /\ gap + c < g /\ gap + c \in Int /\ g * 1 = g
    BY <1>1, <1>2, <1>8
  <2>2. (gap + c) * Share < g * Share
    BY <1>1, <1>6, <2>1, InParts
  <2> QED  BY <1>5, <2>1, <2>2
<1>11. n <= AllNeed * 1 /\ 1 \in Nat \ {0}
  BY <1>1, <1>8
<1> QED
  BY <1>2, <1>8, <1>9, <1>10, <1>11 DEF Arrives, Whole

\* On the pooled line an Equitable budget is the goal's share of the climb.
LEMMA LeastEquitable ==
    ASSUME IInv, ReadKept, WalkKept, Climbing, phase = "peak", todo = {},
           Kind = "Reachable", NEW g \in req.goal,
           req.target # "Reference", req.strategy # "Greedy"
    PROVE  Arrives(LeastFor(g), g)
<1> USE DEF IInv, Typed
<1> DEFINE n == (g - gap) * AllNeed
           d == walk.shift
<1>1. /\ AllNeed \in Nat \ {0} /\ ~req.adjustBoth /\ gap \in Int
      /\ g \in Int /\ g > gap /\ needC = AllNeed /\ d = Rise(eligible)
  BY ReachableNeeds, ComparedOnly, WholeNeed, WalkedAll
<1>2. d >= g - gap /\ d \in Int
  BY <1>1, ReachableFacts DEF Accepted, WalkTyped
<1>3. d \in Nat \ {0} /\ g - gap \in Nat
  BY <1>1, <1>2
<1>4. n \in Nat /\ n <= AllNeed * d
  <2>1. (g - gap) * AllNeed <= d * AllNeed
    BY <1>1, <1>2, <1>3, InParts
  <2>2. d * AllNeed = AllNeed * d /\ n \in Nat
    BY <1>1, <1>3
  <2> QED  BY <2>1, <2>2
<1>5. LeastFor(g) = [num |-> n, den |-> d]
  <2>1. Lesser(n, AllNeed * d) = n
    BY <1>4 DEF Lesser
  <2> QED  BY <1>1, <2>1 DEF LeastFor
<1>6. ASSUME NEW c \in Int
      PROVE  PathGap(c, d) = gap * d * AllNeed + c * d
  BY <1>1, <1>3, EquitableGap
<1>7. g * d * AllNeed = gap * d * AllNeed + n * d
  <2> DEFINE k == g - gap
  <2>1. k \in Int /\ g = gap + k
    BY <1>1
  <2> HIDE DEF k, d
  <2>2. (gap + k) * d * AllNeed = gap * d * AllNeed + k * AllNeed * d
    BY <1>1, <1>3, <2>1
  <2> QED  BY <2>1, <2>2 DEF k
<1> HIDE DEF n, d
<1>8. PathGap(n, d) = g * d * Share
  BY <1>4, <1>6, <1>7 DEF Share
<1>9. ASSUME NEW c \in 0..(n - 1) PROVE PathGap(c, d) < g * d * Share
  <2>1. c \in Int /\ c < n /\ n \in Int
    BY <1>4
  <2>2. c * d < n * d
    BY <1>3, <2>1, InParts
  <2>3. c * d \in Int /\ n * d \in Int /\ gap * d * AllNeed \in Int
    BY <1>1, <1>3, <2>1
  <2> QED  BY <1>6, <1>7, <2>1, <2>2, <2>3 DEF Share
<1> QED
  BY <1>3, <1>4, <1>5, <1>8, <1>9 DEF Arrives

\* The pooled Greedy walk stops where the path crosses the goal.
LEMMA LeastCrossed ==
    ASSUME IInv, ReadKept, WalkKept, Crossing, NEW r \in Rows, Cross(r),
           NEW g \in req.goal
    PROVE  Arrives(rule'.least, g)
<1> USE DEF IInv, Typed
<1> DEFINE W == Weight(r)
           k == g - gap - walk.shift
           n == walk.spent * W + k
<1>1. phase = "cross" /\ OnTheWay /\ FirstToPay(r) /\ req.strategy = "Greedy"
  BY DEF Cross, OnTheWay, Crossing
<1>2. /\ walk.spent \in Nat /\ walk.shift \in Int /\ gap \in Int
      /\ W \in Int /\ Shortfall(r) \in Nat \ {0}
      /\ W * Shortfall(r) \in Int
      /\ Need(Walked \cup {r}) = walk.spent + Shortfall(r)
      /\ Leading(Walked \cup {r})
  BY <1>1, NextOnTheWay
<1>3. PICK h \in req.goal :
          /\ Crosses(r, h)
          /\ rule' = [rule EXCEPT !.least =
                 [num |-> Lesser(walk.spent * W + h - gap - walk.shift,
                                 needC * W),
                  den |-> W]]
  BY DEF Cross
<1>4. h = g /\ g \in Int /\ g > gap + walk.shift
  BY <1>1 DEF InputsTyped, Request, Walking
<1>5. W \in Nat \ {0} /\ gap + walk.shift + W * Shortfall(r) >= g
  BY <1>2, <1>3, <1>4 DEF Crosses
<1>6. k \in Nat \ {0} /\ k <= Shortfall(r) * W
  <2>1. W * Shortfall(r) = Shortfall(r) * W
    BY <1>2
  <2> QED  BY <1>2, <1>4, <1>5, <2>1
<1>7. ~req.adjustBoth /\ needC = AllNeed /\ AllNeed \in Nat
  <2>1. ~req.adjustBoth
    BY <1>1, <1>4 DEF Accepted, Invalid
  <2> QED  BY <2>1, ComparedOnly, WholeNeed
<1>8. walk.spent + Shortfall(r) <= AllNeed
  <2>1. Need(Walked \cup {r}) <= Need(eligible)
    <3>1. /\ IsFiniteSet(eligible) /\ Walked \cup {r} \subseteq eligible
          /\ \A q \in eligible : Shortfalls[q] \in Nat
      <4>1. eligible \subseteq Rows /\ Walked \cup {r} \subseteq eligible
        BY <1>2 DEF FiguresTyped, Leading
      <4> QED  BY <4>1, SetsOfRows DEF Classified
    <3> QED  BY <3>1, SumNat DEF Need
  <2> QED  BY <1>2, <2>1, WholeNeed
<1> HIDE DEF W, k
<1>9. /\ walk.spent * W \in Nat /\ Shortfall(r) * W \in Nat /\ AllNeed * W \in Nat
      /\ (walk.spent + Shortfall(r)) * W = walk.spent * W + Shortfall(r) * W
      /\ (walk.spent + Shortfall(r)) * W <= AllNeed * W
  <2>1. walk.spent + Shortfall(r) \in Int /\ Shortfall(r) \in Int
    BY <1>2
  <2>2. (walk.spent + Shortfall(r)) * W = walk.spent * W + Shortfall(r) * W
    BY <1>2, <1>5
  <2>3. (walk.spent + Shortfall(r)) * W <= AllNeed * W
    BY <1>5, <1>7, <1>8, <2>1, InParts
  <2>4. walk.spent * W \in Nat /\ Shortfall(r) * W \in Nat /\ AllNeed * W \in Nat
    BY <1>2, <1>5, <1>7
  <2> QED  BY <2>2, <2>3, <2>4
<1>10. n \in Nat /\ n <= AllNeed * W
  BY <1>6, <1>9
<1>11. rule'.least = [num |-> n, den |-> W]
  <2>1. walk.spent * W + h - gap - walk.shift = n
    BY <1>2, <1>4, <1>9 DEF k
  <2>2. Lesser(walk.spent * W + h - gap - walk.shift, needC * W) = n
    BY <1>7, <1>10, <2>1 DEF Lesser
  <2> HIDE DEF n
  <2>3. rule' = [rule EXCEPT !.least = [num |-> n, den |-> W]]
    BY <1>3, <2>2
  <2> QED  BY <2>3 DEF RulesTyped
<1>12. ASSUME NEW c \in Int, walk.spent * W <= c, c <= n
       PROVE  PathGap(c, W) = (gap + walk.shift) * W + W * (c - walk.spent * W)
  <2>1. c <= (walk.spent + Shortfall(r)) * W
    BY <1>6, <1>9, <1>12
  <2> QED  BY <1>1, <1>5, <1>12, <2>1, PathOnward DEF W
<1>13. g * W = (gap + walk.shift) * W + W * k
  <2>1. g = (gap + walk.shift) + k
    BY <1>2, <1>4 DEF k
  <2>2. ((gap + walk.shift) + k) * W = (gap + walk.shift) * W + W * k
    BY <1>2, <1>5, <1>6
  <2> QED  BY <2>1, <2>2
<1>14. Share = 1 /\ g * W * 1 = g * W
  BY <1>1, <1>4, <1>5 DEF Share
<1>15. PathGap(n, W) = g * W * Share
  <2>1. n - walk.spent * W = k /\ n \in Int /\ walk.spent * W <= n
    BY <1>6, <1>9
  <2> QED  BY <1>12, <1>13, <1>14, <2>1
<1>16. ASSUME NEW c \in 0..(n - 1) PROVE PathGap(c, W) < g * W * Share
  <2>1. c \in Nat /\ c < n
    BY <1>10
  <2>2. CASE c <= walk.spent * W
    <3>1. c \in 0..(walk.spent * W)
      BY <1>9, <2>1, <2>2
    <3>2. PathGap(c, W) < g * W
      BY <1>1, <1>5, <3>1 DEF Crossing
    <3> QED  BY <1>14, <3>2
  <2>3. CASE c > walk.spent * W
    <3> DEFINE d == c - walk.spent * W
    <3>1. d \in Int /\ d < k
      BY <1>6, <1>9, <2>1
    <3>2. PathGap(c, W) = (gap + walk.shift) * W + W * d
      <4>1. c \in Int /\ walk.spent * W <= c /\ c <= n
        BY <1>9, <1>10, <2>1, <2>3
      <4> QED  BY <1>12, <4>1
    <3> HIDE DEF d
    <3>3. W * d < W * k /\ W * d \in Int /\ W * k \in Int
      BY <1>5, <1>6, <3>1
    <3>4. (gap + walk.shift) * W \in Int
      BY <1>2, <1>5
    <3> QED  BY <1>13, <1>14, <3>2, <3>3, <3>4
  <2> QED  BY <1>9, <2>1, <2>2, <2>3
<1> HIDE DEF n
<1> QED
  BY <1>5, <1>10, <1>11, <1>15, <1>16 DEF Arrives

\* A rule that has called the goal reachable has found its least budget, or
\* is still walking to it; only a call without a goal has no target.
RuleKept ==
    Ruled =>
        /\ rule.kind = "NoTarget" <=> req.goal = {}
        /\ rule.kind = "Reachable" => AllNeed > 0 /\ req.goal # {}
        /\ rule.kind = "Reachable" /\ phase # "cross" =>
               \A g \in req.goal : Arrives(rule.least, g)

\* The rule is decided on the peak, or at the row that crosses the goal, and is kept.
LEMMA RuleStep ==
    ASSUME IInv, ReadKept, WalkKept, Climbing, Crossing, RuleKept, [Next]_vars
    PROVE  RuleKept'
<1> USE DEF IInv, Typed
<1>1. ASSUME UNCHANGED <<inputs, figures>>
      PROVE  /\ AllNeed' = AllNeed /\ req' = req
             /\ \A l, g : Arrives(l, g)' <=> Arrives(l, g)
  <2>1. /\ AllNeed' = AllNeed /\ Share' = Share /\ req' = req
        /\ \A b, u : PathGap(b, u)' = PathGap(b, u)
    BY <1>1, PathFrozen
  <2> QED  BY <2>1 DEF Arrives
<1>2. CASE Decide
  <2>1. /\ phase = "peak" /\ todo = {} /\ UNCHANGED <<inputs, figures>>
        /\ rule'.kind = Kind
    BY <1>2 DEF Decide, RulesTyped
  <2>2. Kind = "NoTarget" <=> req.goal = {}
    BY DEF Kind
  <2>3. Kind = "Reachable" => AllNeed > 0 /\ req.goal # {}
    <3>1. Kind = "Reachable" => \E g \in req.goal : TRUE
      BY <2>2
    <3> QED  BY <2>1, <3>1, ReachableNeeds
  <2>4. ASSUME Kind = "Reachable", phase' # "cross", NEW g \in req.goal
        PROVE  Arrives(rule'.least, g)
    <3>1. PICK h \in req.goal : rule' = [kind |-> Kind, least |-> LeastFor(h)]
      BY <1>2, <2>4 DEF Decide
    <3>2. h = g /\ rule'.least = LeastFor(g)
      BY <3>1 DEF InputsTyped
    <3>3. ~(req.target = "Pooled" /\ req.strategy = "Greedy")
      BY <1>2, <2>4 DEF Decide
    <3>4. CASE req.target = "Reference"
      BY <2>1, <2>4, <3>2, <3>4, LeastUnpooled
    <3>5. CASE req.target # "Reference"
      <4>1. req.strategy # "Greedy"
        BY <3>3, <3>5 DEF InputsTyped, Request
      <4> QED  BY <2>1, <2>4, <3>2, <3>5, <4>1, LeastEquitable
    <3> QED  BY <3>4, <3>5
  <2>5. ASSUME NEW g \in req.goal
        PROVE  Arrives(rule.least, g)' <=> Arrives(rule'.least, g)
    BY <1>1, <2>1
  <2> QED  BY <1>1, <2>1, <2>2, <2>3, <2>4, <1>1 DEF RuleKept
<1>3. ASSUME NEW r \in Rows, Cross(r) PROVE RuleKept'
  <2>1. /\ phase = "cross" /\ Ruled /\ UNCHANGED <<inputs, figures>>
        /\ rule.kind = "Reachable"
    BY <1>3 DEF Cross, Ruled, Crossing
  <2>2. rule'.kind = rule.kind
    BY <1>3 DEF Cross, RulesTyped
  <2>3. \A g \in req.goal : Arrives(rule'.least, g)
    BY <1>3, LeastCrossed
  <2> QED  BY <1>1, <2>1, <2>2, <2>3 DEF RuleKept
<1>4. ASSUME UNCHANGED <<inputs, figures, rule>>, Ruled' => Ruled,
             phase = "cross" => phase' = "cross"
      PROVE  RuleKept'
  BY <1>1, <1>4 DEF RuleKept
<1>5. \/ \E r \in Rows : Pass(r) \/ PayRow(r)
      \/ SetCap \/ Report \/ Stop \/ UNCHANGED vars
      => /\ UNCHANGED <<inputs, figures, rule>> /\ (Ruled' => Ruled)
         /\ phase = "cross" => phase' = "cross"
  BY DEF Pass, PayRow, SetCap, Report, Stop, vars, rules, Ruled
<1>6. \/ Refuse \/ FitFails \/ FitLine \/ TurnToReference \/ StartWalk
      \/ \E r \in Rows : ReadCompared(r) \/ ReadReference(r) \/ WalkOn(r)
      => ~Ruled'
  BY DEF Refuse, FitFails, FitLine, TurnToReference, StartWalk, ReadCompared,
     ReadReference, WalkOn, Ruled
<1> QED
  BY <1>2, <1>3, <1>4, <1>5, <1>6 DEF Next, RuleKept

-----------------------------------------------------------------------------
(* Paying along the path *)

\* The rows paid so far, in the pay order, and what the path gives them.
Paid == Visited \cap eligible
CapKept == Paying => Effective(cap)
PaidAlong ==
    Paying /\ req.strategy = "Greedy" =>
        /\ spend = Lesser(cap.num, Need(Paid) * cap.den)
        /\ \A r \in Paid : pay[r] = PathPay(r, cap.num, cap.den)

\* The cap a call pays with is the tighter of its caps.
LEMMA CapStep ==
    ASSUME CapKept, [Next]_vars
    PROVE  CapKept'
<1>1. ASSUME UNCHANGED <<inputs, figures, rule, peak>>
      PROVE  \A c : Effective(c)' <=> Effective(c)
  <2>1. AllNeed' = AllNeed /\ UserCap' = UserCap /\ TargetCap' = TargetCap
    BY <1>1 DEF inputs, figures, AllNeed, UserCap, TargetCap
  <2>2. Caps' = Caps /\ Uncapped' = Uncapped
    BY <2>1 DEF Caps, Uncapped
  <2> QED  BY <2>2 DEF Effective
<1>2. CASE SetCap
  <2>1. Effective(cap') /\ UNCHANGED <<inputs, figures, rule, peak>>
    BY <1>2 DEF SetCap
  <2>2. Effective(cap)' <=> Effective(cap')
    BY <1>1, <2>1
  <2> QED  BY <2>1, <2>2 DEF CapKept
<1>3. ASSUME UNCHANGED <<inputs, figures, rules>>, Paying' => Paying
      PROVE  CapKept'
  <2>1. Effective(cap)' <=> Effective(cap)
    <3>1. Effective(cap)' <=> Effective(cap')
      BY <1>1, <1>3 DEF rules
    <3> QED  BY <1>3, <3>1 DEF rules
  <2> QED  BY <1>3, <2>1 DEF CapKept
<1>4. \/ \E r \in Rows : PayRow(r)
      \/ Report \/ Stop \/ UNCHANGED vars
      => UNCHANGED <<inputs, figures, rules>> /\ (Paying' => Paying)
  BY DEF PayRow, Report, Stop, vars, Paying
<1>5. \/ Refuse \/ FitFails \/ FitLine \/ TurnToReference \/ StartWalk \/ Decide
      \/ \E r \in Rows : \/ ReadCompared(r) \/ ReadReference(r) \/ WalkOn(r)
                         \/ Pass(r) \/ Cross(r)
      => ~Paying'
  BY DEF Refuse, FitFails, FitLine, TurnToReference, StartWalk, Decide,
     ReadCompared, ReadReference, WalkOn, Pass, Cross, Paying
<1> QED
  BY <1>2, <1>3, <1>4, <1>5 DEF Next, CapKept

\* The next row is paid what the path gives it.
LEMMA PaidAlongRow ==
    ASSUME IInv, PaidAlong, NEW r \in Rows, PayRow(r), req.strategy = "Greedy"
    PROVE  PaidAlong'
<1> USE DEF IInv, Typed
<1> DEFINE N == Need(Paid) * cap.den
           D == Shortfall(r) * cap.den
<1>1. /\ phase = "paying" /\ Paying /\ todo' = todo \ {r}
      /\ UNCHANGED <<inputs, figures, rules>>
      /\ pay' = [pay EXCEPT ![r] = Payment(r)] /\ pay \in [Rows -> Nat]
      /\ spend' = spend + Payment(r) /\ spend \in Nat
      /\ cap.num \in Nat /\ cap.den \in Nat \ {0}
  BY UnitFacts DEF PayRow, Paying, PaymentsTyped
<1>2. /\ req' = req /\ cap' = cap /\ eligible' = eligible /\ listed' = listed
      /\ \A V : Need(V)' = Need(V)
      /\ \A q, b, u : PathPay(q, b, u)' = PathPay(q, b, u)
  BY <1>1, PathFrozen, TermsFrozen
<1>3. /\ r \in todo /\ r \in listed /\ r \notin Visited
      /\ listed \ (todo \ {r}) = Visited \cup {r}
      /\ \A q \in todo \ {r} : Before(r, q)
  BY NextInLine
<1>4. Visited' = Visited \cup {r}
  BY <1>1, <1>2, <1>3 DEF Visited
<1>5. /\ spend = Lesser(cap.num, N)
      /\ \A q \in Paid : pay[q] = PathPay(q, cap.num, cap.den)
  BY <1>1 DEF PaidAlong
<1>6. /\ pay'[r] = Payment(r) /\ \A q \in Paid : pay'[q] = pay[q]
  BY <1>1, <1>3 DEF Paid
<1>7. CASE r \notin eligible
  <2>1. Paid' = Paid /\ Payment(r) = 0
    BY <1>2, <1>4, <1>7 DEF Paid, Payment
  <2>2. Need(Paid)' = Need(Paid)
    <3>1. Need(Paid)' = Need(Paid')
      BY <1>2
    <3> QED  BY <2>1, <3>1
  <2>3. spend' = spend
    BY <1>1, <2>1
  <2> QED  BY <1>2, <1>5, <1>6, <2>1, <2>2, <2>3 DEF PaidAlong
<1>8. CASE r \in eligible
  <2>1. Paid' = Paid \cup {r}
    BY <1>2, <1>4, <1>8 DEF Paid
  <2>2. Leading(Paid) /\ NextOf(Paid, r)
    <3>1. eligible \ Paid = eligible \cap todo
      BY <1>1 DEF Paid, Visited, Classified
    <3>2. Leading(Paid)
      BY <1>1, <3>1 DEF Leading, Paid, InOrder
    <3> QED  BY <1>3, <1>8, <3>1, <3>2 DEF NextOf
  <2>3. /\ Need(Paid) \in Nat /\ NeedAhead(r) = Need(Paid)
        /\ Need(Paid \cup {r}) = Need(Paid) + Shortfall(r)
        /\ Shortfall(r) \in Nat \ {0}
    BY <1>8, <2>2, NeedAheadFacts
  <2>4. /\ N \in Nat /\ D \in Nat
        /\ (Need(Paid) + Shortfall(r)) * cap.den = N + D
    BY <1>1, <2>3
  <2>5. Need(Paid)' = Need(Paid) + Shortfall(r)
    <3>1. Need(Paid)' = Need(Paid')
      BY <1>2
    <3>2. Need(Paid') = Need(Paid \cup {r})
      BY <2>1
    <3> QED  BY <2>3, <3>1, <3>2
  <2>6. /\ PathPay(r, cap.num, cap.den) = Within(cap.num - N, D)
        /\ Payment(r) = IF cap.num - spend > 0
                        THEN Lesser(D, cap.num - spend) ELSE 0
    <3>1. Due(r) = D
      BY DEF Due, Unit
    <3> QED  BY <1>8, <2>3, <3>1 DEF PathPay, Payment, Greedy
  <2> HIDE DEF N, D
  <2>7. Payment(r) = PathPay(r, cap.num, cap.den)
    BY <1>1, <1>5, <2>4, <2>6 DEF Lesser, Within
  <2>8. spend + Payment(r) = Lesser(cap.num, N + D)
    BY <1>1, <1>5, <2>4, <2>6 DEF Lesser
  <2>9. spend' = Lesser(cap'.num, Need(Paid)' * cap'.den)
    BY <1>1, <1>2, <2>4, <2>5, <2>8
  <2>10. \A q \in Paid' : pay'[q] = PathPay(q, cap.num, cap.den)
    BY <1>5, <1>6, <2>1, <2>7
  <2> QED  BY <1>2, <2>9, <2>10 DEF PaidAlong
<1> QED  BY <1>7, <1>8

\* Every step keeps the schedule on its path.
LEMMA PaidAlongStep ==
    ASSUME IInv, PaidAlong, [Next]_vars
    PROVE  PaidAlong'
<1> USE DEF IInv, Typed
<1>1. CASE SetCap
  <2>1. /\ Visited' = {} /\ UNCHANGED <<inputs, figures, payments>> /\ ~Paying
    BY <1>1 DEF SetCap, Visited, figures, Paying
  <2>2. Paid' = {} /\ spend' = 0
    BY <2>1 DEF Paid, payments, InOrder
  <2>3. Need(Paid)' = 0
    <3>1. Need(Paid)' = Need(Paid')
      BY <2>1, PathFrozen
    <3>2. Need({}) = 0
      BY SumEmpty DEF Need
    <3> QED  BY <2>2, <3>1, <3>2
  <2>4. cap'.num \in Nat /\ 0 * cap'.den = 0
    BY RulesStep DEF RulesTyped, Fraction
  <2> QED  BY <2>2, <2>3, <2>4 DEF PaidAlong, Lesser
<1>2. ASSUME NEW r \in Rows, PayRow(r) PROVE PaidAlong'
  <2>1. req' = req
    BY <1>2, PathFrozen DEF PayRow
  <2> QED  BY <1>2, <2>1, PaidAlongRow DEF PaidAlong
<1>3. ASSUME UNCHANGED <<inputs, todo, figures, rules, payments>>,
             Paying' => Paying
      PROVE  PaidAlong'
  <2>1. /\ req' = req /\ cap' = cap /\ Paid' = Paid /\ spend' = spend
        /\ pay' = pay
    BY <1>3 DEF inputs, figures, rules, payments, Paid, Visited
  <2>2. /\ Need(Paid)' = Need(Paid)
        /\ \A q, b, u : PathPay(q, b, u)' = PathPay(q, b, u)
    <3>1. Need(Paid)' = Need(Paid') /\ Need(Paid') = Need(Paid)
      BY <1>3, <2>1, PathFrozen
    <3> QED  BY <1>3, <3>1, PathFrozen
  <2> QED  BY <1>3, <2>1, <2>2 DEF PaidAlong
<1>4. Report \/ Stop \/ UNCHANGED vars
      => UNCHANGED <<inputs, todo, figures, rules, payments>> /\ (Paying' => Paying)
  BY DEF Report, Stop, vars, Paying
<1>5. \/ Refuse \/ FitFails \/ FitLine \/ TurnToReference \/ StartWalk \/ Decide
      \/ \E r \in Rows : \/ ReadCompared(r) \/ ReadReference(r) \/ WalkOn(r)
                         \/ Pass(r) \/ Cross(r)
      => ~Paying'
  BY DEF Refuse, FitFails, FitLine, TurnToReference, StartWalk, Decide,
     ReadCompared, ReadReference, WalkOn, Pass, Cross, Paying
<1> QED
  BY <1>1, <1>2, <1>3, <1>4, <1>5 DEF Next, PaidAlong

\* What a call that is paying, or done, knows of its path.
OnPath ==
    /\ IInv /\ ReadKept /\ PaidKept /\ Reported
    /\ PeakKept /\ RuleKept /\ CapKept /\ PaidAlong

\* That, and what the walks along the path know.
PathInv == OnPath /\ WalkKept /\ Climbing /\ Crossing

\* A call just asked for is on the path.
LEMMA PathInit == Begun => PathInv
<1> SUFFICES ASSUME Begun PROVE PathInv
  OBVIOUS
<1>1. phase = "asked"
  BY DEF Begun, Asked
<1>2. /\ WalkKept /\ Climbing /\ Crossing
      /\ PeakKept /\ RuleKept /\ CapKept /\ PaidAlong
  BY <1>1 DEF WalkKept, OnTheWay, Climbing, Crossing, PeakKept, RuleKept,
     CapKept, PaidAlong, Paying, Ruled
<1> QED
  BY <1>2, Established, ReadInit, PaidInit, ReportInit DEF PathInv, OnPath

\* Every step keeps the call on the path.
LEMMA PathStep == PathInv /\ [Next]_vars => PathInv'
  BY Preserved, ReadStep, PaidStep, ReportStep, WalkKeptStep, ClimbingStep,
     CrossingStep, PeakStep, RuleStep, CapStep, PaidAlongStep
  DEF PathInv, OnPath

\* A call is on its path in every reachable state.
LEMMA OnPathAlways == Spec => []OnPath
<1>1. PathInv => OnPath
  BY DEF PathInv
<1> QED
  BY <1>1, Opened, PathInit, PathStep, PTL DEF Spec

\* In every state of a call the two costs are the money spent, which is
\* within the budget and within the need, for both strategies.
THEOREM SpendingIsBounded == Spec => []SpendIsBounded
<1>1. OnPath => SpendIsBounded
  BY BoundedOnPath DEF OnPath
<1> QED  BY <1>1, OnPathAlways, PTL

\* Everyone of the compared group still below the line is counted once, and
\* the unfunded money is what the eligible ones of them are short of.
THEOREM CountedOnce == Spec => []StillBelowIsCounted
<1>1. OnPath => StillBelowIsCounted
  BY CountedOnPath DEF OnPath
<1> QED  BY <1>1, OnPathAlways, PTL

\* The reported peak is the path's.
LEMMA PeakOnPath == OnPath => BestIsThePeak
  BY DEF OnPath, PeakKept, Peaks, Top, BestIsThePeak

\* best_reachable_gap is the highest gap of the whole path and peak_budget
\* the last budget that reaches it, for every roster and either strategy.
THEOREM PeakIsHighest == Spec => []BestIsThePeak
  BY PeakOnPath, OnPathAlways, PTL

\* The reported budget is the least that reaches the goal.
LEMMA LeastOnPath == OnPath => LeastBudget
  BY DEF OnPath, RuleKept, Arrives, LeastBudget

\* A reachable goal's budget is the least at which the path reaches it.
THEOREM BudgetIsLeast == Spec => []LeastBudget
  BY LeastOnPath, OnPathAlways, PTL

-----------------------------------------------------------------------------
(* Where a schedule lands *)

\* Counting money in smaller parts changes no payment and no gap.
LEMMA WithinScaled ==
    ASSUME NEW k \in Nat \ {0}, NEW x \in Int, NEW y \in Int
    PROVE  Within(k * x, k * y) = k * Within(x, y)
<1>1. k * x \in Int /\ k * y \in Int
  OBVIOUS
<1>2. (k * x < 0 <=> x < 0) /\ (k * x <= k * y <=> x <= y)
  OBVIOUS
<1>3. k * 0 = 0
  OBVIOUS
<1> QED  BY <1>1, <1>2, <1>3 DEF Within, Lesser

\* A path counted in smaller parts pays, and reaches, the same.
LEMMA PathScaled ==
    ASSUME IInv, NEW k \in Nat \ {0}, NEW b \in Int, NEW u \in Nat \ {0}
    PROVE  PathGap(k * b, k * u) = k * PathGap(b, u)
<1> USE DEF IInv, Typed
<1> DEFINE f == Moved(k * b, k * u)
           g == Moved(b, u)
<1>1. /\ IsFiniteSet(eligible) /\ eligible \subseteq Rows
      /\ \A q \in eligible : /\ Weight(q) \in Int /\ NeedAhead(q) \in Nat
                             /\ Shortfall(q) \in Nat /\ PathPay(q, b, u) \in Int
  <2>1. Leading({})
    BY DEF Leading
  <2> QED  BY <2>1, SetsOfRows, RowFacts, NeedAheadFacts, GapIsWhole DEF FiguresTyped
<1>2. ASSUME NEW q \in eligible
      PROVE  PathPay(q, k * b, k * u) = k * PathPay(q, b, u)
  <2> DEFINE x == b - NeedAhead(q) * u
             y == Shortfall(q) * u
  <2>1. x \in Int /\ y \in Int
    BY <1>1
  <2>2. /\ k * b - NeedAhead(q) * (k * u) = k * x
        /\ Shortfall(q) * (k * u) = k * y
        /\ Shortfall(q) * (k * b) = k * (Shortfall(q) * b)
    BY <1>1
  <2> HIDE DEF x, y
  <2>3. Within(k * x, k * y) = k * Within(x, y)
    BY <2>1, WithinScaled
  <2> QED  BY <2>2, <2>3 DEF PathPay, x, y
<1>3. ASSUME NEW q \in eligible PROVE g[q] \in Int /\ f[q] = k * g[q]
  <2>1. /\ f[q] = Weight(q) * PathPay(q, k * b, k * u)
        /\ g[q] = Weight(q) * PathPay(q, b, u)
    BY DEF Moved
  <2> HIDE DEF f, g
  <2> DEFINE w == Weight(q)
             p == PathPay(q, b, u)
  <2>2. w \in Int /\ p \in Int /\ w * (k * p) = k * (w * p) /\ w * p \in Int
    BY <1>1
  <2> QED  BY <1>2, <2>1, <2>2
<1> HIDE DEF f, g
<1>4. SumFunctionOnSet(f, eligible) = k * SumFunctionOnSet(g, eligible)
  <2>1. k \in Int /\ \A q \in eligible : g[q] \in Int /\ f[q] = k * g[q]
    BY <1>3
  <2> QED  BY <1>1, <2>1, SumScaled
<1>5. SumFunctionOnSet(g, eligible) \in Int
  BY <1>1, <1>3, SumInt
<1>6. gap \in Int /\ Share \in Int
  BY DEF FiguresTyped, Share, AllNeed
<1>7. gap * (k * u) * Share = k * (gap * u * Share) /\ gap * u * Share \in Int
  BY <1>6
<1> DEFINE F == SumFunctionOnSet(f, eligible)
           G == SumFunctionOnSet(g, eligible)
           h == gap * u * Share
<1>8. PathGap(k * b, k * u) = k * h + k * G /\ PathGap(b, u) = h + G
  BY <1>4, <1>7 DEF PathGap, f, g
<1> HIDE DEF F, G, h
<1>9. h \in Int /\ G \in Int
  BY <1>5, <1>7 DEF h, G
<1> QED  BY <1>8, <1>9

\* The part of the cap that a strategy pays out.
Used == Lesser(cap.num, AllNeed * cap.den)

\* A call that is done has paid what its path gives for the money used, and
\* a cap that covers the need pays everyone in full.
LEMMA Settled ==
    ASSUME OnPath, Done
    PROVE  /\ Used \in Nat /\ cap.num \in Nat /\ cap.den \in Nat \ {0}
           /\ AllNeed \in Nat /\ Share \in Nat /\ Effective(cap)
           /\ \A r \in eligible : pay[r] = PathPay(r, Used, cap.den)
           /\ spend = Used * Share
           /\ AllNeed > 0 => Unit = cap.den * Share /\ Share > 0
           /\ AllNeed * cap.den <= cap.num => \A r \in eligible : pay[r] = Due(r)
<1> USE DEF OnPath, IInv, Typed
<1>1. /\ cap.num \in Nat /\ cap.den \in Nat \ {0} /\ AllNeed \in Nat
      /\ Share \in Nat /\ AllNeed * cap.den \in Nat
  <2>1. cap.num \in Nat /\ cap.den \in Nat \ {0} /\ AllNeed \in Nat
    BY UnitFacts
  <2> QED  BY <2>1 DEF Share
<1>2. Used \in Nat
  BY <1>1 DEF Used, Lesser
<1>3. /\ Paying /\ Paid = eligible /\ Effective(cap)
  BY DEF Done, Paying, Paid, Visited, InOrder, Classified, CapKept
<1>4. AllNeed > 0 => Unit = cap.den * Share /\ Share > 0
  BY <1>1 DEF Unit, Share
<1>5. Need(eligible) = AllNeed /\ \A r \in eligible : Shortfall(r) \in Nat \ {0}
  BY WholeNeed
<1>6. ASSUME NEW r \in eligible PROVE AllNeed > 0
  BY <1>1, WholeNeed
<1>7. CASE req.strategy = "Greedy"
  <2>1. Share = 1 /\ Unit = cap.den
    BY <1>7 DEF Share, Unit
  <2>2. /\ spend = Lesser(cap.num, Need(Paid) * cap.den)
        /\ \A r \in Paid : pay[r] = PathPay(r, cap.num, cap.den)
    BY <1>3, <1>7 DEF PaidAlong
  <2>3. spend = Used * Share
    <3>1. Need(Paid) = AllNeed
      BY <1>3, <1>5
    <3> QED  BY <1>2, <2>1, <2>2, <3>1 DEF Used
  <2>4. ASSUME AllNeed * cap.den <= cap.num, NEW r \in eligible
        PROVE  /\ pay[r] = Due(r) /\ Used = AllNeed * cap.den
               /\ pay[r] = PathPay(r, Used, cap.den)
    <3>1. Used = AllNeed * cap.den
      BY <1>1, <2>4 DEF Used, Lesser
    <3>2. PathPay(r, cap.num, cap.den) = Shortfall(r) * cap.den
      <4>1. cap.num \in Int /\ Need(eligible) * cap.den <= cap.num
        BY <1>1, <1>5, <2>4
      <4> QED  BY <1>1, <1>7, <4>1, GreedyEnd
    <3>3. PathPay(r, AllNeed * cap.den, cap.den) = Shortfall(r) * cap.den
      <4> DEFINE b == AllNeed * cap.den
      <4>1. b \in Int /\ Need(eligible) * cap.den <= b
        BY <1>1, <1>5
      <4> HIDE DEF b
      <4>2. PathPay(r, b, cap.den) = Shortfall(r) * cap.den
        BY <1>1, <1>7, <4>1, GreedyEnd
      <4> QED  BY <4>2 DEF b
    <3> QED  BY <1>3, <2>1, <2>2, <3>1, <3>2, <3>3 DEF Due
  <2>5. ASSUME ~(AllNeed * cap.den <= cap.num) PROVE Used = cap.num
    BY <1>1, <2>5 DEF Used, Lesser
  <2> QED  BY <1>1, <1>2, <1>3, <1>4, <2>2, <2>3, <2>4, <2>5
<1>8. CASE req.strategy # "Greedy"
  <2>1. Share = AllNeed /\ \A r \in eligible : pay[r] = Shortfall(r) * Used
    BY <1>3, <1>8 DEF Share, EquitableKept, Equitable, Used, Paid
  <2>2. \A r \in eligible : PathPay(r, Used, cap.den) = Shortfall(r) * Used
    BY <1>8 DEF PathPay
  <2>3. spend = Used * Share
    <3>1. /\ IsFiniteSet(eligible) /\ AllNeed = SumFunctionOnSet(Shortfalls, eligible)
          /\ spend = SumFunctionOnSet(pay, eligible)
          /\ \A r \in eligible : /\ Shortfalls[r] = Shortfall(r)
                                 /\ Shortfalls[r] \in Int
      BY NeedAndSpend
    <3>2. \A r \in eligible : pay[r] = Used * Shortfalls[r]
      BY <1>2, <2>1, <3>1
    <3>3. SumFunctionOnSet(pay, eligible) = Used * SumFunctionOnSet(Shortfalls, eligible)
      BY <1>2, <3>1, <3>2, SumScaled
    <3> QED  BY <2>1, <3>1, <3>3
  <2>4. ASSUME AllNeed * cap.den <= cap.num, NEW r \in eligible
        PROVE  pay[r] = Due(r)
    <3>1. Used = AllNeed * cap.den
      BY <1>1, <2>4 DEF Used, Lesser
    <3>2. Unit = cap.den * AllNeed
      BY <1>6, <1>8, <1>1 DEF Unit
    <3>3. AllNeed * cap.den = cap.den * AllNeed
      BY <1>1
    <3> QED  BY <2>1, <3>1, <3>2, <3>3 DEF Due
  <2> QED  BY <1>1, <1>2, <1>3, <1>4, <2>1, <2>2, <2>3, <2>4
<1> QED  BY <1>7, <1>8

\* The gap a call reports is the one its path reaches for the money used.
LEMMA Landing ==
    ASSUME OnPath, Done
    PROVE  /\ AllNeed > 0 => result.gap = PathGap(Used, cap.den)
           /\ spend = 0 => result.gap = gap * Unit
<1> USE DEF OnPath, IInv, Typed
<1>1. result.gap = gap * Unit + shift /\ shift = SumFunctionOnSet(Lifted, Rows)
  BY DEF Reported, PaidKept
<1>2. /\ IsFiniteSet(Rows) /\ IsFiniteSet(eligible) /\ eligible \subseteq Rows
      /\ \A r \in Rows : Weight(r) \in Int /\ pay[r] \in Nat
      /\ \A r \in Rows \ eligible : pay[r] = 0
      /\ \A r \in Rows : Lifted[r] = Weight(r) * pay[r]
  <2>1. \A r \in Rows \ eligible : pay[r] = 0
    BY KeepsToTheLine DEF NeverAboveTheLine
  <2> QED  BY <2>1, SetsOfRows, RowFacts, Groups DEF FiguresTyped, PaymentsTyped, Lifted
<1>3. /\ \A r \in Rows : Lifted[r] \in Int
      /\ \A r \in Rows : pay[r] = 0 => Lifted[r] = 0
  BY <1>2
<1>4. gap * Unit \in Int /\ gap \in Int /\ Unit \in Int
  <2>1. gap \in Int /\ Unit \in Int
    BY UnitFacts DEF FiguresTyped
  <2> QED  BY <2>1
<1>5. SumFunctionOnSet(Lifted, Rows) = SumFunctionOnSet(Lifted, eligible)
  BY <1>2, <1>3, SumOfPart
<1>6. ASSUME AllNeed > 0 PROVE result.gap = PathGap(Used, cap.den)
  <2> DEFINE f == Moved(Used, cap.den)
  <2>1. \A r \in eligible : f[r] = Lifted[r]
    BY <1>2, Settled DEF Moved
  <2> HIDE DEF f
  <2>2. SumFunctionOnSet(f, eligible) = SumFunctionOnSet(Lifted, eligible)
    <3>1. \A r \in eligible : f[r] \in Int /\ Lifted[r] \in Int
      BY <1>2, <1>3, <2>1
    <3> QED  BY <1>2, <2>1, <3>1, SumSameTerms
  <2>3. gap * cap.den * Share = gap * Unit
    <3>1. Unit = cap.den * Share /\ cap.den \in Int /\ Share \in Int
      BY <1>6, Settled
    <3> QED  BY <1>4, <3>1
  <2> QED  BY <1>1, <1>5, <2>2, <2>3 DEF PathGap, f
<1>7. ASSUME spend = 0 PROVE result.gap = gap * Unit
  <2>1. ASSUME NEW r \in eligible PROVE Lifted[r] = 0
    <3>1. SumFunctionOnSet(pay, {r}) <= SumFunctionOnSet(pay, eligible)
      <4>1. \A q \in eligible : pay[q] \in Nat
        BY <1>2
      <4> QED  BY <1>2, <4>1, SumNat
    <3>2. SumFunctionOnSet(pay, {r}) = pay[r]
      <4>1. SumFunctionOnSet(pay, {} \cup {r}) = SumFunctionOnSet(pay, {}) + pay[r]
        <5>1. IsFiniteSet({}) /\ r \notin {} /\ \A q \in {} \cup {r} : pay[q] \in Int
          BY <1>2, FS_EmptySet
        <5> QED  BY <5>1, SumAdd
      <4>2. SumFunctionOnSet(pay, {} \cup {r}) = SumFunctionOnSet(pay, {r})
        <5>1. {} \cup {r} = {r}
          OBVIOUS
        <5> QED  BY <5>1
      <4>3. SumFunctionOnSet(pay, {}) = 0
        BY SumEmpty
      <4> QED  BY <1>2, <4>1, <4>2, <4>3
    <3>3. SumFunctionOnSet(pay, eligible) = 0
      BY <1>7, NeedAndSpend
    <3> QED  BY <1>2, <1>3, <3>1, <3>2, <3>3
  <2>2. SumFunctionOnSet(Lifted, eligible) = 0
    BY <1>2, <2>1, SumZero
  <2> QED  BY <1>1, <1>4, <1>5, <2>2
<1> QED  BY <1>6, <1>7

\* Without a target that caps it, a budget that does not bind is the need.
LEMMA CoversNeed ==
    ASSUME InputsTyped, FiguresTyped, RulesTyped, Effective(cap), ~Binding,
           TargetCap = {}
    PROVE  AllNeed * cap.den <= cap.num
<1>1. AllNeed \in Nat /\ req.budget \in Int
  BY DEF FiguresTyped, AllNeed, InputsTyped, Request
<1>2. CASE UserCap = {}
  <2>1. cap = Uncapped
    BY <1>2 DEF Effective, Caps
  <2>2. cap.num = AllNeed * 100001 /\ cap.den = 100000
    BY <2>1 DEF Uncapped
  <2> QED  BY <1>1, <2>2
<1>3. CASE UserCap # {}
  <2>1. UserCap = {Whole(req.budget)} /\ cap = Whole(req.budget)
    BY <1>3 DEF UserCap, Effective, Caps
  <2>2. ~Below(Whole(req.budget), Whole(AllNeed))
    BY <2>1 DEF Binding
  <2>3. cap.num = req.budget /\ cap.den = 1 /\ ~(req.budget * 1 < AllNeed * 1)
    BY <2>1, <2>2 DEF Whole, Below
  <2> QED  BY <1>1, <2>3
<1> QED  BY <1>2, <1>3

\* A target no higher than the need is what a call whose own budget does not
\* bind pays with, or the same amount in whole dollars.
LEMMA CapIsTarget ==
    ASSUME InputsTyped, FiguresTyped, RulesTyped, Effective(cap), ~Binding,
           NEW l \in Fraction, TargetCap = {l}, l.num <= AllNeed * l.den
    PROVE  /\ cap.num * l.den = l.num * cap.den
           /\ cap = l \/ cap.den = 1
           /\ cap.num <= AllNeed * cap.den
<1>1. /\ AllNeed \in Nat /\ req.budget \in Int
      /\ l.num \in Nat /\ l.den \in Nat \ {0}
  BY DEF FiguresTyped, AllNeed, InputsTyped, Request, Fraction
<1>2. cap \in Caps /\ ~Below(l, cap) /\ l \in TargetCap
  BY DEF Effective, Caps
<1>3. CASE cap = l
  BY <1>1, <1>3
<1>4. CASE cap # l
  <2> DEFINE n == req.budget
  <2>1. UserCap = {Whole(n)} /\ cap = Whole(n)
    BY <1>2, <1>4 DEF Caps, UserCap
  <2>2. cap.num = n /\ cap.den = 1
    BY <2>1 DEF Whole
  <2>3. ~(l.num * 1 < n * l.den)
    BY <1>2, <2>2 DEF Below
  <2>4. ~(n * l.den < l.num * 1) \/ ~(n * 1 < AllNeed * 1)
    <3>1. ~(/\ Below(Whole(n), l) /\ Below(Whole(n), Whole(AllNeed)))
      BY <2>1 DEF Binding
    <3> QED  BY <3>1 DEF Below, Whole
  <2>5. n * l.den \in Int
    BY <1>1
  <2>6. n * l.den = l.num
    <3>1. ASSUME n * l.den < l.num PROVE FALSE
      <4>1. n >= AllNeed
        BY <1>1, <2>4, <2>5, <3>1
      <4>2. AllNeed * l.den <= n * l.den
        BY <1>1, <4>1, InParts
      <4>3. AllNeed * l.den \in Int
        BY <1>1
      <4> QED  BY <1>1, <2>5, <3>1, <4>2, <4>3
    <3> QED  BY <1>1, <2>3, <2>5, <3>1
  <2>7. n <= AllNeed
    BY <1>1, <2>6, InParts
  <2> QED  BY <1>1, <2>2, <2>6, <2>7
<1> QED  BY <1>3, <1>4

\* Budgets that are equal as fractions of a dollar reach the same gap.
LEMMA SameBudget ==
    ASSUME IInv, NEW x \in Int, NEW l \in Fraction, cap.num \in Nat,
           cap.den \in Nat \ {0}, cap.num * l.den = l.num * cap.den,
           cap = l \/ cap.den = 1,
           PathGap(l.num, l.den) = x * l.den * Share
    PROVE  PathGap(cap.num, cap.den) = x * cap.den * Share
<1>1. CASE cap = l
  BY <1>1
<1>2. CASE cap.den = 1
  <2> DEFINE d == l.den
             n == cap.num
             G == PathGap(n, 1)
  <2>1. d \in Nat \ {0} /\ n \in Int /\ Share \in Int /\ l.num \in Nat
    BY DEF Fraction, Share, AllNeed, IInv, Typed, FiguresTyped
  <2>2. l.num = d * n /\ l.den = d * 1
    BY <1>2, <2>1
  <2>3. G \in Int
    BY <2>1, GapIsWhole
  <2>4. PathGap(d * n, d * 1) = d * G
    <3> DEFINE one == 1
    <3>1. one \in Nat \ {0}
      OBVIOUS
    <3> HIDE DEF one, d, n
    <3>2. PathGap(d * n, d * one) = d * PathGap(n, one)
      BY <2>1, <3>1, PathScaled
    <3> QED  BY <3>2 DEF one
  <2>5. d * G = x * d * Share
    <3>1. PathGap(l.num, l.den) = PathGap(d * n, d * 1)
      BY <2>2
    <3> QED  BY <2>4, <3>1
  <2> HIDE DEF d, G, n
  <2>6. G = x * 1 * Share
    <3> DEFINE y == x * Share
    <3>1. y \in Int /\ x * d * Share = d * y /\ x * 1 * Share = y
      BY <2>1
    <3> HIDE DEF y
    <3>2. d * G = d * y
      BY <2>5, <3>1
    <3>3. G = y
      BY <2>1, <2>3, <3>1, <3>2
    <3> QED  BY <3>1, <3>3
  <2> QED  BY <1>2, <2>6 DEF G, n
<1> QED  BY <1>1, <1>2

\* A call whose target caps it lands on the gap that target reaches.
LEMMA LandsOnTarget ==
    ASSUME OnPath, Done, ~Binding, AllNeed > 0, NEW x \in Int,
           NEW l \in Fraction, TargetCap = {l}, l.num <= AllNeed * l.den,
           PathGap(l.num, l.den) = x * l.den * Share
    PROVE  result.gap = x * Unit
<1> USE DEF OnPath, IInv, Typed
<1>1. /\ cap.num * l.den = l.num * cap.den /\ (cap = l \/ cap.den = 1)
      /\ cap.num <= AllNeed * cap.den
  BY Settled, CapIsTarget
<1>2. /\ cap.num \in Nat /\ cap.den \in Nat \ {0} /\ Share \in Nat
      /\ Unit = cap.den * Share
  BY Settled
<1>3. Used = cap.num
  BY <1>1 DEF Used, Lesser
<1>4. PathGap(cap.num, cap.den) = x * cap.den * Share
  BY <1>1, <1>2, SameBudget
<1>5. x * cap.den * Share = x * (cap.den * Share)
  BY <1>2
<1> QED  BY <1>2, <1>3, <1>4, <1>5, Landing

\* What the need pays for reaches the end of the path, in any parts.
LEMMA LandsAtEnd ==
    ASSUME OnPath, Done, AllNeed > 0, AllNeed * cap.den <= cap.num,
           NEW x \in Int, PathGap(AllNeed, 1) = x * Share
    PROVE  result.gap = x * Unit
<1> USE DEF OnPath, IInv, Typed
<1>1. /\ cap.num \in Nat /\ cap.den \in Nat \ {0} /\ Share \in Nat
      /\ AllNeed \in Nat /\ Unit = cap.den * Share
  BY Settled
<1>2. Used = cap.den * AllNeed /\ cap.den * 1 = cap.den
  <2>1. Used = AllNeed * cap.den
    BY <1>1 DEF Used, Lesser
  <2> QED  BY <1>1, <2>1
<1>3. PathGap(cap.den * AllNeed, cap.den * 1) = cap.den * PathGap(AllNeed, 1)
  <2> DEFINE one == 1
  <2>1. one \in Nat \ {0} /\ AllNeed \in Int
    BY <1>1
  <2> HIDE DEF one
  <2>2. PathGap(cap.den * AllNeed, cap.den * one) = cap.den * PathGap(AllNeed, one)
    BY <1>1, <2>1, PathScaled
  <2> QED  BY <2>2 DEF one
<1>4. cap.den * (x * Share) = x * (cap.den * Share)
  BY <1>1
<1> QED  BY <1>1, <1>2, <1>3, <1>4, Landing

\* The schedule ends where the rule said.
LEMMA LandsOnPath == OnPath => LandsWhereItSays
<1> SUFFICES ASSUME OnPath, Done, ~result.binding
             PROVE  CASE rule.kind = "Reachable" ->
                           \A g \in req.goal : result.gap = g * Unit
                      [] rule.kind = "Unreachable" -> result.gap = best * Unit
                      [] rule.kind = "AlreadyMet" ->
                           result.gap = gap * Unit /\ spend = 0
                      [] rule.kind = "NoTarget" ->
                           \A r \in eligible : pay[r] = Due(r)
  BY DEF LandsWhereItSays
<1> USE DEF OnPath, IInv, Typed
<1>1. /\ ~Binding /\ Ruled /\ phase # "cross"
      /\ rule.kind \in {"NoTarget", "AlreadyMet", "Reachable", "Unreachable"}
  BY DEF Reported, Done, Ruled, RulesTyped
<1>2. /\ AllNeed \in Nat /\ Effective(cap) /\ best \in Int /\ gap \in Int
      /\ peak \subseteq Nat
  BY Settled DEF RulesTyped, FiguresTyped
<1>3. ASSUME rule.kind = "Reachable", NEW g \in req.goal
      PROVE  result.gap = g * Unit
  <2>1. Arrives(rule.least, g) /\ AllNeed > 0 /\ TargetCap = {rule.least}
    BY <1>1, <1>3 DEF RuleKept, TargetCap
  <2>2. g \in Int /\ rule.least \in Fraction
    BY DEF InputsTyped, Request, RulesTyped
  <2> QED  BY <1>1, <2>1, <2>2, LandsOnTarget DEF Arrives
<1>4. ASSUME rule.kind = "Unreachable" PROVE result.gap = best * Unit
  <2>1. ~req.adjustBoth
    <3>1. req.goal # {}
      BY <1>1, <1>4 DEF RuleKept
    <3> QED  BY <1>1, <3>1 DEF Accepted, Invalid, Ruled
  <2>2. /\ peak \subseteq 0..AllNeed /\ \A b, c \in peak : b = c
        /\ PathGap(Top(peak), 1) = best * Share
    BY <1>1, <2>1 DEF PeakKept, Peaks
  <2>3. CASE AllNeed > 0
    <3>1. CASE peak = {}
      <4>1. TargetCap = {} /\ Top(peak) = AllNeed
        BY <1>4, <3>1 DEF TargetCap, Top
      <4>2. AllNeed * cap.den <= cap.num
        BY <1>1, <1>2, <4>1, CoversNeed
      <4> QED  BY <1>2, <2>2, <2>3, <4>1, <4>2, LandsAtEnd
    <3>2. CASE peak # {}
      <4>1. PICK b \in peak : TRUE
        BY <3>2
      <4>2. peak = {b} /\ Top(peak) = b /\ b \in Nat /\ b <= AllNeed
        <5>1. peak = {b} /\ b \in 0..AllNeed
          BY <2>2, <4>1
        <5> QED  BY <1>2, <5>1 DEF Top
      <4>3. TargetCap = {Whole(b)} /\ Whole(b).num = b /\ Whole(b).den = 1
        <5>1. {Whole(c) : c \in peak} = {Whole(b)}
          BY <4>2
        <5> QED  BY <1>4, <5>1 DEF TargetCap, Whole
      <4> DEFINE l == Whole(b)
      <4>4. l \in Fraction
        BY <4>2 DEF Whole, Fraction
      <4>5. /\ l.num <= AllNeed * l.den
            /\ PathGap(l.num, l.den) = best * l.den * Share
        BY <1>2, <2>2, <4>2, <4>3
      <4>6. TargetCap = {l}
        BY <4>3
      <4> HIDE DEF l
      <4> QED  BY <1>1, <1>2, <2>3, <4>4, <4>5, <4>6, LandsOnTarget
    <3> QED  BY <3>1, <3>2
  <2>4. CASE AllNeed = 0
    <3>1. spend = 0
      <4>1. Used = 0
        <5>1. cap.num \in Nat /\ 0 * cap.den = 0
          BY Settled
        <5> QED  BY <2>4, <5>1 DEF Used, Lesser
      <4>2. spend = Used * Share /\ Share \in Nat
        BY Settled
      <4> QED  BY <4>1, <4>2
    <3>2. result.gap = gap * Unit
      BY <3>1, Landing
    <3>3. best = gap
      BY <1>1, <2>1, <2>4 DEF PeakKept, Peaks
    <3> QED  BY <3>2, <3>3
  <2> QED  BY <1>2, <2>3, <2>4
<1>5. ASSUME rule.kind = "AlreadyMet"
      PROVE  result.gap = gap * Unit /\ spend = 0
  <2> DEFINE l == Whole(0)
  <2>1. l \in Fraction /\ l.num = 0 /\ l.den = 1
    BY DEF Whole, Fraction
  <2>2. TargetCap = {l}
    BY <1>5 DEF TargetCap
  <2>3. l.num <= AllNeed * l.den
    BY <1>2, <2>1
  <2> HIDE DEF l
  <2>4. cap.num * l.den = l.num * cap.den
    BY <1>1, <1>2, <2>1, <2>2, <2>3, CapIsTarget
  <2>5. cap.num = 0
    BY <2>1, <2>4, Settled
  <2>6. Used = 0
    <3>1. AllNeed * cap.den \in Nat
      BY Settled
    <3> QED  BY <2>5, <3>1 DEF Used, Lesser
  <2>7. spend = 0
    <3>1. spend = Used * Share /\ Share \in Nat
      BY Settled
    <3> QED  BY <2>6, <3>1
  <2> QED  BY <2>7, Landing
<1>6. ASSUME rule.kind = "NoTarget", NEW r \in eligible
      PROVE  pay[r] = Due(r)
  <2>1. TargetCap = {}
    BY <1>6 DEF TargetCap
  <2>2. AllNeed * cap.den <= cap.num
    BY <1>1, <1>2, <2>1, CoversNeed
  <2> QED  BY <2>2, Settled
<1> QED  BY <1>1, <1>3, <1>4, <1>5, <1>6

\* When the user's budget does not bind, the schedule ends where the rule
\* said: on the goal, at the best reachable gap, where it was, or with
\* everyone paid in full.
THEOREM LandsAsPromised == Spec => []LandsWhereItSays
  BY LandsOnPath, OnPathAlways, PTL

\* The user's budget is what a call it binds pays with.
LEMMA CapIsBudget ==
    ASSUME InputsTyped, FiguresTyped, RulesTyped, Effective(cap), Binding
    PROVE  /\ req.budget > 0 /\ req.budget < AllNeed
           /\ cap.num = req.budget /\ cap.den = 1
           /\ \A c \in TargetCap : req.budget * c.den < c.num
<1> DEFINE n == req.budget
<1>1. AllNeed \in Nat /\ n \in Int
  BY DEF FiguresTyped, AllNeed, InputsTyped, Request
<1>2. /\ n > 0 /\ UserCap = {Whole(n)}
      /\ \A c \in TargetCap \cup {Whole(AllNeed)} : Below(Whole(n), c)
  BY DEF Binding, UserCap
<1>3. \A c \in TargetCap : Below(Whole(n), c) /\ n * c.den < c.num * 1
  BY <1>2 DEF Below, Whole
<1>4. n * 1 < AllNeed * 1
  <2>1. Below(Whole(n), Whole(AllNeed))
    BY <1>2
  <2> QED  BY <2>1 DEF Below, Whole
<1>5. cap \in Caps /\ ~Below(Whole(n), cap)
  BY <1>2 DEF Effective, Caps
<1>6. cap = Whole(n)
  BY <1>2, <1>3, <1>5 DEF Caps
<1>7. \A c \in TargetCap : c.num \in Nat
  BY DEF TargetCap, RulesTyped, Fraction, Whole
<1> QED  BY <1>1, <1>2, <1>3, <1>4, <1>6, <1>7 DEF Whole

\* A call that leaves somebody eligible short has spent less than the need.
LEMMA ShortOfNeed ==
    ASSUME OnPath
    PROVE  spend < AllNeed * Unit <=> \E r \in eligible : pay[r] < Due(r)
<1> USE DEF OnPath, IInv, Typed
<1> DEFINE due == [r \in eligible |-> Unit * Shortfalls[r]]
<1>1. /\ IsFiniteSet(eligible) /\ eligible \subseteq Rows
      /\ AllNeed = SumFunctionOnSet(Shortfalls, eligible)
      /\ spend = SumFunctionOnSet(pay, eligible)
      /\ \A r \in eligible : /\ Shortfalls[r] = Shortfall(r)
                             /\ Shortfalls[r] \in Int /\ pay[r] \in Int
  BY NeedAndSpend
<1>2. Unit \in Nat \ {0} /\ AllNeed \in Nat
  BY UnitFacts
<1>3. ASSUME NEW r \in eligible
      PROVE  due[r] = Unit * Shortfalls[r] /\ due[r] \in Int /\ due[r] = Due(r)
             /\ pay[r] <= due[r]
  <2>1. due[r] = Unit * Shortfalls[r] /\ Due(r) = Shortfalls[r] * Unit
    BY <1>1 DEF Due
  <2>2. Unit * Shortfalls[r] = Shortfalls[r] * Unit /\ Unit * Shortfalls[r] \in Int
    BY <1>1, <1>2
  <2>3. pay[r] <= Due(r)
    <3>1. CASE pay[r] # 0
      BY <1>1, <3>1, KeepsToTheLine DEF NeverAboveTheLine
    <3>2. CASE pay[r] = 0
      <4>1. Shortfalls[r] \in Nat
        BY <1>1, NeedAndSpend
      <4>2. 0 <= Shortfalls[r] * Unit
        BY <1>2, <4>1
      <4> QED  BY <2>1, <3>2, <4>2
    <3> QED  BY <3>1, <3>2
  <2> HIDE DEF due
  <2> QED  BY <2>1, <2>2, <2>3
<1> HIDE DEF due
<1>4. SumFunctionOnSet(due, eligible) = Unit * AllNeed
  <2>1. Unit \in Int /\ \A r \in eligible : Shortfalls[r] \in Int /\ due[r] = Unit * Shortfalls[r]
    BY <1>1, <1>2, <1>3
  <2> QED  BY <1>1, <2>1, SumScaled
<1>5. Unit * AllNeed = AllNeed * Unit /\ AllNeed * Unit \in Int /\ spend \in Int
  BY <1>2 DEF PaymentsTyped
<1>6. ASSUME \A r \in eligible : ~(pay[r] < Due(r)) PROVE ~(spend < AllNeed * Unit)
  <2>1. \A r \in eligible : pay[r] \in Int /\ pay[r] = due[r]
    BY <1>1, <1>3, <1>6
  <2>2. SumFunctionOnSet(pay, eligible) = SumFunctionOnSet(due, eligible)
    BY <1>1, <2>1, SumSameTerms
  <2> QED  BY <1>1, <1>4, <1>5, <2>2
<1>7. ASSUME NEW r \in eligible, pay[r] < Due(r) PROVE spend < AllNeed * Unit
  <2> DEFINE R == eligible \ {r}
  <2>1. IsFiniteSet(R) /\ R \cup {r} = eligible /\ r \notin R
    BY <1>1, FS_Subset
  <2> HIDE DEF R
  <2>2. /\ \A q \in R \cup {r} : pay[q] \in Int /\ due[q] \in Int /\ pay[q] <= due[q]
    BY <1>1, <1>3, <2>1
  <2>3. SumFunctionOnSet(pay, R) <= SumFunctionOnSet(due, R)
    BY <2>1, <2>2, SumMonotone
  <2>4. SumFunctionOnSet(pay, R \cup {r}) = SumFunctionOnSet(pay, R) + pay[r]
    BY <2>1, <2>2, SumAdd
  <2>5. SumFunctionOnSet(due, R \cup {r}) = SumFunctionOnSet(due, R) + due[r]
    BY <2>1, <2>2, SumAdd
  <2>6. /\ SumFunctionOnSet(pay, R \cup {r}) = spend
        /\ SumFunctionOnSet(due, R \cup {r}) = AllNeed * Unit
    BY <1>1, <1>4, <1>5, <2>1
  <2>7. SumFunctionOnSet(pay, R) \in Int /\ SumFunctionOnSet(due, R) \in Int
    BY <2>1, <2>2, SumInt
  <2>8. pay[r] < due[r] /\ pay[r] \in Int /\ due[r] \in Int
    BY <1>1, <1>3, <1>7
  <2> QED  BY <2>3, <2>4, <2>5, <2>6, <2>7, <2>8
<1> QED  BY <1>6, <1>7

\* A bound budget that is short of the target's stops short of the goal.
LEMMA ShortOfGoal ==
    ASSUME OnPath, Done, Binding, rule.kind = "Reachable", NEW g \in req.goal
    PROVE  result.gap < g * Unit
<1> USE DEF OnPath, IInv, Typed
<1> DEFINE n == req.budget
           d == rule.least.den
           m == rule.least.num
<1>1. Arrives(rule.least, g) /\ AllNeed > 0 /\ TargetCap = {rule.least}
  BY DEF RuleKept, TargetCap, Ruled, Done
<1>2. /\ d \in Nat \ {0} /\ m \in Nat
      /\ \A c \in 0..(m - 1) : PathGap(c, d) < g * d * Share
  BY <1>1 DEF Arrives
<1>3. /\ n \in Int /\ n > 0 /\ n < AllNeed /\ cap.num = n /\ cap.den = 1
      /\ n * d < m
  BY <1>1, Settled, CapIsBudget DEF InputsTyped, Request
<1>4. /\ AllNeed \in Nat /\ Share \in Nat /\ g \in Int /\ Unit = cap.den * Share
      /\ Unit = Share /\ Used = n
  <2>1. AllNeed \in Nat /\ Share \in Nat /\ Unit = cap.den * Share
    BY <1>1, Settled
  <2>2. Used = n
    BY <1>3, <2>1 DEF Used, Lesser
  <2> QED  BY <1>3, <2>1, <2>2 DEF InputsTyped, Request
<1>5. result.gap = PathGap(n, 1)
  BY <1>1, <1>3, <1>4, Landing
<1> HIDE DEF n, d, m
<1>6. PathGap(d * n, d) = d * PathGap(n, 1)
  <2> DEFINE one == 1
  <2>1. one \in Nat \ {0}
    OBVIOUS
  <2> HIDE DEF one
  <2>2. PathGap(d * n, d * one) = d * PathGap(n, one)
    BY <1>2, <1>3, <2>1, PathScaled
  <2>3. d * one = d
    BY <1>2 DEF one
  <2> QED  BY <2>2, <2>3 DEF one
<1>7. d * n \in 0..(m - 1)
  BY <1>2, <1>3
<1>8. d * PathGap(n, 1) < g * d * Share
  BY <1>2, <1>6, <1>7
<1>9. PathGap(n, 1) \in Int
  BY <1>3, GapIsWhole
<1> DEFINE G == PathGap(n, 1)
           y == g * Share
<1>10. y \in Int /\ g * d * Share = y * d /\ d * G = G * d
  BY <1>2, <1>4, <1>9
<1> HIDE DEF G, y
<1>11. G * d < y * d /\ G \in Int
  BY <1>8, <1>9, <1>10 DEF G
<1>12. G < y
  BY <1>2, <1>10, <1>11, InParts
<1> QED  BY <1>4, <1>5, <1>12 DEF G, y

\* A binding budget is spent in full and leaves someone short.
LEMMA BindingOnPath == OnPath => BindingIsShort
<1> SUFFICES ASSUME OnPath, Done
             PROVE  result.binding <=>
                      /\ req.budget > 0 /\ spend = req.budget * Unit
                      /\ \E r \in eligible : pay[r] < Due(r)
                      /\ rule.kind = "Reachable" =>
                             \A g \in req.goal : result.gap < g * Unit
                      /\ rule.kind = "Unreachable" =>
                             \A b \in peak : req.budget < b
  BY DEF BindingIsShort
<1> USE DEF OnPath, IInv, Typed
<1>1. result.binding = Binding
  BY DEF Reported
<1>2. /\ AllNeed \in Nat /\ Share \in Nat /\ Unit \in Nat \ {0}
      /\ Effective(cap) /\ spend = Used * Share /\ Used \in Nat
      /\ req.budget \in Int
  BY Settled, UnitFacts DEF InputsTyped, Request
<1>3. ASSUME Binding
      PROVE  /\ req.budget > 0 /\ spend = req.budget * Unit
             /\ \E r \in eligible : pay[r] < Due(r)
             /\ rule.kind = "Reachable" =>
                    \A g \in req.goal : result.gap < g * Unit
             /\ rule.kind = "Unreachable" => \A b \in peak : req.budget < b
  <2>1. /\ req.budget > 0 /\ req.budget < AllNeed
        /\ cap.num = req.budget /\ cap.den = 1
        /\ \A c \in TargetCap : req.budget * c.den < c.num
    BY <1>2, <1>3, CapIsBudget
  <2>2. AllNeed > 0 /\ Used = req.budget
    BY <1>2, <2>1 DEF Used, Lesser
  <2>3. Unit = Share
    <3>1. Unit = cap.den * Share
      BY <2>2, Settled
    <3> QED  BY <1>2, <2>1, <3>1
  <2>4. spend = req.budget * Unit
    BY <1>2, <2>2, <2>3
  <2>5. spend < AllNeed * Unit
    <3>1. req.budget * Unit < AllNeed * Unit
      BY <1>2, <2>1, InParts
    <3> QED  BY <2>4, <3>1
  <2>6. \E r \in eligible : pay[r] < Due(r)
    BY <2>5, ShortOfNeed
  <2>7. ASSUME rule.kind = "Unreachable", NEW b \in peak
        PROVE  req.budget < b
    <3>1. Whole(b) \in TargetCap
      BY <2>7 DEF TargetCap
    <3>2. req.budget * 1 < b
      BY <2>1, <3>1 DEF Whole
    <3> QED  BY <1>2, <3>2
  <2> QED  BY <1>3, <2>1, <2>4, <2>6, <2>7, ShortOfGoal
<1>4. ASSUME ~Binding, req.budget > 0, spend = req.budget * Unit,
             \E r \in eligible : pay[r] < Due(r),
             rule.kind = "Reachable" =>
                 \A g \in req.goal : result.gap < g * Unit,
             rule.kind = "Unreachable" => \A b \in peak : req.budget < b
      PROVE  FALSE
  <2>1. spend < AllNeed * Unit
    BY <1>4, ShortOfNeed
  <2>2. req.budget < AllNeed
    <3>1. req.budget * Unit < AllNeed * Unit
      BY <1>4, <2>1
    <3> QED  BY <1>2, <3>1, InParts
  <2>3. UserCap = {Whole(req.budget)} /\ Below(Whole(req.budget), Whole(AllNeed))
    BY <1>2, <1>4, <2>2 DEF UserCap, Below, Whole
  <2>4. PICK c \in TargetCap : ~Below(Whole(req.budget), c)
    BY <1>4, <2>3 DEF Binding
  <2>5. req.budget * Unit > 0
    BY <1>2, <1>4, InParts
  <2>6. CASE rule.kind = "AlreadyMet"
    <3> DEFINE l == Whole(0)
    <3>1. l \in Fraction /\ l.num = 0 /\ l.den = 1
      BY DEF Whole, Fraction
    <3>2. TargetCap = {l}
      BY <2>6 DEF TargetCap
    <3>3. l.num <= AllNeed * l.den
      BY <1>2, <3>1
    <3> HIDE DEF l
    <3>4. cap.num * l.den = l.num * cap.den
      BY <1>2, <1>4, <3>1, <3>2, <3>3, CapIsTarget
    <3>5. cap.num = 0 /\ AllNeed * cap.den \in Nat
      BY <3>1, <3>4, Settled
    <3>6. Used = 0
      BY <3>5 DEF Used, Lesser
    <3> QED  BY <1>2, <1>4, <2>5, <3>6
  <2>7. CASE rule.kind = "Unreachable"
    <3>1. PICK b \in peak : c = Whole(b)
      BY <2>4, <2>7 DEF TargetCap
    <3>2. ~(req.budget * 1 < b * 1) /\ req.budget < b /\ b \in Nat
      BY <1>4, <2>4, <2>7, <3>1 DEF Below, Whole, RulesTyped
    <3> QED  BY <1>2, <3>2
  <2>8. CASE rule.kind = "Reachable"
    <3>1. req.goal # {} /\ AllNeed > 0 /\ TargetCap = {rule.least}
      BY <2>8 DEF RuleKept, Ruled, Done, TargetCap
    <3>2. PICK g \in req.goal : TRUE
      BY <3>1
    <3>3. /\ Arrives(rule.least, g) /\ g \in Int /\ rule.least \in Fraction
      BY <2>8, <3>2 DEF RuleKept, Ruled, Done, InputsTyped, Request, RulesTyped
    <3>4. result.gap = g * Unit
      BY <1>4, <3>1, <3>3, LandsOnTarget DEF Arrives
    <3>5. g * Unit < g * Unit /\ g * Unit \in Int
      BY <1>2, <1>4, <2>8, <3>2, <3>3, <3>4
    <3> QED  BY <3>5
  <2>9. CASE rule.kind = "NoTarget"
    BY <2>4, <2>9 DEF TargetCap
  <2> QED  BY <2>6, <2>7, <2>8, <2>9 DEF RulesTyped
<1> QED  BY <1>1, <1>3, <1>4

\* budget_binding is reported exactly when the user's budget is spent to the
\* last dollar and leaves somebody, and the goal, short.
THEOREM BindingMeansShort == Spec => []BindingIsShort
  BY BindingOnPath, OnPathAlways, PTL

-----------------------------------------------------------------------------
(* The efficient frontier *)

\* What a frontier's own call knows before it draws, and while it does.
Drawing == stage \in {"stepping", "spending", "done"}
PricedKept ==
    /\ ~req.forensic => listed = eligible
    /\ stage # "remedy" =>
          /\ req.budget = 0 /\ req.goal = {} /\ ~req.forensic
          /\ axis \in Axis
    /\ stage \in {"asked", "remedy"} => ~Drawing
    /\ stage \notin {"asked", "remedy", "refused"} => ~InvalidAxis
    /\ ~Drawing => points = <<>> /\ cursor = 0 /\ raise = NoRaise
    /\ Drawing => phase = "done"

\* A priced remedy pays everyone eligible in full.
LEMMA PricedInFull ==
    ASSUME OnPath, PricedKept, Done, stage # "remedy"
    PROVE  /\ AllNeed * cap.den <= cap.num
           /\ \A r \in eligible : pay[r] = Due(r) /\ Amount(r) = Shortfall(r)
           /\ FullCost = AllNeed
           /\ {r \in listed : pay[r] > 0} = eligible
<1> USE DEF OnPath, IInv, Typed
<1>1. TargetCap = {} /\ ~Binding
  <2>1. rule.kind = "NoTarget"
    BY DEF RuleKept, Ruled, Done, PricedKept
  <2>2. UserCap = {}
    BY DEF UserCap, PricedKept
  <2> QED  BY <2>1, <2>2 DEF TargetCap, Binding
<1>2. AllNeed * cap.den <= cap.num
  BY <1>1, Settled, CoversNeed
<1>3. /\ \A r \in eligible : pay[r] = Due(r) /\ Shortfall(r) \in Nat \ {0}
      /\ Unit \in Nat \ {0} /\ AllNeed \in Nat /\ spend = Used * Share
      /\ cap.den \in Nat \ {0} /\ Share \in Nat
      /\ AllNeed > 0 => Unit = cap.den * Share
  BY <1>2, Settled, UnitFacts, WholeNeed
<1>4. ASSUME NEW s \in Nat PROVE (s * Unit) \div Unit = s
  BY <1>3
<1>5. ASSUME NEW r \in eligible
      PROVE  pay[r] = Due(r) /\ Amount(r) = Shortfall(r) /\ pay[r] > 0
  <2>1. pay[r] = Shortfall(r) * Unit /\ Shortfall(r) * Unit > 0
    BY <1>3, InParts DEF Due
  <2> QED  BY <1>3, <1>4, <2>1 DEF Amount
<1>6. FullCost = AllNeed
  <2>1. Used = AllNeed * cap.den
    BY <1>2, <1>3 DEF Used, Lesser, RulesTyped, Fraction
  <2>2. spend = AllNeed * Unit
    <3>1. CASE AllNeed > 0
      BY <1>3, <2>1, <3>1
    <3>2. CASE AllNeed = 0
      <4>1. Used = 0 /\ 0 * Share = 0 /\ 0 * Unit = 0
        BY <1>3, <2>1, <3>2
      <4> QED  BY <1>3, <3>2, <4>1
    <3> QED  BY <1>3, <3>1, <3>2
  <2> QED  BY <1>3, <1>4, <2>2 DEF FullCost
<1>7. {r \in listed : pay[r] > 0} = eligible
  BY <1>5 DEF PricedKept
<1> QED  BY <1>2, <1>5, <1>6, <1>7

\* The frontier's steps are steps of the remedy it calls, or leave it alone.
LEMMA RemedyStep == [FrontierNext]_frontierVars => [Next]_vars
  BY DEF FrontierNext, frontierVars, RefuseAxis, AskForRemedy, Optimize, GiveUp,
     FitPooled, GreedyStep, GreedyPoint, EquitablePoint, Return, PayWhole, PayPart

\* A frontier, like a call by itself, begins with a remedy just asked for.
LEMMA FrontierOpened == FrontierInit => Begun /\ PricedKept
<1> SUFFICES ASSUME FrontierInit PROVE Begun /\ PricedKept
  OBVIOUS
<1>1. CASE Init /\ stage = "remedy"
  <2>1. Begun
    BY <1>1, Opened
  <2> QED
    BY <1>1, <2>1 DEF Begun, Asked, FrontierInit, PricedKept, Drawing
<1>2. CASE Asked(Priced) /\ stage = "asked" /\ axis \in Axes
  <2>1. PICK c \in Priced : roster \in c[1] /\ req \in c[2]
    BY <1>2 DEF Asked
  <2>2. req.budget = 0 /\ req.goal = {} /\ ~req.forensic /\ InputsTyped
    BY <2>1, PricedTyped, PricedUncapped DEF InputsTyped
  <2>3. Begun
    BY <1>2, <2>2 DEF Begun, Asked
  <2> QED
    BY <1>2, <2>2, <2>3, AxesTyped
    DEF Begun, Asked, FrontierInit, PricedKept, Drawing
<1> QED
  BY <1>1, <1>2 DEF FrontierInit

\* The call keeps what it knows before it draws.
LEMMA PricedStep ==
    ASSUME PricedKept, [FrontierNext]_frontierVars
    PROVE  PricedKept'
<1>1. ~req.forensic => (~req.forensic)' /\ listed' = eligible'
  <2> SUFFICES ASSUME ~req.forensic PROVE ~req'.forensic /\ listed' = eligible'
    OBVIOUS
  <2>1. req' = req /\ listed = eligible
    BY RemedyStep, InputsNeverChange DEF inputs, PricedKept
  <2>2. ASSUME NEW r \in Rows, ReadCompared(r) \/ ReadReference(r)
        PROVE  listed' = eligible'
    BY <2>1, <2>2 DEF ReadCompared, ReadReference, List
  <2>3. ASSUME UNCHANGED figures PROVE listed' = eligible'
    BY <2>1, <2>3 DEF figures
  <2>4. [Next]_vars
    BY RemedyStep
  <2>5. listed' = eligible'
    BY <2>2, <2>3, <2>4 DEF Next, vars, Refuse, FitFails, FitLine, TurnToReference,
       StartWalk, Decide, SetCap, Report, Stop, WalkOn, Pass, Cross, PayRow
  <2> QED  BY <2>1, <2>5
<1>2. req' = req
  BY RemedyStep, InputsNeverChange DEF inputs
<1>3. CASE Optimize
  BY <1>1, <1>2, <1>3 DEF Optimize, curve, PricedKept, Drawing, InvalidAxis
<1>4. CASE FitPooled
  BY <1>1, <1>2, <1>4 DEF FitPooled, vars, PricedKept, Drawing, InvalidAxis
<1>5. CASE RefuseAxis \/ AskForRemedy \/ GiveUp
  BY <1>1, <1>2, <1>5 DEF RefuseAxis, AskForRemedy, GiveUp, vars, PricedKept, Drawing,
     InvalidAxis
<1>6. CASE GreedyStep \/ GreedyPoint \/ EquitablePoint
  BY <1>1, <1>2, <1>6 DEF GreedyStep, GreedyPoint, EquitablePoint, AddPoint, vars,
     PricedKept, Drawing, InvalidAxis
<1>7. CASE \E r \in Rows : PayWhole(r) \/ PayPart(r)
  BY <1>1, <1>2, <1>7 DEF PayWhole, PayPart, vars, PricedKept, Drawing, InvalidAxis
<1>8. CASE Return \/ UNCHANGED frontierVars
  BY <1>1, <1>2, <1>8 DEF Return, frontierVars, curve, vars, PricedKept, Drawing,
     InvalidAxis
<1> QED
  BY <1>3, <1>4, <1>5, <1>6, <1>7, <1>8 DEF FrontierNext

\* The money the Greedy walk of the axis has spent, in parts of a dollar.
SpentSoFar == IF stage = "spending" THEN NextTarget - left ELSE cursor

\* b parts are enough for the leading set V, and too little for one row more.
EndsAt(V, b, u) ==
    /\ Leading(V) /\ b \in Int /\ u \in Nat \ {0}
    /\ Need(V) * u <= b
    /\ \A r : NextOf(V, r) => b <= (Need(V) + Shortfall(r)) * u

CurvePoint == [budget : Int, raise : [Rows -> Int]]
CurveTyped ==
    /\ owed \in [Rows -> Int] /\ raise \in [Rows -> Int]
    /\ cursor \in Int /\ left \in Int /\ points \in Seq(CurvePoint)

\* Where the curve stands on the axis: the cursor is at the last point drawn.
AxisKept ==
    Drawing =>
        /\ Len(points) > 0
        /\ req.strategy = "Greedy" => cursor = Target(Len(points) - 1)
        /\ stage = "spending" => req.strategy = "Greedy" /\ left >= 0

\* The queue holds whom the path has not yet paid in full, each with what it is
\* still owed, and the raises are the path's own at the money spent so far.
DrawnGreedy ==
    Drawing /\ req.strategy = "Greedy" =>
        /\ queue \subseteq eligible
        /\ EndsAt(eligible \ queue, SpentSoFar, axis.steps)
        /\ \A r \in eligible : raise[r] = PathPay(r, SpentSoFar, axis.steps)
        /\ \A r \in Rows \ eligible : raise[r] = 0
        /\ \A r \in queue : owed[r] = Shortfall(r) * axis.steps - raise[r]

DrawnEquitable == Drawing /\ req.strategy # "Greedy" => queue = eligible

CurveInv ==
    /\ PathInv /\ PricedKept /\ CurveTyped /\ AxisKept
    /\ DrawnGreedy /\ DrawnEquitable /\ CurveIsTheSchedule

\* The axis of an accepted frontier has steps, and an end that is not negative.
LEMMA AxisFacts ==
    ASSUME OnPath, PricedKept, Done, stage \notin {"remedy", "asked", "refused"}
    PROVE  /\ axis.steps \in Nat \ {0} /\ MaxBudget \in Nat
           /\ AllNeed \in Nat /\ FullCost = AllNeed
           /\ \A r \in eligible : Amount(r) = Shortfall(r)
           /\ \A r \in eligible : r \in Rows /\ Shortfall(r) \in Nat \ {0}
<1>1. ~InvalidAxis /\ axis \in Axis
  BY DEF PricedKept
<1>2. /\ FullCost = AllNeed /\ \A r \in eligible : Amount(r) = Shortfall(r)
  BY PricedInFull
<1>3. /\ AllNeed \in Nat
      /\ \A r \in eligible : r \in Rows /\ Shortfall(r) \in Nat \ {0}
  BY WholeNeed DEF OnPath
<1>4. axis.steps \in Nat \ {0}
  BY <1>1 DEF InvalidAxis, Axis
<1>5. MaxBudget \in Nat
  <2>1. CASE axis.max = {}
    BY <1>2, <1>3, <2>1 DEF MaxBudget
  <2>2. CASE axis.max # {}
    <3>1. (CHOOSE m \in axis.max : TRUE) \in axis.max
      BY <2>2
    <3>2. axis.max \subseteq Int /\ \A m \in axis.max : ~(m < 0)
      BY <1>1 DEF Axis, InvalidAxis
    <3> QED  BY <2>2, <3>1, <3>2 DEF MaxBudget
  <2> QED  BY <2>1, <2>2
<1> QED
  BY <1>2, <1>3, <1>4, <1>5

\* What a frontier knows while it draws: the axis, and the schedule priced.
LEMMA DrawingFacts ==
    ASSUME CurveInv, Drawing
    PROVE  /\ axis.steps \in Nat \ {0} /\ MaxBudget \in Nat
           /\ Target(Len(points) - 1) \in Nat /\ NextTarget \in Nat
           /\ NextTarget = Target(Len(points) - 1) + MaxBudget
           /\ Len(points) \in Nat \ {0}
           /\ AllNeed \in Nat /\ FullCost = AllNeed
           /\ \A r \in eligible : Amount(r) = Shortfall(r)
           /\ \A r \in eligible : r \in Rows /\ Shortfall(r) \in Nat \ {0}
<1>1. /\ axis.steps \in Nat \ {0} /\ MaxBudget \in Nat
      /\ AllNeed \in Nat /\ FullCost = AllNeed
      /\ \A r \in eligible : Amount(r) = Shortfall(r)
      /\ \A r \in eligible : r \in Rows /\ Shortfall(r) \in Nat \ {0}
  <2>1. Done /\ stage \notin {"remedy", "asked", "refused"}
    BY DEF CurveInv, PricedKept, Drawing, Done
  <2> QED  BY <2>1, AxisFacts DEF CurveInv, PathInv
<1>2. Len(points) \in Nat \ {0}
  BY DEF CurveInv, AxisKept, CurveTyped
<1>3. ASSUME NEW n \in Nat, NEW m \in Nat
      PROVE  /\ m * n \in Nat /\ m * (n - 1) \in Int
             /\ n > 0 => m * (n - 1) \in Nat /\ m * n = m * (n - 1) + m
  OBVIOUS
<1>4. /\ Target(Len(points) - 1) \in Nat /\ NextTarget \in Nat
      /\ NextTarget = Target(Len(points) - 1) + MaxBudget
  BY <1>1, <1>2, <1>3 DEF Target, NextTarget
<1> QED
  BY <1>1, <1>2, <1>4

\* The axis is figured from the call's own variables.
LEMMA AxisFrozen ==
    ASSUME UNCHANGED <<vars, axis>>
    PROVE  /\ FullCost' = FullCost /\ MaxBudget' = MaxBudget
           /\ \A r : Amount(r)' = Amount(r)
           /\ \A k : Target(k)' = Target(k)
<1>1. Unit' = Unit
  BY DEF Unit, AllNeed, vars, inputs, figures, rules
<1>2. FullCost' = FullCost /\ MaxBudget' = MaxBudget /\ \A r : Amount(r)' = Amount(r)
  BY <1>1 DEF FullCost, MaxBudget, Amount, vars, payments
<1> QED
  BY <1>2 DEF Target

\* Money past the whole need changes nothing.
LEMMA PathSaturates ==
    ASSUME IInv, ReadKept, NEW b \in Nat, NEW u \in Nat \ {0},
           req.strategy = "Greedy", NEW r \in eligible
    PROVE  PathPay(r, Lesser(b, AllNeed * u), u) = PathPay(r, b, u)
<1>1. Need(eligible) = AllNeed /\ AllNeed * u \in Nat
  BY WholeNeed
<1>2. CASE b <= AllNeed * u
  BY <1>2 DEF Lesser
<1>3. CASE ~(b <= AllNeed * u)
  <2>1. PathPay(r, b, u) = Shortfall(r) * u
    BY <1>1, <1>3, GreedyEnd
  <2>2. PathPay(r, AllNeed * u, u) = Shortfall(r) * u
    BY <1>1, GreedyEnd
  <2> QED  BY <1>3, <2>1, <2>2 DEF Lesser
<1> QED
  BY <1>2, <1>3

\* A point of the curve that is the schedule of its budget.
OnSchedule(p) ==
    \A r \in Rows :
        p.raise[r] = IF r \in eligible
                     THEN PathPay(r, Lesser(p.budget, AllNeed * axis.steps), axis.steps)
                     ELSE 0

\* A point added to a true curve leaves it true, if it is on the schedule itself.
LEMMA PointAdded ==
    ASSUME CurveInv, Drawing, UNCHANGED <<vars, axis>>,
           NEW y, y \in [Rows -> Int], OnSchedule(Point(NextTarget, y)),
           points' = Append(points, Point(NextTarget, y))
    PROVE  /\ CurveIsTheSchedule' /\ points' \in Seq(CurvePoint)
           /\ Len(points') = Len(points) + 1
<1>1. /\ points \in Seq(CurvePoint) /\ NextTarget \in Int
      /\ CurveIsTheSchedule
  BY DrawingFacts DEF CurveInv, CurveTyped
<1>2. Point(NextTarget, y) \in CurvePoint
  BY <1>1 DEF Point, CurvePoint
<1>3. \A i \in DOMAIN points : OnSchedule(points[i])
  BY <1>1 DEF CurveIsTheSchedule, OnSchedule
<1>4. ASSUME NEW i \in DOMAIN points' PROVE OnSchedule(points'[i])
  <2>1. /\ points'[i] = points[i] \/ points'[i] = Point(NextTarget, y)
        /\ points'[i] = points[i] => i \in DOMAIN points \/
              points'[i] = Point(NextTarget, y)
    BY <1>1, <1>2
  <2> QED  BY <1>3, <2>1
<1>5. /\ eligible' = eligible /\ AllNeed' = AllNeed /\ axis' = axis
      /\ \A r, b, u : PathPay(r, b, u)' = PathPay(r, b, u)
  BY PathFrozen DEF vars
<1>6. CurveIsTheSchedule'
  <2> SUFFICES ASSUME NEW i \in DOMAIN points', NEW r \in Rows
               PROVE  points'[i].raise[r] =
                        IF r \in eligible'
                        THEN PathPay(r, Lesser(points[i].budget, AllNeed * axis.steps),
                                     axis.steps)'
                        ELSE 0
    BY DEF CurveIsTheSchedule
  <2>1. PathPay(r, Lesser(points[i].budget, AllNeed * axis.steps), axis.steps)' =
          PathPay(r, Lesser(points'[i].budget, AllNeed * axis.steps), axis.steps)
    BY <1>5 DEF Lesser
  <2> QED  BY <1>4, <1>5, <2>1 DEF OnSchedule
<1> QED
  BY <1>1, <1>2, <1>6

\* Once a step's money is spent, or everyone is paid, the walk is at its target.
LEMMA DrawnToTarget ==
    ASSUME CurveInv, Drawing, req.strategy = "Greedy",
           stage = "spending", left = 0 \/ queue = {}
    PROVE  /\ \A r \in eligible : raise[r] = PathPay(r, NextTarget, axis.steps)
           /\ EndsAt(eligible \ queue, NextTarget, axis.steps)
<1> USE DEF CurveInv, PathInv, OnPath
<1>1. /\ axis.steps \in Nat \ {0} /\ NextTarget \in Nat
      /\ EndsAt(eligible \ queue, NextTarget - left, axis.steps)
      /\ \A r \in eligible : raise[r] = PathPay(r, NextTarget - left, axis.steps)
  BY DrawingFacts DEF DrawnGreedy, SpentSoFar
<1>2. CASE left = 0
  <2>1. NextTarget - left = NextTarget
    BY <1>1, <1>2
  <2> QED  BY <1>1, <2>1
<1>3. CASE queue = {}
  <2>1. left \in Nat /\ NextTarget - left \in Int /\ Need(eligible) * axis.steps \in Int
    BY <1>1, WholeNeed DEF AxisKept, CurveTyped
  <2>2. eligible \ queue = eligible /\ Leading(eligible)
    BY <1>3 DEF Leading
  <2>3. Need(eligible) * axis.steps <= NextTarget - left
    BY <1>1, <2>2 DEF EndsAt
  <2>4. Need(eligible) * axis.steps <= NextTarget
    BY <1>1, <2>1, <2>3
  <2>5. \A r \in eligible :
          /\ PathPay(r, NextTarget - left, axis.steps) = Shortfall(r) * axis.steps
          /\ PathPay(r, NextTarget, axis.steps) = Shortfall(r) * axis.steps
    BY <1>1, <2>1, <2>3, <2>4, GreedyEnd
  <2>6. EndsAt(eligible, NextTarget, axis.steps)
    BY <1>1, <2>2, <2>4 DEF EndsAt, NextOf
  <2> QED  BY <1>1, <2>2, <2>5, <2>6
<1> QED
  BY <1>2, <1>3

\* A point drawn from a true walk of the axis is the schedule of its budget.
LEMMA DrawnOnSchedule ==
    ASSUME CurveInv, Drawing, req.strategy = "Greedy",
           stage = "spending", left = 0 \/ queue = {}
    PROVE  OnSchedule(Point(NextTarget, raise))
<1> USE DEF CurveInv, PathInv, OnPath
<1>1. axis.steps \in Nat \ {0} /\ NextTarget \in Nat
  BY DrawingFacts
<1>2. \A r \in eligible :
        PathPay(r, Lesser(NextTarget, AllNeed * axis.steps), axis.steps) = raise[r]
  BY <1>1, DrawnToTarget, PathSaturates
<1>3. \A r \in Rows \ eligible : raise[r] = 0
  BY DEF DrawnGreedy
<1> QED
  BY <1>2, <1>3 DEF OnSchedule, Point

\* What the curve keeps true of itself, beside what it is told.
Drawn == /\ CurveTyped /\ AxisKept /\ DrawnGreedy /\ DrawnEquitable
         /\ CurveIsTheSchedule

\* The baseline point is drawn with everyone eligible still to pay.
LEMMA FitPooledDraws ==
    ASSUME CurveInv, FitPooled
    PROVE  Drawn'
<1> USE DEF CurveInv, PathInv, OnPath
<1>1. /\ UNCHANGED <<vars, axis, cursor, left, raise>> /\ stage' \in {"stepping", "done"}
      /\ points' = <<Point(0, NoRaise)>> /\ Done /\ stage = "pricing"
      /\ cursor = 0 /\ raise = NoRaise
  BY DEF FitPooled, Done, PricedKept, Drawing
<1>2. /\ req' = req /\ eligible' = eligible /\ AllNeed' = AllNeed
      /\ \A r : Shortfall(r)' = Shortfall(r)
      /\ \A V : Need(V)' = Need(V) /\ (Leading(V)' <=> Leading(V))
      /\ \A p, q : Before(p, q)' = Before(p, q)
      /\ \A r, b, u : PathPay(r, b, u)' = PathPay(r, b, u)
  BY <1>1, PathFrozen DEF vars
<1>3. /\ axis.steps \in Nat \ {0} /\ AllNeed \in Nat
      /\ \A r \in eligible : r \in Rows /\ Shortfall(r) \in Nat \ {0}
  BY <1>1, WholeNeed DEF PricedKept, InvalidAxis, Axis
<1>4. queue' = eligible /\ \A r \in eligible : Amount(r) = Shortfall(r)
  BY <1>1, PricedInFull DEF FitPooled
<1>5. owed' = [r \in Rows |-> IF r \in eligible THEN Shortfall(r) * axis.steps ELSE 0]
  <2>1. owed' = [r \in Rows |-> IF r \in eligible THEN Amount(r) * axis.steps ELSE 0]
    BY <1>4 DEF FitPooled
  <2> QED  BY <1>4, <2>1
<1>6. CurveTyped'
  <2>1. \A r \in eligible : Shortfall(r) * axis.steps \in Int
    BY <1>3
  <2>2. Point(0, NoRaise) \in CurvePoint
    BY DEF Point, CurvePoint, NoRaise
  <2> QED  BY <1>1, <1>5, <2>1, <2>2 DEF CurveTyped
<1>7. AxisKept'
  <2>1. Len(points') = 1 /\ cursor' = 0 /\ stage' # "spending"
    BY <1>1
  <2>2. Target(Len(points) - 1)' = 0
    <3>1. MaxBudget' \in Nat
      BY <1>1, AxisFrozen, AxisFacts
    <3>2. Target(Len(points) - 1)' = MaxBudget' * (Len(points') - 1)
      BY DEF Target
    <3> QED  BY <2>1, <3>1, <3>2
  <2> QED  BY <2>1, <2>2 DEF AxisKept
<1>8. DrawnGreedy'
  <2> SUFFICES ASSUME req.strategy = "Greedy" PROVE DrawnGreedy'
    BY <1>2 DEF DrawnGreedy
  <2>1. SpentSoFar' = 0 /\ (eligible \ queue)' = {}
    BY <1>1, <1>2, <1>4 DEF SpentSoFar
  <2>2. EndsAt({}, 0, axis.steps)
    <3>1. Need({}) = 0 /\ Leading({}) /\ 0 * axis.steps = 0
      BY <1>3, SumEmpty DEF Need, Leading
    <3>2. ASSUME NEW r, NextOf({}, r)
          PROVE  0 <= (Need({}) + Shortfall(r)) * axis.steps
      BY <1>3, <3>1, <3>2 DEF NextOf
    <3> QED  BY <1>3, <3>1, <3>2 DEF EndsAt
  <2>3. EndsAt(eligible \ queue, SpentSoFar, axis.steps)'
    <3>1. \A V, b, u : EndsAt(V, b, u)' <=> EndsAt(V, b, u)
      BY <1>2 DEF EndsAt, NextOf
    <3>2. EndsAt(eligible \ queue, SpentSoFar, axis.steps)' <=>
            EndsAt((eligible \ queue)', SpentSoFar', axis'.steps)
      BY <3>1
    <3>3. axis' = axis
      BY <1>1
    <3> QED  BY <2>1, <2>2, <3>2, <3>3
  <2>4. \A r \in eligible : raise'[r] = PathPay(r, SpentSoFar, axis.steps)'
    <3> TAKE r \in eligible
    <3>1. PathPay(r, SpentSoFar, axis.steps)' = PathPay(r, SpentSoFar', axis'.steps)
      BY <1>2
    <3>2. PathPay(r, 0, axis.steps) = 0 /\ raise'[r] = 0 /\ axis' = axis
      BY <1>1, <1>3, PathAtStart DEF NoRaise
    <3> QED  BY <2>1, <3>1, <3>2
  <2>5. \A r \in Rows \ eligible : raise'[r] = 0
    BY <1>1 DEF NoRaise
  <2>6. \A r \in eligible : owed'[r] = Shortfall(r) * axis.steps - raise'[r]
    <3>1. \A r \in eligible : /\ Shortfall(r) * axis.steps \in Int
                              /\ owed'[r] = Shortfall(r) * axis.steps
                              /\ raise'[r] = 0
      BY <1>1, <1>3, <1>5 DEF NoRaise
    <3> QED  BY <3>1
  <2> QED  BY <1>1, <1>2, <1>4, <2>3, <2>4, <2>5, <2>6 DEF DrawnGreedy
<1>9. CurveIsTheSchedule'
  <2>1. Lesser(0, AllNeed * axis.steps) = 0
    BY <1>3 DEF Lesser
  <2>2. \A r \in eligible : PathPay(r, 0, axis.steps) = 0
    BY <1>3, PathAtStart
  <2>3. points'[1] = Point(0, NoRaise) /\ DOMAIN points' = {1}
    BY <1>1
  <2> SUFFICES ASSUME NEW r \in Rows
               PROVE  NoRaise[r] =
                        IF r \in eligible'
                        THEN PathPay(r, Lesser(points[1].budget, AllNeed * axis.steps),
                                     axis.steps)'
                        ELSE 0
    BY <2>3 DEF CurveIsTheSchedule, Point
  <2>4. PathPay(r, Lesser(points[1].budget, AllNeed * axis.steps), axis.steps)' =
          PathPay(r, Lesser(0, AllNeed * axis.steps), axis.steps)
    BY <1>1, <1>2, <2>3 DEF Lesser, Point
  <2> QED  BY <1>2, <2>1, <2>2, <2>4 DEF NoRaise
<1> QED
  BY <1>2, <1>4, <1>6, <1>7, <1>8, <1>9 DEF Drawn, DrawnEquitable

\* What is left on the axis after a step: it is enough to know how much is spent.
LEMMA DrawnAt ==
    ASSUME UNCHANGED <<vars, axis>>, NEW c, c = SpentSoFar',
           queue' \subseteq eligible, EndsAt(eligible \ queue', c, axis.steps),
           \A r \in eligible : raise'[r] = PathPay(r, c, axis.steps),
           \A r \in Rows \ eligible : raise'[r] = 0,
           \A r \in queue' : owed'[r] = Shortfall(r) * axis.steps - raise'[r]
    PROVE  DrawnGreedy'
<1>1. /\ req' = req /\ eligible' = eligible /\ axis' = axis
      /\ \A r : Shortfall(r)' = Shortfall(r)
      /\ \A V : Need(V)' = Need(V) /\ (Leading(V)' <=> Leading(V))
      /\ \A p, q : Before(p, q)' = Before(p, q)
      /\ \A r, b, u : PathPay(r, b, u)' = PathPay(r, b, u)
  BY PathFrozen DEF vars
<1>2. EndsAt(eligible \ queue, SpentSoFar, axis.steps)'
  <2>1. \A V, b, u : EndsAt(V, b, u)' <=> EndsAt(V, b, u)
    BY <1>1 DEF EndsAt, NextOf
  <2>2. EndsAt(eligible \ queue, SpentSoFar, axis.steps)' <=>
          EndsAt((eligible \ queue)', SpentSoFar', axis'.steps)
    BY <2>1
  <2>3. (eligible \ queue)' = eligible \ queue'
    BY <1>1
  <2> QED  BY <1>1, <2>2, <2>3
<1>3. ASSUME NEW r \in eligible PROVE raise'[r] = PathPay(r, SpentSoFar, axis.steps)'
  <2>1. PathPay(r, SpentSoFar, axis.steps)' = PathPay(r, SpentSoFar', axis'.steps)
    BY <1>1
  <2> QED  BY <1>1, <2>1
<1> QED
  BY <1>1, <1>2, <1>3 DEF DrawnGreedy

\* Whoever is foremost in the queue is next in the pay order.
LEMMA ForemostIsNext ==
    ASSUME CurveInv, stage = "spending", NEW r \in Rows, Foremost(r)
    PROVE  NextOf(eligible \ queue, r)
<1>1. Drawing /\ req.strategy = "Greedy"
  BY DEF Drawing, CurveInv, AxisKept
<1>2. queue \subseteq eligible
  BY <1>1 DEF CurveInv, DrawnGreedy
<1>3. \A q \in eligible : Amount(q) = Shortfall(q)
  BY <1>1, DrawingFacts
<1>4. \A q \in queue : q # r => Before(r, q)
  BY <1>2, <1>3 DEF Foremost, Ahead, Before
<1>5. r \in queue /\ eligible \ (eligible \ queue) = queue
  BY <1>2 DEF Foremost
<1> QED
  BY <1>2, <1>4, <1>5 DEF NextOf

\* Where the walk of the axis stands when it is a row's turn to be paid.
LEMMA PayingFrom ==
    ASSUME CurveInv, stage = "spending", NEW r \in Rows, Foremost(r),
           NEW V, V = eligible \ queue, NEW u, u = axis.steps
    PROVE  /\ Segment(V, r, SpentSoFar, u) /\ r \in queue /\ r \in eligible
           /\ SpentSoFar \in Int /\ SpentSoFar = NextTarget - left
           /\ NextTarget \in Nat /\ u \in Nat \ {0} /\ left \in Int
           /\ Need(V) \in Nat /\ Shortfall(r) \in Nat \ {0}
           /\ Leading(V \cup {r}) /\ Need(V \cup {r}) = Need(V) + Shortfall(r)
           /\ \A q \in V : raise[q] = Shortfall(q) * u
           /\ raise[r] = SpentSoFar - Need(V) * u
           /\ \A q \in queue \ {r} : raise[q] = 0
           /\ owed[r] = (Need(V) + Shortfall(r)) * u - SpentSoFar
<1>1. Drawing /\ req.strategy = "Greedy" /\ IInv /\ left \in Int
  BY DEF Drawing, CurveInv, AxisKept, PathInv, OnPath, CurveTyped
<1>2. NextTarget \in Nat /\ u \in Nat \ {0}
  BY <1>1, DrawingFacts
<1>3. SpentSoFar = NextTarget - left /\ SpentSoFar \in Int
  BY <1>1, <1>2 DEF SpentSoFar
<1>4. NextOf(V, r) /\ Leading(V) /\ r \in queue /\ r \in eligible
  BY ForemostIsNext, <1>1 DEF NextOf, CurveInv, DrawnGreedy, EndsAt, Foremost
<1>5. /\ Need(V) \in Nat /\ Shortfall(r) \in Nat \ {0}
      /\ Leading(V \cup {r}) /\ Need(V \cup {r}) = Need(V) + Shortfall(r)
  BY <1>1, <1>4, NeedAheadFacts
<1>6. Segment(V, r, SpentSoFar, u)
  BY <1>1, <1>2, <1>3, <1>4 DEF Segment, CurveInv, DrawnGreedy, EndsAt
<1>7. /\ queue \subseteq eligible
      /\ \A q \in eligible : raise[q] = PathPay(q, SpentSoFar, u)
      /\ \A q \in queue : owed[q] = Shortfall(q) * u - raise[q]
  BY <1>1 DEF CurveInv, DrawnGreedy
<1>8. /\ \A q \in V : PathPay(q, SpentSoFar, u) = Shortfall(q) * u
      /\ PathPay(r, SpentSoFar, u) = SpentSoFar - Need(V) * u
      /\ \A q \in eligible \ (V \cup {r}) : PathPay(q, SpentSoFar, u) = 0
  BY <1>1, <1>6, GreedyPath
<1>9. /\ \A q \in V : raise[q] = Shortfall(q) * u
      /\ raise[r] = SpentSoFar - Need(V) * u
      /\ \A q \in queue \ {r} : raise[q] = 0
  BY <1>4, <1>7, <1>8
<1>10. owed[r] = (Need(V) + Shortfall(r)) * u - SpentSoFar
  <2>1. /\ Need(V) * u \in Int /\ Shortfall(r) * u \in Int
        /\ (Need(V) + Shortfall(r)) * u = Need(V) * u + Shortfall(r) * u
    BY <1>2, <1>5, InParts
  <2> QED  BY <1>3, <1>4, <1>7, <1>9, <2>1
<1> QED
  BY <1>1, <1>2, <1>3, <1>4, <1>5, <1>6, <1>9, <1>10

\* The points already drawn are kept, and stay on the schedule.
LEMMA ScheduleKept ==
    ASSUME CurveIsTheSchedule, UNCHANGED <<vars, axis, points>>
    PROVE  CurveIsTheSchedule'
<1>1. /\ eligible' = eligible /\ AllNeed' = AllNeed
      /\ \A r, b, u : PathPay(r, b, u)' = PathPay(r, b, u)
  BY PathFrozen DEF vars
<1> SUFFICES ASSUME NEW i \in DOMAIN points, NEW r \in Rows
             PROVE  points[i].raise[r] =
                      IF r \in eligible
                      THEN PathPay(r, Lesser(points[i].budget, AllNeed * axis.steps),
                                   axis.steps)'
                      ELSE 0
  BY <1>1 DEF CurveIsTheSchedule
<1>2. PathPay(r, Lesser(points[i].budget, AllNeed * axis.steps), axis.steps)' =
        PathPay(r, Lesser(points[i].budget, AllNeed * axis.steps), axis.steps)
  BY <1>1 DEF Lesser
<1> QED
  BY <1>2 DEF CurveIsTheSchedule

\* A row paid some of what it is owed, or all of it, is paid along the path.
LEMMA PaidFurther ==
    ASSUME CurveInv, stage = "spending", NEW r \in Rows, Foremost(r),
           UNCHANGED <<vars, axis, stage, cursor, points>>,
           NEW m \in Int, 0 <= m, m <= owed[r],
           raise' = [raise EXCEPT ![r] = @ + m],
           left' = left - m, left' >= 0,
           owed' = [owed EXCEPT ![r] = @ - m],
           queue' = IF m = owed[r] THEN queue \ {r} ELSE queue
    PROVE  Drawn'
<1> DEFINE V == eligible \ queue
           u == axis.steps
           c == SpentSoFar + m
<1>1. /\ Segment(V, r, SpentSoFar, u) /\ r \in queue /\ r \in eligible
      /\ SpentSoFar \in Int /\ SpentSoFar = NextTarget - left
      /\ NextTarget \in Nat /\ u \in Nat \ {0} /\ left \in Int
      /\ Need(V) \in Nat /\ Shortfall(r) \in Nat \ {0}
      /\ Leading(V \cup {r}) /\ Need(V \cup {r}) = Need(V) + Shortfall(r)
      /\ \A q \in V : raise[q] = Shortfall(q) * u
      /\ raise[r] = SpentSoFar - Need(V) * u
      /\ \A q \in queue \ {r} : raise[q] = 0
      /\ owed[r] = (Need(V) + Shortfall(r)) * u - SpentSoFar
  BY PayingFrom
<1>2. /\ CurveTyped /\ Drawing /\ req.strategy = "Greedy" /\ queue \subseteq eligible
      /\ \A q \in Rows \ eligible : raise[q] = 0
      /\ \A q \in queue : owed[q] = Shortfall(q) * axis.steps - raise[q]
      /\ IInv /\ eligible \subseteq Rows
  BY DEF Drawing, CurveInv, AxisKept, DrawnGreedy, PathInv, OnPath, IInv, Typed,
     FiguresTyped
<1>3. /\ raise'[r] = raise[r] + m /\ owed'[r] = owed[r] - m
      /\ \A q \in Rows \ {r} : raise'[q] = raise[q] /\ owed'[q] = owed[q]
      /\ raise[r] \in Int /\ owed[r] \in Int /\ raise[r] + m \in Int
      /\ owed[r] - m \in Int
  BY <1>2 DEF CurveTyped
<1>4. CurveTyped'
  <2>1. raise' \in [Rows -> Int] /\ owed' \in [Rows -> Int]
    BY <1>2, <1>3 DEF CurveTyped
  <2>2. cursor' \in Int /\ left' \in Int /\ points' \in Seq(CurvePoint)
    BY <1>1, <1>2 DEF CurveTyped
  <2> QED  BY <2>1, <2>2 DEF CurveTyped
<1>5. c = SpentSoFar'
  <2>1. NextTarget' = NextTarget
    BY AxisFrozen DEF NextTarget
  <2>2. SpentSoFar' = NextTarget' - left'
    BY DEF SpentSoFar
  <2> QED  BY <1>1, <2>1, <2>2
<1>6. Segment(V, r, c, u)
  BY <1>1 DEF Segment
<1>7. /\ \A q \in V : PathPay(q, c, u) = Shortfall(q) * u
      /\ PathPay(r, c, u) = c - Need(V) * u
      /\ \A q \in eligible \ (V \cup {r}) : PathPay(q, c, u) = 0
  BY <1>2, <1>6, GreedyPath
<1>8. \A q \in eligible : raise'[q] = PathPay(q, c, u)
  <2>1. raise'[r] = c - Need(V) * u
    <3>1. Need(V) * u \in Int
      BY <1>1
    <3> QED  BY <1>1, <1>3, <3>1
  <2>2. \A q \in eligible : q \in V \/ q = r \/ q \in queue \ {r}
    OBVIOUS
  <2>3. /\ \A q \in V : q \in Rows \ {r}
        /\ \A q \in queue \ {r} : q \in Rows \ {r} /\ q \in eligible \ (V \cup {r})
    BY <1>1, <1>2
  <2> HIDE DEF V, c, u
  <2> QED  BY <1>1, <1>3, <1>7, <2>1, <2>2, <2>3
<1>9. \A q \in Rows \ eligible : raise'[q] = 0
  BY <1>1, <1>2, <1>3
<1>10. /\ queue' \subseteq queue
       /\ \A q \in queue' : owed'[q] = Shortfall(q) * axis.steps - raise'[q]
  <2>1. queue' \subseteq queue
    OBVIOUS
  <2>2. ASSUME NEW q \in queue' PROVE owed'[q] = Shortfall(q) * u - raise'[q]
    <3>1. q \in queue /\ q \in Rows /\ owed[q] = Shortfall(q) * u - raise[q]
      BY <1>2, <2>1
    <3>2. CASE q = r
      <4>1. Shortfall(r) * u \in Int
        BY <1>1
      <4> QED  BY <1>3, <3>1, <3>2, <4>1
    <3>3. CASE q # r
      BY <1>3, <3>1, <3>3
    <3> QED  BY <3>2, <3>3
  <2> QED  BY <2>1, <2>2
<1>11. EndsAt(eligible \ queue', c, u)
  <2>1. CASE m = owed[r]
    <3>1. eligible \ queue' = V \cup {r}
      BY <1>1, <2>1
    <3>2. c = (Need(V) + Shortfall(r)) * u
      <4>1. (Need(V) + Shortfall(r)) * u \in Int
        BY <1>1
      <4> QED  BY <1>1, <2>1, <4>1
    <3>3. ASSUME NEW s, NextOf(V \cup {r}, s)
          PROVE  c <= (Need(V \cup {r}) + Shortfall(s)) * u
      <4>1. Shortfall(s) \in Nat \ {0} /\ Need(V \cup {r}) \in Nat
        BY <1>1, <1>2, <3>3, NeedAheadFacts DEF NextOf
      <4>2. (Need(V \cup {r}) + Shortfall(s)) * u =
              Need(V \cup {r}) * u + Shortfall(s) * u
        BY <1>1, <4>1, InParts
      <4>3. Shortfall(s) * u >= 0 /\ Shortfall(s) * u \in Int
            /\ Need(V \cup {r}) * u \in Int
        BY <1>1, <4>1
      <4>4. c = Need(V \cup {r}) * u
        BY <1>1, <3>2
      <4> HIDE DEF c, V, u
      <4> QED  BY <4>2, <4>3, <4>4
    <3> HIDE DEF V, c, u
    <3>4. Need(V \cup {r}) * u <= c /\ c \in Int
      BY <1>1, <3>2
    <3>5. EndsAt(V \cup {r}, c, u)
      BY <1>1, <3>3, <3>4 DEF EndsAt
    <3> QED  BY <3>1, <3>5
  <2>2. CASE m # owed[r]
    <3>1. eligible \ queue' = V
      BY <2>2
    <3>2. ASSUME NEW s, NextOf(V, s) PROVE s = r
      <4>1. NextOf(V, r) /\ r \in Rows /\ s \in Rows
        BY <1>1, <1>2, <3>2 DEF Segment, NextOf
      <4>2. s # r => Before(s, r) /\ Before(r, s)
        BY <3>2, <4>1 DEF NextOf
      <4> QED  BY <1>2, <4>1, <4>2, BeforeAsymmetric DEF IInv, Typed
    <3>3. EndsAt(V, c, u)
      BY <1>6, <3>2 DEF Segment, EndsAt
    <3> QED  BY <3>1, <3>3
  <2> QED  BY <2>1, <2>2
<1>12. DrawnGreedy'
  BY <1>2, <1>5, <1>8, <1>9, <1>10, <1>11, DrawnAt
<1>13. AxisKept'
  <2>1. \A k : Target(k)' = Target(k)
    BY AxisFrozen
  <2>2. req' = req
    BY DEF vars, inputs
  <2>3. Target(Len(points) - 1)' = Target(Len(points) - 1)
    BY <2>1
  <2> QED  BY <1>1, <1>2, <2>2, <2>3 DEF AxisKept, CurveInv
<1>14. CurveIsTheSchedule'
  BY ScheduleKept DEF CurveInv
<1> QED
  BY <1>2, <1>4, <1>12, <1>13, <1>14 DEF Drawn, DrawnEquitable, vars, inputs

\* PayWhole and PayPart are payments of this kind.
LEMMA PayingDraws ==
    ASSUME CurveInv, NEW r \in Rows, PayWhole(r) \/ PayPart(r)
    PROVE  Drawn'
<1>1. /\ stage = "spending" /\ Foremost(r) /\ left > 0
      /\ UNCHANGED <<vars, axis, stage, cursor, points>>
  BY DEF PayWhole, PayPart
<1>2. /\ owed[r] \in Int /\ owed[r] >= 0 /\ left \in Int
  <2>1. /\ Segment(eligible \ queue, r, SpentSoFar, axis.steps)
        /\ SpentSoFar \in Int /\ left \in Int
        /\ owed[r] = (Need(eligible \ queue) + Shortfall(r)) * axis.steps - SpentSoFar
        /\ Need(eligible \ queue) \in Nat /\ Shortfall(r) \in Nat /\ axis.steps \in Nat
    BY <1>1, PayingFrom, ZenonT(40)
  <2>2. /\ (Need(eligible \ queue) + Shortfall(r)) * axis.steps \in Int
        /\ SpentSoFar <= (Need(eligible \ queue) + Shortfall(r)) * axis.steps
    BY <2>1 DEF Segment
  <2> QED  BY <2>1, <2>2
<1>3. owed \in [Rows -> Int]
  BY DEF CurveInv, CurveTyped
<1>4. CASE PayWhole(r)
  <2> DEFINE m == owed[r]
  <2>1. /\ m \in Int /\ 0 <= m /\ m <= left /\ m - m = 0
        /\ raise' = [raise EXCEPT ![r] = @ + m] /\ left' = left - m
        /\ owed' = [owed EXCEPT ![r] = 0] /\ queue' = queue \ {r}
    BY <1>2, <1>4 DEF PayWhole
  <2>2. owed' = [owed EXCEPT ![r] = @ - m]
    BY <1>3, <2>1
  <2>3. queue' = IF m = owed[r] THEN queue \ {r} ELSE queue
    BY <2>1
  <2>4. m <= owed[r]
    BY <2>1
  <2> HIDE DEF m
  <2>5. left' >= 0
    BY <1>2, <2>1
  <2> QED  BY <1>1, <2>1, <2>2, <2>3, <2>4, <2>5, PaidFurther
<1>5. CASE PayPart(r)
  <2> DEFINE m == left
  <2>1. /\ m \in Int /\ 0 <= m /\ left - m = 0 /\ m <= owed[r] /\ m # owed[r]
        /\ raise' = [raise EXCEPT ![r] = @ + m] /\ left' = 0
        /\ owed' = [owed EXCEPT ![r] = @ - m] /\ queue' = queue
    BY <1>1, <1>2, <1>5 DEF PayPart
  <2>2. queue' = IF m = owed[r] THEN queue \ {r} ELSE queue
    BY <2>1
  <2>3. left' = left - m /\ left' >= 0
    BY <2>1
  <2> HIDE DEF m
  <2> QED  BY <1>1, <2>1, <2>2, <2>3, PaidFurther
<1> QED
  BY <1>4, <1>5

\* A step of the axis begins where the last one ended.
LEMMA GreedyStepDraws ==
    ASSUME CurveInv, GreedyStep
    PROVE  Drawn'
<1>1. /\ stage = "stepping" /\ req.strategy = "Greedy" /\ Drawing
      /\ left' = NextTarget - cursor /\ stage' = "spending"
      /\ UNCHANGED <<vars, axis, queue, owed, cursor, raise, points>>
  BY DEF GreedyStep, Drawing
<1>2. CurveInv /\ CurveTyped /\ AxisKept /\ DrawnGreedy /\ CurveIsTheSchedule
  BY DEF CurveInv
<1>3. /\ cursor = Target(Len(points) - 1) /\ SpentSoFar = cursor
      /\ NextTarget = cursor + MaxBudget /\ MaxBudget \in Nat /\ NextTarget \in Nat
      /\ cursor \in Int
  BY <1>1, <1>2, DrawingFacts DEF AxisKept, SpentSoFar, CurveTyped
<1>4. left' \in Nat
  <2>1. ASSUME NEW a \in Int, NEW b \in Nat PROVE (a + b) - a \in Nat
    OBVIOUS
  <2>2. left' = (cursor + MaxBudget) - cursor
    BY <1>1, <1>3
  <2> QED  BY <1>3, <2>1, <2>2
<1>5. cursor = SpentSoFar'
  <2>1. NextTarget' = NextTarget
    BY <1>1, AxisFrozen DEF NextTarget
  <2>2. SpentSoFar' = NextTarget' - left'
    BY <1>1 DEF SpentSoFar
  <2> QED  BY <1>1, <1>3, <2>1, <2>2
<1>6. DrawnGreedy'
  <2>1. /\ queue' \subseteq eligible /\ EndsAt(eligible \ queue', cursor, axis.steps)
        /\ \A r \in eligible : raise'[r] = PathPay(r, cursor, axis.steps)
        /\ \A r \in Rows \ eligible : raise'[r] = 0
        /\ \A r \in queue' : owed'[r] = Shortfall(r) * axis.steps - raise'[r]
    BY <1>1, <1>2, <1>3 DEF DrawnGreedy
  <2> QED  BY <1>1, <1>5, <2>1, DrawnAt
<1>7. AxisKept'
  <2>1. \A k : Target(k)' = Target(k)
    BY <1>1, AxisFrozen
  <2>2. req' = req
    BY <1>1 DEF vars, inputs
  <2>3. Target(Len(points) - 1)' = Target(Len(points) - 1)
    BY <1>1, <2>1
  <2> QED  BY <1>1, <1>2, <1>3, <1>4, <2>2, <2>3 DEF AxisKept
<1>8. CurveTyped' /\ CurveIsTheSchedule'
  BY <1>1, <1>2, <1>4, ScheduleKept DEF CurveTyped
<1> QED
  BY <1>1, <1>6, <1>7, <1>8 DEF Drawn, DrawnEquitable, vars, inputs

\* The axis goes on where the point just drawn is.
LEMMA AxisAfterPoint ==
    ASSUME CurveInv, Drawing, UNCHANGED <<vars, axis>>, stage' # "spending",
           NEW p, points' = Append(points, p),
           req.strategy = "Greedy" => cursor' = NextTarget
    PROVE  AxisKept'
<1>1. points \in Seq(CurvePoint) /\ Len(points) \in Nat
  BY DEF CurveInv, CurveTyped
<1>2. Len(points') = Len(points) + 1
  BY <1>1
<1>3. Target(Len(points) - 1)' = NextTarget
  <2>1. Target(Len(points) - 1)' = Target(Len(points') - 1)
    BY AxisFrozen
  <2>2. Len(points') - 1 = Len(points)
    BY <1>1, <1>2
  <2> QED  BY <2>1, <2>2 DEF NextTarget
<1>4. req' = req
  BY DEF vars, inputs
<1> QED
  BY <1>1, <1>2, <1>3, <1>4 DEF AxisKept

\* A Greedy point is drawn once its money is spent, or everyone is paid.
LEMMA GreedyPointDraws ==
    ASSUME CurveInv, GreedyPoint
    PROVE  Drawn'
<1>1. /\ stage = "spending" /\ Drawing /\ (left = 0 \/ queue = {})
      /\ cursor' = NextTarget /\ stage' # "spending"
      /\ points' = Append(points, Point(NextTarget, raise))
      /\ UNCHANGED <<vars, axis, queue, owed, left, raise>>
  BY DEF GreedyPoint, AddPoint, Drawing
<1>2. CurveTyped /\ AxisKept /\ DrawnGreedy /\ req.strategy = "Greedy" /\ IInv
  BY <1>1 DEF CurveInv, AxisKept, PathInv, OnPath
<1>3. /\ \A r \in eligible : raise[r] = PathPay(r, NextTarget, axis.steps)
      /\ EndsAt(eligible \ queue, NextTarget, axis.steps)
  BY <1>1, <1>2, DrawnToTarget
<1>4. DrawnGreedy'
  <2>1. NextTarget = SpentSoFar'
    BY <1>1 DEF SpentSoFar
  <2>2. /\ queue' \subseteq eligible
        /\ EndsAt(eligible \ queue', NextTarget, axis.steps)
        /\ \A r \in eligible : raise'[r] = PathPay(r, NextTarget, axis.steps)
        /\ \A r \in Rows \ eligible : raise'[r] = 0
        /\ \A r \in queue' : owed'[r] = Shortfall(r) * axis.steps - raise'[r]
    BY <1>1, <1>2, <1>3 DEF DrawnGreedy
  <2> QED  BY <1>1, <2>1, <2>2, DrawnAt
<1>5. OnSchedule(Point(NextTarget, raise)) /\ raise \in [Rows -> Int]
  BY <1>1, <1>2, DrawnOnSchedule DEF CurveTyped
<1>6. CurveIsTheSchedule' /\ points' \in Seq(CurvePoint)
  BY <1>1, <1>5, PointAdded
<1>7. CurveTyped'
  <2>1. NextTarget \in Int
    BY <1>1, DrawingFacts
  <2> QED  BY <1>1, <1>2, <1>6, <2>1 DEF CurveTyped
<1>8. AxisKept'
  BY <1>1, AxisAfterPoint
<1> QED
  BY <1>1, <1>2, <1>4, <1>6, <1>7, <1>8 DEF Drawn, DrawnEquitable, vars, inputs

\* An Equitable point gives everyone the share its budget is of the need.
LEMMA EquitablePointDraws ==
    ASSUME CurveInv, EquitablePoint
    PROVE  Drawn'
<1>1. /\ stage = "stepping" /\ Drawing /\ req.strategy = "Equitable"
      /\ stage' # "spending" /\ points' = Append(points, Point(NextTarget, raise'))
      /\ raise' = [r \in Rows |->
                     IF r \in queue
                     THEN Amount(r) * Lesser(NextTarget, FullCost * axis.steps) ELSE 0]
      /\ UNCHANGED <<vars, axis, queue, owed, cursor, left>>
  BY DEF EquitablePoint, AddPoint, Drawing
<1>2. /\ CurveTyped /\ AxisKept /\ queue = eligible
  BY <1>1 DEF CurveInv, DrawnEquitable
<1>3. /\ axis.steps \in Nat /\ NextTarget \in Nat /\ AllNeed \in Nat
      /\ FullCost = AllNeed /\ \A r \in eligible : Amount(r) = Shortfall(r)
      /\ \A r \in eligible : r \in Rows /\ Shortfall(r) \in Nat
  BY <1>1, DrawingFacts
<1> DEFINE b == Lesser(NextTarget, AllNeed * axis.steps)
<1>4. b \in Nat
  BY <1>3 DEF Lesser
<1>5. raise' = [r \in Rows |-> IF r \in eligible THEN PathPay(r, b, axis.steps) ELSE 0]
  <2>1. \A r \in eligible :
          Amount(r) * Lesser(NextTarget, FullCost * axis.steps)
            = PathPay(r, b, axis.steps)
    BY <1>1, <1>3 DEF PathPay
  <2> HIDE DEF b
  <2> QED  BY <1>1, <1>2, <2>1
<1>6. raise' \in [Rows -> Int]
  <2>1. \A r \in eligible : PathPay(r, b, axis.steps) \in Int
    <3>1. \A r \in eligible : PathPay(r, b, axis.steps) = Shortfall(r) * b
      BY <1>1 DEF PathPay
    <3> HIDE DEF b
    <3> QED  BY <1>3, <1>4, <3>1
  <2> HIDE DEF b
  <2> QED  BY <1>5, <2>1
<1>7. OnSchedule(Point(NextTarget, raise'))
  BY <1>5 DEF OnSchedule, Point
<1>8. CurveIsTheSchedule' /\ points' \in Seq(CurvePoint)
  BY <1>1, <1>6, <1>7, PointAdded
<1>9. CurveTyped' /\ AxisKept'
  BY <1>1, <1>2, <1>6, <1>8, AxisAfterPoint DEF CurveTyped
<1> QED
  BY <1>1, <1>2, <1>8, <1>9 DEF Drawn, DrawnEquitable, DrawnGreedy, vars, inputs, figures

\* Before the baseline point, and once the call has ended, nothing is drawn.
LEMMA NotDrawing ==
    ASSUME Drawn, CurveTyped', PricedKept', ~Drawing'
    PROVE  Drawn'
<1>1. points' = <<>>
  BY DEF PricedKept
<1> QED
  BY <1>1 DEF Drawn, AxisKept, DrawnGreedy, DrawnEquitable, CurveIsTheSchedule

\* Every step keeps the curve on the schedule.
LEMMA CurveStep == CurveInv /\ [FrontierNext]_frontierVars => CurveInv'
<1> SUFFICES ASSUME CurveInv, [FrontierNext]_frontierVars PROVE CurveInv'
  OBVIOUS
<1>1. PathInv' /\ PricedKept'
  BY RemedyStep, PathStep, PricedStep DEF CurveInv
<1>2. Drawn'
  <2>1. CASE FitPooled
    BY <2>1, FitPooledDraws
  <2>2. CASE GreedyStep \/ GreedyPoint \/ EquitablePoint
    BY <2>2, GreedyStepDraws, GreedyPointDraws, EquitablePointDraws
  <2>3. CASE \E r \in Rows : PayWhole(r) \/ PayPart(r)
    BY <2>3, PayingDraws
  <2>4. CASE RefuseAxis \/ AskForRemedy \/ Optimize \/ GiveUp
    <3>1. UNCHANGED <<owed, cursor, left, raise, points>> /\ ~Drawing'
      BY <2>4 DEF RefuseAxis, AskForRemedy, Optimize, GiveUp, Drawing, curve
    <3>2. CurveTyped'
      BY <3>1 DEF CurveInv, CurveTyped
    <3> QED  BY <1>1, <3>1, <3>2, NotDrawing DEF CurveInv, Drawn
  <2>5. CASE Return \/ UNCHANGED frontierVars
    <3>1. UNCHANGED frontierVars
      BY <2>5 DEF Return
    <3>2. UNCHANGED <<vars, axis, stage, queue, owed, cursor, left, raise, points>>
      BY <3>1 DEF frontierVars, curve
    <3>3. CurveTyped' /\ CurveIsTheSchedule'
      BY <3>2, ScheduleKept DEF CurveInv, CurveTyped
    <3>4. AxisKept' /\ DrawnEquitable'
      <4>1. \A k : Target(k)' = Target(k)
        BY <3>2, AxisFrozen
      <4>2. Target(Len(points) - 1)' = Target(Len(points) - 1)
        BY <3>2, <4>1
      <4> QED  BY <3>2, <4>2
          DEF CurveInv, AxisKept, DrawnEquitable, Drawing, vars, inputs, figures
    <3>5. DrawnGreedy'
      <4>1. SpentSoFar = SpentSoFar'
        BY <3>2, AxisFrozen DEF SpentSoFar, NextTarget
      <4>2. Drawing' => Drawing /\ req' = req
        BY <3>2 DEF Drawing, vars, inputs
      <4> SUFFICES ASSUME Drawing, req.strategy = "Greedy" PROVE DrawnGreedy'
        BY <4>2 DEF DrawnGreedy
      <4> QED  BY <3>2, <4>1, DrawnAt DEF CurveInv, DrawnGreedy
    <3> QED  BY <3>3, <3>4, <3>5 DEF Drawn
  <2> QED
    BY <2>1, <2>2, <2>3, <2>4, <2>5 DEF FrontierNext
<1> QED
  BY <1>1, <1>2 DEF CurveInv, Drawn

\* The curve drawn is, point by point, the schedule its budget buys (F-12).
THEOREM CurveIsExact == FrontierSpec => []CurveIsTheSchedule
<1>1. FrontierInit => CurveInv
  <2> SUFFICES ASSUME FrontierInit PROVE CurveInv
    OBVIOUS
  <2>1. PathInv /\ PricedKept
    BY FrontierOpened, PathInit
  <2>2. CurveTyped /\ ~Drawing /\ points = <<>>
    BY DEF FrontierInit, CurveTyped, NoRaise, Drawing
  <2> QED
    BY <2>1, <2>2 DEF CurveInv, AxisKept, DrawnGreedy, DrawnEquitable, CurveIsTheSchedule
<1>2. CurveInv /\ [FrontierNext]_frontierVars => CurveInv'
  BY CurveStep
<1>3. CurveInv => CurveIsTheSchedule
  BY DEF CurveInv
<1> QED
  BY <1>1, <1>2, <1>3, PTL DEF FrontierSpec

\* What holds of a call by itself holds of the call a frontier makes, and after
\* it: the schedule is priced by the rules, and drawing the curve leaves it alone.
THEOREM PricedByTheRules ==
    FrontierSpec => [](/\ TypeOK /\ NeverAboveTheLine /\ PriorityKept
                       /\ SpendIsBounded /\ StillBelowIsCounted /\ BestIsThePeak
                       /\ LeastBudget /\ LandsWhereItSays /\ BindingIsShort)
<1>1. FrontierInit => PathInv
  BY FrontierOpened, PathInit
<1>2. PathInv /\ [FrontierNext]_frontierVars => PathInv'
  BY RemedyStep, PathStep
<1>3. PathInv => /\ TypeOK /\ NeverAboveTheLine /\ PriorityKept
                 /\ SpendIsBounded /\ StillBelowIsCounted /\ BestIsThePeak
                 /\ LeastBudget /\ LandsWhereItSays /\ BindingIsShort
  BY TypedOnPath, KeepsToTheLine, PriorityOnPath, BoundedOnPath, CountedOnPath,
     PeakOnPath, LeastOnPath, LandsOnPath, BindingOnPath DEF PathInv, OnPath
<1> QED
  BY <1>1, <1>2, <1>3, PTL DEF FrontierSpec
=============================================================================
