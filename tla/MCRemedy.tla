------------------------------ MODULE MCRemedy ------------------------------
(* Instances of Remedy for TLC. A roster is what a fit can produce: the    *)
(* reference group's residuals sum to zero, the compared group's weights   *)
(* on the pooled line sum to n_T and the reference group's to -n_T (they   *)
(* are residuals of the group indicator on columns with an intercept).     *)
EXTENDS Remedy, TLC

\* Ordinals interleave the groups, so that a tie tells group from ordinal.
MCCompared == {1, 3, 4}
MCReference == {0, 2}

Ask == [budget |-> 0, goal |-> {}, target |-> "Pooled", strategy |-> "Greedy",
        line |-> "Midpoint", minPct |-> 0, adjustBoth |-> FALSE,
        forensic |-> FALSE]

Flat(S, x) == [r \in S |-> x]
Balanced(p, f) ==
    SumFunctionOnSet([r \in Reference |-> p[r] - f[r]], Reference) = 0
Weighted(S, W, n) == {w \in [S -> W] : SumFunction(w) = n}

\* Targets on the pooled line: every mix of shortfalls, one weight negative.
TargetCases(budgets, targets) ==
    << { [pay |-> Flat(Compared, 4) @@ Flat(Reference, 5),
          fair |-> f @@ Flat(Reference, 5),
          width |-> Flat(Rows, 0),
          weight |-> w @@ Flat(Reference, 0)] :
         f \in [Compared -> {3, 5, 6, 8}],
         w \in Weighted(Compared, {-2, 1, 2, 3}, 3) },
       { [Ask EXCEPT !.budget = b, !.goal = g, !.target = t, !.strategy = s] :
         b \in budgets, g \in {{}, {-7}, {-2}, {-1}, {2}},
         t \in targets, s \in {"Greedy", "Equitable"} } >>

\* Both groups, both bounds of the range, thresholds, forensic lists: people
\* above, below and on the line, with no pay and with a negative outcome, and
\* every field validate_remedy_request refuses.
Person == {[p |-> 4, f |-> 3], [p |-> 2, f |-> 4],
           [p |-> 0, f |-> 2], [p |-> -2, f |-> 1]}
Staff ==
    { [c \in Compared |-> IF c = 4 THEN [p |-> 3, f |-> 5] ELSE two[c]]
          @@ (0 :> [p |-> 4 + d, f |-> 4] @@ 2 :> [p |-> 4 - d, f |-> 4]) :
      two \in [{1, 3} -> Person], d \in {-1, 0, 1} }
People(s, w) ==
    [pay |-> [r \in Rows |-> s[r].p], fair |-> [r \in Rows |-> s[r].f],
     width |-> Flat(Rows, 1), weight |-> w]
GroupCases(budgets, targets, pcts) ==
    << { People(s, Flat(Compared, 1) @@ (0 :> -4 @@ 2 :> 1)) : s \in Staff },
       { [Ask EXCEPT !.budget = b, !.goal = g, !.target = t, !.strategy = y,
                     !.line = l, !.minPct = m, !.adjustBoth = a,
                     !.forensic = z] :
         b \in budgets, g \in {{}, {-5}}, t \in targets,
         y \in {"Greedy", "Equitable"},
         l \in {"Midpoint", "LowerBound", "UpperBound"}, m \in pcts,
         a \in BOOLEAN, z \in BOOLEAN } >>

MCCases ==
    { TargetCases({0, 2, 4}, {"Pooled", "Reference"}),
      GroupCases({-1, 0, 4}, {"Reference", "Pooled"}, {-1, 0, 60}) }

\* The family on which a field comment of the request is compared with it.
MCThreshold == {GroupCases({0}, {"Reference"}, {0, 60})}
=============================================================================
