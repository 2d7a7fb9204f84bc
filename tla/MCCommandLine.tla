--------------------------- MODULE MCCommandLine ---------------------------
(* Instances of CommandLine for TLC: the files of MCDecomposition, a panel,*)
(* samples to match and data to simulate on for the calls a program makes, *)
(* and the commands over a few of each.                                    *)
EXTENDS CommandLine, MCDecomposition

-----------------------------------------------------------------------------
(* Panels: up to three workers at three firms, blanks among the cells.     *)

MCWorkerPart == <<0, 3, 5>>
MCFirmPart == <<1, 2, 7>>
MCOffsets == {0, 1}

PanelRow(w, f) ==
    [worker |-> w, firm |-> f,
     outcome |-> {MCWorkerPart[a] + MCFirmPart[b] : a \in w, b \in f}]
Panels(pairs, n) == {[k \in 1..n |-> PanelRow(p[k][1], p[k][2])] :
                        p \in [1..n -> pairs]}
Pairs(n) == {<<{w}, {f}>> : w \in 1..n, f \in 1..n}
BlankPairs == {<<{}, {1}>>, <<{}, {2}>>, <<{1}, {}>>, <<{2}, {}>>, <<{}, {}>>}
PanelCall(rows, controls, limit) ==
    [rows |-> rows, controls |-> controls, limit |-> limit]

MCAkmCalls ==
    {PanelCall(p, 0, 2) :
        p \in {q \in Panels(Pairs(3), 4) : q[1] = PanelRow({1}, {1})}}
    \cup {PanelCall(p, 0, 2) :
             p \in UNION {Panels(Pairs(2) \cup BlankPairs, n) : n \in 0..3}}
    \cup {PanelCall(p, 1, l) : p \in Panels(Pairs(2), 2), l \in 0..2}
    \cup {PanelCall(<<PanelRow({1}, {1}),
                      [PanelRow({2}, {1}) EXCEPT !.outcome = {}]>>, 0, 2)}

-----------------------------------------------------------------------------
(* Samples to match.                                                       *)

Subject(t, x, y) == [treat |-> t, x |-> x, y |-> y]
Plain == {Subject({t}, {x}, {1}) : t \in {0, 1}, x \in {<<0, 0>>, <<1, 1>>, <<3, 1>>}}
Odd == {Subject({}, {<<0, 0>>}, {1}), Subject({2}, {<<1, 1>>}, {}),
        Subject({0}, {}, {1}), Subject({1}, {}, {}), Subject({1}, {<<0, 1>>}, {})}
MatchCall(s, k, m, t) == [sample |-> s, k |-> k, method |-> m, typed |-> t]

MCMatchCalls ==
    {MatchCall(s, k, m, "whole") :
        s \in {s \in [1..4 -> Plain] : s[1].treat = {1}}, k \in {1, 2},
        m \in {"euclidean", "mahalanobis"}}
    \cup {MatchCall(s, k, m, "decimal") :
             s \in UNION {[1..n -> Plain \cup Odd] : n \in 0..3}, k \in {0, 2},
             m \in {"euclidean", "mahalanobis", "psm"}}
    \cup {MatchCall(s, 1, "psm", t) :
             s \in [1..3 -> Plain], t \in {"whole", "decimal"}}
MCScores == 0..2

-----------------------------------------------------------------------------
(* Data for the simulated quantiles: every grouping of up to five rows,    *)
(* and four rows with three replicates on up to three threads, of which    *)
(* some lack fits.                                                         *)

Simulated(d, b, q, s, r, t, fits) ==
    [data |-> d, base |-> b, quantiles |-> q, simulations |-> s, reps |-> r,
     threads |-> t, fits |-> fits,
     tape |-> [i \in 0..(2 * r - 1) |-> [k \in 1..5 |-> (s * k + i) % 7]]]
AllFit(s, r) == [m \in 0..r |-> [g \in {"a", "b"} |-> s]]
FewFit(s, r) == [AllFit(s, r) EXCEPT ![1].b = 0, ![2].a = s \div 2]
Grouped ==
    UNION {[1..n -> [group : {{}, {1}, {2}}, y : {{1}}]] : n \in 1..5}
    \cup {f \in [1..4 -> [group : {{1}, {2}, {3}}, y : {{1}, {}}]] :
             f[1].group = {1}}
Alternating == [k \in 1..4 |-> [group |-> {1 + (k % 2)}, y |-> {1}]]

MCQuantileCalls ==
    {Simulated(f, b, <<290, 500, 285>>, 2, 1, 1, AllFit(2, 1)) :
        f \in Grouped, b \in {1, 2}}
    \cup UNION {{Simulated(Alternating, b, <<100, 500>>, s, 3, t, fits) :
                    b \in {1, 2}, t \in {1, 2, 3},
                    fits \in {AllFit(s, 3), FewFit(s, 3)}} : s \in {2, 3}}

-----------------------------------------------------------------------------
(* Commands: each option left out in turn, then what each analysis is      *)
(* given and asked to write.                                               *)

Main == {"data", "group", "reference", "outcome"}
NoFormula == [sides |-> 0, named |-> FALSE, numeric |-> <<>>, cats |-> <<>>]
Formula(sides, named, numeric, cats) ==
    [sides |-> sides, named |-> named, numeric |-> numeric, cats |-> cats]

Command(verb, type, given) ==
    [verb |-> verb, type |-> type, given |-> given, readable |-> TRUE,
     experimental |-> TRUE, formula |-> NoFormula, numeric |-> <<>>,
     cats |-> <<>>, weights |-> Fte, kind |-> "relative", reference |-> 2,
     selection |-> Works, selectors |-> <<Age>>,
     scheme |-> "Weighted", normalization |-> "population-share",
     quantiles |-> <<>>, neighbors |-> 1, method |-> "nearest",
     typed |-> "whole", file |-> <<>>, rows |-> <<>>, sample |-> <<>>]

\* Some weights, and a compared group in which nobody weighs anything.
OnFile(c) == [c EXCEPT !.cats = <<Dept>>,
    !.file = TwoGroups(GroupFile(<<1, 1, 2, 3, 3>>, <<1, 2, 1, 2, 1>>, <<2, 4, 6, 0, 2>>),
                       GroupFile(<<1, 2, 2, 3, 1>>, <<1, 1, 2, 2, 2>>, <<2, 2, 2, 2, 2>>))]
Weightless(c) == [c EXCEPT !.cats = <<>>,
    !.file = TwoGroups(GroupFile(<<1, 1, 2, 3, 3>>, <<1, 2, 1, 2, 1>>, <<0, 0, 0, 0, 0>>),
                       GroupFile(<<1, 2, 2, 3, 1>>, <<1, 1, 2, 2, 2>>, <<2, 2, 2, 2, 2>>))]

Mean(extra) == OnFile(Command("run", "mean", Main \cup extra))
AtQuantiles(extra, taus) ==
    [OnFile(Command("run", "quantile", Main \cup extra)) EXCEPT !.quantiles = taus]
Linked == [Command("run", "akm", Main \cup {"worker-id", "firm-id"})
              EXCEPT !.rows = <<PanelRow({1}, {1}), PanelRow({2}, {1})>>]
Matched == [Command("run", "match", Main \cup {"output-json"})
               EXCEPT !.sample = <<Subject({1}, {<<0, 0>>}, {1}),
                                   Subject({0}, {<<1, 1>>}, {1}),
                                   Subject({0}, {<<3, 1>>}, {1})>>]
Weighting == {"weights", "weights-kind"}
Choosing == {"selection-outcome", "selection-predictors"}
Both == {"output-json", "output-markdown"}

Misgiven ==
    {[Mean({"output-json"}) EXCEPT !.given = @ \ {o}] : o \in Main}
    \cup {Mean({"weights"}), Mean({"selection-outcome"}),
          [Mean({}) EXCEPT !.readable = FALSE],
          [Linked EXCEPT !.given = Main], [Matched EXCEPT !.experimental = FALSE]}
    \cup {[Mean({"formula", "output-json"}) EXCEPT !.formula = f, !.given = @ \ {"outcome"}] :
             f \in {Formula(1, TRUE, <<Years>>, <<>>), Formula(2, FALSE, <<Years>>, <<>>),
                    Formula(2, TRUE, <<>>, <<>>), Formula(2, TRUE, <<Years>>, <<Grade>>),
                    Formula(3, TRUE, <<>>, <<Dept>>)}}

MCCommands ==
    Misgiven
    \cup {[Mean(Both \cup w) EXCEPT !.scheme = s, !.normalization = n] :
             w \in {{}, Weighting}, s \in {"Pooled", "Weighted"},
             n \in {"population-share", "equal-share", "none"}}
    \cup {AtQuantiles(Both \cup Weighting, taus) :
             taus \in {<<>>, <<500>>, <<251, 249>>, <<251, 100, 249>>}}
    \cup {[Mean(Both \cup Choosing) EXCEPT !.scheme = s,
              !.file = WorkFile(Working(<<1, 0, 1, 1, 1>>, FALSE),
                                Working(<<1, 1, 1, 1, 1>>, FALSE))] :
             s \in {"Pooled", "Weighted"}}
    \cup {Weightless(AtQuantiles({"output-json"} \cup Weighting, <<100, 500>>)),
          OnFile(Command("report", "mean", Main \cup Weighting)),
          OnFile(Command("report", "mean", (Main \ {"outcome"}) \cup {"formula"})),
          Linked, [Linked EXCEPT !.numeric = <<Years>>, !.given = @ \cup Both],
          Matched, [Matched EXCEPT !.method = "psm"],
          [Matched EXCEPT !.method = "psm", !.typed = "decimal"],
          [Matched EXCEPT !.method = "mahalanobis", !.given = Main]}
=============================================================================
