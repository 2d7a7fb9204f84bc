--------------------------- MODULE MCDecomposition ---------------------------
(* Instances of Decomposition for TLC.                                      *)
(*                                                                          *)
(* Cleaning: every file of up to four rows drawn from six kinds of row,     *)
(* blanks in different columns among them, on both paths and under each     *)
(* kind of weights. Estimation: files of five or six rows to a group, with  *)
(* two categorical predictors, on which the regressions have solutions.     *)
EXTENDS Decomposition

CONSTANT Blank

Dept == <<"dept">>
Grade == <<"grade">>
Years == <<"years">>
Fte == <<"fte">>
Works == <<"works">>
Age == <<"age">>

Asked(path, numeric, cats, weights, kind, scheme, normalize, convention) ==
    [path |-> path, numeric |-> numeric, cats |-> cats, weights |-> weights,
     kind |-> kind, selection |-> NoColumn, selectors |-> <<>>,
     reference |-> 2, scheme |-> scheme,
     normalize |-> normalize, convention |-> convention]

\* A file from its rows, each a tuple of these columns' cells.
Columns == <<Outcome, Group, Years, Dept, Fte>>
FileOf(rows) ==
    [c \in ToSet(Columns) |->
        [k \in DOMAIN rows |-> rows[k][SelectInSeq(Columns, LAMBDA d : d = c)]]]

RowKinds ==
    { <<10, 1, 3, 1, 2>>, <<11, 2, 4, 1, 4>>, <<12, 2, 5, 2, 0>>,
      <<13, 1, 6, 2, 1>>, <<14, 2, Blank, Blank, 2>>, <<15, Blank, 7, 1, 2>> }
OddKinds == { <<16, 3, 8, 1, 2>>, <<17, 1, 9, 3, -1>> }

Small == UNION {[1..n -> RowKinds] : n \in 1..4}
         \cup UNION {[1..n -> RowKinds \cup OddKinds] : n \in 1..3}

Cleaning ==
    [files |-> {FileOf(rows) : rows \in Small},
     asks |-> { Asked(path, <<Years>>, <<Dept>>, w[1], w[2], "GroupB", {}, "population") :
                path \in {"run", "matrices"},
                w \in { <<NoColumn, "unstated">>, <<Fte, "frequency">>,
                        <<Fte, "relative">> } }]

\* What is asked wrongly or oddly: no kind, no such column, a predictor
\* twice, a quantile of groups of a row or two or without weight, the weights
\* as a predictor.
Misasked ==
    [files |-> {FileOf(rows) : rows \in [1..3 -> RowKinds]},
     asks |->
        { Asked("matrices", <<Years>>, <<Dept>>, Fte, "unstated", "GroupB", {}, "population"),
          Asked("run", <<Years>>, <<Grade>>, NoColumn, "unstated", "GroupB", {}, "population"),
          Asked("matrices", <<>>, <<Dept, Dept>>, NoColumn, "unstated", "GroupB", {}, "population"),
          Asked("quantile", <<Years>>, <<>>, Fte, "relative", "GroupB", {}, "population"),
          Asked("matrices", <<Years, Fte>>, <<Dept>>, Fte, "relative", "GroupB", {}, "population") }]

-----------------------------------------------------------------------------
\* The departments, grades and weights of a group's rows.
Depts == { <<1, 1, 2, 3, 3>>, <<1, 2, 2, 3, 1>>, <<2, 2, 3, 3, 2>> }
Grades == { <<1, 2, 1, 2, 1>>, <<1, 1, 2, 2, 2>> }
Ftes == { <<2, 2, 2, 2, 2>>, <<2, 4, 6, 0, 2>> }

GroupFile(d, g, w) == [dept |-> d, grade |-> g, fte |-> w]
Sides == { GroupFile(d, g, w) : d \in Depts, g \in Grades, w \in Ftes }

TwoGroups(a, b) ==
    [c \in {Outcome, Group, Years, Dept, Grade, Fte} |->
        CASE c = Outcome -> [k \in 1..10 |-> k]
          [] c = Group -> [k \in 1..10 |-> IF k <= 5 THEN 1 ELSE 2]
          [] c = Years -> <<3, 1, 4, 1, 5, 2, 6, 5, 3, 5>>
          [] c = Dept -> a.dept \o b.dept
          [] c = Grade -> a.grade \o b.grade
          [] c = Fte -> a.fte \o b.fte]

Estimation ==
    [files |-> {TwoGroups(a, b) :
                  a \in Sides, b \in {b \in Sides : b.grade = <<1, 2, 1, 2, 1>>}},
     asks |-> { Asked("run", p[1], p[2], w[1], w[2], s, v[1] \cap ToSet(p[2]), v[2]) :
                p \in { <<<<>>, <<Dept, Grade>>>>, <<<<Years>>, <<Dept>>>> },
                w \in { <<NoColumn, "unstated">>, <<Fte, "relative">> },
                s \in { "GroupA", "GroupB", "Pooled", "PooledNoIndicator", "Weighted" },
                v \in { <<{}, "population">>, <<{Dept, Grade}, "population">>,
                        <<{Dept}, "equal">> } }]

\* Who works, and of those who do not, whether the file has an outcome.
Working(w, blank) == [works |-> w, blank |-> blank]
Workings ==
    { Working(<<1, 1, 1, 1, 1>>, FALSE), Working(<<0, 0, 0, 0, 0>>, FALSE) }
    \cup {Working(w, blank) : w \in { <<1, 0, 1, 1, 1>>, <<1, 1, 1, 0, 0>> },
                              blank \in BOOLEAN}

WorkFile(a, b) ==
    LET works == a.works \o b.works
        missing == {k \in 1..10 : works[k] = 0 /\ (IF k <= 5 THEN a ELSE b).blank}
        both == TwoGroups(GroupFile(<<1, 2, 2, 1, 1>>, <<1, 2, 1, 2, 1>>, <<2, 4, 6, 0, 2>>),
                          GroupFile(<<1, 1, 2, 2, 2>>, <<1, 2, 1, 2, 1>>, <<2, 2, 2, 2, 2>>))
    IN  (Works :> works) @@ (Age :> <<1, 2, 1, 2, 2, 1, 1, 2, 1, 2>>)
        @@ (Outcome :> [k \in 1..10 |-> IF k \in missing THEN Blank ELSE k]) @@ both

AskedOf(a) == [a EXCEPT !.selection = Works, !.selectors = <<Age>>]
Selection ==
    [files |-> {WorkFile(a, b) : a \in Workings, b \in Workings},
     asks |->
        { AskedOf(Asked("run", <<Years>>, <<>>, NoColumn, "unstated", s, {}, "population")) :
             s \in {"GroupA", "Pooled"} }
        \cup { AskedOf(Asked("run", <<>>, <<Dept>>, Fte, "relative", s, {Dept}, "population")) :
                  s \in {"GroupB", "Weighted"} }
        \cup { AskedOf(Asked("quantile", <<>>, <<>>, NoColumn, "unstated", "GroupB", {}, "population")),
               AskedOf(Asked("matrices", <<Age>>, <<>>, NoColumn, "unstated", "GroupB", {}, "population")) }]

MCCases == {Cleaning, Misasked, Estimation, Selection}
SelectionOnly == {Selection}
MCRatios == {0, 1}

\* A basis of the coefficients of the three regressions together.
Unit(k, j) == [i \in 1..k |-> IF i = j THEN 1 ELSE 0]
MCFits(k, kp) ==
    { [a |-> Unit(k, j), b |-> Unit(k, j - k), pooled |-> Unit(kp, j - 2 * k)] :
      j \in 1..(2 * k + kp) }
=============================================================================
