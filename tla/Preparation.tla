----------------------------- MODULE Preparation -----------------------------
(***************************************************************************)
(* How OaxacaBuilder (oaxaca_blinder/src/builder.rs) gets from a file to   *)
(* the two groups it estimates on: the check of the group column, the      *)
(* removal of incomplete rows with the list of those removed, the          *)
(* indicator columns of the categorical predictors, the split, the check   *)
(* that each level occurs in both groups, the matrices and, for a Heckman  *)
(* selection model, the rows whose outcome is observed (estimation.rs).    *)
(*                                                                         *)
(* Three paths share it: "run" and "quantile" (decompose_quantile) go on   *)
(* to an estimation (Decomposition), "matrices"                            *)
(* (get_data_matrices_with_rows) numbers the rows and hands the matrices   *)
(* to the engine, which stacks the groups in one design.                   *)
(*                                                                         *)
(* A frame is a function from columns to sequences of equal length, so     *)
(* what belongs to one row is only held together by its position. A column *)
(* is named by a tuple: <<"dept">>, or <<"dept", 2>> for the indicator of  *)
(* its level 2, which the code writes dept_2 and the model assumes to      *)
(* collide with no other column. Cells are integers, levels and group      *)
(* values being ordered as the code sorts their names; a weight is given   *)
(* in halves, an odd one being fractional and a negative one standing for  *)
(* every value no kind of weight allows.                                   *)
(***************************************************************************)
EXTENDS Integers, Sequences, FiniteSetsExt, SequencesExt, Positions

CONSTANTS
    Cases,   \* sets of files, each with what the builder is asked of them
    NoCell   \* a blank

Outcome == <<"outcome">>
Group == <<"group">>
Ordinal == <<"__ob_row_ordinal__">>
Intercept == <<"__ob_intercept__">>
Indicator == <<"__ob_group_indicator__">>
NoColumn == <<>>

\* Names of a file's own columns. A file has a column at least, all of one
\* length, and none that has the name of the row numbers (with_row_index
\* refuses a second one).
ColumnNames == {c \in Seq(STRING) : Len(c) = 1}
FileTyped(f) ==
    /\ DOMAIN f # {} /\ DOMAIN f \subseteq ColumnNames \ {Ordinal}
    /\ \A col \in DOMAIN f : f[col] \in Seq(Int \cup {NoCell})
    /\ \A col, other \in DOMAIN f : Len(f[col]) = Len(f[other])

ASSUME CasesTyped == \A c \in Cases :
    /\ \A f \in c.files : FileTyped(f)
    /\ \A a \in c.asks :
          /\ a.path \in {"run", "quantile", "matrices"}
          /\ a.kind \in {"unstated", "frequency", "relative"}
          /\ a.reference \in Int
          /\ a.numeric \in Seq(ColumnNames) /\ a.cats \in Seq(ColumnNames)
          /\ a.selectors \in Seq(ColumnNames)
          /\ a.normalize \subseteq ToSet(a.cats)
          /\ IsInjective(a.numeric) /\ IsInjective(a.selectors)
          /\ (a.selection = NoColumn) = (a.selectors = <<>>)

VARIABLES
    file, ask,  \* the builder: its dataframe and what it is configured with
    stage,      \* where it is
    refusal,    \* the error it returned, <<>> for none
    frame,      \* df
    excluded,   \* excluded_rows
    encoded,    \* how many categorical predictors have their indicators
    dummies,    \* all_dummy_names
    groups,     \* df_a ("target") and df_b ("reference")
    selected,   \* what the selection model reads of each group
    matrices,   \* what get_data_matrices_with_rows returns
    pooled      \* the engine's pooled design, and the slot of each ordinal

inputs == <<file, ask>>
prepared == <<frame, excluded, encoded, dummies>>
output == <<groups, selected, matrices, pooled>>
prepVars == <<inputs, stage, refusal, prepared, output>>

-----------------------------------------------------------------------------
(* Frames *)

Height(f) == IF DOMAIN f = {} THEN 0 ELSE Len(f[CHOOSE c \in DOMAIN f : TRUE])

\* The rows of f at these positions, in their order.
Take(f, positions) ==
    [c \in DOMAIN f |-> [k \in DOMAIN positions |-> f[c][positions[k]]]]

Total(s) == SumFunctionOnSet(s, DOMAIN s)

\* The columns of f, and those of g that f has not.
Beside(f, g) ==
    [c \in DOMAIN f \cup DOMAIN g |-> IF c \in DOMAIN f THEN f[c] ELSE g[c]]

\* s without the elements whose key an earlier one has.
FirstOfEach(s, keys) ==
    At(s, {i \in DOMAIN s : \A j \in 1..(i - 1) : keys[j] # keys[i]})

-----------------------------------------------------------------------------
(* Cleaning *)

Weighted(a) == a.weights # NoColumn
Selecting(a) == a.selection # NoColumn

Labelled(columns, reason) ==
    [i \in DOMAIN columns |-> [column |-> columns[i], reason |-> reason]]

\* The columns a blank excludes a row by, in the order they are checked.
CleaningColumns(a) ==
    Labelled(<<Outcome>>, "Outcome") \o Labelled(<<Group>>, "GroupValue")
        \o Labelled(a.numeric, "NumericPredictor")
        \o Labelled(a.cats, "CategoricalPredictor")
        \o (IF Weighted(a) THEN Labelled(<<a.weights>>, "Weights") ELSE <<>>)
        \o (IF Selecting(a) THEN Labelled(<<a.selection>>, "SelectionOutcome")
            ELSE <<>>)
        \o Labelled(a.selectors, "SelectionPredictor")

ColumnsOf(rules) == [k \in DOMAIN rules |-> rules[k].column]
ReasonsOf(rules) == [k \in DOMAIN rules |-> rules[k].reason]

\* The rows drop_nulls keeps.
Complete(f, a) ==
    Ascending({i \in 1..Height(f) : \A k \in DOMAIN CleaningColumns(a) :
                  f[CleaningColumns(a)[k].column][i] # NoCell})

\* The excluded rows, from the raw frame's blanks: each with the columns it
\* is blank in and the distinct reasons.
ExcludedRows(f, a) ==
    LET rules == FirstOfEach(CleaningColumns(a), ColumnsOf(CleaningColumns(a)))
        BlankIn(i) ==
            At(rules, {k \in DOMAIN rules : f[rules[k].column][i] = NoCell})
        blanks == Ascending({i \in 1..Height(f) : BlankIn(i) # <<>>})
        Entry(i) ==
            [index |-> i - 1,
             columns |-> ColumnsOf(BlankIn(i)),
             reasons |-> FirstOfEach(ReasonsOf(BlankIn(i)), ReasonsOf(BlankIn(i)))]
    IN  [k \in DOMAIN blanks |-> Entry(blanks[k])]

\* check_weight
Invalid(w, kind) == w < 0 \/ (kind = "frequency" /\ w % 2 = 1)

\* The first error of clean_dataframe on f, <<>> for none. A weight is named
\* by the ordinal of its row in the file.
CleaningError(f, a) ==
    LET columns == CleaningColumns(a)
        missing == At(columns, {k \in DOMAIN columns :
                                   columns[k].column \notin DOMAIN f})
        kept == Complete(f, a)
        weights == [k \in DOMAIN kept |-> f[a.weights][kept[k]]]
        bad == Ascending({k \in DOMAIN kept : Invalid(weights[k], a.kind)})
    IN  CASE missing # <<>> -> <<"column not found", missing[1].column>>
          [] missing = <<>> /\ ~Weighted(a) -> <<>>
          [] missing = <<>> /\ Weighted(a) ->
                CASE a.kind = "unstated" -> <<"weights kind required">>
                  [] a.kind # "unstated" /\ bad # <<>> ->
                        <<"invalid weight", kept[bad[1]] - 1>>
                  [] a.kind # "unstated" /\ bad = <<>> ->
                        IF kept # <<>> /\ Total(weights) = 0
                        THEN <<"weights sum to zero", kept[1] - 1>>
                        ELSE <<>>

-----------------------------------------------------------------------------
(* Indicators *)

\* The levels of column c of f, in their order.
LevelsIn(f, c) == Ascending({f[c][i] : i \in DOMAIN f[c]})

\* Mutant: the indicators are computed on the file before cleaning.
DummyColumns_Raw(f, c) ==
    LET levels == Ascending({file[c][i] : i \in DOMAIN file[c]} \ {NoCell})
    IN  [d \in {Append(c, levels[i]) : i \in 2..Len(levels)} |->
            [k \in 1..Height(f) |-> IF file[c][k] = d[2] THEN 1 ELSE 0]]

\* create_dummies_manual: one column per level of c but the first.
DummyColumns(f, c) ==
    LET levels == LevelsIn(f, c)
    IN  [d \in {Append(c, levels[i]) : i \in 2..Len(levels)} |->
            [k \in 1..Height(f) |-> IF f[c][k] = d[2] THEN 1 ELSE 0]]

\* Its names, in the order the columns are appended.
DummyNames(f, c) ==
    LET levels == LevelsIn(f, c)
    IN  [i \in 1..(Len(levels) - 1) |-> Append(c, levels[i + 1])]

-----------------------------------------------------------------------------
(* Confinement *)

\* Mutant: a level counts as present whatever its rows weigh.
LevelsPresent_Rows(f, c) == {f[c][i] : i \in DOMAIN f[c]}

\* weighted_levels_present
LevelsPresent(f, c) ==
    {f[c][i] : i \in {i \in DOMAIN f[c] :
                         Weighted(ask) => f[ask.weights][i] > 0}}

\* The first level, in the order of the scan, that a group lacks: its
\* column, the level and the group; <<>> when there is none.
Confined(gs) ==
    LET Levels(c) == UNION {{gs[g][c][i] : i \in DOMAIN gs[g][c]} :
                               g \in DOMAIN gs}
        Lacks(c, l) == \E g \in DOMAIN gs : l \notin LevelsPresent(gs[g], c)
        columns == At(ask.cats, {k \in DOMAIN ask.cats :
                          \E l \in Levels(ask.cats[k]) : Lacks(ask.cats[k], l)})
        level == Ascending({l \in Levels(columns[1]) : Lacks(columns[1], l)})[1]
    IN  IF columns = <<>> THEN <<>>
        ELSE <<"level confined", columns[1], level,
               IF level \notin LevelsPresent(gs["target"], columns[1])
               THEN "target" ELSE "reference">>

-----------------------------------------------------------------------------
(* The matrices *)

\* rescale_to_count: relative weights are multiplied by the number of rows.
\* Their sum, by which each is then divided, is left out: it is common to
\* all of them and no figure below is changed by it.
Rescaled(w) == [k \in DOMAIN w |-> Len(w) * w[k]]

\* prepare_data: the design, the outcome, the weights and the names of the
\* design's columns. No weights are weights of one.
PrepareData(f, names, extra) ==
    LET columns == <<Intercept>> \o ask.numeric \o extra \o names
        Cell(c, k) == CASE c = Intercept -> 1
                        [] c # Intercept /\ c \in DOMAIN f -> f[c][k]
                        [] c # Intercept /\ c \notin DOMAIN f -> 0
    IN  [x |-> [k \in 1..Height(f) |->
                  [j \in DOMAIN columns |-> Cell(columns[j], k)]],
         y |-> f[Outcome],
         w |-> CASE ~Weighted(ask) -> [k \in 1..Height(f) |-> 1]
                 [] Weighted(ask) /\ ask.kind = "relative" ->
                        Rescaled(f[ask.weights])
                 [] Weighted(ask) /\ ask.kind # "relative" -> f[ask.weights],
         names |-> columns]

-----------------------------------------------------------------------------
(* Actions *)

Inputs == \E c \in Cases : file \in c.files /\ ask \in c.asks

Start ==
    /\ stage = "check" /\ refusal = <<>>
    /\ frame = file /\ excluded = <<>> /\ encoded = 0 /\ dummies = <<>>
    /\ groups = <<>> /\ selected = <<>> /\ matrices = <<>> /\ pooled = <<>>

Refuse(error) ==
    /\ refusal' = error
    /\ stage' = "refused"
    /\ UNCHANGED <<inputs, prepared, output>>

GroupValues(f) == {f[Group][i] : i \in DOMAIN f[Group]} \ {NoCell}

\* check_selection_scheme: a selection model has no pooled regression to
\* price against. An estimation only.
UnpricedSelection(a) ==
    a.path # "matrices" /\ Selecting(a)
        /\ a.scheme \in {"Pooled", "PooledNoIndicator"}

\* check_group_values, on the file as it is: the reference occurs and at
\* most one other value does. A missing column is left to the cleaning. Then
\* the check of the scheme.
CheckGroups ==
    /\ stage = "check"
    /\ \/ /\ Group \in DOMAIN file
          /\ ask.reference \notin GroupValues(file)
          /\ Refuse(<<"reference group absent">>)
       \/ /\ Group \in DOMAIN file
          /\ ask.reference \in GroupValues(file)
          /\ Cardinality(GroupValues(file)) > 2
          /\ Refuse(<<"too many group values">>)
       \/ /\ Group \in DOMAIN file =>
                /\ ask.reference \in GroupValues(file)
                /\ Cardinality(GroupValues(file)) \leq 2
          /\ IF UnpricedSelection(ask)
             THEN Refuse(<<"unsupported combination">>)
             ELSE /\ stage' = "clean"
                  /\ UNCHANGED <<inputs, refusal, prepared, output>>

\* clean_dataframe and, for the matrices, prepare_clean_frame around it: the
\* rows are numbered first, and the exclusion list must account for the rest.
Clean ==
    LET kept == Complete(file, ask)
        numbered == IF ask.path = "matrices"
                    THEN Beside(file, [c \in {Ordinal} |->
                                          [k \in 1..Height(file) |-> k - 1]])
                    ELSE file
        list == IF ask.path = "matrices" THEN ExcludedRows(file, ask) ELSE <<>>
    IN  /\ stage = "clean"
        /\ IF CleaningError(file, ask) # <<>>
           THEN Refuse(CleaningError(file, ask))
           ELSE /\ frame' = Take(numbered, kept)
                /\ excluded' = list
                /\ IF /\ ask.path = "matrices"
                      /\ Len(kept) + Len(list) # Height(file)
                   THEN /\ stage' = "refused"
                        /\ refusal' = <<"row accounting mismatch">>
                   ELSE stage' = "encode" /\ UNCHANGED refusal
                /\ UNCHANGED <<inputs, encoded, dummies, output>>

\* The indicators of the next categorical predictor are appended to the
\* frame (hstack refuses a column it already has).
Encode ==
    LET c == ask.cats[encoded + 1] IN
    /\ stage = "encode"
    /\ encoded < Len(ask.cats)
    /\ \/ /\ Height(frame) = 0
          /\ Refuse(<<"no reference category", c>>)
       \/ /\ Height(frame) > 0
          /\ DOMAIN DummyColumns(frame, c) \cap DOMAIN frame # {}
          /\ Refuse(<<"duplicate column", c>>)
       \/ /\ Height(frame) > 0
          /\ DOMAIN DummyColumns(frame, c) \cap DOMAIN frame = {}
          /\ frame' = Beside(frame, DummyColumns(frame, c))
          /\ dummies' = dummies \o DummyNames(frame, c)
          /\ encoded' = encoded + 1
          /\ UNCHANGED <<inputs, stage, refusal, excluded, output>>

\* split_groups: the compared group is the first value that is not the
\* reference.
Split ==
    LET values == Ascending(GroupValues(frame))
        target == IF values[1] = ask.reference THEN values[2] ELSE values[1]
        OfGroup(v) == Take(frame, Ascending({i \in 1..Height(frame) :
                                                frame[Group][i] = v}))
    IN  /\ stage = "encode"
        /\ encoded = Len(ask.cats)
        /\ \/ /\ Len(values) < 2
              /\ Refuse(<<"not enough groups">>)
           \/ /\ Len(values) >= 2
              /\ groups' = [target |-> OfGroup(target),
                            reference |-> OfGroup(ask.reference)]
              /\ stage' = IF ask.path = "matrices" THEN "matrices" ELSE "confine"
              /\ UNCHANGED <<inputs, refusal, prepared, selected, matrices, pooled>>

Estimating == IF Selecting(ask) THEN "select" ELSE "estimate"

\* check_level_confinement; an estimation only.
Confine ==
    /\ stage = "confine"
    /\ \/ /\ Confined(groups) # <<>>
          /\ Refuse(Confined(groups))
       \/ /\ Confined(groups) = <<>>
          /\ stage' = IF ask.path = "quantile" THEN "transform" ELSE Estimating
          /\ UNCHANGED <<inputs, refusal, prepared, output>>

\* rif_core: the influence function of a group's outcome wants weights that
\* do not all vanish and two rows.
NoDensity(g) ==
    \/ Weighted(ask) /\ Total(groups[g][ask.weights]) = 0
    \/ Height(groups[g]) < 2

\* rif_replace_outcome, for a quantile: the target's outcome, then the
\* reference's. What is made of the outcome is left out.
ReplaceOutcome ==
    /\ stage = "transform"
    /\ \/ NoDensity("target") /\ Refuse(<<"no density", "target">>)
       \/ /\ ~NoDensity("target") /\ NoDensity("reference")
          /\ Refuse(<<"no density", "reference">>)
       \/ /\ ~NoDensity("target") /\ ~NoDensity("reference")
          /\ stage' = Estimating
          /\ UNCHANGED <<inputs, refusal, prepared, output>>

\* prepare_selection_data and filter_outcome_rows: of everybody in the group
\* the selectors and whether they are selected; of the selected, found twice
\* by that column, the design, the outcome and the selectors.
SelectionOf(g) ==
    LET f == groups[g]
        d == PrepareData(f, dummies, <<>>)
        chosen == Ascending({i \in 1..Height(f) : f[ask.selection][i] = 1})
        Selectors(h) ==
            [k \in 1..Height(h) |->
                <<1>> \o [j \in DOMAIN ask.selectors |-> h[ask.selectors[j]][k]]]
    IN  [everyone |-> Selectors(f), observed |-> f[ask.selection],
         names |-> d.names, selectors |-> Selectors(Take(f, chosen)),
         x |-> [k \in DOMAIN chosen |-> d.x[chosen[k]]],
         y |-> [k \in DOMAIN chosen |-> d.y[chosen[k]]]]

\* The data of the selection model; each group must have someone selected.
Select ==
    LET s == [g \in DOMAIN groups |-> SelectionOf(g)] IN
    /\ stage = "select"
    /\ \/ \E g \in DOMAIN s : s[g].y = <<>> /\ Refuse(<<"no observed outcomes">>)
       \/ /\ \A g \in DOMAIN s : s[g].y # <<>>
          /\ selected' = s
          /\ stage' = "estimate"
          /\ UNCHANGED <<inputs, refusal, prepared, groups, matrices, pooled>>

\* The matrices of the two groups with the ordinals of their rows.
GetMatrices ==
    LET Of(g) == [data |-> PrepareData(groups[g], dummies, <<>>),
                  rows |-> groups[g][Ordinal]]
    IN  /\ stage = "matrices"
        /\ matrices' = [target |-> Of("target"), reference |-> Of("reference")]
        /\ stage' = "pool"
        /\ UNCHANGED <<inputs, refusal, prepared, groups, selected, pooled>>

\* check_alignment: the groups whose matrix, outcome and ordinals differ in
\* length.
Misaligned(ms) ==
    {g \in DOMAIN ms : \/ Len(ms[g].data.x) # Len(ms[g].rows)
                       \/ Len(ms[g].data.y) # Len(ms[g].rows)}

PlaceOf(s, e) == CHOOSE k \in DOMAIN s : s[k] = e

\* calculate_efficient_frontier_inner: the groups must be aligned; then the
\* reference rows and the target rows are stacked in one design, with a
\* constant and an indicator of the target for the groups' own constant, and
\* each ordinal is given its slot.
Pool ==
    LET reference == matrices.reference
        target == matrices.target
        Design(m, mark) == [k \in DOMAIN m.data.x |->
                              <<1, mark>> \o Tail(m.data.x[k])]
        Slot(o) == IF Contains(target.rows, o)
                   THEN Len(reference.rows) + PlaceOf(target.rows, o)
                   ELSE PlaceOf(reference.rows, o)
    IN  /\ stage = "pool"
        /\ IF Misaligned(matrices) # {}
           THEN Refuse(<<"row alignment">>)
           ELSE /\ pooled' =
                     [x |-> Design(reference, 0) \o Design(target, 1),
                      y |-> reference.data.y \o target.data.y,
                      slot |-> [o \in ToSet(reference.rows) \cup ToSet(target.rows)
                                  |-> Slot(o)]]
                /\ stage' = "done"
                /\ UNCHANGED <<inputs, refusal, prepared, groups, selected, matrices>>

Prepare ==
    \/ CheckGroups \/ Clean \/ Encode \/ Split \/ Confine \/ ReplaceOutcome
    \/ Select \/ GetMatrices \/ Pool

-----------------------------------------------------------------------------
(* Properties *)

\* Whether row i of the file (from 1) is blank in a column of the model.
Incomplete(i) ==
    \E k \in DOMAIN CleaningColumns(ask) :
        file[CleaningColumns(ask)[k].column][i] = NoCell

\* A design row carries the cells of row i of the file: the constant, the
\* numeric predictors and, for each indicator, whether the row has its level.
Carries(x, names, i) == \A j \in DOMAIN names :
    x[j] = CASE names[j] = Intercept -> 1
             [] names[j] # Intercept /\ Len(names[j]) = 1 -> file[names[j]][i]
             [] Len(names[j]) = 2 ->
                    IF file[<<names[j][1]>>][i] = names[j][2] THEN 1 ELSE 0

\* The rows of the file that are analysed in group g.
RowsOf(g) ==
    {i \in 1..Height(file) :
        ~Incomplete(i) /\ (file[Group][i] = ask.reference) = (g = "reference")}

OwnRows(g) ==
    LET m == matrices[g] IN
    /\ m.rows = Ascending({i - 1 : i \in RowsOf(g)})
    /\ \A k \in DOMAIN m.rows :
          LET o == m.rows[k] IN
          /\ Carries(m.data.x[k], m.data.names, o + 1)
          /\ m.data.y[k] = file[Outcome][o + 1]
          /\ pooled.y[pooled.slot[o]] = file[Outcome][o + 1]
          /\ pooled.x[pooled.slot[o]] =
                <<1, IF g = "target" THEN 1 ELSE 0>> \o Tail(m.data.x[k])

\* Row k of a selection model's regression has the design, the outcome and
\* the selectors, hence the Mills ratio, of one and the same person.
SelectedRows(g) ==
    LET s == selected[g]
        own == Ascending({i \in RowsOf(g) : file[ask.selection][i] = 1})
    IN  /\ {Len(s.x), Len(s.y), Len(s.selectors)} = {Len(own)}
        /\ \A k \in DOMAIN own :
              /\ Carries(s.x[k], s.names, own[k])
              /\ s.y[k] = file[Outcome][own[k]]
              /\ Tail(s.selectors[k]) =
                    [j \in DOMAIN ask.selectors |-> file[ask.selectors[j]][own[k]]]

ExclusionsAreComplete ==
    /\ [k \in DOMAIN excluded |-> excluded[k].index] =
          Ascending({i - 1 : i \in {i \in 1..Height(file) : Incomplete(i)}})
    /\ \A k \in DOMAIN excluded :
          /\ ToSet(excluded[k].columns) =
                {e.column : e \in {e \in ToSet(CleaningColumns(ask)) :
                               file[e.column][excluded[k].index + 1] = NoCell}}
          /\ IsInjective(excluded[k].columns) /\ IsInjective(excluded[k].reasons)

\* Every row is analysed in its own group or reported as excluded, exactly
\* once, and whatever is later said of a row is said of that row: row k of a
\* group's matrix, its outcome and, in the pooled design, the slot its
\* ordinal resolves to all carry the cells of row rows[k] of the file; so
\* too for those a selection model selects. The code keeps six sequences in
\* step by position only (builder.rs:645-691, 779-807, analysis.rs:1436-1550,
\* estimation.rs:178-275).
RowsAreTheirs ==
    /\ refusal \notin {<<"row accounting mismatch">>, <<"row alignment">>}
    /\ stage = "done" /\ ask.path = "matrices" =>
          /\ \A g \in DOMAIN matrices : OwnRows(g)
          /\ ExclusionsAreComplete
    /\ stage = "estimate" /\ Selecting(ask) =>
          \A g \in DOMAIN selected : SelectedRows(g)

\* Heckman's first step is estimated on everybody, their pay observed or not:
\* "a probit of employment on the selection predictors, gives for each person
\* the inverse Mills ratio", and the regression is on "the people with
\* observed pay" (docs/src/method/heckman.md:7-9). No one is missing from it
\* for want of pay.
EveryoneIsInTheProbit ==
    selected # <<>> =>
        LET Known(i) == \A e \in ToSet(CleaningColumns(ask)) :
                            e.column # Outcome => file[e.column][i] # NoCell
        IN  Len(selected["target"].observed) + Len(selected["reference"].observed)
            = Cardinality({i \in 1..Height(file) : Known(i)})

\* The constant and the indicators of a categorical predictor, over the
\* rows of a group that carry weight, are linearly dependent: the group's
\* own regression has no solution.
Collapses(f, c) ==
    LET terms == {Intercept} \cup {n \in ToSet(dummies) : <<n[1]>> = c}
        Cell(t, k) == IF t = Intercept THEN 1 ELSE f[t][k]
    IN  \E v \in [terms -> -1..1] :
           /\ \E t \in terms : v[t] # 0
           /\ \A k \in 1..Height(f) : (Weighted(ask) => f[ask.weights][k] > 0) =>
                 SumFunctionOnSet([t \in terms |-> v[t] * Cell(t, k)], terms) = 0

\* A level is refused as confined to one group exactly when some categorical
\* predictor collapses a group's own design: the scan reads the levels of
\* the cleaned groups (builder.rs:257-348), the designs are built from
\* indicators made before the split, and zero weights remove rows from the
\* regression but not from the frame. The design is that of the whole group,
\* as in the scan: under a selection model the rows selected are fewer, and
\* their regression is left to its own refusal (OlsError in Decomposition).
ConfinementIsDue ==
    LET collapsed == \E g \in DOMAIN groups, i \in DOMAIN ask.cats :
                        Collapses(groups[g], ask.cats[i])
    IN  /\ stage = "estimate" => ~collapsed
        /\ refusal # <<>> /\ refusal[1] = "level confined" =>
              Collapses(groups[refusal[4]], refusal[2])
=============================================================================
