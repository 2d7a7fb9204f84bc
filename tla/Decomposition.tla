---------------------------- MODULE Decomposition ----------------------------
(***************************************************************************)
(* The pass of oaxaca_blinder/src/builder.rs (run_single_pass) over the    *)
(* frame Preparation makes: the regressions of the two groups, the         *)
(* Heckman correction if there is one (heckman.rs), the re-expression of   *)
(* the categorical coefficients around a share-weighted average            *)
(* (math/normalization.rs), the coefficients that price the gap, and the   *)
(* two-fold, three-fold and detailed decompositions with the rows of the   *)
(* levels that have no indicator.                                          *)
(*                                                                         *)
(* All figures are exact: a coefficient out of a regression is an integer  *)
(* of the instance, whatever the outcome, and everything computed from it  *)
(* is carried over a denominator named where it is introduced. The figures *)
(* are linear in the coefficients of the three regressions taken together. *)
(* The gap is the one the fits imply, which for a least-squares fit with a *)
(* constant is the difference of the mean outcomes (under a selection      *)
(* model, of the selected; the code reports that of everybody). The        *)
(* inverse Mills ratios are any numbers that people alike in the selectors *)
(* share, since the probit they come from is regularised and hands over    *)
(* whatever it has reached; the linearised contributions of the selectors, *)
(* which nothing else is made of, are left out.                            *)
(***************************************************************************)
EXTENDS Preparation

CONSTANTS
    Ratios,     \* inverse Mills ratios
    Fits(_, _)  \* the coefficients the regressions may return: of the two
                \* groups, on as many columns, and of the pooled one

VARIABLES
    mills,   \* the inverse Mills ratio of each row of selectors, by group
    fit,     \* the coefficients of the regressions, as they come out
    shares,  \* variable -> its base level, and the share of each level
    betas,   \* the normalised coefficients of A and B and their base levels'
    star,    \* the coefficients that price the gap
    result   \* the decompositions

passVars == <<mills, fit, shares, betas, star, result>>
vars == <<prepVars, passVars>>

\* Group A is the target's, B the reference's.
DataOf(g) == PrepareData(groups[g], dummies, <<>>)

IMR == <<"IMR">>

\* What group g is regressed on: its rows or, under a selection model, the
\* selected ones, unweighted, each with its ratio.
Regressed(g, ratios) ==
    LET s == selected[g]
        Ratio(k) == ratios[g][s.selectors[k]]
    IN  IF Selecting(ask)
        THEN [x |-> [k \in DOMAIN s.x |-> Append(s.x[k], Ratio(k))], y |-> s.y,
              w |-> [k \in DOMAIN s.x |-> 1], names |-> Append(s.names, IMR)]
        ELSE DataOf(g)

A == Regressed("target", mills)
B == Regressed("reference", mills)

IsPooled == ask.scheme \in {"Pooled", "PooledNoIndicator"}

\* vstack of the two groups, with the indicator of the target or without.
PooledData ==
    LET a == groups["target"]
        b == groups["reference"]
        stacked == [c \in DOMAIN a |-> a[c] \o b[c]]
        marked == (Indicator :> [k \in 1..Height(stacked) |->
                                   IF k \leq Height(a) THEN 1 ELSE 0]) @@ stacked
    IN  IF ask.scheme = "Pooled"
        THEN PrepareData(marked, dummies, <<Indicator>>)
        ELSE PrepareData(stacked, dummies, <<>>)

Position(names, n) == SelectInSeq(names, LAMBDA m : m = n)

-----------------------------------------------------------------------------
(* Regression *)

Sum(S, Term(_)) == SumFunctionOnSet([x \in S |-> Term(x)], S)

\* The determinant of the k x k matrix m, by expansion along its rows.
Determinant(m, k) ==
    LET det[S \in SUBSET (1..k)] ==
            IF S = {} THEN 1
            ELSE Sum(S, LAMBDA j :
                    m[Cardinality(S)][j] * det[S \ {j}] *
                    (IF Cardinality({i \in S : i > j}) % 2 = 0 THEN 1 ELSE -1))
    IN  det[1..k]

\* The error of ols on this data, <<>> for none: it wants more rows than
\* columns, whatever they weigh, then an invertible X'WX. How much a row
\* weighs does not matter to that, only whether it weighs anything.
OlsError(d) ==
    LET n == Len(d.x)
        k == Len(d.names)
        weighing == {r \in 1..n : d.w[r] > 0}
        gram == [i \in 1..k |-> [j \in 1..k |->
                   Sum(weighing, LAMBDA r : d.x[r][i] * d.x[r][j])]]
    IN  IF n \leq k THEN <<"insufficient data">>
        ELSE IF Determinant(gram, k) = 0 THEN <<"singular">>
        ELSE <<>>

-----------------------------------------------------------------------------
(* Normalisation *)

RawWeight(f, i) == IF Weighted(ask) THEN f[ask.weights][i] ELSE 1
Mass(f) == Sum(1..Height(f), LAMBDA i : RawWeight(f, i))
LevelsOf(c) == {frame[c][i] : i \in 1..Height(frame)}

\* The numbers in s multiplied.
Product(s) ==
    LET product[n \in 0..Len(s)] == IF n = 0 THEN 1 ELSE s[n] * product[n - 1]
    IN  product[Len(s)]

\* The denominator of every share: the mass of the frame, or the product of
\* the numbers of levels.
Den == IF ask.convention = "population" THEN Mass(frame)
       ELSE Product([n \in DOMAIN ask.cats |-> Cardinality(LevelsOf(ask.cats[n]))])

\* factor_shares, over Den: the levels of all analysed rows, each with its
\* part of their weight or an equal one; the base is the level without an
\* indicator.
FactorShares(c) ==
    LET Held(l) == Sum({i \in 1..Height(frame) : frame[c][i] = l},
                       LAMBDA i : RawWeight(frame, i))
        equal == Den \div Cardinality(LevelsOf(c))
    IN  [base |-> CHOOSE l \in LevelsOf(c) : ~Contains(dummies, Append(c, l)),
         share |-> [l \in LevelsOf(c) |->
                      IF ask.convention = "population" THEN Held(l) ELSE equal]]

\* The variables to be normalised: under a selection model, none.
Restricted == IF Selecting(ask) THEN {} ELSE ask.normalize

\* compute_shares
Shares == [c \in Restricted |-> FactorShares(c)]

\* The share-weighted average of a variable's coefficients, the base's being
\* zero, over Den.
Average(b, names, sh, c) ==
    Sum(DOMAIN sh[c].share \ {sh[c].base},
        LAMBDA l : sh[c].share[l] * b[Position(names, Append(c, l))])

\* The variable of an indicator column, NoColumn for any other column.
VariableOf(n) == IF Len(n) = 2 THEN <<n[1]>> ELSE NoColumn

\* normalize_categorical_coefficients, over Den: the constant takes up the
\* averages, each indicator gives up its variable's.
Normalized(b, names, sh) == [i \in DOMAIN names |->
    Den * b[i] +
        CASE names[i] = Intercept ->
                Sum(DOMAIN sh, LAMBDA c : Average(b, names, sh, c))
          [] VariableOf(names[i]) \in DOMAIN sh ->
                - Average(b, names, sh, VariableOf(names[i]))
          [] names[i] # Intercept /\ VariableOf(names[i]) \notin DOMAIN sh -> 0]

\* What it returns: the coefficient each base level now has, over Den.
BaseOf(b, names, sh) == [c \in DOMAIN sh |-> - Average(b, names, sh, c)]

-----------------------------------------------------------------------------
(* Pricing *)

MassA == Mass(groups["target"])
MassB == Mass(groups["reference"])
N == MassA + MassB

\* Mutant: the mix uses the weights the regressions were given.
Mix_Rescaled ==
    IF ask.kind = "relative"
    THEN [a |-> Height(groups["target"]), b |-> Height(groups["reference"])]
    ELSE [a |-> MassA, b |-> MassB]

\* The parts of the two groups in the Weighted mix: their raw weights, not
\* the ones rescaled for each regression.
Mix == [a |-> MassA, b |-> MassB]

\* Mutant: the indicator is taken to be the last column.
IndicatorAt_Last(names) == Len(names)

\* Where the pooled fit has the coefficient of the group indicator.
IndicatorAt(names) == Position(names, Indicator)

\* beta_star over Den * N and its base coefficients. The pooled indicator's
\* row is removed by its position once the rest is normalised.
Star ==
    LET names == A.names
        p == PooledData
        np == Normalized(fit.pooled, p.names, shares)
        Times(v, m) == [i \in DOMAIN v |-> m * v[i]]
        Mixed(v, w) == [i \in DOMAIN v |-> Mix.a * v[i] + Mix.b * w[i]]
    IN  CASE ask.scheme = "GroupA" ->
                [beta |-> Times(betas.a, N), base |-> Times(betas.baseA, N)]
          [] ask.scheme = "GroupB" ->
                [beta |-> Times(betas.b, N), base |-> Times(betas.baseB, N)]
          [] ask.scheme = "Pooled" ->
                [beta |-> Times(RemoveAt(np, IndicatorAt(p.names)), N),
                 base |-> Times(BaseOf(fit.pooled, p.names, shares), N)]
          [] ask.scheme = "PooledNoIndicator" ->
                [beta |-> Times(np, N),
                 base |-> Times(BaseOf(fit.pooled, p.names, shares), N)]
          [] ask.scheme = "Weighted" ->
                [beta |-> Mixed(betas.a, betas.b),
                 base |-> Mixed(betas.baseA, betas.baseB)]

-----------------------------------------------------------------------------
(* Decomposition *)

Dot(v, w) == Sum(DOMAIN v, LAMBDA i : v[i] * w[i])

\* The weighted mean of each column of A over WA * WB, and of B likewise.
WA == Total(A.w)
WB == Total(B.w)
Sums(d) == [i \in DOMAIN d.names |->
              Sum(DOMAIN d.x, LAMBDA k : d.w[k] * d.x[k][i])]
MeanA == LET s == Sums(A) IN [i \in DOMAIN s |-> WB * s[i]]
MeanB == LET s == Sums(B) IN [i \in DOMAIN s |-> WA * s[i]]

\* A characteristic with these means, priced at s and paid a and b in the
\* groups: its parts of the gap.
Part(ma, mb, a, b, s) ==
    [explained |-> (ma - mb) * s, unexplained |-> ma * (a - s) + mb * (s - b)]

\* The base level of a normalised variable: what its indicators leave of
\* the means ma and mb, at its own coefficients.
BasePart(c, ma, mb) ==
    LET Rest(means) == WA * WB -
            Sum(DOMAIN shares[c].share \ {shares[c].base},
                LAMBDA l : means[Position(A.names, Append(c, l))])
    IN  Part(Rest(ma), Rest(mb),
             N * betas.baseA[c], N * betas.baseB[c], star.base[c])

BaseName(c) == Append(c, shares[c].base)

\* two_fold_decomposition
TwoFold(ma, mb, a, b, s) ==
    LET explained == Dot(ma, s) - Dot(mb, s)
    IN  [explained |-> explained,
         unexplained |-> Dot(ma, a) - Dot(mb, b) - explained]

\* three_fold_decomposition
ThreeFold(ma, mb, a, b) ==
    [endowments |-> Dot(ma, b) - Dot(mb, b),
     coefficients |-> Dot(mb, a) - Dot(mb, b),
     interaction |-> Dot(ma, a) - Dot(mb, a) - Dot(ma, b) + Dot(mb, b)]

\* The figures of the pass, over Den * N * WA * WB: the rows of the columns
\* and of the base levels, the two-fold sums to which the base rows are
\* added, and the three-fold ones from the coefficients as they came out.
Decomposed ==
    LET names == A.names
        ma == MeanA
        mb == MeanB
        Times(m, v) == [i \in DOMAIN v |-> m * v[i]]
        a == Times(N, betas.a)
        b == Times(N, betas.b)
        two == TwoFold(ma, mb, a, b, star.beta)
        base == [c \in DOMAIN shares |-> BasePart(c, ma, mb)]
    IN  [rows |->
            [n \in {BaseName(c) : c \in DOMAIN shares} |-> base[VariableOf(n)]]
            @@ [n \in ToSet(names) |->
                  LET i == Position(names, n) IN
                  Part(ma[i], mb[i], a[i], b[i], star.beta[i])],
         explained |-> two.explained
                       + Sum(DOMAIN base, LAMBDA c : base[c].explained),
         unexplained |-> two.unexplained
                         + Sum(DOMAIN base, LAMBDA c : base[c].unexplained),
         threeFold |-> ThreeFold(ma, mb, Times(Den * N, fit.a),
                                 Times(Den * N, fit.b))]

-----------------------------------------------------------------------------
(* Actions *)

PassStart ==
    /\ Start
    /\ mills = <<>> /\ fit = <<>> /\ shares = <<>> /\ betas = <<>> /\ star = <<>>
    /\ result = <<>>

\* What the two probits may come to.
MillsRatios ==
    LET Of(g) == [ToSet(selected[g].selectors) -> Ratios]
    IN  IF Selecting(ask)
        THEN {[target |-> a, reference |-> b] :
                 a \in Of("target"), b \in Of("reference")}
        ELSE {<<>>}

\* The regressions of A and B, normalised under one set of shares.
Estimate == stage = "estimate" /\ \E ratios \in MillsRatios :
    LET a == Regressed("target", ratios)
        b == Regressed("reference", ratios)
        error == IF OlsError(a) # <<>> THEN OlsError(a) ELSE OlsError(b)
        k == Len(a.names)
        kp == CASE ask.scheme = "Pooled" -> k + 1
                [] ask.scheme = "PooledNoIndicator" -> k
                [] ~IsPooled -> 0
    IN  \/ /\ error # <<>>
           /\ Refuse(error)
           /\ UNCHANGED passVars
        \/ /\ error = <<>>
           /\ mills' = ratios
           /\ fit' \in Fits(k, kp)
           /\ shares' = Shares
           /\ betas' = [a |-> Normalized(fit'.a, a.names, shares'),
                        b |-> Normalized(fit'.b, b.names, shares'),
                        baseA |-> BaseOf(fit'.a, a.names, shares'),
                        baseB |-> BaseOf(fit'.b, b.names, shares')]
           /\ stage' = "price"
           /\ UNCHANGED <<inputs, refusal, prepared, output, star, result>>

\* beta_star, from a regression on both groups for the pooled schemes.
Price ==
    /\ stage = "price"
    /\ IF IsPooled /\ OlsError(PooledData) # <<>>
       THEN Refuse(OlsError(PooledData)) /\ UNCHANGED passVars
       ELSE /\ star' = Star
            /\ stage' = "decompose"
            /\ UNCHANGED <<inputs, refusal, prepared, output,
                           mills, fit, shares, betas, result>>

Decompose ==
    /\ stage = "decompose"
    /\ result' = Decomposed
    /\ stage' = "done"
    /\ UNCHANGED <<inputs, refusal, prepared, output,
                   mills, fit, shares, betas, star>>

PassNext ==
    \/ Prepare /\ UNCHANGED passVars
    \/ Estimate \/ Price \/ Decompose

-----------------------------------------------------------------------------
(* Properties *)

TypeOK ==
    /\ stage \in {"check", "clean", "encode", "confine", "transform", "select",
                  "matrices", "pool", "estimate", "price", "decompose", "done", "refused"}
    /\ (refusal # <<>>) = (stage = "refused")
    /\ \A c \in DOMAIN frame : frame[c] \in Seq(Int \cup {NoCell})
    /\ encoded \in 0..Len(ask.cats)
    /\ ToSet(dummies) \subseteq DOMAIN frame
    /\ DOMAIN groups \subseteq {"target", "reference"}
    /\ DOMAIN shares \subseteq ask.normalize

\* The effect of a level in a fit: its coefficient, zero for the level that
\* has no column, less the share-weighted average over all levels; over Den.
\* Adding a number to all of them, which is what another base level does,
\* changes nothing.
Effect(b, names, c, l) ==
    LET Coefficient(m) == IF Contains(names, Append(c, m))
                          THEN b[Position(names, Append(c, m))] ELSE 0
    IN  Den * Coefficient(l)
        - Sum(LevelsOf(c), LAMBDA m : shares[c].share[m] * Coefficient(m))

\* The weight of a level's rows in a group, read off the categorical column.
LevelWeight(g, c, l) ==
    Sum({k \in 1..Height(groups[g]) : groups[g][c][k] = l},
        LAMBDA k : DataOf(g).w[k])

StarEffect(c, l) ==
    CASE ask.scheme = "GroupA" -> N * Effect(fit.a, A.names, c, l)
      [] ask.scheme = "GroupB" -> N * Effect(fit.b, B.names, c, l)
      [] IsPooled -> N * Effect(fit.pooled, PooledData.names, c, l)
      [] ask.scheme = "Weighted" -> MassA * Effect(fit.a, A.names, c, l)
                                    + MassB * Effect(fit.b, B.names, c, l)

\* Every level of a normalised variable, the one without an indicator
\* included, has the row its effect deserves whichever level sorts first,
\* and the rows add up to the aggregates, which are a split of the same gap
\* as the three-fold figures of the untouched coefficients. The rows of the
\* base levels are put together after the fact from sums over the others
\* (builder.rs:1283-1331), and a selection model switches all of it off.
DetailIsBaseFree == stage = "done" /\ ask.path # "matrices" =>
    /\ \A c \in Restricted : \A l \in LevelsOf(c) :
          result.rows[Append(c, l)] =
             Part(WB * LevelWeight("target", c, l),
                  WA * LevelWeight("reference", c, l),
                  N * Effect(fit.a, A.names, c, l),
                  N * Effect(fit.b, B.names, c, l),
                  StarEffect(c, l))
    /\ result.explained =
          Sum(DOMAIN result.rows, LAMBDA n : result.rows[n].explained)
    /\ result.unexplained =
          Sum(DOMAIN result.rows, LAMBDA n : result.rows[n].unexplained)
    /\ result.explained + result.unexplained =
          result.threeFold.endowments + result.threeFold.coefficients
          + result.threeFold.interaction

\* The population whose shares restrict the coefficients is the one that
\* mixes them: the mix of the two groups' mean of a level is its share. Under
\* relative weights the regressions see rescaled weights and the shares raw
\* ones, so the two could differ (builder.rs:1228-1262).
OnePopulation ==
    stage = "done" /\ ask.scheme = "Weighted" /\ ask.convention = "population" =>
        \A c \in DOMAIN shares : \A l \in LevelsOf(c) :
            (Mix.a + Mix.b) * WA * WB * shares[c].share[l] =
                Den * (Mix.a * WB * LevelWeight("target", c, l)
                       + Mix.b * WA * LevelWeight("reference", c, l))
=============================================================================
