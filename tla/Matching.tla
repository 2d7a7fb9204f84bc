------------------------------ MODULE Matching ------------------------------
(***************************************************************************)
(* The matching weights of oaxaca_blinder/src/matching: each treated row   *)
(* is matched with its k nearest control rows, by the Euclidean or the     *)
(* Mahalanobis distance of the covariates or by propensity score, and a    *)
(* control row weighs the share it has in the matches.                     *)
(*                                                                         *)
(* A blank cell is {}, another the singleton of its value. There are two   *)
(* covariates, a row's being one point. Squared distances are exact, the   *)
(* Mahalanobis one up to a common factor. A propensity score is a level    *)
(* that rows alike share and that is otherwise free, whatever the fit.     *)
(***************************************************************************)
EXTENDS Integers, Sequences, FiniteSetsExt, Functions, Positions

CONSTANTS
    MatchCalls,  \* rows, number of neighbours, method, type of the treatment
    Scores       \* the levels a propensity score may have

ASSUME MatchCallsTyped == \A c \in MatchCalls :
    /\ c.k \in Nat /\ c.method \in {"euclidean", "mahalanobis", "psm"}
    /\ c.typed \in {"whole", "decimal"}
    /\ c.sample \in Seq([treat : SUBSET Int, x : SUBSET (Int \X Int),
                         y : SUBSET Int])
ASSUME ScoresTyped == Scores \subseteq Int

VARIABLES
    query,     \* the call
    leg,       \* where it is
    mishap,    \* the error it returned, "" for none
    scores,    \* the scores of the rows, blank when the fit had a blank
    matched,   \* treated rows matched so far
    tally,     \* control_counts, over k
    weights    \* final_weights, over FullWeight

matchVars == <<query, leg, mishap, scores, matched, tally, weights>>

-----------------------------------------------------------------------------
(* The two groups *)

Sample == query.sample
RowsTreated(v) == Ascending({i \in DOMAIN Sample : Sample[i].treat = {v}})
Treated == RowsTreated(1)
Controls == RowsTreated(0)

\* What a row is matched on.
Features(i) == IF query.method = "psm" THEN scores[i] ELSE Sample[i].x

-----------------------------------------------------------------------------
(* Distances *)

\* What a cell holds.
Some(cell) == CHOOSE v \in cell : TRUE

\* The number of controls times the sum of products of two covariates, less
\* the product of their sums: the covariance up to a common factor.
Covariance(a, b) ==
    LET Points == [k \in DOMAIN Controls |-> Some(Sample[Controls[k]].x)]
        SumOf(terms) == SumFunctionOnSet(terms, DOMAIN Points)
        Of(c) == [k \in DOMAIN Points |-> Points[k][c]]
    IN  Len(Points) * SumOf([k \in DOMAIN Points |-> Of(a)[k] * Of(b)[k]])
        - SumOf(Of(a)) * SumOf(Of(b))

Singular == Covariance(1, 1) * Covariance(2, 2) = Covariance(1, 2) * Covariance(1, 2)

\* Squared: by the adjugate of the covariance, or Euclidean.
Distance(p, q) ==
    LET d == p[1] - q[1]
        e == p[2] - q[2]
    IN  IF query.method = "mahalanobis"
        THEN Covariance(2, 2) * d * d - 2 * Covariance(1, 2) * d * e
             + Covariance(1, 1) * e * e
        ELSE d * d + e * e

\* How far control row c is from treated row t.
Gap(t, c) == Some({Distance(p, q) : p \in Features(t), q \in Features(c)})

\* The nearest of the K-D tree's rows, by their place among the controls; of
\* rows equally far it may return any.
Nearest(t) ==
    {S \in kSubset(Min({query.k, Len(Controls)}), DOMAIN Controls) :
        \A in \in S, out \in DOMAIN Controls \ S :
            Gap(t, Controls[in]) <= Gap(t, Controls[out])}

-----------------------------------------------------------------------------
(* The call *)

MatchInit ==
    /\ leg = IF query.method = "psm" THEN "prepare" ELSE "measure"
    /\ mishap = "" /\ scores = <<>>
    /\ matched = 0 /\ tally = <<>> /\ weights = <<>>

RefuseMatch(error) ==
    /\ mishap' = error /\ leg' = "refused"
    /\ UNCHANGED <<query, scores, matched, tally, weights>>

\* prepare_data, whose matrices are dropped but not its errors, and the
\* treatment as numbers: only a column of decimals has them.
PrepareScores ==
    LET blank == \E i \in DOMAIN Sample :
                    Sample[i].treat \in {{0}, {1}} /\ Sample[i].y = {}
        error == CASE Treated = <<>> \/ Controls = <<>> -> "empty group"
                   [] Treated # <<>> /\ Controls # <<>> /\ blank -> "null outcome"
                   [] Treated # <<>> /\ Controls # <<>> /\ ~blank ->
                        IF query.typed = "whole" THEN "treatment type" ELSE ""
    IN  /\ leg = "prepare"
        /\ \/ error # "" /\ RefuseMatch(error)
           \/ /\ error = ""
              /\ leg' = "score"
              /\ UNCHANGED <<query, mishap, scores, matched, tally, weights>>

\* The logistic fit on all rows and what it predicts: a blank covariate
\* anywhere leaves no score.
Score ==
    LET points == UNION {Sample[i].x : i \in DOMAIN Sample} IN
    /\ leg = "score"
    /\ IF \E i \in DOMAIN Sample : Sample[i].x = {}
       THEN scores' = [i \in DOMAIN Sample |-> {}]
       ELSE \E level \in [points -> Scores] :
               scores' = [i \in DOMAIN Sample |->
                             {<<level[p], 0>> : p \in Sample[i].x}]
    /\ leg' = "measure"
    /\ UNCHANGED <<query, mishap, matched, tally, weights>>

\* The metric, and the tree of the control rows.
Measure ==
    LET blank == \E k \in DOMAIN Controls : Features(Controls[k]) = {}
        mahalanobis == query.method = "mahalanobis"
        error == CASE mahalanobis /\ Len(Controls) < 2 -> "too few controls"
                   [] mahalanobis /\ Len(Controls) >= 2 ->
                        IF blank \/ Singular THEN "singular covariance" ELSE ""
                   [] ~mahalanobis -> IF blank THEN "tree" ELSE ""
    IN  /\ leg = "measure"
        /\ \/ error # "" /\ RefuseMatch(error)
           \/ /\ error = ""
              /\ tally' = [k \in DOMAIN Controls |-> 0]
              /\ leg' = "match"
              /\ UNCHANGED <<query, mishap, scores, matched, weights>>

\* The next treated row is shared out among its neighbours.
MatchOne ==
    LET t == Treated[matched + 1] IN
    /\ leg = "match" /\ matched < Len(Treated)
    /\ \/ Features(t) = {} /\ RefuseMatch("search")
       \/ /\ Features(t) # {}
          /\ \E S \in Nearest(t) :
                tally' = [k \in DOMAIN tally |->
                             tally[k] + IF k \in S THEN 1 ELSE 0]
          /\ matched' = matched + 1
          /\ UNCHANGED <<query, leg, mishap, scores, weights>>

\* What a weight of one is counted as.
FullWeight == Max({query.k, 1})

\* Mutant: the shares are read by the row and not by its place among the
\* controls.
WeightOf_ByRow(i) ==
    CASE Sample[i].treat = {1} -> FullWeight
      [] Sample[i].treat = {0} -> IF i \in DOMAIN tally THEN tally[i] ELSE 0
      [] Sample[i].treat \notin {{0}, {1}} -> 0

WeightOf(i) ==
    CASE Sample[i].treat = {1} -> FullWeight
      [] Sample[i].treat = {0} ->
            tally[CHOOSE k \in DOMAIN Controls : Controls[k] = i]
      [] Sample[i].treat \notin {{0}, {1}} -> 0

Reassemble ==
    /\ leg = "match" /\ matched = Len(Treated)
    /\ weights' = [i \in DOMAIN Sample |-> WeightOf(i)]
    /\ leg' = "done"
    /\ UNCHANGED <<query, mishap, scores, matched, tally>>

MatchNext == PrepareScores \/ Score \/ Measure \/ MatchOne \/ Reassemble

-----------------------------------------------------------------------------
(* Properties *)

\* Every row has the weight of its own matches: a treated row one, a control
\* row its share in every match it is surely in and in none it cannot be in,
\* another row none; and together the controls weigh as much as the matches
\* made. The shares are counted by place among the controls and given to
\* rows of the whole file (engine.rs:173-212), whose blanks and other
\* treatments stand in between.
WeightsAreOfNearest == leg = "done" =>
    LET treated == {i \in DOMAIN Sample : Sample[i].treat = {1}}
        controls == {i \in DOMAIN Sample : Sample[i].treat = {0}}
        Others(t, c) == {d \in controls \ {c} : Gap(t, d) <= Gap(t, c)}
        Nearer(t, c) == {d \in controls : Gap(t, d) < Gap(t, c)}
        Surely(c) == {t \in treated : Cardinality(Others(t, c)) < query.k}
        Perhaps(c) == {t \in treated : Cardinality(Nearer(t, c)) < query.k}
    IN  /\ DOMAIN weights = DOMAIN Sample
        /\ \A i \in treated : weights[i] = FullWeight
        /\ \A c \in controls : /\ weights[c] >= Cardinality(Surely(c))
                               /\ weights[c] <= Cardinality(Perhaps(c))
        /\ \A i \in DOMAIN Sample \ (treated \cup controls) : weights[i] = 0
        /\ SumFunctionOnSet(weights, controls) =
              Cardinality(treated) * Min({query.k, Cardinality(controls)})
=============================================================================
