------------------------------ MODULE Quantile ------------------------------
(***************************************************************************)
(* The simulated quantile decomposition of                                 *)
(* oaxaca_blinder/src/quantile_decomposition.rs, which callers of the      *)
(* library reach directly: the choice of the two groups, the pass over the *)
(* frame, and a bootstrap that gives every replicate to the thread pool at *)
(* once and folds the outcomes in order.                                   *)
(*                                                                         *)
(* A blank cell is {}, another the singleton of its value; group values    *)
(* are integers, ordered as their names, and a blank sorts before them. A  *)
(* frame is a sequence of positions of rows of the data. The random        *)
(* streams and the number of quantile regressions that succeed are part of *)
(* the call, as fixed by its seed. What a pass estimates at a quantile is  *)
(* represented by what it is computed from. Quantiles are in thousandths.  *)
(***************************************************************************)
EXTENDS Integers, Sequences, FiniteSets, FiniteSetsExt, SequencesExt, Positions

CONSTANT QuantileCalls

Master == 0   \* the seed of the point pass; replicate rep's is rep + 1

ASSUME QuantileCallsTyped == \A c \in QuantileCalls :
    /\ c.data \in Seq([group : SUBSET Int, y : SUBSET Int])
    /\ c.base \in Int /\ c.quantiles \in Seq(0..1000)
    /\ c.simulations \in Nat /\ c.reps \in Nat /\ c.threads \in Nat \ {0}
    /\ DOMAIN c.fits = Master..c.reps
    /\ \A m \in DOMAIN c.fits : c.fits[m] \in [{"a", "b"} -> 0..c.simulations]
    /\ DOMAIN c.tape = 0..(2 * c.reps - 1)
    /\ \A i \in DOMAIN c.data : \A u, v \in c.data[i].group : u = v
    /\ \A s \in DOMAIN c.tape, k \in DOMAIN c.data : c.tape[s][k] \in Nat

VARIABLES
    study,      \* the call
    phase,      \* where it is
    trouble,    \* the error it returned, "" for none
    point,      \* point_estimates
    stack,      \* worker -> the replicates it has begun, innermost last
    task,       \* replicate -> how far it is
    taken,      \* outcomes folded so far
    estimates,  \* bootstrap_results
    discards,   \* discarded
    report      \* what is returned

poolVars == <<stack, task>>
foldVars == <<taken, estimates, discards>>
quantileVars == <<study, phase, trouble, point, poolVars, foldVars, report>>

Threads == 1..study.threads
Reps == 0..(study.reps - 1)

-----------------------------------------------------------------------------
(* The pass *)

All(q) == [i \in DOMAIN q.data |-> i]
Cells(q, rows) == {q.data[rows[k]].group : k \in DOMAIN rows}
OfValue(q, rows, v) == At(rows, {k \in DOMAIN rows : q.data[rows[k]].group = v})

\* Mutant: the first value is taken, the reference or not.
Compared_First(q, cells) ==
    LET values == UNION cells IN
    IF {} \in cells THEN {q.base} ELSE {Min(values)}

\* The group compared with the reference: the first value, for which a blank
\* is replaced by the reference; the second if that is the reference. {} if
\* there is none.
Compared(q, cells) ==
    LET values == UNION cells
        first == IF {} \in cells THEN q.base ELSE Min(values)
        rest == IF {} \in cells THEN values ELSE values \ {first}
    IN  IF first # q.base THEN {first}
        ELSE IF rest = {} THEN {} ELSE {Min(rest)}

\* run_single_pass on these rows under one of the seeds.
PassOf(q, rows, master) ==
    LET cells == Cells(q, rows)
        a == OfValue(q, rows, Compared(q, cells))
        b == OfValue(q, rows, {q.base})
        fits == q.fits[master]
        Unknown(s) == \E k \in DOMAIN s : q.data[s[k]].y = {}
    IN  [error |->
           CASE Cardinality(cells) < 2 -> "not enough groups"
             [] Cardinality(cells) >= 2 ->
                  IF Len(a) < 2 \/ Len(b) < 2 THEN "insufficient data"
                  ELSE IF Unknown(a) \/ Unknown(b) THEN "null outcome"
                  ELSE IF \E g \in {"a", "b"} : fits[g] < q.simulations \div 2
                  THEN "too few fits" ELSE "",
         a |-> a, b |-> b, draws |-> Min({fits["a"], fits["b"]}), master |-> master]

\* The whole part of a hundred times the quantile, as doubles have it.
Label(tau) ==
    LET short == tau \in {290, 570, 580} IN
    (IF short THEN tau - 1 ELSE tau) \div 10

\* The estimates of a pass by label: of the quantiles with the same one, the
\* last stays.
Effects(q, pass) ==
    LET taus == q.quantiles IN
    [l \in {Label(taus[k]) : k \in DOMAIN taus} |->
        [pass |-> pass,
         tau |-> taus[Max({k \in DOMAIN taus : Label(taus[k]) = l})]]]

-----------------------------------------------------------------------------
(* The replicates *)

\* Two streams to a replicate, each a draw for every row of its group.
Resampled(q, rows, stream) ==
    [k \in DOMAIN rows |->
        rows[(q.tape[stream][k] % Len(rows)) + 1]]

\* Mutant: the second group is drawn from the first one's stream.
ReplicateRows_OneStream(q, rep) ==
    Resampled(q, OfValue(q, All(q), Compared(q, Cells(q, All(q)))), 2 * rep)
    \o Resampled(q, OfValue(q, All(q), {q.base}), 2 * rep)

ReplicateRows(q, rep) ==
    Resampled(q, OfValue(q, All(q), Compared(q, Cells(q, All(q)))), 2 * rep)
    \o Resampled(q, OfValue(q, All(q), {q.base}), 2 * rep + 1)

Replicate(q, rep) == PassOf(q, ReplicateRows(q, rep), rep + 1)

-----------------------------------------------------------------------------
(* Actions *)

Waiting == [at |-> "waiting", pass |-> <<>>]

QuantileInit ==
    /\ phase = "point" /\ trouble = "" /\ point = <<>>
    /\ stack = [w \in Threads |-> <<>>] /\ task = <<>>
    /\ taken = 0 /\ estimates = <<>> /\ discards = 0 /\ report = <<>>

\* The pass on the data as they are, blanks and all.
PointPass ==
    LET pass == PassOf(study, All(study), Master) IN
    /\ phase = "point"
    /\ \/ /\ pass.error # ""
          /\ trouble' = pass.error /\ phase' = "refused"
          /\ UNCHANGED <<point, task>>
       \/ /\ pass.error = ""
          /\ point' = Effects(study, pass)
          /\ task' = [r \in Reps |-> Waiting]
          /\ phase' = "replicate"
          /\ UNCHANGED trouble
    /\ UNCHANGED <<study, stack, foldVars, report>>

Top(w) == Last(stack[w])

\* A worker that is free, or waits for the fits of another replicate, takes
\* one up.
Begin(w, r) ==
    /\ phase = "replicate" /\ task[r].at = "waiting"
    /\ stack' = [stack EXCEPT ![w] = Append(@, r)]
    /\ task' = [task EXCEPT ![r].at = "drawn"]
    /\ UNCHANGED <<study, phase, trouble, point, foldVars, report>>

\* The samples are drawn and passed over; the outcome goes to the
\* replicate's place.
End(w) ==
    /\ stack[w] # <<>>
    /\ task' = [task EXCEPT ![Top(w)] =
                   [at |-> "done", pass |-> Replicate(study, Top(w))]]
    /\ stack' = [stack EXCEPT ![w] = Front(@)]
    /\ UNCHANGED <<study, phase, trouble, point, foldVars, report>>

Collect ==
    /\ phase = "replicate" /\ \A r \in Reps : task[r].at = "done"
    /\ phase' = "fold"
    /\ UNCHANGED <<study, trouble, point, poolVars, foldVars, report>>

FoldOutcome ==
    LET pass == task[taken].pass IN
    /\ phase = "fold" /\ taken < study.reps
    /\ \/ /\ pass.error = ""
          /\ estimates' = Append(estimates, Effects(study, pass))
          /\ UNCHANGED discards
       \/ /\ pass.error # ""
          /\ discards' = discards + 1
          /\ UNCHANGED estimates
    /\ taken' = taken + 1
    /\ UNCHANGED <<study, phase, trouble, point, poolVars, report>>

\* Each label's estimate with what the replicates that have the label came
\* to, and the heights of the two groups in the data.
Summarise ==
    LET Holding(l) == At(estimates,
                         {k \in DOMAIN estimates : l \in DOMAIN estimates[k]})
        Group(v) == OfValue(study, All(study), v)
    IN  /\ phase = "fold" /\ taken = study.reps
        /\ report' =
             [by |-> [l \in DOMAIN point |->
                        [estimate |-> point[l],
                         distribution |-> [k \in DOMAIN Holding(l) |->
                                              Holding(l)[k][l]]]],
              succeeded |-> Len(estimates), discarded |-> discards,
              nA |-> Len(Group(Compared(study, Cells(study, All(study))))),
              nB |-> Len(Group({study.base}))]
        /\ phase' = "done"
        /\ UNCHANGED <<study, trouble, point, poolVars, foldVars>>

QuantileMain == PointPass \/ Collect \/ FoldOutcome \/ Summarise
QuantileNext ==
    \/ QuantileMain
    \/ \E w \in Threads : End(w) \/ \E r \in Reps : Begin(w, r)

-----------------------------------------------------------------------------
(* Properties *)

\* The bootstrap comes to what one thread taking the replicates in order
\* comes to, each drawn from its own two streams, whichever worker takes
\* which and however deep it nests them (quantile_decomposition.rs:411-437,
\* the promise of its comment that the outcome does not depend on the
\* schedule).
InOrderOutcome(q, rep) ==
    LET a == OfValue(q, All(q), Compared(q, Cells(q, All(q))))
        b == OfValue(q, All(q), {q.base})
        Drawn(s, stream) ==
            [k \in DOMAIN s |-> s[(q.tape[stream][k] % Len(s)) + 1]]
        pass == PassOf(q, Drawn(a, 2 * rep) \o Drawn(b, 2 * rep + 1), rep + 1)
    IN  [ok |-> pass.error = "", lacked |-> {}, estimate |-> Effects(q, pass)]
InOrder == INSTANCE Replicates WITH
    Outcome <- InOrderOutcome, run <- study, at <- taken,
    kept <- estimates, discarded <- discards, levels <- {}
QuantileIsSequential == InOrder!Spec

\* A result compares the reference group with another, as many rows of each
\* as the data have. A blank group cell, which the data are not cleaned of,
\* can make it compare the reference with itself: then no replicate succeeds,
\* so no error is ever reported for such a figure.
TwoGroupsAreCompared == phase = "done" =>
    LET compared == {i \in DOMAIN study.data : \E l \in DOMAIN report.by :
                        Contains(report.by[l].estimate.pass.a, i)}
        Reference == {i \in DOMAIN study.data : study.data[i].group = {study.base}}
    IN  \/ study.quantiles = <<>>
        \/ /\ compared \cap Reference = {}
           /\ Cardinality({study.data[i].group : i \in compared}) = 1
           /\ report.nA = Cardinality(compared)
           /\ report.nB = Cardinality(Reference)
        \/ /\ \E i \in DOMAIN study.data : study.data[i].group = {}
           /\ compared = Reference
           /\ report.succeeded = 0
           /\ \A l \in DOMAIN report.by : report.by[l].distribution = <<>>
=============================================================================
