---------------------------- MODULE MCBootstrap ----------------------------
(* Instances of Bootstrap for TLC: pools of one to three workers on three  *)
(* replicates, four replicates in chunks of two, and single-worker runs    *)
(* whose failures leave one replicate more and less than an interval needs.*)
EXTENDS Bootstrap

MCWeights == [g \in Groups |-> IF g = "A" THEN <<2, 0, 1>> ELSE <<1, 2, 0>>]
MCLevel == [g \in Groups |->
               IF g = "A" THEN <<"x", "y", "y">> ELSE <<"x", "y", "x">>]

\* The pass fails when a level is missing, and on one collinear pair.
MCSolves(a, b) == Lacking(a, b) = {} /\ a # b

Fair == <<0, 2, 1>>
Skewed == <<1, 0, 1>>
Single == <<2, 2, 2>>

Ask(n, p, f, t) ==
    [reps |-> n, threads |-> p, frequency |-> f, tape |-> t]

Small ==
    { Ask(3, p, f, t) : p \in 2..3, f \in BOOLEAN,
      t \in {t \in [0..5 -> {Fair, Skewed, Single}] :
                /\ t[1] \in {Fair, Skewed} /\ t[3] = Fair /\ t[5] = Fair
                /\ t[4] # Fair} }
Chunked ==
    { Ask(4, 2, TRUE, t) : t \in {t \in [0..7 -> {Fair, Skewed}] :
                                     \A s \in {1, 2, 5, 7} : t[s] = Fair} }
\* Stream 2r of a replicate that fails draws one row only.
Long ==
    { Ask(n, 1, FALSE,
          [s \in 0..(2 * n - 1) |-> IF s \in {6 * k : k \in 0..(f - 1)}
                                    THEN Single
                                    ELSE IF s % 2 = 0 THEN Skewed ELSE Fair]) :
      n \in {0, 1, 2, 40, 41, 43}, f \in 0..3 }

MCCases == Small \cup Chunked \cup Long
=============================================================================
