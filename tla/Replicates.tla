----------------------------- MODULE Replicates -----------------------------
(***************************************************************************)
(* What the bootstrap of oaxaca_blinder promises: the result is that of    *)
(* one thread taking the replicates in order, keeping the estimates of     *)
(* those that succeed and counting the others with the levels they lacked. *)
(***************************************************************************)
EXTENDS Integers, Sequences

CONSTANT Outcome(_, _)  \* what a replicate of a run comes to

VARIABLES
    run,        \* the run: it says how many replicates, and what each draws
    at,         \* replicates taken so far
    kept,       \* estimates of the successful ones, in order
    discarded,  \* how many failed
    levels      \* the levels absent from a failed one's samples

Init == at = 0 /\ kept = <<>> /\ discarded = 0 /\ levels = {}

Keep ==
    /\ at < run.reps /\ Outcome(run, at).ok
    /\ kept' = Append(kept, Outcome(run, at).estimate)
    /\ at' = at + 1
    /\ UNCHANGED <<run, discarded, levels>>

Discard ==
    /\ at < run.reps /\ ~Outcome(run, at).ok
    /\ discarded' = discarded + 1
    /\ levels' = levels \cup Outcome(run, at).lacked
    /\ at' = at + 1
    /\ UNCHANGED <<run, kept>>

Spec == Init /\ [][Keep \/ Discard]_<<run, at, kept, discarded, levels>>
=============================================================================
