------------------------------ MODULE Bootstrap ------------------------------
(***************************************************************************)
(* The bootstrap of oaxaca_blinder/src/builder.rs (run and                 *)
(* decompose_quantile share its loop): replicates are run in chunks of the *)
(* thread pool's size, each on its own two random streams, and a chunk's   *)
(* outcomes are folded in order before the next chunk is opened.           *)
(*                                                                         *)
(* The pool is rayon's: a task of the chunk is begun by any worker, and a  *)
(* worker waiting inside a data-frame call may begin another, which it     *)
(* then finishes first.                                                    *)
(*                                                                         *)
(* A random stream is the sequence of its draws, fixed by the seed. The    *)
(* pass on a pair of samples either fails or yields estimates, which are a *)
(* function of the samples and so are represented by them.                 *)
(***************************************************************************)
EXTENDS Integers, Sequences, FiniteSets, FiniteSetsExt, Functions

CONSTANTS
    Weights,        \* group -> the frequency weights of its rows
    Level,          \* group -> the categorical level of its rows
    Solves(_, _),   \* does the pass succeed on these samples of A and B?
    Cases           \* the runs: replicates, threads, kind of weights, draws

Groups == {"A", "B"}
RowsOf(g) == 1..Len(Weights[g])

ASSUME GroupsTyped ==
    /\ Weights \in [Groups -> Seq(Nat)]
    /\ DOMAIN Level = Groups
    /\ \A g \in Groups : Len(Level[g]) = Len(Weights[g])
ASSUME CasesTyped == \A c \in Cases :
    /\ DOMAIN c = {"reps", "threads", "frequency", "tape"}
    /\ c.reps \in Nat /\ c.threads \in Nat \ {0} /\ c.frequency \in BOOLEAN
    /\ DOMAIN c.tape = 0..(2 * c.reps - 1)

VARIABLES
    run,         \* the run: what it was asked and what its streams draw
    phase,
    start, end,  \* the chunk: replicates start .. end - 1
    stack,       \* worker -> the tasks it has begun, innermost last
    task,        \* replicate of the chunk -> how far its task is
    next,        \* the next outcome of the chunk to fold
    kept, discarded, levels,  \* the results folded so far
    result       \* which of a component's figures are reported

chunkVars == <<start, end, stack, task, next>>
folded == <<kept, discarded, levels>>
vars == <<run, phase, chunkVars, folded, result>>

Workers == 1..run.threads
Chunk == start..(end - 1)

-----------------------------------------------------------------------------
(* Samples *)

\* Employees a row stands for; without frequency weights each row is one.
Stands(frequency, g) ==
    [i \in RowsOf(g) |-> IF frequency THEN Weights[g][i] ELSE 1]

\* Employees the first i rows of a group stand for (cum of
\* resample_frequency).
Cumulative == [frequency \in BOOLEAN |-> [g \in Groups |->
    [i \in 0..Len(Weights[g]) |->
        SumFunctionOnSet(Stands(frequency, g), 1..i)]]]

\* Employees a group stands for, which is how many draws a sample takes.
Units(frequency, g) == Cumulative[frequency][g][Len(Weights[g])]

\* unit_rng's unit: two streams to a replicate.
Stream(rep, g) == IF g = "A" THEN 2 * rep ELSE 2 * rep + 1

\* gen_range: a stream draws one of its group's employees each time.
ASSUME DrawsAreUnits == \A c \in Cases : \A rep \in 0..(c.reps - 1), g \in Groups :
    LET N == Units(c.frequency, g)
    IN  \A k \in 1..N : c.tape[Stream(rep, g)][k] \in 0..(N - 1)

\* Mutant: a draw on a boundary takes the row that ends there.
RowAt_Inclusive(frequency, g, u) ==
    IF frequency
    THEN Min({i \in RowsOf(g) : Cumulative[frequency][g][i] >= u})
    ELSE u + 1

\* The row a draw falls on: the first whose cumulative weight exceeds it.
RowAt(frequency, g, u) ==
    IF frequency
    THEN Min({i \in RowsOf(g) : Cumulative[frequency][g][i] > u})
    ELSE u + 1

\* How often each row of the group is in the sample a stream draws.
Sample(r, g, stream) ==
    LET hits == [k \in 1..Units(r.frequency, g) |->
                    RowAt(r.frequency, g, r.tape[stream][k])] IN
    [i \in RowsOf(g) |-> Cardinality({k \in DOMAIN hits : hits[k] = i})]

Has(g, sample, l) == \E i \in RowsOf(g) : Level[g][i] = l /\ sample[i] > 0
\* absent_levels: of the levels of either group, those a sample lacks.
Lacking(a, b) ==
    {l \in UNION {{Level[g][i] : i \in RowsOf(g)} : g \in Groups} :
        ~Has("A", a, l) \/ ~Has("B", b, l)}

Outcome(a, b) ==
    [ok |-> Solves(a, b), estimate |-> <<a, b>>,
     lacked |-> IF Solves(a, b) THEN {} ELSE Lacking(a, b)]

-----------------------------------------------------------------------------
(* The run *)

NoSample == <<>>
NotBegun == [at |-> "waiting", a |-> NoSample, b |-> NoSample]

Init ==
    /\ run \in Cases
    /\ phase = "open" /\ start = 0 /\ end = 0 /\ next = 0
    /\ stack = [w \in Workers |-> <<>>]
    /\ task = <<>>
    /\ kept = <<>> /\ discarded = 0 /\ levels = {}
    /\ result = [interval |-> {}, hasError |-> FALSE]

\* Mutant: every replicate is dispatched at once.
ChunkEnd_All == run.reps

\* Mutant: the chunk's end is taken to be in it.
ChunkEnd_Inclusive ==
    LET e == start + run.threads - 1 IN
    IF e <= run.reps THEN e ELSE run.reps

ChunkEnd == LET e == start + run.threads IN
            IF e <= run.reps THEN e ELSE run.reps

OpenChunk ==
    /\ phase = "open" /\ start < run.reps
    /\ end' = ChunkEnd
    /\ task' = [r \in start..(ChunkEnd - 1) |-> NotBegun]
    /\ next' = start
    /\ phase' = "running"
    /\ UNCHANGED <<run, start, stack, folded, result>>

Top(w) == stack[w][Len(stack[w])]

\* A free worker, or one that waits inside a data-frame call.
Begin(w, r) ==
    /\ phase = "running"
    /\ r \in Chunk /\ task[r].at = "waiting"
    /\ stack' = [stack EXCEPT ![w] = Append(@, r)]
    /\ task' = [task EXCEPT ![r].at = "drawA"]
    /\ UNCHANGED <<run, phase, start, end, next, folded, result>>

\* Mutant: group A is drawn from the worker's stream, not the replicate's.
DrawA_ByWorker(w) ==
    /\ stack[w] # <<>> /\ task[Top(w)].at = "drawA"
    /\ task' = [task EXCEPT ![Top(w)] =
                   [@ EXCEPT !.at = "drawB", !.a = Sample(run, "A", Stream(w - 1, "A"))]]
    /\ UNCHANGED <<run, phase, start, end, stack, next, folded, result>>

DrawA(w) ==
    /\ stack[w] # <<>> /\ task[Top(w)].at = "drawA"
    /\ task' = [task EXCEPT ![Top(w)] =
                   [@ EXCEPT !.at = "drawB",
                             !.a = Sample(run, "A", Stream(Top(w), "A"))]]
    /\ UNCHANGED <<run, phase, start, end, stack, next, folded, result>>

DrawB(w) ==
    /\ stack[w] # <<>> /\ task[Top(w)].at = "drawB"
    /\ task' = [task EXCEPT ![Top(w)] =
                   [@ EXCEPT !.at = "pass",
                             !.b = Sample(run, "B", Stream(Top(w), "B"))]]
    /\ UNCHANGED <<run, phase, start, end, stack, next, folded, result>>

\* The pass itself, and the slot its outcome is collected into.
Pass(w) ==
    /\ stack[w] # <<>> /\ task[Top(w)].at = "pass"
    /\ task' = [task EXCEPT ![Top(w)].at = "done"]
    /\ stack' = [stack EXCEPT ![w] = SubSeq(@, 1, Len(@) - 1)]
    /\ UNCHANGED <<run, phase, start, end, next, folded, result>>

Collect ==
    /\ phase = "running"
    /\ \A r \in Chunk : task[r].at = "done"
    /\ phase' = "folding"
    /\ UNCHANGED <<run, chunkVars, folded, result>>

Fold ==
    /\ phase = "folding" /\ next < end
    /\ LET o == Outcome(task[next].a, task[next].b) IN
       /\ kept' = IF o.ok THEN Append(kept, o.estimate) ELSE kept
       /\ discarded' = IF o.ok THEN discarded ELSE discarded + 1
       /\ levels' = levels \cup o.lacked
    /\ next' = next + 1
    /\ UNCHANGED <<run, phase, start, end, stack, task, result>>

CloseChunk ==
    /\ phase = "folding" /\ next = end
    /\ start' = end /\ task' = <<>>
    /\ phase' = "open"
    /\ UNCHANGED <<run, end, stack, next, folded, result>>

-----------------------------------------------------------------------------
(* bootstrap_stats, over the estimates kept *)

MinPercentileReps == 41

\* Mutant: the floor is one replicate lower.
HasInterval_FromForty(n) == n >= 40

HasInterval(n) == n >= MinPercentileReps

\* Positions, from 0, of the interval's ends among n sorted estimates: the
\* whole part of 0.025 n and of 0.975 n.
LowerAt(n) == n \div 40
UpperAt(n) == LET u == (39 * n) \div 40 IN IF u <= n - 1 THEN u ELSE n - 1

Aggregate ==
    /\ phase = "open" /\ start >= run.reps
    /\ phase' = "done"
    /\ LET n == Len(kept) IN
       result' = [hasError |-> n >= 2,
                  interval |-> IF HasInterval(n)
                               THEN {[lo |-> LowerAt(n), hi |-> UpperAt(n)]}
                               ELSE {}]
    /\ UNCHANGED <<run, chunkVars, folded>>

Done == phase = "done"
Return == Done /\ UNCHANGED vars

Work(w) == DrawA(w) \/ DrawB(w) \/ Pass(w)
Steal(w) == \E r \in Chunk : Begin(w, r)
Main == OpenChunk \/ Collect \/ Fold \/ CloseChunk \/ Aggregate

Next == Main \/ Return \/ \E w \in Workers : Work(w) \/ Steal(w)

\* The caller's thread and the pool's workers are scheduled, and an idle
\* worker takes a waiting task.
Fairness ==
    /\ WF_vars(Main)
    /\ WF_vars(\E w \in Workers : Work(w))
    /\ WF_vars(\E w \in Workers : Steal(w))

Spec == Init /\ [][Next]_vars /\ Fairness

-----------------------------------------------------------------------------
(* Properties *)

Live == {r \in Chunk : phase = "running"
                         /\ task[r].at \notin {"waiting", "done"}}

\* Types of the variables.
TypeOK ==
    /\ run \in Cases
    /\ phase \in {"open", "running", "folding", "done"}
    /\ start \in Nat /\ end \in Nat /\ next \in Nat
    /\ end <= run.reps /\ start <= end
    /\ DOMAIN stack = Workers
    /\ \A w \in Workers : \A k \in 1..Len(stack[w]) : stack[w][k] \in Chunk
    /\ discarded \in Nat
    /\ Len(kept) + discarded <= run.reps

\* The run comes to what one thread taking the replicates in order comes to,
\* whatever the pool's size and the order in which tasks are begun and end.
OutcomeOf(r, rep) ==
    Outcome(Sample(r, "A", 2 * rep), Sample(r, "B", 2 * rep + 1))
InOrder == INSTANCE Replicates WITH Outcome <- OutcomeOf, at <- next
SequentialSpec == InOrder!Spec

\* No more replicates are at work at once than the pool has threads (the
\* memory bound H_res + chunk * Sc), even when waiting workers steal.
LiveIsBounded == Cardinality(Live) <= run.threads

\* A sample stands for as many employees as its group, and each employee is
\* as likely as any other: a row is hit by as many draws as it stands for.
EmployeesAreEqual ==
    phase = "open" /\ start = 0 => \A g \in Groups :
        LET N == Units(run.frequency, g) IN
        /\ \A i \in RowsOf(g) :
             Cardinality({u \in 0..(N - 1) : RowAt(run.frequency, g, u) = i})
                 = Stands(run.frequency, g)[i]
        /\ \A rep \in 0..(run.reps - 1) :
             SumFunctionOnSet(Sample(run, g, Stream(rep, g)), RowsOf(g)) = N

\* An interval is reported when both its ends are inside the estimates kept
\* (MIN_PERCENTILE_CI_REPS), counted after the failed replicates are out, and
\* it then holds at least 95 % of them.
IntervalIsInterior ==
    Done =>
        LET n == Len(kept) IN
        /\ \A i \in result.interval :
              /\ 1 <= i.lo /\ i.lo < i.hi /\ i.hi <= n - 2
              /\ 100 * (i.hi - i.lo + 1) >= 95 * n
        /\ result.interval = {} => LowerAt(n) = 0 \/ UpperAt(n) = n - 1

\* Every replicate is settled, as kept or as discarded, and the run returns.
RunCompletes == <>(Done /\ Len(kept) + discarded = run.reps)
=============================================================================
