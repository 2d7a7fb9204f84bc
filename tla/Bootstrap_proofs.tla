-------------------------- MODULE Bootstrap_proofs --------------------------
(***************************************************************************)
(* Proofs about Bootstrap: the loop implements the sequential machine of   *)
(* Replicates, no more replicates are live than the pool has threads, and  *)
(* an interval has interior ends, for any groups, pool and streams.        *)
(***************************************************************************)
EXTENDS Bootstrap, Sums, FiniteSetTheorems, TLAPS

Stages == {"waiting", "drawA", "drawB", "pass", "done"}
Samples == {NoSample}
           \cup {Sample(c, g, s) : c \in Cases, g \in Groups, s \in Nat}
Busy == {"drawA", "drawB", "pass"}

-----------------------------------------------------------------------------
(* The inductive invariant *)

\* The chunk is a stretch of the replicates no longer than the pool.
ChunkIsBounded ==
    /\ start \in Nat /\ end \in Nat /\ next \in Nat
    /\ start <= end /\ end <= run.reps /\ end - start <= run.threads

\* Where the fold is, by the phase.
FoldPosition ==
    /\ phase \in {"open", "running", "folding", "done"}
    /\ phase \in {"open", "done"} => start = end /\ next = end
    /\ phase = "running" => next = start
    /\ phase = "folding" => start <= next /\ next <= end

\* What a task has drawn is what its replicate's streams say: its slot does
\* not depend on the worker or on the tasks that ran before.
SlotsAreTheirs ==
    phase \in {"running", "folding"} =>
        /\ task \in [Chunk -> [at : Stages, a : Samples, b : Samples]]
        /\ \A r \in Chunk :
              /\ task[r].at \in {"drawB", "pass", "done"}
                    => task[r].a = Sample(run, "A", 2 * r)
              /\ task[r].at \in {"pass", "done"}
                    => task[r].b = Sample(run, "B", 2 * r + 1)
        /\ phase = "folding" => \A r \in Chunk : task[r].at = "done"

\* A task is on at most one worker's stack, once, and only while unfinished.
StacksAreDisjoint ==
    /\ stack \in [Workers -> Seq(Chunk)]
    /\ phase # "running" => \A w \in Workers : stack[w] = <<>>
    /\ \A w \in Workers : \A k \in 1..Len(stack[w]) :
          task[stack[w][k]].at \in Busy
    /\ \A v, w \in Workers : \A j \in 1..Len(stack[v]), k \in 1..Len(stack[w]) :
          stack[v][j] = stack[w][k] => v = w /\ j = k

\* Every replicate folded is kept or discarded.
Accounted ==
    /\ kept \in Seq({<<a, b>> : a \in Samples, b \in Samples})
    /\ discarded \in Nat
    /\ Len(kept) + discarded = next

Reported ==
    Done => result = [hasError |-> Len(kept) >= 2,
                      interval |-> IF HasInterval(Len(kept))
                                   THEN {[lo |-> LowerAt(Len(kept)),
                                          hi |-> UpperAt(Len(kept))]}
                                   ELSE {}]

IInv ==
    /\ run \in Cases
    /\ ChunkIsBounded
    /\ FoldPosition
    /\ SlotsAreTheirs
    /\ StacksAreDisjoint
    /\ Accounted
    /\ Reported

\* A run's numbers are numbers.
LEMMA RunTyped == ASSUME run \in Cases
                  PROVE  run.reps \in Nat /\ run.threads \in Nat \ {0}
  BY CasesTyped

\* A sample of a replicate is one of the samples.
LEMMA SampleTyped ==
    ASSUME run \in Cases, NEW g \in Groups, NEW s \in Nat
    PROVE  Sample(run, g, s) \in Samples
  BY DEF Samples

\* A run begins with no chunk, no task and nothing folded.
LEMMA InitInvariant == Init => IInv
  <1> SUFFICES ASSUME Init PROVE IInv
    OBVIOUS
  <1>1. run \in Cases
    BY DEF Init
  <1>2. ChunkIsBounded
    BY <1>1, RunTyped DEF Init, ChunkIsBounded
  <1>3. FoldPosition /\ SlotsAreTheirs /\ Reported
    BY DEF Init, FoldPosition, SlotsAreTheirs, Reported, Done
  <1>4. StacksAreDisjoint
    BY DEF Init, StacksAreDisjoint
  <1>5. Accounted
    BY DEF Init, Accounted
  <1> QED
    BY <1>1, <1>2, <1>3, <1>4, <1>5 DEF IInv

-----------------------------------------------------------------------------
(* Every action preserves it *)

\* A chunk opens at the first replicate not yet folded, with fresh slots.
LEMMA OpenChunkInvariant == IInv /\ OpenChunk => IInv'
  <1> SUFFICES ASSUME IInv, OpenChunk PROVE IInv'
    OBVIOUS
  <1> USE RunTyped DEF IInv
  <1>1. /\ run' = run /\ start' = start /\ end' = ChunkEnd /\ next' = start
        /\ phase' = "running" /\ start \in Nat /\ start = next
        /\ start <= ChunkEnd /\ ChunkEnd <= run.reps
        /\ ChunkEnd - start <= run.threads /\ ChunkEnd \in Nat
    BY DEF OpenChunk, ChunkEnd, ChunkIsBounded, FoldPosition
  <1>2. ChunkIsBounded' /\ FoldPosition'
    BY <1>1 DEF ChunkIsBounded, FoldPosition
  <1>3. /\ Chunk' = start..(ChunkEnd - 1)
        /\ task' = [r \in Chunk' |-> NotBegun]
    BY <1>1 DEF OpenChunk, Chunk
  <1>4. SlotsAreTheirs'
    <2>1. NotBegun \in [at : Stages, a : Samples, b : Samples]
      BY DEF NotBegun, Stages, Samples
    <2>2. \A r \in Chunk' : task'[r].at = "waiting"
      BY <1>3 DEF NotBegun
    <2> QED
      BY <1>1, <1>3, <2>1, <2>2 DEF SlotsAreTheirs
  <1>5. StacksAreDisjoint'
    <2>1. \A w \in Workers : stack'[w] = <<>>
      BY DEF OpenChunk, StacksAreDisjoint
    <2>2. Workers' = Workers /\ stack' = stack /\ stack \in [Workers -> Seq(Chunk)]
      BY <1>1 DEF OpenChunk, StacksAreDisjoint, Workers
    <2>3. stack' \in [Workers' -> Seq(Chunk')]
      BY <2>1, <2>2
    <2> QED
      BY <2>1, <2>2, <2>3 DEF StacksAreDisjoint
  <1>6. Accounted' /\ Reported'
    BY <1>1 DEF OpenChunk, folded, Accounted, Reported, Done, FoldPosition
  <1> QED
    BY <1>1, <1>2, <1>4, <1>5, <1>6

\* A task goes on one worker's stack only: it was waiting.
LEMMA BeginInvariant ==
    ASSUME IInv, NEW w \in Workers, NEW r \in Chunk, Begin(w, r) PROVE IInv'
  <1> USE RunTyped DEF IInv
  <1>1. /\ phase = "running" /\ phase' = "running" /\ run' = run
        /\ start' = start /\ end' = end /\ next' = next
        /\ Chunk' = Chunk /\ Workers' = Workers
    BY DEF Begin, Chunk, Workers
  <1>2. ChunkIsBounded' /\ FoldPosition' /\ Accounted' /\ Reported'
    BY <1>1 DEF Begin, ChunkIsBounded, FoldPosition, Accounted, Reported, Done,
                folded
  <1>3. task \in [Chunk -> [at : Stages, a : Samples, b : Samples]]
    BY <1>1 DEF SlotsAreTheirs
  <1>4. task' = [task EXCEPT ![r] = [task[r] EXCEPT !.at = "drawA"]]
    BY DEF Begin
  <1>5. SlotsAreTheirs'
    <2>1. task' \in [Chunk -> [at : Stages, a : Samples, b : Samples]]
      BY <1>3, <1>4 DEF Stages
    <2>2. \A q \in Chunk : q # r => task'[q] = task[q]
      BY <1>3, <1>4
    <2>3. task'[r].at = "drawA"
      BY <1>3, <1>4
    <2> QED
      BY <1>1, <2>1, <2>2, <2>3 DEF SlotsAreTheirs
  <1>6. StacksAreDisjoint'
    <2>1. stack' = [stack EXCEPT ![w] = Append(stack[w], r)]
      BY DEF Begin
    <2>2. stack \in [Workers -> Seq(Chunk)]
      BY DEF StacksAreDisjoint
    <2>3. stack' \in [Workers -> Seq(Chunk)]
      BY <2>1, <2>2
    <2>4. \A v \in Workers : \A k \in 1..Len(stack[v]) :
             stack[v][k] \in Chunk /\ stack[v][k] # r
      <3> SUFFICES ASSUME NEW v \in Workers, NEW k \in 1..Len(stack[v])
                   PROVE  stack[v][k] \in Chunk /\ stack[v][k] # r
        OBVIOUS
      <3>1. stack[v] \in Seq(Chunk)
        BY <2>2
      <3>2. task[stack[v][k]].at \in Busy
        BY DEF StacksAreDisjoint
      <3>3. task[r].at = "waiting"
        BY DEF Begin
      <3> QED
        BY <3>1, <3>2, <3>3 DEF Busy
    <2>5. \A v \in Workers : \A k \in 1..Len(stack'[v]) :
             \/ k \in 1..Len(stack[v]) /\ stack'[v][k] = stack[v][k]
             \/ v = w /\ k = Len(stack[w]) + 1 /\ stack'[v][k] = r
      BY <2>1, <2>2
    <2>6. task'[r].at \in Busy
      BY <1>3, <1>4 DEF Busy
    <2>7. \A v \in Workers : \A k \in 1..Len(stack'[v]) :
             task'[stack'[v][k]].at \in Busy
      <3> SUFFICES ASSUME NEW v \in Workers, NEW k \in 1..Len(stack'[v])
                   PROVE  task'[stack'[v][k]].at \in Busy
        OBVIOUS
      <3>1. CASE k \in 1..Len(stack[v]) /\ stack'[v][k] = stack[v][k]
        <4>1. task'[stack[v][k]] = task[stack[v][k]]
          BY <3>1, <2>4, <1>3, <1>4
        <4> QED
          BY <3>1, <4>1 DEF StacksAreDisjoint
      <3>2. CASE stack'[v][k] = r
        BY <3>2, <2>6
      <3> QED
        BY <3>1, <3>2, <2>5
    <2>8. ASSUME NEW v \in Workers, NEW u \in Workers,
                 NEW j \in 1..Len(stack'[v]), NEW k \in 1..Len(stack'[u]),
                 stack'[v][j] = stack'[u][k]
          PROVE  v = u /\ j = k
      <3>1. CASE /\ j \in 1..Len(stack[v]) /\ stack'[v][j] = stack[v][j]
                 /\ k \in 1..Len(stack[u]) /\ stack'[u][k] = stack[u][k]
        <4>1. stack[v][j] = stack[u][k] /\ j \in 1..Len(stack[v])
              /\ k \in 1..Len(stack[u])
          BY <2>8, <3>1
        <4>2. \A x, y \in Workers :
                 \A i \in 1..Len(stack[x]), l \in 1..Len(stack[y]) :
                    stack[x][i] = stack[y][l] => x = y /\ i = l
          BY DEF StacksAreDisjoint
        <4> QED
          BY <4>1, <4>2
      <3>2. CASE \/ v = w /\ j = Len(stack[w]) + 1 /\ stack'[v][j] = r
                 \/ u = w /\ k = Len(stack[w]) + 1 /\ stack'[u][k] = r
        BY <2>4, <2>5, <2>8, <3>2
      <3> QED
        BY <2>5, <3>1, <3>2
    <2> QED
      BY <1>1, <2>3, <2>7, <2>8 DEF StacksAreDisjoint
  <1> QED
    BY <1>1, <1>2, <1>5, <1>6

\* A worker with a begun task is at work on a replicate of the chunk.
LEMMA AtWork ==
    ASSUME IInv, NEW w \in Workers, stack[w] # <<>>
    PROVE  /\ phase = "running"
           /\ Len(stack[w]) \in 1..Len(stack[w]) /\ Len(stack[w]) \in Nat \ {0}
           /\ Top(w) \in Chunk /\ Top(w) \in Nat
           /\ task \in [Chunk -> [at : Stages, a : Samples, b : Samples]]
           /\ task[Top(w)].at \in Busy
  <1>1. phase = "running" /\ stack[w] \in Seq(Chunk)
    BY DEF IInv, StacksAreDisjoint
  <1>2. Len(stack[w]) \in Nat \ {0}
    BY <1>1
  <1>3. Len(stack[w]) \in 1..Len(stack[w])
    BY <1>2
  <1>4. Top(w) \in Chunk
    BY <1>1, <1>2 DEF Top
  <1>5. Top(w) \in Nat
    BY <1>4 DEF Chunk, IInv, ChunkIsBounded
  <1>6. task[Top(w)].at \in Busy
    BY <1>3 DEF IInv, StacksAreDisjoint, Top
  <1> QED
    BY <1>1, <1>2, <1>3, <1>4, <1>5, <1>6 DEF IInv, SlotsAreTheirs

\* A task that goes a stage further with its own replicate's samples.
LEMMA TaskGoesOn ==
    ASSUME IInv, phase = "running", NEW r \in Chunk,
           NEW t \in [at : Busy, a : Samples, b : Samples],
           t.at \in {"drawB", "pass"} => t.a = Sample(run, "A", 2 * r),
           t.at = "pass" => t.b = Sample(run, "B", 2 * r + 1),
           task' = [task EXCEPT ![r] = t],
           UNCHANGED <<run, phase, start, end, stack, next, folded, result>>
    PROVE  IInv'
  <1> USE DEF IInv
  <1>1. Chunk' = Chunk /\ Workers' = Workers
    BY DEF Chunk, Workers
  <1>2. run' \in Cases /\ ChunkIsBounded' /\ FoldPosition' /\ Accounted'
        /\ Reported'
    BY DEF ChunkIsBounded, FoldPosition, Accounted, Reported, Done, folded
  <1>3. task \in [Chunk -> [at : Stages, a : Samples, b : Samples]]
    BY DEF SlotsAreTheirs
  <1>4. t \in [at : Stages, a : Samples, b : Samples] /\ t.at \in Busy
    BY DEF Stages, Busy
  <1>5. task' \in [Chunk -> [at : Stages, a : Samples, b : Samples]]
    BY <1>3, <1>4
  <1>6. task'[r] = t /\ \A q \in Chunk : q # r => task'[q] = task[q]
    BY <1>3
  <1>7. SlotsAreTheirs'
    <2>1. ASSUME NEW q \in Chunk
          PROVE  /\ task'[q].at \in {"drawB", "pass", "done"}
                       => task'[q].a = Sample(run', "A", 2 * q)
                 /\ task'[q].at \in {"pass", "done"}
                       => task'[q].b = Sample(run', "B", 2 * q + 1)
      <3>1. CASE q = r
        <4>1. task'[q] = t /\ run' = run /\ t.at # "done"
          BY <1>4, <1>6, <3>1 DEF Busy
        <4> QED
          BY <3>1, <4>1
      <3>2. CASE q # r
        <4>1. task'[q] = task[q] /\ run' = run
          BY <1>6, <3>2
        <4> QED
          BY <4>1 DEF SlotsAreTheirs
      <3> QED
        BY <3>1, <3>2
    <2> QED
      BY <1>1, <1>5, <2>1 DEF SlotsAreTheirs
  <1>8. StacksAreDisjoint'
    <2>1. \A v \in Workers : \A k \in 1..Len(stack[v]) :
             task'[stack[v][k]].at \in Busy
      <3> SUFFICES ASSUME NEW v \in Workers, NEW k \in 1..Len(stack[v])
                   PROVE  task'[stack[v][k]].at \in Busy
        OBVIOUS
      <3>1. stack[v] \in Seq(Chunk)
        BY DEF StacksAreDisjoint
      <3>2. stack[v][k] \in Chunk
        BY <3>1
      <3>3. task[stack[v][k]].at \in Busy
        BY DEF StacksAreDisjoint
      <3> QED
        BY <1>4, <1>6, <3>2, <3>3
    <2> QED
      BY <1>1, <2>1 DEF StacksAreDisjoint
  <1> QED
    BY <1>2, <1>7, <1>8

\* The first draw fills the slot from the replicate's own stream for A.
LEMMA DrawAInvariant ==
    ASSUME IInv, NEW w \in Workers, DrawA(w) PROVE IInv'
  <1> DEFINE r == Top(w)
             t == [task[r] EXCEPT !.at = "drawB",
                                  !.a = Sample(run, "A", 2 * r)]
  <1>1. stack[w] # <<>> /\ task[r].at = "drawA"
    BY DEF DrawA
  <1>2. task' = [task EXCEPT ![r] = t]
    BY DEF DrawA, Stream
  <1>3. Sample(run, "A", 2 * r) \in Samples
    BY <1>1, AtWork, SampleTyped DEF IInv, Groups
  <1>4. /\ t \in [at : Busy, a : Samples, b : Samples]
        /\ t.at = "drawB" /\ t.a = Sample(run, "A", 2 * r)
    BY <1>1, <1>3, AtWork DEF Busy
  <1>5. UNCHANGED <<run, phase, start, end, stack, next, folded, result>>
    BY DEF DrawA
  <1> HIDE DEF t
  <1> QED
    BY <1>1, <1>2, <1>4, <1>5, AtWork, TaskGoesOn

\* The second draw fills the slot from the replicate's own stream for B.
LEMMA DrawBInvariant ==
    ASSUME IInv, NEW w \in Workers, DrawB(w) PROVE IInv'
  <1> DEFINE r == Top(w)
             t == [task[r] EXCEPT !.at = "pass",
                                  !.b = Sample(run, "B", 2 * r + 1)]
  <1>1. stack[w] # <<>> /\ task[r].at = "drawB"
    BY DEF DrawB
  <1>2. task' = [task EXCEPT ![r] = t]
    BY DEF DrawB, Stream
  <1>3. Sample(run, "B", 2 * r + 1) \in Samples
    BY <1>1, AtWork, SampleTyped DEF IInv, Groups
  <1>4. task[r] \in [at : Stages, a : Samples, b : Samples]
    BY <1>1, AtWork
  <1>5. task[r].a = Sample(run, "A", 2 * r)
    BY <1>1, AtWork DEF IInv, SlotsAreTheirs
  <1>6. /\ t \in [at : Busy, a : Samples, b : Samples]
        /\ t.at = "pass" /\ t.b = Sample(run, "B", 2 * r + 1)
        /\ t.a = Sample(run, "A", 2 * r)
    BY <1>3, <1>4, <1>5 DEF Busy
  <1>7. UNCHANGED <<run, phase, start, end, stack, next, folded, result>>
    BY DEF DrawB
  <1> HIDE DEF t
  <1> QED
    BY <1>1, <1>2, <1>6, <1>7, AtWork, TaskGoesOn

\* The innermost task leaves its worker's stack when its pass is over.
LEMMA PassInvariant ==
    ASSUME IInv, NEW w \in Workers, Pass(w) PROVE IInv'
  <1> DEFINE r == Top(w)
  <1> USE DEF IInv
  <1>1. /\ stack[w] # <<>> /\ task[r].at = "pass"
        /\ task' = [task EXCEPT ![r] = [task[r] EXCEPT !.at = "done"]]
        /\ stack' = [stack EXCEPT ![w] = SubSeq(stack[w], 1, Len(stack[w]) - 1)]
        /\ UNCHANGED <<run, phase, start, end, next, folded, result>>
    BY DEF Pass
  <1>2. /\ phase = "running" /\ r \in Chunk /\ Len(stack[w]) \in Nat \ {0}
        /\ Len(stack[w]) \in 1..Len(stack[w])
        /\ task \in [Chunk -> [at : Stages, a : Samples, b : Samples]]
    BY <1>1, AtWork
  <1>3. Chunk' = Chunk /\ Workers' = Workers
    BY <1>1 DEF Chunk, Workers
  <1>4. run' \in Cases /\ ChunkIsBounded' /\ FoldPosition' /\ Accounted'
        /\ Reported'
    BY <1>1 DEF ChunkIsBounded, FoldPosition, Accounted, Reported, Done, folded
  <1>5. /\ task' \in [Chunk -> [at : Stages, a : Samples, b : Samples]]
        /\ task'[r].at = "done" /\ task'[r].a = task[r].a
        /\ task'[r].b = task[r].b
        /\ \A q \in Chunk : q # r => task'[q] = task[q]
    BY <1>1, <1>2 DEF Stages
  <1>6. SlotsAreTheirs'
    <2>1. ASSUME NEW q \in Chunk
          PROVE  /\ task'[q].at \in {"drawB", "pass", "done"}
                       => task'[q].a = Sample(run', "A", 2 * q)
                 /\ task'[q].at \in {"pass", "done"}
                       => task'[q].b = Sample(run', "B", 2 * q + 1)
      <3>1. CASE q = r
        <4>1. /\ task[r].a = Sample(run, "A", 2 * r)
              /\ task[r].b = Sample(run, "B", 2 * r + 1)
          BY <1>1, <1>2 DEF SlotsAreTheirs
        <4> QED
          BY <1>1, <1>5, <3>1, <4>1
      <3>2. CASE q # r
        BY <1>1, <1>2, <1>5, <3>2 DEF SlotsAreTheirs
      <3> QED
        BY <3>1, <3>2
    <2> QED
      BY <1>1, <1>2, <1>3, <1>5, <2>1 DEF SlotsAreTheirs
  <1>7. StacksAreDisjoint'
    <2>1. stack \in [Workers -> Seq(Chunk)]
      BY DEF StacksAreDisjoint
    <2>2. stack' \in [Workers -> Seq(Chunk)]
      BY <1>1, <1>2, <2>1
    <2>3. \A v \in Workers : \A k \in 1..Len(stack'[v]) :
             /\ k \in 1..Len(stack[v]) /\ stack'[v][k] = stack[v][k]
             /\ v = w => k # Len(stack[w])
      BY <1>1, <1>2, <2>1
    <2>4. \A x, y \in Workers :
             \A i \in 1..Len(stack[x]), l \in 1..Len(stack[y]) :
                stack[x][i] = stack[y][l] => x = y /\ i = l
      BY DEF StacksAreDisjoint
    <2>5. \A v \in Workers : \A k \in 1..Len(stack'[v]) :
             task'[stack'[v][k]].at \in Busy
      <3> SUFFICES ASSUME NEW v \in Workers, NEW k \in 1..Len(stack'[v])
                   PROVE  task'[stack'[v][k]].at \in Busy
        OBVIOUS
      <3>1. /\ k \in 1..Len(stack[v]) /\ stack'[v][k] = stack[v][k]
            /\ v = w => k # Len(stack[w])
        BY <2>3
      <3>2. stack[v][k] # stack[w][Len(stack[w])]
        BY <1>2, <2>4, <3>1
      <3>3. stack[v][k] \in Chunk
        BY <2>1, <3>1
      <3>4. task[stack[v][k]].at \in Busy
        BY <3>1 DEF StacksAreDisjoint
      <3> QED
        BY <1>5, <3>1, <3>2, <3>3, <3>4 DEF Top
    <2>6. \A x, y \in Workers :
             \A i \in 1..Len(stack'[x]), l \in 1..Len(stack'[y]) :
                stack'[x][i] = stack'[y][l] => x = y /\ i = l
      BY <2>3, <2>4
    <2> QED
      BY <1>1, <1>2, <1>3, <2>2, <2>5, <2>6, SMTT(30) DEF StacksAreDisjoint
  <1> QED
    BY <1>4, <1>6, <1>7

\* A chunk is folded only once all of its slots are filled.
LEMMA CollectInvariant == IInv /\ Collect => IInv'
  <1> SUFFICES ASSUME IInv, Collect PROVE IInv'
    OBVIOUS
  <1> USE DEF IInv
  <1>1. /\ phase = "running" /\ phase' = "folding"
        /\ \A r \in Chunk : task[r].at = "done"
        /\ UNCHANGED <<run, start, end, stack, task, next, folded, result>>
        /\ Chunk' = Chunk /\ Workers' = Workers
    BY DEF Collect, chunkVars, Chunk, Workers
  <1>2. run' \in Cases /\ ChunkIsBounded' /\ FoldPosition' /\ Accounted'
        /\ Reported'
    BY <1>1 DEF ChunkIsBounded, FoldPosition, Accounted, Reported, Done, folded
  <1>3. SlotsAreTheirs'
    BY <1>1 DEF SlotsAreTheirs
  <1>4. \A w \in Workers : stack[w] = <<>>
    <2> SUFFICES ASSUME NEW w \in Workers, stack[w] # <<>> PROVE FALSE
      OBVIOUS
    <2>1. Top(w) \in Chunk /\ task[Top(w)].at \in Busy
      BY AtWork
    <2> QED
      BY <1>1, <2>1 DEF Busy
  <1>5. StacksAreDisjoint'
    BY <1>1, <1>4 DEF StacksAreDisjoint
  <1> QED
    BY <1>2, <1>3, <1>5

\* What is folded is the outcome of the replicate's own streams.
LEMMA FoldsItsOutcome ==
    ASSUME IInv, Fold
    PROVE  /\ next \in Chunk
           /\ Outcome(task[next].a, task[next].b) = OutcomeOf(run, next)
           /\ task[next].a \in Samples /\ task[next].b \in Samples
  <1>1. phase = "folding" /\ next \in Chunk
    BY DEF Fold, IInv, FoldPosition, ChunkIsBounded, Chunk
  <1>2. /\ task[next].a = Sample(run, "A", 2 * next)
        /\ task[next].b = Sample(run, "B", 2 * next + 1)
    BY <1>1 DEF IInv, SlotsAreTheirs
  <1>3. task[next] \in [at : Stages, a : Samples, b : Samples]
    BY <1>1 DEF IInv, SlotsAreTheirs
  <1> QED
    BY <1>1, <1>2, <1>3 DEF OutcomeOf

\* Folding takes one outcome, and it is the outcome of the next replicate.
LEMMA FoldInvariant == IInv /\ Fold => IInv'
  <1> SUFFICES ASSUME IInv, Fold PROVE IInv'
    OBVIOUS
  <1> DEFINE o == Outcome(task[next].a, task[next].b)
  <1> USE DEF IInv
  <1>1. /\ phase = "folding" /\ next < end /\ next' = next + 1
        /\ UNCHANGED <<run, phase, start, end, stack, task, result>>
        /\ Chunk' = Chunk /\ Workers' = Workers
    BY DEF Fold, Chunk, Workers
  <1>2. run' \in Cases /\ ChunkIsBounded' /\ FoldPosition' /\ SlotsAreTheirs'
        /\ StacksAreDisjoint' /\ Reported'
    BY <1>1 DEF ChunkIsBounded, FoldPosition, SlotsAreTheirs,
                StacksAreDisjoint, Reported, Done
  <1>3. Accounted'
    <2>1. o.estimate \in {<<a, b>> : a \in Samples, b \in Samples}
      BY FoldsItsOutcome DEF Outcome
    <2>2. /\ kept' = IF o.ok THEN Append(kept, o.estimate) ELSE kept
          /\ discarded' = IF o.ok THEN discarded ELSE discarded + 1
      BY DEF Fold
    <2>3. /\ kept \in Seq({<<a, b>> : a \in Samples, b \in Samples})
          /\ discarded \in Nat /\ Len(kept) + discarded = next
      BY DEF Accounted
    <2> HIDE DEF o
    <2>4. CASE o.ok
      BY <1>1, <2>1, <2>2, <2>3, <2>4 DEF Accounted
    <2>5. CASE ~o.ok
      BY <1>1, <2>2, <2>3, <2>5 DEF Accounted
    <2> QED
      BY <2>4, <2>5
  <1> QED
    BY <1>2, <1>3

\* A closed chunk leaves no slot behind.
LEMMA CloseChunkInvariant == IInv /\ CloseChunk => IInv'
  <1> SUFFICES ASSUME IInv, CloseChunk PROVE IInv'
    OBVIOUS
  <1> USE DEF IInv
  <1>1. /\ phase = "folding" /\ phase' = "open" /\ next = end
        /\ start' = end /\ Workers' = Workers
        /\ UNCHANGED <<run, end, stack, next, folded, result>>
    BY DEF CloseChunk, Workers
  <1>2. run' \in Cases /\ ChunkIsBounded' /\ FoldPosition' /\ Accounted'
        /\ Reported' /\ SlotsAreTheirs'
    BY <1>1, RunTyped DEF ChunkIsBounded, FoldPosition, Accounted, Reported,
                          SlotsAreTheirs, Done, folded
  <1>3. StacksAreDisjoint'
    <2>1. /\ stack \in [Workers -> Seq(Chunk)]
          /\ \A w \in Workers : stack[w] = <<>>
      BY <1>1 DEF StacksAreDisjoint
    <2>2. stack' \in [Workers' -> Seq(Chunk')]
      BY <1>1, <2>1
    <2> QED
      BY <1>1, <2>1, <2>2 DEF StacksAreDisjoint
  <1> QED
    BY <1>2, <1>3

\* The interval reported is that of the estimates kept.
LEMMA AggregateInvariant == IInv /\ Aggregate => IInv'
  <1> SUFFICES ASSUME IInv, Aggregate PROVE IInv'
    OBVIOUS
  <1> USE DEF IInv
  <1>1. /\ phase = "open" /\ phase' = "done"
        /\ UNCHANGED <<run, start, end, stack, task, next, kept, discarded,
                      levels>>
        /\ Chunk' = Chunk /\ Workers' = Workers
    BY DEF Aggregate, chunkVars, folded, Chunk, Workers
  <1>2. run' \in Cases /\ ChunkIsBounded' /\ FoldPosition' /\ Accounted'
        /\ SlotsAreTheirs' /\ StacksAreDisjoint'
    BY <1>1 DEF ChunkIsBounded, FoldPosition, Accounted, SlotsAreTheirs,
                StacksAreDisjoint
  <1>3. Reported'
    BY <1>1 DEF Aggregate, Reported
  <1> QED
    BY <1>2, <1>3

\* The invariant is inductive.
LEMMA StepInvariant == IInv /\ [Next]_vars => IInv'
  <1> SUFFICES ASSUME IInv, [Next]_vars PROVE IInv'
    OBVIOUS
  <1>1. CASE Main
    BY <1>1, OpenChunkInvariant, CollectInvariant, FoldInvariant,
       CloseChunkInvariant, AggregateInvariant DEF Main
  <1>2. ASSUME NEW w \in Workers, Work(w) PROVE IInv'
    BY <1>2, DrawAInvariant, DrawBInvariant, PassInvariant DEF Work
  <1>3. ASSUME NEW w \in Workers, Steal(w) PROVE IInv'
    BY <1>3, BeginInvariant DEF Steal
  <1>4. CASE UNCHANGED vars
    <2>1. UNCHANGED <<run, phase, start, end, stack, task, next, kept,
                      discarded, levels, result>>
          /\ Chunk' = Chunk /\ Workers' = Workers
      BY <1>4 DEF vars, chunkVars, folded, Chunk, Workers
    <2> QED
      BY <2>1 DEF IInv, ChunkIsBounded, FoldPosition, SlotsAreTheirs,
                  StacksAreDisjoint, Accounted, Reported, Done
  <1> QED
    BY <1>1, <1>2, <1>3, <1>4 DEF Next, Return

\* What the theorems below rest on.
THEOREM Invariance == Spec => []IInv
  BY InitInvariant, StepInvariant, PTL DEF Spec

-----------------------------------------------------------------------------
(* The theorems *)

\* The variables keep their types (Bootstrap's TypeOK).
THEOREM TypeCorrect == Spec => []TypeOK
  <1>1. IInv => TypeOK
    <2> SUFFICES ASSUME IInv PROVE TypeOK
      OBVIOUS
    <2>1. /\ run \in Cases /\ phase \in {"open", "running", "folding", "done"}
          /\ start \in Nat /\ end \in Nat /\ next \in Nat
          /\ end <= run.reps /\ start <= end /\ discarded \in Nat
      BY DEF IInv, ChunkIsBounded, FoldPosition, Accounted
    <2>2. stack \in [Workers -> Seq(Chunk)]
      BY DEF IInv, StacksAreDisjoint
    <2>3. \A w \in Workers : \A k \in 1..Len(stack[w]) : stack[w][k] \in Chunk
      BY <2>2
    <2>4. Len(kept) + discarded <= run.reps
      BY <2>1, RunTyped DEF IInv, Accounted, FoldPosition, ChunkIsBounded
    <2> QED
      BY <2>1, <2>2, <2>3, <2>4 DEF TypeOK
  <1> QED
    BY <1>1, Invariance, PTL

\* The bounded-memory promise of the chunked loop: at no time are more
\* replicates between their first draw and their outcome than the pool has
\* threads, however its workers steal.
THEOREM MemoryIsBounded == Spec => []LiveIsBounded
  <1>1. IInv => LiveIsBounded
    <2> SUFFICES ASSUME IInv PROVE Cardinality(Live) <= run.threads
      BY DEF LiveIsBounded
    <2>1. /\ start \in Nat /\ end \in Nat /\ start <= end
          /\ end - start <= run.threads /\ run.threads \in Nat
      BY RunTyped DEF IInv, ChunkIsBounded
    <2>2. IsFiniteSet(Chunk) /\ Cardinality(Chunk) = end - start
      <3>1. IsFiniteSet(start..(end - 1))
            /\ Cardinality(start..(end - 1))
                 = IF start > end - 1 THEN 0 ELSE (end - 1) - start + 1
        <4>1. start \in Int /\ end - 1 \in Int
          BY <2>1
        <4> QED
          BY <4>1, FS_Interval
      <3> QED
        BY <2>1, <3>1 DEF Chunk
    <2>3. Live \subseteq Chunk
      BY DEF Live
    <2>4. Cardinality(Live) <= Cardinality(Chunk)
      BY <2>2, <2>3, FS_Subset
    <2>5. IsFiniteSet(Live)
      BY <2>2, <2>3, FS_Subset
    <2>6. Cardinality(Live) \in Nat
      BY <2>5, FS_CardinalityType
    <2> QED
      BY <2>1, <2>2, <2>4, <2>6
  <1> QED
    BY <1>1, Invariance, PTL

\* MIN_PERCENTILE_CI_REPS is the least number of estimates at which the two
\* positions bootstrap_stats computes are interior, and the interval between
\* them then holds 95 % of the estimates; it is the number kept that counts.
THEOREM IntervalsAreInterior == Spec => []IntervalIsInterior
  <1>1. \A n \in Nat :
           /\ n >= 41 => /\ 1 <= LowerAt(n) /\ LowerAt(n) < UpperAt(n)
                         /\ UpperAt(n) <= n - 2
                         /\ 100 * (UpperAt(n) - LowerAt(n) + 1) >= 95 * n
           /\ n < 41 => LowerAt(n) = 0 \/ UpperAt(n) = n - 1
    BY DEF LowerAt, UpperAt
  <1>2. IInv => IntervalIsInterior
    <2> SUFFICES ASSUME IInv, Done PROVE IntervalIsInterior
      BY DEF IntervalIsInterior
    <2>1. Len(kept) \in Nat
      BY DEF IInv, Accounted
    <2>2. result = [hasError |-> Len(kept) >= 2,
                    interval |-> IF Len(kept) >= 41
                                 THEN {[lo |-> LowerAt(Len(kept)),
                                        hi |-> UpperAt(Len(kept))]}
                                 ELSE {}]
      BY DEF IInv, Reported, HasInterval, MinPercentileReps
    <2>3. CASE Len(kept) >= 41
      <3> DEFINE i == [lo |-> LowerAt(Len(kept)), hi |-> UpperAt(Len(kept))]
      <3>1. /\ 1 <= i.lo /\ i.lo < i.hi /\ i.hi <= Len(kept) - 2
            /\ 100 * (i.hi - i.lo + 1) >= 95 * Len(kept)
        BY <1>1, <2>1, <2>3
      <3>2. result.interval = {i}
        BY <2>2, <2>3
      <3> HIDE DEF i
      <3> QED
        BY <3>1, <3>2 DEF IntervalIsInterior
    <2>4. CASE Len(kept) < 41
      <3>1. LowerAt(Len(kept)) = 0 \/ UpperAt(Len(kept)) = Len(kept) - 1
        BY <1>1, <2>1, <2>4
      <3>2. result.interval = {}
        BY <2>1, <2>2, <2>4
      <3> QED
        BY <3>1, <3>2 DEF IntervalIsInterior
    <2> QED
      BY <2>1, <2>3, <2>4
  <1> QED
    BY <1>2, Invariance, PTL

\* INV-02 of the repository: the estimates kept, their order, the number of
\* discarded replicates and the levels named for them are those of one thread
\* taking the replicates in order, whatever the pool and its schedule.
THEOREM RunIsSequential == Spec => SequentialSpec
  <1>1. Init => InOrder!Init
    BY DEF Init, InOrder!Init
  <1>2. IInv /\ [Next]_vars
          => [InOrder!Keep \/ InOrder!Discard]_<<run, next, kept, discarded, levels>>
    <2> SUFFICES ASSUME IInv, [Next]_vars
                 PROVE  [InOrder!Keep \/ InOrder!Discard]_<<run, next, kept, discarded, levels>>
      OBVIOUS
    <2>1. CASE Fold
      <3> DEFINE o == OutcomeOf(run, next)
      <3>1. /\ kept' = IF o.ok THEN Append(kept, o.estimate) ELSE kept
            /\ discarded' = IF o.ok THEN discarded ELSE discarded + 1
            /\ levels' = levels \cup o.lacked
            /\ next' = next + 1 /\ run' = run
        BY <2>1, FoldsItsOutcome DEF Fold
      <3>2. next < run.reps
        BY <2>1, RunTyped DEF Fold, IInv, ChunkIsBounded
      <3>3. o.ok => o.lacked = {}
        BY DEF OutcomeOf, Outcome
      <3> HIDE DEF o
      <3>4. CASE o.ok
        <4>1. UNCHANGED <<run, discarded, levels>>
          BY <3>1, <3>3, <3>4
        <4> QED
          BY <3>1, <3>2, <3>4, <4>1 DEF InOrder!Keep, o
      <3>5. CASE ~o.ok
        BY <3>1, <3>2, <3>5 DEF InOrder!Discard, o
      <3> QED
        BY <3>4, <3>5
    <2>2. CASE OpenChunk
      BY <2>2 DEF OpenChunk, folded, IInv, FoldPosition
    <2>3. CASE Collect \/ CloseChunk \/ Aggregate
      BY <2>3 DEF Collect, CloseChunk, Aggregate, chunkVars, folded
    <2>4. ASSUME NEW w \in Workers, Work(w) \/ Steal(w)
          PROVE  UNCHANGED <<run, next, kept, discarded, levels>>
      BY <2>4 DEF Work, Steal, DrawA, DrawB, Pass, Begin, folded
    <2>5. CASE UNCHANGED vars
      BY <2>5 DEF vars, chunkVars, folded
    <2> QED
      BY <2>1, <2>2, <2>3, <2>4, <2>5 DEF Next, Main, Return
  <1> QED
    BY <1>1, <1>2, Invariance, PTL DEF Spec, SequentialSpec, InOrder!Spec

-----------------------------------------------------------------------------
(* Samples *)

\* The cumulative weights start at nothing and each row adds the employees it
\* stands for.
LEMMA CumulativeGrows ==
    ASSUME NEW fr \in BOOLEAN, NEW g \in Groups
    PROVE  /\ Cumulative[fr][g][0] = 0
           /\ \A i \in RowsOf(g) :
                 /\ Stands(fr, g)[i] \in Nat
                 /\ Cumulative[fr][g][i]
                      = Cumulative[fr][g][i - 1] + Stands(fr, g)[i]
           /\ \A i, j \in 0..Len(Weights[g]) :
                 /\ Cumulative[fr][g][i] \in Nat
                 /\ i <= j => Cumulative[fr][g][i] <= Cumulative[fr][g][j]
  <1> DEFINE L == Len(Weights[g])
             f == Stands(fr, g)
             C == Cumulative[fr][g]
  <1>1. L \in Nat /\ Weights[g] \in Seq(Nat) /\ RowsOf(g) = 1..L
    BY GroupsTyped DEF RowsOf
  <1>2. \A i \in 1..L : f[i] \in Nat
    BY <1>1 DEF Stands
  <1>3. \A i \in 0..L : C[i] = SumFunctionOnSet(f, 1..i)
    BY DEF Cumulative
  <1> HIDE DEF f, C
  <1>4. ASSUME NEW i \in 0..L PROVE IsFiniteSet(1..i) /\ 1..i \subseteq 1..L
    BY <1>1, FS_Interval
  <1>5. C[0] = 0
    <2>1. 1..0 = {}
      OBVIOUS
    <2> QED
      BY <1>1, <1>3, <2>1, SumEmpty
  <1>6. ASSUME NEW i \in 1..L PROVE C[i] = C[i - 1] + f[i]
    <2>1. i - 1 \in 0..L /\ 1..i = (1..(i - 1)) \cup {i} /\ i \notin 1..(i - 1)
      BY <1>1
    <2>2. \A x \in 1..(i - 1) : f[x] \in Int
      BY <1>2, <1>4, <2>1
    <2>3. i \in 0..L /\ f[i] \in Int
      BY <1>1, <1>2
    <2>4. SumFunctionOnSet(f, (1..(i - 1)) \cup {i})
            = SumFunctionOnSet(f, 1..(i - 1)) + f[i]
      BY <1>4, <2>1, <2>2, <2>3, SumAdd
    <2> QED
      BY <1>3, <2>1, <2>3, <2>4
  <1>7. ASSUME NEW i \in 0..L, NEW j \in 0..L
        PROVE  C[i] \in Nat /\ (i <= j => C[i] <= C[j])
    <2>1. /\ \A x \in 1..i : f[x] \in Nat
          /\ \A x \in 1..j : f[x] \in Nat
      BY <1>2, <1>4
    <2>2. C[i] \in Nat
      BY <1>3, <1>4, <2>1, SumNat
    <2>3. i <= j => 1..i \subseteq 1..j
      BY <1>1
    <2>4. \A T \in SUBSET (1..j) :
             SumFunctionOnSet(f, T) <= SumFunctionOnSet(f, 1..j)
      BY <1>4, <2>1, SumNat
    <2> QED
      BY <1>3, <2>2, <2>3, <2>4
  <1> QED
    BY <1>1, <1>2, <1>5, <1>6, <1>7 DEF f, C

\* Without frequency weights the employees are the rows.
LEMMA UnweightedRows ==
    ASSUME NEW g \in Groups, NEW i \in 0..Len(Weights[g])
    PROVE  Cumulative[FALSE][g][i] = i
  <1> DEFINE L == Len(Weights[g])
             C == Cumulative[FALSE][g]
             Good == {n \in Nat : n <= L => C[n] = n}
  <1>1. L \in Nat /\ RowsOf(g) = 1..L
    BY GroupsTyped DEF RowsOf
  <1>2. C[0] = 0
    BY CumulativeGrows
  <1> HIDE DEF C, L
  <1>3. ASSUME NEW n \in Nat, n \in Good PROVE n + 1 \in Good
    <2> SUFFICES ASSUME n + 1 <= L PROVE C[n + 1] = n + 1
      OBVIOUS
    <2>1. n + 1 \in RowsOf(g) /\ C[n] = n
      BY <1>1, <1>3
    <2>2. C[n + 1] = C[(n + 1) - 1] + Stands(FALSE, g)[n + 1]
      BY <2>1, CumulativeGrows DEF C
    <2>3. Stands(FALSE, g)[n + 1] = 1
      BY <2>1 DEF Stands
    <2>4. (n + 1) - 1 = n
      OBVIOUS
    <2> QED
      BY <2>1, <2>2, <2>3, <2>4
  <1>4. \A n \in Nat : n \in Good
    <2>1. 0 \in Good
      BY <1>2
    <2> HIDE DEF Good
    <2> QED
      BY ONLY <1>3, <2>1, NumberInduction
  <1>5. i \in Nat /\ i <= L
    BY <1>1 DEF L
  <1> QED
    BY <1>4, <1>5 DEF C

\* A draw falls on one row, that whose employees it is among.
LEMMA DrawsFallOnRows ==
    ASSUME NEW fr \in BOOLEAN, NEW g \in Groups,
           NEW u \in 0..(Units(fr, g) - 1)
    PROVE  /\ RowAt(fr, g, u) \in RowsOf(g)
           /\ \A i \in RowsOf(g) :
                 RowAt(fr, g, u) = i
                   <=> Cumulative[fr][g][i - 1] <= u /\ u < Cumulative[fr][g][i]
  <1> DEFINE L == Len(Weights[g])
             C == Cumulative[fr][g]
             S == {i \in RowsOf(g) : C[i] > u}
  <1>1. L \in Nat /\ RowsOf(g) = 1..L /\ Units(fr, g) = C[L]
    BY GroupsTyped DEF RowsOf, Units
  <1>2. /\ C[0] = 0
        /\ \A i, j \in 0..L : C[i] \in Nat /\ (i <= j => C[i] <= C[j])
    BY CumulativeGrows
  <1> HIDE DEF C
  <1>3. u \in Nat /\ u < C[L] /\ L # 0
    BY <1>1, <1>2
  <1>4. CASE fr
    <2>1. L \in S /\ S \subseteq Nat
      BY <1>1, <1>3
    <2>2. PICK m \in S : \A n \in S : m <= n
      BY <2>1, LeastNumber
    <2>3. RowAt(fr, g, u) = Min(S)
      BY <1>4 DEF RowAt, C
    <2>4. Min(S) \in S /\ \A n \in S : Min(S) <= n
      BY <2>2 DEF Min
    <2> DEFINE r == Min(S)
    <2> HIDE DEF S
    <2>5. r \in 1..L /\ C[r] > u /\ \A i \in 1..L : C[i] > u => r <= i
      BY <1>1, <2>4 DEF S
    <2> HIDE DEF r
    <2>6. C[r - 1] <= u
      <3>1. r - 1 \in 0..L
        BY <1>1, <2>5
      <3>2. CASE r = 1
        BY <1>2, <1>3, <3>2
      <3>3. CASE r # 1
        <4>1. r - 1 \in 1..L /\ ~(r <= r - 1)
          BY <1>1, <2>5, <3>3
        <4>2. ~(C[r - 1] > u)
          BY <2>5, <4>1
        <4> QED
          BY <1>2, <1>3, <3>1, <4>2
      <3> QED
        BY <3>2, <3>3
    <2>7. ASSUME NEW i \in 1..L, C[i - 1] <= u, u < C[i] PROVE r = i
      <3>1. r <= i
        BY <1>2, <1>3, <2>5, <2>7
      <3>2. i - 1 \in 0..L /\ r \in 0..L /\ (r < i => r <= i - 1)
        BY <1>1, <2>5
      <3>3. ~(r < i)
        BY <1>2, <1>3, <2>5, <2>7, <3>2
      <3> QED
        BY <2>5, <3>1, <3>3
    <2> QED
      BY <1>1, <1>2, <1>3, <2>3, <2>5, <2>6, <2>7 DEF r, C
  <1>5. CASE ~fr
    <2>1. fr = FALSE
      BY <1>5
    <2>2. \A i \in 0..L : C[i] = i
      BY <2>1, UnweightedRows DEF C
    <2>3. RowAt(fr, g, u) = u + 1
      BY <1>5 DEF RowAt
    <2>4. u < L
      BY <1>1, <1>3, <2>2
    <2>5. u + 1 \in 1..L
      BY <1>1, <1>3, <2>4
    <2>6. \A i \in 1..L : i - 1 \in 0..L /\ i \in 0..L
      BY <1>1
    <2>7. \A i \in 1..L : C[i - 1] = i - 1 /\ C[i] = i
      BY <2>2, <2>6
    <2> QED
      BY <1>1, <1>3, <2>3, <2>5, <2>7 DEF C
  <1> QED
    BY <1>4, <1>5

\* Of the draws that a stream can make, as many fall on a row as the row
\* stands for.
LEMMA RowsAreAsLikely ==
    ASSUME NEW fr \in BOOLEAN, NEW g \in Groups, NEW i \in RowsOf(g)
    PROVE  Cardinality({u \in 0..(Units(fr, g) - 1) : RowAt(fr, g, u) = i})
             = Stands(fr, g)[i]
  <1> DEFINE L == Len(Weights[g])
             C == Cumulative[fr][g]
             D == {u \in 0..(Units(fr, g) - 1) : RowAt(fr, g, u) = i}
  <1>1. L \in Nat /\ RowsOf(g) = 1..L /\ Units(fr, g) = C[L]
    BY GroupsTyped DEF RowsOf, Units
  <1>2. i \in 0..L /\ i - 1 \in 0..L /\ L \in 0..L /\ i <= L
    BY <1>1
  <1>3. /\ C[i] \in Nat /\ C[i - 1] \in Nat /\ C[L] \in Nat /\ C[i] <= C[L]
        /\ Stands(fr, g)[i] \in Nat /\ C[i] = C[i - 1] + Stands(fr, g)[i]
    BY <1>2, CumulativeGrows
  <1>4. \A u \in 0..(C[L] - 1) :
           RowAt(fr, g, u) = i <=> C[i - 1] <= u /\ u < C[i]
    BY <1>1, DrawsFallOnRows
  <1> HIDE DEF C
  <1>5. D = C[i - 1]..(C[i] - 1)
    BY <1>1, <1>3, <1>4, SMTT(30)
  <1>6. Cardinality(C[i - 1]..(C[i] - 1))
          = IF C[i - 1] > C[i] - 1 THEN 0 ELSE (C[i] - 1) - C[i - 1] + 1
    <2>1. C[i - 1] \in Int /\ C[i] - 1 \in Int
      BY <1>3
    <2> QED
      BY <2>1, FS_Interval
  <1> HIDE DEF D
  <1>7. Cardinality(D) = Stands(fr, g)[i]
    BY <1>3, <1>5, <1>6
  <1> QED
    BY <1>7 DEF D

\* A sample has as many employees as its group.
LEMMA SamplesAreWhole ==
    ASSUME NEW r \in Cases, NEW g \in Groups, NEW rep \in 0..(r.reps - 1)
    PROVE  SumFunctionOnSet(Sample(r, g, Stream(rep, g)), RowsOf(g))
             = Units(r.frequency, g)
  <1> DEFINE N == Units(r.frequency, g)
             draw(k) == r.tape[Stream(rep, g)][k]
             h == [k \in 1..N |-> RowAt(r.frequency, g, draw(k))]
  <1>1. r.frequency \in BOOLEAN
    BY CasesTyped
  <1>2. N \in Nat /\ IsFiniteSet(RowsOf(g))
    <2>1. Len(Weights[g]) \in Nat
      BY GroupsTyped
    <2>2. Len(Weights[g]) \in 0..Len(Weights[g])
      BY <2>1
    <2>3. N = Cumulative[r.frequency][g][Len(Weights[g])]
      BY DEF Units
    <2>4. N \in Nat
      BY <1>1, <2>2, <2>3, CumulativeGrows
    <2> QED
      BY <2>1, <2>4, FS_Interval DEF RowsOf
  <1>3. \A k \in 1..N : draw(k) \in 0..(N - 1)
    BY DrawsAreUnits
  <1>4. \A k \in 1..N : h[k] \in RowsOf(g)
    BY <1>1, <1>3, DrawsFallOnRows
  <1>5. Sample(r, g, Stream(rep, g))
          = [i \in RowsOf(g) |-> Cardinality({k \in 1..N : h[k] = i})]
    BY DEF Sample
  <1> HIDE DEF h, N
  <1> QED
    BY <1>2, <1>4, <1>5, HitsAddUp DEF N

\* Every employee is as likely as any other, with frequency weights and
\* without, and a sample is as large as its group, whatever is drawn.
THEOREM EmployeesAlike == Spec => []EmployeesAreEqual
  <1>1. run \in Cases => EmployeesAreEqual
    <2> SUFFICES ASSUME run \in Cases PROVE EmployeesAreEqual
      OBVIOUS
    <2>1. run.frequency \in BOOLEAN
      BY CasesTyped
    <2> QED
      BY <2>1, RowsAreAsLikely, SamplesAreWhole DEF EmployeesAreEqual
  <1> QED
    BY <1>1, Invariance, PTL DEF IInv
=============================================================================
