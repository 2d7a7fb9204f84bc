------------------------- MODULE CommandLine_proofs -------------------------
(***************************************************************************)
(* Theorems about a call of any analysis, by a program or a command.       *)
(*                                                                         *)
(* The simulated quantile decomposition comes to what one thread taking    *)
(* the replicates in order comes to, for every call, any number of         *)
(* replicates, any pool and any nesting of its workers. A command leaves   *)
(* in its files what its exit status says, for every command line, file    *)
(* and list of quantiles, and whichever write fails. And a match weighs    *)
(* every row by its own matches, for every file, number of neighbours and  *)
(* metric; and simulated quantiles compare two groups, or have no error.   *)
(* A builder says of every row what is so of that row, and refuses a level *)
(* as confined to one group exactly when a design collapses, for every     *)
(* file and everything asked of it; and the population whose shares        *)
(* restrict the coefficients is the one that prices. And worker and firm   *)
(* effects are estimated on a largest connected set, where the outcomes    *)
(* fix them, for every panel and however union-find grows and compresses   *)
(* its trees.                                                              *)
(***************************************************************************)
EXTENDS CommandLine, Sums, FiniteSetTheorems, FunctionTheorems, SequenceTheorems,
        TLAPS

-----------------------------------------------------------------------------
(* The replicates of the simulated quantiles *)

\* A replicate's place is empty or holds the outcome of its own two streams.
Places(q, r) == [at : {"waiting", "drawn", "done"}, pass : {<<>>, Replicate(q, r)}]

\* Once the pool has been waited for, every place is filled.
PlacesAreTheirs ==
    /\ study.reps \in Nat
    /\ phase # "point" /\ phase # "refused" =>
          /\ task = [r \in Reps |-> task[r]]
          /\ \A r \in Reps :
                /\ task[r] \in Places(study, r)
                /\ task[r].at = "done" => task[r].pass = Replicate(study, r)
                /\ phase \in {"fold", "done"} => task[r].at = "done"
    /\ phase \in {"point", "refused", "replicate"} => taken = 0
    /\ taken \in 0..study.reps
    /\ phase \in {"point", "refused"} => \A w \in Threads : stack[w] = <<>>

-----------------------------------------------------------------------------

\* A replicate is the pass over what its two streams draw.
LEMMA ReplicateIsInOrder ==
    ASSUME NEW q, NEW r
    PROVE  /\ InOrderOutcome(q, r).ok = (Replicate(q, r).error = "")
           /\ InOrderOutcome(q, r).estimate = Effects(q, Replicate(q, r))
           /\ InOrderOutcome(q, r).lacked = {}
BY DEF InOrderOutcome, Replicate, ReplicateRows, Resampled

\* Of every step of a program, one of the decomposition's or one that leaves
\* it alone.
LEMMA QuantileSteps ==
    ASSUME [CommandLineNext]_allVars
    PROVE  QuantileNext \/ UNCHANGED quantileVars
BY DEF CommandLineNext, allVars, Analyse, CheckMainOptions, ReadData, Configure,
   ExitWith, GoTo, Untouched, AnalysisFails, Deliver, Write, WriteFails,
   NextQuantile, Succeed, Over

\* No call has a negative number of replicates.
LEMMA PlacesInit == CommandLineInit => PlacesAreTheirs
<1> SUFFICES ASSUME CommandLineInit PROVE PlacesAreTheirs
  OBVIOUS
<1>1. ASSUME Analysis # "simulated" PROVE study = NoStudy
  BY <1>1 DEF CommandLineInit, Only
<1>2. ASSUME asked \in Commands PROVE Analysis # "simulated"
  <2>1. /\ asked.verb \in {"run", "report"}
        /\ asked.type \in {"mean", "quantile", "akm", "match"}
    BY <1>2, CommandsTyped
  <2> QED  BY <2>1 DEF Analysis, AnalysisOf
<1>3. ASSUME Analysis = "simulated" PROVE study \in QuantileCalls
  BY <1>2, <1>3 DEF CommandLineInit, LibraryCall, CommandCall
<1>4. study.reps \in Nat
  BY <1>1, <1>3, QuantileCallsTyped DEF NoStudy
<1>5. phase = "point" /\ taken = 0 /\ stack = [w \in Threads |-> <<>>]
  BY DEF CommandLineInit, QuantileInit
<1> QED  BY <1>4, <1>5 DEF PlacesAreTheirs

\* Each action leaves every replicate its own place, whichever worker takes it.
LEMMA PlacesNext ==
    PlacesAreTheirs /\ [CommandLineNext]_allVars => PlacesAreTheirs'
<1> SUFFICES ASSUME PlacesAreTheirs, [CommandLineNext]_allVars
             PROVE  PlacesAreTheirs'
  OBVIOUS
<1>1. CASE UNCHANGED quantileVars
  BY <1>1 DEF quantileVars, poolVars, foldVars, PlacesAreTheirs, Reps, Threads
<1>2. CASE PointPass
  <2>1. /\ UNCHANGED <<study, stack, taken>>
        /\ \/ phase' = "refused" /\ UNCHANGED task
           \/ phase' = "replicate" /\ task' = [r \in Reps |-> Waiting]
        /\ phase = "point"
    BY <1>2 DEF PointPass, foldVars
  <2>2. CASE phase' = "refused"
    BY <2>1, <2>2 DEF PlacesAreTheirs, Threads
  <2>3. CASE phase' = "replicate" /\ task' = [r \in Reps |-> Waiting]
    <3>1. Reps' = Reps
      BY <2>1 DEF Reps
    <3>2. \A r \in Reps : Waiting \in Places(study, r)
      BY DEF Waiting, Places
    <3> QED  BY <2>1, <2>3, <3>1, <3>2 DEF PlacesAreTheirs, Waiting
  <2> QED  BY <2>1, <2>2, <2>3
<1>3. ASSUME NEW w \in Threads, NEW r \in Reps, Begin(w, r)
      PROVE  PlacesAreTheirs'
  <2>1. /\ phase = "replicate" /\ task' = [task EXCEPT ![r].at = "drawn"]
        /\ UNCHANGED <<study, phase, taken>>
    BY <1>3 DEF Begin, foldVars
  <2>2. /\ task = [s \in Reps |-> task[s]]
        /\ \A s \in Reps : task[s] \in Places(study, s)
    BY <2>1 DEF PlacesAreTheirs
  <2>3. /\ task' = [s \in Reps |-> task'[s]]
        /\ \A s \in Reps \ {r} : task'[s] = task[s]
        /\ task'[r] = [task[r] EXCEPT !.at = "drawn"]
    BY <2>1, <2>2
  <2>4. task'[r] \in Places(study, r) /\ task'[r].at = "drawn"
    BY <2>2, <2>3 DEF Places
  <2>5. Reps' = Reps
    BY <2>1 DEF Reps
  <2> QED  BY <2>1, <2>3, <2>4, <2>5 DEF PlacesAreTheirs
<1>4. ASSUME NEW w \in Threads, End(w)
      PROVE  PlacesAreTheirs'
  <2> DEFINE t == Top(w)
             done == [at |-> "done", pass |-> Replicate(study, t)]
  <2>1. /\ task' = [task EXCEPT ![t] = done] /\ stack[w] # <<>>
        /\ UNCHANGED <<study, phase, taken>>
    BY <1>4 DEF End, foldVars
  <2>2. phase \notin {"point", "refused"}
    BY <2>1 DEF PlacesAreTheirs
  <2>3. task = [s \in Reps |-> task[s]]
    BY <2>2 DEF PlacesAreTheirs
  <2>4. /\ task' = [s \in Reps |-> task'[s]]
        /\ \A s \in Reps : task'[s] = IF s = t THEN done ELSE task[s]
    BY <2>1, <2>3
  <2>5. t \in Reps => done \in Places(study, t)
    BY DEF Places
  <2>6. Reps' = Reps
    BY <2>1 DEF Reps
  <2> HIDE DEF t
  <2> QED  BY <2>1, <2>2, <2>4, <2>5, <2>6 DEF PlacesAreTheirs
<1>5. CASE Collect
  <2>1. /\ phase = "replicate" /\ phase' = "fold" /\ UNCHANGED <<study, task, taken>>
        /\ \A r \in Reps : task[r].at = "done"
    BY <1>5 DEF Collect, poolVars, foldVars
  <2>2. Reps' = Reps
    BY <2>1 DEF Reps
  <2> QED  BY <2>1, <2>2 DEF PlacesAreTheirs
<1>6. CASE FoldOutcome \/ Summarise
  <2>1. /\ phase = "fold" /\ phase' \in {"fold", "done"} /\ UNCHANGED <<study, task>>
        /\ taken' = taken \/ (taken < study.reps /\ taken' = taken + 1)
    BY <1>6 DEF FoldOutcome, Summarise, poolVars, foldVars
  <2>2. Reps' = Reps
    BY <2>1 DEF Reps
  <2> QED  BY <2>1, <2>2 DEF PlacesAreTheirs
<1> QED
  BY <1>1, <1>2, <1>3, <1>4, <1>5, <1>6, QuantileSteps DEF QuantileNext, QuantileMain

\* The promise of the code's comment that the outcome does not depend on the
\* schedule, for every call.
THEOREM QuantilesAreSequential == CommandLineSpec => QuantileIsSequential
<1> DEFINE folded == <<study, taken, estimates, discards, {}>>
<1>1. CommandLineInit => InOrder!Init
  BY DEF CommandLineInit, QuantileInit, InOrder!Init
<1>2. PlacesAreTheirs /\ [CommandLineNext]_allVars
         => [InOrder!Keep \/ InOrder!Discard]_folded
  <2> SUFFICES ASSUME PlacesAreTheirs, [CommandLineNext]_allVars
               PROVE  [InOrder!Keep \/ InOrder!Discard]_folded
    OBVIOUS
  <2>1. CASE UNCHANGED quantileVars
    BY <2>1 DEF quantileVars, foldVars
  <2>2. CASE PointPass \/ Collect \/ Summarise
    BY <2>2 DEF PointPass, Collect, Summarise, foldVars
  <2>3. ASSUME NEW w \in Threads, End(w) \/ \E r \in Reps : Begin(w, r)
        PROVE  UNCHANGED folded
    BY <2>3 DEF End, Begin, foldVars
  <2>4. CASE FoldOutcome
    <3>1. phase = "fold" /\ taken < study.reps
      BY <2>4 DEF FoldOutcome
    <3>2. taken \in Reps
      <4>1. study.reps \in Nat /\ taken \in 0..study.reps
        BY DEF PlacesAreTheirs
      <4> QED  BY <3>1, <4>1 DEF Reps
    <3> DEFINE o == InOrderOutcome(study, taken)
               pass == task[taken].pass
    <3>3. /\ o.ok = (pass.error = "") /\ o.estimate = Effects(study, pass)
          /\ o.lacked = {}
      <4>1. task[taken].pass = Replicate(study, taken)
        BY <3>1, <3>2 DEF PlacesAreTheirs
      <4>2. /\ o.ok = (Replicate(study, taken).error = "")
            /\ o.estimate = Effects(study, Replicate(study, taken))
            /\ o.lacked = {}
        BY ONLY ReplicateIsInOrder
      <4> QED  BY <4>1, <4>2
    <3>4. /\ UNCHANGED study /\ taken' = taken + 1
          /\ \/ pass.error = "" /\ estimates' = Append(estimates, Effects(study, pass))
                /\ discards' = discards
             \/ pass.error # "" /\ discards' = discards + 1 /\ estimates' = estimates
      BY <2>4 DEF FoldOutcome
    <3> HIDE DEF o, pass
    <3>5. CASE pass.error = ""
      BY <3>1, <3>3, <3>4, <3>5 DEF InOrder!Keep, o
    <3>6. CASE pass.error # ""
      BY <3>1, <3>3, <3>4, <3>6 DEF InOrder!Discard, o
    <3> QED  BY <3>5, <3>6
  <2> QED
    BY <2>1, <2>2, <2>3, <2>4, QuantileSteps DEF QuantileNext, QuantileMain
<1>3. CommandLineSpec => []PlacesAreTheirs
  BY PlacesInit, PlacesNext, PTL DEF CommandLineSpec
<1> QED
  BY <1>1, <1>2, <1>3, PTL DEF CommandLineSpec, QuantileIsSequential, InOrder!Spec

-----------------------------------------------------------------------------
(* What a command leaves in its files *)

\* The files of the first n turns.
Due(n) == UNION {ToSet(Files(asked, j)) : j \in 1..n}

\* Of the first n turns, a path holds one that writes it.
HoldsTurn(p, n) == \E j \in 1..n : written[p] = j /\ p \in ToSet(Files(asked, j))

\* The turns before this one are written, and this one's files one by one; of
\* these a failure leaves one half-written at most.
Running ==
    /\ exit = {} /\ pending = <<>> /\ DOMAIN written = Due(turn - 1)
    /\ \A p \in DOMAIN written : HoldsTurn(p, turn)
Writing ==
    /\ exit = {} /\ ToSet(pending) \subseteq ToSet(Files(asked, turn))
    /\ DOMAIN written \cup ToSet(pending) = Due(turn)
    /\ Due(turn - 1) \subseteq DOMAIN written
    /\ \A p \in DOMAIN written : HoldsTurn(p, turn)
Succeeded ==
    /\ exit = {0} /\ turn >= Len(Quantiles(asked)) /\ DOMAIN written = Due(turn)
    /\ \A p \in DOMAIN written : HoldsTurn(p, turn)
Failed ==
    /\ exit \in {{1}, {2}}
    /\ Due(turn - 1) \subseteq DOMAIN written /\ DOMAIN written \subseteq Due(turn)
    /\ \/ \A p \in DOMAIN written : HoldsTurn(p, turn)
       \/ /\ exit = {1}
          /\ \E half \in ToSet(Files(asked, turn)) :
                /\ written[half] = 0
                /\ \A p \in DOMAIN written \ {half} : HoldsTurn(p, turn)

\* A command's files, wherever it is.
FilesAreTheirs ==
    /\ IsCommand \/ (at = "analyse" /\ asked.verb = "library")
    /\ IsCommand =>
          /\ asked \in Commands
          /\ pending \in Seq(ToSet(pending))
          /\ turn \in Nat \ {0}
          /\ turn > 1 => turn <= Len(Quantiles(asked))
          /\ written = [p \in DOMAIN written |-> written[p]]
          /\ at \in {"start", "read", "configure", "analyse", "write", "exited"}
          /\ at \in {"start", "read", "configure"} => turn = 1
          /\ at \in {"start", "read", "configure", "analyse"} => Running
          /\ at = "write" => Writing
          /\ at = "exited" => Succeeded \/ Failed
          /\ Analysis = "builder" /\ stage # "done" =>
                /\ at # "write"
                /\ at = "exited" => Failed /\ DOMAIN written = Due(turn - 1)

\* A sequence is one over its own elements.
LEMMA OverItsOwn ==
    ASSUME NEW S, NEW s \in Seq(S)
    PROVE  s \in Seq(ToSet(s))
<1>1. Len(s) \in Nat /\ DOMAIN s = 1..Len(s)
  BY LenProperties
<1>2. \A k \in 1..Len(s) : s[k] \in ToSet(s)
  BY <1>1 DEF ToSet
<1>3. SubSeq(s, 1, Len(s)) \in Seq(ToSet(s))
  BY <1>1, <1>2, SubSeqProperties
<1> QED  BY <1>3, SubSeqFull

\* The first of a sequence, and the rest.
LEMMA HeadAndTail ==
    ASSUME NEW S, NEW s \in Seq(S), s # <<>>
    PROVE  /\ ToSet(s) = {Head(s)} \cup ToSet(Tail(s))
           /\ Tail(s) \in Seq(ToSet(Tail(s)))
<1>1. /\ Len(s) \in Nat /\ DOMAIN s = 1..Len(s) /\ Len(s) # 0
      /\ Head(s) = s[1] /\ Tail(s) \in Seq(S) /\ Len(Tail(s)) = Len(s) - 1
      /\ \A k \in 1..(Len(s) - 1) : Tail(s)[k] = s[k + 1]
  OBVIOUS
<1>2. DOMAIN Tail(s) = 1..(Len(s) - 1)
  BY <1>1
<1>3. ToSet(s) = {Head(s)} \cup ToSet(Tail(s))
  <2>1. ASSUME NEW k \in 1..Len(s) PROVE s[k] \in {Head(s)} \cup ToSet(Tail(s))
    <3>1. CASE k = 1
      BY <1>1, <3>1
    <3>2. CASE k # 1
      <4>1. k - 1 \in 1..(Len(s) - 1) /\ Tail(s)[k - 1] = s[k]
        BY <1>1, <3>2
      <4> QED  BY <1>2, <4>1 DEF ToSet
    <3> QED  BY <3>1, <3>2
  <2>2. ASSUME NEW k \in 1..(Len(s) - 1) PROVE Tail(s)[k] \in ToSet(s)
    <3>1. k + 1 \in 1..Len(s)
      BY <1>1
    <3> QED  BY <1>1, <3>1 DEF ToSet
  <2>3. Head(s) \in ToSet(s)
    BY <1>1 DEF ToSet
  <2> QED  BY <1>1, <1>2, <2>1, <2>2, <2>3 DEF ToSet
<1> QED  BY <1>1, <1>3, OverItsOwn

\* The files of a turn are a sequence.
LEMMA FilesAreASequence ==
    ASSUME NEW c \in Commands, NEW k
    PROVE  Files(c, k) \in Seq(ToSet(Files(c, k)))
<1> DEFINE j == JsonPath(c, k)
           S == {j, <<"markdown">>, <<"html">>}
           Json == IF Given(c, "output-json") THEN <<j>> ELSE <<>>
           Markdown == IF Given(c, "output-markdown") THEN <<<<"markdown">>>> ELSE <<>>
<1>1. \A p \in S : <<p>> \in Seq(S)
  <2> HIDE DEF S
  <2> QED  OBVIOUS
<1>2. j \in S /\ <<"markdown">> \in S /\ <<"html">> \in S
  OBVIOUS
<1>3. <<j>> \in Seq(S) /\ <<<<"markdown">>>> \in Seq(S) /\ <<<<"html">>>> \in Seq(S)
  <2> HIDE DEF S, j
  <2> QED  BY <1>1, <1>2
<1>4. <<>> \in Seq(S)
  BY EmptySeq
<1>5. Json \in Seq(S) /\ Markdown \in Seq(S)
  <2> HIDE DEF S, j
  <2> QED  BY <1>3, <1>4
<1>6. Json \o Markdown \in Seq(S)
  <2> HIDE DEF S, Json, Markdown
  <2> QED  BY <1>5, ConcatProperties
<1>7. Files(c, k) \in {<<<<"html">>>>, Json \o Markdown, Json, <<>>}
  <2>1. /\ c.verb \in {"run", "report"}
        /\ c.type \in {"mean", "quantile", "akm", "match"}
    BY CommandsTyped
  <2>2. c.verb = "report" => Files(c, k) = <<<<"html">>>>
    BY DEF Files
  <2>3. c.verb = "run" /\ c.type = "mean" => Files(c, k) = Json \o Markdown
    BY DEF Files
  <2>4. c.verb = "run" /\ c.type \in {"quantile", "match"} => Files(c, k) = Json
    BY DEF Files
  <2>5. c.verb = "run" /\ c.type = "akm" => Files(c, k) = <<>>
    BY DEF Files
  <2> HIDE DEF Json, Markdown
  <2> QED  BY <2>1, <2>2, <2>3, <2>4, <2>5
<1> DEFINE f == Files(c, k)
<1>8. f \in Seq(S)
  <2> HIDE DEF S, Json, Markdown
  <2> QED  BY <1>3, <1>4, <1>5, <1>6, <1>7
<1> HIDE DEF f, S
<1>9. f \in Seq(ToSet(f))
  BY <1>8, OverItsOwn
<1> QED  BY <1>9 DEF f

\* What a turn adds to what is due.
LEMMA DueGrows ==
    ASSUME NEW n \in Nat \ {0}
    PROVE  Due(n) = Due(n - 1) \cup ToSet(Files(asked, n))
<1>1. 1..n = 1..(n - 1) \cup {n}
  OBVIOUS
<1> QED  BY <1>1 DEF Due

\* A turn's entry is one of a later range too.
LEMMA HeldOnward ==
    ASSUME NEW n \in Nat, NEW p, HoldsTurn(p, n)
    PROVE  HoldsTurn(p, n + 1)
<1>1. 1..n \subseteq 1..(n + 1)
  OBVIOUS
<1> QED  BY <1>1 DEF HoldsTurn

\* A command begins with nothing written; a program's call has no files.
LEMMA FilesInit == CommandLineInit => FilesAreTheirs
<1> SUFFICES ASSUME CommandLineInit PROVE FilesAreTheirs
  OBVIOUS
<1>1. /\ exit = {} /\ turn = 1 /\ pending = <<>> /\ written = <<>>
      /\ LibraryCall \/ CommandCall
  BY DEF CommandLineInit
<1>2. CASE LibraryCall
  BY <1>2 DEF LibraryCall, FilesAreTheirs, IsCommand
<1>3. CASE CommandCall
  <2>1. asked \in Commands /\ at = "start"
    BY <1>3 DEF CommandCall
  <2>2. IsCommand
    BY <2>1, CommandsTyped DEF IsCommand
  <2>3. DOMAIN written = {} /\ written = [p \in DOMAIN written |-> written[p]]
    BY <1>1
  <2>4. Due(turn - 1) = {}
    BY <1>1 DEF Due
  <2>5. Running
    BY <1>1, <2>3, <2>4 DEF Running
  <2>6. pending \in Seq(ToSet(pending))
    BY <1>1, EmptySeq
  <2> QED  BY <1>1, <2>1, <2>2, <2>3, <2>5, <2>6 DEF FilesAreTheirs
<1> QED  BY <1>1, <1>2, <1>3

\* What is due depends on the command alone.
LEMMA DueFrozen ==
    ASSUME UNCHANGED asked
    PROVE  /\ \A n : Due(n)' = Due(n)
           /\ \A c, n : Files(c, n)' = Files(c, n)
           /\ IsCommand' = IsCommand /\ Analysis' = Analysis
BY DEF Due, IsCommand, Analysis

\* A file written, whole or half.
LEMMA OneMoreFile ==
    ASSUME NEW content, WriteNext(content)
    PROVE  /\ DOMAIN written' = DOMAIN written \cup {Head(pending)}
           /\ written' = [p \in DOMAIN written' |-> written'[p]]
           /\ written'[Head(pending)] = content
           /\ \A p \in DOMAIN written \ {Head(pending)} : written'[p] = written[p]
BY DEF WriteNext

\* Before the writing the command only goes on or gives up.
LEMMA FilesBeforeWriting ==
    ASSUME FilesAreTheirs, CheckMainOptions \/ ReadData \/ Configure \/ AnalysisFails
    PROVE  FilesAreTheirs'
<1>1. /\ UNCHANGED <<asked, turn, pending, written, stage>>
      /\ at \in {"start", "read", "configure", "analyse"} /\ IsCommand
      /\ \/ /\ at' \in {"read", "configure", "analyse"} /\ UNCHANGED exit
            /\ at' # "analyse" => turn = 1
         \/ at' = "exited" /\ exit' \in {{1}, {2}}
  BY DEF CheckMainOptions, ReadData, Configure, AnalysisFails, ExitWith, GoTo,
     Untouched, prepVars, vars, FilesAreTheirs
<1>2. \A n : Due(n)' = Due(n)
  BY <1>1, DueFrozen
<1>3. \A p, n : HoldsTurn(p, n)' <=> HoldsTurn(p, n)
  BY <1>1 DEF HoldsTurn
<1>4. Running /\ turn \in Nat \ {0}
  BY <1>1 DEF FilesAreTheirs
<1>5. Due(turn - 1) \subseteq Due(turn)
  BY <1>4, DueGrows
<1>6. at' = "exited" => Failed'
  BY <1>1, <1>2, <1>3, <1>4, <1>5 DEF Running, Failed
<1>7. at' # "exited" => Running'
  BY <1>1, <1>2, <1>3, <1>4 DEF Running
<1>8. DOMAIN written' = Due(turn - 1)'
  BY <1>1, <1>2, <1>4 DEF Running
<1>9. Analysis' = Analysis /\ IsCommand'
  BY <1>1 DEF Analysis, IsCommand
<1> QED
  BY <1>1, <1>6, <1>7, <1>8, <1>9 DEF FilesAreTheirs

\* The quantiles of a command are a sequence of thousandths.
LEMMA QuantilesAreASequence ==
    ASSUME NEW c \in Commands
    PROVE  /\ Quantiles(c) \in Seq(Int) /\ Len(Quantiles(c)) \in Nat
           /\ DOMAIN Quantiles(c) = 1..Len(Quantiles(c))
<1>1. c.quantiles \in Seq(Int)
  BY CommandsTyped
<1>2. <<100, 250, 500, 750, 900>> \in Seq(Int)
  OBVIOUS
<1>3. Quantiles(c) \in Seq(Int)
  BY <1>1, <1>2, EmptySeq DEF Quantiles
<1> QED  BY <1>3, LenProperties

\* The analysis and the writing, file by file.
LEMMA FilesThroughWriting ==
    ASSUME FilesAreTheirs, Analyse \/ Deliver \/ Write \/ WriteFails
    PROVE  FilesAreTheirs'
<1>1. CASE Analyse
  <2>1. at = "analyse" /\ UNCHANGED cliVars
    BY <1>1 DEF Analyse
  <2>2. Running' <=> Running
    BY <2>1, DueFrozen DEF Running, HoldsTurn, cliVars
  <2>3. UNCHANGED <<asked, at, exit, turn, pending, written>>
    BY <2>1 DEF cliVars
  <2> QED
    BY <2>1, <2>2, <2>3 DEF FilesAreTheirs, IsCommand
<1>2. CASE ~Analyse
  <2>1. IsCommand /\ asked \in Commands
    BY <1>2 DEF Deliver, Write, WriteFails, FilesAreTheirs
  <2>2. UNCHANGED <<asked, turn, stage>>
    BY <1>2 DEF Deliver, Write, WriteFails, Untouched, prepVars, vars
  <2>3. \A n : Due(n)' = Due(n) /\ Files(asked, n)' = Files(asked, n)
    BY <2>2, DueFrozen
  <2>4. IsCommand' /\ Analysis' = Analysis
    BY <2>1, <2>2 DEF IsCommand, Analysis
  <2>5. turn \in Nat \ {0} /\ Due(turn) = Due(turn - 1) \cup ToSet(Files(asked, turn))
    BY <2>1, DueGrows DEF FilesAreTheirs
  <2>6. CASE Deliver
    <3>1. /\ at = "analyse" /\ at' = "write" /\ Place = "done"
          /\ pending' = Files(asked, turn) /\ UNCHANGED <<exit, written>>
      BY <2>6 DEF Deliver
    <3>2. \A p, n : HoldsTurn(p, n)' <=> HoldsTurn(p, n)
      BY <2>2, <3>1 DEF HoldsTurn
    <3>3. Writing'
      BY <2>1, <2>2, <2>3, <2>5, <3>1, <3>2 DEF FilesAreTheirs, Running, Writing
    <3>4. pending' \in Seq(ToSet(pending'))
      BY <2>1, <3>1, FilesAreASequence
    <3>5. Analysis = "builder" => stage = "done"
      BY <3>1 DEF Place
    <3> QED
      BY <2>1, <2>2, <2>4, <3>1, <3>3, <3>4, <3>5 DEF FilesAreTheirs
  <2>7. ASSUME NEW content, WriteNext(content), at = "write", pending # <<>>
        PROVE  /\ DOMAIN written \subseteq DOMAIN written'
               /\ DOMAIN written' \subseteq Due(turn)
               /\ Head(pending) \in ToSet(Files(asked, turn))
               /\ DOMAIN written' \cup ToSet(Tail(pending)) = Due(turn)
               /\ ToSet(Tail(pending)) \subseteq ToSet(pending)
               /\ Tail(pending) \in Seq(ToSet(Tail(pending)))
    <3>1. pending \in Seq(ToSet(pending)) /\ Writing
      BY <2>1, <2>7 DEF FilesAreTheirs
    <3>2. /\ ToSet(pending) = {Head(pending)} \cup ToSet(Tail(pending))
          /\ Tail(pending) \in Seq(ToSet(Tail(pending)))
      BY <2>7, <3>1, HeadAndTail
    <3>3. DOMAIN written' = DOMAIN written \cup {Head(pending)}
      BY <2>7, OneMoreFile
    <3> QED
      BY <3>1, <3>2, <3>3 DEF Writing
  <2>8. CASE Write
    <3>1. /\ at = "write" /\ pending # <<>> /\ WriteNext(turn)
          /\ pending' = Tail(pending) /\ UNCHANGED <<at, exit>>
      BY <2>8 DEF Write
    <3>2. Writing /\ at' = "write"
      BY <2>1, <3>1 DEF FilesAreTheirs
    <3>3. /\ DOMAIN written \subseteq DOMAIN written'
          /\ DOMAIN written' \subseteq Due(turn)
          /\ Head(pending) \in ToSet(Files(asked, turn))
          /\ DOMAIN written' \cup ToSet(Tail(pending)) = Due(turn)
          /\ ToSet(Tail(pending)) \subseteq ToSet(pending)
          /\ Tail(pending) \in Seq(ToSet(Tail(pending)))
      BY <2>7, <3>1
    <3>4. ASSUME NEW p \in DOMAIN written' PROVE HoldsTurn(p, turn)'
      <4>1. CASE p = Head(pending)
        <5>1. written'[p] = turn /\ turn \in 1..turn
          BY <2>5, <3>1, <4>1, OneMoreFile
        <5> QED  BY <2>2, <3>3, <4>1, <5>1 DEF HoldsTurn
      <4>2. CASE p # Head(pending)
        <5>1. written'[p] = written[p] /\ p \in DOMAIN written
          BY <3>1, <4>2, OneMoreFile
        <5>2. HoldsTurn(p, turn)
          BY <3>2, <5>1 DEF Writing
        <5> QED  BY <2>2, <5>1, <5>2 DEF HoldsTurn
      <4> QED  BY <4>1, <4>2
    <3>5. Writing'
      BY <2>2, <2>3, <3>1, <3>2, <3>3, <3>4 DEF Writing
    <3>6. written' = [p \in DOMAIN written' |-> written'[p]]
      BY <3>1, OneMoreFile
    <3> QED
      BY <2>1, <2>2, <2>4, <3>1, <3>2, <3>3, <3>5, <3>6 DEF FilesAreTheirs
  <2>9. CASE WriteFails
    <3>1. /\ at = "write" /\ pending # <<>> /\ at' = "exited" /\ exit' = {1}
          /\ UNCHANGED pending /\ Writing
          /\ WriteNext(0) \/ UNCHANGED written
      BY <2>1, <2>9 DEF WriteFails, FilesAreTheirs
    <3>2. CASE UNCHANGED written
      <4>1. \A p, n : HoldsTurn(p, n)' <=> HoldsTurn(p, n)
        BY <2>2, <3>2 DEF HoldsTurn
      <4>2. Failed'
        BY <2>2, <2>3, <3>1, <3>2, <4>1 DEF Failed, Writing
      <4> QED
        BY <2>1, <2>2, <2>4, <3>1, <3>2, <4>2 DEF FilesAreTheirs
    <3>3. CASE WriteNext(0)
      <4>1. /\ DOMAIN written \subseteq DOMAIN written'
            /\ DOMAIN written' \subseteq Due(turn)
            /\ Head(pending) \in ToSet(Files(asked, turn))
        BY <2>7, <3>1, <3>3
      <4>2. written'[Head(pending)] = 0
        BY <3>3, OneMoreFile
      <4>3. ASSUME NEW p \in DOMAIN written' \ {Head(pending)} PROVE HoldsTurn(p, turn)'
        <5>1. written'[p] = written[p] /\ p \in DOMAIN written
          BY <3>3, OneMoreFile
        <5>2. HoldsTurn(p, turn)
          BY <3>1, <5>1 DEF Writing
        <5> QED  BY <2>2, <5>1, <5>2 DEF HoldsTurn
      <4>4. PICK half \in ToSet(Files(asked, turn))' :
                /\ written'[half] = 0
                /\ \A p \in DOMAIN written' \ {half} : HoldsTurn(p, turn)'
        BY <2>3, <2>2, <4>1, <4>2, <4>3
      <4>5. Failed'
        BY <2>2, <2>3, <3>1, <4>1, <4>4 DEF Failed, Writing
      <4>6. written' = [p \in DOMAIN written' |-> written'[p]]
        BY <3>3, OneMoreFile
      <4> QED
        BY <2>1, <2>2, <2>4, <3>1, <4>5, <4>6 DEF FilesAreTheirs
    <3> QED  BY <3>1, <3>2, <3>3
  <2> QED  BY <1>2, <2>6, <2>8, <2>9
<1> QED  BY <1>1, <1>2

\* The next quantile begins with the files of those before it, and the last
\* one ends with all of them.
LEMMA FilesAfterWriting ==
    ASSUME FilesAreTheirs, NextQuantile \/ Succeed \/ UNCHANGED allVars
    PROVE  FilesAreTheirs'
<1>1. CASE UNCHANGED allVars
  <2>1. UNCHANGED <<asked, at, exit, turn, pending, written, stage>>
    BY <1>1 DEF allVars, cliVars, vars, prepVars
  <2>2. \A n : Due(n)' = Due(n) /\ Files(asked, n)' = Files(asked, n)
    BY <2>1, DueFrozen
  <2>3. \A p, n : HoldsTurn(p, n)' <=> HoldsTurn(p, n)
    BY <2>1 DEF HoldsTurn
  <2>4. /\ Running' <=> Running
        /\ Writing' <=> Writing
        /\ Succeeded' <=> Succeeded
        /\ Failed' <=> Failed
    BY <2>1, <2>2, <2>3 DEF Running, Writing, Succeeded, Failed
  <2> QED
    BY <2>1, <2>2, <2>4 DEF FilesAreTheirs, IsCommand, Analysis
<1>2. CASE NextQuantile \/ Succeed
  <2>1. /\ at = "write" /\ pending = <<>> /\ UNCHANGED <<asked, pending, written>>
    BY <1>2 DEF NextQuantile, Succeed, ExitWith
  <2>2. IsCommand /\ asked \in Commands /\ Writing /\ turn \in Nat \ {0}
    BY <2>1 DEF FilesAreTheirs
  <2>3. \A n : Due(n)' = Due(n) /\ Files(asked, n)' = Files(asked, n)
    BY <2>1, DueFrozen
  <2>4. \A p, n : HoldsTurn(p, n)' <=> HoldsTurn(p, n)
    BY <2>1 DEF HoldsTurn
  <2>5. ToSet(pending) = {}
    BY <2>1 DEF ToSet
  <2>6. DOMAIN written = Due(turn)
    BY <2>2, <2>5 DEF Writing
  <2>7. IsCommand' /\ Analysis' = Analysis
    BY <2>1, <2>2 DEF IsCommand, Analysis
  <2>8. CASE NextQuantile
    <3>1. /\ turn < Len(Quantiles(asked)) /\ turn' = turn + 1 /\ at' = "analyse"
          /\ UNCHANGED exit
      BY <2>8 DEF NextQuantile
    <3>2. \A p \in DOMAIN written : HoldsTurn(p, turn + 1)
      BY <2>2, HeldOnward DEF Writing
    <3>3. turn' - 1 = turn
      BY <2>2, <3>1
    <3>4. Running'
      BY <2>1, <2>2, <2>3, <2>4, <2>6, <3>1, <3>2, <3>3 DEF Running, Writing
    <3>5. Len(Quantiles(asked)) \in Nat
      BY <2>2, QuantilesAreASequence
    <3>6. turn' \in Nat \ {0} /\ turn' <= Len(Quantiles(asked))
      BY <2>2, <3>1, <3>5
    <3> QED
      BY <2>1, <2>2, <2>7, <3>1, <3>4, <3>6 DEF FilesAreTheirs
  <2>9. CASE Succeed
    <3>1. /\ turn >= Len(Quantiles(asked)) /\ UNCHANGED turn /\ at' = "exited"
          /\ exit' = {0} /\ UNCHANGED stage
      BY <2>9 DEF Succeed, ExitWith, Untouched, vars, prepVars
    <3>2. Succeeded'
      BY <2>1, <2>2, <2>3, <2>4, <2>6, <3>1 DEF Succeeded, Writing
    <3> QED
      BY <2>1, <2>2, <2>7, <3>1, <3>2 DEF FilesAreTheirs
  <2> QED  BY <1>2, <2>8, <2>9
<1> QED  BY <1>1, <1>2

\* No step of a command puts into a file what is another's.
LEMMA FilesNext == FilesAreTheirs /\ [CommandLineNext]_allVars => FilesAreTheirs'
BY FilesBeforeWriting, FilesThroughWriting, FilesAfterWriting DEF CommandLineNext, Over

\* A command for several quantiles writes figures alone, one path to a turn.
LEMMA JsonAlone ==
    ASSUME NEW c \in Commands, Quantiles(c) # <<>>, Given(c, "output-json"), NEW k
    PROVE  ToSet(Files(c, k)) = {JsonPath(c, k)}
<1>1. c.verb = "run" /\ c.type = "quantile"
  BY CommandsTyped DEF Quantiles
<1>2. Files(c, k) = <<JsonPath(c, k)>>
  BY <1>1 DEF Files
<1> DEFINE j == JsonPath(c, k)
<1> HIDE DEF j
<1>3. ToSet(<<j>>) = {j}
  BY DEF ToSet
<1> QED  BY <1>2, <1>3 DEF j

\* Two quantiles share a path exactly when they agree to two decimals.
LEMMA SharedPath ==
    ASSUME NEW c \in Commands, NEW j \in DOMAIN Quantiles(c),
           NEW k \in DOMAIN Quantiles(c)
    PROVE  JsonPath(c, j) = JsonPath(c, k)
              <=> Hundredths(Quantiles(c)[j]) = Hundredths(Quantiles(c)[k])
<1>1. /\ Len(Quantiles(c)) \in Nat
      /\ DOMAIN Quantiles(c) = 1..Len(Quantiles(c))
  BY QuantilesAreASequence
<1>2. CASE Len(Quantiles(c)) > 1
  BY <1>2 DEF JsonPath
<1>3. CASE ~(Len(Quantiles(c)) > 1)
  <2>1. j = k
    BY <1>1, <1>3
  <2> QED  BY <2>1
<1> QED  BY <1>2, <1>3

\* There are as many paths as quantiles that differ in two decimals.
LEMMA AsManyPaths ==
    ASSUME NEW c \in Commands
    PROVE  Cardinality({JsonPath(c, k) : k \in DOMAIN Quantiles(c)})
           = Cardinality({Hundredths(Quantiles(c)[k]) : k \in DOMAIN Quantiles(c)})
<1> DEFINE q == Quantiles(c)
           D == DOMAIN q
           P == {JsonPath(c, k) : k \in D}
           H == {Hundredths(q[k]) : k \in D}
           f == [p \in P |-> Hundredths(q[CHOOSE k \in D : JsonPath(c, k) = p])]
<1>1. D = 1..Len(q) /\ Len(q) \in Nat
  BY QuantilesAreASequence
<1>2. ASSUME NEW k \in D PROVE f[JsonPath(c, k)] = Hundredths(q[k])
  <2> DEFINE p == JsonPath(c, k)
             l == CHOOSE l \in D : JsonPath(c, l) = p
  <2>1. l \in D /\ JsonPath(c, l) = p
    OBVIOUS
  <2>2. Hundredths(q[l]) = Hundredths(q[k])
    <3> HIDE DEF l
    <3> QED  BY <2>1, SharedPath
  <2>3. p \in P
    OBVIOUS
  <2> QED  BY <2>2, <2>3
<1>3. DOMAIN f = P
  OBVIOUS
<1>4. f \in [P -> H]
  <2>1. f = [p \in P |-> f[p]]
    OBVIOUS
  <2>2. \A p \in P : f[p] \in H
    <3> HIDE DEF f
    <3> QED  BY <1>2
  <2> HIDE DEF f, P, H
  <2> QED  BY <2>1, <2>2
<1>5. \A x, y \in P : f[x] = f[y] => x = y
  <2> SUFFICES ASSUME NEW i \in D, NEW j \in D,
                      f[JsonPath(c, i)] = f[JsonPath(c, j)]
               PROVE  JsonPath(c, i) = JsonPath(c, j)
    BY DEF P
  <2> HIDE DEF f
  <2>1. Hundredths(q[i]) = Hundredths(q[j])
    BY <1>2
  <2> QED  BY <2>1, SharedPath
<1>6. \A h \in H : \E p \in P : f[p] = h
  <2>1. ASSUME NEW h \in H PROVE \E p \in P : f[p] = h
    <3> HIDE DEF f
    <3>1. PICK k \in D : h = Hundredths(q[k])
      OBVIOUS
    <3>2. JsonPath(c, k) \in P /\ f[JsonPath(c, k)] = h
      BY <1>2, <3>1
    <3> QED  BY <3>2
  <2> HIDE DEF f, H
  <2> QED  BY <2>1
<1>7. f \in Bijection(P, H)
  <2> HIDE DEF f, P, H
  <2> QED  BY <1>4, <1>5, <1>6 DEF Bijection, Injection, Surjection, IsInjective
<1>8. IsFiniteSet(P)
  <2>1. IsFiniteSet(D)
    BY <1>1, FS_Interval
  <2> DEFINE g == [k \in D |-> JsonPath(c, k)]
  <2>2. g \in Surjection(D, P)
    BY DEF Surjection
  <2> HIDE DEF g, P, D
  <2> QED  BY <2>1, <2>2, FS_Surjection
<1> HIDE DEF f, P, H
<1>9. Cardinality(H) = Cardinality(P)
  BY <1>7, <1>8, FS_Bijection DEF ExistsBijection
<1> QED  BY <1>9 DEF P, H

\* The files of a command that is over are those promised.
LEMMA FilesPromised == FilesAreTheirs => OutputsAreTheirs
<1> SUFFICES ASSUME FilesAreTheirs, at = "exited" PROVE OutputsAreTheirs
  BY DEF OutputsAreTheirs
<1> DEFINE whole == {p \in DOMAIN written : written[p] # 0}
           torn == DOMAIN written \ whole
           taus == Quantiles(asked)
           Same(j, k) == Hundredths(taus[j]) = Hundredths(taus[k])
           complete == IF exit = {0} THEN Len(taus) ELSE turn - 1
           n == Len(taus)
<1>1. /\ asked \in Commands /\ turn \in Nat \ {0}
      /\ Succeeded \/ Failed
      /\ turn > 1 => turn <= Len(taus)
  BY DEF FilesAreTheirs
<1>2. /\ n \in Nat /\ DOMAIN taus = 1..n
      /\ n = 0 <=> taus = <<>>
      /\ turn > 1 => turn <= n
      /\ complete = IF exit = {0} THEN n ELSE turn - 1
  <2>1. taus \in Seq(Int) /\ n \in Nat /\ DOMAIN taus = 1..n
    BY <1>1, QuantilesAreASequence
  <2>2. n = 0 <=> taus = <<>>
    BY <2>1, EmptySeq
  <2> QED  BY <1>1, <2>1, <2>2
<1>3. \A j, k \in DOMAIN taus :
          JsonPath(asked, j) = JsonPath(asked, k) <=> Same(j, k)
  BY <1>1, SharedPath
<1>4. Cardinality({JsonPath(asked, k) : k \in DOMAIN taus})
      = Cardinality({Hundredths(taus[k]) : k \in DOMAIN taus})
  BY <1>1, AsManyPaths
<1>5. taus # <<>> /\ Given(asked, "output-json") =>
          \A j : ToSet(Files(asked, j)) = {JsonPath(asked, j)}
  BY <1>1, JsonAlone
<1>6. Succeeded => turn >= n
  BY DEF Succeeded
<1> HIDE DEF taus, n, Same, complete
<1>7. \A p \in DOMAIN written : HoldsTurn(p, turn) => p \in whole
  BY <1>1 DEF HoldsTurn
<1>8. {0} # {1} /\ {0} # {2}
  OBVIOUS
<1>9. /\ exit = {0} => Succeeded
      /\ Succeeded => exit = {0}
  BY <1>1, <1>8 DEF Succeeded, Failed
<1>10. Succeeded => torn = {}
  BY <1>7 DEF Succeeded
<1>11. \/ torn = {}
       \/ exit = {1} /\ \E half \in ToSet(Files(asked, turn)) : torn = {half}
  <2>1. CASE Succeeded
    BY <1>10, <2>1
  <2>2. CASE Failed
    <3>1. CASE \A p \in DOMAIN written : HoldsTurn(p, turn)
      <4>1. torn = {}
        BY <1>7, <3>1
      <4> QED  BY <4>1
    <3>2. ASSUME NEW half \in ToSet(Files(asked, turn)), exit = {1}, written[half] = 0,
                 \A p \in DOMAIN written \ {half} : HoldsTurn(p, turn)
          PROVE  torn = {} \/ torn = {half}
      <4>1. torn \subseteq {half}
        BY <1>7, <3>2
      <4> QED  BY <4>1
    <3> QED  BY <2>2, <3>1, <3>2 DEF Failed
  <2> QED  BY <1>1, <2>1, <2>2
<1>12. Cardinality(torn) <= IF exit = {0} THEN 0 ELSE 1
  <2>1. Cardinality({}) = 0 /\ \A x : Cardinality({x}) = 1
    BY FS_EmptySet, FS_Singleton
  <2>2. 0 <= 1
    OBVIOUS
  <2> HIDE DEF torn
  <2>3. Cardinality(torn) = 0 \/ (exit = {1} /\ Cardinality(torn) = 1)
    BY <1>11, <2>1
  <2> QED  BY <1>8, <1>9, <1>10, <2>1, <2>2, <2>3
<1>13. ASSUME taus # <<>>, Given(asked, "output-json")
      PROVE  /\ \A k \in 1..complete : \/ \E p \in whole : Same(written[p], k)
                                       \/ exit = {1} /\ Same(turn, k)
             /\ exit = {0} => Cardinality(whole)
                    = Cardinality({Hundredths(taus[k]) : k \in DOMAIN taus})
  <2>1. n > 0
    BY <1>2, <1>13
  <2>2. \A j : ToSet(Files(asked, j)) = {JsonPath(asked, j)}
    BY <1>5, <1>13
  <2>3. turn \in 1..n
    BY <1>1, <1>2, <2>1
  <2>4. /\ complete \in 0..n
        /\ exit = {0} => turn = n /\ complete = turn
        /\ exit # {0} => complete = turn - 1
    BY <1>2, <1>6, <1>9, <2>3
  <2>5. Due(complete) \subseteq DOMAIN written
    BY <1>1, <1>9, <2>4 DEF Succeeded, Failed
  <2>6. ASSUME NEW p, HoldsTurn(p, turn)
        PROVE  /\ written[p] \in DOMAIN taus
               /\ p = JsonPath(asked, written[p])
    <3>1. PICK j \in 1..turn : written[p] = j /\ p \in ToSet(Files(asked, j))
      BY <2>6 DEF HoldsTurn
    <3>2. j \in 1..n
      BY <1>2, <2>3
    <3> QED  BY <1>2, <2>2, <3>1, <3>2
  <2>7. ASSUME NEW k \in 1..complete
        PROVE  \/ \E p \in whole : Same(written[p], k)
               \/ exit = {1} /\ Same(turn, k)
    <3> DEFINE p == JsonPath(asked, k)
    <3>1. p \in Due(complete)
      BY <2>2 DEF Due
    <3>2. p \in DOMAIN written
      BY <2>5, <3>1
    <3>3. k \in DOMAIN taus /\ turn \in DOMAIN taus
      BY <1>2, <2>3, <2>4
    <3>4. CASE p \in torn
      <4>1. exit = {1} /\ p = JsonPath(asked, turn)
        BY <1>11, <2>2, <3>4
      <4>2. Same(turn, k)
        BY <1>3, <3>3, <4>1
      <4> QED  BY <4>1, <4>2
    <3>5. CASE p \notin torn
      <4>1. p \in whole
        BY <3>2, <3>5
      <4>2. HoldsTurn(p, turn)
        BY <1>1, <4>1 DEF Succeeded, Failed
      <4>3. written[p] \in DOMAIN taus /\ p = JsonPath(asked, written[p])
        BY <2>6, <4>2
      <4>4. Same(written[p], k)
        BY <1>3, <3>3, <4>3
      <4> QED  BY <4>1, <4>4
    <3> QED  BY <3>4, <3>5
  <2>8. ASSUME exit = {0}
        PROVE  Cardinality(whole)
               = Cardinality({Hundredths(taus[k]) : k \in DOMAIN taus})
    <3>1. whole = DOMAIN written /\ DOMAIN written = Due(turn) /\ turn = n
      BY <1>9, <1>10, <2>4, <2>8 DEF Succeeded
    <3>2. Due(n) = {JsonPath(asked, k) : k \in DOMAIN taus}
      BY <1>2, <2>2 DEF Due
    <3>3. whole = {JsonPath(asked, k) : k \in DOMAIN taus}
      BY <3>1, <3>2
    <3> QED  BY <1>4, <3>3
  <2> QED  BY <2>7, <2>8
<1>14. ASSUME exit = {0}, taus = <<>>
      PROVE  DOMAIN written = ToSet(Files(asked, 1))
  <2>1. turn = 1
    BY <1>1, <1>2, <1>14
  <2>2. Due(1) = ToSet(Files(asked, 1))
    BY DEF Due
  <2> QED  BY <1>9, <1>14, <2>1, <2>2 DEF Succeeded
<1>15. ASSUME stage # "done", turn = 1, Analysis = "builder"
       PROVE  written = <<>>
  <2>1. DOMAIN written = Due(turn - 1) /\ written = [p \in DOMAIN written |-> written[p]]
    BY <1>15 DEF FilesAreTheirs
  <2>2. Due(turn - 1) = {}
    BY <1>15 DEF Due
  <2> QED  BY <2>1, <2>2
<1> QED
  BY <1>12, <1>13, <1>14, <1>15 DEF OutputsAreTheirs, taus, complete, Same

\* For every command, file and list of quantiles, and wherever a write fails:
\* what exit status 0 promises is in the files, and what a failure leaves is
\* that of the quantiles before it.
THEOREM OutputsHold == CommandLineSpec => []OutputsAreTheirs
<1>1. CommandLineSpec => []FilesAreTheirs
  BY FilesInit, FilesNext, PTL DEF CommandLineSpec
<1> QED  BY <1>1, FilesPromised, PTL

-----------------------------------------------------------------------------
(* Positions in their order *)

\* Finitely many numbers, each with as many of them below it as Ascending has
\* it: the smaller has fewer, and each count is met.
LEMMA RanksAreMet ==
    ASSUME NEW S, S \subseteq Int, IsFiniteSet(S)
    PROVE  LET Below(x) == Cardinality({y \in S : y < x})
           IN  /\ Cardinality(S) \in Nat
               /\ \A x \in S : Below(x) \in 0..(Cardinality(S) - 1)
               /\ \A x, z \in S : x < z => Below(x) < Below(z)
               /\ \A k \in 1..Cardinality(S) : \E x \in S : Below(x) = k - 1
<1> DEFINE Below(x) == Cardinality({y \in S : y < x})
           n == Cardinality(S)
           rank == [x \in S |-> Below(x)]
<1>0. \A y \in S : y \in Int
  OBVIOUS
<1>1. n \in Nat
  BY FS_CardinalityType
<1>2. ASSUME NEW x \in S
      PROVE  IsFiniteSet({y \in S : y < x}) /\ Below(x) \in 0..(n - 1)
  <2>1. IsFiniteSet(S \ {x}) /\ Cardinality(S \ {x}) = n - 1
    BY FS_RemoveElement
  <2>2. {y \in S : y < x} \in SUBSET (S \ {x})
    OBVIOUS
  <2>3. /\ IsFiniteSet({y \in S : y < x})
        /\ Cardinality({y \in S : y < x}) <= n - 1
    BY <2>1, <2>2, FS_Subset
  <2>4. Cardinality({y \in S : y < x}) \in Nat
    BY <2>3, FS_CardinalityType
  <2> QED  BY <1>1, <2>3, <2>4
<1>3. ASSUME NEW x \in S, NEW z \in S, x < z PROVE Below(x) < Below(z)
  <2> DEFINE X == {y \in S : y < x}
             Z == {y \in S : y < z}
  <2>1. IsFiniteSet(X) /\ IsFiniteSet(Z) /\ x \notin X
    BY <1>2
  <2>2. X \cup {x} \in SUBSET Z
    <3>1. \A y \in S : y < x => y < z
      BY <1>0, <1>3
    <3> QED  BY <1>3, <3>1
  <2>3. Cardinality(X \cup {x}) = Cardinality(X) + 1
    BY <2>1, FS_AddElement
  <2>4. Cardinality(X \cup {x}) <= Cardinality(Z)
    BY <2>1, <2>2, FS_Subset
  <2>5. Cardinality(X) \in Nat /\ Cardinality(Z) \in Nat
    BY <2>1, FS_CardinalityType
  <2> QED  BY <2>3, <2>4, <2>5
<1> HIDE DEF Rank
<1>4. rank \in Injection(S, 0..(n - 1))
  <2>1. rank \in [S -> 0..(n - 1)]
    BY <1>2
  <2>2. ASSUME NEW x \in S, NEW z \in S, rank[x] = rank[z] PROVE x = z
    <3>1. Below(x) = Below(z)
      BY <2>2
    <3>2. Below(x) \in 0..(n - 1) /\ n \in Nat
      BY <1>1, <1>2
    <3>3. ~(x < z) /\ ~(z < x)
      BY <1>3, <3>1, <3>2
    <3> QED  BY <1>0, <3>3
  <2> QED  BY <2>1, <2>2 DEF Injection, IsInjective
<1>5. IsFiniteSet(0..(n - 1)) /\ Cardinality(0..(n - 1)) = n
  <2>1. n - 1 \in Int
    BY <1>1
  <2> QED  BY <1>1, <2>1, FS_Interval
<1>6. rank \in Surjection(S, 0..(n - 1))
  BY <1>4, <1>5, FS_Injection
<1>7. ASSUME NEW k \in 1..n PROVE \E x \in S : Below(x) = k - 1
  <2>1. k - 1 \in 0..(n - 1)
    BY <1>1
  <2>2. PICK x \in S : rank[x] = k - 1
    BY <1>6, <2>1 DEF Surjection
  <2> QED  BY <2>2
<1> QED  BY <1>1, <1>2, <1>3, <1>7 DEF Rank

\* Ascending(S) goes through S once, upwards.
LEMMA AscendingEnumerates ==
    ASSUME NEW S, S \subseteq Int, IsFiniteSet(S)
    PROVE  /\ Cardinality(S) \in Nat
           /\ Ascending(S) \in [1..Cardinality(S) -> S]
           /\ \A i, j \in 1..Cardinality(S) : i < j => Ascending(S)[i] < Ascending(S)[j]
           /\ \A x \in S : \E k \in 1..Cardinality(S) : Ascending(S)[k] = x
<1> DEFINE Below(x) == Cardinality({y \in S : y < x})
           n == Cardinality(S)
           s == Ascending(S)
<1>0. \A y \in S : y \in Int
  OBVIOUS
<1>1. /\ n \in Nat
      /\ \A x \in S : Below(x) \in 0..(n - 1)
      /\ \A x, z \in S : x < z => Below(x) < Below(z)
      /\ \A k \in 1..n : \E x \in S : Below(x) = k - 1
  BY RanksAreMet
<1>2. s = [k \in 1..n |-> CHOOSE x \in S : Below(x) = k - 1]
  BY DEF Ascending
<1> HIDE DEF Rank, s, n
<1>3. ASSUME NEW k \in 1..n PROVE s[k] \in S /\ Below(s[k]) = k - 1
  BY <1>1, <1>2
<1>4. s \in [1..n -> S]
  BY <1>2, <1>3
<1>5. ASSUME NEW x \in S, NEW z \in S, Below(x) = Below(z) PROVE x = z
  <2>1. Below(x) \in Int
    BY <1>1
  <2>2. ~(Below(x) < Below(z)) /\ ~(Below(z) < Below(x))
    BY <1>5, <2>1
  <2>3. ~(x < z) /\ ~(z < x)
    BY <1>1, <2>2
  <2> QED  BY <1>0, <2>3
<1>6. ASSUME NEW i \in 1..n, NEW j \in 1..n, i < j PROVE s[i] < s[j]
  <2>1. s[i] \in S /\ s[j] \in S
    BY <1>3
  <2>2. Below(s[i]) = i - 1 /\ Below(s[j]) = j - 1 /\ i \in Int /\ j \in Int
    BY <1>1, <1>3
  <2>3. s[i] # s[j]
    BY <1>6, <2>2
  <2>4. ~(s[j] < s[i])
    <3>1. ~(j - 1 < i - 1)
      BY <1>6, <2>2
    <3> QED  BY <1>1, <2>1, <2>2, <3>1
  <2>5. s[i] \in Int /\ s[j] \in Int
    BY <1>0, <2>1
  <2> QED  BY <2>3, <2>4, <2>5
<1>7. ASSUME NEW x \in S PROVE \E k \in 1..n : s[k] = x
  <2>1. Below(x) + 1 \in 1..n
    BY <1>1
  <2>2. Below(s[Below(x) + 1]) = Below(x) /\ s[Below(x) + 1] \in S
    <3>1. Below(x) \in Int
      BY <1>1
    <3>2. Below(s[Below(x) + 1]) = (Below(x) + 1) - 1 /\ s[Below(x) + 1] \in S
      BY <1>3, <2>1
    <3> QED  BY <3>1, <3>2
  <2>3. s[Below(x) + 1] = x
    BY <1>5, <2>2
  <2> QED  BY <2>1, <2>3
<1> QED  BY <1>1, <1>4, <1>6, <1>7 DEF n, s

\* Whatever goes through S once, upwards, is Ascending(S).
LEMMA AscendingIsOne ==
    ASSUME NEW S, S \subseteq Int, NEW n \in Nat, NEW s \in [1..n -> S],
           \A i, j \in 1..n : i < j => s[i] < s[j],
           \A x \in S : \E k \in 1..n : s[k] = x
    PROVE  IsFiniteSet(S) /\ Cardinality(S) = n /\ s = Ascending(S)
<1>0. /\ \A k \in 1..n : s[k] \in S /\ s[k] \in Int /\ k \in Int
      /\ \A y \in S : y \in Int
  <2>1. \A k \in 1..n : s[k] \in S
    OBVIOUS
  <2>2. \A k \in 1..n : k \in Int
    OBVIOUS
  <2>3. \A y \in S : y \in Int
    OBVIOUS
  <2> QED  BY <2>1, <2>2, <2>3
<1>1. IsFiniteSet(S) /\ Cardinality(S) = n
  <2>1. IsFiniteSet(1..n) /\ Cardinality(1..n) = n
    BY FS_Interval
  <2>2. s \in Surjection(1..n, S)
    BY DEF Surjection
  <2>3. ASSUME NEW i \in 1..n, NEW j \in 1..n, s[i] = s[j] PROVE i = j
    <3>1. ~(s[i] < s[j]) /\ ~(s[j] < s[i])
      BY <1>0, <2>3
    <3>2. ~(i < j) /\ ~(j < i)
      BY <3>1
    <3> QED  BY <1>0, <3>2
  <2>4. s \in Injection(1..n, S)
    BY <2>3 DEF Injection, IsInjective
  <2> QED  BY <2>1, <2>2, <2>4, FS_Surjection
<1>2. ASSUME NEW k \in 1..n PROVE s[k] = Ascending(S)[k]
  <2> DEFINE Below(x) == Cardinality({y \in S : y < x})
  <2>0. \A i, j \in 1..n : s[i] = s[j] => i = j
    <3> SUFFICES ASSUME NEW i \in 1..n, NEW j \in 1..n, s[i] = s[j] PROVE i = j
      OBVIOUS
    <3>1. ~(s[i] < s[j]) /\ ~(s[j] < s[i])
      BY <1>0
    <3>2. ~(i < j) /\ ~(j < i)
      BY <3>1
    <3> QED  BY <1>0, <3>2
  <2>1. {y \in S : y < s[k]} = {s[i] : i \in 1..(k - 1)}
    <3>1. ASSUME NEW i \in 1..n PROVE s[i] < s[k] <=> i < k
      <4>1. CASE i < k
        BY <4>1
      <4>2. CASE i = k
        BY <1>0, <4>2
      <4>3. CASE k < i
        <5>1. s[k] < s[i]
          BY <4>3
        <5> QED  BY <1>0, <4>3, <5>1
      <4> QED  BY <1>0, <4>1, <4>2, <4>3
    <3>2. \A i : i \in 1..(k - 1) <=> i \in 1..n /\ i < k
      OBVIOUS
    <3>3. \A y \in S : \E i \in 1..n : s[i] = y
      OBVIOUS
    <3> QED  BY <1>0, <3>1, <3>2, <3>3
  <2>2. Below(s[k]) = k - 1
    <3> DEFINE part == [i \in 1..(k - 1) |-> s[i]]
               P == {s[i] : i \in 1..(k - 1)}
    <3>1. IsFiniteSet(1..(k - 1)) /\ Cardinality(1..(k - 1)) = k - 1
      BY FS_Interval
    <3>2. part \in Surjection(1..(k - 1), P)
      BY DEF Surjection
    <3>3. ASSUME NEW i \in 1..(k - 1), NEW j \in 1..(k - 1), part[i] = part[j]
          PROVE  i = j
      <4>1. i \in 1..n /\ j \in 1..n
        OBVIOUS
      <4>2. s[i] = s[j]
        BY <3>3
      <4> QED  BY <2>0, <4>1, <4>2
    <3>4. part \in Injection(1..(k - 1), P)
      BY <3>3 DEF Injection, IsInjective
    <3>5. Cardinality(P) = k - 1
      BY <3>1, <3>2, <3>4, FS_Surjection
    <3> QED  BY <2>1, <3>5
  <2>3. \A x, z \in S : x < z => Below(x) < Below(z)
    BY <1>1, RanksAreMet
  <2>5. Ascending(S)[k] = CHOOSE x \in S : Below(x) = k - 1
    BY <1>1 DEF Ascending
  <2> HIDE DEF Below
  <2>6. ASSUME NEW x \in S, Below(x) = k - 1 PROVE x = s[k]
    <3>1. s[k] \in S /\ Below(x) = Below(s[k]) /\ k - 1 \in Int
      BY <1>0, <2>2, <2>6
    <3>2. ~(Below(x) < Below(s[k])) /\ ~(Below(s[k]) < Below(x))
      BY <2>2, <2>6, <3>1
    <3>3. ~(x < s[k]) /\ ~(s[k] < x)
      BY <2>3, <3>1, <3>2
    <3> QED  BY <1>0, <3>1, <3>3
  <2> QED  BY <2>2, <2>5, <2>6
<1>3. Ascending(S) = [k \in 1..n |-> Ascending(S)[k]]
  <2> DEFINE Ranked(k) == CHOOSE x \in S : Cardinality({y \in S : y < x}) = k - 1
  <2>1. Ascending(S) = [k \in 1..n |-> Ranked(k)]
    BY <1>1 DEF Ascending
  <2> HIDE DEF Ranked
  <2> QED  BY <2>1
<1> QED  BY <1>1, <1>2, <1>3

-----------------------------------------------------------------------------
(* Matching *)

RowsWith(v) == {i \in DOMAIN Sample : Sample[i].treat = {v}}

\* A row is matched as nearly with those of Others as with row c, or nearer;
\* more nearly with those of Nearer.
Others(t, c) == {d \in RowsWith(0) \ {c} : Gap(t, d) <= Gap(t, c)}
Nearer(t, c) == {d \in RowsWith(0) : Gap(t, d) < Gap(t, c)}
Surely(t, c) == Cardinality(Others(t, c)) < query.k
Perhaps(t, c) == Cardinality(Nearer(t, c)) < query.k
Neighbours == Min({query.k, Len(Controls)})
SureRows(c) == {t \in RowsWith(1) : Surely(t, c)}
PerhapsRows(c) == {t \in RowsWith(1) : Perhaps(t, c)}

\* The call is one, and the scores are those of levels.
QueryTyped ==
    /\ query.k \in Nat
    /\ query.sample \in Seq([treat : SUBSET Int, x : SUBSET (Int \X Int),
                             y : SUBSET Int])
ScoresAreLevels ==
    leg \in {"measure", "match", "done"} /\ query.method = "psm" =>
        \A i \in DOMAIN Sample : scores[i] \subseteq Int \X Int

\* What a distance is taken of, once the tree stands.
Measurable ==
    /\ \A i \in DOMAIN Sample : Features(i) \subseteq Int \X Int
    /\ \A c \in RowsWith(0) : Features(c) # {}

\* The treated rows matched so far, by place, and what their matches come to.
SureOf(k) == {j \in 1..matched : Surely(Treated[j], Controls[k])}
PerhapsOf(k) == {j \in 1..matched : Perhaps(Treated[j], Controls[k])}
Shared ==
    /\ Measurable
    /\ matched \in 0..Len(Treated)
    /\ tally \in [DOMAIN Controls -> Nat]
    /\ \A k \in DOMAIN Controls : /\ Cardinality(SureOf(k)) <= tally[k]
                                  /\ tally[k] <= Cardinality(PerhapsOf(k))
    /\ SumFunctionOnSet(tally, DOMAIN Controls) = matched * Neighbours

\* What the weights are to be (WeightsAreOfNearest).
AsNearest ==
    /\ DOMAIN weights = DOMAIN Sample
    /\ \A i \in RowsWith(1) : weights[i] = FullWeight
    /\ \A c \in RowsWith(0) :
          /\ Cardinality(SureRows(c)) <= weights[c]
          /\ weights[c] <= Cardinality(PerhapsRows(c))
    /\ \A i \in DOMAIN Sample \ (RowsWith(1) \cup RowsWith(0)) : weights[i] = 0
    /\ SumFunctionOnSet(weights, RowsWith(0)) = Cardinality(RowsWith(1)) * Neighbours

MatchKept ==
    /\ QueryTyped /\ ScoresAreLevels
    /\ leg \in {"prepare", "score", "measure"} => matched = 0
    /\ leg = "match" => Shared
    /\ leg = "done" => AsNearest

\* The rows of a treatment, one place each and in their order.
LEMMA RowsInPlace ==
    ASSUME QueryTyped, NEW v
    PROVE  /\ IsFiniteSet(RowsWith(v)) /\ RowsWith(v) \subseteq DOMAIN Sample
           /\ Len(RowsTreated(v)) = Cardinality(RowsWith(v)) /\ Len(RowsTreated(v)) \in Nat
           /\ RowsTreated(v) \in [1..Len(RowsTreated(v)) -> RowsWith(v)]
           /\ DOMAIN RowsTreated(v) = 1..Len(RowsTreated(v))
           /\ \A i, j \in 1..Len(RowsTreated(v)) :
                 RowsTreated(v)[i] = RowsTreated(v)[j] => i = j
           /\ RowsWith(v) = {RowsTreated(v)[k] : k \in 1..Len(RowsTreated(v))}
<1> DEFINE S == RowsWith(v)
           s == RowsTreated(v)
<1>1. DOMAIN Sample = 1..Len(Sample) /\ Len(Sample) \in Nat
  BY DEF QueryTyped, Sample
<1>2. IsFiniteSet(S) /\ S \subseteq DOMAIN Sample /\ S \subseteq Int
  <2>1. IsFiniteSet(DOMAIN Sample)
    BY <1>1, FS_Interval
  <2>2. S \in SUBSET DOMAIN Sample
    BY DEF RowsWith
  <2>3. \A i \in DOMAIN Sample : i \in Int
    BY <1>1
  <2> QED  BY <2>1, <2>2, <2>3, FS_Subset
<1>3. s = Ascending(S)
  BY DEF RowsTreated, RowsWith
<1> HIDE DEF S
<1> DEFINE n == Cardinality(S)
<1>4. /\ n \in Nat /\ s \in [1..n -> S]
      /\ \A i, j \in 1..n : i < j => s[i] < s[j]
      /\ \A x \in S : \E k \in 1..n : s[k] = x
  BY <1>2, <1>3, AscendingEnumerates
<1> HIDE DEF s, n
<1>5. s \in Seq(S) /\ Len(s) = n /\ DOMAIN s = 1..n
  BY <1>4
<1>6. ASSUME NEW i \in 1..n, NEW j \in 1..n, s[i] = s[j] PROVE i = j
  <2>1. s[i] \in Int /\ s[j] \in Int /\ i \in Int /\ j \in Int
    <3>1. s[i] \in S /\ s[j] \in S
      BY <1>4
    <3>2. i \in Int /\ j \in Int
      OBVIOUS
    <3> QED  BY <1>2, <3>1, <3>2
  <2>2. ~(s[i] < s[j]) /\ ~(s[j] < s[i])
    BY <1>6, <2>1
  <2>3. ~(i < j) /\ ~(j < i)
    BY <1>4, <2>2
  <2> QED  BY <2>1, <2>3
<1>7. S = {s[k] : k \in 1..n}
  BY <1>4
<1> QED  BY <1>2, <1>4, <1>5, <1>6, <1>7 DEF S, s, n

\* A cell that is not blank holds what it holds.
LEMMA SomeIsOne == \A S : S # {} => Some(S) \in S
BY DEF Some

\* A row's covariates are a point, or blank.
LEMMA CellsArePoints ==
    ASSUME QueryTyped, NEW i \in DOMAIN Sample
    PROVE  Sample[i].x \in SUBSET (Int \X Int)
<1> DEFINE Row == [treat : SUBSET Int, x : SUBSET (Int \X Int), y : SUBSET Int]
<1>1. Sample \in Seq(Row)
  BY DEF QueryTyped, Sample
<1>2. Sample[i] \in Row
  <2> HIDE DEF Row
  <2> QED  BY <1>1
<1> QED  BY <1>2

\* The covariances are whole, of controls without a blank.
LEMMA CovariancesAreWhole ==
    ASSUME QueryTyped, \A c \in RowsWith(0) : Sample[c].x # {},
           NEW a \in {1, 2}, NEW b \in {1, 2}
    PROVE  Covariance(a, b) \in Int
<1> DEFINE K == DOMAIN Controls
           points == [k \in K |-> Some(Sample[Controls[k]].x)]
           of(c) == [k \in K |-> points[k][c]]
           both == [k \in K |-> of(a)[k] * of(b)[k]]
<1>1. IsFiniteSet(K) /\ K = 1..Len(Controls) /\ Len(Controls) \in Nat
  <2>1. K = 1..Len(Controls) /\ Len(Controls) \in Nat
    BY RowsInPlace DEF Controls
  <2>2. IsFiniteSet(1..Len(Controls))
    BY <2>1, FS_Interval
  <2> QED  BY <2>1, <2>2
<1>2. ASSUME NEW k \in K PROVE points[k] \in Int \X Int
  <2>1. Controls[k] \in RowsWith(0) /\ Controls[k] \in DOMAIN Sample
    BY <1>1, RowsInPlace DEF Controls
  <2>2. Sample[Controls[k]].x \in SUBSET (Int \X Int)
    BY <2>1, CellsArePoints
  <2> QED  BY <2>1, <2>2, SomeIsOne
<1>3. points \in Seq(Int \X Int) /\ Len(points) = Len(Controls)
  BY <1>1, <1>2
<1> HIDE DEF points
<1>4. \A c \in {1, 2} : \A k \in K : of(c)[k] \in Int
  BY <1>2
<1> HIDE DEF of
<1>5. \A k \in K : both[k] \in Int
  BY <1>4
<1> HIDE DEF both, K
<1>6. /\ SumFunctionOnSet(both, K) \in Int
      /\ SumFunctionOnSet(of(a), K) \in Int /\ SumFunctionOnSet(of(b), K) \in Int
  BY <1>1, <1>4, <1>5, SumInt
<1>7. Covariance(a, b) = Len(points) * SumFunctionOnSet(both, K)
                         - SumFunctionOnSet(of(a), K) * SumFunctionOnSet(of(b), K)
  <2>1. DOMAIN points = K
    BY DEF points
  <2>2. \A c : of(c) = [k \in DOMAIN points |-> points[k][c]]
    BY <2>1 DEF of
  <2>3. both = [k \in DOMAIN points |-> [l \in DOMAIN points |-> points[l][a]][k]
                                        * [l \in DOMAIN points |-> points[l][b]][k]]
    BY <2>1, <2>2 DEF both
  <2>4. points = [k \in DOMAIN Controls |-> Some(Sample[Controls[k]].x)]
    BY DEF points, K
  <2> QED  BY <2>1, <2>2, <2>3, <2>4 DEF Covariance
<1>8. Len(points) \in Int
  BY <1>1, <1>3
<1> QED  BY <1>6, <1>7, <1>8

\* How far a row is from a control is a whole number.
LEMMA GapsAreWhole ==
    ASSUME QueryTyped, Measurable,
           NEW t \in DOMAIN Sample, Features(t) # {}, NEW c \in RowsWith(0)
    PROVE  Gap(t, c) \in Int
<1>1. ASSUME NEW p \in Int \X Int, NEW q \in Int \X Int PROVE Distance(p, q) \in Int
  <2> DEFINE d == p[1] - q[1]
             e == p[2] - q[2]
  <2>1. d \in Int /\ e \in Int
    OBVIOUS
  <2>2. CASE query.method # "mahalanobis"
    <3>1. Distance(p, q) = d * d + e * e
      BY <2>2 DEF Distance
    <3> HIDE DEF d, e
    <3> QED  BY <2>1, <3>1
  <2>3. CASE query.method = "mahalanobis"
    <3>1. \A i \in RowsWith(0) : Sample[i].x # {}
      BY <2>3 DEF Measurable, Features
    <3>2. /\ Covariance(2, 2) \in Int /\ Covariance(1, 2) \in Int
          /\ Covariance(1, 1) \in Int
      BY <3>1, CovariancesAreWhole
    <3>3. Distance(p, q) = Covariance(2, 2) * d * d - 2 * Covariance(1, 2) * d * e
                           + Covariance(1, 1) * e * e
      BY <2>3 DEF Distance
    <3> HIDE DEF d, e
    <3>4. /\ Covariance(2, 2) * d * d \in Int /\ 2 * Covariance(1, 2) * d * e \in Int
          /\ Covariance(1, 1) * e * e \in Int
      BY <2>1, <3>2
    <3> QED  BY <3>3, <3>4
  <2> QED  BY <2>2, <2>3
<1> DEFINE D == {Distance(p, q) : p \in Features(t), q \in Features(c)}
<1>2. D # {} /\ D \subseteq Int
  <2>1. Features(c) # {} /\ c \in DOMAIN Sample
    BY DEF Measurable, RowsWith
  <2>2. Features(t) \subseteq Int \X Int /\ Features(c) \subseteq Int \X Int
    BY <2>1 DEF Measurable
  <2>3. PICK p \in Features(t), q \in Features(c) : TRUE
    BY <2>1
  <2>4. Distance(p, q) \in D
    OBVIOUS
  <2>5. D \subseteq Int
    BY <1>1, <2>2
  <2> QED  BY <2>4, <2>5
<1>3. Gap(t, c) = Some(D)
  BY DEF Gap
<1> HIDE DEF D
<1> QED  BY <1>2, <1>3, SomeIsOne

\* A control that is surely a match is one, and a match is perhaps one.
LEMMA MatchesAreNear ==
    ASSUME QueryTyped, Measurable,
           NEW t \in DOMAIN Sample, Features(t) # {},
           NEW S \in Nearest(t), NEW k \in DOMAIN Controls
    PROVE  /\ Surely(t, Controls[k]) => k \in S
           /\ k \in S => Perhaps(t, Controls[k])
           /\ S \subseteq DOMAIN Controls /\ Cardinality(S) = Neighbours
<1> DEFINE n == Len(Controls)
           c == Controls[k]
           RowsAt(T) == {Controls[l] : l \in T}
<1>1. /\ n \in Nat /\ DOMAIN Controls = 1..n
      /\ \A i, j \in 1..n : Controls[i] = Controls[j] => i = j
      /\ RowsWith(0) = RowsAt(1..n) /\ \A l \in 1..n : Controls[l] \in RowsWith(0)
      /\ IsFiniteSet(RowsWith(0))
  BY RowsInPlace DEF Controls
<1>2. IsFiniteSet(1..n) /\ Cardinality(1..n) = n
  <2>1. n \in Nat
    BY <1>1
  <2> HIDE DEF n
  <2> QED  BY <2>1, FS_Interval
<1>3. /\ S \subseteq 1..n /\ Cardinality(S) = Neighbours
      /\ \A in \in S, out \in (1..n) \ S : Gap(t, Controls[in]) <= Gap(t, Controls[out])
  BY <1>1 DEF Nearest, kSubset, Neighbours
<1>4. /\ query.k \in Nat /\ Neighbours \in {query.k, n}
      /\ Neighbours <= query.k /\ Neighbours <= n
  <2>1. query.k \in Nat
    BY DEF QueryTyped
  <2>2. Neighbours = Min({query.k, n})
    BY DEF Neighbours
  <2>3. \E x \in {query.k, n} : \A y \in {query.k, n} : x =< y
    BY <1>1, <2>1
  <2> QED  BY <2>1, <2>2, <2>3 DEF Min
<1>5. \A d \in RowsWith(0) : Gap(t, d) \in Int
  BY GapsAreWhole
<1>6. ASSUME NEW T \in SUBSET (1..n)
      PROVE  IsFiniteSet(RowsAt(T)) /\ Cardinality(RowsAt(T)) = Cardinality(T)
             /\ IsFiniteSet(T) /\ Cardinality(T) \in Nat
  <2>1. IsFiniteSet(T) /\ Cardinality(T) \in Nat
    BY <1>2, FS_Subset, FS_CardinalityType
  <2>2. \A i, j \in T : Controls[i] = Controls[j] => i = j
    BY <1>1
  <2> QED  BY <2>1, <2>2, ImageCounts
<1>7. k \in 1..n /\ c \in RowsWith(0)
  BY <1>1
<1>8. ASSUME Surely(t, c), k \notin S PROVE FALSE
  <2>1. RowsAt(S) \subseteq Others(t, c)
    <3> SUFFICES ASSUME NEW l \in S PROVE Controls[l] \in Others(t, c)
      OBVIOUS
    <3>1. l \in 1..n /\ l # k
      BY <1>3, <1>8
    <3>2. Controls[l] # c /\ Controls[l] \in RowsWith(0)
      BY <1>1, <1>7, <3>1
    <3>3. Gap(t, Controls[l]) <= Gap(t, c)
      BY <1>3, <1>7, <1>8
    <3> QED  BY <3>2, <3>3 DEF Others
  <2>2. IsFiniteSet(Others(t, c))
    <3>1. Others(t, c) \in SUBSET RowsWith(0)
      BY DEF Others
    <3> QED  BY <1>1, <3>1, FS_Subset
  <2>3. Cardinality(RowsAt(S)) <= Cardinality(Others(t, c))
    BY <2>1, <2>2, FS_Subset
  <2>4. Cardinality(Others(t, c)) \in Nat
    BY <2>2, FS_CardinalityType
  <2>5. Neighbours < query.k
    <3>1. Cardinality(RowsAt(S)) = Cardinality(S)
      BY <1>3, <1>6
    <3>2. Cardinality(Others(t, c)) < query.k
      BY <1>8 DEF Surely
    <3>3. Neighbours <= Cardinality(Others(t, c)) /\ Neighbours \in Int
      BY <1>1, <1>3, <1>4, <2>3, <3>1
    <3> QED  BY <1>4, <2>4, <3>2, <3>3
  <2>6. Cardinality(S) = Cardinality(1..n)
    BY <1>2, <1>3, <1>4, <2>5
  <2>7. S = 1..n
    BY <1>2, <1>3, <2>6, FS_Subset
  <2> QED  BY <1>7, <1>8, <2>7
<1>9. ASSUME k \in S PROVE Perhaps(t, c)
  <2>1. Nearer(t, c) \subseteq RowsAt(S \ {k})
    <3> SUFFICES ASSUME NEW d \in Nearer(t, c) PROVE d \in RowsAt(S \ {k})
      OBVIOUS
    <3>1. d \in RowsWith(0) /\ Gap(t, d) < Gap(t, c)
      BY DEF Nearer
    <3>2. PICK l \in 1..n : d = Controls[l]
      BY <1>1, <3>1
    <3>3. Gap(t, d) \in Int /\ Gap(t, c) \in Int
      BY <1>5, <1>7, <3>1
    <3>4. l # k
      BY <3>1, <3>2, <3>3
    <3>5. ~(Gap(t, c) <= Gap(t, d))
      BY <3>1, <3>3
    <3>6. l \in S
      BY <1>3, <1>9, <3>2, <3>5
    <3> QED  BY <3>2, <3>4, <3>6
  <2>2. Cardinality(S \ {k}) = Cardinality(S) - 1 /\ IsFiniteSet(S)
    BY <1>3, <1>6, <1>9, FS_RemoveElement
  <2>3. IsFiniteSet(RowsAt(S \ {k})) /\ Cardinality(RowsAt(S \ {k})) = Cardinality(S) - 1
    <3>1. S \ {k} \in SUBSET (1..n)
      BY <1>3
    <3> QED  BY <1>6, <2>2, <3>1
  <2>4. /\ Cardinality(Nearer(t, c)) <= Cardinality(S) - 1
        /\ Cardinality(Nearer(t, c)) \in Nat
    BY <2>1, <2>3, FS_Subset, FS_CardinalityType
  <2> QED  BY <1>3, <1>4, <2>4, <1>1 DEF Perhaps
<1> QED  BY <1>1, <1>3, <1>8, <1>9

\* Distances and matches are of the call and its scores alone.
LEMMA QueryFrozen ==
    ASSUME UNCHANGED <<query, scores>>
    PROVE  /\ Sample' = Sample /\ Controls' = Controls /\ Treated' = Treated
           /\ \A v : RowsWith(v)' = RowsWith(v)
           /\ \A i : Features(i)' = Features(i)
           /\ \A t, c : Gap(t, c)' = Gap(t, c)
           /\ \A t, c : Surely(t, c)' = Surely(t, c) /\ Perhaps(t, c)' = Perhaps(t, c)
           /\ \A k : /\ SureOf(k)' = {j \in 1..matched' : Surely(Treated[j], Controls[k])}
                     /\ PerhapsOf(k)' = {j \in 1..matched' : Perhaps(Treated[j], Controls[k])}
           /\ \A c : SureRows(c)' = SureRows(c) /\ PerhapsRows(c)' = PerhapsRows(c)
           /\ Neighbours' = Neighbours /\ FullWeight' = FullWeight
<1>1. Sample' = Sample
  BY DEF Sample
<1>2. Controls' = Controls /\ Treated' = Treated
  BY <1>1 DEF Controls, Treated, RowsTreated
<1>3. ASSUME NEW v PROVE RowsWith(v)' = RowsWith(v)
  BY <1>1 DEF RowsWith
<1>4. ASSUME NEW i PROVE Features(i)' = Features(i)
  BY <1>1 DEF Features
<1>5. ASSUME NEW a, NEW b PROVE Covariance(a, b)' = Covariance(a, b)
  BY <1>1, <1>2 DEF Covariance
<1>6. ASSUME NEW p, NEW q PROVE Distance(p, q)' = Distance(p, q)
  BY <1>5 DEF Distance
<1>7. ASSUME NEW t, NEW c PROVE Gap(t, c)' = Gap(t, c)
  <2> DEFINE D == {Distance(p, q) : p \in Features(t), q \in Features(c)}
  <2>1. D' = D
    BY <1>4, <1>6
  <2>2. Gap(t, c) = Some(D) /\ Gap(t, c)' = Some(D')
    BY DEF Gap
  <2> HIDE DEF D
  <2> QED  BY <2>1, <2>2
<1>8. ASSUME NEW t, NEW c
      PROVE  Surely(t, c)' = Surely(t, c) /\ Perhaps(t, c)' = Perhaps(t, c)
  <2>1. Others(t, c)' = Others(t, c)
    BY <1>3, <1>7 DEF Others
  <2>2. Nearer(t, c)' = Nearer(t, c)
    BY <1>3, <1>7 DEF Nearer
  <2> QED  BY <2>1, <2>2 DEF Surely, Perhaps
<1>9. Neighbours' = Neighbours
  BY <1>2 DEF Neighbours
<1>10. ASSUME NEW k
       PROVE  /\ SureOf(k)' = {j \in 1..matched' : Surely(Treated[j], Controls[k])}
              /\ PerhapsOf(k)' = {j \in 1..matched' : Perhaps(Treated[j], Controls[k])}
  BY <1>2, <1>8 DEF SureOf, PerhapsOf
<1>11. ASSUME NEW c
       PROVE  SureRows(c)' = SureRows(c) /\ PerhapsRows(c)' = PerhapsRows(c)
  BY <1>3, <1>8 DEF SureRows, PerhapsRows
<1>12. FullWeight' = FullWeight
  BY DEF FullWeight
<1> QED  BY <1>1, <1>2, <1>3, <1>4, <1>7, <1>8, <1>9, <1>10, <1>11, <1>12

\* The weights are of the nearest, in the words of the property.
LEMMA NearestInOtherWords ==
    ASSUME QueryTyped, leg = "done" => AsNearest
    PROVE  WeightsAreOfNearest
<1> SUFFICES ASSUME leg = "done" PROVE WeightsAreOfNearest
  BY DEF WeightsAreOfNearest
<1> DEFINE treated == {i \in DOMAIN Sample : Sample[i].treat = {1}}
           controls == {i \in DOMAIN Sample : Sample[i].treat = {0}}
           O(t, c) == {d \in controls \ {c} : Gap(t, d) <= Gap(t, c)}
           Nr(t, c) == {d \in controls : Gap(t, d) < Gap(t, c)}
           Su(c) == {t \in treated : Cardinality(O(t, c)) < query.k}
           Pe(c) == {t \in treated : Cardinality(Nr(t, c)) < query.k}
<1>1. treated = RowsWith(1) /\ controls = RowsWith(0)
  BY DEF RowsWith
<1>2. \A t, c : O(t, c) = Others(t, c) /\ Nr(t, c) = Nearer(t, c)
  BY <1>1 DEF Others, Nearer
<1>3. \A c : Su(c) = SureRows(c) /\ Pe(c) = PerhapsRows(c)
  BY <1>1, <1>2 DEF Surely, Perhaps, SureRows, PerhapsRows
<1>4. Neighbours = Min({query.k, Cardinality(controls)})
  <2>1. Len(Controls) = Cardinality(RowsWith(0))
    BY RowsInPlace DEF Controls
  <2> QED  BY <1>1, <2>1 DEF Neighbours
<1>5. AsNearest
  OBVIOUS
<1>6. ASSUME NEW c \in controls
      PROVE  weights[c] >= Cardinality(Su(c)) /\ weights[c] <= Cardinality(Pe(c))
  <2>1. Su(c) = SureRows(c) /\ Pe(c) = PerhapsRows(c)
    BY <1>3
  <2>2. c \in RowsWith(0)
    BY <1>1
  <2>3. Cardinality(SureRows(c)) <= weights[c] /\ weights[c] <= Cardinality(PerhapsRows(c))
    BY <1>5, <2>2 DEF AsNearest
  <2> HIDE DEF Su, Pe
  <2> QED  BY <2>1, <2>3
<1>7. /\ DOMAIN weights = DOMAIN Sample
      /\ \A i \in treated : weights[i] = FullWeight
      /\ \A i \in DOMAIN Sample \ (treated \cup controls) : weights[i] = 0
      /\ SumFunctionOnSet(weights, controls) =
            Cardinality(treated) * Min({query.k, Cardinality(controls)})
  BY <1>1, <1>4, <1>5 DEF AsNearest
<1> QED  BY <1>6, <1>7 DEF WeightsAreOfNearest

\* One more place counts or does not.
LEMMA CountNext ==
    ASSUME NEW m \in Nat, NEW P
    PROVE  /\ Cardinality({j \in 1..m : j \in P}) \in Nat
           /\ Cardinality({j \in 1..(m + 1) : j \in P})
                = Cardinality({j \in 1..m : j \in P}) + IF m + 1 \in P THEN 1 ELSE 0
<1> DEFINE X == {j \in 1..m : j \in P}
           Y == {j \in 1..(m + 1) : j \in P}
<1>1. IsFiniteSet(X) /\ Cardinality(X) \in Nat
  <2>1. IsFiniteSet(1..m)
    BY FS_Interval
  <2> QED  BY <2>1, FS_Subset, FS_CardinalityType
<1>2. m + 1 \notin X
  OBVIOUS
<1>3. \A j : j \in 1..(m + 1) <=> j \in 1..m \/ j = m + 1
  OBVIOUS
<1>4. CASE m + 1 \in P
  <2>1. Y = X \cup {m + 1}
    BY <1>3, <1>4
  <2> HIDE DEF X, Y
  <2>2. Cardinality(Y) = Cardinality(X) + 1
    BY <1>1, <1>2, <2>1, FS_AddElement
  <2> QED  BY <1>1, <1>4, <2>2 DEF X, Y
<1>5. CASE m + 1 \notin P
  <2>1. Y = X
    BY <1>3, <1>5
  <2> QED  BY <1>1, <1>5, <2>1
<1> QED  BY <1>4, <1>5

\* Sharing out the next treated row keeps the tally.
LEMMA MatchOneShares ==
    ASSUME MatchKept, MatchOne, leg' = "match"
    PROVE  Shared'
<1> DEFINE m == matched
           t == Treated[m + 1]
           K == DOMAIN Controls
<1>1. /\ QueryTyped /\ Shared
      /\ leg = "match" /\ m < Len(Treated) /\ m \in Nat
  <2>1. leg = "match" /\ m < Len(Treated)
    BY DEF MatchOne
  <2>2. QueryTyped /\ Shared
    BY <2>1 DEF MatchKept
  <2>3. m \in Nat
    <3>1. m \in 0..Len(Treated)
      BY <2>2 DEF Shared
    <3>2. Len(Treated) \in Nat
      BY <2>2, RowsInPlace DEF Treated
    <3> HIDE DEF m
    <3> QED  BY <3>1, <3>2
  <2> QED  BY <2>1, <2>2, <2>3
<1>2. /\ Features(t) # {} /\ matched' = m + 1
      /\ UNCHANGED <<query, scores>>
      /\ \E S \in Nearest(t) : tally' = [k \in DOMAIN tally |->
                                           tally[k] + IF k \in S THEN 1 ELSE 0]
  BY <1>1 DEF MatchOne, RefuseMatch
<1>3. PICK S \in Nearest(t) : tally' = [k \in DOMAIN tally |->
                                          tally[k] + IF k \in S THEN 1 ELSE 0]
  BY <1>2
<1>4. /\ K = 1..Len(Controls) /\ Len(Controls) \in Nat
      /\ DOMAIN tally = K /\ \A k \in K : tally[k] \in Nat
  <2>1. K = 1..Len(Controls) /\ Len(Controls) \in Nat
    BY <1>1, RowsInPlace DEF Controls
  <2> QED  BY <1>1, <2>1 DEF Shared
<1>5. /\ Len(Treated) \in Nat /\ m + 1 \in 1..Len(Treated)
      /\ t \in DOMAIN Sample
  <2>1. Len(Treated) \in Nat /\ \A j \in 1..Len(Treated) : Treated[j] \in RowsWith(1)
    BY <1>1, RowsInPlace DEF Treated
  <2>2. m + 1 \in 1..Len(Treated)
    BY <1>1, <2>1
  <2> QED  BY <2>1, <2>2 DEF RowsWith
<1> HIDE DEF m, t, K
<1>6. \A k \in K : /\ Surely(t, Controls[k]) => k \in S
                   /\ k \in S => Perhaps(t, Controls[k])
  BY <1>1, <1>2, <1>5, MatchesAreNear DEF Shared, K
<1>7. S \subseteq K /\ Cardinality(S) = Neighbours
  <2>1. S \in SUBSET K /\ Cardinality(S) = Min({query.k, Len(Controls)})
    BY DEF Nearest, kSubset, K
  <2> QED  BY <2>1 DEF Neighbours
<1> DEFINE one == [k \in K |-> IF k \in S THEN 1 ELSE 0]
<1>8. /\ \A k \in K : one[k] \in Nat /\ tally'[k] = tally[k] + one[k]
      /\ tally' \in [K -> Nat]
  <2>1. tally' = [k \in K |-> tally[k] + one[k]]
    BY <1>3, <1>4
  <2>2. \A k \in K : one[k] \in Nat
    OBVIOUS
  <2> HIDE DEF one
  <2> QED  BY <1>4, <2>1, <2>2
<1>9. IsFiniteSet(K) /\ IsFiniteSet(S) /\ Cardinality(S) \in Nat
  <2>1. IsFiniteSet(K)
    BY <1>4, FS_Interval
  <2> QED  BY <1>7, <2>1, FS_Subset, FS_CardinalityType
<1>10. SumFunctionOnSet(tally', K) = m * Neighbours + Neighbours
  <2>1. SumFunctionOnSet(one, K) = Cardinality(S)
    <3>1. \A k \in S : one[k] = 1
      BY <1>7
    <3>2. \A k \in K \ S : one[k] = 0
      OBVIOUS
    <3> HIDE DEF one
    <3>3. SumFunctionOnSet(one, K) = SumFunctionOnSet(one, S)
      BY <1>7, <1>9, <3>1, <3>2, SumOfPart
    <3> QED  BY <1>9, <3>1, <3>3, SumOfOnes
  <2> HIDE DEF one
  <2>2. SumFunctionOnSet(tally', K) = SumFunctionOnSet(tally, K) + SumFunctionOnSet(one, K)
    BY <1>4, <1>8, <1>9, SumPlus
  <2>3. SumFunctionOnSet(tally, K) = m * Neighbours
    BY <1>1 DEF Shared, K, m
  <2> QED  BY <1>7, <2>1, <2>2, <2>3
<1>11. ASSUME NEW k \in K
       PROVE  /\ Cardinality({j \in 1..(m + 1) : Surely(Treated[j], Controls[k])}) <= tally'[k]
              /\ tally'[k] <= Cardinality({j \in 1..(m + 1) : Perhaps(Treated[j], Controls[k])})
  <2> DEFINE P == {j \in 1..(m + 1) : Surely(Treated[j], Controls[k])}
             Q == {j \in 1..(m + 1) : Perhaps(Treated[j], Controls[k])}
             p == SureOf(k)
             q == PerhapsOf(k)
  <2>1. /\ p = {j \in 1..m : j \in P} /\ q = {j \in 1..m : j \in Q}
        /\ P = {j \in 1..(m + 1) : j \in P} /\ Q = {j \in 1..(m + 1) : j \in Q}
    BY <1>1 DEF m, SureOf, PerhapsOf
  <2>2. /\ m + 1 \in P <=> Surely(t, Controls[k])
        /\ m + 1 \in Q <=> Perhaps(t, Controls[k])
    BY <1>1 DEF t
  <2>3. Cardinality(p) <= tally[k] /\ tally[k] <= Cardinality(q)
    BY <1>1 DEF Shared, K
  <2> HIDE DEF P, Q, p, q
  <2>4. /\ Cardinality({j \in 1..m : j \in P}) \in Nat
        /\ Cardinality({j \in 1..(m + 1) : j \in P})
             = Cardinality({j \in 1..m : j \in P}) + IF m + 1 \in P THEN 1 ELSE 0
        /\ Cardinality({j \in 1..m : j \in Q}) \in Nat
        /\ Cardinality({j \in 1..(m + 1) : j \in Q})
             = Cardinality({j \in 1..m : j \in Q}) + IF m + 1 \in Q THEN 1 ELSE 0
    <3>1. m \in Nat
      BY <1>1
    <3> QED  BY ONLY <3>1, CountNext
  <2>5. /\ Cardinality(p) \in Nat /\ Cardinality(q) \in Nat
        /\ Cardinality(P) = Cardinality(p) + IF m + 1 \in P THEN 1 ELSE 0
        /\ Cardinality(Q) = Cardinality(q) + IF m + 1 \in Q THEN 1 ELSE 0
    BY <2>1, <2>4
  <2>6. /\ m + 1 \in P => k \in S
        /\ k \in S => m + 1 \in Q
    BY <1>6, <2>2
  <2>7. tally'[k] = tally[k] + one[k] /\ tally[k] \in Nat
    BY <1>4, <1>8
  <2>8. one[k] = IF k \in S THEN 1 ELSE 0
    OBVIOUS
  <2> HIDE DEF one
  <2>9. Cardinality(P) <= tally'[k] /\ tally'[k] <= Cardinality(Q)
    BY <2>3, <2>5, <2>6, <2>7, <2>8
  <2> QED  BY <2>9 DEF P, Q
<1>12. /\ Sample' = Sample /\ Controls' = Controls /\ Treated' = Treated
       /\ \A v : RowsWith(v)' = RowsWith(v)
       /\ \A i : Features(i)' = Features(i)
       /\ \A k : /\ SureOf(k)' = {j \in 1..matched' : Surely(Treated[j], Controls[k])}
                 /\ PerhapsOf(k)' = {j \in 1..matched' : Perhaps(Treated[j], Controls[k])}
       /\ Neighbours' = Neighbours
  BY <1>2, QueryFrozen
<1>13. Measurable'
  BY <1>1, <1>12 DEF Shared, Measurable
<1>14. matched' \in 0..Len(Treated')
  BY <1>2, <1>5, <1>12
<1>15. (m + 1) * Neighbours = m * Neighbours + Neighbours
  <2>1. Neighbours \in Nat
    BY <1>7, <1>9
  <2> QED  BY <1>1, <2>1
<1>16. SumFunctionOnSet(tally', DOMAIN Controls') = matched' * Neighbours'
  BY <1>2, <1>10, <1>12, <1>15 DEF K
<1>17. ASSUME NEW k \in K
       PROVE  Cardinality(SureOf(k)') <= tally'[k] /\ tally'[k] <= Cardinality(PerhapsOf(k)')
  <2>1. /\ SureOf(k)' = {j \in 1..(m + 1) : Surely(Treated[j], Controls[k])}
        /\ PerhapsOf(k)' = {j \in 1..(m + 1) : Perhaps(Treated[j], Controls[k])}
    BY <1>2, <1>12
  <2> QED  BY <1>11, <2>1
<1>18. DOMAIN Controls' = K
  BY <1>12 DEF K
<1>19. tally' \in [DOMAIN Controls' -> Nat]
  BY <1>8, <1>18
<1> QED  BY <1>13, <1>14, <1>16, <1>17, <1>18, <1>19 DEF Shared

\* The scores of a fit are those of levels.
LEMMA ScoreGivesLevels ==
    ASSUME QueryTyped, Score
    PROVE  ScoresAreLevels'
<1>1. query' = query /\ Sample' = Sample
  BY DEF Score, Sample
<1>2. ASSUME NEW i \in DOMAIN Sample PROVE scores'[i] \subseteq Int \X Int
  <2> DEFINE points == UNION {Sample[j].x : j \in DOMAIN Sample}
  <2>1. CASE \E j \in DOMAIN Sample : Sample[j].x = {}
    BY <2>1 DEF Score
  <2>2. CASE ~ \E j \in DOMAIN Sample : Sample[j].x = {}
    <3>1. PICK level \in [points -> Scores] :
             scores' = [j \in DOMAIN Sample |-> {<<level[p], 0>> : p \in Sample[j].x}]
      BY <2>2 DEF Score
    <3>2. \A p \in Sample[i].x : p \in points
      OBVIOUS
    <3> HIDE DEF points
    <3>3. \A p \in Sample[i].x : level[p] \in Int
      BY <3>1, <3>2, ScoresTyped
    <3> QED  BY <3>1, <3>3
  <2> QED  BY <2>1, <2>2
<1> QED  BY <1>1, <1>2 DEF ScoresAreLevels

\* Once the tree stands, every control is measured, and nothing is matched.
LEMMA MeasureIsReady ==
    ASSUME MatchKept, Measure, leg' = "match"
    PROVE  Shared'
<1> DEFINE K == DOMAIN Controls
           blank == \E k \in K : Features(Controls[k]) = {}
<1>1. /\ leg = "measure" /\ QueryTyped /\ ScoresAreLevels /\ matched = 0
      /\ UNCHANGED <<query, scores, matched>>
      /\ tally' = [k \in K |-> 0]
  BY DEF Measure, MatchKept, RefuseMatch
<1>2. ~blank
  <2>1. CASE query.method # "mahalanobis"
    <3>1. (IF blank THEN "tree" ELSE "") = ""
      BY <2>1 DEF Measure, RefuseMatch
    <3> QED  BY <3>1
  <2>2. CASE query.method = "mahalanobis"
    <3>1. Len(Controls) < 2 <=> ~(Len(Controls) >= 2)
      <4>1. Len(Controls) \in Nat
        BY <1>1, RowsInPlace DEF Controls
      <4> QED  BY <4>1
    <3>2. Len(Controls) >= 2
      BY <2>2, <3>1 DEF Measure, RefuseMatch
    <3>3. (IF blank \/ Singular THEN "singular covariance" ELSE "") = ""
      BY <2>2, <3>1, <3>2 DEF Measure, RefuseMatch
    <3> QED  BY <3>3
  <2> QED  BY <2>1, <2>2
<1>3. /\ K = 1..Len(Controls) /\ Len(Controls) \in Nat /\ Len(Treated) \in Nat
      /\ RowsWith(0) = {Controls[k] : k \in K}
  BY <1>1, RowsInPlace DEF Controls, Treated
<1>4. Measurable
  <2>1. ASSUME NEW i \in DOMAIN Sample PROVE Features(i) \subseteq Int \X Int
    <3>1. CASE query.method = "psm"
      BY <1>1, <3>1 DEF Features, ScoresAreLevels
    <3>2. CASE query.method # "psm"
      <4>1. Sample[i].x \in SUBSET (Int \X Int)
        BY <1>1, CellsArePoints
      <4> QED  BY <3>2, <4>1 DEF Features
    <3> QED  BY <3>1, <3>2
  <2>2. \A c \in RowsWith(0) : Features(c) # {}
    BY <1>2, <1>3
  <2> QED  BY <2>1, <2>2 DEF Measurable
<1>5. /\ Sample' = Sample /\ Controls' = Controls /\ Treated' = Treated
      /\ \A v : RowsWith(v)' = RowsWith(v)
      /\ \A i : Features(i)' = Features(i)
      /\ \A k : /\ SureOf(k)' = {j \in 1..matched' : Surely(Treated[j], Controls[k])}
                /\ PerhapsOf(k)' = {j \in 1..matched' : Perhaps(Treated[j], Controls[k])}
      /\ Neighbours' = Neighbours
  BY <1>1, QueryFrozen
<1>6. Measurable'
  BY <1>4, <1>5 DEF Measurable
<1>7. \A k : SureOf(k)' = {} /\ PerhapsOf(k)' = {}
  <2>1. 1..matched' = {}
    BY <1>1
  <2> QED  BY <1>5, <2>1
<1>8. ASSUME NEW k \in K
      PROVE  Cardinality(SureOf(k)') <= tally'[k] /\ tally'[k] <= Cardinality(PerhapsOf(k)')
  BY <1>1, <1>7, FS_EmptySet
<1>9. SumFunctionOnSet(tally', K) = 0
  <2>1. IsFiniteSet(K)
    BY <1>3, FS_Interval
  <2>2. \A k \in K : tally'[k] = 0
    BY <1>1
  <2> QED  BY <2>1, <2>2, SumZero
<1>10. matched' * Neighbours' = 0
  <2>1. Neighbours \in Int
    <3>1. query.k \in Nat
      BY <1>1 DEF QueryTyped
    <3>2. \E x \in {query.k, Len(Controls)} : \A y \in {query.k, Len(Controls)} : x =< y
      BY <1>3, <3>1
    <3> QED  BY <1>3, <3>1, <3>2 DEF Neighbours, Min
  <2> QED  BY <1>1, <1>5, <2>1
<1>11. DOMAIN Controls' = K
  BY <1>5
<1>12. tally' \in [K -> Nat]
  BY <1>1
<1>13. matched' \in 0..Len(Treated')
  BY <1>1, <1>3, <1>5
<1> HIDE DEF K
<1> QED  BY <1>6, <1>8, <1>9, <1>10, <1>11, <1>12, <1>13 DEF Shared

\* Put together again, every row has the share of its own place.
LEMMA ReassembleIsNearest ==
    ASSUME MatchKept, Reassemble
    PROVE  AsNearest'
<1> DEFINE K == DOMAIN Controls
           n == Len(Treated)
<1>1. /\ leg = "match" /\ QueryTyped /\ Shared /\ matched = n
      /\ UNCHANGED <<query, scores, tally>>
      /\ weights' = [i \in DOMAIN Sample |-> WeightOf(i)]
  BY DEF Reassemble, MatchKept
<1>2. /\ K = 1..Len(Controls) /\ Len(Controls) \in Nat
      /\ RowsWith(0) = {Controls[k] : k \in K} /\ RowsWith(0) \subseteq DOMAIN Sample
      /\ \A i, j \in K : Controls[i] = Controls[j] => i = j
  BY <1>1, RowsInPlace DEF Controls
<1>3. /\ n \in Nat /\ n = Cardinality(RowsWith(1))
      /\ RowsWith(1) = {Treated[j] : j \in 1..n}
      /\ \A i, j \in 1..n : Treated[i] = Treated[j] => i = j
      /\ RowsWith(1) \subseteq DOMAIN Sample
  BY <1>1, RowsInPlace DEF Treated
<1>4. IsFiniteSet(K)
  BY <1>2, FS_Interval
<1>5. /\ DOMAIN weights' = DOMAIN Sample
      /\ \A i \in DOMAIN Sample : weights'[i] = WeightOf(i)
  BY <1>1
<1>6. \A i \in RowsWith(1) : weights'[i] = FullWeight
  <2> SUFFICES ASSUME NEW i \in RowsWith(1) PROVE WeightOf(i) = FullWeight
    BY <1>3, <1>5
  <2>1. Sample[i].treat = {1}
    BY DEF RowsWith
  <2>2. Sample[i].treat # {0}
    BY <2>1
  <2> QED  BY <2>1, <2>2 DEF WeightOf
<1>7. \A i \in DOMAIN Sample \ (RowsWith(1) \cup RowsWith(0)) : weights'[i] = 0
  BY <1>5 DEF WeightOf, RowsWith
<1>8. ASSUME NEW k \in K PROVE weights'[Controls[k]] = tally[k]
  <2> DEFINE c == Controls[k]
  <2>1. c \in DOMAIN Sample /\ Sample[c].treat = {0}
    BY <1>2 DEF RowsWith
  <2>2. (CHOOSE l \in K : Controls[l] = c) = k
    BY <1>2
  <2>3. Sample[c].treat # {1}
    BY <2>1
  <2>4. WeightOf(c) = tally[k]
    BY <2>1, <2>2, <2>3 DEF WeightOf
  <2> QED  BY <1>5, <2>1, <2>4
<1>9. ASSUME NEW k \in K
      PROVE  /\ Cardinality(SureRows(Controls[k])) = Cardinality(SureOf(k))
             /\ Cardinality(PerhapsRows(Controls[k])) = Cardinality(PerhapsOf(k))
  <2> DEFINE c == Controls[k]
  <2>1. /\ SureOf(k) = {j \in 1..n : Surely(Treated[j], c)}
        /\ PerhapsOf(k) = {j \in 1..n : Perhaps(Treated[j], c)}
    BY <1>1 DEF SureOf, PerhapsOf
  <2> HIDE DEF n, c
  <2>2. /\ SureRows(c) = {Treated[j] : j \in SureOf(k)}
        /\ PerhapsRows(c) = {Treated[j] : j \in PerhapsOf(k)}
    BY <1>3, <2>1 DEF SureRows, PerhapsRows
  <2>3. SureOf(k) \in SUBSET (1..n) /\ PerhapsOf(k) \in SUBSET (1..n)
    BY <2>1
  <2>4. \A J \in SUBSET (1..n) : Cardinality({Treated[j] : j \in J}) = Cardinality(J)
    <3> SUFFICES ASSUME NEW J \in SUBSET (1..n)
                 PROVE  Cardinality({Treated[j] : j \in J}) = Cardinality(J)
      OBVIOUS
    <3>1. IsFiniteSet(1..n)
      BY <1>3, FS_Interval
    <3>2. IsFiniteSet(J)
      BY <3>1, FS_Subset
    <3>3. \A i, j \in J : Treated[i] = Treated[j] => i = j
      BY <1>3
    <3> QED  BY <3>2, <3>3, ImageCounts
  <2>5. /\ Cardinality(SureRows(c)) = Cardinality(SureOf(k))
        /\ Cardinality(PerhapsRows(c)) = Cardinality(PerhapsOf(k))
    BY <2>2, <2>3, <2>4
  <2> QED  BY <2>5 DEF c
<1>10. ASSUME NEW c \in RowsWith(0)
       PROVE  /\ Cardinality(SureRows(c)) <= weights'[c]
              /\ weights'[c] <= Cardinality(PerhapsRows(c))
  <2>1. PICK k \in K : c = Controls[k]
    BY <1>2
  <2>2. Cardinality(SureOf(k)) <= tally[k] /\ tally[k] <= Cardinality(PerhapsOf(k))
    BY <1>1 DEF Shared
  <2> QED  BY <1>8, <1>9, <2>1, <2>2
<1>11. SumFunctionOnSet(weights', RowsWith(0)) = Cardinality(RowsWith(1)) * Neighbours
  <2> DEFINE g == [k \in K |-> weights'[Controls[k]]]
  <2>1. \A k \in K : tally[k] \in Nat
    BY <1>1 DEF Shared
  <2>2. \A k \in K : weights'[Controls[k]] \in Int
    BY <1>8, <2>1
  <2>3. \A k \in K : g[k] = tally[k]
    BY <1>8
  <2>4. SumFunctionOnSet(tally, K) = Cardinality(RowsWith(1)) * Neighbours
    BY <1>1, <1>3 DEF Shared
  <2> DEFINE w == weights'
             C == Controls
  <2> HIDE DEF K, w, C
  <2>5. /\ IsFiniteSet(K) /\ \A i, j \in K : C[i] = C[j] => i = j
        /\ \A k \in K : w[C[k]] \in Int
    BY <1>2, <1>4, <2>2 DEF w, C
  <2>6. SumFunctionOnSet(w, {C[k] : k \in K})
          = SumFunctionOnSet([k \in K |-> w[C[k]]], K)
    BY ONLY <2>5, SumReindexed
  <2>7. g = [k \in K |-> w[C[k]]] /\ RowsWith(0) = {C[k] : k \in K}
    BY <1>2 DEF w, C
  <2> HIDE DEF g
  <2>8. SumFunctionOnSet(g, K) = SumFunctionOnSet(tally, K)
    BY <1>4, <2>3, SumSameTerms
  <2>9. SumFunctionOnSet(w, RowsWith(0)) = SumFunctionOnSet(tally, K)
    BY <2>6, <2>7, <2>8
  <2> QED  BY <2>4, <2>9 DEF w
<1>12. /\ Sample' = Sample /\ \A v : RowsWith(v)' = RowsWith(v)
       /\ \A c : SureRows(c)' = SureRows(c) /\ PerhapsRows(c)' = PerhapsRows(c)
       /\ Neighbours' = Neighbours /\ FullWeight' = FullWeight
  BY <1>1, QueryFrozen
<1> QED  BY <1>5, <1>6, <1>7, <1>10, <1>11, <1>12 DEF AsNearest

\* Of every step of a program, one of the matching or one that leaves it alone.
LEMMA MatchSteps ==
    ASSUME [CommandLineNext]_allVars
    PROVE  MatchNext \/ UNCHANGED matchVars
BY DEF CommandLineNext, allVars, Analyse, CheckMainOptions, ReadData, Configure,
   ExitWith, GoTo, Untouched, AnalysisFails, Deliver, Write, WriteFails,
   NextQuantile, Succeed, Over

\* Whoever calls, the rows and the number of neighbours are what they are to be.
LEMMA MatchKeptInit == CommandLineInit => MatchKept
<1> SUFFICES ASSUME CommandLineInit PROVE MatchKept
  OBVIOUS
<1>1. QueryTyped
  <2>1. CASE Analysis # "match"
    <3>1. query = NoQuery
      BY <2>1 DEF CommandLineInit, Only
    <3>2. query.k = 0 /\ query.sample = <<>>
      BY <3>1 DEF NoQuery
    <3> QED  BY <3>2, EmptySeq DEF QueryTyped
  <2>2. CASE LibraryCall /\ Analysis = "match"
    <3>1. query \in MatchCalls
      BY <2>2 DEF LibraryCall
    <3> QED  BY <3>1, MatchCallsTyped DEF QueryTyped
  <2>3. CASE CommandCall /\ Analysis = "match"
    <3>1. asked \in Commands /\ query = QueryOf(asked)
      BY <2>3 DEF CommandCall
    <3>2. query.k = asked.neighbors /\ query.sample = asked.sample
      BY <3>1 DEF QueryOf
    <3> QED  BY <3>1, <3>2, CommandsTyped DEF QueryTyped
  <2> QED  BY <2>1, <2>2, <2>3 DEF CommandLineInit
<1>2. leg \in {"prepare", "measure"} /\ matched = 0
      /\ (query.method = "psm" => leg = "prepare")
  BY DEF CommandLineInit, MatchInit
<1> QED  BY <1>1, <1>2 DEF MatchKept, ScoresAreLevels

\* Each step of the matching keeps what it has shared out so far.
LEMMA MatchKeptNext == MatchKept /\ [CommandLineNext]_allVars => MatchKept'
<1> SUFFICES ASSUME MatchKept, [CommandLineNext]_allVars PROVE MatchKept'
  OBVIOUS
<1>1. CASE UNCHANGED matchVars
  <2>1. UNCHANGED <<query, leg, scores, matched, tally, weights>>
    BY <1>1 DEF matchVars
  <2>2. /\ Sample' = Sample /\ Controls' = Controls /\ Treated' = Treated
        /\ \A v : RowsWith(v)' = RowsWith(v)
        /\ \A i : Features(i)' = Features(i)
        /\ \A k : /\ SureOf(k)' = {j \in 1..matched' : Surely(Treated[j], Controls[k])}
                  /\ PerhapsOf(k)' = {j \in 1..matched' : Perhaps(Treated[j], Controls[k])}
        /\ \A c : SureRows(c)' = SureRows(c) /\ PerhapsRows(c)' = PerhapsRows(c)
        /\ Neighbours' = Neighbours /\ FullWeight' = FullWeight
    BY <2>1, QueryFrozen
  <2>3. \A k : SureOf(k)' = SureOf(k) /\ PerhapsOf(k)' = PerhapsOf(k)
    BY <2>1, <2>2 DEF SureOf, PerhapsOf
  <2>4. QueryTyped' /\ ScoresAreLevels'
    BY <2>1, <2>2 DEF MatchKept, QueryTyped, ScoresAreLevels
  <2>5. Shared => Shared'
    <3>1. Measurable => Measurable'
      BY <2>2 DEF Measurable
    <3> QED  BY <2>1, <2>2, <2>3, <3>1 DEF Shared
  <2>6. AsNearest => AsNearest'
    BY <2>1, <2>2 DEF AsNearest
  <2> QED  BY <2>1, <2>4, <2>5, <2>6 DEF MatchKept
<1>2. CASE PrepareScores
  <2>1. /\ leg = "prepare" /\ leg' \in {"score", "refused"}
        /\ UNCHANGED <<query, matched>>
    BY <1>2 DEF PrepareScores, RefuseMatch
  <2> QED  BY <2>1 DEF MatchKept, QueryTyped, ScoresAreLevels
<1>3. CASE Score
  <2>1. leg = "score" /\ leg' = "measure" /\ UNCHANGED <<query, matched>>
    BY <1>3 DEF Score
  <2>2. ScoresAreLevels'
    BY <1>3, ScoreGivesLevels DEF MatchKept
  <2> QED  BY <2>1, <2>2 DEF MatchKept, QueryTyped
<1>4. CASE Measure
  <2>1. /\ leg = "measure" /\ leg' \in {"match", "refused"}
        /\ UNCHANGED <<query, scores>>
    BY <1>4 DEF Measure, RefuseMatch
  <2>2. leg' = "match" => Shared'
    BY <1>4, MeasureIsReady
  <2>3. Sample' = Sample
    BY <2>1 DEF Sample
  <2> QED  BY <2>1, <2>2, <2>3 DEF MatchKept, QueryTyped, ScoresAreLevels
<1>5. CASE MatchOne
  <2>1. /\ leg = "match" /\ leg' \in {"match", "refused"}
        /\ UNCHANGED <<query, scores>>
    BY <1>5 DEF MatchOne, RefuseMatch
  <2>2. leg' = "match" => Shared'
    BY <1>5, MatchOneShares
  <2>3. Sample' = Sample
    BY <2>1 DEF Sample
  <2> QED  BY <2>1, <2>2, <2>3 DEF MatchKept, QueryTyped, ScoresAreLevels
<1>6. CASE Reassemble
  <2>1. leg = "match" /\ leg' = "done" /\ UNCHANGED <<query, scores>>
    BY <1>6 DEF Reassemble
  <2>2. AsNearest'
    BY <1>6, ReassembleIsNearest
  <2>3. Sample' = Sample
    BY <2>1 DEF Sample
  <2> QED  BY <2>1, <2>2, <2>3 DEF MatchKept, QueryTyped, ScoresAreLevels
<1> QED
  BY <1>1, <1>2, <1>3, <1>4, <1>5, <1>6, MatchSteps DEF MatchNext

\* Every row weighs what its own matches come to, for every file, number of
\* neighbours, metric and choice among rows equally far.
THEOREM NearestWeigh == CommandLineSpec => []WeightsAreOfNearest
<1>1. MatchKept => WeightsAreOfNearest
  BY NearestInOtherWords DEF MatchKept
<1> QED
  BY <1>1, MatchKeptInit, MatchKeptNext, PTL DEF CommandLineSpec

-----------------------------------------------------------------------------
(* The groups of the simulated quantiles *)

GroupRows(q, v) == {i \in DOMAIN q.data : q.data[i].group = v}
OfData == PassOf(study, All(study), Master)
OnItself == Compared(study, Cells(study, All(study))) = {study.base}

\* The call is one.
StudyTyped ==
    /\ study.data \in Seq([group : SUBSET Int, y : SUBSET Int])
    /\ \A i \in DOMAIN study.data : \A u, v \in study.data[i].group : u = v
    /\ study.base \in Int /\ study.quantiles \in Seq(0..1000)
    /\ study.reps \in Nat /\ DOMAIN study.tape = 0..(2 * study.reps - 1)
    /\ \A s \in DOMAIN study.tape, k \in DOMAIN study.data : study.tape[s][k] \in Nat

\* The figures are those of the data, and whatever was drawn and kept is of a
\* replicate that succeeded.
FiguresAreKept ==
    /\ StudyTyped
    /\ phase \in {"replicate", "fold", "done"} =>
          point = Effects(study, OfData) /\ OfData.error = ""
    /\ phase \in {"point", "replicate"} => estimates = <<>>
    /\ estimates # <<>> => \E r \in Reps : Replicate(study, r).error = ""
    /\ phase = "done" =>
          /\ DOMAIN report.by = DOMAIN point
          /\ \A l \in DOMAIN point : report.by[l].estimate = point[l]
          /\ estimates = <<>> =>
                /\ report.succeeded = 0
                /\ \A l \in DOMAIN point : report.by[l].distribution = <<>>
          /\ report.nA = Len(OfValue(study, All(study),
                                     Compared(study, Cells(study, All(study)))))
          /\ report.nB = Len(OfValue(study, All(study), {study.base}))

\* The data have rows from the first to the last.
LEMMA StudyRows ==
    ASSUME StudyTyped
    PROVE  /\ DOMAIN study.data = 1..Len(study.data) /\ Len(study.data) \in Nat
           /\ IsFiniteSet(DOMAIN study.data)
<1>1. study.data \in Seq([group : SUBSET Int, y : SUBSET Int])
  BY DEF StudyTyped
<1>2. DOMAIN study.data = 1..Len(study.data) /\ Len(study.data) \in Nat
  BY <1>1
<1> DEFINE n == Len(study.data)
<1>3. n \in Nat
  BY <1>2
<1> HIDE DEF n
<1>4. IsFiniteSet(1..n)
  BY <1>3, FS_Interval
<1> QED  BY <1>2, <1>4 DEF n

\* The rows of a group, once each.
LEMMA GroupInPlace ==
    ASSUME StudyTyped, NEW v
    PROVE  LET s == OfValue(study, All(study), v)
               R == GroupRows(study, v)
           IN  /\ IsFiniteSet(R) /\ Len(s) = Cardinality(R) /\ Len(s) \in Nat
               /\ DOMAIN s = 1..Len(s)
               /\ \A k \in 1..Len(s) : s[k] \in R
               /\ \A i \in R : \E k \in 1..Len(s) : s[k] = i
<1> DEFINE s == OfValue(study, All(study), v)
           R == GroupRows(study, v)
           D == DOMAIN study.data
<1>1. D = 1..Len(study.data) /\ Len(study.data) \in Nat /\ IsFiniteSet(D)
  BY StudyRows
<1>2. IsFiniteSet(R) /\ R \subseteq Int /\ R \subseteq D
  <2>1. R \in SUBSET D
    BY DEF GroupRows
  <2>2. \A i \in D : i \in Int
    BY <1>1
  <2> QED  BY <1>1, <2>1, <2>2, FS_Subset
<1>3. s = [k \in DOMAIN Ascending(R) |-> Ascending(R)[k]]
  <2>1. All(study) = [i \in D |-> i]
    BY DEF All
  <2>2. R = {k \in DOMAIN All(study) : study.data[All(study)[k]].group = v}
    BY <2>1 DEF GroupRows
  <2>3. s = At(All(study), R)
    BY <2>2 DEF OfValue
  <2>4. \A k \in DOMAIN Ascending(R) : Ascending(R)[k] \in D
    <3> HIDE DEF R, D
    <3>1. Ascending(R) \in [1..Cardinality(R) -> R]
      BY <1>2, AscendingEnumerates
    <3> QED  BY <1>2, <3>1
  <2> HIDE DEF R, D
  <2> QED  BY <2>1, <2>3, <2>4 DEF At
<1> HIDE DEF s, R, D
<1> DEFINE n == Cardinality(R)
<1>4. /\ n \in Nat /\ Ascending(R) \in [1..n -> R]
      /\ \A x \in R : \E k \in 1..n : Ascending(R)[k] = x
  BY <1>2, AscendingEnumerates
<1> HIDE DEF n
<1>5. s = Ascending(R)
  BY <1>3, <1>4
<1>6. s \in Seq(R) /\ Len(s) = n /\ DOMAIN s = 1..n
  BY <1>4, <1>5
<1> QED  BY <1>2, <1>4, <1>5, <1>6 DEF s, R, n

\* A pass that succeeds has two kinds of group cell and rows in both groups.
LEMMA PassHasGroups ==
    ASSUME StudyTyped, OfData.error = ""
    PROVE  LET C == Cells(study, All(study))
               a == OfValue(study, All(study), Compared(study, C))
               b == OfValue(study, All(study), {study.base})
           IN  /\ IsFiniteSet(C) /\ Cardinality(C) >= 2 /\ Len(a) >= 2 /\ Len(b) >= 2
               /\ OfData.a = a
               /\ C = {study.data[i].group : i \in DOMAIN study.data}
<1> DEFINE C == Cells(study, All(study))
           a == OfValue(study, All(study), Compared(study, C))
           b == OfValue(study, All(study), {study.base})
           D == DOMAIN study.data
<1>1. C = {study.data[i].group : i \in D}
  BY DEF Cells, All
<1>2. IsFiniteSet(C) /\ Cardinality(C) \in Nat
  <2>1. IsFiniteSet(D)
    BY StudyRows
  <2> HIDE DEF C, D
  <2> DEFINE f == [i \in D |-> study.data[i].group]
  <2>2. f \in Surjection(D, C)
    BY <1>1 DEF Surjection
  <2> HIDE DEF f
  <2> QED  BY <2>1, <2>2, FS_Surjection, FS_CardinalityType
<1>3. Len(a) \in Nat /\ Len(b) \in Nat
  BY GroupInPlace
<1> HIDE DEF C
<1>4. Cardinality(C) < 2 <=> ~(Cardinality(C) >= 2)
  <2> DEFINE n == Cardinality(C)
  <2>1. n \in Nat
    BY <1>2
  <2> HIDE DEF n
  <2>2. n < 2 <=> ~(n >= 2)
    BY ONLY <2>1
  <2> QED  BY <2>2 DEF n
<1>5. OfData.a = a
  BY DEF OfData, PassOf, C
<1>6. Cardinality(C) >= 2
  BY <1>4 DEF OfData, PassOf, C
<1>7. ~(Len(a) < 2 \/ Len(b) < 2)
  <2> HIDE DEF a, b
  <2>1. OfData.error = IF Len(a) < 2 \/ Len(b) < 2 THEN "insufficient data"
                       ELSE OfData.error
    BY <1>4, <1>6 DEF OfData, PassOf, C, a, b
  <2> QED  BY <2>1
<1>8. Len(a) >= 2 /\ Len(b) >= 2
  <2> DEFINE m == Len(a)
             n == Len(b)
  <2>1. m \in Nat /\ n \in Nat /\ ~(m < 2) /\ ~(n < 2)
    BY <1>3, <1>7
  <2> HIDE DEF m, n
  <2>2. m >= 2 /\ n >= 2
    BY ONLY <2>1
  <2> QED  BY <2>2 DEF m, n
<1> QED  BY <1>1, <1>2, <1>5, <1>6, <1>8 DEF C

\* Of finitely many numbers one is the least.
LEMMA MinIsIn ==
    ASSUME NEW S, S \subseteq Int, IsFiniteSet(S), S # {}
    PROVE  Min(S) \in S
<1> DEFINE n == Cardinality(S)
           s == Ascending(S)
<1>1. /\ n \in Nat /\ s \in [1..n -> S]
      /\ \A i, j \in 1..n : i < j => s[i] < s[j]
      /\ \A x \in S : \E k \in 1..n : s[k] = x
  BY AscendingEnumerates
<1> HIDE DEF n, s
<1>2. 1 \in 1..n
  <2>1. PICK k \in 1..n : TRUE
    BY <1>1
  <2> QED  BY <1>1, <2>1
<1>3. s[1] \in S /\ s[1] \in Int
  BY <1>1, <1>2
<1>4. ASSUME NEW x \in S PROVE s[1] =< x
  <2>1. PICK k \in 1..n : s[k] = x
    BY <1>1
  <2>2. CASE k = 1
    BY <1>3, <2>1, <2>2
  <2>3. CASE k # 1
    <3>1. 1 < k
      BY <1>1, <2>3
    <3>2. s[1] < x
      BY <1>1, <1>2, <2>1, <3>1
    <3> QED  BY <1>3, <3>2
  <2> QED  BY <2>2, <2>3
<1>5. \E m \in S : \A x \in S : m =< x
  BY <1>3, <1>4
<1> QED  BY <1>5 DEF Min

\* The group compared is the reference only where a blank is read as it.
LEMMA OnItselfByBlank ==
    ASSUME StudyTyped, OfData.error = "", OnItself
    PROVE  \E i \in DOMAIN study.data : study.data[i].group = {}
<1> DEFINE C == Cells(study, All(study))
           D == DOMAIN study.data
           values == UNION C
<1>1. IsFiniteSet(C) /\ C = {study.data[i].group : i \in D}
  BY PassHasGroups
<1>2. values \subseteq Int
  <2>1. \A i \in D : study.data[i].group \in SUBSET Int
    <3> DEFINE Row == [group : SUBSET Int, y : SUBSET Int]
               d == study.data
    <3>1. d \in Seq(Row)
      BY DEF StudyTyped
    <3> HIDE DEF Row, d
    <3>2. \A i \in DOMAIN d : d[i] \in Row
      BY ONLY <3>1
    <3> QED  BY <3>2 DEF Row, d
  <2> QED  BY <1>1, <2>1
<1>3. \A cell \in C : IsFiniteSet(cell)
  <2> SUFFICES ASSUME NEW i \in D PROVE IsFiniteSet(study.data[i].group)
    BY <1>1
  <2> DEFINE cell == study.data[i].group
  <2>1. \A u, v \in cell : u = v
    BY DEF StudyTyped
  <2> HIDE DEF cell
  <2>2. ASSUME NEW v \in cell PROVE cell = {v}
    BY ONLY <2>1
  <2>3. IsFiniteSet(cell)
    <3>1. CASE cell = {}
      BY <3>1, FS_EmptySet
    <3>2. CASE cell # {}
      <4>1. PICK v \in cell : TRUE
        BY <3>2
      <4> QED  BY <2>2, <4>1, FS_Singleton
    <3> QED  BY <3>1, <3>2
  <2> QED  BY <2>3 DEF cell
<1>4. IsFiniteSet(values)
  <2> HIDE DEF C
  <2> QED  BY <1>1, <1>3, FS_UNION
<1>5. ASSUME {} \notin C PROVE FALSE
  <2> DEFINE first == Min(values)
             rest == values \ {first}
  <2>1. Compared(study, C) = IF first # study.base THEN {first}
                             ELSE IF rest = {} THEN {} ELSE {Min(rest)}
    <3> HIDE DEF C
    <3> QED  BY <1>5 DEF Compared
  <2>2. Compared(study, C) = {study.base}
    BY DEF OnItself
  <2>3. first = study.base /\ rest # {} /\ Min(rest) = study.base
    <3> HIDE DEF first, rest, C
    <3> QED  BY <2>1, <2>2
  <2>4. rest \in SUBSET values /\ rest \subseteq Int
    <3> HIDE DEF first, values
    <3> QED  BY <1>2
  <2>5. IsFiniteSet(rest)
    <3> HIDE DEF rest, values
    <3> QED  BY <1>4, <2>4, FS_Subset
  <2>6. Min(rest) \in rest
    <3> HIDE DEF rest
    <3> QED  BY <2>3, <2>4, <2>5, MinIsIn
  <2> QED  BY <2>3, <2>6
<1>6. {} \in C
  BY <1>5
<1> HIDE DEF C
<1> QED  BY <1>1, <1>6

\* What is drawn for a group is of the group.
LEMMA DrawnFromGroup ==
    ASSUME StudyTyped, NEW v, NEW stream \in DOMAIN study.tape
    PROVE  Resampled(study, OfValue(study, All(study), v), stream) \in Seq(GroupRows(study, v))
<1> DEFINE s == OfValue(study, All(study), v)
           R == GroupRows(study, v)
           n == Len(s)
           draws == study.tape[stream]
<1>1. /\ IsFiniteSet(R) /\ n = Cardinality(R) /\ n \in Nat /\ DOMAIN s = 1..n
      /\ \A k \in 1..n : s[k] \in R
  BY GroupInPlace
<1>2. 1..n \subseteq DOMAIN study.data
  <2> DEFINE m == Len(study.data)
  <2>1. DOMAIN study.data = 1..m /\ m \in Nat /\ IsFiniteSet(DOMAIN study.data)
    BY StudyRows
  <2>2. R \in SUBSET (1..m)
    BY <2>1 DEF GroupRows
  <2> HIDE DEF m, n, R, s
  <2>3. Cardinality(1..m) = m
    BY <2>1, FS_Interval
  <2>4. n <= m
    <3>1. IsFiniteSet(1..m)
      BY <2>1
    <3>2. Cardinality(R) <= Cardinality(1..m)
      BY <2>2, <3>1, FS_Subset
    <3> QED  BY <1>1, <2>3, <3>2
  <2> QED  BY ONLY <1>1, <2>1, <2>4
<1>3. \A k \in 1..n : draws[k] \in Nat
  BY <1>2 DEF StudyTyped
<1> DEFINE drawn == [k \in 1..n |-> s[(draws[k] % n) + 1]]
<1>4. Resampled(study, s, stream) = drawn
  BY <1>1 DEF Resampled
<1> HIDE DEF n, s, R, draws
<1>5. ASSUME NEW k \in 1..n PROVE s[(draws[k] % n) + 1] \in R
  <2>1. draws[k] \in Nat /\ n \in Nat \ {0}
    BY <1>1, <1>3
  <2>2. (draws[k] % n) + 1 \in 1..n
    BY ONLY <2>1
  <2> QED  BY <1>1, <2>2
<1>6. drawn \in [1..n -> R]
  BY <1>5
<1>7. drawn \in Seq(R)
  BY <1>1, <1>6
<1> QED  BY <1>4, <1>7 DEF s, R

\* A reference compared with itself has no replicate that succeeds.
LEMMA OnItselfFails ==
    ASSUME StudyTyped, OnItself, NEW r \in Reps
    PROVE  Replicate(study, r).error # ""
<1> DEFINE R == GroupRows(study, {study.base})
           b == OfValue(study, All(study), {study.base})
           rows == ReplicateRows(study, r)
           C == Cells(study, rows)
<1>1. 2 * r \in DOMAIN study.tape /\ 2 * r + 1 \in DOMAIN study.tape
  BY DEF StudyTyped, Reps
<1>2. Resampled(study, b, 2 * r) \in Seq(R) /\ Resampled(study, b, 2 * r + 1) \in Seq(R)
  BY <1>1, DrawnFromGroup
<1>3. rows = Resampled(study, b, 2 * r) \o Resampled(study, b, 2 * r + 1)
  BY DEF ReplicateRows, OnItself
<1>4. rows \in Seq(R)
  <2> HIDE DEF rows, R, b
  <2> QED  BY <1>2, <1>3, ConcatProperties
<1>5. \A k \in DOMAIN rows : rows[k] \in R
  <2> HIDE DEF rows, R
  <2> QED  BY <1>4
<1>6. C \subseteq {{study.base}}
  <2> HIDE DEF rows
  <2> QED  BY <1>5 DEF Cells, GroupRows
<1>7. Cardinality(C) < 2
  <2> HIDE DEF C
  <2>1. C = {} \/ C = {{study.base}}
    BY <1>6
  <2>2. Cardinality(C) = 0 \/ Cardinality(C) = 1
    BY <2>1, FS_EmptySet, FS_Singleton
  <2> QED  BY ONLY <2>2
<1>8. ~(Cardinality(C) >= 2)
  <2> HIDE DEF C
  <2>1. C = {} \/ C = {{study.base}}
    BY <1>6
  <2>2. Cardinality(C) = 0 \/ Cardinality(C) = 1
    BY <2>1, FS_EmptySet, FS_Singleton
  <2> QED  BY ONLY <2>2
<1> HIDE DEF rows
<1>9. PassOf(study, rows, r + 1).error = "not enough groups"
  BY <1>7, <1>8 DEF PassOf
<1> QED  BY <1>9 DEF Replicate, rows

\* The figures are of two groups, in the words of the property.
LEMMA GroupsInOtherWords ==
    ASSUME FiguresAreKept
    PROVE  TwoGroupsAreCompared
<1> SUFFICES ASSUME phase = "done", study.quantiles # <<>>
             PROVE  TwoGroupsAreCompared
  BY DEF TwoGroupsAreCompared
<1> DEFINE cmp == Compared(study, Cells(study, All(study)))
           a == OfValue(study, All(study), cmp)
           b == OfValue(study, All(study), {study.base})
           compared == {i \in DOMAIN study.data : \E l \in DOMAIN report.by :
                           Contains(report.by[l].estimate.pass.a, i)}
           Reference == {i \in DOMAIN study.data : study.data[i].group = {study.base}}
<1>1. /\ StudyTyped /\ OfData.error = "" /\ point = Effects(study, OfData)
      /\ DOMAIN report.by = DOMAIN point
      /\ \A l \in DOMAIN point : report.by[l].estimate = point[l]
      /\ report.nA = Len(a) /\ report.nB = Len(b)
  BY DEF FiguresAreKept
<1>2. /\ OfData.a = a /\ Len(a) >= 2
      /\ IsFiniteSet(GroupRows(study, cmp))
      /\ Len(a) = Cardinality(GroupRows(study, cmp)) /\ Len(a) \in Nat
      /\ \A k \in 1..Len(a) : a[k] \in GroupRows(study, cmp)
      /\ \A i \in GroupRows(study, cmp) : \E k \in 1..Len(a) : a[k] = i
      /\ Len(b) = Cardinality(GroupRows(study, {study.base}))
  BY <1>1, PassHasGroups, GroupInPlace
<1>3. \A l \in DOMAIN report.by : report.by[l].estimate.pass.a = a
  <2>1. \A l \in DOMAIN point : point[l].pass = OfData
    BY <1>1 DEF Effects
  <2>2. OfData.a = a
    BY <1>2
  <2> HIDE DEF a
  <2>3. ASSUME NEW l \in DOMAIN report.by PROVE report.by[l].estimate.pass.a = a
    <3>1. report.by[l].estimate = point[l] /\ point[l].pass = OfData
      BY <1>1, <2>1
    <3> QED  BY <2>2, <3>1
  <2> QED  BY <2>3
<1>4. \E l : l \in DOMAIN report.by
  <2> DEFINE taus == study.quantiles
  <2>1. taus \in Seq(0..1000) /\ taus # <<>>
    BY <1>1 DEF StudyTyped
  <2>2. DOMAIN point = {Label(taus[k]) : k \in DOMAIN taus}
    BY <1>1 DEF Effects
  <2> HIDE DEF taus
  <2>3. 1 \in DOMAIN taus
    BY ONLY <2>1
  <2> QED  BY <1>1, <2>2, <2>3
<1> HIDE DEF a, b, cmp
<1>5. compared = GroupRows(study, cmp) /\ Reference = GroupRows(study, {study.base})
  <2> DEFINE G == GroupRows(study, cmp)
             D == DOMAIN study.data
  <2>1. Reference = GroupRows(study, {study.base})
    BY DEF GroupRows
  <2>2. G \subseteq D
    BY DEF GroupRows
  <2>3. compared = {i \in D : \E l \in DOMAIN report.by : Contains(a, i)}
    BY <1>3
  <2>4. \A i : Contains(a, i) <=> \E k \in 1..Len(a) : a[k] = i
    BY DEF Contains
  <2>5. \A i \in D : Contains(a, i) <=> i \in G
    <3>1. /\ \A k \in 1..Len(a) : a[k] \in G
          /\ \A i \in G : \E k \in 1..Len(a) : a[k] = i
      BY <1>2
    <3> HIDE DEF G, D
    <3> QED  BY ONLY <2>4, <3>1
  <2> HIDE DEF G, D, compared
  <2>6. compared = G
    BY ONLY <1>4, <2>2, <2>3, <2>5
  <2> QED  BY <2>1, <2>6 DEF G
<1>6. report.nA = Cardinality(compared) /\ report.nB = Cardinality(Reference)
  <2> HIDE DEF compared, Reference
  <2> QED  BY <1>1, <1>2, <1>5
<1>7. CASE cmp # {study.base}
  <2>1. compared \cap Reference = {}
    <3> HIDE DEF compared, Reference
    <3> QED  BY <1>5, <1>7 DEF GroupRows
  <2>2. {study.data[i].group : i \in compared} = {cmp}
    <3> HIDE DEF compared, Reference
    <3>1. PICK k \in 1..Len(a) : TRUE
      BY <1>2
    <3>2. a[k] \in compared
      BY <1>2, <1>5, <3>1
    <3> QED  BY <1>5, <3>2 DEF GroupRows
  <2>3. Cardinality({study.data[i].group : i \in compared}) = 1
    <3> HIDE DEF compared
    <3> QED  BY <2>2, FS_Singleton
  <2> QED  BY <1>6, <2>1, <2>3 DEF TwoGroupsAreCompared
<1>8. CASE cmp = {study.base}
  <2>1. OnItself
    BY <1>8 DEF OnItself, cmp
  <2>2. \E i \in DOMAIN study.data : study.data[i].group = {}
    BY <1>1, <2>1, OnItselfByBlank
  <2>3. compared = Reference
    <3> HIDE DEF compared, Reference
    <3> QED  BY <1>5, <1>8
  <2>4. estimates = <<>>
    BY <1>1, <2>1, OnItselfFails DEF FiguresAreKept
  <2>5. /\ report.succeeded = 0
        /\ \A l \in DOMAIN report.by : report.by[l].distribution = <<>>
    BY <1>1, <2>4 DEF FiguresAreKept
  <2> QED  BY <2>2, <2>3, <2>5 DEF TwoGroupsAreCompared
<1> QED  BY <1>7, <1>8

\* Whoever calls, the data, the quantiles and the draws are what they are to be.
LEMMA FiguresInit == CommandLineInit => FiguresAreKept
<1> SUFFICES ASSUME CommandLineInit PROVE FiguresAreKept
  OBVIOUS
<1>1. ASSUME asked \in Commands PROVE Analysis # "simulated"
  <2>1. /\ asked.verb \in {"run", "report"}
        /\ asked.type \in {"mean", "quantile", "akm", "match"}
    BY <1>1, CommandsTyped
  <2> QED  BY <2>1 DEF Analysis, AnalysisOf
<1>2. StudyTyped
  <2>1. CASE Analysis # "simulated"
    <3>1. study = NoStudy
      BY <2>1 DEF CommandLineInit, Only
    <3>2. /\ study.data = <<>> /\ study.base = 0 /\ study.quantiles = <<>>
          /\ study.reps = 0 /\ study.tape = <<>>
      BY <3>1 DEF NoStudy
    <3>3. DOMAIN study.data = {} /\ DOMAIN study.tape = {} /\ 0..(2 * study.reps - 1) = {}
      BY <3>2
    <3> QED  BY <3>2, <3>3, EmptySeq DEF StudyTyped
  <2>2. CASE Analysis = "simulated"
    <3>1. study \in QuantileCalls
      BY <1>1, <2>2 DEF CommandLineInit, LibraryCall, CommandCall
    <3> QED  BY <3>1, QuantileCallsTyped DEF StudyTyped
  <2> QED  BY <2>1, <2>2
<1>3. phase = "point" /\ estimates = <<>>
  BY DEF CommandLineInit, QuantileInit
<1> QED  BY <1>2, <1>3 DEF FiguresAreKept

\* Each step keeps the figures and what they rest on.
LEMMA FiguresNext ==
    FiguresAreKept /\ PlacesAreTheirs /\ [CommandLineNext]_allVars => FiguresAreKept'
<1> SUFFICES ASSUME FiguresAreKept, PlacesAreTheirs, [CommandLineNext]_allVars
             PROVE  FiguresAreKept'
  OBVIOUS
<1>1. ASSUME study' = study
      PROVE  /\ StudyTyped' /\ OfData' = OfData /\ Reps' = Reps
             /\ \A p : Effects(study, p)' = Effects(study, p)
             /\ \A r : Replicate(study, r)' = Replicate(study, r)
  <2>1. StudyTyped'
    <3>1. StudyTyped
      BY DEF FiguresAreKept
    <3> QED  BY ONLY <1>1, <3>1, Zenon DEF StudyTyped
  <2>2. OfData' = OfData /\ Reps' = Reps
    BY <1>1 DEF OfData, Reps
  <2> QED  BY <1>1, <2>1, <2>2
<1>2. ASSUME UNCHANGED <<study, point, estimates, report>>, phase' = phase
      PROVE  FiguresAreKept'
  BY <1>1, <1>2 DEF FiguresAreKept
<1>3. CASE UNCHANGED quantileVars
  BY <1>2, <1>3 DEF quantileVars, foldVars
<1>4. CASE PointPass
  <2>1. /\ phase = "point" /\ UNCHANGED <<study, estimates>>
        /\ \/ phase' = "refused"
           \/ /\ phase' = "replicate" /\ OfData.error = ""
              /\ point' = Effects(study, OfData)
    BY <1>4 DEF PointPass, OfData, foldVars
  <2>2. estimates = <<>>
    BY <2>1 DEF FiguresAreKept
  <2> QED  BY <1>1, <2>1, <2>2 DEF FiguresAreKept
<1>5. ASSUME NEW w \in Threads, End(w) \/ \E r \in Reps : Begin(w, r)
      PROVE  FiguresAreKept'
  <2>1. UNCHANGED <<study, point, estimates, report>> /\ phase' = phase
    BY <1>5 DEF End, Begin, foldVars
  <2> QED  BY <1>2, <2>1
<1>6. CASE Collect
  <2>1. /\ phase = "replicate" /\ phase' = "fold"
        /\ UNCHANGED <<study, point, estimates>>
    BY <1>6 DEF Collect, foldVars
  <2> QED  BY <1>1, <2>1 DEF FiguresAreKept
<1>7. CASE FoldOutcome
  <2>1. /\ phase = "fold" /\ phase' = "fold" /\ taken < study.reps
        /\ UNCHANGED <<study, point>>
        /\ \/ task[taken].pass.error = ""
           \/ UNCHANGED estimates
    BY <1>7 DEF FoldOutcome
  <2>2. taken \in Reps
    <3>1. study.reps \in Nat /\ taken \in 0..study.reps
      BY DEF PlacesAreTheirs
    <3>2. taken < study.reps
      BY <2>1
    <3> QED  BY ONLY <3>1, <3>2 DEF Reps
  <2>3. task[taken].pass = Replicate(study, taken)
    BY <2>1, <2>2 DEF PlacesAreTheirs
  <2>4. estimates' # <<>> => \E r \in Reps : Replicate(study, r).error = ""
    BY <2>1, <2>2, <2>3 DEF FiguresAreKept
  <2> QED  BY <1>1, <2>1, <2>4 DEF FiguresAreKept
<1>8. CASE Summarise
  <2> DEFINE Holding(l) ==
               At(estimates, {k \in DOMAIN estimates : l \in DOMAIN estimates[k]})
             by == [l \in DOMAIN point |->
                      [estimate |-> point[l],
                       distribution |-> [k \in DOMAIN Holding(l) |-> Holding(l)[k][l]]]]
             nA == Len(OfValue(study, All(study),
                               Compared(study, Cells(study, All(study)))))
             nB == Len(OfValue(study, All(study), {study.base}))
  <2>1. /\ phase = "fold" /\ phase' = "done" /\ UNCHANGED <<study, point, estimates>>
        /\ report' = [by |-> by, succeeded |-> Len(estimates), discarded |-> discards,
                      nA |-> nA, nB |-> nB]
    BY <1>8 DEF Summarise, foldVars
  <2>2. ASSUME estimates = <<>>, NEW l \in DOMAIN point
        PROVE  by[l].distribution = <<>>
    <3> DEFINE P == {k \in DOMAIN estimates : l \in DOMAIN estimates[k]}
    <3>1. P = {}
      BY <2>2
    <3>2. DOMAIN Ascending(P) = {}
      <4>1. DOMAIN Ascending({}) = 1..0
        BY FS_EmptySet DEF Ascending
      <4>2. Ascending(P) = Ascending({})
        BY ONLY <3>1
      <4> QED  BY ONLY <4>1, <4>2
    <3>3. DOMAIN Holding(l) = {}
      BY <3>2 DEF At
    <3> HIDE DEF Holding
    <3>4. by[l].distribution = [k \in DOMAIN Holding(l) |-> Holding(l)[k][l]]
      OBVIOUS
    <3>5. [k \in DOMAIN Holding(l) |-> Holding(l)[k][l]] = <<>>
      BY <3>3
    <3> QED  BY <3>4, <3>5
  <2> HIDE DEF by, nA, nB
  <2>3. /\ report'.by = by /\ report'.succeeded = Len(estimates)
        /\ report'.nA = nA /\ report'.nB = nB
    BY <2>1
  <2>4. DOMAIN by = DOMAIN point /\ \A l \in DOMAIN point : by[l].estimate = point[l]
    BY DEF by
  <2>5. /\ nA' = nA /\ nB' = nB
    BY <2>1 DEF nA, nB
  <2>6. estimates = <<>> => Len(estimates) = 0
    OBVIOUS
  <2>7. /\ DOMAIN report'.by = DOMAIN point'
        /\ \A l \in DOMAIN point' : report'.by[l].estimate = point'[l]
        /\ estimates' = <<>> =>
              /\ report'.succeeded = 0
              /\ \A l \in DOMAIN point' : report'.by[l].distribution = <<>>
        /\ report'.nA = nA' /\ report'.nB = nB'
    BY <2>1, <2>2, <2>3, <2>4, <2>5, <2>6
  <2>8. /\ StudyTyped' /\ point' = Effects(study, OfData)' /\ OfData'.error = ""
        /\ estimates' # <<>> => \E r \in Reps' : Replicate(study, r)'.error = ""
    BY <1>1, <2>1 DEF FiguresAreKept
  <2> QED  BY <2>1, <2>7, <2>8 DEF FiguresAreKept, nA, nB
<1> QED
  BY <1>3, <1>4, <1>5, <1>6, <1>7, <1>8, QuantileSteps DEF QuantileNext, QuantileMain

\* The simulated quantiles compare the reference with another group, or are a
\* figure without an error, whatever the blanks of the group column.
THEOREM GroupsAreTwo == CommandLineSpec => []TwoGroupsAreCompared
<1>1. CommandLineSpec => []PlacesAreTheirs
  BY PlacesInit, PlacesNext, PTL DEF CommandLineSpec
<1> QED
  BY <1>1, FiguresInit, FiguresNext, GroupsInOtherWords, PTL DEF CommandLineSpec

-----------------------------------------------------------------------------
(* The rows of the two groups *)

\* The rows without a blank, and a column's levels over them: the first has
\* no indicator.
Whole == {i \in 1..Height(file) : ~Incomplete(i)}
LevelsKept(c) == {file[c][i] : i \in Whole}
Indicated(c) == LevelsKept(c) \ {Ascending(LevelsKept(c))[1]}

\* The names of columns: of a file's own, and of indicators.
NameParts == STRING \cup Int
ColumnTuples == Seq(NameParts)

\* What a builder is asked, as far as its rows depend on it.
AskTyped ==
    /\ ask.path \in {"run", "quantile", "matrices"}
    /\ ask.reference \in Int
    /\ ask.numeric \in Seq(ColumnNames) /\ ask.cats \in Seq(ColumnNames)
    /\ ask.selectors \in Seq(ColumnNames)

\* f has columns, each of n cells.
Tall(f, n) ==
    /\ DOMAIN f # {} /\ n \in Nat
    /\ \A c \in DOMAIN f : f[c] \in [1..n -> Int \cup {NoCell}]

\* Row k of f is row p[k] of the file, with its number and the indicators of
\* its levels.
Rowed(f, names, p) ==
    /\ Tall(f, Len(p))
    /\ DOMAIN file \subseteq DOMAIN f
    /\ \A c \in DOMAIN file, k \in 1..Len(p) : f[c][k] = file[c][p[k]]
    /\ ask.path = "matrices" =>
          /\ Ordinal \in DOMAIN f
          /\ \A k \in 1..Len(p) : f[Ordinal][k] = p[k] - 1
    /\ \A d \in ToSet(names) :
          /\ Len(d) = 2 /\ d \in DOMAIN f
          /\ \A k \in 1..Len(p) :
                f[d][k] = IF file[<<d[1]>>][p[k]] = d[2] THEN 1 ELSE 0

\* The group column has been checked.
TwoValues ==
    Group \in DOMAIN file =>
        ask.reference \in GroupValues(file) /\ Cardinality(GroupValues(file)) <= 2

\* The names of the indicators of the first n predictors.
NamesMade(n) ==
    UNION {{Append(ask.cats[j], l) : l \in Indicated(ask.cats[j])} : j \in 1..n}

\* The columns have been checked; the indicators made so far are those of
\* the levels but the first.
Cleaned ==
    /\ TwoValues
    /\ \A k \in DOMAIN CleaningColumns(ask) :
          CleaningColumns(ask)[k].column \in DOMAIN file
    /\ encoded \in 0..Len(ask.cats)
    /\ dummies \in Seq(ColumnTuples)
    /\ ToSet(dummies) = NamesMade(encoded)
    /\ ask.path = "matrices" => ExclusionsAreComplete

\* Each group has its rows of the file, in the file's order.
RowsSplit ==
    /\ DOMAIN groups = {"target", "reference"}
    /\ \A g \in DOMAIN groups : Rowed(groups[g], dummies, Ascending(RowsOf(g)))
    /\ encoded = Len(ask.cats)
    /\ Whole # {} /\ Whole = RowsOf("target") \cup RowsOf("reference")

\* The constant and the indicators of a predictor, a cell of one of them,
\* and a combination of them at a row.
Terms(c) == {Intercept} \cup {n \in ToSet(dummies) : <<n[1]>> = c}
TermAt(f, t, k) == IF t = Intercept THEN 1 ELSE f[t][k]
Combined(f, c, v, k) ==
    SumFunctionOnSet([t \in Terms(c) |-> v[t] * TermAt(f, t, k)], Terms(c))
Counts(f, k) == Weighted(ask) => f[ask.weights][k] > 0

\* The levels of the two groups, and those one of them lacks.
LevelsFound(gs, c) == UNION {{gs[g][c][i] : i \in DOMAIN gs[g][c]} : g \in DOMAIN gs}
Lacking(gs, c) ==
    {l \in LevelsFound(gs, c) : \E g \in DOMAIN gs : l \notin LevelsPresent(gs[g], c)}

Collapsed == \E g \in DOMAIN groups, i \in DOMAIN ask.cats :
                Collapses(groups[g], ask.cats[i])

\* The design and the outcome are those of the rows p of the file.
Designed(d, p) ==
    /\ d.x = [k \in 1..Len(p) |-> d.x[k]] /\ d.y = [k \in 1..Len(p) |-> d.y[k]]
    /\ \A k \in 1..Len(p) :
          Carries(d.x[k], d.names, p[k]) /\ d.y[k] = file[Outcome][p[k]]

\* What a selection model reads of group g is of the rows of the group that
\* are selected.
Chosen(g) == {i \in RowsOf(g) : file[ask.selection][i] = 1}
SelectedFrom(s, g) ==
    LET own == Ascending(Chosen(g))
    IN  /\ Len(s.x) = Len(own) /\ Len(s.y) = Len(own) /\ Len(s.selectors) = Len(own)
        /\ \A k \in DOMAIN own :
              /\ Carries(s.x[k], s.names, own[k])
              /\ s.y[k] = file[Outcome][own[k]]
              /\ Tail(s.selectors[k]) =
                    [j \in DOMAIN ask.selectors |-> file[ask.selectors[j]][own[k]]]

\* Of the pooled design s, and of the matrices, everything said of a row of
\* group g is said of that row.
Pooled(s, g) ==
    LET m == matrices[g] IN
    /\ m.rows = Ascending({i - 1 : i \in RowsOf(g)})
    /\ \A k \in DOMAIN m.rows :
          LET o == m.rows[k] IN
          /\ Carries(m.data.x[k], m.data.names, o + 1)
          /\ m.data.y[k] = file[Outcome][o + 1]
          /\ s.y[s.slot[o]] = file[Outcome][o + 1]
          /\ s.x[s.slot[o]] =
                <<1, IF g = "target" THEN 1 ELSE 0>> \o Tail(m.data.x[k])

\* Stage by stage, what is so of the rows from there on, and what a refusal
\* rests on. The rows of a frame are put in relation to those of the file from
\* the cleaning to the end; the properties only speak of the end.
RowsAreKept ==
    /\ Analysis # "builder" => stage = "check"
    /\ Analysis = "builder" => FileTyped(file) /\ AskTyped
    /\ stage # "refused" => refusal = <<>>
    /\ refusal \notin {<<"row accounting mismatch">>, <<"row alignment">>}
    /\ refusal # <<>> /\ refusal[1] = "level confined" =>
          Collapses(groups[refusal[4]], refusal[2])
    /\ stage \in {"check", "clean"} => encoded = 0 /\ dummies = <<>>
    /\ stage = "clean" => TwoValues
    /\ stage \in {"encode", "confine", "transform", "select", "matrices", "estimate",
                  "pool"} => Cleaned
    /\ stage = "encode" => Rowed(frame, dummies, Ascending(Whole))
    /\ stage \in {"confine", "transform", "select", "matrices", "estimate", "pool"} =>
          RowsSplit
    /\ stage \in {"transform", "select", "estimate"} => ~Collapsed
    /\ stage \in {"confine", "transform", "select", "estimate", "price", "decompose"} =>
          ask.path # "matrices"
    /\ stage \in {"matrices", "pool"} => ask.path = "matrices"
    /\ stage = "pool" =>
          /\ DOMAIN matrices = {"target", "reference"}
          /\ \A g \in DOMAIN matrices :
                /\ Designed(matrices[g].data, Ascending(RowsOf(g)))
                /\ matrices[g].rows = Ascending({i - 1 : i \in RowsOf(g)})
    /\ stage = "done" /\ ask.path = "matrices" =>
          /\ \A g \in DOMAIN matrices : OwnRows(g)
          /\ ExclusionsAreComplete
    /\ stage = "estimate" /\ Selecting(ask) =>
          \A g \in DOMAIN selected : SelectedRows(g)

\* Ascending(S) as a sequence.
LEMMA AscendingIsASequence ==
    ASSUME NEW S, S \subseteq Int, IsFiniteSet(S)
    PROVE  /\ Cardinality(S) \in Nat /\ Len(Ascending(S)) = Cardinality(S)
           /\ DOMAIN Ascending(S) = 1..Cardinality(S)
           /\ Ascending(S) \in [1..Cardinality(S) -> S] /\ Ascending(S) \in Seq(S)
           /\ \A i, j \in 1..Cardinality(S) : i < j => Ascending(S)[i] < Ascending(S)[j]
           /\ \A i, j \in 1..Cardinality(S) : Ascending(S)[i] = Ascending(S)[j] => i = j
           /\ S = {Ascending(S)[k] : k \in 1..Cardinality(S)}
<1> DEFINE s == Ascending(S)
           n == Cardinality(S)
<1>1. /\ n \in Nat /\ s \in [1..n -> S]
      /\ \A i, j \in 1..n : i < j => s[i] < s[j]
      /\ \A x \in S : \E k \in 1..n : s[k] = x
  BY AscendingEnumerates
<1> HIDE DEF s, n
<1>2. s \in Seq(S) /\ Len(s) = n /\ DOMAIN s = 1..n
  BY <1>1
<1>3. ASSUME NEW i \in 1..n, NEW j \in 1..n, s[i] = s[j] PROVE i = j
  <2>1. s[i] \in S /\ s[j] \in S
    BY <1>1
  <2>2. s[i] \in Int /\ s[j] \in Int /\ i \in Int /\ j \in Int
    <3>1. i \in Int /\ j \in Int
      BY <1>1
    <3> QED  BY <2>1, <3>1
  <2>3. ~(s[i] < s[j]) /\ ~(s[j] < s[i])
    BY <1>3, <2>2
  <2>4. ~(i < j) /\ ~(j < i)
    BY <1>1, <2>3
  <2> QED  BY <2>2, <2>4
<1>4. S = {s[k] : k \in 1..n}
  BY <1>1
<1> QED  BY <1>1, <1>2, <1>3, <1>4 DEF s, n

\* Positions are numbers, finitely many.
LEMMA PositionsAreFinite ==
    ASSUME NEW n \in Nat, NEW S, S \subseteq 1..n
    PROVE  IsFiniteSet(S) /\ S \subseteq Int /\ Cardinality(S) \in Nat
<1>1. IsFiniteSet(1..n)
  BY FS_Interval
<1>2. S \in SUBSET (1..n)
  OBVIOUS
<1>3. IsFiniteSet(S)
  BY <1>1, <1>2, FS_Subset
<1>4. \A x \in 1..n : x \in Int
  OBVIOUS
<1> QED  BY <1>3, <1>4, FS_CardinalityType

\* The elements at some positions, in their order.
LEMMA AtPositions ==
    ASSUME NEW X, NEW s \in Seq(X), NEW P, P \subseteq DOMAIN s
    PROVE  /\ Cardinality(P) \in Nat /\ Len(At(s, P)) = Cardinality(P)
           /\ DOMAIN At(s, P) = 1..Cardinality(P)
           /\ At(s, P) \in [1..Cardinality(P) -> X] /\ At(s, P) \in Seq(X)
           /\ \A k \in 1..Cardinality(P) :
                 Ascending(P)[k] \in P /\ At(s, P)[k] = s[Ascending(P)[k]]
           /\ \A i \in P : \E k \in 1..Cardinality(P) : Ascending(P)[k] = i
           /\ \A j, k \in 1..Cardinality(P) : Ascending(P)[j] = Ascending(P)[k] => j = k
           /\ (At(s, P) = <<>>) = (P = {})
           /\ ToSet(At(s, P)) = {s[i] : i \in P}
<1> DEFINE n == Cardinality(P)
           p == Ascending(P)
           r == At(s, P)
<1>1. DOMAIN s = 1..Len(s) /\ Len(s) \in Nat /\ \A i \in DOMAIN s : s[i] \in X
  OBVIOUS
<1>2. IsFiniteSet(P) /\ P \subseteq Int
  BY <1>1, PositionsAreFinite
<1>3. /\ n \in Nat /\ DOMAIN p = 1..n /\ p \in [1..n -> P]
      /\ \A j, k \in 1..n : p[j] = p[k] => j = k
      /\ P = {p[k] : k \in 1..n}
  BY <1>2, AscendingIsASequence
<1>4. r = [k \in DOMAIN p |-> s[p[k]]]
  BY DEF At
<1> HIDE DEF n, p, r
<1>5. r = [k \in 1..n |-> s[p[k]]]
  BY <1>3, <1>4
<1>6. \A k \in 1..n : p[k] \in P /\ s[p[k]] \in X
  BY <1>1, <1>3
<1>7. r \in [1..n -> X]
  BY <1>5, <1>6
<1>8. r \in Seq(X) /\ Len(r) = n /\ DOMAIN r = 1..n
  BY <1>3, <1>7
<1>9. (r = <<>>) = (P = {})
  <2>1. CASE P = {}
    <3>1. n = 0
      BY <2>1, FS_EmptySet DEF n
    <3> QED  BY <2>1, <3>1, <1>8
  <2>2. CASE P # {}
    <3>1. n # 0
      BY <1>3, <2>2
    <3> QED  BY <1>8, <2>2, <3>1
  <2> QED  BY <2>1, <2>2
<1>10. ToSet(r) = {s[i] : i \in P}
  <2>1. ToSet(r) = {r[k] : k \in 1..n}
    BY <1>8 DEF ToSet
  <2>2. \A k \in 1..n : r[k] = s[p[k]]
    BY <1>5
  <2> QED  BY <1>3, <2>1, <2>2
<1> QED  BY <1>3, <1>5, <1>6, <1>7, <1>8, <1>9, <1>10 DEF n, p, r

\* r is what p has at the first m places of q.
Picks(r, p, q, m) == \A k \in 1..m : r[k] = p[q[k]]

\* The places in Ascending(S) of the members of a part T of S: at them stand
\* the members of T, in their order.
LEMMA PlacesOfPart ==
    ASSUME NEW n \in Nat, NEW S, S \subseteq 1..n, NEW T, T \subseteq S,
           NEW J, \A j : j \in J <=> (j \in 1..Cardinality(S) /\ Ascending(S)[j] \in T)
    PROVE  LET p == Ascending(S)
               q == Ascending(J)
           IN  /\ DOMAIN q = 1..Cardinality(T) /\ Len(q) = Cardinality(T)
               /\ q \in [1..Cardinality(T) -> 1..Cardinality(S)]
               /\ Picks(Ascending(T), p, q, Cardinality(T))
<1> DEFINE p == Ascending(S)
           m == Cardinality(S)
           q == Ascending(J)
           t == Cardinality(J)
           r == [k \in 1..t |-> p[q[k]]]
<1>0. \A j : j \in J <=> (j \in 1..m /\ p[j] \in T)
  OBVIOUS
<1>1. IsFiniteSet(S) /\ S \subseteq Int
  BY PositionsAreFinite
<1>2. /\ m \in Nat /\ p \in [1..m -> S]
      /\ \A i, j \in 1..m : i < j => p[i] < p[j]
      /\ S = {p[k] : k \in 1..m}
  BY <1>1, AscendingIsASequence
<1> HIDE DEF p, m
<1>3. J \subseteq 1..m
  BY <1>0
<1>4. IsFiniteSet(J) /\ J \subseteq Int
  BY <1>2, <1>3, PositionsAreFinite
<1> HIDE DEF r
<1>5. /\ t \in Nat /\ DOMAIN q = 1..t /\ Len(q) = t /\ q \in [1..t -> J]
      /\ \A i, j \in 1..t : i < j => q[i] < q[j]
      /\ \A x \in J : \E k \in 1..t : q[k] = x
  <2>1. /\ t \in Nat /\ q \in [1..t -> J]
        /\ \A i, j \in 1..t : i < j => q[i] < q[j]
        /\ \A x \in J : \E k \in 1..t : q[k] = x
    BY <1>4, AscendingEnumerates
  <2>2. DOMAIN q = 1..t /\ Len(q) = t
    BY <1>4, AscendingIsASequence
  <2> QED  BY <2>1, <2>2
<1> HIDE DEF q, t
<1>6. r \in [1..t -> T]
  <2>1. \A k \in 1..t : q[k] \in J
    BY <1>5
  <2> QED  BY <1>0, <2>1 DEF r
<1>7. ASSUME NEW i \in 1..t, NEW j \in 1..t, i < j PROVE r[i] < r[j]
  <2>1. q[i] \in 1..m /\ q[j] \in 1..m /\ q[i] < q[j]
    BY <1>3, <1>5, <1>7
  <2> QED  BY <1>2, <2>1 DEF r
<1>8. ASSUME NEW x \in T PROVE \E k \in 1..t : r[k] = x
  <2>1. PICK j \in 1..m : p[j] = x
    BY <1>2
  <2>2. j \in J
    BY <1>0, <2>1
  <2>3. PICK k \in 1..t : q[k] = j
    BY <1>5, <2>2
  <2> QED  BY <2>1, <2>3 DEF r
<1>9. T \subseteq Int
  BY <1>1
<1>10. Cardinality(T) = t /\ r = Ascending(T)
  <2>1. /\ t \in Nat /\ r \in [1..t -> T] /\ T \subseteq Int
        /\ \A i, j \in 1..t : i < j => r[i] < r[j]
        /\ \A x \in T : \E k \in 1..t : r[k] = x
    BY <1>5, <1>6, <1>7, <1>8, <1>9
  <2> QED  BY ONLY <2>1, AscendingIsOne
<1>11. Picks(Ascending(T), p, q, t)
  BY <1>10 DEF r, Picks
<1>12. q \in [1..t -> 1..m]
  BY <1>3, <1>5
<1> QED  BY <1>5, <1>10, <1>11, <1>12 DEF p, m, q, t

\* Rows counted from zero.
LEMMA FromZero ==
    ASSUME NEW n \in Nat, NEW S, S \subseteq 1..n
    PROVE  /\ Ascending({i - 1 : i \in S}) = [k \in 1..Cardinality(S) |-> Ascending(S)[k] - 1]
           /\ Cardinality({i - 1 : i \in S}) = Cardinality(S)
<1> DEFINE p == Ascending(S)
           m == Cardinality(S)
           Z == {i - 1 : i \in S}
           r == [k \in 1..m |-> p[k] - 1]
<1>1. IsFiniteSet(S) /\ S \subseteq Int
  BY PositionsAreFinite
<1> HIDE DEF Z, r
<1>2. /\ m \in Nat /\ p \in [1..m -> S]
      /\ \A i, j \in 1..m : i < j => p[i] < p[j]
      /\ \A x \in S : \E k \in 1..m : p[k] = x
  BY <1>1, AscendingEnumerates
<1> HIDE DEF p, m
<1> USE DEF Z, r
<1>3. Z \subseteq Int
  BY <1>1
<1>4. r \in [1..m -> Z]
  BY <1>2
<1>5. ASSUME NEW i \in 1..m, NEW j \in 1..m, i < j PROVE r[i] < r[j]
  <2>1. p[i] \in Int /\ p[j] \in Int /\ p[i] < p[j]
    BY <1>1, <1>2, <1>5
  <2> QED  BY <2>1
<1>6. ASSUME NEW x \in Z PROVE \E k \in 1..m : r[k] = x
  <2>1. PICK i \in S : x = i - 1
    OBVIOUS
  <2>2. PICK k \in 1..m : p[k] = i
    BY <1>2
  <2> QED  BY <2>1, <2>2
<1> HIDE DEF r, Z
<1>7. Cardinality(Z) = m /\ r = Ascending(Z)
  BY <1>2, <1>3, <1>4, <1>5, <1>6, AscendingIsOne
<1> QED  BY <1>7 DEF p, m, Z, r

-----------------------------------------------------------------------------
(* Frames *)

\* A frame is as high as its columns.
LEMMA TallIsHigh ==
    ASSUME NEW f, NEW n, Tall(f, n)
    PROVE  Height(f) = n /\ \A c \in DOMAIN f : Len(f[c]) = n /\ DOMAIN f[c] = 1..n
<1>1. n \in Nat /\ DOMAIN f # {} /\ \A c \in DOMAIN f : f[c] \in [1..n -> Int \cup {NoCell}]
  BY DEF Tall
<1>2. \A c \in DOMAIN f : Len(f[c]) = n /\ DOMAIN f[c] = 1..n
  BY <1>1
<1>3. (CHOOSE c \in DOMAIN f : TRUE) \in DOMAIN f
  BY <1>1
<1> QED  BY <1>1, <1>2, <1>3 DEF Height

\* The file's columns are all of one height.
LEMMA FileIsTall ==
    ASSUME NEW f, FileTyped(f)
    PROVE  Height(f) \in Nat /\ Tall(f, Height(f))
<1> DEFINE col == CHOOSE c \in DOMAIN f : TRUE
<1>1. /\ DOMAIN f # {}
      /\ \A c \in DOMAIN f : f[c] \in Seq(Int \cup {NoCell})
      /\ \A c, other \in DOMAIN f : Len(f[c]) = Len(f[other])
  BY DEF FileTyped
<1>2. col \in DOMAIN f /\ Height(f) = Len(f[col])
  BY <1>1 DEF Height
<1> HIDE DEF col
<1>3. Height(f) \in Nat
  BY <1>1, <1>2
<1>4. ASSUME NEW c \in DOMAIN f
      PROVE  f[c] \in [1..Height(f) -> Int \cup {NoCell}]
  <2>1. f[c] \in Seq(Int \cup {NoCell}) /\ Len(f[c]) = Height(f)
    BY <1>1, <1>2
  <2> QED  BY <2>1
<1> QED  BY <1>1, <1>3, <1>4 DEF Tall

\* The rows taken from a frame.
LEMMA TakeIsTall ==
    ASSUME NEW f, NEW n, Tall(f, n), NEW m \in Nat, NEW q \in [1..m -> 1..n]
    PROVE  /\ Tall(Take(f, q), m)
           /\ DOMAIN Take(f, q) = DOMAIN f
           /\ \A c \in DOMAIN f, k \in 1..m : Take(f, q)[c][k] = f[c][q[k]]
<1>1. n \in Nat /\ DOMAIN f # {} /\ \A c \in DOMAIN f : f[c] \in [1..n -> Int \cup {NoCell}]
  BY DEF Tall
<1>2. Take(f, q) = [c \in DOMAIN f |-> [k \in 1..m |-> f[c][q[k]]]]
  BY DEF Take
<1>3. ASSUME NEW c \in DOMAIN f
      PROVE  [k \in 1..m |-> f[c][q[k]]] \in [1..m -> Int \cup {NoCell}]
  BY <1>1
<1> QED  BY <1>1, <1>2, <1>3 DEF Tall

\* Of rows in their place, those taken are in theirs.
LEMMA TakeIsRowed ==
    ASSUME NEW f, NEW names, NEW p, Rowed(f, names, p), NEW m \in Nat,
           NEW q \in [1..m -> 1..Len(p)],
           NEW r, Len(r) = m, \A k \in 1..m : r[k] = p[q[k]]
    PROVE  Rowed(Take(f, q), names, r)
<1>1. Tall(f, Len(p))
  BY DEF Rowed
<1>2. /\ Tall(Take(f, q), m) /\ DOMAIN Take(f, q) = DOMAIN f
      /\ \A c \in DOMAIN f, k \in 1..m : Take(f, q)[c][k] = f[c][q[k]]
  <2>1. m \in Nat /\ q \in [1..m -> 1..Len(p)]
    OBVIOUS
  <2> QED  BY ONLY <1>1, <2>1, TakeIsTall
<1>3. \A k \in 1..m : q[k] \in 1..Len(p)
  OBVIOUS
<1>4. DOMAIN file \subseteq DOMAIN f
  BY DEF Rowed
<1>5. \A c \in DOMAIN file, k \in 1..m : Take(f, q)[c][k] = file[c][r[k]]
  <2> SUFFICES ASSUME NEW c \in DOMAIN file, NEW k \in 1..m
               PROVE  Take(f, q)[c][k] = file[c][r[k]]
    OBVIOUS
  <2>1. f[c][q[k]] = file[c][p[q[k]]]
    BY <1>3 DEF Rowed
  <2> QED  BY <1>2, <1>4, <2>1
<1>6. ASSUME ask.path = "matrices"
      PROVE  Ordinal \in DOMAIN f /\ \A k \in 1..m : Take(f, q)[Ordinal][k] = r[k] - 1
  <2>1. Ordinal \in DOMAIN f /\ \A k \in 1..Len(p) : f[Ordinal][k] = p[k] - 1
    BY <1>6 DEF Rowed
  <2> QED  BY <1>2, <1>3, <2>1
<1>7. ASSUME NEW d \in ToSet(names)
      PROVE  /\ Len(d) = 2 /\ d \in DOMAIN f
             /\ \A k \in 1..m :
                   Take(f, q)[d][k] = IF file[<<d[1]>>][r[k]] = d[2] THEN 1 ELSE 0
  <2>1. /\ Len(d) = 2 /\ d \in DOMAIN f
        /\ \A k \in 1..Len(p) :
              f[d][k] = IF file[<<d[1]>>][p[k]] = d[2] THEN 1 ELSE 0
    BY DEF Rowed
  <2>2. ASSUME NEW k \in 1..m
        PROVE  Take(f, q)[d][k] = IF file[<<d[1]>>][r[k]] = d[2] THEN 1 ELSE 0
    <3>1. f[d][q[k]] = IF file[<<d[1]>>][p[q[k]]] = d[2] THEN 1 ELSE 0
      BY <1>3, <2>1
    <3> QED  BY <1>2, <2>1, <3>1
  <2> QED  BY <2>1, <2>2
<1> QED  BY <1>2, <1>4, <1>5, <1>6, <1>7 DEF Rowed

\* Two sequences, one after the other.
LEMMA ConcatIsBoth ==
    ASSUME NEW X, NEW s \in Seq(X), NEW t \in Seq(X)
    PROVE  s \o t \in Seq(X) /\ ToSet(s \o t) = ToSet(s) \cup ToSet(t)
<1>1. /\ s \o t \in Seq(X) /\ Len(s \o t) = Len(s) + Len(t)
      /\ \A i \in 1..Len(s) : (s \o t)[i] = s[i]
      /\ \A i \in 1..Len(t) : (s \o t)[Len(s) + i] = t[i]
      /\ Len(s) \in Nat /\ Len(t) \in Nat
  BY ConcatProperties
<1>2. DOMAIN s = 1..Len(s) /\ DOMAIN t = 1..Len(t) /\ DOMAIN (s \o t) = 1..(Len(s) + Len(t))
  BY <1>1
<1> DEFINE st == s \o t
<1> HIDE DEF st
<1>3. ASSUME NEW i \in DOMAIN st PROVE st[i] \in ToSet(s) \cup ToSet(t)
  <2>1. CASE i \in 1..Len(s)
    BY <1>1, <1>2, <2>1 DEF st, ToSet
  <2>2. CASE i \notin 1..Len(s)
    <3>1. i - Len(s) \in 1..Len(t) /\ i = Len(s) + (i - Len(s))
      BY <1>1, <1>2, <2>2 DEF st
    <3>2. st[i] = t[i - Len(s)]
      BY <1>1, <3>1 DEF st
    <3> QED  BY <1>2, <3>1, <3>2 DEF ToSet
  <2> QED  BY <2>1, <2>2
<1>4. ASSUME NEW i \in DOMAIN s PROVE s[i] \in ToSet(st)
  <2>1. i \in DOMAIN st /\ st[i] = s[i]
    BY <1>1, <1>2 DEF st
  <2> QED  BY <2>1 DEF ToSet
<1>5. ASSUME NEW i \in DOMAIN t PROVE t[i] \in ToSet(st)
  <2>1. Len(s) + i \in DOMAIN st /\ st[Len(s) + i] = t[i]
    BY <1>1, <1>2 DEF st
  <2> QED  BY <2>1 DEF ToSet
<1>6. ToSet(st) = ToSet(s) \cup ToSet(t)
  <2>1. \A x \in ToSet(st) : x \in ToSet(s) \cup ToSet(t)
    <3>1. ToSet(st) = {st[i] : i \in DOMAIN st}
      BY DEF ToSet
    <3> QED  BY <1>3, <3>1
  <2>2. \A x \in ToSet(s) : x \in ToSet(st)
    <3>1. ToSet(s) = {s[i] : i \in DOMAIN s}
      BY DEF ToSet
    <3> QED  BY <1>4, <3>1
  <2>3. \A x \in ToSet(t) : x \in ToSet(st)
    <3>1. ToSet(t) = {t[i] : i \in DOMAIN t}
      BY DEF ToSet
    <3> QED  BY <1>5, <3>1
  <2> QED  BY <2>1, <2>2, <2>3
<1> QED  BY <1>1, <1>6 DEF st

-----------------------------------------------------------------------------
(* What the cleaning keeps *)

\* The reasons a row is excluded for, and a column with one.
Reasons == {"Outcome", "GroupValue", "NumericPredictor", "CategoricalPredictor", "Weights",
            "SelectionOutcome", "SelectionPredictor"}
Reasoned(X) == [column : X, reason : Reasons]

\* Labelling columns loses none.
LEMMA LabelledColumns ==
    ASSUME NEW X, NEW s \in Seq(X), NEW reason \in Reasons
    PROVE  /\ Labelled(s, reason) \in Seq(Reasoned(X))
           /\ \A c \in ToSet(s) : \E e \in ToSet(Labelled(s, reason)) : e.column = c
<1> DEFINE r == Labelled(s, reason)
<1>1. r = [i \in 1..Len(s) |-> [column |-> s[i], reason |-> reason]] /\ Len(s) \in Nat
  BY DEF Labelled
<1> HIDE DEF r
<1>2. \A i \in 1..Len(s) : s[i] \in X
  OBVIOUS
<1>3. r \in [1..Len(s) -> Reasoned(X)]
  BY <1>1, <1>2 DEF Reasoned
<1>4. r \in Seq(Reasoned(X)) /\ DOMAIN r = 1..Len(s)
  BY <1>1, <1>3
<1>5. ASSUME NEW c \in ToSet(s) PROVE \E e \in ToSet(r) : e.column = c
  <2>1. PICK i \in 1..Len(s) : c = s[i]
    BY DEF ToSet
  <2>2. r[i] \in ToSet(r) /\ r[i].column = c
    BY <1>1, <1>4, <2>1 DEF ToSet
  <2> QED  BY <2>2
<1> QED  BY <1>4, <1>5 DEF r

\* A sequence of one.
LEMMA SequenceOfOne ==
    ASSUME NEW X, NEW x \in X
    PROVE  <<x>> \in Seq(X) /\ Len(<<x>>) = 1 /\ ToSet(<<x>>) = {x}
BY DEF ToSet

\* All that a model reads is checked for blanks.
LEMMA ColumnsChecked ==
    ASSUME NEW a, a.numeric \in Seq(ColumnNames), a.cats \in Seq(ColumnNames),
           a.selectors \in Seq(ColumnNames)
    PROVE  LET all == CleaningColumns(a)
           IN  /\ \E X : all \in Seq(X)
               /\ \A c \in {Outcome, Group} \cup ToSet(a.numeric) \cup ToSet(a.cats)
                           \cup ToSet(a.selectors)
                           \cup (IF Weighted(a) THEN {a.weights} ELSE {})
                           \cup (IF Selecting(a) THEN {a.selection} ELSE {}) :
                     \E k \in DOMAIN all : all[k].column = c
<1> DEFINE ColumnsNamed == ColumnNames \cup {Outcome, Group, a.weights, a.selection}
           R == Reasoned(ColumnsNamed)
           s1 == Labelled(<<Outcome>>, "Outcome")
           s2 == Labelled(<<Group>>, "GroupValue")
           s3 == Labelled(a.numeric, "NumericPredictor")
           s4 == Labelled(a.cats, "CategoricalPredictor")
           s5 == IF Weighted(a) THEN Labelled(<<a.weights>>, "Weights") ELSE <<>>
           s6 == IF Selecting(a) THEN Labelled(<<a.selection>>, "SelectionOutcome") ELSE <<>>
           s7 == Labelled(a.selectors, "SelectionPredictor")
<1>0. CleaningColumns(a) = s1 \o s2 \o s3 \o s4 \o s5 \o s6 \o s7
  BY DEF CleaningColumns
<1>1. Outcome \in ColumnsNamed /\ Group \in ColumnsNamed
  OBVIOUS
<1>2. /\ a.numeric \in Seq(ColumnsNamed) /\ a.cats \in Seq(ColumnsNamed)
      /\ a.selectors \in Seq(ColumnsNamed)
      /\ <<Outcome>> \in Seq(ColumnsNamed) /\ <<Group>> \in Seq(ColumnsNamed)
      /\ <<a.weights>> \in Seq(ColumnsNamed) /\ <<a.selection>> \in Seq(ColumnsNamed)
  <2>1. ColumnNames \subseteq ColumnsNamed
    OBVIOUS
  <2>2. \A s \in Seq(ColumnNames) : s \in Seq(ColumnsNamed)
    BY <2>1, SeqMonotonic
  <2>3. \A c \in ColumnsNamed : <<c>> \in Seq(ColumnsNamed)
    OBVIOUS
  <2>4. a.weights \in ColumnsNamed /\ a.selection \in ColumnsNamed
    OBVIOUS
  <2> HIDE DEF ColumnsNamed
  <2> QED  BY <1>1, <2>2, <2>3, <2>4
<1> HIDE DEF ColumnsNamed
<1>3. ASSUME NEW s \in Seq(ColumnsNamed), NEW reason \in Reasons
      PROVE  /\ Labelled(s, reason) \in Seq(R)
             /\ \A c \in ToSet(s) : \E e \in ToSet(Labelled(s, reason)) : e.column = c
  BY LabelledColumns
<1>4. /\ ToSet(<<Outcome>>) = {Outcome} /\ ToSet(<<Group>>) = {Group}
      /\ ToSet(<<a.weights>>) = {a.weights} /\ ToSet(<<a.selection>>) = {a.selection}
  BY SequenceOfOne
<1>5. <<>> \in Seq(R)
  BY EmptySeq
<1> HIDE DEF R
<1> DEFINE Names(s) == {e.column : e \in ToSet(s)}
<1>6. ASSUME NEW s \in Seq(ColumnsNamed), NEW reason \in Reasons
      PROVE  ToSet(s) \subseteq Names(Labelled(s, reason))
  BY <1>3
<1> HIDE DEF Names
<1>30. \A s \in Seq(ColumnsNamed), reason \in Reasons : Labelled(s, reason) \in Seq(R)
  BY <1>3
<1>60. \A s \in Seq(ColumnsNamed), reason \in Reasons :
          ToSet(s) \subseteq Names(Labelled(s, reason))
  BY <1>6
<1>7. /\ s1 \in Seq(R) /\ s2 \in Seq(R) /\ s3 \in Seq(R) /\ s4 \in Seq(R)
      /\ s5 \in Seq(R) /\ s6 \in Seq(R) /\ s7 \in Seq(R)
  <2>1. s1 \in Seq(R) /\ s2 \in Seq(R)
    BY <1>2, <1>30 DEF Reasons
  <2>2. s3 \in Seq(R) /\ s4 \in Seq(R) /\ s7 \in Seq(R)
    BY <1>2, <1>30 DEF Reasons
  <2>3. /\ Labelled(<<a.weights>>, "Weights") \in Seq(R)
        /\ Labelled(<<a.selection>>, "SelectionOutcome") \in Seq(R)
    BY <1>2, <1>30 DEF Reasons
  <2>4. s5 \in Seq(R) /\ s6 \in Seq(R)
    BY <1>5, <2>3
  <2> HIDE DEF s1, s2, s3, s4, s5, s6, s7
  <2> QED  BY <2>1, <2>2, <2>4
<1>8. /\ Outcome \in Names(s1) /\ Group \in Names(s2)
      /\ ToSet(a.numeric) \subseteq Names(s3) /\ ToSet(a.cats) \subseteq Names(s4)
      /\ ToSet(a.selectors) \subseteq Names(s7)
      /\ Weighted(a) => a.weights \in Names(s5)
      /\ Selecting(a) => a.selection \in Names(s6)
  <2>1. ToSet(<<Outcome>>) \subseteq Names(s1) /\ ToSet(<<Group>>) \subseteq Names(s2)
    BY <1>2, <1>60 DEF Reasons
  <2>2. /\ ToSet(a.numeric) \subseteq Names(s3) /\ ToSet(a.cats) \subseteq Names(s4)
        /\ ToSet(a.selectors) \subseteq Names(s7)
    BY <1>2, <1>60 DEF Reasons
  <2>3. ASSUME Selecting(a) PROVE ToSet(<<a.selection>>) \subseteq Names(s6)
    <3>1. s6 = Labelled(<<a.selection>>, "SelectionOutcome")
      BY <2>3
    <3> HIDE DEF s6
    <3> QED  BY <1>2, <1>60, <3>1 DEF Reasons
  <2>4. ASSUME Weighted(a) PROVE ToSet(<<a.weights>>) \subseteq Names(s5)
    <3>1. s5 = Labelled(<<a.weights>>, "Weights")
      BY <2>4
    <3> HIDE DEF s5
    <3> QED  BY <1>2, <1>60, <3>1 DEF Reasons
  <2> HIDE DEF s1, s2, s3, s4, s5, s6, s7, Names
  <2> QED  BY <1>4, <2>1, <2>2, <2>3, <2>4
<1> HIDE DEF s1, s2, s3, s4, s5, s6, s7
<1> DEFINE t2 == s1 \o s2
           t3 == t2 \o s3
           t4 == t3 \o s4
           t5 == t4 \o s5
           t6 == t5 \o s6
           t7 == t6 \o s7
<1>9. \A s, t \in Seq(R) : s \o t \in Seq(R) /\ ToSet(s \o t) = ToSet(s) \cup ToSet(t)
  BY ConcatIsBoth
<1>10. t2 \in Seq(R) /\ ToSet(t2) = ToSet(s1) \cup ToSet(s2)
  BY <1>7, <1>9
<1> HIDE DEF t2
<1>11. t3 \in Seq(R) /\ ToSet(t3) = ToSet(t2) \cup ToSet(s3)
  BY <1>7, <1>9, <1>10
<1> HIDE DEF t3
<1>12. t4 \in Seq(R) /\ ToSet(t4) = ToSet(t3) \cup ToSet(s4)
  BY <1>7, <1>9, <1>11
<1> HIDE DEF t4
<1>13. t5 \in Seq(R) /\ ToSet(t5) = ToSet(t4) \cup ToSet(s5)
  BY <1>7, <1>9, <1>12
<1> HIDE DEF t5
<1>14. t6 \in Seq(R) /\ ToSet(t6) = ToSet(t5) \cup ToSet(s6)
  BY <1>7, <1>9, <1>13
<1> HIDE DEF t6
<1>15. t7 \in Seq(R) /\ ToSet(t7) = ToSet(t6) \cup ToSet(s7)
  BY <1>7, <1>9, <1>14
<1> HIDE DEF t7
<1>16. CleaningColumns(a) = t7
  BY <1>0 DEF t2, t3, t4, t5, t6, t7
<1>17. ASSUME NEW e \in ToSet(t7) PROVE \E k \in DOMAIN t7 : t7[k] = e
  BY DEF ToSet
<1>18. \A s \in {s1, s2, s3, s4, s5, s6, s7} : ToSet(s) \subseteq ToSet(t7)
  BY <1>10, <1>11, <1>12, <1>13, <1>14, <1>15
<1>19. ASSUME NEW s \in {s1, s2, s3, s4, s5, s6, s7}, NEW c \in Names(s)
       PROVE  \E k \in DOMAIN t7 : t7[k].column = c
  <2>1. PICK e \in ToSet(s) : e.column = c
    BY DEF Names
  <2>2. e \in ToSet(t7)
    BY <1>18, <2>1
  <2> QED  BY <1>17, <2>1, <2>2
<1>20. \A c \in {Outcome, Group} \cup ToSet(a.numeric) \cup ToSet(a.cats)
                \cup ToSet(a.selectors)
                \cup (IF Weighted(a) THEN {a.weights} ELSE {})
                \cup (IF Selecting(a) THEN {a.selection} ELSE {}) :
          \E s \in {s1, s2, s3, s4, s5, s6, s7} : c \in Names(s)
  BY <1>8
<1> QED  BY <1>15, <1>16, <1>19, <1>20

\* The rows that are kept are those without a blank.
LEMMA CompleteIsWhole == Complete(file, ask) = Ascending(Whole)
<1>1. {i \in 1..Height(file) : \A k \in DOMAIN CleaningColumns(ask) :
           file[CleaningColumns(ask)[k].column][i] # NoCell} = Whole
  BY DEF Whole, Incomplete
<1> QED  BY <1>1 DEF Complete

\* The first of each kind: one of every kind, and no two of a kind.
LEMMA FirstOfEachKind ==
    ASSUME NEW X, NEW s \in Seq(X), NEW keys, DOMAIN keys = DOMAIN s,
           \A i, j \in DOMAIN s : s[i] = s[j] => keys[i] = keys[j]
    PROVE  LET r == FirstOfEach(s, keys)
           IN  /\ r \in Seq(X)
               /\ \A k \in DOMAIN r : \E i \in DOMAIN s : r[k] = s[i]
               /\ \A i \in DOMAIN s : \E k \in DOMAIN r, f \in DOMAIN s :
                     r[k] = s[f] /\ keys[f] = keys[i]
               /\ \A j, k \in DOMAIN r : \A f, g \in DOMAIN s :
                     r[j] = s[f] /\ r[k] = s[g] /\ keys[f] = keys[g] => j = k
<1> DEFINE P == {i \in DOMAIN s : \A j \in 1..(i - 1) : keys[j] # keys[i]}
           p == Ascending(P)
           r == At(s, P)
           n == Cardinality(P)
<1>0. DOMAIN s = 1..Len(s) /\ Len(s) \in Nat
  OBVIOUS
<1>1. P \subseteq DOMAIN s /\ r = FirstOfEach(s, keys)
  BY DEF FirstOfEach
<1>2. /\ DOMAIN r = 1..n /\ r \in Seq(X)
      /\ \A k \in 1..n : p[k] \in P /\ r[k] = s[p[k]]
      /\ \A i \in P : \E k \in 1..n : p[k] = i
      /\ \A j, k \in 1..n : p[j] = p[k] => j = k
  <2>1. P \subseteq DOMAIN s
    OBVIOUS
  <2>2. s \in Seq(X)
    OBVIOUS
  <2> HIDE DEF P
  <2>3. DOMAIN r = 1..n /\ r \in Seq(X)
    BY ONLY <2>1, <2>2, AtPositions
  <2>4. \A k \in 1..n : p[k] \in P /\ r[k] = s[p[k]]
    BY ONLY <2>1, <2>2, AtPositions
  <2>5. \A i \in P : \E k \in 1..n : p[k] = i
    BY ONLY <2>1, <2>2, AtPositions
  <2>6. \A j, k \in 1..n : p[j] = p[k] => j = k
    BY ONLY <2>1, <2>2, AtPositions
  <2> QED  BY <2>3, <2>4, <2>5, <2>6
<1>3. ASSUME NEW i \in DOMAIN s PROVE \E f \in P : keys[f] = keys[i]
  <2> DEFINE Same == {j \in 1..i : keys[j] = keys[i]}
  <2>1. Same \subseteq Nat /\ i \in Same
    BY <1>0
  <2>2. PICK m \in Same : \A j \in Same : m <= j
    BY <2>1, LeastNumber
  <2>3. m \in DOMAIN s /\ m \in Int /\ i \in Int /\ m <= i /\ keys[m] = keys[i]
    BY <1>0
  <2>4. ASSUME NEW j \in 1..(m - 1) PROVE keys[j] # keys[m]
    <3>1. j \in 1..i /\ ~(m <= j)
      BY <2>3
    <3>2. j \notin Same
      BY <2>2, <3>1
    <3> QED  BY <2>3, <3>1, <3>2
  <2> QED  BY <2>3, <2>4
<1>4. ASSUME NEW i \in P, NEW j \in P, keys[i] = keys[j] PROVE i = j
  <2>1. i \in Int /\ j \in Int /\ i >= 1 /\ j >= 1
    BY <1>0
  <2>2. ~(i < j)
    <3> SUFFICES ASSUME i < j PROVE FALSE
      OBVIOUS
    <3>1. i \in 1..(j - 1)
      BY <2>1
    <3> QED  BY <1>4, <3>1
  <2>3. ~(j < i)
    <3> SUFFICES ASSUME j < i PROVE FALSE
      OBVIOUS
    <3>1. j \in 1..(i - 1)
      BY <2>1
    <3> QED  BY <1>4, <3>1
  <2> QED  BY <2>1, <2>2, <2>3
<1> HIDE DEF P, p, r, n
<1>5. \A k \in DOMAIN r : \E i \in DOMAIN s : r[k] = s[i]
  BY <1>1, <1>2
<1>6. ASSUME NEW j \in DOMAIN r, NEW k \in DOMAIN r, NEW f \in DOMAIN s, NEW g \in DOMAIN s,
             r[j] = s[f], r[k] = s[g], keys[f] = keys[g]
      PROVE  j = k
  <2>1. /\ p[j] \in P /\ p[k] \in P /\ p[j] \in DOMAIN s /\ p[k] \in DOMAIN s
        /\ s[p[j]] = s[f] /\ s[p[k]] = s[g]
    BY <1>1, <1>2, <1>6
  <2>2. keys[p[j]] = keys[f] /\ keys[p[k]] = keys[g]
    BY <2>1
  <2>3. p[j] = p[k]
    BY <1>4, <1>6, <2>1, <2>2
  <2> QED  BY <1>2, <2>3
<1>7. ASSUME NEW i \in DOMAIN s
      PROVE  \E k \in DOMAIN r, f \in DOMAIN s : r[k] = s[f] /\ keys[f] = keys[i]
  <2>1. PICK f \in P : keys[f] = keys[i]
    BY <1>3
  <2>2. PICK k \in 1..n : p[k] = f
    BY <1>2
  <2> QED  BY <1>1, <1>2, <2>1, <2>2
<1>8. r \in Seq(X)
  BY <1>2
<1>9. r = FirstOfEach(s, keys)
  BY <1>1
<1> QED  BY <1>5, <1>6, <1>7, <1>8, <1>9

\* The rows with a blank.
Blanks == {i \in 1..Height(file) : Incomplete(i)}

\* A list that names them all.
ListsBlanks(list) ==
    /\ [k \in DOMAIN list |-> list[k].index] = Ascending({i - 1 : i \in Blanks})
    /\ \A k \in DOMAIN list :
          /\ ToSet(list[k].columns) =
                {e.column : e \in {e \in ToSet(CleaningColumns(ask)) :
                               file[e.column][list[k].index + 1] = NoCell}}
          /\ IsInjective(list[k].columns) /\ IsInjective(list[k].reasons)

\* The list of those excluded is that of the rows with a blank, each with
\* the columns it is blank in.
LEMMA ExcludedAreBlank ==
    ASSUME FileTyped(file), AskTyped, NEW list, list = ExcludedRows(file, ask)
    PROVE  Len(list) = Cardinality(Blanks) /\ ListsBlanks(list)
<1> DEFINE all == CleaningColumns(ask)
           rules == FirstOfEach(all, ColumnsOf(all))
           Where(i) == {k \in DOMAIN rules : file[rules[k].column][i] = NoCell}
           BlankIn(i) == At(rules, Where(i))
           BlankRows == {i \in 1..Height(file) : BlankIn(i) # <<>>}
           rows == Ascending(BlankRows)
           Row(i) == [index |-> i - 1,
                      columns |-> ColumnsOf(BlankIn(i)),
                      reasons |-> FirstOfEach(ReasonsOf(BlankIn(i)), ReasonsOf(BlankIn(i)))]
<1>1. list = [k \in DOMAIN rows |-> Row(rows[k])]
  BY Zenon DEF ExcludedRows
<1>2. PICK X : all \in Seq(X)
  BY ColumnsChecked DEF AskTyped
<1> HIDE DEF all
<1>3. DOMAIN ColumnsOf(all) = DOMAIN all /\ \A k \in DOMAIN all : ColumnsOf(all)[k] = all[k].column
  BY DEF ColumnsOf
<1>4. /\ rules \in Seq(X)
      /\ \A k \in DOMAIN rules : \E i \in DOMAIN all : rules[k] = all[i]
      /\ \A i \in DOMAIN all : \E k \in DOMAIN rules, f \in DOMAIN all :
            rules[k] = all[f] /\ ColumnsOf(all)[f] = ColumnsOf(all)[i]
      /\ \A j, k \in DOMAIN rules : \A f, g \in DOMAIN all :
            rules[j] = all[f] /\ rules[k] = all[g]
            /\ ColumnsOf(all)[f] = ColumnsOf(all)[g] => j = k
  <2>1. \A i, j \in DOMAIN all : all[i] = all[j] => ColumnsOf(all)[i] = ColumnsOf(all)[j]
    BY <1>3
  <2> QED  BY ONLY <1>2, <1>3, <2>1, FirstOfEachKind DEF rules
<1> HIDE DEF rules
<1>5. /\ \A k \in DOMAIN rules : \E i \in DOMAIN all : rules[k] = all[i]
      /\ \A j, k \in DOMAIN rules : rules[j].column = rules[k].column => j = k
      /\ \A i \in DOMAIN all : \E k \in DOMAIN rules : rules[k].column = all[i].column
  <2>1. \A k \in DOMAIN rules : \E i \in DOMAIN all : rules[k] = all[i]
    BY ONLY <1>4
  <2>2. ASSUME NEW j \in DOMAIN rules, NEW k \in DOMAIN rules, rules[j].column = rules[k].column
        PROVE  j = k
    <3>1. PICK f \in DOMAIN all : rules[j] = all[f]
      BY <2>1
    <3>2. PICK g \in DOMAIN all : rules[k] = all[g]
      BY <2>1
    <3>3. ColumnsOf(all)[f] = ColumnsOf(all)[g]
      BY <1>3, <2>2, <3>1, <3>2
    <3> QED  BY ONLY <1>4, <3>1, <3>2, <3>3
  <2>3. ASSUME NEW i \in DOMAIN all
        PROVE  \E k \in DOMAIN rules : rules[k].column = all[i].column
    <3>1. PICK k \in DOMAIN rules, f \in DOMAIN all :
             rules[k] = all[f] /\ ColumnsOf(all)[f] = ColumnsOf(all)[i]
      BY ONLY <1>4
    <3> QED  BY <1>3, <3>1
  <2> QED  BY ONLY <2>1, <2>2, <2>3
<1>6. ASSUME NEW i
      PROVE  /\ BlankIn(i) \in Seq(X)
             /\ (BlankIn(i) = <<>>) = (Where(i) = {})
             /\ ToSet(BlankIn(i)) = {rules[k] : k \in Where(i)}
             /\ \A j, k \in DOMAIN BlankIn(i) :
                   BlankIn(i)[j].column = BlankIn(i)[k].column => j = k
  <2> DEFINE W == Where(i)
             b == At(rules, W)
             w == Ascending(W)
  <2>1. W \subseteq DOMAIN rules
    OBVIOUS
  <2> HIDE DEF W
  <2>a. rules \in Seq(X)
    BY ONLY <1>4
  <2>b. DOMAIN b = 1..Cardinality(W) /\ b \in Seq(X)
    BY ONLY <2>a, <2>1, AtPositions
  <2>c. (b = <<>>) = (W = {}) /\ ToSet(b) = {rules[k] : k \in W}
    BY ONLY <2>a, <2>1, AtPositions
  <2>2. /\ DOMAIN b = 1..Cardinality(W) /\ b \in Seq(X)
        /\ (b = <<>>) = (W = {})
        /\ ToSet(b) = {rules[k] : k \in W}
    BY <2>b, <2>c
  <2>d. \A k \in 1..Cardinality(W) : w[k] \in W /\ b[k] = rules[w[k]]
    BY ONLY <2>a, <2>1, AtPositions
  <2>e. \A j, k \in 1..Cardinality(W) : w[j] = w[k] => j = k
    BY ONLY <2>a, <2>1, AtPositions
  <2>3. /\ \A k \in 1..Cardinality(W) : w[k] \in W /\ b[k] = rules[w[k]]
        /\ \A j, k \in 1..Cardinality(W) : w[j] = w[k] => j = k
    BY <2>d, <2>e
  <2>4. ASSUME NEW j \in DOMAIN b, NEW k \in DOMAIN b, b[j].column = b[k].column PROVE j = k
    <3>1. w[j] \in DOMAIN rules /\ w[k] \in DOMAIN rules
      BY <2>1, <2>2, <2>3
    <3>2. rules[w[j]].column = rules[w[k]].column
      BY <2>2, <2>3, <2>4
    <3>3. w[j] = w[k]
      BY <1>5, <3>1, <3>2
    <3> QED  BY <2>2, <2>3, <3>3
  <2> QED  BY <2>2, <2>4 DEF W
<1>7. ASSUME NEW i \in 1..Height(file) PROVE (BlankIn(i) # <<>>) = Incomplete(i)
  <2>1. ASSUME NEW k \in DOMAIN rules, file[rules[k].column][i] = NoCell PROVE Incomplete(i)
    BY <1>5, <2>1 DEF Incomplete, all
  <2>2. ASSUME Incomplete(i) PROVE \E k \in DOMAIN rules : file[rules[k].column][i] = NoCell
    <3>1. PICK j \in DOMAIN all : file[all[j].column][i] = NoCell
      BY <2>2 DEF Incomplete, all
    <3>2. PICK k \in DOMAIN rules : rules[k].column = all[j].column
      BY <1>5
    <3> QED  BY <3>1, <3>2
  <2>3. (BlankIn(i) = <<>>) = (Where(i) = {})
    BY <1>6
  <2> HIDE DEF BlankIn
  <2>4. (Where(i) = {}) = ~Incomplete(i)
    BY <2>1, <2>2
  <2> HIDE DEF Where
  <2>5. Incomplete(i) \in BOOLEAN
    BY DEF Incomplete
  <2> QED  BY <2>3, <2>4, <2>5
<1>8. BlankRows = Blanks
  BY <1>7 DEF Blanks
<1>9. ASSUME NEW i
      PROVE  /\ ToSet(Row(i).columns) =
                   {e.column : e \in {e \in ToSet(all) : file[e.column][i] = NoCell}}
             /\ IsInjective(Row(i).columns) /\ IsInjective(Row(i).reasons)
  <2> DEFINE b == BlankIn(i)
             q == ReasonsOf(b)
  <2>0. Row(i).columns = ColumnsOf(b) /\ Row(i).reasons = FirstOfEach(q, q)
    OBVIOUS
  <2>1. /\ b \in Seq(X) /\ ToSet(b) = {rules[k] : k \in Where(i)}
        /\ \A j, k \in DOMAIN b : b[j].column = b[k].column => j = k
    BY <1>6
  <2> HIDE DEF b, Row, BlankIn
  <2>2. DOMAIN ColumnsOf(b) = DOMAIN b /\ \A k \in DOMAIN b : ColumnsOf(b)[k] = b[k].column
    BY DEF ColumnsOf
  <2>3. IsInjective(ColumnsOf(b))
    BY <2>1, <2>2 DEF IsInjective
  <2>4. ToSet(ColumnsOf(b)) = {e.column : e \in ToSet(b)}
    BY <2>2 DEF ToSet
  <2>5. ToSet(ColumnsOf(b)) = {rules[k].column : k \in Where(i)}
    BY <2>1, <2>4
  <2>6. ToSet(all) = {all[j] : j \in DOMAIN all}
    BY DEF ToSet
  <2>7. {rules[k].column : k \in Where(i)} =
           {e.column : e \in {e \in ToSet(all) : file[e.column][i] = NoCell}}
    <3>1. ASSUME NEW k \in Where(i)
          PROVE  \E e \in ToSet(all) : file[e.column][i] = NoCell /\ e.column = rules[k].column
      <4>1. k \in DOMAIN rules /\ file[rules[k].column][i] = NoCell
        OBVIOUS
      <4>2. PICK j \in DOMAIN all : rules[k] = all[j]
        BY <1>5, <4>1
      <4> QED  BY <2>6, <4>1, <4>2
    <3>2. ASSUME NEW e \in ToSet(all), file[e.column][i] = NoCell
          PROVE  \E k \in Where(i) : e.column = rules[k].column
      <4>1. PICK j \in DOMAIN all : e = all[j]
        BY <2>6
      <4>2. PICK k \in DOMAIN rules : rules[k].column = all[j].column
        BY <1>5
      <4> QED  BY <3>2, <4>1, <4>2
    <3> QED  BY <3>1, <3>2
  <2>8. IsInjective(FirstOfEach(q, q))
    <3>1. DOMAIN q = DOMAIN b /\ q = [k \in DOMAIN b |-> b[k].reason]
      BY DEF ReasonsOf, q
    <3>2. q \in Seq({b[k].reason : k \in DOMAIN b})
      <4>1. DOMAIN b = 1..Len(b) /\ Len(b) \in Nat
        BY <2>1
      <4> QED  BY <3>1, <4>1
    <3> HIDE DEF q
    <3> DEFINE R == {b[k].reason : k \in DOMAIN b}
               r == FirstOfEach(q, q)
    <3>3. /\ \A k \in DOMAIN r : \E h \in DOMAIN q : r[k] = q[h]
          /\ \A j, k \in DOMAIN r : \A f, g \in DOMAIN q :
                r[j] = q[f] /\ r[k] = q[g] /\ q[f] = q[g] => j = k
      <4> HIDE DEF R
      <4>1. q \in Seq(R)
        BY <3>2 DEF R
      <4> QED  BY ONLY <4>1, FirstOfEachKind DEF r
    <3> HIDE DEF r
    <3>4. \A j, k \in DOMAIN r : r[j] = r[k] => j = k
      BY <3>3
    <3> QED  BY <3>4 DEF IsInjective, r
  <2> QED  BY <2>0, <2>3, <2>5, <2>7, <2>8
<1> HIDE DEF Row, BlankRows
<1>10. Height(file) \in Nat /\ Blanks \subseteq 1..Height(file)
  BY FileIsTall DEF Blanks
<1>11. /\ IsFiniteSet(Blanks) /\ Blanks \subseteq Int /\ Cardinality(Blanks) \in Nat
  BY <1>10, PositionsAreFinite
<1>12. DOMAIN rows = 1..Cardinality(Blanks) /\ rows = Ascending(Blanks)
  BY <1>8, <1>11, AscendingIsASequence
<1> HIDE DEF rows
<1>13. /\ DOMAIN list = 1..Cardinality(Blanks)
       /\ \A k \in DOMAIN list : list[k] = Row(rows[k])
  BY <1>1, <1>12
<1>14. Len(list) = Cardinality(Blanks)
  <2>1. list \in [1..Cardinality(Blanks) -> {list[k] : k \in DOMAIN list}]
    BY <1>1, <1>13
  <2> HIDE DEF all
  <2> QED  BY <1>11, <2>1
<1>15. \A i : Row(i).index = i - 1
  BY DEF Row
<1>16. [k \in DOMAIN list |-> list[k].index] = Ascending({i - 1 : i \in Blanks})
  <2>1. Ascending({i - 1 : i \in Blanks}) =
           [k \in 1..Cardinality(Blanks) |-> Ascending(Blanks)[k] - 1]
    BY <1>10, FromZero
  <2> QED  BY <1>12, <1>13, <1>15, <2>1
<1>17. ASSUME NEW k \in DOMAIN list
       PROVE  /\ ToSet(list[k].columns) =
                    {e.column : e \in {e \in ToSet(all) :
                                   file[e.column][list[k].index + 1] = NoCell}}
              /\ IsInjective(list[k].columns) /\ IsInjective(list[k].reasons)
  <2>1. list[k] = Row(rows[k]) /\ list[k].index = rows[k] - 1
    BY <1>13, <1>15
  <2>2. rows[k] \in Int
    <3>1. rows \in [1..Cardinality(Blanks) -> Blanks]
      BY <1>11, <1>12, AscendingIsASequence
    <3> QED  BY <1>11, <1>13, <3>1
  <2>3. list[k].index + 1 = rows[k]
    BY <2>1, <2>2
  <2> QED  BY <1>9, <2>1, <2>3
<1> QED  BY ONLY <1>14, <1>16, <1>17, Zenon DEF all, ListsBlanks

\* Every row is kept or in that list.
LEMMA RowsAddUp ==
    ASSUME FileTyped(file)
    PROVE  /\ Whole \subseteq 1..Height(file) /\ Height(file) \in Nat
           /\ Cardinality(Whole) + Cardinality(Blanks) = Height(file)
<1>1. Height(file) \in Nat
  BY FileIsTall
<1>2. Whole \subseteq 1..Height(file) /\ Blanks \subseteq 1..Height(file)
  BY DEF Whole, Blanks
<1>3. IsFiniteSet(Whole) /\ IsFiniteSet(Blanks)
  BY <1>1, <1>2, PositionsAreFinite
<1>4. Cardinality(Whole) \in Nat /\ Cardinality(Blanks) \in Nat
  BY <1>3, FS_CardinalityType
<1>5. Whole \cap Blanks = {} /\ Whole \cup Blanks = 1..Height(file)
  BY DEF Whole, Blanks
<1>6. Cardinality(1..Height(file)) = Height(file)
  BY <1>1, FS_Interval
<1>7. Cardinality(Whole \cap Blanks) = 0
  BY <1>5, FS_EmptySet
<1>8. Cardinality(Whole \cup Blanks) =
         Cardinality(Whole) + Cardinality(Blanks) - Cardinality(Whole \cap Blanks)
  BY <1>3, FS_Union
<1>9. Cardinality(Whole) + Cardinality(Blanks) = Height(file)
  <2>1. Height(file) = Cardinality(Whole) + Cardinality(Blanks) - 0
    BY <1>5, <1>6, <1>7, <1>8
  <2> QED  BY ONLY <1>4, <2>1
<1> QED  BY <1>1, <1>2, <1>9

-----------------------------------------------------------------------------
(* The indicators and the split *)

\* A sequence over a set is one over a larger set.
LEMMA SeqGrows ==
    ASSUME NEW X, NEW Y, \A x \in X : x \in Y, NEW s \in Seq(X)
    PROVE  s \in Seq(Y)
<1>1. s \in [1..Len(s) -> X] /\ Len(s) \in Nat
  OBVIOUS
<1>2. s \in [1..Len(s) -> Y]
  BY <1>1
<1> QED  BY <1>1, <1>2

\* A name of two parts.
LEMMA NamesOfTwo ==
    ASSUME NEW X, NEW s \in Seq(X), Len(s) = 1, NEW l \in X
    PROVE  /\ Append(s, l) \in Seq(X) /\ Len(Append(s, l)) = 2
           /\ Append(s, l)[1] = s[1] /\ Append(s, l)[2] = l /\ s = <<s[1]>>
<1>1. s \in [1..Len(s) -> X] /\ Len(s) \in Nat
  OBVIOUS
<1>2. Append(s, l) \in Seq(X) /\ Len(Append(s, l)) = Len(s) + 1
  OBVIOUS
<1>3. \A i \in 1..Len(s) : Append(s, l)[i] = s[i]
  OBVIOUS
<1>4. Append(s, l)[Len(s) + 1] = l
  <2>1. s \in Seq(X) /\ l \in X
    OBVIOUS
  <2> QED  BY ONLY <2>1, AppendProperties
<1>5. s = <<s[1]>>
  BY <1>1
<1> QED  BY <1>2, <1>3, <1>4, <1>5

\* The name of an indicator: the column's own name, then the level.
LEMMA IndicatorNames ==
    ASSUME NEW c \in ColumnNames, NEW l \in Int
    PROVE  LET d == Append(c, l)
           IN  /\ d \in ColumnTuples /\ Len(d) = 2
               /\ d[1] = c[1] /\ <<d[1]>> = c /\ d[2] = l
<1> DEFINE X == NameParts
           S == STRING
<1>1. c \in Seq(S) /\ Len(c) = 1
  BY DEF ColumnNames
<1>2. (\A x \in S : x \in X) /\ l \in X
  BY DEF NameParts
<1> HIDE DEF X, S
<1>3. c \in Seq(X)
  BY <1>1, <1>2, SeqGrows
<1>4. /\ Append(c, l) \in Seq(X) /\ Len(Append(c, l)) = 2
      /\ Append(c, l)[1] = c[1] /\ Append(c, l)[2] = l /\ c = <<c[1]>>
  BY <1>1, <1>2, <1>3, NamesOfTwo
<1> QED  BY <1>4 DEF X, ColumnTuples

\* What a column of the file has over the whole rows.
LEMMA LevelsOfColumn ==
    ASSUME FileTyped(file), AskTyped, NEW c \in ToSet(ask.cats), c \in DOMAIN file
    PROVE  /\ c \in ColumnNames /\ IsFiniteSet(LevelsKept(c))
           /\ \A l \in LevelsKept(c) : l \in Int
<1>1. Height(file) \in Nat /\ Tall(file, Height(file))
  BY FileIsTall
<1>2. Whole \subseteq 1..Height(file)
  BY DEF Whole
<1>3. IsFiniteSet(Whole)
  BY <1>1, <1>2, PositionsAreFinite
<1>4. ask.cats \in Seq(ColumnNames)
  BY DEF AskTyped
<1>5. c \in ColumnNames
  BY <1>4 DEF ToSet
<1>6. ASSUME NEW i \in Whole PROVE file[c][i] \in Int
  <2>1. i \in 1..Height(file) /\ ~Incomplete(i)
    BY DEF Whole
  <2>2. file[c][i] \in Int \cup {NoCell}
    BY <1>1, <2>1 DEF Tall
  <2>3. PICK k \in DOMAIN CleaningColumns(ask) : CleaningColumns(ask)[k].column = c
    BY ColumnsChecked DEF AskTyped
  <2> QED  BY <2>1, <2>2, <2>3 DEF Incomplete
<1>7. IsFiniteSet(LevelsKept(c))
  <2> DEFINE F == [i \in Whole |-> file[c][i]]
  <2>1. LevelsKept(c) = {F[i] : i \in Whole}
    BY DEF LevelsKept
  <2>2. F \in Surjection(Whole, LevelsKept(c))
    BY <2>1 DEF Surjection
  <2> QED  BY <1>3, <2>2, FS_Surjection
<1> QED  BY <1>5, <1>6, <1>7 DEF LevelsKept

\* The whole rows in order, and that these are all.
LEMMA WholeInOrder ==
    ASSUME FileTyped(file)
    PROVE  /\ Cardinality(Whole) \in Nat /\ Len(Ascending(Whole)) = Cardinality(Whole)
           /\ Whole = {Ascending(Whole)[k] : k \in 1..Cardinality(Whole)}
<1>1. Height(file) \in Nat /\ Whole \subseteq 1..Height(file)
  BY FileIsTall DEF Whole
<1>2. IsFiniteSet(Whole) /\ Whole \subseteq Int
  BY <1>1, PositionsAreFinite
<1> DEFINE n == Cardinality(Whole)
           p == Ascending(Whole)
<1>3. /\ n \in Nat /\ p \in [1..n -> Whole] /\ Len(p) = n
      /\ \A x \in Whole : \E k \in 1..n : p[k] = x
  <2>1. Len(p) = n
    BY ONLY <1>2, AscendingIsASequence
  <2> QED  BY ONLY <1>2, <2>1, AscendingEnumerates
<1> HIDE DEF n, p
<1>4. \A x \in Whole : x \in {p[k] : k \in 1..n}
  BY ONLY <1>3
<1>5. \A x \in {p[k] : k \in 1..n} : x \in Whole
  BY ONLY <1>3
<1> QED  BY ONLY <1>3, <1>4, <1>5 DEF n, p

\* A frame's own levels are those of the whole rows.
LEMMA LevelsOfFrame ==
    ASSUME NEW f, NEW names, Rowed(f, names, Ascending(Whole)), NEW c \in DOMAIN file,
           FileTyped(file)
    PROVE  /\ DOMAIN f[c] = 1..Cardinality(Whole) /\ Height(f) = Cardinality(Whole)
           /\ {f[c][i] : i \in DOMAIN f[c]} = LevelsKept(c)
<1> DEFINE p == Ascending(Whole)
           n == Cardinality(Whole)
<1> HIDE DEF p, n
<1>3. n \in Nat /\ Len(p) = n /\ Whole = {p[k] : k \in 1..n}
  BY WholeInOrder DEF p, n
<1>4. Tall(f, n) /\ c \in DOMAIN f /\ \A k \in 1..n : f[c][k] = file[c][p[k]]
  BY <1>3 DEF Rowed, p
<1>5. DOMAIN f[c] = 1..n /\ Height(f) = n
  BY <1>4, TallIsHigh
<1>6. {f[c][i] : i \in DOMAIN f[c]} = {file[c][i] : i \in Whole}
  BY <1>3, <1>4, <1>5
<1> QED  BY <1>5, <1>6 DEF LevelsKept, n

\* The indicators of a column, appended to a frame of whole rows.
LEMMA IndicatorsAreRowed ==
    ASSUME FileTyped(file), AskTyped, NEW c \in ToSet(ask.cats), c \in DOMAIN file,
           NEW f, NEW names \in Seq(ColumnTuples),
           Rowed(f, names, Ascending(Whole)), Height(f) > 0,
           DOMAIN DummyColumns(f, c) \cap DOMAIN f = {}
    PROVE  LET all == names \o DummyNames(f, c)
           IN  /\ all \in Seq(ColumnTuples)
               /\ ToSet(all) = ToSet(names) \cup {Append(c, l) : l \in Indicated(c)}
               /\ Rowed(Beside(f, DummyColumns(f, c)), all, Ascending(Whole))
<1> DEFINE S == LevelsKept(c)
           s == Ascending(S)
           m == Cardinality(S)
           p == Ascending(Whole)
           n == Cardinality(Whole)
           g == DummyColumns(f, c)
           own == DummyNames(f, c)
<1>1. c \in ColumnNames /\ IsFiniteSet(S) /\ S \subseteq Int
  BY LevelsOfColumn
<1>2. /\ m \in Nat /\ Len(s) = m /\ s \in [1..m -> S]
      /\ \A i, j \in 1..m : s[i] = s[j] => i = j
      /\ S = {s[k] : k \in 1..m}
  BY <1>1, AscendingIsASequence
<1>3. LevelsIn(f, c) = s /\ Height(f) = n /\ DOMAIN f[c] = 1..n
  BY LevelsOfFrame DEF LevelsIn
<1>4. Height(file) \in Nat /\ Whole \subseteq 1..Height(file)
  BY FileIsTall DEF Whole
<1>5. n \in Nat /\ Len(p) = n
  BY <1>4, PositionsAreFinite, AscendingIsASequence
<1>6. m >= 1
  <2>1. 1 \in DOMAIN f[c]
    BY <1>3, <1>5
  <2>2. f[c][1] \in S
    <3>1. {f[c][i] : i \in DOMAIN f[c]} = S
      BY LevelsOfFrame
    <3> QED  BY <2>1, <3>1
  <2> QED  BY <1>2, <2>2
<1>7. /\ g = [d \in {Append(c, s[i]) : i \in 2..m} |->
                 [k \in 1..n |-> IF f[c][k] = d[2] THEN 1 ELSE 0]]
      /\ own = [i \in 1..(m - 1) |-> Append(c, s[i + 1])]
  BY <1>2, <1>3 DEF DummyColumns, DummyNames
<1>8. Indicated(c) = S \ {s[1]}
  BY DEF Indicated
<1> HIDE DEF S, s, m, p, n, g, own
<1>9. Indicated(c) = {s[i] : i \in 2..m}
  <2>1. ASSUME NEW l \in S \ {s[1]} PROVE \E i \in 2..m : l = s[i]
    <3>1. PICK i \in 1..m : l = s[i]
      BY <1>2
    <3>2. i # 1
      BY <3>1
    <3> QED  BY <3>1, <3>2
  <2>2. ASSUME NEW i \in 2..m PROVE s[i] \in S \ {s[1]}
    <3>1. i \in 1..m /\ 1 \in 1..m /\ i # 1
      BY <1>2, <1>6
    <3> QED  BY <1>2, <3>1
  <2> QED  BY <1>8, <2>1, <2>2
<1> DEFINE D == {Append(c, l) : l \in Indicated(c)}
<1>10. DOMAIN g = D
  BY <1>7, <1>9
<1>11. own \in Seq(ColumnTuples) /\ ToSet(own) = D
  <2>1. ASSUME NEW i \in 1..(m - 1) PROVE own[i] \in ColumnTuples /\ own[i] \in D
    <3>1. i + 1 \in 2..m /\ i + 1 \in 1..m
      BY <1>2
    <3>2. s[i + 1] \in Indicated(c)
      BY <1>9, <3>1
    <3>3. s[i + 1] \in Int
      BY <1>1, <1>2, <3>1
    <3> QED  BY <1>1, <1>7, <3>2, <3>3, IndicatorNames
  <2>2. ASSUME NEW d \in D PROVE \E i \in 1..(m - 1) : own[i] = d
    <3>1. PICK i \in 2..m : d = Append(c, s[i])
      BY <1>9
    <3>2. i - 1 \in 1..(m - 1) /\ (i - 1) + 1 = i
      BY <1>2
    <3> QED  BY <1>7, <3>1, <3>2
  <2>3. DOMAIN own = 1..(m - 1) /\ m - 1 \in Nat
    BY <1>2, <1>6, <1>7
  <2>4. own \in [1..(m - 1) -> ColumnTuples]
    BY <1>7, <2>1, <2>3
  <2>5. own \in Seq(ColumnTuples)
    BY ONLY <2>3, <2>4
  <2> HIDE DEF D
  <2>6. ToSet(own) = D
    BY <2>1, <2>2, <2>3 DEF ToSet
  <2> QED  BY <2>5, <2>6
<1> DEFINE all == names \o own
<1>12. all \in Seq(ColumnTuples) /\ ToSet(all) = ToSet(names) \cup D
  <2> HIDE DEF D
  <2> QED  BY <1>11, ConcatIsBoth
<1>13. Tall(f, n) /\ DOMAIN file \subseteq DOMAIN f
  BY <1>5 DEF Rowed, p
<1> DEFINE h == Beside(f, g)
<1>14. /\ DOMAIN h = DOMAIN f \cup D
       /\ \A x \in DOMAIN f : h[x] = f[x]
       /\ \A x \in D : h[x] = g[x]
  <2>1. D \cap DOMAIN f = {}
    BY <1>10 DEF g
  <2> HIDE DEF D
  <2> QED  BY <1>10, <2>1 DEF Beside
<1>15. ASSUME NEW d \in D
       PROVE  /\ Len(d) = 2 /\ <<d[1]>> = c
              /\ h[d] = [k \in 1..n |-> IF f[c][k] = d[2] THEN 1 ELSE 0]
              /\ \A k \in 1..n : h[d][k] = IF f[c][k] = d[2] THEN 1 ELSE 0
              /\ h[d] \in [1..n -> Int \cup {NoCell}]
  <2>1. PICK l \in Indicated(c) : d = Append(c, l)
    OBVIOUS
  <2>2. l \in Int
    BY <1>1, <1>8
  <2>3. Len(d) = 2 /\ <<d[1]>> = c
    BY <1>1, <2>1, <2>2, IndicatorNames
  <2>4. h[d] = g[d] /\ d \in DOMAIN g
    BY <1>10, <1>14
  <2> HIDE DEF h, D
  <2>5. h[d] = [k \in 1..n |-> IF f[c][k] = d[2] THEN 1 ELSE 0]
    BY <1>7, <2>4
  <2> QED  BY <2>3, <2>5
<1> HIDE DEF h, D, all
<1>16. Tall(h, n)
  <2>1. ASSUME NEW x \in DOMAIN h PROVE h[x] \in [1..n -> Int \cup {NoCell}]
    <3>1. CASE x \in DOMAIN f
      BY <1>13, <1>14, <3>1 DEF Tall
    <3>2. CASE x \in D
      BY <1>15, <3>2
    <3> QED  BY <1>14, <3>1, <3>2
  <2> QED  BY <1>13, <1>14, <2>1 DEF Tall
<1>17. \A k \in 1..n : f[c][k] = file[c][p[k]]
  BY <1>5 DEF Rowed, p
<1>18. /\ \A x \in DOMAIN file, k \in 1..n : h[x][k] = file[x][p[k]]
       /\ ask.path = "matrices" =>
             /\ Ordinal \in DOMAIN h
             /\ \A k \in 1..n : h[Ordinal][k] = p[k] - 1
  <2>1. /\ \A x \in DOMAIN file, k \in 1..n : f[x][k] = file[x][p[k]]
        /\ ask.path = "matrices" =>
              /\ Ordinal \in DOMAIN f
              /\ \A k \in 1..n : f[Ordinal][k] = p[k] - 1
    BY <1>5 DEF Rowed, p
  <2> QED  BY <1>13, <1>14, <2>1
<1>19. ASSUME NEW d \in ToSet(all)
       PROVE  /\ Len(d) = 2 /\ d \in DOMAIN h
              /\ \A k \in 1..n : h[d][k] = IF file[<<d[1]>>][p[k]] = d[2] THEN 1 ELSE 0
  <2>1. CASE d \in ToSet(names)
    <3>1. /\ Len(d) = 2 /\ d \in DOMAIN f
          /\ \A k \in 1..n : f[d][k] = IF file[<<d[1]>>][p[k]] = d[2] THEN 1 ELSE 0
      BY <1>5, <2>1 DEF Rowed, p
    <3> QED  BY <1>14, <3>1
  <2>2. CASE d \in D
    <3>1. Len(d) = 2 /\ <<d[1]>> = c /\ d \in DOMAIN h
      BY <1>14, <1>15, <2>2
    <3>2. \A k \in 1..n : h[d][k] = IF f[c][k] = d[2] THEN 1 ELSE 0
      BY <1>15, <2>2
    <3> QED  BY <1>17, <3>1, <3>2
  <2> QED  BY <1>12, <2>1, <2>2
<1>20. Rowed(h, all, p)
  BY <1>5, <1>13, <1>14, <1>16, <1>18, <1>19 DEF Rowed
<1> QED  BY <1>12, <1>20 DEF all, h, g, own, p, D

\* The rows of a frame of whole rows that are in a part of them.
LEMMA PartIsRowed ==
    ASSUME FileTyped(file), NEW f, NEW names, Rowed(f, names, Ascending(Whole)),
           NEW T, T \subseteq Whole, NEW J,
           J = {i \in 1..Height(f) : Ascending(Whole)[i] \in T}
    PROVE  Rowed(Take(f, Ascending(J)), names, Ascending(T))
<1> DEFINE p == Ascending(Whole)
           n == Cardinality(Whole)
           q == Ascending(J)
           m == Cardinality(T)
<1>1. Height(file) \in Nat /\ Whole \subseteq 1..Height(file) /\ T \subseteq 1..Height(file)
  BY FileIsTall DEF Whole
<1>2. n \in Nat /\ Len(p) = n /\ m \in Nat /\ Len(Ascending(T)) = m
  BY <1>1, PositionsAreFinite, AscendingIsASequence
<1>3. Height(f) = n
  <2>1. Tall(f, Len(p))
    BY DEF Rowed
  <2> QED  BY <1>2, <2>1, TallIsHigh
<1>4. J = {j \in 1..n : p[j] \in T}
  BY <1>3
<1>5. /\ q \in [1..m -> 1..n]
      /\ \A k \in 1..m : p[q[k]] = Ascending(T)[k]
  <2>1. \A j : j \in J <=> (j \in 1..n /\ p[j] \in T)
    BY <1>4
  <2>2. T \subseteq Whole
    OBVIOUS
  <2>3. Height(file) \in Nat /\ Whole \subseteq 1..Height(file)
    BY ONLY <1>1
  <2>4. q \in [1..m -> 1..n]
    BY ONLY <2>1, <2>2, <2>3, PlacesOfPart
  <2>5. Picks(Ascending(T), p, q, m)
    BY ONLY <2>1, <2>2, <2>3, PlacesOfPart
  <2>6. \A k \in 1..m : p[q[k]] = Ascending(T)[k]
    BY <2>5 DEF Picks
  <2> QED  BY ONLY <2>4, <2>6
<1> HIDE DEF p, n, q, m
<1>6. Rowed(f, names, p) /\ q \in [1..m -> 1..Len(p)]
  BY <1>2, <1>5 DEF p
<1>7. \A k \in 1..m : Ascending(T)[k] = p[q[k]]
  BY <1>5
<1>8. Rowed(Take(f, q), names, Ascending(T))
  BY ONLY <1>2, <1>6, <1>7, TakeIsRowed
<1> QED  BY <1>8 DEF q

\* A sequence of two.
LEMMA TwoInOrder ==
    ASSUME NEW S, S \subseteq Int, IsFiniteSet(S), Cardinality(S) = 2
    PROVE  S = {Ascending(S)[1], Ascending(S)[2]} /\ Ascending(S)[1] # Ascending(S)[2]
<1>1. /\ S = {Ascending(S)[k] : k \in 1..2}
      /\ \A i, j \in 1..2 : Ascending(S)[i] = Ascending(S)[j] => i = j
  BY AscendingIsASequence
<1>2. 1 \in 1..2 /\ 2 \in 1..2 /\ 1 # 2 /\ \A k \in 1..2 : k = 1 \/ k = 2
  OBVIOUS
<1>3. {Ascending(S)[k] : k \in 1..2} = {Ascending(S)[1], Ascending(S)[2]}
  BY <1>2
<1> QED  BY <1>1, <1>2, <1>3

\* The whole rows are those of the two groups, as soon as both occur.
LEMMA SplitIsInTwo ==
    ASSUME FileTyped(file), AskTyped, TwoValues, Group \in DOMAIN file,
           NEW f, NEW names, Rowed(f, names, Ascending(Whole)),
           Len(Ascending(GroupValues(f))) >= 2
    PROVE  LET values == Ascending(GroupValues(f))
               target == IF values[1] = ask.reference THEN values[2] ELSE values[1]
           IN  /\ Whole # {}
               /\ \A i \in Whole :
                     (file[Group][i] = target) = (file[Group][i] # ask.reference)
<1> DEFINE V == GroupValues(f)
           G == GroupValues(file)
           s == Ascending(V)
<1>1. Height(file) \in Nat /\ Tall(file, Height(file)) /\ Whole \subseteq 1..Height(file)
  BY FileIsTall DEF Whole
<1>2. DOMAIN file[Group] = 1..Height(file)
  BY <1>1, TallIsHigh
<1>3. \A i \in Whole : file[Group][i] \in Int /\ file[Group][i] # NoCell
  <2>1. SUFFICES ASSUME NEW i \in Whole
                 PROVE  file[Group][i] \in Int /\ file[Group][i] # NoCell
    OBVIOUS
  <2>2. i \in 1..Height(file) /\ ~Incomplete(i)
    BY DEF Whole
  <2>3. file[Group][i] \in Int \cup {NoCell}
    BY <1>1, <2>2 DEF Tall
  <2>4. PICK k \in DOMAIN CleaningColumns(ask) : CleaningColumns(ask)[k].column = Group
    BY ColumnsChecked DEF AskTyped
  <2> QED  BY <2>2, <2>3, <2>4 DEF Incomplete
<1>4. V = LevelsKept(Group)
  <2>1. {f[Group][i] : i \in DOMAIN f[Group]} = LevelsKept(Group)
    BY LevelsOfFrame
  <2>2. NoCell \notin LevelsKept(Group)
    BY <1>3 DEF LevelsKept
  <2> QED  BY <2>1, <2>2 DEF GroupValues
<1>5. V \subseteq G
  BY <1>1, <1>2, <1>3, <1>4 DEF GroupValues, LevelsKept
<1>6. /\ IsFiniteSet(G) /\ \A v \in G : v \in Int
      /\ ask.reference \in G /\ Cardinality(G) <= 2
  <2>1. \A v \in G : v \in Int
    BY <1>1, <1>2 DEF GroupValues, Tall
  <2> DEFINE F == [i \in 1..Height(file) |-> file[Group][i]]
             H == {file[Group][i] : i \in DOMAIN file[Group]}
  <2>2. H = {F[i] : i \in 1..Height(file)}
    BY <1>2
  <2>3. F \in Surjection(1..Height(file), H)
    <3> HIDE DEF H
    <3> QED  BY <2>2 DEF Surjection
  <2>4. IsFiniteSet(H)
    BY <1>1, <2>3, FS_Interval, FS_Surjection
  <2>5. G \in SUBSET H
    BY DEF GroupValues
  <2>6. IsFiniteSet(G)
    BY <2>4, <2>5, FS_Subset
  <2> QED  BY <2>1, <2>6 DEF TwoValues
<1> HIDE DEF V, G, s
<1>7. IsFiniteSet(V) /\ V \subseteq Int
  BY <1>5, <1>6, FS_Subset
<1>8. Cardinality(V) = Cardinality(G) /\ Cardinality(V) = 2
  <2>1. Cardinality(V) <= Cardinality(G)
    BY <1>5, <1>6, FS_Subset
  <2>2. Cardinality(V) >= 2 /\ Cardinality(V) \in Nat
    <3>1. Len(Ascending(V)) >= 2
      BY DEF V
    <3> QED  BY <1>7, <3>1, AscendingIsASequence
  <2>3. Cardinality(G) \in Nat
    BY <1>6, FS_CardinalityType
  <2> QED  BY <1>6, <2>1, <2>2, <2>3
<1>9. V = G
  BY <1>5, <1>6, <1>8, FS_Subset
<1>10. V = {s[1], s[2]} /\ s[1] # s[2]
  BY <1>7, <1>8, TwoInOrder DEF s
<1>11. \A i \in Whole : file[Group][i] \in V
  BY <1>4 DEF LevelsKept
<1>12. ask.reference \in {s[1], s[2]}
  BY <1>6, <1>9, <1>10
<1>13. \A i \in Whole :
          (file[Group][i] = IF s[1] = ask.reference THEN s[2] ELSE s[1])
             = (file[Group][i] # ask.reference)
  BY <1>10, <1>11, <1>12
<1>14. Whole # {}
  BY <1>4, <1>10 DEF LevelsKept
<1> QED  BY <1>13, <1>14 DEF s, V

\* What the split leaves in each group.
LEMMA SplitIsRowed ==
    ASSUME FileTyped(file), AskTyped, TwoValues, Group \in DOMAIN file,
           NEW f, NEW names, Rowed(f, names, Ascending(Whole)),
           Len(Ascending(GroupValues(f))) >= 2
    PROVE  LET values == Ascending(GroupValues(f))
               target == IF values[1] = ask.reference THEN values[2] ELSE values[1]
               OfGroup(v) == Take(f, Ascending({i \in 1..Height(f) : f[Group][i] = v}))
           IN  /\ Rowed(OfGroup(target), names, Ascending(RowsOf("target")))
               /\ Rowed(OfGroup(ask.reference), names, Ascending(RowsOf("reference")))
               /\ Whole # {} /\ Whole = RowsOf("target") \cup RowsOf("reference")
<1> DEFINE values == Ascending(GroupValues(f))
           target == IF values[1] = ask.reference THEN values[2] ELSE values[1]
           OfGroup(v) == Take(f, Ascending({i \in 1..Height(f) : f[Group][i] = v}))
           T(v) == {i \in Whole : file[Group][i] = v}
<1>1. /\ Whole # {}
      /\ \A i \in Whole : (file[Group][i] = target) = (file[Group][i] # ask.reference)
  BY SplitIsInTwo
<1> HIDE DEF target
<1>2. /\ T(target) = RowsOf("target") /\ T(ask.reference) = RowsOf("reference")
      /\ Whole = RowsOf("target") \cup RowsOf("reference")
  <2>1. \A g : RowsOf(g) =
           {i \in Whole : (file[Group][i] = ask.reference) = (g = "reference")}
    BY DEF RowsOf, Whole
  <2>2. RowsOf("target") = {i \in Whole : file[Group][i] # ask.reference}
    BY <2>1
  <2>3. RowsOf("reference") = {i \in Whole : file[Group][i] = ask.reference}
    BY <2>1
  <2> QED  BY <1>1, <2>2, <2>3
<1>3. ASSUME NEW v PROVE Rowed(OfGroup(v), names, Ascending(T(v)))
  <2> DEFINE J == {i \in 1..Height(f) : f[Group][i] = v}
             n == Cardinality(Whole)
             p == Ascending(Whole)
  <2>1. Height(f) = n
    BY LevelsOfFrame
  <2>2. Height(file) \in Nat /\ Whole \subseteq 1..Height(file)
    BY FileIsTall DEF Whole
  <2>3. n \in Nat /\ Len(p) = n /\ p \in [1..n -> Whole]
    BY <2>2, PositionsAreFinite, AscendingIsASequence
  <2>4. \A k \in 1..n : f[Group][k] = file[Group][p[k]] /\ p[k] \in Whole
    BY <2>3 DEF Rowed
  <2>5. J = {i \in 1..Height(f) : p[i] \in T(v)}
    BY <2>1, <2>4
  <2>6. T(v) \subseteq Whole
    OBVIOUS
  <2> HIDE DEF T
  <2> QED  BY <2>5, <2>6, PartIsRowed
<1> HIDE DEF OfGroup, T
<1>4. /\ Rowed(OfGroup(target), names, Ascending(RowsOf("target")))
      /\ Rowed(OfGroup(ask.reference), names, Ascending(RowsOf("reference")))
  BY <1>2, <1>3
<1> QED  BY <1>1, <1>2, <1>4 DEF OfGroup, target

-----------------------------------------------------------------------------
(* The designs, the selected and the pooled *)

\* The columns of a design: the constant, the numeric predictors, the
\* indicators.
LEMMA DesignColumns ==
    ASSUME AskTyped, NEW names \in Seq(ColumnTuples)
    PROVE  LET columns == <<Intercept>> \o ask.numeric \o <<>> \o names
           IN  ToSet(columns) = {Intercept} \cup ToSet(ask.numeric) \cup ToSet(names)
<1> DEFINE X == ColumnNames \cup ColumnTuples \cup {Intercept}
           numeric == ask.numeric
           one == <<Intercept>>
           none == <<>>
<1>1. numeric \in Seq(ColumnNames)
  BY DEF AskTyped
<1>2. (\A x \in ColumnNames : x \in X) /\ (\A x \in ColumnTuples : x \in X) /\ Intercept \in X
  OBVIOUS
<1> HIDE DEF X, numeric, one, none
<1>3. numeric \in Seq(X)
  BY ONLY <1>1, <1>2, SeqGrows
<1>4. names \in Seq(X)
  <2>1. names \in Seq(ColumnTuples)
    OBVIOUS
  <2> QED  BY ONLY <1>2, <2>1, SeqGrows
<1>5. one \in Seq(X) /\ ToSet(one) = {Intercept}
  BY <1>2, SequenceOfOne DEF one
<1>6. none \in Seq(X) /\ ToSet(none) = {}
  BY DEF none, ToSet
<1> DEFINE two == one \o numeric
           three == two \o none
<1>7. two \in Seq(X) /\ ToSet(two) = ToSet(one) \cup ToSet(numeric)
  BY <1>3, <1>5, ConcatIsBoth
<1> HIDE DEF two
<1>8. three \in Seq(X) /\ ToSet(three) = ToSet(two) \cup ToSet(none)
  BY <1>6, <1>7, ConcatIsBoth
<1> HIDE DEF three
<1>9. ToSet(three \o names) = ToSet(three) \cup ToSet(names)
  BY <1>4, <1>8, ConcatIsBoth
<1>10. ToSet(three \o names) = {Intercept} \cup ToSet(numeric) \cup ToSet(names)
  BY <1>5, <1>6, <1>7, <1>8, <1>9
<1> QED  BY <1>10 DEF one, two, three, none, numeric

\* A frame that has its rows of the file makes a design that has them.
LEMMA DesignIsTheirs ==
    ASSUME FileTyped(file), AskTyped, Cleaned, NEW f, NEW p, Rowed(f, dummies, p)
    PROVE  LET d == PrepareData(f, dummies, <<>>)
           IN  Designed(d, p)
<1> DEFINE columns == <<Intercept>> \o ask.numeric \o <<>> \o dummies
           n == Len(p)
           Cell0(c, k) == CASE c = Intercept -> 1
                            [] c # Intercept /\ c \in DOMAIN f -> f[c][k]
                            [] c # Intercept /\ c \notin DOMAIN f -> 0
           d == PrepareData(f, dummies, <<>>)
<1>1. ToSet(columns) = {Intercept} \cup ToSet(ask.numeric) \cup ToSet(dummies)
  BY DesignColumns DEF Cleaned
<1>2. Tall(f, n) /\ n \in Nat /\ Height(f) = n
  BY TallIsHigh DEF Rowed, Tall
<1>3. /\ d.x = [k \in 1..n |-> [j \in DOMAIN columns |-> Cell0(columns[j], k)]]
      /\ d.y = f[Outcome] /\ d.names = columns
  BY <1>2 DEF PrepareData
<1> HIDE DEF d
<1>4. Outcome \in DOMAIN file /\ \A c \in ToSet(ask.numeric) : c \in DOMAIN file /\ Len(c) = 1
  <2>1. \A k \in DOMAIN CleaningColumns(ask) : CleaningColumns(ask)[k].column \in DOMAIN file
    BY DEF Cleaned
  <2>2. \A c \in {Outcome} \cup ToSet(ask.numeric) :
           \E k \in DOMAIN CleaningColumns(ask) : CleaningColumns(ask)[k].column = c
    BY ColumnsChecked DEF AskTyped
  <2>3. \A c \in ToSet(ask.numeric) : c \in ColumnNames
    BY DEF AskTyped, ToSet
  <2>4. \A c \in ColumnNames : Len(c) = 1
    BY DEF ColumnNames
  <2> QED  BY <2>1, <2>2, <2>3, <2>4
<1>5. /\ \A c \in DOMAIN file : c \in DOMAIN f
      /\ \A c \in DOMAIN file, k \in 1..n : f[c][k] = file[c][p[k]]
      /\ \A i \in ToSet(dummies) :
            /\ Len(i) = 2 /\ i \in DOMAIN f
            /\ \A k \in 1..n : f[i][k] = IF file[<<i[1]>>][p[k]] = i[2] THEN 1 ELSE 0
  BY Zenon DEF Rowed
<1>6. Len(Intercept) = 1
  BY DEF Intercept
<1>7. d.x = [k \in 1..n |-> d.x[k]]
  BY <1>2, <1>3, ZenonT(60)
<1>8. d.y = [k \in 1..n |-> d.y[k]]
  BY <1>2, <1>3, <1>4, <1>5 DEF Tall
<1>9. ASSUME NEW k \in 1..n PROVE d.y[k] = file[Outcome][p[k]]
  <2>1. f[Outcome][k] = file[Outcome][p[k]]
    BY ONLY <1>4, <1>5, k \in 1..n
  <2> QED  BY ONLY <1>3, <2>1
<1>10. ASSUME NEW k \in 1..n, NEW j \in DOMAIN columns
       PROVE  d.x[k][j] = CASE columns[j] = Intercept -> 1
                [] columns[j] # Intercept /\ Len(columns[j]) = 1 -> file[columns[j]][p[k]]
                [] Len(columns[j]) = 2 ->
                      IF file[<<columns[j][1]>>][p[k]] = columns[j][2] THEN 1 ELSE 0
  <2> DEFINE c == columns[j]
  <2> HIDE DEF Cell0, columns
  <2>0. d.x[k] = [h \in DOMAIN columns |-> Cell0(columns[h], k)]
    BY <1>3
  <2>1. d.x[k][j] = Cell0(c, k)
    BY <2>0
  <2> USE DEF Cell0
  <2>2. c \in ToSet(columns)
    BY DEF ToSet
  <2> HIDE DEF c, columns
  <2>3. CASE c = Intercept
    <3>1. Cell0(c, k) = 1 /\ Len(c) # 2
      BY <1>6, <2>3
    <3> QED  BY <2>1, <2>3, <3>1 DEF c
  <2>4. CASE c # Intercept /\ c \in ToSet(ask.numeric)
    <3>1. c \in DOMAIN file /\ Len(c) = 1 /\ c \in DOMAIN f /\ f[c][k] = file[c][p[k]]
      BY <1>4, <1>5, <2>4
    <3>2. Cell0(c, k) = file[c][p[k]] /\ Len(c) # 2
      BY <2>4, <3>1
    <3> QED  BY <2>1, <2>4, <3>1, <3>2 DEF c
  <2>5. CASE c # Intercept /\ c \in ToSet(dummies)
    <3>1. /\ Len(c) = 2 /\ c \in DOMAIN f
          /\ f[c][k] = IF file[<<c[1]>>][p[k]] = c[2] THEN 1 ELSE 0
      BY <1>5, <2>5
    <3>2. Cell0(c, k) = f[c][k] /\ Len(c) # 1
      BY <2>5, <3>1
    <3> QED  BY <2>1, <2>5, <3>1, <3>2 DEF c
  <2> QED  BY <1>1, <2>2, <2>3, <2>4, <2>5
<1> HIDE DEF columns, n, Cell0
<1>11. ASSUME NEW k \in 1..n PROVE Carries(d.x[k], d.names, p[k])
  <2>1. d.names = columns
    BY <1>3
  <2>2. Carries(d.x[k], columns, p[k])
    BY <1>10 DEF Carries
  <2> QED  BY <2>1, <2>2
<1> QED  BY <1>7, <1>8, <1>9, <1>11 DEF Designed, d, n

\* What follows the first.
LEMMA TailAfterOne ==
    ASSUME NEW X, NEW s \in Seq(X), NEW a \in X
    PROVE  Tail(<<a>> \o s) = s
<1> DEFINE t == <<a>> \o s
<1>1. s \in Seq(X) /\ Len(s) \in Nat
  OBVIOUS
<1>2. t \in Seq(X) /\ Len(t) = 1 + Len(s)
  OBVIOUS
<1>3. \A i \in 1..Len(s) : t[1 + i] = s[i]
  OBVIOUS
<1> HIDE DEF t
<1>4. Tail(t) \in Seq(X) /\ Len(Tail(t)) = Len(s) /\ \A i \in 1..Len(s) : Tail(t)[i] = s[i]
  BY <1>1, <1>2, <1>3
<1> QED  BY <1>1, <1>4 DEF t

\* Whatever a selection model reads of a group is of its selected rows.
LEMMA SelectionIsTheirs ==
    ASSUME FileTyped(file), AskTyped, Cleaned, Selecting(ask), NEW g,
           Rowed(groups[g], dummies, Ascending(RowsOf(g)))
    PROVE  SelectedFrom(SelectionOf(g), g)
<1> DEFINE f == groups[g]
           S == RowsOf(g)
           p == Ascending(S)
           n == Cardinality(S)
           T == Chosen(g)
           own == Ascending(T)
           m == Cardinality(T)
           J == {i \in 1..Height(f) : f[ask.selection][i] = 1}
           q == Ascending(J)
           h == Take(f, q)
           d == PrepareData(f, dummies, <<>>)
           s == SelectionOf(g)
           Reads(k) == [j \in DOMAIN ask.selectors |-> h[ask.selectors[j]][k]]
<1>1. Height(file) \in Nat /\ S \subseteq 1..Height(file) /\ T \subseteq S
  BY FileIsTall DEF RowsOf, Chosen
<1>2. n \in Nat /\ Len(p) = n /\ m \in Nat /\ Len(own) = m /\ DOMAIN own = 1..m
  BY <1>1, PositionsAreFinite, AscendingIsASequence
<1>3. Height(f) = n
  BY <1>2, TallIsHigh DEF Rowed
<1>4. /\ Outcome \in DOMAIN file /\ ask.selection \in DOMAIN file
      /\ \A j \in DOMAIN ask.selectors : ask.selectors[j] \in DOMAIN file
  <2>1. \A k \in DOMAIN CleaningColumns(ask) : CleaningColumns(ask)[k].column \in DOMAIN file
    BY DEF Cleaned
  <2>2. \A c \in {Outcome, ask.selection} \cup ToSet(ask.selectors) :
           \E k \in DOMAIN CleaningColumns(ask) : CleaningColumns(ask)[k].column = c
    BY ColumnsChecked DEF AskTyped
  <2>3. \A j \in DOMAIN ask.selectors : ask.selectors[j] \in ToSet(ask.selectors)
    BY DEF ToSet
  <2> QED  BY <2>1, <2>2, <2>3
<1>5. \A k \in 1..n : p[k] \in S /\ f[ask.selection][k] = file[ask.selection][p[k]]
  <2>1. p \in [1..n -> S]
    BY <1>1, PositionsAreFinite, AscendingIsASequence
  <2>2. \A c \in DOMAIN file, k \in 1..n : f[c][k] = file[c][p[k]]
    BY <1>2 DEF Rowed
  <2> QED  BY <1>4, <2>1, <2>2
<1>6. \A j : j \in J <=> (j \in 1..n /\ p[j] \in T)
  BY <1>3, <1>5 DEF Chosen
<1> HIDE DEF J, T
<1>7. q \in [1..m -> 1..n] /\ DOMAIN q = 1..m
  <2>1. q \in [1..m -> 1..n]
    BY ONLY <1>1, <1>6, PlacesOfPart
  <2> QED  BY <2>1
<1>8. \A k \in 1..m : own[k] = p[q[k]]
  <2>1. Picks(own, p, q, m)
    BY ONLY <1>1, <1>6, PlacesOfPart
  <2> QED  BY <2>1 DEF Picks
<1>9. Rowed(h, dummies, own)
  <2>1. Rowed(f, dummies, p) /\ q \in [1..m -> 1..Len(p)]
    BY <1>2, <1>7
  <2> HIDE DEF f, p, q, own, m
  <2> QED  BY ONLY <1>2, <1>8, <2>1, TakeIsRowed DEF h
<1>10. Height(h) = m /\ \A c \in DOMAIN file, k \in 1..m : h[c][k] = file[c][own[k]]
  BY <1>2, <1>9, TallIsHigh DEF Rowed
<1>11. Designed(d, p)
  BY DesignIsTheirs
<1>12. /\ s.x = [k \in 1..m |-> d.x[q[k]]] /\ s.y = [k \in 1..m |-> d.y[q[k]]]
       /\ s.names = d.names
       /\ s.selectors = [k \in 1..m |-> <<1>> \o Reads(k)]
  BY <1>7, <1>10 DEF SelectionOf, J
<1> HIDE DEF s, d, h, q, p, own, n, m, f
<1>13. Len(s.x) = m /\ Len(s.y) = m /\ Len(s.selectors) = m
  BY <1>2, <1>12
<1>14. ASSUME NEW k \in 1..m
       PROVE  Carries(s.x[k], s.names, own[k]) /\ s.y[k] = file[Outcome][own[k]]
  <2>1. q[k] \in 1..n /\ own[k] = p[q[k]]
    BY <1>7, <1>8
  <2>2. Carries(d.x[q[k]], d.names, p[q[k]]) /\ d.y[q[k]] = file[Outcome][p[q[k]]]
    BY <1>2, <1>11, <2>1 DEF Designed
  <2> QED  BY <1>12, <2>1, <2>2
<1>15. ASSUME NEW k \in 1..m
       PROVE  Tail(s.selectors[k]) =
                 [j \in DOMAIN ask.selectors |-> file[ask.selectors[j]][own[k]]]
  <2> DEFINE X == {1} \cup {Reads(k)[j] : j \in DOMAIN ask.selectors}
             r == Reads(k)
  <2>1. r \in Seq(X)
    <3>1. DOMAIN ask.selectors = 1..Len(ask.selectors) /\ Len(ask.selectors) \in Nat
      BY DEF AskTyped
    <3>2. r = [j \in 1..Len(ask.selectors) |-> Reads(k)[j]]
      BY <3>1
    <3>3. \A j \in 1..Len(ask.selectors) : Reads(k)[j] \in X
      BY <3>1
    <3> HIDE DEF X, Reads
    <3>4. r \in [1..Len(ask.selectors) -> X]
      BY <3>2, <3>3
    <3> QED  BY <3>1, <3>4
  <2>2. 1 \in X
    OBVIOUS
  <2>3. r = [j \in DOMAIN ask.selectors |-> file[ask.selectors[j]][own[k]]]
    BY <1>4, <1>10
  <2>4. s.selectors[k] = <<1>> \o r
    BY <1>12
  <2> HIDE DEF X, r
  <2>5. Tail(<<1>> \o r) = r
    BY <2>1, <2>2, TailAfterOne
  <2> QED  BY <2>3, <2>4, <2>5
<1>16. own = Ascending(Chosen(g)) /\ s = SelectionOf(g)
  BY DEF own, T, S, s
<1>17. SelectedFrom(s, g)
  BY <1>2, <1>13, <1>14, <1>15, <1>16 DEF SelectedFrom
<1> QED  BY <1>16, <1>17

\* Where the elements of a sequence of known length are, before or after
\* another.
LEMMA FirstThenSecond ==
    ASSUME NEW n \in Nat, NEW m \in Nat, NEW s, NEW t,
           s = [k \in 1..n |-> s[k]], t = [k \in 1..m |-> t[k]]
    PROVE  /\ Len(s) = n
           /\ \A k \in 1..n : (s \o t)[k] = s[k]
           /\ \A k \in 1..m : (s \o t)[n + k] = t[k]
<1> DEFINE X == {s[k] : k \in 1..n} \cup {t[k] : k \in 1..m}
<1>1. (\A k \in 1..n : s[k] \in X) /\ (\A k \in 1..m : t[k] \in X)
  OBVIOUS
<1> HIDE DEF X
<1>2. s \in Seq(X) /\ Len(s) = n
  BY <1>1
<1>3. t \in Seq(X) /\ Len(t) = m
  BY <1>1
<1>4. \A k \in 1..n : (s \o t)[k] = s[k]
  BY <1>2, <1>3
<1>5. \A k \in 1..m : (s \o t)[n + k] = t[k]
  BY <1>2, <1>3
<1> QED  BY <1>2, <1>4, <1>5

\* An element that occurs once has one place.
LEMMA PlaceIsUnique ==
    ASSUME NEW s, NEW k \in DOMAIN s, \A i, j \in DOMAIN s : s[i] = s[j] => i = j
    PROVE  PlaceOf(s, s[k]) = k
BY DEF PlaceOf

\* rows are the numbers, from zero, of the rows of S, each once.
Numbered(rows, S) ==
    /\ Cardinality(S) \in Nat /\ Len(Ascending(S)) = Cardinality(S)
    /\ Len(rows) = Cardinality(S) /\ DOMAIN rows = 1..Cardinality(S)
    /\ \A k \in 1..Cardinality(S) :
          /\ Ascending(S)[k] \in S /\ rows[k] + 1 = Ascending(S)[k]
          /\ rows[k] \in ToSet(rows) /\ PlaceOf(rows, rows[k]) = k

\* The rows of a group, as they are numbered.
LEMMA RowsAreNumbered ==
    ASSUME NEW h \in Nat, NEW S, S \subseteq 1..h,
           NEW rows, rows = Ascending({i - 1 : i \in S})
    PROVE  Numbered(rows, S)
<1> DEFINE n == Cardinality(S)
           p == Ascending(S)
<1>1. /\ n \in Nat /\ Len(p) = n /\ p \in [1..n -> S]
      /\ \A j, k \in 1..n : p[j] = p[k] => j = k
  BY PositionsAreFinite, AscendingIsASequence
<1>2. rows = [k \in 1..n |-> p[k] - 1]
  BY FromZero
<1> HIDE DEF n, p
<1>3. \A k \in 1..n : p[k] \in S /\ p[k] \in Int
  <2>1. \A i \in S : i \in Int
    OBVIOUS
  <2> QED  BY <1>1, <2>1
<1>4. DOMAIN rows = 1..n /\ Len(rows) = n
  BY <1>1, <1>2
<1>5. \A k \in 1..n : rows[k] = p[k] - 1
  BY <1>2
<1>6. \A k \in 1..n : rows[k] + 1 = p[k]
  BY <1>3, <1>5
<1>7. \A j, k \in DOMAIN rows : rows[j] = rows[k] => j = k
  <2>1. ASSUME NEW j \in 1..n, NEW k \in 1..n, rows[j] = rows[k] PROVE j = k
    <3>1. p[j] = p[k]
      BY <1>6, <2>1
    <3> QED  BY <1>1, <3>1
  <2> QED  BY <1>4, <2>1
<1>8. \A k \in 1..n : PlaceOf(rows, rows[k]) = k
  <2>1. \A k \in DOMAIN rows : PlaceOf(rows, rows[k]) = k
    BY ONLY <1>7, PlaceIsUnique
  <2> QED  BY <1>4, <2>1
<1>9. \A k \in 1..n : rows[k] \in ToSet(rows)
  BY <1>4 DEF ToSet
<1> QED  BY <1>1, <1>3, <1>4, <1>6, <1>8, <1>9 DEF n, p, Numbered

\* The rows of the reference and then those of the target, marked, and the
\* place of each by its number.
Stacks(s, r, t) ==
    /\ s.x = [k \in DOMAIN r.data.x |-> <<1, 0>> \o Tail(r.data.x[k])]
                \o [k \in DOMAIN t.data.x |-> <<1, 1>> \o Tail(t.data.x[k])]
    /\ s.y = r.data.y \o t.data.y
    /\ \A o \in ToSet(r.rows) \cup ToSet(t.rows) :
          s.slot[o] = IF Contains(t.rows, o)
                      THEN Len(r.rows) + PlaceOf(t.rows, o)
                      ELSE PlaceOf(r.rows, o)

\* The stacked design resolves every ordinal to its own row.
LEMMA PoolIsTheirs ==
    ASSUME FileTyped(file), NEW r, NEW t,
           r = matrices["reference"], t = matrices["target"],
           Designed(r.data, Ascending(RowsOf("reference"))),
           Designed(t.data, Ascending(RowsOf("target"))),
           r.rows = Ascending({i - 1 : i \in RowsOf("reference")}),
           t.rows = Ascending({i - 1 : i \in RowsOf("target")}),
           NEW s, Stacks(s, r, t)
    PROVE  \A g \in {"target", "reference"} : Pooled(s, g)
<1> DEFINE R == RowsOf("reference")
           T == RowsOf("target")
           p == Ascending(R)
           q == Ascending(T)
           n == Cardinality(R)
           m == Cardinality(T)
           rr == r.rows
           tr == t.rows
           ry == r.data.y
           ty == t.data.y
           rd == r.data.x
           td == t.data.x
           slot == s.slot
           rx == [k \in DOMAIN rd |-> <<1, 0>> \o Tail(rd[k])]
           tx == [k \in DOMAIN td |-> <<1, 1>> \o Tail(td[k])]
<1>1. /\ Height(file) \in Nat /\ R \subseteq 1..Height(file) /\ T \subseteq 1..Height(file)
      /\ \A i \in R : i \notin T
  BY FileIsTall DEF RowsOf
<1>2. rr = Ascending({i - 1 : i \in R}) /\ tr = Ascending({i - 1 : i \in T})
  BY Zenon
<1>3. /\ \A o \in ToSet(rr) \cup ToSet(tr) :
            slot[o] = IF Contains(tr, o) THEN Len(rr) + PlaceOf(tr, o)
                      ELSE PlaceOf(rr, o)
      /\ rx = [k \in DOMAIN rd |-> <<1, 0>> \o Tail(rd[k])]
      /\ tx = [k \in DOMAIN td |-> <<1, 1>> \o Tail(td[k])]
      /\ s.x = rx \o tx /\ s.y = ry \o ty
  BY Zenon DEF Stacks
<1>a. Designed(r.data, p) /\ Designed(t.data, q)
  OBVIOUS
<1> HIDE DEF R, T
<1>4. /\ n \in Nat /\ Len(p) = n /\ Len(rr) = n /\ DOMAIN rr = 1..n
      /\ \A k \in 1..n : /\ p[k] \in R /\ rr[k] + 1 = p[k]
                         /\ rr[k] \in ToSet(rr) /\ PlaceOf(rr, rr[k]) = k
  <2> HIDE DEF rr
  <2>1. Height(file) \in Nat /\ R \subseteq 1..Height(file)
    BY <1>1
  <2>2. rr = Ascending({i - 1 : i \in R})
    BY <1>2
  <2>3. Numbered(rr, R)
    BY ONLY <2>1, <2>2, RowsAreNumbered
  <2> QED  BY ONLY <2>3 DEF Numbered
<1>5. /\ m \in Nat /\ Len(q) = m /\ Len(tr) = m /\ DOMAIN tr = 1..m
      /\ \A k \in 1..m : /\ q[k] \in T /\ tr[k] + 1 = q[k]
                         /\ tr[k] \in ToSet(tr) /\ PlaceOf(tr, tr[k]) = k
  <2> HIDE DEF tr
  <2>1. Height(file) \in Nat /\ T \subseteq 1..Height(file)
    BY <1>1
  <2>2. tr = Ascending({i - 1 : i \in T})
    BY <1>2
  <2>3. Numbered(tr, T)
    BY ONLY <2>1, <2>2, RowsAreNumbered
  <2> QED  BY ONLY <2>3 DEF Numbered
<1>6. /\ rd = [k \in 1..n |-> rd[k]] /\ ry = [k \in 1..n |-> ry[k]]
      /\ \A k \in 1..n : Carries(rd[k], r.data.names, p[k]) /\ ry[k] = file[Outcome][p[k]]
  BY <1>a, <1>4 DEF Designed
<1>7. /\ td = [k \in 1..m |-> td[k]] /\ ty = [k \in 1..m |-> ty[k]]
      /\ \A k \in 1..m : Carries(td[k], t.data.names, q[k]) /\ ty[k] = file[Outcome][q[k]]
  BY <1>a, <1>5 DEF Designed
<1> HIDE DEF p, q, n, m, rr, tr, ry, ty, rd, td, slot, rx, tx
<1>8. /\ rx = [k \in 1..n |-> rx[k]] /\ tx = [k \in 1..m |-> tx[k]]
      /\ \A k \in 1..n : rx[k] = <<1, 0>> \o Tail(rd[k])
      /\ \A k \in 1..m : tx[k] = <<1, 1>> \o Tail(td[k])
  <2>1. DOMAIN rd = 1..n /\ DOMAIN td = 1..m
    BY <1>6, <1>7
  <2> QED  BY <1>3, <2>1
<1>9. /\ \A k \in 1..n : s.x[k] = rx[k]
      /\ \A k \in 1..m : s.x[n + k] = tx[k]
  <2>1. /\ \A k \in 1..n : (rx \o tx)[k] = rx[k]
        /\ \A k \in 1..m : (rx \o tx)[n + k] = tx[k]
    BY ONLY <1>4, <1>5, <1>8, FirstThenSecond
  <2> QED  BY <1>3, <2>1
<1>10. /\ \A k \in 1..n : s.y[k] = ry[k]
       /\ \A k \in 1..m : s.y[n + k] = ty[k]
  <2>1. /\ \A k \in 1..n : (ry \o ty)[k] = ry[k]
        /\ \A k \in 1..m : (ry \o ty)[n + k] = ty[k]
    BY ONLY <1>4, <1>5, <1>6, <1>7, FirstThenSecond
  <2> QED  BY <1>3, <2>1
<1>11. \A k \in 1..m : slot[tr[k]] = n + k
  <2>1. \A k \in 1..m : Contains(tr, tr[k])
    BY <1>5 DEF Contains
  <2>2. ASSUME NEW k \in 1..m PROVE slot[tr[k]] = n + k
    <3>1. tr[k] \in ToSet(rr) \cup ToSet(tr) /\ PlaceOf(tr, tr[k]) = k
      BY <1>5
    <3>2. slot[tr[k]] = Len(rr) + PlaceOf(tr, tr[k])
      BY <1>3, <2>1, <3>1
    <3> QED  BY <1>4, <3>1, <3>2
  <2> QED  BY <2>2
<1>12. \A k \in 1..n : slot[rr[k]] = k
  <2>1. ASSUME NEW k \in 1..n PROVE ~Contains(tr, rr[k])
    <3>1. SUFFICES ASSUME NEW j \in 1..m, tr[j] = rr[k] PROVE FALSE
      BY <1>5 DEF Contains
    <3>2. q[j] = p[k]
      BY <1>4, <1>5, <3>1
    <3>3. q[j] \in T /\ p[k] \in R
      BY <1>4, <1>5
    <3> QED  BY <1>1, <3>2, <3>3
  <2> QED  BY <1>3, <1>4, <2>1
<1>13. ASSUME NEW k \in 1..n
       PROVE  /\ Carries(rd[k], r.data.names, rr[k] + 1)
              /\ ry[k] = file[Outcome][rr[k] + 1]
              /\ s.y[slot[rr[k]]] = file[Outcome][rr[k] + 1]
              /\ s.x[slot[rr[k]]] = <<1, 0>> \o Tail(rd[k])
  <2>1. rr[k] + 1 = p[k] /\ slot[rr[k]] = k
    BY <1>4, <1>12
  <2>2. Carries(rd[k], r.data.names, p[k]) /\ ry[k] = file[Outcome][p[k]]
    BY <1>6
  <2>3. s.y[k] = ry[k] /\ s.x[k] = <<1, 0>> \o Tail(rd[k])
    BY <1>8, <1>9, <1>10
  <2> QED  BY <2>1, <2>2, <2>3
<1>14. ASSUME NEW k \in 1..m
       PROVE  /\ Carries(td[k], t.data.names, tr[k] + 1)
              /\ ty[k] = file[Outcome][tr[k] + 1]
              /\ s.y[slot[tr[k]]] = file[Outcome][tr[k] + 1]
              /\ s.x[slot[tr[k]]] = <<1, 1>> \o Tail(td[k])
  <2>1. tr[k] + 1 = q[k] /\ slot[tr[k]] = n + k
    BY <1>5, <1>11
  <2>2. Carries(td[k], t.data.names, q[k]) /\ ty[k] = file[Outcome][q[k]]
    BY <1>7
  <2>3. s.y[n + k] = ty[k] /\ s.x[n + k] = <<1, 1>> \o Tail(td[k])
    BY <1>8, <1>9, <1>10
  <2> QED  BY <2>1, <2>2, <2>3
<1>15. Pooled(s, "reference")
  <2>1. rr = Ascending({i - 1 : i \in RowsOf("reference")}) /\ DOMAIN rr = 1..n
    BY <1>2, <1>4 DEF R
  <2>2. \A k \in DOMAIN rr :
           /\ Carries(rd[k], r.data.names, rr[k] + 1)
           /\ ry[k] = file[Outcome][rr[k] + 1]
           /\ s.y[slot[rr[k]]] = file[Outcome][rr[k] + 1]
           /\ s.x[slot[rr[k]]] = <<1, 0>> \o Tail(rd[k])
    BY <1>13, <2>1
  <2>3. "reference" # "target"
    OBVIOUS
  <2> QED  BY <2>1, <2>2, <2>3 DEF Pooled, rr, rd, ry, slot
<1>16. Pooled(s, "target")
  <2>1. tr = Ascending({i - 1 : i \in RowsOf("target")}) /\ DOMAIN tr = 1..m
    BY <1>2, <1>5 DEF T
  <2>2. \A k \in DOMAIN tr :
           /\ Carries(td[k], t.data.names, tr[k] + 1)
           /\ ty[k] = file[Outcome][tr[k] + 1]
           /\ s.y[slot[tr[k]]] = file[Outcome][tr[k] + 1]
           /\ s.x[slot[tr[k]]] = <<1, 1>> \o Tail(td[k])
    BY <1>14, <2>1
  <2> QED  BY <2>1, <2>2 DEF Pooled, tr, td, ty, slot
<1> QED  BY <1>15, <1>16

-----------------------------------------------------------------------------
(* Levels confined to one group *)

\* A predictor collapses a design when some combination of its columns that
\* is not all zero is zero at every row that counts.
LEMMA CollapsesIs ==
    ASSUME NEW f, NEW c
    PROVE  Collapses(f, c) =
              \E v \in [Terms(c) -> -1..1] :
                 /\ \E t \in Terms(c) : v[t] # 0
                 /\ \A k \in 1..Height(f) : Counts(f, k) => Combined(f, c, v, k) = 0
BY DEF Collapses, Terms, TermAt, Combined, Counts

\* A sum of at most two terms that are not zero.
LEMMA SumOfTwo ==
    ASSUME NEW f, NEW S, IsFiniteSet(S), \A x \in S : f[x] \in Int,
           NEW a \in S, NEW b \in S, a # b, \A x \in S : x # a /\ x # b => f[x] = 0
    PROVE  SumFunctionOnSet(f, S) = f[a] + f[b]
<1> DEFINE R == S \ {a}
           Q == R \ {b}
<1>1. IsFiniteSet(R) /\ b \in R /\ \A x \in R : f[x] \in Int
  BY FS_RemoveElement
<1>2. IsFiniteSet(Q) /\ \A x \in Q : f[x] = 0
  BY <1>1, FS_RemoveElement
<1>3. SumFunctionOnSet(f, S) = f[a] + SumFunctionOnSet(f, R)
  BY SumRemove
<1> HIDE DEF R
<1>4. SumFunctionOnSet(f, R) = f[b] + SumFunctionOnSet(f, Q)
  BY <1>1, SumRemove
<1> HIDE DEF Q
<1>5. SumFunctionOnSet(f, Q) = 0
  BY <1>2, SumZero
<1>6. f[a] \in Int /\ f[b] \in Int
  OBVIOUS
<1> QED  BY <1>3, <1>4, <1>5, <1>6

\* A categorical predictor is a column of the file.
LEMMA PredictorIsColumn ==
    ASSUME AskTyped, Cleaned, NEW c \in ToSet(ask.cats)
    PROVE  c \in DOMAIN file
<1>1. \A k \in DOMAIN CleaningColumns(ask) : CleaningColumns(ask)[k].column \in DOMAIN file
  BY DEF Cleaned, NamesMade
<1>2. \E k \in DOMAIN CleaningColumns(ask) : CleaningColumns(ask)[k].column = c
  BY ColumnsChecked DEF AskTyped
<1> QED  BY <1>1, <1>2

\* The indicators of a predictor are those of its levels but the first.
LEMMA TermsAre ==
    ASSUME FileTyped(file), AskTyped, Cleaned, encoded = Len(ask.cats),
           NEW c \in ToSet(ask.cats)
    PROVE  /\ c \in DOMAIN file
           /\ Terms(c) = {Intercept} \cup {Append(c, l) : l \in Indicated(c)}
           /\ IsFiniteSet(Terms(c))
           /\ \A l \in Indicated(c) :
                 /\ l \in LevelsKept(c) /\ l \in Int
                 /\ Append(c, l) \in ToSet(dummies) /\ Append(c, l) # Intercept
                 /\ <<Append(c, l)[1]>> = c /\ Append(c, l)[2] = l
<1> DEFINE D == {Append(c, l) : l \in Indicated(c)}
<1>1. c \in DOMAIN file
  BY PredictorIsColumn
<1>2. \A x \in ToSet(ask.cats) : x \in ColumnNames
  BY DEF AskTyped, ToSet
<1>3. IsFiniteSet(LevelsKept(c)) /\ \A l \in LevelsKept(c) : l \in Int
  BY <1>1, LevelsOfColumn
<1>4. \A l \in Indicated(c) : l \in LevelsKept(c) /\ l \in Int
  BY <1>3 DEF Indicated
<1>5. IsFiniteSet(Indicated(c))
  BY <1>3, FS_Subset DEF Indicated
<1>6. ASSUME NEW x \in ToSet(ask.cats), x \in DOMAIN file, NEW l \in Indicated(x)
      PROVE  <<Append(x, l)[1]>> = x /\ Append(x, l)[2] = l /\ Len(Append(x, l)) = 2
  <2>1. l \in Int
    BY <1>6, LevelsOfColumn DEF Indicated
  <2>2. x \in ColumnNames
    BY <1>2
  <2> QED  BY <2>1, <2>2, IndicatorNames
<1>7. ToSet(ask.cats) = {ask.cats[j] : j \in 1..encoded}
  <2>1. DOMAIN ask.cats = 1..encoded
    BY DEF AskTyped
  <2> QED  BY <2>1 DEF ToSet
<1>8. \A x \in ToSet(ask.cats) : x \in DOMAIN file
  BY PredictorIsColumn
<1>9. ToSet(dummies) =
         UNION {{Append(ask.cats[j], l) : l \in Indicated(ask.cats[j])} : j \in 1..encoded}
  BY DEF Cleaned, NamesMade
<1>10. ASSUME NEW l \in Indicated(c) PROVE Append(c, l) \in ToSet(dummies)
  <2>1. PICK j \in 1..encoded : c = ask.cats[j]
    BY <1>7
  <2> QED  BY <1>9, <2>1, SMTT(30)
<1>11. ASSUME NEW n \in ToSet(dummies), <<n[1]>> = c PROVE n \in D
  <2>0. PICK j \in 1..encoded : n \in {Append(ask.cats[j], l) : l \in Indicated(ask.cats[j])}
    BY <1>9
  <2>1. PICK l \in Indicated(ask.cats[j]) : n = Append(ask.cats[j], l)
    BY <2>0
  <2>2. ask.cats[j] \in ToSet(ask.cats) /\ ask.cats[j] \in DOMAIN file
    BY <1>7, <1>8
  <2>3. ask.cats[j] = c
    BY <1>6, <1>11, <2>1, <2>2
  <2> QED  BY <2>1, <2>3
<1>12. \A l \in Indicated(c) : <<Append(c, l)[1]>> = c /\ Append(c, l)[2] = l
                               /\ Append(c, l) # Intercept
  <2>1. Len(Intercept) = 1
    BY DEF Intercept
  <2> QED  BY <1>1, <1>6, <2>1
<1>13. Terms(c) = {Intercept} \cup D
  BY ONLY <1>10, <1>11, <1>12, ZenonT(60) DEF Terms
<1>14. IsFiniteSet(D)
  <2> DEFINE F == [l \in Indicated(c) |-> Append(c, l)]
  <2>1. D = {F[l] : l \in Indicated(c)}
    OBVIOUS
  <2>2. F \in Surjection(Indicated(c), D)
    <3> HIDE DEF D
    <3> QED  BY <2>1 DEF Surjection
  <2> QED  BY <1>5, <2>2, FS_Surjection
<1> HIDE DEF D
<1>15. IsFiniteSet(D \cup {Intercept})
  BY <1>14, FS_AddElement
<1>16. IsFiniteSet(Terms(c))
  <2>1. Terms(c) = D \cup {Intercept}
    BY <1>13
  <2> QED  BY <1>15, <2>1
<1> QED  BY <1>1, <1>4, <1>10, <1>12, <1>13, <1>16 DEF D

\* At a row, the constant and the indicator of its own level are left.
LEMMA CombinedIs ==
    ASSUME FileTyped(file), AskTyped, Cleaned, encoded = Len(ask.cats),
           NEW c \in ToSet(ask.cats), NEW f, NEW p, Rowed(f, dummies, p),
           NEW v \in [Terms(c) -> -1..1], NEW k \in 1..Len(p),
           NEW l, l = file[c][p[k]]
    PROVE  Combined(f, c, v, k) =
              IF l \in Indicated(c) THEN v[Intercept] + v[Append(c, l)] ELSE v[Intercept]
<1> DEFINE S == Terms(c)
           F == [t \in S |-> v[t] * TermAt(f, t, k)]
<1>1. /\ IsFiniteSet(S) /\ S = {Intercept} \cup {Append(c, m) : m \in Indicated(c)}
      /\ \A m \in Indicated(c) :
            /\ Append(c, m) \in ToSet(dummies) /\ Append(c, m) # Intercept
            /\ <<Append(c, m)[1]>> = c /\ Append(c, m)[2] = m
  BY TermsAre
<1>2. \A m \in Indicated(c) : TermAt(f, Append(c, m), k) = IF l = m THEN 1 ELSE 0
  <2>1. \A d \in ToSet(dummies) :
           f[d][k] = IF file[<<d[1]>>][p[k]] = d[2] THEN 1 ELSE 0
    BY DEF Rowed
  <2> QED  BY <1>1, <2>1 DEF TermAt
<1>3. \A t \in S : v[t] \in Int
  OBVIOUS
<1>4. TermAt(f, Intercept, k) = 1 /\ Intercept \in S
  BY <1>1 DEF TermAt
<1>5. Combined(f, c, v, k) = SumFunctionOnSet(F, S)
  BY DEF Combined
<1>6. \A t \in S : F[t] = v[t] * TermAt(f, t, k)
  OBVIOUS
<1> HIDE DEF S, F
<1>7. F[Intercept] = v[Intercept] /\ F[Intercept] \in Int
  BY <1>3, <1>4, <1>6
<1>8. \A m \in Indicated(c) :
         Append(c, m) \in S /\ F[Append(c, m)] = IF l = m THEN v[Append(c, m)] ELSE 0
  <2>1. \A m \in Indicated(c) : Append(c, m) \in S
    BY <1>1
  <2> QED  BY <1>2, <1>3, <1>6, <2>1
<1>9. \A t \in S : F[t] \in Int
  <2>1. ASSUME NEW t \in S, t # Intercept PROVE F[t] \in Int
    <3>1. PICK m \in Indicated(c) : t = Append(c, m)
      BY <1>1, <2>1
    <3>2. F[t] = (IF l = m THEN v[t] ELSE 0) /\ v[t] \in Int
      BY <1>3, <1>8, <3>1
    <3> QED  BY <3>2
  <2> QED  BY <1>7, <2>1
<1>10. CASE l \in Indicated(c)
  <2>1. \A t \in S : t # Intercept /\ t # Append(c, l) => F[t] = 0
    <3>1. ASSUME NEW t \in S, t # Intercept, t # Append(c, l) PROVE F[t] = 0
      <4>1. PICK m \in Indicated(c) : t = Append(c, m)
        BY <1>1, <3>1
      <4>2. m # l
        BY <3>1, <4>1
      <4> QED  BY <1>8, <4>1, <4>2
    <3> QED  BY <3>1
  <2>2. Append(c, l) \in S /\ Append(c, l) # Intercept /\ F[Append(c, l)] = v[Append(c, l)]
    BY <1>1, <1>8, <1>10
  <2>3. SumFunctionOnSet(F, S) = F[Intercept] + F[Append(c, l)]
    <3>1. IsFiniteSet(S)
      BY <1>1
    <3> QED  BY <1>4, <1>9, <2>1, <2>2, <3>1, SumOfTwo
  <2> QED  BY <1>5, <1>7, <1>10, <2>2, <2>3
<1>11. CASE l \notin Indicated(c)
  <2> DEFINE R == S \ {Intercept}
  <2>1. \A t \in R : F[t] = 0
    <3>1. ASSUME NEW t \in R PROVE F[t] = 0
      <4>1. PICK m \in Indicated(c) : t = Append(c, m)
        BY <1>1
      <4> QED  BY <1>8, <1>11, <4>1
    <3> QED  BY <3>1
  <2>2. IsFiniteSet(S) /\ IsFiniteSet(R)
    BY <1>1, FS_RemoveElement
  <2>3. SumFunctionOnSet(F, S) = F[Intercept] + SumFunctionOnSet(F, R)
    BY <1>4, <1>9, <2>2, SumRemove
  <2> HIDE DEF R
  <2>4. SumFunctionOnSet(F, R) = 0
    BY <2>1, <2>2, SumZero
  <2> QED  BY <1>5, <1>7, <1>11, <2>3, <2>4
<1> QED  BY <1>10, <1>11

\* The first of some numbers is one of them.
LEMMA FirstIsIn ==
    ASSUME NEW S, S \subseteq Int, IsFiniteSet(S), S # {}
    PROVE  Ascending(S)[1] \in S
<1> DEFINE n == Cardinality(S)
           s == Ascending(S)
<1>1. n \in Nat /\ s \in [1..n -> S] /\ \A x \in S : \E k \in 1..n : s[k] = x
  BY AscendingEnumerates
<1> HIDE DEF n, s
<1>2. 1 \in 1..n
  <2>1. PICK k \in 1..n : TRUE
    BY <1>1
  <2> QED  BY <1>1, <2>1
<1>3. s[1] \in S
  BY <1>1, <1>2
<1> QED  BY <1>3 DEF s

\* The levels of the groups are those of the whole rows.
LEMMA LevelsOfGroups ==
    ASSUME FileTyped(file), RowsSplit, NEW c \in DOMAIN file
    PROVE  /\ LevelsFound(groups, c) = LevelsKept(c)
           /\ \A g \in DOMAIN groups :
                 /\ Rowed(groups[g], dummies, Ascending(RowsOf(g)))
                 /\ Height(groups[g]) = Len(Ascending(RowsOf(g)))
                 /\ DOMAIN groups[g][c] = 1..Height(groups[g])
                 /\ \A k \in 1..Height(groups[g]) :
                       /\ groups[g][c][k] = file[c][Ascending(RowsOf(g))[k]]
                       /\ groups[g][c][k] \in LevelsKept(c)
<1> DEFINE p(g) == Ascending(RowsOf(g))
           n(g) == Cardinality(RowsOf(g))
           G == {"target", "reference"}
<1>1. /\ Height(file) \in Nat
      /\ \A g : RowsOf(g) \subseteq 1..Height(file) /\ RowsOf(g) \subseteq Whole
  BY FileIsTall DEF RowsOf, Whole
<1>2. DOMAIN groups = G /\ Whole = RowsOf("target") \cup RowsOf("reference")
  BY DEF RowsSplit
<1>3. ASSUME NEW g \in G
      PROVE  /\ Rowed(groups[g], dummies, p(g))
             /\ n(g) \in Nat /\ Len(p(g)) = n(g)
             /\ \A i \in RowsOf(g) : \E k \in 1..n(g) : p(g)[k] = i
             /\ Height(groups[g]) = n(g)
             /\ DOMAIN groups[g][c] = 1..n(g)
             /\ \A k \in 1..n(g) : groups[g][c][k] = file[c][p(g)[k]] /\ p(g)[k] \in RowsOf(g)
  <2>1. Rowed(groups[g], dummies, p(g))
    BY <1>2 DEF RowsSplit
  <2>2. RowsOf(g) \subseteq 1..Height(file) /\ Height(file) \in Nat
    BY <1>1
  <2>3. /\ n(g) \in Nat /\ Len(p(g)) = n(g) /\ p(g) \in [1..n(g) -> RowsOf(g)]
        /\ RowsOf(g) = {p(g)[k] : k \in 1..n(g)}
    BY <2>2, PositionsAreFinite, AscendingIsASequence
  <2>a. \A i \in RowsOf(g) : \E k \in 1..n(g) : p(g)[k] = i
    <3> DEFINE Own == RowsOf(g)
    <3>1. Own = {p(g)[k] : k \in 1..n(g)}
      BY <2>3
    <3> HIDE DEF Own, p, n
    <3>2. \A i \in Own : \E k \in 1..n(g) : p(g)[k] = i
      BY <3>1
    <3> QED  BY <3>2 DEF Own
  <2> DEFINE f == groups[g]
             q == p(g)
             m == n(g)
  <2>4. Rowed(f, dummies, q) /\ m \in Nat /\ Len(q) = m /\ q \in [1..m -> RowsOf(g)]
    BY <2>1, <2>3
  <2> HIDE DEF f, q, m
  <2>5. Tall(f, m) /\ c \in DOMAIN f /\ \A k \in 1..m : f[c][k] = file[c][q[k]]
    BY <2>4 DEF Rowed
  <2>6. Height(f) = m /\ DOMAIN f[c] = 1..m
    BY <2>5, TallIsHigh
  <2>7. \A k \in 1..m : q[k] \in RowsOf(g)
    BY <2>4
  <2> QED  BY <2>1, <2>3, <2>a, <2>5, <2>6, <2>7 DEF f, q, m
<1> HIDE DEF p, n
<1>4. ASSUME NEW g \in G, NEW k \in 1..n(g) PROVE groups[g][c][k] \in LevelsKept(c)
  <2>1. groups[g][c][k] = file[c][p(g)[k]] /\ p(g)[k] \in Whole
    BY <1>1, <1>3
  <2> QED  BY <2>1 DEF LevelsKept
<1>5. ASSUME NEW l \in LevelsKept(c)
      PROVE  \E g \in DOMAIN groups : \E k \in DOMAIN groups[g][c] : groups[g][c][k] = l
  <2>1. PICK i \in Whole : file[c][i] = l
    BY DEF LevelsKept
  <2>2. PICK g \in G : i \in RowsOf(g)
    BY <1>2
  <2>3. PICK k \in 1..n(g) : p(g)[k] = i
    BY <1>3, <2>2
  <2> QED  BY <1>2, <1>3, <2>1, <2>3
<1>6. LevelsFound(groups, c) = LevelsKept(c)
  <2>1. ASSUME NEW l \in LevelsFound(groups, c) PROVE l \in LevelsKept(c)
    <3>1. PICK g \in DOMAIN groups : l \in {groups[g][c][i] : i \in DOMAIN groups[g][c]}
      BY DEF LevelsFound
    <3>2. PICK i \in DOMAIN groups[g][c] : l = groups[g][c][i]
      BY <3>1
    <3> QED  BY <1>2, <1>3, <1>4, <3>2
  <2>2. ASSUME NEW l \in LevelsKept(c) PROVE l \in LevelsFound(groups, c)
    BY <1>5 DEF LevelsFound
  <2> QED  BY <2>1, <2>2
<1> QED  BY <1>2, <1>3, <1>4, <1>6 DEF p, n

\* What the scan for confined levels finds.
LEMMA ConfinedIs ==
    ASSUME FileTyped(file), AskTyped, Cleaned, RowsSplit
    PROVE  /\ Confined(groups) = <<>> =>
                 \A c \in ToSet(ask.cats) : Lacking(groups, c) = {}
           /\ Confined(groups) # <<>> =>
                 \E c \in ToSet(ask.cats), g \in DOMAIN groups : \E l \in Lacking(groups, c) :
                    /\ Confined(groups) = <<"level confined", c, l, g>>
                    /\ l \notin LevelsPresent(groups[g], c)
<1> DEFINE P == {k \in DOMAIN ask.cats : \E l \in LevelsFound(groups, ask.cats[k]) :
                    \E g \in DOMAIN groups : l \notin LevelsPresent(groups[g], ask.cats[k])}
           columns == At(ask.cats, P)
           lacking == Lacking(groups, columns[1])
           level == Ascending(lacking)[1]
           where == IF level \notin LevelsPresent(groups["target"], columns[1])
                    THEN "target" ELSE "reference"
<1>1. Confined(groups) = IF columns = <<>> THEN <<>>
                         ELSE <<"level confined", columns[1], level, where>>
  BY DEF Confined, LevelsFound, Lacking
<1>2. \A k \in DOMAIN ask.cats : k \in P <=> Lacking(groups, ask.cats[k]) # {}
  BY DEF Lacking
<1>3. P \subseteq DOMAIN ask.cats
  OBVIOUS
<1>4. ask.cats \in Seq(ColumnNames)
  BY DEF AskTyped
<1> HIDE DEF P
<1>5. (columns = <<>>) = (P = {})
  BY ONLY <1>3, <1>4, AtPositions
<1>6. P # {} => \E k \in P : columns[1] = ask.cats[k]
  <2>1. SUFFICES ASSUME P # {} PROVE \E k \in P : columns[1] = ask.cats[k]
    OBVIOUS
  <2>2. Cardinality(P) \in Nat
    BY ONLY <1>3, <1>4, AtPositions
  <2>3. \A i \in P : \E k \in 1..Cardinality(P) : Ascending(P)[k] = i
    BY ONLY <1>3, <1>4, AtPositions
  <2>4. \A k \in 1..Cardinality(P) : Ascending(P)[k] \in P /\ columns[k] = ask.cats[Ascending(P)[k]]
    BY ONLY <1>3, <1>4, AtPositions
  <2>5. 1 \in 1..Cardinality(P)
    BY <2>1, <2>2, <2>3
  <2> QED  BY <2>4, <2>5
<1> HIDE DEF columns, level, where, lacking
<1>7. ASSUME Confined(groups) = <<>>, NEW c \in ToSet(ask.cats) PROVE Lacking(groups, c) = {}
  <2>1. columns = <<>>
    <3>1. <<"level confined", columns[1], level, where>> # <<>>
      OBVIOUS
    <3> QED  BY <1>1, <1>7, <3>1
  <2>2. PICK k \in DOMAIN ask.cats : c = ask.cats[k]
    BY DEF ToSet
  <2> QED  BY <1>2, <1>5, <2>1, <2>2
<1>8. ASSUME Confined(groups) # <<>>
      PROVE  \E c \in ToSet(ask.cats), g \in DOMAIN groups : \E l \in Lacking(groups, c) :
                /\ Confined(groups) = <<"level confined", c, l, g>>
                /\ l \notin LevelsPresent(groups[g], c)
  <2>1. columns # <<>> /\ Confined(groups) = <<"level confined", columns[1], level, where>>
    BY <1>1, <1>8
  <2>2. PICK k \in P : columns[1] = ask.cats[k]
    BY <1>5, <1>6, <2>1
  <2>3. columns[1] \in ToSet(ask.cats) /\ Lacking(groups, columns[1]) # {}
    BY <1>2, <1>3, <2>2 DEF ToSet
  <2>4. columns[1] \in DOMAIN file
    BY <2>3, PredictorIsColumn
  <2>5. lacking \subseteq LevelsKept(columns[1])
    BY <2>4, LevelsOfGroups DEF lacking, Lacking
  <2>6. IsFiniteSet(lacking) /\ \A l \in lacking : l \in Int
    <3>1. IsFiniteSet(LevelsKept(columns[1])) /\ \A l \in LevelsKept(columns[1]) : l \in Int
      BY <2>3, <2>4, LevelsOfColumn
    <3> QED  BY <2>5, <3>1, FS_Subset
  <2>7. level \in lacking
    <3>1. lacking \subseteq Int
      BY <2>6
    <3>2. lacking # {}
      BY <2>3 DEF lacking
    <3>3. Ascending(lacking)[1] \in lacking
      BY ONLY <2>6, <3>1, <3>2, FirstIsIn
    <3> QED  BY <3>3 DEF level
  <2>8. PICK g \in DOMAIN groups : level \notin LevelsPresent(groups[g], columns[1])
    BY <2>7 DEF lacking, Lacking
  <2>9. DOMAIN groups = {"target", "reference"}
    BY DEF RowsSplit
  <2>10. where \in DOMAIN groups /\ level \notin LevelsPresent(groups[where], columns[1])
    BY <2>8, <2>9 DEF where
  <2> QED  BY <2>1, <2>3, <2>7, <2>10 DEF lacking
<1> QED  BY <1>7, <1>8

\* Where every level occurs in both groups, no design collapses.
LEMMA NothingCollapses ==
    ASSUME FileTyped(file), AskTyped, Cleaned, RowsSplit, Confined(groups) = <<>>
    PROVE  ~Collapsed
<1>1. SUFFICES ASSUME NEW g \in DOMAIN groups, NEW h \in DOMAIN ask.cats,
                      Collapses(groups[g], ask.cats[h])
               PROVE  FALSE
  BY DEF Collapsed
<1> DEFINE c == ask.cats[h]
           f == groups[g]
           p == Ascending(RowsOf(g))
           K == LevelsKept(c)
           base == Ascending(K)[1]
<1>2. c \in ToSet(ask.cats)
  BY DEF ToSet
<1>3. encoded = Len(ask.cats) /\ Whole # {} /\ DOMAIN groups = {"target", "reference"}
  BY DEF RowsSplit
<1> HIDE DEF c
<1>4. c \in DOMAIN file
  BY <1>2, PredictorIsColumn
<1>5. Lacking(groups, c) = {}
  BY <1>2, ConfinedIs
<1>6. /\ LevelsFound(groups, c) = K
      /\ Rowed(f, dummies, p) /\ Height(f) = Len(p) /\ DOMAIN f[c] = 1..Height(f)
      /\ \A k \in 1..Height(f) : f[c][k] = file[c][p[k]]
  BY <1>1, <1>4, LevelsOfGroups
<1> HIDE DEF p, K, f, base
<1>7. PICK v \in [Terms(c) -> -1..1] :
         /\ \E t \in Terms(c) : v[t] # 0
         /\ \A k \in 1..Height(f) : Counts(f, k) => Combined(f, c, v, k) = 0
  BY <1>1, CollapsesIs DEF c, f
<1>8. ASSUME NEW l \in K
      PROVE  0 = IF l \in Indicated(c) THEN v[Intercept] + v[Append(c, l)] ELSE v[Intercept]
  <2>1. l \in LevelsPresent(f, c)
    BY <1>1, <1>5, <1>6 DEF Lacking, f
  <2>2. PICK k \in 1..Height(f) : Counts(f, k) /\ f[c][k] = l
    BY <1>6, <2>1 DEF LevelsPresent, Counts
  <2>3. Combined(f, c, v, k) = 0
    BY <1>7, <2>2
  <2>4. k \in 1..Len(p) /\ l = file[c][p[k]]
    BY <1>6, <2>2
  <2> QED  BY <1>2, <1>3, <1>6, <2>3, <2>4, CombinedIs
<1>9. base \in K /\ base \notin Indicated(c)
  <2>1. IsFiniteSet(K) /\ K \subseteq Int
    BY <1>2, <1>4, LevelsOfColumn DEF K
  <2>2. /\ Cardinality(K) \in Nat /\ Ascending(K) \in [1..Cardinality(K) -> K]
        /\ \A x \in K : \E k \in 1..Cardinality(K) : Ascending(K)[k] = x
    BY ONLY <2>1, AscendingEnumerates
  <2>3. K # {}
    BY <1>3 DEF K, LevelsKept
  <2>4. 1 \in 1..Cardinality(K)
    BY <2>2, <2>3
  <2> QED  BY <2>2, <2>4 DEF base, Indicated, K
<1>10. v[Intercept] = 0
  BY <1>8, <1>9
<1>11. ASSUME NEW t \in Terms(c) PROVE v[t] = 0
  <2>1. /\ Terms(c) = {Intercept} \cup {Append(c, l) : l \in Indicated(c)}
        /\ \A l \in Indicated(c) : l \in K
    BY <1>2, <1>3, TermsAre DEF K
  <2>2. ASSUME NEW l \in Indicated(c), t = Append(c, l) PROVE v[t] = 0
    <3>1. v[Intercept] + v[Append(c, l)] = 0
      BY <1>8, <2>1
    <3>2. v[t] \in Int
      OBVIOUS
    <3> QED  BY <1>10, <2>2, <3>1, <3>2
  <2> QED  BY <1>10, <2>1, <2>2
<1> QED  BY <1>7, <1>11

\* Where a group lacks a level, its design does.
LEMMA LackingCollapses ==
    ASSUME FileTyped(file), AskTyped, Cleaned, RowsSplit,
           NEW c \in ToSet(ask.cats), NEW g \in DOMAIN groups,
           NEW l \in Lacking(groups, c), l \notin LevelsPresent(groups[g], c)
    PROVE  Collapses(groups[g], c)
<1> DEFINE f == groups[g]
           p == Ascending(RowsOf(g))
           K == LevelsKept(c)
           T == Terms(c)
           I == Indicated(c)
           one == [t \in T |-> IF t = Append(c, l) THEN 1 ELSE 0]
           all == [t \in T |-> IF t = Intercept THEN 1 ELSE -1]
<1>1. encoded = Len(ask.cats)
  BY DEF RowsSplit
<1>2. c \in DOMAIN file
  BY PredictorIsColumn
<1>3. /\ LevelsFound(groups, c) = K
      /\ Rowed(f, dummies, p) /\ Height(f) = Len(p) /\ DOMAIN f[c] = 1..Height(f)
      /\ \A k \in 1..Height(f) : f[c][k] = file[c][p[k]] /\ f[c][k] \in K
  BY <1>2, LevelsOfGroups
<1>4. l \in K
  BY <1>3 DEF Lacking
<1>5. /\ T = {Intercept} \cup {Append(c, m) : m \in I}
      /\ \A m \in I : Append(c, m) # Intercept /\ Append(c, m)[2] = m
  BY <1>1, TermsAre
<1>6. ASSUME NEW k \in 1..Height(f), Counts(f, k) PROVE f[c][k] # l
  BY <1>3, <1>6 DEF LevelsPresent, Counts
<1>7. \A m \in K : m \notin I => m = Ascending(K)[1]
  BY DEF Indicated
<1>8. Ascending(K)[1] \notin I
  BY DEF Indicated
<1> HIDE DEF f, p, K, T, I
<1>9. one \in [T -> -1..1] /\ all \in [T -> -1..1]
  OBVIOUS
<1>10. ASSUME NEW v \in [T -> -1..1], NEW k \in 1..Height(f)
       PROVE  Combined(f, c, v, k) =
                 IF f[c][k] \in I THEN v[Intercept] + v[Append(c, f[c][k])] ELSE v[Intercept]
  <2>1. k \in 1..Len(p) /\ f[c][k] = file[c][p[k]]
    BY <1>3
  <2> QED  BY <1>1, <1>3, <2>1, CombinedIs DEF T, I
<1>11. CASE l \in I
  <2>0. \A m \in I : Append(c, m) \in T
    BY <1>5
  <2>1. Append(c, l) \in T /\ one[Append(c, l)] # 0
    <3>1. Append(c, l) \in T
      BY <2>0, <1>11
    <3>2. one[Append(c, l)] = 1
      BY <3>1
    <3> QED  BY <3>1, <3>2
  <2>2. ASSUME NEW k \in 1..Height(f), Counts(f, k) PROVE Combined(f, c, one, k) = 0
    <3>1. one[Intercept] = 0
      BY <1>5, <1>11
    <3>2. f[c][k] \in I => one[Append(c, f[c][k])] = 0
      <4>1. SUFFICES ASSUME f[c][k] \in I PROVE one[Append(c, f[c][k])] = 0
        OBVIOUS
      <4>2. Append(c, f[c][k])[2] = f[c][k] /\ Append(c, l)[2] = l
        BY <1>5, <1>11, <4>1
      <4>3. Append(c, f[c][k]) # Append(c, l) /\ Append(c, f[c][k]) \in T
        BY <1>6, <2>0, <2>2, <4>1, <4>2
      <4> QED  BY <4>3
    <3> HIDE DEF one
    <3> QED  BY <1>9, <1>10, <3>1, <3>2
  <2> HIDE DEF one
  <2> QED  BY <1>9, <2>1, <2>2, CollapsesIs DEF f, T
<1>12. CASE l \notin I
  <2>1. Intercept \in T /\ all[Intercept] # 0
    BY <1>5
  <2>2. ASSUME NEW k \in 1..Height(f), Counts(f, k) PROVE Combined(f, c, all, k) = 0
    <3>1. all[Intercept] = 1
      BY <1>5
    <3>2. f[c][k] \in I
      BY <1>3, <1>4, <1>6, <1>7, <1>12, <2>2
    <3>3. all[Append(c, f[c][k])] = -1
      BY <1>5, <3>2
    <3> HIDE DEF all
    <3>4. Combined(f, c, all, k) = all[Intercept] + all[Append(c, f[c][k])]
      BY <1>9, <1>10, <3>2
    <3> QED  BY <3>1, <3>3, <3>4
  <2> HIDE DEF all
  <2> QED  BY <1>9, <2>1, <2>2, CollapsesIs DEF f, T
<1> QED  BY <1>11, <1>12 DEF f

-----------------------------------------------------------------------------
(* The steps of the builder *)

\* What the builder is given does not change, and so neither do the rows.
LEMMA RowsFrozen ==
    ASSUME UNCHANGED inputs
    PROVE  /\ file' = file /\ ask' = ask
           /\ Whole' = Whole
           /\ \A g : RowsOf(g)' = RowsOf(g)
           /\ AskTyped' = AskTyped /\ TwoValues' = TwoValues
<1>1. file' = file /\ ask' = ask
  BY DEF inputs
<1>2. \A i : Incomplete(i)' = Incomplete(i)
  BY <1>1 DEF Incomplete
<1>3. Whole' = Whole
  BY <1>1, <1>2 DEF Whole
<1>4. \A g : RowsOf(g)' = RowsOf(g)
  BY <1>1, <1>2 DEF RowsOf
<1>5. AskTyped' = AskTyped /\ TwoValues' = TwoValues
  BY <1>1 DEF AskTyped, TwoValues
<1> QED  BY <1>1, <1>3, <1>4, <1>5

\* The names that are to be made do not change.
LEMMA NamesFrozen ==
    ASSUME UNCHANGED inputs
    PROVE  \A n : NamesMade(n)' = NamesMade(n)
<1>1. file' = file /\ ask' = ask
  BY DEF inputs
<1>2. Whole' = Whole
  BY RowsFrozen
<1>3. \A c : Indicated(c)' = Indicated(c)
  BY <1>1, <1>2 DEF Indicated, LevelsKept
<1> SUFFICES ASSUME NEW n PROVE NamesMade(n)' = NamesMade(n)
  OBVIOUS
<1> QED  BY <1>1, <1>3 DEF NamesMade

\* Nor do the rows excluded.
LEMMA ExclusionsFrozen ==
    ASSUME file' = file, ask' = ask, excluded' = excluded
    PROVE  ExclusionsAreComplete' = ExclusionsAreComplete
<1>1. \A i : Incomplete(i)' = Incomplete(i)
  BY Zenon DEF Incomplete
<1> QED  BY <1>1, ZenonT(60) DEF ExclusionsAreComplete

\* Nor does what has been made of them, as long as the data do not.
LEMMA SplitFrozen ==
    ASSUME UNCHANGED <<inputs, prepared, groups>>
    PROVE  /\ Cleaned' = Cleaned /\ RowsSplit' = RowsSplit
           /\ Collapsed' = Collapsed
<1>1. file' = file /\ ask' = ask /\ encoded' = encoded /\ dummies' = dummies
      /\ excluded' = excluded /\ frame' = frame /\ groups' = groups
  BY DEF inputs, prepared
<1>2. Whole' = Whole /\ (\A g : RowsOf(g)' = RowsOf(g)) /\ TwoValues' = TwoValues
  BY RowsFrozen
<1>4. ExclusionsAreComplete' = ExclusionsAreComplete
  BY <1>1, ExclusionsFrozen
<1>5. Cleaned' = Cleaned
  BY <1>1, <1>2, <1>4, NamesFrozen DEF Cleaned
<1>6. RowsSplit' = RowsSplit
  <2>1. ASSUME NEW g
        PROVE  Rowed(groups[g], dummies, Ascending(RowsOf(g)))'
                  = Rowed(groups[g], dummies, Ascending(RowsOf(g)))
    <3>1. Ascending(RowsOf(g))' = Ascending(RowsOf(g))
      BY <1>2
    <3> QED  BY <3>1, <1>1 DEF Rowed
  <2>2. RowsOf("target")' = RowsOf("target") /\ RowsOf("reference")' = RowsOf("reference")
    BY <1>2
  <2> QED  BY <2>1, <2>2, <1>1, <1>2 DEF RowsSplit
<1>7. Collapsed' = Collapsed
  BY <1>1 DEF Collapsed, Collapses, Weighted
<1> QED  BY <1>5, <1>6, <1>7

\* What is said of a frame against the file stays said.
LEMMA RowedFrozen ==
    ASSUME UNCHANGED inputs
    PROVE  \A f, names, p : Rowed(f, names, p)' = Rowed(f, names, p)
<1> SUFFICES ASSUME NEW f, NEW names, NEW p
             PROVE  Rowed(f, names, p)' = Rowed(f, names, p)
  OBVIOUS
<1>1. file' = file /\ ask' = ask
  BY DEF inputs
<1> QED  BY ONLY <1>1 DEF Rowed

\* What a refusal has to meet; nothing else about the rows matters after one.
LEMMA RefusalKept ==
    ASSUME RowsAreKept, Analysis = "builder", asked' = asked, NEW e, Refuse(e),
           e \notin {<<"row accounting mismatch">>, <<"row alignment">>},
           e # <<>> /\ e[1] = "level confined" => Collapses(groups[e[4]], e[2])
    PROVE  RowsAreKept'
<1>1. /\ stage' = "refused" /\ refusal' = e /\ file' = file /\ ask' = ask
      /\ groups' = groups /\ dummies' = dummies
  BY DEF Refuse, inputs, prepared, output
<1>2. Analysis' = Analysis
  BY DEF Analysis
<1>3. FileTyped(file)' /\ AskTyped'
  <2>1. FileTyped(file) /\ AskTyped
    BY DEF RowsAreKept
  <2>2. AskTyped' = AskTyped
    BY <1>1, RowsFrozen DEF inputs
  <2> QED  BY <2>1, <2>2, <1>1
<1>4. refusal' # <<>> /\ refusal'[1] = "level confined" =>
         Collapses(groups[refusal[4]], refusal[2])'
  <2>1. ASSUME NEW f, NEW c
        PROVE  Collapses(f, c)' = Collapses(f, c)
    <3>1. dummies' = dummies /\ ask' = ask
      BY <1>1
    <3> QED  BY ONLY <3>1 DEF Collapses
  <2>2. Collapses(groups[refusal[4]], refusal[2])' = Collapses(groups'[e[4]], e[2])
    BY <2>1, <1>1
  <2> QED  BY <1>1, <2>2
<1> QED  BY <1>1, <1>2, <1>3, <1>4 DEF RowsAreKept

\* The check of the group column.
LEMMA CheckGroupsKept ==
    ASSUME RowsAreKept, Analysis = "builder", asked' = asked, CheckGroups
    PROVE  RowsAreKept'
<1>1. ASSUME NEW e, Refuse(e), e \in {<<"reference group absent">>,
                 <<"too many group values">>, <<"unsupported combination">>}
      PROVE  RowsAreKept'
  <2>1. e \notin {<<"row accounting mismatch">>, <<"row alignment">>}
        /\ e[1] # "level confined"
    <3>1. CASE e = <<"reference group absent">>
      BY ONLY <3>1
    <3>2. CASE e = <<"too many group values">>
      BY ONLY <3>2
    <3>3. CASE e = <<"unsupported combination">>
      BY ONLY <3>3
    <3> QED  BY ONLY <3>1, <3>2, <3>3, <1>1
  <2> QED  BY <2>1, <1>1, RefusalKept
<1>2. CASE /\ Group \in DOMAIN file =>
                /\ ask.reference \in GroupValues(file)
                /\ Cardinality(GroupValues(file)) \leq 2
           /\ stage = "check" /\ stage' = "clean"
           /\ UNCHANGED <<inputs, refusal, prepared, output>>
  <2>1. TwoValues
    BY <1>2 DEF TwoValues
  <2>2. /\ file' = file /\ AskTyped' = AskTyped /\ TwoValues' = TwoValues
    BY <1>2, RowsFrozen
  <2>3. /\ encoded' = encoded /\ dummies' = dummies /\ refusal' = refusal
        /\ stage' = "clean" /\ stage = "check"
    BY <1>2 DEF prepared
  <2>4. Analysis' = Analysis
    BY DEF Analysis
  <2>5. FileTyped(file) /\ AskTyped /\ encoded = 0 /\ dummies = <<>> /\ refusal = <<>>
    BY <2>3 DEF RowsAreKept
  <2> QED  BY <2>1, <2>2, <2>3, <2>4, <2>5 DEF RowsAreKept
<1> QED  BY <1>1, <1>2 DEF CheckGroups

\* The frame that is cleaned: the file, with the numbers of its rows.
NumberedFile ==
    IF ask.path = "matrices"
    THEN Beside(file, [c \in {Ordinal} |-> [k \in 1..Height(file) |-> k - 1]])
    ELSE file

\* Row k of it is row k of the file.
LEMMA NumberedIsRowed ==
    ASSUME FileTyped(file), NEW id, id = [k \in 1..Height(file) |-> k]
    PROVE  Rowed(NumberedFile, <<>>, id)
<1>1. Height(file) \in Nat /\ Tall(file, Height(file))
  BY FileIsTall
<1> DEFINE h == Height(file)
<1>2. Len(id) = h /\ \A k \in 1..h : id[k] = k
  BY <1>1
<1>3. ToSet(<<>>) = {}
  BY DEF ToSet
<1>4. CASE ask.path # "matrices"
  <2>1. NumberedFile = file
    BY <1>4 DEF NumberedFile
  <2> QED  BY <2>1, <1>1, <1>2, <1>3, <1>4 DEF Rowed
<1>5. CASE ask.path = "matrices"
  <2> DEFINE number == [c \in {Ordinal} |-> [k \in 1..h |-> k - 1]]
  <2>1. NumberedFile = Beside(file, number)
    BY <1>5 DEF NumberedFile
  <2>2. Ordinal \notin DOMAIN file
    BY DEF FileTyped
  <2>3. DOMAIN Beside(file, number) = DOMAIN file \cup {Ordinal}
    BY DEF Beside
  <2>4. \A c \in DOMAIN file : Beside(file, number)[c] = file[c]
    BY DEF Beside
  <2>5. Beside(file, number)[Ordinal] = [k \in 1..h |-> k - 1]
    BY <2>2 DEF Beside
  <2> HIDE DEF number
  <2>6. [k \in 1..h |-> k - 1] \in [1..h -> Int \cup {NoCell}]
    BY <1>1
  <2>7. Tall(Beside(file, number), h)
    BY <2>3, <2>4, <2>5, <2>6, <1>1 DEF Tall
  <2>8. \A k \in 1..h : Beside(file, number)[Ordinal][k] = id[k] - 1
    BY <2>5, <1>1, <1>2
  <2>9. \A c \in DOMAIN file, k \in 1..h : Beside(file, number)[c][k] = file[c][id[k]]
    BY <2>4, <1>2
  <2> HIDE DEF h
  <2> QED  BY <2>1, <2>3, <2>7, <2>8, <2>9, <1>2, <1>3 DEF Rowed
<1> QED  BY <1>4, <1>5

\* What is kept of it are the rows without a blank.
LEMMA CleanIsRowed ==
    ASSUME FileTyped(file)
    PROVE  Rowed(Take(NumberedFile, Complete(file, ask)), <<>>, Ascending(Whole))
<1> DEFINE h == Height(file)
           q == Ascending(Whole)
           id == [k \in 1..h |-> k]
<1>1. h \in Nat /\ Whole \subseteq 1..h
  BY RowsAddUp
<1>2. Rowed(NumberedFile, <<>>, id)
  BY NumberedIsRowed
<1>3. IsFiniteSet(Whole) /\ Whole \subseteq Int
  BY <1>1, PositionsAreFinite
<1>4. /\ Cardinality(Whole) \in Nat /\ Len(q) = Cardinality(Whole)
      /\ q \in [1..Cardinality(Whole) -> Whole]
  BY <1>3, AscendingIsASequence
<1>5. q \in [1..Cardinality(Whole) -> 1..h]
  BY <1>1, <1>4
<1>6. Len(id) = h
  BY <1>1
<1>7. \A k \in 1..Cardinality(Whole) : q[k] = id[q[k]]
  BY <1>5
<1>8. Complete(file, ask) = q
  BY CompleteIsWhole
<1> HIDE DEF q, id, h
<1>9. Rowed(Take(NumberedFile, q), <<>>, q)
  BY <1>2, <1>4, <1>5, <1>6, <1>7, TakeIsRowed
<1> QED  BY <1>8, <1>9 DEF q

\* The errors of the cleaning, and what there being none means.
LEMMA CleaningErrorsAre ==
    ASSUME AskTyped, NEW e, e = CleaningError(file, ask)
    PROVE  /\ e # <<>> => /\ e \notin {<<"row accounting mismatch">>, <<"row alignment">>}
                          /\ e[1] # "level confined"
           /\ e = <<>> => \A k \in DOMAIN CleaningColumns(ask) :
                             CleaningColumns(ask)[k].column \in DOMAIN file
<1> DEFINE columns == CleaningColumns(ask)
           absent == {k \in DOMAIN columns : columns[k].column \notin DOMAIN file}
           missing == At(columns, absent)
           whole == Complete(file, ask)
           loads == [k \in DOMAIN whole |-> file[ask.weights][whole[k]]]
           bad == Ascending({k \in DOMAIN whole : Invalid(loads[k], ask.kind)})
<1>1. e = CASE missing # <<>> -> <<"column not found", missing[1].column>>
          [] missing = <<>> /\ ~Weighted(ask) -> <<>>
          [] missing = <<>> /\ Weighted(ask) ->
                CASE ask.kind = "unstated" -> <<"weights kind required">>
                  [] ask.kind # "unstated" /\ bad # <<>> ->
                        <<"invalid weight", whole[bad[1]] - 1>>
                  [] ask.kind # "unstated" /\ bad = <<>> ->
                        IF whole # <<>> /\ Total(loads) = 0
                        THEN <<"weights sum to zero", whole[1] - 1>>
                        ELSE <<>>
  BY DEF CleaningError
<1>2. missing = <<>> => absent = {}
  <2>1. PICK X : columns \in Seq(X)
    BY ColumnsChecked DEF AskTyped
  <2>2. absent \subseteq DOMAIN columns
    OBVIOUS
  <2> HIDE DEF columns, absent
  <2> QED  BY <2>1, <2>2, AtPositions
<1>3. absent = {} => \A k \in DOMAIN CleaningColumns(ask) :
                        CleaningColumns(ask)[k].column \in DOMAIN file
  OBVIOUS
<1> HIDE DEF columns, absent, missing, whole, loads, bad
<1>4. CASE missing # <<>>
  <2>1. e = <<"column not found", missing[1].column>>
    BY ONLY <1>1, <1>4
  <2> QED  BY ONLY <2>1
<1>5. CASE missing = <<>>
  <2>1. e = <<>> \/ e = <<"weights kind required">>
        \/ e = <<"invalid weight", whole[bad[1]] - 1>>
        \/ e = <<"weights sum to zero", whole[1] - 1>>
    <3>1. CASE ~Weighted(ask)
      BY ONLY <1>1, <1>5, <3>1
    <3>2. CASE Weighted(ask)
      <4>1. e = CASE ask.kind = "unstated" -> <<"weights kind required">>
                  [] ask.kind # "unstated" /\ bad # <<>> ->
                        <<"invalid weight", whole[bad[1]] - 1>>
                  [] ask.kind # "unstated" /\ bad = <<>> ->
                        IF whole # <<>> /\ Total(loads) = 0
                        THEN <<"weights sum to zero", whole[1] - 1>>
                        ELSE <<>>
        BY ONLY <1>1, <1>5, <3>2
      <4> QED  BY ONLY <4>1
    <3> QED  BY <3>1, <3>2
  <2>2. e # <<>> => /\ e \notin {<<"row accounting mismatch">>, <<"row alignment">>}
                    /\ e[1] # "level confined"
    <3>1. CASE e = <<>>
      BY <3>1
    <3>2. CASE e = <<"weights kind required">>
      BY ONLY <3>2
    <3>3. CASE e = <<"invalid weight", whole[bad[1]] - 1>>
      BY ONLY <3>3
    <3>4. CASE e = <<"weights sum to zero", whole[1] - 1>>
      BY ONLY <3>4
    <3> QED  BY ONLY <2>1, <3>1, <3>2, <3>3, <3>4
  <2> QED  BY <2>2, <1>2, <1>3, <1>5
<1> QED  BY <1>4, <1>5

\* The cleaning.
LEMMA CleanKept ==
    ASSUME RowsAreKept, Analysis = "builder", asked' = asked, Clean
    PROVE  RowsAreKept'
<1> DEFINE whole == Complete(file, ask)
           list == IF ask.path = "matrices" THEN ExcludedRows(file, ask) ELSE <<>>
<1>1. /\ FileTyped(file) /\ AskTyped /\ TwoValues /\ encoded = 0 /\ dummies = <<>>
      /\ stage = "clean" /\ refusal = <<>>
  BY DEF RowsAreKept, Clean
<1>2. CASE CleaningError(file, ask) # <<>> /\ Refuse(CleaningError(file, ask))
  <2>1. /\ CleaningError(file, ask) \notin {<<"row accounting mismatch">>, <<"row alignment">>}
        /\ CleaningError(file, ask)[1] # "level confined"
    BY <1>1, <1>2, CleaningErrorsAre
  <2> QED  BY <1>2, <2>1, RefusalKept
<1>3. CASE /\ CleaningError(file, ask) = <<>>
           /\ frame' = Take(NumberedFile, whole) /\ excluded' = list
           /\ IF ask.path = "matrices" /\ Len(whole) + Len(list) # Height(file)
              THEN stage' = "refused" /\ refusal' = <<"row accounting mismatch">>
              ELSE stage' = "encode" /\ UNCHANGED refusal
           /\ UNCHANGED <<inputs, encoded, dummies, output>>
  <2>1. /\ file' = file /\ ask' = ask /\ encoded' = 0 /\ dummies' = <<>>
        /\ excluded' = list /\ Analysis' = Analysis
    BY <1>1, <1>3 DEF inputs, Analysis
  <2>2. Whole' = Whole /\ AskTyped' = AskTyped /\ TwoValues' = TwoValues
    BY <1>3, RowsFrozen
  <2>3. \A k \in DOMAIN CleaningColumns(ask) :
           CleaningColumns(ask)[k].column \in DOMAIN file
    BY <1>1, <1>3, CleaningErrorsAre
  <2>4. ASSUME ask.path = "matrices"
        PROVE  Len(whole) + Len(list) = Height(file) /\ ExclusionsAreComplete'
    <3>1. list = ExcludedRows(file, ask)
      BY <2>4
    <3> HIDE DEF list
    <3>2. Len(list) = Cardinality(Blanks) /\ ListsBlanks(list)
      BY <1>1, <3>1, ExcludedAreBlank
    <3>3. /\ Whole \subseteq 1..Height(file) /\ Height(file) \in Nat
          /\ Cardinality(Whole) + Cardinality(Blanks) = Height(file)
      BY <1>1, RowsAddUp
    <3>4. Len(whole) = Cardinality(Whole)
      <4>1. IsFiniteSet(Whole) /\ Whole \subseteq Int
        BY <3>3, PositionsAreFinite
      <4> QED  BY <4>1, AscendingIsASequence, CompleteIsWhole
    <3>5. \A i : Incomplete(i)' = Incomplete(i)
      BY <2>1 DEF Incomplete
    <3>6. Blanks = {i \in 1..Height(file') : Incomplete(i)'}
      BY <2>1, <3>5 DEF Blanks
    <3>7. ExclusionsAreComplete'
      BY <3>2, <3>6, <2>1 DEF ExclusionsAreComplete, ListsBlanks
    <3> QED  BY <3>2, <3>3, <3>4, <3>7
  <2>5. stage' = "encode" /\ refusal' = <<>>
    BY <1>1, <1>3, <2>4
  <2>6. Cleaned'
    <3>1. encoded' \in 0..Len(ask'.cats)
      <4>1. Len(ask.cats) \in Nat
        BY <1>1, LenProperties DEF AskTyped
      <4> QED  BY <4>1, <2>1
    <3>2. dummies' \in Seq(ColumnTuples)
      BY <2>1, EmptySeq
    <3>3. ToSet(dummies') = NamesMade(encoded)'
      <4>1. ToSet(dummies') = {} /\ 1..encoded' = {}
        BY <2>1 DEF ToSet
      <4> QED  BY <4>1 DEF NamesMade
    <3> QED  BY <1>1, <2>1, <2>2, <2>3, <2>4, <3>1, <3>2, <3>3 DEF Cleaned
  <2>7. Rowed(frame, dummies, Ascending(Whole))'
    <3>1. Rowed(frame', dummies', Ascending(Whole))
      BY <1>1, <1>3, <2>1, CleanIsRowed
    <3> QED  BY <1>3, <2>2, <3>1, RowedFrozen
  <2>8. FileTyped(file)' /\ AskTyped'
    BY <1>1, <2>1, <2>2
  <2> QED  BY <2>1, <2>5, <2>6, <2>7, <2>8 DEF RowsAreKept
<1> QED  BY <1>2, <1>3 DEF Clean, NumberedFile

\* The indicators of one predictor more.
LEMMA EncodeKept ==
    ASSUME RowsAreKept, Analysis = "builder", asked' = asked, Encode
    PROVE  RowsAreKept'
<1> DEFINE c == ask.cats[encoded + 1]
<1>1. /\ FileTyped(file) /\ AskTyped /\ Cleaned /\ Rowed(frame, dummies, Ascending(Whole))
      /\ stage = "encode" /\ refusal = <<>> /\ encoded < Len(ask.cats)
  BY DEF RowsAreKept, Encode
<1>2. /\ encoded \in Nat /\ Len(ask.cats) \in Nat /\ dummies \in Seq(ColumnTuples)
      /\ ask.cats \in Seq(ColumnNames)
  BY <1>1, LenProperties DEF Cleaned, AskTyped
<1>3. encoded + 1 \in DOMAIN ask.cats
  BY <1>1, <1>2, LenProperties
<1>4. c \in ToSet(ask.cats)
  BY <1>3 DEF ToSet
<1>5. c \in DOMAIN file
  BY <1>1, <1>4, PredictorIsColumn
<1> HIDE DEF c
<1>6. ASSUME NEW e, Refuse(e), e = <<"no reference category", c>> \/ e = <<"duplicate column", c>>
      PROVE  RowsAreKept'
  <2>1. e \notin {<<"row accounting mismatch">>, <<"row alignment">>}
        /\ e[1] # "level confined"
    <3>1. CASE e = <<"no reference category", c>>
      BY ONLY <3>1
    <3>2. CASE e = <<"duplicate column", c>>
      BY ONLY <3>2
    <3> QED  BY ONLY <3>1, <3>2, <1>6
  <2> QED  BY <2>1, <1>6, RefusalKept
<1>7. CASE /\ Height(frame) > 0
           /\ DOMAIN DummyColumns(frame, c) \cap DOMAIN frame = {}
           /\ frame' = Beside(frame, DummyColumns(frame, c))
           /\ dummies' = dummies \o DummyNames(frame, c)
           /\ encoded' = encoded + 1
           /\ UNCHANGED <<inputs, stage, refusal, excluded, output>>
  <2>1. /\ file' = file /\ ask' = ask /\ excluded' = excluded /\ Analysis' = Analysis
        /\ stage' = "encode" /\ refusal' = <<>>
    BY <1>1, <1>7 DEF inputs, Analysis
  <2>2. Whole' = Whole /\ AskTyped' = AskTyped /\ TwoValues' = TwoValues
    BY <1>7, RowsFrozen
  <2>3. /\ dummies' \in Seq(ColumnTuples)
        /\ ToSet(dummies') = ToSet(dummies) \cup {Append(c, l) : l \in Indicated(c)}
        /\ Rowed(frame', dummies', Ascending(Whole))
    BY <1>1, <1>2, <1>4, <1>5, <1>7, IndicatorsAreRowed
  <2>4. Rowed(frame, dummies, Ascending(Whole))'
    BY <1>7, <2>2, <2>3, RowedFrozen
  <2>5. NamesMade(encoded)' = NamesMade(encoded + 1)
    BY <1>7, NamesFrozen
  <2>6. ToSet(dummies') = NamesMade(encoded)'
    <3>1. ToSet(dummies) = NamesMade(encoded)
      BY <1>1 DEF Cleaned
    <3>2. 1..(encoded + 1) = (1..encoded) \cup {encoded + 1}
      BY <1>2
    <3>3. NamesMade(encoded + 1) = NamesMade(encoded) \cup {Append(c, l) : l \in Indicated(c)}
      BY <3>2 DEF NamesMade, c
    <3> QED  BY <3>1, <3>3, <2>3, <2>5
  <2>7. encoded' \in 0..Len(ask'.cats)
    BY <1>1, <1>2, <1>7, <2>1
  <2>8. ExclusionsAreComplete' = ExclusionsAreComplete
    BY <2>1, ExclusionsFrozen
  <2>9. Cleaned'
    BY <1>1, <2>1, <2>2, <2>3, <2>6, <2>7, <2>8 DEF Cleaned
  <2> QED  BY <1>1, <2>1, <2>2, <2>4, <2>9 DEF RowsAreKept
<1> QED  BY <1>6, <1>7 DEF Encode, c

\* The split.
LEMMA SplitKept ==
    ASSUME RowsAreKept, Analysis = "builder", asked' = asked, Split
    PROVE  RowsAreKept'
<1> DEFINE values == Ascending(GroupValues(frame))
           target == IF values[1] = ask.reference THEN values[2] ELSE values[1]
           OfGroup(v) == Take(frame, Ascending({i \in 1..Height(frame) :
                                                   frame[Group][i] = v}))
<1>1. /\ FileTyped(file) /\ AskTyped /\ Cleaned /\ Rowed(frame, dummies, Ascending(Whole))
      /\ stage = "encode" /\ refusal = <<>> /\ encoded = Len(ask.cats)
  BY DEF RowsAreKept, Split
<1>2. CASE Refuse(<<"not enough groups">>)
  <2>1. /\ <<"not enough groups">> \notin {<<"row accounting mismatch">>, <<"row alignment">>}
        /\ <<"not enough groups">>[1] # "level confined"
    OBVIOUS
  <2> QED  BY <1>2, <2>1, RefusalKept
<1>3. CASE /\ Len(values) >= 2
           /\ groups' = [target |-> OfGroup(target), reference |-> OfGroup(ask.reference)]
           /\ stage' = IF ask.path = "matrices" THEN "matrices" ELSE "confine"
           /\ UNCHANGED <<inputs, refusal, prepared, selected, matrices, pooled>>
  <2>1. /\ file' = file /\ ask' = ask /\ excluded' = excluded /\ Analysis' = Analysis
        /\ refusal' = <<>> /\ encoded' = encoded /\ dummies' = dummies
    BY <1>1, <1>3 DEF inputs, Analysis, prepared
  <2>2. /\ Whole' = Whole /\ AskTyped' = AskTyped /\ TwoValues' = TwoValues
        /\ RowsOf("target")' = RowsOf("target") /\ RowsOf("reference")' = RowsOf("reference")
    BY <1>3, RowsFrozen
  <2>3. Group \in DOMAIN file /\ TwoValues
    <3>1. \E k \in DOMAIN CleaningColumns(ask) : CleaningColumns(ask)[k].column = Group
      BY <1>1, ColumnsChecked DEF AskTyped
    <3> QED  BY <3>1, <1>1 DEF Cleaned
  <2>4. /\ Rowed(OfGroup(target), dummies, Ascending(RowsOf("target")))
        /\ Rowed(OfGroup(ask.reference), dummies, Ascending(RowsOf("reference")))
        /\ Whole # {} /\ Whole = RowsOf("target") \cup RowsOf("reference")
    BY <1>1, <1>3, <2>3, SplitIsRowed
  <2>5. /\ DOMAIN groups' = {"target", "reference"}
        /\ groups'["target"] = OfGroup(target) /\ groups'["reference"] = OfGroup(ask.reference)
    BY <1>3
  <2> HIDE DEF OfGroup, target, values
  <2>6. ASSUME NEW g \in {"target", "reference"}
        PROVE  Rowed(groups[g], dummies, Ascending(RowsOf(g)))'
    <3>1. Rowed(groups'[g], dummies', Ascending(RowsOf(g)))
      BY <2>1, <2>4, <2>5
    <3>2. Ascending(RowsOf(g))' = Ascending(RowsOf(g))
      BY <2>2
    <3> QED  BY <1>3, <3>1, <3>2, RowedFrozen
  <2>7. RowsSplit'
    BY <1>1, <2>1, <2>2, <2>4, <2>5, <2>6 DEF RowsSplit
  <2>8. Cleaned'
    <3>2. ExclusionsAreComplete' = ExclusionsAreComplete
      BY <2>1, ExclusionsFrozen
    <3>3. NamesMade(encoded)' = NamesMade(encoded)
      BY <1>3, <2>1, NamesFrozen
    <3> QED  BY <1>1, <2>1, <2>2, <3>2, <3>3 DEF Cleaned
  <2> QED  BY <1>1, <1>3, <2>1, <2>2, <2>7, <2>8 DEF RowsAreKept
<1> QED  BY <1>2, <1>3 DEF Split

\* The check that no level is confined to one group.
LEMMA ConfineKept ==
    ASSUME RowsAreKept, Analysis = "builder", asked' = asked, Confine
    PROVE  RowsAreKept'
<1>1. /\ FileTyped(file) /\ AskTyped /\ Cleaned /\ RowsSplit
      /\ stage = "confine" /\ refusal = <<>> /\ ask.path # "matrices"
  BY DEF RowsAreKept, Confine
<1>2. CASE Confined(groups) # <<>> /\ Refuse(Confined(groups))
  <2> DEFINE e == Confined(groups)
  <2>1. PICK c \in ToSet(ask.cats), g \in DOMAIN groups : \E l \in Lacking(groups, c) :
           e = <<"level confined", c, l, g>> /\ l \notin LevelsPresent(groups[g], c)
    BY <1>1, <1>2, ConfinedIs
  <2>2. PICK l \in Lacking(groups, c) :
           e = <<"level confined", c, l, g>> /\ l \notin LevelsPresent(groups[g], c)
    BY <2>1
  <2>3. Collapses(groups[g], c)
    BY <1>1, <2>2, LackingCollapses
  <2> HIDE DEF e
  <2>4. /\ e \notin {<<"row accounting mismatch">>, <<"row alignment">>}
        /\ e[4] = g /\ e[2] = c
    <3>1. e = <<"level confined", c, l, g>>
      BY <2>2
    <3> QED  BY ONLY <3>1
  <2>5. Collapses(groups[e[4]], e[2])
    BY <2>3, <2>4
  <2>6. Refuse(e)
    BY <1>2 DEF e
  <2> QED  BY <2>4, <2>5, <2>6, RefusalKept
<1>3. CASE /\ Confined(groups) = <<>>
           /\ stage' = IF ask.path = "quantile" THEN "transform" ELSE Estimating
           /\ UNCHANGED <<inputs, refusal, prepared, output>>
  <2>1. ~Collapsed
    BY <1>1, <1>3, NothingCollapses
  <2>2. /\ Cleaned' = Cleaned /\ RowsSplit' = RowsSplit /\ Collapsed' = Collapsed
        /\ AskTyped' = AskTyped
    BY <1>3, SplitFrozen, RowsFrozen DEF output
  <2>3. /\ file' = file /\ ask' = ask /\ Analysis' = Analysis /\ refusal' = refusal
    BY <1>3 DEF inputs, Analysis
  <2>4. stage' \in {"transform", "select"} \/ (stage' = "estimate" /\ ~Selecting(ask))
    BY <1>3 DEF Estimating
  <2> QED  BY <1>1, <2>1, <2>2, <2>3, <2>4 DEF RowsAreKept
<1> QED  BY <1>2, <1>3 DEF Confine

\* The replacement of the outcome; it keeps every figure but the outcome's.
LEMMA ReplaceOutcomeKept ==
    ASSUME RowsAreKept, Analysis = "builder", asked' = asked, ReplaceOutcome
    PROVE  RowsAreKept'
<1>1. /\ FileTyped(file) /\ AskTyped /\ Cleaned /\ RowsSplit /\ ~Collapsed
      /\ stage = "transform" /\ refusal = <<>> /\ ask.path # "matrices"
  BY DEF RowsAreKept, ReplaceOutcome
<1>2. ASSUME NEW g, Refuse(<<"no density", g>>) PROVE RowsAreKept'
  <2>1. /\ <<"no density", g>> \notin {<<"row accounting mismatch">>, <<"row alignment">>}
        /\ <<"no density", g>>[1] # "level confined"
    OBVIOUS
  <2> QED  BY <1>2, <2>1, RefusalKept
<1>3. CASE stage' = Estimating /\ UNCHANGED <<inputs, refusal, prepared, output>>
  <2>1. /\ Cleaned' = Cleaned /\ RowsSplit' = RowsSplit /\ Collapsed' = Collapsed
        /\ AskTyped' = AskTyped
    BY <1>3, SplitFrozen, RowsFrozen DEF output
  <2>2. /\ file' = file /\ ask' = ask /\ Analysis' = Analysis /\ refusal' = refusal
    BY <1>3 DEF inputs, Analysis
  <2>3. stage' = "select" \/ (stage' = "estimate" /\ ~Selecting(ask))
    BY <1>3 DEF Estimating
  <2> QED  BY <1>1, <2>1, <2>2, <2>3 DEF RowsAreKept
<1> QED  BY <1>2, <1>3 DEF ReplaceOutcome

\* The data of the selection model.
LEMMA SelectKept ==
    ASSUME RowsAreKept, Analysis = "builder", asked' = asked, Select
    PROVE  RowsAreKept'
<1>1. /\ FileTyped(file) /\ AskTyped /\ Cleaned /\ RowsSplit /\ ~Collapsed
      /\ stage = "select" /\ refusal = <<>> /\ ask.path # "matrices"
  BY DEF RowsAreKept, Select
<1>2. CASE Refuse(<<"no observed outcomes">>)
  <2>1. /\ <<"no observed outcomes">> \notin {<<"row accounting mismatch">>, <<"row alignment">>}
        /\ <<"no observed outcomes">>[1] # "level confined"
    OBVIOUS
  <2> QED  BY <1>2, <2>1, RefusalKept
<1>3. CASE /\ selected' = [g \in DOMAIN groups |-> SelectionOf(g)]
           /\ stage' = "estimate"
           /\ UNCHANGED <<inputs, refusal, prepared, groups, matrices, pooled>>
  <2>1. /\ Cleaned' = Cleaned /\ RowsSplit' = RowsSplit /\ Collapsed' = Collapsed
        /\ AskTyped' = AskTyped /\ \A g : RowsOf(g)' = RowsOf(g)
    BY <1>3, SplitFrozen, RowsFrozen
  <2>2. /\ file' = file /\ ask' = ask /\ Analysis' = Analysis /\ refusal' = refusal
    BY <1>3 DEF inputs, Analysis
  <2>3. ASSUME Selecting(ask), NEW g \in DOMAIN selected' PROVE SelectedRows(g)'
    <3>1. g \in DOMAIN groups /\ selected'[g] = SelectionOf(g)
      BY <1>3, <2>3
    <3>2. Rowed(groups[g], dummies, Ascending(RowsOf(g)))
      BY <1>1, <3>1 DEF RowsSplit
    <3>3. SelectedFrom(selected'[g], g)
      BY <1>1, <2>3, <3>1, <3>2, SelectionIsTheirs
    <3>4. Chosen(g) = {i \in RowsOf(g)' : file'[ask'.selection][i] = 1}
      BY <2>1, <2>2 DEF Chosen
    <3>5. \A x, names, i : Carries(x, names, i)' = Carries(x, names, i)
      BY <2>2 DEF Carries
    <3> QED  BY <3>3, <3>4, <3>5, <2>2 DEF SelectedFrom, SelectedRows
  <2> QED  BY <1>1, <1>3, <2>1, <2>2, <2>3 DEF RowsAreKept
<1> QED  BY <1>2, <1>3 DEF Select

\* The matrices.
LEMMA GetMatricesKept ==
    ASSUME RowsAreKept, Analysis = "builder", asked' = asked, GetMatrices
    PROVE  RowsAreKept'
<1>1. /\ FileTyped(file) /\ AskTyped /\ Cleaned /\ RowsSplit
      /\ stage = "matrices" /\ refusal = <<>> /\ ask.path = "matrices"
  BY DEF RowsAreKept, GetMatrices
<1>2. /\ DOMAIN matrices' = {"target", "reference"}
      /\ \A g \in {"target", "reference"} :
            /\ matrices'[g].data = PrepareData(groups[g], dummies, <<>>)
            /\ matrices'[g].rows = groups[g][Ordinal]
      /\ stage' = "pool"
      /\ UNCHANGED <<inputs, refusal, prepared, groups, selected, pooled>>
  BY DEF GetMatrices
<1>3. /\ Cleaned' = Cleaned /\ RowsSplit' = RowsSplit /\ AskTyped' = AskTyped
      /\ \A g : RowsOf(g)' = RowsOf(g)
  BY <1>2, SplitFrozen, RowsFrozen
<1>4. /\ file' = file /\ ask' = ask /\ Analysis' = Analysis /\ refusal' = refusal
  BY <1>2 DEF inputs, Analysis
<1>5. ASSUME NEW g \in {"target", "reference"}
      PROVE  /\ Designed(matrices[g].data, Ascending(RowsOf(g)))'
             /\ (matrices[g].rows = Ascending({i - 1 : i \in RowsOf(g)}))'
  <2> DEFINE p == Ascending(RowsOf(g))
  <2>1. Rowed(groups[g], dummies, p)
    BY <1>1, <1>5 DEF RowsSplit
  <2>2. Designed(matrices'[g].data, p)
    BY <1>1, <1>2, <2>1, DesignIsTheirs
  <2>3. \A d, q : Designed(d, q)' = Designed(d, q)
    BY <1>4 DEF Designed, Carries
  <2>4. Height(file) \in Nat /\ RowsOf(g) \subseteq 1..Height(file)
    BY <1>1, FileIsTall DEF RowsOf
  <2>5. /\ Cardinality(RowsOf(g)) \in Nat /\ Len(p) = Cardinality(RowsOf(g))
    BY <2>4, PositionsAreFinite, AscendingIsASequence
  <2>6. Ascending({i - 1 : i \in RowsOf(g)}) = [k \in 1..Len(p) |-> p[k] - 1]
    BY <2>4, <2>5, FromZero
  <2> HIDE DEF p
  <2>7. groups[g][Ordinal] = [k \in 1..Len(p) |-> p[k] - 1]
    <3>1. /\ groups[g][Ordinal] \in [1..Len(p) -> Int \cup {NoCell}]
          /\ \A k \in 1..Len(p) : groups[g][Ordinal][k] = p[k] - 1
      BY <1>1, <2>1 DEF Rowed, Tall
    <3> QED  BY <3>1
  <2>8. matrices'[g].rows = Ascending({i - 1 : i \in RowsOf(g)})
    BY <1>2, <2>6, <2>7
  <2>9. (matrices[g].rows = Ascending({i - 1 : i \in RowsOf(g)}))'
    BY <1>3, <2>8
  <2>10. Designed(matrices[g].data, Ascending(RowsOf(g)))'
    BY ONLY <1>3, <2>2, <2>3, Zenon DEF p
  <2> QED  BY <2>9, <2>10
<1> QED  BY <1>1, <1>2, <1>3, <1>4, <1>5 DEF RowsAreKept

\* The pooled design.
LEMMA PoolKept ==
    ASSUME RowsAreKept, Analysis = "builder", asked' = asked, Pool
    PROVE  RowsAreKept'
<1> DEFINE r == matrices["reference"]
           t == matrices["target"]
           rx == [k \in DOMAIN r.data.x |-> <<1, 0>> \o Tail(r.data.x[k])]
           tx == [k \in DOMAIN t.data.x |-> <<1, 1>> \o Tail(t.data.x[k])]
<1>1. /\ FileTyped(file) /\ AskTyped /\ Cleaned /\ RowsSplit
      /\ stage = "pool" /\ refusal = <<>> /\ ask.path = "matrices"
      /\ DOMAIN matrices = {"target", "reference"}
      /\ \A g \in DOMAIN matrices :
            /\ Designed(matrices[g].data, Ascending(RowsOf(g)))
            /\ matrices[g].rows = Ascending({i - 1 : i \in RowsOf(g)})
  BY DEF RowsAreKept, Pool
<1>2. Misaligned(matrices) = {}
  <2> SUFFICES ASSUME NEW g \in DOMAIN matrices
               PROVE  /\ Len(matrices[g].data.x) = Len(matrices[g].rows)
                      /\ Len(matrices[g].data.y) = Len(matrices[g].rows)
    BY DEF Misaligned
  <2> DEFINE p == Ascending(RowsOf(g))
             d == matrices[g].data
  <2>1. Height(file) \in Nat /\ RowsOf(g) \subseteq 1..Height(file)
    BY <1>1, FileIsTall DEF RowsOf
  <2>2. Cardinality(RowsOf(g)) \in Nat /\ Len(p) = Cardinality(RowsOf(g))
    BY <2>1, PositionsAreFinite, AscendingIsASequence
  <2>3. Ascending({i - 1 : i \in RowsOf(g)}) = [k \in 1..Len(p) |-> p[k] - 1]
    BY <2>1, <2>2, FromZero
  <2>4. Designed(d, p) /\ matrices[g].rows = [k \in 1..Len(p) |-> p[k] - 1]
    BY <1>1, <2>3
  <2> HIDE DEF p, d
  <2>5. Len(matrices[g].rows) = Len(p)
    BY <2>2, <2>4
  <2>6. Len(d.x) = Len(p) /\ Len(d.y) = Len(p)
    BY <2>2, <2>4 DEF Designed
  <2> QED  BY <2>5, <2>6 DEF d
<1>3. /\ pooled' = [x |-> rx \o tx, y |-> r.data.y \o t.data.y,
                    slot |-> [o \in ToSet(r.rows) \cup ToSet(t.rows)
                                |-> IF Contains(t.rows, o)
                                    THEN Len(r.rows) + PlaceOf(t.rows, o)
                                    ELSE PlaceOf(r.rows, o)]]
      /\ stage' = "done"
      /\ UNCHANGED <<inputs, refusal, prepared, groups, selected, matrices>>
  BY <1>2, ZenonT(60) DEF Pool
<1>4. /\ AskTyped' = AskTyped /\ \A g : RowsOf(g)' = RowsOf(g)
  BY ONLY <1>3, RowsFrozen
<1>5. /\ file' = file /\ ask' = ask /\ Analysis' = Analysis /\ refusal' = refusal
      /\ excluded' = excluded /\ matrices' = matrices
  BY <1>3, Zenon DEF inputs, prepared, Analysis
<1>6. \A g \in {"target", "reference"} : Pooled(pooled', g)
  <2>1. /\ Designed(r.data, Ascending(RowsOf("reference")))
        /\ Designed(t.data, Ascending(RowsOf("target")))
        /\ r.rows = Ascending({i - 1 : i \in RowsOf("reference")})
        /\ t.rows = Ascending({i - 1 : i \in RowsOf("target")})
    BY <1>1
  <2>2. Stacks(pooled', r, t)
    BY <1>3, Zenon DEF Stacks
  <2> HIDE DEF r, t
  <2>3. r = matrices["reference"] /\ t = matrices["target"] /\ FileTyped(file)
    BY <1>1, SMTT(30) DEF r, t
  <2> QED  BY ONLY <2>1, <2>2, <2>3, PoolIsTheirs
<1>7. \A g \in DOMAIN matrices' : OwnRows(g)'
  <2> SUFFICES ASSUME NEW g \in DOMAIN matrices' PROVE OwnRows(g)'
    OBVIOUS
  <2>1. Pooled(pooled', g)
    BY <1>1, <1>5, <1>6
  <2>2. \A x, names, i : Carries(x, names, i)' = Carries(x, names, i)
    BY <1>5 DEF Carries
  <2>3. {i - 1 : i \in RowsOf(g)}' = {i - 1 : i \in RowsOf(g)}
    BY <1>4
  <2> QED  BY <2>1, <2>2, <2>3, <1>5 DEF Pooled, OwnRows
<1>8. ExclusionsAreComplete'
  <2>1. ExclusionsAreComplete' = ExclusionsAreComplete
    BY <1>5, ExclusionsFrozen
  <2>2. ExclusionsAreComplete
    BY <1>1 DEF Cleaned
  <2> QED  BY <2>1, <2>2
<1> QED  BY <1>1, <1>3, <1>4, <1>5, <1>7, <1>8, ZenonT(60) DEF RowsAreKept

\* The errors of a regression.
LEMMA OlsErrors ==
    ASSUME NEW d
    PROVE  OlsError(d) \in {<<>>, <<"insufficient data">>, <<"singular">>}
BY DEF OlsError

\* The estimation only reads the rows.
LEMMA EstimationKept ==
    ASSUME RowsAreKept, Analysis = "builder", asked' = asked,
           Estimate \/ Price \/ Decompose
    PROVE  RowsAreKept'
<1>1. ASSUME NEW e, e \in {<<>>, <<"insufficient data">>, <<"singular">>}, e # <<>>, Refuse(e)
      PROVE  RowsAreKept'
  <2>1. e \notin {<<"row accounting mismatch">>, <<"row alignment">>}
        /\ e[1] # "level confined"
    <3>1. CASE e = <<"insufficient data">>
      BY ONLY <3>1
    <3>2. CASE e = <<"singular">>
      BY ONLY <3>2
    <3> QED  BY ONLY <3>1, <3>2, <1>1
  <2> QED  BY <2>1, <1>1, RefusalKept
<1>2. ASSUME UNCHANGED <<inputs, refusal, prepared, output>>,
             \/ stage = "estimate" /\ stage' = "price"
             \/ stage = "price" /\ stage' = "decompose"
             \/ stage = "decompose" /\ stage' = "done"
      PROVE  RowsAreKept'
  <2>1. /\ file' = file /\ ask' = ask /\ refusal' = refusal /\ Analysis' = Analysis
        /\ AskTyped' = AskTyped
    BY <1>2, RowsFrozen DEF inputs, Analysis
  <2>2. FileTyped(file) /\ AskTyped /\ refusal = <<>> /\ ask.path # "matrices"
    BY <1>2 DEF RowsAreKept
  <2> QED  BY <1>2, <2>1, <2>2 DEF RowsAreKept
<1>3. CASE Estimate
  <2>1. PICK ratios \in MillsRatios :
          LET a == Regressed("target", ratios)
              b == Regressed("reference", ratios)
              error == IF OlsError(a) # <<>> THEN OlsError(a) ELSE OlsError(b)
          IN  \/ error # <<>> /\ Refuse(error)
              \/ /\ stage = "estimate" /\ stage' = "price"
                 /\ UNCHANGED <<inputs, refusal, prepared, output>>
    BY <1>3 DEF Estimate
  <2> DEFINE a == Regressed("target", ratios)
             b == Regressed("reference", ratios)
             error == IF OlsError(a) # <<>> THEN OlsError(a) ELSE OlsError(b)
  <2>2. error \in {<<>>, <<"insufficient data">>, <<"singular">>}
    BY OlsErrors
  <2>3. \/ error # <<>> /\ Refuse(error)
        \/ /\ stage = "estimate" /\ stage' = "price"
           /\ UNCHANGED <<inputs, refusal, prepared, output>>
    BY <2>1
  <2> HIDE DEF error
  <2> QED  BY <2>2, <2>3, <1>1, <1>2
<1>4. CASE Price
  <2>1. OlsError(PooledData) \in {<<>>, <<"insufficient data">>, <<"singular">>}
    BY OlsErrors
  <2> QED  BY <2>1, <1>1, <1>2, <1>4 DEF Price
<1>5. CASE Decompose
  BY <1>2, <1>5 DEF Decompose
<1> QED  BY <1>3, <1>4, <1>5

\* A builder for the next quantile starts over.
LEMMA NextQuantileKept ==
    ASSUME RowsAreKept, NextQuantile
    PROVE  RowsAreKept'
<1>1. /\ stage' = "check" /\ refusal' = <<>> /\ encoded' = 0 /\ dummies' = <<>>
      /\ UNCHANGED inputs /\ asked' = asked
  BY DEF NextQuantile
<1>2. file' = file /\ Analysis' = Analysis /\ AskTyped' = AskTyped
  BY <1>1, RowsFrozen DEF inputs, Analysis
<1> QED  BY <1>1, <1>2 DEF RowsAreKept

\* What leaves the builder alone keeps what is said of it.
LEMMA RowsUntouched ==
    ASSUME RowsAreKept, UNCHANGED <<vars, asked>>
    PROVE  RowsAreKept'
<1>1. UNCHANGED <<inputs, prepared, groups>>
  BY DEF vars, prepVars, output
<1>2. /\ file' = file /\ ask' = ask /\ stage' = stage /\ refusal' = refusal
      /\ frame' = frame /\ encoded' = encoded /\ dummies' = dummies
      /\ groups' = groups /\ selected' = selected /\ matrices' = matrices
      /\ pooled' = pooled /\ excluded' = excluded
  BY DEF vars, prepVars, inputs, prepared, output
<1>3. /\ Cleaned' = Cleaned /\ RowsSplit' = RowsSplit /\ Collapsed' = Collapsed
      /\ AskTyped' = AskTyped /\ TwoValues' = TwoValues
      /\ Whole' = Whole /\ \A g : RowsOf(g)' = RowsOf(g)
  BY <1>1, SplitFrozen, RowsFrozen
<1>4. \A x, names, i : Carries(x, names, i)' = Carries(x, names, i)
  BY <1>2 DEF Carries
<1>5. \A g : OwnRows(g)' = OwnRows(g)
  BY ONLY <1>2, <1>3, <1>4, ZenonT(60) DEF OwnRows
<1>6. \A g : SelectedRows(g)' = SelectedRows(g)
  <2> SUFFICES ASSUME NEW g PROVE SelectedRows(g)' = SelectedRows(g)
    OBVIOUS
  <2>1. {i \in RowsOf(g)' : file'[ask'.selection][i] = 1}
           = {i \in RowsOf(g) : file[ask.selection][i] = 1}
    BY <1>2, <1>3
  <2> QED  BY <1>2, <1>4, <2>1, ZenonT(60) DEF SelectedRows
<1>7. ExclusionsAreComplete' = ExclusionsAreComplete
  BY <1>2, ExclusionsFrozen
<1>8. \A f, c : Collapses(f, c)' = Collapses(f, c)
  <2> SUFFICES ASSUME NEW f, NEW c PROVE Collapses(f, c)' = Collapses(f, c)
    OBVIOUS
  <2>1. dummies' = dummies /\ ask' = ask
    BY <1>2
  <2> QED  BY ONLY <2>1 DEF Collapses
<1>9. \A d, p : Designed(d, p)' = Designed(d, p)
  BY <1>4, <1>2 DEF Designed
<1>10. \A f, names, p : Rowed(f, names, p)' = Rowed(f, names, p)
  BY <1>1, RowedFrozen
<1>11. Analysis' = Analysis
  BY DEF Analysis
<1>12. stage = "encode" => Rowed(frame, dummies, Ascending(Whole))'
  BY <1>2, <1>3, <1>10 DEF RowsAreKept
<1>13. stage = "pool" =>
          /\ DOMAIN matrices' = {"target", "reference"}
          /\ \A g \in DOMAIN matrices' :
                /\ Designed(matrices[g].data, Ascending(RowsOf(g)))'
                /\ (matrices[g].rows = Ascending({i - 1 : i \in RowsOf(g)}))'
  BY <1>2, <1>3, <1>9 DEF RowsAreKept
<1>14. /\ FileTyped(file)' = FileTyped(file)
       /\ refusal # <<>> /\ refusal[1] = "level confined" =>
             Collapses(groups[refusal[4]], refusal[2])'
  BY <1>2, <1>8 DEF RowsAreKept
<1> QED
  BY <1>2, <1>3, <1>5, <1>6, <1>7, <1>11, <1>12, <1>13, <1>14, ZenonT(60) DEF RowsAreKept

\* Of every step of a program, one of the builder's or one that leaves it alone.
LEMMA BuilderSteps ==
    ASSUME [CommandLineNext]_allVars
    PROVE  \/ Analysis = "builder" /\ PassNext /\ asked' = asked
           \/ NextQuantile
           \/ UNCHANGED <<vars, asked>>
BY DEF CommandLineNext, allVars, cliVars, Analyse, CheckMainOptions, ReadData, Configure,
   ExitWith, GoTo, Untouched, AnalysisFails, Deliver, Write, WriteFails,
   NextQuantile, Succeed, Over

\* Whoever calls, the file and what is asked of it are what they are to be.
LEMMA RowsInit == CommandLineInit => RowsAreKept
<1> SUFFICES ASSUME CommandLineInit PROVE RowsAreKept
  OBVIOUS
<1>1. ASSUME Analysis = "builder" PROVE FileTyped(file) /\ AskTyped
  <2>1. CASE LibraryCall
    <3>1. PICK c \in Cases : file \in c.files /\ ask \in c.asks
      BY <1>1, <2>1 DEF LibraryCall, Inputs
    <3> QED  BY <3>1, CasesTyped DEF AskTyped
  <2>2. CASE CommandCall
    <3>1. asked \in Commands /\ file = asked.file /\ ask = AskOf(asked)
      BY <1>1, <2>2 DEF CommandCall
    <3>2. /\ asked.verb \in {"run", "report"} /\ asked.type \in {"mean", "quantile", "akm", "match"}
          /\ asked.verb = "report" => asked.type = "mean"
          /\ asked.type \in {"mean", "quantile"} => FileTyped(asked.file)
          /\ asked.reference \in Int
          /\ asked.numeric \in Seq(ColumnNames) /\ asked.cats \in Seq(ColumnNames)
          /\ asked.selectors \in Seq(ColumnNames)
          /\ asked.formula.numeric \in Seq(ColumnNames)
          /\ asked.formula.cats \in Seq(ColumnNames)
      BY <3>1, CommandsTyped
    <3>3. FileTyped(file)
      BY <1>1, <3>1, <3>2 DEF Analysis, AnalysisOf
    <3>4. /\ ask.path \in {"run", "quantile"} /\ ask.reference = asked.reference
          /\ ask.numeric \in {asked.numeric, asked.formula.numeric}
          /\ ask.cats \in {asked.cats, asked.formula.cats}
          /\ ask.selectors \in {asked.selectors, <<>>}
      BY <3>1 DEF AskOf
    <3>5. ask.selectors \in Seq(ColumnNames)
      BY <3>2, <3>4, EmptySeq
    <3> QED  BY <3>2, <3>3, <3>4, <3>5 DEF AskTyped
  <2> QED  BY <2>1, <2>2 DEF CommandLineInit
<1>2. stage = "check" /\ refusal = <<>> /\ encoded = 0 /\ dummies = <<>>
  BY DEF CommandLineInit, PassStart, Start
<1> QED  BY <1>1, <1>2 DEF RowsAreKept

\* The invariant is inductive.
LEMMA RowsNext == RowsAreKept /\ [CommandLineNext]_allVars => RowsAreKept'
<1> SUFFICES ASSUME RowsAreKept, [CommandLineNext]_allVars PROVE RowsAreKept'
  OBVIOUS
<1>1. CASE Analysis = "builder" /\ PassNext /\ asked' = asked
  <2>1. CASE CheckGroups
    BY <1>1, <2>1, CheckGroupsKept
  <2>2. CASE Clean
    BY <1>1, <2>2, CleanKept
  <2>3. CASE Encode
    BY <1>1, <2>3, EncodeKept
  <2>4. CASE Split
    BY <1>1, <2>4, SplitKept
  <2>5. CASE Confine
    BY <1>1, <2>5, ConfineKept
  <2>6. CASE ReplaceOutcome
    BY <1>1, <2>6, ReplaceOutcomeKept
  <2>7. CASE Select
    BY <1>1, <2>7, SelectKept
  <2>8. CASE GetMatrices
    BY <1>1, <2>8, GetMatricesKept
  <2>9. CASE Pool
    BY <1>1, <2>9, PoolKept
  <2>10. CASE Estimate \/ Price \/ Decompose
    BY <1>1, <2>10, EstimationKept
  <2> QED
    BY <1>1, <2>1, <2>2, <2>3, <2>4, <2>5, <2>6, <2>7, <2>8, <2>9, <2>10 DEF PassNext, Prepare
<1>2. CASE NextQuantile
  BY <1>2, NextQuantileKept
<1>3. CASE UNCHANGED <<vars, asked>>
  BY <1>3, RowsUntouched
<1> QED  BY <1>1, <1>2, <1>3, BuilderSteps

\* For every file and everything asked of a builder: every row is analysed in
\* its own group or reported as excluded, exactly once, and row k of every
\* matrix, outcome and selector, and the slot of its ordinal in the pooled
\* design, are of one and the same row.
THEOREM RowsStayTheirs == CommandLineSpec => []RowsAreTheirs
<1>1. RowsAreKept => RowsAreTheirs
  BY DEF RowsAreKept, RowsAreTheirs
<1> QED  BY <1>1, RowsInit, RowsNext, PTL DEF CommandLineSpec

\* And no estimation starts on a group whose own design a predictor collapses,
\* nor is a level refused as confined when it collapses none.
THEOREM ConfinementStaysDue == CommandLineSpec => []ConfinementIsDue
<1>1. RowsAreKept => ConfinementIsDue
  BY DEF RowsAreKept, ConfinementIsDue, Collapsed
<1> QED  BY <1>1, RowsInit, RowsNext, PTL DEF CommandLineSpec

-----------------------------------------------------------------------------
(* The population that prices *)

\* What row i of the file weighs, by itself and with others, and the rows of
\* some that have level l of column c.
RowWeight(i) == IF Weighted(ask) THEN file[ask.weights][i] ELSE 1
MassOf(S) == SumFunctionOnSet([i \in S |-> RowWeight(i)], S)
AtLevel(S, c, l) == {i \in S : file[c][i] = l}

\* What the rows of a frame weigh together that have level l of column c.
RowsAt(f, c, l) == {k \in 1..Height(f) : f[c][k] = l}
MassAt(f, w, c, l) == SumFunctionOnSet([k \in RowsAt(f, c, l) |-> w[k]], RowsAt(f, c, l))
RawWeights(f) == [k \in 1..Height(f) |-> RawWeight(f, k)]

\* By how much relative weights are rescaled in a group of n rows.
Scale(n) == IF Weighted(ask) /\ ask.kind = "relative" THEN n ELSE 1

\* The weights of whole rows are numbers.
WeightsAreNumbers ==
    /\ Weighted(ask) => ask.weights \in DOMAIN file
    /\ \A i \in Whole : RowWeight(i) \in Int

\* Some of the whole rows are finitely many positions.
LEMMA WholePart ==
    ASSUME FileTyped(file), NEW S, S \subseteq Whole
    PROVE  IsFiniteSet(S) /\ S \subseteq Int
<1>1. Height(file) \in Nat /\ S \subseteq 1..Height(file)
  BY FileIsTall DEF Whole
<1> QED  BY <1>1, PositionsAreFinite

\* The mass of positions of a frame is that of the rows of the file there.
LEMMA MassOfPositions ==
    ASSUME FileTyped(file), NEW S, S \subseteq Whole, WeightsAreNumbers,
           NEW f, NEW names, Rowed(f, names, Ascending(S)),
           NEW K, K \subseteq 1..Cardinality(S), NEW v,
           \A k \in K : v[k] = RawWeight(f, k)
    PROVE  SumFunctionOnSet(v, K) = MassOf({Ascending(S)[k] : k \in K})
<1> DEFINE p == Ascending(S)
           m == Cardinality(S)
           T == {p[k] : k \in K}
           w == [i \in T |-> RowWeight(i)]
<1>1. IsFiniteSet(S) /\ S \subseteq Int
  BY WholePart
<1>2. /\ m \in Nat /\ Len(p) = m /\ p \in [1..m -> S]
      /\ \A i, j \in 1..m : p[i] = p[j] => i = j
  BY <1>1, AscendingIsASequence
<1>3. IsFiniteSet(K)
  BY <1>2, PositionsAreFinite
<1> HIDE DEF p, m
<1>4. \A k \in K : k \in 1..m /\ p[k] \in S /\ p[k] \in Whole
  BY <1>2 DEF m
<1>5. \A k \in K : v[k] = RowWeight(p[k])
  <2> SUFFICES ASSUME NEW k \in K PROVE v[k] = RowWeight(p[k])
    OBVIOUS
  <2>1. v[k] = IF Weighted(ask) THEN f[ask.weights][k] ELSE 1
    BY DEF RawWeight
  <2>2. Weighted(ask) => f[ask.weights][k] = file[ask.weights][p[k]]
    BY <1>2, <1>4 DEF Rowed, WeightsAreNumbers, p
  <2> QED  BY <2>1, <2>2 DEF RowWeight
<1>6. \A k \in K : w[p[k]] = RowWeight(p[k]) /\ w[p[k]] \in Int
  BY <1>4 DEF WeightsAreNumbers
<1>7. \A i, j \in K : p[i] = p[j] => i = j
  BY <1>2, <1>4
<1> DEFINE g == [k \in K |-> w[p[k]]]
<1>8. SumFunctionOnSet(w, T) = SumFunctionOnSet(g, K)
  <2> HIDE DEF w
  <2> QED  BY ONLY <1>3, <1>6, <1>7, SumReindexed
<1>9. SumFunctionOnSet(g, K) = SumFunctionOnSet(v, K)
  <2>1. \A k \in K : g[k] = v[k]
    BY <1>5, <1>6
  <2> HIDE DEF g
  <2> QED  BY ONLY <1>3, <2>1, SumSameTerms
<1> QED  BY <1>8, <1>9 DEF MassOf, p

\* So the mass of a frame is that of its rows, and that of its rows at a level
\* is that of those of them with the level.
LEMMA MassOfFrame ==
    ASSUME FileTyped(file), NEW S, S \subseteq Whole, WeightsAreNumbers,
           NEW f, NEW names, Rowed(f, names, Ascending(S))
    PROVE  /\ Height(f) = Cardinality(S) /\ Height(f) \in Nat
           /\ Mass(f) = MassOf(S) /\ MassOf(S) \in Int
           /\ \A c \in DOMAIN file : \A l :
                 MassAt(f, RawWeights(f), c, l) = MassOf(AtLevel(S, c, l))
<1> DEFINE p == Ascending(S)
           m == Cardinality(S)
<1>1. IsFiniteSet(S) /\ S \subseteq Int
  BY WholePart
<1>2. m \in Nat /\ Len(p) = m /\ p \in [1..m -> S] /\ S = {p[k] : k \in 1..m}
  <2>1. m \in Nat /\ Len(p) = m /\ p \in [1..m -> S]
    BY ONLY <1>1, AscendingIsASequence
  <2>2. S = {p[k] : k \in 1..m}
    <3>1. \A x \in S : \E k \in 1..m : p[k] = x
      BY ONLY <1>1, AscendingEnumerates
    <3>2. \A k \in 1..m : p[k] \in S
      BY ONLY <2>1
    <3> HIDE DEF p, m
    <3> QED  BY ONLY <3>1, <3>2
  <2> QED  BY <2>1, <2>2
<1>3. Height(f) = m
  BY <1>2, TallIsHigh DEF Rowed
<1>4. Mass(f) = MassOf(S)
  <2> DEFINE v == [i \in 1..m |-> RawWeight(f, i)]
  <2>1. Mass(f) = SumFunctionOnSet(v, 1..m)
    BY <1>3 DEF Mass, Sum
  <2>2. \A k \in 1..m : v[k] = RawWeight(f, k)
    OBVIOUS
  <2> HIDE DEF v
  <2>3. SumFunctionOnSet(v, 1..m) = MassOf({p[k] : k \in 1..m})
    BY <2>2, MassOfPositions
  <2> QED  BY <1>2, <2>1, <2>3
<1>5. MassOf(S) \in Int
  BY <1>1, SumInt DEF MassOf, WeightsAreNumbers
<1>6. ASSUME NEW c \in DOMAIN file, NEW l
      PROVE  MassAt(f, RawWeights(f), c, l) = MassOf(AtLevel(S, c, l))
  <2> DEFINE K == RowsAt(f, c, l)
             v == [k \in K |-> RawWeights(f)[k]]
  <2>1. K \subseteq 1..m /\ \A k \in 1..m : k \in K <=> f[c][k] = l
    BY <1>3 DEF RowsAt
  <2>5. \A k \in K : v[k] = RawWeight(f, k)
    BY <1>3, <2>1 DEF RawWeights
  <2>6. MassAt(f, RawWeights(f), c, l) = SumFunctionOnSet(v, K)
    BY DEF MassAt
  <2> HIDE DEF K, v
  <2>2. SumFunctionOnSet(v, K) = MassOf({p[k] : k \in K})
    <3>1. K \subseteq 1..Cardinality(S)
      BY <2>1
    <3> QED
      BY ONLY FileTyped(file), S \subseteq Whole, WeightsAreNumbers,
              Rowed(f, names, Ascending(S)), <2>5, <3>1, MassOfPositions
  <2>3. \A k \in 1..m : f[c][k] = file[c][p[k]]
    BY <1>2 DEF Rowed
  <2>4. {p[k] : k \in K} = AtLevel(S, c, l)
    <3> HIDE DEF p, m
    <3>1. \A k \in K : p[k] \in AtLevel(S, c, l)
      BY <1>2, <2>1, <2>3 DEF AtLevel
    <3>2. ASSUME NEW i \in AtLevel(S, c, l) PROVE i \in {p[k] : k \in K}
      <4>1. i \in S /\ file[c][i] = l
        BY DEF AtLevel
      <4>2. PICK k \in 1..m : p[k] = i
        BY <1>2, <4>1
      <4>3. k \in K
        BY <2>1, <2>3, <4>1, <4>2
      <4> QED  BY <4>2, <4>3
    <3> QED  BY ONLY <3>1, <3>2
  <2> QED  BY <2>2, <2>4, <2>6
<1> QED  BY <1>2, <1>3, <1>4, <1>5, <1>6

\* One function is another times a number, over a finite set.
ScaledOn(f, g, c, S) ==
    /\ c \in Int
    /\ IsFiniteSet(S)
    /\ \A x \in S : g[x] \in Int /\ f[x] = c * g[x]

\* So is its sum.
LEMMA ScaledSums ==
    ASSUME NEW f, NEW g, NEW c, NEW S, ScaledOn(f, g, c, S)
    PROVE  SumFunctionOnSet(f, S) = c * SumFunctionOnSet(g, S)
  BY SumScaled DEF ScaledOn

\* What a group's regression takes a row to weigh is its weight, rescaled.
LEMMA WeightsAreScaled ==
    ASSUME FileTyped(file), NEW S, S \subseteq Whole, WeightsAreNumbers,
           NEW f, Rowed(f, dummies, Ascending(S))
    PROVE  /\ Scale(Cardinality(S)) \in Int
           /\ Total(PrepareData(f, dummies, <<>>).w) = Scale(Cardinality(S)) * MassOf(S)
           /\ \A c \in DOMAIN file : \A l :
                 MassAt(f, PrepareData(f, dummies, <<>>).w, c, l)
                     = Scale(Cardinality(S)) * MassOf(AtLevel(S, c, l))
<1> DEFINE w == PrepareData(f, dummies, <<>>).w
           m == Cardinality(S)
           scale == Scale(m)
           raw == [k \in 1..m |-> RawWeight(f, k)]
<1>1. /\ Height(f) = m /\ m \in Nat /\ Mass(f) = MassOf(S)
      /\ \A c \in DOMAIN file : \A l :
            MassAt(f, RawWeights(f), c, l) = MassOf(AtLevel(S, c, l))
  BY MassOfFrame
<1>2. IsFiniteSet(S) /\ S \subseteq Int
  BY WholePart
<1>3. Len(Ascending(S)) = m /\ Ascending(S) \in [1..m -> S]
  BY ONLY <1>2, AscendingIsASequence
<1>4. scale \in Int
  BY <1>1 DEF Scale
<1>5. Weighted(ask) => ask.weights \in DOMAIN f /\ DOMAIN f[ask.weights] = 1..m
                       /\ Len(f[ask.weights]) = m
  <2>1. Tall(f, m) /\ DOMAIN file \subseteq DOMAIN f
    BY <1>3 DEF Rowed
  <2> QED  BY <2>1, TallIsHigh DEF WeightsAreNumbers
<1>6. \A k \in 1..m : raw[k] \in Int
  <2> SUFFICES ASSUME NEW k \in 1..m PROVE raw[k] \in Int
    OBVIOUS
  <2>1. Ascending(S)[k] \in Whole
    BY <1>3
  <2>2. Weighted(ask) => f[ask.weights][k] = file[ask.weights][Ascending(S)[k]]
    BY <1>3 DEF Rowed, WeightsAreNumbers
  <2> QED  BY <2>1, <2>2 DEF RawWeight, WeightsAreNumbers, RowWeight
<1>7. DOMAIN w = 1..m /\ \A k \in 1..m : raw[k] \in Int /\ w[k] = scale * raw[k]
  <2>1. CASE ~Weighted(ask)
    <3>1. w = [k \in 1..m |-> 1]
      BY <1>1, <2>1 DEF PrepareData
    <3>2. \A k \in 1..m : raw[k] = 1
      BY <2>1 DEF RawWeight
    <3>3. scale = 1
      BY <2>1 DEF Scale
    <3> HIDE DEF w, raw, scale
    <3>4. DOMAIN w = 1..m /\ \A k \in 1..m : w[k] = 1
      BY <3>1
    <3> QED  BY <3>2, <3>3, <3>4
  <2>2. CASE Weighted(ask) /\ ask.kind = "relative"
    <3>1. w = Rescaled(f[ask.weights])
      BY <2>2 DEF PrepareData
    <3>2. DOMAIN w = 1..m /\ \A k \in 1..m : w[k] = m * f[ask.weights][k]
      BY <1>5, <2>2, <3>1 DEF Rescaled
    <3>3. scale = m /\ \A k \in 1..m : raw[k] = f[ask.weights][k]
      BY <2>2 DEF Scale, RawWeight
    <3> HIDE DEF w, raw, scale
    <3> QED  BY <1>6, <3>2, <3>3
  <2>3. CASE Weighted(ask) /\ ask.kind # "relative"
    <3>1. w = f[ask.weights]
      BY <2>3 DEF PrepareData
    <3>2. DOMAIN w = 1..m /\ \A k \in 1..m : w[k] = f[ask.weights][k]
      BY <1>5, <2>3, <3>1
    <3>3. scale = 1 /\ \A k \in 1..m : raw[k] = f[ask.weights][k]
      BY <2>3 DEF Scale, RawWeight
    <3> HIDE DEF w, scale
    <3>4. \A k \in 1..m : raw[k] \in Int /\ w[k] = raw[k]
      BY <1>6, <3>2, <3>3
    <3> HIDE DEF raw
    <3> QED  BY <3>2, <3>3, <3>4
  <2> QED  BY <2>1, <2>2, <2>3
<1> HIDE DEF w, scale
<1>8. Total(w) = scale * MassOf(S)
  <2>1. SumFunctionOnSet(raw, 1..m) = Mass(f)
    BY <1>1 DEF Mass, Sum
  <2> DEFINE D == 1..m
  <2>2. IsFiniteSet(D) /\ \A k \in D : raw[k] \in Int /\ w[k] = scale * raw[k]
    BY <1>1, <1>7, FS_Interval
  <2> HIDE DEF raw, D
  <2>3. SumFunctionOnSet(w, D) = scale * SumFunctionOnSet(raw, D)
    <3>1. scale \in Int
      BY <1>4
    <3>2. IsFiniteSet(D)
      BY <2>2
    <3>3. \A k \in D : raw[k] \in Int /\ w[k] = scale * raw[k]
      BY <2>2
    <3>4. ScaledOn(w, raw, scale, D)
      BY ONLY <3>1, <3>2, <3>3 DEF ScaledOn
    <3> QED  BY ONLY <3>4, ScaledSums
  <2>4. SumFunctionOnSet(raw, D) = MassOf(S)
    BY <1>1, <2>1 DEF D
  <2>5. Total(w) = SumFunctionOnSet(w, D)
    BY <1>7 DEF Total, D
  <2> QED  BY ONLY <2>3, <2>4, <2>5
<1>9. ASSUME NEW c \in DOMAIN file, NEW l
      PROVE  MassAt(f, w, c, l) = scale * MassOf(AtLevel(S, c, l))
  <2> DEFINE K == RowsAt(f, c, l)
             v == [k \in K |-> w[k]]
             r == [k \in K |-> RawWeights(f)[k]]
  <2>1. MassAt(f, w, c, l) = SumFunctionOnSet(v, K)
    BY DEF MassAt
  <2>2. SumFunctionOnSet(r, K) = MassOf(AtLevel(S, c, l))
    BY <1>1 DEF MassAt
  <2>3. K \subseteq 1..m
    BY <1>1 DEF RowsAt
  <2>4. IsFiniteSet(K)
    BY <1>1, <2>3, PositionsAreFinite
  <2>5. \A k \in K : r[k] \in Int /\ v[k] = scale * r[k]
    <3>1. ASSUME NEW k \in K PROVE r[k] = raw[k] /\ v[k] = w[k] /\ k \in 1..m
      BY <1>1, <2>3 DEF RawWeights
    <3> HIDE DEF v, r, raw, K
    <3> QED  BY <1>7, <3>1
  <2> HIDE DEF v, K, r
  <2>6. SumFunctionOnSet(v, K) = scale * SumFunctionOnSet(r, K)
    <3>1. scale \in Int
      BY <1>4
    <3>2. \A k \in K : r[k] \in Int /\ v[k] = scale * r[k]
      BY <2>5
    <3>3. IsFiniteSet(K)
      BY <2>4
    <3> HIDE DEF m, raw
    <3>4. ScaledOn(v, r, scale, K)
      BY ONLY <3>1, <3>2, <3>3 DEF ScaledOn
    <3> QED  BY ONLY <3>4, ScaledSums
  <2> QED  BY <2>1, <2>2, <2>6
<1> QED  BY <1>4, <1>8, <1>9 DEF w, scale

\* Mixing rescaled figures by raw masses is adding up the raw figures.
LEMMA MixedShares ==
    ASSUME NEW a \in Int, NEW b \in Int, NEW s \in Int, NEW t \in Int,
           NEW h \in Int, NEW k \in Int
    PROVE  (a + b) * (s * a) * (t * b) * (h + k) =
              (a + b) * (a * (t * b) * (s * h) + b * (s * a) * (t * k))
<1>1. /\ a * (t * b) * (s * h) = (s * a) * (t * b) * h
      /\ b * (s * a) * (t * k) = (s * a) * (t * b) * k
  OBVIOUS
<1>2. (s * a) * (t * b) * (h + k) = (s * a) * (t * b) * h + (s * a) * (t * b) * k
  OBVIOUS
<1> QED  BY <1>1, <1>2

\* Weights are checked for blanks like everything else.
LEMMA WeightsAre ==
    ASSUME FileTyped(file), AskTyped, Cleaned
    PROVE  WeightsAreNumbers
<1>1. Height(file) \in Nat /\ Tall(file, Height(file))
  BY FileIsTall
<1>2. ASSUME Weighted(ask)
      PROVE  \E k \in DOMAIN CleaningColumns(ask) :
                CleaningColumns(ask)[k].column = ask.weights
  BY <1>2, ColumnsChecked DEF AskTyped
<1>3. ASSUME Weighted(ask) PROVE ask.weights \in DOMAIN file
  BY <1>2, <1>3 DEF Cleaned
<1>4. ASSUME NEW i \in Whole PROVE RowWeight(i) \in Int
  <2>1. i \in 1..Height(file) /\ ~Incomplete(i)
    BY DEF Whole
  <2>2. CASE Weighted(ask)
    <3>1. file[ask.weights][i] \in Int \cup {NoCell}
      BY <1>1, <1>3, <2>1, <2>2 DEF Tall
    <3>2. file[ask.weights][i] # NoCell
      BY <1>2, <2>1, <2>2 DEF Incomplete
    <3> QED  BY <2>2, <3>1, <3>2 DEF RowWeight
  <2>3. CASE ~Weighted(ask)
    BY <2>3 DEF RowWeight
  <2> QED  BY <2>2, <2>3
<1> QED  BY <1>3, <1>4 DEF WeightsAreNumbers

\* The frame is that of the whole rows still, and the shares are read off it.
SharesAreKept ==
    /\ Analysis = "builder" => ask.normalize \subseteq ToSet(ask.cats)
    /\ Analysis # "builder" => stage = "check" /\ shares = <<>>
    /\ ask.path = "matrices" => shares = <<>>
    /\ stage \in {"confine", "transform", "select", "estimate", "price", "decompose",
                  "done"} /\ ask.path # "matrices" =>
          Cleaned /\ RowsSplit /\ Rowed(frame, dummies, Ascending(Whole))
    /\ stage \in {"price", "decompose", "done"} /\ ask.path # "matrices" =>
          shares = Shares

\* Of the groups' means of a level, mixed by the groups' masses, comes its share.
LEMMA MixIsOfShares ==
    ASSUME FileTyped(file), AskTyped, ask.normalize \subseteq ToSet(ask.cats),
           Cleaned, RowsSplit, Rowed(frame, dummies, Ascending(Whole)),
           ask.convention = "population", NEW c \in Restricted, NEW l \in LevelsOf(c)
    PROVE  (Mix.a + Mix.b) * WA * WB * FactorShares(c).share[l] =
              Den * (Mix.a * WB * LevelWeight("target", c, l)
                     + Mix.b * WA * LevelWeight("reference", c, l))
<1> DEFINE T == RowsOf("target")
           R == RowsOf("reference")
           s == Scale(Cardinality(T))
           t == Scale(Cardinality(R))
<1>1. WeightsAreNumbers
  BY WeightsAre
<1>2. Height(file) \in Nat /\ Whole \subseteq 1..Height(file)
  BY FileIsTall DEF Whole
<1>3. Whole = T \cup R /\ T \cap R = {} /\ T \subseteq Whole /\ R \subseteq Whole
  <2>1. Whole = T \cup R
    BY DEF RowsSplit
  <2>2. T \cap R = {}
    BY DEF RowsOf
  <2> QED  BY <2>1, <2>2
<1>4. ~Selecting(ask) /\ c \in DOMAIN file
  <2>1. ~Selecting(ask) /\ c \in ToSet(ask.cats)
    BY DEF Restricted
  <2>2. \E k \in DOMAIN CleaningColumns(ask) : CleaningColumns(ask)[k].column = c
    BY <2>1, ColumnsChecked DEF AskTyped
  <2> QED  BY <2>1, <2>2 DEF Cleaned
<1>5. /\ Rowed(groups["target"], dummies, Ascending(T))
      /\ Rowed(groups["reference"], dummies, Ascending(R))
  BY DEF RowsSplit
<1> HIDE DEF T, R
<1>6. /\ T \subseteq 1..Height(file) /\ R \subseteq 1..Height(file)
  BY <1>2, <1>3
<1>7. /\ Mix.a = MassOf(T) /\ Mix.b = MassOf(R) /\ MassOf(T) \in Int /\ MassOf(R) \in Int
  <2>1. Mass(groups["target"]) = MassOf(T) /\ MassOf(T) \in Int
    BY <1>1, <1>2, <1>3, <1>5, <1>6, MassOfFrame
  <2>2. Mass(groups["reference"]) = MassOf(R) /\ MassOf(R) \in Int
    BY <1>1, <1>2, <1>3, <1>5, <1>6, MassOfFrame
  <2> QED  BY <2>1, <2>2 DEF Mix, MassA, MassB
<1>8. Den = MassOf(Whole)
  <2>1. Den = Mass(frame)
    BY DEF Den
  <2> QED  BY <1>1, <1>2, <2>1, MassOfFrame
<1>9. FactorShares(c).share[l] = MassOf(AtLevel(Whole, c, l))
  <2> DEFINE K == RowsAt(frame, c, l)
             v == [k \in K |-> RawWeight(frame, k)]
             r == [k \in K |-> RawWeights(frame)[k]]
  <2>1. FactorShares(c).share[l] = SumFunctionOnSet(v, K)
    BY DEF FactorShares, Sum, RowsAt
  <2>2. SumFunctionOnSet(r, K) = MassOf(AtLevel(Whole, c, l))
    <3>1. c \in DOMAIN file
      BY <1>4
    <3>2. MassAt(frame, RawWeights(frame), c, l) = MassOf(AtLevel(Whole, c, l))
      BY ONLY FileTyped(file), <1>1, <3>1, Rowed(frame, dummies, Ascending(Whole)),
              MassOfFrame
    <3> QED  BY <3>2 DEF MassAt
  <2>3. v = r
    BY DEF RawWeights, RowsAt
  <2> QED  BY <2>1, <2>2, <2>3
<1>10. /\ A = DataOf("target") /\ B = DataOf("reference")
  BY <1>4 DEF A, B, Regressed
<1>11. /\ s \in Int /\ WA = s * MassOf(T)
       /\ LevelWeight("target", c, l) = s * MassOf(AtLevel(T, c, l))
  <2>1. /\ s \in Int /\ Total(DataOf("target").w) = s * MassOf(T)
        /\ MassAt(groups["target"], DataOf("target").w, c, l) = s * MassOf(AtLevel(T, c, l))
    <3>2. T \subseteq Whole
      BY <1>3
    <3>3. Rowed(groups["target"], dummies, Ascending(T))
      BY <1>5
    <3>4. c \in DOMAIN file
      BY <1>4
    <3> QED  BY ONLY FileTyped(file), <1>1, <3>2, <3>3, <3>4, WeightsAreScaled DEF DataOf
  <2>2. LevelWeight("target", c, l) = MassAt(groups["target"], DataOf("target").w, c, l)
    BY DEF LevelWeight, MassAt, RowsAt, Sum
  <2> QED  BY <1>10, <2>1, <2>2 DEF WA
<1>12. /\ t \in Int /\ WB = t * MassOf(R)
       /\ LevelWeight("reference", c, l) = t * MassOf(AtLevel(R, c, l))
  <2>1. /\ t \in Int /\ Total(DataOf("reference").w) = t * MassOf(R)
        /\ MassAt(groups["reference"], DataOf("reference").w, c, l) = t * MassOf(AtLevel(R, c, l))
    <3>2. R \subseteq Whole
      BY <1>3
    <3>3. Rowed(groups["reference"], dummies, Ascending(R))
      BY <1>5
    <3>4. c \in DOMAIN file
      BY <1>4
    <3> QED  BY ONLY FileTyped(file), <1>1, <3>2, <3>3, <3>4, WeightsAreScaled DEF DataOf
  <2>2. LevelWeight("reference", c, l) = MassAt(groups["reference"], DataOf("reference").w, c, l)
    BY DEF LevelWeight, MassAt, RowsAt, Sum
  <2> QED  BY <1>10, <2>1, <2>2 DEF WB
<1>13. ASSUME NEW X, NEW Y, X \subseteq T, Y \subseteq R
       PROVE  MassOf(X) \in Int /\ MassOf(Y) \in Int /\ MassOf(X \cup Y) = MassOf(X) + MassOf(Y)
  <2> DEFINE w == [i \in X \cup Y |-> RowWeight(i)]
             wx == [i \in X |-> RowWeight(i)]
             wy == [i \in Y |-> RowWeight(i)]
  <2>1. IsFiniteSet(X) /\ IsFiniteSet(Y) /\ X \cap Y = {}
    BY <1>2, <1>3, <1>6, <1>13, PositionsAreFinite
  <2>2. \A i \in X \cup Y : w[i] = RowWeight(i) /\ w[i] \in Int
    BY <1>1, <1>3, <1>13 DEF WeightsAreNumbers
  <2>3. /\ \A i \in X : wx[i] = w[i] /\ wx[i] \in Int
        /\ \A i \in Y : wy[i] = w[i] /\ wy[i] \in Int
    BY <2>2
  <2>4. /\ MassOf(X \cup Y) = SumFunctionOnSet(w, X \cup Y)
        /\ MassOf(X) = SumFunctionOnSet(wx, X) /\ MassOf(Y) = SumFunctionOnSet(wy, Y)
    BY DEF MassOf
  <2> HIDE DEF w, wx, wy
  <2>5. SumFunctionOnSet(w, X \cup Y) = SumFunctionOnSet(w, X) + SumFunctionOnSet(w, Y)
    BY <2>1, <2>2, SumOfUnion
  <2>6. SumFunctionOnSet(wx, X) = SumFunctionOnSet(w, X) /\ SumFunctionOnSet(wx, X) \in Int
    BY <2>1, <2>3, SumSameTerms, SumInt
  <2>7. SumFunctionOnSet(wy, Y) = SumFunctionOnSet(w, Y) /\ SumFunctionOnSet(wy, Y) \in Int
    BY <2>1, <2>3, SumSameTerms, SumInt
  <2> QED  BY ONLY <2>4, <2>5, <2>6, <2>7
<1>14. MassOf(Whole) = MassOf(T) + MassOf(R)
  BY <1>3, <1>13
<1>15. /\ MassOf(AtLevel(T, c, l)) \in Int /\ MassOf(AtLevel(R, c, l)) \in Int
       /\ MassOf(AtLevel(Whole, c, l)) = MassOf(AtLevel(T, c, l)) + MassOf(AtLevel(R, c, l))
  <2>1. /\ AtLevel(Whole, c, l) = AtLevel(T, c, l) \cup AtLevel(R, c, l)
        /\ AtLevel(T, c, l) \subseteq T /\ AtLevel(R, c, l) \subseteq R
    BY <1>3 DEF AtLevel
  <2> QED  BY <1>13, <2>1
<1> DEFINE a == MassOf(T)
           b == MassOf(R)
           h == MassOf(AtLevel(T, c, l))
           k == MassOf(AtLevel(R, c, l))
<1>16. a \in Int /\ b \in Int /\ s \in Int /\ t \in Int /\ h \in Int /\ k \in Int
  BY <1>7, <1>11, <1>12, <1>15
<1>17. /\ Mix.a = a /\ Mix.b = b /\ Den = a + b /\ FactorShares(c).share[l] = h + k
       /\ WA = s * a /\ LevelWeight("target", c, l) = s * h
       /\ WB = t * b /\ LevelWeight("reference", c, l) = t * k
  BY <1>7, <1>8, <1>9, <1>11, <1>12, <1>14, <1>15
<1> HIDE DEF a, b, s, t, h, k
<1>18. (a + b) * (s * a) * (t * b) * (h + k) =
          (a + b) * (a * (t * b) * (s * h) + b * (s * a) * (t * k))
  BY ONLY <1>16, MixedShares
<1> QED  BY ONLY <1>17, <1>18

\* The shares are read off the frame.
LEMMA SharesFrozen ==
    ASSUME UNCHANGED <<inputs, prepared>>
    PROVE  Shares' = Shares
<1>1. frame' = frame /\ ask' = ask /\ dummies' = dummies
  BY DEF inputs, prepared
<1>2. \A c : LevelsOf(c)' = LevelsOf(c)
  BY <1>1 DEF LevelsOf
<1>3. Mass(frame)' = Mass(frame)
  BY <1>1 DEF Mass, Sum, RawWeight, Weighted
<1>4. Den' = Den
  BY <1>1, <1>2, <1>3 DEF Den
<1>5. \A c : FactorShares(c)' = FactorShares(c)
  <2> SUFFICES ASSUME NEW c PROVE FactorShares(c)' = FactorShares(c)
    OBVIOUS
  <2>1. LevelsOf(c)' = LevelsOf(c)
    BY <1>2
  <2> QED  BY ONLY <1>1, <1>4, <2>1 DEF FactorShares, Sum, RawWeight, Weighted
<1>6. Restricted' = Restricted
  BY <1>1 DEF Restricted, Selecting
<1> QED  BY <1>5, <1>6 DEF Shares

\* What is so of the frame and the shares stays so where neither changes.
LEMMA FrameFrozen ==
    ASSUME UNCHANGED <<inputs, prepared, groups>>
    PROVE  /\ ask' = ask /\ Shares' = Shares
           /\ Cleaned' = Cleaned /\ RowsSplit' = RowsSplit
           /\ Rowed(frame, dummies, Ascending(Whole))' =
                 Rowed(frame, dummies, Ascending(Whole))
<1>1. frame' = frame /\ dummies' = dummies /\ ask' = ask
  BY DEF inputs, prepared
<1>2. Whole' = Whole
  BY RowsFrozen
<1>3. Rowed(frame, dummies, Ascending(Whole))' = Rowed(frame, dummies, Ascending(Whole))
  <2>1. Ascending(Whole)' = Ascending(Whole)
    BY <1>2
  <2> QED  BY <1>1, <2>1 DEF Rowed, inputs
<1> QED  BY <1>1, <1>3, SharesFrozen, SplitFrozen

LEMMA SharesInit == CommandLineInit => SharesAreKept
<1> SUFFICES ASSUME CommandLineInit PROVE SharesAreKept
  OBVIOUS
<1>1. ASSUME Analysis = "builder" PROVE ask.normalize \subseteq ToSet(ask.cats)
  <2>1. CASE LibraryCall
    <3>1. PICK c \in Cases : file \in c.files /\ ask \in c.asks
      BY <1>1, <2>1 DEF LibraryCall, Inputs
    <3> QED  BY <3>1, CasesTyped
  <2>2. CASE CommandCall
    <3>1. asked \in Commands /\ ask = AskOf(asked)
      BY <1>1, <2>2 DEF CommandCall
    <3>2. \E s : ask.cats = s /\ ask.normalize \in {{}, ToSet(s)}
      BY <3>1 DEF AskOf
    <3> QED  BY <3>2
  <2> QED  BY <2>1, <2>2 DEF CommandLineInit
<1>2. stage = "check" /\ shares = <<>>
  BY DEF CommandLineInit, PassStart, Start
<1> QED  BY <1>1, <1>2 DEF SharesAreKept

\* A step of the builder's that leaves the frame, the groups and the shares.
LEMMA SharesOnward ==
    ASSUME RowsAreKept, RowsAreKept', SharesAreKept, Analysis = "builder", asked' = asked,
           UNCHANGED <<inputs, prepared, groups, shares>>,
           \/ stage' \in {"check", "clean", "refused"}
           \/ stage \in {"confine", "transform", "select"}
              /\ stage' \in {"transform", "select", "estimate"}
           \/ stage \in {"price", "decompose"} /\ stage' \in {"decompose", "done"}
           \/ stage \in {"matrices", "pool"} /\ stage' \in {"pool", "done"}
    PROVE  SharesAreKept'
<1>1. /\ ask' = ask /\ Shares' = Shares /\ shares' = shares
      /\ Cleaned' = Cleaned /\ RowsSplit' = RowsSplit
      /\ Rowed(frame, dummies, Ascending(Whole))' = Rowed(frame, dummies, Ascending(Whole))
  BY FrameFrozen
<1>2. Analysis' = Analysis
  BY DEF Analysis
<1>3. stage \in {"matrices", "pool"} => ask.path = "matrices"
  BY DEF RowsAreKept
<1> QED  BY <1>1, <1>2, <1>3 DEF SharesAreKept

\* The steps of the builder's, one by one.
LEMMA SharesThroughPass ==
    ASSUME RowsAreKept, RowsAreKept', SharesAreKept, Analysis = "builder", asked' = asked,
           PassNext
    PROVE  SharesAreKept'
<1> USE DEF prepared
<1>1. ASSUME NEW e, Refuse(e), UNCHANGED passVars PROVE SharesAreKept'
  BY <1>1, SharesOnward DEF Refuse, output, passVars
<1>2. CASE CheckGroups /\ UNCHANGED passVars
  <2>1. \/ \E e : Refuse(e)
        \/ stage' = "clean" /\ UNCHANGED <<inputs, prepared, groups, shares>>
    BY <1>2 DEF CheckGroups, output, passVars
  <2> QED  BY <1>1, <1>2, <2>1, SharesOnward
<1>3. ASSUME ask' = ask, shares' = shares, stage' \in {"encode", "refused"}
      PROVE  SharesAreKept'
  BY <1>3 DEF SharesAreKept, Analysis
<1>4. CASE Clean /\ UNCHANGED passVars
  <2>1. \/ Refuse(CleaningError(file, ask))
        \/ UNCHANGED inputs /\ stage' \in {"encode", "refused"}
    BY <1>4 DEF Clean
  <2>2. UNCHANGED inputs => ask' = ask
    BY DEF inputs
  <2> QED  BY <1>1, <1>3, <1>4, <2>1, <2>2 DEF passVars
<1>5. CASE Encode /\ UNCHANGED passVars
  <2>1. \/ \E e : Refuse(e)
        \/ UNCHANGED inputs /\ stage' = stage /\ stage = "encode"
    BY <1>5 DEF Encode
  <2>2. UNCHANGED inputs => ask' = ask
    BY DEF inputs
  <2> QED  BY <1>1, <1>3, <1>5, <2>1, <2>2 DEF passVars
<1>6. CASE Split /\ UNCHANGED passVars
  <2>1. \/ Refuse(<<"not enough groups">>)
        \/ /\ UNCHANGED <<inputs, refusal, prepared>> /\ stage = "encode"
           /\ stage' = IF ask.path = "matrices" THEN "matrices" ELSE "confine"
    BY <1>6 DEF Split
  <2>2. ASSUME UNCHANGED <<inputs, refusal, prepared>>, stage = "encode",
               stage' = IF ask.path = "matrices" THEN "matrices" ELSE "confine"
        PROVE  SharesAreKept'
    <3>1. frame' = frame /\ dummies' = dummies /\ ask' = ask /\ shares' = shares
          /\ Analysis' = Analysis
      BY <1>6, <2>2 DEF inputs, passVars, Analysis
    <3>2. Whole' = Whole
      BY <2>2, RowsFrozen
    <3>3. Rowed(frame, dummies, Ascending(Whole))
      BY <2>2 DEF RowsAreKept
    <3>4. Rowed(frame, dummies, Ascending(Whole))'
      <4>1. Rowed(frame', dummies', Ascending(Whole))
        BY <3>1, <3>3
      <4> QED  BY <2>2, <3>2, <4>1, RowedFrozen
    <3>5. stage' = "confine" => Cleaned' /\ RowsSplit'
      BY DEF RowsAreKept
    <3> QED  BY <2>2, <3>1, <3>4, <3>5 DEF SharesAreKept
  <2> QED  BY <1>1, <1>6, <2>1, <2>2
<1>7. CASE Confine /\ UNCHANGED passVars
  <2>1. \/ Refuse(Confined(groups))
        \/ /\ stage = "confine" /\ stage' \in {"transform", "select", "estimate"}
           /\ UNCHANGED <<inputs, prepared, groups, shares>>
    BY <1>7 DEF Confine, Estimating, output, passVars
  <2> QED  BY <1>1, <1>7, <2>1, SharesOnward
<1>8. CASE ReplaceOutcome /\ UNCHANGED passVars
  <2>1. \/ \E e : Refuse(e)
        \/ /\ stage = "transform" /\ stage' \in {"select", "estimate"}
           /\ UNCHANGED <<inputs, prepared, groups, shares>>
    BY <1>8 DEF ReplaceOutcome, Estimating, output, passVars
  <2> QED  BY <1>1, <1>8, <2>1, SharesOnward
<1>9. CASE Select /\ UNCHANGED passVars
  <2>1. \/ \E e : Refuse(e)
        \/ /\ stage = "select" /\ stage' = "estimate"
           /\ UNCHANGED <<inputs, prepared, groups, shares>>
    BY <1>9 DEF Select, passVars
  <2> QED  BY <1>1, <1>9, <2>1, SharesOnward
<1>10. CASE (GetMatrices \/ Pool) /\ UNCHANGED passVars
  <2>1. \/ \E e : Refuse(e)
        \/ /\ stage \in {"matrices", "pool"} /\ stage' \in {"pool", "done"}
           /\ UNCHANGED <<inputs, prepared, groups, shares>>
    BY <1>10 DEF GetMatrices, Pool, passVars
  <2> QED  BY <1>1, <1>10, <2>1, SharesOnward
<1>11. CASE Estimate
  <2>1. PICK ratios \in MillsRatios :
          LET a == Regressed("target", ratios)
              b == Regressed("reference", ratios)
              error == IF OlsError(a) # <<>> THEN OlsError(a) ELSE OlsError(b)
          IN  \/ Refuse(error) /\ UNCHANGED passVars
              \/ /\ stage = "estimate" /\ stage' = "price" /\ shares' = Shares
                 /\ UNCHANGED <<inputs, prepared, output>>
    BY <1>11 DEF Estimate
  <2>2. ASSUME stage = "estimate", stage' = "price", shares' = Shares,
               UNCHANGED <<inputs, prepared, output>>
        PROVE  SharesAreKept'
    <3>1. /\ ask' = ask /\ Shares' = Shares /\ Analysis' = Analysis
          /\ Cleaned' = Cleaned /\ RowsSplit' = RowsSplit
          /\ Rowed(frame, dummies, Ascending(Whole))' =
                Rowed(frame, dummies, Ascending(Whole))
      BY <2>2, FrameFrozen DEF output, Analysis
    <3>2. ask.path # "matrices"
      BY <2>2 DEF RowsAreKept
    <3> QED  BY <2>2, <3>1, <3>2 DEF SharesAreKept
  <2> QED  BY <1>1, <2>1, <2>2
<1>12. CASE Price
  <2>1. \/ Refuse(OlsError(PooledData)) /\ UNCHANGED passVars
        \/ /\ stage = "price" /\ stage' = "decompose"
           /\ UNCHANGED <<inputs, prepared, groups, shares>>
    BY <1>12 DEF Price, output
  <2> QED  BY <1>1, <2>1, SharesOnward
<1>13. CASE Decompose
  <2>1. /\ stage = "decompose" /\ stage' = "done"
        /\ UNCHANGED <<inputs, prepared, groups, shares>>
    BY <1>13 DEF Decompose, output
  <2> QED  BY <2>1, SharesOnward
<1> QED
  BY <1>2, <1>4, <1>5, <1>6, <1>7, <1>8, <1>9, <1>10, <1>11, <1>12, <1>13
  DEF PassNext, Prepare

LEMMA SharesNext ==
    RowsAreKept /\ SharesAreKept /\ RowsAreKept' /\ [CommandLineNext]_allVars
        => SharesAreKept'
<1> SUFFICES ASSUME RowsAreKept, SharesAreKept, RowsAreKept', [CommandLineNext]_allVars
             PROVE  SharesAreKept'
  OBVIOUS
<1>1. CASE NextQuantile
  BY <1>1 DEF NextQuantile, inputs, SharesAreKept, Analysis
<1>2. CASE UNCHANGED <<vars, asked>>
  <2>1. /\ UNCHANGED <<inputs, prepared, groups>> /\ stage' = stage /\ shares' = shares
        /\ Analysis' = Analysis
    BY <1>2 DEF vars, prepVars, passVars, output, Analysis
  <2> QED  BY <2>1, FrameFrozen DEF SharesAreKept
<1> QED  BY <1>1, <1>2, SharesThroughPass, BuilderSteps

\* For every file, weights of either kind and predictors: the mix of the groups'
\* means of a level is the share that restricts the coefficients.
THEOREM OnePopulationStays == CommandLineSpec => []OnePopulation
<1>1. RowsAreKept /\ SharesAreKept => OnePopulation
  <2> SUFFICES ASSUME RowsAreKept, SharesAreKept, stage = "done",
                      ask.scheme = "Weighted", ask.convention = "population",
                      NEW c \in DOMAIN shares, NEW l \in LevelsOf(c)
               PROVE  (Mix.a + Mix.b) * WA * WB * shares[c].share[l] =
                         Den * (Mix.a * WB * LevelWeight("target", c, l)
                                + Mix.b * WA * LevelWeight("reference", c, l))
    BY DEF OnePopulation
  <2>1. Analysis = "builder" /\ ask.path # "matrices"
    BY DEF SharesAreKept
  <2>2. /\ FileTyped(file) /\ AskTyped /\ ask.normalize \subseteq ToSet(ask.cats)
        /\ Cleaned /\ RowsSplit /\ Rowed(frame, dummies, Ascending(Whole))
        /\ shares = Shares
    BY <2>1 DEF RowsAreKept, SharesAreKept
  <2>3. c \in Restricted /\ shares[c] = FactorShares(c)
    BY <2>2 DEF Shares
  <2> QED  BY <2>2, <2>3, MixIsOfShares
<1>2. CommandLineSpec => []RowsAreKept
  BY RowsInit, RowsNext, PTL DEF CommandLineSpec
<1> QED  BY <1>1, <1>2, SharesInit, SharesNext, PTL DEF CommandLineSpec

-----------------------------------------------------------------------------
(* Forests *)

\* In the forest p over S every node but a root is deeper, by d, than the
\* one it hangs from; and g is the root of every node.
Hangs(S, p, d) ==
    /\ p \in [S -> S] /\ d \in [S -> Nat]
    /\ \A n \in S : p[n] # n => d[p[n]] < d[n]
Climbs(S, p, g) ==
    /\ g \in [S -> S]
    /\ \A n \in S : g[n] = IF p[n] = n THEN n ELSE g[p[n]]

\* Of nodes in a set one is of the least depth.
LEMMA LeastDeep ==
    ASSUME NEW S, NEW d \in [S -> Nat], NEW T, T \subseteq S, T # {}
    PROVE  \E n \in T : \A m \in T : d[n] <= d[m]
<1> DEFINE D == {d[n] : n \in T}
<1>1. D \subseteq Nat /\ D # {}
  OBVIOUS
<1> HIDE DEF D
<1>2. PICK t \in D : \A u \in D : t <= u
  BY ONLY <1>1, LeastNumber
<1> QED  BY <1>2 DEF D

\* A function that climbs is the only one.
LEMMA ClimbsAlone ==
    ASSUME NEW S, NEW p, NEW d, Hangs(S, p, d), NEW g, NEW h,
           g = [n \in S |-> g[n]], h = [n \in S |-> h[n]],
           \A n \in S : g[n] = IF p[n] = n THEN n ELSE g[p[n]],
           \A n \in S : h[n] = IF p[n] = n THEN n ELSE h[p[n]]
    PROVE  g = h
<1> DEFINE Bad == {n \in S : g[n] # h[n]}
<1>1. p \in [S -> S] /\ d \in [S -> Nat] /\ \A n \in S : p[n] # n => d[p[n]] < d[n]
  BY DEF Hangs
<1>2. SUFFICES ASSUME Bad # {} PROVE FALSE
  OBVIOUS
<1>3. PICK n \in Bad : \A m \in Bad : d[n] <= d[m]
  <2>1. Bad \subseteq S
    OBVIOUS
  <2> HIDE DEF Bad
  <2> QED  BY ONLY <1>1, <1>2, <2>1, LeastDeep
<1>4. n \in S /\ g[n] # h[n]
  BY <1>3
<1>5. p[n] # n /\ p[n] \in S /\ g[p[n]] # h[p[n]]
  BY <1>1, <1>4
<1>6. d[p[n]] < d[n] /\ d[n] <= d[p[n]] /\ d[n] \in Nat /\ d[p[n]] \in Nat
  BY <1>1, <1>3, <1>4, <1>5
<1> QED  BY <1>6

\* A root is the root of itself, and higher than what it is the root of.
LEMMA RootsStand ==
    ASSUME NEW S, NEW p, NEW d, Hangs(S, p, d), NEW g, Climbs(S, p, g)
    PROVE  \A n \in S : /\ p[g[n]] = g[n] /\ g[g[n]] = g[n] /\ g[n] \in S
                        /\ g[n] = n \/ d[g[n]] < d[n]
                        /\ (g[n] = n) = (p[n] = n)
<1>1. p \in [S -> S] /\ d \in [S -> Nat] /\ \A n \in S : p[n] # n => d[p[n]] < d[n]
  BY DEF Hangs
<1>2. g \in [S -> S] /\ \A n \in S : g[n] = IF p[n] = n THEN n ELSE g[p[n]]
  BY DEF Climbs
<1> DEFINE Good(n) == p[g[n]] = g[n] /\ (g[n] = n \/ d[g[n]] < d[n])
           Bad == {n \in S : ~Good(n)}
<1>3. Bad = {}
  <2>1. SUFFICES ASSUME Bad # {} PROVE FALSE
    OBVIOUS
  <2>2. PICK n \in Bad : \A m \in Bad : d[n] <= d[m]
    <3>1. Bad \subseteq S
      OBVIOUS
    <3> HIDE DEF Bad
    <3> QED  BY ONLY <1>1, <2>1, <3>1, LeastDeep
  <2>3. n \in S /\ ~Good(n)
    BY <2>2
  <2>4. p[n] # n
    BY <1>2, <2>3
  <2>5. p[n] \in S /\ d[p[n]] < d[n] /\ g[n] = g[p[n]] /\ d[p[n]] \in Nat /\ d[n] \in Nat
    BY <1>1, <1>2, <2>3, <2>4
  <2>6. Good(p[n])
    <3>1. ~(d[n] <= d[p[n]])
      BY <2>5
    <3> QED  BY <2>2, <2>5, <3>1
  <2>7. d[g[n]] \in Nat
    BY <1>1, <1>2, <2>3
  <2>8. d[g[n]] < d[n]
    BY <2>5, <2>6, <2>7
  <2> QED  BY <2>3, <2>5, <2>6, <2>8
<1>4. ASSUME NEW n \in S PROVE Good(n) /\ g[n] \in S
  BY <1>2, <1>3
<1>5. ASSUME NEW n \in S PROVE g[g[n]] = g[n] /\ (g[n] = n) = (p[n] = n)
  <2>1. p[g[n]] = g[n] /\ g[n] \in S
    BY <1>4
  <2> QED  BY <1>2, <2>1
<1> QED  BY <1>4, <1>5

\* Hanging nodes from their roots moves no root.
LEMMA Compressing ==
    ASSUME NEW S, NEW p, NEW d, Hangs(S, p, d), NEW g, Climbs(S, p, g), NEW C,
           NEW q, q = [n \in S |-> IF n \in C THEN g[n] ELSE p[n]]
    PROVE  Hangs(S, q, d) /\ Climbs(S, q, g)
<1>1. p \in [S -> S] /\ d \in [S -> Nat] /\ \A n \in S : p[n] # n => d[p[n]] < d[n]
  BY DEF Hangs
<1>2. g \in [S -> S] /\ \A n \in S : g[n] = IF p[n] = n THEN n ELSE g[p[n]]
  BY DEF Climbs
<1>3. \A n \in S : /\ p[g[n]] = g[n] /\ g[g[n]] = g[n] /\ g[n] \in S
                   /\ g[n] = n \/ d[g[n]] < d[n]
                   /\ (g[n] = n) = (p[n] = n)
  BY RootsStand
<1>4. q \in [S -> S]
  BY <1>1, <1>3
<1>5. ASSUME NEW n \in S, q[n] # n PROVE d[q[n]] < d[n]
  <2>1. CASE n \in C
    BY <1>3, <1>5, <2>1
  <2>2. CASE n \notin C
    BY <1>1, <1>5, <2>2
  <2> QED  BY <2>1, <2>2
<1>6. ASSUME NEW n \in S PROVE g[n] = IF q[n] = n THEN n ELSE g[q[n]]
  <2>1. CASE n \in C
    BY <1>3, <2>1
  <2>2. CASE n \notin C
    BY <1>2, <2>2
  <2> QED  BY <2>1, <2>2
<1> QED  BY <1>1, <1>2, <1>4, <1>5, <1>6 DEF Hangs, Climbs

\* What low was the root of has the root high; in p low hangs from high.
Moved(S, g, low, high) == [n \in S |-> IF g[n] = low THEN high ELSE g[n]]
Hung(p, low, high) == [p EXCEPT ![low] = high]

\* Hanging one root from another moves what was under it, and nothing else.
LEMMA Hanging ==
    ASSUME NEW S, NEW p, NEW d, Hangs(S, p, d), NEW g, Climbs(S, p, g),
           NEW low \in S, NEW high \in S, low # high, g[low] = low, g[high] = high
    PROVE  /\ \E e : Hangs(S, Hung(p, low, high), e)
           /\ Climbs(S, Hung(p, low, high), Moved(S, g, low, high))
<1> DEFINE q == Hung(p, low, high)
           h == Moved(S, g, low, high)
<1>1. p \in [S -> S] /\ d \in [S -> Nat] /\ \A n \in S : p[n] # n => d[p[n]] < d[n]
  BY DEF Hangs
<1>2. g \in [S -> S] /\ \A n \in S : g[n] = IF p[n] = n THEN n ELSE g[p[n]]
  BY DEF Climbs
<1>3. \A n \in S : (g[n] = n) = (p[n] = n)
  BY RootsStand
<1> DEFINE e == [n \in S |-> IF g[n] = low THEN d[n] + d[high] + 1 ELSE d[n]]
<1>4. q \in [S -> S] /\ q[low] = high /\ \A n \in S \ {low} : q[n] = p[n]
  BY <1>1 DEF Hung
<1>5. e \in [S -> Nat]
  BY <1>1
<1>6. ASSUME NEW n \in S, q[n] # n PROVE e[q[n]] < e[n]
  <2>1. CASE n = low
    <3>1. e[q[n]] = d[high] /\ e[n] = d[low] + d[high] + 1 /\ d[low] \in Nat /\ d[high] \in Nat
      BY <1>1, <1>4, <2>1
    <3> QED  BY <3>1
  <2>2. CASE n # low
    <3>1. q[n] = p[n] /\ p[n] # n /\ p[n] \in S
      BY <1>1, <1>4, <1>6, <2>2
    <3>2. g[n] = g[p[n]] /\ d[p[n]] < d[n] /\ d[n] \in Nat /\ d[p[n]] \in Nat /\ d[high] \in Nat
      BY <1>1, <1>2, <3>1
    <3> QED  BY <3>1, <3>2
  <2> QED  BY <2>1, <2>2
<1>7. h \in [S -> S] /\ \A n \in S : h[n] = IF g[n] = low THEN high ELSE g[n]
  BY <1>2 DEF Moved
<1> HIDE DEF q, h
<1>8. ASSUME NEW n \in S PROVE h[n] = IF q[n] = n THEN n ELSE h[q[n]]
  <2>1. CASE n = low
    BY <1>4, <1>7, <2>1
  <2>2. CASE n # low /\ p[n] = n
    BY <1>2, <1>4, <1>7, <2>2
  <2>3. CASE n # low /\ p[n] # n
    <3>1. q[n] = p[n] /\ p[n] \in S /\ g[n] = g[p[n]]
      BY <1>1, <1>2, <1>4, <2>3
    <3> QED  BY <1>7, <2>3, <3>1
  <2> QED  BY <2>1, <2>2, <2>3
<1>9. Hangs(S, q, e)
  BY <1>4, <1>5, <1>6 DEF Hangs
<1> QED  BY <1>7, <1>8, <1>9 DEF Climbs, q, h

\* The roots of p over S.
RootOf(S, p) == LET up[n \in S] == IF p[n] = n THEN n ELSE up[p[n]] IN up

\* Whatever climbs the forest is its roots.
LEMMA RootOfIs ==
    ASSUME NEW S, NEW p, NEW d, Hangs(S, p, d), NEW g, Climbs(S, p, g)
    PROVE  RootOf(S, p) = g
<1> DEFINE Up(f) == [n \in S |-> IF p[n] = n THEN n ELSE f[p[n]]]
           r == CHOOSE f : f = Up(f)
<1>1. g \in [S -> S] /\ \A n \in S : g[n] = IF p[n] = n THEN n ELSE g[p[n]]
  BY DEF Climbs
<1>2. g = Up(g)
  BY <1>1
<1>3. r = Up(r)
  <2> HIDE DEF Up
  <2> QED  BY <1>2
<1>4. RootOf(S, p) = r
  BY Zenon DEF RootOf
<1> HIDE DEF r
<1>5. r = [n \in S |-> r[n]] /\ \A n \in S : r[n] = IF p[n] = n THEN n ELSE r[p[n]]
  BY <1>3
<1>6. g = [n \in S |-> g[n]]
  BY <1>1
<1>7. r = g
  BY ONLY <1>1, <1>5, <1>6, Hangs(S, p, d), ClimbsAlone
<1> QED  BY <1>4, <1>7

\* What find returns is the root in the forest as it stands.
LEMMA RootIs == Root = RootOf(Nodes, parent)
BY Zenon DEF Root, RootOf

\* What a union leaves of the roots g is h: those of i and j become one, and
\* no others do.
Joins(S, g, h, i, j) ==
    /\ h[i] = h[j]
    /\ \A n, m \in S : g[n] = g[m] => h[n] = h[m]
    /\ \A n, m \in S : h[n] = h[m] => \/ g[n] = g[m]
                                      \/ g[n] = g[i] /\ g[m] = g[j]
                                      \/ g[n] = g[j] /\ g[m] = g[i]

\* Hanging one of two roots from the other joins the two trees and no more.
LEMMA HangingJoins ==
    ASSUME NEW S, NEW g \in [S -> S], NEW i \in S, NEW j \in S, NEW low, NEW high,
           g[i] # g[j], {low, high} = {g[i], g[j]}
    PROVE  Joins(S, g, Moved(S, g, low, high), i, j)
<1> DEFINE h == Moved(S, g, low, high)
<1>0. \A n \in S : h[n] = IF g[n] = low THEN high ELSE g[n]
  BY DEF Moved
<1> HIDE DEF h
<1>1. (low = g[i] /\ high = g[j]) \/ (low = g[j] /\ high = g[i])
  OBVIOUS
<1>2. h[i] = h[j]
  BY <1>0, <1>1
<1>3. \A n, m \in S : g[n] = g[m] => h[n] = h[m]
  BY <1>0
<1>4. ASSUME NEW n \in S, NEW m \in S, h[n] = h[m]
      PROVE  \/ g[n] = g[m]
             \/ g[n] = g[i] /\ g[m] = g[j]
             \/ g[n] = g[j] /\ g[m] = g[i]
  BY <1>0, <1>1, <1>4
<1> QED  BY <1>2, <1>3, <1>4 DEF Joins, h

\* A union keeps the forest one, and joins the roots of the two.
LEMMA UnionJoins ==
    ASSUME NEW d, Hangs(Nodes, parent, d), NEW g, Climbs(Nodes, parent, g),
           NEW i \in Nodes, NEW j \in Nodes, Union(i, j)
    PROVE  \E e, h : /\ Hangs(Nodes, parent', e) /\ Climbs(Nodes, parent', h)
                     /\ Joins(Nodes, g, h, i, j)
<1> DEFINE C == Way(i) \cup Way(j)
           p == Compressed(C)
<1>1. Root = g
  BY RootIs, RootOfIs
<1>2. p = [n \in Nodes |-> IF n \in C THEN g[n] ELSE parent[n]]
  <2> HIDE DEF C
  <2> QED  BY <1>1 DEF Compressed
<1> HIDE DEF C
<1>3. Hangs(Nodes, p, d) /\ Climbs(Nodes, p, g)
  <2> HIDE DEF p
  <2> QED  BY ONLY <1>2, Hangs(Nodes, parent, d), Climbs(Nodes, parent, g), Compressing
<1>4. g \in [Nodes -> Nodes]
  BY DEF Climbs
<1>5. g[g[i]] = g[i] /\ g[g[j]] = g[j] /\ g[i] \in Nodes /\ g[j] \in Nodes
  BY RootsStand
<1>6. \/ g[i] = g[j] /\ parent' = p
      \/ /\ g[i] # g[j]
         /\ \/ parent' = [p EXCEPT ![g[i]] = g[j]]
            \/ parent' = [p EXCEPT ![g[j]] = g[i]]
  BY <1>1 DEF Union, C
<1> HIDE DEF p
<1>7. CASE g[i] = g[j] /\ parent' = p
  <2>1. Joins(Nodes, g, g, i, j)
    BY <1>7 DEF Joins
  <2> QED  BY <1>3, <1>7, <2>1
<1>8. ASSUME NEW low, NEW high, g[i] # g[j], {low, high} = {g[i], g[j]},
             parent' = [p EXCEPT ![low] = high]
      PROVE  \E e, h : /\ Hangs(Nodes, parent', e) /\ Climbs(Nodes, parent', h)
                       /\ Joins(Nodes, g, h, i, j)
  <2> DEFINE h == Moved(Nodes, g, low, high)
             q == Hung(p, low, high)
  <2>1. low \in Nodes /\ high \in Nodes /\ low # high /\ g[low] = low /\ g[high] = high
    BY <1>5, <1>8
  <2>2. Joins(Nodes, g, h, i, j)
    BY ONLY <1>4, <1>8, i \in Nodes, j \in Nodes, HangingJoins
  <2>3. (\E e : Hangs(Nodes, q, e)) /\ Climbs(Nodes, q, h)
    BY ONLY <1>3, <2>1, Hanging
  <2>4. parent' = q
    BY <1>8 DEF Hung
  <2> HIDE DEF h, q
  <2> QED  BY <2>2, <2>3, <2>4
<1> QED  BY <1>6, <1>7, <1>8
-----------------------------------------------------------------------------
(* The nodes of a panel *)

\* Numbers of a finite set have different ranks in it.
LEMMA RankCounts ==
    ASSUME NEW S, S \subseteq Int, IsFiniteSet(S)
    PROVE  /\ \A v \in S : Rank(S, v) \in 0..(Cardinality(S) - 1)
           /\ \A u, v \in S : Rank(S, u) = Rank(S, v) => u = v
<1> DEFINE Under(v) == {u \in S : u < v}
<1>1. Cardinality(S) \in Nat
  BY FS_CardinalityType
<1>2. ASSUME NEW v \in S
      PROVE  IsFiniteSet(Under(v)) /\ Cardinality(Under(v)) \in Nat
             /\ Cardinality(Under(v)) < Cardinality(S)
  <2>1. Under(v) \in SUBSET S /\ v \notin Under(v)
    OBVIOUS
  <2>2. /\ IsFiniteSet(Under(v)) /\ Cardinality(Under(v)) <= Cardinality(S)
        /\ Cardinality(S) = Cardinality(Under(v)) => S = Under(v)
    <3> HIDE DEF Under
    <3> QED  BY <2>1, FS_Subset
  <2>3. S # Under(v)
    BY <2>1
  <2>4. Cardinality(Under(v)) \in Nat
    BY ONLY <2>2, FS_CardinalityType
  <2> QED  BY <1>1, <2>2, <2>3, <2>4
<1>3. ASSUME NEW u \in S, NEW v \in S, u < v
      PROVE  Cardinality(Under(u)) < Cardinality(Under(v))
  <2>1. Under(u) \in SUBSET Under(v) /\ u \in Under(v) /\ u \notin Under(u)
    <3>1. \A x \in S : x \in Int
      OBVIOUS
    <3>2. \A x \in S : x < u => x < v
      BY <1>3, <3>1
    <3>3. ~(u < u)
      BY <3>1
    <3> QED  BY ONLY <1>3, <3>2, <3>3, u \in S, v \in S
  <2>2. /\ Cardinality(Under(u)) <= Cardinality(Under(v))
        /\ Cardinality(Under(v)) = Cardinality(Under(u)) => Under(v) = Under(u)
    <3>1. IsFiniteSet(Under(v))
      BY <1>2
    <3> HIDE DEF Under
    <3> QED  BY <2>1, <3>1, FS_Subset
  <2>3. Under(u) # Under(v)
    BY <2>1
  <2>4. Cardinality(Under(u)) \in Nat /\ Cardinality(Under(v)) \in Nat
    BY <1>2
  <2> HIDE DEF Under
  <2> QED  BY <2>2, <2>3, <2>4
<1>4. \A v \in S : Rank(S, v) = Cardinality(Under(v))
  BY DEF Rank
<1> HIDE DEF Under
<1>5. \A v \in S : Rank(S, v) \in 0..(Cardinality(S) - 1)
  BY <1>1, <1>2, <1>4
<1>6. ASSUME NEW u \in S, NEW v \in S, Rank(S, u) = Rank(S, v) PROVE u = v
  <2>1. ~(u < v) /\ ~(v < u)
    BY <1>2, <1>3, <1>4, <1>6
  <2> QED  BY <2>1
<1> QED  BY <1>5, <1>6

\* A column has no more values than kinds of cell.
LEMMA CellsCount ==
    ASSUME NEW D, IsFiniteSet(D), NEW c, \A i \in D : \A u, v \in c[i] : u = v,
           NEW U, U = UNION {c[i] : i \in D}
    PROVE  /\ IsFiniteSet(U) /\ IsFiniteSet({c[i] : i \in D})
           /\ Cardinality(U) <= Cardinality({c[i] : i \in D})
<1> DEFINE K == {c[i] : i \in D}
           f == [i \in D |-> c[i]]
           g == [u \in U |-> {u}]
<1>1. f \in Surjection(D, K)
  BY DEF Surjection
<1>2. IsFiniteSet(K)
  <2> HIDE DEF f, K
  <2> QED  BY <1>1, FS_Surjection
<1>3. ASSUME NEW u \in U PROVE {u} \in K
  <2>1. PICK i \in D : u \in c[i]
    OBVIOUS
  <2>2. c[i] = {u}
    BY <2>1
  <2> QED  BY <2>2
<1>4. g \in Injection(U, K)
  BY <1>3 DEF Injection, IsInjective
<1>5. IsFiniteSet(U) /\ Cardinality(U) <= Cardinality(K)
  <2> HIDE DEF g, K
  <2> QED  BY <1>2, <1>4, FS_Injection
<1> QED  BY <1>2, <1>5

\* The workers and firms of a panel have a node each.
LEMMA NodesAreTheirs ==
    ASSUME PanelTyped(panel.rows)
    PROVE  /\ NWorkers \in Nat /\ NFirms \in Nat
           /\ IsFiniteSet(Workers) /\ Workers \subseteq Int
           /\ IsFiniteSet(Firms) /\ Firms \subseteq Int
           /\ \A w \in Workers : WorkerNode(w) \in 0..(NWorkers - 1)
           /\ \A f \in Firms : FirmNode(f) \in NWorkers..(NWorkers + NFirms - 1)
           /\ \A v, w \in Workers : WorkerNode(v) = WorkerNode(w) => v = w
           /\ \A f, g \in Firms : FirmNode(f) = FirmNode(g) => f = g
<1> DEFINE D == DOMAIN Rows
           a == [i \in D |-> Rows[i].worker]
           b == [i \in D |-> Rows[i].firm]
<1>1. /\ Rows \in Seq([worker : SUBSET DOMAIN WorkerPart,
                       firm : SUBSET DOMAIN FirmPart, outcome : SUBSET Int])
      /\ \A i \in DOMAIN Rows : /\ \A v, w \in Rows[i].worker : v = w
                                /\ \A f, g \in Rows[i].firm : f = g
  BY Zenon DEF PanelTyped, Rows
<1>2. IsFiniteSet(D)
  <2>1. D = 1..Len(Rows) /\ Len(Rows) \in Nat
    BY <1>1, LenProperties
  <2> QED  BY <2>1, FS_Interval
<1>3. \A i \in D : Rows[i].worker \subseteq Int /\ Rows[i].firm \subseteq Int
  <2> SUFFICES ASSUME NEW i \in D PROVE Rows[i].worker \subseteq Int /\ Rows[i].firm \subseteq Int
    OBVIOUS
  <2>1. Rows[i] \in [worker : SUBSET DOMAIN WorkerPart, firm : SUBSET DOMAIN FirmPart,
                     outcome : SUBSET Int]
    <3> DEFINE R == [worker : SUBSET DOMAIN WorkerPart, firm : SUBSET DOMAIN FirmPart,
                     outcome : SUBSET Int]
    <3>1. Rows \in Seq(R)
      BY <1>1
    <3> HIDE DEF R
    <3>2. Rows[i] \in R
      BY ONLY <3>1, i \in D DEF D
    <3> QED  BY <3>2 DEF R
  <2> QED  BY <2>1, PartsTyped
<1>4. /\ Workers = UNION {a[i] : i \in D} /\ NWorkers = Cardinality({a[i] : i \in D})
      /\ Firms = UNION {b[i] : i \in D} /\ NFirms = Cardinality({b[i] : i \in D})
  BY DEF Workers, NWorkers, Firms, NFirms
<1>5. /\ \A i \in D : \A u, v \in a[i] : u = v
      /\ \A i \in D : \A u, v \in b[i] : u = v
  BY <1>1
<1>6. Workers \subseteq Int /\ Firms \subseteq Int
  BY <1>3, <1>4
<1> HIDE DEF a, b, D
<1>7. /\ IsFiniteSet(Workers) /\ IsFiniteSet({a[i] : i \in D})
      /\ Cardinality(Workers) <= NWorkers
  BY <1>2, <1>4, <1>5, CellsCount
<1>8. /\ IsFiniteSet(Firms) /\ IsFiniteSet({b[i] : i \in D})
      /\ Cardinality(Firms) <= NFirms
  BY <1>2, <1>4, <1>5, CellsCount
<1>9. NWorkers \in Nat /\ NFirms \in Nat /\ Cardinality(Workers) \in Nat
      /\ Cardinality(Firms) \in Nat
  BY <1>4, <1>7, <1>8, FS_CardinalityType
<1>10. /\ \A w \in Workers : WorkerNode(w) \in 0..(Cardinality(Workers) - 1)
       /\ \A v, w \in Workers : WorkerNode(v) = WorkerNode(w) => v = w
  BY <1>6, <1>7, RankCounts DEF WorkerNode
<1>11. /\ \A f \in Firms : Rank(Firms, f) \in 0..(Cardinality(Firms) - 1)
       /\ \A f, g \in Firms : Rank(Firms, f) = Rank(Firms, g) => f = g
  BY <1>6, <1>8, RankCounts
<1>12. \A w \in Workers : WorkerNode(w) \in 0..(NWorkers - 1)
  BY <1>7, <1>9, <1>10
<1>13. ASSUME NEW f \in Firms
       PROVE  FirmNode(f) \in NWorkers..(NWorkers + NFirms - 1)
  BY <1>8, <1>9, <1>11 DEF FirmNode
<1>14. ASSUME NEW f \in Firms, NEW g \in Firms, FirmNode(f) = FirmNode(g) PROVE f = g
  BY <1>9, <1>11, <1>14 DEF FirmNode
<1> QED  BY <1>6, <1>7, <1>8, <1>9, <1>10, <1>12, <1>13, <1>14
-----------------------------------------------------------------------------
(* Linking *)

\* No row up to the m-th leads out of the nodes T.
Shut(T, m) ==
    \A i \in 1..m : \A w \in Rows[i].worker, f \in Rows[i].firm :
        (WorkerNode(w) \in T) = (FirmNode(f) \in T)

\* g joins what the first m rows link, and nothing that they leave apart.
JoinsRows(g, m) ==
    /\ \A i \in 1..m : \A w \in Rows[i].worker, f \in Rows[i].firm :
          g[WorkerNode(w)] = g[FirmNode(f)]
    /\ \A T \in SUBSET Nodes : Shut(T, m) =>
          \A n, k \in Nodes : g[n] = g[k] => (n \in T) = (k \in T)

\* The forest is one, and its roots join the rows linked so far.
RootsJoinRows ==
    \E d, g : /\ Hangs(Nodes, parent, d) /\ Climbs(Nodes, parent, g)
              /\ JoinsRows(g, linked)

\* The nodes are a matter of the panel.
LEMMA PanelFrozen ==
    ASSUME panel' = panel
    PROVE  /\ Rows' = Rows /\ Nodes' = Nodes
           /\ Workers' = Workers /\ Firms' = Firms /\ Links' = Links
           /\ \A w : WorkerNode(w)' = WorkerNode(w)
           /\ \A f : FirmNode(f)' = FirmNode(f)
           /\ \A T, m : Shut(T, m)' = Shut(T, m)
           /\ \A g, m : JoinsRows(g, m)' = JoinsRows(g, m)
<1>1. Rows' = Rows
  BY DEF Rows
<1>2. /\ Workers' = Workers /\ Firms' = Firms /\ Links' = Links
      /\ NWorkers' = NWorkers /\ NFirms' = NFirms
  BY <1>1 DEF Workers, Firms, Links, NWorkers, NFirms
<1>3. Nodes' = Nodes
  BY <1>2 DEF Nodes
<1>4. (\A w : WorkerNode(w)' = WorkerNode(w)) /\ \A f : FirmNode(f)' = FirmNode(f)
  BY <1>2 DEF WorkerNode, FirmNode
<1>5. \A T, m : Shut(T, m)' = Shut(T, m)
  <2> TAKE T, m
  <2> QED  BY ONLY <1>1, <1>4, Zenon DEF Shut
<1>6. \A g, m : JoinsRows(g, m)' = JoinsRows(g, m)
  <2> TAKE g, m
  <2> QED  BY ONLY <1>1, <1>3, <1>4, <1>5 DEF JoinsRows
<1> QED  BY <1>1, <1>2, <1>3, <1>4, <1>5, <1>6

\* The ends of a row are nodes, and not the same.
LEMMA EndsAreNodes ==
    ASSUME PanelTyped(panel.rows), NEW i \in DOMAIN Rows,
           NEW w \in Rows[i].worker, NEW f \in Rows[i].firm
    PROVE  /\ WorkerNode(w) \in Nodes /\ FirmNode(f) \in Nodes
           /\ WorkerNode(w) # FirmNode(f)
           /\ w \in Workers /\ f \in Firms
<1>1. w \in Workers /\ f \in Firms
  BY DEF Workers, Firms
<1>2. /\ NWorkers \in Nat /\ NFirms \in Nat
      /\ WorkerNode(w) \in 0..(NWorkers - 1)
      /\ FirmNode(f) \in NWorkers..(NWorkers + NFirms - 1)
  BY <1>1, NodesAreTheirs
<1> QED  BY <1>1, <1>2 DEF Nodes

\* Nothing is joined before a row is linked.
LEMMA NothingJoined ==
    ASSUME parent = [n \in Nodes |-> n], linked = 0
    PROVE  RootsJoinRows
<1> DEFINE d == [n \in Nodes |-> 0]
           g == [n \in Nodes |-> n]
<1>1. Hangs(Nodes, parent, d)
  BY DEF Hangs
<1>2. Climbs(Nodes, parent, g)
  BY DEF Climbs
<1>3. JoinsRows(g, linked)
  BY DEF JoinsRows
<1> QED  BY <1>1, <1>2, <1>3 DEF RootsJoinRows

\* Joining the ends of the next row joins the rows so far.
LEMMA NextRowJoins ==
    ASSUME PanelTyped(panel.rows), NEW m \in Nat, m < Len(Rows), NEW g, JoinsRows(g, m),
           NEW w \in Rows[m + 1].worker, NEW f \in Rows[m + 1].firm,
           NEW h, Joins(Nodes, g, h, WorkerNode(w), FirmNode(f))
    PROVE  JoinsRows(h, m + 1)
<1> DEFINE i == WorkerNode(w)
           j == FirmNode(f)
<1>1. 1..(m + 1) = 1..m \cup {m + 1}
  OBVIOUS
<1>2. DOMAIN Rows = 1..Len(Rows) /\ Len(Rows) \in Nat
      /\ \A v \in Rows[m + 1].worker : v = w
      /\ \A e \in Rows[m + 1].firm : e = f
  <2>1. /\ Rows \in Seq([worker : SUBSET DOMAIN WorkerPart,
                         firm : SUBSET DOMAIN FirmPart, outcome : SUBSET Int])
        /\ \A k \in DOMAIN Rows : /\ \A u, v \in Rows[k].worker : u = v
                                  /\ \A u, v \in Rows[k].firm : u = v
    BY Zenon DEF PanelTyped, Rows
  <2>2. DOMAIN Rows = 1..Len(Rows) /\ Len(Rows) \in Nat
    BY <2>1, LenProperties
  <2>3. m + 1 \in DOMAIN Rows
    BY <2>2
  <2> QED  BY <2>1, <2>2, <2>3
<1>3. /\ h[i] = h[j]
      /\ \A n, k \in Nodes : g[n] = g[k] => h[n] = h[k]
      /\ \A n, k \in Nodes : h[n] = h[k] => \/ g[n] = g[k]
                                            \/ g[n] = g[i] /\ g[k] = g[j]
                                            \/ g[n] = g[j] /\ g[k] = g[i]
  BY Zenon DEF Joins
<1>4. /\ \A k \in 1..m : \A v \in Rows[k].worker, e \in Rows[k].firm :
            g[WorkerNode(v)] = g[FirmNode(e)]
      /\ \A T \in SUBSET Nodes : Shut(T, m) =>
            \A n, k \in Nodes : g[n] = g[k] => (n \in T) = (k \in T)
  BY Zenon DEF JoinsRows
<1>5. i \in Nodes /\ j \in Nodes
  <2>1. m + 1 \in DOMAIN Rows
    BY <1>2
  <2> QED  BY <2>1, EndsAreNodes
<1>6. ASSUME NEW k \in 1..(m + 1), NEW v \in Rows[k].worker, NEW e \in Rows[k].firm
      PROVE  h[WorkerNode(v)] = h[FirmNode(e)]
  <2>1. CASE k = m + 1
    BY <1>2, <1>3, <2>1
  <2>2. CASE k \in 1..m
    <3>1. k \in DOMAIN Rows
      BY <1>2, <2>2
    <3>2. WorkerNode(v) \in Nodes /\ FirmNode(e) \in Nodes
      BY <3>1, EndsAreNodes
    <3> QED  BY <1>3, <1>4, <2>2, <3>2
  <2> QED  BY <1>1, <2>1, <2>2
<1>7. ASSUME NEW T \in SUBSET Nodes, Shut(T, m + 1),
             NEW n \in Nodes, NEW k \in Nodes, h[n] = h[k]
      PROVE  (n \in T) = (k \in T)
  <2>1. Shut(T, m)
    BY <1>1, <1>7 DEF Shut
  <2>2. (i \in T) = (j \in T)
    BY <1>7 DEF Shut
  <2>3. \A a, b \in Nodes : g[a] = g[b] => (a \in T) = (b \in T)
    BY <1>4, <2>1
  <2> QED  BY <1>3, <1>5, <1>7, <2>2, <2>3
<1> QED  BY <1>6, <1>7 DEF JoinsRows

\* A row linked keeps the forest one, its roots those of the rows so far.
LEMMA RowIsLinked ==
    ASSUME PanelTyped(panel.rows), RootsJoinRows, linked \in Nat, LinkRow
    PROVE  RootsJoinRows' /\ linked' \in 0..Len(Rows)
<1>1. /\ linked < Len(Rows) /\ linked' = linked + 1 /\ panel' = panel
      /\ \/ /\ Rows[linked + 1].worker = {} \/ Rows[linked + 1].firm = {}
            /\ parent' = parent
         \/ \E w \in Rows[linked + 1].worker, f \in Rows[linked + 1].firm :
               Union(WorkerNode(w), FirmNode(f))
  BY DEF LinkRow, forest
<1>2. Len(Rows) \in Nat /\ DOMAIN Rows = 1..Len(Rows)
  <2>1. Rows \in Seq([worker : SUBSET DOMAIN WorkerPart,
                      firm : SUBSET DOMAIN FirmPart, outcome : SUBSET Int])
    BY Zenon DEF PanelTyped, Rows
  <2> QED  BY <2>1, LenProperties
<1>3. PICK d, g : /\ Hangs(Nodes, parent, d) /\ Climbs(Nodes, parent, g)
                  /\ JoinsRows(g, linked)
  BY DEF RootsJoinRows
<1>4. Nodes' = Nodes /\ \A h, m : JoinsRows(h, m)' = JoinsRows(h, m)
  BY <1>1, PanelFrozen
<1>5. ASSUME NEW e, NEW h, Hangs(Nodes, parent', e), Climbs(Nodes, parent', h),
             JoinsRows(h, linked + 1)
      PROVE  RootsJoinRows'
  <2>0. PICK m : m = linked + 1
    OBVIOUS
  <2>1. JoinsRows(h, m)' /\ m = linked'
    BY <1>1, <1>4, <1>5, <2>0
  <2>2. Hangs(Nodes', parent', e) /\ Climbs(Nodes', parent', h)
    BY <1>4, <1>5
  <2>3. JoinsRows(h, linked)'
    BY ONLY <2>1 DEF JoinsRows, Shut
  <2> QED  BY ONLY <2>2, <2>3 DEF RootsJoinRows
<1>6. ASSUME Rows[linked + 1].worker = {} \/ Rows[linked + 1].firm = {}, parent' = parent
      PROVE  RootsJoinRows'
  <2>1. JoinsRows(g, linked + 1)
    <3>1. 1..(linked + 1) = 1..linked \cup {linked + 1}
      OBVIOUS
    <3>2. \A T : Shut(T, linked + 1) => Shut(T, linked)
      BY <3>1 DEF Shut
    <3> QED  BY <1>3, <1>6, <3>1, <3>2 DEF JoinsRows
  <2> QED  BY <1>3, <1>5, <1>6, <2>1
<1>7. ASSUME NEW w \in Rows[linked + 1].worker, NEW f \in Rows[linked + 1].firm,
             Union(WorkerNode(w), FirmNode(f))
      PROVE  RootsJoinRows'
  <2>1. WorkerNode(w) \in Nodes /\ FirmNode(f) \in Nodes
    <3>1. linked + 1 \in DOMAIN Rows
      BY <1>1, <1>2
    <3> QED  BY <3>1, EndsAreNodes
  <2>2. PICK e, h : /\ Hangs(Nodes, parent', e) /\ Climbs(Nodes, parent', h)
                    /\ Joins(Nodes, g, h, WorkerNode(w), FirmNode(f))
    BY <1>3, <1>7, <2>1, UnionJoins
  <2>3. JoinsRows(h, linked + 1)
    BY <1>1, <1>3, <2>2, NextRowJoins
  <2> QED  BY <1>5, <2>2, <2>3
<1> QED  BY <1>1, <1>2, <1>6, <1>7
-----------------------------------------------------------------------------
(* The components *)

\* g joins the rows of the whole panel.
AllJoined(g) ==
    /\ g \in [Nodes -> Nodes] /\ \A n \in Nodes : g[g[n]] = g[n]
    /\ JoinsRows(g, Len(Rows))
Under(g, r) == {n \in Nodes : g[n] = r}

\* Both ends of a row that links are with the same others.
LEMMA LinksStay ==
    ASSUME PanelTyped(panel.rows), NEW g, AllJoined(g), NEW i \in Links, NEW r,
           NEW w \in Rows[i].worker, NEW f \in Rows[i].firm
    PROVE  /\ (WorkerNode(w) \in Under(g, r)) = (FirmNode(f) \in Under(g, r))
           /\ (Ends(Rows[i]) \subseteq Under(g, r)) = (WorkerNode(w) \in Under(g, r))
<1>1. /\ i \in DOMAIN Rows
      /\ \A v \in Rows[i].worker : v = w
      /\ \A e \in Rows[i].firm : e = f
  <2>1. \A k \in DOMAIN Rows : /\ \A u, v \in Rows[k].worker : u = v
                               /\ \A u, v \in Rows[k].firm : u = v
    BY Zenon DEF PanelTyped, Rows
  <2> QED  BY <2>1 DEF Links
<1>2. DOMAIN Rows = 1..Len(Rows)
  <2>1. Rows \in Seq([worker : SUBSET DOMAIN WorkerPart,
                      firm : SUBSET DOMAIN FirmPart, outcome : SUBSET Int])
    BY Zenon DEF PanelTyped, Rows
  <2> QED  BY <2>1, LenProperties
<1>3. WorkerNode(w) \in Nodes /\ FirmNode(f) \in Nodes
  BY <1>1, EndsAreNodes
<1>4. g[WorkerNode(w)] = g[FirmNode(f)]
  BY <1>1, <1>2, Zenon DEF AllJoined, JoinsRows
<1>5. (WorkerNode(w) \in Under(g, r)) = (FirmNode(f) \in Under(g, r))
  BY <1>3, <1>4 DEF Under
<1>6. Ends(Rows[i]) = {WorkerNode(w), FirmNode(f)}
  BY <1>1 DEF Ends
<1>7. (Ends(Rows[i]) \subseteq Under(g, r)) = (WorkerNode(w) \in Under(g, r))
  <2> HIDE DEF Under
  <2> QED  BY ONLY <1>5, <1>6
<1> QED  BY <1>5, <1>7

\* A node that is no end of a row that links is alone.
LEMMA OthersAreAlone ==
    ASSUME PanelTyped(panel.rows), NEW g, AllJoined(g), NEW n \in Nodes,
           \A i \in Links : n \notin Ends(Rows[i])
    PROVE  Under(g, g[n]) = {n}
<1>1. DOMAIN Rows = 1..Len(Rows)
  <2>1. Rows \in Seq([worker : SUBSET DOMAIN WorkerPart,
                      firm : SUBSET DOMAIN FirmPart, outcome : SUBSET Int])
    BY Zenon DEF PanelTyped, Rows
  <2> QED  BY <2>1, LenProperties
<1>2. Shut({n}, Len(Rows))
  <2> SUFFICES ASSUME NEW i \in 1..Len(Rows), NEW w \in Rows[i].worker, NEW f \in Rows[i].firm
               PROVE  WorkerNode(w) # n /\ FirmNode(f) # n
    BY DEF Shut
  <2>1. i \in Links
    BY <1>1 DEF Links
  <2>2. WorkerNode(w) \in Ends(Rows[i]) /\ FirmNode(f) \in Ends(Rows[i])
    BY DEF Ends
  <2> QED  BY <2>1, <2>2
<1>3. \A m, k \in Nodes : g[m] = g[k] => (m \in {n}) = (k \in {n})
  <2>1. {n} \in SUBSET Nodes
    OBVIOUS
  <2> QED  BY ONLY <1>2, <2>1, AllJoined(g) DEF AllJoined, JoinsRows
<1> QED  BY <1>3 DEF Under

\* Where rows link, those of the component with the most members do.
LEMMA LargestLinks ==
    ASSUME PanelTyped(panel.rows), NEW g, AllJoined(g), Links # {}, NEW r \in Nodes,
           g[r] = r,
           \A q \in Nodes : Cardinality(Under(g, g[q])) <= Cardinality(Under(g, r))
    PROVE  \E i \in Links : Ends(Rows[i]) \subseteq Under(g, r)
<1>1. PICK i \in Links : TRUE
  OBVIOUS
<1>2. PICK w \in Rows[i].worker, f \in Rows[i].firm : TRUE
  BY DEF Links
<1>3. i \in DOMAIN Rows
  BY DEF Links
<1>4. /\ WorkerNode(w) \in Nodes /\ FirmNode(f) \in Nodes
      /\ WorkerNode(w) # FirmNode(f)
  BY <1>3, EndsAreNodes
<1> DEFINE D == Under(g, g[WorkerNode(w)])
<1>5. WorkerNode(w) \in D /\ FirmNode(f) \in D
  <2>1. WorkerNode(w) \in D
    BY <1>4 DEF Under
  <2> QED  BY <2>1, LinksStay
<1>6. \A q : IsFiniteSet(Under(g, q)) /\ Cardinality(Under(g, q)) \in Nat
  <2>1. IsFiniteSet(Nodes)
    <3>1. NWorkers \in Nat /\ NFirms \in Nat
      BY NodesAreTheirs
    <3> QED  BY <3>1, FS_Interval DEF Nodes
  <2>2. \A q : Under(g, q) \in SUBSET Nodes
    BY DEF Under
  <2> QED  BY <2>1, <2>2, FS_Subset, FS_CardinalityType
<1>7. Cardinality(D) # 1 /\ Cardinality(D) # 0
  <2>1. IsFiniteSet(D)
    BY <1>6
  <2> HIDE DEF D
  <2>2. D # {} /\ \A x : D # {x}
    BY <1>4, <1>5
  <2> QED  BY ONLY <2>1, <2>2, FS_Singleton, FS_EmptySet
<1>8. Cardinality(D) <= Cardinality(Under(g, r))
  BY <1>4
<1>9. Cardinality(Under(g, r)) # 1
  <2> HIDE DEF D
  <2>1. Cardinality(D) \in Nat
    BY <1>6 DEF D
  <2> QED  BY <1>6, <1>7, <1>8, <2>1
<1>10. Under(g, r) # {r}
  BY <1>9, FS_Singleton
<1>11. PICK k \in Links : r \in Ends(Rows[k])
  BY <1>10, OthersAreAlone
<1>12. PICK v \in Rows[k].worker, e \in Rows[k].firm : TRUE
  BY DEF Links
<1>13. r \in Under(g, r)
  BY DEF Under
<1>14. WorkerNode(v) \in Under(g, r)
  <2>1. k \in DOMAIN Rows
    BY DEF Links
  <2>2. \/ \E u \in Rows[k].worker : r = WorkerNode(u)
        \/ \E u \in Rows[k].firm : r = FirmNode(u)
    BY <1>11 DEF Ends
  <2>3. CASE \E u \in Rows[k].worker : r = WorkerNode(u)
    <3>1. PICK u \in Rows[k].worker : r = WorkerNode(u)
      BY <2>3
    <3>2. FirmNode(e) \in Under(g, r)
      BY <1>12, <1>13, <3>1, LinksStay
    <3> QED  BY <1>12, <3>2, LinksStay
  <2>4. CASE \E u \in Rows[k].firm : r = FirmNode(u)
    <3>1. PICK u \in Rows[k].firm : r = FirmNode(u)
      BY <2>4
    <3> QED  BY <1>12, <1>13, <3>1, LinksStay
  <2> QED  BY <2>2, <2>3, <2>4
<1> QED  BY <1>12, <1>14, LinksStay
-----------------------------------------------------------------------------
(* Workers and firms by name *)

\* The node of a worker or firm.
NodeOf(x) == IF x[1] = "worker" THEN WorkerNode(x[2]) ELSE FirmNode(x[2])
NamesOf(g, q) == {x \in Named : NodeOf(x) \in Under(g, q)}

\* A name is a worker's or a firm's.
LEMMA NamesAre ==
    /\ \A w : /\ (<<"worker", w>> \in Named) = (w \in Workers)
              /\ NodeOf(<<"worker", w>>) = WorkerNode(w)
    /\ \A f : /\ (<<"firm", f>> \in Named) = (f \in Firms)
              /\ NodeOf(<<"firm", f>>) = FirmNode(f)
    /\ \A x \in Named : \/ \E w \in Workers : x = <<"worker", w>>
                        \/ \E f \in Firms : x = <<"firm", f>>
<1>1. \A w : /\ (<<"worker", w>> \in Named) = (w \in Workers)
             /\ NodeOf(<<"worker", w>>) = WorkerNode(w)
  BY DEF Named, NodeOf
<1>2. \A f : /\ (<<"firm", f>> \in Named) = (f \in Firms)
             /\ NodeOf(<<"firm", f>>) = FirmNode(f)
  BY DEF Named, NodeOf
<1>3. \A x \in Named : \/ \E w \in Workers : x = <<"worker", w>>
                       \/ \E f \in Firms : x = <<"firm", f>>
  BY DEF Named
<1> QED  BY <1>1, <1>2, <1>3

\* Names have a node each.
LEMMA NamesHaveNodes ==
    ASSUME PanelTyped(panel.rows)
    PROVE  /\ \A x \in Named : NodeOf(x) \in Nodes
           /\ \A x, y \in Named : NodeOf(x) = NodeOf(y) => x = y
<1>1. /\ NWorkers \in Nat /\ NFirms \in Nat
      /\ \A w \in Workers : WorkerNode(w) \in 0..(NWorkers - 1)
      /\ \A f \in Firms : FirmNode(f) \in NWorkers..(NWorkers + NFirms - 1)
      /\ \A v, w \in Workers : WorkerNode(v) = WorkerNode(w) => v = w
      /\ \A f, h \in Firms : FirmNode(f) = FirmNode(h) => f = h
  BY NodesAreTheirs
<1>2. \A w \in Workers : WorkerNode(w) \in Nodes
  <2> TAKE w \in Workers
  <2>1. WorkerNode(w) \in 0..(NWorkers - 1)
    BY <1>1
  <2> QED  BY ONLY <1>1, <2>1 DEF Nodes
<1>3. \A f \in Firms : FirmNode(f) \in Nodes
  <2> TAKE f \in Firms
  <2>1. FirmNode(f) \in NWorkers..(NWorkers + NFirms - 1)
    BY <1>1
  <2> QED  BY ONLY <1>1, <2>1 DEF Nodes
<1>4. \A w \in Workers, f \in Firms : WorkerNode(w) # FirmNode(f)
  <2> TAKE w \in Workers, f \in Firms
  <2>1. WorkerNode(w) \in 0..(NWorkers - 1)
        /\ FirmNode(f) \in NWorkers..(NWorkers + NFirms - 1)
    BY <1>1
  <2> QED  BY ONLY <1>1, <2>1
<1>5. \A x \in Named : NodeOf(x) \in Nodes
  <2> TAKE x \in Named
  <2>1. CASE \E w \in Workers : x = <<"worker", w>>
    BY ONLY <2>1, <1>2, NamesAre
  <2>2. CASE \E f \in Firms : x = <<"firm", f>>
    BY ONLY <2>2, <1>3, NamesAre
  <2> QED  BY ONLY <2>1, <2>2, NamesAre, x \in Named
<1>6. ASSUME NEW x \in Named, NEW y \in Named, NodeOf(x) = NodeOf(y)
      PROVE  x = y
  <2>1. CASE \E w \in Workers : x = <<"worker", w>>
    <3>1. PICK w \in Workers : x = <<"worker", w>>
      BY <2>1
    <3>2. CASE \E v \in Workers : y = <<"worker", v>>
      <4>1. PICK v \in Workers : y = <<"worker", v>>
        BY <3>2
      <4>2. WorkerNode(w) = WorkerNode(v)
        BY ONLY <1>6, <3>1, <4>1, NamesAre
      <4> QED  BY ONLY <1>1, <3>1, <4>1, <4>2
    <3>3. CASE \E f \in Firms : y = <<"firm", f>>
      <4>1. PICK f \in Firms : y = <<"firm", f>>
        BY <3>3
      <4>2. WorkerNode(w) = FirmNode(f)
        BY ONLY <1>6, <3>1, <4>1, NamesAre
      <4> QED  BY ONLY <1>4, <4>2
    <3> QED  BY ONLY <3>2, <3>3, NamesAre, y \in Named
  <2>2. CASE \E f \in Firms : x = <<"firm", f>>
    <3>1. PICK f \in Firms : x = <<"firm", f>>
      BY <2>2
    <3>2. CASE \E v \in Workers : y = <<"worker", v>>
      <4>1. PICK v \in Workers : y = <<"worker", v>>
        BY <3>2
      <4>2. WorkerNode(v) = FirmNode(f)
        BY ONLY <1>6, <3>1, <4>1, NamesAre
      <4> QED  BY ONLY <1>4, <4>2
    <3>3. CASE \E e \in Firms : y = <<"firm", e>>
      <4>1. PICK e \in Firms : y = <<"firm", e>>
        BY <3>3
      <4>2. FirmNode(e) = FirmNode(f)
        BY ONLY <1>6, <3>1, <4>1, NamesAre
      <4> QED  BY ONLY <1>1, <3>1, <4>1, <4>2
    <3> QED  BY ONLY <3>2, <3>3, NamesAre, y \in Named
  <2> QED  BY ONLY <2>1, <2>2, NamesAre, x \in Named
<1> QED  BY <1>5, <1>6

\* No row leads out of the names under a root.
LEMMA NamesAreClosed ==
    ASSUME PanelTyped(panel.rows), NEW g, AllJoined(g), NEW q
    PROVE  NamesOf(g, q) \in Closed
<1>1. NamesOf(g, q) \in SUBSET Named
  BY DEF NamesOf
<1>2. ASSUME NEW i \in DOMAIN Rows, NEW w \in Rows[i].worker, NEW f \in Rows[i].firm
      PROVE  (<<"worker", w>> \in NamesOf(g, q)) = (<<"firm", f>> \in NamesOf(g, q))
  <2>1. i \in Links
    BY DEF Links
  <2>2. (WorkerNode(w) \in Under(g, q)) = (FirmNode(f) \in Under(g, q))
    BY <2>1, LinksStay
  <2>3. w \in Workers /\ f \in Firms
    BY EndsAreNodes
  <2>4. <<"worker", w>> \in Named /\ NodeOf(<<"worker", w>>) = WorkerNode(w)
        /\ <<"firm", f>> \in Named /\ NodeOf(<<"firm", f>>) = FirmNode(f)
    BY ONLY <2>3, NamesAre
  <2> QED  BY ONLY <2>2, <2>4 DEF NamesOf
<1> QED  BY ONLY <1>1, <1>2 DEF Closed

\* A set no row leads out of has, with a name, all under its root.
LEMMA ClosedIsWhole ==
    ASSUME PanelTyped(panel.rows), NEW g, AllJoined(g), NEW T \in Closed,
           NEW x \in T, NEW y \in Named, g[NodeOf(x)] = g[NodeOf(y)]
    PROVE  y \in T
<1> DEFINE M == {NodeOf(z) : z \in T}
<1>1. T \subseteq Named
  BY DEF Closed
<1>2. \A z \in Named : (NodeOf(z) \in M) = (z \in T)
  BY <1>1, NamesHaveNodes
<1>3. M \in SUBSET Nodes
  BY <1>1, NamesHaveNodes
<1>4. DOMAIN Rows = 1..Len(Rows)
  <2>1. Rows \in Seq([worker : SUBSET DOMAIN WorkerPart,
                      firm : SUBSET DOMAIN FirmPart, outcome : SUBSET Int])
    BY Zenon DEF PanelTyped, Rows
  <2> QED  BY <2>1, LenProperties
<1> HIDE DEF M
<1>5. ASSUME NEW i \in 1..Len(Rows), NEW w \in Rows[i].worker, NEW f \in Rows[i].firm
      PROVE  (WorkerNode(w) \in M) = (FirmNode(f) \in M)
  <2>1. w \in Workers /\ f \in Firms
    BY <1>4, EndsAreNodes
  <2>2. <<"worker", w>> \in Named /\ NodeOf(<<"worker", w>>) = WorkerNode(w)
        /\ <<"firm", f>> \in Named /\ NodeOf(<<"firm", f>>) = FirmNode(f)
    BY ONLY <2>1, NamesAre
  <2>3. (<<"worker", w>> \in T) = (<<"firm", f>> \in T)
    BY <1>4 DEF Closed
  <2> QED  BY ONLY <1>2, <2>2, <2>3
<1>6. Shut(M, Len(Rows))
  BY ONLY <1>5 DEF Shut
<1>7. NodeOf(x) \in Nodes /\ NodeOf(y) \in Nodes /\ x \in Named
  BY <1>1, NamesHaveNodes
<1>8. (NodeOf(x) \in M) = (NodeOf(y) \in M)
  BY <1>3, <1>6, <1>7, Zenon DEF AllJoined, JoinsRows
<1> QED  BY <1>2, <1>7, <1>8

\* A set in one piece is what is under one root.
LEMMA ConnectedIsUnder ==
    ASSUME PanelTyped(panel.rows), NEW g, AllJoined(g), NEW S \in ConnectedSets
    PROVE  \E n \in Nodes : S = NamesOf(g, g[n])
<1>1. S \in Closed /\ S # {} /\ \A T \in Closed : T # {} /\ T \subseteq S => T = S
  BY DEF ConnectedSets
<1>2. PICK x \in S : TRUE
  BY <1>1
<1>3. x \in Named /\ S \subseteq Named
  BY <1>1 DEF Closed
<1> DEFINE n == NodeOf(x)
<1>4. n \in Nodes
  BY <1>3, NamesHaveNodes
<1>5. \A y \in NamesOf(g, g[n]) : y \in S
  <2> TAKE y \in NamesOf(g, g[n])
  <2>1. y \in Named /\ g[NodeOf(x)] = g[NodeOf(y)]
    BY DEF NamesOf, Under
  <2> QED  BY <1>1, <1>2, <2>1, ClosedIsWhole
<1>6. x \in NamesOf(g, g[n])
  BY <1>3, <1>4 DEF NamesOf, Under
<1>7. NamesOf(g, g[n]) \in Closed
  BY NamesAreClosed
<1> HIDE DEF n
<1> QED  BY <1>1, <1>4, <1>5, <1>6, <1>7

\* What is under one root is in one piece, if anything named is.
LEMMA UnderIsConnected ==
    ASSUME PanelTyped(panel.rows), NEW g, AllJoined(g), NEW r, NamesOf(g, r) # {}
    PROVE  NamesOf(g, r) \in ConnectedSets
<1>1. NamesOf(g, r) \in Closed
  BY NamesAreClosed
<1>2. ASSUME NEW T \in Closed, T # {}, T \subseteq NamesOf(g, r)
      PROVE  T = NamesOf(g, r)
  <2>1. PICK x \in T : TRUE
    BY <1>2
  <2>2. g[NodeOf(x)] = r
    BY <1>2 DEF NamesOf, Under
  <2>3. \A y \in NamesOf(g, r) : y \in T
    <3> TAKE y \in NamesOf(g, r)
    <3>1. y \in Named /\ g[NodeOf(y)] = r
      BY DEF NamesOf, Under
    <3> QED  BY <2>1, <2>2, <3>1, ClosedIsWhole
  <2> QED  BY <1>2, <2>3
<1> QED  BY <1>1, <1>2 DEF ConnectedSets

\* There are no more names under a root than nodes.
LEMMA NamesCount ==
    ASSUME PanelTyped(panel.rows), NEW g, NEW q
    PROVE  /\ IsFiniteSet(NamesOf(g, q)) /\ IsFiniteSet(Under(g, q))
           /\ Cardinality(NamesOf(g, q)) \in Nat /\ Cardinality(Under(g, q)) \in Nat
           /\ Cardinality(NamesOf(g, q)) <= Cardinality(Under(g, q))
<1>1. IsFiniteSet(Under(g, q))
  <2>1. IsFiniteSet(Nodes)
    <3>1. NWorkers \in Nat /\ NFirms \in Nat
      BY NodesAreTheirs
    <3> QED  BY <3>1, FS_Interval DEF Nodes
  <2>2. Under(g, q) \in SUBSET Nodes
    BY DEF Under
  <2> QED  BY <2>1, <2>2, FS_Subset
<1> DEFINE Ns == NamesOf(g, q)
           U == Under(g, q)
           h == [x \in Ns |-> NodeOf(x)]
<1>2. \A x \in Ns : x \in Named /\ NodeOf(x) \in U
  BY DEF NamesOf
<1>3. \A x, y \in Ns : NodeOf(x) = NodeOf(y) => x = y
  BY <1>2, NamesHaveNodes
<1>4. h \in Injection(Ns, U)
  <2> HIDE DEF Ns, U
  <2> QED  BY ONLY <1>2, <1>3 DEF Injection, IsInjective
<1> HIDE DEF h, Ns, U
<1>5. IsFiniteSet(Ns) /\ Cardinality(Ns) <= Cardinality(U)
  <2>1. IsFiniteSet(U)
    BY <1>1 DEF U
  <2> QED  BY <2>1, <1>4, FS_Injection
<1> QED  BY <1>1, <1>5, FS_CardinalityType DEF Ns, U
-----------------------------------------------------------------------------
(* The rows of the largest component *)

\* The rows that link nodes under r, and the workers and firms of some rows.
RowsUnder(g, r) == {i \in Links : Ends(Rows[i]) \subseteq Under(g, r)}
WorkersOf(K) == UNION {Rows[i].worker : i \in K}
FirmsOf(K) == UNION {Rows[i].firm : i \in K}

\* Where a row links nodes of a component, every node of it is an end of one.
LEMMA EveryNodeIsAnEnd ==
    ASSUME PanelTyped(panel.rows), NEW g, AllJoined(g), NEW r, RowsUnder(g, r) # {},
           NEW n \in Under(g, r)
    PROVE  \E i \in RowsUnder(g, r) :
              \/ \E w \in Rows[i].worker : n = WorkerNode(w)
              \/ \E f \in Rows[i].firm : n = FirmNode(f)
<1>1. n \in Nodes /\ g[n] = r
  BY DEF Under
<1>2. PICK k \in Links : Ends(Rows[k]) \subseteq Under(g, r)
  BY DEF RowsUnder
<1>3. PICK v \in Rows[k].worker, e \in Rows[k].firm : TRUE
  BY DEF Links
<1>4. WorkerNode(v) # FirmNode(e)
  BY EndsAreNodes DEF Links
<1>5. WorkerNode(v) \in Under(g, r) /\ FirmNode(e) \in Under(g, r)
  BY <1>2, <1>3 DEF Ends
<1>6. Under(g, r) # {n}
  BY ONLY <1>4, <1>5
<1>7. PICK i \in Links : n \in Ends(Rows[i])
  BY <1>1, <1>6, OthersAreAlone
<1>8. PICK w \in Rows[i].worker, f \in Rows[i].firm : TRUE
  BY DEF Links
<1>9. \/ \E u \in Rows[i].worker : n = WorkerNode(u)
      \/ \E u \in Rows[i].firm : n = FirmNode(u)
  BY <1>7 DEF Ends
<1>10. WorkerNode(w) \in Under(g, r)
  <2>1. CASE \E u \in Rows[i].worker : n = WorkerNode(u)
    <3>1. PICK u \in Rows[i].worker : n = WorkerNode(u)
      BY <2>1
    <3>2. FirmNode(f) \in Under(g, r)
      BY <1>8, <3>1, LinksStay
    <3> QED  BY <1>8, <3>2, LinksStay
  <2>2. CASE \E u \in Rows[i].firm : n = FirmNode(u)
    <3>1. PICK u \in Rows[i].firm : n = FirmNode(u)
      BY <2>2
    <3> QED  BY <1>8, <3>1, LinksStay
  <2> QED  BY <1>9, <2>1, <2>2
<1>11. i \in RowsUnder(g, r)
  BY <1>8, <1>10, LinksStay DEF RowsUnder
<1> QED  BY <1>9, <1>11

\* A worker or a firm is on those rows when its node is in the component.
LEMMA TheirsAreUnder ==
    ASSUME PanelTyped(panel.rows), NEW g, AllJoined(g), NEW r, RowsUnder(g, r) # {}
    PROVE  /\ \A w : (w \in WorkersOf(RowsUnder(g, r)))
                        = (w \in Workers /\ WorkerNode(w) \in Under(g, r))
           /\ \A f : (f \in FirmsOf(RowsUnder(g, r)))
                        = (f \in Firms /\ FirmNode(f) \in Under(g, r))
<1> DEFINE K == RowsUnder(g, r)
<1>1. \A i \in K : i \in Links /\ i \in DOMAIN Rows /\ Ends(Rows[i]) \subseteq Under(g, r)
  BY DEF RowsUnder, Links
<1>2. ASSUME NEW w \in WorkersOf(K)
      PROVE  w \in Workers /\ WorkerNode(w) \in Under(g, r)
  <2>1. PICK i \in K : w \in Rows[i].worker
    BY DEF WorkersOf
  <2> QED  BY <1>1, <2>1 DEF Ends, Workers
<1>3. ASSUME NEW f \in FirmsOf(K)
      PROVE  f \in Firms /\ FirmNode(f) \in Under(g, r)
  <2>1. PICK i \in K : f \in Rows[i].firm
    BY DEF FirmsOf
  <2> QED  BY <1>1, <2>1 DEF Ends, Firms
<1>4. /\ \A w \in Workers : \A f \in Firms : WorkerNode(w) # FirmNode(f)
      /\ \A v, w \in Workers : WorkerNode(v) = WorkerNode(w) => v = w
      /\ \A f, e \in Firms : FirmNode(f) = FirmNode(e) => f = e
  <2>1. /\ NWorkers \in Nat /\ NFirms \in Nat
        /\ \A w \in Workers : WorkerNode(w) \in 0..(NWorkers - 1)
        /\ \A f \in Firms : FirmNode(f) \in NWorkers..(NWorkers + NFirms - 1)
        /\ \A v, w \in Workers : WorkerNode(v) = WorkerNode(w) => v = w
        /\ \A f, e \in Firms : FirmNode(f) = FirmNode(e) => f = e
    BY NodesAreTheirs
  <2>2. ASSUME NEW w \in Workers, NEW f \in Firms
        PROVE  WorkerNode(w) # FirmNode(f)
    <3>1. WorkerNode(w) \in 0..(NWorkers - 1)
          /\ FirmNode(f) \in NWorkers..(NWorkers + NFirms - 1)
      BY <2>1
    <3> QED  BY ONLY <2>1, <3>1
  <2> QED  BY <2>1, <2>2
<1>5. \A i \in K : /\ \A w \in Rows[i].worker : w \in WorkersOf(K) /\ w \in Workers
                   /\ \A f \in Rows[i].firm : f \in FirmsOf(K) /\ f \in Firms
  BY <1>1 DEF WorkersOf, FirmsOf, Workers, Firms
<1>6. ASSUME NEW w \in Workers, WorkerNode(w) \in Under(g, r)
      PROVE  w \in WorkersOf(K)
  <2>1. PICK i \in K : \/ \E v \in Rows[i].worker : WorkerNode(w) = WorkerNode(v)
                       \/ \E f \in Rows[i].firm : WorkerNode(w) = FirmNode(f)
    BY <1>6, EveryNodeIsAnEnd
  <2> HIDE DEF K
  <2> QED  BY ONLY <2>1, <1>4, <1>5, w \in Workers
<1>7. ASSUME NEW f \in Firms, FirmNode(f) \in Under(g, r)
      PROVE  f \in FirmsOf(K)
  <2>1. PICK i \in K : \/ \E w \in Rows[i].worker : FirmNode(f) = WorkerNode(w)
                       \/ \E e \in Rows[i].firm : FirmNode(f) = FirmNode(e)
    BY <1>7, EveryNodeIsAnEnd
  <2> HIDE DEF K
  <2> QED  BY ONLY <2>1, <1>4, <1>5, f \in Firms
<1> HIDE DEF K
<1>8. \A w : (w \in WorkersOf(K)) = (w \in Workers /\ WorkerNode(w) \in Under(g, r))
  <2> TAKE w
  <2>1. w \in WorkersOf(K) => w \in Workers /\ WorkerNode(w) \in Under(g, r)
    BY ONLY <1>2
  <2>2. w \in Workers /\ WorkerNode(w) \in Under(g, r) => w \in WorkersOf(K)
    BY ONLY <1>6
  <2> QED  BY ONLY <2>1, <2>2
<1>9. \A f : (f \in FirmsOf(K)) = (f \in Firms /\ FirmNode(f) \in Under(g, r))
  <2> TAKE f
  <2>1. f \in FirmsOf(K) => f \in Firms /\ FirmNode(f) \in Under(g, r)
    BY ONLY <1>3
  <2>2. f \in Firms /\ FirmNode(f) \in Under(g, r) => f \in FirmsOf(K)
    BY ONLY <1>7
  <2> QED  BY ONLY <2>1, <2>2
<1> QED  BY <1>8, <1>9 DEF K

\* The names of the rows K, the largest set when they are its rows.
NamesIn(K) == ({"worker"} \X WorkersOf(K)) \cup ({"firm"} \X FirmsOf(K))
LargestRows(K) ==
    /\ K \subseteq Links
    /\ NamesIn(K) \in ConnectedSets
    /\ \A S \in ConnectedSets : Cardinality(S) <= Cardinality(NamesIn(K))
    /\ K = {i \in Links : Rows[i].worker \subseteq WorkersOf(K)}

\* The rows under the root of the most nodes are those of a largest set.
LEMMA MostNodesMostNames ==
    ASSUME PanelTyped(panel.rows), NEW g, AllJoined(g), NEW r,
           \A q \in Nodes : Cardinality(Under(g, g[q])) <= Cardinality(Under(g, r)),
           RowsUnder(g, r) # {}
    PROVE  LargestRows(RowsUnder(g, r))
<1> DEFINE K == RowsUnder(g, r)
           Ns == NamesOf(g, r)
           C == Under(g, r)
<1>1. /\ \A w : (w \in WorkersOf(K)) = (w \in Workers /\ WorkerNode(w) \in C)
      /\ \A f : (f \in FirmsOf(K)) = (f \in Firms /\ FirmNode(f) \in C)
  BY TheirsAreUnder
<1>2. \A x \in NamesIn(K) : \/ \E w \in WorkersOf(K) : x = <<"worker", w>>
                            \/ \E f \in FirmsOf(K) : x = <<"firm", f>>
  BY DEF NamesIn
<1>3. /\ \A w \in WorkersOf(K) : <<"worker", w>> \in NamesIn(K)
      /\ \A f \in FirmsOf(K) : <<"firm", f>> \in NamesIn(K)
  BY DEF NamesIn
<1>4. \A x \in NamesIn(K) : x \in Ns
  <2> TAKE x \in NamesIn(K)
  <2>1. CASE \E w \in WorkersOf(K) : x = <<"worker", w>>
    BY ONLY <1>1, <2>1, NamesAre DEF NamesOf
  <2>2. CASE \E f \in FirmsOf(K) : x = <<"firm", f>>
    BY ONLY <1>1, <2>2, NamesAre DEF NamesOf
  <2> QED  BY ONLY <1>2, <2>1, <2>2, x \in NamesIn(K)
<1>5. \A x \in Ns : x \in NamesIn(K)
  <2> TAKE x \in Ns
  <2>1. x \in Named /\ NodeOf(x) \in C
    BY DEF NamesOf
  <2>2. CASE \E w \in Workers : x = <<"worker", w>>
    BY ONLY <1>1, <1>3, <2>1, <2>2, NamesAre
  <2>3. CASE \E f \in Firms : x = <<"firm", f>>
    BY ONLY <1>1, <1>3, <2>1, <2>3, NamesAre
  <2> QED  BY ONLY <2>1, <2>2, <2>3, NamesAre
<1>6. NamesIn(K) = Ns
  BY ONLY <1>4, <1>5
<1>7. \A n \in C : \E x \in Ns : NodeOf(x) = n
  <2> TAKE n \in C
  <2>1. PICK i \in K : \/ \E w \in Rows[i].worker : n = WorkerNode(w)
                       \/ \E f \in Rows[i].firm : n = FirmNode(f)
    BY EveryNodeIsAnEnd
  <2>2. CASE \E w \in Rows[i].worker : n = WorkerNode(w)
    <3>1. PICK w \in Rows[i].worker : n = WorkerNode(w)
      BY <2>2
    <3>2. w \in WorkersOf(K)
      BY <3>1 DEF WorkersOf
    <3> QED  BY ONLY <1>3, <1>6, <3>1, <3>2, NamesAre
  <2>3. CASE \E f \in Rows[i].firm : n = FirmNode(f)
    <3>1. PICK f \in Rows[i].firm : n = FirmNode(f)
      BY <2>3
    <3>2. f \in FirmsOf(K)
      BY <3>1 DEF FirmsOf
    <3> QED  BY ONLY <1>3, <1>6, <3>1, <3>2, NamesAre
  <2> QED  BY <2>1, <2>2, <2>3
<1>8. /\ IsFiniteSet(Ns) /\ Cardinality(Ns) \in Nat /\ Cardinality(C) \in Nat
  BY NamesCount
<1>9. Cardinality(C) <= Cardinality(Ns)
  <2> DEFINE h == [x \in Ns |-> NodeOf(x)]
  <2>1. \A x \in Ns : NodeOf(x) \in C
    BY DEF NamesOf
  <2>2. h \in Surjection(Ns, C)
    <3> HIDE DEF Ns, C
    <3> QED  BY ONLY <1>7, <2>1 DEF Surjection
  <2> HIDE DEF h, Ns, C
  <2> QED  BY ONLY <1>8, <2>2, FS_Surjection
<1>10. Ns # {}
  <2>1. PICK i \in K : TRUE
    OBVIOUS
  <2>2. PICK w \in Rows[i].worker : TRUE
    BY DEF RowsUnder, Links
  <2>3. w \in WorkersOf(K)
    BY <2>2 DEF WorkersOf
  <2> QED  BY ONLY <1>3, <1>6, <2>3
<1>11. Ns \in ConnectedSets
  BY <1>10, UnderIsConnected
<1>12. ASSUME NEW S \in ConnectedSets
       PROVE  Cardinality(S) <= Cardinality(Ns)
  <2>1. PICK n \in Nodes : S = NamesOf(g, g[n])
    BY ConnectedIsUnder
  <2>2. /\ Cardinality(S) \in Nat /\ Cardinality(Under(g, g[n])) \in Nat
        /\ Cardinality(S) <= Cardinality(Under(g, g[n]))
    BY <2>1, NamesCount
  <2>3. Cardinality(Under(g, g[n])) <= Cardinality(C)
    OBVIOUS
  <2> QED  BY ONLY <1>8, <1>9, <2>2, <2>3
<1>13. ASSUME NEW i \in Links
       PROVE  (i \in K) = (Rows[i].worker \subseteq WorkersOf(K))
  <2>1. PICK w \in Rows[i].worker, f \in Rows[i].firm : TRUE
    BY DEF Links
  <2>2. i \in DOMAIN Rows /\ \A v \in Rows[i].worker : v = w
    <3>1. \A k \in DOMAIN Rows : \A u, v \in Rows[k].worker : u = v
      BY Zenon DEF PanelTyped, Rows
    <3> QED  BY <3>1 DEF Links
  <2>3. (i \in K) = (WorkerNode(w) \in C)
    BY <2>1, LinksStay DEF RowsUnder
  <2>4. w \in Workers
    BY <2>1, <2>2, EndsAreNodes
  <2> HIDE DEF K, C
  <2>5. (i \in K) = (w \in WorkersOf(K))
    BY ONLY <1>1, <2>3, <2>4
  <2> QED  BY ONLY <2>1, <2>2, <2>5
<1>14. K \subseteq Links
  BY DEF RowsUnder
<1> HIDE DEF K, Ns, C
<1>15. K = {i \in Links : Rows[i].worker \subseteq WorkersOf(K)}
  BY ONLY <1>13, <1>14
<1> QED  BY <1>6, <1>11, <1>12, <1>14, <1>15 DEF LargestRows, K
-----------------------------------------------------------------------------
(* The kept rows and their effects *)

\* The kept rows are the rows K in order.
LEMMA KeptAre ==
    ASSUME PanelTyped(panel.rows), NEW K, K \subseteq Links, kept = Ascending(K)
    PROVE  /\ DOMAIN kept \subseteq Nat /\ \A k \in DOMAIN kept : kept[k] \in K
           /\ \A i \in K : \E k \in DOMAIN kept : kept[k] = i
           /\ KeptWorkers = WorkersOf(K) /\ KeptFirms = FirmsOf(K)
           /\ IsFiniteSet(Links) /\ Links \subseteq Int
<1>1. DOMAIN Rows = 1..Len(Rows) /\ Len(Rows) \in Nat
  <2>1. Rows \in Seq([worker : SUBSET DOMAIN WorkerPart,
                      firm : SUBSET DOMAIN FirmPart, outcome : SUBSET Int])
    BY Zenon DEF PanelTyped, Rows
  <2> QED  BY <2>1, LenProperties
<1>2. IsFiniteSet(Links) /\ Links \subseteq Int
  <2>1. IsFiniteSet(DOMAIN Rows) /\ DOMAIN Rows \subseteq Int
    BY <1>1, FS_Interval
  <2>2. Links \subseteq DOMAIN Rows
    BY DEF Links
  <2> QED  BY <2>1, <2>2, FS_Subset
<1>3. IsFiniteSet(K) /\ K \subseteq Int
  BY <1>2, FS_Subset
<1>4. /\ Cardinality(K) \in Nat
      /\ kept \in [1..Cardinality(K) -> K]
      /\ \A i \in K : \E k \in 1..Cardinality(K) : kept[k] = i
  BY <1>3, AscendingEnumerates
<1>5. /\ DOMAIN kept \subseteq Nat /\ \A k \in DOMAIN kept : kept[k] \in K
      /\ \A i \in K : \E k \in DOMAIN kept : kept[k] = i
  BY ONLY <1>4
<1>6. KeptWorkers = WorkersOf(K) /\ KeptFirms = FirmsOf(K)
  BY ONLY <1>5 DEF KeptWorkers, KeptFirms, WorkersOf, FirmsOf
<1> QED  BY <1>2, <1>5, <1>6

\* What the workers lack is with the firms, by one figure over a set in one
\* piece.
LEMMA OneLevel ==
    ASSUME PanelTyped(panel.rows), NEW K, LargestRows(K), NEW lack, NEW gain,
           \A i \in K : \A w \in Rows[i].worker, f \in Rows[i].firm : lack[w] = gain[f],
           NEW m \in FirmsOf(K)
    PROVE  /\ \A w \in WorkersOf(K) : lack[w] = gain[m]
           /\ \A f \in FirmsOf(K) : gain[f] = gain[m]
<1> DEFINE T == ({"worker"} \X {w \in WorkersOf(K) : lack[w] = gain[m]})
                  \cup ({"firm"} \X {f \in FirmsOf(K) : gain[f] = gain[m]})
<1>1. /\ K \subseteq Links
      /\ NamesIn(K) \in Closed
      /\ \A U \in Closed : U # {} /\ U \subseteq NamesIn(K) => U = NamesIn(K)
      /\ K = {i \in Links : Rows[i].worker \subseteq WorkersOf(K)}
  BY DEF LargestRows, ConnectedSets
<1>2. /\ \A w : (<<"worker", w>> \in NamesIn(K)) = (w \in WorkersOf(K))
      /\ \A f : (<<"firm", f>> \in NamesIn(K)) = (f \in FirmsOf(K))
  BY DEF NamesIn
<1>4. /\ \A w : (<<"worker", w>> \in T) = (w \in WorkersOf(K) /\ lack[w] = gain[m])
      /\ \A f : (<<"firm", f>> \in T) = (f \in FirmsOf(K) /\ gain[f] = gain[m])
  BY ONLY TRUE
<1>5. T \subseteq NamesIn(K) /\ T \subseteq Named
  <2>1. T \subseteq NamesIn(K)
    BY ONLY TRUE DEF NamesIn
  <2> QED  BY <1>1, <2>1 DEF Closed
<1> HIDE DEF T
<1>6. ASSUME NEW i \in DOMAIN Rows, NEW w \in Rows[i].worker, NEW f \in Rows[i].firm
      PROVE  (<<"worker", w>> \in T) = (<<"firm", f>> \in T)
  <2>1. i \in Links
    BY DEF Links
  <2>2. CASE i \in K
    <3>1. lack[w] = gain[f]
      BY <2>2
    <3>2. w \in WorkersOf(K) /\ f \in FirmsOf(K)
      BY <2>2 DEF WorkersOf, FirmsOf
    <3> QED  BY ONLY <1>4, <3>1, <3>2
  <2>3. CASE i \notin K
    <3>1. \A v \in Rows[i].worker : v = w
      <4>1. \A k \in DOMAIN Rows : \A u, v \in Rows[k].worker : u = v
        BY Zenon DEF PanelTyped, Rows
      <4> QED  BY <4>1
    <3>2. w \notin WorkersOf(K)
      BY ONLY <1>1, <2>1, <2>3, <3>1
    <3>3. (<<"worker", w>> \in NamesIn(K)) = (<<"firm", f>> \in NamesIn(K))
      BY <1>1 DEF Closed
    <3> QED  BY ONLY <1>2, <1>4, <3>2, <3>3
  <2> QED  BY <2>2, <2>3
<1>7. T \in Closed
  BY ONLY <1>5, <1>6 DEF Closed
<1>8. <<"firm", m>> \in T
  BY ONLY <1>4, m \in FirmsOf(K)
<1>9. T = NamesIn(K)
  BY ONLY <1>1, <1>5, <1>7, <1>8
<1> QED  BY ONLY <1>2, <1>4, <1>9

\* Settled effects are the parts, up to the first firm's level.
IsIdentified(e) ==
    LET ref == FirmPart[Min(KeptFirms)] IN
    /\ \A w \in KeptWorkers : e.worker[w] = WorkerPart[w] + ref
    /\ \A f \in KeptFirms : e.firm[f] = FirmPart[f] - ref

\* Every solution on a largest set is normalised to the parts.
LEMMA SettledEffects ==
    ASSUME PanelTyped(panel.rows), NEW K, LargestRows(K), kept = Ascending(K),
           NEW s \in Solutions
    PROVE  IsIdentified(Normalised(s))
<1>1. /\ DOMAIN kept \subseteq Nat /\ \A k \in DOMAIN kept : kept[k] \in K
      /\ \A i \in K : \E k \in DOMAIN kept : kept[k] = i
      /\ KeptWorkers = WorkersOf(K) /\ KeptFirms = FirmsOf(K)
      /\ IsFiniteSet(Links) /\ Links \subseteq Int
  BY KeptAre DEF LargestRows
<1>2. K \subseteq DOMAIN Rows
  BY DEF LargestRows, Links
<1>3. \A i \in DOMAIN Rows : /\ Rows[i].worker \subseteq DOMAIN WorkerPart
                             /\ Rows[i].firm \subseteq DOMAIN FirmPart
  <2>1. Rows \in Seq([worker : SUBSET DOMAIN WorkerPart,
                      firm : SUBSET DOMAIN FirmPart, outcome : SUBSET Int])
    BY Zenon DEF PanelTyped, Rows
  <2>2. \A i \in DOMAIN Rows :
            Rows[i] \in [worker : SUBSET DOMAIN WorkerPart,
                        firm : SUBSET DOMAIN FirmPart, outcome : SUBSET Int]
    BY ONLY <2>1, ElementOfSeq, LenProperties
  <2> QED  BY ONLY <2>2
<1>4. /\ KeptWorkers \subseteq DOMAIN WorkerPart /\ KeptFirms \subseteq DOMAIN FirmPart
  BY <1>1, <1>2, <1>3 DEF WorkersOf, FirmsOf
<1>5. PICK t \in [lack : [KeptWorkers -> Offsets], gain : [KeptFirms -> Offsets]] :
          /\ \A k \in DOMAIN kept :
                \A w \in Rows[kept[k]].worker, f \in Rows[kept[k]].firm :
                    t.lack[w] = t.gain[f]
          /\ s = [worker |-> [w \in KeptWorkers |-> WorkerPart[w] - t.lack[w]],
                  firm |-> [f \in KeptFirms |-> FirmPart[f] + t.gain[f]]]
  BY DEF Solutions
<1>6. KeptFirms # {} /\ IsFiniteSet(KeptFirms) /\ KeptFirms \subseteq Int
  <2>1. Firms \subseteq Int /\ IsFiniteSet(Firms)
    BY NodesAreTheirs
  <2>2. KeptFirms \subseteq Firms
    BY <1>1, <1>2 DEF FirmsOf, Firms
  <2>3. NamesIn(K) # {}
    BY DEF LargestRows, ConnectedSets
  <2>4. WorkersOf(K) # {} \/ FirmsOf(K) # {}
    BY ONLY <2>3 DEF NamesIn
  <2>5. K # {}
    BY ONLY <2>4 DEF WorkersOf, FirmsOf
  <2>6. FirmsOf(K) # {}
    <3>1. PICK i \in K : TRUE
      BY <2>5
    <3>2. PICK f \in Rows[i].firm : TRUE
      BY DEF LargestRows, Links
    <3> QED  BY <3>1, <3>2 DEF FirmsOf
  <2> QED  BY <1>1, <2>1, <2>2, <2>6, FS_Subset
<1> DEFINE m == Min(KeptFirms)
<1>7. m \in KeptFirms
  BY <1>6, MinIsIn
<1> HIDE DEF m
<1>8. /\ \A w \in KeptWorkers : t.lack[w] = t.gain[m]
      /\ \A f \in KeptFirms : t.gain[f] = t.gain[m]
  <2>1. \A i \in K : \A w \in Rows[i].worker, f \in Rows[i].firm :
            t.lack[w] = t.gain[f]
    BY ONLY <1>1, <1>5
  <2> QED  BY <1>1, <1>7, <2>1, OneLevel
<1>9. \A f \in KeptFirms : t.gain[f] \in Int
  BY <1>5, PartsTyped
<1>10. /\ \A w \in KeptWorkers : WorkerPart[w] \in Int
       /\ \A f \in KeptFirms : FirmPart[f] \in Int
  BY <1>4, PartsTyped
<1>11. /\ \A w \in KeptWorkers : s.worker[w] = WorkerPart[w] - t.gain[m]
       /\ \A f \in KeptFirms : s.firm[f] = FirmPart[f] + t.gain[m]
  BY ONLY <1>5, <1>8
<1>12. /\ \A w \in KeptWorkers : Normalised(s).worker[w] = s.worker[w] + s.firm[m]
       /\ \A f \in KeptFirms : Normalised(s).firm[f] = s.firm[f] - s.firm[m]
  BY ONLY TRUE DEF Normalised, m
<1>13. /\ \A w \in KeptWorkers : Normalised(s).worker[w] = WorkerPart[w] + FirmPart[m]
       /\ \A f \in KeptFirms : Normalised(s).firm[f] = FirmPart[f] - FirmPart[m]
  BY ONLY <1>7, <1>9, <1>10, <1>11, <1>12
<1> QED  BY <1>13 DEF IsIdentified, m
-----------------------------------------------------------------------------
(* The largest set is kept *)

\* The inductive invariant: while rows are being linked the roots of the
\* forest join those linked, then what is kept are the rows of a largest set.
SetIsKept ==
    /\ PanelTyped(panel.rows)
    /\ step = "link" => /\ RootsJoinRows /\ linked \in 0..Len(Rows)
                        /\ fault = ""
    /\ step \in {"index", "demean", "regress", "recover", "done"} =>
          \E K : LargestRows(K) /\ kept = Ascending(K)
    /\ step = "done" => IsIdentified(effects)
    /\ fault \in {"empty graph", "no connected set"} => Links = {}

\* So is the largest set a matter of the panel.
LEMMA SetsFrozen ==
    ASSUME panel' = panel
    PROVE  /\ PanelTyped(panel.rows)' = PanelTyped(panel.rows)
           /\ \A K : LargestRows(K)' = LargestRows(K)
<1>1. Rows' = Rows /\ Workers' = Workers /\ Firms' = Firms /\ Links' = Links
  BY PanelFrozen
<1>2. Named' = Named
  BY ONLY <1>1 DEF Named
<1>3. Closed' = Closed
  BY ONLY <1>1, <1>2 DEF Closed
<1>4. ConnectedSets' = ConnectedSets
  BY ONLY <1>3 DEF ConnectedSets
<1>5. \A K : LargestRows(K)' = LargestRows(K)
  <2> TAKE K
  <2>1. WorkersOf(K)' = WorkersOf(K) /\ FirmsOf(K)' = FirmsOf(K)
    BY ONLY <1>1 DEF WorkersOf, FirmsOf
  <2>2. NamesIn(K)' = NamesIn(K)
    BY ONLY <2>1 DEF NamesIn
  <2> QED  BY ONLY <1>1, <1>4, <2>1, <2>2 DEF LargestRows
<1>6. PanelTyped(panel.rows)' = PanelTyped(panel.rows)
  BY ONLY panel' = panel DEF PanelTyped
<1> QED  BY <1>5, <1>6

\* Refused later than the choice of the set, for another reason.
LEMMA FailingKeeps ==
    ASSUME SetIsKept, NEW e, Fail(e), e \in {"empty graph", "no connected set"} => Links = {}
    PROVE  SetIsKept'
<1>1. panel' = panel /\ fault' = e /\ step' = "refused"
  BY DEF Fail
<1>2. Links' = Links /\ PanelTyped(panel.rows)' = PanelTyped(panel.rows)
  BY <1>1, PanelFrozen, SetsFrozen
<1> QED  BY <1>1, <1>2, Zenon DEF SetIsKept

\* What keeps the panel and what is kept, once it is, keeps the rows' set.
LEMMA StepKeepsSet ==
    ASSUME SetIsKept, panel' = panel, kept' = kept, fault' = fault,
           step \in {"index", "demean", "regress", "recover"},
           step' \in {"demean", "regress", "recover"}
    PROVE  SetIsKept'
<1>1. Links' = Links /\ PanelTyped(panel.rows)' = PanelTyped(panel.rows)
      /\ \A K : LargestRows(K)' = LargestRows(K)
  BY PanelFrozen, SetsFrozen
<1>2. PICK K : LargestRows(K) /\ kept = Ascending(K)
  BY DEF SetIsKept
<1>3. LargestRows(K)' /\ kept' = Ascending(K)
  BY <1>1, <1>2
<1>4. (\E U : LargestRows(U) /\ kept = Ascending(U))'
  BY ONLY <1>3
<1>5. step' # "link" /\ step' # "done"
  OBVIOUS
<1>6. PanelTyped(panel.rows)' /\ (fault' \in {"empty graph", "no connected set"} => Links' = {})
  BY <1>1 DEF SetIsKept
<1> QED  BY ONLY <1>4, <1>5, <1>6 DEF SetIsKept

\* The rows of the component with the most nodes are the largest set's.
LEMMA KeepLargestKeeps ==
    ASSUME SetIsKept, KeepLargest
    PROVE  SetIsKept'
<1>1. /\ PanelTyped(panel.rows) /\ RootsJoinRows /\ linked = Len(Rows) /\ fault = ""
  BY DEF SetIsKept, KeepLargest
<1>2. CASE Nodes = {} /\ Fail("empty graph")
  <2>1. Links = {}
    <3> SUFFICES ASSUME NEW i \in Links PROVE FALSE
      OBVIOUS
    <3>1. PICK w \in Rows[i].worker, f \in Rows[i].firm : TRUE
      BY DEF Links
    <3>2. WorkerNode(w) \in Nodes
      BY <1>1, <3>1, EndsAreNodes DEF Links
    <3> QED  BY <1>2, <3>2
  <2> QED  BY <1>2, <2>1, FailingKeeps
<1>3. CASE \E r \in LargestRoots :
              \/ RowsWithin(Component(r)) = <<>> /\ Fail("no connected set")
              \/ /\ RowsWithin(Component(r)) # <<>>
                 /\ kept' = RowsWithin(Component(r))
                 /\ step' = "index"
                 /\ UNCHANGED <<panel, fault>>
  <2>1. PICK r \in LargestRoots :
              \/ RowsWithin(Component(r)) = <<>> /\ Fail("no connected set")
              \/ /\ RowsWithin(Component(r)) # <<>>
                 /\ kept' = RowsWithin(Component(r))
                 /\ step' = "index"
                 /\ UNCHANGED <<panel, fault>>
    BY <1>3
  <2>2. PICK d, g : /\ Hangs(Nodes, parent, d) /\ Climbs(Nodes, parent, g)
                    /\ JoinsRows(g, linked)
    BY <1>1 DEF RootsJoinRows
  <2>3. Root = g
    BY <2>2, RootIs, RootOfIs
  <2>4. AllJoined(g)
    <3>1. g \in [Nodes -> Nodes]
      BY <2>2 DEF Climbs
    <3>2. \A n \in Nodes : g[g[n]] = g[n]
      BY <2>2, RootsStand
    <3> QED  BY <1>1, <2>2, <3>1, <3>2 DEF AllJoined
  <2>5. \A q : Component(q) = Under(g, q)
    BY <2>3 DEF Component, Under
  <2>6. /\ r \in Nodes /\ g[r] = r
        /\ \A q \in Nodes : Cardinality(Under(g, g[q])) <= Cardinality(Under(g, r))
    BY <2>3, <2>5 DEF LargestRoots
  <2> DEFINE K == RowsUnder(g, r)
  <2>7. RowsWithin(Component(r)) = Ascending(K)
    BY <2>5 DEF RowsWithin, RowsUnder
  <2>8. (Ascending(K) = <<>>) => K = {}
    <3>1. IsFiniteSet(Links) /\ Links \subseteq Int
      <4>1. Rows \in Seq([worker : SUBSET DOMAIN WorkerPart,
                          firm : SUBSET DOMAIN FirmPart, outcome : SUBSET Int])
        BY <1>1, Zenon DEF PanelTyped, Rows
      <4>2. IsFiniteSet(DOMAIN Rows) /\ DOMAIN Rows \subseteq Int
        BY <4>1, LenProperties, FS_Interval
      <4>3. Links \subseteq DOMAIN Rows
        BY DEF Links
      <4> QED  BY <4>2, <4>3, FS_Subset
    <3>2. IsFiniteSet(K) /\ K \subseteq Int
      BY <3>1, FS_Subset DEF RowsUnder
    <3> HIDE DEF K
    <3>3. Len(Ascending(K)) = Cardinality(K)
      BY <3>2, AscendingIsASequence
    <3>4. Ascending(K) = <<>> => Cardinality(K) = 0
      BY <3>3, EmptySeq
    <3> QED  BY <3>2, <3>4, FS_EmptySet
  <2>9. K = {} => Links = {}
    <3>1. Links # {} => \E i \in Links : Ends(Rows[i]) \subseteq Under(g, r)
      BY <1>1, <2>4, <2>6, LargestLinks
    <3> QED  BY <3>1 DEF RowsUnder
  <2>10. Ascending({}) = <<>>
    BY FS_EmptySet DEF Ascending
  <2>11. CASE RowsWithin(Component(r)) = <<>> /\ Fail("no connected set")
    <3>1. Links = {}
      BY <2>7, <2>8, <2>9, <2>11
    <3> QED  BY <2>11, <3>1, FailingKeeps
  <2>12. CASE /\ RowsWithin(Component(r)) # <<>>
              /\ kept' = RowsWithin(Component(r))
              /\ step' = "index"
              /\ UNCHANGED <<panel, fault>>
    <3>1. K # {}
      BY <2>7, <2>10, <2>12
    <3>2. LargestRows(K)
      BY <1>1, <2>4, <2>6, <3>1, MostNodesMostNames
    <3>3. PICK U : U = K
      OBVIOUS
    <3>4. /\ LargestRows(U)' = LargestRows(U)
          /\ PanelTyped(panel.rows)' = PanelTyped(panel.rows)
      BY <2>12, SetsFrozen
    <3>5. LargestRows(U)' /\ kept' = Ascending(U)
      BY <2>7, <2>12, <3>2, <3>3, <3>4
    <3>6. (\E V : LargestRows(V) /\ kept = Ascending(V))'
      BY ONLY <3>5
    <3>7. PanelTyped(panel.rows)' /\ step' = "index" /\ fault' = ""
      BY <1>1, <2>12, <3>4
    <3> QED  BY ONLY <3>6, <3>7 DEF SetIsKept
  <2> QED  BY <2>1, <2>11, <2>12
<1> QED  BY <1>2, <1>3 DEF KeepLargest

\* What settled effects are normalised to.
LEMMA RecoveredKeeps ==
    ASSUME SetIsKept, Recovered
    PROVE  SetIsKept'
<1>1. CASE Fail("recover did not converge")
  BY <1>1, FailingKeeps
<1>2. CASE /\ \E s \in Solutions : effects' = Normalised(s)
           /\ step' = "done"
           /\ UNCHANGED <<panel, fault, kept>>
  <2>1. PICK s \in Solutions : effects' = Normalised(s)
    BY <1>2
  <2>2. PICK K : LargestRows(K) /\ kept = Ascending(K)
    BY DEF SetIsKept, Recovered
  <2>3. PanelTyped(panel.rows)
    BY DEF SetIsKept
  <2>4. IsIdentified(Normalised(s))
    BY <2>2, <2>3, SettledEffects
  <2>5. PICK e : e = Normalised(s)
    OBVIOUS
  <2>6. IsIdentified(e)
    BY <2>4, <2>5
  <2>7. Rows' = Rows /\ Links' = Links /\ PanelTyped(panel.rows)' = PanelTyped(panel.rows)
        /\ \A U : LargestRows(U)' = LargestRows(U)
    BY <1>2, PanelFrozen, SetsFrozen
  <2>8. KeptWorkers' = KeptWorkers /\ KeptFirms' = KeptFirms
    BY <1>2, <2>7 DEF KeptWorkers, KeptFirms
  <2>9. IsIdentified(e)' = IsIdentified(e)
    BY ONLY <2>8 DEF IsIdentified
  <2>10. IsIdentified(effects)'
    <3>1. effects' = e
      BY <2>1, <2>5
    <3>2. IsIdentified(e)'
      BY <2>6, <2>9
    <3> QED  BY ONLY <3>1, <3>2 DEF IsIdentified
  <2>11. (\E U : LargestRows(U) /\ kept = Ascending(U))'
    <3>1. LargestRows(K)' /\ kept' = Ascending(K)
      BY <1>2, <2>2, <2>7
    <3> QED  BY ONLY <3>1
  <2>12. PanelTyped(panel.rows)' /\ (fault' \in {"empty graph", "no connected set"} => Links' = {})
    BY <1>2, <2>3, <2>7 DEF SetIsKept
  <2>13. step' = "done"
    BY <1>2
  <2> QED  BY ONLY <2>10, <2>11, <2>12, <2>13 DEF SetIsKept
<1> QED  BY <1>1, <1>2 DEF Recovered

\* The analysis the command does not run leaves it alone.
LEMMA SetUntouched ==
    ASSUME SetIsKept, UNCHANGED akmVars
    PROVE  SetIsKept'
<1>1. panel' = panel /\ step' = step /\ fault' = fault /\ linked' = linked
      /\ parent' = parent /\ kept' = kept /\ effects' = effects
  BY DEF akmVars, forest, loop
<1>2. /\ Rows' = Rows /\ Nodes' = Nodes /\ Links' = Links
      /\ PanelTyped(panel.rows)' = PanelTyped(panel.rows)
      /\ \A U : LargestRows(U)' = LargestRows(U)
      /\ \A g, m : JoinsRows(g, m)' = JoinsRows(g, m)
  BY <1>1, PanelFrozen, SetsFrozen
<1>3. RootsJoinRows => RootsJoinRows'
  <2> SUFFICES ASSUME RootsJoinRows PROVE RootsJoinRows'
    OBVIOUS
  <2>1. PICK d, g : /\ Hangs(Nodes, parent, d) /\ Climbs(Nodes, parent, g)
                    /\ JoinsRows(g, linked)
    BY DEF RootsJoinRows
  <2>2. PICK m : m = linked
    OBVIOUS
  <2>3. JoinsRows(g, m)' /\ linked' = m
    BY <1>1, <1>2, <2>1, <2>2
  <2>4. Hangs(Nodes', parent', d) /\ Climbs(Nodes', parent', g)
    BY <1>1, <1>2, <2>1
  <2>5. JoinsRows(g, linked)'
    BY ONLY <2>3 DEF JoinsRows
  <2> QED  BY ONLY <2>4, <2>5 DEF RootsJoinRows
<1>4. KeptWorkers' = KeptWorkers /\ KeptFirms' = KeptFirms
  BY <1>1, <1>2 DEF KeptWorkers, KeptFirms
<1>5. IsIdentified(effects)' = IsIdentified(effects)
  BY ONLY <1>1, <1>4 DEF IsIdentified
<1>6. step \in {"index", "demean", "regress", "recover", "done"} =>
          (\E K : LargestRows(K) /\ kept = Ascending(K))'
  <2> SUFFICES ASSUME step \in {"index", "demean", "regress", "recover", "done"}
               PROVE  (\E K : LargestRows(K) /\ kept = Ascending(K))'
    OBVIOUS
  <2>1. PICK K : LargestRows(K) /\ kept = Ascending(K)
    BY DEF SetIsKept
  <2>2. LargestRows(K)' /\ kept' = Ascending(K)
    BY <1>1, <1>2, <2>1
  <2> QED  BY ONLY <2>2
<1>7. /\ PanelTyped(panel.rows)'
      /\ step' = "link" => /\ RootsJoinRows' /\ linked' \in 0..Len(Rows')
                           /\ fault' = ""
      /\ step' = "done" => IsIdentified(effects)'
      /\ fault' \in {"empty graph", "no connected set"} => Links' = {}
  BY <1>1, <1>2, <1>3, <1>5 DEF SetIsKept
<1> QED  BY ONLY <1>1, <1>6, <1>7 DEF SetIsKept

\* Of every step of a program, one of the estimation or one that leaves it alone.
LEMMA AkmSteps ==
    ASSUME [CommandLineNext]_allVars
    PROVE  AkmNext \/ UNCHANGED akmVars
BY DEF CommandLineNext, allVars, Analyse, CheckMainOptions, ReadData, Configure,
   ExitWith, GoTo, Untouched, AnalysisFails, Deliver, Write, WriteFails,
   NextQuantile, Succeed, Over

\* Whoever calls, the panel is what it is to be and no row is linked.
LEMMA SetInit == CommandLineInit => SetIsKept
<1> SUFFICES ASSUME CommandLineInit PROVE SetIsKept
  OBVIOUS
<1>1. PanelTyped(panel.rows)
  <2>1. CASE Analysis # "akm"
    <3>1. panel = NoPanel
      BY <2>1 DEF CommandLineInit, Only
    <3>2. panel.rows = <<>>
      BY <3>1 DEF NoPanel
    <3>3. PanelTyped(<<>>)
      BY EmptySeq DEF PanelTyped
    <3> QED  BY <3>2, <3>3
  <2>2. CASE LibraryCall /\ Analysis = "akm"
    <3>1. panel \in AkmCalls
      BY <2>2 DEF LibraryCall
    <3> QED  BY <3>1, AkmCallsTyped
  <2>3. CASE CommandCall /\ Analysis = "akm"
    <3>1. asked \in Commands /\ panel = PanelOf(asked)
      BY <2>3 DEF CommandCall
    <3>2. panel.rows = asked.rows
      BY <3>1 DEF PanelOf
    <3>3. asked.verb \in {"run", "report"}
          /\ asked.type \in {"mean", "quantile", "akm", "match"}
          /\ (asked.type = "akm" => PanelTyped(asked.rows))
      BY <3>1, CommandsTyped
    <3>4. asked.type = "akm"
      BY <2>3, <3>3 DEF Analysis, AnalysisOf
    <3> QED  BY <3>2, <3>3, <3>4
  <2> QED  BY <2>1, <2>2, <2>3 DEF CommandLineInit
<1>2. step = "link" /\ fault = "" /\ linked = 0 /\ parent = [n \in Nodes |-> n]
  BY DEF CommandLineInit, AkmInit
<1>3. RootsJoinRows
  BY <1>2, NothingJoined
<1>4. Len(Rows) \in Nat
  <2>1. Rows \in Seq([worker : SUBSET DOMAIN WorkerPart,
                      firm : SUBSET DOMAIN FirmPart, outcome : SUBSET Int])
    BY <1>1, Zenon DEF PanelTyped, Rows
  <2> QED  BY <2>1, LenProperties
<1>5. linked \in 0..Len(Rows)
  <2>1. linked = 0
    BY <1>2
  <2> QED  BY ONLY <1>4, <2>1
<1> QED  BY ONLY <1>1, <1>2, <1>3, <1>5 DEF SetIsKept

\* The invariant is inductive.
LEMMA SetNext == SetIsKept /\ [CommandLineNext]_allVars => SetIsKept'
<1> SUFFICES ASSUME SetIsKept, [CommandLineNext]_allVars PROVE SetIsKept'
  OBVIOUS
<1>1. CASE LinkRow
  <2>1. PanelTyped(panel.rows) /\ RootsJoinRows /\ linked \in Nat
    <3>1. PanelTyped(panel.rows) /\ RootsJoinRows /\ linked \in 0..Len(Rows)
      BY <1>1 DEF SetIsKept, LinkRow
    <3> QED  BY ONLY <3>1
  <2>2. RootsJoinRows' /\ linked' \in 0..Len(Rows)
    BY <1>1, <2>1, RowIsLinked
  <2>3. panel' = panel /\ step' = "link" /\ fault' = ""
    BY <1>1 DEF LinkRow, SetIsKept
  <2>4. Rows' = Rows /\ PanelTyped(panel.rows)' = PanelTyped(panel.rows)
    BY <2>3, PanelFrozen, SetsFrozen
  <2>5. PanelTyped(panel.rows)' /\ linked' \in 0..Len(Rows')
    BY <2>1, <2>2, <2>4
  <2> QED  BY ONLY <2>2, <2>3, <2>5 DEF SetIsKept
<1>2. CASE KeepLargest
  BY <1>2, KeepLargestKeeps
<1>3. CASE ReadColumns
  <2>1. CASE Fail("null outcome")
    BY <2>1, FailingKeeps
  <2>2. CASE step' = "demean" /\ UNCHANGED <<panel, fault, kept>>
    BY <1>3, <2>2, StepKeepsSet DEF ReadColumns
  <2> QED  BY <1>3, <2>1, <2>2 DEF ReadColumns
<1>4. CASE Demean \/ Recover
  BY <1>4, StepKeepsSet DEF Demean, Recover, Iterate
<1>5. CASE Demeaned
  <2>1. CASE Fail("demean did not converge")
    BY <2>1, FailingKeeps
  <2>2. CASE step' \in {"demean", "regress"} /\ UNCHANGED <<panel, fault, kept>>
    BY <1>5, <2>2, StepKeepsSet DEF Demeaned
  <2> QED  BY <1>5, <2>1, <2>2 DEF Demeaned
<1>6. CASE Regress
  <2>1. CASE Fail("singular design")
    BY <2>1, FailingKeeps
  <2>2. CASE step' = "recover" /\ UNCHANGED <<panel, fault, kept>>
    BY <1>6, <2>2, StepKeepsSet DEF Regress
  <2> QED  BY <1>6, <2>1, <2>2 DEF Regress
<1>7. CASE Recovered
  BY <1>7, RecoveredKeeps
<1>8. CASE UNCHANGED akmVars
  BY <1>8, SetUntouched
<1> QED  BY <1>1, <1>2, <1>3, <1>4, <1>5, <1>6, <1>7, <1>8, AkmSteps DEF AkmNext

\* For every panel: what is analysed is a connected set of workers and firms
\* that no other outnumbers, with all the rows between its members, and the
\* effects reported for it are the parts its outcomes were made of, whichever
\* solution the iteration settled on.
THEOREM LargestSetStays == CommandLineSpec => []LargestSetIsIdentified
<1>1. ASSUME SetIsKept PROVE LargestSetIsIdentified
  <2>1. ASSUME step = "index"
        PROVE  LET within == ({"worker"} \X KeptWorkers) \cup ({"firm"} \X KeptFirms) IN
               /\ within \in ConnectedSets
               /\ \A S \in ConnectedSets : Cardinality(S) <= Cardinality(within)
               /\ kept = Ascending({i \in Links : Rows[i].worker \subseteq KeptWorkers})
    <3>1. PICK K : LargestRows(K) /\ kept = Ascending(K)
      BY <1>1, <2>1 DEF SetIsKept
    <3>2. KeptWorkers = WorkersOf(K) /\ KeptFirms = FirmsOf(K)
      BY <1>1, <3>1, KeptAre DEF SetIsKept, LargestRows
    <3> QED  BY <3>1, <3>2 DEF LargestRows, NamesIn
  <2>2. step = "done" => IsIdentified(effects)
    BY <1>1 DEF SetIsKept
  <2>3. fault \in {"empty graph", "no connected set"} => Links = {}
    BY <1>1 DEF SetIsKept
  <2> QED  BY <2>1, <2>2, <2>3
           DEF LargestSetIsIdentified, ConnectedSetIsLargest, EffectsAreIdentified, IsIdentified
<1> QED  BY <1>1, SetInit, SetNext, PTL DEF CommandLineSpec
=============================================================================
