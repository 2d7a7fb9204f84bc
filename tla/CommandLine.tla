---------------------------- MODULE CommandLine ----------------------------
(***************************************************************************)
(* oaxaca-cli (oaxaca_blinder/src/main.rs) over the analyses of the crate: *)
(* the options of a command become the configuration of one analysis, the  *)
(* analysis runs, its figures are written to the files asked for, and the  *)
(* quantile command does so once for every quantile. A program may also    *)
(* call an analysis itself: the simulated quantile decomposition and the   *)
(* engine's matrices have no command.                                      *)
(*                                                                         *)
(* The analyses are Decomposition (on Preparation), Akm, Matching and      *)
(* Quantile; a call uses one of them and the others stay as they start.    *)
(* What a call is given is laid out from its beginning and not touched     *)
(* before "analyse". Quantiles are in thousandths. What is written is the  *)
(* number of the quantile it is about, 0 when the write stopped half-way;  *)
(* what a path held before the command is not told from nothing.           *)
(***************************************************************************)
EXTENDS Decomposition, Akm, Matching, Quantile

CONSTANTS
    Commands,  \* the command lines
    MaxIters   \* AkmBuilder's own limit on the iterations

\* The options a command may leave out, next to those with a default.
Options == {"data", "group", "reference", "outcome", "formula", "weights",
            "weights-kind", "worker-id", "firm-id", "selection-outcome",
            "selection-predictors", "output-json", "output-markdown"}

\* A report is a mean analysis. The rounding of a quantile that lies between
\* two hundredths is left out.
ASSUME CommandsTyped == \A c \in Commands :
    /\ c.verb \in {"run", "report"}
    /\ c.type \in {"mean", "quantile", "akm", "match"}
    /\ c.given \subseteq Options
    /\ c.readable \in BOOLEAN /\ c.experimental \in BOOLEAN
    /\ c.formula.sides \in Nat /\ c.formula.named \in BOOLEAN
    /\ c.normalization \in {"population-share", "equal-share", "none"}
    /\ c.verb = "report" => c.type = "mean"
    /\ c.type \in {"mean", "quantile"} => FileTyped(c.file)
    /\ c.type = "akm" => PanelTyped(c.rows)
    /\ c.reference \in Int
    /\ \A s \in {c.numeric, c.cats, c.selectors, c.formula.numeric, c.formula.cats} :
           s \in Seq(ColumnNames)
    /\ c.quantiles \in Seq(Int)
    /\ \A k \in DOMAIN c.quantiles : c.quantiles[k] % 10 # 5
    /\ c.neighbors \in Nat
    /\ c.sample \in Seq([treat : SUBSET Int, x : SUBSET (Int \X Int),
                         y : SUBSET Int])

VARIABLES
    asked,    \* the command, or which analysis a program calls
    at,       \* where the command is
    exit,     \* its exit status, {} before there is one
    turn,     \* which quantile it is at
    pending,  \* files still to be written at this turn
    written   \* path -> what it holds

cliVars == <<asked, at, exit, turn, pending, written>>
allVars == <<vars, akmVars, matchVars, quantileVars, cliVars>>

-----------------------------------------------------------------------------
(* What a command asks for *)

Given(c, option) == option \in c.given
Usable(c) == c.verb # "run" \/ c.type \in {"mean", "quantile"} \/ c.experimental

\* The analysis of a call.
AnalysisOf(c) ==
    CASE c.verb = "report" -> "builder"
      [] c.verb = "run" /\ c.type \in {"mean", "quantile"} -> "builder"
      [] c.verb = "run" /\ c.type \in {"akm", "match"} -> c.type
      [] c.verb = "library" -> c.type
Analysis == AnalysisOf(asked)

\* clap's requirements and check_main_options.
MisusedOptions(c) ==
    \/ ~({"data", "group", "reference"} \subseteq c.given)
    \/ Given(c, "weights") # Given(c, "weights-kind")

\* outcome_name: a formula need only have something left of its first tilde.
\* A report takes no formula.
OutcomeNamed(c) ==
    \/ Given(c, "outcome")
    \/ c.verb = "run" /\ Given(c, "formula") /\ c.formula.named

\* Formula::parse
FormulaFails(f) ==
    f.sides # 2 \/ ~f.named \/ (f.numeric = <<>> /\ f.cats = <<>>)

\* The mean analysis alone reads the right-hand side of a formula.
ByFormula(c) == c.verb = "run" /\ c.type = "mean" /\ Given(c, "formula")

ConfigurationFails(c) ==
    /\ c.verb = "run"
    /\ \/ ByFormula(c) /\ FormulaFails(c.formula)
       \/ c.type = "mean" /\ Given(c, "selection-outcome")
          /\ ~Given(c, "selection-predictors")
       \/ c.type = "akm" /\ ~({"worker-id", "firm-id"} \subseteq c.given)

\* The configured builder. A report has no weights, prices at group B and is
\* normalised by the population.
AskOf(c) ==
    LET source == IF ByFormula(c) THEN c.formula ELSE c
        plain == c.verb = "report"
        weighted == Given(c, "weights") /\ ~plain
        selecting == ~plain /\ c.type = "mean" /\ Given(c, "selection-outcome")
    IN  [path |-> IF ~plain /\ c.type = "quantile" THEN "quantile" ELSE "run",
         numeric |-> source.numeric, cats |-> source.cats,
         weights |-> IF weighted THEN c.weights ELSE NoColumn,
         kind |-> IF weighted THEN c.kind ELSE "unstated",
         selection |-> IF selecting THEN c.selection ELSE NoColumn,
         selectors |-> IF selecting THEN c.selectors ELSE <<>>,
         reference |-> c.reference,
         scheme |-> IF plain THEN "GroupB" ELSE c.scheme,
         normalize |-> IF ~plain /\ c.normalization = "none" THEN {}
                       ELSE ToSet(source.cats),
         convention |-> IF ~plain /\ c.normalization = "equal-share"
                        THEN "equal" ELSE "population"]

\* AkmBuilder with the predictors as controls, and the matching engine.
PanelOf(c) ==
    [rows |-> c.rows, controls |-> Len(c.numeric), limit |-> MaxIters]
QueryOf(c) ==
    [sample |-> c.sample, k |-> c.neighbors,
     method |-> IF c.method \in {"psm", "mahalanobis"} THEN c.method
                ELSE "euclidean",
     typed |-> c.typed]

NoAsk == [path |-> "none", numeric |-> <<>>, cats |-> <<>>,
          weights |-> NoColumn, kind |-> "unstated",
          selection |-> NoColumn, selectors |-> <<>>, reference |-> 0,
          scheme |-> "GroupB", normalize |-> {}, convention |-> "population"]
NoPanel == [rows |-> <<>>, controls |-> 0, limit |-> 0]
NoQuery == [sample |-> <<>>, k |-> 0, method |-> "euclidean", typed |-> "whole"]
NoStudy == [data |-> <<>>, base |-> 0, quantiles |-> <<>>, simulations |-> 0,
            reps |-> 0, threads |-> 1, fits |-> <<>>, tape |-> <<>>]

-----------------------------------------------------------------------------
(* The files *)

Quantiles(c) == IF c.verb = "library" \/ c.type # "quantile" THEN <<>>
                ELSE IF c.quantiles = <<>> THEN <<100, 250, 500, 750, 900>>
                ELSE c.quantiles
Hundredths(q) == (q + 5) \div 10

\* Mutant: every quantile is written to the path given.
JsonPath_Given(c, k) == <<"json">>

\* Of several quantiles, each has its own file, named by two decimals.
JsonPath(c, k) ==
    IF Len(Quantiles(c)) > 1 THEN <<"json", Hundredths(Quantiles(c)[k])>>
    ELSE <<"json">>

\* The files of one turn, in the order they are written; an AKM estimation
\* is only printed.
Files(c, k) ==
    LET Json == IF Given(c, "output-json") THEN <<JsonPath(c, k)>> ELSE <<>>
        Markdown == IF Given(c, "output-markdown") THEN <<<<"markdown">>>>
                    ELSE <<>>
    IN  CASE c.verb = "report" -> <<<<"html">>>>
          [] c.verb = "run" /\ c.type = "mean" -> Json \o Markdown
          [] c.verb = "run" /\ c.type \in {"quantile", "match"} -> Json
          [] c.verb = "run" /\ c.type = "akm" -> <<>>

-----------------------------------------------------------------------------
(* The calls *)

Only(components) ==
    /\ "builder" \notin components => file = <<>> /\ ask = NoAsk
    /\ "akm" \notin components => panel = NoPanel
    /\ "match" \notin components => query = NoQuery
    /\ "simulated" \notin components => study = NoStudy

LibraryCall ==
    /\ \E type \in {"builder", "akm", "match", "simulated"} :
          asked = [verb |-> "library", type |-> type]
    /\ at = "analyse"
    /\ Analysis = "builder" => Inputs
    /\ Analysis = "akm" => panel \in AkmCalls
    /\ Analysis = "match" => query \in MatchCalls
    /\ Analysis = "simulated" => study \in QuantileCalls

CommandCall ==
    /\ asked \in Commands /\ (at = "start")
    /\ Analysis = "builder" => file = asked.file /\ ask = AskOf(asked)
    /\ Analysis = "akm" => panel = PanelOf(asked)
    /\ Analysis = "match" => query = QueryOf(asked)

CommandLineInit ==
    /\ LibraryCall \/ CommandCall
    /\ Only({Analysis})
    /\ exit = {} /\ turn = 1 /\ pending = <<>> /\ written = <<>>
    /\ PassStart /\ AkmInit /\ MatchInit /\ QuantileInit

Untouched == UNCHANGED <<vars, akmVars, matchVars, quantileVars>>

ExitWith(status) ==
    /\ exit' = {status} /\ at' = "exited"
    /\ Untouched /\ UNCHANGED <<asked, turn, pending, written>>

GoTo(place) ==
    /\ at' = place
    /\ Untouched /\ UNCHANGED <<asked, exit, turn, pending, written>>

CheckMainOptions ==
    /\ at = "start"
    /\ IF MisusedOptions(asked) THEN ExitWith(2) ELSE GoTo("read")

\* The outcome's name, the file, and whether this build has the analysis.
ReadData ==
    /\ at = "read"
    /\ IF ~OutcomeNamed(asked) \/ ~asked.readable \/ ~Usable(asked)
       THEN ExitWith(1) ELSE GoTo("configure")

Configure ==
    /\ at = "configure"
    /\ IF ConfigurationFails(asked) THEN ExitWith(1) ELSE GoTo("analyse")

\* A step of the analysis called.
Analyse ==
    /\ at = "analyse"
    /\ \/ /\ Analysis = "builder" /\ PassNext
          /\ UNCHANGED <<akmVars, matchVars, quantileVars>>
       \/ /\ Analysis = "akm" /\ AkmNext
          /\ UNCHANGED <<vars, matchVars, quantileVars>>
       \/ /\ Analysis = "match" /\ MatchNext
          /\ UNCHANGED <<vars, akmVars, quantileVars>>
       \/ /\ Analysis = "simulated" /\ QuantileNext
          /\ UNCHANGED <<vars, akmVars, matchVars>>
    /\ UNCHANGED cliVars

Place ==
    CASE Analysis = "builder" -> stage
      [] Analysis = "akm" -> step
      [] Analysis = "match" -> leg
      [] Analysis = "simulated" -> phase

IsCommand == asked.verb # "library"

AnalysisFails ==
    /\ at = "analyse" /\ IsCommand /\ Place = "refused"
    /\ ExitWith(1)

Deliver ==
    /\ at = "analyse" /\ IsCommand /\ Place = "done"
    /\ pending' = Files(asked, turn)
    /\ at' = "write"
    /\ Untouched /\ UNCHANGED <<asked, exit, turn, written>>

\* What the next file is left with.
WriteNext(content) ==
    written' = [p \in DOMAIN written \cup {Head(pending)} |->
                   IF p = Head(pending) THEN content ELSE written[p]]

Write ==
    /\ at = "write" /\ pending # <<>>
    /\ WriteNext(turn)
    /\ pending' = Tail(pending)
    /\ Untouched /\ UNCHANGED <<asked, at, exit, turn>>

\* The file cannot be opened, or is left half-written.
WriteFails ==
    /\ at = "write" /\ pending # <<>>
    /\ \/ UNCHANGED written
       \/ WriteNext(0)
    /\ exit' = {1} /\ at' = "exited"
    /\ Untouched /\ UNCHANGED <<asked, turn, pending>>

\* A builder of its own for the next quantile.
NextQuantile ==
    /\ at = "write" /\ pending = <<>> /\ turn < Len(Quantiles(asked))
    /\ turn' = turn + 1 /\ at' = "analyse"
    /\ stage' = "check" /\ refusal' = <<>>
    /\ frame' = file /\ excluded' = <<>> /\ encoded' = 0 /\ dummies' = <<>>
    /\ groups' = <<>> /\ selected' = <<>> /\ matrices' = <<>> /\ pooled' = <<>>
    /\ mills' = <<>> /\ fit' = <<>> /\ shares' = <<>> /\ betas' = <<>> /\ star' = <<>>
    /\ result' = <<>>
    /\ UNCHANGED <<inputs, akmVars, matchVars, quantileVars,
                   asked, exit, pending, written>>

Succeed ==
    /\ at = "write" /\ pending = <<>> /\ turn >= Len(Quantiles(asked))
    /\ ExitWith(0)

\* The process, or the call, is over.
Over ==
    /\ at = "exited" \/ (~IsCommand /\ Place \in {"done", "refused"})
    /\ UNCHANGED allVars

CommandLineNext ==
    \/ CheckMainOptions \/ ReadData \/ Configure \/ Analyse \/ AnalysisFails
    \/ Deliver \/ Write \/ WriteFails \/ NextQuantile \/ Succeed \/ Over

CommandLineSpec == CommandLineInit /\ [][CommandLineNext]_allVars

-----------------------------------------------------------------------------
(* Properties *)

\* A command that exits with 0 has put every figure it was asked for in a
\* file: for every quantile there is a whole file of a quantile the same to
\* two decimals, and there are as many as differ in them. One that fails
\* leaves those of the quantiles before, but for the one file it may leave
\* half-written; one that fails before it has analysed anything leaves none.
\* Quantiles share one option for their files and write them one after
\* another (main.rs:426-464).
OutputsAreTheirs ==
    LET whole == {p \in DOMAIN written : written[p] # 0}
        taus == Quantiles(asked)
        Same(j, k) == Hundredths(taus[j]) = Hundredths(taus[k])
        complete == IF exit = {0} THEN Len(taus) ELSE turn - 1
    IN  at = "exited" =>
        /\ Cardinality(DOMAIN written \ whole) <= IF exit = {0} THEN 0 ELSE 1
        /\ taus # <<>> /\ Given(asked, "output-json") =>
              /\ \A k \in 1..complete :
                    \/ \E p \in whole : Same(written[p], k)
                    \/ exit = {1} /\ Same(turn, k)
              /\ exit = {0} => Cardinality(whole) =
                    Cardinality({Hundredths(taus[k]) : k \in DOMAIN taus})
        /\ exit = {0} /\ taus = <<>> =>
              DOMAIN written = ToSet(Files(asked, 1))
        /\ stage # "done" /\ turn = 1 /\ Analysis = "builder" => written = <<>>
=============================================================================
