# Formal models of oaxaca-blinder-rs

This directory holds TLA+ models of the repository's own control logic, TLC
configurations that check them on small instances, and TLAPS proofs that carry
the most important results to every value of the constants. Paths such as
`engine/src/analysis.rs` are relative to the repository root; `PROJECT.json`
maps each definition that models code to the lines it models.

1. [The system](#1-the-system)
2. [Modules and plan](#2-modules-and-plan)
3. [The models](#3-the-models)
4. [The runs](#4-the-runs)
5. [The proofs](#5-the-proofs)
6. [Where code and documentation disagree](#6-where-code-and-documentation-disagree)
7. [What is not modelled](#7-what-is-not-modelled)

## 1. The system

The repository computes Oaxaca-Blinder decompositions of the pay gap between a
reference group and a compared group, and builds pay-equity remedies on top.
There are four ways in:

| Entry | Crate | What it does |
|---|---|---|
| library | `oaxaca_blinder` | decompositions, bootstrap, quantile / matching / AKM / other estimators |
| `oaxaca-cli` | `oaxaca_blinder/src/main.rs` | one decomposition from the command line |
| `meridian-mcp` | `meridian-mcp` | a JSON-RPC (MCP) server, on standard input or HTTP, whose tools call the engine |
| WASM engine | `engine` (`pay-equity-engine`) | the same analyses from a browser, and the week-over-week diff session |

The CLI and the engine call the library; the MCP server and the browser call
the engine. The engine's analyses are stateless calls: the file, the request
and, for a replay, the ledger of saved adjustments all come from the caller.
State lives in few places: in the diff session (between its calls), in the two
bootstrap loops (across workers), in the server's session table and rate limiter
(between requests), in the files a command writes and, outside the programs, in
what a release has published.

### Inventory

| Component | State it keeps | Operations | What is hard | What makes it correct |
|---|---|---|---|---|
| **Snapshot diff session** `engine/src/snapshot_diff.rs` | pinned kinds, one slot of cells per subject, tombstones, a resident-cell count kept by hand, per-column scratch arrays valid only under an epoch stamp, the seal | `set_pinned`, `seed`, `seed_empty`, `seal`, `diff_batch`, `diff_vanished` | a call that throws midway keeps what it took; a subject seen twice; scratch left half written; NaN | the reports add up to the difference of the two weeks, each subject is settled at most once, memory only falls and the drain empties it |
| **Snapshot diff wire** `snapshot_diff_wasm.rs` | the session behind a handle | packing into typed arrays | layouts | (partly: the calls and the report are the session's) |
| **Remedy** `engine/src/analysis.rs` (`optimize_inner`) | the running sums of one call | validate, fit, classify rows, find the path's peak, derive a budget, pay, report | sums taken in two orders; a payment can lower the pooled gap; three budgets in one cap; 0 means "no cap" for one of them | nobody is paid past the line, budgets hold, the largest shortfalls come first, the budget is the least that reaches the goal |
| **Efficient frontier** `analysis.rs` (`calculate_efficient_frontier_inner`) | payment queue, cursor, current wages across the points of an axis | price the remedy, walk the axis | state carried from step to step; a payment cut by a step; two sorts that must agree | a point is the schedule its budget would buy |
| **Verification of a schedule** `analysis.rs` (`verify_inner`) | none | resolve each adjustment to a row, pay, decompose | the file has changed since the schedule was saved | (with row keys) |
| **Row keys** `engine/src/row_key.rs` | none; the keys are saved by the client | choose a key column, digest contents, resolve | corrections between saving and replaying: rows inserted, removed, moved, made alike; the chosen column changes | an adjustment never lands on a neighbour, and is lost only for a reason |
| **Row accounting** `rows.rs` (both crates) | none | align matrices with file rows, count the excluded | positions shift after an exclusion | every figure is for the row it names |
| **Defensibility** `defensibility.rs` | none | merge a schedule per row, apply overrides, score | one row named twice, by index and by key | it pays what the verification pays |
| **Support diagnostics** `support.rs` | none | leverage, ranges, quantiles | floating-point algebra | - |
| **Bootstrap** `oaxaca_blinder/src/builder.rs`, `rng.rs`, `inference.rs` | chunk bounds, a worker pool's tasks, the folded estimates | draw, run the pass, fold, aggregate | a work-stealing pool; failed replicates; percentile positions with few estimates; weighted draws on boundaries | the result is the sequential one whatever the pool does; memory is bounded; intervals are interior |
| **Decomposition builder** `builder.rs` | the frame and its options | check groups, clean, encode, split, confine levels, prepare matrices, decompose | columns held together by position only; a level present only with weight zero; two sets of weights | rows and matrices stay aligned; a refusal is due; one population prices and restricts |
| **Estimation, decompositions, OLS, weights** | none | linear algebra | floating point; what is done around the fits: denominators, rows put together afterwards | the parts add up to the gap, under every pricing |
| **Normalisation** `math/normalization.rs` | none | re-centre categorical coefficients | the level without a column | the detail does not depend on which level has none |
| **Quantile decomposition** `quantile_decomposition.rs` | the places of the replicates, the folded estimates | choose the groups, one pass, replicate, fold, summarise | every replicate is given to the pool at once; a blank group cell; labels that collide | the sequential result; two different groups are compared |
| **Matching** `matching/*` | counts by control row | split, metric, tree, neighbours, weights | counts kept by place among the controls and read for rows of the file; ties; blanks | a weight is the share of the row's own matches, and the weights add up |
| **AKM** `akm.rs` | a union-find forest that each search rewrites | link, keep the largest set, demean, regress, recover | sets of the same size, blanks that count as nodes, loops that use up their iterations | the set kept is connected and largest, and the effects on it are identified |
| **Other estimators** (DFL, JMP, probit, logit, KDE) | none | numerical iterations | convergence | - |
| **Command line** `main.rs` | the files it writes | require, read, configure, analyse, write, once per quantile | a write fails between two quantiles; options that say nothing to an analysis | exit status 0 means every file asked for is there and whole |
| **MCP server** `meridian-mcp/src/main.rs` | session table, rate limiter, blocking threads | read, admit, authenticate, dispatch, answer, delete | handlers interleave on a shared table; clients drop; calls panic; one stream of answers on standard output, whose reader one bad line ends | every request up to that line is settled, in order on standard output; no session outlives its deletion or is lost |
| **Release workflow** `.github/workflows/release.yml`, `scripts/` | the registry, the release pages, the documentation branch | jobs of several tags that fail and are run again | a publication cannot be undone; answers that are lost; runs that push one branch | nothing is published before its checks, the newest book is on top, what is published is announced |

Beside these, the source stamp (a hash computed at build time), the engine
boundary (conversions) and the `crossterm` stub hold no state.

## 2. Modules and plan

| Module | Models | Uses |
|---|---|---|
| `SnapshotDiff` | the diff session | `WeekLedger`, its abstract specification |
| `Remedy` | `optimize_inner` | - |
| `Frontier` | `calculate_efficient_frontier_inner` | EXTENDS `Remedy`: the frontier prices the remedy by running it |
| `Preparation` | the builder from a file to its two groups, on both paths; the engine's pooled design | - |
| `Decomposition` | one pass: regressions' refusals, normalisation, pricing, the decompositions | EXTENDS `Preparation` |
| `Bootstrap` | the chunked parallel bootstrap | `Replicates`, its abstract specification |
| `Akm` | the worker-firm graph and the effects on its largest connected set | `Positions` |
| `Matching` | matching weights by three methods | - |
| `Quantile` | the simulated quantile decomposition and its unchunked loop | `Replicates` |
| `CommandLine` | a call of any analysis, by a program or by `oaxaca-cli` | EXTENDS `Decomposition`, `Akm`, `Matching`, `Quantile` |
| `McpServer` | both transports of the server | - |
| `RowKeys` | row keys, the rows analysed, the replay of a schedule by two calls | - |
| `Release` | the release workflow and what it publishes | - |
| `*_proofs` | TLAPS proofs about the module they name (`Remedy_proofs` about `Frontier` too, `CommandLine_proofs` about `Preparation`, `Decomposition`, `Quantile`, `Matching` and `Akm` too) | EXTENDS it |
| `Positions` | positions in a sequence, in their order, as `Preparation`, `Matching`, `Quantile` and `Akm` select them | - |
| `Sums` | lemmas about sums, subsets and numbers that those proofs share | - |
| `MC*` | instances for TLC | EXTENDS the module they name |

The diff session came first, since it holds the most state; then the remedy, which
decides who is paid what, and the frontier, which repeats it; the bootstrap and
the server, where steps interleave; the row keys, which join a saved schedule to
a file that changes under it; `Preparation` and `Decomposition`, which the other
analyses take as given; and last the analyses beside them, with the command line
that composes them, and the release.

What comes next, in order:

1. **Proofs** for `Decomposition` (the detail does not depend on the base).
2. **The categorical indicators** of `Quantile`.
3. **The wire** of the diff session: the packing of batches and reports into typed
   arrays, as a refinement of the session's calls.

Statements in comments worth running against the code as these are built:
`engine/src/types.rs:300-301` (a goal out of reach pays every eligible shortfall: on
the pooled line the schedule stops at the path's peak, as `docs/src/reference/mcp.md:75`
has it),
`engine/src/types.rs:583` (an unresolved key means the file no longer holds the
row: also so when the key's source changes), `engine/src/row_key.rs:27` (rows
that swap places keep their keys: with a column that counts them, too),
`engine/src/types.rs:594` (excluded adjustments are counted one by one: the
scoring call counts merged ones), `quantile_decomposition.rs:352` (the frame is
cleaned first: blanks stay, section 3), `builder.rs` around 1460 (a bootstrap never
holds all its replicates: the quantile loop does), `main.rs:445-447` (the suffix keeps
the files of several quantiles apart: two decimals do not tell 0.251 from 0.249),
`scripts/deploy-book.sh` (0.3.1 replaces the pages of 0.3.0: whoever deploys last does), `math/weights.rs:7-9` and `builder.rs:563` (a frequency weight of 2
is the row twice: `ols` compares the number of rows, not of employees, with that
of the columns, so it may refuse the one where it accepts the other).

## 3. The models

### SnapshotDiff

State: `pinned`, `order` (slots in seed order), `taken` (tombstones), `cells`,
`resident`, `initial`, `sealed`, and the four scratch values `epoch`,
`priorEpoch`, `priorIdx`, `rowEpoch`, as in `Session` and `PriorState`. `call`
is the call in progress; `report`, `log` and `seeded` are history: what the host
has received, every lookup of a slot, and the week that was seeded.

`SetPinned`, `SeedEmpty`, `Seed` and `Seal` are the set-up calls. `DiffRow` is
one iteration of `diff_batch`'s row loop and `DiffReturn` its return;
`VanishCall`, `VanishSkip`, `VanishTake` and `VanishReturn` are the same for
`diff_vanished`. A call excludes every other (it holds `&mut Session`), yet a
step per iteration is needed: a row that throws ends the call and leaves the
session as the earlier rows made it. The four branches of the row loop are
`Branch1`, the silent equal cell, `Branch3` and `Branch4`.

Abstractions: values are kept to the classes `split_value` and `js_strict_eq`
tell apart (numbers, texts, inert values, values equal to nothing); a seed chunk
is seeded a cell at a time; a report is the set of changes with their place in
the emission order. `Protocol` makes the host keep the documented order (seed,
seal, diff).

`WeekLedger` is what the session promises about subjects: each enters once, and
is settled or forfeited at most once, call by call.

### Remedy

State: the roster (pay, fair pay, half-width and weight per row, all outputs of
the regression and so inputs here) and the request, then `phase` with the rows
its loop has `todo`, and the function's own accumulators: `listed`, `eligible`,
`excluded`, the two needs, the gap, the `walk`, `best`, `peak`, the `rule`, the
`cap`, the payments and the `result`.

Actions follow the function from top to bottom: `Refuse`, `FitFails`, `FitLine`;
`ReadCompared`, `TurnToReference`, `ReadReference`, one row per step in matrix
order; `StartWalk`, `WalkOn`, `Decide`, which find the path's peak and the
target rule; `Pass` and `Cross`, the pooled Greedy search for the goal;
`SetCap`; `PayRow`, in pay order; `Report`.

Abstractions: money is whole dollars; the gap is a sum over the compared rows
(the code's mean times their number), a weight the code's times their number;
a derived budget is a fraction and payments are counted in parts of a dollar, so
all sums are exact, and the code's tolerances are exact comparisons. Three
values that can be absent in the code (goal, caps, peak budget) are sets of at
most one element.

### Frontier

Extends `Remedy` with a request for an axis. `Optimize` runs the remedy's own
steps inside the call (uncapped, without a goal); `FitPooled` builds the queue
from the schedule; `GreedyStep`, `PayWhole`, `PayPart`, `GreedyPoint` are the
loop that spends each step's money from a queue that outlives the step, and
`EquitablePoint` the strategy that starts afresh at every point. The regression
at a point is left out: it is a function of the wages, which are checked.

### Preparation

State: `frame`, the builder's data frame, as a function from columns to sequences,
so that the cells of a row are held together by their position alone, as they
are in the code; `excluded`, `dummies`, `groups`, `matrices`, and the engine's
`pooled` design with the slot of each row ordinal.

`CheckGroups` reads the file as it is; `Clean` drops the incomplete rows, checks the
weights and lists the excluded; `Encode` appends the indicators of one categorical
predictor; `Split` makes the groups. Then the paths part: an estimation goes
through `Confine`, the engine takes `GetMatrices` and stacks them (`Pool`) after its
alignment check. Each early return is a `Refuse` with the error it gives, and the
order of the checks is kept: a file may deserve several. On the quantile path
the outcome is then replaced by its influence function (`ReplaceOutcome`), which is
refused for an outcome without density (`NoDensity`). A selection model is refused under a
pooled scheme before the file is read; after the confinement `Select` finds the people
selected, once for the selectors and once for the design, and both must be the same ones.

Abstractions: cells are integers, levels and group values ordered as the code
sorts their names; weights are counted in halves, so a fractional one exists; an
indicator's name is the pair of its variable and level, which the code writes as
one string, assumed to collide with no other column. A factor common to all relative
weights (one over their sum) is left out: nothing compared below depends on it.

### Decomposition

Extends `Preparation` with `run_single_pass`. `Estimate` is the two regressions, with
the order of their refusals, the level shares and the normalisation of the
coefficients; `Price` is the choice of the coefficients that price the gap, for
the pooled schemes from a third regression; `Decompose` the two-fold, three-fold
and detailed figures with the rows put together for the levels that have no
column.

Abstractions: what a regression returns is an operator of the instance, any
integers, since what is modelled is what the code does with them; every figure
is linear in the coefficients of the three regressions taken together, so the
run gives them a basis. Figures are kept over one denominator (`Den`, the mix's
`N`, the two groups' total weights) and are exact. The gap is the one the fits
imply. The values of an outcome replaced by its influence function are left out: the
regressions on it are any, as on any outcome.

A Heckman selection model adds an inverse Mills ratio in every row of the two
regressions (`MillsRatios`: any numbers that people alike in the selection predictors
share, since the probit stops at its limit without saying so and its answer is used as
it is). It leaves weights, normalisation and the pooled schemes aside; the mix of
`Weighted` still counts the people not selected. The code's `total_gap` and group sizes
also count them, so with placeholder outcomes they describe another population than the
components; the model has the components only. The linearised contributions of the
selection predictors are left out.

### Bootstrap

State: the chunk `start..end-1`, `stack` (for each worker, the tasks it has begun,
innermost last), `task` (how far each replicate is), the fold position `next`,
and the folded results. `OpenChunk`, `Collect`, `Fold`, `CloseChunk` and
`Aggregate` are the caller's thread; `Begin`, `DrawA`, `DrawB` and `Pass` are the
pool's. A worker that waits inside a data-frame call may begin another task of
the chunk and must then finish it first, as rayon's do.

Abstractions: a random stream is the sequence of its draws, so that what a
replicate draws depends on its number only if the code's use of streams makes it
so; the pass either fails or yields estimates represented by the samples. The
percentile positions `floor(0.025 n)` and `floor(0.975 n)` are `n \div 40` and
`39 n \div 40`; the two agree with the floating-point products of the code for
every n from 41 to 200,000, compared separately.

`Replicates` is one thread that takes the replicates in order.

`Quantile` is shown to implement the same `Replicates`.

### Akm

State: the panel, the forest (`parent`, `size`), the rows `kept`, the counters of the
loop in progress, the `effects`. `LinkRow` is one row of the edge loop, with the path
compression of its two searches and union by size; `KeepLargest` counts the
components and keeps the rows of one of the largest (of several the hash map's order
decides, hence `\E`); `ReadColumns`, `Demean`, `Demeaned`, `Regress`, `Recover` and
`Recovered` are the estimation. A loop that reaches `max_iters` is refused even when
its last iteration settled, as in the code.

Abstractions: what an iteration does to the figures is left out; a loop settles
after any number of iterations, and the effects it settles on are any that
reproduce the outcomes. The panels' outcomes are exact sums of a worker's and a
firm's part, so what is identified can be compared with what it was made of. Blank
identifiers count towards `NWorkers` and `NFirms`, hence are nodes, and are never an end of a link.

### Matching

State: the query, the propensity `scores`, `matched`, the `tally` by place among the
controls, the `weights` by row. `PrepareScores` and `Score` are the propensity
method's (which refuses a treatment column of whole numbers, the type `oaxaca-cli`
reads a column of 0 and 1 as); `Measure` is the metric and the tree, `MatchOne` one
treated row, `Reassemble` the weights. Of controls equally far any may be taken.

Abstractions: two covariates; squared distances are integers; Mahalanobis distances
are scaled by the determinant; a score is any number that rows alike share.

### Quantile

State: the call (`study`), the point estimates, each worker's `stack`, the `task` of
each replicate, the fold. `PointPass` is `run_single_pass` on the data; `Begin` and
`End` are the pool's, `Collect`, `FoldOutcome` and `Summarise` the caller's. All
replicates are open at once, and nothing bounds how many are alive.

The pass (`PassOf`) keeps the order of its refusals. `Compared` is the choice of the
group that is compared: a blank group cell is read as the reference, so data with
blanks can compare the reference with itself. `TwoGroupsAreCompared` says what
protects the reader then: no replicate succeeds, so the figure comes without any
error estimate. `Label` is the name of an estimate, `(tau * 100) as usize` in doubles,
so that 0.28 and 0.29 share a name and the later one stays.

Abstractions: the two random streams and the number of fits that succeed belong to
the call, as its seed fixes them; what is estimated is represented by the rows and
the quantile it is estimated from. The fits of the two groups drop failures
independently and are paired by position; only the two marginal distributions are
used afterwards, so the pairing cannot matter and is not kept.

### CommandLine

State: the command (`asked`), where it is (`at`), its exit status, the quantile it is at
(`turn`), the files still to write and those `written`. `CheckMainOptions`, `ReadData`
and `Configure` are what precedes an analysis; `Analyse` is a step of the analysis
called, whose own variables hold its state; `Deliver`, `Write`, `WriteFails` and
`NextQuantile` are the output loop; `AnalysisFails` and `Succeed` the other two exits.
A program that calls the library starts at `Analyse`.

What the commands turn into is in `AskOf`, `PanelOf` and `QueryOf`, with what the code
ignores: a report has no weights, an unknown matching method is Euclidean, AKM writes
no file whatever `--output-json` says, the quantile command neither reads a
formula's right-hand side nor writes Markdown, and AKM and matching still ask for the
group options.

Abstractions: parsing and printing; what a path held before the command; a half-written
file is 0. Quantiles are thousandths, none of them midway between two hundredths.

### McpServer

State: per request, its shape, how far its handler is (`at`), the session it was
admitted under and its blocking thread; the session table, the rate limiter's
allowance and the replies in order. `gone` is history.

Clients `Come` and `HangUp`. A handler runs through `LetThrough` or `TooMany`,
`MakeSession` or `FindSession`, `WrongKey`, then `AnswerAtOnce`, or `StartCall` and
`EndCall`; `OpenStream` and `Delete` are GET and DELETE; `Unreadable` is a body that
does not parse. `Compute` is the blocking thread, which runs on after a
`HangUp`. Standard input is one reader (`ReaderFree`), HTTP handlers interleave.
Text that is no request is answered and the next line read. A line that is not UTF-8
is not: `reader.next_line().await?` (`main.rs:277`) makes it an error that
`run_stdio_server` returns, so the server ends at that line (`ReadFails`), and neither it
nor any later line is ever answered. `EveryRequestIsSettled` states this exception, and
that only such a line ends the server, with every line before it settled.
Each locked section of the code is one step; between two of them any other
handler may run.

Abstractions: payloads and tool arguments are left out, so a tool call may be
refused at once, or compute and succeed or fail (a panic is a failure: the join
error becomes an answer). A poisoned lock cannot occur, no locked section
panics. Over standard input a client that closes the server's output, on which
`println!` panics, is one that has not stayed; that ending is left out, as are blank
lines, which are skipped, and a failing read of the pipe itself. A session is named by the request that made it; a client names only
sessions it was told of.

### RowKeys

State: the file (rows of cells, each with the employee it is of, which no
operation reads), the ledger of saved adjustments, the last answer of each of
the two calls. `Save` is a remedy's adjustment being saved with its key or, by a
client that knows only indices, without; `Correct` is an edit of the file;
`Verify` and `Defend` are `verify_inner` and `check_defensibility_on` up to the rows
they pay.

`KeyTable`, `KeyColumn`, `Counters`, `Digests`, `ContentKeys` and `Resolve` are the
functions of `row_key.rs`; `Analysed` and `Refused` are the builder's choice of rows;
`Merged`, `Overridden` and the counts are the calls'.

Abstractions: cells are small numbers or blank, so trimming and the limits on a
key's length are left out; a digest is taken to tell contents apart; rows are
numbered from 1; the regression that follows is left out, with its failures.

### Release

State: per tag, the `job`s of its run; the registry (`crates`), the release `pages`, the
documentation branch (`site`) and the copy of it each book job has fetched; `deployed`
and `repeated` are history. `Needs` is the job graph. `CheckTag`, `Build`, `Publish`,
`MakePage`, `FetchBranch` and `PushBook` are the jobs; `Break`, `PageAnswerLost`,
`PushAnswerLost` and the failing half of `Publish` are a runner lost before or after
its job has shown an effect; `RerunFailed` and `RerunAll` the maintainer's two buttons.
Runs of different tags interleave: the workflow has no `concurrency` group, so two
book jobs can fetch the same branch, and the second to push is rejected.

Abstractions: what a job builds; whether a tag is sound (on main, the crate's version,
a changelog section) is part of the instance. Two consequences the properties leave
room for: when the answer to an upload is lost, or when a whole run is repeated after
publication, the registry refuses the version and the run never reaches its page or
book; and the directory of a line holds whatever tag of it was deployed last.

## 4. The runs

`tlc -config X.cfg M` in this directory. Every run that passes explores its whole
state space. Distinct states: `snapshot_diff` 2,396,749, `snapshot_drain` 114,322,
`remedy` 964,820, `bootstrap` 186,114, `command_line` 258,083, `mcp_server` 680,406,
`row_keys` 182,796, `release` 29,946.

| Run | Instance | Shows |
|---|---|---|
| `snapshot_diff` | 2 interchangeable subjects, 2 columns (one numeric, one text; either may be unpinned), 2 numbers, 1 text, NaN, 6 rows, 2 seeded cells, 2 rows of the new week | `ReportIsExact`: after any batches, whichever failed, the host holds exactly the declarative difference, each change once. `PatchGivesWeek`: applying it to the old week gives the new. `ResidentExact`, `DrainEmpties`: the counters. `LedgerSpec`: refines `WeekLedger` |
| `snapshot_drain` | 2 subjects, 2 numeric columns, NaN and null values seeded in both and sent in one, fair | `DrainCompletes`: no bad cell can block the drain for ever |
| `snapshot_late_seed` | the documented order not enforced | violation of `DrainEmpties` (section 6) |
| `remedy` | two families. 3 compared rows of every shortfall in {-1, 1, 2, 4}, pooled weights in {-2, 1, 2, 3} that sum to 3, budgets 0, 2, 4, five goals, both lines, both strategies. And 3 compared and 2 reference rows above, on and below the line, zero and negative pay, three pay lines, thresholds, reference raises, forensic lists, refused requests. Around them the frontier: shortfalls {-1, 0, 2, 3} with ties across the groups, axes that end inside, on and past the full cost, in 1 and 3 steps, two refused axes | `BestIsThePeak`, `LeastBudget`, `LandsWhereItSays`, `BindingIsShort`, each against the path's own definition (`PathGap`), evaluated at every budget; `NeverAboveTheLine`, `SpendIsBounded`, `PriorityKept`, `StillBelowIsCounted`; `CurveIsTheSchedule`: a point of the frontier pays what the remedy's own path pays at that budget; `CurveCompletes` |
| `remedy_threshold` | a part of those families | violation of `LeftOutIsSmall` (section 6) |
| `command_line`, a file | every file of up to 4 rows from six kinds of row (blanks in different columns, weights 0, 1/2, 1, 2), of up to 3 with a third group value and an invalid weight, on both paths, unweighted, frequency, relative; wrong requests; files of 10 rows with two categorical predictors that estimate, five pricing schemes, two weightings, three restrictions, a basis of coefficients; on the quantile path, with and without density; the same files with people who do not work, with and without an outcome, under a selection model | `RowsAreTheirs`: every row is in its group's matrix and in the pooled design, or excluded, once, with its own cells. `ConfinementIsDue`: a level is refused exactly when a group's own design collapses (that of the whole group, also under a selection model, where the code scans before it selects; the selected rows' regression has its own refusal, `OlsError`). `DetailIsBaseFree`: every level has the row its effect deserves whichever level has no column, and the rows add up. `OnePopulation`: the mix that prices is the one whose shares restrict |
| `selection_of_the_observed` | the files with a selection model alone | violation of `EveryoneIsInTheProbit` (section 6) |
| `command_line`, the rest | panels of up to 4 rows over 3 workers and 3 firms, with blanks, and limits that are reached; samples of up to 4 rows with blanks, ties and a third treatment value, 0 to 2 neighbours, three methods; simulated quantiles on every grouping of up to 5 rows with one replicate, and on 4 rows with 3 replicates on 1 to 3 threads and fits that fail; commands with each option left out in turn, no quantile list, one, two that differ by less than a hundredth, three, and writes that fail | `LargestSetIsIdentified`: the rows kept are those of a largest connected set, and every effect on it is identified. `WeightsAreOfNearest`: a control weighs the share it has in the matches it is in. `TwoGroupsAreCompared`, `QuantileIsSequential` (refines `Replicates`). `OutputsAreTheirs`: what exit status 0 promises, and what a failure leaves |
| `bootstrap` | 3 replicates on pools of 2 and 3 workers, 4 in chunks of 2, with stealing; single-worker runs of 0, 1, 2, 40, 41 and 43 replicates with 0 to 3 failures | `SequentialSpec`: refines `Replicates`; `LiveIsBounded`; `EmployeesAreEqual`; `IntervalIsInterior`; `RunCompletes` |
| `mcp_server` | 3 requests of 13 shapes on either transport, 2 at once through the limiter | `LinesInOrder`, `DeletedStaysDeleted`, `SessionsAreKept`, `EveryRequestIsSettled` |
| `row_keys` | 3 employees and a fourth who reads like the third, with a number column or a column that counts the rows; 2 adjustments; 3 saves and corrections in all | `NeverTheNeighbour`, `OrphanedForAReason`, `OneSchedule` |
| `row_keys_two_columns` | the same with two accepted key columns | violation of `NeverTheNeighbour` (section 6) |
| `release` | two tags of one line whose runs interleave, and a pre-release by itself, each sound or not; one platform | `PublishedIsChecked`, `LatestIsNewest`; `AnnouncedInTheEnd`: a run whose publication succeeded ends with page and book |

### Why the bounds are enough

- *Diff session*. A subject interacts with another only through the shared
  scratch and the shared counters, so two subjects and two lookups reach every
  order of seen, seen twice, failed and drained; two columns give a row that
  holds one and lacks the other; values of each kind and NaN, of neither, give each branch its error.
- *Remedy*. Three compared rows give a path with a rise, a fall and a rise, hence
  a peak inside it, a tie for it and a goal inside a payment; the families
  contain goals met, reached, reached exactly at the peak and out of reach, and a
  user budget below, at and above the rule's.
- *Frontier*. With three steps a payment is cut twice; the second step begins in
  the middle of one.
- *Preparation*. Four rows are two to a group, one of them incomplete, with the
  complete ones before and after it: a sequence that skips a row, or one that
  does not, is out of step. Three of any kind include a group of one, a level in
  one group, a level of weight zero, and no row left.
- *Decomposition*. Three levels and two, so that the average of one variable could
  be mistaken for the other's; the level without a column is rare, common or
  absent; a row of weight zero; the groups' total weights differ.
- *Bootstrap*. Two workers and three replicates already interleave, steal, and
  leave a last chunk that is short. The interval's floor is at 41 estimates:
  the long runs end below, on and above it, with failures moving them across.
- *Akm*. Three workers and three firms are two components to choose between, of the
  same size or not, and a chain long enough for a search to rewrite the path to a
  root that is then hung elsewhere.
- *Matching*. Four rows are two controls with a row between them that is neither, so
  a place among the controls is not a place in the file; two controls are a tie.
- *Quantile*. Three replicates on two or three workers steal and nest; one of them can
  fail in the middle; five rows, with one replicate, are two groups of two and a blank.
- *Commands*. Three quantiles have a first, a middle and a last whose write may fail;
  two are enough to share a file.
- *Release*. Two tags race for the branch; a third would repeat the second's part. One
  platform, because a job that breaks is any of the platforms'.
- *Server*. Three requests are what the hazards need: one makes a session, one
  deletes it, one is in between; a burst of two makes the third wait or be
  refused.
- *Row keys*. With three rows a deletion can leave two that look counted; with
  three changes a schedule is saved, the file corrected twice, and the schedule
  extended in between.

### Fairness

- `SnapshotDiff!FairSpec`: a call in progress runs to its end (it is one thread);
  the host seals and, when the drain fails, asks again. That is the host's part
  of the documented protocol; without it nothing forces a drain.
- `FrontierSpec`: the call is a loop on one thread.
- `Bootstrap!Fairness`: the caller's thread runs; some worker that has a task goes
  on; some idle worker takes a waiting task. Rayon promises no more for a
  single worker, so fairness is of the pool as a whole.
- `Release!ReleaseFairness`: for each tag, a book job that can start does and ends, and
  failed jobs are run again (weak fairness of `Proceed`); a page upload and a push that are tried again and again
  succeed at last (strong fairness of `MakePage` and `PushBook`). Nobody has to push a
  tag or to repeat a whole run.
- `McpServer!Fairness`: the runtime polls a handler that can go on, a computation
  ends, the limiter's allowance comes back. Clients owe nothing.

`row_keys` and `mcp_server` switch the deadlock check off: a project whose
changes are used up only asks again, and a server with no more requests is idle.

## 5. The proofs

`tlapm M_proofs.tla`. All hold for every value of the constants that meets the
modules' named ASSUMEs.

**Sums.** What a sum over a finite set does when an element is added, when its terms
change, grow or are scaled, when its set is cut in two. The induction theorems of the
library take an operator, which the provers cannot instantiate, so `SubsetInduction` and
`NumberInduction` are stated of sets: what holds of a subset whenever it holds of the subset
less any element belongs to a set that contains every subset. Their proofs take a minimal
counterexample. `TableExists` shows with them that the recursive function behind
`SumFunctionOnSet` exists, and everything else follows from its equation.

**SnapshotDiff_proofs.** `TypeCorrect`. `ResidentIsExact`: the count kept by hand is
the number of cells in the slots. It is not inductive alone: seeding looks a cell
up through the scratch arrays, so the argument first shows that no stamp is ahead
of the epoch (`StampsNeverAhead`), hence that a lookup under the next epoch finds a
target exactly where the slot holds it, hence that a cell is counted when, and
only when, it is new; and that only listed subjects have cells.

The others are of hosts that keep the documented order (`Protocol`). `TakenStayEmpty`,
`ResidentFalls` and `VanishDrains` (`DrainEmpties`) need besides that once sealed no cell
is seeded and that the slots the drain has passed are empty. `HistoryHolds` joins the
session to the week: a slot not yet looked up holds what was seeded for it
(`SlotsAreSeeded`), every lookup has told its own truth, each change of it once, and what a
failed call had told is gone (`ToldByLookups`, `LookupsTold`). That a lookup tells its truth
is a lemma about the four branches of the row loop: what they emit for a row is the
declarative diff of the slot and the row. `ReportExact`, `PatchExact` and `ImplementsLedger` follow:
the report is the diff of the weeks, applying it to the prior week gives the incoming
one, and every step of the session is a step of `WeekLedger` or leaves its state alone.

**Remedy_proofs.** `TypeCorrect`; `AboveTheLineNever`; `PriorityHolds`; `SpendingIsBounded`, under
either strategy; `CountedOnce`; `PeakIsHighest`; `BudgetIsLeast`; `LandsAsPromised`; `BindingMeansShort`:
every invariant of `Remedy`, over integers and exact fractions as the module has them. The invariant
says, phase by phase, which rows the loop has left and what the accumulators hold of those
it has passed (`Classified`, `Accepted`, `Walking`, `InOrder`, `GreedyKept`, `EquitableKept`, `CostsKept`), and
ties the sums to a path: what a strategy pays everyone at a given budget (`PathPay`).
A Greedy path is straight between one leading set of the pay order and the next, an Equitable one
throughout. So the walks need to look at the ends of segments alone: the lift is greatest at an
end (`Climbing`, hence the peak), and the first segment on which the gap meets the goal is crossed at
the least budget (`Crossing`). The pay loop is then shown to pay the point of the path at its cap
(`PaidAlong`), where the gap is the one the rule promised.
`CurveIsExact`: each point `Frontier` draws is the schedule that the point's budget buys. Its
invariant (`Drawn`) says that the queue is what the pay order has left unpaid and that the raises
are the path's at the money spent so far. `PricedByTheRules`: what holds of a call by itself holds
of the one a frontier makes.

**Bootstrap_proofs.** `Invariance`, `TypeCorrect`, `MemoryIsBounded`,
`IntervalsAreInterior`, and `RunIsSequential`: the chunked, stealing loop implements
the safety part of `Replicates`, for any number of replicates and workers and any
pass. The invariant ties a chunk's size to the pool (`ChunkIsBounded`), the fold
to its phase (`FoldPosition`), a slot's samples to its replicate's own streams
(`SlotsAreTheirs`), and begun tasks to exactly one worker (`StacksAreDisjoint`).
`EmployeesAlike`: the cumulative weights grow and cut the draws into one stretch a row, as long
as the row has employees, so a draw is as likely to be any employee as any other; and a sample's counts
add up to its group (`HitsAddUp`). It assumes of the tape only that a draw is one of the group's employees
(`DrawsAreUnits`), which is what `gen_range` of `rng.rs` is asked for.

**RowKeys_proofs.** `KeysMinted`: every saved key still says the number or the cells
its row had when it was saved. `NeverNeighbour`: with at most one accepted key column,
and an owner whose corrections are files (`FilesStayFiles`), a keyed adjustment never lands on another
employee's row while its own still reads as it did. The first assumption is the line
between this theorem and the run `row_keys_two_columns`; the others need only
the second. `LostForAReason`: with any number of key columns, a key is orphaned for one of the reasons
`OrphanedForAReason` lists. It rests on the key column being the first that
qualifies (`ChosenColumn`, by well-founded choice) and on a standing row having a key of
its own in the table (`StandingRowIsKeyed`). `SamePayEitherWay`: an answer that is shown is the one
the present file and ledger give (`AnswersAreCurrent`: saving and correcting throw answers away);
an override fills a cell and blanks none, so the call that overrides analyses at least the rows of the
one that does not (`OverridesKeepRows`), and the entries divide into paid, unresolved and off the rows
analysed. `TypeCorrect`.

**McpServer_proofs.** `ServerTypeCorrect`, `RepliesInLineOrder`, `NothingUnderDeleted` and
`SessionsStayUntilDeleted`, for any requests, limits and interleaving. One invariant
carries them, `ServerInv`: standard input has one request at a time (`OneByOne`), a session
named has been made by the request it is called after (`SessionsAreNew`), a handler past
admission was admitted under a session that was not deleted when its request came
(`AdmittedRightly`), and the replies given so far have the properties (`RepliesStand`).
The types are part of it because a reply is read back from the records of the request.

**CommandLine_proofs.** `QuantilesAreSequential`: the loop that opens every replicate at once
implements `Replicates`, for any call, pool and nesting of workers. The invariant
(`PlacesAreTheirs`) says that a place is empty or holds the outcome of its own two
streams, and that every place is filled when the fold begins. It is stated of the
whole program (`CommandLineSpec`), whose other steps leave the loop alone. `OutputsHold`: after
each quantile of a command the files are those due to the quantiles so far, each written by one of those
that have its name (`FilesAreTheirs`), and a command that fails half-way leaves one file half-written at most.
`NearestWeigh`: a control that fewer than k others are as near as is in every choice of the k nearest,
and one that k others are nearer than is in none (`MatchesAreNear`). So the tally by place lies between
the rows it is surely and perhaps a match of, among those matched so far, and adds up to k for each
(`Shared`); `Ascending` goes through the rows of a treatment once each (`AscendingEnumerates`), so what is counted by
place is what the rows of the file weigh (`ReassembleIsNearest`). Of the propensity scores it assumes that they are
whole numbers (`ScoresTyped`), on which alone their order depends. `GroupsAreTwo`: the group compared is the
reference only where a blank is read as it (`OnItselfByBlank`, as a finite set of values has its least one in it), and then whatever
a replicate draws is of one kind of group cell (`OnItselfFails`), which no pass accepts. It assumes of the tape that its
draws are not negative.

`RowsStayTheirs` and `ConfinementStaysDue` follow the rows of a file through `Preparation` and
into the engine. Both properties speak of the end alone and say nothing of the frames in between, so
neither is inductive. `RowsAreKept` says, stage by stage, what is so from there on: a
frame, a sequence p of rows of the file, and row k of the frame carrying the cells of row p[k], the
number p[k] - 1 if rows are numbered, and of each indicator made so far whether p[k] has its level
(`Rowed`). From the cleaning to the split p is the rows without a blank in their order
(`Whole`), from the split on a group's own (`RowsSplit`). The steps, one lemma each:

- the cleaning: the list of those excluded is one entry for every row with a blank, with the columns it is
  blank in, each once (`ExcludedAreBlank`, from what `FirstOfEach` keeps), and every row is
  kept or in that list (`RowsAddUp`): so the accounting of the code never refuses;
- the indicators: those of the levels but the first, appended in step (`IndicatorsAreRowed`). No level of a column
  is missed, as the levels of a frame of all whole rows are those of the column;
- the split: what is taken from a `Rowed` frame is `Rowed` (`TakeIsRowed`), the group column has two values
  at most, so the rows of the groups divide the whole ones (`SplitIsInTwo`);
- the designs: a column of the design that is the constant, a numeric predictor or an indicator has
  the cell of p[k] in row k (`DesignIsTheirs`), and a selection model reads of both the
  rows and the selectors those selected, in the same order (`SelectionIsTheirs`), so `row alignment` is never refused;
- the pooled design: its rows are those of the reference and then of the target, each ordinal has one
  slot, and the slot carries the row (`PoolIsTheirs`).

`ConfinementStaysDue` needs besides that the levels of the groups together are those of the whole rows
(`LevelsOfGroups`). A level that one group lacks has an indicator that is zero there, or, if it has
none, indicators that add up to the constant there: either way a combination of the design's columns that is zero in
every row that counts (`LackingCollapses`). Where no level is lacking, a row that counts of each level
in turn shows every coefficient of such a combination to be zero (`NothingCollapses`).
Of the files they assume that the columns are of one length and none has the name the code gives to its
row numbers (`FileTyped`); of the requests, that what is named are names of columns.

`OnePopulationStays` is about the end alone too. `SharesAreKept` says that the shares are read off a
frame that, from the confinement check to the end, is still that of the whole rows, already divided
into the groups'. The mass of a frame's rows at a level is that of the rows of the file there
(`MassOfPositions`); what a regression takes a row to weigh is its weight times the number of rows in its group,
under relative weights, or its weight (`WeightsAreScaled`), and that factor cancels in a mean. So mixing two means by
the groups' raw masses adds up the raw masses of the level (`MixedShares`), which divide those of the
whole rows. That weights are numbers needs the cleaning to check their column for blanks (`WeightsAre`).

`LargestSetStays` is about the union-find of `Akm` and what is estimated on the set it finds. `find` is
recursive: what is needed of it is first shown of any forest, a function p in which
every node but a root is deeper than the one it hangs from (`Hangs`, for some depths), with a function
g that climbs it (`Climbs`). There is one such g (`ClimbsAlone`, by a node of least depth at which two would
differ), so it is the roots `find` returns (`RootOfIs`); hanging the nodes met from their root moves no root
(`Compressing`), and hanging one root from another, the smaller or not, moves what was under it
and leaves a forest (`Hanging`). The invariant `SetIsKept` then says

- while rows are linked: there are such depths and roots, the ends of every row linked have
  one root, and whatever set of nodes no linked row leads out of holds all or none of what has one root
  (`RootsJoinRows`). `NextRowJoins` keeps it: a set the next row does not lead out of either
  has been one already;
- from the choice of the set on: the kept rows are those of a largest set (`LargestRows`). The
  names whose nodes are under one root are a connected set and every connected set is such
  (`ConnectedIsUnder`, `UnderIsConnected`). A component of nodes may have more nodes than
  names, since a blank is counted as a node; but such a node is alone (`OthersAreAlone`), so where any row links,
  the component with the most nodes has as many names (`LargestLinks`, `EveryNodeIsAnEnd`, `MostNodesMostNames`);
- at the end: the effects are the parts. What a solution has the workers lack the firms gain,
  row by row; the names at the first firm's level are a set no row leads out of, within one that is in one
  piece, so they are all of it (`OneLevel`).

It assumes of a panel that a cell has one value at most and that the outcomes are sums of whole
parts (`PanelTyped`, `PartsTyped`), which is what "identified" is said of.

**Release_proofs.** `NothingUncheckedIsPublished`: if a run was not repeated as a whole, a
job that has started had what it needs succeeded, and re-running the failed jobs never
turns a success back, so a published crate's run has its checks and binaries passed.
`LatestStaysNewest`: a push is taken only when the fetched branch is the branch, so
comparing with the fetched latest/ is comparing with the real one.

**Only model-checked.** Liveness (`DrainCompletes`, `CurveCompletes`, `RunCompletes`,
`EveryRequestIsSettled`, `AnnouncedInTheEnd`), which needs ENABLED. `DetailIsBaseFree`: the
coefficients are those of any basis, and the sum over the rows of the table is a rearrangement over sequences of
names that would have to be followed through every pricing scheme.

## 6. Where code and documentation disagree

Each is a run that TLC ends with a counterexample.

- `snapshot_late_seed`: `Session`'s doc (`engine/src/snapshot_diff.rs:455-457`) says
  the resident count reaches 0 after `diff_vanished`. `seed` does not look at the
  seal or at a tombstone, so a cell seeded for a subject already consumed stays
  counted. Hosts that seed, seal, then diff never see it.
- `remedy_threshold`: `engine/src/types.rs:308-310` says someone below the line by
  less than `min_gap_pct` of pay is left out. At zero or negative pay the code's
  percentage is 0 or negative, so such a row is left out whatever it lacks.
- `selection_of_the_observed`: `docs/src/method/heckman.md:7-9` estimates who works on
  everybody and pay on the people whose pay is observed. `clean_dataframe`
  (`builder.rs:1647`) removes every row without an outcome before the selection is looked
  at. In a file where unobserved pay is empty, as in `tests/heckman_test.rs:46`, the
  probit sees only people who work. With a placeholder in its place it sees everybody.
- `row_keys_two_columns`: `engine/src/row_key.rs:38` says silent re-attachment is
  what the module removes. A column key does not name its column: when a
  deletion makes one number column look like a row counter, another qualifies and
  a saved number can resolve in it to someone else's row.

## 7. What is not modelled

Floating-point algebra (regressions, leverage, weights, quantile fits, densities,
the iterations of AKM and of the other estimators): no control that a model checker
tells apart, and no exact counterpart. Conversions at the WASM boundary, the parsing
and printing of the command line, `display.rs`, the payloads of tool calls: pure input
and output. The source stamp: a build-time hash. The memory profile: a measurement.
`ci.yml`: it checks and publishes nothing.

Left out of modelled parts, and planned (section 2): the categorical indicators of the simulated quantiles, the packing of typed arrays.

That the simulated quantile loop holds all its replicates is visible in `Quantile` and
contradicts no promise of its own code, so no run states a bound for it. Likewise for
the server's sessions, which are entered and never expire: the code promises no bound.
