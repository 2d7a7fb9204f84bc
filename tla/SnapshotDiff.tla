---------------------------- MODULE SnapshotDiff ----------------------------
(***************************************************************************)
(* The week-over-week diff session of engine/src/snapshot_diff.rs: the     *)
(* prior week is seeded cell by cell into subject slots, the incoming week *)
(* streams past in batches of rows, each row consuming its subject's slot, *)
(* and diff_vanished drains the slots no row asked for.                    *)
(*                                                                         *)
(* A call (diff_batch, diff_vanished) holds &mut Session, so it excludes   *)
(* every other call; its loop is modelled one iteration per step, because  *)
(* an error leaves the session as the iterations before it made it.        *)
(*                                                                         *)
(* Values are abstracted to what split_value and js_strict_eq tell apart:  *)
(*   Numbers  finite numbers (and -0 is the number 0)                      *)
(*   Texts    strings                                                      *)
(*   Inert    undefined, null, booleans: equal to themselves, of no kind   *)
(*   Fresh    NaN and opaque values: equal to nothing, not themselves      *)
(***************************************************************************)
EXTENDS Integers, Sequences, FiniteSets

CONSTANTS Subjects, Targets, NumericKinds, TextKinds,
          Numbers, Texts, Inert, Fresh,
          Rows,       \* the rows a host may send: sequences of incoming cells
          Pins,       \* the <<target, kind>> pairs a host may pin
          MaxSeeds,   \* bound on the seeded cells
          MaxRows,    \* bound on the rows of the incoming week
          Protocol    \* TRUE: the host seeds before it seals and diffs after

Kinds == NumericKinds \cup TextKinds
Vals == Numbers \cup Texts \cup Inert \cup Fresh
NoKind == "unpinned"
Absent == "absent"

Cell == [target : Targets, kind : Kinds, val : Vals]
Incoming == [target : Targets, val : Vals]

ASSUME DisjointValues ==
    /\ Numbers \cap Texts = {} /\ Inert \cap Fresh = {}
    /\ (Numbers \cup Texts) \cap (Inert \cup Fresh) = {}
    /\ NumericKinds \cap TextKinds = {}
    /\ NoKind \notin Kinds /\ Absent \notin Vals

\* A row is a JavaScript object: it holds a target at most once.
ASSUME RowsAreObjects ==
    /\ Rows \subseteq Seq(Incoming)
    /\ \A row \in Rows : \A i, j \in DOMAIN row :
           row[i].target = row[j].target => i = j

ASSUME BoundsAndPins ==
    /\ IsFiniteSet(Subjects)
    /\ Pins \subseteq Targets \X Kinds
    /\ MaxSeeds \in Nat /\ MaxRows \in Nat /\ Protocol \in BOOLEAN

VARIABLES
    pinned,      \* target -> the kind set_pinned gave it, or NoKind
    order,       \* the subjects that have a slot, in seed order
    taken,       \* the subjects whose slot is tombstoned
    cells,       \* subject -> the cells of its slot, in insertion order
    resident,    \* resident_cell_count
    initial,     \* initial_cell_count
    sealed,
    epoch,       \* the stamp of the current row
    priorEpoch,  \* target -> the last row whose prior week held it
    priorIdx,    \* target -> where that prior week held it
    rowEpoch,    \* target -> the last row that held it
    call,        \* the call in progress: its output so far and its entries
    report,      \* the output of the calls that returned, as the host adds it up
    log,         \* history: every slot lookup, and whether its call returned
    seeded       \* history: the prior week as it was seeded

scratch == <<epoch, priorEpoch, priorIdx, rowEpoch>>
slots == <<order, taken, cells, resident>>
setup == <<pinned, initial, sealed>>
history == <<report, log, seeded>>
vars == <<setup, slots, scratch, call, history>>

NoOutput == [changes |-> {}, rows |-> 0, added |-> 0, removed |-> 0]
Idle == [op |-> "idle", next |-> 0, out |-> NoOutput, entries |-> <<>>]

Listed(s) == \E i \in DOMAIN order : order[i] = s

-----------------------------------------------------------------------------
(* Values and kinds *)

\* Mutant: values are the same when neither is below the other, as NaN never is.
StrictEq_NotApart(a, b) == a = b \/ {a, b} \cap Fresh # {}

StrictEq(a, b) == a = b /\ a \notin Fresh

Fits(kind, val) ==
    \/ kind \in NumericKinds /\ val \in Numbers
    \/ kind \in TextKinds /\ val \in Texts

Change(s, t, how, kind, old, new) ==
    [subject |-> s, target |-> t, how |-> how, kind |-> kind,
     old |-> old, new |-> new]

\* What one cell contributes to the output: a change, an error or nothing.
Emit(c) == [tag |-> "change", change |-> c]
Fail(class) == [tag |-> "error", class |-> class]
Silent == [tag |-> "silent"]

-----------------------------------------------------------------------------
(* The four branches of diff_batch *)

Branch1(s, x) ==
    LET kind == pinned[x.target] IN
    IF kind = NoKind THEN Fail("ValueKindError")
    ELSE IF Fits(kind, x.val)
         THEN Emit(Change(s, x.target, "added", kind, Absent, x.val))
         ELSE Fail("ValueTypeError")

Branch3(s, p, x) ==
    IF Fits(p.kind, p.val) /\ Fits(p.kind, x.val)
    THEN Emit(Change(s, x.target, "changed", p.kind, p.val, x.val))
    ELSE Fail("ValueTypeError")

Branch4(s, p) ==
    IF Fits(p.kind, p.val)
    THEN Emit(Change(s, p.target, "removed", p.kind, p.val, Absent))
    ELSE Fail("ValueTypeError")

\* The stamps tell whether the slot held x's target, and at which index.
CellOutcome(s, prior, stamps, idx, now, x) ==
    IF stamps[x.target] # now THEN Branch1(s, x)
    ELSE LET p == prior[idx[x.target]] IN
         IF StrictEq(p.val, x.val) THEN Silent ELSE Branch3(s, p, x)

\* Mutant: the removed pass is lost for rows that hold a cell.
RowOutcome_NoRemovedPass(s, prior, row, stamps, idx, held, now) ==
    [i \in 1 .. Len(row) + (IF row = <<>> THEN Len(prior) ELSE 0) |->
        IF i <= Len(row) THEN CellOutcome(s, prior, stamps, idx, now, row[i])
        ELSE LET p == prior[i - Len(row)] IN
             IF held[p.target] = now THEN Silent ELSE Branch4(s, p)]

\* The outcomes of a row, in the order the loop meets them: the cells of the
\* row, then the prior cells the row does not hold.
RowOutcome(s, prior, row, stamps, idx, held, now) ==
    [i \in 1 .. Len(row) + Len(prior) |->
        IF i <= Len(row) THEN CellOutcome(s, prior, stamps, idx, now, row[i])
        ELSE LET p == prior[i - Len(row)] IN
             IF held[p.target] = now THEN Silent ELSE Branch4(s, p)]

Throws(outcome) == \E i \in DOMAIN outcome : outcome[i].tag = "error"

FirstError(outcome) ==
    CHOOSE i \in DOMAIN outcome :
        /\ outcome[i].tag = "error"
        /\ \A j \in 1 .. i - 1 : outcome[j].tag # "error"

\* The changes of the n-th lookup, each at its place in the emission order.
ChangesOf(outcome, n) ==
    {[at |-> <<n, i>>, change |-> outcome[i].change] :
        i \in {j \in DOMAIN outcome : outcome[j].tag = "change"}}

-----------------------------------------------------------------------------
(* Setting up a session *)

Init ==
    /\ pinned = [t \in Targets |-> NoKind]
    /\ order = <<>> /\ taken = {}
    /\ cells = [s \in Subjects |-> <<>>]
    /\ resident = 0 /\ initial = 0 /\ sealed = FALSE
    /\ epoch = 0
    /\ priorEpoch = [t \in Targets |-> 0]
    /\ priorIdx = [t \in Targets |-> 0]
    /\ rowEpoch = [t \in Targets |-> 0]
    /\ call = Idle
    /\ report = NoOutput /\ log = <<>>
    /\ seeded = [s \in Subjects |-> {}]

HostMaySetUp == call = Idle /\ (Protocol => ~sealed)
HostMayDiff == call = Idle /\ (Protocol => sealed)

SetPinned(t, k) ==
    /\ HostMaySetUp /\ order = <<>>
    /\ pinned[t] = NoKind
    /\ pinned' = [pinned EXCEPT ![t] = k]
    /\ UNCHANGED <<initial, sealed, slots, scratch, call, history>>

\* A subject enters the slots, with no cell yet.
Slotted(s) == IF Listed(s) THEN order ELSE Append(order, s)

SeedEmpty(s) ==
    /\ HostMaySetUp /\ ~Listed(s)
    /\ order' = Slotted(s)
    /\ epoch' = epoch + 1
    /\ UNCHANGED <<setup, taken, cells, resident, priorEpoch, priorIdx,
                   rowEpoch, call, history>>

\* Where a slot holds each target, stamped with the epoch of this look.
At(slot, t) == {i \in DOMAIN slot : slot[i].target = t}
Stamped(slot) ==
    [t \in Targets |-> IF At(slot, t) # {} THEN epoch + 1 ELSE priorEpoch[t]]
Indexed(slot) ==
    [t \in Targets |-> IF At(slot, t) # {} THEN CHOOSE i \in At(slot, t) : TRUE
                       ELSE priorIdx[t]]

\* One cell of one subject; a chunk is a sequence of these.
Seed(s, c) ==
    LET slot == cells[s]
        known == Stamped(slot)[c.target] = epoch + 1
        at == IF known THEN Indexed(slot)[c.target] ELSE Len(slot) + 1
    IN  /\ HostMaySetUp /\ epoch < MaxSeeds
        /\ order' = Slotted(s)
        /\ epoch' = epoch + 1
        /\ cells' = [cells EXCEPT ![s] = IF known THEN [slot EXCEPT ![at] = c]
                                                 ELSE Append(slot, c)]
        /\ resident' = IF known THEN resident ELSE resident + 1
        /\ priorEpoch' = [Stamped(slot) EXCEPT ![c.target] = epoch + 1]
        /\ priorIdx' = [Indexed(slot) EXCEPT ![c.target] = at]
        /\ seeded' = [seeded EXCEPT ![s] = {d \in @ : d.target # c.target} \cup {c}]
        /\ UNCHANGED <<setup, taken, rowEpoch, call, report, log>>

Seal ==
    /\ HostMaySetUp /\ ~sealed
    /\ initial' = resident
    /\ sealed' = TRUE
    /\ UNCHANGED <<pinned, slots, scratch, call, history>>

-----------------------------------------------------------------------------
(* diff_batch *)

\* PriorState.take(): a live slot is emptied and tombstoned.
Live(s) == Listed(s) /\ s \notin taken

\* Mutants of Take: the slot is not tombstoned; its cells stay.
Take_NoTombstone(s) ==
    /\ taken' = taken
    /\ cells' = IF Live(s) THEN [cells EXCEPT ![s] = <<>>] ELSE cells
    /\ resident' = IF Live(s) THEN resident - Len(cells[s]) ELSE resident
    /\ UNCHANGED order

Take_KeepsCells(s) ==
    /\ taken' = IF Live(s) THEN taken \cup {s} ELSE taken
    /\ resident' = IF Live(s) THEN resident - Len(cells[s]) ELSE resident
    /\ UNCHANGED <<cells, order>>

Take(s) ==
    /\ taken' = IF Live(s) THEN taken \cup {s} ELSE taken
    /\ cells' = IF Live(s) THEN [cells EXCEPT ![s] = <<>>] ELSE cells
    /\ resident' = IF Live(s) THEN resident - Len(cells[s]) ELSE resident
    /\ UNCHANGED order

\* The lookups are numbered across the calls of the week.
ThisLookup == Len(log) + Len(call.entries) + 1
Entry(s, row) == [subject |-> s, row |-> row, ok |-> TRUE]
Failed(entries) ==
    [i \in DOMAIN entries |->
        [subject |-> entries[i].subject, row |-> entries[i].row, ok |-> FALSE]]

\* An output with more changes in it, and its counters raised.
More(out, changes, rows, added, removed) ==
    [changes |-> out.changes \cup changes, rows |-> out.rows + rows,
     added |-> out.added + added, removed |-> out.removed + removed]

\* The row stamps once the first n cells of a row have been met.
Held(row, n) ==
    [t \in Targets |-> IF \E i \in 1 .. n : row[i].target = t
                       THEN epoch + 1 ELSE rowEpoch[t]]

\* One iteration of the row loop; the first one opens the call. An error ends
\* the call: its output is dropped, what it took stays taken.
DiffRow(s, row) ==
    LET prior == IF Live(s) THEN cells[s] ELSE <<>>
        held == Held(row, Len(row))
        outcome == RowOutcome(s, prior, row, Stamped(prior), Indexed(prior),
                              held, epoch + 1)
        entries == Append(call.entries, Entry(s, row))
    IN  /\ call.op = "diff" \/ HostMayDiff
        /\ Len(log) + Len(call.entries) < MaxRows
        /\ Take(s)
        /\ epoch' = epoch + 1
        /\ priorEpoch' = Stamped(prior) /\ priorIdx' = Indexed(prior)
        /\ IF Throws(outcome)
           THEN /\ rowEpoch' = IF FirstError(outcome) <= Len(row)
                               THEN Held(row, FirstError(outcome)) ELSE held
                /\ call' = Idle
                /\ log' = log \o Failed(entries)
           ELSE /\ rowEpoch' = held
                /\ call' = [op |-> "diff", next |-> 0, entries |-> entries,
                             out |-> More(call.out, ChangesOf(outcome, ThisLookup),
                                          1, IF Live(s) THEN 0 ELSE 1, 0)]
                /\ UNCHANGED log
        /\ UNCHANGED <<setup, report, seeded>>

\* The call returns and the host adds its output to the week's.
Return ==
    /\ report' = More(report, call.out.changes,
                      call.out.rows, call.out.added, call.out.removed)
    /\ log' = log \o call.entries
    /\ call' = Idle
    /\ UNCHANGED <<setup, slots, scratch, seeded>>

DiffReturn == call.op = "diff" /\ Return

-----------------------------------------------------------------------------
(* diff_vanished *)

VanishCall ==
    /\ HostMayDiff
    /\ call' = [Idle EXCEPT !.op = "vanished", !.next = 1]
    /\ UNCHANGED <<setup, slots, scratch, history>>

\* One iteration over the slots, in seed order.
VanishSkip ==
    /\ call.op = "vanished" /\ call.next <= Len(order)
    /\ order[call.next] \in taken
    /\ call' = [call EXCEPT !.next = @ + 1]
    /\ UNCHANGED <<setup, slots, scratch, history>>

\* Mutant: a slot whose first cell is bad ends the call before it is taken.
VanishTake_PeeksFirst ==
    /\ call.op = "vanished" /\ call.next <= Len(order)
    /\ order[call.next] \notin taken
    /\ LET s == order[call.next]
           outcome == [i \in 1 .. Len(cells[s]) |-> Branch4(s, cells[s][i])]
           entries == Append(call.entries, Entry(s, <<>>))
       IN  IF Throws(outcome)
           THEN call' = Idle /\ log' = log \o Failed(call.entries) /\ UNCHANGED slots
           ELSE /\ Take(s)
                /\ call' = [op |-> "vanished", next |-> call.next + 1,
                            entries |-> entries,
                            out |-> More(call.out, ChangesOf(outcome, ThisLookup),
                                         0, 0, 1)]
                /\ UNCHANGED log
    /\ UNCHANGED <<setup, scratch, report, seeded>>

VanishTake ==
    /\ call.op = "vanished" /\ call.next <= Len(order)
    /\ order[call.next] \notin taken
    /\ LET s == order[call.next]
           outcome == [i \in 1 .. Len(cells[s]) |-> Branch4(s, cells[s][i])]
           entries == Append(call.entries, Entry(s, <<>>))
       IN  /\ Take(s)
           /\ IF Throws(outcome)
              THEN call' = Idle /\ log' = log \o Failed(entries)
              ELSE /\ call' = [op |-> "vanished", next |-> call.next + 1,
                                entries |-> entries,
                                out |-> More(call.out, ChangesOf(outcome, ThisLookup),
                                             0, 0, 1)]
                   /\ UNCHANGED log
    /\ UNCHANGED <<setup, scratch, report, seeded>>

\* Mutant: the drain returns with the last slot unvisited.
VanishReturn_OneShort == call.op = "vanished" /\ call.next >= Len(order) /\ Return

VanishReturn == call.op = "vanished" /\ call.next > Len(order) /\ Return

-----------------------------------------------------------------------------
Next ==
    \/ \E p \in Pins : SetPinned(p[1], p[2])
    \/ \E s \in Subjects : SeedEmpty(s)
    \/ \E s \in Subjects, c \in Cell : Seed(s, c)
    \/ Seal
    \/ \E s \in Subjects, row \in Rows : DiffRow(s, row)
    \/ DiffReturn
    \/ VanishCall
    \/ VanishSkip
    \/ VanishTake
    \/ VanishReturn

Spec == Init /\ [][Next]_vars

\* A call in progress runs on; the host seals its session, and asks for the
\* vanished subjects again as long as the drain has not succeeded.
FairSpec ==
    /\ Spec
    /\ WF_vars(Seal)
    /\ WF_vars(DiffReturn)
    /\ WF_vars(VanishCall)
    /\ WF_vars(VanishSkip \/ VanishTake \/ VanishReturn)

-----------------------------------------------------------------------------
(* Types *)

Changes == [subject : Subjects, target : Targets,
            how : {"added", "changed", "removed"}, kind : Kinds,
            old : Vals \cup {Absent}, new : Vals \cup {Absent}]
Output == [changes : SUBSET [at : Nat \X Nat, change : Changes],
           rows : Nat, added : Nat, removed : Nat]
LogEntry == [subject : Subjects, row : Rows \cup {<<>>}, ok : BOOLEAN]

\* Type invariant of the session and of the history kept beside it.
TypeOK ==
    /\ pinned \in [Targets -> Kinds \cup {NoKind}]
    /\ order \in Seq(Subjects) /\ taken \subseteq Subjects
    /\ cells \in [Subjects -> Seq(Cell)]
    /\ resident \in Nat /\ initial \in Nat /\ sealed \in BOOLEAN
    /\ epoch \in Nat
    /\ priorEpoch \in [Targets -> Nat] /\ rowEpoch \in [Targets -> Nat]
    /\ priorIdx \in [Targets -> Nat]
    /\ call \in [op : {"idle", "diff", "vanished"}, next : Nat,
                  out : Output, entries : Seq(LogEntry)]
    /\ report \in Output
    /\ log \in Seq(LogEntry)
    /\ seeded \in [Subjects -> SUBSET Cell]

-----------------------------------------------------------------------------
(* What the session promises *)

Places == UNION {{s} \X (1 .. Len(cells[s])) : s \in Subjects}

\* resident_cell_count is the number of cells the slots hold, at every step:
\* the count is kept by hand in seed, diff_batch and diff_vanished.
ResidentExact == resident = Cardinality(Places)

\* A tombstoned slot holds nothing: what a row consumed is not diffed again.
TakenHoldNothing == \A s \in taken : Listed(s) /\ cells[s] = <<>>

\* Once sealed the count never grows (the AC-11 memory shape).
ResidentOnlyFalls == [][sealed => resident' <= resident]_vars

\* A diff_vanished that returns leaves no cell resident.
DrainEmpties == [][VanishReturn => resident = 0]_vars

\* What a row or a vanished subject must be compared with: the seeded prior
\* week if this is the subject's first lookup, and nothing otherwise.
PriorWeek(i) ==
    IF \E j \in 1 .. i - 1 : log[j].subject = log[i].subject
    THEN {} ELSE seeded[log[i].subject]

Week(i) == {log[i].row[k] : k \in DOMAIN log[i].row}

\* The changes between two weeks of one subject, defined target by target.
WeekChanges(s, old, new) ==
    LET gone == {c \in old : \A x \in new : x.target # c.target}
        come == {x \in new : \A c \in old : x.target # c.target}
        both == {p \in old \X new : /\ p[1].target = p[2].target
                                    /\ ~StrictEq(p[1].val, p[2].val)}
    IN  {Change(s, x.target, "added", pinned[x.target], Absent, x.val) : x \in come}
        \cup
        {Change(s, p[1].target, "changed", p[1].kind, p[1].val, p[2].val) : p \in both}
        \cup
        {Change(s, c.target, "removed", c.kind, c.val, Absent) : c \in gone}

\* Whatever the batches, and whichever of them fail, the host holds exactly the
\* declarative diff of the rows of the calls that returned, each change once per
\* lookup. A duplicate subject is all added; a failed call contributes nothing
\* and its subjects are not diffed again.
ReportIsExact ==
    LET diff == UNION {{i} \X WeekChanges(log[i].subject, PriorWeek(i), Week(i)) :
                          i \in {j \in DOMAIN log : log[j].ok}}
    IN  call = Idle =>
        /\ {<<c.at[1], c.change>> : c \in report.changes} = diff
        /\ Cardinality(report.changes) = Cardinality(diff)

\* Applying the reported changes to the prior week gives the incoming week, when
\* no call failed, no subject came twice and the vanished were drained.
Patched(s) ==
    LET mine == {c.change : c \in {d \in report.changes : d.change.subject = s}}
        kept == {c \in seeded[s] : \A m \in mine : m.target # c.target}
    IN  {[target |-> c.target, val |-> c.val] : c \in kept}
        \cup {[target |-> m.target, val |-> m.new] : m \in {x \in mine : x.new # Absent}}

PatchGivesWeek ==
    (/\ call = Idle /\ resident = 0
     /\ \A i \in DOMAIN log : log[i].ok
     /\ \A i, j \in DOMAIN log : log[i].subject = log[j].subject => i = j)
    => \A i \in DOMAIN log : Patched(log[i].subject) = Week(i)

\* The subjects whose first lookup returned, and those whose first lookup threw.
FirstLookup(ok) ==
    {s \in Subjects :
        /\ Listed(s)
        /\ \E i \in DOMAIN log :
               /\ log[i].subject = s /\ log[i].ok = ok
               /\ \A j \in 1 .. i - 1 : log[j].subject # s}

\* Call by call, the session settles or forfeits each subject at most once.
\* What the call in progress has taken is still open: it may yet throw.
InCall == {s \in Subjects : \E i \in DOMAIN call.entries : call.entries[i].subject = s}
Ledger == INSTANCE WeekLedger WITH
    open <- {s \in Subjects :
                Listed(s) /\ (s \notin taken
                              \/ s \in InCall \ (FirstLookup(TRUE) \cup FirstLookup(FALSE)))},
    settled <- FirstLookup(TRUE),
    forfeited <- FirstLookup(FALSE)
LedgerSpec == Ledger!Spec

\* A stamp never comes from the future, so after an error left the scratch
\* half-written, no target of the next row is taken for one the slot holds.
StampsAreOld ==
    \A t \in Targets : priorEpoch[t] <= epoch /\ rowEpoch[t] <= epoch

\* Every diff_vanished call that fails has consumed a subject, so a host that
\* calls it again ends with an empty session: no cell can block the drain.
DrainCompletes == sealed ~> (call = Idle /\ resident = 0)

=============================================================================
