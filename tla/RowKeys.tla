------------------------------- MODULE RowKeys -------------------------------
(***************************************************************************)
(* How a saved adjustment finds its employee again after the file has been *)
(* corrected: the row keys of engine/src/row_key.rs, the rows the builder  *)
(* analyses, and what verify_inner and check_defensibility_on make of the  *)
(* adjustments they are given.                                             *)
(*                                                                         *)
(* The calls keep nothing: the ledger is what a client saves from one and  *)
(* hands to the next, and the file is corrected in between. A digest is    *)
(* taken to tell contents apart; the regressions are left out.             *)
(***************************************************************************)
EXTENDS Integers, Sequences, FiniteSets, Functions

CONSTANTS
    Columns,        \* the columns of the file
    KeyColumns,     \* those with an accepted header, in file order
    Outcome, Group, Predictors,   \* the columns the model reads
    Reference,      \* the reference group's value
    Employees,
    Starts,         \* the files a project may begin with
    Corrections(_), \* file -> what its owner may turn it into
    Overrides,      \* what an adjustment may override: functions on Predictors
    MaxEntries,     \* bounds: the adjustments saved,
    MaxChanges      \* and with them the corrections made

NoCell == -1
Model == {Outcome, Group} \cup Predictors
Rows == [who : Employees, cells : [Columns -> Nat \cup {NoCell}]]
Files == Seq(Rows) \ {<<>>}

ASSUME ConstantsTyped ==
    /\ KeyColumns \in Seq(Columns) /\ Model \subseteq Columns
    /\ Reference \in Nat /\ MaxEntries \in Nat /\ MaxChanges \in Nat
    \* an override that is no number is not taken
    /\ \A o \in Overrides : DOMAIN o \subseteq Predictors /\ Range(o) \subseteq Nat

VARIABLES
    file,
    ledger,    \* the adjustments saved, in the order they are sent
    verified, scored,   \* the last answers of the two calls
    changes    \* what has been saved and corrected so far

vars == <<file, ledger, verified, scored, changes>>

Unasked == [state |-> "unasked", paid |-> <<>>, unresolved |-> 0, excluded |-> 0]
Error == [Unasked EXCEPT !.state = "error"]

Init ==
    /\ file \in Starts
    /\ ledger = <<>> /\ changes = 0
    /\ verified = Unasked /\ scored = Unasked

-----------------------------------------------------------------------------
(* The keys of a file *)

\* The columns that only count the rows, from 0 or from 1.
Counters(f) ==
    {c \in Columns :
        /\ Len(f) > 1
        /\ \E base \in {0, 1} :
              \A i \in DOMAIN f : f[i].cells[c] = i - 1 + base}

\* A number column names every row, no two alike, and is no row counter.
Qualifies(f, c) ==
    /\ c \notin Counters(f)
    /\ \A i \in DOMAIN f : f[i].cells[c] # NoCell
    /\ \A i, j \in DOMAIN f : i # j => f[i].cells[c] # f[j].cells[c]

Qualifying(f) == {k \in DOMAIN KeyColumns : Qualifies(f, KeyColumns[k])}

\* The position in KeyColumns of the number column, 0 for none.
KeyColumn(f) ==
    IF Qualifying(f) = {} THEN 0
    ELSE CHOOSE k \in Qualifying(f) : \A l \in Qualifying(f) : k <= l

NoContent == [c \in {} |-> 0]
NoKey == [number |-> NoCell, content |-> NoContent]
ByNumber(n) == [number |-> n, content |-> NoContent]
ByContent(d) == [number |-> NoCell, content |-> d]

\* Mutant: the row counters are digested too.
Digests_Whole(f) == [i \in DOMAIN f |-> f[i].cells]

Digests(f) ==
    LET columns == Columns \ Counters(f)
    IN  [i \in DOMAIN f |-> [c \in columns |-> f[i].cells[c]]]

\* Mutant: rows alike are told apart by their order.
ContentKeys_Ordinal(f) ==
    LET digest == Digests(f)
        nth(i) == Cardinality({j \in 1..i : digest[j] = digest[i]})
    IN  [i \in DOMAIN f |->
            ByContent([c \in DOMAIN digest[i] \cup {"#"} |->
                          IF c = "#" THEN nth(i) ELSE digest[i][c]])]

\* A row that reads like another has no key.
ContentKeys(f) ==
    LET digest == Digests(f)
    IN  [i \in DOMAIN f |->
            IF \E j \in DOMAIN f : j # i /\ digest[j] = digest[i] THEN NoKey
            ELSE ByContent(digest[i])]

KeyTable(f) ==
    IF KeyColumn(f) = 0 THEN ContentKeys(f)
    ELSE [i \in DOMAIN f |-> ByNumber(f[i].cells[KeyColumns[KeyColumn(f)]])]

Nowhere == 0
Keyed(table, key) == {i \in DOMAIN table : table[i] = key}

\* The row an adjustment is for: its key decides, its index only without one.
Resolve(table, e) ==
    IF e.key = NoKey THEN e.index
    ELSE IF Keyed(table, e.key) = {} THEN Nowhere
    ELSE CHOOSE i \in Keyed(table, e.key) : \A j \in Keyed(table, e.key) : i <= j

\* Where each entry of the ledger lands in the file as it is.
Landings ==
    LET table == KeyTable(file) IN [k \in DOMAIN ledger |-> Resolve(table, ledger[k])]

-----------------------------------------------------------------------------
(* The rows analysed *)

Analysed(f) == {i \in DOMAIN f : \A c \in Model : f[i].cells[c] # NoCell}

Refused(f) ==
    LET values == {f[i].cells[Group] : i \in DOMAIN f} \ {NoCell}
    IN  \/ Reference \notin values
        \/ Cardinality(values) > 2
        \/ Cardinality({f[i].cells[Group] : i \in Analysed(f)}) < 2

-----------------------------------------------------------------------------
(* The project between calls *)

\* A remedy's adjustment for an analysed row is saved, its key with it unless
\* the client is one that knows only indices; the amount stands for its order.
Save(i, keyed, override) ==
    /\ Len(ledger) < MaxEntries /\ changes < MaxChanges
    /\ ~Refused(file) /\ i \in Analysed(file)
    /\ ledger' = Append(ledger,
           [index |-> i, key |-> IF keyed THEN KeyTable(file)[i] ELSE NoKey,
            amount |-> Len(ledger) + 1, override |-> override,
            \* what the row was when this was saved
            was |-> file[i], column |-> KeyColumn(file),
            counters |-> Counters(file)])
    /\ verified' = Unasked /\ scored' = Unasked
    /\ changes' = changes + 1
    /\ UNCHANGED file

Correct(f) ==
    /\ changes < MaxChanges
    /\ changes' = changes + 1
    /\ file' = f
    /\ verified' = Unasked /\ scored' = Unasked
    /\ UNCHANGED ledger

-----------------------------------------------------------------------------
(* The two calls *)

Amounts == [k \in DOMAIN ledger |-> ledger[k].amount]
Landing(at, i) == {k \in DOMAIN at : at[k] = i}

\* verify_inner raises the wages of the rows analysed, an entry at a time.
Verified ==
    LET rows == Analysed(file)
        at == Landings
    IN  [state |-> "done",
         paid |-> [i \in DOMAIN file |->
                      IF i \in rows THEN SumFunctionOnSet(Amounts, Landing(at, i))
                      ELSE 0],
         unresolved |-> Cardinality(Landing(at, Nowhere)),
         excluded |-> Cardinality({k \in DOMAIN at : at[k] \notin rows \cup {Nowhere}})]

Verify ==
    /\ verified' = IF Refused(file) THEN Error ELSE Verified
    /\ UNCHANGED <<file, ledger, scored, changes>>

\* The entries for row i that override column c: the last one is taken.
Overriding(at, i, c) == {k \in Landing(at, i) : c \in DOMAIN ledger[k].override}

Overridden ==
    LET at == Landings
        last(i, c) == CHOOSE k \in Overriding(at, i, c) :
                          \A l \in Overriding(at, i, c) : l <= k
    IN  [i \in DOMAIN file |->
            [file[i] EXCEPT !.cells =
                [c \in Columns |-> IF Overriding(at, i, c) = {} THEN @[c]
                                   ELSE ledger[last(i, c)].override[c]]]]

\* Mutant: of several entries for a row the first is scored.
Merged_First(at, i) ==
    IF Landing(at, i) = {} THEN 0
    ELSE Amounts[CHOOSE k \in Landing(at, i) : \A l \in Landing(at, i) : k <= l]

\* A row's entries are merged into one.
Merged(at, i) == SumFunctionOnSet(Amounts, Landing(at, i))

\* check_defensibility_on overrides cells before it sees which rows are
\* analysed, and counts a merged entry once.
Scored ==
    LET rows == Analysed(Overridden)
        at == Landings
    IN  [state |-> "done",
         paid |-> [i \in DOMAIN file |-> IF i \in rows THEN Merged(at, i) ELSE 0],
         unresolved |-> Cardinality(Landing(at, Nowhere)),
         excluded |-> Cardinality({at[k] : k \in DOMAIN at} \ (rows \cup {Nowhere}))]

Defend ==
    /\ scored' = IF Refused(Overridden) THEN Error ELSE Scored
    /\ UNCHANGED <<file, ledger, verified, changes>>

-----------------------------------------------------------------------------

Next ==
    \/ \E i \in DOMAIN file, keyed \in BOOLEAN, override \in Overrides :
          Save(i, keyed, override)
    \/ \E f \in Corrections(file) : Correct(f)
    \/ Verify
    \/ Defend

Spec == Init /\ [][Next]_vars

-----------------------------------------------------------------------------
(* Properties *)

IsKey(key) ==
    /\ key.number \in Nat \cup {NoCell}
    /\ DOMAIN key.content \subseteq Columns
    /\ \A c \in DOMAIN key.content : key.content[c] \in Nat \cup {NoCell}

IsEntry(e) ==
    /\ e.index \in Nat \ {0} /\ IsKey(e.key) /\ e.amount \in Nat \ {0}
    /\ e.override \in Overrides /\ e.was \in Rows
    /\ e.column \in 0..Len(KeyColumns) /\ e.counters \subseteq Columns

IsAnswer(a) ==
    /\ a.state \in {"unasked", "error", "done"}
    /\ a.paid \in Seq(Nat) /\ a.unresolved \in Nat /\ a.excluded \in Nat
    /\ a.state = "done" => Len(a.paid) = Len(file)

\* Types of the variables.
TypeOK ==
    /\ file \in Files
    /\ \A k \in DOMAIN ledger : IsEntry(ledger[k])
    /\ IsAnswer(verified) /\ IsAnswer(scored)
    /\ changes \in 0..MaxChanges

\* Row i is that of e's employee and still reads as when e was saved, on every
\* column but the file's counters.
StillReads(e, i) ==
    \A c \in Columns \ Counters(file) : file[i].cells[c] = e.was.cells[c]
Stands(e, i) == file[i].who = e.was.who /\ StillReads(e, i)

\* A keyed adjustment never lands on another employee's row while its own
\* employee's still reads as it did when it was saved, whatever was corrected:
\* rows inserted, removed, moved, blanked or made alike. (The row keys exist
\* for this: an index lands on whoever has moved to that position.)
NeverTheNeighbour ==
    LET at == Landings
    IN  \A k \in DOMAIN ledger :
            ledger[k].key # NoKey /\ at[k] # Nowhere =>
                \A i \in DOMAIN file : Stands(ledger[k], i) => i = at[k]

\* A keyed adjustment whose employee's row still reads as it did is found
\* again, unless the file now takes its keys from elsewhere (another number
\* column, or columns that begin or cease to count rows) or has a row alike.
OrphanedForAReason ==
    LET at == Landings
    IN  \A k \in DOMAIN ledger :
            /\ ledger[k].key # NoKey /\ at[k] = Nowhere
            /\ KeyColumn(file) = ledger[k].column
            /\ Counters(file) = ledger[k].counters
            => \A i \in DOMAIN file : Stands(ledger[k], i) =>
                   \E j \in DOMAIN file \ {i} : StillReads(ledger[k], j)

\* Whichever call is asked, a schedule pays an employee the same: the one that
\* raises wages entry by entry and the one that merges a row's entries first.
\* They differ only on rows an override brings back. Verify loses no entry.
OneSchedule ==
    /\ verified.state = "done" /\ scored.state = "done" =>
          /\ \A i \in Analysed(file) : scored.paid[i] = verified.paid[i]
          /\ scored.unresolved = verified.unresolved
    /\ verified.state = "done" =>
          Len(ledger) = verified.unresolved + verified.excluded
              + Cardinality({k \in DOMAIN ledger :
                    \E i \in DOMAIN file : Landings[k] = i /\ verified.paid[i] > 0})
=============================================================================
