------------------------ MODULE SnapshotDiff_proofs ------------------------
(***************************************************************************)
(* Proofs about the diff session, for every set of subjects, targets,      *)
(* kinds, values and rows.                                                 *)
(*                                                                         *)
(* What holds in any order of calls comes first: types, scratch stamps and *)
(* the resident count (IInv). Then, for hosts that keep the documented     *)
(* order, what the lookups have told (History): the report is the          *)
(* difference of the two weeks, and the session implements WeekLedger.     *)
(***************************************************************************)
EXTENDS SnapshotDiff, FiniteSetTheorems, SequenceTheorems, WellFoundedInduction, TLAPS

USE DisjointValues, RowsAreObjects, BoundsAndPins

-----------------------------------------------------------------------------
(* What one lookup may yield *)

Outcomes == [tag : {"change"}, change : Changes]
            \cup [tag : {"error"}, class : {"ValueKindError", "ValueTypeError"}]
            \cup [tag : {"silent"}]

\* An added cell gives a change or an error.
LEMMA Branch1Type ==
    ASSUME pinned \in [Targets -> Kinds \cup {NoKind}],
           NEW s \in Subjects, NEW x \in Incoming
    PROVE  Branch1(s, x) \in Outcomes
  BY DEF Branch1, Outcomes, Emit, Fail, Change, Changes, Incoming, Vals, Kinds, Fits

\* A cell on both sides gives a change or an error.
LEMMA Branch3Type ==
    ASSUME NEW s \in Subjects, NEW p \in Cell, NEW x \in Incoming
    PROVE  Branch3(s, p, x) \in Outcomes
  BY DEF Branch3, Outcomes, Emit, Fail, Change, Changes, Incoming, Cell

\* A removed cell gives a change or an error.
LEMMA Branch4Type ==
    ASSUME NEW s \in Subjects, NEW p \in Cell
    PROVE  Branch4(s, p) \in Outcomes
  BY DEF Branch4, Outcomes, Emit, Fail, Change, Changes, Cell

\* The changes of a lookup are placed changes.
LEMMA ChangesOfType ==
    ASSUME NEW n \in Nat, NEW k \in Nat, NEW outcome \in [1 .. k -> Outcomes]
    PROVE  ChangesOf(outcome, n) \in SUBSET [at : Nat \X Nat, change : Changes]
  <1> SUFFICES ASSUME NEW i \in 1 .. k, outcome[i].tag = "change"
               PROVE  outcome[i].change \in Changes
    BY DEF ChangesOf
  <1> QED
    BY DEF Outcomes

\* The stamp arrays answer exactly "does the slot hold this target, and where":
\* a stamp left behind by an earlier row, or by one that failed half-way, is
\* older than the stamp of this look.
LEMMA LookupIsExact ==
    ASSUME TypeOK, StampsAreOld, NEW slot \in Seq(Cell), NEW t \in Targets
    PROVE  /\ Stamped(slot)[t] = epoch + 1 <=> At(slot, t) # {}
           /\ At(slot, t) # {} =>
                /\ Indexed(slot)[t] \in DOMAIN slot
                /\ slot[Indexed(slot)[t]].target = t
  BY DEF TypeOK, StampsAreOld, Stamped, Indexed, At

\* Looking at a slot keeps the stamps typed, and none ahead of this look.
LEMMA ScratchType ==
    ASSUME TypeOK, StampsAreOld, NEW slot \in Seq(Cell)
    PROVE  /\ Stamped(slot) \in [Targets -> Nat]
           /\ Indexed(slot) \in [Targets -> Nat]
           /\ \A t \in Targets : Stamped(slot)[t] <= epoch + 1
  <1>1. \A t \in Targets : At(slot, t) # {} => (CHOOSE i \in At(slot, t) : TRUE) \in Nat
    BY DEF At
  <1> QED
    BY <1>1 DEF TypeOK, StampsAreOld, Stamped, Indexed

\* A row has an outcome for each of its cells and each prior cell.
LEMMA RowOutcomeType ==
    ASSUME TypeOK, StampsAreOld, NEW s \in Subjects, NEW slot \in Seq(Cell),
           NEW row \in Seq(Incoming), NEW held
    PROVE  RowOutcome(s, slot, row, Stamped(slot), Indexed(slot), held, epoch + 1)
              \in [1 .. Len(row) + Len(slot) -> Outcomes]
  <1>0. row \in Seq(Incoming)
    OBVIOUS
  <1>1. \A i \in 1 .. Len(row) :
          CellOutcome(s, slot, Stamped(slot), Indexed(slot), epoch + 1, row[i]) \in Outcomes
    <2> SUFFICES ASSUME NEW x \in Incoming
                 PROVE  CellOutcome(s, slot, Stamped(slot), Indexed(slot), epoch + 1, x)
                          \in Outcomes
      BY <1>0
    <2>1. x.target \in Targets
      BY DEF Incoming
    <2>2. CASE Stamped(slot)[x.target] # epoch + 1
      BY <2>2, Branch1Type DEF CellOutcome, TypeOK
    <2>3. CASE Stamped(slot)[x.target] = epoch + 1
      <3>1. slot[Indexed(slot)[x.target]] \in Cell
        BY <2>1, <2>3, LookupIsExact
      <3>2. Silent \in Outcomes
        BY DEF Silent, Outcomes
      <3> QED
        BY <2>3, <3>1, <3>2, Branch3Type DEF CellOutcome
    <2> QED
      BY <2>2, <2>3
  <1>2. ASSUME NEW i \in 1 .. Len(row) + Len(slot), ~(i <= Len(row))
        PROVE  slot[i - Len(row)] \in Cell
    <2>1. i - Len(row) \in 1 .. Len(slot)
      BY <1>0, <1>2
    <2> QED
      BY <2>1
  <1>3. Silent \in Outcomes
    BY DEF Silent, Outcomes
  <1>4. ASSUME NEW i \in 1 .. Len(row) + Len(slot), i <= Len(row)
        PROVE  i \in 1 .. Len(row)
    BY <1>0, <1>4
  <1> QED
    BY <1>1, <1>2, <1>3, <1>4, Branch4Type DEF RowOutcome

-----------------------------------------------------------------------------
(* The inductive invariant *)

Base == TypeOK /\ StampsAreOld

\* diff_vanished has consumed every slot it has passed.
VanishScan ==
    call.op = "vanished" =>
        call.next >= 1 /\ \A i \in DOMAIN order : i < call.next => order[i] \in taken

\* A subject enters the slots, and nobody leaves them.
LEMMA SlottedType ==
    ASSUME order \in Seq(Subjects), NEW s \in Subjects, order' = Slotted(s)
    PROVE  order' \in Seq(Subjects) /\ Listed(s)' /\ \A u : Listed(u)' <=> u = s \/ Listed(u)
  <1>1. CASE Listed(s)
    BY <1>1 DEF Slotted, Listed
  <1>2. CASE ~Listed(s)
    <2>1. order' = Append(order, s)
      BY <1>2 DEF Slotted
    <2>2. /\ order' \in Seq(Subjects) /\ Len(order') = Len(order) + 1
          /\ order'[Len(order) + 1] = s
          /\ \A i \in 1 .. Len(order) : order'[i] = order[i]
      BY <2>1, AppendProperties
    <2>3. DOMAIN order = 1 .. Len(order) /\ DOMAIN order' = 1 .. Len(order) + 1
          /\ Len(order) \in Nat
      BY <2>2
    <2>4. \A i \in DOMAIN order' : i \in DOMAIN order \/ i = Len(order) + 1
      BY <2>3
    <2>5. \A i \in DOMAIN order : i \in DOMAIN order'
      BY <2>3
    <2>6. Len(order) + 1 \in DOMAIN order'
      BY <2>3
    <2> QED
      BY <2>2, <2>3, <2>4, <2>5, <2>6 DEF Listed
  <1> QED
    BY <1>1, <1>2

\* An empty output is an output.
LEMMA OutputType ==
    /\ NoOutput \in Output
    /\ Idle \in [op : {"idle", "diff", "vanished"}, next : Nat,
                 out : Output, entries : Seq(LogEntry)]
  BY DEF NoOutput, Idle, Output

\* A failed call's entries are entries.
LEMMA FailedType ==
    ASSUME NEW entries \in Seq(LogEntry)
    PROVE  Failed(entries) \in Seq(LogEntry)
  <1>0. \A e \in LogEntry : [subject |-> e.subject, row |-> e.row, ok |-> FALSE] \in LogEntry
    BY DEF LogEntry
  <1>1. Failed(entries) \in [1 .. Len(entries) -> LogEntry]
    BY <1>0 DEF Failed
  <1> QED
    BY <1>1

\* An output with more in it is an output.
LEMMA MoreType ==
    ASSUME NEW out \in Output, NEW changes \in SUBSET [at : Nat \X Nat, change : Changes],
           NEW rows \in Nat, NEW added \in Nat, NEW removed \in Nat
    PROVE  More(out, changes, rows, added, removed) \in Output
  <1> DEFINE Placed == [at : Nat \X Nat, change : Changes]
  <1> HIDE DEF Placed
  <1>1. /\ out.changes \in SUBSET Placed /\ changes \in SUBSET Placed
        /\ out.rows \in Nat /\ out.added \in Nat /\ out.removed \in Nat
    BY DEF Output, Placed
  <1>2. More(out, changes, rows, added, removed)
          \in [changes : SUBSET Placed, rows : Nat, added : Nat, removed : Nat]
    BY <1>1 DEF More
  <1> QED
    BY <1>2 DEF Output, Placed

\* A call in progress that gains the changes of one more lookup.
LEMMA CallType ==
    ASSUME TypeOK, NEW s \in Subjects, NEW row \in Rows \cup {<<>>},
           NEW k \in Nat, NEW outcome \in [1 .. k -> Outcomes]
    PROVE  /\ \A rows, added, removed \in Nat :
                 More(call.out, ChangesOf(outcome, ThisLookup), rows, added, removed)
                   \in Output
           /\ Append(call.entries, Entry(s, row)) \in Seq(LogEntry)
  <1>1. ThisLookup \in Nat
    BY DEF TypeOK, ThisLookup
  <1>2. ChangesOf(outcome, ThisLookup) \in SUBSET [at : Nat \X Nat, change : Changes]
    BY <1>1, ChangesOfType
  <1>3. Entry(s, row) \in LogEntry
    BY DEF Entry, LogEntry
  <1>4. call.out \in Output /\ call.entries \in Seq(LogEntry)
    BY DEF TypeOK
  <1>5. Append(call.entries, Entry(s, row)) \in Seq(LogEntry)
    BY <1>3, <1>4
  <1>6. \A rows, added, removed \in Nat :
            More(call.out, ChangesOf(outcome, ThisLookup), rows, added, removed) \in Output
    BY <1>2, <1>4, MoreType
  <1> QED
    BY <1>5, <1>6

\* Taking a slot leaves slots.
LEMMA TakeType ==
    ASSUME TypeOK, NEW s \in Subjects, Take(s)
    PROVE  taken' \subseteq Subjects /\ cells' \in [Subjects -> Seq(Cell)]
  BY DEF TypeOK, Take

\* Seeding keeps the types and the stamps.
LEMMA SeedBase ==
    ASSUME Base, resident' \in Nat, NEW s \in Subjects, NEW c \in Cell, Seed(s, c)
    PROVE  Base'
  <1> DEFINE slot == cells[s]
  <1>0. slot \in Seq(Cell) /\ c.target \in Targets
    BY DEF Base, TypeOK, Cell
  <1>1. /\ Stamped(slot) \in [Targets -> Nat] /\ Indexed(slot) \in [Targets -> Nat]
        /\ \A t \in Targets : Stamped(slot)[t] <= epoch + 1
    BY <1>0, ScratchType DEF Base
  <1>2. cells' \in [Subjects -> Seq(Cell)]
    <2>1. \A at \in 1 .. Len(slot) : [slot EXCEPT ![at] = c] \in Seq(Cell)
      <3> HIDE DEF slot
      <3> QED
        BY <1>0, ExceptSeq
    <2>2. Append(slot, c) \in Seq(Cell)
      BY <1>0
    <2> HIDE DEF slot
    <2>3. \E new \in Seq(Cell) : cells' = [cells EXCEPT ![s] = new]
      <3> USE DEF slot
      <3>1. CASE Stamped(slot)[c.target] = epoch + 1
        <4>1. Indexed(slot)[c.target] \in 1 .. Len(slot)
          BY <1>0, <3>1, LookupIsExact DEF Base
        <4> QED
          BY <2>1, <3>1, <4>1 DEF Seed
      <3>2. CASE Stamped(slot)[c.target] # epoch + 1
        BY <2>2, <3>2 DEF Seed
      <3> QED
        BY <3>1, <3>2
    <2> QED
      BY <2>3 DEF Base, TypeOK
  <1>3. order' \in Seq(Subjects)
    BY DEF Base, TypeOK, Seed, Slotted
  <1>4. priorIdx' \in [Targets -> Nat] /\ priorEpoch' \in [Targets -> Nat]
        /\ \A t \in Targets : priorEpoch'[t] <= epoch'
    <2> DEFINE known == Stamped(slot)[c.target] = epoch + 1
               at == IF known THEN Indexed(slot)[c.target] ELSE Len(slot) + 1
    <2>1. at \in Nat /\ epoch \in Nat
      BY <1>0, <1>1 DEF Base, TypeOK
    <2>2. /\ priorEpoch' = [Stamped(slot) EXCEPT ![c.target] = epoch + 1]
          /\ priorIdx' = [Indexed(slot) EXCEPT ![c.target] = at]
          /\ epoch' = epoch + 1
      BY DEF Seed
    <2> HIDE DEF at, slot
    <2> QED
      BY <1>0, <1>1, <2>1, <2>2
  <1>5. seeded' \in [Subjects -> SUBSET Cell]
    BY DEF Base, TypeOK, Seed
  <1>6. /\ UNCHANGED <<pinned, initial, sealed, taken, rowEpoch, call, report, log>>
        /\ epoch' = epoch + 1
    BY DEF Seed, setup
  <1> QED
    BY <1>2, <1>3, <1>4, <1>5, <1>6 DEF Base, TypeOK, StampsAreOld

\* Stamping a row's targets keeps the row stamps typed, and none ahead.
LEMMA HeldType ==
    ASSUME Base, NEW row, NEW n
    PROVE  /\ Held(row, n) \in [Targets -> Nat]
           /\ \A t \in Targets : Held(row, n)[t] <= epoch + 1
  BY DEF Base, TypeOK, StampsAreOld, Held

\* A row keeps the types and the stamps, whether it throws or not.
LEMMA DiffRowBase ==
    ASSUME Base, resident' \in Nat, NEW s \in Subjects, NEW row \in Rows, DiffRow(s, row)
    PROVE  Base'
  <1> DEFINE prior == IF Live(s) THEN cells[s] ELSE <<>>
             held == Held(row, Len(row))
             outcome == RowOutcome(s, prior, row, Stamped(prior), Indexed(prior),
                                   held, epoch + 1)
             entries == Append(call.entries, Entry(s, row))
  <1>0. prior \in Seq(Cell)
    BY DEF Base, TypeOK
  <1>1. outcome \in [1 .. Len(row) + Len(prior) -> Outcomes]
    BY <1>0, RowOutcomeType DEF Base
  <1>2. Len(row) + Len(prior) \in Nat
    BY <1>0
  <1>3. /\ \A rows, added, removed \in Nat :
              More(call.out, ChangesOf(outcome, ThisLookup), rows, added, removed) \in Output
        /\ entries \in Seq(LogEntry)
    <2> HIDE DEF outcome, prior
    <2> QED
      BY <1>1, <1>2, CallType DEF Base
  <1>4. /\ priorEpoch' \in [Targets -> Nat] /\ priorIdx' \in [Targets -> Nat]
        /\ \A t \in Targets : priorEpoch'[t] <= epoch'
    BY <1>0, ScratchType DEF Base, DiffRow
  <1>5. rowEpoch' \in [Targets -> Nat] /\ \A t \in Targets : rowEpoch'[t] <= epoch'
    BY HeldType DEF DiffRow
  <1>6. /\ call' \in [op : {"idle", "diff", "vanished"}, next : Nat,
                      out : Output, entries : Seq(LogEntry)]
        /\ log' \in Seq(LogEntry)
    <2>1. CASE Throws(outcome)
      <3>1. call' = Idle /\ log' = log \o Failed(entries)
        BY <2>1 DEF DiffRow
      <3> HIDE DEF entries
      <3> QED
        BY <3>1, <1>3, FailedType, OutputType DEF Base, TypeOK
    <2>2. CASE ~Throws(outcome)
      <3> DEFINE out == More(call.out, ChangesOf(outcome, ThisLookup),
                             1, IF Live(s) THEN 0 ELSE 1, 0)
      <3>1. /\ call' = [op |-> "diff", next |-> 0, entries |-> entries, out |-> out]
            /\ log' = log
        BY <2>2 DEF DiffRow
      <3>2. out \in Output
        BY <1>3
      <3> HIDE DEF entries, out
      <3> QED
        BY <3>1, <3>2, <1>3 DEF Base, TypeOK
    <2> QED
      BY <2>1, <2>2
  <1>7. taken' \subseteq Subjects /\ cells' \in [Subjects -> Seq(Cell)]
    BY TakeType DEF DiffRow, Base
  <1>8. /\ UNCHANGED <<pinned, initial, sealed, order, report, seeded>>
        /\ epoch' = epoch + 1
    BY DEF DiffRow, Take, setup
  <1> HIDE DEF outcome, prior, held, entries
  <1> QED
    BY <1>4, <1>5, <1>6, <1>7, <1>8 DEF Base, TypeOK, StampsAreOld

\* A drained slot keeps the types and the stamps.
LEMMA VanishTakeBase ==
    ASSUME Base, VanishScan, resident' \in Nat, VanishTake
    PROVE  Base'
  <1> DEFINE s == order[call.next]
             outcome == [i \in 1 .. Len(cells[s]) |-> Branch4(s, cells[s][i])]
             entries == Append(call.entries, Entry(s, <<>>))
             out == More(call.out, ChangesOf(outcome, ThisLookup), 0, 0, 1)
  <1>1. s \in Subjects /\ cells[s] \in Seq(Cell) /\ Len(cells[s]) \in Nat
    <2>1. /\ call.next \in Nat /\ call.next <= Len(order)
          /\ order \in Seq(Subjects) /\ order[call.next] \notin taken
      BY DEF Base, TypeOK, VanishTake
    <2>2. call.next \in DOMAIN order
      BY <2>1 DEF VanishTake, VanishScan
    <2> QED
      BY <2>1, <2>2 DEF Base, TypeOK
  <1>2. outcome \in [1 .. Len(cells[s]) -> Outcomes]
    <2> HIDE DEF s
    <2> QED
      BY <1>1, Branch4Type
  <1>3. out \in Output /\ entries \in Seq(LogEntry)
    <2> HIDE DEF outcome, s
    <2> QED
      BY <1>1, <1>2, CallType DEF Base
  <1>4. Take(s) /\ UNCHANGED <<setup, scratch, report, seeded>>
    BY DEF VanishTake
  <1>5. /\ call' \in [op : {"idle", "diff", "vanished"}, next : Nat,
                      out : Output, entries : Seq(LogEntry)]
        /\ log' \in Seq(LogEntry)
    <2>1. CASE Throws(outcome)
      <3>1. call' = Idle /\ log' = log \o Failed(entries)
        BY <2>1 DEF VanishTake
      <3> HIDE DEF entries
      <3> QED
        BY <3>1, <1>3, FailedType, OutputType DEF Base, TypeOK
    <2>2. CASE ~Throws(outcome)
      <3>1. /\ call' = [op |-> "vanished", next |-> call.next + 1,
                        entries |-> entries, out |-> out]
            /\ log' = log
        BY <2>2 DEF VanishTake
      <3>2. call.next + 1 \in Nat
        BY DEF Base, TypeOK
      <3> HIDE DEF entries, out
      <3> QED
        BY <3>1, <3>2, <1>3 DEF Base, TypeOK
    <2> QED
      BY <2>1, <2>2
  <1>6. taken' \subseteq Subjects /\ cells' \in [Subjects -> Seq(Cell)]
    BY <1>1, <1>4, TakeType DEF Base
  <1>7. UNCHANGED <<pinned, initial, sealed, order, report, seeded,
                    epoch, priorEpoch, priorIdx, rowEpoch>>
    BY <1>4 DEF Take, setup, scratch
  <1> HIDE DEF outcome, s, entries, out
  <1> QED
    BY <1>5, <1>6, <1>7 DEF Base, TypeOK, StampsAreOld

\* A call that returns keeps the types and the stamps.
LEMMA ReturnBase ==
    ASSUME Base, Return
    PROVE  Base'
  <1>1. call.out \in Output /\ report \in Output
    BY DEF Base, TypeOK
  <1>2. report' \in Output
    <2>1. /\ call.out.changes \in SUBSET [at : Nat \X Nat, change : Changes]
          /\ call.out.rows \in Nat /\ call.out.added \in Nat /\ call.out.removed \in Nat
      BY <1>1 DEF Output
    <2> QED
      BY <1>1, <2>1, MoreType DEF Return
  <1>3. log' \in Seq(LogEntry) /\ call' = Idle
    BY DEF Base, TypeOK, Return
  <1> QED
    BY <1>2, <1>3, OutputType
    DEF Base, TypeOK, StampsAreOld, Return, setup, slots, scratch

-----------------------------------------------------------------------------
(* The resident count *)

\* The slots hold finitely many cells.
LEMMA PlacesFinite ==
    ASSUME Base
    PROVE  IsFiniteSet(Places)
  <1>1. \A s \in Subjects : IsFiniteSet({s} \X (1 .. Len(cells[s])))
    <2> TAKE s \in Subjects
    <2>1. Len(cells[s]) \in Nat
      BY DEF Base, TypeOK
    <2>2. IsFiniteSet({s}) /\ IsFiniteSet(1 .. Len(cells[s]))
      <3>1. IsFiniteSet({s})
        BY FS_Singleton
      <3>2. IsFiniteSet(1 .. Len(cells[s]))
        BY <2>1, FS_Interval
      <3> QED
        BY <3>1, <3>2
    <2> HIDE DEF Base
    <2> QED
      BY <2>2, FS_Product
  <1> DEFINE rows == {{s} \X (1 .. Len(cells[s])) : s \in Subjects}
  <1>2. IsFiniteSet(rows)
    <2> DEFINE row == [s \in Subjects |-> {s} \X (1 .. Len(cells[s]))]
    <2>1. rows = {row[s] : s \in Subjects}
      OBVIOUS
    <2>2. row \in Surjection(Subjects, rows)
      BY DEF Surjection
    <2> QED
      BY <2>2, FS_Surjection
  <1> QED
    BY <1>1, <1>2, FS_UNION DEF Places

\* Seeding counts a cell exactly when its target is new to the slot.
LEMMA SeedResident ==
    ASSUME Base, ResidentExact, NEW s \in Subjects, NEW c \in Cell, Seed(s, c)
    PROVE  ResidentExact' /\ resident' \in Nat
  <1> DEFINE slot == cells[s]
             known == Stamped(slot)[c.target] = epoch + 1
  <1>0. slot \in Seq(Cell) /\ Len(slot) \in Nat /\ resident \in Nat
    BY DEF Base, TypeOK
  <1>1. \A u \in Subjects : u # s => cells'[u] = cells[u]
    BY DEF Seed, Base, TypeOK
  <1>2. CASE known
    <2>1. Len(cells'[s]) = Len(slot) /\ resident' = resident
      <3>1. Indexed(slot)[c.target] \in 1 .. Len(slot)
        <4>1. c.target \in Targets /\ TypeOK /\ StampsAreOld
          BY DEF Base, Cell
        <4> HIDE DEF slot
        <4> QED
          BY <4>1, <1>0, <1>2, LookupIsExact
      <3>2. cells'[s] = [slot EXCEPT ![Indexed(slot)[c.target]] = c]
        BY <1>2 DEF Seed, Base, TypeOK
      <3>3. resident' = resident
        BY <1>2 DEF Seed
      <3> HIDE DEF slot
      <3> QED
        BY <1>0, <3>1, <3>2, <3>3, ExceptSeq
    <2>2. Places' = Places
      BY <1>1, <2>1 DEF Places
    <2> QED
      BY <2>1, <2>2, <1>0 DEF ResidentExact
  <1>3. CASE ~known
    <2>1. cells'[s] = Append(slot, c) /\ resident' = resident + 1
      BY <1>3 DEF Seed, Base, TypeOK
    <2>2. Len(cells'[s]) = Len(slot) + 1
      BY <1>0, <2>1
    <2>3. Places' = Places \cup {<<s, Len(slot) + 1>>}
      BY <1>0, <1>1, <2>2 DEF Places
    <2>4. <<s, Len(slot) + 1>> \notin Places
      BY <1>0 DEF Places
    <2>5. Cardinality(Places') = Cardinality(Places) + 1
      BY <2>3, <2>4, PlacesFinite, FS_AddElement
    <2> QED
      BY <2>1, <2>5, <1>0 DEF ResidentExact
  <1> QED
    BY <1>2, <1>3

\* Taking a slot releases each of its cells once.
LEMMA TakeResident ==
    ASSUME Base, ResidentExact, NEW s \in Subjects, Take(s)
    PROVE  ResidentExact' /\ resident' \in Nat /\ resident' <= resident
  <1>0. Len(cells[s]) \in Nat /\ resident \in Nat /\ IsFiniteSet(Places)
    BY PlacesFinite DEF Base, TypeOK
  <1>1. CASE ~Live(s)
    BY <1>0, <1>1 DEF Take, ResidentExact, Places
  <1>2. CASE Live(s)
    <2> DEFINE mine == {s} \X (1 .. Len(cells[s]))
    <2>1. IsFiniteSet(mine) /\ Cardinality(mine) = Len(cells[s])
      <3>1. Cardinality({s}) = 1 /\ IsFiniteSet({s})
        BY FS_Singleton
      <3>2. IsFiniteSet(1 .. Len(cells[s])) /\ Cardinality(1 .. Len(cells[s])) = Len(cells[s])
        BY <1>0, FS_Interval, SMTT(30)
      <3>3. /\ IsFiniteSet(mine)
            /\ Cardinality(mine) = Cardinality({s}) * Cardinality(1 .. Len(cells[s]))
        BY <3>1, <3>2, FS_Product
      <3> QED
        BY <1>0, <3>1, <3>2, <3>3
    <2>2. cells' = [cells EXCEPT ![s] = <<>>] /\ resident' = resident - Len(cells[s])
      BY <1>2 DEF Take
    <2>3. Places' = Places \ mine
      BY <2>2 DEF Places, Base, TypeOK
    <2>4. Places \cap mine = mine
      BY DEF Places
    <2>5. /\ IsFiniteSet(Places')
          /\ Cardinality(Places') = Cardinality(Places) - Cardinality(mine)
      BY <1>0, <2>3, <2>4, FS_Difference, ZenonT(40)
    <2>6. Cardinality(Places') \in Nat
      BY <2>5, FS_CardinalityType
    <2> QED
      BY <1>0, <2>1, <2>2, <2>5, <2>6 DEF ResidentExact
  <1> QED
    BY <1>1, <1>2

-----------------------------------------------------------------------------
(* Invariance *)

\* Only a slotted subject has cells.
CellsListed == \A s \in Subjects : cells[s] # <<>> => Listed(s)

\* Under the host protocol nothing is consumed before the session is sealed.
SealedFirst ==
    Protocol => /\ TakenHoldNothing
                /\ taken # {} \/ call # Idle => sealed

IInv == Base /\ ResidentExact /\ CellsListed /\ VanishScan /\ SealedFirst

\* The invariant holds of a new session.
LEMMA InitIInv == Init => IInv
  <1> SUFFICES ASSUME Init PROVE IInv
    OBVIOUS
  <1>1. Base
    <2>1. <<>> \in Seq(Subjects) /\ <<>> \in Seq(Cell) /\ <<>> \in Seq(LogEntry)
      OBVIOUS
    <2>2. /\ pinned \in [Targets -> Kinds \cup {NoKind}] /\ taken \subseteq Subjects
          /\ seeded \in [Subjects -> SUBSET Cell]
          /\ priorEpoch \in [Targets -> Nat] /\ rowEpoch \in [Targets -> Nat]
          /\ priorIdx \in [Targets -> Nat]
          /\ \A t \in Targets : priorEpoch[t] <= epoch /\ rowEpoch[t] <= epoch
      BY DEF Init
    <2>3. cells \in [Subjects -> Seq(Cell)]
      BY <2>1 DEF Init
    <2>4. /\ order = <<>> /\ log = <<>> /\ resident = 0 /\ initial = 0 /\ epoch = 0
          /\ sealed = FALSE /\ call = Idle /\ report = NoOutput
      BY DEF Init
    <2> QED
      BY <2>1, <2>2, <2>3, <2>4, OutputType DEF Base, TypeOK, StampsAreOld
  <1>2. ResidentExact
    <2>1. Places = {}
      BY DEF Init, Places
    <2> QED
      BY <2>1, FS_EmptySet DEF Init, ResidentExact
  <1>3. CellsListed /\ VanishScan /\ SealedFirst
    BY DEF Init, CellsListed, VanishScan, SealedFirst, TakenHoldNothing, Idle
  <1> QED
    BY <1>1, <1>2, <1>3 DEF IInv

\* The parts of the invariant that speak of slots survive a lookup.
LEMMA TakeSlots ==
    ASSUME IInv, NEW s \in Subjects, Take(s)
    PROVE  /\ ResidentExact' /\ resident' \in Nat /\ resident' <= resident
           /\ CellsListed'
           /\ TakenHoldNothing => TakenHoldNothing'
           /\ order' = order /\ taken \subseteq taken'
  <1>1. ResidentExact' /\ resident' \in Nat /\ resident' <= resident
    BY TakeResident DEF IInv
  <1>2. /\ order' = order /\ taken \subseteq taken'
        /\ \A u \in Subjects : cells'[u] = cells[u] \/ cells'[u] = <<>>
        /\ \A u \in taken' : u \in taken \/ (Listed(u) /\ cells'[u] = <<>>)
    BY DEF Take, Live, IInv, Base, TypeOK
  <1>3. taken \subseteq Subjects
    BY DEF IInv, Base, TypeOK
  <1> QED
    BY <1>1, <1>2, <1>3 DEF CellsListed, Listed, TakenHoldNothing, IInv

\* No call is in progress in an idle session.
LEMMA IdleCall == Idle.op = "idle" /\ NoOutput \in Output
  BY OutputType DEF Idle

\* The invariant is inductive.
LEMMA NextIInv == IInv /\ [Next]_vars => IInv'
  <1> SUFFICES ASSUME IInv, [Next]_vars PROVE IInv'
    OBVIOUS
  <1>t. TypeOK
    BY DEF IInv, Base
  <1>1. ASSUME NEW p \in Pins, SetPinned(p[1], p[2])
        PROVE  IInv'
    <2>1. p[1] \in Targets /\ p[2] \in Kinds
      OBVIOUS
    <2>2. UNCHANGED <<initial, sealed, slots, scratch, call, history>>
      BY <1>1 DEF SetPinned
    <2>3. Base'
      BY <2>1, <2>2, <1>1 DEF SetPinned, IInv, Base, TypeOK, StampsAreOld,
                              slots, scratch, history
    <2> QED
      BY <2>2, <2>3 DEF IInv, ResidentExact, Places, CellsListed, VanishScan, SealedFirst,
                        TakenHoldNothing, Listed, slots, scratch, history
  <1>2. ASSUME NEW s \in Subjects, SeedEmpty(s)
        PROVE  IInv'
    <2>1. order' \in Seq(Subjects) /\ \A u : Listed(u) => Listed(u)'
      BY <1>2, <1>t, SlottedType DEF SeedEmpty, TypeOK
    <2>2. /\ UNCHANGED <<pinned, initial, sealed, taken, cells, resident, priorEpoch,
                         priorIdx, rowEpoch, call, report, log, seeded>>
          /\ epoch' = epoch + 1 /\ call = Idle
      BY <1>2 DEF SeedEmpty, HostMaySetUp, setup, history
    <2>3. Base'
      BY <2>1, <2>2 DEF IInv, Base, TypeOK, StampsAreOld
    <2> QED
      BY <2>1, <2>2, <2>3, IdleCall
      DEF IInv, ResidentExact, Places, CellsListed, VanishScan, SealedFirst, TakenHoldNothing
  <1>3. ASSUME NEW s \in Subjects, NEW c \in Cell, Seed(s, c)
        PROVE  IInv'
    <2>1. ResidentExact' /\ resident' \in Nat
      BY <1>3, SeedResident DEF IInv
    <2>2. Base'
      BY <1>3, <2>1, SeedBase DEF IInv
    <2>3. order' \in Seq(Subjects) /\ Listed(s)' /\ \A u : Listed(u) => Listed(u)'
      BY <1>3, <1>t, SlottedType DEF Seed, TypeOK
    <2>4. CellsListed'
      BY <1>3, <1>t, <2>3 DEF IInv, CellsListed, Seed, TypeOK
    <2>5. /\ UNCHANGED <<sealed, taken, call>> /\ call = Idle
          /\ Protocol => ~sealed
      BY <1>3 DEF Seed, HostMaySetUp, setup
    <2>6. SealedFirst' /\ VanishScan'
      BY <2>5, IdleCall DEF IInv, SealedFirst, VanishScan, TakenHoldNothing
    <2> QED
      BY <2>1, <2>2, <2>4, <2>6 DEF IInv
  <1>4. CASE Seal
    <2>1. /\ UNCHANGED <<pinned, slots, scratch, call, history>>
          /\ initial' = resident /\ sealed' = TRUE
      BY <1>4 DEF Seal
    <2>2. Base'
      BY <2>1 DEF IInv, Base, TypeOK, StampsAreOld, slots, scratch, history
    <2> QED
      BY <2>1, <2>2 DEF IInv, ResidentExact, Places, CellsListed, VanishScan, SealedFirst,
                        TakenHoldNothing, Listed, slots
  <1>5. ASSUME NEW s \in Subjects, NEW row \in Rows, DiffRow(s, row)
        PROVE  IInv'
    <2>1. Take(s)
      BY <1>5 DEF DiffRow
    <2>2. /\ ResidentExact' /\ resident' \in Nat /\ CellsListed'
          /\ TakenHoldNothing => TakenHoldNothing'
      BY <2>1, TakeSlots
    <2>3. Base'
      BY <1>5, <2>2, DiffRowBase DEF IInv
    <2>4. call'.op # "vanished"
      BY <1>5, IdleCall DEF DiffRow
    <2>5. sealed' = sealed /\ (Protocol => sealed)
      BY <1>5, IdleCall DEF DiffRow, HostMayDiff, IInv, SealedFirst, setup
    <2> QED
      BY <2>2, <2>3, <2>4, <2>5 DEF IInv, VanishScan, SealedFirst
  <1>6. CASE Return
    <2>1. Base'
      BY <1>6, ReturnBase DEF IInv
    <2>2. UNCHANGED <<setup, slots>> /\ call' = Idle
      BY <1>6 DEF Return
    <2> QED
      BY <2>1, <2>2, IdleCall
      DEF IInv, ResidentExact, Places, CellsListed, VanishScan, SealedFirst,
          TakenHoldNothing, Listed, slots, setup
  <1>7. CASE VanishCall
    <2>1. /\ UNCHANGED <<setup, slots, scratch, history>>
          /\ call' = [op |-> "vanished", next |-> 1, out |-> NoOutput, entries |-> <<>>]
          /\ Protocol => sealed
      BY <1>7 DEF VanishCall, HostMayDiff, Idle
    <2>2. Base'
      BY <2>1, IdleCall DEF IInv, Base, TypeOK, StampsAreOld, setup, slots, scratch, history
    <2>3. VanishScan'
      BY <2>1, <1>t DEF VanishScan, TypeOK, slots
    <2> QED
      BY <2>1, <2>2, <2>3
      DEF IInv, ResidentExact, Places, CellsListed, SealedFirst,
          TakenHoldNothing, Listed, slots, setup
  <1>8. CASE VanishSkip
    <2>1. /\ UNCHANGED <<setup, slots, scratch, history>>
          /\ call' = [call EXCEPT !.next = @ + 1]
          /\ call.op = "vanished" /\ order[call.next] \in taken
      BY <1>8 DEF VanishSkip
    <2>2. Base'
      <3>1. call' \in [op : {"idle", "diff", "vanished"}, next : Nat,
                      out : Output, entries : Seq(LogEntry)]
        <4> DEFINE Outs == Output
                   Entries == Seq(LogEntry)
        <4>1. call \in [op : {"idle", "diff", "vanished"}, next : Nat,
                       out : Outs, entries : Entries]
          BY <1>t DEF TypeOK
        <4> HIDE DEF Outs, Entries
        <4>2. call' \in [op : {"idle", "diff", "vanished"}, next : Nat,
                        out : Outs, entries : Entries]
          BY <2>1, <4>1
        <4> QED
          BY <4>2 DEF Outs, Entries
      <3>2. Base /\ UNCHANGED <<setup, slots, scratch, history>>
        BY <2>1 DEF IInv
      <3> QED
        BY <3>1, <3>2 DEF Base, TypeOK, StampsAreOld, setup, slots, scratch, history
    <2>3. VanishScan'
      BY <2>1, <1>t DEF IInv, VanishScan, TypeOK, slots
    <2>4. Protocol => sealed
      BY <2>1, IdleCall DEF IInv, SealedFirst
    <2> QED
      BY <2>1, <2>2, <2>3, <2>4
      DEF IInv, ResidentExact, Places, CellsListed, SealedFirst,
          TakenHoldNothing, Listed, slots, setup
  <1>9. CASE VanishTake
    <2> DEFINE s == order[call.next]
    <2>1. /\ Take(s) /\ UNCHANGED setup
          /\ call.op = "vanished" /\ call.next <= Len(order)
      BY <1>9 DEF VanishTake
    <2>2. call.next \in DOMAIN order /\ s \in Subjects
      BY <2>1, <1>t DEF IInv, VanishScan, TypeOK
    <2>3. /\ ResidentExact' /\ resident' \in Nat /\ CellsListed'
          /\ TakenHoldNothing => TakenHoldNothing'
          /\ order' = order /\ taken \subseteq taken'
      BY <2>1, <2>2, TakeSlots
    <2>4. Base'
      BY <1>9, <2>3, VanishTakeBase DEF IInv
    <2>5. s \in taken'
      BY <2>1, <2>2 DEF Take, Live, Listed
    <2>6. call' = Idle \/ (call'.op = "vanished" /\ call'.next = call.next + 1)
      BY <1>9 DEF VanishTake
    <2>7. VanishScan'
      BY <2>1, <2>3, <2>5, <2>6, <1>t, IdleCall DEF IInv, VanishScan, TypeOK
    <2>8. sealed' = sealed /\ (Protocol => sealed)
      BY <2>1, IdleCall DEF IInv, SealedFirst, setup
    <2> QED
      BY <2>3, <2>4, <2>7, <2>8 DEF IInv, SealedFirst
  <1>10. CASE UNCHANGED vars
    BY <1>10 DEF IInv, Base, TypeOK, StampsAreOld, ResidentExact, Places, CellsListed,
        VanishScan, SealedFirst, TakenHoldNothing, Listed,
        vars, setup, slots, scratch, history
  <1> QED
    BY <1>1, <1>2, <1>3, <1>4, <1>5, <1>6, <1>7, <1>8, <1>9, <1>10
    DEF Next, DiffReturn, VanishReturn

-----------------------------------------------------------------------------
(* What one lookup tells *)

\* A sequence of cells with each target at most once, and the set of its cells.
Distinct(q) == \A i, j \in DOMAIN q : q[i].target = q[j].target => i = j
Members(q) == {q[k] : k \in DOMAIN q}
Told(outcome) == {j \in DOMAIN outcome : outcome[j].tag = "change"}

\* The stamps find the one place where a slot holds a target.
LEMMA LookupIsUnique ==
    ASSUME Base, NEW slot \in Seq(Cell), Distinct(slot),
           NEW k \in DOMAIN slot
    PROVE  /\ Stamped(slot)[slot[k].target] = epoch + 1
           /\ Indexed(slot)[slot[k].target] = k
  <1>1. slot[k] \in Cell
    OBVIOUS
  <1>2. slot[k].target \in Targets
    BY <1>1 DEF Cell
  <1>3. k \in At(slot, slot[k].target)
    BY DEF At
  <1> QED
    BY <1>2, <1>3, LookupIsExact DEF Base, Distinct

\* What the comparison of a slot and a row says, place by place: of the cells of
\* the row, then of the prior cells the row does not hold.
ByTarget(outcome, s, slot, row) ==
    /\ DOMAIN outcome = 1 .. Len(row) + Len(slot)
    /\ \A i \in 1 .. Len(row) :
          (\A k \in DOMAIN slot : slot[k].target # row[i].target) =>
             outcome[i] = Emit(Change(s, row[i].target, "added",
                                      pinned[row[i].target], Absent, row[i].val))
    /\ \A i \in 1 .. Len(row), k \in DOMAIN slot :
          slot[k].target = row[i].target =>
             outcome[i] = IF StrictEq(slot[k].val, row[i].val) THEN Silent
                          ELSE Emit(Change(s, row[i].target, "changed", slot[k].kind,
                                           slot[k].val, row[i].val))
    /\ \A k \in 1 .. Len(slot) :
          outcome[Len(row) + k] =
             IF \E j \in DOMAIN row : row[j].target = slot[k].target THEN Silent
             ELSE Emit(Change(s, slot[k].target, "removed", slot[k].kind,
                              slot[k].val, Absent))

\* Without an error, each cell of the row and each prior cell yields what the
\* comparison of the two weeks says of its target.
LEMMA OutcomeByTarget ==
    ASSUME Base, NEW s \in Subjects,
           NEW slot \in Seq(Cell), Distinct(slot),
           NEW row \in Seq(Incoming), Distinct(row),
           NEW outcome,
           outcome = RowOutcome(s, slot, row, Stamped(slot), Indexed(slot),
                                Held(row, Len(row)), epoch + 1),
           ~Throws(outcome)
    PROVE  ByTarget(outcome, s, slot, row)
  <1>1. DOMAIN outcome = 1 .. Len(row) + Len(slot) /\ Len(row) \in Nat /\ Len(slot) \in Nat
    BY DEF RowOutcome
  <1>2. \A i \in DOMAIN outcome : outcome[i].tag # "error"
    BY DEF Throws
  <1>3. ASSUME NEW class PROVE Fail(class).tag = "error"
    BY DEF Fail
  <1>4. ASSUME NEW i \in 1 .. Len(row)
        PROVE  /\ i \in DOMAIN outcome /\ row[i] \in Incoming /\ row[i].target \in Targets
               /\ outcome[i] = CellOutcome(s, slot, Stamped(slot), Indexed(slot),
                                           epoch + 1, row[i])
    <2>1. i \in DOMAIN outcome /\ i <= Len(row)
      BY <1>1
    <2>2. row[i] \in Incoming
      OBVIOUS
    <2>3. row[i].target \in Targets
      BY <2>2 DEF Incoming
    <2> QED
      BY <2>1, <2>2, <2>3, <1>1 DEF RowOutcome
  <1>5. ASSUME NEW i \in 1 .. Len(row),
               \A k \in DOMAIN slot : slot[k].target # row[i].target
        PROVE  outcome[i] = Emit(Change(s, row[i].target, "added",
                                        pinned[row[i].target], Absent, row[i].val))
    <2>1. Stamped(slot)[row[i].target] # epoch + 1
      <3>1. At(slot, row[i].target) = {}
        BY <1>5 DEF At
      <3> QED
        BY <1>4, <3>1, LookupIsExact DEF Base
    <2>2. outcome[i] = Branch1(s, row[i])
      BY <1>4, <2>1 DEF CellOutcome
    <2> QED
      BY <1>2, <1>3, <1>4, <2>2 DEF Branch1
  <1>6. ASSUME NEW i \in 1 .. Len(row), NEW k \in DOMAIN slot,
               slot[k].target = row[i].target
        PROVE  outcome[i] = IF StrictEq(slot[k].val, row[i].val) THEN Silent
                            ELSE Emit(Change(s, row[i].target, "changed", slot[k].kind,
                                             slot[k].val, row[i].val))
    <2>1. /\ Stamped(slot)[row[i].target] = epoch + 1
          /\ Indexed(slot)[row[i].target] = k
      BY <1>6, LookupIsUnique
    <2>2. outcome[i] = IF StrictEq(slot[k].val, row[i].val) THEN Silent
                       ELSE Branch3(s, slot[k], row[i])
      BY <1>4, <2>1 DEF CellOutcome
    <2> QED
      BY <1>2, <1>3, <1>4, <2>2 DEF Branch3
  <1>7. ASSUME NEW k \in 1 .. Len(slot)
        PROVE  outcome[Len(row) + k] =
                  IF \E j \in DOMAIN row : row[j].target = slot[k].target THEN Silent
                  ELSE Emit(Change(s, slot[k].target, "removed", slot[k].kind,
                                   slot[k].val, Absent))
    <2> DEFINE p == slot[k]
               i == Len(row) + k
    <2>1. /\ i \in DOMAIN outcome /\ ~(i <= Len(row)) /\ i - Len(row) = k
          /\ p.target \in Targets
      <3>1. i \in DOMAIN outcome /\ ~(i <= Len(row)) /\ i - Len(row) = k
        BY <1>1
      <3>2. p \in Cell
        OBVIOUS
      <3> QED
        BY <3>1, <3>2 DEF Cell
    <2>2. outcome[i] = IF Held(row, Len(row))[p.target] = epoch + 1 THEN Silent
                       ELSE Branch4(s, p)
      BY <1>1, <2>1 DEF RowOutcome
    <2>3. Held(row, Len(row))[p.target] = epoch + 1
             <=> \E j \in DOMAIN row : row[j].target = p.target
      <3>1. rowEpoch[p.target] # epoch + 1
        BY <2>1 DEF Base, TypeOK, StampsAreOld
      <3>2. DOMAIN row = 1 .. Len(row)
        OBVIOUS
      <3> QED
        BY <2>1, <3>1, <3>2 DEF Held
    <2>4. outcome[i].tag # "error"
      BY <1>2, <2>1
    <2> HIDE DEF p, i
    <2>5. outcome[i] = IF \E j \in DOMAIN row : row[j].target = p.target THEN Silent
                       ELSE Emit(Change(s, p.target, "removed", p.kind, p.val, Absent))
      BY <1>3, <2>2, <2>3, <2>4 DEF Branch4
    <2> QED
      BY <2>5 DEF p, i
  <1> QED
    BY <1>1, <1>5, <1>6, <1>7 DEF ByTarget

\* The changes of a lookup without error are the declarative diff of the slot
\* and the row, and no two of its places tell the same change.
LEMMA OutcomeIsDiff ==
    ASSUME Base, NEW s \in Subjects,
           NEW slot \in Seq(Cell), Distinct(slot),
           NEW row \in Seq(Incoming), Distinct(row),
           NEW outcome,
           outcome = RowOutcome(s, slot, row, Stamped(slot), Indexed(slot),
                                Held(row, Len(row)), epoch + 1),
           ~Throws(outcome)
    PROVE  /\ {outcome[i].change : i \in Told(outcome)}
                = WeekChanges(s, Members(slot), Members(row))
           /\ \A i, j \in Told(outcome) : outcome[i].change = outcome[j].change => i = j
  <1>0. ByTarget(outcome, s, slot, row)
    BY OutcomeByTarget
  <1> DEFINE n == Len(row)
             m == Len(slot)
             old == Members(slot)
             new == Members(row)
             Added(x) == Change(s, x.target, "added", pinned[x.target], Absent, x.val)
             Changed(p, x) == Change(s, x.target, "changed", p.kind, p.val, x.val)
             Removed(p) == Change(s, p.target, "removed", p.kind, p.val, Absent)
             OnlyNew(x) == \A c \in old : x.target # c.target
             OnlyOld(c) == \A x \in new : x.target # c.target
             Both(p, x) == p.target = x.target /\ ~StrictEq(p.val, x.val)
  <1>1. /\ DOMAIN outcome = 1 .. n + m /\ n \in Nat /\ m \in Nat
        /\ DOMAIN row = 1 .. n /\ DOMAIN slot = 1 .. m
        /\ \A i \in 1 .. n : OnlyNew(row[i]) => outcome[i] = Emit(Added(row[i]))
        /\ \A i \in 1 .. n, k \in 1 .. m :
              slot[k].target = row[i].target =>
                 outcome[i] = IF StrictEq(slot[k].val, row[i].val) THEN Silent
                              ELSE Emit(Changed(slot[k], row[i]))
        /\ \A k \in 1 .. m :
              outcome[n + k] = IF OnlyOld(slot[k]) THEN Emit(Removed(slot[k])) ELSE Silent
    <2>1. /\ DOMAIN row = 1 .. n /\ DOMAIN slot = 1 .. m /\ n \in Nat /\ m \in Nat
      OBVIOUS
    <2>2. /\ \A x : OnlyNew(x) <=> \A k \in DOMAIN slot : slot[k].target # x.target
          /\ \A c : OnlyOld(c) <=> ~(\E j \in DOMAIN row : row[j].target = c.target)
      BY DEF Members
    <2>3. /\ DOMAIN outcome = 1 .. n + m
          /\ \A i \in 1 .. n :
                (\A k \in DOMAIN slot : slot[k].target # row[i].target) =>
                   outcome[i] = Emit(Added(row[i]))
          /\ \A i \in 1 .. n, k \in DOMAIN slot :
                slot[k].target = row[i].target =>
                   outcome[i] = IF StrictEq(slot[k].val, row[i].val) THEN Silent
                                ELSE Emit(Changed(slot[k], row[i]))
          /\ \A k \in 1 .. m :
                outcome[n + k] =
                   IF \E j \in DOMAIN row : row[j].target = slot[k].target THEN Silent
                   ELSE Emit(Removed(slot[k]))
      BY <1>0 DEF ByTarget
    <2> HIDE DEF OnlyNew, OnlyOld, Added, Changed, Removed, n, m
    <2>4. \A k \in 1 .. m :
            outcome[n + k] = IF OnlyOld(slot[k]) THEN Emit(Removed(slot[k])) ELSE Silent
      BY <2>2, <2>3
    <2> QED
      BY <2>1, <2>2, <2>3, <2>4
  <1>2. /\ \A c : Emit(c).tag = "change" /\ Emit(c).change = c
        /\ Silent.tag = "silent"
    BY DEF Emit, Silent
  <1>3. /\ \A x : Added(x).target = x.target /\ Added(x).how = "added"
        /\ \A p, x : Changed(p, x).target = x.target /\ Changed(p, x).how = "changed"
        /\ \A p : Removed(p).target = p.target /\ Removed(p).how = "removed"
    BY DEF Change
  <1>4. WeekChanges(s, old, new) =
          {Added(x) : x \in {y \in new : OnlyNew(y)}}
          \cup {Changed(p[1], p[2]) : p \in {q \in old \X new : Both(q[1], q[2])}}
          \cup {Removed(c) : c \in {d \in old : OnlyOld(d)}}
    BY DEF WeekChanges
  <1>5. /\ \A x : x \in new <=> \E i \in 1 .. n : x = row[i]
        /\ \A c : c \in old <=> \E k \in 1 .. m : c = slot[k]
    BY <1>1 DEF Members
  <1> HIDE DEF n, m, old, new, Added, Changed, Removed, Both
  <1>6. \A i \in 1 .. n : OnlyNew(row[i]) \/ \E k \in 1 .. m : slot[k].target = row[i].target
    BY <1>5
  <1> HIDE DEF OnlyNew, OnlyOld
  <1>7. ASSUME NEW i \in 1 .. n, outcome[i].tag = "change"
        PROVE  /\ outcome[i].change \in WeekChanges(s, old, new)
               /\ outcome[i].change.target = row[i].target
               /\ outcome[i].change.how # "removed"
    <2>1. CASE OnlyNew(row[i])
      BY <1>1, <1>2, <1>3, <1>4, <1>5, <2>1
    <2>2. ASSUME NEW k \in 1 .. m, slot[k].target = row[i].target
          PROVE  /\ outcome[i].change \in WeekChanges(s, old, new)
                 /\ outcome[i].change.target = row[i].target
                 /\ outcome[i].change.how # "removed"
      <3>1. ~StrictEq(slot[k].val, row[i].val)
        BY <1>1, <1>2, <1>7, <2>2
      <3>2. outcome[i].change = Changed(slot[k], row[i])
        BY <1>1, <1>2, <2>2, <3>1
      <3>3. /\ <<slot[k], row[i]>> \in {q \in old \X new : Both(q[1], q[2])}
        BY <1>5, <2>2, <3>1 DEF Both
      <3>4. Changed(slot[k], row[i]) \in WeekChanges(s, old, new)
        BY <1>4, <3>3
      <3> QED
        BY <1>3, <3>2, <3>4
    <2> QED
      BY <1>6, <2>1, <2>2
  <1>8. ASSUME NEW k \in 1 .. m, outcome[n + k].tag = "change"
        PROVE  /\ outcome[n + k].change \in WeekChanges(s, old, new)
               /\ outcome[n + k].change.target = slot[k].target
               /\ outcome[n + k].change.how = "removed"
    <2>1. OnlyOld(slot[k])
      BY <1>1, <1>2, <1>8
    <2>2. outcome[n + k].change = Removed(slot[k])
      BY <1>1, <1>2, <2>1
    <2> QED
      BY <1>3, <1>4, <1>5, <2>1, <2>2
  <1>9. \A i \in DOMAIN outcome : i \in 1 .. n \/ \E k \in 1 .. m : i = n + k
    <2> SUFFICES ASSUME NEW i \in 1 .. n + m, ~(i \in 1 .. n)
                 PROVE  \E k \in 1 .. m : i = n + k
      BY <1>1
    <2>1. i - n \in 1 .. m /\ i = n + (i - n)
      BY <1>1
    <2> QED
      BY <2>1
  <1>10. \A i \in Told(outcome) : outcome[i].change \in WeekChanges(s, old, new)
    BY <1>7, <1>8, <1>9 DEF Told
  <1>11. ASSUME NEW c \in WeekChanges(s, old, new)
         PROVE  \E i \in Told(outcome) : outcome[i].change = c
    <2>1. CASE \E x \in new : OnlyNew(x) /\ c = Added(x)
      <3>1. PICK i \in 1 .. n : OnlyNew(row[i]) /\ c = Added(row[i])
        BY <1>5, <2>1
      <3> QED
        BY <1>1, <1>2, <3>1 DEF Told
    <2>2. CASE \E p \in old, x \in new : Both(p, x) /\ c = Changed(p, x)
      <3>1. PICK k \in 1 .. m, i \in 1 .. n :
              Both(slot[k], row[i]) /\ c = Changed(slot[k], row[i])
        BY <1>5, <2>2
      <3>2. i \in DOMAIN outcome
        BY <1>1
      <3>3. slot[k].target = row[i].target /\ ~StrictEq(slot[k].val, row[i].val)
        BY <3>1 DEF Both
      <3>4. outcome[i] = Emit(c)
        BY <1>1, <3>1, <3>3
      <3> QED
        BY <1>2, <3>2, <3>4 DEF Told
    <2>3. CASE \E p \in old : OnlyOld(p) /\ c = Removed(p)
      <3>1. PICK k \in 1 .. m : OnlyOld(slot[k]) /\ c = Removed(slot[k])
        BY <1>5, <2>3
      <3>2. n + k \in DOMAIN outcome
        BY <1>1
      <3> QED
        BY <1>1, <1>2, <3>1, <3>2 DEF Told
    <2> QED
      BY <1>4, <2>1, <2>2, <2>3
  <1>12. ASSUME NEW i \in Told(outcome), NEW j \in Told(outcome),
                outcome[i].change = outcome[j].change
         PROVE  i = j
    <2>1. /\ i \in DOMAIN outcome /\ outcome[i].tag = "change"
          /\ j \in DOMAIN outcome /\ outcome[j].tag = "change"
      BY DEF Told
    <2>2. CASE i \in 1 .. n /\ j \in 1 .. n
      BY <1>1, <1>7, <1>12, <2>1, <2>2 DEF Distinct
    <2>3. CASE i \in 1 .. n /\ j \notin 1 .. n
      BY <1>7, <1>8, <1>9, <1>12, <2>1, <2>3
    <2>4. CASE i \notin 1 .. n /\ j \in 1 .. n
      BY <1>7, <1>8, <1>9, <1>12, <2>1, <2>4
    <2>5. CASE i \notin 1 .. n /\ j \notin 1 .. n
      <3>1. PICK k \in 1 .. m, l \in 1 .. m : i = n + k /\ j = n + l
        BY <1>9, <2>1, <2>5
      <3>2. slot[k].target = slot[l].target
        BY <1>8, <1>12, <2>1, <3>1
      <3> QED
        BY <1>1, <3>1, <3>2 DEF Distinct
    <2> QED
      BY <2>2, <2>3, <2>4, <2>5
  <1>13. {outcome[i].change : i \in Told(outcome)} = WeekChanges(s, old, new)
    BY <1>10, <1>11
  <1> QED
    BY <1>12, <1>13 DEF old, new

-----------------------------------------------------------------------------
(* What the lookups of the week have told *)

\* The lookups so far, those of the call in progress last, what lookup i must be
\* compared with, and what comparing it must say.
Lookups == log \o call.entries
PriorIn(l, i) ==
    IF \E j \in 1 .. i - 1 : l[j].subject = l[i].subject THEN {} ELSE seeded[l[i].subject]
Truth(l, i) == WeekChanges(l[i].subject, PriorIn(l, i), Members(l[i].row))

\* What has been told so far, and the part of it that lookup i told.
Reported == report.changes \cup call.out.changes
SaidOf(S, i) == {c \in S : c.at[1] = i}
Tells(said, truth) ==
    /\ {c.change : c \in said} = truth
    /\ \A c, d \in said : c.change = d.change => c = d

\* The slots that are not taken hold the week as it was seeded, each target once;
\* the taken ones are those a lookup has asked for.
SlotsAreSeeded ==
    /\ \A s \in Subjects :
          /\ Distinct(cells[s])
          /\ s \notin taken => seeded[s] = Members(cells[s])
          /\ \A c, d \in seeded[s] : c.target = d.target => c = d
          /\ Listed(s) =>
                (s \in taken <=> \E i \in DOMAIN Lookups : Lookups[i].subject = s)

\* Every change told is of a lookup, and those of a call in progress are of its
\* own lookups; none of these has failed yet.
ToldByLookups ==
    /\ IsFiniteSet(Reported)
    /\ \A c \in Reported : c.at[1] \in DOMAIN Lookups
    /\ \A c \in report.changes : c.at[1] \in DOMAIN log
    /\ \A c \in call.out.changes : c.at[1] > Len(log)
    /\ \A i \in DOMAIN call.entries : call.entries[i].ok

\* Each lookup has told what it must, once, unless its call failed.
LookupsTold ==
    \A i \in DOMAIN Lookups :
        IF Lookups[i].ok THEN Tells(SaidOf(Reported, i), Truth(Lookups, i))
        ELSE SaidOf(Reported, i) = {}

\* Under the host protocol, nothing has been looked up before the seal.
Quiet == ~sealed => log = <<>> /\ call = Idle /\ taken = {}

History == Quiet /\ SlotsAreSeeded /\ ToldByLookups /\ LookupsTold

\* A log that goes on: first its entries, then the new ones.
LEMMA LogGoesOn ==
    ASSUME NEW a \in Seq(LogEntry), NEW b \in Seq(LogEntry)
    PROVE  /\ a \o b \in Seq(LogEntry)
           /\ DOMAIN (a \o b) = 1 .. Len(a) + Len(b)
           /\ Len(a) \in Nat /\ Len(b) \in Nat
           /\ DOMAIN a = 1 .. Len(a) /\ DOMAIN b = 1 .. Len(b)
           /\ \A i \in 1 .. Len(a) : (a \o b)[i] = a[i]
           /\ \A i \in 1 .. Len(b) : (a \o b)[Len(a) + i] = b[i]
  OBVIOUS

\* The lookups of a call follow those of the calls before it.
LEMMA LookupsType ==
    ASSUME TypeOK
    PROVE  /\ Lookups \in Seq(LogEntry)
           /\ DOMAIN Lookups = 1 .. Len(log) + Len(call.entries)
           /\ Len(log) \in Nat /\ Len(call.entries) \in Nat
           /\ DOMAIN log = 1 .. Len(log) /\ DOMAIN call.entries = 1 .. Len(call.entries)
           /\ \A i \in 1 .. Len(log) : Lookups[i] = log[i]
           /\ \A i \in 1 .. Len(call.entries) : Lookups[Len(log) + i] = call.entries[i]
           /\ ThisLookup = Len(log) + Len(call.entries) + 1
  <1>1. log \in Seq(LogEntry) /\ call.entries \in Seq(LogEntry)
    BY DEF TypeOK
  <1> QED
    BY <1>1, LogGoesOn DEF Lookups, ThisLookup

\* The same lookups, of the same subjects with the same rows: l goes on as l2.
Extends(l, l2) ==
    /\ DOMAIN l \subseteq DOMAIN l2
    /\ \A i \in DOMAIN l : l2[i].subject = l[i].subject /\ l2[i].row = l[i].row

\* What a lookup must say depends on the lookups before it alone.
LEMMA TruthKept ==
    ASSUME NEW l \in Seq(LogEntry), NEW l2 \in Seq(LogEntry), Extends(l, l2),
           NEW i \in DOMAIN l
    PROVE  Truth(l2, i) = Truth(l, i)
  <1>1. \A j \in 1 .. i - 1 : j \in DOMAIN l
    OBVIOUS
  <1>2. PriorIn(l2, i) = PriorIn(l, i)
    BY <1>1 DEF PriorIn, Extends
  <1> QED
    BY <1>2 DEF Truth, Extends

\* Nor does it depend on what a call changes.
LEMMA TruthFrozen ==
    ASSUME UNCHANGED <<pinned, seeded>>, NEW i
    PROVE  Truth(Lookups, i)' = Truth(Lookups', i)
  BY DEF Truth, PriorIn, WeekChanges

\* One lookup, by a row or by the drain: its slot is taken, and what it says joins
\* the call, unless it throws.
PriorSlot(s) == IF Live(s) THEN cells[s] ELSE <<>>
LookupOutcome(s, row) ==
    RowOutcome(s, PriorSlot(s), row, Stamped(PriorSlot(s)), Indexed(PriorSlot(s)),
               Held(row, Len(row)), epoch + 1)
Thrown(s, row) ==
    call' = Idle /\ log' = log \o Failed(Append(call.entries, Entry(s, row)))
Kept(s, row) ==
    /\ call'.entries = Append(call.entries, Entry(s, row))
    /\ call'.out.changes =
          call.out.changes \cup ChangesOf(LookupOutcome(s, row), ThisLookup)
    /\ UNCHANGED log
LooksUp(s, row) ==
    /\ Take(s) /\ sealed
    /\ IF Throws(LookupOutcome(s, row)) THEN Thrown(s, row) ELSE Kept(s, row)
    /\ UNCHANGED <<pinned, sealed, report, seeded>>

\* A row of the incoming week is a lookup.
LEMMA RowLooksUp ==
    ASSUME Protocol, IInv, NEW s \in Subjects, NEW row \in Rows, DiffRow(s, row)
    PROVE  LooksUp(s, row)
  <1>1. sealed /\ UNCHANGED <<pinned, sealed>>
    BY IdleCall DEF DiffRow, HostMayDiff, IInv, SealedFirst, setup
  <1>2. Take(s) /\ UNCHANGED <<report, seeded>>
    BY DEF DiffRow
  <1> DEFINE outcome == LookupOutcome(s, row)
  <1>3. IF Throws(outcome)
        THEN Thrown(s, row)
        ELSE /\ call' = [op |-> "diff", next |-> 0,
                         entries |-> Append(call.entries, Entry(s, row)),
                         out |-> More(call.out, ChangesOf(outcome, ThisLookup),
                                      1, IF Live(s) THEN 0 ELSE 1, 0)]
             /\ UNCHANGED log
    BY DEF DiffRow, Thrown, LookupOutcome, PriorSlot
  <1> HIDE DEF outcome
  <1>4. Throws(outcome) \/ Kept(s, row)
    BY <1>3 DEF Kept, More, outcome
  <1> QED
    BY <1>1, <1>2, <1>3, <1>4 DEF LooksUp, outcome

\* A slot the drain takes is a lookup, of a row that holds nothing.
LEMMA VanishLooksUp ==
    ASSUME Protocol, IInv, VanishTake
    PROVE  /\ order[call.next] \in Subjects /\ Listed(order[call.next])
           /\ LooksUp(order[call.next], <<>>)
  <1> DEFINE s == order[call.next]
             drained == [i \in 1 .. Len(cells[s]) |-> Branch4(s, cells[s][i])]
             outcome == LookupOutcome(s, <<>>)
  <1>1. sealed /\ Take(s) /\ UNCHANGED <<pinned, sealed, report, seeded>> /\ s \notin taken
    BY IdleCall DEF VanishTake, IInv, SealedFirst, setup
  <1>2. call.next \in DOMAIN order
    BY DEF VanishTake, IInv, VanishScan, Base, TypeOK
  <1>3. s \in Subjects /\ Listed(s) /\ cells[s] \in Seq(Cell)
    BY <1>2 DEF IInv, Base, TypeOK, Listed
  <1>4. PriorSlot(s) = cells[s]
    BY <1>1, <1>3 DEF PriorSlot, Live
  <1>5. outcome = drained
    <2> DEFINE slot == cells[s]
               held == Held(<<>>, 0)
    <2>1. ASSUME NEW i \in 1 .. Len(slot) PROVE held[slot[i].target] # epoch + 1
      <3>1. slot[i] \in Cell
        BY <1>3
      <3>2. slot[i].target \in Targets
        BY <3>1 DEF Cell
      <3> HIDE DEF slot
      <3>3. held[slot[i].target] = rowEpoch[slot[i].target]
        BY <3>2 DEF Held
      <3> QED
        BY <3>2, <3>3 DEF IInv, Base, TypeOK, StampsAreOld
    <2>2. outcome = RowOutcome(s, slot, <<>>, Stamped(slot), Indexed(slot), held, epoch + 1)
      BY <1>4 DEF LookupOutcome
    <2>3. Len(slot) \in Nat
      BY <1>3
    <2> HIDE DEF slot, held, outcome
    <2>4. outcome = [i \in 1 .. Len(slot) |-> Branch4(s, slot[i])]
      BY <2>1, <2>2, <2>3 DEF RowOutcome
    <2> QED
      BY <2>4 DEF slot
  <1>6. IF Throws(drained)
        THEN Thrown(s, <<>>)
        ELSE /\ call' = [op |-> "vanished", next |-> call.next + 1,
                         entries |-> Append(call.entries, Entry(s, <<>>)),
                         out |-> More(call.out, ChangesOf(drained, ThisLookup), 0, 0, 1)]
             /\ UNCHANGED log
    BY DEF VanishTake, Thrown
  <1> HIDE DEF outcome, drained, s
  <1>7. Throws(outcome) \/ Kept(s, <<>>)
    BY <1>5, <1>6 DEF Kept, More, outcome
  <1>8. LooksUp(s, <<>>)
    BY <1>1, <1>5, <1>6, <1>7 DEF LooksUp, outcome
  <1> QED
    BY <1>3, <1>8 DEF s

\* How a lookup goes on the log: it is the next one, it has failed if it throws,
\* and then every lookup of its call has.
LEMMA LookupsGrow ==
    ASSUME TypeOK, NEW s \in Subjects, NEW row \in Rows \cup {<<>>}, LooksUp(s, row)
    PROVE  /\ Lookups' \in Seq(LogEntry) /\ ThisLookup \in Nat
           /\ DOMAIN Lookups' = 1 .. ThisLookup
           /\ DOMAIN Lookups = 1 .. ThisLookup - 1
           /\ Extends(Lookups, Lookups')
           /\ Lookups'[ThisLookup].subject = s /\ Lookups'[ThisLookup].row = row
           /\ \A i \in DOMAIN Lookups' :
                 Lookups'[i].ok <=>
                    IF Throws(LookupOutcome(s, row)) THEN i <= Len(log) /\ Lookups[i].ok
                    ELSE i = ThisLookup \/ Lookups[i].ok
  <1> DEFINE n == ThisLookup
             e == Entry(s, row)
             more == Append(call.entries, e)
             tail == IF Throws(LookupOutcome(s, row)) THEN Failed(more) ELSE more
  <1>1. e \in LogEntry /\ e.subject = s /\ e.row = row /\ e.ok
    BY DEF Entry, LogEntry
  <1>2. log \in Seq(LogEntry) /\ call.entries \in Seq(LogEntry)
    BY DEF TypeOK
  <1>3. /\ more \in Seq(LogEntry) /\ Len(more) = Len(call.entries) + 1
        /\ \A i \in 1 .. Len(call.entries) : more[i] = call.entries[i]
        /\ more[Len(call.entries) + 1] = e
    <2> HIDE DEF e
    <2> QED
      BY <1>1, <1>2
  <1>4. /\ Lookups' = log \o tail
        /\ tail \in Seq(LogEntry) /\ Len(tail) = Len(call.entries) + 1
        /\ \A i \in 1 .. Len(tail) :
              /\ tail[i].subject = more[i].subject /\ tail[i].row = more[i].row
              /\ tail[i].ok <=> ~Throws(LookupOutcome(s, row)) /\ more[i].ok
    <2> HIDE DEF more
    <2>1. CASE Throws(LookupOutcome(s, row))
      <3>1. log' = log \o Failed(more) /\ call'.entries = <<>>
        BY <2>1 DEF LooksUp, Thrown, more, Idle
      <3>2. Failed(more) \in Seq(LogEntry)
        BY <1>3, FailedType
      <3>3. Len(Failed(more)) = Len(more)
            /\ \A i \in 1 .. Len(more) :
                  /\ Failed(more)[i].subject = more[i].subject
                  /\ Failed(more)[i].row = more[i].row
                  /\ ~Failed(more)[i].ok
        BY <1>3 DEF Failed
      <3>4. log' \in Seq(LogEntry)
        BY <3>1, <3>2, <1>2
      <3>5. Lookups' = log'
        BY <3>1, <3>4 DEF Lookups
      <3> QED
        BY <1>3, <2>1, <3>1, <3>2, <3>3, <3>5
    <2>2. CASE ~Throws(LookupOutcome(s, row))
      BY <1>3, <2>2 DEF LooksUp, Kept, more, Lookups
    <2> QED
      BY <2>1, <2>2
  <1>5. /\ DOMAIN Lookups = 1 .. Len(log) + Len(call.entries)
        /\ Len(log) \in Nat /\ Len(call.entries) \in Nat
        /\ \A i \in 1 .. Len(log) : Lookups[i] = log[i]
        /\ \A i \in 1 .. Len(call.entries) : Lookups[Len(log) + i] = call.entries[i]
        /\ n = Len(log) + Len(call.entries) + 1
    BY LookupsType
  <1> HIDE DEF tail, more, e, n
  <1>6. /\ Lookups' \in Seq(LogEntry)
        /\ DOMAIN Lookups' = 1 .. n
        /\ \A i \in 1 .. Len(log) : Lookups'[i] = log[i]
        /\ \A i \in 1 .. Len(tail) : Lookups'[Len(log) + i] = tail[i]
    <2>1. /\ log \o tail \in Seq(LogEntry)
          /\ DOMAIN (log \o tail) = 1 .. Len(log) + Len(tail)
          /\ \A i \in 1 .. Len(log) : (log \o tail)[i] = log[i]
          /\ \A i \in 1 .. Len(tail) : (log \o tail)[Len(log) + i] = tail[i]
      BY <1>2, <1>4, LogGoesOn, ZenonT(40)
    <2>2. Len(log) + Len(tail) = n
      BY <1>4, <1>5
    <2>3. Lookups' = log \o tail
      BY <1>4
    <2> QED
      BY <2>1, <2>2, <2>3
  <1>7. ASSUME NEW i \in 1 .. n
        PROVE  \/ i \in 1 .. Len(log)
               \/ /\ ~(i <= Len(log)) /\ i - Len(log) \in 1 .. Len(tail)
                  /\ Lookups'[i] = tail[i - Len(log)]
    <2>1. i \in 1 .. Len(log) \/ (~(i <= Len(log)) /\ i - Len(log) \in 1 .. Len(tail))
      BY <1>4, <1>5
    <2>2. i = Len(log) + (i - Len(log))
      BY <1>5
    <2> QED
      BY <1>6, <2>1, <2>2
  <1>8. ASSUME NEW i \in 1 .. n - 1
        PROVE  /\ i \in 1 .. n
               /\ i \in 1 .. Len(log) \/ more[i - Len(log)] = Lookups[i]
    <2>1. i \in 1 .. Len(log) \/ i - Len(log) \in 1 .. Len(call.entries)
      BY <1>5
    <2>2. i = Len(log) + (i - Len(log)) /\ i \in 1 .. n
      BY <1>5
    <2> QED
      BY <1>3, <1>5, <2>1, <2>2
  <1>9. n \in 1 .. n /\ ~(n <= Len(log)) /\ more[n - Len(log)] = e /\ n \in Nat
    BY <1>3, <1>5
  <1>10. Extends(Lookups, Lookups')
    <2>1. DOMAIN Lookups = 1 .. n - 1
      BY <1>5
    <2>2. ASSUME NEW i \in 1 .. n - 1
          PROVE  Lookups'[i].subject = Lookups[i].subject /\ Lookups'[i].row = Lookups[i].row
      <3>1. CASE i \in 1 .. Len(log)
        BY <1>5, <1>6, <3>1
      <3>2. CASE i \notin 1 .. Len(log)
        BY <1>4, <1>7, <1>8, <3>2
      <3> QED
        BY <3>1, <3>2
    <2>3. DOMAIN Lookups \subseteq DOMAIN Lookups'
      BY <1>6, <1>8, <2>1
    <2> QED
      BY <2>1, <2>2, <2>3 DEF Extends
  <1>11. Lookups'[n].subject = s /\ Lookups'[n].row = row
    <2>1. n - Len(log) \in 1 .. Len(tail) /\ Lookups'[n] = tail[n - Len(log)]
      BY <1>7, <1>9
    <2> QED
      BY <1>1, <1>4, <1>9, <2>1
  <1>12. ASSUME NEW i \in 1 .. n
         PROVE  Lookups'[i].ok <=>
                   IF Throws(LookupOutcome(s, row)) THEN i <= Len(log) /\ Lookups[i].ok
                   ELSE i = n \/ Lookups[i].ok
    <2>1. CASE i \in 1 .. Len(log)
      BY <1>5, <1>6, <1>9, <2>1
    <2>2. CASE i \notin 1 .. Len(log)
      <3>1. Lookups'[i].ok <=> ~Throws(LookupOutcome(s, row)) /\ more[i - Len(log)].ok
        BY <1>4, <1>7, <2>2
      <3>2. i = n \/ i \in 1 .. n - 1
        BY <1>9
      <3>3. more[i - Len(log)].ok <=> i = n \/ Lookups[i].ok
        BY <1>1, <1>8, <1>9, <2>2, <3>2
      <3>4. ~(i <= Len(log))
        BY <1>7, <2>2
      <3> QED
        BY <3>1, <3>3, <3>4
    <2> QED
      BY <2>1, <2>2
  <1>13. DOMAIN Lookups = 1 .. n - 1
    BY <1>5
  <1> QED
    BY <1>6, <1>9, <1>10, <1>11, <1>12, <1>13 DEF n

\* What the rows and the empty row of the drain are.
LEMMA RowsOfCells ==
    ASSUME NEW row \in Rows \cup {<<>>}
    PROVE  row \in Seq(Incoming) /\ Distinct(row)
  <1>1. CASE row \in Rows
    BY <1>1 DEF Distinct
  <1>2. CASE row = <<>>
    BY <1>2 DEF Distinct
  <1> QED
    BY <1>1, <1>2

\* A lookup compares its row with what the seeded week holds for its subject, if
\* nobody has asked for that subject before, and leaves every other truth alone.
LEMMA TruthOfLookup ==
    ASSUME IInv, Protocol, History, NEW s \in Subjects,
           NEW row \in Rows \cup {<<>>}, LooksUp(s, row)
    PROVE  /\ Truth(Lookups', ThisLookup) = WeekChanges(s, Members(PriorSlot(s)), Members(row))
           /\ \A i \in DOMAIN Lookups : Truth(Lookups', i) = Truth(Lookups, i)
  <1> DEFINE n == ThisLookup
  <1>0. TypeOK
    BY DEF IInv, Base
  <1>1. /\ Lookups' \in Seq(LogEntry) /\ Lookups \in Seq(LogEntry) /\ n \in Nat
        /\ DOMAIN Lookups = 1 .. n - 1
        /\ Extends(Lookups, Lookups')
        /\ Lookups'[n].subject = s /\ Lookups'[n].row = row
    BY <1>0, LookupsGrow, LookupsType
  <1> HIDE DEF n
  <1>2. \A i \in DOMAIN Lookups : Truth(Lookups', i) = Truth(Lookups, i)
    BY <1>1, TruthKept
  <1>3. PriorIn(Lookups', n) =
           IF \E j \in DOMAIN Lookups : Lookups[j].subject = s THEN {} ELSE seeded[s]
    BY <1>1 DEF PriorIn, Extends
  <1>4. Members(<<>>) = {}
    BY DEF Members
  <1>5. PriorIn(Lookups', n) = Members(PriorSlot(s))
    <2>1. CASE ~Listed(s)
      <3>1. s \notin taken /\ cells[s] = <<>>
        BY <2>1 DEF IInv, CellsListed, SealedFirst, TakenHoldNothing
      <3>2. seeded[s] = {}
        BY <3>1, <1>4 DEF History, SlotsAreSeeded
      <3> QED
        BY <1>3, <1>4, <2>1, <3>2 DEF PriorSlot, Live
    <2>2. CASE Listed(s)
      BY <1>3, <1>4, <2>2 DEF History, SlotsAreSeeded, PriorSlot, Live
    <2> QED
      BY <2>1, <2>2
  <1>6. Truth(Lookups', n) = WeekChanges(s, Members(PriorSlot(s)), Members(row))
    BY <1>1, <1>5 DEF Truth
  <1> QED
    BY <1>2, <1>6 DEF n

\* A lookup consumes its subject's slot and no other.
LEMMA SlotsOfLookup ==
    ASSUME IInv, Protocol, History, NEW s \in Subjects,
           NEW row \in Rows \cup {<<>>}, LooksUp(s, row)
    PROVE  SlotsAreSeeded'
  <1>0. TypeOK
    BY DEF IInv, Base
  <1>1. \A u : (\E i \in DOMAIN Lookups' : Lookups'[i].subject = u)
                  <=> u = s \/ \E i \in DOMAIN Lookups : Lookups[i].subject = u
    <2> DEFINE n == ThisLookup
    <2>1. /\ n \in Nat /\ DOMAIN Lookups = 1 .. n - 1 /\ DOMAIN Lookups' = 1 .. n
          /\ \A i \in 1 .. n - 1 : Lookups'[i].subject = Lookups[i].subject
          /\ Lookups'[n].subject = s
      BY <1>0, LookupsGrow DEF Extends
    <2> HIDE DEF n
    <2>2. n \in 1 .. n
      BY <2>1, <1>0, LookupsGrow, LookupsType DEF n
    <2>3. \A i \in 1 .. n : i = n \/ i \in 1 .. n - 1
      <3>1. n \in Nat
        BY <2>1
      <3> QED
        BY <3>1
    <2>6. \A i \in 1 .. n - 1 : i \in 1 .. n
      <3>1. n \in Nat
        BY <2>1
      <3> QED
        BY <3>1
    <2>4. ASSUME NEW u, NEW i \in 1 .. n, Lookups'[i].subject = u
          PROVE  u = s \/ \E j \in DOMAIN Lookups : Lookups[j].subject = u
      BY <2>1, <2>3, <2>4
    <2>5. ASSUME NEW u, u = s \/ \E j \in DOMAIN Lookups : Lookups[j].subject = u
          PROVE  \E i \in 1 .. n : Lookups'[i].subject = u
      BY <2>1, <2>2, <2>5, <2>6
    <2> QED
      BY <2>1, <2>4, <2>5
  <1>2. Take(s) /\ UNCHANGED seeded
    BY DEF LooksUp
  <1>3. /\ order' = order
        /\ taken' = IF Live(s) THEN taken \cup {s} ELSE taken
        /\ \A u \in Subjects : cells'[u] = cells[u] \/ (u = s /\ Live(s) /\ cells'[u] = <<>>)
    BY <1>0, <1>2 DEF Take, TypeOK
  <1>4. Distinct(<<>>)
    BY DEF Distinct
  <1>5. ASSUME NEW u \in Subjects PROVE Listed(u)' <=> Listed(u)
    BY <1>3 DEF Listed
  <1> SUFFICES ASSUME NEW u \in Subjects
               PROVE  /\ Distinct(cells'[u])
                      /\ u \notin taken' => seeded'[u] = Members(cells'[u])
                      /\ \A c, d \in seeded'[u] : c.target = d.target => c = d
                      /\ Listed(u) =>
                            (u \in taken' <=>
                                \E i \in DOMAIN Lookups' : Lookups'[i].subject = u)
    BY <1>5 DEF SlotsAreSeeded, Distinct, Members
  <1>6. /\ Distinct(cells[u])
        /\ u \notin taken => seeded[u] = Members(cells[u])
        /\ \A c, d \in seeded[u] : c.target = d.target => c = d
        /\ Listed(u) => (u \in taken <=> \E i \in DOMAIN Lookups : Lookups[i].subject = u)
    BY DEF History, SlotsAreSeeded
  <1>7. u \notin taken' => u \notin taken /\ cells'[u] = cells[u]
    BY <1>3
  <1>8. Distinct(cells'[u])
    BY <1>3, <1>4, <1>6
  <1>9. Listed(u) => (u \in taken' <=> \E i \in DOMAIN Lookups' : Lookups'[i].subject = u)
    <2>1. CASE u = s
      BY <1>1, <1>3, <2>1 DEF Live
    <2>2. CASE u # s
      BY <1>1, <1>3, <1>6, <2>2
    <2> QED
      BY <2>1, <2>2
  <1> QED
    BY <1>2, <1>6, <1>7, <1>8, <1>9

\* What a lookup without error adds to the output: finitely many changes, all of
\* this lookup, which tell what it must tell.
LEMMA ChangesTold ==
    ASSUME IInv, Protocol, History, NEW s \in Subjects,
           NEW row \in Rows \cup {<<>>}, NEW n,
           ~Throws(LookupOutcome(s, row))
    PROVE  /\ Tells(ChangesOf(LookupOutcome(s, row), n),
                    WeekChanges(s, Members(PriorSlot(s)), Members(row)))
           /\ \A c \in ChangesOf(LookupOutcome(s, row), n) : c.at[1] = n
           /\ IsFiniteSet(ChangesOf(LookupOutcome(s, row), n))
  <1> DEFINE slot == PriorSlot(s)
             outcome == LookupOutcome(s, row)
             said == ChangesOf(outcome, n)
  <1>1. slot \in Seq(Cell) /\ Distinct(slot)
    <2>1. cells[s] \in Seq(Cell) /\ Distinct(cells[s])
      BY DEF IInv, Base, TypeOK, History, SlotsAreSeeded
    <2>2. <<>> \in Seq(Cell) /\ Distinct(<<>>)
      BY DEF Distinct
    <2> QED
      BY <2>1, <2>2 DEF PriorSlot
  <1>2. row \in Seq(Incoming) /\ Distinct(row)
    BY RowsOfCells
  <1>3. outcome = RowOutcome(s, slot, row, Stamped(slot), Indexed(slot),
                             Held(row, Len(row)), epoch + 1)
    BY DEF LookupOutcome
  <1>4. Base
    BY DEF IInv
  <1> HIDE DEF slot, outcome
  <1>5. ~Throws(outcome)
    BY DEF outcome
  <1>6. /\ {outcome[i].change : i \in Told(outcome)}
             = WeekChanges(s, Members(slot), Members(row))
        /\ \A i, j \in Told(outcome) : outcome[i].change = outcome[j].change => i = j
    BY <1>1, <1>2, <1>3, <1>4, <1>5, OutcomeIsDiff
  <1> DEFINE Line(i) == [at |-> <<n, i>>, change |-> outcome[i].change]
             told == Told(outcome)
  <1>7. said = {Line(i) : i \in told}
    BY DEF ChangesOf, Told
  <1>8. \A i : Line(i).change = outcome[i].change /\ Line(i).at[1] = n
    OBVIOUS
  <1>9. IsFiniteSet(told)
    <2>1. told \in SUBSET (1 .. Len(row) + Len(slot)) /\ Len(row) + Len(slot) \in Nat
      BY <1>1, <1>2, <1>3 DEF Told, RowOutcome
    <2>2. IsFiniteSet(1 .. Len(row) + Len(slot))
      BY <2>1, FS_Interval
    <2> QED
      BY <2>1, <2>2, FS_Subset
  <1> HIDE DEF said, Line, told
  <1>10. IsFiniteSet(said)
    <2> DEFINE f == [i \in told |-> Line(i)]
    <2>1. f \in Surjection(told, said)
      BY <1>7 DEF Surjection
    <2> QED
      BY <1>9, <2>1, FS_Surjection
  <1>11. {c.change : c \in said} = {outcome[i].change : i \in told}
    BY <1>7, <1>8
  <1>12. \A c, d \in said : c.change = d.change => c = d
    BY <1>6, <1>7, <1>8 DEF told
  <1>13. Tells(said, WeekChanges(s, Members(slot), Members(row)))
    BY <1>6, <1>11, <1>12 DEF Tells, told
  <1>14. \A c \in said : c.at[1] = n
    BY <1>7, <1>8
  <1> QED
    BY <1>10, <1>13, <1>14 DEF said, outcome, slot

\* A lookup keeps what has been told: it tells its own truth, and when it throws
\* nothing of its call has been told.
LEMMA ToldOfLookup ==
    ASSUME IInv, Protocol, History, NEW s \in Subjects,
           NEW row \in Rows \cup {<<>>}, LooksUp(s, row)
    PROVE  History'
  <1> DEFINE n == ThisLookup
             outcome == LookupOutcome(s, row)
             said == ChangesOf(outcome, n)
  <1>0. TypeOK
    BY DEF IInv, Base
  <1>1. /\ n \in Nat
        /\ DOMAIN Lookups' = 1 .. n /\ DOMAIN Lookups = 1 .. n - 1
        /\ \A i \in DOMAIN Lookups' :
              Lookups'[i].ok <=> IF Throws(outcome) THEN i <= Len(log) /\ Lookups[i].ok
                                 ELSE i = n \/ Lookups[i].ok
    BY <1>0, LookupsGrow
  <1>2. /\ Len(log) \in Nat /\ Len(call.entries) \in Nat
        /\ n = Len(log) + Len(call.entries) + 1 /\ DOMAIN log = 1 .. Len(log)
    BY <1>0, LookupsType
  <1>3. /\ Truth(Lookups', n) = WeekChanges(s, Members(PriorSlot(s)), Members(row))
        /\ \A i \in DOMAIN Lookups : Truth(Lookups', i) = Truth(Lookups, i)
    BY TruthOfLookup
  <1>4. \A i : Truth(Lookups, i)' = Truth(Lookups', i)
    BY TruthFrozen DEF LooksUp
  <1>5. ~Throws(outcome) => /\ Tells(said, Truth(Lookups', n))
                            /\ \A c \in said : c.at[1] = n
                            /\ IsFiniteSet(said)
    BY <1>3, ChangesTold
  <1>6. SlotsAreSeeded'
    BY SlotsOfLookup
  <1>7. Quiet'
    BY DEF LooksUp, Quiet
  <1>8. /\ IsFiniteSet(Reported)
        /\ \A c \in Reported : c.at[1] \in 1 .. n - 1
        /\ \A c \in report.changes : c.at[1] \in 1 .. Len(log)
        /\ \A c \in call.out.changes : c.at[1] > Len(log)
        /\ \A i \in DOMAIN call.entries : call.entries[i].ok
        /\ \A i \in 1 .. n - 1 :
              IF Lookups[i].ok THEN Tells(SaidOf(Reported, i), Truth(Lookups, i))
              ELSE SaidOf(Reported, i) = {}
    BY <1>1, <1>2 DEF History, ToldByLookups, LookupsTold
  <1>9. CASE Throws(outcome)
    <2>1. call' = Idle /\ report' = report /\ Lookups' = log'
      <3>1. call' = Idle /\ report' = report /\ Lookups' = log' \o <<>>
        BY <1>9, SMTT(30) DEF LooksUp, Thrown, Lookups, Idle
      <3>2. log' \in Seq(LogEntry)
        <4>1. log' = log \o Failed(Append(call.entries, Entry(s, row)))
          BY <1>9 DEF LooksUp, Thrown
        <4>2. Entry(s, row) \in LogEntry /\ call.entries \in Seq(LogEntry)
              /\ log \in Seq(LogEntry)
          BY <1>0 DEF Entry, LogEntry, TypeOK
        <4>3. Failed(Append(call.entries, Entry(s, row))) \in Seq(LogEntry)
          BY <4>2, FailedType, AppendProperties
        <4> QED
          BY <4>1, <4>2, <4>3
      <3> QED
        BY <3>1, <3>2
    <2>2. Reported' = report.changes /\ call'.out.changes = {} /\ call'.entries = <<>>
      BY <2>1 DEF Reported, Idle, NoOutput
    <2>3. ToldByLookups'
      <3>1. IsFiniteSet(report.changes)
        BY <1>8, FS_Subset DEF Reported
      <3>2. 1 .. Len(log) \subseteq 1 .. n
        BY <1>2
      <3> QED
        BY <1>1, <1>8, <2>1, <2>2, <3>1, <3>2 DEF ToldByLookups
    <2>4. ASSUME NEW i \in 1 .. n, i <= Len(log)
          PROVE  i \in 1 .. n - 1 /\ SaidOf(report.changes, i) = SaidOf(Reported, i)
      <3>1. \A c \in call.out.changes : c.at[1] # i
        BY <1>2, <1>8, <2>4
      <3> QED
        BY <1>2, <2>4, <3>1 DEF SaidOf, Reported
    <2>5. ASSUME NEW i \in 1 .. n, ~(i <= Len(log))
          PROVE  SaidOf(report.changes, i) = {}
      BY <1>2, <1>8, <2>5 DEF SaidOf
    <2>6. \A i \in 1 .. n :
            IF Lookups'[i].ok THEN Tells(SaidOf(report.changes, i), Truth(Lookups', i))
            ELSE SaidOf(report.changes, i) = {}
      BY <1>1, <1>3, <1>8, <1>9, <2>4, <2>5
    <2>7. LookupsTold'
      BY <1>1, <1>4, <2>2, <2>6 DEF LookupsTold, SaidOf, Tells
    <2> QED
      BY <1>6, <1>7, <2>3, <2>7 DEF History
  <1>10. CASE ~Throws(outcome)
    <2>1. /\ call'.entries = Append(call.entries, Entry(s, row))
          /\ call'.out.changes = call.out.changes \cup said
          /\ log' = log /\ report' = report
      BY <1>10 DEF LooksUp, Kept
    <2>2. Reported' = Reported \cup said
      BY <2>1 DEF Reported
    <2>3. ToldByLookups'
      <3>1. IsFiniteSet(Reported')
        BY <1>5, <1>8, <1>10, <2>2, FS_Union
      <3>2. n \in 1 .. n /\ n > Len(log) /\ 1 .. n - 1 \subseteq 1 .. n
        BY <1>2
      <3>3. call.entries \in Seq(LogEntry) /\ Entry(s, row).ok
        BY <1>0 DEF TypeOK, Entry
      <3>4. \A i \in DOMAIN call'.entries : call'.entries[i].ok
        BY <1>8, <2>1, <3>3
      <3> HIDE DEF n, said
      <3>5. \A c \in Reported' : c.at[1] \in 1 .. n
        BY <1>5, <1>8, <1>10, <2>2, <3>2
      <3>6. \A c \in call'.out.changes : c.at[1] > Len(log)
        BY <1>5, <1>8, <1>10, <2>1, <3>2
      <3> QED
        BY <1>1, <1>8, <2>1, <3>1, <3>4, <3>5, <3>6 DEF ToldByLookups
    <2>4. ASSUME NEW i \in 1 .. n - 1
          PROVE  i # n /\ i \in 1 .. n /\ SaidOf(Reported \cup said, i) = SaidOf(Reported, i)
      <3>1. i # n /\ i \in 1 .. n
        BY <1>2
      <3> QED
        BY <1>5, <1>10, <3>1 DEF SaidOf
    <2>5. SaidOf(Reported \cup said, n) = said
      <3>1. \A c \in Reported : c.at[1] # n
        BY <1>2, <1>8
      <3> QED
        BY <1>5, <1>10, <3>1 DEF SaidOf
    <2>6. \A i \in 1 .. n : i = n \/ i \in 1 .. n - 1
      BY <1>2
    <2> HIDE DEF n, said
    <2>7. ASSUME NEW i \in 1 .. n
          PROVE  IF Lookups'[i].ok THEN Tells(SaidOf(Reported \cup said, i), Truth(Lookups', i))
                 ELSE SaidOf(Reported \cup said, i) = {}
      <3>1. CASE i = n
        BY <1>1, <1>5, <1>10, <2>5, <3>1
      <3>2. CASE i # n
        <4>1. i \in 1 .. n - 1
          BY <2>6, <3>2
        <4>2. Lookups'[i].ok <=> Lookups[i].ok
          BY <1>1, <1>10, <3>2
        <4>3. Truth(Lookups', i) = Truth(Lookups, i)
          BY <1>1, <1>3, <4>1
        <4>4. SaidOf(Reported \cup said, i) = SaidOf(Reported, i)
          BY <2>4, <4>1
        <4> QED
          BY <1>8, <4>1, <4>2, <4>3, <4>4
      <3> QED
        BY <3>1, <3>2
    <2>8. LookupsTold'
      BY <1>1, <1>4, <2>2, <2>7 DEF LookupsTold, SaidOf, Tells
    <2> QED
      BY <1>6, <1>7, <2>3, <2>8 DEF History
  <1> QED
    BY <1>9, <1>10

\* A step that looks nothing up leaves what was told as it is.
LEMMA HistoryFrozen ==
    ASSUME History, Quiet',
           UNCHANGED <<pinned, order, taken, cells, report, log, seeded,
                       call.entries, call.out>>
    PROVE  History'
  <1>1. Lookups' = Lookups /\ Reported' = Reported
    BY DEF Lookups, Reported
  <1>2. \A s : Listed(s)' <=> Listed(s)
    BY DEF Listed
  <1>3. SlotsAreSeeded'
    BY <1>1, <1>2 DEF History, SlotsAreSeeded, Distinct, Members
  <1>4. ToldByLookups'
    BY <1>1 DEF History, ToldByLookups
  <1>5. \A i : Truth(Lookups, i)' = Truth(Lookups, i)
    BY <1>1, TruthFrozen
  <1>6. LookupsTold'
    BY <1>1, <1>5 DEF History, LookupsTold, SaidOf, Tells
  <1> QED
    BY <1>3, <1>4, <1>6 DEF History

\* A call that returns hands over what it told: nothing is told by it twice.
LEMMA ReturnTells ==
    ASSUME IInv, Protocol, History, Return, sealed
    PROVE  History'
  <1>0. log \in Seq(LogEntry) /\ call.entries \in Seq(LogEntry)
    BY DEF IInv, Base, TypeOK
  <1>1. /\ report'.changes = Reported
        /\ call' = Idle /\ log' = Lookups
        /\ UNCHANGED <<setup, slots, scratch, seeded>>
    BY DEF Return, More, Reported, Lookups
  <1>2. call'.entries = <<>> /\ call'.out.changes = {}
    BY <1>1 DEF Idle, NoOutput
  <1>3. Lookups' = Lookups
    <2>1. Lookups \in Seq(LogEntry)
      BY <1>0, LogGoesOn DEF Lookups
    <2>2. Lookups' = Lookups \o <<>>
      BY <1>1, <1>2 DEF Lookups
    <2> QED
      BY <2>1, <2>2
  <1>4. Reported' = Reported
    BY <1>1, <1>2 DEF Reported
  <1>5. \A s : Listed(s)' <=> Listed(s)
    BY <1>1 DEF Listed, slots
  <1>6. SlotsAreSeeded'
    BY <1>1, <1>3, <1>5 DEF History, SlotsAreSeeded, Distinct, Members, slots
  <1>7. ToldByLookups'
    BY <1>1, <1>2, <1>3, <1>4 DEF History, ToldByLookups
  <1>8. \A i : Truth(Lookups, i)' = Truth(Lookups, i)
    BY <1>1, <1>3, TruthFrozen DEF setup
  <1>9. LookupsTold'
    BY <1>3, <1>4, <1>8 DEF History, LookupsTold, SaidOf, Tells
  <1>10. Quiet'
    BY <1>1 DEF Quiet, setup
  <1> QED
    BY <1>6, <1>7, <1>9, <1>10 DEF History

\* Before the seal there is nothing to tell, whatever is set up.
LEMMA SetUpTells ==
    ASSUME IInv, Protocol, History, HostMaySetUp,
           UNCHANGED <<call, report, log, taken>>, SlotsAreSeeded'
    PROVE  History'
  <1>1. log = <<>> /\ call = Idle /\ taken = {}
    BY DEF HostMaySetUp, History, Quiet
  <1>2. Lookups' = Lookups /\ Reported' = Reported
    BY DEF Lookups, Reported
  <1>3. Lookups = <<>>
    BY <1>1 DEF Lookups, Idle
  <1>4. ToldByLookups'
    BY <1>2 DEF History, ToldByLookups
  <1>5. LookupsTold'
    BY <1>2, <1>3 DEF LookupsTold
  <1>6. Quiet'
    BY <1>1 DEF Quiet
  <1> QED
    BY <1>4, <1>5, <1>6 DEF History

\* A seeded cell replaces the one of its target, in the slot as in the week.
LEMMA SeedSlots ==
    ASSUME IInv, Protocol, History, NEW s \in Subjects, NEW c \in Cell, Seed(s, c)
    PROVE  SlotsAreSeeded'
  <1> DEFINE slot == cells[s]
             next == cells'[s]
             others == {d \in Members(slot) : d.target # c.target}
  <1>0. TypeOK /\ StampsAreOld
    BY DEF IInv, Base
  <1>1. slot \in Seq(Cell) /\ Distinct(slot) /\ c.target \in Targets
    BY <1>0 DEF TypeOK, History, SlotsAreSeeded, Cell
  <1>2. log = <<>> /\ call = Idle /\ taken = {} /\ UNCHANGED <<taken, call, log>>
    BY DEF Seed, HostMaySetUp, History, Quiet
  <1>3. Lookups' = <<>>
    BY <1>2 DEF Lookups, Idle
  <1>4. seeded[s] = Members(slot)
    BY <1>2 DEF History, SlotsAreSeeded
  <1>5. \A u \in Subjects : u # s => cells'[u] = cells[u] /\ seeded'[u] = seeded[u]
    BY <1>0 DEF Seed, TypeOK
  <1>6. seeded'[s] = others \cup {c}
    BY <1>0, <1>4 DEF Seed, TypeOK
  <1>7. Distinct(next) /\ Members(next) = others \cup {c}
    <2>1. CASE Stamped(slot)[c.target] = epoch + 1
      <3> DEFINE at == Indexed(slot)[c.target]
      <3>1. at \in DOMAIN slot /\ slot[at].target = c.target
        BY <1>0, <1>1, <2>1, LookupIsExact
      <3>2. next = [slot EXCEPT ![at] = c]
        BY <1>0, <2>1 DEF Seed, TypeOK
      <3> HIDE DEF at, next, slot
      <3>3. /\ DOMAIN next = DOMAIN slot /\ next[at] = c
            /\ \A i \in DOMAIN slot : i # at => next[i] = slot[i]
        BY <1>1, <3>1, <3>2
      <3>4. \A i \in DOMAIN slot : i # at => slot[i].target # c.target
        BY <1>1, <3>1 DEF Distinct
      <3>5. Distinct(next)
        BY <1>1, <3>3, <3>4 DEF Distinct
      <3>6. \A d : d \in Members(next) <=> d \in others \cup {c}
        BY <3>1, <3>3, <3>4 DEF Members
      <3> QED
        BY <3>5, <3>6
    <2>2. CASE Stamped(slot)[c.target] # epoch + 1
      <3>1. next = Append(slot, c)
        BY <1>0, <2>2 DEF Seed, TypeOK
      <3>2. \A i \in DOMAIN slot : slot[i].target # c.target
        BY <1>0, <1>1, <2>2, LookupIsExact DEF At
      <3> HIDE DEF next, slot
      <3>3. /\ DOMAIN slot = 1 .. Len(slot) /\ Len(slot) \in Nat
            /\ DOMAIN next = 1 .. Len(slot) + 1 /\ next[Len(slot) + 1] = c
            /\ \A i \in 1 .. Len(slot) : next[i] = slot[i]
        BY <1>1, <3>1
      <3>4. \A i \in DOMAIN next : i \in DOMAIN slot \/ i = Len(slot) + 1
        BY <3>3
      <3>5. DOMAIN slot \subseteq DOMAIN next /\ Len(slot) + 1 \in DOMAIN next
        BY <3>3
      <3>6. Distinct(next)
        BY <1>1, <3>2, <3>3, <3>4 DEF Distinct
      <3>7. \A d : d \in Members(next) <=> d \in others \cup {c}
        BY <3>2, <3>3, <3>4, <3>5 DEF Members
      <3> QED
        BY <3>6, <3>7
    <2> QED
      BY <2>1, <2>2
  <1>8. ASSUME NEW d, NEW e, d \in others \cup {c}, e \in others \cup {c},
               d.target = e.target
        PROVE  d = e
    <2>1. \A a, b \in Members(slot) : a.target = b.target => a = b
      BY <1>1 DEF Members, Distinct
    <2> QED
      BY <1>8, <2>1
  <1> HIDE DEF next, others, slot
  <1>9. \A u \in Subjects :
          /\ Distinct(cells'[u])
          /\ seeded'[u] = Members(cells'[u])
          /\ \A d, e \in seeded'[u] : d.target = e.target => d = e
    <2> TAKE u \in Subjects
    <2>1. CASE u = s
      BY <1>6, <1>7, <1>8, <2>1 DEF next
    <2>2. CASE u # s
      BY <1>2, <1>5, <2>2 DEF History, SlotsAreSeeded
    <2> QED
      BY <2>1, <2>2
  <1> QED
    BY <1>2, <1>3, <1>9 DEF SlotsAreSeeded, Distinct, Members

\* A new session has told nothing.
LEMMA InitHistory == Init => History
  <1> SUFFICES ASSUME Init PROVE History
    OBVIOUS
  <1>1. /\ call.entries = <<>> /\ call.out.changes = {} /\ report.changes = {}
        /\ log = <<>> /\ taken = {} /\ call = Idle
    BY DEF Init, Idle, NoOutput
  <1>2. Lookups = <<>> /\ Reported = {}
    BY <1>1 DEF Lookups, Reported
  <1>3. SlotsAreSeeded
    BY <1>2 DEF SlotsAreSeeded, Distinct, Members, Init
  <1>4. IsFiniteSet({})
    BY FS_EmptySet
  <1>5. ToldByLookups /\ LookupsTold /\ Quiet
    BY <1>1, <1>2, <1>4 DEF ToldByLookups, LookupsTold, Quiet
  <1> QED
    BY <1>3, <1>5 DEF History

\* Every step keeps the history told.
LEMMA NextHistory ==
    ASSUME Protocol
    PROVE  IInv /\ History /\ [Next]_vars => History'
  <1> SUFFICES ASSUME IInv, History, [Next]_vars PROVE History'
    OBVIOUS
  <1>1. ASSUME NEW p \in Pins, SetPinned(p[1], p[2])
        PROVE  History'
    <2>1. HostMaySetUp /\ UNCHANGED <<order, taken, cells, call, report, log, seeded>>
      BY <1>1 DEF SetPinned, slots, history
    <2>2. Lookups' = Lookups /\ \A s : Listed(s)' <=> Listed(s)
      BY <2>1 DEF Lookups, Listed
    <2>3. SlotsAreSeeded'
      BY <2>1, <2>2 DEF History, SlotsAreSeeded, Distinct, Members
    <2> QED
      BY <2>1, <2>3, SetUpTells
  <1>2. ASSUME NEW s \in Subjects, SeedEmpty(s)
        PROVE  History'
    <2>1. HostMaySetUp /\ UNCHANGED <<taken, cells, call, report, log, seeded>>
      BY <1>2 DEF SeedEmpty, history
    <2>2. Lookups' = <<>> /\ taken = {}
      BY <2>1 DEF Lookups, History, Quiet, HostMaySetUp, Idle
    <2>3. SlotsAreSeeded'
      BY <2>1, <2>2 DEF History, SlotsAreSeeded, Distinct, Members
    <2> QED
      BY <2>1, <2>3, SetUpTells
  <1>3. ASSUME NEW s \in Subjects, NEW c \in Cell, Seed(s, c)
        PROVE  History'
    <2>1. HostMaySetUp /\ UNCHANGED <<call, report, log, taken>>
      BY <1>3 DEF Seed
    <2> QED
      BY <1>3, <2>1, SeedSlots, SetUpTells
  <1>4. CASE Seal
    <2>1. HostMaySetUp /\ UNCHANGED <<order, taken, cells, call, report, log, seeded>>
      BY <1>4 DEF Seal, slots, history
    <2>2. Lookups' = Lookups /\ \A s : Listed(s)' <=> Listed(s)
      BY <2>1 DEF Lookups, Listed
    <2>3. SlotsAreSeeded'
      BY <2>1, <2>2 DEF History, SlotsAreSeeded, Distinct, Members
    <2> QED
      BY <2>1, <2>3, SetUpTells
  <1>5. ASSUME NEW s \in Subjects, NEW row \in Rows, DiffRow(s, row)
        PROVE  History'
    BY <1>5, RowLooksUp, ToldOfLookup
  <1>6. CASE DiffReturn \/ VanishReturn
    <2>1. sealed
      BY <1>6, IdleCall DEF DiffReturn, VanishReturn, IInv, SealedFirst
    <2> QED
      BY <1>6, <2>1, ReturnTells DEF DiffReturn, VanishReturn
  <1>7. CASE VanishCall
    <2>1. /\ UNCHANGED <<pinned, order, taken, cells, report, log, seeded>>
          /\ call = Idle /\ sealed'
          /\ call'.entries = <<>> /\ call'.out = NoOutput
      BY <1>7 DEF VanishCall, HostMayDiff, setup, slots, history, Idle
    <2>2. UNCHANGED <<call.entries, call.out>> /\ Quiet'
      BY <2>1 DEF Idle, Quiet
    <2> QED
      BY <2>1, <2>2, HistoryFrozen
  <1>8. CASE VanishSkip
    <2>1. /\ UNCHANGED <<pinned, order, taken, cells, report, log, seeded>>
          /\ sealed' /\ call' = [call EXCEPT !.next = @ + 1]
      BY <1>8, IdleCall DEF VanishSkip, IInv, SealedFirst, setup, slots, history
    <2>2. UNCHANGED <<call.entries, call.out>> /\ Quiet'
      BY <2>1 DEF Quiet
    <2> QED
      BY <2>1, <2>2, HistoryFrozen
  <1>9. CASE VanishTake
    BY <1>9, VanishLooksUp, ToldOfLookup
  <1>10. CASE UNCHANGED vars
    <2>1. UNCHANGED <<pinned, order, taken, cells, report, log, seeded,
                      call.entries, call.out>>
      BY <1>10 DEF vars, setup, slots, history
    <2>2. Quiet'
      BY <1>10 DEF vars, setup, slots, history, History, Quiet
    <2> QED
      BY <2>1, <2>2, HistoryFrozen
  <1> QED
    BY <1>1, <1>2, <1>3, <1>4, <1>5, <1>6, <1>7, <1>8, <1>9, <1>10 DEF Next

\* Every lookup of the log tells what ReportIsExact asks, once.
LEMMA LogTells ==
    ASSUME IInv, History, call = Idle
    PROVE  /\ Lookups = log /\ Reported = report.changes
           /\ \A i \in DOMAIN log :
                 /\ Truth(log, i) = WeekChanges(log[i].subject, PriorWeek(i), Week(i))
                 /\ IF log[i].ok THEN Tells(SaidOf(report.changes, i), Truth(log, i))
                    ELSE SaidOf(report.changes, i) = {}
  <1>1. log \in Seq(LogEntry)
    BY DEF IInv, Base, TypeOK
  <1>2. Lookups = log /\ Reported = report.changes
    BY <1>1 DEF Lookups, Reported, Idle, NoOutput
  <1>3. \A i : Truth(log, i) = WeekChanges(log[i].subject, PriorWeek(i), Week(i))
    BY DEF Truth, PriorIn, PriorWeek, Members, Week
  <1> QED
    BY <1>2, <1>3 DEF History, LookupsTold

\* Told lookup by lookup, each change once: the report is the diff.
LEMMA ToldIsExact == IInv /\ History => ReportIsExact
  <1> SUFFICES ASSUME IInv, History, call = Idle
               PROVE  LET diff == UNION {{i} \X WeekChanges(log[i].subject, PriorWeek(i), Week(i)) :
                                            i \in {j \in DOMAIN log : log[j].ok}}
                      IN  /\ {<<c.at[1], c.change>> : c \in report.changes} = diff
                          /\ Cardinality(report.changes) = Cardinality(diff)
    BY DEF ReportIsExact
  <1> DEFINE True(i) == WeekChanges(log[i].subject, PriorWeek(i), Week(i))
             diff == UNION {{i} \X True(i) : i \in {j \in DOMAIN log : log[j].ok}}
             S == report.changes
             Pair(c) == <<c.at[1], c.change>>
  <1>1. \A i \in DOMAIN log : IF log[i].ok THEN Tells(SaidOf(S, i), True(i))
                              ELSE SaidOf(S, i) = {}
    BY LogTells
  <1>2. /\ IsFiniteSet(S) /\ \A c \in S : c.at[1] \in DOMAIN log
    BY LogTells DEF History, ToldByLookups
  <1> HIDE DEF True, S
  <1>3. ASSUME NEW c \in S
        PROVE  log[c.at[1]].ok /\ c.change \in True(c.at[1])
    <2>1. c \in SaidOf(S, c.at[1])
      BY DEF SaidOf
    <2> QED
      BY <1>1, <1>2, <2>1 DEF Tells
  <1>4. ASSUME NEW i \in DOMAIN log, log[i].ok, NEW x \in True(i)
        PROVE  \E c \in S : c.at[1] = i /\ c.change = x
    BY <1>1, <1>4 DEF Tells, SaidOf
  <1>5. ASSUME NEW c \in S, NEW d \in S, c.at[1] = d.at[1], c.change = d.change
        PROVE  c = d
    <2>1. c \in SaidOf(S, c.at[1]) /\ d \in SaidOf(S, c.at[1])
      BY <1>5 DEF SaidOf
    <2> QED
      BY <1>1, <1>2, <1>5, <2>1 DEF Tells
  <1>6. \A x : x \in diff <=> \E i \in DOMAIN log : log[i].ok /\ x \in {i} \X True(i)
    OBVIOUS
  <1>7. {Pair(c) : c \in S} = diff
    <2>1. ASSUME NEW c \in S PROVE Pair(c) \in diff
      BY <1>2, <1>3, <1>6
    <2>2. ASSUME NEW x \in diff PROVE \E c \in S : x = Pair(c)
      <3>1. PICK i \in DOMAIN log : log[i].ok /\ x \in {i} \X True(i)
        BY <1>6
      <3>2. PICK y \in True(i) : x = <<i, y>>
        BY <3>1
      <3> QED
        BY <1>4, <3>1, <3>2
    <2> HIDE DEF Pair, diff
    <2> QED
      BY <2>1, <2>2
  <1>8. Cardinality(S) = Cardinality(diff)
    <2> DEFINE f == [c \in S |-> Pair(c)]
    <2>1. \A c, d \in S : f[c] = f[d] => c = d
      BY <1>5
    <2> HIDE DEF diff
    <2>2. f \in Bijection(S, diff)
      BY <1>7, <2>1 DEF Bijection, Injection, Surjection, IsInjective
    <2>3. ExistsBijection(S, diff)
      BY <2>2 DEF ExistsBijection
    <2> HIDE DEF f
    <2> QED
      BY <1>2, <2>3, FS_Bijection
  <1> QED
    BY <1>7, <1>8 DEF S, True

\* Applying the diff of two weeks, in which each target comes once, to the old one
\* gives the new one.
LEMMA DiffApplies ==
    ASSUME NEW s, NEW old \in SUBSET Cell, NEW new \in SUBSET Incoming,
           \A c, d \in old : c.target = d.target => c = d,
           \A x, y \in new : x.target = y.target => x = y
    PROVE  LET mine == WeekChanges(s, old, new)
               kept == {c \in old : \A m \in mine : m.target # c.target}
           IN  {[target |-> c.target, val |-> c.val] : c \in kept}
               \cup {[target |-> m.target, val |-> m.new] : m \in {x \in mine : x.new # Absent}}
               = new
  <1> DEFINE mine == WeekChanges(s, old, new)
             kept == {c \in old : \A m \in mine : m.target # c.target}
             Row(t, v) == [target |-> t, val |-> v]
             Added(x) == Change(s, x.target, "added", pinned[x.target], Absent, x.val)
             Changed(p, x) == Change(s, x.target, "changed", p.kind, p.val, x.val)
             Removed(c) == Change(s, c.target, "removed", c.kind, c.val, Absent)
             Both(c, x) == c.target = x.target /\ ~StrictEq(c.val, x.val)
  <1>1. /\ \A x : Added(x).target = x.target /\ Added(x).new = x.val
        /\ \A c, x : Changed(c, x).target = x.target /\ Changed(c, x).new = x.val
        /\ \A c : Removed(c).target = c.target /\ Removed(c).new = Absent
    BY DEF Change
  <1>2. /\ \A x \in new : (\A c \in old : x.target # c.target) => Added(x) \in mine
        /\ \A c \in old, x \in new : Both(c, x) => Changed(c, x) \in mine
        /\ \A c \in old : (\A x \in new : x.target # c.target) => Removed(c) \in mine
    <2> DEFINE both == {p \in old \X new : p[1].target = p[2].target
                                           /\ ~StrictEq(p[1].val, p[2].val)}
    <2>1. ASSUME NEW c \in old, NEW x \in new, Both(c, x)
          PROVE  Changed(c, x) \in mine
      <3>1. <<c, x>> \in both
        BY <2>1
      <3>2. Changed(c, x) = Change(s, <<c, x>>[2].target, "changed", <<c, x>>[1].kind,
                                   <<c, x>>[1].val, <<c, x>>[2].val)
        OBVIOUS
      <3> QED
        BY <3>1, <3>2 DEF WeekChanges
    <2>2. \A x \in new : (\A c \in old : x.target # c.target) => Added(x) \in mine
      BY DEF WeekChanges
    <2>3. \A c \in old : (\A x \in new : x.target # c.target) => Removed(c) \in mine
      BY DEF WeekChanges
    <2> QED
      BY <2>1, <2>2, <2>3
  <1>3. ASSUME NEW m \in mine
        PROVE  \/ \E x \in new : (\A c \in old : x.target # c.target) /\ m = Added(x)
               \/ \E c \in old, x \in new : Both(c, x) /\ m = Changed(c, x)
               \/ \E c \in old : (\A x \in new : x.target # c.target) /\ m = Removed(c)
    BY <1>3 DEF WeekChanges
  <1>4. \A x \in new : x = Row(x.target, x.val) /\ x.val # Absent
    BY DEF Incoming
  <1> HIDE DEF mine, Added, Changed, Removed, Row
  <1>5. ASSUME NEW c \in kept PROVE Row(c.target, c.val) \in new
    <2>1. \E x \in new : x.target = c.target
      BY <1>1, <1>2
    <2>2. PICK x \in new : x.target = c.target
      BY <2>1
    <2>3. StrictEq(c.val, x.val)
      BY <1>1, <1>2, <2>2
    <2> QED
      BY <1>4, <2>2, <2>3 DEF StrictEq
  <1>6. ASSUME NEW m \in mine, m.new # Absent PROVE Row(m.target, m.new) \in new
    BY <1>1, <1>3, <1>4, <1>6
  <1>7. ASSUME NEW x \in new
        PROVE  \/ \E c \in kept : x = Row(c.target, c.val)
               \/ \E m \in mine : m.new # Absent /\ x = Row(m.target, m.new)
    <2>1. CASE \A c \in old : x.target # c.target
      BY <1>1, <1>2, <1>4, <2>1
    <2>2. ASSUME NEW c \in old, x.target = c.target
          PROVE  \/ c \in kept /\ x = Row(c.target, c.val)
                 \/ \E m \in mine : m.new # Absent /\ x = Row(m.target, m.new)
      <3>1. CASE ~StrictEq(c.val, x.val)
        BY <1>1, <1>2, <1>4, <2>2, <3>1
      <3>2. CASE StrictEq(c.val, x.val)
        <4>1. ASSUME NEW m \in mine PROVE m.target # c.target
          BY <1>1, <1>3, <2>2, <3>2
        <4> QED
          BY <1>4, <2>2, <3>2, <4>1 DEF StrictEq
      <3> QED
        BY <3>1, <3>2
    <2> QED
      BY <2>1, <2>2
  <1>8. {Row(c.target, c.val) : c \in kept}
           \cup {Row(m.target, m.new) : m \in {x \in mine : x.new # Absent}} = new
    <2> HIDE DEF kept
    <2> QED
      BY <1>5, <1>6, <1>7
  <1> QED
    BY <1>8 DEF Row, mine

\* The report of a week in which nobody failed or came twice gives it back.
LEMMA ToldPatches == IInv /\ History => PatchGivesWeek
  <1> SUFFICES ASSUME IInv, History, call = Idle,
                      \A i \in DOMAIN log : log[i].ok,
                      \A i, j \in DOMAIN log : log[i].subject = log[j].subject => i = j,
                      NEW i \in DOMAIN log
               PROVE  Patched(log[i].subject) = Week(i)
    BY DEF PatchGivesWeek
  <1> DEFINE s == log[i].subject
             row == log[i].row
             mine == {c.change : c \in {d \in report.changes : d.change.subject = s}}
             Of(j) == WeekChanges(log[j].subject, PriorWeek(j), Week(j))
  <1>1. log \in Seq(LogEntry) /\ DOMAIN log = 1 .. Len(log) /\ Len(log) \in Nat
    BY DEF IInv, Base, TypeOK
  <1>2. log[i] \in LogEntry
    BY <1>1
  <1>3. s \in Subjects /\ row \in Seq(Incoming) /\ Distinct(row)
    BY <1>2, RowsOfCells DEF LogEntry
  <1>4. Week(i) = Members(row)
    BY DEF Week, Members
  <1>5. PriorWeek(i) = seeded[s]
    <2>1. \A j \in 1 .. i - 1 : j \in DOMAIN log /\ j # i
      BY <1>1
    <2> QED
      BY <2>1 DEF PriorWeek
  <1>6. \A j \in DOMAIN log : {c.change : c \in SaidOf(report.changes, j)} = Of(j)
    BY LogTells DEF Tells
  <1>7. \A j \in DOMAIN log : \A m \in Of(j) : m.subject = log[j].subject
    BY DEF WeekChanges, Change
  <1>8. \A c \in report.changes : c.at[1] \in DOMAIN log
    BY DEF History, ToldByLookups
  <1>9. mine = Of(i)
    <2> HIDE DEF Of
    <2>1. ASSUME NEW c \in report.changes, c.change.subject = s PROVE c.change \in Of(i)
      <3>1. c \in SaidOf(report.changes, c.at[1]) /\ c.at[1] \in DOMAIN log
        BY <1>8 DEF SaidOf
      <3>2. c.change \in Of(c.at[1])
        BY <1>6, <3>1
      <3>3. c.at[1] = i
        BY <1>7, <2>1, <3>1, <3>2
      <3> QED
        BY <3>2, <3>3
    <2>2. ASSUME NEW m \in Of(i)
          PROVE  \E c \in report.changes : c.change.subject = s /\ c.change = m
      BY <1>6, <1>7 DEF SaidOf
    <2> QED
      BY <2>1, <2>2
  <1>10. seeded[s] \in SUBSET Cell /\ \A c, d \in seeded[s] : c.target = d.target => c = d
    BY <1>3 DEF IInv, Base, TypeOK, History, SlotsAreSeeded
  <1>11. /\ Members(row) \in SUBSET Incoming
         /\ \A x, y \in Members(row) : x.target = y.target => x = y
    BY <1>3 DEF Members, Distinct
  <1>12. mine = WeekChanges(s, seeded[s], Members(row))
    BY <1>4, <1>5, <1>9
  <1> HIDE DEF mine, Of, row, s
  <1>13. Patched(s) = Members(row)
    <2>1. Patched(s) =
            LET kept == {c \in seeded[s] : \A m \in mine : m.target # c.target}
            IN  {[target |-> c.target, val |-> c.val] : c \in kept}
                \cup {[target |-> m.target, val |-> m.new] :
                         m \in {x \in mine : x.new # Absent}}
      BY DEF Patched, mine
    <2> QED
      BY <1>10, <1>11, <1>12, <2>1, DiffApplies
  <1> QED
    BY <1>4, <1>13 DEF s

-----------------------------------------------------------------------------
(* What becomes of the prior week *)

\* The subjects some completed call has looked up, and those of a later part.
Logged(s) == \E i \in DOMAIN log : log[i].subject = s
AskedIn(ext) ==
    {s \in Subjects : Listed(s) /\ ~Logged(s) /\ \E i \in DOMAIN ext : ext[i].subject = s}

\* The open subjects of the ledger.
OpenNow ==
    {s \in Subjects :
        Listed(s) /\ (s \notin taken
                      \/ s \in InCall \ (FirstLookup(TRUE) \cup FirstLookup(FALSE)))}

\* Among the places of a log where a subject stands there is a first one.
LEMMA FirstPlace ==
    ASSUME NEW T, T \subseteq Nat, T # {}
    PROVE  \E i \in T : \A j \in T : i <= j
  <1> DEFINE less == OpToRel(<, Nat)
  <1>1. PICK i \in T : \A j \in T : <<j, i>> \notin less
    BY NatLessThanWellFounded, WFMin
  <1>2. \A j \in T : ~(j < i)
    BY <1>1 DEF OpToRel
  <1>3. \A j \in T : i <= j
    BY <1>2
  <1> QED
    BY <1>3

\* A listed subject that was looked up has had its first lookup return or throw.
LEMMA LoggedIsClosed ==
    ASSUME TypeOK, NEW s \in Subjects, Listed(s), Logged(s)
    PROVE  s \in FirstLookup(TRUE) \cup FirstLookup(FALSE)
  <1> DEFINE T == {i \in DOMAIN log : log[i].subject = s}
  <1>1. log \in Seq(LogEntry) /\ DOMAIN log = 1 .. Len(log) /\ Len(log) \in Nat
    BY DEF TypeOK
  <1>2. T \subseteq Nat /\ T # {}
    BY <1>1 DEF Logged
  <1> HIDE DEF T
  <1>3. PICK i \in T : \A j \in T : i <= j
    BY <1>2, FirstPlace
  <1>4. i \in DOMAIN log /\ log[i].subject = s /\ i \in Nat
    BY <1>1 DEF T
  <1>5. \A j \in 1 .. i - 1 : log[j].subject # s
    <2> SUFFICES ASSUME NEW j \in 1 .. i - 1, log[j].subject = s PROVE FALSE
      OBVIOUS
    <2>1. j \in DOMAIN log /\ ~(i <= j)
      BY <1>1, <1>4
    <2> QED
      BY <1>3, <2>1 DEF T
  <1>6. log[i] \in LogEntry
    BY <1>1, <1>4
  <1>7. log[i].ok \in BOOLEAN
    BY <1>6 DEF LogEntry
  <1>8. log[i].ok = TRUE \/ log[i].ok = FALSE
    BY <1>7
  <1> QED
    BY <1>4, <1>5, <1>8 DEF FirstLookup

\* A subject of the prior week is open until a completed call has asked for it.
LEMMA OpenIsUnasked ==
    IInv /\ History => OpenNow = {s \in Subjects : Listed(s) /\ ~Logged(s)}
  <1> SUFFICES ASSUME IInv, History, NEW s \in Subjects, Listed(s)
               PROVE  Logged(s) <=> ~(\/ s \notin taken
                                      \/ s \in InCall \ (FirstLookup(TRUE) \cup FirstLookup(FALSE)))
    BY DEF OpenNow
  <1>0. TypeOK
    BY DEF IInv, Base
  <1>1. /\ DOMAIN Lookups = 1 .. Len(log) + Len(call.entries)
        /\ Len(log) \in Nat /\ Len(call.entries) \in Nat
        /\ DOMAIN log = 1 .. Len(log) /\ DOMAIN call.entries = 1 .. Len(call.entries)
        /\ \A i \in 1 .. Len(log) : Lookups[i] = log[i]
        /\ \A i \in 1 .. Len(call.entries) : Lookups[Len(log) + i] = call.entries[i]
    BY <1>0, LookupsType
  <1>2. s \in taken <=> \E i \in DOMAIN Lookups : Lookups[i].subject = s
    BY DEF History, SlotsAreSeeded
  <1>3. CASE Logged(s)
    <2>1. s \in FirstLookup(TRUE) \cup FirstLookup(FALSE)
      BY <1>0, <1>3, LoggedIsClosed
    <2>2. s \in taken
      <3>1. PICK i \in 1 .. Len(log) : log[i].subject = s
        BY <1>1, <1>3 DEF Logged
      <3>2. i \in DOMAIN Lookups /\ Lookups[i].subject = s
        BY <1>1, <3>1
      <3> QED
        BY <1>2, <3>2
    <2> QED
      BY <1>3, <2>1, <2>2
  <1>4. CASE ~Logged(s)
    <2>1. s \notin FirstLookup(TRUE) \cup FirstLookup(FALSE)
      BY <1>4 DEF FirstLookup, Logged
    <2>2. s \in taken => s \in InCall
      <3> SUFFICES ASSUME NEW i \in DOMAIN Lookups, Lookups[i].subject = s
                   PROVE  s \in InCall
        BY <1>2
      <3>1. ~(i \in 1 .. Len(log))
        BY <1>1, <1>4 DEF Logged
      <3>2. i - Len(log) \in 1 .. Len(call.entries) /\ i = Len(log) + (i - Len(log))
        BY <1>1, <3>1
      <3>3. call.entries[i - Len(log)].subject = s
        BY <1>1, <3>2
      <3> QED
        BY <1>1, <3>2, <3>3 DEF InCall
    <2> QED
      BY <1>4, <2>1, <2>2
  <1> QED
    BY <1>3, <1>4

\* A call that completes closes the open subjects it asked for, all in one way.
LEMMA CallCloses ==
    ASSUME TypeOK, order' = order, NEW ext \in Seq(LogEntry), log' = log \o ext,
           NEW ok \in BOOLEAN, \A i \in DOMAIN ext : ext[i].ok = ok
    PROVE  /\ FirstLookup(ok)' = FirstLookup(ok) \cup AskedIn(ext)
           /\ \A v \in BOOLEAN : v # ok => FirstLookup(v)' = FirstLookup(v)
           /\ \A s \in Subjects : Listed(s) =>
                 (Logged(s)' <=> Logged(s) \/ s \in AskedIn(ext))
  <1> DEFINE n == Len(log)
  <1>1. /\ DOMAIN log' = 1 .. n + Len(ext) /\ n \in Nat /\ Len(ext) \in Nat
        /\ DOMAIN log = 1 .. n /\ DOMAIN ext = 1 .. Len(ext)
        /\ \A i \in 1 .. n : log'[i] = log[i]
        /\ \A i \in 1 .. Len(ext) : log'[n + i] = ext[i]
    <2>1. log \in Seq(LogEntry)
      BY DEF TypeOK
    <2> QED
      BY <2>1, LogGoesOn
  <1>2. \A s : Listed(s)' <=> Listed(s)
    BY DEF Listed
  <1> HIDE DEF n
  <1>3. /\ \A i \in 1 .. n : i \in 1 .. n + Len(ext)
        /\ \A i \in 1 .. Len(ext) : n + i \in 1 .. n + Len(ext)
    BY <1>1
  <1>4. ASSUME NEW i \in 1 .. n + Len(ext), i \notin 1 .. n
        PROVE  /\ i - n \in 1 .. Len(ext) /\ log'[i] = ext[i - n]
               /\ \A j \in 1 .. n : j \in 1 .. i - 1
    <2>1. i - n \in 1 .. Len(ext) /\ i = n + (i - n) /\ \A j \in 1 .. n : j \in 1 .. i - 1
      BY <1>1, <1>4
    <2> QED
      BY <1>1, <2>1
  <1> DEFINE First(s, i, v) ==
        /\ i \in DOMAIN log /\ log[i].subject = s /\ log[i].ok = v
        /\ \A j \in 1 .. i - 1 : log[j].subject # s
             First2(s, i, v) ==
        /\ i \in DOMAIN log' /\ log'[i].subject = s /\ log'[i].ok = v
        /\ \A j \in 1 .. i - 1 : log'[j].subject # s
  <1>5. \A s, v : /\ s \in FirstLookup(v) <=> s \in Subjects /\ Listed(s) /\ \E i : First(s, i, v)
    BY DEF FirstLookup
  <1>6. \A s, v : s \in FirstLookup(v)' <=> s \in Subjects /\ Listed(s) /\ \E i : First2(s, i, v)
    BY <1>2 DEF FirstLookup
  <1>7. ASSUME NEW s, NEW i, NEW v, First(s, i, v) PROVE First2(s, i, v)
    <2>1. i \in 1 .. n /\ \A j \in 1 .. i - 1 : j \in 1 .. n
      BY <1>1, <1>7
    <2> QED
      BY <1>1, <1>3, <1>7, <2>1
  <1>8. ASSUME NEW s \in Subjects, Listed(s), NEW i, NEW v, First2(s, i, v)
        PROVE  First(s, i, v) \/ (v = ok /\ s \in AskedIn(ext))
    <2>1. CASE i \in 1 .. n
      <3>1. \A j \in 1 .. i - 1 : j \in 1 .. n
        BY <1>1, <2>1
      <3> QED
        BY <1>1, <1>8, <2>1, <3>1
    <2>2. CASE i \notin 1 .. n
      <3>1. /\ i - n \in DOMAIN ext /\ log'[i] = ext[i - n]
            /\ \A j \in 1 .. n : j \in 1 .. i - 1
        BY <1>1, <1>4, <1>8, <2>2
      <3>2. ~Logged(s)
        BY <1>1, <1>8, <3>1 DEF Logged
      <3> QED
        BY <1>8, <3>1, <3>2 DEF AskedIn
    <2> QED
      BY <2>1, <2>2
  <1>9. ASSUME NEW s \in AskedIn(ext) PROVE \E i : First2(s, i, ok)
    <2> DEFINE T == {i \in DOMAIN ext : ext[i].subject = s}
    <2>1. T \subseteq Nat /\ T # {} /\ ~Logged(s)
      BY <1>1 DEF AskedIn
    <2>2. PICK i \in T : \A j \in T : i <= j
      <3> HIDE DEF T
      <3> QED
        BY <2>1, FirstPlace
    <2>3. /\ i \in 1 .. Len(ext) /\ log'[n + i] = ext[i]
          /\ ext[i].subject = s /\ ext[i].ok = ok
      BY <1>1, <2>2
    <2>4. ASSUME NEW j \in 1 .. n + i - 1 PROVE log'[j].subject # s
      <3>1. CASE j \in 1 .. n
        BY <1>1, <2>1, <3>1 DEF Logged
      <3>2. CASE j \notin 1 .. n
        <4>1. j \in 1 .. n + Len(ext) /\ ~(i <= j - n)
          BY <1>1, <2>3, <3>2
        <4>2. j - n \in DOMAIN ext /\ log'[j] = ext[j - n]
          BY <1>1, <1>4, <3>2, <4>1
        <4> QED
          BY <2>2, <4>1, <4>2
      <3> QED
        BY <3>1, <3>2
    <2>5. First2(s, n + i, ok)
      BY <1>1, <1>3, <2>3, <2>4, SMTT(30)
    <2> QED
      BY <2>5
  <1>10. ASSUME NEW s \in Subjects, Listed(s)
         PROVE  Logged(s)' <=> Logged(s) \/ s \in AskedIn(ext)
    <2>1. Logged(s) => Logged(s)'
      BY <1>1, <1>3 DEF Logged
    <2>2. ASSUME s \in AskedIn(ext) PROVE Logged(s)'
      <3>1. PICK i \in 1 .. Len(ext) : ext[i].subject = s
        BY <1>1, <2>2 DEF AskedIn
      <3>2. n + i \in DOMAIN log' /\ log'[n + i].subject = s
        BY <1>1, <1>3, <3>1
      <3> QED
        BY <3>2 DEF Logged
    <2>3. ASSUME NEW i \in DOMAIN log', log'[i].subject = s
          PROVE  Logged(s) \/ \E j \in DOMAIN ext : ext[j].subject = s
      <3>1. CASE i \in 1 .. n
        BY <1>1, <2>3, <3>1 DEF Logged
      <3>2. CASE i \notin 1 .. n
        BY <1>1, <1>4, <2>3, <3>2
      <3> QED
        BY <3>1, <3>2
    <2> QED
      BY <1>10, <2>1, <2>2, <2>3 DEF Logged, AskedIn
  <1>11. \A s \in AskedIn(ext) : s \in Subjects /\ Listed(s)
    BY DEF AskedIn
  <1> HIDE DEF First, First2
  <1>12. FirstLookup(ok)' = FirstLookup(ok) \cup AskedIn(ext)
    BY <1>5, <1>6, <1>7, <1>8, <1>9, <1>11
  <1>13. ASSUME NEW v \in BOOLEAN, v # ok PROVE FirstLookup(v)' = FirstLookup(v)
    <2>1. ASSUME NEW s \in Subjects, Listed(s), NEW i, First2(s, i, v)
          PROVE  First(s, i, v)
      BY <1>8, <1>13, <2>1
    <2>2. \A s : s \in FirstLookup(v)' <=> s \in FirstLookup(v)
      BY <1>5, <1>6, <1>7, <2>1
    <2> QED
      BY <2>2
  <1> QED
    BY <1>10, <1>12, <1>13

\* What the ledger is made of.
Ledgered == <<OpenNow, FirstLookup(TRUE), FirstLookup(FALSE)>>

\* A seeded subject enters the ledger, unless it is there already.
LEMMA SeedEnters ==
    ASSUME TypeOK, Protocol, History, NEW s \in Subjects, HostMaySetUp,
           order' = Slotted(s), log' = log,
           OpenNow = {u \in Subjects : Listed(u) /\ ~Logged(u)},
           OpenNow' = {u \in Subjects : Listed(u)' /\ ~Logged(u)'}
    PROVE  [Ledger!Next]_Ledgered
  <1>1. log = <<>> /\ log' = <<>>
    BY DEF HostMaySetUp, History, Quiet
  <1>2. /\ FirstLookup(TRUE) = {} /\ FirstLookup(TRUE)' = {}
        /\ FirstLookup(FALSE) = {} /\ FirstLookup(FALSE)' = {}
    BY <1>1 DEF FirstLookup
  <1>3. \A u : ~Logged(u) /\ ~Logged(u)'
    BY <1>1 DEF Logged
  <1>4. OpenNow = {u \in Subjects : Listed(u)} /\ OpenNow' = {u \in Subjects : Listed(u)'}
    BY <1>3
  <1>5. \A u : Listed(u)' <=> u = s \/ Listed(u)
    <2>1. order \in Seq(Subjects)
      BY DEF TypeOK
    <2> QED
      BY <2>1, SlottedType
  <1>6. CASE Listed(s)
    <2>1. OpenNow' = OpenNow
      BY <1>4, <1>5, <1>6
    <2> QED
      BY <1>2, <2>1 DEF Ledgered
  <1>7. CASE ~Listed(s)
    <2>1. OpenNow' = OpenNow \cup {s} /\ s \notin OpenNow
      BY <1>4, <1>5, <1>7
    <2>2. Ledger!Enter(s)
      BY <1>2, <2>1 DEF Ledger!Enter, OpenNow
    <2> QED
      BY <2>2 DEF Ledger!Next
  <1> QED
    BY <1>6, <1>7

\* A call that completes settles the open subjects it asked for, or forfeits
\* them all when it threw.
LEMMA CallSettles ==
    ASSUME TypeOK, order' = order, NEW ext \in Seq(LogEntry), log' = log \o ext,
           NEW ok \in BOOLEAN, \A i \in DOMAIN ext : ext[i].ok = ok,
           OpenNow = {u \in Subjects : Listed(u) /\ ~Logged(u)},
           OpenNow' = {u \in Subjects : Listed(u)' /\ ~Logged(u)'}
    PROVE  [Ledger!Next]_Ledgered
  <1>0. PICK S : S = AskedIn(ext)
    OBVIOUS
  <1>1. /\ FirstLookup(ok)' = FirstLookup(ok) \cup S
        /\ \A v \in BOOLEAN : v # ok => FirstLookup(v)' = FirstLookup(v)
        /\ \A s \in Subjects : Listed(s) => (Logged(s)' <=> Logged(s) \/ s \in S)
    BY <1>0, CallCloses
  <1>2. \A s : Listed(s)' <=> Listed(s)
    BY DEF Listed
  <1>3. S \in SUBSET Subjects /\ S \subseteq OpenNow
    BY <1>0 DEF AskedIn
  <1>4. OpenNow' = OpenNow \ S
    BY <1>1, <1>2
  <1>5. CASE ok = TRUE
    <2>1. /\ FirstLookup(TRUE)' = FirstLookup(TRUE) \cup S
          /\ FirstLookup(FALSE)' = FirstLookup(FALSE)
      BY <1>1, <1>5
    <2>2. CASE S = {}
      BY <1>4, <2>1, <2>2 DEF Ledgered
    <2>3. CASE S # {}
      <3>1. Ledger!Settle(S)
        BY <1>3, <1>4, <2>1, <2>3 DEF Ledger!Settle, OpenNow
      <3> QED
        BY <1>3, <3>1 DEF Ledger!Next
    <2> QED
      BY <2>2, <2>3
  <1>6. CASE ok = FALSE
    <2>1. /\ FirstLookup(FALSE)' = FirstLookup(FALSE) \cup S
          /\ FirstLookup(TRUE)' = FirstLookup(TRUE)
      BY <1>1, <1>6
    <2>2. CASE S = {}
      BY <1>4, <2>1, <2>2 DEF Ledgered
    <2>3. CASE S # {}
      <3>1. Ledger!Forfeit(S)
        BY <1>3, <1>4, <2>1, <2>3 DEF Ledger!Forfeit, OpenNow
      <3> QED
        BY <1>3, <3>1 DEF Ledger!Next
    <2> QED
      BY <2>2, <2>3
  <1>7. ok = TRUE \/ ok = FALSE
    OBVIOUS
  <1> QED
    BY <1>5, <1>6, <1>7

\* A step that neither seeds nor completes a call leaves the ledger alone.
LEMMA LedgerRests ==
    ASSUME order' = order, log' = log,
           OpenNow = {u \in Subjects : Listed(u) /\ ~Logged(u)},
           OpenNow' = {u \in Subjects : Listed(u)' /\ ~Logged(u)'}
    PROVE  UNCHANGED Ledgered
  <1>1. \A s : (Listed(s)' <=> Listed(s)) /\ (Logged(s)' <=> Logged(s))
    BY DEF Listed, Logged
  <1>2. OpenNow' = OpenNow
    BY <1>1
  <1>3. FirstLookup(TRUE)' = FirstLookup(TRUE) /\ FirstLookup(FALSE)' = FirstLookup(FALSE)
    BY DEF FirstLookup, Listed
  <1> QED
    BY <1>2, <1>3 DEF Ledgered

\* What one lookup does to the ledger: nothing until its call completes, and when
\* it throws its call forfeits what it asked for.
LEMMA LookupSettles ==
    ASSUME TypeOK, NEW s \in Subjects, NEW row \in Rows \cup {<<>>}, LooksUp(s, row),
           OpenNow = {u \in Subjects : Listed(u) /\ ~Logged(u)},
           OpenNow' = {u \in Subjects : Listed(u)' /\ ~Logged(u)'}
    PROVE  [Ledger!Next]_Ledgered
  <1>1. order' = order
    BY DEF LooksUp, Take
  <1>2. CASE Throws(LookupOutcome(s, row))
    <2> DEFINE entries == Append(call.entries, Entry(s, row))
    <2>1. log' = log \o Failed(entries)
      BY <1>2 DEF LooksUp, Thrown
    <2>2. entries \in Seq(LogEntry)
      <3>1. Entry(s, row) \in LogEntry /\ call.entries \in Seq(LogEntry)
        BY DEF Entry, LogEntry, TypeOK
      <3> QED
        BY <3>1, AppendProperties
    <2> HIDE DEF entries
    <2>3. Failed(entries) \in Seq(LogEntry)
      BY <2>2, FailedType
    <2>4. \A i \in DOMAIN Failed(entries) : Failed(entries)[i].ok = FALSE
      BY DEF Failed
    <2> QED
      BY <1>1, <2>1, <2>3, <2>4, CallSettles
  <1>3. CASE ~Throws(LookupOutcome(s, row))
    <2>1. log' = log
      BY <1>3 DEF LooksUp, Kept
    <2> QED
      BY <1>1, <2>1, LedgerRests
  <1> QED
    BY <1>2, <1>3

\* Every step of the session is a step of the ledger, or leaves it alone.
LEMMA LedgerStep ==
    ASSUME Protocol
    PROVE  IInv /\ History /\ [Next]_vars
           /\ OpenNow = {u \in Subjects : Listed(u) /\ ~Logged(u)}
           /\ OpenNow' = {u \in Subjects : Listed(u)' /\ ~Logged(u)'}
           => [Ledger!Next]_Ledgered
  <1> SUFFICES ASSUME IInv, History, [Next]_vars,
                      OpenNow = {u \in Subjects : Listed(u) /\ ~Logged(u)},
                      OpenNow' = {u \in Subjects : Listed(u)' /\ ~Logged(u)'}
               PROVE  [Ledger!Next]_Ledgered
    OBVIOUS
  <1>0. TypeOK
    BY DEF IInv, Base
  <1>1. ASSUME NEW s \in Subjects, SeedEmpty(s) \/ \E c \in Cell : Seed(s, c)
        PROVE  [Ledger!Next]_Ledgered
    <2>1. HostMaySetUp /\ order' = Slotted(s) /\ log' = log
      BY <1>1 DEF SeedEmpty, Seed, history
    <2> QED
      BY <1>0, <2>1, SeedEnters
  <1>2. ASSUME NEW s \in Subjects, NEW row \in Rows, DiffRow(s, row)
        PROVE  [Ledger!Next]_Ledgered
    BY <1>0, <1>2, RowLooksUp, LookupSettles
  <1>3. CASE VanishTake
    BY <1>0, <1>3, VanishLooksUp, LookupSettles
  <1>4. CASE Return
    <2>1. order' = order /\ log' = log \o call.entries
      BY <1>4 DEF Return, slots
    <2>2. \A i \in DOMAIN call.entries : call.entries[i].ok = TRUE
      <3> SUFFICES ASSUME NEW i \in DOMAIN call.entries PROVE call.entries[i].ok = TRUE
        OBVIOUS
      <3>1. call.entries[i] \in LogEntry
        BY <1>0 DEF TypeOK
      <3>2. call.entries[i].ok \in BOOLEAN
        BY <3>1 DEF LogEntry
      <3>3. call.entries[i].ok
        BY DEF History, ToldByLookups
      <3> QED
        BY <3>2, <3>3
    <2>3. call.entries \in Seq(LogEntry)
      BY <1>0 DEF TypeOK
    <2> QED
      BY <1>0, <2>1, <2>2, <2>3, CallSettles
  <1>5. ASSUME \/ \E p \in Pins : SetPinned(p[1], p[2])
               \/ Seal \/ VanishCall \/ VanishSkip \/ UNCHANGED vars
        PROVE  [Ledger!Next]_Ledgered
    <2>1. order' = order /\ log' = log
      BY <1>5 DEF SetPinned, Seal, VanishCall, VanishSkip, vars, slots, history
    <2> QED
      BY <2>1, LedgerRests
  <1> QED
    BY <1>1, <1>2, <1>3, <1>4, <1>5 DEF Next, DiffReturn, VanishReturn

-----------------------------------------------------------------------------
(* The theorems *)

\* The inductive invariant holds of every behaviour of the session.
THEOREM Invariance == Spec => []IInv
  <1>1. Init => IInv
    BY InitIInv
  <1>2. IInv /\ [Next]_vars => IInv'
    BY NextIInv
  <1> QED
    BY <1>1, <1>2, PTL DEF Spec

\* Every value the session keeps, counts or reports is of its type: no lookup
\* through the stamp arrays reads a cell the slot does not have.
THEOREM TypeCorrect == Spec => []TypeOK
  <1>1. IInv => TypeOK
    BY DEF IInv, Base
  <1> QED
    BY <1>1, Invariance, PTL

\* resident_cell_count counts the resident cells exactly, in any order of calls.
THEOREM ResidentIsExact == Spec => []ResidentExact
  <1>1. IInv => ResidentExact
    BY DEF IInv
  <1> QED
    BY <1>1, Invariance, PTL

\* The scratch arrays need no clearing pass, even after an error.
THEOREM StampsNeverAhead == Spec => []StampsAreOld
  <1>1. IInv => StampsAreOld
    BY DEF IInv, Base
  <1> QED
    BY <1>1, Invariance, PTL

\* Under the host protocol a consumed slot stays empty.
THEOREM TakenStayEmpty == ASSUME Protocol PROVE Spec => []TakenHoldNothing
  <1>1. IInv => TakenHoldNothing
    BY DEF IInv, SealedFirst
  <1> QED
    BY <1>1, Invariance, PTL

\* Under the host protocol the resident count never grows once sealed.
THEOREM ResidentFalls == ASSUME Protocol PROVE Spec => ResidentOnlyFalls
  <1>1. IInv /\ [Next]_vars => [sealed => resident' <= resident]_vars
    <2> SUFFICES ASSUME IInv, Next, sealed PROVE resident' <= resident
      OBVIOUS
    <2>0. resident \in Nat
      BY DEF IInv, Base, TypeOK
    <2>1. ~HostMaySetUp
      BY DEF HostMaySetUp
    <2>2. ASSUME NEW s \in Subjects, NEW row \in Rows, DiffRow(s, row)
          PROVE  resident' <= resident
      BY <2>2, TakeSlots DEF DiffRow
    <2>3. CASE VanishTake
      <3>1. order[call.next] \in Subjects
        BY <2>3 DEF VanishTake, IInv, VanishScan, Base, TypeOK
      <3> QED
        BY <2>3, <3>1, TakeSlots DEF VanishTake
    <2>4. CASE DiffReturn \/ VanishCall \/ VanishSkip \/ VanishReturn
      BY <2>0, <2>4 DEF DiffReturn, VanishCall, VanishSkip, VanishReturn, Return, slots
    <2> QED
      BY <2>1, <2>2, <2>3, <2>4 DEF Next, SetPinned, SeedEmpty, Seed, Seal
  <1> QED
    BY <1>1, Invariance, PTL DEF Spec, ResidentOnlyFalls

\* Under the host protocol a diff_vanished that returns has drained the session.
THEOREM VanishDrains == ASSUME Protocol PROVE Spec => DrainEmpties
  <1>1. IInv /\ [Next]_vars => [VanishReturn => resident = 0]_vars
    <2> SUFFICES ASSUME IInv, VanishReturn PROVE resident = 0
      OBVIOUS
    <2>1. \A s \in Subjects : Listed(s) => s \in taken
      BY DEF VanishReturn, IInv, VanishScan, Base, TypeOK, Listed
    <2>2. \A s \in Subjects : cells[s] = <<>>
      BY <2>1 DEF IInv, CellsListed, SealedFirst, TakenHoldNothing
    <2>3. Places = {}
      BY <2>2 DEF Places
    <2> QED
      BY <2>3, FS_EmptySet DEF IInv, ResidentExact
  <1> QED
    BY <1>1, Invariance, PTL DEF Spec, DrainEmpties

\* Under the host protocol every lookup so far has told its truth, once, and what
\* a failed call told is gone.
THEOREM HistoryHolds == ASSUME Protocol PROVE Spec => []History
  <1>1. Init => History
    BY InitHistory
  <1>2. IInv /\ History /\ [Next]_vars => History'
    BY NextHistory
  <1> QED
    BY <1>1, <1>2, Invariance, PTL DEF Spec

\* Under the host protocol the report is the declarative diff of the rows of the
\* calls that returned: however the week is cut into batches, whichever of them
\* throw, and however often a subject comes.
THEOREM ReportExact == ASSUME Protocol PROVE Spec => []ReportIsExact
  BY ToldIsExact, Invariance, HistoryHolds, PTL

\* Under the host protocol the reported changes turn the prior week into the
\* incoming one, when no call failed and no subject came twice.
THEOREM PatchExact == ASSUME Protocol PROVE Spec => []PatchGivesWeek
  BY ToldPatches, Invariance, HistoryHolds, PTL

\* Under the host protocol the session implements the ledger of the week: each
\* seeded subject is settled or forfeited at most once, call by call.
THEOREM ImplementsLedger == ASSUME Protocol PROVE Spec => LedgerSpec
  <1>1. Init => Ledger!Init
    BY DEF Init, Ledger!Init, FirstLookup, Listed
  <1>2. IInv /\ History => OpenNow = {u \in Subjects : Listed(u) /\ ~Logged(u)}
    BY OpenIsUnasked
  <1>3. /\ IInv /\ History /\ [Next]_vars
        /\ OpenNow = {u \in Subjects : Listed(u) /\ ~Logged(u)}
        /\ OpenNow' = {u \in Subjects : Listed(u)' /\ ~Logged(u)'}
        => [Ledger!Next]_Ledgered
    BY LedgerStep
  <1>4. (OpenNow = {u \in Subjects : Listed(u) /\ ~Logged(u)})'
           => OpenNow' = {u \in Subjects : Listed(u)' /\ ~Logged(u)'}
    OBVIOUS
  <1>5. Spec => [][Ledger!Next]_Ledgered
    BY <1>2, <1>3, <1>4, Invariance, HistoryHolds, PTL DEF Spec
  <1> QED
    BY <1>1, <1>5, PTL DEF Spec, LedgerSpec, Ledger!Spec, Ledgered, OpenNow

=============================================================================
