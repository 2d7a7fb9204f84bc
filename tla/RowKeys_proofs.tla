--------------------------- MODULE RowKeys_proofs ---------------------------
(***************************************************************************)
(* A keyed adjustment never lands on a neighbour, for every file and every *)
(* way of correcting it, as long as the file has at most one column whose  *)
(* header is accepted as an employee number. With two it does not hold.    *)
(* With any number of them, it is lost only for a reason, and what either  *)
(* call answers of the file and the ledger a client holds pays each        *)
(* employee the same and loses no entry.                                   *)
(***************************************************************************)
EXTENDS RowKeys, Sums, FiniteSetTheorems, TLAPS

\* What a key says of the row it was made for: the number of a column that did
\* not count rows, or the cells of every column that did not.
Minted(e) ==
    \/ e.key = NoKey
    \/ /\ e.column \in DOMAIN KeyColumns
       /\ e.key = ByNumber(e.was.cells[KeyColumns[e.column]])
       /\ e.was.cells[KeyColumns[e.column]] # NoCell
    \/ /\ e.column = 0
       /\ e.key = ByContent([c \in Columns \ e.counters |-> e.was.cells[c]])

\* The ledger is a sequence, whatever its entries are.
LedgerIsSequence == ledger \in Seq({ledger[k] : k \in DOMAIN ledger})

\* What a project may begin with, and be corrected to, is a file.
FilesStayFiles ==
    /\ Starts \subseteq Files
    /\ \A f \in Files : Corrections(f) \subseteq Files

\* The inductive invariant: nothing is known of the file but what the keys say.
KeysAreMinted ==
    /\ file \in Files
    /\ LedgerIsSequence
    /\ \A k \in DOMAIN ledger : Minted(ledger[k])

-----------------------------------------------------------------------------

\* The number column, if there is one, is an accepted one that qualifies.
LEMMA ChosenColumn ==
    ASSUME NEW f
    PROVE  KeyColumn(f) # 0 => /\ KeyColumn(f) \in DOMAIN KeyColumns
                               /\ Qualifies(f, KeyColumns[KeyColumn(f)])
<1>1. Qualifying(f) \in SUBSET Nat
  BY ConstantsTyped DEF Qualifying
<1>2. CASE Qualifying(f) = {}
  BY <1>2 DEF KeyColumn
<1>3. CASE Qualifying(f) # {}
  <2>1. \E k \in Qualifying(f) : \A l \in Qualifying(f) : k <= l
    BY <1>1, <1>3, LeastNumber
  <2>2. KeyColumn(f) \in Qualifying(f)
    BY <1>3, <2>1 DEF KeyColumn
  <2> QED  BY <2>2 DEF Qualifying
<1> QED  BY <1>2, <1>3

\* The key of a row, by either rule, says what Minted asks.
LEMMA KeysSayTheRow ==
    ASSUME NEW f, NEW i \in DOMAIN f
    PROVE  \/ KeyTable(f)[i] = NoKey
           \/ /\ KeyColumn(f) \in DOMAIN KeyColumns
              /\ KeyTable(f)[i] = ByNumber(f[i].cells[KeyColumns[KeyColumn(f)]])
              /\ f[i].cells[KeyColumns[KeyColumn(f)]] # NoCell
           \/ /\ KeyColumn(f) = 0
              /\ KeyTable(f)[i] = ByContent(Digests(f)[i])
              /\ \A j \in DOMAIN f : Digests(f)[j] = Digests(f)[i] => j = i
<1>1. CASE KeyColumn(f) = 0
  <2>1. KeyTable(f)[i] =
            IF \E j \in DOMAIN f : j # i /\ Digests(f)[j] = Digests(f)[i] THEN NoKey
            ELSE ByContent(Digests(f)[i])
    BY <1>1 DEF KeyTable, ContentKeys
  <2> QED  BY <1>1, <2>1
<1>2. CASE KeyColumn(f) # 0
  <2>1. KeyTable(f)[i] = ByNumber(f[i].cells[KeyColumns[KeyColumn(f)]])
    BY <1>2 DEF KeyTable
  <2>2. /\ KeyColumn(f) \in DOMAIN KeyColumns
        /\ Qualifies(f, KeyColumns[KeyColumn(f)])
    BY <1>2, ChosenColumn
  <2>3. f[i].cells[KeyColumns[KeyColumn(f)]] # NoCell
    BY <2>2 DEF Qualifies
  <2> QED  BY <2>1, <2>2, <2>3
<1> QED  BY <1>1, <1>2

\* A key is kept with the cells of the row it was made for, whatever becomes
\* of the file: only Save adds an entry, with the key the file gives its row.
THEOREM KeysMinted ==
    ASSUME FilesStayFiles
    PROVE  Spec => []KeysAreMinted
<1>1. Init => KeysAreMinted
  BY FilesStayFiles DEF Init, KeysAreMinted, LedgerIsSequence, FilesStayFiles
<1>2. ASSUME KeysAreMinted, [Next]_vars
      PROVE  KeysAreMinted'
  <2>1. CASE file' \in Files /\ UNCHANGED ledger
    BY <1>2, <2>1 DEF KeysAreMinted, LedgerIsSequence, Minted
  <2>2. ASSUME NEW i \in DOMAIN file, NEW keyed \in BOOLEAN,
               NEW override \in Overrides, Save(i, keyed, override)
        PROVE  KeysAreMinted'
    <3> DEFINE e == [index |-> i,
                     key |-> IF keyed THEN KeyTable(file)[i] ELSE NoKey,
                     amount |-> Len(ledger) + 1, override |-> override,
                     was |-> file[i], column |-> KeyColumn(file),
                     counters |-> Counters(file)]
               old == {ledger[k] : k \in DOMAIN ledger}
    <3>1. ledger' = Append(ledger, e)
      BY <2>2 DEF Save
    <3>2. ledger \in Seq(old)
      BY <1>2 DEF KeysAreMinted, LedgerIsSequence
    <3>3. /\ Len(ledger) \in Nat
          /\ DOMAIN ledger = 1..Len(ledger)
      BY <3>2
    <3>4. /\ DOMAIN ledger' = 1..(Len(ledger) + 1)
          /\ \A k \in 1..Len(ledger) : ledger'[k] = ledger[k]
          /\ ledger'[Len(ledger) + 1] = e
      BY <3>1, <3>2 DEF old
    <3>5. Minted(e)
      <4>1. \/ e.key = NoKey
            \/ keyed /\ e.key = KeyTable(file)[i]
        OBVIOUS
      <4>2. /\ e.was = file[i] /\ e.column = KeyColumn(file)
            /\ e.counters = Counters(file)
        OBVIOUS
      <4>3. Digests(file)[i] = [c \in Columns \ e.counters |-> e.was.cells[c]]
        BY <4>2 DEF Digests
      <4> HIDE DEF e
      <4> QED  BY <4>1, <4>2, <4>3, KeysSayTheRow DEF Minted
    <3>6. ledger' \in Seq(old \cup {e})
      BY <3>1, <3>2
    <3> HIDE DEF e
    <3>7. old \cup {e} = {ledger'[k] : k \in DOMAIN ledger'}
      BY <3>3, <3>4 DEF old
    <3>8. LedgerIsSequence'
      BY <3>6, <3>7 DEF LedgerIsSequence
    <3>9. ASSUME NEW k \in DOMAIN ledger'
          PROVE  Minted(ledger'[k])
      <4>1. CASE k = Len(ledger) + 1
        BY <3>4, <3>5, <4>1
      <4>2. CASE k \in 1..Len(ledger)
        BY <1>2, <3>3, <3>4, <4>2 DEF KeysAreMinted
      <4> QED  BY <3>3, <3>4, <3>9, <4>1, <4>2
    <3>10. file' \in Files
      BY <1>2, <2>2 DEF KeysAreMinted, Save
    <3> QED  BY <3>8, <3>9, <3>10 DEF KeysAreMinted, Minted
  <2>3. ASSUME NEW f \in Corrections(file), Correct(f)
        PROVE  KeysAreMinted'
    BY <1>2, <2>1, <2>3, FilesStayFiles DEF Correct, KeysAreMinted, FilesStayFiles
  <2>4. CASE Verify
    BY <1>2, <2>1, <2>4 DEF Verify, KeysAreMinted
  <2>5. CASE Defend
    BY <1>2, <2>1, <2>5 DEF Defend, KeysAreMinted
  <2>6. CASE UNCHANGED vars
    BY <1>2, <2>1, <2>6 DEF vars, KeysAreMinted
  <2> QED  BY <1>2, <2>2, <2>3, <2>4, <2>5, <2>6 DEF Next
<1> QED  BY <1>1, <1>2, PTL DEF Spec

-----------------------------------------------------------------------------

\* In one file, an entry that lands on row r lands there because the key of r
\* is its own: a row that still reads as the entry's employee did is r itself.
LEMMA LandsOnItsOwn ==
    ASSUME NEW e, Minted(e), e.key # NoKey,
           Len(KeyColumns) <= 1 \/ KeyColumn(file) = e.column,
           NEW r \in DOMAIN file, KeyTable(file)[r] = e.key,
           NEW i \in DOMAIN file, Stands(e, i)
    PROVE  i = r
<1>1. \A c \in Columns \ Counters(file) : file[i].cells[c] = e.was.cells[c]
  BY DEF Stands, StillReads
<1>2. CASE KeyColumn(file) # 0
  <2> DEFINE c == KeyColumns[KeyColumn(file)]
  <2>1. /\ KeyColumn(file) \in DOMAIN KeyColumns
        /\ Qualifies(file, c)
    BY <1>2, ChosenColumn
  <2>2. e.key = ByNumber(file[r].cells[c]) /\ file[r].cells[c] # NoCell
    BY <1>2, <2>1 DEF KeyTable, Qualifies
  <2>3. e.column \in DOMAIN KeyColumns
        /\ e.key = ByNumber(e.was.cells[KeyColumns[e.column]])
    BY <2>2 DEF Minted, ByNumber, ByContent
  <2>4. e.column = KeyColumn(file)
    BY <2>1, <2>3, ConstantsTyped
  <2>5. e.was.cells[c] = file[r].cells[c]
    BY <2>1, <2>2, <2>3, <2>4 DEF ByNumber
  <2>6. c \in Columns \ Counters(file)
    BY <2>1, ConstantsTyped DEF Qualifies
  <2>7. file[i].cells[c] = file[r].cells[c]
    BY <1>1, <2>5, <2>6
  <2> QED  BY <2>1, <2>7 DEF Qualifies
<1>3. CASE KeyColumn(file) = 0
  <2>1. /\ e.key = ByContent(Digests(file)[r])
        /\ \A j \in DOMAIN file : Digests(file)[j] = Digests(file)[r] => j = r
    <3>1. KeyColumn(file) \notin DOMAIN KeyColumns
      BY <1>3, ConstantsTyped
    <3> QED  BY <3>1, KeysSayTheRow
  <2>2. e.key = ByContent([c \in Columns \ e.counters |-> e.was.cells[c]])
    BY <2>1 DEF Minted, ByNumber, ByContent
  <2> DEFINE here == Columns \ Counters(file)
             there == Columns \ e.counters
             read == [c \in there |-> e.was.cells[c]]
  <2>3. Digests(file)[r] = read
    BY <2>1, <2>2 DEF ByContent
  <2>4. /\ Digests(file)[r] = [c \in here |-> file[r].cells[c]]
        /\ Digests(file)[i] = [c \in here |-> file[i].cells[c]]
    BY DEF Digests
  <2>5. here = there
    BY <2>3, <2>4
  <2>6. Digests(file)[i] = read
    BY <1>1, <2>4, <2>5
  <2> QED  BY <2>1, <2>3, <2>6
<1> QED  BY <1>2, <1>3

\* Whatever is corrected, a keyed adjustment lands on another's row only when
\* its own employee's no longer reads as it did.
THEOREM NeverNeighbour ==
    ASSUME Len(KeyColumns) <= 1, FilesStayFiles
    PROVE  Spec => []NeverTheNeighbour
<1>1. KeysAreMinted => NeverTheNeighbour
  <2> SUFFICES ASSUME KeysAreMinted, NEW k \in DOMAIN ledger,
                      ledger[k].key # NoKey,
                      Landings[k] # Nowhere,
                      NEW i \in DOMAIN file, Stands(ledger[k], i)
               PROVE  i = Landings[k]
    BY DEF NeverTheNeighbour
  <2> DEFINE key == ledger[k].key
             r == Landings[k]
             rows == Keyed(KeyTable(file), key)
  <2>1. r = Resolve(KeyTable(file), ledger[k])
    BY DEF Landings
  <2>2. PICK j \in rows : TRUE
    BY <2>1 DEF Resolve, Nowhere
  <2>3. DOMAIN KeyTable(file) = DOMAIN file
    BY DEF KeyTable, ContentKeys
  <2>4. j \in DOMAIN file /\ KeyTable(file)[j] = key
    BY <2>2, <2>3 DEF Keyed
  <2>5. i = j
    BY <2>4, LandsOnItsOwn DEF KeysAreMinted
  <2>6. rows = {i}
    <3>1. ASSUME NEW l \in rows PROVE l = i
      <4>1. l \in DOMAIN file /\ KeyTable(file)[l] = key
        BY <2>3, <3>1 DEF Keyed
      <4> QED  BY <4>1, LandsOnItsOwn DEF KeysAreMinted
    <3> QED  BY <2>2, <2>5, <3>1
  <2>7. r = CHOOSE l \in rows : \A m \in rows : l <= m
    BY <2>1, <2>6 DEF Resolve
  <2>8. i \in Nat
    BY DEF KeysAreMinted, Files
  <2> QED  BY <2>6, <2>7, <2>8
<1> QED  BY <1>1, KeysMinted, PTL

-----------------------------------------------------------------------------

\* A row that still reads as it did has its key in the file, unless the file
\* takes its keys from elsewhere now or has another row alike.
LEMMA StandingRowIsKeyed ==
    ASSUME NEW e, Minted(e), e.key # NoKey,
           KeyColumn(file) = e.column, Counters(file) = e.counters,
           KeyColumn(file) # 0 => /\ KeyColumn(file) \in DOMAIN KeyColumns
                                  /\ Qualifies(file, KeyColumns[KeyColumn(file)]),
           NEW i \in DOMAIN file, Stands(e, i)
    PROVE  \/ KeyTable(file)[i] = e.key
           \/ \E j \in DOMAIN file \ {i} : StillReads(e, j)
<1>1. \A c \in Columns \ Counters(file) : file[i].cells[c] = e.was.cells[c]
  BY DEF Stands, StillReads
<1>2. CASE KeyColumn(file) # 0
  <2> DEFINE c == KeyColumns[KeyColumn(file)]
  <2>1. c \in Columns \ Counters(file)
    BY <1>2, ConstantsTyped DEF Qualifies
  <2>2. KeyTable(file)[i] = ByNumber(file[i].cells[c])
    BY <1>2 DEF KeyTable
  <2>3. e.key = ByNumber(e.was.cells[c])
    BY <1>2 DEF Minted
  <2> QED  BY <1>1, <2>1, <2>2, <2>3
<1>3. CASE KeyColumn(file) = 0
  <2>1. 0 \notin DOMAIN KeyColumns
    BY ConstantsTyped
  <2>2. e.key = ByContent([c \in Columns \ e.counters |-> e.was.cells[c]])
    BY <1>3, <2>1 DEF Minted
  <2>3. Digests(file)[i] = [c \in Columns \ e.counters |-> e.was.cells[c]]
    BY <1>1 DEF Digests
  <2>4. KeyTable(file)[i] =
            IF \E j \in DOMAIN file : j # i /\ Digests(file)[j] = Digests(file)[i]
            THEN NoKey ELSE ByContent(Digests(file)[i])
    BY <1>3 DEF KeyTable, ContentKeys
  <2>5. ASSUME NEW j \in DOMAIN file, j # i, Digests(file)[j] = Digests(file)[i]
        PROVE  StillReads(e, j)
    <3>1. Digests(file)[j] = [c \in Columns \ Counters(file) |-> file[j].cells[c]]
      BY DEF Digests
    <3>2. ASSUME NEW c \in Columns \ Counters(file)
          PROVE  file[j].cells[c] = e.was.cells[c]
      BY <2>3, <2>5, <3>1
    <3> QED  BY <3>2 DEF StillReads
  <2> QED  BY <2>2, <2>3, <2>4, <2>5
<1> QED  BY <1>2, <1>3

\* A keyed adjustment is lost only when its row no longer reads as it did, or
\* is no longer told apart, or keys are taken from elsewhere.
THEOREM LostForAReason ==
    ASSUME FilesStayFiles
    PROVE  Spec => []OrphanedForAReason
<1>1. KeysAreMinted => OrphanedForAReason
  <2> SUFFICES ASSUME KeysAreMinted, NEW k \in DOMAIN ledger,
                      ledger[k].key # NoKey, Landings[k] = Nowhere,
                      KeyColumn(file) = ledger[k].column,
                      Counters(file) = ledger[k].counters,
                      NEW i \in DOMAIN file, Stands(ledger[k], i)
               PROVE  \E j \in DOMAIN file \ {i} : StillReads(ledger[k], j)
    BY DEF OrphanedForAReason
  <2> DEFINE key == ledger[k].key
             rows == Keyed(KeyTable(file), key)
  <2>1. Minted(ledger[k])
    BY DEF KeysAreMinted
  <2>2. DOMAIN KeyTable(file) = DOMAIN file
    BY DEF KeyTable, ContentKeys
  <2>3. \A l \in rows : l = i
    BY <2>1, <2>2, LandsOnItsOwn DEF Keyed
  <2>4. i \in Nat \ {0}
    BY DEF KeysAreMinted, Files
  <2>5. rows = {}
    <3>1. SUFFICES ASSUME rows # {} PROVE FALSE
      OBVIOUS
    <3>2. rows = {i}
      BY <2>3, <3>1
    <3>3. Resolve(KeyTable(file), ledger[k]) = i
      BY <2>4, <3>2 DEF Resolve
    <3> QED  BY <2>4, <3>3 DEF Landings, Nowhere
  <2>6. KeyTable(file)[i] # key
    BY <2>2, <2>5 DEF Keyed
  <2> QED  BY <2>1, <2>6, ChosenColumn, StandingRowIsKeyed
<1> QED  BY <1>1, KeysMinted, PTL

-----------------------------------------------------------------------------
(* One schedule *)

\* An answer that a client still holds is that of the file and the ledger as
\* they are: a correction or another adjustment throws it away.
AnswersAreCurrent ==
    /\ verified.state = "done" => verified = Verified
    /\ scored.state = "done" => scored = Scored
    /\ {verified.state, scored.state} \subseteq {"unasked", "error", "done"}
    /\ verified.state # "done" => verified \in {Unasked, Error}
    /\ scored.state # "done" => scored \in {Unasked, Error}
    /\ \A k \in DOMAIN ledger : IsEntry(ledger[k])
    /\ changes \in 0..MaxChanges

\* The key of a row of a file is a key.
LEMMA KeysAreKeys ==
    ASSUME NEW f \in Files, NEW i \in DOMAIN f
    PROVE  IsKey(KeyTable(f)[i])
<1>1. f[i] \in Rows
  BY DEF Files
<1>2. \A c \in Columns : f[i].cells[c] \in Nat \cup {NoCell}
  BY <1>1 DEF Rows
<1>3. IsKey(NoKey)
  BY DEF IsKey, NoKey, NoContent
<1>4. \A n \in Nat \cup {NoCell} : IsKey(ByNumber(n))
  BY DEF IsKey, ByNumber, NoContent
<1>5. IsKey(ByContent(Digests(f)[i]))
  <2>1. Digests(f)[i] = [c \in Columns \ Counters(f) |-> f[i].cells[c]]
    BY DEF Digests
  <2> QED  BY <1>2, <2>1 DEF IsKey, ByContent
<1>6. \A k \in DOMAIN KeyColumns : KeyColumns[k] \in Columns
  BY ConstantsTyped
<1> QED  BY <1>2, <1>3, <1>4, <1>5, <1>6, KeysSayTheRow

\* Only Save adds an entry, and only the two calls answer.
LEMMA AnswersStayCurrent ==
    ASSUME FilesStayFiles
    PROVE  Spec => []AnswersAreCurrent
<1>1. Init => AnswersAreCurrent
  BY ConstantsTyped DEF Init, AnswersAreCurrent, Unasked
<1>2. ASSUME KeysAreMinted, AnswersAreCurrent, [Next]_vars
      PROVE  AnswersAreCurrent'
  <2>1. ASSUME UNCHANGED <<file, ledger, changes>>,
               \/ Verify
               \/ Defend
               \/ verified' = verified /\ scored' = scored
        PROVE  AnswersAreCurrent'
    <3>1. Verified' = Verified /\ Scored' = Scored
      BY <2>1 DEF Verified, Scored, Analysed, Landings, Landing, KeyTable,
                  ContentKeys, Resolve, Overridden, Overriding, Merged, Amounts
    <3>2. CASE verified' = verified /\ scored' = scored
      BY <1>2, <2>1, <3>1, <3>2 DEF AnswersAreCurrent
    <3>3. /\ Error.state = "error"
          /\ Verified.state = "done" /\ Scored.state = "done"
      BY DEF Error, Unasked, Verified, Scored
    <3>4. CASE Verify
      <4>1. scored' = scored /\ verified' \in {Error, Verified}
        BY <3>4 DEF Verify
      <4> QED  BY <1>2, <2>1, <3>1, <3>3, <4>1 DEF AnswersAreCurrent
    <3>5. CASE Defend
      <4>1. verified' = verified /\ scored' \in {Error, Scored}
        BY <3>5 DEF Defend
      <4> QED  BY <1>2, <2>1, <3>1, <3>3, <4>1 DEF AnswersAreCurrent
    <3> QED
      BY <2>1, <3>2, <3>4, <3>5
  <2>2. ASSUME NEW f \in Corrections(file), Correct(f)
        PROVE  AnswersAreCurrent'
    <3>1. /\ ledger' = ledger /\ verified' = Unasked /\ scored' = Unasked
          /\ Unasked.state = "unasked" /\ changes' = changes + 1
          /\ changes < MaxChanges
      BY <2>2 DEF Correct, Unasked
    <3>2. changes' \in 0..MaxChanges
      BY <1>2, <3>1, ConstantsTyped DEF AnswersAreCurrent
    <3> QED  BY <1>2, <3>1, <3>2 DEF AnswersAreCurrent
  <2>3. ASSUME NEW i \in DOMAIN file, NEW keyed \in BOOLEAN,
               NEW override \in Overrides, Save(i, keyed, override)
        PROVE  AnswersAreCurrent'
    <3> DEFINE e == [index |-> i,
                     key |-> IF keyed THEN KeyTable(file)[i] ELSE NoKey,
                     amount |-> Len(ledger) + 1, override |-> override,
                     was |-> file[i], column |-> KeyColumn(file),
                     counters |-> Counters(file)]
               old == {ledger[k] : k \in DOMAIN ledger}
    <3>1. ledger' = Append(ledger, e)
      BY <2>3 DEF Save
    <3>2. ledger \in Seq(old)
      BY <1>2 DEF KeysAreMinted, LedgerIsSequence
    <3>3. Len(ledger) \in Nat /\ DOMAIN ledger = 1..Len(ledger)
      BY <3>2
    <3>4. /\ DOMAIN ledger' = 1..(Len(ledger) + 1)
          /\ \A k \in 1..Len(ledger) : ledger'[k] = ledger[k]
          /\ ledger'[Len(ledger) + 1] = e
      BY <3>1, <3>2 DEF old
    <3>5. IsEntry(e)
      <4>1. file \in Files /\ i \in Nat \ {0} /\ file[i] \in Rows
        BY <1>2 DEF KeysAreMinted, Files
      <4>2. IsKey(KeyTable(file)[i]) /\ IsKey(NoKey)
        BY <4>1, KeysAreKeys DEF IsKey, NoKey, NoContent
      <4>3. KeyColumn(file) \in 0..Len(KeyColumns)
        BY ChosenColumn, ConstantsTyped
      <4>4. Counters(file) \subseteq Columns
        BY DEF Counters
      <4> QED  BY <3>3, <4>1, <4>2, <4>3, <4>4 DEF IsEntry
    <3> HIDE DEF e
    <3>6. /\ verified' = Unasked /\ scored' = Unasked
          /\ Unasked.state = "unasked" /\ changes' = changes + 1
          /\ changes < MaxChanges
      BY <2>3 DEF Save, Unasked
    <3>7. changes' \in 0..MaxChanges
      BY <1>2, <3>6, ConstantsTyped DEF AnswersAreCurrent
    <3> QED  BY <1>2, <3>3, <3>4, <3>5, <3>6, <3>7 DEF AnswersAreCurrent
  <2>4. CASE Verify \/ Defend \/ UNCHANGED vars
    BY <2>1, <2>4 DEF Verify, Defend, vars
  <2> QED  BY <1>2, <2>2, <2>3, <2>4 DEF Next
<1> QED  BY <1>1, <1>2, KeysMinted, PTL DEF Spec

\* A row analysed as it is in the file is analysed with its cells overridden:
\* an override fills cells and blanks none.
LEMMA OverridesKeepRows ==
    ASSUME AnswersAreCurrent, KeysAreMinted
    PROVE  Analysed(file) \subseteq Analysed(Overridden)
<1> SUFFICES ASSUME NEW i \in Analysed(file) PROVE i \in Analysed(Overridden)
  OBVIOUS
<1>1. i \in DOMAIN file /\ \A c \in Model : file[i].cells[c] # NoCell
  BY DEF Analysed
<1>2. DOMAIN Overridden = DOMAIN file
  BY DEF Overridden
<1>3. ASSUME NEW c \in Model PROVE Overridden[i].cells[c] # NoCell
  <2> DEFINE S == Overriding(Landings, i, c)
             last == CHOOSE k \in S : \A l \in S : l <= k
  <2>1. file[i] \in Rows /\ c \in Columns
    BY <1>1, ConstantsTyped DEF Files, KeysAreMinted
  <2>2. Overridden[i].cells[c] = IF S = {} THEN file[i].cells[c]
                                 ELSE ledger[last].override[c]
    BY <1>1, <2>1 DEF Overridden, Rows
  <2>3. CASE S = {}
    BY <1>1, <2>2, <2>3
  <2>4. CASE S # {}
    <3>1. last \in S
      <4>1. S \subseteq 0..Len(ledger) /\ Len(ledger) \in Nat
        BY DEF Overriding, Landing, Landings, KeysAreMinted, LedgerIsSequence
      <4>2. \E k \in S : \A l \in S : l <= k
        BY <2>4, <4>1, GreatestNumber
      <4> QED  BY <4>2
    <3>2. last \in DOMAIN ledger /\ c \in DOMAIN ledger[last].override
      BY <3>1 DEF Overriding, Landing, Landings
    <3>3. ledger[last].override[c] \in Nat
      BY <3>2, ConstantsTyped DEF AnswersAreCurrent, IsEntry, Range
    <3> QED  BY <2>2, <2>4, <3>3 DEF NoCell
  <2> QED  BY <2>3, <2>4
<1> QED  BY <1>1, <1>2, <1>3 DEF Analysed

\* Two finite sets apart have as many elements as both.
LEMMA CountApart ==
    ASSUME NEW S, NEW T, IsFiniteSet(S), IsFiniteSet(T), S \cap T = {}
    PROVE  /\ IsFiniteSet(S \cup T)
           /\ Cardinality(S \cup T) = Cardinality(S) + Cardinality(T)
<1>1. /\ IsFiniteSet(S \cup T)
      /\ Cardinality(S \cup T)
           = Cardinality(S) + Cardinality(T) - Cardinality(S \cap T)
  BY FS_Union
<1>2. Cardinality(S \cap T) = 0
  BY FS_EmptySet
<1>3. Cardinality(S) \in Nat /\ Cardinality(T) \in Nat
  BY FS_CardinalityType
<1> QED  BY <1>1, <1>2, <1>3

\* A schedule comes to the same for an employee by either call, and each of
\* its entries is paid, or counted as unresolved or as off the rows analysed.
THEOREM SamePayEitherWay ==
    ASSUME FilesStayFiles
    PROVE  Spec => []OneSchedule
<1>1. ASSUME KeysAreMinted, AnswersAreCurrent PROVE OneSchedule
  <2> DEFINE n == Len(ledger)
             at == Landings
             rows == Analysed(file)
             lost == Landing(at, Nowhere)
             off == {k \in DOMAIN at : at[k] \notin rows \cup {Nowhere}}
             paid == {k \in DOMAIN ledger :
                         \E i \in DOMAIN file : at[k] = i /\ verified.paid[i] > 0}
  <2>1. n \in Nat /\ DOMAIN ledger = 1..n /\ DOMAIN at = 1..n
    BY <1>1 DEF KeysAreMinted, LedgerIsSequence, Landings
  <2>2. rows \subseteq DOMAIN file /\ Nowhere \notin DOMAIN file
    BY <1>1 DEF KeysAreMinted, Files, Analysed, Nowhere
  <2>3. ASSUME verified.state = "done", scored.state = "done"
        PROVE  /\ \A i \in rows : scored.paid[i] = verified.paid[i]
               /\ scored.unresolved = verified.unresolved
    <3>1. verified = Verified /\ scored = Scored
      BY <1>1, <2>3 DEF AnswersAreCurrent
    <3>2. rows \subseteq Analysed(Overridden)
      BY <1>1, OverridesKeepRows
    <3>3. \A i \in rows :
             /\ verified.paid[i] = SumFunctionOnSet(Amounts, Landing(at, i))
             /\ scored.paid[i] = SumFunctionOnSet(Amounts, Landing(at, i))
      BY <2>2, <3>1, <3>2 DEF Verified, Scored, Merged
    <3>4. scored.unresolved = verified.unresolved
      BY <3>1 DEF Verified, Scored
    <3> QED  BY <3>3, <3>4
  <2>4. ASSUME verified.state = "done"
        PROVE  n = verified.unresolved + verified.excluded + Cardinality(paid)
    <3>1. /\ verified.unresolved = Cardinality(lost)
          /\ verified.excluded = Cardinality(off)
          /\ \A i \in DOMAIN file : verified.paid[i] =
                IF i \in rows THEN SumFunctionOnSet(Amounts, Landing(at, i))
                ELSE 0
      BY <1>1, <2>4 DEF AnswersAreCurrent, Verified
    <3> HIDE DEF rows, at, n
    <3>2. paid = {k \in 1..n : at[k] \in rows}
      <4>1. ASSUME NEW k \in 1..n, at[k] \in rows
            PROVE  verified.paid[at[k]] > 0
        <5> DEFINE S == Landing(at, at[k])
        <5>1. k \in S /\ S \subseteq 1..n
          BY <2>1 DEF Landing
        <5>2. IsFiniteSet(S)
          <6>1. IsFiniteSet(1..n)
            BY <2>1, FS_Interval
          <6> QED  BY <5>1, <6>1, FS_Subset
        <5>3. \A l \in S : Amounts[l] \in Nat /\ Amounts[l] > 0
          BY <1>1, <2>1, <5>1 DEF AnswersAreCurrent, IsEntry, Amounts
        <5> HIDE DEF S
        <5>4. /\ SumFunctionOnSet(Amounts, S) \in Nat
              /\ Amounts[k] <= SumFunctionOnSet(Amounts, S)
          BY <5>1, <5>2, <5>3, SumNat
        <5>5. verified.paid[at[k]] = SumFunctionOnSet(Amounts, S)
          BY <2>2, <3>1, <4>1 DEF S
        <5> QED  BY <5>1, <5>3, <5>4, <5>5
      <4>2. \A k \in paid : at[k] \in rows
        BY <3>1
      <4> QED  BY <2>1, <2>2, <4>1, <4>2
    <3>3. lost = {k \in 1..n : at[k] = Nowhere} /\ off \subseteq 1..n
      BY <2>1 DEF Landing
    <3>4. /\ 1..n = (lost \cup off) \cup paid
          /\ lost \cap off = {} /\ (lost \cup off) \cap paid = {}
      BY <2>1, <2>2, <3>2, <3>3
    <3>5. IsFiniteSet(1..n) /\ Cardinality(1..n) = n
      BY <2>1, FS_Interval
    <3> HIDE DEF lost, off, paid
    <3>6. IsFiniteSet(lost) /\ IsFiniteSet(off) /\ IsFiniteSet(paid)
      BY <3>4, <3>5, FS_Subset
    <3>7. /\ IsFiniteSet(lost \cup off)
          /\ Cardinality(lost \cup off) = Cardinality(lost) + Cardinality(off)
      BY <3>4, <3>6, CountApart
    <3>8. n = Cardinality(lost \cup off) + Cardinality(paid)
      BY <3>4, <3>5, <3>6, <3>7, CountApart
    <3> QED  BY <3>1, <3>7, <3>8
  <2> QED  BY <2>3, <2>4 DEF OneSchedule
<1> QED  BY <1>1, KeysMinted, AnswersStayCurrent, PTL

-----------------------------------------------------------------------------
(* Types *)

\* Of finitely many entries finitely many rows are landed on, and what a row
\* is paid is a number.
LEMMA LandingsAreFinite ==
    ASSUME KeysAreMinted, AnswersAreCurrent
    PROVE  /\ IsFiniteSet(DOMAIN ledger) /\ DOMAIN Landings = DOMAIN ledger
           /\ \A i : IsFiniteSet(Landing(Landings, i))
           /\ \A i : SumFunctionOnSet(Amounts, Landing(Landings, i)) \in Nat
           /\ IsFiniteSet({Landings[k] : k \in DOMAIN Landings})
<1>1. Len(ledger) \in Nat /\ DOMAIN ledger = 1..Len(ledger)
  BY DEF KeysAreMinted, LedgerIsSequence
<1>2. IsFiniteSet(DOMAIN ledger) /\ DOMAIN Landings = DOMAIN ledger
  BY <1>1, FS_Interval DEF Landings
<1>3. ASSUME NEW i
      PROVE  /\ IsFiniteSet(Landing(Landings, i))
             /\ SumFunctionOnSet(Amounts, Landing(Landings, i)) \in Nat
  <2> DEFINE S == Landing(Landings, i)
  <2>1. S \subseteq DOMAIN ledger
    BY <1>2 DEF Landing
  <2>2. IsFiniteSet(S)
    BY <1>2, <2>1, FS_Subset
  <2>3. \A k \in S : Amounts[k] \in Nat
    BY <2>1 DEF Amounts, AnswersAreCurrent, IsEntry
  <2> HIDE DEF S
  <2>4. SumFunctionOnSet(Amounts, S) \in Nat
    BY <2>2, <2>3, SumNat
  <2> QED  BY <2>2, <2>4 DEF S
<1>4. IsFiniteSet({Landings[k] : k \in DOMAIN Landings})
  <2> DEFINE T == {Landings[k] : k \in DOMAIN Landings}
             to == [k \in DOMAIN Landings |-> Landings[k]]
  <2>1. to \in Surjection(DOMAIN Landings, T)
    BY DEF Surjection
  <2> QED  BY <1>2, <2>1, FS_Surjection
<1> QED  BY <1>2, <1>3, <1>4

\* The variables keep their types (RowKeys' TypeOK).
THEOREM TypeCorrect ==
    ASSUME FilesStayFiles
    PROVE  Spec => []TypeOK
<1>1. ASSUME KeysAreMinted, AnswersAreCurrent PROVE TypeOK
  <2>1. file \in Seq(Rows) /\ Len(file) \in Nat /\ DOMAIN file = 1..Len(file)
    BY <1>1 DEF KeysAreMinted, Files
  <2>2. IsAnswer(Unasked) /\ IsAnswer(Error)
    BY DEF IsAnswer, Unasked, Error
  <2>3. IsAnswer(Verified)
    <3> DEFINE off == {k \in DOMAIN Landings :
                          Landings[k] \notin Analysed(file) \cup {Nowhere}}
               lost == Landing(Landings, Nowhere)
    <3>1. /\ Verified.state = "done"
          /\ Verified.unresolved = Cardinality(lost)
          /\ Verified.excluded = Cardinality(off)
          /\ Verified.paid = [i \in DOMAIN file |->
                IF i \in Analysed(file)
                THEN SumFunctionOnSet(Amounts, Landing(Landings, i)) ELSE 0]
      BY DEF Verified
    <3>2. Verified.paid \in Seq(Nat) /\ Len(Verified.paid) = Len(file)
      <4>1. Verified.paid \in [1..Len(file) -> Nat]
        BY <1>1, <2>1, <3>1, LandingsAreFinite
      <4> QED  BY <2>1, <4>1
    <3>3. Verified.unresolved \in Nat /\ Verified.excluded \in Nat
      <4>1. IsFiniteSet(lost)
        BY <1>1, LandingsAreFinite
      <4>2. off \subseteq DOMAIN ledger /\ IsFiniteSet(DOMAIN ledger)
        BY <1>1, LandingsAreFinite
      <4> HIDE DEF off, lost
      <4>3. IsFiniteSet(off)
        BY <4>2, FS_Subset
      <4> QED  BY <3>1, <4>1, <4>3, FS_CardinalityType
    <3> QED  BY <3>1, <3>2, <3>3 DEF IsAnswer
  <2>4. IsAnswer(Scored)
    <3> DEFINE hit == {Landings[k] : k \in DOMAIN Landings}
               off == hit \ (Analysed(Overridden) \cup {Nowhere})
               lost == Landing(Landings, Nowhere)
    <3>1. /\ Scored.state = "done"
          /\ Scored.unresolved = Cardinality(lost)
          /\ Scored.excluded = Cardinality(off)
          /\ Scored.paid = [i \in DOMAIN file |->
                IF i \in Analysed(Overridden)
                THEN SumFunctionOnSet(Amounts, Landing(Landings, i)) ELSE 0]
      BY DEF Scored, Merged
    <3>2. Scored.paid \in Seq(Nat) /\ Len(Scored.paid) = Len(file)
      <4>1. Scored.paid \in [1..Len(file) -> Nat]
        BY <1>1, <2>1, <3>1, LandingsAreFinite
      <4> QED  BY <2>1, <4>1
    <3>3. Scored.unresolved \in Nat /\ Scored.excluded \in Nat
      <4>1. IsFiniteSet(lost) /\ IsFiniteSet(hit)
        BY <1>1, LandingsAreFinite
      <4>2. off \subseteq hit
        OBVIOUS
      <4> HIDE DEF off, lost, hit
      <4>3. IsFiniteSet(off)
        BY <4>1, <4>2, FS_Subset
      <4> QED  BY <3>1, <4>1, <4>3, FS_CardinalityType
    <3> QED  BY <3>1, <3>2, <3>3 DEF IsAnswer
  <2>5. IsAnswer(verified) /\ IsAnswer(scored)
    BY <1>1, <2>2, <2>3, <2>4 DEF AnswersAreCurrent
  <2> QED  BY <1>1, <2>5 DEF TypeOK, KeysAreMinted, AnswersAreCurrent
<1> QED  BY <1>1, KeysMinted, AnswersStayCurrent, PTL
=============================================================================
