------------------------------ MODULE MCRowKeys ------------------------------
(* A file of three employees with their numbers, their job classes and      *)
(* perhaps a column that counts the rows, and the corrections its owner may *)
(* make to it: a row more or less, rows moved, cells rewritten or blanked.  *)
EXTENDS RowKeys

MCColumns == {"line", "number", "class", "wage", "sex", "grade"}
OneNumber == <<"number">>
TwoNumbers == <<"number", "class">>

\* Employees 3 and 4 read alike but for their numbers.
Cells(number, class, wage, sex, grade) ==
    [line |-> NoCell, number |-> number, class |-> class, wage |-> wage,
     sex |-> sex, grade |-> grade]
Home(who) ==
    [who |-> who,
     cells |-> CASE who = 1 -> Cells(1, 2, 5, 0, 1)
                 [] who = 2 -> Cells(2, 9, 4, 1, 1)
                 [] who = 3 -> Cells(9, 4, 4, 1, 2)
                 [] who = 4 -> Cells(8, 4, 4, 1, 2)]

Lined(f) == [i \in DOMAIN f |-> [f[i] EXCEPT !.cells.line = i]]
Unnumbered(f) == [i \in DOMAIN f |-> [f[i] EXCEPT !.cells.number = NoCell]]
MCStarts ==
    LET f == <<Home(1), Home(2), Home(3)>> IN {f, Lined(Unnumbered(f))}

Insert(f) ==
    {SubSeq(f, 1, p) \o <<row>> \o SubSeq(f, p + 1, Len(f)) :
        p \in 0..Len(f), row \in {Home(4), [Home(4) EXCEPT !.cells.number = NoCell]}}
Remove(f) == {SubSeq(f, 1, p - 1) \o SubSeq(f, p + 1, Len(f)) : p \in DOMAIN f}
Move(f) == {[f EXCEPT ![p] = f[q], ![q] = f[p]] : p \in DOMAIN f \ {1}, q \in {1}}
Write(f, c, v) == {[f EXCEPT ![p].cells[c] = v] : p \in DOMAIN f}

\* With or without counting the rows again.
MCCorrections(f) ==
    LET changed ==
            (IF \E i \in DOMAIN f : f[i].who = 4 THEN {} ELSE Insert(f))
            \cup (IF Len(f) = 1 THEN {} ELSE Remove(f))
            \cup Move(f) \cup Write(f, "number", NoCell)
            \cup Write(f, "wage", 6) \cup Write(f, "grade", NoCell)
    IN  changed \cup (IF f[1].cells.line = NoCell THEN {}
                      ELSE {Lined(g) : g \in changed})

MCOverrides == {[c \in {} |-> 0], [c \in {"grade"} |-> 1]}
=============================================================================
