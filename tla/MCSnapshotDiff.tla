--------------------------- MODULE MCSnapshotDiff ---------------------------
(* Instances of SnapshotDiff for TLC: small sets of subjects, targets and  *)
(* values, and every row over them whose targets come in column order.     *)
EXTENDS SnapshotDiff, TLC

CONSTANTS s1, s2, t1, t2, num, txt, n1, n2, a, nan, null

MCSubjects == {s1, s2}
MCTargets == {t1, t2}
MCNumericKinds == {num}
MCTextKinds == {txt}

\* Two finite numbers, a string and NaN: every kind meets a value of another
\* kind, and a value of none that differs from itself.
MCNumbers == {n1, n2}
MCTexts == {a}
MCFresh == {nan}
MCInert == {null}

MCRows ==
    LET In(t, v) == [target |-> t, val |-> v] IN
    {<<>>, <<In(t1, n1)>>, <<In(t1, nan)>>, <<In(t2, a)>>,
     <<In(t1, n1), In(t2, a)>>, <<In(t1, a), In(t2, n2)>>}

\* One numeric and one text column; a host may leave either unpinned.
MCPins == {<<t1, num>>, <<t2, txt>>}

\* Rows that repeat a prior value: null is unchanged, NaN never is.
MCRowsNaN ==
    LET In(v) == <<[target |-> t1, val |-> v]>> IN {In(n1), In(nan), In(null)}
MCPinsNaN == {<<t1, num>>}

MCSymmetry == Permutations(MCSubjects)
=============================================================================
