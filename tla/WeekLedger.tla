----------------------------- MODULE WeekLedger -----------------------------
(***************************************************************************)
(* What the diff session of engine/src/snapshot_diff.rs promises about the *)
(* prior week: every subject of it is settled at most once, in one atomic  *)
(* call.  A call that returns settles the subjects it consumed; a call     *)
(* that throws forfeits them, and nothing of it is reported.               *)
(***************************************************************************)
CONSTANT Subjects

VARIABLES
    open,       \* subjects of the prior week no completed call has consumed
    settled,    \* subjects whose comparison has reached the host
    forfeited   \* subjects consumed by a call that threw

Init == open = {} /\ settled = {} /\ forfeited = {}

Enter(s) ==
    /\ s \notin open \cup settled \cup forfeited
    /\ open' = open \cup {s}
    /\ UNCHANGED <<settled, forfeited>>

\* The call that settles the last open subjects may settle any set of them.
Settle(S) ==
    /\ S # {} /\ S \subseteq open
    /\ open' = open \ S
    /\ settled' = settled \cup S
    /\ UNCHANGED forfeited

Forfeit(S) ==
    /\ S # {} /\ S \subseteq open
    /\ open' = open \ S
    /\ forfeited' = forfeited \cup S
    /\ UNCHANGED settled

Next == \/ \E s \in Subjects : Enter(s)
        \/ \E S \in SUBSET Subjects : Settle(S) \/ Forfeit(S)

Spec == Init /\ [][Next]_<<open, settled, forfeited>>

=============================================================================
