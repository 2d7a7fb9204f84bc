----------------------------- MODULE MCFrontier -----------------------------
(* Instances of Frontier for TLC: the calls of MCRemedy, and a staff with  *)
(* two equal shortfalls across the groups, priced along axes that end      *)
(* inside, on and past the full cost and cut it at and between the rows'   *)
(* shortfalls.                                                             *)
EXTENDS Frontier, MCRemedy

Short == {-1, 0, 2, 3}
Tied(s, d) ==
    [pay |-> [r \in Rows |-> 10],
     fair |-> [r \in Rows |-> IF r \in Compared THEN 10 + s[r]
                              ELSE IF r = 0 THEN 10 + d ELSE 10 - d],
     width |-> [r \in Rows |-> 1], weight |-> [r \in Rows |-> 0]]

MCPriced ==
    { << {Tied(s, d) : s \in [Compared -> Short], d \in {0, 2}},
         { [Ask EXCEPT !.target = "Reference", !.strategy = y, !.line = l,
                       !.minPct = m, !.adjustBoth = a] :
           y \in {"Greedy", "Equitable"}, l \in {"Midpoint", "UpperBound"},
           m \in {0, 25}, a \in BOOLEAN } >> }

MCAxes == [max : {{}, {0}, {4}, {9}}, steps : {3}]
              \cup {[max |-> {9}, steps |-> 1], [max |-> {-1}, steps |-> 3],
                    [max |-> {}, steps |-> 0]}
=============================================================================
