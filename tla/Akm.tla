-------------------------------- MODULE Akm --------------------------------
(***************************************************************************)
(* The worker and firm effects of oaxaca_blinder/src/akm.rs: workers and   *)
(* firms are the nodes of a graph, a row of the panel links the two it     *)
(* names, the rows of the largest connected set are kept, and the effects  *)
(* are solved for on them by iterating until nothing moves or the          *)
(* iterations run out.                                                     *)
(*                                                                         *)
(* A blank cell is {}, another the singleton of its value; worker and firm *)
(* identifiers are integers, ordered as the code sorts their text. A node  *)
(* is the index the code gives it. What one iteration does to the figures  *)
(* is floating-point algebra and is left out: after it they still move or  *)
(* have settled, and settled effects are any that reproduce the outcomes,  *)
(* which the panels make exact sums of a worker's and a firm's part. The   *)
(* controls' coefficients are taken to be subtracted from the outcomes.    *)
(***************************************************************************)
EXTENDS Integers, Sequences, FiniteSets, FiniteSetsExt, Positions

CONSTANTS
    AkmCalls,      \* what a call may be given: rows, controls, limit
    WorkerPart,    \* the outcome of a row is the part of its worker
    FirmPart,      \* and the part of its firm
    Offsets        \* how far an iteration may leave a firm's effect off

ASSUME PartsTyped ==
    /\ DOMAIN WorkerPart \subseteq Int /\ \A w \in DOMAIN WorkerPart : WorkerPart[w] \in Int
    /\ DOMAIN FirmPart \subseteq Int /\ \A f \in DOMAIN FirmPart : FirmPart[f] \in Int
    /\ Offsets \subseteq Int

\* A cell has one value at most, and outcomes are made of the parts.
PanelTyped(rows) ==
    /\ rows \in Seq([worker : SUBSET DOMAIN WorkerPart,
                     firm : SUBSET DOMAIN FirmPart, outcome : SUBSET Int])
    /\ \A i \in DOMAIN rows :
          LET r == rows[i]
          IN  /\ \A v, w \in r.worker : v = w
              /\ \A f, g \in r.firm : f = g
              /\ \A w \in r.worker, f \in r.firm, y \in r.outcome :
                    y = WorkerPart[w] + FirmPart[f]

ASSUME AkmCallsTyped == \A c \in AkmCalls :
    PanelTyped(c.rows) /\ c.controls \in Nat /\ c.limit \in Nat

VARIABLES
    panel,    \* the call
    step,     \* where it is
    fault,    \* the error it returned, "" for none
    linked,   \* rows of the panel united so far
    parent,   \* UnionFind::parent
    size,     \* UnionFind::size
    kept,     \* the rows of df_connected, as positions in the panel
    vectors,  \* vectors still to be demeaned
    iter,     \* iterations of the loop in progress
    settled,  \* its diff is within the tolerance
    effects   \* the effects of the kept workers and firms

forest == <<parent, size>>
loop == <<vectors, iter, settled>>
akmVars == <<panel, step, fault, linked, forest, kept, loop, effects>>

-----------------------------------------------------------------------------
(* The graph *)

Rows == panel.rows
Workers == UNION {Rows[i].worker : i \in DOMAIN Rows}
Firms == UNION {Rows[i].firm : i \in DOMAIN Rows}

\* The distinct values of a column, a blank being one of them.
NWorkers == Cardinality({Rows[i].worker : i \in DOMAIN Rows})
NFirms == Cardinality({Rows[i].firm : i \in DOMAIN Rows})

Rank(S, v) == Cardinality({u \in S : u < v})

WorkerNode(w) == Rank(Workers, w)
FirmNode(f) == NWorkers + Rank(Firms, f)
Nodes == 0..(NWorkers + NFirms - 1)

Ends(r) == {WorkerNode(w) : w \in r.worker} \cup {FirmNode(f) : f \in r.firm}

-----------------------------------------------------------------------------
(* Union-find *)

\* The root above each node, and the nodes on the way to it.
Root == LET up[n \in Nodes] == IF parent[n] = n THEN n ELSE up[parent[n]] IN up
Way(n) ==
    LET up[m \in Nodes] ==
            {m} \cup IF parent[m] = m THEN {} ELSE up[parent[m]]
    IN  up[n]

\* What find leaves of the forest: every node it met hangs from its root.
Compressed(S) == [n \in Nodes |-> IF n \in S THEN Root[n] ELSE parent[n]]

\* Mutant: the node found is hung, not its root.
Union_Node(i, j) ==
    LET p == Compressed(Way(i) \cup Way(j)) IN
    IF Root[i] = Root[j]
    THEN parent' = p /\ UNCHANGED size
    ELSE /\ parent' = [p EXCEPT ![i] = Root[j]]
         /\ size' = [size EXCEPT ![Root[j]] = @ + size[Root[i]]]

\* The smaller tree is hung from the root of the larger.
Union(i, j) ==
    LET p == Compressed(Way(i) \cup Way(j))
        ri == Root[i]
        rj == Root[j]
        Hang(low, high) ==
            /\ parent' = [p EXCEPT ![low] = high]
            /\ size' = [size EXCEPT ![high] = @ + size[low]]
    IN  IF ri = rj THEN parent' = p /\ UNCHANGED size
        ELSE IF size[ri] < size[rj] THEN Hang(ri, rj) ELSE Hang(rj, ri)

-----------------------------------------------------------------------------
(* The call *)

AkmInit ==
    /\ step = "link" /\ fault = "" /\ linked = 0
    /\ parent = [n \in Nodes |-> n] /\ size = [n \in Nodes |-> 1]
    /\ kept = <<>> /\ vectors = 0 /\ iter = 0 /\ settled = FALSE
    /\ effects = <<>>

Fail(error) ==
    /\ fault' = error /\ step' = "refused"
    /\ UNCHANGED <<panel, linked, forest, kept, loop, effects>>

\* A row that names both a worker and a firm links them.
LinkRow ==
    LET r == Rows[linked + 1] IN
    /\ step = "link" /\ linked < Len(Rows)
    /\ linked' = linked + 1
    /\ \/ /\ r.worker = {} \/ r.firm = {}
          /\ UNCHANGED forest
       \/ \E w \in r.worker, f \in r.firm :
              Union(WorkerNode(w), FirmNode(f))
    /\ UNCHANGED <<panel, step, fault, kept, loop, effects>>

Component(root) == {n \in Nodes : Root[n] = root}

\* Of several components of the largest size, the map's order decides.
LargestRoots ==
    {r \in Nodes : /\ Root[r] = r
                   /\ \A q \in Nodes : Cardinality(Component(Root[q]))
                                           <= Cardinality(Component(r))}

\* The rows that link, and those of them with both ends in the set.
Links == {i \in DOMAIN Rows : Rows[i].worker # {} /\ Rows[i].firm # {}}
RowsWithin(S) == Ascending({i \in Links : Ends(Rows[i]) \subseteq S})

KeepLargest ==
    /\ step = "link" /\ linked = Len(Rows)
    /\ \/ Nodes = {} /\ Fail("empty graph")
       \/ \E r \in LargestRoots :
            \/ RowsWithin(Component(r)) = <<>> /\ Fail("no connected set")
            \/ /\ RowsWithin(Component(r)) # <<>>
               /\ kept' = RowsWithin(Component(r))
               /\ parent' = Root
               /\ step' = "index"
               /\ UNCHANGED <<panel, fault, linked, size, loop, effects>>

\* The outcome and the controls are read off the kept rows.
ReadColumns ==
    /\ step = "index"
    /\ \/ /\ \E k \in DOMAIN kept : Rows[kept[k]].outcome = {}
          /\ Fail("null outcome")
       \/ /\ \A k \in DOMAIN kept : Rows[kept[k]].outcome # {}
          /\ vectors' = 1 + panel.controls
          /\ step' = "demean"
          /\ UNCHANGED <<panel, fault, linked, forest, kept, iter, settled,
                         effects>>

Iterate ==
    /\ ~settled /\ iter < panel.limit
    /\ iter' = iter + 1
    /\ settled' \in BOOLEAN
    /\ UNCHANGED <<panel, step, fault, linked, forest, kept, vectors, effects>>

\* A loop that used up its iterations is refused, settled or not.
Exhausted == iter >= panel.limit
LoopEnds == settled \/ Exhausted

Demean == step = "demean" /\ Iterate

Demeaned ==
    /\ step = "demean" /\ LoopEnds
    /\ \/ Exhausted /\ Fail("demean did not converge")
       \/ /\ ~Exhausted
          /\ vectors' = vectors - 1 /\ iter' = 0 /\ settled' = FALSE
          /\ step' = IF vectors' = 0 THEN "regress" ELSE "demean"
          /\ UNCHANGED <<panel, fault, linked, forest, kept, effects>>

\* The coefficients of the controls, if there are any; the effects start
\* at zero.
Regress ==
    /\ step = "regress"
    /\ \/ panel.controls > 0 /\ Fail("singular design")
       \/ /\ step' = "recover"
          /\ UNCHANGED <<panel, fault, linked, forest, kept, loop, effects>>

Recover == step = "recover" /\ Iterate

KeptWorkers == UNION {Rows[kept[k]].worker : k \in DOMAIN kept}
KeptFirms == UNION {Rows[kept[k]].firm : k \in DOMAIN kept}

\* The effects that reproduce every kept outcome: what the workers lack of
\* their parts is with the firms.
Solutions ==
    {[worker |-> [w \in KeptWorkers |-> WorkerPart[w] - s.lack[w]],
      firm |-> [f \in KeptFirms |-> FirmPart[f] + s.gain[f]]] :
     s \in {s \in [lack : [KeptWorkers -> Offsets], gain : [KeptFirms -> Offsets]] :
               \A k \in DOMAIN kept :
                   \A w \in Rows[kept[k]].worker, f \in Rows[kept[k]].firm :
                       s.lack[w] = s.gain[f]}}

\* The first firm's effect is set to zero.
Normalised(s) ==
    LET ref == s.firm[Min(KeptFirms)] IN
    [worker |-> [w \in KeptWorkers |-> s.worker[w] + ref],
     firm |-> [f \in KeptFirms |-> s.firm[f] - ref]]

Recovered ==
    /\ step = "recover" /\ LoopEnds
    /\ \/ Exhausted /\ Fail("recover did not converge")
       \/ /\ ~Exhausted
          /\ \E s \in Solutions : effects' = Normalised(s)
          /\ step' = "done"
          /\ UNCHANGED <<panel, fault, linked, forest, kept, loop>>

AkmNext ==
    \/ LinkRow \/ KeepLargest \/ ReadColumns
    \/ Demean \/ Demeaned \/ Regress \/ Recover \/ Recovered

-----------------------------------------------------------------------------
(* Properties *)

\* Workers and firms by name, not by number.
Named == ({"worker"} \X Workers) \cup ({"firm"} \X Firms)

\* The sets no row leads out of, and of these the ones in one piece.
Closed ==
    {S \in SUBSET Named : \A i \in DOMAIN Rows :
        \A w \in Rows[i].worker, f \in Rows[i].firm :
            (<<"worker", w>> \in S) = (<<"firm", f>> \in S)}
ConnectedSets ==
    LET closed == Closed \ {{}} IN
    {S \in closed : \A T \in closed : T \subseteq S => T = S}

\* What is analysed is a whole connected set of workers and firms, every row
\* between its members and no other, and no other set has more members; a
\* blank, which the code counts as a node of its own, never makes one
\* (find_largest_connected_set). The roots are found through a forest that
\* every search rewrites.
ConnectedSetIsLargest ==
    /\ step = "index" =>
        LET within == ({"worker"} \X KeptWorkers) \cup ({"firm"} \X KeptFirms) IN
        /\ within \in ConnectedSets
        /\ \A S \in ConnectedSets : Cardinality(S) <= Cardinality(within)
        /\ kept = Ascending({i \in Links : Rows[i].worker \subseteq KeptWorkers})
    /\ fault \in {"empty graph", "no connected set"} => Links = {}

\* Effects are compared across all the workers and firms kept: whichever
\* solution the iteration settles on, the effects reported are the parts the
\* outcomes were made of, up to the first firm's level. On a set in two
\* pieces nothing would fix the level of the second.
EffectsAreIdentified ==
    step = "done" =>
        LET ref == FirmPart[Min(KeptFirms)] IN
        /\ \A w \in KeptWorkers : effects.worker[w] = WorkerPart[w] + ref
        /\ \A f \in KeptFirms : effects.firm[f] = FirmPart[f] - ref

\* What is analysed is the largest connected set, and all its effects are
\* identified.
LargestSetIsIdentified == ConnectedSetIsLargest /\ EffectsAreIdentified
=============================================================================
