------------------------------ MODULE MCTaskGraph ------------------------------
(* The check of a graph and, apart from it, the life of an accepted one; a *)
(* behaviour is of one of the two.                                         *)
EXTENDS TaskGraph, PlanGraph

VARIABLE part

\* All graphs over the names with a dependency listed at most once, those with
\* one dependency listed twice, and those with names of nobody besides.
Once == [Names -> [Names \cup {0} -> 0 .. 1]]
Closed == {g \in Once : \A n \in Names : g[n][0] = 0}
Doubled == {[g EXCEPT ![n] = [@ EXCEPT ![d] = 2 * @]] : g \in Closed, n \in Names, d \in Names}
Dangling == {[n \in Names |-> [g[n] EXCEPT ![0] = 1]] : g \in Closed}
MCGraphs == Closed \cup Doubled \cup Dangling

\* Up to the names of the tasks every plan without a cycle, and plans that must
\* be refused: a task that waits for itself, two for each other, one for nobody.
MCPlans ==
    LET Waits(t, D) == [[u \in 1 .. Tasks |-> {}] EXCEPT ![t] = D]
    IN {g \in [1 .. Tasks -> SUBSET (1 .. Tasks)] : \A t \in 1 .. Tasks : \A d \in g[t] : d < t}
       \cup {Waits(1, {1}), [Waits(1, {2}) EXCEPT ![2] = {1}], Waits(1, {Tasks + 1})}

MCCalls == [retry |-> 1, add |-> 1, repair |-> 1, rebuild |-> 1, crash |-> 1, all |-> 3]
RepairAndAdd == [retry |-> 0, add |-> 1, repair |-> 1, rebuild |-> 0, crash |-> 0, all |-> 2]

Rebuilds == [retry |-> 0, add |-> 0, repair |-> 0, rebuild |-> 1, crash |-> 0, all |-> 1]

all == <<vars, graphVars, part>>

MCInit ==
    /\ Init /\ GraphInit /\ part \in {"sort", "tasks"}
    /\ part = "tasks" => /\ caller = "plan" /\ \A n \in Names, d \in Names \cup {0} : graph[n][d] = 0

Of(A) == part = "tasks" /\ A /\ UNCHANGED <<graphVars, part>>

MCNext ==
    \/ Of(Next)
    \/ part = "sort" /\ GraphNext /\ UNCHANGED <<vars, part>>

MCSpec ==
    /\ MCInit /\ [][MCNext]_all
    /\ WF_all(Of(\E t \in 1 .. minted : Dispatch(t) \/ CascadeCancel(t)))
    /\ WF_all(Of(\E t \in 1 .. minted : \E outcome \in {"completed", "failed"} : Report(t, outcome)))
    /\ WF_all(Of(Register \/ Enqueue \/ \E t \in 1 .. minted : Reconcile(t)))
=============================================================================
