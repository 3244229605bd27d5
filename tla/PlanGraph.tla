------------------------------- MODULE PlanGraph -------------------------------
(***************************************************************************)
(* How a dependency graph is checked before it is accepted.  The plan      *)
(* requests use validateDAG (internal/plan/dag.go): Kahn's sort, and, when *)
(* it gets stuck, a depth-first search for a cycle to report.  queue_write *)
(* uses the search alone (internal/daemon/queue_write_task.go).  A graph   *)
(* gives each declared name the multiset of names in its blocked_by list:  *)
(* nothing removes duplicates from it, and 0 stands for the names that no  *)
(* task of the graph declares.  The order in which lists and maps are      *)
(* walked is left open.                                                    *)
(***************************************************************************)
EXTENDS Naturals, FiniteSets, Sequences, FiniteSetsExt

CONSTANTS
    Names,   \* the declared names, naturals from 1
    Graphs   \* the graphs that are checked: [Names -> [Names \cup {0} -> Nat]]

VARIABLES
    caller,    \* who checks: "plan" or "queue"
    graph,     \* name -> dependency -> how often blocked_by lists it
    inDegree,  \* Kahn: dependencies that are not sorted yet, counted with their copies
    ready,     \* Kahn: the names with in-degree 0 that are still to be sorted
    sorted,    \* Kahn: the order built so far
    color,     \* search: "white", "gray" or "black"
    parent,    \* search: the name from which this one was first reached
    stack,     \* search: the calls of dfs that have not returned
    todo,      \* search: the dependencies its loop has still to look at
    verdict,   \* "open", "accepted" or "refused"
    path       \* the cycle that a refusal reports

graphVars == <<caller, graph, inDegree, ready, sorted, color, parent, stack, todo, verdict, path>>
kahn == <<inDegree, ready, sorted>>
search == <<color, parent, stack, todo>>

Deps(n) == IF n = 0 THEN {} ELSE {d \in Names \cup {0} : graph[n][d] > 0}
InDegree(g) == [n \in Names |-> MapThenSumSet(LAMBDA d : g[n][d], Names)]

GraphInit ==
    /\ caller \in {"plan", "queue"} /\ graph \in Graphs
    /\ inDegree = InDegree(graph)
    /\ ready = {n \in Names : inDegree[n] = 0} /\ sorted = <<>>
    /\ color = [n \in Names \cup {0} |-> "white"] /\ parent = [n \in Names \cup {0} |-> 0]
    /\ stack = <<>> /\ todo = [n \in Names \cup {0} |-> {}]
    /\ verdict = "open" /\ path = <<>>

\* Mutant: a dependency listed twice is taken off once.
SortOnce(n) ==
    /\ inDegree' = [m \in Names |-> IF graph[m][n] > 0 THEN inDegree[m] - 1 ELSE inDegree[m]]
    /\ sorted' = Append(sorted, n)
    /\ ready' = (ready \ {n}) \cup {m \in Names : inDegree[m] > 0 /\ inDegree'[m] = 0}

\* A dependent's in-degree loses one for every copy of the edge.
Sort(n) ==
    /\ inDegree' = [m \in Names |-> inDegree[m] - graph[m][n]]
    /\ sorted' = Append(sorted, n)
    /\ ready' = (ready \ {n}) \cup {m \in Names : inDegree[m] > 0 /\ inDegree'[m] = 0}

SortOne == \E n \in ready : Sort(n) /\ UNCHANGED search

Stuck == ready = {} /\ Len(sorted) < Cardinality(Names)

Accept ==
    /\ ready = {} /\ Len(sorted) = Cardinality(Names)
    /\ verdict' = "accepted" /\ UNCHANGED path

\* A call of dfs colours its name gray and starts on its list.
Enter(n) ==
    /\ color' = [color EXCEPT ![n] = "gray"]
    /\ stack' = Append(stack, n)
    /\ todo' = [todo EXCEPT ![n] = Deps(n)]

Top == stack[Len(stack)]
Drop(d) == todo' = [todo EXCEPT ![Top] = @ \ {d}]

\* Mutant: the whole stack of calls is taken for the cycle.
WholeStack(from, to) == Append(stack, to)

\* The path is rebuilt from the parents, from the name whose list was being
\* read back to the gray one, then turned round.
Backtrack(from, to) ==
    LET Walk[n \in Names] == IF n = to THEN <<to>> ELSE Append(Walk[parent[n]], n)
    IN Append(Walk[from], to)

Meet(d) ==
    /\ color[d] = "gray"
    /\ verdict' = "refused" /\ path' = Backtrack(Top, d)
    /\ UNCHANGED search

\* queue_write's search leaves the names that no open row declares, or whose row
\* waits for nothing; the plan's search enters them and finds an empty list.
Skipped(d) == caller = "queue" /\ Deps(d) = {}

Descend(d) ==
    /\ color[d] = "white" /\ ~Skipped(d)
    /\ parent' = [parent EXCEPT ![d] = Top]
    /\ color' = [color EXCEPT ![d] = "gray"]
    /\ stack' = Append(stack, d)
    /\ todo' = [todo EXCEPT ![Top] = @ \ {d}, ![d] = Deps(d)]

PassOver(d) ==
    /\ color[d] = "black" \/ (color[d] = "white" /\ Skipped(d))
    /\ Drop(d) /\ UNCHANGED <<color, parent, stack>>

Look ==
    /\ stack # <<>>
    /\ \E d \in todo[Top] :
         \/ Meet(d)
         \/ (Descend(d) \/ PassOver(d)) /\ UNCHANGED <<verdict, path>>

Leave ==
    /\ stack # <<>> /\ todo[Top] = {}
    /\ color' = [color EXCEPT ![Top] = "black"]
    /\ stack' = SubSeq(stack, 1, Len(stack) - 1)
    /\ UNCHANGED <<parent, todo, verdict, path>>

\* Where the loops around dfs may start.
Roots == {n \in Names : /\ color[n] = "white"
                        /\ IF caller = "plan" THEN inDegree[n] > 0 ELSE Deps(n) # {}}

Begin == \E n \in Roots : Enter(n) /\ UNCHANGED <<parent, verdict, path>>

\* Without a cycle to show the plan's search still refuses.
SearchEnds ==
    /\ Roots = {}
    /\ verdict' = IF caller = "plan" THEN "refused" ELSE "accepted"
    /\ UNCHANGED <<path, search>>

FindCyclePath ==
    \/ Look
    \/ Leave
    \/ stack = <<>> /\ (Begin \/ SearchEnds)

ValidateDAG ==
    /\ caller = "plan"
    /\ \/ SortOne /\ UNCHANGED <<verdict, path>>
       \/ Accept /\ UNCHANGED <<kahn, search>>
       \/ Stuck /\ FindCyclePath /\ UNCHANGED kahn

DetectCycle == caller = "queue" /\ FindCyclePath /\ UNCHANGED kahn

GraphNext == verdict = "open" /\ (ValidateDAG \/ DetectCycle) /\ UNCHANGED <<caller, graph>>

GraphSpec == GraphInit /\ [][GraphNext]_graphVars

(***************************************************************************)
(* Properties                                                              *)
(***************************************************************************)

\* What both algorithms stand for: some names wait for one another.
Cyclic == \E S \in SUBSET Names : S # {} /\ \A n \in S : Deps(n) \cap S # {}

\* A graph is refused exactly when it has a cycle, whatever order the maps are
\* walked in, with names listed twice or declared by nobody (validateDAG,
\* detectCycleInDependencies).  What the plan accepts is sorted, each name behind
\* all it waits for; the cycle shown with a refusal closes, and each name on it
\* lists the next in its blocked_by (findCyclePath, detectCycleDFS).
VerdictIsRight ==
    /\ verdict = "refused" =>
         /\ Len(path) > 1 /\ path[1] = path[Len(path)]
         /\ \A i \in 1 .. (Len(path) - 1) : path[i + 1] \in Deps(path[i])
    /\ verdict = "accepted" =>
         /\ ~Cyclic
         /\ caller = "plan" =>
              \A i \in DOMAIN sorted :
                Deps(sorted[i]) \cap Names \subseteq {sorted[j] : j \in 1 .. (i - 1)}
=============================================================================
