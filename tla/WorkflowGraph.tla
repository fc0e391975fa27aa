--------------------------- MODULE WorkflowGraph ---------------------------
(***************************************************************************)
(* The dependency graph of one run: the definition it is submitted with    *)
(* (internal/workflowdef/loader.go), the nodes that completions spawn,     *)
(* listed by hand or by sdk/fanout.go, and the depth-first search that     *)
(* decides on them (normalizeSpawnedNodes, hasCycle in                     *)
(* internal/engine/engine.go).                                             *)
(*                                                                         *)
(* The search takes keys and dependencies in any order: map iteration has  *)
(* none, and the order within DependsOn is the author's.  A refused        *)
(* request changes nothing here; that the node fails is module Engine's.   *)
(* Left out: activity types, and the policies and deadlines that           *)
(* NormalizeNode copies.                                                   *)
(***************************************************************************)
EXTENDS Naturals, FiniteSets, SequencesExt

CONSTANTS
    Ids,          \* node ids
    Generated,    \* Generated[i]: "<prefix>-<i>"
    NoId,         \* an item without an id
    NoGraph,
    SubmittedIds, \* bound: ids the submitted definition may use
    MaxItems      \* bound: nodes of one definition or spawn request

ASSUME GraphAssumption ==
    /\ IsFiniteSet(Ids) /\ NoId \notin Ids /\ SubmittedIds \subseteq Ids
    /\ MaxItems \in Nat
    /\ Generated \in [1 .. MaxItems -> Ids] /\ IsInjective(Generated)

VARIABLES
    graph,   \* the run's nodes, each with what it depends on
    spawn,   \* the graph with the nodes to be spawned, while it is searched
    ranged,  \* the keys hasCycle has taken
    colour,  \* stateByNode
    frames   \* the active calls of visit, each with the dependencies left

vars == <<graph, spawn, ranged, colour, frames>>

Init ==
    /\ graph = NoGraph
    /\ spawn = NoGraph
    /\ ranged = {}
    /\ colour = << >>
    /\ frames = << >>

-----------------------------------------------------------------------------
(* Requests *)

Lists(ids) == UNION {[1 .. k -> ids] : k \in 1 .. MaxItems}

Distinct(ids) == IsInjective(ids)

(* ExpandFanOut: items without an id get a generated one.                  *)
ExpandFanOut(items) == [i \in DOMAIN items |-> IF items[i] = NoId THEN Generated[i] ELSE items[i]]

(* Dependencies are other nodes, old or new.                               *)
DependenciesKnown(ids, deps, known) ==
    \A i \in DOMAIN ids : deps[i] \subseteq (known \cup Range(ids)) \ {ids[i]}

NewIds(ids, g) == Distinct(ids) /\ Range(ids) \cap DOMAIN g = {}

Extended(g, ids, deps) ==
    [n \in DOMAIN g \cup Range(ids) |->
        IF n \in Range(ids) THEN deps[CHOOSE i \in DOMAIN ids : ids[i] = n] ELSE g[n]]

(* Normalize does not look for cycles.                                     *)
StartRun ==
    /\ graph = NoGraph
    /\ \E ids \in Lists(SubmittedIds) :
        /\ Distinct(ids)
        /\ \E deps \in [DOMAIN ids -> SUBSET Ids] :
            /\ DependenciesKnown(ids, deps, {})
            /\ graph' = Extended(<< >>, ids, deps)
    /\ UNCHANGED <<spawn, ranged, colour, frames>>

CompleteTask ==
    /\ graph # NoGraph
    /\ spawn = NoGraph
    /\ \E items \in Lists(Ids \cup {NoId}) :
        LET ids == ExpandFanOut(items)
        IN  /\ NewIds(ids, graph)
            /\ \E deps \in [DOMAIN ids -> SUBSET Ids] :
                /\ DependenciesKnown(ids, deps, DOMAIN graph)
                /\ spawn' = Extended(graph, ids, deps)
    /\ ranged' = {}
    /\ colour' = [n \in DOMAIN spawn' |-> "unvisited"]
    /\ frames' = << >>
    /\ UNCHANGED graph

-----------------------------------------------------------------------------
(* hasCycle *)

Decide(accepted) ==
    /\ graph' = IF accepted THEN spawn ELSE graph
    /\ spawn' = NoGraph
    /\ ranged' = {}
    /\ colour' = << >>
    /\ frames' = << >>

Call(n, calls) ==
    /\ colour' = [colour EXCEPT ![n] = "visiting"]
    /\ frames' = Append(calls, [node |-> n, left |-> spawn[n]])
    /\ UNCHANGED <<graph, spawn>>

(* Mutation: a node met again closes a cycle, finished or not.             *)
VisitOnce(n, calls) ==
    CASE colour[n] = "unvisited" -> Call(n, calls)
      [] OTHER                   -> Decide(FALSE)

(* visit(n), called from the innermost of calls.                           *)
Visit(n, calls) ==
    CASE colour[n] = "visiting"  -> Decide(FALSE)
      [] colour[n] = "visited"   -> frames' = calls /\ UNCHANGED <<graph, spawn, colour>>
      [] colour[n] = "unvisited" -> Call(n, calls)

VisitKey ==
    /\ spawn # NoGraph
    /\ frames = << >>
    /\ \E n \in DOMAIN spawn \ ranged :
        /\ Visit(n, << >>)
        /\ spawn' # NoGraph => ranged' = ranged \cup {n}

Top == Last(frames)

VisitDependency ==
    /\ frames # << >>
    /\ \E d \in Top.left :
        /\ Visit(d, Append(Front(frames), [Top EXCEPT !.left = @ \ {d}]))
        /\ spawn' # NoGraph => ranged' = ranged

(* Mutation: a node left behind is not marked as finished.                 *)
ReturnUnmarked ==
    /\ frames # << >>
    /\ Top.left = {}
    /\ frames' = Front(frames)
    /\ UNCHANGED <<graph, spawn, ranged, colour>>

Return ==
    /\ frames # << >>
    /\ Top.left = {}
    /\ colour' = [colour EXCEPT ![Top.node] = "visited"]
    /\ frames' = Front(frames)
    /\ UNCHANGED <<graph, spawn, ranged>>

NoCycle ==
    /\ spawn # NoGraph
    /\ frames = << >>
    /\ ranged = DOMAIN spawn
    /\ Decide(TRUE)

Next == StartRun \/ CompleteTask \/ VisitKey \/ VisitDependency \/ Return \/ NoCycle

Spec == Init /\ [][Next]_vars

-----------------------------------------------------------------------------
(* Properties *)

Acyclic(g) == \A S \in SUBSET DOMAIN g : S # {} => \E n \in S : g[n] \cap S = {}

(* A spawn is accepted exactly if the graph with it has no cycle, in       *)
(* whatever order keys and dependencies are taken; module Engine's         *)
(* ValidSpawn rests on this (hasCycle).                                    *)
VerdictIsRight ==
    [][spawn # NoGraph /\ spawn' = NoGraph => (graph' = spawn) = Acyclic(spawn)]_vars

(* What makes the verdict right and bounds the recursion: the nodes being  *)
(* visited are those of the active calls, each depends on the next, and a  *)
(* node is finished only after all it depends on (hasCycle's visit).       *)
FramesAreAPath ==
    spawn # NoGraph =>
        /\ {n \in DOMAIN spawn : colour[n] = "visiting"} = {frames[i].node : i \in DOMAIN frames}
        /\ \A i, j \in DOMAIN frames :
            /\ i < j => frames[i].node # frames[j].node
            /\ j = i + 1 => frames[j].node \in spawn[frames[i].node] \ frames[i].left
        /\ \A n \in DOMAIN spawn :
            colour[n] = "visited" => \A d \in spawn[n] : colour[d] = "visited"

=============================================================================
