------------------------ MODULE WorkflowGraphProofs ------------------------
(***************************************************************************)
(* The search for cycles keeps to a path and its verdict is right, on      *)
(* every graph and in every order of the keys and of the dependencies.     *)
(***************************************************************************)
EXTENDS WorkflowGraph, SequenceTheorems, TLAPS

(* Nodes depend on nodes of the graph.                                     *)
Closed(g) == \A n \in DOMAIN g : g[n] \subseteq DOMAIN g

Frame(g) == [node : DOMAIN g, left : SUBSET DOMAIN g]

(* calls are on a path of g, and what an active call has behind it is      *)
(* finished, but for the node it calls, or is about to: the one in next.   *)
Path(g, col, calls, next) ==
    /\ calls \in Seq(Frame(g))
    /\ \A i \in 1 .. Len(calls) : calls[i].left \subseteq g[calls[i].node]
    /\ \A n \in DOMAIN g :
        col[n] = "visiting" <=> \E i \in 1 .. Len(calls) : n = calls[i].node
    /\ \A i, j \in 1 .. Len(calls) :
        /\ i < j => calls[i].node # calls[j].node
        /\ j = i + 1 => calls[j].node \in g[calls[i].node] \ calls[i].left
    /\ \A i \in 1 .. Len(calls) :
        \A d \in g[calls[i].node] \ calls[i].left :
            \/ col[d] = "visited"
            \/ i < Len(calls) /\ d = calls[i + 1].node
            \/ i = Len(calls) /\ d \in next

Coloured(g, col) ==
    /\ Closed(g)
    /\ col \in [DOMAIN g -> {"unvisited", "visiting", "visited"}]
    /\ \A n \in DOMAIN g : col[n] = "visited" => \A d \in g[n] : col[d] = "visited"

(* The finished nodes are without a cycle.                                 *)
FinishedAcyclic(g, col) ==
    \A S \in SUBSET DOMAIN g :
        S # {} /\ (\A n \in S : col[n] = "visited") => \E n \in S : g[n] \cap S = {}

SearchInvariant ==
    /\ graph # NoGraph => Closed(graph)
    /\ spawn = NoGraph => frames = << >>
    /\ spawn # NoGraph =>
        /\ graph # NoGraph /\ graph # spawn
        /\ Coloured(spawn, colour)
        /\ FinishedAcyclic(spawn, colour)
        /\ Path(spawn, colour, frames, {})
        /\ \A n \in ranged : colour[n] # "unvisited"

Verdict == spawn # NoGraph /\ spawn' = NoGraph => (graph' = spawn <=> Acyclic(spawn))

(* A call's dependencies that were taken are finished, or the last of them *)
(* is the next call: without that, a node that is left could not be said   *)
(* to have all it depends on behind it.  A node met again while it is      *)
(* visited closes a cycle of the calls from it on; and finishing a node    *)
(* closes none, for the finished nodes do not depend on it (hasCycle).     *)
LEMMA SearchStep ==
    SearchInvariant /\ [Next]_vars => SearchInvariant' /\ Verdict
<1> SUFFICES ASSUME SearchInvariant, [Next]_vars
             PROVE  SearchInvariant' /\ Verdict
  OBVIOUS
<1>1. CASE StartRun
  <2>1. PICK ids \in Lists(SubmittedIds) :
            \E deps \in [DOMAIN ids -> SUBSET Ids] :
              DependenciesKnown(ids, deps, {}) /\ graph' = Extended(<< >>, ids, deps)
    BY <1>1 DEF StartRun
  <2>2. PICK deps \in [DOMAIN ids -> SUBSET Ids] :
            DependenciesKnown(ids, deps, {}) /\ graph' = Extended(<< >>, ids, deps)
    BY <2>1
  <2>3. Closed(graph')
    BY <2>2 DEF Closed, Extended, DependenciesKnown, Range
  <2> QED BY <1>1, <2>3 DEF StartRun, SearchInvariant, Verdict
<1>2. CASE CompleteTask
  <2> DEFINE Spawned(ids) ==
          /\ NewIds(ids, graph)
          /\ \E deps \in [DOMAIN ids -> SUBSET Ids] :
              /\ DependenciesKnown(ids, deps, DOMAIN graph)
              /\ spawn' = Extended(graph, ids, deps)
  <2>0. PICK items \in Lists(Ids \cup {NoId}) : Spawned(ExpandFanOut(items))
    BY <1>2 DEF CompleteTask
  <2> DEFINE ids == ExpandFanOut(items)
  <2>1. NewIds(ids, graph) /\ 1 \in DOMAIN ids
    <3>1. 1 \in DOMAIN items
      BY GraphAssumption DEF Lists
    <3> QED BY <2>0, <3>1 DEF ExpandFanOut
  <2> HIDE DEF ids
  <2>2. PICK deps \in [DOMAIN ids -> SUBSET Ids] :
            DependenciesKnown(ids, deps, DOMAIN graph) /\ spawn' = Extended(graph, ids, deps)
    BY <2>0 DEF ids
  <2>3. Closed(graph)
    BY <1>2 DEF CompleteTask, SearchInvariant
  <2>4. Closed(spawn')
    BY <2>2, <2>3 DEF Closed, Extended, DependenciesKnown, Range
  <2>5. frames' = << >> /\ graph' = graph /\ colour' = [n \in DOMAIN spawn' |-> "unvisited"]
    BY <1>2 DEF CompleteTask
  <2>6. Path(spawn', colour', frames', {})
    BY <2>5 DEF Path
  <2>7. spawn' # graph
    <3>1. ids[1] \in DOMAIN spawn' /\ ids[1] \notin DOMAIN graph
      BY <2>1, <2>2 DEF NewIds, Extended, Range
    <3> QED BY <3>1
  <2>8. Coloured(spawn', colour') /\ FinishedAcyclic(spawn', colour')
    BY <2>4, <2>5 DEF Coloured, FinishedAcyclic
  <2>9. graph # NoGraph /\ spawn = NoGraph /\ ranged' = {}
    BY <1>2 DEF CompleteTask
  <2> QED BY <2>3, <2>5, <2>6, <2>7, <2>8, <2>9 DEF SearchInvariant, Verdict
<1>3. ASSUME NEW accepted \in BOOLEAN, Decide(accepted), spawn # NoGraph,
             accepted <=> Acyclic(spawn)
      PROVE  SearchInvariant' /\ Verdict
  <2>1. Closed(graph) /\ Closed(spawn) /\ graph # spawn
    BY <1>3 DEF SearchInvariant, Coloured
  <2>2. spawn' = NoGraph /\ frames' = << >> /\ graph' = IF accepted THEN spawn ELSE graph
    BY <1>3 DEF Decide
  <2> QED BY <1>3, <2>1, <2>2 DEF SearchInvariant, Verdict
<1>4. ASSUME spawn # NoGraph, NEW n \in DOMAIN spawn, NEW calls,
             Path(spawn, colour, calls, {n}),
             calls # << >> => n \in spawn[calls[Len(calls)].node] \ calls[Len(calls)].left,
             Visit(n, calls),
             spawn' # NoGraph => ranged' \subseteq ranged \cup {n}
      PROVE  SearchInvariant' /\ Verdict
  <2>1. Coloured(spawn, colour) /\ FinishedAcyclic(spawn, colour)
    BY <1>4 DEF SearchInvariant
  <2>2. CASE colour[n] = "visiting"
    <3>1. calls \in Seq(Frame(spawn)) /\ Len(calls) \in Nat
      BY <1>4, LenProperties DEF Path
    <3>2. \A i \in 1 .. Len(calls) : calls[i].node \in DOMAIN spawn
      <4>1. \A i \in 1 .. Len(calls) : calls[i] \in Frame(spawn)
        BY <3>1, ElementOfSeq
      <4> QED BY <4>1 DEF Frame
    <3>3. PICK k \in 1 .. Len(calls) : n = calls[k].node
      BY <1>4, <2>2 DEF Path
    <3> DEFINE S == {calls[i].node : i \in k .. Len(calls)}
    <3>4. S \in SUBSET DOMAIN spawn /\ n \in S
      BY <3>1, <3>2, <3>3
    <3>5. ASSUME NEW i \in k .. Len(calls)
          PROVE  spawn[calls[i].node] \cap S # {}
      <4>1. CASE i = Len(calls)
        <5>1. n \in spawn[calls[i].node]
          BY <1>4, <3>1, <3>5, <4>1
        <5> QED BY <3>4, <5>1
      <4>2. CASE i # Len(calls)
        <5>1. i \in 1 .. Len(calls) /\ i + 1 \in 1 .. Len(calls) /\ i + 1 \in k .. Len(calls)
          BY <3>1, <3>5, <4>2
        <5>2. calls[i + 1].node \in spawn[calls[i].node]
          BY <1>4, <5>1 DEF Path
        <5> QED BY <5>1, <5>2
      <4> QED BY <4>1, <4>2
    <3>6. \A m \in S : spawn[m] \cap S # {}
      BY <3>5
    <3> HIDE DEF S
    <3>7. ~ Acyclic(spawn)
      BY <3>4, <3>6 DEF Acyclic
    <3>8. Decide(FALSE)
      BY <1>4, <2>2 DEF Visit
    <3> QED BY <1>3, <1>4, <3>7, <3>8
  <2>3. CASE colour[n] = "visited"
    <3>1. frames' = calls /\ UNCHANGED <<graph, spawn, colour>>
      BY <1>4, <2>3 DEF Visit
    <3>2. Path(spawn, colour, calls, {})
      BY <1>4, <2>3 DEF Path
    <3> QED BY <1>4, <2>1, <2>3, <3>1, <3>2 DEF SearchInvariant, Verdict
  <2>4. CASE colour[n] = "unvisited"
    <3>1. /\ colour' = [colour EXCEPT ![n] = "visiting"]
          /\ frames' = Append(calls, [node |-> n, left |-> spawn[n]])
          /\ UNCHANGED <<graph, spawn>>
      BY <1>4, <2>4 DEF Visit, Call
    <3>2. Coloured(spawn', colour')
      BY <2>1, <2>4, <3>1 DEF Coloured, Closed
    <3>3. /\ calls \in Seq(Frame(spawn))
          /\ [node |-> n, left |-> spawn[n]] \in Frame(spawn)
      BY <1>4, <2>1 DEF Path, Coloured, Closed, Frame
    <3>4. /\ frames' \in Seq(Frame(spawn))
          /\ Len(calls) \in Nat /\ Len(frames') = Len(calls) + 1
          /\ \A i \in 1 .. Len(calls) : frames'[i] = calls[i]
          /\ frames'[Len(calls) + 1] = [node |-> n, left |-> spawn[n]]
      BY <3>1, <3>3, AppendProperties, LenProperties
    <3>5. \A i \in 1 .. Len(calls) : calls[i].node # n /\ calls[i].node \in DOMAIN spawn
      <4>1. ASSUME NEW i \in 1 .. Len(calls)
            PROVE  calls[i].node \in DOMAIN spawn
        <5>1. calls[i] \in Frame(spawn)
          BY <3>3, <4>1, ElementOfSeq
        <5> QED BY <5>1 DEF Frame
      <4>2. ASSUME NEW i \in 1 .. Len(calls)
            PROVE  colour[calls[i].node] = "visiting"
        BY <1>4, <4>1, <4>2 DEF Path
      <4> QED BY <2>4, <4>1, <4>2
    <3>6. ASSUME NEW m \in DOMAIN spawn
          PROVE  colour'[m] = "visiting" <=> \E i \in 1 .. Len(frames') : m = frames'[i].node
      <4>1. colour[m] = "visiting" <=> \E i \in 1 .. Len(calls) : m = calls[i].node
        BY <1>4, <3>6 DEF Path
      <4>2. colour'[m] = IF m = n THEN "visiting" ELSE colour[m]
        BY <2>1, <3>1 DEF Coloured
      <4> QED BY <3>4, <4>1, <4>2
    <3>7. ASSUME NEW i \in 1 .. Len(frames'), NEW j \in 1 .. Len(frames')
          PROVE  /\ i < j => frames'[i].node # frames'[j].node
                 /\ j = i + 1 => frames'[j].node \in spawn[frames'[i].node] \ frames'[i].left
      <4>1. CASE j \in 1 .. Len(calls)
        BY <1>4, <3>4, <3>7, <4>1 DEF Path
      <4>2. CASE j = Len(calls) + 1
        <5>1. i < j => i \in 1 .. Len(calls)
          BY <3>4, <3>7, <4>2
        <5>2. j = i + 1 => calls # << >> /\ i = Len(calls)
          BY <3>4, <3>7, <4>2
        <5> QED BY <1>4, <3>4, <3>5, <4>2, <5>1, <5>2
      <4> QED BY <3>4, <3>7, <4>1, <4>2
    <3>8. ASSUME NEW i \in 1 .. Len(frames'), NEW d \in spawn[frames'[i].node] \ frames'[i].left
          PROVE  colour'[d] = "visited" \/ (i < Len(frames') /\ d = frames'[i + 1].node)
      <4>1. CASE i = Len(calls) + 1
        BY <3>4, <3>8, <4>1
      <4>2. CASE i \in 1 .. Len(calls)
        <5>1. \/ colour[d] = "visited"
              \/ i < Len(calls) /\ d = calls[i + 1].node
              \/ i = Len(calls) /\ d = n
          BY <1>4, <3>4, <3>8, <4>2 DEF Path
        <5>2. ASSUME colour[d] = "visited"
              PROVE  colour'[d] = "visited"
          BY <2>1, <2>4, <3>1, <5>2 DEF Coloured
        <5>3. i + 1 \in 1 .. Len(frames')
          BY <3>4, <4>2
        <5> QED BY <3>4, <4>2, <5>1, <5>2, <5>3
      <4> QED BY <3>4, <3>8, <4>1, <4>2
    <3>9. Path(spawn, colour', frames', {})
      <4>1. \A i \in 1 .. Len(frames') : frames'[i].left \subseteq spawn[frames'[i].node]
        BY <1>4, <3>4 DEF Path
      <4> QED BY <3>4, <3>6, <3>7, <3>8, <4>1 DEF Path
    <3>10. FinishedAcyclic(spawn, colour')
      <4>1. \A m \in DOMAIN spawn : colour'[m] = "visited" => colour[m] = "visited"
        BY <2>1, <3>1 DEF Coloured
      <4> QED BY <2>1, <4>1 DEF FinishedAcyclic
    <3>11. \A m \in ranged' : colour'[m] # "unvisited"
      BY <1>4, <2>1, <3>1 DEF SearchInvariant, Coloured
    <3> QED BY <1>4, <3>1, <3>2, <3>9, <3>10, <3>11 DEF SearchInvariant, Verdict
  <2> QED BY <1>4, <2>1, <2>2, <2>3, <2>4 DEF Coloured
<1>5. CASE VisitKey
  <2>1. PICK n \in DOMAIN spawn :
            Visit(n, << >>) /\ (spawn' # NoGraph => ranged' = ranged \cup {n})
    BY <1>5 DEF VisitKey
  <2>2. spawn # NoGraph /\ frames = << >>
    BY <1>5 DEF VisitKey
  <2>3. Path(spawn, colour, << >>, {n})
    BY <2>2 DEF SearchInvariant, Path
  <2> QED BY <1>4, <2>1, <2>2, <2>3
<1>6. ASSUME spawn # NoGraph, frames # << >>
      PROVE  /\ Len(frames) \in Nat \ {0}
             /\ \A i \in 1 .. Len(frames) : frames[i] \in Frame(spawn)
             /\ Top = frames[Len(frames)] /\ Top \in Frame(spawn)
             /\ Front(frames) \in Seq(Frame(spawn))
             /\ Len(Front(frames)) = Len(frames) - 1
             /\ \A i \in 1 .. Len(frames) - 1 : Front(frames)[i] = frames[i]
  <2>1. frames \in Seq(Frame(spawn))
    BY <1>6 DEF SearchInvariant, Path
  <2>2. Len(frames) \in Nat \ {0}
    BY <1>6, <2>1, EmptySeq
  <2>3. \A i \in 1 .. Len(frames) : frames[i] \in Frame(spawn)
    BY <2>1, ElementOfSeq
  <2>4. Top = frames[Len(frames)] /\ Top \in Frame(spawn)
    BY <2>2, <2>3 DEF Top, Last
  <2>5. /\ Front(frames) \in Seq(Frame(spawn))
        /\ Len(Front(frames)) = Len(frames) - 1
        /\ \A i \in 1 .. Len(frames) - 1 : Front(frames)[i] = frames[i]
    <3>1. PICK k \in Nat : Len(frames) = k + 1
      <4>1. Len(frames) - 1 \in Nat /\ Len(frames) = (Len(frames) - 1) + 1
        BY <2>2
      <4> QED BY <4>1
    <3>2. \A i \in 1 .. k : frames[i] \in Frame(spawn)
      BY <2>3, <3>1
    <3>3. /\ SubSeq(frames, 1, k) \in Seq(Frame(spawn))
          /\ Len(SubSeq(frames, 1, k)) = IF 1 <= k THEN k - 1 + 1 ELSE 0
          /\ \A i \in 1 .. k - 1 + 1 : SubSeq(frames, 1, k)[i] = frames[1 + i - 1]
      BY <3>2, SubSeqProperties
    <3>4. Len(frames) - 1 = k
      BY <3>1
    <3>5. Front(frames) = SubSeq(frames, 1, k)
      BY <3>4 DEF Front
    <3>6. k - 1 + 1 = k /\ (~(1 <= k) => k = 0) /\ \A i \in 1 .. k : 1 + i - 1 = i
      OBVIOUS
    <3> QED BY <3>3, <3>4, <3>5, <3>6
  <2> QED BY <2>2, <2>3, <2>4, <2>5
<1>7. CASE VisitDependency
  <2> DEFINE calls(d) == Append(Front(frames), [Top EXCEPT !.left = @ \ {d}])
  <2>1. PICK d \in Top.left : Visit(d, calls(d)) /\ (spawn' # NoGraph => ranged' = ranged)
    BY <1>7 DEF VisitDependency
  <2>2. spawn # NoGraph /\ frames # << >>
    BY <1>7 DEF VisitDependency, SearchInvariant
  <2>3. Coloured(spawn, colour) /\ Path(spawn, colour, frames, {})
    BY <2>2 DEF SearchInvariant
  <2> DEFINE top == [Top EXCEPT !.left = @ \ {d}]
  <2>4. top \in Frame(spawn) /\ top.node = Top.node /\ top.left = Top.left \ {d}
    BY <1>6, <2>2 DEF Frame
  <2> HIDE DEF top
  <2>5. /\ calls(d) \in Seq(Frame(spawn))
        /\ Len(calls(d)) = Len(frames)
        /\ \A i \in 1 .. Len(frames) - 1 : calls(d)[i] = frames[i]
        /\ calls(d)[Len(frames)] = top
    <3>1. calls(d) = Append(Front(frames), top)
      BY DEF top
    <3> HIDE DEF calls
    <3> QED BY <1>6, <2>2, <2>4, <3>1, AppendProperties
  <2> HIDE DEF calls
  <2>6. \A i \in 1 .. Len(frames) :
          /\ calls(d)[i].node = frames[i].node
          /\ calls(d)[i].left = frames[i].left \ (IF i = Len(frames) THEN {d} ELSE {})
    BY <1>6, <2>2, <2>4, <2>5
  <2>7. d \in DOMAIN spawn /\ d \in spawn[Top.node] \ top.left
    <3>1. Top.left \subseteq spawn[Top.node]
      BY <1>6, <2>2, <2>3 DEF Path
    <3> QED BY <1>6, <2>1, <2>2, <2>4, <3>1 DEF Frame
  <2>8. ASSUME NEW i \in 1 .. Len(frames), NEW e \in spawn[calls(d)[i].node] \ calls(d)[i].left
         PROVE  \/ colour[e] = "visited"
                \/ i < Len(frames) /\ e = calls(d)[i + 1].node
                \/ i = Len(frames) /\ e \in {d}
    <3>1. CASE e \in spawn[frames[i].node] \ frames[i].left
      <4>1. \/ colour[e] = "visited"
            \/ i < Len(frames) /\ e = frames[i + 1].node
        BY <2>3, <2>8, <3>1 DEF Path
      <4> QED BY <1>6, <2>2, <2>6, <2>8, <4>1
    <3>2. CASE i = Len(frames) /\ e = d
      BY <3>2
    <3> QED BY <2>6, <2>8, <3>1, <3>2
  <2>9. Path(spawn, colour, calls(d), {d})
    <3>1. \A i \in 1 .. Len(frames) : calls(d)[i].left \subseteq spawn[calls(d)[i].node]
      BY <2>3, <2>6 DEF Path
    <3>2. ASSUME NEW n \in DOMAIN spawn
          PROVE  colour[n] = "visiting" <=> \E i \in 1 .. Len(frames) : n = calls(d)[i].node
      BY <2>3, <2>6, <3>2 DEF Path
    <3>3. ASSUME NEW i \in 1 .. Len(frames), NEW j \in 1 .. Len(frames)
          PROVE  /\ i < j => calls(d)[i].node # calls(d)[j].node
                 /\ j = i + 1 => calls(d)[j].node \in spawn[calls(d)[i].node] \ calls(d)[i].left
      BY <2>3, <2>6, <3>3 DEF Path
    <3> QED BY <2>5, <2>8, <3>1, <3>2, <3>3 DEF Path
  <2>10. calls(d)[Len(calls(d))].node = Top.node /\ calls(d)[Len(calls(d))].left = top.left
    BY <2>4, <2>5
  <2> QED BY <1>4, <2>1, <2>2, <2>7, <2>9, <2>10
<1>8. CASE Return
  <2>1. /\ Top.left = {}
        /\ colour' = [colour EXCEPT ![Top.node] = "visited"]
        /\ frames' = Front(frames)
        /\ UNCHANGED <<graph, spawn, ranged>>
    BY <1>8 DEF Return
  <2>2. spawn # NoGraph /\ frames # << >>
    BY <1>8 DEF Return, SearchInvariant
  <2>3. Coloured(spawn, colour) /\ Path(spawn, colour, frames, {})
    BY <2>2 DEF SearchInvariant
  <2>4. Top.node \in DOMAIN spawn
    BY <1>6, <2>2 DEF Frame
  <2>5. \A n \in DOMAIN spawn : colour'[n] = IF n = Top.node THEN "visited" ELSE colour[n]
    BY <2>1, <2>3 DEF Coloured
  <2>6. \A d \in spawn[Top.node] : colour[d] = "visited"
    BY <1>6, <2>1, <2>2, <2>3 DEF Path
  <2>7. Coloured(spawn, colour')
    <3>1. ASSUME NEW n \in DOMAIN spawn, colour'[n] = "visited", NEW d \in spawn[n]
          PROVE  colour'[d] = "visited"
      BY <2>3, <2>5, <2>6, <3>1 DEF Coloured, Closed
    <3>2. colour' \in [DOMAIN spawn -> {"unvisited", "visiting", "visited"}]
      BY <2>1, <2>3 DEF Coloured
    <3> QED BY <2>3, <3>1, <3>2 DEF Coloured
  <2>8. \A i \in 1 .. Len(frames) - 1 :
          /\ i \in 1 .. Len(frames) /\ i + 1 \in 1 .. Len(frames)
          /\ frames[i].node # Top.node /\ frames'[i] = frames[i]
          /\ frames[i].node \in DOMAIN spawn
    BY <1>6, <2>1, <2>2, <2>3 DEF Path, Frame
  <2>9. ASSUME NEW n \in DOMAIN spawn
        PROVE  colour'[n] = "visiting" <=> \E i \in 1 .. Len(frames) - 1 : n = frames'[i].node
    <3>1. colour[n] = "visiting" <=> \E i \in 1 .. Len(frames) : n = frames[i].node
      BY <2>3, <2>9 DEF Path
    <3> QED BY <1>6, <2>2, <2>5, <2>8, <3>1
  <2>10. ASSUME NEW i \in 1 .. Len(frames) - 1, NEW d \in spawn[frames'[i].node] \ frames'[i].left
         PROVE  colour'[d] = "visited" \/ (i < Len(frames) - 1 /\ d = frames'[i + 1].node)
    <3>1. d \in DOMAIN spawn
      BY <2>3, <2>8, <2>10 DEF Coloured, Closed
    <3>2. colour[d] = "visited" \/ d = frames[i + 1].node
      BY <2>3, <2>8, <2>10 DEF Path
    <3>3. CASE i = Len(frames) - 1 /\ d = frames[i + 1].node
      BY <1>6, <2>2, <2>5, <3>1, <3>3
    <3>4. CASE i # Len(frames) - 1 /\ d = frames[i + 1].node
      BY <1>6, <2>2, <2>8, <3>4
    <3> QED BY <2>5, <3>1, <3>2, <3>3, <3>4
  <2>11. Path(spawn, colour', frames', {})
    <3>1. frames' \in Seq(Frame(spawn)) /\ Len(frames') = Len(frames) - 1
      BY <1>6, <2>1, <2>2
    <3>2. \A i \in 1 .. Len(frames) - 1 : frames'[i].left \subseteq spawn[frames'[i].node]
      BY <2>3, <2>8 DEF Path
    <3>3. ASSUME NEW i \in 1 .. Len(frames) - 1, NEW j \in 1 .. Len(frames) - 1
          PROVE  /\ i < j => frames'[i].node # frames'[j].node
                 /\ j = i + 1 => frames'[j].node \in spawn[frames'[i].node] \ frames'[i].left
      <4>1. i \in 1 .. Len(frames) /\ j \in 1 .. Len(frames)
        BY <2>8, <3>3
      <4>2. /\ i < j => frames[i].node # frames[j].node
            /\ j = i + 1 => frames[j].node \in spawn[frames[i].node] \ frames[i].left
        BY <2>3, <4>1 DEF Path
      <4>3. frames'[i] = frames[i] /\ frames'[j] = frames[j]
        BY <2>8, <3>3
      <4> QED BY <4>2, <4>3
    <3> QED BY <2>9, <2>10, <3>1, <3>2, <3>3 DEF Path
  <2>12. ASSUME NEW S \in SUBSET DOMAIN spawn, S # {}, \A n \in S : colour'[n] = "visited"
         PROVE  \E n \in S : spawn[n] \cap S = {}
    <3> DEFINE T == S \ {Top.node}
    <3>1. \A n \in T : colour[n] = "visited"
      BY <2>5, <2>12
    <3>2. colour[Top.node] # "visited"
      BY <1>6, <2>2, <2>3, <2>4 DEF Path
    <3>3. CASE T = {}
      BY <2>6, <2>12, <3>2, <3>3
    <3>4. CASE T # {}
      <4>1. PICK n \in T : spawn[n] \cap T = {}
        BY <2>2, <3>1, <3>4 DEF SearchInvariant, FinishedAcyclic
      <4>2. Top.node \notin spawn[n]
        BY <2>3, <3>1, <3>2, <4>1 DEF Coloured
      <4> QED BY <4>1, <4>2
    <3> QED BY <3>3, <3>4
  <2>13. FinishedAcyclic(spawn, colour')
    BY <2>12 DEF FinishedAcyclic
  <2>14. \A n \in ranged' : colour'[n] # "unvisited"
    BY <2>1, <2>2, <2>3 DEF SearchInvariant, Coloured
  <2> QED BY <2>1, <2>2, <2>7, <2>11, <2>13, <2>14 DEF SearchInvariant, Verdict
<1>9. CASE NoCycle
  <2>1. spawn # NoGraph /\ frames = << >> /\ ranged = DOMAIN spawn /\ Decide(TRUE)
    BY <1>9 DEF NoCycle
  <2>2. \A n \in DOMAIN spawn : colour[n] = "visited"
    <3>1. \A n \in DOMAIN spawn : colour[n] # "visiting"
      BY <2>1 DEF SearchInvariant, Path
    <3> QED BY <2>1, <3>1 DEF SearchInvariant, Coloured
  <2>3. Acyclic(spawn)
    BY <2>1, <2>2 DEF SearchInvariant, FinishedAcyclic, Acyclic
  <2> QED BY <1>3, <2>1, <2>3
<1>10. CASE UNCHANGED vars
  BY <1>10 DEF vars, SearchInvariant, Closed, Path, Coloured, FinishedAcyclic, Verdict
<1> QED BY <1>1, <1>2, <1>5, <1>7, <1>8, <1>9, <1>10 DEF Next

(* The nodes being visited are the active calls, on a path, and a node is  *)
(* finished after all it depends on (hasCycle's visit), whatever was       *)
(* submitted and spawned before.                                           *)
THEOREM SearchKeepsToAPath == Spec => []FramesAreAPath
<1>1. SearchInvariant => FramesAreAPath
  <2> SUFFICES ASSUME SearchInvariant, spawn # NoGraph
               PROVE  FramesAreAPath
    BY DEF FramesAreAPath
  <2>1. DOMAIN frames = 1 .. Len(frames) /\ \A i \in DOMAIN frames : frames[i].node \in DOMAIN spawn
    <3>1. frames \in Seq(Frame(spawn))
      BY DEF SearchInvariant, Path
    <3>2. \A i \in 1 .. Len(frames) : frames[i] \in Frame(spawn)
      BY <3>1, ElementOfSeq
    <3> QED BY <3>1, <3>2, LenProperties DEF Frame
  <2>2. {n \in DOMAIN spawn : colour[n] = "visiting"} = {frames[i].node : i \in DOMAIN frames}
    BY <2>1 DEF SearchInvariant, Path
  <2> QED BY <2>1, <2>2 DEF FramesAreAPath, SearchInvariant, Path, Coloured
<1>2. Init => SearchInvariant
  BY DEF Init, SearchInvariant
<1> QED BY <1>1, <1>2, SearchStep, PTL DEF Spec

(* hasCycle decides right: whatever was submitted and spawned before, and  *)
(* in whatever order keys and dependencies come, a spawn is accepted if    *)
(* the graph with it has no cycle, and refused if it has one.              *)
THEOREM VerdictCorrect == Spec => VerdictIsRight
<1>1. Init => SearchInvariant
  BY DEF Init, SearchInvariant
<1>2. Verdict => (spawn # NoGraph /\ spawn' = NoGraph => (graph' = spawn) = Acyclic(spawn))
  BY DEF Verdict, Acyclic
<1> QED BY <1>1, <1>2, SearchStep, PTL DEF Spec, VerdictIsRight
=============================================================================
