-------------------------- MODULE GraphAlgorithms --------------------------
(* The graph algorithms the compiler offers over a research project
   (src-tauri/src/graph_compiler/algorithms.rs and analysis.rs).  They are pure:
   a project and a request give an answer.  A project is
     nodes : identifier -> type,
     edges : identifier -> [source, target, type, directed, outcome, status],
   and a scenario hides nodes and edges and overrides fields of edges without
   touching the project.  Identifiers are naturals, so that the order the code
   sorts strings by is the order of the numbers; confidences, deltas and the
   wording of summaries are left out. *)
EXTENDS Integers, FiniteSets, SequencesExt

CONSTANTS
  Projects,      \* the projects asked about
  Scenarios,     \* the scenarios of a project, NoScenario excluded
  Depths,        \* the depth limits of traversals
  MaxPaths,      \* how many shortest paths are enumerated, 100 in the code
  NoScenario,
  NoParent

ASSUME GraphAssumption == MaxPaths \in Nat \ {0} /\ Depths \subseteq Nat

VARIABLES
  project,       \* the project the algorithms read
  answer         \* the last request with its answer, NoAnswer before the first

NoAnswer == [asked |-> "nothing"]

Nodes(p) == DOMAIN p.nodes
Unbounded(p) == Cardinality(Nodes(p)) + 1    \* stands for u32::MAX

Ascending(S) == SetToSortSeq(S, <)

-----------------------------------------------------------------------------
(* What a scenario leaves of the project *)

DisabledNodes(sc) == IF sc = NoScenario THEN {} ELSE sc.disabledNodeIds
DisabledEdges(sc) == IF sc = NoScenario THEN {} ELSE sc.disabledEdgeIds

Merged(p, sc, e) ==
  IF sc # NoScenario /\ e \in DOMAIN sc.edgeOverrides
  THEN [f \in DOMAIN p.edges[e] |-> IF f \in DOMAIN sc.edgeOverrides[e]
                                    THEN sc.edgeOverrides[e][f] ELSE p.edges[e][f]]
  ELSE p.edges[e]

ResolveEdges(p, sc) ==
  LET kept == {e \in DOMAIN p.edges :
                 /\ e \notin DisabledEdges(sc)
                 /\ Merged(p, sc, e).source \notin DisabledNodes(sc)
                 /\ Merged(p, sc, e).target \notin DisabledNodes(sc)}
  IN [e \in kept |-> Merged(p, sc, e)]

ResolvedNodeIds(p, sc) == Nodes(p) \ DisabledNodes(sc)

(* A type filter never hides the node the traversal starts from. *)
ActiveNodeIds(p, request) ==
  {n \in ResolvedNodeIds(p, request.scenario) :
     n = request.start \/ p.nodes[n] \in request.nodeTypes}

(* Mutant: a traversal that treats every edge as directed. *)
ArcsOneWay(edge, direction) ==
  CASE direction = "out"  -> { <<edge.source, edge.target>> }
    [] direction = "in"   -> { <<edge.target, edge.source>> }
    [] direction = "both" -> { <<edge.source, edge.target>>, <<edge.target, edge.source>> }

(* The ways an edge may be walked. *)
Arcs(edge, direction) ==
  LET along   == <<edge.source, edge.target>>
      against == <<edge.target, edge.source>>
  IN CASE ~edge.directed     -> {along, against}
       [] direction = "out"  -> {along}
       [] direction = "in"   -> {against}
       [] direction = "both" -> {along, against}

(* Pairs (node, edge) next to a node, in the order the code sorts them. *)
NeighborsAt(view, direction, active, current) ==
  SetToSortSeq({<<m, e>> \in active \X DOMAIN view :
                  <<current, m>> \in Arcs(view[e], direction)},
               LAMBDA a, b : a[1] < b[1] \/ (a[1] = b[1] /\ a[2] < b[2]))

-----------------------------------------------------------------------------
(* Bounded traversal *)

NoTraversal == [order |-> <<>>, edgeIds |-> <<>>, depth |-> <<>>, parent |-> <<>>,
                tree |-> <<>>, cross |-> {}, back |-> {}, stopped |-> <<>>]

Started(start) == [NoTraversal EXCEPT !.depth = start :> 0, !.parent = start :> NoParent]

UseEdge(r, e) ==
  IF e \in Range(r.edgeIds) THEN r ELSE [r EXCEPT !.edgeIds = Append(@, e)]

Discover(r, current, m, e) ==
  [r EXCEPT !.depth = @ @@ (m :> r.depth[current] + 1),
            !.parent = @ @@ (m :> current),
            !.tree = Append(@, e)]

(* Breadth first: a node is visited when it is put in the queue. *)
BfsMeet(s, current, m, e) ==
  LET used == [s EXCEPT !.r = UseEdge(@, e)]
  IN IF m \notin DOMAIN s.r.depth
     THEN [r |-> Discover(used.r, current, m, e), queue |-> Append(s.queue, m)]
     ELSE IF e \in Range(s.r.tree) THEN used
     ELSE [used EXCEPT !.r.cross = @ \union {e}]

(* A node at the limit is not expanded; it is named when it had more to show. *)
StopAt(r, current, list) ==
  IF \E i \in DOMAIN list : list[i][1] \notin DOMAIN r.depth
  THEN [r EXCEPT !.stopped = Append(@, current)] ELSE r

RECURSIVE Bfs(_, _, _)
Bfs(s, neighbors, maxDepth) ==
  IF s.queue = <<>> THEN s.r
  ELSE LET current == Head(s.queue)
           list == neighbors[current]
           seen == [r |-> [s.r EXCEPT !.order = Append(@, current)], queue |-> Tail(s.queue)]
       IN Bfs(IF s.r.depth[current] >= maxDepth
              THEN [seen EXCEPT !.r = StopAt(@, current, list)]
              ELSE FoldLeft(LAMBDA acc, pair : BfsMeet(acc, current, pair[1], pair[2]), seen, list),
              neighbors, maxDepth)

(* Depth first: a node is grey (in the order, not in done) while its subtree is
   walked.  Only the answer and the finished nodes are carried along. *)
RECURSIVE DfsVisit(_, _, _, _)
DfsVisit(s, current, neighbors, maxDepth) ==
  LET entered == [s EXCEPT !.r.order = Append(@, current)]
      Meet(acc, pair) ==
        LET m == pair[1]
            e == pair[2]
            used == [acc EXCEPT !.r = UseEdge(@, e)]
        IN IF m \notin DOMAIN acc.r.depth
           THEN DfsVisit([used EXCEPT !.r = Discover(@, current, m, e)], m, neighbors, maxDepth)
           ELSE IF m \notin acc.done THEN [used EXCEPT !.r.back = @ \union {e}]
           ELSE IF e \in Range(acc.r.tree) THEN used
           ELSE [used EXCEPT !.r.cross = @ \union {e}]
      left ==
        IF s.r.depth[current] < maxDepth THEN FoldLeft(Meet, entered, neighbors[current])
        ELSE [entered EXCEPT !.r = StopAt(@, current, neighbors[current])]
  IN [left EXCEPT !.done = @ \union {current}]

(* An edge of a type that is not asked for is not walked. *)
OfTypes(view, types) == Restrict(view, {e \in DOMAIN view : view[e].type \in types})

TraverseGraph(p, request) ==
  LET view   == OfTypes(ResolveEdges(p, request.scenario), request.edgeTypes)
      active == ActiveNodeIds(p, request)
      neighbors == [n \in active |-> NeighborsAt(view, request.direction, active, n)]
      begun  == Started(request.start)
  IN IF request.start \notin active THEN NoTraversal
     ELSE IF request.strategy = "bfs"
     THEN Bfs([r |-> begun, queue |-> <<request.start>>], neighbors, request.maxDepth)
     ELSE DfsVisit([r |-> begun, done |-> {}], request.start, neighbors, request.maxDepth).r

EdgeTypes(p) == {p.edges[e].type : e \in DOMAIN p.edges}

BfsRequest(p, start, sc) ==
  [start |-> start, strategy |-> "bfs", direction |-> "out", maxDepth |-> Unbounded(p),
   edgeTypes |-> EdgeTypes(p), nodeTypes |-> Range(p.nodes), scenario |-> sc]

-----------------------------------------------------------------------------
(* Paths *)

RECURSIVE PathTo(_, _)
PathTo(parent, n) == IF parent[n] = NoParent THEN <<n>> ELSE Append(PathTo(parent, parent[n]), n)

ShortestPath(p, source, target, sc) ==
  LET found == TraverseGraph(p, BfsRequest(p, source, sc))
  IN IF target \in DOMAIN found.parent THEN PathTo(found.parent, target) ELSE <<>>

(* The parents of every node on a shortest way from the source.  This search
   does not ask whether a node is active: the ends of the edges are enough. *)
RECURSIVE ShortestParents(_, _, _, _)
ShortestParents(outgoing, queue, distance, parents) ==
  IF queue = <<>> THEN parents
  ELSE LET current == Head(queue)
           next  == outgoing[current]
           fresh == next \ DOMAIN distance
           level == distance[current] + 1
           again == {n \in next \ fresh : distance[n] = level}
       IN ShortestParents(outgoing, Tail(queue) \o Ascending(fresh),
                          distance @@ [n \in fresh |-> level],
                          [n \in DOMAIN parents \union fresh |->
                             IF n \in fresh THEN {current}
                             ELSE IF n \in again THEN parents[n] \union {current}
                             ELSE parents[n]])

RECURSIVE PathsBack(_, _, _)
PathsBack(parents, source, n) ==
  IF n = source THEN << <<n>> >>
  ELSE LET back == [i \in 1..Cardinality(parents[n]) |->
                      PathsBack(parents, source, Ascending(parents[n])[i])]
           all  == FlattenSeq(back)
       IN [i \in DOMAIN all |-> Append(all[i], n)]

AllShortestPaths(p, source, target, sc) ==
  LET view == ResolveEdges(p, sc)
      outgoing == [n \in Nodes(p) |->
                     {m \in Nodes(p) : \E e \in DOMAIN view : <<n, m>> \in Arcs(view[e], "out")}]
      parents == ShortestParents(outgoing, <<source>>, source :> 0, source :> {})
      paths == PathsBack(parents, source, target)
  IN IF source = target THEN << <<source>> >>
     ELSE IF target \notin DOMAIN parents THEN <<>>
     ELSE SubSeq(paths, 1, IF Len(paths) < MaxPaths THEN Len(paths) ELSE MaxPaths)

-----------------------------------------------------------------------------
(* Cycles *)

(* A back edge closes the part of the stack from its target on; the cycle is
   kept unless one over the same nodes is known.  Each pair of the cycle is
   labelled with the first edge between the two nodes. *)
CloseCycle(s, view, next) ==
  LET from  == CHOOSE i \in DOMAIN s.stack : s.stack[i] = next
      nodes == Append(SubSeq(s.stack, from, Len(s.stack)), next)
      First(a, b) == Ascending({e \in DOMAIN view : view[e].source = a /\ view[e].target = b})[1]
      cycle == [nodes |-> nodes,
                edges |-> [i \in 1..(Len(nodes) - 1) |-> First(nodes[i], nodes[i + 1])]]
  IN IF \E c \in Range(s.cycles) : Range(c.nodes) = Range(nodes) THEN s
     ELSE [s EXCEPT !.cycles = Append(@, cycle)]

RECURSIVE CycleVisit(_, _, _)
CycleVisit(s, n, view) ==
  LET grey == [s EXCEPT !.stack = Append(@, n)]
      Follow(acc, e) ==
        LET next == view[e].target
        IN IF next \in Range(acc.stack) THEN CloseCycle(acc, view, next)
           ELSE IF next \in acc.done THEN acc
           ELSE CycleVisit(acc, next, view)
      walked == FoldLeft(Follow, grey, Ascending({e \in DOMAIN view : view[e].source = n}))
  IN [walked EXCEPT !.stack = s.stack, !.done = @ \union {n}]

FindCycles(view, nodes) ==
  FoldLeft(LAMBDA acc, n : IF n \in acc.done THEN acc ELSE CycleVisit(acc, n, view),
           [stack |-> <<>>, done |-> {}, cycles |-> <<>>], Ascending(nodes)).cycles

Only(view, Keep(_)) == [e \in {x \in DOMAIN view : Keep(view[x])} |-> view[e]]

DetectCycles(p, sc) ==
  FindCycles(Only(ResolveEdges(p, sc), LAMBDA edge : edge.directed), ResolvedNodeIds(p, sc))

Contradicts(edge) == edge.type = "contradicts" \/ edge.outcome = "refutes"

(* The contradiction cycles by the number of their nodes; the first names the
   minimal size. *)
ContradictionChains(p, sc) ==
  LET view   == Only(ResolveEdges(p, sc), LAMBDA edge : edge.directed /\ Contradicts(edge))
      cycles == Range(FindCycles(view, ResolvedNodeIds(p, sc)))
      sizes  == {Cardinality(Range(c.nodes)) : c \in cycles}
  IN [cycles |-> cycles, considered |-> DOMAIN view,
      minimalSize |-> IF sizes = {} THEN 0 ELSE Ascending(sizes)[1]]

-----------------------------------------------------------------------------
(* Logic chains and ablation scenarios *)

Chosen(view, mode) ==
  CASE mode = "refutation" -> {e \in DOMAIN view : Contradicts(view[e])}
    [] mode = "effective"  -> {e \in DOMAIN view : /\ view[e].status = "completed"
                                                   /\ view[e].outcome = "supports"
                                                   /\ view[e].changed}
    [] OTHER -> {e \in DOMAIN view : \/ view[e].type \in {"supports", "derived_from"}
                                     \/ view[e].outcome = "supports"}

(* With a target only the edges that lead to it are kept, unless none does. *)
ComputeLogicChain(p, mode, targets) ==
  LET view   == ResolveEdges(p, NoScenario)
      chosen == Chosen(view, mode)
      leading == {e \in chosen : \E t \in targets :
                    \/ view[e].target = t
                    \/ ShortestPath(p, view[e].target, t, NoScenario) # <<>>}
      selected == IF leading = {} THEN chosen ELSE leading
  IN [edges |-> selected,
      nodes |-> {view[e].source : e \in selected} \union {view[e].target : e \in selected}]

CompareScenarioReachability(p, root, sc) ==
  LET base     == TraverseGraph(p, BfsRequest(p, root, NoScenario))
      ablated  == TraverseGraph(p, BfsRequest(p, root, sc))
      retained == Range(ablated.order) \intersect Range(base.order)
  IN [lost      |-> (Range(base.order) \ Range(ablated.order)) \ DisabledNodes(sc),
      retained  |-> retained,
      alternate |-> {n \in retained : base.parent[n] # ablated.parent[n]}]

-----------------------------------------------------------------------------
(* Requests *)

GraphVars == <<project, answer>>

GraphInit == project \in Projects /\ answer = NoAnswer

AnyScenario == Scenarios \union {NoScenario}

Ask(record) == answer = NoAnswer /\ answer' = record /\ UNCHANGED project

AskTraversal ==
  \E start \in Nodes(project), strategy \in {"bfs", "dfs"}, direction \in {"out", "in", "both"},
     depth \in Depths, types \in {<<Range(project.nodes), EdgeTypes(project)>>,
                                  <<{"claim"}, EdgeTypes(project)>>,
                                  <<Range(project.nodes), {"contradicts"}>>},
     sc \in AnyScenario :
    LET request == [start |-> start, strategy |-> strategy, direction |-> direction,
                    maxDepth |-> depth, nodeTypes |-> types[1], edgeTypes |-> types[2],
                    scenario |-> sc]
    IN Ask([asked |-> "traversal", request |-> request, got |-> TraverseGraph(project, request)])

AskPaths ==
  \E source, target \in Nodes(project), sc \in AnyScenario :
    Ask([asked |-> "paths", source |-> source, target |-> target, scenario |-> sc,
         one |-> ShortestPath(project, source, target, sc),
         all |-> AllShortestPaths(project, source, target, sc)])

AskCycles ==
  \E sc \in AnyScenario :
    Ask([asked |-> "cycles", scenario |-> sc, got |-> DetectCycles(project, sc),
         contradictions |-> ContradictionChains(project, sc)])

AskLogicChain ==
  \E mode \in {"refutation", "effective", "supporting"},
     targets \in {{}} \union {{n} : n \in Nodes(project)} :
    Ask([asked |-> "chain", mode |-> mode, targets |-> targets,
         got |-> ComputeLogicChain(project, mode, targets)])

AskScenario ==
  \E root \in Nodes(project), sc \in Scenarios :
    Ask([asked |-> "scenario", root |-> root, scenario |-> sc,
         got |-> CompareScenarioReachability(project, root, sc)])

GraphNext == AskTraversal \/ AskPaths \/ AskCycles \/ AskLogicChain \/ AskScenario

GraphSpec == GraphInit /\ [][GraphNext]_GraphVars

-----------------------------------------------------------------------------
(* The reference: walks over the project as it is after the scenario *)

Shown(sc, e) ==
  /\ e \notin DisabledEdges(sc)
  /\ {Merged(project, sc, e).source, Merged(project, sc, e).target}
       \intersect DisabledNodes(sc) = {}

Joined(sc, direction, types, a, b) ==
  \E e \in DOMAIN project.edges :
    LET edge == Merged(project, sc, e)
    IN /\ Shown(sc, e) /\ edge.type \in types
       /\ \/ edge.source = a /\ edge.target = b /\ (direction # "in" \/ ~edge.directed)
          \/ edge.source = b /\ edge.target = a /\ (direction # "out" \/ ~edge.directed)

(* The nodes that at most k steps reach, staying within a set of nodes. *)
RECURSIVE Within(_, _, _, _, _, _)
Within(sc, direction, types, allowed, start, k) ==
  IF k = 0 THEN {start} \intersect allowed
  ELSE LET near == Within(sc, direction, types, allowed, start, k - 1)
       IN near \union {m \in allowed : \E n \in near : Joined(sc, direction, types, n, m)}

Distance(sc, direction, types, allowed, start, n) ==
  CHOOSE k \in 0..Cardinality(allowed) :
    /\ n \in Within(sc, direction, types, allowed, start, k)
    /\ k = 0 \/ n \notin Within(sc, direction, types, allowed, start, k - 1)

(* Every walk of k steps between two nodes. *)
RECURSIVE Walks(_, _, _, _)
Walks(sc, source, target, k) ==
  IF k = 0 THEN IF source = target THEN { <<source>> } ELSE {}
  ELSE {Append(w, target) : w \in UNION {Walks(sc, source, n, k - 1) :
          n \in {x \in Nodes(project) : Joined(sc, "out", EdgeTypes(project), x, target)}}}

(* A traversal reaches nothing further away than its limit, and whatever it does not reach
   lies behind a node at the limit that it names: a traversal that names none has reached
   everything.  Breadth first misses nothing within the limit, gives every node its distance
   and names no other node.  Depth first may come to a node by a longer way than the shortest
   and so miss others within the limit; the node it stopped at tells. *)
TraversalRight ==
  answer.asked = "traversal" =>
    LET request == answer.request
        got     == answer.got
        found   == DOMAIN got.depth
        allowed == {n \in Nodes(project) \ DisabledNodes(request.scenario) :
                      n = request.start \/ project.nodes[n] \in request.nodeTypes}
        near(k) == Within(request.scenario, request.direction, request.edgeTypes, allowed,
                          request.start, k)
        missed  == near(Cardinality(allowed)) \ found
        leaving == {n \in found : \E m \in missed :
                      Joined(request.scenario, request.direction, request.edgeTypes, n, m)}
    IN /\ found \subseteq near(request.maxDepth)
       /\ Range(got.order) = found /\ Len(got.order) = Cardinality(found)
       /\ leaving \subseteq Range(got.stopped)
       /\ \A n \in Range(got.stopped) : got.depth[n] = request.maxDepth
       /\ Range(got.tree) \intersect got.cross = {}
       /\ request.strategy = "bfs" =>
            /\ found = near(request.maxDepth) /\ leaving = Range(got.stopped)
            /\ \A n \in found : got.depth[n] =
                 Distance(request.scenario, request.direction, request.edgeTypes, allowed,
                          request.start, n)

(* The one shortest path is a shortest walk, and the enumeration gives every
   shortest walk once unless it stops at its limit. *)
PathsRight ==
  answer.asked = "paths" =>
    LET types == EdgeTypes(project)
        active == Nodes(project) \ DisabledNodes(answer.scenario)
        shown  == {answer.source, answer.target} \subseteq active
        joined == answer.target \in Within(answer.scenario, "out", types, active, answer.source,
                                           Cardinality(active))
        shortest == IF ~joined THEN {}
                    ELSE Walks(answer.scenario, answer.source, answer.target,
                           Distance(answer.scenario, "out", types, active, answer.source, answer.target))
    IN /\ answer.one = <<>> <=> ~joined
       /\ joined => answer.one \in shortest
       /\ IsInjective(answer.all)
       /\ shown => /\ Range(answer.all) \subseteq shortest
                   /\ Len(answer.all) = IF Cardinality(shortest) < MaxPaths
                                        THEN Cardinality(shortest) ELSE MaxPaths

(* Every reported cycle closes along directed edges the scenario shows, none is
   reported twice, and a project with a directed cycle is never reported free
   of them. *)
CyclesRight ==
  answer.asked = "cycles" =>
    LET sc == answer.scenario
        Directed(e) == Shown(sc, e) /\ Merged(project, sc, e).directed
        Step(contradicting, a, b) ==
          \E e \in DOMAIN project.edges :
            /\ Directed(e) /\ (contradicting => Contradicts(Merged(project, sc, e)))
            /\ Merged(project, sc, e).source = a /\ Merged(project, sc, e).target = b
        Real(contradicting, c) ==
          /\ c.nodes[1] = c.nodes[Len(c.nodes)]
          /\ \A i \in 1..(Len(c.nodes) - 1) :
               /\ Step(contradicting, c.nodes[i], c.nodes[i + 1])
               /\ Directed(c.edges[i])
        Cyclic(contradicting) ==
          \E S \in SUBSET Nodes(project) \ {{}} :
            \A a \in S : \E b \in S : Step(contradicting, a, b)
    IN /\ \A i \in DOMAIN answer.got : Real(FALSE, answer.got[i])
       /\ \A i, j \in DOMAIN answer.got :
            Range(answer.got[i].nodes) = Range(answer.got[j].nodes) => i = j
       /\ answer.got # <<>> <=> Cyclic(FALSE)
       /\ \A c \in answer.contradictions.cycles : Real(TRUE, c)
       /\ answer.contradictions.cycles # {} <=> Cyclic(TRUE)

(* The edges of a chain towards a node all lead there, if any of its kind does;
   an ablation loses exactly the nodes only it cuts off. *)
ChainsRight ==
  /\ answer.asked = "chain" =>
       LET Leads(e, t) == t \in Within(NoScenario, "out", EdgeTypes(project), Nodes(project),
                                       project.edges[e].target, Cardinality(Nodes(project)))
       IN \A t \in answer.targets :
            (\E e \in answer.got.edges : Leads(e, t)) => \A e \in answer.got.edges : Leads(e, t)
  /\ answer.asked = "scenario" =>
       LET Reach(sc) == Within(sc, "out", EdgeTypes(project), Nodes(project) \ DisabledNodes(sc), answer.root,
                               Cardinality(Nodes(project)))
       IN /\ answer.got.lost = (Reach(NoScenario) \ Reach(answer.scenario))
                                 \ DisabledNodes(answer.scenario)
          /\ answer.got.alternate \subseteq Reach(answer.scenario)

(* The answers of the graph algorithms are those of walks over the project. *)
AnswersRight == TraversalRight /\ PathsRight /\ CyclesRight /\ ChainsRight

=============================================================================
