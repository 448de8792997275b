--------------------------- MODULE MCGraphPatches ---------------------------
(* Small instances of what happens to a project: patches are reviewed and
   committed (GraphPatches), the compiler answers questions about a graph
   (GraphAlgorithms), lays it out (GraphLayout), checks and hashes its file
   (GraphCompile).  These share no state; `focus` says which of them this
   behaviour moves. *)
EXTENDS GraphPatches, GraphAlgorithms, GraphLayout, GraphCompile, TLC

CONSTANTS p1, p2, p3, s1, s2

VARIABLE focus

ProposalSymmetry == Permutations({p1, p2, p3}) \union Permutations({s1, s2})

MCEdge(arc, type, directed, outcome) ==
    [source |-> arc[1], target |-> arc[2], type |-> type, directed |-> directed,
     outcome |-> outcome, status |-> "completed", changed |-> directed]

Triangle == 1 :> "claim" @@ 2 :> "source" @@ 3 :> "claim"
Square == Triangle @@ 4 :> "source"

MCNothing == [nodes |-> <<>>, edges |-> <<>>]

\* Nothing; three edges anywhere in a triangle, and two ways into a square with what two
\* further edges make of them: also a longer way to a node than the one edge to it.
MCProjects ==
    {MCNothing}
    \union
    {[nodes |-> Triangle,
      edges |-> [e \in 1 .. 3 |-> MCEdge(arc[e], IF e = 1 THEN "supports" ELSE "contradicts",
                                         e # 3 \/ directed, IF e = 2 THEN "supports" ELSE "none")]] :
       arc \in [1 .. 3 -> {<<1, 1>>, <<1, 2>>, <<2, 1>>, <<2, 3>>, <<3, 1>>}], directed \in BOOLEAN}
    \union
    {[nodes |-> Square,
      edges |-> [e \in 1 .. 4 |-> MCEdge(arc[e], "contradicts", TRUE, "refutes")]] :
       arc \in {a \in [1 .. 4 -> {<<1, 2>>, <<1, 3>>, <<2, 3>>, <<2, 4>>, <<3, 4>>, <<4, 1>>}] :
                  a[1] = <<1, 2>> /\ a[2] = <<1, 3>> /\ a[3][1] <= a[4][1]}}

\* One scenario hides a node; one hides an edge and opens another both ways.
MCScenarios ==
    {[disabledNodeIds |-> {2}, disabledEdgeIds |-> {}, edgeOverrides |-> <<>>],
     [disabledNodeIds |-> {}, disabledEdgeIds |-> {1},
      edgeOverrides |-> 2 :> [directed |-> FALSE]]}

\* Three edges anywhere between three nodes and one that is missing, in a file
\* that does not list the nodes in order; projects with no edges, and nothing.
MCSketches ==
    {[nodes |-> << [id |-> 2, type |-> "claim", cites |-> 0],
                   [id |-> 1, type |-> "source", cites |-> 2],
                   [id |-> 3, type |-> "claim", cites |-> 0] >>,
      edges |-> [e \in 1 .. 3 |->
        [id |-> e, source |-> arc[e][1], target |-> arc[e][2], directed |-> e # 3 \/ directed,
         type |-> IF e = 2 THEN "contradicts" ELSE "supports",
         outcome |-> IF e = 2 THEN "supports" ELSE "none"]]] :
       arc \in {<<1, 2>>, <<2, 1>>, <<3, 3>>} \X {<<1, 2>>, <<2, 3>>, <<3, 4>>}
               \X {<<1, 2>>, <<2, 1>>, <<2, 3>>, <<1, 3>>, <<3, 3>>},
       directed \in BOOLEAN}
    \union
    {[nodes |-> [n \in 1 .. k |-> [id |-> n, type |-> "claim", cites |-> n % 2]],
      edges |-> <<>>] : k \in {0, 1, 6}}

MCGeometries == {<<>>, [originX |-> 80, originY |-> 290], [rootId |-> 1]}

MCPin(n, at, pinned) == [nodeId |-> n, at |-> at, pinned |-> pinned]
MCPins == {<< MCPin(1, <<5, 5>>, TRUE), MCPin(1, <<9, 9>>, TRUE), MCPin(2, <<7, 7>>, FALSE) >>}

MCFold(text) == IF text = "text " THEN "text" ELSE text

MCNode(n) == [id |-> n, type |-> "claim", body |-> IF n = 2 THEN "other" ELSE "text", page |-> "text",
              status |-> "text", cites |-> {4}, hash |-> NoHash]

\* A file whose parts name one another; one with an edge that has no identifier,
\* and one without evidence.
MCFile(edge, records) ==
    [nodes |-> << MCNode(1), MCNode(2) >>,
     edges |-> << [id |-> edge, source |-> 1, target |-> 2, type |-> "contradicts",
                   polarity |-> "negative", cites |-> {}, hash |-> NoHash] >>,
     evidence |-> records,
     placements |-> << [id |-> 5, nodeId |-> 1] >>,
     scenarios |-> << [id |-> 6, disabledNodeIds |-> {}, disabledEdgeIds |-> {},
                       nodeOverrides |-> {2}, edgeOverrides |-> {3}] >>,
     recentNodeIds |-> {1}, pinnedNodeIds |-> {},
     contentRootHash |-> NoHash, fileHash |-> NoHash]

MCEvidence == << [id |-> 4, title |-> "text", quote |-> "text", hash |-> NoHash] >>

MCNewFile ==
    [nodes |-> <<>>, edges |-> <<>>, evidence |-> <<>>, placements |-> NoArray,
     scenarios |-> NoArray, recentNodeIds |-> {}, pinnedNodeIds |-> {},
     contentRootHash |-> NoHash, fileHash |-> NoHash]

MCFiles == {MCNewFile, MCFile(3, MCEvidence), MCFile(NoId, MCEvidence), MCFile(3, NoArray)}

projectGraphVars == <<patchesVars, GraphVars, sketchVars, compileVars, focus>>

ProjectGraphInit ==
    /\ focus \in {"patches", "algorithms", "layout", "compile"}
    /\ focus # "algorithms" => project = MCNothing
    /\ focus # "layout" => sketch = MCNothing
    /\ focus # "patches" => clock = 0
    /\ focus # "compile" => file = MCNewFile
    /\ PatchesInit
    /\ GraphInit
    /\ SketchInit
    /\ CompileInit

ProjectGraphNext ==
    /\ focus' = focus
    /\ \/ focus = "patches" /\ PatchesNext
       \/ focus # "patches" /\ UNCHANGED patchesVars
    /\ \/ focus = "algorithms" /\ GraphNext
       \/ focus # "algorithms" /\ UNCHANGED GraphVars
    /\ \/ focus = "layout" /\ SketchNext
       \/ focus # "layout" /\ UNCHANGED sketchVars
    /\ \/ focus = "compile" /\ CompileNext
       \/ focus # "compile" /\ UNCHANGED compileVars

ProjectGraphSpec == ProjectGraphInit /\ [][ProjectGraphNext]_projectGraphVars

(* What the compiler says of a project is right: the answers about its graph are
   those of walks, its layouts place every node apart in the layer a walk gives it,
   and its hashes show every edit of the file.  Each is asked where it can change:
   the parts out of focus keep a value that some behaviour in focus starts from. *)
GraphAnswersSound ==
    /\ focus = "algorithms" => AnswersRight
    /\ focus = "layout" => LayoutsRight
    /\ focus = "compile" => CompilerSound
=============================================================================
