---------------------------- MODULE GraphLayout ----------------------------
(* The layout of a project (src-tauri/src/graph_compiler/layout.rs): a pure
   function from the nodes and edges, in the order of the file, to a place for
   every node.  Six modes share one grid of layers and rows; what a mode leaves
   without a place goes to a second grid below, and placements a user pinned
   override both.  A project is
     nodes : sequence of [id, type, cites], edges : sequence of
     [id, source, target, type, outcome, directed];
   identifiers are naturals in the order their strings have, and distinct; an
   annotation is the number or the code it shows. *)
EXTENDS Integers, FiniteSets, SequencesExt, TLC

CONSTANTS
  Sketches,      \* the projects laid out
  Geometries,    \* what the parameters of a view override
  Pins,          \* the placements that come with a view
  NoRoot

VARIABLES
  sketch,        \* the project that is laid out
  drawing        \* the last request with its result

NoDrawing == [asked |-> "nothing"]
sketchVars == <<sketch, drawing>>

Modes == {"evidence-chain", "refutation-chain", "tree", "huffman", "table", "neural-network"}

DefaultsForMode(mode) ==
  LET Grid(x, y, columns, rows) == [rootId |-> NoRoot, originX |-> x, originY |-> y,
                                    columnGap |-> columns, rowGap |-> rows]
  IN CASE mode = "tree"    -> Grid(80, 80, 350, 182)
       [] mode = "table"   -> Grid(70, 105, 310, 168)
       [] mode = "huffman" -> Grid(70, 80, 320, 172)
       [] OTHER            -> Grid(75, 85, 360, 190)

ResolveParams(mode, given) == given @@ DefaultsForMode(mode)

NodeIds(p) == [i \in DOMAIN p.nodes |-> p.nodes[i].id]
EdgeIds(p) == [i \in DOMAIN p.edges |-> p.edges[i].id]
Named(p) == Range(NodeIds(p))

\* The edges whose ends are both nodes.
Links(p, ids) ==
  {e \in Range(p.edges) : e.id \in ids /\ {e.source, e.target} \subseteq Named(p)}

FirstOnly(s) ==
  FoldLeft(LAMBDA seen, x : IF x \in Range(seen) THEN seen ELSE Append(seen, x), <<>>, s)

(* The row of a node: how many of its layer come before it. *)
RowOf(ids, layer, at) == Cardinality({i \in 1..(at - 1) : layer[ids[i]] = layer[ids[at]]})

OnGrid(ids, layer, g) ==
  [id \in Range(ids) |->
     <<g.originX + layer[id] * g.columnGap,
       g.originY + RowOf(ids, layer, SelectInSeq(ids, LAMBDA x : x = id)) * g.rowGap>>]

-----------------------------------------------------------------------------
(* Tree: breadth first from the root *)

TreeNeighbors(p, n) ==
  LET links  == Links(p, Range(EdgeIds(p)))
      onward == {<<e.target, e.id>> : e \in {x \in links : x.source = n}}
      back   == {<<e.source, e.id>> : e \in {x \in links : x.target = n /\ ~x.directed}}
  IN SetToSortSeq(onward \union back,
                  LAMBDA a, b : a[1] < b[1] \/ (a[1] = b[1] /\ a[2] < b[2]))

RECURSIVE Spread(_, _, _)
Spread(p, tree, head) ==
  LET current == tree.order[head]
      Meet(t, pair) ==
        IF pair[1] \in DOMAIN t.depth THEN t
        ELSE [order |-> Append(t.order, pair[1]), edges |-> Append(t.edges, pair[2]),
              depth |-> t.depth @@ (pair[1] :> t.depth[current] + 1)]
  IN IF head > Len(tree.order) THEN tree
     ELSE Spread(p, FoldLeft(Meet, tree, TreeNeighbors(p, current)), head + 1)

BfsTree(p, start) ==
  IF start \in Named(p)
  THEN Spread(p, [order |-> <<start>>, edges |-> <<>>, depth |-> start :> 0], 1)
  ELSE [order |-> <<>>, edges |-> <<>>, depth |-> <<>>]

\* What the search did not reach comes in a layer after the last.
TreeLayout(p, g) ==
  LET tree  == BfsTree(p, g.rootId)
      ids   == tree.order \o SelectSeq(NodeIds(p), LAMBDA n : n \notin Range(tree.order))
      last  == IF tree.order = <<>> THEN 1 ELSE Max({1} \union Range(tree.depth)) + 1
      layer == [n \in Range(ids) |-> IF n \in DOMAIN tree.depth THEN tree.depth[n] ELSE last]
  IN [positions |-> OnGrid(ids, layer, g), annotations |-> <<>>,
      nodeIds |-> ids, edgeIds |-> tree.edges]

-----------------------------------------------------------------------------
(* Table: a column for every type, in the order of the first of it *)

TableLayout(p, g) ==
  LET types == FirstOnly([i \in DOMAIN p.nodes |-> p.nodes[i].type])
      At(n) == SelectInSeq(NodeIds(p), LAMBDA x : x = n)
      column == [n \in Named(p) |-> SelectInSeq(types, LAMBDA t : t = p.nodes[At(n)].type) - 1]
  IN [positions |-> OnGrid(NodeIds(p), column, g),
      annotations |-> [n \in Named(p) |-> RowOf(NodeIds(p), column, At(n)) + 1],
      nodeIds |-> NodeIds(p), edgeIds |-> EdgeIds(p)]

-----------------------------------------------------------------------------
(* Prefix codes from the degree and the evidence of a node *)

Weight(p, node) ==
  1 + 2 * node.cites
    + Cardinality({e \in Range(p.edges) : node.id \in {e.source, e.target}})

Lightest(items) ==
  CHOOSE a \in items : \A b \in items :
    a.weight < b.weight \/ (a.weight = b.weight /\ a.first <= b.first)

Combined(left, right) ==
  [weight |-> left.weight + right.weight, first |-> left.first,
   codes |-> [n \in DOMAIN left.codes |-> <<0>> \o left.codes[n]]
             @@ [n \in DOMAIN right.codes |-> <<1>> \o right.codes[n]]]

RECURSIVE Merge(_)
Merge(items) ==
  LET left  == Lightest(items)
      right == Lightest(items \ {left})
  IN IF Cardinality(items) = 1 THEN left.codes
     ELSE Merge((items \ {left, right}) \union {Combined(left, right)})

HuffmanCodes(p) ==
  CASE p.nodes = <<>>     -> <<>>
    [] Len(p.nodes) = 1   -> p.nodes[1].id :> <<0>>
    [] OTHER -> Merge({[weight |-> Weight(p, node), first |-> node.id,
                        codes |-> node.id :> <<>>] : node \in Range(p.nodes)})

\* Codes in the order of their text.
CodeBefore(a, b) ==
  \E i \in 1..Len(b) : /\ i > Len(a) \/ a[i] < b[i]
                       /\ \A j \in 1..(i - 1) : j <= Len(a) /\ a[j] = b[j]

HuffmanLayout(p, g) ==
  LET codes == HuffmanCodes(p)
      ids   == SetToSortSeq(Named(p), LAMBDA n, m : CodeBefore(codes[n], codes[m]))
  IN [positions |-> OnGrid(ids, [n \in Named(p) |-> Len(codes[n])], g), annotations |-> codes,
      nodeIds |-> NodeIds(p), edgeIds |-> EdgeIds(p)]

-----------------------------------------------------------------------------
(* Chains and the neural network: layers by topological depth *)

ChainEdgeIds(p, mode) ==
  LET Carries(e) ==
        IF mode = "refutation-chain" THEN e.type = "contradicts" \/ e.outcome = "refutes"
        ELSE e.type \in {"supports", "derived_from", "measures", "uses"} \/ e.outcome = "supports"
      chain == SelectSeq(p.edges, Carries)
  IN [i \in DOMAIN chain |-> chain[i].id]

\* Kahn's algorithm, the least of the ready nodes first.
RECURSIVE Peel(_, _)
Peel(links, s) ==
  LET current == Min(s.ready)
      out     == {e \in links : e.source = current}
      Met(n)  == Cardinality({e \in out : e.target = n})
      waits   == [n \in DOMAIN s.incoming |-> s.incoming[n] - Met(n)]
  IN IF s.ready = {} THEN s
     ELSE Peel(links,
       [incoming |-> waits,
        depth |-> [n \in DOMAIN s.depth |->
                     IF Met(n) > 0 THEN Max({s.depth[n], s.depth[current] + 1}) ELSE s.depth[n]],
        ready |-> (s.ready \ {current})
                    \union {n \in DOMAIN waits : Met(n) > 0 /\ waits[n] = 0}])

\* What is on a cycle or behind one comes after the last layer.
DepthsOf(s) ==
  [n \in DOMAIN s.depth |-> IF s.incoming[n] > 0 THEN Max(Range(s.depth)) + 1 ELSE s.depth[n]]

TopologicalDepths(p, selected) ==
  LET links    == Links(p, selected)
      incoming == [n \in Named(p) |-> Cardinality({e \in links : e.target = n})]
  IN DepthsOf(Peel(links, [incoming |-> incoming, depth |-> [n \in Named(p) |-> 0],
                           ready |-> {n \in Named(p) : incoming[n] = 0}]))

\* A chain shows the ends of its edges only, in the order of the edges, the ends
\* that are no nodes too.
LayeredLayout(p, mode, g) ==
  LET selected == IF mode = "neural-network" THEN EdgeIds(p) ELSE ChainEdgeIds(p, mode)
      chain    == SelectSeq(p.edges, LAMBDA e : e.id \in Range(selected))
      ends     == FlattenSeq([i \in DOMAIN chain |-> <<chain[i].source, chain[i].target>>])
      ids      == IF mode = "neural-network" THEN NodeIds(p) ELSE FirstOnly(ends)
      depth    == TopologicalDepths(p, Range(selected))
      layer    == [n \in Range(ids) |-> IF n \in DOMAIN depth THEN depth[n] ELSE 0]
  IN [positions |-> OnGrid(ids, layer, g),
      annotations |-> IF mode = "neural-network" THEN depth ELSE <<>>,
      nodeIds |-> ids, edgeIds |-> selected]

-----------------------------------------------------------------------------
(* A layout, the second grid and the pinned placements *)

ComputeLayout(p, asked, root, params) ==
  LET mode   == IF asked \in Modes THEN asked ELSE "evidence-chain"
      rootId == IF root # NoRoot THEN root
                ELSE IF params.rootId # NoRoot THEN params.rootId
                ELSE IF p.nodes = <<>> THEN NoRoot ELSE p.nodes[1].id
      g      == [params EXCEPT !.rootId = rootId]
      laid   == CASE mode = "tree"    -> TreeLayout(p, g)
                  [] mode = "table"   -> TableLayout(p, g)
                  [] mode = "huffman" -> HuffmanLayout(p, g)
                  [] OTHER            -> LayeredLayout(p, mode, g)
  IN [mode |-> mode, params |-> g] @@ laid

BelowAll(result) == Max({80} \union {result.positions[n][2] : n \in DOMAIN result.positions})

ApplyFallback(result, p) ==
  LET rest == SelectSeq(NodeIds(p), LAMBDA n : n \notin DOMAIN result.positions)
      At(i) == <<80 + ((i - 1) % 4) * 235, BelowAll(result) + 210 + ((i - 1) \div 4) * 170>>
  IN [result EXCEPT !.positions =
        @ @@ [n \in Range(rest) |-> At(SelectInSeq(rest, LAMBDA x : x = n))]]

Pin(result, placement) ==
  IF ~placement.pinned THEN result
  ELSE [result EXCEPT
          !.nodeIds = IF placement.nodeId \in Range(@) THEN @ ELSE Append(@, placement.nodeId),
          !.positions = (placement.nodeId :> placement.at) @@ @]

ApplyPinned(result, placements) == FoldLeft(Pin, result, placements)

-----------------------------------------------------------------------------
(* Requests *)

SketchInit == sketch \in Sketches /\ drawing = NoDrawing

Draw(record) == drawing = NoDrawing /\ drawing' = record /\ UNCHANGED sketch

\* compute_graph_layout: no second grid, no placements, a root of its own.
AskLayout ==
  \E mode \in Modes, root \in Named(sketch) \union {NoRoot} :
    LET laid == ComputeLayout(sketch, mode, root, DefaultsForMode(mode))
    IN Draw([asked |-> "layout", laid |-> laid, shown |-> laid, pins |-> <<>>])

\* layout_project_view, for one entry of views[].
AskView ==
  \E mode \in Modes \union {"radial"}, given \in Geometries, pins \in Pins :
    LET laid == ApplyFallback(ComputeLayout(sketch, mode, NoRoot, ResolveParams(mode, given)),
                              sketch)
    IN Draw([asked |-> "view", laid |-> laid, shown |-> ApplyPinned(laid, pins), pins |-> pins])

SketchNext == AskLayout \/ AskView

SketchSpec == SketchInit /\ [][SketchNext]_sketchVars

-----------------------------------------------------------------------------
(* The reference: walks along the links *)

(* The nodes at which a walk of k links ends. *)
RECURSIVE WalkEnds(_, _, _)
WalkEnds(start, links, k) ==
  IF k = 0 THEN start
  ELSE {e.target : e \in {x \in links : x.source \in WalkEnds(start, links, k - 1)}}

ColumnOf(r, n) == (r.positions[n][1] - r.params.originX) \div r.params.columnGap

(* No two nodes are drawn over one another, and a view places every node. *)
PlacesApart ==
  drawing # NoDrawing =>
    LET r == drawing.laid
    IN /\ \A n, m \in DOMAIN r.positions : r.positions[n] = r.positions[m] => n = m
       /\ Range(r.nodeIds) \subseteq DOMAIN r.positions
       /\ drawing.asked = "view" => Named(sketch) \subseteq DOMAIN r.positions

(* A pinned node is shown, and where the last pin put it; nothing else moves. *)
PinsWin ==
  drawing # NoDrawing =>
    LET pinned == {i \in DOMAIN drawing.pins : drawing.pins[i].pinned}
        Of(n)  == {i \in pinned : drawing.pins[i].nodeId = n}
    IN /\ \A n \in DOMAIN drawing.shown.positions :
            drawing.shown.positions[n] =
              IF Of(n) = {} THEN drawing.laid.positions[n] ELSE drawing.pins[Max(Of(n))].at
       /\ \A i \in pinned : drawing.pins[i].nodeId \in Range(drawing.shown.nodeIds)

(* In chains and networks the layer of a node is the length of the longest walk
   that ends there, and what a cycle leads to comes after all of that. *)
LayersAreWalks ==
  (drawing # NoDrawing /\ drawing.laid.mode \in
     {"evidence-chain", "refutation-chain", "neural-network"}) =>
    LET r      == drawing.laid
        links  == Links(sketch, Range(r.edgeIds))
        count  == Cardinality(Named(sketch))
        ranked == (Named(sketch) \intersect Range(r.nodeIds)) \ WalkEnds(Named(sketch), links, count)
        behind == WalkEnds(Named(sketch), links, count) \intersect Range(r.nodeIds)
    IN /\ \A n \in ranked : ColumnOf(r, n) =
            Max({k \in 0..count : n \in WalkEnds(Named(sketch), links, k)})
       /\ \A n \in behind : /\ \A m \in ranked : ColumnOf(r, m) < ColumnOf(r, n)
                            /\ \A m \in behind : ColumnOf(r, m) = ColumnOf(r, n)

(* In a tree the layer of a node is its distance from the root, one edge leads to
   each node but the root, and what cannot be reached comes last. *)
TreeIsShortest ==
  (drawing # NoDrawing /\ drawing.laid.mode = "tree" /\ drawing.laid.params.rootId \in Named(sketch)) =>
    LET r     == drawing.laid
        both  == Links(sketch, Range(EdgeIds(sketch)))
        links == both \union {[e EXCEPT !.source = e.target, !.target = e.source] :
                                e \in {x \in both : ~x.directed}}
        count == Cardinality(Named(sketch))
        At(n) == {k \in 0..count : n \in WalkEnds({r.params.rootId}, links, k)}
        found == {n \in Named(sketch) : At(n) # {}}
    IN /\ \A n \in found : ColumnOf(r, n) = Min(At(n))
       /\ \A n \in Named(sketch) \ found : \A m \in found : ColumnOf(r, m) < ColumnOf(r, n)
       /\ Len(r.edgeIds) = Cardinality(found) - 1 /\ IsInjective(r.edgeIds)

(* No code begins another, and a node with more evidence and edges never has the
   longer one. *)
CodesArePrefixFree ==
  (drawing # NoDrawing /\ drawing.laid.mode = "huffman") =>
    LET codes == drawing.laid.annotations
    IN \A a, b \in Range(sketch.nodes) : a # b =>
         /\ ~IsPrefix(codes[a.id], codes[b.id])
         /\ Weight(sketch, a) > Weight(sketch, b) => Len(codes[a.id]) <= Len(codes[b.id])

LayoutsRight ==
  PlacesApart /\ PinsWin /\ LayersAreWalks /\ TreeIsShortest /\ CodesArePrefixFree
=============================================================================
