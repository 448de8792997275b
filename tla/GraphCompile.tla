--------------------------- MODULE GraphCompile ---------------------------
(* What makes a project file trustworthy: the invariants the compiler reports
   (src-tauri/src/graph_compiler/invariants.rs), the hashes it writes into the
   file and their verification (canonical.rs).  Between a compilation and a
   verification the file is edited by whoever holds it.

   A project has
     nodes      : [id, body, page, status, cites, hash], page a key inside data,
     edges      : [id, source, target, type, polarity, cites, hash],
     evidence   : [id, title, quote, hash],
     placements : [id, nodeId], scenarios : [id, four sets of identifiers],
   all of them sequences or NoArray, the navigation's identifiers and the two
   hashes of the file.  Sha-256 is taken to have no collisions (block hashes keep
   48 bits of it): a hash is the canonical value it is made from. *)
EXTENDS Integers, FiniteSets, SequencesExt

CONSTANTS
  Files,         \* the projects one begins with
  Ids,           \* the identifiers an edit may write
  Texts,         \* the texts an edit may write
  Fold(_),       \* what is left of a text: NFC, white space folded
  MaxEdits,
  NoArray, NoId, NoHash

VARIABLES
  file,          \* the project as it is now
  compiled,      \* the last project a compilation returned, NoHash before
  edits          \* edits made since Init

compileVars == <<file, compiled, edits>>

Listed(c) == IF c = NoArray THEN <<>> ELSE c
IdsOf(c) == {x.id : x \in Range(Listed(c))} \ {NoId}

-----------------------------------------------------------------------------
(* check_invariants *)

Supporting == {"supports", "derived_from", "uses", "measures"}

Fault(code, severity, entity) == [code |-> code, severity |-> severity, entity |-> entity]

(* Identifiers are unique in all collections together. *)
IdFaults(p) ==
  LET all == Listed(p.nodes) \o Listed(p.edges) \o Listed(p.evidence)
               \o Listed(p.placements) \o Listed(p.scenarios)
  IN {Fault("missing-id", "error", <<"entity", i>>) : i \in {i \in DOMAIN all : all[i].id = NoId}}
     \union {Fault("duplicate-id", "error", <<"entity", i>>) : i \in
               {i \in DOMAIN all : all[i].id # NoId /\ \E j \in 1..(i - 1) : all[j].id = all[i].id}}

ArrayFaults(p) ==
  {Fault("malformed-project", "error", <<key, 0>>) : key \in
     {k \in {"nodes", "edges", "evidence"} : p[k] = NoArray}}

PolarityFaults(edge) ==
  CASE edge.polarity \notin {"positive", "negative", "mixed", "unknown"}
         \/ (edge.type = "contradicts" /\ edge.polarity = "positive")
         \/ (edge.type \in Supporting /\ edge.polarity = "negative")
         -> {Fault("polarity-conflict", "error", <<"edge", edge.id>>)}
    [] edge.type = "contradicts" /\ edge.polarity = "mixed"
         -> {Fault("polarity-conflict", "warning", <<"edge", edge.id>>)}
    [] OTHER -> {}

ScenarioFaults(p, s) ==
  {Fault("dangling-node-reference", "error", <<"scenario", s.id>>) :
     n \in (s.disabledNodeIds \union s.nodeOverrides) \ IdsOf(p.nodes)}
  \union {Fault("dangling-edge-reference", "error", <<"scenario", s.id>>) :
     e \in (s.disabledEdgeIds \union s.edgeOverrides) \ IdsOf(p.edges)}

Citing(p) == Range(Listed(p.nodes)) \union Range(Listed(p.edges))

CheckInvariants(p) ==
  LET nodes == IdsOf(p.nodes)
      Dangling(entity, referenced) ==
        {Fault("dangling-node-reference", "error", entity) : n \in referenced \ nodes}
  IN IdFaults(p) \union ArrayFaults(p)
     \union UNION {Dangling(<<"edge", e.id>>, {e.source, e.target}) \union PolarityFaults(e) :
                     e \in Range(Listed(p.edges))}
     \union {Fault("unresolved-evidence-reference", "error", <<"entity", x.id>>) :
               x \in {y \in Citing(p) : ~(y.cites \subseteq IdsOf(p.evidence))}}
     \union {Fault("uncited-evidence", "warning", <<"evidence", v>>) :
               v \in IdsOf(p.evidence) \ UNION {x.cites : x \in Citing(p)}}
     \union UNION {Dangling(<<"placement", l.id>>, {l.nodeId}) : l \in Range(Listed(p.placements))}
     \union UNION {ScenarioFaults(p, s) : s \in Range(Listed(p.scenarios))}
     \union Dangling(<<"navigation", 0>>, p.recentNodeIds \union p.pinnedNodeIds)

Errors(p) == {f \in CheckInvariants(p) : f.severity = "error"}

-----------------------------------------------------------------------------
(* Canonical values and hashes *)

(* An array without its order: its elements are sorted before they are hashed. *)
Unordered(c) ==
  IF c = NoArray THEN NoArray
  ELSE [x \in Range(c) |-> Cardinality({i \in DOMAIN c : c[i] = x})]

Canonical(c) ==
  IF c = NoArray THEN NoArray
  ELSE [i \in DOMAIN c |-> [f \in DOMAIN c[i] |->
          IF f \in {"body", "page", "status", "title", "quote"} THEN Fold(c[i][f]) ELSE c[i][f]]]

(* The claim of an entity: its own fields, without the trail of its review, its
   evidence and where that was found, at any depth. *)
ClaimFields == {"id", "type", "body", "source", "target", "polarity", "title"}

(* Mutant: the status is part of the claim. *)
ClaimOfAll(entity) == [f \in DOMAIN entity \intersect (ClaimFields \union {"status"}) |-> entity[f]]

ClaimOf(entity) == [f \in DOMAIN entity \intersect ClaimFields |-> entity[f]]

BlockHash(entity) == ClaimOf(Canonical(<<entity>>)[1])

(* A map by identifier: of two entities with one, the later counts. *)
BlockHashes(p) ==
  LET all == SelectSeq(Listed(p.nodes) \o Listed(p.edges) \o Listed(p.evidence),
                       LAMBDA x : x.id # NoId)
      LastOf(id) == SelectLastInSeq(all, LAMBDA x : x.id = id)
  IN [id \in {x.id : x \in Range(all)} |-> BlockHash(all[LastOf(id)])]

ContentRootHash(hashes) == Range(hashes)

(* Everything in the file but this hash itself. *)
FileHash(p) ==
  [f \in DOMAIN p \ {"fileHash"} |->
     IF f \in {"nodes", "edges", "evidence", "placements", "scenarios"}
     THEN Unordered(Canonical(p[f])) ELSE p[f]]

InjectBlockHashes(c, hashes) ==
  IF c = NoArray THEN NoArray
  ELSE [i \in DOMAIN c |-> IF c[i].id = NoId THEN c[i] ELSE [c[i] EXCEPT !.hash = hashes[c[i].id]]]

Compile(p) ==
  LET hashes == BlockHashes(p)
      hashed == [p EXCEPT !.nodes = InjectBlockHashes(@, hashes),
                          !.edges = InjectBlockHashes(@, hashes),
                          !.evidence = InjectBlockHashes(@, hashes),
                          !.contentRootHash = ContentRootHash(hashes)]
  IN [hashed EXCEPT !.fileHash = FileHash(hashed)]

(* Where the hashes of a file do not agree with what they stand for. *)
Mismatches(p) ==
  LET hashes == BlockHashes(p)
      Stale(c) == {x.id : x \in {y \in Range(Listed(c)) : y.id # NoId /\ y.hash # hashes[y.id]}}
  IN [blocks  |-> Stale(p.nodes) \union Stale(p.edges) \union Stale(p.evidence),
      root    |-> p.contentRootHash # ContentRootHash(hashes),
      file    |-> p.fileHash # FileHash(p)]

Verified(p) == Mismatches(p) = [blocks |-> {}, root |-> FALSE, file |-> FALSE]

-----------------------------------------------------------------------------
(* The file and its editors *)

CompileInit == file \in Files /\ compiled = NoHash /\ edits = 0

(* The file becomes what the compiler returned. *)
CompileFile ==
  /\ file' = Compile(file)
  /\ compiled' = file'
  /\ UNCHANGED edits

Edit(key, c) ==
  /\ edits < MaxEdits
  /\ edits' = edits + 1
  /\ file' = [file EXCEPT ![key] = c]
  /\ UNCHANGED compiled

(* A field of one entity is written; the hashes stay as they are. *)
EditField ==
  \E key \in {"nodes", "edges", "evidence", "placements"} :
    \E i \in DOMAIN Listed(file[key]) : \E f \in DOMAIN file[key][i] \ {"hash", "cites", "type"} :
      \E v \in CASE f \in {"id", "source", "target", "nodeId"} -> Ids
                 [] f = "polarity" -> {"positive", "negative", "mixed"}
                 [] OTHER -> Texts :
        Edit(key, [file[key] EXCEPT ![i][f] = v])

EditCites ==
  \E key \in {"nodes", "edges"} : \E i \in DOMAIN Listed(file[key]) : \E v \in {{}} \union {{x} : x \in Ids} :
    Edit(key, [file[key] EXCEPT ![i].cites = v])

RemoveEntity ==
  \E key \in {"nodes", "edges", "evidence"} : \E i \in DOMAIN Listed(file[key]) :
    Edit(key, RemoveAt(file[key], i))

Reorder == file.nodes # NoArray /\ Edit("nodes", Reverse(file.nodes))

CompileNext == CompileFile \/ EditField \/ EditCites \/ RemoveEntity \/ Reorder

CompileSpec == CompileInit /\ [][CompileNext]_compileVars
-----------------------------------------------------------------------------
(* What a project claims, the reference: everything an entity says but its status,
   its evidence and where that was found. *)
Claims(p) ==
  LET all == Listed(p.nodes) \o Listed(p.edges) \o Listed(p.evidence)
  IN {[f \in DOMAIN x \ {"status", "cites", "page", "quote", "hash"} |-> x[f]] :
        x \in {y \in Range(Canonical(all)) : y.id # NoId}}

Unambiguous(p) == ~ \E f \in IdFaults(p) : f.code = "duplicate-id"

(* A file that was changed since it was compiled, a layout as well as a claim, fails
   verification; and as long as identifiers are unique a file that was not, white space and
   order apart, does not fail it, the root tells a change of what is claimed from one of
   what surrounds the claims, and every claim changed is named by its stale block.  Of two
   entities with one identifier the later counts, so there the order matters. *)
EditsAreSeen ==
  compiled # NoHash =>
    /\ Verified(file) => FileHash(file) = FileHash(compiled)
    /\ (Unambiguous(file) /\ Unambiguous(compiled)) =>
         /\ FileHash(file) = FileHash(compiled) => Verified(file)
         /\ Mismatches(file).root <=> Claims(file) # Claims(compiled)
         /\ {c.id : c \in Claims(file) \ Claims(compiled)} \subseteq Mismatches(file).blocks

(* A compiled file verifies, and compiling it again changes nothing. *)
CompilingIsStable ==
  Verified(Compile(file)) /\ Compile(Compile(file)) = Compile(file)

(* A project without errors names nothing it does not have, so no entity of it
   can be lost when another is removed. *)
AcceptedIsWhole ==
  Errors(file) = {} =>
    LET named == UNION {{e.source, e.target} : e \in Range(file.edges)}
                   \union {l.nodeId : l \in Range(Listed(file.placements))}
                   \union UNION {s.disabledNodeIds \union s.nodeOverrides : s \in Range(Listed(file.scenarios))}
                   \union file.recentNodeIds \union file.pinnedNodeIds
        cut == UNION {s.disabledEdgeIds \union s.edgeOverrides : s \in Range(Listed(file.scenarios))}
        owners(id) == {<<key, i>> \in {"nodes", "edges", "evidence", "placements", "scenarios"} \X (1..9) :
                         i \in DOMAIN Listed(file[key]) /\ file[key][i].id = id}
    IN /\ named \subseteq {n.id : n \in Range(file.nodes)}
       /\ cut \subseteq {e.id : e \in Range(file.edges)}
       /\ UNION {x.cites : x \in Citing(file)} \subseteq {v.id : v \in Range(file.evidence)}
       /\ \A id \in Ids : Cardinality(owners(id)) <= 1

CompilerSound == EditsAreSeen /\ CompilingIsStable /\ AcceptedIsWhole
=============================================================================
