--------------------------- MODULE ProjectHistory ---------------------------
(* A project file kept in a Git repository: saving and importing it
   (src-tauri/src/projects.rs), autosaving it as a commit and reading the history
   back as a graph patch (src-tauri/src/workspace_host.rs), with the structural
   diff of two versions (src-tauri/src/graph_compiler/analysis.rs).

   Every host call runs on a thread of its own and nothing orders two of them: a
   file is truncated before it is written, and an autosave is a chain of Git
   processes.  A project is
     nodes : identifier -> content,
     edges : identifier -> [compared, other]   (other: the fields no diff reads).
   Git itself is external: its index, its log and its commits are modelled by how
   the code uses them. *)
EXTENDS Integers, Sequences, FiniteSets, Functions

CONSTANTS
  Calls,         \* the calls that save or autosave
  ProjectContents,      \* the projects that are saved
  Torn,          \* a file truncated and not completely written
  Absent,        \* no file
  NoId,          \* the identifier read under a name an operation does not have
  MaxCommits     \* bound: commits made

ASSUME HistoryAssumption ==
  /\ MaxCommits \in Nat /\ Torn \notin ProjectContents /\ Absent \notin ProjectContents
  /\ \A p \in ProjectContents : IsFiniteSet(DOMAIN p.nodes) /\ IsFiniteSet(DOMAIN p.edges)

VARIABLES
  file,          \* the content of the project file
  index,         \* what Git has staged of it
  revisions,       \* the contents committed, oldest first
  call,          \* the calls under way: [kind, at, project]
  overtaken,     \* calls whose file another call opened or wrote since (auxiliary)
  imported,      \* what an import returns in this step, Absent in the others
  snapshot       \* the graph patch a read of the history returns in this step

HistoryVars == <<file, index, revisions, call, overtaken, imported, snapshot>>

HeadContent == IF revisions = <<>> THEN Absent ELSE revisions[Len(revisions)]

NoCall == [kind |-> "none", at |-> "idle", project |-> Absent]

NoSnapshot == [revisions |-> 0, diffs |-> <<>>, evidence |-> <<>>, operations |-> <<>>]

-----------------------------------------------------------------------------
(* The structural difference of two projects *)

EmptyProject == [nodes |-> <<>>, edges |-> <<>>]

Operation(op, id, value) == [op |-> op, id |-> id, value |-> value]

\* The identifiers in order.
Ranked(ids, i) == CHOOSE id \in ids : Cardinality({other \in ids : other < id}) = i - 1

Listed(op, ids, value) ==
  [i \in 1..Cardinality(ids) |-> Operation(op, Ranked(ids, i), value[Ranked(ids, i)])]

ChangedNodes(old, new) ==
  {n \in DOMAIN new.nodes \intersect DOMAIN old.nodes : new.nodes[n] # old.nodes[n]}

ChangedEdges(old, new) ==
  {e \in DOMAIN new.edges \intersect DOMAIN old.edges :
     new.edges[e].compared # old.edges[e].compared}

GraphPatchFromDiff(old, new) ==
  Listed("add-node", DOMAIN new.nodes \ DOMAIN old.nodes, new.nodes)
    \o Listed("remove-node", DOMAIN old.nodes \ DOMAIN new.nodes, old.nodes)
    \o Listed("update-node", ChangedNodes(old, new), new.nodes)
    \o Listed("add-edge", DOMAIN new.edges \ DOMAIN old.edges, new.edges)
    \o Listed("remove-edge", DOMAIN old.edges \ DOMAIN new.edges, old.edges)
    \o Listed("update-edge", ChangedEdges(old, new), new.edges)

-----------------------------------------------------------------------------
(* Several differences merged into one patch *)

Adds == {"add-node", "add-edge"}

(* The identifier operations are merged by.  The one of an addition is looked up
   with a JSON pointer that does not begin with a slash, which finds nothing; the
   one of a node removal under the name of an edge, which it does not have. *)
MergeKey(operation) ==
  IF operation.op \in Adds \union {"remove-node"} THEN NoId ELSE operation.id

MergeOne(acc, operation) ==
  LET key == MergeKey(operation)
  IN IF operation.op \in Adds
     THEN IF \E i \in DOMAIN acc.adds : MergeKey(acc.adds[i]) = key THEN acc
          ELSE [acc EXCEPT !.adds = Append(@, operation)]
     ELSE IF \E i \in DOMAIN acc.changes : MergeKey(acc.changes[i]) = key
     THEN [acc EXCEPT !.changes =
             [i \in DOMAIN @ |-> IF MergeKey(@[i]) = key THEN operation ELSE @[i]]]
     ELSE [acc EXCEPT !.changes = Append(@, operation)]

Merged(operations) ==
  LET merged[n \in 0..Len(operations)] ==
        IF n = 0 THEN [adds |-> <<>>, changes |-> <<>>] ELSE MergeOne(merged[n - 1], operations[n])
  IN merged[Len(operations)]

DedupOperations(operations) == Merged(operations).adds \o Merged(operations).changes

Evidence(n) == [op |-> "add-node", commit |-> n]
ParentEdge(n) == [op |-> "add-edge", commit |-> n, parent |-> n - 1]

(* The differences of the commits, newest first, as Git logs them: a version
   that is missing or does not parse is skipped as the new one and counts as an
   empty project as the old one. *)
Version(n) ==
  IF n > 0 /\ revisions[n] \in ProjectContents THEN revisions[n] ELSE EmptyProject

Brought(n) ==
  IF revisions[n] \in ProjectContents THEN GraphPatchFromDiff(Version(n - 1), revisions[n]) ELSE <<>>

DiffsOfCommits ==
  LET since[n \in 0..Len(revisions)] == IF n = 0 THEN <<>> ELSE Brought(n) \o since[n - 1]
  IN IF file = Absent THEN <<>> ELSE since[Len(revisions)]

(* The two parts of the patch: the commits themselves as evidence, newest first and
   never merged, each but the first with the edge from its parent; and the merged
   differences. *)
EvidenceOfCommits ==
  [i \in 1..2 * Len(revisions) - 1 |->
     LET n == Len(revisions) - (i - 1) \div 2
     IN IF i % 2 = 1 THEN Evidence(n) ELSE ParentEdge(n)]

GraphPatchFromCommits ==
  [evidence |-> EvidenceOfCommits, operations |-> DedupOperations(DiffsOfCommits)]

-----------------------------------------------------------------------------
(* Calls *)

HistoryInit ==
  /\ file = Absent /\ index = Absent /\ revisions = <<>>
  /\ call = [c \in Calls |-> NoCall]
  /\ overtaken = {} /\ imported = Absent /\ snapshot = NoSnapshot

Reach(c, place) == call' = [call EXCEPT ![c].at = place]
KeepGit == UNCHANGED <<index, revisions>>
ReadsAnswered == imported' = Absent /\ snapshot' = NoSnapshot

(* A call has resolved the path and validated the project before it writes. *)
Begin(c, kind, p) ==
  /\ call[c].at = "idle"
  /\ call' = [call EXCEPT ![c] = [kind |-> kind, at |-> "validated", project |-> p]]
  /\ overtaken' = overtaken \ {c}
  /\ KeepGit /\ ReadsAnswered /\ UNCHANGED file

Overtakes(c) == overtaken \union {d \in Calls \ {c} : call[d].at # "idle"}

(* Opening the file for writing truncates it. *)
OpenForWriting(c) ==
  /\ call[c].at = "validated"
  /\ file' = Torn
  /\ overtaken' = Overtakes(c) \ {c}
  /\ Reach(c, "writing")
  /\ KeepGit /\ ReadsAnswered

(* Bytes written over those of another call leave the tail of the longer text. *)
WriteBytes(c) ==
  /\ call[c].at = "writing"
  /\ file' \in {call[c].project} \union (IF c \in overtaken THEN {Torn} ELSE {})
  /\ Reach(c, IF call[c].kind = "save" THEN "saved" ELSE "written")
  /\ overtaken' = Overtakes(c)
  /\ KeepGit /\ ReadsAnswered

(* A write, or any Git process, may fail; the call answers with the error and
   leaves the file and the index as they are. *)
Fail(c) ==
  /\ call[c].at \in {"writing", "written", "added", "staged"}
  /\ Reach(c, "failed")
  /\ KeepGit /\ ReadsAnswered /\ UNCHANGED <<file, overtaken>>

(* Mutant: an autosave that does not stage what it wrote. *)
GitAddForgotten(c) ==
  /\ call[c].at = "written"
  /\ Reach(c, "added")
  /\ ReadsAnswered /\ UNCHANGED <<file, index, revisions, overtaken>>

GitAdd(c) ==
  /\ call[c].at = "written"
  /\ index' = file
  /\ Reach(c, "added")
  /\ ReadsAnswered /\ UNCHANGED <<file, revisions, overtaken>>

(* Nothing staged against the last commit means that there is nothing to do. *)
GitDiffCached(c) ==
  /\ call[c].at = "added"
  /\ Reach(c, IF index = HeadContent THEN "saved" ELSE "staged")
  /\ KeepGit /\ ReadsAnswered /\ UNCHANGED <<file, overtaken>>

(* A commit limited to the path takes the file as it is now, whatever was
   staged; without a difference Git refuses it. *)
GitCommit(c) ==
  /\ call[c].at = "staged" /\ Len(revisions) < MaxCommits
  /\ index' = file
  /\ IF file = HeadContent
     THEN Reach(c, "failed") /\ UNCHANGED revisions
     ELSE Reach(c, "saved") /\ revisions' = Append(revisions, file)
  /\ ReadsAnswered /\ UNCHANGED <<file, overtaken>>

Answered(c) ==
  /\ call[c].at \in {"saved", "failed"}
  /\ call' = [call EXCEPT ![c] = NoCall]
  /\ KeepGit /\ ReadsAnswered /\ UNCHANGED <<file, overtaken>>

(* The application ends and every thread with it; what is on disk stays. *)
Restart ==
  /\ \E c \in Calls : call[c].at = "writing"
  /\ call' = [c \in Calls |-> NoCall]
  /\ overtaken' = {} /\ imported' = Absent /\ snapshot' = NoSnapshot
  /\ KeepGit /\ UNCHANGED file

(* A file that does not parse, or is no project, is refused. *)
ImportProjectFile ==
  /\ file \in ProjectContents /\ imported = Absent
  /\ imported' = file
  /\ KeepGit /\ snapshot' = NoSnapshot /\ UNCHANGED <<file, call, overtaken>>

GitSnapshot ==
  /\ revisions # <<>> /\ snapshot = NoSnapshot
  /\ snapshot' = [revisions |-> Len(revisions), diffs |-> DiffsOfCommits,
                  evidence |-> GraphPatchFromCommits.evidence,
                  operations |-> GraphPatchFromCommits.operations]
  /\ KeepGit /\ imported' = Absent /\ UNCHANGED <<file, call, overtaken>>

HistoryNext ==
  \/ \E c \in Calls : \/ \E p \in ProjectContents : Begin(c, "save", p) \/ Begin(c, "autosave", p)
                      \/ OpenForWriting(c) \/ WriteBytes(c) \/ Fail(c)
                      \/ GitAdd(c) \/ GitDiffCached(c) \/ GitCommit(c) \/ Answered(c)
  \/ Restart \/ ImportProjectFile \/ GitSnapshot

HistorySpec == HistoryInit /\ [][HistoryNext]_HistoryVars

-----------------------------------------------------------------------------
(* Properties *)

(* An autosave that answers with success has its project in the last commit,
   unless another call opened the file after it did. *)
SavedIsCommitted ==
  \A c \in Calls \ overtaken :
    call[c].kind = "autosave" /\ call[c].at = "saved" => HeadContent = call[c].project

(* A call that was not overtaken finds its own bytes in the file. *)
OwnBytesStay ==
  \A c \in Calls \ overtaken :
    /\ call[c].at \in {"written", "added", "staged", "saved"} => file = call[c].project
    /\ call[c].at = "staged" => index = call[c].project

(* The patch read from the history holds one evidence node for every commit, an
   edge from every parent, at most one change of an entity, and nothing a version
   of the project did not bring. *)
PatchOfHistory ==
  LET ops == snapshot.operations
      Update(i) == ops[i].op \in {"update-node", "update-edge"}
  IN /\ IsInjective(snapshot.evidence)
     /\ Range(snapshot.evidence) =
          {Evidence(n) : n \in 1..snapshot.revisions} \union {ParentEdge(n) : n \in 2..snapshot.revisions}
     /\ Range(ops) \subseteq Range(snapshot.diffs)
     /\ \A i, j \in DOMAIN ops : Update(i) /\ Update(j) /\ ops[i].id = ops[j].id => i = j

(* Whatever the order of the calls, a version of the project is lost only to a later
   writer, and the patch is that of the history. *)
HistorySound == SavedIsCommitted /\ OwnBytesStay /\ PatchOfHistory

(* "add operations are merged by the identifier of the entity (the first is
   kept)": every entity the versions added is added by the patch. *)
EveryAdditionIsKept ==
  \A d \in Range(snapshot.diffs) : d.op \in Adds =>
    \E o \in Range(snapshot.operations) : o.op = d.op /\ o.id = d.id

=============================================================================
