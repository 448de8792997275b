---------------------------- MODULE GraphPatches ----------------------------
(***************************************************************************)
(* The review gate of GraphPatch proposals (kernel/graph_patches.rs) over  *)
(* the registry of canonical projects (kernel/graph_projects.rs).  Plugin  *)
(* sessions propose patches; the host reviews one proposal at a time; an   *)
(* accepted patch is committed to the project while both registries are    *)
(* locked.  Each operation runs under the proposal lock, the project lock  *)
(* or, for a review, both, so it is one action.                            *)
(*                                                                         *)
(* Time is the system clock, which may also be set back.                   *)
(***************************************************************************)
EXTENDS Naturals, FiniteSets

CONSTANTS ProposalIds,     \* random and never used again
          Owners,          \* plugin, version and session of a proposal
          ProjectIds,
          Items,           \* nodes and edges of a project
          NoRecord, NoOwner,
          MaxProposals, MaxReviewed, ProposalTtl, ReviewedTtl, MaxProjects,
          Versions,        \* bound: contents an item can have
          MaxClock,        \* bound: the clock
          MaxRevision      \* bound: revisions

ASSUME PatchesAssumption ==
    /\ {MaxProposals, MaxReviewed, ProposalTtl, Versions} \subseteq Nat \ {0} /\ ReviewedTtl \in Nat
    /\ {MaxProjects, MaxClock, MaxRevision} \subseteq Nat
    /\ NoOwner \notin Owners

VARIABLES clock, proposals, projects,
          used,      \* history: proposal ids given out
          commits    \* history: how often each proposal was committed

patchesVars == <<clock, proposals, projects, used, commits>>

\* An item is absent (0) or has one of its contents.
Contents == [Items -> 0 .. Versions]
Patches == [op : {"add", "update"}, item : Items]
Revisions == 0 .. MaxRevision

Proposal == [owner : Owners, project : ProjectIds, base : Revisions, patch : Patches,
             status : {"awaiting-review", "accepted", "rejected", "expired"},
             expires : Nat, reviewed : Nat]
Project == [revision : Revisions, content : Contents, owner : Owners \union {NoOwner}]

ASSUME NoRecordAssumption == NoRecord \notin Proposal \union Project

Live(r)     == {p \in ProposalIds : r[p] # NoRecord}
Awaiting(r) == {p \in Live(r) : r[p].status = "awaiting-review"}
Reviewed(r) == Live(r) \ Awaiting(r)

PatchesTypeOK ==
    /\ clock \in 0 .. MaxClock
    /\ proposals \in [ProposalIds -> Proposal \union {NoRecord}]
    /\ projects \in [ProjectIds -> Project \union {NoRecord}]
    /\ used \subseteq ProposalIds /\ Live(proposals) \subseteq used
    /\ commits \in [ProposalIds -> Nat]
    /\ Cardinality(Live(proposals)) <= MaxProposals
    /\ Cardinality({j \in ProjectIds : projects[j] # NoRecord}) <= MaxProjects

PatchesInit ==
    /\ clock \in 0 .. MaxClock
    /\ proposals = [p \in ProposalIds |-> NoRecord]
    /\ projects = [j \in ProjectIds |-> NoRecord]
    /\ used = {}
    /\ commits = [p \in ProposalIds |-> 0]
-----------------------------------------------------------------------------
\* The proposal registry.

Without(r, gone) == [p \in ProposalIds |-> IF p \in gone THEN NoRecord ELSE r[p]]

\* Mutant: the oldest proposals are dropped, reviewed or not.
AnyOldest(r, n) ==
    {gone \in SUBSET Live(r) : Cardinality(gone) = n}

\* n reviewed proposals, oldest verdict first (any of those reviewed together).
OldestReviewed(r, n) ==
    {gone \in SUBSET Reviewed(r) :
        /\ Cardinality(gone) = n
        /\ \A g \in gone, k \in Reviewed(r) \ gone : r[g].reviewed <= r[k].reviewed}

\* Mutant: proposals never expire.
ExpiryMissed(proposal) == FALSE

IsDue(proposal) == proposal.status = "awaiting-review" /\ clock >= proposal.expires

\* Proposals past their time expire ...
Expired(r) ==
    [p \in ProposalIds |->
        IF p \in Live(r) /\ IsDue(r[p])
        THEN [r[p] EXCEPT !.status = "expired", !.reviewed = clock] ELSE r[p]]

\* ... and verdicts are forgotten after a while, counted from a clock that may
\* have gone back.
Retained(r) ==
    Without(r, {p \in Reviewed(r) : clock > r[p].reviewed + ReviewedTtl})

Excess(n, limit) == IF n > limit THEN n - limit ELSE 0

\* cleanup_expired_and_reviewed.
Cleaned(r) ==
    LET kept == Retained(Expired(r))
    IN  {Without(kept, gone) :
            gone \in OldestReviewed(kept, Excess(Cardinality(Reviewed(kept)), MaxReviewed))}

\* ensure_capacity: room for one more, taken from the reviewed ones; when they are
\* not enough all of them are gone.
WithRoom(r) ==
    LET over == Excess(Cardinality(Live(r)) + 1, MaxProposals)
        have == Cardinality(Reviewed(r))
    IN  {Without(r, gone) : gone \in OldestReviewed(r, IF over < have THEN over ELSE have)}

\* Mutant: one proposal more than the limit.
HasRoomForOneMore(r) == Cardinality(Live(r)) <= MaxProposals

HasRoom(r) == Cardinality(Live(r)) < MaxProposals

\* propose, of a patch that may be invalid.  Nothing asks for the project.
Propose(p, proposal, valid) ==
    /\ p \notin used
    /\ \E kept \in Cleaned(proposals) : \E r \in WithRoom(kept) :
          IF valid /\ HasRoom(r)
          THEN /\ proposals' = [r EXCEPT ![p] = proposal]
               /\ used' = used \union {p}
          ELSE proposals' = r /\ UNCHANGED used
    /\ UNCHANGED <<clock, projects, commits>>

\* get, or a review that names no live proposal or does not match it.
Consult ==
    /\ proposals' \in Cleaned(proposals)
    /\ UNCHANGED <<clock, projects, used, commits>>

Reject(p) ==
    /\ \E r \in Cleaned(proposals) :
          /\ p \in Awaiting(r)
          /\ proposals' = [r EXCEPT ![p].status = "rejected", ![p].reviewed = clock]
    /\ UNCHANGED <<clock, projects, used, commits>>

\* cleanup_session.
CleanupSession(owner) ==
    /\ proposals' = Without(proposals, {p \in Live(proposals) : proposals[p].owner = owner})
    /\ UNCHANGED <<clock, projects, used, commits>>
-----------------------------------------------------------------------------
\* The project registry.

Applies(content, patch) == patch.op = "add" <=> content[patch.item] = 0

\* A patch adds an item or changes one.
Patched(content, patch) ==
    [content EXCEPT ![patch.item] = IF patch.op = "add" THEN 1 ELSE Versions]

\* Mutant: the patch is applied to whatever revision the project has.
CanCommitAnywhere(proposal) ==
    LET project == projects[proposal.project] IN
    /\ project # NoRecord
    /\ Applies(project.content, proposal.patch)

\* commit_graph_patch: the project is at the proposal's base and the patch applies.
CanCommit(proposal) ==
    LET project == projects[proposal.project] IN
    /\ project # NoRecord
    /\ project.revision = proposal.base
    /\ Applies(project.content, proposal.patch)

\* Mutant: the verdict of a committed proposal is not recorded.
ForgetVerdict(r, p) == r

Accepted(r, p) == [r EXCEPT ![p].status = "accepted", ![p].reviewed = clock]

\* The next revision is written down with the new content.
Committed(proposal) ==
    [projects EXCEPT ![proposal.project].revision = proposal.base + 1,
                     ![proposal.project].content = Patched(@, proposal.patch)]

\* review, accepting: commit under both locks, else the proposal stays as it is.
\* (MaxRevision bounds the revisions; the code saturates at 2^64 - 1.)
Accept(p) ==
    /\ \E r \in Cleaned(proposals) :
          /\ p \in Awaiting(r)
          /\ r[p].base < MaxRevision
          /\ IF CanCommit(r[p])
             THEN /\ proposals' = Accepted(r, p)
                  /\ projects' = Committed(r[p])
                  /\ commits' = [commits EXCEPT ![p] = @ + 1]
             ELSE proposals' = r /\ UNCHANGED <<projects, commits>>
    /\ UNCHANGED <<clock, used>>

Syncable(j, revision, content) ==
    projects[j] # NoRecord =>
       \/ revision > projects[j].revision
       \/ revision = projects[j].revision /\ content = projects[j].content

\* sync_with_session: a newer revision replaces the project; the same one again
\* changes nothing, its owner neither.
Sync(j, revision, content, owner) ==
    /\ projects[j] = NoRecord =>
          Cardinality({k \in ProjectIds : projects[k] # NoRecord}) < MaxProjects
    /\ Syncable(j, revision, content)
    /\ projects' = [projects EXCEPT ![j] =
          IF @ # NoRecord /\ @.revision = revision /\ @.content = content THEN @
          ELSE [revision |-> revision, content |-> content, owner |-> owner]]
    /\ UNCHANGED <<clock, proposals, used, commits>>

\* remove, and cleanup_session of the projects a session synced.
Forget(gone) ==
    /\ projects' = [j \in ProjectIds |-> IF j \in gone THEN NoRecord ELSE projects[j]]
    /\ UNCHANGED <<clock, proposals, used, commits>>

OwnedBy(owner) == {j \in ProjectIds : projects[j] # NoRecord /\ projects[j].owner = owner}

\* The system clock moves on, or is set back.
SetClock ==
    /\ clock' \in 0 .. MaxClock
    /\ UNCHANGED <<proposals, projects, used, commits>>

PatchesNext ==
    \/ \E p \in ProposalIds :
          \/ \E owner \in Owners, j \in ProjectIds, base \in Revisions, patch \in Patches,
                valid \in BOOLEAN :
                Propose(p, [owner |-> owner, project |-> j, base |-> base, patch |-> patch,
                            status |-> "awaiting-review", expires |-> clock + ProposalTtl,
                            reviewed |-> 0], valid)
          \/ Reject(p) \/ Accept(p)
    \/ Consult
    \/ \E owner \in Owners : CleanupSession(owner) \/ Forget(OwnedBy(owner))
    \/ \E j \in ProjectIds, revision \in Revisions, content \in Contents,
          owner \in Owners \union {NoOwner} : Sync(j, revision, content, owner)
    \/ \E j \in ProjectIds : Forget({j})
    \/ SetClock

PatchesSpec == PatchesInit /\ [][PatchesNext]_patchesVars
-----------------------------------------------------------------------------
\* A proposal reaches its project at most once, and its record says so exactly:
\* no sequence of failed reviews, clean-ups and clock changes commits it twice.
CommittedOnce ==
    \A p \in ProposalIds :
       /\ commits[p] <= 1
       /\ p \in Live(proposals) => (commits[p] = 1 <=> proposals[p].status = "accepted")

\* The proposals: well formed, within their limits, and each committed once at most.
ProposalsSound == PatchesTypeOK /\ CommittedOnce

\* While a project stays in the registry its content changes only together with
\* its revision, which only grows: two writers never commit on the same base.
NoLostUpdate ==
    [][\A j \in ProjectIds : projects[j] # NoRecord /\ projects'[j] # NoRecord =>
          /\ projects'[j].revision >= projects[j].revision
          /\ projects'[j].content # projects[j].content =>
                projects'[j].revision > projects[j].revision]_patchesVars

\* A proposal that awaits review in time is dropped only with its whole session,
\* however full the registry is.
PendingKept ==
    [][\A p \in Awaiting(proposals) : proposals'[p] = NoRecord /\ ~ IsDue(proposals[p]) =>
          \A q \in Live(proposals) : proposals[q].owner = proposals[p].owner =>
             proposals'[q] = NoRecord]_patchesVars

\* No proposal is committed at or after the time it expires.
CommittedInTime ==
    [][\A p \in ProposalIds : commits'[p] > commits[p] => clock < proposals[p].expires]_patchesVars
=============================================================================
