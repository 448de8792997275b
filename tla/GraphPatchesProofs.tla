------------------------- MODULE GraphPatchesProofs -------------------------
(***************************************************************************)
(* Machine-checked facts about GraphPatches, for any proposals, projects,  *)
(* contents, limits and times; and about ProjectHistory, for any calls,    *)
(* projects and number of commits.                                         *)
(***************************************************************************)
EXTENDS GraphPatches, ProjectHistory, SequenceTheorems, FiniteSetTheorems,
        WellFoundedInduction, TLAPS

Registry == [ProposalIds -> Proposal \union {NoRecord}]

LEMMA ConstantsTyped ==
  /\ MaxProposals \in Nat \ {0} /\ MaxReviewed \in Nat /\ ProposalTtl \in Nat
  /\ ReviewedTtl \in Nat /\ Versions \in Nat \ {0}
  /\ MaxProjects \in Nat /\ MaxClock \in Nat /\ MaxRevision \in Nat
  /\ NoRecord \notin Proposal /\ NoRecord \notin Project /\ NoOwner \notin Owners
BY PatchesAssumption, NoRecordAssumption

\* The inductive invariant.  CommittedOnce alone is not inductive: a new proposal
\* must have an id that was never committed, which Unused says, and ids of live
\* proposals must not be given out again, which the type invariant says.
Unused == \A p \in ProposalIds \ used : commits[p] = 0

Held == {j \in ProjectIds : projects[j] # NoRecord}

PatchesInv ==
    /\ PatchesTypeOK
    /\ IsFiniteSet(Live(proposals)) /\ IsFiniteSet(Held)
    /\ Unused
    /\ CommittedOnce

\* What PatchesInv says of a registry of proposals, by itself.
Sound(r) ==
    /\ r \in Registry
    /\ Live(r) \subseteq used
    /\ IsFiniteSet(Live(r)) /\ Cardinality(Live(r)) <= MaxProposals
    /\ \A p \in Live(r) : commits[p] = 1 <=> r[p].status = "accepted"

\* What one step of a clean-up may have made of the proposals r: nothing, an expired
\* proposal out of one that was due, or a gap where no proposal in time was.
Kept(r, s) ==
    /\ s \in Registry
    /\ \A p \in ProposalIds : s[p] \in {NoRecord, r[p], [r[p] EXCEPT !.status = "expired",
                                                                  !.reviewed = clock]}
    /\ \A p \in ProposalIds : r[p] = NoRecord => s[p] = NoRecord
    /\ \A p \in Awaiting(r) : IF IsDue(r[p]) THEN p \notin Awaiting(s) ELSE s[p] = r[p]
    /\ \A p \in ProposalIds : s[p] # NoRecord /\ s[p] # r[p] => p \in Awaiting(r)

\* cleanup_expired_and_reviewed touches no proposal that awaits review in time.
LEMMA CleanedKeeps ==
  ASSUME NEW r \in Registry, clock \in 0 .. MaxClock, NEW s \in Cleaned(r)
  PROVE  Kept(r, s)
<1>. DEFINE e    == Expired(r)
            kept == Retained(e)
<1>1. PICK gone \in OldestReviewed(kept, Excess(Cardinality(Reviewed(kept)), MaxReviewed)) :
        s = Without(kept, gone)
  BY DEF Cleaned
<1>2. gone \subseteq Reviewed(kept)
  BY DEF OldestReviewed
<1>. DEFINE old == {p \in Reviewed(e) : clock > e[p].reviewed + ReviewedTtl}
<1>3. /\ \A p \in ProposalIds : kept[p] = IF p \in old THEN NoRecord ELSE e[p]
      /\ \A p \in ProposalIds : s[p] = IF p \in gone THEN NoRecord ELSE kept[p]
      /\ DOMAIN s = ProposalIds
      /\ s = [p \in ProposalIds |-> IF p \in gone THEN NoRecord ELSE kept[p]]
  BY <1>1 DEF Retained, Without
<1>4. \A p \in ProposalIds :
         e[p] = IF p \in Live(r) /\ IsDue(r[p])
                THEN [r[p] EXCEPT !.status = "expired", !.reviewed = clock] ELSE r[p]
  BY DEF Expired
<1>. HIDE DEF e, kept, old
<1>5. \A p \in ProposalIds : s[p] = NoRecord \/ s[p] = e[p]
  BY <1>3
<1>6. \A p \in ProposalIds : r[p] = NoRecord \/ r[p] \in Proposal
  BY DEF Registry
<1>7. \A p \in Live(r) : [r[p] EXCEPT !.status = "expired", !.reviewed = clock] \in Proposal
  <2>1. clock \in Nat
    BY ConstantsTyped
  <2>. QED BY <2>1, <1>6 DEF Live, Proposal
<1>8. s \in Registry
  <2>1. \A p \in ProposalIds : s[p] \in Proposal \union {NoRecord}
    BY <1>4, <1>5, <1>6, <1>7
  <2>. QED BY <2>1, <1>3 DEF Registry
<1>9. \A p \in ProposalIds : s[p] \in {NoRecord, r[p], [r[p] EXCEPT !.status = "expired",
                                                                    !.reviewed = clock]}
  BY <1>4, <1>5
<1>10. \A p \in ProposalIds : r[p] = NoRecord => s[p] = NoRecord
  BY <1>4, <1>5 DEF Live
<1>11. ASSUME NEW p \in Awaiting(r), ~ IsDue(r[p]) PROVE s[p] = r[p]
  <2>1. p \in ProposalIds /\ p \in Live(r) /\ e[p] = r[p] /\ r[p].status = "awaiting-review"
    BY <1>4, <1>11 DEF Awaiting, Live
  <2>2. p \in Awaiting(e)
    BY <2>1 DEF Awaiting, Live
  <2>3. p \notin old
    BY <2>2 DEF old, Reviewed
  <2>4. kept[p] = r[p]
    BY <1>3, <2>1, <2>3
  <2>5. p \in Awaiting(kept)
    BY <2>1, <2>4 DEF Awaiting, Live
  <2>6. p \notin gone
    BY <1>2, <2>5 DEF Reviewed
  <2>. QED BY <1>3, <2>1, <2>4, <2>6
<1>12. ASSUME NEW p \in Awaiting(r), IsDue(r[p]) PROVE p \notin Awaiting(s)
  <2>1. p \in ProposalIds /\ p \in Live(r)
    BY DEF Awaiting, Live
  <2>2. e[p] = [r[p] EXCEPT !.status = "expired", !.reviewed = clock] /\ r[p] \in Proposal
    BY <1>4, <1>6, <1>12, <2>1 DEF Live
  <2>3. e[p].status = "expired"
    BY <2>2 DEF Proposal
  <2>. QED BY <1>5, <2>1, <2>3 DEF Awaiting, Live
<1>13. ASSUME NEW p \in ProposalIds, s[p] # NoRecord, s[p] # r[p] PROVE p \in Awaiting(r)
  <2>1. p \in Live(r) /\ IsDue(r[p])
    BY <1>4, <1>5, <1>13
  <2>. QED BY <2>1 DEF IsDue, Awaiting
<1>. QED BY <1>8, <1>9, <1>10, <1>11, <1>12, <1>13 DEF Kept

\* ensure_capacity takes reviewed proposals only.
LEMMA RoomKeeps ==
  ASSUME NEW r \in Registry, NEW s \in WithRoom(r)
  PROVE  /\ s \in Registry
         /\ \A p \in ProposalIds : s[p] \in {NoRecord, r[p]}
         /\ \A p \in Awaiting(r) : s[p] = r[p]
<1>1. PICK gone \in SUBSET Reviewed(r) : s = Without(r, gone)
  BY DEF WithRoom, OldestReviewed
<1>2. /\ \A p \in ProposalIds : s[p] = IF p \in gone THEN NoRecord ELSE r[p]
      /\ s = [p \in ProposalIds |-> IF p \in gone THEN NoRecord ELSE r[p]]
  BY <1>1 DEF Without
<1>3. \A p \in Awaiting(r) : p \in ProposalIds /\ p \notin gone
  BY <1>1 DEF Reviewed, Awaiting, Live
<1>4. s \in Registry
  BY <1>2 DEF Registry
<1>. QED BY <1>2, <1>3, <1>4

LEMMA FewerLive ==
  ASSUME NEW A, NEW B \in SUBSET A, IsFiniteSet(A), Cardinality(A) <= MaxProposals
  PROVE  IsFiniteSet(B) /\ Cardinality(B) <= MaxProposals /\ Cardinality(B) \in Nat
<1>1. IsFiniteSet(B) /\ Cardinality(B) <= Cardinality(A)
  BY FS_Subset
<1>2. Cardinality(A) \in Nat /\ Cardinality(B) \in Nat
  BY <1>1, FS_CardinalityType
<1>. QED BY <1>1, <1>2, ConstantsTyped

LEMMA CleanedSound ==
  ASSUME NEW r, Sound(r), clock \in 0 .. MaxClock, NEW s \in Cleaned(r)
  PROVE  Sound(s) /\ Kept(r, s)
<1>1. Kept(r, s)
  BY CleanedKeeps DEF Sound
<1>2. Live(s) \subseteq Live(r)
  BY <1>1 DEF Kept, Live
<1>3. IsFiniteSet(Live(s)) /\ Cardinality(Live(s)) <= MaxProposals
  BY <1>2, FewerLive DEF Sound
<1>4. ASSUME NEW p \in Live(s) PROVE commits[p] = 1 <=> s[p].status = "accepted"
  <2>1. p \in Live(r) /\ s[p] # NoRecord /\ p \in ProposalIds
    BY <1>2 DEF Live
  <2>2. CASE s[p] = r[p]
    BY <2>1, <2>2 DEF Sound
  <2>3. CASE s[p] # r[p]
    <3>1. r[p].status = "awaiting-review" /\ r[p] \in Proposal
      BY <1>1, <2>1, <2>3 DEF Kept, Awaiting, Live, Sound, Registry
    <3>2. s[p] = [r[p] EXCEPT !.status = "expired", !.reviewed = clock]
      BY <1>1, <2>1, <2>3 DEF Kept
    <3>3. s[p].status = "expired"
      BY <3>1, <3>2 DEF Proposal
    <3>. QED BY <2>1, <3>1, <3>3 DEF Sound
  <2>. QED BY <2>2, <2>3
<1>. QED BY <1>1, <1>2, <1>3, <1>4 DEF Sound, Kept

LEMMA RoomSound ==
  ASSUME NEW r, Sound(r), NEW s \in WithRoom(r)
  PROVE  Sound(s)
<1>1. s \in Registry /\ \A p \in ProposalIds : s[p] \in {NoRecord, r[p]}
  BY RoomKeeps DEF Sound
<1>2. Live(s) \subseteq Live(r)
  BY <1>1 DEF Live
<1>3. IsFiniteSet(Live(s)) /\ Cardinality(Live(s)) <= MaxProposals
  BY <1>2, FewerLive DEF Sound
<1>4. \A p \in Live(s) : s[p] = r[p]
  BY <1>1 DEF Live
<1>. QED BY <1>1, <1>2, <1>3, <1>4 DEF Sound

LEMMA InvIsSound == PatchesInv => Sound(proposals) /\ clock \in 0 .. MaxClock
BY DEF PatchesInv, PatchesTypeOK, Sound, CommittedOnce, Registry

\* A step that keeps the proposals sound and touches neither ids, counts nor
\* projects keeps the invariant.
LEMMA SoundStep ==
  ASSUME PatchesInv, NEW s, Sound(s), proposals' = s,
         UNCHANGED <<clock, projects, used, commits>>
  PROVE  PatchesInv'
<1>1. Live(proposals)' = Live(s) /\ Held' = Held
  BY DEF Live, Held
<1>2. /\ clock' = clock /\ used' = used /\ commits' = commits /\ projects' = projects
  OBVIOUS
<1>3. PatchesTypeOK'
  BY <1>1, <1>2 DEF PatchesInv, PatchesTypeOK, Sound, Registry, Held
<1>4. CommittedOnce'
  <2>1. \A p \in ProposalIds : commits'[p] <= 1
    BY <1>2 DEF PatchesInv, CommittedOnce
  <2>2. \A p \in Live(s) : commits'[p] = 1 <=> proposals'[p].status = "accepted"
    BY <1>2 DEF Sound
  <2>. QED BY <1>1, <2>1, <2>2 DEF CommittedOnce
<1>5. IsFiniteSet(Live(proposals)') /\ IsFiniteSet(Held')
  BY <1>1 DEF PatchesInv, Sound
<1>6. Unused'
  BY <1>2 DEF PatchesInv, Unused
<1>. QED BY <1>3, <1>4, <1>5, <1>6 DEF PatchesInv

-----------------------------------------------------------------------------
LEMMA PatchesInitInv == PatchesInit => PatchesInv
<1>. SUFFICES ASSUME PatchesInit PROVE PatchesInv
  OBVIOUS
<1>1. Live(proposals) = {} /\ Held = {}
  BY DEF PatchesInit, Live, Held
<1>2. IsFiniteSet({}) /\ Cardinality({}) = 0
  BY FS_EmptySet
<1>3. 0 <= MaxProposals /\ 0 <= MaxProjects
  BY ConstantsTyped
<1>4. /\ IsFiniteSet(Live(proposals)) /\ IsFiniteSet(Held)
      /\ Cardinality(Live(proposals)) <= MaxProposals /\ Cardinality(Held) <= MaxProjects
  BY <1>1, <1>2, <1>3
<1>5. /\ clock \in 0 .. MaxClock
      /\ proposals \in [ProposalIds -> Proposal \union {NoRecord}]
      /\ projects \in [ProjectIds -> Project \union {NoRecord}]
      /\ used = {} /\ Live(proposals) \subseteq used
      /\ commits \in [ProposalIds -> Nat] /\ \A p \in ProposalIds : commits[p] = 0
  BY <1>1 DEF PatchesInit
<1>6. PatchesTypeOK
  BY <1>4, <1>5 DEF PatchesTypeOK, Held
<1>7. Unused /\ CommittedOnce
  BY <1>1, <1>5 DEF Unused, CommittedOnce
<1>. QED BY <1>4, <1>6, <1>7 DEF PatchesInv

LEMMA RejectInv ==
  ASSUME PatchesInv, NEW p \in ProposalIds, Reject(p)
  PROVE  PatchesInv'
<1>1. PICK r \in Cleaned(proposals) :
        /\ p \in Awaiting(r)
        /\ proposals' = [r EXCEPT ![p].status = "rejected", ![p].reviewed = clock]
  BY DEF Reject
<1>2. Sound(r)
  BY CleanedSound, InvIsSound
<1>. DEFINE s == [r EXCEPT ![p].status = "rejected", ![p].reviewed = clock]
<1>3. p \in Live(r) /\ r[p] \in Proposal /\ r[p].status = "awaiting-review" /\ r \in Registry
  BY <1>1, <1>2 DEF Awaiting, Live, Sound, Registry
<1>4. clock \in Nat
  BY ConstantsTyped, InvIsSound
<1>5. s[p] \in Proposal /\ s[p].status = "rejected" /\ s[p] # NoRecord
  BY <1>3, <1>4, ConstantsTyped DEF Proposal, Registry
<1>6. s \in Registry /\ \A q \in ProposalIds \ {p} : s[q] = r[q]
  BY <1>3, <1>5 DEF Registry
<1>. HIDE DEF s
<1>7. Live(s) = Live(r)
  BY <1>3, <1>5, <1>6 DEF Live
<1>8. \A q \in Live(s) : commits[q] = 1 <=> s[q].status = "accepted"
  <2>. SUFFICES ASSUME NEW q \in Live(s) PROVE commits[q] = 1 <=> s[q].status = "accepted"
    OBVIOUS
  <2>1. q \in ProposalIds /\ (commits[q] = 1 <=> r[q].status = "accepted")
    BY <1>2, <1>7 DEF Sound, Live
  <2>. QED BY <2>1, <1>3, <1>5, <1>6
<1>9. Sound(s)
  BY <1>2, <1>6, <1>7, <1>8 DEF Sound
<1>10. proposals' = s /\ UNCHANGED <<clock, projects, used, commits>>
  BY <1>1 DEF s, Reject
<1>. QED BY <1>9, <1>10, SoundStep

LEMMA ConsultInv == PatchesInv /\ Consult => PatchesInv'
<1>. SUFFICES ASSUME PatchesInv, Consult PROVE PatchesInv'
  OBVIOUS
<1>1. PICK s \in Cleaned(proposals) : proposals' = s
  BY DEF Consult
<1>2. Sound(s)
  BY CleanedSound, InvIsSound
<1>. QED BY <1>1, <1>2, SoundStep DEF Consult

LEMMA CleanupSessionInv ==
  ASSUME PatchesInv, NEW owner \in Owners, CleanupSession(owner)
  PROVE  PatchesInv'
<1>. DEFINE gone == {p \in Live(proposals) : proposals[p].owner = owner}
            s    == Without(proposals, gone)
<1>1. Sound(proposals)
  BY InvIsSound
<1>2. /\ \A p \in ProposalIds : s[p] = IF p \in gone THEN NoRecord ELSE proposals[p]
      /\ s = [p \in ProposalIds |-> IF p \in gone THEN NoRecord ELSE proposals[p]]
  BY DEF Without
<1>3. proposals' = s /\ UNCHANGED <<clock, projects, used, commits>>
  BY DEF CleanupSession
<1>. HIDE DEF gone, s
<1>4. s \in Registry
  BY <1>1, <1>2 DEF Sound, Registry
<1>5. Live(s) \subseteq Live(proposals) /\ \A p \in Live(s) : s[p] = proposals[p]
  BY <1>2 DEF Live
<1>6. IsFiniteSet(Live(s)) /\ Cardinality(Live(s)) <= MaxProposals
  BY <1>1, <1>5, FewerLive DEF Sound
<1>7. Sound(s)
  BY <1>1, <1>4, <1>5, <1>6 DEF Sound
<1>. QED BY <1>3, <1>7, SoundStep

\* The record PatchesNext proposes.
NewProposal(owner, j, base, patch) ==
    [owner |-> owner, project |-> j, base |-> base, patch |-> patch,
     status |-> "awaiting-review", expires |-> clock + ProposalTtl, reviewed |-> 0]

LEMMA ProposeInv ==
  ASSUME PatchesInv, NEW p \in ProposalIds, NEW owner \in Owners, NEW j \in ProjectIds,
         NEW base \in Revisions, NEW patch \in Patches, NEW valid \in BOOLEAN,
         Propose(p, NewProposal(owner, j, base, patch), valid)
  PROVE  PatchesInv'
<1>. DEFINE n == NewProposal(owner, j, base, patch)
<1>1. clock \in Nat
  BY ConstantsTyped, InvIsSound
<1>2. n \in Proposal /\ n # NoRecord /\ n.status = "awaiting-review"
  <2>1. n \in Proposal
    BY <1>1, ConstantsTyped DEF NewProposal, Proposal
  <2>. QED BY <2>1, ConstantsTyped DEF NewProposal
<1>. HIDE DEF n
<1>3. PICK kept \in Cleaned(proposals) : \E r \in WithRoom(kept) :
        IF valid /\ HasRoom(r)
        THEN /\ proposals' = [r EXCEPT ![p] = n]
             /\ used' = used \union {p}
        ELSE proposals' = r /\ UNCHANGED used
  BY <1>2 DEF Propose, n
<1>4. PICK r \in WithRoom(kept) :
        IF valid /\ HasRoom(r)
        THEN /\ proposals' = [r EXCEPT ![p] = n]
             /\ used' = used \union {p}
        ELSE proposals' = r /\ UNCHANGED used
  BY <1>3
<1>5. UNCHANGED <<clock, projects, commits>> /\ p \notin used
  BY DEF Propose
<1>6. Sound(r)
  BY CleanedSound, InvIsSound, RoomSound
<1>7. CASE ~ (valid /\ HasRoom(r))
  BY <1>4, <1>5, <1>6, <1>7, SoundStep
<1>8. CASE valid /\ HasRoom(r)
  <2>. DEFINE s == [r EXCEPT ![p] = n]
  <2>1. s \in Registry /\ s[p] = n /\ \A q \in ProposalIds \ {p} : s[q] = r[q]
    BY <1>2, <1>6 DEF Sound, Registry
  <2>2. proposals' = s /\ used' = used \union {p}
    BY <1>4, <1>8
  <2>. HIDE DEF s
  <2>4. Live(s) = Live(r) \union {p} /\ p \notin Live(r)
    BY <2>1, <1>2, <1>5, <1>6 DEF Live, Sound
  <2>5. IsFiniteSet(Live(s)) /\ Cardinality(Live(s)) = Cardinality(Live(r)) + 1
    BY <2>4, <1>6, FS_AddElement DEF Sound
  <2>6. Cardinality(Live(s)) <= MaxProposals
    <3>1. Cardinality(Live(r)) < MaxProposals /\ Cardinality(Live(r)) \in Nat
      BY <1>6, <1>8, FS_CardinalityType DEF HasRoom, Sound
    <3>. QED BY <3>1, <2>5, ConstantsTyped
  <2>7. commits[p] = 0
    BY <1>5 DEF PatchesInv, Unused
  <2>8. \A q \in Live(s) : commits[q] = 1 <=> s[q].status = "accepted"
    <3>. SUFFICES ASSUME NEW q \in Live(s)
                  PROVE  commits[q] = 1 <=> s[q].status = "accepted"
      OBVIOUS
    <3>1. CASE q = p
      BY <3>1, <2>1, <2>7, <1>2
    <3>2. CASE q # p
      BY <3>2, <2>1, <2>4, <1>6 DEF Sound, Live
    <3>. QED BY <3>1, <3>2
  <2>9. Live(proposals)' = Live(s) /\ Held' = Held
    BY <2>2, <1>5 DEF Live, Held
  <2>11. PatchesTypeOK'
    <3>1. Live(proposals)' \subseteq used' /\ used' \subseteq ProposalIds
      BY <2>2, <2>4, <2>9, <1>6 DEF Sound, PatchesInv, PatchesTypeOK
    <3>2. proposals' \in [ProposalIds -> Proposal \union {NoRecord}]
      BY <2>1, <2>2 DEF Registry
    <3>3. Cardinality(Live(proposals)') <= MaxProposals
      BY <2>6, <2>9
    <3>4. Cardinality(Held') <= MaxProjects
      BY <2>9 DEF PatchesInv, PatchesTypeOK, Held
    <3>5. /\ clock' \in 0 .. MaxClock /\ commits' \in [ProposalIds -> Nat]
          /\ projects' \in [ProjectIds -> Project \union {NoRecord}]
      BY <1>5 DEF PatchesInv, PatchesTypeOK
    <3>. QED BY <3>1, <3>2, <3>3, <3>4, <3>5 DEF PatchesTypeOK, Held
  <2>12. CommittedOnce'
    BY <2>2, <2>8, <2>9, <1>5 DEF CommittedOnce, PatchesInv
  <2>13. Unused'
    BY <2>2, <1>5 DEF Unused, PatchesInv
  <2>14. IsFiniteSet(Live(proposals)') /\ IsFiniteSet(Held')
    BY <2>5, <2>9 DEF PatchesInv
  <2>. QED BY <2>11, <2>12, <2>13, <2>14 DEF PatchesInv
<1>. QED BY <1>7, <1>8

LEMMA AcceptInv ==
  ASSUME PatchesInv, NEW p \in ProposalIds, Accept(p)
  PROVE  PatchesInv'
<1>1. PICK r \in Cleaned(proposals) :
        /\ p \in Awaiting(r)
        /\ r[p].base < MaxRevision
        /\ IF CanCommit(r[p])
           THEN /\ proposals' = Accepted(r, p)
                /\ projects' = Committed(r[p])
                /\ commits' = [commits EXCEPT ![p] = @ + 1]
           ELSE proposals' = r /\ UNCHANGED <<projects, commits>>
  BY DEF Accept
<1>2. UNCHANGED <<clock, used>>
  BY DEF Accept
<1>3. Sound(r)
  BY CleanedSound, InvIsSound
<1>4. p \in Live(r) /\ r[p] \in Proposal /\ r[p].status = "awaiting-review" /\ r \in Registry
  BY <1>1, <1>3 DEF Awaiting, Live, Sound, Registry
<1>5. CASE ~ CanCommit(r[p])
  BY <1>1, <1>2, <1>3, <1>5, SoundStep
<1>6. CASE CanCommit(r[p])
  <2>. DEFINE s == Accepted(r, p)
              j == r[p].project
              b == r[p].base
  <2>1. clock \in Nat
    BY ConstantsTyped, InvIsSound
  <2>2. s = [r EXCEPT ![p].status = "accepted", ![p].reviewed = clock]
    BY DEF Accepted
  <2>3. s[p] \in Proposal /\ s[p].status = "accepted" /\ s[p] # NoRecord
    <3>1. s[p] = [r[p] EXCEPT !.status = "accepted", !.reviewed = clock]
      BY <1>4, <2>2 DEF Registry
    <3>2. s[p] \in Proposal /\ s[p].status = "accepted"
      BY <1>4, <2>1, <3>1 DEF Proposal
    <3>. QED BY <3>2, ConstantsTyped
  <2>4. s \in Registry /\ \A q \in ProposalIds \ {p} : s[q] = r[q]
    BY <1>4, <2>2, <2>3 DEF Registry
  <2>5. proposals' = s /\ commits' = [commits EXCEPT ![p] = @ + 1]
    BY <1>1, <1>6
  <2>6. projects' = [projects EXCEPT ![j].revision = b + 1,
                                     ![j].content = Patched(@, r[p].patch)]
    BY <1>1, <1>6 DEF Committed
  <2>. HIDE DEF s
  <2>7. Live(s) = Live(r)
    BY <1>4, <2>3, <2>4 DEF Live
  <2>8. commits[p] = 0
    BY <1>3, <1>4 DEF Sound, PatchesInv, PatchesTypeOK, CommittedOnce
  <2>9. commits' \in [ProposalIds -> Nat] /\ commits'[p] = 1
        /\ \A q \in ProposalIds \ {p} : commits'[q] = commits[q]
    BY <2>5, <2>8 DEF PatchesInv, PatchesTypeOK
  <2>10. CommittedOnce'
    <3>1. \A q \in ProposalIds : commits'[q] <= 1
      BY <2>9 DEF PatchesInv, CommittedOnce
    <3>2. ASSUME NEW q \in Live(s) PROVE commits'[q] = 1 <=> s[q].status = "accepted"
      <4>1. CASE q = p
        BY <4>1, <2>3, <2>9
      <4>2. CASE q # p
        BY <4>2, <2>4, <2>7, <2>9, <1>3 DEF Sound, Live
      <4>. QED BY <4>1, <4>2
    <3>3. Live(proposals)' = Live(s)
      BY <2>5 DEF Live
    <3>. QED BY <3>1, <3>2, <3>3, <2>5 DEF CommittedOnce
  <2>11. /\ j \in ProjectIds /\ b \in Revisions /\ b + 1 \in Revisions
         /\ r[p].patch \in Patches /\ projects[j] # NoRecord /\ projects[j] \in Project
    <3>1. j \in ProjectIds /\ b \in Revisions /\ r[p].patch \in Patches
      BY <1>4 DEF Proposal
    <3>2. b + 1 \in Revisions
      BY <1>1, <3>1, ConstantsTyped DEF Revisions
    <3>3. projects[j] # NoRecord
      BY <1>6 DEF CanCommit
    <3>. QED BY <3>1, <3>2, <3>3 DEF PatchesInv, PatchesTypeOK
  <2>12. Patched(projects[j].content, r[p].patch) \in Contents
    <3>1. projects[j].content \in Contents
      BY <2>11 DEF Project
    <3>2. 1 \in 0 .. Versions /\ Versions \in 0 .. Versions
      BY ConstantsTyped
    <3>. QED BY <3>1, <3>2 DEF Patched, Contents
  <2>13. projects'[j] \in Project /\ \A k \in ProjectIds \ {j} : projects'[k] = projects[k]
    BY <2>6, <2>11, <2>12 DEF Project, PatchesInv, PatchesTypeOK
  <2>14. projects' \in [ProjectIds -> Project \union {NoRecord}]
    BY <2>6, <2>13 DEF PatchesInv, PatchesTypeOK
  <2>15. Held' = Held
    BY <2>11, <2>13, ConstantsTyped DEF Held
  <2>16. Live(proposals)' = Live(s)
    BY <2>5 DEF Live
  <2>17. PatchesTypeOK'
    <3>1. Live(proposals)' \subseteq used' /\ used' \subseteq ProposalIds
      BY <1>2, <1>3, <2>7, <2>16 DEF Sound, PatchesInv, PatchesTypeOK
    <3>2. proposals' \in [ProposalIds -> Proposal \union {NoRecord}]
      BY <2>4, <2>5 DEF Registry
    <3>3. Cardinality(Live(proposals)') <= MaxProposals
      BY <1>3, <2>7, <2>16 DEF Sound
    <3>4. Cardinality(Held') <= MaxProjects
      BY <2>15 DEF PatchesInv, PatchesTypeOK, Held
    <3>5. clock' \in 0 .. MaxClock
      BY <1>2 DEF PatchesInv, PatchesTypeOK
    <3>. QED BY <3>1, <3>2, <3>3, <3>4, <3>5, <2>9, <2>14 DEF PatchesTypeOK, Held
  <2>18. Unused'
    <3>1. p \in used
      BY <1>3, <1>4 DEF Sound
    <3>. QED BY <3>1, <1>2, <2>9 DEF Unused, PatchesInv
  <2>19. IsFiniteSet(Live(proposals)') /\ IsFiniteSet(Held')
    BY <1>3, <2>7, <2>15, <2>16 DEF Sound, PatchesInv
  <2>. QED BY <2>10, <2>17, <2>18, <2>19 DEF PatchesInv
<1>. QED BY <1>5, <1>6

\* A step of the project registry alone.
LEMMA ProjectStep ==
  ASSUME PatchesInv, UNCHANGED <<clock, proposals, used, commits>>,
         projects' \in [ProjectIds -> Project \union {NoRecord}],
         IsFiniteSet(Held'), Cardinality(Held') <= MaxProjects
  PROVE  PatchesInv'
<1>1. /\ clock' = clock /\ proposals' = proposals /\ used' = used /\ commits' = commits
  OBVIOUS
<1>2. Live(proposals)' = Live(proposals)
  BY <1>1 DEF Live
<1>3. PatchesTypeOK'
  BY <1>1, <1>2 DEF PatchesInv, PatchesTypeOK, Held
<1>4. Unused' /\ CommittedOnce'
  BY <1>1, <1>2 DEF PatchesInv, Unused, CommittedOnce
<1>. QED BY <1>2, <1>3, <1>4 DEF PatchesInv

LEMMA SyncInv ==
  ASSUME PatchesInv, NEW j \in ProjectIds, NEW revision \in Revisions,
         NEW content \in Contents, NEW owner \in Owners \union {NoOwner},
         Sync(j, revision, content, owner)
  PROVE  PatchesInv'
<1>. DEFINE n == [revision |-> revision, content |-> content, owner |-> owner]
<1>1. n \in Project /\ n # NoRecord
  BY ConstantsTyped DEF Project
<1>2. \/ projects' = projects
      \/ projects' = [projects EXCEPT ![j] = n]
  BY DEF Sync, PatchesInv, PatchesTypeOK
<1>3. projects[j] = NoRecord => Cardinality(Held) < MaxProjects
  BY DEF Sync, Held
<1>4. UNCHANGED <<clock, proposals, used, commits>>
  BY DEF Sync
<1>. HIDE DEF n
<1>5. projects' \in [ProjectIds -> Project \union {NoRecord}]
  BY <1>1, <1>2 DEF PatchesInv, PatchesTypeOK
<1>6. IsFiniteSet(Held) /\ Cardinality(Held) <= MaxProjects /\ Cardinality(Held) \in Nat
  BY FS_CardinalityType DEF PatchesInv, PatchesTypeOK, Held
<1>7. IsFiniteSet(Held') /\ Cardinality(Held') <= MaxProjects
  <2>1. CASE Held' = Held
    BY <1>6, <2>1
  <2>2. CASE Held' # Held
    <3>1. projects' = [projects EXCEPT ![j] = n] /\ projects[j] = NoRecord
      BY <2>2, <1>1, <1>2 DEF Held, PatchesInv, PatchesTypeOK
    <3>2. Held' = Held \union {j} /\ j \notin Held
      BY <3>1, <1>1 DEF Held, PatchesInv, PatchesTypeOK
    <3>3. IsFiniteSet(Held') /\ Cardinality(Held') = Cardinality(Held) + 1
      BY <3>2, <1>6, FS_AddElement
    <3>4. Cardinality(Held) < MaxProjects
      BY <3>1, <1>3
    <3>. QED BY <3>3, <3>4, <1>6, ConstantsTyped
  <2>. QED BY <2>1, <2>2
<1>. QED BY <1>4, <1>5, <1>7, ProjectStep

LEMMA ForgetInv ==
  ASSUME PatchesInv, NEW gone, Forget(gone)
  PROVE  PatchesInv'
<1>1. projects' = [j \in ProjectIds |-> IF j \in gone THEN NoRecord ELSE projects[j]]
      /\ UNCHANGED <<clock, proposals, used, commits>>
  BY DEF Forget
<1>2. projects' \in [ProjectIds -> Project \union {NoRecord}] /\ Held' \subseteq Held
  BY <1>1 DEF PatchesInv, PatchesTypeOK, Held
<1>3. /\ IsFiniteSet(Held) /\ Cardinality(Held) <= MaxProjects
      /\ IsFiniteSet(Held') /\ Cardinality(Held') <= Cardinality(Held)
  BY <1>2, FS_Subset DEF PatchesInv, PatchesTypeOK, Held
<1>4. Cardinality(Held) \in Nat /\ Cardinality(Held') \in Nat
  BY <1>3, FS_CardinalityType
<1>5. Cardinality(Held') <= MaxProjects
  BY <1>3, <1>4, ConstantsTyped
<1>. QED BY <1>1, <1>2, <1>3, <1>5, ProjectStep

LEMMA SetClockInv == PatchesInv /\ SetClock => PatchesInv'
<1>. SUFFICES ASSUME PatchesInv, SetClock PROVE PatchesInv'
  OBVIOUS
<1>1. /\ clock' \in 0 .. MaxClock
      /\ proposals' = proposals /\ used' = used /\ commits' = commits
      /\ projects' = projects
  BY DEF SetClock
<1>2. Live(proposals)' = Live(proposals) /\ Held' = Held
  BY <1>1 DEF Live, Held
<1>3. PatchesTypeOK'
  BY <1>1, <1>2 DEF PatchesInv, PatchesTypeOK, Held
<1>4. Unused' /\ CommittedOnce'
  BY <1>1, <1>2 DEF PatchesInv, Unused, CommittedOnce
<1>. QED BY <1>2, <1>3, <1>4 DEF PatchesInv

LEMMA PatchesNextInv == PatchesInv /\ [PatchesNext]_patchesVars => PatchesInv'
<1>. SUFFICES ASSUME PatchesInv, [PatchesNext]_patchesVars PROVE PatchesInv'
  OBVIOUS
<1>1. CASE PatchesNext
  BY <1>1, ProposeInv, RejectInv, AcceptInv, ConsultInv, CleanupSessionInv, SyncInv,
     ForgetInv, SetClockInv DEF PatchesNext, NewProposal
<1>2. CASE UNCHANGED patchesVars
  <2>1. UNCHANGED <<clock, proposals, used, commits>> /\ projects' = projects
    BY <1>2 DEF patchesVars
  <2>2. Held' = Held
    BY <2>1 DEF Held
  <2>. QED BY <2>1, <2>2, ProjectStep DEF PatchesInv, PatchesTypeOK, Held
<1>. QED BY <1>1, <1>2

\* Every reachable state of the two registries keeps the inductive invariant, whatever
\* is proposed, reviewed or removed and wherever the clock is set.
THEOREM PatchesInvariant == PatchesSpec => []PatchesInv
BY PatchesInitInv, PatchesNextInv, PTL DEF PatchesSpec

\* Both registries stay within their limits and their records well-formed.
THEOREM PatchesTypeCorrect == PatchesSpec => []PatchesTypeOK
<1>1. PatchesInv => PatchesTypeOK
  BY DEF PatchesInv
<1>. QED BY PatchesInvariant, <1>1, PTL

\* No proposal is committed twice, and its record says whether it was committed.
THEOREM EveryProposalCommittedOnce == PatchesSpec => []CommittedOnce
<1>1. PatchesInv => CommittedOnce
  BY DEF PatchesInv
<1>. QED BY PatchesInvariant, <1>1, PTL

\* GraphPatchRegistry and the commits keep their limits and their accounts at once.
THEOREM ProposalsStaySound == PatchesSpec => []ProposalsSound
<1>1. PatchesInv => ProposalsSound
  BY DEF PatchesInv, ProposalsSound
<1>. QED BY PatchesInvariant, <1>1, PTL
-----------------------------------------------------------------------------
\* Only reviews, syncs and removals touch projects; only reviews count commits.
LEMMA Frames ==
  /\ \A p, n, valid : Propose(p, n, valid) => UNCHANGED <<projects, commits>>
  /\ \A p : Reject(p) => UNCHANGED <<projects, commits>>
  /\ Consult => UNCHANGED <<projects, commits>>
  /\ \A owner : CleanupSession(owner) => UNCHANGED <<projects, commits>>
  /\ \A j, revision, content, owner :
        Sync(j, revision, content, owner) => UNCHANGED <<proposals, commits>>
  /\ \A gone : Forget(gone) => UNCHANGED <<proposals, commits>>
  /\ SetClock => UNCHANGED <<proposals, projects, commits>>
<1>1. \A p, n, valid : Propose(p, n, valid) => UNCHANGED <<projects, commits>>
  BY DEF Propose
<1>2. \A p : Reject(p) => UNCHANGED <<projects, commits>>
  BY DEF Reject
<1>. QED BY <1>1, <1>2 DEF Consult, CleanupSession, Sync, Forget, SetClock

\* commit_graph_patch and sync_with_session never lose an update: as long as a
\* project stays, its content changes only together with a growing revision.
THEOREM UpdatesAreNotLost == PatchesSpec => NoLostUpdate
<1>. DEFINE Grows(j) == projects[j] # NoRecord /\ projects'[j] # NoRecord =>
              /\ projects'[j].revision >= projects[j].revision
              /\ projects'[j].content # projects[j].content =>
                    projects'[j].revision > projects[j].revision
<1>1. ASSUME PatchesInv, [PatchesNext]_patchesVars, NEW j \in ProjectIds PROVE Grows(j)
  <2>1. projects[j] # NoRecord => projects[j].revision \in Nat
    BY <1>1 DEF PatchesInv, PatchesTypeOK, Project, Revisions
  <2>2. CASE UNCHANGED projects
    BY <2>1, <2>2
  <2>3. ASSUME NEW p \in ProposalIds, Accept(p) PROVE Grows(j)
    <3>1. PICK r \in Cleaned(proposals) :
            /\ p \in Awaiting(r)
            /\ IF CanCommit(r[p])
               THEN projects' = Committed(r[p])
               ELSE UNCHANGED projects
      BY <2>3 DEF Accept
    <3>2. CASE ~ CanCommit(r[p])
      BY <2>2, <3>1, <3>2
    <3>3. CASE CanCommit(r[p])
      <4>. DEFINE k == r[p].project
      <4>1. projects[k].revision = r[p].base /\ projects[k] # NoRecord
        BY <3>3 DEF CanCommit
      <4>2. projects' = [projects EXCEPT ![k].revision = r[p].base + 1,
                                         ![k].content = Patched(@, r[p].patch)]
        BY <3>1, <3>3 DEF Committed
      <4>3. CASE j # k
        <5>1. projects'[j] = projects[j]
          BY <4>2, <4>3, <1>1 DEF PatchesInv, PatchesTypeOK
        <5>. QED BY <5>1, <2>1
      <4>4. CASE j = k
        <5>1. projects[k] \in Project
          BY <1>1, <4>1, <4>4 DEF PatchesInv, PatchesTypeOK
        <5>2. projects'[j].revision = projects[j].revision + 1
          BY <1>1, <4>1, <4>2, <4>4, <5>1 DEF PatchesInv, PatchesTypeOK, Project
        <5>. QED BY <5>2, <2>1
      <4>. QED BY <4>3, <4>4
    <3>. QED BY <3>2, <3>3
  <2>4. ASSUME NEW i \in ProjectIds, NEW revision \in Revisions, NEW content \in Contents,
               NEW owner \in Owners \union {NoOwner}, Sync(i, revision, content, owner)
        PROVE  Grows(j)
    <3>1. CASE i # j
      <4>1. projects'[j] = projects[j]
        BY <1>1, <2>4, <3>1 DEF Sync, PatchesInv, PatchesTypeOK
      <4>. QED BY <4>1, <2>1
    <3>2. CASE i = j /\ projects[j] # NoRecord
      <4>1. \/ projects'[j] = projects[j]
            \/ /\ projects'[j].revision = revision /\ projects'[j].content = content
               /\ \/ revision > projects[j].revision
                  \/ revision = projects[j].revision /\ content = projects[j].content
        BY <1>1, <2>4, <3>2 DEF Sync, Syncable, PatchesInv, PatchesTypeOK
      <4>2. revision \in Nat
        BY DEF Revisions
      <4>3. CASE projects'[j] = projects[j]
        BY <4>3, <2>1
      <4>4. CASE /\ projects'[j].revision = revision /\ projects'[j].content = content
                 /\ revision > projects[j].revision
        BY <4>2, <4>4, <2>1
      <4>5. CASE /\ projects'[j].revision = revision /\ projects'[j].content = content
                 /\ revision = projects[j].revision /\ content = projects[j].content
        BY <4>2, <4>5
      <4>. QED BY <4>1, <4>3, <4>4, <4>5
    <3>. QED BY <3>1, <3>2
  <2>5. ASSUME NEW gone, Forget(gone) PROVE Grows(j)
    <3>1. projects'[j] = NoRecord \/ projects'[j] = projects[j]
      BY <2>5 DEF Forget
    <3>. QED BY <3>1, <2>1
  <2>6. CASE UNCHANGED patchesVars
    BY <2>2, <2>6 DEF patchesVars
  <2>7. CASE PatchesNext
    BY <2>2, <2>3, <2>4, <2>5, <2>7, Frames DEF PatchesNext
  <2>. QED BY <1>1, <2>6, <2>7
<1>2. PatchesInv /\ [PatchesNext]_patchesVars =>
         [\A j \in ProjectIds : Grows(j)]_patchesVars
  BY <1>1
<1>. QED BY <1>2, PatchesInvariant, PTL DEF PatchesSpec, NoLostUpdate

\* A review that comes at or after the deadline of a proposal never commits it: the
\* clean-up in front of the review has expired it.
THEOREM CommitsAreInTime == PatchesSpec => CommittedInTime
<1>1. ASSUME PatchesInv, [PatchesNext]_patchesVars, NEW p \in ProposalIds,
             commits'[p] > commits[p]
      PROVE  clock < proposals[p].expires
  <2>1. commits[p] \in Nat
    BY <1>1 DEF PatchesInv, PatchesTypeOK
  <2>2. commits' # commits
    BY <1>1, <2>1
  <2>3. PICK q \in ProposalIds : Accept(q)
    BY <1>1, <2>2, Frames DEF PatchesNext, patchesVars
  <2>4. PICK r \in Cleaned(proposals) :
          /\ q \in Awaiting(r)
          /\ \/ commits' = [commits EXCEPT ![q] = @ + 1]
             \/ UNCHANGED commits
    BY <2>3 DEF Accept
  <2>5. p = q
    BY <1>1, <2>1, <2>2, <2>4 DEF PatchesInv, PatchesTypeOK
  <2>6. Kept(proposals, r)
    BY <1>1, CleanedSound, InvIsSound
  <2>7. r[p] # NoRecord /\ r[p].status = "awaiting-review"
    BY <2>4, <2>5 DEF Awaiting, Live
  <2>8. proposals[p] # NoRecord /\ proposals[p] \in Proposal
    BY <1>1, <2>6, <2>7 DEF Kept, PatchesInv, PatchesTypeOK
  <2>9. [proposals[p] EXCEPT !.status = "expired", !.reviewed = clock].status = "expired"
    BY <2>8 DEF Proposal
  <2>10. r[p] = proposals[p]
    BY <2>6, <2>7, <2>9 DEF Kept
  <2>11. ~ IsDue(proposals[p])
    BY <2>4, <2>5, <2>6, <2>7, <2>8, <2>10 DEF Kept, Awaiting, Live
  <2>12. clock \in Nat /\ proposals[p].expires \in Nat
    BY <1>1, <2>8, ConstantsTyped, InvIsSound DEF Proposal
  <2>. QED BY <2>7, <2>10, <2>11, <2>12 DEF IsDue
<1>2. PatchesInv /\ [PatchesNext]_patchesVars =>
         [\A p \in ProposalIds : commits'[p] > commits[p] =>
             clock < proposals[p].expires]_patchesVars
  BY <1>1
<1>. QED BY <1>2, PatchesInvariant, PTL DEF PatchesSpec, CommittedInTime

\* However full the registry is, no clean-up and no new proposal drops a proposal
\* that awaits review in time; only the end of its session does.
THEOREM PendingStays == PatchesSpec => PendingKept
<1>1. ASSUME PatchesInv, [PatchesNext]_patchesVars, NEW p \in Awaiting(proposals),
             proposals'[p] = NoRecord, ~ IsDue(proposals[p]),
             NEW q \in Live(proposals), proposals[q].owner = proposals[p].owner
      PROVE  proposals'[q] = NoRecord
  <2>1. p \in ProposalIds /\ proposals[p] # NoRecord /\ q \in ProposalIds
    BY DEF Awaiting, Live
  <2>2. ASSUME NEW r \in Cleaned(proposals) PROVE r \in Registry /\ r[p] = proposals[p]
    <3>1. Kept(proposals, r)
      BY <1>1, <2>2, CleanedSound, InvIsSound
    <3>. QED BY <1>1, <3>1 DEF Kept
  <2>3. ~ Consult
    BY <1>1, <2>1, <2>2 DEF Consult
  <2>4. ASSUME NEW i \in ProposalIds, Reject(i) PROVE FALSE
    <3>1. PICK r \in Cleaned(proposals) :
            proposals' = [r EXCEPT ![i].status = "rejected", ![i].reviewed = clock]
            /\ i \in Awaiting(r)
      BY <2>4 DEF Reject
    <3>2. proposals'[p] = r[p] \/ (i = p /\ proposals'[p] =
             [r[p] EXCEPT !.status = "rejected", !.reviewed = clock])
      BY <2>1, <2>2, <3>1 DEF Registry
    <3>3. r[p] \in Proposal /\ clock \in Nat
      BY <1>1, <2>1, <2>2, ConstantsTyped, InvIsSound DEF Registry
    <3>4. [r[p] EXCEPT !.status = "rejected", !.reviewed = clock] \in Proposal
      BY <3>3 DEF Proposal
    <3>. QED BY <1>1, <2>1, <2>2, <3>2, <3>4, ConstantsTyped
  <2>5. ASSUME NEW i \in ProposalIds, Accept(i) PROVE FALSE
    <3>1. PICK r \in Cleaned(proposals) : proposals' = r \/ proposals' = Accepted(r, i)
      BY <2>5 DEF Accept
    <3>2. r \in Registry /\ r[p] = proposals[p] /\ r[p] \in Proposal /\ clock \in Nat
      BY <1>1, <2>1, <2>2, ConstantsTyped, InvIsSound DEF Registry
    <3>3. [r[p] EXCEPT !.status = "accepted", !.reviewed = clock] \in Proposal
      BY <3>2 DEF Proposal
    <3>4. proposals'[p] = r[p] \/ proposals'[p] =
             [r[p] EXCEPT !.status = "accepted", !.reviewed = clock]
      BY <2>1, <3>1, <3>2 DEF Accepted, Registry
    <3>. QED BY <1>1, <2>1, <3>2, <3>3, <3>4, ConstantsTyped
  <2>6. ASSUME NEW i \in ProposalIds, NEW n \in Proposal, NEW valid \in BOOLEAN,
               Propose(i, n, valid)
        PROVE  FALSE
    <3>1. PICK kept \in Cleaned(proposals) : \E r \in WithRoom(kept) :
             proposals' = r \/ proposals' = [r EXCEPT ![i] = n]
      BY <2>6 DEF Propose
    <3>2. PICK r \in WithRoom(kept) : proposals' = r \/ proposals' = [r EXCEPT ![i] = n]
      BY <3>1
    <3>3. kept \in Registry /\ kept[p] = proposals[p]
      BY <2>2
    <3>4. p \in Awaiting(kept)
      BY <3>3 DEF Awaiting, Live
    <3>5. r \in Registry /\ r[p] = proposals[p]
      BY <3>3, <3>4, RoomKeeps
    <3>6. proposals'[p] \in {r[p], n}
      BY <2>1, <3>2, <3>5 DEF Registry
    <3>. QED BY <1>1, <2>1, <3>5, <3>6, ConstantsTyped
  <2>7. CASE UNCHANGED proposals
    BY <1>1, <2>1, <2>7
  <2>8. ASSUME NEW owner \in Owners, CleanupSession(owner) PROVE proposals'[q] = NoRecord
    BY <1>1, <2>1, <2>8 DEF CleanupSession, Without
  <2>9. CASE PatchesNext
    <3>1. ASSUME NEW i \in ProposalIds, NEW owner \in Owners, NEW j \in ProjectIds,
                 NEW base \in Revisions, NEW patch \in Patches, NEW valid \in BOOLEAN
          PROVE  ~ Propose(i, NewProposal(owner, j, base, patch), valid)
      <4>1. clock \in Nat
        BY <1>1, ConstantsTyped, InvIsSound
      <4>2. NewProposal(owner, j, base, patch) \in Proposal
        BY <4>1, ConstantsTyped DEF NewProposal, Proposal
      <4>. QED BY <4>2, <2>6
    <3>. QED
      BY <2>3, <2>4, <2>5, <2>7, <2>8, <2>9, <3>1, Frames
         DEF PatchesNext, NewProposal
  <2>. QED BY <1>1, <2>7, <2>9 DEF patchesVars
<1>2. PatchesInv /\ [PatchesNext]_patchesVars =>
         [\A p \in Awaiting(proposals) : proposals'[p] = NoRecord /\ ~ IsDue(proposals[p]) =>
            \A q \in Live(proposals) : proposals[q].owner = proposals[p].owner =>
               proposals'[q] = NoRecord]_patchesVars
  BY <1>1
<1>. QED BY <1>2, PatchesInvariant, PTL DEF PatchesSpec, PendingKept

-----------------------------------------------------------------------------
(* The project file, the index and the commits under every order of calls. *)

Places == {"idle", "validated", "writing", "written", "added", "staged", "saved", "failed"}
FileContents == ProjectContents \union {Torn, Absent}

HistoryTyped ==
  /\ revisions \in Seq(FileContents) /\ file \in FileContents
  /\ call \in [Calls -> [kind : {"none", "save", "autosave"}, at : Places, project : FileContents]]

\* What an autosave that was not overtaken has staged.
StagedIsOwn ==
  \A c \in Calls \ overtaken : call[c].at \in {"added", "staged"} => index = call[c].project

HistoryInv == HistoryTyped /\ StagedIsOwn /\ OwnBytesStay /\ SavedIsCommitted

LEMMA HistoryStarts == HistoryInit => HistoryInv
BY DEF HistoryInit, HistoryInv, HistoryTyped, StagedIsOwn, OwnBytesStay, SavedIsCommitted, NoCall,
       Places, FileContents

\* A call that moves to another place keeps its kind and its project.
LEMMA ReachIs ==
  ASSUME NEW c \in Calls, NEW place, HistoryTyped, Reach(c, place)
  PROVE  /\ \A d \in Calls \ {c} : call'[d] = call[d]
         /\ call'[c].kind = call[c].kind /\ call'[c].project = call[c].project /\ call'[c].at = place
         /\ place \in Places =>
              call' \in [Calls -> [kind : {"none", "save", "autosave"}, at : Places, project : FileContents]]
BY DEF Reach, HistoryTyped

LEMMA LastIs ==
  ASSUME HistoryTyped, revisions' = Append(revisions, file)
  PROVE  revisions' \in Seq(FileContents) /\ HeadContent' = file
<1>1. /\ revisions' \in Seq(FileContents) /\ Len(revisions') = Len(revisions) + 1
      /\ revisions'[Len(revisions) + 1] = file /\ revisions' # <<>>
  BY AppendProperties DEF HistoryTyped
<1>. QED BY <1>1 DEF HeadContent

LEMMA BeginKeeps ==
  ASSUME NEW c \in Calls, NEW kind \in {"save", "autosave"}, NEW p \in ProjectContents, HistoryInv,
         Begin(c, kind, p)
  PROVE  HistoryInv'
<1>1. /\ call'[c] = [kind |-> kind, at |-> "validated", project |-> p]
      /\ \A d \in Calls \ {c} : call'[d] = call[d]
      /\ call' \in [Calls -> [kind : {"none", "save", "autosave"}, at : Places, project : FileContents]]
  BY DEF Begin, HistoryInv, HistoryTyped, Places, FileContents
<1>2. file' = file /\ index' = index /\ revisions' = revisions /\ overtaken' = overtaken \ {c}
  BY DEF Begin, KeepGit
<1>. QED BY <1>1, <1>2 DEF HistoryInv, HistoryTyped, StagedIsOwn, OwnBytesStay, SavedIsCommitted, HeadContent

LEMMA OpenKeeps ==
  ASSUME NEW c \in Calls, HistoryInv, OpenForWriting(c)
  PROVE  HistoryInv'
<1>1. /\ \A d \in Calls \ {c} : call'[d] = call[d]
      /\ call'[c].at = "writing"
      /\ call' \in [Calls -> [kind : {"none", "save", "autosave"}, at : Places, project : FileContents]]
  BY ReachIs DEF OpenForWriting, HistoryInv, Places
<1>2. file' = Torn /\ index' = index /\ revisions' = revisions /\ overtaken' = Overtakes(c) \ {c}
  BY DEF OpenForWriting, KeepGit
<1>3. ASSUME NEW d \in Calls \ overtaken', d # c PROVE call[d].at = "idle" /\ d \notin overtaken
  BY <1>2, <1>3 DEF Overtakes
<1>. QED BY <1>1, <1>2, <1>3 DEF HistoryInv, HistoryTyped, StagedIsOwn, OwnBytesStay, SavedIsCommitted,
                                 HeadContent, FileContents

LEMMA WriteKeeps ==
  ASSUME NEW c \in Calls, HistoryInv, WriteBytes(c)
  PROVE  HistoryInv'
<1>1. PICK place \in {"saved", "written"} :
        /\ Reach(c, place)
        /\ place = IF call[c].kind = "save" THEN "saved" ELSE "written"
  BY DEF WriteBytes
<1>2. /\ \A d \in Calls \ {c} : call'[d] = call[d]
      /\ call'[c].at = place /\ call'[c].project = call[c].project /\ call'[c].kind = call[c].kind
      /\ call' \in [Calls -> [kind : {"none", "save", "autosave"}, at : Places, project : FileContents]]
  BY <1>1, ReachIs DEF HistoryInv, Places
<1>3. index' = index /\ revisions' = revisions /\ overtaken' = Overtakes(c)
  BY DEF WriteBytes, KeepGit
<1>4. file' \in FileContents /\ (c \notin overtaken => file' = call[c].project)
  BY DEF WriteBytes, HistoryInv, HistoryTyped, FileContents
<1>5. ASSUME NEW d \in Calls \ overtaken', d # c PROVE call[d].at = "idle" /\ d \notin overtaken
  BY <1>3, <1>5 DEF Overtakes
<1>6. c \notin overtaken' => c \notin overtaken
  BY <1>3 DEF Overtakes
<1>7. HistoryTyped'
  BY <1>2, <1>3, <1>4 DEF HistoryInv, HistoryTyped
<1>8. StagedIsOwn'
  BY <1>1, <1>2, <1>5 DEF StagedIsOwn
<1>9. OwnBytesStay'
  BY <1>1, <1>2, <1>4, <1>5, <1>6 DEF OwnBytesStay
<1>10. SavedIsCommitted'
  BY <1>1, <1>2, <1>5 DEF SavedIsCommitted
<1>. QED BY <1>7, <1>8, <1>9, <1>10 DEF HistoryInv

\* A call that fails or answers, and the restart, leave the file and Git alone.
LEMMA EndsKeep ==
  ASSUME NEW c \in Calls, HistoryInv, Fail(c) \/ Answered(c)
  PROVE  HistoryInv'
<1>1. /\ \A d \in Calls \ {c} : call'[d] = call[d]
      /\ call'[c].at \in {"failed", "idle"}
      /\ call' \in [Calls -> [kind : {"none", "save", "autosave"}, at : Places, project : FileContents]]
  <2>1. CASE Fail(c)
    BY <2>1, ReachIs DEF Fail, HistoryInv, Places
  <2>2. CASE Answered(c)
    BY <2>2 DEF Answered, HistoryInv, HistoryTyped, NoCall, Places, FileContents
  <2>. QED BY <2>1, <2>2
<1>2. file' = file /\ index' = index /\ revisions' = revisions /\ overtaken' = overtaken
  BY DEF Fail, Answered, KeepGit
<1>. QED BY <1>1, <1>2 DEF HistoryInv, HistoryTyped, StagedIsOwn, OwnBytesStay, SavedIsCommitted, HeadContent

LEMMA RestartKeeps == HistoryInv /\ Restart => HistoryInv'
BY DEF Restart, KeepGit, HistoryInv, HistoryTyped, StagedIsOwn, OwnBytesStay, SavedIsCommitted,
       NoCall, Places, FileContents

LEMMA AddKeeps ==
  ASSUME NEW c \in Calls, HistoryInv, GitAdd(c)
  PROVE  HistoryInv'
<1>1. /\ \A d \in Calls \ {c} : call'[d] = call[d]
      /\ call[c].at = "written" /\ call'[c].at = "added" /\ call'[c].project = call[c].project
      /\ call' \in [Calls -> [kind : {"none", "save", "autosave"}, at : Places, project : FileContents]]
  BY ReachIs DEF GitAdd, HistoryInv, Places
<1>2. file' = file /\ index' = file /\ revisions' = revisions /\ overtaken' = overtaken
  BY DEF GitAdd
<1>3. \A d \in Calls \ overtaken :
        call[d].at \in {"written", "added", "staged", "saved"} => file = call[d].project
  BY DEF HistoryInv, OwnBytesStay
<1>4. HeadContent' = HeadContent
  BY <1>2 DEF HeadContent
<1>5. HistoryTyped'
  BY <1>1, <1>2 DEF HistoryInv, HistoryTyped
<1>6. StagedIsOwn' /\ OwnBytesStay'
  BY <1>1, <1>2, <1>3 DEF StagedIsOwn, OwnBytesStay
<1>7. SavedIsCommitted'
  BY <1>1, <1>2, <1>4 DEF SavedIsCommitted, HistoryInv
<1>. QED BY <1>5, <1>6, <1>7 DEF HistoryInv

LEMMA DiffKeeps ==
  ASSUME NEW c \in Calls, HistoryInv, GitDiffCached(c)
  PROVE  HistoryInv'
<1>1. PICK place \in {"saved", "staged"} :
        Reach(c, place) /\ place = IF index = HeadContent THEN "saved" ELSE "staged"
  BY DEF GitDiffCached
<1>2. /\ \A d \in Calls \ {c} : call'[d] = call[d]
      /\ call[c].at = "added"
      /\ call'[c].at = place /\ call'[c].project = call[c].project
      /\ call' \in [Calls -> [kind : {"none", "save", "autosave"}, at : Places, project : FileContents]]
  BY <1>1, ReachIs DEF GitDiffCached, HistoryInv, Places
<1>3. file' = file /\ index' = index /\ revisions' = revisions /\ overtaken' = overtaken
  BY DEF GitDiffCached, KeepGit
<1>4. HeadContent' = HeadContent
  BY <1>3 DEF HeadContent
<1>5. c \notin overtaken => index = call[c].project /\ file = call[c].project
  BY <1>2 DEF HistoryInv, StagedIsOwn, OwnBytesStay
<1>6. HistoryTyped'
  BY <1>2, <1>3 DEF HistoryInv, HistoryTyped
<1>7. StagedIsOwn' /\ OwnBytesStay'
  BY <1>1, <1>2, <1>3, <1>5 DEF HistoryInv, StagedIsOwn, OwnBytesStay
<1>8. SavedIsCommitted'
  BY <1>1, <1>2, <1>3, <1>4, <1>5 DEF HistoryInv, SavedIsCommitted
<1>. QED BY <1>6, <1>7, <1>8 DEF HistoryInv

LEMMA CommitKeeps ==
  ASSUME NEW c \in Calls, HistoryInv, GitCommit(c)
  PROVE  HistoryInv'
<1>1. file' = file /\ index' = file /\ overtaken' = overtaken /\ call[c].at = "staged"
  BY DEF GitCommit
<1>2. PICK place \in {"failed", "saved"} : Reach(c, place)
  BY DEF GitCommit
<1>3. /\ \A d \in Calls \ {c} : call'[d] = call[d]
      /\ call'[c].at = place /\ call'[c].project = call[c].project
      /\ call' \in [Calls -> [kind : {"none", "save", "autosave"}, at : Places, project : FileContents]]
  BY <1>2, ReachIs DEF HistoryInv, Places
<1>4. \A d \in Calls \ overtaken :
        call[d].at \in {"written", "added", "staged", "saved"} => file = call[d].project
  BY DEF HistoryInv, OwnBytesStay
<1>5. revisions' \in Seq(FileContents) 
      /\ (HeadContent' = file \/ (HeadContent' = HeadContent /\ place = "failed"))
  <2>1. CASE file = HeadContent
    BY <2>1 DEF GitCommit, HeadContent, HistoryInv, HistoryTyped
  <2>2. CASE file # HeadContent
    BY <2>2, LastIs DEF GitCommit, HistoryInv
  <2>. QED BY <2>1, <2>2
<1>6. HistoryTyped'
  BY <1>1, <1>3, <1>5 DEF HistoryInv, HistoryTyped
<1>7. StagedIsOwn' /\ OwnBytesStay'
  BY <1>1, <1>3, <1>4 DEF StagedIsOwn, OwnBytesStay
<1>8. SavedIsCommitted'
  BY <1>1, <1>2, <1>3, <1>4, <1>5 DEF HistoryInv, SavedIsCommitted
<1>. QED BY <1>6, <1>7, <1>8 DEF HistoryInv

LEMMA HistoryKeeps == HistoryInv /\ [HistoryNext]_HistoryVars => HistoryInv'
<1>. SUFFICES ASSUME HistoryInv, [HistoryNext]_HistoryVars PROVE HistoryInv'
  OBVIOUS
<1>1. CASE UNCHANGED <<file, index, revisions, call, overtaken>>
  BY <1>1 DEF HistoryInv, HistoryTyped, StagedIsOwn, OwnBytesStay, SavedIsCommitted, HeadContent
<1>2. ASSUME NEW c \in Calls, NEW p \in ProjectContents, Begin(c, "save", p) \/ Begin(c, "autosave", p)
      PROVE  HistoryInv'
  BY <1>2, BeginKeeps
<1>3. ASSUME NEW c \in Calls, OpenForWriting(c) \/ WriteBytes(c) PROVE HistoryInv'
  BY <1>3, OpenKeeps, WriteKeeps
<1>4. ASSUME NEW c \in Calls, Fail(c) \/ Answered(c) PROVE HistoryInv'
  BY <1>4, EndsKeep
<1>5. ASSUME NEW c \in Calls, GitAdd(c) \/ GitDiffCached(c) \/ GitCommit(c) PROVE HistoryInv'
  BY <1>5, AddKeeps, DiffKeeps, CommitKeeps
<1>6. CASE Restart
  BY <1>6, RestartKeeps
<1>7. CASE ImportProjectFile \/ GitSnapshot
  BY <1>1, <1>7 DEF ImportProjectFile, GitSnapshot, KeepGit
<1>8. CASE UNCHANGED HistoryVars
  BY <1>1, <1>8 DEF HistoryVars
<1>. QED BY <1>2, <1>3, <1>4, <1>5, <1>6, <1>7, <1>8 DEF HistoryNext

-----------------------------------------------------------------------------
(* What a recursion over the natural numbers computes: there is a least number for which
   it fails, or none. *)

LEMMA LeastOf ==
  ASSUME NEW T, T \subseteq Nat, T # {}
  PROVE  \E i \in T : \A j \in T : i <= j
<1>1. PICK i \in T : \A j \in T : ~ (<<j, i>> \in OpToRel(<, Nat))
  BY NatLessThanWellFounded, WFMin
<1>2. ASSUME NEW j \in T PROVE i <= j
  <2>1. ~ (<<j, i>> \in {ss \in Nat \X Nat : ss[1] < ss[2]}) /\ i \in Nat /\ j \in Nat
    BY <1>1, <1>2 DEF OpToRel
  <2>. QED BY <2>1
<1>. QED BY <1>2

LEMMA CountsUp ==
  ASSUME NEW T, NEW L \in Nat, 0 \in T, \A n \in 1 .. L : n - 1 \in T => n \in T
  PROVE  \A n \in 0 .. L : n \in T
<1>. DEFINE out == {n \in 0 .. L : n \notin T}
<1>. SUFFICES ASSUME out # {} PROVE FALSE
  OBVIOUS
<1>1. PICK n \in out : \A j \in out : n <= j
  <2>1. out \subseteq Nat
    OBVIOUS
  <2>. HIDE DEF out
  <2>. QED BY <2>1, LeastOf
<1>2. n \in 1 .. L /\ n - 1 \in 0 .. L
  BY <1>1
<1>3. n - 1 \notin out
  BY <1>1, <1>2
<1>. QED BY <1>1, <1>2, <1>3

-----------------------------------------------------------------------------
(* Merging the differences: the recursion has a value at every number, each a merge of the
   operations up to it. *)

NothingMerged == [adds |-> <<>>, changes |-> <<>>]

Merges(t, operations, n) ==
  /\ t = [i \in 0 .. n |-> t[i]] /\ t[0] = NothingMerged
  /\ \A i \in 1 .. n : t[i] = MergeOne(t[i - 1], operations[i])

LEMMA MergesExist ==
  ASSUME NEW operations, NEW L \in Nat
  PROVE  \E t : Merges(t, operations, L)
<1>. DEFINE T == {n \in 0 .. L : \E t : Merges(t, operations, n)}
<1>1. 0 \in T
  <2>1. Merges([i \in 0 .. 0 |-> NothingMerged], operations, 0)
    BY DEF Merges
  <2>. QED BY <2>1
<1>2. ASSUME NEW n \in 1 .. L, n - 1 \in T PROVE n \in T
  <2>1. PICK t : Merges(t, operations, n - 1)
    BY <1>2
  <2>. DEFINE more == [i \in 0 .. n |-> IF i = n THEN MergeOne(t[n - 1], operations[n]) ELSE t[i]]
  <2>2. more = [i \in 0 .. n |-> more[i]] /\ more[0] = NothingMerged
    BY <2>1 DEF Merges
  <2>3. more[n] = MergeOne(t[n - 1], operations[n]) /\ \A i \in 0 .. n - 1 : more[i] = t[i]
    OBVIOUS
  <2>. HIDE DEF more
  <2>4. ASSUME NEW i \in 1 .. n PROVE more[i] = MergeOne(more[i - 1], operations[i])
    <3>1. CASE i = n
      <4>1. more[n - 1] = t[n - 1]
        BY <2>3
      <4>. QED BY <2>3, <3>1, <4>1
    <3>2. CASE i # n
      <4>1. i \in 1 .. n - 1 /\ i \in 0 .. n - 1 /\ i - 1 \in 0 .. n - 1
        BY <3>2
      <4>2. more[i] = t[i] /\ more[i - 1] = t[i - 1] /\ t[i] = MergeOne(t[i - 1], operations[i])
        BY <2>1, <2>3, <4>1 DEF Merges
      <4>. QED BY <4>2
    <3>. QED BY <3>1, <3>2
  <2>5. Merges(more, operations, n)
    BY <2>2, <2>4 DEF Merges
  <2>. QED BY <2>5
<1>3. L \in T
  <2>. HIDE DEF T
  <2>1. \A n \in 0 .. L : n \in T
    BY <1>1, <1>2, CountsUp
  <2>. QED BY <2>1
<1>. QED BY <1>3

LEMMA MergedIs ==
  ASSUME NEW operations, Len(operations) \in Nat
  PROVE  \E t : Merges(t, operations, Len(operations)) /\ Merged(operations) = t[Len(operations)]
<1>. DEFINE L == Len(operations)
            Is(t) == t = [n \in 0 .. L |-> IF n = 0 THEN [adds |-> <<>>, changes |-> <<>>]
                                           ELSE MergeOne(t[n - 1], operations[n])]
            all == CHOOSE t : Is(t)
<1>1. Merged(operations) = all[L]
  BY DEF Merged
<1>2. PICK t : Merges(t, operations, L)
  BY MergesExist
<1>3. Is(t)
  <2>1. t[0] = [adds |-> <<>>, changes |-> <<>>]
    BY <1>2 DEF Merges, NothingMerged
  <2>2. \A n \in 1 .. L : t[n] = MergeOne(t[n - 1], operations[n])
    BY <1>2 DEF Merges
  <2>3. \A n \in 0 .. L : n = 0 \/ n \in 1 .. L
    OBVIOUS
  <2>4. t = [n \in 0 .. L |-> t[n]]
    BY <1>2 DEF Merges
  <2>. QED BY <2>1, <2>2, <2>3, <2>4
<1>4. Is(all)
  BY <1>3
<1>5. Merges(all, operations, L)
  <2>. HIDE DEF all
  <2>1. all[0] = [adds |-> <<>>, changes |-> <<>>] /\ DOMAIN all = 0 .. L
    BY <1>4
  <2>2. \A n \in 1 .. L : n \in 0 .. L /\ n # 0
    OBVIOUS
  <2>3. \A n \in 1 .. L : all[n] = MergeOne(all[n - 1], operations[n])
    BY <1>4, <2>2
  <2>4. all = [n \in 0 .. L |-> all[n]]
    BY <1>4
  <2>. QED BY <2>1, <2>3, <2>4 DEF Merges, NothingMerged
<1>. QED BY <1>1, <1>5
\* What a merge keeps: operations that came, the additions apart, and the others under
\* names of their own.
WellMerged(acc, S) ==
  /\ acc \in [adds : Seq(S), changes : Seq(S)]
  /\ \A i \in DOMAIN acc.adds : acc.adds[i].op \in Adds
  /\ \A i, j \in DOMAIN acc.changes : MergeKey(acc.changes[i]) = MergeKey(acc.changes[j]) => i = j

LEMMA MergeKeepsWell ==
  ASSUME NEW S, NEW acc, NEW operation \in S, WellMerged(acc, S)
  PROVE  WellMerged(MergeOne(acc, operation), S)
<1>. DEFINE key == MergeKey(operation)
            next == MergeOne(acc, operation)
<1>1. /\ acc = [adds |-> acc.adds, changes |-> acc.changes]
      /\ acc.adds \in Seq(S) /\ acc.changes \in Seq(S)
      /\ Len(acc.adds) \in Nat /\ DOMAIN acc.adds = 1 .. Len(acc.adds)
      /\ Len(acc.changes) \in Nat /\ DOMAIN acc.changes = 1 .. Len(acc.changes)
  BY LenProperties DEF WellMerged
<1>2. CASE operation.op \in Adds /\ \E i \in DOMAIN acc.adds : MergeKey(acc.adds[i]) = key
  BY <1>2 DEF MergeOne
<1>3. CASE operation.op \in Adds /\ ~\E i \in DOMAIN acc.adds : MergeKey(acc.adds[i]) = key
  <2>1. next = [acc EXCEPT !.adds = Append(acc.adds, operation)]
    BY <1>3 DEF MergeOne
  <2>a. Append(acc.adds, operation) \in Seq(S) /\ acc \in [adds : Seq(S), changes : Seq(S)]
    BY <1>1, AppendProperties DEF WellMerged
  <2>2. next.adds = Append(acc.adds, operation) /\ next.changes = acc.changes
        /\ next \in [adds : Seq(S), changes : Seq(S)]
    BY <1>1, <2>1, <2>a
  <2>3. /\ DOMAIN next.adds = 1 .. Len(acc.adds) + 1
        /\ next.adds[Len(acc.adds) + 1] = operation
        /\ \A i \in 1 .. Len(acc.adds) : next.adds[i] = acc.adds[i]
    BY <1>1, <2>2, AppendProperties, LenProperties
  <2>4. \A i \in DOMAIN next.adds : next.adds[i].op \in Adds
    BY <1>1, <1>3, <2>3 DEF WellMerged
  <2>. HIDE DEF next
  <2>5. WellMerged(next, S)
    BY <2>2, <2>4 DEF WellMerged
  <2>. QED BY <2>5 DEF next
<1>4. CASE operation.op \notin Adds /\ \E i \in DOMAIN acc.changes : MergeKey(acc.changes[i]) = key
  <2>. DEFINE replaced == [i \in DOMAIN acc.changes |->
                             IF MergeKey(acc.changes[i]) = key THEN operation ELSE acc.changes[i]]
  <2>1. next = [acc EXCEPT !.changes = replaced]
    BY <1>4 DEF MergeOne
  <2>2. replaced \in Seq(S)
    <3>1. \A i \in 1 .. Len(acc.changes) : acc.changes[i] \in S
      BY <1>1, ElementOfSeq
    <3>. QED BY <1>1, <3>1
  <2>3. next.adds = acc.adds /\ next.changes = replaced /\ next \in [adds : Seq(S), changes : Seq(S)]
    BY <1>1, <2>1, <2>2
  <2>4. \A i \in DOMAIN acc.changes : MergeKey(replaced[i]) = MergeKey(acc.changes[i])
    OBVIOUS
  <2>5. DOMAIN replaced = DOMAIN acc.changes
    OBVIOUS
  <2>. HIDE DEF next, replaced
  <2>6. WellMerged(next, S)
    BY <2>3, <2>4, <2>5 DEF WellMerged
  <2>. QED BY <2>6 DEF next
<1>5. CASE operation.op \notin Adds /\ ~\E i \in DOMAIN acc.changes : MergeKey(acc.changes[i]) = key
  <2>1. next = [acc EXCEPT !.changes = Append(acc.changes, operation)]
    BY <1>5 DEF MergeOne
  <2>a. Append(acc.changes, operation) \in Seq(S) /\ acc \in [adds : Seq(S), changes : Seq(S)]
    BY <1>1, AppendProperties DEF WellMerged
  <2>2. next.changes = Append(acc.changes, operation) /\ next.adds = acc.adds
        /\ next \in [adds : Seq(S), changes : Seq(S)]
    BY <1>1, <2>1, <2>a
  <2>3. /\ DOMAIN next.changes = 1 .. Len(acc.changes) + 1
        /\ next.changes[Len(acc.changes) + 1] = operation
        /\ \A i \in 1 .. Len(acc.changes) : next.changes[i] = acc.changes[i]
    BY <1>1, <2>2, AppendProperties, LenProperties
  <2>. HIDE DEF next
  <2>4. ASSUME NEW i \in DOMAIN next.changes, NEW j \in DOMAIN next.changes,
               MergeKey(next.changes[i]) = MergeKey(next.changes[j])
        PROVE  i = j
    <3>1. \A m \in 1 .. Len(acc.changes) : MergeKey(next.changes[m]) # MergeKey(next.changes[Len(acc.changes) + 1])
      BY <1>1, <1>5, <2>3
    <3>2. i \in 1 .. Len(acc.changes) \/ i = Len(acc.changes) + 1
      BY <1>1, <2>3
    <3>3. j \in 1 .. Len(acc.changes) \/ j = Len(acc.changes) + 1
      BY <1>1, <2>3
    <3>4. CASE i \in 1 .. Len(acc.changes) /\ j \in 1 .. Len(acc.changes)
      BY <1>1, <2>3, <2>4, <3>4 DEF WellMerged
    <3>. QED BY <2>4, <3>1, <3>2, <3>3, <3>4
  <2>5. WellMerged(next, S)
    BY <2>2, <2>4 DEF WellMerged
  <2>. QED BY <2>5 DEF next
<1>. QED BY <1>2, <1>3, <1>4, <1>5

LEMMA MergedWell ==
  ASSUME NEW S, NEW operations \in Seq(S)
  PROVE  WellMerged(Merged(operations), S)
<1>1. Len(operations) \in Nat /\ \A i \in 1 .. Len(operations) : operations[i] \in S
  BY LenProperties, ElementOfSeq
<1>2. PICK t : Merges(t, operations, Len(operations)) /\ Merged(operations) = t[Len(operations)]
  BY <1>1, MergedIs
<1>3. PICK L \in Nat : L = Len(operations)
  BY <1>1
<1>. DEFINE T == {n \in 0 .. L : WellMerged(t[n], S)}
<1>4. 0 \in T
  <2>1. <<>> \in Seq(S)
    OBVIOUS
  <2>2. WellMerged(NothingMerged, S)
    BY <2>1 DEF WellMerged, NothingMerged
  <2>. QED BY <1>2, <1>3, <2>2 DEF Merges
<1>5. ASSUME NEW n \in 1 .. L, n - 1 \in T PROVE n \in T
  <2>1. t[n] = MergeOne(t[n - 1], operations[n])
    BY <1>2, <1>3 DEF Merges
  <2>2. WellMerged(t[n - 1], S) /\ operations[n] \in S
    BY <1>1, <1>3, <1>5
  <2>3. WellMerged(t[n], S)
    BY <2>1, <2>2, MergeKeepsWell
  <2>. QED BY <2>3
<1>6. L \in T
  <2>. HIDE DEF T
  <2>1. \A n \in 0 .. L : n \in T
    BY <1>4, <1>5, CountsUp
  <2>. QED BY <2>1
<1>. QED BY <1>2, <1>3, <1>6

\* The merged patch: nothing that did not come, and one update of an entity.
LEMMA DedupIs ==
  ASSUME NEW S, NEW diffs \in Seq(S), NEW ops, ops = DedupOperations(diffs)
  PROVE  /\ \A i \in DOMAIN ops : ops[i] \in S
         /\ \A i, j \in DOMAIN ops :
              /\ ops[i].op \in {"update-node", "update-edge"} /\ ops[j].op \in {"update-node", "update-edge"}
              /\ ops[i].id = ops[j].id
              => i = j
<1>1. PICK acc : acc = Merged(diffs)
  OBVIOUS
<1>2. PICK a, b : a = acc.adds /\ b = acc.changes
  OBVIOUS
<1>3. /\ a \in Seq(S) /\ b \in Seq(S)
      /\ \A i \in DOMAIN a : a[i].op \in Adds
      /\ \A i, j \in DOMAIN b : MergeKey(b[i]) = MergeKey(b[j]) => i = j
  BY <1>1, <1>2, MergedWell DEF WellMerged
<1>4. ops = a \o b
  BY <1>1, <1>2 DEF DedupOperations
<1>5. PICK m, n : m = Len(a) /\ n = Len(b)
  OBVIOUS
<1>6. /\ m \in Nat /\ n \in Nat /\ DOMAIN a = 1 .. m /\ DOMAIN b = 1 .. n
      /\ ops \in Seq(S) /\ DOMAIN ops = 1 .. m + n
      /\ \A i \in 1 .. m : ops[i] = a[i]
      /\ \A i \in m + 1 .. m + n : ops[i] = b[i - m]
  BY <1>3, <1>4, <1>5, ConcatProperties, LenProperties
<1>7. \A i \in DOMAIN ops : ops[i] \in S
  BY <1>6, ElementOfSeq
<1>8. ASSUME NEW i \in 1 .. m + n, ops[i].op \in {"update-node", "update-edge"}
      PROVE  i \in m + 1 .. m + n /\ i - m \in 1 .. n /\ MergeKey(ops[i]) = ops[i].id
  <2>1. i \notin 1 .. m
    BY <1>3, <1>6, <1>8 DEF Adds
  <2>2. i \in m + 1 .. m + n /\ i - m \in 1 .. n
    BY <1>6, <2>1
  <2>. QED BY <1>8, <2>2 DEF MergeKey, Adds
<1>9. ASSUME NEW i \in 1 .. m + n, NEW j \in 1 .. m + n,
             ops[i].op \in {"update-node", "update-edge"}, ops[j].op \in {"update-node", "update-edge"},
             ops[i].id = ops[j].id
      PROVE  i = j
  <2>1. MergeKey(b[i - m]) = MergeKey(b[j - m]) /\ i - m \in 1 .. n /\ j - m \in 1 .. n
    BY <1>6, <1>8, <1>9
  <2>2. i - m = j - m
    BY <1>3, <1>6, <2>1
  <2>. QED BY <1>6, <2>2
<1>. QED BY <1>6, <1>7, <1>9
-----------------------------------------------------------------------------
(* The differences of the commits are a sequence, as long as the history is. *)

\* A sequence, of whatever.
IsList(s) == \E S : s \in Seq(S)

LEMMA ListIs ==
  ASSUME NEW s, IsList(s)
  PROVE  Len(s) \in Nat /\ DOMAIN s = 1 .. Len(s) /\ s \in Seq(Range(s))
<1>1. PICK S : s \in Seq(S)
  BY DEF IsList
<1>2. Len(s) \in Nat /\ DOMAIN s = 1 .. Len(s) /\ s = [i \in 1 .. Len(s) |-> s[i]]
  BY <1>1, LenProperties, ElementOfSeq
<1>3. \A i \in 1 .. Len(s) : s[i] \in Range(s)
  BY <1>2 DEF Range
<1>. QED BY <1>2, <1>3

LEMMA JoinIsList ==
  ASSUME NEW s, NEW t, IsList(s), IsList(t)
  PROVE  IsList(s \o t)
<1>1. PICK S : s \in Seq(S)
  BY DEF IsList
<1>2. PICK T : t \in Seq(T)
  BY DEF IsList
<1>3. s \in Seq(S \union T) /\ t \in Seq(S \union T)
  <2>1. Len(s) \in Nat /\ s = [i \in 1 .. Len(s) |-> s[i]] /\ \A i \in 1 .. Len(s) : s[i] \in S \union T
    BY <1>1, LenProperties, ElementOfSeq
  <2>2. Len(t) \in Nat /\ t = [i \in 1 .. Len(t) |-> t[i]] /\ \A i \in 1 .. Len(t) : t[i] \in S \union T
    BY <1>2, LenProperties, ElementOfSeq
  <2>. QED BY <2>1, <2>2
<1>4. s \o t \in Seq(S \union T)
  BY <1>3, ConcatProperties
<1>. QED BY <1>4 DEF IsList

LEMMA ListedIsList ==
  ASSUME NEW kind, NEW ids, NEW value, IsFiniteSet(ids)
  PROVE  IsList(Listed(kind, ids, value))
<1>1. Cardinality(ids) \in Nat
  BY FS_CardinalityType
<1>. DEFINE S == {Operation(kind, Ranked(ids, i), value[Ranked(ids, i)]) : i \in 1 .. Cardinality(ids)}
<1>2. Listed(kind, ids, value) \in Seq(S)
  BY <1>1 DEF Listed
<1>. QED BY <1>2 DEF IsList

Finite(p) == IsFiniteSet(DOMAIN p.nodes) /\ IsFiniteSet(DOMAIN p.edges)

LEMMA PatchIsList ==
  ASSUME NEW old, NEW new, Finite(old), Finite(new)
  PROVE  IsList(GraphPatchFromDiff(old, new))
<1>1. /\ IsFiniteSet(DOMAIN new.nodes \ DOMAIN old.nodes) /\ IsFiniteSet(DOMAIN old.nodes \ DOMAIN new.nodes)
      /\ IsFiniteSet(DOMAIN new.edges \ DOMAIN old.edges) /\ IsFiniteSet(DOMAIN old.edges \ DOMAIN new.edges)
  BY FS_Difference DEF Finite
<1>2. IsFiniteSet(ChangedNodes(old, new)) /\ IsFiniteSet(ChangedEdges(old, new))
  <2>1. ChangedNodes(old, new) \subseteq DOMAIN new.nodes /\ ChangedEdges(old, new) \subseteq DOMAIN new.edges
    BY DEF ChangedNodes, ChangedEdges
  <2>. QED BY <2>1, FS_Subset DEF Finite
<1>. QED BY <1>1, <1>2, ListedIsList, JoinIsList DEF GraphPatchFromDiff

LEMMA BroughtIsList ==
  ASSUME NEW n
  PROVE  IsList(Brought(n))
<1>1. Finite(EmptyProject)
  <2>1. IsFiniteSet({}) /\ DOMAIN <<>> = {}
    BY FS_EmptySet
  <2>. QED BY <2>1 DEF Finite, EmptyProject
<1>2. \A p \in ProjectContents : Finite(p)
  BY HistoryAssumption DEF Finite
<1>3. Finite(Version(n - 1))
  BY <1>1, <1>2 DEF Version
<1>4. IsList(<<>>)
  <2>1. <<>> \in Seq({})
    OBVIOUS
  <2>. QED BY <2>1 DEF IsList
<1>. QED BY <1>2, <1>3, <1>4, PatchIsList DEF Brought

\* Newest first: what the first n commits brought.
Gathers(t, n) ==
  /\ t = [i \in 0 .. n |-> t[i]] /\ t[0] = <<>>
  /\ \A i \in 1 .. n : t[i] = Brought(i) \o t[i - 1]

LEMMA GathersExist ==
  ASSUME NEW L \in Nat
  PROVE  \E t : Gathers(t, L)
<1>. DEFINE T == {n \in 0 .. L : \E t : Gathers(t, n)}
<1>1. 0 \in T
  <2>1. Gathers([i \in 0 .. 0 |-> <<>>], 0)
    BY DEF Gathers
  <2>. QED BY <2>1
<1>2. ASSUME NEW n \in 1 .. L, n - 1 \in T PROVE n \in T
  <2>1. PICK t : Gathers(t, n - 1)
    BY <1>2
  <2>. DEFINE more == [i \in 0 .. n |-> IF i = n THEN Brought(n) \o t[n - 1] ELSE t[i]]
  <2>2. more = [i \in 0 .. n |-> more[i]] /\ more[0] = <<>>
    BY <2>1 DEF Gathers
  <2>3. more[n] = Brought(n) \o t[n - 1] /\ \A i \in 0 .. n - 1 : more[i] = t[i]
    OBVIOUS
  <2>. HIDE DEF more
  <2>4. ASSUME NEW i \in 1 .. n PROVE more[i] = Brought(i) \o more[i - 1]
    <3>1. CASE i = n
      <4>1. more[n - 1] = t[n - 1]
        BY <2>3
      <4>. QED BY <2>3, <3>1, <4>1
    <3>2. CASE i # n
      <4>1. i \in 1 .. n - 1 /\ i \in 0 .. n - 1 /\ i - 1 \in 0 .. n - 1
        BY <3>2
      <4>2. more[i] = t[i] /\ more[i - 1] = t[i - 1] /\ t[i] = Brought(i) \o t[i - 1]
        BY <2>1, <2>3, <4>1 DEF Gathers
      <4>. QED BY <4>2
    <3>. QED BY <3>1, <3>2
  <2>5. Gathers(more, n)
    BY <2>2, <2>4 DEF Gathers
  <2>. QED BY <2>5
<1>3. L \in T
  <2>. HIDE DEF T
  <2>1. \A n \in 0 .. L : n \in T
    BY <1>1, <1>2, CountsUp
  <2>. QED BY <2>1
<1>. QED BY <1>3

LEMMA DiffsAreList ==
  ASSUME Len(revisions) \in Nat
  PROVE  IsList(DiffsOfCommits)
<1>. DEFINE L == Len(revisions)
            Is(t) == t = [n \in 0 .. L |-> IF n = 0 THEN <<>> ELSE Brought(n) \o t[n - 1]]
            since == CHOOSE t : Is(t)
<1>1. DiffsOfCommits = IF file = Absent THEN <<>> ELSE since[L]
  BY DEF DiffsOfCommits
<1>2. PICK t : Gathers(t, L)
  BY GathersExist
<1>3. Is(t)
  <2>1. t[0] = <<>> /\ \A n \in 1 .. L : t[n] = Brought(n) \o t[n - 1]
    BY <1>2 DEF Gathers
  <2>2. \A n \in 0 .. L : n = 0 \/ n \in 1 .. L
    OBVIOUS
  <2>3. t = [n \in 0 .. L |-> t[n]]
    BY <1>2 DEF Gathers
  <2>. QED BY <2>1, <2>2, <2>3
<1>4. Is(since)
  BY <1>3
<1>5. IsList(<<>>)
  <2>1. <<>> \in Seq({})
    OBVIOUS
  <2>. QED BY <2>1 DEF IsList
<1>. HIDE DEF since
<1>. DEFINE T == {n \in 0 .. L : IsList(since[n])}
<1>6. 0 \in T
  <2>1. since[0] = <<>>
    BY <1>4
  <2>. QED BY <1>5, <2>1
<1>7. ASSUME NEW n \in 1 .. L, n - 1 \in T PROVE n \in T
  <2>1. n \in 0 .. L /\ n # 0
    OBVIOUS
  <2>2. since[n] = Brought(n) \o since[n - 1]
    BY <1>4, <2>1
  <2>3. IsList(since[n])
    BY <1>7, <2>2, BroughtIsList, JoinIsList
  <2>. QED BY <2>1, <2>3
<1>8. L \in T
  <2>. HIDE DEF T
  <2>1. \A n \in 0 .. L : n \in T
    BY <1>6, <1>7, CountsUp
  <2>. QED BY <2>1
<1>. QED BY <1>1, <1>5, <1>8

-----------------------------------------------------------------------------
(* What a read of the history returns. *)

\* The evidence, of L commits: odd places are commits, even ones the edge from the parent.
LEMMA EvidenceIs ==
  ASSUME NEW L \in Nat \ {0}, L = Len(revisions), NEW places, places = 1 .. 2 * L - 1
  PROVE  /\ DOMAIN EvidenceOfCommits = places
         /\ \A i \in places :
              \/ /\ i % 2 = 1 /\ L - (i - 1) \div 2 \in 1 .. L
                 /\ EvidenceOfCommits[i] = Evidence(L - (i - 1) \div 2)
              \/ /\ i % 2 = 0 /\ L - (i - 1) \div 2 \in 2 .. L
                 /\ EvidenceOfCommits[i] = ParentEdge(L - (i - 1) \div 2)
<1>1. DOMAIN EvidenceOfCommits = places
  BY DEF EvidenceOfCommits
<1>2. ASSUME NEW i \in places
      PROVE  \/ /\ i % 2 = 1 /\ L - (i - 1) \div 2 \in 1 .. L
                /\ EvidenceOfCommits[i] = Evidence(L - (i - 1) \div 2)
             \/ /\ i % 2 = 0 /\ L - (i - 1) \div 2 \in 2 .. L
                /\ EvidenceOfCommits[i] = ParentEdge(L - (i - 1) \div 2)
  <2>1. EvidenceOfCommits[i] = IF i % 2 = 1 THEN Evidence(L - (i - 1) \div 2)
                                            ELSE ParentEdge(L - (i - 1) \div 2)
    BY DEF EvidenceOfCommits
  <2>2. i % 2 = 1 \/ i % 2 = 0
    OBVIOUS
  <2>3. L - (i - 1) \div 2 \in 1 .. L /\ (i % 2 = 0 => L - (i - 1) \div 2 \in 2 .. L)
    OBVIOUS
  <2>. QED BY <2>1, <2>2, <2>3
<1>. QED BY <1>1, <1>2

LEMMA CommitsAreApart ==
  \A m, n : /\ Evidence(m) = Evidence(n) => m = n
            /\ ParentEdge(m) = ParentEdge(n) => m = n
            /\ Evidence(m) # ParentEdge(n)
<1>1. \A m, n : Evidence(m) = Evidence(n) => m = n
  BY DEF Evidence
<1>2. \A m, n : ParentEdge(m) = ParentEdge(n) => m = n
  BY DEF ParentEdge
<1>3. \A m, n : DOMAIN Evidence(m) = {"op", "commit"} /\ DOMAIN ParentEdge(n) = {"op", "commit", "parent"}
  BY DEF Evidence, ParentEdge
<1>. QED BY <1>1, <1>2, <1>3

LEMMA EvidenceIsWhole ==
  ASSUME NEW L \in Nat \ {0}, L = Len(revisions)
  PROVE  /\ IsInjective(EvidenceOfCommits)
         /\ Range(EvidenceOfCommits) =
              {Evidence(n) : n \in 1..L} \union {ParentEdge(n) : n \in 2..L}
<1>. DEFINE e == EvidenceOfCommits
            places == 1 .. 2 * L - 1
            At(i) == L - (i - 1) \div 2
<1>1. /\ DOMAIN e = places
      /\ \A i \in places : \/ i % 2 = 1 /\ At(i) \in 1 .. L /\ e[i] = Evidence(At(i))
                           \/ i % 2 = 0 /\ At(i) \in 2 .. L /\ e[i] = ParentEdge(At(i))
  BY EvidenceIs
<1>2. ASSUME NEW i \in places, NEW j \in places, e[i] = e[j]
      PROVE  i = j
  <2>1. i % 2 = j % 2 /\ At(i) = At(j)
    <3>. HIDE DEF e, places, At
    <3>. QED BY <1>1, <1>2, CommitsAreApart
  <2>. QED BY <2>1
<1>3. ASSUME NEW n \in 1 .. L
      PROVE  Evidence(n) \in Range(e)
  <2>1. PICK i : i = 2 * (L - n) + 1
    OBVIOUS
  <2>2. i \in places /\ i % 2 = 1 /\ At(i) = n
    BY <2>1
  <2>3. e[i] = Evidence(n)
    <3>. HIDE DEF e, places, At
    <3>. QED BY <1>1, <2>2
  <2>. HIDE DEF e, places
  <2>. QED BY <1>1, <2>2, <2>3 DEF Range
<1>4. ASSUME NEW n \in 2 .. L
      PROVE  ParentEdge(n) \in Range(e)
  <2>1. PICK i : i = 2 * (L - n) + 2
    OBVIOUS
  <2>2. i \in places /\ i % 2 = 0 /\ At(i) = n
    BY <2>1
  <2>3. e[i] = ParentEdge(n)
    <3>. HIDE DEF e, places, At
    <3>. QED BY <1>1, <2>2
  <2>. HIDE DEF e, places
  <2>. QED BY <1>1, <2>2, <2>3 DEF Range
<1>. HIDE DEF e, places, At
<1>5. Range(e) \subseteq {Evidence(n) : n \in 1..L} \union {ParentEdge(n) : n \in 2..L}
  BY <1>1 DEF Range
<1>6. IsInjective(e)
  BY <1>1, <1>2 DEF IsInjective
<1>7. Range(e) = {Evidence(n) : n \in 1..L} \union {ParentEdge(n) : n \in 2..L}
  BY <1>3, <1>4, <1>5
<1>. QED BY <1>6, <1>7 DEF e

LEMMA NothingIsWhole ==
  /\ NoSnapshot.evidence = <<>> /\ NoSnapshot.operations = <<>> /\ NoSnapshot.diffs = <<>>
  /\ NoSnapshot.revisions = 0 /\ DOMAIN <<>> = {} /\ Range(<<>>) = {} /\ IsInjective(<<>>)
  /\ 1 .. 0 = {} /\ 2 .. 0 = {}
<1>1. NoSnapshot.evidence = <<>> /\ NoSnapshot.operations = <<>> /\ NoSnapshot.diffs = <<>>
      /\ NoSnapshot.revisions = 0 /\ DOMAIN <<>> = {}
  BY DEF NoSnapshot
<1>2. Range(<<>>) = {} /\ IsInjective(<<>>)
  BY <1>1 DEF Range, IsInjective
<1>3. 1 .. 0 = {} /\ 2 .. 0 = {}
  OBVIOUS
<1>. QED BY <1>1, <1>2, <1>3

LEMMA SnapshotIsWhole ==
  ASSUME HistoryTyped, GitSnapshot
  PROVE  PatchOfHistory'
<1>1. PICK L \in Nat \ {0} : L = Len(revisions)
  BY EmptySeq, LenProperties DEF HistoryTyped, GitSnapshot
<1>2. PICK diffs, ops : diffs = DiffsOfCommits /\ ops = DedupOperations(diffs)
  OBVIOUS
<1>3. /\ snapshot'.revisions = L /\ snapshot'.diffs = diffs
      /\ snapshot'.evidence = EvidenceOfCommits /\ snapshot'.operations = ops
  BY <1>1, <1>2 DEF GitSnapshot, GraphPatchFromCommits
<1>4. diffs \in Seq(Range(diffs))
  BY <1>1, <1>2, DiffsAreList, ListIs
<1>5. /\ Range(ops) \subseteq Range(diffs)
      /\ \A i, j \in DOMAIN ops :
           /\ ops[i].op \in {"update-node", "update-edge"} /\ ops[j].op \in {"update-node", "update-edge"}
           /\ ops[i].id = ops[j].id
           => i = j
  <2>1. PICK S : S = Range(diffs)
    OBVIOUS
  <2>2. /\ \A i \in DOMAIN ops : ops[i] \in S
        /\ \A i, j \in DOMAIN ops :
             /\ ops[i].op \in {"update-node", "update-edge"} /\ ops[j].op \in {"update-node", "update-edge"}
             /\ ops[i].id = ops[j].id
             => i = j
    BY <1>2, <1>4, <2>1, DedupIs
  <2>3. Range(ops) \subseteq S
    BY <2>2 DEF Range
  <2>. QED BY <2>1, <2>2, <2>3
<1>6. /\ IsInjective(EvidenceOfCommits)
      /\ Range(EvidenceOfCommits) = {Evidence(n) : n \in 1..L} \union {ParentEdge(n) : n \in 2..L}
  BY <1>1, EvidenceIsWhole
<1>. QED BY <1>3, <1>5, <1>6 DEF PatchOfHistory

LEMMA HistoryStepWhole ==
  HistoryInv /\ PatchOfHistory /\ [HistoryNext]_HistoryVars => PatchOfHistory'
<1>. SUFFICES ASSUME HistoryInv, PatchOfHistory, [HistoryNext]_HistoryVars PROVE PatchOfHistory'
  OBVIOUS
<1>1. CASE GitSnapshot
  BY <1>1, SnapshotIsWhole DEF HistoryInv
<1>2. CASE snapshot' = NoSnapshot
  BY <1>2, NothingIsWhole DEF PatchOfHistory
<1>3. CASE snapshot' = snapshot
  BY <1>3 DEF PatchOfHistory
<1>4. [HistoryNext]_HistoryVars => GitSnapshot \/ snapshot' = NoSnapshot \/ snapshot' = snapshot
  BY DEF HistoryNext, HistoryVars, Begin, OpenForWriting, WriteBytes, Fail, GitAdd, GitDiffCached,
         GitCommit, Answered, Restart, ImportProjectFile, ReadsAnswered
<1>. QED BY <1>1, <1>2, <1>3, <1>4

\* A project file with its repository, whatever calls save and autosave it and wherever they
\* stop: a call that no other overtook has its own bytes in the file and, once it has
\* succeeded, in the last commit; and the patch read from a history of any length has one
\* evidence node of each commit, an edge from every parent, one update of an entity, and
\* nothing that no version brought (projects.rs, workspace_host.rs, analysis.rs).
THEOREM HistoryStaysSound == HistorySpec => []HistorySound
<1>1. HistoryInit => HistoryInv /\ PatchOfHistory
  <2>1. HistoryInit => PatchOfHistory
    BY NothingIsWhole DEF HistoryInit, PatchOfHistory
  <2>. QED BY <2>1, HistoryStarts
<1>2. HistoryInv /\ PatchOfHistory /\ [HistoryNext]_HistoryVars => (HistoryInv /\ PatchOfHistory)'
  BY HistoryKeeps, HistoryStepWhole
<1>3. HistoryInv /\ PatchOfHistory => HistorySound
  BY DEF HistoryInv, HistorySound
<1>. QED BY <1>1, <1>2, <1>3, PTL DEF HistorySpec
=============================================================================
