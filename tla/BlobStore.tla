------------------------------ MODULE BlobStore ------------------------------
(***************************************************************************)
(* The content-addressed blob store (kernel/blob.rs) and the operations    *)
(* that use it (kernel_commands.rs, host_bus/blob.rs).                     *)
(*                                                                         *)
(* A digest is the content itself: a sequence of bytes.  The scope of an   *)
(* upload only goes into the reference it ends in.  The store lives        *)
(* behind one lock; an operation that keeps the lock is one step, one that *)
(* takes it for each chunk (a picked file) is several, all with the clock  *)
(* reading of its beginning.  Nothing in the program calls Sweep or keeps  *)
(* a read lease open; both are in the interface of the store.              *)
(***************************************************************************)
EXTENDS Integers, Sequences, FiniteSets, Functions

CONSTANTS BlobOwners, NativeCaller, BlobWorkspaces,
          MediaTypes, Bytes,
          BlobQuota,       \* stored, blob, inflight, uploads, reads, readTtl
          UploadTtl, ReadTtl, IdleAfter,
          MaxLeases,       \* bound: lease ids given out
          MaxBlobClock     \* bound: the clock

Bytestrings == UNION {[1 .. n -> Bytes] : n \in 0 .. BlobQuota.blob}
Shared == [kind |-> "shared", of |-> "none"]
Workspace(w) == [kind |-> "workspace", of |-> w]
Private(p) == [kind |-> "private", of |-> p]
BlobScopes == {Shared} \cup {Workspace(w) : w \in BlobWorkspaces} \cup {Private(p) : p \in BlobOwners}

ASSUME BlobAssumption ==
    /\ NativeCaller \in BlobOwners
    /\ {BlobQuota.stored, BlobQuota.blob, BlobQuota.inflight, BlobQuota.uploads,
        BlobQuota.reads, BlobQuota.readTtl, UploadTtl, ReadTtl} \subseteq Nat \ {0}
    /\ BlobQuota.blob <= BlobQuota.inflight
    /\ ReadTtl <= BlobQuota.readTtl
    /\ {IdleAfter, MaxLeases, MaxBlobClock} \subseteq Nat

VARIABLES store,       \* blobs, uploads, reads, next lease id, bytes in flight
          picker,      \* a picked file being stored: its lease, its clock, what is left of it
          blobClock

blobVars == <<store, picker, blobClock>>

NoBlobs == << >>
NoPick == [lease |-> 0, at |-> 0, left |-> << >>, failed |-> FALSE]
Times == 0 .. MaxBlobClock

BlobInit ==
    /\ store = [blobs |-> NoBlobs, uploads |-> NoBlobs, reads |-> NoBlobs, next |-> 1, inflight |-> 0]
    /\ picker = NoPick
    /\ blobClock = 0

BlobTypeOK ==
    /\ DOMAIN store.blobs \subseteq Bytestrings
    /\ \A d \in DOMAIN store.blobs : store.blobs[d] \in [mediaType : MediaTypes, lastAccess : Times]
    /\ DOMAIN store.uploads \cup DOMAIN store.reads \subseteq 1 .. store.next - 1
    /\ \A i \in DOMAIN store.reads :
          store.reads[i] \in [digest : Bytestrings, owner : BlobOwners,
                              expires : 0 .. MaxBlobClock + BlobQuota.readTtl]
    /\ picker.lease \in 0 .. MaxLeases
-----------------------------------------------------------------------------
\* The store's own transitions: each takes the store to what an operation leaves.

Allows(scope, caller, workspace) ==
    \/ scope.kind = "shared"
    \/ scope.kind = "private" /\ scope.of = caller
    \/ scope.kind = "workspace" /\ scope.of = workspace

\* The sum of a function of sizes, as the number of the units it counts.
Total(size) == Cardinality(UNION {{i} \X (1 .. size[i]) : i \in DOMAIN size})

StoredBytes(s) == Total([d \in DOMAIN s.blobs |-> Len(d)])
Announced(s, ids) == Total([i \in ids |-> s.uploads[i].expected])

WithoutBlob(f, x) == Restrict(f, DOMAIN f \ {x})
Placed(f, x, entry) == [y \in DOMAIN f \cup {x} |-> IF y = x THEN entry ELSE f[y]]
LessBytes(n, m) == IF m < n THEN n - m ELSE 0

WithoutUpload(s, id) ==
    [s EXCEPT !.uploads = WithoutBlob(@, id), !.inflight = LessBytes(@, s.uploads[id].expected)]

CanBegin(s, size) ==
    /\ size <= BlobQuota.blob
    /\ Cardinality(DOMAIN s.uploads) < BlobQuota.uploads
    /\ s.inflight + size <= BlobQuota.inflight

Begun(s, owner, mediaType, size, at) ==
    [s EXCEPT !.uploads = Placed(@, s.next, [owner |-> owner, mediaType |-> mediaType,
                                             expected |-> size, expires |-> at + UploadTtl,
                                             bytes |-> << >>]),
              !.next = @ + 1,
              !.inflight = @ + size]

\* expire_upload_if_needed and ensure_upload_owner.
LiveUpload(s, id, owner, at) ==
    id \in DOMAIN s.uploads /\ s.uploads[id].expires > at /\ s.uploads[id].owner = owner
ExpiredUpload(s, id, at) ==
    IF id \in DOMAIN s.uploads /\ s.uploads[id].expires <= at THEN WithoutUpload(s, id) ELSE s

CanExtend(s, id, owner, chunk, at) ==
    LiveUpload(s, id, owner, at) /\ Len(s.uploads[id].bytes) + Len(chunk) <= s.uploads[id].expected
Extended(s, id, owner, chunk, at) ==
    IF CanExtend(s, id, owner, chunk, at) THEN [s EXCEPT !.uploads[id].bytes = @ \o chunk]
    ELSE ExpiredUpload(s, id, at)

\* A digest that is stored must be of the same type; a new one must fit.
CanCommitBlob(s, id, owner, at) ==
    /\ LiveUpload(s, id, owner, at)
    /\ LET u == s.uploads[id] IN
          /\ Len(u.bytes) = u.expected
          /\ IF u.bytes \in DOMAIN s.blobs THEN s.blobs[u.bytes].mediaType = u.mediaType
             ELSE StoredBytes(s) + u.expected <= BlobQuota.stored

CommittedBlob(s, id, owner, at) ==
    IF ~ CanCommitBlob(s, id, owner, at) THEN ExpiredUpload(s, id, at)
    ELSE [WithoutUpload(s, id) EXCEPT
            !.blobs = Placed(@, s.uploads[id].bytes,
                             [mediaType |-> s.uploads[id].mediaType, lastAccess |-> at])]

Aborted(s, id, owner, at) ==
    IF LiveUpload(s, id, owner, at) THEN WithoutUpload(s, id) ELSE ExpiredUpload(s, id, at)

CanOpen(s, digest, scope, mediaType, caller, workspace, ttl) ==
    /\ Allows(scope, caller, workspace)
    /\ ttl \in 1 .. BlobQuota.readTtl
    /\ Cardinality(DOMAIN s.reads) < BlobQuota.reads
    /\ digest \in DOMAIN s.blobs /\ s.blobs[digest].mediaType = mediaType

Opened(s, digest, caller, ttl, at) ==
    [s EXCEPT !.blobs[digest].lastAccess = at,
              !.reads = Placed(@, s.next, [digest |-> digest, owner |-> caller, expires |-> at + ttl]),
              !.next = @ + 1]

\* read_chunk drops a lease that has expired and touches the blob otherwise.
Touched(s, id, caller, at) ==
    IF s.reads[id].expires <= at THEN [s EXCEPT !.reads = WithoutBlob(@, id)]
    ELSE IF s.reads[id].owner # caller \/ s.reads[id].digest \notin DOMAIN s.blobs THEN s
    ELSE [s EXCEPT !.blobs[s.reads[id].digest].lastAccess = at]

Pinned(s) == {s.reads[i].digest : i \in DOMAIN s.reads}

\* Mutant: release does not look at the read leases.
ReleasedAnyway(s, digest) == [s EXCEPT !.blobs = WithoutBlob(@, digest)]

Released(s, digest) ==
    IF digest \in Pinned(s) THEN s ELSE [s EXCEPT !.blobs = WithoutBlob(@, digest)]

Swept(s, at, idleAfter) ==
    LET uploads == {i \in DOMAIN s.uploads : at < s.uploads[i].expires}
        reads   == {i \in DOMAIN s.reads : at < s.reads[i].expires}
        pinned  == {s.reads[i].digest : i \in reads}
        stale   == {d \in DOMAIN s.blobs \ pinned : at - s.blobs[d].lastAccess >= idleAfter}
    IN  [s EXCEPT !.uploads = Restrict(@, uploads),
                  !.reads = Restrict(@, reads),
                  !.inflight = LessBytes(@, Announced(s, DOMAIN s.uploads \ uploads)),
                  !.blobs = Restrict(@, DOMAIN @ \ stale)]
-----------------------------------------------------------------------------
\* Operations.  A reading of the clock is taken before the lock.

Readings == {t \in Times : t <= blobClock /\ t >= blobClock - 1}
StoreOnly(s) == store' = s /\ UNCHANGED <<picker, blobClock>>

\* blob.write and plugin.surface.file-attach hold the lock from begin to commit and
\* leave through ? in between: what was begun and not committed stays.
StoreAtOnce(owner, mediaType, declared, content) ==
    \E at \in Readings :
       /\ store.next < MaxLeases /\ CanBegin(store, declared)
       /\ LET id == store.next
              begun == Begun(store, owner, mediaType, declared, at)
          IN  IF CanExtend(begun, id, owner, content, at)
              THEN StoreOnly(CommittedBlob(Extended(begun, id, owner, content, at), id, owner, at))
              ELSE StoreOnly(begun)

\* blob.upload.begin, blob.upload.chunk and blob.upload.commit.
UploadBegin(mediaType, size) ==
    \E at \in Readings :
       /\ store.next < MaxLeases /\ CanBegin(store, size)
       /\ StoreOnly(Begun(store, NativeCaller, mediaType, size, at))
UploadChunk(id, chunk) ==
    \E at \in Readings : StoreOnly(Extended(store, id, NativeCaller, chunk, at))
UploadCommit(id) == \E at \in Readings : StoreOnly(CommittedBlob(store, id, NativeCaller, at))

\* plugin.files.pick: the lock is taken for the lease, for each chunk, for the
\* commit and, when any of them failed, for the abort.
PickBegin(mediaType, size, content) ==
    /\ picker.lease = 0 /\ store.next < MaxLeases
    /\ CanBegin(store, size)
    /\ store' = Begun(store, NativeCaller, mediaType, size, blobClock)
    /\ picker' = [lease |-> store.next, at |-> blobClock, left |-> content, failed |-> FALSE]
    /\ UNCHANGED blobClock
PickChunk ==
    /\ picker.lease # 0 /\ ~ picker.failed /\ picker.left # << >>
    /\ LET chunk == <<Head(picker.left)>> IN
          /\ store' = Extended(store, picker.lease, NativeCaller, chunk, picker.at)
          /\ picker' = [picker EXCEPT
                !.left = Tail(@),
                !.failed = ~ CanExtend(store, picker.lease, NativeCaller, chunk, picker.at)]
    /\ UNCHANGED blobClock
PickCommit ==
    /\ picker.lease # 0 /\ ~ picker.failed /\ picker.left = << >>
    /\ store' = CommittedBlob(store, picker.lease, NativeCaller, picker.at)
    /\ picker' = IF CanCommitBlob(store, picker.lease, NativeCaller, picker.at) THEN NoPick
                 ELSE [picker EXCEPT !.failed = TRUE]
    /\ UNCHANGED blobClock
PickAbort ==
    /\ picker.failed
    /\ store' = Aborted(store, picker.lease, NativeCaller, picker.at)
    /\ picker' = NoPick
    /\ UNCHANGED blobClock

\* blob.read opens, reads and closes under one lock.
BlobRead(digest, scope, mediaType, caller, workspace) ==
    \E at \in Readings :
       /\ store.next < MaxLeases
       /\ CanOpen(store, digest, scope, mediaType, caller, workspace, ReadTtl)
       /\ LET id == store.next IN
             StoreOnly([Touched(Opened(store, digest, caller, ReadTtl, at), id, caller, at)
                          EXCEPT !.reads = WithoutBlob(@, id)])

\* The store's interface for streaming readers, and its clean-up.
OpenRead(digest, scope, mediaType, caller, workspace, ttl) ==
    \E at \in Readings :
       /\ store.next < MaxLeases
       /\ CanOpen(store, digest, scope, mediaType, caller, workspace, ttl)
       /\ StoreOnly(Opened(store, digest, caller, ttl, at))
ReadChunk(id, caller) ==
    \E at \in Readings : id \in DOMAIN store.reads /\ StoreOnly(Touched(store, id, caller, at))
CloseRead(id, caller) ==
    /\ id \in DOMAIN store.reads /\ store.reads[id].owner = caller
    /\ StoreOnly([store EXCEPT !.reads = WithoutBlob(@, id)])
Sweep == \E at \in Readings : StoreOnly(Swept(store, at, IdleAfter))

\* blob.release.
Release(digest) == digest \in DOMAIN store.blobs /\ StoreOnly(Released(store, digest))

BlobTick == blobClock < MaxBlobClock /\ blobClock' = blobClock + 1 /\ UNCHANGED <<store, picker>>

BlobNext ==
    \/ BlobTick \/ Sweep \/ PickChunk \/ PickCommit \/ PickAbort
    \/ \E m \in MediaTypes, c \in Bytestrings, n \in 0 .. BlobQuota.blob :
          \/ PickBegin(m, n, c) \/ UploadBegin(m, n)
          \/ \E o \in BlobOwners : StoreAtOnce(o, m, n, c)
    \/ \E id \in DOMAIN store.uploads :
          UploadCommit(id) \/ \E c \in Bytestrings : UploadChunk(id, c)
    \/ \E d \in DOMAIN store.blobs, s \in BlobScopes, m \in MediaTypes, o \in BlobOwners,
          w \in BlobWorkspaces :
          \/ Release(d) \/ BlobRead(d, s, m, o, w)
          \/ \E ttl \in 1 .. BlobQuota.readTtl : OpenRead(d, s, m, o, w, ttl)
    \/ \E id \in DOMAIN store.reads, o \in BlobOwners : ReadChunk(id, o) \/ CloseRead(id, o)

BlobSpec == BlobInit /\ [][BlobNext]_blobVars
-----------------------------------------------------------------------------
\* The bytes in flight are exactly what the upload leases announced.
InflightExact == store.inflight = Announced(store, DOMAIN store.uploads)

BlobQuotaKept ==
    /\ store.inflight <= BlobQuota.inflight /\ StoredBytes(store) <= BlobQuota.stored
    /\ Cardinality(DOMAIN store.uploads) <= BlobQuota.uploads
    /\ Cardinality(DOMAIN store.reads) <= BlobQuota.reads

\* Whoever holds a read lease finds the blob, whatever is released or swept.
PinnedBlobsStay == \A i \in DOMAIN store.reads : store.reads[i].digest \in DOMAIN store.blobs

\* The accounts of the store are exact through every order of begin, chunk, commit,
\* failure, expiry, release and sweep.
BlobAccountsExact == BlobTypeOK /\ InflightExact /\ BlobQuotaKept /\ PinnedBlobsStay
=============================================================================
