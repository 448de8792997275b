--------------------------- MODULE PluginSurfaces ---------------------------
(***************************************************************************)
(* The surface sessions of plugins and their continuations                 *)
(* (kernel/plugin_surfaces.rs), with the operations plugin.surface.state,  *)
(* .action, .host-action and .file-attach (kernel_commands.rs).            *)
(*                                                                         *)
(* An operation takes the registry's lock twice: to read the session or to *)
(* authorize the action, and to apply what the worker answered.  Between   *)
(* the two the worker runs (WorkerSessions, WorkerRpc), other operations   *)
(* of the same session come and go, and time passes.  A worker may answer  *)
(* with the request to be called again; the user interface then sends the  *)
(* cursor it was given, or any earlier one, once or several times.         *)
(***************************************************************************)
EXTENDS Integers, FiniteSets

CONSTANTS SurfaceThreads, SurfaceKeys, SurfaceActions,
          DeclaredFor,          \* action -> capabilities the installed UI declares for it
          ReviewCapability,     \* agent.review.request
          MaxSurfaceSessions, MaxContinuations,
          ContinuationBudget,   \* SURFACE_CONTINUATION_TOTAL_BUDGET
          MaxChains, MaxCursors, MaxSurfaceClock      \* bounds

Capabilities == UNION {DeclaredFor[a] : a \in SurfaceActions}
DeclaredActions == {a \in SurfaceActions : DeclaredFor[a] # {}}

ASSUME SurfacesAssumption ==
    /\ DOMAIN DeclaredFor = SurfaceActions
    /\ {MaxSurfaceSessions, ContinuationBudget} \subseteq Nat \ {0}
    /\ {MaxContinuations, MaxChains, MaxCursors, MaxSurfaceClock} \subseteq Nat

VARIABLES surfaces,   \* key -> who wrote the model last, the pending continuation
          call,       \* thread -> its operation while the worker runs
          cursors,    \* cursors given out
          surfaceClock,
          begun,      \* history: chain -> when its first action was authorized
          links,      \* history: chain -> worker requests made for it
          decisions   \* history: capabilities of the actions whose decisions were shown

surfaceVars == <<surfaces, call, cursors, surfaceClock, begun, links, decisions>>

Chains == 1 .. MaxChains
NoChain == [root |-> 0, n |-> 0, deadline |-> 0]
NoPending == [cursor |-> 0, action |-> "none", chain |-> NoChain]
NoCall == [kind |-> "none", key |-> "none", action |-> "none", capability |-> "none", chain |-> NoChain]
NewSession == [writer |-> "none", pending |-> NoPending]
ChainType == [root : 0 .. MaxChains, n : 0 .. MaxContinuations,
              deadline : 0 .. MaxSurfaceClock + ContinuationBudget]

SurfacesInit ==
    /\ surfaces = << >>
    /\ call = [t \in SurfaceThreads |-> NoCall]
    /\ cursors = 0
    /\ surfaceClock = 0
    /\ begun = [c \in Chains |-> 0]
    /\ links = [c \in Chains |-> 0]
    /\ decisions = {}

SurfacesTypeOK ==
    /\ DOMAIN surfaces \subseteq SurfaceKeys
    /\ Cardinality(DOMAIN surfaces) <= MaxSurfaceSessions
    /\ \A k \in DOMAIN surfaces : /\ surfaces[k].pending.chain \in ChainType
                                  /\ surfaces[k].pending.cursor \in 0 .. cursors
    /\ \A t \in SurfaceThreads : call[t].chain \in ChainType
    /\ surfaceClock \in 0 .. MaxSurfaceClock

\* session_mut: the session, made when there is room for it.
HasSurfaceRoom(key) == key \in DOMAIN surfaces \/ Cardinality(DOMAIN surfaces) < MaxSurfaceSessions
Session(key) == IF key \in DOMAIN surfaces THEN surfaces[key] ELSE NewSession
With(key, session) ==
    [k \in DOMAIN surfaces \cup {key} |-> IF k = key THEN session ELSE surfaces[k]]

Idle(t) == call[t] = NoCall
Busy(t, kind, key, action, capability, chain) ==
    call' = [call EXCEPT ![t] = [kind |-> kind, key |-> key, action |-> action,
                                 capability |-> capability, chain |-> chain]]
-----------------------------------------------------------------------------
\* plugin.surface.state calls the worker only when there is no session yet.
AskState(t, key) ==
    /\ Idle(t) /\ key \notin DOMAIN surfaces
    /\ Busy(t, "state", key, "none", "none", NoChain)
    /\ UNCHANGED <<surfaces, cursors, surfaceClock, begun, links, decisions>>

\* A host action (a selected file among them) has no chain and touches no session.
HostAction(t, key) ==
    /\ Idle(t)
    /\ Busy(t, "host", key, "none", "none", NoChain)
    /\ UNCHANGED <<surfaces, cursors, surfaceClock, begun, links, decisions>>

NextChain == CHOOSE c \in Chains : links[c] = 0

\* An action of the user begins a chain and drops what the session still waited for.
Act(t, key, action, capability) ==
    /\ Idle(t) /\ capability \in DeclaredFor[action] /\ HasSurfaceRoom(key)
    /\ \E c \in Chains : links[c] = 0
    /\ LET chain == [root |-> NextChain, n |-> 0, deadline |-> surfaceClock + ContinuationBudget] IN
          /\ Busy(t, "action", key, action, capability, chain)
          /\ begun' = [begun EXCEPT ![NextChain] = surfaceClock]
          /\ links' = [links EXCEPT ![NextChain] = 1]
    /\ surfaces' = With(key, [Session(key) EXCEPT !.pending = NoPending])
    /\ UNCHANGED <<cursors, surfaceClock, decisions>>

\* Mutant: the pending continuation is read and not taken.
LeftPending(session) == session

TakenPending(session) == [session EXCEPT !.pending = NoPending]

\* The user interface returns a cursor: the continuation is taken, and lost when
\* cursor or action are not the session's or its time is over.
Continue(t, key, action, cursor) ==
    /\ Idle(t) /\ action \in DeclaredActions /\ HasSurfaceRoom(key)
    /\ LET pending == Session(key).pending
           chain == pending.chain
       IN  /\ surfaces' = With(key, TakenPending(Session(key)))
           /\ IF /\ pending # NoPending
                 /\ pending.cursor = cursor /\ pending.action = action
                 /\ surfaceClock < chain.deadline
              THEN /\ Busy(t, "action", key, action, "none", chain)
                   /\ links' = [links EXCEPT ![chain.root] = @ + 1]
              ELSE UNCHANGED <<call, links>>
    /\ UNCHANGED <<cursors, surfaceClock, begun, decisions>>
-----------------------------------------------------------------------------
\* The worker fails, or answers something that is refused before it is applied: an
\* undeclared next action, a decision nobody was asked for, a session too many.
ReviewAllowed(c) == c.kind = "action" /\ c.capability = ReviewCapability
Refused(t, event, next) ==
    \/ event = "invalid" \/ ~ HasSurfaceRoom(call[t].key)
    \/ event = "continue" /\ next \notin DeclaredActions
    \/ event = "decision" /\ ~ ReviewAllowed(call[t])

WorkerRefused(t, event, next) ==
    /\ ~ Idle(t) /\ Refused(t, event, next)
    /\ call' = [call EXCEPT ![t] = NoCall]
    /\ UNCHANGED <<surfaces, cursors, surfaceClock, begun, links, decisions>>

\* apply_worker_response: the model is replaced whatever the event then leads to.
Applied(t, pending) ==
    surfaces' = With(call[t].key, [writer |-> call[t].kind, pending |-> pending])

Exhausted(chain) == chain.n >= MaxContinuations \/ surfaceClock >= chain.deadline

WorkerContinues(t, next) ==
    /\ ~ Idle(t) /\ ~ Refused(t, "continue", next)
    /\ LET chain == call[t].chain IN
          IF chain = NoChain    \* reported as an error
          THEN Applied(t, Session(call[t].key).pending) /\ UNCHANGED cursors
          ELSE IF Exhausted(chain)
          THEN Applied(t, NoPending) /\ UNCHANGED cursors
          ELSE /\ cursors < MaxCursors
               /\ cursors' = cursors + 1
               /\ Applied(t, [cursor |-> cursors + 1, action |-> next,
                              chain |-> [chain EXCEPT !.n = @ + 1]])
    /\ call' = [call EXCEPT ![t] = NoCall]
    /\ UNCHANGED <<surfaceClock, begun, links, decisions>>

\* An answer without a continuation ends the chain, if it belongs to one.
WorkerAnswers(t, event) ==
    /\ ~ Idle(t) /\ ~ Refused(t, event, "none")
    /\ Applied(t, IF call[t].chain = NoChain THEN Session(call[t].key).pending ELSE NoPending)
    /\ decisions' = IF event = "decision" THEN decisions \cup {call[t].capability} ELSE decisions
    /\ call' = [call EXCEPT ![t] = NoCall]
    /\ UNCHANGED <<cursors, surfaceClock, begun, links>>

SurfaceTick ==
    /\ surfaceClock < MaxSurfaceClock
    /\ surfaceClock' = surfaceClock + 1
    /\ UNCHANGED <<surfaces, call, cursors, begun, links, decisions>>

SurfacesNext ==
    \/ SurfaceTick
    \/ \E t \in SurfaceThreads :
          \/ \E e \in {"invalid", "continue", "decision"}, a \in SurfaceActions : WorkerRefused(t, e, a)
          \/ \E a \in SurfaceActions : WorkerContinues(t, a)
          \/ \E e \in {"none", "error", "decision"} : WorkerAnswers(t, e)
          \/ \E k \in SurfaceKeys :
                \/ AskState(t, k) \/ HostAction(t, k)
                \/ \E a \in SurfaceActions :
                      \/ \E c \in Capabilities : Act(t, k, a, c)
                      \/ \E n \in 1 .. MaxCursors : n <= cursors /\ Continue(t, k, a, n)

SurfacesSpec == SurfacesInit /\ [][SurfacesNext]_surfaceVars
-----------------------------------------------------------------------------
\* A chain is in one place: one worker request runs for it, or one session waits for
\* its next cursor, however often and wherever a cursor is sent.
Places(c) ==
    {<<"call", t>> : t \in {t \in SurfaceThreads : call[t].chain.root = c}}
    \cup {<<"pending", k>> : k \in {k \in DOMAIN surfaces : surfaces[k].pending.chain.root = c}}

\* A chain makes no more worker requests than its limit, keeps the deadline of the
\* action that began it, and no decision about a review comes from an action that
\* was not the user's request for one.
ContinuationsSound ==
    /\ SurfacesTypeOK
    /\ \A c \in Chains : Cardinality(Places(c)) <= 1 /\ links[c] <= MaxContinuations + 1
    /\ \A t \in SurfaceThreads : call[t].chain # NoChain =>
          call[t].chain.deadline = begun[call[t].chain.root] + ContinuationBudget
    /\ decisions \subseteq {ReviewCapability}
=============================================================================
