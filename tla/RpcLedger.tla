------------------------------ MODULE RpcLedger ------------------------------
(***************************************************************************)
(* The Inside RPC ledger (kernel/rpc.rs): the lifecycle of unary calls and *)
(* credit-controlled streams, as a validator of the envelopes that caller  *)
(* and target exchange.  The transport between them may lose, duplicate,   *)
(* delay and reorder: any envelope may be presented to the ledger at any   *)
(* time, any number of times.  The kernel owns a ledger; only its tests    *)
(* present envelopes to it.                                                *)
(***************************************************************************)
EXTENDS Integers, Sequences, FiniteSets

CONSTANTS RpcIds, Contexts,    \* a context is caller, target, trace, deadline and lease at once
          DeadlineOf,          \* Contexts -> instant
          LeaseActive(_, _),   \* context, instant: its capability lease is active
          MaxInflightCalls, MaxWindowCredits,
          Credits, MaxRpcClock, MaxSequence   \* inputs and bounds

Kinds == {"unary", "open", "item", "end", "cancel", "window"}
Directions == {"request", "response"}
Envelopes == [id : RpcIds, context : Contexts, direction : Directions, kind : Kinds,
              sequence : 0 .. MaxSequence, credit : Credits]

ASSUME RpcLedgerAssumption ==
    /\ DeadlineOf \in [Contexts -> Nat]
    /\ {MaxInflightCalls, MaxWindowCredits} \subseteq Nat \ {0}
    /\ Credits \subseteq Nat /\ {MaxRpcClock, MaxSequence} \subseteq Nat

VARIABLES calls,      \* id -> context, state, next sequence, available credit
          rpcClock,
          granted,    \* history: id -> credit granted
          accepted    \* history: id -> sequence numbers of the items accepted

rpcLedgerVars == <<calls, rpcClock, granted, accepted>>

ActiveStates == {"unary", "stream"}
FinalStates == {"completed", "cancelled"}

LedgerInit ==
    /\ calls = << >>
    /\ rpcClock = 0
    /\ granted = [i \in RpcIds |-> 0]
    /\ accepted = [i \in RpcIds |-> << >>]

LedgerTypeOK ==
    /\ DOMAIN calls \subseteq RpcIds
    /\ \A i \in DOMAIN calls :
          calls[i] \in [context : Contexts, state : ActiveStates \cup FinalStates,
                        next : Nat \ {0}, credit : 0 .. MaxWindowCredits]
    /\ rpcClock \in 0 .. MaxRpcClock

\* validate_shape: what a frame of each kind and direction may carry.
WellShaped(e) ==
    \/ e.direction = "request" /\ e.kind \in {"unary", "open", "cancel"}
          /\ e.sequence = 0 /\ e.credit = 0
    \/ e.direction = "request" /\ e.kind = "window" /\ e.sequence = 0
          /\ e.credit \in 1 .. MaxWindowCredits
    \/ e.direction = "response" /\ e.kind = "unary" /\ e.sequence = 0 /\ e.credit = 0
    \/ e.direction = "response" /\ e.kind = "item" /\ e.sequence # 0 /\ e.credit = 0
    \/ e.direction = "response" /\ e.kind = "end" /\ e.credit = 0

ValidNow(e) ==
    WellShaped(e) /\ rpcClock < DeadlineOf[e.context] /\ LeaseActive(e.context, rpcClock)

ActiveCalls == {i \in DOMAIN calls : calls[i].state \in ActiveStates}

\* validate_context: an envelope of a known call keeps the whole context of its first.
SameContext(e) == e.id \in DOMAIN calls /\ calls[e.id].context = e.context

InState(e, state) == SameContext(e) /\ calls[e.id].state = state
Becomes(i, call) == calls' = [calls EXCEPT ![i] = call] /\ UNCHANGED rpcClock
-----------------------------------------------------------------------------
NewCall(e) == [context |-> e.context, state |-> IF e.kind = "unary" THEN "unary" ELSE "stream",
               next |-> 1, credit |-> 0]

StartCall(e) ==
    /\ e.direction = "request" /\ e.kind \in {"unary", "open"}
    /\ e.id \notin DOMAIN calls
    /\ Cardinality(ActiveCalls) < MaxInflightCalls
    /\ calls' = [i \in DOMAIN calls \cup {e.id} |->
                   IF i = e.id THEN NewCall(e) ELSE calls[i]]
    /\ UNCHANGED <<rpcClock, granted, accepted>>

UpdateWindow(e) ==
    /\ e.kind = "window" /\ InState(e, "stream")
    /\ calls[e.id].credit + e.credit <= MaxWindowCredits
    /\ Becomes(e.id, [calls[e.id] EXCEPT !.credit = @ + e.credit])
    /\ granted' = [granted EXCEPT ![e.id] = @ + e.credit]
    /\ UNCHANGED accepted

\* Mutant: a call that has ended is cancelled too.
CancelEnded(e) ==
    /\ e.kind = "cancel" /\ SameContext(e)
    /\ Becomes(e.id, [calls[e.id] EXCEPT !.state = "cancelled"])
    /\ UNCHANGED <<granted, accepted>>

CancelCall(e) ==
    /\ e.kind = "cancel" /\ SameContext(e) /\ calls[e.id].state \in ActiveStates
    /\ Becomes(e.id, [calls[e.id] EXCEPT !.state = "cancelled"])
    /\ UNCHANGED <<granted, accepted>>

CompleteUnary(e) ==
    /\ e.direction = "response" /\ e.kind = "unary" /\ InState(e, "unary")
    /\ Becomes(e.id, [calls[e.id] EXCEPT !.state = "completed"])
    /\ UNCHANGED <<granted, accepted>>

\* Mutant: an item is accepted at any later place of the sequence.
NotBefore(e) == e.sequence >= calls[e.id].next

Expected(e) == e.sequence = calls[e.id].next

AcceptItem(e) ==
    /\ e.kind = "item" /\ InState(e, "stream")
    /\ Expected(e) /\ calls[e.id].credit > 0
    /\ Becomes(e.id, [calls[e.id] EXCEPT !.credit = @ - 1, !.next = @ + 1])
    /\ accepted' = [accepted EXCEPT ![e.id] = Append(@, e.sequence)]
    /\ UNCHANGED granted

EndStream(e) ==
    /\ e.kind = "end" /\ InState(e, "stream")
    /\ Expected(e)
    /\ Becomes(e.id, [calls[e.id] EXCEPT !.state = "completed"])
    /\ UNCHANGED <<granted, accepted>>

\* RpcLedger::accept; an envelope that is refused changes nothing.
AcceptEnvelope(e) ==
    /\ ValidNow(e)
    /\ \/ StartCall(e) \/ UpdateWindow(e) \/ CancelCall(e)
       \/ CompleteUnary(e) \/ AcceptItem(e) \/ EndStream(e)

RpcTick == rpcClock < MaxRpcClock /\ rpcClock' = rpcClock + 1 /\ UNCHANGED <<calls, granted, accepted>>

LedgerNext == RpcTick \/ \E e \in Envelopes : AcceptEnvelope(e)

LedgerSpec == LedgerInit /\ [][LedgerNext]_rpcLedgerVars
-----------------------------------------------------------------------------
\* Under loss, duplication and reordering a stream never delivers more items than
\* were granted, and delivers exactly the items 1, 2, ... up to its next sequence;
\* a call that has ended takes nothing more.
StreamsAccounted ==
    /\ LedgerTypeOK
    /\ Cardinality(ActiveCalls) <= MaxInflightCalls
    /\ \A i \in DOMAIN calls :
          /\ calls[i].credit = granted[i] - Len(accepted[i])
          /\ accepted[i] = [k \in 1 .. calls[i].next - 1 |-> k]

\* A call keeps the context it was started with, and its end is final.
EndedCallsStay ==
    [][\A i \in DOMAIN calls :
          /\ i \in DOMAIN calls'
          /\ calls'[i].context = calls[i].context
          /\ calls[i].state \in FinalStates => calls'[i] = calls[i]]_rpcLedgerVars
=============================================================================
