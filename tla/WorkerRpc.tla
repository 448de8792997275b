------------------------------ MODULE WorkerRpc ------------------------------
(***************************************************************************)
(* The worker RPC protocol (host_bus/python_worker.rs): one process and    *)
(* the session that talks to it over its stdin and stdout, one request at  *)
(* a time, with events, reverse Host calls, deadline and cancellation.     *)
(*                                                                         *)
(* Two clients use sessions.  The pool of plugin_surfaces.rs (its own      *)
(* module is WorkerSessions) numbers the requests of a session and drops   *)
(* the session after most errors; the manager of plugin_worker.rs takes    *)
(* the request id from its caller and drops it only when the process has   *)
(* exited.  Which of the two is at work is chosen in the initial state.    *)
(*                                                                         *)
(* The worker keeps to the loop of the SDK (plugins/sdk/python) but may    *)
(* send any content, stop at any point, or never answer.                   *)
(***************************************************************************)
EXTENDS Integers, Sequences, FiniteSets

CONSTANTS CallIds,         \* request ids the callers of the manager use
          Bodies,          \* contents of messages
          MaxEvents, MaxHostCalls,   \* MAX_EVENTS_PER_REQUEST, MAX_HOST_CALLS_PER_REQUEST
          MaxActive,       \* MAX_SESSION_CALLS
          MaxCalls,        \* bound: calls
          MaxProcesses,    \* bound: processes started
          MaxOpened,       \* bound: sessions opened by the manager
          MaxSent          \* bound: messages of one process

Calls == 1 .. MaxCalls
Processes == 1 .. MaxProcesses
Errors == {"TooLarge", "Frame", "Protocol", "Timeout", "Cancelled", "Exited", "Io", "Remote"}

ASSUME RpcAssumption ==
    /\ Bodies \subseteq [authority : BOOLEAN, ref : {"none", "sound", "unsound"},
                         size : {"inline", "large", "overframe"}]
    /\ CallIds \subseteq Nat
    /\ {MaxEvents, MaxHostCalls} \subseteq Nat
    /\ {MaxActive, MaxCalls, MaxProcesses, MaxOpened, MaxSent} \subseteq Nat \ {0}

VARIABLES owner,      \* "pool" or "manager"
          current,    \* the process of the pooled entry or of the open session, 0 if none
          process,    \* of each process: up, its two streams and what it is doing
          holder,     \* process -> the call that holds the session's mutex, 0 if none
          stage,      \* call -> where it is
          callId,     \* call -> its request id
          bound,      \* call -> the process it was given, 0 if none yet
          flag,       \* call -> its cancellation flag
          counted,    \* call -> events and host calls received so far
          outcome,    \* call -> how it ended
          answeredBy, \* history: call -> the call the accepted response was made for
          effects,    \* history: <<running call, call the worker made it for>> of Host calls
          closing     \* processes whose session was closed and not yet shut down

callVars == <<stage, callId, bound, flag, counted, outcome>>
history == <<answeredBy, effects>>
rpcVars == <<owner, current, process, holder, callVars, history, closing>>

\* The pool names its requests by session and number, the manager as it is told.
NoId == <<0, 0>>
PoolId(p, n) == <<p, n>>
ManagerId(id) == <<0, id>>
Stages == {"none", "waiting", "receiving", "hosting", "grace", "leaving", "over"}
NoBody == [authority |-> FALSE, ref |-> "none", size |-> "inline"]

NotCounted == [events |-> 0, hostCalls |-> 0]

\* nth is history: the call a message was made for.
Message(type, id, nth, body) == [type |-> type, id |-> id, nth |-> nth, body |-> body]

NewProcess == [started |-> TRUE, up |-> TRUE, in |-> << >>, out |-> << >>, readerOn |-> TRUE, sent |-> 0,
               at |-> "idle", id |-> NoId, nth |-> 0]
NotStarted == [NewProcess EXCEPT !.started = FALSE, !.up = FALSE, !.readerOn = FALSE]

RpcTypeOK ==
    /\ owner \in {"pool", "manager"}
    /\ current \in Processes \cup {0}
    /\ DOMAIN process = Processes
    /\ holder \in [Processes -> Calls \cup {0}]
    /\ stage \in [Calls -> Stages]
    /\ bound \in [Calls -> Processes \cup {0}]
    /\ flag \in [Calls -> BOOLEAN]
    /\ outcome \in [Calls -> Errors \cup {"none", "answered", "failed"}]
    /\ answeredBy \in [Calls -> Calls \cup {0}]
    /\ effects \subseteq Calls \X Calls
    /\ closing \subseteq Processes

RpcInit ==
    /\ owner \in {"pool", "manager"}
    /\ current = 0
    /\ process = [p \in Processes |-> NotStarted]
    /\ holder = [p \in Processes |-> 0]
    /\ stage = [n \in Calls |-> "none"]
    /\ callId = [n \in Calls |-> NoId]
    /\ bound = [n \in Calls |-> 0]
    /\ flag = [n \in Calls |-> FALSE]
    /\ counted = [n \in Calls |-> NotCounted]
    /\ outcome = [n \in Calls |-> "none"]
    /\ answeredBy = [n \in Calls |-> 0]
    /\ effects = {}
    /\ closing = {}
-----------------------------------------------------------------------------
\* Contents.  Each check of the code names the error it ends in.

\* validate_no_authority_escape: a principal, lease or capability anywhere.
AuthorityEscapes(body) == body.authority

\* validate_blob_ref_envelopes and validate_blob_ref: some BlobRef is malformed.
BadBlobRef(body) == body.ref = "unsound"

\* validate_inline_payload: a payload that is one BlobRef may have any size.
InlineError(body) ==
    IF AuthorityEscapes(body) \/ BadBlobRef(body) THEN "Protocol"
    ELSE IF body.ref = "none" /\ body.size # "inline" THEN "TooLarge" ELSE "none"

\* validate_incoming_message: responses, events and Host requests alike.
IncomingError(m) == InlineError(m.body)
-----------------------------------------------------------------------------
\* The process r.  Its exit closes both streams.

Left(r) == [r EXCEPT !.up = FALSE, !.in = << >>, !.at = "idle", !.id = NoId, !.nth = 0]
Exited(p) == [process EXCEPT ![p] = Left(@)]

\* Dropping the session drops its channel and kills the process.
Dropped(p) == [process EXCEPT ![p] = [Left(@) EXCEPT !.readerOn = FALSE, !.out = << >>]]

\* write_frame to stdin: fails once the process is gone.
CanSend(p) == process[p].up
Given(r, m) == [r EXCEPT !.in = IF r.up THEN Append(@, m) ELSE @]
Sent(p, m) == [process EXCEPT ![p] = Given(@, m)]

\* The reader thread moves every frame to the session's channel, and stops for
\* good at the first frame it cannot read.
Emitted(r, m, at) ==
    [r EXCEPT !.sent = @ + 1,
              !.at = at,
              !.id = IF at = "idle" THEN NoId ELSE @,
              !.nth = IF at = "idle" THEN 0 ELSE @,
              !.readerOn = (r.readerOn /\ m.body.size # "overframe"),
              !.out = IF r.readerOn THEN Append(@, m) ELSE @]

Becomes(p, r) ==
    /\ process' = [process EXCEPT ![p] = r]
    /\ UNCHANGED <<owner, current, holder, callVars, history, closing>>

\* The loop of the SDK reads the next frame when it is idle, and the answer to a
\* reverse Host call inside one.
WorkerReads(p) ==
    LET r == process[p]
        m == Head(r.in)
        taken == [r EXCEPT !.in = Tail(@)]
        answer == m.type = "hostResponse" /\ m.id = r.id
    IN  /\ r.up /\ r.in # << >> /\ r.sent < MaxSent
        /\ \/ /\ r.at = "idle" /\ m.type = "request"
              /\ Becomes(p, [taken EXCEPT !.at = "handling", !.id = m.id, !.nth = m.nth])
           \/ /\ r.at = "idle" /\ m.type = "hostResponse"   \* unknown message type
              /\ Becomes(p, Left(r))
           \/ /\ r.at = "idle" /\ m.type = "cancel"   \* nothing runs: acknowledged
              /\ Becomes(p, Emitted(taken, Message("response", m.id, m.nth, NoBody), "idle"))
           \/ /\ r.at = "hosting" /\ answer
              /\ Becomes(p, [taken EXCEPT !.at = "handling"])
           \/ /\ r.at = "hosting" /\ ~ answer
              /\ Becomes(p, Emitted(taken, Message("failure", r.id, r.nth, NoBody), "idle"))

\* What the handler of a request does once it has sent a message.
AfterSending(type) ==
    CASE type = "event" -> "handling" [] type = "hostRequest" -> "hosting" [] OTHER -> "idle"

\* The handler of a request emits an event, calls the Host, or is done.
WorkerSends(p, type, body) ==
    LET r == process[p] IN
    /\ r.up /\ r.at = "handling" /\ r.sent < MaxSent
    /\ Becomes(p, Emitted(r, Message(type, r.id, r.nth, body), AfterSending(type)))

WorkerExits(p) == process[p].up /\ Becomes(p, Left(process[p]))
-----------------------------------------------------------------------------
\* Sessions and their clients.

Unused == {p \in Processes : ~ process[p].started}
NextProcess == CHOOSE p \in Unused : TRUE
Started == [process EXCEPT ![NextProcess] = NewProcess]

Active == {n \in Calls : stage[n] \notin {"none", "over"}}
NextCall == CHOOSE n \in Calls : stage[n] = "none"

\* plugin.worker.open; spawn kills the process again when the handshake fails.
Open ==
    /\ owner = "manager" /\ current = 0 /\ Unused # {} /\ NextProcess <= MaxOpened
    /\ current' = NextProcess
    /\ process' = Started
    /\ UNCHANGED <<owner, holder, callVars, history, closing>>

\* A surface request comes to the pool.
Ask ==
    /\ owner = "pool" /\ \E n \in Calls : stage[n] = "none"
    /\ stage' = [stage EXCEPT ![NextCall] = "waiting"]
    /\ UNCHANGED <<owner, current, process, holder, callId, bound, flag, counted, outcome,
                   history, closing>>

\* plugin.worker.call of an open session, within its limit and not a duplicate.
Call(id) ==
    /\ owner = "manager" /\ current # 0 /\ \E n \in Calls : stage[n] = "none"
    /\ LET same == {n \in Active : bound[n] = current} IN
          Cardinality(same) < MaxActive /\ \A n \in same : callId[n] # ManagerId(id)
    /\ stage' = [stage EXCEPT ![NextCall] = "waiting"]
    /\ callId' = [callId EXCEPT ![NextCall] = ManagerId(id)]
    /\ bound' = [bound EXCEPT ![NextCall] = current]
    /\ UNCHANGED <<owner, current, process, holder, flag, counted, outcome, history, closing>>

\* The pool starts a process when it has none.
SpawnPooled ==
    /\ owner = "pool" /\ current = 0 /\ Unused # {} /\ Active # {}
    /\ current' = NextProcess
    /\ process' = Started
    /\ UNCHANGED <<owner, holder, callVars, history, closing>>

\* request_with_host_cancel_id, under the session's mutex: the request is sent
\* before the flag is looked at.
Begin(n) ==
    LET p  == IF owner = "pool" THEN current ELSE bound[n]
        id == IF owner = "pool" THEN PoolId(p, n) ELSE callId[n]
    IN  /\ stage[n] = "waiting" /\ p # 0 /\ holder[p] = 0
        /\ holder' = [holder EXCEPT ![p] = n]
        /\ bound' = [bound EXCEPT ![n] = p]
        /\ callId' = [callId EXCEPT ![n] = id]
        /\ process' = Sent(p, Message("request", id, n, NoBody))
        /\ IF CanSend(p)
           THEN stage' = [stage EXCEPT ![n] = "receiving"] /\ UNCHANGED outcome
           ELSE stage' = [stage EXCEPT ![n] = "leaving"] /\ outcome' = [outcome EXCEPT ![n] = "Io"]
        /\ UNCHANGED <<owner, current, flag, counted, history, closing>>

\* The request returns to the client, which still holds the session.
Return(n, result) ==
    /\ stage' = [stage EXCEPT ![n] = "leaving"]
    /\ outcome' = [outcome EXCEPT ![n] = result]
    /\ UNCHANGED <<owner, current, holder, callId, bound, flag, closing>>

\* An error other than a give-up needs no memory once the call is over.
Remembered(result) == IF result \in {"answered", "Timeout", "Cancelled"} THEN result ELSE "failed"

\* Mutant: responses are taken whatever request they name.
AnyResponse(m, n) == TRUE

Correlated(m, n) == m.id = callId[n]

\* receive_until and response_for: the first message in the channel.
Receive(n) ==
    LET p == bound[n]
        m == Head(process[p].out)
        events == counted[n].events + 1
        hostCalls == counted[n].hostCalls + 1
        error == IF m.body.size = "overframe" THEN "Frame"
                 ELSE IF IncomingError(m) # "none" THEN IncomingError(m)
                 ELSE IF \/ m.type = "event" /\ events > MaxEvents
                         \/ m.type = "hostRequest" /\ hostCalls > MaxHostCalls
                         \/ ~ Correlated(m, n)
                 THEN "Protocol" ELSE "none"
    IN  /\ stage[n] = "receiving" /\ ~ flag[n] /\ process[p].out # << >>
        /\ process' = [process EXCEPT ![p] = [process[p] EXCEPT !.out = Tail(@)]]
        /\ counted' = [counted EXCEPT
              ![n].events = IF m.type = "event" /\ error = "none" THEN events ELSE @,
              ![n].hostCalls = IF m.type = "hostRequest" /\ error = "none" THEN hostCalls ELSE @]
        /\ \/ error # "none" /\ Return(n, error) /\ UNCHANGED history
           \/ error = "none" /\ m.type = "failure" /\ Return(n, "Remote") /\ UNCHANGED history
           \/ /\ error = "none" /\ m.type = "response"
              /\ Return(n, "answered")
              /\ answeredBy' = [answeredBy EXCEPT ![n] = m.nth]
              /\ UNCHANGED effects
           \/ /\ error = "none" /\ m.type = "event"
              /\ UNCHANGED <<owner, current, holder, stage, callId, bound, flag, outcome,
                             history, closing>>
           \/ /\ error = "none" /\ m.type = "hostRequest"
              /\ stage' = [stage EXCEPT ![n] = "hosting"]
              /\ effects' = effects \cup {<<n, m.nth>>}
              /\ UNCHANGED <<owner, current, holder, callId, bound, flag, outcome, answeredBy,
                             closing>>

\* The channel is empty and its sender is gone, or the read end of it met the end
\* of the stream.
MeetsEnd(n) ==
    /\ stage[n] = "receiving" /\ process[bound[n]].out = << >>
    /\ ~ (process[bound[n]].up /\ process[bound[n]].readerOn)
    /\ Return(n, "Exited")
    /\ UNCHANGED <<process, counted, history>>

\* The reverse Host call returns: its result goes to the worker, unless it is too
\* large for the protocol.
HostReturns(n, body) ==
    /\ stage[n] = "hosting"
    /\ IF InlineError(body) # "none" THEN Return(n, InlineError(body)) /\ UNCHANGED process
       ELSE IF ~ CanSend(bound[n]) THEN Return(n, "Io") /\ UNCHANGED process
       ELSE /\ process' = Sent(bound[n], Message("hostResponse", callId[n], n, NoBody))
            /\ stage' = [stage EXCEPT ![n] = "receiving"]
            /\ UNCHANGED <<owner, current, holder, callId, bound, flag, outcome, closing>>
    /\ UNCHANGED <<counted, history>>

\* Deadline or flag: the worker is told, and has the grace period left.
GiveUp(n, why) ==
    /\ stage[n] = "receiving"
    /\ why = "Cancelled" <=> flag[n]
    /\ process' = Sent(bound[n], Message("cancel", callId[n], n, NoBody))
    /\ stage' = [stage EXCEPT ![n] = "grace"]
    /\ outcome' = [outcome EXCEPT ![n] = why]
    /\ UNCHANGED <<owner, current, holder, callId, bound, flag, counted, history, closing>>

\* terminate_after_cancel_grace: the process has left by itself, or is killed.
GraceEnds(n) ==
    /\ stage[n] = "grace"
    /\ process' = Exited(bound[n])
    /\ stage' = [stage EXCEPT ![n] = "leaving"]
    /\ UNCHANGED <<owner, current, holder, callId, bound, flag, counted, outcome, history, closing>>

\* Mutant: only broken streams retire a session, not deadlines or cancellations.
RetiresBroken(result) == result \in {"Protocol", "Exited", "Io"}

\* should_retire_session.
Retires(result) == result \in {"Protocol", "Timeout", "Cancelled", "Exited", "Io"}

\* The pool drops the session after most errors, which kills its process; the
\* manager forgets whatever session has the id, when the process has exited.
Leave(n) ==
    LET drops == IF owner = "pool" THEN Retires(outcome[n]) ELSE outcome[n] = "Exited" IN
    /\ stage[n] = "leaving"
    /\ stage' = [stage EXCEPT ![n] = "over"]
    /\ holder' = [holder EXCEPT ![bound[n]] = IF @ = n THEN 0 ELSE @]
    /\ current' = IF drops THEN 0 ELSE current
    /\ process' = IF drops /\ owner = "pool" THEN Dropped(bound[n]) ELSE process
    /\ outcome' = [outcome EXCEPT ![n] = Remembered(@)]
    /\ flag' = [flag EXCEPT ![n] = FALSE]
    /\ counted' = [counted EXCEPT ![n] = NotCounted]
    /\ UNCHANGED <<owner, callId, bound, history, closing>>

\* plugin.worker.call releases the session before it takes its call out.
ReleaseSession(n) ==
    /\ owner = "manager" /\ stage[n] = "leaving" /\ holder[bound[n]] = n
    /\ holder' = [holder EXCEPT ![bound[n]] = 0]
    /\ UNCHANGED <<owner, current, process, callVars, history, closing>>

\* kernel_host_cancel and plugin.worker.cancel raise the flag of an active call.
Cancel(n) ==
    /\ n \in Active /\ ~ flag[n]
    /\ flag' = [flag EXCEPT ![n] = TRUE]
    /\ UNCHANGED <<owner, current, process, holder, stage, callId, bound, counted, outcome,
                   history, closing>>

\* plugin.worker.close, and close_plugin when a plugin is replaced or removed: the
\* session leaves the map, and is shut down once its mutex is free.
Close ==
    /\ owner = "manager" /\ current # 0
    /\ closing' = closing \cup {current}
    /\ current' = 0
    /\ UNCHANGED <<owner, process, holder, callVars, history>>

Shutdown(p) ==
    /\ p \in closing /\ holder[p] = 0
    /\ process' = Dropped(p)
    /\ closing' = closing \ {p}
    /\ UNCHANGED <<owner, current, holder, callVars, history>>

RpcNext ==
    \/ Open \/ Ask \/ SpawnPooled \/ Close
    \/ \E id \in CallIds : Call(id)
    \/ \E n \in Calls :
          \/ Begin(n) \/ Receive(n) \/ MeetsEnd(n) \/ GraceEnds(n) \/ ReleaseSession(n)
          \/ Leave(n) \/ Cancel(n)
          \/ \E body \in Bodies : HostReturns(n, body)
          \/ \E why \in {"Timeout", "Cancelled"} : GiveUp(n, why)
    \/ \E p \in Processes :
          \/ WorkerReads(p) \/ WorkerExits(p) \/ Shutdown(p)
          \/ WorkerSends(p, "failure", NoBody)
          \/ \E type \in {"event", "hostRequest", "response"}, body \in Bodies :
                WorkerSends(p, type, body)

RpcSpec == RpcInit /\ [][RpcNext]_rpcVars
-----------------------------------------------------------------------------
\* Through the pool a call is answered only with the response the worker made for
\* this very call, and a Host call is carried out only on behalf of the call for
\* which the worker made it, whatever earlier calls left in the streams.
PoolCallsAreTheirOwn ==
    owner = "pool" =>
       /\ \A n \in Calls : answeredBy[n] \in {0, n}
       /\ \A e \in effects : e[1] = e[2]

\* A process that was given up, by deadline or cancellation, never takes part in
\* another call of the pool: it is gone before the next call begins.
GivenUpIsGone ==
    \A n \in Calls : outcome[n] \in {"Timeout", "Cancelled"} /\ stage[n] = "over" =>
       /\ ~ process[bound[n]].up
       /\ owner = "pool" => current # bound[n]

\* docs/architecture/python-worker-rpc.md, "Every request/response pair has a
\* correlation ID", for the manager too: a response answers the call it was made
\* for.  Its ids come from callers and may return while an old response is unread.
ManagerCallsAreTheirOwn ==
    owner = "manager" => \A n \in Calls : answeredBy[n] \in {0, n}
=============================================================================
