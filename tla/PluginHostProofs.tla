------------------------- MODULE PluginHostProofs -------------------------
(***************************************************************************)
(* Machine-checked facts about the plugin host: the calls to the worker    *)
(* processes (WorkerRpc), the packages on disk (PluginInstall), the        *)
(* settings (PluginSettings), the import of a document (DocumentPipeline)  *)
(* and what it starts from (DocumentRequests), for any number of calls,    *)
(* processes, operations and restarts, any packages, manifests, documents  *)
(* and limits.                                                             *)
(***************************************************************************)
EXTENDS WorkerRpc, PluginInstall, PluginSettings, DocumentPipeline, DocumentRequests, SequenceTheorems,
        FiniteSetTheorems, TLAPS

(***************************************************************************)
(* Calls to worker processes                                               *)
(***************************************************************************)
LEMMA RpcConstantsTyped ==
  /\ MaxEvents \in Nat /\ MaxHostCalls \in Nat /\ MaxActive \in Nat \ {0}
  /\ MaxCalls \in Nat \ {0} /\ MaxProcesses \in Nat \ {0} /\ CallIds \subseteq Nat
BY RpcAssumption

-----------------------------------------------------------------------------
(* The inductive invariant: whose messages are in the streams of a process, and what
   is left of the process of a call that has begun. *)

Types == {"request", "hostResponse", "cancel", "event", "hostRequest", "response", "failure"}
Contents == Bodies \cup {NoBody}
Ids == Nat \X Nat

\* A message in a stream of process p: in the pool it carries the id of its call.
Mail(p, who) ==
  {m \in [type : Types, id : Ids, nth : Calls, body : Contents] :
     who = "pool" => m.id = PoolId(p, m.nth)}

AnyProcess(p, who) ==
  [started : BOOLEAN, up : BOOLEAN, in : Seq(Mail(p, who)), out : Seq(Mail(p, who)),
   readerOn : BOOLEAN, sent : Nat, at : {"idle", "handling", "hosting"}, id : Ids,
   nth : Calls \cup {0}]

\* A process that works on a request works on one that was sent to it.
AtWork(r, p, who) ==
  r.at # "idle" => r.nth \in Calls /\ (who = "pool" => r.id = PoolId(p, r.nth))

GoodProcess(r, p, who) ==
  r \in AnyProcess(p, who) /\ AtWork(r, p, who) /\ (r.up => r.started)

GivenUp(n) == outcome[n] \in {"Timeout", "Cancelled"}

\* The process of a call that has begun was started; that of a call given up is gone.
CallPlaced(n) ==
  /\ stage[n] \notin {"none", "waiting"} =>
        /\ bound[n] \in Processes /\ process[bound[n]].started
        /\ owner = "pool" => callId[n] = PoolId(bound[n], n)
  /\ stage[n] \in {"none", "waiting", "receiving", "hosting"} => outcome[n] = "none"
  /\ bound[n] \in Processes => process[bound[n]].started
  /\ GivenUp(n) /\ stage[n] \in {"leaving", "over"} => ~ process[bound[n]].up
  /\ GivenUp(n) /\ stage[n] = "over" /\ owner = "pool" => current # bound[n]

RpcInv ==
  /\ RpcTypeOK /\ PoolCallsAreTheirOwn
  /\ callId \in [Calls -> Ids]
  /\ \A p \in Processes : GoodProcess(process[p], p, owner)
  /\ \A n \in Calls : CallPlaced(n)
  /\ current \in Processes => process[current].started

-----------------------------------------------------------------------------
(* What happens to one process *)

\* A process that was started stays so, and one that is gone stays gone.
Later(old, new) == old.started => new.started /\ (~ old.up => ~ new.up)

LEMMA NewProcessGood ==
  ASSUME NEW p \in Processes, NEW who
  PROVE  /\ GoodProcess(NewProcess, p, who) /\ GoodProcess(NotStarted, p, who)
         /\ NewProcess.started /\ ~ NotStarted.started /\ NoId \in Ids
<1>. DEFINE S == Seq(Mail(p, who))
<1>1. << >> \in S /\ NoId \in Ids
  BY DEF NoId, Ids
<1>2. AnyProcess(p, who) =
  [started : BOOLEAN, up : BOOLEAN, in : S, out : S, readerOn : BOOLEAN, sent : Nat,
   at : {"idle", "handling", "hosting"}, id : Ids, nth : Calls \cup {0}]
  BY DEF AnyProcess
<1>. HIDE DEF S
<1>. QED BY <1>1, <1>2 DEF GoodProcess, AtWork, NewProcess, NotStarted

\* A process of p is good when its record is, and it works on a request sent to it.
LEMMA GoodProcessFields ==
  ASSUME NEW p \in Processes, NEW who
  PROVE  \E A, S :
           /\ A = AnyProcess(p, who) /\ S = Seq(Mail(p, who))
           /\ A = [started : BOOLEAN, up : BOOLEAN, in : S, out : S, readerOn : BOOLEAN,
                   sent : Nat, at : {"idle", "handling", "hosting"}, id : Ids, nth : Calls \cup {0}]
           /\ << >> \in S /\ NoId \in Ids
           /\ \A q \in S : q # << >> => Head(q) \in Mail(p, who) /\ Tail(q) \in S
           /\ \A q \in S, m \in Mail(p, who) : Append(q, m) \in S
<1>. DEFINE M == Mail(p, who)
            S == Seq(M)
<1>1. NoId \in Ids
  BY DEF NoId, Ids
<1>2. /\ << >> \in S
      /\ \A q \in S : q # << >> => Head(q) \in M /\ Tail(q) \in S
      /\ \A q \in S, m \in M : Append(q, m) \in S
  <2>. HIDE DEF M
  <2>. QED OBVIOUS
<1>. QED BY <1>1, <1>2 DEF AnyProcess

LEMMA ProcessSteps ==
  ASSUME NEW p \in Processes, NEW who, NEW r, GoodProcess(r, p, who)
  PROVE  /\ GoodProcess(Left(r), p, who) /\ Later(r, Left(r)) /\ ~ Left(r).up
         /\ GoodProcess([Left(r) EXCEPT !.readerOn = FALSE, !.out = << >>], p, who)
         /\ Later(r, [Left(r) EXCEPT !.readerOn = FALSE, !.out = << >>])
         /\ ~ [Left(r) EXCEPT !.readerOn = FALSE, !.out = << >>].up
         /\ r.out # << >> => /\ Head(r.out) \in Mail(p, who)
                             /\ GoodProcess([r EXCEPT !.out = Tail(@)], p, who)
                             /\ Later(r, [r EXCEPT !.out = Tail(@)])
         /\ r.in # << >> => /\ Head(r.in) \in Mail(p, who)
                            /\ GoodProcess([r EXCEPT !.in = Tail(@)], p, who)
                            /\ Later(r, [r EXCEPT !.in = Tail(@)])
<1>. PICK A, S :
       /\ A = AnyProcess(p, who) /\ S = Seq(Mail(p, who))
       /\ A = [started : BOOLEAN, up : BOOLEAN, in : S, out : S, readerOn : BOOLEAN,
               sent : Nat, at : {"idle", "handling", "hosting"}, id : Ids, nth : Calls \cup {0}]
       /\ << >> \in S /\ NoId \in Ids
       /\ \A q \in S : q # << >> => Head(q) \in Mail(p, who) /\ Tail(q) \in S
       /\ \A q \in S, m \in Mail(p, who) : Append(q, m) \in S
  BY GoodProcessFields
<1>1. r \in A /\ AtWork(r, p, who) /\ (r.up => r.started)
  BY DEF GoodProcess
<1>2. /\ r.out # << >> => Head(r.out) \in Mail(p, who) /\ Tail(r.out) \in S
      /\ r.in # << >> => Head(r.in) \in Mail(p, who) /\ Tail(r.in) \in S
  BY <1>1
<1>3. /\ GoodProcess(Left(r), p, who) /\ Later(r, Left(r)) /\ ~ Left(r).up
  <2>1. Left(r) \in A
    BY <1>1 DEF Left
  <2>2. Left(r).at = "idle" /\ Left(r).up = FALSE /\ Left(r).started = r.started
    BY <1>1 DEF Left
  <2>. QED BY <1>1, <2>1, <2>2 DEF GoodProcess, AtWork, Later
<1>4. /\ GoodProcess([Left(r) EXCEPT !.readerOn = FALSE, !.out = << >>], p, who)
      /\ Later(r, [Left(r) EXCEPT !.readerOn = FALSE, !.out = << >>])
      /\ ~ [Left(r) EXCEPT !.readerOn = FALSE, !.out = << >>].up
  <2>1. PICK l : l = [Left(r) EXCEPT !.readerOn = FALSE, !.out = << >>]
    OBVIOUS
  <2>2. l \in A
    BY <1>1, <2>1 DEF Left
  <2>3. l.at = "idle" /\ l.up = FALSE /\ l.started = r.started
    BY <1>1, <2>1 DEF Left
  <2>. QED BY <1>1, <2>1, <2>2, <2>3 DEF GoodProcess, AtWork, Later
<1>5. ASSUME r.out # << >>
      PROVE  /\ GoodProcess([r EXCEPT !.out = Tail(@)], p, who)
             /\ Later(r, [r EXCEPT !.out = Tail(@)])
  <2>1. PICK l : l = [r EXCEPT !.out = Tail(@)]
    OBVIOUS
  <2>2. l \in A
    BY <1>1, <1>2, <1>5, <2>1
  <2>3. /\ l.at = r.at /\ l.id = r.id /\ l.nth = r.nth
        /\ l.up = r.up /\ l.started = r.started
    BY <1>1, <2>1
  <2>. QED BY <1>1, <2>1, <2>2, <2>3 DEF GoodProcess, AtWork, Later
<1>6. ASSUME r.in # << >>
      PROVE  /\ GoodProcess([r EXCEPT !.in = Tail(@)], p, who)
             /\ Later(r, [r EXCEPT !.in = Tail(@)])
  <2>1. PICK l : l = [r EXCEPT !.in = Tail(@)]
    OBVIOUS
  <2>2. l \in A
    BY <1>1, <1>2, <1>6, <2>1
  <2>3. /\ l.at = r.at /\ l.id = r.id /\ l.nth = r.nth
        /\ l.up = r.up /\ l.started = r.started
    BY <1>1, <2>1
  <2>. QED BY <1>1, <2>1, <2>2, <2>3 DEF GoodProcess, AtWork, Later
<1>. QED BY <1>2, <1>3, <1>4, <1>5, <1>6

LEMMA MailSteps ==
  ASSUME NEW p \in Processes, NEW who, NEW r, GoodProcess(r, p, who), NEW m \in Mail(p, who)
  PROVE  /\ GoodProcess(Given(r, m), p, who) /\ Later(r, Given(r, m))
         /\ GoodProcess([r EXCEPT !.at = "handling", !.id = m.id, !.nth = m.nth], p, who)
         /\ Later(r, [r EXCEPT !.at = "handling", !.id = m.id, !.nth = m.nth])
         /\ r.at # "idle" => /\ GoodProcess([r EXCEPT !.at = "handling"], p, who)
                             /\ Later(r, [r EXCEPT !.at = "handling"])
         /\ \A at \in {"idle", "handling", "hosting"} :
              at = "idle" \/ r.at # "idle" => /\ GoodProcess(Emitted(r, m, at), p, who)
                                              /\ Later(r, Emitted(r, m, at))
<1>. PICK A, S :
       /\ A = AnyProcess(p, who) /\ S = Seq(Mail(p, who))
       /\ A = [started : BOOLEAN, up : BOOLEAN, in : S, out : S, readerOn : BOOLEAN,
               sent : Nat, at : {"idle", "handling", "hosting"}, id : Ids, nth : Calls \cup {0}]
       /\ << >> \in S /\ NoId \in Ids
       /\ \A q \in S : q # << >> => Head(q) \in Mail(p, who) /\ Tail(q) \in S
       /\ \A q \in S, n \in Mail(p, who) : Append(q, n) \in S
  BY GoodProcessFields
<1>1. r \in A /\ AtWork(r, p, who) /\ (r.up => r.started)
  BY DEF GoodProcess
<1>2. m.id \in Ids /\ m.nth \in Calls /\ (who = "pool" => m.id = PoolId(p, m.nth))
  BY DEF Mail
<1>3. Append(r.in, m) \in S /\ Append(r.out, m) \in S
  BY <1>1
<1>4. GoodProcess(Given(r, m), p, who) /\ Later(r, Given(r, m))
  <2>1. PICK s : s = IF r.up THEN Append(r.in, m) ELSE r.in
    OBVIOUS
  <2>2. s \in S /\ Given(r, m) = [r EXCEPT !.in = s]
    BY <1>1, <1>3, <2>1 DEF Given
  <2>3. PICK l : l = [r EXCEPT !.in = s]
    OBVIOUS
  <2>4. l \in A
    BY <1>1, <2>2, <2>3
  <2>5. /\ l.at = r.at /\ l.id = r.id /\ l.nth = r.nth
        /\ l.up = r.up /\ l.started = r.started
    BY <1>1, <2>3
  <2>. QED BY <1>1, <2>2, <2>3, <2>4, <2>5 DEF GoodProcess, AtWork, Later
<1>5. /\ GoodProcess([r EXCEPT !.at = "handling", !.id = m.id, !.nth = m.nth], p, who)
      /\ Later(r, [r EXCEPT !.at = "handling", !.id = m.id, !.nth = m.nth])
  <2>1. PICK l : l = [r EXCEPT !.at = "handling", !.id = m.id, !.nth = m.nth]
    OBVIOUS
  <2>2. l \in A
    BY <1>1, <1>2, <2>1
  <2>3. /\ l.id = m.id /\ l.nth = m.nth /\ l.up = r.up /\ l.started = r.started
    BY <1>1, <2>1
  <2>. QED BY <1>1, <1>2, <2>1, <2>2, <2>3 DEF GoodProcess, AtWork, Later
<1>6. ASSUME r.at # "idle"
      PROVE  /\ GoodProcess([r EXCEPT !.at = "handling"], p, who)
             /\ Later(r, [r EXCEPT !.at = "handling"])
  <2>1. PICK l : l = [r EXCEPT !.at = "handling"]
    OBVIOUS
  <2>2. l \in A
    BY <1>1, <2>1
  <2>3. /\ l.id = r.id /\ l.nth = r.nth /\ l.up = r.up /\ l.started = r.started
    BY <1>1, <2>1
  <2>. QED BY <1>1, <1>6, <2>1, <2>2, <2>3 DEF GoodProcess, AtWork, Later
<1>7. ASSUME NEW at \in {"idle", "handling", "hosting"}, at = "idle" \/ r.at # "idle"
      PROVE  GoodProcess(Emitted(r, m, at), p, who) /\ Later(r, Emitted(r, m, at))
  <2>1. PICK l : l = Emitted(r, m, at)
    OBVIOUS
  <2>2. l \in A
    <3>1. PICK on : on = (r.readerOn /\ m.body.size # "overframe")
      OBVIOUS
    <3>2. on \in BOOLEAN
      BY <3>1
    <3>3. PICK s : s = IF r.readerOn THEN Append(r.out, m) ELSE r.out
      OBVIOUS
    <3>4. s \in S
      BY <1>1, <1>3, <3>3
    <3>5. PICK i, n : i = (IF at = "idle" THEN NoId ELSE r.id) /\ n = IF at = "idle" THEN 0 ELSE r.nth
      OBVIOUS
    <3>6. i \in Ids /\ n \in Calls \cup {0}
      BY <1>1, <3>5
    <3>7. l = [r EXCEPT !.sent = @ + 1, !.at = at, !.id = i, !.nth = n,
                        !.readerOn = on, !.out = s]
      BY <1>1, <2>1, <3>1, <3>3, <3>5 DEF Emitted
    <3>8. PICK k \in Nat : k = r.sent + 1
      BY <1>1
    <3>9. PICK q \in A : q = [r EXCEPT !.sent = k, !.at = at, !.id = i, !.nth = n]
      BY <1>1, <3>6
    <3>10. l = [q EXCEPT !.readerOn = on, !.out = s]
      BY <1>1, <3>7, <3>8, <3>9
    <3>. QED BY <3>2, <3>4, <3>9, <3>10
  <2>3. /\ l.at = at
        /\ at # "idle" => l.id = r.id /\ l.nth = r.nth
        /\ l.up = r.up /\ l.started = r.started
    BY <1>1, <2>1 DEF Emitted
  <2>. QED BY <1>1, <1>7, <2>1, <2>2, <2>3 DEF GoodProcess, AtWork, Later
<1>. QED BY <1>4, <1>5, <1>6, <1>7
-----------------------------------------------------------------------------
(* A step of the whole *)

\* The processes after a step: each is good, and later than it was.
Onward ==
  /\ DOMAIN process' = Processes /\ owner' = owner
  /\ \A q \in Processes : GoodProcess(process'[q], q, owner) /\ Later(process[q], process'[q])

\* The pooled entry, or the open session, goes or is another process just started.
CurrentMoves ==
  /\ \/ current' = current \/ current' = 0
     \/ current' \in Processes /\ ~ process[current'].started /\ process'[current'].started

SameCall(m) ==
  /\ stage'[m] = stage[m] /\ outcome'[m] = outcome[m]
  /\ bound'[m] = bound[m] /\ callId'[m] = callId[m]

LEMMA NoProcessMoves ==
  ASSUME RpcInv, UNCHANGED <<process, owner>>
  PROVE  Onward
BY DEF RpcInv, RpcTypeOK, Onward, Later

LEMMA OneProcessMoves ==
  ASSUME RpcInv, owner' = owner, NEW p \in Processes, NEW r, GoodProcess(r, p, owner),
         Later(process[p], r), process' = [process EXCEPT ![p] = r]
  PROVE  Onward /\ process'[p] = r
<1>1. DOMAIN process = Processes
  BY DEF RpcInv, RpcTypeOK
<1>2. DOMAIN process' = Processes /\ process'[p] = r
  BY <1>1
<1>3. ASSUME NEW q \in Processes
      PROVE  GoodProcess(process'[q], q, owner) /\ Later(process[q], process'[q])
  <2>1. CASE q = p
    BY <1>2, <2>1
  <2>2. CASE q # p
    <3>1. process'[q] = process[q]
      BY <1>1, <2>2
    <3>2. GoodProcess(process[q], q, owner)
      BY DEF RpcInv
    <3>. QED BY <3>1, <3>2 DEF Later
  <2>. QED BY <2>1, <2>2
<1>. QED BY <1>2, <1>3 DEF Onward

LEMMA OtherCallsStay ==
  ASSUME RpcInv, Onward, CurrentMoves, NEW m \in Calls, SameCall(m)
  PROVE  CallPlaced(m)'
<1>1. CallPlaced(m) /\ bound[m] \in Processes \cup {0} /\ stage[m] \in Stages
  BY DEF RpcInv, RpcTypeOK
<1>2. bound[m] \in Processes => Later(process[bound[m]], process'[bound[m]])
  BY DEF Onward
<1>3. 0 \notin Processes
  BY RpcConstantsTyped DEF Processes
<1>. QED BY <1>1, <1>2, <1>3
     DEF CallPlaced, SameCall, GivenUp, Onward, CurrentMoves, Later

\* The steps of the processes and of the sessions change no call.
LEMMA CallsStay ==
  ASSUME RpcInv, Onward, CurrentMoves, UNCHANGED <<callVars, history>>,
         holder' \in [Processes -> Calls \cup {0}], closing' \subseteq Processes
  PROVE  RpcInv'
<1>1. \A m \in Calls : CallPlaced(m)'
  BY OtherCallsStay DEF SameCall, callVars
<1>2. RpcTypeOK'
  BY DEF RpcInv, RpcTypeOK, Onward, CurrentMoves, callVars, history
<1>3. PoolCallsAreTheirOwn'
  BY DEF RpcInv, PoolCallsAreTheirOwn, Onward, callVars, history
<1>4. current' \in Processes => process'[current'].started
  BY RpcConstantsTyped DEF RpcInv, CurrentMoves, Onward, Later, Processes
<1>. QED BY <1>1, <1>2, <1>3, <1>4 DEF RpcInv, Onward, callVars

\* One call changes, and the processes with it.
LEMMA OneCallChanges ==
  ASSUME RpcInv, Onward, CurrentMoves, NEW n \in Calls,
         \A m \in Calls : m # n => SameCall(m),
         CallPlaced(n)', RpcTypeOK', PoolCallsAreTheirOwn', callId' \in [Calls -> Ids]
  PROVE  RpcInv'
<1>1. \A m \in Calls : CallPlaced(m)'
  BY OtherCallsStay
<1>4. current' \in Processes => process'[current'].started
  BY RpcConstantsTyped DEF RpcInv, CurrentMoves, Onward, Later, Processes
<1>. QED BY <1>1, <1>4 DEF RpcInv, Onward

-----------------------------------------------------------------------------
(* The steps of the processes *)

LEMMA StartKeepsInv ==
  ASSUME RpcInv, Unused # {}, current' = NextProcess, process' = Started,
         UNCHANGED <<owner, holder, callVars, history, closing>>
  PROVE  RpcInv'
<1>1. NextProcess \in Processes /\ ~ process[NextProcess].started
  BY DEF Unused, NextProcess
<1>2. GoodProcess(NewProcess, NextProcess, owner) /\ NewProcess.started
  BY <1>1, NewProcessGood
<1>3. Onward /\ process'[NextProcess] = NewProcess
  BY <1>1, <1>2, OneProcessMoves DEF Started, Later
<1>4. CurrentMoves
  BY <1>1, <1>2, <1>3 DEF CurrentMoves
<1>. QED BY <1>3, <1>4, CallsStay DEF RpcInv, RpcTypeOK

LEMMA BecomesKeepsInv ==
  ASSUME RpcInv, NEW p \in Processes, NEW r, GoodProcess(r, p, owner), Later(process[p], r),
         Becomes(p, r)
  PROVE  RpcInv'
<1>1. Onward
  BY OneProcessMoves DEF Becomes
<1>. QED BY <1>1, CallsStay DEF Becomes, CurrentMoves, RpcInv, RpcTypeOK

LEMMA ReadsKeepsInv ==
  ASSUME RpcInv, NEW p \in Processes, WorkerReads(p)
  PROVE  RpcInv'
<1>1. PICK r, m, taken : r = process[p] /\ m = Head(r.in) /\ taken = [r EXCEPT !.in = Tail(@)]
  OBVIOUS
<1>2. GoodProcess(r, p, owner) /\ r.in # << >>
  BY <1>1 DEF RpcInv, WorkerReads
<1>3. m \in Mail(p, owner) /\ GoodProcess(taken, p, owner) /\ Later(r, taken)
  BY <1>1, <1>2, ProcessSteps
<1>4. taken.at = r.at
  BY <1>1, <1>2 DEF GoodProcess, AnyProcess
<1>5. \/ Becomes(p, [taken EXCEPT !.at = "handling", !.id = m.id, !.nth = m.nth])
      \/ Becomes(p, Left(r))
      \/ Becomes(p, Emitted(taken, Message("response", m.id, m.nth, NoBody), "idle"))
      \/ r.at = "hosting" /\ Becomes(p, [taken EXCEPT !.at = "handling"])
      \/ r.at = "hosting" /\ Becomes(p, Emitted(taken, Message("failure", r.id, r.nth, NoBody), "idle"))
  BY <1>1 DEF WorkerReads
<1>6. CASE Becomes(p, [taken EXCEPT !.at = "handling", !.id = m.id, !.nth = m.nth])
  <2>1. PICK l : l = [taken EXCEPT !.at = "handling", !.id = m.id, !.nth = m.nth]
    OBVIOUS
  <2>2. GoodProcess(l, p, owner) /\ Later(taken, l)
    BY <1>3, <2>1, MailSteps
  <2>3. Later(process[p], l)
    BY <1>1, <1>3, <2>2 DEF Later
  <2>. QED BY <1>6, <2>1, <2>2, <2>3, BecomesKeepsInv
<1>7. CASE Becomes(p, Left(r))
  BY <1>1, <1>2, <1>7, ProcessSteps, BecomesKeepsInv
<1>8. CASE Becomes(p, Emitted(taken, Message("response", m.id, m.nth, NoBody), "idle"))
  <2>1. PICK n : n = Message("response", m.id, m.nth, NoBody)
    OBVIOUS
  <2>2. n \in Mail(p, owner)
    BY <1>3, <2>1 DEF Mail, Message, Types, Contents
  <2>3. GoodProcess(Emitted(taken, n, "idle"), p, owner) /\ Later(taken, Emitted(taken, n, "idle"))
    BY <1>3, <2>2, MailSteps
  <2>4. Later(process[p], Emitted(taken, n, "idle"))
    BY <1>1, <1>3, <2>3 DEF Later
  <2>. QED BY <1>8, <2>1, <2>3, <2>4, BecomesKeepsInv
<1>9. CASE r.at = "hosting" /\ Becomes(p, [taken EXCEPT !.at = "handling"])
  <2>1. PICK l : l = [taken EXCEPT !.at = "handling"]
    OBVIOUS
  <2>2. GoodProcess(l, p, owner) /\ Later(taken, l)
    BY <1>3, <1>4, <1>9, <2>1, MailSteps
  <2>3. Later(process[p], l)
    BY <1>1, <1>3, <2>2 DEF Later
  <2>. QED BY <1>9, <2>1, <2>2, <2>3, BecomesKeepsInv
<1>10. CASE r.at = "hosting" /\ Becomes(p, Emitted(taken, Message("failure", r.id, r.nth, NoBody), "idle"))
  <2>1. PICK n : n = Message("failure", r.id, r.nth, NoBody)
    OBVIOUS
  <2>2. n \in Mail(p, owner)
    <3>1. r.id \in Ids /\ r.nth \in Calls /\ (owner = "pool" => r.id = PoolId(p, r.nth))
      BY <1>2, <1>10 DEF GoodProcess, AnyProcess, AtWork
    <3>. QED BY <2>1, <3>1 DEF Mail, Message, Types, Contents
  <2>3. GoodProcess(Emitted(taken, n, "idle"), p, owner) /\ Later(taken, Emitted(taken, n, "idle"))
    BY <1>3, <2>2, MailSteps
  <2>4. Later(process[p], Emitted(taken, n, "idle"))
    BY <1>1, <1>3, <2>3 DEF Later
  <2>. QED BY <1>10, <2>1, <2>3, <2>4, BecomesKeepsInv
<1>. QED BY <1>5, <1>6, <1>7, <1>8, <1>9, <1>10

LEMMA SendsKeepsInv ==
  ASSUME RpcInv, NEW p \in Processes, NEW type \in {"event", "hostRequest", "response", "failure"},
         NEW body \in Contents, WorkerSends(p, type, body)
  PROVE  RpcInv'
<1>1. PICK r, n : r = process[p] /\ n = Message(type, r.id, r.nth, body)
  OBVIOUS
<1>2. GoodProcess(r, p, owner) /\ r.at = "handling"
  BY <1>1 DEF RpcInv, WorkerSends
<1>3. n \in Mail(p, owner)
  <2>1. r.id \in Ids /\ r.nth \in Calls /\ (owner = "pool" => r.id = PoolId(p, r.nth))
    BY <1>2 DEF GoodProcess, AnyProcess, AtWork
  <2>. QED BY <1>1, <2>1 DEF Mail, Message, Types, Contents
<1>4. AfterSending(type) \in {"idle", "handling", "hosting"}
  BY DEF AfterSending
<1>5. PICK l : l = Emitted(r, n, AfterSending(type))
  OBVIOUS
<1>6. GoodProcess(l, p, owner) /\ Later(r, l)
  BY <1>2, <1>3, <1>4, <1>5, MailSteps
<1>. QED BY <1>1, <1>5, <1>6, BecomesKeepsInv DEF WorkerSends

LEMMA ShutdownKeepsInv ==
  ASSUME RpcInv, NEW p \in Processes, Shutdown(p)
  PROVE  RpcInv'
<1>1. PICK l : l = [Left(process[p]) EXCEPT !.readerOn = FALSE, !.out = << >>]
  OBVIOUS
<1>2. GoodProcess(l, p, owner) /\ Later(process[p], l)
  BY <1>1, ProcessSteps DEF RpcInv
<1>3. process' = [process EXCEPT ![p] = l]
  BY <1>1 DEF Shutdown, Dropped
<1>4. Onward
  BY <1>2, <1>3, OneProcessMoves DEF Shutdown
<1>. QED BY <1>4, CallsStay DEF Shutdown, CurrentMoves, RpcInv, RpcTypeOK

-----------------------------------------------------------------------------
(* The steps of a call *)

LEMMA CallFields ==
  ASSUME RpcInv, NEW n \in Calls
  PROVE  /\ CallPlaced(n)
         /\ stage[n] \in Stages /\ bound[n] \in Processes \cup {0} /\ callId[n] \in Ids
         /\ stage[n] \notin {"none", "waiting"} =>
              /\ bound[n] \in Processes /\ process[bound[n]].started
              /\ GoodProcess(process[bound[n]], bound[n], owner)
              /\ owner = "pool" => callId[n] = PoolId(bound[n], n)
         /\ 0 \notin Processes /\ 0 \notin Calls
BY RpcConstantsTyped DEF RpcInv, RpcTypeOK, CallPlaced, Processes, Calls

LEMMA AskKeepsInv ==
  ASSUME RpcInv, Ask
  PROVE  RpcInv'
<1>1. NextCall \in Calls /\ stage[NextCall] = "none"
  BY DEF Ask, NextCall
<1>2. PICK n \in Calls : n = NextCall /\ stage[n] = "none" /\ stage' = [stage EXCEPT ![n] = "waiting"]
  BY <1>1 DEF Ask
<1>3. /\ Onward
      /\ CurrentMoves
      /\ \A m \in Calls : m # n => SameCall(m)
  BY <1>2, NoProcessMoves DEF Ask, CurrentMoves, SameCall, RpcInv, RpcTypeOK
<1>4. CallPlaced(n)'
  BY <1>2, CallFields DEF Ask, CallPlaced, RpcInv, RpcTypeOK, GivenUp
<1>5. RpcTypeOK' /\ PoolCallsAreTheirOwn' /\ callId' \in [Calls -> Ids]
  BY <1>2 DEF Ask, RpcInv, RpcTypeOK, PoolCallsAreTheirOwn, history, Stages
<1>. QED BY <1>3, <1>4, <1>5, OneCallChanges

LEMMA CallKeepsInv ==
  ASSUME RpcInv, NEW id \in CallIds, Call(id)
  PROVE  RpcInv'
<1>1. NextCall \in Calls /\ stage[NextCall] = "none"
  BY DEF Call, NextCall
<1>2. PICK n \in Calls : /\ n = NextCall /\ stage[n] = "none"
                         /\ stage' = [stage EXCEPT ![n] = "waiting"]
                         /\ callId' = [callId EXCEPT ![n] = ManagerId(id)]
                         /\ bound' = [bound EXCEPT ![n] = current]
  BY <1>1 DEF Call
<1>3. /\ Onward
      /\ CurrentMoves
      /\ \A m \in Calls : m # n => SameCall(m)
  BY <1>2, NoProcessMoves DEF Call, CurrentMoves, SameCall, RpcInv, RpcTypeOK
<1>4. ManagerId(id) \in Ids
  BY RpcConstantsTyped DEF ManagerId, Ids
<1>5. current \in Processes /\ process[current].started
  BY DEF Call, RpcInv, RpcTypeOK
<1>6. CallPlaced(n)'
  <2>1. stage'[n] = "waiting" /\ bound'[n] = current /\ outcome'[n] = "none"
    BY <1>2, CallFields DEF Call, CallPlaced, RpcInv, RpcTypeOK
  <2>. QED BY <1>5, <2>1 DEF Call, CallPlaced, GivenUp
<1>7. RpcTypeOK' /\ PoolCallsAreTheirOwn' /\ callId' \in [Calls -> Ids]
  BY <1>2, <1>4, <1>5 DEF Call, RpcInv, RpcTypeOK, PoolCallsAreTheirOwn, history, Stages
<1>. QED BY <1>3, <1>6, <1>7, OneCallChanges

LEMMA BeginKeepsInv ==
  ASSUME RpcInv, NEW n \in Calls, Begin(n)
  PROVE  RpcInv'
<1>1. PICK p, id, m, s, o :
         /\ p = (IF owner = "pool" THEN current ELSE bound[n])
         /\ id = (IF owner = "pool" THEN PoolId(p, n) ELSE callId[n])
         /\ m = Message("request", id, n, NoBody)
         /\ s = (IF CanSend(p) THEN "receiving" ELSE "leaving")
         /\ o = (IF CanSend(p) THEN "none" ELSE "Io")
  OBVIOUS
<1>2. /\ stage[n] = "waiting" /\ p # 0 /\ outcome[n] = "none"
      /\ p \in Processes /\ process[p].started /\ GoodProcess(process[p], p, owner)
  BY <1>1, CallFields DEF Begin, CallPlaced, RpcInv, RpcTypeOK
<1>3. /\ holder' = [holder EXCEPT ![p] = n] /\ bound' = [bound EXCEPT ![n] = p]
      /\ callId' = [callId EXCEPT ![n] = id]
      /\ process' = [process EXCEPT ![p] = Given(@, m)]
      /\ stage' = [stage EXCEPT ![n] = s]
      /\ UNCHANGED <<owner, current, flag, counted, history, closing>>
  BY <1>1 DEF Begin, Sent
<1>4. outcome' = [outcome EXCEPT ![n] = o]
  BY <1>1, <1>2 DEF Begin, RpcInv, RpcTypeOK
<1>5. id \in Ids
  BY <1>1, <1>2, CallFields, RpcConstantsTyped DEF PoolId, Ids, Processes, Calls
<1>6. m \in Mail(p, owner)
  BY <1>1, <1>5 DEF Mail, Message, Types, Contents
<1>7. Onward
  <2>1. PICK l : l = Given(process[p], m)
    OBVIOUS
  <2>2. GoodProcess(l, p, owner) /\ Later(process[p], l)
    BY <1>2, <1>6, <2>1, MailSteps
  <2>. QED BY <1>2, <1>3, <2>1, <2>2, OneProcessMoves
<1>8. CurrentMoves /\ \A k \in Calls : k # n => SameCall(k)
  BY <1>3, <1>4 DEF CurrentMoves, SameCall, RpcInv, RpcTypeOK
<1>9. CallPlaced(n)'
  <2>1. /\ stage'[n] = s /\ outcome'[n] = o /\ bound'[n] = p /\ callId'[n] = id
    BY <1>3, <1>4 DEF RpcInv, RpcTypeOK
  <2>2. process'[p].started
    BY <1>2, <1>7 DEF Onward, Later
  <2>3. owner' = owner /\ (owner = "pool" => id = PoolId(p, n))
    BY <1>1, <1>3
  <2>4. s \in {"receiving", "leaving"} /\ o \in {"none", "Io"} /\ (s = "receiving" => o = "none")
    BY <1>1
  <2>. QED BY <1>2, <2>1, <2>2, <2>3, <2>4 DEF CallPlaced, GivenUp
<1>10. RpcTypeOK' /\ PoolCallsAreTheirOwn' /\ callId' \in [Calls -> Ids]
  <2>1. s \in Stages /\ o \in Errors \cup {"none"}
    BY <1>1 DEF Stages, Errors
  <2>. QED BY <1>2, <1>3, <1>4, <1>5, <1>7, <2>1
           DEF RpcInv, RpcTypeOK, PoolCallsAreTheirOwn, history, Onward
<1>. QED BY <1>7, <1>8, <1>9, <1>10, OneCallChanges

\* A call that has begun moves on, with its process and the history.
LEMMA BegunCallMoves ==
  ASSUME RpcInv, Onward, CurrentMoves, NEW n \in Calls, stage[n] \notin {"none", "waiting"},
         NEW s \in Stages \ {"none", "waiting"}, stage' = [stage EXCEPT ![n] = s],
         NEW o \in Errors \cup {"none", "answered", "failed"}, outcome' = [outcome EXCEPT ![n] = o],
         s \in {"receiving", "hosting"} => o = "none",
         o \in {"Timeout", "Cancelled"} /\ s \in {"leaving", "over"} => ~ process'[bound[n]].up,
         o \in {"Timeout", "Cancelled"} /\ s = "over" /\ owner = "pool" => current' # bound[n],
         holder' \in [Processes -> Calls \cup {0}], flag' \in [Calls -> BOOLEAN],
         UNCHANGED <<bound, callId, closing>>,
         answeredBy' \in [Calls -> Calls \cup {0}], effects' \subseteq Calls \X Calls,
         PoolCallsAreTheirOwn'
  PROVE  RpcInv'
<1>1. \A m \in Calls : m # n => SameCall(m)
  BY DEF SameCall, RpcInv, RpcTypeOK
<1>2. CallPlaced(n)'
  <2>1. /\ stage'[n] = s /\ outcome'[n] = o /\ bound'[n] = bound[n] /\ callId'[n] = callId[n]
        /\ owner' = owner
    BY DEF RpcInv, RpcTypeOK, Onward
  <2>2. /\ bound[n] \in Processes /\ process'[bound[n]].started
        /\ owner = "pool" => callId[n] = PoolId(bound[n], n)
    BY CallFields DEF Onward, Later
  <2>. QED BY <2>1, <2>2 DEF CallPlaced, GivenUp
<1>3. RpcTypeOK'
  BY DEF RpcInv, RpcTypeOK, Onward, CurrentMoves
<1>. QED BY <1>1, <1>2, <1>3, OneCallChanges DEF RpcInv

LEMMA ReceiveKeepsInv ==
  ASSUME RpcInv, NEW n \in Calls, Receive(n)
  PROVE  RpcInv'
<1>1. PICK p, m : p = bound[n] /\ m = Head(process[p].out)
  OBVIOUS
<1>2. /\ stage[n] = "receiving" /\ outcome[n] = "none"
      /\ p \in Processes /\ process[p].started /\ GoodProcess(process[p], p, owner)
      /\ owner = "pool" => callId[n] = PoolId(p, n)
  BY <1>1, CallFields DEF Receive, CallPlaced
<1>3. m \in Mail(p, owner)
  BY <1>1, <1>2, ProcessSteps DEF Receive
<1>4. Onward
  <2>1. PICK l : l = [process[p] EXCEPT !.out = Tail(@)]
    OBVIOUS
  <2>2. GoodProcess(l, p, owner) /\ Later(process[p], l)
    BY <1>1, <1>2, <2>1, ProcessSteps DEF Receive
  <2>3. process' = [process EXCEPT ![p] = l] /\ owner' = owner
    BY <1>1, <2>1 DEF Receive, Return
  <2>. QED BY <1>2, <2>2, <2>3, OneProcessMoves
<1>5. m.nth \in Calls /\ (owner = "pool" /\ Correlated(m, n) => m.nth = n)
  BY <1>2, <1>3 DEF Mail, Correlated, PoolId
<1>6. PICK error :
        error = IF m.body.size = "overframe" THEN "Frame"
                ELSE IF IncomingError(m) # "none" THEN IncomingError(m)
                ELSE IF \/ m.type = "event" /\ counted[n].events + 1 > MaxEvents
                        \/ m.type = "hostRequest" /\ counted[n].hostCalls + 1 > MaxHostCalls
                        \/ ~ Correlated(m, n)
                THEN "Protocol" ELSE "none"
  OBVIOUS
<1>7. /\ error \in {"none", "Frame", "Protocol", "TooLarge"}
      /\ error = "none" => Correlated(m, n)
  BY <1>6 DEF IncomingError, InlineError
<1>8. \/ \E o \in {"Frame", "Protocol", "TooLarge", "Remote"} : Return(n, o) /\ UNCHANGED history
      \/ /\ Correlated(m, n) /\ Return(n, "answered")
         /\ answeredBy' = [answeredBy EXCEPT ![n] = m.nth] /\ UNCHANGED effects
      \/ UNCHANGED <<owner, current, holder, stage, callId, bound, flag, outcome, history, closing>>
      \/ /\ Correlated(m, n) /\ stage' = [stage EXCEPT ![n] = "hosting"]
         /\ effects' = effects \cup {<<n, m.nth>>}
         /\ UNCHANGED <<owner, current, holder, callId, bound, flag, outcome, answeredBy, closing>>
  BY <1>1, <1>6, <1>7 DEF Receive
<1>9. CASE \E o \in {"Frame", "Protocol", "TooLarge", "Remote"} : Return(n, o) /\ UNCHANGED history
  <2>1. PICK o \in {"Frame", "Protocol", "TooLarge", "Remote"} : Return(n, o) /\ UNCHANGED history
    BY <1>9
  <2>2. o \in Errors \cup {"none", "answered", "failed"} /\ "leaving" \in Stages \ {"none", "waiting"}
    BY DEF Errors, Stages
  <2>3. /\ stage' = [stage EXCEPT ![n] = "leaving"] /\ outcome' = [outcome EXCEPT ![n] = o]
        /\ UNCHANGED <<owner, current, holder, callId, bound, flag, closing, answeredBy, effects>>
    BY <2>1 DEF Return, history
  <2>4. /\ CurrentMoves /\ PoolCallsAreTheirOwn'
        /\ holder' \in [Processes -> Calls \cup {0}] /\ flag' \in [Calls -> BOOLEAN]
        /\ answeredBy' \in [Calls -> Calls \cup {0}] /\ effects' \subseteq Calls \X Calls
    BY <2>3 DEF CurrentMoves, PoolCallsAreTheirOwn, RpcInv, RpcTypeOK
  <2>. QED BY <1>2, <1>4, <2>2, <2>3, <2>4, BegunCallMoves
<1>10. CASE /\ Correlated(m, n) /\ Return(n, "answered")
            /\ answeredBy' = [answeredBy EXCEPT ![n] = m.nth] /\ UNCHANGED effects
  <2>2. "answered" \in Errors \cup {"none", "answered", "failed"} /\ "leaving" \in Stages \ {"none", "waiting"}
    BY DEF Stages
  <2>3. /\ stage' = [stage EXCEPT ![n] = "leaving"] /\ outcome' = [outcome EXCEPT ![n] = "answered"]
        /\ UNCHANGED <<owner, current, holder, callId, bound, flag, closing, effects>>
    BY <1>10 DEF Return
  <2>4. /\ CurrentMoves /\ PoolCallsAreTheirOwn'
        /\ holder' \in [Processes -> Calls \cup {0}] /\ flag' \in [Calls -> BOOLEAN]
        /\ answeredBy' \in [Calls -> Calls \cup {0}] /\ effects' \subseteq Calls \X Calls
    BY <1>5, <1>10, <2>3 DEF CurrentMoves, PoolCallsAreTheirOwn, RpcInv, RpcTypeOK
  <2>. QED BY <1>2, <1>4, <2>2, <2>3, <2>4, BegunCallMoves
<1>11. CASE UNCHANGED <<owner, current, holder, stage, callId, bound, flag, outcome, history, closing>>
  <2>1. CurrentMoves /\ \A k \in Calls : SameCall(k)
    BY <1>11 DEF CurrentMoves, SameCall
  <2>2. RpcTypeOK' /\ PoolCallsAreTheirOwn' /\ callId' \in [Calls -> Ids]
    BY <1>4, <1>11 DEF RpcInv, RpcTypeOK, PoolCallsAreTheirOwn, history, Onward
  <2>. QED BY <1>4, <2>1, <2>2, OtherCallsStay, OneCallChanges
<1>12. CASE /\ Correlated(m, n) /\ stage' = [stage EXCEPT ![n] = "hosting"]
            /\ effects' = effects \cup {<<n, m.nth>>}
            /\ UNCHANGED <<owner, current, holder, callId, bound, flag, outcome, answeredBy, closing>>
  <2>2. "none" \in Errors \cup {"none", "answered", "failed"} /\ "hosting" \in Stages \ {"none", "waiting"}
    BY DEF Stages
  <2>3. outcome' = [outcome EXCEPT ![n] = "none"]
    BY <1>2, <1>12 DEF RpcInv, RpcTypeOK
  <2>4. /\ CurrentMoves /\ PoolCallsAreTheirOwn'
        /\ holder' \in [Processes -> Calls \cup {0}] /\ flag' \in [Calls -> BOOLEAN]
        /\ answeredBy' \in [Calls -> Calls \cup {0}] /\ effects' \subseteq Calls \X Calls
    BY <1>5, <1>12 DEF CurrentMoves, PoolCallsAreTheirOwn, RpcInv, RpcTypeOK
  <2>. QED BY <1>2, <1>4, <1>12, <2>2, <2>3, <2>4, BegunCallMoves
<1>. QED BY <1>8, <1>9, <1>10, <1>11, <1>12

LEMMA HistoryStays ==
  ASSUME RpcInv, UNCHANGED <<owner, history>>
  PROVE  /\ PoolCallsAreTheirOwn' /\ answeredBy' \in [Calls -> Calls \cup {0}]
         /\ effects' \subseteq Calls \X Calls
BY DEF RpcInv, RpcTypeOK, PoolCallsAreTheirOwn, history

LEMMA ReturnKeepsInv ==
  ASSUME RpcInv, NEW n \in Calls, stage[n] \notin {"none", "waiting"},
         NEW o \in Errors \ {"Timeout", "Cancelled"}, Return(n, o), UNCHANGED <<process, history>>
  PROVE  RpcInv'
<1>1. Onward /\ CurrentMoves
  BY NoProcessMoves DEF Return, CurrentMoves
<1>2. "leaving" \in Stages \ {"none", "waiting"}
  BY DEF Stages
<1>3. /\ stage' = [stage EXCEPT ![n] = "leaving"] /\ outcome' = [outcome EXCEPT ![n] = o]
      /\ UNCHANGED <<owner, current, holder, callId, bound, flag, closing, history>>
  BY DEF Return
<1>4. holder' \in [Processes -> Calls \cup {0}] /\ flag' \in [Calls -> BOOLEAN]
  BY <1>3 DEF RpcInv, RpcTypeOK
<1>. QED BY <1>1, <1>2, <1>3, <1>4, HistoryStays, BegunCallMoves

LEMMA MeetsEndKeepsInv ==
  ASSUME RpcInv, NEW n \in Calls, MeetsEnd(n)
  PROVE  RpcInv'
BY ReturnKeepsInv DEF MeetsEnd, Errors

\* A message to the process of a call that has begun.
LEMMA SentKeepsOn ==
  ASSUME RpcInv, NEW n \in Calls, stage[n] \notin {"none", "waiting"}, NEW type \in Types,
         process' = Sent(bound[n], Message(type, callId[n], n, NoBody)), owner' = owner
  PROVE  Onward
<1>1. PICK p, m, l : /\ p = bound[n] /\ m = Message(type, callId[n], n, NoBody)
                     /\ l = Given(process[p], m)
  OBVIOUS
<1>2. /\ p \in Processes /\ GoodProcess(process[p], p, owner) /\ callId[n] \in Ids
      /\ owner = "pool" => callId[n] = PoolId(p, n)
  BY <1>1, CallFields
<1>3. m \in Mail(p, owner)
  BY <1>1, <1>2 DEF Mail, Message, Contents
<1>4. GoodProcess(l, p, owner) /\ Later(process[p], l)
  BY <1>1, <1>2, <1>3, MailSteps
<1>. QED BY <1>1, <1>2, <1>4, OneProcessMoves DEF Sent

LEMMA HostReturnsKeepsInv ==
  ASSUME RpcInv, NEW n \in Calls, NEW body, HostReturns(n, body)
  PROVE  RpcInv'
<1>1. stage[n] = "hosting" /\ outcome[n] = "none"
  BY CallFields DEF HostReturns, CallPlaced
<1>2. CASE \E o \in {"Protocol", "TooLarge", "Io"} : Return(n, o) /\ UNCHANGED process
  BY <1>1, <1>2, ReturnKeepsInv DEF HostReturns, Errors
<1>3. CASE /\ process' = Sent(bound[n], Message("hostResponse", callId[n], n, NoBody))
           /\ stage' = [stage EXCEPT ![n] = "receiving"]
           /\ UNCHANGED <<owner, current, holder, callId, bound, flag, outcome, closing>>
  <2>1. Onward /\ CurrentMoves
    BY <1>1, <1>3, SentKeepsOn DEF Types, CurrentMoves
  <2>2. "none" \in Errors \cup {"none", "answered", "failed"} /\ "receiving" \in Stages \ {"none", "waiting"}
    BY DEF Stages
  <2>3. outcome' = [outcome EXCEPT ![n] = "none"]
    BY <1>1, <1>3 DEF RpcInv, RpcTypeOK
  <2>4. holder' \in [Processes -> Calls \cup {0}] /\ flag' \in [Calls -> BOOLEAN] /\ UNCHANGED history
    BY <1>3 DEF RpcInv, RpcTypeOK, HostReturns
  <2>. QED BY <1>1, <1>3, <2>1, <2>2, <2>3, <2>4, HistoryStays, BegunCallMoves
<1>. QED BY <1>2, <1>3 DEF HostReturns, InlineError

LEMMA GiveUpKeepsInv ==
  ASSUME RpcInv, NEW n \in Calls, NEW why \in {"Timeout", "Cancelled"}, GiveUp(n, why)
  PROVE  RpcInv'
<1>1. stage[n] = "receiving"
  BY DEF GiveUp
<1>2. Onward /\ CurrentMoves
  BY <1>1, SentKeepsOn DEF GiveUp, Types, CurrentMoves
<1>3. why \in Errors \cup {"none", "answered", "failed"} /\ "grace" \in Stages \ {"none", "waiting"}
  BY DEF Stages, Errors
<1>4. holder' \in [Processes -> Calls \cup {0}] /\ flag' \in [Calls -> BOOLEAN]
  BY DEF RpcInv, RpcTypeOK, GiveUp
<1>. QED BY <1>1, <1>2, <1>3, <1>4, HistoryStays, BegunCallMoves DEF GiveUp

LEMMA GraceEndsKeepsInv ==
  ASSUME RpcInv, NEW n \in Calls, GraceEnds(n)
  PROVE  RpcInv'
<1>1. PICK p, o : p = bound[n] /\ o = outcome[n]
  OBVIOUS
<1>2. /\ stage[n] = "grace" /\ p \in Processes /\ GoodProcess(process[p], p, owner)
      /\ o \in Errors \cup {"none", "answered", "failed"}
  BY <1>1, CallFields DEF GraceEnds, RpcInv, RpcTypeOK
<1>3. Onward /\ process'[p] = Left(process[p])
  BY <1>1, <1>2, ProcessSteps, OneProcessMoves DEF GraceEnds, Exited
<1>4. ~ process'[p].up
  BY <1>2, <1>3, ProcessSteps
<1>5. outcome' = [outcome EXCEPT ![n] = o]
  BY <1>1 DEF GraceEnds, RpcInv, RpcTypeOK
<1>6. "leaving" \in Stages \ {"none", "waiting"}
  BY DEF Stages
<1>7. /\ holder' \in [Processes -> Calls \cup {0}] /\ flag' \in [Calls -> BOOLEAN]
      /\ CurrentMoves /\ UNCHANGED <<owner, history, bound, callId, closing>>
      /\ stage' = [stage EXCEPT ![n] = "leaving"]
  BY DEF GraceEnds, RpcInv, RpcTypeOK, CurrentMoves
<1>. QED BY <1>1, <1>2, <1>3, <1>4, <1>5, <1>6, <1>7, HistoryStays, BegunCallMoves

\* The pool drops the session of a call that was given up.
LEMMA LeaveKeepsInv ==
  ASSUME RpcInv, NEW n \in Calls, Leave(n)
  PROVE  RpcInv'
<1>1. PICK p, o, drops : /\ p = bound[n] /\ o = Remembered(outcome[n])
                         /\ drops = IF owner = "pool" THEN Retires(outcome[n]) ELSE outcome[n] = "Exited"
  OBVIOUS
<1>2. /\ stage[n] = "leaving" /\ p \in Processes /\ GoodProcess(process[p], p, owner)
      /\ CallPlaced(n) /\ 0 \notin Processes
  BY <1>1, CallFields DEF Leave
<1>3. o \in Errors \cup {"none", "answered", "failed"}
  BY <1>1 DEF Remembered, Errors
<1>4. UNCHANGED <<owner, callId, bound, history, closing>>
  BY DEF Leave
<1>5. Onward
  <2>1. CASE process' = Dropped(p)
    <3>1. PICK l : l = [Left(process[p]) EXCEPT !.readerOn = FALSE, !.out = << >>]
      OBVIOUS
    <3>2. GoodProcess(l, p, owner) /\ Later(process[p], l)
      BY <1>2, <3>1, ProcessSteps
    <3>. QED BY <1>2, <1>4, <2>1, <3>1, <3>2, OneProcessMoves DEF Dropped
  <2>2. CASE process' = process
    BY <1>4, <2>2, NoProcessMoves
  <2>. QED BY <1>1, <2>1, <2>2 DEF Leave
<1>6. current' = IF drops THEN 0 ELSE current
  BY <1>1 DEF Leave
<1>7. o \in {"Timeout", "Cancelled"} =>
        /\ outcome[n] = o
        /\ ~ process'[p].up
        /\ owner = "pool" => current' = 0
  <2>1. o \in {"Timeout", "Cancelled"} => outcome[n] = o
    BY <1>1 DEF Remembered
  <2>2. o \in {"Timeout", "Cancelled"} => ~ process[p].up /\ process[p].started
    BY <1>1, <1>2, <2>1 DEF CallPlaced, GivenUp
  <2>. QED BY <1>1, <1>2, <1>5, <1>6, <2>1, <2>2 DEF Onward, Later, Retires
<1>8. "over" \in Stages \ {"none", "waiting"}
  BY DEF Stages
<1>9. /\ holder' = [holder EXCEPT ![p] = IF @ = n THEN 0 ELSE @]
      /\ flag' = [flag EXCEPT ![n] = FALSE]
      /\ stage' = [stage EXCEPT ![n] = "over"]
      /\ outcome' = [outcome EXCEPT ![n] = o]
  BY <1>1 DEF Leave, RpcInv, RpcTypeOK
<1>10. /\ holder' \in [Processes -> Calls \cup {0}] /\ flag' \in [Calls -> BOOLEAN]
  BY <1>2, <1>9 DEF RpcInv, RpcTypeOK
<1>11. CurrentMoves
  BY <1>6 DEF CurrentMoves
<1>12. /\ o \in {"Timeout", "Cancelled"} => ~ process'[bound[n]].up
       /\ o \in {"Timeout", "Cancelled"} /\ owner = "pool" => current' # bound[n]
  BY <1>1, <1>2, <1>7
<1>13. /\ PoolCallsAreTheirOwn' /\ answeredBy' \in [Calls -> Calls \cup {0}]
       /\ effects' \subseteq Calls \X Calls
  BY <1>4, HistoryStays
<1>. QED BY <1>2, <1>3, <1>4, <1>5, <1>8, <1>9, <1>10, <1>11, <1>12, <1>13, BegunCallMoves

LEMMA CancelKeepsInv ==
  ASSUME RpcInv, NEW n \in Calls, Cancel(n)
  PROVE  RpcInv'
<1>1. Onward /\ CurrentMoves /\ \A m \in Calls : SameCall(m)
  BY NoProcessMoves DEF Cancel, CurrentMoves, SameCall
<1>2. RpcTypeOK' /\ PoolCallsAreTheirOwn' /\ callId' \in [Calls -> Ids]
  BY DEF Cancel, RpcInv, RpcTypeOK, PoolCallsAreTheirOwn, history
<1>. QED BY <1>1, <1>2, OtherCallsStay, OneCallChanges

LEMMA ReleaseKeepsInv ==
  ASSUME RpcInv, NEW n \in Calls, ReleaseSession(n)
  PROVE  RpcInv'
<1>1. Onward /\ CurrentMoves
  BY NoProcessMoves DEF ReleaseSession, CurrentMoves
<1>. QED BY <1>1, CallsStay DEF ReleaseSession, RpcInv, RpcTypeOK

LEMMA CloseKeepsInv ==
  ASSUME RpcInv, Close
  PROVE  RpcInv'
<1>1. Onward /\ CurrentMoves
  BY NoProcessMoves DEF Close, CurrentMoves
<1>. QED BY <1>1, CallsStay DEF Close, RpcInv, RpcTypeOK

LEMMA ExitsKeepsInv ==
  ASSUME RpcInv, NEW p \in Processes, WorkerExits(p)
  PROVE  RpcInv'
BY ProcessSteps, BecomesKeepsInv DEF WorkerExits, RpcInv

-----------------------------------------------------------------------------
LEMMA RpcInvInit ==
  ASSUME RpcInit
  PROVE  RpcInv
<1>1. \A p \in Processes : process[p] = NotStarted
  BY DEF RpcInit
<1>2. \A p \in Processes : GoodProcess(process[p], p, owner)
  BY <1>1, NewProcessGood
<1>3. RpcTypeOK /\ PoolCallsAreTheirOwn
  BY DEF RpcInit, RpcTypeOK, PoolCallsAreTheirOwn, Stages
<1>4. callId \in [Calls -> Ids]
  BY DEF RpcInit, NoId, Ids
<1>5. 0 \notin Processes
  BY RpcConstantsTyped DEF Processes
<1>6. \A n \in Calls : CallPlaced(n)
  BY <1>5 DEF RpcInit, CallPlaced, GivenUp
<1>. QED BY <1>2, <1>3, <1>4, <1>5, <1>6 DEF RpcInv, RpcInit

LEMMA RpcInvNext ==
  ASSUME RpcInv, [RpcNext]_rpcVars
  PROVE  RpcInv'
<1>1. CASE UNCHANGED rpcVars
  <2>1. Onward /\ CurrentMoves
    BY <1>1, NoProcessMoves DEF rpcVars, CurrentMoves
  <2>. QED BY <1>1, <2>1, CallsStay DEF rpcVars, RpcInv, RpcTypeOK
<1>2. CASE Open \/ Ask \/ SpawnPooled \/ Close
  BY <1>2, AskKeepsInv, CloseKeepsInv, StartKeepsInv DEF Open, SpawnPooled
<1>3. CASE \E id \in CallIds : Call(id)
  BY <1>3, CallKeepsInv
<1>4. ASSUME NEW n \in Calls,
             \/ Begin(n) \/ Receive(n) \/ MeetsEnd(n) \/ GraceEnds(n) \/ ReleaseSession(n)
             \/ Leave(n) \/ Cancel(n)
             \/ \E body \in Bodies : HostReturns(n, body)
             \/ \E why \in {"Timeout", "Cancelled"} : GiveUp(n, why)
      PROVE  RpcInv'
  BY <1>4, BeginKeepsInv, ReceiveKeepsInv, MeetsEndKeepsInv, GraceEndsKeepsInv, ReleaseKeepsInv,
     LeaveKeepsInv, CancelKeepsInv, HostReturnsKeepsInv, GiveUpKeepsInv
<1>5. ASSUME NEW p \in Processes,
             \/ WorkerReads(p) \/ WorkerExits(p) \/ Shutdown(p)
             \/ WorkerSends(p, "failure", NoBody)
             \/ \E type \in {"event", "hostRequest", "response"}, body \in Bodies :
                   WorkerSends(p, type, body)
      PROVE  RpcInv'
  <2>1. CASE WorkerReads(p) \/ WorkerExits(p) \/ Shutdown(p)
    BY <2>1, ReadsKeepsInv, ExitsKeepsInv, ShutdownKeepsInv
  <2>2. CASE WorkerSends(p, "failure", NoBody)
    BY <2>2, SendsKeepsInv DEF Contents
  <2>3. ASSUME NEW type \in {"event", "hostRequest", "response"}, NEW body \in Bodies,
               WorkerSends(p, type, body)
        PROVE  RpcInv'
    BY <2>3, SendsKeepsInv DEF Contents
  <2>. QED BY <1>5, <2>1, <2>2, <2>3
<1>. QED BY <1>1, <1>2, <1>3, <1>4, <1>5 DEF RpcNext

\* Every reachable state of the worker protocol keeps the inductive invariant: the
\* streams of a pooled process hold only messages that carry the id of the call they
\* were made for, and the process of a call that was given up is gone.
THEOREM RpcStaysInv == RpcSpec => []RpcInv
<1>1. RpcInit => RpcInv
  BY RpcInvInit
<1>2. RpcInv /\ [RpcNext]_rpcVars => RpcInv'
  BY RpcInvNext
<1>. QED BY <1>1, <1>2, PTL DEF RpcSpec

\* Whatever the workers send and whenever they exit, a call through the pool is answered
\* only by the response made for it, and a reverse Host call is carried out only for the
\* call that is running: late messages of earlier calls are never taken.
THEOREM PoolCallsStayTheirOwn == RpcSpec => []PoolCallsAreTheirOwn
<1>1. RpcInv => PoolCallsAreTheirOwn
  BY DEF RpcInv
<1>. QED BY <1>1, RpcStaysInv, PTL

\* A process that a deadline or a cancellation gave up has exited by the time its call
\* is over, and the pool serves no later call with it.
THEOREM GivenUpStaysGone == RpcSpec => []GivenUpIsGone
<1>1. RpcInv => GivenUpIsGone
  BY DEF RpcInv, CallPlaced, GivenUp, GivenUpIsGone
<1>. QED BY <1>1, RpcStaysInv, PTL

-----------------------------------------------------------------------------
(***************************************************************************)
(* Packages on disk                                                        *)
(***************************************************************************)
(* The inductive invariant: what an operation still has to do and what is on disk for it;
   then, as long as no two operations crossed on the tombstones, who is under way beside
   it. *)

AllFiles == UNION {Range(p.files) : p \in Packages}
Writing == {"extract", "verify", "rename"}
Packaged == Writing \cup {"open"}
Keyed == Writing \cup Removing \cup {"clear", "unbury"}
Burying == {"bury", "unbury"}

Job == [pc : {"idle"} \cup Removing \cup Installing, pkg : Packages \cup {"none"},
        key : PluginKeys \cup {"none"}, explicit : BOOLEAN, todo : Seq(AllFiles),
        seen : SUBSET PluginKeys, pending : SUBSET Packages]
GoodJob(r) ==
  /\ r \in Job
  /\ r.pc \in Keyed => r.key \in PluginKeys
  /\ r.pc \in Packaged => r.pkg \in Packages
  /\ r.pc \in Writing => r.key = r.pkg.key /\ SignatureAccepted(r.pkg)
  /\ r.pc = "extract" => r.todo # << >>
  /\ r.pc \in {"verify", "rename"} => r.pkg.unpacks
  /\ r.pc \in {"resolve", "clear", "unbury"} => r.explicit
  /\ r.pc = "discover" => ~ r.explicit

Directories(f) == \A k \in DOMAIN f : k \in PluginKeys /\ DOMAIN f[k] \subseteq AllFiles
GateKept(g) ==
  /\ IsFiniteSet(DOMAIN g) /\ Cardinality(DOMAIN g) <= MaxCandidates
  /\ \A d \in DOMAIN g : g[d] = "activated"

PackagesTyped ==
  /\ archives \subseteq Packages /\ source \in Packages
  /\ Directories(installed) /\ Directories(staging)
  /\ tombstones \subseteq PluginKeys
  /\ GateKept(gate) /\ raced \in BOOLEAN
  /\ DOMAIN jobs = PackageJobs
  /\ \A j \in PackageJobs : GoodJob(jobs[j])
  /\ jobs \in [PackageJobs -> Job]

\* What an operation has written of its package, and what it still has to write.
Staged(dir, r) ==
  /\ \A f \in DOMAIN dir : dir[f] = r.pkg
  /\ r.pc = "extract" => DOMAIN dir \cup Range(r.todo) = Range(r.pkg.files)
  /\ r.pc \in {"verify", "rename"} => DOMAIN dir = Range(r.pkg.files)
  /\ r.pc = "rename" => PayloadsVerified(r.pkg, dir)
WritesTo(r, k) == r.pc \in Writing /\ r.key = k
Alone(j) ==
  jobs[j].pc \in Writing /\ jobs[j].key \notin disturbed =>
     /\ jobs[j].key \in DOMAIN staging /\ Staged(staging[jobs[j].key], jobs[j])
     /\ \A i \in PackageJobs \ {j} : ~ WritesTo(jobs[i], jobs[j].key)
DiskInv == InstalledWhole /\ \A j \in PackageJobs : Alone(j)

Apart(r, s) == ~ (r.pc \in Removing /\ s.pc \in Installing)
NotGone(r, there, away) ==
  /\ r.pc \in {"uncache", "bury"} => r.key \notin there
  /\ r.explicit /\ r.pc \in Packaged => r.pkg.key \notin away
  /\ r.pc \in {"clear", "unbury"} => r.key \notin away
  /\ ~ r.explicit /\ r.pc \in Installing => away \subseteq r.seen
  /\ ~ r.explicit /\ r.pc \in Packaged => r.pkg.key \notin r.seen
OneBuries ==
  \A j \in PackageJobs : jobs[j].pc \in Burying =>
     /\ jobs[j].seen = tombstones
     /\ \A i \in PackageJobs \ {j} : jobs[i].pc \notin Burying
Uncrossed ==
  /\ \A i, j \in PackageJobs : Apart(jobs[i], jobs[j])
  /\ OneBuries
  /\ \A j \in PackageJobs : NotGone(jobs[j], DOMAIN installed, gone)
  /\ \A k \in gone : k \in tombstones /\ k \notin DOMAIN installed

PackagesInv == PackagesTyped /\ DiskInv /\ (~ raced => Uncrossed)

-----------------------------------------------------------------------------
(* The gate, the directories, the jobs *)

LEMMA PackageFacts ==
  ASSUME NEW p \in Packages
  PROVE  /\ p.key \in PluginKeys /\ EntryFiles \subseteq Range(p.files) /\ Range(p.files) \subseteq AllFiles
         /\ p.files \in Seq(AllFiles) /\ p.files # << >> /\ EntryFiles \subseteq AllFiles
<1>1. Range(p.files) \subseteq AllFiles  BY DEF AllFiles
<1>2. EntryFiles \subseteq Range(p.files) /\ p.files \in Seq(Range(p.files))  BY PackagesAssumption
<1>3. p.files \in Seq(AllFiles)  BY <1>1, <1>2
<1>4. p.files # << >>
  <2>1. "entry" \in Range(p.files)  BY <1>2 DEF EntryFiles
  <2> QED  BY <2>1, <1>2 DEF Range
<1> QED  BY <1>1, <1>2, <1>3, <1>4 DEF PluginKeys

LEMMA LimitIsANumber == MaxCandidates \in Nat \ {0}
BY PackagesAssumption

LEMMA AdvanceOfNone == ASSUME NEW d, NEW a, NEW b PROVE Advance(NoneOf, d, a, b) = NoneOf
BY DEF Advance, NoneOf

LEMMA AdvanceGoes ==
  ASSUME NEW g, NEW d \in DOMAIN g, NEW a, NEW b, g[d] = a
  PROVE  Advance(g, d, a, b) = [g EXCEPT ![d] = b]
BY DEF Advance

\* A run of the gate refuses, or adds the candidate as activated, within the limit.
LEMMA GateRunKeeps ==
  ASSUME NEW g, GateKept(g), NEW d
  PROVE  GateRun(g, d) = NoneOf \/ GateKept(GateRun(g, d))
<1>1. CASE d \in DOMAIN g \/ Cardinality(DOMAIN g) >= MaxCandidates
  <2>1. Submit(g, d) = NoneOf  BY <1>1 DEF Submit
  <2> QED  BY <2>1, AdvanceOfNone DEF GateRun
<1>2. CASE ~ (d \in DOMAIN g \/ Cardinality(DOMAIN g) >= MaxCandidates)
  <2> DEFINE D == DOMAIN g \cup {d}
             s0 == Extended(g, d, "quarantined")
             s1 == [s0 EXCEPT ![d] = "scanned"]
             s2 == [s1 EXCEPT ![d] = "approved"]
             s3 == [s2 EXCEPT ![d] = "activated"]
  <2>1. Submit(g, d) = s0  BY <1>2 DEF Submit
  <2>2. DOMAIN s0 = D /\ s0[d] = "quarantined" /\ \A x \in DOMAIN g : s0[x] = g[x]
    BY <1>2 DEF Extended
  <2>3. Advance(s0, d, "quarantined", "scanned") = s1  BY <2>2, AdvanceGoes
  <2>4. DOMAIN s1 = D /\ s1[d] = "scanned" /\ \A x \in DOMAIN g : s1[x] = g[x]  BY <2>2, <1>2
  <2>5. Advance(s1, d, "scanned", "approved") = s2  BY <2>4, AdvanceGoes
  <2>6. DOMAIN s2 = D /\ s2[d] = "approved" /\ \A x \in DOMAIN g : s2[x] = g[x]  BY <2>4, <1>2
  <2>7. Advance(s2, d, "approved", "activated") = s3  BY <2>6, AdvanceGoes
  <2>8. DOMAIN s3 = D /\ \A x \in D : s3[x] = "activated"  BY <2>6, <1>2 DEF GateKept
  <2>9. GateRun(g, d) = s3  BY <2>1, <2>3, <2>5, <2>7 DEF GateRun
  <2>10. IsFiniteSet(D) /\ Cardinality(D) <= MaxCandidates
    <3>1. IsFiniteSet(DOMAIN g)  BY DEF GateKept
    <3>2. Cardinality(D) = Cardinality(DOMAIN g) + 1 /\ IsFiniteSet(D)  BY <3>1, <1>2, FS_AddElement
    <3>3. Cardinality(DOMAIN g) \in Nat  BY <3>1, FS_CardinalityType
    <3> QED  BY <3>2, <3>3, <1>2, LimitIsANumber
  <2> HIDE DEF s3
  <2> QED  BY <2>8, <2>9, <2>10 DEF GateKept
<1> QED  BY <1>1, <1>2

LEMMA ExtendedFacts ==
  ASSUME NEW f, NEW x, NEW y
  PROVE  /\ DOMAIN Extended(f, x, y) = DOMAIN f \cup {x}
         /\ Extended(f, x, y)[x] = y
         /\ \A z \in DOMAIN f : z # x => Extended(f, x, y)[z] = f[z]
BY DEF Extended

LEMMA ForgetFacts ==
  ASSUME NEW f, NEW x
  PROVE  /\ DOMAIN Forget(f, x) = DOMAIN f \ {x}
         /\ \A z \in DOMAIN f \ {x} : Forget(f, x)[z] = f[z]
BY DEF Forget, Restrict

LEMMA ExtendedDirectories ==
  ASSUME NEW f, Directories(f), NEW k \in PluginKeys, NEW dir, DOMAIN dir \subseteq AllFiles
  PROVE  Directories(Extended(f, k, dir))
<1> DEFINE g == Extended(f, k, dir)
<1>1. DOMAIN g = DOMAIN f \cup {k} /\ g[k] = dir /\ \A z \in DOMAIN f : z # k => g[z] = f[z]
  BY DEF Extended
<1> HIDE DEF g
<1>2. Directories(g)  BY <1>1 DEF Directories
<1> QED  BY <1>2 DEF g

LEMMA ForgetDirectories ==
  ASSUME NEW f, Directories(f), NEW k PROVE Directories(Forget(f, k))
<1> DEFINE g == Forget(f, k)
<1>1. DOMAIN g = DOMAIN f \ {k} /\ \A z \in DOMAIN f \ {k} : g[z] = f[z]  BY ForgetFacts
<1> HIDE DEF g
<1>2. Directories(g)  BY <1>1 DEF Directories
<1> QED  BY <1>2 DEF g

LEMMA NoJobGood == GoodJob(NoJob)
<1>1. << >> \in Seq(AllFiles)  OBVIOUS
<1> QED  BY <1>1 DEF NoJob, GoodJob, Job, Keyed, Packaged, Writing, Removing, Installing

\* How the jobs look after one of them went on.
LEMMA JobGoes ==
  ASSUME PackagesTyped, NEW j \in PackageJobs, NEW r, Goes(j, r)
  PROVE  /\ jobs'[j] = r /\ DOMAIN jobs' = PackageJobs
         /\ \A i \in PackageJobs : i # j => jobs'[i] = jobs[i]
BY DEF PackagesTyped, Goes

LEMMA JobsStayGood ==
  ASSUME PackagesTyped, NEW j \in PackageJobs, NEW r, GoodJob(r), Goes(j, r)
  PROVE  /\ jobs' \in [PackageJobs -> Job] /\ DOMAIN jobs' = PackageJobs
         /\ \A i \in PackageJobs : GoodJob(jobs'[i])
BY DEF PackagesTyped, Goes, GoodJob

LEMMA OpensGood ==
  ASSUME NEW r \in Job, NEW p \in Packages PROVE GoodJob([r EXCEPT !.pc = "open", !.pkg = p])
BY DEF GoodJob, Job, Keyed, Packaged, Writing, Removing, Installing

LEMMA DiscoversOnGood ==
  ASSUME NEW r, GoodJob(r), r.pc = "discover", NEW s \in SUBSET Packages
  PROVE  GoodJob([r EXCEPT !.pending = s])
BY DEF GoodJob, Job, Keyed, Packaged, Writing

\* What is left of an operation that ended.
Ended(r) == IF r.explicit THEN NoJob
            ELSE [r EXCEPT !.pc = "discover", !.pkg = "none", !.key = "none", !.todo = << >>]

LEMMA EndedGood ==
  ASSUME NEW r, GoodJob(r)
  PROVE  GoodJob(Ended(r)) /\ Ended(r).pc \in {"idle", "discover"}
         /\ (Ended(r).pc = "discover" => ~ r.explicit /\ ~ Ended(r).explicit /\ Ended(r).seen = r.seen)
<1>1. << >> \in Seq(AllFiles)  OBVIOUS
<1>2. CASE r.explicit  BY <1>2, NoJobGood DEF Ended, NoJob
<1>3. CASE ~ r.explicit
  <2>1. Ended(r) = [r EXCEPT !.pc = "discover", !.pkg = "none", !.key = "none", !.todo = << >>]
    BY <1>3 DEF Ended
  <2> QED  BY <2>1, <1>1, <1>3 DEF GoodJob, Job, Keyed, Packaged, Writing, Removing, Installing
<1> QED  BY <1>2, <1>3

LEMMA EndsIsEnded == ASSUME NEW j, Ends(j) PROVE Goes(j, Ended(jobs[j]))
BY DEF Ends, Ended
-----------------------------------------------------------------------------
(* Every step keeps the types *)

\* What one job does: the record it leaves is good, and so are the disk and the gate.
LEMMA TypedStep ==
  ASSUME PackagesTyped, NEW j \in PackageJobs, NEW r, GoodJob(r), Goes(j, r),
         archives' \subseteq Packages, source' = source, Directories(installed'),
         Directories(staging'), tombstones' \subseteq PluginKeys, GateKept(gate'), raced' \in BOOLEAN
  PROVE  PackagesTyped'
BY JobsStayGood DEF PackagesTyped

LEMMA InstallGateTyped ==
  ASSUME PackagesTyped, NEW j \in PackageJobs, NEW p \in Packages, NEW external \in BOOLEAN,
         InstallGate(j, p, external)
  PROVE  PackagesTyped'
<1> DEFINE r == [NoJob EXCEPT !.pc = IF external THEN "resolve" ELSE "open", !.pkg = p, !.explicit = TRUE]
<1>1. GoodJob(r)
  <2>1. << >> \in Seq(AllFiles)  OBVIOUS
  <2> QED  BY <2>1 DEF NoJob, GoodJob, Job, Keyed, Packaged, Writing, Removing, Installing
<1>2. GateKept(gate')  BY GateRunKeeps DEF InstallGate, PackagesTyped, GatePasses
<1>3. UNCHANGED <<source, installed, staging, tombstones>> /\ archives' = archives \cup {p}
      /\ raced' \in BOOLEAN
  BY DEF InstallGate, PackagesTyped, Others
<1>4. archives' \subseteq Packages /\ Directories(installed') /\ Directories(staging')
      /\ tombstones' \subseteq PluginKeys
  BY <1>3 DEF PackagesTyped
<1>5. CASE GatePasses(p)
  <2>1. Goes(j, r)  BY <1>5 DEF InstallGate
  <2> HIDE DEF r
  <2> QED  BY <1>1, <1>2, <1>3, <1>4, <2>1, TypedStep
<1>6. CASE ~ GatePasses(p)
  <2>1. jobs' = jobs  BY <1>6 DEF InstallGate
  <2> QED  BY <1>2, <1>3, <1>4, <2>1 DEF PackagesTyped
<1> QED  BY <1>5, <1>6

LEMMA InstallResolveTyped ==
  ASSUME PackagesTyped, NEW j \in PackageJobs, InstallResolve(j)
  PROVE  PackagesTyped'
<1> DEFINE r == [jobs[j] EXCEPT !.pc = "open", !.pkg = source]
<1>1. GoodJob(r)  BY OpensGood DEF PackagesTyped
<1>2. Goes(j, r) /\ archives' = archives \cup {source}
      /\ UNCHANGED <<source, installed, staging, tombstones, gate, raced>>
  BY DEF InstallResolve
<1> HIDE DEF r
<1> QED  BY <1>1, <1>2, TypedStep DEF PackagesTyped

LEMMA DiscoverTyped ==
  ASSUME PackagesTyped, NEW j \in PackageJobs, Discover(j)
  PROVE  PackagesTyped'
<1> DEFINE r == [NoJob EXCEPT !.pc = "discover", !.seen = tombstones, !.pending = archives]
<1>1. GoodJob(r)
  <2>1. << >> \in Seq(AllFiles)  OBVIOUS
  <2> QED  BY <2>1 DEF PackagesTyped, NoJob, GoodJob, Job, Keyed, Packaged, Writing, Removing, Installing
<1>2. Goes(j, r) /\ UNCHANGED <<archives, source, installed, staging, tombstones, gate>>
      /\ raced' \in BOOLEAN
  BY DEF Discover, PackagesTyped, Others
<1> HIDE DEF r
<1> QED  BY <1>1, <1>2, TypedStep DEF PackagesTyped

LEMMA DiscoverNextTyped ==
  ASSUME PackagesTyped, NEW j \in PackageJobs, NEW p \in Packages, DiscoverNext(j, p)
  PROVE  PackagesTyped'
<1> DEFINE rest == [jobs[j] EXCEPT !.pending = @ \ {p}]
           r == [rest EXCEPT !.pc = "open", !.pkg = p]
<1>1. GoodJob(rest) /\ GoodJob(r)
  <2>1. GoodJob(jobs[j]) /\ jobs[j].pc = "discover" /\ jobs[j].pending \ {p} \in SUBSET Packages
    BY DEF DiscoverNext, In, PackagesTyped, GoodJob, Job
  <2>2. rest = [jobs[j] EXCEPT !.pending = jobs[j].pending \ {p}]  OBVIOUS
  <2>3. GoodJob(rest)  BY <2>1, <2>2, DiscoversOnGood
  <2>4. rest \in Job  BY <2>3 DEF GoodJob
  <2> HIDE DEF rest
  <2> QED  BY <2>3, <2>4, OpensGood
<1>2. Goes(j, r) \/ Goes(j, rest)  BY DEF DiscoverNext
<1>3. UNCHANGED <<archives, source, installed, staging, tombstones, gate, raced>>  BY DEF DiscoverNext
<1> HIDE DEF r, rest
<1> QED  BY <1>1, <1>2, <1>3, TypedStep DEF PackagesTyped

LEMMA DiscoverEndTyped ==
  ASSUME PackagesTyped, NEW j \in PackageJobs, DiscoverEnd(j)
  PROVE  PackagesTyped'
BY NoJobGood, TypedStep DEF DiscoverEnd, PackagesTyped

LEMMA OpenArchiveTyped ==
  ASSUME PackagesTyped, NEW j \in PackageJobs, OpenArchive(j)
  PROVE  PackagesTyped'
<1> DEFINE p == jobs[j].pkg
           r == [jobs[j] EXCEPT !.pc = "extract", !.key = p.key, !.todo = p.files]
           c == [jobs[j] EXCEPT !.pc = "clear", !.key = p.key]
<1>1. jobs[j].pc = "open" /\ GoodJob(jobs[j])  BY DEF OpenArchive, In, PackagesTyped
<1>2. p \in Packages  BY <1>1 DEF GoodJob, Packaged
<1>3. p.key \in PluginKeys /\ p.files \in Seq(AllFiles) /\ p.files # << >>  BY <1>2, PackageFacts
<1>4. UNCHANGED <<archives, source, installed, tombstones, gate, raced>>  BY DEF OpenArchive
<1>5. CASE ~ SignatureAccepted(p)
  <2>1. Ends(j) /\ UNCHANGED staging  BY <1>5 DEF OpenArchive
  <2> QED  BY <1>1, <1>4, <2>1, EndsIsEnded, EndedGood, TypedStep DEF PackagesTyped
<1>6. CASE SignatureAccepted(p) /\ p.key \in DOMAIN installed
  <2>1. UNCHANGED staging /\ (Ends(j) \/ (jobs[j].explicit /\ Goes(j, c)))  BY <1>6 DEF OpenArchive
  <2>2. CASE Ends(j)
    BY <1>1, <1>4, <2>1, <2>2, EndsIsEnded, EndedGood, TypedStep DEF PackagesTyped
  <2>3. CASE jobs[j].explicit /\ Goes(j, c)
    <3>1. GoodJob(c)
      BY <1>1, <1>3, <2>3 DEF GoodJob, Job, Keyed, Packaged, Writing, Removing, Installing
    <3> HIDE DEF c
    <3> QED  BY <1>4, <2>1, <2>3, <3>1, TypedStep DEF PackagesTyped
  <2> QED  BY <2>1, <2>2, <2>3
<1>7. CASE SignatureAccepted(p) /\ p.key \notin DOMAIN installed
  <2>1. Goes(j, r) /\ staging' = Extended(staging, p.key, << >>)
    BY <1>7 DEF OpenArchive, FreshStaging, NoneOf
  <2>2. GoodJob(r)
    BY <1>1, <1>3, <1>7 DEF GoodJob, Job, Keyed, Packaged, Writing, Removing, Installing
  <2>3. DOMAIN << >> \subseteq AllFiles  OBVIOUS
  <2>4. Directories(staging')  BY <1>3, <2>1, <2>3, ExtendedDirectories DEF PackagesTyped
  <2> HIDE DEF r, p
  <2> QED  BY <1>4, <2>1, <2>2, <2>4, TypedStep DEF PackagesTyped
<1> QED  BY <1>5, <1>6, <1>7

LEMMA NextOfTodo ==
  ASSUME NEW S, NEW s \in Seq(S), s # << >>
  PROVE  /\ Head(s) \in S /\ Tail(s) \in Seq(S) /\ (Len(s) # 1 => Tail(s) # << >>)
         /\ Range(s) = Range(Tail(s)) \cup {Head(s)} /\ (Len(s) = 1 => Range(Tail(s)) = {})
<1>1. Len(s) \in Nat /\ Len(s) >= 1 /\ DOMAIN s = 1 .. Len(s) /\ \A i \in 1 .. Len(s) : s[i] \in S
  OBVIOUS
<1>2. Tail(s) \in Seq(S) /\ Len(Tail(s)) = Len(s) - 1 /\ DOMAIN Tail(s) = 1 .. Len(s) - 1
      /\ \A i \in 1 .. Len(s) - 1 : Tail(s)[i] = s[i + 1]
  OBVIOUS
<1>3. Head(s) = s[1] /\ Head(s) \in S
  <2>1. Head(s) = s[1]  OBVIOUS
  <2> QED  BY <2>1, <1>1
<1>4. Len(s) # 1 => Tail(s) # << >>
  <2>1. SUFFICES ASSUME Len(s) # 1, Tail(s) = << >> PROVE FALSE  OBVIOUS
  <2>2. DOMAIN Tail(s) = {}
    <3>1. DOMAIN << >> = {}  OBVIOUS
    <3> QED  BY <2>1, <3>1
  <2>3. 1 \notin 1 .. Len(s) - 1  BY <1>2, <2>2
  <2> QED  BY <1>1, <2>1, <2>3
<1>5. Range(s) \subseteq Range(Tail(s)) \cup {Head(s)}
  <2>1. SUFFICES ASSUME NEW i \in 1 .. Len(s) PROVE s[i] \in Range(Tail(s)) \cup {Head(s)}
    BY <1>1 DEF Range
  <2>2. CASE i = 1  BY <2>2, <1>3
  <2>3. CASE i # 1
    <3>1. i - 1 \in 1 .. Len(s) - 1  BY <1>1, <2>3
    <3>2. Tail(s)[i - 1] = s[i]  BY <3>1, <1>1, <1>2
    <3> QED  BY <3>1, <3>2, <1>2 DEF Range
  <2> QED  BY <2>2, <2>3
<1>6. Range(Tail(s)) \cup {Head(s)} \subseteq Range(s)
  <2>1. \A i \in 1 .. Len(s) - 1 : Tail(s)[i] \in Range(s)  BY <1>1, <1>2 DEF Range
  <2>2. Head(s) \in Range(s)  BY <1>1, <1>3 DEF Range
  <2> QED  BY <2>1, <2>2, <1>2 DEF Range
<1>7. Len(s) = 1 => Range(Tail(s)) = {}  BY <1>2 DEF Range
<1> QED  BY <1>2, <1>3, <1>4, <1>5, <1>6, <1>7

LEMMA ExtractTyped ==
  ASSUME PackagesTyped, NEW j \in PackageJobs, Extract(j)
  PROVE  PackagesTyped'
<1> DEFINE p == jobs[j].pkg
           f == Head(jobs[j].todo)
           last == Len(jobs[j].todo) = 1
           r == [jobs[j] EXCEPT !.todo = Tail(jobs[j].todo), !.pc = IF last THEN "verify" ELSE "extract"]
           dir == Extended(At(staging, p.key), f, p)
<1>1. jobs[j].pc = "extract" /\ GoodJob(jobs[j])  BY DEF Extract, In, PackagesTyped
<1>2. p \in Packages /\ p.key \in PluginKeys  BY <1>1, PackageFacts DEF GoodJob, Packaged, Writing
<1>3. jobs[j].todo \in Seq(AllFiles) /\ jobs[j].todo # << >>  BY <1>1 DEF GoodJob, Job
<1>4. f \in AllFiles /\ Tail(jobs[j].todo) \in Seq(AllFiles)
      /\ (~ last => Tail(jobs[j].todo) # << >>)
  BY <1>3, NextOfTodo
<1>5. UNCHANGED <<archives, source, installed, tombstones, gate, raced>>  BY DEF Extract
<1>6. CASE last /\ ~ p.unpacks
  <2>1. Ends(j) /\ staging' = Forget(staging, p.key)  BY <1>6 DEF Extract
  <2>2. Directories(staging')  BY <2>1, ForgetDirectories DEF PackagesTyped
  <2> QED  BY <1>1, <1>5, <2>1, <2>2, EndsIsEnded, EndedGood, TypedStep DEF PackagesTyped
<1>7. CASE ~ (last /\ ~ p.unpacks)
  <2>1. Goes(j, r) /\ staging' = Extended(staging, p.key, dir)  BY <1>7 DEF Extract
  <2>2. GoodJob(r)
    BY <1>1, <1>4, <1>7 DEF GoodJob, Job, Keyed, Packaged, Writing, Removing, Installing
  <2>3. DOMAIN At(staging, p.key) \subseteq AllFiles
    <3>1. CASE p.key \in DOMAIN staging  BY <3>1 DEF At, PackagesTyped, Directories
    <3>2. CASE p.key \notin DOMAIN staging
      <4>1. At(staging, p.key) = << >>  BY <3>2 DEF At, NoneOf
      <4> QED  BY <4>1
    <3> QED  BY <3>1, <3>2
  <2>4. DOMAIN dir \subseteq AllFiles  BY <1>4, <2>3 DEF Extended
  <2> HIDE DEF dir, r
  <2>5. Directories(staging')  BY <1>2, <2>1, <2>4, ExtendedDirectories DEF PackagesTyped
  <2> QED  BY <1>5, <2>1, <2>2, <2>5, TypedStep DEF PackagesTyped
<1> QED  BY <1>6, <1>7

LEMMA VerifyTyped ==
  ASSUME PackagesTyped, NEW j \in PackageJobs, Verify(j)
  PROVE  PackagesTyped'
<1> DEFINE r == [jobs[j] EXCEPT !.pc = "rename"]
<1>1. jobs[j].pc = "verify" /\ GoodJob(jobs[j])  BY DEF Verify, In, PackagesTyped
<1>2. GoodJob(r)  BY <1>1 DEF GoodJob, Job, Keyed, Packaged, Writing, Removing, Installing
<1>3. UNCHANGED <<archives, source, installed, tombstones, gate, raced>>  BY DEF Verify
<1>4. (Ends(j) \/ Goes(j, r)) /\ (staging' = staging \/ staging' = Forget(staging, jobs[j].pkg.key))
  BY DEF Verify
<1>5. Directories(staging')  BY <1>4, ForgetDirectories DEF PackagesTyped
<1> HIDE DEF r
<1> QED  BY <1>1, <1>2, <1>3, <1>4, <1>5, EndsIsEnded, EndedGood, TypedStep DEF PackagesTyped

LEMMA RenameTyped ==
  ASSUME PackagesTyped, NEW j \in PackageJobs, Rename(j)
  PROVE  PackagesTyped'
<1> DEFINE p == jobs[j].pkg
           r == [jobs[j] EXCEPT !.pc = "clear"]
<1>1. jobs[j].pc = "rename" /\ GoodJob(jobs[j])  BY DEF Rename, In, PackagesTyped
<1>2. p.key \in PluginKeys  BY <1>1, PackageFacts DEF GoodJob, Packaged, Writing
<1>3. UNCHANGED <<archives, source, tombstones, gate, raced>>  BY DEF Rename
<1>4. CASE p.key \notin DOMAIN staging \/ p.key \in DOMAIN installed
  <2>1. Ends(j) /\ UNCHANGED <<installed, staging>>  BY <1>4 DEF Rename
  <2> QED  BY <1>1, <1>3, <2>1, EndsIsEnded, EndedGood, TypedStep DEF PackagesTyped
<1>5. CASE ~ (p.key \notin DOMAIN staging \/ p.key \in DOMAIN installed)
  <2>1. /\ installed' = Extended(installed, p.key, staging[p.key])
        /\ staging' = Forget(staging, p.key)
        /\ Ends(j) \/ (jobs[j].explicit /\ Goes(j, r))
    BY <1>5 DEF Rename
  <2>2. DOMAIN staging[p.key] \subseteq AllFiles  BY <1>5 DEF PackagesTyped, Directories
  <2>3. Directories(staging') /\ Directories(installed')
    BY <1>2, <2>1, <2>2, ForgetDirectories, ExtendedDirectories DEF PackagesTyped
  <2>4. CASE Ends(j)
    BY <1>1, <1>3, <2>3, <2>4, EndsIsEnded, EndedGood, TypedStep DEF PackagesTyped
  <2>5. CASE jobs[j].explicit /\ Goes(j, r)
    <3>1. GoodJob(r)
      BY <1>1, <2>5 DEF GoodJob, Job, Keyed, Packaged, Writing, Removing, Installing
    <3> HIDE DEF r
    <3> QED  BY <1>3, <2>3, <2>5, <3>1, TypedStep DEF PackagesTyped
  <2> QED  BY <2>1, <2>4, <2>5
<1> QED  BY <1>4, <1>5

LEMMA UninstallTyped ==
  ASSUME PackagesTyped, NEW j \in PackageJobs, NEW k \in PluginKeys, Uninstall(j, k)
  PROVE  PackagesTyped'
<1> DEFINE r == [NoJob EXCEPT !.pc = "remove", !.key = k]
<1>1. GoodJob(r)
  <2>1. << >> \in Seq(AllFiles)  OBVIOUS
  <2> QED  BY <2>1 DEF NoJob, GoodJob, Job, Keyed, Packaged, Writing, Removing, Installing
<1>2. Goes(j, r) /\ UNCHANGED <<archives, source, installed, staging, tombstones, gate>>
      /\ raced' \in BOOLEAN
  BY DEF Uninstall, PackagesTyped, Others
<1> HIDE DEF r
<1> QED  BY <1>1, <1>2, TypedStep DEF PackagesTyped

\* A removal goes on with its key.
LEMMA RemovesGood ==
  ASSUME NEW r, GoodJob(r), r.pc \in {"remove", "removing"}, NEW pc \in {"removing", "uncache"}
  PROVE  GoodJob([r EXCEPT !.pc = pc])
BY DEF GoodJob, Job, Keyed, Packaged, Writing, Removing, Installing

LEMMA RemoveTyped ==
  ASSUME PackagesTyped, NEW j \in PackageJobs, RemoveFiles(j) \/ RemoveRest(j)
  PROVE  PackagesTyped'
<1> DEFINE k == jobs[j].key
           r(pc) == [jobs[j] EXCEPT !.pc = pc]
<1>1. jobs[j].pc \in {"remove", "removing"} /\ GoodJob(jobs[j])
  BY DEF RemoveFiles, RemoveRest, In, PackagesTyped
<1>2. GoodJob(r("removing")) /\ GoodJob(r("uncache"))  BY <1>1, RemovesGood
<1>3. UNCHANGED <<archives, source, staging, tombstones, gate, raced>>  BY DEF RemoveFiles, RemoveRest
<1>4. \/ Goes(j, NoJob) /\ installed' = installed
      \/ /\ k \in DOMAIN installed
         /\ installed' = [installed EXCEPT ![k] = Restrict(installed[k], {"plugin.json"})]
         /\ Goes(j, r("removing"))
      \/ installed' = Forget(installed, k) /\ Goes(j, r("uncache"))
  BY DEF RemoveFiles, RemoveRest
<1> HIDE DEF r
<1>5. CASE Goes(j, NoJob) /\ installed' = installed
  BY <1>3, <1>5, NoJobGood, TypedStep DEF PackagesTyped
<1>6. CASE /\ k \in DOMAIN installed
           /\ installed' = [installed EXCEPT ![k] = Restrict(installed[k], {"plugin.json"})]
           /\ Goes(j, r("removing"))
  <2>1. DOMAIN Restrict(installed[k], {"plugin.json"}) = {"plugin.json"}  BY DEF Restrict
  <2>2. EntryFiles \subseteq AllFiles  BY PackageFacts DEF PackagesTyped
  <2>3. Directories(installed')
    BY <1>6, <2>1, <2>2 DEF PackagesTyped, Directories, EntryFiles
  <2> QED  BY <1>2, <1>3, <1>6, <2>3, TypedStep DEF PackagesTyped
<1>7. CASE installed' = Forget(installed, k) /\ Goes(j, r("uncache"))
  <2>1. Directories(installed')  BY <1>7, ForgetDirectories DEF PackagesTyped
  <2> QED  BY <1>2, <1>3, <1>7, <2>1, TypedStep DEF PackagesTyped
<1> QED  BY <1>4, <1>5, <1>6, <1>7

LEMMA TombstonesTyped ==
  ASSUME PackagesTyped, NEW j \in PackageJobs,
         ReadTombstones(j) \/ NothingToClear(j) \/ WriteTombstones(j)
  PROVE  PackagesTyped'
<1>1. CASE ReadTombstones(j)
  <2> DEFINE r == [jobs[j] EXCEPT !.pc = IF In(j, "uncache") THEN "bury" ELSE "unbury", !.seen = tombstones]
  <2>1. GoodJob(jobs[j]) /\ jobs[j].pc \in {"uncache", "clear"}
    BY <1>1 DEF ReadTombstones, In, PackagesTyped
  <2>2. GoodJob(r)
    <3>1. tombstones \in SUBSET PluginKeys  BY DEF PackagesTyped
    <3>2. CASE jobs[j].pc = "uncache"
      <4>1. r = [jobs[j] EXCEPT !.pc = "bury", !.seen = tombstones]  BY <3>2 DEF In
      <4> QED  BY <2>1, <3>1, <3>2, <4>1 DEF GoodJob, Job, Keyed, Packaged, Writing, Removing, Installing
    <3>3. CASE jobs[j].pc = "clear"
      <4>1. r = [jobs[j] EXCEPT !.pc = "unbury", !.seen = tombstones]  BY <3>3 DEF In
      <4> QED  BY <2>1, <3>1, <3>3, <4>1 DEF GoodJob, Job, Keyed, Packaged, Writing, Removing, Installing
    <3> QED  BY <2>1, <3>2, <3>3
  <2>3. Goes(j, r) /\ UNCHANGED <<archives, source, installed, staging, tombstones, gate>>
        /\ raced' \in BOOLEAN
    BY <1>1 DEF ReadTombstones, PackagesTyped, Others
  <2> HIDE DEF r
  <2> QED  BY <2>2, <2>3, TypedStep DEF PackagesTyped
<1>2. CASE NothingToClear(j)  BY <1>2, NoJobGood, TypedStep DEF NothingToClear, PackagesTyped
<1>3. CASE WriteTombstones(j)
  <2>1. tombstones' \subseteq PluginKeys
    BY <1>3 DEF WriteTombstones, In, PackagesTyped, GoodJob, Job, Keyed, Removing
  <2> QED  BY <1>3, <2>1, NoJobGood, TypedStep DEF WriteTombstones, PackagesTyped
<1> QED  BY <1>1, <1>2, <1>3

LEMMA RestartTyped ==
  ASSUME PackagesTyped, Restart PROVE PackagesTyped'
<1>1. GateKept(NoneOf)
  <2>1. DOMAIN NoneOf = {}  BY DEF NoneOf
  <2>2. IsFiniteSet(DOMAIN NoneOf) /\ Cardinality(DOMAIN NoneOf) = 0  BY <2>1, FS_EmptySet
  <2> QED  BY <2>1, <2>2, LimitIsANumber DEF GateKept
<1>2. NoJob \in Job  BY NoJobGood DEF GoodJob
<1> QED  BY <1>1, <1>2, NoJobGood DEF Restart, PackagesTyped

-----------------------------------------------------------------------------
(* Every step keeps the disk *)

\* The directories in place stay, and none of those being removed is given up.
LEMMA WholeKept ==
  ASSUME PackagesTyped, InstalledWhole, NEW j \in PackageJobs, NEW r, Goes(j, r),
         jobs[j].pc # "removing", installed' = installed, disturbed \subseteq disturbed'
  PROVE  InstalledWhole'
<1>1. SUFFICES ASSUME NEW k \in DOMAIN installed, k \notin disturbed
               PROVE  BeingRemoved(k)' \/ WholePackage(installed[k], k)
  BY DEF InstalledWhole
<1>2. CASE BeingRemoved(k)
  <2>1. PICK i \in PackageJobs : jobs[i].pc = "removing" /\ jobs[i].key = k
    BY <1>2 DEF BeingRemoved, In
  <2>2. jobs'[i] = jobs[i]  BY <2>1, JobGoes
  <2> QED  BY <2>1, <2>2 DEF BeingRemoved, In
<1>3. CASE ~ BeingRemoved(k)  BY <1>1, <1>3 DEF InstalledWhole
<1> QED  BY <1>2, <1>3

\* A job that writes nothing leaves the writers alone.
LEMMA AloneKept ==
  ASSUME PackagesTyped, NEW j \in PackageJobs, NEW r, Goes(j, r), r.pc \notin Writing,
         UNCHANGED <<staging, disturbed>>, NEW i \in PackageJobs, Alone(i)
  PROVE  Alone(i)'
<1>1. CASE i = j  BY <1>1, JobGoes DEF Alone
<1>2. CASE i # j
  <2>1. jobs'[i] = jobs[i]  BY <1>2, JobGoes
  <2>2. \A m \in PackageJobs : WritesTo(jobs'[m], jobs[i].key) => WritesTo(jobs[m], jobs[i].key)
    BY JobGoes DEF WritesTo
  <2> QED  BY <2>1, <2>2 DEF Alone
<1> QED  BY <1>1, <1>2

LEMMA DiskKept ==
  ASSUME PackagesTyped, DiskInv, NEW j \in PackageJobs, NEW r, Goes(j, r), r.pc \notin Writing,
         jobs[j].pc # "removing", UNCHANGED <<installed, staging, disturbed>>
  PROVE  DiskInv'
BY WholeKept, AloneKept DEF DiskInv

\* One staging directory changes: nobody else is at work on it, or it counts as disturbed.
LEMMA StagingStep ==
  ASSUME PackagesTyped, \A i \in PackageJobs : Alone(i), NEW j \in PackageJobs, NEW r, Goes(j, r),
         NEW k, disturbed \subseteq disturbed',
         \A x \in DOMAIN staging : x # k => x \in DOMAIN staging' /\ staging'[x] = staging[x],
         \A i \in PackageJobs \ {j} : WritesTo(jobs[i], k) => k \in disturbed',
         r.pc \in Writing =>
            r.key = k /\ (k \notin disturbed' => k \in DOMAIN staging' /\ Staged(staging'[k], r))
  PROVE  \A i \in PackageJobs : Alone(i)'
<1>1. SUFFICES ASSUME NEW i \in PackageJobs, jobs'[i].pc \in Writing, jobs'[i].key \notin disturbed'
               PROVE  /\ jobs'[i].key \in DOMAIN staging' /\ Staged(staging'[jobs'[i].key], jobs'[i])
                      /\ \A m \in PackageJobs \ {i} : ~ WritesTo(jobs'[m], jobs'[i].key)
  BY DEF Alone
<1>2. CASE i = j
  <2>1. jobs'[i] = r  BY <1>2, JobGoes
  <2>2. \A m \in PackageJobs \ {i} : jobs'[m] = jobs[m]  BY <1>2, JobGoes
  <2> QED  BY <1>1, <1>2, <2>1, <2>2
<1>3. CASE i # j
  <2>1. jobs'[i] = jobs[i] /\ jobs'[j] = r  BY <1>3, JobGoes
  <2>2. jobs[i].key # k /\ jobs[i].key \notin disturbed  BY <1>1, <1>3, <2>1 DEF WritesTo
  <2>3. /\ jobs[i].key \in DOMAIN staging /\ Staged(staging[jobs[i].key], jobs[i])
        /\ \A m \in PackageJobs \ {i} : ~ WritesTo(jobs[m], jobs[i].key)
    BY <1>1, <2>1, <2>2 DEF Alone
  <2>4. jobs[i].key \in DOMAIN staging' /\ staging'[jobs[i].key] = staging[jobs[i].key]
    BY <2>2, <2>3
  <2>5. ~ WritesTo(r, jobs[i].key)  BY <2>2 DEF WritesTo
  <2>6. \A m \in PackageJobs \ {i} : ~ WritesTo(jobs'[m], jobs[i].key)
    <3>1. \A m \in PackageJobs : m # j => jobs'[m] = jobs[m]  BY JobGoes
    <3> QED  BY <2>1, <2>3, <2>5, <3>1
  <2> QED  BY <2>1, <2>3, <2>4, <2>6
<1> QED  BY <1>2, <1>3

LEMMA EndedWritesNothing ==
  ASSUME NEW r, GoodJob(r) PROVE Ended(r).pc \notin Writing
BY EndedGood DEF Writing

LEMMA OpenArchiveDisk ==
  ASSUME PackagesTyped, DiskInv, NEW j \in PackageJobs, OpenArchive(j)
  PROVE  DiskInv'
<1> DEFINE p == jobs[j].pkg
           r == [jobs[j] EXCEPT !.pc = "extract", !.key = p.key, !.todo = p.files]
           c == [jobs[j] EXCEPT !.pc = "clear", !.key = p.key]
<1>1. jobs[j].pc = "open" /\ GoodJob(jobs[j])  BY DEF OpenArchive, In, PackagesTyped
<1>2. jobs[j] \in Job  BY <1>1 DEF GoodJob
<1>3. installed' = installed  BY DEF OpenArchive
<1>4. CASE UNCHANGED <<staging, disturbed>> /\ Ends(j)
  BY <1>1, <1>3, <1>4, EndsIsEnded, EndedWritesNothing, DiskKept
<1>5. CASE UNCHANGED <<staging, disturbed>> /\ Goes(j, c)
  <2>1. c.pc \notin Writing  BY <1>2 DEF Writing, Job
  <2> HIDE DEF c
  <2> QED  BY <1>1, <1>3, <1>5, <2>1, DiskKept
<1>6. CASE /\ staging' = Extended(staging, p.key, << >>)
           /\ disturbed' = disturbed \cup (IF Writers(p.key) = {} THEN {} ELSE {p.key})
           /\ Goes(j, r)
  <2>1. \A i \in PackageJobs \ {j} : WritesTo(jobs[i], p.key) => p.key \in disturbed'
    BY <1>6 DEF Writers, WritesTo, Writing
  <2>2. disturbed \subseteq disturbed'  BY <1>6
  <2>3. InstalledWhole'  BY <1>1, <1>3, <1>6, <2>2, WholeKept DEF DiskInv
  <2>4. /\ DOMAIN staging' = DOMAIN staging \cup {p.key} /\ staging'[p.key] = << >>
        /\ \A x \in DOMAIN staging : x # p.key => staging'[x] = staging[x]
    BY <1>6 DEF Extended
  <2>5. r.pc = "extract" /\ r.key = p.key /\ r.pkg = p /\ r.todo = p.files  BY <1>2 DEF Job
  <2>6. Staged(<< >>, r)
    <3>1. DOMAIN << >> = {}  OBVIOUS
    <3> QED  BY <2>5, <3>1 DEF Staged
  <2> HIDE DEF r, p
  <2> QED  BY <1>6, <2>1, <2>2, <2>3, <2>4, <2>5, <2>6, StagingStep DEF DiskInv
<1> QED  BY <1>4, <1>5, <1>6 DEF OpenArchive, FreshStaging, NoneOf

LEMMA ExtractDisk ==
  ASSUME PackagesTyped, DiskInv, NEW j \in PackageJobs, Extract(j)
  PROVE  DiskInv'
<1> DEFINE p == jobs[j].pkg
           f == Head(jobs[j].todo)
           last == Len(jobs[j].todo) = 1
           r == [jobs[j] EXCEPT !.todo = Tail(jobs[j].todo), !.pc = IF last THEN "verify" ELSE "extract"]
           dir == Extended(At(staging, p.key), f, p)
<1>1. jobs[j].pc = "extract" /\ GoodJob(jobs[j]) /\ jobs[j] \in Job
  BY DEF Extract, In, PackagesTyped, GoodJob
<1>2. jobs[j].key = p.key /\ jobs[j].todo \in Seq(AllFiles) /\ jobs[j].todo # << >>
  BY <1>1 DEF GoodJob, Writing, Job
<1>3. UNCHANGED <<installed, disturbed>>  BY DEF Extract
<1>4. p.key \notin disturbed =>
         /\ p.key \in DOMAIN staging /\ Staged(staging[p.key], jobs[j])
         /\ \A i \in PackageJobs \ {j} : ~ WritesTo(jobs[i], p.key)
  BY <1>1, <1>2 DEF DiskInv, Alone, Writing
<1>5. CASE last /\ ~ p.unpacks
  <2>1. Goes(j, Ended(jobs[j])) /\ staging' = Forget(staging, p.key)
    BY <1>5, EndsIsEnded DEF Extract
  <2>2. \A x \in DOMAIN staging : x # p.key => x \in DOMAIN staging' /\ staging'[x] = staging[x]
    BY <2>1 DEF Forget, Restrict
  <2>3. InstalledWhole'  BY <1>1, <1>3, <2>1, WholeKept DEF DiskInv
  <2>4. Ended(jobs[j]).pc \notin Writing  BY <1>1, EndedWritesNothing
  <2> HIDE DEF p
  <2> QED  BY <1>3, <1>4, <2>1, <2>2, <2>3, <2>4, StagingStep DEF DiskInv
<1>6. CASE ~ (last /\ ~ p.unpacks)
  <2>1. Goes(j, r) /\ staging' = Extended(staging, p.key, dir)  BY <1>6 DEF Extract
  <2>2. InstalledWhole'
    <3> HIDE DEF r, dir
    <3> QED  BY <1>1, <1>3, <2>1, WholeKept DEF DiskInv
  <2>3. /\ DOMAIN staging' = DOMAIN staging \cup {p.key} /\ staging'[p.key] = dir
        /\ \A x \in DOMAIN staging : x # p.key => staging'[x] = staging[x]
    <3> HIDE DEF dir
    <3> QED  BY <2>1 DEF Extended
  <2>4. /\ r.key = p.key /\ r.pkg = p /\ r.todo = Tail(jobs[j].todo)
        /\ r.pc = IF last THEN "verify" ELSE "extract"
    BY <1>1, <1>2 DEF Job
  <2>5. ASSUME p.key \notin disturbed PROVE Staged(dir, r)
    <3>1. At(staging, p.key) = staging[p.key]  BY <1>4, <2>5 DEF At
    <3>2. DOMAIN dir = DOMAIN staging[p.key] \cup {f}
          /\ \A x \in DOMAIN dir : dir[x] = IF x = f THEN p ELSE staging[p.key][x]
      BY <3>1 DEF Extended
    <3>3. \A x \in DOMAIN staging[p.key] : staging[p.key][x] = p  BY <1>4, <2>5 DEF Staged
    <3>4. DOMAIN staging[p.key] \cup Range(jobs[j].todo) = Range(p.files)
      BY <1>1, <1>4, <2>5 DEF Staged
    <3>5. Range(jobs[j].todo) = Range(Tail(jobs[j].todo)) \cup {f} /\ (last => Range(Tail(jobs[j].todo)) = {})
      BY <1>2, NextOfTodo
    <3>6. DOMAIN dir \cup Range(r.todo) = Range(p.files) /\ (last => DOMAIN dir = Range(p.files))
      BY <2>4, <3>2, <3>4, <3>5
    <3>7. \A x \in DOMAIN dir : dir[x] = p  BY <3>2, <3>3
    <3>8. r.pc \in {"verify", "rename"} => last  BY <2>4
    <3>9. r.pc # "rename"  BY <2>4
    <3> HIDE DEF r, dir, p, last
    <3> QED  BY <2>4, <3>6, <3>7, <3>8, <3>9 DEF Staged
  <2> HIDE DEF r, p, dir
  <2> QED  BY <1>3, <1>4, <2>1, <2>2, <2>3, <2>4, <2>5, StagingStep DEF DiskInv
<1> QED  BY <1>5, <1>6

LEMMA VerifyDisk ==
  ASSUME PackagesTyped, DiskInv, NEW j \in PackageJobs, Verify(j)
  PROVE  DiskInv'
<1> DEFINE p == jobs[j].pkg
           r == [jobs[j] EXCEPT !.pc = "rename"]
<1>1. jobs[j].pc = "verify" /\ GoodJob(jobs[j]) /\ jobs[j] \in Job
  BY DEF Verify, In, PackagesTyped, GoodJob
<1>2. jobs[j].key = p.key  BY <1>1 DEF GoodJob, Writing
<1>3. UNCHANGED <<installed, disturbed>>  BY DEF Verify
<1>4. p.key \notin disturbed =>
         /\ p.key \in DOMAIN staging /\ Staged(staging[p.key], jobs[j])
         /\ \A i \in PackageJobs \ {j} : ~ WritesTo(jobs[i], p.key)
  BY <1>1, <1>2 DEF DiskInv, Alone, Writing
<1>5. CASE ~ PayloadsVerified(p, At(staging, p.key))
  <2>1. Goes(j, Ended(jobs[j])) /\ staging' = Forget(staging, p.key)
    BY <1>5, EndsIsEnded DEF Verify
  <2>2. \A x \in DOMAIN staging : x # p.key => x \in DOMAIN staging' /\ staging'[x] = staging[x]
    BY <2>1 DEF Forget, Restrict
  <2>3. InstalledWhole'  BY <1>1, <1>3, <2>1, WholeKept DEF DiskInv
  <2>4. Ended(jobs[j]).pc \notin Writing  BY <1>1, EndedWritesNothing
  <2> HIDE DEF p
  <2> QED  BY <1>3, <1>4, <2>1, <2>2, <2>3, <2>4, StagingStep DEF DiskInv
<1>6. CASE PayloadsVerified(p, At(staging, p.key))
  <2>1. staging' = staging /\ (Goes(j, r) \/ Ends(j))  BY <1>6 DEF Verify
  <2>2. CASE Ends(j)
    BY <1>1, <1>3, <2>1, <2>2, EndsIsEnded, EndedWritesNothing, DiskKept
  <2>3. CASE Goes(j, r)
    <3>1. r.pc = "rename" /\ r.key = p.key /\ r.pkg = p  BY <1>1, <1>2 DEF Job
    <3>2. InstalledWhole'
      <4> HIDE DEF r
      <4> QED  BY <1>1, <1>3, <2>3, WholeKept DEF DiskInv
    <3>3. ASSUME p.key \notin disturbed PROVE Staged(staging[p.key], r)
      <4>1. At(staging, p.key) = staging[p.key]  BY <1>4, <3>3 DEF At
      <4> QED  BY <1>1, <1>4, <1>6, <3>1, <3>3, <4>1 DEF Staged
    <3> HIDE DEF r, p
    <3> QED  BY <1>3, <1>4, <2>1, <2>3, <3>1, <3>2, <3>3, StagingStep DEF DiskInv
  <2> QED  BY <2>1, <2>2, <2>3
<1> QED  BY <1>5, <1>6

LEMMA RenameDisk ==
  ASSUME PackagesTyped, DiskInv, NEW j \in PackageJobs, Rename(j)
  PROVE  DiskInv'
<1> DEFINE p == jobs[j].pkg
           r == [jobs[j] EXCEPT !.pc = "clear"]
<1>1. jobs[j].pc = "rename" /\ GoodJob(jobs[j]) /\ jobs[j] \in Job
  BY DEF Rename, In, PackagesTyped, GoodJob
<1>2. jobs[j].key = p.key /\ p \in Packages /\ SignatureAccepted(p) /\ p.unpacks
  BY <1>1 DEF GoodJob, Writing, Packaged
<1>3. disturbed' = disturbed  BY DEF Rename
<1>4. p.key \notin disturbed =>
         /\ p.key \in DOMAIN staging /\ Staged(staging[p.key], jobs[j])
         /\ \A i \in PackageJobs \ {j} : ~ WritesTo(jobs[i], p.key)
  BY <1>1, <1>2 DEF DiskInv, Alone, Writing
<1>5. CASE UNCHANGED <<installed, staging>> /\ Ends(j)
  BY <1>1, <1>3, <1>5, EndsIsEnded, EndedWritesNothing, DiskKept
<1>6. CASE /\ p.key \in DOMAIN staging /\ p.key \notin DOMAIN installed
           /\ installed' = Extended(installed, p.key, staging[p.key])
           /\ staging' = Forget(staging, p.key)
           /\ Goes(j, r) \/ Ends(j)
  <2>1. PICK q : Goes(j, q) /\ q.pc \notin Writing
    <3>1. r.pc = "clear"  BY <1>1 DEF Job
    <3>2. r.pc \notin Writing  BY <3>1 DEF Writing
    <3> HIDE DEF r
    <3> QED  BY <1>1, <1>6, <3>2, EndsIsEnded, EndedWritesNothing
  <2>2. \A x \in DOMAIN staging : x # p.key => x \in DOMAIN staging' /\ staging'[x] = staging[x]
    BY <1>6 DEF Forget, Restrict
  <2>3. \A i \in PackageJobs : Alone(i)'
    <3> HIDE DEF p, r
    <3> QED  BY <1>3, <1>4, <2>1, <2>2, StagingStep DEF DiskInv
  <2>4. InstalledWhole'
    <3>1. SUFFICES ASSUME NEW k \in DOMAIN installed', k \notin disturbed
                   PROVE  BeingRemoved(k)' \/ WholePackage(installed'[k], k)
      BY <1>3 DEF InstalledWhole
    <3>2. CASE k = p.key
      <4>1. installed'[k] = staging[p.key]  BY <1>6, <3>2 DEF Extended
      <4>2. /\ \A f \in DOMAIN staging[p.key] : staging[p.key][f] = p
            /\ DOMAIN staging[p.key] = Range(p.files) /\ PayloadsVerified(p, staging[p.key])
        BY <1>1, <1>4, <3>1, <3>2 DEF Staged
      <4>3. "entry" \in DOMAIN staging[p.key]  BY <1>2, <4>2, PackageFacts DEF EntryFiles
      <4>4. Range(staging[p.key]) = {p}  BY <4>2, <4>3 DEF Range
      <4> HIDE DEF p
      <4> QED  BY <1>2, <3>2, <4>1, <4>2, <4>4 DEF WholePackage
    <3>3. CASE k # p.key
      <4>1. k \in DOMAIN installed /\ installed'[k] = installed[k]  BY <1>6, <3>1, <3>3 DEF Extended
      <4>2. BeingRemoved(k) \/ WholePackage(installed[k], k)
        BY <3>1, <4>1 DEF DiskInv, InstalledWhole
      <4>3. BeingRemoved(k) => BeingRemoved(k)'
        <5>1. \A i \in PackageJobs : jobs[i].pc = "removing" => jobs'[i] = jobs[i]
          BY <1>1, <2>1, JobGoes
        <5> QED  BY <5>1 DEF BeingRemoved, In
      <4> QED  BY <4>1, <4>2, <4>3
    <3> QED  BY <3>2, <3>3
  <2> QED  BY <2>3, <2>4 DEF DiskInv
<1> QED  BY <1>5, <1>6 DEF Rename

LEMMA RemoveDisk ==
  ASSUME PackagesTyped, DiskInv, NEW j \in PackageJobs, RemoveFiles(j) \/ RemoveRest(j)
  PROVE  DiskInv'
<1> DEFINE k == jobs[j].key
           r(pc) == [jobs[j] EXCEPT !.pc = pc]
<1>1. jobs[j].pc \in {"remove", "removing"} /\ jobs[j] \in Job
  BY DEF RemoveFiles, RemoveRest, In, PackagesTyped, GoodJob
<1>2. r("removing").pc = "removing" /\ r("removing").key = k /\ r("uncache").pc = "uncache"
  BY <1>1 DEF Job
<1>3. UNCHANGED <<staging, disturbed>>  BY DEF RemoveFiles, RemoveRest
<1>4. \/ Goes(j, NoJob) /\ installed' = installed /\ jobs[j].pc = "remove"
      \/ /\ k \in DOMAIN installed /\ jobs[j].pc = "remove"
         /\ installed' = [installed EXCEPT ![k] = Restrict(installed[k], {"plugin.json"})]
         /\ Goes(j, r("removing"))
      \/ installed' = Forget(installed, k) /\ Goes(j, r("uncache"))
  BY DEF RemoveFiles, RemoveRest, In
<1> HIDE DEF r
<1>5. CASE Goes(j, NoJob) /\ installed' = installed /\ jobs[j].pc = "remove"
  <2>1. NoJob.pc \notin Writing  BY DEF NoJob, Writing
  <2> QED  BY <1>3, <1>5, <2>1, DiskKept
<1>6. CASE /\ k \in DOMAIN installed /\ jobs[j].pc = "remove"
           /\ installed' = [installed EXCEPT ![k] = Restrict(installed[k], {"plugin.json"})]
           /\ Goes(j, r("removing"))
  <2>1. r("removing").pc \notin Writing  BY <1>2 DEF Writing
  <2>2. \A i \in PackageJobs : Alone(i)'  BY <1>3, <1>6, <2>1, AloneKept DEF DiskInv
  <2>3. ASSUME NEW x, x = k PROVE BeingRemoved(x)'
    BY <1>2, <1>6, <2>3, JobGoes DEF BeingRemoved, In
  <2>4. \A x : BeingRemoved(x) => BeingRemoved(x)'
    <3>1. \A i \in PackageJobs : jobs[i].pc = "removing" => jobs'[i] = jobs[i]  BY <1>6, JobGoes
    <3> QED  BY <3>1 DEF BeingRemoved, In
  <2>5. InstalledWhole'
    <3>1. SUFFICES ASSUME NEW x \in DOMAIN installed', x \notin disturbed
                   PROVE  BeingRemoved(x)' \/ WholePackage(installed'[x], x)
      BY <1>3 DEF InstalledWhole
    <3>2. x \in DOMAIN installed /\ (x # k => installed'[x] = installed[x])  BY <1>6, <3>1
    <3>3. CASE x = k  BY <2>3, <3>3
    <3>4. CASE x # k
      <4>1. BeingRemoved(x) \/ WholePackage(installed[x], x)  BY <3>1, <3>2 DEF DiskInv, InstalledWhole
      <4> QED  BY <2>4, <3>2, <3>4, <4>1
    <3> QED  BY <3>3, <3>4
  <2> QED  BY <2>2, <2>5 DEF DiskInv
<1>7. CASE installed' = Forget(installed, k) /\ Goes(j, r("uncache"))
  <2>1. r("uncache").pc \notin Writing  BY <1>2 DEF Writing
  <2>2. \A i \in PackageJobs : Alone(i)'  BY <1>3, <1>7, <2>1, AloneKept DEF DiskInv
  <2>3. \A x : x # k /\ BeingRemoved(x) => BeingRemoved(x)'
    <3>1. \A i \in PackageJobs : jobs[i].key # k => jobs'[i] = jobs[i]  BY <1>7, JobGoes
    <3> QED  BY <3>1 DEF BeingRemoved, In
  <2>4. InstalledWhole'
    <3>1. SUFFICES ASSUME NEW x \in DOMAIN installed', x \notin disturbed
                   PROVE  BeingRemoved(x)' \/ WholePackage(installed'[x], x)
      BY <1>3 DEF InstalledWhole
    <3>2. x \in DOMAIN installed \ {k} /\ installed'[x] = installed[x]  BY <1>7, <3>1, ForgetFacts
    <3> QED  BY <2>3, <3>1, <3>2 DEF DiskInv, InstalledWhole
  <2> QED  BY <2>2, <2>4 DEF DiskInv
<1> QED  BY <1>4, <1>5, <1>6, <1>7

LEMMA RestartDisk ==
  ASSUME PackagesTyped, DiskInv, Restart PROVE DiskInv'
<1>1. \A i \in PackageJobs : jobs'[i] = NoJob  BY DEF Restart
<1>2. \A i \in PackageJobs : Alone(i)'  BY <1>1 DEF Alone, NoJob, Writing
<1>3. \A k : BeingRemoved(k) => k \in disturbed'  BY DEF Restart, BeingRemoved, In
<1>4. installed' = installed /\ disturbed \subseteq disturbed'  BY DEF Restart
<1>5. InstalledWhole'  BY <1>3, <1>4 DEF DiskInv, InstalledWhole
<1> QED  BY <1>2, <1>5 DEF DiskInv

-----------------------------------------------------------------------------
(* As long as nothing crossed on the tombstones *)

\* One job goes on beside the others; nothing is installed, and the tombstones stay.
LEMMA UncrossedStep ==
  ASSUME PackagesTyped, Uncrossed, NEW j \in PackageJobs, NEW r, Goes(j, r),
         tombstones' = tombstones, gone' \subseteq gone,
         DOMAIN installed' \subseteq DOMAIN installed,
         r.pc \in Removing => \A i \in PackageJobs \ {j} : jobs[i].pc \notin Installing,
         r.pc \in Installing => \A i \in PackageJobs \ {j} : jobs[i].pc \notin Removing,
         r.pc \in Burying =>
            r.seen = tombstones /\ \A i \in PackageJobs \ {j} : jobs[i].pc \notin Burying,
         NotGone(r, DOMAIN installed', gone')
  PROVE  Uncrossed'
<1>1. jobs'[j] = r /\ \A i \in PackageJobs : i # j => jobs'[i] = jobs[i]  BY JobGoes
<1>2. \A i, m \in PackageJobs : Apart(jobs'[i], jobs'[m])
  <2>1. ~ (r.pc \in Removing /\ r.pc \in Installing)  BY DEF Removing, Installing
  <2>2. SUFFICES ASSUME NEW i \in PackageJobs, NEW m \in PackageJobs PROVE Apart(jobs'[i], jobs'[m])
    OBVIOUS
  <2>3. Apart(jobs[i], jobs[m])  BY DEF Uncrossed
  <2> QED  BY <1>1, <2>1, <2>3 DEF Apart
<1>3. OneBuries'  BY <1>1 DEF OneBuries, Uncrossed
<1>4. \A i \in PackageJobs : NotGone(jobs'[i], DOMAIN installed', gone')
  <2>1. SUFFICES ASSUME NEW i \in PackageJobs, i # j PROVE NotGone(jobs[i], DOMAIN installed', gone')
    BY <1>1
  <2>2. NotGone(jobs[i], DOMAIN installed, gone)  BY DEF Uncrossed
  <2> QED  BY <2>2 DEF NotGone
<1>5. \A k \in gone' : k \in tombstones' /\ k \notin DOMAIN installed'  BY DEF Uncrossed
<1> QED  BY <1>2, <1>3, <1>4, <1>5 DEF Uncrossed

\* The others of an installation, and those of a removal.
LEMMA BesideInstalling ==
  ASSUME Uncrossed, NEW j \in PackageJobs, jobs[j].pc \in Installing, NEW i \in PackageJobs
  PROVE  jobs[i].pc \notin Removing
BY DEF Uncrossed, Apart

LEMMA BesideRemoving ==
  ASSUME Uncrossed, NEW j \in PackageJobs, jobs[j].pc \in Removing, NEW i \in PackageJobs
  PROVE  jobs[i].pc \notin Installing
BY DEF Uncrossed, Apart

\* What ends, and what an installation has left to do, bothers nobody.
LEMMA NothingLeft ==
  ASSUME PackagesTyped, NEW j \in PackageJobs, NEW there
  PROVE  NotGone(NoJob, there, gone) /\ NoJob.pc \notin Removing \cup Installing
BY DEF NotGone, NoJob, Packaged, Writing, Removing, Installing

LEMMA EndsUncrossed ==
  ASSUME PackagesTyped, Uncrossed, NEW j \in PackageJobs, jobs[j].pc \in Installing, Ends(j),
         UNCHANGED <<tombstones, gone, installed>>
  PROVE  Uncrossed'
<1> DEFINE r == Ended(jobs[j])
<1>1. GoodJob(jobs[j])  BY DEF PackagesTyped
<1>2. r.pc \in {"idle", "discover"}
      /\ (r.pc = "discover" => ~ jobs[j].explicit /\ ~ r.explicit /\ r.seen = jobs[j].seen)
  BY <1>1, EndedGood
<1>3. Goes(j, r)  BY EndsIsEnded
<1>4. NotGone(jobs[j], DOMAIN installed, gone)  BY DEF Uncrossed
<1> HIDE DEF r
<1>5. NotGone(r, DOMAIN installed, gone)
  BY <1>2, <1>4 DEF NotGone, Installing, Packaged, Writing
<1>6. r.pc \notin Removing /\ r.pc \notin Burying  BY <1>2 DEF Removing, Burying
<1> QED  BY <1>3, <1>5, <1>6, BesideInstalling, UncrossedStep

\* An installation goes on with its package.
LEMMA GoesOnUncrossed ==
  ASSUME PackagesTyped, Uncrossed, NEW j \in PackageJobs, NEW r, Goes(j, r),
         jobs[j].pc \in Installing, r.pc \in Installing \ Burying,
         NotGone(r, DOMAIN installed, gone'), gone' \subseteq gone,
         UNCHANGED <<tombstones, installed>>
  PROVE  Uncrossed'
<1>1. r.pc \notin Removing  BY DEF Removing, Installing, Burying
<1> QED  BY <1>1, BesideInstalling, UncrossedStep

LEMMA InstallGateUncrossed ==
  ASSUME PackagesTyped, NEW j \in PackageJobs, NEW p \in Packages, NEW external \in BOOLEAN,
         InstallGate(j, p, external), ~ raced', Uncrossed
  PROVE  Uncrossed'
<1> DEFINE r == [NoJob EXCEPT !.pc = IF external THEN "resolve" ELSE "open", !.pkg = p, !.explicit = TRUE]
<1>1. UNCHANGED <<tombstones, installed>> /\ ~ Others(j, Removing)  BY DEF InstallGate
<1>2. CASE GatePasses(p)
  <2>1. Goes(j, r) /\ gone' = gone \ {p.key}  BY <1>2 DEF InstallGate
  <2>2. r.pc \in {"resolve", "open"} /\ r.explicit /\ r.pkg = p  BY DEF NoJob
  <2> HIDE DEF r
  <2>3. NotGone(r, DOMAIN installed', gone')  BY <2>1, <2>2 DEF NotGone, Installing, Packaged, Writing
  <2>4. r.pc \notin Removing /\ r.pc \notin Burying  BY <2>2 DEF Removing, Burying
  <2>5. \A i \in PackageJobs \ {j} : jobs[i].pc \notin Removing  BY <1>1 DEF Others
  <2> QED  BY <1>1, <2>1, <2>3, <2>4, <2>5, UncrossedStep
<1>3. CASE ~ GatePasses(p)
  <2>1. UNCHANGED <<jobs, gone>>  BY <1>3 DEF InstallGate
  <2> QED  BY <1>1, <2>1 DEF Uncrossed, OneBuries
<1> QED  BY <1>2, <1>3

LEMMA InstallResolveUncrossed ==
  ASSUME PackagesTyped, NEW j \in PackageJobs, InstallResolve(j), Uncrossed
  PROVE  Uncrossed'
<1> DEFINE r == [jobs[j] EXCEPT !.pc = "open", !.pkg = source]
<1>1. GoodJob(jobs[j]) /\ jobs[j].pc = "resolve"  BY DEF InstallResolve, In, PackagesTyped
<1>2. jobs[j].explicit  BY <1>1 DEF GoodJob
<1>3. r.pc = "open" /\ r.pkg = source /\ r.explicit  BY <1>1, <1>2 DEF GoodJob, Job
<1>4. Goes(j, r) /\ gone' = gone \ {source.key} /\ UNCHANGED <<tombstones, installed>>
  BY DEF InstallResolve
<1> HIDE DEF r
<1>5. NotGone(r, DOMAIN installed, gone')  BY <1>3, <1>4 DEF NotGone
<1>6. jobs[j].pc \in Installing /\ r.pc \in Installing \ Burying  BY <1>1, <1>3 DEF Installing, Burying
<1> QED  BY <1>4, <1>5, <1>6, GoesOnUncrossed

LEMMA DiscoverUncrossed ==
  ASSUME PackagesTyped, NEW j \in PackageJobs, Discover(j), ~ raced', Uncrossed
  PROVE  Uncrossed'
<1> DEFINE r == [NoJob EXCEPT !.pc = "discover", !.seen = tombstones, !.pending = archives]
<1>1. UNCHANGED <<tombstones, installed, gone>> /\ ~ Others(j, Removing) /\ Goes(j, r)  BY DEF Discover
<1>2. r.pc = "discover" /\ r.seen = tombstones  BY DEF NoJob
<1> HIDE DEF r
<1>3. gone \subseteq tombstones  BY DEF Uncrossed
<1>4. NotGone(r, DOMAIN installed', gone')  BY <1>1, <1>2, <1>3 DEF NotGone, Packaged, Writing
<1>5. r.pc \notin Removing /\ r.pc \notin Burying  BY <1>2 DEF Removing, Burying
<1>6. \A i \in PackageJobs \ {j} : jobs[i].pc \notin Removing  BY <1>1 DEF Others
<1> QED  BY <1>1, <1>4, <1>5, <1>6, UncrossedStep

LEMMA DiscoverNextUncrossed ==
  ASSUME PackagesTyped, NEW j \in PackageJobs, NEW p \in Packages, DiscoverNext(j, p), Uncrossed
  PROVE  Uncrossed'
<1> DEFINE rest == [jobs[j] EXCEPT !.pending = @ \ {p}]
           r == [rest EXCEPT !.pc = "open", !.pkg = p]
<1>1. GoodJob(jobs[j]) /\ jobs[j].pc = "discover"  BY DEF DiscoverNext, In, PackagesTyped
<1>2. ~ jobs[j].explicit  BY <1>1 DEF GoodJob
<1>3. /\ rest.pc = "discover" /\ ~ rest.explicit /\ rest.seen = jobs[j].seen
      /\ r.pc = "open" /\ ~ r.explicit /\ r.seen = jobs[j].seen /\ r.pkg = p
  BY <1>1, <1>2 DEF GoodJob, Job
<1>4. /\ Goes(j, rest) \/ (p.key \notin jobs[j].seen /\ Goes(j, r))
      /\ UNCHANGED <<tombstones, installed, gone>>
  BY DEF DiscoverNext
<1>5. gone \subseteq jobs[j].seen
  <2>1. NotGone(jobs[j], DOMAIN installed, gone)  BY DEF Uncrossed
  <2> QED  BY <1>1, <1>2, <2>1 DEF NotGone, Installing
<1> HIDE DEF r, rest
<1>6. NotGone(rest, DOMAIN installed, gone)  BY <1>3, <1>5 DEF NotGone, Packaged, Writing
<1>7. p.key \notin jobs[j].seen => NotGone(r, DOMAIN installed, gone)  BY <1>3, <1>5 DEF NotGone
<1>8. jobs[j].pc \in Installing /\ rest.pc \in Installing \ Burying /\ r.pc \in Installing \ Burying
  BY <1>1, <1>3 DEF Installing, Burying
<1> QED  BY <1>4, <1>6, <1>7, <1>8, GoesOnUncrossed

LEMMA EndsOfUncrossed ==
  ASSUME PackagesTyped, NEW j \in PackageJobs, DiscoverEnd(j) \/ NothingToClear(j), Uncrossed
  PROVE  Uncrossed'
<1>1. Goes(j, NoJob) /\ UNCHANGED <<tombstones, installed, gone>>  BY DEF DiscoverEnd, NothingToClear
<1>2. NoJob.pc \notin Burying  BY DEF NoJob, Burying
<1> QED  BY <1>1, <1>2, NothingLeft, UncrossedStep

LEMMA OpenArchiveUncrossed ==
  ASSUME PackagesTyped, NEW j \in PackageJobs, OpenArchive(j), Uncrossed
  PROVE  Uncrossed'
<1> DEFINE p == jobs[j].pkg
           r == [jobs[j] EXCEPT !.pc = "extract", !.key = p.key, !.todo = p.files]
           c == [jobs[j] EXCEPT !.pc = "clear", !.key = p.key]
<1>1. GoodJob(jobs[j]) /\ jobs[j].pc = "open" /\ jobs[j] \in Job
  BY DEF OpenArchive, In, PackagesTyped, GoodJob
<1>2. jobs[j].pc \in Installing  BY <1>1 DEF Installing
<1>3. UNCHANGED <<tombstones, installed, gone>>  BY DEF OpenArchive
<1>4. NotGone(jobs[j], DOMAIN installed, gone)  BY DEF Uncrossed
<1>5. /\ r.pc = "extract" /\ r.pkg = p /\ r.explicit = jobs[j].explicit /\ r.seen = jobs[j].seen
      /\ c.pc = "clear" /\ c.key = p.key /\ c.explicit = jobs[j].explicit
  BY <1>1 DEF Job
<1>6. Ends(j) \/ Goes(j, r) \/ (jobs[j].explicit /\ Goes(j, c))  BY DEF OpenArchive
<1> HIDE DEF r, c
<1>7. NotGone(r, DOMAIN installed, gone)
  BY <1>1, <1>4, <1>5 DEF NotGone, Packaged, Writing, Installing
<1>8. jobs[j].explicit => NotGone(c, DOMAIN installed, gone)
  BY <1>1, <1>4, <1>5 DEF NotGone, Packaged, Writing, Installing
<1>9. r.pc \in Installing \ Burying /\ c.pc \in Installing \ Burying  BY <1>5 DEF Installing, Burying
<1> QED  BY <1>2, <1>3, <1>6, <1>7, <1>8, <1>9, EndsUncrossed, GoesOnUncrossed

LEMMA ExtractUncrossed ==
  ASSUME PackagesTyped, NEW j \in PackageJobs, Extract(j), Uncrossed
  PROVE  Uncrossed'
<1> DEFINE r == [jobs[j] EXCEPT !.todo = Tail(@),
                                !.pc = IF Len(jobs[j].todo) = 1 THEN "verify" ELSE "extract"]
<1>1. jobs[j].pc = "extract" /\ jobs[j] \in Job  BY DEF Extract, In, PackagesTyped, GoodJob
<1>2. jobs[j].pc \in Installing  BY <1>1 DEF Installing
<1>3. UNCHANGED <<tombstones, installed, gone>> /\ (Ends(j) \/ Goes(j, r))  BY DEF Extract
<1>4. NotGone(jobs[j], DOMAIN installed, gone)  BY DEF Uncrossed
<1>5. /\ r.pc \in {"verify", "extract"} /\ r.pkg = jobs[j].pkg
      /\ r.explicit = jobs[j].explicit /\ r.seen = jobs[j].seen
  BY <1>1 DEF Job
<1> HIDE DEF r
<1>6. NotGone(r, DOMAIN installed, gone)
  BY <1>1, <1>4, <1>5 DEF NotGone, Packaged, Writing, Installing
<1>7. r.pc \in Installing \ Burying  BY <1>5 DEF Installing, Burying
<1> QED  BY <1>2, <1>3, <1>6, <1>7, EndsUncrossed, GoesOnUncrossed

LEMMA VerifyUncrossed ==
  ASSUME PackagesTyped, NEW j \in PackageJobs, Verify(j), Uncrossed
  PROVE  Uncrossed'
<1> DEFINE r == [jobs[j] EXCEPT !.pc = "rename"]
<1>1. jobs[j].pc = "verify" /\ jobs[j] \in Job  BY DEF Verify, In, PackagesTyped, GoodJob
<1>2. jobs[j].pc \in Installing  BY <1>1 DEF Installing
<1>3. UNCHANGED <<tombstones, installed, gone>> /\ (Ends(j) \/ Goes(j, r))  BY DEF Verify
<1>4. NotGone(jobs[j], DOMAIN installed, gone)  BY DEF Uncrossed
<1>5. /\ r.pc = "rename" /\ r.pkg = jobs[j].pkg
      /\ r.explicit = jobs[j].explicit /\ r.seen = jobs[j].seen
  BY <1>1 DEF Job
<1> HIDE DEF r
<1>6. NotGone(r, DOMAIN installed, gone)
  BY <1>1, <1>4, <1>5 DEF NotGone, Packaged, Writing, Installing
<1>7. r.pc \in Installing \ Burying  BY <1>5 DEF Installing, Burying
<1> QED  BY <1>2, <1>3, <1>6, <1>7, EndsUncrossed, GoesOnUncrossed

\* What is installed was not removed by the user.
LEMMA RenameUncrossed ==
  ASSUME PackagesTyped, NEW j \in PackageJobs, Rename(j), Uncrossed
  PROVE  Uncrossed'
<1> DEFINE p == jobs[j].pkg
           c == [jobs[j] EXCEPT !.pc = "clear"]
<1>1. GoodJob(jobs[j]) /\ jobs[j].pc = "rename" /\ jobs[j] \in Job
  BY DEF Rename, In, PackagesTyped, GoodJob
<1>2. jobs[j].pc \in Installing /\ jobs[j].key = p.key  BY <1>1 DEF Installing, GoodJob, Writing
<1>3. UNCHANGED <<tombstones, gone>>  BY DEF Rename
<1>4. NotGone(jobs[j], DOMAIN installed, gone)  BY DEF Uncrossed
<1>5. CASE Ends(j) /\ UNCHANGED installed  BY <1>2, <1>3, <1>5, EndsUncrossed
<1>6. CASE /\ installed' = Extended(installed, p.key, staging[p.key])
           /\ (jobs[j].explicit /\ Goes(j, c)) \/ Ends(j)
  <2> DEFINE D == DOMAIN installed \cup {p.key}
  <2>1. DOMAIN installed' = D  BY <1>6 DEF Extended
  <2>2. p.key \notin gone
    BY <1>1, <1>4 DEF NotGone, Packaged, Writing, Installing
  <2>3. /\ c.pc = "clear" /\ c.key = p.key /\ c.explicit = jobs[j].explicit
    BY <1>1, <1>2 DEF Job
  <2>4. PICK r : /\ Goes(j, r) /\ NotGone(r, D, gone)
                 /\ r.pc \in {"idle", "discover", "clear"}
    <3>1. CASE jobs[j].explicit /\ Goes(j, c)
      <4>1. NotGone(c, D, gone)
        BY <2>2, <2>3, <3>1 DEF NotGone, Packaged, Writing, Installing
      <4> HIDE DEF c
      <4> QED  BY <2>3, <3>1, <4>1
    <3>2. CASE Ends(j)
      <4>1. Ended(jobs[j]).pc \in {"idle", "discover"}
            /\ (Ended(jobs[j]).pc = "discover" =>
                  ~ jobs[j].explicit /\ ~ Ended(jobs[j]).explicit /\ Ended(jobs[j]).seen = jobs[j].seen)
        BY <1>1, EndedGood
      <4>2. NotGone(Ended(jobs[j]), D, gone)
        BY <1>2, <1>4, <4>1 DEF NotGone, Packaged, Writing, Installing
      <4> QED  BY <3>2, <4>1, <4>2, EndsIsEnded
    <3> QED  BY <1>6, <3>1, <3>2
  <2>5. jobs'[j] = r /\ \A i \in PackageJobs : i # j => jobs'[i] = jobs[i]  BY <2>4, JobGoes
  <2>6. r.pc \notin Removing /\ r.pc \notin Burying  BY <2>4 DEF Removing, Burying
  <2>7. \A i \in PackageJobs : jobs[i].pc \notin Removing /\ jobs'[i].pc \notin Removing
    BY <1>2, <2>5, <2>6, BesideInstalling
  <2>8. \A i, m \in PackageJobs : Apart(jobs'[i], jobs'[m])  BY <2>7 DEF Apart
  <2>9. OneBuries'  BY <1>3, <2>5, <2>6 DEF OneBuries, Uncrossed
  <2>10. \A i \in PackageJobs : NotGone(jobs'[i], D, gone)
    <3>1. SUFFICES ASSUME NEW i \in PackageJobs, i # j PROVE NotGone(jobs[i], D, gone)
      BY <2>4, <2>5
    <3>2. NotGone(jobs[i], DOMAIN installed, gone)  BY DEF Uncrossed
    <3>3. jobs[i].pc \notin {"uncache", "bury"}  BY <2>7 DEF Removing
    <3> QED  BY <3>2, <3>3 DEF NotGone
  <2>11. \A k \in gone : k \in tombstones /\ k \notin D  BY <2>2 DEF Uncrossed
  <2> QED  BY <1>3, <2>1, <2>8, <2>9, <2>10, <2>11 DEF Uncrossed
<1> QED  BY <1>5, <1>6 DEF Rename

LEMMA UninstallUncrossed ==
  ASSUME PackagesTyped, NEW j \in PackageJobs, NEW k \in PluginKeys, Uninstall(j, k), ~ raced',
         Uncrossed
  PROVE  Uncrossed'
<1> DEFINE r == [NoJob EXCEPT !.pc = "remove", !.key = k]
<1>1. UNCHANGED <<tombstones, installed, gone>> /\ ~ Others(j, Installing) /\ Goes(j, r)  BY DEF Uninstall
<1>2. r.pc = "remove"  BY DEF NoJob
<1> HIDE DEF r
<1>3. NotGone(r, DOMAIN installed', gone')  BY <1>2 DEF NotGone, Packaged, Writing, Installing
<1>4. r.pc \notin Installing /\ r.pc \notin Burying  BY <1>2 DEF Installing, Burying
<1>5. \A i \in PackageJobs \ {j} : jobs[i].pc \notin Installing  BY <1>1 DEF Others
<1> QED  BY <1>1, <1>3, <1>4, <1>5, UncrossedStep

LEMMA RemoveUncrossed ==
  ASSUME PackagesTyped, NEW j \in PackageJobs, RemoveFiles(j) \/ RemoveRest(j), Uncrossed
  PROVE  Uncrossed'
<1> DEFINE k == jobs[j].key
           r(pc) == [jobs[j] EXCEPT !.pc = pc]
<1>1. jobs[j].pc \in {"remove", "removing"} /\ jobs[j] \in Job
  BY DEF RemoveFiles, RemoveRest, In, PackagesTyped, GoodJob
<1>2. jobs[j].pc \in Removing  BY <1>1 DEF Removing
<1>3. /\ r("removing").pc = "removing" /\ r("uncache").pc = "uncache" /\ r("uncache").key = k
  BY <1>1 DEF Job
<1>4. UNCHANGED <<tombstones, gone>>  BY DEF RemoveFiles, RemoveRest
<1>5. \/ Goes(j, NoJob) /\ installed' = installed
      \/ /\ installed' = [installed EXCEPT ![k] = Restrict(installed[k], {"plugin.json"})]
         /\ Goes(j, r("removing"))
      \/ installed' = Forget(installed, k) /\ Goes(j, r("uncache"))
  BY DEF RemoveFiles, RemoveRest, In
<1> HIDE DEF r
<1>6. CASE Goes(j, NoJob) /\ installed' = installed
  <2>1. NoJob.pc \notin Burying  BY DEF NoJob, Burying
  <2> QED  BY <1>4, <1>6, <2>1, NothingLeft, UncrossedStep
<1>7. CASE /\ installed' = [installed EXCEPT ![k] = Restrict(installed[k], {"plugin.json"})]
           /\ Goes(j, r("removing"))
  <2>1. DOMAIN installed' = DOMAIN installed  BY <1>7
  <2>2. NotGone(r("removing"), DOMAIN installed', gone')
    BY <1>3 DEF NotGone, Packaged, Writing, Installing
  <2>3. r("removing").pc \notin Burying /\ r("removing").pc \notin Installing
    BY <1>3 DEF Installing, Burying
  <2> QED  BY <1>2, <1>4, <1>7, <2>1, <2>2, <2>3, BesideRemoving, UncrossedStep
<1>8. CASE installed' = Forget(installed, k) /\ Goes(j, r("uncache"))
  <2>1. DOMAIN installed' = DOMAIN installed \ {k}  BY <1>8 DEF Forget, Restrict
  <2>2. NotGone(r("uncache"), DOMAIN installed', gone')
    BY <1>3, <2>1 DEF NotGone, Packaged, Writing, Installing
  <2>3. r("uncache").pc \notin Burying /\ r("uncache").pc \notin Installing
    BY <1>3 DEF Installing, Burying
  <2> QED  BY <1>2, <1>4, <1>8, <2>1, <2>2, <2>3, BesideRemoving, UncrossedStep
<1> QED  BY <1>5, <1>6, <1>7, <1>8

LEMMA ReadTombstonesUncrossed ==
  ASSUME PackagesTyped, NEW j \in PackageJobs, ReadTombstones(j), ~ raced', Uncrossed
  PROVE  Uncrossed'
<1> DEFINE r == [jobs[j] EXCEPT !.pc = IF In(j, "uncache") THEN "bury" ELSE "unbury", !.seen = tombstones]
<1>1. GoodJob(jobs[j]) /\ jobs[j] \in Job /\ jobs[j].pc \in {"uncache", "clear"}
  BY DEF ReadTombstones, In, PackagesTyped, GoodJob
<1>2. /\ Goes(j, r) /\ UNCHANGED <<tombstones, installed, gone>>
      /\ \A i \in PackageJobs \ {j} : jobs[i].pc \notin Burying
  BY DEF ReadTombstones, Others, Burying
<1>3. NotGone(jobs[j], DOMAIN installed, gone)  BY DEF Uncrossed
<1>4. /\ r.pc = IF jobs[j].pc = "uncache" THEN "bury" ELSE "unbury"
      /\ r.key = jobs[j].key /\ r.seen = tombstones /\ r.explicit = jobs[j].explicit
  BY <1>1 DEF Job, In
<1>5. jobs[j].pc = "clear" => jobs[j].explicit  BY <1>1 DEF GoodJob
<1> HIDE DEF r
<1>6. CASE jobs[j].pc = "uncache"
  <2>1. r.pc = "bury" /\ jobs[j].pc \in Removing /\ r.pc \notin Installing
    BY <1>4, <1>6 DEF Removing, Installing
  <2>2. NotGone(r, DOMAIN installed', gone')
    BY <1>2, <1>3, <1>4, <1>6, <2>1 DEF NotGone, Packaged, Writing, Installing
  <2> QED  BY <1>2, <1>4, <2>1, <2>2, BesideRemoving, UncrossedStep
<1>7. CASE jobs[j].pc = "clear"
  <2>1. r.pc = "unbury" /\ jobs[j].pc \in Installing /\ r.pc \notin Removing
    BY <1>4, <1>7 DEF Removing, Installing
  <2>2. NotGone(r, DOMAIN installed', gone')
    BY <1>2, <1>3, <1>4, <1>5, <1>7, <2>1 DEF NotGone, Packaged, Writing, Installing
  <2> QED  BY <1>2, <1>4, <2>1, <2>2, BesideInstalling, UncrossedStep
<1> QED  BY <1>1, <1>6, <1>7

\* The list that is written back is the one that was read, and nobody read it since.
LEMMA WriteTombstonesUncrossed ==
  ASSUME PackagesTyped, NEW j \in PackageJobs, WriteTombstones(j), Uncrossed
  PROVE  Uncrossed'
<1> DEFINE k == jobs[j].key
<1>1. jobs[j].pc \in Burying /\ Goes(j, NoJob) /\ installed' = installed
  BY DEF WriteTombstones, In, Burying
<1>2. jobs[j].seen = tombstones /\ \A i \in PackageJobs \ {j} : jobs[i].pc \notin Burying
  BY <1>1 DEF Uncrossed, OneBuries
<1>3. NotGone(jobs[j], DOMAIN installed, gone)  BY DEF Uncrossed
<1>4. jobs'[j] = NoJob /\ \A i \in PackageJobs : i # j => jobs'[i] = jobs[i]  BY <1>1, JobGoes
<1>5. NoJob.pc \notin Removing \cup Installing /\ NoJob.pc \notin Burying
  BY DEF NoJob, Removing, Installing, Burying
<1>6. \A i, m \in PackageJobs : Apart(jobs'[i], jobs'[m])
  <2>1. SUFFICES ASSUME NEW i \in PackageJobs, NEW m \in PackageJobs PROVE Apart(jobs'[i], jobs'[m])
    OBVIOUS
  <2>2. Apart(jobs[i], jobs[m])  BY DEF Uncrossed
  <2> QED  BY <1>4, <1>5, <2>2 DEF Apart
<1>7. OneBuries'
  <2>1. \A i \in PackageJobs : jobs'[i].pc \notin Burying  BY <1>2, <1>4, <1>5
  <2> QED  BY <2>1 DEF OneBuries
<1>8. CASE jobs[j].pc = "bury"
  <2>1. tombstones' = tombstones \cup {k} /\ gone' = gone \cup {k}
    BY <1>2, <1>8 DEF WriteTombstones, In
  <2>2. k \notin DOMAIN installed  BY <1>3, <1>8 DEF NotGone
  <2>3. \A x \in gone' : x \in tombstones' /\ x \notin DOMAIN installed'
    BY <1>1, <2>1, <2>2 DEF Uncrossed
  <2>4. \A i \in PackageJobs : NotGone(jobs'[i], DOMAIN installed', gone')
    <3>1. SUFFICES ASSUME NEW i \in PackageJobs PROVE NotGone(jobs'[i], DOMAIN installed, gone')
      BY <1>1
    <3>2. jobs'[i].pc \notin Installing
      <4>1. jobs[j].pc \in Removing  BY <1>8 DEF Removing
      <4> QED  BY <1>4, <1>5, <4>1, BesideRemoving
    <3>3. jobs'[i].pc \notin Packaged /\ jobs'[i].pc \notin {"clear", "unbury"}
      BY <3>2 DEF Packaged, Writing, Installing
    <3>4. jobs'[i].pc \in {"uncache", "bury"} => jobs'[i].key \notin DOMAIN installed
      <4>1. NotGone(jobs[i], DOMAIN installed, gone)  BY DEF Uncrossed
      <4> QED  BY <1>4, <1>5, <4>1 DEF NotGone, Removing
    <3> QED  BY <3>2, <3>3, <3>4 DEF NotGone
  <2> QED  BY <1>6, <1>7, <2>3, <2>4 DEF Uncrossed
<1>9. CASE jobs[j].pc = "unbury"
  <2>1. tombstones' = tombstones \ {k} /\ gone' = gone
    BY <1>2, <1>9 DEF WriteTombstones, In
  <2>2. k \notin gone  BY <1>3, <1>9 DEF NotGone
  <2>3. \A x \in gone' : x \in tombstones' /\ x \notin DOMAIN installed'
    BY <1>1, <2>1, <2>2 DEF Uncrossed
  <2>4. \A i \in PackageJobs : NotGone(jobs'[i], DOMAIN installed', gone')
    BY <1>1, <1>4, <2>1, NothingLeft DEF Uncrossed
  <2> QED  BY <1>6, <1>7, <2>3, <2>4 DEF Uncrossed
<1> QED  BY <1>1, <1>8, <1>9 DEF Burying

LEMMA RestartUncrossed ==
  ASSUME PackagesTyped, Restart, Uncrossed PROVE Uncrossed'
<1>1. \A i \in PackageJobs : jobs'[i] = NoJob  BY DEF Restart
<1>2. UNCHANGED <<installed, tombstones, gone>>  BY DEF Restart
<1>3. NoJob.pc \notin Removing \cup Installing /\ NoJob.pc \notin Burying
  BY DEF NoJob, Removing, Installing, Burying
<1>4. \A i \in PackageJobs : NotGone(jobs'[i], DOMAIN installed', gone')  BY <1>1, <1>2, NothingLeft
<1>5. \A i, m \in PackageJobs : Apart(jobs'[i], jobs'[m])  BY <1>1, <1>3 DEF Apart
<1>6. OneBuries'  BY <1>1, <1>3 DEF OneBuries
<1>7. \A k \in gone' : k \in tombstones' /\ k \notin DOMAIN installed'  BY <1>2 DEF Uncrossed
<1> QED  BY <1>4, <1>5, <1>6, <1>7 DEF Uncrossed

-----------------------------------------------------------------------------
(* The invariant holds from the start and is kept by every step. *)

LEMMA PackagesInvInit == PackagesInit => PackagesInv
<1> SUFFICES ASSUME PackagesInit PROVE PackagesInv
  OBVIOUS
<1>1. DOMAIN NoneOf = {}  BY DEF NoneOf
<1>2. PackagesTyped
  <2>1. GateKept(gate)
    <3>1. IsFiniteSet(DOMAIN gate) /\ Cardinality(DOMAIN gate) = 0  BY <1>1, FS_EmptySet DEF PackagesInit
    <3> QED  BY <1>1, <3>1, LimitIsANumber DEF GateKept, PackagesInit
  <2>2. NoJob \in Job  BY NoJobGood DEF GoodJob
  <2> QED  BY <1>1, <2>1, <2>2, NoJobGood DEF PackagesInit, PackagesTyped, Directories
<1>3. \A j \in PackageJobs : jobs[j] = NoJob  BY DEF PackagesInit
<1>4. DiskInv
  <2>1. \A j \in PackageJobs : Alone(j)  BY <1>3 DEF Alone, NoJob, Writing
  <2> QED  BY <1>1, <2>1 DEF DiskInv, InstalledWhole, PackagesInit
<1>5. Uncrossed
  <2>1. NoJob.pc \notin Removing /\ NoJob.pc \notin Burying  BY DEF NoJob, Removing, Burying
  <2>2. \A j \in PackageJobs : NotGone(jobs[j], DOMAIN installed, gone)  BY <1>2, <1>3, NothingLeft
  <2>3. \A k \in gone : k \in tombstones /\ k \notin DOMAIN installed  BY DEF PackagesInit
  <2> QED  BY <1>3, <2>1, <2>2, <2>3 DEF Uncrossed, Apart, OneBuries
<1> QED  BY <1>2, <1>4, <1>5 DEF PackagesInv

\* What writes nothing and removes nothing leaves the disk as it is.
LEMMA OthersDisk ==
  ASSUME PackagesTyped, DiskInv, NEW j \in PackageJobs,
         \/ \E p \in Packages : \/ DiscoverNext(j, p)
                               \/ \E external \in BOOLEAN : InstallGate(j, p, external)
         \/ \E k \in PluginKeys : Uninstall(j, k)
         \/ Discover(j) \/ DiscoverEnd(j) \/ InstallResolve(j)
         \/ ReadTombstones(j) \/ NothingToClear(j) \/ WriteTombstones(j)
  PROVE  DiskInv'
<1>1. jobs[j] \in Job  BY DEF PackagesTyped
<1>2. NoJob \in Job  BY NoJobGood DEF GoodJob
<1>3. UNCHANGED <<installed, staging, disturbed>> /\ jobs[j].pc # "removing"
  BY DEF DiscoverNext, InstallGate, Uninstall, Discover, DiscoverEnd, InstallResolve, Begins,
         ReadTombstones, NothingToClear, WriteTombstones, In
<1>4. CASE jobs' = jobs
  BY <1>3, <1>4 DEF DiskInv, InstalledWhole, Alone, BeingRemoved, In
<1>5. CASE \E r : Goes(j, r) /\ r.pc \notin Writing
  <2>1. PICK r : Goes(j, r) /\ r.pc \notin Writing  BY <1>5
  <2> QED  BY <1>3, <2>1, DiskKept
<1>6. ASSUME NEW p \in Packages, DiscoverNext(j, p) PROVE \E r : Goes(j, r) /\ r.pc \notin Writing
  <2> DEFINE rest == [jobs[j] EXCEPT !.pending = @ \ {p}]
             r == [rest EXCEPT !.pc = "open", !.pkg = p]
  <2>1. Goes(j, r) \/ Goes(j, rest)  BY <1>6 DEF DiscoverNext
  <2>2. r.pc = "open" /\ rest.pc = "discover"  BY <1>1, <1>6 DEF Job, DiscoverNext, In
  <2> HIDE DEF r, rest
  <2> QED  BY <2>1, <2>2 DEF Writing
<1>7. ASSUME NEW p \in Packages, NEW external \in BOOLEAN, InstallGate(j, p, external)
      PROVE  jobs' = jobs \/ \E r : Goes(j, r) /\ r.pc \notin Writing
  <2> DEFINE r == [NoJob EXCEPT !.pc = IF external THEN "resolve" ELSE "open", !.pkg = p, !.explicit = TRUE]
  <2>1. jobs' = jobs \/ Goes(j, r)  BY <1>7 DEF InstallGate
  <2>2. r.pc \in {"resolve", "open"}  BY DEF NoJob
  <2> HIDE DEF r
  <2> QED  BY <2>1, <2>2 DEF Writing
<1>8. ASSUME NEW k \in PluginKeys, Uninstall(j, k) PROVE \E r : Goes(j, r) /\ r.pc \notin Writing
  <2> DEFINE r == [NoJob EXCEPT !.pc = "remove", !.key = k]
  <2>1. Goes(j, r) /\ r.pc = "remove"  BY <1>8 DEF Uninstall, NoJob
  <2> HIDE DEF r
  <2> QED  BY <2>1 DEF Writing
<1>9. ASSUME Discover(j) PROVE \E r : Goes(j, r) /\ r.pc \notin Writing
  <2> DEFINE r == [NoJob EXCEPT !.pc = "discover", !.seen = tombstones, !.pending = archives]
  <2>1. Goes(j, r) /\ r.pc = "discover"  BY <1>9 DEF Discover, NoJob
  <2> HIDE DEF r
  <2> QED  BY <2>1 DEF Writing
<1>10. ASSUME InstallResolve(j) PROVE \E r : Goes(j, r) /\ r.pc \notin Writing
  <2> DEFINE r == [jobs[j] EXCEPT !.pc = "open", !.pkg = source]
  <2>1. Goes(j, r) /\ r.pc = "open"  BY <1>1, <1>10 DEF InstallResolve, Job
  <2> HIDE DEF r
  <2> QED  BY <2>1 DEF Writing
<1>11. ASSUME ReadTombstones(j) PROVE \E r : Goes(j, r) /\ r.pc \notin Writing
  <2> DEFINE r == [jobs[j] EXCEPT !.pc = IF In(j, "uncache") THEN "bury" ELSE "unbury", !.seen = tombstones]
  <2>1. Goes(j, r) /\ r.pc \in {"bury", "unbury"}  BY <1>1, <1>11 DEF ReadTombstones, Job
  <2> HIDE DEF r
  <2> QED  BY <2>1 DEF Writing
<1>12. ASSUME DiscoverEnd(j) \/ NothingToClear(j) \/ WriteTombstones(j)
       PROVE  \E r : Goes(j, r) /\ r.pc \notin Writing
  <2>1. Goes(j, NoJob) /\ NoJob.pc \notin Writing
    BY <1>12 DEF DiscoverEnd, NothingToClear, WriteTombstones, NoJob, Writing
  <2> QED  BY <2>1
<1> QED  BY <1>4, <1>5, <1>6, <1>7, <1>8, <1>9, <1>10, <1>11, <1>12

\* Operations that crossed on the tombstones are not forgotten.
LEMMA RacedStays == ASSUME PackagesTyped, [PackagesNext]_packageVars PROVE raced => raced'
BY DEF PackagesNext, packageVars, Restart, ReplaceSource, Discover, DiscoverEnd, InstallResolve, OpenArchive,
       Extract, Verify, Rename, RemoveFiles, RemoveRest, ReadTombstones, NothingToClear,
       WriteTombstones, DiscoverNext, InstallGate, Uninstall

LEMMA PackagesInvStep == PackagesInv /\ [PackagesNext]_packageVars => PackagesInv'
<1> SUFFICES ASSUME PackagesInv, [PackagesNext]_packageVars PROVE PackagesInv'
  OBVIOUS
<1>1. PackagesTyped /\ DiskInv /\ (~ raced => Uncrossed)  BY DEF PackagesInv
<1>2. ~ raced' => ~ raced  BY <1>1, RacedStays
<1>3. CASE Restart  BY <1>1, <1>2, <1>3, RestartTyped, RestartDisk, RestartUncrossed DEF PackagesInv
<1>4. CASE UNCHANGED <<archives, installed, staging, tombstones, gate, jobs, disturbed, raced, gone>>
           /\ source' \in Packages
  <2>1. PackagesTyped'  BY <1>1, <1>4 DEF PackagesTyped
  <2>2. DiskInv'  BY <1>1, <1>4 DEF DiskInv, InstalledWhole, Alone, BeingRemoved, In
  <2>3. Uncrossed' <=> Uncrossed  BY <1>4 DEF Uncrossed, OneBuries
  <2> QED  BY <1>1, <1>4, <2>1, <2>2, <2>3 DEF PackagesInv
<1>5. ASSUME NEW j \in PackageJobs, Discover(j) PROVE PackagesInv'
  BY <1>1, <1>2, <1>5, DiscoverTyped, OthersDisk, DiscoverUncrossed DEF PackagesInv
<1>6. ASSUME NEW j \in PackageJobs, DiscoverEnd(j) PROVE PackagesInv'
  BY <1>1, <1>2, <1>6, DiscoverEndTyped, OthersDisk, EndsOfUncrossed DEF PackagesInv
<1>7. ASSUME NEW j \in PackageJobs, InstallResolve(j) PROVE PackagesInv'
  BY <1>1, <1>2, <1>7, InstallResolveTyped, OthersDisk, InstallResolveUncrossed DEF PackagesInv
<1>8. ASSUME NEW j \in PackageJobs, OpenArchive(j) PROVE PackagesInv'
  BY <1>1, <1>2, <1>8, OpenArchiveTyped, OpenArchiveDisk, OpenArchiveUncrossed DEF PackagesInv
<1>9. ASSUME NEW j \in PackageJobs, Extract(j) PROVE PackagesInv'
  BY <1>1, <1>2, <1>9, ExtractTyped, ExtractDisk, ExtractUncrossed DEF PackagesInv
<1>10. ASSUME NEW j \in PackageJobs, Verify(j) PROVE PackagesInv'
  BY <1>1, <1>2, <1>10, VerifyTyped, VerifyDisk, VerifyUncrossed DEF PackagesInv
<1>11. ASSUME NEW j \in PackageJobs, Rename(j) PROVE PackagesInv'
  BY <1>1, <1>2, <1>11, RenameTyped, RenameDisk, RenameUncrossed DEF PackagesInv
<1>12. ASSUME NEW j \in PackageJobs, RemoveFiles(j) \/ RemoveRest(j) PROVE PackagesInv'
  BY <1>1, <1>2, <1>12, RemoveTyped, RemoveDisk, RemoveUncrossed DEF PackagesInv
<1>13. ASSUME NEW j \in PackageJobs, ReadTombstones(j) PROVE PackagesInv'
  BY <1>1, <1>2, <1>13, TombstonesTyped, OthersDisk, ReadTombstonesUncrossed DEF PackagesInv
<1>14. ASSUME NEW j \in PackageJobs, NothingToClear(j) PROVE PackagesInv'
  BY <1>1, <1>2, <1>14, TombstonesTyped, OthersDisk, EndsOfUncrossed DEF PackagesInv
<1>15. ASSUME NEW j \in PackageJobs, WriteTombstones(j) PROVE PackagesInv'
  BY <1>1, <1>2, <1>15, TombstonesTyped, OthersDisk, WriteTombstonesUncrossed DEF PackagesInv
<1>16. ASSUME NEW j \in PackageJobs, NEW p \in Packages, DiscoverNext(j, p) PROVE PackagesInv'
  BY <1>1, <1>2, <1>16, DiscoverNextTyped, OthersDisk, DiscoverNextUncrossed DEF PackagesInv
<1>17. ASSUME NEW j \in PackageJobs, NEW p \in Packages, NEW external \in BOOLEAN,
              InstallGate(j, p, external)
       PROVE  PackagesInv'
  BY <1>1, <1>2, <1>17, InstallGateTyped, OthersDisk, InstallGateUncrossed DEF PackagesInv
<1>18. ASSUME NEW j \in PackageJobs, NEW k \in PluginKeys, Uninstall(j, k) PROVE PackagesInv'
  BY <1>1, <1>2, <1>18, UninstallTyped, OthersDisk, UninstallUncrossed DEF PackagesInv
<1>19. CASE \E p \in Packages : ReplaceSource(p)
  BY <1>4, <1>19 DEF ReplaceSource
<1>20. CASE UNCHANGED packageVars
  BY <1>1, <1>4, <1>20 DEF packageVars, PackagesTyped
<1> QED
  BY <1>3, <1>5, <1>6, <1>7, <1>8, <1>9, <1>10, <1>11, <1>12, <1>13, <1>14, <1>15, <1>16, <1>17,
     <1>18, <1>19, <1>20 DEF PackagesNext

LEMMA PackagesInvSound == PackagesInv => PackagesSound
<1> SUFFICES ASSUME PackagesInv PROVE PackagesSound
  OBVIOUS
<1>1. PackagesTypeOK
  BY DEF PackagesInv, PackagesTyped, PackagesTypeOK, GateKept, Directories, AllFiles, Range
<1>2. InstalledWhole  BY DEF PackagesInv, DiskInv
<1>3. RemovedStayRemoved  BY DEF PackagesInv, Uncrossed, RemovedStayRemoved
<1> QED  BY <1>1, <1>2, <1>3 DEF PackagesSound

\* Whatever the packages, the keys, the number of operations and wherever they are
\* stopped: a directory that installations did not cross on holds a whole accepted package,
\* and what the user removed stays removed unless operations crossed on the tombstones.
THEOREM PackagesStaySound == PackagesSpec => []PackagesSound
<1>1. PackagesSpec => []PackagesInv
  BY PackagesInvInit, PackagesInvStep, PTL DEF PackagesSpec
<1> QED  BY <1>1, PackagesInvSound, PTL

-----------------------------------------------------------------------------
(***************************************************************************)
(* Settings                                                                *)
(***************************************************************************)
(* The inductive invariant: the documents written and to be written are whole; then, as long
   as no two commands crossed, what was saved is in the document, or in the one about to
   replace it. *)

WriterFields == {"pc", "key", "change", "doc", "clear"}
GoodWriter(w) ==
  /\ DOMAIN w = WriterFields
  /\ w.pc \in {"idle", "write", "replace", "secrets"}
  /\ w.pc # "idle" => w.key \in SettingsKeys /\ DOMAIN w.doc \subseteq SettingsKeys

SecretsKept(s) ==
  \A k \in DOMAIN s : /\ k \in SettingsKeys /\ DOMAIN s[k] # {}
                      /\ \A i \in DOMAIN s[k] : s[k][i] # Null

SettingsTyped ==
  /\ DOMAIN document \subseteq SettingsKeys
  /\ SecretsKept(secrets)
  /\ DOMAIN manifestAt = SettingsKeys
  /\ \A k \in SettingsKeys : manifestAt[k] \in ManifestsOf[k]
  /\ DOMAIN writers = SettingsJobs
  /\ \A j \in SettingsJobs : GoodWriter(writers[j])

\* Every value of f is in g, and is a public one the manifest accepts.
Within(f, g) == \A i \in DOMAIN f : i \in DOMAIN g /\ g[i] = f[i]
Accepted(m, f) ==
  \A i \in DOMAIN f : i \in Settings(m) /\ ~ m.settings[i].secret /\ ValidValue(m.settings[i], f[i])

\* What a writer puts into the document, and so what is saved when it is done.
Changed(w) == Restrict(w.change, DOMAIN w.change \cap DOMAIN Entry(w.doc, w.key))
WillBeSaved(w, s) == Merged(Changed(w), Entry(s, w.key))

Underway(w, k) == w.pc # "idle" /\ w.key = k
Promises(w, s, d, at) ==
  /\ w.pc \in {"write", "replace"} =>
        /\ Within(Entry(s, w.key), Entry(d, w.key))
        /\ \A k \in SettingsKeys : k # w.key => Entry(w.doc, k) = Entry(d, k)
        /\ ~ w.clear => Within(WillBeSaved(w, s), Entry(w.doc, w.key))
  /\ w.pc = "secrets" /\ ~ w.clear => Within(WillBeSaved(w, s), Entry(d, w.key))
  /\ w.pc # "idle" /\ ~ w.clear => Accepted(at[w.key], Changed(w))

InTurn ==
  /\ \A i, j \in SettingsJobs : i # j => writers[i].pc = "idle" \/ writers[j].pc = "idle"
  /\ \A k \in DOMAIN saved : k \in SettingsKeys /\ Accepted(manifestAt[k], saved[k])
  /\ \A k \in DOMAIN saved :
        (\A j \in SettingsJobs : ~ Underway(writers[j], k)) => Within(saved[k], Entry(document, k))
  /\ \A j \in SettingsJobs : Promises(writers[j], saved, document, manifestAt)

SettingsInv == SettingsTyped /\ (~ crossed => InTurn)

-----------------------------------------------------------------------------
(* Documents and writers *)

LEMMA EntryAfterPut ==
  ASSUME NEW doc, NEW k, NEW e
  PROVE  /\ DOMAIN Put(doc, k, e) = DOMAIN doc \cup {k} /\ Entry(Put(doc, k, e), k) = e
         /\ \A x : x # k => Entry(Put(doc, k, e), x) = Entry(doc, x)
BY DEF Entry, Put

LEMMA EntryAfterDrop ==
  ASSUME NEW doc, NEW k
  PROVE  /\ DOMAIN Drop(doc, k) = DOMAIN doc \ {k}
         /\ \A x : x # k => Entry(Drop(doc, k), x) = Entry(doc, x)
BY DEF Entry, Drop, Restrict

LEMMA MergedFacts ==
  ASSUME NEW f, NEW g
  PROVE  /\ DOMAIN Merged(f, g) = DOMAIN f \cup DOMAIN g
         /\ \A i \in DOMAIN f : Merged(f, g)[i] = f[i]
         /\ \A i \in DOMAIN g : i \notin DOMAIN f => Merged(f, g)[i] = g[i]
BY DEF Merged

LEMMA RestrictFacts ==
  ASSUME NEW f, NEW S
  PROVE  DOMAIN Restrict(f, S) = S /\ \A i \in S : Restrict(f, S)[i] = f[i]
BY DEF Restrict

LEMMA NothingThere == DOMAIN Empty = {}
BY DEF Empty

LEMMA NoWriterGood ==
  /\ GoodWriter(NoWriter) /\ NoWriter.pc = "idle"
  /\ \A k : ~ Underway(NoWriter, k)
BY DEF GoodWriter, NoWriter, WriterFields, Promises, Underway

LEMMA WriterGoes ==
  ASSUME SettingsTyped, NEW j \in SettingsJobs, NEW w, Writes(j, w)
  PROVE  /\ writers'[j] = w /\ DOMAIN writers' = SettingsJobs
         /\ \A n \in SettingsJobs : n # j => writers'[n] = writers[n]
BY DEF SettingsTyped, Writes

LEMMA GoodWriterGoesOn ==
  ASSUME NEW w, GoodWriter(w), w.pc # "idle", NEW pc \in {"replace", "secrets"}
  PROVE  LET r == [w EXCEPT !.pc = pc]
         IN  /\ GoodWriter(r) /\ r.pc = pc /\ r.key = w.key /\ r.change = w.change
             /\ r.doc = w.doc /\ r.clear = w.clear
BY DEF GoodWriter, WriterFields

\* What a command begins with.
BegunWith(w, k, change, doc) ==
  w.pc \in {"write", "secrets"} /\ w.key = k /\ w.change = change /\ w.doc = doc

LEMMA RemovalBegunGood ==
  ASSUME NEW pc \in {"write", "secrets"}, NEW k \in SettingsKeys,
         NEW doc, DOMAIN doc \subseteq SettingsKeys,
         NEW w, w = [NoWriter EXCEPT !.pc = pc, !.key = k, !.doc = doc, !.clear = TRUE]
  PROVE  GoodWriter(w) /\ BegunWith(w, k, Empty, doc) /\ w.clear
BY DEF GoodWriter, NoWriter, WriterFields, BegunWith

-----------------------------------------------------------------------------
(* The types *)

LEMMA WriterStepTyped ==
  ASSUME SettingsTyped, NEW j \in SettingsJobs, NEW w, GoodWriter(w), Writes(j, w),
         DOMAIN document' \subseteq SettingsKeys, SecretsKept(secrets'), manifestAt' = manifestAt
  PROVE  SettingsTyped'
BY WriterGoes DEF SettingsTyped

\* The entry a command that sets values is about to write.
NewEntry(m, change, values) == Merged(Restrict(change, PublicIds(m, change)), Normalized(m, values))

LEMMA SetValuesBegins ==
  ASSUME SettingsTyped, NEW j \in SettingsJobs, NEW k \in SettingsKeys, NEW change, SetValues(j, k, change)
  PROVE  \E w : /\ Writes(j, w) /\ GoodWriter(w) /\ ~ w.clear
                /\ BegunWith(w, k, change,
                          Put(document, k, NewEntry(manifestAt[k], change, Entry(document, k))))
                /\ w.pc = "secrets" => PublicIds(manifestAt[k], change) = {}
<1> DEFINE m == manifestAt[k]
           entry == NewEntry(m, change, Entry(document, k))
           pc == IF PublicIds(m, change) # {} \/ DOMAIN entry = {} THEN "write" ELSE "secrets"
           doc == Put(document, k, entry)
           w == [NoWriter EXCEPT !.pc = pc, !.key = k, !.change = change, !.doc = doc]
<1>1. Writes(j, w)  BY DEF SetValues, NewEntry
<1>2. pc \in {"write", "secrets"} /\ (pc = "secrets" => PublicIds(m, change) = {})  OBVIOUS
<1> HIDE DEF entry, pc
<1>3. DOMAIN doc \subseteq SettingsKeys  BY DEF Put, SettingsTyped
<1> HIDE DEF doc
<1>6. w = [NoWriter EXCEPT !.pc = pc, !.key = k, !.change = change, !.doc = doc]  OBVIOUS
<1> HIDE DEF w
<1>4. GoodWriter(w) /\ w.pc = pc /\ BegunWith(w, k, change, doc) /\ ~ w.clear
  <2>1. pc \in {"write", "secrets"}  BY <1>2
  <2> QED  BY <1>3, <1>6, <2>1 DEF GoodWriter, NoWriter, WriterFields, BegunWith
<1>5. Writes(j, w) /\ (w.pc = "secrets" => PublicIds(m, change) = {})  BY <1>1, <1>2, <1>4
<1> QED  BY <1>4, <1>5 DEF doc, entry

LEMMA RemoveSettingsBegins ==
  ASSUME SettingsTyped, NEW j \in SettingsJobs, NEW k \in SettingsKeys, RemoveSettings(j, k)
  PROVE  \E w : /\ Writes(j, w) /\ GoodWriter(w) /\ w.clear
                /\ BegunWith(w, k, Empty, Drop(document, k))
<1> DEFINE pc == IF k \in DOMAIN document THEN "write" ELSE "secrets"
           doc == Drop(document, k)
           w == [NoWriter EXCEPT !.pc = pc, !.key = k, !.doc = doc, !.clear = TRUE]
<1>1. Writes(j, w)  BY DEF RemoveSettings
<1>2. pc \in {"write", "secrets"}  OBVIOUS
<1>3. DOMAIN doc \subseteq SettingsKeys  BY EntryAfterDrop DEF SettingsTyped
<1>4. GoodWriter(w) /\ BegunWith(w, k, Empty, doc) /\ w.clear
  <2> HIDE DEF doc, pc
  <2> QED  BY <1>2, <1>3, RemovalBegunGood
<1> HIDE DEF w, pc
<1> QED  BY <1>1, <1>4

LEMMA CommandTyped ==
  ASSUME SettingsTyped, NEW j \in SettingsJobs, NEW k \in SettingsKeys,
         RemoveSettings(j, k) \/ \E change \in Changes : SetValues(j, k, change)
  PROVE  SettingsTyped'
<1>1. UNCHANGED <<document, secrets, manifestAt>>
  BY DEF RemoveSettings, SetValues, BeginsCommand
<1>2. PICK w : Writes(j, w) /\ GoodWriter(w)
  BY RemoveSettingsBegins, SetValuesBegins
<1> QED  BY <1>1, <1>2, WriterStepTyped DEF SettingsTyped

LEMMA WriteTyped ==
  ASSUME SettingsTyped, NEW j \in SettingsJobs, WriteTemporary(j) \/ WriteFails(j) \/ ReplaceDocument(j)
  PROVE  SettingsTyped'
<1>1. GoodWriter(writers[j])  BY DEF SettingsTyped
<1>2. UNCHANGED <<secrets, manifestAt>>  BY DEF WriteTemporary, WriteFails, ReplaceDocument
<1>3. CASE WriteTemporary(j)
  <2> DEFINE w == [writers[j] EXCEPT !.pc = "replace"]
  <2>1. GoodWriter(w)  BY <1>1, <1>3, GoodWriterGoesOn DEF WriteTemporary, Stands
  <2>2. Writes(j, w) /\ document' = document  BY <1>3 DEF WriteTemporary
  <2> HIDE DEF w
  <2> QED  BY <1>2, <2>1, <2>2, WriterStepTyped DEF SettingsTyped
<1>4. CASE WriteFails(j)
  BY <1>2, <1>4, NoWriterGood, WriterStepTyped DEF WriteFails, SettingsTyped
<1>5. CASE ReplaceDocument(j)
  <2> DEFINE w == [writers[j] EXCEPT !.pc = "secrets"]
  <2>1. GoodWriter(w)  BY <1>1, <1>5, GoodWriterGoesOn DEF ReplaceDocument, Stands
  <2>2. Writes(j, w) /\ document' = writers[j].doc /\ writers[j].pc # "idle"
    BY <1>5 DEF ReplaceDocument, Stands
  <2>3. DOMAIN document' \subseteq SettingsKeys  BY <1>1, <2>2 DEF GoodWriter
  <2> HIDE DEF w
  <2> QED  BY <1>2, <2>1, <2>2, <2>3, WriterStepTyped DEF SettingsTyped
<1> QED  BY <1>3, <1>4, <1>5

LEMMA WriteSecretsTyped ==
  ASSUME SettingsTyped, NEW j \in SettingsJobs, WriteSecrets(j)
  PROVE  SettingsTyped'
<1> DEFINE w == writers[j]
           k == w.key
           ids == IF w.clear THEN {} ELSE DOMAIN w.change \ DOMAIN Entry(w.doc, k)
           kept == Restrict(Entry(secrets, k), {i \in DOMAIN Entry(secrets, k) : i \notin ids})
           added == Restrict(w.change, {i \in ids : w.change[i] # Null})
           entry == IF w.clear THEN Empty ELSE Merged(added, kept)
<1>1. w.pc = "secrets" /\ GoodWriter(w)  BY DEF WriteSecrets, Stands, SettingsTyped
<1>2. k \in SettingsKeys  BY <1>1 DEF GoodWriter
<1>3. /\ secrets' = IF DOMAIN entry = {} THEN Drop(secrets, k) ELSE Put(secrets, k, entry)
      /\ Writes(j, NoWriter) /\ UNCHANGED <<document, manifestAt>>
  BY DEF WriteSecrets
<1>4. \A i \in DOMAIN Entry(secrets, k) : Entry(secrets, k)[i] # Null
  BY NothingThere DEF SettingsTyped, SecretsKept, Entry
<1>5. \A i \in DOMAIN entry : entry[i] # Null
  <2>1. \A i \in DOMAIN kept : kept[i] # Null
    <3> HIDE DEF ids
    <3> QED  BY <1>4, RestrictFacts
  <2>2. \A i \in DOMAIN added : added[i] # Null
    <3> HIDE DEF ids
    <3> QED  BY RestrictFacts
  <2> HIDE DEF kept, added
  <2>3. \A i \in DOMAIN Merged(added, kept) : Merged(added, kept)[i] # Null
    BY <2>1, <2>2 DEF Merged
  <2> QED  BY <2>3, NothingThere
<1> HIDE DEF entry, w, k
<1>6. SecretsKept(secrets')
  <2>1. CASE DOMAIN entry = {}
    <3>1. secrets' = Drop(secrets, k)  BY <1>3, <2>1
    <3> QED  BY <3>1 DEF SettingsTyped, SecretsKept, Drop, Restrict
  <2>2. CASE DOMAIN entry # {}
    <3>1. secrets' = Put(secrets, k, entry)  BY <1>3, <2>2
    <3> QED  BY <1>2, <1>5, <2>2, <3>1 DEF SettingsTyped, SecretsKept, Put
  <2> QED  BY <2>1, <2>2
<1> QED  BY <1>3, <1>6, NoWriterGood, WriterStepTyped DEF SettingsTyped

LEMMA RestTyped ==
  ASSUME SettingsTyped,
         \/ SettingsRestart
         \/ \E k \in SettingsKeys : \E m \in ManifestsOf[k] : Reinstall(k, m)
  PROVE  SettingsTyped'
<1>1. CASE SettingsRestart
  <2>1. SecretsKept(Empty)  BY NothingThere DEF SecretsKept
  <2> QED  BY <1>1, <2>1, NoWriterGood DEF SettingsRestart, SettingsTyped
<1>2. ASSUME NEW k \in SettingsKeys, NEW m \in ManifestsOf[k], Reinstall(k, m) PROVE SettingsTyped'
  BY <1>2 DEF Reinstall, SettingsTyped
<1> QED  BY <1>1, <1>2

-----------------------------------------------------------------------------
(* As long as no commands crossed *)

LEMMA AloneAtWork ==
  ASSUME InTurn, NEW j \in SettingsJobs, writers[j].pc # "idle", NEW i \in SettingsJobs, i # j
  PROVE  writers[i].pc = "idle"
BY DEF InTurn

LEMMA IdlePromisesNothing ==
  ASSUME NEW w, w.pc = "idle", NEW s, NEW d, NEW at PROVE Promises(w, s, d, at) /\ \A k : ~ Underway(w, k)
BY DEF Promises, Underway

\* The step of a writer while all others are idle.
LEMMA InTurnStep ==
  ASSUME SettingsTyped, InTurn, NEW j \in SettingsJobs, NEW w, Writes(j, w),
         \A i \in SettingsJobs : i # j => writers[i].pc = "idle",
         manifestAt' = manifestAt,
         \A k \in DOMAIN saved' : k \in SettingsKeys /\ Accepted(manifestAt[k], saved'[k]),
         \A k \in DOMAIN saved' : ~ Underway(w, k) => Within(saved'[k], Entry(document', k)),
         Promises(w, saved', document', manifestAt)
  PROVE  InTurn'
<1>1. writers'[j] = w /\ \A i \in SettingsJobs : i # j => writers'[i] = writers[i]  BY WriterGoes
<1>2. \A i, m \in SettingsJobs : i # m => writers'[i].pc = "idle" \/ writers'[m].pc = "idle"  BY <1>1
<1>3. \A i \in SettingsJobs : Promises(writers'[i], saved', document', manifestAt)
  BY <1>1, IdlePromisesNothing
<1>4. \A k \in DOMAIN saved' :
        (\A i \in SettingsJobs : ~ Underway(writers'[i], k)) => Within(saved'[k], Entry(document', k))
  BY <1>1
<1> QED  BY <1>2, <1>3, <1>4 DEF InTurn

\* What an effective command writes: what it changes is there as it was asked for and
\* accepted, and what was accepted before is there unless it was changed.
LEMMA NewEntryFacts ==
  ASSUME NEW m, NEW change, Acceptable(m, change), NEW values, NEW old, Accepted(m, old),
         Within(old, values)
  PROVE  LET entry == NewEntry(m, change, values)
             written == DOMAIN change \cap DOMAIN entry
         IN  /\ written = PublicIds(m, change)
             /\ \A i \in written : entry[i] = change[i]
             /\ Accepted(m, Restrict(change, written))
             /\ Within(Merged(Restrict(change, written), old), entry)
<1> DEFINE entry == NewEntry(m, change, values)
           own == PublicIds(m, change)
           normal == {x \in DOMAIN values : /\ x \in Settings(m) /\ ~ m.settings[x].secret
                                             /\ ValidValue(m.settings[x], values[x])}
<1>1. /\ DOMAIN entry = own \cup normal
      /\ \A i \in own : entry[i] = change[i]
      /\ \A i \in normal : i \notin own => entry[i] = values[i]
  BY DEF NewEntry, Merged, Normalized, Restrict
<1>2. \A i \in own : i \in DOMAIN change /\ i \in Settings(m) /\ ~ m.settings[i].secret
                     /\ ValidValue(m.settings[i], change[i])
  BY DEF PublicIds, SecretIds, Acceptable
<1>3. \A i \in DOMAIN change : i \notin own => m.settings[i].secret  BY DEF PublicIds, SecretIds
<1>4. DOMAIN change \cap DOMAIN entry = own  BY <1>1, <1>2, <1>3
<1> HIDE DEF entry, own
<1>5. Accepted(m, Restrict(change, own))  BY <1>2 DEF Accepted, Restrict
<1>6. Within(Merged(Restrict(change, own), old), entry)
  <2>1. SUFFICES ASSUME NEW i \in own \cup DOMAIN old
                 PROVE  i \in DOMAIN entry
                        /\ entry[i] = IF i \in own THEN change[i] ELSE old[i]
    BY DEF Within, Merged, Restrict
  <2>2. CASE i \in own  BY <1>1, <2>2
  <2>3. CASE i \notin own
    <3>1. i \in DOMAIN values /\ values[i] = old[i]  BY <2>1, <2>3 DEF Within
    <3>2. i \in Settings(m) /\ ~ m.settings[i].secret /\ ValidValue(m.settings[i], old[i])
      BY <2>1, <2>3 DEF Accepted
    <3>3. ValidValue(m.settings[i], values[i])  BY <3>1, <3>2
    <3>4. i \in normal  BY <3>1, <3>2, <3>3
    <3> QED  BY <1>1, <2>3, <3>1, <3>4
  <2> QED  BY <2>2, <2>3
<1> QED  BY <1>1, <1>4, <1>5, <1>6 DEF entry, own

LEMMA NothingIsWithin ==
  ASSUME NEW g, NEW m PROVE Within(Empty, g) /\ Accepted(m, Empty)
BY NothingThere DEF Within, Accepted

LEMMA SavedEntry ==
  ASSUME InTurn, SettingsTyped, NEW k \in SettingsKeys,
         \A j \in SettingsJobs : ~ Underway(writers[j], k)
  PROVE  Within(Entry(saved, k), Entry(document, k)) /\ Accepted(manifestAt[k], Entry(saved, k))
<1>1. CASE k \in DOMAIN saved  BY <1>1 DEF Entry, InTurn
<1>2. CASE k \notin DOMAIN saved
  <2>1. Entry(saved, k) = Empty  BY <1>2 DEF Entry
  <2> QED  BY <2>1, NothingIsWithin
<1> QED  BY <1>1, <1>2

LEMMA CommandBeginsAlone ==
  ASSUME SettingsTyped, NEW j \in SettingsJobs, BeginsCommand(j), ~ crossed', InTurn
  PROVE  /\ \A i \in SettingsJobs : writers[i].pc = "idle" /\ \A k : ~ Underway(writers[i], k)
         /\ UNCHANGED <<document, manifestAt, saved>>
BY DEF BeginsCommand, Stands, Underway

LEMMA SetValuesInTurn ==
  ASSUME SettingsTyped, InTurn, NEW j \in SettingsJobs, NEW k \in SettingsKeys, NEW change \in Changes,
         SetValues(j, k, change), ~ crossed'
  PROVE  InTurn'
<1> DEFINE m == manifestAt[k]
           values == Entry(document, k)
           entry == NewEntry(m, change, values)
           written == DOMAIN change \cap DOMAIN entry
           old == Entry(saved, k)
<1>1. PICK w : /\ Writes(j, w) /\ GoodWriter(w) /\ ~ w.clear
               /\ BegunWith(w, k, change, Put(document, k, entry))
               /\ w.pc = "secrets" => PublicIds(m, change) = {}
  BY SetValuesBegins
<1>2. /\ \A i \in SettingsJobs : writers[i].pc = "idle" /\ \A x : ~ Underway(writers[i], x)
      /\ UNCHANGED <<document, manifestAt, saved>>
  BY CommandBeginsAlone DEF SetValues
<1>3. Within(old, values) /\ Accepted(m, old)  BY <1>2, SavedEntry
<1>4. Acceptable(m, change)  BY DEF SetValues
<1> HIDE DEF m, values, old, entry
<1>5. /\ written = PublicIds(m, change) /\ Accepted(m, Restrict(change, written))
      /\ Within(Merged(Restrict(change, written), old), entry)
  BY <1>3, <1>4, NewEntryFacts DEF entry
<1>6. w.key = k /\ w.change = change /\ w.doc = Put(document, k, entry) /\ w.pc \in {"write", "secrets"}
  BY <1>1 DEF BegunWith
<1>7. Entry(w.doc, k) = entry /\ \A x : x # k => Entry(w.doc, x) = Entry(document, x)
  BY <1>6 DEF Entry, Put
<1>8. Changed(w) = Restrict(change, written) /\ WillBeSaved(w, saved) = Merged(Restrict(change, written), old)
  BY <1>6, <1>7 DEF Changed, WillBeSaved, old
<1>9. w.pc = "secrets" => Within(WillBeSaved(w, saved), values)
  <2>1. SUFFICES ASSUME w.pc = "secrets" PROVE Within(Merged(Restrict(change, written), old), values)
    BY <1>8
  <2>2. DOMAIN Restrict(change, written) = {}  BY <1>1, <1>5, <2>1 DEF Restrict
  <2> HIDE DEF written
  <2> QED  BY <1>3, <2>2 DEF Within, Merged
<1>10. Promises(w, saved, document, manifestAt)
  <2> HIDE DEF written
  <2> QED  BY <1>3, <1>5, <1>6, <1>7, <1>8, <1>9 DEF Promises, m, values, old
<1>11. \A x \in DOMAIN saved : x \in SettingsKeys /\ Accepted(manifestAt[x], saved[x])
  BY DEF InTurn
<1>12. \A x \in DOMAIN saved : Within(saved[x], Entry(document, x))  BY <1>2 DEF InTurn
<1> QED  BY <1>1, <1>2, <1>10, <1>11, <1>12, InTurnStep

LEMMA RemoveSettingsInTurn ==
  ASSUME SettingsTyped, InTurn, NEW j \in SettingsJobs, NEW k \in SettingsKeys,
         RemoveSettings(j, k), ~ crossed'
  PROVE  InTurn'
<1>1. PICK w : Writes(j, w) /\ GoodWriter(w) /\ w.clear /\ BegunWith(w, k, Empty, Drop(document, k))
  BY RemoveSettingsBegins
<1>2. /\ \A i \in SettingsJobs : writers[i].pc = "idle" /\ \A x : ~ Underway(writers[i], x)
      /\ UNCHANGED <<document, manifestAt, saved>>
  BY CommandBeginsAlone DEF RemoveSettings
<1>3. Within(Entry(saved, k), Entry(document, k))  BY <1>2, SavedEntry
<1>4. \A x : x # k => Entry(Drop(document, k), x) = Entry(document, x)  BY EntryAfterDrop
<1>5. Promises(w, saved, document, manifestAt)  BY <1>1, <1>3, <1>4 DEF Promises, BegunWith
<1>6. \A x \in DOMAIN saved : x \in SettingsKeys /\ Accepted(manifestAt[x], saved[x])
  BY DEF InTurn
<1>7. \A x \in DOMAIN saved : Within(saved[x], Entry(document, x))  BY <1>2 DEF InTurn
<1> QED  BY <1>1, <1>2, <1>5, <1>6, <1>7, InTurnStep

LEMMA WriteInTurn ==
  ASSUME SettingsTyped, InTurn, NEW j \in SettingsJobs,
         WriteTemporary(j) \/ WriteFails(j) \/ ReplaceDocument(j)
  PROVE  InTurn'
<1>1. PICK v : v = writers[j]  OBVIOUS
<1>2. GoodWriter(v) /\ Promises(v, saved, document, manifestAt)  BY <1>1 DEF SettingsTyped, InTurn
<1>3. v.pc \in {"write", "replace"} /\ UNCHANGED <<manifestAt, saved>>
  BY <1>1 DEF WriteTemporary, WriteFails, ReplaceDocument, Stands
<1>4. \A i \in SettingsJobs : i # j => writers[i].pc = "idle" /\ \A x : ~ Underway(writers[i], x)
  BY <1>1, <1>3, AloneAtWork, IdlePromisesNothing
<1>5. \A x \in DOMAIN saved : x \in SettingsKeys /\ Accepted(manifestAt[x], saved[x])
  BY DEF InTurn
<1>6. \A x \in DOMAIN saved : x # v.key => Within(saved[x], Entry(document, x))
  BY <1>1, <1>4 DEF InTurn, Underway
<1>7. /\ Within(Entry(saved, v.key), Entry(document, v.key))
      /\ \A k \in SettingsKeys : k # v.key => Entry(v.doc, k) = Entry(document, k)
      /\ ~ v.clear => Within(WillBeSaved(v, saved), Entry(v.doc, v.key)) /\ Accepted(manifestAt[v.key], Changed(v))
  BY <1>2, <1>3 DEF Promises
<1>8. CASE WriteTemporary(j)
  <2>1. PICK w : w = [v EXCEPT !.pc = "replace"]  OBVIOUS
  <2>2. Writes(j, w) /\ document' = document  BY <1>1, <1>8, <2>1 DEF WriteTemporary
  <2>3. w.pc = "replace" /\ w.key = v.key /\ w.change = v.change /\ w.doc = v.doc /\ w.clear = v.clear
    BY <1>2, <2>1 DEF GoodWriter, WriterFields
  <2>4. Promises(w, saved, document, manifestAt)
    BY <1>7, <2>3 DEF Promises, WillBeSaved, Changed
  <2>5. \A x \in DOMAIN saved : ~ Underway(w, x) => Within(saved[x], Entry(document, x))
    BY <1>6, <2>3 DEF Underway
  <2> QED  BY <1>3, <1>4, <1>5, <2>2, <2>4, <2>5, InTurnStep
<1>9. CASE WriteFails(j)
  <2>1. Writes(j, NoWriter) /\ document' = document  BY <1>9 DEF WriteFails
  <2>2. Promises(NoWriter, saved, document, manifestAt)  BY NoWriterGood, IdlePromisesNothing
  <2>3. \A x \in DOMAIN saved : Within(saved[x], Entry(document, x))
    <3>1. SUFFICES ASSUME NEW x \in DOMAIN saved, x = v.key PROVE Within(saved[x], Entry(document, x))
      BY <1>6
    <3>2. Entry(saved, x) = saved[x]  BY DEF Entry
    <3> QED  BY <1>7, <3>1, <3>2
  <2> QED  BY <1>3, <1>4, <1>5, <2>1, <2>2, <2>3, InTurnStep
<1>10. CASE ReplaceDocument(j)
  <2>1. PICK w : w = [v EXCEPT !.pc = "secrets"]  OBVIOUS
  <2>2. Writes(j, w) /\ document' = v.doc  BY <1>1, <1>10, <2>1 DEF ReplaceDocument
  <2>3. w.pc = "secrets" /\ w.key = v.key /\ w.change = v.change /\ w.doc = v.doc /\ w.clear = v.clear
    BY <1>2, <2>1 DEF GoodWriter, WriterFields
  <2>4. Promises(w, saved, v.doc, manifestAt)
    BY <1>7, <2>3 DEF Promises, WillBeSaved, Changed
  <2>5. \A x \in DOMAIN saved : ~ Underway(w, x) => Within(saved[x], Entry(v.doc, x))
    BY <1>5, <1>6, <1>7, <2>3 DEF Underway
  <2> QED  BY <1>3, <1>4, <1>5, <2>2, <2>4, <2>5, InTurnStep
<1> QED  BY <1>8, <1>9, <1>10

LEMMA WriteSecretsInTurn ==
  ASSUME SettingsTyped, InTurn, NEW j \in SettingsJobs, WriteSecrets(j)
  PROVE  InTurn'
<1>1. PICK v : v = writers[j]  OBVIOUS
<1>2. GoodWriter(v) /\ Promises(v, saved, document, manifestAt)  BY <1>1 DEF SettingsTyped, InTurn
<1>3. v.pc = "secrets" /\ UNCHANGED <<document, manifestAt>> /\ Writes(j, NoWriter)
  BY <1>1 DEF WriteSecrets, Stands
<1>4. \A i \in SettingsJobs : i # j => writers[i].pc = "idle" /\ \A x : ~ Underway(writers[i], x)
  BY <1>1, <1>3, AloneAtWork, IdlePromisesNothing
<1>5. \A x \in DOMAIN saved : x \in SettingsKeys /\ Accepted(manifestAt[x], saved[x])
  BY DEF InTurn
<1>6. \A x \in DOMAIN saved : x # v.key => Within(saved[x], Entry(document, x))
  BY <1>1, <1>4 DEF InTurn, Underway
<1>7. v.key \in SettingsKeys  BY <1>2, <1>3 DEF GoodWriter
<1>8. Promises(NoWriter, saved', document', manifestAt)  BY NoWriterGood, IdlePromisesNothing
<1>9. CASE v.clear
  <2>1. saved' = Drop(saved, v.key)  BY <1>1, <1>9 DEF WriteSecrets
  <2>2. DOMAIN saved' = DOMAIN saved \ {v.key} /\ \A x \in DOMAIN saved' : saved'[x] = saved[x]
    BY <2>1 DEF Drop, Restrict
  <2>3. \A x \in DOMAIN saved' : /\ x \in SettingsKeys /\ Accepted(manifestAt[x], saved'[x])
                                  /\ Within(saved'[x], Entry(document, x))
    BY <1>5, <1>6, <2>2
  <2> QED  BY <1>3, <1>4, <1>8, <2>3, InTurnStep
<1>10. CASE ~ v.clear
  <2> DEFINE now == WillBeSaved(v, saved)
  <2>1. saved' = Put(saved, v.key, now)
    <3>1. DOMAIN v.change \ (DOMAIN v.change \ DOMAIN Entry(v.doc, v.key))
            = DOMAIN v.change \cap DOMAIN Entry(v.doc, v.key)
      OBVIOUS
    <3> QED  BY <1>1, <1>10, <3>1 DEF WriteSecrets, WillBeSaved, Changed
  <2>2. Within(now, Entry(document, v.key)) /\ Accepted(manifestAt[v.key], Changed(v))
    BY <1>2, <1>3, <1>10 DEF Promises
  <2>3. Accepted(manifestAt[v.key], Entry(saved, v.key))
    <3>1. CASE v.key \in DOMAIN saved  BY <1>5, <3>1 DEF Entry
    <3>2. CASE v.key \notin DOMAIN saved
      <4>1. Entry(saved, v.key) = Empty  BY <3>2 DEF Entry
      <4> QED  BY <4>1, NothingIsWithin
    <3> QED  BY <3>1, <3>2
  <2>4. Accepted(manifestAt[v.key], now)
    BY <2>2, <2>3 DEF Accepted, WillBeSaved, Merged
  <2> HIDE DEF now
  <2>5. DOMAIN saved' = DOMAIN saved \cup {v.key} /\ saved'[v.key] = now
        /\ \A x \in DOMAIN saved : x # v.key => saved'[x] = saved[x]
    BY <2>1 DEF Put
  <2>6. \A x \in DOMAIN saved' : /\ x \in SettingsKeys /\ Accepted(manifestAt[x], saved'[x])
                                  /\ Within(saved'[x], Entry(document, x))
    BY <1>5, <1>6, <1>7, <2>2, <2>4, <2>5
  <2> QED  BY <1>3, <1>4, <1>8, <2>6, InTurnStep
<1> QED  BY <1>9, <1>10

LEMMA ReinstallInTurn ==
  ASSUME SettingsTyped, InTurn, NEW k \in SettingsKeys, NEW m \in ManifestsOf[k],
         Reinstall(k, m), ~ crossed'
  PROVE  InTurn'
<1>1. /\ \A i \in SettingsJobs : writers[i].pc = "idle"
      /\ writers' = writers /\ document' = document /\ saved' = Drop(saved, k)
      /\ manifestAt' = [manifestAt EXCEPT ![k] = m]
  BY DEF Reinstall, Stands
<1>2. DOMAIN saved' = DOMAIN saved \ {k} /\ \A x \in DOMAIN saved' : saved'[x] = saved[x]
  BY <1>1 DEF Drop, Restrict
<1>3. \A x \in DOMAIN saved' : /\ x \in SettingsKeys /\ Accepted(manifestAt'[x], saved'[x])
                                /\ Within(saved'[x], Entry(document, x))
  <2>1. \A x \in SettingsKeys : x # k => manifestAt'[x] = manifestAt[x]  BY <1>1 DEF SettingsTyped
  <2>2. \A i \in SettingsJobs : \A x : ~ Underway(writers[i], x)  BY <1>1, IdlePromisesNothing
  <2> QED  BY <1>2, <2>1, <2>2 DEF InTurn
<1>4. \A i \in SettingsJobs : Promises(writers[i], saved', document', manifestAt')
  BY <1>1, IdlePromisesNothing
<1> QED  BY <1>1, <1>3, <1>4 DEF InTurn

LEMMA SettingsRestartInTurn ==
  ASSUME SettingsTyped, InTurn, SettingsRestart PROVE InTurn'
<1>1. /\ UNCHANGED <<document, manifestAt>>
      /\ \A i \in SettingsJobs : writers'[i] = NoWriter
      /\ saved' = Restrict(saved, DOMAIN saved \ {writers[j].key : j \in SettingsJobs})
  BY DEF SettingsRestart
<1>2. /\ DOMAIN saved' = DOMAIN saved \ {writers[j].key : j \in SettingsJobs}
      /\ \A x \in DOMAIN saved' : saved'[x] = saved[x]
  BY <1>1 DEF Restrict
<1>3. \A x \in DOMAIN saved' : \A j \in SettingsJobs : ~ Underway(writers[j], x)
  BY <1>2 DEF Underway
<1>4. \A x \in DOMAIN saved' : /\ x \in SettingsKeys /\ Accepted(manifestAt[x], saved'[x])
                                /\ Within(saved'[x], Entry(document, x))
  BY <1>2, <1>3 DEF InTurn
<1>5. \A i \in SettingsJobs : Promises(writers'[i], saved', document', manifestAt')
  BY <1>1, NoWriterGood, IdlePromisesNothing
<1> QED  BY <1>1, <1>4, <1>5, NoWriterGood DEF InTurn

-----------------------------------------------------------------------------
(* The invariant holds initially and at every step. *)

LEMMA SettingsStart == SettingsInit => SettingsInv
<1> SUFFICES ASSUME SettingsInit PROVE SettingsInv  OBVIOUS
<1>1. /\ document = Empty /\ secrets = Empty /\ saved = Empty
      /\ DOMAIN manifestAt = SettingsKeys /\ \A k \in SettingsKeys : manifestAt[k] \in ManifestsOf[k]
      /\ DOMAIN writers = SettingsJobs /\ \A j \in SettingsJobs : writers[j] = NoWriter
  BY DEF SettingsInit
<1>2. SettingsTyped
  BY <1>1, NothingThere, NoWriterGood DEF SettingsTyped, SecretsKept
<1>3. InTurn
  <2>1. \A j \in SettingsJobs : Promises(writers[j], saved, document, manifestAt)
    BY <1>1, NoWriterGood, IdlePromisesNothing
  <2> QED  BY <1>1, <2>1, NothingThere, NoWriterGood DEF InTurn
<1> QED  BY <1>2, <1>3 DEF SettingsInv

LEMMA SettingsGoOn == SettingsInv /\ [SettingsNext]_settingsVars => SettingsInv'
<1> SUFFICES ASSUME SettingsInv, [SettingsNext]_settingsVars PROVE SettingsInv'  OBVIOUS
<1>1. SettingsTyped /\ (~ crossed => InTurn)  BY DEF SettingsInv
<1>2. CASE SettingsRestart
  <2>1. SettingsTyped'  BY <1>1, <1>2, RestTyped
  <2>2. crossed' = crossed  BY <1>2 DEF SettingsRestart
  <2> QED  BY <1>1, <1>2, <2>1, <2>2, SettingsRestartInTurn DEF SettingsInv
<1>3. ASSUME NEW k \in SettingsKeys, NEW m \in ManifestsOf[k], Reinstall(k, m) PROVE SettingsInv'
  <2>1. SettingsTyped'  BY <1>1, <1>3, RestTyped
  <2>2. ~ crossed' => ~ crossed  BY <1>3 DEF Reinstall
  <2> QED  BY <1>1, <1>3, <2>1, <2>2, ReinstallInTurn DEF SettingsInv
<1>4. ASSUME NEW j \in SettingsJobs, WriteTemporary(j) \/ WriteFails(j) \/ ReplaceDocument(j)
      PROVE  SettingsInv'
  <2>1. SettingsTyped'  BY <1>1, <1>4, WriteTyped
  <2>2. crossed' = crossed  BY <1>4 DEF WriteTemporary, WriteFails, ReplaceDocument
  <2> QED  BY <1>1, <1>4, <2>1, <2>2, WriteInTurn DEF SettingsInv
<1>5. ASSUME NEW j \in SettingsJobs, WriteSecrets(j) PROVE SettingsInv'
  <2>1. SettingsTyped'  BY <1>1, <1>5, WriteSecretsTyped
  <2>2. crossed' = crossed  BY <1>5 DEF WriteSecrets
  <2> QED  BY <1>1, <1>5, <2>1, <2>2, WriteSecretsInTurn DEF SettingsInv
<1>6. ASSUME NEW j \in SettingsJobs, NEW k \in SettingsKeys, RemoveSettings(j, k) PROVE SettingsInv'
  <2>1. SettingsTyped'  BY <1>1, <1>6, CommandTyped
  <2>2. ~ crossed' => ~ crossed  BY <1>6 DEF RemoveSettings, BeginsCommand
  <2> QED  BY <1>1, <1>6, <2>1, <2>2, RemoveSettingsInTurn DEF SettingsInv
<1>7. ASSUME NEW j \in SettingsJobs, NEW k \in SettingsKeys, NEW change \in Changes, SetValues(j, k, change)
      PROVE  SettingsInv'
  <2>1. SettingsTyped'  BY <1>1, <1>7, CommandTyped
  <2>2. ~ crossed' => ~ crossed  BY <1>7 DEF SetValues, BeginsCommand
  <2> QED  BY <1>1, <1>7, <2>1, <2>2, SetValuesInTurn DEF SettingsInv
<1>8. CASE UNCHANGED settingsVars
  <2>1. SettingsTyped'  BY <1>1, <1>8 DEF settingsVars, SettingsTyped
  <2>2. UNCHANGED <<crossed, writers, saved, document, manifestAt>>  BY <1>8 DEF settingsVars
  <2>3. InTurn => InTurn'  BY <2>2 DEF InTurn
  <2> QED  BY <1>1, <2>1, <2>2, <2>3 DEF SettingsInv
<1> QED  BY <1>2, <1>3, <1>4, <1>5, <1>6, <1>7, <1>8 DEF SettingsNext

-----------------------------------------------------------------------------
(* What a plugin is run with *)

LEMMA EffectiveValues ==
  ASSUME NEW m, NEW values, DefinitionsValid(m), NEW i \in DOMAIN Effective(m, values)
  PROVE  /\ i \in Settings(m) /\ ValidDefinition(m.settings[i]) /\ ~ m.settings[i].secret
         /\ ValidValue(m.settings[i], Effective(m, values)[i])
<1> DEFINE own == {x \in DOMAIN values : /\ x \in Settings(m) /\ ~ m.settings[x].secret
                                         /\ ValidValue(m.settings[x], values[x])}
           defaulted == {x \in Settings(m) : ~ m.settings[x].secret /\ m.settings[x].default # Unset}
           defaults == [x \in defaulted |-> m.settings[x].default]
<1>1. /\ DOMAIN Normalized(m, values) = own
      /\ \A x \in own : Normalized(m, values)[x] = values[x]
  BY DEF Normalized, Restrict
<1>2. Effective(m, values) = Merged(Normalized(m, values), defaults)  BY DEF Effective
<1>3. DOMAIN defaults = defaulted /\ \A x \in defaulted : defaults[x] = m.settings[x].default
  OBVIOUS
<1>4. /\ DOMAIN Effective(m, values) = own \cup defaulted
      /\ \A x \in own : Effective(m, values)[x] = values[x]
      /\ \A x \in defaulted : x \notin own => Effective(m, values)[x] = m.settings[x].default
  <2> HIDE DEF own, defaulted, defaults
  <2> QED  BY <1>1, <1>2, <1>3 DEF Merged
<1>5. i \in Settings(m) /\ ~ m.settings[i].secret  BY <1>4
<1>6. ValidDefinition(m.settings[i])  BY <1>5 DEF DefinitionsValid
<1>7. CASE i \in own
  <2>1. ValidValue(m.settings[i], values[i])  BY <1>7
  <2>2. Effective(m, values)[i] = values[i]  BY <1>4, <1>7
  <2> QED  BY <1>5, <1>6, <2>1, <2>2
<1>8. CASE i \notin own
  <2>1. i \in defaulted  BY <1>4, <1>8
  <2>2. Effective(m, values)[i] = m.settings[i].default /\ m.settings[i].default # Unset
    BY <1>4, <1>8, <2>1
  <2>3. ValidValue(m.settings[i], m.settings[i].default)  BY <1>6, <2>2 DEF ValidDefinition
  <2> QED  BY <1>5, <1>6, <2>2, <2>3
<1> QED  BY <1>7, <1>8

LEMMA ValidIsSet ==
  ASSUME NEW s, ValidDefinition(s), NEW v, ValidValue(s, v) PROVE v # Unset
<1>1. s.type \in {"boolean", "text", "number", "select"}  BY DEF ValidDefinition
<1>2. v[1] = IF s.type = "select" THEN "text" ELSE s.type  BY DEF ValidValue
<1>3. Unset[1] = "unset"  BY DEF Unset
<1> QED  BY <1>1, <1>2, <1>3

LEMMA AlwaysValid == RunsOnValidSettings
<1> SUFFICES ASSUME NEW k \in SettingsKeys,
                    Executable(manifestAt[k], Entry(document, k), Entry(secrets, k)),
                    NEW i \in DOMAIN Effective(manifestAt[k], Entry(document, k))
             PROVE  LET m == manifestAt[k]
                        effective == Effective(m, Entry(document, k))
                    IN  /\ ValidValue(m.settings[i], effective[i]) /\ ~ m.settings[i].secret
                        /\ m.settings[i].required => effective[i] # Unset
  BY DEF RunsOnValidSettings
<1>1. DefinitionsValid(manifestAt[k])  BY DEF Executable
<1> QED  BY <1>1, EffectiveValues, ValidIsSet

-----------------------------------------------------------------------------
(* A test and a launch *)

\* What is not blank is read alike.
LEMMA ReadAlike ==
  ASSUME NEW e, NEW i, NEW d, i \in DOMAIN e => e[i] # Blank
  PROVE  Filled(e, i, d) = Value(e, i, d)
BY DEF Filled, Value

LEMMA SourceNotBlank ==
  ASSUME NEW m, NEW values, DefinitionsValid(m), NEW i, m.settings[i].type = "select",
         i \in DOMAIN Effective(m, values)
  PROVE  Effective(m, values)[i] # Blank
<1>1. /\ ValidDefinition(m.settings[i]) /\ ValidValue(m.settings[i], Effective(m, values)[i])
  BY EffectiveValues
<1>2. "" \notin m.settings[i].options /\ Effective(m, values)[i][2] \in m.settings[i].options
  BY <1>1 DEF ValidDefinition, ValidValue
<1>3. Blank[2] = ""  BY DEF Blank, Text
<1> QED  BY <1>2, <1>3

\* What a test that finds a credential has found, where it looked and that it fits.
LEMMA TestFinds ==
  ASSUME NEW c, NEW e, NEW held,
         c.source \in DOMAIN e => e[c.source] # Blank,
         TestCredential(c, e, held) # "none"
  PROVE  LET chosen == Value(e, c.source, Text(c.kind))[2]
         IN  /\ \/ /\ chosen = "environment"
                   /\ TestCredential(c, e, held) = Variable(Filled(e, c.envSetting, Text(c.env)))
                \/ /\ chosen = "host-secret"
                   /\ TestCredential(c, e, held) = HeldSecret(held, c.hostSecret)
             /\ TestCredential(c, e, held) \notin LongSecrets
<1> DEFINE chosen == Value(e, c.source, Text(c.kind))[2]
           variable == Variable(Filled(e, c.envSetting, Text(c.env)))
           host == HeldSecret(held, c.hostSecret)
           found == CASE chosen = "environment" -> variable
                      [] chosen = "host-secret" -> host
                      [] OTHER -> "none"
<1>1. Filled(e, c.source, Text(c.kind)) = Value(e, c.source, Text(c.kind))  BY ReadAlike
<1>2. TestCredential(c, e, held) = IF found \in LongSecrets THEN "none" ELSE found
  BY <1>1 DEF TestCredential
<1>3. \/ chosen = "environment" /\ found = variable
      \/ chosen = "host-secret" /\ found = host
      \/ found = "none"
  <2> HIDE DEF chosen, variable, host
  <2>1. CASE chosen = "environment"  BY <2>1
  <2>2. CASE chosen = "host-secret"  BY <2>2
  <2>3. CASE chosen # "environment" /\ chosen # "host-secret"  BY <2>3
  <2> QED  BY <2>1, <2>2, <2>3
<1> HIDE DEF found
<1>4. found \notin LongSecrets /\ TestCredential(c, e, held) = found  BY <1>2
<1> QED  BY <1>3, <1>4

LEMMA SameCredential ==
  ASSUME NEW c, NEW e, NEW held,
         c.source \in DOMAIN e => e[c.source] # Blank,
         c.envSetting \in DOMAIN e => e[c.envSetting] # Blank,
         TestCredential(c, e, held) # "none"
  PROVE  LaunchCredential(c, e, held) = TestCredential(c, e, held)
<1> DEFINE chosen == Value(e, c.source, Text(c.kind))[2]
           variable == Variable(Value(e, c.envSetting, Text(c.env)))
           host == HeldSecret(held, c.hostSecret)
<1>1. Filled(e, c.envSetting, Text(c.env)) = Value(e, c.envSetting, Text(c.env))  BY ReadAlike
<1>2. \/ chosen = "environment" /\ TestCredential(c, e, held) = variable
      \/ chosen = "host-secret" /\ TestCredential(c, e, held) = host
  BY <1>1, TestFinds
<1>3. LaunchCredential(c, e, held) =
        IF chosen = "environment" THEN variable
        ELSE IF chosen = "host-secret" THEN host
        ELSE IF c.hostSecret # "none" /\ host = "none" THEN variable ELSE host
  BY DEF LaunchCredential
<1> QED  BY <1>2, <1>3

\* Whatever else was saved, the connection of a test that finds a credential stops no launch.
LEMMA TestedIsEquipped ==
  ASSUME NEW c, NEW e, NEW held,
         c.source \in DOMAIN e => e[c.source] # Blank,
         TestCredential(c, e, held) # "none"
  PROVE  Equipped(c, e, held)
<1> DEFINE chosen == Value(e, c.source, Text(c.kind))[2]
<1>1. chosen \in {"environment", "host-secret"} /\ TestCredential(c, e, held) \notin LongSecrets
  BY TestFinds
<1>2. SourceSupported(c, e)  BY <1>1 DEF SourceSupported
<1>3. CASE c.envSetting \in DOMAIN e => e[c.envSetting] # Blank
  BY <1>1, <1>2, <1>3, SameCredential DEF Equipped
<1>4. CASE c.envSetting \in DOMAIN e /\ e[c.envSetting] = Blank
  <2>1. Value(e, c.envSetting, Text(c.env)) = Blank  BY <1>4 DEF Value
  <2>2. Blank[2] = ""  BY DEF Blank, Text
  <2>3. Variable(Value(e, c.envSetting, Text(c.env))) = "none"
    BY <2>1, <2>2, SettingsAssumption DEF Variable
  <2>4. CASE chosen = "environment"
    <3>1. LaunchCredential(c, e, held) = "none"  BY <2>3, <2>4 DEF LaunchCredential
    <3> QED  BY <1>2, <3>1, SettingsAssumption DEF Equipped
  <2>5. CASE chosen = "host-secret"
    <3>1. TestCredential(c, e, held) = HeldSecret(held, c.hostSecret)  BY <2>5, TestFinds
    <3>2. LaunchCredential(c, e, held) = HeldSecret(held, c.hostSecret)  BY <2>5 DEF LaunchCredential
    <3> QED  BY <1>1, <1>2, <3>1, <3>2 DEF Equipped
  <2> QED  BY <1>1, <2>4, <2>5
<1> QED  BY <1>3, <1>4

LEMMA AlwaysLaunchedAsTested == SettingsTyped => TestedIsLaunched
<1> SUFFICES ASSUME SettingsTyped, NEW k \in SettingsKeys, NEW m, NEW values, NEW held, NEW e,
                    m = manifestAt[k], values = Entry(document, k), held = Entry(secrets, k),
                    e = Effective(m, values), DefinitionsValid(m), ConnectionsValid(m)
             PROVE  /\ LaunchAllowed(m, values, held) =>
                          \A n \in DOMAIN m.egress :
                             \/ TestCredential(ConnectionFor(m, m.egress[n]), e, held) = "none"
                             \/ Value(e, ConnectionFor(m, m.egress[n]).envSetting, Unset) = Blank
                             \/ Launch(m, values, held)[n].credential
                                   = TestCredential(ConnectionFor(m, m.egress[n]), e, held)
                    /\ (\A n \in DOMAIN m.egress :
                           /\ Reachable(m, m.egress[n], e)
                           /\ TestCredential(ConnectionFor(m, m.egress[n]), e, held) # "none")
                         => LaunchAllowed(m, values, held)
  BY DEF TestedIsLaunched
<1>1. ASSUME NEW n \in DOMAIN m.egress, Reachable(m, m.egress[n], e)
      PROVE  LET c == ConnectionFor(m, m.egress[n])
             IN  c.source \in DOMAIN e => e[c.source] # Blank
  <2>1. PICK c : c = ConnectionFor(m, m.egress[n])  OBVIOUS
  <2>2. c \in m.connections  BY <1>1, <2>1 DEF Reachable, ConnectionFor
  <2>3. SUFFICES ASSUME c.source \in DOMAIN e PROVE e[c.source] # Blank  BY <2>1
  <2>4. c.source \in Settings(m)  BY <2>3, EffectiveValues
  <2>5. "none" \notin Settings(m)  BY SettingsAssumption DEF SettingsTyped, Settings
  <2>6. m.settings[c.source].type = "select"
    BY <2>2, <2>4, <2>5 DEF ConnectionsValid, Offers
  <2> QED  BY <2>3, <2>6, SourceNotBlank
<1>2. ASSUME LaunchAllowed(m, values, held), NEW n \in DOMAIN m.egress, NEW c,
             c = ConnectionFor(m, m.egress[n]),
             TestCredential(c, e, held) # "none", Value(e, c.envSetting, Unset) # Blank
      PROVE  Launch(m, values, held)[n].credential = TestCredential(c, e, held)
  <2>1. Reachable(m, m.egress[n], e)  BY <1>2 DEF LaunchAllowed
  <2>2. c.source \in DOMAIN e => e[c.source] # Blank  BY <1>1, <1>2, <2>1
  <2>3. c.envSetting \in DOMAIN e => e[c.envSetting] # Blank  BY <1>2 DEF Value
  <2>4. LaunchCredential(c, e, held) = TestCredential(c, e, held)
    BY <1>2, <2>2, <2>3, SameCredential
  <2>5. Launch(m, values, held)[n].credential = LaunchCredential(c, e, held)
    BY <1>2 DEF Launch
  <2> QED  BY <2>4, <2>5
<1>3. ASSUME \A n \in DOMAIN m.egress :
                /\ Reachable(m, m.egress[n], e)
                /\ TestCredential(ConnectionFor(m, m.egress[n]), e, held) # "none"
      PROVE  LaunchAllowed(m, values, held)
  <2>1. ASSUME NEW n \in DOMAIN m.egress
        PROVE  Reachable(m, m.egress[n], e) /\ Equipped(ConnectionFor(m, m.egress[n]), e, held)
    BY <1>1, <1>3, <2>1, TestedIsEquipped
  <2> QED  BY <2>1 DEF LaunchAllowed
<1> QED  BY <1>2, <1>3

-----------------------------------------------------------------------------
LEMMA InvariantIsSound == SettingsInv => SettingsSound
<1> SUFFICES ASSUME SettingsInv PROVE SettingsSound  OBVIOUS
<1>1. SettingsTyped /\ (~ crossed => InTurn)  BY DEF SettingsInv
<1>2. DocumentReadable
  <2>1. DOMAIN Torn = {"torn"}  BY DEF Torn
  <2>2. document # Torn  BY <1>1, <2>1, SettingsAssumption DEF SettingsTyped
  <2> QED  BY <1>1, <2>2 DEF DocumentReadable, SettingsTyped, SecretsKept
<1>3. SavedIsThere
  <2>1. SUFFICES ASSUME InTurn,
                        NEW k \in DOMAIN saved \ {writers[j].key : j \in SettingsJobs},
                        NEW i \in DOMAIN saved[k]
                 PROVE  i \in DOMAIN Entry(document, k) /\ document[k][i] = saved[k][i]
    BY <1>1 DEF SavedIsThere
  <2>2. Within(saved[k], Entry(document, k))  BY <2>1 DEF InTurn, Underway
  <2>3. i \in DOMAIN Entry(document, k) /\ Entry(document, k)[i] = saved[k][i]  BY <2>2 DEF Within
  <2>4. k \in DOMAIN document  BY <2>3, NothingThere DEF Entry
  <2> QED  BY <2>3, <2>4 DEF Entry
<1> QED  BY <1>1, <1>2, <1>3, AlwaysValid, AlwaysLaunchedAsTested DEF SettingsSound

\* The settings of the plugins, whatever manifests are installed under whatever identity,
\* whichever commands cross, fail or are stopped: the document on disk is whole, what a
\* plugin runs with is what its own manifest accepts, what was saved in turn is there, and
\* what a test of a connection found is what the worker is launched with.
THEOREM SettingsStaySound == SettingsSpec => []SettingsSound
<1>1. SettingsInit => SettingsInv  BY SettingsStart
<1>2. SettingsInv /\ [SettingsNext]_settingsVars => SettingsInv'  BY SettingsGoOn
<1>3. SettingsInv => SettingsSound  BY InvariantIsSound
<1> QED  BY <1>1, <1>2, <1>3, PTL DEF SettingsSpec

(***************************************************************************)
(* The import of a document                                                *)
(***************************************************************************)

\* Where the task is: before it asks, or after it has asked for everything.
PlacesBefore == {"ValidatingFile", "checking", "marking", "reading", "ExtractingText", "OcrOptional",
                 "BuildingDocumentMap", "ExtractingSemantics", "prompts"}
PlacesAfter == {"validate", "compile", "PersistingCanvas", "put", "publish", "GeneratingPatch",
                "AwaitingReview"}
PlacesEnded == {"stopped", "over"}
PlacesAsking == {"ask", "recover"}

StagesOfJob == {JobStages[n] : n \in DOMAIN JobStages}
TaskRecord ==
  [at : PlacesBefore \union PlacesAsking \union PlacesAfter \union PlacesEnded, pass : Passes,
   chapter : 1 .. Len(Chapters) + 1, broken : BOOLEAN, try : 0 .. MaxTries, sent : 0 .. MaxThoughts]
AuditRecord == [pass : {"A", "B", "E"}, attempt : 0 .. 1, status : Statuses]

ImportTyped ==
  import \in [stage : StagesOfJob \union JobEnded, closed : Nat, hash : BOOLEAN, result : BOOLEAN]
TaskTyped == run \in TaskRecord
KeptTyped == fragments \in Seq(0 .. Len(Chapters))
AuditTyped == audit \in Seq(AuditRecord)
OutcomesTyped == outcomes \subseteq {"compiled", "stored", "published"}
CountsTyped ==
  /\ activity \in [chunks : Nat, retries : Nat]
  /\ heard \in [chunks : Nat, retries : Nat, calls : Nat, extra : Nat]
  /\ cursor \in [attempt : Nat, chunks : Nat]

\* The sink's cursor is the attempt that runs, and all it has heard of it.
CursorIsCurrent ==
  run.try > 0 => /\ cursor.attempt = run.try /\ cursor.chunks = run.sent
                 /\ run.at \in PlacesAsking

SectionsTo(m) == {k \in WithText : k < m}
MembersOf(s) == {s[n] : n \in DOMAIN s}
Ascends(s) == \A n \in 1 .. Len(s) - 1 : s[n] < s[n + 1]

\* What is kept when the task asks for a pass.
KeptIs ==
  /\ run.pass = "A" => ~ run.broken /\ fragments = <<>> /\ run.chapter = 1
  /\ run.pass = "B" => ~ run.broken /\ MembersOf(fragments) = SectionsTo(run.chapter) /\ Ascends(fragments)
  /\ run.pass = "fallback" => run.broken /\ fragments = <<>>
  /\ run.pass = "E" => \/ run.broken /\ fragments = <<0>>
                       \/ ~ run.broken /\ MembersOf(fragments) = WithText /\ Ascends(fragments)
  /\ run.pass = "B" /\ (run.try > 0 \/ run.at = "recover") => run.chapter \in WithText
  /\ run.at \in PlacesBefore => run.pass = "A"
  /\ run.at \in PlacesAfter => run.pass = "E"

\* The task is recovering exactly while the last record asks for it.
AuditIs ==
  /\ \A n \in DOMAIN audit : n > 1 => (audit[n].attempt = 1 <=> audit[n - 1].status = "needs-recovery")
  /\ run.at = "recover" <=> (audit # <<>> /\ audit[Len(audit)].status = "needs-recovery")

OutcomesAre ==
  /\ outcomes # {} => run.pass = "E"
  /\ "published" \in outcomes => "stored" \in outcomes
  /\ "stored" \in outcomes => "compiled" \in outcomes
  /\ run.at \in {"PersistingCanvas", "put", "publish", "GeneratingPatch", "AwaitingReview"} =>
       "compiled" \in outcomes
  /\ run.at \in {"publish", "GeneratingPatch", "AwaitingReview"} => "stored" \in outcomes
  /\ run.at \in {"GeneratingPatch", "AwaitingReview"} => "published" \in outcomes
  /\ import.stage \in {"GeneratingPatch", "AwaitingReview"} => "published" \in outcomes
  /\ run.at \notin {"ValidatingFile", "checking", "marking", "stopped", "over"} => import.hash
  /\ import.stage = "AwaitingReview" => import.result /\ import.hash

\* The passes behind the task, at most, and the calls of the one it is at.
PassesBehind ==
  CASE run.pass = "A" -> 0
    [] run.pass = "B" -> 1 + Cardinality(SectionsTo(run.chapter))
    [] run.pass = "fallback" -> 1 + Cardinality(WithText)
    [] run.pass = "E" -> 2 + Cardinality(WithText)

CallsHere ==
  CASE run.at = "recover" -> IF run.try > 0 THEN 2 ELSE 1
    [] run.at \in PlacesAfter \union PlacesEnded -> 2
    [] OTHER -> IF run.try > 0 THEN 1 ELSE 0

CallsAreCounted == heard.calls <= 2 * PassesBehind + CallsHere

PipelineInv ==
  /\ ImportTyped /\ TaskTyped /\ KeptTyped /\ AuditTyped /\ OutcomesTyped /\ CountsTyped
  /\ CursorIsCurrent /\ ActivityExact /\ KeptIs /\ AuditIs /\ OutcomesAre /\ CallsAreCounted

-----------------------------------------------------------------------------
LEMMA PipelineConstants ==
  /\ Len(Chapters) \in Nat /\ DOMAIN Chapters = 1 .. Len(Chapters)
  /\ MaxTries \in Nat \ {0} /\ MaxThoughts \in Nat \ {0} /\ MaxExtra \in Nat \ {0} /\ MaxAudit \in Nat \ {0}
BY PipelineAssumption, LenProperties

LEMMA SectionsCounted ==
  /\ Cardinality(WithText) \in Nat
  /\ \A m : Cardinality(SectionsTo(m)) \in Nat
  /\ \A m \in WithText : /\ Cardinality(SectionsTo(m + 1)) = Cardinality(SectionsTo(m)) + 1
                         /\ Cardinality(SectionsTo(m)) + 1 <= Cardinality(WithText)
                         /\ m \in 1 .. Len(Chapters)
<1>1. IsFiniteSet(WithText) /\ \A k \in WithText : k \in 1 .. Len(Chapters)
  <2>1. IsFiniteSet(1 .. Len(Chapters))
    BY PipelineConstants, FS_Interval
  <2>2. WithText \subseteq 1 .. Len(Chapters)
    BY PipelineConstants DEF WithText
  <2>. QED BY <2>1, <2>2, FS_Subset
<1>2. Cardinality(WithText) \in Nat
  BY <1>1, FS_CardinalityType
<1>3. \A m : SectionsTo(m) \subseteq WithText
  BY DEF SectionsTo
<1>4. \A m : IsFiniteSet(SectionsTo(m)) /\ Cardinality(SectionsTo(m)) \in Nat
  BY <1>1, <1>3, FS_Subset, FS_CardinalityType
<1>5. ASSUME NEW m \in WithText
      PROVE  /\ Cardinality(SectionsTo(m + 1)) = Cardinality(SectionsTo(m)) + 1
             /\ Cardinality(SectionsTo(m)) + 1 <= Cardinality(WithText)
  <2>1. m \in Nat /\ \A k \in WithText : k \in Nat
    BY <1>1, PipelineConstants
  <2>2. SectionsTo(m + 1) = SectionsTo(m) \union {m} /\ m \notin SectionsTo(m)
    <3>1. \A k \in WithText : (k < m + 1 <=> k < m \/ k = m) /\ ~ (m < m)
      BY <2>1
    <3>. QED BY <1>5, <3>1 DEF SectionsTo
  <2>3. Cardinality(SectionsTo(m) \union {m}) = Cardinality(SectionsTo(m)) + 1
    BY <1>4, <2>2, FS_AddElement
  <2>4. Cardinality(SectionsTo(m + 1)) <= Cardinality(WithText)
    BY <1>1, <1>3, FS_Subset
  <2>. QED BY <2>2, <2>3, <2>4
<1>. QED BY <1>1, <1>2, <1>4, <1>5

LEMMA SectionsAre ==
  /\ SectionsTo(1) = {}
  /\ SectionsTo(Len(Chapters) + 1) = WithText
  /\ \A m \in 1 .. Len(Chapters) : m \notin WithText => SectionsTo(m + 1) = SectionsTo(m)
  /\ \A m \in 1 .. Len(Chapters) : m \in WithText => SectionsTo(m + 1) = SectionsTo(m) \union {m}
<1>1. \A k \in WithText : k \in 1 .. Len(Chapters)
  BY SectionsCounted
<1>2. Len(Chapters) \in Nat
  BY PipelineConstants
<1>. QED BY <1>1, <1>2 DEF SectionsTo

LEMMA StagesAre ==
  /\ DOMAIN JobStages = 1 .. 10 /\ JobStages[1] = "Queued" /\ JobStages[10] = "AwaitingReview"
  /\ {"Queued", "ValidatingFile", "ExtractingText", "OcrOptional", "BuildingDocumentMap",
      "ExtractingSemantics", "CompilingGraphIr", "PersistingCanvas", "GeneratingPatch",
      "AwaitingReview"} \subseteq StagesOfJob
<1>1. DOMAIN JobStages = 1 .. 10 /\ JobStages[1] = "Queued" /\ JobStages[10] = "AwaitingReview"
  BY DEF JobStages
<1>2. /\ JobStages[2] = "ValidatingFile" /\ JobStages[3] = "ExtractingText" /\ JobStages[4] = "OcrOptional"
      /\ JobStages[5] = "BuildingDocumentMap" /\ JobStages[6] = "ExtractingSemantics"
      /\ JobStages[7] = "CompilingGraphIr" /\ JobStages[8] = "PersistingCanvas"
      /\ JobStages[9] = "GeneratingPatch"
  BY DEF JobStages
<1>3. \A n \in 1 .. 10 : JobStages[n] \in StagesOfJob
  BY <1>1 DEF StagesOfJob
<1>4. /\ 1 \in 1 .. 10 /\ 2 \in 1 .. 10 /\ 3 \in 1 .. 10 /\ 4 \in 1 .. 10 /\ 5 \in 1 .. 10
      /\ 6 \in 1 .. 10 /\ 7 \in 1 .. 10 /\ 8 \in 1 .. 10 /\ 9 \in 1 .. 10 /\ 10 \in 1 .. 10
  OBVIOUS
<1>. QED BY <1>1, <1>2, <1>3, <1>4

LEMMA PositionIs ==
  ASSUME NEW entered \in StagesOfJob
  PROVE  /\ Position(entered) \in 1 .. 10
         /\ entered # "Queued" => Position(entered) # 1
         /\ entered # "AwaitingReview" => Position(entered) # 10
<1>1. \E n \in DOMAIN JobStages : JobStages[n] = entered
  BY DEF StagesOfJob
<1>2. Position(entered) \in DOMAIN JobStages /\ JobStages[Position(entered)] = entered
  BY <1>1 DEF Position
<1>. QED BY <1>2, StagesAre

LEMMA PipelineStarts == PipelineInit => PipelineInv
<1>. SUFFICES ASSUME PipelineInit PROVE PipelineInv
  OBVIOUS
<1>1. ImportTyped /\ TaskTyped /\ KeptTyped /\ AuditTyped /\ OutcomesTyped /\ CountsTyped
  BY StagesAre, PipelineConstants
  DEF PipelineInit, ImportTyped, TaskTyped, KeptTyped, AuditTyped, OutcomesTyped, CountsTyped,
      TaskRecord, PlacesBefore, Passes
<1>2. CursorIsCurrent /\ ActivityExact /\ OutcomesAre
  BY DEF PipelineInit, CursorIsCurrent, ActivityExact, OutcomesAre
<1>3. KeptIs /\ AuditIs
  BY DEF PipelineInit, KeptIs, AuditIs, PlacesAfter
<1>4. CallsAreCounted
  BY DEF PipelineInit, CallsAreCounted, PassesBehind, CallsHere, PlacesAfter, PlacesEnded
<1>. QED BY <1>1, <1>2, <1>3, <1>4 DEF PipelineInv

LEMMA PipelineIsSound == PipelineInv => PipelineSound
<1>. SUFFICES ASSUME PipelineInv PROVE PipelineSound
  OBVIOUS
<1>1. PipelineTypeOK
  <2>1. \A n \in DOMAIN audit : audit[n] \in AuditRecord
    BY LenProperties, ElementOfSeq DEF PipelineInv, AuditTyped
  <2>. QED BY <2>1 DEF PipelineInv, PipelineTypeOK, ImportTyped, TaskTyped, KeptTyped, OutcomesTyped, StagesOfJob,
            TaskRecord, AuditRecord
<1>2. FragmentsAreWhole
  BY DEF PipelineInv, FragmentsAreWhole, KeptIs, OutcomesAre, MembersOf, Ascends
<1>3. RecoveriesAreAudited
  <2>1. \A n \in DOMAIN audit : n = Len(audit) => audit # <<>>
    BY EmptySeq DEF PipelineInv, AuditTyped
  <2>. QED BY <2>1 DEF PipelineInv, RecoveriesAreAudited, AuditIs
<1>4. AnnouncedIsStored /\ ActivityExact
  BY DEF PipelineInv, AnnouncedIsStored, OutcomesAre
<1>5. CallsBounded
  <2>1. PassesBehind <= 2 + Cardinality(WithText) /\ PassesBehind \in Nat
    <3>1. run.pass \in Passes /\ (run.pass = "B" => SectionsTo(run.chapter) \subseteq WithText)
      BY DEF PipelineInv, TaskTyped, TaskRecord, SectionsTo
    <3>2. Cardinality(SectionsTo(run.chapter)) <= Cardinality(WithText)
      <4>1. IsFiniteSet(WithText)
        <5>1. WithText \subseteq 1 .. Len(Chapters) /\ IsFiniteSet(1 .. Len(Chapters))
          BY PipelineConstants, FS_Interval DEF WithText
        <5>. QED BY <5>1, FS_Subset
      <4>. QED BY <4>1, FS_Subset DEF SectionsTo
    <3>. QED BY <3>1, <3>2, SectionsCounted DEF PassesBehind, Passes
  <2>2. CallsHere \in 0 .. 2
    BY DEF CallsHere
  <2>3. heard.calls \in Nat
    BY DEF PipelineInv, CountsTyped
  <2>. QED BY <2>1, <2>2, <2>3, SectionsCounted DEF PipelineInv, CallsAreCounted, CallsBounded
<1>6. ProgressInRange
  <2>1. import.stage \notin JobEnded => import.stage \in StagesOfJob
    BY DEF PipelineInv, ImportTyped
  <2>. QED BY <2>1, PositionIs DEF ProgressInRange, ReportedProgress
<1>. QED BY <1>1, <1>2, <1>3, <1>4, <1>5, <1>6 DEF PipelineSound
-----------------------------------------------------------------------------
(* Steps of the task that only move it. *)

MovesTo(next) == run' = [run EXCEPT !.at = next] /\ UNCHANGED <<fragments, audit, activity, cursor, heard>>

LeadsTo(at, next) ==
  \/ at \in PlacesBefore /\ next \in PlacesBefore \union {"ask", "stopped"}
  \/ at \in PlacesAfter /\ next \in PlacesAfter \union PlacesEnded
  \/ at = "stopped" /\ next = "over"

\* All but what the job is and what was done with the canvas.
MovesKept ==
  /\ TaskTyped /\ KeptTyped /\ AuditTyped /\ CountsTyped
  /\ CursorIsCurrent /\ ActivityExact /\ KeptIs /\ AuditIs /\ CallsAreCounted

LEMMA PlacesApart ==
  /\ PlacesBefore \intersect (PlacesAsking \union PlacesAfter \union PlacesEnded) = {}
  /\ PlacesAsking \intersect (PlacesAfter \union PlacesEnded) = {}
  /\ PlacesAfter \intersect PlacesEnded = {}
BY DEF PlacesBefore, PlacesAsking, PlacesAfter, PlacesEnded

LEMMA MovesKeep ==
  ASSUME NEW next, PipelineInv, LeadsTo(run.at, next), MovesTo(next)
  PROVE  MovesKept'
<1>1. TaskTyped /\ next \in PlacesBefore \union PlacesAsking \union PlacesAfter \union PlacesEnded
  BY DEF PipelineInv, LeadsTo, PlacesAsking, PlacesEnded
<1>2. run' = [run EXCEPT !.at = next]
  BY DEF MovesTo
<1>3. /\ TaskTyped' /\ run'.at = next /\ run'.pass = run.pass /\ run'.chapter = run.chapter
      /\ run'.broken = run.broken /\ run'.try = run.try /\ run'.sent = run.sent
  BY <1>1, <1>2 DEF TaskTyped, TaskRecord
<1>4. fragments' = fragments /\ audit' = audit /\ activity' = activity /\ cursor' = cursor /\ heard' = heard
  BY DEF MovesTo
<1>5. run.at \notin PlacesAsking /\ run.at # "recover" /\ next # "recover"
  BY PlacesApart DEF LeadsTo, PlacesAsking, PlacesBefore, PlacesAfter, PlacesEnded
<1>6. run.try = 0
  <2>1. run.try \in Nat
    BY <1>1, PipelineConstants DEF TaskTyped, TaskRecord
  <2>. QED BY <1>5, <2>1 DEF PipelineInv, CursorIsCurrent
<1>7. CursorIsCurrent'
  BY <1>3, <1>6 DEF CursorIsCurrent
<1>8. KeptIs'
  <2>1. next \in PlacesBefore => run.pass = "A"
    BY PlacesApart DEF PipelineInv, KeptIs, LeadsTo, PlacesEnded
  <2>2. next \in PlacesAfter => run.pass = "E"
    BY PlacesApart DEF PipelineInv, KeptIs, LeadsTo, PlacesAsking, PlacesEnded
  <2>. QED BY <1>3, <1>4, <1>5, <1>6, <2>1, <2>2 DEF PipelineInv, KeptIs
<1>9. AuditIs'
  BY <1>3, <1>4, <1>5 DEF PipelineInv, AuditIs
<1>10. CallsAreCounted'
  <2>1. PassesBehind' = PassesBehind
    BY <1>3 DEF PassesBehind
  <2>2. CallsHere <= CallsHere' /\ CallsHere \in Nat /\ CallsHere' \in Nat
    BY <1>3, <1>5, <1>6, PlacesApart DEF CallsHere, LeadsTo, PlacesAsking, PlacesEnded
  <2>3. PassesBehind \in Nat
    BY SectionsCounted, <1>1 DEF PassesBehind, TaskTyped, TaskRecord, Passes
  <2>4. heard.calls \in Nat /\ heard.calls <= 2 * PassesBehind + CallsHere
    BY DEF PipelineInv, CountsTyped, CallsAreCounted
  <2>. QED BY <1>4, <2>1, <2>2, <2>3, <2>4 DEF CallsAreCounted
<1>11. KeptTyped' /\ AuditTyped' /\ CountsTyped' /\ ActivityExact'
  BY <1>4 DEF PipelineInv, KeptTyped, AuditTyped, CountsTyped, ActivityExact
<1>. QED BY <1>3, <1>7, <1>8, <1>9, <1>10, <1>11 DEF MovesKept

\* What advance_stage makes of the job.
LEMMA ProceedIs ==
  ASSUME NEW entered \in StagesOfJob \ {"Queued"}, NEW next, PipelineInv, Proceed(entered, next),
         entered = "AwaitingReview" => import.hash
  PROVE  /\ ImportTyped'
         /\ import'.hash = import.hash
         /\ import' = import \/ (run'.at = next /\ import'.stage = entered)
         /\ import'.stage = "AwaitingReview" => import'.result /\ import'.hash
         /\ run' = [run EXCEPT !.at = next] \/ run' = [run EXCEPT !.at = "stopped"]
<1>1. ImportTyped /\ TaskTyped
  BY DEF PipelineInv
<1>2. CASE import.stage \in JobEnded
  BY <1>1, <1>2 DEF Proceed, ImportTyped, PipelineInv, OutcomesAre
<1>3. CASE import.stage \notin JobEnded
  <2>1. import' = EnterStage(entered) /\ run' = [run EXCEPT !.at = next]
    BY <1>3 DEF Proceed
  <2>2. Position(entered) - 2 \in Nat
    <3>1. Position(entered) \in 1 .. 10 /\ Position(entered) # 1
      BY PositionIs
    <3>. QED BY <3>1
  <2>3. /\ ImportTyped' /\ import'.hash = import.hash /\ import'.stage = entered
        /\ import'.result = (import.result \/ entered = "AwaitingReview")
    BY <1>1, <2>1, <2>2 DEF EnterStage, ImportTyped
  <2>4. run'.at = next
    BY <1>1, <2>1 DEF TaskTyped, TaskRecord
  <2>. QED BY <2>1, <2>3, <2>4
<1>. QED BY <1>2, <1>3

\* The task of a job that goes on: from its place, into a stage, to the next place.
LEMMA ProceedKeeps ==
  ASSUME NEW entered \in StagesOfJob \ {"Queued"}, NEW next, PipelineInv, Proceed(entered, next),
         UNCHANGED <<fragments, audit, activity, cursor, heard, outcomes>>,
         LeadsTo(run.at, next), LeadsTo(run.at, "stopped"), next # "over" \/ entered = "AwaitingReview",
         entered = "AwaitingReview" => import.hash,
         entered \in {"GeneratingPatch", "AwaitingReview"} => "published" \in outcomes,
         next \in {"PersistingCanvas", "put", "publish", "GeneratingPatch", "AwaitingReview"} =>
           "compiled" \in outcomes,
         next \in {"publish", "GeneratingPatch", "AwaitingReview"} => "stored" \in outcomes,
         next \in {"GeneratingPatch", "AwaitingReview"} => "published" \in outcomes,
         next \notin {"ValidatingFile", "checking", "marking", "stopped", "over"} => import.hash
  PROVE  PipelineInv'
<1>1. /\ ImportTyped'
      /\ import'.hash = import.hash
      /\ import' = import \/ (run'.at = next /\ import'.stage = entered)
      /\ import'.stage = "AwaitingReview" => import'.result /\ import'.hash
      /\ run' = [run EXCEPT !.at = next] \/ run' = [run EXCEPT !.at = "stopped"]
  BY ProceedIs
<1>2. PICK to \in {next, "stopped"} : run' = [run EXCEPT !.at = to]
  BY <1>1
<1>3. MovesKept'
  BY <1>2, MovesKeep DEF MovesTo
<1>4. run'.at = to /\ run'.pass = run.pass
  BY <1>2 DEF PipelineInv, TaskTyped, TaskRecord
<1>5. OutcomesTyped' /\ OutcomesAre'
  BY <1>1, <1>2, <1>4 DEF PipelineInv, OutcomesTyped, OutcomesAre
<1>. QED BY <1>1, <1>3, <1>5 DEF PipelineInv, MovesKept

\* A step that leaves the job alone.
LEMMA AloneKeeps ==
  ASSUME NEW next, PipelineInv, MovesTo(next), LeadsTo(run.at, next), import' = import,
         outcomes' \in {outcomes, outcomes \union {"compiled"}, outcomes \union {"stored"},
                        outcomes \union {"published"}},
         outcomes' # outcomes => run.pass = "E",
         "published" \in outcomes' => "stored" \in outcomes',
         "stored" \in outcomes' => "compiled" \in outcomes',
         next \in {"PersistingCanvas", "put", "publish", "GeneratingPatch", "AwaitingReview"} =>
           "compiled" \in outcomes',
         next \in {"publish", "GeneratingPatch", "AwaitingReview"} => "stored" \in outcomes',
         next \in {"GeneratingPatch", "AwaitingReview"} => "published" \in outcomes',
         next \notin {"ValidatingFile", "checking", "marking", "stopped", "over"} => import.hash
  PROVE  PipelineInv'
<1>1. MovesKept'
  BY MovesKeep
<1>2. run'.at = next /\ run'.pass = run.pass
  BY DEF PipelineInv, TaskTyped, TaskRecord, MovesTo
<1>3. OutcomesTyped' /\ OutcomesAre' /\ ImportTyped'
  BY <1>2 DEF PipelineInv, OutcomesTyped, OutcomesAre, ImportTyped
<1>. QED BY <1>1, <1>3 DEF PipelineInv, MovesKept
LEMMA ValidationKeeps ==
  ASSUME PipelineInv, BeginValidation \/ CheckFile \/ ReadText \/ LoadPrompts
  PROVE  PipelineInv'
<1>1. CASE BeginValidation
  <2>1. LeadsTo(run.at, "checking") /\ LeadsTo(run.at, "stopped")
    BY <1>1 DEF BeginValidation, LeadsTo, PlacesBefore
  <2>. QED BY <1>1, <2>1, StagesAre, ProceedKeeps DEF BeginValidation
<1>2. CASE CheckFile
  <2>1. PICK next \in {"marking", "stopped"} : run' = [run EXCEPT !.at = next]
    BY <1>2 DEF CheckFile
  <2>2. LeadsTo(run.at, next)
    BY <1>2 DEF CheckFile, LeadsTo, PlacesBefore
  <2>3. MovesTo(next) /\ import' = import /\ outcomes' = outcomes
    BY <1>2, <2>1 DEF CheckFile, MovesTo
  <2>. QED BY <2>1, <2>2, <2>3, AloneKeeps DEF PipelineInv, OutcomesAre
<1>3. CASE ReadText
  <2>1. PICK next \in {"ExtractingText", "stopped"} : run' = [run EXCEPT !.at = next]
    BY <1>3 DEF ReadText
  <2>2. LeadsTo(run.at, next) /\ import.hash
    BY <1>3 DEF ReadText, LeadsTo, PlacesBefore, PipelineInv, OutcomesAre
  <2>3. MovesTo(next) /\ import' = import /\ outcomes' = outcomes
    BY <1>3, <2>1 DEF ReadText, MovesTo
  <2>. QED BY <2>1, <2>2, <2>3, AloneKeeps DEF PipelineInv, OutcomesAre
<1>4. CASE LoadPrompts
  <2>1. PICK next \in {"ask", "stopped"} : run' = [run EXCEPT !.at = next]
    BY <1>4 DEF LoadPrompts
  <2>2. LeadsTo(run.at, next) /\ import.hash
    BY <1>4 DEF LoadPrompts, LeadsTo, PlacesBefore, PipelineInv, OutcomesAre
  <2>3. MovesTo(next) /\ import' = import /\ outcomes' = outcomes
    BY <1>4, <2>1 DEF LoadPrompts, MovesTo
  <2>. QED BY <2>1, <2>2, <2>3, AloneKeeps DEF PipelineInv, OutcomesAre
<1>. QED BY <1>1, <1>2, <1>3, <1>4

LEMMA MarkKeeps == ASSUME PipelineInv, MarkValidated PROVE PipelineInv'
<1>1. run' = [run EXCEPT !.at = "reading"] /\ import' = [import EXCEPT !.hash = TRUE] /\ outcomes' = outcomes
  BY DEF MarkValidated
<1>2. MovesKept'
  <2>1. MovesTo("reading") /\ LeadsTo(run.at, "reading")
    BY DEF MarkValidated, MovesTo, LeadsTo, PlacesBefore
  <2>. QED BY <2>1, MovesKeep
<1>3. run'.at = "reading" /\ run'.pass = run.pass
  BY <1>1 DEF PipelineInv, TaskTyped, TaskRecord
<1>4. ImportTyped' /\ import'.stage = import.stage /\ import'.result = import.result /\ import'.hash
  BY <1>1 DEF PipelineInv, ImportTyped
<1>5. OutcomesTyped' /\ OutcomesAre'
  BY <1>1, <1>3, <1>4 DEF PipelineInv, OutcomesTyped, OutcomesAre
<1>. QED BY <1>2, <1>4, <1>5 DEF PipelineInv, MovesKept

LEMMA DivideKeeps == ASSUME PipelineInv, DivideText PROVE PipelineInv'
<1>. DEFINE Moved(at, next) == run.at = at /\ Proceed(at, next)
            From == {"ExtractingText", "OcrOptional", "BuildingDocumentMap", "ExtractingSemantics"}
            To == {"OcrOptional", "BuildingDocumentMap", "ExtractingSemantics", "prompts"}
<1>1. PICK at \in From, next \in To : Moved(at, next)
  BY DEF DivideText
<1>2. LeadsTo(run.at, next) /\ LeadsTo(run.at, "stopped") /\ import.hash
  BY <1>1 DEF LeadsTo, PlacesBefore, PipelineInv, OutcomesAre
<1>3. at \in StagesOfJob \ {"Queued"}
  BY StagesAre
<1>4. UNCHANGED <<fragments, audit, activity, cursor, heard, outcomes>>
  BY DEF DivideText
<1>. QED BY <1>1, <1>2, <1>3, <1>4, ProceedKeeps

LEMMA BusCallKeeps ==
  ASSUME PipelineInv,
         NEW at, NEW done, NEW next,
         <<at, done, next>> \in {<<"compile", "compiled", "PersistingCanvas">>, <<"put", "stored", "publish">>,
                                    <<"publish", "published", "GeneratingPatch">>},
         BusCall(at, done, next)
  PROVE  PipelineInv'
<1>1. import' = import /\ run.at = at
  BY DEF BusCall
<1>2. run.at \in PlacesAfter /\ run.pass = "E" /\ import.hash
  BY <1>1 DEF PlacesAfter, PipelineInv, KeptIs, OutcomesAre
<1>3. CASE outcomes' = outcomes \union {done} /\ run' = [run EXCEPT !.at = next]
  <2>1. MovesTo(next) /\ LeadsTo(run.at, next)
    BY <1>2, <1>3 DEF BusCall, MovesTo, LeadsTo, PlacesAfter
  <2>2. /\ "published" \in outcomes' => "stored" \in outcomes'
        /\ "stored" \in outcomes' => "compiled" \in outcomes'
        /\ next \in {"PersistingCanvas", "put", "publish", "GeneratingPatch", "AwaitingReview"} =>
             "compiled" \in outcomes'
        /\ next \in {"publish", "GeneratingPatch", "AwaitingReview"} => "stored" \in outcomes'
        /\ next \in {"GeneratingPatch", "AwaitingReview"} => "published" \in outcomes'
    BY <1>1, <1>3 DEF PipelineInv, OutcomesAre
  <2>. QED BY <1>1, <1>2, <1>3, <2>1, <2>2, AloneKeeps
<1>4. CASE outcomes' = outcomes /\ run' = [run EXCEPT !.at = "stopped"]
  <2>1. MovesTo("stopped") /\ LeadsTo(run.at, "stopped")
    BY <1>2, <1>4 DEF BusCall, MovesTo, LeadsTo, PlacesEnded
  <2>. QED BY <1>1, <1>4, <2>1, AloneKeeps DEF PipelineInv, OutcomesAre
<1>. QED BY <1>3, <1>4 DEF BusCall

LEMMA CanvasKeeps ==
  ASSUME PipelineInv,
         ValidateExtraction \/ CompileCanvas \/ PersistCanvas \/ PublishCompletion \/ OfferPatch
  PROVE  PipelineInv'
<1>1. CASE ValidateExtraction /\ Proceed("CompilingGraphIr", "compile")
  <2>1. LeadsTo(run.at, "compile") /\ LeadsTo(run.at, "stopped") /\ import.hash
    BY <1>1 DEF ValidateExtraction, LeadsTo, PlacesAfter, PlacesEnded, PipelineInv, OutcomesAre
  <2>2. UNCHANGED <<fragments, audit, activity, cursor, heard, outcomes>>
    BY <1>1 DEF ValidateExtraction
  <2>. QED BY <1>1, <2>1, <2>2, StagesAre, ProceedKeeps
<1>2. CASE ValidateExtraction /\ run' = [run EXCEPT !.at = "stopped"] /\ UNCHANGED import
  <2>1. MovesTo("stopped") /\ LeadsTo(run.at, "stopped") /\ outcomes' = outcomes
    BY <1>2 DEF ValidateExtraction, MovesTo, LeadsTo, PlacesAfter, PlacesEnded
  <2>. QED BY <1>2, <2>1, AloneKeeps DEF PipelineInv, OutcomesAre
<1>3. CASE run.at = "PersistingCanvas" /\ Proceed("PersistingCanvas", "put")
           /\ UNCHANGED <<fragments, audit, activity, cursor, heard, outcomes>>
  <2>1. LeadsTo(run.at, "put") /\ LeadsTo(run.at, "stopped") /\ import.hash /\ "compiled" \in outcomes
    BY <1>3 DEF LeadsTo, PlacesAfter, PlacesEnded, PipelineInv, OutcomesAre
  <2>. QED BY <1>3, <2>1, StagesAre, ProceedKeeps
<1>4. CASE run.at = "GeneratingPatch" /\ Proceed("GeneratingPatch", "AwaitingReview") /\ OfferPatch
  <2>1. /\ LeadsTo(run.at, "AwaitingReview") /\ LeadsTo(run.at, "stopped") /\ import.hash
        /\ {"compiled", "stored", "published"} \subseteq outcomes
    BY <1>4 DEF LeadsTo, PlacesAfter, PlacesEnded, PipelineInv, OutcomesAre
  <2>2. UNCHANGED <<fragments, audit, activity, cursor, heard, outcomes>>
    BY <1>4 DEF OfferPatch
  <2>. QED BY <1>4, <2>1, <2>2, StagesAre, ProceedKeeps
<1>5. CASE run.at = "AwaitingReview" /\ Proceed("AwaitingReview", "over") /\ OfferPatch
  <2>1. /\ LeadsTo(run.at, "over") /\ LeadsTo(run.at, "stopped") /\ import.hash
        /\ {"compiled", "stored", "published"} \subseteq outcomes
    BY <1>5 DEF LeadsTo, PlacesAfter, PlacesEnded, PipelineInv, OutcomesAre
  <2>2. UNCHANGED <<fragments, audit, activity, cursor, heard, outcomes>>
    BY <1>5 DEF OfferPatch
  <2>. QED BY <1>5, <2>1, <2>2, StagesAre, ProceedKeeps
<1>6. CASE \/ BusCall("compile", "compiled", "PersistingCanvas") \/ BusCall("put", "stored", "publish")
           \/ BusCall("publish", "published", "GeneratingPatch")
  BY <1>6, BusCallKeeps
<1>. QED BY <1>1, <1>2, <1>3, <1>4, <1>5, <1>6
         DEF ValidateExtraction, CompileCanvas, PersistCanvas, PublishCompletion, OfferPatch

LEMMA FailKeepsImport == ASSUME PipelineInv, FailImport PROVE PipelineInv'
<1>1. run.at = "stopped" /\ run' = [run EXCEPT !.at = "over"] /\ outcomes' = outcomes
  BY DEF FailImport
<1>2. MovesKept'
  <2>1. MovesTo("over") /\ LeadsTo(run.at, "over")
    BY DEF FailImport, MovesTo, LeadsTo
  <2>. QED BY <2>1, MovesKeep
<1>3. run'.at = "over" /\ run'.pass = run.pass
  BY <1>1 DEF PipelineInv, TaskTyped, TaskRecord
<1>4. ImportTyped' /\ (import' = import \/ import'.stage = "Failed")
  <2>1. ImportTyped /\ import' \in {import, [import EXCEPT !.stage = "Failed", !.closed = import.closed + 2]}
    BY DEF FailImport, PipelineInv
  <2>2. PICK m \in Nat : m = import.closed + 2
    BY <2>1 DEF ImportTyped
  <2>3. CASE import' = [import EXCEPT !.stage = "Failed", !.closed = m]
    BY <2>1, <2>2, <2>3 DEF ImportTyped, JobEnded
  <2>. QED BY <2>1, <2>2, <2>3 DEF ImportTyped
<1>5. OutcomesTyped' /\ OutcomesAre'
  BY <1>1, <1>3, <1>4 DEF PipelineInv, OutcomesTyped, OutcomesAre
<1>. QED BY <1>2, <1>4, <1>5 DEF PipelineInv, MovesKept

LEMMA CancelKeepsImport == ASSUME PipelineInv, CancelImport PROVE PipelineInv'
<1>1. UNCHANGED <<run, fragments, audit, activity, cursor, heard, outcomes>>
  BY DEF CancelImport
<1>2. import' = [import EXCEPT !.stage = "Cancelled",
                   !.closed = IF import.stage = "Queued" THEN 1 ELSE import.closed + 2]
  BY DEF CancelImport
<1>3. ImportTyped' /\ import'.stage = "Cancelled" /\ import'.hash = import.hash
  <2>1. PICK m \in Nat : m = IF import.stage = "Queued" THEN 1 ELSE import.closed + 2
    BY DEF PipelineInv, ImportTyped
  <2>2. import' = [import EXCEPT !.stage = "Cancelled", !.closed = m]
    BY <1>2, <2>1
  <2>. QED BY <2>1, <2>2 DEF PipelineInv, ImportTyped, JobEnded
<1>4. OutcomesAre'
  BY <1>1, <1>3 DEF PipelineInv, OutcomesAre
<1>. QED BY <1>1, <1>3, <1>4
         DEF PipelineInv, TaskTyped, KeptTyped, AuditTyped, OutcomesTyped, CountsTyped, CursorIsCurrent,
             ActivityExact, KeptIs, AuditIs, CallsAreCounted, PassesBehind, CallsHere

-----------------------------------------------------------------------------
(* Steps of the task that ask *)

Chained(records) ==
  \A n \in DOMAIN records : n > 1 => (records[n].attempt = 1 <=> records[n - 1].status = "needs-recovery")

\* What is left of the audit when a record is added ends with that record.
LEMMA NewestIs ==
  ASSUME NEW records \in Seq(AuditRecord), NEW entry \in AuditRecord, Chained(records),
         records # <<>> => (entry.attempt = 1 <=> records[Len(records)].status = "needs-recovery")
  PROVE  LET newest == Newest(Append(records, entry))
         IN newest \in Seq(AuditRecord) /\ Len(newest) > 0 /\ newest[Len(newest)] = entry /\ Chained(newest)
<1>. DEFINE all == Append(records, entry)
<1>0. Len(records) \in Nat /\ MaxAudit \in Nat \ {0} /\ DOMAIN records = 1 .. Len(records)
  BY PipelineConstants, LenProperties
<1>1. /\ all \in Seq(AuditRecord) /\ Len(all) = Len(records) + 1 /\ DOMAIN all = 1 .. Len(records) + 1
      /\ all[Len(records) + 1] = entry
      /\ \A n \in 1 .. Len(records) : all[n] = records[n]
  BY AppendProperties, LenProperties
<1>2. Chained(all)
  <2>1. ASSUME NEW n \in 1 .. Len(records) + 1, n > 1
        PROVE  all[n].attempt = 1 <=> all[n - 1].status = "needs-recovery"
    <3>1. CASE n = Len(records) + 1
      <4>1. n - 1 = Len(records) /\ n - 1 \in 1 .. Len(records) /\ records # <<>>
        BY <1>0, <2>1, <3>1, EmptySeq
      <4>. QED BY <1>1, <3>1, <4>1
    <3>2. CASE n # Len(records) + 1
      <4>1. n \in 1 .. Len(records) /\ n - 1 \in 1 .. Len(records)
        BY <1>0, <2>1, <3>2
      <4>. QED BY <1>0, <1>1, <2>1, <4>1 DEF Chained
    <3>. QED BY <3>1, <3>2
  <2>. QED BY <1>1, <2>1 DEF Chained
<1>. HIDE DEF all
<1>3. CASE Len(all) <= MaxAudit
  <2>1. Newest(all) = all
    BY <1>0, <1>1, <1>3 DEF Newest
  <2>. QED BY <1>0, <1>1, <1>2, <2>1 DEF all
<1>4. CASE Len(all) > MaxAudit
  <2>0. Len(all) - MaxAudit + 1 \in 1 .. Len(all)
    BY <1>0, <1>1, <1>4
  <2>1. PICK from \in 1 .. Len(all) : from = Len(all) - MaxAudit + 1
    BY <2>0
  <2>2. Newest(all) = SubSeq(all, from, Len(all))
    BY <1>4, <2>1 DEF Newest
  <2>. DEFINE part == SubSeq(all, from, Len(all))
  <2>3. /\ part \in Seq(AuditRecord) /\ Len(part) = MaxAudit /\ DOMAIN part = 1 .. MaxAudit
        /\ \A n \in 1 .. MaxAudit : part[n] = all[from + n - 1]
    <3>1. Len(all) \in 1 .. Len(all) /\ Len(all) - from + 1 = MaxAudit /\ from <= Len(all) + 1
      BY <1>0, <1>1, <2>1
    <3>2. \A n \in 1 .. MaxAudit : from + n - 1 \in 1 .. Len(all)
      BY <1>0, <1>1, <2>1
    <3>3. /\ Len(part) = Len(all) - from + 1 /\ part \in Seq(AuditRecord)
          /\ \A n \in 1 .. Len(all) - from + 1 : part[n] = all[from + n - 1]
      <4>1. from \in 1 .. Len(all) + 1 /\ Len(all) \in from - 1 .. Len(all)
        BY <1>0, <1>1, <2>1
      <4>. QED BY <1>1, <4>1, SubSeqProperties
    <3>. HIDE DEF part
    <3>. QED BY <3>1, <3>3, LenProperties
  <2>. HIDE DEF part
  <2>4. part[MaxAudit] = entry
    <3>1. MaxAudit \in 1 .. MaxAudit /\ from + MaxAudit - 1 = Len(records) + 1
      BY <1>0, <1>1, <2>1
    <3>. QED BY <1>1, <2>3, <3>1
  <2>5. Chained(part)
    <3>1. ASSUME NEW n \in 1 .. MaxAudit, n > 1
          PROVE  part[n].attempt = 1 <=> part[n - 1].status = "needs-recovery"
      <4>0. from + n - 1 \in 1 .. Len(records) + 1 /\ from + n - 1 > 1
        BY <1>0, <1>1, <2>1, <3>1
      <4>1. PICK m \in 1 .. Len(records) + 1 : m = from + n - 1 /\ m > 1
        BY <4>0
      <4>2. n - 1 \in 1 .. MaxAudit /\ from + (n - 1) - 1 = m - 1
        BY <1>0, <1>1, <2>1, <3>1, <4>1
      <4>3. part[n] = all[m] /\ part[n - 1] = all[m - 1]
        BY <2>3, <4>1, <4>2
      <4>. QED BY <1>1, <1>2, <4>1, <4>3 DEF Chained
    <3>. QED BY <2>3, <3>1 DEF Chained
  <2>. QED BY <1>0, <2>2, <2>3, <2>4, <2>5 DEF part, all
<1>. QED BY <1>0, <1>1, <1>3, <1>4

LEMMA RecordIs ==
  ASSUME PipelineInv, NEW attempt \in 0 .. 1, NEW status \in Statuses, RecordRepairAudit(attempt, status),
         attempt = 1 <=> run.at = "recover"
  PROVE  AuditTyped' /\ Chained(audit') /\ audit' # <<>> /\ audit'[Len(audit')].status = status
<1>. DEFINE entry == [pass |-> Audited(run.pass), attempt |-> attempt, status |-> status]
<1>1. audit \in Seq(AuditRecord) /\ Chained(audit)
  BY DEF PipelineInv, AuditTyped, AuditIs, Chained
<1>2. entry \in AuditRecord /\ entry.attempt = attempt /\ entry.status = status
  BY DEF PipelineInv, TaskTyped, TaskRecord, Passes, Audited, AuditRecord
<1>3. audit # <<>> => (attempt = 1 <=> audit[Len(audit)].status = "needs-recovery")
  BY DEF PipelineInv, AuditIs
<1>4. audit' = Newest(Append(audit, entry))
  BY DEF RecordRepairAudit
<1>. HIDE DEF entry
<1>5. audit' \in Seq(AuditRecord) /\ Len(audit') > 0 /\ audit'[Len(audit')] = entry /\ Chained(audit')
  BY <1>1, <1>2, <1>3, <1>4, NewestIs
<1>6. audit' # <<>>
  BY <1>5, EmptySeq
<1>. QED BY <1>2, <1>5, <1>6 DEF AuditTyped

\* The job and the canvas while the task asks.
LEMMA AskingLeavesOutcomes ==
  ASSUME PipelineInv, run.at \in PlacesAsking, import' = import, outcomes' = outcomes,
         run'.at \in PlacesAsking \union {"stopped", "validate"}, run.pass = "E" => run'.pass = "E"
  PROVE  ImportTyped' /\ OutcomesTyped' /\ OutcomesAre'
BY DEF PipelineInv, PlacesAsking, ImportTyped, OutcomesTyped, OutcomesAre

\* The counted calls stay below their bound as the bound rises with them.
Allowed == 2 * PassesBehind + CallsHere

LEMMA AllowedIs == TaskTyped => PassesBehind \in Nat /\ CallsHere \in 0 .. 2 /\ Allowed \in Nat
<1>. SUFFICES ASSUME TaskTyped PROVE PassesBehind \in Nat /\ CallsHere \in 0 .. 2 /\ Allowed \in Nat
  OBVIOUS
<1>1. PassesBehind \in Nat
  BY SectionsCounted DEF PassesBehind, TaskTyped, TaskRecord, Passes
<1>2. CallsHere \in 0 .. 2
  BY DEF CallsHere
<1>. QED BY <1>1, <1>2 DEF Allowed

\* A pass that has a result makes room for the next.
ResultKept ==
  /\ TaskTyped' /\ KeptTyped' /\ KeptIs' /\ run'.try = 0
  /\ run'.at \in {"ask", "validate", "stopped"} /\ (run.pass = "E" => run'.pass = "E")
  /\ Allowed <= Allowed'

LEMMA ZeroTask == 0 \in 0 .. MaxTries /\ 0 \in 0 .. MaxThoughts
BY PipelineConstants

LEMMA WithResultKeeps ==
  ASSUME PipelineInv, run.at \in PlacesAsking, run.try > 0, WithResult
  PROVE  ResultKept
<1>0. /\ TaskTyped /\ KeptTyped /\ KeptIs /\ run.at # "validate" /\ run.at \notin PlacesAfter \union PlacesEnded
      /\ Len(Chapters) \in Nat /\ Cardinality(WithText) \in Nat /\ CallsHere \in 0 .. 2
  BY AllowedIs, PlacesApart, PipelineConstants, SectionsCounted DEF PipelineInv, PlacesAsking
<1>1. CASE run.pass = "A" /\ run' = [run EXCEPT !.at = "ask", !.try = 0, !.sent = 0, !.pass = "B"]
           /\ fragments' = fragments
  <2>1. /\ TaskTyped' /\ run'.try = 0 /\ run'.at = "ask" /\ run'.pass = "B" /\ run'.chapter = run.chapter
        /\ run'.broken = run.broken
    BY <1>0, <1>1, ZeroTask DEF TaskTyped, TaskRecord, Passes, PlacesAsking
  <2>2. run.chapter = 1 /\ fragments = <<>> /\ ~ run.broken
    BY <1>0, <1>1 DEF KeptIs
  <2>3. MembersOf(fragments) = {} /\ Ascends(fragments)
    BY <2>2 DEF MembersOf, Ascends
  <2>4. KeptIs' /\ KeptTyped'
    <3>1. /\ fragments' = fragments /\ run'.broken = FALSE /\ SectionsTo(run'.chapter) = {}
          /\ run'.at \notin PlacesBefore \union PlacesAfter
      BY <1>1, <2>1, <2>2, SectionsAre DEF TaskTyped, TaskRecord, PlacesBefore, PlacesAfter
    <3>. QED BY <1>0, <2>1, <2>3, <3>1 DEF KeptIs, KeptTyped
  <2>5. PassesBehind = 0 /\ PassesBehind' = 1 + Cardinality(SectionsTo(run.chapter)) /\ CallsHere' = 0
    BY <1>1, <2>1 DEF PassesBehind, CallsHere, PlacesAfter, PlacesEnded
  <2>6. Allowed <= Allowed'
    BY <1>0, <2>5, SectionsCounted DEF Allowed
  <2>. QED BY <1>1, <2>1, <2>4, <2>6 DEF ResultKept
<1>2. CASE run.pass = "B" /\ run' = [run EXCEPT !.at = "ask", !.try = 0, !.sent = 0, !.chapter = run.chapter + 1]
           /\ fragments' = Append(fragments, run.chapter)
  <2>1. run.chapter \in WithText /\ run.chapter \in 1 .. Len(Chapters)
    BY <1>0, <1>2, SectionsCounted DEF KeptIs, PipelineInv
  <2>2. PICK m \in 1 .. Len(Chapters) + 1 : m = run.chapter + 1
    BY <1>0, <2>1
  <2>3. /\ TaskTyped' /\ run'.try = 0 /\ run'.at = "ask" /\ run'.pass = "B" /\ run'.chapter = m
        /\ run'.broken = run.broken
    BY <1>0, <1>2, <2>2, ZeroTask DEF TaskTyped, TaskRecord, Passes, PlacesAsking
  <2>4. /\ fragments \in Seq(0 .. Len(Chapters)) /\ ~ run.broken
        /\ MembersOf(fragments) = SectionsTo(run.chapter) /\ Ascends(fragments)
    BY <1>0, <1>2 DEF KeptTyped, KeptIs
  <2>5. /\ fragments' \in Seq(0 .. Len(Chapters)) /\ Len(fragments) \in Nat /\ Len(fragments') = Len(fragments) + 1
        /\ DOMAIN fragments = 1 .. Len(fragments) /\ DOMAIN fragments' = 1 .. Len(fragments) + 1
        /\ fragments'[Len(fragments) + 1] = run.chapter
        /\ \A n \in 1 .. Len(fragments) : fragments'[n] = fragments[n]
    <3>1. run.chapter \in 0 .. Len(Chapters)
      BY <1>0, <2>1
    <3>. QED BY <1>2, <2>4, <3>1, AppendProperties, LenProperties
  <2>6. MembersOf(fragments') = SectionsTo(m)
    <3>1. MembersOf(fragments') = MembersOf(fragments) \union {run.chapter}
      <4>1. 1 .. Len(fragments) + 1 = 1 .. Len(fragments) \union {Len(fragments) + 1}
        BY <2>5
      <4>. QED BY <2>5, <4>1 DEF MembersOf
    <3>. QED BY <2>1, <2>2, <2>4, <3>1, SectionsAre
  <2>7. Ascends(fragments')
    <3>1. ASSUME NEW n \in 1 .. Len(fragments) PROVE fragments'[n] < fragments'[n + 1]
      <4>1. CASE n = Len(fragments)
        <5>1. fragments[n] \in SectionsTo(run.chapter)
          BY <2>4, <2>5 DEF MembersOf
        <5>. QED BY <2>5, <4>1, <5>1 DEF SectionsTo
      <4>2. CASE n # Len(fragments)
        <5>0. \A l \in Nat : \A k \in 1 .. l : k # l => k \in 1 .. l - 1 /\ k + 1 \in 1 .. l
          OBVIOUS
        <5>1. n \in 1 .. Len(fragments) - 1 /\ n + 1 \in 1 .. Len(fragments)
          <6>1. Len(fragments) \in Nat
            BY <2>5
          <6>. QED BY <3>1, <4>2, <5>0, <6>1
        <5>. QED BY <2>4, <2>5, <5>1 DEF Ascends
      <4>. QED BY <4>1, <4>2
    <3>2. 1 .. Len(fragments') - 1 = 1 .. Len(fragments)
      BY <2>5
    <3>. QED BY <3>1, <3>2 DEF Ascends
  <2>8. KeptIs' /\ KeptTyped'
    BY <2>3, <2>4, <2>5, <2>6, <2>7 DEF KeptIs, KeptTyped, PlacesBefore, PlacesAfter
  <2>9. /\ PassesBehind = 1 + Cardinality(SectionsTo(run.chapter))
        /\ PassesBehind' = 1 + Cardinality(SectionsTo(m)) /\ CallsHere' = 0
    BY <1>2, <2>3 DEF PassesBehind, CallsHere, PlacesAfter, PlacesEnded
  <2>10. /\ Cardinality(SectionsTo(run.chapter)) \in Nat
         /\ Cardinality(SectionsTo(m)) = Cardinality(SectionsTo(run.chapter)) + 1
    BY <2>1, <2>2, SectionsCounted
  <2>11. Allowed <= Allowed'
    <3>1. \A c, d \in Nat, h \in 0 .. 2 : d = c + 1 => 2 * (1 + c) + h <= 2 * (1 + d) + 0
      OBVIOUS
    <3>2. Cardinality(SectionsTo(m)) \in Nat
      BY SectionsCounted
    <3>3. Allowed = 2 * (1 + Cardinality(SectionsTo(run.chapter))) + CallsHere
      BY <2>9 DEF Allowed
    <3>4. Allowed' = 2 * (1 + Cardinality(SectionsTo(m))) + 0
      BY <2>9 DEF Allowed
    <3>. QED BY <1>0, <2>10, <3>1, <3>2, <3>3, <3>4
  <2>. QED BY <1>2, <2>3, <2>8, <2>11 DEF ResultKept
<1>3. CASE run.pass = "fallback" /\ run' = [run EXCEPT !.at = "ask", !.try = 0, !.sent = 0, !.pass = "E"]
           /\ fragments' = Append(fragments, 0)
  <2>1. /\ TaskTyped' /\ run'.try = 0 /\ run'.at = "ask" /\ run'.pass = "E" /\ run'.chapter = run.chapter
        /\ run'.broken = run.broken
    BY <1>0, <1>3, ZeroTask DEF TaskTyped, TaskRecord, Passes, PlacesAsking
  <2>2. run.broken /\ fragments = <<>> /\ fragments' = <<0>>
    BY <1>0, <1>3 DEF KeptIs
  <2>3. KeptIs' /\ KeptTyped'
    BY <1>0, <2>1, <2>2 DEF KeptIs, KeptTyped, PlacesBefore, PlacesAfter
  <2>4. PassesBehind = 1 + Cardinality(WithText) /\ PassesBehind' = 2 + Cardinality(WithText) /\ CallsHere' = 0
    BY <1>3, <2>1 DEF PassesBehind, CallsHere, PlacesAfter, PlacesEnded
  <2>5. Allowed <= Allowed'
    BY <1>0, <2>4 DEF Allowed
  <2>. QED BY <1>3, <2>1, <2>3, <2>5 DEF ResultKept
<1>4. CASE run.pass = "E" /\ run' = [run EXCEPT !.at = "validate", !.try = 0, !.sent = 0]
           /\ fragments' = fragments
  <2>1. /\ TaskTyped' /\ run'.try = 0 /\ run'.at = "validate" /\ run'.pass = "E" /\ run'.chapter = run.chapter
        /\ run'.broken = run.broken
    BY <1>0, <1>4, ZeroTask DEF TaskTyped, TaskRecord, Passes, PlacesAfter
  <2>2. KeptIs' /\ KeptTyped'
    BY <1>0, <1>4, <2>1 DEF KeptIs, KeptTyped, PlacesBefore, PlacesAfter
  <2>3. PassesBehind' = PassesBehind /\ CallsHere' = 2
    BY <1>4, <2>1 DEF PassesBehind, CallsHere, PlacesAfter
  <2>4. Allowed <= Allowed'
    BY <1>0, <2>3, AllowedIs DEF Allowed
  <2>. QED BY <1>4, <2>1, <2>2, <2>4 DEF ResultKept
<1>. QED BY <1>1, <1>2, <1>3, <1>4 DEF WithResult

LEMMA WithoutResultKeeps ==
  ASSUME PipelineInv, run.at \in PlacesAsking, run.try > 0, WithoutResult
  PROVE  ResultKept
<1>0. /\ TaskTyped /\ KeptTyped /\ KeptIs /\ run.at # "stopped" /\ run.at \notin PlacesAfter \union PlacesEnded
      /\ Len(Chapters) \in Nat /\ Cardinality(WithText) \in Nat /\ CallsHere \in 0 .. 2
  BY AllowedIs, PlacesApart, PipelineConstants, SectionsCounted DEF PipelineInv, PlacesAsking
<1>1. CASE run.pass = "B"
  <2>0. run' = [run EXCEPT !.at = "ask", !.pass = "fallback", !.broken = TRUE, !.try = 0, !.sent = 0]
        /\ fragments' = <<>>
    BY <1>1 DEF WithoutResult, DiscardPartial
  <2>1. /\ TaskTyped' /\ run'.try = 0 /\ run'.at = "ask" /\ run'.pass = "fallback" /\ run'.broken
    BY <1>0, <2>0, ZeroTask DEF TaskTyped, TaskRecord, Passes, PlacesAsking
  <2>2. run.chapter \in WithText
    BY <1>0, <1>1 DEF KeptIs
  <2>3. KeptIs' /\ KeptTyped'
    BY <2>0, <2>1 DEF KeptIs, KeptTyped, PlacesBefore, PlacesAfter
  <2>4. /\ PassesBehind = 1 + Cardinality(SectionsTo(run.chapter))
        /\ PassesBehind' = 1 + Cardinality(WithText) /\ CallsHere' = 0
    BY <1>1, <2>1 DEF PassesBehind, CallsHere, PlacesAfter, PlacesEnded
  <2>5. /\ Cardinality(SectionsTo(run.chapter)) \in Nat
        /\ Cardinality(SectionsTo(run.chapter)) + 1 <= Cardinality(WithText)
    BY <2>2, SectionsCounted
  <2>6. Allowed <= Allowed'
    BY <1>0, <2>4, <2>5 DEF Allowed
  <2>. QED BY <1>1, <2>1, <2>3, <2>6 DEF ResultKept
<1>2. CASE run.pass # "B"
  <2>0. run' = [run EXCEPT !.at = "stopped", !.try = 0, !.sent = 0] /\ fragments' = fragments
    BY <1>2 DEF WithoutResult
  <2>1. /\ TaskTyped' /\ run'.try = 0 /\ run'.at = "stopped" /\ run'.pass = run.pass
        /\ run'.broken = run.broken /\ run'.chapter = run.chapter
    BY <1>0, <2>0, ZeroTask DEF TaskTyped, TaskRecord, PlacesEnded
  <2>2. KeptIs' /\ KeptTyped'
    BY <1>0, <2>0, <2>1 DEF KeptIs, KeptTyped, PlacesBefore, PlacesAfter
  <2>3. PassesBehind' = PassesBehind /\ CallsHere' = 2
    BY <2>1 DEF PassesBehind, CallsHere, PlacesEnded
  <2>4. Allowed <= Allowed'
    BY <1>0, <2>3, AllowedIs DEF Allowed
  <2>. QED BY <2>1, <2>2, <2>4 DEF ResultKept
<1>. QED BY <1>1, <1>2

\* Steps that ask: a chat begins, goes on, ends.
LEMMA SkipKeeps == ASSUME PipelineInv, SkipSection PROVE PipelineInv'
<1>0. /\ TaskTyped /\ KeptTyped /\ KeptIs /\ run.at = "ask" /\ run.pass = "B" /\ CallsHere \in 0 .. 2
      /\ UNCHANGED <<import, fragments, audit, activity, cursor, heard, outcomes>>
  BY AllowedIs DEF PipelineInv, SkipSection
<1>1. CASE run.chapter \in DOMAIN Chapters /\ ~ Chapters[run.chapter] /\ run' = [run EXCEPT !.chapter = @ + 1]
  <2>0. run.chapter \in 1 .. Len(Chapters) /\ run.chapter \notin WithText /\ run.chapter + 1 \in 1 .. Len(Chapters) + 1
    BY <1>1, PipelineConstants DEF WithText
  <2>1. run.try = 0
    BY <1>0, <2>0, PipelineConstants DEF KeptIs, TaskTyped, TaskRecord
  <2>2. PICK m \in 1 .. Len(Chapters) + 1 : m = run.chapter + 1
    BY <2>0
  <2>3. /\ TaskTyped' /\ run'.at = "ask" /\ run'.pass = "B" /\ run'.chapter = m /\ run'.try = 0
        /\ run'.broken = run.broken
    BY <1>0, <1>1, <2>1, <2>2 DEF TaskTyped, TaskRecord
  <2>4. SectionsTo(m) = SectionsTo(run.chapter)
    BY <2>0, <2>2, SectionsAre
  <2>5. KeptIs'
    BY <1>0, <2>3, <2>4 DEF KeptIs, PlacesBefore, PlacesAfter
  <2>6. CallsAreCounted'
    <3>1. PassesBehind' = PassesBehind /\ CallsHere' = CallsHere
      BY <1>0, <2>1, <2>3, <2>4 DEF PassesBehind, CallsHere
    <3>. QED BY <1>0, <3>1 DEF PipelineInv, CallsAreCounted
  <2>7. ImportTyped' /\ OutcomesTyped' /\ OutcomesAre'
    BY <1>0, <2>3, AskingLeavesOutcomes DEF PlacesAsking
  <2>8. CursorIsCurrent' /\ AuditIs'
    BY <1>0, <2>3 DEF PipelineInv, CursorIsCurrent, AuditIs
  <2>. QED BY <1>0, <2>3, <2>5, <2>6, <2>7, <2>8
           DEF PipelineInv, KeptTyped, AuditTyped, CountsTyped, ActivityExact
<1>2. CASE run.chapter = Len(Chapters) + 1 /\ fragments = <<>> /\ run' = [run EXCEPT !.at = "stopped"]
  <2>1. run.try = 0
    BY <1>0, <1>2, SectionsCounted, PipelineConstants DEF KeptIs, TaskTyped, TaskRecord
  <2>2. /\ TaskTyped' /\ run'.at = "stopped" /\ run'.pass = "B" /\ run'.chapter = run.chapter /\ run'.try = 0
        /\ run'.broken = run.broken
    BY <1>0, <1>2, <2>1 DEF TaskTyped, TaskRecord, PlacesEnded
  <2>3. KeptIs'
    BY <1>0, <2>2 DEF KeptIs, PlacesBefore, PlacesAfter
  <2>4. CallsAreCounted'
    <3>1. PassesBehind' = PassesBehind /\ CallsHere' = 2
      BY <1>0, <2>2 DEF PassesBehind, CallsHere, PlacesEnded
    <3>2. heard.calls \in Nat /\ heard.calls <= 2 * PassesBehind + CallsHere /\ PassesBehind \in Nat
      BY <1>0, AllowedIs DEF PipelineInv, CallsAreCounted, CountsTyped
    <3>. QED BY <1>0, <3>1, <3>2 DEF CallsAreCounted
  <2>5. ImportTyped' /\ OutcomesTyped' /\ OutcomesAre'
    BY <1>0, <2>2, AskingLeavesOutcomes DEF PlacesAsking
  <2>6. CursorIsCurrent' /\ AuditIs'
    BY <1>0, <2>2 DEF PipelineInv, CursorIsCurrent, AuditIs
  <2>. QED BY <1>0, <2>2, <2>3, <2>4, <2>5, <2>6
           DEF PipelineInv, KeptTyped, AuditTyped, CountsTyped, ActivityExact
<1>3. CASE run.chapter = Len(Chapters) + 1 /\ fragments # <<>> /\ run' = [run EXCEPT !.pass = "E"]
  <2>1. run.try = 0
    BY <1>0, <1>3, SectionsCounted, PipelineConstants DEF KeptIs, TaskTyped, TaskRecord
  <2>2. /\ TaskTyped' /\ run'.at = "ask" /\ run'.pass = "E" /\ run'.try = 0 /\ run'.broken = run.broken
    BY <1>0, <1>3, <2>1 DEF TaskTyped, TaskRecord, Passes
  <2>3. SectionsTo(run.chapter) = WithText
    BY <1>3, SectionsAre
  <2>4. KeptIs'
    BY <1>0, <2>2, <2>3 DEF KeptIs, PlacesBefore, PlacesAfter
  <2>5. CallsAreCounted'
    <3>1. PassesBehind' = 2 + Cardinality(WithText) /\ PassesBehind = 1 + Cardinality(WithText)
          /\ CallsHere' = 0 /\ CallsHere = 0
      BY <1>0, <2>1, <2>2, <2>3 DEF PassesBehind, CallsHere, PlacesAfter, PlacesEnded
    <3>2. heard.calls \in Nat /\ heard.calls <= 2 * PassesBehind + CallsHere /\ Cardinality(WithText) \in Nat
      BY SectionsCounted DEF PipelineInv, CallsAreCounted, CountsTyped
    <3>. QED BY <1>0, <3>1, <3>2 DEF CallsAreCounted
  <2>6. ImportTyped' /\ OutcomesTyped' /\ OutcomesAre'
    BY <1>0, <2>2, AskingLeavesOutcomes DEF PlacesAsking
  <2>7. CursorIsCurrent' /\ AuditIs'
    BY <1>0, <2>2 DEF PipelineInv, CursorIsCurrent, AuditIs
  <2>. QED BY <1>0, <2>2, <2>4, <2>5, <2>6, <2>7
           DEF PipelineInv, KeptTyped, AuditTyped, CountsTyped, ActivityExact
<1>. QED BY <1>1, <1>2, <1>3 DEF SkipSection

\* The task stays where it is, at another attempt or further in it.
LEMMA AttemptKeeps ==
  ASSUME PipelineInv, NEW try \in 1 .. MaxTries, NEW sent \in 0 .. MaxThoughts,
         run.at \in PlacesAsking, run' = [run EXCEPT !.try = try, !.sent = sent],
         cursor' = [attempt |-> try, chunks |-> sent],
         heard'.calls = heard.calls + (IF run.try = 0 THEN 1 ELSE 0),
         run.at = "ask" /\ run.pass = "B" => run.chapter \in WithText,
         activity' \in [chunks : Nat, retries : Nat],
         heard' \in [chunks : Nat, retries : Nat, calls : Nat, extra : Nat],
         ActivityExact',
         UNCHANGED <<import, fragments, audit, outcomes>>
  PROVE  PipelineInv'
<1>0. /\ TaskTyped /\ KeptTyped /\ KeptIs /\ AuditIs /\ AuditTyped
      /\ run.at \notin PlacesAfter \union PlacesEnded /\ run.at \notin PlacesBefore
  BY PlacesApart DEF PipelineInv
<1>1. try \in 0 .. MaxTries /\ try > 0 /\ try \in Nat /\ sent \in Nat /\ run.try \in Nat
  BY <1>0, PipelineConstants DEF TaskTyped, TaskRecord
<1>2. /\ TaskTyped' /\ run'.at = run.at /\ run'.pass = run.pass /\ run'.chapter = run.chapter
      /\ run'.broken = run.broken /\ run'.try = try /\ run'.sent = sent
  BY <1>0, <1>1 DEF TaskTyped, TaskRecord
<1>3. CountsTyped' /\ CursorIsCurrent'
  BY <1>1, <1>2 DEF CountsTyped, CursorIsCurrent
<1>4. KeptIs'
  <2>1. run.at = "recover" \/ run.at = "ask"
    BY DEF PlacesAsking
  <2>. QED BY <1>0, <1>2, <2>1 DEF KeptIs
<1>5. CallsAreCounted'
  <2>1. PassesBehind' = PassesBehind
    BY <1>2 DEF PassesBehind
  <2>2. CallsHere' = CallsHere + (IF run.try = 0 THEN 1 ELSE 0)
    BY <1>0, <1>1, <1>2 DEF CallsHere
  <2>3. PassesBehind \in Nat /\ CallsHere \in 0 .. 2 /\ heard.calls \in Nat
        /\ heard.calls <= 2 * PassesBehind + CallsHere
    BY <1>0, AllowedIs DEF PipelineInv, CountsTyped, CallsAreCounted
  <2>. QED BY <2>1, <2>2, <2>3 DEF CallsAreCounted
<1>6. ImportTyped' /\ OutcomesTyped' /\ OutcomesAre'
  BY <1>2, AskingLeavesOutcomes
<1>7. AuditIs' /\ AuditTyped' /\ KeptTyped'
  BY <1>0, <1>2 DEF AuditIs, AuditTyped, KeptTyped
<1>. QED BY <1>2, <1>3, <1>4, <1>5, <1>6, <1>7 DEF PipelineInv

LEMMA MoreHeard ==
  ASSUME NEW told \in [chunks : Nat, retries : Nat, calls : Nat, extra : Nat]
  PROVE  /\ [told EXCEPT !.chunks = @ + 1, !.extra = @ + 1] \in [chunks : Nat, retries : Nat, calls : Nat, extra : Nat]
         /\ [told EXCEPT !.retries = @ + 1, !.extra = @ + 1] \in [chunks : Nat, retries : Nat, calls : Nat, extra : Nat]
         /\ [told EXCEPT !.chunks = @ + 1, !.retries = @ + 1] \in [chunks : Nat, retries : Nat, calls : Nat, extra : Nat]
<1>1. PICK c \in Nat, d \in Nat, e \in Nat : c = told.chunks + 1 /\ d = told.retries + 1 /\ e = told.extra + 1
  <2>1. told.chunks + 1 \in Nat /\ told.retries + 1 \in Nat /\ told.extra + 1 \in Nat
    OBVIOUS
  <2>. QED BY <2>1
<1>2. /\ [told EXCEPT !.chunks = @ + 1, !.extra = @ + 1] = [told EXCEPT !.chunks = c, !.extra = e]
      /\ [told EXCEPT !.retries = @ + 1, !.extra = @ + 1] = [told EXCEPT !.retries = d, !.extra = e]
      /\ [told EXCEPT !.chunks = @ + 1, !.retries = @ + 1] = [told EXCEPT !.chunks = c, !.retries = d]
  BY <1>1
<1>. QED BY <1>2

LEMMA ChatKeeps == ASSUME PipelineInv, BeginChat \/ HearThought \/ RetryChat PROVE PipelineInv'
<1>0. /\ TaskTyped /\ KeptIs /\ run.try \in 0 .. MaxTries /\ run.sent \in 0 .. MaxThoughts
      /\ MaxTries \in Nat \ {0} /\ MaxThoughts \in Nat \ {0}
      /\ run.try > 0 => cursor.attempt = run.try /\ cursor.chunks = run.sent /\ run.at \in PlacesAsking
      /\ activity \in [chunks : Nat, retries : Nat]
      /\ heard \in [chunks : Nat, retries : Nat, calls : Nat, extra : Nat]
  BY PipelineConstants DEF PipelineInv, TaskTyped, TaskRecord, CursorIsCurrent, CountsTyped
<1>1. CASE BeginChat
  <2>1. 1 \in 1 .. MaxTries /\ 0 \in 0 .. MaxThoughts
    BY <1>0
  <2>2. /\ heard'.calls = heard.calls + (IF run.try = 0 THEN 1 ELSE 0)
        /\ ActivityExact' /\ activity' \in [chunks : Nat, retries : Nat]
        /\ heard' \in [chunks : Nat, retries : Nat, calls : Nat, extra : Nat]
    BY <1>0, <1>1 DEF BeginChat, PipelineInv, ActivityExact
  <2>3. run.at = "ask" /\ run.pass = "B" => run.chapter \in WithText
    BY <1>1 DEF BeginChat, WithText
  <2>. QED BY <1>1, <2>1, <2>2, <2>3, AttemptKeeps DEF BeginChat, PlacesAsking
<1>2. CASE HearThought
  <2>1. PICK sent \in 0 .. MaxThoughts : sent = run.sent + 1
    <3>1. run.sent + 1 \in 0 .. MaxThoughts
      BY <1>0, <1>2 DEF HearThought
    <3>. QED BY <3>1
  <2>2. NewSince(IF cursor.attempt = run.try THEN cursor.chunks ELSE 0, run.sent + 1) = 1
    BY <1>0, <1>2 DEF HearThought, NewSince
  <2>3. /\ activity' = [activity EXCEPT !.chunks = @ + 1]
        /\ heard' = [heard EXCEPT !.chunks = @ + 1, !.extra = @ + 1]
    BY <1>2, <2>2 DEF HearThought
  <2>4. /\ heard'.calls = heard.calls /\ ActivityExact' /\ activity' \in [chunks : Nat, retries : Nat]
        /\ heard' \in [chunks : Nat, retries : Nat, calls : Nat, extra : Nat]
    <3>1. activity'.chunks = activity.chunks + 1 /\ activity'.retries = activity.retries
      BY <1>0, <2>3
    <3>2. /\ heard'.chunks = heard.chunks + 1 /\ heard'.retries = heard.retries /\ heard'.calls = heard.calls
      BY <1>0, <2>3
    <3>3. activity' \in [chunks : Nat, retries : Nat]
      BY <1>0, <2>3
    <3>4. heard' \in [chunks : Nat, retries : Nat, calls : Nat, extra : Nat]
      BY <1>0, <2>3, MoreHeard
    <3>. QED BY <3>1, <3>2, <3>3, <3>4 DEF PipelineInv, ActivityExact
  <2>5. run.at = "ask" /\ run.pass = "B" => run.chapter \in WithText
    BY <1>0, <1>2 DEF HearThought, KeptIs
  <2>6. run.try \in 1 .. MaxTries /\ run.try # 0 /\ run.at \in PlacesAsking
    BY <1>0, <1>2 DEF HearThought
  <2>7. /\ run' = [run EXCEPT !.try = run.try, !.sent = sent]
        /\ cursor' = [attempt |-> run.try, chunks |-> sent]
        /\ UNCHANGED <<import, fragments, audit, outcomes>>
    BY <1>0, <1>2, <2>1 DEF HearThought, TaskTyped, TaskRecord
  <2>8. heard'.calls = heard.calls + (IF run.try = 0 THEN 1 ELSE 0)
    BY <1>0, <2>4, <2>6
  <2>. QED BY <2>4, <2>5, <2>6, <2>7, <2>8, AttemptKeeps
<1>3. CASE RetryChat
  <2>1. PICK try \in 1 .. MaxTries : try = run.try + 1
    <3>1. run.try + 1 \in 1 .. MaxTries
      BY <1>0, <1>3 DEF RetryChat
    <3>. QED BY <3>1
  <2>2. /\ activity' = [activity EXCEPT !.retries = @ + 1]
        /\ heard' = [heard EXCEPT !.retries = @ + 1, !.extra = @ + 1]
    BY <1>3 DEF RetryChat
  <2>3. /\ heard'.calls = heard.calls /\ ActivityExact' /\ activity' \in [chunks : Nat, retries : Nat]
        /\ heard' \in [chunks : Nat, retries : Nat, calls : Nat, extra : Nat]
    <3>1. activity'.chunks = activity.chunks /\ activity'.retries = activity.retries + 1
      BY <1>0, <2>2
    <3>2. /\ heard'.chunks = heard.chunks /\ heard'.retries = heard.retries + 1 /\ heard'.calls = heard.calls
      BY <1>0, <2>2
    <3>3. activity' \in [chunks : Nat, retries : Nat]
      BY <1>0, <2>2
    <3>4. heard' \in [chunks : Nat, retries : Nat, calls : Nat, extra : Nat]
      BY <1>0, <2>2, MoreHeard
    <3>. QED BY <3>1, <3>2, <3>3, <3>4 DEF PipelineInv, ActivityExact
  <2>4. run.try > 0 /\ run.try # 0 /\ run.at \in PlacesAsking /\ 0 \in 0 .. MaxThoughts
    BY <1>0, <1>3 DEF RetryChat
  <2>5. run.at = "ask" /\ run.pass = "B" => run.chapter \in WithText
    BY <1>0, <2>4 DEF KeptIs
  <2>6. /\ run' = [run EXCEPT !.try = try, !.sent = 0]
        /\ cursor' = [attempt |-> try, chunks |-> 0]
        /\ UNCHANGED <<import, fragments, audit, outcomes>>
    BY <1>3, <2>1 DEF RetryChat
  <2>7. heard'.calls = heard.calls + (IF run.try = 0 THEN 1 ELSE 0)
    BY <1>0, <2>3, <2>4
  <2>. QED BY <2>3, <2>4, <2>5, <2>6, <2>7, AttemptKeeps
<1>. QED BY <1>1, <1>2, <1>3

\* A pass that ends with a result or without one.
LEMMA ResultKeeps ==
  ASSUME PipelineInv, run.at \in PlacesAsking, ResultKept, UNCHANGED <<import, cursor, outcomes>>,
         AuditTyped', AuditIs', heard'.calls = heard.calls, CountsTyped', ActivityExact'
  PROVE  PipelineInv'
<1>1. ImportTyped' /\ OutcomesTyped' /\ OutcomesAre'
  BY AskingLeavesOutcomes DEF ResultKept, PlacesAsking
<1>2. CursorIsCurrent'
  BY DEF ResultKept, CursorIsCurrent
<1>3. CallsAreCounted'
  <2>1. heard.calls \in Nat /\ heard.calls <= Allowed /\ Allowed \in Nat
    BY AllowedIs DEF PipelineInv, CallsAreCounted, CountsTyped, Allowed
  <2>2. Allowed' \in Nat
    <3>1. TaskTyped'
      BY DEF ResultKept
    <3>2. (PassesBehind \in Nat)'
      BY <3>1, SectionsCounted DEF PassesBehind, TaskTyped, TaskRecord, Passes
    <3>3. (CallsHere \in 0 .. 2)'
      BY DEF CallsHere
    <3>4. Allowed' = 2 * PassesBehind' + CallsHere'
      BY DEF Allowed
    <3>5. \A b \in Nat, h \in 0 .. 2 : 2 * b + h \in Nat
      OBVIOUS
    <3>. QED BY <3>2, <3>3, <3>4, <3>5
  <2>3. heard'.calls <= Allowed'
    BY <2>1, <2>2 DEF ResultKept
  <2>. QED BY <2>3 DEF CallsAreCounted, Allowed
<1>. QED BY <1>1, <1>2, <1>3 DEF PipelineInv, ResultKept

\* An audit whose last record asks for nothing, and a task that does not recover.
LEMMA Audits ==
  ASSUME AuditTyped', Chained(audit'), audit' # <<>>,
         run'.at = "recover" <=> audit'[Len(audit')].status = "needs-recovery"
  PROVE  AuditIs'
BY DEF AuditIs, Chained

LEMMA ChatFailsKeeps == ASSUME PipelineInv, ChatFails PROVE PipelineInv'
<1>1. run.try > 0 /\ run.at \in PlacesAsking /\ WithoutResult /\ UNCHANGED <<import, activity, cursor, heard, outcomes>>
  BY DEF ChatFails, PipelineInv, CursorIsCurrent
<1>2. ResultKept
  BY <1>1, WithoutResultKeeps
<1>3. AuditTyped' /\ AuditIs'
  <2>1. run'.at # "recover"
    BY <1>2 DEF ResultKept
  <2>2. CASE run.at = "recover"
    <3>1. RecordRepairAudit(1, "recovery-failed") /\ 1 \in 0 .. 1 /\ "recovery-failed" \in Statuses
      BY <2>2 DEF ChatFails, Statuses
    <3>2. AuditTyped' /\ Chained(audit') /\ audit' # <<>> /\ audit'[Len(audit')].status = "recovery-failed"
      BY <2>2, <3>1, RecordIs
    <3>. QED BY <2>1, <3>2, Audits
  <2>3. CASE run.at # "recover"
    BY <2>1, <2>3 DEF ChatFails, PipelineInv, AuditTyped, AuditIs
  <2>. QED BY <2>2, <2>3
<1>. QED BY <1>1, <1>2, <1>3, ResultKeeps DEF PipelineInv, CountsTyped, ActivityExact

LEMMA ParseRecoveryKeeps == ASSUME PipelineInv, ParseRecovery PROVE PipelineInv'
<1>1. /\ run.try > 0 /\ run.at = "recover" /\ run.at \in PlacesAsking
      /\ UNCHANGED <<import, activity, cursor, heard, outcomes>>
  BY DEF ParseRecovery, PlacesAsking
<1>2. PICK status \in {"recovered", "recovery-failed"} : RecordRepairAudit(1, status) /\ (WithResult \/ WithoutResult)
  BY DEF ParseRecovery
<1>3. ResultKept
  BY <1>1, <1>2, WithResultKeeps, WithoutResultKeeps
<1>4. AuditTyped' /\ AuditIs'
  <2>1. run'.at # "recover"
    BY <1>3 DEF ResultKept
  <2>2. 1 \in 0 .. 1 /\ status \in Statuses /\ status # "needs-recovery"
    BY DEF Statuses
  <2>3. AuditTyped' /\ Chained(audit') /\ audit' # <<>> /\ audit'[Len(audit')].status = status
    BY <1>1, <1>2, <2>2, RecordIs
  <2>. QED BY <2>1, <2>2, <2>3, Audits
<1>. QED BY <1>1, <1>3, <1>4, ResultKeeps DEF PipelineInv, CountsTyped, ActivityExact

LEMMA ParsePassKeeps == ASSUME PipelineInv, ParsePass PROVE PipelineInv'
<1>0. /\ run.at = "ask" /\ run.try > 0 /\ run.at \in PlacesAsking /\ UNCHANGED <<import, cursor, outcomes>>
      /\ activity \in [chunks : Nat, retries : Nat]
      /\ heard \in [chunks : Nat, retries : Nat, calls : Nat, extra : Nat]
  BY DEF ParsePass, PlacesAsking, PipelineInv, CountsTyped
<1>1. ASSUME NEW status \in {"validated", "repaired"}, RecordRepairAudit(0, status), WithResult,
             activity' = [activity EXCEPT !.chunks = @ + 1], heard' = [heard EXCEPT !.chunks = @ + 1]
      PROVE  PipelineInv'
  <2>1. ResultKept
    BY <1>0, <1>1, WithResultKeeps
  <2>2. 0 \in 0 .. 1 /\ status \in Statuses /\ status # "needs-recovery"
    BY DEF Statuses
  <2>3. AuditTyped' /\ Chained(audit') /\ audit' # <<>> /\ audit'[Len(audit')].status = status
    BY <1>0, <1>1, <2>2, RecordIs
  <2>4. AuditIs'
    BY <2>1, <2>2, <2>3, Audits DEF ResultKept
  <2>5. CountsTyped' /\ ActivityExact' /\ heard'.calls = heard.calls
    BY <1>0, <1>1 DEF PipelineInv, CountsTyped, ActivityExact
  <2>. QED BY <1>0, <2>1, <2>3, <2>4, <2>5, ResultKeeps
<1>2. ASSUME RecordRepairAudit(0, "needs-recovery"),
             run' = [run EXCEPT !.at = "recover", !.try = 0, !.sent = 0],
             activity' = [chunks |-> activity.chunks + 1, retries |-> activity.retries + 1],
             heard' = [heard EXCEPT !.chunks = @ + 1, !.retries = @ + 1],
             fragments' = fragments
      PROVE  PipelineInv'
  <2>1. /\ TaskTyped' /\ run'.at = "recover" /\ run'.pass = run.pass /\ run'.chapter = run.chapter
        /\ run'.broken = run.broken /\ run'.try = 0
    BY <1>2, ZeroTask DEF PipelineInv, TaskTyped, TaskRecord, PlacesAsking
  <2>2. KeptTyped' /\ KeptIs'
    BY <1>0, <1>2, <2>1 DEF PipelineInv, KeptTyped, KeptIs, PlacesBefore, PlacesAfter
  <2>3. AuditTyped' /\ AuditIs'
    <3>1. 0 \in 0 .. 1 /\ "needs-recovery" \in Statuses
      BY DEF Statuses
    <3>2. AuditTyped' /\ Chained(audit') /\ audit' # <<>> /\ audit'[Len(audit')].status = "needs-recovery"
      BY <1>0, <1>2, <3>1, RecordIs
    <3>. QED BY <2>1, <3>2, Audits
  <2>4. CountsTyped' /\ ActivityExact' /\ heard'.calls = heard.calls
    <3>1. /\ activity' \in [chunks : Nat, retries : Nat]
          /\ activity'.chunks = activity.chunks + 1 /\ activity'.retries = activity.retries + 1
      BY <1>0, <1>2
    <3>2. /\ heard' \in [chunks : Nat, retries : Nat, calls : Nat, extra : Nat]
      BY <1>0, <1>2, MoreHeard
    <3>3. /\ heard'.chunks = heard.chunks + 1 /\ heard'.retries = heard.retries + 1 /\ heard'.calls = heard.calls
      BY <1>0, <1>2
    <3>4. cursor' = cursor
      BY <1>0
    <3>. QED BY <3>1, <3>2, <3>3, <3>4 DEF PipelineInv, CountsTyped, ActivityExact
  <2>5. PassesBehind' = PassesBehind /\ CallsHere' = 1 /\ CallsHere = 1
    BY <1>0, <2>1 DEF PassesBehind, CallsHere, PlacesAfter, PlacesEnded
  <2>6. CallsAreCounted' /\ CursorIsCurrent'
    BY <2>1, <2>4, <2>5 DEF PipelineInv, CallsAreCounted, CursorIsCurrent
  <2>7. ImportTyped' /\ OutcomesTyped' /\ OutcomesAre'
    BY <1>0, <2>1, AskingLeavesOutcomes DEF PlacesAsking
  <2>. QED BY <2>1, <2>2, <2>3, <2>4, <2>6, <2>7 DEF PipelineInv
<1>. QED BY <1>1, <1>2 DEF ParsePass

LEMMA PipelineGoesOn == PipelineInv /\ [PipelineNext]_pipelineVars => PipelineInv'
<1>. SUFFICES ASSUME PipelineInv, [PipelineNext]_pipelineVars PROVE PipelineInv'
  OBVIOUS
<1>1. CASE UNCHANGED pipelineVars
  <2>1. /\ import' = import /\ run' = run /\ fragments' = fragments /\ audit' = audit /\ activity' = activity
        /\ cursor' = cursor /\ heard' = heard /\ outcomes' = outcomes
    BY <1>1 DEF pipelineVars
  <2>2. PassesBehind' = PassesBehind /\ CallsHere' = CallsHere
    BY <2>1 DEF PassesBehind, CallsHere
  <2>. QED BY <2>1, <2>2
       DEF PipelineInv, ImportTyped, TaskTyped, KeptTyped, AuditTyped, OutcomesTyped, CountsTyped,
           CursorIsCurrent, ActivityExact, KeptIs, AuditIs, OutcomesAre, CallsAreCounted
<1>2. CASE PipelineNext
  BY <1>2, ValidationKeeps, MarkKeeps, DivideKeeps, SkipKeeps, ChatKeeps, ChatFailsKeeps, ParsePassKeeps,
     ParseRecoveryKeeps, CanvasKeeps, FailKeepsImport, CancelKeepsImport
  DEF PipelineNext, PipelineStep
<1>. QED BY <1>1, <1>2

\* The import of a document, for every document, answer and moment of a cancel: what is compiled
\* speaks of the whole document once, every recovery is audited with the parse that asked for
\* it, an announced canvas was stored, the activity shown is what happened and the model
\* is asked a bounded number of times.
THEOREM PipelineStaysSound == PipelineSpec => []PipelineSound
<1>1. PipelineInit => PipelineInv
  BY PipelineStarts
<1>2. PipelineInv /\ [PipelineNext]_pipelineVars => PipelineInv'
  BY PipelineGoesOn
<1>3. PipelineInv => PipelineSound
  BY PipelineIsSound
<1>. QED BY <1>1, <1>2, <1>3, PTL DEF PipelineSpec

(***************************************************************************)
(* What an import starts from                                              *)
(***************************************************************************)
RequestsInv == asked \in {<<>>} \union {<<request>> : request \in Asked}

LEMMA RequestsOnlyAsk ==
  /\ RequestsInit => RequestsInv
  /\ RequestsInv /\ [RequestsNext]_requestVars => RequestsInv'
BY DEF RequestsInit, RequestsInv, RequestsNext, QueueDocument, requestVars

\* The fields of a request lie over every layer.
LEMMA DirectLiesOver ==
  ASSUME NEW request, "apiUrl" \in DOMAIN request.direct, "api-url" \notin DOMAIN request.direct,
         \A layer \in {request.saved, request.settings, request.plugin, request.extra} :
           "api-url" \notin DOMAIN layer
  PROVE  SettingOf(MergeSettings(request), EndpointNames) = request.direct["apiUrl"]
<1>. DEFINE below == Over(request.extra, Over(request.plugin, Over(request.settings, request.saved)))
            public == Restrict(below, DOMAIN below \ {"apiKey"})
            merged == Over(request.direct, public)
<1>1. "api-url" \notin DOMAIN below
  BY DEF Over
<1>2. DOMAIN public \subseteq DOMAIN below
  BY DEF Restrict
<1>3. MergeSettings(request) = merged
  BY DEF MergeSettings
<1>. HIDE DEF below, public
<1>4. "api-url" \notin DOMAIN merged /\ "apiUrl" \in DOMAIN merged /\ merged["apiUrl"] = request.direct["apiUrl"]
  BY <1>1, <1>2 DEF Over
<1>. HIDE DEF merged
<1>. DEFINE set == {n \in DOMAIN EndpointNames : EndpointNames[n] \in DOMAIN merged}
<1>5. DOMAIN EndpointNames = 1 .. 3 /\ EndpointNames[1] = "api-url" /\ EndpointNames[2] = "apiUrl"
  BY DEF EndpointNames
<1>6. 2 \in set /\ 1 \notin set /\ set \subseteq 1 .. 3
  BY <1>4, <1>5
<1>7. \A n \in set : (\A m \in set : n <= m) <=> n = 2
  BY <1>6
<1>8. (CHOOSE n \in set : \A m \in set : n <= m) = 2
  <2>. HIDE DEF set
  <2>. QED BY <1>6, <1>7
<1>9. set # {}
  BY <1>6
<1>. QED BY <1>3, <1>4, <1>5, <1>8, <1>9 DEF SettingOf

\* What a request says of its endpoint is used.
LEMMA EndpointIsUsed ==
  ASSUME RequestsInv,
         \A request \in Asked : "apiUrl" \in DOMAIN request.direct =>
           "api-url" \notin DOMAIN request.direct /\ request.direct["apiUrl"] # Nothing
  PROVE  RequestedEndpointUsed
<1>. SUFFICES ASSUME NEW n \in DOMAIN asked, ~ ResolveConfig(asked[n]).refused,
                     "apiUrl" \in DOMAIN asked[n].direct,
                     \A layer \in {asked[n].saved, asked[n].settings, asked[n].plugin, asked[n].extra} :
                       "api-url" \notin DOMAIN layer
              PROVE  asked[n].direct["apiUrl"] \in {ResolveConfig(asked[n]).endpoint, "blank"}
  BY DEF RequestedEndpointUsed
<1>1. PICK request \in Asked : request = asked[n]
  BY DEF RequestsInv
<1>2. SettingOf(MergeSettings(request), EndpointNames) = request.direct["apiUrl"]
  BY <1>1, DirectLiesOver
<1>3. request.direct["apiUrl"] # Nothing
  BY <1>1
<1>4. CASE request.direct["apiUrl"] # "blank"
  <2>1. EnvOrSetting(request, EndpointNames, "URL") = request.direct["apiUrl"]
    BY <1>2, <1>3, <1>4 DEF EnvOrSetting
  <2>2. ResolveConfig(request).endpoint = EnvOrSetting(request, EndpointNames, "URL")
    BY <1>1 DEF ResolveConfig
  <2>. QED BY <1>1, <2>1, <2>2
<1>. QED BY <1>1, <1>4


FilesInv == opened \in {<<>>} \union {<<file>> : file \in Files}

LEMMA FilesOnlyOpen ==
  /\ RequestsInit => FilesInv
  /\ FilesInv /\ [RequestsNext]_requestVars => FilesInv'
BY DEF RequestsInit, FilesInv, RequestsNext, QueueDocument, requestVars

\* The gate measures the file up to each of its parts, and so up to the last.
LEMMA GateMeasures ==
  ASSUME NEW file \in Files, ValidateDocument(file), file.extension = "docx"
  PROVE  LET size == Sum([n \in DOMAIN file.parts |-> file.parts[n].size])
             packed == Sum([n \in DOMAIN file.parts |-> file.parts[n].packed])
         IN size <= MaxUnpacked /\ size <= AtLeastOne(packed) * MaxRatio
<1>1. DOMAIN file.parts = 1 .. Len(file.parts) /\ Len(file.parts) \in Nat
  BY RequestsAssumption, LenProperties
<1>2. Len(file.parts) \in 1 .. MaxParts /\ UnpacksSafely(file.parts)
  BY DEF ValidateDocument, ValidateDocx
<1>3. Len(file.parts) \in DOMAIN file.parts
  BY <1>1, <1>2
<1>4. LET packed == Sum([m \in 1 .. Len(file.parts) |-> file.parts[m].packed])
          size == Sum([m \in 1 .. Len(file.parts) |-> file.parts[m].size])
      IN size <= MaxUnpacked /\ size <= AtLeastOne(packed) * MaxRatio
  BY <1>2, <1>3 DEF UnpacksSafely
<1>. QED BY <1>1, <1>4

LEMMA GatedFiles ==
  ASSUME FilesInv, NEW file \in Gated
  PROVE  file \in Files /\ ValidateDocument(file)
<1>1. PICK n \in DOMAIN opened : file = opened[n] /\ ValidateDocument(opened[n])
  BY DEF Gated
<1>. QED BY <1>1 DEF FilesInv

\* A part that is not over the gate's limit is not over the reader's.
LEMMA GatedIsRead ==
  ASSUME NEW file \in Files, ValidateDocument(file), MaxPart <= MaxXml,
         \A n \in DOMAIN file.parts : file.parts[n].real = file.parts[n].size /\ file.parts[n].text
  PROVE  ExtractDocument(file)
<1>1. file.extension \in {"pdf", "docx", "md"}
  BY RequestsAssumption DEF ValidateDocument
<1>2. CASE file.extension = "docx"
  <2>1. "document" \in {file.parts[n].name : n \in DOMAIN file.parts} /\ UnpacksSafely(file.parts)
    BY <1>2 DEF ValidateDocument, ValidateDocx
  <2>2. PICK n \in DOMAIN file.parts : file.parts[n].name = "document"
    BY <2>1
  <2>3. file.parts[n].size <= MaxPart
    BY <2>1 DEF UnpacksSafely
  <2>4. file.parts[n].size \in Nat /\ MaxPart \in Nat /\ MaxXml \in Nat
    BY RequestsAssumption DEF Range
  <2>5. file.parts[n].size <= MaxXml
    BY <2>3, <2>4
  <2>. QED BY <1>2, <2>2, <2>5 DEF ExtractDocument
<1>. QED BY <1>1, <1>2 DEF ValidateDocument, ExtractDocument

\* What an import starts from, for any layers of settings and any documents: the endpoint a
\* request asks for is the one used, what passes the gate unpacks within the limits, and
\* what passes it and is what it declares can be read, as long as the limit of the gate is not above
\* the reader's.
THEOREM RequestsStaySound ==
  ASSUME MaxPart <= MaxXml,
         \A request \in Asked : "apiUrl" \in DOMAIN request.direct =>
           "api-url" \notin DOMAIN request.direct /\ request.direct["apiUrl"] # Nothing
  PROVE  RequestsSpec => []RequestsSound
<1>. DEFINE Inv == RequestsInv /\ FilesInv
<1>1. RequestsInit => Inv
  BY RequestsOnlyAsk, FilesOnlyOpen
<1>2. Inv /\ [RequestsNext]_requestVars => Inv'
  BY RequestsOnlyAsk, FilesOnlyOpen
<1>3. Inv => RequestsSound
  <2>1. Inv => RequestedEndpointUsed
    BY EndpointIsUsed
  <2>2. Inv => GateBoundsUnpacking
    BY GateMeasures, GatedFiles DEF GateBoundsUnpacking
  <2>3. Inv => GatedIsReadable
    BY GatedIsRead, GatedFiles DEF GatedIsReadable
  <2>. QED BY <2>1, <2>2, <2>3 DEF RequestsSound
<1>. HIDE DEF Inv
<1>4. Inv /\ [][RequestsNext]_requestVars => []Inv
  BY <1>2, PTL
<1>5. []Inv => []RequestsSound
  BY <1>3, PTL
<1>. QED BY <1>1, <1>4, <1>5, PTL DEF RequestsSpec
=============================================================================
