------------------------------ MODULE KimiStream ------------------------------
(* The native adapter of the document agent
   (src-tauri/src/native_plugins/pdf_canvas_agent.rs): the configuration it accepts,
   a chat answered by a stream of server-sent events, and the extraction of a file.

   The provider is external.  It cuts its text into events anywhere, writes an event
   on one line or two, with the empty line that ends it or without, and a stream may
   end anywhere.  Of the text only the markers matter:
     < P  and  < / P   open and close a progress frame, whose payload is valid when it is j
     < R  and  < / R   open and close the result. *)
EXTENDS Integers, FiniteSets, Sequences, SequencesExt, FiniteSetsExt

CONSTANTS
  Texts,           \* what the model may answer
  MaxDelta,        \* bound: characters of one event
  MaxAttempts,     \* MAX_RETRIES
  MaxPayload,      \* MAX_PUBLIC_PROGRESS_PAYLOAD_BYTES
  MaxProgress,     \* MAX_PUBLIC_PROGRESS_EVENTS
  MaxContent       \* MAX_RESPONSE_BODY_BYTES

ASSUME KimiAssumption == {MaxDelta, MaxAttempts, MaxPayload, MaxProgress, MaxContent} \subseteq Nat \ {0}

VARIABLES
  kimi,            \* the call: [at, config, attempt, result, answer, known]
  stream,          \* what the provider still sends in this attempt: [text, left, wire]
  reader,          \* SseState: [eventData, content, done]
  filter,          \* PublicContentFilter: [pending, mode, seen, shown]
  uploads          \* files of this call at the provider, counted

kimiVars == <<kimi, stream, reader, filter, uploads>>

-----------------------------------------------------------------------------
(* The configuration *)

Formats == {"openai", "anthropic"}
Endpoints == Formats \union {"other"}
Models == {"kimi-k2.6", "default", "other"}
RawConfigs == [hinted : BOOLEAN, endpoint : Endpoints, format : Formats, model : Models, key : BOOLEAN]

\* The URL of either surface gives the provider away, and so does the model's name.
LooksLikeKimi(config) == config.hinted \/ config.endpoint \in Formats \/ config.model = "kimi-k2.6"

ValidateKimiConfig(config) ==
  config.key /\ config.endpoint \in Formats /\ config.model = "kimi-k2.6"

\* Mutant: an address of the other surface is accepted.
AnyKimiEndpoint(config) == config.endpoint \in Formats

EndpointMatches(config) == config.endpoint = config.format

\* An empty model, or the default of another provider, becomes the one supported.
NormalizeConfig(config) ==
  LET normal == [config EXCEPT !.hinted = TRUE, !.model = "kimi-k2.6"]
  IN IF ~ LooksLikeKimi(config) THEN [backend |-> "generic", config |-> config]
     ELSE IF EndpointMatches(config) /\ config.model # "other" /\ ValidateKimiConfig(normal)
     THEN [backend |-> "kimi", config |-> normal]
     ELSE [backend |-> "refused", config |-> config]

-----------------------------------------------------------------------------
(* Markers in the text *)

OpenProgress == <<"<", "P">>
CloseProgress == <<"<", "/", "P">>
OpenResult == <<"<", "R">>
CloseResult == <<"<", "/", "R">>
Markers == {OpenProgress, CloseProgress, OpenResult, CloseResult}

Finds(text, marker) ==
  {i \in 1 .. Len(text) - Len(marker) + 1 : SubSeq(text, i, i + Len(marker) - 1) = marker}

Holds(text, marker) == Finds(text, marker) # {}
Before(text, marker) == SubSeq(text, 1, Min(Finds(text, marker)) - 1)
After(text, marker) == SubSeq(text, Min(Finds(text, marker)) + Len(marker), Len(text))

\* Mutant: a marker cut in two by the provider is not waited for.
NoPrefixSuffix(text, marker) == 0

\* How much of the end of the text begins the marker.
MarkerPrefixSuffix(text, marker) ==
  Max({0} \union {n \in 1 .. Min({Len(text), Len(marker) - 1}) :
                    SubSeq(text, Len(text) - n + 1, Len(text)) = SubSeq(marker, 1, n)})

LongestMarkerPrefixSuffix(text) == Max({MarkerPrefixSuffix(text, m) : m \in Markers})

NextNormalMarker(text) ==
  CHOOSE m \in {m \in Markers : Holds(text, m)} :
    \A n \in {n \in Markers : Holds(text, n)} : Min(Finds(text, m)) <= Min(Finds(text, n))

FirstPart(text, keep) == SubSeq(text, 1, Len(text) - keep)
LastPart(text, keep) == SubSeq(text, Len(text) - keep + 1, Len(text))

-----------------------------------------------------------------------------
(* PublicContentFilter *)

NewFilter == [pending |-> <<>>, mode |-> "normal", seen |-> 0, shown |-> <<>>]

EmitProgress(f, payload) ==
  IF f.seen >= MaxProgress \/ Len(payload) > MaxPayload THEN f
  ELSE [f EXCEPT !.seen = @ + 1,
                 !.shown = IF payload = <<"j">> THEN Append(@, payload) ELSE @]

Moves(f, marker, mode) == [f EXCEPT !.pending = After(@, marker), !.mode = mode]

\* A result that opens before the frame closes ends the frame.
ResultFirst(text) ==
  /\ Holds(text, OpenResult)
  /\ Holds(text, CloseProgress) =>
       Min(Finds(text, OpenResult)) < Min(Finds(text, CloseProgress))

Outgrown(f) ==
  f.mode = "progress" /\ ~ Holds(f.pending, OpenResult) /\ ~ Holds(f.pending, CloseProgress)
    /\ Len(f.pending) > MaxPayload

RECURSIVE Drain(_, _)
Drain(f, visible) ==
  LET text == f.pending
      Waits(keep) == [filter |-> [f EXCEPT !.pending = LastPart(text, keep)],
                      visible |-> visible \o FirstPart(text, keep)]
  IN CASE f.mode = "normal" ->
            IF ~ \E m \in Markers : Holds(text, m) THEN Waits(LongestMarkerPrefixSuffix(text))
            ELSE LET marker == NextNormalMarker(text)
                     mode == CASE marker = OpenProgress -> "progress"
                               [] marker = OpenResult -> "result"
                               [] OTHER -> "normal"
                 IN Drain(Moves(f, marker, mode), visible \o Before(text, marker))
       [] f.mode = "progress" ->
            IF ResultFirst(text) THEN Drain(Moves(f, OpenResult, "result"), visible)
            ELSE IF Holds(text, CloseProgress)
            THEN Drain(Moves(EmitProgress(f, Before(text, CloseProgress)), CloseProgress, "normal"), visible)
            ELSE [filter |-> IF Outgrown(f)
                             THEN [f EXCEPT !.pending = LastPart(text, MarkerPrefixSuffix(text, OpenResult))]
                             ELSE f,
                  visible |-> visible]
       [] f.mode = "result" ->
            IF Holds(text, CloseResult)
            THEN Drain(Moves(f, CloseResult, "normal"), visible \o Before(text, CloseResult))
            ELSE Waits(MarkerPrefixSuffix(text, CloseResult))

Push(f, text) == Drain([f EXCEPT !.pending = @ \o text], <<>>)

\* What is left at the end: nothing of an open frame, nothing of half a marker.
Finish(f) ==
  IF f.mode = "progress" THEN <<>>
  ELSE FirstPart(f.pending, LongestMarkerPrefixSuffix(f.pending))

-----------------------------------------------------------------------------
(* SseState *)

NewReader == [eventData |-> <<>>, content |-> <<>>, done |-> FALSE]

Event(kind, text) == [kind |-> kind, text |-> text]
NoEvent == Event("none", <<>>)
Line(part, event) == [part |-> part, event |-> event]
EmptyLine == Line("blank", NoEvent)

\* The buffered data parse when they are one whole event, on one line or two.
IsWhole(data) ==
  \/ Len(data) = 1 /\ data[1].part = "whole" /\ data[1].event.kind # "done"
  \/ Len(data) = 2 /\ data[1].part = "first" /\ data[2].part = "rest"

\* What one event does: [reader, filter, error].
FlushEvent(r, f) ==
  LET flushed == [r EXCEPT !.eventData = <<>>]
      event == Head(r.eventData).event
      Same(error) == [reader |-> flushed, filter |-> f, error |-> error]
  IN IF r.eventData = <<>> THEN [reader |-> r, filter |-> f, error |-> "none"]
     ELSE IF Len(r.eventData) = 1 /\ r.eventData[1].part = "whole" /\ event.kind = "done"
     THEN [reader |-> [flushed EXCEPT !.done = TRUE], filter |-> f, error |-> "none"]
     ELSE IF ~ IsWhole(r.eventData) THEN Same("ParseError")
     ELSE IF event.kind = "stop" THEN [reader |-> [flushed EXCEPT !.done = TRUE], filter |-> f, error |-> "none"]
     ELSE IF event.kind = "error" THEN Same("ServerError")
     ELSE IF event.kind = "thinking" THEN Same("none")
     ELSE LET pushed == Push(f, event.text)
          IN [reader |-> [flushed EXCEPT !.content = @ \o pushed.visible], filter |-> pushed.filter,
              error |-> IF Len(r.content) + Len(pushed.visible) > MaxContent THEN "TooLarge" ELSE "none"]

(* An empty line ends an event; a data line after a whole event begins a new one,
   for proxies that drop the empty line; other lines are skipped. *)
ConsumeLine(r, f, line) ==
  LET before == IF line.part = "blank" \/ IsWhole(r.eventData) THEN FlushEvent(r, f)
                ELSE [reader |-> r, filter |-> f, error |-> "none"]
  IN CASE line.part = "comment" -> [reader |-> r, filter |-> f, error |-> "none"]
       [] line.part = "blank" \/ before.error # "none" -> before
       [] OTHER -> [before EXCEPT !.reader.eventData = Append(@, line)]

-----------------------------------------------------------------------------
(* The chat *)

NoStream == [text |-> <<>>, left |-> <<>>, wire |-> <<>>]
NoConfig == [hinted |-> FALSE, endpoint |-> "other", format |-> "openai", model |-> "other", key |-> FALSE]

NewCall(at, config, result) ==
  [at |-> at, config |-> config, attempt |-> 1, result |-> result, answer |-> <<>>, known |-> "none"]

KimiInit ==
  /\ kimi = NewCall("idle", NoConfig, "none")
  /\ stream = NoStream /\ reader = NewReader /\ filter = NewFilter /\ uploads = 0

FreshReader == reader' = NewReader /\ filter' = NewFilter

(* normalize_config, then new_with_progress: a client of this adapter for a chat or
   a file, the generic client, or a refusal. *)
BeginKimi(raw, at) ==
  /\ kimi.at = "idle"
  /\ LET normal == NormalizeConfig(raw)
         accepted == normal.backend = "kimi" /\ ValidateKimiConfig(normal.config)
     IN kimi' = NewCall(IF accepted THEN at ELSE "done", normal.config,
                     IF normal.backend = "kimi" /\ ~ accepted THEN "ClientError" ELSE normal.backend)
  /\ UNCHANGED <<stream, reader, filter, uploads>>

Retryable(error) == error \in {"HttpError", "ServerError", "EndedEarly", "NoContent"}

\* The next attempt, after a pause, or the error.
Attempted(at, error) ==
  kimi' = IF Retryable(error) /\ kimi.attempt < MaxAttempts
          THEN [kimi EXCEPT !.at = at, !.attempt = @ + 1]
          ELSE [kimi EXCEPT !.at = "done", !.result = error]

\* Mutant: what an attempt read is kept for the next one.
KeptReader == UNCHANGED <<reader, filter>>

\* Every attempt reads into a state of its own.
AttemptReader == FreshReader

\* chat_once is refused, or its answer begins.
Post ==
  /\ kimi.at = "post"
  /\ \/ \E error \in {"HttpError", "ServerError", "ClientError"} : Attempted("post", error)
        /\ stream' = NoStream
     \/ kimi' = [kimi EXCEPT !.at = "reading"]
        /\ \E text \in Texts : stream' = [text |-> text, left |-> text, wire |-> <<>>]
  /\ AttemptReader /\ UNCHANGED uploads

Written(event) ==
  {<<Line("whole", event), EmptyLine>>, <<Line("whole", event)>>,
   <<Line("comment", NoEvent), Line("first", event), Line("rest", event), EmptyLine>>}

\* The provider writes its next event: some of the text, thinking, an error or the end.
SendEvent ==
  /\ kimi.at = "reading" /\ stream.wire = <<>> /\ ~ reader.done
  /\ \/ \E n \in 1 .. Min({MaxDelta, Len(stream.left)}) :
          \E lines \in Written(Event("text", SubSeq(stream.left, 1, n))) :
             stream' = [stream EXCEPT !.left = SubSeq(@, n + 1, Len(@)), !.wire = lines]
     \/ \E lines \in Written(Event("thinking", <<>>)) : stream' = [stream EXCEPT !.wire = lines]
     \/ /\ kimi.config.format = "anthropic"
        /\ stream' = [stream EXCEPT !.wire = <<Line("whole", Event("error", <<>>)), EmptyLine>>]
     \/ /\ stream.left = <<>>
        /\ stream' = [stream EXCEPT !.wire =
             <<Line("whole", Event(IF kimi.config.format = "openai" THEN "done" ELSE "stop", <<>>)), EmptyLine>>]
  /\ UNCHANGED <<kimi, reader, filter, uploads>>

ReadLine ==
  /\ kimi.at = "reading" /\ stream.wire # <<>> /\ ~ reader.done
  /\ LET read == ConsumeLine(reader, filter, Head(stream.wire))
     IN /\ reader' = read.reader /\ filter' = read.filter
        /\ IF read.error = "none"
           THEN stream' = [stream EXCEPT !.wire = Tail(@)] /\ UNCHANGED kimi
           ELSE Attempted("post", read.error) /\ stream' = [stream EXCEPT !.wire = <<>>]
  /\ UNCHANGED uploads

\* The transport fails, or the stream grows over MAX_KIMI_SSE_WIRE_BYTES.
StreamFails ==
  /\ kimi.at = "reading" /\ ~ reader.done
  /\ \E error \in {"HttpError", "TooLarge"} : Attempted("post", error)
  /\ UNCHANGED <<stream, reader, filter, uploads>>

\* The line a stream ends in: none, one cut short, or one without its newline.
LastLines ==
  {Line("comment", NoEvent)} \union
    IF stream.wire = <<>> \/ Head(stream.wire).part \in {"blank", "comment"} THEN {}
    ELSE {Head(stream.wire), Line("broken", NoEvent)}

\* Mutant: an answer is taken without its end.
AnyEnd(r) == TRUE

Ended(r) == r.done

\* The stream ends, whole or not; what is left in the buffers counts.
EndStream ==
  /\ kimi.at = "reading"
  /\ \E line \in LastLines :
       LET read == ConsumeLine(reader, filter, line)
           last == IF read.error = "none" THEN FlushEvent(read.reader, read.filter) ELSE read
           content == last.reader.content \o Finish(last.filter)
       IN /\ reader' = last.reader /\ filter' = last.filter
          /\ IF last.error # "none" THEN Attempted("post", last.error)
             ELSE IF Len(content) > MaxContent THEN Attempted("post", "TooLarge")
             ELSE IF ~ Ended(last.reader) THEN Attempted("post", "EndedEarly")
             ELSE IF content = <<>> THEN Attempted("post", "NoContent")
             ELSE kimi' = [kimi EXCEPT !.at = "done", !.result = "ok", !.answer = content]
  /\ UNCHANGED <<stream, uploads>>

-----------------------------------------------------------------------------
(* The extraction of a file *)

(* upload_file_once is refused, or the file is stored and its answer is lost, has no
   identifier in it, or has. *)
Upload ==
  /\ kimi.at = "upload"
  /\ \/ \E error \in {"HttpError", "ServerError", "ClientError"} : Attempted("upload", error)
        /\ UNCHANGED uploads
     \/ Attempted("upload", "HttpError") /\ uploads' = uploads + 1
     \/ kimi' = [kimi EXCEPT !.at = "done", !.result = "ParseError"] /\ uploads' = uploads + 1
     \/ kimi' = [kimi EXCEPT !.at = "download", !.known = "stored"] /\ uploads' = uploads + 1
  /\ UNCHANGED <<stream, reader, filter>>

Download ==
  /\ kimi.at = "download"
  /\ \E result \in {"ok", "HttpError", "ServerError", "ClientError", "ParseError"} :
       kimi' = [kimi EXCEPT !.at = "delete", !.result = result]
  /\ UNCHANGED <<stream, reader, filter, uploads>>

\* The call ends as the download did, whatever the deletion comes to.
Delete ==
  /\ kimi.at = "delete"
  /\ kimi' = [kimi EXCEPT !.at = "done", !.known = "deleted"]
  /\ uploads' \in {uploads, uploads - 1}
  /\ UNCHANGED <<stream, reader, filter>>

KimiNext ==
  \/ \E raw \in RawConfigs, at \in {"post", "upload"} : BeginKimi(raw, at)
  \/ Post \/ SendEvent \/ ReadLine \/ StreamFails \/ EndStream
  \/ Upload \/ Download \/ Delete

KimiSpec == KimiInit /\ [][KimiNext]_kimiVars

-----------------------------------------------------------------------------
(* Properties *)

\* The text with its frames taken out, read in one piece.
Visible(text) == LET whole == Push(NewFilter, text) IN whole.visible \o Finish(whole.filter)

\* A progress frame longer than the buffer: where it is cut decides what is seen of it.
Overlong(text) ==
  \E i \in Finds(text, OpenProgress) :
    LET ends == {e \in Finds(text, CloseProgress) \union Finds(text, OpenResult) : e > i}
    IN ends # {} /\ Min(ends) - i > MaxPayload

\* An answer is the visible text of the attempt it came from, however the provider
\* cut it into events and lines: nothing of an earlier attempt, of the thinking or of
\* a progress frame, and nothing without the end of the stream.
AnswerIsTheStream ==
  kimi.result = "ok" /\ kimi.known = "none" =>
    /\ stream.left = <<>>
    /\ ~ Overlong(stream.text) => kimi.answer = Visible(stream.text)

\* Only valid progress is shown, and no more of it in an attempt than the limit.
ProgressBounded == Len(filter.shown) <= MaxProgress /\ \A i \in DOMAIN filter.shown : filter.shown[i] = <<"j">>

\* A configuration that is normalised is one the client accepts, and normalising it
\* again changes nothing.
ConfigsAccepted ==
  /\ kimi.result # "kimi" \/ kimi.at # "done"
  /\ kimi.result = "kimi" =>
       NormalizeConfig(kimi.config) = [backend |-> "kimi", config |-> kimi.config]
         /\ kimi.config.endpoint = kimi.config.format

\* A call that learnt the identifier of its file has asked for its deletion when it
\* ends, and leaves no more files than its attempts.
FilesAccounted ==
  /\ kimi.at = "done" => kimi.known # "stored"
  /\ uploads <= MaxAttempts

KimiSound == AnswerIsTheStream /\ ProgressBounded /\ ConfigsAccepted /\ FilesAccounted
=============================================================================
