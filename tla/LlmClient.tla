------------------------------- MODULE LlmClient -------------------------------
(* Calls of a language model provider (src-tauri/src/llm_client.rs).  A client
   holds a copy of its configuration, so the registry it was built from
   (ProviderRegistry) has no part in them.

   A chat is a chain of HTTP requests: an attempt, the continuations that mend a
   JSON answer cut short, and the attempts after it.  A document extraction
   uploads a file, downloads its text and deletes it.  Calls run at the same time
   and share only the reasoning cache of their client and the provider's files.
   The provider is external: it answers anything.

   Text is a sequence of bytes out of a small alphabet: "{", "}", "1", prose "p",
   and one character of two bytes, "w1" "w2". *)
EXTENDS Integers, FiniteSets, Sequences, SequencesExt, FiniteSetsExt

CONSTANTS
  Chats,           \* the calls
  Documents,       \* the texts that parse as JSON
  ReasoningKeys,   \* the keys of the reasoning cache
  MaxRetries,      \* MAX_RETRIES
  MaxRepairs,      \* the attempts of repair_truncation
  MaxOverlap,      \* how much of a repetition merge_truncated_output looks for
  MaxCache,        \* MAX_REASONING_CACHE_ENTRIES
  Nothing          \* no key, no text

ASSUME LlmAssumption ==
  /\ {MaxRetries, MaxRepairs, MaxOverlap, MaxCache} \subseteq Nat \ {0}
  /\ Nothing \notin ReasoningKeys

VARIABLES
  chat,            \* Chats -> the state of the call
  reasoningCache,  \* key -> "plain", or "wide" when byte 500 is inside a character
  remoteFiles      \* the calls whose uploaded file the provider holds

llmVars == <<chat, reasoningCache, remoteFiles>>

-----------------------------------------------------------------------------
(* Text *)

\* A cut after n bytes falls inside a character: slicing there panics.
Inside(text, n) == n > 0 /\ n < Len(text) /\ text[n + 1] = "w2"

Parses(text) == text \in Documents

Depth(text, from, to) ==
  Cardinality({i \in from .. to : text[i] = "{"}) - Cardinality({i \in from .. to : text[i] = "}"})

\* From the first brace to the one that closes it; Nothing if none does.
ExtractJsonSubstring(text) ==
  LET opens == {i \in DOMAIN text : text[i] = "{"}
      closed == {i \in DOMAIN text : opens # {} /\ i >= Min(opens) /\ Depth(text, Min(opens), i) = 0}
  IN IF closed = {} THEN Nothing ELSE SubSeq(text, Min(opens), Min(closed))

Usable(text) == Parses(text) \/ ExtractJsonSubstring(text) \in Documents

\* What extract_text_from_model_response returns: nothing tests that it parses.
ModelText(text) ==
  IF ExtractJsonSubstring(text) = Nothing THEN text ELSE ExtractJsonSubstring(text)

DetectTruncation(answer) ==
  IF answer.finish # "length"
  THEN IF Usable(answer.text) THEN "complete" ELSE "invalid"
  ELSE IF Parses(answer.text) THEN "complete" ELSE "truncated"

Overlaps(partial, continuation) ==
  {n \in 1 .. Min({Len(partial), Len(continuation), MaxOverlap}) :
     SubSeq(partial, Len(partial) - n + 1, Len(partial)) = SubSeq(continuation, 1, n)}

(* The longest repetition is dropped, whether the provider repeated itself or the
   text goes on with what it ended in. *)
MergeTruncatedOutput(partial, continuation) ==
  LET overlaps == Overlaps(partial, continuation)
  IN partial \o SubSeq(continuation, (IF overlaps = {} THEN 0 ELSE Max(overlaps)) + 1, Len(continuation))

\* The longest repetitions are tried first, and each try slices both texts.
MergePanics(partial, continuation) ==
  LET overlaps == Overlaps(partial, continuation)
      least == IF overlaps = {} THEN 1 ELSE Max(overlaps)
  IN \E n \in least .. Min({Len(partial), Len(continuation), MaxOverlap}) :
       Inside(partial, Len(partial) - n) \/ Inside(continuation, n)

\* Mutant: the merged text is taken as it is.
MendedAnyway(partial, continuation) == TRUE

Mended(partial, continuation) == Parses(MergeTruncatedOutput(partial, continuation))

-----------------------------------------------------------------------------
(* What one request can come back with *)

Response(text, finish, reasoning) ==
  [kind |-> "choice", text |-> text, finish |-> finish, reasoning |-> reasoning]
Failed(kind) == [kind |-> kind, text |-> <<>>, finish |-> "none", reasoning |-> "none"]

\* 400, 401, 402 and 422 end a call; any other status, and a body too large, is tried again.
HttpFailures == {Failed(kind) : kind \in {"HttpError", "ServerError", "ClientError", "ParseError"}}

ShouldTerminate(answer) == answer.kind \in {"ClientError", "ParseError"}


\* A request for JSON: a document, one in prose, prose, or a document cut short.
FirstAnswers ==
  HttpFailures \union {Failed("NoChoices"), Response(<<"p">>, "stop", "none")}
    \union {Response(<<"p">> \o d, "stop", r) : d \in Documents, r \in {"none", "plain", "wide"}}
    \union {Response(t, "length", "none") : t \in UNION {Prefixes(d) : d \in Documents}}

\* Its continuation: what was left out, with some repetition or without.
Continuations ==
  HttpFailures \union {Failed("NoChoices"), Response(<<>>, "stop", "none")}
    \union {Response(t, "stop", "none") : t \in UNION {Suffixes(d) : d \in Documents}}

-----------------------------------------------------------------------------
(* The calls *)

NoChat == [at |-> "idle", kind |-> "none", json |-> FALSE, key |-> Nothing,
           attempt |-> 0, repairs |-> 0, partial |-> <<>>, sent |-> 0, asked |-> {}, result |-> "none",
           text |-> <<>>]

LlmInit ==
  /\ chat = [c \in Chats |-> NoChat]
  /\ reasoningCache = <<>> /\ remoteFiles = {}

Becomes(c, state) == chat' = [chat EXCEPT ![c] = state]

Ends(c, result, text) ==
  [chat[c] EXCEPT !.at = "done", !.result = result, !.text = text]

Sends(c) == [chat[c] EXCEPT !.sent = @ + 1]

\* chat_full: reasoning kept under the key goes into the prompt, cut at byte 500.
BeginChat(c, json, key) ==
  /\ chat[c].at \in {"idle", "done"}
  /\ LET begun == [NoChat EXCEPT !.at = "call", !.kind = "chat", !.json = json, !.key = key, !.attempt = 1]
     IN Becomes(c, IF key \in DOMAIN reasoningCache /\ reasoningCache[key] = "wide"
                   THEN [begun EXCEPT !.at = "done", !.result = "panic"] ELSE begun)
  /\ UNCHANGED <<reasoningCache, remoteFiles>>

(* cache_reasoning: a full cache gives up any of its entries, also when the key is
   already there. *)
CacheReasoning(key, reasoning) ==
  IF key = Nothing \/ reasoning = "none" THEN UNCHANGED reasoningCache
  ELSE LET kept == DOMAIN reasoningCache
           Without(k) == [x \in kept \ {k} |-> reasoningCache[x]]
           With(cache) == [x \in DOMAIN cache \union {key} |-> IF x = key THEN reasoning ELSE cache[x]]
       IN IF Cardinality(kept) < MaxCache THEN reasoningCache' = With(reasoningCache)
          ELSE \E oldest \in kept : reasoningCache' = With(Without(oldest))

\* Mutant: the limit is not looked at.
NextAttemptAlways(c, error) ==
  [Sends(c) EXCEPT !.at = "call", !.attempt = @ + 1, !.repairs = 0, !.partial = <<>>]

\* The next attempt, after a pause, or the error of the last one.
NextAttempt(c, error) ==
  IF chat[c].attempt < MaxRetries
  THEN [Sends(c) EXCEPT !.at = "call", !.attempt = @ + 1, !.repairs = 0, !.partial = <<>>]
  ELSE [Ends(c, error, <<>>) EXCEPT !.sent = @ + 1]

Done(c, result, text) == [Ends(c, result, text) EXCEPT !.sent = @ + 1]

\* One turn of call_with_retry.
CallWithRetry(c) ==
  /\ chat[c].at = "call"
  /\ \E answer \in FirstAnswers :
       /\ CacheReasoning(chat[c].key, answer.reasoning)
       /\ Becomes(c,
            CASE ShouldTerminate(answer) -> Done(c, answer.kind, <<>>)
              [] answer \in HttpFailures /\ ~ ShouldTerminate(answer) -> NextAttempt(c, "RetryExhausted")
              [] answer.kind = "NoChoices" -> Done(c, "empty", <<>>)
              [] answer.kind = "choice" /\ ~ chat[c].json -> Done(c, "ok", answer.text)
              [] answer.kind = "choice" /\ chat[c].json ->
                   CASE DetectTruncation(answer) = "complete" -> Done(c, "ok", answer.text)
                     [] DetectTruncation(answer) = "invalid" -> Done(c, "ParseError", <<>>)
                     [] DetectTruncation(answer) = "truncated" ->
                          [Sends(c) EXCEPT !.at = "repair", !.repairs = 1, !.partial = answer.text])
  /\ UNCHANGED remoteFiles

\* One turn of repair_truncation; its failure is one of the attempt it was for.
RepairTruncation(c) ==
  /\ chat[c].at = "repair"
  /\ \E answer \in Continuations :
       LET partial == chat[c].partial
           again == chat[c].repairs < MaxRepairs
           retried == [Sends(c) EXCEPT !.repairs = @ + 1]
       IN Becomes(c,
            CASE ShouldTerminate(answer) -> NextAttempt(c, answer.kind)
              [] answer \in HttpFailures /\ ~ ShouldTerminate(answer) ->
                   IF again THEN retried ELSE NextAttempt(c, "TruncationRepairFailed")
              [] answer.kind = "NoChoices" -> Done(c, "empty", <<>>)
              [] answer.kind = "choice" ->
                   IF MergePanics(partial, answer.text) THEN Done(c, "panic", <<>>)
                   ELSE IF Mended(partial, answer.text)
                   THEN Done(c, "ok", MergeTruncatedOutput(partial, answer.text))
                   ELSE IF again THEN retried ELSE NextAttempt(c, "TruncationRepairFailed"))
  /\ UNCHANGED <<reasoningCache, remoteFiles>>

-----------------------------------------------------------------------------
(* The client of the document pipeline *)

\* chat_json, or extract_kimi_file_text when the transport is the file extraction.
BeginExtraction(c, kimi) ==
  /\ chat[c].at \in {"idle", "done"}
  /\ Becomes(c, [NoChat EXCEPT !.at = IF kimi THEN "upload" ELSE "post", !.kind = "document",
                               !.json = TRUE, !.attempt = 1])
  /\ UNCHANGED <<reasoningCache, remoteFiles>>

(* The upload is refused, or it is stored and the answer is read, or it is stored
   and the answer is lost or has no identifier in it. *)
UploadKimiFile(c) ==
  /\ chat[c].at = "upload"
  /\ \/ \E answer \in HttpFailures : Becomes(c, Done(c, answer.kind, <<>>))
        /\ UNCHANGED remoteFiles
     \/ \E error \in {"HttpError", "ParseError"} : Becomes(c, Done(c, error, <<>>))
        /\ remoteFiles' = remoteFiles \union {c}
     \/ /\ Becomes(c, [Sends(c) EXCEPT !.at = "download", !.asked = @ \union {"upload"}])
        /\ remoteFiles' = remoteFiles \union {c}
  /\ UNCHANGED reasoningCache

\* Mutant: a failed download ends the extraction.
AfterDownloadOrFail(c, result) ==
  IF result = "ok" THEN [Sends(c) EXCEPT !.at = "delete", !.result = result] ELSE Done(c, result, <<>>)

AfterDownload(c, result) == [Sends(c) EXCEPT !.at = "delete", !.result = result]

DownloadKimiFileText(c) ==
  /\ chat[c].at = "download"
  /\ \E result \in {"ok", "HttpError", "ClientError", "ParseError"} :
       Becomes(c, AfterDownload(c, result))
  /\ UNCHANGED <<reasoningCache, remoteFiles>>

\* The extraction ends as the download did, whatever the deletion comes to.
DeleteKimiFile(c) ==
  /\ chat[c].at = "delete"
  /\ \/ remoteFiles' = remoteFiles \ {c}
     \/ UNCHANGED remoteFiles
  /\ Becomes(c, [Done(c, chat[c].result, <<>>) EXCEPT !.asked = @ \union {"delete"}])
  /\ UNCHANGED reasoningCache

\* post_json_with_retry and extract_text_from_model_response.
PostJsonWithRetry(c) ==
  /\ chat[c].at = "post"
  /\ \E answer \in FirstAnswers :
       Becomes(c,
         CASE ShouldTerminate(answer) \/ answer.kind = "NoChoices" -> Done(c, "ParseError", <<>>)
           [] answer \in HttpFailures /\ ~ ShouldTerminate(answer) ->
                [NextAttempt(c, answer.kind) EXCEPT !.at = IF @ = "call" THEN "post" ELSE @]
           [] answer.kind = "choice" -> Done(c, "ok", ModelText(answer.text)))
  /\ UNCHANGED <<reasoningCache, remoteFiles>>

LlmNext ==
  \/ \E c \in Chats :
       \/ \E json \in BOOLEAN, key \in ReasoningKeys \union {Nothing} : BeginChat(c, json, key)
       \/ CallWithRetry(c) \/ RepairTruncation(c)
       \/ \E kimi \in BOOLEAN : BeginExtraction(c, kimi)
       \/ UploadKimiFile(c) \/ DownloadKimiFileText(c) \/ DeleteKimiFile(c) \/ PostJsonWithRetry(c)

LlmSpec == LlmInit /\ [][LlmNext]_llmVars

-----------------------------------------------------------------------------
(* Properties *)

\* A chat that asks for JSON and is answered with a text is answered with JSON,
\* mended or not, however often it was cut short.
JsonIsUsable ==
  \A c \in Chats : chat[c].kind = "chat" /\ chat[c].json /\ chat[c].result = "ok" =>
    Usable(chat[c].text)

\* However attempts and repairs follow one another, a chat sends no more requests
\* than its attempts with their repairs, and a document's call one per attempt.
RequestsBounded ==
  \A c \in Chats :
    chat[c].sent <= IF chat[c].kind = "chat" THEN MaxRetries * (1 + MaxRepairs) ELSE Max({3, MaxRetries})

\* An extraction that learnt the identifier of its file has asked for its deletion
\* when it ends, whatever the download came to.
UploadsAreDeleted ==
  \A c \in Chats : "upload" \in chat[c].asked /\ chat[c].at \notin {"download", "delete"} =>
    "delete" \in chat[c].asked

\* The cache keeps to its limit, whatever it gave up before.
CacheBounded == Cardinality(DOMAIN reasoningCache) <= MaxCache

LlmSound == JsonIsUsable /\ RequestsBounded /\ UploadsAreDeleted /\ CacheBounded
=============================================================================
