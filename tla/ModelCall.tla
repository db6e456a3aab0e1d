------------------------------ MODULE ModelCall ------------------------------
(***************************************************************************)
(* The lm-eval model adapter (lemonade_model.py): the requests lm-eval     *)
(* makes at once under its semaphore, the streamed response of each, the   *)
(* answer that is scored, and the event each response leaves in the        *)
(* telemetry file (telemetry.py).                                          *)
(*                                                                         *)
(* Text is a sequence of fragments: the thinking tags, the stop strings of *)
(* the tasks, a line break, and words.  A response is buffered until it    *)
(* ends (lemonade_model.py:345-375), so what arrives is chosen when it     *)
(* ends: a plan of what the model would say, cut by what the request asked *)
(* of the provider or by a connection that closes early.  Clocks, token    *)
(* usage, counts of reasoning and several choices per response are left    *)
(* out.                                                                    *)
(***************************************************************************)
EXTENDS Naturals, FiniteSets, SequencesExt

CONSTANTS
    Calls,           \* one request for each sample
    StopsOf,         \* the stop strings ("until") of each call's task
    GenToks,         \* the generation limit each call's task asks for
    MinGenToks,      \* the adapter's _max_gen_toks
    MaxConcurrency,  \* bound on num_concurrent
    CallAttempts,    \* how often lm-eval tries one request
    Plans            \* what a model may say: sequences of deltas

\* One fragment of a response.  "final" marks what the model means as its
\* answer; the adapter does not see it.
Delta == [field : {"content", "reasoning"}, text : STRING, final : BOOLEAN]

ASSUME CallAssumption ==
    /\ IsFiniteSet(Calls)
    /\ MinGenToks \in Nat
    /\ GenToks \in [Calls -> Nat]
    /\ MaxConcurrency \in Nat \ {0}
    /\ CallAttempts \in Nat \ {0}

Newline == "newline"
ThinkingTags == << <<"<think>", "</think>">>, <<"<analysis>", "</analysis>">> >>
IsTag(t) == \E i \in DOMAIN ThinkingTags : t \in {ThinkingTags[i][1], ThinkingTags[i][2]}

\* A model thinks, in a field of its own or between the tags of a pair, and
\* then answers, or it answers at once: the first m deltas are its thinking.
\* The adapter can only tell thinking from an answer that has no tags in it.
ThinksThenAnswers(plan) ==
    \E m \in 0..Len(plan) :
      /\ \A i \in 1..Len(plan) : plan[i].final = (i > m)
      /\ \A i \in (m + 1)..Len(plan) : plan[i].field = "content" /\ ~IsTag(plan[i].text)
      /\ \/ \A i \in 1..m : plan[i].field = "reasoning"
         \/ /\ m > 1
            /\ \A i \in 1..m : plan[i].field = "content"
            /\ \E tags \in ToSet(ThinkingTags) : plan[1].text = tags[1] /\ plan[m].text = tags[2]
            /\ \A i \in 2..(m - 1) : ~IsTag(plan[i].text)

ASSUME PlansAssumption ==
    \A plan \in Plans : plan \in Seq(Delta) /\ ThinksThenAnswers(plan)

VARIABLES
    concurrency,  \* num_concurrent of the job
    permits,      \* lm-eval's semaphore
    call,         \* where each request stands
    tries,        \* how often each request has failed
    answer,       \* the text handed to lm-eval
    telemetry,    \* what the events of the telemetry file add up to
    meant,        \* history: the answer the model gave in its response
    received      \* history: responses read to their end

callVars == <<concurrency, permits, call, tries, answer, telemetry, meant,
              received>>

CallState == {"idle", "waiting", "streaming", "answered", "failed", "cancelled"}
Under(state) == {c \in Calls : call[c] = state}

-----------------------------------------------------------------------------
(* The text of an answer.                                                  *)

First(text, t) == SelectInSeq(text, LAMBDA x : x = t)
LastOf(text, t) == SelectLastInSeq(text, LAMBDA x : x = t)
After(text, i) == SubSeq(text, i + 1, Len(text))
IsBlank(text) == \A i \in DOMAIN text : text[i] = Newline
LStrip(text) ==
    IF IsBlank(text) THEN <<>>
    ELSE After(text, SelectInSeq(text, LAMBDA x : x # Newline) - 1)

\* Content up to the last closing tag is reasoning, and so is everything
\* after an opening tag that is never closed.
SplitThinking(content) ==
    LET pair == SelectInSeq(ThinkingTags,
                            LAMBDA p : \E t \in {p[1], p[2]} : Contains(content, t))
        open  == LastOf(content, ThinkingTags[pair][1])
        close == LastOf(content, ThinkingTags[pair][2])
        before == SubSeq(content, 1, close - 1)
    IN  IF pair = 0 THEN [reasoning |-> <<>>, content |-> content]
        ELSE IF close = 0
             THEN [reasoning |-> LStrip(After(content, open)), content |-> <<>>]
             ELSE [reasoning |-> LStrip(After(before, LastOf(before, ThinkingTags[pair][1]))),
                   content   |-> LStrip(After(content, close))]

TruncateAtStop(text, stops) ==
    LET cut == SelectInSeq(text, LAMBDA x : x \in stops)
    IN  IF cut = 0 THEN text ELSE SubSeq(text, 1, cut - 1)

FinalAnswer(message, stops) ==
    LET split == SplitThinking(message.content)
        text  == IF split.reasoning # <<>> \/ message.reasoning # <<>>
                 THEN LStrip(split.content) ELSE split.content
        final == TruncateAtStop(text, stops)
    IN  IF IsBlank(final) THEN <<>> ELSE final

ResponseMetadata(message, finish, stops) ==
    [final |-> FinalAnswer(message, stops) # <<>>, limited |-> finish = "length"]

-----------------------------------------------------------------------------
(* The request and its response.                                           *)

\* Mutant: the stop strings are sent along.
GenerationPayload_KeepsStop(c) ==
    [stop  |-> StopsOf[c],
     limit |-> IF GenToks[c] > MinGenToks THEN GenToks[c] ELSE MinGenToks]

\* The task's stop strings stay out of the request, and the adapter's limit
\* is the least it asks for.
GenerationPayload(c) ==
    [stop  |-> {},
     limit |-> IF GenToks[c] > MinGenToks THEN GenToks[c] ELSE MinGenToks]

\* What the provider generates of a plan: up to the first stop string of the
\* request and no longer than its limit.
Generated(plan, payload) ==
    LET cut == SelectInSeq(plan, LAMBDA d : d.text \in payload.stop)
        said == IF cut = 0 THEN plan ELSE SubSeq(plan, 1, cut - 1)
    IN  IF Len(said) > payload.limit
        THEN [deltas |-> SubSeq(said, 1, payload.limit), finish |-> "length"]
        ELSE [deltas |-> said, finish |-> "stop"]

\* The connection may be closed without an error after n deltas; the response
\* then has no finish reason.
Delivered(plan, payload, n) ==
    LET full == Generated(plan, payload)
    IN  IF n < Len(full.deltas)
        THEN [deltas |-> SubSeq(full.deltas, 1, n), finish |-> "none"]
        ELSE full

\* The texts of the chosen deltas, one appended after the other.
KeptTexts(deltas, chosen) ==
    LET kept[n \in 0..Len(deltas)] ==
            IF n = 0 THEN <<>>
            ELSE IF n \in chosen THEN Append(kept[n - 1], deltas[n].text)
            ELSE kept[n - 1]
    IN  kept[Len(deltas)]
Texts(deltas, f) == KeptTexts(deltas, {i \in DOMAIN deltas : deltas[i].field = f})

\* The output the stream is folded into.  Its metadata is computed without
\* stop strings, which are recorded afterwards.
StreamResponse(response) ==
    LET message == [content   |-> Texts(response.deltas, "content"),
                    reasoning |-> Texts(response.deltas, "reasoning")]
    IN  [message  |-> message,
         finish   |-> response.finish,
         response |-> ResponseMetadata(message, response.finish, {}),
         recorded |-> FALSE]

Telemetry == [responses : Nat, final : Nat, limited : Nat]
NoTelemetry == [responses |-> 0, final |-> 0, limited |-> 0]
One(b) == IF b THEN 1 ELSE 0

AppendTimingEvent(t, metadata) ==
    [responses |-> t.responses + 1,
     final     |-> t.final + One(metadata.final),
     limited   |-> t.limited + One(metadata.limited)]

\* Mutant: the mark is not looked at.
ParseGenerations_RecordsAgain(output, stops) ==
    [answer |-> FinalAnswer(output.message, stops),
     events |-> <<ResponseMetadata(output.message, output.finish, stops)>>]

\* The answer of an output, and the event it leaves unless it has been
\* recorded already.
ParseGenerations(output, stops) ==
    [answer |-> FinalAnswer(output.message, stops),
     events |-> IF output.recorded THEN <<>>
                ELSE <<ResponseMetadata(output.message, output.finish, stops)>>]

\* The answer the model gives in n deltas of a plan: the final ones the limit
\* leaves room for, up to the first stop string of the task, without the line
\* breaks that separate them from its thinking; line breaks are no answer.
Meant(c, plan, n) ==
    LET room == {n, Len(plan), IF GenToks[c] > MinGenToks THEN GenToks[c] ELSE MinGenToks}
        deltas == SubSeq(plan, 1, CHOOSE k \in room : \A i \in room : k <= i)
        text == KeptTexts(deltas, {i \in DOMAIN deltas : deltas[i].final})
        thought == \E i \in DOMAIN deltas : ~deltas[i].final
        final == TruncateAtStop(IF thought THEN LStrip(text) ELSE text, StopsOf[c])
    IN  IF IsBlank(final) THEN <<>> ELSE final

\* All that one response to a call comes to: it is folded, recorded in the
\* telemetry file, marked as recorded, and parsed with the stop strings of its
\* own request.
ModelResponse(c, plan, n) ==
    LET output == StreamResponse(Delivered(plan, GenerationPayload(c), n))
        parsed == ParseGenerations([output EXCEPT !.recorded = TRUE], StopsOf[c])
    IN  [answer |-> parsed.answer,
         events |-> <<output.response>> \o parsed.events,
         meant  |-> Meant(c, plan, n)]

ResponsesTo == [c \in Calls |->
    UNION {{ModelResponse(c, plan, n) : n \in 0..Len(plan)} : plan \in Plans}]

-----------------------------------------------------------------------------
CallInit ==
    /\ concurrency \in 1..MaxConcurrency
    /\ permits = concurrency
    /\ call = [c \in Calls |-> "idle"]
    /\ tries = [c \in Calls |-> 0]
    /\ answer = [c \in Calls |-> <<>>]
    /\ telemetry = NoTelemetry
    /\ meant = [c \in Calls |-> <<>>]
    /\ received = 0

\* lm-eval hands over the requests of a run.  With num_concurrent above one
\* each is a task of its own behind the semaphore; with one they are made in
\* a loop, without it.
Hand(group) ==
    /\ call' = [c \in Calls |-> IF c \in group THEN "waiting" ELSE "idle"]
    /\ tries' = [c \in Calls |-> 0]
    /\ answer' = [c \in Calls |-> <<>>]
    /\ meant' = [c \in Calls |-> <<>>]
    /\ permits' = concurrency
    /\ UNCHANGED <<concurrency, telemetry, received>>

Async == concurrency > 1

\* A request that is made one at a time.
Post(c) ==
    /\ ~Async
    /\ call[c] = "waiting"
    /\ Under("streaming") = {}
    /\ Under("failed") = {}
    /\ call' = [call EXCEPT ![c] = "streaming"]
    /\ UNCHANGED <<concurrency, permits, tries, answer, telemetry, meant, received>>

\* sem.acquire() of a concurrent request.
Acquire(c) ==
    /\ Async
    /\ call[c] = "waiting"
    /\ permits > 0
    /\ permits' = permits - 1
    /\ call' = [call EXCEPT ![c] = "streaming"]
    /\ UNCHANGED <<concurrency, tries, answer, telemetry, meant, received>>

\* The finally clause gives the permit back.
Release == permits' = IF Async THEN permits + 1 ELSE permits

\* The response has been read to its end.
Receive(c) ==
    /\ call[c] = "streaming"
    /\ \E r \in ResponsesTo[c] :
         /\ answer' = [answer EXCEPT ![c] = r.answer]
         /\ meant' = [meant EXCEPT ![c] = r.meant]
         /\ telemetry' = FoldLeft(AppendTimingEvent, telemetry, r.events)
    /\ received' = received + 1
    /\ call' = [call EXCEPT ![c] = "answered"]
    /\ Release
    /\ UNCHANGED <<concurrency, tries>>

\* Mutant: the permit is only given back with an answer.
CallFails_KeepsPermit(c) ==
    /\ call[c] = "streaming"
    /\ tries' = [tries EXCEPT ![c] = @ + 1]
    /\ call' = [call EXCEPT ![c] =
                  IF tries[c] + 1 < CallAttempts THEN "waiting" ELSE "failed"]
    /\ UNCHANGED <<concurrency, permits, answer, telemetry, meant, received>>

\* An HTTP error, a connection error, a stream that stays silent for longer
\* than sock_read, or a telemetry file that cannot be written.  lm-eval makes
\* the request again until its attempts are used up.
CallFails(c) ==
    /\ call[c] = "streaming"
    /\ Release
    /\ tries' = [tries EXCEPT ![c] = @ + 1]
    /\ call' = [call EXCEPT ![c] =
                  IF tries[c] + 1 < CallAttempts THEN "waiting" ELSE "failed"]
    /\ UNCHANGED <<concurrency, answer, telemetry, meant, received>>

\* The failure of one request ends the run, which cancels the others.
CancelCall(c) ==
    /\ Async
    /\ Under("failed") # {}
    /\ call[c] \in {"waiting", "streaming"}
    /\ call' = [call EXCEPT ![c] = "cancelled"]
    /\ permits' = IF call[c] = "streaming" THEN permits + 1 ELSE permits
    /\ UNCHANGED <<concurrency, tries, answer, telemetry, meant, received>>

CallStep(c) == Post(c) \/ Acquire(c) \/ Receive(c) \/ CallFails(c) \/ CancelCall(c)

-----------------------------------------------------------------------------
(* Properties.                                                             *)

\* Only the final content is scored, an unfinished reasoning trace is never an
\* answer, and only the stop strings of the call's own task cut it, after the
\* thinking and never inside it (README.md:196-201, lemonade_model.py:131-171).
AnswerIsFinalContent ==
    \A c \in Calls : call[c] = "answered" => answer[c] = meant[c]

\* Every permit of the semaphore is free or held by a request that is
\* streaming, whether requests are answered, fail, are tried again or are
\* cancelled (lemonade_model.py:496-517).
PermitsBalanced ==
    Async => permits + Cardinality(Under("streaming")) = concurrency

\* The telemetry file has one event for each response that was read, on both
\* paths through the adapter (lemonade_model.py:457-460, 507-510, 524-544).
OneEventPerResponse == telemetry.responses = received
=============================================================================
