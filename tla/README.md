# Model Center: models, checks and proofs

Model Center is a self-hosted gateway for language and speech models. Its API
(FastAPI, asyncio) authenticates a caller, picks a running deployment of the
model asked for, applies rate limits, calls the runtime that serves it (vLLM,
Ollama, an OpenAI-compatible server, Speech2Text), passes the answer on,
usually as a stream, and keeps a usage record. This directory holds TLA+ models
of the parts whose correctness depends on the order of events, the TLC runs that
check them on small instances, and TLAPS proofs for every instance.

All paths below are relative to `src/`.

## 1. Inventory

| Component | Code | State it keeps | Talks to |
|---|---|---|---|
| Voice pipeline | `packages/gateway/mc_gateway/gateway.py` `stream_voice_chat` | two queues, a producer task with a task group, the failure | router, limiter, three runtimes, usage table, client |
| Reasoning splitter | same file, `ReasoningSplitter` | state, buffer, held text | fed by the voice pipeline |
| Remembered styles | same file, `remember_reasoning_style` | two process-wide tables | read when a voice reply begins, written when it ends |
| Sentence cutter | same file, `take_sentences` | a buffer | fed by the voice pipeline |
| Other gateway requests | same file, `complete_chat`, `stream_chat`, `transcribe_audio`, `stream_speech_audio` | the request's progress | router, limiter, one runtime, usage table |
| Rate limiter | `packages/gateway/mc_gateway/limiter.py` | counters in Redis or in memory | called by every gateway request |
| Router | `packages/router/mc_router/router.py` | none | reads deployments and runtimes |
| Health worker | `apps/worker/health.py`, `apps/api/mc_api/services.py` | health columns | writes what the router reads |
| Runtime adapters | `packages/runtimes/mc_runtimes/` | none, but `speech2text.py` polls a job until a deadline | model servers, over httpx |
| Playground key | `apps/api/mc_api/routes/admin.py` `playground`, `playground_voice` | the playground project, its models, a key per request | the database, one gateway request |
| Playground conversation | `apps/web/app/playground/page.tsx` | microphone, recorders, turns, queued clips | the voice endpoint, the browser |
| Sessions | `routes/admin.py` login, refresh, logout; `deps.py`; `packages/auth/mc_auth/tokens.py` | revoked refresh tokens, in memory | every handler of the dashboard |
| Admin API | `apps/api/mc_api/routes/admin.py`, `services.py` | the database | dashboard |
| Public API | `apps/api/mc_api/routes/v1.py` | none | wraps gateway generators in streaming responses |
| Start of the API | `apps/api/mc_api/bootstrap.py`, `packages/shared/mc_shared/db.py` | the super admin | settings |
| Speech server | `apps/tts/server.py`, `pocket_engine.py` | a lock around one engine | called over HTTP by a runtime adapter |
| Transcription server | `apps/asr` | model caches | called over HTTP |
| Other pages | `apps/web` | cookies | Admin API |

What is hard, and what makes each part correct:

* **Voice pipeline.** Four tasks interleave; either runtime can fail in the
  middle of its stream while the other goes on; the client can leave at every
  suspension point, also while the task group is being set up or torn down.
  Correct when text precedes its audio, `[DONE]` means that nothing is missing,
  an error is reported once and charged to the runtime that caused it, and no
  task outlives the request it serves.
* **Reasoning splitter and sentence cutter.** The stream is cut into deltas at
  arbitrary places, also inside a tag. Correct when the division makes no
  difference, every word is shown as thinking or spoken, and once, and nothing
  waits in a buffer longer than necessary.
* **Remembered styles.** Concurrent replies read and write them in any order.
  Correct when text is streamed unheld only after a run of replies without tags.
* **Rate limiter.** Eight counters are incremented one after another, without a
  transaction, by concurrent requests; a refused request leaves what it added;
  counters expire. Correct when no window lets more through than its limit, and
  nobody is refused before it is used up.
* **Health worker and router.** The worker's session and an administrator's
  check overwrite each other; one broken runtime ends a tick. Correct when what
  stays down is avoided in the end, and what stays up is used.
* **Other gateway requests.** They differ in what their `try` covers and in when
  the status line leaves. Correct when the usage record agrees with what the
  client got, and no error hides behind a 200.
* **Speech2Text.** A job that may end at any moment is polled at growing
  intervals. Correct when a transcription ends in time and a job that was done
  in time is not given up.
* **Playground key.** Requests insert the same rows in sessions of their own.
  Correct when the key may use its models, no answered request leaves one
  behind, and no circle of waiting sessions lasts.
* **Playground conversation.** Clicks, timers, recorder events, the request and
  the clips are callbacks in any order, and an end leaves some of them under
  way. Correct when one loop listens at a time, not while the page speaks, the
  microphone is off afterwards, and the page listens again after each turn.
* **Sessions.** A handler checks a token, waits for the database and then revokes
  it; other handlers run meanwhile, and a restart forgets what was revoked.
  Correct when one login has one refresh token at a time, and none after logout.
* **Admin API.** Each handler loads a row, sets some columns of the object and
  commits; nothing locks the row. So does the gateway with the key it notes the
  use of, minutes after it loaded it. Correct when no change is lost (a revoked
  key stays revoked) and the status the router reads is the one desired.
* **Speech server.** Threads wait for one engine; a text is cut into chunks whose
  size, joints and shortest length pull in different directions. Correct when
  each word is spoken once, in chunks the model can say, and every request is
  answered.
* **Start.** Correct when the promised administrator exists once the API serves.

## 2. Modules

```
VoiceStream            what a client of the voice endpoint is promised
VoicePipeline          the four tasks; implements VoiceStream
VoicePipelineProofs    theorems about VoicePipeline, among them that it implements VoiceStream
ReasoningSplitter      the splitter, character by character
SentenceCutter         the sentence buffer
ReplyText              splitter and cutter, one behind the other (what stands behind
                       the deltas and sentences of VoicePipeline)
ReasoningStyle         the styles remembered between replies (the splitter's `style')
ReplyTextProofs        theorems about ReplyText and ReasoningStyle
GatewayRequest         the four other requests and their routes
SpeechPlan             how a text is cut into chunks (operators)
SpeechServer           the speech server: threads, lock, engine
SpeechRequest          GatewayRequest with SpeechServer as the runtime for speech
GatewayRequestProofs   theorems about SpeechPlan, GatewayRequest and SpeechRequest
RateLimiter            the walk over the counters
RateLimiterProofs      theorems about RateLimiter
HealthRouting          worker, administrator and router over one database
Speech2Text            one polled transcription job, in time
Speech2TextProofs      theorems about Speech2Text
PlaygroundKey          the sessions that issue and revoke playground keys
PlaygroundKeyProofs    theorems about PlaygroundKey
Sessions               login, refresh and logout
AdminApi               Sessions and the handlers that change rows; implements Sessions
AdminApiProofs         theorems about Sessions and AdminApi
Conversation           the callbacks of the voice conversation in the browser
TurnDetector           when a turn begins and ends (what Conversation's Hear, StartOver and TurnSpoken decide)
ConversationProofs     theorems about Conversation and TurnDetector
Bootstrap              the start of the API container
MC*                    values for TLC
```

A definition named `X_Y` just before a definition `X` is `X` with one plausible
bug. No specification uses them; they show that each property would notice it.

### VoicePipeline

A step is what a task does between two suspension points. `con` is where the
generator stands, `prod` the task that runs `produce()`, `llm` and `tts` the
children of its task group, `events` and `sentences` the two queues, `sent`
what the generator has yielded, `usage` the statuses `_record` has committed. A
reply is abstracted to numbered deltas and numbered sentences; a sentence
remembers the delta that completed it (`after`), and `Deltas` says what a delta
can do to the sentence buffer, which is what `ReplyText` shows of the real
one. The actions follow the code from the opening of the request to the
`finally` clause; `AbortGroup` is the task group hearing of a failed child or
of its own cancellation, some time after it happened. `Disconnect` is either
way in which a client's leaving reaches the generator (`GeneratorExit` at a
yield, `CancelledError` at an await), and `Close` may come before the producer
has ended, because `suppress(CancelledError)` also swallows a second
cancellation of the generator.

### ReasoningSplitter, SentenceCutter, ReplyText, ReasoningStyle

The first two are state machines driven by pieces of text; `ReplyText` puts them
together as `read_llm` does: what one call of the splitter adds to the answer is
cut into sentences at once, and the end of the reply flushes first the splitter
and then the cutter. The tags are shortened to two sequences that keep what
matters about the real ones: they begin alike, differ at the second character,
and may be split anywhere. The two loops are recursive functions, of the splitter's
turns (`Turn`, `Loop`) and of the positions of a text (`Scan`, `TakeSentences`).
Each module defines what a whole reply should give;
`ReplyText` compares the two ends of the composition. `ReasoningStyle` has one
action for the beginning and one for the end of each reply.

### GatewayRequest

One request to one of four endpoints. `at` follows the handler, `made` and
`shown` count the items the generator has yielded and the client has been
sent: they differ while the route of speech holds the first item back to learn
whether there is one. `Leave` is a client that disconnects, which cancels a
streaming response but not an ordinary handler.

### SpeechPlan, SpeechServer, SpeechRequest

A word is what the plan looks at: its tokens, whether it is tied to the next word
(ezafe), whether it ends its clause. The tokens of several words are taken for
the sum of theirs. `plan_sentence` repeats its cutting up to four times on the
same input, which is one cutting here. Synthesis is an action per chunk that may
run away `Retries` times before the shortest result is kept; phonemes, audio and
the voice table are left out. The handler is an ordinary function run in a
thread, so a client that leaves changes nothing there. `SpeechRequest`
replaces, for the endpoint of speech, the free runtime of `GatewayRequest` by
this server, which other clients use at the same time: bytes and their end come
only when the server has answered, a failure may come at any time (the
adapter's timeout). The plan's loops are recursive functions on the positions of
a sentence, on the chunks still to be settled and on the sentences of a text.
Every behaviour of it is one of `GatewayRequest`, which is
proved.

### Speech2Text

Time is counted in sixteenths of a second; it passes in calls and sleeps, at
most until the call's bound (`MaxCall`) or the lateness of the event loop
(`Late`). The service completes the job, or fails it, whenever it likes.

### PlaygroundKey

Each request has a session: rows it has inserted (`held`) are seen by nobody
but block others that insert the same; a commit makes the waiting insertion
fail. `DeadlockVictim` is the database breaking a circle. Rows that exist before
are any set of models of an existing project. A manager's `allow_model` writes
the same links in a session of its own, but issues no key.

### Sessions, AdminApi

Requests are cut where their handlers await the database. A pair of tokens has
the name of the request that issued it, and `login` says which login it descends
from. Two events are remembered because the code does not survive them:
`overlapped`, a token revoked while another request that had already checked it
waited for the database, and `restarted`. Every property names what it excepts,
and the model lets both happen.

In `AdminApi` a handler enters through `current_user` (or, the gateway's
`_record`, through a key), loads its row, and commits the columns it was asked
to change and that differ from what it loaded: that is SQLAlchemy's unit of
work, with `expire_on_commit=False`. There is one row of each table; a
deployment may be created with any text as its desired status.

### Conversation, TurnDetector

A step of `Conversation` is one callback from its beginning to its next await.
Each call of `listen()` makes a loop (an interval and a recorder), each
`sendVoice` a turn, each playback generation a chain of promises. The page does
not guard against seven events: a second click on Start at the microphone
prompt, a page left at that prompt, a Start that overtakes the last recorder's
stop event, a reply that breaks off, a clip the browser cannot decode after its
conversation has ended, a microphone that is unplugged, and an analyser that
cannot be made once the microphone is live (`GrantWithoutAnalyser`: the `try` of
page.tsx:417-429 covers lines 419-425 too, and its handler leaves the stream in
`micStream` with `talking` false). `odd` remembers which of them happened, and
each property names the ones it cannot survive; it is checked with every other
event. A browser without an AudioContext is a choice of the initial state
(`audio`): there the page talks but never listens. A loop whose recorder is
refused, because its stream has ended, throws before its interval is set. `TurnDetector` is the frame counting of one
loop, with free loudness.

### RateLimiter

`Charge` is one INCRBY and the comparison after it; `Abandon` is an exception
from Redis or a client that leaves, and `Expire` a TTL that runs out, which the
model allows from one minute after the end of the window on, and never forces.

### HealthRouting

The worker's session keeps what it read at the beginning of the tick (`read`),
writes a health only when it differs from that, and commits the deployments of
one runtime together with the health of the next (`pending`). `Misconfigured`
runtimes make `build_runtime` raise, which ends the tick.

### Bootstrap

The binding that `from mc_shared.db import SessionLocal` makes is a variable of
its own.

## 3. Runs

| Run | Instance | What it shows |
|---|---|---|
| `voice` | 2 items, 2 sentences per delta, a refusal, a runtime error and other exceptions, fair | the five invariants of the pipeline; every request ends with all its tasks; the pipeline implements `VoiceStream` (1.2 million states) |
| `gateway` | the four endpoints with streams of up to 2 items, the speech server with another client; texts of up to 2 sentences and sentences of up to 4 words, a budget of 4 tokens and a least of 2, 1 retry, fair | usage records and status lines agree with what the client got; a complete answer has each word once, in chunks of the right size; nobody waits for the engine for ever (1.4 million states) |
| `reply_text` | replies of up to 7 characters, pieces of 1 or 2, flush at 2, all styles, a reasoning field at any moment; or 5 replies of 2 deployments overlapping | where the reply is cut does not matter to what is heard; every word is spoken exactly once unless it was hidden as thinking; neither buffer keeps what can become neither a tag nor a sentence; unheld speech only after three replies without tags |
| `held_text` | the same, replies of up to 4 characters | **violated**, see section 6 |
| `limiter` | 3 requests, 2 keys of one project, 3 minutes and 2 days | limits hold in every interleaving; counters that expire let nothing through; nobody is refused before a limit is used up |
| `health` | 2 runtimes with deployments and one that cannot be built | what stays up is used, what stays down is avoided |
| `playground_key` | 4 requests: a chat that may be a stream, two conversations with opposite orders, a manager who allows a model | no key is left by an answered request; keys may use their models; everything ends |
| `conversation` | 2 conversations, 2 loops, 2 turns, at most one kind of odd event, fair | one ear, microphone off, half duplex, one voice; the page listens again; turns end |
| `turn_detector` | times of 2 to 12 frames | short noise is dropped, speakers are not cut short, a recording ends |
| `speech2text` | a timeout of 6.5 s, calls of up to 3/16 s | the adapter ends in time and gives up late |
| `admin_api` | 4 requests of any kinds, tokens that expire, restarts | no change of a column is lost; status and desired status agree; one refresh token per session, none after logout |
| `bootstrap` | every combination of the two settings, 2 starts | **violated**, see section 6 |

`TypeOK` states the types of a module's variables. Where there are proofs it is
the first part of the inductive invariant and proved; it is a property of no
run.

**Bounds.** Two items of the language model are the least in which a text can
overtake another's audio, a sentence can end in a later delta than it began and
a failure can hit the middle of a stream; two sentences per delta make the queue
of sentences longer than one. The replies of `reply_text` hold an opening and a
closing tag with text between or behind them, or an unfinished tag after a
sentence; they are more than three times the flush length. The splitter and what
is remembered of many replies share no state but the style a reply reads, which
is free in Init: a behaviour of this run follows the one or the other. Four
replies of a deployment are enough for three without tags around one with. With words of one or
three tokens three of them make a short tail that borrows, and a fourth puts a
clause end, a tie or a cut at the budget before it; two items are the least in
which a route has given the held item back and has another. Three requests are
one more than the project's limit, and three minutes the least in which a
counter of the first can expire while a request of the second is still walking.
Two loops, turns and conversations are the least in which a late callback of one
can disturb the next (of the admin's requests four: a login, a change under way,
and two more that overlap it); a property is checked with each odd event it does
not name, one kind at a time. `speech2text` has a timeout of thirteen times the
first interval, so that the interval grows to its cap and several capped sleeps
follow. A runtime changes at most once, which with the free choice of the
initial state covers both directions; what comes later repeats it.

**Fairness.** The event loop runs each ready task, and httpx's timeouts end each
wait for a runtime: weak fairness of the consumer, the producer, the reader and
the speaker. The client's leaving is never assumed. The worker loops for ever
with a sleep and a check ends by its timeout: weak fairness of the worker and of
an administrator's check once it has begun. Of the playground's requests one
that can go on does so: the fairness is of their disjunction, which is enough as
each of them has finitely many steps; the database breaks circles. The speech
server's threads run, and a lock that is free is given to one of those that
wait: each client has one request, so weak fairness of taking it is all that is
needed (Python's lock promises no order). In the browser recorders stop once
they are told to, the server answers and ends its streams (which
`EverythingStops` shows of the voice endpoint), and clips come to an end; nobody
is obliged to speak or to click.

**Deadlock** is checked in every run: finished systems stutter through an
action of their own (`Over`, `Finished`). The exception is `admin_api`, whose
last request leaves nothing to do.

## 4. Proofs

`VoicePipelineProofs` proves for every bound on items and sentences and every
set of error statuses in 400..599:

* `TypeCorrect`: `Spec => []TypeOK`.
* `NoOrphansHolds`, `NothingAfterErrorHolds`: from the inductive invariant
  `Control`. `NoOrphans` is not inductive: that the group is over when the loop
  is left follows from what the queue holds, since `"error"` and `"done"` are
  only put by a producer that has left its group (`LastWords`) and the consumer
  leaves the loop only on `"done"` (`ConsumerStates`).
* `AudioFollowsTextHolds`: from `Control /\ Order`. The order in `sent` follows
  from the order in the queue (`OnTheWay`): an audio event in the queue has its
  text before it or already sent. When the speaker puts an audio event, its
  text is under way because the sentence was cut from a delta already made
  (`SentencesMade`), and each delta made is in the queue or sent, as long as the
  consumer passes events on.

* `UsageTellsOutcomeHolds`: from `Control /\ Errors /\ DoneIsLast /\ Records`.
  The error the consumer is told of is the one the producer's exception group
  unwraps to (`Errors`), it can be told of only one, and the record made at the
  end is of that one (`Records`).
* `DoneIsCompleteHolds`: from all of the above with `Drained`, `Counted` and
  `Completed`. The queue of sentences holds exactly those cut and not spoken,
  then one None (`Queue`), so a speaker that has ended by itself has spoken them
  all; a child is cancelled only after an error or a cancellation
  (`Cancellations`), and neither leads to `[DONE]`. The texts in `sent` and in
  `events` are numbered in order and below `texts` (`Counted`), and when the
  mark is sent the queue of events is empty (`Completed`); with `Order` no text
  is missing.

* `StreamImplemented`: `Spec => Stream!Spec`, every step of the four tasks is one
  step of `VoiceStream` or none, under the mapping of the run. From `Refining`:
  to `DoneIsComplete`'s invariant it adds that the sentences still queued follow
  in number those spoken (`Numbered`), that the reply made so far (what was sent
  and what is queued) is ordered as `VoiceStream` asks (`Promise`), and that an
  error or the end of the stream comes when nothing more is made (`Endings`).
  `DoneIsComplete` is what makes the step to the mark a step of the stream.
* `ImplementsStreamWhenItStops`: `Spec /\ EverythingStops => ImplementsStream`.
  What VoiceStream's `LiveSpec` adds is that the stream ends; the proof reduces it to
  `EverythingStops`, which the run checks under the fairness of the tasks.

The assumptions are the two named in the module, on the bounds and on the range
of HTTP statuses.

`GatewayRequestProofs` proves `TypeOK`, `RecordTellsAnswer` and `StatusIsHonest`
for streams of any length, from `IInv`: until a request is counted or ended
there is no usage record (`NotYetCounted`), what has been sent lags by the one
item a route may hold (`Behind`), and the status line is that of the endpoint
and of how far it has come (`StatusSoFar`). About the composition it proves that
`SpeechSpec => Spec` (`ComposedIsGatewayRequest`: each step of the server stutters,
each other step is one of `GatewayRequest`), so that these theorems hold with
the server too, and that one thread is in the engine at a time and a complete
answer is the server's complete answer (`AnswerIsTheServersHolds`), for any
clients, texts and retries.

`SpeechIsWholeHolds` adds, for any words, token counts, budgets and texts, that a
complete answer has each sentence of the text whole, in order and in chunks of
the right size (`TextsAssumption`: texts are sequences of sentences of words).
The argument follows the code's four loops, each with an invariant of its own.
While a sentence is cut, the closed chunks and the one that grows tile the words
seen; each closed one fits the budget or is tied (`Fits`), and ends well
(`WellCut`, `ChunksAreWell`). Borrowing moves the border between two chunks, so
they still tile the sentence (`BorrowTiles`), and one that was settled lends to
nobody afterwards (`SettledIsGood`). A plan is the plans of the sentences one
after another (`TextIsWhole`), and the audio of a request under way is its plan
up to the chunk being spoken (`RenderInv`). That a loop's recursive function exists is
the lemma `StepByStep`, proved once for any function whose value at a number
depends on the value before; inductions are over numbers, by the least
counterexample (`UpTheNumbers`).

`RateLimiterProofs` proves `TypeOK`, `CounterIsExact`, `KeyWithinLimit`,
`NoEarlyRefusal`, `ProjectWithinLargestLimit`, `KeyCannotDrainProject` and
`TokensWithinLimit` for any keys, limits, estimates and clock. A walk lags at most a minute behind (`Walks`, from `PromptAssumption`),
less than a counter's lifetime, so the counter a walk comes to has lost nothing:
its value is the sum of what the requests of its window have charged
(`CounterIsExact`). A request passes only when that sum, itself included, is
within the limit, and one is refused only when it is beyond: as the sum never
shrinks within a window, that stays true afterwards (`NoEarlyRefusal`). A walk
that lags longer than `PromptAssumption` allows is outside all of these. A sum
of estimates is taken for the number of its units: a request
that counts for `n` tokens stands for `n` pairs (`Units`), so that exactness is
one fact about finite sets for both kinds of meters.

`ReplyTextProofs` proves `SpeechIgnoresPieces`, `EveryWordReachesTheListener` and
`NothingWaitsInVain` for any characters, tags, replies and pieces, and any flush
length (`PiecesNeverMatter`, `NoWordIsLost`, `NothingIsHeldUp`). The invariant is
`ReplyInv`. None of the three is inductive, as they compare with the whole reply
what has become of a part of it. For the splitter, `Outcome` is what the reply
would come to if a text `x` came next; each kind of turn leaves it as it is for
every `x` (`TurnOpens` to `TurnSpeaks`, joined in `EveryTurn`), hence so does the
loop (`LoopOnward`), and at the start it is `Expected(input \o x)` by definition.
That a turn may give out all but a partial tag rests on lemmas on texts: a tag
that begins before what is held back is found before anything more comes
(`HeldBack`, `HeldBackFound`), and dropping the tags of the parts is dropping them
from the whole (`UntaggedHeldBack`, `SplitHeldBack`). The loop has turns enough
because each one shortens the buffer or decides how the reply begins (`Size`). The
words are counted along the same turns: thought, answer and buffer together have
as many as the reply (`Tally`). When no tag came and no reasoning field was used,
nothing is learned, and a whole reply from which nothing is learned is its own
answer (`WithoutTags`); in every other case the thought is what stays hidden. For the cutter, what `s \o x` gives is what `s`
gave and then what the rest of `s` with `x` behind it gives (`TakeResumed`),
since a scan depends on nothing before its last cut (`ScanGoesOn`); every
sentence ends where it first can (`CutsAre`, `PromptSpoken`), and the sentences
have the letters up to the last cut (`ScanSpeech`). The assumptions say that
tags have at least two characters, none of them white space, and that white
space is no letter.

Of `ReasoningStyle` it proves `StyleTypeOK` and `DirectOnlyAfterTaglessRun` for any
deployments and replies: the counter of a deployment is the length of a tagless
end of the replies it has told of (`RunsAreTagless`).

`PlaygroundKeyProofs` proves `TypeOK`, `NoKeyLeft` and `ModelsAllowed` for any
number of requests and models: what a request has found is committed and stays
so, and what it has inserted it holds until it commits it together with the key
(`LinksKept`).

`AdminApiProofs` proves, for any number of requests: of `Sessions`,
`OneRefreshToken` and `LogoutEndsSession` (`SessionInv`: a token that a waiting
request has checked is live or its login `overlapped`, and a new pair replaces
the one live token of its login); that `AdminApi` implements `Sessions`, by
which both hold of it too; `NoChangeLost` (`SeenOrChanged`: what a handler sees
of a column is what is committed, unless a request that committed since asked
for that column, so that the columns left out of an UPDATE are right to leave
out); `StatusMatchesDesired` (`AgreeInv`: both columns are equal in the row, in
what each session holds and in what each request asks).

`Speech2TextProofs` proves `TypeOK`, `EndsInTime` and `PromptJobIsReturned` for
every timeout, call duration and lateness. `Pace` bounds the time by where the
adapter stands; `Unseen` says that a job completed unseen only after the last
question began, and that the adapter gives up with less than the longest sleep
left.

`ConversationProofs` proves, for any number of clicks, loops, turns and clips and
any mix of the odd events, `TypeOK`, `OneEar`, `MicOff`, `HalfDuplex` and
`OneVoice`, each with the exceptions it names: `MicOff` says nothing of a stream
that is live because its analyser could not be made. None is inductive: each speaks of what the page does, and a late callback
undoes it unless one knows what the callback will find. `Microphone` says which
tracks and recorders belong to what the page still points at, `Control` which
phases go with a loop, a turn under way or a chain of clips, and whose turn the
late callbacks are of, and `Chains` that only the last generation's clips can be
heard. Of `TurnDetector` it proves `DetectorTypeOK`, `ShortSpeechIsDropped`,
`NotCutShort` and `EndsInTime` for every choice of the times: `Pause` relates the
count of quiet frames to the last loud one, `Lengths` bounds each part of the
recording.

Each module's theorems rest only on the named assumptions of the module they
are about.

Only model-checked:

* liveness, everywhere (out of the prover's reach); of the refinement of
  `VoiceStream` that is `EverythingStops`, to which the rest has been reduced;
* `HealthRouting`, whose properties are liveness, and `Bootstrap`.

## 5. Not modelled

* Formatting, wording and the token estimates of usage records; latency.
* The commit of a usage record is one step; a cancellation that hits it after
  the database has committed is taken for one that came before.
* Adapters: only how they end (a result, a `PlatformError`, another exception).
* FastAPI's own refusals and the reading of request bodies; `GET /v1/models`.
* The playground's text chat, its messages and the conversion of recordings; how
  the loudness threshold follows the noise.
* Which version of FastAPI runs: `requirements.txt` admits versions that close a
  request's session before its stream begins, in which a streamed playground
  key is not revoked. The model is of a session that outlives its stream.
* The Admin API's lists, and the creation of organisations, users, projects,
  runtimes and keys: rows that nobody else writes at the time; a key's
  properties when it exists are in `AdminApi`.
* Sessions in several processes: the revoked tokens of one are not known to the
  others. The deployment files start one.
* The voice pipeline's two queues have no bound in the code; the models bound
  the reply, not the queues.
* `apps/asr`, and what `apps/tts` does with phonemes and audio: their own model
  libraries behind HTTP.
* Secrets and passwords: calls to cryptographic libraries. The usage dashboard:
  aggregates that are only read. The other web pages.

## 6. What the checks found

* `AdminExistsWhenServing` (run `bootstrap`): `bootstrap.py` copies
  `SessionLocal` when it is imported, before `init_db()` assigns it. Its copy is
  None, `main()` returns at once, and no start of the API container creates the
  super admin that `README.md:20` promises.

* `HeldTextIsReleased` (run `held_text`): the docstring of `ReasoningSplitter`
  (gateway.py:148-150) says that text held back as possible thinking is
  "released as answer if no closing tag arrives". `use_reasoning_field`
  (gateway.py:162-165) moves from `undecided` to `answer` and leaves the held text
  behind: when a runtime starts to use its reasoning field after some text has
  been held, that text has been shown as thinking and is missing from the
  answer and the speech. `EveryWordReachesTheListener` names this as the third way in which
  a word may be hidden, beside the two kinds of tags; it is not evidence that the
  docstring holds.

Seen while modelling, and worth knowing:

* If `createAnalyser` or `createMediaStreamSource` throws after the microphone has
  been granted, the page says that it has no microphone while the tracks stay
  live (page.tsx:417-429). `MicOff` names it as an exception.
* A chat stream refused for its model or its limits is answered 200 with a
  broken body and leaves no usage record; `RecordTellsAnswer` and
  `StatusIsHonest` name it as their exception.
* A playground key stays active when its request ends in an exception that is
  no `PlatformError`, or is left before its stream begins.
* The odd events of `Conversation`, above.
* `[DONE]` is sent before the usage record is committed, so a client that closes
  the connection on `[DONE]` may leave a complete request unrecorded.
* A refresh whose token is revoked while it waits for the database succeeds: two
  refreshes at once with one token leave two live sessions, and one that
  overlaps a logout outlives it. After a restart revoked tokens are good again.
  `OneRefreshToken` and `LogoutEndsSession` name both as exceptions. Access tokens
  are never revoked.
* A deployment created with a desired status that is neither `running` nor
  `stopped` is stopped with that text in its other column, and the two may stay
  apart (`StatusMatchesDesired`).
* `allow_model` for a link that another session inserts at the same time ends in
  an exception of the unique constraint, not in an answer.
* A key's own limit is also what its project's counter is compared with, so a
  project is bounded by its most generous key.

## 7. Plan

1. (done) Voice pipeline with its abstract stream; splitter, cutter and their
   composition; styles; limiter; health and routing; start; the other gateway
   requests with the speech server; Speech2Text; playground key and
   conversation; turn detector; sessions and the Admin API's transactions.
2. (done) Theorems of the voice pipeline and its refinement, gateway requests and
   the plan of speech, splitter, cutter and styles, limiter, playground key,
   Speech2Text, conversation, turn detector, sessions and Admin API: every
   invariant of a passing run.
3. Next modules: the chunks of the transcription server; the playground's text
   chat; several API processes sharing Redis and the database but not the
   revoked tokens.
