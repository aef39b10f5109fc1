--------------------------- MODULE GatewayRequest ---------------------------
(***************************************************************************)
(* One request to a public endpoint that is not a spoken conversation:     *)
(* complete_chat, stream_chat, transcribe_audio and stream_speech_audio of *)
(* gateway.py, called by the routes of apps/api/mc_api/routes/v1.py.       *)
(*                                                                         *)
(* What the four have in common is a try whose except branch records a     *)
(* PlatformError and raises it again.  They differ in what the try covers  *)
(* and in when the status line leaves: stream_chat prepares before its     *)
(* try, and its route hands the generator to a StreamingResponse, which    *)
(* sends 200 before it takes the first step of it; the route of speech     *)
(* takes that step itself (_lead) and answers afterwards.                  *)
(*                                                                         *)
(* The web server is external: a StreamingResponse is cancelled when the   *)
(* client leaves, an ordinary handler is not; an exception after the       *)
(* status line breaks the connection, before it becomes an error answer.   *)
(* What FastAPI itself refuses, a body that is too large or of the wrong   *)
(* form, never reaches these functions and is left out.                    *)
(*                                                                         *)
(* A definition X_Y that precedes X is X with a plausible bug: the runs    *)
(* are known to find it.  The specification uses none of them.             *)
(***************************************************************************)
EXTENDS Integers, Sequences

CONSTANT MaxItems    \* bound on the items of one stream

ASSUME BoundAssumption == MaxItems \in Nat

VARIABLES
  endpoint,  \* which of the four
  at,        \* where the request stands
  made,      \* items yielded by the generator
  shown,     \* items the client has been sent
  status,    \* the HTTP status sent, 0 while none is
  failure,   \* the status of the PlatformError raised, 0 while none is
  usage      \* statuses of the usage records committed

vars == <<endpoint, at, made, shown, status, failure, usage>>

Endpoints == {"chat", "chat_stream", "transcriptions", "speech"}
Streaming(e) == e \in {"chat_stream", "speech"}

\* A route that returns its StreamingResponse at once sends 200 at once.
StatusFirst_Speech(e) == Streaming(e)
StatusFirst(e) == e = "chat_stream"

\* Is the preparation inside the try?
Guarded_NotSpeech(e) == ~Streaming(e)
Guarded(e) == e # "chat_stream"

\* PlatformErrors of the preparation: empty input (400), the route (404, 503),
\* the model (403), the limits (429), the type of the runtime (503).
Refusals(e) ==
  {403, 404, 429, 503} \cup (IF e \in {"transcriptions", "speech"} THEN {400}
                             ELSE {})

\* PlatformErrors of the adapters: rejected or unreachable, timed out, and what
\* the Speech2Text service says of the audio or of the rate.
AdapterErrors(e) ==
  {503, 504} \cup (IF e = "transcriptions" THEN {400, 429} ELSE {})

Ended == {"answered", "raised", "crashed", "left"}

Init ==
  /\ endpoint \in Endpoints /\ at = "received"
  /\ made = 0 /\ shown = 0 /\ status = 0 /\ failure = 0 /\ usage = <<>>

-----------------------------------------------------------------------------
(* How a request fails.                                                    *)

\* The status line is sent once; later errors only break the body.
Line(s) == IF status = 0 THEN s ELSE status

\* An exception that is no PlatformError passes every except branch.
Crash == /\ at' = "crashed" /\ status' = Line(500)
         /\ UNCHANGED <<failure, usage>>

\* A PlatformError outside the try goes straight to the exception handler.
Raise(s) == /\ at' = "raised" /\ failure' = s /\ status' = Line(s)
            /\ UNCHANGED usage

\* A PlatformError inside it is recorded first.
Fail(s) == /\ at' = "refusing" /\ failure' = s
           /\ UNCHANGED <<status, usage>>

-----------------------------------------------------------------------------
\* The key is checked by the route, before the gateway.
Authenticate ==
  /\ at = "received"
  /\ \/ /\ at' = "opening"
        /\ status' = IF StatusFirst(endpoint) THEN 200 ELSE 0
        /\ UNCHANGED <<failure, usage>>
     \/ Raise(401)
     \/ Crash
  /\ UNCHANGED <<endpoint, made, shown>>

\* Input, route, permission, limits and the adapter.
Open ==
  /\ at = "opening"
  /\ \/ at' = "calling" /\ UNCHANGED <<status, failure, usage>>
     \/ \E s \in Refusals(endpoint) :
          IF Guarded(endpoint) THEN Fail(s) ELSE Raise(s)
     \/ Crash
  /\ UNCHANGED <<endpoint, made, shown>>

\* The runtime fails, before or in the middle of its answer.
RuntimeFails ==
  /\ at = "calling"
  /\ (\E s \in AdapterErrors(endpoint) : Fail(s)) \/ Crash
  /\ UNCHANGED <<endpoint, made, shown>>

\* The runtime's answer, or the end of its stream.
RuntimeEnds ==
  /\ at = "calling"
  /\ at' = IF endpoint = "chat_stream" THEN "marked" ELSE "counting"
  /\ UNCHANGED <<endpoint, made, shown, status, failure, usage>>

\* One item of the stream is yielded: to _lead when it is the first of speech,
\* else to the response.
Item ==
  /\ at = "calling" /\ Streaming(endpoint) /\ made < MaxItems
  /\ made' = made + 1
  /\ at' = IF status = 0 THEN "leading" ELSE "offered"
  /\ UNCHANGED <<endpoint, shown, status, failure, usage>>

\* The route has its first item, or knows there is none, and answers; _rest
\* gives the first item back.
StartResponse ==
  /\ \/ at = "leading" /\ at' = "offered"
     \/ at = "empty" /\ at' = "answered"
  /\ status' = 200
  /\ UNCHANGED <<endpoint, made, shown, failure, usage>>

Send ==
  /\ at = "offered"
  /\ at' = "calling" /\ shown' = shown + 1
  /\ UNCHANGED <<endpoint, made, status, failure, usage>>

\* "data: [DONE]" leaves, and the generator is resumed after it.
SendDone ==
  /\ at = "marked"
  /\ at' = "counting"
  /\ UNCHANGED <<endpoint, made, shown, status, failure, usage>>

\* _record of a success.  Only then does an answer that is no stream leave.
RecordSuccess ==
  /\ at = "counting"
  /\ \/ /\ usage' = Append(usage, 200)
        /\ IF Streaming(endpoint) /\ status = 0
           THEN at' = "empty" /\ status' = 0
           ELSE at' = "answered" /\ status' = Line(200)
        /\ UNCHANGED failure
     \/ Crash
  /\ UNCHANGED <<endpoint, made, shown>>

\* _record of a PlatformError, which is then raised again.
RecordFailure ==
  /\ at = "refusing"
  /\ \/ /\ usage' = Append(usage, failure)
        /\ at' = "raised" /\ status' = Line(failure)
        /\ UNCHANGED failure
     \/ Crash
  /\ UNCHANGED <<endpoint, made, shown>>

\* The client leaves a stream: the generator gets a CancelledError or a
\* GeneratorExit at the point where it stands, and records nothing.
Leave ==
  /\ Streaming(endpoint) /\ status = 200 /\ at \notin Ended
  /\ at' = "left"
  /\ UNCHANGED <<endpoint, made, shown, status, failure, usage>>

Over == at \in Ended /\ UNCHANGED vars

Next == \/ Authenticate \/ Open \/ RuntimeFails \/ RuntimeEnds \/ Item
        \/ StartResponse \/ Send \/ SendDone \/ RecordSuccess
        \/ RecordFailure \/ Leave \/ Over

Spec == Init /\ [][Next]_vars

-----------------------------------------------------------------------------
(* Properties.                                                             *)

Errors == {400, 401, 403, 404, 429, 503, 504}

\* Every variable has its type.
TypeOK ==
  /\ endpoint \in Endpoints
  /\ at \in Ended \cup {"received", "opening", "calling", "leading", "offered",
                        "empty", "marked", "counting", "refusing"}
  /\ made \in 0..MaxItems /\ shown \in 0..made
  /\ status \in {0, 200, 500} \cup Errors
  /\ failure \in {0} \cup Errors
  /\ usage \in Seq({200} \cup Errors)

\* The usage table tells what the clients got: a complete answer is counted
\* once, as 200, and nothing of it is missing; an error is counted once, under
\* the status the client saw or, when items had been sent, under the one that
\* broke its stream; what is not counted was refused for its key, crashed, was
\* left by its client, or is a refused chat stream.
RecordTellsAnswer ==
  /\ at = "answered" => status = 200 /\ usage = <<200>> /\ shown = made
  /\ at = "raised" =>
       \/ usage = <<failure>> /\ (status = failure \/ Streaming(endpoint))
       \/ usage = <<>> /\ failure = 401 /\ status = 401
       \/ usage = <<>> /\ endpoint = "chat_stream" /\ made = 0
  /\ at \in {"crashed", "left"} => usage = <<>>

\* A client that was sent nothing learns of a failure from the status line:
\* an error answer is never hidden behind a 200.  Chat streams are the
\* exception, because their 200 is sent before the request is looked at.
StatusIsHonest ==
  at \in {"raised", "crashed"} /\ shown = 0 /\ endpoint # "chat_stream" =>
    status = IF at = "raised" THEN failure ELSE 500

=============================================================================
