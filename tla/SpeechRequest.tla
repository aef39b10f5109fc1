---------------------------- MODULE SpeechRequest ----------------------------
(***************************************************************************)
(* A request to one of the gateway's other endpoints, as in GatewayRequest,*)
(* whose runtime, when it is one for speech, is the speech server, which   *)
(* other clients use at the same time: OpenAICompatibleRuntime.            *)
(* stream_speech posts to it, and yields the bytes of its answer.          *)
(***************************************************************************)
EXTENDS GatewayRequest, SpeechServer

CONSTANT Us     \* the client that is the gateway's request

ASSUME ServerAssumption == Us \in Clients /\ NoClient \notin Clients

allVars == <<vars, serverVars>>

\* Only a request for speech has a text.
SpeechInit ==
  /\ Init /\ ServerInit
  /\ endpoint # "speech" => text[Us] = <<>>

Calling == at = "calling" /\ endpoint = "speech"

\* The adapter sends its request.
Ask == Calling /\ Post(Us) /\ UNCHANGED vars

\* Bytes come, and an end, when the server has answered; its refusal is an
\* error of the adapter, which may also give up or lose the connection.
Answered == job[Us] = "answered"
FromRuntime ==
  /\ \/ (Calling => Answered) /\ (Item \/ RuntimeEnds)
     \/ RuntimeFails
  /\ UNCHANGED serverVars

Otherwise ==
  /\ \/ Authenticate \/ Open \/ StartResponse \/ Send \/ SendDone
     \/ RecordSuccess \/ RecordFailure \/ Leave
  /\ UNCHANGED serverVars

Serve ==
  /\ \/ \E c \in Clients \ {Us} : Post(c)
     \/ \E c \in Clients : Work(c)
  /\ UNCHANGED vars

SpeechOver == at \in Ended /\ UNCHANGED allVars

SpeechNext == Ask \/ FromRuntime \/ Otherwise \/ Serve \/ SpeechOver

\* The threads of the speech server run; only Enter takes the lock.
SpeechSpec ==
  /\ SpeechInit /\ [][SpeechNext]_allVars
  /\ \A c \in Clients :
       /\ WF_lock(TakeLock(c))
       /\ WF_allVars(Speak(c) /\ UNCHANGED vars)
       /\ WF_allVars(Exit(c) /\ UNCHANGED vars)

-----------------------------------------------------------------------------
(* Properties.                                                             *)

\* The chunks of sentence n in an audio, where they lie together.
OfSentence(audio, n) ==
  LET places == {k \in DOMAIN audio : audio[k].sentence = n}
  IN [j \in 1..Cardinality(places) |-> audio[Min(places) + j - 1].chunk]

\* A client that gets a complete answer has the server's whole answer.
AnswerIsTheServers == endpoint = "speech" /\ at = "answered" => Answered

\* A complete answer is the whole text.  The server's audio has every word of
\* every sentence once and in order, in chunks that stay within the budget and
\* are not too short, words in ezafe together (plan_sentence), however often a
\* chunk was tried (generate_one, render); and a client of the gateway that is
\* answered has the server's answer, never less (stream_speech,
\* stream_speech_audio).
SpeechIsWhole ==
  /\ \A c \in Clients : job[c] = "answered" =>
       /\ \A k \in 2..Len(spoken[c]) :
            spoken[c][k - 1].sentence <= spoken[c][k].sentence
       /\ \A n \in DOMAIN text[c] : GoodPlan(text[c][n], OfSentence(spoken[c], n))
  /\ AnswerIsTheServers

\* A request to the speech server is answered, whatever becomes of those
\* before it in the queue for the engine: they may have nothing to say, break,
\* or be left by their clients in the middle (_speak's with block).
EveryRenderEnds ==
  \A c \in Clients : job[c] = "waiting" ~> job[c] \in Answers

=============================================================================
