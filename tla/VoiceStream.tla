---------------------------- MODULE VoiceStream ----------------------------
(***************************************************************************)
(* What POST /v1/audio/chat promises its client, with no tasks and no      *)
(* queues: the reply is one growing sequence of events, the client hears   *)
(* it in that order and from the beginning, and the stream is marked       *)
(* complete only when the client has heard all of it.  VoicePipeline       *)
(* implements this specification.                                          *)
(***************************************************************************)
EXTENDS Naturals, Sequences

VARIABLES
  made,    \* the events made of the reply so far
  heard,   \* how many of them the client has been sent
  phase    \* "live", or how the stream ended

vars == <<made, heard, phase>>

TextsBefore(s, i) == {j \in 1..(i - 1) : s[j].type = "text"}

\* The deltas of the reply are numbered from 1 without gaps; an audio event
\* speaks a later sentence than the one before it, and only of text already
\* made.
InOrder(s) ==
  \A i \in DOMAIN s :
    /\ s[i].type = "text" =>
         s[i].no > 0 /\ {s[j].no : j \in TextsBefore(s, i)} = 1..(s[i].no - 1)
    /\ s[i].type = "audio" =>
         /\ \E j \in TextsBefore(s, i) : s[j].no = s[i].after
         /\ \A j \in 1..(i - 1) : s[j].type = "audio" => s[j].no < s[i].no

Init == made = <<>> /\ heard = 0 /\ phase = "live"

\* The models make some more of the reply.  They may go on for a while after
\* the client has left, but not after the stream was completed or broken.
Make ==
  /\ phase \in {"live", "left"}
  /\ Len(made') > Len(made) /\ SubSeq(made', 1, Len(made)) = made
  /\ InOrder(made')
  /\ UNCHANGED <<heard, phase>>

Hear ==
  /\ phase = "live" /\ heard < Len(made)
  /\ heard' = heard + 1
  /\ UNCHANGED <<made, phase>>

Complete ==
  /\ phase = "live" /\ heard = Len(made)
  /\ phase' = "complete"
  /\ UNCHANGED <<made, heard>>

\* A model fails: the client has heard all that was made, and no mark follows.
Break ==
  /\ phase = "live" /\ heard = Len(made)
  /\ phase' = "broken"
  /\ UNCHANGED <<made, heard>>

Leave ==
  /\ phase = "live"
  /\ phase' = "left"
  /\ UNCHANGED <<made, heard>>

Next == Make \/ Hear \/ Complete \/ Break \/ Leave

Spec == Init /\ [][Next]_vars

\* Every stream comes to an end of one kind or another.
StreamEnds == <>(phase # "live")

LiveSpec == Spec /\ StreamEnds

=============================================================================
