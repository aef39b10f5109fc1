------------------------- MODULE MCVoicePipeline -------------------------
(* Values for model checking VoicePipeline: one way to be refused and one  *)
(* PlatformError, next to the statuses 400, 503 and OtherError it adds.    *)
EXTENDS VoicePipeline

MCRefusals == {429}
MCPlatformErrors == {504}
===========================================================================
