-------------------------- MODULE MCPlaygroundKey --------------------------
(* Values for model checking PlaygroundKey.  A conversation looks up two   *)
(* of its three models, the least for two of them to wait for each other.  *)
EXTENDS PlaygroundKey

CONSTANTS c, v, w, a, llm, stt

MCRequests == {c, v, w, a}
MCKind == [r \in MCRequests |-> IF r = c THEN "chat"
                                ELSE IF r = a THEN "allow" ELSE "voice"]

\* The two conversations look the same models up in different orders.
MCModels == {llm, stt}
MCWanted == [r \in MCRequests |-> IF r = c THEN <<llm>>
                                  ELSE IF r = a THEN <<stt>>
                                  ELSE IF r = v THEN <<llm, stt>>
                                  ELSE <<stt, llm>>]
===========================================================================
