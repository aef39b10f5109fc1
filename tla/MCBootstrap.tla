---------------------------- MODULE MCBootstrap ----------------------------
(* Values for model checking Bootstrap.                                    *)
EXTENDS Bootstrap

CONSTANTS someone, short, long

MCEmails == {Unset, someone}
MCPasswords == {Unset, short, long}
MCAcceptable == {long}
============================================================================
