----------------------------- MODULE MCHarness ------------------------------
(* Harness with messages of one to three bytes, so that the log can end    *)
(* inside any kind of message, and exactly at its end.                     *)
EXTENDS Harness

MCLength ==
    [kind \in Kinds |-> CASE kind \in {"start", "FAIL", "ok"} -> 1
                          [] kind \in {"header", "FAILED"}    -> 2
                          [] kind = "summary"                 -> 3]
=============================================================================
