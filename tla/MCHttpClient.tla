---------------------------- MODULE MCHttpClient ----------------------------
(***************************************************************************)
(* Values of the HTTP client's constants that a configuration cannot spell *)
(* out.                                                                    *)
(***************************************************************************)
EXTENDS HttpClient

\* One repetition, and a limit below zero: setRetryPolicy() takes both.
MCRetryLimits == {-1, 1}

=============================================================================
