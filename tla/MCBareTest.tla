---------------------------- MODULE MCBareTest ------------------------------
(* A test without retries and with up to two, in both modes.               *)
EXTENDS BareTest

MCRetries == 0 .. 2
=============================================================================
