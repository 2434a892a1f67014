-------------------------- MODULE MCNatsLifecycle --------------------------
(* Two consumers, two calls of Start and one of Shutdown.                  *)
EXTENDS NatsLifecycle

CONSTANTS a1, a2, b1

TwoStarts   == {a1, a2}
OneShutdown == {b1}
=============================================================================
