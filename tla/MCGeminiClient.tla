--------------------------- MODULE MCGeminiClient ---------------------------
(* Instances of GeminiClient for TLC. *)
EXTENDS GeminiClient

CONSTANTS t1, t2

MCDelays == {NoDelay, 1, 2}  \* none, shorter and as long as the default
MCDelay == {NoDelay}
=============================================================================
