--------------------------- MODULE MC_ChatStream ---------------------------
(* TLC instance of ChatStream: the bounds are in the config.               *)
EXTENDS ChatStream

CONSTANTS m1, m2  \* model values: two messages answered side by side
=============================================================================
