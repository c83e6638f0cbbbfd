----------------------------- MODULE MCSafeStart -----------------------------
(* Instances of SafeStart.                                                  *)
EXTENDS SafeStart

\* A kind with one controller of its own; a generated one would be its like.
MCGenerated == {}
MCManual == {<<"cluster", "Budget">>}
=============================================================================
