--------------------------- MODULE MCStreamWriter ---------------------------
(* Small instances of StreamWriter for TLC. *)
EXTENDS StreamWriter

CONSTANTS h, t1

OneTask == {t1}
=============================================================================
