---------------------------- MODULE MCPanicHook ----------------------------
(* Small instances of PanicHook for TLC. *)
EXTENDS PanicHook

CONSTANTS w1, w2, outer, inner, tested, job, clock, none

Workers == {w1, w2}
RunEnvs == {outer, inner}
RunTests == {tested}
Jobs == {job}
=============================================================================
