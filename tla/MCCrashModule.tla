--------------------------- MODULE MCCrashModule ---------------------------
(* Model-checking instance of CrashModule: two crash ids, a clock of eight *)
(* days at two ticks a day, keep values of one and three days.            *)
EXTENDS CrashModule, TLC

MCDayTicks == 2
MCMaxTick == 16
MCKeepDays == {1, 3}
Symmetry == Permutations(CrashIds)
=============================================================================
