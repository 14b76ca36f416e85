---------------------------- MODULE MCTimerSleep ----------------------------
(***************************************************************************)
(* Instances of TimerSleep: naps of a negative, no and several ticks.      *)
(***************************************************************************)
EXTENDS TimerSleep, TLC

CONSTANTS t1, t2, t3

MCThreads == {t1, t2, t3}
MCNaps == {-1, 0, 2}
MCHolders == {{}, {t1}}
\* t2 and t3 hold no lock in any instance
MCSymmetry == Permutations({t2, t3})
=============================================================================
