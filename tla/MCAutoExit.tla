------------------------------ MODULE MCAutoExit ------------------------------
(***************************************************************************)
(* AutoExit with the poll's checks beside those of one tick, over one leg  *)
(* (MCAutoExit, MCExitProgress, MCExitNeedsSustainedBreach) or two         *)
(* (MCExitMeetsEveryOpenLeg).  The unit of time is 10 seconds.             *)
(***************************************************************************)
EXTENDS AutoExit

CONSTANTS l1, l2, t1

MCOneLeg == {l1}
MCTwoLegs == {l1, l2}
MCOneTick == {t1}
=============================================================================
