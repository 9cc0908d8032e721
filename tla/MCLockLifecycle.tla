-------------------------- MODULE MCLockLifecycle --------------------------
(* Instances of LockLifecycle for TLC.                                     *)
EXTENDS LockLifecycle, TLC

CONSTANTS e1, w1, w2, a1, r1, listener

OneEmail == {e1}
OneWorker == {w1}
TwoWorkers == {w1, w2}
OneAdmin == {a1}
OneRequest == {r1}
Nobody == {}

ShortSteps == <<1>>
TwoSteps == <<1, 2>>

NeverExceeding == {FALSE}
MayExceed == BOOLEAN

WorkerSymmetry == Permutations(Workers)
=============================================================================
