---------------------------- MODULE MCScheduler -----------------------------
(* Small instances of Scheduler for TLC.                                   *)
EXTENDS Scheduler, TLC

CONSTANTS t1, t2, t3

TwoTasks == {t1, t2}
ThreeTasks == {t1, t2, t3}
NoTasks == {}
OnlyT1 == {t1}
AnyOnly == {AnyCore}
AnyOrSecond == {AnyCore, {1}}
=============================================================================
