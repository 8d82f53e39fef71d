------------------------------- MODULE MCOta -------------------------------
(* Versions for the runs of the OTA update: 1.0.0 from the factory, then    *)
(* 1.0.1-dev2, which does not boot, then 1.0.1-dev10.                       *)
EXTENDS Ota, TLC

CONSTANTS loop_task, mqtt_task, t1, t2

BothTasks == {loop_task, mqtt_task}
TwoTasks == {t1, t2}
V100 == <<1, 0, 0>>
Dev2 == <<1, 0, 1, 2>>
Dev10 == <<1, 0, 1, 10>>
ThreeVersions == {V100, Dev2, Dev10}
OnlyDev2 == {Dev2}
=============================================================================
