---------------------------- MODULE MCRobotServer ----------------------------
(* RobotServer for TLC: clients are interchangeable in the safety runs.     *)
EXTENDS RobotServer, TLC
ClientSymmetry == Permutations(Client)

Motion == {"motion"}
Run == {"run"}
MotionRun == {"motion", "run"}
Cancel == {"cancel"}
Pause == {"pause_sentry"}
Unpause == {"unpause_sentry"}

\* Commands that contend for the robot, and commands about sentries.
ControlCmds == {Motion, MotionRun, Cancel}
SentryCmds == {Run, Pause, Unpause}
=============================================================================
