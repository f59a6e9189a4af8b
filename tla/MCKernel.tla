------------------------------- MODULE MCKernel -------------------------------
(* Kernel with a few pids and jobs.  Jobs are numbers because their order       *)
(* matters; pids are interchangeable in the safety runs.                        *)
EXTENDS Kernel, TLC

PidSymmetry == Permutations(Pid)
=============================================================================
