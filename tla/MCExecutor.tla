----------------------------- MODULE MCExecutor ----------------------------
(* A small instance of Executor for TLC. *)
EXTENDS Executor

Files(test, code) == [test |-> test, code |-> code, docs |-> FALSE, frozen |-> TRUE]

\* An empty target, and one that already holds a passing suite.
TwoBases == {Files("absent", "absent"), Files("real", "right")}

TwoExecutors == {"model", "synthetic"}
=============================================================================
