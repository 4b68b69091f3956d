------------------------------ MODULE MCProc ------------------------------
(* Instances of Proc for TLC. *)
EXTENDS Proc

JobSignals == {SIG_INT, SIG_TSTP, SIG_CONT}

InterruptSignals == {SIG_INT}
============================================================================
