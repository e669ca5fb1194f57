---------------------------- MODULE MCLteUlHarq ----------------------------
(* Small instances of LteUlHarq for TLC.                                   *)
EXTENDS LteUlHarq

\* Two PDUs of each process, with and without a BSR.
PdusOfProcesses == [acid : 0 .. NumProc - 1, seq : 0 .. 1, bsr : BOOLEAN]

\* Bounds on the number of processes of the UE in use.
TwoBusyProcesses == Cardinality(BusyProcesses) <= 2
OneBusyProcess == Cardinality(BusyProcesses) <= 1
============================================================================
