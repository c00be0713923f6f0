------------------------ MODULE MCNoteInterpreter ------------------------
(* Instances of NoteInterpreter for TLC.  Times keep the order and the     *)
(* gaps of the code's: floor, cutoff and margin of a timeout, the half     *)
(* second of wait_for, the timeouts of the stages, the deadline.           *)
EXTENDS NoteInterpreter

CONSTANTS t1, t2, r1, r2, k1, k2

MCDelays == {NoDelay, 1}
MCDelaysWithZero == {0}
MCModels1 == 1 .. 1
MCModels2 == 1 .. 2

OneRequest == [t \in Tasks |-> r1]
TwoRequests == [t \in Tasks |-> IF t = t1 THEN r1 ELSE r2]
SameKey == [t \in Tasks |-> k1]
TwoKeys == [t \in Tasks |-> IF t = t1 THEN k1 ELSE k2]
=============================================================================
