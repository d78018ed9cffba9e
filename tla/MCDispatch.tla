------------------------------ MODULE MCDispatch ------------------------------
(* Small instances of Dispatch.                                            *)
EXTENDS Dispatch

(* Two retries in the second of three slots, so that a budget of three     *)
(* attempts can run out within a visit and between two; and one retry in   *)
(* each slot.                                                              *)
RetrySecond == [s \in Slots |-> IF s = 2 THEN 3 ELSE 1]
RetryAll == [s \in Slots |-> 2]
=============================================================================
