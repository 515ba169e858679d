------------------------------ MODULE MCModbus ------------------------------
(* Two meters of one type at two addresses, for TLC.                          *)
EXTENDS ModbusLink

MCMeters == <<"a", "b">>
MCSlave == [m \in {"a", "b"} |-> IF m = "a" THEN 1 ELSE 2]
MCFunction == [m \in {"a", "b"} |-> 3]
MCWords == [m \in {"a", "b"} |-> IF m = "a" THEN <<1, 2>> ELSE <<1>>]
MCTwoBlocks == [m \in {"a", "b"} |-> <<1, 2>>]

=============================================================================
