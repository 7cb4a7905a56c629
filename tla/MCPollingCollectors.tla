------------------------ MODULE MCPollingCollectors ------------------------
(***************************************************************************)
(* PollingCollectors for TLC: one collector of each kind, as in            *)
(* collectors.yaml, where the ESP32 has one endpoint and the PLC several   *)
(* blocks of registers, of which two are enough.                           *)
(***************************************************************************)
EXTENDS PollingCollectors

CONSTANTS esp32, schneider, data, hr, coil

ConfiguredBlocks == [c \in {esp32, schneider} |-> IF c = esp32 THEN {data} ELSE {hr, coil}]

=============================================================================
