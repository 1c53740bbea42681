------------------------------- MODULE MCRoom -------------------------------
(* Instances of WaitingRoom.tla small enough for TLC.                        *)
EXTENDS WaitingRoom

MCPatient == Patient
MCComparisons == compares
=============================================================================
