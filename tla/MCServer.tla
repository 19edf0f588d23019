------------------------------ MODULE MCServer ------------------------------
(***************************************************************************)
(* An instance of Server where some clients get replies longer than a      *)
(* read, up to two reads' worth.                                           *)
(***************************************************************************)
EXTENDS Server

CONSTANT Wordy \* the clients with long replies

MCSizes == [c \in Clients |-> IF c \in Wordy THEN {1, 3, 4} ELSE {1, 2}]
=============================================================================
