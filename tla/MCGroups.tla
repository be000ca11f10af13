------------------------------ MODULE MCGroups ------------------------------
(* A small instance of Groups for TLC: alice founds groups, with bob among   *)
(* their declared members or not.                                            *)
EXTENDS Groups
CONSTANTS alice, bob
=============================================================================
