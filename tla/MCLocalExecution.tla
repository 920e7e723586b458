--------------------------- MODULE MCLocalExecution ---------------------------
(* The specifications LocalExecution is checked with. *)
EXTENDS LocalExecution

(* Everything a caller may ask for. *)
AnySpec == SpecRecords
===============================================================================
