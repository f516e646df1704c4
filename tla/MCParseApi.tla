------------------------------ MODULE MCParseApi ------------------------------
(***************************************************************************)
(* Instance of ParseApi for TLC, by itself.                                *)
(***************************************************************************)
EXTENDS ParseApi
===============================================================================
