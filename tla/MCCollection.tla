------------------------------ MODULE MCCollection ------------------------------
(* One thread that asks for uploads and one summary, under two revocations. *)
EXTENDS Collection

CONSTANTS producer, key
==============================================================================
