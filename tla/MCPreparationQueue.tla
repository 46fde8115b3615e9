-------------------------- MODULE MCPreparationQueue --------------------------
(* Two workers, a queue of one and four jobs: the queue is full with a second *)
(* worker waiting for room, and emptied and filled again behind its back,     *)
(* before the caller is through.                                              *)
EXTENDS PreparationQueue
==============================================================================
