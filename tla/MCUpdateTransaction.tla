-------------------------- MODULE MCUpdateTransaction --------------------------
(* Three files, one of them new in the update, and three attempts: each may  *)
(* stop anywhere, and the next one starts from what it left.                   *)
EXTENDS UpdateTransaction

MCPlan    == <<"exe", "shader", "version">>
MCPresent == {"exe", "version"}
==============================================================================
