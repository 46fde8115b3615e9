----------------------------- MODULE MCStartupCache -----------------------------
(* A shader of the game's files, a refused variant of it, and one that may be  *)
(* in the files or be met in play only; or files without any shader.           *)
EXTENDS StartupCache

CONSTANTS base, refused, own

MCDiscs == {{}, {base}, {base, own}}
MCVariants == [s \in Shaders |-> IF s = base THEN {refused} ELSE {}]
==============================================================================
