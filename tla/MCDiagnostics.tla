--------------------------- MODULE MCDiagnostics ----------------------------
(* A .bazelrc and a file it may import, which is a BUILD file when it does   *)
(* not.                                                                      *)
EXTENDS Diagnostics

CONSTANTS rc, imported

MCUris == <<rc, imported>>
JustRc == {rc}
MCBuild == {imported}
=============================================================================
