---------------------------- MODULE MCBazelActor ----------------------------
(* One configuration that starts Bazel and one that disables it. *)
EXTENDS BazelActor
CONSTANTS on, off
MCConfigs == {on, off}
MCEnabled == {on}
=============================================================================
