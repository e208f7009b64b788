----------------------------- MODULE RcCommands -----------------------------
(***************************************************************************)
(* Bazel's command names and which rc scope is read for which command      *)
(* (src/src/bazelrc/commands.rs).                                          *)
(***************************************************************************)
EXTENDS Sequences

CONSTANT NAMES          \* the command names and rc scopes the server knows

RcScopes == {"always", "common"}

\* Commands whose scope is build's as well, or build's and test's.
BuildsToo == {"aquery", "canonicalize-flags", "clean", "config", "info",
              "mobile-install", "print_action", "run", "test"}
TestsToo  == {"coverage", "cquery", "fetch", "vendor"}

AcceptsConfig(command) == command \in NAMES \ {"startup"}

Applies(requested, defined) ==
    \/ defined \in RcScopes \/ requested \in RcScopes \/ requested = defined
    \/ requested \in TestsToo /\ defined \in {"test", "build"}
    \/ requested \in BuildsToo /\ defined = "build"

\* The scopes read for a command, broadest first.
Scopes(command) ==
    LET inherited(c) == IF c # command /\ Applies(command, c) THEN <<c>> ELSE <<>>
    IN  CASE command \notin NAMES -> <<>>
          [] command \in RcScopes \cup {"startup"} -> <<command>>
          [] OTHER -> <<"always", "common">> \o inherited("build") \o inherited("test")
                         \o <<command>>

\* The commands configurations are expanded for.
Expanded == NAMES \ (RcScopes \cup {"startup"})
=============================================================================
