------------------------------ MODULE MCWatch -------------------------------
(* Small workspaces for the watch: BUILD files and a .bazelignore; bazelrc   *)
(* files; a directory that comes and goes.                                   *)
EXTENDS Watch

CONSTANTS build, other, bzl, ignore, rc, imported, dir, a, b

MCLabels == {a, b}

Declaring(l) == [declares |-> {l}, mentions |-> {a}, imports |-> {}, ignores |-> {}]
Empty        == [declares |-> {}, mentions |-> {}, imports |-> {}, ignores |-> {}]
Importing    == [Empty EXCEPT !.imports = {imported}]
Mentioning   == [Empty EXCEPT !.mentions = {b}]
Ignoring     == [Empty EXCEPT !.ignores = {other}]

\* Two BUILD files, one of which may be ignored.  There is no .bazelrc here, so
\* it may as well lie where no walk goes.
IndexFiles == {build, other, ignore, rc}
MCBuild    == {build, other}
IndexTexts ==
    [f \in IndexFiles |-> CASE f = build  -> {Declaring(a), Mentioning}
                            [] f = other  -> {Mentioning}
                            [] f = ignore -> {Ignoring}
                            [] OTHER      -> {}]

\* The workspace's .bazelrc, a file it may import, and one that Bazel loads.
RcFiles == {rc, imported, ignore, bzl}
MCLoads == {bzl}
JustRc  == {rc}
AllRc   == {rc, imported}
RcTexts ==
    [f \in RcFiles |-> CASE f = rc       -> {Importing}
                         [] f = imported -> {Declaring(a), Mentioning}
                         [] f = bzl      -> {Declaring(b)}
                         [] OTHER        -> {}]

\* One text for every file: what it says is not what this workspace is for.
LiveTexts ==
    [f \in IndexFiles |-> CASE f = build  -> {Declaring(a)}
                            [] f = other  -> {Mentioning}
                            [] f = ignore -> {Ignoring}
                            [] OTHER      -> {}]

\* A package that may come and go with its directory.
MCDirs      == {dir}
OtherInside == [d \in MCDirs |-> {other}]
NoInside    == [d \in {} |-> {}]
=============================================================================
