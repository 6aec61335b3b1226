---------------------------- MODULE MCNpmRelease -----------------------------
(* Two builds, each of which may be started a second time, of three packages *)
(* that depend on each other; two commits, which declare one version.        *)
EXTENDS NpmRelease

MCDependsOn ==
  [p \in Packages |-> CASE p = "on-core" -> {} [] p = "on-tasks" -> {"on-core"}
                        [] p = "on-http" -> {"on-core", "on-tasks"}]

MCDeclared == [c \in Commits |-> 1]
=============================================================================
