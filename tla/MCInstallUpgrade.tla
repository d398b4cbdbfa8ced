-------------------------- MODULE MCInstallUpgrade --------------------------
(* Instances of InstallUpgrade small enough for TLC. *)
EXTENDS InstallUpgrade

CONSTANT Short   \* a target given by a prefix, as "17.12" for "17.12.1"

\* The two versions are unrelated; the short target matches the new one.
DistinctVersions == {<<v, v>> : v \in Version} \cup {<<Short, New>>}

=============================================================================
