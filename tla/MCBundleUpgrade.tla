-------------------------- MODULE MCBundleUpgrade --------------------------
(* Instances of BundleUpgrade small enough for TLC. *)
EXTENDS BundleUpgrade

\* A device with no boot statement, with one for what it runs, and one that an
\* earlier workflow has left pointing at the new image.
InitialLists == {<<>>, <<Old>>, <<New, Old>>}

=============================================================================
