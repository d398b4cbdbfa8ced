------------------------- MODULE MCContainerStream --------------------------
(* Instances of ContainerStream small enough for TLC. *)
EXTENDS ContainerStream

\* Nothing; lines that fill the buffer and the budget exactly, or go over it, one at a time or
\* with a line that straddles the budget; a line nobody can read.
ShortSources == {<<>>, <<1, 2, 3, 4>>, <<1, 3, 4>>, <<2, 4>>, <<1, 3>>, <<1, 10, 11>>}

=============================================================================
