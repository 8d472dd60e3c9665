-------------------------- MODULE MCDecomposition --------------------------
(* The instances of Decomposition that TLC checks. *)
EXTENDS Decomposition, Bitwise

SomePSizes == {1, 2, 3, 4, 6, 8, 16}
\* Grids of three dimensions, and decompositions to ask for.
BoxGrids == [Dirs -> {1, 2, 4, 6}]
BoxDecs == [Dirs -> {1, 2, 3}]

\* Grid::isPow2 as its text has it, in bits.
ASSUME isPow2Bits == \A n \in 1..64: isPow2(n) <=> (n & (n - 1)) = 0
=============================================================================
