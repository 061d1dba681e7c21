--------------------------- MODULE MCConcatBuffer ---------------------------
\* An instance of ConcatBuffer for TLC.  The names of the texts are interchangeable.
EXTENDS ConcatBuffer, TLC

Symmetry == Permutations(Texts)

=============================================================================
