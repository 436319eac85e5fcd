----------------------------- MODULE MCRawEcho ------------------------------
EXTENDS RawEcho, TLC

\* The other senders are interchangeable.
Symmetry == Permutations(Foreign)
=============================================================================
