----------------------------- MODULE MCJournal ------------------------------
\* Three inodes are enough: the on-disk name, the current name and the
\* temporary file can differ, and an unlinked open file only coexists with one
\* name.  Inodes are interchangeable.
EXTENDS Journal, TLC

MCSymmetry == Permutations(Inodes)
=============================================================================
