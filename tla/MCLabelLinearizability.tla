----------------------- MODULE MCLabelLinearizability -----------------------
EXTENDS LabelLinearizability, TLC

Symmetry == Permutations(Tasks) \cup Permutations(Inodes)
=============================================================================
