--------------------------- MODULE MCIncidentStore ---------------------------
EXTENDS IncidentStore, TLC

WriterSymmetry == Permutations(Writers)
=============================================================================
