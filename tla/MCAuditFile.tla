---------------------------- MODULE MCAuditFile ----------------------------
EXTENDS AuditFile
CONSTANTS e1, e2, e3, e4
Symmetry == Permutations(Events)
=============================================================================
