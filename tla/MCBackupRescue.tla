--------------------------- MODULE MCBackupRescue ---------------------------
EXTENDS BackupRescue, TLC
CONSTANTS b1, b2, n1, n2
Same == Permutations({b1, b2}) \union Permutations({n1, n2})
LitOrRescuer == {[requests |-> 4, clicks |-> 0], [requests |-> 0, clicks |-> 7], [requests |-> 1, clicks |-> 5]}
=============================================================================
