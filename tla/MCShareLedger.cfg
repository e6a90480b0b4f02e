SPECIFICATION Spec
CONSTANTS
  Users = {u1, u2, u3}
  Amounts = {1, 2, 3}
  Corrections = {0, 2, 7}
  MaxAssets = 8
  MaxShares = 8
INVARIANTS
    LedgerInv
    Solvent
PROPERTIES NoDilution PaidInFull LossBounded WorthlessOnlyByReconcile
