SPECIFICATION Spec
CONSTANTS
  CommandLines <- Bech32Batches
  Texts <- MCTexts
  MaxLines = 2
INVARIANT NetworkFromHrp
