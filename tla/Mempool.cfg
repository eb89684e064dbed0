SPECIFICATION Spec
CONSTANTS
  Tx <- MCTx
  Ins <- MCIns
  Outs <- MCOuts
  Size <- MCSize
  Fee <- MCFee
  Outpoint <- MCOutpoint
  GenesisOuts <- MCGenesisOuts
  Minable <- MCMinable
  MaxTxs = 2
  MaxBytes = 4
  MaxOrphans = 2
  MinFeeRate = 1
  FeeBump = 1
INVARIANTS PendingSpendable
PROPERTIES LimitsHold FairlyDisplaced ProducedBlockApplies
