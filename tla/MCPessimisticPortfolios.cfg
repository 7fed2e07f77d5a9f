CONSTANTS
  Txs = {t1, t2}
  NoTx = NoTx
  Putters = {p1, p2}
  Removers = {Appender}
SPECIFICATION Spec
INVARIANTS
  PortfoliosComplete
