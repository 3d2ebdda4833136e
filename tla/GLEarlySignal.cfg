\* Ctrl-C arrives while the graph is still being built.
SPECIFICATION FairSpec
CONSTANTS
  a1 = a1  a2 = a2  a3 = a3  main = main  ctrlc = ctrlc
  Main = main
  CtrlC = ctrlc
  Actor <- MCPair
  Late <- MCNone
  Vetoer <- MCFirst
  Collector <- MCNone
  Requester <- MCSignal
  BarrierSize = 0
  TimesOut <- MCWatch
  EarlySignal = TRUE
PROPERTY BlockReturns
