\* Two watchers, as in every graph that is stopped with Ctrl-C.
SPECIFICATION Spec
CONSTANTS
  a1 = a1  a2 = a2  a3 = a3  main = main  ctrlc = ctrlc
  Main = main
  CtrlC = ctrlc
  Actor <- MCPair
  Late <- MCNone
  Vetoer <- MCFirst
  Collector <- MCNone
  Requester <- MCSignal
  BarrierSize = 0
  TimesOut <- MCWatch
  EarlySignal = FALSE
INVARIANT CleanStopNeedsAllVotes
