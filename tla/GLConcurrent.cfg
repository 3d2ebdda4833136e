\* Everybody may request, the owner and the Ctrl-C handler watch, and the
\* two actors' own requests go through a barrier of two.
SPECIFICATION FairSpec
CONSTANTS
  a1 = a1  a2 = a2  a3 = a3  main = main  ctrlc = ctrlc
  Main = main
  CtrlC = ctrlc
  Actor <- MCPair
  Late <- MCNone
  Vetoer <- MCFirst
  Collector <- MCNone
  Requester <- MCAnybody
  BarrierSize = 2
  TimesOut <- MCWatch
  EarlySignal = FALSE
INVARIANTS VotesAreConsented NoLostNotice WatchersSurvive
PROPERTIES BlockReturns
