\* The owner builds an actor while the graph runs, and a stop is requested
\* before that actor is registered.
SPECIFICATION Spec
CONSTANTS
  a1 = a1  a2 = a2  a3 = a3  main = main  ctrlc = ctrlc
  Main = main
  CtrlC = ctrlc
  Actor <- MCPair
  Late <- MCSecond
  Vetoer <- MCFirst
  Collector <- MCNone
  Requester <- MCSignal
  BarrierSize = 0
  TimesOut <- MCWatch
  EarlySignal = FALSE
INVARIANT WatchersSurvive
