\* The owner alone requests and watches: three actors, one of which may
\* veto and one of which is the telemetry collector.
SPECIFICATION PatientSpec
CONSTANTS
  a1 = a1  a2 = a2  a3 = a3  main = main  ctrlc = ctrlc
  Main = main
  CtrlC = ctrlc
  Actor <- MCTriple
  Late <- MCNone
  Vetoer <- MCFirst
  Collector <- MCSecond
  Requester <- MCOwner
  BarrierSize = 0
  TimesOut <- MCWatch
  EarlySignal = FALSE
INVARIANTS TypeOK CleanStopNeedsAllVotes CollectorIsLast
PROPERTIES ImplementsContract CleanStopWhenAllAgree
