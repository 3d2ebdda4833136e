\* Four actors in bags, in a normal troupe or solo; two lanes and two channels.
CONSTANTS
  Channels <- MCChannels
  Bundles <- MCBundles
  Graphs <- MCGraphs
SPECIFICATION Spec
INVARIANTS PackedOnce SmallestChannelsFirst LanesApart FailsOnMixedBundles ProducersFirst
CHECK_DEADLOCK FALSE
