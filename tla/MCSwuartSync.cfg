SPECIFICATION FairSpec
CONSTANTS
  Builds <- MCBuilds
  Noise <- MCNoise
  Strays <- MCStrays
INVARIANT SyncsOnRatio
INVARIANT SampledInSlot
PROPERTY QuietUntilSynced
PROPERTY ListensAgain
