SPECIFICATION CampaignSpec
CONSTANTS
  SequenceLength = 3
  CooldownSteps = 3
  NumTrees = 2
  BatchSize = 2
  Compared = {"IPFT", "PreGAN", "BWOAIF", "RCD"}
  NoLimit = NoLimit
  Settings <- MCSettings
  MaxStream = 6
  Captures <- MCCaptures
  Inference <- MCInference
  NotApplicable = NotApplicable
  MaxLookback = 2
  Elapsed = 60000
  Seeds = 2
  CampaignStream = 4
INVARIANTS
  OverloadCovered
  BuffersFresh
  ScoresAligned
  ActionsAccounted
  MetricsAgree
  CreditedOnce
  PairingOwn
  SeedsAggregated
\* A trial ends.
CHECK_DEADLOCK FALSE
