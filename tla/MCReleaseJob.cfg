SPECIFICATION Spec
CONSTANTS
  c0 = c0  c1 = c1  c2 = c2  c3 = c3  c4 = c4
  h0 = h0  h1 = h1  a0 = a0  a1 = a1  l0 = l0  l1 = l1
  Commits = {c0, c1, c2, c3, c4}
  Objects = {h0, h1, a0, a1, l0, l1}
  Damaged = Damaged  NoTree = NoTree  NoReceipt = NoReceipt  Nothing = Nothing
  Tree <- MCTree
  Bump <- MCBump
  PolicyLines <- MCPolicyLines
  FirstCommit = c0
  FirstVersion <- MCFirstVersion
  OtherTag <- MCOtherTag
  Names <- MCNames
  CrossName <- MCCrossName
  Required <- MCRequired
  RequiredInputs <- MCRequiredInputs
  Evidence <- MCEvidence
  Agreeing <- MCAgreeing
  LicenseSources <- MCLicenseSources
  ReleaseInputs <- MCReleaseInputs
  Preloaded <- MCPreloaded
  ImmutableReleases = TRUE
  MaxPushes = 2  MaxFailures = 1  MaxFaults = 1
INVARIANTS PublishedIsReviewed TagsFollowMain
PROPERTIES RefinesLedger EveryTagIsPublished
