SPECIFICATION Spec
CONSTANTS
  Words <- MCWords
  RawSegments <- MCRawSegments
  Builds <- MCBuilds
  Metadata <- MCMetadata
  Tags <- MCTags
  MaxSegments = 2
INVARIANTS
  PowerlessAreFlagged
  SegmentIdTellsSource
  MetadataProvesLittle
  ScreeningSkippedForRootOnly
