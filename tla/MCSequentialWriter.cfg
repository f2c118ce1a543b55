SPECIFICATION Spec
CONSTANTS
    Topics = {1, 2}
    Latched = {1}
    Depth = 1
    CountModulus = 65536
    Configurations <- MCConfigurations
INVARIANTS InOrderOnce NothingLostSilently MetadataIsRight LatchedInEverySplit SnapshotFilesAreExact
CHECK_DEADLOCK FALSE
