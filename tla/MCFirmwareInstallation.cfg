SPECIFICATION Spec
CONSTANTS
    None = None
    h1 = h1
    h2 = h2
    HistoryUsers = {h1, h2}
    Images <- MCImages
    FirstVersion = 1
    PartitionParts = 3
    MaxRedirects = 2
    MaxReleases = 2
INVARIANTS
    SelectedImageIsTheOffered
PROPERTIES
    HistoryYieldsToOta
    HistoryResumes
