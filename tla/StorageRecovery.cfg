\* Two uploads in one tab; another tab sees their records.
SPECIFICATION Spec
CONSTANTS
    here = here
    there = there
    one = one
    two = two
    Tab <- TwoTabs
    Uploader <- OneTab
    Attempt <- TwoUploads
    MaxRecords = 1
    MaxReloads = 1
SYMMETRY Symmetric
INVARIANTS ReleasedIsRecorded ReleasedLocksEveryTab HashesAreSeen DiscardedStaysGone
CHECK_DEADLOCK FALSE
