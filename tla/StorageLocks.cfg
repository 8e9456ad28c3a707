\* One tab, one upload: what the user can do about one that is unresolved.
SPECIFICATION Spec
CONSTANTS
    here = here
    there = there
    one = one
    two = two
    Tab <- OneTab
    Uploader <- OneTab
    Attempt <- OneUpload
    MaxRecords = 1
    MaxReloads = 0
INVARIANT LockHasControl
CHECK_DEADLOCK FALSE
