SPECIFICATION FairSpec
CONSTANTS
    a1 = a1 u1 = u1 u2 = u2 c1 = c1 c2 = c2 c3 = c3 p1 = p1 p2 = p2
    None = None
    Assets = {a1}
    Uploads = {u1, u2}
    AssetOf <- AssetOfUpload
    Creating = {u1}
    Chat = {u1}
    Calls = {c1, c2, c3}
    UploadOf <- UploadOfCall
    Purges = {p1}
    Viewed = {u2}
    Overlapping = FALSE
    MaxFaults = 1
INVARIANTS TypeOK AssetsAreReadable VersionsHaveBytes PurgedKeysAreGone
PROPERTIES LibraryIsOnlyPurged UnwantedBytesGo
CHECK_DEADLOCK FALSE
