SPECIFICATION FairSpec
CONSTANTS
    Window = 1
    Threshold = 1
    Capacity = 1
    Uploads = 2
    Downloads = 0
    Kicks = TRUE
PROPERTY
    UploadNeverLeaks
CHECK_DEADLOCK FALSE
