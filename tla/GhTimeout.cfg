\* One gh whose helper keeps its output open.
SPECIFICATION RuntimeSpec
CONSTANTS
    Credentials = {"t1"}
    Unclean = {""}
    Files = {}
    NoFile = NoFile
    Rereads = TRUE
    MaxChanges = 0
    None = "none"
PROPERTIES TimeoutCapsGh
