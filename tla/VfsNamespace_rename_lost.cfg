\* do_rename over a target name that already exists: files created by open, and rename.
CONSTANTS
    Root = "r"
    NoIno = "null"
    Inodes <- MC_Inodes
    Names <- MC_Names
    Paths <- MC_Paths
    LinkPaths <- MC_NamesRoot
    Calls <- MC_CallsRename
    MAX_VREF = 3
    FDs <- MC_FDs
    OpenPaths <- MC_NamesRoot
    OpenFlags <- MC_OpenFlags
SPECIFICATION Spec
PROPERTY RenameKeepsFile
CHECK_DEADLOCK FALSE
