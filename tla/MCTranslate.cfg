SPECIFICATION TransSpec
CONSTANTS
    Char <- TestChars
    Configs <- TestConfigs
    AliasSize = 2
    HashSize = 2
    Code <- CodeOf
    boa_hash <- HashOf
    Decode <- DecodeOf
    MaxPath = 8
    Users <- TestUsers
    Homes <- TestHomes
    Asked <- TestRequests
    Dirs <- TestDirs
    Scripts <- TestScripts
    Plain <- TestPlain
INVARIANTS FirstMatch TablesCurrent CleanPath ScriptSplit
CHECK_DEADLOCK FALSE
