SPECIFICATION FairSpec

CONSTANTS
    Edited = {"read_only", "sync_binlog"}
    Values = {"v1", "v2"}
    Spellings = {"underscore"}
    Images = {"image1", "image2"}
    Secrets = {"secret1"}
    Users = {"user1"}
    MaxEdits = 2
    MaxDisturbances = 1

INVARIANTS
    TypeOK
    FileMeansSpec
    OrderedRollout

PROPERTIES
    ConfigurationConverges
