SPECIFICATION MigrationSpec
CONSTANTS
    Names <- MCNames
    LowerOf <- MCLowerOf
    FieldName <- MCFieldName
    Kind <- MCKind
    Mentions <- MCMentions
    Uploads <- MCUploads
    Answers <- MCAnswers
    Previewed = 2
INVARIANTS
    MappingSound
    EveryRowOnce
    PreviewTells
    CellsSafe
