\* Claims of the code that its behaviour refutes, to be run one at a time.
SPECIFICATION MigrationSpec
CONSTANTS
    Names <- MCNames
    LowerOf <- MCLowerOf
    FieldName <- MCFieldName
    Kind <- MCKind
    Mentions <- MCMentions
    Uploads <- MCUploads
    Answers <- MCAnswers
    Previewed = 2
INVARIANT ColumnsExist
\* INVARIANT GuessStands
\* INVARIANT OneLeadingPlus
\* INVARIANT PreviewForetells
