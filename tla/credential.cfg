CONSTANTS
    Styles = {"rename", "inplace", "data", "parent"}
    Leaves <- MCLeaves
    MaxWrites = 3
    Missing = Missing
    NoText = NoText
SPECIFICATION Spec
INVARIANT TypeOK
INVARIANT RenameNeverRefuses
PROPERTY CredentialReadsSpec
CHECK_DEADLOCK FALSE
