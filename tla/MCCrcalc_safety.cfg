SPECIFICATION Spec
CONSTANTS
    Images <- MCImages
    Checksum <- MCChecksum
    Beyond = {0, 3}
    MAX_HEAD_SIZE = 3
INVARIANTS TypeOK FieldsOnly UpdatedIsValid
CHECK_DEADLOCK FALSE
