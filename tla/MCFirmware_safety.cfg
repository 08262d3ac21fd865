CONSTANTS
    Lines <- MCLines
    FF = "FF"
    Images <- MCImages
    NewFs <- MCNewFs
    Missing = Missing
SPECIFICATION Spec
INVARIANTS
    TypeOK
    LayoutKept
    NeverLarger
    OnlyThisBuild
    
    RoundTrip
    KitInv
