\* The growable buffer: two values, counts up to 3, sizes up to 4.
CONSTANTS
    a = a
    b = b
    zero = zero
    undef = undef
    Vals <- ValsAB
    Zero <- zero
    Undef <- undef
    MaxCount = 3
SPECIFICATION Spec
INVARIANT TypeOK
INVARIANT CountWithinSize
PROPERTY RefinesVecSeq
