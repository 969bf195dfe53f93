SPECIFICATION Spec
INVARIANT TypeOK VerdictsAreEarned Unorphaned
PROPERTY KeepsCustody
CHECK_DEADLOCK FALSE
