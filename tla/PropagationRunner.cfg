SPECIFICATION FairSpec
INVARIANT TypeOK VerdictsAreEarned
PROPERTY KeepsCustody Terminates
CHECK_DEADLOCK FALSE
