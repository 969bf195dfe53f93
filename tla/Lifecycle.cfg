SPECIFICATION Spec
INVARIANT TypeOK
INVARIANT SuccessIsEarned
INVARIANT NothingEscapes
INVARIANT CleanedUpOnReturn
INVARIANT SilentOnlyAfterCleanupRetry
PROPERTY ImplementsProtocol
CHECK_DEADLOCK FALSE
