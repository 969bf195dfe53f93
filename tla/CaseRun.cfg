SPECIFICATION CaseSpec
CONSTANT MaxCases = 2
INVARIANT CaseTypeOK ChangeIsReported VerdictAfterRestore
CHECK_DEADLOCK FALSE
