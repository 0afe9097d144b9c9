CONSTANT Fallible <- MCFallible
SPECIFICATION Spec
INVARIANT CleanupReportedOnSuccess
