\* Three scripts that share names, with failures, interruptions and edits.
SPECIFICATION Spec
CONSTANTS
  Jobs <- ZeroProcHotJobs
  Sole <- ZeroProcHotFiles
  MaxTime = 2
INVARIANTS IInv SuccessIsFresh
PROPERTIES NeverOlder OlderOnlyAfterFailure
