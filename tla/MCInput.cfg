SPECIFICATION Spec
CONSTANTS
  MaxRequestBytes = 5
  MaxAttachments = 2
  MaxAttachmentBytes = 2
  MaxTotalBytes = 3
  MinReason = 2
  MaxReason = 3
  Uploads <- SomeUploads
  MaxText = 4
INVARIANTS StagingIsBounded AcceptedIsSound RefusedForCause BreaksByTheRules
CHECK_DEADLOCK FALSE
