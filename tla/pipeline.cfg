SPECIFICATION Spec
CONSTANTS
  f1 = f1 f2 = f2 f3 = f3 r1 = r1 r2 = r2
  None = None
  Inline = {f1, f3}
  Issue = {f2}
  Replies = {r1, r2}
  Plans <- MCPlans
  Results <- MCResults
  Modes = {"batch", "single", "manual"}
  Hosts = {"github", "gitlab"}
  MaxRetries = 2
  MaxHead = 1
INVARIANTS
  PublishedOnce
  CompletedIsPublished
  MappingFollowsDiscussion
PROPERTIES
  PartialPublicationIsFinal
  SavedWorkIsNotRedone
  JobSettles
CHECK_DEADLOCK FALSE
