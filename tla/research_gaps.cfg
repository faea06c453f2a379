\* Two sub-questions, three pages, two targeted queries a round; every fallback, every retry. A finished run stops.
CONSTANTS
  t1 = t1
  t2 = t2
  docs = docs
  reddit = reddit
  blog = blog
  q1 = q1
  q2 = q2
  k2 = k2
  c2 = c2
  Task = {t1, t2}
  Question = t1
  Page = {docs, reddit, blog}
  Official = {docs}
  Reddit = {reddit}
  Site <- MCSite
  Relevant <- MCRelevant
  Query = {q1, q2, k2, c2}
  OwnQuery <- MCOwnQuery
  TextQuery <- MCTextQuery
  FollowUpQuery <- MCFollowUpQuery
  MissedQuery <- MCMissedQuery
  Sent <- MCSent
  MaxSubQuestions = 2
  MaxTargeted = 2
  MaxRetries = 1
  GapSearch = TRUE
  SourceRag = TRUE
SPECIFICATION Spec
INVARIANTS
  TypeOK
  ReviewFitsDraft
  HighConfidenceIsEarned
  GapsAreReported
  SearchesBounded
PROPERTIES
  FailsOnlyInFirstSearch
  RetryNeverWorse
  RunIsGrounded
  RunEnds
CHECK_DEADLOCK FALSE
