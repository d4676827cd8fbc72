SPECIFICATION FairSpec
CONSTANTS
  Rank <- MCRank
  Tags <- MCTags
  MaxFailures = 2
INVARIANT TypeOK
INVARIANT AnswersAreTrue
PROPERTY RetriesEnd
