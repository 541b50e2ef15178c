SPECIFICATION FairSpec
CONSTANTS
  Request <- Posts
  Invocation = {i1, i2}
  StreamRetention = 1
  LambdaTimeout = 1
  BronzeRetention = 1
  MaxRequestBody = 1
  MaxPosts = 2
  Horizon = 2
INVARIANTS
  TypeOK
  AcceptedIsSafe
  GoodRequestIsNotDropped
PROPERTIES
  ImplementsBronzeFeed
  EveryRequestIsAnswered
  AcceptedIsStored
