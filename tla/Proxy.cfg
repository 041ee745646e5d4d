SPECIFICATION FairProxySpec
CONSTANTS
  Policies <- SlowFast
  Horizon = 9
  Limit = 8
  Never = Never
  Answers <- SomeAnswers
  Pieces = {"200", "407", "via", "latin1", "eol", "early"}
  Garbled = {"latin1"}
  Eol = "eol"
  Success = {"200"}
  MaxResponse = 4
INVARIANTS TypeOK TakesHold HandedOver
PROPERTIES Backoff DownForGood StoppedEnds NotGivenUp
CHECK_DEADLOCK FALSE
