\* Three requests at once, a refresh that may be answered in every way, two
\* tokens that run out.
CONSTANTS
  Request = {1, 2, 3}
  RefreshAnswers = {"ok", "unauthorized", "failed"}
  MaxTokens = 3
  MaxRequests = 5
SPECIFICATION ClientSpec
PROPERTY RequestsSettle
CHECK_DEADLOCK FALSE
