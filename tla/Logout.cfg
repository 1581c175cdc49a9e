\* The same client: a logout whose token has run out.
CONSTANTS
  Request = {1, 2, 3}
  RefreshAnswers = {"ok", "unauthorized", "failed"}
  MaxTokens = 3
  MaxRequests = 5
SPECIFICATION ClientSpec
PROPERTIES LogoutEnds
CHECK_DEADLOCK FALSE
