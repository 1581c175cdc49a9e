------------------------------ MODULE ApiClient ------------------------------
(***************************************************************************)
(* The HTTP client of the frontend (lib/api/client.ts): an answer 401      *)
(* starts one refresh of the access token, requests answered 401 meanwhile *)
(* wait for it in failedQueue.  The refresh goes through the same client:  *)
(* a 401 of its own is put in the queue it is to empty.  What a promise    *)
(* continues with runs before the next answer comes in.  Tokens are        *)
(* numbered as they are issued; the stored one survives a reload, the      *)
(* queue and isRefreshing do not.                                          *)
(***************************************************************************)
EXTENDS Naturals

CONSTANTS Request,        \* requests of the page that may be under way at once
          RefreshAnswers, \* answers to POST auth/refresh: subset of {"ok", "unauthorized", "failed"}
          MaxTokens,      \* bound on tokens issued
          MaxRequests     \* bound on requests, and on reloads

ASSUME ClientAssumption ==
  /\ RefreshAnswers \subseteq {"ok", "unauthorized", "failed"}
  /\ MaxTokens \in Nat /\ MaxRequests \in Nat

VARIABLES
  request,      \* each request: its kind, where it is, the token it carries, _retry
  refresh,      \* where the refresh is: none, sent, parked
  isRefreshing,
  store,        \* accessToken (0: null) and isAuthenticated, in local storage
  issued, validFrom, \* tokens issued; the first of them that has not expired
  logoutClicked, \* the user waits for the logout
  requests

clientVars == <<request, refresh, isRefreshing, store, issued, validFrom, logoutClicked, requests>>

NoRequest == [kind |-> "none", at |-> "none", token |-> 0, retry |-> FALSE]
LoggedOut == [token |-> 0, authenticated |-> FALSE]
InQueue   == {r \in Request : request[r].at = "parked"}
Leader    == {r \in Request : request[r].at = "leading"}
Settled   == \A r \in Request : request[r].at = "none"
\* The refresh waits for itself.
Wedged    == refresh = "parked"

ClientInit ==
  /\ request = [r \in Request |-> NoRequest] /\ refresh = "none" /\ isRefreshing = FALSE
  /\ store = [token |-> 1, authenticated |-> TRUE] /\ issued = 1 /\ validFrom = 1
  /\ logoutClicked = FALSE /\ requests = 0

-----------------------------------------------------------------------------
(* The user and the clock.                                                  *)

\* The token is added when the request is sent.
Send(r, kind) ==
  /\ request[r] = NoRequest /\ requests < MaxRequests /\ requests' = requests + 1
  /\ kind # "login" => store.authenticated
  /\ kind = "logout" => ~logoutClicked
  /\ request' = [request EXCEPT ![r] = [kind |-> kind, at |-> "sent", token |-> store.token, retry |-> FALSE]]
  /\ logoutClicked' = (logoutClicked \/ kind = "logout")
  /\ UNCHANGED <<refresh, isRefreshing, store, issued, validFrom>>

TokenExpires ==
  /\ validFrom = issued /\ issued < MaxTokens /\ validFrom' = issued + 1
  /\ UNCHANGED <<request, refresh, isRefreshing, store, issued, logoutClicked, requests>>

Forget == /\ request' = [r \in Request |-> NoRequest] /\ refresh' = "none"
          /\ isRefreshing' = FALSE /\ logoutClicked' = FALSE

Reload ==
  /\ requests < MaxRequests /\ requests' = requests + 1 /\ Forget
  /\ UNCHANGED <<store, issued, validFrom>>

-----------------------------------------------------------------------------
(* Answers to requests of the page.                                         *)

Valid(token) == token >= validFrom

\* useLogin() stores a token; useLogout() clears it whatever the answer is.
Done(r, ok) ==
  LET kind == request[r].kind IN
  /\ request' = [request EXCEPT ![r] = NoRequest]
  /\ store' = IF kind = "logout" THEN LoggedOut
              ELSE IF kind = "login" /\ ok THEN [token |-> issued + 1, authenticated |-> TRUE] ELSE store
  /\ issued' = IF kind = "login" /\ ok THEN issued + 1 ELSE issued
  /\ logoutClicked' = (logoutClicked /\ kind # "logout")

Succeeds(r) ==
  /\ request[r].at = "sent" /\ (Valid(request[r].token) \/ request[r].kind = "login")
  /\ request[r].kind = "login" => issued < MaxTokens
  /\ Done(r, TRUE)
  /\ UNCHANGED <<refresh, isRefreshing, validFrom, requests>>

\* Any other answer than 401, or none, rejects the promise.
Fails(r) ==
  /\ request[r].at = "sent" /\ Done(r, FALSE)
  /\ UNCHANGED <<refresh, isRefreshing, validFrom, requests>>

\* The server answers 401 to a token that has expired, and to a wrong password.
Unauthorized(r) == request[r].at = "sent" /\ (~Valid(request[r].token) \/ request[r].kind = "login")

RejectRetried(r) ==
  /\ Unauthorized(r) /\ request[r].retry /\ Done(r, FALSE)
  /\ UNCHANGED <<refresh, isRefreshing, validFrom, requests>>

Park(r) ==
  /\ Unauthorized(r) /\ ~request[r].retry /\ isRefreshing
  /\ request' = [request EXCEPT ![r].at = "parked"]
  /\ UNCHANGED <<refresh, isRefreshing, store, issued, validFrom, logoutClicked, requests>>

Lead(r) ==
  /\ Unauthorized(r) /\ ~request[r].retry /\ ~isRefreshing
  /\ request' = [request EXCEPT ![r].at = "leading", ![r].retry = TRUE]
  /\ refresh' = "sent" /\ isRefreshing' = TRUE
  /\ UNCHANGED <<store, issued, validFrom, logoutClicked, requests>>

-----------------------------------------------------------------------------
(* Answers to the refresh.                                                  *)

\* Mutant: the leader is sent again, the others are not.
Woken_Leader == Leader

\* processQueue() wakes who waits, and the leader goes on itself.
Woken == InQueue \cup Leader

\* Requests that waited are sent again without _retry.
RefreshSucceeds ==
  /\ refresh = "sent" /\ "ok" \in RefreshAnswers /\ issued < MaxTokens
  /\ issued' = issued + 1 /\ store' = [store EXCEPT !.token = issued + 1]
  /\ request' = [r \in Request |-> IF r \in Woken THEN [request[r] EXCEPT !.at = "sent", !.token = issued + 1]
                                   ELSE request[r]]
  /\ refresh' = "none" /\ isRefreshing' = FALSE
  /\ UNCHANGED <<validFrom, logoutClicked, requests>>

\* Everything is rejected, the token dropped, and the login page loaded anew.
RefreshFails ==
  /\ refresh = "sent" /\ "failed" \in RefreshAnswers
  /\ store' = LoggedOut /\ Forget
  /\ UNCHANGED <<issued, validFrom, requests>>

\* The interceptor finds isRefreshing set, and no _retry on the refresh itself.
RefreshUnauthorized ==
  /\ refresh = "sent" /\ "unauthorized" \in RefreshAnswers
  /\ refresh' = "parked"
  /\ UNCHANGED <<request, isRefreshing, store, issued, validFrom, logoutClicked, requests>>

Answer(r) == Succeeds(r) \/ Fails(r) \/ RejectRetried(r) \/ Park(r) \/ Lead(r)
RefreshAnswered == RefreshSucceeds \/ RefreshFails \/ RefreshUnauthorized

ClientNext ==
  \/ \E r \in Request : (\E kind \in {"page", "logout", "login"} : Send(r, kind)) \/ Answer(r)
  \/ TokenExpires \/ Reload \/ RefreshAnswered

\* Every request is answered, or its connection fails.
ClientFairness == (\A r \in Request : WF_clientVars(Answer(r))) /\ WF_clientVars(RefreshAnswered)

ClientSpec == ClientInit /\ [][ClientNext]_clientVars /\ ClientFairness

-----------------------------------------------------------------------------
\* Types; a refresh is under way, or waits, exactly while isRefreshing is set, on
\* behalf of one request.
ClientTypeOK ==
  /\ store.token \in 0..MaxTokens /\ validFrom \in 1..MaxTokens
  /\ isRefreshing <=> refresh # "none"
  /\ isRefreshing <=> \E r \in Request : Leader = {r}

\* Whatever expires and whoever waits for whom, every request comes to an end, unless
\* the refresh waits for itself.
RequestsSettle == \A r \in Request : request[r].at # "none" ~> request[r].at = "none" \/ Wedged

\* A user who logs out is logged out, even if the call fails.
LogoutEnds == logoutClicked ~> ~logoutClicked
=============================================================================
