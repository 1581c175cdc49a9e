--------------------------- MODULE Notifications ---------------------------
(***************************************************************************)
(* Who is told of an alert (modules/notifications/): an event of the alert *)
(* engine is dispatched to the users who have a row of preferences, one    *)
(* after the other, each read anew; the dispatches of two events overlap.  *)
(* A user's channels are served one after the other from the row as it was *)
(* read.  What is in a message is left out, providers report a failure     *)
(* instead of throwing, and an unknown time zone makes quiet hours throw.  *)
(***************************************************************************)
EXTENDS Naturals, Sequences, FiniteSets, SequencesExt

CONSTANTS Member,   \* users of the panel
          Channel,  \* email, sms and webhook, or some of them
          MaxEvents, MaxVisitsToSettings, MaxNoticeFaults \* bounds

ASSUME NotificationAssumption ==
  /\ IsFiniteSet(Member) /\ "email" \in Channel /\ Channel \subseteq {"email", "sms", "webhook"}
  /\ MaxEvents \in Nat /\ MaxVisitsToSettings \in Nat /\ MaxNoticeFaults \in Nat

VARIABLES
  preferences, \* each user's row
  notice,      \* dispatches: the severity, the rule's overrides, users still to be told,
               \* channels of the first of them still to be served, preferences when it began
  told,        \* messages that went out: dispatch, user, channel
  excused,     \* history: who changed preferences, or whose provider or row failed, meanwhile
  settings, noticeFaults

noticeVars == <<preferences, notice, told, excused, settings, noticeFaults>>

Severity == {"info", "critical"}
NoPreferences == [row |-> FALSE, enabled |-> {}, address |-> {}, quiet |-> "no", filtered |-> {}]
\* What a new row has: nothing is sent, as there is no address.
DefaultPreferences == [NoPreferences EXCEPT !.row = TRUE, !.enabled = {"email"}]
\* Severities are filtered alike: one is tried.
Preferences == [row : {TRUE}, enabled : SUBSET Channel, address : SUBSET Channel,
                quiet : {"no", "now", "unknown zone"}, filtered : {{}, {"info"}}]
\* What a rule overrides: one channel, or none.
Overrides == UNION {[c -> BOOLEAN] : c \in {{}} \cup {{x} : x \in Channel}}
\* Of the channels a user chooses none, one or all.
Chosen == {{}, Channel} \cup {{c} : c \in Channel}
\* Every field of the request is optional: one is given.
Changes(row) == {[row EXCEPT !.enabled = x] : x \in Chosen}
                  \cup {[row EXCEPT !.address = x] : x \in Chosen}
                  \cup {[row EXCEPT !.quiet = x] : x \in {"no", "now", "unknown zone"}}
                  \cup {[row EXCEPT !.filtered = x] : x \in {{}, {"info"}}}

NotificationInit ==
  /\ preferences = [m \in Member |-> NoPreferences]
  /\ notice = <<>> /\ told = {} /\ excused = {} /\ settings = 0 /\ noticeFaults = 0

-----------------------------------------------------------------------------
(* Settings.                                                                *)

Running == {n \in DOMAIN notice : notice[n].todo # <<>>}

\* The row is made when it is asked for.
GetPreferences(m) ==
  /\ ~preferences[m].row
  /\ preferences' = [preferences EXCEPT ![m] = DefaultPreferences]
  /\ UNCHANGED <<notice, told, excused, settings, noticeFaults>>

UpdatePreferences(m) ==
  /\ settings < MaxVisitsToSettings /\ settings' = settings + 1
  /\ \E row \in Changes(IF preferences[m].row THEN preferences[m] ELSE DefaultPreferences) :
       /\ row # preferences[m]
       /\ preferences' = [preferences EXCEPT ![m] = row]
  /\ excused' = excused \cup {<<n, m>> : n \in Running}
  /\ UNCHANGED <<notice, told, noticeFaults>>

-----------------------------------------------------------------------------
(* Dispatching.                                                             *)

\* alert.fired has the severity of the rule, alert.resolved is information.
dispatchToAllUsers(severity, overrides) ==
  /\ Len(notice) < MaxEvents
  /\ notice' = Append(notice, [severity |-> severity, overrides |-> overrides, began |-> preferences,
                               todo |-> SetToSeq({m \in Member : preferences[m].row}),
                               channels |-> <<>>])
  /\ UNCHANGED <<preferences, told, excused, settings, noticeFaults>>

isInQuietHours(row) == row.quiet = "now"

shouldNotifyForSeverity(row, severity) == severity \notin row.filtered

\* A rule may force a channel on or off; without an address nothing is sent.
determineChannels(row, overrides) ==
  {c \in row.address : IF c \in DOMAIN overrides THEN overrides[c] ELSE c \in row.enabled}

Recipients(row, severity, overrides) ==
  IF (isInQuietHours(row) /\ severity # "critical") \/ ~shouldNotifyForSeverity(row, severity) THEN {}
  ELSE determineChannels(row, overrides)

Now(n) == Head(notice[n].todo)

\* The order in which the providers are called.
Served(channels) ==
  LET Turn(c) == IF c \in channels THEN <<c>> ELSE <<>>
  IN  Turn("email") \o Turn("sms") \o Turn("webhook")

\* The row is read, and what it asks for is worked out before the first message.
dispatch(n) ==
  LET row      == preferences[Now(n)]
      channels == Served(Recipients(row, notice[n].severity, notice[n].overrides))
  IN
  /\ n \in Running /\ notice[n].channels = <<>> /\ row.quiet # "unknown zone"
  /\ notice' = IF channels = <<>> THEN [notice EXCEPT ![n].todo = Tail(@)]
               ELSE [notice EXCEPT ![n].channels = channels]
  /\ UNCHANGED <<preferences, told, excused, settings, noticeFaults>>

\* After the last channel it is the next user's turn.
Onward(n) == IF Len(notice[n].channels) > 1 THEN [notice EXCEPT ![n].channels = Tail(@)]
             ELSE [notice EXCEPT ![n].channels = <<>>, ![n].todo = Tail(@)]

\* One provider is awaited: its message goes out, or the failure is caught and reported.
Sends(n, c) ==
  /\ n \in Running /\ notice[n].channels # <<>> /\ Head(notice[n].channels) = c
  /\ \/ told' = told \cup {<<n, Now(n), c>>} /\ UNCHANGED <<excused, noticeFaults>>
     \/ /\ noticeFaults < MaxNoticeFaults /\ noticeFaults' = noticeFaults + 1
        /\ excused' = excused \cup {<<n, Now(n)>>} /\ UNCHANGED told
  /\ notice' = Onward(n)
  /\ UNCHANGED <<preferences, settings>>

\* The mail server refuses, or is not there.
sendEmail(n) == Sends(n, "email")
\* Twilio is not configured, or refuses.
sendSms(n) == Sends(n, "sms")
\* fetch() throws, or the answer is not one of success; nothing is sent again.
sendWebhook(n) == Sends(n, "webhook")

\* Mutant: nobody is told after a user for whom it failed.
Caught_Last(n) == <<>>

Caught(n) == Tail(notice[n].todo)

\* The zone is unknown, or the row cannot be read: the loop goes on.
dispatchThrows(n) ==
  /\ n \in Running /\ notice[n].channels = <<>>
  /\ \/ preferences[Now(n)].quiet = "unknown zone" /\ noticeFaults' = noticeFaults
     \/ noticeFaults < MaxNoticeFaults /\ noticeFaults' = noticeFaults + 1
  /\ excused' = excused \cup {<<n, Now(n)>>}
  /\ notice' = [notice EXCEPT ![n].todo = Caught(n)]
  /\ UNCHANGED <<preferences, told, settings>>

NotificationNext ==
  \/ \E m \in Member : GetPreferences(m) \/ UpdatePreferences(m)
  \/ \E severity \in Severity, overrides \in Overrides :
       dispatchToAllUsers(severity, overrides)
  \/ \E n \in 1..MaxEvents :
       dispatch(n) \/ sendEmail(n) \/ sendSms(n) \/ sendWebhook(n) \/ dispatchThrows(n)

NotificationSpec == NotificationInit /\ [][NotificationNext]_noticeVars

-----------------------------------------------------------------------------
\* Types; a user is waited for once, and is served while channels are left.
NotificationTypeOK ==
  /\ \A m \in Member : preferences[m] \in {NoPreferences, DefaultPreferences} \cup Preferences
  /\ told \subseteq (1..MaxEvents) \X Member \X Channel
  /\ \A n \in DOMAIN notice :
       /\ IsInjective(notice[n].todo) /\ IsInjective(notice[n].channels)
       /\ notice[n].channels # <<>> => notice[n].todo # <<>>

\* When an event has been dispatched, everybody was told of it as the preferences say that
\* there were when it began, whatever happened for others, and nobody in another way; but
\* for users whose own preferences changed, or whose own message failed, meanwhile.
EveryoneIsTold ==
  \A n \in DOMAIN notice \ Running, m \in Member :
    <<n, m>> \notin excused =>
      {c \in Channel : <<n, m, c>> \in told}
        = Recipients(notice[n].began[m], notice[n].severity, notice[n].overrides)
=============================================================================
