------------------------------- MODULE Alerts -------------------------------
(***************************************************************************)
(* Alert rules and the alerts they fire (modules/monitoring).  Every       *)
(* thirty seconds an evaluation loads the enabled rules, collects the      *)
(* metrics and goes through the rules; nothing keeps it from overlapping   *)
(* with the one before.  Since when a rule is breached is kept in memory   *)
(* and lost with the process, alerts and rules are rows.  Users edit rules *)
(* and acknowledge or resolve alerts meanwhile; each of their requests     *)
(* loads a row and saves it later.  Sending what was emitted is left out.  *)
(***************************************************************************)
EXTENDS Naturals, FiniteSets

CONSTANTS Rule,       \* alert rules
          Duration,   \* durationSeconds, in evaluations
          Cooldown,   \* cooldownSeconds, in evaluations
          Evaluator,  \* evaluations that may be under way at once
          MaxClock,   \* bound on time
          MaxAlerts,  \* bound on alerts
          MaxEdits,   \* bound on requests of users, and on restarts
          MaxAlertFaults \* bound on queries that fail

ASSUME AlertAssumption ==
  /\ {Duration, Cooldown, MaxClock, MaxAlerts, MaxEdits, MaxAlertFaults} \subseteq Nat /\ MaxClock > 0
  /\ Rule \cap {"none", "alert"} = {}

VARIABLES
  clock,    \* time, in steps of thirty seconds
  started,  \* when the scheduler last started an evaluation
  ruleRow,  \* the row of each rule
  breach,   \* breachTimestamps: 0 for none
  alerts,   \* rows of alerts, by number
  eval,     \* evaluations under way
  desk,     \* the request of a user: a row loaded, and what it becomes
  finding,  \* history: what the last complete look at a rule has found
  highFrom, \* history: since when every finding was high, 0 for none
  muddled,  \* history: rules edited, or in the hands of two evaluations
  edits, alertFaults

alertRows == <<ruleRow, alerts>>
alertVars == <<clock, started, ruleRow, breach, alerts, eval, desk, finding, highFrom, muddled,
               edits, alertFaults>>

NoRule  == [there |-> FALSE, on |-> FALSE, last |-> 0]
NewRule == [there |-> TRUE, on |-> TRUE, last |-> 0]
NoAlert == [rule |-> "none", status |-> "none", at |-> 0]
Deleted == [NoAlert EXCEPT !.status = "deleted"]
NoEval  == [at |-> "idle", rows |-> [r \in Rule |-> NoRule], got |-> [r \in Rule |-> "none"],
            left |-> {}, rule |-> "none", open |-> {}]
NoDesk  == [what |-> "none", of |-> 0, row |-> NoAlert, rule |-> NoRule]

Numbers       == 1..MaxAlerts
Free(n)       == alerts[n] = NoAlert /\ \A m \in Numbers : m < n => alerts[m] # NoAlert
Firing(r)     == {n \in Numbers : alerts[n].rule = r /\ alerts[n].status = "firing"}
EvalsQuiet    == \A e \in Evaluator : eval[e] = NoEval
Busy          == {e \in Evaluator : eval[e] # NoEval}

AlertInit ==
  /\ clock = 1 /\ started = 0
  /\ ruleRow = [r \in Rule |-> NewRule]
  /\ breach = [r \in Rule |-> 0] /\ alerts = [n \in Numbers |-> NoAlert]
  /\ eval = [e \in Evaluator |-> NoEval] /\ desk = NoDesk
  /\ finding = [r \in Rule |-> "none"] /\ highFrom = [r \in Rule |-> 0] /\ muddled = {}
  /\ edits = 0 /\ alertFaults = 0

-----------------------------------------------------------------------------
(* Time, and the scheduler: it starts an evaluation at every step of time.  *)

Tick ==
  /\ clock = started /\ clock < MaxClock /\ clock' = clock + 1
  /\ UNCHANGED <<started, ruleRow, breach, alerts, eval, desk, finding, highFrom, muddled, edits, alertFaults>>

\* The rules are loaded first; a rule is in two hands when evaluations overlap.
EvaluateRules(e) ==
  /\ started < clock /\ started' = clock /\ eval[e] = NoEval
  /\ eval' = [eval EXCEPT ![e] = [NoEval EXCEPT !.at = "collect", !.rows = ruleRow,
                                                !.left = {r \in Rule : ruleRow[r].on}]]
  /\ muddled' = IF Busy = {} THEN muddled ELSE Rule
  /\ UNCHANGED <<clock, ruleRow, breach, alerts, desk, finding, highFrom, edits, alertFaults>>

\* What the metric of each rule is: high (breaching), ok, or none for want of it.
CollectMetrics(e) ==
  /\ eval[e].at = "collect"
  /\ \E got \in [Rule -> {"high", "ok", "none"}] : eval' = [eval EXCEPT ![e].at = "next", ![e].got = got]
  /\ UNCHANGED <<clock, started, alertRows, breach, desk, finding, highFrom, muddled, edits, alertFaults>>

EndEvaluation(e) ==
  /\ eval[e].at = "next" /\ eval[e].left = {}
  /\ eval' = [eval EXCEPT ![e] = NoEval]
  /\ UNCHANGED <<clock, started, alertRows, breach, desk, finding, highFrom, muddled, edits, alertFaults>>

-----------------------------------------------------------------------------
(* One rule.  Nothing is awaited between the look at the breach and the     *)
(* first query.                                                             *)

Took(e, r, at) == eval' = [eval EXCEPT ![e].at = at, ![e].rule = r, ![e].left = @ \ {r}]
EvalOn(e, at)  == eval' = [eval EXCEPT ![e].at = at]

\* A rule whose metric is not there is not looked at, and keeps its breach.
NotMeasured(e, r) ==
  /\ eval[e].at = "next" /\ r \in eval[e].left /\ eval[e].got[r] = "none"
  /\ Took(e, r, "next")
  /\ UNCHANGED <<clock, started, alertRows, breach, desk, finding, highFrom, muddled, edits, alertFaults>>

Sustained(r)      == breach[r] # 0 /\ clock - breach[r] >= Duration
\* The row is the one that was loaded before the metrics were collected.
CoolingDown(row) == row.last # 0 /\ clock - row.last < Cooldown

Breaching(e, r) ==
  /\ eval[e].at = "next" /\ r \in eval[e].left /\ eval[e].got[r] = "high"
  /\ breach' = [breach EXCEPT ![r] = IF @ = 0 THEN clock ELSE @]
  /\ Took(e, r, IF Sustained(r) /\ ~CoolingDown(eval[e].rows[r]) THEN "find" ELSE "next")
  /\ finding' = [finding EXCEPT ![r] = "high"]
  /\ highFrom' = [highFrom EXCEPT ![r] = IF @ = 0 THEN clock ELSE @]
  /\ UNCHANGED <<clock, started, alertRows, desk, muddled, edits, alertFaults>>

NotBreaching(e, r) ==
  /\ eval[e].at = "next" /\ r \in eval[e].left /\ eval[e].got[r] = "ok"
  /\ breach' = [breach EXCEPT ![r] = 0]
  /\ Took(e, r, "resolve")
  /\ highFrom' = [highFrom EXCEPT ![r] = 0]
  /\ UNCHANGED <<clock, started, alertRows, desk, finding, muddled, edits, alertFaults>>

\* handleAlertFiring(): look for an alert that is firing, then insert one.
FindFiring(e) ==
  /\ eval[e].at = "find"
  /\ EvalOn(e, IF Firing(eval[e].rule) = {} THEN "insert" ELSE "next")
  /\ UNCHANGED <<clock, started, alertRows, breach, desk, finding, highFrom, muddled, edits, alertFaults>>

InsertAlert(e) ==
  LET r == eval[e].rule IN
  /\ eval[e].at = "insert" /\ ruleRow[r].there
  /\ \E n \in Numbers : Free(n) /\ alerts' = [alerts EXCEPT ![n] = [rule |-> r, status |-> "firing", at |-> clock]]
  /\ EvalOn(e, "mark")
  /\ UNCHANGED <<clock, started, ruleRow, breach, desk, finding, highFrom, muddled, edits, alertFaults>>

\* lastTriggeredAt is set by an update of its own; alert.fired is emitted after it.
MarkTriggered(e) ==
  LET r == eval[e].rule IN
  /\ eval[e].at = "mark"
  /\ ruleRow' = IF ruleRow[r].there THEN [ruleRow EXCEPT ![r].last = clock] ELSE ruleRow
  /\ EvalOn(e, "next")
  /\ UNCHANGED <<clock, started, alerts, breach, desk, finding, highFrom, muddled, edits, alertFaults>>

\* handleAlertResolved(): what is firing is loaded, and saved one by one.
LoadFiring(e) ==
  LET r == eval[e].rule IN
  /\ eval[e].at = "resolve"
  /\ eval' = [eval EXCEPT ![e].at = "resolving", ![e].open = {[of |-> n, row |-> alerts[n]] : n \in Firing(r)}]
  /\ UNCHANGED <<clock, started, alertRows, breach, desk, finding, highFrom, muddled, edits, alertFaults>>

\* Mutant: only when there is more than one.
ResolveFiring_First(e, a) ==
  /\ eval[e].at = "resolving" /\ ruleRow[eval[e].rule].there
  /\ alerts' = [alerts EXCEPT ![a.of] = IF eval[e].open = {a} THEN @ ELSE [a.row EXCEPT !.status = "resolved"]]
  /\ eval' = [eval EXCEPT ![e].open = @ \ {a}]
  /\ UNCHANGED <<clock, started, ruleRow, breach, desk, finding, highFrom, muddled, edits, alertFaults>>

ResolveFiring(e, a) ==
  /\ eval[e].at = "resolving" /\ ruleRow[eval[e].rule].there
  /\ alerts' = [alerts EXCEPT ![a.of] = [a.row EXCEPT !.status = "resolved"]]
  /\ eval' = [eval EXCEPT ![e].open = @ \ {a}]
  /\ UNCHANGED <<clock, started, ruleRow, breach, desk, finding, highFrom, muddled, edits, alertFaults>>

Resolved(e) ==
  /\ eval[e].at = "resolving" /\ eval[e].open = {}
  /\ EvalOn(e, "next")
  /\ finding' = [finding EXCEPT ![eval[e].rule] = "ok"]
  /\ UNCHANGED <<clock, started, alertRows, breach, desk, highFrom, muddled, edits, alertFaults>>

\* One query fails, or the rule has been deleted: no other rule is looked at.
EvaluationFails(e) ==
  LET gone == ~(eval[e].rule \in Rule /\ ruleRow[eval[e].rule].there) IN
  /\ \/ eval[e].at \in {"insert", "resolving"} /\ gone /\ UNCHANGED alertFaults
     \/ /\ eval[e].at \in {"find", "insert", "mark", "resolve"}
        /\ alertFaults < MaxAlertFaults /\ alertFaults' = alertFaults + 1
  /\ eval' = [eval EXCEPT ![e] = NoEval]
  /\ finding' = IF eval[e].rule \in Rule THEN [finding EXCEPT ![eval[e].rule] = "none"] ELSE finding
  /\ muddled' = IF eval[e].at = "mark" THEN muddled \cup {eval[e].rule} ELSE muddled
  /\ UNCHANGED <<clock, started, alertRows, breach, desk, highFrom, edits>>

\* The process starts again; rules are seeded when there are none.
RestartPanel ==
  /\ edits < MaxEdits /\ edits' = edits + 1
  /\ eval' = [e \in Evaluator |-> NoEval] /\ breach' = [r \in Rule |-> 0] /\ desk' = NoDesk
  /\ ruleRow' = IF \A r \in Rule : ~ruleRow[r].there THEN [r \in Rule |-> NewRule] ELSE ruleRow
  /\ finding' = [r \in Rule |-> "none"] /\ highFrom' = [r \in Rule |-> 0]
  /\ muddled' = muddled \cup {eval[e].rule : e \in {d \in Evaluator : eval[d].at = "mark"}}
  /\ UNCHANGED <<clock, started, alerts, alertFaults>>

-----------------------------------------------------------------------------
(* Requests of users: a row is loaded, and saved later as it was loaded.    *)

DeskOpen(d) == desk = NoDesk /\ edits < MaxEdits /\ edits' = edits + 1 /\ desk' = d
DeskRest    == UNCHANGED <<clock, started, breach, eval, finding, highFrom, alertFaults>>

AcknowledgeAlert(n) ==
  /\ alerts[n].status = "firing"
  /\ DeskOpen([NoDesk EXCEPT !.what = "alert", !.of = n, !.row = [alerts[n] EXCEPT !.status = "acknowledged"]])
  /\ UNCHANGED <<alertRows, muddled>> /\ DeskRest

ResolveAlert(n) ==
  /\ alerts[n].status \in {"firing", "acknowledged"}
  /\ DeskOpen([NoDesk EXCEPT !.what = "alert", !.of = n, !.row = [alerts[n] EXCEPT !.status = "resolved"]])
  /\ UNCHANGED <<alertRows, muddled>> /\ DeskRest

\* Rules are switched on and off; a rule keeps the breach it had.
UpdateRule(r) ==
  /\ ruleRow[r].there
  /\ DeskOpen([NoDesk EXCEPT !.what = r, !.rule = [ruleRow[r] EXCEPT !.on = ~@]])
  /\ muddled' = muddled \cup {r}
  /\ UNCHANGED alertRows /\ DeskRest

\* Its alerts go with it.
DeleteRule(r) ==
  /\ ruleRow[r].there /\ edits < MaxEdits /\ edits' = edits + 1
  /\ ruleRow' = [ruleRow EXCEPT ![r] = NoRule]
  /\ alerts' = [n \in Numbers |-> IF alerts[n].rule = r THEN Deleted ELSE alerts[n]]
  /\ muddled' = muddled \cup {r}
  /\ UNCHANGED desk /\ DeskRest

\* save(), unless what the row refers to has gone.
SaveAlert ==
  /\ desk.what = "alert" /\ desk' = NoDesk
  /\ alerts' = IF ruleRow[desk.row.rule].there THEN [alerts EXCEPT ![desk.of] = desk.row] ELSE alerts
  /\ UNCHANGED <<ruleRow, muddled, edits>> /\ DeskRest

SaveRule ==
  /\ desk.what \in Rule /\ desk' = NoDesk
  /\ ruleRow' = [ruleRow EXCEPT ![desk.what] = desk.rule]
  /\ UNCHANGED <<alerts, muddled, edits>> /\ DeskRest

AlertNext ==
  \/ Tick
  \/ \E e \in Evaluator :
       \/ EvaluateRules(e) \/ CollectMetrics(e) \/ EndEvaluation(e)
       \/ \E r \in Rule : NotMeasured(e, r) \/ Breaching(e, r) \/ NotBreaching(e, r)
       \/ FindFiring(e) \/ InsertAlert(e) \/ MarkTriggered(e) \/ LoadFiring(e)
       \/ (\E a \in eval[e].open : ResolveFiring(e, a)) \/ Resolved(e) \/ EvaluationFails(e)
  \/ RestartPanel
  \/ \E n \in Numbers : AcknowledgeAlert(n) \/ ResolveAlert(n)
  \/ \E r \in Rule : UpdateRule(r) \/ DeleteRule(r)
  \/ SaveAlert \/ SaveRule

AlertSpec == AlertInit /\ [][AlertNext]_alertVars

-----------------------------------------------------------------------------
\* Types; an evaluation has a rule in hand only between two of them.
AlertTypeOK ==
  /\ ruleRow \in [Rule -> [there : BOOLEAN, on : BOOLEAN, last : 0..MaxClock]]
  /\ breach \in [Rule -> 0..MaxClock]
  /\ \A n \in Numbers : alerts[n].status \in {"none", "firing", "acknowledged", "resolved", "deleted"}
  /\ \A e \in Evaluator : eval[e].at \in {"idle", "collect", "next"} \/ eval[e].rule \in Rule

\* Between evaluations a rule has at most one alert firing, and one only if the last
\* look at it found it breached (or came to nothing).  Alerts of one rule fire at
\* least its cooldown apart, each only after every look for at least its duration
\* had found it breached, in the life of this process.  Unless two evaluations had
\* the rule in hand, or it was edited (alert-engine.service.ts evaluateRule).
AlertsFollowRules ==
  \A r \in Rule \ muddled :
    /\ EvalsQuiet => Cardinality(Firing(r)) <= 1 /\ (Firing(r) # {} => finding[r] # "ok")
    /\ \A m, n \in Numbers : m < n /\ alerts[m].rule = r /\ alerts[n].rule = r =>
         alerts[n].at - alerts[m].at >= Cooldown
    /\ \A e \in Evaluator : eval[e].at = "mark" /\ eval[e].rule = r =>
         highFrom[r] # 0 /\ clock - highFrom[r] >= Duration
=============================================================================
