---------------------------- MODULE AdminConsole ----------------------------
(***************************************************************************)
(* What the admins share: a configuration value and the log of its changes *)
(* (services/adminConfigService.ts, web pages/admin/AdminConfigPage.tsx),  *)
(* an alert rule, its evaluation and its cooldown                          *)
(* (services/adminAlertService.ts, services/alertService.ts), and the      *)
(* seats of the admin WebSocket (plugins/admin-websocket.ts).  Admins act  *)
(* at once, and every statement of a request is a step.  The three parts   *)
(* share no row, so each has a next-state relation of its own.             *)
(***************************************************************************)
EXTENDS Naturals, Sequences, SequencesExt, FiniteSets

CONSTANTS
    Admins,
    MaxSeats,       \* MAX_ADMIN_WS
    MaxChanges      \* bound: entries of config_change_log, and alerts kept

ASSUME AdminAssumption == IsFiniteSet(Admins) /\ MaxSeats \in Nat /\ MaxChanges \in Nat

VARIABLES
    setting,        \* the value of app.maintenance_mode
    changeLog,      \* config_change_log for it: old and new values
    toggled,        \* history: toggleMaintenance wrote the value last
    shown,          \* configItems in the page of each admin
    work,           \* what the request of each admin does, and the value it carries
    rule,           \* alert_rules: none, on or off
    recent,         \* alerts of the rule that the cooldown still counts
    fired,          \* alert_history has a row of the rule
    seat,           \* the socket of each admin: off, on, or refused
    connectedAdmins

adminVars == <<setting, changeLog, toggled, shown, work, rule, recent, fired, seat, connectedAdmins>>

NoWork == [at |-> "none", old |-> FALSE, new |-> FALSE]
Changes == [old : BOOLEAN, new : BOOLEAN]

AdminTypeOK ==
    /\ setting \in BOOLEAN /\ toggled \in BOOLEAN /\ fired \in BOOLEAN
    /\ changeLog \in BoundedSeq(Changes, MaxChanges) /\ shown \in [Admins -> BOOLEAN]
    /\ \A a \in Admins : work[a].at \in {"none", "read", "locked", "toggle", "selected", "cool"}
    /\ rule \in {"none", "on", "off"} /\ recent \in 0..MaxChanges
    /\ seat \in [Admins -> {"off", "on", "refused"}] /\ connectedAdmins \in 0..MaxSeats

AdminInit ==
    /\ setting = FALSE /\ changeLog = <<>> /\ toggled = FALSE
    /\ shown = [a \in Admins |-> FALSE] /\ work = [a \in Admins |-> NoWork]
    /\ rule = "on" /\ recent = 0 /\ fired = FALSE
    /\ seat = [a \in Admins |-> "off"] /\ connectedAdmins = 0

Free(a) == work[a].at = "none"
Goes(a, at) == work' = [work EXCEPT ![a].at = at]
Ends(a) == work' = [work EXCEPT ![a] = NoWork]
alertVars == <<rule, recent, fired>>
seatVars == <<seat, connectedAdmins>>

-----------------------------------------------------------------------------
FetchConfig(a) ==
    /\ Free(a) /\ shown' = [shown EXCEPT ![a] = setting]
    /\ UNCHANGED <<setting, changeLog, toggled, work, alertVars, seatVars>>

\* updateConfig: the old value is read before the transaction ...
ReadOldValue(a) ==
    /\ Free(a) /\ Len(changeLog) < MaxChanges
    /\ \E v \in BOOLEAN : work' = [work EXCEPT ![a] = [at |-> "read", old |-> setting, new |-> v]]
    /\ UNCHANGED <<setting, changeLog, toggled, shown, alertVars, seatVars>>

\* Fault: value and log are two statements outside a transaction.
NoOneLocks(a) == TRUE

\* Another transaction that wrote the row holds its lock until it commits.
RowIsFree(a) == \A b \in Admins \ {a} : work[b].at # "locked"

\* ... which upserts the value and keeps the row locked ...
UpsertValue(a) ==
    /\ work[a].at = "read" /\ RowIsFree(a)
    /\ setting' = work[a].new /\ toggled' = FALSE /\ Goes(a, "locked")
    /\ UNCHANGED <<changeLog, shown, alertVars, seatVars>>

\* ... until the change is logged and both are committed; the page fetches anew.
LogChange(a) ==
    /\ work[a].at = "locked" /\ Len(changeLog) < MaxChanges
    /\ changeLog' = Append(changeLog, [old |-> work[a].old, new |-> work[a].new])
    /\ Ends(a) /\ UNCHANGED <<setting, toggled, shown, alertVars, seatVars>>

\* The page asks for the opposite of what it shows; nothing is logged of it.
PressToggle(a) ==
    /\ Free(a) /\ work' = [work EXCEPT ![a] = [at |-> "toggle", old |-> FALSE, new |-> ~shown[a]]]
    /\ UNCHANGED <<setting, changeLog, toggled, shown, alertVars, seatVars>>

ToggleMaintenance(a) ==
    /\ work[a].at = "toggle" /\ RowIsFree(a)
    /\ setting' = work[a].new /\ toggled' = TRUE /\ Ends(a)
    /\ UNCHANGED <<changeLog, shown, alertVars, seatVars>>

-----------------------------------------------------------------------------
configVars == <<setting, changeLog, toggled, shown>>

CreateAlertRule(a) ==
    /\ Free(a) /\ rule = "none" /\ rule' \in {"on", "off"}
    /\ UNCHANGED <<configVars, work, recent, fired, seatVars>>

UpdateAlertRule(a) ==
    /\ Free(a) /\ rule # "none" /\ rule' \in {"on", "off"}
    /\ UNCHANGED <<configVars, work, recent, fired, seatVars>>

\* The history refers to the rule: once it has fired, the DELETE is refused.
DeleteAlertRule(a) ==
    /\ Free(a) /\ rule # "none" /\ ~fired /\ rule' = "none"
    /\ UNCHANGED <<configVars, work, recent, fired, seatVars>>

\* evaluateAlertRules: select the enabled rules ...
SelectRules(a) ==
    /\ Free(a) /\ rule = "on" /\ Goes(a, "selected")
    /\ UNCHANGED <<configVars, alertVars, seatVars>>

\* Fault: the cooldown is not looked at.
NeverCools == FALSE

InCooldown == recent > 0

\* ... go on with one whose metric is beyond the threshold and that has not
\* fired within its cooldown ...
CheckCooldown(a) ==
    /\ work[a].at = "selected"
    /\ \E breached \in BOOLEAN : Goes(a, IF breached /\ ~InCooldown THEN "cool" ELSE "none")
    /\ UNCHANGED <<configVars, alertVars, seatVars>>

\* ... and insert the alert; without the rule the row is refused, and logged so.
CreateAlert(a) ==
    /\ work[a].at = "cool" /\ Goes(a, "none")
    /\ IF rule = "none" THEN UNCHANGED <<recent, fired>>
       ELSE recent < MaxChanges /\ recent' = recent + 1 /\ fired' = TRUE
    /\ UNCHANGED <<configVars, rule, seatVars>>

\* The oldest alert leaves the cooldown.
CooldownEnds ==
    /\ recent > 0 /\ recent' = recent - 1
    /\ UNCHANGED <<configVars, work, rule, fired, seatVars>>

-----------------------------------------------------------------------------
\* Fault: a refused socket has its handlers all the same, and counts down.
EveryoneLeaves(a) == IF connectedAdmins > 0 THEN connectedAdmins - 1 ELSE 0

\* Fault: one socket more than the seats.
OverFull == connectedAdmins > MaxSeats

Full == connectedAdmins >= MaxSeats

\* connection: one socket too many is disconnected before it has any handler.
Connect(a) ==
    /\ seat[a] = "off"
    /\ IF Full
       THEN seat' = [seat EXCEPT ![a] = "refused"] /\ UNCHANGED connectedAdmins
       ELSE seat' = [seat EXCEPT ![a] = "on"] /\ connectedAdmins' = connectedAdmins + 1
    /\ UNCHANGED <<configVars, work, alertVars>>

CountAfter(a) == connectedAdmins - (IF seat[a] = "on" THEN 1 ELSE 0)

Disconnect(a) ==
    /\ seat[a] # "off" /\ seat' = [seat EXCEPT ![a] = "off"]
    /\ connectedAdmins' = CountAfter(a)
    /\ UNCHANGED <<configVars, work, alertVars>>

ConfigNext ==
    \E a \in Admins : \/ FetchConfig(a) \/ ReadOldValue(a) \/ UpsertValue(a) \/ LogChange(a)
                      \/ PressToggle(a) \/ ToggleMaintenance(a)

AlertNext ==
    \/ \E a \in Admins : \/ CreateAlertRule(a) \/ UpdateAlertRule(a) \/ DeleteAlertRule(a)
                         \/ SelectRules(a) \/ CheckCooldown(a) \/ CreateAlert(a)
    \/ CooldownEnds

SeatNext == \E a \in Admins : Connect(a) \/ Disconnect(a)

-----------------------------------------------------------------------------
\* When no change is between its two statements, the value in force is the one
\* the log names last, in whatever order the admins changed it; only the
\* maintenance switch changes the value behind the log's back.
LogNamesTheValue ==
    (/\ \A a \in Admins : work[a].at # "locked"
     /\ ~toggled /\ changeLog # <<>>) => Last(changeLog).new = setting

\* A rule fires at most once per cooldown for each evaluation that can run at
\* once: the check and the INSERT are two statements, so two may both find it cool.
AlertsPerCooldown == recent <= Cardinality(Admins)

\* The counter that closes the door is the number of sockets that are in.
SeatsCounted == connectedAdmins = Cardinality({a \in Admins : seat[a] = "on"})
=============================================================================
