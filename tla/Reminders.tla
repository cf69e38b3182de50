----------------------------- MODULE Reminders ------------------------------
(***************************************************************************)
(* The reminders of one user, claimed and pushed by the reminder workers   *)
(* (services/reminderService.ts, jobs/reminderWorker.ts), and the web push *)
(* subscriptions they go to (services/webPush.ts, web lib/                 *)
(* pushNotifications.ts).  Nothing under src/ calls createReminder: the    *)
(* rows are there from the start and become due one by one.  The worker is *)
(* followed to the end, though no claim succeeds on this schema.           *)
(***************************************************************************)
EXTENDS Naturals, FiniteSets

CONSTANTS
    ReminderIds,
    Workers,     \* reminder workers: one in each instance of the server
    BatchSize,   \* REMINDER_BATCH_SIZE
    Browsers,    \* the push endpoints of the user's browsers
    MaxStops     \* bound: crashes of workers and failed queries

VARIABLES
    reminder,   \* rows of notification_reminders
    worker,     \* the batch of each worker, and what became of the one in hand
    rows,       \* push_subscriptions_web
    browser,    \* subscriptions that live in a browser
    choice,     \* notification_preferences, the hour and the push service:
                \* "off" when push_enabled or reminders is off
    vapid,      \* VAPID keys are configured
    stops

reminderVars == <<reminder, worker, rows, browser, choice, vapid, stops>>

\* The CHECK of the column: no later migration widens it.
Statuses == {"pending", "sent", "failed"}

ReminderChoices == {"send", "quiet", "outage", "off"}

NotBusy == [batch |-> {}, at |-> "idle", hand |-> CHOOSE i \in ReminderIds : TRUE]

RemindersTypeOK ==
    /\ reminder \in [ReminderIds -> [status : Statuses, due : BOOLEAN, aged : BOOLEAN]]
    /\ worker \in [Workers -> [batch : SUBSET ReminderIds, hand : ReminderIds,
                               at : {"idle", "next", "sent", "missed", "error"}]]
    /\ rows \subseteq Browsers /\ browser \subseteq Browsers
    /\ choice \in ReminderChoices
    /\ vapid \in BOOLEAN /\ stops \in 0..MaxStops

\* createReminder, for every reminder.
RemindersInit ==
    /\ reminder = [i \in ReminderIds |-> [status |-> "pending", due |-> FALSE, aged |-> FALSE]]
    /\ worker = [w \in Workers |-> NotBusy]
    /\ rows = {} /\ browser = {}
    /\ choice = "send" /\ vapid \in BOOLEAN /\ stops = 0

\* scheduled_at comes.
BecomesDue(i) ==
    /\ ~reminder[i].due /\ reminder' = [reminder EXCEPT ![i].due = TRUE]
    /\ UNCHANGED <<worker, rows, browser, choice, vapid, stops>>

\* Ten minutes pass over a claimed row.
ClaimAges(i) ==
    /\ reminder[i].status = "processing" /\ ~reminder[i].aged
    /\ reminder' = [reminder EXCEPT ![i].aged = TRUE]
    /\ UNCHANGED <<worker, rows, browser, choice, vapid, stops>>

\* The WHERE clause of the claim.
Claimable(i) ==
    /\ reminder[i].due /\ choice # "off"
    /\ \/ reminder[i].status = "pending"
       \/ reminder[i].status = "processing" /\ reminder[i].aged

SetRow(i, status) == reminder' = [reminder EXCEPT ![i].status = status, ![i].aged = FALSE]

\* The UPDATE marks the rows it returns.
MarkClaimed(batch) ==
    reminder' = [i \in ReminderIds |->
        IF i \in batch THEN [reminder[i] EXCEPT !.status = "processing", !.aged = FALSE]
        ELSE reminder[i]]

\* The CHECK of the column: where it does not list the mark, the UPDATE of any row
\* is refused as a whole.
ClaimAdmitted == "processing" \in Statuses

\* getPendingReminders, called by the job of the queue every minute.  An error ends
\* the job, and the next one comes to the same rows.
Claim(w) ==
    /\ worker[w].at = "idle"
    /\ \E batch \in SUBSET {i \in ReminderIds : Claimable(i)} :
        /\ batch # {} /\ Cardinality(batch) <= BatchSize
        /\ IF ClaimAdmitted
           THEN /\ MarkClaimed(batch)
                /\ worker' = [worker EXCEPT ![w].batch = batch, ![w].at = "next"]
           ELSE UNCHANGED <<reminder, worker>>
    /\ UNCHANGED <<rows, browser, choice, vapid, stops>>

\* sendWebPush goes on to the endpoints only then.
MaySend == choice \notin {"off", "quiet"} /\ rows # {} /\ vapid

\* The endpoints that take the message; the push service may fail for any of
\* them, and answers 410 for those that a browser has given up.
Reached == IF choice = "outage" THEN SUBSET (rows \cap browser) ELSE {rows \cap browser}

\* processReminder, first half: sendWebPush.  Rows of endpoints that are gone
\* are removed.
SendWebPush(w) ==
    /\ worker[w].at = "next"
    /\ \E i \in worker[w].batch :
        \E reached \in (IF MaySend THEN Reached ELSE {{}}) :
            worker' = [worker EXCEPT ![w] = [batch |-> worker[w].batch \ {i}, hand |-> i,
                          at |-> IF reached = {} THEN "missed" ELSE "sent"]]
    /\ rows' = IF MaySend THEN rows \cap browser ELSE rows
    /\ UNCHANGED <<reminder, browser, choice, vapid, stops>>

\* The worker goes on with its batch.
NextInBatch(w) ==
    worker' = [worker EXCEPT ![w] = IF worker[w].batch = {} THEN NotBusy
                                    ELSE [NotBusy EXCEPT !.at = "next", !.batch = worker[w].batch]]

MarkSent(w) ==
    /\ worker[w].at = "sent" /\ SetRow(worker[w].hand, "sent") /\ NextInBatch(w)
    /\ UNCHANGED <<rows, browser, choice, vapid, stops>>

\* processReminder, after nothing was sent: a user without a subscription, or a
\* server without keys, will never get it; anything else is taken to pass.
MarkMissed(w) ==
    /\ worker[w].at = "missed"
    /\ SetRow(worker[w].hand, IF rows = {} \/ ~vapid THEN "failed" ELSE "pending")
    /\ NextInBatch(w)
    /\ UNCHANGED <<rows, browser, choice, vapid, stops>>

MarkFailed(w) ==
    /\ worker[w].at = "error" /\ SetRow(worker[w].hand, "failed") /\ NextInBatch(w)
    /\ UNCHANGED <<rows, browser, choice, vapid, stops>>

\* A query fails: processReminder marks the row as failed, and when that fails
\* too the worker goes on and leaves the row claimed.
QueryFails(w) ==
    /\ worker[w].at \in {"sent", "missed", "error"} /\ stops < MaxStops
    /\ stops' = stops + 1
    /\ IF worker[w].at = "error" THEN NextInBatch(w)
       ELSE worker' = [worker EXCEPT ![w].at = "error"]
    /\ UNCHANGED <<reminder, rows, browser, choice, vapid>>

\* The worker's process ends; BullMQ hands its job out again, which polls anew.
WorkerStops(w) ==
    /\ worker[w].at # "idle" /\ stops < MaxStops
    /\ stops' = stops + 1 /\ worker' = [worker EXCEPT ![w] = NotBusy]
    /\ UNCHANGED <<reminder, rows, browser, choice, vapid>>

\* initializePushNotifications: the browser subscribes, then tells the server,
\* which may not hear of it.
SubscribeToPush(b) ==
    /\ browser' = browser \cup {b} /\ rows' \in {rows, rows \cup {b}}
    /\ UNCHANGED <<reminder, worker, choice, vapid, stops>>

\* unsubscribeFromPush: the same, with the server's row left to the next send.
UnsubscribeFromPush(b) ==
    /\ b \in browser /\ browser' = browser \ {b} /\ rows' \in {rows, rows \ {b}}
    /\ UNCHANGED <<reminder, worker, choice, vapid, stops>>

\* PUT /notifications/preferences, quiet hours, outages of the push service.
ChoiceChanges ==
    /\ choice' \in ReminderChoices
    /\ UNCHANGED <<reminder, worker, rows, browser, vapid, stops>>

\* cancelGroupReminders takes pending rows only.
CancelReminders ==
    /\ reminder' = [i \in ReminderIds |->
            IF reminder[i].status = "pending" THEN [reminder[i] EXCEPT !.status = "failed"]
            ELSE reminder[i]]
    /\ UNCHANGED <<worker, rows, browser, choice, vapid, stops>>

WorkerStep(w) == Claim(w) \/ SendWebPush(w) \/ MarkSent(w) \/ MarkMissed(w) \/ MarkFailed(w)

RemindersNext ==
    \/ \E i \in ReminderIds : BecomesDue(i) \/ ClaimAges(i)
    \/ \E w \in Workers : WorkerStep(w) \/ QueryFails(w) \/ WorkerStops(w)
    \/ \E b \in Browsers : SubscribeToPush(b) \/ UnsubscribeFromPush(b)
    \/ ChoiceChanges \/ CancelReminders

\* The queue hands out a job every minute, a worker goes on with its batch, and
\* time passes over a claim.
RemindersFair ==
    /\ \A w \in Workers : WF_reminderVars(WorkerStep(w))
    /\ \A i \in ReminderIds : WF_reminderVars(ClaimAges(i))

RemindersSpec == RemindersInit /\ [][RemindersNext]_reminderVars /\ RemindersFair

\* A due reminder is sent or marked as failed in the end, through crashes of its
\* workers, once the user wants reminders, the quiet hours are over, the push
\* service works and the browsers keep their subscriptions for good: rows left
\* "processing" are reclaimed, and one that was kept pending fires when the quiet
\* hours end (getPendingReminders, processReminder).  No reminder does: the CHECK of
\* the column refuses the mark of every claim.
RemindersEnd ==
    /\ <>[](choice = "send")
    /\ <>[][browser' = browser]_reminderVars
    =>
        \A i \in ReminderIds : reminder[i].due ~> reminder[i].status \in {"sent", "failed"}
=============================================================================
