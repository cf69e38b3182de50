----------------------------- MODULE Migrations ------------------------------
(***************************************************************************)
(* The migrations of the database, run by every instance of the server as  *)
(* it starts (backend db/migrate.ts, index.ts).  A file and the row that   *)
(* records it are meant to be one transaction; a file that says BEGIN and  *)
(* COMMIT itself ends that transaction before the row is written.  Some of *)
(* these cannot run a second time, since CREATE TRIGGER fails then.        *)
(***************************************************************************)
EXTENDS Naturals, FiniteSets

CONSTANTS
    LastFile,   \* the files, 1..LastFile in the order of their names
    Closing,    \* those with a COMMIT of their own
    OnceOnly,   \* those of them that create a trigger, as 003_notifications.sql
    Instances,
    MaxFalls    \* bound: crashes

ASSUME MigrationsAssumption ==
    /\ LastFile \in Nat /\ MaxFalls \in Nat
    /\ Closing \subseteq 1..LastFile /\ OnceOnly \subseteq Closing

VARIABLES
    recorded,  \* _migrations
    ran,       \* how often each file took effect
    boot,      \* each instance: what it does, its pending files and the one at hand
    falls

migrationsVars == <<recorded, ran, boot, falls>>

Booting == [at |-> "start", pending |-> {}, file |-> 0]

MigrationsInit ==
    /\ recorded = {} /\ ran = [f \in 1..LastFile |-> 0]
    /\ boot = [i \in Instances |-> Booting] /\ falls = 0

First(files) == CHOOSE f \in files : \A g \in files : f <= g

\* To the next pending file, or to app.listen.
GoesOn(i, pending) ==
    boot' = [boot EXCEPT ![i] = IF pending = {} THEN [Booting EXCEPT !.at = "serving"]
                                ELSE [at |-> "next", pending |-> pending, file |-> First(pending)]]

ReadApplied(i) ==
    /\ boot[i].at = "start" /\ GoesOn(i, (1..LastFile) \ recorded)
    /\ UNCHANGED <<recorded, ran, falls>>

\* The trigger of its file is there already.
Repeats(i) == boot[i].file \in OnceOnly /\ ran[boot[i].file] > 0

\* Statements of a file wait for those of a transaction of it that is still open.
RunBody(i) ==
    /\ boot[i].at = "next" /\ ~Repeats(i)
    /\ \A j \in Instances \ {i} :
          boot[j].at = "ran" /\ boot[j].file = boot[i].file => boot[i].file \in Closing
    /\ boot' = [boot EXCEPT ![i].at = "ran"]
    /\ ran' = IF boot[i].file \in Closing THEN [ran EXCEPT ![boot[i].file] = @ + 1] ELSE ran
    /\ UNCHANGED <<recorded, falls>>

\* The name of the row is unique.
RecordsNew(i) == boot[i].file \notin recorded

\* The INSERT, and COMMIT.
RecordFile(i) ==
    /\ boot[i].at = "ran" /\ RecordsNew(i)
    /\ recorded' = recorded \cup {boot[i].file}
    /\ ran' = IF boot[i].file \in Closing THEN ran ELSE [ran EXCEPT ![boot[i].file] = @ + 1]
    /\ GoesOn(i, boot[i].pending \ {boot[i].file})
    /\ UNCHANGED falls

\* process.exit(1), after ROLLBACK; whoever runs the server starts it again.  Where an
\* instance fell between the COMMIT of a file that cannot run twice and the row that
\* records it, every later start ends here.
MigrationFails(i) ==
    /\ \/ boot[i].at = "ran" /\ ~RecordsNew(i)
       \/ boot[i].at = "next" /\ Repeats(i)
    /\ boot' = [boot EXCEPT ![i] = Booting]
    /\ UNCHANGED <<recorded, ran, falls>>

InstanceFalls(i) ==
    /\ falls < MaxFalls /\ falls' = falls + 1
    /\ boot' = [boot EXCEPT ![i] = Booting] /\ UNCHANGED <<recorded, ran>>

MigrationsNext ==
    \E i \in Instances :
        ReadApplied(i) \/ RunBody(i) \/ RecordFile(i) \/ MigrationFails(i) \/ InstanceFalls(i)

MigrationsSpec == MigrationsInit /\ [][MigrationsNext]_migrationsVars

-----------------------------------------------------------------------------
\* Files take effect in their order, and a file that does not commit itself exactly
\* once when it is recorded, and never before, whoever starts or falls in between.
\* The others take effect at least once: again for every instance that starts beside
\* the first one or after a fall (009_fix_reminders.sql drops its table each time),
\* but for those that cannot.  No instance serves before all files are recorded.
MigratedInOrder ==
    /\ \A f \in 1..LastFile :
        /\ f \in recorded \/ ran[f] > 0 => 1..(f - 1) \subseteq recorded
        /\ f \notin Closing => ran[f] = IF f \in recorded THEN 1 ELSE 0
        /\ f \in recorded => ran[f] > 0
        /\ f \in OnceOnly => ran[f] <= 1
    /\ \A i \in Instances : boot[i].at = "serving" => recorded = 1..LastFile
=============================================================================
