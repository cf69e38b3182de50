---------------------------- MODULE Diagnostics -----------------------------
(***************************************************************************)
(* What the server records about itself: requests                          *)
(* (middleware/requestMetrics.ts), the errors it captures                  *)
(* (services/errorCapture.ts), the buffer of log entries that is flushed   *)
(* to the database every five seconds (services/logger.ts), and what a     *)
(* stop of the process (index.ts) does to it.  Entries are numbered in the *)
(* order they are logged; all captured errors are of one kind.             *)
(***************************************************************************)
EXTENDS Naturals, Sequences, SequencesExt

CONSTANTS
    Clients,        \* requests served at once
    Flushes,        \* flushes whose INSERT may be under way at once
    MaxBuffer,      \* MAX_BUFFER_SIZE
    BatchLen,       \* entries one flush takes
    MaxEntries      \* bound: entries logged

ASSUME DiagnosticsAssumption == /\ MaxBuffer \in Nat \ {0} /\ BatchLen \in Nat \ {0}
                                /\ MaxEntries \in Nat

VARIABLES
    served,             \* how far each request is: idle, open, or in captureError
    logged,             \* number of entries logged so far
    buffer, flight,     \* entries waiting, and in the INSERT of each flush
    written,            \* entries of system_logs; one may have several rows
    dropped,            \* history: entries lost to a full buffer or to a stop
    occurrences,        \* occurrence_count of the error, 0 without a row
    captured,           \* history: captures whose statement was answered
    process             \* running, or closing after an uncaught exception

diagnosticsVars == <<served, logged, buffer, flight, written,
                     dropped, occurrences, captured, process>>

LogIds == 1..MaxEntries

DiagnosticsTypeOK ==
    /\ served \in [Clients -> {"idle", "open", "look", "insert", "update"}]
    /\ logged \in 0..MaxEntries
    /\ buffer \in BoundedSeq(LogIds, MaxBuffer)
    /\ flight \in [Flushes -> BoundedSeq(LogIds, BatchLen)]
    /\ written \subseteq LogIds /\ dropped \subseteq LogIds
    /\ occurrences \in Nat /\ captured \in Nat
    /\ process \in {"running", "closing"}

DiagnosticsInit ==
    /\ served = [c \in Clients |-> "idle"]
    /\ logged = 0 /\ buffer = <<>> /\ flight = [f \in Flushes |-> <<>>]
    /\ written = {} /\ dropped = {}
    /\ occurrences = 0 /\ captured = 0 /\ process = "running"

-----------------------------------------------------------------------------
\* log: a full buffer gives up its oldest entry for the new one.
Kept == IF Len(buffer) >= MaxBuffer THEN Tail(buffer) ELSE buffer

LogNext ==
    /\ logged < MaxEntries /\ logged' = logged + 1
    /\ dropped' = dropped \cup (ToSet(buffer) \ ToSet(Kept))

Log == LogNext /\ buffer' = Append(Kept, logged + 1)

\* flush: the oldest entries leave the buffer before their INSERT is sent;
\* nothing keeps the next tick from sending the following ones meanwhile.
Splice(f, entries) ==
    LET n == IF Len(entries) < BatchLen THEN Len(entries) ELSE BatchLen
    IN  /\ flight[f] = <<>>
        /\ flight' = [flight EXCEPT ![f] = SubSeq(entries, 1, n)]
        /\ buffer' = SubSeq(entries, n + 1, Len(entries))

Flush(f) ==
    /\ process = "running" /\ buffer # <<>> /\ Splice(f, buffer)
    /\ UNCHANGED <<served, logged, written, dropped, occurrences, captured, process>>

FlushWritten(f) ==
    /\ flight[f] # <<>>
    /\ written' = written \cup ToSet(flight[f]) /\ flight' = [flight EXCEPT ![f] = <<>>]
    /\ UNCHANGED <<served, logged, buffer, dropped, occurrences, captured, process>>

\* Fault: a failed batch is only reported, not put back.
Forgotten(batch) == [back |-> <<>>, lost |-> {}]

\* The catch of flush unshifts the entries one by one, which turns the batch
\* around, as long as there is room.
PutBack(batch) ==
    LET room == MaxBuffer - Len(buffer)
        n    == IF Len(batch) < room THEN Len(batch) ELSE room
    IN  [back |-> Reverse(SubSeq(batch, 1, n)), lost |-> ToSet(SubSeq(batch, n + 1, Len(batch)))]

\* The INSERT failed, or its answer was lost after the commit.
FlushFailed(f) ==
    /\ flight[f] # <<>>
    /\ LET put == PutBack(flight[f])
       IN  buffer' = put.back \o buffer /\ dropped' = dropped \cup put.lost
    /\ \E committed \in BOOLEAN : written' = IF committed THEN written \cup ToSet(flight[f]) ELSE written
    /\ flight' = [flight EXCEPT ![f] = <<>>]
    /\ UNCHANGED <<served, logged, occurrences, captured, process>>

-----------------------------------------------------------------------------
\* requestMetrics: a request is counted and logged when it arrives ...
RequestStart(c) ==
    /\ process = "running" /\ served[c] = "idle"
    /\ served' = [served EXCEPT ![c] = "open"]
    /\ Log /\ UNCHANGED <<flight, written, occurrences, captured, process>>

\* ... and when its answer has been sent; an answer of 500 and above is captured.
RequestEnd(c) ==
    /\ process = "running" /\ served[c] = "open"
    /\ \E next \in {"idle", "look"} : served' = [served EXCEPT ![c] = next]
    /\ Log /\ UNCHANGED <<flight, written, occurrences, captured, process>>

\* A client that goes away gets no answer: "finish" is not emitted, and nothing
\* of the request is recorded.
RequestAborted(c) ==
    /\ process = "running" /\ served[c] = "open"
    /\ served' = [served EXCEPT ![c] = "idle"]
    /\ UNCHANGED <<logged, buffer, flight, written, dropped, occurrences, captured, process>>

\* registerGlobalErrorHandlers: a rejection nobody handles is logged and captured.
UnhandledRejection(c) ==
    /\ process = "running" /\ served[c] = "idle"
    /\ served' = [served EXCEPT ![c] = "look"]
    /\ Log /\ UNCHANGED <<flight, written, occurrences, captured, process>>

\* captureError: look for the row of this kind of error ...
CaptureLook(c) ==
    /\ served[c] = "look" /\ process = "running"
    /\ served' = [served EXCEPT ![c] = IF occurrences > 0 THEN "update" ELSE "insert"]
    /\ UNCHANGED <<logged, buffer, flight, written, dropped, occurrences, captured, process>>

\* Fault: the row found missing is inserted anew, without ON CONFLICT's count.
InsertReplaces(branch) == IF branch = "update" THEN occurrences + 1 ELSE 1

\* ... then count one more: the UPDATE adds to the stored count, and so does an
\* INSERT that meets a row another capture has inserted meanwhile.
Counted(branch) == occurrences + 1

CaptureWrite(c) ==
    /\ served[c] \in {"insert", "update"} /\ process = "running"
    /\ served' = [served EXCEPT ![c] = "idle"]
    /\ occurrences' = Counted(served[c]) /\ captured' = captured + 1
    /\ Log /\ UNCHANGED <<flight, written, process>>

\* A statement of captureError fails, before its effect or after it.
CaptureFailed(c) ==
    /\ served[c] \in {"look", "insert", "update"} /\ process = "running"
    /\ served' = [served EXCEPT ![c] = "idle"]
    /\ \/ UNCHANGED occurrences
       \/ served[c] # "look" /\ occurrences' = Counted(served[c])
    /\ Log /\ UNCHANGED <<flight, written, captured, process>>

-----------------------------------------------------------------------------
\* An uncaught exception: gracefulShutdown logs, starts one last flush without
\* waiting for it, closes the pool under it, and exits two seconds later.
GracefulShutdown ==
    /\ process = "running" /\ process' = "closing" /\ LogNext
    /\ \E f \in Flushes : Splice(f, Append(Kept, logged + 1))
    /\ UNCHANGED <<served, written, occurrences, captured>>

\* The end of gracefulShutdown, and SIGTERM, whose shutdown closes the pool
\* before it calls destroy and exits in the same turn: what is buffered is gone,
\* and the server starts again with an empty buffer and no connection.
Exit ==
    LET batches == UNION {ToSet(flight[f]) : f \in Flushes}
    IN  /\ process' = "running" /\ served' = [c \in Clients |-> "idle"]
        /\ buffer' = <<>> /\ flight' = [f \in Flushes |-> <<>>]
        /\ \E arrived \in {{}, batches} :
              written' = written \cup arrived /\ dropped' = dropped \cup ToSet(buffer) \cup (batches \ arrived)
        /\ UNCHANGED <<logged, occurrences, captured>>

DiagnosticsNext ==
    \/ \E c \in Clients : \/ RequestStart(c) \/ RequestEnd(c) \/ RequestAborted(c) \/ UnhandledRejection(c)
                          \/ CaptureLook(c) \/ CaptureWrite(c) \/ CaptureFailed(c)
    \/ \E f \in Flushes : Flush(f) \/ FlushWritten(f) \/ FlushFailed(f)
    \/ GracefulShutdown \/ Exit

-----------------------------------------------------------------------------
\* An entry that was logged is in the database, on its way there, or in the
\* buffer, where it is at most once; only a full buffer and the end of the process
\* lose one, failed and overlapping flushes do not.
EntriesKept ==
    LET waiting == ToSet(buffer) \cup UNION {ToSet(flight[f]) : f \in Flushes}
    IN  /\ \A e \in 1..logged : e \in waiting \cup dropped \/ e \in written
        /\ \A i, j \in DOMAIN buffer : i # j => buffer[i] # buffer[j]
        /\ \A f \in Flushes : ToSet(flight[f]) \cap ToSet(buffer) = {}

\* Captures of the same error at the same moment are all counted, whichever of
\* them creates the row.
ErrorsCounted == captured <= occurrences
=============================================================================
