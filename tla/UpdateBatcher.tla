---------------------------- MODULE UpdateBatcher ----------------------------
(***************************************************************************)
(* The update batcher (internal/executor/updatebatcher, not among the     *)
(* sources): modelled from the specification, section 4.5.  It buffers   *)
(* api.CommandResult records, coalesces a result with the buffered one of *)
(* the same name, and sends the buffer in one ReportCommandUpdates call.  *)
(* A result is a record [name, status]; durations and the signalled flag  *)
(* are left out.                                                           *)
(***************************************************************************)
EXTENDS Naturals, Sequences

Statuses == {"EXECUTING", "COMPLETED", "FAILED", "SKIPPED"}

CommandResult(name, status) == [name |-> name, status |-> status]

\* The position of the most recently buffered result named n.
LastBuffered(buf, n) ==
    CHOOSE j \in DOMAIN buf :
        /\ buf[j].name = n
        /\ \A k \in DOMAIN buf : buf[k].name = n => k <= j

\* Queue: a result replaces the most recent buffered one of the same name,
\* in place; otherwise it is appended.  (History is appended separately.)
Queue(buf, r) ==
    IF \E j \in DOMAIN buf : buf[j].name = r.name
    THEN [buf EXCEPT ![LastBuffered(buf, r.name)] = r]
    ELSE Append(buf, r)

\* Flush: an empty buffer sends nothing; otherwise ReportCommandUpdates
\* carries the whole buffer, which is emptied if the call succeeds and kept,
\* in order, for the next flush if it fails.
\* Mutant: a successful flush leaves the buffer as it was.
FlushedBufferKept(buf, ok) == buf

FlushedBuffer(buf, ok) == IF ok THEN <<>> ELSE buf

Transmitted(sent, buf, ok) == IF ok THEN sent \o buf ELSE sent
=============================================================================
