----------------------------- MODULE WorkerLog -----------------------------
(***************************************************************************)
(* The diagnostic log of one worker (src/lilith/worker_logs.py): a reader  *)
(* thread drains the worker's pipe line by line into a bounded file, and   *)
(* the supervisor, once the worker has ended, waits for it for a while,    *)
(* closes the pipe under it if need be, and appends its summary.  Text is  *)
(* its length; an action is one read, one append under the log's lock, or  *)
(* one step of finish.                                                     *)
(***************************************************************************)
EXTENDS Integers, Sequences

CONSTANTS Limit,        \* LIMIT, the bytes of the file
          Reserve,      \* the bytes kept back for the final summary
          LineLimit,    \* LINE_LIMIT
          Marker,       \* the length of the marker of truncation
          Omitted,      \* the length of the note for an oversized line
          Summary,      \* the length of the supervisor's summary, redacted
          Growth,       \* how much longer decoding and redaction make a line at most
          Chunks,       \* what a read may return: the lengths between newlines
          MaxChunks     \* bound: reads

ASSUME SizesAssumption == {Limit, Reserve, LineLimit, Marker, Omitted, Summary, Growth} \subseteq Nat \ {0}
ASSUME ReserveAssumption == Summary <= Reserve /\ Reserve <= Limit
ASSUME ChunksAssumption == Chunks \subseteq Seq(Nat) /\ <<>> \notin Chunks /\ MaxChunks \in Nat

VARIABLES
    log,        \* the file: what was written, and how much of it
    size, truncated,        \* the counter and the flag under the lock
    chunk,      \* the parts of the last read still to be looked at
    newline,    \* a newline came before the first of them
    pending, dropping,      \* the line so far, or that it is oversized
    reader,     \* the thread: reading, or done
    stream,     \* the pipe: open, closed, or closed under a blocked read
    finish,     \* the supervisor: not there yet, closed the pipe, appended
    reads

readerVars == <<chunk, newline, pending, dropping, reader, stream, reads>>
fileVars == <<log, size, truncated>>
logVars == <<fileVars, readerVars, finish>>

Entry == [what : {"line", "omitted", "marker", "summary"}, size : Nat]

LogTypeOK ==
    /\ log \in Seq(Entry) /\ size \in Nat /\ truncated \in BOOLEAN
    /\ chunk \in Seq(Nat) /\ newline \in BOOLEAN
    /\ pending \in 0..LineLimit /\ dropping \in BOOLEAN
    /\ reader \in {"reading", "done"} /\ stream \in {"open", "blocked", "closed"}
    /\ finish \in {"waiting", "closed", "done"}
    /\ reads \in 0..MaxChunks

LogInit ==
    /\ log = <<>> /\ size = 0 /\ truncated = FALSE
    /\ chunk = <<>> /\ newline = FALSE /\ pending = 0 /\ dropping = FALSE
    /\ reader = "reading" /\ stream = "open"
    /\ finish = "waiting"
    /\ reads = 0

----------------------------------------------------------------------------

Least(a, b) == IF a < b THEN a ELSE b
AtLeast0(n) == IF n < 0 THEN 0 ELSE n

(* Mutant: the worker's own output may fill the file.                      *)
Cap_Whole(final) == Limit

Cap(final) == IF final THEN Limit ELSE Limit - Reserve

Room(final) == AtLeast0(Cap(final) - size)

(* append: what fits is written; of what does not, the part that leaves    *)
(* room for the marker, and nothing but the summary after that.            *)
Append_(what, length, final) ==
    IF truncated /\ ~final THEN UNCHANGED fileVars
    ELSE IF length <= Room(final)
    THEN /\ log' = Append(log, [what |-> what, size |-> length])
         /\ size' = size + length
         /\ UNCHANGED truncated
    ELSE LET kept == AtLeast0(Room(final) - Marker) IN
         /\ log' = log \o <<[what |-> what, size |-> kept],
                            [what |-> "marker", size |-> Least(Marker, Room(final))]>>
         /\ size' = size + kept + Least(Marker, Room(final))
         /\ truncated' = TRUE

----------------------------------------------------------------------------
(* The reader.                                                             *)

(* A read that was blocked when the pipe was closed under it may still     *)
(* return once.                                                            *)
ReadChunk ==
    /\ reader = "reading" /\ chunk = <<>> /\ stream # "closed" /\ reads < MaxChunks
    /\ chunk' \in Chunks /\ newline' = FALSE
    /\ stream' = IF stream = "blocked" THEN "closed" ELSE stream
    /\ reads' = reads + 1
    /\ UNCHANGED <<fileVars, pending, dropping, reader, finish>>

LineEnds == chunk # <<>> /\ newline

(* The line so far as text, with secrets replaced: shorter or longer.      *)
AppendLine(newlines) ==
    \E length \in 0..Growth * (pending + newlines) : Append_("line", length, FALSE)

(* A newline: the line before it is appended.                              *)
EndLine ==
    /\ reader = "reading" /\ LineEnds
    /\ IF dropping THEN Append_("omitted", Omitted, FALSE) ELSE AppendLine(1)
    /\ pending' = 0 /\ dropping' = FALSE
    /\ newline' = FALSE
    /\ UNCHANGED <<chunk, reader, stream, reads, finish>>

(* The text after it, or before the first newline of the read.             *)
TakePart ==
    LET part == Head(chunk) over == pending + part > LineLimit IN
    /\ reader = "reading" /\ chunk # <<>> /\ ~newline
    /\ chunk' = Tail(chunk) /\ newline' = TRUE
    /\ dropping' = (dropping \/ over)
    /\ pending' = IF dropping \/ over THEN 0 ELSE pending + part
    /\ UNCHANGED <<fileVars, reader, stream, reads, finish>>

(* The end of the output: the last line has no newline.                    *)
EndOutput ==
    /\ reader = "reading" /\ chunk = <<>> /\ stream # "closed"
    /\ \/ dropping /\ Append_("omitted", Omitted, FALSE)
       \/ ~dropping /\ pending > 0 /\ AppendLine(0)
       \/ ~dropping /\ pending = 0 /\ UNCHANGED fileVars
    /\ reader' = "done" /\ stream' = "closed"
    /\ UNCHANGED <<chunk, newline, pending, dropping, reads, finish>>

(* A read of the closed pipe raises: the line so far is not appended.      *)
ReadFails ==
    /\ reader = "reading" /\ chunk = <<>> /\ stream # "open"
    /\ reader' = "done" /\ stream' = "closed"
    /\ UNCHANGED <<fileVars, chunk, newline, pending, dropping, reads, finish>>

----------------------------------------------------------------------------
(* finish, in the supervisor.                                              *)

(* The reader has not ended in time: an inherited pipe is still open.      *)
Close ==
    /\ finish = "waiting" /\ reader = "reading"
    /\ stream' = IF chunk = <<>> THEN "blocked" ELSE "closed"
    /\ finish' = "closed"
    /\ UNCHANGED <<fileVars, chunk, newline, pending, dropping, reader, reads>>

(* The reader is done, or has had another second.                          *)
Summarise ==
    /\ finish = "closed" \/ (finish = "waiting" /\ reader = "done")
    /\ Append_("summary", Summary, TRUE)
    /\ finish' = "done"
    /\ UNCHANGED readerVars

LogNext == ReadChunk \/ EndLine \/ TakePart \/ EndOutput \/ ReadFails \/ Close \/ Summarise

LogSpec == LogInit /\ [][LogNext]_logVars

----------------------------------------------------------------------------

(* However much the worker wrote and whenever its reader was given up: the *)
(* file keeps to its limit, the supervisor's summary is in it whole, and   *)
(* nothing but the summary follows a mark of truncation, so that what the  *)
(* log holds before the mark has no gap.                                   *)
SummaryWhole == finish = "done" => \E i \in DOMAIN log : log[i] = [what |-> "summary", size |-> Summary]

NoGapAfterMark ==
    \A i, j \in DOMAIN log : i < j /\ log[i].what = "marker" => log[j].what = "summary"

LogKeepsSummary == size <= Limit /\ SummaryWhole /\ NoGapAfterMark

=============================================================================
