----------------------------- MODULE TaskReports -----------------------------
(***************************************************************************)
(* The report log of one task: events.jsonl with its projection files      *)
(* summary.json and projection-meta.json, and the calls append, readEvents *)
(* (with readSummary and readStages, which read the same way) and rebuild, *)
(* in processes that die at any point.  The lock writer.lock is that of    *)
(* MkdirLock, whose `at' says where a call is about the lock while `pc'    *)
(* says where it is in its operation.                                      *)
(*                                                                         *)
(* events.jsonl is kept as what scan makes of it, line after line: the     *)
(* valid events, the number of lines it drops, and how the last line ends. *)
(* A write of one line is seen whole or not at all by the living; a crash  *)
(* may cut it anywhere.                                                    *)
(***************************************************************************)
EXTENDS MkdirLock, FiniteSets

CONSTANTS
  KindOf,    \* what each call does
  KeyOf,     \* the idempotency key of an append
  Progress,  \* the appends of kind progress, all of one stage and source
  BodyOf,    \* what taskReportProgressFingerprint sees of an append
  NoEvent, NoFile

ASSUME ReportAssumption ==
  /\ KindOf \in [Call -> {"append", "read", "rebuild"}]
  /\ Progress \subseteq Call
  /\ Rules = {ReportLock}
  /\ IsFiniteSet(Proc)

Event == [seq : Nat, by : Call]
EventFile == [log : SUBSET Event, dropped : Nat, tail : {"end", "torn", "whole"},
              last : Event \cup {NoEvent}]
Scan  == [log : SUBSET Event, dropped : Nat, torn : BOOLEAN]

At == {"start", "files", "meta?", "scan", "newline", "line", "rescan", "summary", "meta",
       "leave", "done"}

VARIABLES
  file,     \* events.jsonl
  summary,  \* summary.json: the events it was made of
  meta,     \* projection-meta.json: the scan it was made of
  pc,       \* where each call is in its operation
  seen,     \* its last scan
  got,      \* summary.json as a reader found it
  event,    \* the event that an append adds or returns
  answer,   \* what a reader returns: its scan and its summary
  acked,    \* the events that callers were told of (history)
  known     \* acked as each reader began (history)

local == <<pc, seen, got, event, answer>>
vars  == <<lockVars, file, summary, meta, local, acked, known>>

EmptyScan == [log |-> {}, dropped |-> 0, torn |-> FALSE]
NoAnswer  == [scan |-> EmptyScan, summary |-> NoFile]

TypeOK ==
  /\ LockTypeOK
  /\ file \in EventFile
  /\ summary \in (SUBSET Event) \cup {NoFile}
  /\ meta \in Scan \cup {NoFile}
  /\ pc \in [Call -> At]
  /\ seen \in [Call -> Scan]
  /\ got \in [Call -> (SUBSET Event) \cup {NoFile}]
  /\ event \in [Call -> Event \cup {NoEvent}]
  /\ answer \in [Call -> [scan : Scan, summary : (SUBSET Event) \cup {NoFile}]]
  /\ acked \in SUBSET Event
  /\ known \in [Call -> SUBSET Event]

Init ==
  /\ LockInit
  /\ file = [log |-> {}, dropped |-> 0, tail |-> "end", last |-> NoEvent]
  /\ summary = NoFile /\ meta = NoFile
  /\ pc = [c \in Call |-> "start"]
  /\ seen = [c \in Call |-> EmptyScan]
  /\ got = [c \in Call |-> NoFile]
  /\ event = [c \in Call |-> NoEvent]
  /\ answer = [c \in Call |-> NoAnswer]
  /\ acked = {}
  /\ known = [c \in Call |-> {}]

-----------------------------------------------------------------------------
(* The file.                                                               *)

Seqs(L) == {e.seq : e \in L}
Keys(L) == {KeyOf[e.by] : e \in L}
Latest(L) == CHOOSE n \in {0} \cup Seqs(L) : \A e \in L : e.seq <= n

\* Bug: the lines are counted, the dropped ones too.
NextByLines(f) == Cardinality(f.log) + f.dropped + 1

NextSequence(f) == Latest(f.log) + 1

\* A scan drops a line whose sequence or key an earlier line has.
Clashes(L, e) == e.seq \in Seqs(L) \/ KeyOf[e.by] \in Keys(L)

\* The file f with the line of e written to its end, where the write ends in a
\* newline ("end"), just before it ("whole") or earlier ("torn").  What is
\* written to a line without newline makes one line with it that does not parse.
Written(f, e, how) ==
  IF f.tail # "end"
    THEN [log |-> f.log \ {f.last}, dropped |-> IF f.last = NoEvent THEN f.dropped ELSE f.dropped + 1,
          tail |-> IF how = "end" THEN "end" ELSE "torn", last |-> NoEvent]
  ELSE IF how = "torn" \/ Clashes(f.log, e)
    THEN [f EXCEPT !.dropped = @ + 1, !.tail = how]
    ELSE [f EXCEPT !.log = @ \cup {e}, !.tail = how, !.last = IF how = "whole" THEN e ELSE NoEvent]

WithNewline(f) == [f EXCEPT !.tail = "end", !.last = NoEvent]

Scanned(f) == [log |-> f.log, dropped |-> f.dropped, torn |-> f.tail # "end"]

\* Bug: a projection is current when its two files agree.
MatchesItself(s, m, scan) == s # NoFile /\ m # NoFile /\ s = m.log

\* projectionMatchesScan: of the summary it compares the latest sequence and
\* the number of events.
Matches(s, m, scan) ==
  /\ s # NoFile /\ m # NoFile
  /\ Latest(s) = Latest(scan.log) /\ Cardinality(s) = Cardinality(scan.log)
  /\ m = scan

-----------------------------------------------------------------------------
(* The operations.                                                         *)

Goto(c, from, to) == pc[c] = from /\ pc' = [pc EXCEPT ![c] = to]
\* A step of the operation that runs under the lock.
Works(c, from, to) == at[c] = "in" /\ Alive(c) /\ Goto(c, from, to) /\ UNCHANGED lockVars

Begin(c) ==
  /\ KindOf[c] # "read"
  /\ Enter(c) /\ Goto(c, "start", "scan")
  /\ UNCHANGED <<file, summary, meta, seen, got, event, answer, acked, known>>

\* ensureProjection looks without the lock first: a scan, summary.json, meta.
BeginRead(c) ==
  /\ KindOf[c] = "read" /\ Alive(c)
  /\ Goto(c, "start", "files")
  /\ seen' = [seen EXCEPT ![c] = Scanned(file)]
  /\ known' = [known EXCEPT ![c] = acked]
  /\ UNCHANGED <<lockVars, file, summary, meta, got, event, answer, acked>>

ReadSummary(c) ==
  /\ Alive(c) /\ Goto(c, "files", "meta?")
  /\ got' = [got EXCEPT ![c] = summary]
  /\ UNCHANGED <<lockVars, file, summary, meta, seen, event, answer, acked, known>>

ReadMeta(c) ==
  /\ UNCHANGED <<file, summary, meta, seen, got, event, acked, known>>
  /\ \/ /\ Matches(got[c], meta, seen[c])
        /\ Alive(c) /\ Goto(c, "meta?", "done")
        /\ answer' = [answer EXCEPT ![c] = [scan |-> seen[c], summary |-> got[c]]]
        /\ UNCHANGED lockVars
     \/ /\ ~Matches(got[c], meta, seen[c])
        /\ Enter(c) /\ Goto(c, "meta?", "scan")
        /\ UNCHANGED answer

\* Bug: only the latest event is asked for the key.
RepeatedLast(c, L) == {e \in L : KeyOf[e.by] = KeyOf[c] /\ e.seq = Latest(L)}

\* The event that append returns instead of adding one: that of its key, or the
\* latest progress when it says the same again.
Repeated(c, L) ==
  {e \in L : KeyOf[e.by] = KeyOf[c]}
  \cup {e \in L : /\ {c, e.by} \subseteq Progress /\ BodyOf[e.by] = BodyOf[c]
                  /\ KeyOf[c] \notin Keys(L)
                  /\ \A d \in L : d.by \in Progress => d.seq <= e.seq}

LookUp(c) ==
  /\ seen' = [seen EXCEPT ![c] = Scanned(file)]
  /\ \/ /\ KindOf[c] # "append"
        /\ Works(c, "scan", "summary")
        /\ UNCHANGED event
     \/ /\ KindOf[c] = "append"
        /\ \E e \in Repeated(c, file.log) : event' = [event EXCEPT ![c] = e]
        /\ Works(c, "scan", "summary")
     \/ /\ KindOf[c] = "append" /\ Repeated(c, file.log) = {}
        /\ event' = [event EXCEPT ![c] = [seq |-> NextSequence(file), by |-> c]]
        /\ Works(c, "scan", "newline")
  /\ UNCHANGED <<file, summary, meta, got, answer, acked, known>>

\* Bug: the line goes to the end of the file, whatever is there.
EndLineNever(c) ==
  /\ Works(c, "newline", "line")
  /\ UNCHANGED <<file, summary, meta, seen, got, event, answer, acked, known>>

\* appendLine: first a newline for the last line, if it has none.
EndLine(c) ==
  /\ Works(c, "newline", "line")
  /\ file' = WithNewline(file)
  /\ UNCHANGED <<summary, meta, seen, got, event, answer, acked, known>>

WriteLine(c) ==
  /\ Works(c, "line", "rescan")
  /\ file' = Written(file, event[c], "end")
  /\ UNCHANGED <<summary, meta, seen, got, event, answer, acked, known>>

Rescan(c) ==
  /\ Works(c, "rescan", "summary")
  /\ seen' = [seen EXCEPT ![c] = Scanned(file)]
  /\ UNCHANGED <<file, summary, meta, got, event, answer, acked, known>>

WriteSummary(c) ==
  /\ Works(c, "summary", "meta")
  /\ summary' = seen[c].log
  /\ UNCHANGED <<file, meta, seen, got, event, answer, acked, known>>

\* Bug: the state of the tail is not handed to the projection.
WriteMetaTailless(c) ==
  /\ Works(c, "meta", "leave")
  /\ meta' = [log |-> seen[c].log, dropped |-> seen[c].dropped]
  /\ UNCHANGED <<file, summary, seen, got, event, answer, acked, known>>

WriteMeta(c) ==
  /\ Works(c, "meta", "leave")
  /\ meta' = seen[c]
  /\ UNCHANGED <<file, summary, seen, got, event, answer, acked, known>>

\* The lock is given back, or found to be somebody else's, and the call returns.
Return(c) ==
  /\ (Leave(c) /\ at'[c] = "left") \/ Remove(c)
  /\ Goto(c, "leave", "done")
  /\ acked' = IF KindOf[c] = "append" THEN acked \cup {event[c]} ELSE acked
  /\ answer' = IF KindOf[c] = "read"
                 THEN [answer EXCEPT ![c] = [scan |-> seen[c], summary |-> seen[c].log]] ELSE answer
  /\ UNCHANGED <<file, summary, meta, seen, got, event, known>>

\* What happens about the lock and leaves the rest alone.
AboutLock ==
  /\ \/ Age
     \/ \E c \in Call : Acquire(c) \/ (pc[c] = "leave" /\ Leave(c) /\ at'[c] = "remove")
  /\ UNCHANGED <<file, summary, meta, local, acked, known>>

\* A process dies, and the line it was writing may be cut or left whole.
Die(p) ==
  /\ Crash(p)
  /\ \/ UNCHANGED file
     \/ \E c \in Call, how \in {"torn", "whole"} :
          /\ ProcOf[c] = p /\ at[c] = "in" /\ pc[c] = "line"
          /\ file' = Written(file, event[c], how)
  /\ UNCHANGED <<summary, meta, local, acked, known>>

CallStep(c) ==
  \/ Begin(c) \/ BeginRead(c) \/ ReadSummary(c) \/ ReadMeta(c)
  \/ LookUp(c) \/ EndLine(c) \/ WriteLine(c) \/ Rescan(c)
  \/ WriteSummary(c) \/ WriteMeta(c) \/ Return(c)

Next == (\E c \in Call : CallStep(c)) \/ AboutLock \/ \E p \in Proc : Die(p)

Spec == Init /\ [][Next]_vars

-----------------------------------------------------------------------------
Intact == stolen = {}

\* The log is the one of EventLog as long as no writer was robbed of its lock,
\* whatever crashes cut lines short: no event is lost or takes the number or
\* the key of another, and who was told of an event finds it.
Log == INSTANCE EventLog WITH Writer <- Call, log <- file.log, intact <- Intact
ImplementsLog == Log!Spec

\* Readers page through the log by sequence number: the numbers have no gap, as long
\* as no writer has lost its lock.
SequenceGapless == Intact => Seqs(file.log) = 1..Latest(file.log)

\* No complete line is wasted: a scan drops no more lines than there were
\* processes that died, each in one write, as long as no writer has lost its lock.
NoLineWasted == Intact => file.dropped <= Cardinality(Proc \ up)

\* What a reader returns has every event that was acknowledged before it began,
\* and its summary, which may come from a file, is that of its events, as long as no
\* writer has lost its lock.
AnswerCurrent ==
  \A c \in Call : Intact /\ KindOf[c] = "read" /\ pc[c] = "done" =>
    known[c] \subseteq answer[c].scan.log /\ answer[c].summary = answer[c].scan.log
=============================================================================
