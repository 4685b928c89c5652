------------------------------ MODULE UsageRun ------------------------------
(***************************************************************************)
(* One mm push as its user hears of it.  An attended push first sweeps the *)
(* host usage readers, warms those that ran out of time, and appends one   *)
(* row to today's event file; an automatic one does so in its events tail. *)
(* Then it publishes, looks whether the row is in what was accepted, and   *)
(* leaves the evidence: the capture record, the run record or breadcrumb,  *)
(* and one closing line.  It can be interrupted, killed or fail anywhere,  *)
(* and the event file can change under it.                                 *)
(***************************************************************************)
EXTENDS Integers, Sequences, FiniteSets, SequencesExt

CONSTANTS URReaders,   \* consented readers in sweep order
          URWarmable,  \* WARMABLE_HOST_READERS
          URRuns,      \* bound: pushes
          URTouches,   \* bound: changes by the user
          URFaults     \* bound: failures of a run

ASSUME URAssumption == URRuns \in Nat

VARIABLES urDay,       \* the event file: rows (by the run that captured them), other bytes
          urContent,   \* version of the user's files
          urSelected,  \* mm-events selects the event file
          urStored,    \* the accepted manifest: content, and the event file as published
          urRecord,    \* last-attended-capture.json
          urRuns,      \* the push entry of last-attended-runs.json, and the breadcrumb
          urTold,      \* the closing line of the last attended push
          urRun, urCount, urTouches, urFaults

urFiles == <<urDay, urContent, urSelected>>
urEvidence == <<urRecord, urRuns, urTold>>
urVars == <<urFiles, urStored, urEvidence, urRun, urCount, urTouches, urFaults>>

URNames == ToSet(URReaders)
Answers == {"complete", "absent", "unavailable", "deadline"}
NoDay == [there |-> FALSE, rows |-> {}, mark |-> 0]
-----------------------------------------------------------------------------
\* _capture_host_usage over names, each answering as given; too late before the
\* first, no reader is asked.  sum counts how often a reader's totals were added.
NoSum == [r \in URNames |-> 0]
SweepOf(names, answer, late) ==
  IF late /\ names # {}
  THEN [row |-> FALSE, sum |-> NoSum, sources |-> {}, dropped |-> {}, invoked |-> FALSE]
  ELSE LET whole == {r \in names : answer[r] = "complete"}
           dropped == {r \in names : answer[r] \in {"unavailable", "deadline"}}
       IN  [row |-> whole # {} \/ dropped = {},
            sum |-> [r \in URNames |-> IF r \in whole THEN 1 ELSE 0],
            sources |-> whole, dropped |-> {<<r, answer[r]>> : r \in dropped}, invoked |-> TRUE]

\* _merge_warm_retry_capture: the retry of r replaces what the sweep said of r.
MergeRetry(c, retry, r) ==
  LET sources == c.sources \cup retry.sources
      kept == {d \in c.dropped : d[1] # r \/ ~retry.invoked}
  IN  [row |-> c.row \/ retry.row, sum |-> [q \in URNames |-> c.sum[q] + retry.sum[q]],
       sources |-> sources,
       dropped |-> {d \in kept \cup retry.dropped : d[1] \notin sources},
       invoked |-> TRUE]

-----------------------------------------------------------------------------
NoAnswers == [r \in {} |-> ""]
NoCapture == SweepOf({}, NoAnswers, FALSE)
URIdle == [pc |-> "idle"]
NewRun(kind) ==
  [pc |-> IF kind = "attended" THEN "capture" ELSE "scan", kind |-> kind, selected |-> urSelected,
   capture |-> NoCapture, said |-> NoAnswers, due |-> {},   \* readers to retry
   outcome |-> "none", row |-> FALSE,          \* the attempt: kind of its outcome, appended
   scan |-> [content |-> 0, day |-> NoDay], changed |-> FALSE,
   put |-> FALSE, accepted |-> FALSE, result |-> "none", published |-> FALSE,
   core |-> FALSE, error |-> "none", failures |-> 0, quiet |-> TRUE]

NoEvidence == [run |-> 0, outcome |-> "none", accepted |-> FALSE]

URInit ==
  /\ urDay = NoDay /\ urContent = 1 /\ urSelected = TRUE
  /\ urStored = [content |-> 1, day |-> NoDay]
  /\ urRecord = [class |-> "missing", run |-> 0] /\ urRuns = [attended |-> NoEvidence, auto |-> "none"]
  /\ urTold = [run |-> 0, failed |-> FALSE, effects |-> "none"]
  /\ urRun = URIdle /\ urCount = 0 /\ urTouches = 0 /\ urFaults = 0

Holds == UNCHANGED <<urFiles, urStored, urEvidence, urCount, urTouches, urFaults>>
Fails == urFaults < URFaults /\ urFaults' = urFaults + 1

StartRun(kind) ==
  /\ urRun.pc = "idle" /\ urCount < URRuns
  /\ urCount' = urCount + 1 /\ urRun' = NewRun(kind)
  /\ UNCHANGED <<urFiles, urStored, urEvidence, urTouches, urFaults>>

\* _capture_attended_usage.
BeginCapture ==
  /\ urRun.pc = "capture"
  /\ \/ urRun' = [urRun EXCEPT !.pc = "sweep", !.outcome = "begun"]
     \/ urRun' = [urRun EXCEPT !.pc = "scan", !.outcome = "prerequisites"]
  /\ Holds

\* _capture_host_snapshot: a sweep that came too late declares every reader.
Declared(answer, late) ==
  LET c == SweepOf(URNames, answer, late)
  IN  IF c.invoked THEN c ELSE [c EXCEPT !.dropped = {<<r, "deadline">> : r \in URNames}]
Said(answer, late) == [r \in URNames |-> IF late THEN "deadline" ELSE answer[r]]
Late(c) == {r \in URWarmable : <<r, "deadline">> \in c.dropped}

SweepReaders ==
  /\ urRun.pc = "sweep"
  /\ \E answer \in [URNames -> Answers], late \in BOOLEAN :
       urRun' = [urRun EXCEPT !.pc = "warm", !.capture = Declared(answer, late),
                              !.said = Said(answer, late), !.due = Late(Declared(answer, late))]
  /\ Holds

\* The user waits: each reader that ran out of time is asked once more, in sweep
\* order; a retry that is itself too late asks nobody.
Retry(r, answer, over) == SweepOf({r}, [q \in {r} |-> answer], over)
Asked(r, answer, over) ==
  [urRun EXCEPT !.capture = MergeRetry(@, Retry(r, answer, over), r),
                !.said = IF over THEN @ ELSE [@ EXCEPT ![r] = answer], !.due = @ \ {r}]
WarmReader ==
  /\ urRun.pc = "warm"
  /\ \E k \in DOMAIN URReaders, answer \in Answers, over \in BOOLEAN :
       /\ URReaders[k] \in urRun.due /\ \A j \in 1..(k - 1) : URReaders[j] \notin urRun.due
       /\ urRun' = Asked(URReaders[k], answer, over)
  /\ Holds

CaptureDone ==
  /\ urRun.pc = "warm" /\ urRun.due = {}
  /\ urRun' = IF urRun.capture.row THEN [urRun EXCEPT !.pc = "append"]
              ELSE [urRun EXCEPT !.pc = "scan", !.outcome = "no-row"]
  /\ Holds
CaptureBreaks ==
  /\ urRun.pc \in {"sweep", "warm"} /\ Fails
  /\ urRun' = [urRun EXCEPT !.pc = "scan", !.outcome = "capture-failed",
                            !.capture = NoCapture, !.said = NoAnswers]
  /\ UNCHANGED <<urFiles, urStored, urEvidence, urCount, urTouches>>

\* write_push_event: onto the event file, which it creates.
Appended(day) == [there |-> TRUE, rows |-> day.rows \cup {urCount}, mark |-> day.mark]
AppendRow ==
  /\ urRun.pc = "append"
  /\ \/ /\ urDay' = Appended(urDay) /\ UNCHANGED urFaults
        /\ urRun' = [urRun EXCEPT !.pc = "scan", !.row = TRUE]
     \/ /\ Fails /\ UNCHANGED urDay
        /\ \E why \in {"append-failed", "max-file-size"} : urRun' = [urRun EXCEPT !.pc = "scan", !.outcome = why]
  /\ UNCHANGED <<urContent, urSelected, urStored, urEvidence, urCount, urTouches>>
-----------------------------------------------------------------------------
\* _push_core.  The event file as this push selects it.
Chosen(day) == IF urRun.selected THEN day ELSE NoDay
Advertised == IF urRun.selected THEN urStored.day ELSE NoDay

ScanFiles ==
  /\ urRun.pc = "scan"
  /\ urRun' = [urRun EXCEPT !.pc = "gate", !.changed = urContent # urStored.content,
                            !.scan = [content |-> urContent, day |-> Chosen(urDay)]]
  /\ Holds

\* Nothing to publish ends the push; a row already there is still looked for.
Gate ==
  /\ urRun.pc = "gate"
  /\ IF ~urRun.changed /\ urRun.scan.day = Advertised
     THEN urRun' = [urRun EXCEPT !.pc = IF urRun.row THEN "verdict" ELSE "finish",
                                 !.result = "nothing", !.core = ~urRun.row]
     ELSE urRun' = [urRun EXCEPT !.pc = IF urRun.row /\ ~urRun.changed THEN "rescan" ELSE "tail"]
  /\ Holds

\* _run_events_tail: an automatic push sweeps here, without a warm; what fails here
\* only degrades the push.
EventsTail ==
  /\ urRun.pc = "tail"
  /\ \/ /\ urRun.kind = "auto" /\ urRun.said = NoAnswers /\ UNCHANGED urDay
        /\ \E answer \in [URNames -> Answers], late \in BOOLEAN :
             urRun' = [urRun EXCEPT !.capture = Declared(answer, late), !.said = Said(answer, late)]
     \/ /\ urRun.kind = "attended" \/ urRun.said # NoAnswers
        /\ urDay' = IF urRun.kind = "auto" /\ urRun.capture.row
                    THEN [Appended(urDay) EXCEPT !.mark = @ + 1]
                    ELSE [urDay EXCEPT !.there = TRUE, !.mark = @ + 1]
        /\ urRun' = [urRun EXCEPT !.pc = "rescan"]
     \/ UNCHANGED urDay /\ urRun' = [urRun EXCEPT !.pc = "rescan", !.failures = @ + 1]
  /\ UNCHANGED <<urContent, urSelected, urStored, urEvidence, urCount, urTouches, urFaults>>

\* The event file is walked again, and read again where the upload finds it changed;
\* what does not hold still keeps its published entry.
RescanEvents ==
  /\ urRun.pc = "rescan" /\ urRun' = [urRun EXCEPT !.pc = "upload", !.scan.day = Chosen(urDay)]
  /\ Holds
UploadFiles ==
  /\ urRun.pc = "upload"
  /\ \E day \in (IF Chosen(urDay) = urRun.scan.day THEN {urRun.scan.day}
                 ELSE {Chosen(urDay), Advertised}) :
       urRun' = [urRun EXCEPT !.pc = "put", !.scan.day = day]
  /\ Holds

\* put replaces the manifest; it can fail after the rename.
PutAccepted ==
  /\ urRun.pc = "put" /\ urStored' = urRun.scan
  /\ \/ urRun' = [urRun EXCEPT !.pc = "accept", !.put = TRUE] /\ UNCHANGED urFaults
     \/ Fails /\ urRun' = [urRun EXCEPT !.pc = "finish", !.put = TRUE, !.error = "storage-error"]
  /\ UNCHANGED <<urFiles, urEvidence, urCount, urTouches>>
Accept ==
  /\ urRun.pc = "accept"
  /\ urRun' = [urRun EXCEPT !.pc = IF urRun.row THEN "verdict" ELSE "after",
                            !.accepted = TRUE, !.result = "published"]
  /\ Holds

\* Mutant: a row found in the local event file counts as published.
FoundIsEnough(day) == IF urCount \in urDay.rows THEN "published" ELSE "not-published"
\* _usage_publication_verdict, against the accepted manifest.
Verdict(day) ==
  IF ~urRun.selected \/ ~day.there THEN "not-published"
  ELSE IF ~urDay.there \/ urDay # day THEN "unverified"
  ELSE IF urCount \in urDay.rows THEN "published" ELSE "not-published"
ReportPublication ==
  /\ urRun.pc = "verdict"
  /\ LET day == IF urRun.put THEN urRun.scan.day ELSE Advertised
         next == IF urRun.put THEN "after" ELSE "finish"
     IN  \/ /\ urRun' = [urRun EXCEPT !.pc = next, !.outcome = Verdict(day), !.core = ~urRun.put,
                                      !.published = Verdict(day) = "published"]
            /\ Holds
         \/ /\ Fails
            /\ urRun' = [urRun EXCEPT !.pc = next, !.outcome = "unverified", !.core = ~urRun.put]
            /\ UNCHANGED <<urFiles, urStored, urEvidence, urCount, urTouches>>

\* The sidecar, last_seen and the conflict copies, which fail an automatic push and
\* degrade an attended one; then gc, where content changed.  A gc that refuses fails
\* a push only where no usage was published.
Maintain ==
  /\ urRun.pc = "after"
  /\ LET next == IF urRun.kind = "attended" /\ urRun.changed THEN "gc" ELSE "finish"
     IN  \/ urRun' = [urRun EXCEPT !.pc = next, !.core = TRUE] /\ Holds
         \/ /\ Fails
            /\ \E raises \in BOOLEAN :
                 /\ raises => urRun.kind = "auto"
                 /\ urRun' = [urRun EXCEPT !.pc = next, !.core = ~raises, !.failures = @ + 1,
                                           !.error = IF raises THEN "storage-error" ELSE "none"]
            /\ UNCHANGED <<urFiles, urStored, urEvidence, urCount, urTouches>>
CollectOrphans ==
  /\ urRun.pc = "gc"
  /\ \/ urRun' = [urRun EXCEPT !.pc = "finish"] /\ Holds
     \/ /\ Fails
        /\ \E refuses \in BOOLEAN :
             urRun' = [urRun EXCEPT !.pc = "finish", !.failures = @ + 1,
                         !.error = IF refuses /\ ~urRun.published THEN "refused" ELSE "none"]
        /\ UNCHANGED <<urFiles, urStored, urEvidence, urCount, urTouches>>

Working == {"scan", "gate", "rescan", "upload", "put"}
StopRun ==    \* an error of the push itself
  /\ urRun.pc \in Working /\ Fails
  /\ \E why \in {"snapshot-refused", "storage-error"} :
       urRun' = [urRun EXCEPT !.pc = "finish", !.error = why]
  /\ UNCHANGED <<urFiles, urStored, urEvidence, urCount, urTouches>>
InterruptRun ==   \* Ctrl-C before the evidence is written
  /\ urRun.pc \notin {"idle", "finish", "record"} /\ urRun.kind = "attended" /\ Fails
  /\ urRun' = [urRun EXCEPT !.pc = "finish", !.error = "interrupted"]
  /\ UNCHANGED <<urFiles, urStored, urEvidence, urCount, urTouches>>
RunDies ==
  /\ urRun.pc # "idle" /\ Fails /\ urRun' = URIdle
  /\ UNCHANGED <<urFiles, urStored, urEvidence, urCount, urTouches>>

\* The lock is another command's.
LockHeld(kind) ==
  /\ urRun.pc = "idle" /\ urCount < URRuns /\ Fails /\ urCount' = urCount + 1
  /\ IF kind = "attended"
     THEN /\ urRuns' = [urRuns EXCEPT !.attended = [run |-> urCount', outcome |-> "skipped", accepted |-> FALSE]]
          /\ urTold' = [run |-> urCount', failed |-> TRUE, effects |-> "nothing published"]
     ELSE urRuns' = [urRuns EXCEPT !.auto = "lock-held"] /\ UNCHANGED urTold
  /\ UNCHANGED <<urFiles, urStored, urRecord, urRun, urTouches>>
-----------------------------------------------------------------------------
\* Attempt.stopped, where the core did not finish.
Stopped ==
  IF urRun.core \/ urRun.outcome \in {"none", "published", "not-published", "unverified"} THEN urRun.outcome
  ELSE IF ~urRun.accepted THEN "push-failed"
  ELSE IF urRun.row THEN "unverified" ELSE urRun.outcome

\* The capture record; its write can fail, or be interrupted, before the rename or after.
WriteAttempt ==
  /\ urRun.pc = "finish" /\ urRun.kind = "attended"
  /\ LET record == [class |-> IF Stopped = "begun" THEN "capture-failed" ELSE Stopped, run |-> urCount]
     IN  \/ /\ urRecord' = (IF Stopped = "none" THEN urRecord ELSE record)
            /\ urRun' = [urRun EXCEPT !.pc = "record", !.outcome = Stopped] /\ UNCHANGED urFaults
         \/ /\ Stopped # "none" /\ Fails /\ urRecord' \in {urRecord, record}
            /\ \E error \in {urRun.error, "interrupted"} :
                 urRun' = [urRun EXCEPT !.pc = "record", !.outcome = Stopped, !.error = error]
  /\ UNCHANGED <<urFiles, urStored, urRuns, urTold, urCount, urTouches>>

\* _attended_sync_run and _sync_outcome: the run record, best effort, and the line.
Effects ==
  IF urRun.result = "published" THEN "published"
  ELSE IF urRun.error = "none" THEN "no changes"
  ELSE IF urRun.error = "snapshot-refused" THEN "nothing published"
  ELSE "unconfirmed"
WriteRunRecord ==
  /\ urRun.pc = "record"
  /\ \/ /\ urRuns' = [urRuns EXCEPT !.attended =
              [run |-> urCount, accepted |-> urRun.accepted,
               outcome |-> IF urRun.error # "none" THEN "failed"
                           ELSE IF \/ urRun.failures > 0
                                   \/ urRun.outcome \notin {"none", "published", "no-row"}
                                   \/ urRun.capture.dropped # {}
                                THEN "degraded" ELSE "success"]]
        /\ UNCHANGED urFaults
     \/ Fails /\ UNCHANGED urRuns
  /\ urTold' = [run |-> urCount, failed |-> urRun.error # "none", effects |-> Effects]
  /\ urRun' = URIdle
  /\ UNCHANGED <<urFiles, urStored, urRecord, urCount, urTouches>>

\* autopush: the breadcrumb, whose write may fail unseen.
WriteBreadcrumb ==
  /\ urRun.pc = "finish" /\ urRun.kind = "auto"
  /\ \/ /\ urRuns' = [urRuns EXCEPT !.auto =
              IF urRun.error # "none" THEN "failed"
              ELSE IF urRun.failures > 0 \/ urRun.capture.dropped # {} THEN "degraded" ELSE "success"]
        /\ UNCHANGED urFaults
     \/ Fails /\ UNCHANGED urRuns
  /\ urRun' = URIdle /\ UNCHANGED <<urFiles, urStored, urRecord, urTold, urCount, urTouches>>

\* The user: content, the event file (more in it, its rows archived, gone), the selection.
Touch ==
  /\ urTouches < URTouches /\ urTouches' = urTouches + 1
  /\ UNCHANGED <<urStored, urEvidence, urCount, urFaults>>
EditContent ==
  urContent' = urContent + 1 /\ Touch /\ UNCHANGED <<urDay, urSelected, urRun>>
TouchDay ==
  /\ urDay' \in {[urDay EXCEPT !.mark = @ + 1], [urDay EXCEPT !.rows = {}, !.mark = @ + 1], NoDay}
  /\ urDay.there /\ Touch /\ UNCHANGED <<urContent, urSelected>>
  /\ urRun' = IF urRun.pc = "idle" THEN urRun ELSE [urRun EXCEPT !.quiet = FALSE]
ToggleEvents == urSelected' = ~urSelected /\ Touch /\ UNCHANGED <<urDay, urContent, urRun>>

URNext ==
  \/ \E kind \in {"attended", "auto"} : StartRun(kind) \/ LockHeld(kind)
  \/ BeginCapture \/ SweepReaders \/ WarmReader \/ CaptureDone \/ CaptureBreaks \/ AppendRow
  \/ ScanFiles \/ Gate \/ EventsTail \/ RescanEvents \/ UploadFiles \/ PutAccepted \/ Accept
  \/ ReportPublication \/ Maintain \/ CollectOrphans
  \/ StopRun \/ InterruptRun \/ RunDies
  \/ WriteAttempt \/ WriteRunRecord \/ WriteBreadcrumb
  \/ EditContent \/ TouchDay \/ ToggleEvents

URSpec == URInit /\ [][URNext]_urVars
-----------------------------------------------------------------------------
URTypeOK ==
  /\ urDay.rows \subseteq 1..URRuns /\ urStored.day.rows \subseteq 1..URRuns
  /\ urCount \in 0..URRuns /\ urRecord.run <= urCount /\ urTold.run <= urCount

\* What a sweep and its retries come to: each reader is in the row once, is declared
\* dropped with what it said last, or is known to have nothing; and there is no row
\* where no reader finished, unless one that was retried turned out to have nothing.
SweepIsHonest ==
  (urRun.pc # "idle" /\ urRun.said # NoAnswers) =>
    LET c == urRun.capture
        whole == {r \in URNames : urRun.said[r] = "complete"}
        lost == {r \in URNames : urRun.said[r] \in {"unavailable", "deadline"}}
    IN  /\ c.sources = whole /\ c.dropped = {<<r, urRun.said[r]>> : r \in lost}
        /\ \A r \in URNames : c.sum[r] = IF r \in whole THEN 1 ELSE 0
        /\ (whole # {} \/ lost = {}) => c.row
        /\ c.row => \/ whole # {} \/ lost = {}
                    \/ urRun.kind = "attended" /\ \E r \in URWarmable : urRun.said[r] = "absent"

\* The capture record says a row is published only where the accepted manifest has it,
\* and that it is not only where it has not.
RecordIsTrue ==
  urRecord' # urRecord =>
    LET there == urRecord'.run \in urStored.day.rows
    IN  CASE urRecord'.class = "published" -> there
          [] urRecord'.class = "push-failed" -> ~urRun.accepted
          [] urRecord'.class = "unverified" -> TRUE
          [] OTHER -> ~there

\* Neither the closing line nor the run record denies a manifest that was put, or
\* claims one that was not; and a push that ends well, with the event file left alone
\* while it ran, has published that file as it is.
LineIsTrue ==
  /\ urTold' # urTold =>
       /\ urTold'.effects = "published" => urRun.put
       /\ (urRun.pc # "idle" /\ urTold'.effects \in {"nothing published", "no changes"}) => ~urRun.put
  /\ (urRuns'.attended # urRuns.attended /\ urRuns'.attended.accepted) => urRun.put
  /\ (urTold' # urTold /\ ~urTold'.failed /\ urRun.quiet /\ urRun.selected /\ urRun.put)
       => urStored.day = urDay

ReportsAreTrue == [](URTypeOK /\ SweepIsHonest) /\ [][RecordIsTrue /\ LineIsTrue]_urVars
=============================================================================
