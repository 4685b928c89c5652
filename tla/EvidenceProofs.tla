--------------------------- MODULE EvidenceProofs ---------------------------
(***************************************************************************)
(* What is proved of what a push says of itself (UsageRun) and of the rows *)
(* that commands record (HistoryDb), for any number of readers, pushes,    *)
(* commands, failures and changes by the user.                             *)
(***************************************************************************)
EXTENDS Evidence, SequenceTheorems, FiniteSetTheorems, TLAPS

(* The runs of mm push, and what of one run holds while it goes on.          *)
Days == {NoDay} \cup [there : {TRUE}, rows : SUBSET Nat, mark : Nat]
Captures == [row : BOOLEAN, sum : [URNames -> Nat], sources : SUBSET URNames,
             dropped : SUBSET (URNames \X Answers), invoked : BOOLEAN]
BeforePut == {"capture", "sweep", "warm", "append", "scan", "gate", "tail", "rescan", "upload", "put"}
RunSteps == BeforePut \cup {"accept", "verdict", "after", "gc", "finish", "record"}
Verdicts == {"published", "not-published", "unverified"}
NoRowKept == {"none", "begun", "prerequisites", "no-row", "capture-failed", "append-failed", "max-file-size"}
PushRuns == [pc : RunSteps, kind : {"attended", "auto"}, selected : BOOLEAN,
             capture : Captures, said : [URNames -> Answers] \cup {NoAnswers},
             due : SUBSET URNames, outcome : Verdicts \cup NoRowKept \cup {"push-failed"},
             row : BOOLEAN, scan : [content : Nat, day : Days], changed : BOOLEAN,
             put : BOOLEAN, accepted : BOOLEAN, result : {"none", "nothing", "published"},
             published : BOOLEAN, core : BOOLEAN,
             error : {"none", "interrupted", "storage-error", "snapshot-refused", "refused"},
             failures : Nat, quiet : BOOLEAN]

URTypes ==
    /\ urDay \in Days /\ urStored \in [content : Nat, day : Days] /\ urContent \in Nat
    /\ urSelected \in BOOLEAN
    /\ urRun = URIdle \/ urRun \in PushRuns
    /\ urCount \in Nat /\ urCount \in 0 .. URRuns
    /\ urDay.rows \subseteq 1 .. urCount /\ urStored.day.rows \subseteq 1 .. urCount
    /\ urRecord.run \in 0 .. urCount /\ urTold.run \in 0 .. urCount

UnderWay == urRun.pc # "idle"

(* Until the put, no manifest has this run's row; then the manifest is what  *)
(* the run scanned.                                                         *)
PutInv ==
    UnderWay =>
      /\ urRun.pc \in BeforePut => ~urRun.put
      /\ urRun.pc = "accept" => urRun.put
      /\ IF urRun.put THEN urStored = urRun.scan ELSE urCount \notin urStored.day.rows
      /\ ~urRun.selected => urRun.scan.day = NoDay
      /\ urRun.scan.day.rows \subseteq 1 .. urCount

(* Where an attended run appended no row there is none of it anywhere.       *)
RowInv ==
    (UnderWay /\ urRun.kind = "attended" /\ ~urRun.row) =>
      urCount \notin urDay.rows /\ urCount \notin urRun.scan.day.rows

(* A verdict is passed on every row, and it is right; the core ends after it. *)
VerdictInv ==
    UnderWay =>
      /\ urRun.pc \in BeforePut => ~urRun.core /\ urRun.outcome \in NoRowKept
      /\ urRun.pc \in {"accept", "verdict"} => ~urRun.core /\ urRun.outcome \in NoRowKept
      /\ urRun.pc = "verdict" => urRun.row
      /\ urRun.pc # "record" => urRun.outcome \in Verdicts \cup NoRowKept
      /\ (urRun.row /\ (urRun.core \/ urRun.pc \in {"after", "gc"})) => urRun.outcome \in Verdicts
      /\ urRun.outcome = "published" => urCount \in urStored.day.rows
      /\ urRun.outcome = "not-published" => urCount \notin urStored.day.rows

(* What the run knows of its put, and what the closing line is made of.      *)
LineInv ==
    UnderWay =>
      /\ urRun.accepted \/ urRun.result = "published" => urRun.put
      /\ (urRun.put /\ urRun.error = "none" /\ urRun.pc # "accept") => urRun.result = "published"
      /\ urRun.error = "snapshot-refused" => ~urRun.put
      /\ urRun.pc \in BeforePut => urRun.error = "none"
      /\ urRun.pc \in {"after", "gc"} => urRun.put
      /\ (urRun.put /\ urRun.pc \in {"verdict", "after", "gc"}) => urRun.result = "published"

(* An event file left alone is what the run put, or is about to put.         *)
FreshInv ==
    (UnderWay /\ urRun.quiet /\ urRun.selected /\ (urRun.put \/ urRun.pc \in {"upload", "put"}))
      => urRun.scan.day = urDay

StartedInv == UnderWay => urCount >= 1

(* What is asked again had run out of time.                                  *)
WarmInv ==
    /\ urRun.pc \in {"capture", "sweep", "warm"} => urRun.kind = "attended"
    /\ urRun.pc = "warm" => /\ urRun.said \in [URNames -> Answers]
                            /\ \A r \in urRun.due : r \in URWarmable /\ urRun.said[r] = "deadline"

URInv == URTypes /\ StartedInv /\ WarmInv /\ PutInv /\ RowInv /\ VerdictInv /\ LineInv /\ FreshInv /\ SweepIsHonest

LEMMA UnderWayRun == ASSUME URTypes, UnderWay PROVE urRun \in PushRuns
BY DEF URTypes, UnderWay, URIdle

(* A step that leaves the files, the manifest, what the run put and what it  *)
(* heard of the readers alone.                                               *)
SamePut ==
    /\ urRun' \in PushRuns
    /\ UNCHANGED <<urDay, urStored, urContent, urSelected, urCount>>
    /\ urRun'.kind = urRun.kind /\ urRun'.selected = urRun.selected /\ urRun'.quiet = urRun.quiet
    /\ urRun'.scan = urRun.scan /\ urRun'.put = urRun.put /\ urRun'.row = urRun.row
    /\ urRun'.capture = urRun.capture /\ urRun'.said = urRun.said
    /\ urRun'.pc \in BeforePut => urRun.pc \in BeforePut
    /\ urRun'.pc = "accept" => urRun.put
    /\ urRun'.pc \in {"upload", "put"} => urRun.pc = urRun'.pc
    /\ urRun'.pc # "warm" /\ urRun'.pc # "capture" /\ (urRun'.pc = "sweep" => urRun.pc = "capture")

LEMMA SamePutKeeps ==
  ASSUME URInv, urRun \in PushRuns, SamePut, VerdictInv', LineInv',
         urRecord'.run \in 0 .. urCount, urTold'.run \in 0 .. urCount
  PROVE  URInv'
<1>1. urRun.pc # "idle" /\ urRun'.pc # "idle"
  BY DEF SamePut, PushRuns, RunSteps, BeforePut
<1>2. URTypes'
  BY DEF URInv, SamePut, URTypes
<1>3. PutInv' /\ RowInv'
  BY <1>1 DEF URInv, SamePut, PutInv, RowInv, UnderWay
<1>4. FreshInv'
  BY <1>1 DEF URInv, SamePut, FreshInv, UnderWay
<1>5. SweepIsHonest'
  BY <1>1 DEF URInv, SamePut, SweepIsHonest
<1>6. StartedInv'
  BY <1>1 DEF URInv, SamePut, StartedInv, UnderWay
<1>7. WarmInv'
  BY DEF URInv, SamePut, WarmInv
<1> QED BY <1>2, <1>3, <1>4, <1>5, <1>6, <1>7 DEF URInv

Unread == UNCHANGED <<urRecord, urTold>>
LEMMA UnreadKeeps ==
  ASSUME URInv, urRun \in PushRuns, SamePut, VerdictInv', LineInv', Unread
  PROVE  URInv'
BY SamePutKeeps DEF URInv, URTypes, Unread

LEMMA BeginCaptureStep == ASSUME URInv, BeginCapture PROVE URInv'
<1>1. urRun \in PushRuns /\ urRun.pc = "capture"
  BY UnderWayRun DEF URInv, UnderWay, BeginCapture
<1>2. ASSUME NEW pc \in {"sweep", "scan"}, NEW outcome \in {"begun", "prerequisites"},
             urRun' = [urRun EXCEPT !.pc = pc, !.outcome = outcome], Holds
      PROVE  URInv'
  <2>1. urRun' \in PushRuns
    BY <1>1, <1>2 DEF PushRuns, RunSteps, BeforePut, NoRowKept
  <2>2. SamePut /\ Unread
    BY <1>1, <1>2, <2>1 DEF SamePut, PushRuns, BeforePut, Holds, urFiles, urEvidence, Unread
  <2>3. VerdictInv' /\ LineInv'
    BY <1>1, <1>2 DEF URInv, VerdictInv, LineInv, UnderWay, PushRuns, BeforePut, NoRowKept, Verdicts, Holds
  <2> QED BY <1>1, <2>2, <2>3, UnreadKeeps
<1> QED BY <1>2 DEF BeginCapture

LEMMA CaptureDoneStep == ASSUME URInv, CaptureDone PROVE URInv'
<1>1. urRun \in PushRuns /\ urRun.pc = "warm" /\ Holds
  BY UnderWayRun DEF URInv, UnderWay, CaptureDone
<1>2. urRun' \in PushRuns
  <2>1. [urRun EXCEPT !.pc = "append"] \in PushRuns
    BY <1>1 DEF PushRuns, RunSteps, BeforePut
  <2>2. [urRun EXCEPT !.pc = "scan", !.outcome = "no-row"] \in PushRuns
    BY <1>1 DEF PushRuns, RunSteps, BeforePut, NoRowKept
  <2> QED BY <2>1, <2>2 DEF CaptureDone
<1>3. SamePut /\ Unread
  BY <1>1, <1>2 DEF CaptureDone, SamePut, PushRuns, BeforePut, Holds, urFiles, urEvidence, Unread
<1>4. VerdictInv' /\ LineInv'
  BY <1>1 DEF CaptureDone, URInv, VerdictInv, LineInv, UnderWay, PushRuns, BeforePut, NoRowKept, Verdicts, Holds
<1> QED BY <1>1, <1>3, <1>4, UnreadKeeps

LEMMA GateStep == ASSUME URInv, Gate PROVE URInv'
<1>1. urRun \in PushRuns /\ urRun.pc = "gate" /\ Holds
  BY UnderWayRun DEF URInv, UnderWay, Gate
<1>2. PICK pc \in {"verdict", "finish", "rescan", "tail"}, result \in {urRun.result, "nothing"}, core \in BOOLEAN :
         /\ urRun' = [urRun EXCEPT !.pc = pc, !.result = result, !.core = core]
         /\ pc = "verdict" => urRun.row
         /\ core => ~urRun.row /\ pc = "finish"
         /\ pc = "verdict" => ~core
  <2>1. urRun.core = FALSE /\ urRun.row \in BOOLEAN
    BY <1>1 DEF URInv, VerdictInv, UnderWay, BeforePut, PushRuns
  <2>2. urRun = [urRun EXCEPT !.result = urRun.result, !.core = FALSE]
    BY <1>1, <2>1 DEF PushRuns
  <2>3. \A pc : [urRun EXCEPT !.pc = pc] = [urRun EXCEPT !.pc = pc, !.result = urRun.result, !.core = FALSE]
    BY <1>1, <2>1 DEF PushRuns
  <2>4. CASE ~urRun.changed /\ urRun.scan.day = Advertised
    BY <2>1, <2>4 DEF Gate
  <2>5. CASE ~(~urRun.changed /\ urRun.scan.day = Advertised)
    BY <2>1, <2>3, <2>5 DEF Gate
  <2> QED BY <2>4, <2>5
<1>3. urRun' \in PushRuns
  BY <1>1, <1>2 DEF PushRuns, RunSteps, BeforePut
<1>4. SamePut /\ Unread
  BY <1>1, <1>2, <1>3 DEF SamePut, PushRuns, BeforePut, Holds, urFiles, urEvidence, Unread
<1>5. VerdictInv'
  BY <1>1, <1>2 DEF URInv, VerdictInv, UnderWay, PushRuns, BeforePut, NoRowKept, Verdicts, Holds
<1>6. LineInv'
  BY <1>1, <1>2 DEF URInv, LineInv, PutInv, UnderWay, PushRuns, BeforePut, Holds
<1> QED BY <1>1, <1>4, <1>5, <1>6, UnreadKeeps

LEMMA AcceptStep == ASSUME URInv, Accept PROVE URInv'
<1>1. urRun \in PushRuns /\ urRun.pc = "accept" /\ Holds
  BY UnderWayRun DEF URInv, UnderWay, Accept
<1>2. urRun' \in PushRuns
  BY ZenonT(60), <1>1 DEF Accept, PushRuns, RunSteps, BeforePut
<1>3. SamePut /\ Unread
  BY <1>1, <1>2 DEF Accept, URInv, SamePut, PushRuns, BeforePut, Holds, urFiles, urEvidence, Unread
<1>4. VerdictInv'
  BY <1>1 DEF Accept, URInv, VerdictInv, UnderWay, PushRuns, BeforePut, NoRowKept, Verdicts, Holds
<1>5. LineInv'
  BY <1>1 DEF Accept, URInv, LineInv, PutInv, UnderWay, PushRuns, BeforePut, Holds
<1> QED BY <1>1, <1>3, <1>4, <1>5, UnreadKeeps

(* What the verdict on a row says is so of the accepted manifest.            *)
LEMMA VerdictIsRight ==
  ASSUME URInv, urRun \in PushRuns, urRun.pc = "verdict", NEW day,
         day = IF urRun.put THEN urRun.scan.day ELSE Advertised
  PROVE  /\ Verdict(day) \in Verdicts
         /\ Verdict(day) = "published" => urCount \in urStored.day.rows
         /\ Verdict(day) = "not-published" => urCount \notin urStored.day.rows
<1>1. /\ urRun.put => urStored.day = urRun.scan.day
      /\ ~urRun.put => urCount \notin urStored.day.rows
      /\ ~urRun.selected => urRun.scan.day = NoDay
  BY DEF URInv, PutInv, UnderWay
<1>2. day.there \in BOOLEAN /\ (~day.there => day.rows = {})
  <2>1. NoDay \in Days /\ urRun.scan.day \in Days /\ urStored.day \in Days
    BY DEF URInv, URTypes, PushRuns, Days
  <2>2. \A d \in Days : d.there \in BOOLEAN /\ (~d.there => d.rows = {})
    <3> SUFFICES ASSUME NEW d \in Days PROVE d.there \in BOOLEAN /\ (~d.there => d.rows = {})
      OBVIOUS
    <3>1. CASE d = NoDay
      BY <3>1 DEF NoDay
    <3>2. CASE d \in [there : {TRUE}, rows : SUBSET Nat, mark : Nat]
      BY <3>2
    <3> QED BY <3>1, <3>2 DEF Days
  <2>3. day \in Days
    BY <2>1 DEF Advertised
  <2> QED BY <2>2, <2>3
<1>3. urRun.put \in BOOLEAN /\ urRun.selected \in BOOLEAN
  BY DEF PushRuns
<1> QED BY <1>1, <1>2, <1>3 DEF Verdict, Verdicts, Advertised, NoDay

LEMMA ReportStep == ASSUME URInv, ReportPublication PROVE URInv'
<1>1. urRun \in PushRuns /\ urRun.pc = "verdict" /\ urRun.put \in BOOLEAN
  BY UnderWayRun DEF URInv, UnderWay, ReportPublication, PushRuns
<1>2. PICK pc \in {"after", "finish"}, outcome \in Verdicts, published \in BOOLEAN, core \in BOOLEAN :
         /\ urRun' = [urRun EXCEPT !.pc = pc, !.outcome = outcome, !.core = core, !.published = published]
         /\ pc = "after" => urRun.put
         /\ outcome = "published" => urCount \in urStored.day.rows
         /\ outcome = "not-published" => urCount \notin urStored.day.rows
         /\ UNCHANGED <<urFiles, urStored, urEvidence, urCount>>
  <2> DEFINE day == IF urRun.put THEN urRun.scan.day ELSE Advertised
             next == IF urRun.put THEN "after" ELSE "finish"
  <2>1. next \in {"after", "finish"} /\ (next = "after" => urRun.put) /\ "unverified" \in Verdicts /\ urRun.published \in BOOLEAN /\ (~urRun.put) \in BOOLEAN
    BY <1>1 DEF Verdicts, PushRuns
  <2>2. /\ Verdict(day) \in Verdicts
        /\ Verdict(day) = "published" => urCount \in urStored.day.rows
        /\ Verdict(day) = "not-published" => urCount \notin urStored.day.rows
    BY <1>1, VerdictIsRight
  <2>3. [urRun EXCEPT !.pc = next, !.outcome = "unverified", !.core = ~urRun.put]
          = [urRun EXCEPT !.pc = next, !.outcome = "unverified", !.core = ~urRun.put, !.published = urRun.published]
    BY <1>1 DEF PushRuns
  <2>4. CASE urRun' = [urRun EXCEPT !.pc = next, !.outcome = Verdict(day), !.core = ~urRun.put,
                                    !.published = Verdict(day) = "published"] /\ Holds
    <3>1. (Verdict(day) = "published") \in BOOLEAN
      OBVIOUS
    <3> QED BY <2>1, <2>2, <2>4, <3>1 DEF Holds
  <2>5. CASE /\ urRun' = [urRun EXCEPT !.pc = next, !.outcome = "unverified", !.core = ~urRun.put]
             /\ UNCHANGED <<urFiles, urStored, urEvidence, urCount>>
    BY <2>1, <2>3, <2>5
  <2> QED BY <2>4, <2>5 DEF ReportPublication
<1>3. urRun' \in PushRuns
  BY ZenonT(60), <1>1, <1>2 DEF PushRuns, RunSteps
<1>4. SamePut /\ Unread
  BY <1>1, <1>2, <1>3 DEF SamePut, PushRuns, BeforePut, urFiles, urEvidence, Unread
<1>5. VerdictInv'
  BY <1>1, <1>2 DEF VerdictInv, UnderWay, PushRuns, BeforePut, Verdicts
<1>6. LineInv'
  BY <1>1, <1>2 DEF URInv, LineInv, UnderWay, PushRuns, BeforePut
<1> QED BY <1>1, <1>4, <1>5, <1>6, UnreadKeeps

(* What follows the put may fail, and fails the push or only degrades it.    *)
LEMMA AfterStep == ASSUME URInv, Maintain \/ CollectOrphans PROVE URInv'
<1>1. urRun \in PushRuns /\ urRun.pc \in {"after", "gc"}
  BY UnderWayRun DEF URInv, UnderWay, Maintain, CollectOrphans
<1>2. PICK pc \in {"gc", "finish"}, core \in BOOLEAN, failures \in Nat,
           error \in {urRun.error, "none", "storage-error", "refused"} :
         /\ urRun' = [urRun EXCEPT !.pc = pc, !.core = core, !.failures = failures, !.error = error]
         /\ UNCHANGED <<urFiles, urStored, urEvidence, urCount>>
  <2>1. urRun.core \in BOOLEAN /\ urRun.failures \in Nat /\ urRun.failures + 1 \in Nat
    BY <1>1 DEF PushRuns
  <2>2. /\ \A pc, core : [urRun EXCEPT !.pc = pc, !.core = core]
              = [urRun EXCEPT !.pc = pc, !.core = core, !.failures = urRun.failures, !.error = urRun.error]
        /\ \A pc, failures, error : [urRun EXCEPT !.pc = pc, !.failures = failures, !.error = error]
              = [urRun EXCEPT !.pc = pc, !.core = urRun.core, !.failures = failures, !.error = error]
        /\ \A pc : [urRun EXCEPT !.pc = pc]
              = [urRun EXCEPT !.pc = pc, !.core = urRun.core, !.failures = urRun.failures, !.error = urRun.error]
    BY <1>1 DEF PushRuns
  <2>3. CASE Maintain
    <3> DEFINE next == IF urRun.kind = "attended" /\ urRun.changed THEN "gc" ELSE "finish"
    <3>1. next \in {"gc", "finish"}
      OBVIOUS
    <3>2. CASE urRun' = [urRun EXCEPT !.pc = next, !.core = TRUE] /\ Holds
      <4>1. urRun' = [urRun EXCEPT !.pc = next, !.core = TRUE, !.failures = urRun.failures, !.error = urRun.error]
        BY <2>2, <3>2
      <4> QED BY <2>1, <3>1, <3>2, <4>1 DEF Holds
    <3>3. CASE /\ \E raises \in BOOLEAN :
                    /\ raises => urRun.kind = "auto"
                    /\ urRun' = [urRun EXCEPT !.pc = next, !.core = ~raises, !.failures = @ + 1,
                                           !.error = IF raises THEN "storage-error" ELSE "none"]
               /\ UNCHANGED <<urFiles, urStored, urEvidence, urCount>>
      <4>1. PICK raises \in BOOLEAN :
                    urRun' = [urRun EXCEPT !.pc = next, !.core = ~raises, !.failures = urRun.failures + 1,
                                           !.error = IF raises THEN "storage-error" ELSE "none"]
        BY <3>3
      <4> QED BY <2>1, <3>1, <3>3, <4>1
    <3> QED BY <2>3, <3>2, <3>3 DEF Maintain
  <2>4. CASE CollectOrphans
    <3>1. CASE urRun' = [urRun EXCEPT !.pc = "finish"] /\ Holds
      <4>1. urRun' = [urRun EXCEPT !.pc = "finish", !.core = urRun.core, !.failures = urRun.failures, !.error = urRun.error]
        BY <2>2, <3>1
      <4> QED BY <2>1, <3>1, <4>1 DEF Holds
    <3>2. CASE /\ \E refuses \in BOOLEAN :
                    urRun' = [urRun EXCEPT !.pc = "finish", !.failures = @ + 1,
                                !.error = IF refuses /\ ~urRun.published THEN "refused" ELSE "none"]
               /\ UNCHANGED <<urFiles, urStored, urEvidence, urCount>>
      <4>1. PICK error \in {"none", "refused"} :
                    urRun' = [urRun EXCEPT !.pc = "finish", !.failures = urRun.failures + 1, !.error = error]
        <5>1. PICK refuses \in BOOLEAN : urRun' = [urRun EXCEPT !.pc = "finish", !.failures = urRun.failures + 1,
                                   !.error = IF refuses /\ ~urRun.published THEN "refused" ELSE "none"]
          BY <3>2
        <5> QED BY <5>1
      <4>2. urRun' = [urRun EXCEPT !.pc = "finish", !.core = urRun.core, !.failures = urRun.failures + 1, !.error = error]
        BY <2>2, <4>1
      <4> QED BY <2>1, <3>2, <4>2
    <3> QED BY <2>4, <3>1, <3>2 DEF CollectOrphans
  <2> QED BY <2>3, <2>4
<1>3. urRun' \in PushRuns
  <2>1. pc \in RunSteps /\ error \in {"none", "interrupted", "storage-error", "snapshot-refused", "refused"}
    BY <1>1 DEF PushRuns, RunSteps
  <2>2. PICK next : next = [urRun EXCEPT !.pc = pc, !.core = core, !.failures = failures, !.error = error]
    OBVIOUS
  <2>3. next \in PushRuns
    BY ZenonT(60), <1>1, <2>1, <2>2 DEF PushRuns
  <2> QED BY <1>2, <2>2, <2>3
<1>4. SamePut /\ Unread
  BY <1>1, <1>2, <1>3 DEF SamePut, PushRuns, BeforePut, urFiles, urEvidence, Unread
<1>5. VerdictInv'
  BY <1>1, <1>2 DEF URInv, VerdictInv, UnderWay, PushRuns, BeforePut, Verdicts
<1>6. LineInv'
  BY <1>1, <1>2 DEF URInv, LineInv, UnderWay, PushRuns, BeforePut
<1> QED BY <1>1, <1>4, <1>5, <1>6, UnreadKeeps

(* An error of the push itself, or an interrupt.                              *)
LEMMA StopStep == ASSUME URInv, StopRun \/ InterruptRun PROVE URInv'
<1>1. urRun \in PushRuns
  BY UnderWayRun DEF URInv, UnderWay, StopRun, InterruptRun, Working
<1>2. PICK error \in {"snapshot-refused", "storage-error", "interrupted"} :
         /\ urRun' = [urRun EXCEPT !.pc = "finish", !.error = error]
         /\ error = "snapshot-refused" => ~urRun.put
         /\ UNCHANGED <<urFiles, urStored, urEvidence, urCount>>
  BY DEF URInv, PutInv, UnderWay, StopRun, InterruptRun, Working, BeforePut
<1>3. urRun' \in PushRuns
  BY <1>1, <1>2 DEF PushRuns, RunSteps
<1>4. SamePut /\ Unread
  BY <1>1, <1>2, <1>3 DEF SamePut, PushRuns, BeforePut, urFiles, urEvidence, Unread
<1>5. VerdictInv'
  <2>1. /\ urRun'.pc = "finish" /\ urRun'.core = urRun.core /\ urRun'.row = urRun.row
        /\ urRun'.outcome = urRun.outcome /\ urStored' = urStored /\ urCount' = urCount
        /\ urRun.pc # "idle"
    BY <1>1, <1>2 DEF PushRuns, RunSteps, BeforePut
  <2>3. urRun.pc # "record"
    BY DEF StopRun, InterruptRun, Working
  <2>2. "finish" \notin BeforePut \cup {"accept", "verdict", "after", "gc"}
    BY DEF BeforePut
  <2> QED BY <2>1, <2>2, <2>3 DEF URInv, VerdictInv, UnderWay
<1>6. LineInv'
  <2>1. /\ urRun'.pc = "finish" /\ urRun'.accepted = urRun.accepted /\ urRun'.result = urRun.result
        /\ urRun'.put = urRun.put /\ urRun'.error = error /\ urRun.pc # "idle"
    BY <1>1, <1>2 DEF PushRuns, RunSteps, BeforePut
  <2>2. "finish" \notin BeforePut \cup {"accept", "verdict", "after", "gc"}
    BY DEF BeforePut
  <2> QED BY <1>2, <2>1, <2>2 DEF URInv, LineInv, UnderWay
<1> QED BY <1>1, <1>4, <1>5, <1>6, UnreadKeeps

(* The event file as the run selects it, and what else is among the rows.    *)
LEMMA DaysChosen ==
  ASSUME URInv, urRun \in PushRuns
  PROVE  /\ Chosen(urDay) \in Days /\ Advertised \in Days
         /\ Chosen(urDay).rows \subseteq 1 .. urCount /\ Advertised.rows \subseteq 1 .. urCount
         /\ ~urRun.selected => Chosen(urDay) = NoDay /\ Advertised = NoDay
         /\ urRun.selected => Chosen(urDay) = urDay
         /\ urCount \notin urDay.rows => urCount \notin Chosen(urDay).rows
         /\ urCount \notin urStored.day.rows => urCount \notin Advertised.rows
<1>1. /\ NoDay \in Days /\ urDay \in Days /\ urStored.day \in Days /\ NoDay.rows = {}
      /\ urDay.rows \subseteq 1 .. urCount /\ urStored.day.rows \subseteq 1 .. urCount
  BY DEF URInv, URTypes, Days, NoDay
<1>2. urRun.selected \in BOOLEAN
  BY DEF PushRuns
<1> QED BY <1>1, <1>2 DEF Chosen, Advertised

(* A step before the put that scans: it may take another event file.         *)
LEMMA ScansKeep ==
  ASSUME URInv, urRun \in PushRuns, urRun.pc \in BeforePut,
         NEW pc \in {"gate", "upload", "put"}, NEW content \in Nat, NEW day \in Days, NEW changed \in BOOLEAN,
         urRun' = [urRun EXCEPT !.pc = pc, !.changed = changed, !.scan = [content |-> content, day |-> day]],
         ~urRun.selected => day = NoDay,
         (urRun.kind = "attended" /\ ~urRun.row) => urCount \notin day.rows,
         pc # "gate" /\ urRun.quiet /\ urRun.selected => day = urDay,
         day.rows \subseteq 1 .. urCount,
         Holds
  PROVE  URInv'
<1>1. urRun' \in PushRuns
  BY ZenonT(60) DEF PushRuns, RunSteps, BeforePut
<1>2. URTypes'
  BY <1>1 DEF URInv, URTypes, Holds, urFiles, urEvidence
<1>3. PutInv'
  BY DEF URInv, PutInv, UnderWay, PushRuns, BeforePut, Holds, urFiles
<1>4. RowInv'
  BY DEF URInv, RowInv, UnderWay, PushRuns, BeforePut, Holds, urFiles
<1>5. VerdictInv'
  BY DEF URInv, VerdictInv, UnderWay, PushRuns, BeforePut, Holds, urFiles
<1>6. LineInv'
  BY DEF URInv, LineInv, UnderWay, PushRuns, BeforePut, Holds
<1>7. FreshInv'
  BY DEF URInv, PutInv, FreshInv, UnderWay, PushRuns, BeforePut, Holds, urFiles
<1>8. SweepIsHonest'
  BY DEF URInv, SweepIsHonest, PushRuns, BeforePut
<1>9. StartedInv'
  BY DEF URInv, StartedInv, UnderWay, PushRuns, BeforePut, Holds
<1>10. WarmInv'
  BY DEF WarmInv, PushRuns
<1> QED BY <1>2, <1>3, <1>4, <1>5, <1>6, <1>7, <1>8, <1>9, <1>10 DEF URInv

LEMMA ScanStep == ASSUME URInv, ScanFiles \/ RescanEvents \/ UploadFiles PROVE URInv'
<1>1. urRun \in PushRuns /\ urRun.pc \in BeforePut /\ Holds
  BY UnderWayRun DEF URInv, UnderWay, BeforePut, ScanFiles, RescanEvents, UploadFiles
<1>2. /\ urContent \in Nat /\ urRun.scan.content \in Nat /\ urRun.scan.day \in Days /\ urRun.changed \in BOOLEAN
      /\ urRun.scan = [content |-> urRun.scan.content, day |-> urRun.scan.day]
  BY <1>1 DEF URInv, URTypes, PushRuns
<1>3. /\ ~urRun.selected => urRun.scan.day = NoDay
      /\ urRun.scan.day.rows \subseteq 1 .. urCount
      /\ urCount \notin urStored.day.rows
      /\ (urRun.kind = "attended" /\ ~urRun.row) =>
             urCount \notin urDay.rows /\ urCount \notin urRun.scan.day.rows
  BY <1>1 DEF URInv, PutInv, RowInv, UnderWay, BeforePut
<1>4. \A pc, day : [urRun EXCEPT !.pc = pc, !.scan.day = day]
         = [urRun EXCEPT !.pc = pc, !.changed = urRun.changed,
                         !.scan = [content |-> urRun.scan.content, day |-> day]]
  <2>1. \A day : [urRun.scan EXCEPT !.day = day] = [content |-> urRun.scan.content, day |-> day]
    BY <1>2
  <2>2. \A pc, scan : [urRun EXCEPT !.pc = pc, !.scan = scan]
                         = [urRun EXCEPT !.pc = pc, !.changed = urRun.changed, !.scan = scan]
    BY <1>1 DEF PushRuns
  <2>3. \A pc, day : [urRun EXCEPT !.pc = pc, !.scan.day = day]
                        = [urRun EXCEPT !.pc = pc, !.scan = [urRun.scan EXCEPT !.day = day]]
    BY <1>1 DEF PushRuns
  <2> SUFFICES ASSUME NEW pc, NEW day
               PROVE  [urRun EXCEPT !.pc = pc, !.scan.day = day]
                        = [urRun EXCEPT !.pc = pc, !.changed = urRun.changed,
                                        !.scan = [content |-> urRun.scan.content, day |-> day]]
    OBVIOUS
  <2>4. [urRun EXCEPT !.pc = pc, !.scan.day = day] = [urRun EXCEPT !.pc = pc, !.scan = [urRun.scan EXCEPT !.day = day]]
    BY <2>3
  <2> QED BY <2>1, <2>2, <2>4
<1>5. CASE ScanFiles
  <2>1. urRun' = [urRun EXCEPT !.pc = "gate", !.changed = urContent # urStored.content,
                               !.scan = [content |-> urContent, day |-> Chosen(urDay)]]
    BY <1>5 DEF ScanFiles
  <2>2. (urContent # urStored.content) \in BOOLEAN
    OBVIOUS
  <2> QED BY <1>1, <1>2, <1>3, <2>1, <2>2, DaysChosen, ScansKeep
<1>6. CASE RescanEvents
  <2>1. urRun' = [urRun EXCEPT !.pc = "upload", !.changed = urRun.changed,
                               !.scan = [content |-> urRun.scan.content, day |-> Chosen(urDay)]]
    BY <1>4, <1>6 DEF RescanEvents
  <2> QED BY ZenonT(60), <1>1, <1>2, <1>3, <2>1, DaysChosen, ScansKeep
<1>7. CASE UploadFiles
  <2>1. PICK day \in (IF Chosen(urDay) = urRun.scan.day THEN {urRun.scan.day} ELSE {Chosen(urDay), Advertised}) :
           urRun' = [urRun EXCEPT !.pc = "put", !.scan.day = day]
    BY <1>7 DEF UploadFiles
  <2>2. urRun' = [urRun EXCEPT !.pc = "put", !.changed = urRun.changed,
                               !.scan = [content |-> urRun.scan.content, day |-> day]]
    BY <1>4, <2>1
  <2>3. urRun.quiet /\ urRun.selected => urRun.scan.day = urDay
    BY <1>1, <1>7 DEF URInv, FreshInv, UnderWay, UploadFiles
  <2>4. /\ day \in Days
        /\ ~urRun.selected => day = NoDay
        /\ day.rows \subseteq 1 .. urCount
        /\ (urRun.kind = "attended" /\ ~urRun.row) => urCount \notin day.rows
        /\ urRun.quiet /\ urRun.selected => day = urDay
    BY <1>1, <1>2, <1>3, <2>1, <2>3, DaysChosen
  <2> QED BY <1>1, <1>2, <2>2, <2>4, ScansKeep
<1> QED BY <1>5, <1>6, <1>7

LEMMA PutStep == ASSUME URInv, PutAccepted PROVE URInv'
<1>1. /\ urRun \in PushRuns /\ urRun.pc = "put" /\ urStored' = urRun.scan
      /\ UNCHANGED <<urFiles, urEvidence, urCount>>
  BY UnderWayRun DEF URInv, UnderWay, PutAccepted
<1>2. PICK pc \in {"accept", "finish"}, error \in {urRun.error, "storage-error"} :
         /\ urRun' = [urRun EXCEPT !.pc = pc, !.put = TRUE, !.error = error]
         /\ pc = "finish" => error = "storage-error"
  <2>1. [urRun EXCEPT !.pc = "accept", !.put = TRUE] = [urRun EXCEPT !.pc = "accept", !.put = TRUE, !.error = urRun.error]
    BY <1>1 DEF PushRuns
  <2> QED BY <2>1 DEF PutAccepted
<1>3. urRun' \in PushRuns
  BY <1>1, <1>2 DEF PushRuns, RunSteps
<1>4. URTypes'
  <2>1. urRun.scan \in [content : Nat, day : Days] /\ urRun.scan.day.rows \subseteq 1 .. urCount
    BY <1>1 DEF URInv, PutInv, UnderWay, PushRuns
  <2> QED BY <1>1, <1>3, <2>1 DEF URInv, URTypes, urFiles, urEvidence
<1>5. PutInv' /\ RowInv'
  BY <1>1, <1>2 DEF URInv, PutInv, RowInv, UnderWay, PushRuns, BeforePut, urFiles
<1>6. VerdictInv'
  BY <1>1, <1>2 DEF URInv, VerdictInv, UnderWay, PushRuns, BeforePut, NoRowKept
<1>7. LineInv'
  BY <1>1, <1>2 DEF URInv, LineInv, PutInv, UnderWay, PushRuns, BeforePut
<1>8. FreshInv' /\ SweepIsHonest'
  BY <1>1, <1>2 DEF URInv, FreshInv, SweepIsHonest, UnderWay, PushRuns, urFiles
<1>9. StartedInv'
  BY <1>1 DEF URInv, StartedInv, UnderWay
<1>10. WarmInv'
  BY <1>1, <1>2 DEF WarmInv, PushRuns
<1> QED BY <1>4, <1>5, <1>6, <1>7, <1>8, <1>9, <1>10 DEF URInv

(* Before the put, rows of this run are added by the capture of an attended  *)
(* run, which then has one, or by the tail of an automatic one.              *)
LEMMA WritesKeep ==
  ASSUME URInv, urRun \in PushRuns, urRun.pc \in {"append", "tail"}, urRun' \in PushRuns,
         urRun'.pc \in {"scan", "tail", "rescan"}, urDay' \in Days, urDay'.rows \subseteq urDay.rows \cup {urCount},
         urRun'.kind = urRun.kind, urRun'.selected = urRun.selected, urRun'.scan = urRun.scan,
         urRun'.put = urRun.put, urRun'.accepted = urRun.accepted, urRun'.result = urRun.result,
         urRun'.core = urRun.core, urRun'.error = urRun.error,
         urRun'.outcome \in NoRowKept,
         (urRun.kind = "attended" /\ ~urRun'.row) => ~urRun.row /\ urDay'.rows = urDay.rows,
         SweepIsHonest',
         UNCHANGED <<urContent, urSelected, urStored, urEvidence, urCount>>
  PROVE  URInv'
<1>1. urRun.pc \in BeforePut /\ urRun'.pc \in BeforePut /\ UnderWay /\ UnderWay' /\ urRun'.pc \notin {"upload", "put"}
  BY DEF BeforePut, UnderWay
<1>2. URTypes'
  <2>1. urDay'.rows \subseteq 1 .. urCount
    <3>1. urCount >= 1 /\ urCount \in Nat
      BY <1>1 DEF URInv, URTypes, StartedInv
    <3> QED BY <3>1 DEF URInv, URTypes
  <2> QED BY <2>1 DEF URInv, URTypes, urEvidence
<1>3. PutInv'
  BY <1>1 DEF URInv, PutInv, BeforePut
<1>4. RowInv'
  BY <1>1 DEF URInv, RowInv
<1>5. VerdictInv'
  BY <1>1 DEF URInv, VerdictInv, BeforePut, NoRowKept
<1>6. LineInv'
  BY <1>1 DEF URInv, LineInv, PutInv, BeforePut
<1>7. FreshInv'
  BY <1>1 DEF URInv, PutInv, FreshInv
<1>8. StartedInv'
  BY <1>1 DEF URInv, StartedInv
<1>9. WarmInv'
  BY DEF WarmInv
<1> QED BY <1>2, <1>3, <1>4, <1>5, <1>6, <1>7, <1>8, <1>9 DEF URInv

LEMMA AppendedDay ==
  ASSUME URInv
  PROVE  Appended(urDay) \in Days /\ Appended(urDay).rows = urDay.rows \cup {urCount}
<1>1. urDay.rows \in SUBSET Nat /\ urDay.mark \in Nat /\ urCount \in Nat
  <2>1. CASE urDay = NoDay
    BY <2>1 DEF URInv, URTypes, NoDay
  <2>2. CASE urDay \in [there : {TRUE}, rows : SUBSET Nat, mark : Nat]
    BY <2>2 DEF URInv, URTypes
  <2> QED BY <2>1, <2>2 DEF URInv, URTypes, Days
<1>2. [there |-> TRUE, rows |-> urDay.rows \cup {urCount}, mark |-> urDay.mark]
        \in [there : {TRUE}, rows : SUBSET Nat, mark : Nat]
  BY <1>1
<1> QED BY <1>2 DEF Appended, Days

LEMMA SameAnswers ==
  ASSUME SweepIsHonest, urRun.pc # "idle", urRun'.kind = urRun.kind,
         urRun'.capture = urRun.capture, urRun'.said = urRun.said
  PROVE  SweepIsHonest'
BY DEF SweepIsHonest

LEMMA AppendStep == ASSUME URInv, AppendRow PROVE URInv'
<1>1. urRun \in PushRuns /\ urRun.pc = "append"
  BY UnderWayRun DEF URInv, UnderWay, AppendRow
<1>2. CASE urDay' = Appended(urDay) /\ urRun' = [urRun EXCEPT !.pc = "scan", !.row = TRUE]
  <2>1. urRun' \in PushRuns
    BY <1>1, <1>2 DEF PushRuns, RunSteps, BeforePut
  <2>2. urRun.outcome \in NoRowKept
    BY <1>1 DEF URInv, VerdictInv, UnderWay, BeforePut
  <2>3. /\ urRun'.kind = urRun.kind /\ urRun'.selected = urRun.selected /\ urRun'.scan = urRun.scan
        /\ urRun'.put = urRun.put /\ urRun'.accepted = urRun.accepted /\ urRun'.result = urRun.result
        /\ urRun'.core = urRun.core /\ urRun'.error = urRun.error /\ urRun'.pc = "scan"
        /\ urRun'.outcome = urRun.outcome /\ urRun'.row = TRUE
        /\ urRun'.capture = urRun.capture /\ urRun'.said = urRun.said
    BY <1>1, <1>2 DEF PushRuns
  <2>4. SweepIsHonest'
    BY <1>1, <2>3, SameAnswers DEF URInv
  <2> QED BY <1>1, <1>2, <2>1, <2>2, <2>3, <2>4, AppendedDay, WritesKeep DEF AppendRow
<1>3. ASSUME NEW why \in {"append-failed", "max-file-size"}, UNCHANGED urDay,
             urRun' = [urRun EXCEPT !.pc = "scan", !.outcome = why]
      PROVE  URInv'
  <2>1. urRun' \in PushRuns
    BY <1>1, <1>3 DEF PushRuns, RunSteps, BeforePut, NoRowKept
  <2>2. SamePut /\ Unread
    BY <1>1, <1>3, <2>1 DEF AppendRow, SamePut, PushRuns, BeforePut, urEvidence, Unread
  <2>3. VerdictInv' /\ LineInv'
    BY <1>1, <1>3 DEF AppendRow, URInv, VerdictInv, LineInv, UnderWay, PushRuns, BeforePut, NoRowKept, Verdicts
  <2> QED BY <1>1, <2>2, <2>3, UnreadKeeps
<1> QED BY <1>2, <1>3 DEF AppendRow

(* What a capture c says where the readers said s last.                      *)
Whole(s) == {r \in URNames : s[r] = "complete"}
Lost(s) == {r \in URNames : s[r] \in {"unavailable", "deadline"}}
Tells(c, s) ==
    /\ c.sources = Whole(s) /\ c.dropped = {<<r, s[r]>> : r \in Lost(s)}
    /\ \A r \in URNames : c.sum[r] = IF r \in Whole(s) THEN 1 ELSE 0
    /\ (Whole(s) # {} \/ Lost(s) = {}) => c.row

LEMMA CaptureTypes ==
  ASSUME NEW names \in SUBSET URNames, NEW answer \in [names -> Answers], NEW late \in BOOLEAN
  PROVE  SweepOf(names, answer, late) \in Captures
<1> DEFINE whole == {r \in names : answer[r] = "complete"}
           dropped == {r \in names : answer[r] \in {"unavailable", "deadline"}}
<1>1. NoSum \in [URNames -> Nat] /\ [r \in URNames |-> IF r \in whole THEN 1 ELSE 0] \in [URNames -> Nat]
  BY DEF NoSum
<1>2. whole \in SUBSET URNames /\ {<<r, answer[r]>> : r \in dropped} \in SUBSET (URNames \X Answers)
  BY DEF Answers
<1>3. (whole # {} \/ dropped = {}) \in BOOLEAN
  OBVIOUS
<1>4. CASE late /\ names # {}
  BY <1>1, <1>4 DEF SweepOf, Captures
<1>5. CASE ~(late /\ names # {})
  <2>1. SweepOf(names, answer, late) =
          [row |-> whole # {} \/ dropped = {}, sum |-> [r \in URNames |-> IF r \in whole THEN 1 ELSE 0],
           sources |-> whole, dropped |-> {<<r, answer[r]>> : r \in dropped}, invoked |-> TRUE]
    BY <1>5 DEF SweepOf
  <2> HIDE DEF whole, dropped
  <2> QED BY <1>1, <1>2, <1>3, <2>1 DEF Captures
<1> QED BY <1>4, <1>5

LEMMA NoCaptureType == NoCapture \in Captures
<1>1. NoAnswers \in [{} -> Answers] /\ {} \in SUBSET URNames /\ FALSE \in BOOLEAN
  BY DEF NoAnswers
<1>2. \A answer \in [{} -> Answers], late \in BOOLEAN : SweepOf({}, answer, late) \in Captures
  BY <1>1, CaptureTypes
<1> QED BY <1>1, <1>2 DEF NoCapture

LEMMA DeclaredTells ==
  ASSUME NEW answer \in [URNames -> Answers], NEW late \in BOOLEAN
  PROVE  /\ Declared(answer, late) \in Captures /\ Said(answer, late) \in [URNames -> Answers]
         /\ Tells(Declared(answer, late), Said(answer, late))
         /\ Declared(answer, late).row => Whole(Said(answer, late)) # {} \/ Lost(Said(answer, late)) = {}
         /\ \A r \in Late(Declared(answer, late)) : r \in URWarmable /\ r \in URNames /\ Said(answer, late)[r] = "deadline"
<1> DEFINE c == SweepOf(URNames, answer, late)
           s == Said(answer, late)
<1>1. c \in Captures
  BY CaptureTypes
<1>2. s \in [URNames -> Answers]
  BY DEF Said, Answers
<1>3. CASE late /\ URNames # {}
  <2>1. /\ c = [row |-> FALSE, sum |-> NoSum, sources |-> {}, dropped |-> {}, invoked |-> FALSE]
        /\ s = [r \in URNames |-> "deadline"]
    BY <1>3 DEF SweepOf, Said
  <2>2. Declared(answer, late) = [row |-> FALSE, sum |-> NoSum, sources |-> {},
                                  dropped |-> {<<r, "deadline">> : r \in URNames}, invoked |-> FALSE]
    <3>1. Declared(answer, late) = IF c.invoked THEN c ELSE [c EXCEPT !.dropped = {<<r, "deadline">> : r \in URNames}]
      BY DEF Declared
    <3> HIDE DEF c
    <3> QED BY <2>1, <3>1
  <2>3. Whole(s) = {} /\ Lost(s) = URNames
    BY <2>1 DEF Whole, Lost
  <2>4. {<<r, s[r]>> : r \in Lost(s)} = {<<r, "deadline">> : r \in URNames}
    BY <2>1, <2>3
  <2>5. NoSum \in [URNames -> Nat] /\ {<<r, "deadline">> : r \in URNames} \in SUBSET (URNames \X Answers)
    BY DEF NoSum, Answers
  <2>6. Declared(answer, late) \in Captures
    BY <2>2, <2>5 DEF Captures
  <2>7. \A r \in Late(Declared(answer, late)) : r \in URWarmable /\ r \in URNames /\ s[r] = "deadline"
    BY <2>1, <2>2 DEF Late
  <2> DEFINE D == Declared(answer, late)
  <2>8. /\ D.row = FALSE /\ D.sources = {} /\ D.dropped = {<<r, "deadline">> : r \in URNames}
        /\ \A r \in URNames : D.sum[r] = 0
    BY <2>2 DEF NoSum
  <2> HIDE DEF D, s
  <2>9. Tells(D, s)
    BY <1>3, <2>3, <2>4, <2>8 DEF Tells
  <2> QED BY <1>2, <2>6, <2>7, <2>8, <2>9 DEF D, s
<1>4. CASE ~(late /\ URNames # {})
  <2> DEFINE whole == {r \in URNames : answer[r] = "complete"}
             dropped == {r \in URNames : answer[r] \in {"unavailable", "deadline"}}
  <2>1. c = [row |-> whole # {} \/ dropped = {}, sum |-> [r \in URNames |-> IF r \in whole THEN 1 ELSE 0],
             sources |-> whole, dropped |-> {<<r, answer[r]>> : r \in dropped}, invoked |-> TRUE]
    BY <1>4 DEF SweepOf
  <2>2. Declared(answer, late) = c
    BY <2>1 DEF Declared
  <2>3. \A r \in URNames : s[r] = answer[r]
    BY <1>4 DEF Said
  <2>4. Whole(s) = whole /\ Lost(s) = dropped
    BY <2>3 DEF Whole, Lost
  <2>5. {<<r, s[r]>> : r \in Lost(s)} = {<<r, answer[r]>> : r \in dropped}
    BY <2>3, <2>4
  <2>6. \A r \in Late(c) : r \in URWarmable /\ r \in URNames /\ s[r] = "deadline"
    <3> SUFFICES ASSUME NEW r \in Late(c) PROVE r \in URWarmable /\ r \in URNames /\ s[r] = "deadline"
      OBVIOUS
    <3>1. PICK q \in dropped : <<r, "deadline">> = <<q, answer[q]>>
      BY <2>1 DEF Late
    <3> QED BY <2>3, <3>1 DEF Late
  <2> HIDE DEF whole, dropped
  <2>7. /\ c.row = (whole # {} \/ dropped = {}) /\ c.sources = whole
        /\ c.dropped = {<<r, answer[r]>> : r \in dropped}
        /\ \A r \in URNames : c.sum[r] = IF r \in whole THEN 1 ELSE 0
    BY <2>1
  <2> HIDE DEF c, s
  <2>8. Tells(c, s)
    BY <2>4, <2>5, <2>7 DEF Tells
  <2>9. c.row => Whole(s) # {} \/ Lost(s) = {}
    BY <2>4, <2>7
  <2>10. /\ Declared(answer, late) \in Captures
         /\ Tells(Declared(answer, late), s)
         /\ Declared(answer, late).row => Whole(s) # {} \/ Lost(s) = {}
         /\ \A r \in Late(Declared(answer, late)) : r \in URWarmable /\ r \in URNames /\ s[r] = "deadline"
    BY <1>1, <2>2, <2>6, <2>8, <2>9
  <2> QED BY <1>2, <2>10 DEF s
<1> QED BY <1>3, <1>4

(* A retry that was asked answers for its reader alone.                      *)
Heard(s, r, answer, over) == IF over THEN s ELSE [s EXCEPT ![r] = answer]
RetryIsTold(c, s, r, d, t) ==
    /\ d \in Captures /\ t \in [URNames -> Answers] /\ Tells(d, t)
    /\ d.row => c.row \/ Whole(t) # {} \/ t[r] = "absent"

LEMMA RetryTells ==
  ASSUME NEW c \in Captures, NEW s \in [URNames -> Answers], Tells(c, s),
         NEW r \in URNames, s[r] = "deadline", NEW answer \in Answers, NEW over \in BOOLEAN
  PROVE  RetryIsTold(c, s, r, MergeRetry(c, Retry(r, answer, over), r), Heard(s, r, answer, over))
<1> DEFINE t == Heard(s, r, answer, over)
           d == MergeRetry(c, Retry(r, answer, over), r)
<1>t. t = IF over THEN s ELSE [s EXCEPT ![r] = answer]
  BY DEF Heard
<1>d. d = MergeRetry(c, SweepOf({r}, [q \in {r} |-> answer], over), r)
  BY DEF Retry
<1> SUFFICES RetryIsTold(c, s, r, d, t)
  OBVIOUS
<1> HIDE DEF t, d
<1> SUFFICES /\ d \in Captures /\ t \in [URNames -> Answers] /\ Tells(d, t)
             /\ d.row => c.row \/ Whole(t) # {} \/ t[r] = "absent"
  BY DEF RetryIsTold
<1> DEFINE retry == SweepOf({r}, [q \in {r} |-> answer], over)
           sources == c.sources \cup retry.sources
           kept == {x \in c.dropped : x[1] # r \/ ~retry.invoked}
           dropped == {x \in kept \cup retry.dropped : x[1] \notin sources}
           sum == [q \in URNames |-> c.sum[q] + retry.sum[q]]
<1>1. d = [row |-> c.row \/ retry.row, sum |-> sum, sources |-> sources, dropped |-> dropped, invoked |-> TRUE]
  BY <1>d DEF MergeRetry
<1>2. retry \in Captures
  <2>1. [q \in {r} |-> answer] \in [{r} -> Answers] /\ {r} \in SUBSET URNames
    OBVIOUS
  <2> QED BY <2>1, CaptureTypes
<1>3. t \in [URNames -> Answers]
  BY <1>t
<1>4. d \in Captures
  <2>1. c.sum \in [URNames -> Nat] /\ retry.sum \in [URNames -> Nat] /\ c.row \in BOOLEAN /\ retry.row \in BOOLEAN
    BY <1>2 DEF Captures
  <2>2. sum \in [URNames -> Nat]
    <3> HIDE DEF retry
    <3> QED BY <2>1
  <2>3. sources \in SUBSET URNames /\ dropped \in SUBSET (URNames \X Answers) /\ (c.row \/ retry.row) \in BOOLEAN
    BY <1>2, <2>1 DEF Captures
  <2>4. PICK row \in BOOLEAN : row = (c.row \/ retry.row)
    BY <2>3
  <2> HIDE DEF retry, sources, dropped, sum
  <2>5. d = [row |-> row, sum |-> sum, sources |-> sources, dropped |-> dropped, invoked |-> TRUE]
    BY <1>1, <2>4
  <2>6. \A x \in [URNames -> Nat], y \in SUBSET URNames, z \in SUBSET (URNames \X Answers) :
          [row |-> row, sum |-> x, sources |-> y, dropped |-> z, invoked |-> TRUE] \in Captures
    BY <2>4 DEF Captures
  <2> QED BY <2>2, <2>3, <2>5, <2>6
<1>9. d.sources = sources /\ d.dropped = dropped /\ d.sum = sum /\ (d.row <=> c.row \/ retry.row)
  <2> HIDE DEF retry, sources, dropped, sum
  <2>1. d.sources = sources /\ d.dropped = dropped /\ d.sum = sum
    BY <1>1
  <2>2. d.row = (c.row \/ retry.row)
    BY <1>1
  <2> QED BY <2>1, <2>2
<1>5. r \notin Whole(s) /\ r \in Lost(s) /\ Whole(s) \cap Lost(s) = {}
  BY DEF Whole, Lost
<1>6. /\ c.sources = Whole(s) /\ c.dropped = {<<q, s[q]>> : q \in Lost(s)}
      /\ \A q \in URNames : c.sum[q] = IF q \in Whole(s) THEN 1 ELSE 0
      /\ (Whole(s) # {} \/ Lost(s) = {}) => c.row
  BY DEF Tells
<1>7. CASE over
  <2>1. retry = [row |-> FALSE, sum |-> NoSum, sources |-> {}, dropped |-> {}, invoked |-> FALSE]
    BY <1>7 DEF SweepOf
  <2>2. t = s /\ sources = c.sources /\ kept = c.dropped
    <3>1. retry.sources = {} /\ retry.invoked = FALSE
      BY <2>1
    <3> HIDE DEF retry
    <3> QED BY <1>7, <1>t, <3>1
  <2>3. dropped = c.dropped
    <3>1. retry.dropped = {}
      BY <2>1
    <3>2. \A x \in c.dropped : x[1] \notin c.sources
      BY <1>5, <1>6
    <3> HIDE DEF retry, kept, sources
    <3> QED BY <2>2, <3>1, <3>2
  <2>4. \A q \in URNames : sum[q] = c.sum[q]
    <3>1. \A q \in URNames : c.sum[q] \in Nat /\ retry.sum[q] = 0
      <4>1. retry.sum = NoSum /\ c.sum \in [URNames -> Nat]
        BY <2>1 DEF Captures
      <4> HIDE DEF retry
      <4> QED BY <4>1 DEF NoSum
    <3> HIDE DEF retry
    <3> QED BY <3>1
  <2>5. d.row <=> c.row
    <3>1. retry.row = FALSE
      BY <2>1
    <3> HIDE DEF retry, sources, dropped, sum
    <3> QED BY <1>9, <3>1
  <2> HIDE DEF retry, sources, dropped, sum, kept
  <2>6. \A q \in URNames : d.sum[q] = c.sum[q]
    BY <1>9, <2>4
  <2>7. d.sources = Whole(s) /\ d.dropped = {<<q, s[q]>> : q \in Lost(s)}
    BY <1>6, <1>9, <2>2, <2>3
  <2>8. \A q \in URNames : d.sum[q] = IF q \in Whole(s) THEN 1 ELSE 0
    BY <1>6, <2>6
  <2>9. (Whole(s) # {} \/ Lost(s) = {}) => d.row
    BY <1>6, <2>5
  <2>10. Tells(d, s)
    BY <2>7, <2>8, <2>9 DEF Tells
  <2> QED BY <1>3, <1>4, <2>2, <2>5, <2>10
<1>8. CASE ~over
  <2> DEFINE all == {q \in {r} : answer = "complete"}
             none == {q \in {r} : answer \in {"unavailable", "deadline"}}
  <2>1. /\ retry.row = (all # {} \/ none = {})
        /\ retry.sources = all /\ retry.dropped = {<<q, answer>> : q \in none} /\ retry.invoked
        /\ \A q \in URNames : retry.sum[q] = IF q \in all THEN 1 ELSE 0
    <3>1. \A q \in {r} : [x \in {r} |-> answer][q] = answer
      OBVIOUS
    <3>2. all = {q \in {r} : [x \in {r} |-> answer][q] = "complete"}
      OBVIOUS
    <3>3. none = {q \in {r} : [x \in {r} |-> answer][q] \in {"unavailable", "deadline"}}
      OBVIOUS
    <3>4. {<<q, answer>> : q \in none} = {<<q, [x \in {r} |-> answer][q]>> : q \in none}
      OBVIOUS
    <3> HIDE DEF all, none
    <3> QED BY <1>8, <3>2, <3>3, <3>4 DEF SweepOf
  <2>2. Whole(t) = Whole(s) \cup all /\ Lost(t) = (Lost(s) \ {r}) \cup none /\ t[r] = answer
    BY <1>5, <1>8, <1>t DEF Whole, Lost
  <2>3. sources = Whole(t)
    BY <1>6, <2>1, <2>2
  <2>4. \A q \in URNames : sum[q] = IF q \in Whole(t) THEN 1 ELSE 0
    <3> SUFFICES ASSUME NEW q \in URNames PROVE sum[q] = IF q \in Whole(t) THEN 1 ELSE 0
      OBVIOUS
    <3>1. sum[q] = c.sum[q] + retry.sum[q]
      OBVIOUS
    <3>2. q \in all => q = r /\ q \notin Whole(s)
      BY <1>5
    <3>3. /\ c.sum[q] = IF q \in Whole(s) THEN 1 ELSE 0
          /\ retry.sum[q] = IF q \in all THEN 1 ELSE 0
      BY <1>6, <2>1
    <3>4. q \in Whole(t) <=> (q \in Whole(s) \/ q \in all)
      BY <2>2
    <3> HIDE DEF all, sum, retry
    <3>5. CASE q \in all
      BY <3>1, <3>2, <3>3, <3>4, <3>5
    <3>6. CASE q \notin all
      BY <3>1, <3>3, <3>4, <3>6
    <3> QED BY <3>5, <3>6
  <2>5. dropped = {<<q, t[q]>> : q \in Lost(t)}
    <3>1. kept = {<<q, t[q]>> : q \in Lost(s) \ {r}}
      <4>1. \A q \in Lost(s) \ {r} : t[q] = s[q]
        BY <1>8, <1>t DEF Lost
      <4>2. kept = {x \in c.dropped : x[1] # r}
        BY <2>1
      <4>3. kept = {<<q, s[q]>> : q \in Lost(s) \ {r}}
        <5>1. c.dropped = {<<q, s[q]>> : q \in Lost(s)}
          BY <1>6
        <5> HIDE DEF kept
        <5> QED BY <4>2, <5>1
      <4> HIDE DEF kept
      <4> QED BY <4>1, <4>3
    <3>2. retry.dropped = {<<q, t[q]>> : q \in none}
      BY <1>5, <1>8, <1>t, <2>1, <2>2
    <3>3. kept \cup retry.dropped = {<<q, t[q]>> : q \in Lost(t)}
      BY <2>2, <3>1, <3>2
    <3>4. Lost(t) \cap Whole(t) = {}
      BY DEF Whole, Lost
    <3>5. \A x \in {<<q, t[q]>> : q \in Lost(t)} : x[1] \in Lost(t)
      <4> SUFFICES ASSUME NEW q \in Lost(t) PROVE <<q, t[q]>>[1] \in Lost(t)
        OBVIOUS
      <4> QED OBVIOUS
    <3> HIDE DEF kept, retry, sources
    <3> QED BY <2>3, <3>3, <3>4, <3>5
  <2>6. (Whole(t) # {} \/ Lost(t) = {}) => c.row \/ retry.row
    BY <1>5, <1>6, <2>1, <2>2
  <2>7. c.row \/ retry.row => c.row \/ Whole(t) # {} \/ t[r] = "absent"
    BY <2>1, <2>2 DEF Answers
  <2> HIDE DEF retry, sources, dropped, sum
  <2>9. Tells(d, t)
    BY <2>3, <2>4, <2>5, <2>6, <1>9 DEF Tells
  <2> QED BY <1>3, <1>4, <1>9, <2>7, <2>9
<1> QED BY <1>7, <1>8

(* A step of the sweep, of attended runs and in the tail.                    *)
LEMMA SweepsKeep ==
  ASSUME URInv, urRun \in PushRuns, urRun.pc \in {"sweep", "warm", "tail"},
         NEW pc \in {"warm", "tail", "scan"}, NEW c \in Captures, NEW s \in [URNames -> Answers] \cup {NoAnswers},
         NEW due \in SUBSET URNames, NEW outcome \in NoRowKept,
         urRun' = [urRun EXCEPT !.pc = pc, !.capture = c, !.said = s, !.due = due, !.outcome = outcome],
         s # NoAnswers => Tells(c, s),
         s # NoAnswers /\ c.row => \/ Whole(s) # {} \/ Lost(s) = {}
                                   \/ urRun.kind = "attended" /\ \E r \in URWarmable : s[r] = "absent",
         pc = "warm" => /\ urRun.pc \in {"sweep", "warm"} /\ s \in [URNames -> Answers]
                        /\ \A r \in due : r \in URWarmable /\ s[r] = "deadline",
         UNCHANGED <<urFiles, urStored, urEvidence, urCount>>
  PROVE  URInv'
<1>1. urRun' \in PushRuns
  BY DEF PushRuns, RunSteps, BeforePut
<1>2. /\ urRun'.kind = urRun.kind /\ urRun'.selected = urRun.selected /\ urRun'.scan = urRun.scan
      /\ urRun'.put = urRun.put /\ urRun'.accepted = urRun.accepted /\ urRun'.result = urRun.result
      /\ urRun'.core = urRun.core /\ urRun'.error = urRun.error /\ urRun'.row = urRun.row
      /\ urRun'.pc = pc /\ urRun'.capture = c /\ urRun'.said = s /\ urRun'.due = due
      /\ urRun'.outcome = outcome
  BY DEF PushRuns
<1>3. urRun.pc \in BeforePut /\ pc \in BeforePut /\ UnderWay /\ UnderWay' /\ pc \notin {"upload", "put", "capture", "sweep"}
  BY <1>2 DEF BeforePut, UnderWay
<1>4. URTypes'
  BY <1>1 DEF URInv, URTypes, urFiles, urEvidence
<1>5. PutInv' /\ RowInv'
  BY <1>2, <1>3 DEF URInv, PutInv, RowInv, BeforePut, urFiles
<1>6. VerdictInv'
  BY <1>2, <1>3 DEF URInv, VerdictInv, BeforePut, NoRowKept
<1>7. LineInv' /\ FreshInv'
  BY <1>2, <1>3 DEF URInv, LineInv, FreshInv, PutInv, BeforePut
<1>8. StartedInv'
  BY <1>3 DEF URInv, StartedInv
<1>9. WarmInv'
  BY <1>2, <1>3 DEF URInv, WarmInv
<1>10. SweepIsHonest'
  BY <1>2 DEF SweepIsHonest, Tells, Whole, Lost
<1> QED BY <1>4, <1>5, <1>6, <1>7, <1>8, <1>9, <1>10 DEF URInv

LEMMA SweepStep == ASSUME URInv, SweepReaders PROVE URInv'
<1>1. urRun \in PushRuns /\ urRun.pc = "sweep" /\ Holds
  BY UnderWayRun DEF URInv, UnderWay, SweepReaders
<1>2. PICK answer \in [URNames -> Answers], late \in BOOLEAN :
         urRun' = [urRun EXCEPT !.pc = "warm", !.capture = Declared(answer, late),
                                !.said = Said(answer, late), !.due = Late(Declared(answer, late))]
  BY DEF SweepReaders
<1> DEFINE c == Declared(answer, late)
           s == Said(answer, late)
<1>3. /\ c \in Captures /\ s \in [URNames -> Answers] /\ Tells(c, s)
      /\ c.row => Whole(s) # {} \/ Lost(s) = {}
      /\ \A r \in Late(c) : r \in URWarmable /\ r \in URNames /\ s[r] = "deadline"
  BY DeclaredTells
<1>4. urRun.outcome \in NoRowKept
  BY <1>1 DEF URInv, VerdictInv, UnderWay, BeforePut
<1>5. urRun' = [urRun EXCEPT !.pc = "warm", !.capture = c, !.said = s, !.due = Late(c), !.outcome = urRun.outcome]
  BY <1>1, <1>2 DEF PushRuns
<1>6. Late(c) \in SUBSET URNames
  BY <1>3
<1> HIDE DEF c, s
<1> QED BY <1>1, <1>3, <1>4, <1>5, <1>6, SweepsKeep DEF Holds

LEMMA TailSweepKeeps ==
  ASSUME URInv, urRun \in PushRuns, urRun.pc = "tail", NEW c \in Captures, NEW s \in [URNames -> Answers],
         urRun' = [urRun EXCEPT !.capture = c, !.said = s], Tells(c, s),
         c.row => Whole(s) # {} \/ Lost(s) = {},
         UNCHANGED <<urFiles, urStored, urEvidence, urCount>>
  PROVE  URInv'
<1>1. urRun' \in PushRuns
  BY DEF PushRuns
<1>2. /\ urRun'.kind = urRun.kind /\ urRun'.selected = urRun.selected /\ urRun'.scan = urRun.scan
      /\ urRun'.put = urRun.put /\ urRun'.accepted = urRun.accepted /\ urRun'.result = urRun.result
      /\ urRun'.core = urRun.core /\ urRun'.error = urRun.error /\ urRun'.row = urRun.row
      /\ urRun'.pc = "tail" /\ urRun'.capture = c /\ urRun'.said = s
      /\ urRun'.outcome = urRun.outcome
  BY DEF PushRuns
<1>3. UnderWay /\ UnderWay'
  BY <1>2 DEF UnderWay
<1>4. URTypes'
  BY <1>1 DEF URInv, URTypes, urFiles, urEvidence
<1>5. PutInv' /\ RowInv'
  BY <1>2, <1>3 DEF URInv, PutInv, RowInv, BeforePut, urFiles
<1>6. VerdictInv' /\ LineInv' /\ FreshInv'
  <2>1. VerdictInv'
    BY <1>2, <1>3 DEF URInv, VerdictInv, BeforePut
  <2>2. LineInv'
    BY <1>2, <1>3 DEF URInv, LineInv, BeforePut
  <2>3. FreshInv'
    BY <1>2, <1>3 DEF URInv, FreshInv, PutInv, BeforePut
  <2> QED BY <2>1, <2>2, <2>3
<1>7. StartedInv' /\ WarmInv'
  BY <1>2, <1>3 DEF URInv, StartedInv, WarmInv
<1>8. SweepIsHonest'
  BY <1>2 DEF SweepIsHonest, Tells, Whole, Lost
<1> QED BY <1>4, <1>5, <1>6, <1>7, <1>8 DEF URInv

LEMMA TailSweepStep ==
  ASSUME URInv, urRun \in PushRuns, urRun.pc = "tail",
         NEW answer \in [URNames -> Answers], NEW late \in BOOLEAN,
         urRun' = [urRun EXCEPT !.capture = Declared(answer, late), !.said = Said(answer, late)],
         UNCHANGED <<urFiles, urStored, urEvidence, urCount>>
  PROVE  URInv'
BY DeclaredTells, TailSweepKeeps

LEMMA WarmStep == ASSUME URInv, WarmReader PROVE URInv'
<1>1. urRun \in PushRuns /\ urRun.pc = "warm" /\ Holds
  BY UnderWayRun DEF URInv, UnderWay, WarmReader
<1>2. PICK r \in urRun.due, answer \in Answers, over \in BOOLEAN : urRun' = Asked(r, answer, over)
  BY DEF WarmReader
<1>3. PICK c \in Captures, s \in [URNames -> Answers] : c = urRun.capture /\ s = urRun.said
  BY <1>1 DEF URInv, WarmInv, PushRuns
<1>4. /\ urRun.due \in SUBSET URNames /\ r \in URNames /\ r \in URWarmable /\ s[r] = "deadline"
      /\ \A q \in urRun.due : q \in URWarmable /\ s[q] = "deadline"
      /\ urRun.kind = "attended" /\ urRun.outcome \in NoRowKept
  BY <1>1, <1>2, <1>3 DEF URInv, WarmInv, VerdictInv, UnderWay, BeforePut, PushRuns
<1>5. Tells(c, s) /\ (c.row => Whole(s) # {} \/ Lost(s) = {} \/ \E q \in URWarmable : s[q] = "absent")
  <2>1. urRun.said # NoAnswers
    BY <1>3, <1>4 DEF NoAnswers
  <2> QED BY <1>1, <1>3, <2>1 DEF URInv, SweepIsHonest, Tells, Whole, Lost
<1>10. PICK t, d : t = Heard(s, r, answer, over) /\ d = MergeRetry(c, Retry(r, answer, over), r)
  OBVIOUS
<1>6. /\ d \in Captures /\ t \in [URNames -> Answers] /\ Tells(d, t)
      /\ d.row => c.row \/ Whole(t) # {} \/ t[r] = "absent"
  <2>1. RetryIsTold(c, s, r, MergeRetry(c, Retry(r, answer, over), r), Heard(s, r, answer, over))
    BY <1>4, <1>5, RetryTells
  <2> QED BY <1>10, <2>1 DEF RetryIsTold
<1>7. urRun' = [urRun EXCEPT !.pc = "warm", !.capture = d, !.said = t, !.due = urRun.due \ {r}, !.outcome = urRun.outcome]
  <2>1. urRun' = [urRun EXCEPT !.capture = d, !.said = t, !.due = urRun.due \ {r}]
    BY <1>2, <1>3, <1>10 DEF Asked, Heard
  <2> QED BY <1>1, <2>1 DEF PushRuns
<1>8. \A q \in urRun.due \ {r} : q \in URWarmable /\ t[q] = "deadline"
  BY <1>4, <1>10 DEF Heard
<1>9. d.row => Whole(t) # {} \/ Lost(t) = {} \/ \E q \in URWarmable : t[q] = "absent"
  <2>1. CASE c.row
    <3>1. CASE Whole(s) # {}
      <4>1. \A q \in Whole(s) : q # r
        BY <1>4 DEF Whole
      <4>2. \A q \in Whole(s) : q \in Whole(t)
        BY <1>10, <4>1 DEF Whole, Heard
      <4> QED BY <3>1, <4>2
    <3>2. CASE Lost(s) = {}
      BY <1>4, <3>2 DEF Lost
    <3>3. CASE \E q \in URWarmable : s[q] = "absent"
      <4>1. PICK q \in URWarmable : s[q] = "absent"
        BY <3>3
      <4>2. t[q] = s[q]
        BY <1>4, <1>10, <4>1 DEF Heard
      <4> QED BY <4>1, <4>2
    <3> QED BY <1>5, <2>1, <3>1, <3>2, <3>3
  <2>2. CASE ~c.row
    BY <1>4, <1>6, <2>2
  <2> QED BY <2>1, <2>2
<1> QED BY <1>1, <1>4, <1>6, <1>7, <1>8, <1>9, SweepsKeep DEF Holds

LEMMA BreaksStep == ASSUME URInv, CaptureBreaks PROVE URInv'
<1>1. urRun \in PushRuns /\ urRun.pc \in {"sweep", "warm"} /\ urRun.due \in SUBSET URNames
  BY UnderWayRun DEF URInv, UnderWay, CaptureBreaks, PushRuns
<1>2. urRun' = [urRun EXCEPT !.pc = "scan", !.capture = NoCapture, !.said = NoAnswers, !.due = urRun.due,
                             !.outcome = "capture-failed"]
  BY <1>1 DEF CaptureBreaks, PushRuns
<1>3. NoCapture \in Captures /\ "capture-failed" \in NoRowKept
  BY NoCaptureType DEF NoRowKept
<1>4. UNCHANGED <<urFiles, urStored, urEvidence, urCount>> /\ "scan" # "warm"
  BY DEF CaptureBreaks
<1> DEFINE s == NoAnswers
<1>5. s \in [URNames -> Answers] \cup {NoAnswers} /\ s = NoAnswers
  OBVIOUS
<1> HIDE DEF s
<1>6. urRun' = [urRun EXCEPT !.pc = "scan", !.capture = NoCapture, !.said = s, !.due = urRun.due,
                             !.outcome = "capture-failed"]
  BY <1>2, <1>5
<1> QED BY <1>1, <1>3, <1>4, <1>5, <1>6, SweepsKeep

LEMMA TailStep == ASSUME URInv, EventsTail PROVE URInv'
<1>1. urRun \in PushRuns /\ urRun.pc = "tail" /\ UNCHANGED <<urContent, urSelected, urStored, urEvidence, urCount>>
  BY UnderWayRun DEF URInv, UnderWay, EventsTail
<1>2. ASSUME NEW answer \in [URNames -> Answers], NEW late \in BOOLEAN, UNCHANGED urDay,
             urRun' = [urRun EXCEPT !.capture = Declared(answer, late), !.said = Said(answer, late)]
      PROVE  URInv'
  BY <1>1, <1>2, TailSweepStep DEF urFiles
<1>3. ASSUME NEW failures \in Nat, urRun' = [urRun EXCEPT !.pc = "rescan", !.failures = failures],
             urDay' \in Days, urDay'.rows \subseteq urDay.rows \cup {urCount},
             urRun.kind = "attended" => urDay'.rows = urDay.rows
      PROVE  URInv'
  <2>1. urRun' \in PushRuns
    BY <1>1, <1>3 DEF PushRuns, RunSteps, BeforePut
  <2>2. urRun.outcome \in NoRowKept
    BY <1>1 DEF URInv, VerdictInv, UnderWay, BeforePut
  <2>3. /\ urRun'.kind = urRun.kind /\ urRun'.selected = urRun.selected /\ urRun'.scan = urRun.scan
        /\ urRun'.put = urRun.put /\ urRun'.accepted = urRun.accepted /\ urRun'.result = urRun.result
        /\ urRun'.core = urRun.core /\ urRun'.error = urRun.error /\ urRun'.pc = "rescan"
        /\ urRun'.outcome = urRun.outcome /\ urRun'.row = urRun.row
        /\ urRun'.capture = urRun.capture /\ urRun'.said = urRun.said
    BY <1>1, <1>3 DEF PushRuns
  <2>4. SweepIsHonest'
    BY <1>1, <2>3, SameAnswers DEF URInv
  <2> QED BY <1>1, <1>3, <2>1, <2>2, <2>3, <2>4, WritesKeep
<1>4. \A d \in Days : d.rows \in SUBSET Nat /\ d.mark \in Nat
  <2> SUFFICES ASSUME NEW d \in Days PROVE d.rows \in SUBSET Nat /\ d.mark \in Nat
    OBVIOUS
  <2>1. CASE d = NoDay
    BY <2>1 DEF NoDay
  <2>2. CASE d \in [there : {TRUE}, rows : SUBSET Nat, mark : Nat]
    BY <2>2
  <2> QED BY <2>1, <2>2 DEF Days
<1>5. urDay \in Days /\ urRun.failures \in Nat
  BY <1>1 DEF URInv, URTypes, PushRuns
<1>6. ASSUME urDay' = IF urRun.kind = "auto" /\ urRun.capture.row
                      THEN [Appended(urDay) EXCEPT !.mark = @ + 1]
                      ELSE [urDay EXCEPT !.there = TRUE, !.mark = @ + 1],
             urRun' = [urRun EXCEPT !.pc = "rescan"]
      PROVE  URInv'
  <2>1. urRun' = [urRun EXCEPT !.pc = "rescan", !.failures = urRun.failures]
    BY <1>1, <1>6 DEF PushRuns
  <2>2. CASE urRun.kind = "auto" /\ urRun.capture.row
    <3>1. urDay' = [there |-> TRUE, rows |-> urDay.rows \cup {urCount}, mark |-> urDay.mark + 1]
      BY <1>6, <2>2 DEF Appended
    <3>2. urDay' \in Days
      <4>1. urDay.rows \cup {urCount} \in SUBSET Nat /\ urDay.mark + 1 \in Nat
        BY <1>4, <1>5 DEF URInv, URTypes
      <4> QED BY <3>1, <4>1 DEF Days
    <3> QED BY <1>3, <1>5, <2>1, <2>2, <3>1, <3>2
  <2>3. CASE ~(urRun.kind = "auto" /\ urRun.capture.row)
    <3>1. urDay' = [there |-> TRUE, rows |-> urDay.rows, mark |-> urDay.mark + 1]
      <4>1. urDay = [there |-> urDay.there, rows |-> urDay.rows, mark |-> urDay.mark]
        <5>1. CASE urDay = NoDay
          BY <5>1 DEF NoDay
        <5>2. CASE urDay \in [there : {TRUE}, rows : SUBSET Nat, mark : Nat]
          BY <5>2
        <5> QED BY <1>5, <5>1, <5>2 DEF Days
      <4> QED BY <1>6, <2>3, <4>1
    <3>2. urDay' \in Days
      <4>1. urDay.rows \in SUBSET Nat /\ urDay.mark + 1 \in Nat
        BY <1>4, <1>5
      <4> QED BY <3>1, <4>1 DEF Days
    <3> QED BY <1>3, <1>5, <2>1, <3>1, <3>2
  <2> QED BY <2>2, <2>3
<1>7. ASSUME UNCHANGED urDay, urRun' = [urRun EXCEPT !.pc = "rescan", !.failures = @ + 1]
      PROVE  URInv'
  <2>1. urRun.failures + 1 \in Nat
    BY <1>5
  <2> QED BY <1>3, <1>5, <1>7, <2>1
<1> QED BY <1>2, <1>6, <1>7 DEF EventsTail

LEMMA StartStep == ASSUME URInv, NEW kind \in {"attended", "auto"}, StartRun(kind) PROVE URInv'
<1> DEFINE run == NewRun(kind)
<1>1. /\ urRun' = run /\ urCount' = urCount + 1 /\ urCount \in Nat /\ urCount' \in 0 .. URRuns
      /\ UNCHANGED <<urFiles, urStored, urEvidence>> /\ urSelected \in BOOLEAN
  BY URAssumption DEF StartRun, URInv, URTypes
<1>2. run \in PushRuns
  <2>1. NoDay \in Days /\ {} \in SUBSET URNames
    BY DEF Days
  <2>2. (IF kind = "attended" THEN "capture" ELSE "scan") \in RunSteps /\ "none" \in NoRowKept
    BY DEF RunSteps, BeforePut, NoRowKept
  <2> HIDE DEF run
  <2> QED BY <1>1, <2>1, <2>2, NoCaptureType DEF run, NewRun, PushRuns
<1>3. /\ run.pc \in BeforePut \ {"upload", "put", "warm"} /\ run.kind = kind /\ run.scan.day = NoDay /\ ~run.put
      /\ run.pc \in {"capture", "sweep", "warm"} => kind = "attended"
      /\ ~run.row /\ ~run.core /\ run.outcome = "none" /\ ~run.accepted /\ run.result = "none"
      /\ run.error = "none" /\ run.said = NoAnswers
  BY DEF NewRun, BeforePut
<1> HIDE DEF run
<1>4. urCount' \notin urDay.rows /\ urCount' \notin urStored.day.rows /\ NoDay.rows = {}
  BY <1>1 DEF URInv, URTypes, NoDay
<1>5. URTypes'
  BY <1>1, <1>2 DEF URInv, URTypes, urFiles, urEvidence
<1>6. PutInv' /\ RowInv'
  BY <1>1, <1>3, <1>4 DEF PutInv, RowInv, BeforePut, urFiles
<1>7. VerdictInv' /\ LineInv' /\ FreshInv'
  BY <1>1, <1>3 DEF VerdictInv, LineInv, FreshInv, NoRowKept, BeforePut
<1>8. StartedInv' /\ WarmInv' /\ SweepIsHonest'
  BY <1>1, <1>3 DEF StartedInv, WarmInv, SweepIsHonest
<1> QED BY <1>5, <1>6, <1>7, <1>8 DEF URInv

(* Between two runs only the files and the evidence have to be right.        *)
LEMMA NoRunKeeps ==
  ASSUME urRun' = URIdle, URTypes'
  PROVE  URInv'
<1>1. urRun'.pc = "idle"
  BY DEF URIdle
<1>2. ~UnderWay'
  BY <1>1 DEF UnderWay
<1> QED BY <1>1, <1>2 DEF URInv, StartedInv, WarmInv, PutInv, RowInv, VerdictInv, LineInv, FreshInv, SweepIsHonest

LEMMA IdleRun == ASSUME URTypes, urRun.pc = "idle" PROVE urRun = URIdle
BY DEF URTypes, PushRuns, RunSteps, BeforePut

LEMMA LockHeldStep == ASSUME URInv, NEW kind \in {"attended", "auto"}, LockHeld(kind) PROVE URInv'
<1>1. /\ urRun' = URIdle /\ urCount' = urCount + 1 /\ urCount \in Nat /\ urCount' \in 0 .. URRuns
      /\ UNCHANGED <<urFiles, urStored, urRecord>>
      /\ urTold'.run \in {urTold.run, urCount'}
  <2>1. urRun' = URIdle
    BY IdleRun DEF LockHeld, URInv
  <2>2. /\ urCount' = urCount + 1 /\ urCount \in Nat /\ urCount' \in 0 .. URRuns
    <3>1. urCount \in Nat
      BY DEF URInv, URTypes
    <3>2. urCount < URRuns /\ urCount' = urCount + 1
      BY DEF LockHeld
    <3> QED BY <3>1, <3>2, URAssumption
  <2>3. UNCHANGED <<urFiles, urStored, urRecord>>
    BY DEF LockHeld
  <2>4. urTold'.run \in {urTold.run, urCount'}
    <3>1. CASE kind = "attended"
      <4>1. urTold' = [run |-> urCount', failed |-> TRUE, effects |-> "nothing published"]
        BY <3>1 DEF LockHeld
      <4> QED BY <4>1
    <3>2. CASE kind # "attended"
      <4>1. urTold' = urTold
        BY <3>2 DEF LockHeld
      <4> QED BY <4>1
    <3> QED BY <3>1, <3>2
  <2> QED BY <2>1, <2>2, <2>3, <2>4
<1>2. URTypes'
  BY <1>1 DEF URInv, URTypes, urFiles
<1> QED BY <1>1, <1>2, NoRunKeeps

LEMMA EndStep ==
  ASSUME URInv, RunDies \/ WriteRunRecord \/ WriteBreadcrumb
  PROVE  URInv'
<1>1. /\ urRun' = URIdle /\ UNCHANGED <<urFiles, urStored, urRecord, urCount>>
      /\ urTold'.run \in {urTold.run, urCount} /\ urCount \in Nat
  BY DEF RunDies, WriteRunRecord, WriteBreadcrumb, urEvidence, URInv, URTypes
<1>2. URTypes'
  BY <1>1 DEF URInv, URTypes, urFiles
<1> QED BY <1>1, <1>2, NoRunKeeps

(* What the core leaves is recorded, and ends with the record.               *)
LEMMA AttemptStep == ASSUME URInv, WriteAttempt PROVE URInv'
<1>1. /\ urRun \in PushRuns /\ urRun.pc = "finish"
      /\ UNCHANGED <<urFiles, urStored, urRuns, urTold, urCount>>
  BY UnderWayRun DEF URInv, UnderWay, WriteAttempt
<1>2. urRecord'.run \in 0 .. urCount
  BY <1>1 DEF WriteAttempt, URInv, URTypes
<1>3. PICK error \in {urRun.error, "interrupted"} : urRun' = [urRun EXCEPT !.pc = "record", !.outcome = Stopped, !.error = error]
  <2>1. [urRun EXCEPT !.pc = "record", !.outcome = Stopped]
          = [urRun EXCEPT !.pc = "record", !.outcome = Stopped, !.error = urRun.error]
    BY <1>1 DEF PushRuns
  <2> QED BY <2>1 DEF WriteAttempt
<1>4. /\ Stopped \in {urRun.outcome, "push-failed", "unverified"}
      /\ urRun.core => Stopped = urRun.outcome
  BY DEF Stopped
<1>5. urRun' \in PushRuns
  BY <1>1, <1>3, <1>4 DEF PushRuns, RunSteps, Verdicts
<1>6. SamePut
  BY <1>1, <1>3, <1>5 DEF SamePut, PushRuns, BeforePut, urFiles
<1>7. VerdictInv' /\ LineInv'
  <2>1. /\ urRun'.pc = "record" /\ urRun'.core = urRun.core /\ urRun'.row = urRun.row
        /\ urRun'.outcome = Stopped /\ urStored' = urStored /\ urCount' = urCount
        /\ urRun'.accepted = urRun.accepted /\ urRun'.result = urRun.result
        /\ urRun'.put = urRun.put /\ urRun'.error = error /\ urRun.pc # "idle"
    BY <1>1, <1>3 DEF PushRuns
  <2>2. "record" \notin BeforePut \cup {"accept", "verdict", "after", "gc"}
    BY DEF BeforePut
  <2>3. VerdictInv'
    BY <1>1, <1>4, <2>1, <2>2 DEF URInv, VerdictInv, UnderWay
  <2>4. LineInv'
    BY <1>1, <1>3, <2>1, <2>2 DEF URInv, LineInv, UnderWay
  <2> QED BY <2>3, <2>4
<1> QED BY <1>1, <1>2, <1>6, <1>7, SamePutKeeps DEF URInv, URTypes

(* The user may touch the event file, and the run is then not told.          *)
LEMMA UsageUserStep ==
  ASSUME URInv, EditContent \/ TouchDay \/ ToggleEvents
  PROVE  URInv'
<1>1. UNCHANGED <<urStored, urEvidence, urCount>>
  BY DEF EditContent, TouchDay, ToggleEvents, Touch
<1>2. ASSUME UNCHANGED <<urDay, urRun>>, urContent' \in Nat, urSelected' \in BOOLEAN PROVE URInv'
  <2>1. URTypes'
    BY <1>1, <1>2 DEF URInv, URTypes, urEvidence
  <2> QED BY <1>1, <1>2, <2>1 DEF URInv, StartedInv, WarmInv, PutInv, RowInv, VerdictInv, LineInv, FreshInv, SweepIsHonest, UnderWay
<1>3. CASE EditContent
  <2>1. urContent' \in Nat
    BY <1>3 DEF EditContent, URInv, URTypes
  <2> QED BY <1>2, <1>3, <2>1 DEF EditContent, URInv, URTypes
<1>4. CASE ToggleEvents
  <2>1. urSelected' \in BOOLEAN
    BY <1>4 DEF ToggleEvents
  <2> QED BY <1>2, <1>4, <2>1 DEF ToggleEvents, URInv, URTypes
<1>5. CASE TouchDay
  <2>1. UNCHANGED <<urContent, urSelected>>
    BY <1>5 DEF TouchDay
  <2>2. urDay \in [there : {TRUE}, rows : SUBSET Nat, mark : Nat] /\ NoDay \in Days
    <3>1. NoDay \in Days /\ ~NoDay.there
      BY DEF Days, NoDay
    <3>2. urDay \in Days /\ urDay.there
      BY <1>5 DEF TouchDay, URInv, URTypes
    <3>3. urDay # NoDay
      BY <3>1, <3>2
    <3> QED BY <3>1, <3>2, <3>3 DEF Days
  <2>3. urDay' \in Days /\ urDay'.rows \subseteq urDay.rows
    <3> DEFINE Full == [there : {TRUE}, rows : SUBSET Nat, mark : Nat]
    <3>1. PICK mark \in Nat, none \in SUBSET Nat : mark = urDay.mark + 1 /\ none = {}
      <4>1. urDay.mark + 1 \in Nat /\ {} \in SUBSET Nat
        BY <2>2
      <4> QED BY <4>1
    <3>2. [urDay EXCEPT !.mark = mark] \in Full /\ [urDay EXCEPT !.mark = mark].rows = urDay.rows
      BY <2>2
    <3>3. [urDay EXCEPT !.rows = none, !.mark = mark] \in Full /\ [urDay EXCEPT !.rows = none, !.mark = mark].rows = none
      BY <2>2
    <3>4. CASE urDay' = NoDay
      BY <2>2, <3>4 DEF NoDay
    <3>5. CASE urDay' = [urDay EXCEPT !.mark = @ + 1]
      <4>1. urDay' = [urDay EXCEPT !.mark = mark]
        BY <3>1, <3>5
      <4> QED BY <3>2, <4>1 DEF Days
    <3>6. CASE urDay' = [urDay EXCEPT !.rows = {}, !.mark = @ + 1]
      <4>1. urDay' = [urDay EXCEPT !.rows = none, !.mark = mark]
        BY <3>1, <3>6
      <4> QED BY <3>1, <3>3, <4>1 DEF Days
    <3> QED BY <1>5, <3>4, <3>5, <3>6 DEF TouchDay
  <2>4. CASE urRun.pc = "idle"
    <3>1. urRun' = URIdle
      BY <1>5, <2>4, IdleRun DEF TouchDay, URInv
    <3>2. URTypes'
      BY <1>1, <2>1, <2>3, <3>1 DEF URInv, URTypes, urEvidence
    <3> QED BY <3>1, <3>2, NoRunKeeps
  <2>5. CASE urRun.pc # "idle"
    <3>1. urRun' = [urRun EXCEPT !.quiet = FALSE] /\ urRun \in PushRuns
      BY <1>5, <2>5, UnderWayRun DEF TouchDay, URInv, UnderWay
    <3>2. urRun' \in PushRuns
      BY <3>1 DEF PushRuns
    <3>3. /\ urRun'.pc = urRun.pc /\ urRun'.kind = urRun.kind /\ urRun'.selected = urRun.selected
          /\ urRun'.scan = urRun.scan /\ urRun'.put = urRun.put /\ urRun'.accepted = urRun.accepted
          /\ urRun'.result = urRun.result /\ urRun'.core = urRun.core /\ urRun'.error = urRun.error
          /\ urRun'.row = urRun.row /\ urRun'.capture = urRun.capture /\ urRun'.said = urRun.said
          /\ urRun'.due = urRun.due /\ urRun'.outcome = urRun.outcome /\ urRun'.quiet = FALSE
      BY <3>1 DEF PushRuns
    <3>4. URTypes'
      BY <1>1, <2>1, <2>3, <3>2 DEF URInv, URTypes, urEvidence
    <3>5. PutInv' /\ RowInv'
      BY <1>1, <2>3, <3>3 DEF URInv, PutInv, RowInv, UnderWay
    <3>6. VerdictInv' /\ LineInv' /\ FreshInv'
      BY <1>1, <3>3 DEF URInv, VerdictInv, LineInv, FreshInv, UnderWay
    <3>7. StartedInv' /\ WarmInv' /\ SweepIsHonest'
      BY <1>1, <2>5, <3>3 DEF URInv, StartedInv, WarmInv, SweepIsHonest, UnderWay
    <3> QED BY <3>4, <3>5, <3>6, <3>7 DEF URInv
  <2> QED BY <2>4, <2>5
<1> QED BY <1>3, <1>4, <1>5

LEMMA InitKeeps == URInit => URInv
<1> SUFFICES ASSUME URInit PROVE URInv
  OBVIOUS
<1>1. NoDay \in Days /\ NoDay.rows = {}
  BY DEF Days, NoDay
<1>2. urDay = NoDay /\ urStored = [content |-> 1, day |-> NoDay] /\ urContent = 1 /\ urSelected = TRUE /\ urCount = 0
  BY DEF URInit
<1>3. urRecord.run = 0 /\ urTold.run = 0
  BY DEF URInit
<1>4. urRun = URIdle /\ urRun.pc = "idle"
  BY DEF URInit, URIdle
<1>5. URTypes
  BY <1>1, <1>2, <1>3, <1>4, URAssumption DEF URTypes
<1>6. ~UnderWay
  BY <1>4 DEF UnderWay
<1> QED BY <1>4, <1>5, <1>6 DEF URInv, StartedInv, WarmInv, PutInv, RowInv, VerdictInv, LineInv, FreshInv, SweepIsHonest

LEMMA StillKeeps == ASSUME URInv, UNCHANGED urVars PROVE URInv'
<1>1. /\ urDay' = urDay /\ urContent' = urContent /\ urSelected' = urSelected /\ urStored' = urStored
      /\ urRecord' = urRecord /\ urTold' = urTold /\ urRun' = urRun /\ urCount' = urCount
  BY DEF urVars, urFiles, urEvidence
<1>2. URTypes' /\ StartedInv' /\ WarmInv'
  BY <1>1 DEF URInv, URTypes, StartedInv, WarmInv, UnderWay
<1>3. PutInv' /\ RowInv' /\ VerdictInv'
  BY <1>1 DEF URInv, PutInv, RowInv, VerdictInv, UnderWay
<1>4. LineInv' /\ FreshInv' /\ SweepIsHonest'
  BY <1>1 DEF URInv, LineInv, FreshInv, SweepIsHonest, UnderWay
<1> QED BY <1>2, <1>3, <1>4 DEF URInv

(* URInv is inductive, one lemma per action.                                 *)
LEMMA RunsKeep == ASSUME URInv, [URNext]_urVars PROVE URInv'
<1>1. CASE \E kind \in {"attended", "auto"} : StartRun(kind) \/ LockHeld(kind)
  BY <1>1, StartStep, LockHeldStep
<1>2. CASE BeginCapture \/ SweepReaders \/ WarmReader \/ CaptureDone \/ CaptureBreaks \/ AppendRow
  BY <1>2, BeginCaptureStep, SweepStep, WarmStep, CaptureDoneStep, BreaksStep, AppendStep
<1>3. CASE ScanFiles \/ Gate \/ EventsTail \/ RescanEvents \/ UploadFiles \/ PutAccepted \/ Accept
  BY <1>3, ScanStep, GateStep, TailStep, PutStep, AcceptStep
<1>4. CASE ReportPublication \/ Maintain \/ CollectOrphans \/ StopRun \/ InterruptRun \/ RunDies
  BY <1>4, ReportStep, AfterStep, StopStep, EndStep
<1>5. CASE WriteAttempt \/ WriteRunRecord \/ WriteBreadcrumb
  BY <1>5, AttemptStep, EndStep
<1>6. CASE EditContent \/ TouchDay \/ ToggleEvents
  BY <1>6, UsageUserStep
<1>7. CASE UNCHANGED urVars
  BY <1>7, StillKeeps
<1> QED BY <1>1, <1>2, <1>3, <1>4, <1>5, <1>6, <1>7 DEF URNext

(* The run records are records: an entry changes alone.                      *)
RunOutcomes == {"none", "skipped", "lock-held", "failed", "degraded", "success"}
RunRecords == [attended : [run : Nat, outcome : RunOutcomes, accepted : BOOLEAN], auto : RunOutcomes]
RunsInv == urRuns \in RunRecords

LEMMA EntriesAlone ==
  ASSUME RunsInv, NEW run \in Nat, NEW outcome \in RunOutcomes, NEW accepted \in BOOLEAN, NEW entry,
         entry = [run |-> run, outcome |-> outcome, accepted |-> accepted]
  PROVE  /\ [urRuns EXCEPT !.attended = entry] \in RunRecords /\ [urRuns EXCEPT !.attended = entry].attended = entry
         /\ entry.accepted = accepted
<1>1. entry \in [run : Nat, outcome : RunOutcomes, accepted : BOOLEAN] /\ entry.accepted = accepted
  OBVIOUS
<1> QED BY <1>1 DEF RunsInv, RunRecords

LEMMA CrumbsAlone ==
  ASSUME RunsInv, NEW auto \in RunOutcomes
  PROVE  [urRuns EXCEPT !.auto = auto] \in RunRecords /\ [urRuns EXCEPT !.auto = auto].attended = urRuns.attended
BY DEF RunsInv, RunRecords

(* The run record as an attended push leaves it.                             *)
LEMMA RunRecorded ==
  ASSUME URInv, RunsInv, WriteRunRecord
  PROVE  RunsInv' /\ (urRuns'.attended # urRuns.attended => urRuns'.attended.accepted = urRun.accepted)
<1>1. urRun \in PushRuns /\ urRun.accepted \in BOOLEAN /\ urCount \in Nat
  BY UnderWayRun DEF URInv, URTypes, UnderWay, WriteRunRecord, PushRuns
<1>2. CASE UNCHANGED urRuns
  BY <1>2 DEF RunsInv
<1>3. CASE ~UNCHANGED urRuns
  <2>1. PICK outcome \in {"failed", "degraded", "success"} :
          urRuns' = [urRuns EXCEPT !.attended = [run |-> urCount, accepted |-> urRun.accepted, outcome |-> outcome]]
    BY <1>3 DEF WriteRunRecord
  <2>2. PICK entry : entry = [run |-> urCount, outcome |-> outcome, accepted |-> urRun.accepted]
    OBVIOUS
  <2>3. urRuns' = [urRuns EXCEPT !.attended = entry]
    BY <2>1, <2>2
  <2>4. outcome \in RunOutcomes
    BY DEF RunOutcomes
  <2> QED BY <1>1, <2>2, <2>3, <2>4, EntriesAlone DEF RunsInv
<1> QED BY <1>2, <1>3

LEMMA BreadcrumbAlone ==
  ASSUME RunsInv, WriteBreadcrumb
  PROVE  RunsInv' /\ urRuns'.attended = urRuns.attended
<1>1. CASE UNCHANGED urRuns
  BY <1>1 DEF RunsInv
<1>2. CASE ~UNCHANGED urRuns
  <2>1. PICK auto \in {"failed", "degraded", "success"} : urRuns' = [urRuns EXCEPT !.auto = auto]
    BY <1>2 DEF WriteBreadcrumb
  <2>2. auto \in RunOutcomes
    BY DEF RunOutcomes
  <2> QED BY <2>1, <2>2, CrumbsAlone DEF RunsInv
<1> QED BY <1>1, <1>2

LEMMA LockHeldRecorded ==
  ASSUME URInv, RunsInv, NEW kind \in {"attended", "auto"}, LockHeld(kind)
  PROVE  RunsInv' /\ (urRuns'.attended # urRuns.attended => ~urRuns'.attended.accepted)
<1>1. urCount' \in Nat
  <2>1. urCount \in Nat
    BY DEF URInv, URTypes
  <2>2. urCount' = urCount + 1
    BY DEF LockHeld
  <2> QED BY <2>1, <2>2
<1>2. CASE kind = "attended"
  <2>1. urRuns' = [urRuns EXCEPT !.attended = [run |-> urCount', outcome |-> "skipped", accepted |-> FALSE]]
    BY <1>2 DEF LockHeld
  <2>2. PICK n \in Nat, b \in BOOLEAN : n = urCount' /\ b = FALSE
    BY <1>1
  <2>3. PICK outcome \in RunOutcomes : outcome = "skipped"
    BY DEF RunOutcomes
  <2>4. PICK entry : entry = [run |-> n, outcome |-> outcome, accepted |-> b]
    OBVIOUS
  <2>5. urRuns' = [urRuns EXCEPT !.attended = entry]
    BY <2>1, <2>2, <2>3, <2>4
  <2>6. urRuns' \in RunRecords /\ urRuns'.attended = entry /\ entry.accepted = b
    BY <2>4, <2>5, EntriesAlone
  <2> QED BY <2>2, <2>6 DEF RunsInv
<1>3. CASE kind # "attended"
  <2>1. urRuns' = [urRuns EXCEPT !.auto = "lock-held"]
    BY <1>3 DEF LockHeld
  <2>2. PICK auto \in RunOutcomes : auto = "lock-held"
    BY DEF RunOutcomes
  <2>3. urRuns' \in RunRecords /\ urRuns'.attended = urRuns.attended
    BY <2>1, <2>2, CrumbsAlone
  <2> QED BY <2>3 DEF RunsInv
<1> QED BY <1>2, <1>3

(* Every other step leaves the run records and the closing line.             *)
Tellers == WriteRunRecord \/ WriteBreadcrumb \/ \E kind \in {"attended", "auto"} : LockHeld(kind)
LEMMA OthersAreSilent ==
  ASSUME [URNext]_urVars, ~Tellers
  PROVE  UNCHANGED <<urRuns, urTold>>
<1>1. CASE \E kind \in {"attended", "auto"} : StartRun(kind)
  BY <1>1 DEF StartRun, urEvidence
<1>2. CASE BeginCapture \/ SweepReaders \/ WarmReader \/ CaptureDone \/ CaptureBreaks \/ AppendRow
  BY <1>2 DEF BeginCapture, SweepReaders, WarmReader, CaptureDone, CaptureBreaks, AppendRow, Holds, urEvidence
<1>3. CASE ScanFiles \/ Gate \/ EventsTail \/ RescanEvents \/ UploadFiles \/ PutAccepted \/ Accept
  BY <1>3 DEF ScanFiles, Gate, EventsTail, RescanEvents, UploadFiles, PutAccepted, Accept, Holds, urEvidence
<1>4. CASE ReportPublication \/ Maintain \/ CollectOrphans \/ StopRun \/ InterruptRun \/ RunDies
  BY <1>4 DEF ReportPublication, Maintain, CollectOrphans, StopRun, InterruptRun, RunDies, Holds, urEvidence
<1>5. CASE WriteAttempt
  BY <1>5 DEF WriteAttempt
<1>6. CASE EditContent \/ TouchDay \/ ToggleEvents
  BY <1>6 DEF EditContent, TouchDay, ToggleEvents, Touch, urEvidence
<1>7. CASE UNCHANGED urVars
  BY <1>7 DEF urVars, urEvidence
<1> QED BY <1>1, <1>2, <1>3, <1>4, <1>5, <1>6, <1>7 DEF URNext, Tellers

LEMMA RecordsKeep == ASSUME URInv, RunsInv, [URNext]_urVars PROVE RunsInv'
<1>1. CASE Tellers
  BY <1>1, RunRecorded, BreadcrumbAlone, LockHeldRecorded DEF Tellers
<1>2. CASE ~Tellers
  BY <1>2, OthersAreSilent DEF RunsInv
<1> QED BY <1>1, <1>2

(* The capture record is written once, from an outcome that is right.        *)
LEMMA OnlyAttemptRecords ==
  ASSUME [URNext]_urVars, ~WriteAttempt
  PROVE  UNCHANGED urRecord
<1>1. CASE \E kind \in {"attended", "auto"} : StartRun(kind) \/ LockHeld(kind)
  BY <1>1 DEF StartRun, LockHeld, urEvidence
<1>2. CASE BeginCapture \/ SweepReaders \/ WarmReader \/ CaptureDone \/ CaptureBreaks \/ AppendRow
  BY <1>2 DEF BeginCapture, SweepReaders, WarmReader, CaptureDone, CaptureBreaks, AppendRow, Holds, urEvidence
<1>3. CASE ScanFiles \/ Gate \/ EventsTail \/ RescanEvents \/ UploadFiles \/ PutAccepted \/ Accept
  BY <1>3 DEF ScanFiles, Gate, EventsTail, RescanEvents, UploadFiles, PutAccepted, Accept, Holds, urEvidence
<1>4. CASE ReportPublication \/ Maintain \/ CollectOrphans \/ StopRun \/ InterruptRun \/ RunDies
  BY <1>4 DEF ReportPublication, Maintain, CollectOrphans, StopRun, InterruptRun, RunDies, Holds, urEvidence
<1>5. CASE WriteRunRecord \/ WriteBreadcrumb
  BY <1>5 DEF WriteRunRecord, WriteBreadcrumb
<1>6. CASE EditContent \/ TouchDay \/ ToggleEvents
  BY <1>6 DEF EditContent, TouchDay, ToggleEvents, Touch, urEvidence
<1>7. CASE UNCHANGED urVars
  BY <1>7 DEF urVars, urEvidence
<1> QED BY <1>1, <1>2, <1>3, <1>4, <1>5, <1>6, <1>7 DEF URNext

LEMMA RecordTells == ASSUME URInv, [URNext]_urVars PROVE RecordIsTrue
<1> SUFFICES ASSUME urRecord' # urRecord PROVE RecordIsTrue
  BY DEF RecordIsTrue
<1>1. WriteAttempt
  BY OnlyAttemptRecords
<1>2. urRun \in PushRuns /\ urRun.pc = "finish" /\ urRun.kind = "attended"
  BY <1>1, UnderWayRun DEF URInv, UnderWay, WriteAttempt
<1>3. /\ urRun.row \in BOOLEAN /\ urRun.core \in BOOLEAN /\ urRun.accepted \in BOOLEAN /\ urRun.put \in BOOLEAN
      /\ urRun.outcome \in Verdicts \cup NoRowKept
  BY <1>2 DEF PushRuns, URInv, VerdictInv, UnderWay
<1>4. PICK class : class = IF Stopped = "begun" THEN "capture-failed" ELSE Stopped
  OBVIOUS
<1>5. Stopped # "none" /\ urRecord' = [class |-> class, run |-> urCount]
  BY <1>1, <1>4 DEF WriteAttempt
<1>6. urRecord'.class = class /\ urRecord'.run = urCount
  BY <1>5
<1>7. /\ (urRun.row /\ urRun.core) => urRun.outcome \in Verdicts
      /\ urRun.outcome = "published" => urCount \in urStored.day.rows
      /\ urRun.outcome = "not-published" => urCount \notin urStored.day.rows
      /\ ~urRun.row => urCount \notin urStored.day.rows
  BY <1>2, <1>3 DEF URInv, VerdictInv, PutInv, RowInv, UnderWay
<1>8. /\ class = "published" => urRun.outcome = "published"
      /\ class = "push-failed" => ~urRun.accepted
      /\ class \notin {"published", "push-failed", "unverified"} => urRun.outcome = "not-published" \/ ~urRun.row
  <2>1. CASE urRun.outcome \in Verdicts
    BY <1>4, <2>1 DEF Stopped, Verdicts
  <2>2. CASE urRun.outcome \in NoRowKept
    <3>1. "published" \notin NoRowKept /\ "push-failed" \notin NoRowKept /\ urRun.outcome \notin Verdicts
      BY <2>2 DEF NoRowKept, Verdicts
    <3> QED BY <1>3, <1>4, <1>5, <1>7, <2>2, <3>1 DEF Stopped, Verdicts
  <2> QED BY <1>3, <2>1, <2>2
<1> QED BY <1>6, <1>7, <1>8 DEF RecordIsTrue

(* The closing line of a push that went through the core.                    *)
LEMMA RunLine ==
  ASSUME URInv, RunsInv, WriteRunRecord
  PROVE  LineIsTrue
<1>1. /\ urRun \in PushRuns /\ urRun.pc = "record" /\ urRun.put \in BOOLEAN /\ urRun.quiet \in BOOLEAN
      /\ urRun.selected \in BOOLEAN /\ urRun.accepted \in BOOLEAN
  BY UnderWayRun DEF URInv, UnderWay, WriteRunRecord, PushRuns
<1>2. PICK failed \in BOOLEAN : failed = (urRun.error # "none")
  OBVIOUS
<1>3. urTold' = [run |-> urCount, failed |-> failed, effects |-> Effects]
  BY <1>2 DEF WriteRunRecord
<1>4. urTold'.failed = failed /\ urTold'.effects = Effects
  BY <1>3
<1>5. /\ Effects = "published" => urRun.put
      /\ Effects \in {"nothing published", "no changes"} => ~urRun.put
  BY <1>1 DEF Effects, URInv, LineInv, UnderWay
<1>6. (urRuns'.attended # urRuns.attended /\ urRuns'.attended.accepted) => urRun.put
  <2>1. urRun.accepted => urRun.put
    BY <1>1 DEF URInv, LineInv, UnderWay
  <2> QED BY <2>1, RunRecorded
<1>7. (urRun.quiet /\ urRun.selected /\ urRun.put) => urStored.day = urDay
  BY <1>1 DEF URInv, FreshInv, PutInv, UnderWay
<1> QED BY <1>4, <1>5, <1>6, <1>7 DEF LineIsTrue

LEMMA LineTells == ASSUME URInv, RunsInv, [URNext]_urVars PROVE LineIsTrue
<1>1. CASE WriteRunRecord
  BY <1>1, RunLine
<1>2. CASE WriteBreadcrumb
  <2>1. urTold' = urTold
    BY <1>2 DEF WriteBreadcrumb
  <2>2. urRuns'.attended = urRuns.attended
    BY <1>2, BreadcrumbAlone
  <2> QED BY <2>1, <2>2 DEF LineIsTrue
<1>3. ASSUME NEW kind \in {"attended", "auto"}, LockHeld(kind) PROVE LineIsTrue
  <2>1. urRun.pc = "idle"
    BY <1>3 DEF LockHeld
  <2>2. urRuns'.attended # urRuns.attended => ~urRuns'.attended.accepted
    BY <1>3, LockHeldRecorded
  <2>3. CASE urTold' = urTold
    BY <2>2, <2>3 DEF LineIsTrue
  <2>4. CASE urTold' # urTold
    <3>1. urTold' = [run |-> urCount', failed |-> TRUE, effects |-> "nothing published"]
      BY <1>3, <2>4 DEF LockHeld
    <3>2. urTold'.failed /\ urTold'.effects = "nothing published"
      BY <3>1
    <3> QED BY <2>1, <2>2, <3>2 DEF LineIsTrue
  <2> QED BY <2>3, <2>4
<1>4. CASE ~Tellers
  BY <1>4, OthersAreSilent DEF LineIsTrue
<1> QED BY <1>1, <1>2, <1>3, <1>4 DEF Tellers

(* What a push says of itself is true, whatever happens to it and to the     *)
(* files while it runs: its capture record, its run record, its closing line *)
(* and the row its readers make.                                            *)
THEOREM ReportsTrue == URSpec => ReportsAreTrue
<1>1. URInit => URInv /\ RunsInv
  <2>1. URInit => RunsInv
    BY DEF URInit, RunsInv, RunRecords, NoEvidence, RunOutcomes
  <2> QED BY <2>1, InitKeeps
<1>2. (URInv /\ RunsInv) /\ [URNext]_urVars => (URInv /\ RunsInv)'
  BY RunsKeep, RecordsKeep
<1>3. (URInv /\ RunsInv) /\ [URNext]_urVars => [RecordIsTrue /\ LineIsTrue]_urVars
  BY RecordTells, LineTells
<1>4. URInv /\ RunsInv => URTypeOK /\ SweepIsHonest
  <2> SUFFICES ASSUME URInv PROVE URTypeOK
    BY DEF URInv
  <2> QED BY URAssumption DEF URInv, URTypes, URTypeOK
<1> QED BY <1>1, <1>2, <1>3, <1>4, PTL DEF URSpec, ReportsAreTrue

(* The steps of a command, and those in which it is in a transaction.        *)
Steps == {"idle", "work", "open", "migrate", "begin", "stat", "read-one", "read-live", "commit"}
Within == {"stat", "read-one", "read-live", "commit"}
Recorded == [by : HDWriters, n : Nat, class : HDWriters]
Commands(import) ==
  [pc : Steps, done : Nat, first : Nat, buffer : Seq(Recorded), failed : BOOLEAN, ending : BOOLEAN,
   import : {import}]
CommandsInv ==
  /\ hdWriter = [w \in HDWriters |-> hdWriter[w]]
  /\ \A w \in HDWriters : hdWriter[w] \in Commands(hdWriter[w].import)

(* The table and its version; what was committed is in a table.              *)
Tables(rows, stat) ==
  [there : BOOLEAN, version : 0 .. 2, compat : 0 .. 2, rows : {rows}, imported : BOOLEAN, pending : BOOLEAN,
   stat : {stat}]
TableInv ==
  /\ hdDb \in Tables(hdDb.rows, hdDb.stat) /\ hdDb.compat = hdDb.version
  /\ hdDb.version > 0 => hdDb.there
  /\ hdLog # <<>> => hdDb.version > 0 /\ hdDb.imported
  /\ hdLog \in Seq(Recorded)

(* The lock has one holder, and for it the schema is known and stays.        *)
Opened(pc) ==
  /\ pc \in Within \cup {"migrate", "begin"} => hdDb.there
  /\ pc \in Within \cup {"begin"} => hdDb.version > 0
  /\ pc \in Within => ~TooNew
HolderInv ==
  /\ hdLock \in HDWriters \cup {NoOneWrites}
  /\ \A w \in HDWriters : (hdWriter[w].pc \in Within <=> hdLock = w) /\ Opened(hdWriter[w].pc)

(* What a command has buffered follows what it has committed.                *)
Mine(w, first, log) == {r.n : r \in {q \in ToSet(log) : q.by = w /\ q.n > first}}
Waits(w, done, length) == [i \in 1 .. length |-> Row(w, done - length + i, w)]
Waiting(w, me) == Waits(w, me.done, Len(me.buffer))
Buffered(w, me, log) ==
  /\ me.first <= me.done
  /\ Len(me.buffer) <= me.done - me.first /\ Len(me.buffer) <= HDBatch
  /\ me.buffer = Waiting(w, me)
  /\ me.pc = "work" => Len(me.buffer) < HDBatch
  /\ me.pc = "idle" => me.buffer = <<>>
  /\ me.failed => me.pc \in {"idle", "work"} /\ me.buffer = <<>>
  /\ \A q \in ToSet(log) : q.by = w => q.n <= me.done
  /\ \E last \in me.first .. me.done :
       /\ Mine(w, me.first, log) = me.first + 1 .. last
       /\ ~me.failed => last = me.done - Len(me.buffer)
BuffersInv == \A w \in HDWriters : Buffered(w, hdWriter[w], hdLog)

(* Legacy files are shown only before the first row was committed.           *)
ReaderInv == NoTableHidden

HDInv == CommandsInv /\ TableInv /\ HolderInv /\ BuffersInv /\ ReaderInv

LEMMA NoRows == ASSUME NEW R PROVE <<>> \in Seq(R)
OBVIOUS

(* One command goes to me; the others stand.                                 *)
LEMMA CommandGoes ==
  ASSUME CommandsInv, NEW w \in HDWriters, NEW import, NEW me \in Commands(import), Does(w, me)
  PROVE  /\ CommandsInv' /\ hdWriter'[w] = me
         /\ \A v \in HDWriters \ {w} : hdWriter'[v] = hdWriter[v]
<1>1. hdWriter' = [v \in HDWriters |-> IF v = w THEN me ELSE hdWriter[v]]
  BY DEF CommandsInv, Does
<1>2. me \in Commands(me.import)
  BY DEF Commands
<1> QED BY <1>1, <1>2 DEF CommandsInv

(* Fields of a command, and a command with some of them changed.             *)
LEMMA CommandFields ==
  ASSUME CommandsInv, NEW w \in HDWriters
  PROVE  LET me == hdWriter[w]
         IN  /\ me.pc \in Steps /\ me.done \in Nat /\ me.first \in Nat /\ me.buffer \in Seq(Recorded)
             /\ me.failed \in BOOLEAN /\ me.ending \in BOOLEAN
             /\ \A pc \in Steps : [me EXCEPT !.pc = pc] \in Commands(me.import)
             /\ \A pc \in Steps : \A import : [me EXCEPT !.pc = pc, !.import = import] \in Commands(import)
BY DEF CommandsInv, Commands

(* A step that is of one command: its lock, its buffer, and what is committed. *)
LEMMA CommandSteps ==
  ASSUME HDInv, NEW w \in HDWriters, NEW import, NEW me \in Commands(import), Does(w, me),
         UNCHANGED hdReader, TableInv',
         hdDb.there => hdDb'.there, hdDb'.version >= hdDb.version, TooNew' = TooNew,
         \/ UNCHANGED hdLock /\ (me.pc \in Within <=> hdWriter[w].pc \in Within)
         \/ hdLock = NoOneWrites /\ hdLock' = w /\ me.pc \in Within
         \/ hdLock = w /\ hdLock' = NoOneWrites /\ me.pc \notin Within,
         Opened(me.pc)', NEW log, hdLog' = log, Buffered(w, me, log),
         \A v \in HDWriters \ {w} : Buffered(v, hdWriter[v], log)
  PROVE  HDInv'
<1>1. /\ CommandsInv' /\ hdWriter'[w] = me
      /\ \A v \in HDWriters \ {w} : hdWriter'[v] = hdWriter[v]
  BY CommandGoes DEF HDInv
<1>2. HolderInv'
  <2>1. hdLock' \in HDWriters \cup {NoOneWrites}
    BY DEF HDInv, HolderInv
  <2>2. NoOneWrites \notin HDWriters
    BY HDAssumption DEF NoOneWrites
  <2>3. \A v \in HDWriters : hdWriter'[v].pc \in Within <=> hdLock' = v
    BY <1>1, <2>2 DEF HDInv, HolderInv
  <2>4. hdDb.version \in 0 .. 2 /\ hdDb'.version \in 0 .. 2
    BY DEF HDInv, TableInv, Tables
  <2>5. ASSUME NEW v \in HDWriters PROVE Opened(hdWriter[v].pc)'
    <3>1. CASE v = w
      BY <1>1, <3>1
    <3>2. CASE v # w
      <4>1. PICK pc : pc = hdWriter[v].pc
        OBVIOUS
      <4>2. Opened(pc) /\ hdWriter'[v].pc = pc
        BY <1>1, <3>2, <4>1 DEF HDInv, HolderInv
      <4>3. /\ pc \in Within \cup {"migrate", "begin"} => hdDb'.there
            /\ pc \in Within \cup {"begin"} => hdDb'.version > 0
            /\ pc \in Within => ~TooNew'
        BY <4>2, <2>4 DEF Opened
      <4>4. Opened(hdWriter[v].pc)' <=> (/\ hdWriter'[v].pc \in Within \cup {"migrate", "begin"} => hdDb'.there
                                         /\ hdWriter'[v].pc \in Within \cup {"begin"} => hdDb'.version > 0
                                         /\ hdWriter'[v].pc \in Within => ~TooNew')
        BY DEF Opened, TooNew
      <4> QED BY <4>2, <4>3, <4>4
    <3> QED BY <3>1, <3>2
  <2> QED BY <2>1, <2>3, <2>5 DEF HolderInv
<1>3. BuffersInv'
  BY <1>1 DEF HDInv, BuffersInv
<1>4. ReaderInv'
  BY DEF HDInv, ReaderInv, NoTableHidden
<1> QED BY <1>1, <1>2, <1>3, <1>4 DEF HDInv
LEMMA CommandKeeps ==
  ASSUME HDInv, NEW w \in HDWriters, NEW import, NEW me \in Commands(import), Does(w, me),
         UNCHANGED <<hdLog, hdReader>>, TableInv',
         hdDb.there => hdDb'.there, hdDb'.version >= hdDb.version, TooNew' = TooNew,
         \/ UNCHANGED hdLock /\ (me.pc \in Within <=> hdWriter[w].pc \in Within)
         \/ hdLock = NoOneWrites /\ hdLock' = w /\ me.pc \in Within
         \/ hdLock = w /\ hdLock' = NoOneWrites /\ me.pc \notin Within,
         Opened(me.pc)', Buffered(w, me, hdLog)
  PROVE  HDInv'
<1>1. PICK log : log = hdLog
  OBVIOUS
<1>2. \A v \in HDWriters : Buffered(v, hdWriter[v], log)
  BY <1>1 DEF HDInv, BuffersInv
<1>3. hdLog' = log /\ Buffered(w, me, log) /\ UNCHANGED hdReader
  BY <1>1
<1> QED BY <1>2, <1>3, CommandSteps


(* A flush under way keeps what it has to write.                             *)
LEMMA SameBuffer ==
  ASSUME NEW w, NEW me, NEW mine, NEW log, Buffered(w, me, log),
         me.pc \notin {"idle", "work"}, mine.pc \notin {"idle", "work"},
         mine.done = me.done, mine.first = me.first, mine.buffer = me.buffer, mine.failed = me.failed
  PROVE  Buffered(w, mine, log)
BY DEF Buffered, Waiting

(* Rows that are not written are given up for good.                          *)
LEMMA NoBuffer ==
  ASSUME NEW w, NEW me, NEW mine, NEW log, Buffered(w, me, log), me.done \in Nat, me.first \in Nat,
         mine.pc \in {"idle", "work"}, mine.done = me.done, mine.first = me.first, mine.buffer = <<>>,
         mine.failed = TRUE
  PROVE  Buffered(w, mine, log)
<1>1. mine.buffer = Waiting(w, mine) /\ Len(mine.buffer) = 0
  BY DEF Waiting, Waits
<1> QED BY <1>1, HDAssumption DEF Buffered

LEMMA NotFailed == ASSUME NEW w, NEW me, NEW log, Buffered(w, me, log), me.pc \notin {"idle", "work"} PROVE ~me.failed
BY DEF Buffered

(* Dropping a flush, also within a transaction.                              *)
LEMMA DropsKeeps ==
  ASSUME HDInv, NEW w \in HDWriters, hdWriter[w].pc \notin {"idle", "work"}, Drops(w),
         UNCHANGED <<hdLog, hdReader>>, TableInv',
         hdDb.there => hdDb'.there, hdDb'.version >= hdDb.version, TooNew' = TooNew,
         \/ UNCHANGED hdLock /\ hdLock # w
         \/ hdLock = w /\ hdLock' = NoOneWrites
  PROVE  HDInv'
<1> DEFINE old == hdWriter[w]
<1>1. PICK me : /\ me = [old EXCEPT !.pc = AfterFlush(w), !.buffer = <<>>, !.failed = TRUE, !.import = NoBatch]
                /\ Does(w, me)
  BY DEF Drops
<1>2. AfterFlush(w) \in {"idle", "work"}
  BY DEF AfterFlush
<1>3. old \in Commands(old.import) /\ AfterFlush(w) \in Steps
  BY <1>2 DEF HDInv, CommandsInv, Steps
<1>4. me \in Commands(NoBatch)
  <2>1. PICK no \in Seq(Recorded) : no = <<>>
    BY NoRows
  <2>2. PICK yes \in BOOLEAN : yes = TRUE
    OBVIOUS
  <2>3. me = [old EXCEPT !.pc = AfterFlush(w), !.buffer = no, !.failed = yes, !.import = NoBatch]
    BY <1>1, <2>1, <2>2
  <2> QED BY <1>3, <2>3 DEF Commands
<1>5. /\ me.pc = AfterFlush(w) /\ me.done = old.done /\ me.first = old.first /\ me.buffer = <<>> /\ me.failed = TRUE
      /\ old.done \in Nat /\ old.first \in Nat
  BY <1>1, <1>3 DEF Commands
<1>6. Buffered(w, me, hdLog)
  <2>1. Buffered(w, old, hdLog)
    BY DEF HDInv, BuffersInv
  <2> HIDE DEF old
  <2> QED BY <1>2, <1>5, <2>1, NoBuffer
<1>7. me.pc \notin Within \cup {"migrate", "begin"}
  BY <1>2, <1>5 DEF Within
<1>8. hdWriter[w].pc \in Within <=> hdLock = w
  BY DEF HDInv, HolderInv
<1>9. Opened(me.pc)'
  BY <1>7 DEF Opened, Within
<1> QED BY <1>1, <1>4, <1>6, <1>7, <1>8, <1>9, CommandKeeps

(* A step of a flush under way, up to its commit.                            *)
LEMMA FlushKeeps ==
  ASSUME HDInv, NEW w \in HDWriters, hdWriter[w].pc \notin {"idle", "work"},
         NEW pc \in Steps \ {"idle", "work"}, NEW import,
         Does(w, [hdWriter[w] EXCEPT !.pc = pc, !.import = import]),
         UNCHANGED <<hdLog, hdReader>>, TableInv',
         hdDb.there => hdDb'.there, hdDb'.version >= hdDb.version, TooNew' = TooNew,
         \/ UNCHANGED hdLock /\ (pc \in Within <=> hdWriter[w].pc \in Within)
         \/ hdLock = NoOneWrites /\ hdLock' = w /\ pc \in Within,
         Opened(pc)'
  PROVE  HDInv'
<1> DEFINE old == hdWriter[w]
<1>1. PICK me : me = [old EXCEPT !.pc = pc, !.import = import] /\ Does(w, me)
  OBVIOUS
<1>2. old \in Commands(old.import)
  BY DEF HDInv, CommandsInv
<1>3. me \in Commands(import)
  BY <1>1, <1>2 DEF Commands
<1>4. me.pc = pc /\ me.done = old.done /\ me.first = old.first /\ me.buffer = old.buffer /\ me.failed = old.failed
  BY <1>1, <1>2 DEF Commands
<1>5. Buffered(w, me, hdLog)
  <2>1. Buffered(w, old, hdLog)
    BY DEF HDInv, BuffersInv
  <2>2. old.pc \notin {"idle", "work"} /\ me.pc \notin {"idle", "work"}
    BY <1>4
  <2> HIDE DEF old
  <2> QED BY <1>4, <2>1, <2>2, SameBuffer
<1>6. Opened(me.pc)'
  BY <1>4 DEF Opened
<1> QED BY <1>1, <1>3, <1>4, <1>5, <1>6, CommandKeeps

(* The table, with a field of it changed.                                    *)
LEMMA TableFields ==
  ASSUME NEW rows, NEW stat, NEW db \in Tables(rows, stat)
  PROVE  /\ db.there \in BOOLEAN /\ db.version \in 0 .. 2 /\ db.compat \in 0 .. 2 /\ db.rows = rows /\ db.stat = stat
         /\ db.imported \in BOOLEAN /\ db.pending \in BOOLEAN
         /\ [db EXCEPT !.there = TRUE] \in Tables(rows, stat)
         /\ [db EXCEPT !.there = TRUE].version = db.version /\ [db EXCEPT !.there = TRUE].compat = db.compat
         /\ [db EXCEPT !.there = TRUE].imported = db.imported /\ [db EXCEPT !.there = TRUE].there
BY DEF Tables

LEMMA SameTable == ASSUME HDInv, UNCHANGED <<hdDb, hdLog>> PROVE TableInv' /\ TooNew' = TooNew
BY DEF HDInv, TableInv, Tables, TooNew

LEMMA OpenStep == ASSUME HDInv, NEW w \in HDWriters, Open(w) PROVE HDInv'
<1>1. hdWriter[w].pc = "open" /\ UNCHANGED <<hdLock, hdLog, hdReader>>
  BY DEF Open, At
<1>2. /\ hdDb' \in Tables(hdDb.rows, hdDb.stat) /\ hdDb'.there /\ hdDb'.version = hdDb.version
      /\ hdDb'.compat = hdDb.compat /\ hdDb'.imported = hdDb.imported
  BY TableFields DEF Open, HDInv, TableInv
<1>3. TableInv' /\ TooNew' = TooNew
  BY <1>1, <1>2 DEF HDInv, TableInv, TooNew, Tables
<1>4. hdDb.version \in 0 .. 2 /\ hdDb'.version >= hdDb.version
  BY <1>2 DEF HDInv, TableInv, Tables
<1>5. hdLock # w
  BY <1>1 DEF HDInv, HolderInv, Within
<1>6. CASE TooNew
  BY <1>1, <1>2, <1>3, <1>4, <1>5, <1>6, DropsKeeps DEF Open
<1>7. CASE ~TooNew
  <2>1. Does(w, [hdWriter[w] EXCEPT !.pc = "migrate", !.import = hdWriter[w].import])
    <3>1. hdWriter[w] \in Commands(hdWriter[w].import)
      BY DEF HDInv, CommandsInv
    <3>2. [hdWriter[w] EXCEPT !.pc = "migrate", !.import = hdWriter[w].import] = [hdWriter[w] EXCEPT !.pc = "migrate"]
      BY <3>1 DEF Commands
    <3> QED BY <1>7, <3>2 DEF Open, Goes
  <2>2. "migrate" \in Steps \ {"idle", "work"} /\ "migrate" \notin Within /\ hdWriter[w].pc \notin Within
    BY <1>1 DEF Steps, Within
  <2>3. Opened("migrate")'
    BY <1>2, <2>2 DEF Opened
  <2> QED BY <1>1, <1>2, <1>3, <1>4, <2>1, <2>2, <2>3, FlushKeeps
<1> QED BY <1>6, <1>7

(* A step to pc only, of a flush under way.                                  *)
LEMMA GoesIsImport ==
  ASSUME HDInv, NEW w \in HDWriters, NEW pc, Goes(w, pc)
  PROVE  Does(w, [hdWriter[w] EXCEPT !.pc = pc, !.import = hdWriter[w].import])
<1>1. hdWriter[w] \in Commands(hdWriter[w].import)
  BY DEF HDInv, CommandsInv
<1>2. [hdWriter[w] EXCEPT !.pc = pc, !.import = hdWriter[w].import] = [hdWriter[w] EXCEPT !.pc = pc]
  BY <1>1 DEF Commands
<1> QED BY <1>2 DEF Goes

LEMMA LockFree == ASSUME HDInv, hdLock = NoOneWrites, NEW w \in HDWriters PROVE hdWriter[w].pc \notin Within /\ hdLock # w
BY HDAssumption DEF HDInv, HolderInv, NoOneWrites

LEMMA MadeTable ==
  ASSUME TableInv, hdDb' = [hdDb EXCEPT !.version = 1, !.compat = 1]
  PROVE  /\ hdDb' \in Tables(hdDb.rows, hdDb.stat) /\ hdDb'.there = hdDb.there
         /\ hdDb'.version = 1 /\ hdDb'.compat = 1 /\ hdDb'.imported = hdDb.imported
<1>1. PICK v \in 0 .. 2 : v = 1
  OBVIOUS
<1>2. PICK db : db = hdDb
  OBVIOUS
<1>3. PICK made : made = [db EXCEPT !.version = v, !.compat = v]
  OBVIOUS
<1>4. PICK rows, stat : rows = hdDb.rows /\ stat = hdDb.stat
  OBVIOUS
<1>5. db \in Tables(rows, stat)
  BY <1>2, <1>4 DEF TableInv
<1>6. made \in Tables(rows, stat) /\ made.there = db.there /\ made.version = v /\ made.compat = v
  BY <1>3, <1>5 DEF Tables
<1>7. made.imported = db.imported
  BY <1>3, <1>5 DEF Tables
<1>8. hdDb' = made
  BY <1>1, <1>2, <1>3
<1> QED BY <1>1, <1>2, <1>4, <1>6, <1>7, <1>8

LEMMA MigrateStep == ASSUME HDInv, NEW w \in HDWriters, Migrate(w) PROVE HDInv'
<1>1. hdWriter[w].pc = "migrate" /\ hdLock = NoOneWrites /\ UNCHANGED <<hdLock, hdLog, hdReader>>
  BY DEF Migrate, At
<1>2. hdLock # w /\ hdWriter[w].pc \notin {"idle", "work"}
  BY <1>1, LockFree
<1>3. hdDb.version \in 0 .. 2 /\ hdDb.there
  BY <1>1 DEF HDInv, TableInv, Tables, HolderInv, Opened
<1>4. CASE TooNew
  <2>1. Drops(w) /\ UNCHANGED hdDb
    BY <1>4 DEF Migrate
  <2>2. TableInv' /\ TooNew' = TooNew
    BY <1>1, <2>1, SameTable
  <2> QED BY <1>1, <1>2, <1>3, <2>1, <2>2, DropsKeeps
<1>5. CASE ~TooNew
  <2>1. /\ Goes(w, "begin")
        /\ hdDb' = IF hdDb.version = 0 THEN [hdDb EXCEPT !.version = 1, !.compat = 1] ELSE hdDb
    BY <1>5 DEF Migrate
  <2>2. /\ hdDb' \in Tables(hdDb.rows, hdDb.stat) /\ hdDb'.there /\ hdDb'.compat = hdDb'.version
        /\ hdDb'.version = IF hdDb.version = 0 THEN 1 ELSE hdDb.version
        /\ hdDb'.imported = hdDb.imported
    <3>1. hdDb \in Tables(hdDb.rows, hdDb.stat) /\ hdDb.compat = hdDb.version
      BY DEF HDInv, TableInv
    <3>2. CASE hdDb.version = 0
      <4>1. hdDb' = [hdDb EXCEPT !.version = 1, !.compat = 1]
        BY <2>1, <3>2
      <4> QED BY <1>3, <3>2, <4>1, MadeTable DEF HDInv
    <3> QED BY <1>3, <2>1, <3>1, <3>2
  <2>3. TableInv' /\ TooNew' = TooNew
    BY <1>1, <1>3, <1>5, <2>2 DEF HDInv, TableInv, TooNew, Tables, SCHEMA_VERSION
  <2>4. "begin" \in Steps \ {"idle", "work"} /\ "begin" \notin Within /\ hdWriter[w].pc \notin Within
    BY <1>1 DEF Steps, Within
  <2>5. Opened("begin")'
    BY <1>3, <2>2, <2>4 DEF Opened
  <2>6. hdDb'.version >= hdDb.version
    BY <1>3, <2>2
  <2> QED BY <1>1, <1>2, <1>3, <2>1, <2>2, <2>3, <2>4, <2>5, <2>6, GoesIsImport, FlushKeeps
<1> QED BY <1>4, <1>5

LEMMA BeginFlushStep == ASSUME HDInv, NEW w \in HDWriters, BeginFlush(w) PROVE HDInv'
<1>1. hdWriter[w].pc = "begin" /\ hdLock = NoOneWrites /\ UNCHANGED <<hdDb, hdLog, hdReader>>
  BY DEF BeginFlush, At
<1>2. hdLock # w /\ hdWriter[w].pc \notin {"idle", "work"}
  BY <1>1, LockFree
<1>3. hdDb.version \in 0 .. 2 /\ hdDb.there /\ hdDb.version > 0
  BY <1>1 DEF HDInv, TableInv, Tables, HolderInv, Opened
<1>4. TableInv' /\ TooNew' = TooNew
  BY <1>1, SameTable
<1>5. CASE TooNew
  <2>1. Drops(w) /\ UNCHANGED hdLock
    BY <1>5 DEF BeginFlush
  <2> QED BY <1>1, <1>2, <1>3, <1>4, <2>1, DropsKeeps
<1>6. CASE ~TooNew
  <2>1. PICK pc \in {"commit", "stat"} : Goes(w, pc) /\ hdLock' = w
    BY <1>6 DEF BeginFlush
  <2>2. pc \in Steps \ {"idle", "work"} /\ pc \in Within
    BY DEF Steps, Within
  <2>3. Opened(pc)'
    BY <1>1, <1>3, <1>4, <1>6, <2>2 DEF Opened
  <2>4. Does(w, [hdWriter[w] EXCEPT !.pc = pc, !.import = hdWriter[w].import])
    BY <2>1, GoesIsImport
  <2>5. hdLock = NoOneWrites /\ hdLock' = w /\ pc \in Within
    BY <1>1, <2>1, <2>2
  <2>6. (hdDb.there => hdDb'.there) /\ hdDb'.version >= hdDb.version
    BY <1>1, <1>3
  <2> QED BY <1>1, <1>2, <1>4, <2>2, <2>3, <2>4, <2>5, <2>6, FlushKeeps
<1> QED BY <1>5, <1>6

LEMMA SameVersion == ASSUME HDInv, UNCHANGED hdDb PROVE (hdDb.there => hdDb'.there) /\ hdDb'.version >= hdDb.version
<1>1. hdDb.version \in 0 .. 2
  BY DEF HDInv, TableInv, Tables
<1> QED BY <1>1

(* Reading the legacy files changes nothing but the import.                  *)
LEMMA ImportStep ==
  ASSUME HDInv, NEW w \in HDWriters, hdWriter[w].pc \in {"stat", "read-one", "read-live"},
         NEW pc \in {"read-one", "read-live", "commit"}, NEW import, Imports(w, pc, import), Reads
  PROVE  HDInv'
<1>1. UNCHANGED <<hdDb, hdLock, hdLog, hdReader>>
  BY DEF Reads
<1>2. hdWriter[w].pc \in Within /\ hdWriter[w].pc \notin {"idle", "work"}
  BY DEF Within
<1>3. pc \in Steps \ {"idle", "work"} /\ pc \in Within
  BY DEF Steps, Within
<1>4. Opened(hdWriter[w].pc)
  BY DEF HDInv, HolderInv
<1>5. TableInv' /\ TooNew' = TooNew
  BY <1>1, SameTable
<1>6. Opened(pc)'
  BY <1>1, <1>2, <1>3, <1>4, <1>5 DEF Opened
<1>7. Does(w, [hdWriter[w] EXCEPT !.pc = pc, !.import = import])
  BY DEF Imports
<1>8. (hdDb.there => hdDb'.there) /\ hdDb'.version >= hdDb.version
  BY <1>1, SameVersion
<1>9. UNCHANGED hdLock /\ (pc \in Within <=> hdWriter[w].pc \in Within)
  BY <1>1, <1>2, <1>3
<1> QED BY <1>1, <1>2, <1>3, <1>5, <1>6, <1>7, <1>8, <1>9, FlushKeeps

LEMMA FlushFailsStep == ASSUME HDInv, NEW w \in HDWriters, FlushFails(w) PROVE HDInv'
<1>1. /\ hdWriter[w].pc \notin {"idle", "work"} /\ Drops(w) /\ UNCHANGED <<hdDb, hdLog, hdReader>>
      /\ hdLock' = IF hdLock = w THEN NoOneWrites ELSE hdLock
  BY DEF FlushFails
<1>2. TableInv' /\ TooNew' = TooNew
  BY <1>1, SameTable
<1>3. hdDb.version \in 0 .. 2
  BY DEF HDInv, TableInv, Tables
<1> QED BY <1>1, <1>2, <1>3, DropsKeeps

LEMMA RowOfSeq == ASSUME NEW R, NEW log \in Seq(R), NEW q \in ToSet(log) PROVE q \in R
<1>1. PICK i \in DOMAIN log : q = log[i]
  BY DEF ToSet
<1>2. DOMAIN log = 1 .. Len(log)
  OBVIOUS
<1> QED BY <1>1, <1>2

LEMMA NumberOfRow == ASSUME NEW log \in Seq(Recorded), NEW q \in ToSet(log) PROVE q.n \in Nat
<1>1. q \in Recorded
  BY RowOfSeq
<1> QED BY <1>1 DEF Recorded

(* A command with nothing buffered begins where it stands.                   *)
LEMMA Afresh ==
  ASSUME NEW w, NEW me, NEW log, log \in Seq(Recorded), me.done \in Nat, me.first = me.done, me.buffer = <<>>,
         me.pc \in {"idle", "work"}, \A q \in ToSet(log) : q.by = w => q.n <= me.done
  PROVE  Buffered(w, me, log)
<1>1. me.buffer = Waiting(w, me) /\ Len(me.buffer) = 0
  BY DEF Waiting, Waits
<1>2. \A q \in ToSet(log) : ~(q.by = w /\ q.n > me.first)
  <2>1. ASSUME NEW q \in ToSet(log), q.by = w, q.n > me.first PROVE FALSE
    <3>1. q.n \in Nat
      BY NumberOfRow
    <3> QED BY <2>1, <3>1
  <2> QED BY <2>1
<1>3. Mine(w, me.first, log) = {}
  BY <1>2 DEF Mine
<1>4. me.first + 1 .. me.done = {} /\ me.done \in me.first .. me.done /\ me.done = me.done - Len(me.buffer)
  BY <1>1
<1> QED BY <1>1, <1>3, <1>4, HDAssumption DEF Buffered

LEMMA StartCommandStep == ASSUME HDInv, NEW w \in HDWriters, StartCommand(w) PROVE HDInv'
<1> DEFINE old == hdWriter[w]
<1>1. old.pc = "idle" /\ UNCHANGED <<hdDb, hdLock, hdLog, hdReader>>
  BY DEF StartCommand, At
<1>2. PICK failed \in BOOLEAN : failed = (hdHot /\ TooNew)
  OBVIOUS
<1>3. PICK ending \in BOOLEAN : ending = FALSE
  OBVIOUS
<1>4. PICK me : /\ me = [old EXCEPT !.pc = "work", !.first = old.done, !.failed = failed, !.ending = ending]
                /\ Does(w, me)
  BY <1>2, <1>3 DEF StartCommand
<1>5. old \in Commands(old.import) /\ Buffered(w, old, hdLog)
  BY DEF HDInv, CommandsInv, BuffersInv
<1>6. me \in Commands(old.import)
  BY <1>4, <1>5 DEF Commands, Steps
<1>7. me.pc = "work" /\ me.first = old.done /\ me.done = old.done /\ me.buffer = old.buffer /\ old.done \in Nat
  BY <1>4, <1>5 DEF Commands
<1>8. old.buffer = <<>> /\ \A q \in ToSet(hdLog) : q.by = w => q.n <= old.done
  BY <1>1, <1>5 DEF Buffered
<1>9. Buffered(w, me, hdLog)
  <2>1. hdLog \in Seq(Recorded)
    BY DEF HDInv, TableInv
  <2>2. me.first = me.done /\ me.done \in Nat /\ me.buffer = <<>> /\ me.pc \in {"idle", "work"}
    BY <1>7, <1>8
  <2>3. \A q \in ToSet(hdLog) : q.by = w => q.n <= me.done
    BY <1>7, <1>8
  <2> QED BY <2>1, <2>2, <2>3, Afresh
<1>10. me.pc \notin Within \cup {"migrate", "begin"} /\ hdWriter[w].pc \notin Within
  BY <1>1, <1>7 DEF Within
<1>11. Opened(me.pc)'
  BY <1>10 DEF Opened, Within
<1>12. TableInv' /\ TooNew' = TooNew
  BY <1>1, SameTable
<1>13. (hdDb.there => hdDb'.there) /\ hdDb'.version >= hdDb.version
  BY <1>1, SameVersion
<1> HIDE DEF old
<1> QED BY <1>1, <1>4, <1>6, <1>9, <1>10, <1>11, <1>12, <1>13, CommandKeeps

LEMMA KilledStep == ASSUME HDInv, NEW w \in HDWriters, Killed(w) PROVE HDInv'
<1> DEFINE old == hdWriter[w]
<1>1. UNCHANGED <<hdDb, hdLog, hdReader>>
  BY DEF Killed
<1>2. PICK none : none = <<>> /\ none \in Seq(Recorded)
  BY NoRows
<1>3. PICK me : /\ me = [old EXCEPT !.pc = "idle", !.first = old.done, !.buffer = none, !.import = NoBatch]
                /\ Does(w, me)
  BY <1>2 DEF Killed
<1>4. old \in Commands(old.import) /\ Buffered(w, old, hdLog)
  BY DEF HDInv, CommandsInv, BuffersInv
<1>5. me \in Commands(NoBatch)
  BY <1>2, <1>3, <1>4 DEF Commands, Steps
<1>6. me.pc = "idle" /\ me.first = old.done /\ me.done = old.done /\ me.buffer = none /\ old.done \in Nat
  BY <1>3, <1>4 DEF Commands
<1>7. Buffered(w, me, hdLog)
  <2>1. hdLog \in Seq(Recorded)
    BY DEF HDInv, TableInv
  <2>2. me.first = me.done /\ me.done \in Nat /\ me.buffer = <<>> /\ me.pc \in {"idle", "work"}
    BY <1>2, <1>6
  <2>3. \A q \in ToSet(hdLog) : q.by = w => q.n <= me.done
    BY <1>4, <1>6 DEF Buffered
  <2> QED BY <2>1, <2>2, <2>3, Afresh
<1>8. me.pc \notin Within \cup {"migrate", "begin"}
  BY <1>6 DEF Within
<1>9. Opened(me.pc)'
  BY <1>8 DEF Opened, Within
<1>10. TableInv' /\ TooNew' = TooNew
  BY <1>1, SameTable
<1>11. (hdDb.there => hdDb'.there) /\ hdDb'.version >= hdDb.version
  BY <1>1, SameVersion
<1>12. \/ UNCHANGED hdLock /\ (me.pc \in Within <=> hdWriter[w].pc \in Within)
       \/ hdLock = w /\ hdLock' = NoOneWrites /\ me.pc \notin Within
  BY <1>8 DEF Killed, HDInv, HolderInv
<1> HIDE DEF old
<1> QED BY <1>1, <1>3, <1>5, <1>7, <1>9, <1>10, <1>11, <1>12, CommandKeeps

LEMMA EndCommandStep == ASSUME HDInv, NEW w \in HDWriters, EndCommand(w) PROVE HDInv'
<1> DEFINE old == hdWriter[w]
<1>1. old.pc = "work" /\ UNCHANGED <<hdDb, hdLock, hdLog, hdReader>>
  BY DEF EndCommand, At
<1>2. PICK pc \in {"idle", "open"} : pc = IF old.buffer = <<>> THEN "idle" ELSE "open"
  OBVIOUS
<1>3. PICK ending \in BOOLEAN : ending = TRUE
  OBVIOUS
<1>4. PICK me : me = [old EXCEPT !.pc = pc, !.ending = ending] /\ Does(w, me)
  BY <1>2, <1>3 DEF EndCommand
<1>5. old \in Commands(old.import) /\ Buffered(w, old, hdLog)
  BY DEF HDInv, CommandsInv, BuffersInv
<1>6. me \in Commands(old.import)
  BY <1>4, <1>5 DEF Commands, Steps
<1>7. /\ me.pc = pc /\ me.first = old.first /\ me.done = old.done /\ me.buffer = old.buffer
      /\ me.failed = old.failed
  BY <1>4, <1>5 DEF Commands
<1>8. (old.failed => old.buffer = <<>>) /\ (pc = "idle" <=> old.buffer = <<>>)
  BY <1>2, <1>5 DEF Buffered
<1>9. Buffered(w, me, hdLog)
  BY <1>5, <1>7, <1>8 DEF Buffered, Waiting
<1>10. me.pc \notin Within \cup {"migrate", "begin"} /\ hdWriter[w].pc \notin Within
  BY <1>1, <1>7 DEF Within
<1>11. Opened(me.pc)'
  BY <1>10 DEF Opened, Within
<1>12. TableInv' /\ TooNew' = TooNew
  BY <1>1, SameTable
<1>13. (hdDb.there => hdDb'.there) /\ hdDb'.version >= hdDb.version
  BY <1>1, SameVersion
<1> HIDE DEF old
<1> QED BY <1>1, <1>4, <1>6, <1>9, <1>10, <1>11, <1>12, <1>13, CommandKeeps

(* One more row, of a command that has not failed.                           *)
LEMMA AppendWaits ==
  ASSUME NEW w, NEW n \in Nat, NEW b \in Seq(Recorded),
         b = Waits(w, n, Len(b))
  PROVE  Append(b, Row(w, n + 1, w)) = Waits(w, n + 1, Len(b) + 1)
<1> DEFINE c == Append(b, Row(w, n + 1, w))
           more == [i \in 1 .. Len(b) + 1 |-> Row(w, (n + 1) - (Len(b) + 1) + i, w)]
<1>1. Len(b) \in Nat /\ DOMAIN c = 1 .. Len(b) + 1 /\ Len(c) = Len(b) + 1
  OBVIOUS
<1>2. ASSUME NEW i \in 1 .. Len(b) + 1 PROVE c[i] = more[i]
  <2>1. CASE i = Len(b) + 1
    BY <1>1, <2>1
  <2>2. CASE i # Len(b) + 1
    <3>1. i \in 1 .. Len(b) /\ c[i] = b[i]
      BY <1>1, <2>2
    <3>2. n - Len(b) + i = (n + 1) - (Len(b) + 1) + i
      BY <1>1, <3>1
    <3> QED BY <3>1, <3>2 DEF Waits
  <2> QED BY <2>1, <2>2
<1>3. c = [i \in 1 .. Len(b) + 1 |-> c[i]]
  BY <1>1
<1> QED BY <1>1, <1>2, <1>3 DEF Waits

LEMMA RecordStep == ASSUME HDInv, NEW w \in HDWriters, Record(w) PROVE HDInv'
<1> DEFINE old == hdWriter[w]
<1>1. old.pc = "work" /\ UNCHANGED <<hdDb, hdLock, hdLog, hdReader>>
  BY DEF Record, At
<1>2. old \in Commands(old.import) /\ Buffered(w, old, hdLog)
  BY DEF HDInv, CommandsInv, BuffersInv
<1>3. old.done \in Nat /\ old.first \in Nat /\ old.buffer \in Seq(Recorded)
  BY <1>2 DEF Commands
<1>4. PICK buffer : buffer = IF old.failed THEN <<>> ELSE Append(old.buffer, Row(w, old.done + 1, w))
  OBVIOUS
<1>5. PICK pc \in {"open", "work"} : pc = IF Len(buffer) >= HDBatch THEN "open" ELSE "work"
  OBVIOUS
<1>6. PICK done \in Nat : done = old.done + 1
  BY <1>3
<1>7. PICK me : me = [old EXCEPT !.done = done, !.buffer = buffer, !.pc = pc] /\ Does(w, me)
  BY <1>4, <1>5, <1>6 DEF Record
<1>8. Row(w, old.done + 1, w) \in Recorded
  BY <1>3 DEF Row, Recorded
<1>9. buffer \in Seq(Recorded)
  BY <1>3, <1>4, <1>8, NoRows
<1>10. me \in Commands(old.import)
  BY <1>2, <1>3, <1>7, <1>9 DEF Commands, Steps
<1>11. /\ me.pc = pc /\ me.first = old.first /\ me.done = old.done + 1 /\ me.buffer = buffer
       /\ me.failed = old.failed
  BY <1>2, <1>7, <1>6 DEF Commands
<1>12. HDBatch \in Nat \ {0} /\ Len(buffer) \in Nat
  BY <1>9, HDAssumption
<1>13. \A q \in ToSet(hdLog) : q.by = w => q.n <= me.done
  <2>1. ASSUME NEW q \in ToSet(hdLog), q.by = w PROVE q.n <= me.done
    <3>1. q.n \in Nat
      BY NumberOfRow DEF HDInv, TableInv
    <3>2. q.n <= old.done
      BY <1>2, <2>1 DEF Buffered
    <3> QED BY <1>3, <1>11, <3>1, <3>2
  <2> QED BY <2>1
<1>14. Buffered(w, me, hdLog)
  <2>1. PICK last \in old.first .. old.done :
          /\ Mine(w, old.first, hdLog) = old.first + 1 .. last
          /\ ~old.failed => last = old.done - Len(old.buffer)
    BY <1>2 DEF Buffered
  <2>2. CASE old.failed
    <3>1. buffer = <<>> /\ Len(buffer) = 0 /\ pc = "work"
      BY <1>4, <1>5, <1>12, <2>2
    <3>2. buffer = Waiting(w, me)
      BY <1>11, <3>1 DEF Waiting, Waits
    <3>3. last \in me.first .. me.done /\ me.first <= me.done
      BY <1>3, <1>11
    <3> HIDE DEF old
    <3> QED BY <1>3, <1>11, <1>12, <1>13, <2>1, <2>2, <3>1, <3>2, <3>3 DEF Buffered
  <2>3. CASE ~old.failed
    <3>1. /\ old.buffer = Waits(w, old.done, Len(old.buffer))
          /\ Len(old.buffer) <= old.done - old.first /\ Len(old.buffer) < HDBatch
      BY <1>1, <1>2 DEF Buffered, Waiting
    <3>2. PICK b \in Seq(Recorded), n \in Nat : b = old.buffer /\ n = old.done
      BY <1>3
    <3>3. b = Waits(w, n, Len(b)) /\ buffer = Append(b, Row(w, n + 1, w))
      BY <1>4, <2>3, <3>1, <3>2
    <3>4. buffer = Waits(w, n + 1, Len(b) + 1) /\ Len(buffer) = Len(b) + 1
      BY <3>3, AppendWaits
    <3>5. buffer = Waiting(w, me)
      BY <1>11, <3>2, <3>4 DEF Waiting
    <3>6. Len(b) \in Nat /\ buffer # <<>>
      BY <1>12, <3>2, <3>4
    <3>7. /\ me.first <= me.done /\ Len(buffer) <= me.done - me.first /\ Len(buffer) <= HDBatch
          /\ (pc = "work" => Len(buffer) < HDBatch) /\ pc # "idle"
          /\ last \in me.first .. me.done /\ last = me.done - Len(buffer)
      <4>1. PICK k \in Nat, first \in Nat : k = Len(b) /\ first = old.first
        BY <1>3, <3>6
      <4>2. k <= n - first /\ k < HDBatch /\ last = n - k /\ last \in first .. n
        BY <2>1, <2>3, <3>1, <3>2, <4>1
      <4>3. me.first = first /\ me.done = n + 1 /\ Len(buffer) = k + 1
        BY <1>11, <3>2, <3>4, <4>1
      <4>4. first <= n + 1 /\ k + 1 <= (n + 1) - first /\ k + 1 <= HDBatch /\ last \in first .. n + 1
            /\ last = (n + 1) - (k + 1)
        BY <1>12, <4>2
      <4>5. (pc = "work" => Len(buffer) < HDBatch) /\ pc # "idle"
        BY <1>5, <1>12
      <4> QED BY <4>3, <4>4, <4>5
    <3> HIDE DEF old
    <3> QED BY <1>11, <1>13, <2>1, <2>3, <3>5, <3>7 DEF Buffered
  <2> QED BY <2>2, <2>3
<1>15. me.pc \notin Within \cup {"migrate", "begin"} /\ hdWriter[w].pc \notin Within
  BY <1>1, <1>11 DEF Within
<1>16. Opened(me.pc)'
  BY <1>15 DEF Opened, Within
<1>17. TableInv' /\ TooNew' = TooNew
  BY <1>1, SameTable
<1>18. (hdDb.there => hdDb'.there) /\ hdDb'.version >= hdDb.version
  BY <1>1, SameVersion
<1> HIDE DEF old
<1> QED BY <1>1, <1>7, <1>10, <1>14, <1>15, <1>16, <1>17, <1>18, CommandKeeps

LEMMA RowsJoin == ASSUME NEW R, NEW log \in Seq(R), NEW b \in Seq(R) PROVE log \o b \in Seq(R)
OBVIOUS

LEMMA JoinedRows ==
  ASSUME NEW R, NEW log \in Seq(R), NEW b \in Seq(R)
  PROVE  \A q : q \in ToSet(log \o b) <=> q \in ToSet(log) \/ q \in ToSet(b)
<1> DEFINE all == log \o b
<1>1. /\ DOMAIN all = 1 .. Len(log) + Len(b) /\ DOMAIN log = 1 .. Len(log) /\ DOMAIN b = 1 .. Len(b)
      /\ Len(log) \in Nat /\ Len(b) \in Nat
      /\ \A i \in 1 .. Len(log) : all[i] = log[i]
      /\ \A i \in 1 .. Len(b) : all[Len(log) + i] = b[i]
  OBVIOUS
<1> HIDE DEF all
<1>2. ASSUME NEW q, q \in ToSet(all) PROVE q \in ToSet(log) \/ q \in ToSet(b)
  <2>1. PICK i \in 1 .. Len(log) + Len(b) : q = all[i]
    BY <1>1, <1>2 DEF ToSet
  <2>2. CASE i \in 1 .. Len(log)
    BY <1>1, <2>1, <2>2 DEF ToSet
  <2>3. CASE i \notin 1 .. Len(log)
    <3>1. PICK j \in 1 .. Len(b) : i = Len(log) + j
      <4>1. i - Len(log) \in 1 .. Len(b) /\ i = Len(log) + (i - Len(log))
        BY <1>1, <2>3
      <4> QED BY <4>1
    <3> QED BY <1>1, <2>1, <3>1 DEF ToSet
  <2> QED BY <2>2, <2>3
<1>3. ASSUME NEW q, q \in ToSet(log) PROVE q \in ToSet(all)
  <2>1. PICK i \in 1 .. Len(log) : q = log[i]
    BY <1>1, <1>3 DEF ToSet
  <2>2. i \in DOMAIN all /\ q = all[i]
    BY <1>1, <2>1
  <2> QED BY <2>2 DEF ToSet
<1>4. ASSUME NEW q, q \in ToSet(b) PROVE q \in ToSet(all)
  <2>1. PICK i \in 1 .. Len(b) : q = b[i]
    BY <1>1, <1>4 DEF ToSet
  <2>2. Len(log) + i \in DOMAIN all /\ q = all[Len(log) + i]
    BY <1>1, <2>1
  <2> QED BY <2>2 DEF ToSet
<1> QED BY <1>2, <1>3, <1>4 DEF all

(* The rows that wait are the command's, and its last ones.                  *)
LEMMA RowsThatWait ==
  ASSUME NEW w, NEW n \in Nat, NEW k \in Nat, k <= n
  PROVE  /\ \A q \in ToSet(Waits(w, n, k)) : q.by = w /\ q.n \in n - k + 1 .. n
         /\ \A m \in n - k + 1 .. n : \E q \in ToSet(Waits(w, n, k)) : q.by = w /\ q.n = m
<1>1. DOMAIN Waits(w, n, k) = 1 .. k /\ \A i \in 1 .. k : Waits(w, n, k)[i] = Row(w, n - k + i, w)
  BY DEF Waits
<1>2. \A m : Row(w, m, w).by = w /\ Row(w, m, w).n = m
  BY DEF Row
<1>3. ASSUME NEW q \in ToSet(Waits(w, n, k)) PROVE q.by = w /\ q.n \in n - k + 1 .. n
  <2>1. PICK i \in 1 .. k : q = Waits(w, n, k)[i]
    BY <1>1 DEF ToSet
  <2>2. q = Row(w, n - k + i, w) /\ n - k + i \in n - k + 1 .. n
    BY <1>1, <2>1
  <2> QED BY <1>2, <2>2
<1>4. ASSUME NEW m \in n - k + 1 .. n PROVE \E q \in ToSet(Waits(w, n, k)) : q.by = w /\ q.n = m
  <2>1. m - (n - k) \in 1 .. k /\ n - k + (m - (n - k)) = m
    OBVIOUS
  <2>2. PICK q : q = Waits(w, n, k)[m - (n - k)]
    OBVIOUS
  <2>3. q \in ToSet(Waits(w, n, k)) /\ q = Row(w, m, w)
    BY <1>1, <2>1, <2>2 DEF ToSet
  <2> QED BY <1>2, <2>3
<1> QED BY <1>3, <1>4

LEMMA TableRows ==
  ASSUME NEW rows, NEW stat, NEW db \in Tables(rows, stat), NEW r
  PROVE  /\ [db EXCEPT !.rows = r] \in Tables(r, stat)
         /\ [db EXCEPT !.rows = r].there = db.there /\ [db EXCEPT !.rows = r].version = db.version
         /\ [db EXCEPT !.rows = r].compat = db.compat /\ [db EXCEPT !.rows = r].imported = db.imported
         /\ [db EXCEPT !.rows = r].rows = r /\ [db EXCEPT !.rows = r].stat = stat
BY DEF Tables

(* What a commit writes: it is imported, and at the version it was.          *)
LEMMA CommitsTable ==
  ASSUME HDInv, NEW w, CommitFlush(w)
  PROVE  /\ hdDb' \in Tables(hdDb'.rows, hdDb'.stat) /\ hdDb'.imported
         /\ hdDb'.there = hdDb.there /\ hdDb'.version = hdDb.version /\ hdDb'.compat = hdDb.compat
<1> DEFINE import == hdWriter[w].import
           due == ~hdDb.imported \/ hdDb.pending
<1>1. PICK was : was = hdDb
  OBVIOUS
<1>2. was \in Tables(was.rows, was.stat)
  BY <1>1 DEF HDInv, TableInv
<1>3. PICK yes \in BOOLEAN, no \in BOOLEAN : yes /\ ~no /\ yes = TRUE /\ no = FALSE
  OBVIOUS
<1>4. PICK db : /\ \/ db = was /\ ~due
                   \/ db = [was EXCEPT !.imported = yes, !.pending = yes]
                   \/ \E stat, legacy : db = [was EXCEPT !.imported = yes, !.pending = no, !.stat = stat, !.rows = legacy]
                /\ \E r : hdDb' = [db EXCEPT !.rows = r]
  <2>1. CASE ~due
    BY <1>1, <2>1 DEF CommitFlush
  <2>2. CASE due /\ import.refused
    BY <1>1, <1>3, <2>2 DEF CommitFlush
  <2>3. CASE due /\ ~import.refused
    <3>1. PICK stat, legacy : stat = import.stat /\ legacy = import.legacy \o was.rows
      OBVIOUS
    <3> QED BY <1>1, <1>3, <2>3, <3>1 DEF CommitFlush
  <2> QED BY <2>1, <2>2, <2>3
<1>5. /\ db \in Tables(db.rows, db.stat) /\ db.imported
      /\ db.there = was.there /\ db.version = was.version /\ db.compat = was.compat
  <2>1. CASE db = was /\ ~due
    BY <1>1, <1>2, <2>1
  <2>2. CASE db = [was EXCEPT !.imported = yes, !.pending = yes]
    BY <1>2, <1>3, <2>2 DEF Tables
  <2>3. CASE \E stat, legacy : db = [was EXCEPT !.imported = yes, !.pending = no, !.stat = stat, !.rows = legacy]
    BY <1>2, <1>3, <2>3 DEF Tables
  <2> QED BY <1>4, <2>1, <2>2, <2>3
<1>6. PICK r : hdDb' = [db EXCEPT !.rows = r]
  BY <1>4
<1>7. PICK rows, stat : rows = db.rows /\ stat = db.stat
  OBVIOUS
<1>8. db \in Tables(rows, stat)
  BY <1>5, <1>7
<1>9. PICK is : is = [db EXCEPT !.rows = r]
  OBVIOUS
<1>10. /\ is \in Tables(r, stat) /\ is.there = db.there /\ is.version = db.version /\ is.compat = db.compat
       /\ is.imported = db.imported /\ is.rows = r /\ is.stat = stat
  BY <1>8, <1>9, TableRows
<1>11. hdDb' = is
  BY <1>6, <1>9
<1> QED BY <1>1, <1>5, <1>10, <1>11

(* Rows of one command, and no other, are committed.                         *)
LEMMA OthersBuffered ==
  ASSUME NEW w, NEW v, v # w, NEW me, NEW log \in Seq(Recorded), NEW b \in Seq(Recorded),
         \A q \in ToSet(b) : q.by = w, Buffered(v, me, log)
  PROVE  Buffered(v, me, log \o b)
<1>1. \A q : q \in ToSet(log \o b) <=> q \in ToSet(log) \/ q \in ToSet(b)
  BY JoinedRows
<1>2. {q \in ToSet(log \o b) : q.by = v /\ q.n > me.first} = {q \in ToSet(log) : q.by = v /\ q.n > me.first}
  BY <1>1
<1>3. Mine(v, me.first, log \o b) = Mine(v, me.first, log)
  BY <1>2 DEF Mine
<1>4. \A q \in ToSet(log \o b) : q.by = v => q.n <= me.done
  BY <1>1 DEF Buffered
<1> QED BY <1>3, <1>4 DEF Buffered

LEMMA MineCommitted ==
  ASSUME NEW w, NEW first \in Nat, NEW n \in Nat, NEW k \in Nat, k <= n - first,
         NEW log \in Seq(Recorded), Waits(w, n, k) \in Seq(Recorded),
         Mine(w, first, log) = first + 1 .. n - k
  PROVE  Mine(w, first, log \o Waits(w, n, k)) = first + 1 .. n
<1> DEFINE b == Waits(w, n, k)
<1>1. \A q : q \in ToSet(log \o b) <=> q \in ToSet(log) \/ q \in ToSet(b)
  BY JoinedRows
<1>2. /\ \A q \in ToSet(b) : q.by = w /\ q.n \in n - k + 1 .. n
      /\ \A m \in n - k + 1 .. n : \E q \in ToSet(b) : q.by = w /\ q.n = m
  BY RowsThatWait
<1> HIDE DEF b
<1>3. ASSUME NEW m \in Mine(w, first, log \o b) PROVE m \in first + 1 .. n
  <2>1. PICK q \in ToSet(log \o b) : m = q.n /\ q.by = w /\ q.n > first
    BY DEF Mine
  <2>2. CASE q \in ToSet(log)
    <3>1. m \in Mine(w, first, log)
      BY <2>1, <2>2 DEF Mine
    <3> QED BY <3>1
  <2>3. CASE q \in ToSet(b)
    BY <1>2, <2>1, <2>3
  <2> QED BY <1>1, <2>1, <2>2, <2>3
<1>4. ASSUME NEW m \in first + 1 .. n PROVE m \in Mine(w, first, log \o b)
  <2>1. CASE m <= n - k
    <3>1. m \in Mine(w, first, log)
      BY <2>1
    <3> QED BY <1>1, <3>1 DEF Mine
  <2>2. CASE m > n - k
    <3>1. m \in n - k + 1 .. n
      BY <2>2
    <3>2. PICK q \in ToSet(b) : q.by = w /\ q.n = m
      BY <1>2, <3>1
    <3>3. q \in ToSet(log \o b) /\ q.n > first
      BY <1>1, <3>2
    <3> QED BY <3>2, <3>3 DEF Mine
  <2> QED BY <2>1, <2>2
<1> QED BY <1>3, <1>4 DEF b

LEMMA CommitStep == ASSUME HDInv, NEW w \in HDWriters, CommitFlush(w) PROVE HDInv'
<1> DEFINE old == hdWriter[w]
<1>1. old.pc = "commit" /\ UNCHANGED hdReader /\ hdLock' = NoOneWrites /\ hdLog' = hdLog \o old.buffer
  BY DEF CommitFlush, At
<1>2. old \in Commands(old.import) /\ Buffered(w, old, hdLog)
  BY DEF HDInv, CommandsInv, BuffersInv
<1>3. old.pc \in Within /\ hdLock = w
  BY <1>1 DEF HDInv, HolderInv, Within
<1>4. PICK none : none = <<>> /\ none \in Seq(Recorded)
  BY NoRows
<1>5. PICK pc \in {"idle", "work"} : pc = AfterFlush(w)
  BY DEF AfterFlush
<1>6. PICK me : me = [old EXCEPT !.pc = pc, !.buffer = none, !.import = NoBatch] /\ Does(w, me)
  BY <1>4, <1>5 DEF CommitFlush
<1>7. me \in Commands(NoBatch)
  BY <1>2, <1>4, <1>6 DEF Commands, Steps
<1>8. /\ me.pc = pc /\ me.first = old.first /\ me.done = old.done /\ me.buffer = none
      /\ me.failed = old.failed
  BY <1>2, <1>6 DEF Commands
<1>9. ~old.failed /\ old.done \in Nat /\ old.first \in Nat /\ old.buffer \in Seq(Recorded)
  BY <1>1, <1>2, NotFailed DEF Commands
<1>10. PICK n \in Nat, k \in Nat, first \in Nat : n = old.done /\ k = Len(old.buffer) /\ first = old.first
  BY <1>9
<1>11. PICK b \in Seq(Recorded) : b = old.buffer
  BY <1>9
<1>12. b = Waits(w, n, k) /\ first <= n /\ k <= n - first
  BY <1>2, <1>10, <1>11 DEF Buffered, Waiting
<1>13. PICK was \in Seq(Recorded) : was = hdLog
  BY DEF HDInv, TableInv
<1>14. Mine(w, first, was) = first + 1 .. n - k
  BY <1>2, <1>9, <1>10, <1>13 DEF Buffered
<1>15. \A q \in ToSet(b) : q.by = w /\ q.n \in n - k + 1 .. n
  BY <1>12, RowsThatWait
<1>16. PICK log \in Seq(Recorded) : log = was \o b
  <2>1. was \o b \in Seq(Recorded)
    BY RowsJoin
  <2> QED BY <2>1
<1>17. Buffered(w, me, log)
  <2>1. Mine(w, first, log) = first + 1 .. n
    BY <1>12, <1>14, <1>16, MineCommitted
  <2>2. \A q \in ToSet(log) : q.by = w => q.n <= n
    <3>1. \A q \in ToSet(was) : q.by = w => q.n <= n
      BY <1>2, <1>10, <1>13 DEF Buffered
    <3>2. \A q : q \in ToSet(was \o b) <=> q \in ToSet(was) \/ q \in ToSet(b)
      BY JoinedRows
    <3> QED BY <1>15, <1>16, <3>1, <3>2
  <2>3. me.buffer = <<>> /\ Len(me.buffer) = 0 /\ me.buffer = Waiting(w, me)
    BY <1>4, <1>8 DEF Waiting, Waits
  <2>4. me.first = first /\ me.done = n /\ ~me.failed /\ me.pc \in {"idle", "work"}
    BY <1>8, <1>9, <1>10
  <2>5. n \in first .. n /\ n = n - 0 /\ 0 <= n - first
    BY <1>12
  <2> HIDE DEF old
  <2> QED BY <2>1, <2>2, <2>3, <2>4, <2>5, <1>12, HDAssumption DEF Buffered
<1>18. \A v \in HDWriters \ {w} : Buffered(v, hdWriter[v], log)
  <2>1. ASSUME NEW v \in HDWriters, v # w PROVE Buffered(v, hdWriter[v], log)
    <3>1. PICK it : it = hdWriter[v] /\ Buffered(v, it, was)
      BY <1>13 DEF HDInv, BuffersInv
    <3>2. \A q \in ToSet(b) : q.by = w
      BY <1>15
    <3>3. Buffered(v, it, was \o b)
      BY <2>1, <3>1, <3>2, OthersBuffered
    <3> QED BY <1>16, <3>1, <3>3
  <2> QED BY <2>1
<1>19. /\ hdDb' \in Tables(hdDb'.rows, hdDb'.stat) /\ hdDb'.imported
       /\ hdDb'.there = hdDb.there /\ hdDb'.version = hdDb.version /\ hdDb'.compat = hdDb.compat
  BY CommitsTable
<1>20. hdLog' = log
  BY <1>1, <1>11, <1>13, <1>16
<1>21. hdDb.there /\ hdDb.version > 0
  BY <1>3 DEF HDInv, HolderInv, Opened
<1>22. TableInv'
  <2>1. hdDb.compat = hdDb.version /\ hdDb.version \in 0 .. 2
    BY DEF HDInv, TableInv, Tables
  <2> QED BY <1>19, <1>20, <1>21, <2>1 DEF TableInv
<1>23. TooNew' = TooNew
  BY <1>19 DEF TooNew
<1>24. (hdDb.there => hdDb'.there) /\ hdDb'.version >= hdDb.version
  <2>1. hdDb.version \in 0 .. 2
    BY DEF HDInv, TableInv, Tables
  <2> QED BY <1>19, <2>1
<1>25. me.pc \notin Within \cup {"migrate", "begin"}
  BY <1>8 DEF Within
<1>26. Opened(me.pc)'
  BY <1>25 DEF Opened, Within
<1> HIDE DEF old
<1> QED BY <1>1, <1>3, <1>6, <1>7, <1>17, <1>18, <1>20, <1>22, <1>23, <1>24, <1>25, <1>26, CommandSteps

(* What neither the table nor a command nor the reader sees.                 *)
LEMMA HDStutters == ASSUME HDInv, UNCHANGED <<hdDb, hdLock, hdWriter, hdReader, hdLog>> PROVE HDInv'
<1>1. CommandsInv'
  BY DEF HDInv, CommandsInv
<1>2. TableInv' /\ TooNew' = TooNew
  BY SameTable
<1>3. HolderInv'
  BY <1>2 DEF HDInv, HolderInv, Opened
<1>4. BuffersInv'
  BY DEF HDInv, BuffersInv
<1>5. ReaderInv'
  BY DEF HDInv, ReaderInv, NoTableHidden
<1> QED BY <1>1, <1>2, <1>3, <1>4, <1>5 DEF HDInv

LEMMA ReadStep == ASSUME HDInv, ReadSnapshot \/ ReadNotices \/ EndRead PROVE HDInv'
<1>1. UNCHANGED <<hdDb, hdLock, hdWriter, hdLog>>
  BY DEF ReadSnapshot, ReadNotices, EndRead
<1>2. CommandsInv'
  BY <1>1 DEF HDInv, CommandsInv
<1>3. TableInv' /\ TooNew' = TooNew
  BY <1>1, SameTable
<1>4. HolderInv'
  BY <1>1, <1>3 DEF HDInv, HolderInv, Opened
<1>5. BuffersInv'
  BY <1>1 DEF HDInv, BuffersInv
<1>6. ReaderInv'
  <2>1. CASE ReadSnapshot
    <3>1. CASE ~hdDb.there \/ hdDb.version = 0 \/ ~hdDb.imported
      <4>1. hdDb.version \in 0 .. 2 /\ hdDb.there \in BOOLEAN /\ hdDb.imported \in BOOLEAN
        BY DEF HDInv, TableInv, Tables
      <4>2. ~(hdLog # <<>>)
        BY <3>1, <4>1 DEF HDInv, TableInv
      <4>3. PICK no \in BOOLEAN : ~no /\ no = (hdLog # <<>>)
        BY <4>2
      <4>4. hdReader' = [NotReading EXCEPT !.pc = "legacy", !.hides = no]
        BY <2>1, <3>1, <4>3 DEF ReadSnapshot
      <4> QED BY <4>3, <4>4 DEF ReaderInv, NoTableHidden, NotReading
    <3>2. CASE ~(~hdDb.there \/ hdDb.version = 0 \/ ~hdDb.imported)
      <4>1. hdReader'.pc = "notices"
        BY <2>1, <3>2 DEF ReadSnapshot, NotReading
      <4> QED BY <4>1 DEF ReaderInv, NoTableHidden
    <3> QED BY <3>1, <3>2
  <2>2. CASE EndRead
    BY <2>2 DEF EndRead, NotReading, ReaderInv, NoTableHidden
  <2>3. CASE ReadNotices
    <3>1. hdReader.pc = "notices"
      BY <2>3 DEF ReadNotices
    <3>2. hdReader'.pc # "legacy"
      BY <2>3, <3>1 DEF ReadNotices
    <3> QED BY <3>2 DEF ReaderInv, NoTableHidden
  <2> QED BY <2>1, <2>2, <2>3
<1> QED BY <1>2, <1>3, <1>4, <1>5, <1>6 DEF HDInv

LEMMA NewerStep == ASSUME HDInv, NewerMmMigrates PROVE HDInv'
<1>1. /\ hdLock = NoOneWrites /\ hdDb.version = 1 /\ UNCHANGED <<hdLock, hdWriter, hdReader, hdLog>>
      /\ hdDb' = [hdDb EXCEPT !.version = 2, !.compat = 2]
  BY DEF NewerMmMigrates, Meanwhile
<1>2. hdDb \in Tables(hdDb.rows, hdDb.stat) /\ hdDb.there /\ (hdLog # <<>> => hdDb.imported) /\ hdLog \in Seq(Recorded)
  BY <1>1 DEF HDInv, TableInv
<1>3. /\ hdDb' \in Tables(hdDb'.rows, hdDb'.stat) /\ hdDb'.there /\ hdDb'.version = 2 /\ hdDb'.compat = 2
      /\ hdDb'.imported = hdDb.imported
  <2>1. PICK was : was = hdDb
    OBVIOUS
  <2>2. PICK v \in 0 .. 2 : v = 2
    OBVIOUS
  <2>3. PICK rows, stat : rows = was.rows /\ stat = was.stat
    OBVIOUS
  <2>4. was \in Tables(rows, stat)
    BY <1>2, <2>1, <2>3
  <2>5. PICK is : is = [was EXCEPT !.version = v, !.compat = v]
    OBVIOUS
  <2>6. /\ is \in Tables(rows, stat) /\ is.there = was.there /\ is.version = v /\ is.compat = v
        /\ is.rows = rows /\ is.stat = stat
    BY <2>4, <2>5 DEF Tables
  <2>7. is.imported = was.imported
    BY <2>4, <2>5 DEF Tables
  <2>8. hdDb' = is
    BY <1>1, <2>1, <2>5, <2>2
  <2> QED BY <1>2, <2>1, <2>6, <2>7, <2>8, <2>2
<1>4. CommandsInv'
  BY <1>1 DEF HDInv, CommandsInv
<1>5. TableInv'
  BY <1>1, <1>2, <1>3 DEF TableInv
<1>6. HolderInv'
  <2>1. \A w \in HDWriters : hdWriter'[w] = hdWriter[w] /\ hdWriter[w].pc \notin Within
    BY <1>1, LockFree
  <2>2. \A w \in HDWriters : Opened(hdWriter[w].pc)'
    BY <1>3, <2>1 DEF Opened
  <2> QED BY <1>1, <2>1, <2>2 DEF HDInv, HolderInv
<1>7. BuffersInv'
  BY <1>1 DEF HDInv, BuffersInv
<1>8. ReaderInv'
  BY <1>1 DEF HDInv, ReaderInv, NoTableHidden
<1> QED BY <1>4, <1>5, <1>6, <1>7, <1>8 DEF HDInv

LEMMA AsideStep == ASSUME HDInv, MoveDbAside PROVE HDInv'
<1>1. /\ hdReader.pc = "idle" /\ \A w \in HDWriters : hdWriter[w].pc = "idle"
      /\ hdDb' = NoDb /\ hdLog' = <<>> /\ UNCHANGED <<hdLock, hdReader>>
      /\ hdWriter' = [w \in HDWriters |-> [hdWriter[w] EXCEPT !.first = hdWriter[w].done]]
  BY DEF MoveDbAside, At
<1>2. PICK none \in Seq(Recorded) : none = <<>>
  BY NoRows
<1>3. ASSUME NEW w \in HDWriters
      PROVE  /\ hdWriter'[w] \in Commands(hdWriter'[w].import) /\ hdWriter'[w].pc = "idle"
             /\ Buffered(w, hdWriter'[w], none)
  <2>1. PICK old : old = hdWriter[w] /\ old \in Commands(old.import) /\ Buffered(w, old, hdLog)
    BY DEF HDInv, CommandsInv, BuffersInv
  <2>2. PICK me : me = [old EXCEPT !.first = old.done]
    OBVIOUS
  <2>3. me \in Commands(old.import)
    BY <2>1, <2>2 DEF Commands
  <2>4. me.pc = old.pc /\ me.first = old.done /\ me.done = old.done /\ me.buffer = old.buffer /\ old.done \in Nat
    BY <2>1, <2>2 DEF Commands
  <2>5. old.pc = "idle" /\ old.buffer = <<>>
    BY <1>1, <2>1 DEF Buffered
  <2>6. hdWriter'[w] = me
    BY <1>1, <2>1, <2>2
  <2>7. \A q \in ToSet(none) : q.by = w => q.n <= me.done
    BY <1>2 DEF ToSet
  <2>8. me.done \in Nat /\ me.first = me.done /\ me.buffer = <<>> /\ me.pc \in {"idle", "work"}
    BY <2>4, <2>5
  <2>9. Buffered(w, me, none)
    BY <2>7, <2>8, Afresh
  <2>10. me.import = old.import
    BY <2>3 DEF Commands
  <2> QED BY <2>3, <2>4, <2>5, <2>6, <2>9, <2>10
<1>4. CommandsInv'
  <2>1. hdWriter' = [w \in HDWriters |-> hdWriter'[w]]
    BY <1>1
  <2> QED BY <1>3, <2>1 DEF CommandsInv
<1>5. TableInv'
  <2>1. NoDb \in Tables(NoDb.rows, NoDb.stat) /\ NoDb.version = 0 /\ NoDb.compat = 0
    BY DEF NoDb, Tables
  <2> QED BY <1>1, <1>2, <2>1 DEF TableInv
<1>6. HolderInv'
  <2>1. \A w \in HDWriters : hdWriter'[w].pc = "idle" /\ hdWriter'[w].pc \notin Within \cup {"migrate", "begin"}
    BY <1>3 DEF Within
  <2>2. \A w \in HDWriters : hdLock # w
    BY <1>1 DEF HDInv, HolderInv, Within
  <2>3. \A w \in HDWriters : Opened(hdWriter[w].pc)'
    BY <2>1 DEF Opened
  <2> QED BY <1>1, <2>1, <2>2, <2>3 DEF HDInv, HolderInv
<1>7. BuffersInv'
  BY <1>1, <1>2, <1>3 DEF BuffersInv
<1>8. ReaderInv'
  BY <1>1 DEF ReaderInv, NoTableHidden
<1> QED BY <1>4, <1>5, <1>6, <1>7, <1>8 DEF HDInv

LEMMA HDBegins == ASSUME HDInit PROVE HDInv
<1>1. PICK none \in Seq(Recorded) : none = <<>>
  BY NoRows
<1>2. PICK no \in BOOLEAN : no = FALSE
  OBVIOUS
<1>3. PICK me : /\ me = [pc |-> "idle", done |-> 0, first |-> 0, buffer |-> none, failed |-> no,
                         ending |-> no, import |-> NoBatch]
                /\ me = Resting
  BY <1>1, <1>2 DEF Resting
<1>4. /\ me \in Commands(NoBatch) /\ me.pc = "idle" /\ me.done = 0 /\ me.first = 0 /\ me.buffer = none
      /\ me.import = NoBatch
  BY <1>3 DEF Commands, Steps
<1>5. hdWriter = [w \in HDWriters |-> me] /\ hdLog = none /\ hdDb = NoDb /\ hdLock = NoOneWrites
  BY <1>1, <1>3 DEF HDInit
<1>6. CommandsInv
  BY <1>4, <1>5 DEF CommandsInv
<1>7. TableInv
  <2>1. NoDb \in Tables(NoDb.rows, NoDb.stat) /\ NoDb.version = 0 /\ NoDb.compat = 0
    BY DEF NoDb, Tables
  <2> QED BY <1>1, <1>5, <2>1 DEF TableInv
<1>8. HolderInv
  <2>1. NoOneWrites \notin HDWriters
    BY HDAssumption DEF NoOneWrites
  <2> QED BY <1>4, <1>5, <2>1 DEF HolderInv, Opened, Within
<1>9. BuffersInv
  <2>1. ASSUME NEW w \in HDWriters PROVE Buffered(w, me, none)
    <3>1. \A q \in ToSet(none) : q.by = w => q.n <= me.done
      BY <1>1 DEF ToSet
    <3>2. me.done \in Nat /\ me.first = me.done /\ me.buffer = <<>> /\ me.pc \in {"idle", "work"}
      BY <1>1, <1>4
    <3> QED BY <3>1, <3>2, Afresh
  <2> QED BY <1>5, <2>1 DEF BuffersInv
<1>10. ReaderInv
  BY DEF HDInit, NotReading, ReaderInv, NoTableHidden
<1> QED BY <1>6, <1>7, <1>8, <1>9, <1>10 DEF HDInv

LEMMA HDSteps == ASSUME HDInv, [HDNext]_hdVars PROVE HDInv'
<1>1. CASE UNCHANGED hdVars
  BY <1>1, HDStutters DEF hdVars
<1>2. ASSUME NEW w \in HDWriters, StatLegacy(w) PROVE HDInv'
  BY <1>2, ImportStep DEF StatLegacy, At
<1>3. ASSUME NEW w \in HDWriters, ReadRotated(w) PROVE HDInv'
  BY <1>3, ImportStep DEF ReadRotated, At
<1>4. ASSUME NEW w \in HDWriters, ReadLive(w) PROVE HDInv'
  BY <1>4, ImportStep DEF ReadLive, At
<1>5. ASSUME NEW w \in HDWriters, CannotRead(w) PROVE HDInv'
  BY <1>5, ImportStep DEF CannotRead
<1>6. ASSUME (\E w \in HDWriters : OldMmAppends(w)) \/ OldMmRotates \/ MoveFilesAside PROVE HDInv'
  BY <1>6, HDStutters DEF OldMmAppends, OldMmRotates, MoveFilesAside, Meanwhile
<1> QED BY <1>1, <1>2, <1>3, <1>4, <1>5, <1>6, StartCommandStep, RecordStep, EndCommandStep, OpenStep, MigrateStep,
           BeginFlushStep, CommitStep, FlushFailsStep, KilledStep, ReadStep, NewerStep, AsideStep DEF HDNext

(* What the invariant says of the rows of a command.                         *)
LEMMA HDPromise == ASSUME HDInv PROVE HDTypeOK /\ NoRowReplayed /\ NoTableHidden
<1>1. HDTypeOK
  BY DEF HDTypeOK, HDInv, TableInv, Tables, HolderInv, BuffersInv, Buffered
<1>2. ASSUME NEW w \in HDWriters
      PROVE  LET me == hdWriter[w]
                 mine == {r.n : r \in {q \in ToSet(hdLog) : q.by = w /\ q.n > me.first}}
             IN  /\ mine = {n \in me.first + 1 .. me.done : n <= me.first + Cardinality(mine)}
                 /\ (me.pc = "idle" /\ ~me.failed) => mine = me.first + 1 .. me.done
  <2>1. PICK me : me = hdWriter[w] /\ me \in Commands(me.import) /\ Buffered(w, me, hdLog)
    BY DEF HDInv, CommandsInv, BuffersInv
  <2>2. me.done \in Nat /\ me.first \in Nat
    BY <2>1 DEF Commands
  <2>3. PICK n \in Nat, first \in Nat, k \in Nat : n = me.done /\ first = me.first /\ k = Len(me.buffer)
    BY <2>1, <2>2 DEF Commands
  <2>4. PICK last \in first .. n : Mine(w, first, hdLog) = first + 1 .. last /\ (~me.failed => last = n - k)
    BY <2>1, <2>3 DEF Buffered
  <2>5. PICK mine : mine = Mine(w, first, hdLog)
    OBVIOUS
  <2>6. Cardinality(mine) = last - first
    <3>1. first + 1 > last => last - first = 0
      OBVIOUS
    <3>2. Cardinality(first + 1 .. last) = IF first + 1 > last THEN 0 ELSE last - (first + 1) + 1
      BY FS_Interval
    <3> QED BY <2>4, <2>5, <3>1, <3>2
  <2>7. mine = {m \in first + 1 .. n : m <= first + Cardinality(mine)}
    BY <2>4, <2>5, <2>6
  <2>8. (me.pc = "idle" /\ ~me.failed) => mine = first + 1 .. n
    <3>1. me.pc = "idle" => me.buffer = <<>>
      BY <2>1 DEF Buffered
    <3>2. me.buffer = <<>> => k = 0
      BY <2>3
    <3> QED BY <2>4, <2>5, <3>1, <3>2
  <2> QED BY <2>1, <2>3, <2>5, <2>7, <2>8 DEF Mine
<1>3. NoRowReplayed
  BY <1>2 DEF NoRowReplayed
<1> QED BY <1>1, <1>3 DEF HDInv, ReaderInv

LEMMA NewerStays == ASSUME HDInv, [HDNext]_hdVars PROVE NewerIsUntouched
<1> SUFFICES ASSUME TooNew, hdDb'.there PROVE hdDb' = hdDb
  BY DEF NewerIsUntouched, TooNew
<1>1. /\ hdDb \in Tables(hdDb.rows, hdDb.stat) /\ hdDb.compat = hdDb.version /\ hdDb.version \in 0 .. 2
      /\ hdDb.compat > 1
  BY DEF HDInv, TableInv, Tables, TooNew, SCHEMA_VERSION
<1>2. hdDb.there
  BY <1>1 DEF HDInv, TableInv
<1>3. ASSUME NEW w \in HDWriters, Open(w) PROVE hdDb' = hdDb
  <2>1. PICK yes \in BOOLEAN : yes = TRUE
    OBVIOUS
  <2>2. hdDb.there = yes
    BY <1>1, <1>2, <2>1 DEF Tables
  <2>3. hdDb' = [hdDb EXCEPT !.there = yes]
    BY <1>3, <2>1 DEF Open
  <2> QED BY <1>1, <2>2, <2>3 DEF Tables
<1>4. ASSUME NEW w \in HDWriters, Migrate(w) PROVE hdDb' = hdDb
  BY <1>4 DEF Migrate
<1>5. ASSUME NEW w \in HDWriters, CommitFlush(w) PROVE hdDb' = hdDb
  <2>1. hdWriter[w].pc \in Within
    BY <1>5 DEF CommitFlush, At, Within
  <2> QED BY <2>1 DEF HDInv, HolderInv, Opened
<1>6. ~NewerMmMigrates
  BY <1>1 DEF NewerMmMigrates
<1>7. ~MoveDbAside
  BY DEF MoveDbAside, NoDb
<1>8. ASSUME NEW w \in HDWriters,
             \/ StartCommand(w) \/ Record(w) \/ EndCommand(w) \/ BeginFlush(w) \/ StatLegacy(w) \/ ReadRotated(w)
             \/ ReadLive(w) \/ CannotRead(w) \/ FlushFails(w) \/ Killed(w) \/ OldMmAppends(w)
      PROVE  hdDb' = hdDb
  BY <1>8 DEF StartCommand, Record, EndCommand, BeginFlush, StatLegacy, ReadRotated, ReadLive, CannotRead,
              FlushFails, Killed, OldMmAppends, Reads
<1>9. (ReadSnapshot \/ ReadNotices \/ EndRead \/ OldMmRotates \/ MoveFilesAside) => hdDb' = hdDb
  BY DEF ReadSnapshot, ReadNotices, EndRead, OldMmRotates, MoveFilesAside
<1> QED BY <1>3, <1>4, <1>5, <1>6, <1>7, <1>8, <1>9 DEF HDNext, hdVars

(* Rows as they are written: each writer's in order, an older mm's first.    *)
OldRows == [by : {OldMm}, n : Nat, class : HDWriters]
AllRows == [by : HDWriters \cup {OldMm}, n : Nat, class : HDWriters]
RowsInOrder(s) == \A i, j \in DOMAIN s : (i < j /\ s[i].by = s[j].by) => s[i].n < s[j].n
OldFirst(s) == \A i, j \in DOMAIN s : (i < j /\ s[j].by = OldMm) => s[i].by = OldMm
NewerThan(r, log) == {q \in ToSet(log) : q.by = r.by /\ q.n > r.n}
IsNewest(r, log) == r \in ToSet(log) /\ Cardinality(NewerThan(r, log)) < HDLimit

(* The table: of the commands' rows the newest, and none of an older mm      *)
(* while its files are still to be imported.                                 *)
RowsInv ==
  /\ \A r \in ToSet(hdLog) : r.by # OldMm /\ r.class = r.by
  /\ hdDb.rows \in Seq(AllRows) /\ RowsInOrder(hdDb.rows) /\ OldFirst(hdDb.rows)
  /\ \A r \in ToSet(hdDb.rows) : r.by # OldMm => IsNewest(r, hdLog)
  /\ \A r \in ToSet(hdLog) : IsNewest(r, hdLog) => r \in ToSet(hdDb.rows)
  /\ ~hdDb.imported \/ hdDb.pending => \A r \in ToSet(hdDb.rows) : r.by # OldMm

(* The files of the older mm, whose rows get ever greater numbers.           *)
AFile(f, old) ==
  /\ f = File(f.there, f.rows) /\ f.there \in BOOLEAN /\ f.rows \in Seq(OldRows) /\ RowsInOrder(f.rows)
  /\ f.there <=> f.rows # <<>>
  /\ \A q \in ToSet(f.rows) : q.n <= old
Precede(rows, more) == \A q \in ToSet(rows), r \in ToSet(more) : q.n < r.n
FilesInv ==
  /\ hdOld \in Nat /\ hdFiles = [one |-> hdFiles.one, live |-> hdFiles.live]
  /\ AFile(hdFiles.one, hdOld) /\ AFile(hdFiles.live, hdOld)
  /\ Precede(hdFiles.one.rows, hdFiles.live.rows)

(* A file that is not as it was measured has rows that were not then, for    *)
(* good; and one that is, was read as it is.                                 *)
Ahead(f, then) == \E r \in ToSet(f.rows) : \A q \in ToSet(then.rows) : q.n < r.n
Since(then, now, old) ==
  /\ AFile(then.one, old) /\ AFile(then.live, old)
  /\ now.one # NoFile => now.one = then.one \/ Ahead(now.one, then.one)
  /\ now.live # NoFile => Ahead(now.live, then.one) /\ (now.live = then.live \/ Ahead(now.live, then.live))
HasRead(was, is, rows) == (is # NoFile /\ is = was) => ToSet(is.rows) \subseteq ToSet(rows)

Due(db) == ~db.imported \/ db.pending
Legacy(rows, old) == rows \in Seq(OldRows) /\ RowsInOrder(rows) /\ \A q \in ToSet(rows) : q.n <= old
Importing(pc, import, files, old) ==
  /\ pc \notin {"read-one", "read-live", "commit"} => import = NoBatch
  /\ import = [stat |-> import.stat, legacy |-> import.legacy, refused |-> import.refused]
  /\ pc # "commit" => import.refused = FALSE
  /\ pc \in {"read-one", "read-live"} => Since(import.stat, files, old)
  /\ pc = "read-live" => /\ Legacy(import.legacy, old) /\ Precede(import.legacy, files.live.rows)
                         /\ HasRead(import.stat.one, files.one, import.legacy)
ReadAll(import, files, old) ==
  /\ Since(import.stat, files, old) /\ Legacy(import.legacy, old)
  /\ HasRead(import.stat.one, files.one, import.legacy)
  /\ HasRead(import.stat.live, files.live, import.legacy)
Imported(me) ==
  /\ Importing(me.pc, me.import, hdFiles, hdOld)
  /\ me.pc \in {"stat", "read-one", "read-live"} => Due(hdDb)
  /\ (me.pc = "commit" /\ Due(hdDb) /\ ~me.import.refused) => ReadAll(me.import, hdFiles, hdOld)
ImportInv == \A w \in HDWriters : Imported(hdWriter[w])

(* A row of a file that is as it was imported is in the table, or older than *)
(* the newest that are kept.                                                 *)
OfClass(class, rows) == {q \in ToSet(rows) : q.class = class}
Shown(r, rows) == r \in ToSet(rows) \/ Cardinality(OfClass(r.class, rows)) >= HDLimit
ShowsFile(was, is, rows) == (is # NoFile /\ is = was) => \A r \in ToSet(is.rows) : Shown(r, rows)
Covers(then, now, old, rows) ==
  Since(then, now, old) /\ ShowsFile(then.one, now.one, rows) /\ ShowsFile(then.live, now.live, rows)
CoverInv ==
  /\ ~Due(hdDb) => Covers(hdDb.stat, hdFiles, hdOld, hdDb.rows)
  /\ (hdReader.pc = "notices" /\ ~hdReader.pending) => Covers(hdReader.stat, hdFiles, hdOld, hdReader.rows)
  /\ hdReader = [pc |-> hdReader.pc, rows |-> hdReader.rows, pending |-> hdReader.pending, stat |-> hdReader.stat,
                 hides |-> hdReader.hides, legacy |-> hdReader.legacy, diverged |-> hdReader.diverged]
  /\ NoFileHidden

HEInv == RowsInv /\ FilesInv /\ ImportInv /\ CoverInv

(* Counting.  The places of a finite set of numbers are ranked from below    *)
(* and from above without a gap.                                             *)
UpTo(K, i) == {j \in K : j <= i}
After(C, i) == {j \in C : j > i}

LEMMA RankedFromBelow ==
  ASSUME NEW N \in Nat, NEW K, K \subseteq 1 .. N
  PROVE  /\ IsFiniteSet(K) /\ Cardinality(K) \in Nat
         /\ \A i \in K : Cardinality(UpTo(K, i)) \in 1 .. Cardinality(K)
         /\ \A i, j \in K : i < j => Cardinality(UpTo(K, i)) < Cardinality(UpTo(K, j))
         /\ \A k \in 1 .. Cardinality(K) : \E i \in K : Cardinality(UpTo(K, i)) = k
<1>1. IsFiniteSet(K)
  <2>1. IsFiniteSet(1 .. N)
    BY FS_Interval
  <2> QED BY <2>1, FS_Subset
<1>2. Cardinality(K) \in Nat
  BY <1>1, FS_CardinalityType
<1>3. ASSUME NEW i \in K PROVE Cardinality(UpTo(K, i)) \in 1 .. Cardinality(K)
  <2>1. UpTo(K, i) \in SUBSET K /\ i \in UpTo(K, i)
    BY DEF UpTo
  <2>2. IsFiniteSet(UpTo(K, i)) /\ Cardinality(UpTo(K, i)) <= Cardinality(K)
    BY <1>1, <2>1, FS_Subset
  <2>3. Cardinality(UpTo(K, i)) \in Nat /\ Cardinality(UpTo(K, i)) # 0
    BY <2>1, <2>2, FS_CardinalityType, FS_EmptySet
  <2> QED BY <1>2, <2>2, <2>3
<1>4. ASSUME NEW i \in K, NEW j \in K, i < j PROVE Cardinality(UpTo(K, i)) < Cardinality(UpTo(K, j))
  <2>1. UpTo(K, i) \in SUBSET UpTo(K, j) /\ j \in UpTo(K, j) /\ j \notin UpTo(K, i) /\ UpTo(K, j) \in SUBSET K
    <3>1. i \in Int /\ j \in Int /\ \A x \in K : x \in Int
      OBVIOUS
    <3>2. \A x \in UpTo(K, i) : x \in UpTo(K, j)
      <4>1. \A x \in K : x <= i => x <= j
        BY <1>4, <3>1
      <4> QED BY <4>1 DEF UpTo
    <3>3. j \in UpTo(K, j) /\ j \notin UpTo(K, i)
      BY <1>4, <3>1 DEF UpTo
    <3> QED BY <3>2, <3>3 DEF UpTo
  <2>2. IsFiniteSet(UpTo(K, j))
    BY <1>1, <2>1, FS_Subset
  <2>3. /\ Cardinality(UpTo(K, i)) <= Cardinality(UpTo(K, j))
        /\ Cardinality(UpTo(K, j)) # Cardinality(UpTo(K, i))
    BY <2>1, <2>2, FS_Subset
  <2>4. Cardinality(UpTo(K, i)) \in Nat /\ Cardinality(UpTo(K, j)) \in Nat
    BY <1>3
  <2> QED BY <2>3, <2>4
<1>5. ASSUME NEW k \in 1 .. Cardinality(K) PROVE \E i \in K : Cardinality(UpTo(K, i)) = k
  <2> DEFINE f == [i \in K |-> Cardinality(UpTo(K, i))]
             T == 1 .. Cardinality(K)
  <2>1. f \in [K -> T]
    BY <1>3
  <2>2. ASSUME NEW i \in K, NEW j \in K, f[i] = f[j] PROVE i = j
    <3>1. i \in Int /\ j \in Int /\ f[i] \in Int
      BY <1>3
    <3>2. ~(i < j) /\ ~(j < i)
      BY <1>4, <2>2, <3>1
    <3> QED BY <3>1, <3>2
  <2>3. f \in Injection(K, T)
    BY <2>1, <2>2 DEF Injection, IsInjective
  <2>4. IsFiniteSet(T) /\ Cardinality(T) = Cardinality(K)
    <3>1. Cardinality(K) \in Int /\ 1 \in Int
      BY <1>2
    <3>2. IsFiniteSet(T) /\ Cardinality(T) = IF 1 > Cardinality(K) THEN 0 ELSE Cardinality(K) - 1 + 1
      BY <3>1, FS_Interval
    <3> QED BY <1>2, <3>2
  <2> HIDE DEF f, T
  <2>5. f \in Surjection(K, T)
    BY <2>3, <2>4, FS_Injection
  <2>6. \A t \in T : \E i \in K : f[i] = t
    BY <2>5 DEF Surjection
  <2> QED BY <2>6 DEF f, T
<1> QED BY <1>1, <1>2, <1>3, <1>4, <1>5

LEMMA RankedFromAbove ==
  ASSUME NEW N \in Nat, NEW C, C \subseteq 1 .. N
  PROVE  /\ IsFiniteSet(C) /\ Cardinality(C) \in Nat
         /\ \A i \in C : Cardinality(After(C, i)) \in 0 .. Cardinality(C) - 1
         /\ \A k \in 0 .. Cardinality(C) - 1 : \E i \in C : Cardinality(After(C, i)) = k
<1>1. IsFiniteSet(C)
  <2>1. IsFiniteSet(1 .. N)
    BY FS_Interval
  <2> QED BY <2>1, FS_Subset
<1>2. Cardinality(C) \in Nat
  BY <1>1, FS_CardinalityType
<1>3. ASSUME NEW i \in C PROVE Cardinality(After(C, i)) \in 0 .. Cardinality(C) - 1
  <2>1. After(C, i) \in SUBSET C /\ i \notin After(C, i)
    BY DEF After
  <2>2. /\ IsFiniteSet(After(C, i)) /\ Cardinality(After(C, i)) <= Cardinality(C)
        /\ Cardinality(C) # Cardinality(After(C, i))
    BY <1>1, <2>1, FS_Subset
  <2>3. Cardinality(After(C, i)) \in Nat
    BY <2>2, FS_CardinalityType
  <2> QED BY <1>2, <2>2, <2>3
<1>4. ASSUME NEW i \in C, NEW j \in C, i < j PROVE Cardinality(After(C, j)) < Cardinality(After(C, i))
  <2>1. After(C, j) \in SUBSET After(C, i) /\ j \in After(C, i) /\ j \notin After(C, j) /\ After(C, i) \in SUBSET C
    <3>1. i \in Int /\ j \in Int /\ \A x \in C : x \in Int
      OBVIOUS
    <3>2. \A x \in After(C, j) : x \in After(C, i)
      <4>1. \A x \in C : x > j => x > i
        BY <1>4, <3>1
      <4> QED BY <4>1 DEF After
    <3>3. j \in After(C, i) /\ j \notin After(C, j)
      BY <1>4, <3>1 DEF After
    <3> QED BY <3>2, <3>3 DEF After
  <2>2. IsFiniteSet(After(C, i))
    BY <1>1, <2>1, FS_Subset
  <2>3. /\ Cardinality(After(C, j)) <= Cardinality(After(C, i))
        /\ Cardinality(After(C, i)) # Cardinality(After(C, j))
    BY <2>1, <2>2, FS_Subset
  <2>4. Cardinality(After(C, i)) \in Nat /\ Cardinality(After(C, j)) \in Nat
    BY <1>2, <1>3
  <2> QED BY <2>3, <2>4
<1>5. ASSUME NEW k \in 0 .. Cardinality(C) - 1 PROVE \E i \in C : Cardinality(After(C, i)) = k
  <2> DEFINE f == [i \in C |-> Cardinality(After(C, i))]
             T == 0 .. Cardinality(C) - 1
  <2>1. f \in [C -> T]
    BY <1>3
  <2>2. ASSUME NEW i \in C, NEW j \in C, f[i] = f[j] PROVE i = j
    <3>1. i \in Int /\ j \in Int /\ f[i] \in Int
      BY <1>2, <1>3
    <3>2. ~(i < j) /\ ~(j < i)
      BY <1>4, <2>2, <3>1
    <3> QED BY <3>1, <3>2
  <2>3. f \in Injection(C, T)
    BY <2>1, <2>2 DEF Injection, IsInjective
  <2>4. IsFiniteSet(T) /\ Cardinality(T) = Cardinality(C)
    <3>1. PICK b \in Int : b = Cardinality(C) - 1
      BY <1>2
    <3>2. IsFiniteSet(0 .. b) /\ Cardinality(0 .. b) = IF 0 > b THEN 0 ELSE b - 0 + 1
      BY FS_Interval
    <3> QED BY <1>2, <3>1, <3>2
  <2> HIDE DEF f, T
  <2>5. f \in Surjection(C, T)
    BY <2>3, <2>4, FS_Injection
  <2>6. \A t \in T : \E i \in C : f[i] = t
    BY <2>5 DEF Surjection
  <2> QED BY <2>6 DEF f, T
<1> QED BY <1>1, <1>2, <1>3, <1>5

(* The last L of a set that has as many are as many.                         *)
LEMMA LastOnes ==
  ASSUME NEW N \in Nat, NEW C, C \subseteq 1 .. N, NEW L \in Nat, Cardinality(C) >= L
  PROVE  Cardinality({i \in C : Cardinality(After(C, i)) < L}) >= L
<1> DEFINE K == {i \in C : Cardinality(After(C, i)) < L}
           f == [i \in K |-> Cardinality(After(C, i))]
           T == 0 .. L - 1
<1>1. /\ IsFiniteSet(C) /\ Cardinality(C) \in Nat
      /\ \A i \in C : Cardinality(After(C, i)) \in 0 .. Cardinality(C) - 1
      /\ \A k \in 0 .. Cardinality(C) - 1 : \E i \in C : Cardinality(After(C, i)) = k
  BY RankedFromAbove
<1>2. f \in [K -> T]
  <2>1. ASSUME NEW i \in K PROVE Cardinality(After(C, i)) \in T
    BY <1>1
  <2> QED BY <2>1
<1>3. \A t \in T : \E i \in K : f[i] = t
  <2> SUFFICES ASSUME NEW t \in T PROVE \E i \in K : f[i] = t
    OBVIOUS
  <2>1. t \in 0 .. Cardinality(C) - 1 /\ t < L
    BY <1>1
  <2>2. PICK i \in C : Cardinality(After(C, i)) = t
    BY <1>1, <2>1
  <2>3. i \in K
    BY <2>1, <2>2
  <2> QED BY <2>2, <2>3
<1>4. f \in Surjection(K, T)
  BY <1>2, <1>3 DEF Surjection
<1>5. IsFiniteSet(K)
  BY <1>1, FS_Subset
<1>6. Cardinality(T) = L
  <2>1. PICK b \in Int : b = L - 1
    OBVIOUS
  <2>2. Cardinality(0 .. b) = IF 0 > b THEN 0 ELSE b - 0 + 1
    BY FS_Interval
  <2> QED BY <2>1, <2>2
<1> HIDE DEF K, f, T
<1>7. Cardinality(T) <= Cardinality(K)
  BY <1>4, <1>5, FS_Surjection
<1> QED BY <1>6, <1>7 DEF K

(* A sequence without doubles has as many values as places.                  *)
ValuesAt(s, I) == {s[i] : i \in I}
LEMMA Images ==
  ASSUME NEW I, IsFiniteSet(I), NEW s, \A i, j \in I : s[i] = s[j] => i = j
  PROVE  IsFiniteSet(ValuesAt(s, I)) /\ Cardinality(ValuesAt(s, I)) = Cardinality(I)
<1> DEFINE T == ValuesAt(s, I)
           f == [i \in I |-> s[i]]
<1>1. f \in [I -> T] /\ \A t \in T : \E i \in I : f[i] = t
  BY DEF ValuesAt
<1>2. \A i, j \in I : f[i] = f[j] => i = j
  OBVIOUS
<1>3. f \in Bijection(I, T)
  BY <1>1, <1>2 DEF Bijection, Injection, IsInjective, Surjection
<1> HIDE DEF f, T
<1>4. ExistsBijection(I, T)
  BY <1>3 DEF ExistsBijection
<1>5. IsFiniteSet(T) /\ Cardinality(T) = Cardinality(I)
  BY <1>4, FS_Bijection
<1> QED BY <1>5 DEF T

(* What pruning keeps, and where.                                            *)
Places(s, class) == {j \in DOMAIN s : s[j].class = class}

LEMMA NewerOfClass == ASSUME NEW s, NEW i \in DOMAIN s PROVE NewerRows(s, i) = After(Places(s, s[i].class), i)
BY DEF NewerRows, After, Places

LEMMA Pruned ==
  ASSUME NEW R, NEW s \in Seq(R)
  PROVE  LET K == KeptAt(s)
             m == Cardinality(K)
         IN  /\ m \in Nat /\ Prune(s) \in Seq(R) /\ DOMAIN Prune(s) = 1 .. m
             /\ \A k \in 1 .. m : Place(K, k) \in K /\ Prune(s)[k] = s[Place(K, k)]
             /\ \A k, l \in 1 .. m : k < l => Place(K, k) < Place(K, l)
             /\ \A i \in K : \E k \in 1 .. m : Place(K, k) = i
<1> DEFINE N == Len(s)
           K == KeptAt(s)
           m == Cardinality(K)
<1>1. N \in Nat /\ DOMAIN s = 1 .. N
  OBVIOUS
<1>2. K \subseteq 1 .. N
  BY <1>1 DEF KeptAt
<1>3. Prune(s) = [k \in 1 .. m |-> s[Place(K, k)]]
  BY DEF Prune
<1> HIDE DEF N, K
<1>4. /\ m \in Nat
      /\ \A i \in K : Cardinality(UpTo(K, i)) \in 1 .. m
      /\ \A i, j \in K : i < j => Cardinality(UpTo(K, i)) < Cardinality(UpTo(K, j))
      /\ \A k \in 1 .. m : \E i \in K : Cardinality(UpTo(K, i)) = k
  BY <1>1, <1>2, RankedFromBelow
<1>5. \A k \in 1 .. m : Place(K, k) \in K /\ Cardinality(UpTo(K, Place(K, k))) = k
  <2>1. \A k : Place(K, k) = CHOOSE i \in K : Cardinality(UpTo(K, i)) = k
    BY DEF Place, UpTo
  <2> HIDE DEF m
  <2> QED BY <1>4, <2>1
<1> HIDE DEF m
<1>6. ASSUME NEW k \in 1 .. m
      PROVE  Place(K, k) \in K /\ Prune(s)[k] = s[Place(K, k)] /\ s[Place(K, k)] \in R
  <2>1. PICK i \in K : i = Place(K, k)
    BY <1>5
  <2>2. s[i] \in R
    BY <1>1, <1>2
  <2> QED BY <1>3, <2>1, <2>2
<1>7. Prune(s) \in Seq(R) /\ DOMAIN Prune(s) = 1 .. m
  <2>1. Prune(s) \in [1 .. m -> R]
    BY <1>3, <1>6
  <2> QED BY <1>3, <1>4, <2>1
<1>8. ASSUME NEW k \in 1 .. m, NEW l \in 1 .. m, k < l PROVE Place(K, k) < Place(K, l)
  <2>1. PICK i \in K, j \in K : i = Place(K, k) /\ j = Place(K, l)
    BY <1>5
  <2>2. Cardinality(UpTo(K, i)) = k /\ Cardinality(UpTo(K, j)) = l
    BY <1>5, <2>1
  <2>3. i \in Int /\ j \in Int /\ k \in Int /\ l \in Int
    BY <1>1, <1>2
  <2>4. ~(j < i) /\ i # j
    BY <1>4, <1>8, <2>2, <2>3
  <2> QED BY <2>1, <2>3, <2>4
<1>9. ASSUME NEW i \in K PROVE \E k \in 1 .. m : Place(K, k) = i
  <2>1. PICK k \in 1 .. m : Cardinality(UpTo(K, i)) = k
    BY <1>4
  <2>2. PICK j \in K : j = Place(K, k) /\ Cardinality(UpTo(K, j)) = k
    BY <1>5
  <2>3. i \in Int /\ j \in Int /\ k \in Int
    BY <1>1, <1>2
  <2>4. ~(j < i) /\ ~(i < j)
    BY <1>4, <2>1, <2>2, <2>3
  <2> QED BY <2>2, <2>3, <2>4
<1> QED BY <1>4, <1>6, <1>7, <1>8, <1>9 DEF K, m

LEMMA PrunedRows ==
  ASSUME NEW R, NEW s \in Seq(R)
  PROVE  /\ \A r : r \in ToSet(Prune(s)) <=> \E i \in KeptAt(s) : r = s[i]
         /\ RowsInOrder(s) => RowsInOrder(Prune(s))
         /\ OldFirst(s) => OldFirst(Prune(s))
<1> DEFINE K == KeptAt(s)
           m == Cardinality(K)
<1>1. /\ m \in Nat /\ DOMAIN Prune(s) = 1 .. m
      /\ \A k \in 1 .. m : Place(K, k) \in K /\ Prune(s)[k] = s[Place(K, k)]
      /\ \A k, l \in 1 .. m : k < l => Place(K, k) < Place(K, l)
      /\ \A i \in K : \E k \in 1 .. m : Place(K, k) = i
  BY Pruned
<1>2. \A i \in K : i \in DOMAIN s
  BY DEF KeptAt
<1> HIDE DEF m, K
<1>3. \A r : r \in ToSet(Prune(s)) <=> \E i \in K : r = s[i]
  BY <1>1, <1>2 DEF ToSet
<1>4. ASSUME RowsInOrder(s) PROVE RowsInOrder(Prune(s))
  BY <1>1, <1>2, <1>4 DEF RowsInOrder
<1>5. ASSUME OldFirst(s) PROVE OldFirst(Prune(s))
  BY <1>1, <1>2, <1>5 DEF OldFirst
<1> QED BY <1>3, <1>4, <1>5 DEF K

(* Rows in order are all different.                                          *)
LEMMA NoDoubles ==
  ASSUME NEW R, R \subseteq AllRows, NEW s \in Seq(R), RowsInOrder(s), NEW i \in DOMAIN s, NEW j \in DOMAIN s, s[i] = s[j]
  PROVE  i = j
<1>1. s[i].n \in Nat /\ s[i].by = s[j].by /\ s[i].n = s[j].n /\ s[j].n \in Nat
  BY DEF AllRows
<1>2. i \in Int /\ j \in Int
  OBVIOUS
<1>3. ~(i < j) /\ ~(j < i)
  BY <1>1 DEF RowsInOrder
<1> QED BY <1>2, <1>3

LEMMA ClassPlaces ==
  ASSUME NEW R, R \subseteq AllRows, NEW s \in Seq(R), RowsInOrder(s), NEW class, NEW I, I \subseteq Places(s, class)
  PROVE  /\ IsFiniteSet(ValuesAt(s, I)) /\ Cardinality(ValuesAt(s, I)) = Cardinality(I)
         /\ ValuesAt(s, Places(s, class)) = OfClass(class, s)
<1>1. I \subseteq DOMAIN s
  BY DEF Places
<1>2. IsFiniteSet(I)
  <2>1. DOMAIN s = 1 .. Len(s) /\ Len(s) \in Nat
    OBVIOUS
  <2>2. IsFiniteSet(1 .. Len(s))
    BY <2>1, FS_Interval
  <2> QED BY <1>1, <2>1, <2>2, FS_Subset
<1>3. \A i, j \in I : s[i] = s[j] => i = j
  BY <1>1, NoDoubles
<1>4. IsFiniteSet(ValuesAt(s, I)) /\ Cardinality(ValuesAt(s, I)) = Cardinality(I)
  BY <1>2, <1>3, Images
<1>5. ValuesAt(s, Places(s, class)) = OfClass(class, s)
  BY DEF Places, OfClass, ToSet, ValuesAt
<1> QED BY <1>4, <1>5

(* Of a class that has as many rows as are kept, as many stay.               *)
LEMMA ManyStay ==
  ASSUME NEW R, R \subseteq AllRows, NEW s \in Seq(R), RowsInOrder(s), NEW class,
         Cardinality(OfClass(class, s)) >= HDLimit
  PROVE  Cardinality(OfClass(class, Prune(s))) >= HDLimit
<1> DEFINE C == Places(s, class)
           K == {i \in C : Cardinality(After(C, i)) < HDLimit}
<1>1. Len(s) \in Nat /\ C \subseteq 1 .. Len(s)
  BY DEF Places
<1>2. Cardinality(C) >= HDLimit
  BY ClassPlaces
<1>3. Cardinality(K) >= HDLimit
  <2> HIDE DEF C
  <2> QED BY <1>1, <1>2, LastOnes, HDAssumption
<1>4. K \subseteq KeptAt(s) /\ \A i \in KeptAt(s) : s[i].class = class => i \in K
  BY NewerOfClass DEF KeptAt, Places
<1>5. ValuesAt(s, K) = OfClass(class, Prune(s))
  <2>1. \A r : r \in ToSet(Prune(s)) <=> \E i \in KeptAt(s) : r = s[i]
    BY PrunedRows
  <2>2. \A i \in K : s[i].class = class
    BY DEF Places
  <2> HIDE DEF K
  <2> QED BY <1>4, <2>1, <2>2 DEF OfClass, ValuesAt
<1>6. Cardinality(ValuesAt(s, K)) = Cardinality(K)
  <2>1. K \subseteq Places(s, class)
    OBVIOUS
  <2> HIDE DEF K
  <2> QED BY <2>1, ClassPlaces
<1> QED BY <1>3, <1>5, <1>6

LEMMA StillShown ==
  ASSUME NEW R, R \subseteq AllRows, NEW s \in Seq(R), RowsInOrder(s), NEW r, Shown(r, s)
  PROVE  Shown(r, Prune(s))
<1>1. CASE Cardinality(OfClass(r.class, s)) >= HDLimit
  BY <1>1, ManyStay DEF Shown
<1>2. CASE ~(Cardinality(OfClass(r.class, s)) >= HDLimit)
  <2>1. PICK i \in DOMAIN s : r = s[i]
    BY <1>2 DEF Shown, ToSet
  <2> DEFINE C == Places(s, r.class)
  <2>2. After(C, i) \in SUBSET C /\ C \subseteq 1 .. Len(s) /\ Len(s) \in Nat
    BY DEF After, Places
  <2>3. Cardinality(C) = Cardinality(OfClass(r.class, s)) /\ IsFiniteSet(C) /\ Cardinality(C) \in Nat
    <3>1. Cardinality(ValuesAt(s, C)) = Cardinality(C) /\ ValuesAt(s, C) = OfClass(r.class, s)
      BY ClassPlaces
    <3>2. IsFiniteSet(C) /\ Cardinality(C) \in Nat
      <4> HIDE DEF C
      <4> QED BY <2>2, RankedFromAbove
    <3> QED BY <3>1, <3>2
  <2>4. Cardinality(After(C, i)) <= Cardinality(C) /\ Cardinality(After(C, i)) \in Nat
    BY <2>2, <2>3, FS_Subset, FS_CardinalityType
  <2>5. Cardinality(After(C, i)) < HDLimit
    BY <1>2, <2>3, <2>4, HDAssumption
  <2>6. i \in KeptAt(s)
    BY <2>1, <2>5, NewerOfClass DEF KeptAt
  <2>7. r \in ToSet(Prune(s))
    BY <2>1, <2>6, PrunedRows
  <2> QED BY <2>7 DEF Shown
<1> QED BY <1>1, <1>2

(* Sequences put together.                                                   *)
LEMMA JoinedPlaces ==
  ASSUME NEW R, NEW s \in Seq(R), NEW t \in Seq(R), NEW i \in DOMAIN (s \o t)
  PROVE  \/ i \in DOMAIN s /\ (s \o t)[i] = s[i] /\ i <= Len(s)
         \/ i - Len(s) \in DOMAIN t /\ (s \o t)[i] = t[i - Len(s)] /\ i > Len(s)
<1>1. DOMAIN (s \o t) = 1 .. Len(s) + Len(t) /\ Len(s) \in Nat /\ Len(t) \in Nat
  OBVIOUS
<1>2. CASE i <= Len(s)
  <2>1. i \in 1 .. Len(s)
    BY <1>1, <1>2
  <2> QED BY <1>2, <2>1
<1>3. CASE i > Len(s)
  <2>1. i - Len(s) \in 1 .. Len(t) /\ i = Len(s) + (i - Len(s))
    BY <1>1, <1>3
  <2> QED BY <1>3, <2>1
<1> QED BY <1>1, <1>2, <1>3

LEMMA JoinedOrder ==
  ASSUME NEW R, R \subseteq AllRows, NEW s \in Seq(R), NEW t \in Seq(R), RowsInOrder(s), RowsInOrder(t),
         \A q \in ToSet(s), r \in ToSet(t) : q.by = r.by => q.n < r.n
  PROVE  RowsInOrder(s \o t)
<1> SUFFICES ASSUME NEW i \in DOMAIN (s \o t), NEW j \in DOMAIN (s \o t), i < j, (s \o t)[i].by = (s \o t)[j].by
             PROVE  (s \o t)[i].n < (s \o t)[j].n
  BY DEF RowsInOrder
<1>1. i \in Nat /\ j \in Nat /\ Len(s) \in Nat
  OBVIOUS
<1>2. CASE i \in DOMAIN s /\ (s \o t)[i] = s[i] /\ i <= Len(s)
  <2>1. CASE j \in DOMAIN s /\ (s \o t)[j] = s[j]
    BY <1>2, <2>1 DEF RowsInOrder
  <2>2. CASE j - Len(s) \in DOMAIN t /\ (s \o t)[j] = t[j - Len(s)]
    BY <1>2, <2>2 DEF ToSet
  <2> QED BY <2>1, <2>2, JoinedPlaces
<1>3. CASE i - Len(s) \in DOMAIN t /\ (s \o t)[i] = t[i - Len(s)] /\ i > Len(s)
  <2>1. ~(j <= Len(s))
    BY <1>1, <1>3
  <2>2. j - Len(s) \in DOMAIN t /\ (s \o t)[j] = t[j - Len(s)]
    BY <2>1, JoinedPlaces
  <2>3. i - Len(s) < j - Len(s)
    BY <1>1
  <2> QED BY <1>3, <2>2, <2>3 DEF RowsInOrder
<1> QED BY <1>2, <1>3, JoinedPlaces

LEMMA JoinedOldFirst ==
  ASSUME NEW R, NEW s \in Seq(R), NEW t \in Seq(R), OldFirst(s), OldFirst(t),
         \A q \in ToSet(s), r \in ToSet(t) : r.by = OldMm => q.by = OldMm
  PROVE  OldFirst(s \o t)
<1> SUFFICES ASSUME NEW i \in DOMAIN (s \o t), NEW j \in DOMAIN (s \o t), i < j, (s \o t)[j].by = OldMm
             PROVE  (s \o t)[i].by = OldMm
  BY DEF OldFirst
<1>1. i \in Nat /\ j \in Nat /\ Len(s) \in Nat
  OBVIOUS
<1>2. CASE i \in DOMAIN s /\ (s \o t)[i] = s[i] /\ i <= Len(s)
  <2>1. CASE j \in DOMAIN s /\ (s \o t)[j] = s[j]
    BY <1>2, <2>1 DEF OldFirst
  <2>2. CASE j - Len(s) \in DOMAIN t /\ (s \o t)[j] = t[j - Len(s)]
    BY <1>2, <2>2 DEF ToSet
  <2> QED BY <2>1, <2>2, JoinedPlaces
<1>3. CASE i - Len(s) \in DOMAIN t /\ (s \o t)[i] = t[i - Len(s)] /\ i > Len(s)
  <2>1. ~(j <= Len(s))
    BY <1>1, <1>3
  <2>2. j - Len(s) \in DOMAIN t /\ (s \o t)[j] = t[j - Len(s)]
    BY <2>1, JoinedPlaces
  <2>3. i - Len(s) < j - Len(s)
    BY <1>1
  <2> QED BY <1>3, <2>2, <2>3 DEF OldFirst
<1> QED BY <1>2, <1>3, JoinedPlaces

(* How many rows of its command are newer decides what is kept of it.        *)
LEMMA FiniteRows == ASSUME NEW R, NEW s \in Seq(R) PROVE IsFiniteSet(ToSet(s))
<1> DEFINE f == [i \in 1 .. Len(s) |-> s[i]]
<1>1. Len(s) \in Nat /\ DOMAIN s = 1 .. Len(s)
  OBVIOUS
<1>2. IsFiniteSet(1 .. Len(s))
  BY <1>1, FS_Interval
<1>3. f \in Surjection(1 .. Len(s), ToSet(s))
  BY <1>1 DEF Surjection, ToSet
<1> HIDE DEF f
<1> QED BY <1>2, <1>3, FS_Surjection

LEMMA CountNewer ==
  ASSUME NEW s \in Seq(AllRows), RowsInOrder(s), OldFirst(s), \A r \in ToSet(s) : r.by # OldMm => r.class = r.by,
         NEW i \in DOMAIN s, s[i].by # OldMm
  PROVE  Cardinality(NewerRows(s, i)) = Cardinality(NewerThan(s[i], s))
<1>1. DOMAIN s = 1 .. Len(s) /\ Len(s) \in Nat
  OBVIOUS
<1>2. \A j \in DOMAIN s : s[j] \in AllRows /\ s[j] \in ToSet(s) /\ s[j].n \in Nat
  <2>1. \A j \in DOMAIN s : s[j] \in AllRows
    OBVIOUS
  <2>2. \A j \in DOMAIN s : s[j] \in ToSet(s)
    BY DEF ToSet
  <2> QED BY <2>1, <2>2 DEF AllRows
<1>3. ASSUME NEW j \in NewerRows(s, i) PROVE s[j] \in NewerThan(s[i], s)
  <2>1. j \in DOMAIN s /\ i < j /\ s[j].class = s[i].class
    BY <1>1 DEF NewerRows
  <2>2. s[j].by # OldMm
    BY <2>1 DEF OldFirst
  <2>3. s[j].by = s[i].by
    BY <1>2, <2>1, <2>2
  <2>4. s[i].n < s[j].n /\ s[i].n \in Nat /\ s[j].n \in Nat
    BY <1>2, <2>1, <2>3 DEF RowsInOrder
  <2> QED BY <1>2, <2>1, <2>3, <2>4 DEF NewerThan
<1>4. ASSUME NEW r \in NewerThan(s[i], s) PROVE \E j \in NewerRows(s, i) : r = s[j]
  <2>1. PICK j \in DOMAIN s : r = s[j]
    BY DEF NewerThan, ToSet
  <2>2. s[j].by = s[i].by /\ s[j].n > s[i].n
    BY <2>1 DEF NewerThan
  <2>3. i \in Nat /\ j \in Nat /\ ~(j < i) /\ i # j
    BY <1>1, <1>2, <2>1, <2>2 DEF RowsInOrder
  <2>4. s[j].class = s[i].class
    BY <1>2, <2>1, <2>2
  <2> QED BY <2>1, <2>3, <2>4 DEF NewerRows
<1>5. ValuesAt(s, NewerRows(s, i)) = NewerThan(s[i], s)
  BY <1>3, <1>4 DEF ValuesAt
<1>6. NewerRows(s, i) \in SUBSET (1 .. Len(s)) /\ IsFiniteSet(1 .. Len(s))
  BY <1>1, FS_Interval DEF NewerRows
<1>7. IsFiniteSet(NewerRows(s, i))
  BY <1>6, FS_Subset
<1>8. \A j, k \in NewerRows(s, i) : s[j] = s[k] => j = k
  BY NoDoubles DEF NewerRows
<1> QED BY <1>5, <1>7, <1>8, Images

(* A commit keeps, of the rows of commands, the newest.                      *)
CommitOf(s, log, old, b) ==
  /\ s \in Seq(AllRows) /\ RowsInOrder(s) /\ OldFirst(s) /\ \A r \in ToSet(s) : r.by # OldMm => r.class = r.by
  /\ log \in Seq(AllRows) /\ old \in Seq(AllRows) /\ b \in Seq(AllRows)
  /\ \A r : r \in ToSet(log) <=> r \in ToSet(old) \/ r \in ToSet(b)
  /\ \A r : r.by # OldMm => (r \in ToSet(s) <=> IsNewest(r, old) \/ r \in ToSet(b))
  /\ \A q \in ToSet(old), r \in ToSet(b) : q.by = r.by => q.n < r.n

LEMMA CommitKeepsNewest ==
  ASSUME NEW s, NEW log, NEW old, NEW b, CommitOf(s, log, old, b), NEW r, r.by # OldMm
  PROVE  r \in ToSet(Prune(s)) <=> IsNewest(r, log)
<1> /\ s \in Seq(AllRows) /\ RowsInOrder(s) /\ OldFirst(s) /\ \A q \in ToSet(s) : q.by # OldMm => q.class = q.by
    /\ log \in Seq(AllRows) /\ old \in Seq(AllRows) /\ b \in Seq(AllRows)
    /\ \A q : q \in ToSet(log) <=> q \in ToSet(old) \/ q \in ToSet(b)
    /\ \A q : q.by # OldMm => (q \in ToSet(s) <=> IsNewest(q, old) \/ q \in ToSet(b))
    /\ \A q \in ToSet(old), p \in ToSet(b) : q.by = p.by => q.n < p.n
  BY DEF CommitOf
<1>1. IsFiniteSet(ToSet(log))
  BY FiniteRows
<1>2. \A p, q : NewerThan(p, log) \subseteq NewerThan(q, log)
                 => /\ Cardinality(NewerThan(p, log)) <= Cardinality(NewerThan(q, log))
                    /\ Cardinality(NewerThan(p, log)) \in Nat /\ Cardinality(NewerThan(q, log)) \in Nat
  <2> SUFFICES ASSUME NEW p, NEW q, NewerThan(p, log) \subseteq NewerThan(q, log)
               PROVE  /\ Cardinality(NewerThan(p, log)) <= Cardinality(NewerThan(q, log))
                      /\ Cardinality(NewerThan(p, log)) \in Nat /\ Cardinality(NewerThan(q, log)) \in Nat
    OBVIOUS
  <2>1. NewerThan(q, log) \in SUBSET ToSet(log)
    BY DEF NewerThan
  <2>2. IsFiniteSet(NewerThan(q, log))
    BY <1>1, <2>1, FS_Subset
  <2>3. IsFiniteSet(NewerThan(p, log)) /\ Cardinality(NewerThan(p, log)) <= Cardinality(NewerThan(q, log))
    BY <2>2, FS_Subset
  <2> QED BY <2>2, <2>3, FS_CardinalityType
<1>3. \A p : NewerThan(p, old) \subseteq NewerThan(p, log)
  BY DEF NewerThan
<1>4. \A p : NewerThan(p, old) \subseteq NewerThan(p, log) => Cardinality(NewerThan(p, old)) <= Cardinality(NewerThan(p, log))
  <2> SUFFICES ASSUME NEW p, NewerThan(p, old) \subseteq NewerThan(p, log)
               PROVE  Cardinality(NewerThan(p, old)) <= Cardinality(NewerThan(p, log))
    OBVIOUS
  <2>1. NewerThan(p, log) \in SUBSET ToSet(log)
    BY DEF NewerThan
  <2> QED BY <1>1, <2>1, FS_Subset
<1>5. \A p : Cardinality(NewerThan(p, old)) \in Nat /\ Cardinality(NewerThan(p, log)) \in Nat
  <2>1. IsFiniteSet(ToSet(old))
    BY FiniteRows
  <2> SUFFICES ASSUME NEW p PROVE Cardinality(NewerThan(p, old)) \in Nat /\ Cardinality(NewerThan(p, log)) \in Nat
    OBVIOUS
  <2>2. NewerThan(p, old) \in SUBSET ToSet(old) /\ NewerThan(p, log) \in SUBSET ToSet(log)
    BY DEF NewerThan
  <2> QED BY <1>1, <2>1, <2>2, FS_Subset, FS_CardinalityType
<1>6. ASSUME r \in ToSet(s) PROVE NewerThan(r, s) = NewerThan(r, log)
  <2>1. ASSUME NEW p \in NewerThan(r, s) PROVE p \in NewerThan(r, log)
    BY <2>1 DEF NewerThan, IsNewest
  <2>2. ASSUME NEW p \in NewerThan(r, log) PROVE p \in NewerThan(r, s)
    <3>1. p \in ToSet(log) /\ p.by = r.by /\ p.n > r.n /\ p.by # OldMm
      BY DEF NewerThan
    <3>2. CASE p \in ToSet(b)
      BY <3>1, <3>2 DEF NewerThan
    <3>3. CASE p \in ToSet(old)
      <4>1. p \in AllRows /\ r \in AllRows
        BY <1>6, <3>3, RowOfSeq
      <4>2. p.n \in Nat /\ r.n \in Nat
        BY <4>1 DEF AllRows
      <4>3. r \notin ToSet(b)
        BY <3>1, <3>3, <4>2
      <4>4. IsNewest(r, old)
        BY <1>6, <4>3
      <4>5. NewerThan(p, old) \subseteq NewerThan(r, old)
        <5>1. ASSUME NEW q \in NewerThan(p, old) PROVE q \in NewerThan(r, old)
          <6>1. q \in ToSet(old) /\ q.by = r.by /\ q.n > p.n
            BY <3>1 DEF NewerThan
          <6>2. q.n \in Nat
            <7>1. q \in AllRows
              BY <6>1, RowOfSeq
            <7> QED BY <7>1 DEF AllRows
          <6> QED BY <3>1, <4>2, <6>1, <6>2 DEF NewerThan
        <5> QED BY <5>1
      <4>6. Cardinality(NewerThan(p, old)) <= Cardinality(NewerThan(r, old))
        <5>1. NewerThan(r, old) \in SUBSET ToSet(old) /\ IsFiniteSet(ToSet(old))
          BY FiniteRows DEF NewerThan
        <5> QED BY <4>5, <5>1, FS_Subset
      <4>7. IsNewest(p, old)
        BY <1>5, <3>3, <4>4, <4>6, HDAssumption DEF IsNewest
      <4>8. p \in ToSet(s)
        BY <3>1, <4>7
      <4> QED BY <3>1, <4>8 DEF NewerThan
    <3> QED BY <3>1, <3>2, <3>3
  <2> QED BY <2>1, <2>2
<1>7. ASSUME r \in ToSet(Prune(s)) PROVE IsNewest(r, log)
  <2>1. PICK i \in KeptAt(s) : r = s[i]
    BY <1>7, PrunedRows
  <2>2. i \in DOMAIN s /\ Cardinality(NewerRows(s, i)) < HDLimit
    BY DEF KeptAt
  <2>3. r \in ToSet(s)
    BY <2>1, <2>2 DEF ToSet
  <2>4. Cardinality(NewerThan(r, log)) < HDLimit
    BY <1>6, <2>1, <2>2, <2>3, CountNewer
  <2>5. r \in ToSet(log)
    BY <2>3 DEF IsNewest
  <2> QED BY <2>4, <2>5 DEF IsNewest
<1>8. ASSUME IsNewest(r, log) PROVE r \in ToSet(Prune(s))
  <2>1. r \in ToSet(s)
    <3>1. CASE r \in ToSet(b)
      BY <3>1
    <3>2. CASE r \in ToSet(old)
      <4>1. IsNewest(r, old)
        BY <1>3, <1>4, <1>5, <1>8, <3>2, HDAssumption DEF IsNewest
      <4> QED BY <4>1
    <3> QED BY <1>8, <3>1, <3>2 DEF IsNewest
  <2>2. PICK i \in DOMAIN s : r = s[i]
    BY <2>1 DEF ToSet
  <2>3. Cardinality(NewerRows(s, i)) < HDLimit
    BY <1>6, <1>8, <2>1, <2>2, CountNewer DEF IsNewest
  <2>4. i \in KeptAt(s)
    BY <2>3 DEF KeptAt
  <2> QED BY <2>2, <2>4, PrunedRows
<1> QED BY <1>7, <1>8

(* One command goes to me; what it has read of the files is as it should be. *)
LEMMA DoesOne ==
  ASSUME CommandsInv, NEW w \in HDWriters, NEW me, Does(w, me)
  PROVE  hdWriter'[w] = me /\ \A v \in HDWriters \ {w} : hdWriter'[v] = hdWriter[v]
BY DEF CommandsInv, Does

LEMMA RowsKept ==
  ASSUME RowsInv, UNCHANGED hdLog, hdDb'.rows = hdDb.rows, Due(hdDb') => Due(hdDb)
  PROVE  RowsInv'
BY DEF RowsInv, Due

LEMMA CoverKept ==
  ASSUME CoverInv, UNCHANGED <<hdFiles, hdOld, hdReader>>, hdDb'.rows = hdDb.rows, hdDb'.stat = hdDb.stat,
         Due(hdDb') <=> Due(hdDb)
  PROVE  CoverInv'
BY DEF CoverInv, NoFileHidden

LEMMA CommandImports ==
  ASSUME HEInv, NEW w \in HDWriters, NEW me, hdWriter'[w] = me,
         \A v \in HDWriters \ {w} : hdWriter'[v] = hdWriter[v],
         UNCHANGED <<hdFiles, hdOld, hdReader, hdLog>>, hdDb'.rows = hdDb.rows, hdDb'.stat = hdDb.stat,
         Due(hdDb') <=> Due(hdDb), Imported(me)
  PROVE  HEInv'
<1>1. RowsInv'
  BY RowsKept DEF HEInv
<1>2. FilesInv'
  BY DEF HEInv, FilesInv
<1>3. CoverInv'
  BY CoverKept DEF HEInv
<1>4. ImportInv'
  <2>1. \A v \in HDWriters : Imported(hdWriter[v])
    BY DEF HEInv, ImportInv
  <2>2. ASSUME NEW v \in HDWriters PROVE Imported(hdWriter'[v])
    BY <2>1
  <2>3. ASSUME NEW v \in HDWriters PROVE Imported(hdWriter[v])'
    <3>1. PICK it : it = hdWriter'[v]
      OBVIOUS
    <3>2. Imported(it)
      BY <2>2, <3>1
    <3>3. Imported(hdWriter[v])' <=> (/\ Importing(it.pc, it.import, hdFiles', hdOld')
                                      /\ it.pc \in {"stat", "read-one", "read-live"} => Due(hdDb')
                                      /\ (it.pc = "commit" /\ Due(hdDb') /\ ~it.import.refused)
                                           => ReadAll(it.import, hdFiles', hdOld'))
      BY <3>1 DEF Imported
    <3> QED BY <3>2, <3>3 DEF Imported
  <2> QED BY <2>3 DEF ImportInv
<1> QED BY <1>1, <1>2, <1>3, <1>4 DEF HEInv

(* A command that reads no file holds none.                                  *)
LEMMA ReadsNothing ==
  ASSUME HEInv, NEW w \in HDWriters, hdWriter[w].pc \notin {"read-one", "read-live", "commit"}
  PROVE  hdWriter[w].import = NoBatch
BY DEF HEInv, ImportInv, Imported, Importing

LEMMA HoldsNothing ==
  ASSUME NEW me, me.import = NoBatch, me.pc \notin {"read-one", "read-live"},
         me.pc = "stat" => Due(hdDb), me.pc = "commit" => ~Due(hdDb)
  PROVE  Imported(me)
BY DEF Imported, Importing, NoBatch

(* A step after which the command reads no file and holds none.              *)
LEMMA QuietCommand ==
  ASSUME HEInv, HDInv, NEW w \in HDWriters, NEW me, Does(w, me), me.import = NoBatch,
         me.pc \notin Within, UNCHANGED <<hdFiles, hdOld, hdReader, hdLog>>,
         hdDb'.rows = hdDb.rows, hdDb'.stat = hdDb.stat, Due(hdDb') <=> Due(hdDb)
  PROVE  HEInv'
<1>1. hdWriter'[w] = me /\ \A v \in HDWriters \ {w} : hdWriter'[v] = hdWriter[v]
  BY DoesOne DEF HDInv
<1>2. Imported(me)
  BY HoldsNothing DEF Within
<1> QED BY <1>1, <1>2, CommandImports

LEMMA DropsNothing ==
  ASSUME HEInv, HDInv, NEW w \in HDWriters, Drops(w), UNCHANGED <<hdFiles, hdOld, hdReader, hdLog>>,
         hdDb'.rows = hdDb.rows, hdDb'.stat = hdDb.stat, Due(hdDb') <=> Due(hdDb)
  PROVE  HEInv'
<1>1. PICK me : /\ me = [hdWriter[w] EXCEPT !.pc = AfterFlush(w), !.buffer = <<>>, !.failed = TRUE, !.import = NoBatch]
                /\ Does(w, me)
  BY DEF Drops
<1>2. hdWriter[w] \in Commands(hdWriter[w].import)
  BY DEF HDInv, CommandsInv
<1>3. me.pc = AfterFlush(w) /\ me.import = NoBatch
  BY <1>1, <1>2 DEF Commands
<1>4. me.pc \notin Within
  BY <1>3 DEF AfterFlush, Within
<1> QED BY <1>1, <1>3, <1>4, QuietCommand

LEMMA GoesQuiet ==
  ASSUME HEInv, HDInv, NEW w \in HDWriters, NEW pc, Goes(w, pc), pc \notin {"read-one", "read-live"},
         hdWriter[w].pc \notin {"read-one", "read-live", "commit"},
         pc = "stat" => Due(hdDb), pc = "commit" => ~Due(hdDb),
         UNCHANGED <<hdFiles, hdOld, hdReader, hdLog>>,
         hdDb'.rows = hdDb.rows, hdDb'.stat = hdDb.stat, Due(hdDb') <=> Due(hdDb)
  PROVE  HEInv'
<1>1. PICK me : me = [hdWriter[w] EXCEPT !.pc = pc] /\ Does(w, me)
  BY DEF Goes
<1>2. hdWriter[w] \in Commands(hdWriter[w].import)
  BY DEF HDInv, CommandsInv
<1>3. me.pc = pc /\ me.import = hdWriter[w].import
  BY <1>1, <1>2 DEF Commands
<1>4. me.import = NoBatch
  BY <1>3, ReadsNothing
<1>5. Imported(me)
  BY <1>3, <1>4, HoldsNothing
<1>6. hdWriter'[w] = me /\ \A v \in HDWriters \ {w} : hdWriter'[v] = hdWriter[v]
  BY <1>1, DoesOne DEF HDInv
<1> QED BY <1>5, <1>6, CommandImports

LEMMA StartExact == ASSUME HEInv, HDInv, NEW w \in HDWriters, StartCommand(w) PROVE HEInv'
<1>1. PICK lost \in BOOLEAN : lost = (hdHot /\ TooNew)
  OBVIOUS
<1>2. PICK no \in BOOLEAN : no = FALSE
  OBVIOUS
<1>3. PICK me : /\ me = [hdWriter[w] EXCEPT !.pc = "work", !.first = hdWriter[w].done, !.failed = lost, !.ending = no]
                /\ Does(w, me)
  BY <1>1, <1>2 DEF StartCommand
<1>4. hdWriter[w] \in Commands(hdWriter[w].import)
  BY DEF HDInv, CommandsInv
<1>5. me.pc = "work" /\ me.import = hdWriter[w].import
  BY <1>3, <1>4 DEF Commands
<1>6. hdWriter[w].pc = "idle" /\ UNCHANGED <<hdDb, hdFiles, hdOld, hdReader, hdLog>>
  BY DEF StartCommand, At
<1>7. me.import = NoBatch
  BY <1>5, <1>6, ReadsNothing
<1>8. me.pc \notin Within
  BY <1>5 DEF Within
<1>9. hdDb'.rows = hdDb.rows /\ hdDb'.stat = hdDb.stat /\ (Due(hdDb') <=> Due(hdDb))
  BY <1>6
<1> QED BY <1>3, <1>6, <1>7, <1>8, <1>9, QuietCommand

LEMMA RecordExact == ASSUME HEInv, HDInv, NEW w \in HDWriters, Record(w) PROVE HEInv'
<1>1. PICK done, buffer : Does(w, [hdWriter[w] EXCEPT !.done = done, !.buffer = buffer,
                                      !.pc = IF Len(buffer) >= HDBatch THEN "open" ELSE "work"])
  BY DEF Record
<1>2. PICK pc \in {"open", "work"} : pc = IF Len(buffer) >= HDBatch THEN "open" ELSE "work"
  OBVIOUS
<1>3. PICK me : me = [hdWriter[w] EXCEPT !.done = done, !.buffer = buffer, !.pc = pc] /\ Does(w, me)
  BY <1>1, <1>2
<1>4. hdWriter[w] \in Commands(hdWriter[w].import)
  BY DEF HDInv, CommandsInv
<1>5. me.pc = pc /\ me.import = hdWriter[w].import
  BY <1>3, <1>4 DEF Commands
<1>6. hdWriter[w].pc = "work" /\ UNCHANGED <<hdDb, hdFiles, hdOld, hdReader, hdLog>>
  BY DEF Record, At
<1>7. me.import = NoBatch
  BY <1>5, <1>6, ReadsNothing
<1>8. me.pc \notin Within
  BY <1>5 DEF Within
<1>9. hdDb'.rows = hdDb.rows /\ hdDb'.stat = hdDb.stat /\ (Due(hdDb') <=> Due(hdDb))
  BY <1>6
<1> QED BY <1>3, <1>6, <1>7, <1>8, <1>9, QuietCommand

LEMMA EndExact == ASSUME HEInv, HDInv, NEW w \in HDWriters, EndCommand(w) PROVE HEInv'
<1>1. PICK pc \in {"idle", "open"} : pc = IF hdWriter[w].buffer = <<>> THEN "idle" ELSE "open"
  OBVIOUS
<1>2. PICK yes \in BOOLEAN : yes = TRUE
  OBVIOUS
<1>3. PICK me : me = [hdWriter[w] EXCEPT !.pc = pc, !.ending = yes] /\ Does(w, me)
  BY <1>1, <1>2 DEF EndCommand
<1>4. hdWriter[w] \in Commands(hdWriter[w].import)
  BY DEF HDInv, CommandsInv
<1>5. me.pc = pc /\ me.import = hdWriter[w].import
  BY <1>3, <1>4 DEF Commands
<1>6. hdWriter[w].pc = "work" /\ UNCHANGED <<hdDb, hdFiles, hdOld, hdReader, hdLog>>
  BY DEF EndCommand, At
<1>7. me.import = NoBatch
  BY <1>5, <1>6, ReadsNothing
<1>8. me.pc \notin Within
  BY <1>5 DEF Within
<1>9. hdDb'.rows = hdDb.rows /\ hdDb'.stat = hdDb.stat /\ (Due(hdDb') <=> Due(hdDb))
  BY <1>6
<1> QED BY <1>3, <1>6, <1>7, <1>8, <1>9, QuietCommand

LEMMA KilledExact == ASSUME HEInv, HDInv, NEW w \in HDWriters, Killed(w) PROVE HEInv'
<1>1. PICK me : /\ me = [hdWriter[w] EXCEPT !.pc = "idle", !.first = hdWriter[w].done, !.buffer = <<>>, !.import = NoBatch]
                /\ Does(w, me)
  BY DEF Killed
<1>2. hdWriter[w] \in Commands(hdWriter[w].import)
  BY DEF HDInv, CommandsInv
<1>3. me.pc = "idle" /\ me.import = NoBatch
  BY <1>1, <1>2 DEF Commands
<1>4. UNCHANGED <<hdDb, hdFiles, hdOld, hdReader, hdLog>>
  BY DEF Killed
<1>5. me.pc \notin Within
  BY <1>3 DEF Within
<1>6. hdDb'.rows = hdDb.rows /\ hdDb'.stat = hdDb.stat /\ (Due(hdDb') <=> Due(hdDb))
  BY <1>4
<1> QED BY <1>1, <1>3, <1>4, <1>5, <1>6, QuietCommand

(* The rows and what is known of their import.                               *)
SameRows(now, was) ==
  /\ now.rows = was.rows /\ now.stat = was.stat
  /\ now.imported = was.imported /\ now.pending = was.pending

LEMMA OpenedTable ==
  ASSUME NEW rows, NEW stat, NEW db \in Tables(rows, stat)
  PROVE  /\ SameRows([db EXCEPT !.there = TRUE], db)
         /\ \A v \in 0 .. 2 : SameRows([db EXCEPT !.version = v, !.compat = v], db)
BY DEF Tables, SameRows

LEMMA SameIsDue ==
  ASSUME NEW db, SameRows(db, hdDb), hdDb' = db
  PROVE  hdDb'.rows = hdDb.rows /\ hdDb'.stat = hdDb.stat /\ (Due(hdDb') <=> Due(hdDb))
BY DEF SameRows, Due

LEMMA OpenExact == ASSUME HEInv, HDInv, NEW w \in HDWriters, Open(w) PROVE HEInv'
<1>1. PICK was, rows, stat : was = hdDb /\ rows = was.rows /\ stat = was.stat
  OBVIOUS
<1>2. was \in Tables(rows, stat)
  BY <1>1 DEF HDInv, TableInv
<1>3. PICK db : db = [was EXCEPT !.there = TRUE] /\ hdDb' = db
  BY <1>1 DEF Open
<1>4. SameRows(db, was)
  BY <1>2, <1>3, OpenedTable
<1>5. hdDb'.rows = hdDb.rows /\ hdDb'.stat = hdDb.stat /\ (Due(hdDb') <=> Due(hdDb))
  BY <1>1, <1>3, <1>4, SameIsDue
<1>6. hdWriter[w].pc = "open" /\ UNCHANGED <<hdFiles, hdOld, hdReader, hdLog>>
  BY DEF Open, At
<1>7. Drops(w) \/ Goes(w, "migrate")
  BY DEF Open
<1>8. CASE Drops(w)
  BY <1>5, <1>6, <1>8, DropsNothing
<1>9. CASE Goes(w, "migrate")
  <2>1. PICK pc : pc = "migrate" /\ Goes(w, pc)
    BY <1>9
  <2> QED BY <1>5, <1>6, <2>1, GoesQuiet
<1> QED BY <1>7, <1>8, <1>9

LEMMA MigrateExact == ASSUME HEInv, HDInv, NEW w \in HDWriters, Migrate(w) PROVE HEInv'
<1>1. PICK was, rows, stat : was = hdDb /\ rows = was.rows /\ stat = was.stat
  OBVIOUS
<1>2. was \in Tables(rows, stat)
  BY <1>1 DEF HDInv, TableInv
<1>3. PICK one \in 0 .. 2 : one = 1
  OBVIOUS
<1>4. PICK db : hdDb' = db /\ (db = was \/ db = [was EXCEPT !.version = one, !.compat = one])
  <2>1. hdDb' = was \/ hdDb' = [was EXCEPT !.version = 1, !.compat = 1]
    BY <1>1 DEF Migrate
  <2> QED BY <1>3, <2>1
<1>5. SameRows(db, was)
  <2>1. SameRows(was, was) /\ SameRows([was EXCEPT !.version = one, !.compat = one], was)
    BY <1>2, OpenedTable DEF SameRows
  <2> QED BY <1>4, <2>1
<1>6. hdDb'.rows = hdDb.rows /\ hdDb'.stat = hdDb.stat /\ (Due(hdDb') <=> Due(hdDb))
  BY <1>1, <1>4, <1>5, SameIsDue
<1>7. hdWriter[w].pc = "migrate" /\ UNCHANGED <<hdFiles, hdOld, hdReader, hdLog>>
  BY DEF Migrate, At
<1>8. Drops(w) \/ Goes(w, "begin")
  BY DEF Migrate
<1>9. CASE Drops(w)
  BY <1>6, <1>7, <1>9, DropsNothing
<1>10. CASE Goes(w, "begin")
  <2>1. PICK pc : pc = "begin" /\ Goes(w, pc)
    BY <1>10
  <2> QED BY <1>6, <1>7, <2>1, GoesQuiet
<1> QED BY <1>8, <1>9, <1>10

LEMMA BeginExact == ASSUME HEInv, HDInv, NEW w \in HDWriters, BeginFlush(w) PROVE HEInv'
<1>1. hdWriter[w].pc = "begin" /\ UNCHANGED <<hdDb, hdFiles, hdOld, hdReader, hdLog>>
  BY DEF BeginFlush, At
<1>2. hdDb'.rows = hdDb.rows /\ hdDb'.stat = hdDb.stat /\ (Due(hdDb') <=> Due(hdDb))
  BY <1>1
<1>3. PICK pc : pc = IF hdDb.imported /\ ~hdDb.pending THEN "commit" ELSE "stat"
  OBVIOUS
<1>4. Drops(w) \/ Goes(w, pc)
  BY <1>3 DEF BeginFlush
<1>5. CASE Drops(w)
  BY <1>1, <1>2, <1>5, DropsNothing
<1>6. CASE Goes(w, pc)
  <2>1. pc \in {"commit", "stat"} /\ (pc = "stat" => Due(hdDb)) /\ (pc = "commit" => ~Due(hdDb))
    BY <1>3 DEF Due
  <2> QED BY <1>1, <1>2, <1>6, <2>1, GoesQuiet
<1> QED BY <1>4, <1>5, <1>6

LEMMA FailsExact == ASSUME HEInv, HDInv, NEW w \in HDWriters, FlushFails(w) PROVE HEInv'
<1>1. Drops(w) /\ UNCHANGED <<hdDb, hdFiles, hdOld, hdReader, hdLog>>
  BY DEF FlushFails, Breaks
<1>2. hdDb'.rows = hdDb.rows /\ hdDb'.stat = hdDb.stat /\ (Due(hdDb') <=> Due(hdDb))
  BY <1>1
<1> QED BY <1>1, <1>2, DropsNothing

(* What a command reads of the legacy files.                                 *)
LEMMA ReadsFiles ==
  ASSUME HEInv, HDInv, NEW w \in HDWriters, NEW pc, NEW import, Imports(w, pc, import), Reads,
         Importing(pc, import, hdFiles, hdOld), pc \in {"stat", "read-one", "read-live"} => Due(hdDb),
         (pc = "commit" /\ Due(hdDb) /\ ~import.refused) => ReadAll(import, hdFiles, hdOld)
  PROVE  HEInv'
<1>1. PICK me : me = [hdWriter[w] EXCEPT !.pc = pc, !.import = import] /\ Does(w, me)
  BY DEF Imports
<1>2. hdWriter[w] \in Commands(hdWriter[w].import)
  BY DEF HDInv, CommandsInv
<1>3. me.pc = pc /\ me.import = import
  BY <1>1, <1>2 DEF Commands
<1>4. Imported(me)
  BY <1>3 DEF Imported
<1>5. hdWriter'[w] = me /\ \A v \in HDWriters \ {w} : hdWriter'[v] = hdWriter[v]
  BY <1>1, DoesOne DEF HDInv
<1>6. UNCHANGED <<hdDb, hdFiles, hdOld, hdReader, hdLog>>
  BY DEF Reads
<1>7. hdDb'.rows = hdDb.rows /\ hdDb'.stat = hdDb.stat /\ (Due(hdDb') <=> Due(hdDb))
  BY <1>6
<1> QED BY <1>4, <1>5, <1>6, <1>7, CommandImports

LEMMA AheadOfBelow ==
  ASSUME NEW rows, NEW f, Precede(rows, f.rows), NEW r \in ToSet(f.rows), NEW then, then.rows = rows
  PROVE  Ahead(f, then)
BY DEF Ahead, Precede

LEMMA SinceNow == ASSUME FilesInv PROVE Since(hdFiles, hdFiles, hdOld)
<1>1. AFile(hdFiles.one, hdOld) /\ AFile(hdFiles.live, hdOld) /\ Precede(hdFiles.one.rows, hdFiles.live.rows)
  BY DEF FilesInv
<1>2. ASSUME hdFiles.live # NoFile PROVE Ahead(hdFiles.live, hdFiles.one)
  <2>1. hdFiles.live.rows # <<>>
    BY <1>1, <1>2 DEF AFile, NoFile, File
  <2>2. PICK s \in Seq(OldRows) : s = hdFiles.live.rows
    BY <1>1 DEF AFile
  <2>3. s[1] \in ToSet(s)
    BY <2>1, <2>2 DEF ToSet
  <2>4. s[1] \in ToSet(hdFiles.live.rows)
    BY <2>2, <2>3
  <2> QED BY <1>1, <2>4, AheadOfBelow
<1> QED BY <1>1, <1>2 DEF Since

LEMMA StatExact == ASSUME HEInv, HDInv, NEW w \in HDWriters, StatLegacy(w) PROVE HEInv'
<1>1. PICK was : was = hdWriter[w].import
  OBVIOUS
<1>2. hdWriter[w].pc = "stat" /\ Imports(w, "read-one", [was EXCEPT !.stat = hdFiles]) /\ Reads
  BY <1>1 DEF StatLegacy, At
<1>3. was = NoBatch /\ Due(hdDb)
  BY <1>1, <1>2, ReadsNothing DEF HEInv, ImportInv, Imported
<1>4. PICK import : import = [was EXCEPT !.stat = hdFiles]
  OBVIOUS
<1>5. import = [stat |-> hdFiles, legacy |-> <<>>, refused |-> FALSE]
  BY <1>3, <1>4 DEF NoBatch
<1>6. Since(hdFiles, hdFiles, hdOld)
  BY SinceNow DEF HEInv
<1>7. Importing("read-one", import, hdFiles, hdOld)
  BY <1>5, <1>6 DEF Importing
<1>8. PICK pc : pc = "read-one"
  OBVIOUS
<1> QED BY <1>2, <1>3, <1>4, <1>7, <1>8, ReadsFiles

LEMMA CannotExact == ASSUME HEInv, HDInv, NEW w \in HDWriters, CannotRead(w) PROVE HEInv'
<1>1. PICK was : was = hdWriter[w].import
  OBVIOUS
<1>2. /\ Imports(w, "commit", [was EXCEPT !.refused = TRUE, !.legacy = <<>>]) /\ Reads
  BY <1>1 DEF CannotRead
<1>3. was = [stat |-> was.stat, legacy |-> was.legacy, refused |-> was.refused]
  BY <1>1 DEF HEInv, ImportInv, Imported, Importing
<1>4. PICK yes \in BOOLEAN : yes = TRUE
  OBVIOUS
<1>5. PICK import : import = [was EXCEPT !.refused = yes, !.legacy = <<>>]
  OBVIOUS
<1>6. import = [stat |-> was.stat, legacy |-> <<>>, refused |-> yes]
  BY <1>3, <1>5
<1>7. import = [stat |-> import.stat, legacy |-> import.legacy, refused |-> import.refused] /\ import.refused = yes
  BY <1>6
<1>8. Importing("commit", import, hdFiles, hdOld) /\ import.refused
  BY <1>4, <1>7 DEF Importing
<1>9. PICK pc : pc = "commit" /\ Imports(w, pc, import)
  BY <1>2, <1>4, <1>5
<1> QED BY <1>2, <1>8, <1>9, ReadsFiles

(* The rotated file, as it is now.                                           *)
LEMMA RotatedExact == ASSUME HEInv, HDInv, NEW w \in HDWriters, ReadRotated(w) PROVE HEInv'
<1>1. PICK was : was = hdWriter[w].import
  OBVIOUS
<1>2. hdWriter[w].pc = "read-one" /\ Imports(w, "read-live", [was EXCEPT !.legacy = hdFiles.one.rows]) /\ Reads
  BY <1>1 DEF ReadRotated, At
<1>3. Importing("read-one", was, hdFiles, hdOld) /\ Due(hdDb)
  BY <1>1, <1>2 DEF HEInv, ImportInv, Imported
<1>4. PICK import : import = [was EXCEPT !.legacy = hdFiles.one.rows]
  OBVIOUS
<1>5. was = [stat |-> was.stat, legacy |-> was.legacy, refused |-> was.refused] /\ was.refused = FALSE
      /\ Since(was.stat, hdFiles, hdOld)
  BY <1>3 DEF Importing
<1>6. import = [stat |-> was.stat, legacy |-> hdFiles.one.rows, refused |-> FALSE]
  BY <1>4, <1>5
<1>7. Legacy(hdFiles.one.rows, hdOld) /\ Precede(hdFiles.one.rows, hdFiles.live.rows)
  BY DEF HEInv, FilesInv, AFile, Legacy
<1>8. HasRead(was.stat.one, hdFiles.one, hdFiles.one.rows)
  BY DEF HasRead
<1>9. Importing("read-live", import, hdFiles, hdOld)
  BY <1>5, <1>6, <1>7, <1>8 DEF Importing
<1>10. PICK pc : pc = "read-live" /\ Imports(w, pc, import)
  BY <1>2, <1>4
<1> QED BY <1>2, <1>3, <1>9, <1>10, ReadsFiles

LEMMA LiveExact == ASSUME HEInv, HDInv, NEW w \in HDWriters, ReadLive(w) PROVE HEInv'
<1>1. PICK was : was = hdWriter[w].import
  OBVIOUS
<1>2. hdWriter[w].pc = "read-live" /\ Imports(w, "commit", [was EXCEPT !.legacy = @ \o hdFiles.live.rows]) /\ Reads
  BY <1>1 DEF ReadLive, At
<1>3. Importing("read-live", was, hdFiles, hdOld) /\ Due(hdDb)
  BY <1>1, <1>2 DEF HEInv, ImportInv, Imported
<1>4. was = [stat |-> was.stat, legacy |-> was.legacy, refused |-> was.refused] /\ was.refused = FALSE
      /\ Since(was.stat, hdFiles, hdOld) /\ Legacy(was.legacy, hdOld) /\ Precede(was.legacy, hdFiles.live.rows)
      /\ HasRead(was.stat.one, hdFiles.one, was.legacy)
  BY <1>3 DEF Importing
<1>5. PICK one \in Seq(OldRows), live \in Seq(OldRows) : one = was.legacy /\ live = hdFiles.live.rows
  BY <1>4 DEF Legacy, HEInv, FilesInv, AFile
<1>6. PICK legacy : legacy = one \o live
  OBVIOUS
<1>7. PICK import : import = [was EXCEPT !.legacy = legacy]
  OBVIOUS
<1>8. import = [stat |-> was.stat, legacy |-> legacy, refused |-> FALSE]
  BY <1>4, <1>7
<1>9. \A q : q \in ToSet(legacy) <=> q \in ToSet(one) \/ q \in ToSet(live)
  BY <1>6, JoinedRows
<1>10. Legacy(legacy, hdOld)
  <2>1. legacy \in Seq(OldRows)
    BY <1>6, RowsJoin
  <2>2. RowsInOrder(one) /\ RowsInOrder(live)
    BY <1>4, <1>5 DEF Legacy, HEInv, FilesInv, AFile
  <2>3. OldRows \subseteq AllRows
    BY DEF OldRows, AllRows
  <2>4. \A q \in ToSet(one), r \in ToSet(live) : q.by = r.by => q.n < r.n
    BY <1>4, <1>5 DEF Precede
  <2>5. RowsInOrder(legacy)
    BY <1>6, <2>2, <2>3, <2>4, JoinedOrder
  <2>6. \A q \in ToSet(legacy) : q.n <= hdOld
    BY <1>4, <1>5, <1>9 DEF Legacy, HEInv, FilesInv, AFile
  <2> QED BY <2>1, <2>5, <2>6 DEF Legacy
<1>11. ReadAll(import, hdFiles, hdOld)
  <2>1. HasRead(was.stat.one, hdFiles.one, legacy)
    BY <1>4, <1>5, <1>9 DEF HasRead
  <2>2. HasRead(was.stat.live, hdFiles.live, legacy)
    BY <1>5, <1>9 DEF HasRead
  <2> QED BY <1>4, <1>8, <1>10, <2>1, <2>2 DEF ReadAll
<1>12. Importing("commit", import, hdFiles, hdOld)
  BY <1>8 DEF Importing
<1>13. PICK pc : pc = "commit" /\ Imports(w, pc, import)
  <2>1. import = [was EXCEPT !.legacy = @ \o hdFiles.live.rows]
    BY <1>4, <1>5, <1>6, <1>7
  <2> QED BY <1>2, <2>1
<1> QED BY <1>2, <1>11, <1>12, <1>13, ReadsFiles

(* What an older mm or the user does to the files.                           *)
Moves(now, files, old) ==
  /\ \/ now.one = NoFile
     \/ now.one = files.one
     \/ now.one = files.live /\ now.live = NoFile
  /\ now.live \in {NoFile, files.live} \/ \E r \in ToSet(now.live.rows) : r.n = old + 1
  /\ \A r \in ToSet(now.live.rows) : r \in ToSet(files.live.rows) \/ r.n = old + 1

LEMMA EmptyFile == NoFile.rows = <<>> /\ ToSet(NoFile.rows) = {} /\ ~NoFile.there
BY DEF NoFile, File, ToSet

LEMMA NumbersInFile ==
  ASSUME NEW f, NEW old \in Nat, AFile(f, old)
  PROVE  \A q \in ToSet(f.rows) : q.n \in Nat /\ q.n <= old
<1>1. PICK rows \in Seq(OldRows) : rows = f.rows
  BY DEF AFile
<1>2. \A q \in ToSet(rows) : q \in OldRows
  BY RowOfSeq
<1> QED BY <1>1, <1>2 DEF AFile, OldRows

LEMMA LaterFile == ASSUME NEW f, NEW old \in Nat, AFile(f, old) PROVE AFile(f, old + 1)
<1>1. \A q \in ToSet(f.rows) : q.n <= old + 1
  BY NumbersInFile
<1> QED BY <1>1 DEF AFile

LEMMA AheadIsNew ==
  ASSUME NEW f, NEW old \in Nat, NEW then, AFile(f, old), Ahead(f, then)
  PROVE  f # then
<1> SUFFICES ASSUME f = then PROVE FALSE
  OBVIOUS
<1>1. PICK r \in ToSet(f.rows) : \A q \in ToSet(f.rows) : q.n < r.n
  BY DEF Ahead
<1>2. r.n \in Nat /\ r.n < r.n
  BY <1>1, NumbersInFile
<1> QED BY <1>2

(* A file that is as it was measured was so all the time.                    *)
LEMMA SinceMoves ==
  ASSUME NEW now, NEW files, NEW then, NEW old \in Nat, Moves(now, files, old),
         AFile(files.one, old), AFile(files.live, old), Since(then, files, old)
  PROVE  /\ Since(then, now, old + 1)
         /\ now.one # NoFile /\ now.one = then.one => now.one = files.one
         /\ now.live # NoFile /\ now.live = then.live => now.live = files.live
<1>1. AFile(then.one, old) /\ AFile(then.live, old)
  BY DEF Since
<1>2. AFile(then.one, old + 1) /\ AFile(then.live, old + 1)
  BY <1>1, LaterFile
<1>3. ASSUME now.one # NoFile PROVE now.one = then.one \/ Ahead(now.one, then.one)
  BY <1>3 DEF Moves, Since
<1>4. ASSUME now.live # NoFile, now.live # files.live
      PROVE  Ahead(now.live, then.one) /\ Ahead(now.live, then.live) /\ now.live # then.live
  <2>1. PICK r \in ToSet(now.live.rows) : r.n = old + 1
    BY <1>4 DEF Moves
  <2>2. r.n \in Nat /\ r.n > old
    BY <2>1
  <2>3. \A q \in ToSet(then.one.rows) : q.n \in Nat /\ q.n <= old
    BY <1>1, NumbersInFile
  <2>4. \A q \in ToSet(then.live.rows) : q.n \in Nat /\ q.n <= old
    BY <1>1, NumbersInFile
  <2>5. \A q \in ToSet(then.one.rows) : q.n < r.n
    BY <2>2, <2>3
  <2>6. \A q \in ToSet(then.live.rows) : q.n < r.n
    BY <2>2, <2>4
  <2>7. now.live # then.live
    BY <2>2, <2>6
  <2> QED BY <2>5, <2>6, <2>7 DEF Ahead
<1>5. ASSUME now.live # NoFile
      PROVE  Ahead(now.live, then.one) /\ (now.live = then.live \/ Ahead(now.live, then.live))
  <2>1. CASE now.live = files.live
    BY <1>5, <2>1 DEF Since
  <2> QED BY <1>4, <1>5, <2>1
<1>6. Since(then, now, old + 1)
  BY <1>2, <1>3, <1>5 DEF Since
<1>7. ASSUME now.one # NoFile, now.one = then.one PROVE now.one = files.one
  <2>1. CASE now.one = files.live
    <3>1. Ahead(files.live, then.one)
      BY <1>7, <2>1 DEF Since
    <3>2. files.live # then.one
      BY <3>1, AheadIsNew
    <3> QED BY <1>7, <2>1, <3>2
  <2> QED BY <1>7, <2>1 DEF Moves
<1> QED BY <1>4, <1>6, <1>7

LEMMA ImportMoves ==
  ASSUME NEW me, NEW now, NEW files, NEW old \in Nat, NEW due \in BOOLEAN, Moves(now, files, old),
         AFile(files.one, old), AFile(files.live, old), Importing(me.pc, me.import, files, old),
         (me.pc = "commit" /\ due /\ ~me.import.refused) => ReadAll(me.import, files, old)
  PROVE  /\ Importing(me.pc, me.import, now, old + 1)
         /\ (me.pc = "commit" /\ due /\ ~me.import.refused) => ReadAll(me.import, now, old + 1)
<1>1. PICK import, stat, legacy : import = me.import /\ stat = import.stat /\ legacy = import.legacy
  OBVIOUS
<1>2. ASSUME Since(stat, files, old)
      PROVE  /\ Since(stat, now, old + 1)
             /\ HasRead(stat.one, files.one, legacy) => HasRead(stat.one, now.one, legacy)
             /\ HasRead(stat.live, files.live, legacy) => HasRead(stat.live, now.live, legacy)
  <2>1. /\ Since(stat, now, old + 1)
        /\ now.one # NoFile /\ now.one = stat.one => now.one = files.one
        /\ now.live # NoFile /\ now.live = stat.live => now.live = files.live
    BY <1>2, SinceMoves
  <2> QED BY <2>1 DEF HasRead
<1>3. ASSUME Legacy(legacy, old) PROVE Legacy(legacy, old + 1) /\ \A q \in ToSet(legacy) : q.n \in Nat /\ q.n <= old
  <2>1. PICK rows \in Seq(OldRows) : rows = legacy
    BY <1>3 DEF Legacy
  <2>2. \A q \in ToSet(rows) : q \in OldRows
    BY RowOfSeq
  <2>3. \A q \in ToSet(legacy) : q.n \in Nat /\ q.n <= old
    BY <1>3, <2>1, <2>2 DEF Legacy, OldRows
  <2>4. \A q \in ToSet(legacy) : q.n <= old + 1
    BY <2>3
  <2> QED BY <1>3, <2>3, <2>4 DEF Legacy
<1>4. ASSUME Legacy(legacy, old), Precede(legacy, files.live.rows) PROVE Precede(legacy, now.live.rows)
  <2> SUFFICES ASSUME NEW q \in ToSet(legacy), NEW r \in ToSet(now.live.rows) PROVE q.n < r.n
    BY DEF Precede
  <2>1. q.n \in Nat /\ q.n <= old
    BY <1>3, <1>4
  <2>2. CASE r \in ToSet(files.live.rows)
    BY <1>4, <2>2 DEF Precede
  <2>3. CASE r.n = old + 1
    BY <2>1, <2>3
  <2> QED BY <2>2, <2>3 DEF Moves
<1>5. Importing(me.pc, import, now, old + 1)
  BY <1>1, <1>2, <1>3, <1>4 DEF Importing
<1>6. (me.pc = "commit" /\ due /\ ~import.refused) => ReadAll(import, now, old + 1)
  BY <1>1, <1>2, <1>3 DEF ReadAll
<1> QED BY <1>1, <1>5, <1>6

LEMMA CoversMoves ==
  ASSUME NEW now, NEW files, NEW then, NEW rows, NEW old \in Nat, Moves(now, files, old),
         AFile(files.one, old), AFile(files.live, old), Covers(then, files, old, rows)
  PROVE  Covers(then, now, old + 1, rows)
<1>1. /\ Since(then, now, old + 1)
      /\ now.one # NoFile /\ now.one = then.one => now.one = files.one
      /\ now.live # NoFile /\ now.live = then.live => now.live = files.live
  BY SinceMoves DEF Covers
<1> QED BY <1>1 DEF Covers, ShowsFile

LEMMA MovesExact ==
  ASSUME HEInv, NEW files, hdFiles' = files, Moves(files, hdFiles, hdOld), FilesInv', hdOld' = hdOld + 1,
         UNCHANGED <<hdWriter, hdLog, hdReader>>, hdDb'.rows = hdDb.rows, hdDb'.stat = hdDb.stat,
         Due(hdDb') <=> Due(hdDb)
  PROVE  HEInv'
<1>1. PICK due \in BOOLEAN : due <=> Due(hdDb)
  BY DEF Due
<1>2. PICK was : was = hdFiles
  OBVIOUS
<1>3. PICK old \in Nat : old = hdOld
  BY DEF HEInv, FilesInv
<1>4. AFile(was.one, old) /\ AFile(was.live, old) /\ Moves(files, was, old)
  BY <1>1, <1>2, <1>3 DEF HEInv, FilesInv
<1>5. RowsInv'
  BY RowsKept DEF HEInv
<1>6. ASSUME NEW v \in HDWriters PROVE Imported(hdWriter[v])'
  <2>1. PICK me : me = hdWriter[v]
    OBVIOUS
  <2>2. /\ Importing(me.pc, me.import, was, old)
        /\ me.pc \in {"stat", "read-one", "read-live"} => due
        /\ (me.pc = "commit" /\ due /\ ~me.import.refused) => ReadAll(me.import, was, old)
    BY <1>1, <1>2, <1>3, <2>1 DEF HEInv, ImportInv, Imported
  <2>3. /\ Importing(me.pc, me.import, files, old + 1)
        /\ (me.pc = "commit" /\ due /\ ~me.import.refused) => ReadAll(me.import, files, old + 1)
    BY <1>4, <2>2, ImportMoves
  <2>4. hdWriter'[v] = me /\ hdFiles' = files /\ hdOld' = old + 1 /\ (Due(hdDb') <=> due)
    BY <1>1, <1>2, <1>3, <2>1
  <2>5. Imported(hdWriter[v])' <=> (/\ Importing(me.pc, me.import, files, old + 1)
                                    /\ me.pc \in {"stat", "read-one", "read-live"} => Due(hdDb')
                                    /\ (me.pc = "commit" /\ Due(hdDb') /\ ~me.import.refused)
                                         => ReadAll(me.import, files, old + 1))
    BY <2>4 DEF Imported
  <2> QED BY <2>2, <2>3, <2>4, <2>5
<1>7. ImportInv'
  BY <1>6 DEF ImportInv
<1>8. CoverInv'
  <2>1. \A then, rows : Covers(then, was, old, rows) => Covers(then, files, old + 1, rows)
    BY <1>4, CoversMoves
  <2>2. NoFileHidden'
    BY DEF HEInv, CoverInv, NoFileHidden
  <2> QED BY <1>1, <1>2, <1>3, <2>1, <2>2 DEF HEInv, CoverInv
<1> QED BY <1>5, <1>6, <1>7, <1>8 DEF HEInv

(* The older mm's row is greater than every other.                           *)
LEMMA AppendedRow ==
  ASSUME NEW s \in Seq(OldRows), NEW old \in Nat, RowsInOrder(s), \A q \in ToSet(s) : q.n <= old,
         NEW r \in OldRows, r.n = old + 1
  PROVE  /\ Append(s, r) \in Seq(OldRows) /\ RowsInOrder(Append(s, r)) /\ Append(s, r) # <<>>
         /\ r \in ToSet(Append(s, r)) /\ \A q \in ToSet(Append(s, r)) : q \in ToSet(s) \/ q = r
<1> DEFINE t == Append(s, r)
           N == Len(s)
<1>1. /\ N \in Nat /\ DOMAIN s = 1 .. N /\ DOMAIN t = 1 .. N + 1 /\ t[N + 1] = r
      /\ \A i \in 1 .. N : t[i] = s[i]
  OBVIOUS
<1>2. t \in Seq(OldRows) /\ t # <<>>
  OBVIOUS
<1> HIDE DEF t, N
<1>3. ASSUME NEW i \in 1 .. N + 1, NEW j \in 1 .. N + 1, i < j, t[i].by = t[j].by PROVE t[i].n < t[j].n
  <2>1. i \in 1 .. N /\ t[i] = s[i]
    BY <1>1, <1>3
  <2>2. CASE j \in 1 .. N
    BY <1>1, <1>3, <2>1, <2>2 DEF RowsInOrder
  <2>3. CASE j = N + 1
    <3>1. s[i] \in ToSet(s) /\ s[i] \in OldRows
      BY <1>1, <2>1 DEF ToSet
    <3>2. s[i].n \in Nat /\ s[i].n <= old
      BY <3>1 DEF OldRows
    <3> QED BY <1>1, <2>1, <2>3, <3>2
  <2> QED BY <1>1, <2>2, <2>3
<1>4. RowsInOrder(t)
  BY <1>1, <1>3 DEF RowsInOrder
<1>5. r \in ToSet(t)
  BY <1>1 DEF ToSet
<1>6. ASSUME NEW q \in ToSet(t) PROVE q \in ToSet(s) \/ q = r
  <2>1. PICK i \in 1 .. N + 1 : q = t[i]
    BY <1>1 DEF ToSet
  <2>2. i \in 1 .. N \/ i = N + 1
    BY <1>1
  <2> QED BY <1>1, <2>1, <2>2 DEF ToSet
<1> QED BY <1>2, <1>4, <1>5, <1>6 DEF t

LEMMA AppendsExact == ASSUME HEInv, NEW class \in HDWriters, OldMmAppends(class) PROVE HEInv'
<1>1. PICK old \in Nat, was \in {hdFiles} : old = hdOld
  BY DEF HEInv, FilesInv
<1>2. PICK s \in Seq(OldRows) : s = was.live.rows
  BY <1>1 DEF HEInv, FilesInv, AFile
<1>3. PICK r \in OldRows : r = Row(OldMm, old + 1, class)
  <2>1. old + 1 \in Nat /\ OldMm \in {OldMm}
    OBVIOUS
  <2>2. Row(OldMm, old + 1, class) \in OldRows
    BY <2>1 DEF Row, OldRows
  <2> QED BY <2>2
<1>4. r.n = old + 1
  BY <1>3 DEF Row
<1>5. RowsInOrder(s) /\ \A q \in ToSet(s) : q.n <= old
  BY <1>1, <1>2 DEF HEInv, FilesInv, AFile
<1>6. PICK t : t = Append(s, r)
  OBVIOUS
<1>7. /\ t \in Seq(OldRows) /\ RowsInOrder(t) /\ t # <<>>
      /\ r \in ToSet(t) /\ \A q \in ToSet(t) : q \in ToSet(s) \/ q = r
  BY <1>4, <1>5, <1>6, AppendedRow
<1>8. PICK live : live = File(TRUE, t)
  OBVIOUS
<1>9. live.rows = t /\ live.there /\ live = File(live.there, live.rows) /\ live.there \in BOOLEAN
  BY <1>8 DEF File
<1>10. PICK files : files = [one |-> was.one, live |-> live]
  OBVIOUS
<1>11. hdFiles' = files
  <2>1. was = [one |-> was.one, live |-> was.live]
    BY <1>1 DEF HEInv, FilesInv
  <2>2. hdFiles' = [was EXCEPT !.live = live]
    BY <1>1, <1>2, <1>3, <1>6, <1>8 DEF OldMmAppends
  <2> QED BY <1>10, <2>1, <2>2
<1>12. files.one = was.one /\ files.live = live
  BY <1>10
<1>13. Moves(files, was, old)
  BY <1>2, <1>4, <1>7, <1>9, <1>12 DEF Moves
<1>14. hdOld' = old + 1 /\ UNCHANGED <<hdDb, hdWriter, hdLog, hdReader>>
  BY <1>1 DEF OldMmAppends, Meanwhile
<1>15. AFile(was.one, old) /\ AFile(was.live, old) /\ Precede(was.one.rows, s)
  BY <1>1, <1>2 DEF HEInv, FilesInv
<1>16. \A q \in ToSet(s) : q.n \in Nat /\ q.n <= old
  BY <1>2, <1>15, NumbersInFile
<1>17. AFile(live, old + 1)
  <2>1. \A q \in ToSet(t) : q.n <= old + 1
    BY <1>4, <1>7, <1>16
  <2> QED BY <1>7, <1>9, <2>1 DEF AFile
<1>18. Precede(was.one.rows, t)
  <2> SUFFICES ASSUME NEW q \in ToSet(was.one.rows), NEW p \in ToSet(t) PROVE q.n < p.n
    BY DEF Precede
  <2>1. q.n \in Nat /\ q.n <= old
    BY <1>15, NumbersInFile
  <2>2. CASE p \in ToSet(s)
    BY <1>15, <2>2 DEF Precede
  <2>3. CASE p = r
    BY <1>4, <2>1, <2>3
  <2> QED BY <1>7, <2>2, <2>3
<1>19. FilesInv'
  <2>1. AFile(was.one, old + 1)
    BY <1>15, LaterFile
  <2>2. hdFiles' = [one |-> files.one, live |-> files.live]
    BY <1>10, <1>11, <1>12
  <2>3. AFile(files.one, old + 1) /\ AFile(files.live, old + 1)
    BY <1>12, <1>17, <2>1
  <2>4. Precede(files.one.rows, files.live.rows)
    BY <1>9, <1>12, <1>18
  <2> QED BY <1>11, <1>14, <2>2, <2>3, <2>4 DEF FilesInv
<1>20. Moves(files, hdFiles, hdOld) /\ hdOld' = hdOld + 1
  BY <1>1, <1>13, <1>14
<1>21. hdDb'.rows = hdDb.rows /\ hdDb'.stat = hdDb.stat /\ (Due(hdDb') <=> Due(hdDb))
  BY <1>14
<1> QED BY <1>11, <1>14, <1>19, <1>20, <1>21, MovesExact

LEMMA EmptyIsFile == ASSUME NEW old \in Nat PROVE AFile(NoFile, old)
<1>1. <<>> \in Seq(OldRows) /\ RowsInOrder(<<>>) /\ ToSet(<<>>) = {}
  BY NoRows DEF RowsInOrder, ToSet
<1>2. PICK none \in Seq(OldRows), no \in BOOLEAN : none = <<>> /\ no = FALSE
  BY <1>1
<1>3. NoFile = File(no, none)
  BY <1>2 DEF NoFile
<1>4. NoFile.there = no /\ NoFile.rows = none
  BY <1>3 DEF File
<1> QED BY <1>1, <1>2, <1>3, <1>4 DEF AFile

LEMMA EmptyBelow == ASSUME NEW rows PROVE Precede(rows, NoFile.rows)
BY EmptyFile DEF Precede

(* The live file becomes the rotated one, or both are moved aside.           *)
LEMMA RotatesExact == ASSUME HEInv, OldMmRotates \/ MoveFilesAside PROVE HEInv'
<1>1. PICK old \in Nat, was \in {hdFiles} : old = hdOld
  BY DEF HEInv, FilesInv
<1>2. PICK one \in {NoFile, was.live} : hdFiles' = [one |-> one, live |-> NoFile]
  BY <1>1 DEF OldMmRotates, MoveFilesAside
<1>3. PICK files : files = [one |-> one, live |-> NoFile] /\ hdFiles' = files
  BY <1>2
<1>4. files.one = one /\ files.live = NoFile /\ files = [one |-> files.one, live |-> files.live]
  BY <1>3
<1>5. Moves(files, was, old)
  BY <1>4, EmptyFile DEF Moves
<1>6. hdOld' = old + 1 /\ UNCHANGED <<hdDb, hdWriter, hdLog, hdReader>>
  BY <1>1 DEF OldMmRotates, MoveFilesAside, Meanwhile
<1>7. FilesInv'
  <2>1. AFile(was.live, old + 1)
    BY <1>1, LaterFile DEF HEInv, FilesInv
  <2>2. AFile(NoFile, old + 1)
    BY EmptyIsFile
  <2>3. Precede(one.rows, NoFile.rows)
    BY EmptyBelow
  <2> QED BY <1>3, <1>4, <1>6, <2>1, <2>2, <2>3 DEF FilesInv
<1>8. Moves(files, hdFiles, hdOld) /\ hdOld' = hdOld + 1
  BY <1>1, <1>5, <1>6
<1>9. hdDb'.rows = hdDb.rows /\ hdDb'.stat = hdDb.stat /\ (Due(hdDb') <=> Due(hdDb))
  BY <1>6
<1> QED BY <1>3, <1>6, <1>7, <1>8, <1>9, MovesExact

LEMMA NewerExact == ASSUME HEInv, HDInv, NewerMmMigrates PROVE HEInv'
<1>1. PICK was, rows, stat : was = hdDb /\ rows = was.rows /\ stat = was.stat
  OBVIOUS
<1>2. was \in Tables(rows, stat)
  BY <1>1 DEF HDInv, TableInv
<1>3. PICK two \in 0 .. 2 : two = 2
  OBVIOUS
<1>4. PICK db : hdDb' = db /\ db = [was EXCEPT !.version = two, !.compat = two]
  BY <1>1, <1>3 DEF NewerMmMigrates
<1>5. SameRows(db, was)
  BY <1>2, <1>4, OpenedTable
<1>6. hdDb'.rows = hdDb.rows /\ hdDb'.stat = hdDb.stat /\ (Due(hdDb') <=> Due(hdDb))
  BY <1>1, <1>4, <1>5, SameIsDue
<1>7. PICK old \in Nat, files \in {hdFiles} : old = hdOld
  BY DEF HEInv, FilesInv
<1>8. hdOld' = old + 1 /\ UNCHANGED <<hdFiles, hdWriter, hdLog, hdReader>>
  BY <1>7 DEF NewerMmMigrates, Meanwhile
<1>9. Moves(files, files, old)
  BY DEF Moves
<1>10. FilesInv'
  <2>1. AFile(files.one, old + 1) /\ AFile(files.live, old + 1)
    BY <1>7, LaterFile DEF HEInv, FilesInv
  <2> QED BY <1>7, <1>8, <2>1 DEF HEInv, FilesInv
<1>11. hdFiles' = files /\ Moves(files, hdFiles, hdOld) /\ hdOld' = hdOld + 1
  BY <1>7, <1>8, <1>9
<1> QED BY <1>6, <1>8, <1>10, <1>11, MovesExact

(* What mm log does, of which no command knows.                              *)
LEMMA ReaderMoves ==
  ASSUME HEInv, UNCHANGED <<hdDb, hdFiles, hdWriter, hdLog, hdOld>>, NEW it, hdReader' = it,
         (it.pc = "notices" /\ ~it.pending) => Covers(it.stat, hdFiles, hdOld, it.rows),
         it = [pc |-> it.pc, rows |-> it.rows, pending |-> it.pending, stat |-> it.stat,
               hides |-> it.hides, legacy |-> it.legacy, diverged |-> it.diverged],
         NoFileHidden'
  PROVE  HEInv'
<1>1. RowsInv'
  BY RowsKept DEF HEInv
<1>2. FilesInv'
  BY DEF HEInv, FilesInv
<1>3. ImportInv'
  <2>1. ASSUME NEW v \in HDWriters PROVE Imported(hdWriter[v])'
    <3>1. Imported(hdWriter[v])
      BY DEF HEInv, ImportInv
    <3> QED BY <3>1 DEF Imported
  <2> QED BY <2>1 DEF ImportInv
<1>4. CoverInv'
  BY DEF HEInv, CoverInv
<1> QED BY <1>1, <1>2, <1>3, <1>4 DEF HEInv

LEMMA SnapshotExact == ASSUME HEInv, HDInv, ReadSnapshot PROVE HEInv'
<1>1. UNCHANGED <<hdDb, hdFiles, hdWriter, hdLog, hdOld>>
  BY DEF ReadSnapshot
<1>2. CASE ~hdDb.there \/ hdDb.version = 0 \/ ~hdDb.imported
  <2>1. PICK no \in BOOLEAN : no <=> (hdLog # <<>>)
    OBVIOUS
  <2>2. PICK it : it = [NotReading EXCEPT !.pc = "legacy", !.hides = no] /\ hdReader' = it
    BY <1>2, <2>1 DEF ReadSnapshot
  <2>3. /\ it.pc = "legacy"
        /\ it = [pc |-> it.pc, rows |-> it.rows, pending |-> it.pending, stat |-> it.stat,
                 hides |-> it.hides, legacy |-> it.legacy, diverged |-> it.diverged]
    BY <2>2 DEF NotReading
  <2>4. NoFileHidden'
    BY <2>2, <2>3 DEF NoFileHidden
  <2> QED BY <1>1, <2>2, <2>3, <2>4, ReaderMoves
<1>3. CASE hdDb.imported
  <2>1. CASE ~(~hdDb.there \/ hdDb.version = 0 \/ ~hdDb.imported)
    <3>1. PICK rows, pending, stat : rows = hdDb.rows /\ pending = hdDb.pending /\ stat = hdDb.stat
      OBVIOUS
    <3>2. PICK it : it = [NotReading EXCEPT !.pc = "notices", !.rows = rows, !.pending = pending, !.stat = stat]
                    /\ hdReader' = it
      BY <2>1, <3>1 DEF ReadSnapshot
    <3>3. /\ it.pc = "notices" /\ it.rows = rows /\ it.stat = stat /\ it.pending = pending
          /\ it = [pc |-> it.pc, rows |-> it.rows, pending |-> it.pending, stat |-> it.stat,
                   hides |-> it.hides, legacy |-> it.legacy, diverged |-> it.diverged]
      BY <3>2 DEF NotReading
    <3>4. NoFileHidden'
      BY <3>2, <3>3 DEF NoFileHidden
    <3>5. ~it.pending => Covers(it.stat, hdFiles, hdOld, it.rows)
      <4>1. ~pending => Covers(stat, hdFiles, hdOld, rows)
        BY <1>3, <3>1 DEF HEInv, CoverInv, Due
      <4> QED BY <3>3, <4>1
    <3> QED BY <1>1, <3>2, <3>3, <3>4, <3>5, ReaderMoves
  <2> QED BY <1>2, <2>1
<1> QED BY <1>2, <1>3

LEMMA NoticesExact == ASSUME HEInv, ReadNotices PROVE HEInv'
<1>1. UNCHANGED <<hdDb, hdFiles, hdWriter, hdLog, hdOld>> /\ hdReader.pc = "notices"
  BY DEF ReadNotices
<1>2. PICK was : was = hdReader
  OBVIOUS
<1>3. PICK one \in Seq(OldRows) : one = hdFiles.one.rows
  BY DEF HEInv, FilesInv, AFile
<1>4. PICK live \in Seq(OldRows) : live = hdFiles.live.rows
  BY DEF HEInv, FilesInv, AFile
<1>5. PICK legacy : legacy = one \o live
  OBVIOUS
<1>6. PICK diverged \in BOOLEAN : diverged <=> ~was.pending /\ Diverged(hdFiles, was.stat)
  OBVIOUS
<1>7. PICK it : it = [was EXCEPT !.pc = "shown", !.legacy = legacy, !.diverged = diverged] /\ hdReader' = it
  <2>1. hdReader' = [was EXCEPT !.pc = "shown", !.legacy = one \o live, !.diverged = ~was.pending /\ Diverged(hdFiles, was.stat)]
    BY <1>2, <1>3, <1>4 DEF ReadNotices
  <2> QED BY <1>5, <1>6, <2>1
<1>8. was = [pc |-> was.pc, rows |-> was.rows, pending |-> was.pending, stat |-> was.stat,
             hides |-> was.hides, legacy |-> was.legacy, diverged |-> was.diverged]
  BY <1>2 DEF HEInv, CoverInv
<1>9. it = [pc |-> "shown", rows |-> was.rows, pending |-> was.pending, stat |-> was.stat,
            hides |-> was.hides, legacy |-> legacy, diverged |-> diverged]
  BY <1>7, <1>8
<1>10. it.pc = "shown" /\ it.rows = was.rows /\ it.pending = was.pending /\ it.legacy = legacy /\ it.diverged = diverged
  BY <1>9
<1>11. it = [pc |-> it.pc, rows |-> it.rows, pending |-> it.pending, stat |-> it.stat,
             hides |-> it.hides, legacy |-> it.legacy, diverged |-> it.diverged]
  BY <1>9
<1>12. ASSUME ~was.pending, ~diverged, NEW r \in ToSet(legacy) PROVE Shown(r, was.rows)
  <2>1. Covers(was.stat, hdFiles, hdOld, was.rows)
    BY <1>1, <1>2, <1>12 DEF HEInv, CoverInv
  <2>2. ~Diverged(hdFiles, was.stat)
    BY <1>6, <1>12
  <2>3. /\ hdFiles.one # NoFile => hdFiles.one = was.stat.one
        /\ hdFiles.live # NoFile => hdFiles.live = was.stat.live
    BY <2>2 DEF Diverged
  <2>4. r \in ToSet(one) \/ r \in ToSet(live)
    BY <1>5, <1>12, JoinedRows
  <2>5. CASE r \in ToSet(one)
    <3>1. hdFiles.one # NoFile
      BY <1>3, <2>5, EmptyFile
    <3> QED BY <1>3, <2>1, <2>3, <2>5, <3>1 DEF Covers, ShowsFile
  <2>6. CASE r \in ToSet(live)
    <3>1. hdFiles.live # NoFile
      BY <1>4, <2>6, EmptyFile
    <3> QED BY <1>4, <2>1, <2>3, <2>6, <3>1 DEF Covers, ShowsFile
  <2> QED BY <2>4, <2>5, <2>6
<1>13. NoFileHidden'
  BY <1>7, <1>10, <1>12 DEF NoFileHidden, Shown, OfClass
<1>14. it.pc # "notices"
  BY <1>10
<1> QED BY <1>1, <1>7, <1>11, <1>13, <1>14, ReaderMoves

LEMMA EndReadExact == ASSUME HEInv, EndRead PROVE HEInv'
<1>1. PICK it : it = NotReading /\ hdReader' = it
  BY DEF EndRead
<1>2. /\ it.pc = "idle"
      /\ it = [pc |-> it.pc, rows |-> it.rows, pending |-> it.pending, stat |-> it.stat,
               hides |-> it.hides, legacy |-> it.legacy, diverged |-> it.diverged]
  BY <1>1 DEF NotReading
<1>3. NoFileHidden'
  BY <1>1, <1>2 DEF NoFileHidden
<1>4. UNCHANGED <<hdDb, hdFiles, hdWriter, hdLog, hdOld>>
  BY DEF EndRead
<1> QED BY <1>1, <1>2, <1>3, <1>4, ReaderMoves

LEMMA StuttersExact ==
  ASSUME HEInv, UNCHANGED <<hdDb, hdFiles, hdWriter, hdReader, hdLog, hdOld>>
  PROVE  HEInv'
<1>1. PICK it : it = hdReader
  OBVIOUS
<1>2. /\ it = [pc |-> it.pc, rows |-> it.rows, pending |-> it.pending, stat |-> it.stat,
               hides |-> it.hides, legacy |-> it.legacy, diverged |-> it.diverged]
      /\ (it.pc = "notices" /\ ~it.pending) => Covers(it.stat, hdFiles, hdOld, it.rows)
  BY <1>1 DEF HEInv, CoverInv
<1>3. NoFileHidden'
  BY DEF HEInv, CoverInv, NoFileHidden
<1>4. hdReader' = it
  BY <1>1
<1> QED BY <1>2, <1>3, <1>4, ReaderMoves

(* A new state.db has no rows, and nothing of it was imported.               *)
LEMMA NoRowsYet ==
  /\ Due(NoDb) /\ NoDb.rows = <<>> /\ ToSet(<<>>) = {} /\ <<>> \in Seq(AllRows)
  /\ RowsInOrder(<<>>) /\ OldFirst(<<>>)
BY DEF Due, NoDb, ToSet, RowsInOrder, OldFirst

LEMMA RowsBegin == ASSUME hdDb = NoDb, hdLog = <<>> PROVE RowsInv
BY NoRowsYet DEF RowsInv, IsNewest

LEMMA AsideExact == ASSUME HEInv, HDInv, MoveDbAside PROVE HEInv'
<1>1. /\ hdDb' = NoDb /\ hdLog' = <<>> /\ UNCHANGED <<hdFiles, hdReader, hdOld>>
      /\ hdReader.pc = "idle" /\ \A w \in HDWriters : hdWriter[w].pc = "idle"
      /\ hdWriter' = [w \in HDWriters |-> [hdWriter[w] EXCEPT !.first = hdWriter[w].done]]
  BY DEF MoveDbAside, At
<1>2. RowsInv'
  BY <1>1, NoRowsYet DEF RowsInv, IsNewest
<1>3. FilesInv'
  BY <1>1 DEF HEInv, FilesInv
<1>4. ASSUME NEW w \in HDWriters PROVE Imported(hdWriter[w])'
  <2>1. PICK was : was = hdWriter[w] /\ was \in Commands(was.import)
    BY DEF HDInv, CommandsInv
  <2>2. PICK me : me = [was EXCEPT !.first = was.done] /\ hdWriter'[w] = me
    BY <1>1, <2>1
  <2>3. me.pc = was.pc /\ me.import = was.import
    BY <2>1, <2>2 DEF Commands
  <2>4. was.pc = "idle" /\ was.import = NoBatch
    BY <1>1, <2>1, ReadsNothing
  <2>5. Importing(me.pc, me.import, hdFiles', hdOld')
    BY <2>3, <2>4 DEF Importing, NoBatch
  <2> QED BY <2>2, <2>3, <2>4, <2>5 DEF Imported
<1>5. ImportInv'
  BY <1>4 DEF ImportInv
<1>6. CoverInv'
  BY <1>1, NoRowsYet DEF HEInv, CoverInv, NoFileHidden
<1> QED BY <1>2, <1>3, <1>5, <1>6 DEF HEInv

LEMMA HEBegins == ASSUME HDInit PROVE HEInv
<1>1. PICK w \in HDWriters : w = CHOOSE v \in HDWriters : TRUE
  BY HDAssumption
<1>2. PICK r : r = Row(OldMm, 0, w)
  OBVIOUS
<1>3. r \in OldRows /\ r.n = 0
  <2>1. 0 \in Nat /\ OldMm \in {OldMm}
    OBVIOUS
  <2> QED BY <1>2, <2>1 DEF Row, OldRows
<1>4. PICK s \in Seq(OldRows) : s = <<r>> /\ s # <<>> /\ ToSet(s) = {r} /\ RowsInOrder(s)
  <2>1. PICK s \in Seq(OldRows) : s = <<r>>
    <3>1. r \in OldRows
      BY <1>3
    <3>2. <<r>> \in Seq(OldRows)
      BY <3>1
    <3> QED BY <3>2
  <2>2. Len(s) = 1 /\ DOMAIN s = 1 .. 1 /\ s[1] = r
    BY <2>1
  <2>3. s # <<>> /\ ToSet(s) = {r}
    <3>1. DOMAIN s = {1}
      BY <2>2
    <3>2. ToSet(s) = {r}
      BY <2>2, <3>1 DEF ToSet
    <3>3. s # <<>>
      BY <2>1
    <3> QED BY <3>2, <3>3
  <2>4. RowsInOrder(s)
    BY <2>2 DEF RowsInOrder
  <2> QED BY <2>1, <2>3, <2>4
<1>5. PICK live : live = File(TRUE, s)
  OBVIOUS
<1>6. hdFiles = [one |-> NoFile, live |-> live]
  BY <1>1, <1>2, <1>4, <1>5 DEF HDInit
<1>7. AFile(live, 0)
  <2>1. live.rows = s /\ live.there /\ live.there \in BOOLEAN /\ live = File(live.there, live.rows)
    BY <1>5 DEF File
  <2>2. \A q \in ToSet(s) : q.n <= 0
    BY <1>3, <1>4
  <2> QED BY <1>4, <2>1, <2>2 DEF AFile
<1>8. FilesInv
  <2>1. AFile(NoFile, 0)
    BY EmptyIsFile
  <2>2. Precede(NoFile.rows, live.rows)
    BY EmptyFile DEF Precede
  <2>3. hdFiles.one = NoFile /\ hdFiles.live = live /\ hdFiles = [one |-> hdFiles.one, live |-> hdFiles.live]
    BY <1>6
  <2>4. hdOld = 0
    BY DEF HDInit
  <2> QED BY <1>7, <2>1, <2>2, <2>3, <2>4 DEF FilesInv
<1>9. RowsInv
  BY RowsBegin DEF HDInit
<1>10. ImportInv
  <2>1. Resting.pc = "idle" /\ Resting.import = NoBatch
    BY DEF Resting
  <2>2. Imported(Resting)
    BY <2>1, HoldsNothing
  <2>3. \A v \in HDWriters : hdWriter[v] = Resting
    BY DEF HDInit
  <2> QED BY <2>2, <2>3 DEF ImportInv
<1>11. CoverInv
  <2>1. PICK it : it = NotReading /\ hdReader = it
    BY DEF HDInit
  <2>2. /\ it.pc = "idle"
        /\ it = [pc |-> it.pc, rows |-> it.rows, pending |-> it.pending, stat |-> it.stat,
                 hides |-> it.hides, legacy |-> it.legacy, diverged |-> it.diverged]
    BY <2>1 DEF NotReading
  <2>3. Due(hdDb)
    BY NoRowsYet DEF HDInit
  <2> QED BY <2>1, <2>2, <2>3 DEF CoverInv, NoFileHidden
<1> QED BY <1>8, <1>9, <1>10, <1>11 DEF HEInv

(* The rows a commit adds follow every row their command has committed.      *)
LEMMA WiderRows == ASSUME NEW R, NEW S, R \subseteq S, NEW s \in Seq(R) PROVE s \in Seq(S)
OBVIOUS

LEMMA KindsOfRows == Recorded \subseteq AllRows /\ OldRows \subseteq AllRows /\ OldMm \notin HDWriters
BY HDAssumption DEF Recorded, AllRows, OldRows, OldMm

LEMMA WaitingRows ==
  ASSUME NEW w, NEW n \in Nat, NEW k \in Nat, k <= n
  PROVE  RowsInOrder(Waits(w, n, k)) /\ \A q \in ToSet(Waits(w, n, k)) : q.class = w
<1> DEFINE b == Waits(w, n, k)
<1>1. DOMAIN b = 1 .. k /\ \A i \in 1 .. k : b[i] = Row(w, n - k + i, w)
  BY DEF Waits
<1>2. \A m : Row(w, m, w).class = w /\ Row(w, m, w).n = m
  BY DEF Row
<1> HIDE DEF b
<1>3. \A i \in 1 .. k : b[i].n = n - k + i /\ b[i].class = w
  BY <1>1, <1>2
<1>4. RowsInOrder(b)
  <2> SUFFICES ASSUME NEW i \in 1 .. k, NEW j \in 1 .. k, i < j PROVE b[i].n < b[j].n
    BY <1>1 DEF RowsInOrder
  <2> QED BY <1>3
<1>5. \A q \in ToSet(b) : q.class = w
  BY <1>1, <1>3 DEF ToSet
<1> QED BY <1>4, <1>5 DEF b

Follows(b, w, log) ==
  /\ b \in Seq(Recorded) /\ RowsInOrder(b)
  /\ \A r \in ToSet(b) : r.by = w /\ r.class = w
  /\ \A q \in ToSet(log), r \in ToSet(b) : q.by = r.by => q.n < r.n

LEMMA BufferFollows ==
  ASSUME HDInv, NEW w \in HDWriters, hdWriter[w].pc = "commit"
  PROVE  Follows(hdWriter[w].buffer, w, hdLog)
<1>1. PICK me : me = hdWriter[w] /\ me \in Commands(me.import) /\ Buffered(w, me, hdLog)
  BY DEF HDInv, CommandsInv, BuffersInv
<1>2. ~me.failed /\ me.done \in Nat /\ me.first \in Nat /\ me.buffer \in Seq(Recorded)
  BY <1>1, NotFailed DEF Commands
<1>3. PICK n \in Nat : n = me.done
  BY <1>2
<1>4. PICK first \in Nat : first = me.first
  BY <1>2
<1>5. PICK b \in Seq(Recorded) : b = me.buffer
  BY <1>2
<1>6. PICK k \in Nat : k = Len(b)
  OBVIOUS
<1>7. PICK log \in Seq(Recorded) : log = hdLog
  BY DEF HDInv, TableInv
<1>8. b = Waits(w, n, k) /\ first <= n /\ k <= n - first
  BY <1>1, <1>3, <1>4, <1>5, <1>6 DEF Buffered, Waiting
<1>9. Mine(w, first, log) = first + 1 .. n - k
  BY <1>1, <1>2, <1>3, <1>4, <1>5, <1>6, <1>7 DEF Buffered
<1>10. ASSUME NEW q \in ToSet(log), q.by = w PROVE q.n \in Nat /\ q.n <= n - k
  <2>1. q.n \in Nat
    BY NumberOfRow
  <2>2. CASE q.n > first
    <3>1. q.n \in Mine(w, first, log)
      BY <1>10, <2>2 DEF Mine
    <3> QED BY <1>9, <2>1, <3>1
  <2>3. CASE ~(q.n > first)
    BY <1>8, <2>1, <2>3
  <2> QED BY <2>2, <2>3
<1>11. k <= n
  BY <1>8
<1>12. \A r \in ToSet(b) : r.by = w /\ r.n \in n - k + 1 .. n
  BY <1>8, <1>11, RowsThatWait
<1>13. RowsInOrder(b) /\ \A r \in ToSet(b) : r.class = w
  BY <1>8, <1>11, WaitingRows
<1>14. ASSUME NEW q \in ToSet(log), NEW r \in ToSet(b), q.by = r.by PROVE q.n < r.n
  <2>1. q.n \in Nat /\ q.n <= n - k
    BY <1>10, <1>12, <1>14
  <2> QED BY <1>12, <2>1
<1>15. Follows(b, w, log)
  BY <1>12, <1>13, <1>14 DEF Follows
<1> QED BY <1>1, <1>5, <1>7, <1>15

(* Rows as a commit finds them, with those it imports.                       *)
RowsHold(rows, log) ==
  /\ rows \in Seq(AllRows) /\ RowsInOrder(rows) /\ OldFirst(rows)
  /\ \A r \in ToSet(rows) : r.by # OldMm => r.class = r.by
  /\ \A r : r.by # OldMm => (r \in ToSet(rows) <=> IsNewest(r, log))

LEMMA HeldRows == ASSUME RowsInv PROVE RowsHold(hdDb.rows, hdLog)
<1>1. hdDb.rows \in Seq(AllRows) /\ RowsInOrder(hdDb.rows) /\ OldFirst(hdDb.rows)
  BY DEF RowsInv
<1>2. ASSUME NEW r, r.by # OldMm PROVE r \in ToSet(hdDb.rows) <=> IsNewest(r, hdLog)
  BY <1>2 DEF RowsInv, IsNewest
<1>3. ASSUME NEW r \in ToSet(hdDb.rows), r.by # OldMm PROVE r.class = r.by
  BY <1>2, <1>3 DEF RowsInv, IsNewest
<1> QED BY <1>1, <1>2, <1>3 DEF RowsHold

(* What was shown is, with more rows.                                        *)
LEMMA MoreShown ==
  ASSUME NEW R, NEW rows \in Seq(R), NEW more \in Seq(R), NEW r, Shown(r, rows)
  PROVE  Shown(r, rows \o more)
<1>1. \A q : q \in ToSet(rows \o more) <=> q \in ToSet(rows) \/ q \in ToSet(more)
  BY JoinedRows
<1>2. CASE r \in ToSet(rows)
  BY <1>1, <1>2 DEF Shown
<1>3. CASE Cardinality(OfClass(r.class, rows)) >= HDLimit
  <2>1. OfClass(r.class, rows) \subseteq OfClass(r.class, rows \o more)
    BY <1>1 DEF OfClass
  <2>2. rows \o more \in Seq(R)
    BY RowsJoin
  <2>3. IsFiniteSet(ToSet(rows \o more))
    BY <2>2, FiniteRows
  <2>4. OfClass(r.class, rows \o more) \subseteq ToSet(rows \o more)
    BY DEF OfClass
  <2>5. IsFiniteSet(OfClass(r.class, rows \o more))
    BY <2>3, <2>4, FS_Subset
  <2>6. /\ Cardinality(OfClass(r.class, rows)) <= Cardinality(OfClass(r.class, rows \o more))
        /\ IsFiniteSet(OfClass(r.class, rows))
    BY <2>1, <2>5, FS_Subset
  <2>7. Cardinality(OfClass(r.class, rows)) \in Nat /\ Cardinality(OfClass(r.class, rows \o more)) \in Nat
    BY <2>5, <2>6, FS_CardinalityType
  <2>8. Cardinality(OfClass(r.class, rows \o more)) >= HDLimit
    BY <1>3, <2>6, <2>7, HDAssumption
  <2> QED BY <2>8 DEF Shown
<1> QED BY <1>2, <1>3 DEF Shown

LEMMA CommitsRows ==
  ASSUME NEW w \in HDWriters, NEW rows, NEW log \in Seq(Recorded), RowsHold(rows, log), NEW b, Follows(b, w, log)
  PROVE  /\ RowsHold(Prune(rows \o b), log \o b)
         /\ \A r : Shown(r, rows) => Shown(r, Prune(rows \o b))
         /\ (\A r \in ToSet(rows) : r.by # OldMm) => \A r \in ToSet(Prune(rows \o b)) : r.by # OldMm
<1> DEFINE s == rows \o b
           all == log \o b
<1>1. rows \in Seq(AllRows) /\ log \in Seq(AllRows) /\ b \in Seq(AllRows)
  BY KindsOfRows, WiderRows DEF RowsHold, Follows
<1>2. s \in Seq(AllRows) /\ all \in Seq(AllRows)
  BY <1>1, RowsJoin
<1>3. \A q : q \in ToSet(s) <=> q \in ToSet(rows) \/ q \in ToSet(b)
  BY <1>1, JoinedRows
<1>4. \A q : q \in ToSet(all) <=> q \in ToSet(log) \/ q \in ToSet(b)
  BY <1>1, JoinedRows
<1>5. \A r \in ToSet(b) : r.by = w /\ r.class = w /\ r.by # OldMm
  BY KindsOfRows DEF Follows
<1>6. \A r : r.by # OldMm => (r \in ToSet(rows) <=> IsNewest(r, log))
  BY DEF RowsHold
<1>7. RowsInOrder(s)
  <2>1. ASSUME NEW q \in ToSet(rows), NEW r \in ToSet(b), q.by = r.by PROVE q.n < r.n
    BY <1>5, <1>6, <2>1 DEF IsNewest, Follows
  <2>2. RowsInOrder(rows) /\ RowsInOrder(b)
    BY DEF RowsHold, Follows
  <2> QED BY <1>1, <2>1, <2>2, JoinedOrder
<1>8. OldFirst(s)
  <2>1. b \in Seq(AllRows) /\ \A i \in DOMAIN b : b[i] \in ToSet(b)
    BY <1>1 DEF ToSet
  <2>2. OldFirst(b)
    BY <1>5, <2>1 DEF OldFirst
  <2>3. OldFirst(rows)
    BY DEF RowsHold
  <2> QED BY <1>1, <1>5, <2>2, <2>3, JoinedOldFirst
<1>9. \A r \in ToSet(s) : r.by # OldMm => r.class = r.by
  BY <1>3, <1>5 DEF RowsHold
<1>10. \A r : r.by # OldMm => (r \in ToSet(s) <=> IsNewest(r, log) \/ r \in ToSet(b))
  BY <1>3, <1>6
<1>11. \A q \in ToSet(log), r \in ToSet(b) : q.by = r.by => q.n < r.n
  BY DEF Follows
<1> HIDE DEF s, all
<1>12. ASSUME NEW r, r.by # OldMm PROVE r \in ToSet(Prune(s)) <=> IsNewest(r, all)
  <2>1. CommitOf(s, all, log, b)
    BY <1>1, <1>2, <1>4, <1>7, <1>8, <1>9, <1>10, <1>11 DEF CommitOf
  <2> QED BY <1>12, <2>1, CommitKeepsNewest
<1>13. Prune(s) \in Seq(AllRows)
  BY <1>2, Pruned
<1>14. RowsInOrder(Prune(s)) /\ OldFirst(Prune(s))
  BY <1>2, <1>7, <1>8, PrunedRows
<1>15. \A r : r \in ToSet(Prune(s)) => r \in ToSet(s)
  <2>1. \A r : r \in ToSet(Prune(s)) <=> \E i \in KeptAt(s) : r = s[i]
    BY <1>2, PrunedRows
  <2>2. KeptAt(s) \subseteq DOMAIN s
    BY DEF KeptAt
  <2> QED BY <2>1, <2>2 DEF ToSet
<1>16. RowsHold(Prune(s), all)
  BY <1>9, <1>12, <1>13, <1>14, <1>15 DEF RowsHold
<1>17. ASSUME NEW r, Shown(r, rows) PROVE Shown(r, Prune(s))
  <2>1. Shown(r, s)
    BY <1>1, <1>17, MoreShown DEF s
  <2>2. AllRows \subseteq AllRows
    OBVIOUS
  <2> QED BY <1>2, <1>7, <2>1, <2>2, StillShown
<1>18. (\A r \in ToSet(rows) : r.by # OldMm) => \A r \in ToSet(Prune(s)) : r.by # OldMm
  BY <1>3, <1>5, <1>15
<1> QED BY <1>16, <1>17, <1>18 DEF s, all

(* Imported rows go before the others.                                       *)
LEMMA ImportsRows ==
  ASSUME NEW rows, NEW log, RowsHold(rows, log), \A r \in ToSet(rows) : r.by # OldMm,
         NEW legacy, NEW old, Legacy(legacy, old)
  PROVE  RowsHold(legacy \o rows, log) /\ \A r \in ToSet(legacy) : Shown(r, legacy \o rows)
<1>1. legacy \in Seq(AllRows) /\ rows \in Seq(AllRows)
  BY KindsOfRows, WiderRows DEF RowsHold, Legacy
<1>2. legacy \o rows \in Seq(AllRows)
  BY <1>1, RowsJoin
<1>3. \A q : q \in ToSet(legacy \o rows) <=> q \in ToSet(legacy) \/ q \in ToSet(rows)
  BY <1>1, JoinedRows
<1>4. \A q \in ToSet(legacy) : q.by = OldMm
  <2>1. \A q \in ToSet(legacy) : q \in OldRows
    BY RowOfSeq DEF Legacy
  <2> QED BY <2>1 DEF OldRows
<1>5. RowsInOrder(legacy \o rows)
  <2>1. RowsInOrder(legacy) /\ RowsInOrder(rows)
    BY DEF RowsHold, Legacy
  <2> QED BY <1>1, <1>4, <2>1, JoinedOrder
<1>6. OldFirst(legacy \o rows)
  <2>1. \A i \in DOMAIN legacy : legacy[i] \in ToSet(legacy)
    BY DEF ToSet
  <2>2. OldFirst(legacy)
    BY <1>4, <2>1 DEF OldFirst
  <2>3. OldFirst(rows)
    BY DEF RowsHold
  <2> QED BY <1>1, <1>4, <2>2, <2>3, JoinedOldFirst
<1>7. RowsHold(legacy \o rows, log)
  BY <1>2, <1>3, <1>4, <1>5, <1>6 DEF RowsHold
<1>8. \A r \in ToSet(legacy) : Shown(r, legacy \o rows)
  BY <1>3 DEF Shown
<1> QED BY <1>7, <1>8

(* What a commit makes of the table.                                         *)
SameMarks(now, was) == now.imported = was.imported /\ now.pending = was.pending /\ now.stat = was.stat
Committed(now, was, import, pre) ==
  \/ /\ ~Due(was) /\ pre = was.rows /\ SameMarks(now, was)
  \/ /\ Due(was) /\ import.refused /\ pre = was.rows /\ now.imported /\ now.pending
  \/ /\ Due(was) /\ ~import.refused /\ pre = import.legacy \o was.rows
     /\ now.imported /\ ~now.pending /\ now.stat = import.stat

LEMMA CommittedTable ==
  ASSUME HDInv, NEW w, CommitFlush(w)
  PROVE  \E pre : /\ Committed(hdDb', hdDb, hdWriter[w].import, pre)
                  /\ hdDb'.rows = Prune(pre \o hdWriter[w].buffer)
<1>1. PICK was, import, b : was = hdDb /\ import = hdWriter[w].import /\ b = hdWriter[w].buffer
  OBVIOUS
<1>2. PICK rows, stat : rows = was.rows /\ stat = was.stat
  OBVIOUS
<1>3. was \in Tables(rows, stat)
  BY <1>1, <1>2 DEF HDInv, TableInv
<1>4. PICK yes \in BOOLEAN, no \in BOOLEAN : yes /\ ~no /\ yes = TRUE /\ no = FALSE
  OBVIOUS
<1>5. CASE ~Due(was)
  <2>1. PICK r : r = Prune(was.rows \o b)
    OBVIOUS
  <2>2. PICK now : now = [was EXCEPT !.rows = r] /\ hdDb' = now
    BY <1>1, <1>5, <2>1 DEF CommitFlush, Due
  <2>3. now.rows = r /\ SameMarks(now, was)
    BY <1>3, <2>2 DEF Tables, SameMarks
  <2> QED BY <1>1, <1>5, <2>1, <2>2, <2>3 DEF Committed
<1>6. CASE Due(was) /\ import.refused
  <2>1. PICK db : db = [was EXCEPT !.imported = yes, !.pending = yes]
    OBVIOUS
  <2>2. db \in Tables(rows, stat) /\ db.imported = yes /\ db.pending = yes /\ db.rows = was.rows
    BY <1>2, <1>3, <2>1 DEF Tables
  <2>3. PICK r : r = Prune(was.rows \o b)
    OBVIOUS
  <2>4. PICK now : now = [db EXCEPT !.rows = r] /\ hdDb' = now
    <3>1. hdDb' = [db EXCEPT !.rows = Prune(@ \o b)]
      BY <1>1, <1>4, <1>6, <2>1 DEF CommitFlush, Due
    <3>2. [db EXCEPT !.rows = Prune(@ \o b)] = [db EXCEPT !.rows = r]
      BY <2>2, <2>3
    <3> QED BY <3>1, <3>2
  <2>5. now.rows = r /\ now.imported = yes /\ now.pending = yes
    BY <2>2, <2>4 DEF Tables
  <2> QED BY <1>1, <1>4, <1>6, <2>3, <2>4, <2>5 DEF Committed
<1>7. CASE Due(was) /\ ~import.refused
  <2>1. PICK pre, then : pre = import.legacy \o was.rows /\ then = import.stat
    OBVIOUS
  <2>2. PICK db : db = [was EXCEPT !.imported = yes, !.pending = no, !.stat = then, !.rows = pre]
    OBVIOUS
  <2>3. db \in Tables(pre, then) /\ db.imported = yes /\ db.pending = no /\ db.rows = pre /\ db.stat = then
    BY <1>3, <2>2 DEF Tables
  <2>4. PICK r : r = Prune(pre \o b)
    OBVIOUS
  <2>5. PICK now : now = [db EXCEPT !.rows = r] /\ hdDb' = now
    <3>1. hdDb' = [db EXCEPT !.rows = Prune(@ \o b)]
      BY <1>1, <1>4, <1>7, <2>1, <2>2 DEF CommitFlush, Due
    <3>2. [db EXCEPT !.rows = Prune(@ \o b)] = [db EXCEPT !.rows = r]
      BY <2>3, <2>4
    <3> QED BY <3>1, <3>2
  <2>6. now.rows = r /\ now.imported = yes /\ now.pending = no /\ now.stat = then
    BY <2>3, <2>5 DEF Tables
  <2> QED BY <1>1, <1>4, <1>7, <2>1, <2>4, <2>5, <2>6 DEF Committed
<1> QED BY <1>5, <1>6, <1>7

LEMMA CoversPruned ==
  ASSUME NEW then, NEW now, NEW old, NEW rows, NEW pruned, \A r : Shown(r, rows) => Shown(r, pruned),
         Covers(then, now, old, rows)
  PROVE  Covers(then, now, old, pruned)
BY DEF Covers, ShowsFile

LEMMA CoversImported ==
  ASSUME NEW import, NEW now, NEW old, NEW pre, ReadAll(import, now, old),
         \A r \in ToSet(import.legacy) : Shown(r, pre)
  PROVE  Covers(import.stat, now, old, pre)
BY DEF Covers, ShowsFile, ReadAll, HasRead

LEMMA CommitExact == ASSUME HEInv, HDInv, NEW w \in HDWriters, CommitFlush(w) PROVE HEInv'
<1>1. /\ hdWriter[w].pc = "commit" /\ UNCHANGED <<hdFiles, hdReader, hdOld>>
      /\ hdLog' = hdLog \o hdWriter[w].buffer
  BY DEF CommitFlush, At
<1>2. PICK log \in Seq(Recorded) : log = hdLog
  BY DEF HDInv, TableInv
<1>3. PICK b : b = hdWriter[w].buffer /\ Follows(b, w, log)
  BY <1>1, <1>2, BufferFollows
<1>4. PICK import : import = hdWriter[w].import
  OBVIOUS
<1>5. PICK pre : Committed(hdDb', hdDb, import, pre) /\ hdDb'.rows = Prune(pre \o b)
  BY <1>3, <1>4, CommittedTable
<1>6. RowsHold(hdDb.rows, log)
  BY <1>2, HeldRows DEF HEInv
<1>7. Due(hdDb) => \A r \in ToSet(hdDb.rows) : r.by # OldMm
  BY DEF HEInv, RowsInv, Due
<1>8. ASSUME Due(hdDb), ~import.refused, pre = import.legacy \o hdDb.rows
      PROVE  RowsHold(pre, log) /\ Covers(import.stat, hdFiles, hdOld, pre)
  <2>1. ReadAll(import, hdFiles, hdOld)
    BY <1>1, <1>4, <1>8 DEF HEInv, ImportInv, Imported
  <2>2. Legacy(import.legacy, hdOld)
    BY <2>1 DEF ReadAll
  <2>3. RowsHold(pre, log) /\ \A r \in ToSet(import.legacy) : Shown(r, pre)
    BY <1>6, <1>7, <1>8, <2>2, ImportsRows
  <2> QED BY <2>1, <2>3, CoversImported
<1>9. RowsHold(pre, log)
  BY <1>5, <1>6, <1>8 DEF Committed
<1>10. PICK rows : rows = Prune(pre \o b)
  OBVIOUS
<1>11. /\ RowsHold(rows, log \o b)
       /\ \A r : Shown(r, pre) => Shown(r, rows)
       /\ (\A r \in ToSet(pre) : r.by # OldMm) => \A r \in ToSet(rows) : r.by # OldMm
  BY <1>3, <1>9, <1>10, CommitsRows
<1>12. hdDb'.rows = rows /\ hdLog' = log \o b
  BY <1>1, <1>2, <1>3, <1>5, <1>10
<1>13. RowsInv'
  <2>1. \A r \in ToSet(log \o b) : r.by # OldMm /\ r.class = r.by
    <3>1. b \in Seq(Recorded)
      BY <1>3 DEF Follows
    <3>2. \A q : q \in ToSet(log \o b) <=> q \in ToSet(log) \/ q \in ToSet(b)
      BY <3>1, JoinedRows
    <3>3. \A r \in ToSet(log) : r.by # OldMm /\ r.class = r.by
      BY <1>2 DEF HEInv, RowsInv
    <3>4. \A r \in ToSet(b) : r.by # OldMm /\ r.class = r.by
      BY <1>3, KindsOfRows DEF Follows
    <3> QED BY <3>2, <3>3, <3>4
  <2>2. Due(hdDb') => \A r \in ToSet(rows) : r.by # OldMm
    BY <1>5, <1>7, <1>11 DEF Committed, Due, SameMarks
  <2>3. \A r \in ToSet(rows) : r.by # OldMm => IsNewest(r, log \o b)
    BY <1>11 DEF RowsHold
  <2>4. \A r \in ToSet(log \o b) : IsNewest(r, log \o b) => r \in ToSet(rows)
    BY <1>11, <2>1 DEF RowsHold
  <2>5. rows \in Seq(AllRows) /\ RowsInOrder(rows) /\ OldFirst(rows)
    BY <1>11 DEF RowsHold
  <2>6. PICK all : all = log \o b
    OBVIOUS
  <2> QED BY <1>12, <2>1, <2>2, <2>3, <2>4, <2>5, <2>6 DEF RowsInv, Due
<1>14. FilesInv'
  BY <1>1 DEF HEInv, FilesInv
<1>15. ASSUME NEW v \in HDWriters PROVE Imported(hdWriter[v])'
  <2>1. PICK me : /\ me = [hdWriter[w] EXCEPT !.pc = AfterFlush(w), !.buffer = <<>>, !.import = NoBatch]
                  /\ Does(w, me)
    BY DEF CommitFlush
  <2>2. hdWriter'[w] = me /\ (v # w => hdWriter'[v] = hdWriter[v])
    BY <2>1, DoesOne DEF HDInv
  <2>3. CASE v = w
    <3>1. hdWriter[w] \in Commands(hdWriter[w].import)
      BY DEF HDInv, CommandsInv
    <3>2. me.pc = AfterFlush(w) /\ me.import = NoBatch
      BY <2>1, <3>1 DEF Commands
    <3>3. me.pc \in {"idle", "work"}
      BY <3>2 DEF AfterFlush
    <3>4. Importing(me.pc, me.import, hdFiles', hdOld')
      BY <3>2, <3>3 DEF Importing, NoBatch
    <3> QED BY <2>2, <2>3, <3>3, <3>4 DEF Imported
  <2>4. CASE v # w
    <3>1. hdWriter[w].pc \in Within
      BY <1>1 DEF Within
    <3>2. hdWriter[v].pc \notin Within
      BY <2>4, <3>1 DEF HDInv, HolderInv
    <3>3. PICK it : it = hdWriter[v] /\ it.pc \notin {"stat", "read-one", "read-live", "commit"}
      BY <3>2 DEF Within
    <3>4. Importing(it.pc, it.import, hdFiles, hdOld)
      BY <3>3 DEF HEInv, ImportInv, Imported
    <3>5. Importing(it.pc, it.import, hdFiles', hdOld') /\ hdWriter'[v] = it
      BY <1>1, <2>2, <2>4, <3>3, <3>4
    <3> QED BY <3>3, <3>5 DEF Imported
  <2> QED BY <2>3, <2>4
<1>16. ImportInv'
  BY <1>15 DEF ImportInv
<1>17. ASSUME ~Due(hdDb') PROVE Covers(hdDb'.stat, hdFiles, hdOld, rows)
  <2>1. CASE ~Due(hdDb) /\ pre = hdDb.rows /\ SameMarks(hdDb', hdDb)
    <3>1. Covers(hdDb.stat, hdFiles, hdOld, pre)
      BY <2>1 DEF HEInv, CoverInv
    <3>2. Covers(hdDb.stat, hdFiles, hdOld, rows)
      BY <1>11, <3>1, CoversPruned
    <3> QED BY <2>1, <3>2 DEF SameMarks
  <2>2. CASE Due(hdDb) /\ ~import.refused /\ pre = import.legacy \o hdDb.rows /\ hdDb'.stat = import.stat
    <3>1. Covers(import.stat, hdFiles, hdOld, pre)
      BY <1>8, <2>2
    <3>2. Covers(import.stat, hdFiles, hdOld, rows)
      BY <1>11, <3>1, CoversPruned
    <3> QED BY <2>2, <3>2
  <2> QED BY <1>5, <1>17, <2>1, <2>2 DEF Committed, Due
<1>18. CoverInv'
  <2>1. NoFileHidden'
    BY <1>1 DEF HEInv, CoverInv, NoFileHidden
  <2> QED BY <1>1, <1>12, <1>17, <2>1 DEF HEInv, CoverInv
<1> QED BY <1>13, <1>14, <1>16, <1>18 DEF HEInv

LEMMA HESteps == ASSUME HEInv, HDInv, [HDNext]_hdVars PROVE HEInv'
<1>1. CASE \E w \in HDWriters :
             \/ StartCommand(w) \/ Record(w) \/ EndCommand(w) \/ Open(w) \/ Migrate(w) \/ BeginFlush(w)
             \/ FlushFails(w) \/ Killed(w)
  BY <1>1, StartExact, RecordExact, EndExact, OpenExact, MigrateExact, BeginExact, FailsExact, KilledExact
<1>2. CASE \E w \in HDWriters :
             StatLegacy(w) \/ ReadRotated(w) \/ ReadLive(w) \/ CannotRead(w) \/ CommitFlush(w)
  BY <1>2, StatExact, RotatedExact, LiveExact, CannotExact, CommitExact
<1>3. CASE ReadSnapshot \/ ReadNotices \/ EndRead
  BY <1>3, SnapshotExact, NoticesExact, EndReadExact
<1>4. CASE (\E w \in HDWriters : OldMmAppends(w)) \/ OldMmRotates \/ MoveFilesAside
  BY <1>4, AppendsExact, RotatesExact
<1>5. CASE NewerMmMigrates \/ MoveDbAside
  BY <1>5, NewerExact, AsideExact
<1>6. CASE UNCHANGED hdVars
  BY <1>6, StuttersExact DEF hdVars
<1> QED BY <1>1, <1>2, <1>3, <1>4, <1>5, <1>6 DEF HDNext

LEMMA HEPromise == ASSUME HEInv PROVE NewestAreKept /\ NoFileHidden
<1>1. RowsHold(hdDb.rows, hdLog)
  BY HeldRows DEF HEInv
<1>2. ASSUME NEW w \in HDWriters
      PROVE  {r \in ToSet(hdDb.rows) : r.by = w}
               = {r \in ToSet(hdLog) : r.by = w /\ Cardinality({q \in ToSet(hdLog) : q.by = w /\ q.n > r.n}) < HDLimit}
  <2>1. w # OldMm
    BY KindsOfRows
  <2>2. ASSUME NEW r, r.by = w
        PROVE  r \in ToSet(hdDb.rows)
                 <=> r \in ToSet(hdLog) /\ Cardinality({q \in ToSet(hdLog) : q.by = w /\ q.n > r.n}) < HDLimit
    <3>1. r \in ToSet(hdDb.rows) <=> IsNewest(r, hdLog)
      BY <1>1, <2>1, <2>2 DEF RowsHold
    <3>2. NewerThan(r, hdLog) = {q \in ToSet(hdLog) : q.by = w /\ q.n > r.n}
      BY <2>2 DEF NewerThan
    <3> QED BY <3>1, <3>2 DEF IsNewest
  <2> QED BY <2>2
<1>3. NewestAreKept
  BY <1>1, <1>2 DEF NewestAreKept, RowsHold, RowsInOrder
<1> QED BY <1>3 DEF HEInv, CoverInv

(* What the table, the files and mm log show of the history is exact: of the *)
(* rows that commands committed the newest are kept, in order, each once and *)
(* none is left out of what a command recorded; an older mm's rows are shown *)
(* or announced; and no unknown schema is written.                           *)
THEOREM HistoryExact == HDSpec => HistoryIsExact
<1>1. HDInit => HDInv /\ HEInv
  BY HDBegins, HEBegins
<1>2. (HDInv /\ HEInv) /\ [HDNext]_hdVars => (HDInv /\ HEInv)'
  BY HDSteps, HESteps
<1>3. HDInv /\ HEInv => HDTypeOK /\ NewestAreKept /\ NoRowReplayed /\ NothingHidden
  BY HDPromise, HEPromise DEF NothingHidden
<1>4. (HDInv /\ HEInv) /\ [HDNext]_hdVars => [NewerIsUntouched]_hdVars
  BY NewerStays
<1> QED BY <1>1, <1>2, <1>3, <1>4, PTL DEF HDSpec, HistoryIsExact

(* Together with what a push says of itself: all evidence a command leaves   *)
(* is true, whoever else writes, fails or dies meanwhile.                    *)
THEOREM EvidenceTrue == URSpec /\ HDSpec => EvidenceIsTrue
BY ReportsTrue, HistoryExact DEF EvidenceIsTrue
=============================================================================
