--------------------------- MODULE ConflictResolve ---------------------------
(***************************************************************************)
(* The conflict copies of one document and the mm resolve walk over them   *)
(* (resolveflow.py, conflictmtime.py, retention._gc_old_conflict_files).   *)
(* A copy's name says who wrote which side: before the inversion of v0.9.2 *)
(* it held the LOCAL bytes, since then it holds the peer's.  Names of the  *)
(* old era get a v0- prefix when a locked command meets them.  A text is   *)
(* the set of edits in it.                                                 *)
(***************************************************************************)
EXTENDS Integers, FiniteSets

CONSTANTS CRCopies,   \* names a copy on disk may take
          CRLegacy,   \* copies an upgraded install may already have
          CREdits,    \* how many edits the user makes
          CRPushes,   \* how many versions the peer pushes
          CRShipped,  \* the time v0.9.2 shipped
          CRLast,     \* last time of the model
          CRSkew,     \* _MTIME_RESTORE_MAX_SKEW_SECONDS
          CRAge,      \* CONFLICT_AGE_DAYS
          CRFaults,   \* what is in scope: "typing" edits under a prompt, "remade" a
                      \* document that came back in mid-walk, if by an earlier answer,
                      \* "marker" a bad marker
          CRBad,      \* what an unreadable marker says
          CRNone

VARIABLES doc,     \* the canonical file: [text, mt], text {} when it is gone
          copies,  \* name -> [era, made, text, mt, local] or CRNone; local: who wrote it
          extra,   \* texts the user promoted to files of their own
          peer,    \* the peer's published version, [text, mt]
          crNow, marker,
          walk,    \* the resolve walk: [open, hits, at, had, seen]
          given,   \* history: edits the user gave up by an answer or a deletion
          settled, \* history: peer texts the user kept local against
          made     \* how many edits and pushes were made: [edits, pushes]

crVars == <<doc, copies, extra, peer, crNow, marker, walk, given, settled, made>>

Gone == [text |-> {}, mt |-> 0]
\* What a name says of its copy, beside the time it was minted (made).
Eras == {"v0", "none", "v1"}
CRTexts == SUBSET (({"mine"} \X (0..CREdits)) \cup ({"theirs"} \X (0..CRPushes)) \cup {<<"old", 0>>})
CRTimes == 0..(CRLast + CRSkew + 1)
CRRecords == [era : Eras, made : 0..CRLast, text : CRTexts, mt : CRTimes, local : BOOLEAN]
Shut == [open |-> FALSE, hits |-> {}, at |-> CRNone, had |-> FALSE, seen |-> Gone]

ASSUME CRNumbers ==
  /\ {CREdits, CRPushes, CRShipped, CRLast, CRSkew, CRAge} \subseteq Nat /\ CRShipped < CRLast
  /\ CRNone \notin CRRecords /\ CRNone \notin CRCopies
  /\ CRBad \notin Nat /\ CRNone \notin Nat /\ CRBad # CRNone

\* Names got an era with v0.9.2 at the earliest: before it a copy held the local bytes.
ASSUME CRLegacyIsOld ==
  \A old \in CRLegacy :
    /\ old \in CRRecords /\ old.era # "v1"
    /\ old.local <=> (old.era = "v0" \/ old.made < CRShipped)
    /\ old.text = IF old.local THEN {<<"old", 0>>} ELSE {<<"theirs", 0>>}

CRTypeOK ==
  /\ doc \in [text : CRTexts, mt : CRTimes] /\ peer \in [text : CRTexts, mt : CRTimes]
  /\ copies \in [CRCopies -> CRRecords \cup {CRNone}]
  /\ extra \subseteq CRTexts /\ crNow \in 0..CRLast
  /\ marker \in 0..CRLast \cup {CRNone, CRBad}
  /\ walk \in [open : BOOLEAN, hits : SUBSET (CRCopies \X BOOLEAN), at : CRCopies \cup {CRNone},
               had : BOOLEAN, seen : [text : CRTexts, mt : CRTimes]]
  /\ given \subseteq UNION CRTexts /\ settled \subseteq CRTexts
  /\ made \in [edits : 0..CREdits, pushes : 0..CRPushes]

CRInit ==
  /\ doc = [text |-> {<<"mine", 0>>}, mt |-> CRShipped]
  /\ peer = [text |-> {<<"theirs", 0>>}, mt |-> CRShipped]
  /\ \E old \in CRLegacy, c \in CRCopies :
       /\ copies = [d \in CRCopies |-> IF d = c THEN old ELSE CRNone]
       /\ given = IF old.local THEN {} ELSE {<<"old", 0>>}
  /\ marker \in {CRNone} \cup (IF "marker" \in CRFaults THEN {CRBad} ELSE {})
  /\ crNow = CRShipped + 1 /\ extra = {} /\ walk = Shut
  /\ settled = {} /\ made = [edits |-> 0, pushes |-> 0]

Live == {c \in CRCopies : copies[c] # CRNone}
CRLower(a, b) == IF a <= b THEN a ELSE b
CRHigher(a, b) == IF a >= b THEN a ELSE b

\* _ensure_inversion_marker: the first locked sweep writes the time it ran.
MarkerRead == IF marker = CRNone THEN crNow ELSE marker

\* _migrate_pre_inversion_conflict: only a name without an era, from before the
\* inversion shipped and from before this install's first sweep.
PreInversion(copy) ==
  /\ copy.era = "none"
  /\ MarkerRead # CRBad
  /\ copy.made < CRShipped
  /\ copy.made < MarkerRead
Swept == [c \in CRCopies |-> IF c \in Live /\ PreInversion(copies[c])
                             THEN [copies[c] EXCEPT !.era = "v0"] ELSE copies[c]]
SweptMarker == IF \E c \in Live : copies[c].era = "none" THEN MarkerRead ELSE marker

(* ------------------------------- the pull ------------------------------ *)

\* _restore_mtime_best_effort: never further than the skew into the future.
Restored == CRLower(peer.mt, crNow + CRSkew)
\* Mutant: copies of the old era are the peer's like the rest.
OfAnyEra == Live
\* _existing_post_inversion_sidecars_from_peer, after the sweep.
OfPeer == {c \in Live : Swept[c].era # "v0"}

\* _apply_conflict: nothing for the same bytes again; else a new copy is published
\* and the peer's older ones go.
Mint ==
  IF \E c \in OfPeer : copies[c].text = peer.text THEN copies' = Swept
  ELSE \E new \in CRCopies \ Live :
         copies' = [c \in CRCopies |->
           IF c = new THEN [era |-> "v1", made |-> crNow, text |-> peer.text,
                            mt |-> Restored, local |-> FALSE]
           ELSE IF c \in OfPeer THEN CRNone ELSE Swept[c]]

\* mm pull, its sweep first.  A missing file is written unless its own deletion is
\* newer; a newer local file is kept; an older or equally old one conflicts.
Pull ==
  /\ ~walk.open /\ marker' = SweptMarker
  /\ IF doc.text = {} THEN
       /\ doc' \in {Gone, [text |-> peer.text, mt |-> Restored]} /\ copies' = Swept
     ELSE IF doc.text = peer.text \/ doc.mt > peer.mt THEN copies' = Swept /\ UNCHANGED doc
     ELSE Mint /\ UNCHANGED doc
  /\ UNCHANGED <<extra, peer, crNow, walk, given, settled, made>>

(* ------------------------------ the resolve ---------------------------- *)

\* resolve and _find_conflict_files: whether the document exists is settled here.
BeginWalk ==
  /\ ~walk.open /\ Live # {} /\ marker' = SweptMarker /\ copies' = Swept
  /\ walk' = [Shut EXCEPT !.open = TRUE, !.hits = {<<c, doc.text # {}>> : c \in Live}]
  /\ UNCHANGED <<doc, extra, peer, crNow, given, settled, made>>

\* The next hit is shown; a document gone since discovery is a read that fails.
Show ==
  /\ walk.open /\ walk.at = CRNone
  /\ \E h \in walk.hits :
       LET rest == [walk EXCEPT !.hits = @ \ {h}]
       IN walk' = IF h[2] /\ doc.text = {} THEN rest
                  ELSE [rest EXCEPT !.at = h[1], !.had = h[2], !.seen = doc]
  /\ UNCHANGED <<doc, copies, extra, peer, crNow, marker, given, settled, made>>

EndWalk ==
  /\ walk.open /\ walk.at = CRNone /\ walk' = Shut
  /\ UNCHANGED <<doc, copies, extra, peer, crNow, marker, given, settled, made>>

Shown == copies[walk.at]
LocalIsCopy == Shown.era = "v0"
Drop == [copies EXCEPT ![walk.at] = CRNone]

\* Mutant: the local file is touched to now.
TouchedNow(peerMt) == crNow
\* _bump_canonical_mtime_post_resolve: past the peer's, at most the skew ahead.
Bumped(peerMt) == CRLower(CRHigher(crNow, peerMt + 1), crNow + CRSkew)

\* What the answer settles: the peer's version, unless its clock is or was too far
\* ahead for the copy's mtime or the bump to follow it.
Settled == settled \cup
  (IF Shown.mt = peer.mt /\ peer.mt < crNow + CRSkew THEN {Shown.text} ELSE {})

AnswerLocal ==
  /\ IF LocalIsCopy
     THEN /\ doc' = [text |-> Shown.text, mt |-> Bumped(doc.mt)]
          /\ given' = given \cup walk.seen.text /\ settled' = {}
     ELSE /\ doc' = IF doc.text = {} THEN doc ELSE [doc EXCEPT !.mt = Bumped(Shown.mt)]
          /\ given' = given \cup Shown.text
          /\ settled' = Settled
  /\ copies' = Drop /\ UNCHANGED extra

AnswerRemote ==
  /\ IF LocalIsCopy
     THEN given' = given \cup Shown.text /\ UNCHANGED <<doc, settled>>
     ELSE /\ doc' = [text |-> Shown.text, mt |-> Shown.mt]
          /\ given' = given \cup walk.seen.text /\ settled' = {}
  /\ copies' = Drop /\ UNCHANGED extra

\* The merge was computed before the prompt, from the bytes shown.
AnswerMerge ==
  /\ doc' = [text |-> walk.seen.text \cup Shown.text, mt |-> crNow]
  /\ copies' = Drop /\ settled' = {} /\ UNCHANGED <<extra, given>>

\* _promote_conflict_file: a file of its own, the local one bumped past the peer's.
AnswerPromote ==
  /\ extra' = extra \cup {Shown.text} /\ copies' = Drop
  /\ doc' = IF LocalIsCopy \/ doc.text = {} THEN doc ELSE [doc EXCEPT !.mt = Bumped(Shown.mt)]
  /\ settled' = IF LocalIsCopy \/ doc.text = {} THEN settled ELSE Settled
  /\ UNCHANGED given

\* No document at discovery: the copy is renamed over whatever is there by now,
\* be it an edit of the user or what an earlier answer of this walk put there.
MakeCanonical ==
  /\ doc.text = {} \/ "remade" \in CRFaults
  /\ doc' = [text |-> Shown.text, mt |-> Shown.mt] /\ copies' = Drop
  /\ settled' = {} /\ UNCHANGED <<extra, given>>
DeleteCopy ==
  /\ given' = given \cup Shown.text /\ copies' = Drop /\ UNCHANGED <<doc, extra, settled>>
Skip == UNCHANGED <<doc, copies, extra, given, settled>>

Answer ==
  /\ walk.at # CRNone
  /\ IF walk.had THEN AnswerLocal \/ AnswerRemote \/ AnswerMerge \/ AnswerPromote \/ Skip
     ELSE MakeCanonical \/ DeleteCopy \/ Skip
  /\ walk' = [walk EXCEPT !.at = CRNone, !.had = FALSE, !.seen = Gone]
  /\ UNCHANGED <<peer, crNow, marker, made>>

\* retention._is_live_conflict: a copy is redundant only beside an equal document.
Redundant(c) == doc.text # {} /\ copies[c].text = doc.text

\* retention._gc_old_conflict_files: old by its name, and redundant.
GcConflicts ==
  /\ ~walk.open
  /\ LET reaped == {c \in Live : /\ copies[c].era # "v0"
                                 /\ copies[c].made < crNow - CRAge
                                 /\ Redundant(c)}
     IN reaped # {} /\ copies' = [c \in CRCopies |-> IF c \in reaped THEN CRNone ELSE copies[c]]
  /\ UNCHANGED <<doc, extra, peer, crNow, marker, walk, given, settled, made>>

(* ------------------------- the user and the peer ----------------------- *)

Typing == walk.at = CRNone \/ "typing" \in CRFaults
Edit ==
  /\ Typing /\ made.edits < CREdits /\ made' = [made EXCEPT !.edits = @ + 1]
  /\ doc' = [text |-> doc.text \cup {<<"mine", made'.edits>>}, mt |-> crNow]
  /\ settled' = {} /\ UNCHANGED <<copies, extra, peer, crNow, marker, walk, given>>
Remove ==
  /\ Typing /\ doc.text # {} /\ made.edits < CREdits
  /\ doc' = Gone /\ given' = given \cup doc.text /\ settled' = {}
  /\ UNCHANGED <<copies, extra, peer, crNow, marker, walk, made>>
PeerPushes ==
  /\ made.pushes < CRPushes /\ made' = [made EXCEPT !.pushes = @ + 1]
  /\ \E mt \in peer.mt..(crNow + CRSkew + 1) :
       peer' = [text |-> {<<"theirs", made'.pushes>>}, mt |-> mt]
  /\ UNCHANGED <<doc, copies, extra, crNow, marker, walk, given, settled>>
Pass ==
  /\ ~walk.open /\ crNow < CRLast /\ crNow' = crNow + 1
  /\ UNCHANGED <<doc, copies, extra, peer, marker, walk, given, settled, made>>

CRNext == Pull \/ BeginWalk \/ Show \/ EndWalk \/ Answer \/ GcConflicts
          \/ Edit \/ Remove \/ PeerPushes \/ Pass

CRSpec == CRInit /\ [][CRNext]_crVars

-----------------------------------------------------------------------------
(* A copy is presented as LOCAL only if this machine wrote its bytes       *)
(* (docs/invariants/conflicts.md: a mis-tagged copy makes (l)ocal          *)
(* overwrite the local file with the peer's).                              *)
LabelsAreTrue == \A c \in Live : copies[c].era = "v0" => copies[c].local

(* An edit made on this machine is in the document, in a copy or in a      *)
(* promoted file until the user gives it up by an answer or a deletion:    *)
(* pulls, sweeps, gc and the walk itself never lose one.                   *)
OnDisk == doc.text \cup UNION (extra \cup {copies[c].text : c \in Live})
Mine == {<<"old", 0>>} \cup {<<"mine", e>> : e \in 0..made.edits}
NoEditLost == Mine \subseteq OnDisk \cup given

(* Once the user kept the local file against a version of the peer's, no   *)
(* pull asks about that version again while the local file stays as it is  *)
(* (_bump_canonical_mtime_post_resolve; a clamped mtime is exempt).        *)
KeptIsKept ==
  [][\A c \in CRCopies :
       copies[c] = CRNone /\ copies'[c] # CRNone => copies'[c].text \notin settled]_crVars

(* No edit is lost, and none is shown as the other side's.                 *)
EditsKept == NoEditLost /\ LabelsAreTrue
=============================================================================
