-------------------------------- MODULE Pull --------------------------------
(***************************************************************************)
(* `mm pull` on this Mac (device 0) against peers 1 .. NPeers: what one run  *)
(* reads of the storage root, what it decides file by file, what it writes.  *)
(* Around it                                                                *)
(*   - the user and the agents edit the synced files,                        *)
(*   - peers publish, and the sync tool delivers manifests and blobs         *)
(*     independently, keeps two versions of a manifest, or damages one,      *)
(*   - a run may crash, which loses the run's memory and nothing else.       *)
(*                                                                         *)
(* Paths are those the filters of config and excludes let through.  A text   *)
(* is a set of lines, all a merge can tell apart.  Every modification time   *)
(* is placed around one fixed present, Now.  A step that reads one file per   *)
(* device or per path is one action: the reads commute.                      *)
(***************************************************************************)
EXTENDS Integers, FiniteSets

CONSTANTS
    NPeers,         \* peers, pulled in this order
    Paths, Mergeable,
    Texts,          \* contents of a file: sets of lines
    Mtimes,         \* mtimes the user leaves
    PeerMtimes,     \* mtimes peers publish
    Now, Skew,      \* the present; how far ahead of it a stamp may be
    Modes,          \* conflict modes the user runs pull with
    Absent, Link, Unknown,  \* no file; a symbolic link; a merge's digest
    NoManifest, NoFile,
    Menu,           \* environment steps an instance allows
    MaxEdits, MaxPubs, MaxFaults    \* bounds on user, peers, and failures

Devices == 0 .. NPeers
Peers == 1 .. NPeers
NoTime == 0         \* a missing or malformed mtime
Stamps == 0 .. Now + Skew

ASSUME PeersAssumption == NPeers \in Nat \ {0} /\ Mergeable \subseteq Paths
ASSUME TextsAssumption == \A s, t \in Texts : s \cup t \in Texts
ASSUME TimesAssumption ==
    /\ Now \in Nat \ {0} /\ Skew \in Nat
    /\ Mtimes \subseteq 1 .. Now /\ PeerMtimes \subseteq Nat
ASSUME ModesAssumption == Modes \subseteq {"keep-both", "prompt", "fail"}
ASSUME LimitsAssumption == MaxEdits \in Nat /\ MaxPubs \in Nat /\ MaxFaults \in Nat

Locals == [text : Texts, mt : Stamps]           \* a file on this Mac
Revs == [text : Texts, mt : PeerMtimes]         \* an entry of a peer's manifest
Copies == [from : Peers, text : Texts]          \* a .sync-conflict-* file
ASSUME MarksAssumption ==
    /\ Absent \notin Locals \cup Revs /\ Link \notin Locals \cup Revs
    /\ Absent # Link /\ {Absent, Link, Unknown} \cap Texts = {} /\ NoFile \notin Paths

Manifests ==
    [files : [Paths -> Revs \cup Locals \cup {Absent}], tombs : SUBSET Paths, ts : Nat]
ASSUME NoManifestAssumption == NoManifest \notin Manifests

VARIABLES
    \* this Mac's files and the conflict copies beside them
    disk, copies,
    \* storage root: each device's manifest, a second version the sync tool
    \* kept, whose manifest cannot be read, the peers' blobs that are here
    main, spare, damaged, blobs,
    \* one run
    pc, mode, cache, tombs, peer, queue, at, acted, lacking, pending,
    \* budgets and history
    edits, pubs, faults, mine, saved, kept, leftOpen, reopened

fileVars == <<disk, copies>>
storeVars == <<main, spare, damaged, blobs>>
setupVars == <<mode, cache, tombs>>
walkVars == <<peer, queue, at, acted, lacking>>
runVars == <<pc, setupVars, walkVars, pending>>
budgetVars == <<edits, pubs, faults>>
noteVars == <<mine, saved, kept, leftOpen, reopened>>
vars == <<fileVars, storeVars, runVars, budgetVars, noteVars>>

Lower(a, b) == IF a <= b THEN a ELSE b
Upper(a, b) == IF a >= b THEN a ELSE b
From(q, p) == {c \in copies[p] : c.from = q}

-----------------------------------------------------------------------------
(* What a read of device d's manifest returns: the versions that can be     *)
(* read, the newest that lists a path deciding its entry.                   *)
Versions(d) == (IF d \in damaged THEN {} ELSE {main[d]}) \cup ({spare[d]} \ {NoManifest})
Newest(V) == CHOOSE m \in V : \A n \in V : n.ts <= m.ts

Fetch(d) ==
    IF Versions(d) = {} THEN NoManifest
    ELSE [files |-> [p \in Paths |->
                       LET having == {m \in Versions(d) : m.files[p] # Absent}
                       IN IF having = {} THEN Absent ELSE Newest(having).files[p]],
          tombs |-> UNION {m.tombs : m \in Versions(d)},
          ts    |-> Newest(Versions(d)).ts]

Readable(c) == {d \in Devices : c[d] # NoManifest}
CollectPeersOnly(c) == UNION {c[d].tombs : d \in Readable(c) \ {0}}     \* mutant
CollectTombstones(c) == UNION {c[d].tombs : d \in Readable(c)}

RestoredAsIs(mt) == IF mt = NoTime THEN Now ELSE mt             \* mutant
(* A restored mtime is never far in the future; without one the write's own *)
(* time stands.                                                             *)
Restored(mt) == IF mt = NoTime THEN Now ELSE Lower(mt, Now + Skew)
LocalNewer(l, r) == r.mt # NoTime /\ l.mt > r.mt

-----------------------------------------------------------------------------
(* The planner's prediction for peers in order, over a virtual local state. *)
Predict(l, r, p) ==
    IF r = Absent \/ p \in tombs THEN "none"
    ELSE IF l = Link THEN "skip"
    ELSE IF l = Absent THEN "write"
    ELSE IF l.text = r.text THEN "unchanged"
    ELSE IF p \in Mergeable THEN "merge"
    ELSE IF LocalNewer(l, r) THEN "skip" ELSE "conflict"

Outcome(q, l, p) ==
    IF cache[q] = NoManifest THEN "none" ELSE Predict(l, cache[q].files[p], p)

After(q, l, p) ==
    CASE Outcome(q, l, p) = "write" ->
            [text |-> cache[q].files[p].text, mt |-> Restored(cache[q].files[p].mt)]
      [] Outcome(q, l, p) = "merge" -> [text |-> Unknown, mt |-> Now]
      [] OTHER -> l

Planned[q \in Devices] ==
    IF q = 0 THEN disk ELSE [p \in Paths |-> After(q, Planned[q - 1][p], p)]

(* Mutant: each peer predicted against the files as they are now.           *)
WouldConflictFlat == \E q \in Peers, p \in Paths : Outcome(q, disk[p], p) = "conflict"
WouldConflict == \E q \in Peers, p \in Paths : Outcome(q, Planned[q - 1][p], p) = "conflict"

-----------------------------------------------------------------------------
(* The run.                                                                 *)
NoOne == [d \in Devices |-> NoManifest]
Nowhere == [path |-> NoFile, local |-> Absent, stale |-> {}]
NotKept == -1
NonePending == [p \in Paths |-> NotKept]

(* The run is over, or died: its memory is gone.                            *)
Over ==
    /\ pc' = "idle" /\ mode' = "none" /\ cache' = NoOne /\ tombs' = {}
    /\ peer' = 0 /\ queue' = {} /\ at' = Nowhere
    /\ acted' = FALSE /\ lacking' = FALSE
    /\ pending' = NonePending
    /\ leftOpen' = {} /\ reopened' = {}

Begin(m) ==
    /\ pc = "idle"
    /\ mode' = m
    /\ cache' = [d \in Devices |-> Fetch(d)]
    /\ tombs' = CollectTombstones(cache')
    /\ pc' = IF m = "fail" THEN "plan" ELSE "peer"
    /\ peer' = 1
    /\ kept' = {}
    /\ UNCHANGED <<fileVars, storeVars, queue, at, acted, lacking, pending,
                   budgetVars, mine, saved, leftOpen, reopened>>

Preflight ==
    /\ pc = "plan"
    /\ IF WouldConflict
       THEN Over /\ UNCHANGED kept
       ELSE pc' = "peer" /\ UNCHANGED <<setupVars, walkVars, pending, noteVars>>
    /\ UNCHANGED <<fileVars, storeVars, budgetVars, mine, saved>>

DiffersNew(p, r) == r # Absent /\ p \notin tombs /\ disk[p] = Absent     \* mutant
Differs(p, r) ==
    r # Absent /\ p \notin tombs /\ (disk[p] \in {Absent, Link} \/ disk[p].text # r.text)

NextPeer ==
    /\ pc = "peer" /\ peer \in Peers
    /\ IF cache[peer] = NoManifest
       THEN peer' = peer + 1 /\ UNCHANGED <<pc, queue>>
       ELSE /\ queue' = {p \in Paths : Differs(p, cache[peer].files[p])}
            /\ pc' = "apply" /\ UNCHANGED peer
    /\ acted' = FALSE /\ lacking' = FALSE
    /\ UNCHANGED <<fileVars, storeVars, setupVars, at, pending, budgetVars, noteVars>>

Rev(p) == cache[peer].files[p]

(* A file leaves the queue with an outcome that wrote nothing.              *)
Passes(p) ==
    /\ queue' = queue \ {p}
    /\ UNCHANGED <<fileVars, storeVars, pc, setupVars, peer, at, pending, noteVars>>

Waits(p) ==
    /\ pc = "apply" /\ p \in queue
    /\ Rev(p).text \notin blobs[peer]
    /\ Passes(p) /\ lacking' = TRUE
    /\ UNCHANGED <<acted, budgetVars>>

Arrived(p) == pc = "apply" /\ p \in queue /\ Rev(p).text \in blobs[peer]

(* A blob that does not decrypt or check, an unreadable or unwritable file. *)
Fails(p) ==
    /\ Arrived(p) /\ "fail" \in Menu /\ faults < MaxFaults
    /\ Passes(p) /\ acted' = TRUE /\ lacking' = TRUE
    /\ faults' = faults + 1
    /\ UNCHANGED <<edits, pubs>>

(* Mutant: the newer revision wins.                                         *)
DoingNewest(p) ==
    IF disk[p] = Link THEN "skip"
    ELSE IF disk[p] = Absent THEN "write"
    ELSE IF disk[p].text = Rev(p).text THEN "unchanged"
    ELSE IF p \in Mergeable THEN "merge"
    ELSE IF LocalNewer(disk[p], Rev(p)) THEN "skip" ELSE "write"

(* What the decision tree does with p, from one look at the local file.     *)
Doing(p) ==
    IF disk[p] = Link THEN "skip"
    ELSE IF disk[p] = Absent THEN "write"
    ELSE IF disk[p].text = Rev(p).text THEN "unchanged"
    ELSE IF p \in Mergeable THEN "merge"
    ELSE IF LocalNewer(disk[p], Rev(p)) THEN "skip"
    ELSE IF mode = "prompt" THEN "ask" ELSE "conflict"

Leaves(p) ==
    /\ Arrived(p) /\ Doing(p) \in {"skip", "unchanged"}
    /\ Passes(p)
    /\ acted' = (acted \/ Doing(p) = "skip")
    /\ UNCHANGED <<lacking, budgetVars>>

Looks(p) ==
    /\ Arrived(p) /\ Doing(p) \notin {"skip", "unchanged"}
    /\ pc' = Doing(p)
    /\ at' = [path |-> p, local |-> disk[p], stale |-> {}]
    /\ UNCHANGED <<fileVars, storeVars, setupVars, peer, queue, acted, lacking,
                   pending, budgetVars, noteVars>>

(* The file at hand is done, with an outcome that is a canonical write or a *)
(* conflict left open: a recorded keep-local decision is void.              *)
Goes == pc' = "apply" /\ queue' = queue \ {at.path} /\ at' = Nowhere

VoidsNothing(p) ==                                              \* mutant
    /\ UNCHANGED pending
    /\ kept' = {k \in kept : k[1] # p}
    /\ reopened' = reopened \cup {p}

Voids(p) ==
    /\ pending' = [pending EXCEPT ![p] = NotKept]
    /\ kept' = {k \in kept : k[1] # p}
    /\ reopened' = reopened \cup {p}

Puts(text, mt) ==
    /\ disk' = [disk EXCEPT ![at.path] = [text |-> text, mt |-> mt]]
    /\ Voids(at.path)
    /\ acted' = TRUE /\ Goes
    /\ UNCHANGED <<copies, storeVars, setupVars, peer, lacking, budgetVars, saved, leftOpen>>

Write ==
    /\ pc = "write"
    /\ Puts(Rev(at.path).text, Restored(Rev(at.path).mt))
    /\ UNCHANGED mine

Union(l, r) == l.text \cup r.text

(* The line union of the local file and the peer's.  The file is in the     *)
(* normal form a merge leaves, so a union that adds nothing changes nothing. *)
Merge ==
    /\ pc = "merge"
    /\ LET new == Union(at.local, Rev(at.path))
       IN IF new = at.local.text
          THEN /\ Goes
               /\ UNCHANGED <<fileVars, storeVars, setupVars, peer, acted, lacking,
                              pending, budgetVars, noteVars>>
          ELSE Puts(new, Now) /\ UNCHANGED mine

(* The user answers the prompt about the local file as it was shown.        *)
Latest(p, mt) == [pending EXCEPT ![p] = mt]                     \* mutant
Highest(p, mt) == [pending EXCEPT ![p] = Upper(@, mt)]

KeepLocal ==
    /\ pc = "ask"
    /\ pending' = Highest(at.path, Rev(at.path).mt)
    /\ kept' = kept \cup {<<at.path, Rev(at.path).mt>>}
    /\ reopened' = reopened \ {at.path}
    /\ acted' = TRUE /\ Goes
    /\ UNCHANGED <<fileVars, storeVars, setupVars, peer, lacking, budgetVars,
                   mine, saved, leftOpen>>

Answered(text) ==
    mine' = IF disk[at.path] = at.local THEN [mine EXCEPT ![at.path] = text] ELSE mine

KeepRemote ==
    /\ pc = "ask"
    /\ Puts(Rev(at.path).text, Restored(Rev(at.path).mt))
    /\ Answered(Rev(at.path).text)

KeepMerged ==
    /\ pc = "ask"
    /\ Puts(Union(at.local, Rev(at.path)), Now)
    /\ Answered(Union(at.local, Rev(at.path)))

KeepBoth ==
    /\ pc = "ask" /\ pc' = "conflict"
    /\ UNCHANGED <<fileVars, storeVars, setupVars, walkVars, pending, budgetVars, noteVars>>

Abort ==
    /\ pc = "ask" /\ Over /\ kept' = {}
    /\ UNCHANGED <<fileVars, storeVars, budgetVars, mine, saved>>

(* Mutant: outdated copies removed before the new one is written.           *)
SaveLast ==
    LET p == at.path
        new == [from |-> peer, text |-> Rev(p).text]
    IN /\ pc = "conflict"
       /\ Voids(p)
       /\ saved' = saved \cup {<<p, peer>>} /\ leftOpen' = leftOpen \cup {p}
       /\ acted' = TRUE
       /\ IF new \in copies[p] \/ From(peer, p) = {}
          THEN Goes /\ copies' = [copies EXCEPT ![p] = @ \cup {new}]
          ELSE /\ copies' = [copies EXCEPT ![p] = @ \ From(peer, p)]
               /\ UNCHANGED <<at, pc, queue>>
       /\ UNCHANGED <<disk, storeVars, setupVars, peer, lacking, budgetVars, mine>>

(* The peer's text goes to a conflict copy, unless one of its copies already *)
(* holds it; only then are the peer's outdated copies removed.              *)
Save ==
    LET p == at.path
        new == [from |-> peer, text |-> Rev(p).text]
    IN /\ pc = "conflict"
       /\ Voids(p)
       /\ saved' = saved \cup {<<p, peer>>} /\ leftOpen' = leftOpen \cup {p}
       /\ acted' = TRUE
       /\ IF new \in copies[p]
          THEN Goes /\ UNCHANGED copies
          ELSE /\ copies' = [copies EXCEPT ![p] = @ \cup {new}]
               /\ at' = [at EXCEPT !.stale = From(peer, p)]
               /\ pc' = "stale" /\ UNCHANGED queue
       /\ UNCHANGED <<disk, storeVars, setupVars, peer, lacking, budgetVars, mine>>

(* A copy that cannot be unlinked stays.                                    *)
Reap ==
    /\ pc = "stale"
    /\ \E S \in SUBSET at.stale :
        /\ S = at.stale \/ "fail" \in Menu
        /\ copies' = [copies EXCEPT ![at.path] = @ \ S]
    /\ Goes
    /\ UNCHANGED <<disk, storeVars, setupVars, peer, acted, lacking, pending,
                   budgetVars, noteVars>>

(* After the last file of a peer: with something done, nothing failed and   *)
(* nothing waiting, the second versions of its manifest are deleted.        *)
ServedAnyway == acted                                           \* mutant
Served == acted /\ ~lacking

EndPeer ==
    /\ pc = "apply" /\ queue = {}
    /\ spare' = IF Served THEN [spare EXCEPT ![peer] = NoManifest] ELSE spare
    /\ pc' = "peer" /\ peer' = peer + 1
    /\ acted' = FALSE /\ lacking' = FALSE
    /\ UNCHANGED <<fileVars, main, damaged, blobs, setupVars, queue, at, pending,
                   budgetVars, noteVars>>

BumpPast(mt) == Lower(Upper(Now, mt + 1), Now + Skew)

(* All peers walked: the keep-local decisions that stand become mtimes.     *)
Drain ==
    /\ pc = "peer" /\ peer \notin Peers
    /\ disk' = [p \in Paths |->
                   IF pending[p] = NotKept \/ disk[p] \in {Absent, Link} THEN disk[p]
                   ELSE [disk[p] EXCEPT !.mt = BumpPast(pending[p])]]
    /\ Over
    /\ UNCHANGED <<copies, storeVars, budgetVars, mine, saved, kept>>

Crash ==
    /\ pc # "idle" /\ "crash" \in Menu /\ faults < MaxFaults
    /\ Over /\ kept' = {} /\ faults' = faults + 1
    /\ UNCHANGED <<fileVars, storeVars, edits, pubs, mine, saved>>

-----------------------------------------------------------------------------
(* The user, the agents and the device's own push.  Edits keep out of the   *)
(* instants between a look at a file and its replacement, unless Menu says. *)
Editable(p) ==
    /\ edits < MaxEdits
    /\ pc = "idle" \/ ("midrun" \in Menu /\ mode # "fail")
    /\ at.path = p => pc \notin {"write", "merge"} /\ (pc = "ask" => "promptEdit" \in Menu)

Edits(p, f, text) ==
    /\ Editable(p)
    /\ disk[p] # f
    /\ disk' = [disk EXCEPT ![p] = f]
    /\ mine' = [mine EXCEPT ![p] = text]
    /\ kept' = {k \in kept : k[1] # p}
    /\ edits' = edits + 1
    /\ UNCHANGED <<copies, storeVars, runVars, pubs, faults, saved, leftOpen, reopened>>

UserWrites(p, text, mt) == Edits(p, [text |-> text, mt |-> mt], text)
UserRemoves(p) == Edits(p, Absent, Absent)
UserLinks(p) == "link" \in Menu /\ Edits(p, Link, Link)

UserReviews(p, c) ==
    /\ edits < MaxEdits /\ pc = "idle" /\ c \in copies[p]
    /\ copies' = [copies EXCEPT ![p] = @ \ {c}]
    /\ saved' = saved \ {<<p, c.from>>}
    /\ edits' = edits + 1
    /\ UNCHANGED <<disk, storeVars, runVars, pubs, faults, mine, kept, leftOpen, reopened>>

(* What a push (which excludes a pull) leaves: entries for the files that    *)
(* are here, tombstones for what was listed and is gone.                    *)
OwnPush ==
    LET here == {p \in Paths : disk[p] \notin {Absent, Link}}
        known == {p \in Paths : main[0].files[p] # Absent} \cup main[0].tombs
        new == [files |-> [p \in Paths |-> IF p \in here THEN disk[p] ELSE Absent],
                tombs |-> known \ here, ts |-> main[0].ts + 1]
    IN /\ pc = "idle" /\ "push" \in Menu
       /\ new.files # main[0].files \/ new.tombs # main[0].tombs \/ 0 \in damaged
       /\ main' = [main EXCEPT ![0] = new]
       /\ damaged' = damaged \ {0}
       /\ UNCHANGED <<fileVars, spare, blobs, runVars, budgetVars, noteVars>>

-----------------------------------------------------------------------------
(* The peers and the sync tool.                                             *)
TextsOf(m) == {m.files[p].text : p \in {x \in Paths : m.files[x] # Absent}}
Referenced(q) == TextsOf(main[q]) \cup (IF spare[q] = NoManifest THEN {} ELSE TextsOf(spare[q]))
NextTs(q) == 1 + (IF spare[q] = NoManifest THEN main[q].ts ELSE Upper(main[q].ts, spare[q].ts))

(* A peer publishes files f and tombstones T; the sync tool replaces its     *)
(* manifest here or, now and then, keeps both versions.                     *)
Publish(q, f, T) ==
    LET new == [files |-> f, tombs |-> T, ts |-> NextTs(q)]
        two == "copy" \in Menu /\ spare[q] = NoManifest
    IN /\ pubs < MaxPubs
       /\ pc = "idle" \/ "midrun" \in Menu
       /\ \A p \in T : f[p] = Absent /\ (main[q].files[p] # Absent \/ p \in main[q].tombs)
       /\ f # main[q].files \/ T # main[q].tombs
       /\ \/ main' = [main EXCEPT ![q] = new] /\ UNCHANGED spare
          \/ two /\ main' = [main EXCEPT ![q] = new] /\ spare' = [spare EXCEPT ![q] = main[q]]
          \/ two /\ spare' = [spare EXCEPT ![q] = new] /\ UNCHANGED main
       /\ damaged' = damaged \ {q}
       /\ blobs' = IF "late" \in Menu THEN blobs
                   ELSE [blobs EXCEPT ![q] = @ \cup TextsOf(new)]
       /\ pubs' = pubs + 1
       /\ UNCHANGED <<fileVars, runVars, edits, faults, noteVars>>

BlobArrives(q, t) ==
    /\ t \in Referenced(q) \ blobs[q]
    /\ blobs' = [blobs EXCEPT ![q] = @ \cup {t}]
    /\ UNCHANGED <<fileVars, main, spare, damaged, runVars, budgetVars, noteVars>>

BlobGoes(q, t) ==
    /\ "gc" \in Menu /\ t \in blobs[q] \ Referenced(q)
    /\ blobs' = [blobs EXCEPT ![q] = @ \ {t}]
    /\ UNCHANGED <<fileVars, main, spare, damaged, runVars, budgetVars, noteVars>>

Damage(d) ==
    /\ "damage" \in Menu /\ faults < MaxFaults /\ d \notin damaged
    /\ pc = "idle" \/ "midrun" \in Menu
    /\ damaged' = damaged \cup {d}
    /\ faults' = faults + 1
    /\ UNCHANGED <<fileVars, main, spare, blobs, runVars, edits, pubs, noteVars>>

Heal(d) ==
    /\ d \in damaged
    /\ damaged' = damaged \ {d}
    /\ UNCHANGED <<fileVars, main, spare, blobs, runVars, budgetVars, noteVars>>

-----------------------------------------------------------------------------
Empty == [files |-> [p \in Paths |-> Absent], tombs |-> {}, ts |-> 0]

Init ==
    /\ disk = [p \in Paths |-> Absent] /\ copies = [p \in Paths |-> {}]
    /\ main = [d \in Devices |-> Empty] /\ spare = NoOne
    /\ damaged = {} /\ blobs = [q \in Peers |-> {}]
    /\ pc = "idle" /\ mode = "none" /\ cache = NoOne /\ tombs = {}
    /\ peer = 0 /\ queue = {} /\ at = Nowhere
    /\ acted = FALSE /\ lacking = FALSE /\ pending = NonePending
    /\ edits = 0 /\ pubs = 0 /\ faults = 0
    /\ mine = [p \in Paths |-> Absent]
    /\ saved = {} /\ kept = {} /\ leftOpen = {} /\ reopened = {}

Prompted == KeepLocal \/ KeepRemote \/ KeepMerged \/ KeepBoth \/ Abort
Step ==
    \/ Preflight \/ NextPeer \/ Write \/ Merge \/ Save \/ Reap \/ EndPeer \/ Drain
    \/ \E p \in Paths : Waits(p) \/ Leaves(p) \/ Looks(p)
User ==
    \/ \E p \in Paths : UserRemoves(p) \/ UserLinks(p)
    \/ \E p \in Paths, t \in Texts, mt \in Mtimes : UserWrites(p, t, mt)
    \/ \E p \in Paths : \E c \in copies[p] : UserReviews(p, c)
    \/ OwnPush
Storage ==
    \/ \E q \in Peers, f \in [Paths -> Revs \cup {Absent}], T \in SUBSET Paths : Publish(q, f, T)
    \/ \E q \in Peers, t \in Texts : BlobArrives(q, t) \/ BlobGoes(q, t)
    \/ \E d \in Devices : Damage(d) \/ Heal(d)

Next ==
    \/ \E m \in Modes : Begin(m)
    \/ Step \/ Prompted \/ Crash
    \/ \E p \in Paths : Fails(p)
    \/ User \/ Storage

Spec == Init /\ [][Next]_vars

(* Pull is run again and again, a run goes on, and the sync tool delivers.  *)
Fairness ==
    /\ WF_vars(Begin("keep-both")) /\ WF_vars(Step)
    /\ \A q \in Peers, t \in Texts : WF_vars(BlobArrives(q, t))
    /\ \A d \in Devices : WF_vars(Heal(d))
LiveSpec == Spec /\ Fairness

-----------------------------------------------------------------------------
Pulls == pc' # pc       \* a step of the run: everyone else leaves pc alone

(* Type correctness.                                                        *)
FilesOK == /\ disk \in [Paths -> Locals \cup {Absent, Link}]
           /\ copies \in [Paths -> SUBSET Copies]
StoreOK == /\ main \in [Devices -> Manifests]
           /\ spare \in [Devices -> Manifests \cup {NoManifest}]
           /\ damaged \subseteq Devices
           /\ blobs \in [Peers -> SUBSET Texts]
SetupOK == /\ pc \in {"idle", "plan", "peer", "apply", "write", "merge", "ask",
                      "conflict", "stale"}
           /\ mode \in {"none", "keep-both", "prompt", "fail"}
           /\ cache \in [Devices -> Manifests \cup {NoManifest}]
           /\ tombs \subseteq Paths
WalkOK == /\ peer \in 0 .. NPeers + 1 /\ queue \subseteq Paths
          /\ at \in [path : Paths \cup {NoFile}, local : Locals \cup {Absent, Link},
                     stale : SUBSET Copies]
          /\ acted \in BOOLEAN /\ lacking \in BOOLEAN
          /\ pending \in [Paths -> {NotKept} \cup Nat]
NotesOK == /\ edits \in Nat /\ pubs \in Nat /\ faults \in Nat
           /\ mine \in [Paths -> Texts \cup {Absent, Link}]
           /\ saved \subseteq Paths \X Peers
           /\ kept \subseteq Paths \X Nat
           /\ leftOpen \subseteq Paths /\ reopened \subseteq Paths
TypeOK == FilesOK /\ StoreOK /\ SetupOK /\ WalkOK /\ NotesOK

(* What the user last put at a path is still there: alone, or inside a       *)
(* merge of a mergeable file.  Only a prompt's answer about that very        *)
(* content replaces it (_apply_incoming_file: local is never destroyed).     *)
LocalKept ==
    \A p \in Paths :
        /\ mine[p] = Link => disk[p] = Link
        /\ mine[p] \in Texts =>
            /\ disk[p] \notin {Absent, Link}
            /\ IF p \in Mergeable THEN mine[p] \subseteq disk[p].text
               ELSE disk[p].text = mine[p]

(* A path this Mac's manifest records as deleted comes back from no peer,    *)
(* except in a run that could not read that manifest.                       *)
DeletedStaysDeleted ==
    [][\A p \in Paths :
         Pulls /\ p \in main[0].tombs /\ disk[p] = Absent /\ disk'[p] # Absent
            => cache[0] = NoManifest]_vars

(* While the user has not reviewed a peer's conflict on a path, some         *)
(* conflict copy of that peer exists for it, at every step of every run and  *)
(* wherever a run dies (_apply_conflict publishes before it cleans up).      *)
UnreviewedConflictKept ==
    \A p \in Paths, q \in Peers : <<p, q>> \in saved => From(q, p) # {}

(* A fail-mode run that passed its preflight meets no conflict, as long as   *)
(* nobody edits meanwhile.                                                  *)
NoSurpriseConflict == [][mode = "fail" => pc' \notin {"ask", "conflict"}]_vars

(* After a run, a file kept local against some peers is newer than every     *)
(* revision it was kept against, up to the clamp: pulling the same again     *)
(* does not ask again.                                                      *)
KeptIsSettled ==
    pc = "idle" => \A k \in kept :
        disk[k[1]] \notin {Absent, Link} /\ k[2] < Now + Skew => disk[k[1]].mt > k[2]

(* No bump is due for a file that a later peer's outcome rewrote or left     *)
(* open: the drain would stamp that peer's content as this Mac's own.        *)
LaterPeerVoidsBump == \A p \in reopened : pending[p] = NotKept

(* No bump is due for a file on which this run left a conflict open, whether *)
(* before or after the keep-local (docs/invariants/conflicts.md, "The        *)
(* eligibility invariant": any conflicted-sidecar outcome voids the bump).   *)
BumpEligible == \A p \in leftOpen : pending[p] = NotKept

(* The clean-up after a peer never deletes the only version of its manifest  *)
(* that lists a file whose blob has not arrived.                            *)
UndeliveredKept ==
    [][\A q \in Peers :
         Pulls /\ spare[q] # NoManifest /\ spare'[q] = NoManifest =>
            \A p \in Paths \ tombs :
                LET r == Fetch(q).files[p] IN
                (r # Absent /\ spare[q].files[p] = r)
                    => r.text \in blobs[q]
                       \/ (disk[p] \notin {Absent, Link} /\ disk[p].text = r.text)]_vars

(* Every entry a peer's readable manifest lists is eventually accounted for: *)
(* its text is here, merged, in a conflict copy, older than the local file,  *)
(* deleted by somebody, or behind a local link.  A blob that arrives late is *)
(* not forgotten.                                                           *)
AccountedFor(q, p) ==
    LET m == Fetch(q) IN
    \/ m = NoManifest
    \/ m.files[p] = Absent
    \/ p \in CollectTombstones([d \in Devices |-> Fetch(d)])
    \/ disk[p] = Link
    \/ /\ disk[p] # Absent
       /\ \/ disk[p].text = m.files[p].text
          \/ p \in Mergeable /\ m.files[p].text \subseteq disk[p].text
          \/ p \notin Mergeable /\ LocalNewer(disk[p], m.files[p])
          \/ [from |-> q, text |-> m.files[p].text] \in copies[p]
EverythingAccounted == <>[](\A q \in Peers, p \in Paths : AccountedFor(q, p))
=============================================================================
