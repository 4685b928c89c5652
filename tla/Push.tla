-------------------------------- MODULE Push --------------------------------
(***************************************************************************)
(* One device's side of mind-meld's storage: `mm push` and `mm gc`, which   *)
(* exclude each other through the process lock, run against                 *)
(*   - a user (and the agents) who go on editing the synced files,          *)
(*   - a sync tool (iCloud, Syncthing, ...) that may damage, withdraw or    *)
(*     duplicate this device's manifest in the storage root,                *)
(*   - crashes, which release the lock at any step and lose only memory.    *)
(*                                                                         *)
(* A path is a (source, relative path) pair.  A revision is what the        *)
(* program can tell apart about one version of a file: its digest and its   *)
(* mtime.  A step that looks at several paths one after the other is one    *)
(* action: the looks concern one path each and commute.                     *)
(***************************************************************************)
EXTENDS Integers, FiniteSets

CONSTANTS
    Paths,          \* every path the walkers may meet
    Sources,        \* names of sync sources
    SourceOf,       \* the source each path belongs to
    Internal,       \* mm-internal sources, rescanned after the events tail
    Shas,           \* digests
    Mtimes,         \* modification times a write may leave
    TTL,            \* life of a tombstone, in clock ticks
    PeerDeleted,    \* paths some peer's manifest carries an active tombstone of
    Absent, Big, Link,  \* no file; one above max_file_size; a symbolic link
    NoManifest,     \* no manifest (missing, unusable, or not fetched)
    Menu,           \* the environment steps an instance allows
    MaxEdits,       \* bound on the user's steps
    MaxFaults,      \* bound on crashes and sync-tool steps
    MaxAccepted,    \* bound on accepted manifests
    MaxClock        \* bound on the clock

Revs == [sha : Shas, mt : Mtimes]
Times == 1 .. MaxClock

ASSUME PathsAssumption == SourceOf \in [Paths -> Sources] /\ Internal \subseteq Sources
ASSUME MarksAssumption ==
    /\ Absent \notin Revs /\ Big \notin Revs /\ Link \notin Revs
    /\ Absent # Big /\ Absent # Link /\ Big # Link
ASSUME BoundsAssumption ==
    /\ Mtimes \subseteq Nat /\ TTL \in Nat /\ PeerDeleted \subseteq Paths
    /\ MaxClock \in Nat \ {0} /\ MaxEdits \in Nat /\ MaxFaults \in Nat
    /\ MaxAccepted \in Nat

Files == [Paths -> Revs \cup {Absent}]
Tombs == [Paths -> {0} \cup Times]      \* deleted_at; 0 is no tombstone
Manifests == [files : Files, tombs : Tombs, srcs : SUBSET Sources, ts : Nat]
ASSUME NoManifestAssumption == NoManifest \notin Manifests

VARIABLES
    \* the user's world
    disk, busy, nested, mounted, selected, excluded,
    \* the storage root: last accepted manifest, state of its file, conflict
    \* copies beside it, a copy the sync tool still holds, this device's blobs
    manifest, canonical, copies, transit, blobs,
    \* ~/.mind-meld: the recovery sidecar
    sidecar,
    \* one run of push or gc
    pc, saw, avail, prior, remote, recovering, reselected,
    rescan, listed, local, held, candidates, frozen, checkouts,
    tombs, todo, deferred, gone, uploadHeld, refs,
    \* clock, budgets and history
    clock, edits, faults, goneSince, backSince, away

diskVars == <<disk, busy, nested, mounted>>
configVars == <<selected, excluded>>
storeVars == <<manifest, canonical, copies, transit, blobs>>
fetchVars == <<saw, avail, prior, remote, recovering, reselected>>
scanVars == <<rescan, listed, local, held, candidates, frozen, checkouts>>
uploadVars == <<tombs, todo, deferred, gone, uploadHeld, refs>>
runVars == <<pc, fetchVars, scanVars, uploadVars>>
historyVars == <<clock, edits, faults, goneSince, backSince, away>>
worldVars == <<diskVars, configVars, storeVars, sidecar, historyVars>>
vars == <<worldVars, runVars>>

NoFiles == [p \in Paths |-> Absent]
NoTombs == [p \in Paths |-> 0]
Cleared(S, f) == [p \in Paths |-> IF p \in S THEN Absent ELSE f[p]]
In(S) == {p \in Paths : SourceOf[p] \in S}
Present(f) == {p \in Paths : f[p] # Absent}
ShasOf(f) == {f[p].sha : p \in Present(f)}

(* What a stat of p sees: nothing below a root that is not there. *)
Look(p) == IF SourceOf[p] \in mounted THEN disk[p] ELSE Absent

Active(t) == t # 0 /\ t + TTL > clock

-----------------------------------------------------------------------------
(* Merging variants of one device's manifest: files are a union, the newest *)
(* variant that has the path wins; of two tombstones the later one does.    *)
Oldest(R) == CHOOSE m \in R : \A n \in R : m.ts <= n.ts   \* mutant
Newest(R) == CHOOSE m \in R : \A n \in R : n.ts <= m.ts
Latest(T) == CHOOSE t \in T : \A u \in T : u <= t

MergeManifests(R) ==
    [files |-> [p \in Paths |->
                  LET having == {m \in R : m.files[p] # Absent}
                  IN IF having = {} THEN Absent ELSE Newest(having).files[p]],
     tombs |-> [p \in Paths |-> Latest({m.tombs[p] : m \in R})],
     srcs  |-> UNION {m.srcs : m \in R},
     ts    |-> Newest(R).ts]

(* Reading this device's manifest, when the existence probe answered seen.  *)
FetchManifest(seen) ==
    LET main == IF seen /\ canonical = "ok" THEN {manifest} ELSE {}
        readable == main \cup copies
    IN [status |-> IF readable # {} THEN "ok"
                   ELSE IF seen /\ canonical = "corrupt" THEN "corrupt"
                   ELSE "missing",
        manifest |-> IF readable = {} THEN NoManifest ELSE MergeManifests(readable),
        copiesOnly |-> readable # {} /\ main = {},
        vanished |-> seen /\ canonical = "absent"]

PeerTombs == [p \in Paths |-> IF p \in PeerDeleted /\ Active(1) THEN 1 ELSE 0]

(* Where deletion records come from when the manifest cannot be read.       *)
Fallback ==
    IF sidecar # NoManifest THEN sidecar
    ELSE IF PeerTombs # NoTombs
         THEN [files |-> NoFiles, tombs |-> PeerTombs, srcs |-> {}, ts |-> 0]
         ELSE NoManifest

(* Mutants: a vanished manifest read as a first push; conflict copies taken *)
(* without the sidecar's later deletions.                                   *)
RecoverPriorMissing(f) ==
    IF f.status = "ok" THEN f.manifest
    ELSE IF f.status = "missing" THEN NoManifest ELSE Fallback
RecoverPriorCopies(f) ==
    IF f.status = "ok" THEN f.manifest
    ELSE IF f.status = "missing" /\ ~f.vanished THEN NoManifest ELSE Fallback

RecoverPrior(f) ==
    IF f.status = "ok"
    THEN IF f.copiesOnly /\ sidecar # NoManifest
         THEN MergeManifests({f.manifest, sidecar}) ELSE f.manifest
    ELSE IF f.status = "missing" /\ ~f.vanished THEN NoManifest ELSE Fallback

MustRefuse(f) == /\ f.status # "ok"
                 /\ f.status = "corrupt" \/ f.vanished
                 /\ Fallback = NoManifest

(* Mutant: the expiry is recorded instead of the deletion time.             *)
GenerateExpiries(files, before) ==
    IF before = NoManifest THEN NoTombs
    ELSE [p \in Paths |->
            IF files[p] # Absent THEN 0
            ELSE IF Active(before.tombs[p]) THEN before.tombs[p]
            ELSE IF before.files[p] # Absent THEN clock + TTL
            ELSE 0]

(* What a manifest's tombstones become against the entries now published.   *)
GenerateTombstones(files, before) ==
    IF before = NoManifest THEN NoTombs
    ELSE [p \in Paths |->
            IF files[p] # Absent THEN 0
            ELSE IF Active(before.tombs[p]) THEN before.tombs[p]
            ELSE IF before.files[p] # Absent THEN clock
            ELSE 0]

\* Mutant: a recovered prior drives the diff, not the manifest that was read.
PriorFiles == IF prior = NoManifest THEN NoFiles ELSE prior.files
RemoteFiles == IF remote = NoManifest THEN NoFiles ELSE remote.files
RemoteTombs == IF remote = NoManifest THEN NoTombs ELSE remote.tombs

(* The differences one push acts on, over the sources it walked.            *)
Changed(files) == {p \in Present(files) :
    RemoteFiles[p] = Absent \/ files[p].sha # RemoteFiles[p].sha}
Removed(files) == {p \in In(avail) \cap Present(RemoteFiles) : files[p] = Absent}
NeverTouched(files) == {}     \* mutant: no mtime-only republish
Touched(files) == {p \in Present(files) \cap Present(RemoteFiles) :
    files[p].sha = RemoteFiles[p].sha /\ files[p].mt > RemoteFiles[p].mt}

NothingToPush(files) ==
    /\ Changed(files) = {} /\ Removed(files) = {} /\ Touched(files) = {}
    /\ ~recovering /\ ~reselected
-----------------------------------------------------------------------------
(* A run that ends, refuses or dies forgets everything it held in memory.   *)
EndRun ==
    /\ pc' = "idle" /\ saw' = FALSE /\ avail' = {}
    /\ prior' = NoManifest /\ remote' = NoManifest
    /\ recovering' = FALSE /\ reselected' = FALSE
    /\ rescan' = FALSE /\ listed' = {} /\ local' = NoFiles /\ held' = {}
    /\ candidates' = {} /\ frozen' = {} /\ checkouts' = {}
    /\ tombs' = NoTombs /\ todo' = {} /\ deferred' = {} /\ gone' = {}
    /\ uploadHeld' = FALSE /\ refs' = {}

Stop == EndRun /\ UNCHANGED worldVars

(* mm push: take the lock, resolve the sources, probe for our manifest.     *)
StartPush ==
    /\ pc = "idle"
    /\ manifest # NoManifest => manifest.ts < MaxAccepted
    /\ pc' = "fetch"
    /\ avail' = selected \cap mounted
    /\ saw' = (canonical # "absent")
    /\ UNCHANGED <<worldVars, prior, remote, recovering, reselected, scanVars, uploadVars>>

(* Read it, recover a prior when it cannot be read, and refuse a selected   *)
(* source that was published and whose root is not there.                   *)
FetchOwn ==
    /\ pc = "fetch"
    /\ LET f == FetchManifest(saw)
           p0 == RecoverPrior(f)
           advertised == IF p0 = NoManifest THEN {} ELSE p0.srcs
           lost == {s \in selected \ avail :
                      p0 # NoManifest /\ Present(p0.files) \cap In({s}) # {}}
       IN IF MustRefuse(f) \/ lost # {} \/ avail = {} THEN Stop
          ELSE /\ pc' = "list"
               /\ prior' = p0
               /\ remote' = f.manifest
               /\ recovering' = (f.status = "corrupt" \/ f.copiesOnly \/ f.vanished)
               /\ reselected' = (avail # advertised)
               /\ UNCHANGED <<worldVars, saw, avail, scanVars, uploadVars>>

(* The first scan walks every source, the rescan mm's own.                  *)
Scope == IF rescan THEN In(avail \cap Internal) ELSE In(avail)

(* The strict walk enumerates the sources: symlinks, excluded paths and     *)
(* anything below a nested checkout are left out.                           *)
ListFiles ==
    /\ pc = "list"
    /\ pc' = "read"
    /\ listed' = {p \in Scope \ (nested \cup excluded) : Look(p) \notin {Absent, Link}}
    /\ checkouts' = checkouts \cup
          {p \in Scope \cap nested : SourceOf[p] \in mounted}
    /\ UNCHANGED <<worldVars, fetchVars, rescan, local, held, candidates, frozen, uploadVars>>

(* Entries a rescan leaves as they were: frozen ones, and held ones that a  *)
(* checkout found by the rescan now covers.                                 *)
Carried(read) ==
    {p \in Scope \cap (frozen \cup (held \cap checkouts)) : p \notin read /\ local[p] # Absent}

(* ... and then reads each listed file once, twice if it moved.  A file     *)
(* still moving (busy), or gone since the listing, is held, or refuses the  *)
(* push when there is no accepted prior to hold it at; the walk tells some  *)
(* of the gone files only as candidates.  An oversize file is left out.     *)
ReadFiles ==
    /\ pc = "read"
    /\ \E moving \in SUBSET {p \in listed \cap busy : Look(p) \in Revs} :
       \E candidate \in SUBSET {p \in listed : Look(p) = Absent} :
         LET vanished == {p \in listed : Look(p) = Absent}
             read == {p \in listed \ moving : Look(p) \in Revs}
             again == Carried(read)
         IN IF recovering /\ moving \cup vanished # {} THEN Stop
            ELSE /\ pc' = "filter"
                 /\ local' = [p \in Paths |->
                                IF p \in read THEN disk[p]
                                ELSE IF p \in Scope \ again THEN Absent
                                ELSE local[p]]
                 /\ frozen' = (frozen \ Scope) \cup again
                 /\ held' = (held \ Scope) \cup moving \cup (vanished \ candidate)
                 /\ candidates' = candidate
                 /\ listed' = {}
                 /\ UNCHANGED <<worldVars, fetchVars, rescan, checkouts, uploadVars>>

(* The paths this device publishes, and those whose tombstones it gives up. *)
(* Mutant: an unselected source keeps its files.                            *)
EligibleAnySource == Paths \ excluded
Eligible == In(selected) \ excluded
Forgotten(linked) == linked \cup excluded

(* Symlinks in a walked source, and published entries that a checkout now   *)
(* covers: these stay published as they are.                                *)
Linked == {p \in In(avail) \ checkouts : Look(p) = Link}
Stays == {p \in checkouts \cap Eligible :
            /\ prior.files[p] # Absent
            /\ local[p] = Absent
            /\ prior.tombs[p] = 0
            /\ recovering => prior.files[p].sha \in blobs}

(* Consumer filters on the prior, once, after the first scan: unselected    *)
(* sources lose their files, excluded and symlinked paths lose everything,  *)
(* entries below a checkout are frozen or dropped.                          *)
FilterPrior ==
    /\ pc = "filter"
    /\ pc' = "inject"
    /\ IF prior = NoManifest \/ rescan THEN UNCHANGED <<prior, local, frozen>>
       ELSE LET dropped == (Paths \ Eligible) \cup Linked \cup (checkouts \ Stays)
            IN /\ frozen' = Stays
               /\ local' = [p \in Paths |-> IF p \in Stays THEN prior.files[p] ELSE local[p]]
               /\ prior' = [prior EXCEPT
                     !.files = Cleared(dropped, prior.files),
                     !.tombs = [p \in Paths |-> IF p \in Forgotten(Linked)
                                                THEN 0 ELSE prior.tombs[p]]]
    /\ UNCHANGED <<worldVars, saw, avail, remote, recovering, reselected, rescan, listed,
                   held, candidates, checkouts, uploadVars>>

(* Held files keep their entry of the prior; a candidate that is there      *)
(* again refuses the push.                                                  *)
InjectHeld ==
    /\ pc = "inject"
    /\ LET waiting == {p \in (held \cap Scope) \cup candidates :
                         /\ local[p] = Absent /\ p \notin frozen
                         /\ prior # NoManifest => prior.tombs[p] = 0}
       IN IF \E p \in candidates : Look(p) # Absent THEN Stop
          ELSE /\ pc' = "prove"
               /\ held' = (held \ Scope) \cup waiting
               /\ local' = [p \in Paths |->
                              IF p \in waiting /\ prior # NoManifest
                              THEN prior.files[p] ELSE local[p]]
               /\ candidates' = {}
               /\ UNCHANGED <<worldVars, fetchVars, rescan, listed, frozen, checkouts,
                              uploadVars>>

(* Every root with a prior file must be there ...                           *)
ProveRoots ==
    /\ pc = "prove"
    /\ IF /\ prior # NoManifest
          /\ \E s \in avail \ mounted : Present(prior.files) \cap In({s}) # {}
       THEN Stop
       ELSE /\ pc' = "decide"
            /\ UNCHANGED <<worldVars, fetchVars, scanVars, uploadVars>>

Unchecked(p) == FALSE   \* mutant: the omission is taken for a deletion
StillThere(p) == Look(p) \notin {Absent, Link}

(* ... and every prior file the scan left out must be gone, or a symlink,   *)
(* before the tombstones are written.  After the first scan a push with     *)
(* nothing to say ends here; otherwise mm's own sources are rescanned.      *)
Decide ==
    /\ pc = "decide"
    /\ LET omitted == {p \in In(avail) : /\ prior # NoManifest /\ prior.files[p] # Absent
                                         /\ local[p] = Absent}
           last == rescan \/ avail \cap Internal = {}
       IN IF \E p \in omitted : StillThere(p) THEN Stop
          ELSE IF ~rescan /\ NothingToPush(local) THEN Stop
          ELSE /\ tombs' = GenerateTombstones(local, prior)
               /\ pc' = IF last THEN "upload" ELSE "list"
               /\ rescan' = ~last
               /\ todo' = IF last THEN Changed(local) \ (frozen \cup held) ELSE {}
               /\ UNCHANGED <<worldVars, fetchVars, listed, local, held, candidates, frozen,
                              checkouts, deferred, gone, uploadHeld, refs>>

(* Upload, one source at a time: a file still at its scanned revision has   *)
(* its blob put, any other is deferred behind the rest of its source.       *)
UploadOrDefer(p) ==
    /\ pc = "upload" /\ p \in todo
    /\ gone = {} /\ \A q \in deferred : SourceOf[q] = SourceOf[p]
    /\ todo' = todo \ {p}
    /\ \/ /\ Look(p) \in Revs /\ Look(p) = local[p]
          /\ blobs' = blobs \cup {local[p].sha}
          /\ UNCHANGED deferred
       \/ /\ Look(p) # local[p] \/ p \in busy
          /\ Look(p) # Link
          /\ deferred' = deferred \cup {p}
          /\ UNCHANGED blobs
    /\ UNCHANGED <<diskVars, configVars, manifest, canonical, copies, transit, sidecar,
                   historyVars, pc, fetchVars, scanVars, tombs, gone, uploadHeld, refs>>

LastOfSource(p) == /\ p \in deferred
                   /\ \A q \in todo : SourceOf[q] # SourceOf[p]

(* A deferred file is read once more.  Settled, it is published at the      *)
(* revision just read, whose blob is put under its own digest.              *)
UploadSettled(p) ==
    /\ pc = "upload" /\ LastOfSource(p)
    /\ Look(p) \in Revs
    /\ blobs' = blobs \cup {disk[p].sha}
    /\ local' = [local EXCEPT ![p] = disk[p]]
    /\ deferred' = deferred \ {p}
    /\ UNCHANGED <<diskVars, configVars, manifest, canonical, copies, transit, sidecar,
                   historyVars, pc, fetchVars, rescan, listed, held, candidates, frozen,
                   checkouts, tombs, todo, gone, uploadHeld, refs>>

(* The entry of a file held at upload.  Mutant: it is simply left out.      *)
HoldOut(p) == Absent
HoldEntry(p) == IF RemoteTombs[p] = 0 THEN RemoteFiles[p] ELSE Absent

(* Still moving, gone or grown, it goes back to its accepted entry, or out  *)
(* when that was tombstoned or there is none; without a hold it refuses.    *)
UploadHold(p) ==
    /\ pc = "upload" /\ LastOfSource(p)
    /\ p \in busy \/ Look(p) \in {Absent, Big}
    /\ Look(p) # Link
    /\ IF recovering THEN Stop
       ELSE /\ local' = [local EXCEPT ![p] = HoldEntry(p)]
            /\ held' = IF RemoteTombs[p] = 0 THEN held \cup {p} ELSE held
            /\ gone' = IF Look(p) = Absent THEN gone \cup {SourceOf[p]} ELSE gone
            /\ uploadHeld' = TRUE
            /\ deferred' = deferred \ {p}
            /\ UNCHANGED <<worldVars, pc, fetchVars, rescan, listed, candidates, frozen,
                           checkouts, tombs, todo, refs>>

(* A symlink where a regular file was scanned refuses the push.             *)
UploadRefused(p) ==
    /\ pc = "upload"
    /\ p \in todo \/ LastOfSource(p)
    /\ Look(p) = Link
    /\ Stop

(* A file that vanished may mean its whole published root did, which is     *)
(* asked as soon as its source is through and before the next one.          *)
ProveUploaded ==
    /\ pc = "upload" /\ deferred = {} /\ gone # {}
    /\ IF remote # NoManifest /\ (gone \cap remote.srcs) \ mounted # {} THEN Stop
       ELSE /\ gone' = {}
            /\ UNCHANGED <<worldVars, pc, fetchVars, scanVars, tombs, todo, deferred, uploadHeld,
                           refs>>

FinishUpload ==
    /\ pc = "upload" /\ todo = {} /\ deferred = {} /\ gone = {}
    /\ pc' = "publish"
    /\ tombs' = IF uploadHeld THEN GenerateTombstones(local, prior) ELSE tombs
    /\ UNCHANGED <<worldVars, fetchVars, scanVars, todo, deferred, gone, uploadHeld, refs>>

(* The manifest is replaced atomically: the acceptance point.               *)
PutManifest ==
    /\ pc = "publish"
    /\ pc' = "sidecar"
    /\ manifest' = [files |-> local, tombs |-> tombs, srcs |-> avail,
                    ts |-> IF manifest = NoManifest THEN 1 ELSE manifest.ts + 1]
    /\ canonical' = "ok"
    /\ goneSince' = {p \in Paths : disk[p] = Absent \/ (p \in goneSince /\ local[p] = Absent)}
    /\ backSince' = {p \in Paths : disk[p] \in Revs}
    /\ away' = {p \in Paths : disk[p] = Link}
    /\ UNCHANGED <<diskVars, configVars, copies, transit, blobs, sidecar, clock, edits,
                   faults, fetchVars, scanVars, uploadVars>>

(* The sidecar is best effort: a failed write only warns.                   *)
WriteSidecar ==
    /\ pc = "sidecar"
    /\ pc' = "cleanup"
    /\ \/ /\ sidecar' = manifest
          /\ UNCHANGED faults
       \/ /\ "nosidecar" \in Menu /\ faults < MaxFaults
          /\ faults' = faults + 1
          /\ UNCHANGED sidecar
    /\ UNCHANGED <<diskVars, configVars, storeVars, clock, edits, goneSince, backSince, away,
                   fetchVars, scanVars, uploadVars>>

CleanupCopies ==
    /\ pc = "cleanup"
    /\ copies' = {}
    /\ EndRun
    /\ UNCHANGED <<diskVars, configVars, manifest, canonical, transit, blobs, sidecar,
                   historyVars>>
-----------------------------------------------------------------------------
(* mm gc: references come from the manifest and its conflict copies, read   *)
(* twice; only a readable main manifest authorises collecting.              *)
StartGc ==
    /\ pc = "idle" /\ "gc" \in Menu /\ edits < MaxEdits
    /\ pc' = "gc"
    /\ edits' = edits + 1
    /\ UNCHANGED <<diskVars, configVars, storeVars, sidecar, clock, faults, goneSince,
                   backSince, away, fetchVars, scanVars, uploadVars>>

GcFetch(from, to) ==
    /\ pc = from
    /\ LET f == FetchManifest(canonical # "absent")
       IN IF f.status # "ok" \/ f.copiesOnly THEN Stop
          ELSE /\ pc' = to
               /\ refs' = refs \cup ShasOf(f.manifest.files)
               /\ UNCHANGED <<worldVars, fetchVars, scanVars, tombs, todo, deferred, gone,
                              uploadHeld>>

GcReferences == GcFetch("gc", "gc again")
GcRevalidate == GcFetch("gc again", "gc sweep")

GcDelete(s) ==
    /\ pc = "gc sweep" /\ s \in blobs \ refs
    /\ blobs' = blobs \ {s}
    /\ UNCHANGED <<diskVars, configVars, manifest, canonical, copies, transit, sidecar,
                   historyVars, runVars>>

GcDone == pc = "gc sweep" /\ blobs \subseteq refs /\ Stop

-----------------------------------------------------------------------------
(* The user and the agents, at any moment.                                  *)
Edit(kind) == kind \in Menu /\ edits < MaxEdits /\ edits' = edits + 1

Write(p) ==
    /\ Edit("write") /\ SourceOf[p] \in mounted
    /\ \E r \in Revs : r # disk[p] /\ disk' = [disk EXCEPT ![p] = r]
    /\ backSince' = backSince \cup {p}
    /\ UNCHANGED <<busy, nested, mounted, configVars, storeVars, sidecar, clock, faults,
                   goneSince, away, runVars>>

Delete(p) ==
    /\ Edit("delete") /\ SourceOf[p] \in mounted /\ disk[p] # Absent
    /\ disk' = [disk EXCEPT ![p] = Absent]
    /\ busy' = busy \ {p}
    /\ goneSince' = goneSince \cup {p}
    /\ UNCHANGED <<nested, mounted, configVars, storeVars, sidecar, clock, faults, backSince,
                   away, runVars>>

(* The file grows past the cap, or a symlink takes its place; only with     *)
(* "relink" does that happen where mm alone writes, or twice to one path    *)
(* between two accepted manifests.                                          *)
Replace(kind, p, mark) ==
    /\ Edit(kind) /\ SourceOf[p] \in mounted /\ disk[p] \in Revs
    /\ mark = Link => \/ SourceOf[p] \notin Internal /\ p \notin away
                      \/ "relink" \in Menu
    /\ disk' = [disk EXCEPT ![p] = mark]
    /\ busy' = busy \ {p}
    /\ away' = IF mark = Link THEN away \cup {p} ELSE away
    /\ UNCHANGED <<nested, mounted, configVars, storeVars, sidecar, clock, faults, goneSince,
                   backSince, runVars>>

StartWriting(p) ==
    /\ Edit("busy") /\ p \notin busy /\ disk[p] \in Revs
    /\ busy' = busy \cup {p}
    /\ UNCHANGED <<disk, nested, mounted, configVars, storeVars, sidecar, clock, faults,
                   goneSince, backSince, away, runVars>>

StopWriting(p) ==
    /\ p \in busy /\ busy' = busy \ {p}
    /\ UNCHANGED <<disk, nested, mounted, configVars, storeVars, sidecar, historyVars,
                   runVars>>

(* `git init` above p, or the checkout's .git going away.                   *)
ToggleCheckout(p) ==
    /\ Edit("nest")
    /\ nested' = IF p \in nested THEN nested \ {p} ELSE nested \cup {p}
    /\ UNCHANGED <<disk, busy, mounted, configVars, storeVars, sidecar, clock, faults,
                   goneSince, backSince, away, runVars>>

(* Without "flap", a root does not go away between the check that it is     *)
(* there and the look at the files below it, and one that went away during  *)
(* a run is back only after the run.                                        *)
Unmount(s) ==
    /\ Edit("unmount") /\ s \in mounted /\ (pc # "decide" \/ "flap" \in Menu)
    /\ mounted' = mounted \ {s}
    /\ UNCHANGED <<disk, busy, nested, configVars, storeVars, sidecar, clock, faults,
                   goneSince, backSince, away, runVars>>

Mount(s) ==
    /\ s \in Sources \ mounted /\ (pc = "idle" \/ "flap" \in Menu)
    /\ mounted' = mounted \cup {s}
    /\ UNCHANGED <<disk, busy, nested, configVars, storeVars, sidecar, historyVars, runVars>>

(* Configuration is read once, when a run starts: an edit made during a run *)
(* is one made after it.                                                    *)
SelectSources ==
    /\ pc = "idle" /\ Edit("select")
    /\ \E S \in SUBSET Sources : S # selected /\ selected' = S
    /\ UNCHANGED <<diskVars, excluded, storeVars, sidecar, clock, faults, goneSince,
                   backSince, away, runVars>>

ExcludePath(p) ==
    /\ pc = "idle" /\ Edit("exclude")
    /\ excluded' = IF p \in excluded THEN excluded \ {p} ELSE excluded \cup {p}
    /\ away' = away \cup {p}
    /\ UNCHANGED <<diskVars, selected, storeVars, sidecar, clock, faults, goneSince,
                   backSince, runVars>>

-----------------------------------------------------------------------------
(* Crashes, the sync tool and the clock.                                    *)
Fault(kind) == kind \in Menu /\ faults < MaxFaults /\ faults' = faults + 1

Crash ==
    /\ pc # "idle" /\ Fault("crash")
    /\ EndRun
    /\ UNCHANGED <<diskVars, configVars, storeVars, sidecar, clock, edits, goneSince,
                   backSince, away>>

Damage(kind, state) ==
    /\ Fault(kind) /\ canonical = "ok"
    /\ canonical' = state
    /\ UNCHANGED <<diskVars, configVars, manifest, copies, transit, blobs, sidecar, clock,
                   edits, goneSince, backSince, away, runVars>>

(* The sync tool brings back the manifest it had withdrawn or damaged.      *)
Restore ==
    /\ manifest # NoManifest /\ canonical # "ok"
    /\ canonical' = "ok"
    /\ UNCHANGED <<diskVars, configVars, manifest, copies, transit, blobs, sidecar,
                   historyVars, runVars>>

(* A conflict copy of the current manifest appears beside it.               *)
Duplicate ==
    /\ Fault("copy") /\ canonical = "ok" /\ copies = {}
    /\ copies' = {manifest}
    /\ UNCHANGED <<diskVars, configVars, manifest, canonical, transit, blobs, sidecar, clock,
                   edits, goneSince, backSince, away, runVars>>

(* One the sync tool took earlier and delivers only now.                    *)
TakeCopy ==
    /\ Fault("late") /\ canonical = "ok" /\ transit = {}
    /\ transit' = {manifest}
    /\ UNCHANGED <<diskVars, configVars, manifest, canonical, copies, blobs, sidecar, clock,
                   edits, goneSince, backSince, away, runVars>>

DeliverCopy ==
    /\ transit # {} /\ copies = {}
    /\ copies' = transit /\ transit' = {}
    /\ UNCHANGED <<diskVars, configVars, manifest, canonical, blobs, sidecar, historyVars,
                   runVars>>

Tick ==
    /\ clock < MaxClock /\ clock' = clock + 1
    /\ UNCHANGED <<diskVars, configVars, storeVars, sidecar, edits, faults, goneSince,
                   backSince, away, runVars>>

-----------------------------------------------------------------------------
Init ==
    /\ disk \in [Paths -> Revs \cup {Absent}]
    /\ busy = {} /\ nested = {} /\ mounted = Sources
    /\ selected = Sources /\ excluded = {}
    /\ manifest = NoManifest /\ canonical = "absent" /\ copies = {} /\ transit = {}
    /\ blobs = {} /\ sidecar = NoManifest
    /\ pc = "idle" /\ saw = FALSE /\ avail = {} /\ prior = NoManifest /\ remote = NoManifest
    /\ recovering = FALSE /\ reselected = FALSE
    /\ rescan = FALSE /\ listed = {} /\ local = NoFiles /\ held = {} /\ candidates = {}
    /\ frozen = {} /\ checkouts = {}
    /\ tombs = NoTombs /\ todo = {} /\ deferred = {} /\ gone = {} /\ uploadHeld = FALSE
    /\ refs = {}
    /\ clock = 1 /\ edits = 0 /\ faults = 0
    /\ goneSince = {p \in Paths : disk[p] = Absent}
    /\ backSince = {p \in Paths : disk[p] # Absent} /\ away = {}

PushStep ==
    \/ FetchOwn \/ ListFiles \/ ReadFiles \/ FilterPrior \/ InjectHeld
    \/ ProveRoots \/ Decide \/ ProveUploaded \/ FinishUpload
    \/ PutManifest \/ WriteSidecar \/ CleanupCopies
    \/ \E p \in Paths : \/ UploadOrDefer(p) \/ UploadSettled(p)
                        \/ UploadHold(p) \/ UploadRefused(p)

GcStep == GcReferences \/ GcRevalidate \/ GcDone \/ \E s \in Shas : GcDelete(s)

UserStep ==
    \/ SelectSources
    \/ \E s \in Sources : Unmount(s) \/ Mount(s)
    \/ \E p \in Paths : \/ Write(p) \/ Delete(p) \/ StartWriting(p) \/ StopWriting(p)
                        \/ Replace("grow", p, Big) \/ Replace("link", p, Link)
                        \/ ToggleCheckout(p) \/ ExcludePath(p)

SyncStep == \/ Damage("corrupt", "corrupt") \/ Damage("vanish", "absent")
            \/ Restore \/ Duplicate \/ TakeCopy \/ DeliverCopy

Next == StartPush \/ PushStep \/ StartGc \/ GcStep \/ UserStep \/ SyncStep \/ Crash \/ Tick

Spec == Init /\ [][Next]_vars

(* Hooks push after every session, so a push always starts again, a run     *)
(* takes its next step unless it dies, writers finish and a withdrawn       *)
(* manifest arrives.                                                        *)
FairSpec == /\ Spec /\ WF_vars(StartPush) /\ WF_vars(PushStep) /\ WF_vars(GcStep)
            /\ WF_vars(Restore) /\ \A p \in Paths : WF_vars(StopWriting(p))

-----------------------------------------------------------------------------
Phases == {"idle", "fetch", "list", "read", "filter", "inject", "prove", "decide",
           "upload", "publish", "sidecar", "cleanup", "gc", "gc again", "gc sweep"}

UserOK ==
    /\ disk \in [Paths -> Revs \cup {Absent, Big, Link}]
    /\ busy \subseteq Paths /\ nested \subseteq Paths /\ mounted \subseteq Sources
    /\ selected \subseteq Sources /\ excluded \subseteq Paths
StoreOK ==
    /\ manifest \in Manifests \cup {NoManifest} /\ sidecar \in Manifests \cup {NoManifest}
    /\ canonical \in {"ok", "corrupt", "absent"}
    /\ canonical = "ok" => manifest # NoManifest
    /\ copies \subseteq Manifests /\ transit \subseteq Manifests
    /\ blobs \subseteq Shas
RunOK ==
    /\ pc \in Phases
    /\ saw \in BOOLEAN /\ recovering \in BOOLEAN /\ reselected \in BOOLEAN
    /\ avail \subseteq Sources
    /\ prior \in Manifests \cup {NoManifest} /\ remote \in Manifests \cup {NoManifest}
ScanOK ==
    /\ rescan \in BOOLEAN /\ local \in Files
    /\ listed \subseteq Paths /\ held \subseteq Paths /\ candidates \subseteq Paths
    /\ frozen \subseteq Paths /\ checkouts \subseteq Paths
UploadOK ==
    /\ tombs \in Tombs /\ todo \subseteq Paths /\ deferred \subseteq Paths
    /\ gone \subseteq Sources /\ uploadHeld \in BOOLEAN /\ refs \subseteq Shas
HistoryOK ==
    /\ clock \in Times /\ edits \in 0 .. MaxEdits /\ faults \in 0 .. MaxFaults
    /\ goneSince \subseteq Paths /\ backSince \subseteq Paths /\ away \subseteq Paths

(* Every variable holds the kind of value the code gives it.                *)
TypeOK == UserOK /\ StoreOK /\ RunOK /\ ScanOK /\ UploadOK /\ HistoryOK

(* Every entry of the accepted manifest names a blob that is stored, across *)
(* crashes, holds, patched re-reads, collections and recoveries: a peer can *)
(* always fetch what _push_core publishes.                                  *)
PublishedBlobsStored ==
    manifest # NoManifest => ShasOf(manifest.files) \subseteq blobs

(* The acceptance of a manifest by a run whose prior was not out of date:   *)
(* a prior recovered from the sidecar is the last accepted manifest.        *)
Accepts == /\ pc = "publish" /\ manifest' # manifest
           /\ recovering => sidecar = manifest
TombsOf(m) == IF m = NoManifest THEN NoTombs ELSE m.tombs

(* A new tombstone means the path really was missing at some moment since   *)
(* it was last published (or a peer deleted it): what the walk leaves out   *)
(* (moving, oversize, linked, unselected, excluded, nested, unmounted) is   *)
(* never announced as a deletion.                                           *)
NoFalseTombstone ==
    [][Accepts => \A p \in Paths :
          manifest'.tombs[p] # 0 /\ TombsOf(manifest)[p] = 0
             => p \in goneSince \cup PeerDeleted]_vars

(* A push that found its manifest carries every live deletion over, unless  *)
(* it publishes the path again and the path did come back since.  Excluded  *)
(* and linked paths are not this device's to speak of.                      *)
DeletionRecordKept ==
    [][Accepts /\ saw => \A p \in Paths \ away :
          Active(TombsOf(manifest)[p])
             => \/ manifest'.tombs[p] # 0
                \/ manifest'.files[p] # Absent /\ p \in backSince]_vars

(* A file that never settles stays published at its accepted version: no    *)
(* step that holds it may drop it or turn it into a deletion.               *)
HeldKeepsEntry ==
    [][Accepts /\ saw /\ manifest # NoManifest => \A p \in held \ away :
          manifest.files[p] # Absent => manifest'.files[p] = manifest.files[p]]_vars

(* mm gc never removes a blob of the accepted manifest, whatever conflict   *)
(* copies the sync tool leaves beside it.                                   *)
CollectsOnlyOrphans ==
    [][\A s \in blobs \ blobs' : s \notin ShasOf(manifest.files)]_vars

(* What a fleet relies on: once the user, the crashes and the sync tool     *)
(* leave the device alone, its accepted manifest describes its files,       *)
(* whatever run was interrupted and whatever had to be held or recovered.   *)
Describes(m) ==
    \A p \in In(selected \cap mounted) \ (nested \cup excluded) :
        /\ disk[p] = Absent => m.files[p] = Absent
        /\ disk[p] \in Revs => /\ m.files[p] # Absent
                               /\ m.files[p].sha = disk[p].sha
                               /\ m.files[p].mt >= disk[p].mt
EventuallyPublished ==
    <>[](canonical = "ok" /\ manifest # NoManifest /\ Describes(manifest))

(* Selection, checkouts and the rescan of mm's own sources change neither   *)
(* what is stored nor what counts as deleted.                               *)
SelectionIsSafe == []PublishedBlobsStored /\ NoFalseTombstone /\ DeletionRecordKept
=============================================================================
