# mind-meld: a TLA+ verification project

mind-meld (`mm`) synchronises the context of AI coding agents between the
computers of one person. There is no server: every device writes encrypted
blobs and one manifest into a storage folder, and a sync tool (iCloud,
Syncthing, Dropbox) carries that folder between devices, late, in any order,
and sometimes twice. All source paths below are relative to
`src/src/mind_meld/`.

## 1. The system

| Component | State it keeps | Operations | Talks to |
|---|---|---|---|
| push (`cli.py` `_push_core`, `core.py`, `manifest.py`) | nothing between runs; in memory: prior manifest, scan, held and frozen paths, tombstones | fetch own manifest, walk, hold, filter, prove omissions, rescan, upload, publish | storage folder, sidecar, source directories |
| own manifest (`core.py` 388-533, 1020-1091, 1473-1646; `sidecar.py`) | `manifests/<device>` in the folder, conflict copies beside it, `~/.mind-meld` sidecar | fetch and merge, recover a prior, clean copies up | push, gc, pull |
| gc (`cli.py` `_do_gc`) | none | read references twice, delete orphan blobs | storage folder |
| process lock (`lockfile.py`) | a locked file descriptor | acquire, release; the kernel releases it on a crash | push, pull, gc, ... |
| pull (`pullflow.py`, `pullplan.py`, `merge.py`) | none; conflict files beside canonical ones | fetch peers, plan, apply, merge, wait | peers' manifests and blobs, source directories |
| conflicts (`resolveflow.py`, `conflictmtime.py`) | conflict files | list, keep, promote, delete | source directories |
| storage (`storage/local.py`, `fsutil.py`) | the folder | put (temporary file and rename), get with retry, list, delete | everything above |
| key header, init (`crypto.py`, `initflow.py`, `devices.py`) | `mm-crypto-init`, device records | bootstrap, verify, register | storage folder |
| source contents (`manifest.py`) | none | walk, proof of absence, pull's filter | push, pull |
| locked caches (`lockedjson.py`, `seen_sources.py`) | small JSON files under `~/.config` and caches | read, modify, write under flock | several mm processes |
| events tail (`events.py`, `events_tail.py`) | daily JSONL files in the mm-events source, a capture cache | capture commits, sessions and usage, append rows, move cursors | push, retro |
| usage readers (`host_usage.py`, `hosts/codex.py`, `token_usage.py`) | caches and ledgers per agent, Cursor's spool | read other tools' logs while they are written | events tail, hooks |
| evidence and histories (`statedb.py`, `pullhistory.py`, `attemptlog.py`) | `state.db`, older JSONL histories, run record | buffer, flush, import, prune, read | push, pull, upgrade, `mm log` |
| upgrade (`upgrade.py`) | check cache, attempt record, installer lock | check daily, install detached or attended, retry | network, pipx |
| skill links (`skill_link.py`) | a store and one link per agent | publish, link, remember what was declined | push, init |
| fleet retro (`skills/retro_fleet/aggregator.py`) | none | aggregate all devices' rows into figures | events of every device |
| configuration, status, retention, identity, text | files of their own | see `PROJECT.json` | |

What is hard here:

* **Nobody stops writing.** Agents append to the files while `mm` hashes,
  uploads and replaces them. Every look at the disk is a separate step.
* **Runs die anywhere.** Hooks start `mm` after each session and the machine
  sleeps or the process is killed; only the lock and the memory are lost.
* **The folder lies.** The sync tool may withdraw a manifest, deliver half of
  it, bring back an old one under another name, or deliver a blob after the
  manifest that names it.
* **Absence is ambiguous.** A file that is not in a walk may be deleted, too
  large, a symlink, below a checkout, on an unmounted root, excluded,
  unselected or only being replaced at that moment. A tombstone destroys the
  file on every other device, so only the first of these may produce one.

What makes each component correct:

* push: every published entry names a stored blob; no tombstone without a
  deletion; no live tombstone is lost; a file that cannot be read keeps its
  published version; in the end the manifest describes the disk.
* gc: only blobs outside the accepted manifest are removed.
* pull: no local content is destroyed without a recoverable trail; a deletion
  is honoured and does not come back; a device waits for late blobs and then
  catches up; devices that stop editing converge.
* locked caches: no update is lost, a reader never sees half a file.
* key header: one fleet, one key, whoever comes first; a machine whose key is
  not the fleet's notices before it uses it.
* source contents: push, the proof of absence and pull agree on what belongs
  to a source, while the tree changes between their looks.
* events tail: no commit falls between two captures; a session is never
  reported with less than was known.
* usage readers: what is reported was spent, once, whatever was copied, moved,
  rotated, resumed or cut short; caches change the cost of a pass only.
* evidence: a push says of its outcome only what happened; history rows are
  kept once each through imports, prunes and crashes.
* upgrade: one installer at a time, never under a running command, and a
  failing release is retried with a pause.
* skill links: a link points at a whole payload the user consented to.
* fleet retro: the figures do not depend on the order of the rows, and a
  figure that may be too low says so.

## 2. Modules

| Module | Models | Kind |
|---|---|---|
| `Push` | push, gc, the own manifest and the sidecar of one device, with the user, the sync tool and crashes as environment | specification |
| `Pull` | one device's pull against any number of peers, with the user, the peers and the sync tool as environment | specification |
| `SourceScope` | what of a changing tree belongs to a source, for push, for the proof of absence and for pull | specification |
| `JsonStore` | what a locked JSON file promises its callers | abstract specification |
| `LockedJson` | the two protocols of `lockedjson.py`; implements `JsonStore` | specification, refinement |
| `SeenSources` | the set of known default sources, shared by processes | specification |
| `FleetKey` | the key header on the replicas of several machines, init and the key check of every command | specification |
| `EventsCapture` | the capture of commits: cursors, rows, cache | specification |
| `SessionWalk` | the walk over Claude Code sessions under a deadline | specification |
| `TokenCache` | the incremental reader of one session log | specification |
| `CursorUsage` | Cursor's spool, history and stores, with hooks and the reader | specification |
| `MuseLedger` | Muse's day directories, frozen and live | specification |
| `CodexScan`, `CodexLedger` | a pass over the Codex rollouts; what a rollout and its forks were charged | specification, algorithm against a reference |
| `UsageRun` | one push from its usage sweep to its closing line | specification |
| `HistoryDb` | the history database with the JSONL files it replaces | specification |
| `Evidence` | `UsageRun` and `HistoryDb`: what a command leaves behind to be looked at | composition |
| `Upgrade` | the daily check, the locks and the pipx runs | specification |
| `SkillLinks` | the skill store and the agents' links | specification |
| `ConflictResolve` | the conflict copies of one document, `mm resolve` and the reaper | specification |
| `RetroGit`, `RetroHosts`, `RetroSessions` | the fleet retro's figures, read row by row in any order | algorithms against reference definitions |
| `MCPush`, `MCPull` | constants for the runs of `Push` and `Pull` | model checking |
| `MCRetro`, `MCLocal`, `MCDevice` | several components side by side, see below | model checking |
| `PushProofs`, `PullProofs`, `RetroProofs`, `ReaderProofs`, `EvidenceProofs`, `ScopeProofs`, `SetupProofs`, `LocalProofs` | what is proved for every value of the constants | proofs |

The components of `MCRetro`, `MCLocal` and `MCDevice` share no state in the
code beyond the locks and files each module models itself. These modules check
them side by side: the variable `scene` names the component a behaviour is
about, and the others stand still. `MCDevice` also holds the scene `selection`,
which is `Push` with two sources.

### Push

One state variable per thing the code keeps or looks at: the disk (`disk`,
`busy` for a file being written, `nested` for paths below a git checkout,
`mounted` for source roots that are there), the configuration (`selected`,
`excluded`), the folder (`manifest` is the last accepted manifest, `canonical`
says whether its file can be read, `copies` and `transit` are conflict copies
shown and still held by the sync tool, `blobs`), the `sidecar`, and the locals
of one run. `goneSince`, `backSince` and `away` are history: which paths were
missing, present or out of this device's hands since the last acceptance.

A push is `StartPush`, `FetchOwn`, `ListFiles`, `ReadFiles`, `FilterPrior`,
`InjectHeld`, `ProveRoots`, `Decide`, then the second pass over mm's own
sources from `ListFiles` to `Decide`, then one upload action per file, with
`ProveUploaded` after a source in which a file vanished, `FinishUpload`,
`PutManifest`, `WriteSidecar` and `CleanupCopies`. The order is
the order of `_push_core`. Between any two of them the user, the agents and the
sync tool may act. Looks at several paths in one loop are one step when they
commute with each other and the loop has no effect of its own; the upload loop
has one step per file, since each has an effect. A refusal (`SnapshotError`, a
vanished root, an unreadable manifest with nothing to recover from) is `Stop`:
the run ends and nothing was published.

gc is `StartGc`, two reads of the references and one `GcDelete` per orphan.
The process lock is `pc`: one run at a time, freed by `Crash`.

A revision is a digest and an mtime; the content itself is never needed.
Tombstones carry the tick of their deletion and live `TTL` ticks.

What the model takes as given, and where a run shows what happens otherwise:

* `put` and `delete` in the folder are atomic (`storage/local.py` writes a
  temporary file and renames it).
* A root that unmounts stays away until the run ends, and does not go away
  between the root check and the looks below it, unless the menu has `"flap"`.
* A symlink does not replace a file of an mm-internal source, nor the same
  path twice between two acceptances, unless the menu has `"relink"`.
* Tombstones from a stale sidecar (its best-effort write failed) are not held
  against the properties: `Accepts` asks for `recovering => sidecar = manifest`.
* A canonical that is already absent at the first probe is taken by the code
  for a first push (there is no way to tell); `DeletionRecordKept` and
  `HeldKeepsEntry` therefore ask for `saw`.
* At most one conflict copy is shown at a time.
* The gate "nothing to push" has no exception for a due retro catch-up of an
  attended push (`cli.py:2156`): the model ends runs that the code would let go
  on with the same files.

### Pull

`disk` and `copies` are the synced files and the `.sync-conflict-*` files
beside them. The folder is `main` (each device's manifest, device 0 is this
Mac), `spare` (a second version of a manifest the sync tool kept), `damaged`
(manifests that cannot be read now) and `blobs` (the peers' blobs that have
arrived). The locals of a run are the manifests it prefetched (`cache`), the
tombstones it collected, the peer and the files in hand (`peer`, `queue`,
`at`), the flags that decide on the clean-up (`acted`, `lacking`) and the
keep-local decisions to be turned into mtimes (`pending`). History: `mine` is
what the user last put at a path, `saved` the conflicts he has not reviewed,
`kept`, `leftOpen` and `reopened` his answers in this run.

A pull is `Begin` (inventory, prefetch, tombstones), `Preflight` in fail mode,
then for each peer in order `NextPeer` (the diff) and for each file one of
`Waits`, `Fails`, `Leaves` (skipped or unchanged) and `Looks`, which takes the
decision of `_apply_incoming_file` from one look at the file; the decision is
carried out by a later step: `Write`, `Merge`, `Save` and `Reap` (conflict
copy), or after a prompt one of `KeepLocal`, `KeepRemote`, `KeepMerged`,
`KeepBoth`, `Abort`. `EndPeer` deletes the peer's second manifest version when
all went well, `Drain` stamps the kept files. The planner of fail mode is a
recursive function over the peers (`Planned`), written from `pullplan.py` and
not from the walk, so that `pull_answers` compares the two.

A text is a set of lines (a line of the model stands for a run of lines), a
merge their union. The line-union merge also sorts; files are taken to be in
the form it leaves, so a union that adds nothing writes nothing. Time stands
still at `Now`; mtimes lie before it or, for a peer with a fast clock, after
it, and `Skew` is the 60 seconds a stamp may be ahead.

What the model takes as given:

* An edit does not fall between the look at a file and the rename that
  replaces it (`Write`, `Merge`), nor into an open prompt for that file unless
  the menu has `"promptEdit"`. The first window is two system calls wide, the
  second as long as the user thinks: `pull_prompt_edit` shows it.
* Restoring an mtime succeeds.
* Without `"midrun"` in the menu, users and peers act between runs only (the
  promise about undelivered blobs is about the run's own reads), and the user
  never edits during a fail-mode run: its preflight is a prediction from the
  files as they are, documented as best-effort.
* Peers' manifests have no tombstone for a path they list, as `Push` ensures.
* Failures are of one class (`Fails`): collisions of files and directories, text
  that does not decrypt and files that cannot be read or written all leave the
  file and the entry as they were. A preflight that refuses for such a reason
  (`pullplan.py:116-139`, `pullflow.py:1785`) ends the run as a death before
  the walk does.
* A path whose local side is a symlink is always looked at and skipped; the code
  passes over one whose target already has the peer's text
  (`pullflow.py:1890-1903`), which it would skip as well.

### What each of the other modules takes from the code

* `SourceScope`: a tree is a set of directories and files that a user makes,
  removes, marks, links or checks out between the walk and the later looks.
  The walk prunes as `build_manifest` does, the proof of absence looks again
  (`core.py:540-620`), pull asks path by path. Patterns are a set of names.
  The order in which `marker_skip_globs` looks at what a configuration names is
  a constant (`SCOrder`): by depth, and within a depth any.
* `LockedJson`: one action per system call that others can see: open (which
  creates an empty file), flock, read, truncate, the two halves of a write,
  unlock. A crash frees the lock. `Visible` is the refinement mapping: while a
  writer is inside its rewrite, callers are shown what it read, since nobody
  can look; a write cut short is the abstract loss.
* `SeenSources`: each process resolves its own set of default sources, so two
  seeds may differ. The hint of `mm status` is the observable.
* `FleetKey`: every machine has a replica; the sync tool copies files between
  replicas and, when two headers differ, keeps one as a conflict copy. Salts
  are numbers; a header may be unreadable or written by a newer mm.
* `EventsCapture`: a push walks the repositories it discovers from their
  cursors, appends a git row, then the mm-push row, then commits cursors to
  the cache; any of these may not happen. A recapture walks its own window.
* `SessionWalk`: the projects are walked from the last completed one on; a
  deadline, a failing scan or a failing read may hit at each, logs grow.
* `TokenCache`: a log is a sequence of lines and a line an iteration of a
  message; a read is two stats around a resume or a full walk, and the agent
  appends or replaces the file between any two of these.
* `CursorUsage`: hooks append to a spool that is rotated at its limit; the
  reader renames it aside, folds it, reads the stores, replaces the history,
  unlinks the spool; each can fail or die in between. An I/O error drops what
  the scan learned, a torn or refused directory does not.
* `MuseLedger`: a pass lists the days, trusts or checks the frozen ones within
  its budget, reads the live ones, brings back what copies reach into, and
  freezes what is quiet. Totals are sets of steps. A day is read in one step,
  where the code reads log by log (`host_usage.py:2608-2630`), and a frozen day
  is dropped when its last log goes, where the code waits for its directory to
  go (2599).
* `CodexScan` and `CodexLedger`: listings of the live tree, the archive and the
  live tree again while rollouts are written and archived; and the transitions
  of the running totals, counted once in a lineage of forks.
* `UsageRun`: readers answer, refuse or run out of time; each late one is asked
  once more, a step of its own; the row; the publication; the record, the
  breadcrumb and the closing line.
* `HistoryDb`: a flush is one transaction that imports the older JSONL files
  first; an older mm goes on writing them, a newer one raises the schema.
* `Upgrade`: a command loads the package and notes whether its version is new
  here before it asks for the mm lock, under the flock of the check cache alone
  (`upgrade.py:36-38`), so several do so at once, and while a swap is under way.
  Then it has the lock at once or ends. Hooks hold the mm lock and leave pipx
  behind with the installer lock; attended commands give the mm lock back, swap,
  and take it again. The history `upRows` counts the upgrades logged since the
  cache was last whole, less the versions older commands set the cache back by.
* `SkillLinks`: gate, lock, payload, metadata, one link after another, by two
  versions of mm at once, while the user removes links and skills.
* `ConflictResolve`: copies carry the side they hold by the era of their name;
  each answer of the walk is its reads and writes in order.
* `RetroGit`, `RetroHosts`, `RetroSessions`: one action per row read, in any
  order; the properties compare the result with a definition over the whole
  set of rows. Counters of a bucket are one number.

## 3. Runs

Every run finishes within four minutes with two workers.

| Run | Instance | Question |
|---|---|---|
| `push` | one path, two digests, edits, writers, growth, crashes, damaged or withdrawn manifest, failed sidecar, gc, two ticks | are the storage, tombstone and hold promises kept through faults? |
| `push_selection` (`MCDevice`) | two paths in two sources, one of them mm's own, through selection, exclusion, checkouts, symlinks, unmounts and the rescan; scenes for the contents of a source, the report of a push, the history | the same promises through a changing selection; do the looks at a source agree; is what a push reports true; is each history row kept once? |
| `push_copies` | one path with conflict copies, prompt and late, under damage, crashes, a changing selection, checkouts, symlinks and unmounts | does gc spare what is published, are deletions carried? |
| `push_live` | one path, two mtimes, fairness | does the manifest come to describe the disk? |
| `push_late_copy` | the smallest instance of one disagreement | see the findings |
| `pull` | one opaque file, one peer; edits, links and deletions during a run, late and collected blobs, failures, a crash, unreadable manifests | is local content kept, are conflict copies kept until reviewed, do deletions made here last? |
| `pull_answers` | one file, two peers, every sequence of answers, and fail mode; an mtime missing, ahead of now, beyond the clamp | do keep-local answers settle what they were about and nothing else, does the preflight foresee every conflict? |
| `pull_delivery` | an opaque and a mergeable file, one peer, two versions of its manifest, late blobs, fairness | does the clean-up wait for late blobs, does every line of the user survive merges, is every entry accounted for in the end? |
| `pull_prompt_edit`, `pull_bump` | the smallest instance of one disagreement each | see the findings |
| `local` (`MCLocal`) | Cursor's spool and history, self-update, skill links, conflict resolution, the key header | is Cursor usage kept and counted once, are swaps and retries safe, are links and edits of the user kept, is there one key? |
| `retro` (`MCRetro`) | the locked caches, seen sources, session walk, commit capture, token cache, Codex, Muse, and the retro's three aggregations; fairness | do caches refine their abstract store and say what the logs say, is no commit skipped, are the figures right in any order? |

Bounds of the push runs. `MaxEdits` (steps of the user), `MaxFaults` (steps of the sync tool and
crashes), `MaxAccepted` (accepted manifests) and `MaxClock` are the only
bounds. Four edits are enough to write, publish, delete, publish, write again
and move the file during a push (`push_copies`, whose user can also select, exclude, link,
nest and unmount, has three); two faults are enough for a crash followed by
a loss, which is the longest chain a recovery refers to (it reads one manifest
and one sidecar). `MaxAccepted` is needed because a file that is both deleted
in the record and permanently moving makes the code publish again each time.
Paths interact only through their source, so one path per source suffices
outside the rescan; two sources, one ordinary and one mm-internal, exercise the
rescan. Runs disable deadlock checking because the environment's budgets end.

Bounds of the pull runs. `MaxEdits`, `MaxPubs` (publications of all peers) and
`MaxFaults`. Two peers are enough for the interplay of two answers or two
texts about one file; a third one only repeats it, except that the planner
cannot foresee late blobs (`pullplan.py` says so). Two lines give two
unrelated texts and one that contains both. With three edits a file can be
made, deleted and published as deleted while a peer still has it, and made
again. Files interact only through the flags of a peer, which `pull_delivery`
exercises with two. `SYMMETRY` permutes the two lines in the runs without
liveness.

Fairness of pull (`LiveSpec`). `mm autopull` runs at the start of every
session, in the default conflict mode; a run goes on unless it dies; the sync
tool delivers each blob a manifest names and repairs a damaged manifest.

Fairness of push (`FairSpec`). The hooks of the agents run `mm autopush` after every
session, so a push starts again and again; a started run takes its next step
unless it dies; a writer finishes; a manifest the sync tool withdrew arrives in
the end. Crashes, damage and edits are bounded by their budgets and need none.

Bounds of `push_selection`, `local` and `retro`. Every module names its bounds
among its constants: steps of the user or of the other program (`SCEdits`,
`URTouches`, `CUEvents`, `MLEvents`, `SLUserSteps`, `CREdits`, `CXChanges`,
`TCWrites`, `SWChanges`, `ECCommits`), faults (`URFaults`, `HDFaults`,
`SLFaults`, `FKFaults`, `SWFaults`), runs (`URRuns`, `SLRuns`, `ECCaptures`,
`FKInits`) and the last tick of a clock. They were chosen from the longest
chain a mechanism can remember: a cached entry is used by the next pass and
checked by the one after it, a cursor is moved by one push and read by the
next, a claim is written by one hook and honoured by another. Two processes
show every race over a lock or a file (in `local` the two commands of an
upgrade, those of the skill links and the two machines of a fleet share their
names, and `SYMMETRY` exchanges them; the run has no liveness property); two captures and two repositories every
order of cursors; three rollouts a chain of forks and one that is unrelated;
three ticks a day that is live, settled and frozen; three days with a retention
of one a completion that is protected, replayed and expired. The larger
instances tried beside the runs (three Muse logs over four ticks, half-day
ticks, three Cursor events over a spool of two rows) hold too. The
corpora of the retro's rows are written out in `MCRetro`: a few rows for each
reason to reject, replace, prefer or doubt one, read in every order and in
every subset.

Fairness of `retro`. A process that uses a locked file goes on unless it
crashes (`LJFairness`; nobody is promised the lock). A push that walks the
sessions goes on unless it is lost, and pushes are run again and again
(`SWFairness`). Deadlines and changes are bounded, so in the end a walk has its
time and the logs are quiet.

### Findings

1. `push_late_copy`. A conflict copy taken before a deletion and delivered
   after the push of the deletion and a gc is merged into what the next push
   diffs against. A file created again with the same content and a newer
   mtime is then only touched: nothing is uploaded and the manifest names a
   blob that was collected. The comment at `cli.py:2344` says it never does.
2. `pull_prompt_edit`. The merge offered at the prompt is computed before the
   prompt opens and written after the answer. What an agent wrote meanwhile is
   lost without a trail, which `pullflow.py:1069` rules out.
3. `pull_bump`. A conflict left open with one peer and a keep-local against
   the next: the drain makes the file newer than both, so the next pull passes
   over the open conflict. `docs/invariants/conflicts.md:153` says any
   conflicted outcome voids the bump; the code voids on later outcomes only.

Seen while modelling and left without a run of their own:

* gc's references are the merge of the manifest and its copies, so an entry
  that only an older copy names is not spared; if the canonical is lost before
  the copy is cleaned up, a manifest rebuilt from that copy names collected
  blobs.
* The prior is filtered for symlinks only after the first scan (`cli.py:2225`);
  a symlink that appears before the rescan becomes a deletion. Adding
  `"relink"` to a menu with `"link"` and an mm-internal source shows it.
* A root that is back only for the root check (`core.py:909`) turns every
  published file below it into a deletion. Adding `"flap"` to a menu with
  `"unmount"` shows it.
* A pull that read a damaged peer manifest through its conflict copy deletes
  the copy as soon as one file was written or skipped (`pullflow.py:2854`),
  and leaves the damaged manifest alone until the peer pushes again.
* A conflict copy left by a crash before the clean-up and merged in by the next
  fetch can make a file created again look unchanged: "nothing to push", until
  something else changes. The liveness run has no copies for that reason.
* A crash before the clean-up can also leave a copy with an old tombstone
  beside a manifest that publishes the path; a push that then holds the file
  drops the entry and publishes a deletion.
* Muse. A session resumed after its day froze writes a step, a new session
  copies it, and a pass whose budget does not reach the frozen day freezes the
  copy's day without keys; when the first day is checked at last, the step
  counts twice. `docs/invariants/events-retro.md:566` says copies count once or
  refuse, and the residual it documents at 578-581 is a narrower one.
  `MLResumed = TRUE` shows it; the run has `FALSE`.
* Codex. Forks that repeat an opening with different totals, such as
  `[100, 100, 130]` and `[100, 100, 150]`, sum to 80 or to another figure by the
  order they are read in (`host_usage.py:4075-4090`); `OpeningRepeated` leaves
  them out. A rollout moved twice within one pass may be missed, and one moved three
  times, again between its two readings, is read at both places whatever turns
  it names; `NothingMissed` and `OneLineage` leave these out (`CXChanges = 4` reaches both).
* Warm retry. A reader dropped for its deadline whose retry finds no ledger
  makes the capture complete although no reader contributed
  (`events_tail.py:647-706`): a row without sources is published.
  `SweepIsHonest` leaves this case out.
* Commits. `ECFaults` names four gaps: a push that dies between its git row and
  its mm-push row, a reconciliation whose write fails, a commit between a walk
  and the row's stamp, and a recapture over a window narrower than a cursor
  (the last one is pinned by `tests/test_events_budget_scope.py:822`). The run
  leaves them out.
* Resolve. `CRFaults` names what the walk does not look for: an edit while an
  answer is typed (`resolveflow.py:609`, 881, 903), a document made again before
  a promotion (575), and the pre-inversion marker written before a copy of the
  old era arrives (`pullflow.py:878`). The run leaves them out. A document may
  also be made again by the walk itself: that it was missing is known from the
  discovery of all copies (262), so promoting two copies of it in one walk
  renames the second over the first. `"remade"` covers this case too.
* Key header. A legacy configuration without a recorded fingerprint whose
  backfill cannot be saved has no drift check (`core.py:365`).
* Source contents. Pull refuses more than it must when a dark directory lies
  below a profile; `..` in an include is not modelled.
* Run record. It may say that the content was not accepted when a put failed
  after its rename, or an interrupt fell between the put and the flag; only the
  positive claim is checked.
* History. The divergence notice speaks of rows written after the import; a
  rotation during the import can leave older rows out as well.

## 4. Proofs

The theorems hold for every value of the constants, under the named assumptions
of the modules (`ASSUME`, evaluated by TLC in the runs). A theorem with a
further hypothesis says so in its `ASSUME`; each hypothesis names an
environment step without which the runs also work, and with which the property
is false or is not what the code promises. Steps are grouped as the code is:
one lemma per action that can disturb the invariant, and a frame lemma for the
steps that touch none of its variables.

### Push (`PushProofs`)

* `TypeCorrect`: `Spec => []TypeOK`. The inductive invariant adds that at most
  one conflict copy is shown and one held back (`FewCopies`), because the merge
  of two manifests is a manifest (`MergeOfTwo`), and merging more is not needed.
* `BlobsStored`: `Spec => []PublishedBlobsStored` provided the menu has no
  conflict copies (with them the property is false, finding 1). The invariant
  alone is not inductive. `StoredInv` adds what a run remembers: what it diffs
  against is stored (`RemoteStored`); what it carries over without an upload is
  stored (`KeptStored`), which needs that a recovering run holds nothing
  (`RecoveringHoldsNothing`) and that the prior of any other run is stored
  (`PriorStored`); what it is about to publish is stored or still to be
  uploaded (`UploadCovers`, `PublishCovers`); and a collection sweeps only when
  it knows the manifest's blobs (`GcKnows`), at a time when no run remembers
  anything (`QuietMemory`). `StoredInv` was checked by TLC first on the
  instances of `push` and `push_selection`.
* `GcTakesOrphans`: `Spec => CollectsOnlyOrphans`, with conflict copies and no
  hypothesis. `OrphansInv`: a copy is never newer than the accepted manifest
  and equal to it when as old, so merging it takes no entry of the manifest
  away (`MergeKeepsNewest`); and what gc read it keeps until it has swept,
  while the lock keeps pushes away.
* `HeldStaysPublished`: `Spec => HeldKeepsEntry`, and `DeletionsCarried`:
  `Spec => DeletionRecordKept`, without hypothesis. `KeepsInv` follows one run
  from the fetch to the put: a run starts from nothing and holds only what it
  walked, the prior and the remote it uses carry the accepted entries and
  deletions of whatever is not `away`, a held file stands at its accepted entry
  and a path with a deletion record is local only when it came back.
* `TombstonesAreTrue`: `Spec => NoFalseTombstone`, and `SelectionSafe` from it,
  when the menu leaves out three things and tames a fourth. `"copy"` and
  `"late"`: an older copy merged by the fetch can bring an old deletion of a
  path back that the newer manifest publishes. `"flap"`: a root that is back
  only while it is checked is taken for there. `"link"` is in only without
  `"grow"` and `"relink"` (`TameLinks`, which the run of `MCDevice` meets): a
  file too big at the scan, rewritten after the filter and replaced by a symlink
  before its root is checked is neither held nor read again, and is told as
  deleted. Moving, oversize, unselected, excluded, nested and unmounted files
  and recovery from the sidecar are in. `TrueInv` says that what a run omits
  went missing since the last acceptance (`OmittedIsGone`), which needs that the
  roots of all it decides about are still there (`RootsThere`). A symlink counts
  as gone when a push decides, so `LinksInv` says that no path that is one, or
  can become one before the next manifest, gets there unnoticed: the first scan
  lists it unless a checkout covers it (`FirstLook`), the filters drop what is a
  link by then, and whatever the prior still names has a local entry
  (`LaterLook`). It was checked with TLC up to four edits before it was proved.

### Pull (`PullProofs`)

Everything rests on `TypeInv`, which adds `WalkInv` to `TypeOK`: while files
are applied the peer in hand has a readable manifest, lists every queued file,
and the file in hand is queued.

* `TypeCorrect`: `Spec => []TypeOK`.
* `LocalNeverLost`: `Spec => []LocalKept` when the menu has no `"promptEdit"`
  (with it the property is false, finding 2). `LocalInv` adds that a file is
  still what it was looked at until something is done about it, that only an
  absent file is written without asking, and only a mergeable one merged.
* `ConflictsKept`: `Spec => []UnreviewedConflictKept`. `ConflictInv` adds that
  while outdated copies are removed they are all the peer's own and one that
  stays exists already.
* `DeletionsHonoured`: `Spec => DeletedStaysDeleted`, an action property.
  `DeletionInv` says that during a run the deletion records of a readable own
  manifest are among the run's tombstones and no queued file is.
* `BumpsVoided`: `Spec => []LaterPeerVoidsBump`, inductive with `TypeInv`.
* `KeptStaysSettled`: `Spec => []KeptIsSettled`. `SettleInv` adds that during a
  run the bump due for a path is not below any revision it was kept against,
  and that a preflight has met no answer yet; the drain then writes an mtime
  past the bump, or the clamp.
* `UndeliveredStays`: `Spec => UndeliveredKept` when neither the user
  edits nor a peer publishes in mid-run.
  `DeliverInv`: what the run read of a manifest in two versions is what a read
  still returns, or the second version alone (`SpareRead`), and a file that
  left the queue without being found lacking was delivered or was here.
* `PreflightForesees`: `Spec => NoSurpriseConflict` when every blob has arrived
  and stays and no write fails, since the planner looks at neither blobs nor
  failures. With `"late"` and three peers the property is false: the planner
  lets the second and third peer follow the first one's newer text, which does
  not come, and they conflict. `ForeseenInv` says that some prediction without
  a conflict agrees with every file up to the peer it was applied from. The
  planner's fold over the peers is the recursive function `Planned`;
  `PlansExist` shows that it exists and `PlannedIsPlan` what it maps to.

### The other components

* `RetroProofs` on `LockedJson`, for any number of processes and any retry
  budget. `LockedJsonRefines`: `LJSpec => RefinesStore`, that is, both lock protocols
  implement `JsonStore` under the mapping `Visible`. The inductive invariant
  `LJInv` has two parts beside the types. `Locks`: a process holds a lock only
  between `Acquire` and the end of its call, the exclusive lock has one holder,
  and under the cache protocol it keeps readers out. `Knowledge`: who is about
  to write under the lock still knows the file's content, a rewrite is under
  way only on a file it has truncated, and a file that does not parse is being
  written or was cut. Then `Truncate` and the first half of a write are not
  seen (`SameView`, `HolderSees`, `WriterSees`), the second half and the
  durable replacement are one caller's change, and a crash or write error
  inside a rewrite is the loss of a cache. `OnlyCutIsMalformed`:
  `LJSpec => []TornOnlyAfterCut`, from the same invariant.
* `RetroProofs` on `EventsCapture`, for any number of repositories, captures
  and commits. `NoCommitLost`: `ECSpec => []NoCommitSkipped` under `NoFaults`:
  none of the four faults `ECFaults` can name, which the code does not guard
  against (section 3), happens. The invariant `CaptureInv`: a push's row follows
  its git row, and both it and the cursors it made are before whatever no row
  has recorded (`RowsInv`); a cursor is before whatever is unseen, or a push
  still to be replayed failed there last, and without one the next push walks
  from before it or the replay makes one (`CursorsInv`); what a run walked is
  seen up to its cutoff (`WalkInv`); a push replayed all that was pending
  (`PushInv`); and a recapture starts before every repository without a cursor
  (`RecaptureInv`). The replay is the recursive function `Replay`: `ReplayPlays`
  shows that it exists, `PlayedStep` follows it row by row, and `ReplayedIs`
  says what the next push finds.
* `RetroProofs` on `SessionWalk`, for any number of projects and logs.
  `WalkCounts`: `SWSpec => []WalkKeepsCounts`, and `WalkTypeCorrect`. The
  invariant `WalkRight` has three parts beside the types. `Stored`: a record,
  stored or staged, is the totals of versions that were there, and no cache is
  ahead of its log. `Published`: what a walk is done with is in its snapshot
  with no less than its record, unless its directory could not be listed.
  `Scanning`: the size of a scan under way lies between the totals of the
  versions listed and of those there, and while these are the same and every
  log it is done with was counted as listed, its tokens are the total over
  those logs; so a scan found complete holds the totals of its digest, and no
  less than an older record, as logs only grow. The totals are the fold
  `SumFunctionOnSet`: `SumsExist` and `SumIs` show what it computes, `SumStep`
  and `SumMono` are what the steps use.
* `RetroProofs` on `SeenSources`. `NeverHintedAgain`: `SSSpec => NoHintAfterAck`,
  from `AckedIsKept`: until a write is cut short, every acknowledged name is in
  the file. Without it the step of a first reader, which seeds the file, could
  not be told from one that seeds over an acknowledgement.
* `ReaderProofs` on `TokenCache`, for any number of lines, ids, days and writes.
  `TokenCacheExact`: `TCSpec => [](CacheIsExact /\ TCTypeOK)`. The invariant
  `CacheInv`: mtimes tell changes of the log apart and first bytes its
  replacements (`LogInv`); an entry whose head is the log's counts a beginning
  of it, with a good tail, and one whose stat is the log's counts all of it
  (`EntryInv`); and a read under way of a log that still has the stat it began
  with is right so far, wherever it resumed (`RunOK`). A tail does the work of
  all the lines before it (`TailOK`, `SegOK`) because an id streams on only
  within the last `TCLookback` ids: the promise of `Streaming`. Cutting an
  entry to its newest days before a segment is merged changes nothing that the
  cut after it keeps (`TrimMerged`). A walk is a recursive function:
  `WalksExist` shows that there is one and `FullWalkIs` what it counts. The
  bounds are numbers (`TCAssumption`).
* `ReaderProofs` on `CodexScan`, for any number of rollouts, days, moves,
  failures and crashes. `ScanMissesNothing`: `CXSpec => [](NothingMissed /\
  OneLineage)`. `ScanInv`: a rollout in neither listing though it was there all
  along came out of the archive between them and is live when the live tree is
  listed again (`Whereabouts`), which is what the second listing is for; every
  path listed is still to be read, or was read no older than when the pass
  began, or is taken on trust, and a live path may be left to its archived one
  (`Accounted`); live paths are read before archived ones, so a rollout read
  at both places has moved in between (`ReadTwice`); and a settled day has no
  rollout with an unnamed turn (`Settled`). Its proof showed that `OneLineage`
  needs its third move ruled out, which the bound of the run never reached.
  `CXAssumption` numbers the rollouts and dates them before the clock starts.
* `ReaderProofs` on `MCRetro`. `ReadersAreComponents`: but for fairness a
  behaviour of `MCRetro` is a behaviour of each component. So `CachesExact`
  (`Spec => []CachesAreExact`), `CodexPassesMissNothing` (a part of
  `LedgersAreExact`) and `RetroIsRight`, which states what is proved of the
  components side by side, hold for any constants.
* `ScopeProofs` on `SourceScope` and `MCDevice`. `WalksAreExact`:
  `SCSpec => [](SCTypeOK /\ WalkIsExact /\ PullAgrees)`, for any tree, any
  sources and any order by depth of what they name (`SCOrder`). `ScopeInv`
  keeps the shape of a tree: nothing is below what is not a directory, marks
  are on directories, no file is dark (`TreeIs`). From that alone follow the
  walk and pull. A marker is found where it takes something out, because an
  include is looked at after all shorter ones and is passed over only where one
  of them is skipped already (`LookedRuns`, by induction over the order); so what
  is skipped is marked and what is marked is skipped or refused (`MarkedIsSkipped`,
  `SkippedIsMarked`), a walk lists what is wanted and nothing else
  (`FoundIsWanted`, `WantedIsFound`) but for second links to a file
  (`HiddenIs`), and what is dark and holds something wanted is come across
  (`DarkIsRefused`). The attempt showed that an order by depth alone, which the
  sort operator used before did not fix where two paths are as deep, must be
  stated: `SCOrderAssumption`. `SCPathsAssumption` says what paths are and
  `SCSourcesAssumption` that a source names paths of the tree. `DeadWasGone`:
  `SCSpec => OnlyGoneIsDead`. `GoneInv`: what is gone now is among what the push
  under way has seen gone, so a file it declares dead, proved absent by the
  resolver at that moment, was gone. `DeviceIsComponents`: a behaviour of
  `MCDevice` is a behaviour of each of its components, the others standing
  still. So `ScopeExact` (`DeviceSpec => []ScopeIsExact`) holds for any
  constants, and `DeviceIsRight`, every property of the run of `MCDevice` at
  once, under the hypotheses of `TombstonesAreTrue`, which that run meets.
* `EvidenceProofs` on `UsageRun` and `HistoryDb`. `ReportsTrue`:
  `URSpec => ReportsAreTrue`, for any readers, pushes, failures and changes by
  the user. `URInv`: until the put no manifest has the run's row, and then the
  manifest is what the run scanned (`PutInv`); an attended run that appended no
  row has none anywhere (`RowInv`); every row gets a verdict, a right one, before
  the core ends (`VerdictInv`); a result or an acceptance means a put, and a put
  without an error a result (`LineInv`); an event file left alone is the one
  scanned (`FreshInv`); and only a reader that ran out of time is asked again
  (`WarmInv`). `RetryTells` shows that merging a retry keeps the row true of what
  each reader said last. `HistoryExact`: `HDSpec => HistoryIsExact`, for any
  commands, batch size, class limit, failures, kills and steps of older and
  newer versions, under `HDAssumption`. Two invariants. `HDInv`: the write lock
  has one holder, for whom the schema is known and stays (`HolderInv`); what a
  command has buffered follows what it has committed (`BuffersInv`); and older
  files are shown only before a row was committed (`ReaderInv`). `HEInv`, about
  which rows are there: the table has the newest rows of each command, in order,
  an older mm's before them and none while an import is due (`RowsInv`); an
  older mm's files have ever greater numbers (`FilesInv`); what an import has
  read of a file that is as it was measured is all of it, and a file that is not
  has a row newer than everything measured, so it never becomes equal again
  (`ImportInv`); and the rows of a file that is as it was imported are in the
  table or older than the newest that are kept (`CoverInv`). `HEInv` was checked
  with TLC (853,833 states) before it was proved. What pruning keeps is the
  counting lemmas' part: the places of a finite set of numbers are ranked without
  a gap, so `Prune` is a sequence, keeps the order, and keeps the newest of a
  class whatever it is joined with. `EvidenceTrue`:
  `URSpec /\ HDSpec => EvidenceIsTrue`, from both.
* `SetupProofs` on `Upgrade`, for any number of commands, releases and ticks. `SwapsSafe`:
  `UPSpec => []SwapsAreSafe`. `UPInv`: who is past `acquire_lock` owns the mm
  lock (`Locked`), pipx runs alone (`Alone`), a forced one began over a
  pinned install (`ForcedOnlyOverPinned`), and the rows logged together with
  those that commands are about to log stay below the version the cache has seen
  (`Logged`), though these commands hold no lock and any number of them may be
  between their look at the cache and their row. `DueCounts` is the counting
  this takes; `UPFinite`, that the commands are finitely many, is its assumption.
  `RetriesWait`: `UPSpec => RetryGap`, where
  `Claims` says that while the clock goes on and the cache is whole the claim
  in the cache is not before the last attempt at its release; the history
  `upTried` remembers that attempt.
* `SetupProofs` on `FleetKey`, for any number of machines, salts, copies and deliveries.
  `FleetKeySafe`: `FKSpec => FleetKeyIsSafe`. `FKInv`: every key in use was
  drawn (`Drawn`), a folder's blobs of its own devices are under the key of the
  configuration (`OwnKey`, `ConfigKey`) and nobody else has others of them
  (`OwnerHas`), a run that makes a device uses a new id (`Fresh`) and one that
  syncs the configured key (`Synced`).
* `LocalProofs`. `GateExact` and `LinksWanted` of `SkillLinks`, for any number
  of concurrent versions: `SLInv` says that published metadata is not ahead of
  its payload and that the rows a run has been through are done. `EditsAreKept`
  and `KeptStaysKept` of `ConflictResolve`, under `CalmResolve`: the three
  faults `CRFaults` can name, which the walk does not look for (section 3), are
  not among them. `CRInv`: a copy is local exactly when its name, or its era,
  says so (`LabelInv`), a walk sees the document it read (`WalkInv`), and after
  "keep" no copy of the peer's version is left and a pull meets no conflict
  with it (`SettledInv`). `CursorHistoryKept`: `CUSpec => HistoryKept`, for any
  number of hooks, generations, runs, directories and days. `CursorInv`: who
  holds the lock of the spool, alone, has room in it (`SpoolsInv`); no row or
  entry of a generation is older than its first report (`ReportsInv`); a pass
  is going to write no less than the history has, and the batch it is going to
  unlink is folded or superseded (`PassInv`, `UnlinkInv`). The invariant was
  checked beside the runs before it was proved. `CUSets` says what keys are: a
  run has another key than any generation. `LocalProofs` also puts the
  components of `MCLocal` together, with those of `SetupProofs`.
  `ScenesAreComponents`: a behaviour of `MCLocal` is a
  behaviour of each component, the others standing still. So `LocalTypes`
  (`Spec => []TypeOK`) and `LocalIsRight`, every property of the run of `MCLocal`
  at once, follow for any constants, under `CalmResolve`.

Induction. The library's induction theorems take an operator and cannot be
used; where a proof needs one (`UpFromZero`, `MinIsMember`, `SumsExist`), it takes a minimal
element of a set by the well-foundedness of strict inclusion on finite sets,
which needs no operator.

### Only model-checked

* Liveness: `EverythingAccounted`, `EventuallyPublished`, `WalkConverges`,
  `NonBlockingCallEnds`. Fairness and `ENABLED` are out of the prover's reach.
* What is defined by a fold or a recursion over data: `FiguresAreRight` of the
  retro, and of `LedgersAreExact` the parts `LedgerIsExact`, `MuseIsExact` and `TrustExpires`.
* The combined type invariant of `MCRetro`, whose Codex part needs a fact about
  `SelectSeq` that only an induction gives. The types of the token cache, the
  walk, the locked caches and the capture are proved with their invariants.

## 5. Plan

Done: `Push` and `Pull` with their runs and proofs; the locked caches with
their refinement; key header, contents of a source, conflict resolution,
self-update, skill links, events tail, usage readers, histories, and the
figures of the retro.

Left, in this order:

1. `Fleet`: two devices, each with the pull of `Pull` and an atomic push, for
   convergence and the spread of a deletion. Abstract specification: a set of
   lines per mergeable path that only grows.
2. `AtomicPublish` (`fsutil.py`, `storage/local.py`): temporary file, fsync,
   rename and directory flush, against crashes and sweeps; refines an atomic
   register, which is what `Push` uses.
3. The Antigravity reader, whose store is its own kind of database.
4. Proofs: `MuseIsExact`, and the figures of the retro that are no sums.

## 6. Not modelled

In pull: the version gate and the device filter, unknown sources and excludes
(paths are those they let through), case collisions, and the summary a run
leaves. In push: dry runs, the refusal of newer formats and device
registration. In the usage readers: Antigravity, and the record formats of
every tool (a line is what the reader makes of it). In the events tail: GitHub
look-ups, prompts and skill rows. In the histories: the filters of `mm log`
and the detection of a damaged database. In the retro: rendering, GitHub, skill
and prompt tables. The keyring, the reading of git configuration, configuration
editing, the age sweeps of retention, status and the text of every message are
left out; `PROJECT.json` lists each component with its reason.
