---------------------------- MODULE SourceScope -----------------------------
(***************************************************************************)
(* manifest.py: which files of a source are its own.  A source names       *)
(* directories and files below its root; out of it fall what lies in a     *)
(* nested git checkout, behind a symbolic link, in a directory with a skip *)
(* marker (.extend-root, or the Local State of a browser profile), in an   *)
(* excluded directory, and what a pattern excludes.  Push walks the tree,  *)
(* and later tells from it what may be recorded as deleted; pull asks,     *)
(* path by path, what a peer's file may be written to.  The tree changes   *)
(* between the walk and the rest of the push.                              *)
(***************************************************************************)
EXTENDS Integers, Sequences, FiniteSets, FiniteSetsExt, SequencesExt

CONSTANTS SCDirs, SCFiles,  \* paths below the root, as sequences of names
          SCSources,        \* configurations: type, dirs, files, excluded
          SCOrder,          \* what each names, in the order it is looked at
          SCPolicy,         \* directory names of EXCLUDED
          SCPlaces,         \* paths the user changes
          SCEdits           \* bound: changes to the tree

\* A path names something below the root, and what is on the way to it is a directory.
ASSUME SCPathsAssumption ==
  /\ \A p \in SCDirs \cup SCFiles :
       /\ p \in Seq(ToSet(p)) /\ p # <<>>
       /\ \A i \in 1..(Len(p) - 1) : SubSeq(p, 1, i) \in SCDirs
  /\ SCDirs \cap SCFiles = {} /\ SCPlaces \subseteq SCDirs \cup SCFiles

\* A source names directories and files of the tree; only a generic one is told them.
ASSUME SCSourcesAssumption ==
  \A s \in SCSources :
    /\ s.dirs \subseteq SCDirs /\ s.files \subseteq SCFiles
    /\ s.type # "generic" => s.files = {}

\* Sorted by depth; within a depth, as the configuration has it.
ByDepth(order, paths) ==
  /\ order \in Seq(paths) /\ ToSet(order) = paths
  /\ \A i, j \in DOMAIN order : i < j => Len(order[i]) <= Len(order[j])
ASSUME SCOrderAssumption ==
  \A s \in SCSources : ByDepth(SCOrder[s].all, s.dirs \cup s.files) /\ ByDepth(SCOrder[s].dirs, s.dirs)

VARIABLES scTree,   \* kind of each path; git, extend, profile: directories; twins: one inode
          scSource,
          scFiles, scDead,   \* the manifest last published: entries and tombstones
          scRun,    \* the push under way
          scLeft

scVars == <<scTree, scSource, scFiles, scDead, scRun, scLeft>>

SCPaths == SCDirs \cup SCFiles
FullTree == [kind |-> [p \in SCPaths |-> IF p \in SCDirs THEN "dir" ELSE "file"],
             git |-> {}, extend |-> {}, profile |-> {}, twins |-> FALSE]

PathsUpto == [p \in SCPaths \cup {<<>>} |-> {SubSeq(p, 1, i) : i \in 1..Len(p)}]
Upto(p) == PathsUpto[p]
Above(p) == Upto(p) \ {p}
Dir(p) == SubSeq(p, 1, Len(p) - 1)
Below(p, dirs) == \E d \in dirs : IsPrefix(d, p)   \* _under_skip_prefix; the root is <<>>
Shallowest(paths) == {p \in paths : \A q \in paths : Len(p) <= Len(q)}
Policy(d) == ToSet(d) \cap SCPolicy # {}
-----------------------------------------------------------------------------
\* A "dark" directory can be seen, and nothing in it.  nested_repo_root: the first
\* component that stops the way to p, where it is a checkout.
Stops(t, p) == Shallowest({c \in Upto(p) : t.kind[c] # "dir" \/ c \in t.git})
Checkout(t, p) == {c \in Stops(t, p) : t.kind[c] = "dir"}
Dark(t, p) == {c \in Stops(t, p) : t.kind[c] = "dark"}
BehindLink(t, p) == \E c \in Upto(p) : t.kind[c] = "link"
\* What lstat says; through a link, the tree the link leads to is as the source was.
Lstat(t, p) == IF \E c \in Above(p) : t.kind[c] = "dark" THEN "error"
               ELSE IF \E c \in Above(p) : t.kind[c] = "link" THEN FullTree.kind[p]
               ELSE t.kind[p]

\* _local_state_parent_prefix: the nearest directory above p that is a browser profile.
ProfileAbove(t, p) ==
  LET able == {d \in Above(p) \cup {<<>>} :
                 /\ d \in t.profile /\ ~BehindLink(t, d)
                 /\ Checkout(t, d) \subseteq {d}}
  IN  {d \in able : \A e \in able : Len(e) <= Len(d)}

\* _collect_marker_files: the directories a scan from i comes to; it does not look
\* below a profile, a checkout, an excluded directory, or a marker other than i's.
ComesTo(t, i) ==
  {d \in SCDirs :
     /\ IsPrefix(i, d) /\ t.kind[d] \in {"dir", "dark"}
     /\ \A e \in {c \in Upto(d) : IsPrefix(i, c)} :
          /\ ~Policy(e) /\ e \notin t.git
          /\ e # d => e \notin t.profile /\ (e = i \/ e \notin t.extend)}
Markers(t, i) == {d \in ComesTo(t, i) : d \in t.profile \/ (d \in t.extend /\ d # i)}

\* marker_skip_globs: the skipped directories, and the dark ones a strict scan
\* stumbles on.  What an earlier include covers is not looked at again.
LookAbove(t, acc, p) ==
  IF Below(p, acc.skip) THEN acc
  ELSE [skip |-> acc.skip \cup ProfileAbove(t, p),
        dark |-> acc.dark \cup {d \in Above(p) : t.kind[d] = "dark" /\ Checkout(t, d) = {}}]
\* Mutant: a marker is only looked for above an include.
OnlyParents(t, acc, i) == acc
LookBelow(t, acc, i) ==
  IF Below(i, acc.skip) \/ Checkout(t, i) # {} THEN acc
  ELSE IF Dark(t, i) # {} THEN [skip |-> acc.skip, dark |-> acc.dark \cup Dark(t, i)]
  ELSE IF BehindLink(t, i) \/ t.kind[i] # "dir" THEN acc
  ELSE [skip |-> acc.skip \cup Markers(t, i),
        dark |-> acc.dark \cup {d \in ComesTo(t, i) : t.kind[d] = "dark"}]

NoMarks == [skip |-> {}, dark |-> {}]
LookAt(t, way, acc, p) == IF way = "above" THEN LookAbove(t, acc, p) ELSE LookBelow(t, acc, p)
Looked(t, way, order, from) ==
  LET marks[k \in 0..Len(order)] == IF k = 0 THEN from ELSE LookAt(t, way, marks[k - 1], order[k])
  IN  marks[Len(order)]
MarksAbove(t, source) == Looked(t, "above", SCOrder[source].all, NoMarks)
MarksBelow(t, source, above) ==
  IF <<>> \in above.skip THEN above ELSE Looked(t, "below", SCOrder[source].dirs, above)
MarkerSkips(t, source) ==
  IF source.type # "generic" THEN NoMarks ELSE MarksBelow(t, source, MarksAbove(t, source))
-----------------------------------------------------------------------------
\* Where each kind of source is walked from.
Starts(source) ==
  CASE source.type = "claude" -> {d \in SCDirs : Len(d) = 3 /\ d[1] = "projects" /\ d[3] = "memory"}
    [] source.type = "muse" -> {d \in SCDirs : d = <<"memory">>}
    [] OTHER -> source.dirs

\* _collect_regular_files_scandir: the directories a walk from i comes to.
Walked(t, i, skip) ==
  {d \in SCDirs :
     /\ IsPrefix(i, d) /\ t.kind[d] \in {"dir", "dark"}
     /\ \A e \in {c \in Upto(d) : IsPrefix(i, c)} :
          ~Below(e, skip) /\ ~Policy(e) /\ (e # d => e \notin t.git)}

\* One path of each inode, the first by name; a Muse file with a second link is none.
Twins == {f \in SCFiles : f = <<"memory", "g">> \/ f = <<"projects", "q", "memory", "f">>}
Hidden(t, source, found) ==
  LET twins == {f \in Twins : t.twins /\ t.kind[f] = "file"}
  IN  IF Cardinality(twins) < 2 THEN {}
      ELSE CASE source.type = "muse" -> twins
             [] source.type = "generic" /\ twins \subseteq found -> {<<"projects", "q", "memory", "f">>}
             [] OTHER -> {}

\* walk_claude_source, walk_muse_source, walk_generic_source.
WalkPast(t, source, marks) ==
  LET starts == {i \in Starts(source) : ~Below(i, marks.skip)}
      named == {f \in source.files : ~Below(f, marks.skip)}
      way == starts \cup {Dir(f) : f \in named}
      open == {i \in starts : Stops(t, i) = {}}
      dirs == UNION {Walked(t, i, marks.skip) : i \in open}
      listed == {f \in SCFiles : Dir(f) \in dirs \ t.git}
                  \cup {f \in named : Checkout(t, Dir(f)) = {} /\ Lstat(t, f) = "file"}
      found == {f \in listed : t.kind[f] = "file" /\ ~BehindLink(t, f)
                              /\ ~Policy(f) /\ f \notin source.excluded}
  IN  IF <<>> \in marks.skip THEN [files |-> {}, roots |-> {}, refused |-> marks.dark # {}]
      ELSE [files |-> found \ Hidden(t, source, found),
            roots |-> UNION {Checkout(t, d) : d \in way} \cup (dirs \cap t.git),
            refused |-> \/ marks.dark # {} \/ \E d \in way : Dark(t, d) # {}
                        \/ \E d \in dirs : t.kind[d] = "dark"]
Walk(t, source) == WalkPast(t, source, MarkerSkips(t, source))
-----------------------------------------------------------------------------
\* A path is gone where a walk of its components ends at nothing.
Gone(t, p) == ~BehindLink(t, p) /\ Lstat(t, p) \in {"absent", "dir"}
Idle == [pc |-> "idle"]

SCTypeOK ==
  /\ \A p \in SCPaths : \A c \in Above(p) : scTree.kind[c] # "dir" => scTree.kind[p] = "absent"
  /\ scFiles \subseteq SCFiles /\ scDead \subseteq SCFiles /\ scFiles \cap scDead = {}

\* After a first push of the whole tree.
SCInit ==
  /\ scTree = FullTree /\ scSource \in SCSources
  /\ scFiles = Walk(FullTree, scSource).files /\ scDead = {}
  /\ scRun = Idle /\ scLeft = SCEdits

\* External: the user, an agent, a renderer, a browser.
Becomes(t) ==
  /\ scLeft > 0 /\ scLeft' = scLeft - 1 /\ t # scTree /\ scTree' = t
  /\ scRun' = IF scRun.pc = "idle" THEN scRun
              ELSE [scRun EXCEPT !.gone = @ \cup {f \in SCFiles : Gone(t, f)}]
  /\ UNCHANGED <<scSource, scFiles, scDead>>

\* p is put there: removed, a link, made unreadable, or as it was, with all in it.
PutAt(p, kind) ==
  /\ \A c \in Above(p) : scTree.kind[c] = "dir"
  /\ kind = "dark" => p \in SCDirs
  /\ LET below == {q \in SCPaths : IsPrefix(p, q)}
     IN  Becomes([scTree EXCEPT
           !.kind = [q \in SCPaths |-> IF q \notin below THEN @[q]
                                       ELSE IF kind = "whole" THEN FullTree.kind[q]
                                       ELSE IF q = p THEN kind ELSE "absent"],
           !.git = @ \ below, !.extend = @ \ below, !.profile = @ \ below,
           !.twins = @ /\ Twins \cap below = {}])

Toggle(set, d) == IF d \in set THEN set \ {d} ELSE set \cup {d}
Mark(d) ==
  /\ d \in {<<>>} \cup {q \in SCDirs : scTree.kind[q] = "dir"}
  /\ \/ d # <<>> /\ Becomes([scTree EXCEPT !.git = Toggle(@, d)])
     \/ d # <<>> /\ Becomes([scTree EXCEPT !.extend = Toggle(@, d)])
     \/ Becomes([scTree EXCEPT !.profile = Toggle(@, d)])
LinkTwins == Becomes([scTree EXCEPT !.twins = ~@])
-----------------------------------------------------------------------------
\* build_manifest_v2, strict.
ScanSource ==
  /\ scRun.pc = "idle"
  /\ LET walk == Walk(scTree, scSource)
     IN  /\ ~walk.refused
         /\ scRun' = [pc |-> "scanned", walk |-> walk, gone |-> {f \in SCFiles : Gone(scTree, f)}]
  /\ UNCHANGED <<scTree, scSource, scFiles, scDead, scLeft>>

\* What the earlier manifest says of this source, as push sees it: without the paths
\* excluded or skipped now; under a checkout frozen as published, or left out; and
\* without what is behind a link.
Prior(skip) ==
  LET roots == scRun.walk.roots
      stays(f) == ~Below(f, skip) /\ f \notin scSource.excluded
      files == {f \in scFiles : stays(f)}
      dead == {f \in scDead : stays(f)}
      frozen == {f \in files \ scRun.walk.files : Below(f, roots) /\ f \notin dead}
      unlinked(f) == Below(f, roots) \/ ~BehindLink(scTree, f)
  IN  [files |-> {f \in files : (~Below(f, roots) \/ f \in frozen) /\ unlinked(f)},
       dead |-> {f \in dead : unlinked(f)}, frozen |-> frozen]

\* Mutant: what the walk did not find is taken for gone.
TrustsTheWalk(prior, files) == FALSE
\* _prove_omitted_paths_absent, and the strict probes of the filters before it.
Unproven(prior, files) ==
  \/ MarkerSkips(scTree, scSource).dark # {}
  \/ \E f \in (prior.files \cup prior.dead) : ~Below(f, scRun.walk.roots) /\ Lstat(scTree, f) = "error"
  \/ \E f \in prior.files \ files : Lstat(scTree, f) \in {"file", "error"}

Publish(prior, files) ==
  /\ ~Unproven(prior, files)
  /\ scFiles' = files /\ scDead' = (prior.dead \cup prior.files) \ files
PublishFrom(prior) == Publish(prior, scRun.walk.files \cup prior.frozen)
PublishScope ==
  /\ scRun.pc = "scanned" /\ PublishFrom(Prior(MarkerSkips(scTree, scSource).skip))
  /\ scRun' = Idle /\ UNCHANGED <<scTree, scSource, scLeft>>

\* A refusal, or a death.
GiveUpPush == scRun.pc = "scanned" /\ scRun' = Idle /\ UNCHANGED <<scTree, scSource, scFiles, scDead, scLeft>>

SCNext ==
  \/ \E p \in SCPlaces, kind \in {"absent", "link", "dark", "whole"} : PutAt(p, kind)
  \/ \E d \in (SCPlaces \cap SCDirs) \cup {<<>>} : Mark(d)
  \/ LinkTwins \/ ScanSource \/ PublishScope \/ GiveUpPush

SCSpec == SCInit /\ [][SCNext]_scVars
-----------------------------------------------------------------------------
\* What a source is meant to hold, said of each file: it is there, the source names
\* it, and nothing above it takes it out.
Named(source, f) == (source.type = "generic" /\ f \in source.files) \/ Below(f, Starts(source))
TakenOut(t, source, f) ==
  \/ Above(f) \cap t.git # {} \/ Policy(f) \/ f \in source.excluded
  \/ /\ source.type = "generic"
     /\ \E d \in Above(f) \cup {<<>>} :
          d \in t.profile \/ (d \in t.extend /\ Below(Dir(d), source.dirs))
Wanted(t, source) ==
  {f \in SCFiles : t.kind[f] = "file" /\ Named(source, f) /\ ~TakenOut(t, source, f)}

\* A walk finds those, but for second links to a file; and one that does not refuse
\* has not passed over a directory, unreadable now, that holds one.
Readable(t, d) == [t EXCEPT !.kind = [p \in SCPaths |-> IF IsPrefix(d, p) THEN FullTree.kind[p] ELSE t.kind[p]]]
WalkIsExact ==
  LET walk == Walk(scTree, scSource)
      wanted == Wanted(scTree, scSource)
      twins == IF scTree.twins THEN wanted \cap Twins ELSE {}
  IN  IF walk.refused THEN \E d \in SCDirs : scTree.kind[d] = "dark"
      ELSE /\ walk.files \subseteq wanted /\ wanted \ walk.files \subseteq twins
           /\ scSource.type # "muse" /\ twins # {} => twins \cap walk.files # {}
           /\ \A d \in SCDirs : scTree.kind[d] = "dark" =>
                \A f \in Wanted(Readable(scTree, d), scSource) : ~IsPrefix(d, f)

\* Pull, _filter_excluded_paths with the checkouts above the incoming paths, and the
\* links that are left alone: what it writes is what the next walk finds, and it
\* takes what a walk would publish.
TakesIn(t, source, skip, f) ==
  /\ ~Below(f, skip) /\ Checkout(t, Dir(f)) = {} /\ f \notin source.excluded
  /\ ~BehindLink(t, f) /\ Lstat(t, f) \in {"absent", "file"}
Written(t, f) == [t EXCEPT !.kind = [p \in SCPaths |-> IF IsPrefix(p, f) THEN FullTree.kind[p] ELSE t.kind[p]]]
Taken(t, source, skip) == {f \in SCFiles : TakesIn(t, source, skip, f)}
PullAgreesOn(taken) ==
  \A f \in SCFiles :
    /\ (f \in taken /\ Named(scSource, f) /\ ~Policy(f))
         => f \in Wanted(Written(scTree, f), scSource)
    /\ f \in Wanted(scTree, scSource) => f \in taken
PullAgrees == PullAgreesOn(Taken(scTree, scSource, MarkerSkips(scTree, scSource).skip))

\* A file that leaves the manifest is recorded as deleted only if at some moment of
\* the push it was gone from where it was; marking, linking or cloning over it, or
\* hiding it from the walk, records nothing.
OnlyGoneIsDead ==
  [][scDead' \subseteq scDead \/ scDead' \ scDead \subseteq scRun.gone]_scVars
=============================================================================
