---------------------------- MODULE RetroSessions ----------------------------
(***************************************************************************)
(* skills/retro_fleet/aggregator.py, aggregate_sessions.  A push writes a  *)
(* sessions-snapshot: one record for every project of every Claude root,   *)
(* each the whole inventory of the project at that instant.  The reader    *)
(* keeps the latest record of each (device, root, project), drops records  *)
(* of writers that named no root when a sibling with a root is as fresh,   *)
(* drops projects idle since before the window, and sums the rest.         *)
(* One counter stands for the four of a token bucket.                      *)
(***************************************************************************)
EXTENDS Integers, FiniteSets, FiniteSetsExt

CONSTANTS RSSnapshots,         \* the snapshots devices may have written
          RSSince, RSUntil,    \* the window, in hours
          RSDay,               \* hours in a day
          RSNoRoot,            \* the root of a writer that named none
          RSNone

VARIABLES rsCorpus, rsUnread,  \* the snapshots on disk, and those not read yet
          rsLatest,            \* the records kept, each with the instant of its snapshot
          rsOld                \* devices seen on an older schema

rsVars == <<rsCorpus, rsUnread, rsLatest, rsOld>>

\* A snapshot: device, instant, schema ("v1" or "v2") and records; a record: root,
\* project, when its last session was (or RSNone), its sessions, and tokens by day, or
\* RSNone when the walk that counts them was skipped.
Stamped(snap) == {[dev |-> snap.dev, ts |-> snap.ts, rec |-> r] : r \in snap.records}
Key(k) == <<k.dev, k.rec.root, k.rec.project>>
Project(k) == <<k.dev, k.rec.project>>

RSTypeOK == /\ rsUnread \subseteq rsCorpus /\ rsCorpus \subseteq RSSnapshots
            /\ rsLatest \subseteq UNION {Stamped(s) : s \in rsCorpus}
            /\ \A k, l \in rsLatest : Key(k) = Key(l) => k = l
            /\ rsOld \subseteq {s.dev : s \in rsCorpus}

RSInit == /\ rsCorpus \in SUBSET RSSnapshots /\ rsUnread = rsCorpus
          /\ rsLatest = {} /\ rsOld = {}

RSInWindow(t) == RSSince <= t /\ t <= RSUntil

ReadSessions ==
  \E snap \in rsUnread :
    /\ rsUnread' = rsUnread \ {snap}
    /\ IF RSInWindow(snap.ts) /\ snap.schema # "v2"
       THEN rsOld' = rsOld \cup {snap.dev} /\ UNCHANGED rsLatest
       ELSE LET heard == IF RSInWindow(snap.ts) THEN Stamped(snap) ELSE {}
                newer == {k \in heard : \A l \in rsLatest : Key(l) = Key(k) => l.ts < k.ts}
            IN  /\ rsLatest' = {l \in rsLatest : \A k \in newer : Key(k) # Key(l)} \cup newer
                /\ UNCHANGED rsOld
    /\ UNCHANGED rsCorpus

RSSpec == RSInit /\ [][ReadSessions]_rsVars
-----------------------------------------------------------------------------
\* A record without a root gives way to one with a root that is as fresh.
Superseded(k) == /\ k.rec.root = RSNoRoot
                 /\ \E l \in rsLatest : Project(l) = Project(k) /\ l.rec.root # RSNoRoot /\ l.ts >= k.ts
\* A project whose last session was before the window is out of it.
Dormant(k) == k.rec.last # RSNone /\ k.rec.last < RSSince
RSCounted == {k \in rsLatest : ~Superseded(k) /\ ~Dormant(k)}

\* _merge_token_window: the days of the window.
RSWindowDays(k) == IF k.rec.tokens = RSNone THEN {}
           ELSE DOMAIN k.rec.tokens \cap ((RSSince \div RSDay)..(RSUntil \div RSDay))
Tokens(k) == MapThenSumSet(LAMBDA day : k.rec.tokens[day], RSWindowDays(k))
Uncounted(k) == k.rec.sessions > 0 /\ k.rec.tokens = RSNone

Totals == [sessions |-> MapThenSumSet(LAMBDA k : k.rec.sessions, RSCounted),
           tokens |-> MapThenSumSet(Tokens, RSCounted),
           tokenDevices |-> {k.dev : k \in {c \in RSCounted : Tokens(c) > 0}},
           missing |-> {k.dev : k \in {c \in RSCounted : Uncounted(c)}}]
-----------------------------------------------------------------------------
RSReadAll == rsUnread = {}
Heard == UNION {Stamped(s) : s \in {c \in rsCorpus : RSInWindow(c.ts) /\ c.schema = "v2"}}

\* A project that was active in the window is counted, from the newest record any
\* snapshot of the window has of it, whatever the order the files are read in and
\* whichever writer version wrote them.
FreshestIsCounted ==
  RSReadAll => \A k \in Heard :
    (~Dormant(k) /\ \A l \in Heard : Project(l) = Project(k) => l.ts <= k.ts)
      => \E c \in RSCounted : Project(c) = Project(k) /\ c.ts = k.ts

\* A project is counted once for each root that holds it; the record of a writer that
\* named no root is added to them only when it is newer than all of them.
OncePerRoot ==
  RSReadAll => \A c, d \in RSCounted :
    (Project(c) = Project(d) /\ c # d) =>
      /\ c.rec.root # d.rec.root
      /\ c.rec.root = RSNoRoot => c.ts > d.ts

\* Tokens the corpus has for an active project of the window never vanish in silence:
\* either the device's tokens are in the total or the device is named as incomplete.
TokensNeverVanish ==
  RSReadAll => \A k \in Heard :
    (Tokens(k) > 0 /\ ~Dormant(k)) =>
      \/ k.dev \in Totals.tokenDevices \cup Totals.missing
      \/ \E l \in Heard : Project(l) = Project(k) /\ l.ts > k.ts /\ l.rec.sessions = 0

\* The figures of the sessions.
SessionFigures == FreshestIsCounted /\ OncePerRoot /\ TokensNeverVanish
=============================================================================
