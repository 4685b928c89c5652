------------------------------- MODULE MCRetro --------------------------------
(*****************************************************************************)
(* The readers of usage and the caches they read through, one at a time:    *)
(* each behaviour is about one component, the scene, and the others stand   *)
(* still.  The small corpora of rows are written out below.                 *)
(*****************************************************************************)
EXTENDS LockedJson, SeenSources, SessionWalk, EventsCapture, TokenCache, RetroGit, RetroHosts, RetroSessions, CodexScan, CodexLedger, MuseLedger, TLC

CONSTANTS none

VARIABLE scene   \* the component this behaviour is about

\* Rows the retro may find on disk.
MadeCommit(k, d, who) == [key |-> k, date |-> d, by |-> who]
GitSnap(dev, since, ts, disc, cs) ==
  [dev |-> dev, since |-> since, ts |-> ts, discovery |-> disc, commits |-> cs]
GitSnaps ==
  { GitSnap("d1", 4, 9, "ok", <<MadeCommit("a", 7, "me"), MadeCommit("b", 8, "me")>>),
    GitSnap("d1", 9, 13, "partial", <<MadeCommit("c", 12, "me")>>),
    GitSnap("d1", 10, 15, "ok", <<MadeCommit("b", 8, "me"), MadeCommit("d", 13, "you")>>),
    GitSnap("d2", 4, 15, "empty", <<>>),
    GitSnap("d2", 12, 13, "ok", <<MadeCommit("a", 9, "me"), MadeCommit("d", 13, "you"), MadeCommit("e", 15, "bot")>>),
    GitSnap("d2", none, 14, "ok", <<MadeCommit("b", 24, "me")>>) }
PushRows == {[dev |-> "d2", ts |-> 9, emails |-> {"you"}], [dev |-> "d1", ts |-> 1, emails |-> {"me"}]}
Locals == {none, {}, {"me"}}

\* Three rollouts, two of one day; the second has a turn without an id.
DayOfRollout == <<1, 1, 2>>
TurnsOfRollout == <<{"a"}, {""}, {"b"}>>

Family == [gpt |-> "codex", codexmini |-> "codex", muse |-> "muse", grok |-> "grok"]
HostRow(d, t, hosts, detail, tie, sib, sources, partial, degraded, valid) ==
  [dev |-> d, ts |-> t, hosts |-> hosts, detail |-> detail, tie |-> tie, sib |-> sib,
   sources |-> sources, partial |-> partial, degraded |-> degraded, valid |-> valid]
OfModels(n, by) == [total |-> n, by |-> by]
TwoHosts == [codex |-> (4 :> 2 @@ 5 :> 3), other |-> (5 :> 2)]
Both == {"r1", "r2"}
HostRows ==
  { HostRow("m1", 5, TwoHosts, 4 :> OfModels(2, [gpt |-> 2]) @@ 5 :> OfModels(5, [gpt |-> 3, muse |-> 2]),
            1, 1, Both, {}, {}, TRUE),
    HostRow("m1", 5, TwoHosts, 4 :> OfModels(2, [gpt |-> 2]) @@ 5 :> OfModels(5, [gpt |-> 2, muse |-> 2]),
            1, 2, Both, {}, {}, TRUE),
    HostRow("m1", 5, TwoHosts, 4 :> OfModels(2, [gpt |-> 2]) @@ 5 :> OfModels(6, [gpt |-> 3, muse |-> 2]),
            1, 3, Both, {}, {}, TRUE),
    HostRow("m1", 4, [codex |-> (4 :> 2)], none, 1, 1, Both, {}, {}, TRUE),
    HostRow("m2", 4, [codex |-> (4 :> 2), other |-> (4 :> 1)],
            4 :> OfModels(3, [gpt |-> 2, codexmini |-> 1]), 1, 1, {"r1"}, {}, {"r2"}, TRUE),
    HostRow("m2", 6, [grok |-> (5 :> 1 @@ 6 :> 1)],
            5 :> OfModels(1, [gpt |-> 1]) @@ 6 :> OfModels(1, [grok |-> 1]), 1, 1, Both, {"r1"}, {"r1"}, TRUE),
    HostRow("m2", 8, TwoHosts, none, 1, 1, Both, {}, {}, TRUE),
    HostRow("m2", 3, [muse |-> (2 :> 1)], 2 :> OfModels(1, [muse |-> 1]), 1, 1, Both, {}, {}, FALSE),
    HostRow("m3", 5, <<>>, none, 1, 1, {"r1"}, {"r1"}, {}, TRUE) }
Registries == {none, {"m1", "m2"}, {}}

Session(root, p, last, n, tokens) ==
  [root |-> root, project |-> p, last |-> last, sessions |-> n, tokens |-> tokens]
SessionSnap(d, t, schema, rs) == [dev |-> d, ts |-> t, schema |-> schema, records |-> rs]
SessionSnaps ==
  { SessionSnap("m1", 8, "v2", {Session("", "p", 8, 1, 1 :> 2)}),
    SessionSnap("m1", 10, "v2", {Session("a", "p", 9, 2, 1 :> 3), Session("b", "p", 4, 1, 0 :> 1)}),
    SessionSnap("m1", 11, "v2", {Session("", "p", 11, 2, none)}),
    SessionSnap("m1", 12, "v2", {Session("a", "p", 9, 2, none), Session("b", "p", 12, 2, 0 :> 1 @@ 1 :> 1)}),
    SessionSnap("m1", 13, "v2", {Session("a", "p", none, 0, <<>>)}),
    SessionSnap("m1", 6, "v2", {Session("a", "p", 6, 5, 0 :> 4)}),
    SessionSnap("m2", 9, "v1", {Session("", "p", 9, 1, none)}),
    SessionSnap("m2", 11, "v2", {Session("a", "q", 5, 3, 0 :> 2), Session("a", "p", 10, 1, 1 :> 1)}),
    SessionSnap("m2", 12, "v2", {Session("a", "q", 12, 4, 0 :> 2 @@ 1 :> 1)}) }

allVars == <<scene, ljVars, ssVars, swVars, ecVars, tcVars, rgVars, rhVars, rsVars, cxVars, clVars, mlVars>>

Scene(name) == scene = name /\ UNCHANGED scene

Init ==
  /\ scene \in {"json", "seen", "walk", "events", "tokens", "git", "hosts", "sessions", "codex", "ledger", "muse"}
  /\ LJInit /\ (scene # "json" => ljDurable)
  /\ SSInit
  /\ SWInit /\ (scene # "walk" => swVer[1][CHOOSE f \in SWLogs : TRUE] = 1)
  /\ ECInit
  /\ TCInit
  /\ RGInit /\ (scene # "git" => rgCorpus = {} /\ rgLocal = {})
  /\ RHInit /\ (scene # "hosts" => rhCorpus = {})
  /\ RSInit /\ (scene # "sessions" => rsCorpus = {})
  /\ CXInit
  /\ CLInit
  /\ MLInit

JsonScene == Scene("json") /\ LJNext
             /\ UNCHANGED <<ssVars, swVars, ecVars, tcVars, rgVars, rhVars, rsVars,
                cxVars, clVars, mlVars>>
SeenScene == Scene("seen") /\ SSNext
             /\ UNCHANGED <<ljVars, swVars, ecVars, tcVars, rgVars, rhVars, rsVars,
                cxVars, clVars, mlVars>>
WalkScene == Scene("walk") /\ SWNext
             /\ UNCHANGED <<ljVars, ssVars, ecVars, tcVars, rgVars, rhVars, rsVars,
                cxVars, clVars, mlVars>>
EventsScene == Scene("events") /\ ECNext
               /\ UNCHANGED <<ljVars, ssVars, swVars, tcVars, rgVars, rhVars,
                  rsVars, cxVars, clVars, mlVars>>
TokensScene == Scene("tokens") /\ TCNext
               /\ UNCHANGED <<ljVars, ssVars, swVars, ecVars, rgVars, rhVars,
                  rsVars, cxVars, clVars, mlVars>>
GitScene == Scene("git") /\ RGNext
            /\ UNCHANGED <<ljVars, ssVars, swVars, ecVars, tcVars, rhVars, rsVars,
               cxVars, clVars, mlVars>>
HostsScene == Scene("hosts") /\ ReadHostRow
              /\ UNCHANGED <<ljVars, ssVars, swVars, ecVars, tcVars, rgVars, rsVars,
                 cxVars, clVars, mlVars>>
SessionsScene == Scene("sessions") /\ ReadSessions
                 /\ UNCHANGED <<ljVars, ssVars, swVars, ecVars, tcVars, rgVars,
                    rhVars, cxVars, clVars, mlVars>>
CodexScene == Scene("codex") /\ CXNext
              /\ UNCHANGED <<ljVars, ssVars, swVars, ecVars, tcVars, rgVars, rhVars,
                 rsVars, clVars, mlVars>>
LedgerScene == Scene("ledger") /\ CLNext
               /\ UNCHANGED <<ljVars, ssVars, swVars, ecVars, tcVars, rgVars,
                  rhVars, rsVars, cxVars, mlVars>>
MuseScene == Scene("muse") /\ MLNext
             /\ UNCHANGED <<ljVars, ssVars, swVars, ecVars, tcVars, rgVars,
                rhVars, rsVars, cxVars, clVars>>

Next == JsonScene \/ SeenScene \/ WalkScene \/ EventsScene \/ TokensScene \/ GitScene \/ HostsScene \/ SessionsScene \/ CodexScene
        \/ LedgerScene \/ MuseScene

\* The fairness of the components, in the behaviours that are about them.
Fairness ==
  /\ \A p \in LJProcs :
       WF_allVars(Scene("json") /\ LJStep(p)
                  /\ UNCHANGED <<ssVars, swVars, ecVars, tcVars, rgVars, rhVars, rsVars, cxVars, clVars, mlVars>>)
  /\ WF_allVars(Scene("walk") /\ SWStep
                /\ UNCHANGED <<ljVars, ssVars, ecVars, tcVars, rgVars, rhVars, rsVars, cxVars, clVars, mlVars>>)

Spec == Init /\ [][Next]_allVars /\ Fairness
-----------------------------------------------------------------------------
\* Once the logs and the disk are quiet, every session walk brings the records of
\* the idle projects nearer to their logs, until they agree: the rotation of
\* session_resume_after starves none (SessionWalk's RotationConverges).
WalkConverges == scene = "walk" => RotationConverges

\* What a reader takes from a cache is what the files behind it say, and a cache
\* is torn only when a write was cut short.
CachesAreExact == (scene = "tokens" => CacheIsExact) /\ (scene = "json" => TornOnlyAfterCut)

\* A pass over the Codex store counts what was spent, once, and so does a pass over
\* the Muse logs.
LedgersAreExact ==
  /\ scene = "codex" => CodexIsExact
  /\ scene = "ledger" => LedgerIsExact
  /\ scene = "muse" => MuseIsExact

\* What the fleet retro reports of commits, hosts and sessions.
FiguresAreRight ==
  /\ scene = "git" => CommitFigures
  /\ scene = "hosts" => HostFigures
  /\ scene = "sessions" => SessionFigures

\* The state of the component has its shape; the others stand still.
TypeOK ==
  /\ scene = "json" => LJTypeOK
  /\ scene = "seen" => SSTypeOK
  /\ scene = "walk" => SWTypeOK
  /\ scene = "events" => ECTypeOK
  /\ scene = "tokens" => TCTypeOK
  /\ scene = "git" => RGTypeOK
  /\ scene = "hosts" => RHTypeOK
  /\ scene = "sessions" => RSTypeOK
  /\ scene = "codex" => CXTypeOK
  /\ scene = "ledger" => CLTypeOK
  /\ scene = "muse" => MLTypeOK
===============================================================================
