------------------------------- MODULE FleetKey -------------------------------
(*****************************************************************************)
(* The key header of a fleet (mm-crypto-init), the machines that create it   *)
(* with mm init --new-fleet or join it with mm init, and the check every     *)
(* command makes before it uses the key.                                     *)
(*                                                                           *)
(* Every machine has its own replica of the storage folder.  The sync tool   *)
(* carries files between replicas when it likes; when two replicas hold      *)
(* different headers it keeps one under the name and the other as a conflict *)
(* copy, the same way round everywhere.  A header is known by its root salt, *)
(* a number whose order is the lexical order of the salts; FKJunk is one      *)
(* that cannot be read.                                                      *)
(*****************************************************************************)
EXTENDS Integers, FiniteSets, FiniteSetsExt

CONSTANTS
  FKMachines,
  FKSalts,      \* salts drawn so far and ever: 1..FKSalts
  FKNames,      \* names a conflict copy of the header may get
  FKInits,      \* device ids a machine may mint
  FKFaults,     \* damages and removals of headers by others than mm
  FKLater,      \* the salt the sync tool gives the name to
  FKNone, FKJunk, FKNewer

ASSUME FKNumbers == /\ FKSalts \in Nat /\ FKFaults \in Nat
                    /\ \A h \in {FKNone, FKJunk, FKNewer} : h \notin Int

VARIABLES
  fkHead,    \* per machine: what the canonical header holds
  fkCopies,  \* per machine and name: what the conflict copy holds
  fkFiles,   \* per machine: device records and blobs
  fkDrawn,   \* salts some header was made with
  fkConf,    \* per machine: the config, its device id and salt
  fkRun,     \* per machine: the command under way
  fkFaults

fkVars == <<fkHead, fkCopies, fkFiles, fkDrawn, fkConf, fkRun, fkFaults>>
fkShared == <<fkDrawn, fkFaults>>

Salts == 1..FKSalts
Headers == Salts \cup {FKJunk, FKNewer}
FKIds == FKMachines \X (1..FKInits)
Records == [id : FKIds, salt : {FKNone}]
Blobs == [id : FKIds, salt : Salts]
FKIdle == [pc |-> "idle"]
FKPcs == {"idle", "recheck", "create", "repair", "unlink", "register", "save", "push"}

FKTypeOK ==
  /\ fkHead \in [FKMachines -> Headers \cup {FKNone}]
  /\ fkCopies \in [FKMachines -> [FKNames -> Headers \cup {FKNone}]]
  /\ fkFiles \in [FKMachines -> SUBSET (Records \cup Blobs)]
  /\ fkDrawn \subseteq Salts
  /\ fkConf \in [FKMachines -> [id : FKIds, salt : Salts] \cup {FKNone}]
  /\ \A m \in FKMachines : fkRun[m].pc \in FKPcs
  /\ fkFaults \in 0..FKFaults

FKInit ==
  /\ fkHead = [m \in FKMachines |-> FKNone]
  /\ fkCopies = [m \in FKMachines |-> [c \in FKNames |-> FKNone]]
  /\ fkFiles = [m \in FKMachines |-> {}]
  /\ fkDrawn = {}
  /\ fkConf = [m \in FKMachines |-> FKNone]
  /\ fkRun = [m \in FKMachines |-> FKIdle]
  /\ fkFaults = 0
-----------------------------------------------------------------------------
\* fetch_crypto_init: what all copies of the header say together.
CopiesOf(m) == {c \in FKNames : fkCopies[m][c] # FKNone}
Contents(m) == ({fkHead[m]} \cup {fkCopies[m][c] : c \in CopiesOf(m)}) \ {FKNone}
Valid(m) == Contents(m) \cap Salts
Status(m) == CASE Contents(m) = {} -> "missing"
               [] FKNewer \in Contents(m) -> "newer"
               [] Valid(m) = {} -> "corrupt"
               [] OTHER -> "ok"
Winner(m) == IF Valid(m) = {} THEN FKNone ELSE Min(Valid(m))

\* Copies with the bytes of a readable canonical header: all that may go.
Bytes(h) == IF h = FKJunk THEN FKNone ELSE h
SafeCopies(m) == {c \in CopiesOf(m) : Bytes(fkHead[m]) = fkCopies[m][c]}
Plan(m) == [winner |-> Winner(m), canonical |-> fkHead[m],
            any |-> CopiesOf(m) # {}, copies |-> SafeCopies(m)]

\* The folder holds nothing but the sync tool's own bookkeeping.
EmptyFolder(m) == Contents(m) = {} /\ fkFiles[m] = {}

Minted(m) == {f.id : f \in fkFiles[m]} \cup (IF fkConf[m] = FKNone THEN {} ELSE {fkConf[m].id})
FreshIds(m) == ({m} \X (1..FKInits)) \ Minted(m)

FKAt(m, pc) == fkRun[m].pc = pc
Goes(m, r) == fkRun' = [fkRun EXCEPT ![m] = r]
Advances(m, pc) == Goes(m, [fkRun[m] EXCEPT !.pc = pc])
Stops(m) == Goes(m, FKIdle) /\ UNCHANGED <<fkHead, fkCopies, fkFiles, fkConf, fkShared>>
-----------------------------------------------------------------------------
\* mm init --new-fleet, first look: only an empty folder takes a new fleet.
LookForNew(m) ==
  /\ FKAt(m, "idle") /\ EmptyFolder(m)
  /\ \E id \in FreshIds(m) :
       Goes(m, [pc |-> "recheck", id |-> id])
  /\ UNCHANGED <<fkHead, fkCopies, fkFiles, fkConf, fkShared>>

\* The prompts took their time: the folder is looked at again.
Recheck(m) ==
  /\ FKAt(m, "recheck")
  /\ IF EmptyFolder(m)
       THEN Advances(m, "create") /\ UNCHANGED <<fkHead, fkCopies, fkFiles, fkConf, fkShared>>
       ELSE Stops(m)

\* put_exclusive: the name is there already.
Taken(m) == fkHead[m] # FKNone

\* The exclusive create, with a new salt; a header that came first refuses, and a
\* newer one found afterwards ends the run with the header in place.
Create(m) ==
  /\ FKAt(m, "create")
  /\ \/ Taken(m) /\ Stops(m)
     \/ /\ ~Taken(m)
        /\ \E s \in Salts \ fkDrawn :
             /\ fkHead' = [fkHead EXCEPT ![m] = s]
             /\ fkDrawn' = fkDrawn \cup {s}
             /\ IF FKNewer \in Contents(m) THEN Goes(m, FKIdle)
                ELSE Goes(m, [pc |-> "register", id |-> fkRun[m].id, salt |-> s])
        /\ UNCHANGED <<fkCopies, fkFiles, fkConf, fkFaults>>

\* mm init: join the fleet whose header is here.  Where the folder is in use and
\* this machine has a device, the user confirms that it is left behind; then the
\* passphrase has to open the keycheck of the header that was read.
LookToJoin(m) ==
  /\ FKAt(m, "idle") /\ Status(m) = "ok"
  /\ \E id \in FreshIds(m) :
       Goes(m, [pc |-> "repair", kind |-> "join", id |-> id, plan |-> Plan(m)])
  /\ UNCHANGED <<fkHead, fkCopies, fkFiles, fkConf, fkShared>>

NeverDrifted(m) == FALSE   \* mutant: the drift check is dropped
\* The storage's key is not the one this device was initialised with.
Drifted(m) == fkConf[m].salt # Winner(m)

\* Every command that uses the key starts here (_init_crypto_session), with the
\* passphrase of the keyring or one that was typed: it opens the keycheck, or the
\* command stops having written nothing.
StartSync(m) ==
  /\ FKAt(m, "idle") /\ fkConf[m] # FKNone /\ Status(m) = "ok" /\ ~Drifted(m)
  /\ Goes(m, [pc |-> "repair", kind |-> "sync", id |-> fkConf[m].id, plan |-> Plan(m)])
  /\ UNCHANGED <<fkHead, fkCopies, fkFiles, fkConf, fkShared>>

Verified(m, plan) ==
  [pc |-> IF fkRun[m].kind = "join" THEN "register" ELSE "push",
   id |-> fkRun[m].id, salt |-> plan.winner]

Unchanged(m, plan) ==
  /\ Status(m) = "ok" /\ Winner(m) = plan.winner
  /\ plan.any => fkHead[m] = plan.canonical

\* apply_crypto_init_repair reads everything again and gives up if the choice or
\* the canonical header changed since.
Repair(m) ==
  LET plan == fkRun[m].plan
      copies == {c \in plan.copies : fkCopies[m][c] = plan.canonical}
  IN /\ FKAt(m, "repair")
     /\ \/ ~Unchanged(m, plan) /\ Stops(m)
        \/ /\ Unchanged(m, plan)
           /\ IF copies = {} THEN Goes(m, Verified(m, plan))
              ELSE Goes(m, [fkRun[m] EXCEPT !.pc = "unlink", !.plan.copies = copies])
           /\ UNCHANGED <<fkHead, fkCopies, fkFiles, fkConf, fkShared>>

\* Just before each unlink the canonical header must still hold the bytes the copies
\* were compared with, or the copy may be the only one left.
StillThere(m) == fkHead[m] = fkRun[m].plan.canonical

Unlink(m) ==
  LET plan == fkRun[m].plan
  IN /\ FKAt(m, "unlink")
     /\ IF plan.copies = {} \/ ~StillThere(m)
          THEN Goes(m, Verified(m, plan)) /\ UNCHANGED fkCopies
          ELSE \E c \in plan.copies :
                 /\ Goes(m, [fkRun[m] EXCEPT !.plan.copies = @ \ {c}])
                 /\ fkCopies' = IF fkCopies[m][c] = plan.canonical
                                  THEN [fkCopies EXCEPT ![m][c] = FKNone] ELSE fkCopies
     /\ UNCHANGED <<fkHead, fkFiles, fkConf, fkShared>>

\* The record goes to the folder first, the config that names it afterwards, the
\* keyring last and as far as there is one.  With no source chosen the run ends before
\* either.
Register(m) ==
  /\ FKAt(m, "register")
  /\ \/ Stops(m)
     \/ /\ fkFiles' = [fkFiles EXCEPT ![m] = @ \cup {[id |-> fkRun[m].id, salt |-> FKNone]}]
        /\ Advances(m, "save")
        /\ UNCHANGED <<fkHead, fkCopies, fkConf, fkShared>>

\* If the config cannot be saved the record is taken back, as far as it can be.
SaveConfig(m) ==
  /\ FKAt(m, "save")
  /\ \/ /\ fkConf' = [fkConf EXCEPT ![m] = [id |-> fkRun[m].id, salt |-> fkRun[m].salt]]
        /\ UNCHANGED fkFiles
     \/ /\ fkFiles' \in {fkFiles, [fkFiles EXCEPT ![m] = @ \ {[id |-> fkRun[m].id, salt |-> FKNone]}]}
        /\ UNCHANGED fkConf
  /\ Goes(m, FKIdle)
  /\ UNCHANGED <<fkHead, fkCopies, fkShared>>

\* A push makes sure of the device record and stores blobs under the session's key.
PushBlobs(m) ==
  /\ FKAt(m, "push")
  /\ fkFiles' = [fkFiles EXCEPT ![m] = @ \cup {[id |-> fkRun[m].id, salt |-> FKNone],
                                               [id |-> fkRun[m].id, salt |-> fkRun[m].salt]}]
  /\ Goes(m, FKIdle)
  /\ UNCHANGED <<fkHead, fkCopies, fkConf, fkShared>>

\* The run dies: what it wrote stays, what it knew is gone.
Dies(m) == ~FKAt(m, "idle") /\ Stops(m)
-----------------------------------------------------------------------------
\* Of two different headers the sync tool keeps one under the name, and saves the
\* other beside it.
YieldsTo(mine, theirs) == mine # FKLater /\ (theirs = FKLater \/ mine \notin Salts)

DeliverHeader(m, n) ==
  /\ fkHead[n] \notin {FKNone, fkHead[m]}
  /\ \/ fkHead[m] = FKNone /\ UNCHANGED fkCopies
     \/ /\ fkHead[m] # FKNone /\ YieldsTo(fkHead[m], fkHead[n])
        /\ \E c \in FKNames : /\ fkCopies[m][c] = FKNone
                              /\ fkCopies' = [fkCopies EXCEPT ![m][c] = fkHead[m]]
  /\ fkHead' = [fkHead EXCEPT ![m] = fkHead[n]]
  /\ UNCHANGED <<fkFiles, fkConf, fkRun, fkShared>>

DeliverCopy(m, n) ==
  /\ \E c \in FKNames :
       /\ fkCopies[m][c] = FKNone /\ fkCopies[n][c] # FKNone
       /\ fkCopies' = [fkCopies EXCEPT ![m][c] = fkCopies[n][c]]
  /\ UNCHANGED <<fkHead, fkFiles, fkConf, fkRun, fkShared>>

DeliverFiles(m, n) ==
  /\ ~(fkFiles[n] \subseteq fkFiles[m])
  /\ fkFiles' = [fkFiles EXCEPT ![m] = @ \cup fkFiles[n]]
  /\ UNCHANGED <<fkHead, fkCopies, fkConf, fkRun, fkShared>>

\* The sync tool leaves a copy of the header beside it.
Duplicate(m) ==
  /\ fkHead[m] \in Salts
  /\ \E c \in FKNames : /\ fkCopies[m][c] = FKNone
                        /\ fkCopies' = [fkCopies EXCEPT ![m][c] = fkHead[m]]
  /\ UNCHANGED <<fkHead, fkFiles, fkConf, fkRun, fkShared>>

\* Someone else damages the header, replaces it by one of a newer mm, or removes it.
Meddle(m) ==
  /\ fkFaults < FKFaults /\ fkFaults' = fkFaults + 1
  /\ fkHead[m] \in Salts
  /\ \E h \in {FKJunk, FKNewer, FKNone} : fkHead' = [fkHead EXCEPT ![m] = h]
  /\ UNCHANGED <<fkCopies, fkFiles, fkDrawn, fkConf, fkRun>>

Initialise(m) == LookForNew(m) \/ Recheck(m) \/ Create(m) \/ LookToJoin(m)
                 \/ Register(m) \/ SaveConfig(m)
Sync(m) == StartSync(m) \/ Repair(m) \/ Unlink(m) \/ PushBlobs(m)
Deliver == \E m, n \in FKMachines : m # n /\ (DeliverHeader(m, n) \/ DeliverCopy(m, n) \/ DeliverFiles(m, n))

FKNext == Deliver \/ \E m \in FKMachines : Initialise(m) \/ Sync(m) \/ Dies(m) \/ Duplicate(m) \/ Meddle(m)

FKSpec == FKInit /\ [][FKNext]_fkVars
-----------------------------------------------------------------------------
\* No command and no delivery takes the last copy of a key header from a folder:
\* two fleets that were created side by side keep both keys (fetch_crypto_init
\* and apply_crypto_init_repair: different bytes are never deleted).
NoKeyLost ==
  [][fkFaults' = fkFaults => \A m \in FKMachines : Valid(m) \subseteq Valid(m)']_fkVars

\* What a device stores is under one key for as long as it keeps its id, whatever
\* headers arrive between or during its commands (the drift check).
OneKeyPerDevice ==
  \A m \in FKMachines : \A f, g \in fkFiles[m] :
    (f.id = g.id /\ FKNone \notin {f.salt, g.salt}) => f.salt = g.salt

\* A config names a device whose record is in the folder (_register_and_save:
\* remote first, local pointer last), and a key that was verified.
ConfigHasRecord ==
  \A m \in FKMachines : fkConf[m] # FKNone =>
    /\ [id |-> fkConf[m].id, salt |-> FKNone] \in fkFiles[m]
    /\ fkConf[m].salt \in fkDrawn

\* The fleet's keys survive and stay apart.
FleetKeyIsSafe == NoKeyLost /\ [](OneKeyPerDevice /\ ConfigHasRecord)

=============================================================================
