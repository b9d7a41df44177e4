------------------------------- MODULE PackState -------------------------------
(* A contribution pack in a project (internal/pack: Apply, UpdatePack, the     *)
(* state file and its snapshots; cmd/sage-wiki: pack remove), among the edits  *)
(* of the user.  A file's content is what it holds of the user and of the      *)
(* pack: a copied file is one or the other, config.yaml is a merge of both.    *)
EXTENDS Integers

CONSTANTS
  Config,      \* config.yaml, for the keys the pack sets
  Copied,      \* prompts, skills, samples, parsers
  Shipped,     \* Shipped[v]: the paths in the manifest of version v
  MaxEdits,    \* bound: texts the user writes
  PackRaces    \* "crash": a process dies inside a replacing apply; "edited": a merge that is
               \* applied again finds the user's values of config.yaml changed;
               \* "dropped": a version is applied over one that owns more paths;
               \* "unsaved": pack remove cannot save the state after its files;
               \* "unrestored": a file cannot be put back, by an update that drops it or
               \* by a rollback: neither looks at the error

PackPaths == {Config} \union Copied
Versions  == DOMAIN Shipped

ASSUME PackAssumption ==
  /\ Config \notin Copied /\ Versions \subseteq Nat \ {0}
  /\ \A v \in Versions : Shipped[v] \subseteq PackPaths
  /\ MaxEdits \in Nat
  /\ PackRaces \subseteq {"crash", "edited", "dropped", "unsaved", "unrestored"}

VARIABLES
  project,     \* the project's files
  entry,       \* the pack in .sage/pack-state.yaml: its version, Files and Snapshots
  snapshot,    \* .sage/pack-snapshots/<name>: the files before the pack
  tempSnap,    \* .sage/pack-snapshots/<name>-update
  command,     \* the pack command that runs
  atStake,     \* the user's last text of a path that no command was told to replace
  edits

packVars == <<project, entry, snapshot, tempSnap, command, atStake, edits>>

Absent   == [user |-> 0, pack |-> 0]
Text(t)  == [user |-> t, pack |-> 0]
Packed(v) == [user |-> 0, pack |-> v]
Nowhere  == [p \in {} |-> Absent]
NoEntry  == [version |-> 0, files |-> Nowhere, snaps |-> [p \in {} |-> FALSE]]
NoCommand == [kind |-> "none", mode |-> "none", version |-> 0, fresh |-> FALSE,
              covers |-> {}, todo |-> {}, wrote |-> {}, gone |-> {}, skips |-> FALSE,
              snaps |-> NoEntry.snaps]

PackInit ==
  /\ project = [p \in PackPaths |-> Absent] /\ snapshot = project /\ tempSnap = project
  /\ entry = NoEntry /\ command = NoCommand
  /\ atStake = [p \in PackPaths |-> 0] /\ edits = 0

Idle     == command = NoCommand
Owned    == DOMAIN entry.files
Modified == {p \in Owned : project[p] # entry.files[p]}
Snapped  == DOMAIN entry.snaps
Extend(snaps, paths) ==
  [p \in DOMAIN snaps \union paths |->
     IF p \in DOMAIN snaps THEN snaps[p] ELSE project[p] # Absent]

-----------------------------------------------------------------------------
(* The user.                                                                 *)

Edit(p) ==
  /\ Idle /\ edits < MaxEdits
  /\ edits' = edits + 1
  /\ project' = [project EXCEPT ![p] = IF p = Config THEN [@ EXCEPT !.user = edits'] ELSE Text(edits')]
  /\ atStake' = [atStake EXCEPT ![p] = edits']
  /\ UNCHANGED <<entry, snapshot, tempSnap, command>>

Discard(p) ==
  /\ Idle /\ project[p] # Absent
  /\ project' = [project EXCEPT ![p] = Absent] /\ atStake' = [atStake EXCEPT ![p] = 0]
  /\ UNCHANGED <<entry, snapshot, tempSnap, command, edits>>

-----------------------------------------------------------------------------
(* Apply.  A pack without snapshots takes them; one that has them keeps those *)
(* and adds the paths that are new to it.                                    *)

BeginApply(v, mode) ==
  /\ Idle
  /\ LET again == Snapped # {} IN
     /\ again /\ mode = "merge" /\ "edited" \notin PackRaces =>
          atStake[Config] \in {0, snapshot[Config].user}
     /\ again /\ "dropped" \notin PackRaces => Owned \subseteq Shipped[v]
     /\ snapshot' = [p \in PackPaths |->
                       IF p \in Shipped[v] \ (IF again THEN Snapped ELSE {}) /\ project[p] # Absent
                       THEN project[p] ELSE snapshot[p]]
     /\ tempSnap' = IF again THEN project ELSE tempSnap
     /\ command' = [NoCommand EXCEPT
                      !.kind = "apply", !.mode = mode, !.version = v, !.fresh = ~again,
                      !.covers = Shipped[v], !.todo = Shipped[v],
                      !.snaps = Extend(IF again THEN entry.snaps ELSE NoEntry.snaps, Shipped[v])]
  /\ UNCHANGED <<project, entry, atStake, edits>>

\* What a path holds after version v is merged into it, or replaces it.
Overlaid(p, v, mode) ==
  IF mode = "replace" \/ project[p] = Absent THEN Packed(v)
  ELSE IF p # Config THEN project[p]
  ELSE [project[p] EXCEPT !.pack = IF @ = 0 THEN v ELSE @]

WritePath(p) ==
  /\ p \in command.todo
  /\ LET mode == IF command.kind = "apply" THEN command.mode
                 ELSE IF p \in Owned \union Copied THEN "replace" ELSE "merge" IN
     /\ project' = [project EXCEPT ![p] = Overlaid(p, command.version, mode)]
     /\ command' = [command EXCEPT !.todo = @ \ {p},
                      !.wrote = IF mode = "merge" /\ p # Config /\ project[p] # Absent
                                THEN @ ELSE @ \union {p}]
  /\ UNCHANGED <<entry, snapshot, tempSnap, atStake, edits>>

\* A reapplied pack keeps the hashes of what it did not write; a stale one is dropped.
CommitApply ==
  /\ command.kind = "apply" /\ command.todo = {}
  /\ LET kept == IF command.fresh THEN {} ELSE Owned \intersect command.covers IN
     entry' = [version |-> command.version, snaps |-> command.snaps,
               files |-> [p \in kept \union command.wrote |->
                            IF p \in command.wrote THEN project[p] ELSE entry.files[p]]]
  /\ tempSnap' = IF command.fresh THEN tempSnap ELSE [p \in PackPaths |-> Absent]
  /\ atStake' = [p \in PackPaths |->
                   IF command.mode = "replace" /\ p \in command.wrote \intersect Snapped
                   THEN 0 ELSE atStake[p]]
  /\ command' = NoCommand
  /\ UNCHANGED <<project, snapshot, edits>>

-----------------------------------------------------------------------------
(* UpdatePack.                                                               *)

CopiesOverUnowned(v) == (Shipped[v] \intersect Copied) \ Modified
\* The copies an update makes: none over a modified file or one that is not the pack's.
Copies(v) == {p \in (Shipped[v] \intersect Copied) \ Modified : p \in Owned \/ project[p] = Absent}

BeginUpdate(v) ==
  /\ Idle /\ entry.version # 0 /\ v >= entry.version
  /\ tempSnap' = project
  /\ LET config == {Config} \intersect (Shipped[v] \ Modified)
         first  == config \ Owned
         writes == Copies(v) \union config
         present == {p \in first : project[p] # Absent} IN
     /\ snapshot' = [p \in PackPaths |-> IF p \in present THEN project[p] ELSE snapshot[p]]
     /\ command' = [NoCommand EXCEPT
                      !.kind = "update", !.version = v,
                      !.covers = {Config} \union Shipped[v] \union Owned,
                      !.todo = writes, !.gone = Owned \ (Shipped[v] \union {Config}),
                      !.skips = Modified # {} \/ Shipped[v] \ writes # {},
                      !.snaps = [p \in Snapped \union present |->
                                   p \in present \/ entry.snaps[p]]]
  /\ UNCHANGED <<project, entry, atStake, edits>>

\* What an obsolete path may hold once it was put back: without a snapshot it is deleted;
\* with one that cannot be read it is deleted too, and a write of it that fails leaves the
\* file as it was or cut short (Absent: no text of anyone's).
AsBefore(p) ==
  IF p \in Snapped /\ entry.snaps[p]
  THEN {snapshot[p]} \union (IF "unrestored" \in PackRaces THEN {project[p], Absent} ELSE {})
  ELSE {Absent}

\* An owned path that the new version drops: left when modified, else as before the pack.
RestoreObsolete(p) ==
  /\ command.kind = "update" /\ command.todo = {} /\ p \in command.gone
  /\ \E text \in IF p \in Modified THEN {project[p]} ELSE AsBefore(p) :
       project' = [project EXCEPT ![p] = text]
  /\ command' = [command EXCEPT !.gone = @ \ {p},
                   !.wrote = IF p \in Modified THEN @ ELSE @ \union {p}]
  /\ UNCHANGED <<entry, snapshot, tempSnap, atStake, edits>>

CommitUpdate ==
  /\ command.kind = "update" /\ command.todo = {} /\ command.gone = {}
  /\ LET gone  == command.wrote \ (Shipped[command.version] \union {Config})
         wrote == command.wrote \ gone IN
     entry' = [version |-> IF command.skips THEN entry.version ELSE command.version,
               snaps   |-> command.snaps,
               files   |-> [p \in (Owned \ gone) \union wrote |->
                              IF p \in wrote THEN project[p] ELSE entry.files[p]]]
  /\ tempSnap' = [p \in PackPaths |-> Absent]
  /\ command' = NoCommand
  /\ UNCHANGED <<project, snapshot, atStake, edits>>

-----------------------------------------------------------------------------
(* A write, or the save of the state, fails: the files go back to what the    *)
(* snapshot has of them, and the state in memory is dropped.  Errors of the   *)
(* restore are discarded: a file that cannot be read back, or that comes after *)
(* the first failed write, stays as the command left it, the one whose write   *)
(* fails may be cut short, and the snapshot is left where it is.             *)
Unrestorable == IF "unrestored" \in PackRaces THEN SUBSET command.covers ELSE {{}}

Before(p) == IF ~command.fresh THEN tempSnap[p]
             ELSE IF command.snaps[p] THEN snapshot[p] ELSE Absent

Rollback ==
  /\ command.kind # "none"
  /\ \E left, cut \in Unrestorable, cleaned \in BOOLEAN :
       /\ cleaned \/ "unrestored" \in PackRaces
       /\ project' = [p \in PackPaths |->
                         IF p \in left \/ p \notin command.covers THEN project[p]
                         ELSE IF p \in cut THEN Absent ELSE Before(p)]
       /\ tempSnap' = IF cleaned /\ ~command.fresh THEN [p \in PackPaths |-> Absent] ELSE tempSnap
       /\ snapshot' = IF cleaned /\ command.fresh THEN [p \in PackPaths |-> Absent] ELSE snapshot
  /\ command' = NoCommand
  /\ UNCHANGED <<entry, atStake, edits>>

\* The process dies: nothing is rolled back, neither then nor by the next command, which
\* removes the temporary snapshot before it takes its own.
PackCrash ==
  /\ command.kind # "none"
  /\ command.mode = "replace" => "crash" \in PackRaces
  /\ command' = NoCommand /\ tempSnap' = [p \in PackPaths |-> Absent]
  /\ UNCHANGED <<project, entry, snapshot, atStake, edits>>

-----------------------------------------------------------------------------
\* pack remove: what is put back, unless it was edited since, and what is deleted.
Restorable == {p \in Owned \intersect Snapped : entry.snaps[p] /\ p \notin Modified
                                                /\ snapshot[p] # Absent}
Deletable == {p \in Owned : /\ p \in Snapped => ~entry.snaps[p]
                            /\ IF p \in Snapped THEN project[p] = Absent \/ p \notin Modified
                               ELSE p \notin Modified}

\* Some files may not be writable; the state may not be saved.
RemovePack ==
  /\ Idle /\ entry.version # 0
  /\ \E failed \in SUBSET Owned,
        saved \in {TRUE} \union (IF "unsaved" \in PackRaces THEN {FALSE} ELSE {}) :
       LET gone == (Restorable \union Deletable) \ failed
           all  == gone = Owned IN
       /\ project' = [p \in PackPaths |-> IF p \notin gone THEN project[p]
                                       ELSE IF p \in Restorable THEN snapshot[p] ELSE Absent]
       /\ snapshot' = IF all THEN [p \in PackPaths |-> Absent] ELSE snapshot
       /\ entry' = IF ~saved THEN entry ELSE IF all THEN NoEntry
                   ELSE [entry EXCEPT
                           !.files = [p \in Owned \ gone |-> entry.files[p]],
                           !.snaps = [p \in Snapped \ gone |-> entry.snaps[p]]]
  /\ UNCHANGED <<tempSnap, command, atStake, edits>>

PackNext ==
  \/ \E p \in PackPaths : Edit(p) \/ Discard(p)
  \/ \E v \in Versions, mode \in {"merge", "replace"} : BeginApply(v, mode)
  \/ \E v \in Versions : BeginUpdate(v)
  \/ \E p \in PackPaths : WritePath(p) \/ RestoreObsolete(p)
  \/ CommitApply \/ CommitUpdate \/ Rollback \/ PackCrash \/ RemovePack

PackSpec == PackInit /\ [][PackNext]_packVars

-----------------------------------------------------------------------------
Contents == [user : 0..MaxEdits, pack : {0} \union Versions]

PackTypeOK ==
  /\ project \in [PackPaths -> Contents] /\ snapshot \in [PackPaths -> Contents]
  /\ tempSnap \in [PackPaths -> Contents]
  /\ entry.version \in {0} \union Versions
  /\ Owned \subseteq PackPaths /\ Snapped \subseteq PackPaths
  /\ \A p \in Owned : entry.files[p] \in Contents
  /\ command.todo \subseteq command.covers /\ command.covers \subseteq PackPaths
  /\ atStake \in [PackPaths -> 0..MaxEdits] /\ edits \in 0..MaxEdits

\* Between commands, what the user last wrote in a file is in the file, or in the pack's
\* snapshot of it: no apply, update, remove or failure of one loses it, unless a
\* replacing apply over an applied pack was told to.
UserTextIsKept ==
  Idle => \A p \in PackPaths :
            atStake[p] # 0 => atStake[p] \in {project[p].user, snapshot[p].user}
=============================================================================
