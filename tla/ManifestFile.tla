----------------------------- MODULE ManifestFile -----------------------------
(* The manifest that several processes write (internal/manifest): the lock    *)
(* file beside it with its token, its heartbeat and the takeover of a dead    *)
(* holder's lock (lock.go), the short writers' Mutate and the atomic Save     *)
(* (manifest.go), and the three-way MergeSave of the long-running owners      *)
(* (merge.go).                                                                *)
EXTENDS Integers, FiniteSets

CONSTANTS
  Editors,       \* the processes that write the manifest
  NoToken,       \* what an empty or garbled lock file holds
  Entries,       \* the sources and concepts of the manifest
  MaxChanges,    \* bound: changes of an entry
  MaxDeaths,     \* bound: crashes
  Timely         \* is no live process suspended for longer than the lock's timing allows?

ASSUME ManifestAssumption ==
  /\ NoToken \notin Editors /\ MaxChanges \in Nat /\ MaxDeaths \in Nat
  /\ Timely \in BOOLEAN

VARIABLES
  lockfile,   \* the lock file: is it there, whose token, is its mtime beyond staleThreshold?
  editor,     \* each process: where it stands, whether it is an owner, the manifest it loaded
              \* first (base), what it makes of it (ours), what it is about to save
  disk,       \* the manifest: each entry's version, 0 when absent
  tmpfile,    \* the sibling temp file of Save, shared by all; NoFile when absent
  changes,    \* changes so far
  deaths      \* crashes so far

manVars == <<lockfile, editor, disk, tmpfile, changes, deaths>>

Manifests == [Entries -> 0..MaxChanges]
NoFile == [e \in {} |-> 0]
Empty  == [e \in Entries |-> 0]
Out    == [at |-> "out", owner |-> FALSE, base |-> Empty, ours |-> Empty, save |-> Empty]

Locking == {"created", "clobber", "truncated", "settle"}
Holding == {"hold", "loaded", "written", "unlock", "removing"}

ManInit ==
  /\ lockfile = [there |-> FALSE, token |-> NoToken, old |-> FALSE]
  /\ editor = [p \in Editors |-> Out]
  /\ disk = Empty /\ tmpfile = NoFile /\ changes = 0 /\ deaths = 0

Goes(p, at) == editor' = [editor EXCEPT ![p].at = at]
Fresh(token) == [there |-> TRUE, token |-> token, old |-> FALSE]

-----------------------------------------------------------------------------
(* The work.  A short writer wants the lock at once; an owner clones what it *)
(* loads, changes that for a long time, and wants the lock to merge.          *)

WriteShortly(p) ==
  /\ editor[p].at = "out" /\ Goes(p, "wait")
  /\ UNCHANGED <<lockfile, disk, tmpfile, changes, deaths>>

Clone(p) ==
  /\ editor[p].at = "out"
  /\ editor' = [editor EXCEPT ![p] = [at |-> "work", owner |-> TRUE, base |-> disk,
                                     ours |-> disk, save |-> Empty]]
  /\ UNCHANGED <<lockfile, disk, tmpfile, changes, deaths>>

\* An entry is added or changed, or removed.
Changed(m) == {[m EXCEPT ![e] = v] : e \in Entries, v \in {0, changes + 1}}

Change(p) ==
  /\ editor[p].at = "work" /\ changes < MaxChanges
  /\ changes' = changes + 1
  /\ \E m \in Changed(editor[p].ours) : editor' = [editor EXCEPT ![p].ours = m]
  /\ UNCHANGED <<lockfile, disk, tmpfile, deaths>>

MergeSave(p) ==
  /\ editor[p].at = "work" /\ Goes(p, "wait")
  /\ UNCHANGED <<lockfile, disk, tmpfile, changes, deaths>>

-----------------------------------------------------------------------------
(* acquireLockOpts.                                                          *)

\* The exclusive create; the token is written next.
CreateLock(p) ==
  /\ editor[p].at = "wait" /\ ~lockfile.there
  /\ lockfile' = Fresh(NoToken) /\ Goes(p, "created")
  /\ UNCHANGED <<disk, tmpfile, changes, deaths>>

WriteToken(p) ==
  /\ editor[p].at = "created"
  /\ lockfile' = Fresh(p) /\ Goes(p, "hold")
  /\ UNCHANGED <<disk, tmpfile, changes, deaths>>

\* The lock looks stale; it is opened and truncated; the token is written, which mixes with
\* one that another contender wrote since.
SeeStale(p) ==
  /\ editor[p].at = "wait" /\ lockfile.there /\ lockfile.old
  /\ Goes(p, "clobber")
  /\ UNCHANGED <<lockfile, disk, tmpfile, changes, deaths>>

Truncate(p) ==
  /\ editor[p].at = "clobber"
  /\ IF lockfile.there
     THEN lockfile' = Fresh(NoToken) /\ Goes(p, "truncated")
     ELSE Goes(p, "wait") /\ UNCHANGED lockfile
  /\ UNCHANGED <<disk, tmpfile, changes, deaths>>

Overwrite(p) ==
  /\ editor[p].at = "truncated"
  /\ IF lockfile.there
     THEN \E t \in {p} \union (IF lockfile.token = NoToken THEN {} ELSE {NoToken}) :
            lockfile' = Fresh(t)
     ELSE UNCHANGED lockfile
  /\ Goes(p, "settle")
  /\ UNCHANGED <<disk, tmpfile, changes, deaths>>

SettleBlindly(p) ==
  /\ editor[p].at = "settle"
  /\ Goes(p, "hold")
  /\ UNCHANGED <<lockfile, disk, tmpfile, changes, deaths>>

\* The settle wait, in which a contender that saw the stale lock has written its token,
\* and the look at whose token survived.
Settle(p) ==
  /\ editor[p].at = "settle"
  /\ Timely => \A q \in Editors : editor[q].at \notin {"clobber", "truncated"}
  /\ Goes(p, IF lockfile.there /\ lockfile.token = p THEN "hold" ELSE "wait")
  /\ UNCHANGED <<lockfile, disk, tmpfile, changes, deaths>>

\* The deadline or the context, at either wait.
GiveUp(p) ==
  /\ editor[p].at \in {"wait", "settle"}
  /\ editor' = [editor EXCEPT ![p] = Out]
  /\ UNCHANGED <<lockfile, disk, tmpfile, changes, deaths>>

-----------------------------------------------------------------------------
(* Under the lock: reload, apply, write the temp file, rename it.            *)

OursWins(theirs, base, ours) == ours

\* mergeInto: an entry that ours added, changed or removed is ours, another one theirs.
MergeInto(theirs, base, ours) ==
  [e \in Entries |-> IF ours[e] # base[e] THEN ours[e] ELSE theirs[e]]

Reload(p) ==
  /\ editor[p].at = "hold" /\ editor[p].owner
  /\ editor' = [editor EXCEPT ![p].at = "loaded",
                              ![p].save = MergeInto(disk, editor[p].base, editor[p].ours)]
  /\ UNCHANGED <<lockfile, disk, tmpfile, changes, deaths>>

\* Mutate: what the short writer loads is its base.
Mutate(p) ==
  /\ editor[p].at = "hold" /\ ~editor[p].owner /\ changes < MaxChanges
  /\ changes' = changes + 1
  /\ \E m \in Changed(disk) :
       editor' = [editor EXCEPT ![p] = [at |-> "loaded", owner |-> FALSE, base |-> disk,
                                        ours |-> m, save |-> m]]
  /\ UNCHANGED <<lockfile, disk, tmpfile, deaths>>

WriteTemp(p) ==
  /\ editor[p].at = "loaded"
  /\ tmpfile' = editor[p].save /\ Goes(p, "written")
  /\ UNCHANGED <<lockfile, disk, changes, deaths>>

Rename(p) ==
  /\ editor[p].at = "written"
  /\ disk' = IF tmpfile = NoFile THEN disk ELSE tmpfile
  /\ tmpfile' = NoFile /\ Goes(p, "unlock")
  /\ UNCHANGED <<lockfile, changes, deaths>>

\* The load, the caller's function, the write or the rename fails; so does WithLock's
\* function, or it leaves the manifest alone.
SaveFails(p) ==
  /\ editor[p].at \in {"hold", "loaded", "written"}
  /\ tmpfile' = IF editor[p].at = "written" THEN NoFile ELSE tmpfile
  /\ Goes(p, "unlock")
  /\ UNCHANGED <<lockfile, disk, changes, deaths>>

\* Unlock removes the file only when it holds the caller's token.
ReadToken(p) ==
  /\ editor[p].at = "unlock"
  /\ editor' = [editor EXCEPT ![p] = IF lockfile.there /\ lockfile.token = p
                                     THEN [Out EXCEPT !.at = "removing"] ELSE Out]
  /\ UNCHANGED <<lockfile, disk, tmpfile, changes, deaths>>

RemoveLock(p) ==
  /\ editor[p].at = "removing"
  /\ lockfile' = [there |-> FALSE, token |-> NoToken, old |-> FALSE]
  /\ editor' = [editor EXCEPT ![p] = Out]
  /\ UNCHANGED <<disk, tmpfile, changes, deaths>>

-----------------------------------------------------------------------------
Dies(p) ==
  /\ editor[p].at # "out" /\ deaths < MaxDeaths
  /\ deaths' = deaths + 1
  /\ editor' = [editor EXCEPT ![p] = Out]
  /\ UNCHANGED <<lockfile, disk, tmpfile, changes>>

\* Nobody refreshed the file for staleThreshold: its holder is dead or, when the processes
\* may be suspended, not scheduled.
Ages ==
  /\ lockfile.there /\ ~lockfile.old
  /\ Timely => \A p \in Editors : editor[p].at \notin (Locking \ {"clobber"}) \union Holding
  /\ lockfile' = [lockfile EXCEPT !.old = TRUE]
  /\ UNCHANGED <<editor, disk, tmpfile, changes, deaths>>

-----------------------------------------------------------------------------
ManNext ==
  \/ \E p \in Editors :
       \/ WriteShortly(p) \/ Clone(p) \/ Change(p) \/ MergeSave(p)
       \/ CreateLock(p) \/ WriteToken(p) \/ SeeStale(p) \/ Truncate(p) \/ Overwrite(p)
       \/ Settle(p) \/ GiveUp(p)
       \/ Reload(p) \/ Mutate(p) \/ WriteTemp(p) \/ Rename(p) \/ SaveFails(p) \/ ReadToken(p)
       \/ RemoveLock(p) \/ Dies(p)
  \/ Ages

ManSpec == ManInit /\ [][ManNext]_manVars

-----------------------------------------------------------------------------
ManTypeOK ==
  /\ lockfile \in [there : BOOLEAN, token : Editors \union {NoToken}, old : BOOLEAN]
  /\ editor \in [Editors -> [at : {"out", "work", "wait"} \union Locking \union Holding,
                             owner : BOOLEAN, base : Manifests, ours : Manifests, save : Manifests]]
  /\ disk \in Manifests /\ tmpfile \in Manifests \union {NoFile}
  /\ changes \in 0..MaxChanges /\ deaths \in 0..MaxDeaths

\* At most one live process holds the lock, whoever died holding it and however many
\* contend for what it left.
OneHolder == Cardinality({p \in Editors : editor[p].at \in Holding}) <= 1

\* A save changes the entries its process changed and no other: no save loses what another
\* process saved since, whether it merges over it, took over the lock of a dead process, or
\* found its temp file.
SavesOwnChanges ==
  [][\A e \in Entries :
       disk'[e] # disk[e] =>
         \E p \in Editors : /\ editor[p].at = "written" /\ editor'[p].at = "unlock"
                            /\ disk'[e] = editor[p].ours[e]
                            /\ editor[p].ours[e] # editor[p].base[e]]_manVars
=============================================================================
