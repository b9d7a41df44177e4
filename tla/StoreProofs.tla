----------------------------- MODULE StoreProofs ------------------------------
(***************************************************************************)
(* Proofs about the stores, for every value of the constants: the manifest  *)
(* file (ManifestFile), a credential (AuthStore), the directory that is     *)
(* restored into (MirrorHydrate), the checkpoints of batches (BatchCompile), *)
(* a pack in a project (PackState), the links between entities              *)
(* (EntityAliases), and the types of the six together (MCStores).            *)
(***************************************************************************)
EXTENDS MCStores, FiniteSetTheorems, WellFoundedInduction, TLAPS

-----------------------------------------------------------------------------
(* The manifest.  SavesOwnChanges holds because the lock is exclusive, so that
   what a holder merged is still a merge over what is on disk, and the temp
   file that it renames is the one that it wrote. *)

Owners == Holding \union {"created"}

\* Whoever is in the lock has its file; whoever may still take it over has seen
\* that nobody is in it.
LockIsExclusive ==
  /\ lockfile.old => /\ lockfile.there
                     /\ \A p \in Editors : editor[p].at \notin Owners \union {"truncated", "settle"}
  /\ \A p \in Editors : editor[p].at \in Holding => lockfile.there /\ lockfile.token = p
  /\ \A p \in Editors : editor[p].at = "created" => lockfile.there /\ lockfile.token = NoToken
  /\ \A p \in Editors : editor[p].at \in {"clobber", "truncated"} => lockfile.there
  /\ \A p, q \in Editors : editor[p].at \in Owners =>
       /\ editor[q].at \notin {"clobber", "truncated"}
       /\ editor[q].at \in Owners => q = p

\* What a process is about to save differs from the disk in its own changes.
SaveIsOwn(p) ==
  \A e \in Entries : editor[p].save[e] # disk[e] =>
    editor[p].ours[e] = editor[p].save[e] /\ editor[p].ours[e] # editor[p].base[e]

SavesAreOwn ==
  \A p \in Editors :
    /\ editor[p].at \in {"loaded", "written"} => SaveIsOwn(p)
    /\ editor[p].at = "written" => tmpfile = editor[p].save

EditorPlaces == {"out", "work", "wait"} \union Locking \union Holding
Records == [at : EditorPlaces, owner : BOOLEAN, base : Manifests, ours : Manifests, save : Manifests]

ManInv == ManTypeOK /\ LockIsExclusive /\ SavesAreOwn

\* One process moves, the others keep what they have.
LEMMA EditorBecomes ==
  ASSUME ManTypeOK, NEW p \in Editors, NEW r \in Records,
         editor' = [editor EXCEPT ![p] = r]
  PROVE  /\ editor' \in [Editors -> Records]
         /\ editor'[p] = r
         /\ \A q \in Editors : q # p => editor'[q] = editor[q]
  BY DEF ManTypeOK, Records, EditorPlaces

LEMMA EditorGoes ==
  ASSUME ManTypeOK, NEW p \in Editors, NEW at \in EditorPlaces, Goes(p, at)
  PROVE  /\ editor' \in [Editors -> Records]
         /\ editor'[p].at = at /\ editor'[p].owner = editor[p].owner
         /\ editor'[p].base = editor[p].base /\ editor'[p].ours = editor[p].ours
         /\ editor'[p].save = editor[p].save
         /\ \A q \in Editors : q # p => editor'[q] = editor[q]
<1>1. editor[p] \in Records
  BY DEF ManTypeOK, Records, EditorPlaces
<1>2. [editor[p] EXCEPT !.at = at] \in Records
  BY <1>1 DEF Records
<1>3. editor' = [editor EXCEPT ![p] = [editor[p] EXCEPT !.at = at]]
  BY DEF Goes
<1> QED BY <1>1, <1>2, <1>3, EditorBecomes DEF Records

LEMMA RestTypes ==
  /\ Empty \in Manifests /\ Out \in Records
  /\ Out.at = "out" /\ [Out EXCEPT !.at = "removing"] \in Records
  /\ [Out EXCEPT !.at = "removing"].at = "removing"
<1>1. Empty \in Manifests
  BY ManifestAssumption DEF Empty, Manifests
<1> QED BY <1>1 DEF Out, Records, EditorPlaces, Holding

LEMMA ChangedType ==
  ASSUME NEW m \in Manifests, changes \in Nat, changes < MaxChanges, NEW n \in Changed(m)
  PROVE  n \in Manifests /\ changes + 1 \in 0..MaxChanges
<1>1. changes + 1 \in 0..MaxChanges /\ 0 \in 0..MaxChanges
  BY ManifestAssumption
<1>2. PICK e \in Entries, v \in {0, changes + 1} : n = [m EXCEPT ![e] = v]
  BY DEF Changed
<1> QED BY <1>1, <1>2 DEF Manifests

LEMMA MergeType ==
  ASSUME NEW m \in Manifests, NEW b \in Manifests, NEW o \in Manifests
  PROVE  MergeInto(m, b, o) \in Manifests
  BY DEF MergeInto, Manifests

\* A step that nobody enters or leaves the lock by.
LEMMA LockUntouched ==
  ASSUME LockIsExclusive, UNCHANGED lockfile,
         \A q \in Editors : \/ editor'[q].at = editor[q].at
                            \/ editor[q].at \in Holding /\ editor'[q].at \in Holding
                            \/ editor'[q].at \in {"out", "work", "wait"}
  PROVE  LockIsExclusive'
<1>1. \A q \in Editors : editor'[q].at \in Owners => editor[q].at \in Owners
  BY DEF Owners, Holding
<1>2. \A q \in Editors : editor'[q].at \in Holding => editor[q].at \in Holding
  BY DEF Holding
<1>3. \A q \in Editors : /\ editor'[q].at = "created" => editor[q].at = "created"
                         /\ editor'[q].at = "clobber" => editor[q].at = "clobber"
                         /\ editor'[q].at = "truncated" => editor[q].at = "truncated"
                         /\ editor'[q].at = "settle" => editor[q].at = "settle"
  BY DEF Holding
<1> QED BY <1>1, <1>2, <1>3 DEF LockIsExclusive

\* A step that leaves the disk and what is to be saved alone.
LEMMA SavesUntouched ==
  ASSUME SavesAreOwn, UNCHANGED <<disk, tmpfile>>,
         \A q \in Editors : editor'[q].at \in {"loaded", "written"} => editor'[q] = editor[q]
  PROVE  SavesAreOwn'
  BY DEF SavesAreOwn, SaveIsOwn

-----------------------------------------------------------------------------
\* Outside the lock: the work, the contention without success, the crash.
LEMMA OutsideKeeps ==
  ASSUME ManInv, NEW p \in Editors,
         \/ WriteShortly(p) \/ Clone(p) \/ Change(p) \/ MergeSave(p) \/ GiveUp(p) \/ Dies(p)
  PROVE  ManInv'
<1>1. editor[p] \in Records /\ disk \in Manifests
  BY DEF ManInv, ManTypeOK, Records, EditorPlaces
<1>2. /\ editor' \in [Editors -> Records] /\ editor'[p].at \in {"out", "work", "wait"}
      /\ \A q \in Editors : q # p => editor'[q] = editor[q]
  <2>1. CASE WriteShortly(p) \/ MergeSave(p)
    BY <2>1, EditorGoes DEF ManInv, WriteShortly, MergeSave, EditorPlaces
  <2>2. CASE Clone(p)
    <3> DEFINE r == [at |-> "work", owner |-> TRUE, base |-> disk, ours |-> disk, save |-> Empty]
    <3>1. r \in Records /\ r.at = "work"
      BY <1>1, RestTypes DEF Records, EditorPlaces
    <3>2. editor' = [editor EXCEPT ![p] = r]
      BY <2>2 DEF Clone
    <3> HIDE DEF r
    <3> QED BY <3>1, <3>2, EditorBecomes DEF ManInv
  <2>3. CASE Change(p)
    <3>1. PICK m \in Changed(editor[p].ours) : editor' = [editor EXCEPT ![p].ours = m]
      BY <2>3 DEF Change
    <3>2. m \in Manifests
      BY <1>1, <2>3, ChangedType DEF Change, ManInv, ManTypeOK, Records
    <3> DEFINE r == [editor[p] EXCEPT !.ours = m]
    <3>3. r \in Records /\ r.at = "work"
      BY <1>1, <2>3, <3>2 DEF Records, Change
    <3>4. editor' = [editor EXCEPT ![p] = r]
      BY <3>1
    <3> HIDE DEF r
    <3> QED BY <3>3, <3>4, EditorBecomes DEF ManInv
  <2>4. CASE GiveUp(p) \/ Dies(p)
    <3>1. editor' = [editor EXCEPT ![p] = Out]
      BY <2>4 DEF GiveUp, Dies
    <3> QED BY <3>1, RestTypes, EditorBecomes DEF ManInv
  <2> QED BY <2>1, <2>2, <2>3, <2>4
<1>3. UNCHANGED <<lockfile, disk, tmpfile>>
  BY DEF WriteShortly, Clone, Change, MergeSave, GiveUp, Dies
<1>4. changes' \in 0..MaxChanges /\ deaths' \in 0..MaxDeaths
  <2>1. changes \in 0..MaxChanges /\ deaths \in 0..MaxDeaths
    BY DEF ManInv, ManTypeOK
  <2>2. changes' = changes \/ (changes < MaxChanges /\ changes' = changes + 1)
    BY DEF WriteShortly, Clone, Change, MergeSave, GiveUp, Dies
  <2>3. deaths' = deaths \/ (deaths < MaxDeaths /\ deaths' = deaths + 1)
    BY DEF WriteShortly, Clone, Change, MergeSave, GiveUp, Dies
  <2> QED BY <2>1, <2>2, <2>3, ManifestAssumption
<1>5. ManTypeOK'
  BY <1>2, <1>3, <1>4 DEF ManInv, ManTypeOK, Records, EditorPlaces
<1>6. LockIsExclusive'
  BY <1>2, <1>3, LockUntouched DEF ManInv
<1>7. SavesAreOwn'
  BY <1>2, <1>3, SavesUntouched DEF ManInv
<1> QED BY <1>5, <1>6, <1>7 DEF ManInv

\* Acquiring the lock, by creating its file or by taking over a stale one.
LEMMA AcquireKeeps ==
  ASSUME ManInv, Timely, NEW p \in Editors,
         \/ CreateLock(p) \/ WriteToken(p) \/ SeeStale(p) \/ Truncate(p) \/ Overwrite(p)
         \/ Settle(p)
  PROVE  ManInv'
<1> DEFINE Moved(at) ==
      /\ editor' \in [Editors -> Records]
      /\ editor'[p].at = at
      /\ \A q \in Editors : q # p => editor'[q] = editor[q]
<1>1. ASSUME NEW at \in EditorPlaces, Goes(p, at) PROVE Moved(at)
  BY <1>1, EditorGoes DEF ManInv
<1>2. UNCHANGED <<disk, tmpfile, changes, deaths>>
  BY DEF CreateLock, WriteToken, SeeStale, Truncate, Overwrite, Settle
<1>3. lockfile \in [there : BOOLEAN, token : Editors \union {NoToken}, old : BOOLEAN]
  BY DEF ManInv, ManTypeOK
<1>4. \A t \in Editors \union {NoToken} :
        /\ Fresh(t) \in [there : BOOLEAN, token : Editors \union {NoToken}, old : BOOLEAN]
        /\ Fresh(t).there /\ ~Fresh(t).old /\ Fresh(t).token = t
  BY DEF Fresh
<1>5. ASSUME NEW at \in EditorPlaces \ {"loaded", "written"}, Moved(at), LockIsExclusive',
             lockfile' \in [there : BOOLEAN, token : Editors \union {NoToken}, old : BOOLEAN]
      PROVE  ManInv'
  <2>1. ManTypeOK'
    BY <1>2, <1>5 DEF ManInv, ManTypeOK, Records, EditorPlaces
  <2>2. \A q \in Editors : editor'[q].at \in {"loaded", "written"} => editor'[q] = editor[q]
    BY <1>5
  <2>3. SavesAreOwn'
    BY <1>2, <2>2, SavesUntouched DEF ManInv
  <2> QED BY <1>5, <2>1, <2>3 DEF ManInv
<1>6. CASE CreateLock(p)
  <2>1. Moved("created") /\ lockfile' = Fresh(NoToken) /\ ~lockfile.there
    BY <1>1, <1>6 DEF CreateLock, EditorPlaces, Locking
  <2>2. \A q \in Editors : editor[q].at \notin Owners \union {"clobber", "truncated"}
    BY <2>1 DEF ManInv, LockIsExclusive, Owners
  <2>3. LockIsExclusive'
    BY <1>4, <2>1, <2>2 DEF LockIsExclusive, Owners, Holding
  <2> QED BY <1>4, <1>5, <2>1, <2>3 DEF EditorPlaces, Locking
<1>7. CASE WriteToken(p)
  <2>1. Moved("hold") /\ lockfile' = Fresh(p) /\ editor[p].at = "created"
    BY <1>1, <1>7 DEF WriteToken, EditorPlaces, Holding
  <2>2. \A q \in Editors : /\ editor[q].at \notin {"clobber", "truncated"}
                           /\ q # p => editor[q].at \notin Owners
    BY <2>1 DEF ManInv, LockIsExclusive, Owners
  <2>3. LockIsExclusive'
    BY <1>4, <2>1, <2>2 DEF LockIsExclusive, Owners, Holding
  <2> QED BY <1>4, <1>5, <2>1, <2>3 DEF EditorPlaces, Holding
<1>8. CASE SeeStale(p)
  <2>1. Moved("clobber") /\ lockfile' = lockfile /\ lockfile.there /\ lockfile.old
    BY <1>1, <1>8 DEF SeeStale, EditorPlaces, Locking
  <2>2. \A q \in Editors : editor[q].at \notin Owners \union {"truncated", "settle"}
    BY <2>1 DEF ManInv, LockIsExclusive
  <2>3. LockIsExclusive'
    BY <2>1, <2>2 DEF LockIsExclusive, Owners, Holding
  <2> QED BY <1>3, <1>5, <2>1, <2>3 DEF EditorPlaces, Locking
<1>9. CASE Truncate(p)
  <2>1. editor[p].at = "clobber" /\ lockfile.there
    BY <1>9 DEF Truncate, ManInv, LockIsExclusive
  <2>2. Moved("truncated") /\ lockfile' = Fresh(NoToken)
    BY <1>1, <1>9, <2>1 DEF Truncate, EditorPlaces, Locking
  <2>3. \A q \in Editors : editor[q].at \notin Owners
    BY <2>1 DEF ManInv, LockIsExclusive
  <2>4. LockIsExclusive'
    BY <1>4, <2>2, <2>3 DEF LockIsExclusive, Owners, Holding
  <2> QED BY <1>4, <1>5, <2>2, <2>4 DEF EditorPlaces, Locking
<1>10. CASE Overwrite(p)
  <2>1. editor[p].at = "truncated" /\ lockfile.there
    BY <1>10 DEF Overwrite, ManInv, LockIsExclusive
  <2>2. PICK t \in Editors \union {NoToken} : lockfile' = Fresh(t)
    BY <1>10, <2>1 DEF Overwrite
  <2>3. Moved("settle")
    BY <1>1, <1>10 DEF Overwrite, EditorPlaces, Locking
  <2>4. \A q \in Editors : editor[q].at \notin Owners
    BY <2>1 DEF ManInv, LockIsExclusive
  <2>5. LockIsExclusive'
    BY <1>4, <2>2, <2>3, <2>4 DEF LockIsExclusive, Owners, Holding
  <2> QED BY <1>4, <1>5, <2>2, <2>3, <2>5 DEF EditorPlaces, Locking
<1>11. CASE Settle(p)
  <2>1. /\ editor[p].at = "settle" /\ lockfile' = lockfile
        /\ \A q \in Editors : editor[q].at \notin {"clobber", "truncated"}
    BY <1>11 DEF Settle
  <2>2. CASE lockfile.there /\ lockfile.token = p
    <3>1. Moved("hold")
      BY <1>1, <1>11, <2>2 DEF Settle, EditorPlaces, Holding
    <3>2. ~lockfile.old /\ \A q \in Editors : editor[q].at \notin Owners
      BY <2>1, <2>2, ManifestAssumption DEF ManInv, LockIsExclusive, Owners, Holding
    <3>3. LockIsExclusive'
      BY <2>1, <2>2, <3>1, <3>2 DEF LockIsExclusive, Owners, Holding
    <3> QED BY <1>3, <1>5, <2>1, <3>1, <3>3 DEF EditorPlaces, Holding
  <2>3. CASE ~(lockfile.there /\ lockfile.token = p)
    <3>1. Moved("wait")
      BY <1>1, <1>11, <2>3 DEF Settle, EditorPlaces
    <3>2. LockIsExclusive'
      BY <2>1, <3>1, LockUntouched DEF ManInv
    <3> QED BY <1>3, <1>5, <2>1, <3>1, <3>2 DEF EditorPlaces, Locking, Holding
  <2> QED BY <2>2, <2>3
<1> QED BY <1>6, <1>7, <1>8, <1>9, <1>10, <1>11

\* The saved entries that differ from the disk are those that the process changed.
LEMMA MergeIsOwn ==
  ASSUME NEW m \in Manifests, NEW b \in Manifests, NEW o \in Manifests, NEW e \in Entries,
         MergeInto(m, b, o)[e] # m[e]
  PROVE  o[e] = MergeInto(m, b, o)[e] /\ o[e] # b[e]
  BY DEF MergeInto

\* Under the lock: only its holder writes the disk and the temp file.
LEMMA SaveKeeps ==
  ASSUME ManInv, NEW p \in Editors,
         \/ Reload(p) \/ Mutate(p) \/ WriteTemp(p) \/ Rename(p) \/ SaveFails(p)
  PROVE  ManInv'
<1>1. editor[p] \in Records /\ disk \in Manifests
  BY DEF ManInv, ManTypeOK, Records, EditorPlaces
<1>2. editor[p].at \in Holding /\ lockfile' = lockfile
  BY DEF Reload, Mutate, WriteTemp, Rename, SaveFails, Holding
<1>3. \A q \in Editors : q # p => editor[q].at \notin Holding
  BY <1>2 DEF ManInv, LockIsExclusive, Owners
<1>4. ASSUME NEW at \in Holding, editor' \in [Editors -> Records], editor'[p].at = at,
             \A q \in Editors : q # p => editor'[q] = editor[q],
             disk' \in Manifests, tmpfile' \in Manifests \union {NoFile},
             changes' \in 0..MaxChanges, deaths' = deaths,
             at = "loaded" => SaveIsOwn(p)',
             at = "written" => SaveIsOwn(p)' /\ tmpfile' = editor'[p].save
      PROVE  ManInv'
  <2>1. ManTypeOK'
    BY <1>2, <1>4 DEF ManInv, ManTypeOK, Records, EditorPlaces
  <2>2. LockIsExclusive'
    BY <1>2, <1>4, LockUntouched DEF ManInv
  <2>3. \A q \in Editors : q # p => editor'[q].at \notin {"loaded", "written"}
    BY <1>3, <1>4 DEF Holding
  <2>4. SavesAreOwn'
    BY <1>4, <2>3 DEF SavesAreOwn
  <2> QED BY <2>1, <2>2, <2>4 DEF ManInv
<1>5. tmpfile \in Manifests \union {NoFile} /\ changes \in 0..MaxChanges
  BY DEF ManInv, ManTypeOK
<1>6. CASE Reload(p)
  <2> DEFINE m == MergeInto(disk, editor[p].base, editor[p].ours)
             r == [editor[p] EXCEPT !.at = "loaded", !.save = m]
  <2>1. m \in Manifests
    BY <1>1, MergeType DEF Records
  <2>2. \A e \in Entries : m[e] # disk[e] =>
          editor[p].ours[e] = m[e] /\ editor[p].ours[e] # editor[p].base[e]
    BY <1>1, MergeIsOwn DEF Records
  <2>3. editor' = [editor EXCEPT ![p].at = "loaded", ![p].save = m]
    BY <1>6 DEF Reload
  <2> HIDE DEF m
  <2>4. /\ r \in Records /\ r.at = "loaded" /\ r.save = m /\ r.ours = editor[p].ours
        /\ r.base = editor[p].base
    BY <1>1, <2>1 DEF Records, EditorPlaces, Holding
  <2>5. editor' = [editor EXCEPT ![p] = r]
    BY <1>1, <2>3 DEF ManInv, ManTypeOK
  <2> HIDE DEF r
  <2>6. /\ editor' \in [Editors -> Records] /\ editor'[p] = r
        /\ \A q \in Editors : q # p => editor'[q] = editor[q]
    BY <2>4, <2>5, EditorBecomes DEF ManInv
  <2>7. UNCHANGED <<disk, tmpfile, changes, deaths>>
    BY <1>6 DEF Reload
  <2>8. SaveIsOwn(p)'
    BY <2>2, <2>4, <2>6, <2>7 DEF SaveIsOwn
  <2> QED BY <1>1, <1>4, <1>5, <2>4, <2>6, <2>7, <2>8 DEF Holding
<1>7. CASE Mutate(p)
  <2>1. PICK m \in Changed(disk) :
          editor' = [editor EXCEPT ![p] = [at |-> "loaded", owner |-> FALSE, base |-> disk,
                                           ours |-> m, save |-> m]]
    BY <1>7 DEF Mutate
  <2>2. m \in Manifests /\ changes' \in 0..MaxChanges
    BY <1>1, <1>5, <1>7, ChangedType DEF Mutate
  <2> DEFINE r == [at |-> "loaded", owner |-> FALSE, base |-> disk, ours |-> m, save |-> m]
  <2>3. r \in Records /\ r.at = "loaded" /\ r.save = m /\ r.ours = m /\ r.base = disk
    BY <1>1, <2>2 DEF Records, EditorPlaces, Holding
  <2>4. editor' = [editor EXCEPT ![p] = r]
    BY <2>1
  <2> HIDE DEF r
  <2>5. /\ editor' \in [Editors -> Records] /\ editor'[p] = r
        /\ \A q \in Editors : q # p => editor'[q] = editor[q]
    BY <2>3, <2>4, EditorBecomes DEF ManInv
  <2>6. UNCHANGED <<disk, tmpfile, deaths>>
    BY <1>7 DEF Mutate
  <2>7. SaveIsOwn(p)'
    BY <2>3, <2>5, <2>6 DEF SaveIsOwn
  <2> QED BY <1>1, <1>4, <1>5, <2>2, <2>3, <2>5, <2>6, <2>7 DEF Holding
<1>8. CASE WriteTemp(p)
  <2>1. /\ editor' \in [Editors -> Records] /\ editor'[p].at = "written"
        /\ editor'[p].save = editor[p].save /\ editor'[p].ours = editor[p].ours
        /\ editor'[p].base = editor[p].base
        /\ \A q \in Editors : q # p => editor'[q] = editor[q]
    BY <1>8, EditorGoes DEF ManInv, WriteTemp, EditorPlaces, Holding
  <2>2. tmpfile' = editor[p].save /\ UNCHANGED <<disk, changes, deaths>>
    BY <1>8 DEF WriteTemp
  <2>3. SaveIsOwn(p)
    BY <1>8 DEF WriteTemp, ManInv, SavesAreOwn
  <2>4. SaveIsOwn(p)'
    BY <2>1, <2>2, <2>3 DEF SaveIsOwn
  <2>5. tmpfile' \in Manifests
    BY <1>1, <2>2 DEF Records
  <2> QED BY <1>1, <1>4, <1>5, <2>1, <2>2, <2>4, <2>5 DEF Holding
<1>9. CASE Rename(p) \/ SaveFails(p)
  <2>1. Goes(p, "unlock") /\ UNCHANGED <<changes, deaths>> /\ disk' \in {disk, tmpfile}
        /\ tmpfile' \in {NoFile, tmpfile} /\ (disk' # disk => tmpfile # NoFile /\ disk' = tmpfile)
    BY <1>9 DEF Rename, SaveFails
  <2>2. /\ editor' \in [Editors -> Records] /\ editor'[p].at = "unlock"
        /\ \A q \in Editors : q # p => editor'[q] = editor[q]
    BY <2>1, EditorGoes DEF ManInv, EditorPlaces, Holding
  <2>3. disk' \in Manifests /\ tmpfile' \in Manifests \union {NoFile}
    BY <1>1, <1>5, <2>1
  <2> QED BY <1>4, <1>5, <2>1, <2>2, <2>3 DEF Holding
<1> QED BY <1>6, <1>7, <1>8, <1>9

\* Unlocking: only a holder that finds its own token removes the file.
LEMMA UnlockKeeps ==
  ASSUME ManInv, NEW p \in Editors, ReadToken(p) \/ RemoveLock(p)
  PROVE  ManInv'
<1>1. UNCHANGED <<disk, tmpfile, changes, deaths>>
  BY DEF ReadToken, RemoveLock
<1>2. PICK r \in {Out, [Out EXCEPT !.at = "removing"]} : editor' = [editor EXCEPT ![p] = r]
  BY DEF ReadToken, RemoveLock
<1>3. /\ editor' \in [Editors -> Records] /\ editor'[p] = r
      /\ \A q \in Editors : q # p => editor'[q] = editor[q]
  BY <1>2, RestTypes, EditorBecomes DEF ManInv
<1>4. r.at \in {"out", "removing"}
  BY RestTypes
<1>5. SavesAreOwn'
  BY <1>1, <1>3, <1>4, SavesUntouched DEF ManInv
<1>6. CASE ReadToken(p)
  <2>1. UNCHANGED lockfile /\ editor[p].at = "unlock"
    BY <1>6 DEF ReadToken
  <2>2. LockIsExclusive'
    BY <1>3, <1>4, <2>1, LockUntouched DEF ManInv, Holding
  <2>3. ManTypeOK'
    BY <1>1, <1>3, <2>1 DEF ManInv, ManTypeOK, Records, EditorPlaces
  <2> QED BY <1>5, <2>2, <2>3 DEF ManInv
<1>7. CASE RemoveLock(p)
  <2>1. /\ lockfile' = [there |-> FALSE, token |-> NoToken, old |-> FALSE]
        /\ editor' = [editor EXCEPT ![p] = Out] /\ editor[p].at = "removing"
    BY <1>7 DEF RemoveLock
  <2>2. editor'[p].at = "out"
    BY <2>1, RestTypes, EditorBecomes DEF ManInv
  <2>3. \A q \in Editors : /\ editor[q].at \notin {"clobber", "truncated"}
                           /\ q # p => editor[q].at \notin Owners
    BY <2>1 DEF ManInv, LockIsExclusive, Owners, Holding
  <2>4. \A q \in Editors : editor'[q].at \notin Owners \union {"clobber", "truncated"}
    BY <1>3, <2>2, <2>3 DEF Owners, Holding
  <2>5. LockIsExclusive'
    BY <2>1, <2>4 DEF LockIsExclusive, Owners
  <2>6. ManTypeOK'
    BY <1>1, <1>3, <2>1 DEF ManInv, ManTypeOK, Records, EditorPlaces
  <2> QED BY <1>5, <2>5, <2>6 DEF ManInv
<1> QED BY <1>6, <1>7

\* A lock goes stale only when its process is gone.
LEMMA AgesKeeps ==
  ASSUME ManInv, Timely, Ages
  PROVE  ManInv'
<1>1. UNCHANGED <<editor, disk, tmpfile, changes, deaths>> /\ lockfile.there
  BY DEF Ages
<1>2. /\ lockfile'.there = lockfile.there /\ lockfile'.token = lockfile.token
      /\ lockfile' \in [there : BOOLEAN, token : Editors \union {NoToken}, old : BOOLEAN]
  BY DEF Ages, ManInv, ManTypeOK
<1>3. \A q \in Editors : editor[q].at \notin Owners \union {"truncated", "settle"}
  BY DEF Ages, Owners, Locking
<1>4. LockIsExclusive'
  BY <1>1, <1>2, <1>3 DEF ManInv, LockIsExclusive
<1>5. SavesAreOwn'
  BY <1>1, SavesUntouched DEF ManInv
<1> QED BY <1>1, <1>2, <1>4, <1>5 DEF ManInv, ManTypeOK

LEMMA ManInitial ==
  ManInit => ManInv
<1> SUFFICES ASSUME ManInit PROVE ManInv
  OBVIOUS
<1>1. ManTypeOK
  BY RestTypes, ManifestAssumption DEF ManInit, ManTypeOK, Records, EditorPlaces
<1>2. \A p \in Editors : editor[p].at = "out"
  BY RestTypes DEF ManInit
<1> QED BY <1>1, <1>2 DEF ManInit, ManInv, LockIsExclusive, SavesAreOwn, Owners, Holding

LEMMA ManKeeps ==
  ASSUME Timely, ManInv, [ManNext]_manVars
  PROVE  ManInv'
<1>1. CASE UNCHANGED manVars
  BY <1>1 DEF manVars, ManInv, ManTypeOK, LockIsExclusive, SavesAreOwn, SaveIsOwn
<1>2. CASE Ages
  BY <1>2, AgesKeeps
<1>3. ASSUME NEW p \in Editors,
             \/ WriteShortly(p) \/ Clone(p) \/ Change(p) \/ MergeSave(p)
             \/ CreateLock(p) \/ WriteToken(p) \/ SeeStale(p) \/ Truncate(p) \/ Overwrite(p)
             \/ Settle(p) \/ GiveUp(p)
             \/ Reload(p) \/ Mutate(p) \/ WriteTemp(p) \/ Rename(p) \/ SaveFails(p) \/ ReadToken(p)
             \/ RemoveLock(p) \/ Dies(p)
      PROVE  ManInv'
  BY <1>3, OutsideKeeps, AcquireKeeps, SaveKeeps, UnlockKeeps
<1> QED BY <1>1, <1>2, <1>3 DEF ManNext

\* Only a rename changes the disk, to a merge that is its process's own.
LEMMA OwnStep ==
  ASSUME ManInv, [ManNext]_manVars, NEW e \in Entries, disk'[e] # disk[e]
  PROVE  \E p \in Editors : /\ editor[p].at = "written" /\ editor'[p].at = "unlock"
                            /\ disk'[e] = editor[p].ours[e]
                            /\ editor[p].ours[e] # editor[p].base[e]
<1>1. PICK p \in Editors : Rename(p)
  BY DEF ManNext, manVars, Ages, WriteShortly, Clone, Change, MergeSave, CreateLock,
         WriteToken, SeeStale, Truncate, Overwrite, Settle, GiveUp, Reload, Mutate,
         WriteTemp, SaveFails, ReadToken, RemoveLock, Dies
<1>2. editor[p].at = "written" /\ disk' = tmpfile /\ Goes(p, "unlock")
  BY <1>1 DEF Rename
<1>3. tmpfile = editor[p].save /\ SaveIsOwn(p)
  BY <1>2 DEF ManInv, SavesAreOwn
<1>4. editor'[p].at = "unlock"
  BY <1>2, EditorGoes DEF ManInv, EditorPlaces, Holding
<1> QED BY <1>2, <1>3, <1>4 DEF SaveIsOwn

\* As long as no live process is suspended beyond the lock's timing: whoever dies holding
\* the lock, and however many processes contend for what it left, a save changes the
\* entries that its process changed and no other.
THEOREM SavesAreMerges ==
  ASSUME Timely
  PROVE  ManSpec => SavesOwnChanges
<1> DEFINE OwnStepOnly ==
      \A e \in Entries : disk'[e] # disk[e] =>
        \E p \in Editors : /\ editor[p].at = "written" /\ editor'[p].at = "unlock"
                           /\ disk'[e] = editor[p].ours[e]
                           /\ editor[p].ours[e] # editor[p].base[e]
<1>1. ManInit => ManInv
  BY ManInitial
<1>2. ManInv /\ [ManNext]_manVars => ManInv'
  BY ManKeeps
<1>3. ManInv /\ [ManNext]_manVars => [OwnStepOnly]_manVars
  BY OwnStep
<1>4. ManSpec => []ManInv
  BY <1>1, <1>2, PTL DEF ManSpec
<1>5. ManSpec => [][OwnStepOnly]_manVars
  BY <1>3, <1>4, PTL DEF ManSpec
<1> QED BY <1>5 DEF SavesOwnChanges

-----------------------------------------------------------------------------
(* The credential.  What keeps it live: the file is written under its lock
   only, from what was read under it; a rotated token is known to nobody but
   the process that is about to store it; and a logout comes to the keychain
   when the file holds nothing any more, so that no dead token shows through. *)

Agents == [op : Ops \union {"none"}, cred : 0..MaxTokens,
           at : {"idle", "lock", "steal", "create", "read", "write", "ask",
                 "store", "forget", "look", "copy"}]

NoRaces == {"slow", "steal", "migrate", "mixed"} \intersect AuthRaces = {}

TokensIssued ==
  /\ infile <= issued /\ inkeys <= issued
  /\ \A c \in Clients : agent[c].cred <= issued

\* Where an operation can stand, and with which backend.
InOperation(c) ==
  /\ agent[c].at # "steal"
  /\ agent[c].at = "idle" => agent[c].op = "none"
  /\ agent[c].at \in {"lock", "create"} => Locks(c, agent[c].op)
  /\ agent[c].at = "write" => \/ agent[c].op \in {"logout", "acknowledge"}
                              \/ agent[c].op = "login" /\ via[c] = "file"
  /\ agent[c].at \in {"ask", "store"} => agent[c].op = "refresh"
  /\ agent[c].at = "forget" => agent[c].op = "logout"
  /\ agent[c].at \in {"look", "copy"} => agent[c].op = "migrate"
  /\ agent[c].op = "migrate" => /\ via[c] = "keychain"
                                /\ \A d \in Clients : d # c => agent[d].at = "idle"

\* The file's lock has one owner, and is not taken for stale.
LockHeld ==
  \A c \in Clients : HasFileLock(c) =>
    authlock = "fresh" /\ \A d \in Clients : HasFileLock(d) => d = c

\* What a process has read is still what it was, where it counts.
ReadIsCurrent(c) ==
  /\ agent[c].at = "write" => agent[c].cred = infile
  /\ agent[c].at \in {"look", "copy"} => agent[c].cred = infile
  /\ agent[c].at = "copy" => inkeys = 0
  /\ agent[c].at = "forget" /\ via[c] = "keychain" => excused \/ infile = 0

\* A rotated token before it is stored.
RotatedIsOwn(c) ==
  agent[c].at = "store" =>
    /\ agent[c].cred \in valid /\ agent[c].cred # infile /\ agent[c].cred # inkeys
    /\ \A d \in Clients : d # c => agent[d].cred # agent[c].cred

AuthInv ==
  /\ AuthTypeOK /\ TokensIssued
  /\ \A c, d \in Clients : via[c] = via[d]
  /\ \A c \in Clients : InOperation(c) /\ ReadIsCurrent(c) /\ RotatedIsOwn(c)
  /\ LockHeld
  /\ StoredTokenIsLive

AgentPlaces == {"idle", "lock", "steal", "create", "read", "write", "ask", "store", "forget",
                "look", "copy"}

\* The agent c moves, the other agents and the backends stay.
Moved(c) == /\ agent' \in [Clients -> Agents]
            /\ \A d \in Clients : d # c => agent'[d] = agent[d]
            /\ via' = via

AgentSteps(c) ==
  \/ \E op \in Ops : StartOp(c, op)
  \/ RemoveStale(c) \/ Locked(c) \/ LockRefused(c)
  \/ ReadFile(c) \/ Acknowledge(c) \/ LoginFile(c) \/ LoginKeychain(c)
  \/ LogoutFile(c) \/ LogoutKeychain(c)
  \/ RefreshReads(c) \/ Rotated(c) \/ Refused(c) \/ StoresRotated(c)
  \/ MigrateReads(c) \/ MigrateLooks(c) \/ MigrateCopies(c) \/ AgentDies(c)

LEMMA AgentBecomes ==
  ASSUME AuthTypeOK, NEW c \in Clients, NEW r \in Agents,
         agent' = [agent EXCEPT ![c] = r], via' = via
  PROVE  Moved(c) /\ agent'[c] = r
  BY DEF AuthTypeOK, Agents, Moved

LEMMA AgentMoves ==
  ASSUME AuthTypeOK, NEW c \in Clients, NEW at \in AgentPlaces, Moves(c, at), via' = via
  PROVE  /\ Moved(c) /\ agent'[c].at = at
         /\ agent'[c].op = agent[c].op /\ agent'[c].cred = agent[c].cred
<1>1. agent[c] \in Agents
  BY DEF AuthTypeOK, Agents
<1> DEFINE r == [agent[c] EXCEPT !.at = at]
<1>2. r \in Agents /\ r.at = at /\ r.op = agent[c].op /\ r.cred = agent[c].cred
  BY <1>1 DEF Agents, AgentPlaces
<1>3. agent' = [agent EXCEPT ![c] = r]
  BY DEF Moves
<1> HIDE DEF r
<1> QED BY <1>2, <1>3, AgentBecomes

LEMMA AgentRests ==
  ASSUME AuthTypeOK, NEW c \in Clients, Rests(c), via' = via
  PROVE  /\ Moved(c) /\ agent'[c].at = "idle"
         /\ agent'[c].op = "none" /\ agent'[c].cred = 0
<1>1. Rest \in Agents /\ Rest.at = "idle" /\ Rest.op = "none" /\ Rest.cred = 0
  BY AuthAssumption DEF Rest, Agents, Ops
<1> QED BY <1>1, AgentBecomes DEF Rests

LEMMA NothingSteals ==
  ASSUME AuthInv, NoRaces, NEW c \in Clients
  PROVE  agent[c].at # "steal" /\ "steal" \notin AuthRaces
  BY DEF AuthInv, InOperation, NoRaces

LEMMA TokenTypes ==
  ASSUME AuthInv
  PROVE  /\ issued \in 0..MaxTokens /\ issued \in Nat
         /\ infile \in 0..issued /\ inkeys \in 0..issued
         /\ \A c \in Clients : agent[c].cred \in 0..issued
         /\ valid \subseteq 1..issued
<1>1. issued \in Nat
  BY AuthAssumption DEF AuthInv, AuthTypeOK
<1>2. infile \in Nat /\ inkeys \in Nat /\ \A c \in Clients : agent[c].cred \in Nat
  BY AuthAssumption DEF AuthInv, AuthTypeOK
<1> QED BY <1>1, <1>2 DEF AuthInv, AuthTypeOK, TokensIssued

\* What StartOp does to the agents and the stores.
LEMMA StartOpEffect ==
  ASSUME AuthInv, NoRaces, NEW c \in Clients, NEW op \in Ops, StartOp(c, op)
  PROVE  /\ agent[c].at = "idle"
         /\ Moved(c)
         /\ agent'[c].op = op
         /\ agent'[c].at = (IF Locks(c, op) THEN "lock" ELSE "read")
         /\ agent'[c].cred = 0
         /\ op = "migrate" => via[c] = "keychain"
         /\ \A d \in Clients : agent[d].op # "migrate" /\ (op = "migrate" => agent[d].at = "idle")
         /\ UNCHANGED <<infile, inkeys, authlock, issued, valid, faulted, excused>>
<1> DEFINE r == [op |-> op, at |-> IF Locks(c, op) THEN "lock" ELSE "read", cred |-> 0]
<1>1. r \in Agents
  BY AuthAssumption DEF Agents
<1>2. r.op = op /\ r.at = (IF Locks(c, op) THEN "lock" ELSE "read") /\ r.cred = 0
  OBVIOUS
<1>3. agent' = [agent EXCEPT ![c] = r] /\ via' = via
  BY DEF StartOp, AuthInv, AuthTypeOK
<1> HIDE DEF r
<1>4. Moved(c) /\ agent'[c] = r
  BY <1>1, <1>3, AgentBecomes DEF AuthInv
<1> QED BY <1>2, <1>4 DEF AuthInv, InOperation, In, NoRaces, StartOp

\* What RemoveStale does to the agents and the stores.
LEMMA RemoveStaleEffect ==
  ASSUME AuthInv, NoRaces, NEW c \in Clients, RemoveStale(c)
  PROVE  /\ agent[c].at = "lock"
         /\ authlock = "stale"
         /\ authlock' = "none"
         /\ Moved(c)
         /\ agent'[c].at = "create"
         /\ agent'[c].op = agent[c].op
         /\ agent'[c].cred = agent[c].cred
         /\ UNCHANGED <<infile, inkeys, issued, valid, faulted, excused>>
  BY AgentMoves, NothingSteals DEF AuthInv, In, AgentPlaces, Unlocked, Release, NoRaces,
     RemoveStale

\* What Locked does to the agents and the stores.
LEMMA LockedEffect ==
  ASSUME AuthInv, NoRaces, NEW c \in Clients, Locked(c)
  PROVE  /\ agent[c].at \in {"lock", "create"}
         /\ authlock = "none"
         /\ authlock' = "fresh"
         /\ Moved(c)
         /\ agent'[c].at = "read"
         /\ agent'[c].op = agent[c].op
         /\ agent'[c].cred = agent[c].cred
         /\ UNCHANGED <<infile, inkeys, issued, valid, faulted, excused>>
  BY AgentMoves, NothingSteals DEF AuthInv, In, AgentPlaces, Unlocked, Release, NoRaces, Locked

\* What LockRefused does to the agents and the stores.
LEMMA LockRefusedEffect ==
  ASSUME AuthInv, NoRaces, NEW c \in Clients, LockRefused(c)
  PROVE  /\ agent[c].at \in {"lock", "create"}
         /\ Moved(c)
         /\ \/ /\ agent'[c].op = agent[c].op /\ agent'[c].at = "forget" /\ agent'[c].cred = agent[c].cred
               /\ agent[c].op = "logout" /\ excused'
            \/ /\ agent'[c].op = "none" /\ agent'[c].at = "idle" /\ agent'[c].cred = 0
               /\ agent[c].op # "logout" /\ excused' = excused
         /\ excused' \in BOOLEAN
         /\ UNCHANGED <<infile, inkeys, authlock, issued, valid, faulted>>
<1>1. agent[c].at \in {"lock", "create"} /\ UNCHANGED <<via, infile, inkeys, authlock, issued, valid, faulted>>
  BY DEF LockRefused
<1>2. excused' = (excused \/ agent[c].op = "logout") /\ excused \in BOOLEAN
  BY DEF LockRefused, AuthInv, AuthTypeOK
<1>3. CASE agent[c].op = "logout"
  BY <1>1, <1>2, <1>3, AgentMoves DEF LockRefused, AgentPlaces, AuthInv
<1>4. CASE agent[c].op # "logout"
  BY <1>1, <1>2, <1>4, AgentRests DEF LockRefused, AuthInv
<1> QED BY <1>1, <1>2, <1>3, <1>4

\* What ReadFile does to the agents and the stores.
LEMMA ReadFileEffect ==
  ASSUME AuthInv, NoRaces, NEW c \in Clients, ReadFile(c)
  PROVE  /\ agent[c].at = "read"
         /\ agent[c].op \in {"logout", "acknowledge"} \/ (agent[c].op = "login" /\ via[c] = "file")
         /\ Moved(c)
         /\ agent'[c].op = agent[c].op
         /\ agent'[c].at = "write"
         /\ agent'[c].cred = infile
         /\ UNCHANGED <<infile, inkeys, authlock, issued, valid, faulted, excused>>
<1> DEFINE r == [agent[c] EXCEPT !.at = "write", !.cred = infile]
<1>1. r \in Agents
  BY DEF Agents, AuthInv, AuthTypeOK
<1>2. r.op = agent[c].op /\ r.at = "write" /\ r.cred = infile
  OBVIOUS
<1>3. agent' = [agent EXCEPT ![c] = r] /\ via' = via
  BY DEF ReadFile, AuthInv, AuthTypeOK
<1> HIDE DEF r
<1>4. Moved(c) /\ agent'[c] = r
  BY <1>1, <1>3, AgentBecomes DEF AuthInv
<1> QED BY <1>2, <1>4 DEF AuthInv, InOperation, In, NoRaces, ReadFile

\* What Acknowledge does to the agents and the stores.
LEMMA AcknowledgeEffect ==
  ASSUME AuthInv, NoRaces, NEW c \in Clients, Acknowledge(c)
  PROVE  /\ agent[c].at = "write"
         /\ agent[c].op = "acknowledge"
         /\ infile' = agent[c].cred
         /\ authlock' = "none"
         /\ Moved(c)
         /\ agent'[c].at = "idle"
         /\ agent'[c].op = "none"
         /\ agent'[c].cred = 0
         /\ UNCHANGED <<inkeys, issued, valid, faulted, excused>>
  BY AgentRests, NothingSteals DEF AuthInv, In, AgentPlaces, Unlocked, Release, NoRaces,
     Acknowledge

\* What LoginFile does to the agents and the stores.
LEMMA LoginFileEffect ==
  ASSUME AuthInv, NoRaces, NEW c \in Clients, LoginFile(c)
  PROVE  /\ agent[c].at = "write"
         /\ agent[c].op = "login"
         /\ issued < MaxTokens
         /\ issued' = issued + 1
         /\ valid' = valid \union {issued + 1}
         /\ infile' = issued + 1
         /\ authlock' = "none"
         /\ Moved(c)
         /\ agent'[c].at = "idle"
         /\ agent'[c].op = "none"
         /\ agent'[c].cred = 0
         /\ UNCHANGED <<inkeys, faulted, excused>>
  BY AgentRests, NothingSteals DEF AuthInv, In, AgentPlaces, Unlocked, Release, NoRaces, LoginFile

\* What LoginKeychain does to the agents and the stores.
LEMMA LoginKeychainEffect ==
  ASSUME AuthInv, NoRaces, NEW c \in Clients, LoginKeychain(c)
  PROVE  /\ agent[c].at = "read"
         /\ agent[c].op = "login"
         /\ via[c] = "keychain"
         /\ issued < MaxTokens
         /\ issued' = issued + 1
         /\ valid' = valid \union {issued + 1}
         /\ inkeys' = issued + 1
         /\ Moved(c)
         /\ agent'[c].at = "idle"
         /\ agent'[c].op = "none"
         /\ agent'[c].cred = 0
         /\ UNCHANGED <<infile, authlock, faulted, excused>>
  BY AgentRests, NothingSteals DEF AuthInv, In, AgentPlaces, Unlocked, Release, NoRaces,
     LoginKeychain

\* What LogoutFile does to the agents and the stores.
LEMMA LogoutFileEffect ==
  ASSUME AuthInv, NoRaces, NEW c \in Clients, LogoutFile(c)
  PROVE  /\ agent[c].at = "write"
         /\ agent[c].op = "logout"
         /\ infile' = 0
         /\ authlock' = "none"
         /\ Moved(c)
         /\ agent'[c].at = "forget"
         /\ agent'[c].op = agent[c].op
         /\ agent'[c].cred = agent[c].cred
         /\ UNCHANGED <<inkeys, issued, valid, faulted, excused>>
  BY AgentMoves, NothingSteals DEF AuthInv, In, AgentPlaces, Unlocked, Release, NoRaces,
     LogoutFile

\* What LogoutKeychain does to the agents and the stores.
LEMMA LogoutKeychainEffect ==
  ASSUME AuthInv, NoRaces, NEW c \in Clients, LogoutKeychain(c)
  PROVE  /\ agent[c].at = "forget"
         /\ agent[c].op = "logout"
         /\ inkeys' = (IF via[c] = "keychain" THEN 0 ELSE inkeys)
         /\ Moved(c)
         /\ agent'[c].at = "idle"
         /\ agent'[c].op = "none"
         /\ agent'[c].cred = 0
         /\ UNCHANGED <<infile, authlock, issued, valid, faulted, excused>>
  BY AgentRests, NothingSteals DEF AuthInv, In, AgentPlaces, Unlocked, Release, NoRaces,
     LogoutKeychain

\* What RefreshReads does to the agents and the stores.
LEMMA RefreshReadsEffect ==
  ASSUME AuthInv, NoRaces, NEW c \in Clients, RefreshReads(c)
  PROVE  /\ agent[c].at = "read"
         /\ agent[c].op = "refresh"
         /\ Moved(c)
         /\ agent'[c].op = "refresh"
         /\ agent'[c].at = "ask"
         /\ agent'[c].cred = Get(via[c])
         /\ authlock' = (IF via[c] = "keychain" THEN "none" ELSE authlock)
         /\ UNCHANGED <<infile, inkeys, issued, valid, faulted, excused>>
<1> DEFINE r == [agent[c] EXCEPT !.at = "ask", !.cred = Get(via[c])]
<1>1. r \in Agents
  BY DEF Agents, AuthInv, AuthTypeOK, Get
<1>2. r.op = agent[c].op /\ r.at = "ask" /\ r.cred = Get(via[c])
  OBVIOUS
<1>3. agent' = [agent EXCEPT ![c] = r] /\ via' = via
  BY DEF RefreshReads, AuthInv, AuthTypeOK
<1> HIDE DEF r
<1>4. Moved(c) /\ agent'[c] = r
  BY <1>1, <1>3, AgentBecomes DEF AuthInv
<1> QED BY <1>2, <1>4 DEF AuthInv, InOperation, In, NoRaces, RefreshReads, Unlocked

\* What Rotated does to the agents and the stores.
LEMMA RotatedEffect ==
  ASSUME AuthInv, NoRaces, NEW c \in Clients, Rotated(c)
  PROVE  /\ agent[c].at = "ask"
         /\ agent[c].op = "refresh"
         /\ agent[c].cred \in valid
         /\ issued < MaxTokens
         /\ issued' = issued + 1
         /\ valid' = (valid \ {agent[c].cred}) \union {issued + 1}
         /\ Moved(c)
         /\ agent'[c].op = "refresh"
         /\ agent'[c].at = "store"
         /\ agent'[c].cred = issued + 1
         /\ UNCHANGED <<infile, inkeys, authlock, faulted, excused>>
<1> DEFINE r == [agent[c] EXCEPT !.at = "store", !.cred = issued + 1]
<1>1. r \in Agents
  BY AuthAssumption DEF Agents, AuthInv, AuthTypeOK, Rotated
<1>2. r.op = agent[c].op /\ r.at = "store" /\ r.cred = issued + 1
  OBVIOUS
<1>3. agent' = [agent EXCEPT ![c] = r] /\ via' = via
  BY DEF Rotated, AuthInv, AuthTypeOK
<1> HIDE DEF r
<1>4. Moved(c) /\ agent'[c] = r
  BY <1>1, <1>3, AgentBecomes DEF AuthInv
<1> QED BY <1>2, <1>4 DEF AuthInv, InOperation, In, NoRaces, Rotated

\* What Refused does to the agents and the stores.
LEMMA RefusedEffect ==
  ASSUME AuthInv, NoRaces, NEW c \in Clients, Refused(c)
  PROVE  /\ agent[c].at = "ask"
         /\ agent[c].op = "refresh"
         /\ authlock' = (IF via[c] = "file" THEN "none" ELSE authlock)
         /\ Moved(c)
         /\ agent'[c].at = "idle"
         /\ agent'[c].op = "none"
         /\ agent'[c].cred = 0
         /\ UNCHANGED <<infile, inkeys, issued, valid, faulted, excused>>
  BY AgentRests, NothingSteals DEF AuthInv, In, AgentPlaces, Unlocked, Release, NoRaces, Refused

\* What StoresRotated does to the agents and the stores.
LEMMA StoresRotatedEffect ==
  ASSUME AuthInv, NoRaces, NEW c \in Clients, StoresRotated(c)
  PROVE  /\ agent[c].at = "store"
         /\ agent[c].op = "refresh"
         /\ infile' = (IF via[c] = "keychain" THEN infile ELSE agent[c].cred)
         /\ inkeys' = (IF via[c] = "keychain" THEN agent[c].cred ELSE inkeys)
         /\ authlock' = (IF via[c] = "file" THEN "none" ELSE authlock)
         /\ Moved(c)
         /\ agent'[c].at = "idle"
         /\ agent'[c].op = "none"
         /\ agent'[c].cred = 0
         /\ UNCHANGED <<issued, valid, faulted, excused>>
  BY AgentRests, NothingSteals DEF AuthInv, In, AgentPlaces, Unlocked, Release, NoRaces,
     StoresRotated

\* What MigrateReads does to the agents and the stores.
LEMMA MigrateReadsEffect ==
  ASSUME AuthInv, NoRaces, NEW c \in Clients, MigrateReads(c)
  PROVE  /\ agent[c].at = "read"
         /\ agent[c].op = "migrate"
         /\ Moved(c)
         /\ agent'[c].op = "migrate"
         /\ agent'[c].at = "look"
         /\ agent'[c].cred = infile
         /\ UNCHANGED <<infile, inkeys, authlock, issued, valid, faulted, excused>>
<1> DEFINE r == [agent[c] EXCEPT !.at = "look", !.cred = infile]
<1>1. r \in Agents
  BY DEF Agents, AuthInv, AuthTypeOK
<1>2. r.op = agent[c].op /\ r.at = "look" /\ r.cred = infile
  OBVIOUS
<1>3. agent' = [agent EXCEPT ![c] = r] /\ via' = via
  BY DEF MigrateReads, AuthInv, AuthTypeOK
<1> HIDE DEF r
<1>4. Moved(c) /\ agent'[c] = r
  BY <1>1, <1>3, AgentBecomes DEF AuthInv
<1> QED BY <1>2, <1>4 DEF AuthInv, InOperation, In, NoRaces, MigrateReads

\* What MigrateLooks does to the agents and the stores.
LEMMA MigrateLooksEffect ==
  ASSUME AuthInv, NoRaces, NEW c \in Clients, MigrateLooks(c)
  PROVE  /\ agent[c].at = "look"
         /\ agent[c].op = "migrate"
         /\ Moved(c)
         /\ \/ /\ agent'[c].op = agent[c].op /\ agent'[c].at = "copy" /\ agent'[c].cred = agent[c].cred
               /\ inkeys = 0
            \/ /\ agent'[c].op = "none" /\ agent'[c].at = "idle" /\ agent'[c].cred = 0
         /\ UNCHANGED <<infile, inkeys, authlock, issued, valid, faulted, excused>>
<1>1. /\ In(c, "migrate", "look")
      /\ UNCHANGED <<via, infile, inkeys, authlock, issued, valid, faulted, excused>>
  BY DEF MigrateLooks
<1>2. CASE agent[c].cred # 0 /\ inkeys = 0
  BY <1>1, <1>2, AgentMoves DEF MigrateLooks, AgentPlaces, AuthInv, In
<1>3. CASE ~(agent[c].cred # 0 /\ inkeys = 0)
  BY <1>1, <1>3, AgentRests DEF MigrateLooks, AuthInv, In
<1> QED BY <1>1, <1>2, <1>3

\* What MigrateCopies does to the agents and the stores.
LEMMA MigrateCopiesEffect ==
  ASSUME AuthInv, NoRaces, NEW c \in Clients, MigrateCopies(c)
  PROVE  /\ agent[c].at = "copy"
         /\ agent[c].op = "migrate"
         /\ inkeys' = agent[c].cred
         /\ Moved(c)
         /\ agent'[c].at = "idle"
         /\ agent'[c].op = "none"
         /\ agent'[c].cred = 0
         /\ UNCHANGED <<infile, authlock, issued, valid, faulted, excused>>
  BY AgentRests, NothingSteals DEF AuthInv, In, AgentPlaces, Unlocked, Release, NoRaces,
     MigrateCopies

\* What AgentDies does to the agents and the stores.
LEMMA AgentDiesEffect ==
  ASSUME AuthInv, NoRaces, NEW c \in Clients, AgentDies(c)
  PROVE  /\ agent[c].at # "idle"
         /\ faulted < MaxAuthFaults
         /\ faulted' = faulted + 1
         /\ (excused \/ agent[c].op = "logout" \/ agent[c].at = "store") => excused'
         /\ excused' \in BOOLEAN
         /\ Moved(c)
         /\ agent'[c].at = "idle"
         /\ agent'[c].op = "none"
         /\ agent'[c].cred = 0
         /\ UNCHANGED <<infile, inkeys, authlock, issued, valid>>
<1>1. excused \in BOOLEAN /\ (agent[c].at = "store" => agent[c].op = "refresh")
  BY DEF AuthInv, AuthTypeOK, InOperation
<1>2. (excused \/ agent[c].op = "logout" \/ agent[c].at = "store") => excused'
  BY <1>1 DEF AgentDies, In
<1>3. excused' \in BOOLEAN
  BY <1>1 DEF AgentDies, In
<1> QED BY <1>2, <1>3, AgentRests DEF AuthInv, AgentDies

\* No step leaves the types, and every token that is somewhere was issued.
LEMMA TypeKept ==
  ASSUME AuthInv, NoRaces, NEW c \in Clients, AgentSteps(c)
  PROVE  (AuthTypeOK /\ TokensIssued)'
<1>t. ASSUME agent' \in [Clients -> Agents], via' = via,
             \A d \in Clients : d # c => agent'[d] = agent[d],
             issued' \in 0..MaxTokens, infile' \in 0..issued', inkeys' \in 0..issued',
             agent'[c].cred \in 0..issued', issued \in 0..issued',
             valid' \subseteq 1..issued',
             authlock' \in {"none", "fresh", "stale"}, faulted' \in 0..MaxAuthFaults,
             excused' \in BOOLEAN
      PROVE  (AuthTypeOK /\ TokensIssued)'
  <2>1. infile' \in 0..MaxTokens /\ inkeys' \in 0..MaxTokens
    BY <1>t, AuthAssumption
  <2>2. AuthTypeOK'
    BY <1>t, <2>1 DEF AuthInv, AuthTypeOK, Agents
  <2>3. ASSUME NEW d \in Clients PROVE agent'[d].cred <= issued'
    <3>1. CASE d = c
      BY <1>t, <3>1, AuthAssumption
    <3>2. CASE d # c
      BY <1>t, <3>2, TokenTypes
    <3> QED BY <3>1, <3>2
  <2> QED BY <1>t, <2>2, <2>3 DEF TokensIssued
<1>1. ASSUME NEW op \in Ops, StartOp(c, op) PROVE (AuthTypeOK /\ TokensIssued)'
  <2>1. /\ agent' \in [Clients -> Agents] /\ via' = via
        /\ \A d \in Clients : d # c => agent'[d] = agent[d]
    BY <1>1, StartOpEffect DEF Moved
  <2>2. /\ issued' \in 0..MaxTokens /\ infile' \in 0..issued' /\ inkeys' \in 0..issued'
        /\ agent'[c].cred \in 0..issued' /\ issued \in 0..issued'
    BY <1>1, StartOpEffect, TokenTypes
  <2>3. valid' \subseteq 1..issued'
    BY <1>1, StartOpEffect, TokenTypes
  <2>4. authlock' \in {"none", "fresh", "stale"} /\ faulted' \in 0..MaxAuthFaults /\ excused' \in BOOLEAN
    BY <1>1, StartOpEffect, AuthAssumption DEF AuthInv, AuthTypeOK
  <2> QED BY <1>t, <2>1, <2>2, <2>3, <2>4
<1>2. CASE RemoveStale(c)
  <2>1. /\ agent' \in [Clients -> Agents] /\ via' = via
        /\ \A d \in Clients : d # c => agent'[d] = agent[d]
    BY <1>2, RemoveStaleEffect DEF Moved
  <2>2. /\ issued' \in 0..MaxTokens /\ infile' \in 0..issued' /\ inkeys' \in 0..issued'
        /\ agent'[c].cred \in 0..issued' /\ issued \in 0..issued'
    BY <1>2, RemoveStaleEffect, TokenTypes
  <2>3. valid' \subseteq 1..issued'
    BY <1>2, RemoveStaleEffect, TokenTypes
  <2>4. authlock' \in {"none", "fresh", "stale"} /\ faulted' \in 0..MaxAuthFaults /\ excused' \in BOOLEAN
    BY <1>2, RemoveStaleEffect, AuthAssumption DEF AuthInv, AuthTypeOK
  <2> QED BY <1>t, <2>1, <2>2, <2>3, <2>4
<1>3. CASE Locked(c)
  <2>1. /\ agent' \in [Clients -> Agents] /\ via' = via
        /\ \A d \in Clients : d # c => agent'[d] = agent[d]
    BY <1>3, LockedEffect DEF Moved
  <2>2. /\ issued' \in 0..MaxTokens /\ infile' \in 0..issued' /\ inkeys' \in 0..issued'
        /\ agent'[c].cred \in 0..issued' /\ issued \in 0..issued'
    BY <1>3, LockedEffect, TokenTypes
  <2>3. valid' \subseteq 1..issued'
    BY <1>3, LockedEffect, TokenTypes
  <2>4. authlock' \in {"none", "fresh", "stale"} /\ faulted' \in 0..MaxAuthFaults /\ excused' \in BOOLEAN
    BY <1>3, LockedEffect, AuthAssumption DEF AuthInv, AuthTypeOK
  <2> QED BY <1>t, <2>1, <2>2, <2>3, <2>4
<1>4. CASE LockRefused(c)
  <2>1. /\ agent' \in [Clients -> Agents] /\ via' = via
        /\ \A d \in Clients : d # c => agent'[d] = agent[d]
    BY <1>4, LockRefusedEffect DEF Moved
  <2>2. /\ issued' \in 0..MaxTokens /\ infile' \in 0..issued' /\ inkeys' \in 0..issued'
        /\ agent'[c].cred \in 0..issued' /\ issued \in 0..issued'
    BY <1>4, LockRefusedEffect, TokenTypes
  <2>3. valid' \subseteq 1..issued'
    BY <1>4, LockRefusedEffect, TokenTypes
  <2>4. authlock' \in {"none", "fresh", "stale"} /\ faulted' \in 0..MaxAuthFaults /\ excused' \in BOOLEAN
    BY <1>4, LockRefusedEffect, AuthAssumption DEF AuthInv, AuthTypeOK
  <2> QED BY <1>t, <2>1, <2>2, <2>3, <2>4
<1>5. CASE ReadFile(c)
  <2>1. /\ agent' \in [Clients -> Agents] /\ via' = via
        /\ \A d \in Clients : d # c => agent'[d] = agent[d]
    BY <1>5, ReadFileEffect DEF Moved
  <2>2. /\ issued' \in 0..MaxTokens /\ infile' \in 0..issued' /\ inkeys' \in 0..issued'
        /\ agent'[c].cred \in 0..issued' /\ issued \in 0..issued'
    BY <1>5, ReadFileEffect, TokenTypes
  <2>3. valid' \subseteq 1..issued'
    BY <1>5, ReadFileEffect, TokenTypes
  <2>4. authlock' \in {"none", "fresh", "stale"} /\ faulted' \in 0..MaxAuthFaults /\ excused' \in BOOLEAN
    BY <1>5, ReadFileEffect, AuthAssumption DEF AuthInv, AuthTypeOK
  <2> QED BY <1>t, <2>1, <2>2, <2>3, <2>4
<1>6. CASE Acknowledge(c)
  <2>1. /\ agent' \in [Clients -> Agents] /\ via' = via
        /\ \A d \in Clients : d # c => agent'[d] = agent[d]
    BY <1>6, AcknowledgeEffect DEF Moved
  <2>2. /\ issued' \in 0..MaxTokens /\ infile' \in 0..issued' /\ inkeys' \in 0..issued'
        /\ agent'[c].cred \in 0..issued' /\ issued \in 0..issued'
    BY <1>6, AcknowledgeEffect, TokenTypes
  <2>3. valid' \subseteq 1..issued'
    BY <1>6, AcknowledgeEffect, TokenTypes
  <2>4. authlock' \in {"none", "fresh", "stale"} /\ faulted' \in 0..MaxAuthFaults /\ excused' \in BOOLEAN
    BY <1>6, AcknowledgeEffect, AuthAssumption DEF AuthInv, AuthTypeOK
  <2> QED BY <1>t, <2>1, <2>2, <2>3, <2>4
<1>7. CASE LoginFile(c)
  <2>1. /\ agent' \in [Clients -> Agents] /\ via' = via
        /\ \A d \in Clients : d # c => agent'[d] = agent[d]
    BY <1>7, LoginFileEffect DEF Moved
  <2>2. /\ issued' \in 0..MaxTokens /\ infile' \in 0..issued' /\ inkeys' \in 0..issued'
        /\ agent'[c].cred \in 0..issued' /\ issued \in 0..issued'
    BY <1>7, LoginFileEffect, TokenTypes, AuthAssumption
  <2>3. valid' \subseteq 1..issued'
    BY <1>7, LoginFileEffect, TokenTypes
  <2>4. authlock' \in {"none", "fresh", "stale"} /\ faulted' \in 0..MaxAuthFaults /\ excused' \in BOOLEAN
    BY <1>7, LoginFileEffect, AuthAssumption DEF AuthInv, AuthTypeOK
  <2> QED BY <1>t, <2>1, <2>2, <2>3, <2>4
<1>8. CASE LoginKeychain(c)
  <2>1. /\ agent' \in [Clients -> Agents] /\ via' = via
        /\ \A d \in Clients : d # c => agent'[d] = agent[d]
    BY <1>8, LoginKeychainEffect DEF Moved
  <2>2. /\ issued' \in 0..MaxTokens /\ infile' \in 0..issued' /\ inkeys' \in 0..issued'
        /\ agent'[c].cred \in 0..issued' /\ issued \in 0..issued'
    BY <1>8, LoginKeychainEffect, TokenTypes, AuthAssumption
  <2>3. valid' \subseteq 1..issued'
    BY <1>8, LoginKeychainEffect, TokenTypes
  <2>4. authlock' \in {"none", "fresh", "stale"} /\ faulted' \in 0..MaxAuthFaults /\ excused' \in BOOLEAN
    BY <1>8, LoginKeychainEffect, AuthAssumption DEF AuthInv, AuthTypeOK
  <2> QED BY <1>t, <2>1, <2>2, <2>3, <2>4
<1>9. CASE LogoutFile(c)
  <2>1. /\ agent' \in [Clients -> Agents] /\ via' = via
        /\ \A d \in Clients : d # c => agent'[d] = agent[d]
    BY <1>9, LogoutFileEffect DEF Moved
  <2>2. /\ issued' \in 0..MaxTokens /\ infile' \in 0..issued' /\ inkeys' \in 0..issued'
        /\ agent'[c].cred \in 0..issued' /\ issued \in 0..issued'
    BY <1>9, LogoutFileEffect, TokenTypes
  <2>3. valid' \subseteq 1..issued'
    BY <1>9, LogoutFileEffect, TokenTypes
  <2>4. authlock' \in {"none", "fresh", "stale"} /\ faulted' \in 0..MaxAuthFaults /\ excused' \in BOOLEAN
    BY <1>9, LogoutFileEffect, AuthAssumption DEF AuthInv, AuthTypeOK
  <2> QED BY <1>t, <2>1, <2>2, <2>3, <2>4
<1>10. CASE LogoutKeychain(c)
  <2>1. /\ agent' \in [Clients -> Agents] /\ via' = via
        /\ \A d \in Clients : d # c => agent'[d] = agent[d]
    BY <1>10, LogoutKeychainEffect DEF Moved
  <2>2. /\ issued' \in 0..MaxTokens /\ infile' \in 0..issued' /\ inkeys' \in 0..issued'
        /\ agent'[c].cred \in 0..issued' /\ issued \in 0..issued'
    BY <1>10, LogoutKeychainEffect, TokenTypes
  <2>3. valid' \subseteq 1..issued'
    BY <1>10, LogoutKeychainEffect, TokenTypes
  <2>4. authlock' \in {"none", "fresh", "stale"} /\ faulted' \in 0..MaxAuthFaults /\ excused' \in BOOLEAN
    BY <1>10, LogoutKeychainEffect, AuthAssumption DEF AuthInv, AuthTypeOK
  <2> QED BY <1>t, <2>1, <2>2, <2>3, <2>4
<1>11. CASE RefreshReads(c)
  <2>1. /\ agent' \in [Clients -> Agents] /\ via' = via
        /\ \A d \in Clients : d # c => agent'[d] = agent[d]
    BY <1>11, RefreshReadsEffect DEF Moved
  <2>2. /\ issued' \in 0..MaxTokens /\ infile' \in 0..issued' /\ inkeys' \in 0..issued'
        /\ agent'[c].cred \in 0..issued' /\ issued \in 0..issued'
    BY <1>11, RefreshReadsEffect, TokenTypes DEF Get
  <2>3. valid' \subseteq 1..issued'
    BY <1>11, RefreshReadsEffect, TokenTypes
  <2>4. authlock' \in {"none", "fresh", "stale"} /\ faulted' \in 0..MaxAuthFaults /\ excused' \in BOOLEAN
    BY <1>11, RefreshReadsEffect, AuthAssumption DEF AuthInv, AuthTypeOK
  <2> QED BY <1>t, <2>1, <2>2, <2>3, <2>4
<1>12. CASE Rotated(c)
  <2>1. /\ agent' \in [Clients -> Agents] /\ via' = via
        /\ \A d \in Clients : d # c => agent'[d] = agent[d]
    BY <1>12, RotatedEffect DEF Moved
  <2>2. /\ issued' \in 0..MaxTokens /\ infile' \in 0..issued' /\ inkeys' \in 0..issued'
        /\ agent'[c].cred \in 0..issued' /\ issued \in 0..issued'
    BY <1>12, RotatedEffect, TokenTypes, AuthAssumption
  <2>3. valid' \subseteq 1..issued'
    BY <1>12, RotatedEffect, TokenTypes
  <2>4. authlock' \in {"none", "fresh", "stale"} /\ faulted' \in 0..MaxAuthFaults /\ excused' \in BOOLEAN
    BY <1>12, RotatedEffect, AuthAssumption DEF AuthInv, AuthTypeOK
  <2> QED BY <1>t, <2>1, <2>2, <2>3, <2>4
<1>13. CASE Refused(c)
  <2>1. /\ agent' \in [Clients -> Agents] /\ via' = via
        /\ \A d \in Clients : d # c => agent'[d] = agent[d]
    BY <1>13, RefusedEffect DEF Moved
  <2>2. /\ issued' \in 0..MaxTokens /\ infile' \in 0..issued' /\ inkeys' \in 0..issued'
        /\ agent'[c].cred \in 0..issued' /\ issued \in 0..issued'
    BY <1>13, RefusedEffect, TokenTypes
  <2>3. valid' \subseteq 1..issued'
    BY <1>13, RefusedEffect, TokenTypes
  <2>4. authlock' \in {"none", "fresh", "stale"} /\ faulted' \in 0..MaxAuthFaults /\ excused' \in BOOLEAN
    BY <1>13, RefusedEffect, AuthAssumption DEF AuthInv, AuthTypeOK
  <2> QED BY <1>t, <2>1, <2>2, <2>3, <2>4
<1>14. CASE StoresRotated(c)
  <2>1. /\ agent' \in [Clients -> Agents] /\ via' = via
        /\ \A d \in Clients : d # c => agent'[d] = agent[d]
    BY <1>14, StoresRotatedEffect DEF Moved
  <2>2. /\ issued' \in 0..MaxTokens /\ infile' \in 0..issued' /\ inkeys' \in 0..issued'
        /\ agent'[c].cred \in 0..issued' /\ issued \in 0..issued'
    BY <1>14, StoresRotatedEffect, TokenTypes, AuthAssumption
  <2>3. valid' \subseteq 1..issued'
    BY <1>14, StoresRotatedEffect, TokenTypes
  <2>4. authlock' \in {"none", "fresh", "stale"} /\ faulted' \in 0..MaxAuthFaults /\ excused' \in BOOLEAN
    BY <1>14, StoresRotatedEffect, AuthAssumption DEF AuthInv, AuthTypeOK
  <2> QED BY <1>t, <2>1, <2>2, <2>3, <2>4
<1>15. CASE MigrateReads(c)
  <2>1. /\ agent' \in [Clients -> Agents] /\ via' = via
        /\ \A d \in Clients : d # c => agent'[d] = agent[d]
    BY <1>15, MigrateReadsEffect DEF Moved
  <2>2. /\ issued' \in 0..MaxTokens /\ infile' \in 0..issued' /\ inkeys' \in 0..issued'
        /\ agent'[c].cred \in 0..issued' /\ issued \in 0..issued'
    BY <1>15, MigrateReadsEffect, TokenTypes
  <2>3. valid' \subseteq 1..issued'
    BY <1>15, MigrateReadsEffect, TokenTypes
  <2>4. authlock' \in {"none", "fresh", "stale"} /\ faulted' \in 0..MaxAuthFaults /\ excused' \in BOOLEAN
    BY <1>15, MigrateReadsEffect, AuthAssumption DEF AuthInv, AuthTypeOK
  <2> QED BY <1>t, <2>1, <2>2, <2>3, <2>4
<1>16. CASE MigrateLooks(c)
  <2>1. /\ agent' \in [Clients -> Agents] /\ via' = via
        /\ \A d \in Clients : d # c => agent'[d] = agent[d]
    BY <1>16, MigrateLooksEffect DEF Moved
  <2>2. /\ issued' \in 0..MaxTokens /\ infile' \in 0..issued' /\ inkeys' \in 0..issued'
        /\ agent'[c].cred \in 0..issued' /\ issued \in 0..issued'
    BY <1>16, MigrateLooksEffect, TokenTypes
  <2>3. valid' \subseteq 1..issued'
    BY <1>16, MigrateLooksEffect, TokenTypes
  <2>4. authlock' \in {"none", "fresh", "stale"} /\ faulted' \in 0..MaxAuthFaults /\ excused' \in BOOLEAN
    BY <1>16, MigrateLooksEffect, AuthAssumption DEF AuthInv, AuthTypeOK
  <2> QED BY <1>t, <2>1, <2>2, <2>3, <2>4
<1>17. CASE MigrateCopies(c)
  <2>1. /\ agent' \in [Clients -> Agents] /\ via' = via
        /\ \A d \in Clients : d # c => agent'[d] = agent[d]
    BY <1>17, MigrateCopiesEffect DEF Moved
  <2>2. /\ issued' \in 0..MaxTokens /\ infile' \in 0..issued' /\ inkeys' \in 0..issued'
        /\ agent'[c].cred \in 0..issued' /\ issued \in 0..issued'
    BY <1>17, MigrateCopiesEffect, TokenTypes
  <2>3. valid' \subseteq 1..issued'
    BY <1>17, MigrateCopiesEffect, TokenTypes
  <2>4. authlock' \in {"none", "fresh", "stale"} /\ faulted' \in 0..MaxAuthFaults /\ excused' \in BOOLEAN
    BY <1>17, MigrateCopiesEffect, AuthAssumption DEF AuthInv, AuthTypeOK
  <2> QED BY <1>t, <2>1, <2>2, <2>3, <2>4
<1>18. CASE AgentDies(c)
  <2>1. /\ agent' \in [Clients -> Agents] /\ via' = via
        /\ \A d \in Clients : d # c => agent'[d] = agent[d]
    BY <1>18, AgentDiesEffect DEF Moved
  <2>2. /\ issued' \in 0..MaxTokens /\ infile' \in 0..issued' /\ inkeys' \in 0..issued'
        /\ agent'[c].cred \in 0..issued' /\ issued \in 0..issued'
    BY <1>18, AgentDiesEffect, TokenTypes
  <2>3. valid' \subseteq 1..issued'
    BY <1>18, AgentDiesEffect, TokenTypes
  <2>4. authlock' \in {"none", "fresh", "stale"} /\ faulted' \in 0..MaxAuthFaults /\ excused' \in BOOLEAN
    BY <1>18, AgentDiesEffect, AuthAssumption DEF AuthInv, AuthTypeOK
  <2> QED BY <1>t, <2>1, <2>2, <2>3, <2>4
<1> QED BY <1>1, <1>2, <1>3, <1>4, <1>5, <1>6, <1>7, <1>8, <1>9, <1>10, <1>11, <1>12, <1>13,
           <1>14, <1>15, <1>16, <1>17, <1>18 DEF AgentSteps

\* Each operation goes its own way, and a migration goes it alone.
LEMMA OperationKept ==
  ASSUME AuthInv, NoRaces, NEW c \in Clients, AgentSteps(c)
  PROVE  (\A d \in Clients : InOperation(d))'
<1>1. ASSUME NEW op \in Ops, StartOp(c, op) PROVE (\A d \in Clients : InOperation(d))'
  BY <1>1, StartOpEffect DEF AuthInv, InOperation, Locks, Moved
<1>2. CASE RemoveStale(c)
  BY <1>2, RemoveStaleEffect DEF AuthInv, InOperation, Locks, Moved
<1>3. CASE Locked(c)
  BY <1>3, LockedEffect DEF AuthInv, InOperation, Locks, Moved
<1>4. CASE LockRefused(c)
  BY <1>4, LockRefusedEffect DEF AuthInv, InOperation, Locks, Moved
<1>5. CASE ReadFile(c)
  BY <1>5, ReadFileEffect DEF AuthInv, InOperation, Locks, Moved
<1>6. CASE Acknowledge(c)
  BY <1>6, AcknowledgeEffect DEF AuthInv, InOperation, Locks, Moved
<1>7. CASE LoginFile(c)
  BY <1>7, LoginFileEffect DEF AuthInv, InOperation, Locks, Moved
<1>8. CASE LoginKeychain(c)
  BY <1>8, LoginKeychainEffect DEF AuthInv, InOperation, Locks, Moved
<1>9. CASE LogoutFile(c)
  BY <1>9, LogoutFileEffect DEF AuthInv, InOperation, Locks, Moved
<1>10. CASE LogoutKeychain(c)
  BY <1>10, LogoutKeychainEffect DEF AuthInv, InOperation, Locks, Moved
<1>11. CASE RefreshReads(c)
  BY <1>11, RefreshReadsEffect DEF AuthInv, InOperation, Locks, Moved
<1>12. CASE Rotated(c)
  BY <1>12, RotatedEffect DEF AuthInv, InOperation, Locks, Moved
<1>13. CASE Refused(c)
  BY <1>13, RefusedEffect DEF AuthInv, InOperation, Locks, Moved
<1>14. CASE StoresRotated(c)
  BY <1>14, StoresRotatedEffect DEF AuthInv, InOperation, Locks, Moved
<1>15. CASE MigrateReads(c)
  BY <1>15, MigrateReadsEffect DEF AuthInv, InOperation, Locks, Moved
<1>16. CASE MigrateLooks(c)
  BY <1>16, MigrateLooksEffect DEF AuthInv, InOperation, Locks, Moved
<1>17. CASE MigrateCopies(c)
  BY <1>17, MigrateCopiesEffect DEF AuthInv, InOperation, Locks, Moved
<1>18. CASE AgentDies(c)
  BY <1>18, AgentDiesEffect DEF AuthInv, InOperation, Locks, Moved
<1> QED BY <1>1, <1>2, <1>3, <1>4, <1>5, <1>6, <1>7, <1>8, <1>9, <1>10, <1>11, <1>12, <1>13,
           <1>14, <1>15, <1>16, <1>17, <1>18 DEF AgentSteps

\* The file's lock keeps one owner.
LEMMA LockKept ==
  ASSUME AuthInv, NoRaces, NEW c \in Clients, AgentSteps(c)
  PROVE  (LockHeld)'
<1>1. ASSUME NEW op \in Ops, StartOp(c, op) PROVE (LockHeld)'
  BY <1>1, StartOpEffect DEF AuthInv, InOperation, LockHeld, HasFileLock, Locks, Moved
<1>2. CASE RemoveStale(c)
  BY <1>2, RemoveStaleEffect DEF AuthInv, InOperation, LockHeld, HasFileLock, Locks, Moved
<1>3. CASE Locked(c)
  BY <1>3, LockedEffect DEF AuthInv, InOperation, LockHeld, HasFileLock, Locks, Moved
<1>4. CASE LockRefused(c)
  BY <1>4, LockRefusedEffect DEF AuthInv, InOperation, LockHeld, HasFileLock, Locks, Moved
<1>5. CASE ReadFile(c)
  BY <1>5, ReadFileEffect DEF AuthInv, InOperation, LockHeld, HasFileLock, Locks, Moved
<1>6. CASE Acknowledge(c)
  BY <1>6, AcknowledgeEffect DEF AuthInv, InOperation, LockHeld, HasFileLock, Locks, Moved
<1>7. CASE LoginFile(c)
  BY <1>7, LoginFileEffect DEF AuthInv, InOperation, LockHeld, HasFileLock, Locks, Moved
<1>8. CASE LoginKeychain(c)
  BY <1>8, LoginKeychainEffect DEF AuthInv, InOperation, LockHeld, HasFileLock, Locks, Moved
<1>9. CASE LogoutFile(c)
  BY <1>9, LogoutFileEffect DEF AuthInv, InOperation, LockHeld, HasFileLock, Locks, Moved
<1>10. CASE LogoutKeychain(c)
  BY <1>10, LogoutKeychainEffect DEF AuthInv, InOperation, LockHeld, HasFileLock, Locks, Moved
<1>11. CASE RefreshReads(c)
  BY <1>11, RefreshReadsEffect DEF AuthInv, InOperation, LockHeld, HasFileLock, Locks, Moved
<1>12. CASE Rotated(c)
  BY <1>12, RotatedEffect DEF AuthInv, InOperation, LockHeld, HasFileLock, Locks, Moved
<1>13. CASE Refused(c)
  BY <1>13, RefusedEffect DEF AuthInv, InOperation, LockHeld, HasFileLock, Locks, Moved
<1>14. CASE StoresRotated(c)
  BY <1>14, StoresRotatedEffect DEF AuthInv, InOperation, LockHeld, HasFileLock, Locks, Moved
<1>15. CASE MigrateReads(c)
  BY <1>15, MigrateReadsEffect DEF AuthInv, InOperation, LockHeld, HasFileLock, Locks, Moved
<1>16. CASE MigrateLooks(c)
  BY <1>16, MigrateLooksEffect DEF AuthInv, InOperation, LockHeld, HasFileLock, Locks, Moved
<1>17. CASE MigrateCopies(c)
  BY <1>17, MigrateCopiesEffect DEF AuthInv, InOperation, LockHeld, HasFileLock, Locks, Moved
<1>18. CASE AgentDies(c)
  BY <1>18, AgentDiesEffect DEF AuthInv, InOperation, LockHeld, HasFileLock, Locks, Moved
<1> QED BY <1>1, <1>2, <1>3, <1>4, <1>5, <1>6, <1>7, <1>8, <1>9, <1>10, <1>11, <1>12, <1>13,
           <1>14, <1>15, <1>16, <1>17, <1>18 DEF AgentSteps

\* What was read under the lock, or by a migration, is still what there is.
LEMMA ReadKept ==
  ASSUME AuthInv, NoRaces, NEW c \in Clients, AgentSteps(c)
  PROVE  (\A d \in Clients : ReadIsCurrent(d))'
<1>1. ASSUME NEW op \in Ops, StartOp(c, op) PROVE (\A d \in Clients : ReadIsCurrent(d))'
  BY <1>1, StartOpEffect DEF AuthInv, InOperation, ReadIsCurrent, LockHeld, HasFileLock, Locks,
     Moved
<1>2. CASE RemoveStale(c)
  BY <1>2, RemoveStaleEffect DEF AuthInv, InOperation, ReadIsCurrent, LockHeld, HasFileLock,
     Locks, Moved
<1>3. CASE Locked(c)
  BY <1>3, LockedEffect DEF AuthInv, InOperation, ReadIsCurrent, LockHeld, HasFileLock, Locks,
     Moved
<1>4. CASE LockRefused(c)
  BY <1>4, LockRefusedEffect DEF AuthInv, InOperation, ReadIsCurrent, LockHeld, HasFileLock,
     Locks, Moved
<1>5. CASE ReadFile(c)
  BY <1>5, ReadFileEffect DEF AuthInv, InOperation, ReadIsCurrent, LockHeld, HasFileLock, Locks,
     Moved
<1>6. CASE Acknowledge(c)
  BY <1>6, AcknowledgeEffect DEF AuthInv, InOperation, ReadIsCurrent, LockHeld, HasFileLock,
     Locks, Moved
<1>7. CASE LoginFile(c)
  BY <1>7, LoginFileEffect DEF AuthInv, InOperation, ReadIsCurrent, LockHeld, HasFileLock,
     Locks, Moved
<1>8. CASE LoginKeychain(c)
  BY <1>8, LoginKeychainEffect DEF AuthInv, InOperation, ReadIsCurrent, LockHeld, HasFileLock,
     Locks, Moved
<1>9. CASE LogoutFile(c)
  BY <1>9, LogoutFileEffect DEF AuthInv, InOperation, ReadIsCurrent, LockHeld, HasFileLock,
     Locks, Moved
<1>10. CASE LogoutKeychain(c)
  BY <1>10, LogoutKeychainEffect DEF AuthInv, InOperation, ReadIsCurrent, LockHeld, HasFileLock,
     Locks, Moved
<1>11. CASE RefreshReads(c)
  BY <1>11, RefreshReadsEffect DEF AuthInv, InOperation, ReadIsCurrent, LockHeld, HasFileLock,
     Locks, Moved
<1>12. CASE Rotated(c)
  BY <1>12, RotatedEffect DEF AuthInv, InOperation, ReadIsCurrent, LockHeld, HasFileLock, Locks,
     Moved
<1>13. CASE Refused(c)
  BY <1>13, RefusedEffect DEF AuthInv, InOperation, ReadIsCurrent, LockHeld, HasFileLock, Locks,
     Moved
<1>14. CASE StoresRotated(c)
  <2>1. /\ agent'[c].at = "idle" /\ \A d \in Clients : d # c => agent'[d] = agent[d]
        /\ via' = via /\ excused' = excused /\ agent[c].at = "store" /\ agent[c].op = "refresh"
    BY <1>14, StoresRotatedEffect DEF Moved
  <2>2. \A d \in Clients : d # c => agent[d].at \notin {"look", "copy"}
    BY <2>1 DEF AuthInv, InOperation
  <2>3. CASE via[c] = "keychain"
    <3>1. infile' = infile
      BY <1>14, <2>3, StoresRotatedEffect
    <3> QED BY <2>1, <2>2, <3>1 DEF AuthInv, ReadIsCurrent
  <2>4. CASE via[c] # "keychain"
    <3>1. via[c] = "file" /\ \A d \in Clients : via[d] = "file"
      BY <2>4 DEF AuthInv, AuthTypeOK, Backends
    <3>2. HasFileLock(c)
      BY <2>1, <3>1 DEF HasFileLock
    <3>3. \A d \in Clients : d # c => agent[d].at # "write"
      BY <3>1, <3>2 DEF AuthInv, LockHeld, HasFileLock, InOperation, Locks
    <3> QED BY <2>1, <2>2, <3>1, <3>3 DEF ReadIsCurrent
  <2> QED BY <2>3, <2>4
<1>15. CASE MigrateReads(c)
  BY <1>15, MigrateReadsEffect DEF AuthInv, InOperation, ReadIsCurrent, LockHeld, HasFileLock,
     Locks, Moved
<1>16. CASE MigrateLooks(c)
  BY <1>16, MigrateLooksEffect DEF AuthInv, InOperation, ReadIsCurrent, LockHeld, HasFileLock,
     Locks, Moved
<1>17. CASE MigrateCopies(c)
  BY <1>17, MigrateCopiesEffect DEF AuthInv, InOperation, ReadIsCurrent, LockHeld, HasFileLock,
     Locks, Moved
<1>18. CASE AgentDies(c)
  BY <1>18, AgentDiesEffect DEF AuthInv, InOperation, ReadIsCurrent, LockHeld, HasFileLock,
     Locks, Moved
<1> QED BY <1>1, <1>2, <1>3, <1>4, <1>5, <1>6, <1>7, <1>8, <1>9, <1>10, <1>11, <1>12, <1>13,
           <1>14, <1>15, <1>16, <1>17, <1>18 DEF AgentSteps

\* A rotated token stays valid and known to its process only, until it is stored.
LEMMA RotatedKept ==
  ASSUME AuthInv, NoRaces, NEW c \in Clients, AgentSteps(c)
  PROVE  (\A d \in Clients : RotatedIsOwn(d))'
<1>1. ASSUME NEW op \in Ops, StartOp(c, op) PROVE (\A d \in Clients : RotatedIsOwn(d))'
  BY <1>1, StartOpEffect DEF AuthInv, AuthTypeOK, TokensIssued, InOperation, RotatedIsOwn, Moved
<1>2. CASE RemoveStale(c)
  BY <1>2, RemoveStaleEffect DEF AuthInv, AuthTypeOK, TokensIssued, InOperation, RotatedIsOwn,
     Moved
<1>3. CASE Locked(c)
  BY <1>3, LockedEffect DEF AuthInv, AuthTypeOK, TokensIssued, InOperation, RotatedIsOwn, Moved
<1>4. CASE LockRefused(c)
  BY <1>4, LockRefusedEffect DEF AuthInv, AuthTypeOK, TokensIssued, InOperation, RotatedIsOwn,
     Moved
<1>5. CASE ReadFile(c)
  BY <1>5, ReadFileEffect DEF AuthInv, AuthTypeOK, TokensIssued, InOperation, RotatedIsOwn, Moved
<1>6. CASE Acknowledge(c)
  BY <1>6, AcknowledgeEffect DEF AuthInv, AuthTypeOK, TokensIssued, InOperation, RotatedIsOwn,
     Moved
<1>7. CASE LoginFile(c)
  BY <1>7, LoginFileEffect DEF AuthInv, AuthTypeOK, TokensIssued, InOperation, RotatedIsOwn, Moved
<1>8. CASE LoginKeychain(c)
  BY <1>8, LoginKeychainEffect DEF AuthInv, AuthTypeOK, TokensIssued, InOperation, RotatedIsOwn,
     Moved
<1>9. CASE LogoutFile(c)
  BY <1>9, LogoutFileEffect DEF AuthInv, AuthTypeOK, TokensIssued, InOperation, RotatedIsOwn,
     Moved
<1>10. CASE LogoutKeychain(c)
  BY <1>10, LogoutKeychainEffect DEF AuthInv, AuthTypeOK, TokensIssued, InOperation,
     RotatedIsOwn, Moved
<1>11. CASE RefreshReads(c)
  <2>1. Get(via[c]) \in {infile, inkeys}
    BY DEF Get
  <2> QED BY <1>11, <2>1, RefreshReadsEffect DEF AuthInv, RotatedIsOwn, Moved
<1>12. CASE Rotated(c)
  BY <1>12, RotatedEffect DEF AuthInv, AuthTypeOK, TokensIssued, InOperation, RotatedIsOwn, Moved
<1>13. CASE Refused(c)
  BY <1>13, RefusedEffect DEF AuthInv, AuthTypeOK, TokensIssued, InOperation, RotatedIsOwn, Moved
<1>14. CASE StoresRotated(c)
  BY <1>14, StoresRotatedEffect DEF AuthInv, AuthTypeOK, TokensIssued, InOperation,
     RotatedIsOwn, Moved
<1>15. CASE MigrateReads(c)
  BY <1>15, MigrateReadsEffect DEF AuthInv, AuthTypeOK, TokensIssued, InOperation, RotatedIsOwn,
     Moved
<1>16. CASE MigrateLooks(c)
  BY <1>16, MigrateLooksEffect DEF AuthInv, AuthTypeOK, TokensIssued, InOperation, RotatedIsOwn,
     Moved
<1>17. CASE MigrateCopies(c)
  BY <1>17, MigrateCopiesEffect DEF AuthInv, AuthTypeOK, TokensIssued, InOperation,
     RotatedIsOwn, Moved
<1>18. CASE AgentDies(c)
  BY <1>18, AgentDiesEffect DEF AuthInv, AuthTypeOK, TokensIssued, InOperation, RotatedIsOwn,
     Moved
<1> QED BY <1>1, <1>2, <1>3, <1>4, <1>5, <1>6, <1>7, <1>8, <1>9, <1>10, <1>11, <1>12, <1>13,
           <1>14, <1>15, <1>16, <1>17, <1>18 DEF AgentSteps

\* What a process reads stays live, or a rotated token is about to be stored.
LEMMA LiveKept ==
  ASSUME AuthInv, NoRaces, NEW c \in Clients, AgentSteps(c)
  PROVE  (StoredTokenIsLive)'
<1>1. ASSUME NEW op \in Ops, StartOp(c, op) PROVE (StoredTokenIsLive)'
  BY <1>1, StartOpEffect DEF AuthInv, AuthTypeOK, TokensIssued, InOperation, RotatedIsOwn,
     ReadIsCurrent, StoredTokenIsLive, Get, In, Moved
<1>2. CASE RemoveStale(c)
  BY <1>2, RemoveStaleEffect DEF AuthInv, AuthTypeOK, TokensIssued, InOperation, RotatedIsOwn,
     ReadIsCurrent, StoredTokenIsLive, Get, In, Moved
<1>3. CASE Locked(c)
  BY <1>3, LockedEffect DEF AuthInv, AuthTypeOK, TokensIssued, InOperation, RotatedIsOwn,
     ReadIsCurrent, StoredTokenIsLive, Get, In, Moved
<1>4. CASE LockRefused(c)
  BY <1>4, LockRefusedEffect DEF AuthInv, AuthTypeOK, TokensIssued, InOperation, RotatedIsOwn,
     ReadIsCurrent, StoredTokenIsLive, Get, In, Moved
<1>5. CASE ReadFile(c)
  BY <1>5, ReadFileEffect DEF AuthInv, AuthTypeOK, TokensIssued, InOperation, RotatedIsOwn,
     ReadIsCurrent, StoredTokenIsLive, Get, In, Moved
<1>6. CASE Acknowledge(c)
  BY <1>6, AcknowledgeEffect DEF AuthInv, AuthTypeOK, TokensIssued, InOperation, RotatedIsOwn,
     ReadIsCurrent, StoredTokenIsLive, Get, In, Moved
<1>7. CASE LoginFile(c)
  BY <1>7, LoginFileEffect DEF AuthInv, AuthTypeOK, TokensIssued, InOperation, RotatedIsOwn,
     ReadIsCurrent, StoredTokenIsLive, Get, In, Moved
<1>8. CASE LoginKeychain(c)
  BY <1>8, LoginKeychainEffect DEF AuthInv, AuthTypeOK, TokensIssued, InOperation, RotatedIsOwn,
     ReadIsCurrent, StoredTokenIsLive, Get, In, Moved
<1>9. CASE LogoutFile(c)
  BY <1>9, LogoutFileEffect DEF AuthInv, AuthTypeOK, TokensIssued, InOperation, RotatedIsOwn,
     ReadIsCurrent, StoredTokenIsLive, Get, In, Moved
<1>10. CASE LogoutKeychain(c)
  BY <1>10, LogoutKeychainEffect DEF AuthInv, AuthTypeOK, TokensIssued, InOperation,
     RotatedIsOwn, ReadIsCurrent, StoredTokenIsLive, Get, In, Moved
<1>11. CASE RefreshReads(c)
  BY <1>11, RefreshReadsEffect DEF AuthInv, AuthTypeOK, TokensIssued, InOperation, RotatedIsOwn,
     ReadIsCurrent, StoredTokenIsLive, Get, In, Moved
<1>12. CASE Rotated(c)
  BY <1>12, RotatedEffect DEF AuthInv, AuthTypeOK, TokensIssued, InOperation, RotatedIsOwn,
     ReadIsCurrent, StoredTokenIsLive, Get, In, Moved
<1>13. CASE Refused(c)
  BY <1>13, RefusedEffect DEF AuthInv, AuthTypeOK, TokensIssued, InOperation, RotatedIsOwn,
     ReadIsCurrent, StoredTokenIsLive, Get, In, Moved
<1>14. CASE StoresRotated(c)
  BY <1>14, StoresRotatedEffect DEF AuthInv, AuthTypeOK, TokensIssued, InOperation,
     RotatedIsOwn, ReadIsCurrent, StoredTokenIsLive, Get, In, Moved
<1>15. CASE MigrateReads(c)
  BY <1>15, MigrateReadsEffect DEF AuthInv, AuthTypeOK, TokensIssued, InOperation, RotatedIsOwn,
     ReadIsCurrent, StoredTokenIsLive, Get, In, Moved
<1>16. CASE MigrateLooks(c)
  BY <1>16, MigrateLooksEffect DEF AuthInv, AuthTypeOK, TokensIssued, InOperation, RotatedIsOwn,
     ReadIsCurrent, StoredTokenIsLive, Get, In, Moved
<1>17. CASE MigrateCopies(c)
  BY <1>17, MigrateCopiesEffect DEF AuthInv, AuthTypeOK, TokensIssued, InOperation,
     RotatedIsOwn, ReadIsCurrent, StoredTokenIsLive, Get, In, Moved
<1>18. CASE AgentDies(c)
  BY <1>18, AgentDiesEffect DEF AuthInv, AuthTypeOK, TokensIssued, InOperation, RotatedIsOwn,
     ReadIsCurrent, StoredTokenIsLive, Get, In, Moved
<1> QED BY <1>1, <1>2, <1>3, <1>4, <1>5, <1>6, <1>7, <1>8, <1>9, <1>10, <1>11, <1>12, <1>13,
           <1>14, <1>15, <1>16, <1>17, <1>18 DEF AgentSteps

\* A lock that nobody holds goes stale.
LEMMA LockAgesKept ==
  ASSUME AuthInv, NoRaces, LockAges
  PROVE  AuthInv'
<1>1. authlock' = "stale" /\ \A c \in Clients : ~HasFileLock(c)
  BY DEF LockAges, NoRaces
<1>2. UNCHANGED <<via, infile, inkeys, agent, issued, valid, faulted, excused>>
  BY DEF LockAges
<1>3. AuthTypeOK' /\ TokensIssued'
  BY <1>1, <1>2 DEF AuthInv, AuthTypeOK, TokensIssued
<1>4. \A c \in Clients : InOperation(c)' /\ ReadIsCurrent(c)' /\ RotatedIsOwn(c)'
  BY <1>2 DEF AuthInv, InOperation, Locks, ReadIsCurrent, RotatedIsOwn
<1>5. LockHeld'
  BY <1>1, <1>2 DEF LockHeld, HasFileLock, Locks
<1>6. StoredTokenIsLive'
  BY <1>2 DEF AuthInv, StoredTokenIsLive, Get, In
<1> QED BY <1>2, <1>3, <1>4, <1>5, <1>6 DEF AuthInv

LEMMA AuthKeeps ==
  ASSUME NoRaces, AuthInv, [AuthNext]_authVars
  PROVE  AuthInv'
<1>1. CASE UNCHANGED authVars
  BY <1>1 DEF authVars, AuthInv, AuthTypeOK, TokensIssued, InOperation, Locks, ReadIsCurrent,
         RotatedIsOwn, LockHeld, HasFileLock, StoredTokenIsLive, Get, In
<1>2. CASE LockAges
  BY <1>2, LockAgesKept
<1>3. ASSUME NEW c \in Clients, AgentSteps(c)
      PROVE  AuthInv'
  <2>1. via' = via
    BY <1>3 DEF AgentSteps, StartOp, RemoveStale, Locked, LockRefused, ReadFile, Acknowledge,
           LoginFile, LoginKeychain, LogoutFile, LogoutKeychain, RefreshReads, Rotated,
           Refused, StoresRotated, MigrateReads, MigrateLooks, MigrateCopies, AgentDies
  <2>2. \A d, e \in Clients : via'[d] = via'[e]
    BY <2>1 DEF AuthInv
  <2> QED BY <1>3, <2>2, TypeKept, OperationKept, LockKept, ReadKept, RotatedKept, LiveKept
          DEF AuthInv
<1> QED BY <1>1, <1>2, <1>3 DEF AuthNext, AgentSteps

LEMMA AuthInitial ==
  ASSUME NoRaces, AuthInit
  PROVE  AuthInv
<1>1. \A c \in Clients : agent[c].at = "idle" /\ agent[c].op = "none" /\ agent[c].cred = 0
  BY DEF AuthInit, Rest
<1>2. AuthTypeOK
  <2>1. issued \in 0..MaxTokens
    BY AuthAssumption DEF AuthInit
  <2>2. Rest \in Agents
    BY AuthAssumption DEF Rest, Agents
  <2>3. agent \in [Clients -> Agents]
    BY <2>2 DEF AuthInit
  <2>4. 0 \in 0..MaxTokens /\ 0 \in 0..MaxAuthFaults
    BY AuthAssumption
  <2>5. valid \subseteq 1..issued /\ infile = issued
    BY DEF AuthInit
  <2>6. via \in [Clients -> Backends] /\ inkeys = 0 /\ authlock = "none"
        /\ faulted = 0 /\ excused = FALSE
    BY DEF AuthInit
  <2> QED BY <2>1, <2>3, <2>4, <2>5, <2>6 DEF AuthTypeOK, Agents
<1>3. issued \in Nat /\ infile = issued /\ inkeys = 0 /\ valid = 1..issued
  BY DEF AuthInit
<1>4. TokensIssued
  BY <1>1, <1>3 DEF TokensIssued
<1>5. LockHeld
  BY <1>1 DEF LockHeld, HasFileLock
<1>6. \A c \in Clients : InOperation(c) /\ ReadIsCurrent(c) /\ RotatedIsOwn(c)
  BY <1>1 DEF InOperation, ReadIsCurrent, RotatedIsOwn
<1>7. StoredTokenIsLive
  BY <1>3 DEF StoredTokenIsLive, Get
<1>8. \A c, d \in Clients : via[c] = via[d]
  BY DEF AuthInit, NoRaces
<1> QED BY <1>2, <1>4, <1>5, <1>6, <1>7, <1>8 DEF AuthInv

\* If no live process outstays the lock, no two remove one stale lock, a migration runs
\* alone, and the probes agree: however many processes log in and out, refresh, acknowledge
\* and die, what a process reads is a token that the provider honours, once the rotated
\* ones are stored.
THEOREM TokensStayLive ==
  ASSUME NoRaces
  PROVE  AuthSpec => []StoredTokenIsLive
<1>1. AuthInit => AuthInv
  BY AuthInitial
<1>2. AuthInv /\ [AuthNext]_authVars => AuthInv'
  BY AuthKeeps
<1>3. AuthInv => StoredTokenIsLive
  BY DEF AuthInv
<1> QED BY <1>1, <1>2, <1>3, PTL DEF AuthSpec

-----------------------------------------------------------------------------
(* The restore.  OneRestorePoint holds because what a resumed run compares of
   the selection determines the contents that are selected, however the mirror
   went on in between: one state has each second, and a sealed generation
   changes no more. *)

OneSecondEach == {"second", "oldmeta"} \intersect HydrateRaces = {}

\* The last of the first n states that is of generation g and was there at t.
LastBy(n, g, t) == Max({i \in 1..n : states[i].gen = g /\ states[i].sec <= t})

\* The contents that belong to a selection.
ContentOf(pick) ==
  IF pick.src = "live"
  THEN [db |-> IF pick.from = 0 THEN pick.upd ELSE LastBy(pick.upd, pick.gen, pick.from),
        markdown |-> pick.upd, vectors |-> pick.upd]
  ELSE [db |-> IF pick.from = 0 THEN Seal(pick.gen)
               ELSE LastBy(Len(states), pick.gen, pick.from),
        markdown |-> Seal(pick.gen), vectors |-> Seal(pick.gen)]

Selected(pick) ==
  /\ pick.src \in {"live", "meta"}
  /\ pick.src = "live" => pick.upd \in 1..Len(states)
  /\ pick.src = "meta" => pick.gen < Live.gen
  /\ pick.gen \in Nat /\ pick.content = ContentOf(pick)

\* The k-th state carries the second k.
StatesCount ==
  /\ states \in Seq([gen : Nat, sec : Nat]) /\ states # <<>>
  /\ \A i \in 1..Len(states) : states[i].sec = i

\* What a directory holds of a selection when these phases are complete.
Holds(pick, phases) ==
  \A f \in Phases : /\ target[f] \in {0, pick.content[f]}
                    /\ f \in phases \ {"vectors"} => target[f] = pick.content[f]

\* The phases before this one.
Earlier(at) == CASE at = "markdown" -> {"db"} [] at = "vectors" -> {"db", "markdown"}
                 [] at = "valid" -> Phases [] OTHER -> {}

HydShape ==
  /\ target = [f \in Phases |-> target[f]]
  /\ progress = [pick |-> progress.pick, done |-> progress.done]
  /\ restore = [at |-> restore.at, partial |-> restore.partial, pick |-> restore.pick,
                done |-> restore.done]
  /\ restore.at \in Phases \union {"idle", "valid"} /\ restore.partial \in BOOLEAN
  /\ restore.done \subseteq Phases /\ progress.done \subseteq Phases

Restoring ==
  restore.at # "idle" =>
    /\ Selected(restore.pick) /\ Holds(restore.pick, restore.done)
    /\ Earlier(restore.at) \subseteq restore.done
    /\ progress.done # {} => restore.pick.content = progress.pick.content

Progressed ==
  progress.done # {} => Selected(progress.pick) /\ Holds(progress.pick, progress.done)

HydInv == HydShape /\ StatesCount /\ mapless = {} /\ Restoring /\ Progressed


\* A set of positive numbers up to n has its greatest.
LEMMA MaxIsMember ==
  ASSUME NEW n \in Nat, NEW S, S \subseteq 1..n, S # {}
  PROVE  Max(S) \in S
<1> DEFINE T == {n - x : x \in S}
<1>1. T \subseteq Nat /\ T # {}
  <2>1. \A x \in S : n - x \in Nat
    OBVIOUS
  <2> QED BY <2>1
<1>2. PICK m \in T : \A y \in T : ~(<<y, m>> \in OpToRel(<, Nat))
  BY <1>1, NatLessThanWellFounded, WFMin
<1>3. \A y \in T : ~(y < m)
  BY <1>1, <1>2 DEF OpToRel
<1>4. PICK x \in S : m = n - x
  BY <1>2
<1>5. \A y \in S : ~(n - y < n - x)
  BY <1>3, <1>4
<1>6. \A y \in S : x \in Int /\ y \in Int
  OBVIOUS
<1>7. \A y \in S : x >= y
  BY <1>5, <1>6
<1> QED BY <1>7 DEF Max

LEMMA LiveState ==
  ASSUME StatesCount
  PROVE  /\ Len(states) \in Nat \ {0} /\ Live.gen \in Nat /\ Live.sec = Len(states)
         /\ DOMAIN states = 1..Len(states)
         /\ \A i \in 1..Len(states) : states[i] \in [gen : Nat, sec : Nat]
<1>1. Len(states) \in Nat \ {0} /\ DOMAIN states = 1..Len(states)
  BY DEF StatesCount
<1>2. Len(states) \in 1..Len(states)
  BY <1>1
<1>3. \A i \in 1..Len(states) : states[i] \in [gen : Nat, sec : Nat]
  <2> DEFINE R == [gen : Nat, sec : Nat]
  <2>1. states \in Seq(R)
    BY DEF StatesCount
  <2> HIDE DEF R
  <2>2. \A i \in 1..Len(states) : states[i] \in R
    BY <2>1
  <2> QED BY <2>2 DEF R
<1> QED BY <1>1, <1>2, <1>3 DEF Live, StatesCount

LEMMA PickFields ==
  ASSUME NEW g, NEW from, NEW db, NEW docs, NEW src, NEW upd
  PROVE  LET p == Pick(g, from, db, docs, src, upd) IN
         /\ p.gen = g /\ p.from = from /\ p.src = src /\ p.upd = upd
         /\ p.content = [db |-> db, markdown |-> docs, vectors |-> docs]
  BY DEF Pick

\* The contents of what can be selected are the ones that belong to the selection.
LEMMA SelectableIsSelected ==
  ASSUME StatesCount, mapless = {}, NEW pick \in Selectable
  PROVE  Selected(pick)
<1> DEFINE n == Len(states)
<1>1. n \in Nat \ {0} /\ Live.gen \in Nat /\ Live.sec = n /\ DOMAIN states = 1..n
  BY LiveState
<1>2. CASE pick = PickLive
  <2>1. /\ pick.gen = Live.gen /\ pick.from = 0 /\ pick.src = "live" /\ pick.upd = n
        /\ pick.content = [db |-> n, markdown |-> n, vectors |-> n]
    BY <1>1, <1>2, PickFields DEF PickLive
  <2> QED BY <1>1, <2>1 DEF Selected, ContentOf
<1>3. CASE \E g \in {h \in 1..(Live.gen - 1) : Kept(h)} : pick = PickSealed(g, 0, Seal(g), 0)
  <2>1. PICK g \in 1..(Live.gen - 1) : pick = PickSealed(g, 0, Seal(g), 0)
    BY <1>3
  <2>2. /\ pick.gen = g /\ pick.from = 0 /\ pick.src = "meta"
        /\ pick.content = [db |-> Seal(g), markdown |-> Seal(g), vectors |-> Seal(g)]
    BY <2>1, PickFields DEF PickSealed
  <2> QED BY <1>1, <2>2 DEF Selected, ContentOf
<1>4. CASE \E t \in 1..Live.sec : pick \in PickAt(t)
  <2>1. PICK t \in 1..Live.sec : pick \in PickAt(t)
    BY <1>4
  <2> DEFINE begun == {g \in 1..Live.gen : Kept(g) /\ states[Min(Of(g))].sec <= t}
             g == Max(begun)
             db == Max({i \in Of(g) : states[i].sec <= t})
  <2>2. begun # {}
    BY <2>1 DEF PickAt
  <2>3. g \in 1..Live.gen
    <3>1. begun \subseteq 1..Live.gen
      OBVIOUS
    <3> HIDE DEF begun
    <3> QED BY <1>1, <2>2, <3>1, MaxIsMember
  <2>4. pick = IF g = Live.gen THEN Pick(g, t, db, n, "live", Live.sec)
               ELSE PickSealed(g, t, db, states[Seal(g)].sec)
    BY <2>1, <2>2 DEF PickAt
  <2>5. db = LastBy(n, g, t)
    <3> HIDE DEF g
    <3>1. {i \in Of(g) : states[i].sec <= t} = {i \in 1..n : states[i].gen = g /\ states[i].sec <= t}
      BY <1>1 DEF Of
    <3> QED BY <3>1 DEF LastBy
  <2> HIDE DEF db, g
  <2>6. CASE g = Live.gen
    <3>1. /\ pick.gen = g /\ pick.from = t /\ pick.src = "live" /\ pick.upd = n
          /\ pick.content = [db |-> db, markdown |-> n, vectors |-> n]
      BY <1>1, <2>4, <2>6, PickFields
    <3> QED BY <1>1, <2>3, <2>5, <3>1 DEF Selected, ContentOf
  <2>7. CASE g # Live.gen
    <3>1. /\ pick.gen = g /\ pick.from = t /\ pick.src = "meta"
          /\ pick.content = [db |-> db, markdown |-> Seal(g), vectors |-> Seal(g)]
      BY <2>4, <2>7, PickFields DEF PickSealed
    <3> QED BY <1>1, <2>3, <2>5, <2>7, <3>1 DEF Selected, ContentOf
  <2> QED BY <2>6, <2>7
<1> QED BY <1>2, <1>3, <1>4 DEF Selectable

\* What checkSelection compares determines the contents.
LEMMA SameSelection ==
  ASSUME NEW p, NEW q, Selected(p), Selected(q),
         p.gen = q.gen, p.from = q.from, p.src = q.src, p.src = "live" => p.upd = q.upd
  PROVE  p.content = q.content
  BY DEF Selected, ContentOf

\* Publishing changes neither the states before it nor what was selected of them.
LEMMA PublishKeeps ==
  ASSUME OneSecondEach, StatesCount, NEW gen \in {Live.gen, Live.gen + 1}, Publish(gen)
  PROVE  StatesCount' /\ \A pick : Selected(pick) => Selected(pick)'
<1> DEFINE n == Len(states)
           s == [gen |-> gen, sec |-> n + 1]
<1>1. n \in Nat \ {0} /\ Live.gen \in Nat /\ Live.sec = n /\ DOMAIN states = 1..n
  BY LiveState
<1>2. states' = Append(states, s)
  BY <1>1 DEF Publish, OneSecondEach
<1>3. s \in [gen : Nat, sec : Nat] /\ states \in Seq([gen : Nat, sec : Nat])
  BY <1>1 DEF StatesCount
<1>4. /\ states' \in Seq([gen : Nat, sec : Nat]) /\ Len(states') = n + 1
      /\ states'[n + 1] = s /\ \A i \in 1..n : states'[i] = states[i]
  BY <1>1, <1>2, <1>3
<1>5. StatesCount'
  <2>1. \A i \in 1..(n + 1) : i \in 1..n \/ i = n + 1
    BY <1>1
  <2>2. s.sec = n + 1
    OBVIOUS
  <2>3. \A i \in 1..n : states[i].sec = i
    BY DEF StatesCount
  <2>4. \A i \in 1..(n + 1) : states'[i].sec = i
    BY <1>4, <2>1, <2>2, <2>3
  <2>5. states' # <<>>
    BY <1>1, <1>4
  <2> QED BY <1>4, <2>4, <2>5 DEF StatesCount
<1>6. Live' = s /\ Live'.gen = gen /\ DOMAIN states' = 1..(n + 1)
  BY <1>1, <1>4 DEF Live
<1>7. ASSUME NEW pick, Selected(pick)
      PROVE  Selected(pick)'
  <2>1. CASE pick.src = "live"
    <3>1. pick.upd \in 1..n /\ pick.upd \in 1..(n + 1)
      BY <1>1, <1>7, <2>1 DEF Selected
    <3>2. ASSUME NEW g, NEW t
          PROVE  LastBy(pick.upd, g, t)' = LastBy(pick.upd, g, t)
      <4>1. \A i \in 1..pick.upd : states'[i] = states[i]
        BY <1>1, <1>4, <3>1
      <4>2. {i \in 1..pick.upd : states'[i].gen = g /\ states'[i].sec <= t}
              = {i \in 1..pick.upd : states[i].gen = g /\ states[i].sec <= t}
        BY <4>1
      <4> QED BY <4>2 DEF LastBy
    <3>3. ContentOf(pick)' = ContentOf(pick)
      BY <2>1, <3>2 DEF ContentOf
    <3> QED BY <1>4, <1>7, <2>1, <3>1, <3>3 DEF Selected
  <2>2. CASE pick.src = "meta"
    <3>1. pick.gen \in Nat /\ pick.gen < Live.gen /\ pick.gen < Live'.gen /\ pick.gen # gen
      BY <1>1, <1>6, <1>7, <2>2 DEF Selected
    <3>2. Of(pick.gen)' = Of(pick.gen)
      BY <1>1, <1>4, <1>6, <3>1 DEF Of
    <3>3. Seal(pick.gen)' = Seal(pick.gen)
      BY <3>2 DEF Seal
    <3>4. ASSUME NEW t
          PROVE  LastBy(Len(states), pick.gen, t)' = LastBy(Len(states), pick.gen, t)
      <4>1. {i \in 1..(n + 1) : states'[i].gen = pick.gen /\ states'[i].sec <= t}
              = {i \in 1..n : states[i].gen = pick.gen /\ states[i].sec <= t}
        BY <1>1, <1>4, <3>1
      <4> QED BY <1>4, <4>1 DEF LastBy
    <3>5. ContentOf(pick)' = ContentOf(pick)
      BY <1>4, <2>2, <3>3, <3>4 DEF ContentOf
    <3> QED BY <1>7, <2>2, <3>1, <3>5 DEF Selected
  <2> QED BY <1>7, <2>1, <2>2 DEF Selected
<1> QED BY <1>5, <1>7

-----------------------------------------------------------------------------
\* The mirror goes on.
LEMMA MirrorGoesOn ==
  ASSUME OneSecondEach, HydInv, ShipPass \/ SealGeneration
  PROVE  HydInv'
<1>1. PICK gen \in {Live.gen, Live.gen + 1} : Publish(gen)
  BY DEF ShipPass, SealGeneration
<1>2. UNCHANGED <<target, progress, restore>> /\ mapless' = {}
  BY DEF ShipPass, SealGeneration, HydInv, OneSecondEach
<1>3. StatesCount' /\ \A pick : Selected(pick) => Selected(pick)'
  BY <1>1, PublishKeeps DEF HydInv
<1>4. Restoring'
  BY <1>2, <1>3 DEF HydInv, Restoring, Holds
<1>5. Progressed'
  BY <1>2, <1>3 DEF HydInv, Progressed, Holds
<1> QED BY <1>2, <1>3, <1>4, <1>5 DEF HydInv, HydShape

\* A step of a run leaves the mirror alone, and so what was selected of it.
LEMMA MirrorStands ==
  ASSUME HydInv, UNCHANGED <<states, mapless>>
  PROVE  StatesCount' /\ mapless' = {} /\ \A pick : Selected(pick) => Selected(pick)'
<1>1. \A g : Of(g)' = Of(g) /\ Seal(g)' = Seal(g)
  BY DEF Of, Seal
<1>2. \A n, g, t : LastBy(n, g, t)' = LastBy(n, g, t)
  BY DEF LastBy
<1>3. \A pick : ContentOf(pick)' = ContentOf(pick)
  BY <1>1, <1>2 DEF ContentOf
<1> QED BY <1>3 DEF HydInv, StatesCount, Selected, Live

\* A run starts, or starts again: if progress is kept, on the selection it was made on.
LEMMA StartKeeps ==
  ASSUME HydInv, StartHydrate
  PROVE  HydInv'
<1>1. PICK pick \in Selectable, partial \in BOOLEAN :
        /\ target # [f \in Phases |-> 0] => partial /\ progress.done # {}
        /\ CheckSelection(pick)
        /\ restore' = [at |-> "db", partial |-> partial, pick |-> pick,
                       done |-> IF partial THEN progress.done ELSE {}]
  BY DEF StartHydrate
<1>2. UNCHANGED <<states, mapless, target, progress>>
  BY DEF StartHydrate
<1>3. StatesCount' /\ mapless' = {} /\ \A p : Selected(p) => Selected(p)'
  BY <1>2, MirrorStands
<1>4. Selected(pick)
  BY SelectableIsSelected DEF HydInv
<1>5. ASSUME progress.done # {} PROVE pick.content = progress.pick.content
  BY <1>1, <1>4, <1>5, SameSelection DEF HydInv, Progressed, CheckSelection
<1>6. /\ restore'.at = "db" /\ restore'.partial = partial /\ restore'.pick = pick
      /\ restore'.done \in {{}, progress.done}
  BY <1>1
<1>7. Holds(pick, restore'.done)
  <2>1. CASE progress.done = {}
    <3>1. \A f \in Phases : target[f] = 0
      BY <1>1, <2>1
    <3> QED BY <1>6, <2>1, <3>1 DEF Holds
  <2>2. CASE progress.done # {}
    BY <1>5, <1>6, <2>2 DEF HydInv, Progressed, Holds
  <2> QED BY <2>1, <2>2
<1>8. Restoring'
  BY <1>2, <1>3, <1>4, <1>5, <1>6, <1>7 DEF Restoring, Holds, Earlier
<1>9. Progressed'
  BY <1>2, <1>3 DEF HydInv, Progressed, Holds
<1>10. HydShape'
  BY <1>1, <1>2 DEF HydInv, HydShape, Phases
<1> QED BY <1>3, <1>8, <1>9, <1>10 DEF HydInv

\* A phase writes its own component.
LEMMA PhaseKeeps ==
  ASSUME HydInv, RunPhase \/ LeaveVectors
  PROVE  HydInv'
<1> DEFINE at == restore.at
<1>1. /\ at \in Phases \ restore.done /\ UNCHANGED <<states, mapless, progress, runs>>
      /\ restore' = [restore EXCEPT !.done = @ \union {at}]
      /\ \/ target' = [target EXCEPT ![at] = restore.pick.content[at]]
         \/ /\ target' = target
            /\ at = "vectors"
  <2>1. CASE RunPhase
    BY <2>1 DEF RunPhase
  <2>2. CASE LeaveVectors
    <3>1. at \in Phases \ restore.done
      BY <2>2 DEF LeaveVectors, Phases
    <3> QED BY <2>2, <3>1 DEF LeaveVectors
  <2> QED BY <2>1, <2>2
<1>2. /\ restore'.at = at /\ restore'.partial = restore.partial
      /\ restore'.pick = restore.pick /\ restore'.done = restore.done \union {at}
      /\ restore' = [at |-> restore'.at, partial |-> restore'.partial, pick |-> restore'.pick,
                     done |-> restore'.done]
  BY <1>1 DEF HydInv, HydShape
<1>3. /\ \A f \in Phases : target'[f] = target[f] \/ (f = at /\ target'[f] = restore.pick.content[f])
      /\ at = "vectors" \/ target'[at] = restore.pick.content[at]
      /\ target' = [f \in Phases |-> target'[f]]
  BY <1>1 DEF HydInv, HydShape
<1>4. StatesCount' /\ mapless' = {} /\ \A p : Selected(p) => Selected(p)'
  BY <1>1, MirrorStands
<1>5. at # "idle" /\ at \in Phases
  BY <1>1 DEF Phases
<1>6. Selected(restore.pick) /\ Holds(restore.pick, restore.done)
  BY <1>5 DEF HydInv, Restoring
<1>7. Holds(restore.pick, restore.done \union {at})'
  BY <1>1, <1>2, <1>3, <1>6 DEF Holds
<1>8. Restoring'
  BY <1>1, <1>2, <1>4, <1>5, <1>6, <1>7 DEF HydInv, Restoring, Earlier
<1>9. Progressed'
  <2>1. CASE progress.done # {}
    <3>1. restore.pick.content = progress.pick.content
      BY <1>5, <2>1 DEF HydInv, Restoring
    <3>2. Selected(progress.pick) /\ Holds(progress.pick, progress.done)
      BY <2>1 DEF HydInv, Progressed
    <3> QED BY <1>1, <1>3, <1>4, <3>1, <3>2 DEF Progressed, Holds
  <2>2. CASE progress.done = {}
    BY <1>1, <2>2 DEF Progressed
  <2> QED BY <2>1, <2>2
<1>10. HydShape'
  BY <1>1, <1>2, <1>3 DEF HydInv, HydShape
<1> QED BY <1>4, <1>8, <1>9, <1>10 DEF HydInv

\* A phase is complete.
LEMMA CompleteKeeps ==
  ASSUME HydInv, CompletePhase
  PROVE  HydInv'
<1>1. /\ restore.at \in restore.done /\ UNCHANGED <<states, mapless, target, runs>>
      /\ progress' = IF restore.partial THEN [pick |-> restore.pick, done |-> restore.done]
                     ELSE progress
      /\ restore' = [restore EXCEPT !.at = Following(restore.at)]
  BY DEF CompletePhase
<1>2. /\ restore'.at = Following(restore.at) /\ restore'.partial = restore.partial
      /\ restore'.pick = restore.pick /\ restore'.done = restore.done
      /\ restore' = [at |-> restore'.at, partial |-> restore'.partial, pick |-> restore'.pick,
                     done |-> restore'.done]
  BY <1>1 DEF HydInv, HydShape
<1>3. StatesCount' /\ mapless' = {} /\ \A p : Selected(p) => Selected(p)'
  BY <1>1, MirrorStands
<1>4. restore.at \in Phases /\ restore.at # "idle"
  BY <1>1 DEF HydInv, HydShape, Phases
<1>5. /\ Selected(restore.pick) /\ Holds(restore.pick, restore.done)
      /\ Earlier(restore.at) \subseteq restore.done
      /\ progress.done # {} => restore.pick.content = progress.pick.content
  BY <1>4 DEF HydInv, Restoring
<1>6. Holds(restore.pick, restore.done)'
  BY <1>1, <1>2, <1>5 DEF Holds
<1>7. Earlier(Following(restore.at)) \subseteq restore.done
  BY <1>1, <1>4, <1>5 DEF Phases, Earlier, Following
<1>8. Following(restore.at) \in Phases \union {"valid"}
  BY <1>4 DEF Phases, Following
<1>9. /\ restore.partial => progress'.pick = restore.pick /\ progress'.done = restore.done
      /\ ~restore.partial => progress' = progress
  BY <1>1
<1>10. Restoring'
  BY <1>2, <1>3, <1>5, <1>6, <1>7, <1>9 DEF Restoring
<1>11. Progressed'
  <2>1. CASE restore.partial
    BY <1>1, <1>2, <1>3, <1>5, <1>9, <2>1 DEF Progressed, Holds
  <2>2. CASE ~restore.partial
    BY <1>1, <1>3, <1>9, <2>2 DEF HydInv, Progressed, Holds
  <2> QED BY <2>1, <2>2
<1>12. HydShape'
  BY <1>1, <1>2, <1>8 DEF HydInv, HydShape
<1> QED BY <1>3, <1>10, <1>11, <1>12 DEF HydInv

\* A run that is interrupted leaves what the next one may start from; a directory
\* that is taken away leaves nothing.
LEMMA EndKeeps ==
  ASSUME HydInv, Interrupted \/ Finish
  PROVE  HydInv'
<1>1. /\ UNCHANGED <<states, mapless>> /\ restore' = NoRun
      /\ restore'.at = "idle" /\ restore'.partial = FALSE /\ restore'.done = {}
      /\ restore' = [at |-> restore'.at, partial |-> restore'.partial, pick |-> restore'.pick,
                     done |-> restore'.done]
  BY DEF Interrupted, Finish, NoRun
<1>2. StatesCount' /\ mapless' = {} /\ \A p : Selected(p) => Selected(p)'
  BY <1>1, MirrorStands
<1>3. Restoring'
  BY <1>1 DEF Restoring
<1>4. CASE Interrupted
  <2>1. /\ restore.at \in Phases /\ restore.at # "idle" /\ progress' = progress
        /\ \A f \in Phases : target'[f] \in {target[f], restore.pick.content[f]}
        /\ target' = [f \in Phases |-> target'[f]]
        /\ \A f \in Phases : f # restore.at => target'[f] = target[f]
    BY <1>4 DEF Interrupted, HydInv, HydShape, Phases
  <2>2. ASSUME progress.done # {} PROVE restore.pick.content = progress.pick.content
    BY <2>1, <2>2 DEF HydInv, Restoring
  <2>3. Progressed'
    BY <1>2, <2>1, <2>2 DEF HydInv, Progressed, Holds
  <2>4. HydShape'
    BY <1>1, <2>1 DEF HydInv, HydShape
  <2> QED BY <1>2, <1>3, <2>3, <2>4 DEF HydInv
<1>5. CASE Finish
  <2>1. target' = [f \in Phases |-> 0] /\ progress' = NoProgress
    BY <1>5 DEF Finish
  <2>2. progress'.done = {} /\ progress' = [pick |-> progress'.pick, done |-> progress'.done]
    BY <2>1 DEF NoProgress
  <2> QED BY <1>1, <1>2, <1>3, <2>1, <2>2 DEF HydInv, HydShape, Progressed
<1> QED BY <1>4, <1>5

LEMMA HydKeeps ==
  ASSUME OneSecondEach, HydInv, [HydNext]_hydVars
  PROVE  HydInv'
<1>1. CASE UNCHANGED hydVars
  <2>1. UNCHANGED <<states, mapless, target, progress, restore>>
    BY <1>1 DEF hydVars
  <2>2. StatesCount' /\ mapless' = {} /\ \A p : Selected(p) => Selected(p)'
    BY <2>1, MirrorStands
  <2> QED BY <2>1, <2>2 DEF HydInv, HydShape, Restoring, Progressed, Holds
<1> QED BY <1>1, MirrorGoesOn, StartKeeps, PhaseKeeps, CompleteKeeps, EndKeeps DEF HydNext

LEMMA HydInitial ==
  HydInit => HydInv
<1> SUFFICES ASSUME HydInit PROVE HydInv
  OBVIOUS
<1> DEFINE s == [gen |-> 1, sec |-> 1]
<1>1. states = <<s>> /\ s \in [gen : Nat, sec : Nat] /\ s.sec = 1
  BY DEF HydInit
<1> HIDE DEF s
<1>2. StatesCount
  BY <1>1 DEF StatesCount
<1>3. /\ restore.at = "idle" /\ restore.partial = FALSE /\ restore.done = {} /\ progress.done = {}
      /\ HydShape
  BY DEF HydInit, HydShape, NoRun, NoProgress
<1> QED BY <1>2, <1>3 DEF HydInit, HydInv, Restoring, Progressed

\* If no two published states carry one second and every sealed generation has its object
\* maps: however the mirror goes on publishing, rotating and pruning, and however often a
\* restore is interrupted and resumed, what it reports as valid is one restore point.
THEOREM RestoresAreWhole ==
  ASSUME OneSecondEach
  PROVE  HydSpec => []OneRestorePoint
<1>1. HydInit => HydInv
  BY HydInitial
<1>2. HydInv /\ [HydNext]_hydVars => HydInv'
  BY HydKeeps
<1>3. HydInv => OneRestorePoint
  BY DEF HydInv, Restoring, Earlier, Holds, OneRestorePoint, Phases
<1> QED BY <1>1, <1>2, <1>3, PTL DEF HydSpec

-----------------------------------------------------------------------------
(* Types.  Where a batch's results are looked at, the run has its ID; where  *)
(* sources are summarized, the run has the diff's hashes.                    *)

Control ==
  /\ run.pc \in {"poll", "apply", "retire", "remove", "record"} => run.id \in BatchIds
  /\ run.pc \in {"migrate", "summarize"} => run.seen \in [Docs -> Texts]
  /\ run.pc = "split" => legacyFile \in BatchIds
  /\ run.pc = "strip" => batchFile \in BatchIds

TypeInv == BatchTypeOK /\ Control

LEMMA TextsAreHashes ==
  /\ Texts \subseteq Hashes /\ Texts \subseteq 0..MaxVersion /\ 0..MaxVersion \subseteq Hashes
  /\ -1 \in Hashes /\ 0 \in Hashes
<1>1. MaxVersion \in Int /\ MaxVersion > 0
  BY BatchAssumption
<1>2. \A n \in 0..MaxVersion : n \in Hashes
  BY <1>1 DEF Hashes
<1>3. \A n \in Texts : n \in 0..MaxVersion
  BY <1>1 DEF Texts
<1>4. -1 \in Hashes /\ 0 \in Hashes
  BY <1>1 DEF Hashes
<1> QED BY <1>2, <1>3, <1>4

LEMMA RestingOK == Resting \in Runs /\ Resting.pc = "idle"
<1>1. Same \in [Docs -> Hashes]
  BY TextsAreHashes DEF Same
<1> QED BY <1>1 DEF Resting, Runs, PCs

LEMMA TypeInit == BatchInit => TypeInv
<1> SUFFICES ASSUME BatchInit PROVE TypeInv
  OBVIOUS
<1> USE BatchAssumption DEF BatchInit
<1>1. content \in [Docs -> Texts] /\ compiled \in [Docs -> Hashes]
  BY DEF Texts, Same, Hashes
<1>2. summary \in [Docs -> [of : 0..MaxVersion, stamp : 0..MaxVersion]]
  OBVIOUS
<1>3. batchFile \in BatchIds \union {NoBatch, DeadBatch}
      /\ legacyFile \in BatchIds \union {NoBatch, Stripped}
  BY DEF BatchIds
<1>4. batch \in [BatchIds -> [inputs : [Docs -> 0..MaxVersion],
                             fate : {"none", "owed", "settled", "abandoned"}]]
  BY <1>1, TextsAreHashes DEF NotGiven
<1>5. run \in Runs /\ run.pc = "idle" /\ stops \in Nat
  BY RestingOK
<1> QED BY <1>1, <1>2, <1>3, <1>4, <1>5 DEF TypeInv, BatchTypeOK, Control

\* A step that touches the run only leaves a well-formed one.
LEMMA RunStep ==
  ASSUME TypeInv, run' \in Runs, Control', stops' \in Nat,
         UNCHANGED <<content, compiled, summary, batchFile, legacyFile, batch>>
  PROVE  TypeInv'
  BY DEF TypeInv, BatchTypeOK

\* The run after it turned to another step, and after it ended.
LEMMA TurnOK ==
  ASSUME TypeInv, NEW pc \in PCs, Turns(pc)
  PROVE  /\ run' \in Runs /\ run'.pc = pc
         /\ run'.id = run.id /\ run'.seen = run.seen /\ run'.dry = run.dry
  BY DEF TypeInv, BatchTypeOK, Runs, Turns

LEMMA EndOK ==
  ASSUME Ends
  PROVE  run' \in Runs /\ run'.pc = "idle"
  BY RestingOK DEF Ends

\* The run after one source of it is done, with a hash h or without.
LEMMA OneDone ==
  ASSUME TypeInv, NEW d \in Docs, NEW h \in Hashes,
         \/ run' = [run EXCEPT !.todo = @ \ {d}, !.ours[d] = h]
         \/ run' = [run EXCEPT !.todo = @ \ {d}]
  PROVE  /\ run' \in Runs /\ run'.pc = run.pc
         /\ run'.id = run.id /\ run'.seen = run.seen /\ run'.dry = run.dry
<1>1. CASE run' = [run EXCEPT !.todo = @ \ {d}]
  BY <1>1 DEF TypeInv, BatchTypeOK, Runs
<1>2. CASE run' = [run EXCEPT !.todo = @ \ {d}, !.ours[d] = h]
  <2> DEFINE ours == [run.ours EXCEPT ![d] = h]
  <2>1. ours \in [Docs -> Hashes]
    BY DEF TypeInv, BatchTypeOK, Runs
  <2>2. run' = [run EXCEPT !.todo = @ \ {d}, !.ours = ours]
    BY <1>2 DEF TypeInv, BatchTypeOK, Runs
  <2> HIDE DEF ours
  <2> QED BY <2>1, <2>2 DEF TypeInv, BatchTypeOK, Runs
<1> QED BY <1>1, <1>2

LEMMA TypeNext == TypeInv /\ [BatchNext]_batchVars => TypeInv'
<1> SUFFICES ASSUME TypeInv, [BatchNext]_batchVars PROVE TypeInv'
  OBVIOUS
<1>1. ASSUME NEW d \in Docs, EditSource(d) PROVE TypeInv'
  BY <1>1 DEF EditSource, TypeInv, BatchTypeOK, Control
<1>2. ASSUME NEW d \in Docs, ApplyResult(d) PROVE TypeInv'
  <2>1. run.pc = "apply" /\ run.id \in BatchIds
    BY <1>2 DEF ApplyResult, At, TypeInv, Control
  <2>2. batch[run.id].inputs[d] \in 0..MaxVersion /\ 0 \in 0..MaxVersion
    BY <2>1, BatchAssumption DEF TypeInv, BatchTypeOK
  <2>3. summary' \in [Docs -> [of : 0..MaxVersion, stamp : 0..MaxVersion]]
    BY <1>2, <2>2 DEF ApplyResult, TypeInv, BatchTypeOK
  <2>4. (IF compiled[d] = -1 THEN 0 ELSE compiled[d]) \in Hashes
    BY TextsAreHashes DEF TypeInv, BatchTypeOK
  <2>5. run' \in Runs /\ run'.pc = "apply" /\ run'.id = run.id
    BY <1>2, <2>1, <2>4, OneDone DEF ApplyResult
  <2> QED BY <1>2, <2>1, <2>3, <2>5 DEF ApplyResult, TypeInv, BatchTypeOK, Control
<1>3. ASSUME NEW d \in Docs, SummarizeSource(d) PROVE TypeInv'
  <2>1. run.pc = "summarize" /\ run.seen \in [Docs -> Texts] /\ content[d] \in Texts
    BY <1>3 DEF SummarizeSource, At, TypeInv, Control, BatchTypeOK
  <2>2. summary' \in [Docs -> [of : 0..MaxVersion, stamp : 0..MaxVersion]]
    BY <1>3, <2>1, TextsAreHashes DEF SummarizeSource, TypeInv, BatchTypeOK
  <2>3. run.seen[d] \in Hashes
    BY <2>1, TextsAreHashes
  <2>4. run' \in Runs /\ run'.pc = "summarize" /\ run'.seen = run.seen
    BY <1>3, <2>1, <2>3, OneDone DEF SummarizeSource
  <2> QED BY <1>3, <2>1, <2>2, <2>4 DEF SummarizeSource, TypeInv, BatchTypeOK, Control
<1>4. ASSUME NEW d \in Docs, CompileTopic(d) PROVE TypeInv'
  <2>1. content \in [Docs -> Texts] /\ content \in [Docs -> Hashes]
    BY TextsAreHashes DEF TypeInv, BatchTypeOK
  <2>2. PICK h \in Texts :
          run' = [Resting EXCEPT !.pc = "summarize", !.seen = [content EXCEPT ![d] = h],
                                 !.todo = {d}]
    BY <1>4 DEF CompileTopic
  <2> DEFINE read == [content EXCEPT ![d] = h]
  <2>3. read \in [Docs -> Texts] /\ read \in [Docs -> Hashes]
    BY <2>1, TextsAreHashes
  <2> HIDE DEF read
  <2>4. run' = [Resting EXCEPT !.pc = "summarize", !.seen = read, !.todo = {d}]
    BY <2>2 DEF read
  <2>5. run' \in Runs /\ run'.pc = "summarize" /\ run'.seen = read
    BY <2>3, <2>4, RestingOK DEF Runs, PCs
  <2> QED BY <1>4, <2>3, <2>5, RunStep DEF CompileTopic, TypeInv, BatchTypeOK, Control
<1>5. ASSUME NEW fresh \in BOOLEAN, NEW batched \in BOOLEAN, NEW dry \in BOOLEAN,
             StartCompile(fresh, batched, dry)
      PROVE TypeInv'
  <2>1. run' \in Runs /\ run'.pc \in {"load", "diff", "clear"}
    BY <1>5, RestingOK DEF StartCompile, Runs, PCs
  <2> QED BY <1>5, <2>1, RunStep DEF StartCompile, TypeInv, BatchTypeOK, Control
<1>6. CASE StopCompile
  BY <1>6, EndOK, RunStep DEF StopCompile, TypeInv, BatchTypeOK, Control
<1>7. CASE ClearBatchFile
  <2>1. batch' \in [BatchIds -> [inputs : [Docs -> 0..MaxVersion],
                                fate : {"none", "owed", "settled", "abandoned"}]]
    BY <1>7 DEF ClearBatchFile, TypeInv, BatchTypeOK
  <2>2. batchFile' \in BatchIds \union {NoBatch, DeadBatch}
    BY <1>7 DEF ClearBatchFile, Undeleted, TypeInv, BatchTypeOK
  <2>3. run' \in Runs /\ run'.pc = "clearLegacy"
    BY <1>7, TurnOK DEF ClearBatchFile, PCs
  <2> QED BY <1>7, <2>1, <2>2, <2>3 DEF ClearBatchFile, TypeInv, BatchTypeOK, Control
<1>8. CASE ClearLegacyFile
  <2>1. run' \in Runs /\ run'.pc = "diff"
    BY <1>8, TurnOK DEF ClearLegacyFile, PCs
  <2> QED BY <1>8, <2>1 DEF ClearLegacyFile, Undeleted, TypeInv, BatchTypeOK, Control
<1>9. CASE LoadBatch
  <2>1. CASE batchFile \in BatchIds /\ Resumes(batchFile) /\ UNCHANGED batchFile
    <3>1. run' \in Runs /\ (run'.pc = "idle" \/ (run'.pc = "poll" /\ run'.id = batchFile))
      BY <2>1, RestingOK DEF Resumes, TypeInv, BatchTypeOK, Runs, PCs
    <3> QED BY <1>9, <2>1, <3>1 DEF LoadBatch, TypeInv, BatchTypeOK, Control
  <2>2. CASE legacyFile \in BatchIds /\ Turns("split") /\ UNCHANGED batchFile
    <3>1. run' \in Runs /\ run'.pc = "split"
      BY <2>2, TurnOK DEF PCs
    <3> QED BY <1>9, <2>2, <3>1 DEF LoadBatch, TypeInv, BatchTypeOK, Control
  <2>3. CASE Turns("diff") /\ batchFile' \in {NoBatch, batchFile}
    <3>1. run' \in Runs /\ run'.pc = "diff"
      BY <2>3, TurnOK DEF PCs
    <3> QED BY <1>9, <2>3, <3>1 DEF LoadBatch, TypeInv, BatchTypeOK, Control
  <2> QED BY <1>9, <2>1, <2>2, <2>3 DEF LoadBatch
<1>10. CASE SplitLegacy
  <2>1. CASE Ends /\ UNCHANGED batchFile
    BY <1>10, <2>1, EndOK DEF SplitLegacy, TypeInv, BatchTypeOK, Control
  <2>2. CASE batchFile' = legacyFile /\ Turns("strip")
    <3>1. run' \in Runs /\ run'.pc = "strip"
      BY <2>2, TurnOK DEF PCs
    <3> QED BY <1>10, <2>2, <3>1 DEF SplitLegacy, At, TypeInv, BatchTypeOK, Control
  <2> QED BY <1>10, <2>1, <2>2 DEF SplitLegacy
<1>11. CASE StripSplit
  <2>1. run' \in Runs /\ (run'.pc = "idle" \/ (run'.pc = "poll" /\ run'.id \in BatchIds))
    <3>1. batchFile \in BatchIds
      BY <1>11 DEF StripSplit, At, TypeInv, Control
    <3>2. CASE run' = Resting
      BY <3>2, RestingOK
    <3>3. CASE run' = [run EXCEPT !.pc = "poll", !.id = batchFile]
      BY <3>1, <3>3 DEF TypeInv, BatchTypeOK, Runs, PCs
    <3> QED BY <1>11, <3>2, <3>3 DEF StripSplit, Ends, Resumes
  <2> QED BY <1>11, <2>1 DEF StripSplit, TypeInv, BatchTypeOK, Control
<1>12. CASE KeepWaiting
  BY <1>12, EndOK, RunStep DEF KeepWaiting, TypeInv, BatchTypeOK, Control
<1>13. CASE BatchExpired
  <2>1. run' \in Runs /\ run'.pc = "retire" /\ run'.id \in BatchIds
    BY <1>13, TurnOK DEF BatchExpired, PCs, At, TypeInv, Control
  <2> QED BY <1>13, <2>1, RunStep DEF BatchExpired, TypeInv, BatchTypeOK, Control
<1>14. CASE BatchEnded
  <2>1. run.id \in BatchIds
    BY <1>14 DEF BatchEnded, At, TypeInv, Control
  <2>2. batch[run.id].inputs \in [Docs -> Hashes]
    BY <2>1, TextsAreHashes DEF TypeInv, BatchTypeOK
  <2>3. run' \in Runs /\ run'.pc = "apply" /\ run'.id \in BatchIds
    BY <1>14, <2>1, <2>2 DEF BatchEnded, TypeInv, BatchTypeOK, Runs, PCs
  <2> QED BY <1>14, <2>3, RunStep DEF BatchEnded, TypeInv, BatchTypeOK, Control
<1>15. CASE AllApplied
  <2>1. run' \in Runs /\ run'.pc = "retire" /\ run'.id \in BatchIds
    BY <1>15, TurnOK DEF AllApplied, PCs, At, TypeInv, Control
  <2> QED BY <1>15, <2>1, RunStep DEF AllApplied, TypeInv, BatchTypeOK, Control
<1>16. AfterRetire(run) \in Runs /\ AfterRetire(run).pc \in {"idle", "extract"}
  BY RestingOK DEF AfterRetire, TypeInv, BatchTypeOK, Runs, PCs
<1>17. CASE StripRetired
  <2>1. CASE legacyFile' = (IF legacyFile \in BatchIds THEN Stripped ELSE legacyFile)
             /\ Turns("remove")
    <3>1. run' \in Runs /\ run'.pc = "remove" /\ run'.id \in BatchIds
      BY <1>17, <2>1, TurnOK DEF StripRetired, PCs, At, TypeInv, Control
    <3> QED BY <1>17, <2>1, <3>1 DEF StripRetired, TypeInv, BatchTypeOK, Control
  <2>2. CASE run' = AfterRetire(run) /\ UNCHANGED legacyFile
    BY <1>16, <1>17, <2>2 DEF StripRetired, TypeInv, BatchTypeOK, Control
  <2> QED BY <1>17, <2>1, <2>2 DEF StripRetired
<1>18. CASE RemoveRetired
  <2>1. batch' \in [BatchIds -> [inputs : [Docs -> 0..MaxVersion],
                                fate : {"none", "owed", "settled", "abandoned"}]]
    BY <1>18 DEF RemoveRetired, At, TypeInv, Control, BatchTypeOK
  <2> QED BY <1>16, <1>18, <2>1 DEF RemoveRetired, TypeInv, BatchTypeOK, Control
<1>19. CASE DiffSources
  <2>1. content \in [Docs -> Texts] /\ content \in [Docs -> Hashes]
    BY TextsAreHashes DEF TypeInv, BatchTypeOK
  <2>2. /\ run' \in Runs /\ run'.pc \in {"idle", "submit", "summarize", "migrate"}
        /\ run'.pc \in {"summarize", "migrate"} => run'.seen = content
    <3>1. PICK pc \in {"submit", "summarize", "migrate"}, todo \in SUBSET Docs :
             \/ run' = Resting
             \/ run' = [run EXCEPT !.pc = pc, !.seen = content, !.todo = todo]
      <4> DEFINE changed == {d \in Docs : compiled[d] # content[d]}
      <4>1. changed \in SUBSET Docs
        OBVIOUS
      <4> QED BY <1>19, <4>1 DEF DiffSources
    <3>2. CASE run' = Resting
      BY <3>2, RestingOK
    <3>3. CASE run' = [run EXCEPT !.pc = pc, !.seen = content, !.todo = todo]
      BY <2>1, <3>3 DEF TypeInv, BatchTypeOK, Runs, PCs
    <3> QED BY <3>1, <3>2, <3>3
  <2>3. UNCHANGED <<content, compiled, summary, batchFile, legacyFile, batch>> /\ stops' = stops
    BY <1>19 DEF DiffSources
  <2>4. Control'
    BY <2>1, <2>2 DEF Control
  <2>5. stops' \in Nat
    BY <2>3 DEF TypeInv, BatchTypeOK
  <2> QED BY <2>2, <2>3, <2>4, <2>5, RunStep
<1>20. CASE SubmitBatch
  <2>1. CASE Ends /\ UNCHANGED batch
    BY <1>20, <2>1, EndOK DEF SubmitBatch, TypeInv, BatchTypeOK, Control
  <2>2. ASSUME NEW i \in BatchIds, NEW ds \in SUBSET run.todo,
               batch' = [batch EXCEPT ![i] =
                           [inputs |-> [d \in Docs |-> IF d \in ds THEN content[d] ELSE 0],
                            fate |-> "owed"]],
               run' = [run EXCEPT !.pc = "record", !.id = i] \/ Ends
        PROVE  TypeInv'
    <3>1. [d \in Docs |-> IF d \in ds THEN content[d] ELSE 0] \in [Docs -> 0..MaxVersion]
      <4>1. \A d \in Docs : content[d] \in 0..MaxVersion
        BY TextsAreHashes DEF TypeInv, BatchTypeOK
      <4> QED BY <4>1, BatchAssumption
    <3>2. batch' \in [BatchIds -> [inputs : [Docs -> 0..MaxVersion],
                                  fate : {"none", "owed", "settled", "abandoned"}]]
      BY <2>2, <3>1 DEF TypeInv, BatchTypeOK
    <3>3. run' \in Runs /\ (run'.pc = "idle" \/ (run'.pc = "record" /\ run'.id \in BatchIds))
      BY <2>2, EndOK DEF TypeInv, BatchTypeOK, Runs, PCs
    <3> QED BY <1>20, <3>2, <3>3 DEF SubmitBatch, TypeInv, BatchTypeOK, Control
  <2> QED BY <1>20, <2>1, <2>2 DEF SubmitBatch
<1>21. CASE RecordBatch
  BY <1>21, EndOK DEF RecordBatch, At, TypeInv, BatchTypeOK, Control
<1>22. CASE MigrateLegacy
  <2>1. run' \in Runs /\ run'.pc = "summarize" /\ run'.seen \in [Docs -> Texts]
    BY <1>22, TurnOK DEF MigrateLegacy, PCs, At, TypeInv, Control
  <2> QED BY <1>22, <2>1 DEF MigrateLegacy, TypeInv, BatchTypeOK, Control
<1>23. CASE AllSummarized
  <2>1. run' \in Runs /\ run'.pc = "extract"
    BY <1>23, TurnOK DEF AllSummarized, PCs
  <2> QED BY <1>23, <2>1, RunStep DEF AllSummarized, TypeInv, BatchTypeOK, Control
<1>24. CASE ExtractAndWrite
  <2>1. run' \in Runs /\ run'.pc \in {"save", "idle"}
    BY <1>24, TurnOK, EndOK DEF ExtractAndWrite, PCs
  <2> QED BY <1>24, <2>1, RunStep DEF ExtractAndWrite, TypeInv, BatchTypeOK, Control
<1>25. CASE SaveCompiled
  <2>1. run' \in Runs /\ run'.pc = "idle"
    BY <1>25, EndOK DEF SaveCompiled
  <2>2. compiled' \in [Docs -> Hashes]
    BY <1>25 DEF SaveCompiled, TypeInv, BatchTypeOK, Runs
  <2> QED BY <1>25, <2>1, <2>2 DEF SaveCompiled, TypeInv, BatchTypeOK, Control
<1>26. CASE UNCHANGED batchVars
  BY <1>26 DEF batchVars, TypeInv, BatchTypeOK, Control
<1> QED BY <1>1, <1>2, <1>3, <1>4, <1>5, <1>6, <1>7, <1>8, <1>9, <1>10, <1>11, <1>12, <1>13,
           <1>14, <1>15, <1>17, <1>18, <1>19, <1>20, <1>21, <1>22, <1>23, <1>24, <1>25, <1>26
           DEF BatchNext

\* The state of a compile stays in its ranges, whatever fails or dies.
THEOREM TypeCorrect == BatchSpec => []BatchTypeOK
<1>1. TypeInv => BatchTypeOK
  BY DEF TypeInv
<1> QED BY <1>1, TypeInit, TypeNext, PTL DEF BatchSpec

-----------------------------------------------------------------------------
(* Paid batches.  A compile that may submit a new batch has found, or left,  *)
(* no owed one on record; one that resumes a batch works on the recorded ID; *)
(* and a legacy file holds no owed batch but the one in batch-state.json, if *)
(* there is one there.                                                       *)

Submits == run.pc \in {"clearLegacy", "submit", "migrate", "record"} \/ (run.pc = "diff" /\ ~run.dry)

NoneOwed == \A i \in Recorded : batch[i].fate # "owed"

OneOwed == batchFile \in BatchIds /\ legacyFile \in BatchIds /\ batch[legacyFile].fate = "owed"
             => legacyFile = batchFile

Positions ==
  /\ run.pc = "split" => batchFile \notin BatchIds
  /\ run.pc = "strip" => batchFile = legacyFile
  /\ run.pc \in {"poll", "apply", "retire", "remove"} => run.id = batchFile
  /\ run.pc = "remove" => legacyFile \notin BatchIds
  /\ run.pc = "record" => batch[run.id].fate = "owed"

PaidInv ==
  /\ PaidBatchOnRecord
  /\ Recorded \subseteq Given
  /\ Submits => NoneOwed
  /\ OneOwed
  /\ Positions

LEMMA IdsAreIds == NoBatch \notin BatchIds /\ DeadBatch \notin BatchIds /\ Stripped \notin BatchIds
  BY BatchAssumption

LEMMA PaidInit == BatchInit => PaidInv
<1> SUFFICES ASSUME BatchInit PROVE PaidInv
  OBVIOUS
<1>1. run.pc = "idle" /\ batchFile \notin BatchIds
  BY IdsAreIds DEF BatchInit, Resting
<1>2. \A i \in BatchIds : batch[i].fate = IF i = legacyFile THEN "owed" ELSE "none"
  BY DEF BatchInit, NotGiven
<1> QED BY <1>1, <1>2 DEF PaidInv, PaidBatchOnRecord, Recorded, Given, Submits, OneOwed,
                          Positions, At

\* A step of the run alone: what remains to show is what its new position asks for.
LEMMA PaidRunStep ==
  ASSUME PaidInv, UNCHANGED <<batchFile, legacyFile, batch>>, run.pc # "record",
         Submits' => NoneOwed, Positions'
  PROVE  PaidInv'
<1>1. (Recorded \subseteq Given)' /\ OneOwed' /\ (NoneOwed' <=> NoneOwed)
  BY DEF PaidInv, Recorded, Given, OneOwed, NoneOwed
<1>2. PaidBatchOnRecord'
  BY DEF PaidInv, PaidBatchOnRecord, Recorded, At
<1> QED BY <1>1, <1>2 DEF PaidInv

LEMMA PaidNext ==
  ASSUME "orphan" \notin BatchRaces
  PROVE  TypeInv /\ PaidInv /\ [BatchNext]_batchVars => PaidInv'
<1> SUFFICES ASSUME TypeInv, PaidInv, [BatchNext]_batchVars PROVE PaidInv'
  OBVIOUS
<1>1. ASSUME UNCHANGED <<batchFile, legacyFile, batch, run>> PROVE PaidInv'
  BY <1>1 DEF PaidInv, PaidBatchOnRecord, Recorded, Given, Submits, NoneOwed, OneOwed,
              Positions, At
<1>2. ASSUME UNCHANGED <<batchFile, legacyFile, batch>>, run.pc # "record",
             run'.pc \in {"idle", "load", "clear", "summarize", "extract", "save"}
      PROVE  PaidInv'
  BY <1>2, PaidRunStep DEF Submits, Positions
<1>3. ASSUME NEW d \in Docs, EditSource(d) PROVE PaidInv'
  BY <1>1, <1>3 DEF EditSource
<1>4. ASSUME NEW d \in Docs, ApplyResult(d) PROVE PaidInv'
  <2>1. (IF compiled[d] = -1 THEN 0 ELSE compiled[d]) \in Hashes
    BY TextsAreHashes DEF TypeInv, BatchTypeOK
  <2>2. run.pc = "apply" /\ run'.pc = "apply" /\ run'.id = run.id
    BY <1>4, <2>1, OneDone DEF ApplyResult, At
  <2> QED BY <1>4, <2>2, PaidRunStep DEF ApplyResult, Submits, Positions, PaidInv
<1>5. ASSUME NEW d \in Docs, SummarizeSource(d) PROVE PaidInv'
  <2>1. run.pc = "summarize" /\ run.seen[d] \in Hashes
    BY <1>5, TextsAreHashes DEF SummarizeSource, At, TypeInv, Control
  <2>2. run'.pc = "summarize"
    BY <1>5, <2>1, OneDone DEF SummarizeSource
  <2> QED BY <1>2, <1>5, <2>1, <2>2 DEF SummarizeSource
<1>6. ASSUME NEW d \in Docs, CompileTopic(d) PROVE PaidInv'
  <2>1. run.pc = "idle" /\ run'.pc = "summarize"
    BY <1>6, RestingOK DEF CompileTopic, At, Resting
  <2> QED BY <1>2, <1>6, <2>1 DEF CompileTopic
<1>7. ASSUME NEW fresh \in BOOLEAN, NEW batched \in BOOLEAN, NEW dry \in BOOLEAN,
             StartCompile(fresh, batched, dry)
      PROVE PaidInv'
  <2>1. run.pc = "idle" /\ run'.pc \in {"load", "diff", "clear"}
        /\ (run'.pc = "diff" => run'.dry)
    BY <1>7 DEF StartCompile, At, Resting
  <2> QED BY <1>7, <2>1, PaidRunStep DEF StartCompile, Submits, Positions
<1>8. CASE StopCompile
  <2>1. run.pc # "record" /\ run'.pc = "idle"
    BY <1>8, EndOK DEF StopCompile, At
  <2> QED BY <1>2, <1>8, <2>1 DEF StopCompile
<1>9. CASE ClearBatchFile
  <2>1. run.pc = "clear" /\ run'.pc = "clearLegacy"
    BY <1>9, TurnOK DEF ClearBatchFile, At, PCs
  <2>2. batchFile' \in {NoBatch, batchFile} /\ legacyFile' = legacyFile
    BY <1>9 DEF ClearBatchFile, Undeleted
  <2>3. Recorded' \subseteq Recorded
    BY <2>2, IdsAreIds DEF Recorded
  <2>4. \A i \in BatchIds : batch'[i].fate = IF i \in Recorded THEN "abandoned" ELSE batch[i].fate
    BY <1>9 DEF ClearBatchFile, TypeInv, BatchTypeOK
  <2>5. \A i \in BatchIds : batch'[i].fate # "owed"
    BY <2>1, <2>4 DEF PaidInv, PaidBatchOnRecord, At
  <2>6. PaidBatchOnRecord'
    BY <2>3, <2>4, <2>5 DEF PaidInv, PaidBatchOnRecord
  <2>7. (Recorded \subseteq Given)' /\ NoneOwed' /\ OneOwed'
    BY <2>3, <2>4, <2>5 DEF Recorded, Given, NoneOwed, OneOwed
  <2> QED BY <2>1, <2>6, <2>7 DEF PaidInv, Positions
<1>10. CASE ClearLegacyFile
  <2>1. run.pc = "clearLegacy" /\ run'.pc = "diff" /\ NoneOwed
    BY <1>10, TurnOK DEF ClearLegacyFile, At, PCs, PaidInv, Submits
  <2>2. batchFile' = batchFile /\ legacyFile' \in {NoBatch, legacyFile} /\ batch' = batch
    BY <1>10 DEF ClearLegacyFile, Undeleted
  <2>3. Recorded' \subseteq Recorded
    BY <2>2, IdsAreIds DEF Recorded
  <2>4. PaidBatchOnRecord'
    BY <2>1, <2>2, <2>3 DEF PaidInv, PaidBatchOnRecord, NoneOwed, At
  <2>5. (Recorded \subseteq Given)' /\ NoneOwed' /\ OneOwed'
    BY <2>1, <2>2, <2>3, IdsAreIds DEF PaidInv, Recorded, Given, NoneOwed, OneOwed
  <2> QED BY <2>1, <2>4, <2>5 DEF PaidInv, Positions
<1>11. CASE LoadBatch
  <2>1. run.pc = "load"
    BY <1>11 DEF LoadBatch, At
  <2>2. CASE batchFile \in BatchIds /\ Resumes(batchFile) /\ UNCHANGED batchFile
    <3>1. run'.pc = "idle" \/ (run'.pc = "poll" /\ run'.id = batchFile)
      BY <2>2 DEF Resumes, Resting, TypeInv, BatchTypeOK, Runs
    <3> QED BY <1>11, <2>1, <2>2, <3>1, PaidRunStep DEF LoadBatch, Submits, Positions
  <2>3. CASE batchFile \notin BatchIds /\ Turns("split") /\ UNCHANGED batchFile
    <3>1. run'.pc = "split"
      BY <2>3, TurnOK DEF PCs
    <3> QED BY <1>11, <2>1, <2>3, <3>1, PaidRunStep DEF LoadBatch, Submits, Positions
  <2>4. CASE batchFile \notin BatchIds /\ legacyFile \notin BatchIds /\ Turns("diff")
             /\ batchFile' \in {NoBatch, batchFile}
    <3>1. run'.pc = "diff" /\ Recorded = {} /\ Recorded' = {}
      BY <1>11, <2>4, TurnOK, IdsAreIds DEF LoadBatch, PCs, Recorded
    <3> QED BY <1>11, <2>1, <2>4, <3>1 DEF LoadBatch, PaidInv, PaidBatchOnRecord, NoneOwed,
               OneOwed, Positions, Given, At, Recorded
  <2> QED BY <1>11, <2>2, <2>3, <2>4 DEF LoadBatch
<1>12. CASE SplitLegacy
  <2>1. run.pc = "split" /\ batchFile \notin BatchIds /\ legacyFile \in BatchIds
    BY <1>12 DEF SplitLegacy, At, PaidInv, Positions, TypeInv, Control
  <2>2. CASE Ends /\ UNCHANGED batchFile
    BY <1>2, <1>12, <2>1, <2>2, EndOK DEF SplitLegacy
  <2>3. CASE batchFile' = legacyFile /\ Turns("strip")
    <3>1. run'.pc = "strip" /\ Recorded = {legacyFile} /\ Recorded' = {legacyFile}
      BY <1>12, <2>1, <2>3, TurnOK DEF SplitLegacy, PCs, Recorded
    <3> QED BY <1>12, <2>1, <2>3, <3>1 DEF SplitLegacy, PaidInv, PaidBatchOnRecord, Submits,
               OneOwed, Positions, Given, At
  <2> QED BY <1>12, <2>2, <2>3 DEF SplitLegacy
<1>13. CASE StripSplit
  <2>1. run.pc = "strip" /\ batchFile = legacyFile /\ batchFile \in BatchIds
    BY <1>13 DEF StripSplit, At, PaidInv, Positions, TypeInv, Control
  <2>2. CASE Ends /\ UNCHANGED legacyFile
    BY <1>2, <1>13, <2>1, <2>2, EndOK DEF StripSplit
  <2>3. CASE legacyFile' = Stripped /\ Resumes(batchFile)
    <3>1. run'.pc = "idle" \/ (run'.pc = "poll" /\ run'.id = batchFile)
      BY <2>3 DEF Resumes, Resting, TypeInv, BatchTypeOK, Runs
    <3>2. Recorded = {batchFile} /\ Recorded' = {batchFile}
      BY <1>13, <2>1, <2>3, IdsAreIds DEF StripSplit, Recorded
    <3> QED BY <1>13, <2>1, <2>3, <3>1, <3>2, IdsAreIds DEF StripSplit, PaidInv,
               PaidBatchOnRecord, Submits, OneOwed, Positions, Given, At
  <2> QED BY <1>13, <2>2, <2>3 DEF StripSplit
<1>14. CASE KeepWaiting
  <2>1. run.pc = "poll" /\ run'.pc = "idle"
    BY <1>14, EndOK DEF KeepWaiting, At
  <2> QED BY <1>2, <1>14, <2>1 DEF KeepWaiting
<1>15. CASE BatchExpired \/ AllApplied
  <2>1. run.pc \in {"poll", "apply"} /\ run'.pc = "retire" /\ run'.id = run.id
    BY <1>15, TurnOK DEF BatchExpired, AllApplied, At, PCs
  <2> QED BY <1>15, <2>1, PaidRunStep DEF BatchExpired, AllApplied, Submits, Positions, PaidInv
<1>16. CASE BatchEnded
  <2>1. run.pc = "poll" /\ run'.pc = "apply" /\ run'.id = run.id
    BY <1>16 DEF BatchEnded, At, TypeInv, BatchTypeOK, Runs
  <2> QED BY <1>16, <2>1, PaidRunStep DEF BatchEnded, Submits, Positions, PaidInv
<1>17. AfterRetire(run).pc \in {"idle", "extract"}
  BY DEF AfterRetire, Resting, TypeInv, BatchTypeOK, Runs
<1>18. CASE StripRetired
  <2>1. run.pc = "retire" /\ run.id = batchFile /\ run.id \in BatchIds
    BY <1>18 DEF StripRetired, At, PaidInv, Positions, TypeInv, Control
  <2>2. CASE run' = AfterRetire(run) /\ UNCHANGED legacyFile
    BY <1>2, <1>17, <1>18, <2>1, <2>2 DEF StripRetired
  <2>3. CASE legacyFile' = (IF legacyFile \in BatchIds THEN Stripped ELSE legacyFile)
             /\ Turns("remove")
    <3>1. run'.pc = "remove" /\ run'.id = run.id
      BY <2>3, TurnOK DEF PCs
    <3>2. Recorded' = {batchFile} /\ legacyFile' \notin BatchIds
      BY <1>18, <2>1, <2>3, IdsAreIds DEF StripRetired, Recorded
    <3>3. \A i \in Recorded : batch[i].fate = "owed" => i = batchFile
      BY <2>1 DEF Recorded, PaidInv, OneOwed
    <3> QED BY <1>18, <2>1, <3>1, <3>2, <3>3 DEF StripRetired, PaidInv, PaidBatchOnRecord,
               Submits, OneOwed, Positions, Given, Recorded, At
  <2> QED BY <1>18, <2>2, <2>3 DEF StripRetired
<1>19. CASE RemoveRetired
  <2>1. run.pc = "remove" /\ run.id = batchFile /\ run.id \in BatchIds /\ legacyFile \notin BatchIds
    BY <1>19 DEF RemoveRetired, At, PaidInv, Positions, TypeInv, Control
  <2>2. CASE UNCHANGED <<batchFile, batch>>
    BY <1>2, <1>17, <1>19, <2>1, <2>2 DEF RemoveRetired
  <2>3. CASE batchFile' = NoBatch /\ batch' = [batch EXCEPT ![run.id].fate = "settled"]
    <3>1. Recorded = {run.id} /\ Recorded' = {}
      BY <1>19, <2>1, <2>3, IdsAreIds DEF RemoveRetired, Recorded
    <3>2. \A i \in BatchIds : batch'[i].fate = IF i = run.id THEN "settled" ELSE batch[i].fate
      BY <2>1, <2>3 DEF TypeInv, BatchTypeOK
    <3>3. PaidBatchOnRecord'
      BY <2>1, <3>1, <3>2 DEF PaidInv, PaidBatchOnRecord, At
    <3> QED BY <1>17, <1>19, <2>1, <2>3, <3>1, <3>3, IdsAreIds DEF RemoveRetired, PaidInv,
               Submits, OneOwed, Positions
  <2> QED BY <1>19, <2>2, <2>3 DEF RemoveRetired
<1>20. CASE DiffSources
  <2>1. run.pc = "diff"
    BY <1>20 DEF DiffSources, At
  <2>2. run'.pc = "idle" \/ (run'.pc \in {"submit", "summarize", "migrate"} /\ ~run.dry)
    <3>1. \/ run' = Resting
          \/ ~run.dry /\ \E pc \in {"submit", "summarize", "migrate"}, todo \in SUBSET Docs :
               run' = [run EXCEPT !.pc = pc, !.seen = content, !.todo = todo]
      <4> DEFINE changed == {d \in Docs : compiled[d] # content[d]}
      <4> DEFINE next == IF run.batched THEN "submit"
                         ELSE IF run.fresh THEN "summarize" ELSE "migrate"
      <4>1. changed \in SUBSET Docs /\ next \in {"submit", "summarize", "migrate"}
        OBVIOUS
      <4>2. run' = IF changed = {} \/ run.dry THEN Resting
                   ELSE [run EXCEPT !.pc = next, !.seen = content, !.todo = changed]
        BY <1>20 DEF DiffSources
      <4> HIDE DEF changed, next
      <4>3. CASE changed = {} \/ run.dry
        BY <4>2, <4>3
      <4>4. CASE ~(changed = {} \/ run.dry)
        BY <4>1, <4>2, <4>4
      <4> QED BY <4>3, <4>4
    <3>2. CASE run' = Resting
      BY <3>2 DEF Resting
    <3>3. ASSUME NEW pc, NEW todo, run' = [run EXCEPT !.pc = pc, !.seen = content, !.todo = todo]
          PROVE  run'.pc = pc
      BY <3>3 DEF TypeInv, BatchTypeOK, Runs
    <3> QED BY <3>1, <3>2, <3>3
  <2>3. UNCHANGED <<batchFile, legacyFile, batch>>
    BY <1>20 DEF DiffSources
  <2>4. run'.pc # "idle" => NoneOwed
    BY <2>1, <2>2 DEF PaidInv, Submits
  <2> QED BY <2>1, <2>2, <2>3, <2>4, PaidRunStep DEF Submits, Positions
<1>21. CASE SubmitBatch
  <2>1. run.pc = "submit" /\ NoneOwed
    BY <1>21 DEF SubmitBatch, At, PaidInv, Submits
  <2>2. CASE Ends /\ UNCHANGED batch
    BY <1>2, <1>21, <2>1, <2>2, EndOK DEF SubmitBatch
  <2>3. ASSUME NEW i \in BatchIds \ Given, NEW given,
               batch' = [batch EXCEPT ![i] = [inputs |-> given, fate |-> "owed"]],
               run' = [run EXCEPT !.pc = "record", !.id = i]
        PROVE  PaidInv'
    <3>1. run'.pc = "record" /\ run'.id = i /\ Recorded' = Recorded /\ i \notin Recorded
      BY <1>21, <2>3 DEF SubmitBatch, TypeInv, BatchTypeOK, Runs, Recorded, PaidInv
    <3>2. \A j \in BatchIds : batch'[j].fate = IF j = i THEN "owed" ELSE batch[j].fate
      BY <2>3 DEF TypeInv, BatchTypeOK
    <3>3. UNCHANGED <<batchFile, legacyFile>>
      BY <1>21 DEF SubmitBatch
    <3>4. PaidBatchOnRecord'
      BY <2>1, <3>1, <3>2 DEF PaidInv, PaidBatchOnRecord, NoneOwed, Recorded, At
    <3>5. NoneOwed' /\ (Recorded \subseteq Given)'
      BY <2>1, <3>1, <3>2 DEF PaidInv, NoneOwed, Recorded, Given
    <3>6. OneOwed'
      BY <3>3, <3>5 DEF OneOwed, NoneOwed, Recorded
    <3> QED BY <3>1, <3>2, <3>4, <3>5, <3>6 DEF PaidInv, Positions
  <2> QED BY <1>21, <2>2, <2>3 DEF SubmitBatch
<1>22. CASE RecordBatch
  <2>1. run.pc = "record" /\ NoneOwed /\ run'.pc = "idle"
    BY <1>22, EndOK DEF RecordBatch, At, PaidInv, Submits
  <2>2. batchFile' = run.id /\ legacyFile' = legacyFile /\ batch' = batch
    BY <1>22 DEF RecordBatch
  <2>3. run.id \in BatchIds /\ batch[run.id].fate = "owed"
    BY <2>1 DEF TypeInv, Control, PaidInv, Positions
  <2>4. Recorded' = {run.id} \union ({legacyFile} \cap BatchIds)
    BY <2>2, <2>3 DEF Recorded
  <2>5. PaidBatchOnRecord'
    BY <2>1, <2>2, <2>3, <2>4 DEF PaidInv, PaidBatchOnRecord, NoneOwed, Recorded, At
  <2>6. (Recorded \subseteq Given)' /\ OneOwed'
    BY <2>1, <2>2, <2>3, <2>4 DEF PaidInv, Recorded, Given, NoneOwed, OneOwed
  <2> QED BY <2>1, <2>5, <2>6 DEF PaidInv, Submits, Positions
<1>23. CASE MigrateLegacy
  <2>1. run.pc = "migrate" /\ run'.pc = "summarize" /\ NoneOwed
    BY <1>23, TurnOK DEF MigrateLegacy, At, PCs, PaidInv, Submits
  <2>2. batchFile' = batchFile /\ batch' = batch /\ legacyFile' \in {legacyFile, NoBatch, Stripped}
    BY <1>23 DEF MigrateLegacy
  <2>3. Recorded' \subseteq Recorded
    BY <2>2, IdsAreIds DEF Recorded
  <2>4. PaidBatchOnRecord'
    BY <2>1, <2>2, <2>3 DEF PaidInv, PaidBatchOnRecord, NoneOwed, At
  <2>5. (Recorded \subseteq Given)' /\ OneOwed'
    BY <2>1, <2>2, <2>3, IdsAreIds DEF PaidInv, Recorded, Given, NoneOwed, OneOwed
  <2> QED BY <2>1, <2>4, <2>5 DEF PaidInv, Submits, Positions
<1>24. CASE AllSummarized
  <2>1. run.pc = "summarize" /\ run'.pc = "extract"
    BY <1>24, TurnOK DEF AllSummarized, At, PCs
  <2> QED BY <1>2, <1>24, <2>1 DEF AllSummarized
<1>25. CASE ExtractAndWrite
  <2>1. run.pc = "extract" /\ run'.pc \in {"save", "idle"}
    BY <1>25, TurnOK, EndOK DEF ExtractAndWrite, At, PCs
  <2> QED BY <1>2, <1>25, <2>1 DEF ExtractAndWrite
<1>26. CASE SaveCompiled
  <2>1. run.pc = "save" /\ run'.pc = "idle"
    BY <1>26, EndOK DEF SaveCompiled, At
  <2> QED BY <1>2, <1>26, <2>1 DEF SaveCompiled
<1>27. CASE UNCHANGED batchVars
  BY <1>1, <1>27 DEF batchVars
<1> QED BY <1>3, <1>4, <1>5, <1>6, <1>7, <1>8, <1>9, <1>10, <1>11, <1>12, <1>13, <1>14, <1>15,
           <1>16, <1>18, <1>19, <1>20, <1>21, <1>22, <1>23, <1>24, <1>25, <1>26, <1>27
           DEF BatchNext

\* Unless the process dies, or the save fails, right after the submission, the ID of a
\* paid batch is on record until its results are in, and never after, whatever the
\* edits, options, crashes, failed writes and files of an older version.
THEOREM PaidBatchesAreKept ==
  ASSUME "orphan" \notin BatchRaces
  PROVE  BatchSpec => []PaidBatchOnRecord
<1>1. PaidInv => PaidBatchOnRecord
  BY DEF PaidInv
<1>2. TypeInv /\ PaidInv /\ [BatchNext]_batchVars => PaidInv'
  BY PaidNext
<1> QED BY <1>1, <1>2, TypeInit, TypeNext, PaidInit, PTL DEF BatchSpec

-----------------------------------------------------------------------------
(* Summaries.  Versions only grow: a source is compiled at a version that its  *)
(* summary has reached, and its summary is of a version that the source has    *)
(* reached; a batch that is on record was given none that is compiled since.   *)

Growing == {"revert", "kept", "ondemand"} \intersect BatchRaces = {}

\* What a source is compiled at, or will be when the run is saved, is summarized.
Reached ==
  \A d \in Docs :
    /\ compiled[d] <= summary[d].of /\ run.ours[d] <= summary[d].of
    /\ summary[d].stamp <= summary[d].of /\ summary[d].of <= content[d]

\* The batches that a run may still apply are not older than what is compiled.
Away == Recorded \union {i \in BatchIds : At("record") /\ run.id = i}

BatchesAhead ==
  \A d \in Docs :
    /\ \A i \in BatchIds : batch[i].inputs[d] <= content[d]
    /\ \A i \in Away : batch[i].inputs[d] > 0 =>
         compiled[d] <= batch[i].inputs[d] /\ run.ours[d] <= batch[i].inputs[d]

RunsAlone ==
  /\ run.pc \in {"poll", "apply"} => run.id = batchFile
  /\ run.pc = "apply" => \A d \in run.todo : batch[run.id].inputs[d] > 0
  /\ run.pc = "clearLegacy" => batchFile \notin BatchIds
  /\ run.ours # Same => run.pc \in {"apply", "retire", "remove", "summarize", "extract", "save"}
  /\ run.pc = "diff" /\ ~run.dry => Recorded = {}
  /\ run.pc \in {"migrate", "summarize"} =>
       Recorded = {} /\ \A d \in Docs : run.seen[d] <= content[d]

SummaryInv == Reached /\ BatchesAhead /\ RunsAlone

\* The versions that are compared are numbers.
LEMMA VersionTypes ==
  ASSUME TypeInv
  PROVE  /\ content \in [Docs -> Int] /\ compiled \in [Docs -> Int] /\ run.ours \in [Docs -> Int]
         /\ run.seen \in [Docs -> Int]
         /\ \A d \in Docs : summary[d].of \in Int /\ summary[d].stamp \in Int
         /\ \A d \in Docs : content[d] >= 1 /\ summary[d].of >= 0
         /\ \A i \in BatchIds : batch[i].inputs \in [Docs -> Int]
<1>1. \A n \in Hashes \union Texts \union 0..MaxVersion : n \in Int
  BY BatchAssumption DEF Hashes, Texts
<1>2. \A n \in Texts : n >= 1
  BY BatchAssumption DEF Texts
<1>3. \A d \in Docs : summary[d] \in [of : 0..MaxVersion, stamp : 0..MaxVersion]
  BY DEF TypeInv, BatchTypeOK
<1>4. \A n \in 0..MaxVersion : n >= 0
  BY BatchAssumption
<1>5. content \in [Docs -> Texts] /\ compiled \in [Docs -> Hashes]
      /\ run.ours \in [Docs -> Hashes] /\ run.seen \in [Docs -> Hashes]
  BY DEF TypeInv, BatchTypeOK, Runs
<1>6. \A i \in BatchIds : batch[i].inputs \in [Docs -> 0..MaxVersion]
  BY DEF TypeInv, BatchTypeOK
<1> HIDE DEF Hashes, Texts
<1> QED BY <1>1, <1>2, <1>3, <1>4, <1>5, <1>6

LEMMA SameType == Same \in [Docs -> Int] /\ \A d \in Docs : Same[d] = -1
  BY DEF Same

LEMMA SummaryInit == BatchInit => SummaryInv
<1> SUFFICES ASSUME BatchInit PROVE SummaryInv
  OBVIOUS
<1>1. run.pc = "idle" /\ run.ours = Same
  BY DEF BatchInit, Resting
<1>2. \A d \in Docs : compiled[d] = -1 /\ run.ours[d] = -1 /\ content[d] = 1
                      /\ summary[d].of = 0 /\ summary[d].stamp = 0
  BY <1>1, SameType DEF BatchInit
<1>3. \A i \in BatchIds, d \in Docs : batch[i].inputs[d] \in {0, 1}
  BY <1>2 DEF BatchInit, NotGiven
<1> QED BY <1>1, <1>2, <1>3 DEF SummaryInv, Reached, BatchesAhead, RunsAlone, Away, Recorded, At

\* A step that moves the run on, or ends it, and takes nothing new.
LEMMA SummaryRunStep ==
  ASSUME TypeInv, SummaryInv, UNCHANGED <<content, compiled, summary>>,
         \A i \in BatchIds : batch'[i].inputs = batch[i].inputs,
         run'.ours \in {run.ours, Same}, Away' \subseteq Away, RunsAlone'
  PROVE  SummaryInv'
<1>1. \A d \in Docs : /\ compiled[d] \in Int /\ content[d] \in Int /\ Same[d] = -1
                      /\ summary[d].of \in Int /\ summary[d].of >= 0
  BY VersionTypes, SameType
<1>2. Reached'
  BY <1>1 DEF SummaryInv, Reached
<1>3. \A i \in BatchIds, d \in Docs : batch[i].inputs[d] \in Int
  BY VersionTypes
<1>4. Away \subseteq BatchIds /\ Away' \subseteq BatchIds
  BY DEF Away, Recorded
<1>5. BatchesAhead'
  BY <1>1, <1>3, <1>4 DEF SummaryInv, BatchesAhead
<1> QED BY <1>2, <1>5 DEF SummaryInv

\* What a run keeps when it turns to another step, and what it is left with at its end.
LEMMA TurnKeeps ==
  ASSUME TypeInv, NEW pc \in PCs, Turns(pc)
  PROVE  /\ run'.pc = pc /\ run'.id = run.id /\ run'.ours = run.ours /\ run'.todo = run.todo
         /\ run'.seen = run.seen /\ run'.dry = run.dry
  BY DEF TypeInv, BatchTypeOK, Runs, Turns

LEMMA EndClears ==
  ASSUME Ends
  PROVE  run'.pc = "idle" /\ run'.ours = Same
  BY DEF Ends, Resting

\* The run after a source of it is done, with a hash h for it, or without.
LEMMA DoneTakes ==
  ASSUME TypeInv, NEW d \in Docs, NEW h \in Hashes,
         run' = [run EXCEPT !.todo = @ \ {d}, !.ours[d] = h]
  PROVE  /\ run'.pc = run.pc /\ run'.id = run.id /\ run'.seen = run.seen
         /\ run'.todo \subseteq run.todo /\ run'.ours[d] = h
         /\ \A c \in Docs \ {d} : run'.ours[c] = run.ours[c]
<1> DEFINE ours == [run.ours EXCEPT ![d] = h]
<1>1. run.ours \in [Docs -> Hashes]
  BY DEF TypeInv, BatchTypeOK, Runs
<1>2. ours[d] = h /\ \A c \in Docs \ {d} : ours[c] = run.ours[c]
  BY <1>1
<1>3. run' = [run EXCEPT !.todo = @ \ {d}, !.ours = ours]
  BY DEF TypeInv, BatchTypeOK, Runs
<1> HIDE DEF ours
<1> QED BY <1>2, <1>3 DEF TypeInv, BatchTypeOK, Runs

LEMMA DoneSkips ==
  ASSUME TypeInv, NEW d \in Docs, run' = [run EXCEPT !.todo = @ \ {d}]
  PROVE  /\ run'.pc = run.pc /\ run'.id = run.id /\ run'.seen = run.seen
         /\ run'.todo \subseteq run.todo /\ run'.ours = run.ours
  BY DEF TypeInv, BatchTypeOK, Runs

LEMMA SummaryNext ==
  ASSUME Growing, TypeInv, SummaryInv, [BatchNext]_batchVars
  PROVE  SummaryInv'
<1>a. \A i \in BatchIds : batch[i].inputs = batch[i].inputs
  OBVIOUS
<1>b. \A d \in Docs : /\ content[d] \in Int /\ compiled[d] \in Int /\ summary[d].of \in Int
                      /\ summary[d].stamp \in Int /\ run.ours[d] \in Int /\ Same[d] = -1
                      /\ summary[d].of >= 0 /\ content[d] >= 1 /\ run.seen[d] \in Int
                      /\ \A i \in BatchIds : batch[i].inputs[d] \in Int
  BY VersionTypes, SameType
<1>c. ASSUME UNCHANGED <<content, compiled, summary, batchFile, legacyFile, batch>>,
             run.pc # "record", run'.pc # "record", run'.ours \in {run.ours, Same}, RunsAlone'
      PROVE  SummaryInv'
  <2>1. Away' = Away
    BY <1>c DEF Away, Recorded, At
  <2> QED BY <1>c, <2>1, SummaryRunStep
<1>1. ASSUME NEW d \in Docs, EditSource(d) PROVE SummaryInv'
  <2>1. /\ \A c \in Docs : content'[c] \in Int /\ content'[c] >= content[c]
        /\ UNCHANGED <<compiled, summary, batchFile, legacyFile, batch, run>>
    <3>1. PICK v \in Texts : v > content[d] /\ content' = [content EXCEPT ![d] = v]
      BY <1>1 DEF EditSource, Growing
    <3>2. v \in Int
      BY BatchAssumption DEF Texts
    <3> QED BY <1>1, <1>b, <3>1, <3>2 DEF EditSource, TypeInv, BatchTypeOK
  <2>2. Away' = Away
    BY <2>1 DEF Away, Recorded, At
  <2>3. Reached' /\ BatchesAhead'
    BY <1>b, <2>1, <2>2 DEF SummaryInv, Reached, BatchesAhead
  <2>4. RunsAlone'
    BY <1>b, <2>1 DEF SummaryInv, RunsAlone, Recorded
  <2> QED BY <2>3, <2>4 DEF SummaryInv
<1>2. ASSUME NEW d \in Docs, ApplyResult(d) PROVE SummaryInv'
  <2> DEFINE old == IF compiled[d] = -1 THEN 0 ELSE compiled[d]
             v == batch[run.id].inputs[d]
  <2>1. /\ run.pc = "apply" /\ d \in run.todo /\ run.id = batchFile /\ run.id \in BatchIds
        /\ v > 0 /\ v \in Int /\ old \in Int
        /\ UNCHANGED <<content, compiled, batchFile, legacyFile, batch>>
    BY <1>2, <1>b DEF ApplyResult, At, SummaryInv, RunsAlone, TypeInv, Control
  <2>2. run.id \in Away /\ compiled[d] <= v /\ old <= v /\ v <= content[d]
    BY <1>b, <2>1 DEF Away, Recorded, SummaryInv, BatchesAhead
  <2> HIDE DEF old, v
  <2>a. old \in Hashes /\ v = batch[run.id].inputs[d]
    BY <2>1, BatchAssumption DEF old, v, TypeInv, BatchTypeOK, Hashes
  <2>b. \/ run' = [run EXCEPT !.todo = @ \ {d}] /\ UNCHANGED summary
        \/ /\ summary' = [summary EXCEPT ![d] = [of |-> v, stamp |-> 0]]
           /\ run' = [run EXCEPT !.todo = @ \ {d}, !.ours[d] = old]
    BY <1>2 DEF ApplyResult, old, v
  <2>3. /\ run'.pc = "apply" /\ run'.id = run.id /\ run'.todo \subseteq run.todo
        /\ \A c \in Docs \ {d} : run'.ours[c] = run.ours[c]
        /\ \/ summary' = summary /\ run'.ours[d] = run.ours[d]
           \/ summary' = [summary EXCEPT ![d] = [of |-> v, stamp |-> 0]] /\ run'.ours[d] = old
    BY <2>1, <2>a, <2>b, DoneTakes, DoneSkips
  <2>4. Away' = Away
    BY <2>1, <2>3 DEF Away, Recorded, At
  <2>5. \A c \in Docs \ {d} : summary'[c] = summary[c]
    BY <2>3 DEF TypeInv, BatchTypeOK
  <2>6. \/ summary'[d] = summary[d] /\ run'.ours[d] = run.ours[d]
        \/ summary'[d].of = v /\ summary'[d].stamp = 0 /\ run'.ours[d] = old
    BY <2>3 DEF TypeInv, BatchTypeOK
  <2>7. \A i \in Away : batch[i].inputs[d] > 0 => old <= batch[i].inputs[d]
    BY <1>b DEF SummaryInv, BatchesAhead, Away, Recorded, old
  <2>8. Reached'
    BY <1>b, <2>1, <2>2, <2>3, <2>5, <2>6 DEF SummaryInv, Reached
  <2>9. BatchesAhead'
    BY <1>b, <2>1, <2>3, <2>4, <2>6, <2>7 DEF SummaryInv, BatchesAhead
  <2>10. RunsAlone'
    BY <2>1, <2>3 DEF SummaryInv, RunsAlone
  <2> QED BY <2>8, <2>9, <2>10 DEF SummaryInv
<1>3. ASSUME NEW d \in Docs, SummarizeSource(d) PROVE SummaryInv'
  <2>1. /\ run.pc = "summarize" /\ Recorded = {} /\ run.seen[d] <= content[d]
        /\ UNCHANGED <<content, compiled, batchFile, legacyFile, batch>>
    BY <1>3 DEF SummarizeSource, At, SummaryInv, RunsAlone
  <2>2. /\ run'.pc = "summarize" /\ run'.seen = run.seen
        /\ \A c \in Docs \ {d} : run'.ours[c] = run.ours[c]
        /\ \/ summary' = summary /\ run'.ours[d] = run.ours[d]
           \/ summary' = summary /\ summary[d].stamp = run.seen[d] /\ run'.ours[d] = run.seen[d]
           \/ /\ summary' = [summary EXCEPT ![d] = [of |-> content[d], stamp |-> run.seen[d]]]
              /\ run'.ours[d] = run.seen[d]
    <3>1. run.seen[d] \in Hashes
      BY DEF TypeInv, BatchTypeOK, Runs
    <3> QED BY <1>3, <2>1, <3>1, DoneTakes, DoneSkips DEF SummarizeSource
  <2>3. Recorded' = {} /\ Away' = {}
    BY <2>1, <2>2 DEF Away, Recorded, At
  <2>4. \A c \in Docs \ {d} : summary'[c] = summary[c]
    BY <2>2 DEF TypeInv, BatchTypeOK
  <2>5. \/ summary'[d] = summary[d] /\ run'.ours[d] = run.ours[d]
        \/ summary'[d] = summary[d] /\ summary[d].stamp = run.seen[d] /\ run'.ours[d] = run.seen[d]
        \/ /\ summary'[d].of = content[d] /\ summary'[d].stamp = run.seen[d]
           /\ run'.ours[d] = run.seen[d]
    BY <2>2 DEF TypeInv, BatchTypeOK
  <2>6. Reached'
    BY <1>b, <2>1, <2>2, <2>4, <2>5 DEF SummaryInv, Reached
  <2>7. BatchesAhead'
    BY <2>1, <2>3 DEF SummaryInv, BatchesAhead
  <2>8. RunsAlone'
    BY <2>1, <2>2, <2>3 DEF SummaryInv, RunsAlone
  <2> QED BY <2>6, <2>7, <2>8 DEF SummaryInv
<1>4. ASSUME NEW d \in Docs, CompileTopic(d) PROVE SummaryInv'
  <2>1. /\ run.pc = "idle" /\ Recorded = {} /\ run'.pc = "summarize" /\ run'.ours = Same
        /\ UNCHANGED <<content, compiled, summary, batchFile, legacyFile, batch>>
    BY <1>4 DEF CompileTopic, At, Growing, Resting
  <2>2. PICK h \in Texts : h <= content[d] /\ run'.seen = [content EXCEPT ![d] = h]
    BY <1>4 DEF CompileTopic, Growing, Resting
  <2>3. \A c \in Docs : run'.seen[c] <= content[c]
    BY <1>b, <2>2 DEF TypeInv, BatchTypeOK
  <2>4. Recorded' = {}
    BY <2>1 DEF Recorded
  <2> QED BY <1>b, <1>c, <2>1, <2>3, <2>4 DEF RunsAlone
<1>5. ASSUME NEW fresh \in BOOLEAN, NEW batched \in BOOLEAN, NEW dry \in BOOLEAN,
             StartCompile(fresh, batched, dry)
      PROVE SummaryInv'
  <2>1. /\ run.pc = "idle" /\ run'.pc \in {"load", "diff", "clear"} /\ run'.ours = Same
        /\ (run'.pc = "diff" => run'.dry)
    BY <1>5 DEF StartCompile, At, Resting
  <2> QED BY <1>5, <1>c, <2>1 DEF StartCompile, RunsAlone
<1>6. ASSUME Ends, UNCHANGED <<content, compiled, summary, batchFile, legacyFile>>,
             \A i \in BatchIds : batch'[i].inputs = batch[i].inputs
      PROVE  SummaryInv'
  <2>1. run'.pc = "idle" /\ run'.ours = Same
    BY <1>6, EndClears
  <2>2. Away' \subseteq Away
    BY <1>6, <2>1 DEF Away, Recorded, At
  <2> QED BY <1>6, <2>1, <2>2, SummaryRunStep DEF RunsAlone
<1>7. CASE StopCompile \/ KeepWaiting
  BY <1>6, <1>7 DEF StopCompile, KeepWaiting
<1>8. CASE ClearBatchFile
  <2>1. run.pc = "clear" /\ run'.pc = "clearLegacy" /\ run'.ours = run.ours /\ run.ours = Same
    BY <1>8, TurnKeeps DEF ClearBatchFile, At, PCs, SummaryInv, RunsAlone
  <2>2. /\ batchFile' = NoBatch /\ UNCHANGED <<content, compiled, summary, legacyFile>>
        /\ \A i \in BatchIds : batch'[i].inputs = batch[i].inputs
    BY <1>8 DEF ClearBatchFile, Undeleted, Growing, TypeInv, BatchTypeOK
  <2>3. Away' \subseteq Away
    BY <2>1, <2>2, IdsAreIds DEF Away, Recorded, At
  <2> QED BY <2>1, <2>2, <2>3, SummaryRunStep, IdsAreIds DEF RunsAlone
<1>9. CASE ClearLegacyFile
  <2>1. /\ run.pc = "clearLegacy" /\ run'.pc = "diff" /\ run'.ours = run.ours /\ run.ours = Same
        /\ batchFile \notin BatchIds
    BY <1>9, TurnKeeps DEF ClearLegacyFile, At, PCs, SummaryInv, RunsAlone
  <2>2. legacyFile' = NoBatch /\ UNCHANGED <<content, compiled, summary, batchFile, batch>>
    BY <1>9 DEF ClearLegacyFile, Undeleted, Growing
  <2>3. Recorded' = {} /\ Away' = {}
    BY <2>1, <2>2, IdsAreIds DEF Away, Recorded, At
  <2> QED BY <2>1, <2>2, <2>3, SummaryRunStep DEF RunsAlone
<1>10. ASSUME NEW f \in BatchIds, Resumes(f), f = batchFile', run.ours = Same
       PROVE  run'.ours = Same /\ run'.pc \in {"idle", "poll"} /\ RunsAlone'
  <2>1. run'.ours = Same /\ (run'.pc = "idle" \/ (run'.pc = "poll" /\ run'.id = f))
    BY <1>10 DEF Resumes, Resting, TypeInv, BatchTypeOK, Runs
  <2> QED BY <1>10, <2>1 DEF RunsAlone
<1>11. CASE LoadBatch
  <2>1. run.pc = "load" /\ run.ours = Same /\ UNCHANGED <<content, compiled, summary, legacyFile, batch>>
    BY <1>11 DEF LoadBatch, At, SummaryInv, RunsAlone
  <2>2. CASE batchFile \in BatchIds /\ Resumes(batchFile) /\ UNCHANGED batchFile
    BY <1>10, <1>c, <2>1, <2>2
  <2>3. CASE Turns("split") /\ UNCHANGED batchFile
    <3>1. run'.pc = "split" /\ run'.ours = run.ours
      BY <2>3, TurnKeeps DEF PCs
    <3> QED BY <1>c, <2>1, <2>3, <3>1 DEF RunsAlone
  <2>4. CASE batchFile \notin BatchIds /\ legacyFile \notin BatchIds /\ Turns("diff")
             /\ batchFile' \in {NoBatch, batchFile}
    <3>1. run'.pc = "diff" /\ run'.ours = run.ours
      BY <2>4, TurnKeeps DEF PCs
    <3>2. Recorded' = {} /\ Away' = {}
      BY <2>1, <2>4, <3>1, IdsAreIds DEF Away, Recorded, At
    <3> QED BY <2>1, <2>4, <3>1, <3>2, SummaryRunStep DEF RunsAlone
  <2> QED BY <1>11, <2>2, <2>3, <2>4 DEF LoadBatch
<1>12. CASE SplitLegacy
  <2>1. /\ run.pc = "split" /\ run.ours = Same /\ legacyFile \in BatchIds
        /\ UNCHANGED <<content, compiled, summary, legacyFile, batch>>
    BY <1>12 DEF SplitLegacy, At, SummaryInv, RunsAlone, TypeInv, Control
  <2>2. CASE Ends /\ UNCHANGED batchFile
    BY <1>6, <2>1, <2>2
  <2>3. CASE batchFile' = legacyFile /\ Turns("strip")
    <3>1. run'.pc = "strip" /\ run'.ours = run.ours
      BY <2>3, TurnKeeps DEF PCs
    <3>2. Away' \subseteq Away
      BY <2>1, <2>3, <3>1 DEF Away, Recorded, At
    <3> QED BY <2>1, <2>3, <3>1, <3>2, SummaryRunStep DEF RunsAlone
  <2> QED BY <1>12, <2>2, <2>3 DEF SplitLegacy
<1>13. CASE StripSplit
  <2>1. /\ run.pc = "strip" /\ run.ours = Same /\ batchFile \in BatchIds
        /\ UNCHANGED <<content, compiled, summary, batchFile, batch>>
    BY <1>13 DEF StripSplit, At, SummaryInv, RunsAlone, TypeInv, Control
  <2>2. CASE Ends /\ UNCHANGED legacyFile
    BY <1>6, <2>1, <2>2
  <2>3. CASE legacyFile' = Stripped /\ Resumes(batchFile)
    <3>1. run'.ours = Same /\ run'.pc \in {"idle", "poll"} /\ RunsAlone'
      BY <1>10, <2>1, <2>3
    <3>2. Away' \subseteq Away
      BY <2>1, <2>3, <3>1, IdsAreIds DEF Away, Recorded, At
    <3> QED BY <2>1, <3>1, <3>2, SummaryRunStep
  <2> QED BY <1>13, <2>2, <2>3 DEF StripSplit
<1>14. CASE BatchExpired \/ AllApplied
  <2>1. run.pc \in {"poll", "apply"} /\ run'.pc = "retire" /\ run'.ours = run.ours
    BY <1>14, TurnKeeps DEF BatchExpired, AllApplied, At, PCs
  <2> QED BY <1>14, <1>c, <2>1 DEF BatchExpired, AllApplied, RunsAlone
<1>15. CASE BatchEnded
  <2>1. /\ run.pc = "poll" /\ run'.pc = "apply" /\ run'.id = run.id /\ run'.ours = run.ours
        /\ run'.todo = {d \in Docs : batch[run.id].inputs[d] > 0}
    BY <1>15 DEF BatchEnded, At, TypeInv, BatchTypeOK, Runs
  <2> QED BY <1>15, <1>c, <2>1 DEF BatchEnded, RunsAlone, SummaryInv
<1>16. ASSUME run' = AfterRetire(run)
       PROVE  \/ run'.pc = "idle" /\ run'.ours = Same
              \/ run'.pc = "extract" /\ run'.ours = run.ours
  BY <1>16 DEF AfterRetire, Resting, TypeInv, BatchTypeOK, Runs
<1>17. CASE StripRetired
  <2>1. run.pc = "retire" /\ UNCHANGED <<content, compiled, summary, batchFile, batch>>
    BY <1>17 DEF StripRetired, At
  <2>2. CASE run' = AfterRetire(run) /\ UNCHANGED legacyFile
    BY <1>16, <1>c, <2>1, <2>2 DEF RunsAlone
  <2>3. CASE legacyFile' \in {Stripped, legacyFile} /\ Turns("remove")
    <3>1. run'.pc = "remove" /\ run'.ours = run.ours
      BY <2>3, TurnKeeps DEF PCs
    <3>2. Away' \subseteq Away
      BY <2>1, <2>3, <3>1, IdsAreIds DEF Away, Recorded, At
    <3> QED BY <2>1, <3>1, <3>2, SummaryRunStep DEF RunsAlone
  <2> QED BY <1>17, <2>2, <2>3 DEF StripRetired
<1>18. CASE RemoveRetired
  <2>1. /\ run.pc = "remove" /\ run' = AfterRetire(run)
        /\ UNCHANGED <<content, compiled, summary, legacyFile>> /\ batchFile' \in {NoBatch, batchFile}
    BY <1>18 DEF RemoveRetired, At
  <2>2. \A i \in BatchIds : batch'[i].inputs = batch[i].inputs
    BY <1>18 DEF RemoveRetired, TypeInv, BatchTypeOK
  <2>3. Away' \subseteq Away
    BY <1>16, <2>1, IdsAreIds DEF Away, Recorded, At
  <2> QED BY <1>16, <2>1, <2>2, <2>3, SummaryRunStep DEF RunsAlone
<1>19. CASE DiffSources
  <2>1. run.pc = "diff" /\ UNCHANGED <<content, compiled, summary, batchFile, legacyFile, batch>>
        /\ run.ours = Same
    BY <1>19 DEF DiffSources, At, SummaryInv, RunsAlone
  <2>2. \/ run'.pc = "idle" /\ run'.ours = Same
        \/ /\ run'.pc \in {"submit", "summarize", "migrate"} /\ run'.ours = Same /\ ~run.dry
           /\ run'.seen = content
    <3> DEFINE changed == {d \in Docs : compiled[d] # content[d]}
    <3> DEFINE next == IF run.batched THEN "submit"
                       ELSE IF run.fresh THEN "summarize" ELSE "migrate"
    <3>1. changed \in SUBSET Docs /\ next \in {"submit", "summarize", "migrate"}
      OBVIOUS
    <3>2. run' = IF changed = {} \/ run.dry THEN Resting
                 ELSE [run EXCEPT !.pc = next, !.seen = content, !.todo = changed]
      BY <1>19 DEF DiffSources
    <3> HIDE DEF changed, next
    <3>3. CASE changed = {} \/ run.dry
      BY <3>2, <3>3 DEF Resting
    <3>4. CASE ~(changed = {} \/ run.dry)
      BY <2>1, <3>1, <3>2, <3>4 DEF TypeInv, BatchTypeOK, Runs
    <3> QED BY <3>3, <3>4
  <2>3. Recorded' = Recorded /\ (~run.dry => Recorded = {})
    BY <2>1 DEF Recorded, SummaryInv, RunsAlone
  <2>4. RunsAlone'
    BY <1>b, <2>1, <2>2, <2>3 DEF RunsAlone
  <2> QED BY <1>c, <2>1, <2>2, <2>4
<1>20. CASE SubmitBatch
  <2>1. run.pc = "submit" /\ run.ours = Same
        /\ UNCHANGED <<content, compiled, summary, batchFile, legacyFile>>
    BY <1>20 DEF SubmitBatch, At, SummaryInv, RunsAlone
  <2>2. CASE Ends /\ UNCHANGED batch
    BY <1>6, <2>1, <2>2
  <2>3. ASSUME NEW i \in BatchIds \ Given, NEW ds,
               batch' = [batch EXCEPT ![i] = [inputs |-> [d \in Docs |-> IF d \in ds THEN content[d] ELSE 0],
                                              fate |-> "owed"]],
               \/ run' = [run EXCEPT !.pc = "record", !.id = i]
               \/ Ends
        PROVE  SummaryInv'
    <3>1. run'.ours = Same /\ ((run'.pc = "record" /\ run'.id = i) \/ run'.pc = "idle")
      BY <2>1, <2>3, EndClears DEF TypeInv, BatchTypeOK, Runs
    <3>2. \A d \in Docs : batch'[i].inputs[d] \in {0, content[d]}
      BY <2>3 DEF TypeInv, BatchTypeOK
    <3>3. \A j \in BatchIds \ {i} : batch'[j] = batch[j]
      BY <2>3 DEF TypeInv, BatchTypeOK
    <3>4. Away' \subseteq Recorded \union {i} /\ Recorded \subseteq Away /\ Recorded \subseteq BatchIds
      BY <2>1, <3>1 DEF Away, Recorded, At
    <3>5. Reached'
      BY <1>b, <2>1, <3>1 DEF SummaryInv, Reached
    <3>6. \A d \in Docs : compiled[d] <= content[d] /\ -1 <= content[d]
      BY <1>b DEF SummaryInv, Reached
    <3>7. BatchesAhead'
      <4>1. ASSUME NEW d \in Docs, NEW j \in BatchIds PROVE batch'[j].inputs[d] <= content[d]
        BY <1>b, <3>2, <3>3 DEF SummaryInv, BatchesAhead
      <4>2. ASSUME NEW d \in Docs, NEW j \in Away', batch'[j].inputs[d] > 0
            PROVE  compiled[d] <= batch'[j].inputs[d] /\ -1 <= batch'[j].inputs[d]
        <5>1. CASE j = i
          BY <1>b, <3>2, <3>6, <4>2, <5>1
        <5>2. CASE j # i
          BY <1>b, <3>3, <3>4, <4>2, <5>2 DEF SummaryInv, BatchesAhead
        <5> QED BY <5>1, <5>2
      <4> QED BY <1>b, <2>1, <3>1, <4>1, <4>2 DEF BatchesAhead
    <3> QED BY <3>1, <3>5, <3>7 DEF SummaryInv, RunsAlone
  <2>4. \/ Ends /\ UNCHANGED batch
        \/ \E i \in BatchIds \ Given, ds \in SUBSET run.todo :
             /\ batch' = [batch EXCEPT ![i] =
                            [inputs |-> [d \in Docs |-> IF d \in ds THEN content[d] ELSE 0],
                             fate |-> "owed"]]
             /\ run' = [run EXCEPT !.pc = "record", !.id = i] \/ Ends
    BY <1>20 DEF SubmitBatch
  <2> QED BY <2>2, <2>3, <2>4
<1>21. CASE RecordBatch
  <2>1. /\ run.pc = "record" /\ run.id \in BatchIds /\ Ends /\ batchFile' \in {run.id, batchFile}
        /\ UNCHANGED <<content, compiled, summary, legacyFile, batch>>
    BY <1>21 DEF RecordBatch, At, TypeInv, Control
  <2>2. run'.pc = "idle" /\ run'.ours = Same
    BY <2>1, EndClears
  <2>3. Away' \subseteq Away
    BY <2>1, <2>2 DEF Away, Recorded, At
  <2> QED BY <2>1, <2>2, <2>3, SummaryRunStep DEF RunsAlone
<1>22. CASE MigrateLegacy
  <2>1. run.pc = "migrate" /\ run'.pc = "summarize" /\ run'.ours = run.ours /\ run'.seen = run.seen
    BY <1>22, TurnKeeps DEF MigrateLegacy, At, PCs
  <2>2. /\ legacyFile' \in {legacyFile, NoBatch, Stripped}
        /\ UNCHANGED <<content, compiled, summary, batchFile, batch>>
    BY <1>22 DEF MigrateLegacy
  <2>3. Away' \subseteq Away /\ Recorded' \subseteq Recorded
    BY <2>1, <2>2, IdsAreIds DEF Away, Recorded, At
  <2>4. RunsAlone'
    BY <2>1, <2>2, <2>3 DEF RunsAlone, SummaryInv
  <2> QED BY <2>1, <2>2, <2>3, <2>4, SummaryRunStep
<1>23. CASE AllSummarized
  <2>1. run.pc = "summarize" /\ run'.pc = "extract" /\ run'.ours = run.ours
    BY <1>23, TurnKeeps DEF AllSummarized, At, PCs
  <2> QED BY <1>23, <1>c, <2>1 DEF AllSummarized, RunsAlone
<1>24. CASE ExtractAndWrite
  <2>1. /\ run.pc = "extract"
        /\ \/ run'.pc = "save" /\ run'.ours = run.ours
           \/ run'.pc = "idle" /\ run'.ours = Same
    BY <1>24, TurnKeeps, EndClears DEF ExtractAndWrite, At, PCs
  <2> QED BY <1>24, <1>c, <2>1 DEF ExtractAndWrite, RunsAlone
<1>25. CASE SaveCompiled
  <2>1. /\ run'.pc = "idle" /\ run'.ours = Same /\ run.pc = "save"
        /\ \A d \in Docs : compiled'[d] \in {compiled[d], run.ours[d]}
        /\ UNCHANGED <<content, summary, batchFile, legacyFile, batch>>
    BY <1>25, EndClears DEF SaveCompiled, At
  <2>2. Away' = Away
    BY <2>1 DEF Away, Recorded, At
  <2>3. Reached'
    BY <1>b, <2>1 DEF SummaryInv, Reached
  <2>4. BatchesAhead'
    <3>1. \A i \in Away : i \in BatchIds
      BY DEF Away, Recorded
    <3> QED BY <1>b, <2>1, <2>2, <3>1 DEF SummaryInv, BatchesAhead
  <2> QED BY <2>1, <2>3, <2>4 DEF SummaryInv, RunsAlone
<1>26. CASE UNCHANGED batchVars
  <2>1. Away' = Away
    BY <1>26 DEF batchVars, Away, Recorded, At
  <2> QED BY <1>26, <2>1 DEF batchVars, SummaryInv, Reached, BatchesAhead, RunsAlone, Recorded
<1> QED BY <1>1, <1>2, <1>3, <1>4, <1>5, <1>7, <1>8, <1>9, <1>11, <1>12, <1>13, <1>14, <1>15,
           <1>17, <1>18, <1>19, <1>20, <1>21, <1>22, <1>23, <1>24, <1>25, <1>26
           DEF BatchNext

\* A source that the next diff takes for compiled has a summary of what it contains, whatever
\* it changes to while its batch is away and whatever fails or dies: for any number of sources,
\* versions and batches, if no source takes back a content it had, --fresh can remove the
\* checkpoints, and nothing is compiled on demand while a batch is away.
THEOREM CompiledAreSummarized ==
  ASSUME Growing PROVE BatchSpec => []CompiledMeansSummarized
<1>1. TypeInv /\ SummaryInv => CompiledMeansSummarized
  <2> SUFFICES ASSUME TypeInv, SummaryInv, NEW d \in Docs, compiled[d] = content[d]
               PROVE  summary[d].of = content[d]
    BY DEF CompiledMeansSummarized
  <2> QED BY VersionTypes DEF SummaryInv, Reached
<1>2. TypeInv /\ SummaryInv /\ [BatchNext]_batchVars => SummaryInv'
  BY SummaryNext
<1> QED BY <1>1, <1>2, TypeInit, TypeNext, SummaryInit, PTL DEF BatchSpec

-----------------------------------------------------------------------------
(* Packs.  A rollback would give back a state between commands: so every       *)
(* command is followed path by path beside what a rollback of it would make of *)
(* the path, and what a commit, a rollback or a crash leaves is compared with  *)
(* that.                                                                       *)

Held(p) == p \in Snapped /\ entry.snaps[p]

\* What a rollback would make of a path: what it held when the command began.
Base(p) ==
  IF command.kind = "none" \/ p \notin command.covers THEN project[p]
  ELSE IF ~command.fresh THEN tempSnap[p]
  ELSE IF command.snaps[p] THEN snapshot[p] ELSE Absent

InSnapshot(p) == Held(p) /\ atStake[p] = snapshot[p].user

\* What holds between commands of a path p that holds b.
KeptAs(p, b) ==
  /\ atStake[p] \in {0, b.user} \/ (p \in Owned /\ InSnapshot(p))
  /\ p \in Owned /\ b = entry.files[p] => atStake[p] = 0 \/ InSnapshot(p)
  /\ p \in Owned /\ ~Held(p) => b.user \in {0, atStake[p]}

AllKept == \A p \in PackPaths : KeptAs(p, Base(p))

Entered ==
  /\ \A p \in Owned : ~Held(p) => entry.files[p].user = 0
  /\ \A p \in Snapped : ~entry.snaps[p] => atStake[p] = 0 \/ snapshot[p].user # atStake[p]
  /\ Config \in Snapped => Config \in Owned

TextsAreOld ==
  /\ \A p \in PackPaths : /\ project[p].user <= edits /\ snapshot[p].user <= edits
                          /\ tempSnap[p].user <= edits /\ atStake[p] <= edits
  /\ \A p \in Owned : entry.files[p].user <= edits

\* A path that the command has not written, and one that it has.
Applied(p) ==
  LET b == Base(p) IN
  /\ p \in command.covers \ Snapped =>
       /\ command.snaps[p] = (b # Absent)
       /\ b # Absent => snapshot[p] = b
  /\ IF p \in command.covers \ command.todo
     THEN IF command.mode = "replace" THEN p \in command.wrote /\ project[p] = Packed(command.version)
          ELSE /\ p = Config => p \in command.wrote
               /\ p \notin command.wrote => project[p] = b
               /\ p \in command.wrote => /\ project[p].user = b.user
                                         /\ p # Config => b = Absent
     ELSE project[p] = b /\ p \notin command.wrote

Applying ==
  command.kind = "apply" =>
    /\ command.mode \in {"merge", "replace"} /\ command.covers = Shipped[command.version]
    /\ DOMAIN command.snaps = Snapped \union command.covers
    /\ \A p \in Snapped : command.snaps[p] = entry.snaps[p]
    /\ command.fresh <=> Snapped = {}
    /\ ~command.fresh => Owned \subseteq command.covers
    /\ command.mode = "merge" /\ Config \in Snapped =>
         atStake[Config] \in {0, snapshot[Config].user}
    /\ \A p \in PackPaths : Applied(p)

Obsolete(p) == p \in Owned \ (Shipped[command.version] \union {Config})

Updated(p) ==
  LET b == Base(p) IN
  IF p \notin command.wrote
  THEN /\ project[p] = b
       /\ p \in DOMAIN command.snaps \ Snapped => p \in command.todo
  ELSE IF Obsolete(p) THEN b = entry.files[p] /\ project[p] = IF Held(p) THEN snapshot[p] ELSE Absent
  ELSE IF p \in Owned THEN b = entry.files[p] /\ project[p] = Packed(command.version)
  ELSE IF p # Config THEN b = Absent /\ project[p] = Packed(command.version)
  ELSE project[p].user = b.user

Updating ==
  command.kind = "update" =>
    /\ command.mode = "none" /\ ~command.fresh /\ entry.version # 0
    /\ command.covers = {Config} \union Shipped[command.version] \union Owned
    /\ command.todo \subseteq Shipped[command.version]
    /\ command.todo \intersect command.wrote = {}
    /\ \A p \in command.todo :
         IF p \in Owned THEN Base(p) = entry.files[p] ELSE p = Config \/ Base(p) = Absent
    /\ \A p \in command.gone : Obsolete(p) /\ p \notin command.wrote
    /\ \A p \in Snapped : p \in DOMAIN command.snaps /\ command.snaps[p] = entry.snaps[p]
    /\ \A p \in DOMAIN command.snaps \ Snapped :
         p = Config /\ Config \notin Owned /\ command.snaps[p] /\ snapshot[p] = Base(p)
    /\ Config \in (command.todo \union command.wrote) \ Owned =>
         Config \in DOMAIN command.snaps \/ Base(Config) = Absent
    /\ \A p \in PackPaths : Updated(p)

PackInv == AllKept /\ Entered /\ TextsAreOld /\ Applying /\ Updating

\* The type invariant, in the form that a proof by the steps can use.
SnapMaps == UNION {[S -> BOOLEAN] : S \in SUBSET PackPaths}
FileMaps == UNION {[S -> Contents] : S \in SUBSET PackPaths}
PackEntries == [version : {0} \union Versions, files : FileMaps, snaps : SnapMaps]
Commands == [kind : {"none", "apply", "update"}, mode : {"none", "merge", "replace"},
             version : {0} \union Versions, fresh : BOOLEAN, covers : SUBSET PackPaths,
             todo : SUBSET PackPaths, wrote : SUBSET PackPaths, gone : SUBSET PackPaths,
             skips : BOOLEAN, snaps : SnapMaps]

PackType ==
  /\ project \in [PackPaths -> Contents] /\ snapshot \in [PackPaths -> Contents]
  /\ tempSnap \in [PackPaths -> Contents]
  /\ entry \in PackEntries /\ command \in Commands
  /\ atStake \in [PackPaths -> 0..MaxEdits] /\ edits \in 0..MaxEdits
  /\ command.todo \subseteq command.covers
  /\ command.kind = "none" => command = NoCommand
  /\ command.kind # "none" => command.version \in Versions
  /\ command.kind = "update" => command.gone \subseteq command.covers
LEMMA PackConstants ==
  /\ Config \in PackPaths /\ Copied \subseteq PackPaths /\ 0 \notin Versions /\ Versions \subseteq Nat
  /\ \A p \in PackPaths : p # Config => p \in Copied
  /\ \A v \in Versions : Shipped[v] \subseteq PackPaths
  /\ Config \notin Copied /\ MaxEdits \in Nat
  /\ Absent \in Contents /\ (\A v \in Versions : Packed(v) \in Contents)
  /\ \A t \in 0..MaxEdits : Text(t) \in Contents
  BY PackAssumption DEF PackPaths, Absent, Packed, Text, Contents

LEMMA SnapMapFacts ==
  /\ \A S \in SUBSET PackPaths : [S -> BOOLEAN] \subseteq SnapMaps
  /\ \A f \in SnapMaps : DOMAIN f \subseteq PackPaths /\ \A p \in DOMAIN f : f[p] \in BOOLEAN
  BY DEF SnapMaps

LEMMA FileMapFacts ==
  /\ \A S \in SUBSET PackPaths : [S -> Contents] \subseteq FileMaps
  /\ \A f \in FileMaps : DOMAIN f \subseteq PackPaths /\ \A p \in DOMAIN f : f[p] \in Contents
  BY DEF FileMaps

LEMMA NoEntryType ==
  /\ NoEntry \in PackEntries
  /\ NoCommand \in Commands /\ NoCommand.kind = "none" /\ NoCommand.todo = {}
  /\ NoCommand.covers = {} /\ NoCommand.snaps = NoEntry.snaps
  /\ DOMAIN NoEntry.files = {} /\ DOMAIN NoEntry.snaps = {} /\ NoEntry.version = 0
<1>1. Nowhere \in FileMaps /\ [p \in {} |-> FALSE] \in SnapMaps
  <2>1. Nowhere \in [{} -> Contents] /\ [p \in {} |-> FALSE] \in [{} -> BOOLEAN]
    BY DEF Nowhere
  <2> QED BY <2>1, SnapMapFacts, FileMapFacts
<1>2. DOMAIN Nowhere = {} /\ DOMAIN [p \in {} |-> FALSE] = {}
  BY DEF Nowhere
<1> DEFINE none == [p \in {} |-> FALSE]
<1>3. NoEntry = [version |-> 0, files |-> Nowhere, snaps |-> none]
  BY DEF NoEntry
<1>4. none \in SnapMaps /\ DOMAIN none = {}
  BY <1>1, <1>2
<1> HIDE DEF none
<1>5. NoEntry.snaps = none /\ NoEntry.files = Nowhere /\ NoEntry.version = 0
  BY <1>3
<1> QED BY <1>1, <1>2, <1>3, <1>4, <1>5 DEF NoCommand, Commands, PackEntries

LEMMA PackTypeInit == PackInit => PackType
  BY PackConstants, NoEntryType DEF PackInit, PackType, PackEntries

\* A command's record, as it begins.
LEMMA BegunType ==
  ASSUME NEW kind \in {"apply", "update"}, NEW mode \in {"none", "merge", "replace"},
         NEW v \in Versions, NEW fresh \in BOOLEAN, NEW covers \in SUBSET PackPaths,
         NEW todo \in SUBSET covers, NEW gone \in SUBSET PackPaths, NEW skips \in BOOLEAN,
         NEW snaps \in SnapMaps,
         command' = [kind |-> kind, mode |-> mode, version |-> v, fresh |-> fresh,
                     covers |-> covers, todo |-> todo, wrote |-> {}, gone |-> gone,
                     skips |-> skips, snaps |-> snaps]
  PROVE  command' \in Commands
<1>1. /\ todo \in SUBSET PackPaths /\ {} \in SUBSET PackPaths /\ v \in {0} \union Versions
      /\ kind \in {"none", "apply", "update"}
  OBVIOUS
<1> QED BY <1>1 DEF Commands

LEMMA OwnedTypes ==
  ASSUME PackType
  PROVE  /\ Owned \subseteq PackPaths /\ Snapped \subseteq PackPaths
         /\ entry.files \in FileMaps /\ entry.snaps \in SnapMaps
         /\ \A p \in Owned : entry.files[p] \in Contents
         /\ \A p \in Snapped : entry.snaps[p] \in BOOLEAN
<1>1. entry.files \in FileMaps /\ entry.snaps \in SnapMaps
  BY DEF PackType, PackEntries
<1> QED BY <1>1, FileMapFacts, SnapMapFacts DEF Owned, Snapped

LEMMA OverlaidType ==
  ASSUME PackType, NEW p \in PackPaths, NEW v \in Versions, NEW mode
  PROVE  Overlaid(p, v, mode) \in Contents
<1>1. project[p] \in Contents /\ Packed(v) \in Contents
  BY PackConstants DEF PackType
<1>2. [project[p] EXCEPT !.pack = IF @ = 0 THEN v ELSE @] \in Contents
  BY <1>1 DEF Contents
<1> QED BY <1>1, <1>2 DEF Overlaid

\* A command that is under way, after a path of it is done.
LEMMA PathDone ==
  ASSUME PackType, NEW p \in PackPaths, NEW w \in SUBSET PackPaths,
         \/ command' = [command EXCEPT !.todo = @ \ {p}, !.wrote = w]
         \/ command' = [command EXCEPT !.gone = @ \ {p}, !.wrote = w]
  PROVE  /\ command' \in Commands /\ command'.kind = command.kind /\ command'.mode = command.mode
         /\ command'.version = command.version /\ command'.fresh = command.fresh
         /\ command'.covers = command.covers /\ command'.snaps = command.snaps
         /\ command'.wrote = w
         /\ command'.todo \subseteq command.todo /\ command'.gone \subseteq command.gone
<1>1. CASE command' = [command EXCEPT !.todo = @ \ {p}, !.wrote = w]
  BY <1>1 DEF PackType, Commands
<1>2. CASE command' = [command EXCEPT !.gone = @ \ {p}, !.wrote = w]
  BY <1>2 DEF PackType, Commands
<1> QED BY <1>1, <1>2

\* An update's config.yaml, unless the user changed it; and if it is to be snapshotted.
Merged(v)  == {Config} \intersect (Shipped[v] \ Modified)
Present(v) == {p \in Merged(v) \ Owned : project[p] # Absent}

LEMMA UpdateBegins ==
  ASSUME PackType, NEW v \in Versions, BeginUpdate(v)
  PROVE  /\ command' \in Commands /\ command'.kind = "update" /\ command'.mode = "none"
         /\ command'.version = v /\ command'.fresh = FALSE /\ command'.wrote = {}
         /\ command'.covers = {Config} \union Shipped[v] \union Owned
         /\ command'.todo = Copies(v) \union Merged(v)
         /\ command'.gone = Owned \ (Shipped[v] \union {Config})
         /\ command'.snaps = [p \in Snapped \union Present(v) |->
                                p \in Present(v) \/ entry.snaps[p]]
         /\ snapshot' = [p \in PackPaths |-> IF p \in Present(v) THEN project[p] ELSE snapshot[p]]
         /\ snapshot' \in [PackPaths -> Contents]
         /\ UNCHANGED <<project, entry, atStake, edits>> /\ tempSnap' = project
<1> DEFINE covers == {Config} \union Shipped[v] \union Owned
           todo == Copies(v) \union Merged(v)
           gone == Owned \ (Shipped[v] \union {Config})
           skips == Modified # {} \/ Shipped[v] \ todo # {}
           snaps == [p \in Snapped \union Present(v) |-> p \in Present(v) \/ entry.snaps[p]]
<1>1. /\ command' = [kind |-> "update", mode |-> "none", version |-> v, fresh |-> FALSE,
                     covers |-> covers, todo |-> todo, wrote |-> {}, gone |-> gone,
                     skips |-> skips, snaps |-> snaps]
      /\ snapshot' = [p \in PackPaths |-> IF p \in Present(v) THEN project[p] ELSE snapshot[p]]
      /\ UNCHANGED <<project, entry, atStake, edits>> /\ tempSnap' = project
  BY DEF BeginUpdate, NoCommand, Merged, Present
<1>2. /\ Owned \subseteq PackPaths /\ Snapped \subseteq PackPaths
      /\ \A p \in Snapped : entry.snaps[p] \in BOOLEAN
  BY OwnedTypes
<1>3. covers \in SUBSET PackPaths /\ todo \in SUBSET covers /\ gone \in SUBSET PackPaths
      /\ skips \in BOOLEAN
  BY <1>2, PackConstants DEF Copies, Merged
<1>4. snaps \in SnapMaps
  <2>1. Present(v) \subseteq PackPaths
    BY PackConstants DEF Present, Merged
  <2>2. snaps \in [Snapped \union Present(v) -> BOOLEAN]
    BY <1>2, <2>1
  <2> QED BY <1>2, <2>1, <2>2, SnapMapFacts
<1>5. snapshot' \in [PackPaths -> Contents]
  BY <1>1 DEF PackType
<1>6. /\ covers = {Config} \union Shipped[v] \union Owned
      /\ todo = Copies(v) \union Merged(v) /\ gone = Owned \ (Shipped[v] \union {Config})
      /\ snaps = [p \in Snapped \union Present(v) |-> p \in Present(v) \/ entry.snaps[p]]
  OBVIOUS
<1> HIDE DEF covers, todo, gone, skips, snaps
<1>7. command' \in Commands
  BY <1>1, <1>3, <1>4, BegunType
<1> QED BY <1>1, <1>5, <1>6, <1>7

LEMMA ApplyBegins ==
  ASSUME PackType, NEW v \in Versions, NEW mode \in {"merge", "replace"}, BeginApply(v, mode)
  PROVE  /\ command' \in Commands /\ command'.kind = "apply" /\ command'.mode = mode
         /\ command'.version = v /\ command'.fresh = (Snapped = {}) /\ command'.wrote = {}
         /\ command'.covers = Shipped[v] /\ command'.todo = Shipped[v]
         /\ DOMAIN command'.snaps = Snapped \union Shipped[v]
         /\ \A p \in Snapped : command'.snaps[p] = entry.snaps[p]
         /\ \A p \in Shipped[v] \ Snapped : command'.snaps[p] = (project[p] # Absent)
         /\ snapshot' \in [PackPaths -> Contents] /\ tempSnap' \in [PackPaths -> Contents]
         /\ \A p \in PackPaths :
              snapshot'[p] = IF p \in Shipped[v] \ Snapped /\ project[p] # Absent
                             THEN project[p] ELSE snapshot[p]
         /\ Snapped # {} => tempSnap' = project
         /\ UNCHANGED <<project, entry, atStake, edits>>
<1> DEFINE again == Snapped # {}
           from == IF again THEN entry.snaps ELSE NoEntry.snaps
           snaps == [p \in Snapped \union Shipped[v] |->
                       IF p \in Snapped THEN entry.snaps[p] ELSE project[p] # Absent]
<1>1. Extend(from, Shipped[v]) = snaps
  <2>1. CASE again
    BY <2>1 DEF Extend, Snapped
  <2>2. CASE ~again
    BY <2>2, NoEntryType DEF Extend
  <2> QED BY <2>1, <2>2
<1> HIDE DEF snaps
<1>2. /\ command' = [kind |-> "apply", mode |-> mode, version |-> v, fresh |-> ~again,
                     covers |-> Shipped[v], todo |-> Shipped[v], wrote |-> {}, gone |-> {},
                     skips |-> FALSE, snaps |-> snaps]
      /\ UNCHANGED <<project, entry, atStake, edits>>
  BY <1>1 DEF BeginApply, NoCommand
<1>3. snaps \in SnapMaps
  <2>1. snaps \in [Snapped \union Shipped[v] -> BOOLEAN]
    BY OwnedTypes DEF snaps
  <2>2. Snapped \union Shipped[v] \in SUBSET PackPaths
    BY OwnedTypes, PackConstants
  <2> QED BY <2>1, <2>2, SnapMapFacts
<1>4. snapshot' = [p \in PackPaths |->
                     IF p \in Shipped[v] \ (IF again THEN Snapped ELSE {}) /\ project[p] # Absent
                     THEN project[p] ELSE snapshot[p]]
      /\ tempSnap' = IF again THEN project ELSE tempSnap
  BY DEF BeginApply
<1>5. again \in BOOLEAN /\ {} \in SUBSET PackPaths /\ Shipped[v] \in SUBSET PackPaths
  BY PackConstants
<1>6. command' \in Commands
  BY <1>2, <1>3, <1>5, BegunType
<1>7. DOMAIN snaps = Snapped \union Shipped[v]
      /\ (\A p \in Snapped : snaps[p] = entry.snaps[p])
      /\ (\A p \in Shipped[v] \ Snapped : snaps[p] = (project[p] # Absent))
  BY DEF snaps
<1>8. snapshot' \in [PackPaths -> Contents] /\ tempSnap' \in [PackPaths -> Contents]
  BY <1>4 DEF PackType
<1> QED BY <1>2, <1>4, <1>6, <1>7, <1>8

LEMMA PackTypeNext == PackType /\ [PackNext]_packVars => PackType'
<1> SUFFICES ASSUME PackType, [PackNext]_packVars PROVE PackType'
  OBVIOUS
<1> USE PackConstants
<1>1. ASSUME NEW p \in PackPaths, Edit(p) PROVE PackType'
  <2>1. edits' \in 0..MaxEdits /\ edits' = edits + 1
    BY <1>1 DEF Edit, PackType
  <2>2. (IF p = Config THEN [project[p] EXCEPT !.user = edits'] ELSE Text(edits')) \in Contents
    <3>1. project[p] \in Contents
      BY DEF PackType
    <3>2. [project[p] EXCEPT !.user = edits'] \in Contents
      BY <2>1, <3>1 DEF Contents
    <3> QED BY <2>1, <3>2
  <2> QED BY <1>1, <2>1, <2>2 DEF Edit, PackType
<1>2. ASSUME NEW p \in PackPaths, Discard(p) PROVE PackType'
  BY <1>2 DEF Discard, PackType
<1>3. ASSUME NEW v \in Versions, NEW mode \in {"merge", "replace"}, BeginApply(v, mode)
      PROVE PackType'
  BY <1>3, ApplyBegins DEF PackType
<1>4. ASSUME NEW p \in PackPaths, WritePath(p) PROVE PackType'
  <2>1. command.kind \in {"apply", "update"} /\ command.version \in Versions
    BY <1>4, NoEntryType DEF WritePath, PackType, Commands
  <2>2. PICK mode : project' = [project EXCEPT ![p] = Overlaid(p, command.version, mode)]
    BY <1>4 DEF WritePath
  <2>3. PICK w \in SUBSET PackPaths : command' = [command EXCEPT !.todo = @ \ {p}, !.wrote = w]
    BY <1>4 DEF WritePath, PackType, Commands
  <2>4. project' \in [PackPaths -> Contents]
    BY <2>1, <2>2, OverlaidType DEF PackType
  <2> QED BY <1>4, <2>1, <2>3, <2>4, PathDone DEF WritePath, PackType
<1>5. CASE CommitApply
  <2>1. command.version \in Versions /\ command.snaps \in SnapMaps /\ command.wrote \subseteq PackPaths
    BY <1>5 DEF CommitApply, PackType, Commands
  <2>2. entry.files \in FileMaps /\ Owned \subseteq PackPaths
        /\ \A p \in Owned : entry.files[p] \in Contents
    BY OwnedTypes
  <2>3. PICK kept \in SUBSET Owned :
          entry' = [version |-> command.version, snaps |-> command.snaps,
                    files |-> [p \in kept \union command.wrote |->
                                 IF p \in command.wrote THEN project[p] ELSE entry.files[p]]]
    BY <1>5 DEF CommitApply
  <2>4. [p \in kept \union command.wrote |->
           IF p \in command.wrote THEN project[p] ELSE entry.files[p]] \in FileMaps
    <3>1. [p \in kept \union command.wrote |->
           IF p \in command.wrote THEN project[p] ELSE entry.files[p]]
             \in [kept \union command.wrote -> Contents]
      BY <2>1, <2>2 DEF PackType
    <3> QED BY <2>1, <2>2, <3>1, FileMapFacts
  <2>5. entry' \in PackEntries
    BY <2>1, <2>3, <2>4 DEF PackEntries
  <2> QED BY <1>5, <2>5, NoEntryType DEF CommitApply, PackType
<1>6. ASSUME NEW v \in Versions, BeginUpdate(v) PROVE PackType'
  <2>1. Copies(v) \subseteq {Config} \union Shipped[v] \union Owned
    BY DEF Copies
  <2>2. Merged(v) \subseteq {Config} \union Shipped[v] \union Owned
    BY DEF Merged
  <2>3. /\ command' \in Commands /\ command'.kind = "update" /\ command'.version = v
        /\ command'.covers = {Config} \union Shipped[v] \union Owned
        /\ command'.todo = Copies(v) \union Merged(v)
        /\ command'.gone = Owned \ (Shipped[v] \union {Config})
        /\ snapshot' \in [PackPaths -> Contents]
        /\ UNCHANGED <<project, entry, atStake, edits>> /\ tempSnap' = project
    BY <1>6, UpdateBegins
  <2> QED BY <2>1, <2>2, <2>3 DEF PackType
<1>7. ASSUME NEW p \in PackPaths, RestoreObsolete(p) PROVE PackType'
  <2>1. PICK w \in SUBSET PackPaths : command' = [command EXCEPT !.gone = @ \ {p}, !.wrote = w]
    <3>1. command' = [command EXCEPT !.gone = @ \ {p},
                                     !.wrote = IF p \in Modified THEN @ ELSE @ \union {p}]
      BY <1>7, Zenon DEF RestoreObsolete
    <3> QED BY <3>1 DEF PackType, Commands
  <2>2. PICK text \in {project[p], snapshot[p], Absent} :
          project' = [project EXCEPT ![p] = text]
    BY <1>7 DEF RestoreObsolete, AsBefore
  <2>3. project' \in [PackPaths -> Contents]
    BY <2>2, PackConstants DEF PackType
  <2> QED BY <1>7, <2>1, <2>3, PathDone DEF RestoreObsolete, PackType
<1>8. CASE CommitUpdate
  <2>1. /\ command.version \in Versions /\ command.snaps \in SnapMaps
        /\ command.wrote \subseteq PackPaths /\ entry.version \in {0} \union Versions
    BY <1>8 DEF CommitUpdate, PackType, Commands, PackEntries
  <2>2. entry.files \in FileMaps /\ Owned \subseteq PackPaths
        /\ \A p \in Owned : entry.files[p] \in Contents
    BY OwnedTypes
  <2>3. PICK kept \in SUBSET Owned, wrote \in SUBSET command.wrote, v \in {0} \union Versions :
          entry' = [version |-> v, snaps |-> command.snaps,
                    files |-> [p \in kept \union wrote |->
                                 IF p \in wrote THEN project[p] ELSE entry.files[p]]]
    <3> DEFINE gone == command.wrote \ (Shipped[command.version] \union {Config})
    <3>1. entry' = [version |-> IF command.skips THEN entry.version ELSE command.version,
                    snaps   |-> command.snaps,
                    files   |-> [p \in (Owned \ gone) \union (command.wrote \ gone) |->
                              IF p \in command.wrote \ gone THEN project[p] ELSE entry.files[p]]]
      BY <1>8 DEF CommitUpdate
    <3> HIDE DEF gone
    <3> QED BY <2>1, <3>1
  <2>4. [p \in kept \union wrote |-> IF p \in wrote THEN project[p] ELSE entry.files[p]] \in FileMaps
    <3>1. [p \in kept \union wrote |-> IF p \in wrote THEN project[p] ELSE entry.files[p]]
             \in [kept \union wrote -> Contents]
      BY <2>1, <2>2 DEF PackType
    <3> QED BY <2>1, <2>2, <3>1, FileMapFacts
  <2>5. entry' \in PackEntries
    BY <2>1, <2>3, <2>4 DEF PackEntries
  <2> QED BY <1>8, <2>5, NoEntryType DEF CommitUpdate, PackType
<1>9. CASE Rollback
  <2>1. project' \in [PackPaths -> Contents] /\ tempSnap' \in [PackPaths -> Contents]
        /\ snapshot' \in [PackPaths -> Contents]
    <3>1. PICK left, cut \in Unrestorable :
            project' = [p \in PackPaths |->
                          IF p \in left \/ p \notin command.covers THEN project[p]
                          ELSE IF p \in cut THEN Absent ELSE Before(p)]
      BY <1>9 DEF Rollback
    <3>2. \A p \in PackPaths : Before(p) \in Contents
      BY PackConstants DEF Before, PackType
    <3>3. /\ tempSnap' \in {tempSnap, [p \in PackPaths |-> Absent]}
          /\ snapshot' \in {snapshot, [p \in PackPaths |-> Absent]}
      BY <1>9 DEF Rollback
    <3> QED BY <3>1, <3>2, <3>3, PackConstants DEF PackType
  <2> QED BY <1>9, <2>1, NoEntryType DEF Rollback, PackType
<1>10. CASE PackCrash
  BY <1>10, NoEntryType DEF PackCrash, PackType
<1>11. CASE RemovePack
  <2>1. PICK failed \in SUBSET Owned, saved \in BOOLEAN :
       LET gone == (Restorable \union Deletable) \ failed
           all  == gone = Owned IN
       /\ project' = [p \in PackPaths |-> IF p \notin gone THEN project[p]
                                       ELSE IF p \in Restorable THEN snapshot[p] ELSE Absent]
       /\ snapshot' = IF all THEN [p \in PackPaths |-> Absent] ELSE snapshot
       /\ entry' = IF ~saved THEN entry ELSE IF all THEN NoEntry
                   ELSE [entry EXCEPT
                           !.files = [p \in Owned \ gone |-> entry.files[p]],
                           !.snaps = [p \in Snapped \ gone |-> entry.snaps[p]]]
    BY <1>11 DEF RemovePack
  <2> DEFINE gone == (Restorable \union Deletable) \ failed
             files == [p \in Owned \ gone |-> entry.files[p]]
             snaps == [p \in Snapped \ gone |-> entry.snaps[p]]
  <2>2. project' \in [PackPaths -> Contents] /\ snapshot' \in [PackPaths -> Contents]
    <3>1. PICK gone2 : project' = [p \in PackPaths |-> IF p \notin gone2 THEN project[p]
                                       ELSE IF p \in Restorable THEN snapshot[p] ELSE Absent]
      BY <2>1
    <3>2. snapshot' \in {snapshot, [p \in PackPaths |-> Absent]}
      BY <2>1
    <3> QED BY <3>1, <3>2 DEF PackType
  <2>3. files \in FileMaps /\ snaps \in SnapMaps
    <3>1. /\ Owned \subseteq PackPaths /\ Snapped \subseteq PackPaths
          /\ \A p \in Snapped : entry.snaps[p] \in BOOLEAN
          /\ \A p \in Owned : entry.files[p] \in Contents
      BY OwnedTypes
    <3>2. files \in [Owned \ gone -> Contents] /\ snaps \in [Snapped \ gone -> BOOLEAN]
      BY <3>1
    <3> HIDE DEF files, snaps
    <3> QED BY <3>1, <3>2, FileMapFacts, SnapMapFacts
  <2>4. entry' \in {entry, NoEntry, [entry EXCEPT !.files = files, !.snaps = snaps]}
    BY <2>1
  <2> HIDE DEF files, snaps
  <2>5. entry' \in PackEntries
    BY <2>3, <2>4, NoEntryType DEF PackType, PackEntries
  <2>6. UNCHANGED <<tempSnap, command, atStake, edits>>
    BY <1>11 DEF RemovePack
  <2> QED BY <2>2, <2>5, <2>6 DEF PackType
<1>12. CASE UNCHANGED packVars
  BY <1>12 DEF packVars, PackType
<1> QED BY <1>1, <1>2, <1>3, <1>4, <1>5, <1>6, <1>7, <1>8, <1>9, <1>10, <1>11, <1>12 DEF PackNext

LEMMA PackInvInit == PackInit => PackInv
<1> SUFFICES ASSUME PackInit PROVE PackInv
  OBVIOUS
<1>1. /\ \A p \in PackPaths : project[p] = Absent /\ snapshot[p] = Absent /\ tempSnap[p] = Absent
                              /\ atStake[p] = 0
      /\ Owned = {} /\ Snapped = {} /\ edits = 0 /\ command.kind = "none"
  BY NoEntryType DEF PackInit, Owned, Snapped
<1> QED BY <1>1 DEF PackInv, AllKept, KeptAs, Base, Entered, TextsAreOld, Applying, Updating,
           Absent

\* The texts are numbers.
LEMMA PackNumbers ==
  ASSUME PackType
  PROVE  /\ edits \in Nat /\ \A p \in PackPaths : /\ atStake[p] \in Nat /\ project[p] \in Contents
                             /\ snapshot[p] \in Contents /\ tempSnap[p] \in Contents
                             /\ project[p].user \in Nat /\ snapshot[p].user \in Nat
                             /\ tempSnap[p].user \in Nat
         /\ \A p \in Owned : entry.files[p] \in Contents /\ entry.files[p].user \in Nat
<1>1. \A c \in Contents : c.user \in Nat
  BY PackConstants DEF Contents
<1>2. \A n \in 0..MaxEdits : n \in Nat
  BY PackConstants
<1> QED BY <1>1, <1>2, OwnedTypes DEF PackType

LEMMA AbsentUser == Absent.user = 0 /\ (\A v : Packed(v).user = 0) /\ \A t : Text(t).user = t
  BY DEF Absent, Packed, Text

\* A command that writes a path leaves the rest as it was, and what a rollback would do.
LEMMA BaseStands ==
  ASSUME PackType, PackInv, NEW p \in command.covers,
         command'.kind = command.kind, command.kind # "none",
         command'.covers = command.covers, command'.fresh = command.fresh,
         command'.snaps = command.snaps, UNCHANGED <<entry, tempSnap, snapshot, atStake, edits>>,
         \A q \in PackPaths \ {p} : project'[q] = project[q]
  PROVE  /\ \A q \in PackPaths : Base(q)' = Base(q)
         /\ AllKept' /\ Entered' /\ Owned' = Owned /\ Snapped' = Snapped
         /\ \A q \in PackPaths : Held(q)' <=> Held(q)
<1>1. \A q \in PackPaths : Base(q)' = Base(q)
  BY DEF Base
<1>2. Owned' = Owned /\ Snapped' = Snapped
  BY DEF Owned, Snapped
<1>3. \A q \in PackPaths : Held(q)' <=> Held(q)
  BY <1>2 DEF Held
<1>4. \A q \in PackPaths : InSnapshot(q)' <=> InSnapshot(q)
  BY <1>3 DEF InSnapshot
<1>5. AllKept'
  <2> SUFFICES ASSUME NEW q \in PackPaths PROVE KeptAs(q, Base(q))'
    BY DEF AllKept
  <2>1. KeptAs(q, Base(q))
    BY DEF PackInv, AllKept
  <2> QED BY <1>1, <1>2, <1>3, <1>4, <2>1 DEF KeptAs
<1>6. Entered'
  BY <1>2, <1>3, OwnedTypes DEF PackInv, Entered
<1> QED BY <1>1, <1>2, <1>3, <1>5, <1>6

LEMMA PathWritten ==
  ASSUME PackType, NEW p \in PackPaths, WritePath(p)
  PROVE  \E mode \in {"none", "merge", "replace"} :
           /\ mode = IF command.kind = "apply" THEN command.mode
                     ELSE IF p \in Owned \union Copied THEN "replace" ELSE "merge"
           /\ project'[p] = Overlaid(p, command.version, mode)
           /\ p \in command'.wrote <=>
                p \in command.wrote \/ ~(mode = "merge" /\ p # Config /\ project[p] # Absent)
           /\ \A q \in PackPaths \ {p} : /\ project'[q] = project[q]
                                         /\ q \in command'.wrote <=> q \in command.wrote
           /\ p \in command.todo /\ p \in command.covers /\ command.kind \in {"apply", "update"}
           /\ command.version \in Versions
           /\ command'.kind = command.kind /\ command'.mode = command.mode
           /\ command'.version = command.version /\ command'.fresh = command.fresh
           /\ command'.covers = command.covers /\ command'.snaps = command.snaps
           /\ command'.todo = command.todo \ {p} /\ command'.gone = command.gone
           /\ UNCHANGED <<entry, tempSnap, snapshot, atStake, edits>>
<1> DEFINE mode == IF command.kind = "apply" THEN command.mode
                   ELSE IF p \in Owned \union Copied THEN "replace" ELSE "merge"
           w == IF mode = "merge" /\ p # Config /\ project[p] # Absent
                THEN command.wrote ELSE command.wrote \union {p}
           over == Overlaid(p, command.version, mode)
<1>1. /\ command' = [command EXCEPT !.todo = @ \ {p}, !.wrote = w]
      /\ project' = [project EXCEPT ![p] = over] /\ p \in command.todo
      /\ UNCHANGED <<entry, tempSnap, snapshot, atStake, edits>>
  BY DEF WritePath, PackType, Commands
<1>2. /\ mode \in {"none", "merge", "replace"} /\ p \in command.covers
      /\ command.kind \in {"apply", "update"} /\ command.version \in Versions
  BY <1>1, NoEntryType DEF PackType, Commands
<1>3. mode = IF command.kind = "apply" THEN command.mode
                   ELSE IF p \in Owned \union Copied THEN "replace" ELSE "merge"
  OBVIOUS
<1>4. over = Overlaid(p, command.version, mode)
  OBVIOUS
<1>5. w = IF mode = "merge" /\ p # Config /\ project[p] # Absent
                THEN command.wrote ELSE command.wrote \union {p}
  OBVIOUS
<1> HIDE DEF mode, w, over
<1>6. /\ command'.kind = command.kind /\ command'.mode = command.mode
      /\ command'.version = command.version /\ command'.fresh = command.fresh
      /\ command'.covers = command.covers /\ command'.snaps = command.snaps
      /\ command'.todo = command.todo \ {p} /\ command'.gone = command.gone
      /\ command'.wrote = w
  BY <1>1 DEF PackType, Commands
<1>7. project'[p] = over /\ \A q \in PackPaths \ {p} : project'[q] = project[q]
  BY <1>1 DEF PackType
<1>8. /\ p \in command'.wrote <=>
                p \in command.wrote \/ ~(mode = "merge" /\ p # Config /\ project[p] # Absent)
      /\ \A q \in PackPaths \ {p} : q \in command'.wrote <=> q \in command.wrote
  BY <1>5, <1>6
<1> QED BY <1>1, <1>2, <1>3, <1>4, <1>6, <1>7, <1>8

LEMMA OverlaidUser ==
  ASSUME PackType, NEW p \in PackPaths, NEW v \in Versions, NEW mode
  PROVE  /\ Overlaid(p, v, mode).user \in {0, project[p].user}
         /\ mode = "replace" => Overlaid(p, v, mode) = Packed(v)
         /\ project[p] = Absent => Overlaid(p, v, mode) = Packed(v)
         /\ mode # "replace" => Overlaid(p, v, mode).user = project[p].user
         /\ mode # "replace" /\ p # Config /\ project[p] # Absent =>
              Overlaid(p, v, mode) = project[p]
<1>1. project[p] \in Contents
  BY DEF PackType
<1>2. [project[p] EXCEPT !.pack = IF @ = 0 THEN v ELSE @].user = project[p].user
  BY <1>1 DEF Contents
<1> QED BY <1>1, <1>2, AbsentUser DEF Overlaid

LEMMA WriteKeeps ==
  ASSUME PackType, PackInv, NEW p \in PackPaths, WritePath(p)
  PROVE  PackInv'
<1>1. PICK mode \in {"none", "merge", "replace"} :
           /\ mode = IF command.kind = "apply" THEN command.mode
                     ELSE IF p \in Owned \union Copied THEN "replace" ELSE "merge"
           /\ project'[p] = Overlaid(p, command.version, mode)
           /\ p \in command'.wrote <=>
                p \in command.wrote \/ ~(mode = "merge" /\ p # Config /\ project[p] # Absent)
           /\ \A q \in PackPaths \ {p} : /\ project'[q] = project[q]
                                         /\ q \in command'.wrote <=> q \in command.wrote
           /\ p \in command.todo /\ p \in command.covers /\ command.kind \in {"apply", "update"}
           /\ command.version \in Versions
           /\ command'.kind = command.kind /\ command'.mode = command.mode
           /\ command'.version = command.version /\ command'.fresh = command.fresh
           /\ command'.covers = command.covers /\ command'.snaps = command.snaps
           /\ command'.todo = command.todo \ {p} /\ command'.gone = command.gone
           /\ UNCHANGED <<entry, tempSnap, snapshot, atStake, edits>>
  BY PathWritten
<1>2. /\ \A q \in PackPaths : Base(q)' = Base(q)
      /\ AllKept' /\ Entered' /\ Owned' = Owned /\ Snapped' = Snapped
      /\ \A q \in PackPaths : Held(q)' <=> Held(q)
  BY <1>1, BaseStands
<1>3. /\ project'[p].user \in {0, project[p].user}
      /\ mode = "replace" => project'[p] = Packed(command.version)
      /\ project[p] = Absent => project'[p] = Packed(command.version)
      /\ mode # "replace" => project'[p].user = project[p].user
      /\ mode # "replace" /\ p # Config /\ project[p] # Absent => project'[p] = project[p]
  BY <1>1, OverlaidUser
<1>4. TextsAreOld'
  <2>1. \A q \in PackPaths : project'[q].user \in {0, project[q].user}
    BY <1>1, <1>3
  <2> QED BY <1>1, <1>2, <2>1, PackNumbers DEF PackInv, TextsAreOld
<1>5. Applying'
  <2> SUFFICES ASSUME command.kind = "apply" PROVE Applying'
    BY <1>1 DEF Applying
  <2>1. Applying /\ mode = command.mode /\ mode \in {"merge", "replace"}
    BY <1>1 DEF PackInv, Applying
  <2>2. \A q \in PackPaths : Applied(q)'
    <3>1. ASSUME NEW q \in PackPaths \ {p} PROVE Applied(q)'
      <4>1. Applied(q)
        BY <2>1 DEF Applying
      <4> QED BY <1>1, <1>2, <4>1 DEF Applied
    <3>2. Applied(p)'
      <4>1. Applied(p)
        BY <2>1 DEF Applying
      <4>2. project[p] = Base(p) /\ p \notin command.wrote
        BY <1>1, <4>1 DEF Applied
      <4> QED BY <1>1, <1>2, <1>3, <2>1, <4>1, <4>2 DEF Applied
    <3> QED BY <3>1, <3>2
  <2> QED BY <1>1, <1>2, <2>1, <2>2 DEF Applying
<1>6. Updating'
  <2> SUFFICES ASSUME command.kind = "update" PROVE Updating'
    BY <1>1 DEF Updating
  <2>1. Updating /\ mode = IF p \in Owned \union Copied THEN "replace" ELSE "merge"
    BY <1>1 DEF PackInv, Updating
  <2>2. \A q \in PackPaths : Obsolete(q)' <=> Obsolete(q)
    BY <1>1, <1>2 DEF Obsolete
  <2>3. \A q \in PackPaths : Updated(q)'
    <3>1. ASSUME NEW q \in PackPaths \ {p} PROVE Updated(q)'
      <4>1. Updated(q)
        BY <2>1 DEF Updating
      <4> QED BY <1>1, <1>2, <2>2, <4>1 DEF Updated
    <3>2. Updated(p)'
      <4>1. Updated(p) /\ p \notin command.wrote
            /\ (IF p \in Owned THEN Base(p) = entry.files[p] ELSE p = Config \/ Base(p) = Absent)
            /\ p \in Shipped[command.version]
        BY <1>1, <2>1 DEF Updating
      <4>2. project[p] = Base(p) /\ ~Obsolete(p)
        BY <4>1 DEF Updated, Obsolete
      <4>3. p \in command'.wrote
        BY <1>1, <2>1, PackConstants
      <4> QED BY <1>1, <1>2, <1>3, <2>1, <2>2, <4>1, <4>2, <4>3, PackConstants DEF Updated
    <3> QED BY <3>1, <3>2
  <2>4. /\ command'.todo \subseteq Shipped[command'.version]
        /\ command'.todo \intersect command'.wrote = {}
        /\ \A q \in command'.gone : Obsolete(q)' /\ q \notin command'.wrote
    <3>1. \A q \in command.todo \union command.gone : q \in PackPaths
      BY DEF PackType, Commands
    <3>2. p \notin command.gone
      BY <1>1, <2>1 DEF Updating, Obsolete
    <3> QED BY <1>1, <2>1, <2>2, <3>1, <3>2 DEF Updating
  <2>5. \A q \in command'.todo : q \in PackPaths
    BY <1>1 DEF PackType, Commands
  <2>6. \A q \in DOMAIN command.snaps \ Snapped : q \in PackPaths
    BY <2>1, PackConstants DEF Updating
  <2>7. Config \in (command'.todo \union command'.wrote) \ Owned =>
          Config \in DOMAIN command.snaps \/ Base(Config) = Absent
    BY <1>1, <2>1, PackConstants DEF Updating
  <2> QED BY <1>1, <1>2, <2>1, <2>3, <2>4, <2>5, <2>6, <2>7, PackConstants DEF Updating
<1> QED BY <1>2, <1>4, <1>5, <1>6 DEF PackInv

\* The user writes between commands.
LEMMA UserKeeps ==
  ASSUME PackType, PackInv, PackType', NEW p \in PackPaths, Edit(p) \/ Discard(p)
  PROVE  PackInv'
<1>1. /\ command.kind = "none" /\ command'.kind = "none"
      /\ UNCHANGED <<entry, snapshot, tempSnap, command>>
      /\ \A q \in PackPaths \ {p} : project'[q] = project[q] /\ atStake'[q] = atStake[q]
  BY NoEntryType DEF Edit, Discard, Idle, PackType
<1>2. \/ /\ edits' = edits + 1 /\ atStake'[p] = edits' /\ project'[p].user = edits'
      \/ /\ edits' = edits /\ atStake'[p] = 0 /\ project'[p] = Absent
  <2>1. CASE Edit(p)
    <3>1. /\ edits' = edits + 1 /\ atStake' = [atStake EXCEPT ![p] = edits']
          /\ project' = [project EXCEPT ![p] = IF p = Config THEN [@ EXCEPT !.user = edits'] ELSE Text(edits')]
      BY <2>1 DEF Edit
    <3>2. project[p] \in Contents
      BY DEF PackType
    <3>3. [project[p] EXCEPT !.user = edits'].user = edits'
      BY <3>2 DEF Contents
    <3> QED BY <3>1, <3>3, AbsentUser DEF PackType
  <2>2. CASE Discard(p)
    BY <2>2 DEF Discard, PackType
  <2> QED BY <2>1, <2>2
<1>3. Owned' = Owned /\ Snapped' = Snapped
  BY <1>1 DEF Owned, Snapped
<1>4. \A q \in PackPaths : /\ Held(q)' <=> Held(q)
                           /\ Base(q) = project[q] /\ Base(q)' = project'[q]
  BY <1>1, <1>3 DEF Held, Base
<1>5. TextsAreOld'
  BY <1>1, <1>2, <1>3, PackNumbers, OwnedTypes, AbsentUser DEF PackInv, TextsAreOld
<1>6. AllKept'
  <2>1. ASSUME NEW q \in PackPaths \ {p} PROVE KeptAs(q, Base(q))'
    <3>1. KeptAs(q, Base(q))
      BY DEF PackInv, AllKept
    <3>2. InSnapshot(q)' <=> InSnapshot(q)
      BY <1>1, <1>4 DEF InSnapshot
    <3> QED BY <1>1, <1>3, <1>4, <3>1, <3>2 DEF KeptAs
  <2>2. KeptAs(p, Base(p))'
    <3>1. p \in Owned => entry.files[p].user <= edits /\ entry.files[p].user \in Nat
      BY PackNumbers DEF PackInv, TextsAreOld
    <3> QED BY <1>1, <1>2, <1>3, <1>4, <3>1, PackNumbers, AbsentUser DEF KeptAs
  <2> QED BY <2>1, <2>2 DEF AllKept
<1>7. Entered'
  <2>1. \A q \in PackPaths : snapshot[q].user <= edits /\ snapshot[q].user \in Nat /\ edits \in Nat
    BY PackNumbers DEF PackInv, TextsAreOld
  <2> QED BY <1>1, <1>2, <1>3, <1>4, <2>1, OwnedTypes DEF PackInv, Entered
<1> QED BY <1>1, <1>5, <1>6, <1>7 DEF PackInv, Applying, Updating

LEMMA RestoreKeeps ==
  ASSUME PackType, PackInv, PackRaces = {}, NEW p \in PackPaths, RestoreObsolete(p)
  PROVE  PackInv'
<1>1. /\ command.kind = "update" /\ command.todo = {} /\ p \in command.gone
      /\ UNCHANGED <<entry, snapshot, tempSnap, atStake, edits>>
      /\ p \in command.covers
  BY DEF RestoreObsolete, PackType
<1>2. /\ command'.kind = command.kind /\ command'.mode = command.mode
      /\ command'.version = command.version /\ command'.fresh = command.fresh
      /\ command'.covers = command.covers /\ command'.snaps = command.snaps
      /\ command'.todo = command.todo /\ command'.gone = command.gone \ {p}
      /\ command'.wrote = IF p \in Modified THEN command.wrote ELSE command.wrote \union {p}
  BY DEF RestoreObsolete, PackType, Commands
<1>3. /\ \A q \in PackPaths \ {p} : project'[q] = project[q]
      /\ project'[p] = IF p \in Modified THEN project[p]
                       ELSE IF Held(p) THEN snapshot[p] ELSE Absent
  BY DEF RestoreObsolete, AsBefore, PackType, Held
<1>4. /\ \A q \in PackPaths : Base(q)' = Base(q)
      /\ AllKept' /\ Entered' /\ Owned' = Owned /\ Snapped' = Snapped
      /\ \A q \in PackPaths : Held(q)' <=> Held(q)
  BY <1>1, <1>2, <1>3, BaseStands
<1>5. TextsAreOld'
  BY <1>1, <1>3, <1>4, PackNumbers, AbsentUser DEF PackInv, TextsAreOld
<1>6. Updating /\ Obsolete(p) /\ p \notin command.wrote /\ Updated(p)
  BY <1>1 DEF PackInv, Updating
<1>7. p \in Owned /\ p # Config /\ project[p] = Base(p)
  BY <1>6 DEF Obsolete, Updated
<1>8. \A q \in PackPaths : Obsolete(q)' <=> Obsolete(q)
  BY <1>2, <1>4 DEF Obsolete
<1>9. \A q \in PackPaths : Updated(q)'
  <2>1. ASSUME NEW q \in PackPaths \ {p} PROVE Updated(q)'
    <3>1. Updated(q)
      BY <1>1, <1>6 DEF Updating
    <3> QED BY <1>1, <1>2, <1>3, <1>4, <1>8, <3>1 DEF Updated
  <2>2. Updated(p)'
    <3>1. p \notin DOMAIN command.snaps \ Snapped
      BY <1>1, <1>6, <1>7 DEF Updating
    <3> QED BY <1>1, <1>2, <1>3, <1>4, <1>6, <1>7, <1>8, <3>1 DEF Updated, Modified
  <2> QED BY <2>1, <2>2
<1>10. Updating'
  <2>1. \A q \in command.gone : q \in PackPaths
    BY DEF PackType, Commands
  <2>2. \A q \in DOMAIN command.snaps \ Snapped : q \in PackPaths
    BY <1>1, <1>6, PackConstants DEF Updating
  <2>3. Config \in (command'.todo \union command'.wrote) \ Owned =>
          Config \in DOMAIN command.snaps \/ Base(Config) = Absent
    BY <1>1, <1>2, <1>6, <1>7 DEF Updating
  <2> QED BY <1>1, <1>2, <1>4, <1>6, <1>8, <1>9, <2>1, <2>2, <2>3, PackConstants DEF Updating
<1>11. Applying'
  BY <1>1, <1>2 DEF Applying
<1> QED BY <1>4, <1>5, <1>10, <1>11 DEF PackInv

LEMMA ApplyBeginKeeps ==
  ASSUME PackType, PackInv, NEW v \in Versions, NEW mode \in {"merge", "replace"},
         PackRaces = {}, BeginApply(v, mode)
  PROVE  PackInv'
<1>1. /\ command' \in Commands /\ command'.kind = "apply" /\ command'.mode = mode
      /\ command'.version = v /\ command'.fresh = (Snapped = {}) /\ command'.wrote = {}
      /\ command'.covers = Shipped[v] /\ command'.todo = Shipped[v]
      /\ DOMAIN command'.snaps = Snapped \union Shipped[v]
      /\ \A p \in Snapped : command'.snaps[p] = entry.snaps[p]
      /\ \A p \in Shipped[v] \ Snapped : command'.snaps[p] = (project[p] # Absent)
      /\ \A p \in PackPaths :
           snapshot'[p] = IF p \in Shipped[v] \ Snapped /\ project[p] # Absent
                          THEN project[p] ELSE snapshot[p]
      /\ Snapped # {} => tempSnap' = project
      /\ UNCHANGED <<project, entry, atStake, edits>>
  BY ApplyBegins
<1>2. /\ command.kind = "none"
      /\ Snapped # {} /\ mode = "merge" => atStake[Config] \in {0, snapshot[Config].user}
      /\ Snapped # {} => Owned \subseteq Shipped[v]
  BY NoEntryType DEF BeginApply, Idle
<1>3. Owned' = Owned /\ Snapped' = Snapped /\ Owned \subseteq PackPaths /\ Snapped \subseteq PackPaths
      /\ Shipped[v] \subseteq PackPaths
  BY <1>1, OwnedTypes, PackConstants DEF Owned, Snapped
<1>4. \A p \in PackPaths : Held(p)' <=> Held(p)
  BY <1>1, <1>3 DEF Held
<1>5. \A p \in Snapped : snapshot'[p] = snapshot[p]
  BY <1>1, <1>3
<1>6. \A p \in PackPaths : Base(p) = project[p] /\ Base(p)' = project[p]
  BY <1>1, <1>2 DEF Base
<1>7. \A p \in PackPaths : InSnapshot(p)' <=> InSnapshot(p)
  BY <1>1, <1>4, <1>5 DEF InSnapshot, Held
<1>8. AllKept'
  BY <1>1, <1>3, <1>4, <1>6, <1>7 DEF PackInv, AllKept, KeptAs
<1>9. Entered'
  BY <1>1, <1>3, <1>4, <1>5 DEF PackInv, Entered
<1>10. TextsAreOld'
  <2>1. tempSnap' \in {project, tempSnap}
    BY DEF BeginApply
  <2> QED BY <1>1, <1>3, <2>1 DEF PackInv, TextsAreOld
<1>11. \A p \in PackPaths : Applied(p)'
  BY <1>1, <1>3, <1>6 DEF Applied
<1>12. Applying'
  BY <1>1, <1>2, <1>3, <1>5, <1>11 DEF Applying
<1>13. Updating'
  BY <1>1 DEF Updating
<1> QED BY <1>8, <1>9, <1>10, <1>12, <1>13 DEF PackInv

LEMMA UpdateBeginKeeps ==
  ASSUME PackType, PackInv, NEW v \in Versions, BeginUpdate(v)
  PROVE  PackInv'
<1>1. /\ command'.kind = "update" /\ command'.mode = "none"
      /\ command'.version = v /\ command'.fresh = FALSE /\ command'.wrote = {}
      /\ command'.covers = {Config} \union Shipped[v] \union Owned
      /\ command'.todo = Copies(v) \union Merged(v)
      /\ command'.gone = Owned \ (Shipped[v] \union {Config})
      /\ command'.snaps = [p \in Snapped \union Present(v) |->
                             p \in Present(v) \/ entry.snaps[p]]
      /\ snapshot' = [p \in PackPaths |-> IF p \in Present(v) THEN project[p] ELSE snapshot[p]]
      /\ UNCHANGED <<project, entry, atStake, edits>> /\ tempSnap' = project
  BY UpdateBegins
<1>2. command.kind = "none" /\ entry.version # 0
  BY NoEntryType DEF BeginUpdate, Idle
<1>3. Owned' = Owned /\ Snapped' = Snapped /\ Owned \subseteq PackPaths /\ Snapped \subseteq PackPaths
      /\ Shipped[v] \subseteq PackPaths
  BY <1>1, OwnedTypes, PackConstants DEF Owned, Snapped
<1>4. Present(v) \subseteq {Config} \ Owned /\ Present(v) \intersect Snapped = {}
  BY DEF Present, Merged, PackInv, Entered
<1>5. \A p \in PackPaths : Held(p)' <=> Held(p)
  BY <1>1, <1>3 DEF Held
<1>6. /\ \A p \in PackPaths : p \notin Present(v) => snapshot'[p] = snapshot[p]
      /\ \A p \in Present(v) : p = Config /\ snapshot'[p] = project[p]
      /\ DOMAIN command'.snaps = Snapped \union Present(v)
      /\ \A p \in Snapped : command'.snaps[p] = entry.snaps[p]
      /\ \A p \in Present(v) : command'.snaps[p]
  BY <1>1, <1>4, OwnedTypes, PackConstants
<1>7. \A p \in PackPaths : Base(p) = project[p] /\ Base(p)' = project[p]
  BY <1>1, <1>2 DEF Base
<1>8. \A p \in PackPaths : InSnapshot(p)' <=> InSnapshot(p)
  BY <1>1, <1>4, <1>5, <1>6 DEF InSnapshot, Held
<1>9. AllKept'
  BY <1>1, <1>3, <1>5, <1>7, <1>8 DEF PackInv, AllKept, KeptAs
<1>10. Entered'
  BY <1>1, <1>3, <1>4, <1>5, <1>6 DEF PackInv, Entered
<1>11. TextsAreOld'
  BY <1>1, <1>3, <1>4, <1>6 DEF PackInv, TextsAreOld
<1>12. \A p \in PackPaths : Updated(p)'
  BY <1>1, <1>3, <1>6, <1>7 DEF Updated, Present
<1>13. \A p \in command'.todo :
         /\ p \in PackPaths /\ p \in Shipped[v]
         /\ IF p \in Owned THEN project[p] = entry.files[p] ELSE p = Config \/ project[p] = Absent
  BY <1>1, <1>3, PackConstants DEF Copies, Merged, Modified
<1>14. \A p \in command'.gone : Obsolete(p)'
  BY <1>1, <1>3 DEF Obsolete
<1>15. Updating'
  <2>1. Config \in command'.todo \ Owned => Config \in Present(v) \/ project[Config] = Absent
    BY <1>1, PackConstants DEF Copies, Merged, Present
  <2> QED BY <1>1, <1>2, <1>3, <1>4, <1>6, <1>7, <1>12, <1>13, <1>14, <2>1, PackConstants DEF
             Updating
<1>16. Applying'
  BY <1>1 DEF Applying
<1> QED BY <1>9, <1>10, <1>11, <1>15, <1>16 DEF PackInv

\* What a command leaves when it goes back: what held before it.
LEMMA RollbackKeeps ==
  ASSUME PackType, PackInv, PackRaces = {}, Rollback
  PROVE  PackInv'
<1>1. /\ command.kind # "none" /\ command'.kind = "none" /\ UNCHANGED <<entry, atStake, edits>>
      /\ \A p \in PackPaths : project'[p] = Base(p)
      /\ tempSnap' \in {tempSnap, [p \in PackPaths |-> Absent]}
      /\ snapshot' = IF command.fresh THEN [p \in PackPaths |-> Absent] ELSE snapshot
  BY NoEntryType DEF Rollback, Unrestorable, Before, Base
<1>2. Owned' = Owned /\ Snapped' = Snapped
  BY <1>1 DEF Owned, Snapped
<1>3. command.fresh => Snapped = {}
  BY <1>1 DEF PackInv, Applying, Updating, PackType, Commands
<1>4. \A p \in Snapped : snapshot'[p] = snapshot[p]
  BY <1>1, <1>3
<1>5. \A p \in PackPaths : Held(p)' <=> Held(p)
  BY <1>1, <1>2 DEF Held
<1>6. \A p \in PackPaths : InSnapshot(p)' <=> InSnapshot(p)
  BY <1>1, <1>4, <1>5 DEF InSnapshot, Held
<1>7. \A p \in PackPaths : Base(p)' = Base(p)
  BY <1>1 DEF Base
<1>8. AllKept'
  BY <1>1, <1>2, <1>5, <1>6, <1>7 DEF PackInv, AllKept, KeptAs
<1>9. Entered'
  BY <1>1, <1>2, <1>4, <1>5, OwnedTypes DEF PackInv, Entered
<1>10. TextsAreOld'
  <2>1. \A p \in PackPaths : Base(p).user <= edits /\ Absent.user <= edits
    BY PackNumbers, AbsentUser DEF PackInv, TextsAreOld, Base
  <2>2. \A p \in PackPaths : tempSnap'[p].user <= edits /\ snapshot'[p].user <= edits
    BY <1>1, <2>1 DEF PackInv, TextsAreOld
  <2> QED BY <1>1, <1>2, <2>1, <2>2 DEF PackInv, TextsAreOld
<1> QED BY <1>1, <1>8, <1>9, <1>10 DEF PackInv, Applying, Updating

\* What a command that dies leaves, unless it was replacing files.
LEMMA CrashKeeps ==
  ASSUME PackType, PackInv, PackRaces = {}, PackCrash
  PROVE  PackInv'
<1>1. /\ command.kind # "none" /\ command.mode # "replace" /\ command'.kind = "none"
      /\ tempSnap' = [p \in PackPaths |-> Absent]
      /\ UNCHANGED <<project, entry, snapshot, atStake, edits>>
  BY NoEntryType DEF PackCrash
<1>2. Owned' = Owned /\ Snapped' = Snapped
  BY <1>1 DEF Owned, Snapped
<1>3. \A p \in PackPaths : /\ Held(p)' <=> Held(p)
                           /\ InSnapshot(p)' <=> InSnapshot(p)
                           /\ Base(p)' = project[p]
  BY <1>1, <1>2 DEF Held, InSnapshot, Base
<1>4. ASSUME NEW p \in PackPaths PROVE KeptAs(p, Base(p))'
  <2> DEFINE b == Base(p)
  <2>1. KeptAs(p, b)
    BY DEF PackInv, AllKept
  <2>2. CASE project[p] = b
    BY <1>1, <1>2, <1>3, <2>1, <2>2 DEF KeptAs
  <2>3. CASE command.kind = "apply" /\ project[p] # b
    <3>1. Applying /\ command.mode = "merge"
      BY <1>1, <2>3 DEF PackInv, Applying
    <3>2. Applied(p)
      BY <2>3, <3>1 DEF Applying
    <3>3. p \in command.wrote /\ project[p].user = b.user /\ (p # Config => b = Absent)
      BY <2>3, <3>1, <3>2 DEF Applied
    <3>4. p \in Owned /\ project[p] = entry.files[p] => atStake[p] = 0 \/ InSnapshot(p)
      <4> SUFFICES ASSUME p \in Owned, project[p] = entry.files[p], atStake[p] # 0, ~InSnapshot(p)
                   PROVE  FALSE
        OBVIOUS
      <4>1. atStake[p] = b.user
        BY <2>1 DEF KeptAs
      <4>2. p = Config
        BY <3>3, <4>1, AbsentUser
      <4>3. Held(p)
        BY <3>3, <4>1 DEF PackInv, Entered
      <4>4. atStake[Config] \in {0, snapshot[Config].user}
        BY <2>3, <3>1, <4>2, <4>3 DEF Applying, Held
      <4> QED BY <4>2, <4>3, <4>4 DEF InSnapshot
    <3> HIDE DEF b
    <3> QED BY <1>1, <1>2, <1>3, <2>1, <3>3, <3>4 DEF KeptAs
  <2>4. CASE command.kind = "update" /\ project[p] # b
    <3>1. Updated(p)
      BY <2>4 DEF PackInv, Updating
    <3>2. CASE p \in Owned
      <4>1. b = entry.files[p] /\ (Obsolete(p) => project[p] = IF Held(p) THEN snapshot[p] ELSE Absent)
            /\ (~Obsolete(p) => project[p] = Packed(command.version))
        BY <2>4, <3>1, <3>2 DEF Updated
      <4>2. atStake[p] = 0 \/ InSnapshot(p)
        BY <2>1, <3>2, <4>1 DEF KeptAs
      <4>3. ~Held(p) => project[p].user = 0
        BY <4>1, AbsentUser
      <4> QED BY <1>1, <1>2, <1>3, <3>2, <4>2, <4>3 DEF KeptAs
    <3>3. CASE p \notin Owned
      <4>1. ~Obsolete(p)
        BY <3>3 DEF Obsolete
      <4>2. project[p].user = b.user
        BY <2>4, <3>1, <3>3, <4>1, AbsentUser DEF Updated
      <4> HIDE DEF b
      <4> QED BY <1>1, <1>2, <1>3, <2>1, <3>3, <4>2 DEF KeptAs
    <3> QED BY <3>2, <3>3
  <2>5. command.kind \in {"apply", "update"}
    BY <1>1 DEF PackType, Commands
  <2> QED BY <2>2, <2>3, <2>4, <2>5
<1>5. AllKept'
  BY <1>4 DEF AllKept
<1>6. Entered'
  BY <1>1, <1>2, <1>3, OwnedTypes DEF PackInv, Entered
<1>7. TextsAreOld'
  BY <1>1, <1>2, PackNumbers, AbsentUser DEF PackInv, TextsAreOld
<1> QED BY <1>1, <1>5, <1>6, <1>7 DEF PackInv, Applying, Updating

\* pack remove.
LEMMA RemoveKeeps ==
  ASSUME PackType, PackInv, PackRaces = {}, RemovePack
  PROVE  PackInv'
<1> DEFINE may == Restorable \union Deletable
<1>1. PICK failed \in SUBSET Owned :
        /\ project' = [p \in PackPaths |-> IF p \notin may \ failed THEN project[p]
                                           ELSE IF p \in Restorable THEN snapshot[p] ELSE Absent]
        /\ snapshot' = IF may \ failed = Owned THEN [p \in PackPaths |-> Absent] ELSE snapshot
        /\ entry' = IF may \ failed = Owned THEN NoEntry
                    ELSE [entry EXCEPT
                           !.files = [p \in Owned \ (may \ failed) |-> entry.files[p]],
                           !.snaps = [p \in Snapped \ (may \ failed) |-> entry.snaps[p]]]
  BY DEF RemovePack
<1> DEFINE gone == may \ failed
<1>2. command.kind = "none" /\ UNCHANGED <<tempSnap, command, atStake, edits>>
  BY NoEntryType DEF RemovePack, Idle
<1>3. \A p \in PackPaths : Base(p) = project[p] /\ Base(p)' = project'[p]
  BY <1>2 DEF Base
<1>4. gone \subseteq Owned /\ Owned \subseteq PackPaths /\ Snapped \subseteq PackPaths
  BY OwnedTypes DEF Restorable, Deletable
<1>5. \A p \in PackPaths :
        /\ p \notin gone => project'[p] = project[p]
        /\ p \in gone => project'[p] = IF p \in Restorable THEN snapshot[p] ELSE Absent
  BY <1>1
<1>6. \A p \in gone : atStake[p] \in {0, project'[p].user}
  <2> SUFFICES ASSUME NEW p \in gone, atStake[p] # 0 PROVE atStake[p] = project'[p].user
    OBVIOUS
  <2>1. p \in PackPaths /\ p \in Owned /\ KeptAs(p, project[p])
    BY <1>3, <1>4 DEF PackInv, AllKept
  <2>2. p \in Restorable \/ p \in Deletable
    OBVIOUS
  <2>3. CASE p \in Restorable
    BY <1>5, <2>1, <2>3 DEF Restorable, KeptAs, Modified, InSnapshot
  <2>4. CASE p \in Deletable
    <3>1. ~Held(p) /\ (project[p] = Absent \/ project[p] = entry.files[p])
      BY <2>1, <2>4 DEF Deletable, Held, Modified
    <3> QED BY <2>1, <3>1, AbsentUser DEF KeptAs, InSnapshot
  <2> QED BY <2>2, <2>3, <2>4
<1>7. \A p \in PackPaths \ Owned : atStake[p] \in {0, project'[p].user}
  BY <1>3, <1>4, <1>5 DEF PackInv, AllKept, KeptAs
<1>8. \A p \in PackPaths : project'[p].user <= edits /\ snapshot'[p].user <= edits
                           /\ tempSnap'[p].user <= edits /\ atStake'[p] <= edits
  <2>1. Absent.user <= edits
    BY AbsentUser, PackNumbers
  <2>2. \A p \in PackPaths : project'[p] \in {project[p], snapshot[p], Absent}
    BY <1>5
  <2>3. \A p \in PackPaths : snapshot'[p] \in {snapshot[p], Absent}
    BY <1>1
  <2> QED BY <1>2, <2>1, <2>2, <2>3 DEF PackInv, TextsAreOld
<1> HIDE DEF may
<1>9. CASE gone = Owned
  <2>1. Owned' = {} /\ Snapped' = {}
    BY <1>1, <1>9, NoEntryType DEF Owned, Snapped
  <2>2. \A p \in PackPaths : atStake'[p] \in {0, project'[p].user}
    BY <1>2, <1>6, <1>7, <1>9
  <2>3. AllKept'
    BY <1>3, <2>1, <2>2 DEF AllKept, KeptAs
  <2>4. Entered' /\ TextsAreOld'
    BY <1>2, <1>8, <2>1 DEF Entered, TextsAreOld
  <2> QED BY <1>2, <2>3, <2>4 DEF PackInv, Applying, Updating
<1>10. CASE gone # Owned
  <2>1. /\ entry'.files = [p \in Owned \ gone |-> entry.files[p]]
        /\ entry'.snaps = [p \in Snapped \ gone |-> entry.snaps[p]]
        /\ snapshot' = snapshot
    BY <1>1, <1>10 DEF PackType, PackEntries
  <2>2. Owned' = Owned \ gone /\ Snapped' = Snapped \ gone
    BY <2>1 DEF Owned, Snapped
  <2>3. /\ \A p \in Owned \ gone : entry'.files[p] = entry.files[p]
        /\ \A p \in Snapped \ gone : entry'.snaps[p] = entry.snaps[p]
    BY <2>1
  <2>4. \A p \in PackPaths \ gone : Held(p)' <=> Held(p)
    BY <2>2, <2>3 DEF Held
  <2>5. \A p \in PackPaths \ gone : InSnapshot(p)' <=> InSnapshot(p)
    BY <1>2, <2>1, <2>4 DEF InSnapshot
  <2>6. AllKept'
    <3>1. ASSUME NEW p \in PackPaths, p \notin gone PROVE KeptAs(p, Base(p))'
      <4>1. KeptAs(p, project[p])
        BY <1>3 DEF PackInv, AllKept
      <4> QED BY <1>2, <1>3, <1>5, <2>2, <2>3, <2>4, <2>5, <3>1, <4>1 DEF KeptAs
    <3>2. ASSUME NEW p \in PackPaths, p \in gone PROVE KeptAs(p, Base(p))'
      BY <1>2, <1>3, <1>6, <2>2, <3>2 DEF KeptAs
    <3> QED BY <3>1, <3>2 DEF AllKept
  <2>7. Entered'
    <3>1. /\ \A p \in Owned : ~Held(p) => entry.files[p].user = 0
          /\ \A p \in Snapped : ~entry.snaps[p] => atStake[p] = 0 \/ snapshot[p].user # atStake[p]
          /\ Config \in Snapped => Config \in Owned
      BY DEF PackInv, Entered
    <3> QED BY <1>2, <1>4, <2>1, <2>2, <2>3, <2>4, <3>1 DEF Entered
  <2>8. TextsAreOld'
    <3>1. \A p \in Owned : entry.files[p].user <= edits
      BY DEF PackInv, TextsAreOld
    <3> QED BY <1>2, <1>8, <2>2, <2>3, <3>1 DEF TextsAreOld
  <2> QED BY <1>2, <2>6, <2>7, <2>8 DEF PackInv, Applying, Updating
<1> QED BY <1>9, <1>10

\* What an apply or an update has done of a path is what its commit records.
LEMMA CommitApplyKeeps ==
  ASSUME PackType, PackInv, CommitApply
  PROVE  PackInv'
<1> DEFINE kept == IF command.fresh THEN {} ELSE Owned \intersect command.covers
<1>1. /\ command.kind = "apply" /\ command.todo = {} /\ command'.kind = "none"
      /\ entry' = [version |-> command.version, snaps |-> command.snaps,
                   files |-> [p \in kept \union command.wrote |->
                                IF p \in command.wrote THEN project[p] ELSE entry.files[p]]]
      /\ tempSnap' \in {tempSnap, [p \in PackPaths |-> Absent]}
      /\ \A p \in PackPaths :
           atStake'[p] = IF command.mode = "replace" /\ p \in command.wrote \intersect Snapped
                         THEN 0 ELSE atStake[p]
      /\ UNCHANGED <<project, snapshot, edits>>
  BY NoEntryType DEF CommitApply
<1>2. /\ Applying /\ command.mode \in {"merge", "replace"}
      /\ DOMAIN command.snaps = Snapped \union command.covers
      /\ \A p \in Snapped : command.snaps[p] = entry.snaps[p]
      /\ command.fresh <=> Snapped = {}
      /\ ~command.fresh => Owned \subseteq command.covers
      /\ command.mode = "merge" /\ Config \in Snapped =>
           atStake[Config] \in {0, snapshot[Config].user}
  BY <1>1 DEF PackInv, Applying
<1>3. /\ Owned \subseteq PackPaths /\ Snapped \subseteq PackPaths
      /\ command.covers \subseteq PackPaths /\ command.wrote \subseteq PackPaths
  BY OwnedTypes DEF PackType, Commands
<1>4. Owned' = kept \union command.wrote /\ Snapped' = Snapped \union command.covers
  BY <1>1, <1>2 DEF Owned, Snapped
<1>5. /\ \A p \in command.wrote : entry'.files[p] = project[p]
      /\ \A p \in kept \ command.wrote : entry'.files[p] = entry.files[p]
      /\ entry'.snaps = command.snaps
  BY <1>1
<1>6. \A p \in PackPaths : Base(p)' = project[p]
  BY <1>1 DEF Base
<1>7. \A p \in PackPaths : Applied(p) /\ KeptAs(p, Base(p))
  BY <1>1, <1>2 DEF Applying, PackInv, AllKept
<1>8. \A p \in PackPaths : Held(p)' <=> p \in Snapped' /\ command.snaps[p]
  BY <1>5 DEF Held
<1>9. \A p \in Snapped : Held(p)' <=> Held(p)
  BY <1>2, <1>3, <1>4, <1>8 DEF Held
<1>10. \A p \in command.wrote : p \in command.covers
  BY <1>1, <1>3, <1>7 DEF Applied
<1>11. ASSUME NEW p \in PackPaths, p \in command.covers \ Snapped
       PROVE  /\ Held(p)' <=> Base(p) # Absent
              /\ Base(p) # Absent => snapshot[p] = Base(p)
              /\ atStake[p] \in {0, Base(p).user} /\ ~Held(p)
  <2>1. /\ command.snaps[p] = (Base(p) # Absent)
        /\ Base(p) # Absent => snapshot[p] = Base(p)
    BY <1>7, <1>11 DEF Applied
  <2>2. ~Held(p)
    BY <1>11 DEF Held
  <2> QED BY <1>4, <1>7, <1>8, <1>11, <2>1, <2>2 DEF KeptAs, InSnapshot
<1> HIDE DEF kept
<1>12. kept = IF command.fresh THEN {} ELSE Owned \intersect command.covers
  BY DEF kept
<1>13. Entered /\ TextsAreOld
  BY DEF PackInv
<1>14. TextsAreOld'
  <2>1. \A p \in PackPaths : Absent.user <= edits /\ atStake'[p] <= edits
    BY <1>1, <1>13, AbsentUser, PackNumbers DEF TextsAreOld
  <2>2. \A p \in PackPaths : tempSnap'[p].user <= edits
    BY <1>1, <1>13, <2>1 DEF TextsAreOld
  <2>3. \A p \in Owned' : entry'.files[p].user <= edits
    BY <1>3, <1>4, <1>5, <1>12, <1>13 DEF TextsAreOld
  <2> QED BY <1>1, <1>13, <2>1, <2>2, <2>3 DEF TextsAreOld
<1>15. CASE command.mode = "replace"
  <2>1. \A p \in command.covers : p \in command.wrote /\ project[p] = Packed(command.version)
    BY <1>1, <1>3, <1>7, <1>15 DEF Applied
  <2>2. \A p \in PackPaths \ command.covers : project[p] = Base(p) /\ p \notin command.wrote
    BY <1>1, <1>7 DEF Applied
  <2>3. ASSUME NEW p \in PackPaths, p \in command.covers PROVE KeptAs(p, Base(p))'
    <3>1. project[p].user = 0
      BY <2>1, <2>3, AbsentUser
    <3>2. CASE p \in Snapped
      BY <1>1, <1>6, <1>15, <2>1, <2>3, <3>1, <3>2 DEF KeptAs
    <3>3. CASE p \notin Snapped
      <4>1. atStake'[p] = atStake[p] /\ p \in Owned'
        BY <1>1, <1>4, <2>1, <2>3, <3>3
      <4>2. atStake'[p] = 0 \/ InSnapshot(p)'
        BY <1>1, <1>11, <2>3, <3>3, <4>1, AbsentUser DEF InSnapshot
      <4> QED BY <1>6, <3>1, <4>1, <4>2 DEF KeptAs
    <3> QED BY <3>2, <3>3
  <2>4. ASSUME NEW p \in PackPaths, p \notin command.covers PROVE KeptAs(p, Base(p))'
    <3>1. p \notin Owned' /\ atStake'[p] = atStake[p] /\ project[p] = Base(p)
      BY <1>1, <1>4, <1>12, <2>2, <2>4
    <3>2. p \notin Owned \/ ~Held(p)
      BY <1>2, <2>4 DEF Held
    <3>3. atStake[p] \in {0, project[p].user}
      BY <1>7, <3>1, <3>2 DEF KeptAs, InSnapshot
    <3> QED BY <1>6, <3>1, <3>3 DEF KeptAs
  <2>5. Entered'
    <3>1. \A p \in Owned' : entry'.files[p].user = 0
      BY <1>4, <1>5, <1>12, <2>1, AbsentUser, <1>10
    <3>2. \A p \in Snapped' : ~entry'.snaps[p] => atStake'[p] = 0 \/ snapshot'[p].user # atStake'[p]
      <4>1. ASSUME NEW p \in Snapped, ~entry'.snaps[p]
            PROVE atStake'[p] = 0 \/ snapshot'[p].user # atStake'[p]
        BY <1>1, <1>2, <1>3, <1>5, <1>13, <4>1 DEF Entered
      <4>2. ASSUME NEW p \in command.covers \ Snapped, ~entry'.snaps[p]
            PROVE  atStake'[p] = 0
        <5>1. ~Held(p)' /\ p \in PackPaths
          BY <1>3, <4>2 DEF Held
        <5> QED BY <1>1, <1>11, <5>1, AbsentUser
      <4> QED BY <1>4, <4>1, <4>2
    <3>3. Config \in Snapped' => Config \in Owned'
      BY <1>2, <1>4, <1>12, <1>13, <2>1 DEF Entered
    <3> QED BY <3>1, <3>2, <3>3 DEF Entered
  <2>6. AllKept'
    BY <2>3, <2>4 DEF AllKept
  <2> QED BY <1>1, <1>14, <2>5, <2>6 DEF PackInv, Applying, Updating
<1>16. CASE command.mode = "merge"
  <2>1. \A p \in PackPaths : atStake'[p] = atStake[p]
    BY <1>1, <1>16
  <2>2. \A p \in PackPaths :
          /\ project[p].user = Base(p).user
          /\ p \notin command.wrote => project[p] = Base(p)
          /\ p \in command.wrote /\ p # Config => Base(p) = Absent
          /\ p = Config /\ p \in command.covers => p \in command.wrote
    BY <1>1, <1>7, <1>16 DEF Applied
  <2>3. \A p \in Snapped : InSnapshot(p)' <=> InSnapshot(p)
    BY <1>1, <1>3, <1>9, <2>1 DEF InSnapshot
  <2>4. Snapped # {} => kept = Owned
    BY <1>2, <1>12
  <2>5. Config \in Snapped => Config \in Owned /\ (atStake[Config] = 0 \/ InSnapshot(Config))
    <3> SUFFICES ASSUME Config \in Snapped, atStake[Config] # 0
                 PROVE  Config \in Owned /\ InSnapshot(Config)
      BY <1>13 DEF Entered
    <3>1. atStake[Config] = snapshot[Config].user /\ Config \in Owned
      BY <1>2, <1>13, <1>16 DEF Entered
    <3> QED BY <1>13, <3>1 DEF Entered, InSnapshot, Held
  <2>6. ASSUME NEW p \in PackPaths PROVE KeptAs(p, Base(p))'
    <3>1. atStake[p] \in {0, project[p].user} \/ (p \in Owned' /\ InSnapshot(p)')
      <4>1. CASE atStake[p] \in {0, Base(p).user}
        BY <2>2, <4>1
      <4>2. CASE p \in Owned /\ InSnapshot(p)
        BY <1>4, <2>3, <2>4, <4>2 DEF InSnapshot, Held
      <4> QED BY <1>7, <4>1, <4>2 DEF KeptAs
    <3>2. p \in Owned' /\ project[p] = entry'.files[p] => atStake[p] = 0 \/ InSnapshot(p)'
      <4> SUFFICES ASSUME p \in Owned', project[p] = entry'.files[p], atStake[p] # 0
                   PROVE  InSnapshot(p)'
        OBVIOUS
      <4>1. CASE p \notin command.wrote
        <5>1. p \in kept /\ p \in Owned /\ Base(p) = entry.files[p] /\ Snapped # {}
          BY <1>2, <1>4, <1>5, <1>12, <2>2, <4>1
        <5>2. InSnapshot(p)
          BY <1>7, <5>1 DEF KeptAs
        <5> QED BY <2>3, <5>2 DEF InSnapshot, Held
      <4>2. CASE p \in command.wrote /\ p # Config
        <5>1. Base(p).user = 0
          BY <2>2, <4>2, AbsentUser
        <5>2. InSnapshot(p)
          BY <1>7, <5>1 DEF KeptAs
        <5> QED BY <2>3, <5>2 DEF InSnapshot, Held
      <4>3. CASE p \in command.wrote /\ p = Config
        <5>1. CASE Config \in Snapped
          BY <2>3, <2>5, <4>3, <5>1
        <5>2. CASE Config \notin Snapped
          <6>1. Config \in command.covers \ Snapped
            BY <1>10, <4>3, <5>2
          <6>2. atStake[p] = Base(p).user /\ Held(p)' /\ snapshot[p] = Base(p)
            BY <1>11, <4>3, <6>1, AbsentUser
          <6> QED BY <1>1, <2>1, <6>2 DEF InSnapshot
        <5> QED BY <5>1, <5>2
      <4> QED BY <4>1, <4>2, <4>3
    <3>3. p \in Owned' /\ ~Held(p)' => project[p].user \in {0, atStake[p]}
      <4> SUFFICES ASSUME p \in Owned', ~Held(p)' PROVE Base(p).user \in {0, atStake[p]}
        BY <2>2
      <4>1. CASE p \in Snapped
        <5>1. ~Held(p)
          BY <1>9, <4>1
        <5>2. CASE p \in Owned
          BY <1>7, <5>1, <5>2 DEF KeptAs
        <5>3. CASE p \notin Owned
          <6>1. p \in command.wrote /\ p # Config
            BY <1>4, <1>12, <2>5, <4>1, <5>3
          <6> QED BY <2>2, <6>1, AbsentUser
        <5> QED BY <5>2, <5>3
      <4>2. CASE p \notin Snapped
        <5>1. p \in command.covers
          BY <1>4, <1>10, <1>12
        <5> QED BY <1>11, <4>2, <5>1, AbsentUser
      <4> QED BY <4>1, <4>2
    <3> QED BY <1>6, <2>1, <3>1, <3>2, <3>3 DEF KeptAs
  <2>7. Entered'
    <3>1. ASSUME NEW p \in Owned', ~Held(p)' PROVE entry'.files[p].user = 0
      <4>0. p \in PackPaths
        BY <1>3, <1>4, <1>12
      <4>1. CASE p \notin command.wrote
        <5>1. p \in Owned /\ p \in command.covers /\ entry'.files[p] = entry.files[p]
          BY <1>4, <1>5, <1>12, <4>1
        <5>2. ~Held(p)
          BY <1>9, <3>1, <4>0 DEF Held
        <5> QED BY <1>13, <5>1, <5>2 DEF Entered
      <4>2. CASE p \in command.wrote /\ p # Config
        BY <1>5, <2>2, <4>0, <4>2, AbsentUser
      <4>3. CASE p \in command.wrote /\ p = Config
        <5>1. entry'.files[p].user = Base(p).user
          BY <1>5, <2>2, <4>0, <4>3
        <5>2. CASE Config \in Snapped
          <6>1. ~Held(p) /\ p \in Owned
            BY <1>9, <2>5, <3>1, <4>3, <5>2
          <6>2. atStake[p] = 0
            BY <2>5, <4>3, <5>2, <6>1 DEF InSnapshot
          <6> QED BY <1>7, <4>0, <5>1, <6>1, <6>2 DEF KeptAs
        <5>3. CASE Config \notin Snapped
          BY <1>10, <1>11, <3>1, <4>0, <4>3, <5>1, <5>3, AbsentUser
        <5> QED BY <5>2, <5>3
      <4> QED BY <4>1, <4>2, <4>3
    <3>2. \A p \in Snapped' : ~entry'.snaps[p] => atStake'[p] = 0 \/ snapshot'[p].user # atStake'[p]
      <4>1. ASSUME NEW p \in Snapped, ~entry'.snaps[p]
            PROVE atStake'[p] = 0 \/ snapshot'[p].user # atStake'[p]
        BY <1>1, <1>2, <1>3, <1>5, <1>13, <2>1, <4>1 DEF Entered
      <4>2. ASSUME NEW p \in command.covers \ Snapped, ~entry'.snaps[p]
            PROVE  atStake'[p] = 0
        <5>1. ~Held(p)' /\ p \in PackPaths
          BY <1>3, <4>2 DEF Held
        <5> QED BY <1>11, <2>1, <4>2, <5>1, AbsentUser
      <4> QED BY <1>4, <4>1, <4>2
    <3>3. Config \in Snapped' => Config \in Owned'
      BY <1>2, <1>4, <1>12, <2>2, <2>4, <2>5, PackConstants
    <3> QED BY <3>1, <3>2, <3>3 DEF Entered
  <2>8. AllKept'
    BY <2>6 DEF AllKept
  <2> QED BY <1>1, <1>14, <2>7, <2>8 DEF PackInv, Applying, Updating
<1> QED BY <1>2, <1>15, <1>16

LEMMA CommitUpdateKeeps ==
  ASSUME PackType, PackInv, CommitUpdate
  PROVE  PackInv'
<1> DEFINE gone  == command.wrote \ (Shipped[command.version] \union {Config})
           wrote == command.wrote \ gone
<1>1. /\ command.kind = "update" /\ command.todo = {} /\ command.gone = {} /\ command'.kind = "none"
      /\ entry' = [version |-> IF command.skips THEN entry.version ELSE command.version,
                   snaps   |-> command.snaps,
                   files   |-> [p \in (Owned \ gone) \union wrote |->
                                  IF p \in wrote THEN project[p] ELSE entry.files[p]]]
      /\ tempSnap' = [p \in PackPaths |-> Absent]
      /\ UNCHANGED <<project, snapshot, atStake, edits>>
  BY NoEntryType DEF CommitUpdate
<1>2. /\ \A p \in Snapped : p \in DOMAIN command.snaps /\ command.snaps[p] = entry.snaps[p]
      /\ \A p \in DOMAIN command.snaps \ Snapped :
           p = Config /\ Config \notin Owned /\ command.snaps[p] /\ snapshot[p] = Base(p)
      /\ \A p \in PackPaths : Updated(p) /\ KeptAs(p, Base(p))
      /\ Entered /\ TextsAreOld
  BY <1>1 DEF PackInv, Updating, AllKept
<1>3. /\ Owned \subseteq PackPaths /\ Snapped \subseteq PackPaths /\ command.wrote \subseteq PackPaths
  BY OwnedTypes DEF PackType, Commands
<1>4. Owned' = (Owned \ gone) \union wrote /\ Snapped' = DOMAIN command.snaps
  BY <1>1 DEF Owned, Snapped
<1>5. /\ \A p \in wrote : entry'.files[p] = project[p]
      /\ \A p \in (Owned \ gone) \ wrote : entry'.files[p] = entry.files[p]
      /\ entry'.snaps = command.snaps
  BY <1>1
<1>6. \A p \in PackPaths : Base(p)' = project[p]
  BY <1>1 DEF Base
<1>7. \A p \in PackPaths : p \in command.wrote =>
        (p \in gone <=> p \notin Shipped[command.version] \union {Config})
  OBVIOUS
<1>8. \A p \in PackPaths : p \notin command.wrote => p \notin gone /\ p \notin wrote
  OBVIOUS
<1>9. \A p \in PackPaths : p \in wrote <=> p \in command.wrote /\ p \notin gone
  OBVIOUS
<1>10. \A p \in Snapped : /\ Held(p)' <=> Held(p)
                          /\ InSnapshot(p)' <=> InSnapshot(p)
  BY <1>1, <1>2, <1>3, <1>4, <1>5 DEF Held, InSnapshot
<1> HIDE DEF gone, wrote
<1>11. \A p \in PackPaths \ Snapped :
         /\ p \in Snapped' => /\ p = Config /\ p \notin Owned /\ Held(p)' /\ snapshot[p] = Base(p)
                              /\ p \in command.wrote
         /\ p \notin Snapped' => ~Held(p)'
         /\ ~Held(p) /\ ~InSnapshot(p)
  BY <1>1, <1>2, <1>4, <1>5 DEF Held, InSnapshot, Updated
<1>12. \A p \in PackPaths : p \notin command.wrote =>
         /\ project[p] = Base(p) /\ (p \in Owned' <=> p \in Owned)
         /\ p \in Owned => entry'.files[p] = entry.files[p]
         /\ Held(p)' <=> Held(p)
         /\ InSnapshot(p)' <=> InSnapshot(p)
  BY <1>2, <1>4, <1>5, <1>8, <1>10, <1>11 DEF Updated, InSnapshot
<1>13. ASSUME NEW p \in PackPaths, p \in command.wrote, p \in Owned
       PROVE  /\ atStake[p] = 0 \/ InSnapshot(p)'
              /\ ~Held(p)' => project[p].user = 0
              /\ Obsolete(p) => atStake[p] = 0 \/ atStake[p] = project[p].user
  <2>1. Base(p) = entry.files[p]
        /\ project[p] = IF Obsolete(p) THEN IF Held(p) THEN snapshot[p] ELSE Absent
                        ELSE Packed(command.version)
    BY <1>2, <1>13 DEF Updated
  <2>2. atStake[p] = 0 \/ InSnapshot(p)
    BY <1>2, <1>13, <2>1 DEF KeptAs
  <2>3. (Held(p)' <=> Held(p)) /\ (InSnapshot(p) => InSnapshot(p)')
    BY <1>10, <1>11, <1>13
  <2> QED BY <2>1, <2>2, <2>3, AbsentUser DEF InSnapshot
<1>14. ASSUME NEW p \in PackPaths, p \in command.wrote, p \notin Owned, p # Config
       PROVE  atStake[p] = 0 /\ project[p].user = 0
  <2>1. Base(p) = Absent /\ project[p] = Packed(command.version)
    BY <1>2, <1>13, <1>14 DEF Updated, Obsolete
  <2> QED BY <1>2, <1>14, <2>1, AbsentUser DEF KeptAs
<1>15. ASSUME NEW p \in PackPaths, ~(p # Config), p \in command.wrote, p \notin Owned
       PROVE  /\ atStake[p] \in {0, Base(p).user} /\ project[p].user = Base(p).user
              /\ p \notin Snapped /\ (atStake[p] # 0 => InSnapshot(p)')
              /\ (~Held(p)' => project[p].user = 0)
  <2>2. p \in DOMAIN command.snaps \/ Base(p) = Absent
    BY <1>1, <1>15 DEF PackInv, Updating
  <2>1. ~Obsolete(p)
    BY <1>15 DEF Obsolete
  <2>3. /\ atStake[p] \in {0, Base(p).user} /\ project[p].user = Base(p).user
        /\ p \notin Snapped
    BY <1>2, <1>15, <2>1 DEF Updated, KeptAs, Entered
  <2>4. Base(p) # Absent => Held(p)' /\ snapshot[p] = Base(p)
    BY <1>4, <1>11, <1>15, <2>2, <2>3
  <2> QED BY <1>1, <2>3, <2>4, AbsentUser DEF InSnapshot
<1>16. Config \in PackPaths /\ Config \notin gone /\ wrote \subseteq command.wrote
  BY PackConstants DEF gone, wrote
<1>17. ASSUME NEW p \in PackPaths PROVE KeptAs(p, Base(p))'
  <2>1. CASE p \notin command.wrote
    BY <1>1, <1>2, <1>6, <1>12, <2>1 DEF KeptAs
  <2>2. CASE p \in command.wrote /\ p \in Owned /\ Obsolete(p)
    <3>1. p \in gone /\ p \notin Owned'
      BY <1>4, <1>7, <1>9, <2>2 DEF Obsolete
    <3> QED BY <1>1, <1>6, <1>13, <2>2, <3>1 DEF KeptAs
  <2>3. CASE p \in command.wrote /\ p \in Owned /\ ~Obsolete(p)
    <3>1. p \in wrote /\ p \in Owned'
      BY <1>4, <1>7, <1>9, <2>3 DEF Obsolete
    <3> QED BY <1>1, <1>6, <1>13, <2>3, <3>1 DEF KeptAs
  <2>4. CASE p \in command.wrote /\ p \notin Owned /\ p # Config
    BY <1>1, <1>6, <1>14, <2>4 DEF KeptAs
  <2>5. CASE p \in command.wrote /\ p \notin Owned /\ p = Config
    <3>1. p \in wrote /\ p \in Owned'
      BY <1>4, <1>9, <1>16, <2>5
    <3>2. /\ atStake[p] \in {0, project[p].user}
          /\ atStake[p] # 0 => InSnapshot(p)'
          /\ ~Held(p)' => project[p].user = 0
      <4>1. ~(p # Config) /\ p \in command.wrote /\ p \notin Owned
        BY <2>5
      <4> QED BY ONLY <1>15, <4>1, p \in PackPaths
    <3> QED BY <1>1, <1>6, <3>1, <3>2 DEF KeptAs
  <2> QED BY <2>1, <2>2, <2>3, <2>4, <2>5
<1>18. Entered'
  <2>1. ASSUME NEW p \in Owned', ~Held(p)' PROVE entry'.files[p].user = 0
    <3>1. p \in PackPaths /\ p \notin gone
      BY <1>3, <1>4, <1>9 DEF wrote
    <3>2. CASE p \notin command.wrote
      BY <1>2, <1>12, <2>1, <3>1, <3>2 DEF Entered
    <3>3. CASE p \in command.wrote
      <4>1. entry'.files[p] = project[p]
        BY <1>5, <1>9, <3>1, <3>3
      <4>2. CASE p \in Owned
        BY <1>13, <2>1, <3>1, <3>3, <4>1, <4>2
      <4>3. CASE p \notin Owned /\ p # Config
        BY <1>14, <3>1, <3>3, <4>1, <4>3
      <4>4. CASE p \notin Owned /\ ~(p # Config)
        BY <1>15, <2>1, <3>1, <3>3, <4>1, <4>4
      <4> QED BY <4>2, <4>3, <4>4
    <3> QED BY <3>2, <3>3
  <2>2. \A p \in Snapped' : ~entry'.snaps[p] => atStake'[p] = 0 \/ snapshot'[p].user # atStake'[p]
    BY <1>1, <1>2, <1>4, <1>5 DEF Entered
  <2>3. Config \in Snapped' => Config \in Owned'
    BY <1>2, <1>4, <1>9, <1>11, <1>16 DEF Entered
  <2> QED BY <2>1, <2>2, <2>3 DEF Entered
<1>19. TextsAreOld'
  <2>1. \A p \in Owned' : p \in PackPaths /\ entry'.files[p].user <= edits
    BY <1>2, <1>3, <1>4, <1>5, <1>16 DEF TextsAreOld
  <2>2. Absent.user <= edits
    BY AbsentUser, PackNumbers
  <2> QED BY <1>1, <1>2, <2>1, <2>2 DEF TextsAreOld
<1>20. AllKept'
  BY <1>17 DEF AllKept
<1> QED BY <1>1, <1>18, <1>19, <1>20 DEF PackInv, Applying, Updating

LEMMA PackInvNext ==
  ASSUME PackRaces = {}, PackType, PackType', PackInv, [PackNext]_packVars
  PROVE  PackInv'
<1>1. CASE UNCHANGED packVars
  <2>1. Owned' = Owned /\ Snapped' = Snapped
    BY <1>1 DEF packVars, Owned, Snapped
  <2>2. \A p : Base(p)' = Base(p) /\ (Held(p)' <=> Held(p)) /\ (InSnapshot(p)' <=> InSnapshot(p))
               /\ (Obsolete(p)' <=> Obsolete(p))
    BY <1>1, <2>1 DEF packVars, Base, Held, InSnapshot, Obsolete
  <2>3. AllKept' /\ Entered' /\ TextsAreOld'
    BY <1>1, <2>1, <2>2 DEF packVars, PackInv, AllKept, KeptAs, Entered, TextsAreOld
  <2>4. \A p : (Applied(p)' <=> Applied(p)) /\ (Updated(p)' <=> Updated(p))
    BY <1>1, <2>1, <2>2 DEF packVars, Applied, Updated
  <2>5. Applying' /\ Updating'
    BY <1>1, <2>1, <2>2, <2>4 DEF packVars, PackInv, Applying, Updating
  <2> QED BY <2>3, <2>5 DEF PackInv
<1> QED BY <1>1, UserKeeps, ApplyBeginKeeps, UpdateBeginKeeps, WriteKeeps, RestoreKeeps,
           CommitApplyKeeps, CommitUpdateKeeps, RollbackKeeps, CrashKeeps, RemoveKeeps DEF PackNext

\* The user's last text of a file is in the file or in the pack's snapshot of it whenever no
\* command runs: for any set of paths, any versions of a pack and any number of edits, failures
\* and crashes, without the races of PackRaces.
THEOREM UserTextsAreKept ==
  ASSUME PackRaces = {} PROVE PackSpec => []UserTextIsKept
<1>1. PackInv => UserTextIsKept
  <2> SUFFICES ASSUME PackInv, Idle, NEW p \in PackPaths, atStake[p] # 0
               PROVE  atStake[p] \in {project[p].user, snapshot[p].user}
    BY DEF UserTextIsKept
  <2>1. Base(p) = project[p]
    BY NoEntryType DEF Idle, Base
  <2> QED BY <2>1 DEF PackInv, AllKept, KeptAs, InSnapshot
<1>2. PackType /\ PackInv /\ [PackNext]_packVars => PackInv'
  BY PackTypeNext, PackInvNext
<1> QED BY <1>1, <1>2, PackTypeInit, PackTypeNext, PackInvInit, PTL DEF PackSpec

-----------------------------------------------------------------------------
(* Entities that links join.                                               *)

LEMMA LeastNat ==
  ASSUME NEW T \in SUBSET Nat, T # {}
  PROVE  \E m \in T : \A n \in T : m <= n
<1>1. PICK m \in T : \A y \in T : ~(<<y, m>> \in OpToRel(<, Nat))
  BY NatLessThanWellFounded, WFMin
<1>2. \A y \in T : ~(y < m)
  BY <1>1 DEF OpToRel
<1> QED BY <1>2

\* n steps of F from x, all in D.
Steps(D, F, x, n, g) == g \in [0..n -> D] /\ g[0] = x /\ \A i \in 1..n : g[i] = F[g[i - 1]]

LEMMA Iterates ==
  ASSUME NEW D, NEW F \in [D -> D], NEW x \in D, NEW n \in Nat
  PROVE  \E g : Steps(D, F, x, n, g)
<1> DEFINE Good(m, g) == Steps(D, F, x, m, g)
           T == {m \in Nat : ~\E g : Good(m, g)}
<1>1. SUFFICES ASSUME T # {} PROVE FALSE
  OBVIOUS
<1>2. PICK m \in T : \A k \in T : m <= k
  <2>1. T \in SUBSET Nat
    OBVIOUS
  <2> HIDE DEF T
  <2> QED BY <1>1, <2>1, LeastNat
<1>3. m \in Nat /\ ~\E g : Good(m, g)
  BY <1>2
<1>4. CASE m = 0
  <2> DEFINE g == [i \in 0..0 |-> x]
  <2>1. g \in [0..0 -> D] /\ g[0] = x /\ 1..0 = {}
    OBVIOUS
  <2>2. Good(0, g)
    BY <2>1 DEF Steps
  <2> HIDE DEF Good
  <2> QED BY <1>3, <1>4, <2>2
<1>5. CASE m # 0
  <2>1. m - 1 \in Nat /\ ~(m <= m - 1)
    BY <1>3, <1>5
  <2>2. PICK g : Good(m - 1, g)
    <3> HIDE DEF Good
    <3> QED BY <1>2, <2>1
  <2> DEFINE h == [i \in 0..m |-> IF i = m THEN F[g[m - 1]] ELSE g[i]]
  <2>3. g \in [0..(m - 1) -> D] /\ m - 1 \in 0..(m - 1) /\ F[g[m - 1]] \in D
    <3>1. g \in [0..(m - 1) -> D]
      BY <2>2 DEF Steps
    <3>2. m - 1 \in 0..(m - 1)
      BY <2>1
    <3> QED BY <3>1, <3>2
  <2>4. h \in [0..m -> D]
    BY <1>3, <2>3
  <2>5. \A i \in 1..m : h[i] = F[h[i - 1]]
    <3> SUFFICES ASSUME NEW i \in 1..m PROVE h[i] = F[h[i - 1]]
      OBVIOUS
    <3>1. i \in 0..m /\ i - 1 \in 0..m /\ i - 1 \in 0..(m - 1) /\ i - 1 # m
      BY <1>3
    <3>2. CASE i = m
      BY <3>1, <3>2
    <3>3. CASE i # m
      <4>1. i \in 1..(m - 1)
        BY <1>3, <3>3
      <4>2. g[i] = F[g[i - 1]]
        BY <2>2, <4>1 DEF Steps
      <4> QED BY <3>1, <3>3, <4>2
    <3> QED BY <3>2, <3>3
  <2>6. h[0] = x
    <3>1. 0 \in 0..m /\ 0 # m
      BY <1>3, <1>5
    <3> QED BY <2>2, <3>1 DEF Steps
  <2>7. Good(m, h)
    BY <2>4, <2>5, <2>6 DEF Steps
  <2> HIDE DEF Good, h
  <2> QED BY <1>3, <2>7
<1> QED BY <1>4, <1>5

\* As many steps as there are elements, and one more, come to one of them twice.
LEMMA ComesBack ==
  ASSUME NEW D, IsFiniteSet(D), NEW g \in [0..Cardinality(D) -> D]
  PROVE  \E i, j \in 0..Cardinality(D) : i < j /\ g[i] = g[j]
<1>1. Cardinality(D) \in Nat
  BY FS_CardinalityType
<1>2. IsFiniteSet(0..Cardinality(D)) /\ Cardinality(0..Cardinality(D)) = Cardinality(D) + 1
  BY <1>1, FS_Interval
<1>3. PICK i \in 0..Cardinality(D), j \in 0..Cardinality(D) : i # j /\ g[i] = g[j]
  BY <1>1, <1>2, FS_PigeonHole
<1> QED BY <1>1, <1>3

-----------------------------------------------------------------------------
Links == SUBSET (Entities \X Entities)

\* No link leads out of S.
Sealed(links, S) == Neighbours(links, S) \subseteq S

LEMMA NeighboursAre ==
  ASSUME NEW links \in Links, NEW S, NEW e \in Entities
  PROVE  e \in Neighbours(links, S) <=>
           \E x \in S : \E p \in links : (p[1] = e /\ p[2] = x) \/ (p[1] = x /\ p[2] = e)
<1>1. ASSUME NEW x \in S
      PROVE  {e, x} \in Pairs(links) <=>
               \E p \in links : (p[1] = e /\ p[2] = x) \/ (p[1] = x /\ p[2] = e)
  <2>1. \A p \in links : {e, x} = {p[1], p[2]} <=>
                           (p[1] = e /\ p[2] = x) \/ (p[1] = x /\ p[2] = e)
    OBVIOUS
  <2> QED BY <2>1 DEF Pairs
<1> QED BY <1>1 DEF Neighbours

LEMMA SealedAs ==
  ASSUME NEW links \in Links, NEW S \in SUBSET Entities
  PROVE  Sealed(links, S) <=> \A p \in links : p[1] \in S <=> p[2] \in S
<1>1. ASSUME Sealed(links, S), NEW p \in links PROVE p[1] \in S <=> p[2] \in S
  <2>1. p[1] \in Entities /\ p[2] \in Entities
    BY DEF Links
  <2> QED BY <1>1, <2>1, NeighboursAre DEF Sealed
<1>2. ASSUME \A p \in links : p[1] \in S <=> p[2] \in S PROVE Sealed(links, S)
  <2>1. Neighbours(links, S) \subseteq Entities
    BY DEF Neighbours
  <2> QED BY <1>2, <2>1, NeighboursAre DEF Sealed
<1> QED BY <1>1, <1>2

\* The cluster of e is the least sealed set with e in it.
LEMMA ClusterIs ==
  ASSUME NEW links \in Links, NEW e \in Entities
  PROVE  /\ Cluster(links, e) \subseteq Entities /\ e \in Cluster(links, e)
         /\ Sealed(links, Cluster(links, e))
         /\ \A S : e \in S /\ Sealed(links, S) => Cluster(links, e) \subseteq S
<1> DEFINE N == Cardinality(Entities)
           D == SUBSET Entities
           F == [S \in D |-> S \union Neighbours(links, S)]
           Grows(g) == g = [n \in 0..N |-> IF n = 0 THEN {e}
                                            ELSE g[n - 1] \union Neighbours(links, g[n - 1])]
<1>0. N \in Nat /\ IsFiniteSet(Entities)
  BY FS_CardinalityType, AliasAssumption
<1>1. \A S : Neighbours(links, S) \in SUBSET Entities
  BY DEF Neighbours
<1>2. F \in [D -> D] /\ {e} \in D
  BY <1>1
<1>3. PICK h \in [0..N -> D] : h[0] = {e} /\ \A i \in 1..N : h[i] = F[h[i - 1]]
  <2>1. N \in Nat
    BY <1>0
  <2>2. \E h : Steps(D, F, {e}, N, h)
    <3> HIDE DEF N, D, F
    <3> QED BY <1>2, <2>1, Iterates
  <2> HIDE DEF N, D, F
  <2> QED BY <2>2 DEF Steps
<1>4. Grows(h)
  <2>1. \A i \in 0..N : i # 0 => i \in 1..N /\ i - 1 \in 0..N
    BY <1>0
  <2>2. \A i \in 0..N : i # 0 => F[h[i - 1]] = h[i - 1] \union Neighbours(links, h[i - 1])
    BY <1>3, <2>1
  <2>3. \A i \in 0..N : h[i] = IF i = 0 THEN {e} ELSE h[i - 1] \union Neighbours(links, h[i - 1])
    BY <1>3, <2>1, <2>2
  <2> HIDE DEF F, D
  <2> QED BY <1>3, <2>3
<1>5. PICK g : g = CHOOSE x : Grows(x)
  OBVIOUS
<1>6. Grows(g) /\ Cluster(links, e) = g[N]
  <2>1. Grows(g)
    <3> HIDE DEF Grows
    <3> QED BY <1>4, <1>5
  <2>2. Cluster(links, e) = (CHOOSE x : Grows(x))[N]
    BY DEF Cluster
  <2> QED BY <1>5, <2>1, <2>2
<1>7. /\ g[0] = {e} /\ 0 \in 0..N
      /\ \A n \in 0..N : n # 0 => /\ n - 1 \in 0..N
                                  /\ g[n] = g[n - 1] \union Neighbours(links, g[n - 1])
  <2>1. 0 \in 0..N /\ \A n \in 0..N : n # 0 => n - 1 \in 0..N
    BY <1>0
  <2>2. \A n \in 0..N : g[n] = IF n = 0 THEN {e} ELSE g[n - 1] \union Neighbours(links, g[n - 1])
    BY <1>6
  <2> QED BY <2>1, <2>2
<1> HIDE DEF Grows, N, D, F
<1>8. \A S : e \in S /\ Sealed(links, S) => \A n \in 0..N : g[n] \subseteq S
  <2> SUFFICES ASSUME NEW S, e \in S, Sealed(links, S), NEW k \in 0..N, ~(g[k] \subseteq S)
               PROVE  FALSE
    OBVIOUS
  <2> DEFINE T == {n \in 0..N : ~(g[n] \subseteq S)}
  <2>1. T \in SUBSET Nat /\ T # {}
    BY <1>0
  <2>2. PICK m \in T : \A n \in T : m <= n
    <3> HIDE DEF T
    <3> QED BY <2>1, LeastNat
  <2>3. m \in 0..N /\ m # 0 /\ m - 1 \in 0..N /\ ~(m <= m - 1)
    BY <1>0, <1>7, <2>2
  <2>4. g[m - 1] \subseteq S
    BY <2>2, <2>3
  <2>5. Neighbours(links, g[m - 1]) \subseteq Neighbours(links, S)
    BY <2>4 DEF Neighbours
  <2> QED BY <1>7, <2>2, <2>3, <2>4, <2>5 DEF Sealed
<1>9. \A n \in 0..N : g[n] \in SUBSET Entities /\ e \in g[n]
  <2>1. \A n \in 0..N : g[n] \subseteq Entities
    BY <1>1, <1>8 DEF Sealed
  <2> SUFFICES ASSUME NEW k \in 0..N, e \notin g[k] PROVE FALSE
    BY <2>1
  <2> DEFINE T == {n \in 0..N : e \notin g[n]}
  <2>2. T \in SUBSET Nat /\ T # {}
    BY <1>0
  <2>3. PICK m \in T : \A n \in T : m <= n
    <3> HIDE DEF T
    <3> QED BY <2>2, LeastNat
  <2>4. m \in 0..N /\ m # 0 /\ m - 1 \in 0..N /\ ~(m <= m - 1)
    BY <1>0, <1>7, <2>3
  <2> QED BY <1>7, <2>3, <2>4
<1>10. PICK n \in 0..N : Sealed(links, g[n])
  <2> SUFFICES ASSUME \A n \in 0..N : ~Sealed(links, g[n]) PROVE FALSE
    OBVIOUS
  <2> DEFINE f == [n \in 0..N |-> IF n = 0 THEN e ELSE CHOOSE x : x \in g[n] /\ x \notin g[n - 1]]
  <2>1. \A n \in 0..N : n # 0 => f[n] \in g[n] /\ f[n] \notin g[n - 1]
    BY <1>7 DEF Sealed
  <2>2. f[0] = e /\ \A n \in 0..N : f[n] \in g[n]
    BY <1>7, <2>1
  <2> HIDE DEF f
  <2>3. f \in [0..N -> Entities]
    BY <1>9, <2>2 DEF f
  <2>4. PICK i \in 0..N, j \in 0..N : i < j /\ f[i] = f[j]
    BY <1>0, <2>3, ComesBack DEF N
  <2>5. \A k \in 0..N : k >= i => f[i] \in g[k]
    <3> SUFFICES ASSUME NEW k \in 0..N, k >= i, f[i] \notin g[k] PROVE FALSE
      OBVIOUS
    <3> DEFINE T == {l \in 0..N : l >= i /\ f[i] \notin g[l]}
    <3>1. T \in SUBSET Nat /\ T # {}
      BY <1>0
    <3>2. PICK m \in T : \A l \in T : m <= l
      <4> HIDE DEF T
      <4> QED BY <3>1, LeastNat
    <3>3. m \in 0..N /\ m # i /\ m > i /\ m - 1 >= i /\ m # 0 /\ ~(m <= m - 1)
      BY <1>0, <2>2, <3>2
    <3> QED BY <1>7, <3>2, <3>3
  <2>6. j \in 0..N /\ j # 0 /\ j - 1 \in 0..N /\ j - 1 >= i
    BY <1>0, <2>4
  <2> QED BY <2>1, <2>4, <2>5, <2>6
<1>11. \A k \in 0..N : k >= n => g[k] = g[n]
  <2> SUFFICES ASSUME NEW l \in 0..N, l >= n, g[l] # g[n] PROVE FALSE
    OBVIOUS
  <2> DEFINE T == {k \in 0..N : k >= n /\ g[k] # g[n]}
  <2>1. T \in SUBSET Nat /\ T # {}
    BY <1>0
  <2>2. PICK m \in T : \A k \in T : m <= k
    <3> HIDE DEF T
    <3> QED BY <2>1, LeastNat
  <2>3. m \in 0..N /\ m # n /\ m > n /\ m - 1 >= n /\ m # 0 /\ ~(m <= m - 1)
    BY <1>0, <2>2
  <2>4. g[m - 1] = g[n]
    BY <1>7, <2>2, <2>3
  <2> QED BY <1>7, <1>10, <2>2, <2>3, <2>4 DEF Sealed
<1>12. g[N] = g[n] /\ N \in 0..N
  BY <1>0, <1>11
<1> QED BY <1>6, <1>8, <1>9, <1>10, <1>12

LEMMA ClusterLeast ==
  ASSUME NEW links \in Links, NEW e \in Entities, NEW S \in SUBSET Entities, e \in S,
         \A p \in links : p[1] \in S <=> p[2] \in S
  PROVE  Cluster(links, e) \subseteq S
BY ClusterIs, SealedAs

LEMMA ClusterHas ==
  ASSUME NEW links \in Links, NEW e \in Entities
  PROVE  /\ Cluster(links, e) \in SUBSET Entities /\ e \in Cluster(links, e)
         /\ \A p \in links : p[1] \in Cluster(links, e) <=> p[2] \in Cluster(links, e)
<1>1. Cluster(links, e) \in SUBSET Entities /\ e \in Cluster(links, e)
      /\ Sealed(links, Cluster(links, e))
  BY ClusterIs
<1> QED BY <1>1, SealedAs

LEMMA ClusterSame ==
  ASSUME NEW links \in Links, NEW a \in Entities, NEW b \in Cluster(links, a)
  PROVE  Cluster(links, b) = Cluster(links, a)
<1> DEFINE A == Cluster(links, a)
           B == Cluster(links, b)
<1>1. A \in SUBSET Entities /\ a \in A /\ \A p \in links : p[1] \in A <=> p[2] \in A
  BY ClusterHas
<1>2. b \in Entities /\ b \in A
  BY <1>1
<1>3. B \in SUBSET Entities /\ b \in B /\ \A p \in links : p[1] \in B <=> p[2] \in B
  BY <1>2, ClusterHas
<1>4. B \subseteq A
  <2> HIDE DEF A
  <2> QED BY <1>1, <1>2, ClusterLeast
<1>5. a \in B
  <2> SUFFICES ASSUME a \notin B PROVE FALSE
    OBVIOUS
  <2> DEFINE S == A \ B
  <2>1. S \in SUBSET Entities /\ a \in S /\ b \notin S
    BY <1>1, <1>3
  <2>2. \A p \in links : p[1] \in S <=> p[2] \in S
    BY <1>1, <1>3
  <2> HIDE DEF S
  <2> QED BY <1>2, <2>1, <2>2, ClusterLeast
<1>6. A \subseteq B
  <2> HIDE DEF B
  <2> QED BY <1>3, <1>5, ClusterLeast
<1> QED BY <1>4, <1>6

LEMMA ClusterGrows ==
  ASSUME NEW links \in Links, NEW more \in Links, links \subseteq more, NEW e \in Entities
  PROVE  Cluster(links, e) \subseteq Cluster(more, e)
<1>1. /\ Cluster(more, e) \in SUBSET Entities /\ e \in Cluster(more, e)
      /\ \A p \in links : p[1] \in Cluster(more, e) <=> p[2] \in Cluster(more, e)
  BY ClusterHas
<1>2. PICK S : S = Cluster(more, e)
  OBVIOUS
<1> QED BY <1>1, <1>2, ClusterLeast

\* A link joins the clusters of its ends, and leaves the others as they are.
LEMMA Joined ==
  ASSUME NEW links \in Links, NEW a \in Entities, NEW c \in Entities, NEW x \in Entities,
         NEW y \in Cluster(links \union {<<a, c>>}, x), y \notin Cluster(links, x)
  PROVE  \/ x \in Cluster(links, a) /\ y \in Cluster(links, c)
         \/ x \in Cluster(links, c) /\ y \in Cluster(links, a)
<1> DEFINE A == Cluster(links, a)
           C == Cluster(links, c)
           X == Cluster(links, x)
           more == links \union {<<a, c>>}
<1>1. /\ A \in SUBSET Entities /\ a \in A /\ \A p \in links : p[1] \in A <=> p[2] \in A
      /\ C \in SUBSET Entities /\ c \in C /\ \A p \in links : p[1] \in C <=> p[2] \in C
      /\ X \in SUBSET Entities /\ x \in X /\ \A p \in links : p[1] \in X <=> p[2] \in X
  BY ClusterHas
<1>2. more \in Links
  BY DEF Links
<1>3. x \in A => A = X
  BY ClusterSame
<1>4. x \in C => C = X
  BY ClusterSame
<1>5. a \in X => A = X
  BY ClusterSame
<1>6. c \in X => C = X
  BY ClusterSame
<1>7. CASE x \in A \union C
  <2> DEFINE S == A \union C
  <2>1. S \in SUBSET Entities /\ x \in S /\ \A p \in more : p[1] \in S <=> p[2] \in S
    BY <1>1, <1>7
  <2> HIDE DEF S
  <2>2. Cluster(more, x) \subseteq S
    <3> HIDE DEF more
    <3> QED BY <1>2, <2>1, ClusterLeast
  <2>3. y \in S
    BY <2>2
  <2> USE DEF S
  <2> QED BY <1>3, <1>4, <1>7, <2>3
<1>8. CASE x \notin A \union C
  <2>1. a \notin X /\ c \notin X
    BY <1>1, <1>5, <1>6, <1>8
  <2>2. \A p \in more : p[1] \in X <=> p[2] \in X
    BY <1>1, <2>1
  <2>3. Cluster(more, x) \subseteq X
    <3> HIDE DEF more, X
    <3> QED BY <1>1, <1>2, <2>2, ClusterLeast
  <2> QED BY <2>3
<1> QED BY <1>7, <1>8

-----------------------------------------------------------------------------
(* Chains of links.                                                        *)

\* x is no alias.
Root(links, x) == \A p \in links : p[1] # x

\* An alias has one canonical.
Single(links) == \A p, q \in links : p[1] = q[1] => p = q

\* Chains end: whatever the set, a link leads out of it from one of its members, or none does.
Acyclic(links) ==
  \A S \in SUBSET Entities : S # {} => \E x \in S : \A p \in links : p[1] = x => p[2] \notin S

LEMMA OneRoot ==
  ASSUME NEW links \in Links, Single(links), NEW a \in Entities, Root(links, a),
         NEW t \in Cluster(links, a), Root(links, t)
  PROVE  t = a
<1> DEFINE Closed(S) == a \in S /\ \A p \in links : p[2] \in S => p[1] \in S
           D == {x \in Entities : \A S \in SUBSET Entities : Closed(S) => x \in S}
<1>1. \A p \in links : p[1] \in Entities /\ p[2] \in Entities
  BY DEF Links
<1>2. D \in SUBSET Entities /\ Closed(D)
  BY <1>1
<1>3. \A S \in SUBSET Entities : Closed(S) => D \subseteq S
  OBVIOUS
<1> HIDE DEF D
<1>4. \A p \in links : p[1] \in D => p[2] \in D
  <2> SUFFICES ASSUME NEW p \in links, p[1] \in D, p[2] \notin D PROVE FALSE
    OBVIOUS
  <2> DEFINE S == D \ {p[1]}
  <2>1. Closed(S)
    BY <1>2 DEF Root, Single
  <2>2. S \in SUBSET Entities
    BY <1>2
  <2>3. D \subseteq S
    <3> HIDE DEF S
    <3> QED BY <1>3, <2>1, <2>2
  <2> QED BY <2>3
<1>5. Cluster(links, a) \subseteq D
  BY <1>2, <1>4, ClusterLeast
<1>6. ASSUME t # a PROVE FALSE
  <2> DEFINE S == D \ {t}
  <2>1. Closed(S)
    BY <1>2, <1>6 DEF Root
  <2>2. S \in SUBSET Entities
    BY <1>2
  <2>3. D \subseteq S
    <3> HIDE DEF S
    <3> QED BY <1>3, <2>1, <2>2
  <2> QED BY <1>5, <2>3
<1> QED BY <1>6

LEMMA AcyclicGrows ==
  ASSUME NEW links \in Links, Acyclic(links), NEW a \in Entities, Root(links, a),
         NEW t \in Entities, t \notin Cluster(links, a)
  PROVE  Acyclic(links \union {<<a, t>>})
<1> DEFINE C == Cluster(links, a)
<1>1. C \in SUBSET Entities /\ a \in C /\ \A p \in links : p[1] \in C <=> p[2] \in C
  BY ClusterHas
<1> HIDE DEF C
<1> SUFFICES ASSUME NEW S \in SUBSET Entities, S # {}
             PROVE  \E x \in S : \A p \in links \union {<<a, t>>} : p[1] = x => p[2] \notin S
  BY DEF Acyclic
<1>2. CASE S \subseteq C /\ a \in S
  <2>1. \A p \in links \union {<<a, t>>} : p[1] = a => p[2] \notin S
    BY <1>2 DEF Root, C
  <2> QED BY <1>2, <2>1
<1>3. CASE S \subseteq C /\ a \notin S
  <2>1. PICK x \in S : \A p \in links : p[1] = x => p[2] \notin S
    BY DEF Acyclic
  <2> QED BY <1>3, <2>1
<1>4. CASE ~(S \subseteq C)
  <2>1. PICK x \in S \ C : \A p \in links : p[1] = x => p[2] \notin S \ C
    BY <1>4 DEF Acyclic
  <2>2. \A p \in links : p[1] = x => p[2] \notin S
    BY <1>1, <2>1
  <2>3. x # a
    BY <1>1
  <2> QED BY <2>1, <2>2, <2>3
<1> QED BY <1>2, <1>3, <1>4

\* A chain ends in the cluster of where it began, and without cycles at what is no alias.
LEMMA TerminalIs ==
  ASSUME NEW links \in Links, NEW c \in Entities
  PROVE  /\ Terminal(links, c) \in Cluster(links, c)
         /\ Acyclic(links) => Root(links, Terminal(links, c))
<1> DEFINE N == Cardinality(Entities)
           Next(x) == IF \E p \in links : p[1] = x THEN (CHOOSE p \in links : p[1] = x)[2] ELSE x
           F == [x \in Entities |-> Next(x)]
           Walks(g) == g = [n \in 0..N |-> IF n = 0 THEN c ELSE Next(g[n - 1])]
           C == Cluster(links, c)
<1>0. N \in Nat /\ IsFiniteSet(Entities)
  BY FS_CardinalityType, AliasAssumption
<1>1. ASSUME NEW x, ~Root(links, x)
      PROVE  \E p \in links : p[1] = x /\ Next(x) = p[2]
  BY <1>1 DEF Root
<1>2. ASSUME NEW x, Root(links, x) PROVE Next(x) = x
  BY <1>2 DEF Root
<1>3. \A x \in Entities : Next(x) \in Entities
  <2> SUFFICES ASSUME NEW x \in Entities PROVE Next(x) \in Entities
    OBVIOUS
  <2> HIDE DEF Next
  <2> QED BY <1>1, <1>2 DEF Links
<1>4. F \in [Entities -> Entities]
  <2> HIDE DEF Next
  <2> QED BY <1>3
<1>5. PICK h : Steps(Entities, F, c, N, h)
  <2> HIDE DEF N, F
  <2> QED BY <1>0, <1>4, Iterates
<1>6. Walks(h)
  <2> HIDE DEF Next, N
  <2>1. \A i \in 0..N : i # 0 => i \in 1..N /\ i - 1 \in 0..N
    BY <1>0
  <2>2. \A i \in 0..N : i # 0 => h[i] = Next(h[i - 1])
    BY <1>5, <2>1 DEF Steps
  <2>3. \A i \in 0..N : h[i] = IF i = 0 THEN c ELSE Next(h[i - 1])
    BY <1>5, <2>2 DEF Steps
  <2> QED BY <1>5, <2>3 DEF Steps
<1>7. PICK g : g = CHOOSE x : Walks(x)
  OBVIOUS
<1>8. Walks(g) /\ Terminal(links, c) = IF Next(g[N]) = g[N] THEN g[N] ELSE c
  <2>1. Walks(g)
    <3> HIDE DEF Walks
    <3> QED BY <1>6, <1>7
  <2>2. Terminal(links, c) = LET w == CHOOSE x : Walks(x) IN IF Next(w[N]) = w[N] THEN w[N] ELSE c
    BY DEF Terminal
  <2> HIDE DEF Walks, Next, N
  <2> QED BY <1>7, <2>1, <2>2
<1>9. /\ g[0] = c /\ 0 \in 0..N
      /\ \A n \in 0..N : n # 0 => n - 1 \in 0..N /\ g[n] = Next(g[n - 1])
  <2> HIDE DEF Next
  <2>1. 0 \in 0..N /\ \A n \in 0..N : n # 0 => n - 1 \in 0..N
    BY <1>0
  <2>2. \A n \in 0..N : g[n] = IF n = 0 THEN c ELSE Next(g[n - 1])
    BY <1>8
  <2> QED BY <2>1, <2>2
<1>10. C \in SUBSET Entities /\ c \in C /\ \A p \in links : p[1] \in C <=> p[2] \in C
  BY ClusterHas
<1> HIDE DEF Walks, N, F, Next, C
<1>11. \A x \in C : Next(x) \in C
  BY <1>1, <1>2, <1>10
<1>12. \A n \in 0..N : g[n] \in C
  <2> SUFFICES ASSUME NEW k \in 0..N, g[k] \notin C PROVE FALSE
    OBVIOUS
  <2> DEFINE T == {n \in 0..N : g[n] \notin C}
  <2>1. T \in SUBSET Nat /\ T # {}
    BY <1>0
  <2>2. PICK m \in T : \A n \in T : m <= n
    <3> HIDE DEF T
    <3> QED BY <2>1, LeastNat
  <2>3. m \in 0..N /\ m # 0 /\ m - 1 \in 0..N /\ ~(m <= m - 1)
    BY <1>0, <1>9, <1>10, <2>2
  <2> QED BY <1>9, <1>11, <2>2, <2>3
<1>13. \A n \in 0..N : Root(links, g[n]) => \A k \in 0..N : k >= n => g[k] = g[n]
  <2> SUFFICES ASSUME NEW n \in 0..N, Root(links, g[n]), NEW l \in 0..N, l >= n, g[l] # g[n]
               PROVE FALSE
    OBVIOUS
  <2> DEFINE T == {k \in 0..N : k >= n /\ g[k] # g[n]}
  <2>1. T \in SUBSET Nat /\ T # {}
    BY <1>0
  <2>2. PICK m \in T : \A k \in T : m <= k
    <3> HIDE DEF T
    <3> QED BY <2>1, LeastNat
  <2>3. m \in 0..N /\ m # n /\ m > n /\ m - 1 >= n /\ m # 0 /\ ~(m <= m - 1)
    BY <1>0, <2>2
  <2>4. m - 1 \in 0..N /\ g[m - 1] = g[n]
    BY <1>9, <2>2, <2>3
  <2> QED BY <1>2, <1>9, <2>2, <2>3, <2>4
<1>14. Acyclic(links) => Root(links, g[N])
  <2> SUFFICES ASSUME Acyclic(links), ~Root(links, g[N]) PROVE FALSE
    OBVIOUS
  <2>1. N \in 0..N
    BY <1>0
  <2>2. \A n \in 0..N : ~Root(links, g[n])
    <3> SUFFICES ASSUME NEW n \in 0..N, Root(links, g[n]) PROVE FALSE
      OBVIOUS
    <3>1. N >= n
      BY <1>0
    <3> QED BY <1>13, <2>1, <3>1
  <2>3. g \in [0..N -> Entities]
    BY <1>8, <1>10, <1>12 DEF Walks
  <2>4. PICK i \in 0..N, j \in 0..N : i < j /\ g[i] = g[j]
    BY <1>0, <2>3, ComesBack DEF N
  <2> DEFINE S == {g[n] : n \in i..(j - 1)}
  <2>5. \A n \in i..(j - 1) : n \in 0..N /\ n + 1 \in 0..N /\ n + 1 # 0 /\ (n + 1) - 1 = n
                              /\ (n + 1 = j \/ n + 1 \in i..(j - 1))
    BY <1>0, <2>4
  <2>6. i \in i..(j - 1)
    BY <1>0, <2>4
  <2>7. S \in SUBSET Entities /\ S # {}
    BY <1>10, <1>12, <2>5, <2>6
  <2>8. PICK x \in S : \A p \in links : p[1] = x => p[2] \notin S
    <3> HIDE DEF S
    <3> QED BY <2>7 DEF Acyclic
  <2>9. PICK n \in i..(j - 1) : x = g[n]
    BY <2>8
  <2>10. g[n + 1] = Next(x)
    BY <1>9, <2>5, <2>9
  <2>11. g[n + 1] \in S
    BY <2>4, <2>5, <2>6
  <2> HIDE DEF S
  <2> QED BY <1>1, <2>2, <2>5, <2>8, <2>9, <2>10, <2>11
<1>15. (Root(links, g[N]) => Next(g[N]) = g[N]) /\ N \in 0..N
  BY <1>0, <1>2
<1> QED BY <1>8, <1>10, <1>12, <1>14, <1>15 DEF C

-----------------------------------------------------------------------------
(* What the decisions keep.                                                *)

\* No link closes a circle, in whatever direction.
Forest(links) == \A p \in links : p[1] \notin Cluster(links \ {p}, p[2])

Apart(links, pairs) == \A p \in pairs : p[2] \notin Cluster(links, p[1])

\* Approved, pending and rejected rows.
KeepsApart(A, P, R) ==
  /\ Single(A \union P) /\ Acyclic(A) /\ Forest(A)
  /\ Apart(A, R \union P) /\ \A p \in P : <<p[2], p[1]>> \notin P

LEMMA LinkEnds ==
  \A links \in Links : \A p \in links : /\ p = <<p[1], p[2]>>
                                        /\ p[1] \in Entities /\ p[2] \in Entities
BY DEF Links

\* Rejecting rows.
LEMMA KeptLess ==
  ASSUME NEW A \in Links, NEW P \in Links, NEW R \in Links, KeepsApart(A, P, R),
         NEW L \in SUBSET (A \union P)
  PROVE  KeepsApart(A \ L, P \ L, R \union L)
<1>1. A \ L \in Links /\ \A p \in A : A \ {p} \in Links
  BY DEF Links
<1>2. \A e \in Entities : Cluster(A \ L, e) \subseteq Cluster(A, e)
  BY <1>1, ClusterGrows
<1>3. Single((A \ L) \union (P \ L)) /\ Acyclic(A \ L)
      /\ \A p \in P \ L : <<p[2], p[1]>> \notin P \ L
  BY DEF KeepsApart, Single, Acyclic
<1>4. Forest(A \ L)
  <2> SUFFICES ASSUME NEW p \in A \ L PROVE p[1] \notin Cluster((A \ L) \ {p}, p[2])
    BY DEF Forest
  <2>1. (A \ L) \ {p} \in Links /\ (A \ L) \ {p} \subseteq A \ {p}
    BY DEF Links
  <2>2. Cluster((A \ L) \ {p}, p[2]) \subseteq Cluster(A \ {p}, p[2])
    BY <1>1, <2>1, LinkEnds, ClusterGrows
  <2> QED BY <2>2 DEF KeepsApart, Forest
<1>5. ASSUME NEW p \in (R \union L) \union (P \ L) PROVE p[2] \notin Cluster(A \ L, p[1])
  <2>1. CASE p \in R \union P
    BY <1>2, <2>1, LinkEnds DEF KeepsApart, Apart
  <2>2. CASE p \in A /\ p \in L
    <3>1. A \ L \subseteq A \ {p} /\ A \ {p} \in Links
      BY <1>1, <2>2
    <3>2. Cluster(A \ L, p[1]) \subseteq Cluster(A \ {p}, p[1])
      BY <1>1, <2>2, <3>1, LinkEnds, ClusterGrows
    <3>3. p[1] \notin Cluster(A \ {p}, p[2])
      BY <2>2 DEF KeepsApart, Forest
    <3>4. p[1] \in Cluster(A \ {p}, p[1])
      BY <2>2, <3>1, LinkEnds, ClusterHas
    <3>5. p[2] \in Cluster(A \ {p}, p[1]) => Cluster(A \ {p}, p[2]) = Cluster(A \ {p}, p[1])
      BY <2>2, <3>1, LinkEnds, ClusterSame
    <3> QED BY <3>2, <3>3, <3>4, <3>5
  <2> QED BY <2>1, <2>2
<1> QED BY <1>3, <1>4, <1>5 DEF KeepsApart, Apart

\* No row that someone must yet decide, or has decided, lies between the clusters of a and c.
Free(A, Q, a, c) ==
  \A m \in Cluster(A, a), l \in Cluster(A, c) : <<m, l>> \notin Q /\ <<l, m>> \notin Q

LEMMA ForestGrows ==
  ASSUME NEW A \in Links, Forest(A), NEW a \in Entities, NEW c \in Entities,
         c \notin Cluster(A, a)
  PROVE  Forest(A \union {<<a, c>>})
<1> DEFINE q == <<a, c>>
<1>1. q \notin A
  BY ClusterHas
<1>2. a \notin Cluster(A, c)
  BY ClusterHas, ClusterSame
<1> SUFFICES ASSUME NEW p \in A \union {q}, p[1] \in Cluster((A \union {q}) \ {p}, p[2])
             PROVE FALSE
  BY DEF Forest
<1>3. CASE p = q
  <2>1. (A \union {q}) \ {p} = A
    BY <1>1, <1>3
  <2> QED BY <1>2, <1>3, <2>1
<1>4. CASE p \in A /\ p # q
  <2> DEFINE B == A \ {p}
  <2>1. B \in Links /\ B \subseteq A
    BY DEF Links
  <2>2. (A \union {q}) \ {p} = B \union {q}
    BY <1>4
  <2>3. p[1] \in Entities /\ p[2] \in Entities
    BY <1>4, LinkEnds
  <2>4. p[1] \notin Cluster(B, p[2])
    BY <1>4 DEF Forest
  <2>5. \/ p[2] \in Cluster(B, a) /\ p[1] \in Cluster(B, c)
        \/ p[2] \in Cluster(B, c) /\ p[1] \in Cluster(B, a)
    <3> HIDE DEF B
    <3> QED BY <2>1, <2>2, <2>3, <2>4, Joined
  <2>6. Cluster(B, a) \subseteq Cluster(A, a) /\ Cluster(B, c) \subseteq Cluster(A, c)
    <3> HIDE DEF B
    <3> QED BY <2>1, ClusterGrows
  <2>7. p[1] \in Cluster(A, a) <=> p[2] \in Cluster(A, a)
    BY <1>4, ClusterHas
  <2>8. PICK z \in Cluster(A, a) : z \in Cluster(A, c)
    BY <2>5, <2>6, <2>7
  <2>9. Cluster(A, a) = Cluster(A, c)
    BY <2>8, ClusterSame
  <2> QED BY <2>9, ClusterHas
<1> QED BY <1>3, <1>4

LEMMA ApartGrows ==
  ASSUME NEW A \in Links, NEW Q \in Links, Apart(A, Q), NEW a \in Entities, NEW c \in Entities,
         Free(A, Q, a, c)
  PROVE  Apart(A \union {<<a, c>>}, Q)
<1> SUFFICES ASSUME NEW p \in Q, p[2] \in Cluster(A \union {<<a, c>>}, p[1]) PROVE FALSE
  BY DEF Apart
<1>1. p = <<p[1], p[2]>> /\ p[1] \in Entities /\ p[2] \in Entities /\ p[2] \notin Cluster(A, p[1])
  BY LinkEnds DEF Apart
<1>2. \/ p[1] \in Cluster(A, a) /\ p[2] \in Cluster(A, c)
      \/ p[1] \in Cluster(A, c) /\ p[2] \in Cluster(A, a)
  BY <1>1, Joined
<1> QED BY <1>1, <1>2 DEF Free

\* Approving a link.
LEMMA KeptJoin ==
  ASSUME NEW A \in Links, NEW P \in Links, NEW R \in Links, KeepsApart(A, P, R),
         NEW a \in Entities, NEW c \in Entities, c \notin Cluster(A, a),
         \A p \in A \union P : p[1] = a => p = <<a, c>>,
         Free(A, R \union (P \ {<<a, c>>}), a, c)
  PROVE  KeepsApart(A \union {<<a, c>>}, P \ {<<a, c>>}, R)
<1> DEFINE q == <<a, c>>
<1>1. q \notin A
  BY ClusterHas
<1>2. Root(A, a)
  BY <1>1 DEF Root
<1>3. Single((A \union {q}) \union (P \ {q}))
  BY DEF KeepsApart, Single
<1>4. Acyclic(A \union {q}) /\ Forest(A \union {q})
  BY <1>2, AcyclicGrows, ForestGrows DEF KeepsApart
<1>5. R \union (P \ {q}) \in Links /\ Apart(A, R \union (P \ {q}))
  BY DEF Links, KeepsApart, Apart
<1>6. Apart(A \union {q}, R \union (P \ {q}))
  <2>1. PICK Q \in Links : Q = R \union (P \ {q})
    BY <1>5
  <2> QED BY <1>5, <2>1, ApartGrows
<1>7. \A p \in P \ {q} : <<p[2], p[1]>> \notin P \ {q}
  BY DEF KeepsApart
<1> QED BY <1>3, <1>4, <1>6, <1>7 DEF KeepsApart

\* Queuing a proposal.
LEMMA KeptWait ==
  ASSUME NEW A \in Links, NEW P \in Links, NEW R \in Links, KeepsApart(A, P, R),
         NEW a \in Entities, NEW c \in Entities, c \notin Cluster(A, a),
         \A p \in A \union P : p[1] # a, <<c, a>> \notin P
  PROVE  KeepsApart(A, P \union {<<a, c>>}, R)
<1> DEFINE q == <<a, c>>
<1>1. Single(A \union (P \union {q}))
  BY DEF KeepsApart, Single
<1>2. Apart(A, R \union (P \union {q}))
  BY DEF KeepsApart, Apart
<1>3. a # c
  BY ClusterHas
<1>4. \A p \in P \union {q} : <<p[2], p[1]>> \notin P \union {q}
  <2>1. \A p \in P : <<p[2], p[1]>> \notin P /\ p = <<p[1], p[2]>>
    BY LinkEnds DEF KeepsApart
  <2>2. \A p \in P : <<p[2], p[1]>> # q
    BY <2>1
  <2>3. <<q[2], q[1]>> = <<c, a>> /\ <<c, a>> # q
    BY <1>3
  <2> QED BY <2>1, <2>2, <2>3
<1> QED BY <1>1, <1>2, <1>4 DEF KeepsApart

-----------------------------------------------------------------------------
(* The invariant of the decisions.                                         *)

Approved  == With("applied")
Pending  == With("pending")
Rejected == With("rejected")

Decided   == decision \in [Entities \X Entities -> Statuses]
SweepRecs == [at : {"idle", "listed", "replay"}, links : Links, rejected : SUBSET SUBSET Entities,
              todo : Links, copied : BOOLEAN, passes : 0..(MaxSweepPasses - 1)]
PassRecs  == [at : {"idle", "sweep", "arbitrate"}, seeds : SUBSET Entities,
              blocks : SUBSET SUBSET Entities, links : Links, rejected : SUBSET SUBSET Entities,
              awaiting : SUBSET SUBSET Entities, proposed : SUBSET Entities]

GraphTypes == known \subseteq Nodes /\ asserted \subseteq Edges
              /\ derived \subseteq Entities \X Nodes \X Nodes
SweepTypes == sweep \in [Sweepers -> SweepRecs]
PassTypes  == pass \in [Compiles -> PassRecs]
CheckTypes == checked \subseteq Entities \X Entities

\* A sweep replays links of its list, all of which are decided.
SweepInv == \A s \in Sweepers : /\ sweep[s].todo \subseteq sweep[s].links
                               /\ sweep[s].links \subseteq Approved \union Rejected

\* What a pass has read is what the rows still say, and no other holds a snapshot beside it.
Reads(x) == x.at = "arbitrate" => /\ x.links = Approved /\ x.rejected = Pairs(Rejected)
                                  /\ Pairs(Pending) \subseteq x.awaiting
PassInv == (\A d \in Compiles : Reads(pass[d])) /\ (\A d, e \in Reading : d = e)

\* What an --apply has checked is still so, and no other decides beside it.
Clear(p) == /\ {p[1], p[2]} \notin Pairs(Rejected)
            /\ ~PairConflict(Approved, Pairs(Rejected), Pairs(Pending), p[1],
                             Terminal(Approved, p[2]), {p[1], p[2]})
CheckInv == /\ \A p, q \in checked : p = q
            /\ checked # {} => Reading = {}
            /\ \A p \in checked : p \in Pending /\ Clear(p)

AliasTypes == /\ Decided /\ GraphTypes /\ SweepTypes /\ PassTypes /\ CheckTypes /\ SweepInv
              /\ rebuilt \in {"stale", "sweeping", "exact"} /\ Single(Approved \union Pending)

AliasInv == AliasTypes /\ PassInv /\ CheckInv /\ KeepsApart(Approved, Pending, Rejected)

LEMMA Rows == ASSUME Decided PROVE Approved \in Links /\ Pending \in Links /\ Rejected \in Links
BY DEF Decided, Approved, Pending, Rejected, With, Links

LEMMA NoRows ==
  ASSUME Decided, NEW a \in Entities
  PROVE  Active(a) = {p \in Approved \union Pending : p[1] = a}
BY DEF Active, Approved, Pending

\* What one row's new status does to the three lists.
LEMMA RowSet ==
  ASSUME Decided, NEW q \in Entities \X Entities, decision[q] # "rejected"
  PROVE  /\ decision' = [decision EXCEPT ![q] = "applied"] =>
              /\ Decided' /\ Approved' = Approved \union {q} /\ Pending' = Pending \ {q}
              /\ Rejected' = Rejected
         /\ decision' = [decision EXCEPT ![q] = "pending"] /\ decision[q] # "applied" =>
              /\ Decided' /\ Approved' = Approved /\ Pending' = Pending \union {q}
              /\ Rejected' = Rejected
<1>1. ASSUME NEW st \in Statuses, decision' = [decision EXCEPT ![q] = st]
      PROVE  /\ Decided' /\ DOMAIN decision' = Entities \X Entities
             /\ DOMAIN decision = Entities \X Entities
             /\ \A p \in Entities \X Entities : decision'[p] = IF p = q THEN st ELSE decision[p]
  BY <1>1 DEF Decided
<1>2. "applied" \in Statuses /\ "pending" \in Statuses
  BY DEF Statuses
<1>3. ASSUME decision' = [decision EXCEPT ![q] = "applied"]
      PROVE  /\ Decided' /\ Approved' = Approved \union {q} /\ Pending' = Pending \ {q}
             /\ Rejected' = Rejected
  <2>1. Decided' /\ DOMAIN decision' = Entities \X Entities
        /\ DOMAIN decision = Entities \X Entities
    BY <1>1, <1>2, <1>3
  <2>2. \A p \in Entities \X Entities : decision'[p] = IF p = q THEN "applied" ELSE decision[p]
    BY <1>1, <1>2, <1>3
  <2> QED BY <2>1, <2>2 DEF Approved, Pending, Rejected, With
<1>4. ASSUME decision' = [decision EXCEPT ![q] = "pending"], decision[q] # "applied"
      PROVE  /\ Decided' /\ Approved' = Approved /\ Pending' = Pending \union {q}
             /\ Rejected' = Rejected
  <2>1. Decided' /\ DOMAIN decision' = Entities \X Entities
        /\ DOMAIN decision = Entities \X Entities
    BY <1>1, <1>2, <1>4
  <2>2. \A p \in Entities \X Entities : decision'[p] = IF p = q THEN "pending" ELSE decision[p]
    BY <1>1, <1>2, <1>4
  <2> QED BY <1>4, <2>1, <2>2 DEF Approved, Pending, Rejected, With
<1> QED BY <1>3, <1>4

LEMMA RowsRejected ==
  ASSUME Decided, NEW L \in SUBSET (Approved \union Pending), SetRejected(L)
  PROVE  Decided' /\ Approved' = Approved \ L /\ Pending' = Pending \ L
         /\ Rejected' = Rejected \union L
<1>1. L \subseteq Entities \X Entities
  BY Rows DEF Links
<1>2. /\ DOMAIN decision' = Entities \X Entities /\ DOMAIN decision = Entities \X Entities
      /\ \A p \in Entities \X Entities : decision'[p] = IF p \in L THEN "rejected" ELSE decision[p]
  BY DEF Decided, SetRejected
<1>3. Decided'
  BY DEF Decided, SetRejected, Statuses
<1>4. \A p \in L : decision[p] # "rejected"
  BY DEF Approved, Pending, With
<1> QED BY <1>1, <1>2, <1>3, <1>4 DEF Approved, Pending, Rejected, With

LEMMA NoSweepIs ==
  NoSweep \in SweepRecs /\ NoSweep.links = {} /\ NoSweep.todo = {} /\ NoPass \in PassRecs
  /\ NoPass.at = "idle"
<1>1. {} \in Links /\ 0 \in 0..(MaxSweepPasses - 1)
  BY AliasAssumption DEF Links
<1> QED BY <1>1 DEF NoSweep, NoPass, SweepRecs, PassRecs

LEMMA ListedIs ==
  ASSUME Decided
  PROVE  /\ Listed \in SweepRecs /\ Listed.links = Approved /\ Listed.todo = {}
         /\ \A a, c : [Listed EXCEPT !.links = @ \ {<<a, c>>}] \in SweepRecs
                     /\ [Listed EXCEPT !.links = @ \ {<<a, c>>}].links = Approved \ {<<a, c>>}
                     /\ [Listed EXCEPT !.links = @ \ {<<a, c>>}].todo = {}
<1>1. Approved \in Links /\ \A q : Approved \ {q} \in Links
  BY Rows DEF Links
<1>2. Listed = [NoSweep EXCEPT !.at = "listed", !.links = Approved]
  BY DEF Listed, Approved
<1>3. Listed \in SweepRecs /\ Listed.links = Approved /\ Listed.todo = {}
  BY <1>1, <1>2, NoSweepIs DEF SweepRecs
<1> QED BY <1>1, <1>3 DEF SweepRecs

LEMMA PairsAre == ASSUME NEW links \in Links PROVE Pairs(links) \in SUBSET SUBSET Entities
BY DEF Pairs, Links

LEMMA CopiesAre ==
  ASSUME GraphTypes, NEW a \in Entities, NEW c \in Entities
  PROVE  DerivedCopies(a, c) \subseteq Entities \X Nodes \X Nodes
<1>1. asserted \union DerivedEdges \subseteq Nodes \X Nodes
  BY AliasAssumption DEF GraphTypes, DerivedEdges
<1>2. c \in Nodes
  BY DEF Nodes
<1>3. \A e \in asserted \union DerivedEdges : Move(a, c, e[1]) \in Nodes
      /\ Move(a, c, e[2]) \in Nodes
  BY <1>1, <1>2 DEF Move
<1> QED BY <1>3 DEF DerivedCopies

LEMMA AliasTypesInit == AliasInit => AliasInv
<1> SUFFICES ASSUME AliasInit PROVE AliasInv
  OBVIOUS
<1>1. Decided /\ Approved = {} /\ Pending = {} /\ Rejected = {}
  BY DEF AliasInit, Decided, Approved, Pending, Rejected, With, Statuses
<1>2. GraphTypes /\ rebuilt \in {"stale", "sweeping", "exact"}
  BY DEF AliasInit, GraphTypes
<1>3. SweepTypes /\ PassTypes /\ CheckTypes /\ SweepInv
  BY NoSweepIs DEF AliasInit, SweepTypes, PassTypes, CheckTypes, SweepInv
<1>4. PassInv /\ CheckInv
  <2>1. Reading = {} /\ \A d \in Compiles : Reads(pass[d])
    BY NoSweepIs DEF AliasInit, Reading, Reads
  <2> QED BY <2>1 DEF AliasInit, PassInv, CheckInv
<1>5. KeepsApart({}, {}, {})
  BY DEF KeepsApart, Single, Acyclic, Forest, Apart
<1>6. AliasTypes
  BY <1>1, <1>2, <1>3 DEF AliasTypes, Single
<1> QED BY <1>1, <1>4, <1>5, <1>6 DEF AliasInv

\* A step that decides nothing leaves the rows.
LEMMA RowsStay ==
  ASSUME decision' = decision
  PROVE  Approved' = Approved /\ Pending' = Pending /\ Rejected' = Rejected
         /\ (Decided => Decided')
BY DEF Approved, Pending, Rejected, With, Decided

\* The replay of a link finds it applied, or its row is left alone.
LEMMA ReplayDecidesNothing ==
  ASSUME AliasTypes, NEW s \in Sweepers, NEW p \in sweep[s].todo, SweepLinks(s, p)
  PROVE  decision' = decision /\ GraphTypes'
<1>1. p \in Approved \union Rejected /\ p = <<p[1], p[2]>> /\ p[1] \in Entities
      /\ p[2] \in Entities
  <2>1. p \in Approved \union Rejected
    BY DEF AliasTypes, SweepInv
  <2> QED BY <2>1, Rows, LinkEnds DEF AliasTypes
<1>2. decision[p] \in {"applied", "rejected"} /\ p \in DOMAIN decision
  BY <1>1 DEF Approved, Rejected, With
<1>3. CASE UNCHANGED <<derived, decision>>
  BY <1>3 DEF AliasTypes, GraphTypes, SweepLinks
<1>4. CASE LinkAlias(p[1], p[2])
  <2>1. CASE MayLink(p[1], p[2])
    <3>1. decision[p] = "applied"
      BY <1>1, <1>2, <2>1 DEF MayLink
    <3>2. decision' = [decision EXCEPT ![p] = "applied"]
          /\ derived' = derived \union DerivedCopies(p[1], p[2])
      BY <1>1, <1>4, <2>1 DEF LinkAlias
    <3>3. decision' = decision
      BY <3>1, <3>2 DEF AliasTypes, Decided
    <3> QED BY <1>1, <3>2, <3>3, CopiesAre DEF AliasTypes, GraphTypes, SweepLinks
  <2>2. CASE ~MayLink(p[1], p[2])
    BY <1>4, <2>2 DEF LinkAlias, AliasTypes, GraphTypes, SweepLinks
  <2> QED BY <2>1, <2>2
<1> QED BY <1>3, <1>4 DEF SweepLinks

\* One sweep moves on, or none does; rows that were decided stay so.
LEMMA SweepMoves ==
  ASSUME SweepTypes, SweepInv, Approved \union Rejected \subseteq (Approved \union Rejected)',
         \/ sweep' = sweep
         \/ \E s \in Sweepers : \E r \in SweepRecs :
              /\ sweep' = [sweep EXCEPT ![s] = r]
              /\ r.todo \subseteq r.links /\ r.links \subseteq (Approved \union Rejected)'
  PROVE  SweepTypes' /\ SweepInv'
<1>1. PICK D : D = (Approved \union Rejected)'
  OBVIOUS
<1>2. ASSUME NEW s \in Sweepers
      PROVE  /\ sweep'[s] \in SweepRecs
             /\ sweep'[s].todo \subseteq sweep'[s].links /\ sweep'[s].links \subseteq D
  BY <1>1 DEF SweepTypes, SweepInv
<1>3. sweep' \in [Sweepers -> SweepRecs]
  BY <1>2 DEF SweepTypes
<1> QED BY <1>1, <1>2, <1>3 DEF SweepTypes, SweepInv

LEMMA SweepActs ==
  ASSUME AliasTypes, NEW s \in Sweepers,
         \/ SweepClears(s) \/ SweepPassEnds(s) \/ SweepStops(s)
         \/ \E p \in sweep[s].todo : SweepLinks(s, p) \/ SweepLinkFails(s, p)
  PROVE  /\ decision' = decision /\ pass' = pass /\ GraphTypes'
         /\ rebuilt' \in {"stale", "sweeping", "exact"}
         /\ \E r \in SweepRecs : /\ sweep' = [sweep EXCEPT ![s] = r]
                                 /\ r.todo \subseteq r.links
                                 /\ r.links \subseteq Approved \union Rejected
<1> DEFINE w == sweep[s]
<1>1. w \in SweepRecs /\ sweep \in [Sweepers -> SweepRecs]
  BY DEF AliasTypes, SweepTypes
<1>2. w.todo \subseteq w.links /\ w.links \subseteq Approved \union Rejected /\ w.todo \in Links
      /\ w.links \in Links
  BY <1>1 DEF AliasTypes, SweepInv, SweepRecs
<1>3. GraphTypes /\ rebuilt \in {"stale", "sweeping", "exact"}
  BY DEF AliasTypes
<1>4. Pairs(With("rejected")) \in SUBSET SUBSET Entities
  BY Rows, PairsAre DEF AliasTypes, Rejected
<1>5. Done(s) => /\ sweep' = [sweep EXCEPT ![s] = NoSweep]
                 /\ rebuilt' \in {"stale", "sweeping", "exact"}
  BY <1>3 DEF Done
<1>6. NoSweep \in SweepRecs /\ NoSweep.todo \subseteq NoSweep.links
      /\ NoSweep.links \subseteq Approved \union Rejected
  BY NoSweepIs
<1>7. CASE SweepClears(s)
  <2>1. decision' = decision /\ pass' = pass /\ GraphTypes'
    BY <1>3, <1>7 DEF SweepClears, GraphTypes
  <2>2. CASE w.links = {}
    BY <1>5, <1>6, <1>7, <2>1, <2>2 DEF SweepClears
  <2>3. CASE w.links # {}
    <3> DEFINE r == [[[w EXCEPT !.at = "replay"] EXCEPT !.rejected = Pairs(With("rejected"))]
                       EXCEPT !.todo = w.links]
    <3>1. r \in SweepRecs /\ r.todo = w.links /\ r.links = w.links
      BY <1>1, <1>2, <1>4 DEF SweepRecs
    <3>2. sweep' = [sweep EXCEPT ![s].at = "replay", ![s].rejected = Pairs(With("rejected")),
                      ![s].todo = sweep[s].links]
      BY <1>7, <2>3 DEF SweepClears
    <3>3. sweep' = [sweep EXCEPT ![s] = r]
      BY <1>1, <3>2
    <3>4. rebuilt' = rebuilt
      BY <1>7, <2>3 DEF SweepClears
    <3> HIDE DEF r
    <3> QED BY <1>2, <1>3, <2>1, <3>1, <3>3, <3>4
  <2> QED BY <2>2, <2>3
<1>8. CASE SweepPassEnds(s)
  <2>1. decision' = decision /\ pass' = pass /\ GraphTypes'
    BY <1>3, <1>8 DEF SweepPassEnds, GraphTypes
  <2>2. CASE w.copied /\ w.passes + 1 < MaxSweepPasses
    <3> DEFINE r == [[[w EXCEPT !.todo = w.links] EXCEPT !.copied = FALSE]
                       EXCEPT !.passes = w.passes + 1]
    <3>0. w.passes + 1 \in 0..(MaxSweepPasses - 1)
      BY <1>1, <2>2, AliasAssumption DEF SweepRecs
    <3>1. r \in SweepRecs /\ r.todo = w.links /\ r.links = w.links
      BY <1>1, <1>2, <3>0 DEF SweepRecs
    <3>2. sweep' = [sweep EXCEPT ![s].todo = sweep[s].links, ![s].copied = FALSE,
                      ![s].passes = @ + 1]
      BY <1>8, <2>2 DEF SweepPassEnds
    <3>3. sweep' = [sweep EXCEPT ![s] = r]
      BY <1>1, <3>2
    <3>4. rebuilt' = rebuilt
      BY <1>8, <2>2 DEF SweepPassEnds
    <3> HIDE DEF r
    <3> QED BY <1>2, <1>3, <2>1, <3>1, <3>3, <3>4
  <2>3. CASE ~(w.copied /\ w.passes + 1 < MaxSweepPasses)
    BY <1>5, <1>6, <1>8, <2>1, <2>3 DEF SweepPassEnds
  <2> QED BY <2>2, <2>3
<1>9. CASE SweepStops(s)
  BY <1>3, <1>6, <1>9 DEF SweepStops, GraphTypes
<1>10. ASSUME NEW p \in sweep[s].todo, SweepLinks(s, p) \/ SweepLinkFails(s, p)
       PROVE  /\ decision' = decision /\ pass' = pass /\ GraphTypes'
              /\ rebuilt' \in {"stale", "sweeping", "exact"}
              /\ \E b \in BOOLEAN : sweep' = [sweep EXCEPT ![s].todo = @ \ {p}, ![s].copied = b]
  <2>1. CASE SweepLinks(s, p)
    <3>1. decision' = decision /\ GraphTypes'
      BY <2>1, ReplayDecidesNothing
    <3>2. PICK new \in BOOLEAN : sweep' = [sweep EXCEPT ![s].todo = @ \ {p},
                                             ![s].copied = @ \/ new]
      <4>1. PICK new : /\ new \in BOOLEAN
                       /\ sweep' = [sweep EXCEPT ![s].todo = @ \ {p}, ![s].copied = @ \/ new]
        BY <2>1 DEF SweepLinks
      <4> QED BY <4>1
    <3>3. sweep' = [sweep EXCEPT ![s].todo = @ \ {p}, ![s].copied = w.copied \/ new]
          /\ (w.copied \/ new) \in BOOLEAN
      BY <1>1, <3>2 DEF SweepRecs
    <3> QED BY <1>3, <2>1, <3>1, <3>3 DEF SweepLinks
  <2>2. CASE SweepLinkFails(s, p)
    <3>1. sweep' = [sweep EXCEPT ![s].todo = @ \ {p}]
      BY <2>2 DEF SweepLinkFails
    <3>2. sweep' = [sweep EXCEPT ![s].todo = @ \ {p}, ![s].copied = w.copied]
          /\ w.copied \in BOOLEAN
      BY <1>1, <3>1 DEF SweepRecs
    <3> QED BY <1>3, <2>2, <3>2 DEF SweepLinkFails, GraphTypes
  <2> QED BY <1>10, <2>1, <2>2
<1>11. ASSUME NEW p, NEW b \in BOOLEAN,
              sweep' = [sweep EXCEPT ![s].todo = @ \ {p}, ![s].copied = b]
       PROVE  \E r \in SweepRecs : /\ sweep' = [sweep EXCEPT ![s] = r]
                                   /\ r.todo \subseteq r.links
                                   /\ r.links \subseteq Approved \union Rejected
  <2> DEFINE r == [[w EXCEPT !.todo = w.todo \ {p}] EXCEPT !.copied = b]
  <2>1. w.todo \ {p} \in Links
    BY <1>2 DEF Links
  <2>2. r \in SweepRecs /\ r.todo = w.todo \ {p} /\ r.links = w.links
    BY <1>1, <2>1 DEF SweepRecs
  <2>3. sweep' = [sweep EXCEPT ![s] = r]
    BY <1>1, <1>11
  <2> HIDE DEF r
  <2> QED BY <1>2, <2>2, <2>3
<1> QED BY <1>7, <1>8, <1>9, <1>10, <1>11

\* A sweep leaves what commands have checked.
LEMMA SweepLeaves ==
  ASSUME NEW s,
         \/ SweepClears(s) \/ SweepPassEnds(s) \/ SweepStops(s)
         \/ \E p \in sweep[s].todo : SweepLinks(s, p) \/ SweepLinkFails(s, p)
  PROVE  checked' = checked
BY DEF SweepClears, SweepPassEnds, SweepStops, SweepLinks, SweepLinkFails

\* What a proposal changes: a link, or a row that waits for the user, from an entity with
\* no row of its own.
Proposed(d, a, c, end, t) ==
  /\ end = Terminal(Approved, c) /\ t \in {end, c} /\ t # a /\ end # a
  /\ pass[d].at = "arbitrate" /\ \A p \in Approved \union Pending : p[1] # a
  /\ ~PairConflict(pass[d].links, pass[d].rejected, pass[d].awaiting, a, end, {})

Joins(d, a, t) ==
  /\ Approved' = Approved \union {<<a, t>>} /\ Pending' = Pending /\ <<a, t>> \notin Rejected
  /\ pass'[d].links = pass[d].links \union {<<a, t>>} /\ pass'[d].awaiting = pass[d].awaiting

Queues(d, a, t) ==
  /\ Approved' = Approved /\ Pending' \in {Pending, Pending \union {<<a, t>>}}
  /\ pass'[d].links = pass[d].links
  /\ pass'[d].awaiting = pass[d].awaiting \union {{a, t}}

LEMMA ProposeDoes ==
  ASSUME AliasTypes, NEW d \in Compiles, NEW a \in Entities, NEW c \in Entities,
         NEW certain \in BOOLEAN, NEW ghost \in BOOLEAN, Propose(d, a, c, certain, ghost)
  PROVE  /\ sweep' = sweep /\ GraphTypes' /\ rebuilt' \in {"stale", "sweeping", "exact"}
         /\ PassTypes' /\ pass'[d].at = pass[d].at /\ pass'[d].rejected = pass[d].rejected
         /\ checked' = checked /\ \A e \in Compiles \ {d} : pass'[e] = pass[e]
         /\ Decided' /\ Rejected' = Rejected /\ known' = known /\ asserted' = asserted
         /\ \/ rebuilt' = "stale"
            \/ rebuilt' = rebuilt /\ derived' = derived /\ Approved' = Approved
         /\ \E end, t \in Entities : Proposed(d, a, c, end, t)
            /\ ((t = end /\ Joins(d, a, t)) \/ Queues(d, a, t))
<1>1. Decided /\ GraphTypes /\ rebuilt \in {"stale", "sweeping", "exact"}
      /\ pass \in [Compiles -> PassRecs] /\ pass[d] \in PassRecs
  BY DEF AliasTypes, PassTypes
<1> DEFINE w == pass[d]
<1>2. PICK end \in Entities : end = Terminal(Approved, c)
  <2>1. Terminal(Approved, c) \in Entities
    BY <1>1, Rows, TerminalIs, ClusterHas
  <2> QED BY <2>1
<1>4. PICK t \in Entities : t = IF ghost THEN c ELSE end
  OBVIOUS
<1>5. Proposed(d, a, c, end, t) /\ sweep' = sweep /\ known' = known /\ asserted' = asserted
      /\ Active(a) = {} /\ checked' = checked
  <2>1. \A p \in Approved \union Pending : p[1] # a
    BY <1>1, NoRows DEF Propose
  <2> QED BY <1>2, <1>4, <2>1 DEF Propose, Proposed, Approved
<1>6. IF certain /\ ~ghost
      THEN /\ MayLink(a, t) /\ LinkAlias(a, t) /\ rebuilt' = "stale"
           /\ pass' = [pass EXCEPT ![d].proposed = @ \union {a},
                                   ![d].links = @ \union {<<a, t>>}]
      ELSE /\ PutPending(a, t)
           /\ pass' = [pass EXCEPT ![d].proposed = @ \union {a},
                                   ![d].awaiting = @ \union {{a, t}}]
           /\ UNCHANGED <<derived, rebuilt>>
  BY <1>2, <1>4 DEF Propose, Approved
<1>7. <<a, t>> \in Entities \X Entities
  OBVIOUS
<1>8. CASE certain /\ ~ghost
  <2>1. /\ decision' = [decision EXCEPT ![<<a, t>>] = "applied"]
        /\ decision[<<a, t>>] # "rejected"
        /\ derived' = derived \union DerivedCopies(a, t)
    BY <1>6, <1>8 DEF LinkAlias, MayLink
  <2>2. Decided' /\ Approved' = Approved \union {<<a, t>>} /\ Pending' = Pending \ {<<a, t>>}
        /\ Rejected' = Rejected
    BY <1>1, <1>7, <2>1, RowSet
  <2>3. <<a, t>> \notin Pending
    BY <1>5 DEF Proposed
  <2>4. GraphTypes'
    BY <1>1, <1>5, <2>1, CopiesAre DEF GraphTypes
  <2>5. w.links \union {<<a, t>>} \in Links /\ w.proposed \union {a} \in SUBSET Entities
    BY <1>1 DEF PassRecs, Links
  <2>6. /\ PassTypes' /\ pass'[d].at = w.at /\ pass'[d].rejected = w.rejected
        /\ pass'[d].links = w.links \union {<<a, t>>} /\ pass'[d].awaiting = w.awaiting
        /\ \A e \in Compiles \ {d} : pass'[e] = pass[e]
    <3>1. PICK ls \in Links : ls = w.links \union {<<a, t>>}
      BY <2>5
    <3>2. PICK pr \in SUBSET Entities : pr = w.proposed \union {a}
      BY <2>5
    <3>3. PICK y : y = [[w EXCEPT !.proposed = pr] EXCEPT !.links = ls]
      OBVIOUS
    <3>4. /\ y \in PassRecs /\ y.at = w.at /\ y.rejected = w.rejected
          /\ y.links = ls /\ y.awaiting = w.awaiting
      BY <1>1, <3>3 DEF PassRecs
    <3>5. pass' = [pass EXCEPT ![d].proposed = @ \union {a}, ![d].links = @ \union {<<a, t>>}]
      BY <1>6, <1>8
    <3>6. pass' = [pass EXCEPT ![d] = y]
      BY <1>1, <3>1, <3>2, <3>3, <3>5
    <3> QED BY <1>1, <3>1, <3>4, <3>6 DEF PassTypes
  <2>7. <<a, t>> \notin Rejected
    BY <2>1 DEF Rejected, With
  <2>8. Joins(d, a, t) /\ t = end
    BY <1>4, <1>8, <2>2, <2>3, <2>6, <2>7 DEF Joins
  <2>9. PassTypes' /\ rebuilt' = "stale"
    BY <1>6, <1>8, <2>6
  <2>10. \E e, x \in Entities : Proposed(d, a, c, e, x)
                                /\ ((x = e /\ Joins(d, a, x)) \/ Queues(d, a, x))
    BY <1>5, <2>8
  <2> QED BY <1>5, <2>2, <2>4, <2>6, <2>9, <2>10
<1>9. CASE ~(certain /\ ~ghost)
  <2>1. /\ decision' = [decision EXCEPT ![<<a, t>>] =
                            IF decision[<<a, t>>] # "rejected" THEN "pending"
                            ELSE decision[<<a, t>>]]
        /\ derived' = derived /\ rebuilt' = rebuilt
    BY <1>5, <1>6, <1>9 DEF PutPending
  <2>2. <<a, t>> \notin Approved
    BY <1>5 DEF Proposed
  <2>3. decision[<<a, t>>] # "applied"
    BY <1>1, <1>7, <2>2 DEF Approved, With, Decided
  <2>4. Decided' /\ Approved' = Approved /\ Pending' \in {Pending, Pending \union {<<a, t>>}}
        /\ Rejected' = Rejected
    <3>1. CASE decision[<<a, t>>] = "rejected"
      <4>1. decision' = decision
        BY <1>1, <2>1, <3>1 DEF Decided
      <4> QED BY <1>1, <4>1, RowsStay
    <3>2. CASE decision[<<a, t>>] # "rejected"
      <4>1. decision' = [decision EXCEPT ![<<a, t>>] = "pending"]
        BY <2>1, <3>2
      <4> QED BY <1>1, <1>7, <2>3, <3>2, <4>1, RowSet
    <3> QED BY <3>1, <3>2
  <2>5. w.awaiting \union {{a, t}} \in SUBSET SUBSET Entities
        /\ w.proposed \union {a} \in SUBSET Entities
    BY <1>1 DEF PassRecs
  <2>6. /\ PassTypes' /\ pass'[d].at = w.at /\ pass'[d].rejected = w.rejected
        /\ pass'[d].links = w.links /\ pass'[d].awaiting = w.awaiting \union {{a, t}}
        /\ \A e \in Compiles \ {d} : pass'[e] = pass[e]
    <3>1. PICK aw \in SUBSET SUBSET Entities : aw = w.awaiting \union {{a, t}}
      BY <2>5
    <3>2. PICK pr \in SUBSET Entities : pr = w.proposed \union {a}
      BY <2>5
    <3>3. PICK y : y = [[w EXCEPT !.proposed = pr] EXCEPT !.awaiting = aw]
      OBVIOUS
    <3>4. /\ y \in PassRecs /\ y.at = w.at /\ y.rejected = w.rejected
          /\ y.links = w.links /\ y.awaiting = aw
      BY <1>1, <3>3 DEF PassRecs
    <3>5. pass' = [pass EXCEPT ![d].proposed = @ \union {a}, ![d].awaiting = @ \union {{a, t}}]
      BY <1>6, <1>9
    <3>6. pass' = [pass EXCEPT ![d] = y]
      BY <1>1, <3>1, <3>2, <3>3, <3>5
    <3> QED BY <1>1, <3>1, <3>4, <3>6 DEF PassTypes
  <2>7. Queues(d, a, t)
    BY <2>4, <2>6 DEF Queues
  <2>8. GraphTypes'
    BY <1>1, <1>5, <2>1 DEF GraphTypes
  <2> QED BY <1>1, <1>5, <2>1, <2>4, <2>6, <2>7, <2>8
<1> QED BY <1>8, <1>9

LEMMA ApplyDoes ==
  ASSUME AliasTypes, NEW a \in Entities, NEW c \in Entities, Apply(a, c)
  PROVE  /\ sweep' = sweep /\ pass' = pass /\ GraphTypes' /\ rebuilt' = "stale"
         /\ Decided' /\ <<a, c>> \in checked /\ checked' = checked \ {<<a, c>>}
         /\ {p \in Approved \union Pending : p[1] = a} \subseteq {<<a, c>>}
         /\ Approved' = Approved \union {<<a, c>>} /\ Pending' = Pending \ {<<a, c>>}
         /\ Rejected' = Rejected
<1>1. Decided /\ GraphTypes /\ <<a, c>> \in Entities \X Entities
  BY DEF AliasTypes
<1>2. /\ decision' = [decision EXCEPT ![<<a, c>>] = "applied"] /\ decision[<<a, c>>] # "rejected"
      /\ derived' = derived \union DerivedCopies(a, c) /\ Active(a) \subseteq {<<a, c>>}
  BY DEF Apply, LinkAlias, MayLink
<1>3. GraphTypes'
  BY <1>1, <1>2, CopiesAre DEF GraphTypes, Apply
<1>4. {p \in Approved \union Pending : p[1] = a} \subseteq {<<a, c>>}
  BY <1>1, <1>2, NoRows
<1>5. Decided' /\ Approved' = Approved \union {<<a, c>>} /\ Pending' = Pending \ {<<a, c>>}
      /\ Rejected' = Rejected
  BY <1>1, <1>2, RowSet
<1> QED BY <1>3, <1>4, <1>5 DEF Apply

LEMMA RejectDoes ==
  ASSUME AliasTypes, NEW a \in Entities, NEW c \in Entities,
         \/ \E both \in BOOLEAN : Reject(a, c, both)
         \/ Unlink(a, c)
  PROVE  /\ pass' = pass /\ GraphTypes' /\ rebuilt' \in {"stale", "sweeping"} /\ MayDecide
         /\ checked' = checked
         /\ \E L \in SUBSET (Approved \union Pending) : SetRejected(L)
         /\ \/ sweep' = sweep
            \/ \E r \in SweepRecs : /\ sweep' = [sweep EXCEPT !["cli"] = r]
                                    /\ r.todo = {} /\ r.links \subseteq Approved
<1>1. Decided /\ GraphTypes
  BY DEF AliasTypes
<1>2. ASSUME NEW both \in BOOLEAN, Reject(a, c, both)
      PROVE  /\ pass' = pass /\ GraphTypes' /\ rebuilt' \in {"stale", "sweeping"} /\ MayDecide
             /\ sweep' = sweep /\ checked' = checked
             /\ \E L \in SUBSET (Approved \union Pending) : SetRejected(L)
  <2> DEFINE L == {<<a, c>>} \union (IF both THEN Active(c) \intersect {<<c, a>>} ELSE {})
  <2>1. SetRejected(L) /\ <<a, c>> \in Active(a)
    BY <1>2 DEF Reject
  <2>2. Active(a) \subseteq Approved \union Pending /\ Active(c) \subseteq Approved \union Pending
    BY <1>1, NoRows
  <2>3. L \in SUBSET (Approved \union Pending)
    BY <2>1, <2>2
  <2> HIDE DEF L
  <2> QED BY <1>1, <1>2, <2>1, <2>3 DEF Reject, GraphTypes
<1>3. CASE Unlink(a, c)
  <2> DEFINE r == [Listed EXCEPT !.links = @ \ {<<a, c>>}]
  <2>1. SetRejected({<<a, c>>}) /\ decision[<<a, c>>] = "applied"
    BY <1>3 DEF Unlink
  <2>2. {<<a, c>>} \in SUBSET (Approved \union Pending)
    BY <1>1, <2>1 DEF Approved, With, Decided
  <2>3. GraphTypes'
    BY <1>1, <1>3 DEF Unlink, GraphTypes
  <2>4. r \in SweepRecs /\ r.todo = {} /\ r.links \subseteq Approved
    BY <1>1, ListedIs
  <2>5. sweep' = [sweep EXCEPT !["cli"] = r]
    BY <1>3 DEF Unlink
  <2> HIDE DEF r
  <2>6. \E x \in SweepRecs : /\ sweep' = [sweep EXCEPT !["cli"] = x]
                             /\ x.todo = {} /\ x.links \subseteq Approved
    BY <2>4, <2>5
  <2> QED BY <1>3, <2>1, <2>2, <2>3, <2>6 DEF Unlink
<1> QED BY <1>2, <1>3

\* The other steps decide nothing.
Idles ==
  \/ \E e \in Edges : AddRelation(e)
  \/ \E e \in Prunable : DeleteEntity(e) \/ AddEntity(e)
  \/ \E d \in Compiles : \/ BeginPass(d) \/ EndPass(d)
                         \/ \E touched \in SUBSET Entities : LoadSnapshot(d, touched)
  \/ \E a, c \in Entities : CheckProposal(a, c) \/ ApplyFails(a, c)
  \/ SweepCommand

\* A pass that has just read the rows, where nothing else holds what it has read.
SnapshotNow(x) ==
  /\ x.links = Approved /\ x.rejected = Pairs(Rejected) /\ x.awaiting = Pairs(Pending)
  /\ Reading # {} => "passes" \in AliasRaces
  /\ checked # {} => "decide" \in AliasRaces

\* What commands have checked: they check another, or are done with one.
Checks ==
  \/ \E a, c \in Entities :
        /\ MayDecide /\ <<a, c>> \in Pending /\ Clear(<<a, c>>)
        /\ checked' = checked \union {<<a, c>>}
  \/ checked' \subseteq checked

IdlesDone ==
  /\ decision' = decision /\ GraphTypes' /\ rebuilt' \in {"stale", "sweeping", "exact"}
  /\ PassTypes' /\ CheckTypes' /\ Checks
  /\ \/ sweep' = sweep
     \/ \E s \in Sweepers : \E r \in SweepRecs :
          /\ sweep' = [sweep EXCEPT ![s] = r] /\ r.todo = {} /\ r.links = Approved
  /\ \/ pass' = pass
     \/ \E d \in Compiles, x \in PassRecs :
          /\ pass' = [pass EXCEPT ![d] = x] /\ checked' = checked
          /\ x.at # "arbitrate" \/ SnapshotNow(x)

LEMMA IdlesDo ==
  ASSUME AliasTypes, Idles
  PROVE  IdlesDone
<1>1. /\ Decided /\ GraphTypes /\ rebuilt \in {"stale", "sweeping", "exact"} /\ CheckTypes
      /\ pass \in [Compiles -> PassRecs]
      /\ Approved \in Links /\ Pairs(Rejected) \in SUBSET SUBSET Entities
      /\ Pairs(Pending) \in SUBSET SUBSET Entities
  <2>1. Decided
    BY DEF AliasTypes
  <2> QED BY <2>1, Rows, PairsAre DEF AliasTypes, PassTypes
<1>2. /\ Listed \in SweepRecs /\ Listed.todo = {} /\ Listed.links = Approved
      /\ "cli" \in Sweepers /\ \A d \in Compiles : d \in Sweepers
  BY <1>1, ListedIs DEF Sweepers
<1>3. ASSUME NEW e \in Edges, AddRelation(e) PROVE GraphTypes'
  BY <1>1, <1>3 DEF AddRelation, GraphTypes
<1>4. ASSUME NEW e \in Prunable, DeleteEntity(e) \/ AddEntity(e) PROVE GraphTypes'
  BY <1>1, <1>4, AliasAssumption DEF DeleteEntity, AddEntity, GraphTypes
<1>5. ASSUME NEW d \in Compiles, NEW touched \in SUBSET Entities, LoadSnapshot(d, touched)
      PROVE  \E x \in PassRecs : /\ pass' = [pass EXCEPT ![d] = x] /\ checked' = checked
                                 /\ x.at # "arbitrate" \/ SnapshotNow(x)
  <2> DEFINE w == pass[d]
  <2>1. w \in PassRecs /\ checked' = checked
    BY <1>1, <1>5 DEF LoadSnapshot
  <2>2. \/ pass' = [pass EXCEPT ![d] = NoPass]
        \/ \E sd, bl : /\ sd \in SUBSET Entities /\ bl \in SUBSET SUBSET Entities
                       /\ pass' = [pass EXCEPT ![d] =
                                     [w EXCEPT !.at = "arbitrate", !.seeds = sd, !.blocks = bl,
                                        !.links = Approved,
                                        !.rejected = Pairs(Rejected), !.awaiting = Pairs(Pending)]]
    <3> DEFINE rows  == With("applied") \union With("pending") \union With("rejected")
               seeds == {e \in touched \intersect known : Active(e) = {}}
               block(e) == {e} \union {c \in Entities \intersect known :
                                            {e, c} \notin Pairs(rows)}
               blocks == {block(e) : e \in seeds}
    <3>1. seeds \in SUBSET Entities /\ blocks \in SUBSET SUBSET Entities
      OBVIOUS
    <3>2. pass' = [pass EXCEPT ![d] =
                     IF seeds = {} THEN NoPass
                     ELSE [@ EXCEPT !.at = "arbitrate", !.seeds = seeds, !.blocks = blocks,
                             !.links = With("applied"),
                             !.rejected = Pairs(With("rejected")),
                             !.awaiting = Pairs(With("pending"))]]
      BY <1>5 DEF LoadSnapshot
    <3> HIDE DEF seeds, blocks
    <3> QED BY <1>1, <3>1, <3>2 DEF Approved, Pending, Rejected
  <2>3. CASE pass' = [pass EXCEPT ![d] = NoPass]
    BY <2>1, <2>3, NoSweepIs
  <2>4. ASSUME NEW sd, NEW bl, sd \in SUBSET Entities, bl \in SUBSET SUBSET Entities,
               pass' = [pass EXCEPT ![d] =
                          [w EXCEPT !.at = "arbitrate", !.seeds = sd, !.blocks = bl,
                             !.links = Approved,
                             !.rejected = Pairs(Rejected), !.awaiting = Pairs(Pending)]]
        PROVE  \E x \in PassRecs : pass' = [pass EXCEPT ![d] = x] /\ SnapshotNow(x)
    <3>1. PICK A \in Links, R \in SUBSET SUBSET Entities, P \in SUBSET SUBSET Entities :
               A = Approved /\ R = Pairs(Rejected) /\ P = Pairs(Pending)
      BY <1>1
    <3>2. PICK x : x = [[[w EXCEPT !.at = "arbitrate"] EXCEPT !.seeds = sd] EXCEPT !.blocks = bl]
      OBVIOUS
    <3>3. PICK y : y = [[[x EXCEPT !.links = A] EXCEPT !.rejected = R] EXCEPT !.awaiting = P]
      OBVIOUS
    <3>4. x \in PassRecs
      BY <2>1, <2>4, <3>2 DEF PassRecs
    <3>5. y \in PassRecs /\ y.links = A /\ y.rejected = R /\ y.awaiting = P
      BY <3>3, <3>4 DEF PassRecs
    <3>6. pass' = [pass EXCEPT ![d] = y]
      BY <2>4, <3>1, <3>2, <3>3
    <3>7. SnapshotNow(y)
      BY <1>5, <3>1, <3>5 DEF LoadSnapshot, SnapshotNow
    <3> QED BY <3>5, <3>6, <3>7
  <2> QED BY <2>1, <2>2, <2>3, <2>4
<1>6. ASSUME NEW d \in Compiles, BeginPass(d) \/ EndPass(d)
      PROVE  \E x \in PassRecs : /\ pass' = [pass EXCEPT ![d] = x] /\ checked' = checked
                                 /\ x.at # "arbitrate"
  <2>1. [NoPass EXCEPT !.at = "sweep"] \in PassRecs /\ [NoPass EXCEPT !.at = "sweep"].at = "sweep"
    BY NoSweepIs DEF PassRecs
  <2> QED BY <1>6, <2>1, NoSweepIs DEF BeginPass, EndPass
<1>7. ASSUME NEW d \in Compiles, NEW x \in PassRecs, pass' = [pass EXCEPT ![d] = x],
             checked' = checked
      PROVE  PassTypes' /\ CheckTypes' /\ Checks
  BY <1>1, <1>7 DEF PassTypes, CheckTypes, Checks
<1>8. ASSUME NEW d \in Compiles, BeginPass(d)
      PROVE  /\ sweep' = [sweep EXCEPT ![d] = Listed] /\ rebuilt' = "sweeping"
             /\ GraphTypes' /\ decision' = decision
  BY <1>1, <1>8 DEF BeginPass, GraphTypes
<1>9. SweepCommand => /\ sweep' = [sweep EXCEPT !["cli"] = Listed] /\ rebuilt' = "sweeping"
                      /\ GraphTypes' /\ decision' = decision /\ pass' = pass
                      /\ checked' = checked
  BY <1>1 DEF SweepCommand, GraphTypes
<1>10. ASSUME NEW e \in Edges, AddRelation(e)
       PROVE  /\ decision' = decision /\ sweep' = sweep /\ pass' = pass /\ rebuilt' = "stale"
              /\ checked' = checked
  BY <1>10 DEF AddRelation
<1>11. ASSUME NEW e \in Prunable, DeleteEntity(e) \/ AddEntity(e)
       PROVE  /\ decision' = decision /\ sweep' = sweep /\ pass' = pass /\ rebuilt' = "stale"
              /\ checked' = checked
  BY <1>11 DEF DeleteEntity, AddEntity
<1>12. ASSUME NEW d \in Compiles, NEW touched \in SUBSET Entities, LoadSnapshot(d, touched)
       PROVE  decision' = decision /\ sweep' = sweep /\ rebuilt' = rebuilt /\ GraphTypes'
  BY <1>1, <1>12 DEF LoadSnapshot, GraphTypes
<1>13. ASSUME NEW d \in Compiles, EndPass(d)
       PROVE  decision' = decision /\ sweep' = sweep /\ rebuilt' = rebuilt /\ GraphTypes'
  BY <1>1, <1>13 DEF EndPass, GraphTypes
<1>14. pass' = pass /\ checked' = checked => PassTypes' /\ CheckTypes' /\ Checks
  BY <1>1 DEF PassTypes, CheckTypes, Checks
<1>15. ASSUME NEW a \in Entities, NEW c \in Entities, CheckProposal(a, c) \/ ApplyFails(a, c)
       PROVE  /\ decision' = decision /\ sweep' = sweep /\ pass' = pass /\ rebuilt' = rebuilt
              /\ GraphTypes' /\ PassTypes' /\ CheckTypes' /\ Checks
  <2>1. /\ decision' = decision /\ sweep' = sweep /\ pass' = pass /\ rebuilt' = rebuilt
        /\ GraphTypes' /\ PassTypes'
    BY <1>1, <1>15 DEF CheckProposal, ApplyFails, GraphTypes, PassTypes
  <2>2. CASE CheckProposal(a, c)
    <3>1. MayDecide /\ decision[<<a, c>>] = "pending" /\ checked' = checked \union {<<a, c>>}
      BY <2>2 DEF CheckProposal
    <3>2. Clear(<<a, c>>)
      BY <2>2 DEF CheckProposal, Clear, Approved, Pending, Rejected
    <3>3. <<a, c>> \in Pending
      BY <1>1, <3>1 DEF Pending, With, Decided
    <3> QED BY <1>1, <2>1, <3>1, <3>2, <3>3 DEF CheckTypes, Checks
  <2>3. CASE ApplyFails(a, c)
    BY <1>1, <2>1, <2>3 DEF ApplyFails, CheckTypes, Checks
  <2> QED BY <1>15, <2>2, <2>3
<1>16. CASE \E e \in Edges : AddRelation(e)
  BY <1>3, <1>10, <1>14, <1>16 DEF IdlesDone
<1>17. CASE \E e \in Prunable : DeleteEntity(e) \/ AddEntity(e)
  BY <1>4, <1>11, <1>14, <1>17 DEF IdlesDone
<1>18. ASSUME NEW d \in Compiles, NEW touched \in SUBSET Entities, LoadSnapshot(d, touched)
       PROVE  IdlesDone
  <2>1. PICK x \in PassRecs : /\ pass' = [pass EXCEPT ![d] = x] /\ checked' = checked
                              /\ x.at # "arbitrate" \/ SnapshotNow(x)
    BY <1>5, <1>18
  <2>2. PassTypes' /\ CheckTypes' /\ Checks
    BY <1>7, <2>1
  <2> QED BY <1>1, <1>12, <1>18, <2>1, <2>2 DEF IdlesDone
<1>19. ASSUME NEW d \in Compiles, BeginPass(d) \/ EndPass(d) PROVE IdlesDone
  <2>1. PICK x \in PassRecs : /\ pass' = [pass EXCEPT ![d] = x] /\ checked' = checked
                              /\ x.at # "arbitrate"
    BY <1>6, <1>19
  <2>2. PassTypes' /\ CheckTypes' /\ Checks
    BY <1>7, <2>1
  <2>3. /\ decision' = decision /\ GraphTypes' /\ rebuilt' \in {"stale", "sweeping", "exact"}
        /\ sweep' = sweep \/ sweep' = [sweep EXCEPT ![d] = Listed]
    BY <1>1, <1>8, <1>13, <1>19
  <2> QED BY <1>2, <2>1, <2>2, <2>3 DEF IdlesDone
<1>20. CASE SweepCommand
  BY <1>2, <1>9, <1>14, <1>20 DEF IdlesDone
<1>21. CASE \E a, c \in Entities : CheckProposal(a, c) \/ ApplyFails(a, c)
  BY <1>1, <1>15, <1>21 DEF IdlesDone
<1> QED BY <1>16, <1>17, <1>18, <1>19, <1>20, <1>21 DEF Idles

\* The kinds of step.
LEMMA AliasSteps ==
  ASSUME AliasNext
  PROVE  \/ Idles
         \/ \E s \in Sweepers : \/ SweepClears(s) \/ SweepPassEnds(s) \/ SweepStops(s)
                                \/ \E p \in sweep[s].todo : SweepLinks(s, p)
                                   \/ SweepLinkFails(s, p)
         \/ \E d \in Compiles : \E a, c \in Entities :
               \E certain, ghost \in BOOLEAN : Propose(d, a, c, certain, ghost)
         \/ \E a, c \in Entities : Apply(a, c)
         \/ \E a, c \in Entities : (\E both \in BOOLEAN : Reject(a, c, both)) \/ Unlink(a, c)
BY DEF AliasNext, Idles

LEMMA AliasTypesNext == AliasTypes /\ [AliasNext]_aliasVars => AliasTypes'
<1> SUFFICES ASSUME AliasTypes, [AliasNext]_aliasVars PROVE AliasTypes'
  OBVIOUS
<1>1. Decided /\ SweepTypes /\ SweepInv /\ Single(Approved \union Pending) /\ CheckTypes
  BY DEF AliasTypes
<1>2. ASSUME decision' = decision
      PROVE  /\ Decided' /\ Single(Approved \union Pending)' /\ Approved' = Approved
             /\ Rejected' = Rejected
             /\ Approved \union Rejected \subseteq (Approved \union Rejected)'
  BY <1>1, <1>2, RowsStay DEF Single
<1>3. CASE UNCHANGED aliasVars
  <2>1. decision' = decision /\ sweep' = sweep
    BY <1>3 DEF aliasVars
  <2>2. SweepTypes' /\ SweepInv'
    BY <1>1, <1>2, <2>1, SweepMoves
  <2> QED BY <1>2, <1>3, <2>1, <2>2 DEF AliasTypes, GraphTypes, PassTypes, CheckTypes, aliasVars
<1>4. CASE Idles
  <2>1. /\ decision' = decision /\ GraphTypes' /\ rebuilt' \in {"stale", "sweeping", "exact"}
        /\ PassTypes' /\ CheckTypes'
        /\ \/ sweep' = sweep
           \/ \E s \in Sweepers : \E r \in SweepRecs :
                 /\ sweep' = [sweep EXCEPT ![s] = r] /\ r.todo = {} /\ r.links = Approved
    BY <1>4, IdlesDo DEF IdlesDone
  <2>2. SweepTypes' /\ SweepInv'
    BY <1>1, <1>2, <2>1, SweepMoves
  <2> QED BY <1>2, <2>1, <2>2 DEF AliasTypes
<1>5. ASSUME NEW s \in Sweepers,
             \/ SweepClears(s) \/ SweepPassEnds(s) \/ SweepStops(s)
             \/ \E p \in sweep[s].todo : SweepLinks(s, p) \/ SweepLinkFails(s, p)
      PROVE  AliasTypes'
  <2>1. /\ decision' = decision /\ pass' = pass /\ GraphTypes'
        /\ rebuilt' \in {"stale", "sweeping", "exact"}
        /\ \E r \in SweepRecs : /\ sweep' = [sweep EXCEPT ![s] = r]
                                /\ r.todo \subseteq r.links
                                /\ r.links \subseteq Approved \union Rejected
    BY <1>5, SweepActs
  <2>2. SweepTypes' /\ SweepInv'
    BY <1>1, <1>2, <2>1, SweepMoves
  <2>3. CheckTypes'
    BY <1>1, <1>5, SweepLeaves DEF CheckTypes
  <2> QED BY <1>2, <2>1, <2>2, <2>3 DEF AliasTypes, PassTypes
<1>6. ASSUME NEW d \in Compiles, NEW a \in Entities, NEW c \in Entities,
             NEW certain \in BOOLEAN, NEW ghost \in BOOLEAN, Propose(d, a, c, certain, ghost)
      PROVE  AliasTypes'
  <2>1. /\ sweep' = sweep /\ GraphTypes' /\ rebuilt' \in {"stale", "sweeping", "exact"}
        /\ PassTypes' /\ Decided' /\ Rejected' = Rejected /\ checked' = checked
        /\ \E end, t \in Entities : Proposed(d, a, c, end, t)
           /\ ((t = end /\ Joins(d, a, t)) \/ Queues(d, a, t))
    BY <1>6, ProposeDoes
  <2>2. PICK t \in Entities : /\ \A p \in Approved \union Pending : p[1] # a
                              /\ Joins(d, a, t) \/ Queues(d, a, t)
    BY <2>1 DEF Proposed
  <2>3. (Approved \union Pending)' \subseteq (Approved \union Pending) \union {<<a, t>>}
        /\ Approved \subseteq Approved'
    BY <2>2 DEF Joins, Queues
  <2>4. Single((Approved \union Pending) \union {<<a, t>>})
    BY <1>1, <2>2 DEF Single
  <2>5. Single(Approved \union Pending)'
    BY <2>3, <2>4 DEF Single
  <2>6. SweepTypes' /\ SweepInv'
    BY <1>1, <2>1, <2>3, SweepMoves
  <2>7. CheckTypes'
    BY <1>1, <2>1 DEF CheckTypes
  <2> QED BY <2>1, <2>5, <2>6, <2>7 DEF AliasTypes
<1>7. ASSUME NEW a \in Entities, NEW c \in Entities, Apply(a, c) PROVE AliasTypes'
  <2>1. /\ sweep' = sweep /\ pass' = pass /\ GraphTypes' /\ rebuilt' = "stale"
        /\ Decided' /\ checked' = checked \ {<<a, c>>}
        /\ {p \in Approved \union Pending : p[1] = a} \subseteq {<<a, c>>}
        /\ Approved' = Approved \union {<<a, c>>} /\ Pending' = Pending \ {<<a, c>>}
        /\ Rejected' = Rejected
    BY <1>7, ApplyDoes
  <2>2. (Approved \union Pending)' = (Approved \union Pending) \union {<<a, c>>}
        /\ Approved \subseteq Approved'
    BY <2>1
  <2>3. SweepTypes' /\ SweepInv'
    BY <1>1, <2>1, <2>2, SweepMoves
  <2>4. Single((Approved \union Pending) \union {<<a, c>>})
    BY <1>1, <2>1 DEF Single
  <2>5. Single(Approved \union Pending)'
    BY <2>2, <2>4 DEF Single
  <2>6. CheckTypes'
    BY <1>1, <2>1 DEF CheckTypes
  <2> QED BY <2>1, <2>3, <2>5, <2>6 DEF AliasTypes, PassTypes
<1>8. ASSUME NEW a \in Entities, NEW c \in Entities,
             (\E both \in BOOLEAN : Reject(a, c, both)) \/ Unlink(a, c)
      PROVE  AliasTypes'
  <2>1. /\ pass' = pass /\ GraphTypes' /\ rebuilt' \in {"stale", "sweeping"}
        /\ checked' = checked
        /\ \E L \in SUBSET (Approved \union Pending) : SetRejected(L)
        /\ \/ sweep' = sweep
           \/ \E r \in SweepRecs : /\ sweep' = [sweep EXCEPT !["cli"] = r]
                                   /\ r.todo = {} /\ r.links \subseteq Approved
    BY <1>8, RejectDoes
  <2>2. PICK L \in SUBSET (Approved \union Pending) : SetRejected(L)
    BY <2>1
  <2>3. Decided' /\ Approved' = Approved \ L /\ Pending' = Pending \ L
        /\ Rejected' = Rejected \union L
    BY <1>1, <2>2, RowsRejected
  <2>4. Approved \union Rejected \subseteq (Approved \union Rejected)' /\ "cli" \in Sweepers
    BY <2>3 DEF Sweepers
  <2>5. SweepTypes' /\ SweepInv'
    BY <1>1, <2>1, <2>4, SweepMoves
  <2>6. Single(Approved \union Pending)'
    BY <1>1, <2>3 DEF Single
  <2>7. CheckTypes'
    BY <1>1, <2>1 DEF CheckTypes
  <2> QED BY <2>1, <2>3, <2>5, <2>6, <2>7 DEF AliasTypes, PassTypes
<1> QED BY <1>3, <1>4, <1>5, <1>6, <1>7, <1>8, AliasSteps

LEMMA AliasTypesMean == AliasTypes => AliasTypeOK
<1> SUFFICES ASSUME AliasTypes PROVE AliasTypeOK
  OBVIOUS
<1>1. \A a \in Entities : Cardinality(Active(a)) <= 1
  <2> SUFFICES ASSUME NEW a \in Entities PROVE Cardinality(Active(a)) <= 1
    OBVIOUS
  <2>1. Active(a) = {p \in Approved \union Pending : p[1] = a} /\ Single(Approved \union Pending)
    BY NoRows DEF AliasTypes
  <2>2. CASE Active(a) = {}
    BY <2>2, FS_EmptySet
  <2>3. CASE Active(a) # {}
    <3>1. PICK p : p \in Active(a)
      BY <2>3
    <3>2. Active(a) = {p}
      BY <2>1, <3>1 DEF Single
    <3> QED BY <3>2, FS_Singleton
  <2> QED BY <2>2, <2>3
<1>2. \A s \in Sweepers : sweep[s].todo \subseteq sweep[s].links
      /\ sweep[s].passes \in 0..(MaxSweepPasses - 1)
  BY DEF AliasTypes, SweepInv, SweepTypes, SweepRecs
<1>3. \A d \in Compiles : pass[d].at \in {"idle", "sweep", "arbitrate"}
  BY DEF AliasTypes, PassTypes, PassRecs
<1> QED BY <1>1, <1>2, <1>3 DEF AliasTypes, AliasTypeOK, Decided, GraphTypes, CheckTypes

\* The rows of entity_aliases, the graph, the sweeps and the passes stay in their types, and an
\* entity is the alias of one other at most.
THEOREM AliasTypeCorrect == AliasSpec => []AliasTypeOK
<1>1. AliasInit => AliasTypes
  BY AliasTypesInit DEF AliasInv
<1> QED BY <1>1, AliasTypesNext, AliasTypesMean, PTL DEF AliasSpec

LEMMA PairIn ==
  ASSUME NEW links \in Links, NEW m, NEW l, <<m, l>> \in links
  PROVE  {m, l} \in Pairs(links) /\ {l, m} \in Pairs(links)
BY DEF Pairs

\* The clusters of a chain's members are one.
LEMMA ClusterOfEnd ==
  ASSUME NEW links \in Links, NEW c \in Entities
  PROVE  /\ Terminal(links, c) \in Entities
         /\ Cluster(links, Terminal(links, c)) = Cluster(links, c)
BY TerminalIs, ClusterSame, ClusterHas

LEMMA ProposeKeeps ==
  ASSUME AliasInv, NEW d \in Compiles, NEW a \in Entities, NEW c \in Entities,
         NEW certain \in BOOLEAN, NEW ghost \in BOOLEAN, Propose(d, a, c, certain, ghost)
  PROVE  KeepsApart(Approved', Pending', Rejected') /\ PassInv' /\ CheckInv'
<1>1. /\ pass'[d].at = pass[d].at /\ pass'[d].rejected = pass[d].rejected
      /\ Rejected' = Rejected /\ checked' = checked
      /\ \A e \in Compiles \ {d} : pass'[e] = pass[e]
      /\ \E end, t \in Entities : Proposed(d, a, c, end, t)
         /\ ((t = end /\ Joins(d, a, t)) \/ Queues(d, a, t))
  BY ProposeDoes DEF AliasInv
<1>2. PICK end \in Entities, t \in Entities : Proposed(d, a, c, end, t)
      /\ ((t = end /\ Joins(d, a, t)) \/ Queues(d, a, t))
  BY <1>1
<1>3. PICK A \in Links, P \in Links, R \in Links : A = Approved /\ P = Pending /\ R = Rejected
  BY Rows DEF AliasInv, AliasTypes
<1>4. KeepsApart(A, P, R)
  BY <1>3 DEF AliasInv
<1>5. /\ end = Terminal(A, c) /\ t \in {end, c} /\ t # a /\ end # a
      /\ \A p \in A \union P : p[1] # a
      /\ pass[d].links = A /\ pass[d].rejected = Pairs(R) /\ Pairs(P) \subseteq pass[d].awaiting
      /\ ~PairConflict(A, Pairs(R), pass[d].awaiting, a, end, {}) /\ pass[d].at = "arbitrate"
  <2>1. Reads(pass[d])
    BY DEF AliasInv, PassInv
  <2> QED BY <1>2, <1>3, <2>1 DEF Proposed, Reads
<1>6. Root(A, end) /\ Root(A, a) /\ Single(A)
  BY <1>4, <1>5, TerminalIs DEF KeepsApart, Root, Single
<1>7. end \notin Cluster(A, a)
  BY <1>5, <1>6, OneRoot
<1>8. Cluster(A, end) = Cluster(A, c) /\ end \in Cluster(A, end) /\ c \in Cluster(A, c)
  BY <1>5, ClusterOfEnd, ClusterHas
<1>9. t \in Cluster(A, end) /\ t \notin Cluster(A, a)
  <2>1. t \in Cluster(A, end) /\ Cluster(A, t) = Cluster(A, end)
    BY <1>5, <1>8, ClusterSame
  <2>2. t \in Cluster(A, a) => Cluster(A, t) = Cluster(A, a)
    BY ClusterSame
  <2> QED BY <1>7, <1>8, <2>1, <2>2
<1>10. Free(A, R \union P, a, end)
  <2> SUFFICES ASSUME NEW m \in Cluster(A, a), NEW l \in Cluster(A, end)
               PROVE  <<m, l>> \notin R \union P /\ <<l, m>> \notin R \union P
    BY DEF Free
  <2>1. {m, l} \notin Pairs(R) /\ {m, l} \notin pass[d].awaiting
    BY <1>5 DEF PairConflict
  <2> QED BY <1>5, <2>1, PairIn
<1>11. CheckInv' /\ (Reads(pass[d])' => PassInv')
  <2>1. Reading' = Reading /\ d \in Reading
    BY <1>1, <1>5 DEF Reading
  <2>2. checked = {}
    BY <2>1 DEF AliasInv, CheckInv
  <2>3. \A e \in Reading : e = d
    BY <2>1 DEF AliasInv, PassInv
  <2>4. ASSUME NEW e \in Compiles \ {d} PROVE Reads(pass[e])'
    <3>1. pass'[e].at # "arbitrate"
      BY <1>1, <2>3 DEF Reading
    <3> QED BY <3>1 DEF Reads
  <2> QED BY <1>1, <2>1, <2>2, <2>3, <2>4 DEF CheckInv, PassInv
<1>12. CASE t = end /\ Joins(d, a, t)
  <2>1. Approved' = A \union {<<a, t>>} /\ Pending' = P
        /\ pass'[d].links = A \union {<<a, t>>} /\ pass'[d].awaiting = pass[d].awaiting
    BY <1>3, <1>5, <1>12 DEF Joins
  <2>2. P \ {<<a, t>>} = P
    BY <1>5
  <2>3. KeepsApart(A \union {<<a, t>>}, P, R)
    <3>1. \A p \in A \union P : p[1] = a => p = <<a, end>>
      BY <1>5
    <3>2. R \union (P \ {<<a, end>>}) = R \union P
      BY <1>12, <2>2
    <3>3. KeepsApart(A \union {<<a, end>>}, P \ {<<a, end>>}, R)
      BY <1>4, <1>7, <1>10, <3>1, <3>2, KeptJoin
    <3> QED BY <1>12, <2>2, <3>3
  <2>4. Reads(pass[d])'
    BY <1>1, <1>3, <1>5, <2>1 DEF Reads
  <2> QED BY <1>1, <1>3, <1>11, <2>1, <2>3, <2>4
<1>13. CASE Queues(d, a, t)
  <2>1. /\ Approved' = A /\ Pending' \in {P, P \union {<<a, t>>}}
        /\ pass'[d].links = A /\ pass'[d].awaiting = pass[d].awaiting \union {{a, t}}
    BY <1>3, <1>5, <1>13 DEF Queues
  <2>2. KeepsApart(A, P \union {<<a, t>>}, R)
    <3>1. a \in Cluster(A, a)
      BY ClusterHas
    <3>2. <<t, a>> \notin P
      BY <1>9, <1>10, <3>1 DEF Free
    <3> QED BY <1>4, <1>5, <1>9, <3>2, KeptWait
  <2>3. \A x \in Pairs(P \union {<<a, t>>}) : x \in Pairs(P) \union {{a, t}}
    <3> SUFFICES ASSUME NEW p \in P \union {<<a, t>>}
                 PROVE {p[1], p[2]} \in Pairs(P) \union {{a, t}}
      BY DEF Pairs
    <3>1. CASE p \in P
      BY <3>1 DEF Pairs
    <3>2. CASE p = <<a, t>>
      BY <3>2
    <3> QED BY <3>1, <3>2
  <2>4. Pairs(Pending') \subseteq pass'[d].awaiting
    BY <1>5, <2>1, <2>3
  <2>5. Reads(pass[d])'
    BY <1>1, <1>3, <1>5, <2>1, <2>4 DEF Reads
  <2> QED BY <1>1, <1>3, <1>4, <1>11, <2>1, <2>2, <2>5
<1> QED BY <1>2, <1>12, <1>13

LEMMA ApplyKeeps ==
  ASSUME AliasInv, NEW a \in Entities, NEW c \in Entities, Apply(a, c)
  PROVE  KeepsApart(Approved', Pending', Rejected') /\ PassInv' /\ CheckInv'
<1>1. /\ pass' = pass /\ <<a, c>> \in checked /\ checked' = checked \ {<<a, c>>}
      /\ {p \in Approved \union Pending : p[1] = a} \subseteq {<<a, c>>}
      /\ Approved' = Approved \union {<<a, c>>} /\ Pending' = Pending \ {<<a, c>>}
      /\ Rejected' = Rejected
  BY ApplyDoes DEF AliasInv
<1>2. PICK A \in Links, P \in Links, R \in Links : A = Approved /\ P = Pending /\ R = Rejected
  BY Rows DEF AliasInv, AliasTypes
<1>3. KeepsApart(A, P, R)
  BY <1>2 DEF AliasInv
<1>4. {a, c} \notin Pairs(R) /\ ~PairConflict(A, Pairs(R), Pairs(P), a, Terminal(A, c), {a, c})
      /\ <<a, c>> \in Pending
  BY <1>1, <1>2 DEF AliasInv, CheckInv, Clear
<1>5. Cluster(A, Terminal(A, c)) = Cluster(A, c)
  BY ClusterOfEnd
<1>6. <<a, c>> \in P /\ <<c, a>> \notin P /\ c \notin Cluster(A, a)
  BY <1>2, <1>3, <1>4 DEF KeepsApart, Apart
<1>7. Free(A, R \union (P \ {<<a, c>>}), a, c)
  <2> SUFFICES ASSUME NEW m \in Cluster(A, a), NEW l \in Cluster(A, c)
               PROVE  /\ <<m, l>> \notin R \union (P \ {<<a, c>>})
                      /\ <<l, m>> \notin R \union (P \ {<<a, c>>})
    BY DEF Free
  <2>1. {m, l} \notin Pairs(R) /\ ({m, l} \in Pairs(P) => {m, l} = {a, c})
    BY <1>4, <1>5 DEF PairConflict
  <2>2. {m, l} = {a, c} => (m = a /\ l = c) \/ (m = c /\ l = a)
    OBVIOUS
  <2>3. <<m, l>> \notin R /\ <<l, m>> \notin R
    BY <2>1, PairIn
  <2>4. <<m, l>> \in P \/ <<l, m>> \in P => (m = a /\ l = c) \/ (m = c /\ l = a)
    BY <2>1, <2>2, PairIn
  <2> QED BY <1>6, <2>3, <2>4
<1>8. \A p \in A \union P : p[1] = a => p = <<a, c>>
  BY <1>1, <1>2
<1>9. KeepsApart(A \union {<<a, c>>}, P \ {<<a, c>>}, R)
  BY <1>3, <1>6, <1>7, <1>8, KeptJoin
<1>10. Reading' = {} /\ checked' = {}
  <2>1. Reading = {} /\ checked = {<<a, c>>}
    BY <1>1 DEF AliasInv, CheckInv
  <2> QED BY <1>1, <2>1 DEF Reading
<1>11. PassInv' /\ CheckInv'
  <2>1. \A d \in Compiles : Reads(pass[d])'
    BY <1>10 DEF Reading, Reads
  <2> QED BY <1>10, <2>1 DEF PassInv, CheckInv
<1> QED BY <1>1, <1>2, <1>9, <1>11

\* What the rows say is all that the snapshots and the checks are about.
LEMMA RestsKeep ==
  ASSUME AliasInv, decision' = decision
  PROVE  /\ KeepsApart(Approved', Pending', Rejected')
         /\ \A x : Reads(x)' <=> Reads(x)
         /\ \A p : (p \in Pending /\ Clear(p))' <=> (p \in Pending /\ Clear(p))
         /\ pass' = pass => PassInv' /\ Reading' = Reading
         /\ pass' = pass /\ checked' \subseteq checked => CheckInv'
<1>1. Approved' = Approved /\ Pending' = Pending /\ Rejected' = Rejected
  BY RowsStay
<1>2. \A x : Reads(x)' <=> Reads(x)
  BY <1>1 DEF Reads
<1>3. \A p : (p \in Pending /\ Clear(p))' <=> (p \in Pending /\ Clear(p))
  BY <1>1 DEF Clear
<1>4. ASSUME pass' = pass PROVE PassInv' /\ Reading' = Reading
  <2>1. Reading' = Reading
    BY <1>4 DEF Reading
  <2>2. \A d \in Compiles : Reads(pass[d])'
    BY <1>1, <1>4 DEF AliasInv, PassInv, Reads
  <2> QED BY <2>1, <2>2 DEF AliasInv, PassInv
<1>5. ASSUME pass' = pass, checked' \subseteq checked PROVE CheckInv'
  <2>1. \A p \in checked : (p \in Pending /\ Clear(p))'
    BY <1>3 DEF AliasInv, CheckInv
  <2> QED BY <1>4, <1>5, <2>1 DEF AliasInv, CheckInv
<1> QED BY <1>1, <1>2, <1>3, <1>4, <1>5 DEF AliasInv

LEMMA IdlesKeep ==
  ASSUME AliasRaces \subseteq {"twice"}, AliasInv, IdlesDone
  PROVE  KeepsApart(Approved', Pending', Rejected') /\ PassInv' /\ CheckInv'
<1>1. decision' = decision /\ Checks /\ pass \in [Compiles -> PassRecs]
  BY DEF IdlesDone, AliasInv, AliasTypes, PassTypes
<1>2. KeepsApart(Approved', Pending', Rejected')
  BY <1>1, RestsKeep
<1>3. CASE pass' = pass
  <2>1. PassInv' /\ Reading' = Reading
    BY <1>1, <1>3, RestsKeep
  <2>2. CASE checked' \subseteq checked
    BY <1>1, <1>2, <1>3, <2>1, <2>2, RestsKeep
  <2>3. ASSUME NEW a \in Entities, NEW c \in Entities,
               MayDecide, <<a, c>> \in Pending, Clear(<<a, c>>),
               checked' = checked \union {<<a, c>>}
        PROVE  CheckInv'
    <3>1. Reading = {} /\ checked' = {<<a, c>>}
      BY <2>3 DEF MayDecide
    <3>2. (<<a, c>> \in Pending /\ Clear(<<a, c>>))'
      BY <1>1, <2>3, RestsKeep
    <3> QED BY <2>1, <3>1, <3>2 DEF CheckInv
  <2> QED BY <1>1, <1>2, <2>1, <2>2, <2>3 DEF Checks
<1>4. ASSUME NEW d \in Compiles, NEW x \in PassRecs, pass' = [pass EXCEPT ![d] = x],
             checked' = checked, x.at # "arbitrate" \/ SnapshotNow(x)
      PROVE  PassInv' /\ CheckInv'
  <2>1. pass'[d] = x /\ \A e \in Compiles \ {d} : pass'[e] = pass[e]
    BY <1>1, <1>4
  <2>2. Reads(x)'
    <3>1. Reads(x)
      BY <1>4 DEF SnapshotNow, Reads
    <3> QED BY <1>1, <3>1, RowsStay DEF Reads
  <2>3. ASSUME NEW e \in Compiles PROVE Reads(pass[e])'
    <3>1. CASE e = d
      BY <2>1, <2>2, <3>1 DEF Reads
    <3>2. CASE e # d
      <4>1. Reads(pass[e])
        BY DEF AliasInv, PassInv
      <4>2. Reads(pass[e])' <=> Reads(pass[e])
        BY <1>1, <2>1, <3>2, RowsStay DEF Reads
      <4> QED BY <4>1, <4>2
    <3> QED BY <3>1, <3>2
  <2>4. Reading' \subseteq Reading \/ (Reading' \subseteq {d} /\ checked = {})
    <3>1. x.at = "arbitrate" => Reading = {} /\ checked = {}
      BY <1>4 DEF SnapshotNow
    <3>2. \A e \in Reading' : e \in Compiles /\ pass'[e].at = "arbitrate"
      BY DEF Reading
    <3>3. \A e \in Reading' : e # d => e \in Reading
      BY <2>1, <3>2 DEF Reading
    <3>4. d \in Reading' => x.at = "arbitrate"
      BY <2>1, <3>2
    <3> QED BY <3>1, <3>3, <3>4
  <2>5. PassInv'
    BY <2>3, <2>4 DEF AliasInv, PassInv
  <2>6. \A p \in checked : (p \in Pending /\ Clear(p))'
    <3>1. \A p \in checked : p \in Pending /\ Clear(p)
      BY DEF AliasInv, CheckInv
    <3> QED BY <1>1, <3>1, RestsKeep
  <2>7. CheckInv'
    BY <1>4, <2>4, <2>6 DEF AliasInv, CheckInv
  <2> QED BY <2>5, <2>7
<1> QED BY <1>2, <1>3, <1>4 DEF IdlesDone

LEMMA AliasInvNext ==
  ASSUME AliasRaces \subseteq {"twice"}
  PROVE  AliasInv /\ [AliasNext]_aliasVars => AliasInv'
<1> SUFFICES ASSUME AliasInv, [AliasNext]_aliasVars PROVE AliasInv'
  OBVIOUS
<1>1. AliasTypes /\ AliasTypes' /\ KeepsApart(Approved, Pending, Rejected)
  BY AliasTypesNext DEF AliasInv
<1> SUFFICES KeepsApart(Approved', Pending', Rejected') /\ PassInv' /\ CheckInv'
  BY <1>1 DEF AliasInv
<1>2. ASSUME decision' = decision, pass' = pass, checked' = checked
      PROVE  KeepsApart(Approved', Pending', Rejected') /\ PassInv' /\ CheckInv'
  BY <1>2, RestsKeep
<1>3. CASE UNCHANGED aliasVars
  BY <1>2, <1>3 DEF aliasVars
<1>4. CASE Idles
  BY <1>1, <1>4, IdlesDo, IdlesKeep
<1>5. ASSUME NEW s \in Sweepers,
             \/ SweepClears(s) \/ SweepPassEnds(s) \/ SweepStops(s)
             \/ \E p \in sweep[s].todo : SweepLinks(s, p) \/ SweepLinkFails(s, p)
      PROVE  decision' = decision /\ pass' = pass /\ checked' = checked
  BY <1>1, <1>5, SweepActs, SweepLeaves
<1>6. ASSUME NEW d \in Compiles, NEW a \in Entities, NEW c \in Entities,
             NEW certain \in BOOLEAN, NEW ghost \in BOOLEAN, Propose(d, a, c, certain, ghost)
      PROVE  KeepsApart(Approved', Pending', Rejected') /\ PassInv' /\ CheckInv'
  BY <1>6, ProposeKeeps
<1>7. ASSUME NEW a \in Entities, NEW c \in Entities, Apply(a, c)
      PROVE  KeepsApart(Approved', Pending', Rejected') /\ PassInv' /\ CheckInv'
  BY <1>7, ApplyKeeps
<1>8. ASSUME NEW a \in Entities, NEW c \in Entities,
             (\E both \in BOOLEAN : Reject(a, c, both)) \/ Unlink(a, c)
      PROVE  KeepsApart(Approved', Pending', Rejected') /\ PassInv' /\ CheckInv'
  <2>1. pass' = pass /\ checked' = checked /\ MayDecide
        /\ \E L \in SUBSET (Approved \union Pending) : SetRejected(L)
    BY <1>1, <1>8, RejectDoes
  <2>2. PICK L \in SUBSET (Approved \union Pending) : SetRejected(L)
    BY <2>1
  <2>3. Approved' = Approved \ L /\ Pending' = Pending \ L /\ Rejected' = Rejected \union L
    BY <1>1, <2>2, RowsRejected DEF AliasTypes
  <2>4. KeepsApart(Approved \ L, Pending \ L, Rejected \union L)
    <3>1. PICK A \in Links, P \in Links, R \in Links : A = Approved /\ P = Pending /\ R = Rejected
      BY <1>1, Rows DEF AliasTypes
    <3> QED BY <1>1, <3>1, KeptLess
  <2>5. Reading' = {} /\ checked' = {}
    BY <2>1 DEF MayDecide, Reading
  <2>6. \A d \in Compiles : Reads(pass[d])'
    BY <2>5 DEF Reading, Reads
  <2> QED BY <2>3, <2>4, <2>5, <2>6 DEF PassInv, CheckInv
<1> QED BY <1>2, <1>3, <1>4, <1>5, <1>6, <1>7, <1>8, AliasSteps

LEMMA AliasInvMeans == AliasInv => RejectedStayApart
BY DEF AliasInv, KeepsApart, Forest, Apart, RejectedStayApart, Approved, Pending, Rejected

\* As long as one link at a time is decided on (no two passes hold a snapshot at the same
\* time, and no command decides while a pass does, or between the checks and the link of an
\* --apply), the links form a forest and join no two entities that the user keeps apart or has
\* yet to decide on.
THEOREM KeptApart ==
  ASSUME AliasRaces \subseteq {"twice"} PROVE AliasSpec => []RejectedStayApart
<1>1. AliasInit => AliasInv
  BY AliasTypesInit
<1> QED BY <1>1, AliasInvNext, AliasInvMeans, PTL DEF AliasSpec

-----------------------------------------------------------------------------
(* What links derive from a graph, move by move.  SweptGraphIsExact holds
   because every pass over the list takes the derived edges one move further, a
   pass that derives nothing has closed the graph under the links, and no edge
   moves more often than the two chains of its ends are long. *)

EdgeSets == SUBSET (Nodes \X Nodes)

\* A move of an edge along the link p, and the edges that links give one move on.
Along(p, e)  == <<Move(p[1], p[2], e[1]), Move(p[1], p[2], e[2])>>
Spread(L, S) == {e \in {Along(p, e) : p \in L, e \in S} : e[1] # e[2]}

\* What is at most m moves from E.
Within(L, E, m) ==
  LET grown[n \in 0..m] == IF n = 0 THEN E ELSE grown[n - 1] \union Spread(L, grown[n - 1])
  IN  grown[m]

LEMMA SpreadIs ==
  ASSUME NEW L \in Links, NEW S \in EdgeSets
  PROVE  /\ Spread(L, S) \in EdgeSets
         /\ \A p \in L, e \in S : Along(p, e)[1] # Along(p, e)[2] => Along(p, e) \in Spread(L, S)
         /\ \A d \in Spread(L, S) : \E p \in L, e \in S : d = Along(p, e) /\ d[1] # d[2]
         /\ \A T \in EdgeSets : T \subseteq S => Spread(L, T) \subseteq Spread(L, S)
<1>1. \A p \in L, e \in S : Along(p, e) \in Nodes \X Nodes
  BY LinkEnds DEF Along, Move, EdgeSets, Nodes
<1> QED BY <1>1 DEF Spread, EdgeSets

\* The levels, one from the other.
Leveled(L, E, m, g) ==
  /\ g \in [0..m -> EdgeSets] /\ Within(L, E, m) = g[m] /\ g[0] = E
  /\ \A i \in 1..m : g[i] = g[i - 1] \union Spread(L, g[i - 1])

LEMMA Levels ==
  ASSUME NEW L \in Links, NEW E \in EdgeSets, NEW m \in Nat
  PROVE  \E g : Leveled(L, E, m, g)
<1> DEFINE F == [S \in EdgeSets |-> S \union Spread(L, S)]
           Grows(g) ==
             g = [n \in 0..m |-> IF n = 0 THEN E ELSE g[n - 1] \union Spread(L, g[n - 1])]
<1>1. F \in [EdgeSets -> EdgeSets]
  <2>1. \A S \in EdgeSets : S \union Spread(L, S) \in EdgeSets
    BY SpreadIs DEF EdgeSets
  <2> QED BY <2>1
<1>2. PICK h : Steps(EdgeSets, F, E, m, h)
  <2> HIDE DEF F
  <2> QED BY <1>1, Iterates
<1>3. Grows(h)
  <2>1. \A i \in 0..m : i # 0 => i \in 1..m /\ i - 1 \in 0..m
    OBVIOUS
  <2>2. h \in [0..m -> EdgeSets] /\ h[0] = E /\ \A i \in 1..m : h[i] = F[h[i - 1]]
    BY <1>2 DEF Steps
  <2>3. \A i \in 0..m : i # 0 => h[i] = h[i - 1] \union Spread(L, h[i - 1])
    BY <2>1, <2>2
  <2>4. \A i \in 0..m : h[i] = IF i = 0 THEN E ELSE h[i - 1] \union Spread(L, h[i - 1])
    BY <2>2, <2>3
  <2> HIDE DEF F
  <2> QED BY <2>2, <2>4
<1>4. PICK g : g = CHOOSE x : Grows(x)
  OBVIOUS
<1>5. Grows(g) /\ Within(L, E, m) = g[m]
  <2>1. Grows(g)
    <3> HIDE DEF Grows
    <3> QED BY <1>3, <1>4
  <2>2. Within(L, E, m) = (CHOOSE x : Grows(x))[m]
    BY DEF Within
  <2> QED BY <1>4, <2>1, <2>2
<1>6. /\ g[0] = E /\ DOMAIN g = 0..m /\ g = [n \in 0..m |-> g[n]]
      /\ \A i \in 1..m : i - 1 \in 0..m /\ g[i] = g[i - 1] \union Spread(L, g[i - 1])
  <2>1. 0 \in 0..m /\ \A i \in 1..m : i \in 0..m /\ i # 0 /\ i - 1 \in 0..m
    OBVIOUS
  <2>2. \A n \in 0..m : g[n] = IF n = 0 THEN E ELSE g[n - 1] \union Spread(L, g[n - 1])
    BY <1>5
  <2>3. DOMAIN g = 0..m /\ g = [n \in 0..m |-> g[n]]
    BY <1>5
  <2> QED BY <2>1, <2>2, <2>3
<1> HIDE DEF Grows, F
<1>7. \A n \in 0..m : g[n] \in EdgeSets
  <2> SUFFICES ASSUME NEW k \in 0..m, g[k] \notin EdgeSets PROVE FALSE
    OBVIOUS
  <2> DEFINE T == {n \in 0..m : g[n] \notin EdgeSets}
  <2>1. T \in SUBSET Nat /\ T # {}
    OBVIOUS
  <2>2. PICK j \in T : \A n \in T : j <= n
    <3> HIDE DEF T
    <3> QED BY <2>1, LeastNat
  <2>3. j \in 1..m /\ j - 1 \in 0..m /\ ~(j <= j - 1)
    BY <1>6, <2>2
  <2>4. g[j - 1] \in EdgeSets
    BY <2>2, <2>3
  <2>5. g[j - 1] \union Spread(L, g[j - 1]) \in EdgeSets
    BY <2>4, SpreadIs DEF EdgeSets
  <2> QED BY <1>6, <2>2, <2>3, <2>5
<1>8. g \in [0..m -> EdgeSets]
  BY <1>6, <1>7
<1> QED BY <1>5, <1>6, <1>8 DEF Leveled

LEMMA WithinIs ==
  ASSUME NEW L \in Links, NEW E \in EdgeSets, NEW m \in Nat
  PROVE  /\ Within(L, E, m) \in EdgeSets /\ Within(L, E, 0) = E
         /\ Within(L, E, m + 1) = Within(L, E, m) \union Spread(L, Within(L, E, m))
<1>0. m + 1 \in Nat /\ 0 \in Nat
  OBVIOUS
<1>1. PICK g : Leveled(L, E, m, g)
  BY Levels
<1>2. PICK h : Leveled(L, E, m + 1, h)
  BY <1>0, Levels
<1>3. PICK z : Leveled(L, E, 0, z)
  BY <1>0, Levels
<1>4. h[m] = g[m]
  <2> SUFFICES ASSUME h[m] # g[m] PROVE FALSE
    OBVIOUS
  <2> DEFINE T == {n \in 0..m : h[n] # g[n]}
  <2>1. T \in SUBSET Nat /\ T # {}
    OBVIOUS
  <2>2. PICK j \in T : \A n \in T : j <= n
    <3> HIDE DEF T
    <3> QED BY <2>1, LeastNat
  <2>3. j \in 1..m /\ j \in 1..(m + 1) /\ j - 1 \in 0..m /\ ~(j <= j - 1)
    BY <1>1, <1>2, <2>2 DEF Leveled
  <2>4. h[j - 1] = g[j - 1]
    BY <2>2, <2>3
  <2>5. h[j] = h[j - 1] \union Spread(L, h[j - 1]) /\ g[j] = g[j - 1] \union Spread(L, g[j - 1])
    BY <1>1, <1>2, <2>3 DEF Leveled
  <2> QED BY <2>2, <2>4, <2>5
<1>5. h[m + 1] = h[m] \union Spread(L, h[m]) /\ m \in 0..m
  <2>1. m + 1 \in 1..(m + 1) /\ (m + 1) - 1 = m
    OBVIOUS
  <2> QED BY <1>2, <2>1 DEF Leveled
<1> QED BY <1>1, <1>2, <1>3, <1>4, <1>5 DEF Leveled

LEMMA WithinGrows ==
  ASSUME NEW L \in Links, NEW E \in EdgeSets, NEW m \in Nat, NEW n \in Nat, m <= n
  PROVE  Within(L, E, m) \subseteq Within(L, E, n)
<1> SUFFICES ASSUME ~(Within(L, E, m) \subseteq Within(L, E, n)) PROVE FALSE
  OBVIOUS
<1> DEFINE T == {k \in Nat : m <= k /\ ~(Within(L, E, m) \subseteq Within(L, E, k))}
<1>1. T \in SUBSET Nat /\ T # {}
  OBVIOUS
<1>2. PICK j \in T : \A k \in T : j <= k
  <2> HIDE DEF T
  <2> QED BY <1>1, LeastNat
<1>3. j \in Nat /\ j # m /\ j - 1 \in Nat /\ m <= j - 1 /\ ~(j <= j - 1) /\ (j - 1) + 1 = j
  BY <1>2
<1>4. Within(L, E, m) \subseteq Within(L, E, j - 1)
  BY <1>2, <1>3
<1>5. Within(L, E, j - 1) \subseteq Within(L, E, (j - 1) + 1)
  BY <1>3, WithinIs
<1> QED BY <1>2, <1>3, <1>4, <1>5

\* A graph that links add nothing to has all that they derive of it.
LEMMA WithinClosed ==
  ASSUME NEW L \in Links, NEW E \in EdgeSets, NEW S \in EdgeSets, E \subseteq S,
         Spread(L, S) \subseteq S, NEW m \in Nat
  PROVE  Within(L, E, m) \subseteq S
<1> SUFFICES ASSUME ~(Within(L, E, m) \subseteq S) PROVE FALSE
  OBVIOUS
<1> DEFINE T == {k \in Nat : ~(Within(L, E, k) \subseteq S)}
<1>1. T \in SUBSET Nat /\ T # {}
  OBVIOUS
<1>2. PICK j \in T : \A k \in T : j <= k
  <2> HIDE DEF T
  <2> QED BY <1>1, LeastNat
<1>3. 0 \in Nat /\ Within(L, E, 0) = E
  BY WithinIs
<1>4. j \in Nat /\ j # 0 /\ j - 1 \in Nat /\ ~(j <= j - 1) /\ (j - 1) + 1 = j
  BY <1>2, <1>3
<1>5. Within(L, E, j - 1) \subseteq S /\ Within(L, E, j - 1) \in EdgeSets
  BY <1>2, <1>4, WithinIs
<1>6. Within(L, E, (j - 1) + 1) = Within(L, E, j - 1) \union Spread(L, Within(L, E, j - 1))
  BY <1>4, WithinIs
<1>7. Spread(L, Within(L, E, j - 1)) \subseteq Spread(L, S)
  BY <1>5, SpreadIs
<1> QED BY <1>2, <1>4, <1>5, <1>6, <1>7

\* What follows x on its chain.
Way(L, x) ==
  {y \in Entities : \A S \in SUBSET Entities :
                      /\ \A p \in L : p[1] = x => p[2] \in S
                      /\ \A p \in L : p[1] \in S => p[2] \in S
                      => y \in S}

\* How often an end, or an edge, can move.
Depth(L, x) == Cardinality(Way(L, x))
MovesLeft(L, e) == Depth(L, e[1]) + Depth(L, e[2])

LEMMA WayIs ==
  ASSUME NEW L \in Links, NEW x
  PROVE  /\ Way(L, x) \in SUBSET Entities
         /\ \A p \in L : p[1] = x => p[2] \in Way(L, x)
         /\ \A p \in L : p[1] \in Way(L, x) => p[2] \in Way(L, x)
         /\ \A S \in SUBSET Entities : /\ \A p \in L : p[1] = x => p[2] \in S
                                       /\ \A p \in L : p[1] \in S => p[2] \in S
                                       => Way(L, x) \subseteq S
  BY LinkEnds DEF Way

\* Chains do not come back.
LEMMA WayLeaves ==
  ASSUME NEW L \in Links, Single(L), Acyclic(L), NEW x \in Entities
  PROVE  x \notin Way(L, x)
<1> SUFFICES ASSUME x \in Way(L, x) PROVE FALSE
  OBVIOUS
<1> DEFINE S == {y \in Entities : x \in Way(L, y)}
<1>1. S \in SUBSET Entities /\ S # {}
  OBVIOUS
<1>2. PICK y \in S : \A p \in L : p[1] = y => p[2] \notin S
  <2> HIDE DEF S
  <2> QED BY <1>1 DEF Acyclic
<1>3. y \in Entities /\ x \in Way(L, y)
  BY <1>2
<1>4. PICK p \in L : p[1] = y
  <2> SUFFICES ASSUME \A p \in L : p[1] # y PROVE FALSE
    OBVIOUS
  <2>1. PICK none \in SUBSET Entities : none = {}
    OBVIOUS
  <2>2. Way(L, y) \subseteq none
    BY <2>1, WayIs
  <2> QED BY <1>3, <2>1, <2>2
<1>5. p[2] \in Entities /\ p[2] \notin S /\ \A q \in L : q[1] = y => q = p
  BY <1>2, <1>4, LinkEnds DEF Single
<1>6. x \notin Way(L, p[2]) /\ p[2] # x
  BY <1>5
<1> DEFINE T == Way(L, p[2]) \union {p[2]}
<1>7. T \in SUBSET Entities /\ \A q \in L : q[1] \in T => q[2] \in T
  BY <1>5, WayIs
<1>8. \A q \in L : q[1] = y => q[2] \in T
  BY <1>5
<1>9. Way(L, y) \subseteq T
  <2> HIDE DEF T
  <2> QED BY <1>7, <1>8, WayIs
<1> QED BY <1>3, <1>6, <1>9

LEMMA WayOn ==
  ASSUME NEW L \in Links, NEW x, NEW y \in Way(L, x)
  PROVE  Way(L, y) \subseteq Way(L, x)
<1>1. Way(L, x) \in SUBSET Entities /\ \A p \in L : p[1] \in Way(L, x) => p[2] \in Way(L, x)
  BY WayIs
<1>2. PICK S \in SUBSET Entities : S = Way(L, x)
  BY <1>1
<1> QED BY <1>1, <1>2, WayIs

\* A link leads on by one at least.
LEMMA DepthFalls ==
  ASSUME NEW L \in Links, Single(L), Acyclic(L)
  PROVE  /\ \A x : Depth(L, x) \in Nat
         /\ \A p \in L : Depth(L, p[2]) + 1 <= Depth(L, p[1])
<1>1. \A x : IsFiniteSet(Way(L, x)) /\ Depth(L, x) \in Nat
  <2> SUFFICES ASSUME NEW x PROVE IsFiniteSet(Way(L, x)) /\ Depth(L, x) \in Nat
    OBVIOUS
  <2>1. Way(L, x) \subseteq Entities /\ IsFiniteSet(Entities)
    BY WayIs, AliasAssumption
  <2> QED BY <2>1, FS_Subset, FS_CardinalityType DEF Depth
<1>2. ASSUME NEW p \in L
      PROVE  Depth(L, p[2]) + 1 <= Depth(L, p[1])
  <2>1. p[2] \in Way(L, p[1]) /\ p[2] \in Entities
    BY WayIs, LinkEnds
  <2>2. Way(L, p[2]) \subseteq Way(L, p[1]) /\ p[2] \notin Way(L, p[2])
    BY <2>1, WayOn, WayLeaves
  <2>3. /\ Cardinality(Way(L, p[2])) <= Cardinality(Way(L, p[1]))
        /\ Cardinality(Way(L, p[2])) = Cardinality(Way(L, p[1])) => Way(L, p[2]) = Way(L, p[1])
    BY <1>1, <2>2, FS_Subset
  <2>4. Depth(L, p[2]) # Depth(L, p[1]) /\ Depth(L, p[2]) <= Depth(L, p[1])
    BY <2>1, <2>2, <2>3 DEF Depth
  <2>5. Depth(L, p[2]) \in Nat /\ Depth(L, p[1]) \in Nat
    BY <1>1
  <2> QED BY <2>4, <2>5
<1> QED BY <1>1, <1>2

LEMMA MoveIsLess ==
  ASSUME NEW L \in Links, Single(L), Acyclic(L), NEW p \in L, NEW e \in Nodes \X Nodes,
         Along(p, e) # e
  PROVE  MovesLeft(L, Along(p, e)) + 1 <= MovesLeft(L, e)
<1>1. /\ Depth(L, p[1]) \in Nat /\ Depth(L, p[2]) \in Nat /\ Depth(L, e[1]) \in Nat
      /\ Depth(L, e[2]) \in Nat /\ Depth(L, p[2]) + 1 <= Depth(L, p[1])
  BY DepthFalls
<1>2. e = <<e[1], e[2]>>
  OBVIOUS
<1>3. e[1] = p[1] \/ e[2] = p[1]
  BY <1>2 DEF Along, Move
<1>4. Along(p, e)[1] = (IF e[1] = p[1] THEN p[2] ELSE e[1])
      /\ Along(p, e)[2] = (IF e[2] = p[1] THEN p[2] ELSE e[2])
  BY DEF Along, Move
<1>5. CASE e[1] = p[1] /\ e[2] = p[1]
  BY <1>1, <1>4, <1>5 DEF MovesLeft
<1>6. CASE e[1] = p[1] /\ e[2] # p[1]
  BY <1>1, <1>4, <1>6 DEF MovesLeft
<1>7. CASE e[1] # p[1] /\ e[2] = p[1]
  BY <1>1, <1>4, <1>7 DEF MovesLeft
<1> QED BY <1>3, <1>5, <1>6, <1>7

\* An edge that takes more moves than another can move on less often.
LEMMA FarIsLess ==
  ASSUME NEW L \in Links, Single(L), Acyclic(L), NEW E \in EdgeSets, NEW B \in Nat,
         \A e \in E : MovesLeft(L, e) <= B,
         NEW n \in Nat, NEW e \in Within(L, E, n + 1), e \notin Within(L, E, n)
  PROVE  MovesLeft(L, e) + n + 1 <= B
<1> DEFINE W(k) == Within(L, E, k)
           T == {k \in Nat : \E d \in W(k + 1) \ W(k) : ~(MovesLeft(L, d) + k + 1 <= B)}
<1> SUFFICES ASSUME ~(MovesLeft(L, e) + n + 1 <= B) PROVE FALSE
  OBVIOUS
<1>1. T \in SUBSET Nat /\ T # {}
  OBVIOUS
<1>2. PICK j \in T : \A k \in T : j <= k
  <2> HIDE DEF T
  <2> QED BY <1>1, LeastNat
<1>3. PICK d \in W(j + 1) \ W(j) : ~(MovesLeft(L, d) + j + 1 <= B)
  BY <1>2
<1>4. /\ j \in Nat /\ W(j) \in EdgeSets /\ W(j + 1) = W(j) \union Spread(L, W(j)) /\ W(0) = E
  BY WithinIs
<1>5. PICK p \in L, e0 \in W(j) : d = Along(p, e0) /\ d[1] # d[2]
  <2>1. d \in Spread(L, W(j))
    BY <1>3, <1>4
  <2> HIDE DEF W
  <2> QED BY <1>4, <2>1, SpreadIs
<1>6. e0 \in Nodes \X Nodes /\ Along(p, e0) # e0
  BY <1>3, <1>4, <1>5 DEF EdgeSets
<1>7. MovesLeft(L, d) + 1 <= MovesLeft(L, e0)
  BY <1>5, <1>6, MoveIsLess
<1>8. MovesLeft(L, d) \in Nat /\ MovesLeft(L, e0) \in Nat
  BY DepthFalls DEF MovesLeft
<1>9. CASE j = 0
  <2>1. MovesLeft(L, e0) <= B
    BY <1>4, <1>5, <1>9
  <2> QED BY <1>3, <1>7, <1>8, <1>9, <2>1
<1>10. CASE j # 0
  <2>1. j - 1 \in Nat /\ (j - 1) + 1 = j /\ ~(j <= j - 1)
    BY <1>4, <1>10
  <2>2. W(j - 1) \in EdgeSets /\ W(j) = W(j - 1) \union Spread(L, W(j - 1))
    BY <2>1, WithinIs
  <2>3. e0 \notin W(j - 1)
    <3> SUFFICES ASSUME e0 \in W(j - 1) PROVE FALSE
      OBVIOUS
    <3> HIDE DEF W
    <3>1. d \in Spread(L, W(j - 1))
      BY <1>5, <2>2, SpreadIs
    <3> QED BY <1>3, <2>2, <3>1
  <2>4. j - 1 \notin T
    <3> HIDE DEF T
    <3> QED BY <1>2, <2>1
  <2>5. \A f \in W((j - 1) + 1) \ W(j - 1) : MovesLeft(L, f) + (j - 1) + 1 <= B
    <3> HIDE DEF W
    <3> QED BY <2>1, <2>4
  <2>6. MovesLeft(L, e0) + (j - 1) + 1 <= B
    <3>1. e0 \in W((j - 1) + 1) \ W(j - 1)
      <4> HIDE DEF W
      <4> QED BY <1>5, <2>1, <2>3
    <3> HIDE DEF W
    <3> QED BY <2>5, <3>1
  <2> QED BY <1>3, <1>4, <1>7, <1>8, <2>6
<1> QED BY <1>9, <1>10

\* As many moves as an edge can make are enough.
LEMMA MovesEnd ==
  ASSUME NEW L \in Links, Single(L), Acyclic(L), NEW E \in EdgeSets, NEW B \in Nat,
         \A e \in E : MovesLeft(L, e) <= B
  PROVE  /\ Spread(L, Within(L, E, B)) \subseteq Within(L, E, B)
         /\ \A n \in Nat : Within(L, E, n) \subseteq Within(L, E, B)
<1>1. /\ Within(L, E, B) \in EdgeSets
      /\ Within(L, E, B + 1) = Within(L, E, B) \union Spread(L, Within(L, E, B))
  BY WithinIs
<1>2. Within(L, E, B + 1) \subseteq Within(L, E, B)
  <2> SUFFICES ASSUME NEW e \in Within(L, E, B + 1), e \notin Within(L, E, B) PROVE FALSE
    OBVIOUS
  <2>1. MovesLeft(L, e) + B + 1 <= B
    BY FarIsLess
  <2>2. MovesLeft(L, e) \in Nat
    BY DepthFalls DEF MovesLeft
  <2> QED BY <2>1, <2>2
<1>3. Spread(L, Within(L, E, B)) \subseteq Within(L, E, B)
  BY <1>1, <1>2
<1>4. E \subseteq Within(L, E, B)
  <2>1. 0 \in Nat /\ 0 <= B /\ Within(L, E, 0) = E
    BY WithinIs
  <2>2. Within(L, E, 0) \subseteq Within(L, E, B)
    BY <2>1, WithinGrows
  <2> QED BY <2>1, <2>2
<1>5. \A n \in Nat : Within(L, E, n) \subseteq Within(L, E, B)
  BY <1>1, <1>3, <1>4, WithinClosed
<1> QED BY <1>3, <1>5

\* Two ends, when there are any links, are never both at the start of the longest chain.
LEMMA MovesAreFew ==
  ASSUME NEW L \in Links, Single(L), Acyclic(L), NEW e \in Nodes \X Nodes, e[1] # e[2],
         NEW B \in Nat, B >= 2 * Cardinality(Entities) - 3
  PROVE  MovesLeft(L, e) <= B
<1> DEFINE N == Cardinality(Entities)
<1>0. N \in Nat /\ IsFiniteSet(Entities)
  BY FS_CardinalityType, AliasAssumption
<1>1. ASSUME NEW x, x \notin Entities PROVE Depth(L, x) = 0
  <2>1. PICK none \in SUBSET Entities : none = {}
    OBVIOUS
  <2>0. \A p \in L : p[1] # x /\ p[1] \notin none
    BY <1>1, <2>1, LinkEnds
  <2>2. Way(L, x) \subseteq none
    BY <2>0, WayIs
  <2>3. Way(L, x) = {}
    BY <2>1, <2>2
  <2> QED BY <2>3, FS_EmptySet DEF Depth
<1>2. ASSUME NEW x \in Entities
      PROVE  /\ Depth(L, x) \in Nat /\ Depth(L, x) <= N - 1
             /\ Depth(L, x) = N - 1 => Way(L, x) = Entities \ {x}
  <2>1. Way(L, x) \in SUBSET (Entities \ {x})
    BY WayIs, WayLeaves
  <2>2. IsFiniteSet(Entities \ {x}) /\ Cardinality(Entities \ {x}) = N - 1
    BY <1>0, FS_RemoveElement
  <2>3. /\ Cardinality(Way(L, x)) <= Cardinality(Entities \ {x})
        /\ Cardinality(Entities \ {x}) = Cardinality(Way(L, x)) => Entities \ {x} = Way(L, x)
    BY <2>1, <2>2, FS_Subset
  <2>4. Depth(L, x) \in Nat
    BY DepthFalls
  <2> QED BY <2>2, <2>3, <2>4 DEF Depth
<1>3. ASSUME NEW x \in Entities, NEW y \in Entities, x # y
      PROVE  ~(Depth(L, x) = N - 1 /\ Depth(L, y) = N - 1)
  <2> SUFFICES ASSUME Depth(L, x) = N - 1, Depth(L, y) = N - 1 PROVE FALSE
    OBVIOUS
  <2>1. y \in Way(L, x) /\ x \in Way(L, y)
    BY <1>2, <1>3
  <2>2. x \in Way(L, x)
    BY <2>1, WayOn
  <2> QED BY <2>2, WayLeaves
<1>4. CASE e[1] \in Entities /\ e[2] \in Entities
  <2>1. N # 0 /\ N # 1
    <3>1. N # 0
      BY <1>0, <1>4, FS_EmptySet
    <3>2. N # 1
      BY <1>0, <1>2, <1>3, <1>4
    <3> QED BY <3>1, <3>2
  <2> QED BY <1>0, <1>2, <1>3, <1>4, <2>1 DEF MovesLeft
<1>5. CASE e[1] \notin Entities \/ e[2] \notin Entities
  <2>1. ASSUME NEW x PROVE Depth(L, x) \in Nat /\ (Depth(L, x) = 0 \/ Depth(L, x) <= N - 1)
    BY <1>1, <1>2
  <2>2. Depth(L, e[1]) = 0 \/ Depth(L, e[2]) = 0
    BY <1>1, <1>5
  <2> QED BY <1>0, <2>1, <2>2 DEF MovesLeft
<1> QED BY <1>4, <1>5

\* Justified, by levels: of the asserted edges, along the links whose ends are there.
LiveLinks  == {p \in Approved : {p[1], p[2]} \subseteq known}
Graph == asserted \union DerivedEdges
All   == Within(LiveLinks, asserted, Cardinality(Entities) * 2)

LEMMA JustifiedIs == Justified = All \ asserted
BY DEF Justified, All, Within, Spread, Along, LiveLinks, Approved

\* When no edge can move more often than a sweep has passes.
ChainsFit == \A e \in asserted : MovesLeft(LiveLinks, e) <= MaxSweepPasses

LEMMA LiveIs ==
  ASSUME AliasInv
  PROVE  /\ LiveLinks \in Links /\ LiveLinks \subseteq Approved /\ Single(LiveLinks)
         /\ Acyclic(LiveLinks)
         /\ asserted \in EdgeSets /\ Graph \in EdgeSets /\ DerivedEdges \in EdgeSets
<1>1. Approved \in Links /\ Single(Approved) /\ Acyclic(Approved)
  BY Rows DEF AliasInv, AliasTypes, KeepsApart, Single
<1>2. LiveLinks \in Links /\ LiveLinks \subseteq Approved
  BY <1>1 DEF LiveLinks, Links
<1>3. Single(LiveLinks) /\ Acyclic(LiveLinks)
  BY <1>1, <1>2 DEF Single, Acyclic
<1>4. asserted \in EdgeSets /\ DerivedEdges \in EdgeSets
  BY AliasAssumption DEF AliasInv, AliasTypes, GraphTypes, EdgeSets, DerivedEdges, Nodes
<1> QED BY <1>2, <1>3, <1>4 DEF Graph, EdgeSets

\* All is all that any number of moves give.
LEMMA AllIs ==
  ASSUME AliasInv
  PROVE  /\ All \in EdgeSets /\ asserted \subseteq All /\ Spread(LiveLinks, All) \subseteq All
         /\ \A n \in Nat : Within(LiveLinks, asserted, n) \subseteq All
         /\ ChainsFit => All \subseteq Within(LiveLinks, asserted, MaxSweepPasses)
<1> DEFINE N == Cardinality(Entities)
<1>1. N \in Nat /\ N * 2 \in Nat /\ N * 2 >= 2 * Cardinality(Entities) - 3 /\ 0 \in Nat
      /\ 0 <= N * 2
  BY FS_CardinalityType, AliasAssumption
<1>2. PICK B \in Nat : B = N * 2
  BY <1>1
<1>3. PICK L \in Links, E \in EdgeSets : L = LiveLinks /\ E = asserted
  BY LiveIs
<1>4. Single(L) /\ Acyclic(L) /\ All = Within(L, E, B)
  BY <1>2, <1>3, LiveIs DEF All
<1>5. \A e \in E : MovesLeft(L, e) <= B
  <2> SUFFICES ASSUME NEW e \in E PROVE MovesLeft(L, e) <= B
    OBVIOUS
  <2>1. e \in Nodes \X Nodes /\ e[1] # e[2] /\ B >= 2 * Cardinality(Entities) - 3
    BY <1>1, <1>2, <1>3, AliasAssumption DEF EdgeSets, AliasInv, AliasTypes, GraphTypes
  <2> QED BY <1>4, <2>1, MovesAreFew
<1>6. /\ Spread(L, Within(L, E, B)) \subseteq Within(L, E, B)
      /\ \A n \in Nat : Within(L, E, n) \subseteq Within(L, E, B)
  BY <1>4, <1>5, MovesEnd
<1>7. Within(L, E, B) \in EdgeSets /\ Within(L, E, 0) = E
  BY WithinIs
<1>8. ASSUME ChainsFit PROVE Within(L, E, B) \subseteq Within(L, E, MaxSweepPasses)
  <2>1. MaxSweepPasses \in Nat /\ \A e \in E : MovesLeft(L, e) <= MaxSweepPasses
    BY <1>3, <1>8, AliasAssumption DEF ChainsFit
  <2> QED BY <1>4, <2>1, MovesEnd
<1> QED BY <1>1, <1>3, <1>4, <1>6, <1>7, <1>8

\* One link's copies, as moves along it.
LEMMA CopiesMove ==
  ASSUME AliasInv, NEW p \in LiveLinks
  PROVE  /\ {<<d[2], d[3]>> : d \in derived \union DerivedCopies(p[1], p[2])} \union asserted
              = Graph \union Spread({p}, Graph)
         /\ DerivedCopies(p[1], p[2]) = {} => Spread({p}, Graph) \subseteq Graph
<1> DEFINE a == p[1]
           c == p[2]
           moved == {Along(p, e) : e \in {e \in Graph : a \in {e[1], e[2]}}}
           new == {e \in moved : e[1] # e[2] /\ e \notin asserted}
<1>1. Graph \in EdgeSets /\ DerivedEdges \in EdgeSets /\ asserted \in EdgeSets
  BY LiveIs
<1>2. DerivedCopies(a, c) = {<<a, e[1], e[2]>> : e \in new} \ derived
  BY DEF DerivedCopies, Graph, Along
<1>3. ASSUME NEW e \in Graph, a \notin {e[1], e[2]} PROVE Along(p, e) = e
  <2>1. e = <<e[1], e[2]>>
    BY <1>1 DEF EdgeSets
  <2> QED BY <1>3, <2>1 DEF Along, Move
<1>4. Spread({p}, Graph) = {e \in {Along(p, d) : d \in Graph} : e[1] # e[2]}
  BY DEF Spread
<1>5. new \subseteq Spread({p}, Graph) /\ Spread({p}, Graph) \subseteq Graph \union new
  BY <1>3, <1>4 DEF Graph
<1>6. \A e \in new : e = <<e[1], e[2]>>
  BY DEF Along
<1> HIDE DEF new
<1>7. {<<d[2], d[3]>> : d \in derived \union DerivedCopies(a, c)} = DerivedEdges \union new
  <2> DEFINE Edge(d) == <<d[2], d[3]>>
  <2>1. {Edge(d) : d \in derived \union DerivedCopies(a, c)} \subseteq DerivedEdges \union new
    BY <1>2, <1>6 DEF DerivedEdges
  <2>2. ASSUME NEW e \in new PROVE e \in {Edge(d) : d \in derived \union DerivedCopies(a, c)}
    <3> DEFINE d == <<a, e[1], e[2]>>
    <3>1. d \in derived \union DerivedCopies(a, c) /\ Edge(d) = e
      BY <1>2, <1>6, <2>2
    <3> QED BY <3>1
  <2>3. DerivedEdges \subseteq {Edge(d) : d \in derived \union DerivedCopies(a, c)}
    BY DEF DerivedEdges
  <2> QED BY <2>1, <2>2, <2>3
<1>8. DerivedCopies(a, c) = {} => new \subseteq DerivedEdges
  <2> SUFFICES ASSUME DerivedCopies(a, c) = {}, NEW e \in new PROVE e \in DerivedEdges
    OBVIOUS
  <2>1. <<a, e[1], e[2]>> \in derived
    BY <1>2
  <2> QED BY <1>6, <2>1 DEF DerivedEdges
<1> QED BY <1>5, <1>7, <1>8 DEF Graph

-----------------------------------------------------------------------------
(* The invariant of the sweeps.                                            *)

\* What the replay of links L of a list has made of the asserted edges E: nothing but what the
\* links derive, with all that is n moves away and, along the links that this pass has already
\* replayed, one more.
Replayed(L, E, G, todo, n) ==
  /\ G \subseteq Within(L, E, Cardinality(Entities) * 2) /\ Within(L, E, n) \subseteq G
  /\ Spread(L \ todo, Within(L, E, n)) \subseteq G

\* The links that this pass has already replayed add nothing.
Closed(L, G, todo) == Spread(L \ todo, G) \subseteq G

\* A sweep that nothing has disturbed.
Sweeps(w) ==
  /\ w.links = Approved
  /\ \/ w.at = "listed" /\ w.todo = {} /\ w.passes = 0 /\ ~w.copied
     \/ /\ w.at = "replay" /\ w.rejected = Pairs(Rejected)
        /\ Replayed(LiveLinks, asserted, Graph, w.todo, w.passes)
        /\ ~w.copied => Closed(LiveLinks, Graph, w.todo)

OneSweeps  == \A s, t \in Sweepers : sweep[s] # NoSweep /\ sweep[t] # NoSweep => s = t
NoneSweeps == \A s \in Sweepers : sweep[s] = NoSweep

SweptInv ==
  /\ OneSweeps
  /\ rebuilt = "sweeping" => \E s \in Sweepers : Sweeps(sweep[s])
  /\ rebuilt = "exact" => NoneSweeps /\ (ChainsFit => Graph = All)

\* A replay that starts.
LEMMA ReplayStarts ==
  ASSUME NEW L \in Links, NEW E \in EdgeSets, NEW todo, L \subseteq todo
  PROVE  Replayed(L, E, E, todo, 0) /\ Closed(L, E, todo)
<1>1. L \ todo = {}
  OBVIOUS
<1>2. \A S : Spread(L \ todo, S) = {}
  BY <1>1 DEF Spread
<1>3. Cardinality(Entities) * 2 \in Nat /\ 0 \in Nat /\ 0 <= Cardinality(Entities) * 2
  BY FS_CardinalityType, AliasAssumption
<1>4. PICK B \in Nat : B = Cardinality(Entities) * 2 /\ 0 <= B
  BY <1>3
<1>5. Within(L, E, 0) = E /\ Within(L, E, 0) \subseteq Within(L, E, B)
  BY <1>3, <1>4, WithinIs, WithinGrows
<1> QED BY <1>2, <1>4, <1>5 DEF Replayed, Closed

LEMMA SpreadMore ==
  ASSUME NEW L, NEW M, NEW S
  PROVE  Spread(L \union M, S) = Spread(L, S) \union Spread(M, S)
BY DEF Spread

\* One link more.
LEMMA ReplayGoesOn ==
  ASSUME NEW L \in Links, NEW E \in EdgeSets, NEW G \in EdgeSets, NEW todo, NEW n \in Nat,
         Replayed(L, E, G, todo, n), NEW p \in todo, NEW A \in EdgeSets,
         A = Within(L, E, Cardinality(Entities) * 2), Spread(L, A) \subseteq A
  PROVE  /\ p \notin L => /\ Replayed(L, E, G, todo \ {p}, n)
                          /\ Closed(L, G, todo) => Closed(L, G, todo \ {p})
         /\ p \in L => /\ Replayed(L, E, G \union Spread({p}, G), todo \ {p}, n)
                       /\ Closed(L, G, todo) /\ Spread({p}, G) \subseteq G =>
                            Closed(L, G \union Spread({p}, G), todo \ {p})
<1>1. PICK W \in EdgeSets : W = Within(L, E, n)
  BY WithinIs
<1>2. G \subseteq A /\ W \subseteq G /\ Spread(L \ todo, W) \subseteq G
  BY <1>1 DEF Replayed
<1>3. CASE p \notin L
  <2>1. L \ (todo \ {p}) = L \ todo
    BY <1>3
  <2> QED BY <1>1, <1>2, <1>3, <2>1 DEF Replayed, Closed
<1>4. CASE p \in L
  <2>1. L \ (todo \ {p}) = (L \ todo) \union {p} /\ {p} \in Links
    BY <1>4 DEF Links
  <2>2. /\ Spread(L \ (todo \ {p}), W) = Spread(L \ todo, W) \union Spread({p}, W)
        /\ Spread(L \ (todo \ {p}), G) = Spread(L \ todo, G) \union Spread({p}, G)
    BY <2>1, SpreadMore
  <2>3. Spread({p}, W) \subseteq Spread({p}, G) /\ Spread({p}, G) \subseteq A
    <3>1. Spread({p}, G) \subseteq Spread({p}, A) /\ Spread({p}, W) \subseteq Spread({p}, G)
      BY <1>2, <2>1, SpreadIs
    <3>2. Spread({p}, A) \subseteq Spread(L, A)
      BY <1>4 DEF Spread
    <3> QED BY <3>1, <3>2
  <2>4. Replayed(L, E, G \union Spread({p}, G), todo \ {p}, n)
    BY <1>1, <1>2, <2>2, <2>3 DEF Replayed
  <2>5. ASSUME Closed(L, G, todo), Spread({p}, G) \subseteq G
        PROVE  Closed(L, G \union Spread({p}, G), todo \ {p})
    <3>1. G \union Spread({p}, G) = G /\ Spread(L \ todo, G) \subseteq G
      BY <2>5 DEF Closed
    <3> QED BY <2>2, <2>5, <3>1 DEF Closed
  <2> QED BY <1>4, <2>4, <2>5
<1> QED BY <1>3, <1>4

\* The whole list.
LEMMA ReplayEnds ==
  ASSUME NEW L \in Links, NEW E \in EdgeSets, NEW G \in EdgeSets, E \subseteq G, NEW todo,
         todo = {},
         NEW n \in Nat, Replayed(L, E, G, todo, n), NEW links, L \subseteq links
  PROVE  /\ Replayed(L, E, G, links, n + 1) /\ Closed(L, G, links)
         /\ Within(L, E, n + 1) \subseteq G /\ G \subseteq Within(L, E, Cardinality(Entities) * 2)
         /\ Closed(L, G, todo) => \A m \in Nat : Within(L, E, m) \subseteq G
<1>1. L \ todo = L /\ L \ links = {}
  OBVIOUS
<1>2. /\ G \subseteq Within(L, E, Cardinality(Entities) * 2) /\ Within(L, E, n) \subseteq G
      /\ Spread(L, Within(L, E, n)) \subseteq G
  BY <1>1 DEF Replayed
<1>3. Within(L, E, n + 1) \subseteq G
  <2>1. Within(L, E, n + 1) = Within(L, E, n) \union Spread(L, Within(L, E, n))
    BY WithinIs
  <2> QED BY <1>2, <2>1
<1>4. \A S : Spread(L \ links, S) = {}
  BY <1>1 DEF Spread
<1>5. Closed(L, G, todo) => \A m \in Nat : Within(L, E, m) \subseteq G
  BY <1>1, WithinClosed DEF Closed
<1>6. Replayed(L, E, G, links, n + 1) /\ Closed(L, G, links)
  BY <1>2, <1>3, <1>4 DEF Replayed, Closed
<1> QED BY <1>2, <1>3, <1>5, <1>6

LEMMA GraphRests ==
  ASSUME Approved' = Approved, known' = known, asserted' = asserted
  PROVE  LiveLinks' = LiveLinks /\ All' = All /\ (ChainsFit' <=> ChainsFit)
<1>1. LiveLinks' = LiveLinks
  BY DEF LiveLinks
<1> QED BY <1>1 DEF All, ChainsFit

\* Steps that nothing of this is about.
LEMMA SweptRests ==
  ASSUME SweptInv, sweep' = sweep, rebuilt' = rebuilt, Approved' = Approved, known' = known,
         Rejected' = Rejected, asserted' = asserted, derived' = derived
  PROVE  SweptInv'
<1>1. /\ LiveLinks' = LiveLinks /\ All' = All /\ (ChainsFit' <=> ChainsFit)
         /\ DerivedEdges' = DerivedEdges
  BY GraphRests DEF DerivedEdges
<1>2. Graph' = Graph
  BY <1>1 DEF Graph
<1>3. ASSUME NEW s \in Sweepers, Sweeps(sweep[s]) PROVE Sweeps(sweep[s])'
  BY <1>1, <1>2, <1>3 DEF Sweeps
<1>4. OneSweeps' /\ (NoneSweeps => NoneSweeps')
  BY DEF SweptInv, OneSweeps, NoneSweeps
<1> QED BY <1>1, <1>2, <1>3, <1>4 DEF SweptInv

\* A sweep that goes on, or ends, or disturbs what it rebuilds.
LEMMA OneStill ==
  ASSUME SweptInv, NEW s \in Sweepers, sweep \in [Sweepers -> SweepRecs], sweep[s] # NoSweep,
         NEW r, sweep' = [sweep EXCEPT ![s] = r]
  PROVE  /\ OneSweeps' /\ sweep'[s] = r /\ (r = NoSweep => NoneSweeps')
         /\ rebuilt # "exact" /\ (rebuilt = "sweeping" => Sweeps(sweep[s]))
<1>1. \A t \in Sweepers : t # s => sweep[t] = NoSweep /\ sweep'[t] = NoSweep
  BY DEF SweptInv, OneSweeps
<1>2. sweep'[s] = r
  OBVIOUS
<1>3. OneSweeps' /\ (r = NoSweep => NoneSweeps')
  BY <1>1, <1>2 DEF OneSweeps, NoneSweeps
<1>4. rebuilt # "exact"
  BY DEF SweptInv, NoneSweeps
<1>5. ASSUME NEW t \in Sweepers, Sweeps(sweep[t]) PROVE t = s
  <2>1. sweep[t] # NoSweep
    BY <1>5 DEF Sweeps, NoSweep
  <2> QED BY <1>1, <2>1
<1> QED BY <1>2, <1>3, <1>4, <1>5 DEF SweptInv

\* A sweep that starts.
LEMMA SweepStarts ==
  ASSUME "twice" \notin AliasRaces, sweep \in [Sweepers -> SweepRecs], NEW s \in Sweepers,
         MaySweep(s), NEW r, sweep' = [sweep EXCEPT ![s] = r], r.links = Approved',
         r.at = "listed", r.todo = {}, r.passes = 0, ~r.copied, rebuilt' = "sweeping"
  PROVE  SweptInv'
<1>1. \A t \in Sweepers : sweep[t] = NoSweep
  BY DEF MaySweep, Sweeping
<1>2. \A t \in Sweepers : t # s => sweep'[t] = NoSweep
  BY <1>1
<1>3. sweep'[s] = r
  OBVIOUS
<1>4. OneSweeps'
  BY <1>2 DEF OneSweeps
<1>5. Sweeps(sweep[s])'
  BY <1>3 DEF Sweeps
<1> QED BY <1>4, <1>5 DEF SweptInv

\* What it may replay is no pair that the user has rejected, and its row is the alias's only one.
LEMMA ReplaysLive ==
  ASSUME AliasInv, NEW p \in Approved
  PROVE  /\ {p[1], p[2]} \notin Pairs(Rejected) /\ (MayLink(p[1], p[2]) <=> p \in LiveLinks)
         /\ p = <<p[1], p[2]>> /\ p[1] \in Entities /\ p[2] \in Entities
<1>1. PICK A \in Links, R \in Links : A = Approved /\ R = Rejected
  BY Rows DEF AliasInv, AliasTypes
<1>2. p = <<p[1], p[2]>> /\ p[1] \in Entities /\ p[2] \in Entities
  BY <1>1, LinkEnds
<1>3. {p[1], p[2]} \notin Pairs(Rejected)
  <2> SUFFICES ASSUME {p[1], p[2]} \in Pairs(Rejected) PROVE FALSE
    OBVIOUS
  <2>1. PICK r \in R : {r[1], r[2]} = {p[1], p[2]}
    BY <1>1 DEF Pairs
  <2>2. r[2] \notin Cluster(A, r[1]) /\ r[1] \in Entities
    BY <1>1, LinkEnds DEF AliasInv, KeepsApart, Apart
  <2>3. \A q \in A : q[1] \in Cluster(A, r[1]) <=> q[2] \in Cluster(A, r[1])
    BY <2>2, ClusterHas
  <2>4. r[1] \in Cluster(A, r[1])
    BY <2>2, ClusterHas
  <2>5. (r[1] = p[1] /\ r[2] = p[2]) \/ (r[1] = p[2] /\ r[2] = p[1])
    BY <2>1
  <2>6. p[1] \in Cluster(A, r[1]) <=> p[2] \in Cluster(A, r[1])
    BY <1>1, <2>3
  <2> QED BY <2>2, <2>4, <2>5, <2>6
<1>4. decision[<<p[1], p[2]>>] = "applied"
  BY <1>2 DEF Approved, With
<1>5. Active(p[1]) \subseteq {<<p[1], p[2]>>}
  <2>1. Active(p[1]) = {q \in Approved \union Pending : q[1] = p[1]}
    BY <1>2, NoRows DEF AliasInv, AliasTypes
  <2>2. \A q \in Approved \union Pending : q[1] = p[1] => q = p
    BY DEF AliasInv, AliasTypes, Single
  <2> QED BY <1>2, <2>1, <2>2
<1> QED BY <1>2, <1>3, <1>4, <1>5 DEF MayLink, LiveLinks

\* Exactness.
LEMMA AllMeans ==
  ASSUME AliasInv, SweptInv
  PROVE  ChainsFit => SweptGraphIsExact
<1> SUFFICES ASSUME ChainsFit, rebuilt = "exact" PROVE DerivedEdges \ asserted = Justified
  BY DEF SweptGraphIsExact
<1>1. Graph = All
  BY DEF SweptInv
<1> QED BY <1>1, JustifiedIs DEF Graph

LEMMA SweptInit == AliasInit => SweptInv
<1> SUFFICES ASSUME AliasInit PROVE SweptInv
  OBVIOUS
<1>1. AliasInv
  BY AliasTypesInit
<1>2. /\ rebuilt = "exact" /\ asserted = {} /\ derived = {}
      /\ \A s \in Sweepers : sweep[s] = NoSweep
      /\ \A q \in Entities \X Entities : decision[q] = "none"
      /\ DOMAIN decision = Entities \X Entities
  BY DEF AliasInit
<1>3. LiveLinks = {} /\ Graph = {}
  BY <1>2 DEF LiveLinks, Graph, DerivedEdges, Approved, With
<1>4. PICK L \in Links, E \in EdgeSets : L = LiveLinks /\ E = asserted
  BY <1>1, LiveIs
<1>5. Spread(L, E) \subseteq E /\ E \subseteq E
  BY <1>3, <1>4 DEF Spread
<1>6. Cardinality(Entities) * 2 \in Nat
  BY FS_CardinalityType, AliasAssumption
<1>7. PICK B \in Nat : B = Cardinality(Entities) * 2
  BY <1>6
<1>8. Within(L, E, B) \subseteq E
  BY <1>5, WithinClosed
<1>9. All = {}
  BY <1>2, <1>4, <1>7, <1>8 DEF All
<1> QED BY <1>2, <1>3, <1>9 DEF SweptInv, OneSweeps, NoneSweeps

\* One link replayed.
LEMMA SweptLink ==
  ASSUME AliasInv, AliasInv', SweptInv, NEW s \in Sweepers, NEW p \in sweep[s].todo,
         SweepLinks(s, p)
  PROVE  SweptInv'
<1> DEFINE w == sweep[s]
<1>1. /\ sweep \in [Sweepers -> SweepRecs] /\ w \in SweepRecs /\ w.todo \subseteq w.links
      /\ AliasTypes
  BY DEF AliasInv, AliasTypes, SweepTypes, SweepInv
<1>2. decision' = decision /\ Approved' = Approved /\ Rejected' = Rejected
  BY <1>1, ReplayDecidesNothing, RowsStay
<1>3. known' = known /\ asserted' = asserted /\ rebuilt' = rebuilt
  BY DEF SweepLinks
<1>4. PICK skip \in BOOLEAN : skip <=> {p[1], p[2]} \in w.rejected
  OBVIOUS
<1>5. PICK new \in BOOLEAN :
        new <=> (~skip /\ MayLink(p[1], p[2]) /\ DerivedCopies(p[1], p[2]) # {})
  OBVIOUS
<1>6. sweep' = [sweep EXCEPT ![s].todo = @ \ {p}, ![s].copied = @ \/ new]
  BY <1>4, <1>5 DEF SweepLinks
<1>7. IF skip THEN UNCHANGED <<derived, decision>> ELSE LinkAlias(p[1], p[2])
  BY <1>4 DEF SweepLinks
<1>8. PICK b \in BOOLEAN : b = (w.copied \/ new)
  BY <1>1 DEF SweepRecs
<1>9. PICK r : r = [[w EXCEPT !.todo = w.todo \ {p}] EXCEPT !.copied = b]
  OBVIOUS
<1>10. sweep' = [sweep EXCEPT ![s] = r]
  BY <1>1, <1>6, <1>8, <1>9
<1>11. /\ r.at = w.at /\ r.links = w.links /\ r.rejected = w.rejected /\ r.todo = w.todo \ {p}
       /\ r.copied = b /\ r.passes = w.passes /\ w.passes \in Nat /\ w.copied \in BOOLEAN
       /\ w.todo \in Links
  BY <1>1, <1>9, AliasAssumption DEF SweepRecs
<1>12. w # NoSweep
  BY NoSweepIs
<1>13. /\ OneSweeps' /\ sweep'[s] = r /\ rebuilt # "exact"
       /\ (rebuilt = "sweeping" => Sweeps(w))
  BY <1>1, <1>10, <1>12, OneStill
<1>14. LiveLinks' = LiveLinks
  BY <1>2, <1>3, GraphRests
<1>15. ASSUME Sweeps(w) PROVE Sweeps(sweep[s])'
  <2>1. w.links = Approved /\ p \in Approved
    BY <1>1, <1>15 DEF Sweeps
  <2>2. w.at = "replay" /\ w.rejected = Pairs(Rejected)
        /\ Replayed(LiveLinks, asserted, Graph, w.todo, w.passes)
        /\ (~w.copied => Closed(LiveLinks, Graph, w.todo))
    BY <1>15 DEF Sweeps
  <2>3. /\ ~skip /\ (MayLink(p[1], p[2]) <=> p \in LiveLinks) /\ p = <<p[1], p[2]>>
        /\ {p[1], p[2]} \notin Pairs(Rejected) /\ p[1] \in Entities /\ p[2] \in Entities
    BY <1>4, <2>1, <2>2, ReplaysLive
  <2>4. LinkAlias(p[1], p[2])
    BY <1>7, <2>3
  <2>5. /\ LiveLinks \in Links /\ asserted \in EdgeSets /\ Graph \in EdgeSets
        /\ All \in EdgeSets /\ Spread(LiveLinks, All) \subseteq All
    BY LiveIs, AllIs
  <2>7. ASSUME p \in LiveLinks
        PROVE  /\ Graph' = Graph \union Spread({p}, Graph)
               /\ ~b => ~w.copied /\ Spread({p}, Graph) \subseteq Graph
    <3>1. derived' = derived \union DerivedCopies(p[1], p[2])
      BY <2>3, <2>4, <2>7 DEF LinkAlias
    <3>2. Graph' = {<<d[2], d[3]>> : d \in derived \union DerivedCopies(p[1], p[2])}
                      \union asserted
      BY <1>3, <3>1 DEF Graph, DerivedEdges
    <3>3. new <=> DerivedCopies(p[1], p[2]) # {}
      BY <1>5, <2>3, <2>7
    <3> QED BY <1>8, <2>7, <3>2, <3>3, CopiesMove
  <2>8. ASSUME p \notin LiveLinks PROVE Graph' = Graph /\ (b <=> w.copied)
    <3>1. derived' = derived /\ ~new
      BY <1>5, <2>3, <2>4, <2>8 DEF LinkAlias
    <3> QED BY <1>3, <1>8, <1>11, <3>1 DEF Graph, DerivedEdges
  <2>9. /\ Replayed(LiveLinks, asserted, Graph', w.todo \ {p}, w.passes)
        /\ (~b => Closed(LiveLinks, Graph', w.todo \ {p}))
    <3>1. PICK L \in Links, E \in EdgeSets, G \in EdgeSets, n \in Nat, A \in EdgeSets,
               todo \in Links :
              /\ L = LiveLinks /\ E = asserted /\ G = Graph /\ n = w.passes /\ A = All
              /\ todo = w.todo
      BY <1>11, <2>5
    <3>2. /\ Replayed(L, E, G, todo, n) /\ A = Within(L, E, Cardinality(Entities) * 2)
          /\ Spread(L, A) \subseteq A /\ p \in todo
      BY <2>2, <2>5, <3>1 DEF All
    <3>3. /\ p \notin L => /\ Replayed(L, E, G, todo \ {p}, n)
                           /\ Closed(L, G, todo) => Closed(L, G, todo \ {p})
          /\ p \in L => /\ Replayed(L, E, G \union Spread({p}, G), todo \ {p}, n)
                        /\ Closed(L, G, todo) /\ Spread({p}, G) \subseteq G =>
                             Closed(L, G \union Spread({p}, G), todo \ {p})
      BY <3>2, ReplayGoesOn
    <3>4. CASE p \in LiveLinks
      BY <2>2, <2>7, <3>1, <3>3, <3>4
    <3>5. CASE p \notin LiveLinks
      BY <2>2, <2>8, <3>1, <3>3, <3>5
    <3> QED BY <3>4, <3>5
  <2>10. /\ Replayed(LiveLinks', asserted', Graph', r.todo, r.passes)
         /\ (~r.copied => Closed(LiveLinks', Graph', r.todo))
    BY <1>3, <1>11, <1>14, <2>9
  <2> QED BY <1>2, <1>11, <1>13, <2>1, <2>2, <2>10 DEF Sweeps
<1> QED BY <1>3, <1>13, <1>15 DEF SweptInv

\* The old rows listed, the derived edges cleared.
LEMMA SweptClear ==
  ASSUME AliasInv, SweptInv, NEW s \in Sweepers, SweepClears(s)
  PROVE  SweptInv'
<1> DEFINE w == sweep[s]
<1>1. sweep \in [Sweepers -> SweepRecs] /\ w \in SweepRecs /\ w # NoSweep
  BY DEF AliasInv, AliasTypes, SweepTypes, SweepClears, NoSweep
<1>2. /\ derived' = {} /\ decision' = decision /\ known' = known /\ asserted' = asserted
      /\ w.at = "listed"
  BY DEF SweepClears
<1>3. Approved' = Approved /\ Rejected' = Rejected
  BY <1>2, RowsStay
<1>4. LiveLinks' = LiveLinks /\ All' = All /\ (ChainsFit' <=> ChainsFit)
  BY <1>2, <1>3, GraphRests
<1>5. Graph' = asserted
  BY <1>2 DEF Graph, DerivedEdges
<1>6. PICK L \in Links, E \in EdgeSets : L = LiveLinks /\ E = asserted
  BY LiveIs
<1>7. CASE w.links = {}
  <2>1. sweep' = [sweep EXCEPT ![s] = NoSweep]
        /\ rebuilt' = IF rebuilt = "sweeping" THEN "exact" ELSE rebuilt
    BY <1>7 DEF SweepClears, Done
  <2>2. OneSweeps' /\ NoneSweeps' /\ rebuilt # "exact" /\ (rebuilt = "sweeping" => Sweeps(w))
    BY <1>1, <2>1, OneStill
  <2>3. ASSUME Sweeps(w) PROVE All = asserted
    <3>1. Spread(L, E) \subseteq E /\ E \subseteq E
      <4>1. L = {}
        BY <1>6, <1>7, <2>3, LiveIs DEF Sweeps
      <4> QED BY <4>1 DEF Spread
    <3>2. Cardinality(Entities) * 2 \in Nat
      BY FS_CardinalityType, AliasAssumption
    <3>3. PICK B \in Nat : B = Cardinality(Entities) * 2
      BY <3>2
    <3>4. Within(L, E, B) \subseteq E
      BY <3>1, WithinClosed
    <3> QED BY <1>6, <3>3, <3>4, AllIs DEF All
  <2> QED BY <1>4, <1>5, <2>1, <2>2, <2>3 DEF SweptInv
<1>8. CASE w.links # {}
  <2>1. PICK R : R = Pairs(With("rejected"))
    OBVIOUS
  <2>2. PICK r : r = [[[w EXCEPT !.at = "replay"] EXCEPT !.rejected = R] EXCEPT !.todo = w.links]
    OBVIOUS
  <2>3. sweep' = [sweep EXCEPT ![s].at = "replay", ![s].rejected = R, ![s].todo = w.links]
        /\ rebuilt' = rebuilt
    BY <1>8, <2>1 DEF SweepClears
  <2>4. sweep' = [sweep EXCEPT ![s] = r]
    BY <1>1, <2>2, <2>3
  <2>5. /\ r.at = "replay" /\ r.links = w.links /\ r.rejected = R /\ r.todo = w.links
        /\ r.copied = w.copied /\ r.passes = w.passes /\ w.copied \in BOOLEAN
    BY <1>1, <2>2 DEF SweepRecs
  <2>6. OneSweeps' /\ sweep'[s] = r /\ rebuilt # "exact" /\ (rebuilt = "sweeping" => Sweeps(w))
    BY <1>1, <2>4, OneStill
  <2>7. ASSUME Sweeps(w) PROVE Sweeps(sweep[s])'
    <3>1. w.links = Approved /\ w.passes = 0 /\ w.copied = FALSE
      BY <1>2, <2>5, <2>7 DEF Sweeps
    <3>2. PICK todo : todo = w.links
      OBVIOUS
    <3>3. L \subseteq todo
      BY <1>6, <3>1, <3>2, LiveIs
    <3>4. Replayed(L, E, E, todo, 0) /\ Closed(L, E, todo)
      BY <3>3, ReplayStarts
    <3>5. Replayed(LiveLinks', asserted', Graph', r.todo, r.passes)
          /\ Closed(LiveLinks', Graph', r.todo)
      BY <1>2, <1>4, <1>5, <1>6, <2>5, <3>1, <3>2, <3>4
    <3> QED BY <1>3, <2>1, <2>5, <2>6, <3>1, <3>5 DEF Sweeps, Rejected
  <2> QED BY <2>3, <2>6, <2>7 DEF SweptInv
<1> QED BY <1>7, <1>8

\* A pass over the list that ends.
LEMMA SweptPass ==
  ASSUME AliasInv, SweptInv, NEW s \in Sweepers, SweepPassEnds(s)
  PROVE  SweptInv'
<1> DEFINE w == sweep[s]
<1>1. sweep \in [Sweepers -> SweepRecs] /\ w \in SweepRecs /\ w # NoSweep
  BY DEF AliasInv, AliasTypes, SweepTypes, SweepPassEnds, NoSweep
<1>2. /\ derived' = derived /\ decision' = decision /\ known' = known /\ asserted' = asserted
      /\ w.at = "replay" /\ w.todo = {}
  BY DEF SweepPassEnds
<1>3. Approved' = Approved /\ Rejected' = Rejected
  BY <1>2, RowsStay
<1>4. LiveLinks' = LiveLinks /\ All' = All /\ (ChainsFit' <=> ChainsFit)
  BY <1>2, <1>3, GraphRests
<1>5. Graph' = Graph
  BY <1>2 DEF Graph, DerivedEdges
<1>6. w.copied \in BOOLEAN /\ w.passes \in 0..(MaxSweepPasses - 1) /\ w.passes \in Nat
      /\ MaxSweepPasses \in Nat
  BY <1>1, AliasAssumption DEF SweepRecs
<1>7. PICK L \in Links, E \in EdgeSets, G \in EdgeSets, n \in Nat :
        /\ L = LiveLinks /\ E = asserted /\ G = Graph /\ n = w.passes
  BY <1>6, LiveIs
<1>8. ASSUME Sweeps(w)
      PROVE  /\ Replayed(L, E, G, w.links, n + 1) /\ Closed(L, G, w.links)
             /\ Within(L, E, n + 1) \subseteq G /\ G \subseteq All
             /\ (~w.copied => All \subseteq G)
  <2>1. w.links = Approved /\ Replayed(L, E, G, w.todo, n) /\ (~w.copied => Closed(L, G, w.todo))
    BY <1>2, <1>7, <1>8 DEF Sweeps
  <2>2. PICK todo, links : todo = w.todo /\ links = w.links
    OBVIOUS
  <2>3. E \subseteq G /\ L \subseteq links /\ todo = {} /\ Replayed(L, E, G, todo, n)
    BY <1>2, <1>7, <2>1, <2>2, LiveIs DEF Graph
  <2>4. /\ Replayed(L, E, G, links, n + 1) /\ Closed(L, G, links)
        /\ Within(L, E, n + 1) \subseteq G
        /\ G \subseteq Within(L, E, Cardinality(Entities) * 2)
        /\ Closed(L, G, todo) => \A m \in Nat : Within(L, E, m) \subseteq G
    BY <2>3, ReplayEnds
  <2>5. Cardinality(Entities) * 2 \in Nat
    BY FS_CardinalityType, AliasAssumption
  <2> QED BY <1>7, <2>1, <2>2, <2>4, <2>5 DEF All
<1>9. CASE w.copied /\ w.passes + 1 < MaxSweepPasses
  <2>1. PICK r : r = [[[w EXCEPT !.todo = w.links] EXCEPT !.copied = FALSE]
                        EXCEPT !.passes = w.passes + 1]
    OBVIOUS
  <2>2. sweep' = [sweep EXCEPT ![s].todo = w.links, ![s].copied = FALSE, ![s].passes = @ + 1]
        /\ rebuilt' = rebuilt
    BY <1>9 DEF SweepPassEnds
  <2>3. sweep' = [sweep EXCEPT ![s] = r]
    BY <1>1, <2>1, <2>2
  <2>4. /\ r.at = "replay" /\ r.links = w.links /\ r.rejected = w.rejected /\ r.todo = w.links
        /\ r.copied = FALSE /\ r.passes = w.passes + 1
    BY <1>1, <1>2, <2>1 DEF SweepRecs
  <2>5. OneSweeps' /\ sweep'[s] = r /\ rebuilt # "exact" /\ (rebuilt = "sweeping" => Sweeps(w))
    BY <1>1, <2>3, OneStill
  <2>6. ASSUME Sweeps(w) PROVE Sweeps(sweep[s])'
    <3>1. w.links = Approved /\ w.rejected = Pairs(Rejected)
      BY <1>2, <2>6 DEF Sweeps
    <3>2. Replayed(LiveLinks', asserted', Graph', r.todo, r.passes)
          /\ Closed(LiveLinks', Graph', r.todo)
      BY <1>2, <1>4, <1>5, <1>7, <1>8, <2>4, <2>6
    <3> QED BY <1>3, <2>4, <2>5, <3>1, <3>2 DEF Sweeps
  <2> QED BY <2>2, <2>5, <2>6 DEF SweptInv
<1>10. CASE ~(w.copied /\ w.passes + 1 < MaxSweepPasses)
  <2>1. sweep' = [sweep EXCEPT ![s] = NoSweep]
        /\ rebuilt' = IF rebuilt = "sweeping" THEN "exact" ELSE rebuilt
    BY <1>10 DEF SweepPassEnds, Done
  <2>2. OneSweeps' /\ NoneSweeps' /\ rebuilt # "exact" /\ (rebuilt = "sweeping" => Sweeps(w))
    BY <1>1, <2>1, OneStill
  <2>3. ASSUME Sweeps(w), ChainsFit PROVE Graph = All
    <3>1. CASE ~w.copied
      BY <1>7, <1>8, <2>3, <3>1
    <3>2. CASE w.copied
      <4>1. w.passes + 1 = MaxSweepPasses
        BY <1>6, <1>10, <3>2
      <4>2. All \subseteq Within(LiveLinks, asserted, MaxSweepPasses)
        BY <2>3, AllIs
      <4>3. All \subseteq Within(L, E, n + 1)
        BY <1>7, <4>1, <4>2
      <4> QED BY <1>7, <1>8, <2>3, <4>3
    <3> QED BY <3>1, <3>2
  <2> QED BY <1>4, <1>5, <2>1, <2>2, <2>3 DEF SweptInv
<1> QED BY <1>9, <1>10

LEMMA SweptStale == rebuilt' = "stale" /\ OneSweeps' => SweptInv'
BY DEF SweptInv

LEMMA SweptStep ==
  ASSUME AliasInv, AliasInv', SweptInv, NEW s \in Sweepers,
         \/ SweepClears(s) \/ SweepPassEnds(s) \/ SweepStops(s)
         \/ \E p \in sweep[s].todo : SweepLinks(s, p) \/ SweepLinkFails(s, p)
  PROVE  SweptInv'
<1>1. sweep \in [Sweepers -> SweepRecs]
  BY DEF AliasInv, AliasTypes, SweepTypes
<1>2. CASE SweepStops(s)
  <2>1. sweep' = [sweep EXCEPT ![s] = NoSweep] /\ rebuilt' = "stale" /\ sweep[s] # NoSweep
    BY <1>2 DEF SweepStops, NoSweep
  <2>2. OneSweeps'
    BY <1>1, <2>1, OneStill
  <2> QED BY <2>1, <2>2, SweptStale
<1>3. ASSUME NEW p \in sweep[s].todo, SweepLinkFails(s, p) PROVE SweptInv'
  <2>1. sweep' = [sweep EXCEPT ![s].todo = @ \ {p}] /\ rebuilt' = "stale" /\ sweep[s] # NoSweep
    BY <1>3, NoSweepIs DEF SweepLinkFails
  <2>2. PICK r : r = [sweep[s] EXCEPT !.todo = @ \ {p}]
    OBVIOUS
  <2>3. sweep' = [sweep EXCEPT ![s] = r]
    BY <1>1, <2>1, <2>2
  <2>4. OneSweeps'
    BY <1>1, <2>1, <2>3, OneStill
  <2> QED BY <2>1, <2>4, SweptStale
<1> QED BY <1>2, <1>3, SweptClear, SweptPass, SweptLink

LEMMA SweptIdle ==
  ASSUME "twice" \notin AliasRaces, AliasInv, SweptInv, Idles
  PROVE  SweptInv'
<1>1. /\ sweep \in [Sweepers -> SweepRecs] /\ Decided /\ "cli" \in Sweepers
      /\ \A d \in Compiles : d \in Sweepers
  BY DEF AliasInv, AliasTypes, SweepTypes, Sweepers
<1>2. ASSUME sweep' = sweep, rebuilt' = "stale" PROVE SweptInv'
  <2>1. OneSweeps'
    BY <1>2 DEF SweptInv, OneSweeps
  <2> QED BY <1>2, <2>1, SweptStale
<1>3. ASSUME decision' = decision, sweep' = sweep, rebuilt' = rebuilt, known' = known,
             asserted' = asserted, derived' = derived
      PROVE  SweptInv'
  BY <1>3, RowsStay, SweptRests
<1>4. ASSUME NEW s \in Sweepers, decision' = decision, MaySweep(s),
             sweep' = [sweep EXCEPT ![s] = Listed], rebuilt' = "sweeping"
      PROVE  SweptInv'
  <2>1. /\ Listed.links = Approved' /\ Listed.at = "listed" /\ Listed.todo = {}
        /\ Listed.passes = 0 /\ ~Listed.copied
    BY <1>1, <1>4, ListedIs, RowsStay DEF Listed, NoSweep
  <2> QED BY <1>1, <1>4, <2>1, SweepStarts
<1>5. CASE \E e \in Edges : AddRelation(e)
  BY <1>2, <1>5 DEF AddRelation
<1>6. CASE \E e \in Prunable : DeleteEntity(e) \/ AddEntity(e)
  BY <1>2, <1>6 DEF DeleteEntity, AddEntity
<1>7. ASSUME NEW d \in Compiles, NEW touched \in SUBSET Entities, LoadSnapshot(d, touched)
      PROVE  SweptInv'
  BY <1>3, <1>7 DEF LoadSnapshot
<1>8. ASSUME NEW d \in Compiles, BeginPass(d) PROVE SweptInv'
  BY <1>1, <1>4, <1>8 DEF BeginPass
<1>9. ASSUME NEW d \in Compiles, EndPass(d) PROVE SweptInv'
  BY <1>3, <1>9 DEF EndPass
<1>10. CASE SweepCommand
  BY <1>1, <1>4, <1>10 DEF SweepCommand
<1>11. ASSUME NEW a \in Entities, NEW c \in Entities, CheckProposal(a, c) \/ ApplyFails(a, c)
       PROVE  SweptInv'
  BY <1>3, <1>11 DEF CheckProposal, ApplyFails
<1> QED BY <1>5, <1>6, <1>7, <1>8, <1>9, <1>10, <1>11 DEF Idles

LEMMA SweptNext ==
  ASSUME AliasRaces = {}
  PROVE  AliasInv /\ SweptInv /\ [AliasNext]_aliasVars => AliasInv' /\ SweptInv'
<1> SUFFICES ASSUME AliasInv, SweptInv, [AliasNext]_aliasVars PROVE AliasInv' /\ SweptInv'
  OBVIOUS
<1>1. AliasInv' /\ AliasTypes /\ "twice" \notin AliasRaces
      /\ sweep \in [Sweepers -> SweepRecs]
  BY AliasInvNext DEF AliasInv, AliasTypes, SweepTypes
<1>2. ASSUME sweep' = sweep, rebuilt' = "stale" PROVE SweptInv'
  <2>1. OneSweeps'
    BY <1>2 DEF SweptInv, OneSweeps
  <2> QED BY <1>2, <2>1, SweptStale
<1>3. CASE UNCHANGED aliasVars
  <2>1. /\ decision' = decision /\ sweep' = sweep /\ rebuilt' = rebuilt /\ known' = known
        /\ asserted' = asserted /\ derived' = derived
    BY <1>3 DEF aliasVars
  <2>2. Approved' = Approved /\ Rejected' = Rejected
    BY <2>1, RowsStay
  <2> QED BY <1>1, <2>1, <2>2, SweptRests
<1>4. CASE Idles
  BY <1>1, <1>4, SweptIdle
<1>5. ASSUME NEW s \in Sweepers,
             \/ SweepClears(s) \/ SweepPassEnds(s) \/ SweepStops(s)
             \/ \E p \in sweep[s].todo : SweepLinks(s, p) \/ SweepLinkFails(s, p)
      PROVE  SweptInv'
  BY <1>1, <1>5, SweptStep
<1>6. ASSUME NEW d \in Compiles, NEW a \in Entities, NEW c \in Entities,
             NEW certain \in BOOLEAN, NEW ghost \in BOOLEAN, Propose(d, a, c, certain, ghost)
      PROVE  SweptInv'
  <2>1. /\ sweep' = sweep /\ Rejected' = Rejected /\ known' = known /\ asserted' = asserted
        /\ \/ rebuilt' = "stale"
           \/ rebuilt' = rebuilt /\ derived' = derived /\ Approved' = Approved
    BY <1>1, <1>6, ProposeDoes
  <2> QED BY <1>2, <2>1, SweptRests
<1>7. ASSUME NEW a \in Entities, NEW c \in Entities, Apply(a, c) PROVE SweptInv'
  BY <1>1, <1>2, <1>7, ApplyDoes
<1>8. ASSUME NEW a \in Entities, NEW c \in Entities, NEW both \in BOOLEAN, Reject(a, c, both)
      PROVE  SweptInv'
  BY <1>2, <1>8 DEF Reject
<1>9. ASSUME NEW a \in Entities, NEW c \in Entities, Unlink(a, c) PROVE SweptInv'
  <2>1. PICK r : r = [Listed EXCEPT !.links = @ \ {<<a, c>>}]
    OBVIOUS
  <2>2. /\ MaySweep("cli") /\ sweep' = [sweep EXCEPT !["cli"] = r] /\ rebuilt' = "sweeping"
        /\ SetRejected({<<a, c>>}) /\ decision[<<a, c>>] = "applied" /\ "cli" \in Sweepers
    BY <1>9, <2>1 DEF Unlink, Sweepers
  <2>3. Decided /\ {<<a, c>>} \in SUBSET (Approved \union Pending)
    BY <1>1, <2>2 DEF AliasTypes, Approved, With, Decided
  <2>4. Approved' = Approved \ {<<a, c>>}
    <3>1. /\ Pending \in Links /\ Approved \in Links /\ Single(Approved \union Pending)
      BY <1>1, Rows DEF AliasTypes
    <3> QED BY <2>2, <2>3, RowsRejected
  <2>5. r.links = Approved \ {<<a, c>>}
    BY <2>1, <2>3, ListedIs
  <2>6. r.at = "listed" /\ r.todo = {} /\ r.passes = 0 /\ ~r.copied
    BY <2>1 DEF Listed, NoSweep
  <2> QED BY <1>1, <2>2, <2>4, <2>5, <2>6, SweepStarts
<1> QED BY <1>1, <1>3, <1>4, <1>5, <1>6, <1>7, <1>8, <1>9, AliasSteps

\* As long as one link at a time is decided on and one sweep runs at a time: when a sweep has
\* ended and nothing has changed since, the derived edges are exactly those that the approved
\* links justify, if no edge is further from the end of its chains than a sweep has passes.
THEOREM SweptIsExact ==
  ASSUME AliasRaces = {}
  PROVE  AliasSpec => [](ChainsFit => SweptGraphIsExact)
<1>1. AliasInit => AliasInv /\ SweptInv
  BY AliasTypesInit, SweptInit
<1>2. AliasInv /\ SweptInv => (ChainsFit => SweptGraphIsExact)
  BY AllMeans
<1> QED BY <1>1, <1>2, SweptNext, PTL DEF AliasSpec

\* With passes for the longest chains that the entities can make, that is so of every graph.
THEOREM SweptIsExactOfFew ==
  ASSUME AliasRaces = {},
         MaxSweepPasses >= 2 * Cardinality(Entities) - 3
  PROVE  AliasSpec => []SweptGraphIsExact
<1>1. AliasInit => AliasInv /\ SweptInv
  BY AliasTypesInit, SweptInit
<1>2. ASSUME AliasInv PROVE ChainsFit
  <2> SUFFICES ASSUME NEW e \in asserted PROVE MovesLeft(LiveLinks, e) <= MaxSweepPasses
    BY DEF ChainsFit
  <2>1. e \in Nodes \X Nodes /\ e[1] # e[2] /\ MaxSweepPasses \in Nat
    BY <1>2, AliasAssumption DEF AliasInv, AliasTypes, GraphTypes
  <2>2. PICK L \in Links : L = LiveLinks /\ Single(L) /\ Acyclic(L)
    BY <1>2, LiveIs
  <2> QED BY <2>1, <2>2, MovesAreFew
<1>3. AliasInv /\ SweptInv => SweptGraphIsExact
  BY <1>2, AllMeans
<1> QED BY <1>1, <1>3, SweptNext, PTL DEF AliasSpec

-----------------------------------------------------------------------------
(* The stores together (MCStores): their types, whatever the members of the sets of races. *)

\* The lock file, the manifest and its temp file.
FilesTyped ==
  /\ lockfile \in [there : BOOLEAN, token : Editors \union {NoToken}, old : BOOLEAN]
  /\ disk \in Manifests /\ tmpfile \in Manifests \union {NoFile}
  /\ changes \in 0..MaxChanges /\ deaths \in 0..MaxDeaths

\* The manifest's types are those of its files and those of its editors.
LEMMA FilesAndEditors == ManTypeOK <=> FilesTyped /\ editor \in [Editors -> Records]
BY DEF ManTypeOK, FilesTyped, Records, EditorPlaces

\* A lock file is of its type whoever made it, and so is none.
LEMMA LockTypes ==
  /\ \A t \in Editors \union {NoToken} :
       Fresh(t) \in [there : BOOLEAN, token : Editors \union {NoToken}, old : BOOLEAN]
  /\ [there |-> FALSE, token |-> NoToken, old |-> FALSE]
       \in [there : BOOLEAN, token : Editors \union {NoToken}, old : BOOLEAN]
BY DEF Fresh

\* A step of an editor that only moves on, or is done.
LEMMA EditorMoves ==
  ASSUME ManTypeOK, NEW p \in Editors,
         (\E at \in EditorPlaces : Goes(p, at)) \/ editor' = [editor EXCEPT ![p] = Out]
  PROVE  editor' \in [Editors -> Records]
BY EditorGoes, EditorBecomes, RestTypes

\* The manifest file, its lock and its editors, whatever the locks' timing.
LEMMA ManifestTyped == ManSpec => []ManTypeOK
<1>1. ManInit => ManTypeOK
  BY ManInitial DEF ManInv
<1>2. ManTypeOK /\ [ManNext]_manVars => ManTypeOK'
  <2> SUFFICES ASSUME ManTypeOK, [ManNext]_manVars PROVE ManTypeOK'
    OBVIOUS
  <2> DEFINE Locks0 == [there : BOOLEAN, token : Editors \union {NoToken}, old : BOOLEAN]
  <2>a. /\ lockfile \in Locks0 /\ disk \in Manifests /\ tmpfile \in Manifests \union {NoFile}
        /\ changes \in 0..MaxChanges /\ deaths \in 0..MaxDeaths /\ editor \in [Editors -> Records]
    BY FilesAndEditors DEF FilesTyped
  <2>b. ASSUME NEW p \in Editors
        PROVE  /\ editor[p] \in Records /\ editor[p].base \in Manifests
               /\ editor[p].ours \in Manifests /\ editor[p].save \in Manifests
    BY <2>a DEF Records
  <2>c. MaxChanges \in Nat /\ MaxDeaths \in Nat
    BY ManifestAssumption
  <2>d. ASSUME FilesTyped', editor' \in [Editors -> Records] PROVE ManTypeOK'
    BY <2>d DEF FilesTyped, ManTypeOK, Records, EditorPlaces
  <2>1. ASSUME NEW p \in Editors,
               WriteShortly(p) \/ MergeSave(p) \/ SeeStale(p) \/ Settle(p) \/ GiveUp(p)
        PROVE  ManTypeOK'
    <3>1. UNCHANGED <<lockfile, disk, tmpfile, changes, deaths>>
      BY <2>1 DEF WriteShortly, MergeSave, SeeStale, Settle, GiveUp
    <3>2. (\E at \in EditorPlaces : Goes(p, at)) \/ editor' = [editor EXCEPT ![p] = Out]
      BY <2>1 DEF WriteShortly, MergeSave, SeeStale, Settle, GiveUp, EditorPlaces, Locking,
         Holding
    <3> QED BY <2>a, <2>d, <3>1, <3>2, EditorMoves DEF FilesTyped
  <2>2. ASSUME NEW p \in Editors, CreateLock(p) \/ WriteToken(p) \/ Truncate(p) \/ Overwrite(p)
        PROVE  ManTypeOK'
    <3>1. UNCHANGED <<disk, tmpfile, changes, deaths>>
      BY <2>2 DEF CreateLock, WriteToken, Truncate, Overwrite
    <3>2. \E at \in EditorPlaces : Goes(p, at)
      BY <2>2 DEF CreateLock, WriteToken, Truncate, Overwrite, EditorPlaces, Locking, Holding
    <3>3. UNCHANGED lockfile \/ \E t \in Editors \union {NoToken} : lockfile' = Fresh(t)
      BY <2>2 DEF CreateLock, WriteToken, Truncate, Overwrite
    <3>4. lockfile' \in Locks0
      BY <2>a, <3>3, LockTypes
    <3> QED BY <2>a, <2>d, <3>1, <3>2, <3>4, EditorMoves DEF FilesTyped
  <2>3. ASSUME NEW p \in Editors, Clone(p) PROVE ManTypeOK'
    <3> DEFINE r == [at |-> "work", owner |-> TRUE, base |-> disk, ours |-> disk, save |-> Empty]
    <3>1. r \in Records
      BY <2>a, RestTypes DEF Records, EditorPlaces
    <3>2. editor' = [editor EXCEPT ![p] = r]
          /\ UNCHANGED <<lockfile, disk, tmpfile, changes, deaths>>
      BY <2>3 DEF Clone
    <3> HIDE DEF r
    <3>3. editor' \in [Editors -> Records]
      BY <3>1, <3>2, EditorBecomes
    <3> QED BY <2>a, <2>d, <3>2, <3>3 DEF FilesTyped
  <2>4. ASSUME NEW p \in Editors, Change(p) PROVE ManTypeOK'
    <3>1. PICK m \in Changed(editor[p].ours) : editor' = [editor EXCEPT ![p].ours = m]
      BY <2>4 DEF Change
    <3>2. m \in Manifests /\ changes + 1 \in 0..MaxChanges
      BY <2>4, <2>a, <2>b, <2>c, <3>1, ChangedType DEF Change
    <3>3. [editor[p] EXCEPT !.ours = m] \in Records
      BY <2>b, <3>2 DEF Records
    <3>4. editor' = [editor EXCEPT ![p] = [editor[p] EXCEPT !.ours = m]]
      BY <2>a, <3>1
    <3>5. editor' \in [Editors -> Records]
      BY <3>3, <3>4, EditorBecomes
    <3>6. changes' = changes + 1 /\ UNCHANGED <<lockfile, disk, tmpfile, deaths>>
      BY <2>4 DEF Change
    <3> QED BY <2>a, <2>d, <3>2, <3>5, <3>6 DEF FilesTyped
  <2>5. ASSUME NEW p \in Editors, Reload(p) PROVE ManTypeOK'
    <3> DEFINE m == MergeInto(disk, editor[p].base, editor[p].ours)
               r == [editor[p] EXCEPT !.at = "loaded", !.save = m]
    <3>1. m \in Manifests
      BY <2>a, <2>b, MergeType
    <3>2. editor' = [editor EXCEPT ![p] = r]
          /\ UNCHANGED <<lockfile, disk, tmpfile, changes, deaths>>
      BY <2>5 DEF Reload
    <3> HIDE DEF m
    <3>3. r \in Records
      BY <2>b, <3>1 DEF Records, EditorPlaces, Holding
    <3> HIDE DEF r
    <3>4. editor' \in [Editors -> Records]
      BY <3>2, <3>3, EditorBecomes
    <3> QED BY <2>a, <2>d, <3>2, <3>4 DEF FilesTyped
  <2>6. ASSUME NEW p \in Editors, Mutate(p) PROVE ManTypeOK'
    <3>1. PICK m \in Changed(disk) :
            editor' = [editor EXCEPT ![p] = [at |-> "loaded", owner |-> FALSE, base |-> disk,
                                             ours |-> m, save |-> m]]
      BY <2>6 DEF Mutate
    <3>2. m \in Manifests /\ changes + 1 \in 0..MaxChanges
      BY <2>6, <2>a, <2>c, <3>1, ChangedType DEF Mutate
    <3>3. [at |-> "loaded", owner |-> FALSE, base |-> disk, ours |-> m, save |-> m] \in Records
      BY <2>a, <3>2 DEF Records, EditorPlaces, Holding
    <3>4. editor' \in [Editors -> Records]
      BY <3>1, <3>3, EditorBecomes
    <3>5. changes' = changes + 1 /\ UNCHANGED <<lockfile, disk, tmpfile, deaths>>
      BY <2>6 DEF Mutate
    <3> QED BY <2>a, <2>d, <3>2, <3>4, <3>5 DEF FilesTyped
  <2>7. ASSUME NEW p \in Editors, WriteTemp(p) \/ Rename(p) \/ SaveFails(p) PROVE ManTypeOK'
    <3>1. UNCHANGED <<lockfile, changes, deaths>>
      BY <2>7 DEF WriteTemp, Rename, SaveFails
    <3>2. \E at \in EditorPlaces : Goes(p, at)
      BY <2>7 DEF WriteTemp, Rename, SaveFails, EditorPlaces, Holding
    <3>3. disk' \in Manifests /\ tmpfile' \in Manifests \union {NoFile}
      BY <2>7, <2>a, <2>b DEF WriteTemp, Rename, SaveFails
    <3> QED BY <2>a, <2>d, <3>1, <3>2, <3>3, EditorMoves DEF FilesTyped
  <2>8. ASSUME NEW p \in Editors, ReadToken(p) PROVE ManTypeOK'
    <3>1. \/ editor' = [editor EXCEPT ![p] = [Out EXCEPT !.at = "removing"]]
          \/ editor' = [editor EXCEPT ![p] = Out]
      BY <2>8 DEF ReadToken
    <3>2. editor' \in [Editors -> Records]
      BY <3>1, EditorBecomes, RestTypes
    <3>3. UNCHANGED <<lockfile, disk, tmpfile, changes, deaths>>
      BY <2>8 DEF ReadToken
    <3> QED BY <2>a, <2>d, <3>2, <3>3 DEF FilesTyped
  <2>9. ASSUME NEW p \in Editors, RemoveLock(p) PROVE ManTypeOK'
    <3>1. /\ lockfile' = [there |-> FALSE, token |-> NoToken, old |-> FALSE]
          /\ editor' = [editor EXCEPT ![p] = Out] /\ UNCHANGED <<disk, tmpfile, changes, deaths>>
      BY <2>9 DEF RemoveLock
    <3> QED BY <2>a, <2>d, <3>1, LockTypes, EditorMoves DEF FilesTyped
  <2>10. ASSUME NEW p \in Editors, Dies(p) PROVE ManTypeOK'
    <3>1. /\ deaths < MaxDeaths /\ deaths' = deaths + 1
          /\ editor' = [editor EXCEPT ![p] = Out]
          /\ UNCHANGED <<lockfile, disk, tmpfile, changes>>
      BY <2>10 DEF Dies
    <3>2. deaths' \in 0..MaxDeaths
      BY <2>a, <2>c, <3>1
    <3> QED BY <2>a, <2>d, <3>1, <3>2, EditorMoves DEF FilesTyped
  <2>11. CASE Ages
    <3>1. lockfile' = [lockfile EXCEPT !.old = TRUE]
          /\ UNCHANGED <<editor, disk, tmpfile, changes, deaths>>
      BY <2>11 DEF Ages
    <3>2. lockfile' \in Locks0
      BY <2>a, <3>1
    <3> QED BY <2>a, <2>d, <3>1, <3>2 DEF FilesTyped
  <2>12. CASE UNCHANGED manVars
    BY <2>12 DEF manVars, ManTypeOK
  <2> QED BY <2>1, <2>2, <2>3, <2>4, <2>5, <2>6, <2>7, <2>8, <2>9, <2>10, <2>11, <2>12 DEF ManNext
<1> QED BY <1>1, <1>2, PTL DEF ManSpec

\* A process that reads a credential goes on with it.
LEMMA AgentReads ==
  ASSUME AuthTypeOK, NEW c \in Clients, NEW at \in AgentPlaces, NEW cred \in 0..MaxTokens,
         agent' = [agent EXCEPT ![c].at = at, ![c].cred = cred], via' = via
  PROVE  agent' \in [Clients -> Agents]
<1> DEFINE r == [agent[c] EXCEPT !.at = at, !.cred = cred]
<1>1. r \in Agents
  BY DEF AuthTypeOK, Agents, AgentPlaces
<1>2. agent' = [agent EXCEPT ![c] = r]
  BY DEF AuthTypeOK
<1> HIDE DEF r
<1> QED BY <1>1, <1>2 DEF AuthTypeOK, Agents

\* A credential, its lock and the processes that use it, whatever the races.
LEMMA AuthTyped == AuthSpec => []AuthTypeOK
<1>1. AuthInit => AuthTypeOK
  <2> SUFFICES ASSUME AuthInit PROVE AuthTypeOK
    OBVIOUS
  <2>1. issued \in 0..MaxTokens /\ infile \in 0..MaxTokens /\ inkeys \in 0..MaxTokens
    BY AuthAssumption DEF AuthInit
  <2>2. Rest \in Agents
    BY AuthAssumption DEF Rest, Agents
  <2>3. agent \in [Clients -> Agents]
    BY <2>2 DEF AuthInit
  <2>4. 0 \in 0..MaxAuthFaults /\ valid \subseteq 1..issued
    BY AuthAssumption DEF AuthInit
  <2>5. via \in [Clients -> Backends] /\ authlock = "none" /\ faulted = 0 /\ excused = FALSE
    BY DEF AuthInit
  <2> QED BY <2>1, <2>3, <2>4, <2>5 DEF AuthTypeOK, Agents
<1>2. AuthTypeOK /\ [AuthNext]_authVars => AuthTypeOK'
  <2> SUFFICES ASSUME AuthTypeOK, [AuthNext]_authVars PROVE AuthTypeOK'
    OBVIOUS
  <2>a. /\ issued \in 0..MaxTokens /\ infile \in 0..MaxTokens /\ inkeys \in 0..MaxTokens
        /\ valid \subseteq 1..issued /\ authlock \in {"none", "fresh", "stale"}
        /\ faulted \in 0..MaxAuthFaults /\ excused \in BOOLEAN /\ via \in [Clients -> Backends]
        /\ MaxTokens \in Nat /\ MaxAuthFaults \in Nat
    BY AuthAssumption DEF AuthTypeOK
  <2>b. agent \in [Clients -> Agents]
    BY DEF AuthTypeOK, Agents
  <2>c. ASSUME NEW c \in Clients
        PROVE  agent[c].cred \in 0..MaxTokens /\ Get(via[c]) \in 0..MaxTokens
    BY <2>a, <2>b DEF Agents, Get
  <2>d. ASSUME via' = via, agent' \in [Clients -> Agents], issued' \in 0..MaxTokens,
               infile' \in 0..MaxTokens, inkeys' \in 0..MaxTokens, valid' \subseteq 1..issued',
               authlock' \in {"none", "fresh", "stale"}, faulted' \in 0..MaxAuthFaults,
               excused' \in BOOLEAN
        PROVE  AuthTypeOK'
    BY <2>a, <2>d DEF AuthTypeOK, Agents
  <2>e. ASSUME NEW c \in Clients, via' = via,
               (\E at \in AgentPlaces : Moves(c, at)) \/ Rests(c)
        PROVE  agent' \in [Clients -> Agents]
    BY <2>e, AgentMoves, AgentRests DEF Moved
  <2>1. ASSUME NEW c \in Clients,
               \/ RemoveStale(c) \/ Locked(c) \/ LockRefused(c) \/ Acknowledge(c)
               \/ LogoutFile(c) \/ LogoutKeychain(c) \/ Refused(c) \/ StoresRotated(c)
               \/ MigrateLooks(c) \/ MigrateCopies(c)
        PROVE  AuthTypeOK'
    <3>1. UNCHANGED <<via, issued, valid, faulted>>
      BY <2>1 DEF RemoveStale, Locked, LockRefused, Acknowledge, LogoutFile, LogoutKeychain,
             Refused, StoresRotated, MigrateLooks, MigrateCopies
    <3>2. (\E at \in AgentPlaces : Moves(c, at)) \/ Rests(c)
      BY <2>1 DEF RemoveStale, Locked, LockRefused, Acknowledge, LogoutFile, LogoutKeychain,
             Refused, StoresRotated, MigrateLooks, MigrateCopies, AgentPlaces
    <3>3. authlock' \in {"none", "fresh", "stale"}
      BY <2>1, <2>a DEF RemoveStale, Locked, LockRefused, Acknowledge, LogoutFile, LogoutKeychain,
             Refused, StoresRotated, MigrateLooks, MigrateCopies, Unlocked, Release
    <3>4. infile' \in {infile, 0, agent[c].cred} /\ inkeys' \in {inkeys, 0, agent[c].cred}
      BY <2>1 DEF RemoveStale, Locked, LockRefused, Acknowledge, LogoutFile, LogoutKeychain,
             Refused, StoresRotated, MigrateLooks, MigrateCopies
    <3>5. excused' \in BOOLEAN
      BY <2>1, <2>a DEF RemoveStale, Locked, LockRefused, Acknowledge, LogoutFile, LogoutKeychain,
             Refused, StoresRotated, MigrateLooks, MigrateCopies
    <3> QED BY <2>a, <2>c, <2>d, <2>e, <3>1, <3>2, <3>3, <3>4, <3>5
  <2>2. ASSUME NEW c \in Clients, ReadFile(c) \/ MigrateReads(c) \/ RefreshReads(c)
        PROVE  AuthTypeOK'
    <3>1. UNCHANGED <<via, infile, inkeys, issued, valid, faulted, excused>>
      BY <2>2 DEF ReadFile, MigrateReads, RefreshReads
    <3>2. PICK at \in AgentPlaces, cred \in {infile, Get(via[c])} :
            agent' = [agent EXCEPT ![c].at = at, ![c].cred = cred]
      BY <2>2 DEF ReadFile, MigrateReads, RefreshReads, AgentPlaces
    <3>3. authlock' \in {authlock, "none"}
      BY <2>2 DEF ReadFile, MigrateReads, RefreshReads, Unlocked
    <3>4. agent' \in [Clients -> Agents]
      <4>1. cred \in 0..MaxTokens
        BY <2>a, <2>c, <3>2
      <4> QED BY <3>1, <3>2, <4>1, AgentReads
    <3> QED BY <2>a, <2>d, <3>1, <3>3, <3>4
  <2>3. ASSUME NEW c \in Clients, LoginFile(c) \/ LoginKeychain(c) \/ Rotated(c)
        PROVE  AuthTypeOK'
    <3>1. /\ issued < MaxTokens /\ issued' = issued + 1
          /\ valid' \subseteq valid \union {issued + 1}
          /\ infile' \in {infile, issued + 1} /\ inkeys' \in {inkeys, issued + 1}
          /\ UNCHANGED <<via, faulted, excused>>
      BY <2>3 DEF LoginFile, LoginKeychain, Rotated
    <3>2. authlock' \in {authlock, "none"}
      BY <2>3 DEF LoginFile, LoginKeychain, Rotated, Unlocked
    <3>3. issued + 1 \in 0..MaxTokens /\ valid' \subseteq 1..(issued + 1)
      BY <2>a, <3>1
    <3>4. agent' \in [Clients -> Agents]
      <4>1. CASE LoginFile(c) \/ LoginKeychain(c)
        BY <2>e, <3>1, <4>1 DEF LoginFile, LoginKeychain
      <4>2. CASE Rotated(c)
        BY <3>1, <3>3, <4>2, AgentReads DEF Rotated, AgentPlaces
      <4> QED BY <2>3, <4>1, <4>2
    <3> QED BY <2>a, <2>d, <3>1, <3>2, <3>3, <3>4
  <2>4. ASSUME NEW c \in Clients, NEW op \in Ops, StartOp(c, op)
        PROVE  AuthTypeOK'
    <3>1. UNCHANGED <<via, infile, inkeys, authlock, issued, valid, faulted, excused>>
      BY <2>4 DEF StartOp
    <3> DEFINE r == [op |-> op, at |-> IF Locks(c, op) THEN "lock" ELSE "read", cred |-> 0]
    <3>2. r \in Agents
      BY AuthAssumption DEF Agents
    <3>3. agent' = [agent EXCEPT ![c] = r]
      BY <2>4 DEF StartOp
    <3> HIDE DEF r
    <3>4. agent' \in [Clients -> Agents]
      BY <2>b, <3>2, <3>3
    <3> QED BY <2>a, <2>d, <3>1, <3>4
  <2>5. ASSUME NEW c \in Clients, AgentDies(c)
        PROVE  AuthTypeOK'
    <3>1. /\ UNCHANGED <<via, infile, inkeys, authlock, issued, valid>>
          /\ faulted < MaxAuthFaults /\ faulted' = faulted + 1 /\ Rests(c)
      BY <2>5 DEF AgentDies
    <3>2. excused' \in BOOLEAN
      BY <2>5, <2>a DEF AgentDies, In
    <3>3. faulted' \in 0..MaxAuthFaults
      BY <2>a, <3>1
    <3> QED BY <2>a, <2>d, <2>e, <3>1, <3>2, <3>3
  <2>6. CASE LockAges
    BY <2>6, <2>a, <2>b, <2>d DEF LockAges
  <2>7. CASE UNCHANGED authVars
    BY <2>7 DEF authVars, AuthTypeOK
  <2> QED BY <2>1, <2>2, <2>3, <2>4, <2>5, <2>6, <2>7 DEF AuthNext
<1> QED BY <1>1, <1>2, PTL DEF AuthSpec

\* What a restore point gives a phase was published, and a generation that is there has a state.
HydTypes ==
  /\ HydShape
  /\ states \in Seq([gen : Nat, sec : Nat]) /\ Len(states) \in 1..MaxPasses
  /\ \A i \in 1..Len(states) : states[i].gen \in 1..i /\ states[i].sec \in 1..i
  /\ \A g \in 1..Live.gen : Of(g) # {}
  /\ mapless \subseteq 1..MaxPasses /\ runs \in 0..MaxRuns
  /\ target \in [Phases -> 0..MaxPasses] /\ restore.pick.content \in [Phases -> 0..MaxPasses]

\* The states that were published, and the live one.
LEMMA StatesAre ==
  ASSUME HydTypes
  PROVE  /\ Len(states) \in 1..MaxPasses /\ DOMAIN states = 1..Len(states)
         /\ Live.gen \in 1..Len(states) /\ Live.sec \in 1..Len(states)
         /\ MaxPasses \in Nat
<1>1. Len(states) \in 1..MaxPasses /\ DOMAIN states = 1..Len(states) /\ MaxPasses \in Nat
  BY HydrateAssumption DEF HydTypes
<1>2. Len(states) \in 1..Len(states)
  BY <1>1
<1> QED BY <1>1, <1>2 DEF HydTypes, Live

\* What can be selected was published.
LEMMA SelectableIsPublished ==
  ASSUME HydTypes, NEW pick \in Selectable
  PROVE  pick.content \in [Phases -> 0..MaxPasses]
<1> DEFINE n == Len(states)
<1>1. /\ n \in 1..MaxPasses /\ DOMAIN states = 1..n /\ Live.gen \in 1..n /\ MaxPasses \in Nat
      /\ n \in Nat /\ Live.gen \in Nat /\ n \in 1..n
  BY StatesAre
<1> HIDE DEF n
<1>2. ASSUME NEW g, NEW from, NEW db \in 1..n, NEW docs \in 1..n, NEW src, NEW upd
      PROVE  Pick(g, from, db, docs, src, upd).content \in [Phases -> 0..MaxPasses]
  <2> DEFINE c == [db |-> db, markdown |-> docs, vectors |-> docs]
  <2>1. c \in [Phases -> 0..MaxPasses]
    BY <1>1, <1>2 DEF Phases
  <2>2. Pick(g, from, db, docs, src, upd) = [gen |-> g, from |-> from, src |-> src, upd |-> upd,
                                             content |-> c]
    BY DEF Pick
  <2> HIDE DEF c
  <2> QED BY <2>1, <2>2
<1>3. ASSUME NEW g \in 1..Live.gen
      PROVE  Of(g) \subseteq 1..n /\ Of(g) # {} /\ Seal(g) \in 1..n
  <2>1. Of(g) \subseteq 1..n /\ Of(g) # {}
    BY <1>1 DEF HydTypes, Of
  <2>2. Max(Of(g)) \in Of(g)
    BY <1>1, <2>1, MaxIsMember
  <2> QED BY <2>1, <2>2 DEF Seal
<1>4. ASSUME NEW g \in 1..Live.gen, NEW from, NEW db \in 1..n, NEW upd
      PROVE  PickSealed(g, from, db, upd).content \in [Phases -> 0..MaxPasses]
  <2>1. PICK docs, src : /\ docs \in 1..n
                        /\ PickSealed(g, from, db, upd) = Pick(g, from, db, docs, src, upd)
    BY <1>1, <1>3 DEF PickSealed, n
  <2> QED BY <1>2, <2>1
<1>5. CASE pick = PickLive
  BY <1>1, <1>2, <1>5 DEF PickLive, n
<1>6. CASE \E g \in {h \in 1..(Live.gen - 1) : Kept(h)} : pick = PickSealed(g, 0, Seal(g), 0)
  <2>1. PICK g \in 1..Live.gen : pick = PickSealed(g, 0, Seal(g), 0)
    BY <1>1, <1>6
  <2> QED BY <1>3, <1>4, <2>1
<1>7. CASE \E t \in 1..Live.sec : pick \in PickAt(t)
  <2>1. PICK t \in 1..Live.sec : pick \in PickAt(t)
    BY <1>7
  <2> DEFINE begun == {g \in 1..Live.gen : Kept(g) /\ states[Min(Of(g))].sec <= t}
             g == Max(begun)
             by == {i \in Of(g) : states[i].sec <= t}
             db == Max(by)
  <2>2. begun # {}
    BY <2>1 DEF PickAt
  <2>3. g \in begun
    <3>1. begun \subseteq 1..Live.gen
      OBVIOUS
    <3> HIDE DEF begun
    <3> QED BY <1>1, <2>2, <3>1, MaxIsMember
  <2>4. pick = IF g = Live.gen THEN Pick(g, t, db, n, "live", Live.sec)
               ELSE PickSealed(g, t, db, states[Seal(g)].sec)
    BY <2>1, <2>2 DEF PickAt, n
  <2>5. g \in 1..Live.gen /\ states[Min(Of(g))].sec <= t
    BY <2>3
  <2> HIDE DEF g
  <2>6. Min(Of(g)) \in Of(g)
    <3>1. Of(g) # {} /\ Of(g) \subseteq Nat
      BY <1>1, <1>3, <2>5
    <3> QED BY <3>1, LeastNat DEF Min
  <2>7. db \in 1..n
    <3>1. by \subseteq 1..n /\ by # {}
      BY <1>3, <2>5, <2>6
    <3> HIDE DEF by
    <3>2. db \in by
      BY <1>1, <3>1, MaxIsMember
    <3> QED BY <3>1, <3>2
  <2> HIDE DEF db
  <2>8. CASE g = Live.gen
    BY <1>1, <1>2, <2>4, <2>7, <2>8
  <2>9. CASE g # Live.gen
    BY <1>4, <2>4, <2>5, <2>7, <2>9
  <2> QED BY <2>8, <2>9
<1> QED BY <1>5, <1>6, <1>7 DEF Selectable

\* Publishing keeps every state where it was.
LEMMA PublishTyped ==
  ASSUME HydTypes, NEW gen \in {Live.gen, Live.gen + 1}, Publish(gen)
  PROVE  /\ states' \in Seq([gen : Nat, sec : Nat]) /\ Len(states') \in 1..MaxPasses
         /\ \A i \in 1..Len(states') : states'[i].gen \in 1..i /\ states'[i].sec \in 1..i
         /\ (\A g \in 1..Live.gen : Of(g) # {})'
<1> DEFINE n == Len(states)
<1>1. /\ n \in 1..MaxPasses /\ DOMAIN states = 1..n /\ Live.gen \in 1..n /\ Live.sec \in 1..n
      /\ MaxPasses \in Nat
  BY StatesAre
<1>2. PICK sec \in {Live.sec, Live.sec + 1} : states' = Append(states, [gen |-> gen, sec |-> sec])
  BY DEF Publish
<1>3. n < MaxPasses
  BY DEF Publish
<1> DEFINE s == [gen |-> gen, sec |-> sec]
<1>4. s \in [gen : Nat, sec : Nat] /\ s.gen = gen /\ s.gen \in 1..(n + 1) /\ s.sec \in 1..(n + 1)
  BY <1>1, <1>2
<1>5. states \in Seq([gen : Nat, sec : Nat]) /\ states' = Append(states, s)
  BY <1>2 DEF HydTypes
<1> HIDE DEF s
<1>6. /\ states' \in Seq([gen : Nat, sec : Nat]) /\ Len(states') = n + 1
      /\ states'[n + 1] = s /\ \A i \in 1..n : states'[i] = states[i]
  BY <1>1, <1>4, <1>5
<1>7. \A i \in 1..(n + 1) : i \in 1..n \/ i = n + 1
  BY <1>1
<1>8. \A i \in 1..(n + 1) : states'[i].gen \in 1..i /\ states'[i].sec \in 1..i
  BY <1>4, <1>6, <1>7 DEF HydTypes
<1>9. Live'.gen = gen /\ DOMAIN states' = 1..(n + 1)
  BY <1>1, <1>4, <1>6 DEF Live
<1>10. ASSUME NEW g \in 1..gen
       PROVE  Of(g)' # {}
  <2>1. CASE g = gen
    <3>1. n + 1 \in Of(g)'
      BY <1>1, <1>4, <1>6, <1>9, <2>1 DEF Of
    <3> QED BY <3>1
  <2>2. CASE g # gen
    <3>1. g \in 1..Live.gen
      BY <1>1, <2>2
    <3>2. PICK i \in 1..n : states[i].gen = g
      BY <1>1, <3>1 DEF HydTypes, Of
    <3>3. i \in 1..(n + 1) /\ states'[i].gen = g
      BY <1>1, <1>6, <3>2
    <3>4. i \in Of(g)'
      BY <1>9, <3>3 DEF Of
    <3> QED BY <3>4
  <2> QED BY <2>1, <2>2
<1> QED BY <1>1, <1>3, <1>6, <1>8, <1>9, <1>10

\* The directory that is restored into, the progress file and the run.
LEMMA HydTyped == HydSpec => []HydTypeOK
<1>1. HydInit => HydTypes
  <2> SUFFICES ASSUME HydInit PROVE HydTypes
    OBVIOUS
  <2> DEFINE s == [gen |-> 1, sec |-> 1]
  <2>1. states = <<s>> /\ s \in [gen : Nat, sec : Nat] /\ s.sec = 1 /\ s.gen = 1
    BY DEF HydInit
  <2> HIDE DEF s
  <2>2. /\ states \in Seq([gen : Nat, sec : Nat]) /\ Len(states) = 1 /\ states[1] = s
        /\ DOMAIN states = {1}
    BY <2>1
  <2>3. \A i \in 1..1 : i = 1
    OBVIOUS
  <2>4. Live.gen = 1 /\ 1 \in Of(1)
    BY <2>1, <2>2 DEF Live, Of
  <2>5. restore.pick.content = [f \in Phases |-> 0] /\ target = [f \in Phases |-> 0]
    BY DEF HydInit, NoRun, NoPick
  <2>6. mapless = {} /\ runs = 0 /\ HydShape
    BY HydInitial DEF HydInit, HydInv
  <2> QED BY <2>1, <2>2, <2>3, <2>4, <2>5, <2>6, HydrateAssumption DEF HydTypes
<1>2. HydTypes /\ [HydNext]_hydVars => HydTypes'
  <2> SUFFICES ASSUME HydTypes, [HydNext]_hydVars PROVE HydTypes'
    OBVIOUS
  <2>a. /\ HydShape /\ mapless \subseteq 1..MaxPasses /\ runs \in 0..MaxRuns /\ MaxRuns \in Nat
        /\ target \in [Phases -> 0..MaxPasses]
        /\ restore.pick.content \in [Phases -> 0..MaxPasses]
    BY HydrateAssumption DEF HydTypes
  <2>b. ASSUME UNCHANGED <<states, mapless>>, HydShape', runs' \in 0..MaxRuns,
               target' \in [Phases -> 0..MaxPasses],
               restore'.pick.content \in [Phases -> 0..MaxPasses]
        PROVE  HydTypes'
    <3>1. Live' = Live /\ \A g : Of(g)' = Of(g)
      BY <2>b DEF Live, Of
    <3> QED BY <2>b, <3>1 DEF HydTypes
  <2>c. 0 \in 0..MaxPasses
    BY HydrateAssumption
  <2>1. CASE ShipPass \/ SealGeneration
    <3>1. PICK gen \in {Live.gen, Live.gen + 1} : Publish(gen)
      BY <2>1 DEF ShipPass, SealGeneration
    <3>2. UNCHANGED <<target, progress, restore, runs>>
      BY <2>1 DEF ShipPass, SealGeneration
    <3>3. mapless' \subseteq 1..MaxPasses
      <4>1. mapless' \subseteq mapless \union {Live.gen}
        BY <2>1 DEF ShipPass, SealGeneration
      <4> QED BY <2>a, <4>1, StatesAre
    <3>4. HydShape'
      BY <2>a, <3>2 DEF HydShape
    <3> QED BY <2>a, <3>1, <3>2, <3>3, <3>4, PublishTyped DEF HydTypes
  <2>2. CASE StartHydrate
    <3>1. PICK pick \in Selectable, partial \in BOOLEAN :
            restore' = [at |-> "db", partial |-> partial, pick |-> pick,
                        done |-> IF partial THEN progress.done ELSE {}]
      BY <2>2 DEF StartHydrate
    <3>2. UNCHANGED <<states, mapless, target, progress>> /\ runs' = runs + 1 /\ runs < MaxRuns
      BY <2>2 DEF StartHydrate
    <3>3. restore'.pick = pick /\ pick.content \in [Phases -> 0..MaxPasses]
      BY <3>1, SelectableIsPublished
    <3>4. HydShape'
      BY <2>a, <3>1, <3>2 DEF HydShape, Phases
    <3> QED BY <2>a, <2>b, <3>2, <3>3, <3>4
  <2>3. CASE RunPhase \/ LeaveVectors
    <3>1. /\ UNCHANGED <<states, mapless, progress, runs>>
          /\ restore' = [restore EXCEPT !.done = @ \union {restore.at}]
          /\ \/ target' = [target EXCEPT ![restore.at] = restore.pick.content[restore.at]]
             \/ target' = target
          /\ restore.at \in Phases
      BY <2>3 DEF RunPhase, LeaveVectors, Phases
    <3>2. /\ restore'.at = restore.at /\ restore'.partial = restore.partial
          /\ restore'.pick = restore.pick /\ restore'.done = restore.done \union {restore.at}
          /\ restore' = [at |-> restore'.at, partial |-> restore'.partial, pick |-> restore'.pick,
                         done |-> restore'.done]
      BY <2>a, <3>1 DEF HydShape
    <3>3. target' \in [Phases -> 0..MaxPasses]
      BY <2>a, <3>1
    <3>4. HydShape'
      BY <2>a, <3>1, <3>2, <3>3 DEF HydShape
    <3> QED BY <2>a, <2>b, <3>1, <3>2, <3>3, <3>4
  <2>4. CASE CompletePhase
    <3>1. /\ UNCHANGED <<states, mapless, target, runs>>
          /\ restore.at \in restore.done
          /\ progress' \in {progress, [pick |-> restore.pick, done |-> restore.done]}
          /\ restore' = [restore EXCEPT !.at = Following(restore.at)]
      BY <2>4 DEF CompletePhase
    <3>2. /\ restore'.at = Following(restore.at) /\ restore'.partial = restore.partial
          /\ restore'.pick = restore.pick /\ restore'.done = restore.done
          /\ restore' = [at |-> restore'.at, partial |-> restore'.partial, pick |-> restore'.pick,
                         done |-> restore'.done]
      BY <2>a, <3>1 DEF HydShape
    <3>3. Following(restore.at) \in Phases \union {"valid"}
      BY <2>a, <3>1 DEF HydShape, Phases, Following
    <3>4. progress' = [pick |-> progress'.pick, done |-> progress'.done]
          /\ progress'.done \subseteq Phases
      BY <2>a, <3>1 DEF HydShape
    <3>5. HydShape'
      BY <2>a, <3>1, <3>2, <3>3, <3>4 DEF HydShape
    <3> QED BY <2>a, <2>b, <3>1, <3>2, <3>5
  <2>5. CASE Interrupted \/ Finish
    <3>1. /\ UNCHANGED <<states, mapless, runs>> /\ restore' = NoRun
          /\ progress' \in {progress, NoProgress}
          /\ target' \in [Phases -> 0..MaxPasses]
      BY <2>5, <2>a, <2>c DEF Interrupted, Finish
    <3>2. restore'.pick.content = [f \in Phases |-> 0]
      BY <3>1 DEF NoRun, NoPick
    <3>3. /\ restore'.at = "idle" /\ restore'.partial = FALSE /\ restore'.done = {}
          /\ restore' = [at |-> restore'.at, partial |-> restore'.partial, pick |-> restore'.pick,
                         done |-> restore'.done]
      BY <3>1 DEF NoRun
    <3>4. progress' = [pick |-> progress'.pick, done |-> progress'.done]
          /\ progress'.done \subseteq Phases
      BY <2>a, <3>1 DEF HydShape, NoProgress
    <3>5. HydShape'
      BY <2>a, <3>1, <3>3, <3>4 DEF HydShape
    <3> QED BY <2>a, <2>b, <2>c, <3>1, <3>2, <3>5
  <2>6. CASE UNCHANGED hydVars
    <3>1. UNCHANGED <<states, mapless, target, progress, restore, runs>>
      BY <2>6 DEF hydVars
    <3>2. HydShape'
      BY <2>a, <3>1 DEF HydShape
    <3> QED BY <2>a, <2>b, <3>1, <3>2
  <2> QED BY <2>1, <2>2, <2>3, <2>4, <2>5, <2>6 DEF HydNext
<1>3. HydTypes => HydTypeOK
  <2> SUFFICES ASSUME HydTypes PROVE HydTypeOK
    OBVIOUS
  <2> DEFINE R == [gen : Nat, sec : Nat]
             S == [gen : 1..MaxPasses, sec : 1..MaxPasses]
             n == Len(states)
  <2>1. n \in 1..MaxPasses /\ MaxPasses \in Nat /\ DOMAIN states = 1..n
    BY StatesAre
  <2>2. ASSUME NEW i \in 1..n
        PROVE  states[i] \in S
    <3>1. states \in Seq(R)
      BY DEF HydTypes
    <3> HIDE DEF R
    <3>2. states[i] \in R
      BY <3>1, <2>2
    <3>3. states[i].gen \in 1..MaxPasses /\ states[i].sec \in 1..MaxPasses
      BY <2>1 DEF HydTypes
    <3> QED BY <3>2, <3>3 DEF R
  <2>3. states \in Seq(S)
    <3>1. states \in Seq(R) /\ n \in Nat
      BY <2>1 DEF HydTypes
    <3> HIDE DEF R, S
    <3>2. states = [i \in 1..n |-> states[i]]
      BY <3>1
    <3> QED BY <2>2, <3>1, <3>2
  <2> QED BY <2>1, <2>3 DEF HydTypes, HydTypeOK, HydShape
<1> QED BY <1>1, <1>2, <1>3, PTL DEF HydSpec

\* A pack in a project, whatever the races.
LEMMA PackTyped == PackSpec => []PackTypeOK
<1>1. PackType => PackTypeOK
  <2> SUFFICES ASSUME PackType PROVE PackTypeOK
    OBVIOUS
  <2>1. entry.files \in FileMaps /\ entry.snaps \in SnapMaps
        /\ entry.version \in {0} \union Versions
    BY DEF PackType, PackEntries
  <2>2. command.covers \in SUBSET PackPaths
    BY DEF PackType, Commands
  <2>3. Owned \subseteq PackPaths /\ Snapped \subseteq PackPaths
        /\ \A p \in Owned : entry.files[p] \in Contents
    BY <2>1, SnapMapFacts, FileMapFacts DEF Owned, Snapped
  <2> QED BY <2>1, <2>2, <2>3 DEF PackType, PackTypeOK
<1> QED BY <1>1, PackTypeInit, PackTypeNext, PTL DEF PackSpec

\* Whichever store is used, each of them behaves as its own specification says, or rests.
LEMMA EachStoreRuns ==
  StoresSpec => ManSpec /\ AuthSpec /\ HydSpec /\ PackSpec /\ BatchSpec /\ AliasSpec
<1>1. StoresInit => ManInit /\ AuthInit /\ HydInit /\ PackInit /\ BatchInit /\ AliasInit
  BY DEF StoresInit
<1>2. [StoresNext]_storeVars => /\ [ManNext]_manVars /\ [AuthNext]_authVars /\ [HydNext]_hydVars
                                /\ [PackNext]_packVars /\ [BatchNext]_batchVars
                                /\ [AliasNext]_aliasVars
  BY Zenon DEF StoresNext, storeVars, ManifestRuns, AuthRuns, HydrateRuns, PackRuns, BatchRuns,
     AliasRuns
<1> QED BY <1>1, <1>2, PTL DEF StoresSpec, ManSpec, AuthSpec, HydSpec, PackSpec, BatchSpec,
           AliasSpec

\* Each store's variables stay in their ranges, whichever store is used and whatever races
\* may happen in it: a manifest read, merged or torn is one that a save may write; the
\* tokens that are stored and honoured were issued; a restore point, however it was chosen,
\* gives every phase something that was published.
THEOREM StoresTypeCorrect == StoresSpec => []StoresTypeOK
BY EachStoreRuns, ManifestTyped, AuthTyped, HydTyped, PackTyped, TypeCorrect, AliasTypeCorrect,
   PTL
   DEF StoresTypeOK
=============================================================================
