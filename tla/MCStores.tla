-------------------------------- MODULE MCStores -------------------------------
(* Six stores that share no state: the manifest file, the credentials of a     *)
(* provider, the directory that hydrate restores into, a pack in a project,    *)
(* the checkpoints of batches, and the links between entities.  Each is        *)
(* explored alone, the others resting in their initial states.                 *)
EXTENDS ManifestFile, AuthStore, MirrorHydrate, PackState, BatchCompile,
        EntityAliases

VARIABLE machine   \* the store that is used

storeVars == <<manVars, authVars, hydVars, packVars, batchVars, aliasVars,
               machine>>

StoresInit ==
  /\ machine \in {"manifest", "auth", "hydrate", "pack", "batch", "aliases"}
  /\ ManInit /\ HydInit /\ PackInit /\ AliasInit
  /\ BatchInit /\ (machine # "batch" => batchFile = NoBatch /\ legacyFile = NoBatch)
  /\ AuthInit /\ (machine # "auth" => via \in [Clients -> {"file"}] /\ infile = 0)

ManifestRuns == machine = "manifest" /\ ManNext
                /\ UNCHANGED <<authVars, hydVars, packVars, batchVars, aliasVars, machine>>
AuthRuns     == machine = "auth" /\ AuthNext
                /\ UNCHANGED <<manVars, hydVars, packVars, batchVars, aliasVars, machine>>
HydrateRuns  == machine = "hydrate" /\ HydNext
                /\ UNCHANGED <<manVars, authVars, packVars, batchVars, aliasVars, machine>>
PackRuns     == machine = "pack" /\ PackNext
                /\ UNCHANGED <<manVars, authVars, hydVars, batchVars, aliasVars, machine>>
BatchRuns    == machine = "batch" /\ BatchNext
                /\ UNCHANGED <<manVars, authVars, hydVars, packVars, aliasVars, machine>>
AliasRuns    == machine = "aliases" /\ AliasNext
                /\ UNCHANGED <<manVars, authVars, hydVars, packVars, batchVars, machine>>

StoresNext == \/ ManifestRuns \/ AuthRuns \/ HydrateRuns
              \/ PackRuns \/ BatchRuns \/ AliasRuns

StoresSpec == StoresInit /\ [][StoresNext]_storeVars

\* One edge, from the last entity to a document.
MCEdges == {<<3, 4>>}

\* Version 2 of the pack drops the copied file.
MCShipped == <<{Config} \union Copied, {Config}>>

\* Each store's variables stay in their ranges.
StoresTypeOK == /\ ManTypeOK /\ AuthTypeOK /\ HydTypeOK /\ PackTypeOK
                /\ BatchTypeOK /\ AliasTypeOK
=============================================================================
