------------------------------ MODULE BatchCompile -----------------------------
(* `sage-wiki compile` of tier-3 sources, with and without --batch, --fresh    *)
(* and --dry-run, and the server's on-demand compile (internal/compiler:       *)
(* pipeline.go, batch_state.go, migrate_checkpoint.go, fullpipeline.go,        *)
(* summarize.go, ondemand.go).  One compile runs at a time.  A batch is paid   *)
(* for when the provider takes it, and a later compile fetches its results:    *)
(* in between, its ID is all there is, in .sage/batch-state.json or, written   *)
(* by an older version, in .sage/compile-state.json.                           *)
EXTENDS Integers

CONSTANTS
  Docs,
  MaxVersion,  \* bound: versions of a source
  MaxBatches,  \* bound: batches, the legacy one included
  MaxStops,    \* bound: crashes
  BatchRaces,  \* "revert": a source may take back a content it had before;
               \* "orphan": a batch's ID is lost before its checkpoint is saved;
               \* "kept": --fresh cannot remove a checkpoint, and compiles all the same;
               \* "ondemand": a topic is compiled on demand while a batch is away
  NoBatch,     \* no file
  DeadBatch,   \* batch-state.json without a batch
  Stripped     \* compile-state.json without a batch

BatchIds == 1..MaxBatches
Texts == 1..MaxVersion

ASSUME BatchAssumption ==
  /\ MaxVersion \in Nat \ {0} /\ MaxBatches \in Nat \ {0} /\ MaxStops \in Nat
  /\ BatchRaces \subseteq {"revert", "orphan", "kept", "ondemand"}
  /\ {NoBatch, DeadBatch, Stripped} \cap BatchIds = {}

VARIABLES
  content,     \* the sources: each one's version, which is its hash
  compiled,    \* .manifest.json: the hash each source is compiled at; 0 is the empty
               \* hash, -1 a source that is not in the manifest
  summary,     \* the summary files: the version summarized, and source_hash (0: none)
  batchFile,   \* .sage/batch-state.json
  legacyFile,  \* .sage/compile-state.json
  batch,       \* each batch: the version of each source it was given (0: none), and its
               \* fate: "owed" until its results are in, "settled", "abandoned" by --fresh
  run,         \* the compile that runs: where it stands, its options, the batch it
               \* resumes, the hashes of its diff, the sources left to do, its own changes
               \* to the manifest
  stops

batchVars == <<content, compiled, summary, batchFile, legacyFile, batch, run, stops>>

Same      == [d \in Docs |-> -1]      \* no change to the manifest, no source taken
NotGiven  == [inputs |-> [d \in Docs |-> 0], fate |-> "none"]
Resting   == [pc |-> "idle", fresh |-> FALSE, batched |-> FALSE, dry |-> FALSE, id |-> NoBatch,
              seen |-> Same, todo |-> {}, ours |-> Same]
Given     == {i \in BatchIds : batch[i].fate # "none"}
Recorded  == {batchFile, legacyFile} \cap BatchIds

\* An older version may have left a batch in flight, or a checkpoint without one.
BatchInit ==
  /\ content = [d \in Docs |-> 1] /\ compiled = Same
  /\ summary = [d \in Docs |-> [of |-> 0, stamp |-> 0]]
  /\ batchFile \in {NoBatch, DeadBatch} /\ legacyFile \in {NoBatch, Stripped, 1}
  /\ batch = [i \in BatchIds |->
                IF i = legacyFile THEN [inputs |-> content, fate |-> "owed"] ELSE NotGiven]
  /\ run = Resting /\ stops = 0

At(pc)   == run.pc = pc
Turns(pc) == run' = [run EXCEPT !.pc = pc]
Ends     == run' = Resting

-----------------------------------------------------------------------------
(* The user and the provider.                                                *)

EditSource(d) ==
  /\ \E v \in Texts :
       /\ v # content[d] /\ (v > content[d] \/ "revert" \in BatchRaces)
       /\ content' = [content EXCEPT ![d] = v]
  /\ UNCHANGED <<compiled, summary, batchFile, legacyFile, batch, run, stops>>

StartCompile(fresh, batched, dry) ==
  /\ At("idle")
  /\ run' = [Resting EXCEPT !.pc = IF ~fresh THEN "load" ELSE IF dry THEN "diff" ELSE "clear",
                            !.fresh = fresh, !.batched = batched, !.dry = dry]
  /\ UNCHANGED <<content, compiled, summary, batchFile, legacyFile, batch, stops>>

\* The process dies: what it did to the manifest in memory is gone.
StopCompile ==
  /\ ~At("idle") /\ stops < MaxStops
  /\ At("record") => "orphan" \in BatchRaces
  /\ stops' = stops + 1 /\ Ends
  /\ UNCHANGED <<content, compiled, summary, batchFile, legacyFile, batch>>

-----------------------------------------------------------------------------
(* The checkpoints: --fresh clears both; otherwise a batch is looked for, and  *)
(* a legacy one moved to batch-state.json.  A removal that fails is logged.    *)

Undeleted(file) == IF "kept" \in BatchRaces THEN {file} ELSE {}

ClearBatchFile ==
  /\ At("clear") /\ Turns("clearLegacy")
  /\ batchFile' \in {NoBatch} \union Undeleted(batchFile)
  /\ batch' = [i \in BatchIds |-> IF i \in Recorded THEN [batch[i] EXCEPT !.fate = "abandoned"]
                                                    ELSE batch[i]]
  /\ UNCHANGED <<content, compiled, summary, legacyFile, stops>>

ClearLegacyFile ==
  /\ At("clearLegacy") /\ Turns("diff")
  /\ legacyFile' \in {NoBatch} \union Undeleted(legacyFile)
  /\ UNCHANGED <<content, compiled, summary, batchFile, batch, stops>>

Resumes(id) == run' = IF run.dry THEN Resting ELSE [run EXCEPT !.pc = "poll", !.id = id]

LoadBatch ==
  /\ At("load")
  /\ \/ /\ batchFile \in BatchIds /\ Resumes(batchFile) /\ UNCHANGED batchFile
     \/ /\ batchFile \notin BatchIds /\ legacyFile \in BatchIds
        /\ Turns("split") /\ UNCHANGED batchFile
     \/ /\ batchFile \notin BatchIds /\ legacyFile \notin BatchIds
        /\ Turns("diff")
        /\ batchFile' \in IF run.dry THEN {batchFile} ELSE {NoBatch, batchFile}
  /\ UNCHANGED <<content, compiled, summary, legacyFile, batch, stops>>

\* First the copy, then the strip; if either fails, the compile does.
SplitLegacy ==
  /\ At("split")
  /\ \/ batchFile' = legacyFile /\ Turns("strip")
     \/ Ends /\ UNCHANGED batchFile
  /\ UNCHANGED <<content, compiled, summary, legacyFile, batch, stops>>

StripSplit ==
  /\ At("strip")
  /\ \/ legacyFile' = Stripped /\ Resumes(batchFile)
     \/ Ends /\ UNCHANGED legacyFile
  /\ UNCHANGED <<content, compiled, summary, batchFile, batch, stops>>

-----------------------------------------------------------------------------
(* resumeBatch.                                                              *)

\* Still running, another provider, no answer, or a result missing: nothing is touched.
KeepWaiting ==
  /\ At("poll") /\ Ends
  /\ UNCHANGED <<content, compiled, summary, batchFile, legacyFile, batch, stops>>

BatchExpired ==
  /\ At("poll") /\ Turns("retire")
  /\ UNCHANGED <<content, compiled, summary, batchFile, legacyFile, batch, stops>>

BatchEnded ==
  /\ At("poll")
  /\ run' = [run EXCEPT !.pc = "apply", !.seen = batch[run.id].inputs,
                        !.todo = {d \in Docs : batch[run.id].inputs[d] > 0}]
  /\ UNCHANGED <<content, compiled, summary, batchFile, legacyFile, batch, stops>>

ApplyHashesNow(d) ==                        \* the entry gets the hash the file has now
  /\ At("apply") /\ d \in run.todo
  /\ summary' = [summary EXCEPT ![d] = [of |-> batch[run.id].inputs[d], stamp |-> 0]]
  /\ run' = [run EXCEPT !.todo = @ \ {d}, !.ours[d] = content[d]]
  /\ UNCHANGED <<content, compiled, batchFile, legacyFile, batch, stops>>

\* The entry of a new source gets no hash, an old one keeps its own: Diff sees neither
\* as compiled.  The summary has no source_hash, and is not reused.  One result may be
\* an error.
ApplyResult(d) ==
  /\ At("apply") /\ d \in run.todo
  /\ \/ /\ summary' = [summary EXCEPT ![d] = [of |-> batch[run.id].inputs[d], stamp |-> 0]]
        /\ run' = [run EXCEPT !.todo = @ \ {d},
                              !.ours[d] = IF compiled[d] = -1 THEN 0 ELSE compiled[d]]
     \/ run' = [run EXCEPT !.todo = @ \ {d}] /\ UNCHANGED summary
  /\ UNCHANGED <<content, compiled, batchFile, legacyFile, batch, stops>>

AllApplied ==
  /\ At("apply") /\ run.todo = {} /\ Turns("retire")
  /\ UNCHANGED <<content, compiled, summary, batchFile, legacyFile, batch, stops>>

\* Where a batch that is over leaves the run: one that brought results goes on.
AfterRetire(r) == IF r.seen = Same THEN Resting ELSE [r EXCEPT !.pc = "extract"]

StripOmitted ==                             \* the file is removed, the legacy batch stays
  /\ At("retire") /\ Turns("remove")
  /\ UNCHANGED <<content, compiled, summary, batchFile, legacyFile, batch, stops>>

StripRetired ==
  /\ At("retire")
  /\ \/ /\ legacyFile' = IF legacyFile \in BatchIds THEN Stripped ELSE legacyFile
        /\ Turns("remove")
     \/ /\ legacyFile # NoBatch                       \* the load or the write fails
        /\ run' = AfterRetire(run) /\ UNCHANGED legacyFile
  /\ UNCHANGED <<content, compiled, summary, batchFile, batch, stops>>

RemoveRetired ==
  /\ At("remove") /\ run' = AfterRetire(run)
  /\ \/ /\ batchFile' = NoBatch
        /\ batch' = [batch EXCEPT ![run.id].fate = "settled"]
     \/ UNCHANGED <<batchFile, batch>>
  /\ UNCHANGED <<content, compiled, summary, legacyFile, stops>>

-----------------------------------------------------------------------------
(* Pass 0, and the batch that is submitted.                                  *)

DiffSources ==
  /\ At("diff")
  /\ LET changed == {d \in Docs : compiled[d] # content[d]} IN
     run' = IF changed = {} \/ run.dry THEN Resting
            ELSE [run EXCEPT !.pc = IF run.batched THEN "submit"
                                    ELSE IF run.fresh THEN "summarize" ELSE "migrate",
                             !.seen = content, !.todo = changed]
  /\ UNCHANGED <<content, compiled, summary, batchFile, legacyFile, batch, stops>>

\* Images and long sources are left out.  The sources are read here, after the diff.
SubmitBatch ==
  /\ At("submit")
  /\ \/ \E i \in BatchIds \ Given, ds \in SUBSET run.todo :
          /\ ds # {} /\ \A j \in BatchIds \ Given : i <= j
          /\ batch' = [batch EXCEPT ![i] =
                         [inputs |-> [d \in Docs |-> IF d \in ds THEN content[d] ELSE 0],
                          fate |-> "owed"]]
          /\ \/ run' = [run EXCEPT !.pc = "record", !.id = i]
             \/ "orphan" \in BatchRaces /\ Ends       \* the answer is lost
     \/ Ends /\ UNCHANGED batch                       \* none left, or refused
  /\ UNCHANGED <<content, compiled, summary, batchFile, legacyFile, stops>>

RecordBatch ==
  /\ At("record") /\ Ends
  /\ \/ batchFile' = run.id
     \/ "orphan" \in BatchRaces /\ UNCHANGED batchFile
  /\ UNCHANGED <<content, compiled, summary, legacyFile, batch, stops>>

-----------------------------------------------------------------------------
(* A standard compile.                                                       *)

\* MigrateCheckpoint: a batch that is still there is stripped, and the file deleted
\* unless an insert, or the delete itself, fails.
MigrateLegacy ==
  /\ At("migrate") /\ Turns("summarize")
  /\ legacyFile' \in {legacyFile, NoBatch}
                     \union (IF legacyFile \in BatchIds THEN {Stripped} ELSE {})
  /\ UNCHANGED <<content, compiled, summary, batchFile, batch, stops>>

\* A summary that bears the diff's hash may be reused (not with --force, nor when the
\* prompts or the configuration changed).  Otherwise the source is read as it is now, and
\* its summary bears the diff's hash all the same.
SummarizeSource(d) ==
  /\ At("summarize") /\ d \in run.todo
  /\ \/ /\ run' = [run EXCEPT !.todo = @ \ {d}, !.ours[d] = run.seen[d]]
        /\ \/ summary[d].stamp = run.seen[d] /\ UNCHANGED summary
           \/ summary' = [summary EXCEPT ![d] = [of |-> content[d], stamp |-> run.seen[d]]]
     \/ run' = [run EXCEPT !.todo = @ \ {d}] /\ UNCHANGED summary          \* it fails
  /\ UNCHANGED <<content, compiled, batchFile, legacyFile, batch, stops>>

\* The server compiles a source of a topic on demand, unless its row of compile_items says
\* that it is written at tier 3.  The hash is the row's: one that some earlier scan gave
\* the source.  Unlike the worker and the watcher it does not ask whether a batch is away.
CompileTopic(d) ==
  /\ At("idle")
  /\ Recorded = {} \/ "ondemand" \in BatchRaces
  /\ \E h \in Texts :
       /\ h <= content[d] \/ "revert" \in BatchRaces
       /\ run' = [Resting EXCEPT !.pc = "summarize", !.seen = [content EXCEPT ![d] = h],
                                 !.todo = {d}]
  /\ UNCHANGED <<content, compiled, summary, batchFile, legacyFile, batch, stops>>

AllSummarized ==
  /\ At("summarize") /\ run.todo = {} /\ Turns("extract")
  /\ UNCHANGED <<content, compiled, summary, batchFile, legacyFile, batch, stops>>

\* Passes 2 and 3, for both kinds: if they do not complete, nothing is saved.
ExtractAndWrite ==
  /\ At("extract")
  /\ Turns("save") \/ Ends
  /\ UNCHANGED <<content, compiled, summary, batchFile, legacyFile, batch, stops>>

SaveCompiled ==
  /\ At("save") /\ Ends
  /\ \/ compiled' = [d \in Docs |-> IF run.ours[d] = -1 THEN compiled[d] ELSE run.ours[d]]
     \/ UNCHANGED compiled
  /\ UNCHANGED <<content, summary, batchFile, legacyFile, batch, stops>>

-----------------------------------------------------------------------------
BatchNext ==
  \/ \E d \in Docs : EditSource(d) \/ ApplyResult(d) \/ SummarizeSource(d) \/ CompileTopic(d)
  \/ \E fresh, batched, dry \in BOOLEAN : StartCompile(fresh, batched, dry)
  \/ StopCompile
  \/ ClearBatchFile \/ ClearLegacyFile \/ LoadBatch \/ SplitLegacy \/ StripSplit
  \/ KeepWaiting \/ BatchExpired \/ BatchEnded \/ AllApplied \/ StripRetired \/ RemoveRetired
  \/ DiffSources \/ SubmitBatch \/ RecordBatch
  \/ MigrateLegacy \/ AllSummarized \/ ExtractAndWrite \/ SaveCompiled

BatchSpec == BatchInit /\ [][BatchNext]_batchVars

-----------------------------------------------------------------------------
Hashes == -1..MaxVersion
PCs == {"idle", "load", "clear", "clearLegacy", "split", "strip", "poll", "apply", "retire",
        "remove", "diff", "submit", "record", "migrate", "summarize", "extract", "save"}
Runs == [pc : PCs, fresh : BOOLEAN, batched : BOOLEAN, dry : BOOLEAN,
         id : BatchIds \union {NoBatch}, seen : [Docs -> Hashes], todo : SUBSET Docs,
         ours : [Docs -> Hashes]]

\* The type invariant: the variables of a compile stay in their ranges.
BatchTypeOK ==
  /\ content \in [Docs -> Texts] /\ compiled \in [Docs -> Hashes]
  /\ summary \in [Docs -> [of : 0..MaxVersion, stamp : 0..MaxVersion]]
  /\ batchFile \in BatchIds \union {NoBatch, DeadBatch}
  /\ legacyFile \in BatchIds \union {NoBatch, Stripped}
  /\ batch \in [BatchIds -> [inputs : [Docs -> 0..MaxVersion],
                             fate : {"none", "owed", "settled", "abandoned"}]]
  /\ run \in Runs /\ stops \in Nat

\* A batch that was paid for is on record until its results are in, and never again
\* after that, whatever fails or dies in between (batch_state.go: "never strand a paid
\* batch", no consumed batch is polled again).
PaidBatchOnRecord ==
  \A i \in BatchIds :
    /\ batch[i].fate = "owed" => i \in Recorded \/ (At("record") /\ run.id = i)
    /\ batch[i].fate = "settled" => i \notin Recorded

\* A source that the next diff takes for compiled has a summary of what it contains,
\* though it may change while its batch is away, between the diff and the read, and
\* between the summary and the manifest.
CompiledMeansSummarized ==
  \A d \in Docs : compiled[d] = content[d] => summary[d].of = content[d]
=============================================================================
