------------------------- MODULE CompileQueueProofs -------------------------
(***************************************************************************)
(* Proofs about CompileQueue, for every value of its constants: types, who *)
(* holds a claimed item, and that a dead letter stays one.                 *)
(***************************************************************************)
EXTENDS CompileQueue, TLAPS

-----------------------------------------------------------------------------
(* Lemmas about the table's operations: each leaves a row well formed. *)

RowOK(r) == r \in RowType /\ (r.status = "leased" <=> r.owner # Nobody)

LEMMA NoRowOK == RowOK(NoRow)
  BY QueueAssumption DEF RowOK, NoRow, RowType, Tiers

LEMMA UpsertedOK ==
  ASSUME NEW r, RowOK(r), NEW h \in Nat, NEW t \in Tiers
  PROVE  RowOK(Upserted(r, h, t))
<1>1. CASE r.hash = h
  <2>1. 0 \in 0..MaxErrs
    BY QueueAssumption
  <2>2. RowOK([r EXCEPT !.tier = t, !.errs = 0])
    BY <2>1 DEF RowOK, RowType
  <2> QED BY <1>1, <2>2 DEF Upserted
<1>2. CASE r.hash # h
  <2>1. RowOK(NoRow)
    BY NoRowOK
  <2> QED BY <1>2, <2>1 DEF Upserted, RowOK, RowType
<1> QED BY <1>1, <1>2

LEMMA LeasedOK ==
  ASSUME NEW r, RowOK(r), NEW w \in Workers
  PROVE  RowOK(Leased(r, w))
  BY QueueAssumption DEF Leased, RowOK, RowType

LEMMA UnleasedOK ==
  ASSUME NEW r, RowOK(r), NEW st \in {"pending", "done", "failed"}
  PROVE  RowOK(Unleased(r, st))
  BY QueueAssumption DEF Unleased, RowOK, RowType

LEMMA ReleasedOK ==
  ASSUME NEW r, RowOK(r), NEW w \in Workers, NEW o
  PROVE  RowOK(Released(r, w, o))
<1> DEFINE st == IF o = "failed" THEN "failed"
                 ELSE IF TierComplete(r) THEN "done" ELSE "pending"
<1>1. RowOK(Unleased(r, "pending")) /\ RowOK(Unleased(r, st))
  BY UnleasedOK
<1>2. \A q : RowOK(q) => /\ RowOK([q EXCEPT !.attempts = 0])
                         /\ RowOK([q EXCEPT !.attempts = @ + 1])
  BY DEF RowOK, RowType
<1> HIDE DEF st
<1>3. CASE r.owner # w
  BY <1>3 DEF Released
<1>4. CASE r.owner = w /\ o = "retry"
  BY <1>1, <1>2, <1>4 DEF Released
<1>5. CASE r.owner = w /\ o # "retry"
  BY <1>1, <1>2, <1>5 DEF Released, st
<1> QED BY <1>3, <1>4, <1>5

LEMMA RequeuedOK ==
  ASSUME NEW r, RowOK(r)
  PROVE  RowOK(Requeued(r))
  BY UnleasedOK DEF Requeued

LEMMA PromotedOK ==
  ASSUME NEW r, RowOK(r)
  PROVE  RowOK(Promoted(r))
  BY DEF Promoted, RowOK, RowType, Tiers

LEMMA MarkedOK ==
  ASSUME NEW r, RowOK(r), NEW pass \in {"indexed", "embedded", "written"}
  PROVE  RowOK(Marked(r, pass))
<1>1. pass \in {Pass[t] : t \in Tiers}
  BY DEF Pass, Tiers
<1> QED BY <1>1 DEF Marked, RowOK, RowType

LEMMA ErredOK ==
  ASSUME NEW r, RowOK(r), r.errs < MaxErrs
  PROVE  RowOK(Erred(r))
  BY QueueAssumption DEF Erred, RowOK, RowType

\* A table in which every row is well formed.
LEMMA RowsRows ==
  RowsOK <=> row \in [Sources -> RowType] /\ \A s \in Sources : RowOK(row[s])
  BY DEF RowsOK, RowOK

LEMMA RowsRowsNext ==
  RowsOK' <=> row' \in [Sources -> RowType] /\ \A s \in Sources : RowOK(row'[s])
  BY DEF RowsOK, RowOK

\* One row of a well-formed table changes, and stays well formed.
LEMMA OneRow ==
  ASSUME RowsOK, NEW s \in Sources, NEW r, RowOK(r), row' = [row EXCEPT ![s] = r]
  PROVE  RowsOK'
  BY RowsRows, RowsRowsNext DEF RowOK

-----------------------------------------------------------------------------
(* Type correctness, part by part: each lemma has a step for every action    *)
(* that can disturb its part, and one for those that leave it alone.         *)

LEMMA FilesStep ==
  ASSUME TypeOK, Next
  PROVE  FilesOK'
<1>1. ASSUME NEW w \in Workers, Summarize(w) PROVE FilesOK'
  BY <1>1, QueueAssumption DEF TypeOK, FilesOK, CyclesOK, Summarize, files
<1>2. ASSUME NEW w \in Workers, Finish(w) PROVE FilesOK'
  BY <1>2 DEF TypeOK, FilesOK, CyclesOK, Finish
<1>3. ASSUME NEW w \in Workers, OdComplete(w) PROVE FilesOK'
  BY <1>3 DEF TypeOK, FilesOK, RequestsOK, RequestType, NoRequest, OdComplete
<1>4. ASSUME NEW w \in Workers, OdIncomplete(w) PROVE FilesOK'
  BY <1>4 DEF TypeOK, FilesOK, RequestsOK, RequestType, NoRequest, OdIncomplete, files
<1>5. ASSUME NEW w \in Workers, NEW s \in Sources, Index(w, s) PROVE FilesOK'
  BY <1>5 DEF TypeOK, FilesOK, CyclesOK, Index, Item, files
<1>6. ASSUME NEW w \in Workers, NEW s \in Sources, Embed(w, s) PROVE FilesOK'
  BY <1>6 DEF TypeOK, FilesOK, CyclesOK, Embed, Item, files
<1>7. ASSUME NEW s \in Sources, Edit(s) PROVE FilesOK'
  <2>1. disk' = [disk EXCEPT ![s] = @ + 1] /\ UNCHANGED <<manifest, raw, vec, summary>>
    BY <1>7 DEF Edit, table
  <2> QED BY <2>1 DEF TypeOK, FilesOK
<1>8. ASSUME NEW w \in Workers, NEW s \in Sources,
             \/ PassFails(w, s) \/ EmbedFails(w, s) \/ Upsert(w, s) \/ Release(w, s)
             \/ OdPick(w, s)
      PROVE  FilesOK'
  BY <1>8 DEF TypeOK, FilesOK, PassFails, EmbedFails, Upsert, Release, OdPick, Item, files
<1>12. ASSUME NEW s \in Sources, Hit(s) \/ Expire(s) \/ Stall(s) PROVE FilesOK'
  BY <1>12 DEF TypeOK, FilesOK, Hit, Expire, Stall, Lapse, files
<1>9. ASSUME NEW w \in Workers,
             \/ Begin(w) \/ Skip(w) \/ Read(w) \/ PassDone(w) \/ Complete(w)
             \/ Incomplete(w) \/ Heartbeat(w) \/ Panic(w) \/ OdStart(w)
             \/ OdTimeout(w) \/ SaveFails(w) \/ Crash(w)
             \/ \E t \in Tiers : Claim(w, t) \/ ClaimFails(w, t)
      PROVE  FilesOK'
  BY <1>9 DEF TypeOK, FilesOK, Begin, Skip, Read, PassDone, Complete, Incomplete,
              Heartbeat, Panic, OdStart, OdTimeout, SaveFails, Crash, Claim,
              ClaimFails, files, table
<1>10. ASSUME NEW w \in Workers, Worker(w) PROVE FilesOK'
  BY <1>1, <1>2, <1>5, <1>6, <1>8, <1>9, <1>10 DEF Worker
<1>11. ASSUME NEW w \in Workers, Client(w) \/ Trouble(w) PROVE FilesOK'
  BY <1>3, <1>4, <1>8, <1>9, <1>11 DEF Client, Answer, Trouble
<1> QED BY <1>7, <1>10, <1>11, <1>12 DEF Next

LEMMA RowsStep ==
  ASSUME TypeOK, Next
  PROVE  RowsOK'
<1>a. RowsOK /\ \A s \in Sources : RowOK(row[s])
  BY RowsRows DEF TypeOK
<1>1. ASSUME NEW w \in Workers, Begin(w) \/ Skip(w) PROVE RowsOK'
  BY <1>1, <1>a, RequeuedOK, RowsRowsNext DEF Begin, Skip, Requeue, RowOK
<1>2. ASSUME NEW w \in Workers, NEW s \in Sources, Upsert(w, s) PROVE RowsOK'
  <2>1. got[w][s] \in Nat /\ DefaultTier[s] \in Tiers
    BY QueueAssumption DEF TypeOK, CyclesOK
  <2> QED BY <1>2, <1>a, <2>1, UpsertedOK, OneRow DEF Upsert
<1>3. ASSUME NEW w \in Workers, NEW t \in Tiers, Claim(w, t) PROVE RowsOK'
  BY <1>3, <1>a, LeasedOK, RowsRowsNext DEF Claim, RowOK
<1>4. ASSUME NEW w \in Workers, NEW s \in Sources, Index(w, s) \/ Embed(w, s) PROVE RowsOK'
  BY <1>4, <1>a, MarkedOK, OneRow DEF Index, Embed
<1>5. ASSUME NEW w \in Workers, NEW s \in Sources, PassFails(w, s) PROVE RowsOK'
  BY <1>5, <1>a, ErredOK, OneRow DEF PassFails
<1>6. ASSUME NEW w \in Workers, Complete(w) PROVE RowsOK'
  BY <1>6, <1>a, MarkedOK, RowsRowsNext DEF Complete, RowOK
<1>7. ASSUME NEW w \in Workers, NEW s \in Sources, Release(w, s) PROVE RowsOK'
  <2>1. PICK o : row' = [row EXCEPT ![s] = Released(@, w, o)]
    BY <1>7 DEF Release
  <2> QED BY <1>a, <2>1, ReleasedOK, OneRow
<1>8. ASSUME NEW w \in Workers, Finish(w) \/ SaveFails(w) PROVE RowsOK'
  BY <1>8, <1>a, PromotedOK, RowsRowsNext DEF Finish, SaveFails, RowOK
<1>9. ASSUME NEW w \in Workers, NEW s \in Sources, OdPick(w, s) PROVE RowsOK'
  <2>1. RowOK([row[s] EXCEPT !.tier = 3])
    BY <1>a DEF RowOK, RowType, Tiers
  <2> QED BY <1>9, <1>a, <2>1, OneRow DEF OdPick
<1>10. ASSUME NEW w \in Workers, OdComplete(w) PROVE RowsOK'
  <2>1. od[w].src \in Sources
    BY <1>10 DEF TypeOK, RequestsOK, RequestType, NoRequest, OdComplete
  <2> QED BY <1>10, <1>a, <2>1, MarkedOK, OneRow DEF OdComplete
<1>11. ASSUME NEW s \in Sources, Hit(s) PROVE RowsOK'
  <2>1. RowOK([row[s] EXCEPT !.hot = TRUE])
    BY <1>a DEF RowOK, RowType
  <2> QED BY <1>11, <1>a, <2>1, OneRow DEF Hit
<1>12. ASSUME NEW s \in Sources, Expire(s) \/ Stall(s) PROVE RowsOK'
  <2>1. RowOK([row[s] EXCEPT !.lapsed = TRUE])
    BY <1>a DEF RowOK, RowType
  <2> QED BY <1>12, <1>a, <2>1, OneRow DEF Expire, Stall, Lapse
<1>13. ASSUME NEW w \in Workers, Heartbeat(w) PROVE RowsOK'
  <2>1. ASSUME NEW s \in Sources PROVE RowOK([row[s] EXCEPT !.lapsed = FALSE])
    BY <1>a DEF RowOK, RowType
  <2> QED BY <1>13, <1>a, <2>1, RowsRowsNext DEF Heartbeat, RowOK
<1>14. ASSUME NEW w \in Workers, Crash(w) PROVE RowsOK'
  <2>1. ASSUME NEW s \in Sources, row[s].owner = w PROVE RowOK([row[s] EXCEPT !.owner = Gone])
    BY <1>a, <2>1, QueueAssumption DEF RowOK, RowType
  <2> QED BY <1>14, <1>a, <2>1, RowsRowsNext DEF Crash, RowOK
<1>15. ASSUME NEW w \in Workers, Read(w) \/ PassDone(w) \/ Summarize(w) \/ Incomplete(w)
              \/ Panic(w) \/ OdStart(w) \/ OdTimeout(w) \/ OdIncomplete(w)
              \/ \E t \in Tiers : ClaimFails(w, t)
       PROVE  RowsOK'
  BY <1>15, <1>a DEF RowsOK, Read, PassDone, Summarize, Incomplete, Panic, OdStart,
       OdTimeout, OdIncomplete, ClaimFails, table
<1>16. ASSUME NEW w \in Workers, NEW s \in Sources, EmbedFails(w, s) PROVE RowsOK'
  BY <1>16, <1>a DEF RowsOK, EmbedFails
<1>17. ASSUME NEW s \in Sources, Edit(s) PROVE RowsOK'
  <2>1. UNCHANGED row
    BY <1>17 DEF Edit, table
  <2> QED BY <1>a, <2>1 DEF RowsOK
<1>18. ASSUME NEW w \in Workers, Worker(w) PROVE RowsOK'
  BY <1>1, <1>2, <1>3, <1>4, <1>5, <1>6, <1>7, <1>8, <1>13, <1>15, <1>18 DEF Worker
<1>19. ASSUME NEW w \in Workers, Client(w) \/ Trouble(w) PROVE RowsOK'
  BY <1>8, <1>9, <1>10, <1>14, <1>15, <1>16, <1>19 DEF Client, Answer, Trouble
<1> QED BY <1>11, <1>12, <1>17, <1>18, <1>19 DEF Next

LEMMA RequestsStep ==
  ASSUME TypeOK, Next
  PROVE  RequestsOK'
<1>1. ASSUME NEW w \in Workers, NEW s \in Sources, OdPick(w, s) PROVE RequestsOK'
  <2>1. row[s].hash \in Nat
    BY DEF TypeOK, RowsOK, RowType
  <2> QED BY <1>1, <2>1 DEF TypeOK, RequestsOK, RequestType, OdPick
<1>2. ASSUME NEW w \in Workers, OdStart(w) PROVE RequestsOK'
  <2>1. od[w] \in [pc: {"wait", "run"}, src: Sources, hash: Nat, got: Nat]
    BY <1>2 DEF TypeOK, RequestsOK, RequestType, NoRequest, OdStart
  <2>2. disk[od[w].src] \in Nat
    BY <2>1 DEF TypeOK, FilesOK
  <2> QED BY <1>2, <2>1, <2>2 DEF TypeOK, RequestsOK, RequestType, OdStart
<1>3. ASSUME NEW w \in Workers, OdTimeout(w) \/ OdComplete(w) \/ OdIncomplete(w) \/ Crash(w)
      PROVE  RequestsOK'
  BY <1>3 DEF TypeOK, RequestsOK, RequestType, OdTimeout, OdComplete, OdIncomplete, Crash
<1>4. ASSUME NEW w \in Workers, Worker(w) PROVE RequestsOK'
  BY <1>4 DEF TypeOK, RequestsOK, Worker, Begin, Skip, Upsert, Claim, Read, Index, Embed,
       PassFails, Item, PassDone, Panic, Summarize, Complete, Incomplete, Release, Finish,
       Heartbeat
<1>5. ASSUME NEW w \in Workers, NEW s \in Sources,
             SaveFails(w) \/ EmbedFails(w, s) \/ \E t \in Tiers : ClaimFails(w, t)
      PROVE  RequestsOK'
  BY <1>5 DEF TypeOK, RequestsOK, SaveFails, EmbedFails, Item, ClaimFails
<1>6. ASSUME NEW w \in Workers, SaveFails(w) \/ \E t \in Tiers : ClaimFails(w, t)
      PROVE  RequestsOK'
  BY <1>6 DEF TypeOK, RequestsOK, SaveFails, ClaimFails
<1>7. ASSUME NEW s \in Sources, Edit(s) \/ Hit(s) \/ Expire(s) \/ Stall(s) PROVE RequestsOK'
  BY <1>7 DEF TypeOK, RequestsOK, Edit, Hit, Expire, Stall, Lapse
<1>8. ASSUME NEW w \in Workers, Client(w) \/ Trouble(w) PROVE RequestsOK'
  BY <1>1, <1>2, <1>3, <1>5, <1>6, <1>8 DEF Client, Answer, Trouble
<1> QED BY <1>4, <1>7, <1>8 DEF Next

\* The claims, as functions on sets of sources.
ClaimType == UNION {[S -> RowType] : S \in SUBSET Sources}

LEMMA ClaimsType ==
  ClaimsOK <=> claims \in [Workers -> [Tiers -> ClaimType]]
  BY DEF ClaimsOK, ClaimType

LEMMA ClaimsTypeNext ==
  ClaimsOK' <=> claims' \in [Workers -> [Tiers -> ClaimType]]
  BY DEF ClaimsOK, ClaimType

LEMMA NoClaimsType == NoClaims \in [Tiers -> ClaimType]
<1>1. [s \in {} |-> NoRow] \in [{} -> RowType]
  OBVIOUS
<1> QED BY <1>1 DEF NoClaims, ClaimType

LEMMA LeaveClaims ==
  ASSUME ClaimsOK, NEW w \in Workers, NEW st, Leave(w, st)
  PROVE  ClaimsOK'
  BY ClaimsType, ClaimsTypeNext, NoClaimsType DEF Leave

LEMMA ClaimsStep ==
  ASSUME TypeOK, Next
  PROVE  ClaimsOK'
<1>a. ClaimsOK
  BY DEF TypeOK
<1>1. ASSUME NEW w \in Workers, NEW t \in Tiers, Claim(w, t) PROVE ClaimsOK'
  <2> DEFINE items == {s \in Sources : Claimable(row[s], t, w)}
             mine  == [s \in items |-> Leased(row[s], w)]
  <2>1. mine \in ClaimType
    <3>1. \A s \in items : Leased(row[s], w) \in RowType
      BY RowsRows, LeasedOK DEF TypeOK, RowOK
    <3>2. items \in SUBSET Sources
      OBVIOUS
    <3> HIDE DEF items
    <3>3. mine \in [items -> RowType]
      BY <3>1
    <3> QED BY <3>2, <3>3 DEF ClaimType
  <2>2. \/ claims' = [claims EXCEPT ![w][t] = mine]
        \/ Leave(w, "idle")
    BY <1>1 DEF Claim
  <2>3. CASE claims' = [claims EXCEPT ![w][t] = mine]
    <3> HIDE DEF mine
    <3> QED BY <1>a, <2>1, <2>3, ClaimsType, ClaimsTypeNext
  <2> QED BY <1>a, <2>2, <2>3, LeaveClaims
<1>2. ASSUME NEW w \in Workers, Finish(w) \/ SaveFails(w) \/ Crash(w)
             \/ \E t \in Tiers : ClaimFails(w, t)
      PROVE  ClaimsOK'
  BY <1>a, <1>2, LeaveClaims DEF Finish, SaveFails, Crash, ClaimFails
<1>b. UNCHANGED claims => ClaimsOK'
  BY <1>a DEF ClaimsOK
<1>3. ASSUME NEW w \in Workers, Worker(w) PROVE ClaimsOK'
  BY <1>b, <1>1, <1>2, <1>3 DEF Worker, Begin, Skip, Upsert, Read, Index, Embed,
       PassFails, Item, PassDone, Panic, Summarize, Complete, Incomplete, Release, Heartbeat, cycle
<1>4. ASSUME NEW w \in Workers, Client(w) \/ Trouble(w) PROVE ClaimsOK'
  BY <1>b, <1>2, <1>4 DEF Client, Answer, Trouble, OdPick, OdStart, OdTimeout, OdComplete,
       OdIncomplete, EmbedFails, Item, cycle
<1>5. ASSUME NEW s \in Sources, Edit(s) \/ Hit(s) \/ Expire(s) \/ Stall(s) PROVE ClaimsOK'
  BY <1>b, <1>5 DEF Edit, Hit, Expire, Stall, Lapse, cycle
<1> QED BY <1>3, <1>4, <1>5 DEF Next

(* The workers' state, in two parts: where each is, and what it recorded. *)

Where ==
  /\ pc \in [Workers -> Steps] /\ todo \in [Workers -> SUBSET Sources]
  /\ got \in [Workers -> [Sources -> Nat]]
  /\ \A w \in Workers : pc[w] \in {"llm", "mark"} => todo[w] \subseteq DOMAIN claims[w][3]

Held ==
  /\ ours \in [Workers -> [Sources -> Nat]]
  /\ errored \in [Workers -> SUBSET Sources] /\ unread \in [Workers -> SUBSET Sources]
  /\ incomplete \in [Workers -> BOOLEAN] /\ lost \in [Workers -> SUBSET Sources]

LEMMA CyclesParts == (CyclesOK <=> Where /\ Held) /\ (CyclesOK' <=> Where' /\ Held')
  BY DEF CyclesOK, Where, Held

LEMMA EnterWhere ==
  ASSUME Where, NEW w \in Workers, NEW st \in Steps, NEW T \in SUBSET Sources,
         Enter(w, st, T),
         \A u \in Workers \ {w} : claims'[u] = claims[u],
         st \in {"llm", "mark"} => T \subseteq DOMAIN claims'[w][3]
  PROVE  Where'
<1>1. got' \in [Workers -> [Sources -> Nat]]
  BY DEF Enter, Where, NoVersion
<1>2. pc' \in [Workers -> Steps] /\ todo' \in [Workers -> SUBSET Sources]
  BY DEF Enter, Where
<1>3. ASSUME NEW u \in Workers, pc'[u] \in {"llm", "mark"}
      PROVE  todo'[u] \subseteq DOMAIN claims'[u][3]
  <2>1. CASE u = w
    BY <1>3, <2>1 DEF Enter, Where
  <2>2. CASE u # w
    BY <1>3, <2>2 DEF Enter, Where
  <2> QED BY <2>1, <2>2
<1> QED BY <1>1, <1>2, <1>3 DEF Where

Move(w, st, T) == pc' = [pc EXCEPT ![w] = st] /\ todo' = [todo EXCEPT ![w] = T]

LEMMA MoveWhere ==
  ASSUME Where, NEW w \in Workers, NEW st \in Steps \ {"llm", "mark"}, NEW T \in SUBSET Sources,
         Move(w, st, T), got' \in [Workers -> [Sources -> Nat]], UNCHANGED claims
  PROVE  Where'
<1>1. pc' \in [Workers -> Steps] /\ todo' \in [Workers -> SUBSET Sources]
  BY DEF Where, Move
<1>2. ASSUME NEW u \in Workers, pc'[u] \in {"llm", "mark"}
      PROVE  todo'[u] \subseteq DOMAIN claims'[u][3]
  <2>1. u # w
    BY <1>2 DEF Where, Move
  <2> QED BY <1>2, <2>1 DEF Where, Move
<1> QED BY <1>1, <1>2 DEF Where

\* What was claimed, and for which stage, are sources.
LEMMA ClaimedType ==
  ASSUME ClaimsOK, NEW w \in Workers
  PROVE  /\ Claimed(w) \subseteq Sources
         /\ \A t \in Tiers : DOMAIN claims[w][t] \subseteq Sources
         /\ \A st : Work(w, st) \in SUBSET Sources /\ Work(w, st) \subseteq DOMAIN claims[w][TierOf(st)]
<1>1. \A t \in Tiers : DOMAIN claims[w][t] \subseteq Sources
  BY DEF ClaimsOK
<1>2. \A st : TierOf(st) \in Tiers
  BY DEF TierOf, Tiers
<1> QED BY <1>1, <1>2 DEF Claimed, Work

LEMMA LeaveCycles ==
  ASSUME CyclesOK, ClaimsOK, NEW w \in Workers, NEW st \in {"idle", "again"}, Leave(w, st)
  PROVE  CyclesOK'
<1>1. Where'
  <2>1. \A u \in Workers \ {w} : claims'[u] = claims[u]
    BY DEF Leave, ClaimsOK
  <2>2. Enter(w, st, {}) /\ st \in Steps
    BY DEF Leave, Steps
  <2> QED BY <2>1, <2>2, EnterWhere, CyclesParts
<1>2. Held'
  BY CyclesParts DEF Leave, Held, NoVersion
<1> QED BY <1>1, <1>2, CyclesParts

LEMMA AdvanceWhere ==
  ASSUME Where, ClaimsOK, NEW w \in Workers, NEW st \in {"index1", "embed", "llm"}, NEW skipped,
         Advance(w, st, skipped), UNCHANGED claims
  PROVE  Where'
<1>1. CASE Enter(w, "release", Claimed(w) \ skipped)
  <2>1. Claimed(w) \ skipped \in SUBSET Sources /\ "release" \in Steps
    BY ClaimedType DEF Steps, InPass
  <2> QED BY <1>1, <2>1, EnterWhere
<1>2. CASE Enter(w, st, Work(w, st))
  <2>1. Work(w, st) \in SUBSET Sources /\ st \in Steps
    BY ClaimedType DEF Steps, InPass, Passes
  <2>2. st \in {"llm", "mark"} => Work(w, st) \subseteq DOMAIN claims'[w][3]
    BY ClaimedType DEF TierOf
  <2> QED BY <1>2, <2>1, <2>2, EnterWhere
<1> QED BY <1>1, <1>2 DEF Advance

LEMMA CyclesStep ==
  ASSUME TypeOK, Next
  PROVE  CyclesOK'
<1>a. Where /\ Held /\ CyclesOK /\ ClaimsOK
  BY CyclesParts DEF TypeOK
<1>1. ASSUME NEW w \in Workers, Begin(w) \/ Skip(w) PROVE CyclesOK'
  <2>1. ASSUME Begin(w) PROVE Where'
    <3> DEFINE T == {s \in Sources : disk[s] # manifest[s]}
    <3>1. Move(w, "upsert", T) /\ got' = [got EXCEPT ![w] = disk] /\ UNCHANGED claims
      BY <2>1 DEF Begin, Move
    <3>2. got' \in [Workers -> [Sources -> Nat]]
      BY <1>a, <3>1 DEF Where, TypeOK, FilesOK
    <3>3. "upsert" \in Steps \ {"llm", "mark"} /\ T \in SUBSET Sources
      BY DEF Steps
    <3> HIDE DEF T
    <3> QED BY <1>a, <3>1, <3>2, <3>3, MoveWhere
  <2>3. ASSUME Skip(w) PROVE Where'
    <3>1. Move(w, "idle", todo[w]) /\ UNCHANGED <<got, claims>> /\ todo[w] \in SUBSET Sources
      BY <1>a, <2>3 DEF Skip, Where, Move
    <3>2. "idle" \in Steps \ {"llm", "mark"} /\ got' \in [Workers -> [Sources -> Nat]]
      BY <1>a, <3>1 DEF Steps, Where
    <3> QED BY <1>a, <3>1, <3>2, MoveWhere
  <2>2. Held'
    BY <1>a, <1>1 DEF Held, Begin, Skip, history
  <2> QED BY <1>1, <2>1, <2>2, <2>3, CyclesParts
<1>2. ASSUME NEW w \in Workers, NEW s \in Sources, Upsert(w, s) PROVE CyclesOK'
  <2>1. Where'
    BY <1>a, <1>2 DEF Where, Upsert
  <2>2. Held'
    BY <1>a, <1>2 DEF Held, Upsert
  <2> QED BY <2>1, <2>2, CyclesParts
<1>3. ASSUME NEW w \in Workers, NEW t \in Tiers, Claim(w, t) PROVE CyclesOK'
  <2>1. CASE Leave(w, "idle")
    BY <1>a, <2>1, LeaveCycles
  <2>2. CASE /\ t # 3 /\ \A u \in Workers \ {w} : claims'[u] = claims[u]
             /\ Enter(w, ClaimStep(IF t = 0 THEN 1 ELSE 3), {})
             /\ UNCHANGED <<ours, errored, unread, incomplete, lost>>
    <3>1. Where'
      BY <1>a, <2>2, EnterWhere DEF ClaimStep, Steps
    <3> QED BY <1>a, <2>2, <3>1, CyclesParts DEF Held
  <2>3. CASE /\ t = 3 /\ \A u \in Workers \ {w} : claims'[u] = claims[u]
             /\ Enter(w, "index0", Work(w, "index0"))
             /\ UNCHANGED <<ours, errored, unread, incomplete, lost>>
    <3>1. Where'
      BY <1>a, <2>3, EnterWhere, ClaimedType DEF Steps, InPass, Passes
    <3> QED BY <1>a, <2>3, <3>1, CyclesParts DEF Held
  <2> QED BY <1>a, <1>3, <2>1, <2>2, <2>3 DEF Claim, ClaimsOK
<1>4. ASSUME NEW w \in Workers, Finish(w) \/ SaveFails(w) \/ Crash(w)
             \/ \E t \in Tiers : ClaimFails(w, t)
      PROVE  CyclesOK'
  BY <1>a, <1>4, LeaveCycles DEF Finish, SaveFails, Crash, ClaimFails
<1>5. ASSUME NEW w \in Workers, Read(w) PROVE CyclesOK'
  <2>1. got' \in [Workers -> [Sources -> Nat]]
    BY <1>a, <1>5 DEF Read, Where, TypeOK, FilesOK
  <2>2. Where'
    BY <1>a, <1>5, <2>1 DEF Read, Where
  <2>3. Held'
    BY <1>a, <1>5 DEF Read, Held, history
  <2> QED BY <2>2, <2>3, CyclesParts
<1>6. ASSUME NEW w \in Workers, NEW s \in Sources, Item(w, s) PROVE CyclesOK'
  <2>1. Where'
    BY <1>a, <1>6 DEF Item, Where
  <2>2. Held'
    BY <1>a, <1>6 DEF Item, Held
  <2> QED BY <2>1, <2>2, CyclesParts
<1>7. ASSUME NEW w \in Workers, PassDone(w) PROVE CyclesOK'
  <2> DEFINE t == TierOf(pc[w])
         hidden(U) == IF pc[w] = "index1" THEN unread[w] ELSE unread[w] \cup U
         bad(U)    == {s \in DOMAIN claims[w][t] \ U : row[s].errs > claims[w][t][s].errs}
  <2>1. PICK U \in SUBSET DOMAIN claims[w][t] :
          /\ unread' = [unread EXCEPT ![w] = hidden(U)]
          /\ errored' = [errored EXCEPT ![w] = IF pc[w] = "index1" THEN @ ELSE @ \cup bad(U)]
          /\ Advance(w, After(pc[w]), hidden(U))
    BY <1>7 DEF PassDone
  <2>0. t \in Tiers
    BY DEF TierOf, Tiers
  <2>2. DOMAIN claims[w][t] \subseteq Sources
    BY <1>a, <2>0, ClaimedType
  <2>3. After(pc[w]) \in {"index1", "embed", "llm"} /\ UNCHANGED claims
    BY <1>7 DEF After, PassDone
  <2>4. Where'
    BY <1>a, <2>1, <2>3, AdvanceWhere
  <2>5. Held'
    <3>1. UNCHANGED <<ours, incomplete, lost>>
      BY <1>7 DEF PassDone
    <3>2. bad(U) \subseteq Sources /\ hidden(U) \subseteq unread[w] \cup U
      BY <2>2
    <3> HIDE DEF t, bad, hidden
    <3> QED BY <1>a, <2>1, <2>2, <3>1, <3>2 DEF Held
  <2> QED BY <2>4, <2>5, CyclesParts
<1>8. ASSUME NEW w \in Workers, Panic(w) PROVE CyclesOK'
  <2>0. TierOf(pc[w]) \in Tiers
    BY DEF TierOf, Tiers
  <2>1. DOMAIN claims[w][TierOf(pc[w])] \subseteq Sources
    BY <1>a, <2>0, ClaimedType
  <2>2. Where'
    BY <1>a, <1>8, AdvanceWhere DEF Panic
  <2>3. Held'
    BY <1>a, <1>8, <2>1 DEF Panic, Held, history
  <2> QED BY <2>2, <2>3, CyclesParts
<1>9. ASSUME NEW w \in Workers, Summarize(w) PROVE CyclesOK'
  <2>1. PICK Ok \in SUBSET todo[w] :
          /\ ours' = [ours EXCEPT ![w] = [s \in Sources |-> IF s \in Ok THEN claims[w][3][s].hash
                                                            ELSE @[s]]]
          /\ Enter(w, "mark", Ok)
    BY <1>9 DEF Summarize
  <2>2. Ok \subseteq DOMAIN claims[w][3] /\ Ok \in SUBSET Sources
    BY <1>a, <1>9 DEF Summarize, Where
  <2>3. \A s \in Ok : claims[w][3][s].hash \in Nat
    <3>1. claims[w][3] \in [DOMAIN claims[w][3] -> RowType]
      BY <1>a DEF ClaimsOK, Tiers
    <3> QED BY <2>2, <3>1 DEF RowType
  <2>4. Where'
    BY <1>a, <1>9, <2>1, <2>2, EnterWhere DEF Summarize, Steps, InPass
  <2>5. Held'
    BY <1>a, <1>9, <2>1, <2>3 DEF Summarize, Held, history
  <2> QED BY <2>4, <2>5, CyclesParts
<1>10. ASSUME NEW w \in Workers, Complete(w) \/ Incomplete(w) PROVE CyclesOK'
  <2>1. /\ Claimed(w) \ unread[w] \in SUBSET Sources /\ "release" \in Steps
        /\ DOMAIN claims[w][3] \subseteq Sources
    BY <1>a, ClaimedType DEF Steps, InPass, Tiers
  <2>2. Where'
    BY <1>a, <1>10, <2>1, EnterWhere DEF Complete, Incomplete
  <2>3. Held'
    BY <1>a, <1>10, <2>1 DEF Complete, Incomplete, Held, history
  <2> QED BY <2>2, <2>3, CyclesParts
<1>11. ASSUME NEW w \in Workers, NEW s \in Sources, Release(w, s) PROVE CyclesOK'
  <2>1. Where'
    BY <1>a, <1>11 DEF Release, Where
  <2>2. Held'
    BY <1>a, <1>11 DEF Release, Held
  <2> QED BY <2>1, <2>2, CyclesParts
<1>12. ASSUME NEW s \in Sources, Expire(s) \/ Stall(s) PROVE CyclesOK'
  <2>1. Where'
    BY <1>a, <1>12 DEF Expire, Stall, Lapse, Where, cycle
  <2>2. Held'
    <3>1. /\ lost' = [w \in Workers |-> IF row[s].owner = w /\ s \in Claimed(w)
                                        THEN lost[w] \cup {s} ELSE lost[w]]
          /\ UNCHANGED <<ours, errored, unread, incomplete>>
      BY <1>12 DEF Expire, Stall, Lapse, cycle
    <3> QED BY <1>a, <3>1 DEF Held
  <2> QED BY <2>1, <2>2, CyclesParts
<1>b. UNCHANGED <<pc, todo, claims, got, ours, errored, unread, incomplete, lost>> => CyclesOK'
  BY <1>a, CyclesParts DEF Where, Held
<1>13. ASSUME NEW w \in Workers, Worker(w) PROVE CyclesOK'
  BY <1>b, <1>1, <1>2, <1>3, <1>4, <1>5, <1>6, <1>7, <1>8, <1>9, <1>10, <1>11, <1>13
  DEF Worker, Index, Embed, PassFails, Heartbeat, cycle, history
<1>14. ASSUME NEW w \in Workers, Client(w) \/ Trouble(w) PROVE CyclesOK'
  BY <1>b, <1>4, <1>6, <1>14 DEF Client, Answer, Trouble, OdPick, OdStart, OdTimeout,
     OdComplete, OdIncomplete, EmbedFails, cycle, history
<1>15. ASSUME NEW s \in Sources, Edit(s) \/ Hit(s) PROVE CyclesOK'
  BY <1>b, <1>15 DEF Edit, Hit, cycle, history
<1> QED BY <1>12, <1>13, <1>14, <1>15 DEF Next

\* Every reachable state is well typed.
THEOREM TypeCorrect == Spec => []TypeOK
<1>1. Init => TypeOK
  <2> SUFFICES ASSUME Init PROVE TypeOK
    OBVIOUS
  <2>1. FilesOK /\ RowsOK
    BY NoRowOK DEF Init, FilesOK, RowsOK, RowOK, NoVersion, NoRow
  <2>2. CyclesOK
    BY DEF Init, CyclesOK, Steps, NoVersion
  <2>3. ClaimsOK
    BY NoClaimsType, ClaimsType DEF Init
  <2>4. RequestsOK
    BY DEF Init, RequestsOK, RequestType
  <2> QED BY <2>1, <2>2, <2>3, <2>4 DEF TypeOK
<1>2. TypeOK /\ [Next]_vars => TypeOK'
  <2>1. CASE Next
    BY <2>1, FilesStep, RowsStep, CyclesStep, ClaimsStep, RequestsStep DEF TypeOK
  <2>2. CASE UNCHANGED vars
    BY <2>2 DEF vars, files, table, cycle, history, TypeOK, FilesOK, RowsOK, CyclesOK,
                ClaimsOK, RequestsOK
  <2> QED BY <2>1, <2>2
<1> QED BY <1>1, <1>2, PTL DEF Spec

-----------------------------------------------------------------------------
(* Who holds a claimed item.  A worker may lose an item only by a step that  *)
(* records the loss; HolderInv adds to HolderOwns that the lease it still    *)
(* has did not lapse, for otherwise another worker could claim the item.     *)

Active(w, s) == s \in Claimed(w) \ lost[w] /\ (pc[w] # "release" \/ s \in todo[w])
Holds(w, s)  == row[s].owner = w /\ ~row[s].lapsed

HolderInv == \A w \in Workers : \A s \in Sources : Active(w, s) => Holds(w, s)

LEMMA HolderKept ==
  ASSUME HolderInv,
         \A w \in Workers : \A s \in Sources :
           Active(w, s)' => (Active(w, s) /\ (Holds(w, s) => Holds(w, s)'))
  PROVE  HolderInv'
  BY DEF HolderInv

\* What the table's operations do to a lease that did not lapse.
LEMMA KeepLease ==
  ASSUME NEW r, RowOK(r), ~r.lapsed
  PROVE  /\ \A p : Marked(r, p).owner = r.owner /\ ~Marked(r, p).lapsed
         /\ Erred(r).owner = r.owner /\ ~Erred(r).lapsed
         /\ Promoted(r).owner = r.owner /\ ~Promoted(r).lapsed
         /\ Requeued(r) = r
  BY DEF Marked, Erred, Promoted, Requeued, RowOK, RowType

\* A claimed item's row is one of the table's.
LEMMA InClaimed ==
  ASSUME NEW w \in Workers, NEW s
  PROVE  s \in Claimed(w) <=> \E t \in Tiers : s \in DOMAIN claims[w][t]
  BY DEF Claimed

LEMMA InClaimedNext ==
  ASSUME NEW w \in Workers, NEW s
  PROVE  s \in Claimed(w)' <=> \E t \in Tiers : s \in DOMAIN claims'[w][t]
  BY DEF Claimed

\* The cycle of w ends: w claims nothing, the others what they claimed before.
LEMMA LeaveActive ==
  ASSUME TypeOK, NEW w \in Workers, NEW st, Leave(w, st)
  PROVE  /\ \A s \in Sources : ~Active(w, s)'
         /\ \A u \in Workers \ {w} : \A s \in Sources : Active(u, s)' <=> Active(u, s)
<1>1. \A t \in Tiers : DOMAIN claims'[w][t] = {}
  BY DEF Leave, NoClaims, TypeOK, ClaimsOK
<1>2. ASSUME NEW u \in Workers \ {w}
      PROVE  /\ claims'[u] = claims[u] /\ lost'[u] = lost[u]
             /\ pc'[u] = pc[u] /\ todo'[u] = todo[u]
  BY DEF Leave, Enter, TypeOK, ClaimsOK, CyclesOK
<1> QED BY <1>1, <1>2, InClaimed, InClaimedNext DEF Active

LEMMA HolderStep ==
  ASSUME TypeOK, HolderInv, Next
  PROVE  HolderInv'
<1>a. \A s \in Sources : RowOK(row[s])
  BY RowsRows DEF TypeOK
<1>b. row \in [Sources -> RowType] /\ pc \in [Workers -> Steps] /\ todo \in [Workers -> SUBSET Sources]
  BY DEF TypeOK, RowsOK, CyclesOK
<1>1. ASSUME NEW v \in Workers, Begin(v) \/ Skip(v) PROVE HolderInv'
  <2>1. ASSUME NEW w \in Workers, NEW s \in Sources, Active(w, s)'
        PROVE  Active(w, s) /\ (Holds(w, s) => Holds(w, s)')
    <3>1. UNCHANGED <<claims, lost>> /\ row'[s] = Requeued(row[s])
      BY <1>1 DEF Begin, Skip, Requeue, history
    <3>2. Active(w, s)
      BY <1>b, <1>1, <2>1, <3>1 DEF Begin, Skip, Active, Claimed
    <3> QED BY <1>a, <3>1, <3>2, KeepLease DEF Holds
  <2> QED BY <2>1, HolderKept
<1>2. ASSUME NEW v \in Workers, NEW x \in Sources, Upsert(v, x) PROVE HolderInv'
  <2> DEFINE fresh == row[x].hash # got[v][x]
  <2>1. /\ row' = [row EXCEPT ![x] = Upserted(@, got[v][x], DefaultTier[x])]
        /\ lost' = [u \in Workers |-> IF fresh /\ x \in Claimed(u) THEN lost[u] \cup {x}
                                      ELSE lost[u]]
        /\ UNCHANGED <<claims, pc>> /\ todo' = [todo EXCEPT ![v] = @ \ {x}]
    BY <1>2 DEF Upsert
  <2>2. ASSUME NEW w \in Workers, NEW s \in Sources, Active(w, s)'
        PROVE  Active(w, s) /\ (Holds(w, s) => Holds(w, s)')
    <3>1. s \in Claimed(w)' <=> s \in Claimed(w)
      BY <2>1 DEF Claimed
    <3>2. Active(w, s)
      BY <1>b, <2>1, <2>2, <3>1 DEF Active
    <3>3. CASE s = x
      <4>1. ~fresh
        BY <2>1, <2>2, <3>1, <3>3 DEF Active
      <4>2. row'[s] = [row[s] EXCEPT !.tier = DefaultTier[x], !.errs = 0]
        BY <1>b, <2>1, <3>3, <4>1 DEF Upserted
      <4> QED BY <1>b, <3>2, <4>2 DEF Holds, RowType
    <3>4. CASE s # x
      BY <1>b, <2>1, <3>2, <3>4 DEF Holds
    <3> QED BY <3>3, <3>4
  <2> QED BY <2>2, HolderKept
<1>3. ASSUME NEW v \in Workers, NEW t \in Tiers, Claim(v, t) PROVE HolderInv'
  <2> DEFINE items == {s \in Sources : Claimable(row[s], t, v)}
             mine  == [s \in items |-> Leased(row[s], v)]
  <2>0. DOMAIN mine = items
    OBVIOUS
  <2>1. row' = [s \in Sources |-> IF s \in items THEN Leased(row[s], v) ELSE row[s]]
    BY <1>3 DEF Claim
  <2>2. ASSUME NEW s \in items
        PROVE  row'[s].owner = v /\ ~row'[s].lapsed
    BY <1>b, <2>1 DEF Leased, RowType
  <2>3. ASSUME NEW w \in Workers \ {v}, NEW s \in Sources, Active(w, s)
        PROVE  row'[s] = row[s]
    <3>1. Holds(w, s)
      BY <2>3 DEF HolderInv
    <3>2. s \notin items
      BY <3>1, QueueAssumption DEF Holds, Claimable
    <3> QED BY <2>1, <3>2
  <2>4. CASE Leave(v, "idle")
    <3>1. ASSUME NEW w \in Workers, NEW s \in Sources, Active(w, s)'
          PROVE  Holds(w, s)'
      <4>1. w # v /\ Active(w, s)
        BY <2>4, <3>1, LeaveActive
      <4> QED BY <2>3, <4>1 DEF HolderInv, Holds
    <3> QED BY <3>1 DEF HolderInv
  <2>5. CASE /\ claims' = [claims EXCEPT ![v][t] = mine] /\ UNCHANGED lost
             /\ \A w \in Workers \ {v} : pc'[w] = pc[w] /\ todo'[w] = todo[w]
    <3> HIDE DEF mine, items
    <3>1. ASSUME NEW w \in Workers, NEW s \in Sources, Active(w, s)'
          PROVE  Holds(w, s)'
      <4>1. CASE w # v
        <5>1. claims'[w] = claims[w]
          BY <2>5, <4>1 DEF TypeOK, ClaimsOK
        <5>2. Active(w, s)
          BY <2>5, <3>1, <4>1, <5>1, InClaimed, InClaimedNext DEF Active
        <5> QED BY <2>3, <4>1, <5>2 DEF HolderInv, Holds
      <4>2. CASE w = v /\ s \in items
        BY <2>2, <4>2 DEF Holds
      <4>3. CASE w = v /\ s \notin items
        <5>1. s \in Claimed(v)
          <6>1. PICK u \in Tiers : s \in DOMAIN claims'[v][u]
            BY <3>1, <4>3, InClaimedNext DEF Active
          <6>2. u # t => claims'[v][u] = claims[v][u]
            BY <2>5 DEF TypeOK, ClaimsOK
          <6>3. u # t
            BY <2>0, <2>5, <4>3, <6>1 DEF TypeOK, ClaimsOK
          <6> QED BY <6>1, <6>2, <6>3, InClaimed
        <5>2. Active(v, s)
          BY <1>3, <2>5, <3>1, <4>3, <5>1 DEF Active, Claim, ClaimStep
        <5> QED BY <2>1, <4>3, <5>2 DEF HolderInv, Holds
      <4> QED BY <4>1, <4>2, <4>3
    <3> QED BY <3>1 DEF HolderInv
  <2>6. ASSUME ~Leave(v, "idle")
        PROVE  /\ claims' = [claims EXCEPT ![v][t] = mine] /\ UNCHANGED lost
               /\ \A w \in Workers \ {v} : pc'[w] = pc[w] /\ todo'[w] = todo[w]
    <3>1. claims' = [claims EXCEPT ![v][t] = mine] /\ UNCHANGED lost
      BY <1>3, <2>6 DEF Claim
    <3>2. \A w \in Workers \ {v} : pc'[w] = pc[w] /\ todo'[w] = todo[w]
      BY <1>b, <1>3 DEF Claim, Leave, Enter
    <3> QED BY <3>1, <3>2
  <2> QED BY <2>4, <2>5, <2>6
<1>4. ASSUME NEW v \in Workers, Finish(v) \/ SaveFails(v) \/ Crash(v)
             \/ \E t \in Tiers : ClaimFails(v, t)
      PROVE  HolderInv'
  <2>1. \E st : Leave(v, st)
    BY <1>4 DEF Finish, SaveFails, Crash, ClaimFails
  <2>2. ASSUME NEW w \in Workers, NEW s \in Sources, Active(w, s)'
        PROVE  Holds(w, s)'
    <3>1. w # v /\ Active(w, s)
      BY <2>1, <2>2, LeaveActive
    <3>2. row[s].owner = w /\ ~row[s].lapsed
      BY <3>1 DEF HolderInv, Holds
    <3>3. CASE row' = [q \in Sources |-> Promoted(row[q])]
      BY <1>a, <3>2, <3>3, KeepLease DEF Holds
    <3>4. CASE row' = [q \in Sources |-> IF row[q].owner = v THEN [row[q] EXCEPT !.owner = Gone]
                                         ELSE row[q]]
      BY <3>1, <3>2, <3>4 DEF Holds
    <3>5. CASE row' = row
      BY <3>2, <3>5 DEF Holds
    <3> QED BY <1>4, <3>3, <3>4, <3>5 DEF Finish, SaveFails, Crash, ClaimFails, table
  <2> QED BY <2>2 DEF HolderInv
<1>5. ASSUME NEW v \in Workers, NEW x \in Sources,
             Index(v, x) \/ Embed(v, x) \/ PassFails(v, x) \/ EmbedFails(v, x)
      PROVE  HolderInv'
  <2>1. /\ Item(v, x) /\ pc[v] # "release"
        /\ \/ \E p : row' = [row EXCEPT ![x] = Marked(@, p)]
           \/ row' = [row EXCEPT ![x] = Erred(@)]
           \/ row' = row
    BY <1>5 DEF Index, Embed, PassFails, EmbedFails
  <2>2. ASSUME NEW w \in Workers, NEW s \in Sources, Active(w, s)'
        PROVE  Active(w, s) /\ (Holds(w, s) => Holds(w, s)')
    <3>1. Active(w, s)
      BY <1>b, <2>1, <2>2 DEF Item, Active, Claimed
    <3>2. ASSUME ~row[s].lapsed PROVE row'[s].owner = row[s].owner /\ ~row'[s].lapsed
      BY <1>a, <1>b, <2>1, <3>2, KeepLease
    <3> QED BY <3>1, <3>2 DEF Holds
  <2> QED BY <2>2, HolderKept
<1>6. ASSUME NEW v \in Workers,
             PassDone(v) \/ Panic(v) \/ Summarize(v) \/ Incomplete(v) \/ Complete(v) \/ Read(v)
      PROVE  HolderInv'
  <2>1. pc[v] # "release" /\ UNCHANGED <<claims, lost>>
    BY <1>6 DEF PassDone, Panic, Summarize, Incomplete, Complete, Read, Passes, history
  <2>2. \A w \in Workers \ {v} : pc'[w] = pc[w] /\ todo'[w] = todo[w]
    BY <1>b, <1>6 DEF PassDone, Panic, Summarize, Incomplete, Complete, Read, Advance, Enter
  <2>3. ASSUME NEW w \in Workers, NEW s \in Sources, Active(w, s)'
        PROVE  Active(w, s) /\ (Holds(w, s) => Holds(w, s)')
    <3>1. Active(w, s)
      BY <2>1, <2>2, <2>3 DEF Active, Claimed
    <3>2. ASSUME ~row[s].lapsed PROVE row'[s].owner = row[s].owner /\ ~row'[s].lapsed
      <4>1. row'[s] = row[s] \/ row'[s] = Marked(row[s], "written")
        BY <1>6 DEF PassDone, Panic, Summarize, Incomplete, Complete, Read, table
      <4> QED BY <1>a, <3>2, <4>1, KeepLease
    <3> QED BY <3>1, <3>2 DEF Holds
  <2> QED BY <2>3, HolderKept
<1>7. ASSUME NEW v \in Workers, NEW x \in Sources, Release(v, x) PROVE HolderInv'
  <2>1. PICK o : row' = [row EXCEPT ![x] = Released(@, v, o)]
    BY <1>7 DEF Release
  <2>2. /\ pc[v] = "release" /\ todo' = [todo EXCEPT ![v] = @ \ {x}]
        /\ UNCHANGED <<pc, claims, lost>>
    BY <1>7 DEF Release
  <2>3. ASSUME NEW w \in Workers, NEW s \in Sources, Active(w, s)'
        PROVE  Active(w, s) /\ (Holds(w, s) => Holds(w, s)')
    <3>1. Active(w, s) /\ (s = x => w # v)
      BY <1>b, <2>2, <2>3 DEF Active, Claimed
    <3>2. ASSUME Holds(w, s) PROVE row'[s] = row[s]
      BY <1>b, <2>1, <3>1, <3>2 DEF Holds, Released
    <3> QED BY <3>1, <3>2 DEF Holds
  <2> QED BY <2>3, HolderKept
<1>8. ASSUME NEW v \in Workers,
             (\E x \in Sources : OdPick(v, x)) \/ OdStart(v) \/ OdTimeout(v) \/ OdComplete(v) \/ OdIncomplete(v)
             \/ Heartbeat(v)
      PROVE  HolderInv'
  <2>1. UNCHANGED <<pc, todo, claims, lost>>
    BY <1>8 DEF OdPick, OdStart, OdTimeout, OdComplete, OdIncomplete, Heartbeat, cycle, history
  <2>2. ASSUME NEW w \in Workers, NEW s \in Sources, Active(w, s)'
        PROVE  Active(w, s) /\ (Holds(w, s) => Holds(w, s)')
    <3>1. Active(w, s)
      BY <2>1, <2>2 DEF Active, Claimed
    <3>2. ASSUME ~row[s].lapsed PROVE row'[s].owner = row[s].owner /\ ~row'[s].lapsed
      <4>1. \/ row'[s] = row[s] \/ row'[s] = Marked(row[s], "written")
            \/ row'[s] = [row[s] EXCEPT !.tier = 3] \/ row'[s] = [row[s] EXCEPT !.lapsed = FALSE]
        BY <1>8, <1>b DEF OdPick, OdStart, OdTimeout, OdComplete, OdIncomplete, Heartbeat, table
      <4> QED BY <1>a, <1>b, <3>2, <4>1, KeepLease DEF RowType
    <3> QED BY <3>1, <3>2 DEF Holds
  <2> QED BY <2>2, HolderKept
<1>9. ASSUME NEW x \in Sources, Edit(x) \/ Hit(x) PROVE HolderInv'
  <2>1. UNCHANGED <<pc, todo, claims, lost>>
    BY <1>9 DEF Edit, Hit, cycle, history
  <2>2. ASSUME NEW w \in Workers, NEW s \in Sources, Active(w, s)'
        PROVE  Active(w, s) /\ (Holds(w, s) => Holds(w, s)')
    <3>1. row'[s] = row[s] \/ row'[s] = [row[s] EXCEPT !.hot = TRUE]
      BY <1>9, <1>b DEF Edit, Hit, table
    <3>2. row'[s].owner = row[s].owner /\ row'[s].lapsed = row[s].lapsed
      BY <1>b, <3>1 DEF RowType
    <3> QED BY <2>1, <2>2, <3>2 DEF Active, Claimed, Holds
  <2> QED BY <2>2, HolderKept
<1>10. ASSUME NEW x \in Sources, Expire(x) \/ Stall(x) PROVE HolderInv'
  <2>1. /\ row' = [row EXCEPT ![x].lapsed = TRUE]
        /\ lost' = [w \in Workers |-> IF row[x].owner = w /\ x \in Claimed(w)
                                      THEN lost[w] \cup {x} ELSE lost[w]]
        /\ UNCHANGED <<pc, todo, claims>>
    BY <1>10 DEF Expire, Stall, Lapse, cycle
  <2>2. ASSUME NEW w \in Workers, NEW s \in Sources, Active(w, s)'
        PROVE  Active(w, s) /\ (Holds(w, s) => Holds(w, s)')
    <3>1. Active(w, s) /\ (s = x => row[x].owner # w)
      BY <2>1, <2>2 DEF Active, Claimed
    <3>2. s # x => row'[s] = row[s]
      BY <1>b, <2>1
    <3> QED BY <3>1, <3>2 DEF Holds
  <2> QED BY <2>2, HolderKept
<1>11. ASSUME NEW v \in Workers, Worker(v) PROVE HolderInv'
  BY <1>1, <1>2, <1>3, <1>4, <1>5, <1>6, <1>7, <1>8, <1>11 DEF Worker
<1>12. ASSUME NEW v \in Workers, Client(v) \/ Trouble(v) PROVE HolderInv'
  BY <1>4, <1>5, <1>8, <1>12 DEF Client, Answer, Trouble
<1> QED BY <1>9, <1>10, <1>11, <1>12 DEF Next

\* Only a lapsed lease or new content takes an item from the worker that claimed
\* it: claims, releases, passes, sweeps and on-demand compiles of the others do not.
THEOREM ClaimantHoldsItsItems == Spec => []HolderOwns
<1>1. Init => HolderInv
  <2>1. ASSUME Init, NEW w \in Workers PROVE Claimed(w) = {}
    BY <2>1 DEF Init, Claimed, NoClaims
  <2> QED BY <2>1 DEF HolderInv, Active
<1>2. TypeOK /\ HolderInv /\ [Next]_vars => HolderInv'
  <2>1. ASSUME TypeOK, HolderInv, UNCHANGED vars PROVE HolderInv'
    BY <2>1 DEF HolderInv, Active, Holds, Claimed, vars, table, cycle, history
  <2> QED BY <2>1, HolderStep
<1>3. TypeOK /\ HolderInv => HolderOwns
  <2> SUFFICES ASSUME TypeOK, HolderInv, NEW w \in Workers, NEW s \in Claimed(w) \ lost[w],
                      pc[w] # "release" \/ s \in todo[w]
               PROVE  row[s].owner = w
    BY DEF HolderOwns
  <2>1. s \in Sources
    BY ClaimedType DEF TypeOK
  <2> QED BY <2>1 DEF HolderInv, Active, Holds
<1> QED BY <1>1, <1>2, <1>3, TypeCorrect, PTL DEF Spec

-----------------------------------------------------------------------------
(* Dead letters. *)

\* A dead letter has no owner, so no operation but new content changes its status.
LEMMA DeadRow ==
  ASSUME NEW r, RowOK(r), r.status = "failed"
  PROVE  /\ \A h, t : Upserted(r, h, t).status = "failed" \/ Upserted(r, h, t).hash # r.hash
         /\ \A t, w : ~Claimable(r, t, w)
         /\ \A w \in Workers : \A o : Released(r, w, o) = r
         /\ Requeued(r) = r
         /\ \A p : Marked(r, p).status = "failed"
         /\ Erred(r).status = "failed" /\ Promoted(r).status = "failed"
<1>1. r.owner = Nobody /\ r.status # "leased"
  BY DEF RowOK
<1>2. ASSUME NEW h, NEW t
      PROVE  Upserted(r, h, t).status = "failed" \/ Upserted(r, h, t).hash # r.hash
  BY DEF Upserted, NoRow, RowOK, RowType
<1>3. \A w \in Workers : \A o : Released(r, w, o) = r
  BY <1>1, QueueAssumption DEF Released
<1> QED
  BY <1>1, <1>2, <1>3 DEF Claimable, Requeued, Marked, Erred, Promoted, RowOK, RowType

LEMMA DeadStep ==
  ASSUME TypeOK, Next, NEW s \in Sources, row[s].status = "failed"
  PROVE  row'[s].status = "failed" \/ row'[s].hash # row[s].hash
<1> DEFINE Stays == row'[s].status = "failed" \/ row'[s].hash # row[s].hash
<1>a. RowOK(row[s]) /\ row \in [Sources -> RowType]
  BY RowsRows DEF TypeOK
<1>1. ASSUME NEW w \in Workers, Begin(w) \/ Skip(w) PROVE Stays
  BY <1>1, <1>a, DeadRow DEF Begin, Skip, Requeue
<1>2. ASSUME NEW w \in Workers, NEW x \in Sources, Upsert(w, x) PROVE Stays
  BY <1>2, <1>a, DeadRow DEF Upsert
<1>3. ASSUME NEW w \in Workers, NEW t \in Tiers, Claim(w, t) PROVE Stays
  BY <1>3, <1>a, DeadRow DEF Claim
<1>4. ASSUME NEW w \in Workers, NEW x \in Sources, Release(w, x) PROVE Stays
  <2>1. PICK o : row' = [row EXCEPT ![x] = Released(@, w, o)]
    BY <1>4 DEF Release
  <2> QED BY <1>a, <2>1, DeadRow
<1>5. ASSUME NEW w \in Workers, NEW x \in Sources,
             Index(w, x) \/ Embed(w, x) \/ PassFails(w, x) \/ EmbedFails(w, x)
      PROVE  Stays
  BY <1>5, <1>a, DeadRow DEF Index, Embed, PassFails, EmbedFails
<1>6. ASSUME NEW w \in Workers, Complete(w) \/ Finish(w) \/ SaveFails(w) \/ OdComplete(w)
      PROVE  Stays
  BY <1>6, <1>a, DeadRow DEF Complete, Finish, SaveFails, OdComplete
<1>7. ASSUME NEW w \in Workers, Heartbeat(w) \/ Crash(w) PROVE Stays
  BY <1>7, <1>a DEF Heartbeat, Crash, RowType
<1>8. ASSUME NEW w \in Workers, NEW x \in Sources, OdPick(w, x) PROVE Stays
  BY <1>8, <1>a DEF OdPick, RowType
<1>9. ASSUME NEW x \in Sources, Hit(x) \/ Expire(x) \/ Stall(x) PROVE Stays
  BY <1>9, <1>a DEF Hit, Expire, Stall, Lapse, RowType
<1>10. ASSUME NEW w \in Workers,
              \/ Read(w) \/ PassDone(w) \/ Summarize(w) \/ Incomplete(w) \/ Panic(w)
              \/ OdStart(w) \/ OdTimeout(w) \/ OdIncomplete(w)
              \/ \E t \in Tiers : ClaimFails(w, t)
       PROVE  Stays
  BY <1>10 DEF Read, PassDone, Summarize, Incomplete, Panic, OdStart, OdTimeout,
     OdIncomplete, ClaimFails, table
<1>11. ASSUME NEW x \in Sources, Edit(x) PROVE Stays
  BY <1>11 DEF Edit, table
<1>12. ASSUME NEW w \in Workers, Worker(w) PROVE Stays
  BY <1>1, <1>2, <1>3, <1>4, <1>5, <1>6, <1>7, <1>10, <1>12 DEF Worker
<1>13. ASSUME NEW w \in Workers, Client(w) \/ Trouble(w) PROVE Stays
  BY <1>5, <1>6, <1>7, <1>8, <1>10, <1>13 DEF Client, Answer, Trouble
<1> QED BY <1>9, <1>11, <1>12, <1>13 DEF Next

\* A dead letter stays one until its content changes.
THEOREM DeadLettersStayDead == Spec => DeadLettersStay
<1>1. TypeOK /\ [Next]_vars =>
        [\A s \in Sources : row[s].status = "failed" =>
           row'[s].status = "failed" \/ row'[s].hash # row[s].hash]_vars
  BY DeadStep
<1> QED BY <1>1, TypeCorrect, PTL DEF Spec, DeadLettersStay

-----------------------------------------------------------------------------
(* One process.  What a row says of its content, and the budget of its       *)
(* attempts, are kept by the order of a cycle: content is read after it was  *)
(* hashed, and a row is reset only before it is claimed.                     *)

Alone == \A u, v \in Workers : u = v

Spent(n, s) == failed[s] >= n \/ failed[s] >= MaxAttempts

BudgetInv ==
  /\ failed \in [Sources -> Nat]
  /\ \A s \in Sources :
       /\ Spent(row[s].attempts, s)
       /\ row[s].status = "failed" => failed[s] >= MaxAttempts
  /\ \A w \in Workers :
       /\ pc[w] \in {"idle", "again", "upsert"} => claims[w] = NoClaims
       /\ \A t \in Tiers : \A s \in DOMAIN claims[w][t] :
            pc[w] # "release" \/ s \in todo[w] => Spent(claims[w][t][s].attempts, s)

-----------------------------------------------------------------------------
(* The budget of attempts. *)

SpentNext(n, s) == failed'[s] >= n \/ failed'[s] >= MaxAttempts

\* No operation but a release gives attempts, or a dead letter, to a row.
LEMMA AttemptsKept ==
  ASSUME NEW r, RowOK(r), NEW w \in Workers
  PROVE  /\ Requeued(r).attempts = r.attempts
         /\ Requeued(r).status = "failed" => r.status = "failed"
         /\ Leased(r, w).attempts = r.attempts /\ Leased(r, w).status = "leased"
         /\ \A p : Marked(r, p).attempts = r.attempts /\ Marked(r, p).status = r.status
         /\ Erred(r).attempts = r.attempts /\ Erred(r).status = r.status
         /\ Promoted(r).attempts = r.attempts /\ Promoted(r).status = r.status
  BY DEF RowOK, RowType, Requeued, Unleased, Leased, Marked, Erred, Promoted

LEMMA UpsertedAttempts ==
  ASSUME NEW r, RowOK(r), NEW h, NEW t
  PROVE  /\ h = r.hash => Upserted(r, h, t).attempts = r.attempts
                          /\ Upserted(r, h, t).status = r.status
         /\ h # r.hash => Upserted(r, h, t).attempts = 0 /\ Upserted(r, h, t).status = "pending"
  BY DEF RowOK, RowType, Upserted, NoRow

LEMMA ReleasedAttempts ==
  ASSUME NEW r, RowOK(r), NEW w, NEW o, r.owner = w
  PROVE  /\ o = "retry" => Released(r, w, o).attempts = r.attempts + 1
                           /\ Released(r, w, o).status = "pending"
         /\ o # "retry" => Released(r, w, o).attempts = 0
         /\ o # "failed" => Released(r, w, o).status # "failed"
<1> DEFINE st == IF o = "failed" THEN "failed" ELSE IF TierComplete(r) THEN "done" ELSE "pending"
<1>1. /\ Unleased(r, "pending") \in RowType /\ Unleased(r, "pending").attempts = r.attempts
      /\ Unleased(r, "pending").status = "pending"
  BY UnleasedOK DEF RowOK, RowType, Unleased
<1>2. Unleased(r, st) \in RowType /\ Unleased(r, st).status = st
  <2>1. RowOK(Unleased(r, st))
    BY UnleasedOK
  <2> HIDE DEF st
  <2> QED BY <2>1 DEF RowOK, RowType, Unleased
<1>3. CASE o = "retry"
  BY <1>1, <1>3 DEF Released, RowType
<1>4. CASE o # "retry"
  <2>1. Released(r, w, o) = [Unleased(r, st) EXCEPT !.attempts = 0]
    BY <1>4 DEF Released
  <2>2. o # "failed" => st # "failed"
    OBVIOUS
  <2> HIDE DEF st
  <2> QED BY <1>2, <1>4, <2>1, <2>2 DEF RowType
<1> QED BY <1>3, <1>4

\* Nothing happens that the budget depends on.
LEMMA BudgetKept ==
  ASSUME BudgetInv, UNCHANGED <<failed, claims>>,
         \A s \in Sources :
           /\ row'[s].attempts = row[s].attempts
           /\ row'[s].status = "failed" => row[s].status = "failed",
         \A w \in Workers :
           /\ pc'[w] \in {"idle", "again", "upsert"} => pc[w] \in {"idle", "again", "upsert"}
           /\ \A s : pc'[w] # "release" \/ s \in todo'[w] => pc[w] # "release" \/ s \in todo[w]
  PROVE  BudgetInv'
  BY DEF BudgetInv, Spent, SpentNext

\* The claims are dropped.
LEMMA BudgetLeft ==
  ASSUME Alone, ClaimsOK, BudgetInv, NEW v \in Workers, NEW st, Leave(v, st), UNCHANGED failed,
         \A s \in Sources :
           /\ row'[s].attempts = row[s].attempts
           /\ row'[s].status = "failed" => row[s].status = "failed"
  PROVE  BudgetInv'
<1>1. \A w \in Workers : claims'[w] = NoClaims
  BY DEF Leave, Alone, ClaimsOK
<1>2. \A t \in Tiers : DOMAIN NoClaims[t] = {}
  BY DEF NoClaims
<1> QED BY <1>1, <1>2 DEF BudgetInv, Spent, SpentNext

LEMMA BudgetStep ==
  ASSUME Alone, TypeOK, BudgetInv, Next
  PROVE  BudgetInv'
<1>a. \A s \in Sources : RowOK(row[s])
  BY RowsRows DEF TypeOK
<1>b. /\ row \in [Sources -> RowType] /\ pc \in [Workers -> Steps] /\ ClaimsOK
      /\ todo \in [Workers -> SUBSET Sources] /\ MaxAttempts \in Nat
  BY QueueAssumption DEF TypeOK, RowsOK, CyclesOK
<1> DEFINE Still ==
      \A s \in Sources : /\ row'[s].attempts = row[s].attempts
                         /\ row'[s].status = "failed" => row[s].status = "failed"
<1>1. ASSUME NEW v \in Workers, Begin(v) \/ Skip(v) PROVE BudgetInv'
  <2>1. UNCHANGED <<failed, claims>> /\ pc[v] \in {"idle", "again"}
        /\ pc' = [pc EXCEPT ![v] = pc'[v]] /\ pc'[v] \in {"idle", "upsert"}
    BY <1>1, <1>b DEF Begin, Skip, history
  <2>2. Still
    BY <1>1, <1>a, AttemptsKept DEF Begin, Skip, Requeue
  <2>3. \A w \in Workers \ {v} : todo'[w] = todo[w]
    BY <1>1, <1>b DEF Begin, Skip
  <2> QED BY <1>b, <2>1, <2>2, <2>3, BudgetKept
<1>2. ASSUME NEW v \in Workers, NEW x \in Sources, Upsert(v, x) PROVE BudgetInv'
  <2>1. /\ row' = [row EXCEPT ![x] = Upserted(@, got[v][x], DefaultTier[x])]
        /\ failed' = [failed EXCEPT ![x] = IF row[x].hash # got[v][x] THEN 0 ELSE @]
        /\ pc[v] = "upsert" /\ UNCHANGED <<pc, claims>>
    BY <1>2 DEF Upsert
  <2>2. \A w \in Workers : pc[w] = "upsert" /\ claims[w] = NoClaims
    BY <2>1 DEF Alone, BudgetInv
  <2>3. \A t \in Tiers : DOMAIN NoClaims[t] = {}
    BY DEF NoClaims
  <2>4. ASSUME NEW s \in Sources
        PROVE  /\ SpentNext(row'[s].attempts, s) /\ (row'[s].status = "failed" => failed'[s] >= MaxAttempts)
    <3>1. CASE s # x \/ row[x].hash = got[v][x]
      <4>1. row'[s].attempts = row[s].attempts /\ row'[s].status = row[s].status
        BY <1>a, <1>b, <2>1, <3>1, UpsertedAttempts
      <4>2. failed'[s] = failed[s]
        BY <2>1, <3>1 DEF BudgetInv
      <4> QED BY <4>1, <4>2 DEF BudgetInv, Spent, SpentNext
    <3>2. CASE s = x /\ row[x].hash # got[v][x]
      <4>1. row'[s].attempts = 0 /\ row'[s].status = "pending"
        BY <1>a, <1>b, <2>1, <3>2, UpsertedAttempts
      <4>2. failed'[s] = 0
        BY <2>1, <3>2 DEF BudgetInv
      <4> QED BY <4>1, <4>2 DEF Spent, SpentNext
    <3> QED BY <3>1, <3>2
  <2>5. failed' \in [Sources -> Nat]
    BY <2>1 DEF BudgetInv
  <2> QED BY <2>1, <2>2, <2>3, <2>4, <2>5 DEF BudgetInv, Spent, SpentNext
<1>3. ASSUME NEW v \in Workers, NEW t \in Tiers, Claim(v, t) PROVE BudgetInv'
  <2> DEFINE items == {s \in Sources : Claimable(row[s], t, v)}
             mine  == [s \in items |-> Leased(row[s], v)]
  <2>1. /\ row' = [s \in Sources |-> IF s \in items THEN Leased(row[s], v) ELSE row[s]]
        /\ UNCHANGED failed /\ pc[v] # "release"
    BY <1>3 DEF Claim, ClaimStep
  <2>2. Still
    BY <1>a, <2>1, AttemptsKept
  <2>3. CASE Leave(v, "idle")
    BY <1>b, <2>1, <2>2, <2>3, BudgetLeft
  <2>4. CASE /\ claims' = [claims EXCEPT ![v][t] = mine]
             /\ pc' = [pc EXCEPT ![v] = pc'[v]] /\ pc'[v] \in {"claim1", "claim3", "index0"}
    <3>1. \A w \in Workers : w = v
      BY DEF Alone
    <3>2. DOMAIN mine = items /\ \A s \in items : mine[s].attempts = row[s].attempts
      BY <1>a, AttemptsKept
    <3>3. \A s \in items : SpentNext(mine[s].attempts, s)
      BY <2>1, <3>2 DEF BudgetInv, Spent, SpentNext
    <3> HIDE DEF mine, items
    <3>4. claims'[v][t] = mine /\ \A u \in Tiers \ {t} : claims'[v][u] = claims[v][u]
      BY <1>b, <2>4 DEF ClaimsOK
    <3>5. ASSUME NEW u \in Tiers, NEW s \in DOMAIN claims'[v][u]
          PROVE  SpentNext(claims'[v][u][s].attempts, s)
      <4>1. CASE u = t
        BY <3>2, <3>3, <3>4, <3>5, <4>1 DEF Spent, SpentNext
      <4>2. CASE u # t
        BY <2>1, <3>4, <3>5, <4>2 DEF BudgetInv, Spent, SpentNext
      <4> QED BY <4>1, <4>2
    <3>6. \A s \in Sources : /\ SpentNext(row'[s].attempts, s)
                             /\ row'[s].status = "failed" => failed'[s] >= MaxAttempts
      BY <2>1, <2>2 DEF BudgetInv, Spent, SpentNext
    <3>7. failed' \in [Sources -> Nat] /\ pc'[v] \notin {"idle", "again", "upsert"}
      BY <2>1, <2>4 DEF BudgetInv
    <3> QED BY <3>1, <3>5, <3>6, <3>7 DEF BudgetInv, Spent, SpentNext
  <2>5. \/ Leave(v, "idle")
        \/ /\ claims' = [claims EXCEPT ![v][t] = mine]
           /\ pc' = [pc EXCEPT ![v] = pc'[v]] /\ pc'[v] \in {"claim1", "claim3", "index0"}
    BY <1>3, <1>b DEF Claim, Enter, ClaimStep
  <2> QED BY <2>3, <2>4, <2>5
<1>4. ASSUME NEW v \in Workers,
             \/ Finish(v) \/ SaveFails(v) \/ Crash(v)
             \/ \E t \in Tiers : ClaimFails(v, t)
      PROVE  BudgetInv'
  <2>1. Still
    <3>1. \A s \in Sources : \/ row'[s] = Promoted(row[s]) \/ row'[s] = row[s]
                             \/ row'[s] = [row[s] EXCEPT !.owner = Gone]
      BY <1>4 DEF Finish, SaveFails, Crash, ClaimFails, table
    <3>2. \A s \in Sources : row[s] \in RowType
      BY <1>b
    <3>3. ASSUME NEW s \in Sources
          PROVE  row'[s].attempts = row[s].attempts /\ row'[s].status = row[s].status
      <4>1. row[s] \in RowType /\ RowOK(row[s])
        BY <1>a, <3>2
      <4>2. CASE row'[s] = Promoted(row[s])
        BY <4>1, <4>2, AttemptsKept
      <4>3. CASE row'[s] = row[s]
        BY <4>1, <4>3
      <4>4. CASE row'[s] = [row[s] EXCEPT !.owner = Gone]
        BY <4>1, <4>4 DEF RowType
      <4> QED BY <3>1, <4>2, <4>3, <4>4
    <3> QED BY <3>3
  <2>2. UNCHANGED failed /\ \E st : Leave(v, st)
    BY <1>4 DEF Finish, SaveFails, Crash, ClaimFails
  <2> QED BY <1>b, <2>1, <2>2, BudgetLeft
<1>5. ASSUME NEW v \in Workers, NEW x \in Sources,
             Index(v, x) \/ Embed(v, x) \/ PassFails(v, x) \/ EmbedFails(v, x)
      PROVE  BudgetInv'
  <2>1. /\ UNCHANGED <<failed, claims, pc>> /\ pc[v] # "release"
        /\ todo' = [todo EXCEPT ![v] = @ \ {x}]
        /\ \/ \E p : row' = [row EXCEPT ![x] = Marked(@, p)]
           \/ row' = [row EXCEPT ![x] = Erred(@)]
           \/ row' = row
    BY <1>5 DEF Index, Embed, PassFails, EmbedFails, Item
  <2>2. Still
    BY <1>a, <1>b, <2>1, AttemptsKept
  <2>3. \A w \in Workers \ {v} : todo'[w] = todo[w]
    BY <1>b, <2>1
  <2> QED BY <2>1, <2>2, <2>3, BudgetKept
<1>6. ASSUME NEW v \in Workers,
             \/ Read(v) \/ PassDone(v) \/ Panic(v) \/ Summarize(v) \/ Complete(v)
             \/ Incomplete(v)
      PROVE  BudgetInv'
  <2>1. /\ UNCHANGED <<failed, claims>> /\ pc[v] # "release"
        /\ \A s \in Sources : row'[s] = row[s] \/ row'[s] = Marked(row[s], "written")
    BY <1>6 DEF Read, PassDone, Panic, Summarize, Complete, Incomplete, Passes, table, history
  <2>2. Still
    BY <1>a, <2>1, AttemptsKept
  <2>3. /\ \A w \in Workers \ {v} : pc'[w] = pc[w] /\ todo'[w] = todo[w]
        /\ pc'[v] \in {"index1", "embed", "llm", "mark", "release"} \/ pc' = pc
    BY <1>6, <1>b DEF Read, PassDone, Panic, Summarize, Complete, Incomplete, Advance, After,
       Enter
  <2> QED BY <2>1, <2>2, <2>3, BudgetKept
<1>7. ASSUME NEW v \in Workers, NEW x \in Sources, Release(v, x) PROVE BudgetInv'
  <2>1. PICK t \in Tiers :
          /\ x \in DOMAIN claims[v][t]
          /\ row' = [row EXCEPT ![x] = Released(@, v, Outcome(v, x, t))]
          /\ failed' = [failed EXCEPT ![x] = IF row[x].owner # v THEN @
                                             ELSE IF Outcome(v, x, t) = "done" THEN 0
                                             ELSE IF @ < MaxAttempts THEN @ + 1 ELSE @]
    BY <1>7 DEF Release
  <2>2. /\ pc[v] = "release" /\ x \in todo[v] /\ todo' = [todo EXCEPT ![v] = @ \ {x}]
        /\ UNCHANGED <<pc, claims>>
    BY <1>7 DEF Release
  <2> DEFINE o == Outcome(v, x, t)
             n == claims[v][t][x].attempts
  <2>3. n \in Nat /\ failed[x] \in Nat /\ row[x].attempts \in Nat
        /\ Spent(n, x) /\ Spent(row[x].attempts, x)
    <3>1. claims[v][t][x] \in RowType
      BY <1>b, <2>1 DEF ClaimsOK
    <3>2. row[x] \in RowType
      BY <1>b
    <3> QED BY <2>1, <2>2, <3>1, <3>2 DEF BudgetInv, RowType
  <2>4. /\ o \in {"done", "retry", "failed"}
        /\ o = "failed" => n + 1 >= MaxAttempts
    BY DEF Outcome
  <2>5. \A w \in Workers : w = v
    BY DEF Alone
  <2>6. CASE row[x].owner # v
    <3>1. row' = row /\ failed' = failed
      BY <1>b, <2>1, <2>6 DEF Released, BudgetInv
    <3> QED BY <2>2, <2>5, <3>1, BudgetKept, <1>b
  <2>7. CASE row[x].owner = v
    <3>1. failed'[x] = IF o = "done" THEN 0 ELSE IF failed[x] < MaxAttempts THEN failed[x] + 1 ELSE failed[x]
      BY <2>1, <2>7 DEF BudgetInv
    <3>2. \A s \in Sources \ {x} : row'[s] = row[s] /\ failed'[s] = failed[s]
      BY <1>b, <2>1 DEF BudgetInv
    <3>3. row'[x] = Released(row[x], v, o)
      BY <1>b, <2>1
    <3> HIDE DEF o, n
    <3>4. /\ o = "retry" => row'[x].attempts = row[x].attempts + 1
          /\ o # "retry" => row'[x].attempts = 0
          /\ o # "failed" => row'[x].status # "failed"
      <4>1. RowOK(row[x])
        BY <1>a
      <4>2. row'[x] = Released(row[x], v, o)
        BY <3>3 DEF o
      <4>3. \A r, w, k : RowOK(r) /\ r.owner = w =>
              /\ k = "retry" => Released(r, w, k).attempts = r.attempts + 1
              /\ k # "retry" => Released(r, w, k).attempts = 0
              /\ k # "failed" => Released(r, w, k).status # "failed"
        BY ReleasedAttempts
      <4>4. RowOK(row[x]) /\ row[x].owner = v
        BY <2>7, <4>1
      <4>5. /\ o = "retry" => Released(row[x], v, o).attempts = row[x].attempts + 1
            /\ o # "retry" => Released(row[x], v, o).attempts = 0
            /\ o # "failed" => Released(row[x], v, o).status # "failed"
        BY ONLY <4>3, <4>4
      <4> QED BY ONLY <4>2, <4>5
    <3>5. /\ SpentNext(row'[x].attempts, x) /\ (row'[x].status = "failed" => failed'[x] >= MaxAttempts)
          /\ failed'[x] \in Nat
      <4>1. CASE o = "done"
        BY <3>1, <3>4, <4>1 DEF Spent, SpentNext
      <4>2. CASE o = "retry"
        BY <1>b, <2>3, <3>1, <3>4, <4>2 DEF Spent, SpentNext
      <4>3. CASE o = "failed"
        BY <1>b, <2>3, <2>4, <3>1, <3>4, <4>3 DEF Spent, SpentNext
      <4> QED BY <2>4, <4>1, <4>2, <4>3
    <3>6. failed' \in [Sources -> Nat]
      <4>1. DOMAIN failed' = Sources /\ failed' = [s \in Sources |-> failed'[s]]
        BY <2>1 DEF BudgetInv
      <4> QED BY <3>2, <3>5, <4>1 DEF BudgetInv
    <3>7. \A s \in Sources : /\ SpentNext(row'[s].attempts, s)
                             /\ row'[s].status = "failed" => failed'[s] >= MaxAttempts
      BY <3>2, <3>5 DEF BudgetInv, Spent, SpentNext
    <3>8. \A s \in todo'[v] : s # x /\ s \in todo[v] /\ s \in Sources
      BY <1>b, <2>2
    <3>9. ASSUME NEW u \in Tiers, NEW s \in DOMAIN claims[v][u], s \in todo'[v]
          PROVE  SpentNext(claims[v][u][s].attempts, s)
      BY <2>2, <3>2, <3>8, <3>9 DEF BudgetInv, Spent, SpentNext
    <3> QED BY <2>2, <2>5, <3>6, <3>7, <3>9 DEF BudgetInv, Spent, SpentNext
  <2> QED BY <2>6, <2>7
<1>8. ASSUME NEW v \in Workers,
             \/ OdStart(v) \/ OdTimeout(v) \/ OdComplete(v) \/ OdIncomplete(v) \/ Heartbeat(v)
             \/ \E x \in Sources : OdPick(v, x)
      PROVE  BudgetInv'
  <2>1. UNCHANGED <<pc, todo, claims, failed>>
    BY <1>8 DEF OdPick, OdStart, OdTimeout, OdComplete, OdIncomplete, Heartbeat, cycle, history
  <2>2. Still
    <3>1. \A s \in Sources :
            \/ row'[s] = row[s] \/ row'[s] = Marked(row[s], "written")
            \/ row'[s] = [row[s] EXCEPT !.tier = 3] \/ row'[s] = [row[s] EXCEPT !.lapsed = FALSE]
      BY <1>8, <1>b DEF OdPick, OdStart, OdTimeout, OdComplete, OdIncomplete, Heartbeat, table
    <3>2. \A s \in Sources : row[s] \in RowType
      BY <1>b
    <3>3. ASSUME NEW s \in Sources
          PROVE  row'[s].attempts = row[s].attempts /\ row'[s].status = row[s].status
      <4>1. row[s] \in RowType /\ RowOK(row[s])
        BY <1>a, <3>2
      <4>2. CASE row'[s] = row[s]
        BY <4>1, <4>2
      <4>3. CASE row'[s] = Marked(row[s], "written")
        BY <4>1, <4>3, AttemptsKept
      <4>4. CASE row'[s] = [row[s] EXCEPT !.tier = 3]
        BY <4>1, <4>4 DEF RowType
      <4>5. CASE row'[s] = [row[s] EXCEPT !.lapsed = FALSE]
        BY <4>1, <4>5 DEF RowType
      <4> QED BY <3>1, <4>2, <4>3, <4>4, <4>5
    <3> QED BY <3>3
  <2> QED BY <2>1, <2>2, BudgetKept
<1>9. ASSUME NEW x \in Sources, Edit(x) \/ Hit(x) \/ Expire(x) \/ Stall(x) PROVE BudgetInv'
  <2>1. UNCHANGED <<pc, todo, claims, failed>>
    BY <1>9 DEF Edit, Hit, Expire, Stall, Lapse, cycle, history
  <2>2. Still
    <3>1. \A s \in Sources :
            \/ row'[s] = row[s] \/ row'[s] = [row[s] EXCEPT !.hot = TRUE]
            \/ row'[s] = [row[s] EXCEPT !.lapsed = TRUE]
      BY <1>9, <1>b DEF Edit, Hit, Expire, Stall, Lapse, table
    <3>2. \A s \in Sources : row[s] \in RowType
      BY <1>b
    <3>3. ASSUME NEW s \in Sources
          PROVE  row'[s].attempts = row[s].attempts /\ row'[s].status = row[s].status
      <4>1. row[s] \in RowType /\ RowOK(row[s])
        BY <1>a, <3>2
      <4>2. CASE row'[s] = row[s]
        BY <4>1, <4>2
      <4>3. CASE row'[s] = [row[s] EXCEPT !.hot = TRUE]
        BY <4>1, <4>3 DEF RowType
      <4>4. CASE row'[s] = [row[s] EXCEPT !.lapsed = TRUE]
        BY <4>1, <4>4 DEF RowType
      <4> QED BY <3>1, <4>2, <4>3, <4>4
    <3> QED BY <3>3
  <2> QED BY <2>1, <2>2, BudgetKept
<1> HIDE DEF Still
<1>10. ASSUME NEW v \in Workers, Worker(v) PROVE BudgetInv'
  BY <1>1, <1>2, <1>3, <1>4, <1>5, <1>6, <1>7, <1>8, <1>10 DEF Worker
<1>11. ASSUME NEW v \in Workers, Client(v) \/ Trouble(v) PROVE BudgetInv'
  BY <1>4, <1>5, <1>8, <1>11 DEF Client, Answer, Trouble
<1> QED BY <1>9, <1>10, <1>11 DEF Next

\* With one process, an item is dead-lettered only when its present content has had all the
\* attempts it is due, although the release takes the count from the claim (releaseClaims,
\* worker_cycle.go): no other cycle has reset or charged the row since.
THEOREM DeadLettersAreDue == ASSUME Alone PROVE Spec => []DeadLetterOnlyAfterBudget
<1>1. Init => BudgetInv
  <2> SUFFICES ASSUME Init PROVE BudgetInv
    OBVIOUS
  <2>1. NoRow.attempts = 0 /\ NoRow.status = "pending"
    BY DEF NoRow
  <2>2. \A t \in Tiers : DOMAIN NoClaims[t] = {}
    BY DEF NoClaims
  <2> QED BY <2>1, <2>2 DEF Init, BudgetInv, Spent, NoVersion
<1>2. TypeOK /\ BudgetInv /\ [Next]_vars => BudgetInv'
  <2>1. ASSUME BudgetInv, UNCHANGED vars PROVE BudgetInv'
    BY <2>1 DEF BudgetInv, Spent, vars, table, cycle, history
  <2> QED BY <2>1, BudgetStep
<1>3. BudgetInv => DeadLetterOnlyAfterBudget
  BY DEF BudgetInv, DeadLetterOnlyAfterBudget
<1> QED BY <1>1, <1>2, <1>3, TypeCorrect, PTL DEF Spec

\* A source that on-demand compiles ask for is of tier 3 anyway: no summary is older than
\* the row of a source that is only indexed.
DemandIsForPapers == \A s \in OnDemand : DefaultTier[s] = 3

HashesAreRead == \A s \in Sources : disk[s] >= 1 /\ row[s].hash <= disk[s]

FlagsAreEarned ==
  \A s \in Sources :
    /\ "indexed" \in row[s].flags => raw[s] >= row[s].hash \/ DefaultTier[s] = 3
    /\ "embedded" \in row[s].flags => vec[s] >= row[s].hash
    /\ "written" \in row[s].flags => summary[s] >= row[s].hash

TiersAreKept ==
  \A s \in Sources :
    IF DefaultTier[s] = 3 THEN row[s].hash # 0 => row[s].tier = 3
    ELSE summary[s] = 0 /\ manifest[s] = 0

\* Only papers are claimed for the LLM pipeline.
PapersAreWritten ==
  \A w \in Workers :
    /\ \A s \in Sources : DefaultTier[s] # 3 =>
         /\ s \notin DOMAIN claims[w][3] /\ ours[w][s] = 0
         /\ pc[w] \in {"claim1", "claim3"} \/ (pc[w] = "upsert" /\ s \notin todo[w])
              => row[s].tier # 3

ReadsAreCurrent ==
  \A w \in Workers : \A s \in Sources :
    /\ pc[w] = "upsert" => got[w][s] <= disk[s]
    /\ pc[w] \in Passes /\ got[w] # NoVersion /\ s \in todo[w] => got[w][s] >= row[s].hash
    /\ pc[w] = "mark" /\ s \in todo[w] => summary[s] >= row[s].hash

\* What is still to be embedded has no vectors that are counted on.
EmbedsOnce ==
  \A w \in Workers : \A s \in Sources :
    \/ s \in DOMAIN claims[w][1] /\ pc[w] \in {"claim3", "index0", "index1"}
    \/ pc[w] = "embed" /\ s \in todo[w]
    => "embedded" \notin row[s].flags

DemandWaits ==
  \A w \in Workers :
    /\ od[w].pc # "none" => od[w].src \in OnDemand
    /\ od[w].pc = "run" => pc[w] \in {"idle", "again"} /\ od[w].got >= row[od[w].src].hash

CurrentInv ==
  HashesAreRead /\ FlagsAreEarned /\ TiersAreKept /\ PapersAreWritten /\ ReadsAreCurrent
  /\ EmbedsOnce /\ DemandWaits

-----------------------------------------------------------------------------
(* What the queue calls settled is current. *)

LEMMA ContentKept ==
  ASSUME NEW r, RowOK(r), NEW w, NEW o
  PROVE  /\ Requeued(r).hash = r.hash /\ Requeued(r).flags = r.flags /\ Requeued(r).tier = r.tier
         /\ Leased(r, w).hash = r.hash /\ Leased(r, w).flags = r.flags /\ Leased(r, w).tier = r.tier
         /\ Erred(r).hash = r.hash /\ Erred(r).flags = r.flags /\ Erred(r).tier = r.tier
         /\ Released(r, w, o).hash = r.hash /\ Released(r, w, o).flags = r.flags
         /\ Released(r, w, o).tier = r.tier
  BY DEF RowOK, RowType, Requeued, Unleased, Leased, Erred, Released

LEMMA ContentMarked ==
  ASSUME NEW r, RowOK(r), NEW p
  PROVE  /\ Marked(r, p).hash = r.hash /\ Marked(r, p).flags = r.flags \cup {p}
         /\ Marked(r, p).tier = r.tier
         /\ Promoted(r).hash = r.hash /\ Promoted(r).flags = r.flags /\ Promoted(r).tier \in {r.tier, 3}
  BY DEF RowOK, RowType, Marked, Promoted

LEMMA ContentUpserted ==
  ASSUME NEW r, RowOK(r), NEW h, NEW t
  PROVE  /\ Upserted(r, h, t).hash = h /\ Upserted(r, h, t).tier = t
         /\ h = r.hash => Upserted(r, h, t).flags = r.flags
         /\ h # r.hash => Upserted(r, h, t).flags = {}
  BY DEF RowOK, RowType, Upserted, NoRow

Same(s) == row'[s].hash = row[s].hash /\ row'[s].flags = row[s].flags

TableInv == HashesAreRead /\ FlagsAreEarned /\ TiersAreKept
CycleInv == PapersAreWritten /\ ReadsAreCurrent /\ EmbedsOnce /\ DemandWaits

LEMMA TableKept ==
  ASSUME TypeOK, TableInv, \A s \in Sources : Same(s) /\ row'[s].tier \in {row[s].tier, 3},
         \A s \in Sources : disk'[s] \in Nat /\ disk'[s] >= disk[s],
         UNCHANGED <<manifest, raw, vec, summary>>
  PROVE  TableInv'
<1>1. \A s \in Sources : disk[s] \in Nat /\ row[s].hash \in Nat
  BY DEF TypeOK, FilesOK, RowsOK, RowType
<1>2. HashesAreRead'
  BY <1>1 DEF TableInv, HashesAreRead, Same
<1>3. FlagsAreEarned'
  BY DEF TableInv, FlagsAreEarned, Same
<1>4. TiersAreKept'
  BY DEF TableInv, TiersAreKept, Same
<1> QED BY <1>2, <1>3, <1>4 DEF TableInv

\* The cycle goes nowhere, or deals with an item.
LEMMA CycleKept ==
  ASSUME TypeOK, CycleInv, \A s \in Sources : Same(s) /\ row'[s].tier = row[s].tier,
         \A s \in Sources : disk'[s] \in Nat /\ disk'[s] >= disk[s],
         UNCHANGED <<pc, claims, got, ours, summary, od>>,
         \A w \in Workers : todo'[w] \subseteq todo[w] /\ (pc[w] = "upsert" => todo'[w] = todo[w])
  PROVE  CycleInv'
<1>0. \A s \in Sources : disk[s] \in Nat /\ \A w \in Workers : got[w][s] \in Nat
  BY DEF TypeOK, FilesOK, CyclesOK
<1>1. PapersAreWritten'
  BY DEF CycleInv, PapersAreWritten
<1>2. ReadsAreCurrent'
  BY <1>0 DEF CycleInv, ReadsAreCurrent, Same
<1>3. EmbedsOnce'
  BY DEF CycleInv, EmbedsOnce, Same
<1>4. DemandWaits'
  <2>1. \A w \in Workers : od[w].pc = "run" => od[w].src \in Sources
    BY DEF TypeOK, RequestsOK, RequestType, NoRequest
  <2> QED BY <2>1 DEF CycleInv, DemandWaits, Same
<1> QED BY <1>1, <1>2, <1>3, <1>4 DEF CycleInv

\* The cycle is over.
LEMMA CycleLeft ==
  ASSUME Alone, TypeOK, CycleInv, NEW v \in Workers, NEW st \in {"idle", "again"}, Leave(v, st),
         \A s \in Sources : Same(s),
         \A w \in Workers : od'[w] = od[w] \/ od'[w] = NoRequest
  PROVE  CycleInv'
<1>0. /\ pc \in [Workers -> Steps] /\ ours \in [Workers -> [Sources -> Nat]]
      /\ claims = [w \in Workers |-> [t \in Tiers |-> claims[w][t]]]
  BY DEF TypeOK, CyclesOK, ClaimsOK
<1>1. \A w \in Workers : w = v
  BY DEF Alone
<1>2. pc'[v] \in {"idle", "again"} /\ ours'[v] = NoVersion /\ claims'[v] = NoClaims
  BY <1>0 DEF Leave, Enter
<1>3. DOMAIN NoClaims[3] = {} /\ \A s \in Sources : NoVersion[s] = 0
  BY DEF NoClaims, NoVersion, Tiers
<1>4. PapersAreWritten'
  BY <1>1, <1>2, <1>3 DEF PapersAreWritten
<1>5. ReadsAreCurrent' /\ EmbedsOnce'
  BY <1>1, <1>2 DEF ReadsAreCurrent, EmbedsOnce, Passes
<1>6. DemandWaits'
  <2>1. \A w \in Workers : od[w].pc = "run" => od[w].src \in Sources
    BY DEF TypeOK, RequestsOK, RequestType, NoRequest
  <2>2. NoRequest.pc = "none"
    BY DEF NoRequest
  <2> QED BY <1>1, <1>2, <2>1, <2>2 DEF CycleInv, DemandWaits, Same
<1> QED BY <1>4, <1>5, <1>6 DEF CycleInv

\* The cycle goes on with a stage, of which nothing was read yet.
LEMMA CycleEnters ==
  ASSUME Alone, TypeOK, CycleInv, NEW v \in Workers, NEW T,
         NEW st \in {"claim1", "claim3", "index0", "index1", "embed", "llm", "release"},
         Enter(v, st, T),
         pc[v] \notin {"idle", "again"},
         \A s \in Sources : DefaultTier[s] # 3 =>
           /\ s \notin DOMAIN claims'[v][3] /\ ours'[v][s] = 0
           /\ st \in {"claim1", "claim3"} => row'[s].tier # 3,
         \A s \in Sources :
           \/ s \in DOMAIN claims'[v][1] /\ st \in {"claim3", "index0", "index1"}
           \/ st = "embed" /\ s \in T
           => "embedded" \notin row'[s].flags,
         UNCHANGED od
  PROVE  CycleInv'
<1>0. pc \in [Workers -> Steps] /\ got \in [Workers -> [Sources -> Nat]] /\ todo \in [Workers -> SUBSET Sources]
  BY DEF TypeOK, CyclesOK
<1>1. \A w \in Workers : w = v
  BY DEF Alone
<1>2. pc'[v] = st /\ got'[v] = NoVersion /\ todo'[v] = T
  BY <1>0 DEF Enter
<1>4. PapersAreWritten'
  BY <1>1, <1>2 DEF PapersAreWritten
<1>5. ReadsAreCurrent'
  BY <1>1, <1>2 DEF ReadsAreCurrent, NoVersion, Passes
<1>6. EmbedsOnce'
  BY <1>1, <1>2 DEF EmbedsOnce
<1>7. DemandWaits'
  <2>1. od[v].pc # "run"
    BY DEF CycleInv, DemandWaits
  <2> QED BY <1>1, <2>1 DEF CycleInv, DemandWaits
<1> QED BY <1>4, <1>5, <1>6, <1>7 DEF CycleInv

\* On from one stage of the indexing to the next.
LEMMA CycleAdvances ==
  ASSUME Alone, TypeOK, CycleInv, NEW v \in Workers, NEW skipped, NEW st,
         \/ (pc[v] = "index0" /\ st = "index1")
         \/ (pc[v] = "index1" /\ st = "embed")
         \/ (pc[v] \in {"index1", "embed"} /\ st = "llm"),
         Advance(v, st, skipped),
         UNCHANGED <<claims, ours, od, row>>
  PROVE  CycleInv'
<1>1. \A s \in Sources : DefaultTier[s] # 3 => s \notin DOMAIN claims[v][3] /\ ours[v][s] = 0
  BY DEF CycleInv, PapersAreWritten
<1>2. \A s \in Sources : s \in DOMAIN claims[v][1] /\ pc[v] \in {"index0", "index1"}
                         => "embedded" \notin row[s].flags
  BY DEF CycleInv, EmbedsOnce
<1>3. CASE st = "llm"
  <2>1. \E T : Enter(v, "llm", T) \/ Enter(v, "release", T)
    BY <1>3 DEF Advance
  <2>2. \A T : Enter(v, "llm", T) => CycleInv'
    BY <1>1, CycleEnters
  <2>3. \A T : Enter(v, "release", T) => CycleInv'
    BY <1>1, CycleEnters
  <2> QED BY <2>1, <2>2, <2>3
<1>4. CASE st = "index1"
  <2>1. PICK T : Enter(v, "index1", T)
    BY <1>4 DEF Advance
  <2> QED BY <1>1, <1>2, <1>4, <2>1, CycleEnters
<1>5. CASE st = "embed"
  <2>1. Enter(v, "embed", Work(v, "embed")) /\ Work(v, "embed") \subseteq DOMAIN claims[v][1]
    BY <1>5, ClaimedType DEF Advance, TypeOK, TierOf
  <2> QED BY <1>1, <1>2, <1>5, <2>1, CycleEnters
<1> QED BY <1>3, <1>4, <1>5

\* Whatever else becomes of a row, its content stays.
LEMMA ContentStays ==
  ASSUME TypeOK,
         \/ \E v \in Workers : Begin(v) \/ Skip(v) \/ Heartbeat(v) \/ Crash(v)
         \/ \E v \in Workers, t \in Tiers : Claim(v, t) \/ ClaimFails(v, t)
         \/ \E v \in Workers, x \in Sources : PassFails(v, x) \/ EmbedFails(v, x) \/ Release(v, x)
         \/ \E x \in Sources : Hit(x) \/ Expire(x) \/ Stall(x) \/ Edit(x)
  PROVE  \A s \in Sources : Same(s) /\ row'[s].tier = row[s].tier
<1>a. row \in [Sources -> RowType] /\ \A s \in Sources : RowOK(row[s])
  BY RowsRows DEF TypeOK, RowsOK
<1> DEFINE Plain(s) ==
      \/ row'[s] \in {row[s], Requeued(row[s]), Erred(row[s])}
      \/ \E w : row'[s] = Leased(row[s], w)
      \/ \E w, o : row'[s] = Released(row[s], w, o)
      \/ row'[s] \in {[row[s] EXCEPT !.owner = Gone], [row[s] EXCEPT !.hot = TRUE]}
      \/ \E b \in BOOLEAN : row'[s] = [row[s] EXCEPT !.lapsed = b]
<1>1. ASSUME NEW v \in Workers, Begin(v) \/ Skip(v) \/ Heartbeat(v) \/ Crash(v)
      PROVE  \A s \in Sources : Plain(s)
  BY <1>1 DEF Begin, Skip, Requeue, Heartbeat, Crash
<1>2. ASSUME NEW v \in Workers, NEW t \in Tiers, Claim(v, t) \/ ClaimFails(v, t)
      PROVE  \A s \in Sources : Plain(s)
  BY <1>2 DEF Claim, ClaimFails, table
<1>3. ASSUME NEW v \in Workers, NEW x \in Sources,
             PassFails(v, x) \/ EmbedFails(v, x) \/ Release(v, x)
      PROVE  \A s \in Sources : Plain(s)
  <2>1. \/ row' = row \/ row' = [row EXCEPT ![x] = Erred(@)]
        \/ \E o : row' = [row EXCEPT ![x] = Released(@, v, o)]
    BY <1>3 DEF PassFails, EmbedFails, Release
  <2>2. ASSUME NEW o, row' = [row EXCEPT ![x] = Released(@, v, o)]
        PROVE  \A s \in Sources : row'[s] \in {row[s], Released(row[s], v, o)}
    BY <1>a, <2>2
  <2> QED BY <1>a, <2>1, <2>2
<1>4. ASSUME NEW x \in Sources, Hit(x) \/ Expire(x) \/ Stall(x) \/ Edit(x)
      PROVE  \A s \in Sources : Plain(s)
  <2>1. \/ row' = row \/ row' = [row EXCEPT ![x].hot = TRUE]
        \/ row' = [row EXCEPT ![x].lapsed = TRUE]
    BY <1>4 DEF Hit, Expire, Stall, Lapse, Edit, table
  <2> QED BY <1>a, <2>1
<1>5. ASSUME NEW s \in Sources, Plain(s) PROVE Same(s) /\ row'[s].tier = row[s].tier
  <2>1. RowOK(row[s]) /\ row[s] \in RowType
    BY <1>a
  <2>2. CASE row'[s] \in {row[s], Requeued(row[s]), Erred(row[s])}
    BY <2>1, <2>2, ContentKept DEF Same
  <2>3. ASSUME NEW w, row'[s] = Leased(row[s], w) PROVE Same(s) /\ row'[s].tier = row[s].tier
    BY <2>1, <2>3, ContentKept DEF Same
  <2>4. ASSUME NEW w, NEW o, row'[s] = Released(row[s], w, o)
        PROVE  Same(s) /\ row'[s].tier = row[s].tier
    BY <2>1, <2>4, ContentKept DEF Same
  <2>5. CASE row'[s] \in {[row[s] EXCEPT !.owner = Gone], [row[s] EXCEPT !.hot = TRUE]}
    BY <2>1, <2>5 DEF Same, RowType
  <2>6. ASSUME NEW b \in BOOLEAN, row'[s] = [row[s] EXCEPT !.lapsed = b]
        PROVE  Same(s) /\ row'[s].tier = row[s].tier
    BY <2>1, <2>6 DEF Same, RowType
  <2> QED BY <1>5, <2>2, <2>3, <2>4, <2>5, <2>6
<1> HIDE DEF Plain
<1> QED BY <1>1, <1>2, <1>3, <1>4, <1>5

LEMMA FirstItem ==
  ASSUME NEW v \in Workers, NEW x \in Sources, Item(v, x)
  PROVE  x \in todo[v] /\ got[v] # NoVersion
<1>1. First(todo[v]) \in todo[v]
  BY DEF Item, First
<1>2. got[v][x] # 0 /\ NoVersion[x] = 0
  BY DEF Item, NoVersion
<1> QED BY <1>1, <1>2 DEF Item

-----------------------------------------------------------------------------
LEMMA TableStep ==
  ASSUME Alone, DemandIsForPapers, TypeOK, TableInv, CycleInv, Next
  PROVE  TableInv'
<1>a. /\ row \in [Sources -> RowType] /\ \A s \in Sources : RowOK(row[s]) /\ row[s].hash \in Nat
      /\ disk \in [Sources -> Nat] /\ raw \in [Sources -> Nat] /\ vec \in [Sources -> Nat]
      /\ summary \in [Sources -> Nat] /\ manifest \in [Sources -> Nat]
      /\ got \in [Workers -> [Sources -> Nat]]
  BY RowsRows DEF TypeOK, FilesOK, CyclesOK, RowsOK, RowType
<1>b. UNCHANGED disk => \A s \in Sources : disk'[s] \in Nat /\ disk'[s] >= disk[s]
  BY <1>a
<1> DEFINE Kept == \A s \in Sources : Same(s) /\ row'[s].tier \in {row[s].tier, 3}
<1>1. ASSUME NEW v \in Workers, Begin(v) \/ Skip(v) PROVE TableInv'
  BY <1>1, <1>b, ContentStays, TableKept DEF Begin, Skip, files
<1>2. ASSUME NEW v \in Workers, NEW x \in Sources, Upsert(v, x) PROVE TableInv'
  <2>1. /\ row' = [row EXCEPT ![x] = Upserted(@, got[v][x], DefaultTier[x])]
        /\ UNCHANGED <<disk, manifest, raw, vec, summary>> /\ pc[v] = "upsert"
    BY <1>2 DEF Upsert, files
  <2> DEFINE h == got[v][x]
             r == Upserted(row[x], h, DefaultTier[x])
  <2>2. /\ r.hash = h /\ r.tier = DefaultTier[x] /\ (h = row[x].hash => r.flags = row[x].flags)
        /\ (h # row[x].hash => r.flags = {})
    BY <1>a, ContentUpserted
  <2>3. h <= disk[x]
    BY <2>1 DEF CycleInv, ReadsAreCurrent
  <2>4. row'[x] = r /\ \A s \in Sources \ {x} : row'[s] = row[s]
    BY <1>a, <2>1
  <2> HIDE DEF r, h
  <2>5. HashesAreRead'
    BY <2>1, <2>2, <2>3, <2>4 DEF TableInv, HashesAreRead
  <2>6. FlagsAreEarned'
    <3>1. ASSUME NEW s \in Sources
          PROVE  /\ "indexed" \in row'[s].flags => raw[s] >= row'[s].hash \/ DefaultTier[s] = 3
                 /\ "embedded" \in row'[s].flags => vec[s] >= row'[s].hash
                 /\ "written" \in row'[s].flags => summary[s] >= row'[s].hash
      <4>1. CASE s # x
        BY <2>4, <4>1 DEF TableInv, FlagsAreEarned
      <4>2. CASE s = x /\ h = row[x].hash
        BY <2>2, <2>4, <4>2 DEF TableInv, FlagsAreEarned
      <4>3. CASE s = x /\ h # row[x].hash
        BY <2>2, <2>4, <4>3
      <4> QED BY <4>1, <4>2, <4>3
    <3> QED BY <2>1, <3>1 DEF FlagsAreEarned
  <2>7. TiersAreKept'
    BY <2>1, <2>2, <2>4 DEF TableInv, TiersAreKept
  <2> QED BY <2>5, <2>6, <2>7 DEF TableInv
<1>3. ASSUME NEW v \in Workers, NEW t \in Tiers, Claim(v, t) PROVE TableInv'
  BY <1>3, <1>b, ContentStays, TableKept DEF Claim, files
<1>4. ASSUME NEW v \in Workers, NEW x \in Sources, NEW p,
             \/ p = "indexed" /\ raw' = [raw EXCEPT ![x] = raw'[x]] /\ UNCHANGED vec
                /\ (raw'[x] >= row[x].hash \/ DefaultTier[x] = 3)
             \/ p = "embedded" /\ UNCHANGED raw /\ vec' = [vec EXCEPT ![x] = vec'[x]]
                /\ vec'[x] >= row[x].hash,
             row' = [row EXCEPT ![x] = Marked(@, p)],
             UNCHANGED <<disk, manifest, summary>>
      PROVE  TableInv'
  <2>1. /\ row'[x].hash = row[x].hash /\ row'[x].tier = row[x].tier
        /\ row'[x].flags = row[x].flags \cup {p}
        /\ \A s \in Sources \ {x} : row'[s] = row[s] /\ raw'[s] = raw[s] /\ vec'[s] = vec[s]
    BY <1>4, <1>a, ContentMarked
  <2>2. HashesAreRead'
    BY <1>4, <2>1 DEF TableInv, HashesAreRead
  <2>3. FlagsAreEarned'
    BY <1>4, <2>1 DEF TableInv, FlagsAreEarned
  <2>4. TiersAreKept'
    BY <1>4, <2>1 DEF TableInv, TiersAreKept
  <2> QED BY <2>2, <2>3, <2>4 DEF TableInv
<1>5. ASSUME NEW v \in Workers, NEW x \in Sources, Item(v, x), pc[v] \in Passes
      PROVE  got[v][x] >= row[x].hash
  BY <1>5, FirstItem DEF CycleInv, ReadsAreCurrent
<1>6. ASSUME NEW v \in Workers, NEW x \in Sources, Index(v, x) PROVE TableInv'
  <2>1. got[v][x] >= row[x].hash
    BY <1>5, <1>6 DEF Index, Passes
  <2>2. raw' = [raw EXCEPT ![x] = raw'[x]] /\ (raw'[x] >= row[x].hash \/ DefaultTier[x] = 3)
    BY <1>6, <1>a, <2>1 DEF Index, TableInv, TiersAreKept
  <2> QED BY <1>4, <1>6, <2>2 DEF Index, Item, files
<1>7. ASSUME NEW v \in Workers, NEW x \in Sources, Embed(v, x) PROVE TableInv'
  <2>1. got[v][x] >= row[x].hash
    BY <1>5, <1>7 DEF Embed, Passes
  <2>2. vec' = [vec EXCEPT ![x] = vec'[x]] /\ vec'[x] >= row[x].hash
    BY <1>7, <1>a, <2>1 DEF Embed
  <2> QED BY <1>4, <1>7, <2>2 DEF Embed, Item, files
<1>8. ASSUME NEW v \in Workers, NEW x \in Sources, EmbedFails(v, x) PROVE TableInv'
  <2>1. "embedded" \notin row[x].flags
    BY <1>8, FirstItem DEF EmbedFails, CycleInv, EmbedsOnce
  <2>2. UNCHANGED <<row, raw, disk, manifest, summary>> /\ vec' = [vec EXCEPT ![x] = 0]
    BY <1>8 DEF EmbedFails, Item, files
  <2>3. FlagsAreEarned'
    BY <1>a, <2>1, <2>2 DEF TableInv, FlagsAreEarned
  <2> QED BY <2>2, <2>3 DEF TableInv, HashesAreRead, TiersAreKept
<1>9. ASSUME NEW v \in Workers, NEW x \in Sources, PassFails(v, x) \/ Release(v, x)
      PROVE TableInv'
  BY <1>9, <1>b, ContentStays, TableKept DEF PassFails, Release, Item, files
<1>10. ASSUME NEW v \in Workers, Summarize(v) PROVE TableInv'
  <2>1. PICK Ok \in SUBSET todo[v] :
          summary' = [s \in Sources |-> IF s \in Ok THEN got[v][s] ELSE summary[s]]
    BY <1>10 DEF Summarize
  <2>2. pc[v] = "llm" /\ got[v] # NoVersion /\ UNCHANGED <<row, raw, vec, disk, manifest>>
    BY <1>10 DEF Summarize, files
  <2>3. \A s \in Ok : s \in Sources /\ s \in DOMAIN claims[v][3]
    BY <2>2 DEF TypeOK, CyclesOK
  <2>4. \A s \in Ok : DefaultTier[s] = 3 /\ got[v][s] >= row[s].hash
    BY <2>2, <2>3 DEF CycleInv, PapersAreWritten, ReadsAreCurrent, Passes
  <2>5. FlagsAreEarned' /\ TiersAreKept'
    BY <1>a, <2>1, <2>2, <2>4 DEF TableInv, FlagsAreEarned, TiersAreKept
  <2> QED BY <2>2, <2>5 DEF TableInv, HashesAreRead
<1>11. ASSUME NEW v \in Workers, Complete(v) PROVE TableInv'
  <2>1. /\ row' = [s \in Sources |-> IF s \in todo[v] THEN Marked(row[s], "written") ELSE row[s]]
        /\ pc[v] = "mark" /\ UNCHANGED <<disk, manifest, raw, vec, summary>>
    BY <1>11 DEF Complete, files
  <2>2. \A s \in Sources : /\ row'[s].hash = row[s].hash /\ row'[s].tier = row[s].tier
                           /\ row'[s].flags \subseteq row[s].flags \cup {"written"}
                           /\ "written" \in row'[s].flags => "written" \in row[s].flags \/ s \in todo[v]
    BY <1>a, <2>1, ContentMarked
  <2>3. \A s \in todo[v] : s \in Sources => summary[s] >= row[s].hash
    BY <2>1 DEF CycleInv, ReadsAreCurrent
  <2>4. FlagsAreEarned'
    BY <2>1, <2>2, <2>3 DEF TableInv, FlagsAreEarned
  <2> QED BY <2>1, <2>2, <2>4 DEF TableInv, HashesAreRead, TiersAreKept
<1>12. ASSUME NEW v \in Workers, Finish(v) PROVE TableInv'
  <2>1. /\ row' = [s \in Sources |-> Promoted(row[s])] /\ UNCHANGED <<disk, raw, vec, summary>>
        /\ manifest' = [s \in Sources |-> IF incomplete[v] \/ ours[v][s] = 0 THEN manifest[s]
                                          ELSE ours[v][s]]
    BY <1>12 DEF Finish
  <2>2. Kept
    BY <1>a, <2>1, ContentMarked DEF Same
  <2>3. \A s \in Sources : DefaultTier[s] # 3 => manifest'[s] = manifest[s]
    BY <2>1 DEF CycleInv, PapersAreWritten
  <2>4. HashesAreRead' /\ FlagsAreEarned' /\ TiersAreKept'
    BY <2>1, <2>2, <2>3 DEF TableInv, HashesAreRead, FlagsAreEarned, TiersAreKept, Same
  <2> QED BY <2>4 DEF TableInv
<1>13. ASSUME NEW v \in Workers, SaveFails(v) PROVE TableInv'
  <2>1. Kept
    BY <1>13, <1>a, ContentMarked DEF SaveFails, Same
  <2> QED BY <1>13, <1>b, <2>1, TableKept DEF SaveFails, files
<1>22. ASSUME NEW v \in Workers, Crash(v) \/ \E t \in Tiers : ClaimFails(v, t) PROVE TableInv'
  BY <1>22, <1>b, ContentStays, TableKept DEF Crash, ClaimFails, table, files
<1>14. ASSUME NEW v \in Workers, Read(v) \/ PassDone(v) \/ Panic(v) \/ Incomplete(v) \/ OdStart(v) \/ OdTimeout(v)
       PROVE  TableInv'
  <2>1. UNCHANGED <<row, disk, manifest, raw, vec, summary>>
    BY <1>14 DEF Read, PassDone, Panic, Incomplete, OdStart, OdTimeout, table, files
  <2> QED BY <2>1 DEF TableInv, HashesAreRead, FlagsAreEarned, TiersAreKept
<1>15. ASSUME NEW v \in Workers, NEW x \in Sources, OdPick(v, x) PROVE TableInv'
  <2>1. Kept
    BY <1>15, <1>a DEF OdPick, Same, RowType
  <2> QED BY <1>15, <1>b, <2>1, TableKept DEF OdPick, files
<1>16. ASSUME NEW v \in Workers, OdComplete(v) \/ OdIncomplete(v) PROVE TableInv'
  <2> DEFINE x == od[v].src
  <2>1. /\ x \in Sources /\ DefaultTier[x] = 3 /\ od[v].pc = "run"
    BY <1>16 DEF OdComplete, OdIncomplete, CycleInv, DemandWaits, DemandIsForPapers, TypeOK,
                 RequestsOK, RequestType, NoRequest
  <2>2. od[v].got >= row[x].hash
    BY <2>1 DEF CycleInv, DemandWaits
  <2>3. /\ UNCHANGED <<disk, raw, vec>> /\ \A s \in Sources \ {x} : manifest'[s] = manifest[s]
        /\ summary' = [summary EXCEPT ![x] = summary'[x]] /\ summary'[x] \in {summary[x], od[v].got}
        /\ \/ row' = row
           \/ row' = [row EXCEPT ![x] = Marked(@, "written")] /\ summary'[x] = od[v].got
    BY <1>16, <1>a, <2>1 DEF OdComplete, OdIncomplete, files
  <2>4. \A s \in Sources : /\ row'[s].hash = row[s].hash /\ row'[s].tier = row[s].tier
                           /\ row'[s].flags \subseteq row[s].flags \cup {"written"}
                           /\ \/ "written" \in row'[s].flags => "written" \in row[s].flags
                              \/ s = x /\ summary'[x] = od[v].got
    BY <1>a, <2>3, ContentMarked
  <2> HIDE DEF x
  <2>5. \A s \in Sources \ {x} : summary'[s] = summary[s]
    BY <1>a, <2>3
  <2>6. FlagsAreEarned'
    <3>1. ASSUME NEW s \in Sources
          PROVE  /\ "indexed" \in row'[s].flags => raw[s] >= row'[s].hash \/ DefaultTier[s] = 3
                 /\ "embedded" \in row'[s].flags => vec[s] >= row'[s].hash
      BY <2>4 DEF TableInv, FlagsAreEarned
    <3>2. ASSUME NEW s \in Sources, "written" \in row'[s].flags PROVE summary'[s] >= row'[s].hash
      BY <2>2, <2>3, <2>4, <2>5, <3>2 DEF TableInv, FlagsAreEarned
    <3> QED BY <2>3, <3>1, <3>2 DEF FlagsAreEarned
  <2>7. TiersAreKept'
    BY <2>1, <2>3, <2>4, <2>5 DEF TableInv, TiersAreKept
  <2> QED BY <2>3, <2>4, <2>6, <2>7 DEF TableInv, HashesAreRead
<1>17. ASSUME NEW x \in Sources, Hit(x) \/ Expire(x) \/ Stall(x) PROVE TableInv'
  BY <1>17, <1>b, ContentStays, TableKept DEF Hit, Expire, Stall, Lapse, files
<1>18. ASSUME NEW v \in Workers, Heartbeat(v) PROVE TableInv'
  BY <1>18, <1>b, ContentStays, TableKept DEF Heartbeat, files
<1>19. ASSUME NEW x \in Sources, Edit(x) PROVE TableInv'
  <2>1. \A s \in Sources : disk'[s] \in Nat /\ disk'[s] >= disk[s]
    BY <1>19, <1>a DEF Edit
  <2> QED BY <1>19, <2>1, ContentStays, TableKept DEF Edit, table
<1> HIDE DEF Kept
<1>20. ASSUME NEW v \in Workers, Worker(v) PROVE TableInv'
  BY <1>1, <1>2, <1>3, <1>6, <1>7, <1>9, <1>10, <1>11, <1>12, <1>14, <1>18, <1>20 DEF Worker
<1>21. ASSUME NEW v \in Workers, Client(v) \/ Trouble(v) PROVE TableInv'
  BY <1>8, <1>13, <1>14, <1>15, <1>16, <1>21, <1>22 DEF Client, Answer, Trouble
<1> QED BY <1>17, <1>19, <1>20, <1>21 DEF Next

-----------------------------------------------------------------------------
LEMMA CycleStep ==
  ASSUME Alone, DemandIsForPapers, TypeOK, TableInv, CycleInv, Next
  PROVE  CycleInv'
<1>a. /\ row \in [Sources -> RowType] /\ \A s \in Sources : RowOK(row[s]) /\ row[s].hash \in Nat
      /\ disk \in [Sources -> Nat] /\ summary \in [Sources -> Nat]
      /\ got \in [Workers -> [Sources -> Nat]] /\ ours \in [Workers -> [Sources -> Nat]]
      /\ pc \in [Workers -> Steps] /\ todo \in [Workers -> SUBSET Sources]
      /\ od \in [Workers -> RequestType]
  BY RowsRows DEF TypeOK, FilesOK, CyclesOK, RowsOK, RowType, RequestsOK
<1>b. UNCHANGED disk => \A s \in Sources : disk'[s] \in Nat /\ disk'[s] >= disk[s]
  BY <1>a
<1>c. \A u, w \in Workers : u = w
  BY DEF Alone
<1>d. \A w \in Workers : pc[w] \notin {"idle", "again"} => od[w].pc # "run"
  BY DEF CycleInv, DemandWaits
<1>e. ASSUME NEW v \in Workers
      PROVE  \A s \in Sources : DefaultTier[s] # 3 => s \notin DOMAIN claims[v][3] /\ ours[v][s] = 0
  BY DEF CycleInv, PapersAreWritten
<1>1. ASSUME NEW v \in Workers, Begin(v) PROVE CycleInv'
  <2>1. /\ pc'[v] = "upsert" /\ got'[v] = disk /\ UNCHANGED <<disk, manifest, summary, claims, ours, od>>
        /\ todo'[v] = {s \in Sources : disk[s] # manifest[s]} /\ od[v].pc # "run"
    BY <1>1, <1>a DEF Begin, files, Compiling
  <2>2. \A s \in Sources : DefaultTier[s] # 3 => s \in todo'[v]
    BY <2>1 DEF TableInv, HashesAreRead, TiersAreKept
  <2>3. PapersAreWritten'
    BY <1>c, <1>e, <2>1, <2>2 DEF PapersAreWritten
  <2>4. ReadsAreCurrent' /\ EmbedsOnce'
    BY <1>a, <1>c, <2>1 DEF ReadsAreCurrent, EmbedsOnce, Passes
  <2>5. DemandWaits'
    BY <1>c, <2>1 DEF CycleInv, DemandWaits
  <2> QED BY <2>3, <2>4, <2>5 DEF CycleInv
<1>2. ASSUME NEW v \in Workers, Skip(v) PROVE CycleInv'
  <2>1. /\ pc'[v] = "idle" /\ UNCHANGED <<disk, summary, claims, ours, od>>
        /\ \A s \in Sources : Same(s)
    BY <1>2, <1>a, ContentStays DEF Skip, files
  <2>2. PapersAreWritten'
    BY <1>c, <1>e, <2>1 DEF PapersAreWritten
  <2>3. ReadsAreCurrent' /\ EmbedsOnce'
    BY <1>c, <2>1 DEF ReadsAreCurrent, EmbedsOnce, Passes
  <2>4. DemandWaits'
    <3>1. od[v].pc = "run" => od[v].src \in Sources
      BY DEF TypeOK, RequestsOK, RequestType, NoRequest
    <3> QED BY <1>c, <2>1, <3>1 DEF CycleInv, DemandWaits, Same
  <2> QED BY <2>2, <2>3, <2>4 DEF CycleInv
<1>3. ASSUME NEW v \in Workers, NEW x \in Sources, Upsert(v, x) PROVE CycleInv'
  <2>1. /\ pc[v] = "upsert" /\ todo'[v] = todo[v] \ {x}
        /\ UNCHANGED <<pc, disk, summary, claims, ours, got, od>>
        /\ row' = [row EXCEPT ![x] = Upserted(@, got[v][x], DefaultTier[x])]
    BY <1>3, <1>a DEF Upsert, files
  <2>2. row'[x].tier = DefaultTier[x] /\ \A s \in Sources \ {x} : row'[s] = row[s]
    BY <1>a, <2>1, ContentUpserted
  <2>3. PapersAreWritten'
    <3>1. \A s \in Sources : DefaultTier[s] # 3 /\ s \notin todo'[v] => row'[s].tier # 3
      BY <2>1, <2>2 DEF CycleInv, PapersAreWritten
    <3> QED BY <1>c, <1>e, <2>1, <3>1 DEF PapersAreWritten
  <2>4. ReadsAreCurrent' /\ EmbedsOnce'
    BY <1>c, <2>1 DEF CycleInv, ReadsAreCurrent, EmbedsOnce, Passes
  <2>5. DemandWaits'
    BY <1>c, <1>d, <2>1 DEF CycleInv, DemandWaits
  <2> QED BY <2>3, <2>4, <2>5 DEF CycleInv
<1>4. ASSUME NEW v \in Workers, NEW t \in Tiers, Claim(v, t) PROVE CycleInv'
  <2> DEFINE items == {s \in Sources : Claimable(row[s], t, v)}
             mine  == [s \in items |-> Leased(row[s], v)]
  <2>1. /\ pc[v] = ClaimStep(t) /\ (t = 0 => todo[v] = {}) /\ UNCHANGED <<od, disk, summary>>
        /\ \A s \in Sources : Same(s) /\ row'[s].tier = row[s].tier
    BY <1>4, ContentStays DEF Claim, files
  <2>2. CASE Leave(v, "idle")
    BY <2>1, <2>2, CycleLeft
  <2>3. CASE /\ claims' = [claims EXCEPT ![v][t] = mine] /\ ours' = ours
             /\ \/ t = 0 /\ Enter(v, "claim1", {})
                \/ t = 1 /\ Enter(v, "claim3", {})
                \/ t = 3 /\ Enter(v, "index0", Work(v, "index0"))
    <3>1. DOMAIN mine = items
      OBVIOUS
    <3>2. \A s \in items : row[s].tier >= t /\ Pass[t] \notin row[s].flags
      BY DEF Claimable, Pending
    <3> HIDE DEF mine
    <3>3. claims'[v][t] = mine /\ \A u \in Tiers \ {t} : claims'[v][u] = claims[v][u]
      BY <2>3 DEF TypeOK, ClaimsOK
    <3>4. \A s \in Sources : DefaultTier[s] # 3 =>
            row[s].tier # 3 /\ s \notin DOMAIN claims'[v][3] /\ ours'[v][s] = 0
      <4>1. ASSUME NEW s \in Sources, DefaultTier[s] # 3 PROVE row[s].tier # 3
        BY <2>1, <4>1 DEF CycleInv, PapersAreWritten, ClaimStep, Tiers
      <4>2. ASSUME NEW s \in Sources, DefaultTier[s] # 3 PROVE s \notin DOMAIN claims'[v][3]
        <5>1. row[s].tier \in {0, 1, 3}
          BY <1>a DEF RowType, Tiers
        <5>2. t = 3 => s \notin items
          BY <3>2, <4>1, <4>2, <5>1
        <5> QED BY <1>e, <3>1, <3>3, <4>2, <5>2 DEF Tiers
      <4> QED BY <1>e, <2>3, <4>1, <4>2
    <3>5. \A s \in Sources : s \in DOMAIN claims'[v][1] /\ t # 0 => "embedded" \notin row'[s].flags
      <4>1. CASE t = 1
        BY <2>1, <3>1, <3>2, <3>3, <4>1 DEF Same, Pass, Tiers
      <4>2. CASE t = 3
        BY <2>1, <3>3, <4>2 DEF CycleInv, EmbedsOnce, Same, ClaimStep, Tiers
      <4> QED BY <4>1, <4>2 DEF Tiers
    <3>6. pc[v] \notin {"idle", "again"}
      BY <2>1 DEF ClaimStep
    <3>7. CASE t = 0
      BY <2>1, <2>3, <3>4, <3>6, <3>7, CycleEnters
    <3>8. CASE t = 1
      BY <2>1, <2>3, <3>4, <3>5, <3>6, <3>8, CycleEnters
    <3>9. CASE t = 3
      BY <2>1, <2>3, <3>4, <3>5, <3>6, <3>9, CycleEnters
    <3> QED BY <3>7, <3>8, <3>9 DEF Tiers
  <2>4. \/ /\ t # 3 /\ claims' = [claims EXCEPT ![v][t] = mine] /\ UNCHANGED ours
           /\ Enter(v, ClaimStep(IF t = 0 THEN 1 ELSE 3), {})
        \/ /\ t = 3 /\ claims' = [claims EXCEPT ![v][3] = mine] /\ UNCHANGED ours
           /\ Enter(v, "index0", Work(v, "index0"))
        \/ Leave(v, "idle")
    BY <1>4 DEF Claim
  <2>5. ClaimStep(1) = "claim1" /\ ClaimStep(3) = "claim3"
    BY DEF ClaimStep
  <2> HIDE DEF mine
  <2>6. t = 0 \/ t = 1 \/ t = 3
    BY DEF Tiers
  <2> QED BY <2>2, <2>3, <2>4, <2>5, <2>6
<1>5. ASSUME NEW v \in Workers, Read(v) PROVE CycleInv'
  <2>1. /\ pc[v] \in Passes /\ UNCHANGED <<pc, todo, disk, row, summary, claims, ours, od>>
        /\ \A s \in todo[v] : got'[v][s] = disk[s]
    BY <1>5, <1>a DEF Read, files, table
  <2>2. ReadsAreCurrent'
    <3>1. \A s \in todo[v] : got'[v][s] >= row[s].hash
      BY <1>a, <2>1 DEF TableInv, HashesAreRead
    <3> QED BY <1>c, <2>1, <3>1 DEF CycleInv, ReadsAreCurrent, Passes
  <2>3. PapersAreWritten' /\ EmbedsOnce' /\ DemandWaits'
    BY <2>1 DEF CycleInv, PapersAreWritten, EmbedsOnce, DemandWaits
  <2> QED BY <2>2, <2>3 DEF CycleInv
<1>6. ASSUME NEW v \in Workers, NEW x \in Sources, Index(v, x) \/ Embed(v, x) PROVE CycleInv'
  <2>1. /\ todo'[v] = todo[v] \ {x} /\ UNCHANGED <<pc, disk, summary, claims, got, ours, od>>
        /\ \/ pc[v] \in {"index0", "index1"} /\ row' = [row EXCEPT ![x] = Marked(@, "indexed")]
           \/ pc[v] = "embed" /\ row' = [row EXCEPT ![x] = Marked(@, "embedded")]
    BY <1>6, <1>a DEF Index, Embed, Item, files
  <2>2. /\ \A s \in Sources : row'[s].hash = row[s].hash /\ row'[s].tier = row[s].tier
        /\ \A s \in Sources \ {x} : row'[s] = row[s]
        /\ pc[v] # "embed" => row'[x].flags = row[x].flags \cup {"indexed"}
    <3>1. \E p : row'[x] = Marked(row[x], p) /\ (pc[v] # "embed" => p = "indexed")
      BY <1>a, <2>1
    <3>2. \A s \in Sources \ {x} : row'[s] = row[s]
      BY <1>a, <2>1
    <3> QED BY <1>a, <3>1, <3>2, ContentMarked
  <2>3. PapersAreWritten'
    BY <1>c, <2>1, <2>2 DEF CycleInv, PapersAreWritten
  <2>4. ReadsAreCurrent'
    BY <1>c, <2>1, <2>2 DEF CycleInv, ReadsAreCurrent
  <2>5. EmbedsOnce'
    BY <1>c, <2>1, <2>2 DEF CycleInv, EmbedsOnce
  <2>6. DemandWaits'
    BY <1>c, <1>d, <2>1 DEF CycleInv, DemandWaits
  <2> QED BY <2>3, <2>4, <2>5, <2>6 DEF CycleInv
<1>7. ASSUME NEW v \in Workers, NEW x \in Sources,
             PassFails(v, x) \/ EmbedFails(v, x) \/ Release(v, x)
      PROVE  CycleInv'
  <2>1. /\ todo' = [todo EXCEPT ![v] = @ \ {x}] /\ pc[v] # "upsert"
        /\ UNCHANGED <<disk, pc, claims, got, ours, summary, od>>
    BY <1>7 DEF PassFails, EmbedFails, Release, Item, files
  <2>2. \A w \in Workers : todo'[w] \subseteq todo[w] /\ pc[w] # "upsert"
    BY <1>a, <1>c, <2>1
  <2> QED BY <1>7, <1>b, <2>1, <2>2, ContentStays, CycleKept
<1>8. ASSUME NEW v \in Workers, PassDone(v) \/ Panic(v) PROVE CycleInv'
  <2>1. UNCHANGED <<claims, ours, od, row>> /\ pc[v] \in {"index0", "index1", "embed"}
    BY <1>8 DEF PassDone, Panic, table
  <2>2. \/ \E skipped : Advance(v, After(pc[v]), skipped)
        \/ \E skipped : Advance(v, IF pc[v] = "index0" THEN "index1" ELSE "llm", skipped)
    BY <1>8 DEF PassDone, Panic
  <2>3. CASE pc[v] = "index0"
    BY <2>1, <2>2, <2>3, CycleAdvances DEF After
  <2>4. CASE pc[v] = "index1"
    BY <2>1, <2>2, <2>4, CycleAdvances DEF After
  <2>5. CASE pc[v] = "embed"
    BY <2>1, <2>2, <2>5, CycleAdvances DEF After
  <2> QED BY <2>1, <2>3, <2>4, <2>5
<1>9. ASSUME NEW v \in Workers, Summarize(v) PROVE CycleInv'
  <2>1. PICK Ok \in SUBSET todo[v] :
          /\ summary' = [s \in Sources |-> IF s \in Ok THEN got[v][s] ELSE summary[s]]
          /\ ours' = [ours EXCEPT ![v] = [s \in Sources |-> IF s \in Ok THEN claims[v][3][s].hash
                                                            ELSE @[s]]]
          /\ Enter(v, "mark", Ok)
    BY <1>9 DEF Summarize
  <2>2. /\ pc[v] = "llm" /\ got[v] # NoVersion /\ UNCHANGED <<row, claims, od>>
        /\ pc'[v] = "mark" /\ todo'[v] = Ok /\ Ok \subseteq Sources
        /\ Ok \subseteq DOMAIN claims[v][3]
    BY <1>9, <1>a, <2>1 DEF Summarize, Enter, TypeOK, CyclesOK
  <2>3. \A s \in Ok : summary'[s] >= row[s].hash
    BY <2>1, <2>2 DEF CycleInv, ReadsAreCurrent, Passes
  <2>4. \A s \in Sources : DefaultTier[s] # 3 => ours'[v][s] = 0
    BY <1>a, <1>e, <2>1, <2>2
  <2>5. PapersAreWritten'
    BY <1>c, <1>e, <2>2, <2>4 DEF PapersAreWritten
  <2>6. ReadsAreCurrent' /\ EmbedsOnce'
    BY <1>c, <2>2, <2>3 DEF ReadsAreCurrent, EmbedsOnce, Passes
  <2>7. DemandWaits'
    BY <1>c, <1>d, <2>2 DEF CycleInv, DemandWaits
  <2> QED BY <2>5, <2>6, <2>7 DEF CycleInv
<1>10. ASSUME NEW v \in Workers, Complete(v) \/ Incomplete(v) PROVE CycleInv'
  <2>1. /\ Enter(v, "release", Claimed(v) \ unread[v]) /\ pc[v] \notin {"idle", "again"}
        /\ UNCHANGED <<claims, ours, od>>
    BY <1>10 DEF Complete, Incomplete
  <2> QED BY <1>e, <2>1, CycleEnters
<1>11. ASSUME NEW v \in Workers, Finish(v) \/ SaveFails(v) PROVE CycleInv'
  <2>1. (Leave(v, "again") \/ Leave(v, "idle")) /\ UNCHANGED od
    BY <1>11 DEF Finish, SaveFails
  <2>2. \A s \in Sources : Same(s)
    BY <1>11, <1>a, ContentMarked DEF Finish, SaveFails, Same
  <2> QED BY <2>1, <2>2, CycleLeft
<1>12. ASSUME NEW v \in Workers, Crash(v) \/ \E t \in Tiers : ClaimFails(v, t) PROVE CycleInv'
  <2>1. Leave(v, "idle") /\ \A w \in Workers : od'[w] = od[w] \/ od'[w] = NoRequest
    BY <1>12, <1>a DEF Crash, ClaimFails
  <2> QED BY <1>12, <2>1, ContentStays, CycleLeft
<1>13. ASSUME NEW v \in Workers, NEW x \in Sources, OdPick(v, x) PROVE CycleInv'
  <2>1. /\ od'[v].pc = "wait" /\ od'[v].src = x /\ x \in OnDemand
        /\ UNCHANGED <<disk, summary, pc, todo, claims, got, ours>>
        /\ \A s \in Sources : Same(s) /\ (s # x => row'[s] = row[s])
    BY <1>13, <1>a DEF OdPick, files, cycle, Same, RowType
  <2>2. \A s \in Sources : DefaultTier[s] # 3 => row'[s] = row[s]
    BY <2>1 DEF DemandIsForPapers
  <2>3. PapersAreWritten'
    BY <2>1, <2>2 DEF CycleInv, PapersAreWritten
  <2>4. ReadsAreCurrent' /\ EmbedsOnce'
    BY <2>1 DEF CycleInv, ReadsAreCurrent, EmbedsOnce, Same
  <2>5. DemandWaits'
    BY <1>c, <2>1 DEF DemandWaits
  <2> QED BY <2>3, <2>4, <2>5 DEF CycleInv
<1>14. ASSUME NEW v \in Workers, OdStart(v) PROVE CycleInv'
  <2>1. /\ od[v].pc = "wait" /\ pc[v] \in {"idle", "again"}
        /\ UNCHANGED <<disk, row, summary, pc, todo, claims, got, ours>>
        /\ od' = [od EXCEPT ![v].pc = "run", ![v].got = disk[od[v].src]]
    BY <1>14 DEF OdStart, files, table, cycle, Compiling
  <2>2. od[v] \in [pc: {"wait", "run"}, src: Sources, hash: Nat, got: Nat]
    BY <1>a, <2>1 DEF RequestType, NoRequest
  <2>3. od'[v].pc = "run" /\ od'[v].src = od[v].src /\ od'[v].got = disk[od[v].src]
    BY <1>a, <2>1, <2>2
  <2>4. od[v].src \in OnDemand /\ disk[od[v].src] >= row[od[v].src].hash
    BY <1>a, <2>1, <2>2 DEF CycleInv, DemandWaits, TableInv, HashesAreRead
  <2>5. DemandWaits'
    BY <1>c, <2>1, <2>3, <2>4 DEF DemandWaits
  <2>6. PapersAreWritten' /\ ReadsAreCurrent' /\ EmbedsOnce'
    BY <2>1 DEF CycleInv, PapersAreWritten, ReadsAreCurrent, EmbedsOnce
  <2> QED BY <2>5, <2>6 DEF CycleInv
<1>15. ASSUME NEW v \in Workers, OdTimeout(v) PROVE CycleInv'
  <2>1. /\ od' = [od EXCEPT ![v] = NoRequest] /\ NoRequest.pc = "none"
        /\ UNCHANGED <<disk, row, summary, pc, todo, claims, got, ours>>
    BY <1>15 DEF OdTimeout, files, table, cycle, NoRequest
  <2>2. DemandWaits'
    BY <1>a, <1>c, <2>1 DEF DemandWaits
  <2>3. PapersAreWritten' /\ ReadsAreCurrent' /\ EmbedsOnce'
    BY <2>1 DEF CycleInv, PapersAreWritten, ReadsAreCurrent, EmbedsOnce
  <2> QED BY <2>2, <2>3 DEF CycleInv
<1>16. ASSUME NEW v \in Workers, OdComplete(v) \/ OdIncomplete(v) PROVE CycleInv'
  <2>1. /\ od' = [od EXCEPT ![v] = NoRequest] /\ NoRequest.pc = "none" /\ od[v].pc = "run"
        /\ UNCHANGED <<pc, claims, ours>>
    BY <1>16 DEF OdComplete, OdIncomplete, cycle, NoRequest
  <2>2. pc'[v] \in {"idle", "again"} /\ od'[v].pc = "none"
    BY <1>a, <2>1 DEF CycleInv, DemandWaits
  <2>3. PapersAreWritten'
    BY <1>c, <1>e, <2>1, <2>2 DEF PapersAreWritten
  <2>4. ReadsAreCurrent' /\ EmbedsOnce' /\ DemandWaits'
    BY <1>c, <2>2 DEF ReadsAreCurrent, EmbedsOnce, DemandWaits, Passes
  <2> QED BY <2>3, <2>4 DEF CycleInv
<1>17. ASSUME NEW v \in Workers, Heartbeat(v) PROVE CycleInv'
  <2>1. UNCHANGED <<disk, summary, pc, todo, claims, got, ours, od>>
    BY <1>17 DEF Heartbeat, files, cycle
  <2> QED BY <1>17, <1>b, <2>1, ContentStays, CycleKept
<1>18. ASSUME NEW x \in Sources, Hit(x) \/ Expire(x) \/ Stall(x) \/ Edit(x) PROVE CycleInv'
  <2>1. UNCHANGED <<summary, pc, todo, claims, got, ours, od>>
    BY <1>18 DEF Hit, Expire, Stall, Lapse, Edit, cycle, table
  <2>2. \A s \in Sources : disk'[s] \in Nat /\ disk'[s] >= disk[s]
    BY <1>18, <1>a DEF Hit, Expire, Stall, Lapse, Edit, files
  <2> QED BY <1>18, <2>1, <2>2, ContentStays, CycleKept
<1>19. ASSUME NEW v \in Workers, Worker(v) PROVE CycleInv'
  BY <1>1, <1>2, <1>3, <1>4, <1>5, <1>6, <1>7, <1>8, <1>9, <1>10, <1>11, <1>17, <1>19 DEF Worker
<1>20. ASSUME NEW v \in Workers, Client(v) \/ Trouble(v) PROVE CycleInv'
  BY <1>7, <1>11, <1>12, <1>13, <1>14, <1>15, <1>16, <1>20 DEF Client, Answer, Trouble
<1> QED BY <1>18, <1>19, <1>20 DEF Next

\* With one process, and on-demand compiles only of sources that are of tier 3 anyway, what the
\* queue calls settled was processed in the version its row names, or a later one: a pass marks a
\* row (MarkPass, items.go) only for content read after that version was hashed, and the marks are
\* dropped with the version.
THEOREM SettledIsCurrent ==
  ASSUME Alone, DemandIsForPapers PROVE Spec => []SettledMeansCurrent
<1>1. Init => CurrentInv
  <2> SUFFICES ASSUME Init PROVE CurrentInv
    OBVIOUS
  <2>1. NoRow.flags = {} /\ NoRow.hash = 0 /\ NoRequest.pc = "none"
    BY DEF NoRow, NoRequest
  <2>2. \A t \in Tiers : DOMAIN NoClaims[t] = {}
    BY DEF NoClaims
  <2>3. \A s \in Sources : NoVersion[s] = 0
    BY DEF NoVersion
  <2>4. HashesAreRead /\ FlagsAreEarned /\ TiersAreKept
    BY <2>1, <2>3 DEF Init, HashesAreRead, FlagsAreEarned, TiersAreKept
  <2>5. PapersAreWritten
    BY <2>2, <2>3 DEF Init, PapersAreWritten, Tiers
  <2>6. ReadsAreCurrent /\ EmbedsOnce /\ DemandWaits
    BY <2>1 DEF Init, ReadsAreCurrent, EmbedsOnce, DemandWaits, Passes
  <2> QED BY <2>4, <2>5, <2>6 DEF CurrentInv
<1>2. TypeOK /\ CurrentInv /\ [Next]_vars => CurrentInv'
  <2>1. ASSUME CurrentInv, UNCHANGED vars PROVE CurrentInv'
    BY <2>1 DEF CurrentInv, HashesAreRead, FlagsAreEarned, TiersAreKept, PapersAreWritten,
                ReadsAreCurrent, EmbedsOnce, DemandWaits, vars, files, table, cycle
  <2>2. CurrentInv <=> TableInv /\ CycleInv
    BY DEF CurrentInv, TableInv, CycleInv
  <2>3. (CurrentInv <=> TableInv /\ CycleInv)'
    BY DEF CurrentInv, TableInv, CycleInv
  <2> QED BY <2>1, <2>2, <2>3, TableStep, CycleStep
<1>3. TypeOK /\ CurrentInv => SettledMeansCurrent
  <2> SUFFICES ASSUME TypeOK, CurrentInv, NEW s \in Sources, row[s].hash # 0, ~Owes(row[s])
               PROVE  /\ raw[s] >= row[s].hash \/ summary[s] >= row[s].hash
                      /\ row[s].tier >= 1 => vec[s] >= row[s].hash
                      /\ row[s].tier = 3 => summary[s] >= row[s].hash
    BY DEF SettledMeansCurrent
  <2>1. row[s].tier \in Tiers
    BY DEF TypeOK, RowsOK, RowType
  <2>2. /\ "indexed" \in row[s].flags
        /\ row[s].tier >= 1 => "embedded" \in row[s].flags
        /\ row[s].tier >= 3 => "written" \in row[s].flags
    BY <2>1 DEF Owes, Pending, Pass, Tiers
  <2> QED BY <2>1, <2>2 DEF CurrentInv, FlagsAreEarned, TiersAreKept, Tiers
<1> QED BY <1>1, <1>2, <1>3, TypeCorrect, PTL DEF Spec
=============================================================================
