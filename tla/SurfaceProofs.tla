---------------------------- MODULE SurfaceProofs -----------------------------
(***************************************************************************)
(* Proofs about what a request meets, for every value of the constants: the *)
(* outputs that a search shows (TrustOutputs), the idempotent writes        *)
(* (IdemStore), the API's jobs (ApiJobs), the event bus (EventBus), and the *)
(* four together (MCSurfaces).                                              *)
(***************************************************************************)
EXTENDS MCSurfaces, FiniteSetTheorems, SequenceTheorems, WellFoundedInduction, TLAPS

-----------------------------------------------------------------------------
(* What queries file, and searches show. *)

States == {"none", "pending", "confirmed", "conflict", "stale"}
Rows   == [state : States, answer : Answers \union {NoAnswer}, confirmations : Nat,
           sets : Nat, grounded : BOOLEAN]
Tasks  == [op : {"none", "query", "verify", "promote", "resolve", "check", "reject"},
           step : {"none", "next", "read", "index", "mark", "deindex", "delete"},
           id : Outputs \union {NoOutput}, listed : SUBSET (Outputs \X Nat),
           answer : Answers \union {NoAnswer}]

Shape ==
  /\ row \in [Outputs -> Rows] /\ doing \in [Actors -> Tasks]
  /\ indexed \in [Outputs -> Answers \union {NoAnswer}]

Promotion == {"read", "index", "mark"}
AtOutput  == Promotion \union {"deindex", "delete"}
Earned(r) == r.grounded /\ r.confirmations >= Threshold

\* Nobody is at an output that another process is at, and two processes do not verify.
Exclusive ==
  /\ \A a \in Actors : doing[a].step \in AtOutput => doing[a].id \in Outputs
  /\ \A a, b \in Actors :
       a # b /\ doing[a].step \in AtOutput /\ doing[b].step \in AtOutput
         => doing[a].id # doing[b].id
  /\ \A a, b \in Actors : doing[a].op = "verify" /\ doing[b].op = "verify" => a = b

\* The search stores hold the answer of an output that is filed, or nothing; a process that
\* is about to index has that answer, and one about to delete has emptied the stores.
IndexFollows ==
  /\ \A o \in Outputs : indexed[o] # NoAnswer => row[o] # NoRow /\ indexed[o] = row[o].answer
  /\ \A a \in Actors :
       /\ doing[a].step = "index" =>
            row[doing[a].id] # NoRow /\ doing[a].answer = row[doing[a].id].answer
       /\ doing[a].step = "delete" => indexed[doing[a].id] = NoAnswer

\* What a promotion is based on, until it ends.
Promised ==
  \A a \in Actors : doing[a].step \in Promotion =>
    /\ doing[a].op \in {"query", "verify", "promote", "resolve"}
    /\ doing[a].op \in {"query", "verify"} => Earned(row[doing[a].id])
    /\ doing[a].op = "query" => row[doing[a].id].state = "confirmed"

ConfirmedEarned ==
  \A o \in Outputs : row[o].state = "confirmed" => o \in byUser \/ Earned(row[o])

TrustInv == Shape /\ Exclusive /\ Promised /\ ConfirmedEarned

Calm == "overlap" \notin TrustRaces /\ "late" \notin TrustRaces
Deletes == "undeleted" \notin TrustRaces

-----------------------------------------------------------------------------
(* Rows and tasks keep their types.                                        *)

Steps == {"none", "next", "read", "index", "mark", "deindex", "delete"}
Clear(o) == \A b \in Actors : doing[b].id = o => doing[b].step = "next"

LEMMA NoTaskOK == NoTask \in Tasks /\ NoTask.step = "none" /\ NoTask.op = "none"
  BY DEF NoTask, Tasks

LEMMA NoRowOK == NoRow \in Rows /\ NoRow.state = "none"
  BY DEF NoRow, Rows, States

LEMMA Moved ==
  ASSUME NEW t \in Tasks, NEW s \in Steps
  PROVE  /\ [t EXCEPT !.step = s] \in Tasks
         /\ [t EXCEPT !.step = s].step = s /\ [t EXCEPT !.step = s].op = t.op
         /\ [t EXCEPT !.step = s].id = t.id /\ [t EXCEPT !.step = s].answer = t.answer
  BY DEF Tasks, Steps

LEMMA Listed ==
  ASSUME NEW t \in Tasks, NEW item \in t.listed
  PROVE  /\ item[1] \in Outputs /\ item[2] \in Nat
         /\ [t EXCEPT !.listed = @ \ {item}] \in Tasks
  BY DEF Tasks

LEMMA Agreeing ==
  ASSUME NEW r \in Rows
  PROVE  /\ Agreed(r) \in Rows /\ Agreed(r).state = r.state /\ Agreed(r).answer = r.answer
         /\ Agreed(r).grounded = r.grounded /\ Agreed(r).confirmations = r.confirmations + 1
<1> DEFINE c == r.confirmations + 1
           n == r.sets + 1
<1>1. r.confirmations \in Nat /\ r.sets \in Nat
  BY DEF Rows
<1>2. c \in Nat /\ n \in Nat
  BY <1>1
<1>3. Agreed(r) = [r EXCEPT !.confirmations = c, !.sets = n]
  BY DEF Agreed
<1> HIDE DEF c, n
<1>4. /\ Agreed(r) \in Rows /\ Agreed(r).state = r.state /\ Agreed(r).answer = r.answer
      /\ Agreed(r).grounded = r.grounded /\ Agreed(r).confirmations = c
  BY <1>2, <1>3 DEF Rows
<1> QED BY <1>4 DEF c

LEMMA AtLeast == ASSUME NEW x \in Nat, NEW y \in Nat, NEW z \in Nat, x >= y, y >= z PROVE x >= z
  OBVIOUS

LEMMA Demoting ==
  ASSUME NEW r \in Rows
  PROVE  Demoted(r) \in Rows /\ Demoted(r).state = "stale" /\ Demoted(r).answer = r.answer
  BY DEF Demoted, Rows, States

LEMMA Filing ==
  ASSUME NEW answer \in Answers, NEW s \in States \ {"none"}
  PROVE  /\ FileAs(answer, s) \in Rows /\ FileAs(answer, s).state = s
         /\ FileAs(answer, s) # NoRow
  BY NoRowOK DEF FileAs, NoRow, Rows, States

-----------------------------------------------------------------------------
(* What the actions that change a row, or take a place at an output, do.   *)

LEMMA AgreeEffect ==
  ASSUME TrustInv, NEW m \in Outputs, Agree(m)
  PROVE  /\ row[m] # NoRow /\ UNCHANGED <<indexed, doing, byUser>>
         /\ \E r \in Rows \ {NoRow} :
              /\ row' = [row EXCEPT ![m] = r]
              /\ r.state = row[m].state /\ r.answer = row[m].answer
              /\ Earned(row[m]) => Earned(r)
<1>1. row[m] \in Rows /\ row[m] # NoRow /\ row[m].state # "none"
  BY DEF Agree, Matches, Live, Filed, TrustInv, Shape
<1>2. Agreed(row[m]) # NoRow
  BY <1>1, Agreeing, NoRowOK
<1>3. row' = [row EXCEPT ![m] = Agreed(row[m])] /\ UNCHANGED <<indexed, doing, byUser>>
  BY DEF Agree
<1>4. row[m].confirmations \in Nat /\ Threshold \in Nat
  BY <1>1, TrustAssumption DEF Rows
<1>5. row[m].confirmations >= Threshold => row[m].confirmations + 1 >= Threshold
  BY <1>4
<1>6. Earned(row[m]) => Earned(Agreed(row[m]))
  BY <1>1, <1>5, Agreeing DEF Earned
<1> QED BY <1>1, <1>2, <1>3, <1>6, Agreeing

LEMMA AgreeAndPromoteEffect ==
  ASSUME Calm, TrustInv, NEW a \in Actors, NEW m \in Outputs, AgreeAndPromote(a, m)
  PROVE  /\ row[m] # NoRow /\ Clear(m) /\ doing[a] = NoTask /\ UNCHANGED <<indexed, byUser>>
         /\ \E r \in Rows \ {NoRow} :
              /\ row' = [row EXCEPT ![m] = r]
              /\ r.state = "confirmed" /\ r.answer = row[m].answer /\ Earned(r)
         /\ \E t \in Tasks : /\ doing' = [doing EXCEPT ![a] = t]
                             /\ t.op = "query" /\ t.step = "read" /\ t.id = m
<1> DEFINE r == [Agreed(row[m]) EXCEPT !.state = "confirmed"]
           t == [NoTask EXCEPT !.op = "query", !.step = "read", !.id = m]
<1>1. row[m] \in Rows /\ row[m] # NoRow
  BY DEF AgreeAndPromote, Matches, Live, Filed, TrustInv, Shape
<1>2. Agreed(row[m]) \in Rows /\ Earned(Agreed(row[m])) /\ Agreed(row[m]).answer = row[m].answer
  BY <1>1, Agreeing DEF AgreeAndPromote, Earns, ShouldAutoPromote, Earned
<1>3. r \in Rows /\ r.state = "confirmed" /\ r.answer = row[m].answer /\ Earned(r)
  BY <1>2 DEF Rows, States, Earned
<1>4. t \in Tasks /\ t.op = "query" /\ t.step = "read" /\ t.id = m
  BY DEF NoTask, Tasks
<1>5. row' = [row EXCEPT ![m] = r] /\ doing' = [doing EXCEPT ![a] = t] /\ doing[a] = NoTask
      /\ UNCHANGED <<indexed, byUser>>
  BY DEF AgreeAndPromote, Idle
<1>6. Clear(m)
  BY DEF AgreeAndPromote, Untouched, Calm, Clear, At
<1> HIDE DEF r, t
<1> QED BY <1>1, <1>3, <1>4, <1>5, <1>6, NoRowOK

LEMMA FileConflictEffect ==
  ASSUME Calm, TrustInv, NEW o \in Outputs, NEW m \in Outputs, FileConflict(o, m)
  PROVE  /\ row[o] = NoRow /\ row[m] # NoRow /\ o # m /\ Clear(o)
         /\ \A b \in Actors : doing[b].id = m => doing[b].step \notin Promotion
         /\ \E r, q \in Rows \ {NoRow} :
              /\ row' = [row EXCEPT ![m] = r, ![o] = q]
              /\ r.state = "conflict" /\ r.answer = row[m].answer /\ q.state = "conflict"
         /\ byUser' = byUser \ {o} /\ UNCHANGED <<indexed, doing>>
<1>1. row[m] \in Rows /\ row[m] # NoRow /\ row[o] = NoRow
  BY DEF FileConflict, Matches, Live, Free, Filed, TrustInv, Shape
<1>2. Clear(o)
  BY DEF FileConflict, Free, Untouched, Calm, Clear, At
<1>3. \A b \in Actors : doing[b].id = m => doing[b].step \notin Promotion
  BY DEF FileConflict, Undisturbed, Promoting, Calm, Promotion
<1>4. PICK answer \in Answers :
        row' = [row EXCEPT ![m].state = "conflict", ![o] = FileAs(answer, "conflict")]
  BY DEF FileConflict
<1> DEFINE r == [row[m] EXCEPT !.state = "conflict"]
           q == FileAs(answer, "conflict")
<1>5. r \in Rows /\ r.state = "conflict" /\ r.answer = row[m].answer /\ r # NoRow
  BY <1>1, NoRowOK DEF Rows, States
<1>6. q \in Rows /\ q.state = "conflict" /\ q # NoRow
  BY Filing DEF States
<1>7. row' = [row EXCEPT ![m] = r, ![o] = q]
  BY <1>1, <1>4 DEF TrustInv, Shape
<1>8. byUser' = byUser \ {o} /\ UNCHANGED <<indexed, doing>>
  BY DEF FileConflict
<1> HIDE DEF r, q
<1> QED BY <1>1, <1>2, <1>3, <1>5, <1>6, <1>7, <1>8

LEMMA GroundEffect ==
  ASSUME Calm, TrustInv, NEW a \in Actors, Ground(a)
  PROVE  \E o \in Outputs, r \in Rows \ {NoRow}, t \in Tasks :
           /\ row[o] # NoRow /\ row[o].state = "pending"
           /\ row' = [row EXCEPT ![o] = r]
           /\ r.state = "pending" /\ r.answer = row[o].answer
           /\ doing[a].step = "next" /\ doing[a].op = "verify"
           /\ doing' = [doing EXCEPT ![a] = t] /\ t.op = "verify" /\ t.id = o
           /\ t.step = "next" \/ (t.step = "read" /\ Earned(r) /\ Clear(o))
           /\ UNCHANGED <<indexed, byUser>>
<1>1. doing[a] \in Tasks /\ doing[a].step = "next" /\ doing[a].op = "verify"
      /\ UNCHANGED <<indexed, byUser>>
  BY DEF Ground, At, TrustInv, Shape
<1>2. PICK item \in doing[a].listed, high \in BOOLEAN :
        LET o == item[1]
            earns == high /\ ShouldAutoPromote(item[2], row[o].sets) IN
        /\ "late" \notin TrustRaces =>
             o \in InState("pending") /\ row[o].confirmations >= item[2]
        /\ earns => Untouched(o)
        /\ row' = IF o \in Filed THEN [row EXCEPT ![o].grounded = high] ELSE row
        /\ doing' = [doing EXCEPT ![a].listed = @ \ {item}, ![a].id = o,
                                ![a].step = IF earns THEN "read" ELSE "next"]
  BY DEF Ground
<1> DEFINE o == item[1]
           earns == high /\ ShouldAutoPromote(item[2], row[o].sets)
           r == [row[o] EXCEPT !.grounded = high]
           s == IF earns THEN "read" ELSE "next"
           t == [doing[a] EXCEPT !.listed = @ \ {item}, !.id = o, !.step = s]
<1>3. o \in Outputs /\ item[2] \in Nat /\ doing[a].listed \ {item} \in SUBSET (Outputs \X Nat)
  BY <1>1, Listed DEF Tasks
<1>4. o \in Filed /\ row[o].state = "pending" /\ row[o].confirmations >= item[2]
      /\ (earns => Clear(o))
  BY <1>2, <1>3 DEF Calm, InState, Untouched, Clear, At
<1>5. row[o] \in Rows /\ row[o] # NoRow
  BY <1>3, <1>4 DEF TrustInv, Shape, Filed
<1>6. r \in Rows /\ r.state = "pending" /\ r.answer = row[o].answer /\ r.grounded = high
      /\ r.confirmations = row[o].confirmations /\ r # NoRow
  BY <1>4, <1>5, NoRowOK DEF Rows
<1>7. s \in {"read", "next"}
  OBVIOUS
<1>8. t \in Tasks /\ t.op = "verify" /\ t.id = o /\ t.step = s
  <2> HIDE DEF o, s
  <2> QED BY <1>1, <1>3, <1>7 DEF Tasks
<1>9. row' = [row EXCEPT ![o] = r]
  BY <1>2, <1>3, <1>4 DEF TrustInv, Shape
<1>10. doing' = [doing EXCEPT ![a] = t]
  BY <1>2 DEF TrustInv, Shape
<1>11. s = "next" \/ (s = "read" /\ Earned(r) /\ Clear(o))
  <2>1. CASE ~earns
    BY <2>1
  <2>2. CASE earns
    <3>1. item[2] >= Threshold
      BY <2>2 DEF ShouldAutoPromote
    <3>2. row[o].confirmations \in Nat /\ Threshold \in Nat
      BY <1>5, TrustAssumption DEF Rows
    <3>3. row[o].confirmations >= Threshold
      <4> HIDE DEF o, earns
      <4> QED BY <3>1, <3>2, <1>3, <1>4, AtLeast
    <3> QED BY <2>2, <3>3, <1>4, <1>6 DEF Earned
  <2> QED BY <2>1, <2>2
<1> HIDE DEF o, r, s, t, earns
<1> QED BY <1>1, <1>3, <1>4, <1>5, <1>6, <1>8, <1>9, <1>10, <1>11

LEMMA CheckEffect ==
  ASSUME Calm, TrustInv, NEW a \in Actors, Check(a)
  PROVE  /\ doing[a].step = "next" /\ UNCHANGED indexed
         /\ \E t \in Tasks :
              /\ doing' = [doing EXCEPT ![a] = t] /\ t.op = "check"
              /\ \/ t.step = "next" /\ UNCHANGED <<row, byUser>>
                 \/ \E o \in Outputs :
                      /\ t.step = "deindex" /\ t.id = o /\ Clear(o)
                      /\ byUser' = byUser \ {o}
                      /\ \/ row[o] = NoRow /\ UNCHANGED row
                         \/ \E r \in Rows \ {NoRow} :
                              /\ row[o] # NoRow /\ row' = [row EXCEPT ![o] = r]
                              /\ r.state = "stale" /\ r.answer = row[o].answer
<1>1. doing[a] \in Tasks /\ doing[a].step = "next" /\ doing[a].op = "check" /\ UNCHANGED indexed
  BY DEF Check, At, TrustInv, Shape
<1>2. PICK item \in doing[a].listed, current \in BOOLEAN :
        LET o == item[1] IN
        IF current
        THEN /\ doing' = [doing EXCEPT ![a].listed = @ \ {item}]
             /\ UNCHANGED <<row, byUser>>
        ELSE /\ Untouched(o)
             /\ row' = IF o \in Filed THEN [row EXCEPT ![o] = Demoted(@)] ELSE row
             /\ byUser' = byUser \ {o}
             /\ doing' = [doing EXCEPT ![a].listed = @ \ {item}, ![a].id = o,
                                     ![a].step = "deindex"]
  BY DEF Check
<1> DEFINE o == item[1]
<1>3. o \in Outputs /\ doing[a].listed \ {item} \in SUBSET (Outputs \X Nat)
  BY <1>1, Listed DEF Tasks
<1>4. CASE current
  <2> DEFINE t == [doing[a] EXCEPT !.listed = @ \ {item}]
  <2>1. t \in Tasks /\ t.op = "check" /\ t.step = "next"
    BY <1>1, <1>3 DEF Tasks
  <2>2. doing' = [doing EXCEPT ![a] = t] /\ UNCHANGED <<row, byUser>>
    BY <1>2, <1>4 DEF TrustInv, Shape
  <2> HIDE DEF t
  <2> QED BY <1>1, <2>1, <2>2
<1>5. CASE ~current
  <2> DEFINE t == [doing[a] EXCEPT !.listed = @ \ {item}, !.id = o, !.step = "deindex"]
             r == Demoted(row[o])
  <2>1. t \in Tasks /\ t.op = "check" /\ t.step = "deindex" /\ t.id = o
    <3> HIDE DEF o
    <3> QED BY <1>1, <1>3 DEF Tasks
  <2>2. doing' = [doing EXCEPT ![a] = t] /\ byUser' = byUser \ {o}
    BY <1>2, <1>5 DEF TrustInv, Shape
  <2>3. Clear(o)
    BY <1>2, <1>5 DEF Untouched, Calm, Clear, At
  <2>4. row[o] \in Rows /\ r \in Rows /\ r.state = "stale" /\ r.answer = row[o].answer
    <3>1. row[o] \in Rows
      BY <1>3 DEF TrustInv, Shape
    <3> QED BY <3>1, Demoting
  <2>5. \/ row[o] = NoRow /\ UNCHANGED row
        \/ row[o] # NoRow /\ row' = [row EXCEPT ![o] = r]
    BY <1>2, <1>3, <1>5 DEF Filed, TrustInv, Shape
  <2>6. r # NoRow
    BY <2>4, NoRowOK
  <2> HIDE DEF t, r, o
  <2> QED BY <1>1, <1>3, <2>1, <2>2, <2>3, <2>4, <2>5, <2>6
<1> QED BY <1>4, <1>5

LEMMA RejectEffect ==
  ASSUME Calm, TrustInv, NEW a \in Actors, Reject(a)
  PROVE  /\ doing[a].step \in {"none", "next"} /\ UNCHANGED <<row, indexed, byUser>>
         /\ \E t \in Tasks :
              /\ doing' = [doing EXCEPT ![a] = t] /\ t.op \in {"reject", "resolve"}
              /\ t.step = "next" \/ (t.step = "deindex" /\ t.id \in Outputs /\ Clear(t.id))
<1>1. UNCHANGED <<row, indexed, byUser>> /\ doing[a] \in Tasks
  BY DEF Reject, TrustInv, Shape
<1>2. CASE Idle(a)
  <2>1. PICK o \in Filed : /\ Untouched(o)
                           /\ doing' = [doing EXCEPT ![a] =
                                [NoTask EXCEPT !.op = "reject", !.step = "deindex", !.id = o]]
    BY <1>2, NoTaskOK DEF Reject, Idle, At
  <2> DEFINE t == [NoTask EXCEPT !.op = "reject", !.step = "deindex", !.id = o]
  <2>2. t \in Tasks /\ t.op = "reject" /\ t.step = "deindex" /\ t.id = o /\ o \in Outputs
    BY DEF NoTask, Tasks, Filed
  <2>3. Clear(o)
    BY <2>1 DEF Untouched, Calm, Clear, At
  <2>4. doing[a].step = "none"
    BY <1>2, NoTaskOK DEF Idle
  <2> HIDE DEF t
  <2> QED BY <1>1, <2>1, <2>2, <2>3, <2>4 DEF t
<1>3. CASE At(a, "next") /\ doing[a].op = "resolve"
  <2>1. PICK item \in doing[a].listed :
          LET o == item[1] IN
          /\ Untouched(o)
          /\ doing' = IF o \in Filed
                     THEN [doing EXCEPT ![a].step = "deindex", ![a].id = o,
                             ![a].listed = @ \ {item}]
                     ELSE [doing EXCEPT ![a].listed = @ \ {item}]
    BY <1>3, NoTaskOK DEF Reject, Idle, At
  <2> DEFINE o == item[1]
             t == [doing[a] EXCEPT !.step = "deindex", !.id = o, !.listed = @ \ {item}]
             u == [doing[a] EXCEPT !.listed = @ \ {item}]
  <2>2. o \in Outputs /\ doing[a].listed \ {item} \in SUBSET (Outputs \X Nat)
    BY <1>1, Listed DEF Tasks
  <2>3. t \in Tasks /\ t.op = "resolve" /\ t.step = "deindex" /\ t.id = o
    <3> HIDE DEF o
    <3> QED BY <1>1, <1>3, <2>2 DEF Tasks
  <2>4. u \in Tasks /\ u.op = "resolve" /\ u.step = "next"
    BY <1>1, <1>3, <2>2 DEF Tasks, At
  <2>5. doing' = [doing EXCEPT ![a] = t] \/ doing' = [doing EXCEPT ![a] = u]
    BY <2>1 DEF TrustInv, Shape
  <2>6. Clear(o)
    BY <2>1 DEF Untouched, Calm, Clear, At
  <2> HIDE DEF t, u, o
  <2> QED BY <1>1, <1>3, <2>2, <2>3, <2>4, <2>5, <2>6 DEF At
<1> QED BY <1>2, <1>3 DEF Reject

LEMMA FileNewEffect ==
  ASSUME Calm, TrustInv, NEW o \in Outputs, FileNew(o)
  PROVE  /\ row[o] = NoRow /\ Clear(o) /\ byUser' = byUser \ {o} /\ UNCHANGED <<indexed, doing>>
         /\ \E r \in Rows \ {NoRow} : row' = [row EXCEPT ![o] = r] /\ r.state = "pending"
<1>1. PICK answer \in Answers : row' = [row EXCEPT ![o] = FileAs(answer, "pending")]
  BY DEF FileNew
<1>2. FileAs(answer, "pending") \in Rows \ {NoRow} /\ FileAs(answer, "pending").state = "pending"
  BY Filing DEF States
<1>3. row[o] = NoRow /\ byUser' = byUser \ {o} /\ UNCHANGED <<indexed, doing>>
  BY DEF FileNew, Free, Filed
<1>4. Clear(o)
  BY DEF FileNew, Free, Untouched, Calm, Clear, At
<1> QED BY <1>1, <1>2, <1>3, <1>4

LEMMA PromoteByHandEffect ==
  ASSUME Calm, TrustInv, NEW a \in Actors, NEW o \in Outputs, PromoteByHand(a, o)
  PROVE  /\ Clear(o) /\ doing[a] = NoTask /\ UNCHANGED <<row, indexed, byUser>>
         /\ \E t \in Tasks : /\ doing' = [doing EXCEPT ![a] = t]
                             /\ t.op \in {"promote", "resolve"} /\ t.step = "read" /\ t.id = o
<1>1. PICK op \in {"promote", "resolve"} :
        doing' = [doing EXCEPT ![a] = [NoTask EXCEPT !.op = op, !.step = "read", !.id = o]]
  BY DEF PromoteByHand
<1> DEFINE t == [NoTask EXCEPT !.op = op, !.step = "read", !.id = o]
<1>2. t \in Tasks /\ t.op = op /\ t.step = "read" /\ t.id = o
  BY DEF NoTask, Tasks
<1>3. Clear(o) /\ doing[a] = NoTask /\ UNCHANGED <<row, indexed, byUser>>
  BY DEF PromoteByHand, Idle, Untouched, Calm, Clear, At
<1>4. doing' = [doing EXCEPT ![a] = t]
  BY <1>1
<1> HIDE DEF t
<1> QED BY <1>2, <1>3, <1>4

LEMMA ListingEffect ==
  ASSUME Calm, TrustInv, NEW a \in Actors, BeginVerify(a) \/ BeginCheck(a)
  PROVE  /\ doing[a] = NoTask /\ UNCHANGED <<row, indexed, byUser>>
         /\ \E t \in Tasks :
              /\ doing' = [doing EXCEPT ![a] = t] /\ t.step = "next" /\ t.op \in {"verify", "check"}
              /\ t.op = "verify" => \A b \in Actors : doing[b].op # "verify"
<1>1. CASE BeginVerify(a)
  <2>1. PICK some \in SUBSET InState("pending") :
          doing' = [doing EXCEPT ![a] = [NoTask EXCEPT !.op = "verify", !.step = "next",
                                           !.listed = {<<o, row[o].confirmations>> : o \in some}]]
    BY <1>1 DEF BeginVerify
  <2> DEFINE list == {<<o, row[o].confirmations>> : o \in some}
             t == [NoTask EXCEPT !.op = "verify", !.step = "next", !.listed = list]
  <2>2. \A o \in some : o \in Outputs /\ row[o].confirmations \in Nat
    BY DEF InState, Filed, TrustInv, Shape, Rows
  <2>3. list \in SUBSET (Outputs \X Nat)
    BY <2>2
  <2>4. doing' = [doing EXCEPT ![a] = t]
    BY <2>1
  <2> HIDE DEF list
  <2>5. t \in Tasks /\ t.op = "verify" /\ t.step = "next"
    BY <2>3 DEF NoTask, Tasks
  <2>6. doing[a] = NoTask /\ UNCHANGED <<row, indexed, byUser>>
        /\ \A b \in Actors : doing[b].op # "verify"
    BY <1>1 DEF BeginVerify, Idle, Verifying, Calm
  <2> HIDE DEF t
  <2> QED BY <2>4, <2>5, <2>6
<1>2. CASE BeginCheck(a)
  <2> DEFINE list == {<<o, 0>> : o \in InState("confirmed")}
             t == [NoTask EXCEPT !.op = "check", !.step = "next", !.listed = list]
  <2>1. list \in SUBSET (Outputs \X Nat)
    BY DEF InState, Filed
  <2>2. doing[a] = NoTask /\ UNCHANGED <<row, indexed, byUser>> /\ doing' = [doing EXCEPT ![a] = t]
    BY <1>2 DEF BeginCheck, Idle
  <2> HIDE DEF list
  <2>3. t \in Tasks /\ t.op = "check" /\ t.step = "next"
    BY <2>1 DEF NoTask, Tasks
  <2> HIDE DEF t
  <2> QED BY <2>2, <2>3
<1> QED BY <1>1, <1>2

LEMMA DeindexEffect ==
  ASSUME TrustInv, NEW a \in Actors, Deindex(a)
  PROVE  /\ doing[a].step = "deindex" /\ UNCHANGED <<row, byUser>>
         /\ \/ indexed' = [indexed EXCEPT ![doing[a].id] = NoAnswer]
            \/ ~Deletes /\ UNCHANGED indexed
         /\ \E t \in Tasks : /\ doing' = [doing EXCEPT ![a] = t] /\ t.op = doing[a].op
                             /\ t.id = doing[a].id /\ t.step \in {"next", "delete"}
<1> DEFINE s == IF doing[a].op = "check" THEN "next" ELSE "delete"
           t == [doing[a] EXCEPT !.step = s]
<1>1. doing[a] \in Tasks /\ s \in Steps /\ s \in {"next", "delete"}
  BY DEF TrustInv, Shape, Steps
<1>2. doing' = [doing EXCEPT ![a] = t]
  BY DEF Deindex, Go, TrustInv, Shape
<1> HIDE DEF s
<1>3. t \in Tasks /\ t.op = doing[a].op /\ t.id = doing[a].id /\ t.step = s
  BY <1>1, Moved
<1>4. /\ doing[a].step = "deindex" /\ UNCHANGED <<row, byUser>>
      /\ \/ indexed' = [indexed EXCEPT ![doing[a].id] = NoAnswer]
         \/ ~Deletes /\ UNCHANGED indexed
  BY DEF Deindex, At, Deletes
<1> HIDE DEF t
<1> QED BY <1>1, <1>2, <1>3, <1>4

LEMMA PromoteIndexEffect ==
  ASSUME TrustInv, NEW a \in Actors, PromoteIndex(a)
  PROVE  /\ doing[a].step = "index" /\ UNCHANGED <<row, byUser>>
         /\ indexed' = [indexed EXCEPT ![doing[a].id] = doing[a].answer]
         /\ \E t \in Tasks : /\ doing' = [doing EXCEPT ![a] = t] /\ t.op = doing[a].op
                             /\ t.id = doing[a].id /\ t.step = "mark"
<1> DEFINE t == [doing[a] EXCEPT !.step = "mark"]
<1>1. doing[a] \in Tasks
  BY DEF TrustInv, Shape
<1>2. doing' = [doing EXCEPT ![a] = t]
  BY DEF PromoteIndex, Go, TrustInv, Shape
<1>3. t \in Tasks /\ t.op = doing[a].op /\ t.id = doing[a].id /\ t.step = "mark"
  BY <1>1, Moved DEF Steps
<1>4. /\ doing[a].step = "index" /\ UNCHANGED <<row, byUser>>
      /\ indexed' = [indexed EXCEPT ![doing[a].id] = doing[a].answer]
  BY DEF PromoteIndex, At
<1> HIDE DEF t
<1> QED BY <1>2, <1>3, <1>4

LEMMA RejectDeleteEffect ==
  ASSUME TrustInv, NEW a \in Actors, RejectDelete(a)
  PROVE  /\ doing[a].step = "delete" /\ UNCHANGED <<indexed, byUser>>
         /\ row' = [row EXCEPT ![doing[a].id] = NoRow]
         /\ \E t \in Tasks : /\ doing' = [doing EXCEPT ![a] = t] /\ t.op \in {"none", doing[a].op}
                             /\ t.step \in {"none", "next"}
<1>1. doing[a] \in Tasks
  BY DEF TrustInv, Shape
<1>2. /\ doing[a].step = "delete" /\ UNCHANGED <<indexed, byUser>>
      /\ row' = [row EXCEPT ![doing[a].id] = NoRow]
  BY DEF RejectDelete, At
<1>3. CASE Go(a, "next")
  <2> DEFINE t == [doing[a] EXCEPT !.step = "next"]
  <2>1. doing' = [doing EXCEPT ![a] = t]
    BY <1>3 DEF Go, TrustInv, Shape
  <2>2. t \in Tasks /\ t.op = doing[a].op /\ t.step = "next"
    BY <1>1, Moved DEF Steps
  <2> HIDE DEF t
  <2> QED BY <1>2, <2>1, <2>2
<1>4. CASE Ends(a)
  BY <1>2, <1>4, NoTaskOK DEF Ends
<1> QED BY <1>3, <1>4 DEF RejectDelete

LEMMA AfterPromotionEffect ==
  ASSUME TrustInv, NEW a \in Actors, AfterPromotion(a)
  PROVE  \E t \in Tasks : /\ doing' = [doing EXCEPT ![a] = t] /\ t.step \in {"none", "next"}
                          /\ t.op \in {"none", doing[a].op}
<1>1. doing[a] \in Tasks /\ "next" \in Steps
  BY DEF TrustInv, Shape, Steps
<1>2. CASE Go(a, "next")
  <2>1. doing' = [doing EXCEPT ![a] = [doing[a] EXCEPT !.step = "next"]]
    BY <1>2 DEF Go, TrustInv, Shape
  <2> QED BY <1>1, <2>1, Moved
<1>3. CASE doing' = [doing EXCEPT ![a].step = "next",
                                ![a].listed = {<<o, 0>> : o \in Filed \ {doing[a].id}}]
  <2> DEFINE list == {<<o, 0>> : o \in Filed \ {doing[a].id}}
             t == [doing[a] EXCEPT !.step = "next", !.listed = list]
  <2>1. list \in SUBSET (Outputs \X Nat)
    BY DEF Filed
  <2>2. doing' = [doing EXCEPT ![a] = t]
    BY <1>3 DEF TrustInv, Shape
  <2> HIDE DEF list
  <2>3. t \in Tasks /\ t.step = "next" /\ t.op = doing[a].op
    BY <1>1, <2>1 DEF Tasks
  <2> HIDE DEF t
  <2> QED BY <2>2, <2>3
<1>4. CASE Ends(a)
  BY <1>4, NoTaskOK DEF Ends
<1> QED BY <1>2, <1>3, <1>4 DEF AfterPromotion

LEMMA PromoteMarkEffect ==
  ASSUME TrustInv, NEW a \in Actors, PromoteMark(a)
  PROVE  /\ doing[a].step = "mark" /\ UNCHANGED indexed
         /\ \/ row[doing[a].id] = NoRow /\ UNCHANGED row
            \/ \E r \in Rows \ {NoRow} :
                 /\ row[doing[a].id] # NoRow /\ row' = [row EXCEPT ![doing[a].id] = r]
                 /\ r.state = "confirmed" /\ r.answer = row[doing[a].id].answer
                 /\ Earned(row[doing[a].id]) => Earned(r)
         /\ byUser' = IF doing[a].op \in {"promote", "resolve"}
                      THEN byUser \union {doing[a].id} ELSE byUser
         /\ \E t \in Tasks : /\ doing' = [doing EXCEPT ![a] = t] /\ t.op \in {"none", doing[a].op}
                             /\ t.step \in {"none", "next"}
<1> DEFINE o == doing[a].id
           r == [row[o] EXCEPT !.state = "confirmed"]
<1>1. /\ doing[a].step = "mark" /\ UNCHANGED indexed /\ AfterPromotion(a)
      /\ byUser' = IF doing[a].op \in {"promote", "resolve"} THEN byUser \union {o} ELSE byUser
  BY DEF PromoteMark, At
<1>2. o \in Outputs
  BY <1>1 DEF TrustInv, Exclusive, AtOutput, Promotion
<1>3. row[o] \in Rows
  BY <1>2 DEF TrustInv, Shape
<1>4. r \in Rows /\ r.state = "confirmed" /\ r.answer = row[o].answer
      /\ r.grounded = row[o].grounded /\ r.confirmations = row[o].confirmations /\ r # NoRow
  BY <1>3, NoRowOK DEF Rows, States
<1>5. row' = IF row[o] # NoRow THEN [row EXCEPT ![o] = r] ELSE row
  BY <1>2 DEF PromoteMark, Filed, TrustInv, Shape
<1>6. \E t \in Tasks : /\ doing' = [doing EXCEPT ![a] = t] /\ t.op \in {"none", doing[a].op}
                       /\ t.step \in {"none", "next"}
  BY <1>1, AfterPromotionEffect
<1>7. Earned(row[o]) => Earned(r)
  BY <1>4 DEF Earned
<1> HIDE DEF r
<1> QED BY <1>1, <1>3, <1>4, <1>5, <1>6, <1>7

-----------------------------------------------------------------------------
LEMMA TrustInitOK == TrustInit => TrustInv /\ IndexFollows
<1> SUFFICES ASSUME TrustInit PROVE TrustInv /\ IndexFollows
  OBVIOUS
<1>1. NoRow \in Rows /\ NoTask \in Tasks
  BY DEF NoRow, Rows, States, NoTask, Tasks
<1>2. \A o \in Outputs : row[o] = NoRow /\ indexed[o] = NoAnswer
  BY DEF TrustInit
<1>3. \A a \in Actors : doing[a].step = "none" /\ doing[a].op = "none"
  BY DEF TrustInit, NoTask
<1>4. Shape
  BY <1>1 DEF TrustInit, Shape
<1>5. NoRow.state = "none"
  BY DEF NoRow
<1> QED
  BY <1>2, <1>3, <1>4, <1>5 DEF TrustInv, Exclusive, IndexFollows, Promised, ConfirmedEarned,
     AtOutput, Promotion

LEMMA ShapeNext == Calm /\ TrustInv /\ TrustNext => Shape'
<1> SUFFICES ASSUME Calm, TrustInv, TrustNext PROVE Shape'
  OBVIOUS
<1> USE NoTaskOK, NoRowOK DEF TrustInv, Shape
<1>1. ASSUME NEW o \in Outputs, FileNew(o) PROVE Shape'
  BY <1>1, FileNewEffect
<1>2. ASSUME NEW o \in Outputs, Agree(o) PROVE Shape'
  BY <1>2, AgreeEffect
<1>3. ASSUME NEW o \in Outputs, NEW m \in Outputs, FileConflict(o, m) PROVE Shape'
  BY <1>3, FileConflictEffect
<1>4. ASSUME NEW a \in Actors, NEW o \in Outputs, AgreeAndPromote(a, o) PROVE Shape'
  BY <1>4, AgreeAndPromoteEffect
<1>5. ASSUME NEW a \in Actors, NEW o \in Outputs, PromoteByHand(a, o) PROVE Shape'
  BY <1>5, PromoteByHandEffect
<1>6. ASSUME NEW a \in Actors, PromoteRead(a) PROVE Shape'
  BY <1>6 DEF PromoteRead, AfterPromotion, Filed, NoTask, Ends, Go, Tasks, At
<1>7. ASSUME NEW a \in Actors, PromoteIndex(a) PROVE Shape'
  <2>1. doing[a].answer \in Answers \union {NoAnswer}
    BY DEF Tasks
  <2> QED BY <1>7, <2>1, PromoteIndexEffect
<1>8. ASSUME NEW a \in Actors, PromoteMark(a) PROVE Shape'
  BY <1>8, PromoteMarkEffect
<1>9. ASSUME NEW a \in Actors, BeginVerify(a) PROVE Shape'
  BY <1>9, ListingEffect
<1>10. ASSUME NEW a \in Actors, Ground(a) PROVE Shape'
  BY <1>10, GroundEffect
<1>11. ASSUME NEW a \in Actors, BeginCheck(a) PROVE Shape'
  BY <1>11, ListingEffect
<1>12. ASSUME NEW a \in Actors, Check(a) PROVE Shape'
  BY <1>12, CheckEffect
<1>13. ASSUME NEW a \in Actors, Reject(a) PROVE Shape'
  BY <1>13, RejectEffect
<1>14. ASSUME NEW a \in Actors, Deindex(a) PROVE Shape'
  BY <1>14, DeindexEffect
<1>15. ASSUME NEW a \in Actors, RejectDelete(a) PROVE Shape'
  BY <1>15, RejectDeleteEffect
<1>16. ASSUME NEW a \in Actors, ListDone(a) PROVE Shape'
  BY <1>16 DEF ListDone, Ends, NoTask, Tasks, At
<1>17. ASSUME NEW a \in Actors, GiveUp(a) PROVE Shape'
  BY <1>17 DEF GiveUp, Ends, NoTask, Idle, Tasks, At
<1> QED
   BY ONLY TrustNext, <1>1, <1>2, <1>3, <1>4, <1>5, <1>6, <1>7, <1>8, <1>9, <1>10, <1>11,
     <1>12, <1>13, <1>14, <1>15, <1>16, <1>17 DEF TrustNext

\* A process that goes to an output where nobody is keeps them apart.
LEMMA TakesPlace ==
  ASSUME TrustInv, NEW a \in Actors, NEW t \in Tasks, doing' = [doing EXCEPT ![a] = t],
         t.step \in AtOutput => t.id \in Outputs /\ Clear(t.id),
         t.op = "verify" => doing[a].op = "verify"
  PROVE  Exclusive'
<1>0. /\ doing \in [Actors -> Tasks] /\ "next" \notin AtOutput
      /\ doing'[a] = t /\ \A b \in Actors : b # a => doing'[b] = doing[b]
  BY DEF TrustInv, Shape, AtOutput, Promotion
<1>1. \A b \in Actors : doing[b].step \in AtOutput => doing[b].id \in Outputs
  BY DEF TrustInv, Exclusive
<1>2. \A b \in Actors : b # a /\ t.step \in AtOutput /\ doing[b].step \in AtOutput =>
        doing[b].id # t.id
  BY <1>0 DEF Clear
<1>3. \A b, c \in Actors :
        b # c /\ doing[b].step \in AtOutput /\ doing[c].step \in AtOutput =>
          doing[b].id # doing[c].id
  BY DEF TrustInv, Exclusive
<1>4. \A b, c \in Actors : doing[b].op = "verify" /\ doing[c].op = "verify" => b = c
  BY DEF TrustInv, Exclusive
<1>5. \A b \in Actors : doing'[b].step \in AtOutput => doing'[b].id \in Outputs
  BY <1>0, <1>1
<1>6. \A b, c \in Actors :
        b # c /\ doing'[b].step \in AtOutput /\ doing'[c].step \in AtOutput =>
          doing'[b].id # doing'[c].id
  BY <1>0, <1>2, <1>3
<1>7. \A b, c \in Actors : doing'[b].op = "verify" /\ doing'[c].op = "verify" => b = c
  BY <1>0, <1>4
<1> QED BY <1>5, <1>6, <1>7 DEF Exclusive

LEMMA ExclusiveNext == Calm /\ TrustInv /\ TrustNext => Exclusive'
<1> SUFFICES ASSUME Calm, TrustInv, TrustNext PROVE Exclusive'
  OBVIOUS
<1> USE NoTaskOK, NoRowOK DEF TrustInv, Shape, Tasks, Exclusive, AtOutput, Promotion, Clear
<1>1. ASSUME NEW o \in Outputs, FileNew(o) PROVE Exclusive'
  BY <1>1, FileNewEffect
<1>2. ASSUME NEW o \in Outputs, Agree(o) PROVE Exclusive'
  BY <1>2, AgreeEffect
<1>3. ASSUME NEW o \in Outputs, NEW m \in Outputs, FileConflict(o, m) PROVE Exclusive'
  BY <1>3, FileConflictEffect
<1>4. ASSUME NEW a \in Actors, NEW o \in Outputs, AgreeAndPromote(a, o) PROVE Exclusive'
  <2> HIDE NoTaskOK, NoRowOK DEF TrustInv, Shape, Tasks, Exclusive, AtOutput, Promotion, Clear
  <2>1. Clear(o)
    BY <1>4, AgreeAndPromoteEffect
  <2>2. PICK t \in Tasks : /\ doing' = [doing EXCEPT ![a] = t]
                           /\ t.op = "query" /\ t.step = "read" /\ t.id = o
    BY <1>4, AgreeAndPromoteEffect
  <2> QED BY <2>1, <2>2, TakesPlace
<1>5. ASSUME NEW a \in Actors, NEW o \in Outputs, PromoteByHand(a, o) PROVE Exclusive'
  BY <1>5, PromoteByHandEffect
<1>6. ASSUME NEW a \in Actors, PromoteRead(a) PROVE Exclusive'
  BY <1>6 DEF PromoteRead, AfterPromotion, Filed, NoTask, Ends, Go, Tasks, At
<1>7. ASSUME NEW a \in Actors, PromoteIndex(a) PROVE Exclusive'
  BY <1>7, PromoteIndexEffect
<1>8. ASSUME NEW a \in Actors, PromoteMark(a) PROVE Exclusive'
  <2>1. PICK t \in Tasks : doing' = [doing EXCEPT ![a] = t] /\ t.op \in {"none", doing[a].op}
             /\ t.step \in {"none", "next"}
    BY <1>8, PromoteMarkEffect
  <2> QED BY <2>1
<1>9. ASSUME NEW a \in Actors, BeginVerify(a) PROVE Exclusive'
  <2>1. PICK t \in Tasks : doing' = [doing EXCEPT ![a] = t] /\ t.step = "next"
             /\ (t.op = "verify" => \A b \in Actors : doing[b].op # "verify")
    BY <1>9, ListingEffect
  <2> QED BY <2>1
<1>10. ASSUME NEW a \in Actors, Ground(a) PROVE Exclusive'
  BY <1>10, GroundEffect
<1>11. ASSUME NEW a \in Actors, BeginCheck(a) PROVE Exclusive'
  <2>1. PICK t \in Tasks : doing' = [doing EXCEPT ![a] = t] /\ t.step = "next"
             /\ (t.op = "verify" => \A b \in Actors : doing[b].op # "verify")
    BY <1>11, ListingEffect
  <2> QED BY <2>1
<1>12. ASSUME NEW a \in Actors, Check(a) PROVE Exclusive'
  <2> HIDE NoTaskOK, NoRowOK DEF TrustInv, Shape, Tasks, Exclusive, AtOutput, Promotion, Clear
  <2>1. PICK t \in Tasks : /\ doing' = [doing EXCEPT ![a] = t] /\ t.op = "check"
                           /\ \/ t.step = "next"
                              \/ t.id \in Outputs /\ Clear(t.id)
    BY <1>12, CheckEffect
  <2>2. t.step \in AtOutput => t.id \in Outputs /\ Clear(t.id)
    BY <2>1 DEF AtOutput, Promotion
  <2> QED BY <2>1, <2>2, TakesPlace
<1>13. ASSUME NEW a \in Actors, Reject(a) PROVE Exclusive'
  BY <1>13, RejectEffect
<1>14. ASSUME NEW a \in Actors, Deindex(a) PROVE Exclusive'
  BY <1>14, DeindexEffect
<1>15. ASSUME NEW a \in Actors, RejectDelete(a) PROVE Exclusive'
  BY <1>15, RejectDeleteEffect
<1>16. ASSUME NEW a \in Actors, ListDone(a) PROVE Exclusive'
  BY <1>16 DEF ListDone, Ends, NoTask, Tasks, At
<1>17. ASSUME NEW a \in Actors, GiveUp(a) PROVE Exclusive'
  BY <1>17 DEF GiveUp, Ends, NoTask, Idle, Tasks, At
<1> QED
   BY ONLY TrustNext, <1>1, <1>2, <1>3, <1>4, <1>5, <1>6, <1>7, <1>8, <1>9, <1>10, <1>11,
     <1>12, <1>13, <1>14, <1>15, <1>16, <1>17 DEF TrustNext

LEMMA IndexNext ==
  Calm /\ Deletes /\ TrustInv /\ IndexFollows /\ TrustNext => IndexFollows'
<1> SUFFICES ASSUME Calm, Deletes, TrustInv, IndexFollows, TrustNext PROVE IndexFollows'
  OBVIOUS
<1> USE NoTaskOK, NoRowOK DEF TrustInv, Shape, Exclusive, AtOutput, Promotion, IndexFollows,
   Clear
<1>1. ASSUME NEW o \in Outputs, FileNew(o) PROVE IndexFollows'
  BY <1>1, FileNewEffect
<1>2. ASSUME NEW o \in Outputs, Agree(o) PROVE IndexFollows'
  BY <1>2, AgreeEffect
<1>3. ASSUME NEW o \in Outputs, NEW m \in Outputs, FileConflict(o, m) PROVE IndexFollows'
  BY <1>3, FileConflictEffect
<1>4. ASSUME NEW a \in Actors, NEW o \in Outputs, AgreeAndPromote(a, o) PROVE IndexFollows'
  BY <1>4, AgreeAndPromoteEffect
<1>5. ASSUME NEW a \in Actors, NEW o \in Outputs, PromoteByHand(a, o) PROVE IndexFollows'
  BY <1>5, PromoteByHandEffect
<1>6. ASSUME NEW a \in Actors, PromoteRead(a) PROVE IndexFollows'
  BY <1>6 DEF PromoteRead, AfterPromotion, Filed, NoTask, Ends, Go, Tasks, At
<1>7. ASSUME NEW a \in Actors, PromoteIndex(a) PROVE IndexFollows'
  BY <1>7, PromoteIndexEffect
<1>8. ASSUME NEW a \in Actors, PromoteMark(a) PROVE IndexFollows'
  BY <1>8, PromoteMarkEffect
<1>9. ASSUME NEW a \in Actors, BeginVerify(a) PROVE IndexFollows'
  BY <1>9, ListingEffect
<1>10. ASSUME NEW a \in Actors, Ground(a) PROVE IndexFollows'
  BY <1>10, GroundEffect
<1>11. ASSUME NEW a \in Actors, BeginCheck(a) PROVE IndexFollows'
  BY <1>11, ListingEffect
<1>12. ASSUME NEW a \in Actors, Check(a) PROVE IndexFollows'
  BY <1>12, CheckEffect
<1>13. ASSUME NEW a \in Actors, Reject(a) PROVE IndexFollows'
  BY <1>13, RejectEffect
<1>14. ASSUME NEW a \in Actors, Deindex(a) PROVE IndexFollows'
  BY <1>14, DeindexEffect
<1>15. ASSUME NEW a \in Actors, RejectDelete(a) PROVE IndexFollows'
  BY <1>15, RejectDeleteEffect
<1>16. ASSUME NEW a \in Actors, ListDone(a) PROVE IndexFollows'
  BY <1>16 DEF ListDone, Ends, NoTask, Tasks, At
<1>17. ASSUME NEW a \in Actors, GiveUp(a) PROVE IndexFollows'
  BY <1>17 DEF GiveUp, Ends, NoTask, Idle, Tasks, At
<1> QED
   BY ONLY TrustNext, <1>1, <1>2, <1>3, <1>4, <1>5, <1>6, <1>7, <1>8, <1>9, <1>10, <1>11,
     <1>12, <1>13, <1>14, <1>15, <1>16, <1>17 DEF TrustNext

LEMMA PromisedNext == Calm /\ TrustInv /\ TrustNext => Promised'
<1> SUFFICES ASSUME Calm, TrustInv, TrustNext PROVE Promised'
  OBVIOUS
<1> USE NoTaskOK, NoRowOK DEF TrustInv, Shape, Exclusive, AtOutput, Promotion, Promised,
   Earned, Clear
<1>1. ASSUME NEW o \in Outputs, FileNew(o) PROVE Promised'
  BY <1>1, FileNewEffect
<1>2. ASSUME NEW o \in Outputs, Agree(o) PROVE Promised'
  BY <1>2, AgreeEffect
<1>3. ASSUME NEW o \in Outputs, NEW m \in Outputs, FileConflict(o, m) PROVE Promised'
  BY <1>3, FileConflictEffect
<1>4. ASSUME NEW a \in Actors, NEW o \in Outputs, AgreeAndPromote(a, o) PROVE Promised'
  BY <1>4, AgreeAndPromoteEffect
<1>5. ASSUME NEW a \in Actors, NEW o \in Outputs, PromoteByHand(a, o) PROVE Promised'
  BY <1>5, PromoteByHandEffect
<1>6. ASSUME NEW a \in Actors, PromoteRead(a) PROVE Promised'
  BY <1>6 DEF PromoteRead, AfterPromotion, Filed, NoTask, Ends, Go, Tasks, At
<1>7. ASSUME NEW a \in Actors, PromoteIndex(a) PROVE Promised'
  BY <1>7, PromoteIndexEffect
<1>8. ASSUME NEW a \in Actors, PromoteMark(a) PROVE Promised'
  BY <1>8, PromoteMarkEffect
<1>9. ASSUME NEW a \in Actors, BeginVerify(a) PROVE Promised'
  BY <1>9, ListingEffect
<1>10. ASSUME NEW a \in Actors, Ground(a) PROVE Promised'
  BY <1>10, GroundEffect
<1>11. ASSUME NEW a \in Actors, BeginCheck(a) PROVE Promised'
  BY <1>11, ListingEffect
<1>12. ASSUME NEW a \in Actors, Check(a) PROVE Promised'
  BY <1>12, CheckEffect
<1>13. ASSUME NEW a \in Actors, Reject(a) PROVE Promised'
  BY <1>13, RejectEffect
<1>14. ASSUME NEW a \in Actors, Deindex(a) PROVE Promised'
  BY <1>14, DeindexEffect
<1>15. ASSUME NEW a \in Actors, RejectDelete(a) PROVE Promised'
  BY <1>15, RejectDeleteEffect
<1>16. ASSUME NEW a \in Actors, ListDone(a) PROVE Promised'
  BY <1>16 DEF ListDone, Ends, NoTask, Tasks, At
<1>17. ASSUME NEW a \in Actors, GiveUp(a) PROVE Promised'
  BY <1>17 DEF GiveUp, Ends, NoTask, Idle, Tasks, At
<1> QED
   BY ONLY TrustNext, <1>1, <1>2, <1>3, <1>4, <1>5, <1>6, <1>7, <1>8, <1>9, <1>10, <1>11,
     <1>12, <1>13, <1>14, <1>15, <1>16, <1>17 DEF TrustNext

LEMMA ConfirmedNext == Calm /\ TrustInv /\ TrustNext => ConfirmedEarned'
<1> SUFFICES ASSUME Calm, TrustInv, TrustNext PROVE ConfirmedEarned'
  OBVIOUS
<1> USE NoTaskOK, NoRowOK DEF TrustInv, Shape, Exclusive, AtOutput, Promotion, Promised,
   ConfirmedEarned, Earned, Clear
<1>1. ASSUME NEW o \in Outputs, FileNew(o) PROVE ConfirmedEarned'
  BY <1>1, FileNewEffect
<1>2. ASSUME NEW o \in Outputs, Agree(o) PROVE ConfirmedEarned'
  BY <1>2, AgreeEffect
<1>3. ASSUME NEW o \in Outputs, NEW m \in Outputs, FileConflict(o, m) PROVE ConfirmedEarned'
  BY <1>3, FileConflictEffect
<1>4. ASSUME NEW a \in Actors, NEW o \in Outputs, AgreeAndPromote(a, o)
      PROVE ConfirmedEarned'
  BY <1>4, AgreeAndPromoteEffect
<1>5. ASSUME NEW a \in Actors, NEW o \in Outputs, PromoteByHand(a, o) PROVE ConfirmedEarned'
  BY <1>5, PromoteByHandEffect
<1>6. ASSUME NEW a \in Actors, PromoteRead(a) PROVE ConfirmedEarned'
  BY <1>6 DEF PromoteRead, AfterPromotion, Filed, NoTask, Ends, Go, Tasks, At
<1>7. ASSUME NEW a \in Actors, PromoteIndex(a) PROVE ConfirmedEarned'
  BY <1>7, PromoteIndexEffect
<1>8. ASSUME NEW a \in Actors, PromoteMark(a) PROVE ConfirmedEarned'
  BY <1>8, PromoteMarkEffect
<1>9. ASSUME NEW a \in Actors, BeginVerify(a) PROVE ConfirmedEarned'
  BY <1>9, ListingEffect
<1>10. ASSUME NEW a \in Actors, Ground(a) PROVE ConfirmedEarned'
  BY <1>10, GroundEffect
<1>11. ASSUME NEW a \in Actors, BeginCheck(a) PROVE ConfirmedEarned'
  BY <1>11, ListingEffect
<1>12. ASSUME NEW a \in Actors, Check(a) PROVE ConfirmedEarned'
  BY <1>12, CheckEffect
<1>13. ASSUME NEW a \in Actors, Reject(a) PROVE ConfirmedEarned'
  BY <1>13, RejectEffect
<1>14. ASSUME NEW a \in Actors, Deindex(a) PROVE ConfirmedEarned'
  BY <1>14, DeindexEffect
<1>15. ASSUME NEW a \in Actors, RejectDelete(a) PROVE ConfirmedEarned'
  BY <1>15, RejectDeleteEffect
<1>16. ASSUME NEW a \in Actors, ListDone(a) PROVE ConfirmedEarned'
  BY <1>16 DEF ListDone, Ends, NoTask, Tasks, At
<1>17. ASSUME NEW a \in Actors, GiveUp(a) PROVE ConfirmedEarned'
  BY <1>17 DEF GiveUp, Ends, NoTask, Idle, Tasks, At
<1> QED
   BY ONLY TrustNext, <1>1, <1>2, <1>3, <1>4, <1>5, <1>6, <1>7, <1>8, <1>9, <1>10, <1>11,
     <1>12, <1>13, <1>14, <1>15, <1>16, <1>17 DEF TrustNext

-----------------------------------------------------------------------------
LEMMA TrustNextOK == Calm /\ TrustInv /\ [TrustNext]_trustVars => TrustInv'
<1> SUFFICES ASSUME Calm, TrustInv, [TrustNext]_trustVars PROVE TrustInv'
  OBVIOUS
<1>1. CASE TrustNext
  BY <1>1, ShapeNext, ExclusiveNext, PromisedNext, ConfirmedNext DEF TrustInv
<1>2. CASE UNCHANGED trustVars
  BY <1>2 DEF trustVars, TrustInv, Shape, Exclusive, Promised, ConfirmedEarned
<1> QED BY <1>1, <1>2

\* What a search shows of an output is the filed answer, and was promoted by the user or has
\* its grounding and its agreeing answers (promote.go, verify.go, source_check.go): for any
\* number of outputs, answers and processes, if no output is touched while it is promoted and
\* the search stores delete what they are told to.
THEOREM ShownIsEarned == ASSUME Calm, Deletes PROVE TrustSpec => []TrustIsEarned
<1>1. TrustInit => TrustInv /\ IndexFollows
  BY TrustInitOK
<1>2. TrustInv /\ IndexFollows /\ [TrustNext]_trustVars => (TrustInv /\ IndexFollows)'
  <2> SUFFICES ASSUME TrustInv, IndexFollows, [TrustNext]_trustVars
               PROVE  (TrustInv /\ IndexFollows)'
    OBVIOUS
  <2>1. TrustInv'
    BY TrustNextOK
  <2>2. IndexFollows'
    BY IndexNext DEF trustVars, IndexFollows
  <2> QED BY <2>1, <2>2
<1>3. TrustInv /\ IndexFollows => TrustIsEarned
  BY DEF TrustInv, IndexFollows, ConfirmedEarned, Earned, TrustIsEarned, Visible, InState, Filed
<1> QED BY <1>1, <1>2, <1>3, PTL DEF TrustSpec
-----------------------------------------------------------------------------
(* One answer.  Without blind filing a new output is the only live one, so two are live
   only when the user promoted one of them; verify promotes only what is still pending,
   and a query what it found live. *)

LiveStates == {"pending", "confirmed"}

VerifiesPending ==
  \A a \in Actors : doing[a].op = "verify" /\ doing[a].step \in Promotion =>
    row[doing[a].id].state = "pending"

OneLive ==
  \A o, p \in Outputs : o # p /\ row[o].state \in LiveStates /\ row[p].state \in LiveStates =>
    o \in byUser \/ p \in byUser

Sighted == Calm /\ "blind" \notin TrustRaces

LEMMA VerifiesPendingNext == Calm /\ TrustInv /\ VerifiesPending /\ TrustNext => VerifiesPending'
<1> SUFFICES ASSUME Calm, TrustInv, VerifiesPending, TrustNext PROVE VerifiesPending'
  OBVIOUS
<1> USE NoTaskOK, NoRowOK DEF TrustInv, Shape, Exclusive, AtOutput, Promotion, VerifiesPending, Clear
<1>1. ASSUME NEW o \in Outputs, FileNew(o) PROVE VerifiesPending'
  BY <1>1, FileNewEffect
<1>2. ASSUME NEW o \in Outputs, Agree(o) PROVE VerifiesPending'
  BY <1>2, AgreeEffect
<1>3. ASSUME NEW o \in Outputs, NEW m \in Outputs, FileConflict(o, m) PROVE VerifiesPending'
  BY <1>3, FileConflictEffect
<1>4. ASSUME NEW a \in Actors, NEW o \in Outputs, AgreeAndPromote(a, o) PROVE VerifiesPending'
  BY <1>4, AgreeAndPromoteEffect
<1>5. ASSUME NEW a \in Actors, NEW o \in Outputs, PromoteByHand(a, o) PROVE VerifiesPending'
  BY <1>5, PromoteByHandEffect
<1>6. ASSUME NEW a \in Actors, PromoteRead(a) PROVE VerifiesPending'
  BY <1>6 DEF PromoteRead, AfterPromotion, Filed, NoTask, Ends, Go, Tasks, At
<1>7. ASSUME NEW a \in Actors, PromoteIndex(a) PROVE VerifiesPending'
  BY <1>7, PromoteIndexEffect
<1>8. ASSUME NEW a \in Actors, PromoteMark(a) PROVE VerifiesPending'
  BY <1>8, PromoteMarkEffect
<1>9. ASSUME NEW a \in Actors, BeginVerify(a) PROVE VerifiesPending'
  <2>1. PICK t \in Tasks : doing' = [doing EXCEPT ![a] = t] /\ t.step = "next"
    BY <1>9, ListingEffect
  <2> QED BY <1>9, <2>1, ListingEffect
<1>10. ASSUME NEW a \in Actors, Ground(a) PROVE VerifiesPending'
  BY <1>10, GroundEffect
<1>11. ASSUME NEW a \in Actors, BeginCheck(a) PROVE VerifiesPending'
  <2>1. PICK t \in Tasks : doing' = [doing EXCEPT ![a] = t] /\ t.step = "next"
    BY <1>11, ListingEffect
  <2> QED BY <1>11, <2>1, ListingEffect
<1>12. ASSUME NEW a \in Actors, Check(a) PROVE VerifiesPending'
  BY <1>12, CheckEffect
<1>13. ASSUME NEW a \in Actors, Reject(a) PROVE VerifiesPending'
  BY <1>13, RejectEffect
<1>14. ASSUME NEW a \in Actors, Deindex(a) PROVE VerifiesPending'
  BY <1>14, DeindexEffect
<1>15. ASSUME NEW a \in Actors, RejectDelete(a) PROVE VerifiesPending'
  BY <1>15, RejectDeleteEffect
<1>16. ASSUME NEW a \in Actors, ListDone(a) PROVE VerifiesPending'
  BY <1>16 DEF ListDone, Ends, NoTask, Tasks, At
<1>17. ASSUME NEW a \in Actors, GiveUp(a) PROVE VerifiesPending'
  BY <1>17 DEF GiveUp, Ends, NoTask, Idle, Tasks, At
<1> QED
   BY ONLY TrustNext, <1>1, <1>2, <1>3, <1>4, <1>5, <1>6, <1>7, <1>8, <1>9, <1>10, <1>11, <1>12,
           <1>13, <1>14, <1>15, <1>16, <1>17 DEF TrustNext

LEMMA OneLiveNext == Sighted /\ TrustInv /\ VerifiesPending /\ OneLive /\ TrustNext => OneLive'
<1> SUFFICES ASSUME Sighted, TrustInv, VerifiesPending, OneLive, TrustNext PROVE OneLive'
  OBVIOUS
<1> USE NoTaskOK, NoRowOK DEF Sighted, TrustInv, Shape, Exclusive, AtOutput, Promotion, Promised, VerifiesPending, OneLive, LiveStates
<1>1. ASSUME NEW o \in Outputs, FileNew(o) PROVE OneLive'
  <2>1. \A p \in Outputs : row[p].state \notin LiveStates
    BY <1>1 DEF FileNew, Matches, Live, Filed
  <2> QED BY <1>1, <2>1, FileNewEffect
<1>2. ASSUME NEW o \in Outputs, Agree(o) PROVE OneLive'
  BY <1>2, AgreeEffect
<1>3. ASSUME NEW o \in Outputs, NEW m \in Outputs, FileConflict(o, m) PROVE OneLive'
  BY <1>3, FileConflictEffect
<1>4. ASSUME NEW a \in Actors, NEW o \in Outputs, AgreeAndPromote(a, o) PROVE OneLive'
  <2>1. row[o].state \in LiveStates
    BY <1>4 DEF AgreeAndPromote, Matches, Live, Filed
  <2> QED BY <1>4, <2>1, AgreeAndPromoteEffect
<1>5. ASSUME NEW a \in Actors, NEW o \in Outputs, PromoteByHand(a, o) PROVE OneLive'
  BY <1>5, PromoteByHandEffect
<1>6. ASSUME NEW a \in Actors, PromoteRead(a) PROVE OneLive'
  BY <1>6 DEF PromoteRead, AfterPromotion, Filed, NoTask, Ends, Go, Tasks, At
<1>7. ASSUME NEW a \in Actors, PromoteIndex(a) PROVE OneLive'
  BY <1>7, PromoteIndexEffect
<1>8. ASSUME NEW a \in Actors, PromoteMark(a) PROVE OneLive'
  BY <1>8, PromoteMarkEffect
<1>9. ASSUME NEW a \in Actors, BeginVerify(a) PROVE OneLive'
  BY <1>9, ListingEffect
<1>10. ASSUME NEW a \in Actors, Ground(a) PROVE OneLive'
  BY <1>10, GroundEffect
<1>11. ASSUME NEW a \in Actors, BeginCheck(a) PROVE OneLive'
  BY <1>11, ListingEffect
<1>12. ASSUME NEW a \in Actors, Check(a) PROVE OneLive'
  BY <1>12, CheckEffect
<1>13. ASSUME NEW a \in Actors, Reject(a) PROVE OneLive'
  BY <1>13, RejectEffect
<1>14. ASSUME NEW a \in Actors, Deindex(a) PROVE OneLive'
  BY <1>14, DeindexEffect
<1>15. ASSUME NEW a \in Actors, RejectDelete(a) PROVE OneLive'
  BY <1>15, RejectDeleteEffect
<1>16. ASSUME NEW a \in Actors, ListDone(a) PROVE OneLive'
  BY <1>16 DEF ListDone, Ends, NoTask, Tasks, At
<1>17. ASSUME NEW a \in Actors, GiveUp(a) PROVE OneLive'
  BY <1>17 DEF GiveUp, Ends, NoTask, Idle, Tasks, At
<1> QED
   BY ONLY TrustNext, <1>1, <1>2, <1>3, <1>4, <1>5, <1>6, <1>7, <1>8, <1>9, <1>10, <1>11, <1>12,
           <1>13, <1>14, <1>15, <1>16, <1>17 DEF TrustNext

\* Two outputs that searches show contradict each other only if the user promoted one of
\* them (process.go, verify.go, promote.go): for any number of outputs, answers and processes,
\* if no output is touched while it is promoted and each answer is filed after a search for
\* the similar ones.
THEOREM ShownAgree == ASSUME Sighted PROVE TrustSpec => []OneTrustedAnswer
<1> DEFINE Inv == TrustInv /\ VerifiesPending /\ OneLive
<1>1. TrustInit => Inv
  <2> SUFFICES ASSUME TrustInit PROVE VerifiesPending /\ OneLive
    BY TrustInitOK
  <2> QED BY NoTaskOK, NoRowOK DEF TrustInit, VerifiesPending, OneLive, LiveStates, Promotion
<1>2. Inv /\ [TrustNext]_trustVars => Inv'
  <2> SUFFICES ASSUME Inv, [TrustNext]_trustVars PROVE Inv'
    OBVIOUS
  <2>1. TrustInv'
    BY TrustNextOK DEF Sighted
  <2>2. CASE TrustNext
    BY <2>1, <2>2, VerifiesPendingNext, OneLiveNext DEF Sighted
  <2>3. CASE UNCHANGED trustVars
    BY <2>1, <2>3 DEF trustVars, VerifiesPending, OneLive
  <2> QED BY <2>2, <2>3
<1>3. Inv => OneTrustedAnswer
  BY DEF OneLive, LiveStates, OneTrustedAnswer, Visible, InState, Filed
<1> QED BY <1>1, <1>2, <1>3, PTL DEF TrustSpec

-----------------------------------------------------------------------------
(* Idempotent writes.  A dispatch is paid for by the key's first one or by a
   response that was lost since, as long as the response of the last one is
   either to come or in the store. *)

Responses == ToSet(lru) \ stale

InHand(k) == inflight[k] # NoWriter \/ k \in Responses

PaidFor == \A k \in IdemKeys :
  /\ handled[k] <= 1 + lost[k]
  /\ ~InHand(k) => handled[k] <= lost[k]

WriterType == [at : {"idle", "dispatch", "wait"}, key : IdemKeys \union {NoIdemKey},
               on : Writers \union {NoWriter}]

\* The entries of a sequence of keys, each at one place.
Distinct(s) ==
  s \in Seq(IdemKeys) /\ \A i, j \in 1..Len(s) : s[i] = s[j] => i = j

OrderType == Distinct(lru) /\ Len(lru) <= MaxEntries /\ stale \subseteq ToSet(lru)

CallsType ==
  /\ inflight \in [IdemKeys -> Writers \union {NoWriter}] /\ writer \in [Writers -> WriterType]
  /\ handled \in [IdemKeys -> Nat] /\ lost \in [IdemKeys -> Nat]

\* The calls under way and the requests that lead and follow them.
CallsMatch ==
  /\ \A k \in IdemKeys : inflight[k] # NoWriter =>
       writer[inflight[k]].at = "dispatch" /\ writer[inflight[k]].key = k
  /\ \A w \in Writers :
       /\ writer[w].at = "dispatch" => /\ writer[w].key \in IdemKeys
                                       /\ inflight[writer[w].key] = w
       /\ writer[w].at = "wait" => /\ writer[w].key \in IdemKeys /\ writer[w].on # NoWriter
                                   /\ inflight[writer[w].key] = writer[w].on
       /\ writer[w].at # "wait" => writer[w].on = NoWriter

IdemInv == OrderType /\ CallsType /\ PaidFor /\ CallsMatch

\* Taking the entry of k out takes out nothing else.
LEMMA WithoutEntry ==
  ASSUME Distinct(lru), NEW k \in IdemKeys
  PROVE  /\ Distinct(Without(k)) 
         /\ Len(Without(k)) = IF Stored(k) THEN Len(lru) - 1 ELSE Len(lru)
         /\ ToSet(Without(k)) = ToSet(lru) \ {k}
<1> DEFINE n == Len(lru)
<1>1. /\ lru \in Seq(IdemKeys) /\ n \in Nat /\ DOMAIN lru = 1..n
      /\ \A i, j \in 1..n : lru[i] = lru[j] => i = j
      /\ \A i \in 1..n : lru[i] \in IdemKeys
  BY DEF Distinct
<1>2. CASE ~Stored(k)
  <2>1. Without(k) = lru
    BY <1>2 DEF Without
  <2> QED BY <1>1, <1>2, <2>1 DEF Distinct, Stored
<1>3. CASE Stored(k)
  <2> DEFINE i == CHOOSE j \in DOMAIN lru : lru[j] = k
             front == SubSeq(lru, 1, i - 1)
             back == SubSeq(lru, i + 1, n)
             s == front \o back
  <2>1. i \in 1..n /\ lru[i] = k
    BY <1>1, <1>3 DEF Stored, ToSet
  <2>2. Without(k) = s
    BY <1>3 DEF Without, RemoveAt
  <2> HIDE DEF i
  <2>3. /\ front \in Seq(IdemKeys) /\ Len(front) = i - 1
        /\ \A j \in 1..(i - 1) : front[j] = lru[j]
    BY <1>1, <2>1
  <2>4. /\ back \in Seq(IdemKeys) /\ Len(back) = n - i
        /\ \A j \in 1..(n - i) : back[j] = lru[j + i]
    <3>1. i + 1 \in 1..(n + 1) /\ i + 1 \in Int /\ n \in 0..n /\ (n + 1) - (i + 1) = n - i
      BY <1>1, <2>1
    <3>2. \A j \in (i + 1)..n : lru[j] \in IdemKeys
      BY <1>1, <2>1
    <3>3. /\ back \in Seq(IdemKeys) /\ Len(back) = IF i + 1 <= n THEN n - (i + 1) + 1 ELSE 0
          /\ \A j \in 1..(n - (i + 1) + 1) : back[j] = lru[(i + 1) + j - 1]
      BY <1>1, <2>1, <3>1, <3>2, SubSeqProperties
    <3> HIDE DEF back
    <3>4. n \in Nat /\ i \in Nat /\ i <= n
      BY <1>1, <2>1
    <3>5. n - (i + 1) + 1 = n - i /\ \A j \in 1..(n - i) : (i + 1) + j - 1 = j + i
      BY <3>4
    <3>6. Len(back) = n - i
      BY <3>3, <3>4
    <3> QED BY <3>3, <3>5, <3>6
  <2> HIDE DEF front, back
  <2>5. /\ s \in Seq(IdemKeys) /\ Len(s) = n - 1
        /\ \A j \in 1..(n - 1) : s[j] = IF j < i THEN lru[j] ELSE lru[j + 1]
    <3>1. s \in Seq(IdemKeys) /\ Len(s) = Len(front) + Len(back)
      BY <2>3, <2>4, ConcatProperties
    <3>2. Len(s) = n - 1
      BY <1>1, <2>1, <2>3, <2>4, <3>1
    <3>3. \A j \in 1..(Len(front) + Len(back)) :
             s[j] = IF j <= Len(front) THEN front[j] ELSE back[j - Len(front)]
      BY <2>3, <2>4, ConcatProperties
    <3> HIDE DEF s
    <3>4. ASSUME NEW j \in 1..(n - 1), j < i PROVE s[j] = lru[j]
      <4>1. j \in 1..(Len(front) + Len(back)) /\ j <= Len(front) /\ j \in 1..(i - 1)
        BY <1>1, <2>1, <2>3, <2>4, <3>4
      <4> QED BY <2>3, <3>3, <4>1
    <3>5. ASSUME NEW j \in 1..(n - 1), ~(j < i) PROVE s[j] = lru[j + 1]
      <4>1. /\ j \in 1..(Len(front) + Len(back)) /\ ~(j <= Len(front))
            /\ j - Len(front) \in 1..(n - i) /\ (j - Len(front)) + i = j + 1
        BY <1>1, <2>1, <2>3, <2>4, <3>5
      <4> QED BY <2>4, <3>3, <4>1
    <3> QED BY <3>1, <3>2, <3>4, <3>5
  <2> HIDE DEF s
  <2>6. ASSUME NEW a \in 1..(n - 1), NEW b \in 1..(n - 1), s[a] = s[b] PROVE a = b
    <3> DEFINE f(j) == IF j < i THEN j ELSE j + 1
    <3>1. f(a) \in 1..n /\ f(b) \in 1..n /\ s[a] = lru[f(a)] /\ s[b] = lru[f(b)]
      BY <1>1, <2>1, <2>5
    <3>2. f(a) = f(b)
      BY <1>1, <2>6, <3>1
    <3> QED BY <1>1, <2>1, <3>2
  <2>7. ToSet(s) = ToSet(lru) \ {k}
    <3>1. DOMAIN s = 1..(n - 1)
      BY <1>1, <2>1, <2>5
    <3>2. ASSUME NEW x \in ToSet(s) PROVE x \in ToSet(lru) /\ x # k
      <4>1. PICK j \in 1..(n - 1) : x = s[j]
        BY <3>1, <3>2 DEF ToSet
      <4>2. PICK m \in 1..n : x = lru[m] /\ m # i
        BY <1>1, <2>1, <2>5, <4>1
      <4> QED BY <1>1, <2>1, <4>2 DEF ToSet
    <3>3. ASSUME NEW x \in ToSet(lru), x # k PROVE x \in ToSet(s)
      <4>1. PICK m \in 1..n : x = lru[m]
        BY <1>1 DEF ToSet
      <4>2. m # i
        BY <2>1, <3>3, <4>1
      <4>3. CASE m < i
        <5>1. m \in 1..(n - 1) /\ s[m] = lru[m]
          BY <1>1, <2>1, <2>5, <4>3
        <5> QED BY <3>1, <4>1, <5>1 DEF ToSet
      <4>4. CASE m > i
        <5>1. m - 1 \in 1..(n - 1) /\ ~(m - 1 < i) /\ (m - 1) + 1 = m
          BY <1>1, <2>1, <4>4
        <5>2. s[m - 1] = lru[m]
          BY <2>5, <5>1
        <5> QED BY <3>1, <4>1, <5>1, <5>2 DEF ToSet
      <4> QED BY <1>1, <2>1, <4>2, <4>3, <4>4
    <3> QED BY <3>2, <3>3
  <2>8. \A a, b \in 1..Len(s) : s[a] = s[b] => a = b
    BY <2>5, <2>6
  <2> QED BY <1>3, <2>2, <2>5, <2>7, <2>8 DEF Distinct
<1> QED BY <1>2, <1>3

LEMMA AppendEntry ==
  ASSUME NEW s, Distinct(s), NEW k \in IdemKeys, k \notin ToSet(s)
  PROVE  /\ Distinct(Append(s, k)) /\ Len(Append(s, k)) = Len(s) + 1
         /\ ToSet(Append(s, k)) = ToSet(s) \union {k}
<1> DEFINE n == Len(s)
           t == Append(s, k)
<1>1. n \in Nat /\ s \in Seq(IdemKeys) /\ DOMAIN s = 1..n
  BY DEF Distinct
<1>2. /\ t \in Seq(IdemKeys) /\ Len(t) = n + 1 /\ DOMAIN t = 1..(n + 1)
      /\ t[n + 1] = k /\ \A i \in 1..n : t[i] = s[i]
  BY <1>1
<1>3. \A i \in 1..n : s[i] \in ToSet(s)
  BY <1>1 DEF ToSet
<1> HIDE DEF t
<1>4. ASSUME NEW i \in 1..(n + 1), NEW j \in 1..(n + 1), t[i] = t[j] PROVE i = j
  <2>1. (i \in 1..n \/ i = n + 1) /\ (j \in 1..n \/ j = n + 1)
    BY <1>1
  <2> QED BY <1>2, <1>3, <1>4, <2>1 DEF Distinct
<1>5. ToSet(t) = ToSet(s) \union {k}
  <2>1. \A i \in 1..(n + 1) : i \in 1..n \/ i = n + 1
    BY <1>1
  <2>2. \A i \in 1..n : i \in 1..(n + 1)
    BY <1>1
  <2>3. n + 1 \in 1..(n + 1)
    BY <1>1
  <2> QED BY <1>1, <1>2, <2>1, <2>2, <2>3 DEF ToSet
<1> QED BY <1>2, <1>4, <1>5 DEF Distinct, t

LEMMA TailEntries ==
  ASSUME NEW s, Distinct(s), Len(s) > 0
  PROVE  /\ Distinct(Tail(s)) /\ Len(Tail(s)) = Len(s) - 1
         /\ ToSet(Tail(s)) = ToSet(s) \ {Head(s)} /\ Head(s) \in ToSet(s)
<1> DEFINE n == Len(s)
           t == Tail(s)
<1>1. n \in Nat /\ n > 0 /\ s \in Seq(IdemKeys) /\ s # <<>> /\ DOMAIN s = 1..n /\ Head(s) = s[1]
  BY DEF Distinct
<1>2. /\ t \in Seq(IdemKeys) /\ Len(t) = n - 1 /\ DOMAIN t = 1..(n - 1)
      /\ \A i \in 1..(n - 1) : t[i] = s[i + 1]
  BY <1>1
<1> HIDE DEF t
<1>3. \A i \in 1..(n - 1) : i + 1 \in 1..n /\ i + 1 # 1
  BY <1>1
<1>4. \A i \in 1..n : i # 1 => i - 1 \in 1..(n - 1) /\ (i - 1) + 1 = i
  BY <1>1
<1>5. 1 \in 1..n
  BY <1>1
<1>6. ASSUME NEW i \in 1..(n - 1), NEW j \in 1..(n - 1), t[i] = t[j] PROVE i = j
  <2>1. i + 1 = j + 1
    BY <1>2, <1>3, <1>6 DEF Distinct
  <2> QED BY <2>1
<1>7. ToSet(t) = ToSet(s) \ {Head(s)}
  <2>1. ASSUME NEW x \in ToSet(t) PROVE x \in ToSet(s) /\ x # Head(s)
    <3>1. PICK i \in 1..(n - 1) : x = s[i + 1]
      BY <1>2, <2>1 DEF ToSet
    <3> QED BY <1>1, <1>3, <1>5, <3>1 DEF ToSet, Distinct
  <2>2. ASSUME NEW x \in ToSet(s), x # Head(s) PROVE x \in ToSet(t)
    <3>1. PICK i \in 1..n : x = s[i] /\ i # 1
      BY <1>1, <2>2 DEF ToSet
    <3>2. i - 1 \in 1..(n - 1) /\ t[i - 1] = s[i]
      BY <1>2, <1>4, <3>1
    <3> QED BY <1>2, <3>1, <3>2 DEF ToSet
  <2> QED BY <2>1, <2>2
<1>8. Head(s) \in ToSet(s)
  BY <1>1, <1>5 DEF ToSet
<1> QED BY <1>2, <1>6, <1>7, <1>8 DEF Distinct, t

-----------------------------------------------------------------------------
\* What each action does to the stored responses.
LEMMA ReplayOrder ==
  ASSUME OrderType, NEW w \in Writers, IdemReplay(w)
  PROVE  OrderType' /\ Responses' = Responses
<1>1. PICK k \in IdemKeys : Stored(k) /\ lru' = Append(Without(k), k)
  BY DEF IdemReplay
<1>2. /\ Distinct(Without(k)) /\ Len(Without(k)) = Len(lru) - 1
      /\ ToSet(Without(k)) = ToSet(lru) \ {k}
  BY <1>1, WithoutEntry DEF OrderType
<1>3. /\ Distinct(lru') /\ Len(lru') = Len(Without(k)) + 1
      /\ ToSet(lru') = (ToSet(lru) \ {k}) \union {k}
  BY <1>1, <1>2, AppendEntry
<1>4. ToSet(lru') = ToSet(lru)
  BY <1>1, <1>3 DEF Stored
<1>5. Len(lru') = Len(lru)
  BY <1>2, <1>3 DEF OrderType, Distinct
<1> QED BY <1>3, <1>4, <1>5 DEF OrderType, Distinct, Responses, IdemReplay

LEMMA DropOrder ==
  ASSUME OrderType, NEW k \in IdemKeys, Stored(k) => k \in stale,
         lru' = Without(k), stale' = stale \ {k}
  PROVE  OrderType' /\ Responses' = Responses
<1>1. /\ Distinct(lru') /\ Len(lru') = IF Stored(k) THEN Len(lru) - 1 ELSE Len(lru)
      /\ ToSet(lru') = ToSet(lru) \ {k}
  BY WithoutEntry DEF OrderType
<1>2. Len(lru') <= MaxEntries
  <2>1. Len(lru) \in Nat /\ Len(lru) <= MaxEntries
    BY DEF OrderType, Distinct
  <2> QED BY <1>1, <2>1, IdemAssumption
<1> QED BY <1>1, <1>2 DEF OrderType, Distinct, Responses, Stored

LEMMA FinishOrder ==
  ASSUME OrderType, CallsType, NEW w \in Writers, IdemFinish(w), writer[w].key \in IdemKeys
  PROVE  /\ OrderType'
         /\ \/ Responses' = Responses \union {writer[w].key} /\ lost' = lost
            \/ \E h \in IdemKeys \ {writer[w].key} :
                 /\ Responses' = (Responses \union {writer[w].key}) \ {h}
                 /\ lost' = [lost EXCEPT ![h] = IF h \in Responses THEN @ + 1 ELSE @]
<1> DEFINE k == writer[w].key
           rest == Without(k)
           all == Append(rest, k)
<1> HIDE DEF k
<1>0. /\ lru' = IF Len(all) > MaxEntries THEN Tail(all) ELSE all
      /\ lost' = IF Len(all) > MaxEntries THEN Losing({Head(all)}) ELSE lost
      /\ stale' = (stale \ {k}) \intersect ToSet(lru')
      /\ k \in IdemKeys
  BY DEF IdemFinish, k
<1>1. /\ Distinct(rest) /\ Len(rest) \in Nat /\ Len(rest) <= MaxEntries
      /\ ToSet(rest) = ToSet(lru) \ {k}
  <2>1. Len(lru) \in Nat /\ Len(lru) <= MaxEntries /\ MaxEntries \in Nat
    BY IdemAssumption DEF OrderType, Distinct
  <2>2. /\ Distinct(rest) /\ Len(rest) = IF Stored(k) THEN Len(lru) - 1 ELSE Len(lru)
        /\ ToSet(rest) = ToSet(lru) \ {k}
    BY <1>0, WithoutEntry DEF OrderType
  <2>3. Len(rest) \in Nat
    BY <2>2 DEF Distinct
  <2> QED BY <2>1, <2>2, <2>3
<1>2. /\ Distinct(all) /\ Len(all) = Len(rest) + 1
      /\ ToSet(all) = (ToSet(lru) \ {k}) \union {k}
  BY <1>0, <1>1, AppendEntry
<1>3. CASE Len(all) <= MaxEntries
  <2>1. lru' = all /\ lost' = lost
    BY <1>0, <1>1, <1>2, <1>3, IdemAssumption
  <2>2. OrderType'
    BY <1>0, <1>2, <1>3, <2>1 DEF OrderType, Distinct
  <2>3. Responses' = Responses \union {k}
    BY <1>0, <1>2, <2>1 DEF Responses
  <2> QED BY <2>1, <2>2, <2>3 DEF k
<1>4. CASE ~(Len(all) <= MaxEntries)
  <2> HIDE DEF all
  <2> DEFINE h == Head(all)
  <2>1. /\ Len(all) \in Nat /\ Len(all) > MaxEntries /\ Len(all) = MaxEntries + 1
        /\ Len(all) > 1 /\ Len(rest) >= 1
    BY <1>1, <1>2, <1>4, IdemAssumption
  <2>2. lru' = Tail(all) /\ lost' = Losing({h})
    BY <1>0, <2>1
  <2>3. /\ Distinct(lru') /\ Len(lru') = Len(all) - 1
        /\ ToSet(lru') = ToSet(all) \ {h} /\ h \in ToSet(all)
    BY <1>2, <2>1, <2>2, TailEntries
  <2>4. h # k
    <3>1. all \in Seq(IdemKeys) /\ all # <<>> /\ h = all[1]
      BY <1>2, <2>1 DEF Distinct
    <3>2. all[Len(all)] = k
      BY <1>0, <1>1, <1>2 DEF Distinct, all
    <3>3. 1 \in 1..Len(all) /\ Len(all) \in 1..Len(all) /\ 1 # Len(all)
      BY <2>1
    <3> QED BY <1>2, <3>1, <3>2, <3>3 DEF Distinct
  <2> HIDE DEF h
  <2>5. OrderType'
    <3>1. Len(lru') <= MaxEntries
      BY <2>1, <2>3, IdemAssumption
    <3> QED BY <1>0, <2>3, <3>1 DEF OrderType, Distinct
  <2>6. Responses' = (Responses \union {k}) \ {h}
    BY <1>0, <1>2, <2>3, <2>4 DEF Responses
  <2>7. h \in IdemKeys /\ h \in ToSet(lru)
    <3>1. h \in ToSet(lru)
      BY <1>2, <2>3, <2>4
    <3> QED BY <3>1 DEF OrderType, Distinct, ToSet
  <2>8. lost' = [lost EXCEPT ![h] = IF h \in Responses THEN @ + 1 ELSE @]
    BY <2>2, <2>7 DEF Losing, Responses, CallsType
  <2> QED BY <2>4, <2>5, <2>6, <2>7, <2>8 DEF k
<1> QED BY <1>3, <1>4

LEMMA OrderNext == IdemInv /\ IdemNext => OrderType'
<1> SUFFICES ASSUME IdemInv, IdemNext PROVE OrderType'
  OBVIOUS
<1> USE DEF IdemInv
<1>1. ASSUME NEW w \in Writers, IdemReplay(w) PROVE OrderType'
  BY <1>1, ReplayOrder
<1>2. ASSUME NEW w \in Writers, Lead(w) PROVE OrderType'
  BY <1>2, DropOrder DEF Lead
<1>3. ASSUME NEW w \in Writers, Follow(w) PROVE OrderType'
  BY <1>3, DropOrder DEF Follow
<1>4. ASSUME NEW w \in Writers, IdemFinish(w) PROVE OrderType'
  BY <1>4, FinishOrder DEF IdemFinish, CallsMatch
<1>5. ASSUME NEW w \in Writers, HangUp(w) PROVE OrderType'
  BY <1>5 DEF HangUp, OrderType, Distinct
<1>6. ASSUME NEW k \in IdemKeys, ExpireEntry(k) PROVE OrderType'
  BY <1>6 DEF ExpireEntry, OrderType, Distinct, Stored
<1> QED BY <1>1, <1>2, <1>3, <1>4, <1>5, <1>6 DEF IdemNext

LEMMA CallsTypeNext == IdemInv /\ IdemNext => CallsType'
<1> SUFFICES ASSUME IdemInv, IdemNext PROVE CallsType'
  OBVIOUS
<1> USE DEF IdemInv, CallsType
<1>1. NoWrite \in WriterType
  BY DEF NoWrite, WriterType
<1>2. ASSUME NEW w \in Writers, IdemReplay(w) PROVE CallsType'
  BY <1>2 DEF IdemReplay
<1>3. ASSUME NEW w \in Writers, Lead(w) PROVE CallsType'
  BY <1>3 DEF Lead, WriterType
<1>4. ASSUME NEW w \in Writers, Follow(w) PROVE CallsType'
  BY <1>4 DEF Follow, WriterType
<1>5. ASSUME NEW w \in Writers, IdemFinish(w) PROVE CallsType'
  <2>1. writer[w].key \in IdemKeys
    BY <1>5 DEF IdemFinish, CallsMatch
  <2>2. \/ lost' = lost
        \/ \E h \in IdemKeys :
             lost' = [lost EXCEPT ![h] = IF h \in Responses THEN @ + 1 ELSE @]
    BY <1>5, <2>1, FinishOrder
  <2>3. lost' \in [IdemKeys -> Nat]
    BY <2>2
  <2> QED BY <1>1, <1>5, <2>3 DEF IdemFinish, Woken
<1>6. ASSUME NEW w \in Writers, HangUp(w) PROVE CallsType'
  BY <1>1, <1>6 DEF HangUp
<1>7. ASSUME NEW k \in IdemKeys, ExpireEntry(k) PROVE CallsType'
  BY <1>7 DEF ExpireEntry, Losing
<1> QED BY <1>2, <1>3, <1>4, <1>5, <1>6, <1>7 DEF IdemNext

LEMMA CallsMatchNext == IdemInv /\ IdemNext => CallsMatch'
<1> SUFFICES ASSUME IdemInv, IdemNext PROVE CallsMatch'
  OBVIOUS
<1> USE DEF IdemInv, CallsType, CallsMatch
<1>2. ASSUME NEW w \in Writers, IdemReplay(w) PROVE CallsMatch'
  BY <1>2 DEF IdemReplay
<1>3. ASSUME NEW w \in Writers, Lead(w) PROVE CallsMatch'
  BY <1>3, IdemAssumption DEF Lead, WriterType
<1>4. ASSUME NEW w \in Writers, Follow(w) PROVE CallsMatch'
  BY <1>4, IdemAssumption DEF Follow, WriterType
<1>5. ASSUME NEW w \in Writers, IdemFinish(w) PROVE CallsMatch'
  BY <1>5, IdemAssumption DEF IdemFinish, Woken, NoWrite, WriterType
<1>6. ASSUME NEW w \in Writers, HangUp(w) PROVE CallsMatch'
  BY <1>6, IdemAssumption DEF HangUp, Waiting, NoWrite, WriterType
<1>7. ASSUME NEW k \in IdemKeys, ExpireEntry(k) PROVE CallsMatch'
  BY <1>7 DEF ExpireEntry
<1> QED BY <1>2, <1>3, <1>4, <1>5, <1>6, <1>7 DEF IdemNext

LEMMA PaidForNext == IdemInv /\ IdemNext => PaidFor'
<1> SUFFICES ASSUME IdemInv, IdemNext PROVE PaidFor'
  OBVIOUS
<1> USE DEF IdemInv, CallsType, PaidFor, InHand
<1>2. ASSUME NEW w \in Writers, IdemReplay(w) PROVE PaidFor'
  BY <1>2, ReplayOrder DEF IdemReplay
<1>3. ASSUME NEW w \in Writers, Lead(w) PROVE PaidFor'
  <2>1. PICK k \in IdemKeys :
          /\ Stored(k) => k \in stale
          /\ inflight[k] = NoWriter
          /\ lru' = Without(k) /\ stale' = stale \ {k}
          /\ inflight' = [inflight EXCEPT ![k] = w]
          /\ handled' = [handled EXCEPT ![k] = @ + 1] /\ lost' = lost
    BY <1>3 DEF Lead
  <2>2. Responses' = Responses /\ k \notin Responses
    BY <2>1, DropOrder DEF Stored, Responses
  <2> QED BY <2>1, <2>2, IdemAssumption
<1>4. ASSUME NEW w \in Writers, Follow(w) PROVE PaidFor'
  <2>1. Responses' = Responses
    BY <1>4, DropOrder DEF Follow
  <2> QED BY <1>4, <2>1 DEF Follow
<1>5. ASSUME NEW w \in Writers, IdemFinish(w) PROVE PaidFor'
  <2> DEFINE k == writer[w].key
  <2>1. k \in IdemKeys /\ handled' = handled /\ inflight' = [inflight EXCEPT ![k] = NoWriter]
    BY <1>5 DEF IdemFinish, CallsMatch
  <2>2. CASE Responses' = Responses \union {k} /\ lost' = lost
    BY <2>1, <2>2
  <2>3. CASE \E h \in IdemKeys \ {k} :
               /\ Responses' = (Responses \union {k}) \ {h}
               /\ lost' = [lost EXCEPT ![h] = IF h \in Responses THEN @ + 1 ELSE @]
    BY <2>1, <2>3
  <2> QED BY <1>5, <2>1, <2>2, <2>3, FinishOrder
<1>6. ASSUME NEW w \in Writers, HangUp(w) PROVE PaidFor'
  BY <1>6 DEF HangUp, Responses
<1>7. ASSUME NEW k \in IdemKeys, ExpireEntry(k) PROVE PaidFor'
  <2>1. /\ k \in Responses /\ Responses' = Responses \ {k}
        /\ lost' = [lost EXCEPT ![k] = @ + 1] /\ UNCHANGED <<inflight, handled>>
    BY <1>7 DEF ExpireEntry, Losing, Responses, Stored
  <2> QED BY <2>1
<1> QED BY <1>2, <1>3, <1>4, <1>5, <1>6, <1>7 DEF IdemNext

LEMMA IdemInductive ==
  /\ IdemInit => IdemInv
  /\ IdemInv /\ [IdemNext]_idemVars => IdemInv'
<1>1. IdemInit => IdemInv
  <2> SUFFICES ASSUME IdemInit PROVE IdemInv
    OBVIOUS
  <2>1. OrderType
    BY IdemAssumption DEF IdemInit, OrderType, Distinct, ToSet
  <2>2. CallsType
    BY DEF IdemInit, CallsType, WriterType, NoWrite
  <2>3. PaidFor /\ CallsMatch
    BY DEF IdemInit, PaidFor, CallsMatch, NoWrite
  <2> QED BY <2>1, <2>2, <2>3 DEF IdemInv
<1>2. IdemInv /\ IdemNext => IdemInv'
  BY OrderNext, CallsTypeNext, PaidForNext, CallsMatchNext DEF IdemInv
<1>3. IdemInv /\ UNCHANGED idemVars => IdemInv'
  BY DEF idemVars, IdemInv, OrderType, Distinct, CallsType, PaidFor, CallsMatch, InHand, Responses
<1> QED BY <1>1, <1>2, <1>3

\* An Idempotency-Key is dispatched again only for a response that expired or was evicted
\* (idempotency.go), for any number of requests, keys and entries.
THEOREM KeysDispatchOnce == IdemSpec => []DispatchedOnce
<1>1. IdemInv => DispatchedOnce
  BY DEF IdemInv, PaidFor, DispatchedOnce
<1> QED BY <1>1, IdemInductive, PTL DEF IdemSpec

\* A request that waits for a response waits for the dispatch of its own key.
THEOREM WaitersAreLed == IdemSpec => []FollowersAreLed
<1>1. IdemInv => FollowersAreLed
  BY DEF IdemInv, CallsType, CallsMatch, FollowersAreLed, Waiting
<1> QED BY <1>1, IdemInductive, PTL DEF IdemSpec

-----------------------------------------------------------------------------
(* The API's jobs.  A job that was deleted is cancelled, or its context is; its goroutine
   starts once, after the request that created it has stored its key. *)

Clients == [at : {"idle", "admit", "launch"}, kind : Kinds \union {"none"},
            key : Keys \union {NoKey}, id : Nat]

JobsType ==
  /\ created \in Nat /\ stored \subseteq 1..created /\ created <= MaxApiJobs
  /\ status \in [ApiJobIds -> {"pending", "running"} \union Final]
  /\ kind \in [ApiJobIds -> Kinds \union {"none"}]
  /\ task \in [ApiJobIds -> {"none", "spawned", "running", "over"}]
  /\ client \in [Submitters -> Clients]

\* A job that is still to be launched has no goroutine, and one that is not created yet
\* has no history.
Unlaunched ==
  /\ \A c \in Submitters : client[c].at = "launch" =>
       client[c].id \in 1..created /\ task[client[c].id] = "none"
  /\ \A c, d \in Submitters : client[c].at = "launch" /\ client[d].at = "launch" /\ c # d =>
       client[c].id # client[d].id
  /\ \A j \in ApiJobIds : j > created => task[j] = "none" /\ status[j] = "pending"

\* The goroutine and the status of a job.
Verdicts ==
  \A j \in ApiJobIds :
    /\ status[j] \in {"done", "failed"} => task[j] = "over"
    /\ status[j] = "cancelled" /\ task[j] = "running" => j \in done

\* Of the stored compiles one is active, and only an active one runs uncancelled.
GateHeld ==
  \A i, j \in stored : kind[i] \in Gated /\ kind[j] \in Gated /\ Active(i) /\ Active(j) => i = j

ApiInv == JobsType /\ Unlaunched /\ Verdicts

LEMMA JobsTypeNext == ApiInv /\ ApiNext => JobsType'
<1> SUFFICES ASSUME ApiInv, ApiNext PROVE JobsType'
  OBVIOUS
<1>0. client \in [Submitters -> Clients]
  BY DEF ApiInv, JobsType
<1> USE ApiJobAssumption DEF ApiInv, JobsType, Final
<1>1. NoSubmit \in Clients
  BY DEF NoSubmit, Clients
<1>2. ASSUME NEW c \in Submitters, Lookup(c) PROVE JobsType'
  <2>1. PICK k \in Kinds, key \in Keys \union {NoKey} :
          client' = [client EXCEPT ![c] = [at |-> "admit", kind |-> k, key |-> key, id |-> 0]]
    BY <1>2 DEF Lookup
  <2>2. [at |-> "admit", kind |-> k, key |-> key, id |-> 0] \in Clients
    BY DEF Clients
  <2>3. client' \in [Submitters -> Clients]
    BY <1>0, <2>1, <2>2
  <2> QED BY <1>2, <2>3 DEF Lookup
<1>3. ASSUME NEW c \in Submitters, Conflict(c) PROVE JobsType'
  BY <1>1, <1>3 DEF Conflict
<1>4. ASSUME NEW c \in Submitters, Create(c) PROVE JobsType'
  <2> DEFINE j == created + 1
             kept == IF Cardinality(stored) < StoreMax THEN stored ELSE stored \ {Min(stored)}
  <2>1. kept \subseteq stored
    OBVIOUS
  <2> HIDE DEF kept
  <2>2. /\ created' = j /\ j \in ApiJobIds /\ stored' = kept \union {j}
        /\ kind' = [kind EXCEPT ![j] = client[c].kind]
        /\ client' = [client EXCEPT ![c].at = "launch", ![c].id = j]
        /\ UNCHANGED <<status, task, done>>
    BY <1>4 DEF Create, kept
  <2>3. created' \in Nat /\ created' <= MaxApiJobs /\ stored' \subseteq 1..created'
    BY <2>1, <2>2 DEF ApiJobIds
  <2> DEFINE r == [client[c] EXCEPT !.at = "launch", !.id = j]
  <2>4. client[c] \in Clients
    BY ONLY <1>0, c \in Submitters
  <2>5. client[c].kind \in Kinds \union {"none"} /\ r \in Clients
    <3>1. j \in Nat
      BY <2>2, <2>3
    <3> HIDE DEF j
    <3> QED BY ONLY <2>4, <3>1 DEF Clients
  <2>6. client' = [client EXCEPT ![c] = r]
    BY <1>0, <2>2
  <2> HIDE DEF r, j
  <2>7. client' \in [Submitters -> Clients]
    BY ONLY <1>0, <2>5, <2>6
  <2>8. kind' \in [ApiJobIds -> Kinds \union {"none"}]
    BY <2>2, <2>5
  <2> QED BY <2>2, <2>3, <2>7, <2>8
<1>5. ASSUME NEW c \in Submitters, Launch(c) PROVE JobsType'
  BY <1>1, <1>5 DEF Launch
<1>6. ASSUME NEW j \in ApiJobIds, Begin(j) PROVE JobsType'
  BY <1>6 DEF Begin
<1>7. ASSUME NEW j \in ApiJobIds, Deadline(j) PROVE JobsType'
  BY <1>7 DEF Deadline
<1>8. ASSUME NEW j \in ApiJobIds, Return(j) PROVE JobsType'
  BY <1>8 DEF Return, Outcome
<1>9. ASSUME NEW j \in ApiJobIds, Delete(j) PROVE JobsType'
  BY <1>9 DEF Delete
<1> QED BY <1>2, <1>3, <1>4, <1>5, <1>6, <1>7, <1>8, <1>9 DEF ApiNext

LEMMA UnlaunchedNext == ApiInv /\ ApiNext => Unlaunched'
<1> SUFFICES ASSUME ApiInv, ApiNext PROVE Unlaunched'
  OBVIOUS
<1> USE ApiJobAssumption DEF ApiInv, JobsType, Unlaunched
<1>1. NoSubmit.at = "idle"
  BY DEF NoSubmit
<1>2. ASSUME NEW c \in Submitters, Lookup(c) PROVE Unlaunched'
  <2>1. PICK r : r.at = "admit" /\ client' = [client EXCEPT ![c] = r]
    BY <1>2 DEF Lookup
  <2>2. \A d \in Submitters : client'[d].at = "launch" => d # c /\ client'[d] = client[d]
    BY <2>1
  <2> QED BY <1>2, <2>2 DEF Lookup
<1>3. ASSUME NEW c \in Submitters, Conflict(c) PROVE Unlaunched'
  BY <1>1, <1>3 DEF Conflict
<1>4. ASSUME NEW c \in Submitters, Create(c) PROVE Unlaunched'
  <2> DEFINE j == created + 1
  <2>1. /\ created' = j /\ j \in ApiJobIds /\ client[c].at # "launch"
        /\ client' = [client EXCEPT ![c].at = "launch", ![c].id = j]
        /\ UNCHANGED <<status, task, done>>
    BY <1>4 DEF Create
  <2>2. client'[c].at = "launch" /\ client'[c].id = j
    BY <2>1 DEF Clients
  <2>3. \A d \in Submitters : d # c => client'[d] = client[d]
    BY <2>1
  <2>4. j > created /\ task[j] = "none" /\ 1..created \subseteq 1..j /\ j \in 1..j
        /\ j \notin 1..created
    BY <2>1
  <2>5. \A i \in ApiJobIds : i > j => i > created
    BY DEF ApiJobIds
  <2> HIDE DEF j
  <2> QED BY <2>1, <2>2, <2>3, <2>4, <2>5
<1>5. ASSUME NEW c \in Submitters, Launch(c) PROVE Unlaunched'
  <2>1. /\ client[c].at = "launch" /\ task' = [task EXCEPT ![client[c].id] = "spawned"]
        /\ client' = [client EXCEPT ![c] = NoSubmit]
        /\ UNCHANGED <<created, status, stored, done>>
    BY <1>5 DEF Launch
  <2>2. client[c].id \in 1..created /\ ~(client[c].id > created)
    BY <2>1
  <2>3. \A d \in Submitters : client'[d].at = "launch" => d # c /\ client'[d] = client[d]
    BY <1>1, <2>1
  <2> QED BY <2>1, <2>2, <2>3
<1>6. ASSUME NEW j \in ApiJobIds, Begin(j) PROVE Unlaunched'
  <2>1. task[j] = "spawned" /\ UNCHANGED <<client, created>>
    BY <1>6 DEF Begin
  <2>2. \A i \in ApiJobIds : i # j => task'[i] = task[i] /\ status'[i] = status[i]
    BY <1>6 DEF Begin
  <2>3. created \in Nat /\ created <= MaxApiJobs
    OBVIOUS
  <2>4. \A c \in Submitters : client[c].at = "launch" =>
          client[c].id # j /\ client[c].id \in ApiJobIds
    BY <2>1, <2>3 DEF ApiJobIds
  <2>5. ~(j > created)
    BY <2>1
  <2> QED BY <2>1, <2>2, <2>4, <2>5
<1>7. ASSUME NEW j \in ApiJobIds, Deadline(j) PROVE Unlaunched'
  BY <1>7 DEF Deadline
<1>8. ASSUME NEW j \in ApiJobIds, Return(j) PROVE Unlaunched'
  BY <1>8 DEF Return
<1>9. ASSUME NEW j \in ApiJobIds, Delete(j) PROVE Unlaunched'
  BY <1>9 DEF Delete
<1> QED BY <1>2, <1>3, <1>4, <1>5, <1>6, <1>7, <1>8, <1>9 DEF ApiNext

LEMMA VerdictsNext == ApiInv /\ ApiNext => Verdicts'
<1> SUFFICES ASSUME ApiInv, ApiNext PROVE Verdicts'
  OBVIOUS
<1> USE DEF ApiInv, JobsType, Unlaunched, Verdicts
<1>2. ASSUME NEW c \in Submitters, Lookup(c) PROVE Verdicts'
  BY <1>2 DEF Lookup
<1>3. ASSUME NEW c \in Submitters, Conflict(c) PROVE Verdicts'
  BY <1>3 DEF Conflict
<1>4. ASSUME NEW c \in Submitters, Create(c) PROVE Verdicts'
  BY <1>4 DEF Create
<1>5. ASSUME NEW c \in Submitters, Launch(c) PROVE Verdicts'
  BY <1>5 DEF Launch
<1>6. ASSUME NEW j \in ApiJobIds, Begin(j) PROVE Verdicts'
  BY <1>6 DEF Begin
<1>7. ASSUME NEW j \in ApiJobIds, Deadline(j) PROVE Verdicts'
  BY <1>7 DEF Deadline
<1>8. ASSUME NEW j \in ApiJobIds, Return(j) PROVE Verdicts'
  BY <1>8 DEF Return
<1>9. ASSUME NEW j \in ApiJobIds, Delete(j) PROVE Verdicts'
  BY <1>9 DEF Delete, Finished, Final
<1> QED BY <1>2, <1>3, <1>4, <1>5, <1>6, <1>7, <1>8, <1>9 DEF ApiNext

LEMMA GateHeldNext == ApiInv /\ GateHeld /\ ApiNext => GateHeld'
<1> SUFFICES ASSUME ApiInv, GateHeld, ApiNext PROVE GateHeld'
  OBVIOUS
<1> USE DEF ApiInv, JobsType, Verdicts, GateHeld, Active
<1>1. stored \subseteq ApiJobIds
  BY ApiJobAssumption DEF ApiJobIds
<1>2. ASSUME NEW c \in Submitters, Lookup(c) PROVE GateHeld'
  BY <1>2 DEF Lookup
<1>3. ASSUME NEW c \in Submitters, Conflict(c) PROVE GateHeld'
  BY <1>3 DEF Conflict
<1>4. ASSUME NEW c \in Submitters, Create(c) PROVE GateHeld'
  <2> DEFINE j == created + 1
             kept == IF Cardinality(stored) < StoreMax THEN stored ELSE stored \ {Min(stored)}
  <2>1. kept \subseteq stored
    OBVIOUS
  <2> HIDE DEF kept
  <2>2. /\ j \in ApiJobIds /\ stored' = kept \union {j}
        /\ kind' = [kind EXCEPT ![j] = client[c].kind]
        /\ client[c].kind \in Gated => \A i \in stored : ~(kind[i] \in Gated /\ Active(i))
        /\ UNCHANGED <<status, task, done>>
    BY <1>4 DEF Create, kept
  <2>3. \A i \in stored : i # j
    OBVIOUS
  <2> HIDE DEF j
  <2> QED BY <1>1, <2>1, <2>2, <2>3
<1>5. ASSUME NEW c \in Submitters, Launch(c) PROVE GateHeld'
  BY <1>5 DEF Launch
<1>6. ASSUME NEW j \in ApiJobIds, Begin(j) PROVE GateHeld'
  <2>1. \A i \in ApiJobIds : status'[i] \in {"pending", "running"} => status[i] \in {"pending", "running"}
    BY <1>6 DEF Begin, Final
  <2> QED BY <1>1, <1>6, <2>1 DEF Begin
<1>7. ASSUME NEW j \in ApiJobIds, Deadline(j) PROVE GateHeld'
  BY <1>7 DEF Deadline
<1>8. ASSUME NEW j \in ApiJobIds, Return(j) PROVE GateHeld'
  BY <1>1, <1>8 DEF Return, Outcome
<1>9. ASSUME NEW j \in ApiJobIds, Delete(j) PROVE GateHeld'
  BY <1>1, <1>9 DEF Delete
<1> QED BY <1>2, <1>3, <1>4, <1>5, <1>6, <1>7, <1>8, <1>9 DEF ApiNext

LEMMA ApiInductive ==
  /\ ApiInit => ApiInv /\ GateHeld
  /\ ApiInv /\ GateHeld /\ [ApiNext]_apiVars => ApiInv' /\ GateHeld'
<1>1. ApiInit => ApiInv /\ GateHeld
  <2> SUFFICES ASSUME ApiInit PROVE ApiInv /\ GateHeld
    OBVIOUS
  <2>1. NoSubmit \in Clients /\ NoSubmit.at = "idle"
    BY DEF NoSubmit, Clients
  <2> QED BY <2>1, ApiJobAssumption
       DEF ApiInit, ApiInv, JobsType, Unlaunched, Verdicts, GateHeld, Final
<1>2. ApiInv /\ GateHeld /\ ApiNext => ApiInv' /\ GateHeld'
  BY JobsTypeNext, UnlaunchedNext, VerdictsNext, GateHeldNext DEF ApiInv
<1>3. ApiInv /\ GateHeld /\ UNCHANGED apiVars => ApiInv' /\ GateHeld'
  BY DEF apiVars, ApiInv, JobsType, Unlaunched, Verdicts, GateHeld, Active
<1> QED BY <1>1, <1>2, <1>3

\* A finished job keeps its status (jobs.go, runJob): neither its goroutine nor the return of
\* the runner changes what a client has seen, whatever they and a DELETE interleave to.
THEOREM ApiVerdictsStand == ASSUME HasRunner PROVE ApiSpec => VerdictStands
<1> DEFINE StatusStays == \A j \in ApiJobIds : Finished(j) => status'[j] = status[j]
<1>1. ApiInv /\ [ApiNext]_apiVars => [StatusStays]_apiVars
  <2> SUFFICES ASSUME ApiInv, ApiNext PROVE StatusStays
    OBVIOUS
  <2> USE DEF ApiInv, JobsType, Verdicts, Finished, Final
  <2>1. ASSUME NEW c \in Submitters, Lookup(c) \/ Conflict(c) \/ Create(c) \/ Launch(c)
        PROVE StatusStays
    BY <2>1 DEF Lookup, Conflict, Create, Launch
  <2>2. ASSUME NEW j \in ApiJobIds, Begin(j) PROVE StatusStays
    BY <2>2 DEF Begin
  <2>3. ASSUME NEW j \in ApiJobIds, Deadline(j) PROVE StatusStays
    BY <2>3 DEF Deadline
  <2>4. ASSUME NEW j \in ApiJobIds, Return(j) PROVE StatusStays
    BY <2>4 DEF Return, Outcome
  <2>5. ASSUME NEW j \in ApiJobIds, Delete(j) PROVE StatusStays
    BY <2>5 DEF Delete
  <2> QED BY <2>1, <2>2, <2>3, <2>4, <2>5 DEF ApiNext
<1>2. ApiSpec => [](ApiInv /\ GateHeld)
  BY ApiInductive, PTL DEF ApiSpec
<1>3. ApiSpec => [][StatusStays]_apiVars
  BY <1>1, <1>2, PTL DEF ApiSpec
<1> QED BY <1>3 DEF VerdictStands

\* Of the stored compiles at most one runs that nobody cancelled (tryCreateOrGetActive): for
\* any number of requests, jobs and places in the store, with a job runner or without.
THEOREM OneCompileRuns == ApiSpec => []GateIsExclusive
<1>1. ApiInv /\ GateHeld => GateIsExclusive
  <2> SUFFICES ASSUME ApiInv, GateHeld PROVE GateIsExclusive
    OBVIOUS
  <2> DEFINE runs == {j \in stored : kind[j] \in Gated /\ task[j] = "running" /\ j \notin done}
  <2>1. \A j \in runs : j \in stored /\ kind[j] \in Gated /\ Active(j)
    BY ApiJobAssumption DEF ApiInv, JobsType, Verdicts, Active, ApiJobIds, Final
  <2>2. \A i, j \in runs : i = j
    BY <2>1 DEF GateHeld
  <2> HIDE DEF runs
  <2>3. CASE runs = {}
    BY <2>3, FS_EmptySet DEF GateIsExclusive, runs
  <2>4. CASE runs # {}
    <3>1. PICK j \in runs : TRUE
      BY <2>4
    <3>2. runs = {j}
      BY <2>2, <3>1
    <3>3. Cardinality(runs) = 1
      BY <3>2, FS_Singleton
    <3> QED BY <3>3 DEF GateIsExclusive, runs
  <2> QED BY <2>3, <2>4
<1> QED BY <1>1, ApiInductive, PTL DEF ApiSpec

-----------------------------------------------------------------------------
(* The keys.  The idempotency map has the job of each key that a stored job was submitted
   with, except while the request that created the job is still to store it. *)

KeysType == idem \in [Kinds \X Keys -> 0..created] /\ keyed \in [ApiJobIds -> Keys \union {NoKey}]

Pair(c) == <<client[c].kind, client[c].key>>
Carries(c) == client[c].at # "idle" /\ client[c].key # NoKey

KeysApart ==
  /\ \A c \in Submitters : Carries(c) => Pair(c) \in Kinds \X Keys /\ idem[Pair(c)] \notin stored
  /\ \A c, d \in Submitters : Carries(c) /\ Carries(d) /\ Pair(c) = Pair(d) => c = d

KeysKnown ==
  \A j \in stored : keyed[j] # NoKey =>
    /\ <<kind[j], keyed[j]>> \in Kinds \X Keys
    /\ \/ idem[<<kind[j], keyed[j]>>] = j
       \/ \E c \in Submitters :
            client[c].at = "launch" /\ client[c].id = j /\ Pair(c) = <<kind[j], keyed[j]>>

KeyInv == KeysType /\ KeysApart /\ KeysKnown

LEMMA LookupKeys ==
  ASSUME ~KeyRace, ApiInv, KeyInv, NEW c \in Submitters, Lookup(c)
  PROVE  KeyInv'
<1>1. PICK k \in Kinds, key \in Keys \union {NoKey} :
        /\ KeyFree(k, key) /\ (key # NoKey => idem[<<k, key>>] \notin stored)
        /\ client' = [client EXCEPT ![c] = [at |-> "admit", kind |-> k, key |-> key, id |-> 0]]
  BY DEF Lookup
<1>2. /\ client[c].at = "idle" /\ client \in [Submitters -> Clients]
      /\ UNCHANGED <<created, status, kind, stored, idem, task, done, keyed>>
  BY DEF Lookup, ApiInv, JobsType
<1>3. /\ client'[c].at = "admit" /\ Pair(c)' = <<k, key>> /\ client'[c].key = key
      /\ \A d \in Submitters : d # c => client'[d] = client[d]
  BY <1>1, <1>2 DEF Pair
<1>4. \A d \in Submitters : d # c =>
        /\ Pair(d)' = Pair(d) /\ Carries(d)' = Carries(d)
        /\ (Carries(d) /\ key # NoKey => Pair(d) # <<k, key>>)
  BY <1>1, <1>3 DEF Pair, Carries, KeyFree
<1>5. Carries(c)' => key # NoKey /\ <<k, key>> \in Kinds \X Keys
  BY <1>3 DEF Carries
<1>6. KeysApart'
  BY <1>1, <1>2, <1>3, <1>4, <1>5 DEF KeyInv, KeysApart
<1>7. KeysKnown'
  BY <1>2, <1>3, <1>4 DEF KeyInv, KeysKnown
<1>8. KeysType'
  BY <1>2 DEF KeyInv, KeysType
<1> QED BY <1>6, <1>7, <1>8 DEF KeyInv

LEMMA ConflictKeys ==
  ASSUME ApiInv, KeyInv, NEW c \in Submitters, Conflict(c)
  PROVE  KeyInv'
<1>1. /\ client[c].at = "admit" /\ client' = [client EXCEPT ![c] = NoSubmit]
      /\ client \in [Submitters -> Clients]
      /\ UNCHANGED <<created, status, kind, stored, idem, task, done, keyed>>
  BY DEF Conflict, ApiInv, JobsType
<1>2. client'[c].at = "idle" /\ \A d \in Submitters : d # c => client'[d] = client[d]
  BY <1>1 DEF NoSubmit
<1>3. ~Carries(c)' /\ \A d \in Submitters : d # c =>
        Pair(d)' = Pair(d) /\ Carries(d)' = Carries(d)
  BY <1>2 DEF Pair, Carries
<1>4. KeysApart'
  BY <1>1, <1>3 DEF KeyInv, KeysApart
<1>5. KeysKnown'
  BY <1>1, <1>2, <1>3 DEF KeyInv, KeysKnown
<1> QED BY <1>1, <1>4, <1>5 DEF KeyInv, KeysType

LEMMA CreateKeys ==
  ASSUME ApiInv, KeyInv, NEW c \in Submitters, Create(c)
  PROVE  KeyInv'
<1> DEFINE j == created + 1
           kept == IF Cardinality(stored) < StoreMax THEN stored ELSE stored \ {Min(stored)}
<1>1. kept \subseteq stored
  OBVIOUS
<1> HIDE DEF kept
<1>2. /\ client[c].at = "admit" /\ j \in ApiJobIds /\ created' = j
      /\ kind' = [kind EXCEPT ![j] = client[c].kind]
      /\ stored' = kept \union {j}
      /\ idem' = [k \in DOMAIN idem |-> IF idem[k] \in stored \ kept THEN 0 ELSE idem[k]]
      /\ keyed' = [keyed EXCEPT ![j] = client[c].key]
      /\ client' = [client EXCEPT ![c].at = "launch", ![c].id = j]
  BY DEF Create, kept
<1>3. /\ client \in [Submitters -> Clients] /\ created \in Nat /\ stored \subseteq 1..created
      /\ kind \in [ApiJobIds -> Kinds \union {"none"}]
      /\ idem \in [Kinds \X Keys -> 0..created] /\ keyed \in [ApiJobIds -> Keys \union {NoKey}]
  BY DEF ApiInv, JobsType, KeyInv, KeysType
<1>4. /\ client[c] \in Clients /\ client'[c].at = "launch" /\ client'[c].id = j
      /\ client'[c].kind = client[c].kind /\ client'[c].key = client[c].key
      /\ \A d \in Submitters : d # c => client'[d] = client[d]
  BY <1>2, <1>3 DEF Clients
<1>5. j \notin stored /\ 0 \notin stored /\ j # 0 /\ \A i \in 0..created : i # j /\ i \in 0..j
  BY <1>3
<1>6. j \in 0..j
  BY <1>3
<1> HIDE DEF j
<1>7. \A d \in Submitters : Pair(d)' = Pair(d) /\ Carries(d)' = Carries(d)
  BY <1>2, <1>4 DEF Pair, Carries
<1>8. \A p \in Kinds \X Keys :
        /\ idem'[p] \in 0..j /\ (idem[p] \notin stored => idem'[p] \notin stored')
        /\ (idem[p] \in kept => idem'[p] = idem[p])
  BY <1>1, <1>2, <1>3, <1>5, <1>6
<1>9. client[c].key \in Keys \union {NoKey}
  BY <1>4 DEF Clients
<1>10. KeysType'
  <2>1. idem' \in [Kinds \X Keys -> 0..j]
    BY <1>2, <1>3, <1>8
  <2> QED BY <1>2, <1>3, <1>9, <2>1 DEF KeysType
<1>11. KeysApart'
  BY <1>7, <1>8 DEF KeyInv, KeysApart
<1>12. KeysKnown'
  <2> SUFFICES ASSUME NEW i \in stored', keyed'[i] # NoKey
               PROVE  /\ <<kind'[i], keyed'[i]>> \in Kinds \X Keys
                      /\ \/ idem'[<<kind'[i], keyed'[i]>>] = i
                         \/ \E d \in Submitters :
                              /\ client'[d].at = "launch" /\ client'[d].id = i
                              /\ Pair(d)' = <<kind'[i], keyed'[i]>>
    BY DEF KeysKnown
  <2>1. CASE i = j
    <3>1. <<kind'[i], keyed'[i]>> = Pair(c)
      BY <1>2, <1>3, <2>1 DEF Pair
    <3>2. Carries(c)
      BY <1>2, <1>3, <2>1 DEF Carries
    <3> QED BY <1>4, <1>7, <2>1, <3>1, <3>2 DEF KeyInv, KeysApart
  <2>2. CASE i # j
    <3>1. i \in kept /\ i \in stored /\ kind'[i] = kind[i] /\ keyed'[i] = keyed[i]
      BY <1>1, <1>2, <1>3, <2>2
    <3>2. /\ <<kind[i], keyed[i]>> \in Kinds \X Keys
          /\ \/ idem[<<kind[i], keyed[i]>>] = i
             \/ \E d \in Submitters : client[d].at = "launch" /\ client[d].id = i
                                        /\ Pair(d) = <<kind[i], keyed[i]>>
      BY <3>1 DEF KeyInv, KeysKnown
    <3>3. CASE idem[<<kind[i], keyed[i]>>] = i
      BY <1>8, <3>1, <3>2, <3>3
    <3>4. CASE \E d \in Submitters : client[d].at = "launch" /\ client[d].id = i
                                        /\ Pair(d) = <<kind[i], keyed[i]>>
      <4>1. PICK d \in Submitters : client[d].at = "launch" /\ client[d].id = i
                                        /\ Pair(d) = <<kind[i], keyed[i]>>
        BY <3>4
      <4>2. d # c
        BY <1>2, <4>1
      <4> QED BY <1>4, <1>7, <3>1, <3>2, <4>1, <4>2
    <3> QED BY <3>2, <3>3, <3>4
  <2> QED BY <2>1, <2>2
<1> QED BY <1>10, <1>11, <1>12 DEF KeyInv

LEMMA LaunchKeys ==
  ASSUME ApiInv, KeyInv, NEW c \in Submitters, Launch(c)
  PROVE  KeyInv'
<1>1. /\ client[c].at = "launch" /\ client' = [client EXCEPT ![c] = NoSubmit]
      /\ idem' = IF client[c].key = NoKey THEN idem
                 ELSE [idem EXCEPT ![Pair(c)] = client[c].id]
      /\ UNCHANGED <<created, kind, stored, keyed>>
  BY DEF Launch, Pair
<1>2. /\ client \in [Submitters -> Clients] /\ client[c].id \in 0..created
      /\ idem \in [Kinds \X Keys -> 0..created]
  <2>1. created \in Nat /\ client[c].id \in 1..created
    BY <1>1 DEF ApiInv, JobsType, Unlaunched
  <2> QED BY <2>1 DEF ApiInv, JobsType, KeyInv, KeysType
<1>3. client'[c].at = "idle" /\ \A d \in Submitters : d # c => client'[d] = client[d]
  BY <1>1, <1>2 DEF NoSubmit
<1>4. ~Carries(c)' /\ \A d \in Submitters : d # c =>
        Pair(d)' = Pair(d) /\ Carries(d)' = Carries(d)
  BY <1>3 DEF Pair, Carries
<1>5. CASE client[c].key = NoKey
  <2>1. idem' = idem
    BY <1>1, <1>5
  <2>2. KeysKnown'
    <3>1. \A j \in stored : keyed[j] # NoKey => Pair(c) # <<kind[j], keyed[j]>>
      BY <1>5 DEF Pair
    <3> QED BY <1>1, <1>3, <1>4, <2>1, <3>1 DEF KeyInv, KeysKnown
  <2>3. KeysApart' /\ KeysType'
    BY <1>1, <1>4, <2>1 DEF KeyInv, KeysApart, KeysType
  <2> QED BY <2>2, <2>3 DEF KeyInv
<1>6. CASE client[c].key # NoKey
  <2>1. Carries(c) /\ Pair(c) \in Kinds \X Keys /\ idem[Pair(c)] \notin stored
    BY <1>1, <1>6 DEF Carries, KeyInv, KeysApart
  <2>2. /\ idem' = [idem EXCEPT ![Pair(c)] = client[c].id] /\ idem'[Pair(c)] = client[c].id
        /\ \A p \in Kinds \X Keys : p # Pair(c) => idem'[p] = idem[p]
    BY <1>1, <1>2, <1>6, <2>1
  <2>3. KeysType'
    BY <1>1, <1>2, <2>2 DEF KeyInv, KeysType
  <2>4. KeysApart'
    BY <1>1, <1>4, <2>1, <2>2 DEF KeyInv, KeysApart
  <2>5. KeysKnown'
    <3> SUFFICES ASSUME NEW j \in stored, keyed[j] # NoKey
                 PROVE  /\ <<kind[j], keyed[j]>> \in Kinds \X Keys
                        /\ \/ idem'[<<kind[j], keyed[j]>>] = j
                           \/ \E d \in Submitters :
                                /\ client'[d].at = "launch" /\ client'[d].id = j
                                /\ Pair(d)' = <<kind[j], keyed[j]>>
      BY <1>1 DEF KeysKnown
    <3> DEFINE p == <<kind[j], keyed[j]>>
    <3>1. /\ p \in Kinds \X Keys
          /\ \/ idem[p] = j
             \/ \E d \in Submitters : client[d].at = "launch" /\ client[d].id = j /\ Pair(d) = p
      BY DEF KeyInv, KeysKnown
    <3> HIDE DEF p
    <3>2. CASE idem[p] = j
      <4>1. p # Pair(c)
        BY <2>1, <3>2
      <4> QED BY <2>2, <3>1, <3>2, <4>1 DEF p
    <3>3. CASE \E d \in Submitters :
                 client[d].at = "launch" /\ client[d].id = j /\ Pair(d) = p
      <4>1. PICK d \in Submitters : client[d].at = "launch" /\ client[d].id = j /\ Pair(d) = p
        BY <3>3
      <4>2. CASE d = c
        BY <2>2, <3>1, <4>1, <4>2 DEF p
      <4>3. CASE d # c
        BY <1>3, <1>4, <3>1, <4>1, <4>3 DEF p
      <4> QED BY <4>2, <4>3
    <3> QED BY <3>1, <3>2, <3>3
  <2> QED BY <2>3, <2>4, <2>5 DEF KeyInv
<1> QED BY <1>5, <1>6

\* A key that is sent again starts no second job while the store remembers the first
\* (handleJobSubmit, storeIdemKey), if the client waits for the answer before it sends the key
\* again: for any number of requests, keys, jobs and places in the store.
THEOREM KeysStartOneJob == ASSUME ~KeyRace PROVE ApiSpec => []OneJobPerKey
<1>1. ApiInit => KeyInv
  <2> SUFFICES ASSUME ApiInit PROVE KeyInv
    OBVIOUS
  <2>1. \A c \in Submitters : ~Carries(c)
    BY DEF ApiInit, NoSubmit, Carries
  <2>2. KeysType
    BY DEF ApiInit, KeysType
  <2> QED BY <2>1, <2>2 DEF ApiInit, KeyInv, KeysApart, KeysKnown
<1>2. ApiInv /\ KeyInv /\ [ApiNext]_apiVars => KeyInv'
  <2> SUFFICES ASSUME ApiInv, KeyInv, [ApiNext]_apiVars PROVE KeyInv'
    OBVIOUS
  <2>1. ASSUME NEW c \in Submitters, Lookup(c) \/ Conflict(c) \/ Create(c) \/ Launch(c)
        PROVE  KeyInv'
    BY <2>1, LookupKeys, ConflictKeys, CreateKeys, LaunchKeys
  <2>2. CASE UNCHANGED <<created, kind, stored, idem, client, keyed>>
    BY <2>2 DEF KeyInv, KeysType, KeysApart, KeysKnown, Pair, Carries
  <2>3. ASSUME NEW j \in ApiJobIds, Begin(j) \/ Deadline(j) \/ Return(j) \/ Delete(j)
        PROVE  KeyInv'
    <3>1. UNCHANGED <<created, kind, stored, idem, client, keyed>>
      BY <2>3 DEF Begin, Deadline, Return, Delete
    <3> QED BY <2>2, <3>1
  <2>4. CASE UNCHANGED apiVars
    BY <2>2, <2>4 DEF apiVars
  <2> QED BY <2>1, <2>3, <2>4 DEF ApiNext
<1>3. KeyInv => OneJobPerKey
  <2> SUFFICES ASSUME KeyInv, NEW i \in stored, NEW j \in stored,
                      kind[i] = kind[j], keyed[i] = keyed[j], keyed[i] # NoKey
               PROVE  i = j
    BY DEF OneJobPerKey
  <2> DEFINE p == <<kind[i], keyed[i]>>
  <2>1. /\ idem[p] = i \/ \E c \in Submitters :
             client[c].at = "launch" /\ client[c].id = i /\ Pair(c) = p /\ Carries(c)
        /\ idem[p] = j \/ \E c \in Submitters :
             client[c].at = "launch" /\ client[c].id = j /\ Pair(c) = p /\ Carries(c)
    BY DEF KeyInv, KeysKnown, Pair, Carries
  <2>2. \A c \in Submitters : Carries(c) /\ Pair(c) = p => idem[p] \notin stored
    BY DEF KeyInv, KeysApart
  <2>3. \A c, d \in Submitters : Carries(c) /\ Carries(d) /\ Pair(c) = p /\ Pair(d) = p => c = d
    BY DEF KeyInv, KeysApart
  <2> HIDE DEF p
  <2> QED BY <2>1, <2>2, <2>3
<1> QED BY <1>1, <1>2, <1>3, ApiInductive, PTL DEF ApiSpec

-----------------------------------------------------------------------------
(* The queues of the event bus: events are counted up, records are negative. *)

Rising(q)   == \A i, j \in 1..Len(q) : i < j /\ q[i] > 0 /\ q[j] > 0 => q[i] < q[j]
Above(x, q) == \A i \in 1..Len(q) : q[i] > 0 => x < q[i]
Below(q, x) == \A i \in 1..Len(q) : q[i] > 0 => q[i] < x

\* A bounded queue that drops its oldest entry for a new one.
Pushed(q, n, x) == Append(IF Len(q) = n THEN Tail(q) ELSE q, x)

LEMMA TailKept ==
  ASSUME NEW q \in Seq(Int), Len(q) # 0
  PROVE  /\ Tail(q) \in Seq(Int) /\ Len(Tail(q)) = Len(q) - 1 /\ Head(q) = q[1] /\ Head(q) \in Int
         /\ 1 \in 1..Len(q)
         /\ \A i \in 1..Len(Tail(q)) : i + 1 \in 1..Len(q) /\ Tail(q)[i] = q[i + 1]
<1>1. Len(q) \in Nat /\ q \in [1..Len(q) -> Int]
  OBVIOUS
<1>2. /\ Tail(q) \in Seq(Int) /\ Len(Tail(q)) = Len(q) - 1 /\ Head(q) = q[1]
      /\ \A i \in 1..Len(Tail(q)) : Tail(q)[i] = q[i + 1]
  BY <1>1
<1> QED BY <1>1, <1>2

LEMMA TakenFirst ==
  ASSUME NEW q \in Seq(Int), Len(q) # 0
  PROVE  /\ Rising(q) => Rising(Tail(q)) /\ (Head(q) > 0 => Above(Head(q), Tail(q)))
         /\ \A y \in Int : Above(y, q) => Above(y, Tail(q)) /\ (Head(q) > 0 => y < Head(q))
         /\ \A y \in Int : Below(q, y) => Below(Tail(q), y) /\ (Head(q) > 0 => Head(q) < y)
<1> DEFINE p == Tail(q)  h == Head(q)
<1>1. /\ p \in Seq(Int) /\ Len(p) = Len(q) - 1 /\ h = q[1] /\ h \in Int /\ 1 \in 1..Len(q)
      /\ \A i \in 1..Len(p) : i + 1 \in 1..Len(q) /\ p[i] = q[i + 1]
  BY TailKept
<1>2. Len(p) \in Nat /\ Len(q) \in Nat /\ \A i \in 1..Len(p) : p[i] \in Int
  BY <1>1
<1> HIDE DEF p, h
<1>3. ASSUME Rising(q) PROVE Rising(p) /\ (h > 0 => Above(h, p))
  <2>1. ASSUME NEW i \in 1..Len(p), NEW j \in 1..Len(p), i < j, p[i] > 0, p[j] > 0
        PROVE  p[i] < p[j]
    <3>1. i + 1 \in 1..Len(q) /\ j + 1 \in 1..Len(q) /\ i + 1 < j + 1
      BY <1>1, <2>1
    <3> QED BY <1>1, <1>3, <2>1, <3>1 DEF Rising
  <2>2. ASSUME NEW i \in 1..Len(p), h > 0, p[i] > 0 PROVE h < p[i]
    <3>1. i + 1 \in 1..Len(q) /\ 1 < i + 1
      BY <1>1
    <3> QED BY <1>1, <1>3, <2>2, <3>1 DEF Rising
  <2> QED BY <2>1, <2>2 DEF Rising, Above
<1>4. ASSUME NEW y \in Int PROVE Above(y, q) => Above(y, p) /\ (h > 0 => y < h)
  BY <1>1, <1>2 DEF Above
<1>5. ASSUME NEW y \in Int PROVE Below(q, y) => Below(p, y) /\ (h > 0 => h < y)
  BY <1>1, <1>2 DEF Below
<1>6. /\ Rising(q) => Rising(p) /\ (h > 0 => Above(h, p))
      /\ \A y \in Int : Above(y, q) => Above(y, p) /\ (h > 0 => y < h)
      /\ \A y \in Int : Below(q, y) => Below(p, y) /\ (h > 0 => h < y)
  BY <1>3, <1>4, <1>5
<1> QED BY <1>6 DEF p, h

LEMMA PutLastIn ==
  ASSUME NEW q \in Seq(Int), NEW x \in Int
  PROVE  /\ Append(q, x) \in Seq(Int) /\ Len(Append(q, x)) = Len(q) + 1
         /\ Rising(q) /\ (x > 0 => Below(q, x)) => Rising(Append(q, x))
         /\ \A y \in Int : Above(y, q) /\ (x > 0 => y < x) => Above(y, Append(q, x))
         /\ \A y \in Int : Below(q, y) /\ (x > 0 => x < y) => Below(Append(q, x), y)
<1> DEFINE p == Append(q, x)
<1>1. /\ Len(q) \in Nat /\ p \in Seq(Int) /\ Len(p) = Len(q) + 1
      /\ \A i \in 1..Len(p) : p[i] = IF i <= Len(q) THEN q[i] ELSE x
  OBVIOUS
<1>2. /\ \A i \in 1..Len(p) :
           (i \in 1..Len(q) /\ p[i] = q[i]) \/ (i = Len(q) + 1 /\ p[i] = x)
      /\ \A i \in 1..Len(q) : q[i] \in Int
  BY <1>1
<1> HIDE DEF p
<1>3. ASSUME Rising(q), x > 0 => Below(q, x) PROVE Rising(p)
  <2> SUFFICES ASSUME NEW i \in 1..Len(p), NEW j \in 1..Len(p), i < j, p[i] > 0, p[j] > 0
               PROVE  p[i] < p[j]
    BY DEF Rising
  <2>1. i \in 1..Len(q) /\ p[i] = q[i]
    BY <1>1, <1>2
  <2> QED BY <1>2, <1>3, <2>1 DEF Rising, Below
<1>4. ASSUME NEW y \in Int, Above(y, q), x > 0 => y < x PROVE Above(y, p)
  BY <1>2, <1>4 DEF Above
<1>5. ASSUME NEW y \in Int, Below(q, y), x > 0 => x < y PROVE Below(p, y)
  BY <1>2, <1>5 DEF Below
<1>6. /\ p \in Seq(Int) /\ Len(p) = Len(q) + 1
      /\ Rising(q) /\ (x > 0 => Below(q, x)) => Rising(p)
      /\ \A y \in Int : Above(y, q) /\ (x > 0 => y < x) => Above(y, p)
      /\ \A y \in Int : Below(q, y) /\ (x > 0 => x < y) => Below(p, y)
  BY <1>1, <1>3, <1>4, <1>5
<1> QED BY <1>6 DEF p

LEMMA PushKeeps ==
  ASSUME NEW q \in Seq(Int), NEW n \in Nat \ {0}, NEW x \in Int, Len(q) <= n
  PROVE  /\ Pushed(q, n, x) \in Seq(Int) /\ Len(Pushed(q, n, x)) <= n
         /\ Rising(q) /\ (x > 0 => Below(q, x)) => Rising(Pushed(q, n, x))
         /\ \A y \in Int : Above(y, q) /\ (x > 0 => y < x) => Above(y, Pushed(q, n, x))
         /\ \A y \in Int : Below(q, y) /\ (x > 0 => x < y) => Below(Pushed(q, n, x), y)
<1>1. CASE Len(q) = n
  <2> DEFINE p == Tail(q)
  <2>1. /\ p \in Seq(Int) /\ Len(p) = n - 1
        /\ Rising(q) => Rising(p)
        /\ \A y \in Int : (Above(y, q) => Above(y, p)) /\ (Below(q, y) => Below(p, y))
    BY <1>1, TailKept, TakenFirst
  <2> HIDE DEF p
  <2>2. Pushed(q, n, x) = Append(p, x)
    BY <1>1 DEF Pushed, p
  <2> QED BY <2>1, <2>2, PutLastIn
<1>2. CASE Len(q) # n
  <2>1. Pushed(q, n, x) = Append(q, x) /\ Len(q) < n /\ Len(q) \in Nat
    BY <1>2 DEF Pushed
  <2> QED BY <2>1, PutLastIn
<1> QED BY <1>1, <1>2

LEMMA PushFinds ==
  ASSUME NEW S, NEW q \in Seq(S), NEW n \in Nat \ {0}, NEW x \in S
  PROVE  /\ Pushed(q, n, x) \in Seq(S) /\ (Len(q) <= n => Len(Pushed(q, n, x)) <= n)
         /\ \A i \in 1..Len(Pushed(q, n, x)) :
              Pushed(q, n, x)[i] = x \/ \E j \in 1..Len(q) : Pushed(q, n, x)[i] = q[j]
<1>1. ASSUME NEW p \in Seq(S), \A i \in 1..Len(p) : \E j \in 1..Len(q) : p[i] = q[j]
      PROVE  /\ Append(p, x) \in Seq(S) /\ Len(Append(p, x)) = Len(p) + 1
             /\ \A i \in 1..Len(Append(p, x)) :
                  Append(p, x)[i] = x \/ \E j \in 1..Len(q) : Append(p, x)[i] = q[j]
  <2>1. /\ Append(p, x) \in Seq(S) /\ Len(Append(p, x)) = Len(p) + 1 /\ Len(p) \in Nat
        /\ \A i \in 1..(Len(p) + 1) : Append(p, x)[i] = IF i <= Len(p) THEN p[i] ELSE x
    OBVIOUS
  <2>2. \A i \in 1..(Len(p) + 1) : i <= Len(p) => i \in 1..Len(p)
    BY <2>1
  <2> QED BY <1>1, <2>1, <2>2
<1>2. CASE Len(q) = n
  <2>1. /\ Tail(q) \in Seq(S) /\ Len(Tail(q)) = n - 1
        /\ \A i \in 1..Len(Tail(q)) : i + 1 \in 1..Len(q) /\ Tail(q)[i] = q[i + 1]
    BY <1>2
  <2>2. \A i \in 1..Len(Tail(q)) : \E j \in 1..Len(q) : Tail(q)[i] = q[j]
    BY <2>1
  <2> QED BY <1>1, <1>2, <2>1, <2>2 DEF Pushed
<1>3. CASE Len(q) # n
  <2>1. Pushed(q, n, x) = Append(q, x) /\ Len(q) \in Nat /\ (Len(q) <= n => Len(q) + 1 <= n)
    BY <1>3 DEF Pushed
  <2> QED BY <1>1, <2>1
<1> QED BY <1>2, <1>3

LEMMA PushedFrom ==
  ASSUME NEW q \in Seq(Int), NEW n \in Nat \ {0}, NEW x \in Int
  PROVE  \A i \in 1..Len(Pushed(q, n, x)) :
           Pushed(q, n, x)[i] = x \/ \E j \in 1..Len(q) : Pushed(q, n, x)[i] = q[j]
<1>1. PICK S : S = Int
  OBVIOUS
<1>2. PICK y \in S : y = x
  BY <1>1
<1>3. q \in Seq(S) /\ n \in Nat \ {0} /\ y \in S
  BY <1>1
<1>4. \A i \in 1..Len(Pushed(q, n, y)) :
        Pushed(q, n, y)[i] = y \/ \E j \in 1..Len(q) : Pushed(q, n, y)[i] = q[j]
  BY ONLY <1>3, PushFinds
<1> QED BY <1>2, <1>4

-----------------------------------------------------------------------------
(* The types of the bus.                                                   *)

PumpType == [at : {"top", "fan", "wait", "last", "gone"}, hand : Int, todo : SUBSET Sinks]
SlotType == [at : {"none", "run", "drain", "gone"}, queue : Seq(Int), hand : Int, stop : BOOLEAN]

CountsTyped ==
  /\ emitted \in 0..MaxEmits /\ audits \in 0..MaxAudits /\ pending \in Nat /\ total \in Nat
  /\ shutBus \in BOOLEAN /\ cut \in BOOLEAN /\ slots \subseteq Sinks
  /\ closer \in {"open", "pump", "sinks", "done"}
  /\ hook \in {"run", "gone"} /\ hookq \in 0..QueueSize
RingTyped  == ring \in Seq(1..MaxEmits) /\ Len(ring) <= RingSize
PumpTyped  == pump \in PumpType
SlotsTyped == slot \in [Sinks -> SlotType] /\ \A s \in Sinks : Len(slot[s].queue) <= QueueSize
GivenTyped == latest \in [Sinks -> Nat]

BusShape == CountsTyped /\ RingTyped /\ PumpTyped /\ SlotsTyped /\ GivenTyped

LEMMA ShapeTypes == BusShape => BusTypeOK
<1> SUFFICES ASSUME BusShape PROVE BusTypeOK
  OBVIOUS
<1>1. pump.at \in {"top", "fan", "wait", "last", "gone"} /\ pump.todo \subseteq Sinks
  BY DEF BusShape, PumpTyped, PumpType
<1>2. \A s \in Sinks : /\ slot[s].at \in {"none", "run", "drain", "gone"}
                       /\ slot[s].stop \in BOOLEAN /\ Len(slot[s].queue) <= QueueSize
  BY DEF BusShape, SlotsTyped, SlotType
<1> QED BY <1>1, <1>2 DEF BusShape, CountsTyped, RingTyped, BusTypeOK

LEMMA SlotParts ==
  ASSUME BusShape, NEW s \in Sinks
  PROVE  /\ slot[s] \in SlotType /\ slot[s].queue \in Seq(Int) /\ slot[s].hand \in Int
         /\ Len(slot[s].queue) \in Nat /\ Len(slot[s].queue) <= QueueSize
         /\ QueueSize \in Nat \ {0} /\ latest[s] \in Nat /\ pump.hand \in Int
         /\ slot[s].at \in {"none", "run", "drain", "gone"}
<1>1. slot[s] \in SlotType /\ Len(slot[s].queue) <= QueueSize /\ latest[s] \in Nat
  BY DEF BusShape, SlotsTyped, GivenTyped
<1>2. pump.hand \in Int
  BY DEF BusShape, PumpTyped, PumpType
<1> QED BY <1>1, <1>2, BusAssumption DEF SlotType

\* A step that leaves every queue and goroutine of a slot, but for its stop channel.
Stopping == \A s \in Sinks :
  slot'[s].queue = slot[s].queue /\ slot'[s].hand = slot[s].hand /\ slot'[s].at = slot[s].at

LEMMA StopsOnly ==
  ASSUME SlotsTyped, StopSlots
  PROVE  Stopping /\ SlotsTyped'
<1>1. \A s \in Sinks : /\ [slot[s] EXCEPT !.stop = TRUE] \in SlotType /\ slot[s] \in SlotType
                       /\ Len(slot[s].queue) <= QueueSize
  BY DEF SlotsTyped, SlotType
<1>2. slot' = [s \in Sinks |-> IF s \in slots THEN [slot[s] EXCEPT !.stop = TRUE] ELSE slot[s]]
  BY DEF StopSlots
<1>3. Stopping
  BY <1>1, <1>2 DEF Stopping, SlotType
<1> QED BY <1>1, <1>2, <1>3 DEF SlotsTyped, Stopping

LEMMA SlotSet ==
  ASSUME SlotsTyped, NEW s \in Sinks, NEW x \in SlotType, Len(x.queue) <= QueueSize,
         slot' = [slot EXCEPT ![s] = x]
  PROVE  SlotsTyped'
<1>1. \A t \in Sinks : slot'[t] \in SlotType /\ Len(slot'[t].queue) <= QueueSize
  BY DEF SlotsTyped
<1> QED BY <1>1 DEF SlotsTyped

\* The pump's steps, but for Push.
LEMMA TypesOfPump ==
  ASSUME BusShape,
         \/ PumpCut \/ PumpPop \/ PumpNext \/ PumpWaits \/ PumpLast \/ PumpStops \/ PumpWakes
         \/ PumpFlushes
  PROVE  BusShape'
<1>1. CountsTyped /\ RingTyped /\ PumpTyped /\ SlotsTyped /\ GivenTyped
  BY DEF BusShape
<1>2. CASE PumpCut
  <2>1. total' \in Nat /\ RingTyped'
    BY <1>1, <1>2, BusAssumption DEF CountsTyped, RingTyped, PumpCut
  <2>2. PumpTyped'
    BY <1>1, <1>2 DEF PumpTyped, PumpType, PumpCut
  <2>3. SlotsTyped'
    BY <1>1, <1>2, StopsOnly DEF PumpCut
  <2> QED BY <1>1, <1>2, <2>1, <2>2, <2>3 DEF PumpCut, CountsTyped, GivenTyped, BusShape
<1>3. CASE PumpPop
  <2>1. RingTyped' /\ Head(ring) \in Int
    BY <1>1, <1>3, BusAssumption DEF RingTyped, PumpPop
  <2>2. PumpTyped'
    BY <1>1, <1>3, <2>1 DEF CountsTyped, PumpTyped, PumpType, PumpPop
  <2> QED BY <1>1, <1>3, <2>1, <2>2 DEF PumpPop, CountsTyped, SlotsTyped, GivenTyped, BusShape
<1>4. CASE PumpStops
  <2>0. pump' = [at |-> "gone", hand |-> 0, todo |-> pump.todo] /\ pump.todo \subseteq Sinks
    BY <1>1, <1>4 DEF PumpTyped, PumpType, PumpStops
  <2>1. PumpTyped'
    BY <2>0 DEF PumpTyped, PumpType
  <2>2. SlotsTyped'
    BY <1>1, <1>4, StopsOnly DEF PumpStops
  <2> QED BY <1>1, <1>4, <2>1, <2>2 DEF PumpStops, CountsTyped, RingTyped, GivenTyped, BusShape
<1>5. CASE PumpNext
  <2>0. pump' = [at |-> "top", hand |-> 0, todo |-> pump.todo] /\ pump.todo \subseteq Sinks
    BY <1>1, <1>5 DEF PumpTyped, PumpType, PumpNext
  <2>1. PumpTyped'
    BY <2>0 DEF PumpTyped, PumpType
  <2> QED BY <1>1, <1>5, <2>1 DEF PumpNext, CountsTyped, RingTyped, SlotsTyped, GivenTyped,
             BusShape
<1>6. CASE PumpWaits
  <2>1. PumpTyped'
    BY <1>1, <1>6 DEF PumpTyped, PumpType, PumpWaits
  <2> QED BY <1>1, <1>6, <2>1 DEF PumpWaits, CountsTyped, RingTyped, SlotsTyped, GivenTyped,
             BusShape
<1>7. CASE PumpWakes
  <2>1. PumpTyped'
    BY <1>1, <1>7 DEF PumpTyped, PumpType, PumpWakes
  <2> QED BY <1>1, <1>7, <2>1 DEF PumpWakes, CountsTyped, RingTyped, SlotsTyped, GivenTyped,
             BusShape
<1>8. CASE PumpLast
  <2>1. audits' \in 0..MaxAudits /\ pending' = 0
    BY <1>1, <1>8, BusAssumption DEF CountsTyped, PumpLast, Audit
  <2>2. PumpTyped'
    BY <1>1, <1>8, BusAssumption DEF CountsTyped, PumpTyped, PumpType, PumpLast, Audit
  <2> QED BY <1>1, <1>8, <2>1, <2>2 DEF PumpLast, CountsTyped, RingTyped, SlotsTyped,
             GivenTyped, BusShape
<1>9. CASE PumpFlushes
  <2>1. audits' \in 0..MaxAudits /\ pending' = 0
    BY <1>1, <1>9, BusAssumption DEF CountsTyped, PumpFlushes, Audit
  <2>2. PumpTyped'
    BY <1>1, <1>9, BusAssumption DEF CountsTyped, PumpTyped, PumpType, PumpFlushes, Audit
  <2> QED BY <1>1, <1>9, <2>1, <2>2 DEF PumpFlushes, CountsTyped, RingTyped, SlotsTyped,
             GivenTyped, BusShape
<1> QED BY <1>2, <1>3, <1>4, <1>5, <1>6, <1>7, <1>8, <1>9

LEMMA TypesOfSlot ==
  ASSUME BusShape, NEW s \in Sinks,
         \/ Push(s) \/ SlotPop(s) \/ Deliver(s) \/ SlotCut(s) \/ SlotDrains(s) \/ SlotExits(s)
         \/ Subscribe(s) \/ Unsubscribe(s)
  PROVE  BusShape'
<1>0. /\ slot[s] \in SlotType /\ slot[s].queue \in Seq(Int) /\ slot[s].hand \in Int
      /\ Len(slot[s].queue) \in Nat /\ Len(slot[s].queue) <= QueueSize
      /\ QueueSize \in Nat \ {0} /\ pump.hand \in Int
  BY SlotParts
<1>1. CountsTyped /\ RingTyped /\ PumpTyped /\ SlotsTyped /\ GivenTyped
  BY DEF BusShape
<1>2. CASE Push(s)
  <2> DEFINE q == Pushed(slot[s].queue, QueueSize, pump.hand)
             x == [slot[s] EXCEPT !.queue = q]
  <2>1. q \in Seq(Int) /\ Len(q) <= QueueSize
    BY <1>0, PushFinds
  <2>2. slot' = slot \/ slot' = [slot EXCEPT ![s] = x]
    BY <1>2 DEF Push, Pushed
  <2> HIDE DEF q
  <2>3. x \in SlotType /\ x.queue = q
    BY <1>0, <2>1 DEF SlotType
  <2> HIDE DEF x
  <2>4. SlotsTyped'
    BY <1>1, <2>1, <2>2, <2>3, SlotSet DEF SlotsTyped
  <2>5. pending' \in Nat /\ total' \in Nat
    BY <1>1, <1>2 DEF Push, CountsTyped
  <2>6. PumpTyped'
    BY <1>1, <1>2 DEF Push, PumpTyped, PumpType
  <2> QED BY <1>1, <1>2, <2>4, <2>5, <2>6 DEF Push, CountsTyped, RingTyped, GivenTyped, BusShape
<1>3. CASE SlotPop(s)
  <2> DEFINE x == [slot[s] EXCEPT !.hand = Head(slot[s].queue), !.queue = Tail(slot[s].queue)]
  <2>1. /\ Head(slot[s].queue) \in Int /\ Tail(slot[s].queue) \in Seq(Int)
        /\ Len(Tail(slot[s].queue)) <= QueueSize
    BY <1>0, <1>3 DEF SlotPop
  <2>2. slot' = [slot EXCEPT ![s] = x]
    BY <1>3 DEF SlotPop
  <2>3. x \in SlotType /\ x.queue = Tail(slot[s].queue)
    BY <1>0, <2>1 DEF SlotType
  <2> HIDE DEF x
  <2>4. SlotsTyped'
    BY <1>1, <2>1, <2>2, <2>3, SlotSet
  <2> QED BY <1>1, <1>3, <2>4 DEF SlotPop, CountsTyped, RingTyped, PumpTyped, GivenTyped, BusShape
<1>4. CASE Deliver(s)
  <2> DEFINE x == [slot[s] EXCEPT !.hand = 0]
  <2>1. slot' = [slot EXCEPT ![s] = x]
    BY <1>4 DEF Deliver
  <2>2. x \in SlotType /\ x.queue = slot[s].queue
    BY <1>0 DEF SlotType
  <2> HIDE DEF x
  <2>3. SlotsTyped'
    BY <1>0, <1>1, <2>1, <2>2, SlotSet
  <2>4. GivenTyped'
    BY <1>0, <1>1, <1>4 DEF Deliver, GivenTyped
  <2>5. hookq' \in 0..QueueSize /\ pending' \in Nat /\ total' \in Nat
    BY <1>0, <1>1, <1>4 DEF Deliver, CountsTyped
  <2> QED BY <1>1, <1>4, <2>3, <2>4, <2>5 DEF Deliver, CountsTyped, RingTyped, PumpTyped, BusShape
<1>5. CASE SlotCut(s)
  <2>0. PICK e \in Seq(Int) : e = <<>> /\ Len(e) = 0
    BY EmptySeq
  <2> DEFINE x == [slot[s] EXCEPT !.at = "gone", !.queue = e]
  <2>1. slot' = [slot EXCEPT ![s] = x]
    BY <1>5, <2>0 DEF SlotCut
  <2>2. x \in SlotType /\ x.queue = e
    BY <1>0 DEF SlotType
  <2>3. Len(x.queue) <= QueueSize
    BY <1>0, <2>0, <2>2
  <2> HIDE DEF x
  <2>4. SlotsTyped'
    BY <1>1, <2>1, <2>2, <2>3, SlotSet
  <2>5. total' \in Nat
    BY <1>0, <1>1, <1>5 DEF SlotCut, CountsTyped
  <2> QED BY <1>1, <1>5, <2>4, <2>5 DEF SlotCut, CountsTyped, RingTyped, PumpTyped, GivenTyped,
             BusShape
<1>6. CASE SlotDrains(s)
  <2> DEFINE x == [slot[s] EXCEPT !.at = "drain"]
  <2>1. slot' = [slot EXCEPT ![s] = x] /\ slots' \subseteq Sinks
    BY <1>1, <1>6 DEF SlotDrains, CountsTyped
  <2>2. x \in SlotType /\ Len(x.queue) <= QueueSize
    BY <1>0 DEF SlotType
  <2> HIDE DEF x
  <2>3. SlotsTyped'
    BY <1>1, <2>1, <2>2, SlotSet
  <2> QED BY <1>1, <1>6, <2>1, <2>3 DEF SlotDrains, CountsTyped, RingTyped, PumpTyped,
             GivenTyped, BusShape
<1>7. CASE SlotExits(s)
  <2> DEFINE x == [slot[s] EXCEPT !.at = "gone"]
  <2>1. slot' = [slot EXCEPT ![s] = x] /\ slots' \subseteq Sinks
    BY <1>1, <1>7 DEF SlotExits, CountsTyped
  <2>2. x \in SlotType /\ Len(x.queue) <= QueueSize
    BY <1>0 DEF SlotType
  <2> HIDE DEF x
  <2>3. SlotsTyped'
    BY <1>1, <2>1, <2>2, SlotSet
  <2> QED BY <1>1, <1>7, <2>1, <2>3 DEF SlotExits, CountsTyped, RingTyped, PumpTyped,
             GivenTyped, BusShape
<1>8. CASE Unsubscribe(s)
  <2> DEFINE x == [slot[s] EXCEPT !.stop = TRUE]
  <2>1. slot' = [slot EXCEPT ![s] = x] /\ slots' \subseteq Sinks
    BY <1>1, <1>8 DEF Unsubscribe, CountsTyped
  <2>2. x \in SlotType /\ Len(x.queue) <= QueueSize
    BY <1>0 DEF SlotType
  <2> HIDE DEF x
  <2>3. SlotsTyped'
    BY <1>1, <2>1, <2>2, SlotSet
  <2> QED BY <1>1, <1>8, <2>1, <2>3 DEF Unsubscribe, CountsTyped, RingTyped, PumpTyped,
             GivenTyped, BusShape
<1>9. CASE Subscribe(s)
  <2> DEFINE x == NewSlot
  <2>1. slot' = [slot EXCEPT ![s] = x] /\ slots' \subseteq Sinks
    BY <1>1, <1>9 DEF Subscribe, CountsTyped
  <2>2. x \in SlotType /\ Len(x.queue) <= QueueSize
    BY <1>0 DEF SlotType, NewSlot
  <2> HIDE DEF x
  <2>3. SlotsTyped'
    BY <1>1, <2>1, <2>2, SlotSet
  <2> QED BY <1>1, <1>9, <2>1, <2>3 DEF Subscribe, CountsTyped, RingTyped, PumpTyped,
             GivenTyped, BusShape
<1> QED BY <1>2, <1>3, <1>4, <1>5, <1>6, <1>7, <1>8, <1>9

LEMMA TypesOfBus == BusShape /\ [BusNext]_busVars => BusShape'
<1> SUFFICES ASSUME BusShape, [BusNext]_busVars PROVE BusShape'
  OBVIOUS
<1>0. CountsTyped /\ RingTyped /\ PumpTyped /\ SlotsTyped /\ GivenTyped
  BY DEF BusShape
<1>1. CASE EmitLate
  <2>1. CountsTyped'
    BY <1>0, <1>1, BusAssumption DEF EmitLate, CountsTyped
  <2> QED BY <1>0, <1>1, <2>1 DEF EmitLate, RingTyped, PumpTyped, SlotsTyped, GivenTyped, BusShape
<1>2. CASE Emit
  <2>1. emitted + 1 \in 1..MaxEmits /\ RingSize \in Nat \ {0}
    BY <1>0, <1>2, BusAssumption DEF Emit, CountsTyped
  <2>2. ring' = Pushed(ring, RingSize, emitted + 1)
    BY <1>2 DEF Emit, Pushed
  <2>3. RingTyped'
    BY <1>0, <2>1, <2>2, PushFinds DEF RingTyped
  <2>4. emitted' \in 0..MaxEmits /\ pending' \in Nat /\ total' \in Nat
    BY <1>0, <1>2, <2>1 DEF Emit, CountsTyped
  <2> QED BY <1>0, <1>2, <2>3, <2>4 DEF Emit, CountsTyped, PumpTyped, SlotsTyped, GivenTyped,
             BusShape
<1>3. ASSUME NEW why, Cut(why) PROVE BusShape'
  BY <1>0, <1>3 DEF Cut, CountsTyped, RingTyped, PumpTyped, SlotsTyped, GivenTyped, BusShape
<1>4. CASE Close \/ CloseWaits
  BY <1>0, <1>4 DEF Close, CloseWaits, CountsTyped, RingTyped, PumpTyped, SlotsTyped, GivenTyped,
     BusShape
<1>5. CASE HookSettles \/ HookStops
  <2>1. hookq' \in 0..QueueSize
    BY <1>0, <1>5, BusAssumption DEF HookSettles, HookStops, CountsTyped
  <2> QED BY <1>0, <1>5, <2>1 DEF HookSettles, HookStops, CountsTyped, RingTyped, PumpTyped,
             SlotsTyped, GivenTyped, BusShape
<1>6. CASE UNCHANGED busVars
  BY <1>0, <1>6 DEF busVars, CountsTyped, RingTyped, PumpTyped, SlotsTyped, GivenTyped, BusShape
<1> QED BY <1>1, <1>2, <1>3, <1>4, <1>5, <1>6, TypesOfPump, TypesOfSlot DEF BusNext

LEMMA BusHolds == BusSpec => []BusShape
<1>1. BusInit => BusShape
  <2> SUFFICES ASSUME BusInit PROVE BusShape
    OBVIOUS
  <2>1. PICK e \in Seq(Int) : e = <<>> /\ Len(e) = 0 /\ e \in Seq(1..MaxEmits)
    BY EmptySeq
  <2> DEFINE x == [at |-> "run", queue |-> e, hand |-> 0, stop |-> FALSE]
             y == [x EXCEPT !.at = "none"]
  <2>2. x \in SlotType /\ x.queue = e
    BY DEF SlotType
  <2>3. NewSlot = x /\ NoSlot = y
    BY <2>1 DEF NewSlot, NoSlot
  <2> HIDE DEF x
  <2>9. y \in SlotType /\ y.queue = e
    BY <2>2 DEF SlotType
  <2>4. slot = [s \in Sinks |-> IF s \in Subscribers THEN y ELSE x]
    BY <2>3 DEF BusInit
  <2> HIDE DEF y
  <2>5. SlotsTyped
    BY <2>1, <2>2, <2>4, <2>9, BusAssumption DEF SlotsTyped
  <2>6. RingTyped /\ PumpTyped
    BY <2>1, BusAssumption DEF BusInit, RingTyped, PumpTyped, PumpType
  <2>7. CountsTyped
    <3>1. /\ emitted = 0 /\ pending = 0 /\ total = 0 /\ audits = 0 /\ hookq = 0
          /\ shutBus = FALSE /\ cut = FALSE /\ slots = Sinks \ Subscribers
          /\ closer = "open" /\ hook = "run"
      BY DEF BusInit
    <3>2. /\ emitted \in 0..MaxEmits /\ audits \in 0..MaxAudits /\ pending \in Nat
          /\ total \in Nat
          /\ hookq \in 0..QueueSize
      BY <3>1, BusAssumption
    <3>3. slots \subseteq Sinks
      BY <3>1
    <3> QED BY <3>1, <3>2, <3>3 DEF CountsTyped
  <2>8. GivenTyped
    BY DEF BusInit, GivenTyped
  <2> QED BY <2>5, <2>6, <2>7, <2>8 DEF BusShape
<1> QED BY <1>1, TypesOfBus, PTL DEF BusSpec

-----------------------------------------------------------------------------
(* The order of the events on their way from Emit to a sink.               *)

\* What sink s has been given, its goroutine has in hand, or is queued for it, is older
\* than x.
Before(s, x) ==
  latest[s] < x /\ (slot[s].hand > 0 => slot[s].hand < x) /\ Below(slot[s].queue, x)

Line(s) ==
  /\ slot[s].hand > 0 => latest[s] < slot[s].hand /\ Above(slot[s].hand, slot[s].queue)
  /\ Above(latest[s], slot[s].queue) /\ Rising(slot[s].queue)
  /\ Before(s, emitted + 1)
  /\ \A i \in 1..Len(ring) : Before(s, ring[i])
  /\ s \in pump.todo /\ pump.hand > 0 => Before(s, pump.hand)

RingInOrder ==
  /\ Rising(ring) /\ Below(ring, emitted + 1)
  /\ pump.hand > 0 => pump.hand <= emitted /\ Above(pump.hand, ring)

OrderInv == RingInOrder /\ \A s \in Sinks : Line(s)

LEMMA RingParts ==
  ASSUME BusShape
  PROVE  /\ emitted \in Nat /\ MaxEmits \in Nat /\ RingSize \in Nat \ {0} /\ pump.hand \in Int
         /\ ring \in Seq(1..MaxEmits) /\ ring \in Seq(Int) /\ Len(ring) \in Nat
         /\ \A i \in 1..Len(ring) : ring[i] \in Int /\ ring[i] > 0
<1>1. pump.hand \in Int
  BY DEF BusShape, PumpTyped, PumpType
<1>2. ring \in Seq(1..MaxEmits) /\ MaxEmits \in Nat
  BY BusAssumption DEF BusShape, RingTyped
<1>3. ring \in Seq(Int) /\ Len(ring) \in Nat /\ \A i \in 1..Len(ring) : ring[i] \in 1..MaxEmits
  BY <1>2
<1> QED BY <1>1, <1>2, <1>3, BusAssumption DEF BusShape, CountsTyped

LEMMA OlderStill ==
  ASSUME BusShape, NEW s \in Sinks, NEW x \in Int, NEW y \in Int, x <= y, Before(s, x)
  PROVE  Before(s, y)
<1>1. \A i \in 1..Len(slot[s].queue) : slot[s].queue[i] \in Int
  BY SlotParts
<1> QED BY <1>1, SlotParts DEF Before, Below

\* What the buffer holds after a step was in it, or is newer than all that was emitted; what
\* the pump has in hand it had before, or took from the buffer.
Arrives ==
  /\ emitted' \in Nat /\ emitted' >= emitted
  /\ \A i \in 1..Len(ring') : ring'[i] = emitted + 1 \/ \E j \in 1..Len(ring) : ring'[i] = ring[j]
  /\ pump'.hand > 0 =>
       \/ pump'.hand = pump.hand /\ pump'.todo \subseteq pump.todo
       \/ \E j \in 1..Len(ring) : pump'.hand = ring[j]

LEMMA EventsArrive ==
  ASSUME BusShape, [BusNext]_busVars
  PROVE  Arrives /\ (RingInOrder => RingInOrder')
<1>0. /\ emitted \in Nat /\ MaxEmits \in Nat /\ RingSize \in Nat \ {0} /\ pump.hand \in Int
      /\ ring \in Seq(1..MaxEmits) /\ ring \in Seq(Int) /\ Len(ring) \in Nat
      /\ \A i \in 1..Len(ring) : ring[i] \in Int /\ ring[i] > 0
  BY RingParts
<1>p. pump \in PumpType /\ Len(ring) <= RingSize
  BY DEF BusShape, PumpTyped, RingTyped
<1>k. ASSUME UNCHANGED ring, emitted' \in {emitted, emitted + 1},
             pump'.hand > 0 => pump'.hand = pump.hand /\ pump'.todo \subseteq pump.todo
      PROVE  Arrives /\ (RingInOrder => RingInOrder')
  <2>1. Arrives
    BY <1>0, <1>k DEF Arrives
  <2>2. ASSUME RingInOrder PROVE RingInOrder'
    BY <1>0, <1>k, <2>2 DEF RingInOrder, Below
  <2> QED BY <2>1, <2>2
<1>1. CASE Emit
  <2>1. ring' = Pushed(ring, RingSize, emitted + 1) /\ emitted' = emitted + 1 /\ pump' = pump
    BY <1>1 DEF Emit, Pushed
  <2>2. \A i \in 1..Len(ring') : ring'[i] = emitted + 1
        \/ \E j \in 1..Len(ring) : ring'[i] = ring[j]
    <3>1. emitted + 1 \in Int
      BY <1>0
    <3> QED BY <1>0, <2>1, <3>1, PushedFrom
  <2>3. Arrives
    BY <1>0, <1>p, <2>1, <2>2 DEF Arrives, PumpType
  <2>4. ASSUME RingInOrder PROVE RingInOrder'
    <3>1. Rising(ring') /\ Below(ring', emitted' + 1)
      <4>1. Below(ring, emitted + 2)
        BY <1>0, <2>4 DEF RingInOrder, Below
      <4> QED BY <1>0, <1>p, <2>1, <2>4, <4>1, PushKeeps DEF RingInOrder
    <3>2. pump.hand > 0 => pump.hand <= emitted' /\ Above(pump.hand, ring')
      BY <1>0, <1>p, <2>1, <2>4, PushKeeps DEF RingInOrder
    <3> QED BY <2>1, <3>1, <3>2 DEF RingInOrder
  <2> QED BY <2>3, <2>4
<1>2. CASE PumpCut
  <2>1. /\ ring' = <<>> /\ emitted' = emitted /\ pump'.hand = pump.hand /\ pump'.todo = pump.todo
    BY <1>2, <1>p DEF PumpCut, PumpType
  <2>2. Len(ring') = 0
    BY <2>1
  <2> QED BY <1>0, <2>1, <2>2 DEF Arrives, RingInOrder, Rising, Below, Above
<1>3. CASE PumpPop
  <2>1. Len(ring) # 0
    BY <1>0, <1>3, EmptySeq DEF PumpPop
  <2>2. /\ ring' = Tail(ring) /\ emitted' = emitted /\ pump'.hand = Head(ring)
        /\ Head(ring) = ring[1] /\ 1 \in 1..Len(ring) /\ Head(ring) > 0
        /\ \A i \in 1..Len(ring') : i + 1 \in 1..Len(ring) /\ ring'[i] = ring[i + 1]
    BY <1>0, <1>3, <2>1, TailKept DEF PumpPop
  <2>3. Arrives
    BY <1>0, <2>2 DEF Arrives
  <2>4. ASSUME RingInOrder PROVE RingInOrder'
    BY <1>0, <2>1, <2>2, <2>4, TakenFirst DEF RingInOrder, Below
  <2> QED BY <2>3, <2>4
<1>4. CASE EmitLate
  BY <1>k, <1>4 DEF EmitLate
<1>5. CASE PumpNext \/ PumpWaits \/ PumpStops \/ PumpWakes
  <2>1. pump'.hand > 0 => pump'.hand = pump.hand /\ pump'.todo \subseteq pump.todo
    <3>1. CASE PumpNext
      BY <1>p, <3>1 DEF PumpNext, PumpType
    <3>2. CASE PumpStops
      BY <1>p, <3>2 DEF PumpStops, PumpType
    <3>3. CASE PumpWaits
      BY <1>p, <3>3 DEF PumpWaits, PumpType
    <3>4. CASE PumpWakes
      BY <1>p, <3>4 DEF PumpWakes, PumpType
    <3> QED BY <1>5, <3>1, <3>2, <3>3, <3>4
  <2> QED BY <1>k, <1>5, <2>1 DEF PumpNext, PumpWaits, PumpStops, PumpWakes
<1>6. CASE PumpLast \/ PumpFlushes
  <2>1. pump'.hand <= 0 /\ pump'.hand \in Int
    BY <1>6, BusAssumption DEF PumpLast, PumpFlushes, Audit, BusShape, CountsTyped
  <2> QED BY <1>k, <1>6, <2>1 DEF PumpLast, PumpFlushes
<1>7. ASSUME NEW s \in Sinks, Push(s) PROVE Arrives /\ (RingInOrder => RingInOrder')
  <2>1. pump'.hand = pump.hand /\ pump'.todo \subseteq pump.todo
    BY <1>7, <1>p DEF Push, PumpType
  <2> QED BY <1>k, <1>7, <2>1 DEF Push
<1>8. CASE UNCHANGED <<emitted, ring, pump>>
  BY <1>k, <1>8
<1>9. ASSUME NEW s \in Sinks,
             \/ SlotPop(s) \/ Deliver(s) \/ SlotCut(s) \/ SlotDrains(s) \/ SlotExits(s)
             \/ Subscribe(s) \/ Unsubscribe(s)
      PROVE  UNCHANGED <<emitted, ring, pump>>
  BY <1>9 DEF SlotPop, Deliver, SlotCut, SlotDrains, SlotExits, Subscribe, Unsubscribe
<1>10. ASSUME \/ \E why \in Cuts : Cut(why)
              \/ Close \/ CloseWaits \/ HookSettles \/ HookStops \/ UNCHANGED busVars
       PROVE  UNCHANGED <<emitted, ring, pump>>
  BY <1>10 DEF Cut, Close, CloseWaits, HookSettles, HookStops, busVars
<1> QED BY <1>1, <1>2, <1>3, <1>4, <1>5, <1>6, <1>7, <1>8, <1>9, <1>10 DEF BusNext

\* Before, of the state that follows.
BeforeNow(s, x) ==
  latest'[s] < x /\ (slot'[s].hand > 0 => slot'[s].hand < x) /\ Below(slot'[s].queue, x)

LEMMA LineMoves ==
  ASSUME BusShape, NEW s \in Sinks, Line(s), Arrives,
         slot'[s].hand > 0 => latest'[s] < slot'[s].hand /\ Above(slot'[s].hand, slot'[s].queue),
         Above(latest'[s], slot'[s].queue), Rising(slot'[s].queue),
         \A x \in Int : Before(s, x) => BeforeNow(s, x)
  PROVE  Line(s)'
<1>0. /\ emitted \in Nat /\ pump.hand \in Int /\ Len(ring) \in Nat
      /\ \A i \in 1..Len(ring) : ring[i] \in Int /\ ring[i] > 0
  BY RingParts
<1>1. emitted' \in Nat /\ emitted' >= emitted /\ Before(s, emitted + 1)
  BY DEF Arrives, Line
<1>2. PICK e \in Int : e = emitted' + 1
  <2>1. emitted' + 1 \in Int
    BY <1>1
  <2> QED BY <2>1
<1>3. BeforeNow(s, e) /\ BeforeNow(s, emitted + 1)
  <2>1. Before(s, e)
    BY <1>0, <1>1, <1>2, OlderStill
  <2> QED BY <1>0, <1>1, <2>1
<1>4. \A i \in 1..Len(ring') : BeforeNow(s, ring'[i])
  <2> SUFFICES ASSUME NEW i \in 1..Len(ring') PROVE BeforeNow(s, ring'[i])
    OBVIOUS
  <2>1. CASE ring'[i] = emitted + 1
    BY <1>3, <2>1
  <2>2. ASSUME NEW j \in 1..Len(ring), ring'[i] = ring[j] PROVE BeforeNow(s, ring'[i])
    BY <1>0, <2>2 DEF Line
  <2> QED BY <2>1, <2>2 DEF Arrives
<1>5. ASSUME s \in pump'.todo, pump'.hand > 0 PROVE BeforeNow(s, pump'.hand)
  <2>1. CASE pump'.hand = pump.hand /\ pump'.todo \subseteq pump.todo
    BY <1>0, <1>5, <2>1 DEF Line
  <2>2. ASSUME NEW j \in 1..Len(ring), pump'.hand = ring[j] PROVE BeforeNow(s, pump'.hand)
    BY <1>0, <2>2 DEF Line
  <2> QED BY <1>5, <2>1, <2>2 DEF Arrives
<1> QED BY <1>2, <1>3, <1>4, <1>5 DEF Line, Before, BeforeNow

LEMMA LineKept ==
  ASSUME BusShape, NEW s \in Sinks, Line(s), Arrives,
         slot'[s].queue = slot[s].queue, slot'[s].hand = slot[s].hand, latest'[s] = latest[s]
  PROVE  Line(s)' /\ latest'[s] >= latest[s]
<1>1. \A x \in Int : Before(s, x) => BeforeNow(s, x)
  BY DEF Before, BeforeNow
<1>2. Above(latest'[s], slot'[s].queue) /\ Rising(slot'[s].queue)
  BY DEF Line
<1>3. slot'[s].hand > 0 => latest'[s] < slot'[s].hand /\ Above(slot'[s].hand, slot'[s].queue)
  BY DEF Line
<1>4. Line(s)'
  BY <1>1, <1>2, <1>3, LineMoves
<1> QED BY <1>4, SlotParts

\* The steps of a slot itself.
LEMMA LineOfSlot ==
  ASSUME BusShape, NEW s \in Sinks, Line(s), Arrives,
         \/ SlotPop(s) \/ Deliver(s) \/ SlotCut(s) \/ SlotDrains(s) \/ SlotExits(s)
         \/ Subscribe(s) \/ Unsubscribe(s)
  PROVE  Line(s)' /\ latest'[s] >= latest[s]
<1>0. /\ slot[s] \in SlotType /\ slot[s].queue \in Seq(Int) /\ slot[s].hand \in Int
      /\ Len(slot[s].queue) \in Nat /\ latest[s] \in Nat
      /\ \A i \in 1..Len(slot[s].queue) : slot[s].queue[i] \in Int
  BY SlotParts
<1>s. slot \in [Sinks -> SlotType] /\ latest \in [Sinks -> Nat]
  BY DEF BusShape, SlotsTyped, GivenTyped
<1>1. CASE SlotPop(s)
  <2>1. Len(slot[s].queue) # 0
    BY <1>0, <1>1, EmptySeq DEF SlotPop
  <2>2. /\ slot'[s].queue = Tail(slot[s].queue) /\ slot'[s].hand = Head(slot[s].queue)
        /\ latest' = latest
    BY <1>0, <1>s, <1>1 DEF SlotPop, SlotType
  <2>3. /\ Rising(slot'[s].queue) /\ Above(latest'[s], slot'[s].queue)
        /\ slot'[s].hand > 0 => latest'[s] < slot'[s].hand /\ Above(slot'[s].hand, slot'[s].queue)
    BY <1>0, <2>1, <2>2, TakenFirst DEF Line
  <2>4. \A x \in Int : Before(s, x) => BeforeNow(s, x)
    BY <1>0, <2>1, <2>2, TakenFirst DEF Before, BeforeNow
  <2> QED BY <1>0, <2>2, <2>3, <2>4, LineMoves
<1>2. CASE Deliver(s)
  <2>1. slot'[s].queue = slot[s].queue /\ slot'[s].hand = 0
    BY <1>0, <1>s, <1>2 DEF Deliver, SlotType
  <2>2. latest'[s] = latest[s] \/ (slot[s].hand > 0 /\ latest'[s] = slot[s].hand)
    BY <1>s, <1>2 DEF Deliver
  <2>3. /\ Rising(slot'[s].queue) /\ Above(latest'[s], slot'[s].queue)
        /\ ~(slot'[s].hand > 0)
    BY <1>0, <2>1, <2>2 DEF Line
  <2>4. \A x \in Int : Before(s, x) => BeforeNow(s, x)
    BY <2>1, <2>2, <2>3 DEF Before, BeforeNow
  <2>5. latest'[s] >= latest[s]
    BY <1>0, <2>2 DEF Line
  <2> QED BY <2>3, <2>4, <2>5, LineMoves
<1>3. ASSUME slot'[s].queue = <<>>, slot'[s].hand = 0 \/ slot'[s].hand = slot[s].hand,
             latest' = latest
      PROVE  Line(s)' /\ latest'[s] >= latest[s]
  <2>1. Len(slot'[s].queue) = 0
    BY <1>3
  <2>2. /\ Rising(slot'[s].queue) /\ \A x \in Int : Above(x, slot'[s].queue)
        /\ \A x \in Int : Below(slot'[s].queue, x)
    BY <2>1 DEF Rising, Above, Below
  <2>3. \A x \in Int : Before(s, x) => BeforeNow(s, x)
    BY <1>0, <1>3, <2>2 DEF Before, BeforeNow
  <2>4. Above(latest'[s], slot'[s].queue)
    BY <1>0, <1>3, <2>2
  <2>5. slot'[s].hand > 0 => latest'[s] < slot'[s].hand /\ Above(slot'[s].hand, slot'[s].queue)
    BY <1>0, <1>3, <2>2 DEF Line
  <2> QED BY <1>0, <1>3, <2>2, <2>3, <2>4, <2>5, LineMoves
<1>4. CASE SlotCut(s)
  <2>1. slot'[s].queue = <<>> /\ slot'[s].hand = slot[s].hand /\ latest' = latest
    BY <1>0, <1>s, <1>4 DEF SlotCut, SlotType
  <2> QED BY <1>3, <2>1
<1>5. CASE Subscribe(s)
  <2>1. slot'[s] = NewSlot /\ NewSlot.queue = <<>> /\ NewSlot.hand = 0 /\ latest' = latest
    BY <1>s, <1>5 DEF Subscribe, NewSlot
  <2> QED BY <1>3, <2>1
<1>6. CASE SlotDrains(s) \/ SlotExits(s) \/ Unsubscribe(s)
  <2>1. slot'[s].queue = slot[s].queue /\ slot'[s].hand = slot[s].hand /\ latest' = latest
    <3>1. CASE SlotDrains(s)
      BY <1>0, <1>s, <3>1 DEF SlotDrains, SlotType
    <3>2. CASE SlotExits(s)
      BY <1>0, <1>s, <3>2 DEF SlotExits, SlotType
    <3>3. CASE Unsubscribe(s)
      BY <1>0, <1>s, <3>3 DEF Unsubscribe, SlotType
    <3> QED BY <1>6, <3>1, <3>2, <3>3
  <2> QED BY <2>1, LineKept
<1> QED BY <1>1, <1>2, <1>4, <1>5, <1>6

\* An event that is pushed to a slot is newer than all that went there before it, and older
\* than all that the buffer holds.
LEMMA LineOfPush ==
  ASSUME BusShape, NEW s \in Sinks, Line(s), RingInOrder, Arrives, Push(s)
  PROVE  Line(s)' /\ latest'[s] >= latest[s]
<1>0. /\ slot[s] \in SlotType /\ slot[s].queue \in Seq(Int) /\ slot[s].hand \in Int
      /\ Len(slot[s].queue) \in Nat /\ Len(slot[s].queue) <= QueueSize /\ latest[s] \in Nat
      /\ QueueSize \in Nat \ {0}
  BY SlotParts
<1>s. slot \in [Sinks -> SlotType] /\ pump \in PumpType
  BY DEF BusShape, SlotsTyped, PumpTyped
<1>r. /\ emitted \in Nat /\ pump.hand \in Int /\ Len(ring) \in Nat
      /\ \A i \in 1..Len(ring) : ring[i] \in Int /\ ring[i] > 0
  BY RingParts
<1>1. CASE slot[s].at = "gone"
  <2>1. slot' = slot /\ latest' = latest
    BY <1>1 DEF Push
  <2> QED BY <2>1, LineKept
<1>2. CASE slot[s].at # "gone"
  <2>1. /\ slot'[s].queue = Pushed(slot[s].queue, QueueSize, pump.hand)
        /\ slot'[s].hand = slot[s].hand /\ latest' = latest
    BY <1>0, <1>s, <1>2 DEF Push, Pushed, SlotType
  <2>2. /\ ring' = ring /\ emitted' = emitted /\ pump'.todo = pump.todo \ {s}
        /\ s \in pump.todo
    BY <1>s DEF Push, PumpType
  <2>3. pump.hand > 0 => Before(s, pump.hand)
    BY <2>2 DEF Line
  <2>4. Rising(slot'[s].queue) /\ Above(latest'[s], slot'[s].queue)
    <3>1. Rising(slot'[s].queue)
      BY <1>0, <1>r, <2>1, <2>3, PushKeeps DEF Line, Before
    <3>2. Above(latest[s], Pushed(slot[s].queue, QueueSize, pump.hand))
      BY <1>0, <1>r, <2>3, PushKeeps DEF Line, Before
    <3> QED BY <2>1, <3>1, <3>2
  <2>5. slot'[s].hand > 0 => latest'[s] < slot'[s].hand /\ Above(slot'[s].hand, slot'[s].queue)
    BY <1>0, <1>r, <2>1, <2>3, PushKeeps DEF Line, Before
  <2>6. \A x \in Int : Before(s, x) /\ (pump.hand > 0 => pump.hand < x) => BeforeNow(s, x)
    BY <1>0, <1>r, <2>1, PushKeeps DEF Before, BeforeNow
  <2>7. BeforeNow(s, emitted + 1)
    BY <1>r, <2>6 DEF Line, RingInOrder
  <2>8. \A i \in 1..Len(ring) : BeforeNow(s, ring[i])
    BY <1>r, <2>6 DEF Line, RingInOrder, Above
  <2>9. Line(s)'
    BY <2>2, <2>4, <2>5, <2>7, <2>8 DEF Line, Before, BeforeNow
  <2> QED BY <1>0, <2>1, <2>9
<1> QED BY <1>1, <1>2

LEMMA LinesNext ==
  ASSUME BusShape, OrderInv, [BusNext]_busVars
  PROVE  OrderInv' /\ \A s \in Sinks : latest'[s] >= latest[s]
<1>1. Arrives /\ RingInOrder' /\ RingInOrder /\ \A s \in Sinks : Line(s)
  BY EventsArrive DEF OrderInv
<1>s. slot \in [Sinks -> SlotType] /\ latest \in [Sinks -> Nat]
  BY DEF BusShape, SlotsTyped, GivenTyped
<1>2. SUFFICES ASSUME NEW s \in Sinks PROVE Line(s)' /\ latest'[s] >= latest[s]
  BY <1>1 DEF OrderInv
<1>3. ASSUME NEW t \in Sinks,
             \/ Push(t) \/ SlotPop(t) \/ Deliver(t) \/ SlotCut(t) \/ SlotDrains(t) \/ SlotExits(t)
             \/ Subscribe(t) \/ Unsubscribe(t)
      PROVE  Line(s)' /\ latest'[s] >= latest[s]
  <2>1. CASE t = s
    BY <1>1, <1>3, <2>1, LineOfSlot, LineOfPush
  <2>2. CASE t # s
    <3>1. slot'[s] = slot[s] /\ latest'[s] = latest[s]
      BY <1>s, <1>3, <2>2 DEF Push, SlotPop, Deliver, SlotCut, SlotDrains, SlotExits, Subscribe,
                              Unsubscribe
    <3> QED BY <1>1, <3>1, LineKept
  <2> QED BY <2>1, <2>2
<1>4. CASE PumpCut \/ PumpStops
  <2>1. StopSlots /\ latest' = latest
    BY <1>4 DEF PumpCut, PumpStops
  <2>2. Stopping
    BY <2>1, StopsOnly DEF BusShape
  <2> QED BY <1>1, <2>1, <2>2, LineKept DEF Stopping
<1>5. CASE UNCHANGED <<slot, latest>>
  BY <1>1, <1>5, LineKept
<1>6. CASE \/ EmitLate \/ Emit \/ PumpPop \/ PumpNext \/ PumpWaits \/ PumpLast \/ PumpWakes
           \/ PumpFlushes \/ UNCHANGED busVars
  <2>1. UNCHANGED <<slot, latest>>
    BY <1>6 DEF EmitLate, Emit, PumpPop, PumpNext, PumpWaits, PumpLast, PumpWakes, PumpFlushes,
                busVars
  <2> QED BY <1>5, <2>1
<1>7. CASE (\E why \in Cuts : Cut(why)) \/ Close \/ CloseWaits \/ HookSettles \/ HookStops
  <2>1. UNCHANGED <<slot, latest>>
    BY <1>7 DEF Cut, Close, CloseWaits, HookSettles, HookStops
  <2> QED BY <1>5, <2>1
<1> QED BY <1>3, <1>4, <1>6, <1>7 DEF BusNext

LEMMA LinesHold == BusSpec => []OrderInv
<1>1. BusInit => OrderInv
  <2> SUFFICES ASSUME BusInit PROVE OrderInv
    OBVIOUS
  <2>1. /\ ring = <<>> /\ emitted = 0 /\ pump.hand = 0 /\ pump.todo = {}
        /\ latest = [s \in Sinks |-> 0] /\ Len(ring) = 0
    BY DEF BusInit
  <2>2. \A s \in Sinks : slot[s].queue = <<>> /\ slot[s].hand = 0 /\ Len(slot[s].queue) = 0
    BY DEF BusInit, NewSlot, NoSlot
  <2>3. ASSUME NEW s \in Sinks PROVE Line(s)
    BY <2>1, <2>2 DEF Line, Before, Above, Below, Rising
  <2>4. RingInOrder
    BY <2>1 DEF RingInOrder, Above, Below, Rising
  <2> QED BY <2>3, <2>4 DEF OrderInv
<1>2. BusShape /\ OrderInv /\ [BusNext]_busVars => OrderInv'
  BY LinesNext
<1> QED BY <1>1, <1>2, BusHolds, PTL DEF BusSpec

\* Every sink is given the events in the order in which they were emitted, whatever the
\* buffer, the sinks' queues and slow subscribers drop on the way, and however the bus stops.
THEOREM EventsComeInOrder == BusSpec => DeliveredInOrder
<1>1. BusShape /\ OrderInv /\ [BusNext]_busVars
      => [\A s \in Sinks : latest'[s] >= latest[s]]_busVars
  BY LinesNext
<1> QED BY <1>1, BusHolds, LinesHold, PTL DEF BusSpec, DeliveredInOrder

\* The parts of the bus have their types, and neither the buffer nor a sink's queue ever
\* holds more than its size.
THEOREM BusTypeCorrect == BusSpec => []BusTypeOK
BY BusHolds, ShapeTypes, PTL

-----------------------------------------------------------------------------
(* The dispatcher behind the bus.                                          *)

Quiet(s) == slot[s].at \in {"none", "gone"}

HookInv ==
  /\ hook = "gone" => closer = "done" \/ cut
  /\ closer # "open" => shutBus
  /\ closer = "open" /\ shutBus => cut
  /\ closer = "done" /\ ~cut => \A s \in Sinks : Quiet(s)
  /\ \A s \in Sinks : Quiet(s) => slot[s].hand = 0
  /\ WebhooksSettle

LEMMA HookKept ==
  ASSUME HookInv, UNCHANGED <<hook, closer, shutBus, cut>>, hookq' = hookq,
         \A s \in Sinks : slot'[s].at = slot[s].at /\ slot'[s].hand = slot[s].hand
  PROVE  HookInv'
BY DEF HookInv, WebhooksSettle, Quiet

\* A slot that does not stand still may, on a bus whose Close has not returned, do anything.
LEMMA HookOfSlot ==
  ASSUME HookInv, NEW s \in Sinks, UNCHANGED <<hook, closer, shutBus, cut>>,
         \A t \in Sinks \ {s} : slot'[t] = slot[t],
         ~Quiet(s) \/ ~shutBus, Quiet(s)' => slot'[s].hand = 0,
         Quiet(s) => hookq' = hookq, closer = "done" /\ ~cut => hookq' = hookq \/ slot[s].hand # 0
  PROVE  HookInv'
BY DEF HookInv, WebhooksSettle, Quiet

LEMMA HookNext ==
  ASSUME BusShape, HookInv, [BusNext]_busVars
  PROVE  HookInv'
<1>s. slot \in [Sinks -> SlotType] /\ \A s \in Sinks : slot[s] \in SlotType
  BY DEF BusShape, SlotsTyped
<1>1. CASE UNCHANGED <<hook, closer, shutBus, cut, hookq, slot>>
  BY <1>1, HookKept
<1>2. CASE \/ EmitLate \/ Emit \/ PumpPop \/ PumpNext \/ PumpWaits \/ PumpLast \/ PumpWakes
           \/ PumpFlushes \/ UNCHANGED busVars
  <2>1. UNCHANGED <<hook, closer, shutBus, cut, hookq, slot>>
    BY <1>2 DEF EmitLate, Emit, PumpPop, PumpNext, PumpWaits, PumpLast, PumpWakes, PumpFlushes,
                busVars
  <2> QED BY <1>1, <2>1
<1>3. CASE PumpCut
  <2>1. cut /\ cut' /\ shutBus' /\ UNCHANGED <<hook, closer, hookq>> /\ Stopping
    BY <1>3, StopsOnly DEF PumpCut, BusShape
  <2> QED BY <2>1 DEF Stopping, HookInv, WebhooksSettle, Quiet
<1>4. CASE PumpStops
  <2>1. UNCHANGED <<hook, closer, shutBus, cut, hookq>> /\ Stopping
    BY <1>4, StopsOnly DEF PumpStops, BusShape
  <2> QED BY <2>1, HookKept DEF Stopping
<1>5. ASSUME NEW s \in Sinks, Push(s) \/ SlotDrains(s) \/ SlotExits(s) \/ Unsubscribe(s)
      PROVE  HookInv'
  <2>0. UNCHANGED <<hook, closer, shutBus, cut, hookq>>
    BY <1>5 DEF Push, SlotDrains, SlotExits, Unsubscribe
  <2>1. CASE Push(s) \/ Unsubscribe(s)
    <3>1. \A t \in Sinks : slot'[t].at = slot[t].at /\ slot'[t].hand = slot[t].hand
      <4>1. CASE Push(s)
        BY <1>s, <4>1 DEF Push, SlotType
      <4>2. CASE Unsubscribe(s)
        BY <1>s, <4>2 DEF Unsubscribe, SlotType
      <4> QED BY <2>1, <4>1, <4>2
    <3> QED BY <2>0, <3>1, HookKept
  <2>2. CASE SlotDrains(s) \/ SlotExits(s)
    <3>1. /\ \A t \in Sinks \ {s} : slot'[t] = slot[t]
          /\ ~Quiet(s) /\ slot'[s].hand = 0
      <4>1. CASE SlotDrains(s)
        BY <1>s, <4>1 DEF SlotDrains, SlotType, Quiet
      <4>2. CASE SlotExits(s)
        BY <1>s, <4>2 DEF SlotExits, SlotType, Quiet
      <4> QED BY <2>2, <4>1, <4>2
    <3> QED BY <2>0, <3>1, HookOfSlot
  <2> QED BY <1>5, <2>1, <2>2
<1>6. ASSUME NEW s \in Sinks, SlotPop(s) \/ SlotCut(s) \/ Subscribe(s)
      PROVE  HookInv'
  <2>0. UNCHANGED <<hook, closer, shutBus, cut, hookq>>
    BY <1>6 DEF SlotPop, SlotCut, Subscribe
  <2>1. \A t \in Sinks \ {s} : slot'[t] = slot[t]
    BY <1>s, <1>6 DEF SlotPop, SlotCut, Subscribe
  <2>2. (~Quiet(s) \/ ~shutBus) /\ (Quiet(s)' => slot'[s].hand = 0)
    <3>1. CASE SlotPop(s)
      BY <1>s, <3>1 DEF SlotPop, SlotType, Quiet
    <3>2. CASE SlotCut(s)
      BY <1>s, <3>2 DEF SlotCut, SlotType, Quiet
    <3>3. CASE Subscribe(s)
      BY <1>s, <3>3 DEF Subscribe, NewSlot, Quiet
    <3> QED BY <1>6, <3>1, <3>2, <3>3
  <2> QED BY <2>0, <2>1, <2>2, HookOfSlot
<1>7. ASSUME NEW s \in Sinks, Deliver(s) PROVE HookInv'
  <2>1. /\ UNCHANGED <<hook, closer, shutBus, cut>> /\ slot[s].hand # 0
        /\ \A t \in Sinks \ {s} : slot'[t] = slot[t]
        /\ slot'[s].hand = 0
    BY <1>s, <1>7 DEF Deliver, SlotType
  <2>2. ~Quiet(s)
    BY <2>1 DEF HookInv
  <2> QED BY <2>1, <2>2, HookOfSlot
<1>8. ASSUME NEW why \in Cuts, Cut(why) PROVE HookInv'
  BY <1>8 DEF Cut, HookInv, WebhooksSettle, Quiet
<1>9. CASE Close
  <2>1. shutBus' /\ UNCHANGED <<hook, cut, hookq, slot>> /\ closer = "open"
    BY <1>9 DEF Close
  <2>2. closer' = IF shutBus THEN "done" ELSE "pump"
    BY <1>9 DEF Close
  <2> QED BY <2>1, <2>2 DEF HookInv, WebhooksSettle, Quiet
<1>10. CASE CloseWaits
  <2>1. /\ UNCHANGED <<hook, cut, hookq, slot, shutBus>> /\ closer \in {"pump", "sinks"}
        /\ closer' = "sinks" \/ (closer' = "done" /\ (cut \/ \A s \in Sinks : Quiet(s)))
    BY <1>10 DEF CloseWaits, Quiet
  <2> QED BY <2>1 DEF HookInv, WebhooksSettle, Quiet
<1>11. CASE HookSettles
  BY <1>11 DEF HookSettles, HookInv, WebhooksSettle, Quiet
<1>12. CASE HookStops
  BY <1>12 DEF HookStops, HookInv, WebhooksSettle, Quiet
<1> QED BY <1>2, <1>3, <1>4, <1>5, <1>6, <1>7, <1>8, <1>9, <1>10, <1>11, <1>12 DEF BusNext

LEMMA HookHolds == BusSpec => []HookInv
<1>1. BusInit => HookInv
  BY DEF BusInit, HookInv, WebhooksSettle, Quiet, NewSlot, NoSlot
<1>2. BusShape /\ HookInv /\ [BusNext]_busVars => HookInv'
  BY HookNext
<1> QED BY <1>1, <1>2, BusHolds, PTL DEF BusSpec

-----------------------------------------------------------------------------
(* Nothing is lost uncounted.                                              *)

Counted == fanned \in Nat /\ owed \in [Sinks -> Nat] /\ given \in [Sinks -> Nat]

\* What a slot queues or holds is an event or a record, and a slot that no one subscribed
\* to yet has nothing, and is sent nothing.
SlotInv(s) ==
  /\ \A i \in 1..Len(slot[s].queue) : slot[s].queue[i] # 0
  /\ slot[s].at = "none" =>
       Len(slot[s].queue) = 0 /\ slot[s].hand = 0 /\ s \notin slots /\ s \notin pump.todo

PumpInv ==
  /\ pump.at \in {"last", "gone"} => shutBus
  /\ pump.at = "last" => Len(ring) = 0
  /\ pump.at \in {"fan", "last"} => pump.hand # 0

PathInv == Counted /\ PumpInv /\ \A s \in Sinks : SlotInv(s)

LEMMA CountedNext ==
  ASSUME Counted, [BusNext]_busVars
  PROVE  Counted'
<1>1. CASE PumpPop
  BY <1>1 DEF Counted, PumpPop
<1>2. ASSUME NEW s \in Sinks, Push(s) PROVE Counted'
  <2>1. owed' = [owed EXCEPT ![s] = @ + 1] /\ UNCHANGED <<fanned, given>>
    BY <1>2 DEF Push
  <2> QED BY <2>1 DEF Counted
<1>3. ASSUME NEW s \in Sinks, Deliver(s) PROVE Counted'
  <2>1. given' = given \/ given' = [given EXCEPT ![s] = @ + 1]
    BY <1>3 DEF Deliver
  <2>2. UNCHANGED <<fanned, owed>>
    BY <1>3 DEF Deliver
  <2> QED BY <2>1, <2>2 DEF Counted
<1>4. CASE UNCHANGED <<fanned, owed, given>>
  BY <1>4 DEF Counted
<1>5. CASE \/ EmitLate \/ Emit \/ PumpCut \/ PumpNext \/ PumpWaits \/ PumpLast \/ PumpStops
           \/ PumpWakes \/ PumpFlushes \/ UNCHANGED busVars
  BY <1>4, <1>5 DEF EmitLate, Emit, PumpCut, PumpNext, PumpWaits, PumpLast, PumpStops, PumpWakes,
                    PumpFlushes, busVars
<1>6. ASSUME NEW s \in Sinks,
             \/ SlotPop(s) \/ SlotCut(s) \/ SlotDrains(s) \/ SlotExits(s) \/ Subscribe(s)
             \/ Unsubscribe(s)
      PROVE  UNCHANGED <<fanned, owed, given>>
  BY <1>6 DEF SlotPop, SlotCut, SlotDrains, SlotExits, Subscribe, Unsubscribe
<1>7. CASE (\E why \in Cuts : Cut(why)) \/ Close \/ CloseWaits \/ HookSettles \/ HookStops
  BY <1>4, <1>7 DEF Cut, Close, CloseWaits, HookSettles, HookStops
<1> QED BY <1>1, <1>2, <1>3, <1>4, <1>5, <1>6, <1>7 DEF BusNext

LEMMA PumpInvNext ==
  ASSUME BusShape, PumpInv, [BusNext]_busVars
  PROVE  PumpInv'
<1>p. /\ pump \in PumpType /\ audits \in 0..MaxAudits /\ Len(ring) \in Nat
      /\ \A i \in 1..Len(ring) : ring[i] \in Int /\ ring[i] > 0
  BY RingParts DEF BusShape, PumpTyped, CountsTyped
<1>1. CASE EmitLate \/ Emit
  BY <1>1 DEF EmitLate, Emit, PumpInv
<1>2. CASE PumpCut
  BY <1>p, <1>2 DEF PumpCut, PumpInv, PumpType
<1>3. CASE PumpPop
  <2>1. Head(ring) # 0
    <3>1. ring \in Seq(Int) /\ Len(ring) # 0
      BY <1>3, RingParts, EmptySeq DEF PumpPop
    <3> QED BY <1>p, <3>1, TailKept
  <2> QED BY <1>3, <2>1 DEF PumpPop, PumpInv
<1>4. CASE PumpLast \/ PumpFlushes
  <2>1. pump'.hand # 0 /\ pump'.at \in {"last", "fan"}
    BY <1>p, <1>4, BusAssumption DEF PumpLast, PumpFlushes, Audit
  <2>2. pump'.at = "last" => shutBus /\ ring = <<>>
    BY <1>4 DEF PumpLast, PumpFlushes, Audit
  <2>3. UNCHANGED <<ring, shutBus>>
    BY <1>4 DEF PumpLast, PumpFlushes
  <2> QED BY <2>1, <2>2, <2>3 DEF PumpInv
<1>5. CASE PumpStops
  BY <1>p, <1>5 DEF PumpStops, PumpInv, PumpType
<1>6. CASE PumpNext
  BY <1>p, <1>6 DEF PumpNext, PumpInv, PumpType
<1>7. CASE PumpWaits
  BY <1>p, <1>7 DEF PumpWaits, PumpInv, PumpType
<1>8. CASE PumpWakes
  BY <1>p, <1>8 DEF PumpWakes, PumpInv, PumpType
<1>9. ASSUME NEW s \in Sinks, Push(s) PROVE PumpInv'
  BY <1>p, <1>9 DEF Push, PumpInv, PumpType
<1>10. CASE UNCHANGED <<pump, ring>> /\ (shutBus => shutBus')
  BY <1>10 DEF PumpInv
<1>11. ASSUME NEW s \in Sinks,
              \/ SlotPop(s) \/ Deliver(s) \/ SlotCut(s) \/ SlotDrains(s) \/ SlotExits(s)
              \/ Subscribe(s) \/ Unsubscribe(s)
       PROVE  UNCHANGED <<pump, ring, shutBus>>
  BY <1>11 DEF SlotPop, Deliver, SlotCut, SlotDrains, SlotExits, Subscribe, Unsubscribe
<1>12. ASSUME \/ \E why \in Cuts : Cut(why)
              \/ Close \/ CloseWaits \/ HookSettles \/ HookStops \/ UNCHANGED busVars
       PROVE  UNCHANGED <<pump, ring>> /\ (shutBus => shutBus')
  BY <1>12 DEF Cut, Close, CloseWaits, HookSettles, HookStops, busVars
<1> QED BY <1>1, <1>2, <1>3, <1>4, <1>5, <1>6, <1>7, <1>8, <1>9, <1>10, <1>11, <1>12 DEF BusNext

\* A step that sends to no slot but those that are there keeps what is known of a slot it
\* leaves alone.
LEMMA SlotInvKept ==
  ASSUME NEW s \in Sinks, SlotInv(s), slot'[s].queue = slot[s].queue,
         slot'[s].hand = slot[s].hand, slot'[s].at = slot[s].at,
         slot[s].at = "none" => s \notin slots',
         pump'.todo \subseteq pump.todo \union slots
  PROVE  SlotInv(s)'
BY DEF SlotInv

LEMMA SlotInvNext ==
  ASSUME BusShape, PathInv, [BusNext]_busVars, NEW s \in Sinks
  PROVE  SlotInv(s)'
<1>0. /\ slot[s] \in SlotType /\ slot[s].queue \in Seq(Int) /\ slot[s].hand \in Int
      /\ Len(slot[s].queue) \in Nat /\ Len(slot[s].queue) <= QueueSize
      /\ QueueSize \in Nat \ {0} /\ pump.hand \in Int
      /\ slot \in [Sinks -> SlotType] /\ pump \in PumpType
      /\ SlotInv(s)
  BY SlotParts DEF BusShape, SlotsTyped, PumpTyped, PathInv
<1>1. CASE UNCHANGED <<slot, slots>> /\ pump'.todo \subseteq pump.todo \union slots
  BY <1>0, <1>1, SlotInvKept DEF SlotInv
<1>2. CASE PumpCut \/ PumpStops
  <2>1. Stopping /\ slots' = slots
    BY <1>2, StopsOnly DEF PumpCut, PumpStops, BusShape
  <2>2. pump'.todo = pump.todo
    BY <1>0, <1>2 DEF PumpCut, PumpStops, PumpType
  <2> QED BY <1>0, <2>1, <2>2, SlotInvKept DEF Stopping, SlotInv
<1>3. CASE \/ EmitLate \/ Emit \/ PumpPop \/ PumpNext \/ PumpWaits \/ PumpLast \/ PumpWakes
           \/ PumpFlushes \/ UNCHANGED busVars
  <2>1. UNCHANGED <<slot, slots>>
    BY <1>3 DEF EmitLate, Emit, PumpPop, PumpNext, PumpWaits, PumpLast, PumpWakes, PumpFlushes,
                busVars
  <2>2. pump'.todo = pump.todo \/ pump'.todo = slots
    <3>1. CASE EmitLate \/ Emit \/ UNCHANGED busVars
      BY <3>1 DEF EmitLate, Emit, busVars
    <3>2. CASE PumpPop \/ PumpLast \/ PumpFlushes
      BY <3>2 DEF PumpPop, PumpLast, PumpFlushes, Audit
    <3>3. CASE PumpNext
      BY <1>0, <3>3 DEF PumpNext, PumpType
    <3>4. CASE PumpWaits
      BY <1>0, <3>4 DEF PumpWaits, PumpType
    <3>5. CASE PumpWakes
      BY <1>0, <3>5 DEF PumpWakes, PumpType
    <3> QED BY <1>3, <3>1, <3>2, <3>3, <3>4, <3>5
  <2> QED BY <1>1, <2>1, <2>2
<1>4. CASE (\E why \in Cuts : Cut(why)) \/ Close \/ CloseWaits \/ HookSettles \/ HookStops
  <2>1. UNCHANGED <<slot, slots, pump>>
    BY <1>4 DEF Cut, Close, CloseWaits, HookSettles, HookStops
  <2> QED BY <1>1, <2>1
<1>5. ASSUME NEW t \in Sinks, t # s,
             \/ Push(t) \/ SlotPop(t) \/ Deliver(t) \/ SlotCut(t) \/ SlotDrains(t) \/ SlotExits(t)
             \/ Subscribe(t) \/ Unsubscribe(t)
      PROVE  SlotInv(s)'
  <2>1. slot'[s] = slot[s] /\ (s \in slots' => s \in slots)
    BY <1>0, <1>5 DEF Push, SlotPop, Deliver, SlotCut, SlotDrains, SlotExits, Subscribe,
                      Unsubscribe
  <2>2. pump' = pump \/ pump'.todo = pump.todo \ {t}
    BY <1>0, <1>5 DEF Push, SlotPop, Deliver, SlotCut, SlotDrains, SlotExits, Subscribe,
                      Unsubscribe, PumpType
  <2> QED BY <1>0, <2>1, <2>2, SlotInvKept DEF SlotInv
<1>6. CASE Push(s)
  <2>1. /\ pump.hand # 0 /\ slot[s].at # "none" /\ pump'.todo = pump.todo \ {s}
        /\ slots' = slots
    BY <1>0, <1>6 DEF Push, PumpType, PathInv, PumpInv, SlotInv
  <2>2. CASE slot[s].at = "gone"
    BY <1>0, <1>6, <2>1, <2>2, SlotInvKept DEF Push
  <2>3. CASE slot[s].at # "gone"
    <3>1. /\ slot'[s].queue = Pushed(slot[s].queue, QueueSize, pump.hand)
          /\ slot'[s].at = slot[s].at
      BY <1>0, <1>6, <2>3 DEF Push, Pushed, SlotType
    <3>2. \A i \in 1..Len(slot'[s].queue) : slot'[s].queue[i] # 0
      <4>1. \A i \in 1..Len(Pushed(slot[s].queue, QueueSize, pump.hand)) :
              \/ Pushed(slot[s].queue, QueueSize, pump.hand)[i] = pump.hand
              \/ \E j \in 1..Len(slot[s].queue) :
                   Pushed(slot[s].queue, QueueSize, pump.hand)[i] = slot[s].queue[j]
        BY <1>0, PushedFrom
      <4> QED BY <1>0, <2>1, <3>1, <4>1 DEF SlotInv
    <3> QED BY <2>1, <3>1, <3>2 DEF SlotInv
  <2> QED BY <2>2, <2>3
<1>7. CASE SlotPop(s)
  <2>1. Len(slot[s].queue) # 0
    BY <1>0, <1>7, EmptySeq DEF SlotPop
  <2>2. slot'[s].queue = Tail(slot[s].queue) /\ slot'[s].at \in {"run", "drain"}
    BY <1>0, <1>7 DEF SlotPop, SlotType
  <2>3. \A i \in 1..Len(slot'[s].queue) :
          i + 1 \in 1..Len(slot[s].queue) /\ slot'[s].queue[i] = slot[s].queue[i + 1]
    BY <1>0, <2>1, <2>2, TailKept
  <2> QED BY <1>0, <2>2, <2>3 DEF SlotInv
<1>8. CASE Deliver(s)
  <2>1. /\ slot'[s].queue = slot[s].queue /\ slot'[s].at = slot[s].at /\ slot[s].at # "none"
    BY <1>0, <1>8 DEF Deliver, SlotType, SlotInv
  <2> QED BY <1>0, <2>1 DEF SlotInv
<1>9. CASE SlotCut(s)
  <2>1. slot'[s].queue = <<>> /\ slot'[s].at = "gone"
    BY <1>0, <1>9 DEF SlotCut, SlotType
  <2> QED BY <2>1 DEF SlotInv
<1>10. CASE SlotDrains(s)
  <2>1. slot'[s].queue = slot[s].queue /\ slot'[s].at = "drain"
    BY <1>0, <1>10 DEF SlotDrains, SlotType
  <2> QED BY <1>0, <2>1 DEF SlotInv
<1>11. CASE SlotExits(s)
  <2>1. slot'[s].queue = slot[s].queue /\ slot'[s].at = "gone"
    BY <1>0, <1>11 DEF SlotExits, SlotType
  <2> QED BY <1>0, <2>1 DEF SlotInv
<1>12. CASE Subscribe(s)
  <2>1. slot'[s].queue = <<>> /\ slot'[s].at = "run"
    BY <1>0, <1>12 DEF Subscribe, NewSlot
  <2> QED BY <2>1 DEF SlotInv
<1>13. CASE Unsubscribe(s)
  <2>1. /\ slot'[s].queue = slot[s].queue /\ slot'[s].at = slot[s].at /\ pump' = pump
        /\ slot'[s].hand = slot[s].hand /\ slots' = slots \ {s}
    BY <1>0, <1>13 DEF Unsubscribe, SlotType
  <2> QED BY <1>0, <2>1, SlotInvKept DEF SlotInv
<1>14. ASSUME NEW t \in Sinks,
              \/ Push(t) \/ SlotPop(t) \/ Deliver(t) \/ SlotCut(t) \/ SlotDrains(t)
              \/ SlotExits(t) \/ Subscribe(t) \/ Unsubscribe(t)
       PROVE  SlotInv(s)'
  BY <1>5, <1>6, <1>7, <1>8, <1>9, <1>10, <1>11, <1>12, <1>13, <1>14
<1> QED BY <1>2, <1>3, <1>4, <1>14 DEF BusNext

LEMMA PathHolds == BusSpec => []PathInv
<1>1. BusInit => PathInv
  <2> SUFFICES ASSUME BusInit PROVE PathInv
    OBVIOUS
  <2>1. Counted /\ PumpInv
    BY DEF BusInit, Counted, PumpInv
  <2>2. ASSUME NEW s \in Sinks PROVE SlotInv(s)
    <3>1. /\ slot[s].queue = <<>> /\ slot[s].hand = 0 /\ pump.todo = {}
          /\ slot[s].at = "none" => s \notin slots
      BY DEF BusInit, NewSlot, NoSlot
    <3> QED BY <3>1 DEF SlotInv
  <2> QED BY <2>1, <2>2 DEF PathInv
<1>2. BusShape /\ PathInv /\ [BusNext]_busVars => PathInv'
  BY CountedNext, PumpInvNext, SlotInvNext DEF PathInv
<1> QED BY <1>1, <1>2, BusHolds, PTL DEF BusSpec

-----------------------------------------------------------------------------
(* Sums of functions on finite sets, by way of a smallest counterexample.   *)

LEMMA SmallestSet ==
  ASSUME NEW S, IsFiniteSet(S), NEW T \in SUBSET SUBSET S, T # {}
  PROVE  \E u \in T : \A v \in T : v \subseteq u => v = u
<1>1. FiniteSubsetsOf(S) = SUBSET S
  BY FS_FiniteSubsetsOfFinite
<1>2. IsWellFoundedOn(StrictSubsetOrdering(S), SUBSET S)
  BY <1>1, FS_StrictSubsetOrderingWellFounded
<1>3. PICK u \in T : \A v \in T : ~(<<v, u>> \in StrictSubsetOrdering(S))
  BY <1>2, WFMin
<1>4. ASSUME NEW v \in T, v \subseteq u, v # u PROVE FALSE
  BY <1>3, <1>4 DEF StrictSubsetOrdering
<1> QED BY <1>4

\* What g gives for a set of places is the sum of f over them, as SumFunction defines it.
Picked(s) == CHOOSE x \in s : TRUE
Sums(g, f, S) == g = [s \in SUBSET S |-> IF s = {} THEN 0 ELSE f[Picked(s)] + g[s \ {Picked(s)}]]

LEMMA SumIs ==
  ASSUME NEW S, NEW f \in [S -> Int]
  PROVE  SumFunction(f) = (CHOOSE g : Sums(g, f, S))[S]
BY DEF SumFunction, SumFunctionOnSet, FoldFunctionOnSet, MapThenFoldSet, Sums, Picked

LEMMA SumStep ==
  ASSUME NEW S, NEW f, NEW g, Sums(g, f, S), NEW s \in SUBSET S
  PROVE  /\ s = {} => g[s] = 0
         /\ s # {} => /\ Picked(s) \in s /\ s \ {Picked(s)} \in SUBSET S
                      /\ Picked(s) \notin s \ {Picked(s)}
                      /\ g[s] = f[Picked(s)] + g[s \ {Picked(s)}]
<1>1. s # {} => Picked(s) \in s
  BY DEF Picked
<1>2. g[s] = IF s = {} THEN 0 ELSE f[Picked(s)] + g[s \ {Picked(s)}]
  BY DEF Sums
<1> QED BY <1>1, <1>2

LEMMA SumOfNone ==
  ASSUME NEW S, NEW f, NEW g, Sums(g, f, S)
  PROVE  g[{}] = 0
<1>1. {} \in SUBSET S
  OBVIOUS
<1> QED BY <1>1 DEF Sums

\* Two sums of the same function agree where both are defined.
LEMMA SumsAgree ==
  ASSUME NEW S, IsFiniteSet(S), NEW f, NEW g, NEW h, NEW A \in SUBSET S, NEW B \in SUBSET S,
         Sums(g, f, A), Sums(h, f, B)
  PROVE  \A s \in SUBSET A : s \in SUBSET B => g[s] = h[s]
<1> DEFINE T == {s \in SUBSET A : s \in SUBSET B /\ g[s] # h[s]}
<1>1. SUFFICES ASSUME T # {} PROVE FALSE
  OBVIOUS
<1>2. PICK u \in T : \A v \in T : v \subseteq u => v = u
  <2>1. T \in SUBSET SUBSET S
    OBVIOUS
  <2> HIDE DEF T
  <2> QED BY <1>1, <2>1, SmallestSet
<1>3. u \in SUBSET A /\ u \in SUBSET B /\ g[u] # h[u]
  BY <1>2
<1>4. CASE u = {}
  <2>1. g[{}] = 0 /\ h[{}] = 0
    BY SumOfNone
  <2> QED BY <1>3, <1>4, <2>1
<1>5. CASE u # {}
  <2> DEFINE v == u \ {Picked(u)}
  <2>1. /\ Picked(u) \in u /\ g[u] = f[Picked(u)] + g[v] /\ h[u] = f[Picked(u)] + h[v]
    <3>1. Picked(u) \in u /\ g[u] = f[Picked(u)] + g[v]
      BY <1>3, <1>5, SumStep
    <3>2. h[u] = f[Picked(u)] + h[v]
      BY <1>3, <1>5, SumStep
    <3> QED BY <3>1, <3>2
  <2>2. v \subseteq u /\ v # u /\ v \in SUBSET A /\ v \in SUBSET B
    BY <1>3, <2>1
  <2>3. g[v] = h[v]
    BY <1>2, <2>2
  <2> QED BY <1>3, <2>1, <2>3
<1> QED BY <1>4, <1>5

LEMMA SumsExist ==
  ASSUME NEW S, IsFiniteSet(S), NEW f
  PROVE  \E g : Sums(g, f, S)
<1> DEFINE T == {s \in SUBSET S : ~\E g : Sums(g, f, s)}
<1>1. SUFFICES ASSUME T # {} PROVE FALSE
  OBVIOUS
<1>2. PICK u \in T : \A v \in T : v \subseteq u => v = u
  <2>1. T \in SUBSET SUBSET S
    OBVIOUS
  <2> HIDE DEF T
  <2> QED BY <1>1, <2>1, SmallestSet
<1>3. u \in SUBSET S /\ ~\E g : Sums(g, f, u)
  BY <1>2
<1>4. \A v \in SUBSET u : v # u => \E g : Sums(g, f, v)
  BY <1>2
<1> HIDE DEF T
<1> DEFINE p == Picked(u)
           w == u \ {p}
           sum == [v \in SUBSET u |-> CHOOSE g : Sums(g, f, v)]
           G == [s \in SUBSET u |-> IF s = u /\ u # {} THEN f[p] + sum[w][w] ELSE sum[s][s]]
<1>5. \A v \in SUBSET u : v # u => Sums(sum[v], f, v)
  <2> SUFFICES ASSUME NEW v \in SUBSET u, v # u PROVE Sums(sum[v], f, v)
    OBVIOUS
  <2>1. PICK g : Sums(g, f, v)
    BY <1>4
  <2>2. Sums(CHOOSE x : Sums(x, f, v), f, v)
    BY <2>1
  <2> QED BY <2>2
<1>6. CASE u = {}
  <2> DEFINE z == [s \in SUBSET u |-> 0]
  <2>1. z = [s \in SUBSET u |-> IF s = {} THEN 0 ELSE f[Picked(s)] + z[s \ {Picked(s)}]]
    BY <1>6
  <2> QED BY <1>3, <2>1 DEF Sums
<1>7. CASE u # {}
  <2>1. p \in u /\ w \in SUBSET u /\ w # u
    BY <1>7 DEF Picked
  <2> HIDE DEF sum
  <2>2. G[u] = f[p] + G[w]
    BY <1>7, <2>1
  <2>3. ASSUME NEW s \in SUBSET u, s # {}, s # u
        PROVE  G[s] = f[Picked(s)] + G[s \ {Picked(s)}]
    <3> DEFINE t == s \ {Picked(s)}
    <3>1. /\ Picked(s) \in s /\ t \in SUBSET u /\ t # u /\ t \in SUBSET s /\ t \in SUBSET t
          /\ sum[s][s] = f[Picked(s)] + sum[s][t]
      BY <1>5, <2>3, SumStep
    <3>2. sum[s][t] = sum[t][t]
      <4>1. Sums(sum[s], f, s) /\ Sums(sum[t], f, t)
        BY <1>5, <2>3, <3>1
      <4>2. s \in SUBSET S /\ t \in SUBSET S
        BY <1>3, <3>1
      <4> QED BY <3>1, <4>1, <4>2, SumsAgree
    <3> QED BY <2>3, <3>1, <3>2
  <2>4. G[{}] = 0
    <3>1. {} \in SUBSET u /\ {} # u /\ {} \in SUBSET {}
      BY <1>7
    <3>2. Sums(sum[{}], f, {})
      BY <1>5, <3>1
    <3>3. sum[{}][{}] = 0
      BY <3>2, SumOfNone
    <3> QED BY <3>1, <3>3
  <2>5. \A s \in SUBSET u : G[s] = IF s = {} THEN 0 ELSE f[Picked(s)] + G[s \ {Picked(s)}]
    BY <1>7, <2>2, <2>3, <2>4
  <2>6. G = [s \in SUBSET u |-> G[s]]
    OBVIOUS
  <2> HIDE DEF G
  <2>7. G = [s \in SUBSET u |-> IF s = {} THEN 0 ELSE f[Picked(s)] + G[s \ {Picked(s)}]]
    BY <2>5, <2>6
  <2> QED BY <1>3, <2>7 DEF Sums
<1> QED BY <1>6, <1>7

LEMMA SumAt ==
  ASSUME NEW S, IsFiniteSet(S), NEW f \in [S -> Int]
  PROVE  \E g \in [SUBSET S -> Int] : Sums(g, f, S) /\ SumFunction(f) = g[S]
<1>1. PICK g : g = CHOOSE h : Sums(h, f, S)
  OBVIOUS
<1>2. Sums(g, f, S) /\ SumFunction(f) = g[S]
  BY <1>1, SumIs, SumsExist
<1> DEFINE T == {s \in SUBSET S : g[s] \notin Int}
<1>3. ASSUME T # {} PROVE FALSE
  <2>1. PICK u \in T : \A v \in T : v \subseteq u => v = u
    <3>1. T \in SUBSET SUBSET S
      OBVIOUS
    <3> HIDE DEF T
    <3> QED BY <1>3, <3>1, SmallestSet
  <2>2. u # {} /\ u \in SUBSET S
    <3>1. g[{}] = 0
      BY <1>2, SumOfNone
    <3>2. u \in SUBSET S /\ g[u] \notin Int
      BY <2>1
    <3> QED BY <3>1, <3>2
  <2>3. Picked(u) \in u /\ g[u] = f[Picked(u)] + g[u \ {Picked(u)}]
    BY <1>2, <2>2, SumStep
  <2>4. g[u \ {Picked(u)}] \in Int
    BY <2>1, <2>2, <2>3
  <2> QED BY <2>1, <2>2, <2>3, <2>4
<1>4. g \in [SUBSET S -> Int]
  <2>1. g = [s \in SUBSET S |-> g[s]]
    BY <1>2 DEF Sums
  <2> QED BY <1>3, <2>1
<1> QED BY <1>2, <1>4

\* A sum moves by as much as the one place of the function that changes.
LEMMA SumMoves ==
  ASSUME NEW S, IsFiniteSet(S), NEW f \in [S -> Int], NEW h \in [S -> Int], NEW a \in S,
         \A x \in S \ {a} : h[x] = f[x]
  PROVE  SumFunction(f) \in Int /\ SumFunction(h) = SumFunction(f) + h[a] - f[a]
<1>1. PICK F \in [SUBSET S -> Int] : Sums(F, f, S) /\ SumFunction(f) = F[S]
  BY SumAt
<1>2. PICK H \in [SUBSET S -> Int] : Sums(H, h, S) /\ SumFunction(h) = H[S]
  BY SumAt
<1> DEFINE T == {s \in SUBSET S : H[s] # F[s] + (IF a \in s THEN h[a] - f[a] ELSE 0)}
<1>3. ASSUME T # {} PROVE FALSE
  <2>1. PICK u \in T : \A v \in T : v \subseteq u => v = u
    <3>1. T \in SUBSET SUBSET S
      OBVIOUS
    <3> HIDE DEF T
    <3> QED BY <1>3, <3>1, SmallestSet
  <2>2. u # {} /\ u \in SUBSET S
    <3>1. F[{}] = 0 /\ H[{}] = 0 /\ a \notin {}
      BY <1>1, <1>2, SumOfNone
    <3>2. u \in SUBSET S /\ H[u] # F[u] + (IF a \in u THEN h[a] - f[a] ELSE 0)
      BY <2>1
    <3>3. ASSUME u = {} PROVE FALSE
      <4>1. H[u] = 0 /\ F[u] = 0 /\ a \notin u
        BY <3>1, <3>3
      <4> QED BY <3>2, <4>1
    <3> QED BY <3>2, <3>3
  <2> DEFINE p == Picked(u)
             v == u \ {p}
  <2>3. /\ p \in u /\ F[u] = f[p] + F[v] /\ H[u] = h[p] + H[v]
        /\ v \in SUBSET S /\ F[v] \in Int /\ H[v] \in Int /\ v \subseteq u /\ v # u
    BY <1>1, <1>2, <2>2, SumStep
  <2>4. H[v] = F[v] + (IF a \in v THEN h[a] - f[a] ELSE 0)
    BY <2>1, <2>2, <2>3
  <2>5. f[p] \in Int /\ h[p] \in Int /\ f[a] \in Int /\ h[a] \in Int /\ (p # a => h[p] = f[p])
    BY <2>2, <2>3
  <2>6. H[u] = F[u] + (IF a \in u THEN h[a] - f[a] ELSE 0)
    <3>1. CASE p = a
      <4>1. a \notin v /\ a \in u
        BY <2>3, <3>1
      <4> HIDE DEF p, v
      <4> QED BY <2>3, <2>4, <2>5, <3>1, <4>1
    <3>2. CASE p # a
      <4>1. a \in v <=> a \in u
        BY <3>2
      <4> HIDE DEF p, v
      <4> QED BY <2>3, <2>4, <2>5, <3>2, <4>1
    <3> QED BY <3>1, <3>2
  <2> QED BY <2>1, <2>6
<1>4. H[S] = F[S] + (h[a] - f[a]) /\ F[S] \in Int /\ h[a] \in Int /\ f[a] \in Int
  BY <1>3
<1> QED BY <1>1, <1>2, <1>4

LEMMA SumOfZeros ==
  ASSUME NEW S, IsFiniteSet(S), NEW f \in [S -> Int], \A x \in S : f[x] = 0
  PROVE  SumFunction(f) = 0
<1>1. PICK F \in [SUBSET S -> Int] : Sums(F, f, S) /\ SumFunction(f) = F[S]
  BY SumAt
<1> DEFINE T == {s \in SUBSET S : F[s] # 0}
<1>3. ASSUME T # {} PROVE FALSE
  <2>1. PICK u \in T : \A v \in T : v \subseteq u => v = u
    <3>1. T \in SUBSET SUBSET S
      OBVIOUS
    <3> HIDE DEF T
    <3> QED BY <1>3, <3>1, SmallestSet
  <2>2. u # {} /\ u \in SUBSET S
    BY <1>1, <2>1, SumOfNone
  <2>3. Picked(u) \in u /\ F[u] = f[Picked(u)] + F[u \ {Picked(u)}] /\ f[Picked(u)] = 0
    BY <1>1, <2>2, SumStep
  <2>4. F[u \ {Picked(u)}] = 0
    BY <2>1, <2>2, <2>3
  <2> QED BY <2>1, <2>3, <2>4
<1> QED BY <1>1, <1>3

LEMMA LossNumbers ==
  ASSUME BusShape, BusShape', Counted, Counted'
  PROVE  /\ Lost \in Int /\ Lost' \in Int /\ total \in Int /\ total' \in Int
         /\ \A s \in Sinks : LostAt(s) \in Int /\ LostAt(s)' \in Int
<1>1. /\ emitted \in Nat /\ emitted' \in Nat /\ fanned \in Nat /\ fanned' \in Nat
      /\ Len(ring) \in Nat /\ Len(ring') \in Nat /\ total \in Nat /\ total' \in Nat
  BY BusAssumption DEF BusShape, CountsTyped, RingTyped, Counted
<1>2. ASSUME NEW s \in Sinks PROVE LostAt(s) \in Int
  <2>1. Len(slot[s].queue) \in Nat /\ owed[s] \in Nat /\ given[s] \in Nat
    BY SlotParts DEF Counted
  <2> QED BY <2>1 DEF LostAt
<1>3. ASSUME NEW s \in Sinks PROVE LostAt(s)' \in Int
  <2>1. slot'[s].queue \in Seq(Int) /\ owed'[s] \in Nat /\ given'[s] \in Nat
    BY DEF Counted, BusShape, SlotsTyped, SlotType
  <2>2. Len(slot'[s].queue) \in Nat
    BY <2>1
  <2> QED BY <2>1, <2>2 DEF LostAt
<1> QED BY <1>1, <1>2, <1>3 DEF Lost

\* A step that changes what is lost at one sink at most, and of what the pump never took,
\* by as much as it counts.
LEMMA LossCounted ==
  ASSUME BusShape, BusShape', Counted, Counted', DropsCounted, NEW s \in Sinks,
         \A t \in Sinks \ {s} : LostAt(t)' = LostAt(t),
         total' - total = (Lost' - Lost) + (LostAt(s)' - LostAt(s))
  PROVE  DropsCounted'
<1>0. /\ Lost \in Int /\ Lost' \in Int /\ total \in Int /\ total' \in Int
      /\ \A t \in Sinks : LostAt(t) \in Int /\ LostAt(t)' \in Int
  BY LossNumbers
<1>1. PICK f : f = [t \in Sinks |-> LostAt(t)]
  OBVIOUS
<1>2. PICK h : h = [t \in Sinks |-> LostAt(t)']
  OBVIOUS
<1>3. f \in [Sinks -> Int] /\ h \in [Sinks -> Int] /\ \A t \in Sinks \ {s} : h[t] = f[t]
  BY <1>0, <1>1, <1>2
<1>4. SumFunction(f) \in Int /\ SumFunction(h) = SumFunction(f) + h[s] - f[s]
  BY <1>3, SumMoves, BusAssumption
<1>5. total = Lost + SumFunction(f)
  BY <1>1 DEF DropsCounted
<1>6. h[s] = LostAt(s)' /\ f[s] = LostAt(s)
  BY <1>1, <1>2
<1>7. total' = Lost' + SumFunction(h)
  BY <1>0, <1>4, <1>5, <1>6
<1> QED BY <1>2, <1>7 DEF DropsCounted

LEMMA LossSame ==
  ASSUME BusShape, BusShape', Counted, Counted', DropsCounted,
         \A t \in Sinks : LostAt(t)' = LostAt(t),
         total' - total = Lost' - Lost
  PROVE  DropsCounted'
<1>1. Hook \in Sinks
  BY BusAssumption
<1>2. LostAt(Hook)' - LostAt(Hook) = 0 /\ Lost' - Lost \in Int
  BY <1>1, LossNumbers
<1> QED BY <1>1, <1>2, LossCounted

\* The steps of the emitters and of the pump, but for Push.
LEMMA LossOfPump ==
  ASSUME BusShape, BusShape', PathInv, Counted', DropsCounted,
         \/ EmitLate \/ Emit \/ PumpCut \/ PumpPop \/ PumpNext \/ PumpWaits \/ PumpLast
         \/ PumpStops \/ PumpWakes \/ PumpFlushes
  PROVE  DropsCounted'
<1>0. /\ emitted \in Nat /\ fanned \in Nat /\ total \in Nat /\ Len(ring) \in Nat
      /\ pump \in PumpType
      /\ RingSize \in Nat \ {0} /\ Counted /\ PumpInv /\ ring \in Seq(Int)
      /\ slot \in [Sinks -> SlotType]
  BY BusAssumption, RingParts DEF BusShape, CountsTyped, RingTyped, PumpTyped, SlotsTyped,
     PathInv, Counted
<1>1. UNCHANGED <<owed, given>>
  BY DEF EmitLate, Emit, PumpCut, PumpPop, PumpNext, PumpWaits, PumpLast, PumpStops, PumpWakes,
         PumpFlushes
<1>2. \A t \in Sinks : LostAt(t)' = LostAt(t)
  <2>1. slot' = slot \/ Stopping
    BY <1>0, StopsOnly DEF EmitLate, Emit, PumpCut, PumpPop, PumpNext, PumpWaits, PumpLast,
                    PumpStops, PumpWakes, PumpFlushes, BusShape
  <2>2. \A t \in Sinks : /\ slot'[t].queue = slot[t].queue /\ slot'[t].hand = slot[t].hand
                         /\ slot'[t].at = slot[t].at
    BY <2>1 DEF Stopping
  <2> QED BY <1>1, <2>2 DEF LostAt
<1>3. total' - total = Lost' - Lost
  <2>1. CASE EmitLate
    BY <1>0, <2>1 DEF EmitLate, Lost
  <2>2. CASE Emit
    <3>1. /\ pump.at # "gone" /\ pump' = pump /\ emitted' = emitted + 1 /\ fanned' = fanned
          /\ ring' = Pushed(ring, RingSize, emitted + 1)
          /\ total' = total + (IF Len(ring) = RingSize THEN 1 ELSE 0)
      BY <1>0, <2>2 DEF Emit, PumpInv, Pushed
    <3>2. Len(ring') = IF Len(ring) = RingSize THEN Len(ring) ELSE Len(ring) + 1
      <4>1. CASE Len(ring) = RingSize
        <5>1. Tail(ring) \in Seq(Int) /\ Len(Tail(ring)) = Len(ring) - 1 /\ emitted + 1 \in Int
          BY <1>0, <4>1
        <5>2. ring' = Append(Tail(ring), emitted + 1)
          BY <3>1, <4>1 DEF Pushed
        <5> QED BY <1>0, <4>1, <5>1, <5>2
      <4>2. CASE Len(ring) # RingSize
        <5>1. ring' = Append(ring, emitted + 1)
          BY <3>1, <4>2 DEF Pushed
        <5> QED BY <1>0, <4>2, <5>1
      <4> QED BY <4>1, <4>2
    <3> QED BY <1>0, <3>1, <3>2 DEF Lost
  <2>3. CASE PumpCut
    <3>1. /\ pump.at # "gone" /\ pump'.at = "gone" /\ UNCHANGED <<emitted, fanned>>
          /\ total' = total + Len(ring)
      BY <1>0, <2>3 DEF PumpCut, PumpType
    <3> QED BY <1>0, <3>1 DEF Lost
  <2>4. CASE PumpPop
    <3>1. Len(ring) # 0 /\ Len(ring') = Len(ring) - 1
      BY <1>0, <2>4, EmptySeq, TailKept DEF PumpPop
    <3>2. /\ pump.at # "gone" /\ pump'.at # "gone" /\ UNCHANGED <<emitted, total>>
          /\ fanned' = fanned + 1
      BY <2>4 DEF PumpPop
    <3> QED BY <1>0, <3>1, <3>2 DEF Lost
  <2>5. CASE PumpStops
    <3>1. /\ Len(ring) = 0 /\ UNCHANGED <<emitted, total, fanned, ring>>
      BY <1>0, <2>5, EmptySeq DEF PumpStops, PumpInv
    <3> QED BY <1>0, <3>1 DEF Lost
  <2>6. CASE PumpNext \/ PumpWaits \/ PumpLast \/ PumpWakes \/ PumpFlushes
    <3>1. UNCHANGED <<emitted, total, fanned, ring>>
      BY <2>6 DEF PumpNext, PumpWaits, PumpLast, PumpWakes, PumpFlushes
    <3>2. pump.at # "gone" /\ pump'.at # "gone"
      <4>1. CASE PumpNext
        BY <1>0, <4>1 DEF PumpNext, PumpType
      <4>2. CASE PumpWaits
        BY <1>0, <4>2 DEF PumpWaits, PumpType
      <4>3. CASE PumpWakes
        BY <1>0, <4>3 DEF PumpWakes, PumpType
      <4>4. CASE PumpLast \/ PumpFlushes
        BY <4>4 DEF PumpLast, PumpFlushes, Audit
      <4> QED BY <2>6, <4>1, <4>2, <4>3, <4>4
    <3> QED BY <1>0, <3>1, <3>2 DEF Lost
  <2> QED BY <2>1, <2>2, <2>3, <2>4, <2>5, <2>6
<1> QED BY <1>0, <1>2, <1>3, LossSame

\* What a slot holds after a full or an exited queue takes an event.
LEMMA PushedLen ==
  ASSUME NEW q \in Seq(Int), NEW n \in Nat \ {0}, NEW x \in Int
  PROVE  Len(Pushed(q, n, x)) = IF Len(q) = n THEN Len(q) ELSE Len(q) + 1
<1>1. CASE Len(q) = n
  <2>1. Tail(q) \in Seq(Int) /\ Len(Tail(q)) = Len(q) - 1
    BY <1>1
  <2> QED BY <1>1, <2>1 DEF Pushed
<1>2. CASE Len(q) # n
  BY <1>2 DEF Pushed
<1> QED BY <1>1, <1>2

LEMMA LossOfSlot ==
  ASSUME BusShape, BusShape', PathInv, Counted', DropsCounted, NEW s \in Sinks,
         \/ Push(s) \/ SlotPop(s) \/ Deliver(s) \/ SlotCut(s) \/ SlotDrains(s) \/ SlotExits(s)
         \/ Subscribe(s) \/ Unsubscribe(s)
  PROVE  DropsCounted'
<1>0. /\ slot[s] \in SlotType /\ slot[s].queue \in Seq(Int) /\ slot[s].hand \in Int
      /\ Len(slot[s].queue) \in Nat /\ Len(slot[s].queue) <= QueueSize
      /\ QueueSize \in Nat \ {0} /\ pump.hand \in Int
      /\ slot \in [Sinks -> SlotType] /\ pump \in PumpType /\ total \in Nat
      /\ SlotInv(s) /\ Counted /\ owed \in [Sinks -> Nat] /\ given \in [Sinks -> Nat]
  BY SlotParts DEF BusShape, SlotsTyped, PumpTyped, PathInv, CountsTyped, Counted
<1>1. \A t \in Sinks \ {s} : LostAt(t)' = LostAt(t)
  <2>1. \A t \in Sinks \ {s} : slot'[t] = slot[t] /\ owed'[t] = owed[t] /\ given'[t] = given[t]
    BY <1>0 DEF Push, SlotPop, Deliver, SlotCut, SlotDrains, SlotExits, Subscribe, Unsubscribe
  <2> QED BY <2>1 DEF LostAt
<1>2. Lost' = Lost
  <2>1. UNCHANGED <<emitted, fanned, ring>>
    BY DEF Push, SlotPop, Deliver, SlotCut, SlotDrains, SlotExits, Subscribe, Unsubscribe
  <2>2. pump'.at = pump.at
    <3>1. CASE Push(s)
      BY <1>0, <3>1 DEF Push, PumpType
    <3>2. CASE ~Push(s)
      BY <3>2 DEF SlotPop, Deliver, SlotCut, SlotDrains, SlotExits, Subscribe, Unsubscribe
    <3> QED BY <3>1, <3>2
  <2> QED BY <2>1, <2>2 DEF Lost
<1>n. owed[s] \in Nat /\ given[s] \in Nat
  BY <1>0
<1>3. ASSUME total' - total = LostAt(s)' - LostAt(s) PROVE DropsCounted'
  <2>1. Lost' - Lost = 0 /\ LostAt(s)' - LostAt(s) \in Int
    BY <1>0, <1>2, LossNumbers
  <2>2. total' - total = (Lost' - Lost) + (LostAt(s)' - LostAt(s))
    BY <1>3, <2>1
  <2>3. Counted
    BY <1>0
  <2> QED BY <1>1, <2>2, <2>3, LossCounted
<1>4. CASE Push(s)
  <2>1. owed'[s] = owed[s] + 1 /\ given' = given
    BY <1>0, <1>4 DEF Push
  <2>2. CASE slot[s].at = "gone"
    <3>1. slot' = slot /\ total' = total + 1
      BY <1>4, <2>2 DEF Push
    <3> QED BY <1>0, <1>n, <1>3, <2>1, <2>2, <3>1 DEF LostAt
  <2>3. CASE slot[s].at # "gone"
    <3>1. /\ slot'[s].queue = Pushed(slot[s].queue, QueueSize, pump.hand)
          /\ slot'[s].at = slot[s].at /\ slot'[s].hand = slot[s].hand
          /\ total' = total + (IF Len(slot[s].queue) = QueueSize THEN 1 ELSE 0)
      BY <1>0, <1>4, <2>3 DEF Push, Pushed, SlotType
    <3>2. Len(slot'[s].queue) =
            IF Len(slot[s].queue) = QueueSize THEN Len(slot[s].queue) ELSE Len(slot[s].queue) + 1
      BY <1>0, <3>1, PushedLen
    <3> QED BY <1>0, <1>n, <1>3, <2>1, <2>3, <3>1, <3>2 DEF LostAt
  <2> QED BY <2>2, <2>3
<1>5. CASE SlotPop(s)
  <2>1. Len(slot[s].queue) # 0
    BY <1>0, <1>5, EmptySeq DEF SlotPop
  <2>2. /\ slot'[s].queue = Tail(slot[s].queue) /\ slot'[s].hand = Head(slot[s].queue)
        /\ slot'[s].at = slot[s].at /\ slot[s].at # "gone" /\ slot[s].hand = 0
        /\ UNCHANGED <<owed, given, total>>
    BY <1>0, <1>5 DEF SlotPop, SlotType
  <2>3. Len(slot'[s].queue) = Len(slot[s].queue) - 1 /\ slot'[s].hand # 0
    BY <1>0, <2>1, <2>2, TailKept DEF SlotInv
  <2> QED BY <1>0, <1>n, <1>3, <2>2, <2>3 DEF LostAt
<1>6. CASE Deliver(s)
  <2>1. /\ slot'[s].queue = slot[s].queue /\ slot'[s].hand = 0 /\ slot'[s].at = slot[s].at
        /\ slot[s].hand # 0 /\ owed' = owed
        /\ \/ given'[s] = given[s] + 1 /\ total' = total
           \/ given' = given /\ total' = total + 1
    BY <1>0, <1>6 DEF Deliver, SlotType
  <2> QED BY <1>0, <1>n, <1>3, <2>1 DEF LostAt
<1>7. CASE SlotCut(s)
  <2>1. /\ slot'[s].at = "gone" /\ slot[s].at # "gone" /\ slot'[s].hand = slot[s].hand
        /\ UNCHANGED <<owed, given>> /\ total' = total + Len(slot[s].queue)
    BY <1>0, <1>7 DEF SlotCut, SlotType
  <2>2. LostAt(s)' = LostAt(s) + Len(slot[s].queue)
    BY <1>0, <1>n, <2>1 DEF LostAt
  <2>3. LostAt(s) \in Int /\ total' - total = Len(slot[s].queue)
    BY <1>0, <2>1, LossNumbers
  <2> QED BY <1>0, <1>3, <2>2, <2>3
<1>8. CASE SlotDrains(s) \/ SlotExits(s)
  <2>1. /\ slot'[s].queue = slot[s].queue /\ Len(slot[s].queue) = 0
        /\ slot'[s].hand = slot[s].hand
        /\ UNCHANGED <<owed, given, total>>
    <3>1. CASE SlotDrains(s)
      BY <1>0, <3>1 DEF SlotDrains, SlotType
    <3>2. CASE SlotExits(s)
      BY <1>0, <3>2 DEF SlotExits, SlotType
    <3> QED BY <1>8, <3>1, <3>2
  <2> QED BY <1>0, <1>n, <1>3, <2>1 DEF LostAt
<1>9. CASE Subscribe(s)
  <2>1. /\ Len(slot'[s].queue) = 0 /\ slot'[s].hand = 0 /\ UNCHANGED <<owed, given, total>>
        /\ Len(slot[s].queue) = 0 /\ slot[s].hand = 0
    BY <1>0, <1>9 DEF Subscribe, NewSlot, SlotInv
  <2> QED BY <1>0, <1>n, <1>3, <2>1 DEF LostAt
<1>10. CASE Unsubscribe(s)
  <2>1. /\ slot'[s].queue = slot[s].queue /\ slot'[s].hand = slot[s].hand
        /\ slot'[s].at = slot[s].at /\ UNCHANGED <<owed, given, total>>
    BY <1>0, <1>10 DEF Unsubscribe, SlotType
  <2> QED BY <1>0, <1>n, <1>3, <2>1 DEF LostAt
<1> QED BY <1>4, <1>5, <1>6, <1>7, <1>8, <1>9, <1>10

LEMMA DropsNext ==
  ASSUME BusShape, BusShape', PathInv, Counted', DropsCounted, [BusNext]_busVars
  PROVE  DropsCounted'
<1>1. CASE UNCHANGED <<emitted, fanned, ring, pump, total, slot, owed, given>>
  BY <1>1 DEF DropsCounted, Lost, LostAt
<1>2. CASE \/ \E why \in Cuts : Cut(why)
           \/ Close \/ CloseWaits \/ HookSettles \/ HookStops \/ UNCHANGED busVars
  <2>1. UNCHANGED <<emitted, fanned, ring, pump, total, slot, owed, given>>
    BY <1>2 DEF Cut, Close, CloseWaits, HookSettles, HookStops, busVars
  <2> QED BY <1>1, <2>1
<1> QED BY <1>2, LossOfPump, LossOfSlot DEF BusNext

\* Whatever overflows, whoever comes and goes, and however the bus is stopped, the counter of
\* drops is the number of events that were emitted and never given to a sink they were meant
\* for, and never will be; and when the bus was closed in time, every event that reached the
\* dispatcher's queue was posted or went to the dead letters.
THEOREM NothingIsLostSilently == BusSpec => []NothingLostSilently
<1>1. BusInit => DropsCounted
  <2> SUFFICES ASSUME BusInit PROVE DropsCounted
    OBVIOUS
  <2>1. Lost = 0 /\ total = 0
    <3>1. emitted = 0 /\ fanned = 0 /\ Len(ring) = 0 /\ total = 0
      BY DEF BusInit
    <3> QED BY <3>1 DEF Lost
  <2>2. \A s \in Sinks : LostAt(s) = 0
    BY DEF BusInit, LostAt, NewSlot, NoSlot
  <2>3. PICK f : f = [s \in Sinks |-> LostAt(s)]
    OBVIOUS
  <2>4. SumFunction(f) = 0
    BY <2>2, <2>3, SumOfZeros, BusAssumption
  <2> QED BY <2>1, <2>3, <2>4 DEF DropsCounted
<1>2. /\ BusShape /\ BusShape' /\ PathInv /\ PathInv' /\ DropsCounted /\ [BusNext]_busVars
      => DropsCounted'
  BY DropsNext DEF PathInv
<1>3. HookInv => WebhooksSettle
  BY DEF HookInv
<1>4. BusSpec => []DropsCounted
  BY <1>1, <1>2, BusHolds, PathHolds, PTL DEF BusSpec
<1> QED BY <1>3, <1>4, HookHolds, PTL DEF NothingLostSilently

-----------------------------------------------------------------------------
(* The components together (MCSurfaces): the bounds of what queries file, and of the jobs and
   writes, whatever the members of TrustRaces and KeyRace; then the gate among them. *)

\* A row counts one agreeing answer for each set of chunks, and one for its own answer.
FitRows == {r \in Rows : r.sets <= MaxSets /\ r.confirmations <= r.sets + 1}

\* A process at an output knows which, and one that does nothing has nothing left to do.
FitTasks == {t \in Tasks : /\ t.step \in AtOutput => t.id \in Outputs
                           /\ t.step = "none" => t.listed = {}}

TrustFits ==
  /\ row \in [Outputs -> FitRows] /\ doing \in [Actors -> FitTasks]
  /\ indexed \in [Outputs -> Answers \union {NoAnswer}]

LEMMA FitStarts == NoRow \in FitRows /\ NoTask \in FitTasks
BY TrustAssumption DEF NoRow, FitRows, Rows, States, NoTask, FitTasks, Tasks, AtOutput, Promotion

LEMMA FitStates ==
  ASSUME NEW r \in FitRows, NEW s \in States
  PROVE  [r EXCEPT !.state = s] \in FitRows
BY DEF FitRows, Rows

LEMMA FitGrounds ==
  ASSUME NEW r \in FitRows, NEW high \in BOOLEAN
  PROVE  [r EXCEPT !.grounded = high] \in FitRows
BY DEF FitRows, Rows

LEMMA FitFiling ==
  ASSUME NEW answer \in Answers, NEW s \in States \ {"none"}
  PROVE  FileAs(answer, s) \in FitRows
<1>1. FileAs(answer, s).sets = 0 /\ FileAs(answer, s).confirmations = 1
  BY DEF FileAs, NoRow
<1> QED BY <1>1, Filing, TrustAssumption DEF FitRows

LEMMA FitDemotes == ASSUME NEW r \in FitRows PROVE Demoted(r) \in FitRows
<1>1. r \in Rows /\ r.sets \in Nat /\ r.sets <= MaxSets
  BY DEF FitRows, Rows
<1>2. Demoted(r).sets = r.sets /\ Demoted(r).confirmations = 0
  BY <1>1 DEF Demoted, Rows
<1> QED BY <1>1, <1>2, Demoting DEF FitRows

LEMMA FitAgrees ==
  ASSUME NEW r \in FitRows, r.sets < MaxSets
  PROVE  Agreed(r) \in FitRows
<1>1. r \in Rows /\ r.sets \in Nat /\ r.confirmations \in Nat /\ r.confirmations <= r.sets + 1
  BY DEF FitRows, Rows
<1>2. Agreed(r).sets = r.sets + 1 /\ Agreed(r).confirmations = r.confirmations + 1
  BY <1>1 DEF Agreed, Rows
<1> QED BY <1>1, <1>2, Agreeing, TrustAssumption DEF FitRows

LEMMA FitSteps ==
  ASSUME NEW t \in FitTasks, NEW s \in Steps \ {"none"}, s \in AtOutput => t.id \in Outputs
  PROVE  [t EXCEPT !.step = s] \in FitTasks
<1>1. t \in Tasks /\ s \in Steps /\ s # "none"
  BY DEF FitTasks
<1> QED BY <1>1, Moved DEF FitTasks

\* An item is taken off the list.
LEMMA FitTakes ==
  ASSUME NEW t \in FitTasks, NEW item \in t.listed
  PROVE  item[1] \in Outputs /\ [t EXCEPT !.listed = @ \ {item}] \in FitTasks
<1>1. t \in Tasks
  BY DEF FitTasks
<1>2. [t EXCEPT !.listed = @ \ {item}] \in Tasks /\ item[1] \in Outputs
  BY <1>1, Listed
<1>3. t.step # "none" /\ (t.step \in AtOutput => t.id \in Outputs)
  BY DEF FitTasks
<1>4. [t EXCEPT !.listed = @ \ {item}].step = t.step /\ [t EXCEPT !.listed = @ \ {item}].id = t.id
  BY <1>1 DEF Tasks
<1> QED BY <1>2, <1>3, <1>4 DEF FitTasks

\* ... and its output is what comes next.
LEMMA FitGoes ==
  ASSUME NEW t \in FitTasks, NEW item \in t.listed, NEW s \in Steps \ {"none"}
  PROVE  [t EXCEPT !.listed = @ \ {item}, !.id = item[1], !.step = s] \in FitTasks
<1>1. t \in Tasks
  BY DEF FitTasks
<1>2. item[1] \in Outputs /\ t.listed \ {item} \in SUBSET (Outputs \X Nat)
  BY <1>1, Listed DEF Tasks
<1> DEFINE o == item[1]
           list == t.listed \ {item}
           u == [t EXCEPT !.listed = list, !.id = o, !.step = s]
<1> HIDE DEF o, list
<1>3. o \in Outputs /\ list \in SUBSET (Outputs \X Nat)
  BY <1>2 DEF o, list
<1>4. u \in Tasks /\ u.step = s /\ u.id = o
  BY <1>1, <1>3 DEF Tasks, Steps
<1>5. u \in FitTasks
  BY <1>3, <1>4 DEF FitTasks
<1>6. u = [t EXCEPT !.listed = @ \ {item}, !.id = item[1], !.step = s]
  BY DEF o, list
<1> QED BY <1>5, <1>6

\* A command of its own at an output, and a list of outputs.
LEMMA FitBegins ==
  ASSUME NEW o \in Outputs, NEW p \in {"query", "promote", "resolve", "reject"},
         NEW s \in AtOutput
  PROVE  [NoTask EXCEPT !.op = p, !.step = s, !.id = o] \in FitTasks
BY DEF NoTask, FitTasks, Tasks, AtOutput, Promotion

LEMMA FitLists ==
  ASSUME NEW list \in SUBSET (Outputs \X Nat), NEW p \in {"verify", "check"}
  PROVE  [NoTask EXCEPT !.op = p, !.step = "next", !.listed = list] \in FitTasks
BY DEF NoTask, FitTasks, Tasks, AtOutput, Promotion

LEMMA AfterFits ==
  ASSUME TrustFits, NEW a \in Actors, AfterPromotion(a)
  PROVE  doing' \in [Actors -> FitTasks]
<1>1. doing[a] \in FitTasks /\ doing[a] \in Tasks /\ doing \in [Actors -> FitTasks]
  BY DEF TrustFits, FitTasks
<1>2. CASE Go(a, "next")
  <2>1. doing' = [doing EXCEPT ![a] = [doing[a] EXCEPT !.step = "next"]]
    BY <1>1, <1>2 DEF Go
  <2>2. "next" \in Steps \ {"none"} /\ "next" \notin AtOutput
    BY DEF Steps, AtOutput, Promotion
  <2>3. [doing[a] EXCEPT !.step = "next"] \in FitTasks
    BY <1>1, <2>2, FitSteps
  <2> QED BY <1>1, <2>1, <2>3
<1>3. CASE doing' = [doing EXCEPT ![a].step = "next",
                                ![a].listed = {<<o, 0>> : o \in Filed \ {doing[a].id}}]
  <2> DEFINE list == {<<o, 0>> : o \in Filed \ {doing[a].id}}
             t == [doing[a] EXCEPT !.step = "next", !.listed = list]
  <2>1. list \in SUBSET (Outputs \X Nat)
    BY DEF Filed
  <2>2. doing' = [doing EXCEPT ![a] = t]
    BY <1>1, <1>3
  <2> HIDE DEF list
  <2>3. t \in FitTasks
    BY <1>1, <2>1 DEF Tasks, FitTasks, AtOutput, Promotion
  <2> HIDE DEF t
  <2> QED BY <1>1, <2>2, <2>3
<1>4. CASE Ends(a)
  BY <1>1, <1>4, FitStarts DEF Ends
<1> QED BY <1>2, <1>3, <1>4 DEF AfterPromotion

\* Each step files, agrees, promotes, demotes or deletes within the bounds.
LEMMA FitsNext == TrustFits /\ TrustNext => TrustFits'
<1> SUFFICES ASSUME TrustFits, TrustNext PROVE TrustFits'
  OBVIOUS
<1> DEFINE Known == Answers \union {NoAnswer}
<1>a. /\ row \in [Outputs -> FitRows] /\ doing \in [Actors -> FitTasks]
      /\ indexed \in [Outputs -> Known]
  BY DEF TrustFits
<1>b. \A a \in Actors : doing[a] \in FitTasks /\ doing[a].answer \in Known
  BY <1>a DEF FitTasks, Tasks
<1>d. \A o \in Filed : o \in Outputs /\ row[o] \in FitRows
  BY <1>a DEF Filed
<1>e. /\ \A o \in Matches : o \in Outputs
      /\ \A s \in States : \A o \in InState(s) : o \in Outputs
  BY DEF Matches, Live, InState, Filed
<1>f. \A a \in Actors, s \in AtOutput : doing[a].step = s => doing[a].id \in Outputs
  BY <1>b DEF FitTasks
<1>g. /\ AtOutput \subseteq Steps \ {"none"} /\ "next" \in Steps \ {"none"} /\ "next" \notin AtOutput
      /\ {"read", "index", "mark", "deindex", "delete"} \subseteq AtOutput
  BY DEF AtOutput, Promotion, Steps
<1>h. {"pending", "conflict", "confirmed", "stale"} \subseteq States \ {"none"}
  BY DEF States
<1> SUFFICES /\ row' \in [Outputs -> FitRows] /\ doing' \in [Actors -> FitTasks]
             /\ indexed' \in [Outputs -> Known]
  BY DEF TrustFits
<1> HIDE DEF Known
<1>1. ASSUME NEW o \in Outputs, FileNew(o)
      PROVE  /\ row' \in [Outputs -> FitRows] /\ UNCHANGED <<doing, indexed>>
  <2>1. PICK answer \in Answers : row' = [row EXCEPT ![o] = FileAs(answer, "pending")]
    BY <1>1 DEF FileNew
  <2>2. FileAs(answer, "pending") \in FitRows
    BY <1>h, FitFiling
  <2> QED BY <1>a, <1>1, <2>1, <2>2 DEF FileNew
<1>2. ASSUME NEW o \in Outputs, Agree(o)
      PROVE  row' \in [Outputs -> FitRows] /\ UNCHANGED <<doing, indexed>>
  <2>1. row[o] \in FitRows /\ row[o].sets < MaxSets
    BY <1>a, <1>2 DEF Agree
  <2>2. Agreed(row[o]) \in FitRows
    BY <2>1, FitAgrees
  <2> QED BY <1>a, <1>2, <2>2 DEF Agree
<1>3. ASSUME NEW o \in Outputs, NEW m \in Outputs, FileConflict(o, m)
      PROVE  row' \in [Outputs -> FitRows] /\ UNCHANGED <<doing, indexed>>
  <2>1. PICK answer \in Answers :
          row' = [row EXCEPT ![m].state = "conflict", ![o] = FileAs(answer, "conflict")]
    BY <1>3 DEF FileConflict
  <2> DEFINE r == [row[m] EXCEPT !.state = "conflict"]
             f == FileAs(answer, "conflict")
  <2>2. f \in FitRows /\ r \in FitRows
    BY <1>a, <1>h, FitFiling, FitStates
  <2>3. row' = [[row EXCEPT ![m] = r] EXCEPT ![o] = f]
    BY <1>a, <2>1
  <2> HIDE DEF r, f
  <2> QED BY <1>a, <1>3, <2>2, <2>3 DEF FileConflict
<1>4. ASSUME NEW a \in Actors, NEW m \in Outputs, AgreeAndPromote(a, m)
      PROVE  /\ row' \in [Outputs -> FitRows] /\ doing' \in [Actors -> FitTasks]
             /\ UNCHANGED indexed
  <2>1. row[m] \in FitRows /\ row[m].sets < MaxSets
    BY <1>a, <1>4 DEF AgreeAndPromote
  <2> DEFINE r == [Agreed(row[m]) EXCEPT !.state = "confirmed"]
             t == [NoTask EXCEPT !.op = "query", !.step = "read", !.id = m]
  <2>2. r \in FitRows
    BY <1>h, <2>1, FitAgrees, FitStates
  <2>3. t \in FitTasks
    BY <1>g, FitBegins
  <2>4. row' = [row EXCEPT ![m] = r] /\ doing' = [doing EXCEPT ![a] = t] /\ UNCHANGED indexed
    BY <1>4 DEF AgreeAndPromote
  <2> HIDE DEF r, t
  <2> QED BY <1>a, <2>2, <2>3, <2>4
<1>5. ASSUME NEW a \in Actors, NEW o \in Outputs, PromoteByHand(a, o)
      PROVE  doing' \in [Actors -> FitTasks] /\ UNCHANGED <<row, indexed>>
  <2>1. PICK op \in {"promote", "resolve"} :
          doing' = [doing EXCEPT ![a] = [NoTask EXCEPT !.op = op, !.step = "read", !.id = o]]
    BY <1>5 DEF PromoteByHand
  <2>2. [NoTask EXCEPT !.op = op, !.step = "read", !.id = o] \in FitTasks
    BY <1>g, FitBegins
  <2> QED BY <1>a, <1>5, <2>1, <2>2 DEF PromoteByHand
<1>6. ASSUME NEW a \in Actors, PromoteRead(a)
      PROVE  doing' \in [Actors -> FitTasks] /\ UNCHANGED <<row, indexed>>
  <2>1. UNCHANGED <<row, indexed>>
    BY <1>6 DEF PromoteRead
  <2>2. CASE AfterPromotion(a)
    BY <2>1, <2>2, AfterFits
  <2>3. CASE doing[a].id \in Filed
    <3> DEFINE o == doing[a].id
               t == [doing[a] EXCEPT !.step = "index", !.answer = row[o].answer]
    <3>1. doing' = [doing EXCEPT ![a] = t]
      BY <1>a, <1>6, <2>3 DEF PromoteRead
    <3>2. row[o].answer \in Answers \union {NoAnswer} /\ doing[a] \in Tasks /\ o \in Outputs
      BY <1>b, <1>d, <2>3 DEF FitRows, Rows, FitTasks
    <3>3. t \in Tasks /\ t.step = "index" /\ t.id = o
      BY <3>2 DEF Tasks
    <3>4. t \in FitTasks
      BY <3>2, <3>3 DEF FitTasks
    <3> HIDE DEF t
    <3> QED BY <1>a, <2>1, <3>1, <3>4
  <2> QED BY <1>6, <2>2, <2>3 DEF PromoteRead
<1>7. ASSUME NEW a \in Actors, PromoteIndex(a)
      PROVE  /\ doing' \in [Actors -> FitTasks] /\ indexed' \in [Outputs -> Known]
             /\ UNCHANGED row
  <2>1. doing[a].step = "index" /\ doing[a].id \in Outputs
    BY <1>7, <1>f, <1>g DEF PromoteIndex, At
  <2>2. [doing[a] EXCEPT !.step = "mark"] \in FitTasks
    BY <1>b, <1>g, <2>1, FitSteps
  <2>3. doing' = [doing EXCEPT ![a] = [doing[a] EXCEPT !.step = "mark"]]
    BY <1>a, <1>7 DEF PromoteIndex, Go
  <2>4. indexed' = [indexed EXCEPT ![doing[a].id] = doing[a].answer]
    BY <1>7 DEF PromoteIndex
  <2>5. doing[a].answer \in Known
    BY <1>b
  <2> QED BY <1>a, <1>7, <2>1, <2>2, <2>3, <2>4, <2>5 DEF PromoteIndex
<1>8. ASSUME NEW a \in Actors, PromoteMark(a)
      PROVE  /\ row' \in [Outputs -> FitRows] /\ doing' \in [Actors -> FitTasks]
             /\ UNCHANGED indexed
  <2> DEFINE o == doing[a].id
             r == [row[o] EXCEPT !.state = "confirmed"]
  <2>1. doing' \in [Actors -> FitTasks]
    BY <1>8, AfterFits DEF PromoteMark
  <2>2. row' = IF o \in Filed THEN [row EXCEPT ![o] = r] ELSE row
    BY <1>a, <1>8 DEF PromoteMark, Filed
  <2>3. o \in Filed => r \in FitRows
    BY <1>d, <1>h, FitStates
  <2> HIDE DEF r
  <2> QED BY <1>a, <1>8, <2>1, <2>2, <2>3 DEF PromoteMark
<1>9. ASSUME NEW a \in Actors, BeginVerify(a) \/ BeginCheck(a)
      PROVE  doing' \in [Actors -> FitTasks] /\ UNCHANGED <<row, indexed>>
  <2>1. CASE BeginVerify(a)
    <3>1. PICK some \in SUBSET InState("pending") :
            doing' = [doing EXCEPT ![a] = [NoTask EXCEPT !.op = "verify", !.step = "next",
                                           !.listed = {<<o, row[o].confirmations>> : o \in some}]]
      BY <2>1 DEF BeginVerify
    <3> DEFINE list == {<<o, row[o].confirmations>> : o \in some}
    <3>2. \A o \in some : o \in Outputs /\ row[o].confirmations \in Nat
      BY <1>d DEF InState, FitRows, Rows
    <3>3. list \in SUBSET (Outputs \X Nat)
      BY <3>2
    <3> HIDE DEF list
    <3>4. [NoTask EXCEPT !.op = "verify", !.step = "next", !.listed = list] \in FitTasks
      BY <3>3, FitLists
    <3> QED BY <1>a, <2>1, <3>1, <3>4 DEF list, BeginVerify
  <2>2. CASE BeginCheck(a)
    <3> DEFINE list == {<<o, 0>> : o \in InState("confirmed")}
    <3>1. list \in SUBSET (Outputs \X Nat)
      BY DEF InState, Filed
    <3>2. doing' = [doing EXCEPT ![a] = [NoTask EXCEPT !.op = "check", !.step = "next",
                                           !.listed = list]]
      BY <2>2 DEF BeginCheck
    <3> HIDE DEF list
    <3>3. [NoTask EXCEPT !.op = "check", !.step = "next", !.listed = list] \in FitTasks
      BY <3>1, FitLists
    <3> QED BY <1>a, <2>2, <3>2, <3>3 DEF BeginCheck
  <2> QED BY <1>9, <2>1, <2>2
<1>10. ASSUME NEW a \in Actors, Ground(a)
       PROVE  /\ row' \in [Outputs -> FitRows] /\ doing' \in [Actors -> FitTasks]
              /\ UNCHANGED indexed
  <2>1. PICK item \in doing[a].listed, high \in BOOLEAN :
          LET o == item[1]
              earns == high /\ ShouldAutoPromote(item[2], row[o].sets) IN
          /\ row' = IF o \in Filed THEN [row EXCEPT ![o].grounded = high] ELSE row
          /\ doing' = [doing EXCEPT ![a].listed = @ \ {item}, ![a].id = o,
                                  ![a].step = IF earns THEN "read" ELSE "next"]
    BY <1>10 DEF Ground
  <2> DEFINE o == item[1]
             s == IF high /\ ShouldAutoPromote(item[2], row[o].sets) THEN "read" ELSE "next"
             t == [doing[a] EXCEPT !.listed = @ \ {item}, !.id = item[1], !.step = s]
             r == [row[o] EXCEPT !.grounded = high]
  <2>2. s \in Steps \ {"none"}
    BY <1>g
  <2>3. doing' = [doing EXCEPT ![a] = t]
    BY <1>a, <2>1
  <2>4. row' = IF o \in Filed THEN [row EXCEPT ![o] = r] ELSE row
    BY <1>a, <2>1 DEF Filed
  <2> HIDE DEF s
  <2>5. t \in FitTasks
    BY <1>b, <2>2, FitGoes
  <2>6. o \in Filed => r \in FitRows
    BY <1>d, FitGrounds
  <2> HIDE DEF t, r
  <2> QED BY <1>a, <1>10, <2>3, <2>4, <2>5, <2>6 DEF Ground
<1>11. ASSUME NEW a \in Actors, Check(a)
       PROVE  /\ row' \in [Outputs -> FitRows] /\ doing' \in [Actors -> FitTasks]
              /\ UNCHANGED indexed
  <2>1. PICK item \in doing[a].listed, current \in BOOLEAN :
          LET o == item[1] IN
          IF current
          THEN /\ doing' = [doing EXCEPT ![a].listed = @ \ {item}]
               /\ UNCHANGED <<row, byUser>>
          ELSE /\ row' = IF o \in Filed THEN [row EXCEPT ![o] = Demoted(@)] ELSE row
               /\ doing' = [doing EXCEPT ![a].listed = @ \ {item}, ![a].id = o,
                                       ![a].step = "deindex"]
    BY <1>11 DEF Check
  <2> DEFINE o == item[1]
             t == [doing[a] EXCEPT !.listed = @ \ {item}, !.id = item[1], !.step = "deindex"]
             u == [doing[a] EXCEPT !.listed = @ \ {item}]
             r == Demoted(row[o])
  <2>2. t \in FitTasks /\ u \in FitTasks
    BY <1>b, <1>g, FitGoes, FitTakes
  <2>3. o \in Filed => r \in FitRows
    BY <1>d, FitDemotes
  <2>4. \/ doing' = [doing EXCEPT ![a] = u] /\ UNCHANGED row
        \/ /\ doing' = [doing EXCEPT ![a] = t]
           /\ row' = IF o \in Filed THEN [row EXCEPT ![o] = r] ELSE row
    BY <1>a, <2>1 DEF Filed
  <2> HIDE DEF t, u, r
  <2> QED BY <1>a, <1>11, <2>2, <2>3, <2>4 DEF Check
<1>12. ASSUME NEW a \in Actors, Reject(a)
       PROVE  doing' \in [Actors -> FitTasks] /\ UNCHANGED <<row, indexed>>
  <2>1. UNCHANGED <<row, indexed>>
    BY <1>12 DEF Reject
  <2>2. ASSUME NEW o \in Filed, doing' = [doing EXCEPT ![a] =
                 [NoTask EXCEPT !.op = "reject", !.step = "deindex", !.id = o]]
        PROVE  doing' \in [Actors -> FitTasks]
    <3>1. [NoTask EXCEPT !.op = "reject", !.step = "deindex", !.id = o] \in FitTasks
      BY <1>d, <1>g, FitBegins
    <3> QED BY <1>a, <2>2, <3>1
  <2>3. ASSUME NEW item \in doing[a].listed,
               doing' = IF item[1] \in Filed
                        THEN [doing EXCEPT ![a].step = "deindex", ![a].id = item[1],
                                           ![a].listed = @ \ {item}]
                        ELSE [doing EXCEPT ![a].listed = @ \ {item}]
        PROVE  doing' \in [Actors -> FitTasks]
    <3> DEFINE t == [doing[a] EXCEPT !.listed = @ \ {item}, !.id = item[1], !.step = "deindex"]
               u == [doing[a] EXCEPT !.listed = @ \ {item}]
    <3>1. t \in FitTasks /\ u \in FitTasks
      BY <1>b, <1>g, FitGoes, FitTakes
    <3>2. t = [doing[a] EXCEPT !.step = "deindex", !.id = item[1], !.listed = @ \ {item}]
      BY <1>b DEF FitTasks, Tasks
    <3>3. doing' = [doing EXCEPT ![a] = t] \/ doing' = [doing EXCEPT ![a] = u]
      BY <1>a, <2>3, <3>2
    <3> HIDE DEF t, u
    <3> QED BY <1>a, <3>1, <3>3
  <2> QED BY <1>12, <2>1, <2>2, <2>3 DEF Reject
<1>13. ASSUME NEW a \in Actors, Deindex(a)
       PROVE  /\ doing' \in [Actors -> FitTasks] /\ indexed' \in [Outputs -> Known]
              /\ UNCHANGED row
  <2> DEFINE s == IF doing[a].op = "check" THEN "next" ELSE "delete"
  <2>1. doing[a].id \in Outputs /\ s \in Steps \ {"none"}
    BY <1>13, <1>f, <1>g DEF Deindex, At
  <2>2. [doing[a] EXCEPT !.step = s] \in FitTasks
    <3> HIDE DEF s
    <3> QED BY <1>b, <2>1, FitSteps
  <2>3. doing' = [doing EXCEPT ![a] = [doing[a] EXCEPT !.step = s]]
    BY <1>a, <1>13 DEF Deindex, Go
  <2>4. indexed' \in {indexed, [indexed EXCEPT ![doing[a].id] = NoAnswer]} /\ UNCHANGED row
    BY <1>13 DEF Deindex
  <2> HIDE DEF s
  <2> QED BY <1>a, <2>2, <2>3, <2>4 DEF Known
<1>14. ASSUME NEW a \in Actors, RejectDelete(a)
       PROVE  /\ row' \in [Outputs -> FitRows] /\ doing' \in [Actors -> FitTasks]
              /\ UNCHANGED indexed
  <2>1. row' = [row EXCEPT ![doing[a].id] = NoRow] /\ UNCHANGED indexed
    BY <1>14 DEF RejectDelete
  <2>2. [doing[a] EXCEPT !.step = "next"] \in FitTasks
    BY <1>b, <1>g, FitSteps
  <2>3. \/ doing' = [doing EXCEPT ![a] = [doing[a] EXCEPT !.step = "next"]]
        \/ doing' = [doing EXCEPT ![a] = NoTask]
    BY <1>a, <1>14 DEF RejectDelete, Go, Ends
  <2> QED BY <1>a, <2>1, <2>2, <2>3, FitStarts
<1>15. ASSUME NEW a \in Actors, ListDone(a) \/ GiveUp(a)
       PROVE  doing' \in [Actors -> FitTasks] /\ UNCHANGED <<row, indexed>>
  BY <1>a, <1>15, FitStarts DEF ListDone, GiveUp, Ends
<1> HIDE DEF TrustFits
<1> QED BY <1>a, <1>1, <1>2, <1>3, <1>4, <1>5, <1>6, <1>7, <1>8, <1>9, <1>10, <1>11, <1>12,
           <1>13, <1>14, <1>15 DEF TrustNext

LEMMA FitsHold == TrustSpec => []TrustTypeOK
<1>1. TrustInit => TrustFits
  BY FitStarts DEF TrustInit, TrustFits
<1>2. TrustFits /\ [TrustNext]_trustVars => TrustFits'
  <2>1. TrustFits /\ UNCHANGED trustVars => TrustFits'
    BY DEF TrustFits, trustVars
  <2> QED BY <2>1, FitsNext
<1>3. TrustFits => TrustTypeOK
  <2> SUFFICES ASSUME TrustFits PROVE TrustTypeOK
    OBVIOUS
  <2>1. ASSUME NEW o \in Outputs
        PROVE  /\ row[o].state \in States
               /\ row[o].confirmations \in 0..(1 + MaxSets) /\ row[o].sets \in 0..MaxSets
               /\ row[o].grounded \in BOOLEAN /\ indexed[o] \in Answers \union {NoAnswer}
    BY TrustAssumption DEF TrustFits, FitRows, Rows
  <2>2. \A a \in Actors : doing[a].listed = {} \/ doing[a].step # "none"
    BY DEF TrustFits, FitTasks
  <2> QED BY <2>1, <2>2 DEF TrustTypeOK, States
<1> QED BY <1>1, <1>2, <1>3, PTL DEF TrustSpec

-----------------------------------------------------------------------------
(* The jobs' keys, contexts and clients, and the writes. *)

JobsBounded ==
  /\ idem \in [Kinds \X Keys -> 0..MaxApiJobs] /\ keyed \in [ApiJobIds -> Keys \union {NoKey}]
  /\ done \subseteq ApiJobIds /\ \A c \in Submitters : client[c].id \in 0..MaxApiJobs

LEMMA JobsBoundedNext == ApiInv /\ JobsBounded /\ ApiNext => JobsBounded'
<1> SUFFICES ASSUME ApiInv, JobsBounded, ApiNext PROVE JobsBounded'
  OBVIOUS
<1>0. /\ client \in [Submitters -> Clients]
      /\ \A c \in Submitters : client[c] \in Clients /\ client[c].id \in 0..MaxApiJobs
                               /\ client[c].key \in Keys \union {NoKey}
  BY DEF ApiInv, JobsType, JobsBounded, Clients
<1>1. 0 \in 0..MaxApiJobs /\ NoSubmit.id = 0
  BY ApiJobAssumption DEF NoSubmit
<1> USE DEF JobsBounded
<1>2. ASSUME NEW c \in Submitters, Lookup(c) PROVE JobsBounded'
  <2>1. PICK k \in Kinds, key \in Keys \union {NoKey} :
          client' = [client EXCEPT ![c] = [at |-> "admit", kind |-> k, key |-> key, id |-> 0]]
    BY <1>2 DEF Lookup
  <2>2. \A d \in Submitters : client'[d].id \in 0..MaxApiJobs
    BY <1>0, <1>1, <2>1
  <2> QED BY <1>2, <2>2 DEF Lookup
<1>3. ASSUME NEW c \in Submitters, Conflict(c) PROVE JobsBounded'
  <2>1. \A d \in Submitters : client'[d].id \in 0..MaxApiJobs
    BY <1>0, <1>1, <1>3 DEF Conflict
  <2> QED BY <1>3, <2>1 DEF Conflict
<1>4. ASSUME NEW c \in Submitters, Create(c) PROVE JobsBounded'
  <2> DEFINE j == created + 1
             kept == IF Cardinality(stored) < StoreMax THEN stored ELSE stored \ {Min(stored)}
  <2>1. /\ j \in ApiJobIds /\ keyed' = [keyed EXCEPT ![j] = client[c].key]
        /\ idem' = [k \in DOMAIN idem |-> IF idem[k] \in stored \ kept THEN 0 ELSE idem[k]]
        /\ client' = [client EXCEPT ![c].at = "launch", ![c].id = j] /\ UNCHANGED done
    BY <1>4 DEF Create, kept
  <2> HIDE DEF kept, j
  <2>2. idem' \in [Kinds \X Keys -> 0..MaxApiJobs]
    BY <1>1, <2>1
  <2>3. keyed' \in [ApiJobIds -> Keys \union {NoKey}]
    BY <1>0, <2>1
  <2>4. \A d \in Submitters : client'[d].id \in 0..MaxApiJobs
    <3>1. client'[c].id = j
      BY <1>0, <2>1 DEF Clients
    <3>2. \A d \in Submitters : d # c => client'[d] = client[d]
      BY <1>0, <2>1
    <3>3. j \in 0..MaxApiJobs
      BY <2>1, ApiJobAssumption DEF ApiJobIds
    <3> QED BY <1>0, <3>1, <3>2, <3>3
  <2> QED BY <2>1, <2>2, <2>3, <2>4
<1>5. ASSUME NEW c \in Submitters, Launch(c) PROVE JobsBounded'
  <2>1. \A d \in Submitters : client'[d].id \in 0..MaxApiJobs
    BY <1>0, <1>1, <1>5 DEF Launch
  <2>2. idem' \in [Kinds \X Keys -> 0..MaxApiJobs]
    BY <1>0, <1>5 DEF Launch
  <2> QED BY <1>5, <2>1, <2>2 DEF Launch
<1>6. ASSUME NEW j \in ApiJobIds, Begin(j) \/ Deadline(j) \/ Return(j) \/ Delete(j)
      PROVE  JobsBounded'
  BY <1>6 DEF Begin, Deadline, Return, Delete
<1> QED BY <1>2, <1>3, <1>4, <1>5, <1>6 DEF ApiNext

LEMMA JobsTypeHolds == ApiSpec => []ApiTypeOK
<1>1. ApiInit => JobsBounded
  BY ApiJobAssumption DEF ApiInit, JobsBounded, NoSubmit
<1>2. ApiInv /\ JobsBounded /\ [ApiNext]_apiVars => JobsBounded'
  <2>1. JobsBounded /\ UNCHANGED apiVars => JobsBounded'
    BY DEF JobsBounded, apiVars
  <2> QED BY <2>1, JobsBoundedNext
<1>3. ApiInv /\ JobsBounded => ApiTypeOK
  <2> SUFFICES ASSUME ApiInv, JobsBounded PROVE ApiTypeOK
    OBVIOUS
  <2>1. /\ created \in 0..MaxApiJobs /\ stored \subseteq 1..created
        /\ status \in [ApiJobIds -> {"pending", "running"} \union Final]
        /\ kind \in [ApiJobIds -> Kinds \union {"none"}]
        /\ task \in [ApiJobIds -> {"none", "spawned", "running", "over"}]
    BY ApiJobAssumption DEF ApiInv, JobsType
  <2>2. client \in [Submitters -> [at : {"idle", "admit", "launch"}, kind : Kinds \union {"none"},
                                   key : Keys \union {NoKey}, id : 0..MaxApiJobs]]
    BY DEF ApiInv, JobsType, Clients, JobsBounded
  <2> QED BY <2>1, <2>2 DEF ApiTypeOK, JobsBounded
<1> QED BY <1>1, <1>2, <1>3, ApiInductive, PTL DEF ApiSpec

HandledBound == \A k \in IdemKeys : handled[k] <= MaxHandled

LEMMA WritesTypeHolds == IdemSpec => []IdemTypeOK
<1>1. IdemInit => HandledBound
  BY IdemAssumption DEF IdemInit, HandledBound
<1>2. IdemInv /\ HandledBound /\ [IdemNext]_idemVars => HandledBound'
  <2> SUFFICES ASSUME IdemInv, HandledBound, [IdemNext]_idemVars PROVE HandledBound'
    OBVIOUS
  <2>1. handled \in [IdemKeys -> Nat] /\ MaxHandled \in Nat
    BY IdemAssumption DEF IdemInv, CallsType
  <2>2. ASSUME NEW w \in Writers, Lead(w) PROVE HandledBound'
    <3>1. PICK k \in IdemKeys : handled[k] < MaxHandled /\ handled' = [handled EXCEPT ![k] = @ + 1]
      BY <2>2 DEF Lead
    <3> QED BY <2>1, <3>1 DEF HandledBound
  <2>3. ASSUME NEW w \in Writers, IdemReplay(w) \/ Follow(w) \/ IdemFinish(w) \/ HangUp(w)
        PROVE  HandledBound'
    BY <2>3 DEF HandledBound, IdemReplay, Follow, IdemFinish, HangUp
  <2>4. ASSUME NEW k \in IdemKeys, ExpireEntry(k) PROVE HandledBound'
    BY <2>4 DEF HandledBound, ExpireEntry
  <2>5. CASE UNCHANGED idemVars
    BY <2>5 DEF idemVars, HandledBound
  <2> QED BY <2>2, <2>3, <2>4, <2>5 DEF IdemNext
<1>3. IdemInv /\ HandledBound => IdemTypeOK
  <2> SUFFICES ASSUME IdemInv, HandledBound PROVE IdemTypeOK
    OBVIOUS
  <2>1. Distinct(lru) /\ Len(lru) <= MaxEntries /\ stale \subseteq ToSet(lru)
    BY DEF IdemInv, OrderType
  <2>2. lru \in Seq(IdemKeys) /\ DOMAIN lru = 1..Len(lru)
    BY <2>1 DEF Distinct
  <2>3. ToSet(lru) \subseteq IdemKeys
    BY <2>2 DEF ToSet
  <2>4. IsInjective(lru)
    BY <2>1, <2>2 DEF IsInjective, Distinct
  <2>5. handled \in [IdemKeys -> 0..MaxHandled]
    BY IdemAssumption DEF IdemInv, CallsType, HandledBound
  <2> QED BY <2>1, <2>3, <2>4, <2>5 DEF IdemTypeOK, IdemInv, CallsType, WriterType
<1> QED BY <1>1, <1>2, <1>3, IdemInductive, PTL DEF IdemSpec

-----------------------------------------------------------------------------
(* While one component runs the others rest, so each behaves as its own specification says. *)

LEMMA EachRuns == SurfSpec => ApiSpec /\ IdemSpec /\ BusSpec /\ TrustSpec
<1>1. SurfInit => ApiInit /\ IdemInit /\ BusInit /\ TrustInit
  BY DEF SurfInit
<1>2. [SurfNext]_surfVars => /\ [ApiNext]_apiVars /\ [IdemNext]_idemVars
                             /\ [BusNext]_busVars /\ [TrustNext]_trustVars
  BY Zenon DEF SurfNext, surfVars, JobsRun, IdemRuns, BusRuns, TrustRuns
<1> QED BY <1>1, <1>2, PTL DEF SurfSpec, ApiSpec, IdemSpec, BusSpec, TrustSpec

\* Every part of the services has its type, within the bounds of the stores and queues, and the
\* compile gate of the API's jobs (tryCreateOrGetActive) lets one compile run: for any number of
\* clients, writers, sinks, outputs and processes, whatever the races.
THEOREM ServicesTypeCorrect == SurfSpec => []GateInv
<1>1. ApiTypeOK /\ IdemTypeOK /\ BusTypeOK /\ TrustTypeOK /\ GateIsExclusive => GateInv
  BY DEF GateInv, SurfacesTypeOK
<1> QED BY <1>1, EachRuns, JobsTypeHolds, WritesTypeHolds, BusTypeCorrect, FitsHold,
           OneCompileRuns, PTL
=============================================================================
