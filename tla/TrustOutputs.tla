----------------------------- MODULE TrustOutputs -----------------------------
(* The answers of one question that the wiki keeps (internal/trust, with the   *)
(* verify and outputs commands, the filing of a query and the check at the end *)
(* of a compile).  An answer is filed under review, gathers agreeing answers   *)
(* and a grounding score, is promoted and indexed, and is demoted when its     *)
(* sources change.  Searches show the indexed outputs that are confirmed.      *)
EXTENDS Integers, FiniteSets

CONSTANTS
  Outputs,      \* the ids (file names) its outputs may have; they are used again
  Answers,      \* answers that disagree with each other
  NoAnswer,
  MaxSets,      \* bound: different sets of chunks, which overlap little, that support an output
  Threshold,    \* trust.consensus_threshold
  NoOutput,
  Actors,       \* processes that use the wiki
  TrustRaces    \* "overlap": an output's state changes while a promotion of it is under
                \* way; "late": verify acts on outputs that changed since it listed them;
                \* "blind": an answer is filed without a search for similar questions,
                \* because the embedder or the search fails; "undeleted": a search store
                \* fails to delete an output, an error that nothing looks at

ASSUME TrustAssumption ==
  /\ MaxSets \in Nat
  /\ NoAnswer \notin Answers /\ NoOutput \notin Outputs
  /\ Threshold \in Nat \ {0} /\ TrustRaces \subseteq {"overlap", "late", "blind", "undeleted"}

VARIABLES
  row,        \* pending_outputs, with the confirmation_sources of each output
  indexed,    \* the answer that the search stores hold of each output
  doing,      \* what each process does
  byUser      \* history: outputs the user promoted and no compile demoted since

trustVars == <<row, indexed, doing, byUser>>

NoRow == [state |-> "none", answer |-> NoAnswer, confirmations |-> 0, sets |-> 0,
          grounded |-> FALSE]
NoTask == [op |-> "none", step |-> "none", id |-> NoOutput,
           listed |-> {}, answer |-> NoAnswer]

Filed  == {o \in Outputs : row[o] # NoRow}
Live   == {o \in Filed : row[o].state \in {"pending", "confirmed"}}
InState(s) == {o \in Filed : row[o].state = s}

TrustInit ==
  /\ row = [o \in Outputs |-> NoRow] /\ indexed = [o \in Outputs |-> NoAnswer]
  /\ doing = [a \in Actors |-> NoTask] /\ byUser = {}

Idle(a)  == doing[a] = NoTask
At(a, s) == doing[a].step = s
Go(a, s) == doing' = [doing EXCEPT ![a].step = s]
Ends(a)  == doing' = [doing EXCEPT ![a] = NoTask]

\* The processes between the first and the last step of a promotion of o.
Promoting(o) == {a \in Actors : doing[a].id = o /\ doing[a].step \in {"read", "index", "mark"}}
Undisturbed(o) == Promoting(o) = {} \/ "overlap" \in TrustRaces
Untouched(o)   == \/ "overlap" \in TrustRaces
                  \/ \A a \in Actors : doing[a].id = o => At(a, "next")

-----------------------------------------------------------------------------
(* Consensus.                                                                 *)

Independent(sets) == sets >= 2

ShouldAutoPromote(confirmations, sets) ==
  /\ confirmations >= Threshold
  /\ Independent(sets) \/ confirmations >= 2 * Threshold

Agreed(r) == [r EXCEPT !.confirmations = @ + 1, !.sets = @ + 1]
Earns(r)  == ShouldAutoPromote(r.confirmations, r.sets) /\ r.grounded

-----------------------------------------------------------------------------
(* ProcessOutput: a query's answer is filed.                                  *)

FileAs(answer, state) ==
  [NoRow EXCEPT !.state = state, !.answer = answer, !.confirmations = 1]

MatchesPending == InState("pending")
\* FindSimilarQuestion.
Matches == Live

\* The name of a new output is one that no row has.
Free(o) == o \notin Filed /\ Untouched(o)

\* No similar question: a new output.
FileNew(o) ==
  /\ Free(o) /\ (Matches = {} \/ "blind" \in TrustRaces)
  /\ \E answer \in Answers : row' = [row EXCEPT ![o] = FileAs(answer, "pending")]
  /\ byUser' = byUser \ {o}
  /\ UNCHANGED <<indexed, doing>>

\* An answer that disagrees, or cannot be compared: both are in conflict.
FileConflict(o, m) ==
  /\ Free(o) /\ m \in Matches /\ Undisturbed(m)
  /\ \E answer \in Answers :
       row' = [row EXCEPT ![m].state = "conflict", ![o] = FileAs(answer, "conflict")]
  /\ byUser' = byUser \ {o}
  /\ UNCHANGED <<indexed, doing>>

\* An answer that agrees: counted once for each set of chunks.
Agree(m) ==
  /\ m \in Matches /\ row[m].sets < MaxSets
  /\ LET agreed == Agreed(row[m]) IN ~Earns(agreed) /\ row' = [row EXCEPT ![m] = agreed]
  /\ UNCHANGED <<indexed, doing, byUser>>

\* With both thresholds met the row is confirmed at once, and the promotion follows the
\* transaction.
AgreeAndPromote(a, m) ==
  /\ Idle(a) /\ m \in Matches /\ row[m].sets < MaxSets /\ Untouched(m)
  /\ LET agreed == Agreed(row[m]) IN
     /\ Earns(agreed)
     /\ row' = [row EXCEPT ![m] = [agreed EXCEPT !.state = "confirmed"]]
  /\ doing' = [doing EXCEPT ![a] = [NoTask EXCEPT !.op = "query", !.step = "read", !.id = m]]
  /\ UNCHANGED <<indexed, byUser>>

-----------------------------------------------------------------------------
(* PromoteOutput, for a query, verify, outputs promote and outputs resolve.   *)

\* What follows a promotion that has ended or failed.
AfterPromotion(a) ==
  IF doing[a].op = "verify" THEN Go(a, "next")
  ELSE IF doing[a].op = "resolve" /\ At(a, "mark")
  THEN doing' = [doing EXCEPT ![a].step = "next",
                            ![a].listed = {<<o, 0>> : o \in Filed \ {doing[a].id}}]
  ELSE Ends(a)

\* The row is read; a file under review is moved and its new path recorded.
PromoteRead(a) ==
  LET o == doing[a].id IN
  /\ At(a, "read")
  /\ IF o \in Filed
     THEN doing' = [doing EXCEPT ![a].step = "index", ![a].answer = row[o].answer]
     ELSE AfterPromotion(a)
  /\ UNCHANGED <<row, indexed, byUser>>

\* Full text, vectors, ontology and chunks.
PromoteIndex(a) ==
  /\ At(a, "index") /\ Go(a, "mark")
  /\ indexed' = [indexed EXCEPT ![doing[a].id] = doing[a].answer]
  /\ UNCHANGED <<row, byUser>>

PromoteMark(a) ==
  LET o == doing[a].id IN
  /\ At(a, "mark") /\ AfterPromotion(a)
  /\ row' = IF o \in Filed THEN [row EXCEPT ![o].state = "confirmed"] ELSE row
  /\ byUser' = IF doing[a].op \in {"promote", "resolve"} THEN byUser \union {o} ELSE byUser
  /\ UNCHANGED <<indexed>>

\* outputs promote, and outputs resolve, which then rejects the other answers.
PromoteByHand(a, o) ==
  /\ Idle(a) /\ o \in Filed /\ Untouched(o)
  /\ \E op \in {"promote", "resolve"} :
       doing' = [doing EXCEPT ![a] = [NoTask EXCEPT !.op = op, !.step = "read", !.id = o]]
  /\ UNCHANGED <<row, indexed, byUser>>

-----------------------------------------------------------------------------
(* Verify.                                                                    *)

Verifying == {a \in Actors : doing[a].op = "verify"}

BeginVerify(a) ==
  /\ Idle(a) /\ (Verifying = {} \/ "late" \in TrustRaces)
  /\ \E some \in SUBSET InState("pending") :
       /\ some # {}
       /\ doing' = [doing EXCEPT ![a] =
                     [NoTask EXCEPT !.op = "verify", !.step = "next",
                        !.listed = {<<o, row[o].confirmations>> : o \in some}]]
  /\ UNCHANGED <<row, indexed, byUser>>

\* The score is stored whatever became of the output, and the confirmations are those
\* that were listed.
Ground(a) ==
  /\ At(a, "next") /\ doing[a].op = "verify"
  /\ \E item \in doing[a].listed, high \in BOOLEAN :
       LET o == item[1]
           earns == high /\ ShouldAutoPromote(item[2], row[o].sets) IN
       /\ "late" \notin TrustRaces =>
            o \in InState("pending") /\ row[o].confirmations >= item[2]
       /\ earns => Untouched(o)
       /\ row' = IF o \in Filed THEN [row EXCEPT ![o].grounded = high] ELSE row
       /\ doing' = [doing EXCEPT ![a].listed = @ \ {item}, ![a].id = o,
                               ![a].step = IF earns THEN "read" ELSE "next"]
  /\ UNCHANGED <<indexed, byUser>>

-----------------------------------------------------------------------------
(* The check of a compile (CheckSourceChanges), and outputs reject and clean. *)

BeginCheck(a) ==
  /\ Idle(a) /\ InState("confirmed") # {}
  /\ doing' = [doing EXCEPT ![a] =
                [NoTask EXCEPT !.op = "check", !.step = "next",
                   !.listed = {<<o, 0>> : o \in InState("confirmed")}]]
  /\ UNCHANGED <<row, indexed, byUser>>

Demoted(r) == [r EXCEPT !.state = "stale", !.confirmations = 0, !.grounded = FALSE]

\* The sources may have changed, or have been put back, at any time: whether their hash
\* is still the one that was stored is a choice.
Check(a) ==
  /\ At(a, "next") /\ doing[a].op = "check"
  /\ \E item \in doing[a].listed, current \in BOOLEAN :
       LET o == item[1] IN
       IF current
       THEN /\ doing' = [doing EXCEPT ![a].listed = @ \ {item}]
            /\ UNCHANGED <<row, byUser>>
       ELSE /\ Untouched(o)
            /\ row' = IF o \in Filed THEN [row EXCEPT ![o] = Demoted(@)] ELSE row
            /\ byUser' = byUser \ {o}
            /\ doing' = [doing EXCEPT ![a].listed = @ \ {item}, ![a].id = o, ![a].step = "deindex"]
  /\ UNCHANGED <<indexed>>

\* DeindexOutput, and what DemoteOutput does after the row: the errors of the four deletes
\* are not looked at, and the command goes on.
Deindex(a) ==
  /\ At(a, "deindex")
  /\ \E deleted \in BOOLEAN :
       /\ deleted \/ "undeleted" \in TrustRaces
       /\ indexed' = IF deleted THEN [indexed EXCEPT ![doing[a].id] = NoAnswer] ELSE indexed
  /\ Go(a, IF doing[a].op = "check" THEN "next" ELSE "delete")
  /\ UNCHANGED <<row, byUser>>

\* The list of a command or of verify is exhausted.
ListDone(a) ==
  /\ At(a, "next") /\ doing[a].listed = {} /\ Ends(a)
  /\ UNCHANGED <<row, indexed, byUser>>

RejectKeepsIndex(a) ==
  /\ Idle(a)
  /\ \E o \in Filed :
       /\ Untouched(o)
       /\ doing' = [doing EXCEPT ![a] = [NoTask EXCEPT !.op = "reject", !.step = "delete", !.id = o]]
  /\ UNCHANGED <<row, indexed, byUser>>

\* RejectOutput of one output, of those outputs clean lists, or of resolve's siblings.
Reject(a) ==
  /\ \/ /\ Idle(a)
        /\ \E o \in Filed :
             /\ Untouched(o)
             /\ doing' = [doing EXCEPT ![a] = [NoTask EXCEPT !.op = "reject", !.step = "deindex",
                                               !.id = o]]
     \/ /\ At(a, "next") /\ doing[a].op = "resolve"
        /\ \E item \in doing[a].listed :
             LET o == item[1] IN
             /\ Untouched(o)
             /\ doing' = IF o \in Filed
                        THEN [doing EXCEPT ![a].step = "deindex", ![a].id = o,
                                ![a].listed = @ \ {item}]
                        ELSE [doing EXCEPT ![a].listed = @ \ {item}]
  /\ UNCHANGED <<row, indexed, byUser>>

RejectDelete(a) ==
  /\ At(a, "delete")
  /\ row' = [row EXCEPT ![doing[a].id] = NoRow]
  /\ IF doing[a].op = "resolve" THEN Go(a, "next") ELSE Ends(a)
  /\ UNCHANGED <<indexed, byUser>>

-----------------------------------------------------------------------------
\* A step reports its error, or the process dies: what it has done stays.
GiveUp(a) ==
  /\ ~Idle(a) /\ Ends(a)
  /\ UNCHANGED <<row, indexed, byUser>>

TrustNext ==
  \/ \E o \in Outputs : FileNew(o) \/ Agree(o)
  \/ \E o, m \in Outputs : FileConflict(o, m)
  \/ \E a \in Actors, o \in Outputs :
       AgreeAndPromote(a, o) \/ PromoteByHand(a, o)
  \/ \E a \in Actors :
       \/ PromoteRead(a) \/ PromoteIndex(a) \/ PromoteMark(a)
       \/ BeginVerify(a) \/ Ground(a) \/ BeginCheck(a) \/ Check(a)
       \/ Reject(a) \/ Deindex(a) \/ RejectDelete(a) \/ ListDone(a) \/ GiveUp(a)

TrustSpec == TrustInit /\ [][TrustNext]_trustVars

-----------------------------------------------------------------------------
TrustTypeOK ==
  /\ \A o \in Outputs :
       /\ row[o].state \in {"none", "pending", "confirmed", "conflict", "stale"}
       /\ row[o].confirmations \in 0..(1 + MaxSets) /\ row[o].sets \in 0..MaxSets
       /\ row[o].grounded \in BOOLEAN
       /\ indexed[o] \in Answers \union {NoAnswer}
  /\ \A a \in Actors : doing[a].listed = {} \/ doing[a].step # "none"

\* IncludePredicate in mode "verified", of an output that a search finds.
Visible(o) == o \in InState("confirmed") /\ indexed[o] # NoAnswer

\* A search shows an output with the answer that was filed, and only if the user promoted
\* it or it has its grounding and its agreeing answers, all of it since the sources last
\* changed under it: no demotion, crash, rejection or id that is used again lets one through.
TrustIsEarned ==
  \A o \in Outputs :
    Visible(o) => /\ indexed[o] = row[o].answer
                  /\ \/ o \in byUser
                     \/ row[o].grounded /\ row[o].confirmations >= Threshold

\* Two outputs that searches show contradict each other only if the user promoted one of
\* them.
OneTrustedAnswer ==
  \A o, p \in Outputs :
    Visible(o) /\ Visible(p) /\ row[o].answer # row[p].answer
      => {o, p} \intersect byUser # {}
=============================================================================
