----------------------------- MODULE EntityAliases -----------------------------
(* Entity resolution (internal/ontology/aliases.go, derived.go;                *)
(* internal/compiler/resolve_entities.go; `ontology resolve`): links between   *)
(* surface forms of one entity, the edges derived from them, the sweep that    *)
(* rebuilds those, the compile's pass that proposes links, and the commands    *)
(* of the user who decides them.  Entities are of one type, edges of one       *)
(* relation; the model's answers are arbitrary.                                *)
EXTENDS Integers, FiniteSets

CONSTANTS
  Entities,       \* ids, in the order of ListAliases
  FileEntities,   \* entities of type source: never resolved
  Edges,          \* the edges that documents may assert
  Prunable,       \* the entities that --prune and reconcile may delete
  MaxSweepPasses, \* bound of the sweep's replay
  Compiles,       \* the processes that compile: each has its own pass
  AliasRaces      \* "decide": the user decides a pair while a pass holds its snapshot;
                  \* "passes": two passes hold a snapshot at the same time;
                  \* "overlap": a command decides between the checks and the link of --apply;
                  \* "twice": two sweeps run at the same time

Nodes    == Entities \union FileEntities
Statuses == {"none", "pending", "applied", "rejected"}
Sweepers == Compiles \union {"cli"}

ASSUME AliasAssumption ==
  /\ IsFiniteSet(Entities) /\ Entities \subseteq Nat
  /\ FileEntities \subseteq Nat /\ Entities \intersect FileEntities = {}
  /\ Edges \subseteq Nodes \X Nodes /\ \A e \in Edges : e[1] # e[2]
  /\ Prunable \subseteq Nodes /\ "cli" \notin Compiles
  /\ AliasRaces \subseteq {"decide", "passes", "overlap", "twice"}
  /\ MaxSweepPasses \in Nat \ {0}

VARIABLES
  decision,    \* entity_aliases: the status of each pair <<alias, canonical>>
  known,       \* entities
  asserted,    \* relations
  derived,     \* derived_relations: <<the alias that caused it, source, target>>
  sweep,       \* the sweep that a compile, or a command, may run
  pass,        \* ResolveEntitiesPass of each compile: what it has read, and proposed
  checked,     \* the proposals that an --apply has checked, and not yet linked
  rebuilt      \* history: whether derived follows the rest: "stale"; "sweeping", if no
               \* change comes before the sweep's end; "exact"

aliasVars == <<decision, known, asserted, derived, sweep, pass, checked, rebuilt>>

NoSweep == [at |-> "idle", links |-> {}, rejected |-> {}, todo |-> {}, copied |-> FALSE,
            passes |-> 0]
NoPass  == [at |-> "idle", seeds |-> {}, blocks |-> {}, links |-> {}, rejected |-> {},
            awaiting |-> {}, proposed |-> {}]

AliasInit ==
  /\ decision = [p \in Entities \X Entities |-> "none"]
  /\ known = Nodes /\ asserted = {} /\ derived = {}
  /\ sweep = [s \in Sweepers |-> NoSweep] /\ pass = [d \in Compiles |-> NoPass]
  /\ checked = {} /\ rebuilt = "exact"

-----------------------------------------------------------------------------
(* Links, and what they unify.                                               *)

With(status)  == {p \in DOMAIN decision : decision[p] = status}
Pairs(links)  == {{p[1], p[2]} : p \in links}
Active(a)     == {p \in With("applied") \union With("pending") : p[1] = a}

Neighbours(links, S) == {e \in Entities : \E x \in S : {e, x} \in Pairs(links)}

\* aliasGraph.cluster: everything linked to e, by whatever route.
Cluster(links, e) ==
  LET grown[n \in 0..Cardinality(Entities)] ==
        IF n = 0 THEN {e} ELSE grown[n - 1] \union Neighbours(links, grown[n - 1])
  IN  grown[Cardinality(Entities)]

\* CanonicalID: the end of e's chain; e itself on a cycle.
Terminal(links, e) ==
  LET next(x) == IF \E p \in links : p[1] = x THEN (CHOOSE p \in links : p[1] = x)[2] ELSE x
      walk[n \in 0..Cardinality(Entities)] == IF n = 0 THEN e ELSE next(walk[n - 1])
      end == walk[Cardinality(Entities)]
  IN  IF next(end) = end THEN end ELSE e

PairConflictDirect(links, rejected, awaiting, a, c, except) ==
  {a, c} \in rejected \union (awaiting \ {except})

\* pairConflictExcept: the clusters of a and c hold a pair that the user owns.
PairConflict(links, rejected, awaiting, a, c, except) ==
  \E m \in Cluster(links, a), l \in Cluster(links, c) :
     \/ {m, l} \in rejected
     \/ {m, l} \in awaiting \ {except}

-----------------------------------------------------------------------------
(* LinkAlias and PutAlias.                                                   *)

Move(a, c, x) == IF x = a THEN c ELSE x
DerivedEdges  == {<<d[2], d[3]>> : d \in derived}

\* The copies of a's edges on c that nothing asserts and this link has not derived.
DerivedCopies(a, c) ==
  LET moved == {<<Move(a, c, e[1]), Move(a, c, e[2])>> :
                  e \in {e \in asserted \union DerivedEdges : a \in {e[1], e[2]}}}
  IN  {<<a, e[1], e[2]>> : e \in {e \in moved : e[1] # e[2] /\ e \notin asserted}} \ derived

Sweeping     == \E s \in Sweepers : sweep[s] # NoSweep
MaySweep(s)  == sweep[s] = NoSweep /\ (Sweeping => "twice" \in AliasRaces)

\* The row may be written: the pair is not rejected, the alias has no other active row.
MayLink(a, c) ==
  /\ {a, c} \subseteq known
  /\ decision[<<a, c>>] # "rejected"
  /\ Active(a) \subseteq {<<a, c>>}

LinkAlias(a, c) ==
  IF MayLink(a, c)
  THEN /\ derived' = derived \union DerivedCopies(a, c)
       /\ decision' = [decision EXCEPT ![<<a, c>>] = "applied"]
  ELSE UNCHANGED <<derived, decision>>

PutPending(a, c) ==
  decision' = [decision EXCEPT ![<<a, c>>] =
                 IF @ # "rejected" /\ Active(a) \subseteq {<<a, c>>} THEN "pending" ELSE @]

-----------------------------------------------------------------------------
(* What documents, MCP tools, --prune and reconcile do to the graph.         *)

AddRelation(e) ==
  /\ e \notin asserted /\ {e[1], e[2]} \subseteq known
  /\ asserted' = asserted \union {e} /\ rebuilt' = "stale"
  /\ UNCHANGED <<decision, known, derived, sweep, pass, checked>>

\* Edges follow their end points; alias rows stay.
DeleteEntity(e) ==
  /\ e \in known \intersect Prunable
  /\ known' = known \ {e} /\ rebuilt' = "stale"
  /\ asserted' = {r \in asserted : e \notin {r[1], r[2]}}
  /\ derived'  = {r \in derived : e \notin {r[2], r[3]}}
  /\ UNCHANGED <<decision, sweep, pass, checked>>

AddEntity(e) ==
  /\ e \notin known
  /\ known' = known \union {e} /\ rebuilt' = "stale"
  /\ UNCHANGED <<decision, asserted, derived, sweep, pass, checked>>

-----------------------------------------------------------------------------
(* The sweep.                                                                *)

\* sweepAliases lists the approved links.
Listed == [NoSweep EXCEPT !.at = "listed", !.links = With("applied")]

Done(s) == sweep' = [sweep EXCEPT ![s] = NoSweep]
           /\ rebuilt' = IF rebuilt = "sweeping" THEN "exact" ELSE rebuilt

\* Without links nothing justifies a derived edge; else the rebuild starts.
SweepClears(s) ==
  /\ sweep[s].at = "listed"
  /\ derived' = {}
  /\ IF sweep[s].links = {} THEN Done(s)
     ELSE /\ sweep' = [sweep EXCEPT ![s].at = "replay", ![s].rejected = Pairs(With("rejected")),
                                    ![s].todo = sweep[s].links]
          /\ UNCHANGED rebuilt
  /\ UNCHANGED <<decision, known, asserted, pass, checked>>

\* The next link in the order of ListAliases; a rejected pair is skipped.
NextLink(s, p) == p \in sweep[s].todo /\ \A q \in sweep[s].todo : p[1] <= q[1]

SweepLinks(s, p) ==
  /\ NextLink(s, p)
  /\ LET skip == {p[1], p[2]} \in sweep[s].rejected
         new  == ~skip /\ MayLink(p[1], p[2]) /\ DerivedCopies(p[1], p[2]) # {} IN
     /\ IF skip THEN UNCHANGED <<derived, decision>> ELSE LinkAlias(p[1], p[2])
     /\ sweep' = [sweep EXCEPT ![s].todo = @ \ {p}, ![s].copied = @ \/ new]
  /\ UNCHANGED <<known, asserted, pass, checked, rebuilt>>

\* LinkAlias fails: logged and counted.
SweepLinkFails(s, p) ==
  /\ NextLink(s, p)
  /\ sweep' = [sweep EXCEPT ![s].todo = @ \ {p}] /\ rebuilt' = "stale"
  /\ UNCHANGED <<decision, known, asserted, derived, pass, checked>>

SweepOnePass(s) ==
  /\ sweep[s].at = "replay" /\ sweep[s].todo = {}
  /\ Done(s)
  /\ UNCHANGED <<decision, known, asserted, derived, pass, checked>>

SweepUncapped(s) ==
  /\ sweep[s].at = "replay" /\ sweep[s].todo = {}
  /\ IF sweep[s].copied
     THEN /\ sweep' = [sweep EXCEPT ![s].todo = sweep[s].links, ![s].copied = FALSE,
                                    ![s].passes = @ + 1]
          /\ UNCHANGED rebuilt
     ELSE Done(s)
  /\ UNCHANGED <<decision, known, asserted, derived, pass, checked>>

\* A pass that derived something is followed by another, to a fixpoint or the cap.
SweepPassEnds(s) ==
  /\ sweep[s].at = "replay" /\ sweep[s].todo = {}
  /\ IF sweep[s].copied /\ sweep[s].passes + 1 < MaxSweepPasses
     THEN /\ sweep' = [sweep EXCEPT ![s].todo = sweep[s].links, ![s].copied = FALSE,
                                    ![s].passes = @ + 1]
          /\ UNCHANGED rebuilt
     ELSE Done(s)
  /\ UNCHANGED <<decision, known, asserted, derived, pass, checked>>

\* A cancelled context, or the end of the process.
SweepStops(s) ==
  /\ sweep[s].at # "idle"
  /\ sweep' = [sweep EXCEPT ![s] = NoSweep] /\ rebuilt' = "stale"
  /\ UNCHANGED <<decision, known, asserted, derived, pass, checked>>

-----------------------------------------------------------------------------
(* ResolveEntitiesPass.                                                      *)

Reading == {d \in Compiles : pass[d].at = "arbitrate"}

\* The sweep comes first, whatever the configuration.
BeginPass(d) ==
  /\ pass[d] = NoPass /\ MaySweep(d)
  /\ sweep' = [sweep EXCEPT ![d] = Listed] /\ rebuilt' = "sweeping"
  /\ pass' = [pass EXCEPT ![d] = [NoPass EXCEPT !.at = "sweep"]]
  /\ UNCHANGED <<decision, known, asserted, derived, checked>>

\* Seeds are touched and undecided; a block is a seed with the entities that no row
\* pairs it with.  Rejections, proposals and links are read once.  Nothing to
\* arbitrate, or no resolution configured: the pass is over.
LoadSnapshot(d, touched) ==
  /\ pass[d].at = "sweep" /\ sweep[d] = NoSweep
  /\ Reading # {} => "passes" \in AliasRaces
  /\ checked # {} => "decide" \in AliasRaces
  /\ LET rows  == With("applied") \union With("pending") \union With("rejected")
         seeds == {e \in touched \intersect known : Active(e) = {}}
         block(e) == {e} \union {c \in Entities \intersect known : {e, c} \notin Pairs(rows)} IN
     pass' = [pass EXCEPT ![d] =
                IF seeds = {} THEN NoPass
                ELSE [@ EXCEPT !.at = "arbitrate", !.seeds = seeds,
                        !.blocks = {block(e) : e \in seeds}, !.links = With("applied"),
                        !.rejected = Pairs(With("rejected")),
                        !.awaiting = Pairs(With("pending"))]]
  /\ UNCHANGED <<decision, known, asserted, derived, sweep, checked, rebuilt>>

\* applyClusters, for one member of a cluster and its elected canonical.  A canonical
\* that is an alias stands for its terminal; when that is a ghost, gone or unreadable, the
\* proposal is queued against the canonical itself.
Propose(d, a, c, certain, ghost) ==
  LET end    == Terminal(With("applied"), c)
      target == IF ghost THEN c ELSE end IN
  /\ pass[d].at = "arbitrate" /\ a # c
  /\ \E b \in pass[d].blocks : {a, c} \subseteq b
  /\ a \notin pass[d].proposed /\ Active(a) = {}
  /\ end # a /\ {a, end} \intersect pass[d].seeds # {}
  /\ ~PairConflict(pass[d].links, pass[d].rejected, pass[d].awaiting, a, end, {})
  /\ ghost => end # c
  /\ end \notin known => ghost \/ end = c
  /\ IF certain /\ ~ghost
     THEN /\ MayLink(a, target) /\ LinkAlias(a, target) /\ rebuilt' = "stale"
          /\ pass' = [pass EXCEPT ![d].proposed = @ \union {a},
                                  ![d].links = @ \union {<<a, target>>}]
     ELSE /\ PutPending(a, target)
          /\ pass' = [pass EXCEPT ![d].proposed = @ \union {a},
                                  ![d].awaiting = @ \union {{a, target}}]
          /\ UNCHANGED <<derived, rebuilt>>
  /\ UNCHANGED <<known, asserted, sweep, checked>>

\* The blocks are done, or the context is cancelled, or the process has died.
EndPass(d) ==
  /\ pass[d].at = "arbitrate"
  /\ pass' = [pass EXCEPT ![d] = NoPass]
  /\ UNCHANGED <<decision, known, asserted, derived, sweep, checked, rebuilt>>

-----------------------------------------------------------------------------
(* `ontology resolve`, each command in a process of its own.                 *)

MayDecide == /\ Reading # {} => "decide" \in AliasRaces
             /\ checked # {} => "overlap" \in AliasRaces

SetRejected(links) ==
  decision' = [p \in DOMAIN decision |-> IF p \in links THEN "rejected" ELSE decision[p]]

\* --apply reads the row, the rejections, the chain of the canonical and the links one
\* after the other: not a rejected pair, no cycle, nothing unified that the user keeps
\* apart.
CheckProposal(a, c) ==
  LET links == With("applied")
      end   == Terminal(links, c) IN
  /\ MayDecide /\ decision[<<a, c>>] = "pending"
  /\ {a, c} \notin Pairs(With("rejected")) /\ end # a
  /\ ~PairConflict(links, Pairs(With("rejected")), Pairs(With("pending")), a, end, {a, c})
  /\ checked' = checked \union {<<a, c>>}
  /\ UNCHANGED <<decision, known, asserted, derived, sweep, pass, rebuilt>>

\* Its link: the transaction reads the row and the entities again, and nothing else.
Apply(a, c) ==
  /\ <<a, c>> \in checked
  /\ MayLink(a, c) /\ LinkAlias(a, c) /\ rebuilt' = "stale"
  /\ checked' = checked \ {<<a, c>>}
  /\ UNCHANGED <<known, asserted, sweep, pass>>

\* LinkAlias fails or refuses, or the process dies.
ApplyFails(a, c) ==
  /\ <<a, c>> \in checked
  /\ checked' = checked \ {<<a, c>>}
  /\ UNCHANGED <<decision, known, asserted, derived, sweep, pass, rebuilt>>

\* --reject: the active row, and, if the command gets that far, the one that points the
\* other way.  Nothing is undone.
Reject(a, c, both) ==
  /\ MayDecide /\ <<a, c>> \in Active(a)
  /\ SetRejected({<<a, c>>} \union (IF both THEN Active(c) \intersect {<<c, a>>} ELSE {}))
  /\ rebuilt' = "stale"
  /\ UNCHANGED <<known, asserted, derived, sweep, pass, checked>>

\* --unlink: the edges of the link go, the pair is rejected, and a sweep follows.
Unlink(a, c) ==
  /\ MayDecide /\ MaySweep("cli") /\ decision[<<a, c>>] = "applied"
  /\ derived' = {d \in derived : d[1] # a}
  /\ SetRejected({<<a, c>>})
  /\ sweep' = [sweep EXCEPT !["cli"] = [Listed EXCEPT !.links = @ \ {<<a, c>>}]]
  /\ rebuilt' = "sweeping"
  /\ UNCHANGED <<known, asserted, pass, checked>>

\* --sweep.
SweepCommand ==
  /\ MaySweep("cli")
  /\ sweep' = [sweep EXCEPT !["cli"] = Listed] /\ rebuilt' = "sweeping"
  /\ UNCHANGED <<decision, known, asserted, derived, pass, checked>>

AliasNext ==
  \/ \E e \in Edges : AddRelation(e)
  \/ \E e \in Prunable : DeleteEntity(e) \/ AddEntity(e)
  \/ \E s \in Sweepers :
       \/ SweepClears(s) \/ SweepPassEnds(s) \/ SweepStops(s)
       \/ \E p \in sweep[s].todo : SweepLinks(s, p) \/ SweepLinkFails(s, p)
  \/ \E d \in Compiles : \/ BeginPass(d) \/ EndPass(d)
                         \/ \E touched \in SUBSET Entities : LoadSnapshot(d, touched)
  \/ SweepCommand
  \/ \E a, c \in Entities :
       \/ \E d \in Compiles, certain, ghost \in BOOLEAN : Propose(d, a, c, certain, ghost)
       \/ \E both \in BOOLEAN : Reject(a, c, both)
       \/ CheckProposal(a, c) \/ Apply(a, c) \/ ApplyFails(a, c) \/ Unlink(a, c)

AliasSpec == AliasInit /\ [][AliasNext]_aliasVars

-----------------------------------------------------------------------------
AliasTypeOK ==
  /\ decision \in [Entities \X Entities -> Statuses]
  /\ \A a \in Entities : Cardinality(Active(a)) <= 1
  /\ known \subseteq Nodes /\ asserted \subseteq Edges
  /\ derived \subseteq Entities \X Nodes \X Nodes
  /\ \A s \in Sweepers : /\ sweep[s].todo \subseteq sweep[s].links
                        /\ sweep[s].passes \in 0..(MaxSweepPasses - 1)
  /\ \A d \in Compiles : pass[d].at \in {"idle", "sweep", "arbitrate"}
  /\ checked \subseteq Entities \X Entities /\ rebuilt \in {"stale", "sweeping", "exact"}

\* The links form a forest, and no route through them joins two entities that the user
\* keeps apart or has yet to decide on: neither the proposals of compiles nor --apply, in
\* any order with --reject and --unlink.
RejectedStayApart ==
  /\ \A p \in With("applied") : p[1] \notin Cluster(With("applied") \ {p}, p[2])
  /\ \A p \in With("rejected") \union With("pending") :
       p[2] \notin Cluster(With("applied"), p[1])

\* What the approved links derive from the asserted edges, in no order.
Justified ==
  LET live == {p \in With("applied") : {p[1], p[2]} \subseteq known}
      from(E) == {<<Move(p[1], p[2], e[1]), Move(p[1], p[2], e[2])>> : p \in live, e \in E}
      grown[n \in 0..(Cardinality(Entities) * 2)] ==
        IF n = 0 THEN asserted
        ELSE grown[n - 1] \union {e \in from(grown[n - 1]) : e[1] # e[2]}
  IN  grown[Cardinality(Entities) * 2] \ asserted

\* After a sweep, and until something changes, the derived edges are exactly those that
\* the approved links justify: chains are followed to their end whatever the order of
\* the rows, and nothing is left of a link that was undone.
SweptGraphIsExact ==
  rebuilt = "exact" => DerivedEdges \ asserted = Justified
=============================================================================
