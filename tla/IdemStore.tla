------------------------------ MODULE IdemStore ------------------------------
(* Writes with an Idempotency-Key (internal/api/idempotency.go): the first    *)
(* request of a key dispatches, those that come meanwhile wait for its        *)
(* response, and later ones get the stored one, until it expires or leaves    *)
(* the bounded store.                                                         *)
EXTENDS Integers, Sequences, SequencesExt

CONSTANTS
  Writers, NoWriter,     \* concurrent write requests
  IdemKeys, NoIdemKey,   \* Idempotency-Keys; a request without one just dispatches
  MaxEntries,            \* idemMaxEntries
  MaxHandled             \* bound: dispatches of a key

ASSUME IdemAssumption ==
  /\ MaxEntries \in Nat \ {0} /\ MaxHandled \in Nat
  /\ NoWriter \notin Writers /\ NoIdemKey \notin IdemKeys

VARIABLES
  lru,       \* idemStore.order: the keys that have an entry, least recently used first
  stale,     \* the keys whose entry is older than idemTTL
  inflight,  \* idemStore.inflight: the leader of each key's call
  writer,    \* each request: its key, and whom it waits for
  handled,   \* history: how often each key was dispatched
  lost       \* history: how often a fresh response of each key was lost

idemVars == <<lru, stale, inflight, writer, handled, lost>>

NoWrite == [at |-> "idle", key |-> NoIdemKey, on |-> NoWriter]

IdemInit ==
  /\ lru = <<>> /\ stale = {}
  /\ inflight = [k \in IdemKeys |-> NoWriter]
  /\ writer = [w \in Writers |-> NoWrite]
  /\ handled = [k \in IdemKeys |-> 0] /\ lost = [k \in IdemKeys |-> 0]

Stored(k) == k \in ToSet(lru)

\* The order without the entry of k.
Without(k) ==
  IF Stored(k) THEN RemoveAt(lru, CHOOSE i \in DOMAIN lru : lru[i] = k) ELSE lru
Waiting(w) == writer[w].at = "wait"

\* A key that was evicted or has expired while its response was fresh.
Losing(ks) == [k \in IdemKeys |-> IF k \in ks \ stale THEN lost[k] + 1 ELSE lost[k]]

-----------------------------------------------------------------------------
\* beginOrReplay with a fresh entry: the stored response, which is now the last used.
IdemReplay(w) ==
  /\ writer[w].at = "idle"
  /\ \E k \in IdemKeys :
       /\ Stored(k) /\ k \notin stale
       /\ lru' = Append(Without(k), k)
  /\ UNCHANGED <<stale, inflight, writer, handled, lost>>

LeadUnchecked(w) ==
  /\ writer[w].at = "idle"
  /\ \E k \in IdemKeys :
       /\ inflight[k] = NoWriter /\ handled[k] < MaxHandled
       /\ inflight' = [inflight EXCEPT ![k] = w]
       /\ writer' = [writer EXCEPT ![w] = [at |-> "dispatch", key |-> k, on |-> NoWriter]]
       /\ handled' = [handled EXCEPT ![k] = @ + 1]
  /\ UNCHANGED <<lru, stale, lost>>

\* beginOrReplay with no call under way: an expired entry is dropped, the caller leads.
Lead(w) ==
  /\ writer[w].at = "idle"
  /\ \E k \in IdemKeys :
       /\ Stored(k) => k \in stale
       /\ inflight[k] = NoWriter /\ handled[k] < MaxHandled
       /\ lru' = Without(k) /\ stale' = stale \ {k}
       /\ inflight' = [inflight EXCEPT ![k] = w]
       /\ writer' = [writer EXCEPT ![w] = [at |-> "dispatch", key |-> k, on |-> NoWriter]]
       /\ handled' = [handled EXCEPT ![k] = @ + 1]
  /\ UNCHANGED lost

\* beginOrReplay with a call under way: the caller waits for its leader.
Follow(w) ==
  /\ writer[w].at = "idle"
  /\ \E k \in IdemKeys :
       /\ Stored(k) => k \in stale
       /\ inflight[k] # NoWriter
       /\ lru' = Without(k) /\ stale' = stale \ {k}
       /\ writer' = [writer EXCEPT ![w] = [at |-> "wait", key |-> k, on |-> inflight[k]]]
  /\ UNCHANGED <<inflight, handled, lost>>

\* The followers of w have its response: they replay it and are done.
Woken(w) == [v \in Writers |-> IF v = w \/ writer[v].on = w THEN NoWrite ELSE writer[v]]

IdemFinishUnlessPanic(w) ==
  /\ writer[w].at = "dispatch"
  /\ writer' = [writer EXCEPT ![w] = NoWrite]
  /\ UNCHANGED <<lru, stale, inflight, handled, lost>>

\* finish: the response is stored, the least recently used one evicted, the call closed.
\* The response is the handler's, or the stored 500 of a handler that panicked.
IdemFinish(w) ==
  LET k == writer[w].key
      all == Append(Without(k), k)
      over == Len(all) > MaxEntries IN
  /\ writer[w].at = "dispatch"
  /\ lru' = IF over THEN Tail(all) ELSE all
  /\ lost' = IF over THEN Losing({Head(all)}) ELSE lost
  /\ stale' = (stale \ {k}) \intersect ToSet(lru')
  /\ inflight' = [inflight EXCEPT ![k] = NoWriter]
  /\ writer' = Woken(w)
  /\ UNCHANGED handled

\* A follower whose client hangs up leaves; the clock passes idemTTL.
HangUp(w) ==
  /\ Waiting(w)
  /\ writer' = [writer EXCEPT ![w] = NoWrite]
  /\ UNCHANGED <<lru, stale, inflight, handled, lost>>

ExpireEntry(k) ==
  /\ Stored(k) /\ k \notin stale
  /\ stale' = stale \union {k} /\ lost' = Losing({k})
  /\ UNCHANGED <<lru, inflight, writer, handled>>

-----------------------------------------------------------------------------
IdemNext ==
  \/ \E w \in Writers : IdemReplay(w) \/ Lead(w) \/ Follow(w) \/ IdemFinish(w) \/ HangUp(w)
  \/ \E k \in IdemKeys : ExpireEntry(k)

IdemSpec == IdemInit /\ [][IdemNext]_idemVars

-----------------------------------------------------------------------------
IdemTypeOK ==
  /\ ToSet(lru) \subseteq IdemKeys /\ IsInjective(lru) /\ Len(lru) <= MaxEntries
  /\ stale \subseteq ToSet(lru)
  /\ inflight \in [IdemKeys -> Writers \union {NoWriter}]
  /\ writer \in [Writers -> [at : {"idle", "dispatch", "wait"},
                             key : IdemKeys \union {NoIdemKey},
                             on : Writers \union {NoWriter}]]
  /\ handled \in [IdemKeys -> 0..MaxHandled] /\ lost \in [IdemKeys -> Nat]

\* A key is dispatched a second time only after its response was lost, and then once for
\* each loss, however its requests interleave.
DispatchedOnce == \A k \in IdemKeys : handled[k] <= 1 + lost[k]

\* A request that waits, waits for the dispatch of its own key, which will answer it when
\* its handler returns or panics: nobody waits for a call that has ended, or for another
\* key's response.
FollowersAreLed ==
  \A w \in Writers :
    Waiting(w) => LET leader == writer[w].on IN
                  /\ inflight[writer[w].key] = leader
                  /\ writer[leader].at = "dispatch" /\ writer[leader].key = writer[w].key
=============================================================================
