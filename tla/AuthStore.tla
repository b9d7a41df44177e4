------------------------------ MODULE AuthStore ------------------------------
(* The credential of one provider (internal/auth): the file with its lock     *)
(* (store.go, lockfile.go), the OS keychain in front of it (backend.go,       *)
(* keyring.go, migrate.go), and the refresh that rotates it at the provider   *)
(* (refresh.go, transport.go).  Processes log in and out, refresh, migrate.   *)
EXTENDS Integers, FiniteSets

CONSTANTS
  Clients,        \* processes
  MaxTokens,      \* bound: refresh tokens the provider issues, numbered; 0 is none
  MaxAuthFaults,  \* bound: crashes and lost answers
  AuthRaces       \* what may go wrong in time: "slow" (a live process outstays the lock's
                  \* staleThreshold), "steal" (two remove one stale lock), "migrate" (a
                  \* migration beside another operation), "mixed" (probes disagree)

ASSUME AuthAssumption ==
  /\ MaxTokens \in Nat \ {0} /\ MaxAuthFaults \in Nat
  /\ AuthRaces \subseteq {"slow", "steal", "migrate", "mixed"}

Backends == {"file", "keychain"}
Ops      == {"login", "refresh", "logout", "acknowledge", "migrate"}

VARIABLES
  via,        \* the backend that each process's probe found
  infile,     \* the credential in the file
  inkeys,     \* the credential in the keychain
  authlock,   \* the file's lock: none, fresh, or stale
  agent,      \* each process: its operation, where it stands, the credential it read or got
  issued,     \* tokens issued so far
  valid,      \* the tokens the provider honours
  faulted,    \* faults so far
  excused     \* history: a rotated token died with its process, or a logout reported failure

authVars == <<via, infile, inkeys, authlock, agent, issued, valid, faulted, excused>>

Rest == [op |-> "none", at |-> "idle", cred |-> 0]

AuthInit ==
  /\ via \in [Clients -> Backends]
  /\ "mixed" \notin AuthRaces => \A c, d \in Clients : via[c] = via[d]
  /\ inkeys = 0 /\ authlock = "none"
  /\ agent = [c \in Clients |-> Rest]
  /\ faulted = 0 /\ excused = FALSE
  /\ issued \in {0, 1} /\ valid = 1..issued /\ infile = issued  \* of an earlier login, to the file

Moves(c, at) == agent' = [agent EXCEPT ![c].at = at]
Rests(c)     == agent' = [agent EXCEPT ![c] = Rest]
Unlocked     == authlock' = "none"
In(c, op, at) == agent[c].op = op /\ agent[c].at = at

\* getWithBackend.
Get(b) == IF b = "keychain" /\ inkeys # 0 THEN inkeys ELSE infile

\* Which operations begin with the file's lock; the others begin with their own step.
Locks(c, op) == op \in {"refresh", "logout", "acknowledge"} \/ (op = "login" /\ via[c] = "file")

StartOp(c, op) ==
  /\ agent[c].at = "idle"
  /\ op = "migrate" => via[c] = "keychain"
  /\ "migrate" \notin AuthRaces =>
       \A d \in Clients : agent[d].op # "migrate" /\ (op = "migrate" => agent[d].at = "idle")
  /\ agent' = [agent EXCEPT ![c] = [op |-> op, at |-> IF Locks(c, op) THEN "lock" ELSE "read",
                                    cred |-> 0]]
  /\ UNCHANGED <<via, infile, inkeys, authlock, issued, valid, faulted, excused>>

-----------------------------------------------------------------------------
(* lockFile: a stale lock is removed, then an exclusive create that fails at *)
(* once when there is a lock.                                                *)

RemoveStale(c) ==
  /\ agent[c].at = "steal" \/ (agent[c].at = "lock" /\ authlock = "stale")
  /\ IF agent[c].at = "lock" /\ "steal" \in AuthRaces
     THEN Moves(c, "steal") /\ UNCHANGED authlock
     ELSE Moves(c, "create") /\ Unlocked
  /\ UNCHANGED <<via, infile, inkeys, issued, valid, faulted, excused>>

LockAnyway(c) ==
  /\ agent[c].at \in {"lock", "create"}
  /\ authlock' = "fresh" /\ Moves(c, "read")
  /\ UNCHANGED <<via, infile, inkeys, issued, valid, faulted, excused>>

Locked(c) ==
  /\ agent[c].at \in {"lock", "create"} /\ authlock = "none"
  /\ authlock' = "fresh" /\ Moves(c, "read")
  /\ UNCHANGED <<via, infile, inkeys, issued, valid, faulted, excused>>

\* A logout goes on to the keychain and reports the error.
LockRefused(c) ==
  /\ \/ agent[c].at = "lock" /\ authlock = "fresh"
     \/ agent[c].at = "create" /\ authlock # "none"
  /\ IF agent[c].op = "logout" THEN Moves(c, "forget") ELSE Rests(c)
  /\ excused' = (excused \/ agent[c].op = "logout")
  /\ UNCHANGED <<via, infile, inkeys, authlock, issued, valid, faulted>>

-----------------------------------------------------------------------------
(* putWithBackend, AcknowledgeTOS: read, change and write the whole file.    *)

ReadFile(c) ==
  /\ agent[c].at = "read"
  /\ agent[c].op \in {"logout", "acknowledge"} \/ (agent[c].op = "login" /\ via[c] = "file")
  /\ agent' = [agent EXCEPT ![c].at = "write", ![c].cred = infile]
  /\ UNCHANGED <<via, infile, inkeys, authlock, issued, valid, faulted, excused>>

Acknowledge(c) ==
  /\ In(c, "acknowledge", "write")
  /\ infile' = agent[c].cred /\ Unlocked /\ Rests(c)
  /\ UNCHANGED <<via, inkeys, issued, valid, faulted, excused>>

\* A login stores the token that the provider has just issued.
LoginFile(c) ==
  /\ In(c, "login", "write") /\ issued < MaxTokens
  /\ issued' = issued + 1 /\ valid' = valid \union {issued + 1}
  /\ infile' = issued + 1 /\ Unlocked /\ Rests(c)
  /\ UNCHANGED <<via, inkeys, faulted, excused>>

LoginKeychain(c) ==
  /\ In(c, "login", "read") /\ via[c] = "keychain" /\ issued < MaxTokens
  /\ issued' = issued + 1 /\ valid' = valid \union {issued + 1}
  /\ inkeys' = issued + 1 /\ Rests(c)
  /\ UNCHANGED <<via, infile, authlock, faulted, excused>>

\* deleteWithBackend: the file's entry under the lock, then the keychain's.
LogoutFile(c) ==
  /\ In(c, "logout", "write")
  /\ infile' = 0 /\ Unlocked /\ Moves(c, "forget")
  /\ UNCHANGED <<via, inkeys, issued, valid, faulted, excused>>

LogoutKeychain(c) ==
  /\ In(c, "logout", "forget")
  /\ inkeys' = IF via[c] = "keychain" THEN 0 ELSE inkeys
  /\ Rests(c)
  /\ UNCHANGED <<via, infile, authlock, issued, valid, faulted, excused>>

-----------------------------------------------------------------------------
(* RefreshAndGet: on the file the lock is held throughout, on the keychain   *)
(* for the read.                                                             *)

RefreshReads(c) ==
  /\ In(c, "refresh", "read")
  /\ agent' = [agent EXCEPT ![c].at = "ask", ![c].cred = Get(via[c])]
  /\ IF via[c] = "keychain" THEN Unlocked ELSE UNCHANGED authlock
  /\ UNCHANGED <<via, infile, inkeys, issued, valid, faulted, excused>>

Release(c) == IF via[c] = "file" THEN Unlocked ELSE UNCHANGED authlock

\* The provider takes the token back and issues another, or refuses one it does not honour.
Rotated(c) ==
  /\ In(c, "refresh", "ask") /\ agent[c].cred \in valid /\ issued < MaxTokens
  /\ issued' = issued + 1 /\ valid' = (valid \ {agent[c].cred}) \union {issued + 1}
  /\ agent' = [agent EXCEPT ![c].at = "store", ![c].cred = issued + 1]
  /\ UNCHANGED <<via, infile, inkeys, authlock, faulted, excused>>

Refused(c) ==
  /\ In(c, "refresh", "ask") /\ agent[c].cred \notin valid
  /\ Rests(c) /\ Release(c)
  /\ UNCHANGED <<via, infile, inkeys, issued, valid, faulted, excused>>

\* refreshAndStore.
StoresRotated(c) ==
  /\ In(c, "refresh", "store")
  /\ IF via[c] = "keychain" THEN inkeys' = agent[c].cred /\ UNCHANGED infile
     ELSE infile' = agent[c].cred /\ UNCHANGED inkeys
  /\ Rests(c) /\ Release(c)
  /\ UNCHANGED <<via, issued, valid, faulted, excused>>

-----------------------------------------------------------------------------
(* MigrateToKeychain: the file is read without its lock, the keychain is     *)
(* looked at, and the copy is stored when it has no entry.                   *)

MigrateReads(c) ==
  /\ In(c, "migrate", "read")
  /\ agent' = [agent EXCEPT ![c].at = "look", ![c].cred = infile]
  /\ UNCHANGED <<via, infile, inkeys, authlock, issued, valid, faulted, excused>>

MigrateOverwrites(c) ==
  /\ In(c, "migrate", "look")
  /\ IF agent[c].cred # 0 THEN Moves(c, "copy") ELSE Rests(c)
  /\ UNCHANGED <<via, infile, inkeys, authlock, issued, valid, faulted, excused>>

MigrateLooks(c) ==
  /\ In(c, "migrate", "look")
  /\ IF agent[c].cred # 0 /\ inkeys = 0 THEN Moves(c, "copy") ELSE Rests(c)
  /\ UNCHANGED <<via, infile, inkeys, authlock, issued, valid, faulted, excused>>

MigrateCopies(c) ==
  /\ In(c, "migrate", "copy")
  /\ inkeys' = agent[c].cred /\ Rests(c)
  /\ UNCHANGED <<via, infile, authlock, issued, valid, faulted, excused>>

-----------------------------------------------------------------------------
(* A process dies, or the provider's answer is lost, and the lock is left or *)
(* released.  A lock that is left goes stale.                                *)

AgentDies(c) ==
  /\ agent[c].at # "idle" /\ faulted < MaxAuthFaults
  /\ faulted' = faulted + 1
  /\ excused' = (excused \/ agent[c].op = "logout" \/ In(c, "refresh", "store"))
  /\ Rests(c)
  /\ UNCHANGED <<via, infile, inkeys, authlock, issued, valid>>

HasFileLock(c) ==
  \/ agent[c].at \in {"read", "write"} /\ Locks(c, agent[c].op)
  \/ agent[c].op = "refresh" /\ via[c] = "file" /\ agent[c].at \in {"ask", "store"}

LockAges ==
  /\ authlock = "fresh"
  /\ "slow" \in AuthRaces \/ \A c \in Clients : ~HasFileLock(c)
  /\ authlock' = "stale"
  /\ UNCHANGED <<via, infile, inkeys, agent, issued, valid, faulted, excused>>

-----------------------------------------------------------------------------
AuthNext ==
  \/ \E c \in Clients :
       \/ \E op \in Ops : StartOp(c, op)
       \/ RemoveStale(c) \/ Locked(c) \/ LockRefused(c)
       \/ ReadFile(c) \/ Acknowledge(c) \/ LoginFile(c) \/ LoginKeychain(c)
       \/ LogoutFile(c) \/ LogoutKeychain(c)
       \/ RefreshReads(c) \/ Rotated(c) \/ Refused(c) \/ StoresRotated(c)
       \/ MigrateReads(c) \/ MigrateLooks(c) \/ MigrateCopies(c) \/ AgentDies(c)
  \/ LockAges

AuthSpec == AuthInit /\ [][AuthNext]_authVars

-----------------------------------------------------------------------------
AuthTypeOK ==
  /\ via \in [Clients -> Backends]
  /\ infile \in 0..MaxTokens /\ inkeys \in 0..MaxTokens /\ issued \in 0..MaxTokens
  /\ valid \subseteq 1..issued /\ authlock \in {"none", "fresh", "stale"}
  /\ agent \in [Clients -> [op : Ops \union {"none"}, cred : 0..MaxTokens,
                            at : {"idle", "lock", "steal", "create", "read", "write", "ask",
                                  "store", "forget", "look", "copy"}]]
  /\ faulted \in 0..MaxAuthFaults /\ excused \in BOOLEAN

\* Once no process holds a token that is not yet stored, the credential that a process
\* reads is one that the provider honours, whatever was rotated, migrated, acknowledged
\* and left in the file: unless the rotated token died with its process, or a logout said
\* that it was not complete.
StoredTokenIsLive ==
  excused \/ (\E c \in Clients : In(c, "refresh", "store"))
          \/ \A c \in Clients : Get(via[c]) \in valid \union {0}
=============================================================================
