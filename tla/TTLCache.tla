------------------------------ MODULE TTLCache ------------------------------
(***************************************************************************)
(* One key of synq.TTLCache: entries and expirations are two maps, changed *)
(* one after the other and without a lock over both, while a goroutine     *)
(* collects what has expired (pkg/synq/ttlcache.go).  The users are those  *)
(* of the DNS manager and of the cache of scans.  Time is abstracted to    *)
(* whether an expiration lies ahead (fresh) or has passed (old).           *)
(***************************************************************************)
EXTENDS Naturals

CONSTANTS
    CacheUsers,   \* goroutines, each with one operation
    CacheOps      \* the operations they may have

VARIABLES
    entry,        \* the key has an entry
    expiration,   \* none, fresh or old
    gc,           \* where GCExpired is with the key: idle, copied or deleted
    user,         \* the operation of each goroutine and where it is
    crossed       \* history: a map was written while the key was collected

cacheVars == <<entry, expiration, gc, user, crossed>>

CacheInit ==
    /\ entry = FALSE /\ expiration = "none" /\ gc = "idle" /\ crossed = FALSE
    /\ user \in [CacheUsers -> {[op |-> o, at |-> "begin"] : o \in CacheOps}]

Age ==
    /\ expiration = "fresh" /\ expiration' = "old"
    /\ UNCHANGED <<entry, gc, user, crossed>>

-----------------------------------------------------------------------------
\* Mutant: what has an expiration is collected.
ExpiredAny == expiration # "none"

Expired == expiration = "old"

\* GCExpired: the copy of the expirations, and the two deletes.
CopyExpirations ==
    /\ gc = "idle" /\ Expired
    /\ gc' = "copied"
    /\ UNCHANGED <<entry, expiration, user, crossed>>

DeleteEntry ==
    /\ gc = "copied" /\ gc' = "deleted"
    /\ entry' = FALSE
    /\ UNCHANGED <<expiration, user, crossed>>

DeleteExpiration ==
    /\ gc = "deleted" /\ gc' = "idle"
    /\ expiration' = "none"
    /\ UNCHANGED <<entry, user, crossed>>

GCExpired == CopyExpirations \/ DeleteEntry \/ DeleteExpiration

-----------------------------------------------------------------------------
GotoU(u, at) == user' = [user EXCEPT ![u].at = at]
Writes == crossed' = (crossed \/ gc # "idle")

\* DNSManager.set and LoadAndRenew look first; Store and ExpireRecord do not.
LoadEntry(u) ==
    /\ user[u].at = "begin" /\ user[u].op \in {"set", "LoadAndRenew"}
    /\ GotoU(u, CASE entry -> "renew"
                  [] ~entry /\ user[u].op = "set" -> "entry"
                  [] OTHER -> "end")
    /\ UNCHANGED <<entry, expiration, gc, crossed>>

BeginStore(u) ==
    /\ user[u].at = "begin" /\ user[u].op = "Store"
    /\ GotoU(u, "entry")
    /\ UNCHANGED <<entry, expiration, gc, crossed>>

ExpireRecord(u) ==
    /\ user[u].at = "begin" /\ user[u].op = "ExpireRecord"
    /\ expiration' = "old" /\ Writes
    /\ GotoU(u, "end")
    /\ UNCHANGED <<entry, gc>>

Renewed == "fresh"

\* Store
StoreEntry(u) ==
    /\ user[u].at = "entry"
    /\ entry' = TRUE /\ Writes
    /\ GotoU(u, "renew")
    /\ UNCHANGED <<expiration, gc>>

\* The second half of Store, and Renew.
StoreExpiration(u) ==
    /\ user[u].at = "renew"
    /\ expiration' = Renewed /\ Writes
    /\ GotoU(u, "end")
    /\ UNCHANGED <<entry, gc>>

UserStep(u) ==
    LoadEntry(u) \/ BeginStore(u) \/ ExpireRecord(u) \/ StoreEntry(u) \/ StoreExpiration(u)

CacheNext == Age \/ GCExpired \/ \E u \in CacheUsers : UserStep(u)

-----------------------------------------------------------------------------
\* An entry is removed only when its expiration has passed, also while other
\* operations are between the two maps; excepted is an operation that crosses the
\* collection of the key, whose entry goes with it (ttlcache.go:66).
FreshStays ==
    [][entry /\ expiration = "fresh" /\ ~crossed => entry']_cacheVars

=============================================================================
