-------------------------- MODULE LoginRateLimiter --------------------------
(***************************************************************************)
(* The login rate limiter of apps/api/src/auth/rate-limit.ts: one bucket   *)
(* for each address, each account and the whole server, each counting the  *)
(* attempts admitted in a window that starts when the bucket is made.  The *)
(* table holds at most MaxEntries buckets; a new one then displaces the    *)
(* bucket seen longest ago, but never the server's.                        *)
(*                                                                         *)
(* The route (auth/routes.ts) asks it before each login and resets the     *)
(* account's bucket when a login succeeds, however long ago that login was *)
(* admitted: passwords are verified asynchronously.                        *)
(*                                                                         *)
(* Among buckets last seen at the same instant the code displaces the one  *)
(* inserted first; the model lets any of them go.                          *)
(***************************************************************************)
EXTENDS AccessClock, Integers, FiniteSets

CONSTANTS
  Addresses,                      \* the peers
  Window,                         \* windowMs
  PerIp, PerAccount, PerServer,   \* the thresholds (perIp, perAccount, global)
  MaxEntries

ASSUME LimiterAssumption ==
  /\ {Window, PerIp, PerAccount, PerServer} \subseteq Nat \ {0}
  /\ MaxEntries \in Nat /\ MaxEntries >= 3

VARIABLES
  buckets,   \* the Map: a bucket or None for each key
  admitted   \* history: how many of each key's attempts of the last window
             \* were admitted at each instant, forgotten with its own bucket

IpKey(ip)     == <<"ip", ip>>
AccountKey(a) == <<"account", a>>
ServerKey     == <<"global", None>>
Keys == ({"ip"} \X Addresses) \union ({"account"} \X Accounts) \union {ServerKey}

Bucket == [count : Nat, resetAt : Nat, lastSeen : Nat]

ASSUME NoBucketAssumption == None \notin Bucket

Threshold(k) ==
  CASE k[1] = "ip" -> PerIp [] k[1] = "account" -> PerAccount [] OTHER -> PerServer

Table == [Keys -> Bucket \union {None}]
Held(b) == {k \in Keys : b[k] # None}
Put(b, k, e) == [o \in Keys |-> IF o = k THEN e ELSE b[o]]
Count(b, k) == IF b[k] = None THEN 0 ELSE b[k].count

-----------------------------------------------------------------------------
\* prune: every consume starts by dropping the buckets whose window is over.
Pruned(b) ==
  [k \in Keys |-> IF b[k] # None /\ b[k].resetAt <= now THEN None ELSE b[k]]

\* Mutant: displaces the bucket seen most recently.
Evictable_Newest(b) ==
  {k \in Held(b) \ {ServerKey} :
     \A o \in Held(b) \ {ServerKey} : b[k].lastSeen >= b[o].lastSeen}

\* The buckets that may be displaced: those seen longest ago.
Evictable(b) ==
  {k \in Held(b) \ {ServerKey} :
     \A o \in Held(b) \ {ServerKey} : b[k].lastSeen <= b[o].lastSeen}

\* Mutant: makes room one entry too late.
MadeRoom_Late(b) ==
  IF Cardinality(Held(b)) <= MaxEntries THEN {b}
  ELSE {Put(b, k, None) : k \in Evictable(b)}

\* evictIfNeeded.  The table never exceeds MaxEntries, so the loop turns at
\* most once.
MadeRoom(b) ==
  IF Cardinality(Held(b)) < MaxEntries THEN {b}
  ELSE {Put(b, k, None) : k \in Evictable(b)}

\* Mutant: every look at a bucket starts its window again.
Touched_Sliding(b, k) ==
  {Put(c, k, [count |-> Count(b, k), resetAt |-> now + Window, lastSeen |-> now]) :
     c \in IF b[k] = None THEN MadeRoom(b) ELSE {b}}

\* bucket(): the table once k's bucket has been found or made.
Touched(b, k) ==
  IF b[k] # None THEN {Put(b, k, [b[k] EXCEPT !.lastSeen = now])}
  ELSE {Put(c, k, [count |-> 0, resetAt |-> now + Window, lastSeen |-> now]) :
          c \in MadeRoom(b)}

Counted(b, k) == {Put(c, k, [c[k] EXCEPT !.count = @ + 1]) : c \in Touched(b, k)}

\* Mutant: admits one attempt beyond the threshold.
Full_OffByOne(b, k) == b[k].count > Threshold(k)

Full(b, k) == b[k].count >= Threshold(k)

\* The attempts of k admitted after instant t, told apart by their number
\* within the instant; those of the last window.
After(k, t) == UNION {{u} \X (1 .. admitted[k][u]) : u \in {v \in Time : v > t}}
Recent(k) == After(k, now - Window)

\* The history once the attempts of the keys req are admitted at this instant:
\* displacing or resetting k's bucket forgets k's attempts.
History(req) ==
  [k \in Keys |->
     LET kept == \/ k = ServerKey
                 \/ Count(buckets', k)
                      = Count(Pruned(buckets), k) + (IF k \in req THEN 1 ELSE 0)
     IN [t \in Time |-> (IF kept /\ t + Window > now THEN admitted[k][t] ELSE 0)
                       + (IF k \in req /\ t = now THEN 1 ELSE 0)]]

\* consume: the three buckets are all looked at before any of them counts, so
\* a refused attempt counts in none.
Consume(ip, a) ==
  \E b1 \in Touched(Pruned(buckets), IpKey(ip)) :
  \E b2 \in Touched(b1, AccountKey(a)) :
  \E b3 \in Touched(b2, ServerKey) :
    LET refused == \/ Full(b1, IpKey(ip))
                   \/ Full(b2, AccountKey(a))
                   \/ Full(b3, ServerKey)
    IN IF refused
         THEN buckets' = b3 /\ admitted' = History({})
         ELSE /\ \E b4 \in Counted(b3, IpKey(ip)) :
                   \E b5 \in Counted(b4, AccountKey(a)) :
                     buckets' \in Counted(b5, ServerKey)
              /\ admitted' = History({IpKey(ip), AccountKey(a), ServerKey})

\* resetAccount: a successful login forgives the account's attempts.
ResetAccount(a) ==
  /\ buckets' = Put(buckets, AccountKey(a), None)
  /\ admitted' = [admitted EXCEPT ![AccountKey(a)] = [t \in Time |-> 0]]

Init ==
  /\ now = 0
  /\ buckets = [k \in Keys |-> None]
  /\ admitted = [k \in Keys |-> [t \in Time |-> 0]]

TypeOK ==
  /\ now \in Time
  /\ buckets \in Table
  /\ Cardinality(Held(buckets)) <= MaxEntries
  /\ admitted \in [Keys -> [Time -> Nat]]

vars == <<now, buckets, admitted>>

Next ==
  \/ \E ip \in Addresses, a \in Accounts : Consume(ip, a) /\ UNCHANGED now
  \/ \E a \in Accounts : ResetAccount(a) /\ UNCHANGED now
  \/ Tick /\ UNCHANGED <<buckets, admitted>>

Spec == Init /\ [][Next]_vars

-----------------------------------------------------------------------------
(* Properties.                                                             *)

\* The buckets are fixed windows, started even by an attempt that is refused,
\* yet no window of that length anywhere admits more than twice a threshold:
\* for the server always, for an address or an account unless its bucket was
\* displaced or forgiven meanwhile.
WithinLimits ==
  \A k \in Keys : Cardinality(Recent(k)) <= 2 * Threshold(k)

\* A bucket keeps its window and its count until the window is over.  Only a
\* full table may displace one, never the server's and never one seen more
\* recently than one it keeps; only a login that succeeds forgives an account's.
WindowsKept ==
  [][ \A k \in Held(Pruned(buckets)) :
        \/ /\ buckets'[k] # None
           /\ buckets'[k].resetAt = buckets[k].resetAt
           /\ buckets'[k].count >= buckets[k].count
        \/ /\ k # ServerKey
           /\ Cardinality(Held(buckets')) = MaxEntries
           /\ \A o \in Held(buckets') \ {ServerKey} :
                buckets[k].lastSeen <= buckets'[o].lastSeen
        \/ \E a \in Accounts : k = AccountKey(a) /\ ResetAccount(a) ]_vars
=============================================================================
