----------------------- MODULE LoginRateLimiterProofs -----------------------
(***************************************************************************)
(* Proofs about LoginRateLimiter, for any peers and accounts, window,      *)
(* thresholds and table size.                                              *)
(*                                                                         *)
(* A consume touches up to six buckets in a row, each touch perhaps        *)
(* displacing another; Advanced and Carried say what one touch guarantees  *)
(* of a table and survive the next.  WithinLimits is not inductive: how    *)
(* many attempts the last window holds depends on how many the bucket has  *)
(* counted since it was made (Limited).                                    *)
(***************************************************************************)
EXTENDS LoginRateLimiter, FiniteSetTheorems, TLAPS

\* A table the limiter may hold.
Sound(b) ==
  /\ b \in Table
  /\ IsFiniteSet(Held(b))
  /\ Cardinality(Held(b)) <= MaxEntries
  /\ \A k \in Held(b) : b[k].lastSeen <= now

\* The bucket of o has kept its window and its count, or a full table dropped
\* it and kept none that was seen less recently.
KeptBucket(b, c, o) ==
  /\ c[o] # None
  /\ c[o].resetAt = b[o].resetAt
  /\ c[o].count >= b[o].count
  /\ c[o].lastSeen >= b[o].lastSeen
Displaced(b, c, o) ==
  /\ o # ServerKey
  /\ Cardinality(Held(c)) = MaxEntries
  /\ \A p \in Held(c) \ {ServerKey} : b[o].lastSeen <= c[p].lastSeen

\* What touches do to a table, whichever the buckets touched.
Advanced(b, c) ==
  /\ Sound(c)
  /\ Cardinality(Held(b)) <= Cardinality(Held(c))
  /\ \A o \in Held(c) :
       \/ c[o].lastSeen = now
       \/ b[o] # None /\ b[o].lastSeen <= c[o].lastSeen
  /\ \A o \in Held(b) : KeptBucket(b, c, o) \/ Displaced(b, c, o)

\* The bucket of o in c, after n attempts of o since the table was b: gone, the
\* one it was, or one made at this instant.
Carried(b, c, o, n) ==
  \/ c[o] = None /\ (o = ServerKey => b[o] = None /\ n = 0)
  \/ /\ c[o] # None /\ b[o] # None
     /\ c[o].count = b[o].count + n
     /\ c[o].resetAt = b[o].resetAt
  \/ /\ c[o] # None /\ (o = ServerKey => b[o] = None)
     /\ c[o].count = n
     /\ c[o].resetAt = now + Window

\* The attempts of k the last window holds, against those its bucket counted.
Limited(k) ==
  /\ \A t \in Time : t > now => admitted[k][t] = 0
  /\ \A t \in Int : IsFiniteSet(After(k, t))
  /\ Count(buckets, k) <= Threshold(k)
  /\ Cardinality(Recent(k)) <= Threshold(k) + Count(buckets, k)
  /\ buckets[k] # None =>
       Cardinality(After(k, buckets[k].resetAt - Window)) <= buckets[k].count

Inv ==
  /\ TypeOK
  /\ Sound(buckets)
  /\ \A k \in Keys : Limited(k)

-----------------------------------------------------------------------------
(* The keys and the buckets.                                               *)

LEMMA KeyFacts ==
  /\ ServerKey \in Keys
  /\ \A ip \in Addresses : IpKey(ip) \in Keys /\ IpKey(ip) # ServerKey
  /\ \A a \in Accounts : AccountKey(a) \in Keys /\ AccountKey(a) # ServerKey
  /\ \A ip \in Addresses, a \in Accounts : IpKey(ip) # AccountKey(a)
BY DEF ServerKey, IpKey, AccountKey, Keys

LEMMA NatConstants ==
  /\ Window \in Nat \ {0}
  /\ MaxEntries \in Nat /\ MaxEntries >= 3
  /\ \A k \in Keys : Threshold(k) \in Nat \ {0}
BY LimiterAssumption DEF Threshold

\* Entering a bucket for k, or removing it, leaves the other keys alone.
LEMMA PutFacts ==
  ASSUME NEW b \in Table, NEW k \in Keys, NEW e \in Bucket \union {None}
  PROVE  /\ Put(b, k, e) \in Table
         /\ Put(b, k, e)[k] = e
         /\ \A o \in Keys \ {k} : Put(b, k, e)[o] = b[o]
         /\ Held(Put(b, k, e)) =
              IF e = None THEN Held(b) \ {k} ELSE Held(b) \union {k}
<1>1. /\ Put(b, k, e) \in Table
      /\ Put(b, k, e)[k] = e
      /\ \A o \in Keys \ {k} : Put(b, k, e)[o] = b[o]
  BY DEF Put, Table
<1>2. Held(Put(b, k, e)) = IF e = None THEN Held(b) \ {k} ELSE Held(b) \union {k}
  BY <1>1 DEF Held
<1> QED
  BY <1>1, <1>2

\* A held bucket is a bucket.
LEMMA HeldBucket ==
  ASSUME NEW b \in Table, NEW k \in Held(b)
  PROVE  b[k] \in Bucket /\ k \in Keys
BY DEF Table, Held

\* Making room leaves one entry free, at most one bucket that was held longest
\* unseen being gone, and only from a full table.
LEMMA MadeRoomFacts ==
  ASSUME NEW b, Sound(b), NEW c \in MadeRoom(b)
  PROVE  /\ c \in Table
         /\ IsFiniteSet(Held(c))
         /\ Cardinality(Held(c)) < MaxEntries
         /\ \/ c = b
            \/ /\ Cardinality(Held(c)) = MaxEntries - 1
               /\ \E v \in Evictable(b) : c = Put(b, v, None)
<1>1. CASE Cardinality(Held(b)) < MaxEntries
  BY <1>1 DEF MadeRoom, Sound
<1>2. CASE ~(Cardinality(Held(b)) < MaxEntries)
  <2>1. Cardinality(Held(b)) = MaxEntries
    BY <1>2, FS_CardinalityType, NatConstants DEF Sound
  <2>2. PICK v \in Evictable(b) : c = Put(b, v, None)
    BY <1>2 DEF MadeRoom
  <2>3. v \in Held(b) /\ v \in Keys
    BY <2>2 DEF Evictable, Held
  <2>4. c \in Table /\ Held(c) = Held(b) \ {v}
    BY <2>2, <2>3, PutFacts DEF Sound
  <2>5. IsFiniteSet(Held(c)) /\ Cardinality(Held(c)) = MaxEntries - 1
    BY <2>1, <2>3, <2>4, FS_RemoveElement DEF Sound
  <2> QED
    BY <2>2, <2>4, <2>5, NatConstants
<1> QED
  BY <1>1, <1>2

\* Touching k's bucket: found and seen now, or made, perhaps displacing one.
LEMMA TouchedFacts ==
  ASSUME NEW b, Sound(b), now \in Nat, NEW k \in Keys, NEW c \in Touched(b, k)
  PROVE  /\ Sound(c)
         /\ c[k] # None
         /\ c[k].lastSeen = now
         /\ Cardinality(Held(b)) <= Cardinality(Held(c))
         /\ \/ /\ b[k] # None
               /\ c[k].count = b[k].count
               /\ c[k].resetAt = b[k].resetAt
               /\ \A o \in Keys \ {k} : c[o] = b[o]
            \/ /\ b[k] = None
               /\ c[k].count = 0
               /\ c[k].resetAt = now + Window
               /\ \/ \A o \in Keys \ {k} : c[o] = b[o]
                  \/ /\ Cardinality(Held(c)) = MaxEntries
                     /\ \E v \in Evictable(b) :
                          /\ c[v] = None
                          /\ \A o \in Keys \ {k, v} : c[o] = b[o]
<1>0. b \in Table /\ IsFiniteSet(Held(b)) /\ Cardinality(Held(b)) \in Nat
  BY FS_CardinalityType DEF Sound
<1>1. CASE b[k] # None
  <2> DEFINE e == [b[k] EXCEPT !.lastSeen = now]
  <2>1. c = Put(b, k, e)
    BY <1>1 DEF Touched
  <2>2. b[k] \in Bucket /\ k \in Held(b)
    BY <1>0, <1>1 DEF Table, Held
  <2>3. e \in Bucket /\ e.lastSeen = now /\ e.count = b[k].count /\ e.resetAt = b[k].resetAt
    BY <2>2 DEF Bucket
  <2>4. e # None
    BY <2>3, NoBucketAssumption
  <2>5. c \in Table /\ c[k] = e /\ (\A o \in Keys \ {k} : c[o] = b[o])
    BY <1>0, <2>1, <2>3, PutFacts
  <2>6. Held(c) = Held(b)
    BY <1>1, <2>4, <2>5 DEF Held
  <2>7. \A o \in Held(c) : c[o].lastSeen <= now
    <3>1. \A o \in Held(b) : o \in Keys /\ b[o].lastSeen <= now
      BY DEF Sound, Held
    <3>2. c[k].lastSeen = now /\ now <= now
      BY <2>3, <2>5
    <3>3. \A o \in Held(b) \ {k} : c[o] = b[o]
      BY <2>5, <3>1
    <3> QED
      BY <2>6, <3>1, <3>2, <3>3
  <2>8. Sound(c)
    BY <2>5, <2>6, <2>7 DEF Sound
  <2> QED
    BY <1>0, <1>1, <2>3, <2>4, <2>5, <2>6, <2>8
<1>2. CASE b[k] = None
  <2> DEFINE e == [count |-> 0, resetAt |-> now + Window, lastSeen |-> now]
  <2>1. PICK r \in MadeRoom(b) : c = Put(r, k, e)
    BY <1>2 DEF Touched
  <2>2. e \in Bucket /\ e # None
    BY NatConstants, NoBucketAssumption DEF Bucket
  <2>3. /\ r \in Table /\ IsFiniteSet(Held(r))
        /\ Cardinality(Held(r)) < MaxEntries
        /\ \/ r = b
           \/ /\ Cardinality(Held(r)) = MaxEntries - 1
              /\ \E v \in Evictable(b) : r = Put(b, v, None)
    BY <2>1, MadeRoomFacts
  <2>4. \A o \in Held(r) : o \in Held(b) /\ r[o] = b[o]
    <3>1. CASE r = b
      BY <3>1
    <3>2. CASE \E v \in Evictable(b) : r = Put(b, v, None)
      <4>1. PICK v \in Evictable(b) : r = Put(b, v, None)
        BY <3>2
      <4>2. v \in Keys
        BY <4>1 DEF Evictable, Held
      <4> QED
        BY <1>0, <4>1, <4>2, PutFacts DEF Held
    <3> QED
      BY <2>3, <3>1, <3>2
  <2>5. k \notin Held(r)
    BY <1>2, <2>4 DEF Held
  <2>6. /\ c \in Table /\ c[k] = e /\ (\A o \in Keys \ {k} : c[o] = r[o])
        /\ Held(c) = Held(r) \union {k}
    BY <2>1, <2>2, <2>3, PutFacts
  <2>7. /\ IsFiniteSet(Held(c)) /\ Cardinality(Held(c)) = Cardinality(Held(r)) + 1
        /\ Cardinality(Held(r)) \in Nat
    BY <2>3, <2>5, <2>6, FS_AddElement, FS_CardinalityType
  <2>8. \A o \in Held(c) : c[o].lastSeen <= now
    BY <2>2, <2>4, <2>6 DEF Sound, Held
  <2>9. Sound(c)
    BY <2>3, <2>6, <2>7, <2>8, NatConstants DEF Sound
  <2>10. CASE r = b
    BY <1>2, <2>2, <2>6, <2>7, <2>9, <2>10
  <2>11. CASE /\ Cardinality(Held(r)) = MaxEntries - 1
              /\ \E v \in Evictable(b) : r = Put(b, v, None)
    <3>1. PICK v \in Evictable(b) : r = Put(b, v, None)
      BY <2>11
    <3>2. v \in Keys /\ v # k
      BY <1>2, <3>1 DEF Evictable, Held
    <3>3. r[v] = None /\ \A o \in Keys \ {v} : r[o] = b[o]
      BY <1>0, <3>1, <3>2, PutFacts
    <3>4. Cardinality(Held(c)) = MaxEntries
      BY <2>7, <2>11, NatConstants
    <3>5. c[v] = None /\ (\A o \in Keys \ {k, v} : c[o] = b[o])
      BY <2>6, <3>2, <3>3
    <3>6. Cardinality(Held(b)) <= Cardinality(Held(c))
      BY <3>4 DEF Sound
    <3> QED
      BY <1>2, <2>2, <2>6, <2>9, <3>1, <3>4, <3>5, <3>6
  <2> QED
    BY <2>3, <2>10, <2>11
<1> QED
  BY <1>1, <1>2

-----------------------------------------------------------------------------
(* Touches in a row.                                                       *)

LEMMA AdvancedReflexive ==
  ASSUME NEW b, Sound(b), now \in Nat
  PROVE  Advanced(b, b)
<1>1. b \in Table /\ Cardinality(Held(b)) \in Nat
  BY FS_CardinalityType DEF Sound
<1>2. \A o \in Held(b) : b[o] # None /\ b[o].count \in Nat /\ b[o].lastSeen \in Nat
  BY <1>1, HeldBucket DEF Bucket, Held
<1> QED
  BY <1>1, <1>2 DEF Advanced, KeptBucket

\* A bucket touched or counted: the other keys hold what they held or, from a
\* full table, one of those seen longest ago is gone.
LEMMA AdvancedByOne ==
  ASSUME NEW b, Sound(b), now \in Nat, NEW k \in Keys,
         NEW c, Sound(c), Cardinality(Held(b)) <= Cardinality(Held(c)),
         c[k] # None, c[k].lastSeen = now,
         b[k] # None => c[k].resetAt = b[k].resetAt /\ c[k].count >= b[k].count,
         \/ \A o \in Keys \ {k} : c[o] = b[o]
         \/ /\ Cardinality(Held(c)) = MaxEntries
            /\ \E v \in Evictable(b) :
                 c[v] = None /\ (\A o \in Keys \ {k, v} : c[o] = b[o])
  PROVE  Advanced(b, c)
<1>1. \A o \in Held(b) : /\ o \in Keys /\ b[o] # None /\ b[o].count \in Nat
                         /\ b[o].lastSeen \in Nat /\ b[o].lastSeen <= now
  BY HeldBucket DEF Sound, Bucket, Held
<1>2. \A o \in Held(c) : o \in Keys /\ c[o] # None
  BY DEF Held
<1>3. k \in Held(b) => KeptBucket(b, c, k)
  BY <1>1 DEF KeptBucket, Held
<1>4. \A o \in Held(b) : c[o] = b[o] => KeptBucket(b, c, o)
  BY <1>1 DEF KeptBucket
<1>5. ASSUME NEW o \in Held(c)
      PROVE  c[o].lastSeen = now \/ (o \in Held(b) /\ c[o] = b[o])
  BY <1>2 DEF Held
<1>6. \A o \in Held(c) : \/ c[o].lastSeen = now
                         \/ b[o] # None /\ b[o].lastSeen <= c[o].lastSeen
  BY <1>1, <1>5
<1>7. ASSUME NEW o \in Held(b), ~KeptBucket(b, c, o)
      PROVE  Displaced(b, c, o)
  <2>1. o # k /\ c[o] # b[o] /\ o \in Keys
    BY <1>1, <1>3, <1>4, <1>7
  <2>2. Cardinality(Held(c)) = MaxEntries /\ o \in Evictable(b)
    BY <2>1
  <2>3. o # ServerKey /\ (\A p \in Held(b) \ {ServerKey} : b[o].lastSeen <= b[p].lastSeen)
    BY <2>2 DEF Evictable
  <2>4. \A p \in Held(c) \ {ServerKey} : b[o].lastSeen <= c[p].lastSeen
    BY <1>1, <1>5, <2>3
  <2> QED
    BY <2>2, <2>3, <2>4 DEF Displaced
<1> QED
  BY <1>6, <1>7 DEF Advanced

LEMMA TouchedAdvances ==
  ASSUME NEW b, Sound(b), now \in Nat, NEW k \in Keys, NEW c \in Touched(b, k)
  PROVE  Advanced(b, c)
<1>1. b[k] # None => b[k].count \in Nat
  BY HeldBucket DEF Sound, Bucket, Held
<1> QED
  BY <1>1, TouchedFacts, AdvancedByOne

\* Counting an attempt touches the bucket once more.
LEMMA CountedFacts ==
  ASSUME NEW b, Sound(b), now \in Nat, NEW k \in Keys, NEW d \in Counted(b, k)
  PROVE  \E c \in Touched(b, k) :
           /\ Sound(d)
           /\ Held(d) = Held(c)
           /\ d[k] # None
           /\ d[k].count = c[k].count + 1
           /\ d[k].resetAt = c[k].resetAt
           /\ d[k].lastSeen = c[k].lastSeen
           /\ \A o \in Keys \ {k} : d[o] = c[o]
<1>1. PICK c \in Touched(b, k) : d = Put(c, k, [c[k] EXCEPT !.count = @ + 1])
  BY DEF Counted
<1>2. Sound(c) /\ c[k] # None
  BY TouchedFacts
<1>3. c \in Table /\ c[k] \in Bucket /\ k \in Held(c)
  BY <1>2 DEF Sound, Table, Held
<1> DEFINE e == [c[k] EXCEPT !.count = @ + 1]
<1>4. /\ e \in Bucket /\ e.count = c[k].count + 1
      /\ e.resetAt = c[k].resetAt /\ e.lastSeen = c[k].lastSeen
  BY <1>3 DEF Bucket
<1>5. e # None
  BY <1>4, NoBucketAssumption
<1>6. d \in Table /\ d[k] = e /\ \A o \in Keys \ {k} : d[o] = c[o]
  BY <1>1, <1>3, <1>4, PutFacts
<1>7. Held(d) = Held(c)
  BY <1>2, <1>5, <1>6 DEF Held
<1>8. \A o \in Held(d) : d[o].lastSeen <= now
  <2>1. \A o \in Held(c) : o \in Keys /\ c[o].lastSeen <= now
    BY <1>2 DEF Sound, Held
  <2>2. \A o \in Held(c) : d[o].lastSeen = c[o].lastSeen
    BY <1>4, <1>6, <2>1
  <2> QED
    BY <1>7, <2>1, <2>2
<1>9. Sound(d)
  BY <1>2, <1>6, <1>7, <1>8 DEF Sound
<1> QED
  BY <1>4, <1>5, <1>6, <1>7, <1>9

LEMMA CountedAdvances ==
  ASSUME NEW b, Sound(b), now \in Nat, NEW k \in Keys, NEW d \in Counted(b, k)
  PROVE  Advanced(b, d)
<1>1. PICK c \in Touched(b, k) :
           /\ Sound(d)
           /\ Held(d) = Held(c)
           /\ d[k] # None
           /\ d[k].count = c[k].count + 1
           /\ d[k].resetAt = c[k].resetAt
           /\ d[k].lastSeen = c[k].lastSeen
           /\ \A o \in Keys \ {k} : d[o] = c[o]
  BY CountedFacts
<1>2. b[k] # None => b[k].count \in Nat
  BY HeldBucket DEF Sound, Bucket, Held
<1>3. \A v \in Evictable(b) : v \in Keys
  BY DEF Evictable, Held
<1>4. /\ c[k] # None
      /\ c[k].lastSeen = now
      /\ Cardinality(Held(b)) <= Cardinality(Held(c))
      /\ \/ /\ b[k] # None
            /\ c[k].count = b[k].count
            /\ c[k].resetAt = b[k].resetAt
            /\ \A o \in Keys \ {k} : c[o] = b[o]
         \/ /\ b[k] = None
            /\ \/ \A o \in Keys \ {k} : c[o] = b[o]
               \/ /\ Cardinality(Held(c)) = MaxEntries
                  /\ \E v \in Evictable(b) :
                       /\ v # k
                       /\ c[v] = None
                       /\ \A o \in Keys \ {k, v} : c[o] = b[o]
  BY TouchedFacts
<1>5. b[k] # None => d[k].resetAt = b[k].resetAt /\ d[k].count >= b[k].count
  BY <1>1, <1>2, <1>4
<1>6. \/ \A o \in Keys \ {k} : d[o] = b[o]
      \/ /\ Cardinality(Held(d)) = MaxEntries
         /\ \E v \in Evictable(b) :
              d[v] = None /\ (\A o \in Keys \ {k, v} : d[o] = b[o])
  BY <1>1, <1>3, <1>4
<1> QED
  BY <1>1, <1>4, <1>5, <1>6, AdvancedByOne

LEMMA AdvancedTransitive ==
  ASSUME NEW a, NEW b, NEW c, now \in Nat,
         Sound(a), Sound(b), Advanced(a, b), Advanced(b, c)
  PROVE  Advanced(a, c)
<1>1. /\ Cardinality(Held(a)) \in Nat /\ Cardinality(Held(b)) \in Nat
      /\ Cardinality(Held(c)) \in Nat /\ Sound(c)
      /\ Cardinality(Held(c)) <= MaxEntries
      /\ Cardinality(Held(a)) <= Cardinality(Held(b))
      /\ Cardinality(Held(b)) <= Cardinality(Held(c))
  BY FS_CardinalityType DEF Sound, Advanced
<1>2. \A t \in {a, b, c} : \A o \in Held(t) :
        o \in Keys /\ t[o] # None /\ t[o].count \in Nat /\ t[o].lastSeen \in Nat /\ t[o].lastSeen <= now
  BY <1>1, HeldBucket DEF Sound, Bucket, Held
<1>3. \A o \in Keys : (a[o] # None => o \in Held(a)) /\ (b[o] # None => o \in Held(b))
  BY DEF Held
<1>4. \A o \in Held(c) : c[o].lastSeen = now \/ (o \in Held(b) /\ b[o].lastSeen <= c[o].lastSeen)
  BY <1>2, <1>3 DEF Advanced
<1>5. \A o \in Held(b) : b[o].lastSeen = now \/ (o \in Held(a) /\ a[o].lastSeen <= b[o].lastSeen)
  BY <1>2, <1>3 DEF Advanced
<1>6. \A o \in Held(c) : c[o].lastSeen = now \/ (o \in Held(a) /\ a[o].lastSeen <= c[o].lastSeen)
  BY <1>2, <1>4, <1>5
<1>7. ASSUME NEW o \in Held(a) PROVE KeptBucket(a, c, o) \/ Displaced(a, c, o)
  <2>1. CASE KeptBucket(a, b, o)
    <3>1. o \in Held(b) /\ b[o].lastSeen >= a[o].lastSeen
      BY <1>2, <1>3, <2>1 DEF KeptBucket
    <3>2. CASE KeptBucket(b, c, o)
      <4>1. o \in Held(c)
        BY <1>2, <3>2 DEF KeptBucket, Held
      <4> QED
        BY <1>2, <2>1, <3>1, <3>2, <4>1 DEF KeptBucket
    <3>3. CASE Displaced(b, c, o)
      BY <1>2, <3>1, <3>3 DEF Displaced
    <3> QED
      BY <3>1, <3>2, <3>3 DEF Advanced
  <2>2. CASE Displaced(a, b, o)
    <3>1. Cardinality(Held(c)) = MaxEntries
      BY <1>1, <2>2, NatConstants DEF Displaced
    <3>2. \A p \in Held(c) \ {ServerKey} : a[o].lastSeen <= c[p].lastSeen
      BY <1>2, <1>4, <2>2 DEF Displaced
    <3> QED
      BY <2>2, <3>1, <3>2 DEF Displaced
  <2> QED
    BY <2>1, <2>2 DEF Advanced
<1>8. Cardinality(Held(a)) <= Cardinality(Held(c))
  BY <1>1
<1>9. \A o \in Held(c) : \/ c[o].lastSeen = now
                         \/ a[o] # None /\ a[o].lastSeen <= c[o].lastSeen
  BY <1>2, <1>6
<1> QED
  BY <1>1, <1>7, <1>8, <1>9 DEF Advanced

\* A touch carries every key's bucket along, and leaves room where there was.
LEMMA TouchedCarries ==
  ASSUME NEW b, Sound(b), now \in Nat, NEW k \in Keys, NEW c \in Touched(b, k),
         NEW p \in Table, NEW o \in Keys, NEW n \in {0, 1},
         Carried(p, b, o, n), o = k => n = 0
  PROVE  /\ Carried(p, c, o, n)
         /\ \A m \in Nat : (b[o] # None => b[o].count <= m) => (c[o] # None => c[o].count <= m)
<1>1. b \in Table /\ c \in Table /\ c[k] # None
  BY TouchedFacts DEF Sound
<1>2. \A v \in Evictable(b) : v \in Keys /\ v # ServerKey /\ b[v] # None
  BY DEF Evictable, Held
<1>3. CASE o = k
  <2>1. \/ /\ b[k] # None
           /\ c[k].count = b[k].count
           /\ c[k].resetAt = b[k].resetAt
        \/ /\ b[k] = None
           /\ c[k].count = 0
           /\ c[k].resetAt = now + Window
    BY TouchedFacts
  <2>2. Carried(p, c, k, 0)
    BY <1>1, <1>3, <2>1 DEF Carried
  <2> QED
    BY <1>3, <2>1, <2>2
<1>4. CASE o # k
  <2>1. c[o] = b[o] \/ (c[o] = None /\ o # ServerKey)
    <3>1. \/ \A q \in Keys \ {k} : c[q] = b[q]
          \/ \E v \in Evictable(b) : c[v] = None /\ \A q \in Keys \ {k, v} : c[q] = b[q]
      BY TouchedFacts
    <3> QED
      BY <1>2, <1>4, <3>1
  <2> QED
    BY <2>1 DEF Carried
<1> QED
  BY <1>3, <1>4

\* Counting an attempt of k carries the others along and raises k's count.
LEMMA CountedCarries ==
  ASSUME NEW b, Sound(b), now \in Nat, NEW k \in Keys, NEW d \in Counted(b, k),
         NEW p \in Table, NEW o \in Keys, NEW n \in {0, 1},
         Carried(p, b, o, n), o = k => n = 0
  PROVE  /\ Carried(p, d, o, IF o = k THEN 1 ELSE n)
         /\ \A m \in Nat : (b[o] # None => b[o].count <= m)
              => (d[o] # None => d[o].count <= (IF o = k THEN m + 1 ELSE m))
<1>1. PICK c \in Touched(b, k) :
           /\ Sound(d)
           /\ Held(d) = Held(c)
           /\ d[k] # None
           /\ d[k].count = c[k].count + 1
           /\ d[k].resetAt = c[k].resetAt
           /\ d[k].lastSeen = c[k].lastSeen
           /\ \A q \in Keys \ {k} : d[q] = c[q]
  BY CountedFacts
<1>2. Sound(c) /\ c[k] # None
  BY TouchedFacts
<1>3. /\ Carried(p, c, o, n)
      /\ \A m \in Nat : (b[o] # None => b[o].count <= m) => (c[o] # None => c[o].count <= m)
  BY TouchedCarries
<1>4. CASE o = k
  <2>1. c[k].count \in Nat /\ (p[k] # None => p[k].count \in Nat)
    BY <1>2, HeldBucket DEF Sound, Bucket, Held
  <2>2. Carried(p, d, k, 1)
    BY <1>1, <1>2, <1>3, <1>4, <2>1 DEF Carried
  <2>3. \A m \in Nat : (b[k] # None => b[k].count <= m) => d[k].count <= m + 1
    BY <1>1, <1>2, <1>3, <1>4, <2>1
  <2> QED
    BY <1>4, <2>2, <2>3
<1>5. CASE o # k
  BY <1>1, <1>3, <1>5 DEF Carried
<1> QED
  BY <1>4, <1>5

-----------------------------------------------------------------------------
(* Consuming an attempt.                                                   *)

\* Pruning keeps the buckets whose window is not over as they are.
LEMMA PrunedFacts ==
  ASSUME Sound(buckets), now \in Nat
  PROVE  /\ Sound(Pruned(buckets))
         /\ \A k \in Keys :
              \/ Pruned(buckets)[k] = None
              \/ /\ Pruned(buckets)[k] = buckets[k]
                 /\ buckets[k] # None /\ buckets[k].resetAt > now
         /\ \A k \in Keys :
              buckets[k] # None /\ Pruned(buckets)[k] = None => buckets[k].resetAt <= now
<1> DEFINE p == Pruned(buckets)
<1>1. \A k \in Keys : buckets[k] # None => buckets[k].resetAt \in Nat
  BY HeldBucket DEF Sound, Bucket, Held
<1>2. \A k \in Keys : \/ p[k] = None
                      \/ /\ p[k] = buckets[k]
                         /\ buckets[k] # None /\ buckets[k].resetAt > now
  BY <1>1 DEF Pruned
<1>3. \A k \in Keys : buckets[k] # None /\ p[k] = None => buckets[k].resetAt <= now
  BY <1>1 DEF Pruned
<1>4. p \in Table
  BY DEF Pruned, Sound, Table
<1> HIDE DEF p
<1>5. Held(p) \in SUBSET Held(buckets)
  BY <1>2 DEF Held
<1>6. IsFiniteSet(Held(p)) /\ Cardinality(Held(p)) <= Cardinality(Held(buckets))
  BY <1>5, FS_Subset DEF Sound
<1>7. Cardinality(Held(p)) <= MaxEntries
  BY <1>6, FS_CardinalityType, NatConstants DEF Sound
<1>8. \A k \in Held(p) : p[k].lastSeen <= now
  <2>1. \A k \in Held(p) : k \in Held(buckets) /\ p[k] = buckets[k]
    BY <1>2 DEF Held
  <2> QED
    BY <2>1 DEF Sound
<1>9. Sound(p)
  BY <1>4, <1>6, <1>7, <1>8 DEF Sound
<1> QED
  BY <1>2, <1>3, <1>9 DEF p

\* A table carries its own buckets, and none of them counts an attempt more.
LEMMA CarriesItself ==
  ASSUME NEW b, Sound(b), NEW o \in Keys
  PROVE  Carried(b, b, o, 0)
<1>1. b[o] # None => b[o].count \in Nat
  BY HeldBucket DEF Sound, Bucket, Held
<1> QED
  BY <1>1 DEF Carried

\* What a consume does: the attempts of req, three keys or none, are counted,
\* within their thresholds, and every other bucket is carried along.
Outcome(req) ==
  /\ Advanced(Pruned(buckets), buckets')
  /\ admitted' = History(req)
  /\ \A k \in Keys :
       /\ Carried(Pruned(buckets), buckets', k, IF k \in req THEN 1 ELSE 0)
       /\ k \in req /\ buckets'[k] # None => buckets'[k].count <= Threshold(k)

LEMMA ConsumeFacts ==
  ASSUME Sound(buckets), now \in Nat,
         NEW ip \in Addresses, NEW a \in Accounts, Consume(ip, a)
  PROVE  \E req \in SUBSET Keys : Outcome(req)
<1> DEFINE p == Pruned(buckets)
           i == IpKey(ip)
           u == AccountKey(a)
<1>1. /\ i \in Keys /\ u \in Keys /\ ServerKey \in Keys
      /\ i # u /\ i # ServerKey /\ u # ServerKey
  BY KeyFacts
<1>2. Sound(p) /\ p \in Table
  BY PrunedFacts DEF Sound
<1> DEFINE Rest(b1, b2, b3) ==
             IF Full(b1, i) \/ Full(b2, u) \/ Full(b3, ServerKey)
               THEN buckets' = b3 /\ admitted' = History({})
               ELSE /\ \E b4 \in Counted(b3, i) :
                         \E b5 \in Counted(b4, u) :
                           buckets' \in Counted(b5, ServerKey)
                    /\ admitted' = History({i, u, ServerKey})
<1>31. PICK b1 \in Touched(p, i) :
         \E b2 \in Touched(b1, u) : \E b3 \in Touched(b2, ServerKey) : Rest(b1, b2, b3)
  BY DEF Consume
<1>32. PICK b2 \in Touched(b1, u) : \E b3 \in Touched(b2, ServerKey) : Rest(b1, b2, b3)
  BY <1>31
<1>33. PICK b3 \in Touched(b2, ServerKey) : Rest(b1, b2, b3)
  BY <1>32
<1>3. /\ Full(b1, i) \/ Full(b2, u) \/ Full(b3, ServerKey)
           => buckets' = b3 /\ admitted' = History({})
      /\ ~(Full(b1, i) \/ Full(b2, u) \/ Full(b3, ServerKey))
           => /\ \E b4 \in Counted(b3, i) : \E b5 \in Counted(b4, u) : buckets' \in Counted(b5, ServerKey)
              /\ admitted' = History({i, u, ServerKey})
  BY <1>33
<1> HIDE DEF p, i, u, Rest
<1>4. Sound(b1) /\ Sound(b2) /\ Sound(b3)
  <2>1. Sound(b1)
    BY <1>1, <1>2, TouchedFacts
  <2>2. Sound(b2)
    BY <1>1, <2>1, TouchedFacts
  <2> QED
    BY <1>1, <2>1, <2>2, TouchedFacts
<1>5. Advanced(p, b3)
  <2>1. Advanced(p, b1) /\ Advanced(b1, b2) /\ Advanced(b2, b3)
    BY <1>1, <1>2, <1>4, TouchedAdvances
  <2>2. Advanced(p, b2)
    BY <1>2, <1>4, <2>1, AdvancedTransitive
  <2> QED
    BY <1>2, <1>4, <2>1, <2>2, AdvancedTransitive
<1>6. \A o \in Keys : Carried(p, b1, o, 0) /\ Carried(p, b2, o, 0) /\ Carried(p, b3, o, 0)
  <2>1. \A o \in Keys : Carried(p, b1, o, 0)
    BY <1>1, <1>2, CarriesItself, TouchedCarries
  <2>2. \A o \in Keys : Carried(p, b2, o, 0)
    BY <1>1, <1>2, <1>4, <2>1, TouchedCarries
  <2> QED
    BY <1>1, <1>2, <1>4, <2>1, <2>2, TouchedCarries
<1>7. CASE Full(b1, i) \/ Full(b2, u) \/ Full(b3, ServerKey)
  <2>1. buckets' = b3 /\ admitted' = History({})
    BY <1>3, <1>7
  <2>2. Outcome({})
    BY <1>5, <1>6, <2>1 DEF Outcome, p
  <2> QED
    BY <2>2
<1>8. CASE ~(Full(b1, i) \/ Full(b2, u) \/ Full(b3, ServerKey))
  <2>1. PICK b4 \in Counted(b3, i) : \E b5 \in Counted(b4, u) : buckets' \in Counted(b5, ServerKey)
    BY <1>3, <1>8
  <2>2. PICK b5 \in Counted(b4, u) : buckets' \in Counted(b5, ServerKey)
    BY <2>1
  <2>3. admitted' = History({i, u, ServerKey})
    BY <1>3, <1>8
  <2>4. Sound(b4) /\ Sound(b5) /\ Sound(buckets')
    <3>1. Sound(b4)
      BY <1>1, <1>4, CountedFacts
    <3>2. Sound(b5)
      BY <1>1, <3>1, CountedFacts
    <3> QED
      BY <1>1, <2>2, <3>1, <3>2, CountedFacts
  <2>5. Advanced(p, buckets')
    <3>1. Advanced(b3, b4) /\ Advanced(b4, b5) /\ Advanced(b5, buckets')
      BY <1>1, <1>4, <2>2, <2>4, CountedAdvances
    <3>2. Advanced(p, b4)
      BY <1>2, <1>4, <1>5, <2>4, <3>1, AdvancedTransitive
    <3>3. Advanced(p, b5)
      BY <1>2, <2>4, <3>1, <3>2, AdvancedTransitive
    <3> QED
      BY <1>2, <2>4, <3>1, <3>3, AdvancedTransitive
  <2>6. \A o \in Keys : Carried(p, b4, o, IF o = i THEN 1 ELSE 0)
    BY <1>1, <1>2, <1>4, <1>6, CountedCarries
  <2>7. \A o \in Keys : Carried(p, b5, o, IF o \in {i, u} THEN 1 ELSE 0)
    BY <1>1, <1>2, <2>4, <2>6, CountedCarries
  <2>8. \A o \in Keys : Carried(p, buckets', o, IF o \in {i, u, ServerKey} THEN 1 ELSE 0)
    BY <1>1, <1>2, <2>2, <2>4, <2>7, CountedCarries
  <2>9. /\ b1[i].count <= Threshold(i) - 1
        /\ b2[u].count <= Threshold(u) - 1
        /\ b3[ServerKey].count <= Threshold(ServerKey) - 1
    <3>1. b1[i] # None /\ b2[u] # None /\ b3[ServerKey] # None
      BY <1>1, <1>2, <1>4, TouchedFacts
    <3>2. b1[i].count \in Nat /\ b2[u].count \in Nat /\ b3[ServerKey].count \in Nat
      BY <1>1, <1>4, <3>1, HeldBucket DEF Sound, Bucket, Held
    <3> QED
      BY <1>1, <1>8, <3>2, NatConstants DEF Full
  <2>10. \A o \in Keys : Threshold(o) \in Nat /\ Threshold(o) - 1 \in Nat
    BY NatConstants
  <2>11. /\ b3[i] # None => b3[i].count <= Threshold(i) - 1
         /\ b3[u] # None => b3[u].count <= Threshold(u) - 1
    <3>1. b2[i] # None => b2[i].count <= Threshold(i) - 1
      BY <1>1, <1>2, <1>4, <1>6, <2>9, <2>10, TouchedCarries
    <3> QED
      BY <1>1, <1>2, <1>4, <1>6, <2>9, <2>10, <3>1, TouchedCarries
  <2>12. /\ b4[i] # None => b4[i].count <= Threshold(i)
         /\ b4[u] # None => b4[u].count <= Threshold(u) - 1
         /\ b4[ServerKey] # None => b4[ServerKey].count <= Threshold(ServerKey) - 1
    BY <1>1, <1>2, <1>4, <1>6, <2>9, <2>10, <2>11, CountedCarries
  <2>13. /\ b5[i] # None => b5[i].count <= Threshold(i)
         /\ b5[u] # None => b5[u].count <= Threshold(u)
         /\ b5[ServerKey] # None => b5[ServerKey].count <= Threshold(ServerKey) - 1
    BY <1>1, <1>2, <2>4, <2>6, <2>10, <2>12, CountedCarries
  <2>14. \A k \in {i, u, ServerKey} : buckets'[k] # None => buckets'[k].count <= Threshold(k)
    BY <1>1, <1>2, <2>2, <2>4, <2>7, <2>10, <2>13, CountedCarries
  <2>15. Outcome({i, u, ServerKey})
    BY <2>3, <2>5, <2>8, <2>14 DEF Outcome, p
  <2>16. {i, u, ServerKey} \in SUBSET Keys
    BY <1>1
  <2> QED
    BY <2>15, <2>16
<1> QED
  BY <1>7, <1>8

-----------------------------------------------------------------------------
(* The attempts of the last window.                                        *)

\* Subsets of a finite set with one element more.
LEMMA OneMore ==
  ASSUME NEW A, IsFiniteSet(A), NEW x, NEW S, S \subseteq A \union {x}
  PROVE  /\ IsFiniteSet(S)
         /\ Cardinality(S) \in Nat /\ Cardinality(A) \in Nat
         /\ Cardinality(S) <= Cardinality(A) + 1
         /\ S \subseteq A => Cardinality(S) <= Cardinality(A)
<1>1. Cardinality(A) \in Nat
  BY FS_CardinalityType
<1>2. IsFiniteSet(A \union {x}) /\ Cardinality(A \union {x}) <= Cardinality(A) + 1
  BY <1>1, FS_AddElement
<1>3. IsFiniteSet(S) /\ Cardinality(S) <= Cardinality(A \union {x})
  BY <1>2, FS_Subset
<1>4. Cardinality(S) \in Nat /\ Cardinality(A \union {x}) \in Nat
  BY <1>2, <1>3, FS_CardinalityType
<1>5. S \subseteq A => Cardinality(S) <= Cardinality(A)
  BY FS_Subset
<1> QED
  BY <1>1, <1>2, <1>3, <1>4, <1>5

\* The attempts after an instant, one by one.
LEMMA AfterElements ==
  ASSUME NEW k, NEW t, NEW x
  PROVE  x \in After(k, t) <=>
           \E u \in Time : u > t /\ x \in {u} \X (1 .. admitted[k][u])
BY DEF After

\* A later instant has fewer attempts after it.
LEMMA AfterMonotone ==
  ASSUME NEW k, NEW t \in Int, NEW w \in Int, t <= w, IsFiniteSet(After(k, t))
  PROVE  /\ After(k, w) \subseteq After(k, t)
         /\ Cardinality(After(k, w)) <= Cardinality(After(k, t))
<1>1. \A u \in Time : u \in Int
  BY DEF Time
<1>2. After(k, w) \subseteq After(k, t)
  BY <1>1 DEF After
<1> QED
  BY <1>2, FS_Subset

\* The number the history gives to the attempts of one key at one instant.
LEMMA HistoryValue ==
  ASSUME TypeOK, NEW req \in SUBSET Keys, admitted' = History(req), NEW k \in Keys
  PROVE  LET n == IF k \in req THEN 1 ELSE 0
             kept == k = ServerKey \/ Count(buckets', k) = Count(Pruned(buckets), k) + n
         IN \A t \in Time :
              /\ admitted'[k][t] \in Nat
              /\ t = now => admitted'[k][t] = (IF kept THEN admitted[k][t] ELSE 0) + n
              /\ t # now => admitted'[k][t] = 0 \/ (kept /\ admitted'[k][t] = admitted[k][t])
<1>1. now \in Nat /\ Window \in Nat /\ Window > 0 /\ (\A t \in Time : t \in Nat)
  BY NatConstants DEF TypeOK, Time
<1>2. \A t \in Time : admitted[k][t] \in Nat
  BY DEF TypeOK
<1>3. now + Window > now
  BY <1>1
<1> QED
  BY <1>1, <1>2, <1>3 DEF History

\* Attempts only join the history at this instant, one at most; when the bucket
\* was lost, the history starts over.
LEMMA AfterHistory ==
  ASSUME TypeOK, NEW req \in SUBSET Keys, admitted' = History(req),
         NEW k \in Keys, NEW t \in Int
  PROVE  LET n == IF k \in req THEN 1 ELSE 0
             kept == k = ServerKey \/ Count(buckets', k) = Count(Pruned(buckets), k) + n
             last == <<now, admitted'[k][now]>>
         IN /\ kept /\ n = 0 => After(k, t)' \subseteq After(k, t)
            /\ kept => After(k, t)' \subseteq After(k, t) \union {last}
            /\ ~kept => After(k, t)' \subseteq {last}
            /\ ~kept /\ n = 0 => After(k, t)' = {}
<1> DEFINE n == IF k \in req THEN 1 ELSE 0
           kept == k = ServerKey \/ Count(buckets', k) = Count(Pruned(buckets), k) + n
           last == <<now, admitted'[k][now]>>
<1>1. \A u \in Time :
        /\ u \in Int
        /\ admitted[k][u] \in Nat
        /\ admitted'[k][u] \in Nat
        /\ u = now => admitted'[k][u] = (IF kept THEN admitted[k][u] ELSE 0) + n
        /\ u # now => admitted'[k][u] = 0 \/ (kept /\ admitted'[k][u] = admitted[k][u])
  <2>1. \A u \in Time : u \in Int
    BY DEF Time
  <2>2. \A u \in Time : admitted[k][u] \in Nat
    BY DEF TypeOK
  <2> QED
    BY <2>1, <2>2, HistoryValue
<1>2. n \in {0, 1}
  OBVIOUS
<1>3. Time' = Time
  BY DEF Time
<1>4. After(k, t)' = UNION {{u} \X (1 .. admitted'[k][u]) : u \in {v \in Time : v > t}}
  BY <1>3 DEF After
<1>5. After(k, t) = UNION {{u} \X (1 .. admitted[k][u]) : u \in {v \in Time : v > t}}
  BY DEF After
<1> HIDE DEF n, kept
<1>6. ASSUME NEW x \in After(k, t)'
      PROVE  \E u \in Time, i \in Nat :
               u > t /\ x = <<u, i>> /\ i >= 1 /\ i <= admitted'[k][u]
  <2>1. PICK u \in Time : u > t /\ x \in {u} \X (1 .. admitted'[k][u])
    BY <1>4, <1>6
  <2>2. PICK i \in 1 .. admitted'[k][u] : x = <<u, i>>
    BY <2>1
  <2> QED
    BY <1>1, <2>1, <2>2
<1>7. ASSUME NEW u \in Time, NEW i \in Nat, u > t, i >= 1, i <= admitted[k][u]
      PROVE  <<u, i>> \in After(k, t)
  <2>1. <<u, i>> \in {u} \X (1 .. admitted[k][u])
    BY <1>1, <1>7
  <2> QED
    BY <1>5, <1>7, <2>1
<1>8. ASSUME NEW x \in After(k, t)'
      PROVE  \/ kept /\ x \in After(k, t)
             \/ n = 1 /\ x = last
  <2>1. PICK u \in Time, i \in Nat : u > t /\ x = <<u, i>> /\ i >= 1 /\ i <= admitted'[k][u]
    BY <1>6, <1>8
  <2>2. CASE kept /\ i <= admitted[k][u]
    <3>1. <<u, i>> \in After(k, t)
      BY <1>7, <2>1, <2>2
    <3> QED
      BY <2>1, <2>2, <3>1
  <2>3. CASE ~kept \/ ~(i <= admitted[k][u])
    <3>1. u = now /\ n = 1 /\ i = admitted'[k][u]
      BY <1>1, <1>2, <2>1, <2>3
    <3> QED
      BY <2>1, <3>1
  <2> QED
    BY <2>2, <2>3
<1> QED
  BY <1>2, <1>8 DEF n, kept

\* No attempt lies ahead.
LEMMA NoneAfterNow ==
  ASSUME TypeOK, NEW k \in Keys, \A t \in Time : t > now => admitted[k][t] = 0
  PROVE  After(k, now) = {}
<1>1. \A u \in Time : u > now => 1 .. admitted[k][u] = {}
  OBVIOUS
<1> QED
  BY <1>1 DEF After

\* AfterHistory in numbers.
LEMMA AfterHistoryCount ==
  ASSUME TypeOK, NEW req \in SUBSET Keys, admitted' = History(req),
         NEW k \in Keys, NEW t \in Int, IsFiniteSet(After(k, t))
  PROVE  LET n == IF k \in req THEN 1 ELSE 0
             kept == k = ServerKey \/ Count(buckets', k) = Count(Pruned(buckets), k) + n
         IN /\ IsFiniteSet(After(k, t)')
            /\ Cardinality(After(k, t)') \in Nat /\ Cardinality(After(k, t)) \in Nat
            /\ kept => Cardinality(After(k, t)') <= Cardinality(After(k, t)) + n
            /\ ~kept => Cardinality(After(k, t)') <= n
<1> DEFINE n == IF k \in req THEN 1 ELSE 0
           kept == k = ServerKey \/ Count(buckets', k) = Count(Pruned(buckets), k) + n
           last == <<now, admitted'[k][now]>>
<1>1. /\ kept /\ n = 0 => After(k, t)' \subseteq After(k, t)
      /\ kept => After(k, t)' \subseteq After(k, t) \union {last}
      /\ ~kept => After(k, t)' \subseteq {} \union {last}
      /\ ~kept /\ n = 0 => After(k, t)' \subseteq {}
  BY AfterHistory
<1>2. n \in {0, 1}
  OBVIOUS
<1> HIDE DEF n, kept, last
<1>3. IsFiniteSet({}) /\ Cardinality({}) = 0
  BY FS_EmptySet
<1>4. CASE kept
  <2>1. After(k, t)' \subseteq After(k, t) \union {last}
    BY <1>1, <1>4
  <2>2. /\ IsFiniteSet(After(k, t)')
        /\ Cardinality(After(k, t)') \in Nat /\ Cardinality(After(k, t)) \in Nat
        /\ Cardinality(After(k, t)') <= Cardinality(After(k, t)) + 1
        /\ After(k, t)' \subseteq After(k, t) => Cardinality(After(k, t)') <= Cardinality(After(k, t))
    BY <2>1, OneMore
  <2> QED
    BY <1>1, <1>2, <1>4, <2>2 DEF n, kept
<1>5. CASE ~kept
  <2>1. After(k, t)' \subseteq {} \union {last}
    BY <1>1, <1>5
  <2>2. /\ IsFiniteSet(After(k, t)')
        /\ Cardinality(After(k, t)') \in Nat
        /\ Cardinality(After(k, t)') <= Cardinality({}) + 1
        /\ After(k, t)' \subseteq {} => Cardinality(After(k, t)') <= Cardinality({})
    BY <1>3, <2>1, OneMore
  <2>3. Cardinality(After(k, t)) \in Nat
    BY FS_CardinalityType
  <2> QED
    BY <1>1, <1>2, <1>3, <1>5, <2>2, <2>3 DEF n, kept
<1> QED
  BY <1>4, <1>5

\* What the pruned table says of the attempts of the last window: a window that
\* is over ended after every attempt its bucket had counted grew old.
LEMMA PrunedLimited ==
  ASSUME Inv, NEW k \in Keys, NEW w \in Int, w = now - Window
  PROVE  /\ Count(Pruned(buckets), k) \in Nat
         /\ Count(Pruned(buckets), k) <= Threshold(k)
         /\ Cardinality(After(k, w)) <= Threshold(k) + Count(Pruned(buckets), k)
         /\ Pruned(buckets)[k] # None =>
              /\ Pruned(buckets)[k].count = Count(Pruned(buckets), k)
              /\ Pruned(buckets)[k].resetAt \in Nat
              /\ Cardinality(After(k, Pruned(buckets)[k].resetAt - Window))
                   <= Count(Pruned(buckets), k)
<1>1. now \in Nat /\ Sound(buckets) /\ Limited(k) /\ Threshold(k) \in Nat /\ Window \in Nat
  BY NatConstants DEF Inv, TypeOK, Time
<1>2. buckets[k] # None => buckets[k].count \in Nat /\ buckets[k].resetAt \in Nat
  BY <1>1, HeldBucket DEF Sound, Bucket, Held
<1>3. After(k, w) = Recent(k)
  BY DEF Recent
<1>4. CASE Pruned(buckets)[k] # None
  <2>1. Pruned(buckets)[k] = buckets[k] /\ buckets[k] # None
    BY <1>1, <1>4, PrunedFacts
  <2> QED
    BY <1>1, <1>2, <1>3, <1>4, <2>1 DEF Limited, Count
<1>5. CASE Pruned(buckets)[k] = None /\ buckets[k] = None
  BY <1>1, <1>3, <1>5 DEF Limited, Count
<1>6. CASE Pruned(buckets)[k] = None /\ buckets[k] # None
  <2>1. buckets[k].resetAt <= now
    BY <1>1, <1>6, PrunedFacts
  <2>2. PICK t \in Int : t = buckets[k].resetAt - Window
    BY <1>1, <1>2, <1>6
  <2>3. t <= w /\ IsFiniteSet(After(k, t)) /\ IsFiniteSet(After(k, w))
    BY <1>1, <1>2, <1>6, <2>1, <2>2 DEF Limited
  <2>4. Cardinality(After(k, w)) <= Cardinality(After(k, t))
    BY <2>3, AfterMonotone
  <2>5. Cardinality(After(k, t)) <= buckets[k].count /\ buckets[k].count <= Threshold(k)
    BY <1>1, <1>6, <2>2 DEF Limited, Count
  <2>6. Cardinality(After(k, w)) \in Nat /\ Cardinality(After(k, t)) \in Nat
    BY <2>3, FS_CardinalityType
  <2>7. Count(Pruned(buckets), k) = 0
    BY <1>6 DEF Count
  <2> QED
    BY <1>1, <1>2, <1>6, <2>4, <2>5, <2>6, <2>7
<1> QED
  BY <1>4, <1>5, <1>6

\* The bucket of k whichever way it was carried, in numbers.
LEMMA OutcomeLimited ==
  ASSUME Inv, NEW req \in SUBSET Keys, Outcome(req), now' = now, NEW k \in Keys
  PROVE  Limited(k)'
<1> DEFINE n == IF k \in req THEN 1 ELSE 0
           old == Count(Pruned(buckets), k)
           new == Count(buckets', k)
           kept == k = ServerKey \/ new = old + n
<1>1. /\ now \in Nat /\ Window \in Nat /\ Window > 0 /\ TypeOK /\ Sound(buckets)
      /\ Threshold(k) \in Nat /\ Threshold(k) > 0
  BY NatConstants DEF Inv, TypeOK, Time
<1>2. admitted' = History(req) /\ Sound(buckets')
  BY DEF Outcome, Advanced
<1>3. Carried(Pruned(buckets), buckets', k, n)
  BY DEF Outcome
<1>4. PICK w \in Int : w = now - Window
  BY <1>1
<1>5. /\ old \in Nat /\ old <= Threshold(k)
      /\ Cardinality(After(k, w)) <= Threshold(k) + old
      /\ Pruned(buckets)[k] # None =>
           /\ Pruned(buckets)[k].count = old
           /\ Pruned(buckets)[k].resetAt \in Nat
           /\ Cardinality(After(k, Pruned(buckets)[k].resetAt - Window)) <= old
  BY <1>4, PrunedLimited
<1>6. buckets'[k] # None => buckets'[k].count \in Nat /\ buckets'[k].resetAt \in Nat
  BY <1>2, HeldBucket DEF Sound, Bucket, Held
<1>7. n \in {0, 1} /\ new \in Nat
  BY <1>6 DEF Count
<1>8. \A t \in Int : IsFiniteSet(After(k, t))
  BY DEF Inv, Limited
<1>9. ASSUME NEW t \in Int
      PROVE  /\ IsFiniteSet(After(k, t)')
             /\ Cardinality(After(k, t)') \in Nat /\ Cardinality(After(k, t)) \in Nat
             /\ kept => Cardinality(After(k, t)') <= Cardinality(After(k, t)) + n
             /\ ~kept => Cardinality(After(k, t)') <= n
  BY <1>1, <1>2, <1>8, AfterHistoryCount
<1>10. (\A t \in Time : t > now => admitted'[k][t] = 0) /\ Time' = Time
  <2>1. \A t \in Time : t > now => t # now /\ admitted[k][t] = 0
    BY <1>1 DEF Inv, Limited, Time
  <2>2. \A t \in Time : t # now => admitted'[k][t] = 0 \/ admitted'[k][t] = admitted[k][t]
    BY <1>1, <1>2, HistoryValue
  <2> QED
    BY <2>1, <2>2 DEF Time
<1>11. Cardinality(After(k, now)) = 0
  BY <1>1, NoneAfterNow, FS_EmptySet DEF Inv, Limited
<1>12. PICK m \in Int : m = now
  BY <1>1
<1>13. new <= Threshold(k)
  <2>1. k \in req /\ buckets'[k] # None => new <= Threshold(k)
    BY DEF Outcome, Count
  <2>2. k \notin req \/ buckets'[k] = None => new = 0 \/ new = old
    BY <1>3, <1>5 DEF Carried, Count
  <2> QED
    BY <1>1, <1>5, <2>1, <2>2
<1>14. Recent(k)' = After(k, w)'
  BY <1>4 DEF Recent, After, Time
<1> HIDE DEF n, old, new, kept
<1>15. /\ Cardinality(After(k, w)') <= Threshold(k) + new
       /\ buckets'[k] # None =>
            \E r \in Int : /\ r = buckets'[k].resetAt - Window
                           /\ Cardinality(After(k, r)') <= new
  <2>1. CASE buckets'[k] = None /\ (k = ServerKey => Pruned(buckets)[k] = None /\ n = 0)
    <3>1. new = 0
      BY <2>1 DEF new, Count
    <3>2. kept => n = 0 /\ old = 0
      <4>1. k = ServerKey => old = 0 /\ n = 0
        BY <2>1 DEF old, Count
      <4> QED
        BY <1>5, <1>7, <3>1, <4>1 DEF kept
    <3> QED
      BY <1>1, <1>5, <1>7, <1>9, <2>1, <3>1, <3>2
  <2>2. CASE /\ buckets'[k] # None /\ Pruned(buckets)[k] # None
             /\ buckets'[k].count = Pruned(buckets)[k].count + n
             /\ buckets'[k].resetAt = Pruned(buckets)[k].resetAt
    <3>1. new = old + n
      BY <2>2 DEF new, old, Count
    <3>2. kept
      BY <3>1 DEF kept
    <3>3. PICK r \in Int : r = buckets'[k].resetAt - Window
      BY <1>1, <1>5, <2>2
    <3>4. Cardinality(After(k, r)) <= old
      BY <1>5, <2>2, <3>3
    <3>5. Cardinality(After(k, r)') <= new
      BY <1>5, <1>7, <1>9, <3>1, <3>2, <3>4
    <3> QED
      BY <1>1, <1>5, <1>7, <1>9, <3>1, <3>2, <3>3, <3>5
  <2>3. CASE /\ buckets'[k] # None /\ (k = ServerKey => Pruned(buckets)[k] = None)
             /\ buckets'[k].count = n
             /\ buckets'[k].resetAt = now + Window
    <3>1. new = n
      BY <2>3 DEF new, Count
    <3>2. kept => old = 0
      <4>1. k = ServerKey => old = 0
        BY <2>3 DEF old, Count
      <4> QED
        BY <1>5, <1>7, <3>1, <4>1 DEF kept
    <3>3. m = buckets'[k].resetAt - Window
      BY <1>1, <1>12, <2>3
    <3>4. Cardinality(After(k, m)) = 0
      BY <1>11, <1>12
    <3>5. Cardinality(After(k, m)') <= new
      BY <1>7, <1>9, <3>1, <3>4
    <3>6. Cardinality(After(k, w)') <= Threshold(k) + new
      BY <1>1, <1>5, <1>7, <1>9, <3>1, <3>2
    <3> QED
      BY <3>3, <3>5, <3>6
  <2> QED
    BY <1>3, <2>1, <2>2, <2>3 DEF Carried, n
<1>16. buckets'[k] # None => buckets'[k].count = new
  BY DEF new, Count
<1>17. buckets'[k] # None => Cardinality(After(k, buckets[k].resetAt - Window)') <= new
  BY <1>15 DEF After, Time
<1> QED
  BY <1>9, <1>10, <1>13, <1>14, <1>15, <1>16, <1>17 DEF Limited, new, Threshold, Count

-----------------------------------------------------------------------------
(* The invariant.                                                          *)

LEMMA InitInv == Init => Inv
<1> SUFFICES ASSUME Init PROVE Inv
  OBVIOUS
<1>1. Held(buckets) = {}
  BY DEF Init, Held
<1>2. /\ IsFiniteSet({}) /\ Cardinality({}) = 0
      /\ MaxEntries \in Nat /\ Window \in Nat /\ \A k \in Keys : Threshold(k) \in Nat
  BY FS_EmptySet, NatConstants
<1>3. now \in Time /\ buckets \in Table /\ admitted \in [Keys -> [Time -> Nat]]
  BY TimeAssumption DEF Init, Time, Table
<1>4. TypeOK
  BY <1>1, <1>2, <1>3 DEF TypeOK
<1>5. Sound(buckets)
  BY <1>1, <1>2, <1>3 DEF Sound
<1>6. ASSUME NEW k \in Keys PROVE Limited(k)
  <2>1. \A t : After(k, t) = {}
    BY <1>6 DEF After, Init
  <2>2. buckets[k] = None /\ Count(buckets, k) = 0
    BY <1>6 DEF Init, Count
  <2>3. Recent(k) = {}
    BY <2>1 DEF Recent
  <2>4. \A t \in Time : admitted[k][t] = 0
    BY DEF Init
  <2>5. Cardinality(Recent(k)) = 0 /\ \A t \in Int : IsFiniteSet(After(k, t))
    BY <1>2, <2>1, <2>3
  <2>6. Threshold(k) \in Nat
    BY <1>2
  <2> QED
    BY <2>2, <2>4, <2>5, <2>6 DEF Limited
<1> QED
  BY <1>4, <1>5, <1>6 DEF Inv

LEMMA ConsumeInv ==
  ASSUME Inv, NEW ip \in Addresses, NEW a \in Accounts, Consume(ip, a), UNCHANGED now
  PROVE  Inv'
<1>1. TypeOK /\ Sound(buckets) /\ now \in Nat /\ now' = now
  BY DEF Inv, TypeOK, Time
<1>2. PICK req \in SUBSET Keys : Outcome(req)
  BY <1>1, ConsumeFacts
<1>3. Sound(buckets')
  BY <1>2 DEF Outcome, Advanced
<1>4. admitted' \in [Keys -> [Time -> Nat]]
  <2>1. admitted' = History(req)
    BY <1>2 DEF Outcome
  <2>2. \A k \in Keys : \A t \in Time : admitted'[k][t] \in Nat
    BY <1>1, <2>1, HistoryValue
  <2>3. /\ admitted' = [k \in Keys |-> admitted'[k]]
        /\ \A k \in Keys : admitted'[k] = [t \in Time |-> admitted'[k][t]]
    BY <2>1 DEF History
  <2>4. \A k \in Keys : admitted'[k] \in [Time -> Nat]
    BY <2>2, <2>3
  <2> QED
    BY <2>3, <2>4
<1>5. TypeOK'
  BY <1>1, <1>3, <1>4 DEF TypeOK, Sound, Table, Time, Keys, Bucket, Held
<1>6. Sound(buckets)'
  BY <1>1, <1>3 DEF Sound, Table, Held, Keys, Bucket
<1>7. \A k \in Keys : Limited(k)'
  BY <1>1, <1>2, OutcomeLimited
<1> QED
  BY <1>5, <1>6, <1>7 DEF Inv, Keys

LEMMA ResetAccountInv ==
  ASSUME Inv, NEW a \in Accounts, ResetAccount(a), UNCHANGED now
  PROVE  Inv'
<1> DEFINE u == AccountKey(a)
<1>1. TypeOK /\ Sound(buckets) /\ now \in Nat /\ now' = now /\ u \in Keys
  BY KeyFacts DEF Inv, TypeOK, Time
<1>2. /\ buckets' = Put(buckets, u, None)
      /\ admitted' = [admitted EXCEPT ![u] = [t \in Time |-> 0]]
  BY DEF ResetAccount
<1> HIDE DEF u
<1>3. /\ buckets' \in Table
      /\ buckets'[u] = None
      /\ \A o \in Keys \ {u} : buckets'[o] = buckets[o]
      /\ Held(buckets') = Held(buckets) \ {u}
  BY <1>1, <1>2, PutFacts DEF Sound
<1>4. IsFiniteSet(Held(buckets')) /\ Cardinality(Held(buckets')) <= MaxEntries
  <2>1. /\ IsFiniteSet(Held(buckets'))
        /\ Cardinality(Held(buckets')) <= Cardinality(Held(buckets))
    BY <1>1, <1>3, FS_Subset DEF Sound
  <2> QED
    BY <1>1, <2>1, FS_CardinalityType, NatConstants DEF Sound
<1>5. \A o \in Held(buckets') : buckets'[o].lastSeen <= now
  <2>1. \A o \in Held(buckets') : o \in Held(buckets) /\ o \in Keys \ {u}
    BY <1>3 DEF Held
  <2> QED
    BY <1>1, <1>3, <2>1 DEF Sound
<1>6. Sound(buckets')
  BY <1>3, <1>4, <1>5 DEF Sound
<1>7. Sound(buckets)'
  BY <1>1, <1>6 DEF Sound, Table, Held, Keys, Bucket
<1>8. admitted' \in [Keys -> [Time -> Nat]]
  BY <1>1, <1>2 DEF TypeOK
<1>9. TypeOK'
  BY <1>1, <1>6, <1>8 DEF TypeOK, Sound, Table, Time, Keys, Bucket, Held
<1>10. ASSUME NEW k \in Keys PROVE Limited(k)'
  <2>1. Limited(k) /\ Threshold(k) \in Nat /\ Window \in Nat
    BY NatConstants DEF Inv
  <2>2. CASE k = u
    <3>1. \A t \in Time : admitted'[k][t] = 0
      BY <1>1, <1>2, <2>2 DEF TypeOK
    <3>2. \A t \in Int : After(k, t)' = {}
      BY <3>1 DEF After, Time
    <3>3. Recent(k)' = {}
      BY <3>1 DEF Recent, After, Time
    <3>4. Count(buckets, k)' = 0
      BY <1>3, <2>2 DEF Count
    <3>5. IsFiniteSet({}) /\ Cardinality({}) = 0
      BY FS_EmptySet
    <3>6. \A t \in Time' : admitted'[k][t] = 0
      BY <3>1 DEF Time
    <3>7. Cardinality(Recent(k)') = 0 /\ \A t \in Int : IsFiniteSet(After(k, t)')
      BY <3>2, <3>3, <3>5
    <3>8. Threshold(k)' = Threshold(k)
      BY DEF Threshold
    <3> QED
      BY <1>3, <2>1, <2>2, <3>4, <3>6, <3>7, <3>8 DEF Limited
  <2>3. CASE k # u
    <3>1. admitted'[k] = admitted[k] /\ buckets'[k] = buckets[k]
      BY <1>1, <1>2, <1>3, <2>3 DEF TypeOK
    <3>2. \A t \in Int : After(k, t)' = After(k, t)
      BY <3>1 DEF After, Time
    <3>3. Recent(k)' = Recent(k)
      BY <1>1, <3>1 DEF Recent, After, Time
    <3>4. Count(buckets, k)' = Count(buckets, k)
      BY <3>1 DEF Count
    <3>5. buckets[k] # None => After(k, buckets[k].resetAt - Window)' = After(k, buckets[k].resetAt - Window)
      BY <3>1 DEF After, Time
    <3>6. \A t \in Time' : t > now' => admitted'[k][t] = 0
      BY <1>1, <2>1, <3>1 DEF Time, Limited
    <3> QED
      BY <2>1, <3>1, <3>2, <3>3, <3>4, <3>5, <3>6 DEF Limited, Threshold
  <2> QED
    BY <2>2, <2>3
<1> QED
  BY <1>7, <1>9, <1>10 DEF Inv, Keys

LEMMA TickInv ==
  ASSUME Inv, Tick, UNCHANGED <<buckets, admitted>>
  PROVE  Inv'
<1>1. /\ TypeOK /\ Sound(buckets) /\ now \in Nat /\ Window \in Nat
      /\ now' = now + 1 /\ now < MaxTime /\ MaxTime \in Nat
      /\ buckets' = buckets /\ admitted' = admitted
  BY NatConstants, TimeAssumption DEF Inv, TypeOK, Time, Tick
<1>2. now' \in Time
  BY <1>1 DEF Time
<1>3. TypeOK'
  BY <1>1, <1>2 DEF TypeOK, Table, Time, Keys, Bucket, Held
<1>4. \A o \in Held(buckets) : buckets[o].lastSeen <= now'
  <2>1. \A o \in Held(buckets) : buckets[o].lastSeen \in Nat /\ buckets[o].lastSeen <= now
    BY <1>1, HeldBucket DEF Sound, Bucket
  <2> QED
    BY <1>1, <2>1
<1>5. Sound(buckets)'
  BY <1>1, <1>4 DEF Sound, Table, Held, Keys, Bucket
<1>6. ASSUME NEW k \in Keys PROVE Limited(k)'
  <2>1. Limited(k) /\ Threshold(k) \in Nat
    BY NatConstants DEF Inv
  <2>2. PICK w \in Int : w = now - Window
    BY <1>1
  <2>3. PICK v \in Int : v = now' - Window
    BY <1>1
  <2>4. \A t \in Int : After(k, t)' = After(k, t)
    BY <1>1 DEF After, Time
  <2>5. Recent(k) = After(k, w) /\ Recent(k)' = After(k, v)
    BY <1>1, <2>2, <2>3 DEF Recent, After, Time
  <2>6. Cardinality(Recent(k)') <= Cardinality(Recent(k))
    <3>1. w <= v /\ IsFiniteSet(After(k, w))
      BY <1>1, <2>1, <2>2, <2>3 DEF Limited
    <3> QED
      BY <2>5, <3>1, AfterMonotone
  <2>7. IsFiniteSet(After(k, w)) /\ IsFiniteSet(After(k, v))
    BY <2>1 DEF Limited
  <2>8. Cardinality(Recent(k)') \in Nat /\ Cardinality(Recent(k)) \in Nat
    BY <2>5, <2>7, FS_CardinalityType
  <2>9. Count(buckets, k) \in Nat /\ Count(buckets, k)' = Count(buckets, k)
    <3>1. buckets[k] # None => buckets[k].count \in Nat
      BY <1>1, HeldBucket DEF Sound, Bucket, Held
    <3> QED
      BY <1>1, <3>1 DEF Count
  <2>10. Cardinality(Recent(k)') <= Threshold(k) + Count(buckets, k)'
    BY <2>1, <2>6, <2>8, <2>9 DEF Limited
  <2>11. After(k, buckets[k].resetAt - Window)' = After(k, buckets[k].resetAt - Window)
    BY <1>1 DEF After, Time
  <2>12. \A t \in Time' : t > now' => admitted'[k][t] = 0
    <3>1. \A t \in Time : t \in Int
      BY DEF Time
    <3>2. \A t \in Time : t > now' => t > now
      BY <1>1, <3>1
    <3> QED
      BY <1>1, <2>1, <3>2 DEF Limited, Time
  <2> QED
    BY <1>1, <2>1, <2>4, <2>9, <2>10, <2>11, <2>12 DEF Limited, Threshold
<1> QED
  BY <1>3, <1>5, <1>6 DEF Inv, Keys

LEMMA StutterInv ==
  ASSUME Inv, UNCHANGED vars
  PROVE  Inv'
<1>1. now' = now /\ buckets' = buckets /\ admitted' = admitted
  BY DEF vars
<1>2. TypeOK' /\ Sound(buckets)'
  BY <1>1 DEF Inv, TypeOK, Sound, Table, Held, Keys, Bucket, Time
<1>3. ASSUME NEW k \in Keys PROVE Limited(k)'
  <2>1. Limited(k)
    BY DEF Inv
  <2> QED
    BY <1>1, <2>1 DEF Limited, Recent, After, Count, Time, Threshold
<1> QED
  BY <1>2, <1>3 DEF Inv, Keys

LEMMA StepInv == Inv /\ [Next]_vars => Inv'
BY ConsumeInv, ResetAccountInv, TickInv, StutterInv DEF Next

\* Every state the limiter reaches satisfies the invariant.
THEOREM InvAlways == Spec => []Inv
BY InitInv, StepInv, PTL DEF Spec

-----------------------------------------------------------------------------
(* The theorems.                                                           *)

\* The table never exceeds its entries, however its buckets come and go.
THEOREM TypeCorrect == Spec => []TypeOK
<1>1. Inv => TypeOK
  BY DEF Inv
<1> QED
  BY <1>1, InvAlways, PTL

\* No window anywhere admits more than twice a threshold, although the buckets
\* count in fixed windows: the bucket of now has counted what was admitted
\* since it was made, and the one before it at most the threshold.
THEOREM WithinLimitsAlways == Spec => []WithinLimits
<1>1. ASSUME Inv PROVE WithinLimits
  <2>1. ASSUME NEW k \in Keys PROVE Cardinality(Recent(k)) <= 2 * Threshold(k)
    <3>1. Limited(k) /\ Threshold(k) \in Nat /\ now \in Nat /\ Window \in Nat
      BY <1>1, NatConstants DEF Inv, TypeOK, Time
    <3>2. Count(buckets, k) \in Nat
      BY <1>1, HeldBucket DEF Inv, Sound, Bucket, Held, Count
    <3>3. PICK w \in Int : w = now - Window
      BY <3>1
    <3>4. Cardinality(Recent(k)) \in Nat
      BY <3>1, <3>3, FS_CardinalityType DEF Limited, Recent
    <3> QED
      BY <3>1, <3>2, <3>4 DEF Limited
  <2> QED
    BY <2>1 DEF WithinLimits
<1> QED
  BY <1>1, InvAlways, PTL

\* What WindowsKept asks of one step.
WindowsKeptStep ==
  \A k \in Held(Pruned(buckets)) :
    \/ /\ buckets'[k] # None
       /\ buckets'[k].resetAt = buckets[k].resetAt
       /\ buckets'[k].count >= buckets[k].count
    \/ /\ k # ServerKey
       /\ Cardinality(Held(buckets')) = MaxEntries
       /\ \A o \in Held(buckets') \ {ServerKey} :
            buckets[k].lastSeen <= buckets'[o].lastSeen
    \/ \E a \in Accounts : k = AccountKey(a) /\ ResetAccount(a)

LEMMA WindowsKeptByStep == Inv /\ [Next]_vars => [WindowsKeptStep]_vars
<1> SUFFICES ASSUME Inv, Next PROVE WindowsKeptStep
  OBVIOUS
<1>1. Sound(buckets) /\ now \in Nat
  BY DEF Inv, TypeOK, Time
<1>2. \A k \in Held(Pruned(buckets)) :
        k \in Keys /\ Pruned(buckets)[k] = buckets[k] /\ buckets[k] \in Bucket /\ buckets[k] # None
  BY <1>1, PrunedFacts, HeldBucket DEF Sound, Held
<1>3. ASSUME NEW ip \in Addresses, NEW a \in Accounts, Consume(ip, a)
      PROVE  WindowsKeptStep
  <2>1. Advanced(Pruned(buckets), buckets')
    BY <1>1, <1>3, ConsumeFacts DEF Outcome
  <2>2. \A k \in Held(Pruned(buckets)) :
          \/ KeptBucket(Pruned(buckets), buckets', k)
          \/ Displaced(Pruned(buckets), buckets', k)
    BY <2>1 DEF Advanced
  <2> QED
    BY <1>2, <2>2 DEF WindowsKeptStep, KeptBucket, Displaced
<1>4. ASSUME NEW a \in Accounts, ResetAccount(a)
      PROVE  WindowsKeptStep
  <2>1. buckets' = Put(buckets, AccountKey(a), None)
    BY <1>4 DEF ResetAccount
  <2>2. \A k \in Keys : k # AccountKey(a) => buckets'[k] = buckets[k]
    BY <2>1 DEF Put
  <2>3. \A k \in Held(Pruned(buckets)) : buckets[k].count \in Nat
    BY <1>2 DEF Bucket
  <2> QED
    BY <1>2, <1>4, <2>2, <2>3 DEF WindowsKeptStep
<1>5. ASSUME buckets' = buckets
      PROVE  WindowsKeptStep
  <2>1. \A k \in Held(Pruned(buckets)) : buckets[k].count \in Nat
    BY <1>2 DEF Bucket
  <2> QED
    BY <1>2, <1>5, <2>1 DEF WindowsKeptStep
<1> QED
  BY <1>3, <1>4, <1>5 DEF Next

\* A bucket keeps its window and its count until the window is over, unless a
\* full table displaces one not seen later than any it keeps or a login that
\* succeeds forgives its account's.
THEOREM WindowsKeptAlways == Spec => WindowsKept
<1>1. WindowsKept <=> [][WindowsKeptStep]_vars
  BY PTL DEF WindowsKept, WindowsKeptStep
<1> QED
  BY <1>1, InvAlways, WindowsKeptByStep, PTL DEF Spec

=============================================================================
