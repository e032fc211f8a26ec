------------------------- MODULE OpenFileMap_proofs -------------------------
(***************************************************************************)
(* Safety of the map of open files, for any number of inodes and handles.  *)
(*                                                                         *)
(* First what erase and emplace do to a queue, then that the conjunction   *)
(* of the model's invariants is inductive: the links between the map and   *)
(* the queue need that an inode has one entry, the order of the queue that *)
(* an emplace goes to the right place, and the watch over open files that  *)
(* the reference counts are exact.                                         *)
(***************************************************************************)
EXTENDS OpenFileMap, SequenceTheorems, TLAPS

Has(q, i) == \E p \in 1 .. Len(q) : q[p].ino = i

Sorted(s) == \A p, q \in 1 .. Len(s) : p < q =>
                /\ Expired(s[q]) => Expired(s[p])
                /\ s[q].expires = "min" => s[p].expires = "min"

Unique(s) == \A p, q \in 1 .. Len(s) : s[p].ino = s[q].ino => p = q

Queue(s) == s \in Seq(Entry) /\ Sorted(s) /\ Unique(s)

----------------------------------------------------------------------------
\* Positions after an insertion and a removal.

LEMMA InsertAtProperties ==
    ASSUME NEW S, NEW q \in Seq(S), NEW p \in 1 .. Len(q) + 1, NEW e \in S
    PROVE  /\ InsertAt(q, p, e) \in Seq(S)
           /\ Len(InsertAt(q, p, e)) = Len(q) + 1
           /\ \A k \in 1 .. Len(q) + 1 :
                InsertAt(q, p, e)[k] = IF k < p THEN q[k] ELSE IF k = p THEN e ELSE q[k - 1]
<1> DEFINE a == SubSeq(q, 1, p - 1)
           b == SubSeq(q, p, Len(q))
           r == (a \o <<e>>) \o b
<1>1. Len(q) \in Nat /\ p \in Nat /\ p >= 1 /\ p <= Len(q) + 1
  BY LenProperties
<1>2. /\ a \in Seq(S) /\ Len(a) = p - 1
      /\ \A k \in 1 .. p - 1 : a[k] = q[k]
  BY <1>1
<1>3. /\ b \in Seq(S) /\ Len(b) = Len(q) - p + 1
      /\ \A k \in 1 .. Len(q) - p + 1 : b[k] = q[p + k - 1]
  BY <1>1
<1> HIDE DEF a, b
<1>4. /\ a \o <<e>> \in Seq(S) /\ Len(a \o <<e>>) = p
      /\ \A k \in 1 .. p : (a \o <<e>>)[k] = IF k < p THEN a[k] ELSE e
  BY <1>1, <1>2
<1> DEFINE c == a \o <<e>>
<1> HIDE DEF c
<1>5. /\ c \o b \in Seq(S) /\ Len(c \o b) = Len(q) + 1
      /\ \A k \in 1 .. Len(q) + 1 : (c \o b)[k] = IF k <= p THEN c[k] ELSE b[k - p]
  <2>1. c \in Seq(S) /\ Len(c) = p /\ b \in Seq(S)
    BY <1>3, <1>4 DEF c
  <2>2. /\ c \o b \in Seq(S) /\ Len(c \o b) = Len(c) + Len(b)
        /\ \A k \in 1 .. Len(c) + Len(b) :
             (c \o b)[k] = IF k <= Len(c) THEN c[k] ELSE b[k - Len(c)]
    BY <2>1, ConcatProperties
  <2>3. Len(c) + Len(b) = Len(q) + 1
    BY <1>1, <1>3, <2>1
  <2> QED
    BY <2>1, <2>2, <2>3
<1>6. \A k \in 1 .. Len(q) + 1 :
        (c \o b)[k] = IF k < p THEN q[k] ELSE IF k = p THEN e ELSE q[k - 1]
  <2> SUFFICES ASSUME NEW k \in 1 .. Len(q) + 1
               PROVE  (c \o b)[k] = IF k < p THEN q[k] ELSE IF k = p THEN e ELSE q[k - 1]
    OBVIOUS
  <2>1. CASE k <= p
    BY <2>1, <1>1, <1>2, <1>4, <1>5 DEF c
  <2>2. CASE k > p
    <3>1. k - p \in 1 .. Len(q) - p + 1 /\ p + (k - p) - 1 = k - 1
      BY <1>1, <2>2
    <3> QED
      BY <1>1, <1>3, <1>5, <2>2, <3>1
  <2>3. k <= p \/ k > p
    BY <1>1
  <2> QED
    BY <2>1, <2>2, <2>3, Zenon
<1>7. InsertAt(q, p, e) = c \o b
  BY DEF InsertAt, a, b, c
<1> QED
  BY <1>5, <1>6, <1>7

LEMMA RemoveAtProperties ==
    ASSUME NEW S, NEW q \in Seq(S), NEW p \in 1 .. Len(q)
    PROVE  /\ RemoveAt(q, p) \in Seq(S)
           /\ Len(RemoveAt(q, p)) = Len(q) - 1
           /\ \A k \in 1 .. Len(q) - 1 : RemoveAt(q, p)[k] = IF k < p THEN q[k] ELSE q[k + 1]
<1> DEFINE a == SubSeq(q, 1, p - 1)
           b == SubSeq(q, p + 1, Len(q))
<1>1. Len(q) \in Nat /\ p \in Nat /\ p >= 1 /\ p <= Len(q)
  BY LenProperties
<1>2. /\ a \in Seq(S) /\ Len(a) = p - 1
      /\ \A k \in 1 .. p - 1 : a[k] = q[k]
  BY <1>1
<1>3. /\ b \in Seq(S) /\ Len(b) = Len(q) - p
      /\ \A k \in 1 .. Len(q) - p : b[k] = q[p + k]
  BY <1>1
<1> HIDE DEF a, b
<1>4. /\ a \o b \in Seq(S) /\ Len(a \o b) = Len(q) - 1
      /\ \A k \in 1 .. Len(q) - 1 : (a \o b)[k] = IF k < p THEN a[k] ELSE b[k - (p - 1)]
  <2>1. /\ a \o b \in Seq(S) /\ Len(a \o b) = Len(a) + Len(b)
        /\ \A k \in 1 .. Len(a) + Len(b) :
             (a \o b)[k] = IF k <= Len(a) THEN a[k] ELSE b[k - Len(a)]
    BY <1>2, <1>3, ConcatProperties
  <2>2. Len(a) + Len(b) = Len(q) - 1
    BY <1>1, <1>2, <1>3
  <2>3. \A k \in 1 .. Len(q) - 1 : k <= p - 1 <=> k < p
    BY <1>1
  <2> QED
    BY <1>2, <2>1, <2>2, <2>3
<1>5. \A k \in 1 .. Len(q) - 1 : (a \o b)[k] = IF k < p THEN q[k] ELSE q[k + 1]
  <2> SUFFICES ASSUME NEW k \in 1 .. Len(q) - 1
               PROVE  (a \o b)[k] = IF k < p THEN q[k] ELSE q[k + 1]
    OBVIOUS
  <2>1. CASE k < p
    BY <2>1, <1>1, <1>2, <1>4
  <2>2. CASE k >= p
    <3>1. k - (p - 1) \in 1 .. Len(q) - p /\ p + (k - (p - 1)) = k + 1
      BY <1>1, <2>2
    <3> QED
      BY <1>1, <1>3, <1>4, <2>2, <3>1
  <2>3. k < p \/ k >= p
    BY <1>1
  <2> QED
    BY <2>1, <2>2, <2>3, Zenon
<1>6. RemoveAt(q, p) = a \o b
  BY DEF RemoveAt, a, b
<1> QED
  BY <1>4, <1>5, <1>6

----------------------------------------------------------------------------
\* A queue after the removal of one entry ...

LEMMA Removed ==
    ASSUME NEW q, Queue(q), NEW p \in 1 .. Len(q),
           NEW r \in Seq(Entry), Len(r) = Len(q) - 1,
           \A k \in 1 .. Len(r) : r[k] = IF k < p THEN q[k] ELSE q[k + 1]
    PROVE  /\ Queue(r)
           /\ \A j : Has(r, j) <=> Has(q, j) /\ j # q[p].ino
<1> DEFINE old(k) == IF k < p THEN k ELSE k + 1
           new(k) == IF k < p THEN k ELSE k - 1
<1>1. q \in Seq(Entry) /\ Len(q) \in Nat /\ Len(r) \in Nat /\ p \in Nat /\ p >= 1 /\ p <= Len(q)
  BY LenProperties DEF Queue
<1>2. \A k \in 1 .. Len(r) : old(k) \in 1 .. Len(q) /\ old(k) # p /\ r[k] = q[old(k)]
  BY <1>1
<1>3. \A k, l \in 1 .. Len(r) : /\ k < l => old(k) < old(l)
                                /\ old(k) = old(l) => k = l
  BY <1>1
<1>4. \A k \in 1 .. Len(q) : k # p => new(k) \in 1 .. Len(r) /\ old(new(k)) = k
  BY <1>1
<1> HIDE DEF old, new
<1>5. Sorted(r)
  <2> SUFFICES ASSUME NEW k \in 1 .. Len(r), NEW l \in 1 .. Len(r), k < l
               PROVE  /\ Expired(r[l]) => Expired(r[k])
                      /\ r[l].expires = "min" => r[k].expires = "min"
    BY DEF Sorted
  <2>1. /\ old(k) \in 1 .. Len(q) /\ old(l) \in 1 .. Len(q) /\ old(k) < old(l)
        /\ r[k] = q[old(k)] /\ r[l] = q[old(l)]
    BY <1>2, <1>3, Zenon
  <2>2. /\ Expired(q[old(l)]) => Expired(q[old(k)])
        /\ q[old(l)].expires = "min" => q[old(k)].expires = "min"
    BY <2>1 DEF Queue, Sorted
  <2> QED
    BY <2>1, <2>2, Zenon
<1>6. Unique(r)
  <2> SUFFICES ASSUME NEW k \in 1 .. Len(r), NEW l \in 1 .. Len(r), r[k].ino = r[l].ino
               PROVE  k = l
    BY Zenon DEF Unique
  <2>1. /\ old(k) \in 1 .. Len(q) /\ old(l) \in 1 .. Len(q)
        /\ q[old(k)].ino = q[old(l)].ino
    BY <1>2, Zenon
  <2> QED
    BY <1>3, <2>1, Zenon DEF Queue, Unique
<1>7. ASSUME NEW j PROVE Has(r, j) <=> Has(q, j) /\ j # q[p].ino
  <2>1. ASSUME NEW k \in 1 .. Len(r), r[k].ino = j PROVE Has(q, j) /\ j # q[p].ino
    BY <1>2, <2>1, Zenon DEF Has, Queue, Unique
  <2>2. ASSUME NEW k \in 1 .. Len(q), q[k].ino = j, j # q[p].ino PROVE Has(r, j)
    <3>1. new(k) \in 1 .. Len(r) /\ r[new(k)] = q[k]
      BY <1>2, <1>4, <2>2, Zenon
    <3> QED
      BY <2>2, <3>1, Zenon DEF Has
  <2> QED
    BY <2>1, <2>2, Zenon DEF Has
<1> QED
  BY <1>5, <1>6, <1>7, Zenon DEF Queue

LEMMA TailQueue ==
    ASSUME NEW q, Queue(q), q # <<>>
    PROVE  /\ Queue(Tail(q))
           /\ \A j : Has(Tail(q), j) <=> Has(q, j) /\ j # q[1].ino
<1>1. /\ q \in Seq(Entry) /\ Tail(q) \in Seq(Entry)
      /\ Len(q) \in Nat /\ 1 \in 1 .. Len(q) /\ Len(Tail(q)) = Len(q) - 1
      /\ \A k \in 1 .. Len(Tail(q)) : Tail(q)[k] = IF k < 1 THEN q[k] ELSE q[k + 1]
  BY DEF Queue
<1> QED
  BY <1>1, Removed

LEMMA WithoutQueue ==
    ASSUME NEW q, Queue(q), NEW i
    PROVE  /\ Queue(Without(q, i))
           /\ \A j : Has(Without(q, i), j) <=> Has(q, j) /\ j # i
<1>1. CASE Positions(q, i) = {}
  BY <1>1, Zenon DEF Without, Positions, Has
<1>2. CASE Positions(q, i) # {}
  <2> DEFINE p == CHOOSE p \in Positions(q, i) : TRUE
  <2>1. p \in 1 .. Len(q) /\ q[p].ino = i
    BY <1>2, Zenon DEF Positions
  <2> HIDE DEF p
  <2>2. /\ RemoveAt(q, p) \in Seq(Entry) /\ Len(RemoveAt(q, p)) = Len(q) - 1
        /\ \A k \in 1 .. Len(q) - 1 : RemoveAt(q, p)[k] = IF k < p THEN q[k] ELSE q[k + 1]
    BY <2>1, RemoveAtProperties, Zenon DEF Queue
  <2>3. /\ Queue(RemoveAt(q, p))
        /\ \A j : Has(RemoveAt(q, p), j) <=> Has(q, j) /\ j # q[p].ino
    BY <2>1, <2>2, Removed
  <2>4. Without(q, i) = RemoveAt(q, p)
    BY <1>2 DEF Without, p
  <2> QED
    BY <2>1, <2>3, <2>4, Zenon
<1> QED
  BY <1>1, <1>2, Zenon

\* ... and after the insertion of one for an inode that has none.

LEMMA Inserted ==
    ASSUME NEW q, Queue(q), NEW p \in 1 .. Len(q) + 1,
           NEW e \in Entry, ~Has(q, e.ino),
           \A k \in 1 .. Len(q) : k < p =>
               /\ Expired(e) => Expired(q[k])
               /\ e.expires = "min" => q[k].expires = "min",
           \A k \in 1 .. Len(q) : k >= p =>
               /\ Expired(q[k]) => Expired(e)
               /\ q[k].expires = "min" => e.expires = "min"
    PROVE  /\ Queue(InsertAt(q, p, e))
           /\ \A j : Has(InsertAt(q, p, e), j) <=> Has(q, j) \/ j = e.ino
<1> DEFINE r == InsertAt(q, p, e)
           old(k) == IF k < p THEN k ELSE k - 1
           new(k) == IF k < p THEN k ELSE k + 1
<1>1. q \in Seq(Entry) /\ Len(q) \in Nat /\ p \in Nat /\ p >= 1 /\ p <= Len(q) + 1
  BY LenProperties DEF Queue
<1>2. /\ r \in Seq(Entry) /\ Len(r) = Len(q) + 1
      /\ \A k \in 1 .. Len(r) : r[k] = IF k < p THEN q[k] ELSE IF k = p THEN e ELSE q[k - 1]
  <2>1. /\ r \in Seq(Entry) /\ Len(r) = Len(q) + 1
        /\ \A k \in 1 .. Len(q) + 1 :
             r[k] = IF k < p THEN q[k] ELSE IF k = p THEN e ELSE q[k - 1]
    BY <1>1, InsertAtProperties
  <2> HIDE DEF r
  <2> QED
    BY <2>1
<1> HIDE DEF r
<1>3. \A k \in 1 .. Len(r) : k # p => old(k) \in 1 .. Len(q) /\ r[k] = q[old(k)]
  BY <1>1, <1>2
<1>4. p \in 1 .. Len(r) /\ r[p] = e
  BY <1>1, <1>2
<1>5. \A k, l \in 1 .. Len(r) : k # p /\ l # p =>
        /\ k < l => old(k) < old(l)
        /\ old(k) = old(l) => k = l
  BY <1>1, <1>2
<1>6. \A k \in 1 .. Len(r) : /\ k < p => old(k) < p
                             /\ p < k => old(k) >= p
                             /\ ~(k < k)
  BY <1>1, <1>2
<1>7. \A k \in 1 .. Len(q) : new(k) \in 1 .. Len(r) /\ new(k) # p /\ old(new(k)) = k
  BY <1>1, <1>2
<1> HIDE DEF old, new
<1>8. Sorted(r)
  <2> SUFFICES ASSUME NEW k \in 1 .. Len(r), NEW l \in 1 .. Len(r), k < l
               PROVE  /\ Expired(r[l]) => Expired(r[k])
                      /\ r[l].expires = "min" => r[k].expires = "min"
    BY DEF Sorted
  <2>1. CASE k # p /\ l # p
    <3>1. /\ old(k) \in 1 .. Len(q) /\ old(l) \in 1 .. Len(q) /\ old(k) < old(l)
          /\ r[k] = q[old(k)] /\ r[l] = q[old(l)]
      BY <1>3, <1>5, <2>1, Zenon
    <3>2. /\ Expired(q[old(l)]) => Expired(q[old(k)])
          /\ q[old(l)].expires = "min" => q[old(k)].expires = "min"
      BY <3>1 DEF Queue, Sorted
    <3> QED
      BY <3>1, <3>2, Zenon
  <2>2. CASE l = p
    BY <1>3, <1>4, <1>6, <2>2, Zenon
  <2>3. CASE k = p
    BY <1>3, <1>4, <1>6, <2>3, Zenon
  <2> QED
    BY <2>1, <2>2, <2>3, Zenon
<1>9. Unique(r)
  <2> SUFFICES ASSUME NEW k \in 1 .. Len(r), NEW l \in 1 .. Len(r), r[k].ino = r[l].ino
               PROVE  k = l
    BY Zenon DEF Unique
  <2>1. CASE k # p /\ l # p
    BY <1>3, <1>5, <2>1, Zenon DEF Queue, Unique
  <2>2. CASE l = p /\ k # p
    BY <1>3, <1>4, <2>2, Zenon DEF Has
  <2>3. CASE k = p /\ l # p
    BY <1>3, <1>4, <2>3, Zenon DEF Has
  <2> QED
    BY <2>1, <2>2, <2>3, Zenon
<1>10. ASSUME NEW j PROVE Has(r, j) <=> Has(q, j) \/ j = e.ino
  <2>1. ASSUME NEW k \in 1 .. Len(r), r[k].ino = j PROVE Has(q, j) \/ j = e.ino
    BY <1>3, <1>4, <2>1, Zenon DEF Has
  <2>2. ASSUME NEW k \in 1 .. Len(q), q[k].ino = j PROVE Has(r, j)
    <3>1. new(k) \in 1 .. Len(r) /\ r[new(k)] = q[k]
      BY <1>3, <1>7, <2>2, Zenon
    <3> QED
      BY <2>2, <3>1, Zenon DEF Has
  <2> QED
    BY <1>4, <2>1, <2>2, Zenon DEF Has
<1> QED
  BY <1>2, <1>8, <1>9, <1>10, Zenon DEF Queue, r

LEMMA EmplaceQueue ==
    ASSUME NEW q, Queue(q), NEW i \in Inos, ~Has(q, i), NEW r \in Emplace(q, i)
    PROVE  Queue(r) /\ \A j : Has(r, j) <=> Has(q, j) \/ j = i
<1> DEFINE e == [ino |-> i, expires |-> "future"]
<1>1. PICK p \in 1 .. Len(q) + 1 : r = InsertAt(q, p, e) /\ \A k \in p .. Len(q) : ~Expired(q[k])
  BY Zenon DEF Emplace
<1>2. e \in Entry /\ e.ino = i /\ ~Expired(e) /\ e.expires # "min"
  BY DEF Entry, Expiry, Expired
<1> HIDE DEF e
<1>3. \A k \in 1 .. Len(q) : k >= p => ~Expired(q[k]) /\ q[k].expires # "min"
  <2>1. Len(q) \in Nat
    BY LenProperties DEF Queue
  <2>2. \A k \in 1 .. Len(q) : k >= p => k \in p .. Len(q)
    BY <2>1
  <2> QED
    BY <1>1, <2>2 DEF Expired
<1> QED
  BY <1>1, <1>2, <1>3, Inserted

LEMMA EmplaceMinQueue ==
    ASSUME NEW q, Queue(q), NEW i \in Inos, ~Has(q, i), NEW r \in EmplaceMin(q, i)
    PROVE  Queue(r) /\ \A j : Has(r, j) <=> Has(q, j) \/ j = i
<1> DEFINE e == [ino |-> i, expires |-> "min"]
<1>1. PICK p \in 1 .. Len(q) + 1 : /\ r = InsertAt(q, p, e)
                                   /\ \A k \in 1 .. Len(q) : (k < p) = (q[k].expires = "min")
  BY Zenon DEF EmplaceMin
<1>2. e \in Entry /\ e.ino = i /\ Expired(e) /\ e.expires = "min"
  BY DEF Entry, Expiry, Expired
<1> HIDE DEF e
<1>3. \A k \in 1 .. Len(q) : k < p => Expired(q[k]) /\ q[k].expires = "min"
  BY <1>1 DEF Expired
<1> QED
  BY <1>1, <1>2, <1>3, Inserted

----------------------------------------------------------------------------
\* The inductive invariant, and what it says in terms of queues.

IInv == TypeOK /\ IteratorsPointBack /\ RefcntExact /\ OpenFilesWatched /\ QueueSorted

MRecord == [refcnt : 0 .. MaxOpen + 1, queued : BOOLEAN]

LEMMA Links ==
    ASSUME IInv
    PROVE  /\ Queue(ofpq)
           /\ \A j \in Inos : ofmap[j].queued <=> Has(ofpq, j)
<1>1. ofpq \in Seq(Entry)
  BY DEF IInv, TypeOK
<1> QED
  BY <1>1, Zenon DEF IInv, IteratorsPointBack, QueueSorted, Queue, Sorted, Unique, Has

LEMMA LinksFollow ==
    ASSUME Queue(ofpq'), \A j \in Inos : ofmap'[j].queued <=> Has(ofpq', j)
    PROVE  IteratorsPointBack' /\ QueueSorted' /\ ofpq' \in Seq(Entry)
BY Zenon DEF Queue, Sorted, Unique, Has, IteratorsPointBack, QueueSorted

LEMMA OneRecord ==
    ASSUME TypeOK, NEW i \in Inos, NEW n \in 0 .. MaxOpen + 1, NEW b \in BOOLEAN,
           ofmap' = [ofmap EXCEPT ![i] = [refcnt |-> n, queued |-> b]]
    PROVE  /\ ofmap' \in [Inos -> MRecord]
           /\ ofmap'[i].refcnt = n /\ ofmap'[i].queued = b
           /\ \A j \in Inos : j # i => ofmap'[j] = ofmap[j]
<1> DEFINE m == [refcnt |-> n, queued |-> b]
<1>1. m \in MRecord /\ m.refcnt = n /\ m.queued = b
  BY DEF MRecord
<1>2. ofmap \in [Inos -> MRecord]
  BY DEF TypeOK, MRecord
<1> HIDE DEF m
<1>3. ofmap' = [ofmap EXCEPT ![i] = m]
  BY DEF m
<1>4. ofmap' \in [Inos -> MRecord] /\ ofmap'[i] = m /\ \A j \in Inos : j # i => ofmap'[j] = ofmap[j]
  BY <1>1, <1>2, <1>3
<1> QED
  BY <1>1, <1>4, Zenon

LEMMA InitIInv == Init => IInv
<1> SUFFICES ASSUME Init PROVE IInv
  OBVIOUS
<1>1. TypeOK
  <2>1. NoRecord \in MRecord /\ 0 \in 0 .. MaxOpen
    BY MaxOpenAssumption DEF NoRecord, MRecord
  <2>2. ofmap \in [Inos -> MRecord] /\ handles \in [Inos -> 0 .. MaxOpen]
    BY <2>1, Zenon DEF Init
  <2>3. scanner \in [pc : ScannerPCs, ino : Inos \cup {0}, eno : BOOLEAN] /\ scanner.pc = "loop"
    BY DEF Init, At, ScannerPCs
  <2>4. ofpq \in Seq(Entry) /\ failed \in [Inos -> BOOLEAN]
    BY DEF Init
  <2> QED
    BY <2>2, <2>3, <2>4 DEF Init, TypeOK, MRecord
<1>2. Len(ofpq) = 0
  BY DEF Init
<1>3. IteratorsPointBack
  BY <1>2 DEF Init, IteratorsPointBack, NoRecord
<1>4. RefcntExact
  BY DEF Init, RefcntExact, NoRecord, Scanning, At
<1>5. OpenFilesWatched
  BY DEF Init, OpenFilesWatched
<1>6. QueueSorted
  BY <1>2 DEF QueueSorted
<1> QED
  BY <1>1, <1>3, <1>4, <1>5, <1>6 DEF IInv

----------------------------------------------------------------------------
\* The public API.

LEMMA RegisterIInv ==
    ASSUME IInv, NEW i \in Inos, openfile_register(i)
    PROVE  IInv'
<1>1. TypeOK /\ RefcntExact /\ OpenFilesWatched
  BY DEF IInv
<1>2. /\ Queue(ofpq)
      /\ \A j \in Inos : ofmap[j].queued <=> Has(ofpq, j)
  BY Links
<1> DEFINE n == ofmap[i].refcnt + 1
<1>3. /\ handles \in [Inos -> 0 .. MaxOpen] /\ handles[i] < MaxOpen
      /\ handles' = [handles EXCEPT ![i] = @ + 1]
  BY <1>1 DEF openfile_register, TypeOK
<1>4. handles' \in [Inos -> 0 .. MaxOpen] /\ handles'[i] = handles[i] + 1
      /\ \A j \in Inos : j # i => handles'[j] = handles[j]
  BY <1>3, MaxOpenAssumption
<1>5. n \in 0 .. MaxOpen + 1
  <2>1. ofmap[i].refcnt = handles[i] \/ ofmap[i].refcnt = handles[i] + 1
    BY <1>1, <1>3 DEF RefcntExact
  <2> QED
    BY <1>3, <2>1, MaxOpenAssumption
<1>6. ofmap' = [ofmap EXCEPT ![i] = [refcnt |-> n, queued |-> TRUE]]
  BY <1>1 DEF openfile_register, TypeOK
<1> HIDE DEF n
<1>7. /\ ofmap' \in [Inos -> MRecord]
      /\ ofmap'[i].refcnt = n /\ ofmap'[i].queued = TRUE
      /\ \A j \in Inos : j # i => ofmap'[j] = ofmap[j]
  BY <1>1, <1>5, <1>6, OneRecord
<1>8. Queue(ofpq') /\ \A j : Has(ofpq', j) <=> Has(ofpq, j) \/ j = i
  <2>1. CASE ofpq' \in Emplace(Without(ofpq, i), i)
    <3>1. /\ Queue(Without(ofpq, i))
          /\ \A j : Has(Without(ofpq, i), j) <=> Has(ofpq, j) /\ j # i
      BY <1>2, WithoutQueue, Zenon
    <3>2. Queue(ofpq') /\ \A j : Has(ofpq', j) <=> Has(Without(ofpq, i), j) \/ j = i
      BY <2>1, <3>1, EmplaceQueue
    <3> QED
      BY <3>1, <3>2, Zenon
  <2>2. CASE ofmap[i].queued /\ ofpq' = ofpq
    BY <1>2, <2>2, Zenon
  <2>3. ofpq' \in Emplace(Without(ofpq, i), i) \/ (ofmap[i].queued /\ ofpq' = ofpq)
    BY Zenon DEF openfile_register
  <2> QED
    BY <2>1, <2>2, <2>3, Zenon
<1>9. \A j \in Inos : ofmap'[j].queued <=> Has(ofpq', j)
  BY <1>2, <1>7, <1>8, Zenon
<1>10. IteratorsPointBack' /\ QueueSorted' /\ ofpq' \in Seq(Entry)
  BY <1>8, <1>9, LinksFollow
<1>11. UNCHANGED <<scanner, stop>>
  BY DEF openfile_register
<1>12. loopcv' \in BOOLEAN
  BY <1>1, Zenon DEF openfile_register, TypeOK, notify_one
<1>13. failed' = [failed EXCEPT ![i] = FALSE] /\ failed \in [Inos -> BOOLEAN]
  BY <1>1 DEF openfile_register, TypeOK
<1>14. failed' \in [Inos -> BOOLEAN] /\ \A j \in Inos : j # i => failed'[j] = failed[j]
  BY <1>13
<1>15. TypeOK'
  BY <1>1, <1>4, <1>7, <1>10, <1>11, <1>12, <1>14 DEF TypeOK, MRecord
<1>16. RefcntExact'
  <2>1. \A j \in Inos : ofmap'[j].refcnt = handles'[j] + (IF Scanning(j)' THEN 1 ELSE 0)
    BY <1>1, <1>3, <1>4, <1>7, <1>11 DEF RefcntExact, Scanning, n, TypeOK
  <2>2. n # 0
    BY <1>1 DEF n, TypeOK
  <2>3. \A j \in Inos : ofmap'[j].refcnt = 0 => ~ofmap'[j].queued
    BY <1>1, <1>7, <2>2, Zenon DEF RefcntExact
  <2> QED
    BY <2>1, <2>3 DEF RefcntExact
<1>17. OpenFilesWatched'
  <2> SUFFICES ASSUME NEW j \in Inos, handles'[j] > 0, ~failed'[j]
               PROVE  ofmap'[j].queued \/ Scanning(j)'
    BY Zenon DEF OpenFilesWatched
  <2>1. CASE j = i
    BY <1>7, <2>1, Zenon
  <2>2. CASE j # i
    BY <1>1, <1>4, <1>7, <1>11, <1>14, <2>2 DEF OpenFilesWatched, Scanning
  <2> QED
    BY <2>1, <2>2, Zenon
<1> QED
  BY <1>10, <1>15, <1>16, <1>17 DEF IInv

LEMMA ExpireNowIInv ==
    ASSUME IInv, NEW i \in Inos, openfile_expire_now(i)
    PROVE  IInv'
<1>1. TypeOK /\ RefcntExact /\ OpenFilesWatched
  BY DEF IInv
<1>2. /\ Queue(ofpq)
      /\ \A j \in Inos : ofmap[j].queued <=> Has(ofpq, j)
  BY Links
<1>3. UNCHANGED <<ofmap, scanner, stop, handles, failed>>
  BY DEF openfile_expire_now
<1>4. Queue(ofpq') /\ \A j : Has(ofpq', j) <=> Has(ofpq, j)
  <2>1. CASE ofmap[i].queued /\ ofpq' \in EmplaceMin(Without(ofpq, i), i)
    <3>1. /\ Queue(Without(ofpq, i))
          /\ \A j : Has(Without(ofpq, i), j) <=> Has(ofpq, j) /\ j # i
      BY <1>2, WithoutQueue, Zenon
    <3>2. Queue(ofpq') /\ \A j : Has(ofpq', j) <=> Has(Without(ofpq, i), j) \/ j = i
      BY <2>1, <3>1, EmplaceMinQueue
    <3> QED
      BY <1>2, <2>1, <3>1, <3>2, Zenon
  <2>2. CASE ofpq' = ofpq
    BY <1>2, <2>2, Zenon
  <2> QED
    BY <2>1, <2>2, Zenon DEF openfile_expire_now
<1>5. \A j \in Inos : ofmap'[j].queued <=> Has(ofpq', j)
  BY <1>2, <1>3, <1>4, Zenon
<1>6. IteratorsPointBack' /\ QueueSorted' /\ ofpq' \in Seq(Entry)
  BY <1>4, <1>5, LinksFollow
<1>7. loopcv' \in BOOLEAN
  BY <1>1, Zenon DEF openfile_expire_now, TypeOK, notify_one
<1>8. TypeOK'
  BY <1>1, <1>3, <1>6, <1>7 DEF TypeOK
<1>9. RefcntExact' /\ OpenFilesWatched'
  BY <1>1, <1>3 DEF RefcntExact, OpenFilesWatched, Scanning
<1> QED
  BY <1>6, <1>8, <1>9 DEF IInv

\* Giving up a reference, by a release or at the end of a scan.
LEMMA Decref ==
    ASSUME IInv, NEW i \in Inos, decrefcnt(i), ofmap[i].refcnt > 0
    PROVE  /\ ofmap' \in [Inos -> MRecord]
           /\ \A j \in Inos : j # i => ofmap'[j] = ofmap[j]
           /\ ofmap'[i].refcnt = ofmap[i].refcnt - 1
           /\ ofmap'[i].queued = (ofmap[i].queued /\ ofmap[i].refcnt # 1)
           /\ IteratorsPointBack' /\ QueueSorted' /\ ofpq' \in Seq(Entry)
<1>1. TypeOK /\ RefcntExact
  BY DEF IInv
<1>2. /\ Queue(ofpq)
      /\ \A j \in Inos : ofmap[j].queued <=> Has(ofpq, j)
  BY Links
<1> DEFINE n == ofmap[i].refcnt - 1
           b == ofmap[i].queued /\ ofmap[i].refcnt # 1
<1>3. n \in 0 .. MaxOpen + 1 /\ b \in BOOLEAN /\ (ofmap[i].refcnt = 1 => n = 0 /\ b = FALSE)
  BY <1>1, MaxOpenAssumption DEF TypeOK
<1>4. ofmap' = [ofmap EXCEPT ![i] = [refcnt |-> n, queued |-> b]]
  <2>1. CASE ofmap[i].refcnt = 1
    BY <1>3, <2>1 DEF decrefcnt, NoRecord
  <2>2. CASE ofmap[i].refcnt # 1
    <3>1. ofmap[i] \in MRecord /\ b = ofmap[i].queued
      BY <1>1, <2>2 DEF TypeOK, MRecord
    <3>2. ofmap' = [ofmap EXCEPT ![i] = [ofmap[i] EXCEPT !.refcnt = n]]
      BY <2>2 DEF decrefcnt
    <3>3. [ofmap[i] EXCEPT !.refcnt = n] = [refcnt |-> n, queued |-> b]
      BY <3>1 DEF MRecord
    <3> QED
      BY <3>2, <3>3
  <2> QED
    BY <2>1, <2>2, Zenon
<1> HIDE DEF n, b
<1>5. /\ ofmap' \in [Inos -> MRecord]
      /\ ofmap'[i].refcnt = n /\ ofmap'[i].queued = b
      /\ \A j \in Inos : j # i => ofmap'[j] = ofmap[j]
  BY <1>1, <1>3, <1>4, OneRecord
<1>6. Queue(ofpq') /\ \A j \in Inos : ofmap'[j].queued <=> Has(ofpq', j)
  <2>1. CASE ofmap[i].refcnt = 1 /\ ofmap[i].queued
    <3>1. /\ Queue(Without(ofpq, i))
          /\ \A j : Has(Without(ofpq, i), j) <=> Has(ofpq, j) /\ j # i
      BY <1>2, WithoutQueue, Zenon
    <3>2. ofpq' = Without(ofpq, i)
      BY <2>1 DEF decrefcnt
    <3>3. ofmap'[i].queued = FALSE
      BY <1>3, <1>5, <2>1, Zenon
    <3> QED
      BY <1>2, <1>5, <3>1, <3>2, <3>3, Zenon
  <2>2. CASE ~(ofmap[i].refcnt = 1 /\ ofmap[i].queued)
    <3>1. ofpq' = ofpq
      BY <2>2 DEF decrefcnt
    <3>2. ofmap'[i].queued <=> ofmap[i].queued
      BY <1>5, <2>2, Zenon DEF b
    <3> QED
      BY <1>2, <1>5, <3>1, <3>2, Zenon
  <2> QED
    BY <2>1, <2>2, Zenon
<1>7. IteratorsPointBack' /\ QueueSorted' /\ ofpq' \in Seq(Entry)
  BY <1>6, LinksFollow
<1> QED
  BY <1>5, <1>7, Zenon DEF n, b

LEMMA ReleaseIInv ==
    ASSUME IInv, NEW i \in Inos, openfile_release(i)
    PROVE  IInv'
<1>1. TypeOK /\ RefcntExact /\ OpenFilesWatched
  BY DEF IInv
<1>2. /\ handles \in [Inos -> 0 .. MaxOpen] /\ handles[i] > 0
      /\ handles' = [handles EXCEPT ![i] = @ - 1]
      /\ UNCHANGED <<scanner, loopcv, stop, failed>>
  BY <1>1 DEF openfile_release, TypeOK
<1>3. handles' \in [Inos -> 0 .. MaxOpen] /\ handles'[i] = handles[i] - 1
      /\ \A j \in Inos : j # i => handles'[j] = handles[j]
  BY <1>2, MaxOpenAssumption
<1>4. ofmap[i].refcnt = handles[i] + (IF Scanning(i) THEN 1 ELSE 0) /\ ofmap[i].refcnt > 0
  BY <1>1, <1>2 DEF RefcntExact
<1>5. /\ ofmap' \in [Inos -> MRecord]
      /\ \A j \in Inos : j # i => ofmap'[j] = ofmap[j]
      /\ ofmap'[i].refcnt = ofmap[i].refcnt - 1
      /\ ofmap'[i].queued = (ofmap[i].queued /\ ofmap[i].refcnt # 1)
      /\ IteratorsPointBack' /\ QueueSorted' /\ ofpq' \in Seq(Entry)
  BY <1>4, Decref DEF openfile_release
<1>6. TypeOK'
  BY <1>1, <1>2, <1>3, <1>5 DEF TypeOK, MRecord
<1>7. RefcntExact'
  <2>1. \A j \in Inos : ofmap'[j].refcnt = handles'[j] + (IF Scanning(j)' THEN 1 ELSE 0)
    BY <1>1, <1>2, <1>3, <1>4, <1>5 DEF RefcntExact, Scanning
  <2>2. ofmap[i].refcnt \in Int /\ (ofmap'[i].refcnt = 0 => ofmap[i].refcnt = 1)
    BY <1>1, <1>5 DEF TypeOK
  <2>3. \A j \in Inos : ofmap'[j].refcnt = 0 => ~ofmap'[j].queued
    BY <1>1, <1>5, <2>2, Zenon DEF RefcntExact
  <2> QED
    BY <2>1, <2>3 DEF RefcntExact
<1>8. OpenFilesWatched'
  <2> SUFFICES ASSUME NEW j \in Inos, handles'[j] > 0, ~failed'[j]
               PROVE  ofmap'[j].queued \/ Scanning(j)'
    BY Zenon DEF OpenFilesWatched
  <2>1. ofmap[j].queued \/ Scanning(j)
    BY <1>1, <1>2, <1>3 DEF OpenFilesWatched
  <2>2. Scanning(j) => Scanning(j)'
    BY <1>2 DEF Scanning
  <2>3. j = i => ofmap[i].refcnt # 1
    BY <1>2, <1>3, <1>4
  <2>4. ofmap[j].queued => ofmap'[j].queued
    BY <1>5, <2>3, Zenon
  <2> QED
    BY <2>1, <2>2, <2>4, Zenon
<1> QED
  BY <1>5, <1>6, <1>7, <1>8 DEF IInv

----------------------------------------------------------------------------
\* Steps of the scan thread and of stopscan that touch neither the map nor
\* the queue.

LEMMA QuietIInv ==
    ASSUME IInv, TypeOK', UNCHANGED <<ofmap, ofpq, handles, failed>>,
           \A j \in Inos : Scanning(j)' <=> Scanning(j)
    PROVE  IInv'
<1>1. IteratorsPointBack' /\ QueueSorted'
  BY DEF IInv, IteratorsPointBack, QueueSorted
<1>2. \A j \in Inos : (IF Scanning(j)' THEN 1 ELSE 0) = (IF Scanning(j) THEN 1 ELSE 0)
  BY Zenon
<1>3. RefcntExact'
  <2>1. \A j \in Inos : ofmap'[j].refcnt = handles'[j] + (IF Scanning(j)' THEN 1 ELSE 0)
    BY <1>2 DEF IInv, RefcntExact
  <2> QED
    BY <2>1 DEF IInv, RefcntExact
<1>4. OpenFilesWatched'
  BY Zenon DEF IInv, OpenFilesWatched
<1> QED
  BY <1>1, <1>3, <1>4 DEF IInv

LEMMA AtType ==
    ASSUME NEW l \in ScannerPCs \ {"unlocked", "relock"}, scanner' = At(l)
    PROVE  /\ scanner' \in [pc : ScannerPCs, ino : Inos \cup {0}, eno : BOOLEAN]
           /\ scanner'.pc = l
           /\ \A j \in Inos : ~Scanning(j)'
<1>1. scanner' \in [pc : ScannerPCs, ino : Inos \cup {0}, eno : BOOLEAN] /\ scanner'.pc = l
  BY DEF At
<1> QED
  BY <1>1 DEF Scanning

LEMMA ScannerMovesIInv ==
    ASSUME IInv, NEW l \in ScannerPCs \ {"unlocked", "relock"}, scanner' = At(l),
           scanner.pc \notin {"unlocked", "relock"},
           loopcv' \in BOOLEAN, UNCHANGED <<ofmap, ofpq, stop, handles, failed>>
    PROVE  IInv'
<1>1. /\ scanner' \in [pc : ScannerPCs, ino : Inos \cup {0}, eno : BOOLEAN]
      /\ scanner'.pc = l
      /\ \A j \in Inos : ~Scanning(j)'
  BY AtType
<1>2. TypeOK'
  BY <1>1 DEF IInv, TypeOK
<1>3. \A j \in Inos : ~Scanning(j)
  BY DEF Scanning
<1>4. UNCHANGED <<ofmap, ofpq, handles, failed>>
  OBVIOUS
<1> QED
  BY <1>1, <1>2, <1>3, <1>4, QuietIInv

LEMMA LoopTopIInv == ASSUME IInv, LoopTop PROVE IInv'
<1>1. \E l \in {"exited", "wait", "timedwait"} : scanner' = At(l)
  BY Zenon DEF LoopTop
<1>2. /\ scanner.pc = "loop" /\ loopcv' \in BOOLEAN
      /\ UNCHANGED <<ofmap, ofpq, stop, handles, failed>>
  BY DEF LoopTop, IInv, TypeOK
<1>3. PICK l \in ScannerPCs \ {"unlocked", "relock"} : scanner' = At(l)
  BY <1>1 DEF ScannerPCs
<1> QED
  BY <1>2, <1>3, ScannerMovesIInv

LEMMA WakeupIInv == ASSUME IInv, Wakeup PROVE IInv'
<1>1. \E l \in {"exited", "scan"} : scanner' = At(l)
  BY Zenon DEF Wakeup
<1>2. /\ scanner.pc \in {"wait", "timedwait"} /\ loopcv' \in BOOLEAN
      /\ UNCHANGED <<ofmap, ofpq, stop, handles, failed>>
  BY DEF Wakeup
<1>3. PICK l \in ScannerPCs \ {"unlocked", "relock"} : scanner' = At(l)
  BY <1>1 DEF ScannerPCs
<1> QED
  BY <1>2, <1>3, ScannerMovesIInv

LEMMA ScanDoneIInv == ASSUME IInv, ScanDone PROVE IInv'
<1>1. /\ scanner.pc \in {"scan", "locked"} /\ loopcv' \in BOOLEAN
      /\ scanner' = At("loop")
      /\ UNCHANGED <<ofmap, ofpq, stop, handles, failed>>
  BY DEF ScanDone, IInv, TypeOK
<1>2. "loop" \in ScannerPCs \ {"unlocked", "relock"}
  BY DEF ScannerPCs
<1> QED
  BY <1>1, <1>2, ScannerMovesIInv

LEMMA ScanGetattrIInv == ASSUME IInv, ScanGetattr PROVE IInv'
<1>1. PICK eno \in BOOLEAN : scanner' = [scanner EXCEPT !.pc = "relock", !.eno = eno]
  BY DEF ScanGetattr
<1>2. /\ scanner \in [pc : ScannerPCs, ino : Inos \cup {0}, eno : BOOLEAN]
      /\ scanner.pc = "unlocked" /\ scanner.ino \in Inos
  BY DEF ScanGetattr, IInv, TypeOK
<1>3. /\ scanner' \in [pc : ScannerPCs, ino : Inos \cup {0}, eno : BOOLEAN]
      /\ scanner'.pc = "relock" /\ scanner'.ino = scanner.ino
  BY <1>1, <1>2 DEF ScannerPCs
<1>4. UNCHANGED <<ofmap, ofpq, loopcv, stop, handles, failed>>
  BY DEF ScanGetattr
<1>5. TypeOK'
  BY <1>2, <1>3, <1>4 DEF IInv, TypeOK
<1>6. \A j \in Inos : Scanning(j)' <=> Scanning(j)
  BY <1>2, <1>3 DEF Scanning
<1> QED
  BY <1>4, <1>5, <1>6, QuietIInv

LEMMA StopIInv == ASSUME IInv, openfile_stopscan \/ Join PROVE IInv'
<1>1. /\ UNCHANGED <<ofmap, ofpq, scanner, handles, failed>>
      /\ stop' \in {"joining", "joined"}
  BY DEF openfile_stopscan, Join
<1>2. loopcv' \in BOOLEAN
  BY Zenon DEF openfile_stopscan, Join, IInv, TypeOK, notify_one
<1>3. TypeOK'
  BY <1>1, <1>2 DEF IInv, TypeOK
<1>4. \A j \in Inos : Scanning(j)' <=> Scanning(j)
  BY <1>1 DEF Scanning
<1> QED
  BY <1>1, <1>3, <1>4, QuietIInv

----------------------------------------------------------------------------
\* A scan takes an entry out, and gives its reference back.

LEMMA ScanPopIInv == ASSUME IInv, ScanPop PROVE IInv'
<1>1. TypeOK /\ RefcntExact /\ OpenFilesWatched
  BY DEF IInv
<1>2. /\ Queue(ofpq)
      /\ \A j \in Inos : ofmap[j].queued <=> Has(ofpq, j)
  BY Links
<1> DEFINE i == ofpq[1].ino
           n == ofmap[i].refcnt + 1
<1>3. /\ scanner.pc \in {"scan", "locked"} /\ ofpq # <<>> /\ ofpq' = Tail(ofpq)
      /\ ofmap' = [ofmap EXCEPT ![i] = [refcnt |-> @.refcnt + 1, queued |-> FALSE]]
      /\ scanner' = [pc |-> "unlocked", ino |-> i, eno |-> FALSE]
      /\ UNCHANGED <<loopcv, stop, handles, failed>>
  BY DEF ScanPop
<1>4. i \in Inos /\ Has(ofpq, i)
  <2>1. ofpq \in Seq(Entry) /\ 1 \in 1 .. Len(ofpq) /\ ofpq[1] \in Entry
    BY <1>1, <1>3 DEF TypeOK
  <2> QED
    BY <2>1 DEF Entry, Has
<1> HIDE DEF i
<1>5. \A j \in Inos : ~Scanning(j)
  BY <1>3 DEF Scanning
<1>6. \A j \in Inos : ofmap[j].refcnt = handles[j] /\ handles[j] \in 0 .. MaxOpen
  BY <1>1, <1>5 DEF RefcntExact, TypeOK
<1>7. n \in 0 .. MaxOpen + 1 /\ n # 0
  BY <1>4, <1>6, MaxOpenAssumption
<1>8. ofmap' = [ofmap EXCEPT ![i] = [refcnt |-> n, queued |-> FALSE]]
  BY <1>1, <1>3, <1>4 DEF TypeOK
<1> HIDE DEF n
<1>9. /\ ofmap' \in [Inos -> MRecord]
      /\ ofmap'[i].refcnt = n /\ ofmap'[i].queued = FALSE
      /\ \A j \in Inos : j # i => ofmap'[j] = ofmap[j]
  BY <1>1, <1>4, <1>7, <1>8, OneRecord
<1>10. Queue(ofpq') /\ \A j : Has(ofpq', j) <=> Has(ofpq, j) /\ j # i
  BY <1>2, <1>3, TailQueue DEF i
<1>11. \A j \in Inos : ofmap'[j].queued <=> Has(ofpq', j)
  BY <1>2, <1>9, <1>10, Zenon
<1>12. IteratorsPointBack' /\ QueueSorted' /\ ofpq' \in Seq(Entry)
  BY <1>10, <1>11, LinksFollow
<1>13. /\ scanner' \in [pc : ScannerPCs, ino : Inos \cup {0}, eno : BOOLEAN]
       /\ scanner'.pc = "unlocked" /\ scanner'.ino = i
  BY <1>3, <1>4 DEF ScannerPCs
<1>14. \A j \in Inos : Scanning(j)' <=> j = i
  BY <1>13 DEF Scanning
<1>15. TypeOK'
  BY <1>1, <1>3, <1>4, <1>9, <1>12, <1>13 DEF TypeOK, MRecord
<1>16. RefcntExact'
  <2>1. \A j \in Inos : ofmap'[j].refcnt = handles'[j] + (IF j = i THEN 1 ELSE 0)
    BY <1>3, <1>6, <1>9 DEF n
  <2>2. \A j \in Inos : (IF Scanning(j)' THEN 1 ELSE 0) = (IF j = i THEN 1 ELSE 0)
    BY <1>14, Zenon
  <2>3. \A j \in Inos : ofmap'[j].refcnt = handles'[j] + (IF Scanning(j)' THEN 1 ELSE 0)
    BY <2>1, <2>2
  <2>4. \A j \in Inos : ofmap'[j].refcnt = 0 => ~ofmap'[j].queued
    BY <1>1, <1>7, <1>9, Zenon DEF RefcntExact
  <2> QED
    BY <2>3, <2>4 DEF RefcntExact
<1>17. OpenFilesWatched'
  <2> SUFFICES ASSUME NEW j \in Inos, handles'[j] > 0, ~failed'[j]
               PROVE  ofmap'[j].queued \/ Scanning(j)'
    BY Zenon DEF OpenFilesWatched
  <2>1. ofmap[j].queued
    BY <1>1, <1>3, <1>5 DEF OpenFilesWatched
  <2> QED
    BY <1>9, <1>14, <2>1, Zenon
<1> QED
  BY <1>12, <1>15, <1>16, <1>17 DEF IInv

LEMMA ScanRelockIInv == ASSUME IInv, ScanRelock PROVE IInv'
<1>1. TypeOK /\ RefcntExact /\ OpenFilesWatched
  BY DEF IInv
<1>2. /\ Queue(ofpq)
      /\ \A j \in Inos : ofmap[j].queued <=> Has(ofpq, j)
  BY Links
<1> DEFINE i == scanner.ino
<1>3. /\ scanner.pc = "relock" /\ scanner' = At("locked")
      /\ failed' = [failed EXCEPT ![i] = scanner.eno]
      /\ UNCHANGED <<loopcv, stop, handles>>
  BY DEF ScanRelock
<1>4. i \in Inos /\ scanner.eno \in BOOLEAN
  BY <1>1, <1>3 DEF TypeOK
<1>5. \A j \in Inos : Scanning(j) <=> j = i
  BY <1>3 DEF Scanning
<1>6. \A j \in Inos : /\ ofmap[j].refcnt = handles[j] + (IF j = i THEN 1 ELSE 0)
                      /\ handles[j] \in 0 .. MaxOpen
  <2>1. \A j \in Inos : (IF Scanning(j) THEN 1 ELSE 0) = (IF j = i THEN 1 ELSE 0)
    BY <1>5, Zenon
  <2> QED
    BY <1>1, <2>1 DEF RefcntExact, TypeOK
<1>7. /\ scanner' \in [pc : ScannerPCs, ino : Inos \cup {0}, eno : BOOLEAN]
      /\ scanner'.pc = "locked"
      /\ \A j \in Inos : ~Scanning(j)'
  BY <1>3, AtType DEF ScannerPCs
<1>8. /\ failed' \in [Inos -> BOOLEAN] /\ failed'[i] = scanner.eno
      /\ \A j \in Inos : j # i => failed'[j] = failed[j]
  BY <1>1, <1>3, <1>4 DEF TypeOK
<1> DEFINE n == ofmap[i].refcnt - 1
<1>9. n = handles[i] /\ n \in 0 .. MaxOpen + 1 /\ ofmap[i].refcnt > 0
  BY <1>4, <1>6, MaxOpenAssumption
<1> DEFINE Kept == ofmap'[i].queued = (ofmap[i].queued /\ ofmap[i].refcnt # 1)
<1>10. /\ ofmap' \in [Inos -> MRecord] /\ ofmap'[i].refcnt = n
       /\ \A j \in Inos : j # i => ofmap'[j] = ofmap[j]
       /\ IteratorsPointBack' /\ QueueSorted' /\ ofpq' \in Seq(Entry)
       /\ (Kept /\ (n = 0 \/ scanner.eno)) \/ (ofmap'[i].queued = TRUE /\ n # 0)
  <2>1. CASE ofmap[i].refcnt = 1 \/ scanner.eno
    <3>1. decrefcnt(i)
      BY <2>1 DEF ScanRelock
    <3>2. /\ ofmap' \in [Inos -> MRecord]
          /\ \A j \in Inos : j # i => ofmap'[j] = ofmap[j]
          /\ ofmap'[i].refcnt = n
          /\ Kept
          /\ IteratorsPointBack' /\ QueueSorted' /\ ofpq' \in Seq(Entry)
      BY <1>4, <1>9, <3>1, Decref
    <3>3. ofmap[i].refcnt = 1 => n = 0
      BY <1>9
    <3> QED
      BY <2>1, <3>2, <3>3, Zenon
  <2>2. CASE ~(ofmap[i].refcnt = 1 \/ scanner.eno)
    <3>1. /\ ofmap' = [ofmap EXCEPT ![i] = [refcnt |-> @.refcnt - 1, queued |-> TRUE]]
          /\ ofpq' \in Emplace(Without(ofpq, i), i)
      BY <2>2 DEF ScanRelock
    <3>2. ofmap' = [ofmap EXCEPT ![i] = [refcnt |-> n, queued |-> TRUE]]
      BY <1>1, <1>4, <3>1 DEF TypeOK
    <3>3. n # 0
      BY <1>4, <1>6, <2>2
    <3> HIDE DEF n
    <3>4. /\ ofmap' \in [Inos -> MRecord]
          /\ ofmap'[i].refcnt = n /\ ofmap'[i].queued = TRUE
          /\ \A j \in Inos : j # i => ofmap'[j] = ofmap[j]
      BY <1>1, <1>4, <1>9, <3>2, OneRecord
    <3>5. /\ Queue(Without(ofpq, i))
          /\ \A j : Has(Without(ofpq, i), j) <=> Has(ofpq, j) /\ j # i
      BY <1>2, WithoutQueue, Zenon
    <3>6. Queue(ofpq') /\ \A j : Has(ofpq', j) <=> Has(Without(ofpq, i), j) \/ j = i
      BY <1>4, <3>1, <3>5, EmplaceQueue
    <3>7. \A j \in Inos : ofmap'[j].queued <=> Has(ofpq', j)
      BY <1>2, <3>4, <3>5, <3>6, Zenon
    <3>8. IteratorsPointBack' /\ QueueSorted' /\ ofpq' \in Seq(Entry)
      BY <3>6, <3>7, LinksFollow
    <3> QED
      BY <3>3, <3>4, <3>8, Zenon
  <2> QED
    BY <2>1, <2>2, Zenon
<1>11. TypeOK'
  BY <1>1, <1>3, <1>7, <1>8, <1>10 DEF TypeOK, MRecord
<1>12. RefcntExact'
  <2>1. \A j \in Inos : ofmap'[j].refcnt = handles'[j] + 0
    BY <1>3, <1>6, <1>9, <1>10
  <2>2. \A j \in Inos : (IF Scanning(j)' THEN 1 ELSE 0) = 0
    BY <1>7, Zenon
  <2>3. \A j \in Inos : ofmap'[j].refcnt = handles'[j] + (IF Scanning(j)' THEN 1 ELSE 0)
    BY <2>1, <2>2
  <2>4. n = 0 => ofmap[i].refcnt = 1
    BY <1>4, <1>6
  <2> HIDE DEF n
  <2>5. \A j \in Inos : ofmap'[j].refcnt = 0 => ~ofmap'[j].queued
    BY <1>1, <1>10, <2>4, Zenon DEF RefcntExact
  <2> QED
    BY <2>3, <2>5 DEF RefcntExact
<1>13. OpenFilesWatched'
  <2> SUFFICES ASSUME NEW j \in Inos, handles'[j] > 0, ~failed'[j]
               PROVE  ofmap'[j].queued
    BY Zenon DEF OpenFilesWatched
  <2>1. CASE j # i
    BY <1>1, <1>3, <1>5, <1>8, <1>10, <2>1 DEF OpenFilesWatched
  <2>2. CASE j = i
    <3>1. n # 0
      BY <1>3, <1>9, <2>2
    <3> HIDE DEF n
    <3> QED
      BY <1>8, <1>10, <2>2, <3>1, Zenon
  <2> QED
    BY <2>1, <2>2, Zenon
<1> QED
  BY <1>10, <1>11, <1>12, <1>13 DEF IInv

LEMMA TickIInv == ASSUME IInv, NEW i \in Inos, Tick(i) PROVE IInv'
<1>1. TypeOK /\ Queue(ofpq) /\ \A j \in Inos : ofmap[j].queued <=> Has(ofpq, j)
  BY Links DEF IInv
<1>2. PICK p \in 1 .. Len(ofpq) :
        /\ ofpq[p].expires = "future"
        /\ ofpq' = [q \in 1 .. Len(ofpq) |->
                      IF q <= p /\ ofpq[q].expires = "future"
                      THEN [ofpq[q] EXCEPT !.expires = "passed"] ELSE ofpq[q]]
  BY DEF Tick
<1>3. Len(ofpq) \in Nat /\ \A q \in 1 .. Len(ofpq) : ofpq[q] \in Entry
  BY <1>1 DEF TypeOK
<1>4. \A q \in 1 .. Len(ofpq) : /\ ofpq'[q] \in Entry /\ ofpq'[q].ino = ofpq[q].ino
                                /\ ofpq'[q].expires = IF q <= p /\ ofpq[q].expires = "future"
                                                      THEN "passed" ELSE ofpq[q].expires
  BY <1>2, <1>3 DEF Entry, Expiry
<1>5. ofpq' \in [1 .. Len(ofpq) -> Entry]
  BY <1>2, <1>4, Zenon
<1>6. ofpq' \in Seq(Entry) /\ Len(ofpq') = Len(ofpq)
  BY <1>3, <1>5
<1>7. Unique(ofpq')
  BY <1>1, <1>4, <1>6, Zenon DEF Queue, Unique
<1>8. Sorted(ofpq')
  <2> SUFFICES ASSUME NEW k \in 1 .. Len(ofpq), NEW l \in 1 .. Len(ofpq), k < l
               PROVE  /\ Expired(ofpq'[l]) => Expired(ofpq'[k])
                      /\ ofpq'[l].expires = "min" => ofpq'[k].expires = "min"
    BY <1>6 DEF Sorted
  <2>1. /\ Expired(ofpq[l]) => Expired(ofpq[k])
        /\ ofpq[l].expires = "min" => ofpq[k].expires = "min"
    BY <1>1 DEF Queue, Sorted
  <2>2. ofpq[k].expires \in Expiry /\ ofpq[l].expires \in Expiry
    BY <1>3 DEF Entry
  <2>3. l <= p => k <= p
    BY <1>3
  <2> QED
    BY <1>4, <2>1, <2>2, <2>3 DEF Expired, Expiry
<1>9. \A j : Has(ofpq', j) <=> Has(ofpq, j)
  BY <1>4, <1>6, Zenon DEF Has
<1>10. UNCHANGED <<ofmap, scanner, loopcv, stop, handles, failed>>
  BY DEF Tick
<1>11. IteratorsPointBack' /\ QueueSorted'
  <2>1. Queue(ofpq')
    BY <1>6, <1>7, <1>8, Zenon DEF Queue
  <2>2. \A j \in Inos : ofmap'[j].queued <=> Has(ofpq', j)
    BY <1>1, <1>9, <1>10, Zenon
  <2> QED
    BY <2>1, <2>2, LinksFollow
<1>12. TypeOK'
  BY <1>1, <1>6, <1>10 DEF TypeOK
<1>13. RefcntExact' /\ OpenFilesWatched'
  BY <1>10 DEF IInv, RefcntExact, OpenFilesWatched, Scanning
<1> QED
  BY <1>11, <1>12, <1>13 DEF IInv

----------------------------------------------------------------------------
LEMMA NextIInv == IInv /\ [Next]_vars => IInv'
<1> SUFFICES ASSUME IInv, [Next]_vars PROVE IInv'
  OBVIOUS
<1>1. ASSUME NEW i \in Inos,
             openfile_register(i) \/ openfile_expire_now(i) \/ openfile_release(i) \/ Tick(i)
      PROVE  IInv'
  BY <1>1, RegisterIInv, ExpireNowIInv, ReleaseIInv, TickIInv
<1>2. CASE openfile_stopscan \/ Join
  BY <1>2, StopIInv
<1>3. CASE ScanThread \/ Wakeup
  BY <1>3, LoopTopIInv, ScanPopIInv, ScanDoneIInv, ScanGetattrIInv, ScanRelockIInv, WakeupIInv
     DEF ScanThread
<1>4. CASE UNCHANGED vars
  <2>1. TypeOK'
    BY <1>4 DEF vars, IInv, TypeOK
  <2>2. UNCHANGED <<ofmap, ofpq, handles, failed>>
    BY <1>4 DEF vars
  <2>3. \A j \in Inos : Scanning(j)' <=> Scanning(j)
    BY <1>4 DEF vars, Scanning
  <2> QED
    BY <2>1, <2>2, <2>3, QuietIInv
<1> QED
  BY <1>1, <1>2, <1>3, <1>4 DEF Next

LEMMA InvariantHolds == Spec => []IInv
<1>1. Init => IInv
  BY InitIInv
<1>2. IInv /\ [Next]_vars => IInv'
  BY NextIInv
<1> QED
  BY <1>1, <1>2, PTL DEF Spec

(* The map, the queue and the scan thread keep their types, so a count of
   references never goes below zero or above what handles and the scan hold. *)
THEOREM TypeCorrect == Spec => []TypeOK
<1>1. IInv => TypeOK
  BY DEF IInv
<1> QED
  BY <1>1, InvariantHolds, PTL

(* qiter and the queue's pointers to mrecords point at each other, as the
   invariants listed in openfilemap.cpp say, whenever the lock is free. *)
THEOREM QiterPointsBack == Spec => []IteratorsPointBack
<1>1. IInv => IteratorsPointBack
  BY DEF IInv
<1> QED
  BY <1>1, InvariantHolds, PTL

(* An mrecord lives as long as the handles and the scan that refer to it:
   openfile_release and scan neither free it early nor leak it. *)
THEOREM ReferencesCounted == Spec => []RefcntExact
<1>1. IInv => RefcntExact
  BY DEF IInv
<1> QED
  BY <1>1, InvariantHolds, PTL

(* However registers and releases race with a scan of the same inode, an
   open file whose last scan did not fail is in the queue or being scanned. *)
THEOREM NoOpenFileLost == Spec => []OpenFilesWatched
<1>1. IInv => OpenFilesWatched
  BY DEF IInv
<1> QED
  BY <1>1, InvariantHolds, PTL

(* Every emplace keeps the queue in the order of expiration, so that scanloop
   waits for the entry that is really the next. *)
THEOREM FrontIsEarliest == Spec => []QueueSorted
<1>1. IInv => QueueSorted
  BY DEF IInv
<1> QED
  BY <1>1, InvariantHolds, PTL

============================================================================
