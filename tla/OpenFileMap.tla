---------------------------- MODULE OpenFileMap ----------------------------
(***************************************************************************)
(* The map of open files and its scanning thread                           *)
(* (exe/fs123p7/openfilemap.cpp).                                          *)
(*                                                                         *)
(* fs123_open registers an inode, fs123_release releases it, fs123_read    *)
(* may ask for its immediate expiration.  The scan thread waits until the  *)
(* earliest entry of the priority queue has expired, takes it out, drops   *)
(* the lock while it asks upstream for fresh attributes and has the kernel *)
(* flush the inode's pages if they changed, and puts the entry back.       *)
(*                                                                         *)
(* Expiration times are abstracted to their order in the queue and to      *)
(* whether they have passed.  A pqrecord made from a reply expires at      *)
(* least no_sooner_than in the future, so it goes behind all the expired   *)
(* ones; one made without a reply ("min") expires at time_point::min().    *)
(***************************************************************************)
EXTENDS Integers, Sequences, SequencesExt

CONSTANTS
    Inos,       \* inode numbers that may be opened
    MaxOpen     \* bound: open handles per inode

ASSUME MaxOpenAssumption == MaxOpen \in Nat \ {0}

VARIABLES
    ofmap,      \* ofmap[i]: the mrecord of i; refcnt 0 when i is not in the map
    ofpq,       \* the priority queue, earliest first
    scanner,    \* the scan thread: scanloop and scan
    loopcv,     \* the scan thread was notified since it began to wait
    stop,       \* "no", "joining": stopscan set loopdone, "joined"
    handles,    \* kernel: handles[i] open handles with fi->fh set
    failed      \* history: the last scan of i failed, and no register since

vars == <<ofmap, ofpq, scanner, loopcv, stop, handles, failed>>

loopdone == stop # "no"

Expiry == {"min", "passed", "future"}
Entry == [ino : Inos, expires : Expiry]
Expired(e) == e.expires # "future"

NoRecord == [refcnt |-> 0, queued |-> FALSE]

\* Where the entries of i are: there is at most one, and qiter points to it.
Positions(q, i) == {p \in 1 .. Len(q) : q[p].ino = i}

\* The queue after ofpq.erase(qiter), if qiter is dereferenceable.
Without(q, i) == IF Positions(q, i) = {} THEN q
                 ELSE RemoveAt(q, CHOOSE p \in Positions(q, i) : TRUE)

\* The queues that ofpq.emplace(r, mi) may lead to.
Emplace(q, i) ==
    {InsertAt(q, p, [ino |-> i, expires |-> "future"]) :
        p \in {p \in 1 .. Len(q) + 1 : \A k \in p .. Len(q) : ~Expired(q[k])}}

\* The queue after ofpq.emplace(miter): behind earlier such entries.
EmplaceMin(q, i) ==
    {InsertAt(q, p, [ino |-> i, expires |-> "min"]) :
        p \in {p \in 1 .. Len(q) + 1 : \A k \in 1 .. Len(q) : (k < p) = (q[k].expires = "min")}}

ScannerPCs == {"loop", "wait", "timedwait", "scan", "locked", "unlocked", "relock", "exited"}
At(l) == [pc |-> l, ino |-> 0, eno |-> FALSE]

Init == /\ ofmap = [i \in Inos |-> NoRecord]
        /\ ofpq = <<>>
        /\ scanner = At("loop")
        /\ loopcv = FALSE
        /\ stop = "no"
        /\ handles = [i \in Inos |-> 0]
        /\ failed = [i \in Inos |-> FALSE]

----------------------------------------------------------------------------
\* The public API.  Each function holds the mutex throughout.

\* The scan thread is not inside the critical section that goes from one
\* trip to upstream to the next.
Unlocked == scanner.pc # "locked"

\* notify_one wakes the scan thread if it is waiting.
notify_one == loopcv' = (loopcv \/ scanner.pc \in {"wait", "timedwait"})

\* Mutant: the scan thread is not woken up.
RegisterSilently(i) ==
    /\ ~loopdone /\ Unlocked
    /\ handles[i] < MaxOpen
    /\ handles' = [handles EXCEPT ![i] = @ + 1]
    /\ ofmap' = [ofmap EXCEPT ![i] = [refcnt |-> @.refcnt + 1, queued |-> TRUE]]
    /\ ofpq' \in Emplace(Without(ofpq, i), i) \cup (IF ofmap[i].queued THEN {ofpq} ELSE {})
    /\ failed' = [failed EXCEPT ![i] = FALSE]
    /\ UNCHANGED <<scanner, stop, loopcv>>

\* The entry is replaced unless it already expires at r.good_till.
openfile_register(i) ==
    /\ ~loopdone /\ Unlocked
    /\ handles[i] < MaxOpen
    /\ handles' = [handles EXCEPT ![i] = @ + 1]
    /\ ofmap' = [ofmap EXCEPT ![i] = [refcnt |-> @.refcnt + 1, queued |-> TRUE]]
    /\ ofpq' \in Emplace(Without(ofpq, i), i) \cup (IF ofmap[i].queued THEN {ofpq} ELSE {})
    /\ IF ofpq'[1].ino = i THEN notify_one ELSE UNCHANGED loopcv
    /\ failed' = [failed EXCEPT ![i] = FALSE]
    /\ UNCHANGED <<scanner, stop>>

openfile_expire_now(i) ==
    /\ ~loopdone /\ Unlocked
    /\ handles[i] > 0
    /\ IF ofmap[i].queued
       THEN ofpq' \in EmplaceMin(Without(ofpq, i), i) /\ notify_one
       ELSE UNCHANGED <<ofpq, loopcv>>
    /\ UNCHANGED <<ofmap, scanner, stop, handles, failed>>

\* With the last reference go the mrecord and its queue entry.
decrefcnt(i) ==
    IF ofmap[i].refcnt = 1
    THEN /\ ofmap' = [ofmap EXCEPT ![i] = NoRecord]
         /\ ofpq' = IF ofmap[i].queued THEN Without(ofpq, i) ELSE ofpq
    ELSE /\ ofmap' = [ofmap EXCEPT ![i].refcnt = @ - 1]
         /\ UNCHANGED ofpq

openfile_release(i) ==
    /\ ~loopdone /\ Unlocked
    /\ handles[i] > 0
    /\ handles' = [handles EXCEPT ![i] = @ - 1]
    /\ decrefcnt(i)
    /\ UNCHANGED <<scanner, loopcv, stop, failed>>

\* Called once, when the fuse session loop no longer delivers requests.
openfile_stopscan ==
    /\ stop = "no" /\ Unlocked
    /\ stop' = "joining"
    /\ notify_one
    /\ UNCHANGED <<ofmap, ofpq, scanner, handles, failed>>

Join == /\ stop = "joining"
        /\ scanner.pc = "exited"
        /\ stop' = "joined"
        /\ UNCHANGED <<ofmap, ofpq, scanner, loopcv, handles, failed>>

----------------------------------------------------------------------------
\* The scan thread.

\* scanloop decides whether, and with which timeout, to wait.
LoopTop ==
    /\ scanner.pc = "loop"
    /\ scanner' = At(IF loopdone THEN "exited"
                     ELSE IF ofpq = <<>> THEN "wait" ELSE "timedwait")
    /\ UNCHANGED <<ofmap, ofpq, loopcv, stop, handles, failed>>

\* It wakes up when notified or timed out, and perhaps spuriously.
Wakeup ==
    /\ scanner.pc \in {"wait", "timedwait"}
    /\ scanner' = At(IF loopdone THEN "exited" ELSE "scan")
    /\ loopcv' = FALSE
    /\ UNCHANGED <<ofmap, ofpq, stop, handles, failed>>

\* Mutant: scan does not keep a reference while it is unlocked.
ScanPopNoRef ==
    LET i == ofpq[1].ino IN
    /\ scanner.pc \in {"scan", "locked"}
    /\ ofpq # <<>> /\ Expired(ofpq[1])
    /\ ofpq' = Tail(ofpq)
    /\ ofmap' = [ofmap EXCEPT ![i].queued = FALSE]
    /\ scanner' = [pc |-> "unlocked", ino |-> i, eno |-> FALSE]
    /\ UNCHANGED <<loopcv, stop, handles, failed>>

\* scan takes out the earliest entry and a reference to its mrecord ...
ScanPop ==
    LET i == ofpq[1].ino IN
    /\ scanner.pc \in {"scan", "locked"}
    /\ ofpq # <<>> /\ Expired(ofpq[1])
    /\ ofpq' = Tail(ofpq)
    /\ ofmap' = [ofmap EXCEPT ![i] = [refcnt |-> @.refcnt + 1, queued |-> FALSE]]
    /\ scanner' = [pc |-> "unlocked", ino |-> i, eno |-> FALSE]
    /\ UNCHANGED <<loopcv, stop, handles, failed>>

\* ... or finds that nothing has expired.
ScanDone ==
    /\ scanner.pc \in {"scan", "locked"}
    /\ ofpq # <<>> => ~Expired(ofpq[1])
    /\ scanner' = At("loop")
    /\ UNCHANGED <<ofmap, ofpq, loopcv, stop, handles, failed>>

\* begetattr, ino_update_validator and, if needed, notify_inval_inode: with
\* an error, an exception or a validator going backwards, r.eno # 0.
ScanGetattr ==
    /\ scanner.pc = "unlocked"
    /\ \E eno \in BOOLEAN : scanner' = [scanner EXCEPT !.pc = "relock", !.eno = eno]
    /\ UNCHANGED <<ofmap, ofpq, loopcv, stop, handles, failed>>

\* Mutant: the entry that a racing register queued is not erased.
ScanRelockNoErase ==
    LET i == scanner.ino IN
    /\ scanner.pc = "relock"
    /\ IF ofmap[i].refcnt = 1 \/ scanner.eno
       THEN decrefcnt(i)
       ELSE /\ ofmap' = [ofmap EXCEPT ![i] = [refcnt |-> @.refcnt - 1, queued |-> TRUE]]
            /\ ofpq' \in Emplace(ofpq, i)
    /\ scanner' = At("locked")
    /\ failed' = [failed EXCEPT ![i] = scanner.eno]
    /\ UNCHANGED <<loopcv, stop, handles>>

\* Mutant: the scanned entry is not queued again.
ScanRelockDrops ==
    LET i == scanner.ino IN
    /\ scanner.pc = "relock"
    /\ decrefcnt(i)
    /\ scanner' = At("locked")
    /\ failed' = [failed EXCEPT ![i] = scanner.eno]
    /\ UNCHANGED <<loopcv, stop, handles>>

\* The reference is given up.  If i is still open, and all is well, the new
\* reply is queued in place of what a racing register may have queued.
ScanRelock ==
    LET i == scanner.ino IN
    /\ scanner.pc = "relock"
    /\ IF ofmap[i].refcnt = 1 \/ scanner.eno
       THEN decrefcnt(i)
       ELSE /\ ofmap' = [ofmap EXCEPT ![i] = [refcnt |-> @.refcnt - 1, queued |-> TRUE]]
            /\ ofpq' \in Emplace(Without(ofpq, i), i)
    /\ scanner' = At("locked")
    /\ failed' = [failed EXCEPT ![i] = scanner.eno]
    /\ UNCHANGED <<loopcv, stop, handles>>

----------------------------------------------------------------------------
\* Time passes the expiration of i, and with it all the earlier ones.  It
\* does not advance by no_sooner_than within one critical section.
Tick(i) ==
    /\ Unlocked
    /\ \E p \in 1 .. Len(ofpq) :
         /\ ofpq[p] = [ino |-> i, expires |-> "future"]
         /\ ofpq' = [q \in 1 .. Len(ofpq) |->
                       IF q <= p /\ ofpq[q].expires = "future"
                       THEN [ofpq[q] EXCEPT !.expires = "passed"] ELSE ofpq[q]]
    /\ UNCHANGED <<ofmap, scanner, loopcv, stop, handles, failed>>

\* What the scan thread does by itself once it holds the processor.
ScanThread == LoopTop \/ ScanPop \/ ScanDone \/ ScanGetattr \/ ScanRelock

Next == \/ \E i \in Inos : \/ openfile_register(i)
                           \/ openfile_expire_now(i)
                           \/ openfile_release(i)
                           \/ Tick(i)
        \/ openfile_stopscan \/ Join
        \/ ScanThread \/ Wakeup

Spec == Init /\ [][Next]_vars

\* The scan thread runs, getattr returns, timed and notified waits end, and
\* time passes.  A spurious wakeup is possible but not promised.
FairSpec == /\ Spec
            /\ WF_vars(ScanThread)
            /\ WF_vars(Wakeup /\ (scanner.pc = "timedwait" \/ loopcv))
            /\ WF_vars(Join)
            /\ \A i \in Inos : SF_vars(Tick(i))

----------------------------------------------------------------------------
(* The reference counts stay within what the handles and the scan can hold. *)
TypeOK == /\ ofmap \in [Inos -> [refcnt : 0 .. MaxOpen + 1, queued : BOOLEAN]]
          /\ ofpq \in Seq(Entry)
          /\ scanner \in [pc : ScannerPCs, ino : Inos \cup {0}, eno : BOOLEAN]
          /\ scanner.pc \in {"unlocked", "relock"} => scanner.ino \in Inos
          /\ loopcv \in BOOLEAN
          /\ stop \in {"no", "joining", "joined"}
          /\ handles \in [Inos -> 0 .. MaxOpen]
          /\ failed \in [Inos -> BOOLEAN]

Scanning(i) == scanner.pc \in {"unlocked", "relock"} /\ scanner.ino = i

(* The invariants of the data structures that openfilemap.cpp lists for the
   times when the lock is not held: an mrecord's qiter is not dereferenceable
   or points to the one entry that points back, and no entry outlives its
   mrecord, however registers, releases and a scan of one inode interleave. *)
IteratorsPointBack ==
    /\ \A i \in Inos : ofmap[i].queued <=> \E p \in 1 .. Len(ofpq) : ofpq[p].ino = i
    /\ \A p, q \in 1 .. Len(ofpq) : ofpq[p].ino = ofpq[q].ino => p = q

(* The mrecord behind fi->fh lives exactly as long as a handle or the scan
   refers to it: no use after erase, no leak, no double release. *)
RefcntExact ==
    \A i \in Inos : /\ ofmap[i].refcnt = handles[i] + (IF Scanning(i) THEN 1 ELSE 0)
                    /\ ofmap[i].refcnt = 0 => ~ofmap[i].queued

(* No race makes the scan lose an open file: unless its last scan failed, it
   is in the queue or being scanned. *)
OpenFilesWatched ==
    \A i \in Inos : handles[i] > 0 /\ ~failed[i] => ofmap[i].queued \/ Scanning(i)

(* The queue stays sorted by expiration through every emplace, so its front
   really is the next entry to expire. *)
QueueSorted ==
    \A p, q \in 1 .. Len(ofpq) : p < q =>
        /\ Expired(ofpq[q]) => Expired(ofpq[p])
        /\ ofpq[q].expires = "min" => ofpq[p].expires = "min"

(* A queued file is scanned again, or closed, unless scanning is stopped or
   opens of that very file keep renewing it: no wakeup is lost, and other
   files that are opened or expire all the time do not starve it, as long
   as reads do not keep moving files to the front of the queue. *)
EventuallyScanned ==
    (\A i \in Inos : <>[][~openfile_expire_now(i)]_vars) =>
        \A i \in Inos : (<>[][~openfile_register(i)]_vars) =>
            (ofmap[i].queued ~> (Scanning(i) \/ handles[i] = 0 \/ loopdone))
=============================================================================
