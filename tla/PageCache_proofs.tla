-------------------------- MODULE PageCache_proofs --------------------------
(***************************************************************************)
(* Proofs about PageCache for any number of descriptors, pages and         *)
(* versions.  The inductive invariant is Coherent; each of its conjuncts   *)
(* is shown to be preserved by every action, from those it depends on.     *)
(***************************************************************************)
EXTENDS PageCache, TLAPS

USE PagesAssumption, MaxVersionAssumption, InitiatorsAssumption
USE DEF serverVars, inodeVars, openVars, readVars, scanVars

\* Which steps a descriptor's open and read may be in.
Control ==
    /\ settled <= server
    /\ \A f \in Fds : /\ inval[f] # {} => pc[f] = "inval"
                      /\ f \in drop => pc[f] = "reply"
                      /\ f \in old => pc[f] = "open"
                      /\ asked[f] # {} => pc[f] = "open"
                      /\ want[f] \subseteq asked[f]
    /\ ~known => cached = {} /\ \A f \in Fds : pc[f] = "closed"

\* A page being read is locked for exactly one request.
Locks == \A f \in Fds \ direct_io :
           /\ asked[f] \subseteq locked
           /\ \A g \in Fds \ direct_io : g # f => asked[f] \cap asked[g] = {}

\* fs123_read accepts nothing older than the validator it began with.
Accepted == \A f \in Fds : \A p \in asked[f] \ want[f] : got[f][p] >= ino_validator[f]

\* A request that began before the validator was updated fills pages that
\* the invalidation following the update is still going to drop.
InFlightDoomed == \A f \in Fds \ direct_io :
                    ino_validator[f] < validator => \A p \in asked[f] : Doomed(p)

\* What had settled when f was opened bounds every validator f has to do with.
Floors == \A f \in Fds :
            /\ floor[f] <= settled
            /\ pc[f] = "update" => floor[f] <= reply[f]
            /\ pc[f] \in {"reply", "inval", "open"} => floor[f] <= validator
            /\ asked[f] # {} => floor[f] <= ino_validator[f]

\* A descriptor whose open raced with no invalidation finds no page older
\* than its floor, and no request under way is going to bring one.
Clean == \A f \in Fds :
           pc[f] = "open" /\ f \notin raced =>
             /\ \A p \in cached : floor[f] <= version[p]
             /\ \A g \in Fds \ direct_io : asked[g] # {} => floor[f] <= ino_validator[g]

\* The inductive invariant.
Coherent == /\ TypeOK /\ Control /\ Locks /\ Accepted /\ InFlightDoomed
            /\ StalePagesDoomed /\ Floors /\ Clean /\ SettledReads

(* Every action keeps the variables in their types. *)
LEMMA TypeStep == TypeOK /\ [Next]_vars => TypeOK'
<1> SUFFICES ASSUME TypeOK, [Next]_vars PROVE TypeOK'
  OBVIOUS
<1> USE DEF TypeOK, Versions, Initiators
<1>1. CASE UNCHANGED vars
  BY <1>1 DEF vars
<1>2. CASE Modify
  BY <1>2 DEF Modify
<1>3. CASE Settle
  BY <1>3 DEF Settle
<1>4. CASE Lookup
  BY <1>4 DEF Lookup, Replies
<1>5. CASE Forget
  BY <1>5 DEF Forget
<1>6. CASE ScanGetattr
  BY <1>6 DEF ScanGetattr, Replies
<1>7. CASE ScanSame
  BY <1>7 DEF ScanSame
<1>8. CASE ScanNewer
  BY <1>8 DEF ScanNewer, notify_inval_inode
<1>9. CASE ScanFails
  BY <1>9 DEF ScanFails, notify_inval_inode
<1>10. CASE ScanEnds
  BY <1>10 DEF ScanEnds
<1>11. ASSUME NEW f \in Fds, OpenGetattr(f) PROVE TypeOK'
  BY <1>11 DEF OpenGetattr, Goto, Replies
<1>12. ASSUME NEW f \in Fds, OpenUpdate(f) PROVE TypeOK'
  BY <1>12 DEF OpenUpdate, Goto
<1>13. ASSUME NEW f \in Fds, OpenRetry(f) PROVE TypeOK'
  BY <1>13 DEF OpenRetry, Replies
<1>14. ASSUME NEW f \in Fds, OpenEstale(f) PROVE TypeOK'
  BY <1>14 DEF OpenEstale, Close, Goto
<1>15. ASSUME NEW f \in Fds, OpenReply(f) PROVE TypeOK'
  BY <1>15 DEF OpenReply, Goto
<1>16. ASSUME NEW f \in Fds, OpenReturn(f) PROVE TypeOK'
  BY <1>16 DEF OpenReturn, Goto
<1>17. ASSUME NEW f \in Fds, Release(f) PROVE TypeOK'
  BY <1>17 DEF Release, Close, Goto
<1>18. ASSUME NEW f \in Fds, ReadFails(f) PROVE TypeOK'
  <2>1. [p \in Pages |-> 0] \in [Pages -> Versions]
    OBVIOUS
  <2>2. got' \in [Fds -> [Pages -> Versions]]
    BY <2>1, <1>18 DEF ReadFails, ReadEnds
  <2>3. /\ asked' = [asked EXCEPT ![f] = {}] /\ want' = [want EXCEPT ![f] = {}]
        /\ ino_validator' = [ino_validator EXCEPT ![f] = 0]
    BY <1>18 DEF ReadFails, ReadEnds
  <2>4. asked' \in [Fds -> SUBSET Pages] /\ want' \in [Fds -> SUBSET Pages]
    BY <2>3
  <2>5. ino_validator' \in [Fds -> Versions]
    BY <2>3
  <2>6. locked' \subseteq Pages
    BY <1>18 DEF ReadFails, ReadEnds
  <2> QED BY <2>2, <2>4, <2>5, <2>6, <1>18 DEF ReadFails
<1>19. ASSUME NEW f \in Fds, ReadReply(f) PROVE TypeOK'
  <2>1. [p \in Pages |-> 0] \in [Pages -> Versions]
    OBVIOUS
  <2>2. got' \in [Fds -> [Pages -> Versions]]
    BY <2>1, <1>19 DEF ReadReply, ReadEnds
  <2>3. /\ asked' = [asked EXCEPT ![f] = {}] /\ want' = [want EXCEPT ![f] = {}]
        /\ ino_validator' = [ino_validator EXCEPT ![f] = 0]
    BY <1>19 DEF ReadReply, ReadEnds
  <2>4. asked' \in [Fds -> SUBSET Pages] /\ want' \in [Fds -> SUBSET Pages]
    BY <2>3
  <2>5. ino_validator' \in [Fds -> Versions]
    BY <2>3
  <2>6. locked' \subseteq Pages
    BY <1>19 DEF ReadReply, ReadEnds
  <2>7. got[f] \in [Pages -> Versions] /\ asked[f] \subseteq Pages
    OBVIOUS
  <2>8. cached' \subseteq Pages /\ version' \in [Pages -> Versions]
    <3>1. CASE f \in direct_io
      BY <3>1, <1>19 DEF ReadReply
    <3>2. CASE f \notin direct_io
      <4>1. /\ cached' = cached \cup asked[f]
            /\ version' = [p \in Pages |-> IF p \in asked[f] THEN got[f][p] ELSE version[p]]
        BY <3>2, <1>19 DEF ReadReply
      <4> QED BY <2>7, <4>1
    <3> QED BY <3>1, <3>2
  <2>9. old' \subseteq Fds
    BY <1>19 DEF ReadReply
  <2> QED BY <2>2, <2>4, <2>5, <2>6, <2>8, <2>9, <1>19 DEF ReadReply
<1>20. ASSUME NEW f \in Fds, NEW p \in Pages, ReadHit(f, p) PROVE TypeOK'
  BY <1>20 DEF ReadHit
<1>21. ASSUME NEW f \in Fds, NEW p \in Pages, ReadChunk(f, p) PROVE TypeOK'
  BY <1>21 DEF ReadChunk, Replies
<1>22. ASSUME NEW f \in Fds, NEW ps \in SUBSET Pages, ReadStart(f, ps) PROVE TypeOK'
  BY <1>22 DEF ReadStart
<1>23. ASSUME NEW p \in Pages, Reclaim(p) PROVE TypeOK'
  BY <1>23 DEF Reclaim
<1>24. ASSUME NEW x \in Initiators, NEW p \in Pages, Invalidate(x, p) PROVE TypeOK'
  BY <1>24 DEF Invalidate
<1> QED BY <1>1, <1>2, <1>3, <1>4, <1>5, <1>6, <1>7, <1>8, <1>9, <1>10, <1>11, <1>12, <1>13,
           <1>14, <1>15, <1>16, <1>17, <1>18, <1>19, <1>20, <1>21, <1>22, <1>23, <1>24 DEF Next, FdNext

(* The steps of open, read and release follow each other as in the code. *)
LEMMA ControlStep == TypeOK /\ Control /\ [Next]_vars => Control'
<1> SUFFICES ASSUME TypeOK /\ Control, [Next]_vars PROVE Control'
  OBVIOUS
<1> USE DEF TypeOK, Versions, Initiators, Control
<1>1. CASE UNCHANGED vars
  BY <1>1 DEF vars
<1>2. CASE Modify
  BY <1>2 DEF Modify
<1>3. CASE Settle
  BY <1>3 DEF Settle
<1>4. CASE Lookup
  BY <1>4 DEF Lookup, Replies
<1>5. CASE Forget
  BY <1>5 DEF Forget
<1>6. CASE ScanGetattr
  BY <1>6 DEF ScanGetattr, Replies
<1>7. CASE ScanSame
  BY <1>7 DEF ScanSame
<1>8. CASE ScanNewer
  BY <1>8 DEF ScanNewer, notify_inval_inode
<1>9. CASE ScanFails
  BY <1>9 DEF ScanFails, notify_inval_inode
<1>10. CASE ScanEnds
  BY <1>10 DEF ScanEnds
<1>11. ASSUME NEW f \in Fds, OpenGetattr(f) PROVE Control'
  BY <1>11 DEF OpenGetattr, Goto, Replies
<1>12. ASSUME NEW f \in Fds, OpenUpdate(f) PROVE Control'
  BY <1>12 DEF OpenUpdate, Goto
<1>13. ASSUME NEW f \in Fds, OpenRetry(f) PROVE Control'
  BY <1>13 DEF OpenRetry, Replies
<1>14. ASSUME NEW f \in Fds, OpenEstale(f) PROVE Control'
  BY <1>14 DEF OpenEstale, Close, Goto
<1>15. ASSUME NEW f \in Fds, OpenReply(f) PROVE Control'
  BY <1>15 DEF OpenReply, Goto
<1>16. ASSUME NEW f \in Fds, OpenReturn(f) PROVE Control'
  BY <1>16 DEF OpenReturn, Goto
<1>17. ASSUME NEW f \in Fds, Release(f) PROVE Control'
  BY <1>17 DEF Release, Close, Goto
<1>18. ASSUME NEW f \in Fds, ReadFails(f) PROVE Control'
  BY <1>18 DEF ReadFails, ReadEnds
<1>19. ASSUME NEW f \in Fds, ReadReply(f) PROVE Control'
  BY <1>19 DEF ReadReply, ReadEnds
<1>20. ASSUME NEW f \in Fds, NEW p \in Pages, ReadHit(f, p) PROVE Control'
  BY <1>20 DEF ReadHit
<1>21. ASSUME NEW f \in Fds, NEW p \in Pages, ReadChunk(f, p) PROVE Control'
  BY <1>21 DEF ReadChunk, Replies
<1>22. ASSUME NEW f \in Fds, NEW ps \in SUBSET Pages, ReadStart(f, ps) PROVE Control'
  BY <1>22 DEF ReadStart
<1>23. ASSUME NEW p \in Pages, Reclaim(p) PROVE Control'
  BY <1>23 DEF Reclaim
<1>24. ASSUME NEW x \in Initiators, NEW p \in Pages, Invalidate(x, p) PROVE Control'
  BY <1>24 DEF Invalidate
<1> QED BY <1>1, <1>2, <1>3, <1>4, <1>5, <1>6, <1>7, <1>8, <1>9, <1>10, <1>11, <1>12, <1>13,
           <1>14, <1>15, <1>16, <1>17, <1>18, <1>19, <1>20, <1>21, <1>22, <1>23, <1>24 DEF Next, FdNext

(* The kernel reads a page for one request at a time. *)
LEMMA LocksStep == TypeOK /\ Control /\ Locks /\ [Next]_vars => Locks'
<1> SUFFICES ASSUME TypeOK /\ Control /\ Locks, [Next]_vars PROVE Locks'
  OBVIOUS
<1> USE DEF TypeOK, Versions, Initiators, Control, Locks
<1>1. CASE UNCHANGED vars
  BY <1>1 DEF vars
<1>2. CASE Modify
  BY <1>2 DEF Modify
<1>3. CASE Settle
  BY <1>3 DEF Settle
<1>4. CASE Lookup
  BY <1>4 DEF Lookup, Replies
<1>5. CASE Forget
  BY <1>5 DEF Forget
<1>6. CASE ScanGetattr
  BY <1>6 DEF ScanGetattr, Replies
<1>7. CASE ScanSame
  BY <1>7 DEF ScanSame
<1>8. CASE ScanNewer
  BY <1>8 DEF ScanNewer, notify_inval_inode
<1>9. CASE ScanFails
  BY <1>9 DEF ScanFails, notify_inval_inode
<1>10. CASE ScanEnds
  BY <1>10 DEF ScanEnds
<1>11. ASSUME NEW f \in Fds, OpenGetattr(f) PROVE Locks'
  BY <1>11 DEF OpenGetattr, Goto, Replies
<1>12. ASSUME NEW f \in Fds, OpenUpdate(f) PROVE Locks'
  BY <1>12 DEF OpenUpdate, Goto
<1>13. ASSUME NEW f \in Fds, OpenRetry(f) PROVE Locks'
  BY <1>13 DEF OpenRetry, Replies
<1>14. ASSUME NEW f \in Fds, OpenEstale(f) PROVE Locks'
  BY <1>14 DEF OpenEstale, Close, Goto
<1>15. ASSUME NEW f \in Fds, OpenReply(f) PROVE Locks'
  BY <1>15 DEF OpenReply, Goto
<1>16. ASSUME NEW f \in Fds, OpenReturn(f) PROVE Locks'
  BY <1>16 DEF OpenReturn, Goto
<1>17. ASSUME NEW f \in Fds, Release(f) PROVE Locks'
  BY <1>17 DEF Release, Close, Goto
<1>18. ASSUME NEW f \in Fds, ReadFails(f) PROVE Locks'
  BY <1>18 DEF ReadFails, ReadEnds
<1>19. ASSUME NEW f \in Fds, ReadReply(f) PROVE Locks'
  BY <1>19 DEF ReadReply, ReadEnds
<1>20. ASSUME NEW f \in Fds, NEW p \in Pages, ReadHit(f, p) PROVE Locks'
  BY <1>20 DEF ReadHit
<1>21. ASSUME NEW f \in Fds, NEW p \in Pages, ReadChunk(f, p) PROVE Locks'
  BY <1>21 DEF ReadChunk, Replies
<1>22. ASSUME NEW f \in Fds, NEW ps \in SUBSET Pages, ReadStart(f, ps) PROVE Locks'
  <2>1. /\ direct_io' = direct_io
        /\ asked'[f] = ps
        /\ \A g \in Fds \ {f} : asked'[g] = asked[g]
    BY <1>22 DEF ReadStart
  <2>2. CASE f \in direct_io
    BY <2>1, <2>2, <1>22 DEF ReadStart
  <2>3. CASE f \notin direct_io
    <3>1. locked' = locked \cup ps /\ ps \cap locked = {}
      BY <2>3, <1>22 DEF ReadStart
    <3>2. \A g \in Fds \ direct_io : asked'[g] \subseteq locked'
      BY <2>1, <3>1
    <3>3. \A g \in Fds \ direct_io : g # f => asked[g] \cap ps = {}
      BY <3>1
    <3> QED BY <2>1, <3>2, <3>3
  <2> QED BY <2>2, <2>3
<1>23. ASSUME NEW p \in Pages, Reclaim(p) PROVE Locks'
  BY <1>23 DEF Reclaim
<1>24. ASSUME NEW x \in Initiators, NEW p \in Pages, Invalidate(x, p) PROVE Locks'
  BY <1>24 DEF Invalidate
<1> QED BY <1>1, <1>2, <1>3, <1>4, <1>5, <1>6, <1>7, <1>8, <1>9, <1>10, <1>11, <1>12, <1>13,
           <1>14, <1>15, <1>16, <1>17, <1>18, <1>19, <1>20, <1>21, <1>22, <1>23, <1>24 DEF Next, FdNext

(* fs123_read keeps no reply older than the validator it began with. *)
LEMMA AcceptedStep == TypeOK /\ Control /\ Accepted /\ [Next]_vars => Accepted'
<1> SUFFICES ASSUME TypeOK /\ Control /\ Accepted, [Next]_vars PROVE Accepted'
  OBVIOUS
<1> USE DEF TypeOK, Versions, Initiators, Control, Accepted
<1>1. CASE UNCHANGED vars
  BY <1>1 DEF vars
<1>2. CASE Modify
  BY <1>2 DEF Modify
<1>3. CASE Settle
  BY <1>3 DEF Settle
<1>4. CASE Lookup
  BY <1>4 DEF Lookup, Replies
<1>5. CASE Forget
  BY <1>5 DEF Forget
<1>6. CASE ScanGetattr
  BY <1>6 DEF ScanGetattr, Replies
<1>7. CASE ScanSame
  BY <1>7 DEF ScanSame
<1>8. CASE ScanNewer
  BY <1>8 DEF ScanNewer, notify_inval_inode
<1>9. CASE ScanFails
  BY <1>9 DEF ScanFails, notify_inval_inode
<1>10. CASE ScanEnds
  BY <1>10 DEF ScanEnds
<1>11. ASSUME NEW f \in Fds, OpenGetattr(f) PROVE Accepted'
  BY <1>11 DEF OpenGetattr, Goto, Replies
<1>12. ASSUME NEW f \in Fds, OpenUpdate(f) PROVE Accepted'
  BY <1>12 DEF OpenUpdate, Goto
<1>13. ASSUME NEW f \in Fds, OpenRetry(f) PROVE Accepted'
  BY <1>13 DEF OpenRetry, Replies
<1>14. ASSUME NEW f \in Fds, OpenEstale(f) PROVE Accepted'
  BY <1>14 DEF OpenEstale, Close, Goto
<1>15. ASSUME NEW f \in Fds, OpenReply(f) PROVE Accepted'
  BY <1>15 DEF OpenReply, Goto
<1>16. ASSUME NEW f \in Fds, OpenReturn(f) PROVE Accepted'
  BY <1>16 DEF OpenReturn, Goto
<1>17. ASSUME NEW f \in Fds, Release(f) PROVE Accepted'
  BY <1>17 DEF Release, Close, Goto
<1>18. ASSUME NEW f \in Fds, ReadFails(f) PROVE Accepted'
  BY <1>18 DEF ReadFails, ReadEnds
<1>19. ASSUME NEW f \in Fds, ReadReply(f) PROVE Accepted'
  BY <1>19 DEF ReadReply, ReadEnds
<1>20. ASSUME NEW f \in Fds, NEW p \in Pages, ReadHit(f, p) PROVE Accepted'
  BY <1>20 DEF ReadHit
<1>21. ASSUME NEW f \in Fds, NEW p \in Pages, ReadChunk(f, p) PROVE Accepted'
  BY <1>21 DEF ReadChunk, Replies
<1>22. ASSUME NEW f \in Fds, NEW ps \in SUBSET Pages, ReadStart(f, ps) PROVE Accepted'
  BY <1>22 DEF ReadStart
<1>23. ASSUME NEW p \in Pages, Reclaim(p) PROVE Accepted'
  BY <1>23 DEF Reclaim
<1>24. ASSUME NEW x \in Initiators, NEW p \in Pages, Invalidate(x, p) PROVE Accepted'
  BY <1>24 DEF Invalidate
<1> QED BY <1>1, <1>2, <1>3, <1>4, <1>5, <1>6, <1>7, <1>8, <1>9, <1>10, <1>11, <1>12, <1>13,
           <1>14, <1>15, <1>16, <1>17, <1>18, <1>19, <1>20, <1>21, <1>22, <1>23, <1>24 DEF Next, FdNext

(* An update of the validator comes with an invalidation, which waits for
   the requests that began before it. *)
LEMMA InFlightStep ==
    TypeOK /\ Control /\ Locks /\ InFlightDoomed /\ [Next]_vars
    => InFlightDoomed'
<1> SUFFICES ASSUME TypeOK /\ Control /\ Locks /\ InFlightDoomed,
                    [Next]_vars
             PROVE  InFlightDoomed'
  OBVIOUS
<1> USE DEF TypeOK, Versions, Initiators, Control, Locks, InFlightDoomed, Doomed
<1>1. CASE UNCHANGED vars
  BY <1>1 DEF vars
<1>2. CASE Modify
  BY <1>2 DEF Modify
<1>3. CASE Settle
  BY <1>3 DEF Settle
<1>4. CASE Lookup
  BY <1>4 DEF Lookup, Replies
<1>5. CASE Forget
  BY <1>5 DEF Forget
<1>6. CASE ScanGetattr
  BY <1>6 DEF ScanGetattr, Replies
<1>7. CASE ScanSame
  BY <1>7 DEF ScanSame
<1>8. CASE ScanNewer
  BY <1>8 DEF ScanNewer, notify_inval_inode
<1>9. CASE ScanFails
  BY <1>9 DEF ScanFails, notify_inval_inode
<1>10. CASE ScanEnds
  BY <1>10 DEF ScanEnds
<1>11. ASSUME NEW f \in Fds, OpenGetattr(f) PROVE InFlightDoomed'
  BY <1>11 DEF OpenGetattr, Goto, Replies
<1>12. ASSUME NEW f \in Fds, OpenUpdate(f) PROVE InFlightDoomed'
  <2>1. CASE reply[f] = validator
    <3>1. drop' = drop /\ validator' = validator
      BY <2>1, <1>12 DEF OpenUpdate, Goto
    <3>2. \A p \in Pages : Doomed(p) => Doomed(p)'
      BY <3>1, <1>12 DEF OpenUpdate, Doomed
    <3>3. \A g \in Fds \ direct_io' : g \in Fds \ direct_io
      BY <1>12 DEF OpenUpdate, Goto
    <3> QED BY <3>1, <3>2, <3>3, <1>12 DEF OpenUpdate, Goto
  <2>2. CASE reply[f] # validator
    <3>1. f \in drop'
      BY <2>2, <1>12 DEF OpenUpdate, Goto
    <3> QED BY <3>1 DEF Doomed
  <2> QED BY <2>1, <2>2
<1>13. ASSUME NEW f \in Fds, OpenRetry(f) PROVE InFlightDoomed'
  BY <1>13 DEF OpenRetry, Replies
<1>14. ASSUME NEW f \in Fds, OpenEstale(f) PROVE InFlightDoomed'
  BY <1>14 DEF OpenEstale, Close, Goto
<1>15. ASSUME NEW f \in Fds, OpenReply(f) PROVE InFlightDoomed'
  BY <1>15 DEF OpenReply, Goto
<1>16. ASSUME NEW f \in Fds, OpenReturn(f) PROVE InFlightDoomed'
  BY <1>16 DEF OpenReturn, Goto
<1>17. ASSUME NEW f \in Fds, Release(f) PROVE InFlightDoomed'
  <2>1. drop' = drop /\ inval' = inval
    BY <1>17 DEF Release, Close, Goto
  <2>2. \A p \in Pages : Doomed(p) => Doomed(p)'
    BY <2>1 DEF Doomed
  <2>3. asked[f] = {}
    BY <1>17 DEF Release
  <2>4. \A g \in Fds \ direct_io' : g # f => g \in Fds \ direct_io
    BY <1>17 DEF Release, Close, Goto
  <2>5. asked' = asked /\ ino_validator' = ino_validator /\ validator' = validator
    BY <1>17 DEF Release
  <2> QED BY <2>2, <2>3, <2>4, <2>5
<1>18. ASSUME NEW f \in Fds, ReadFails(f) PROVE InFlightDoomed'
  BY <1>18 DEF ReadFails, ReadEnds
<1>19. ASSUME NEW f \in Fds, ReadReply(f) PROVE InFlightDoomed'
  BY <1>19 DEF ReadReply, ReadEnds
<1>20. ASSUME NEW f \in Fds, NEW p \in Pages, ReadHit(f, p) PROVE InFlightDoomed'
  BY <1>20 DEF ReadHit
<1>21. ASSUME NEW f \in Fds, NEW p \in Pages, ReadChunk(f, p) PROVE InFlightDoomed'
  BY <1>21 DEF ReadChunk, Replies
<1>22. ASSUME NEW f \in Fds, NEW ps \in SUBSET Pages, ReadStart(f, ps) PROVE InFlightDoomed'
  BY <1>22 DEF ReadStart
<1>23. ASSUME NEW p \in Pages, Reclaim(p) PROVE InFlightDoomed'
  BY <1>23 DEF Reclaim
<1>24. ASSUME NEW x \in Initiators, NEW p \in Pages, Invalidate(x, p) PROVE InFlightDoomed'
  BY <1>24 DEF Invalidate
<1> QED BY <1>1, <1>2, <1>3, <1>4, <1>5, <1>6, <1>7, <1>8, <1>9, <1>10, <1>11, <1>12, <1>13,
           <1>14, <1>15, <1>16, <1>17, <1>18, <1>19, <1>20, <1>21, <1>22, <1>23, <1>24 DEF Next, FdNext

(* A page that is stale, because the validator has moved or because a late
   request has filled it, is one that an invalidation will drop. *)
LEMMA StaleStep ==
    TypeOK /\ Control /\ Accepted /\ InFlightDoomed /\ StalePagesDoomed /\ [Next]_vars
    => StalePagesDoomed'
<1> SUFFICES ASSUME TypeOK /\ Control /\ Accepted /\ InFlightDoomed /\ StalePagesDoomed,
                    [Next]_vars
             PROVE  StalePagesDoomed'
  OBVIOUS
<1> USE DEF TypeOK, Versions, Initiators, Control, Accepted, InFlightDoomed, Doomed,
            StalePagesDoomed, Stale
<1>1. CASE UNCHANGED vars
  BY <1>1 DEF vars
<1>2. CASE Modify
  BY <1>2 DEF Modify
<1>3. CASE Settle
  BY <1>3 DEF Settle
<1>4. CASE Lookup
  BY <1>4 DEF Lookup, Replies
<1>5. CASE Forget
  BY <1>5 DEF Forget
<1>6. CASE ScanGetattr
  BY <1>6 DEF ScanGetattr, Replies
<1>7. CASE ScanSame
  BY <1>7 DEF ScanSame
<1>8. CASE ScanNewer
  BY <1>8 DEF ScanNewer, notify_inval_inode
<1>9. CASE ScanFails
  BY <1>9 DEF ScanFails, notify_inval_inode
<1>10. CASE ScanEnds
  BY <1>10 DEF ScanEnds
<1>11. ASSUME NEW f \in Fds, OpenGetattr(f) PROVE StalePagesDoomed'
  BY <1>11 DEF OpenGetattr, Goto, Replies
<1>12. ASSUME NEW f \in Fds, OpenUpdate(f) PROVE StalePagesDoomed'
  BY <1>12 DEF OpenUpdate, Goto
<1>13. ASSUME NEW f \in Fds, OpenRetry(f) PROVE StalePagesDoomed'
  BY <1>13 DEF OpenRetry, Replies
<1>14. ASSUME NEW f \in Fds, OpenEstale(f) PROVE StalePagesDoomed'
  BY <1>14 DEF OpenEstale, Close, Goto
<1>15. ASSUME NEW f \in Fds, OpenReply(f) PROVE StalePagesDoomed'
  BY <1>15 DEF OpenReply, Goto
<1>16. ASSUME NEW f \in Fds, OpenReturn(f) PROVE StalePagesDoomed'
  BY <1>16 DEF OpenReturn, Goto
<1>17. ASSUME NEW f \in Fds, Release(f) PROVE StalePagesDoomed'
  BY <1>17 DEF Release, Close, Goto
<1>18. ASSUME NEW f \in Fds, ReadFails(f) PROVE StalePagesDoomed'
  BY <1>18 DEF ReadFails, ReadEnds
<1>19. ASSUME NEW f \in Fds, ReadReply(f) PROVE StalePagesDoomed'
  BY <1>19 DEF ReadReply, ReadEnds
<1>20. ASSUME NEW f \in Fds, NEW p \in Pages, ReadHit(f, p) PROVE StalePagesDoomed'
  BY <1>20 DEF ReadHit
<1>21. ASSUME NEW f \in Fds, NEW p \in Pages, ReadChunk(f, p) PROVE StalePagesDoomed'
  BY <1>21 DEF ReadChunk, Replies
<1>22. ASSUME NEW f \in Fds, NEW ps \in SUBSET Pages, ReadStart(f, ps) PROVE StalePagesDoomed'
  BY <1>22 DEF ReadStart
<1>23. ASSUME NEW p \in Pages, Reclaim(p) PROVE StalePagesDoomed'
  BY <1>23 DEF Reclaim
<1>24. ASSUME NEW x \in Initiators, NEW p \in Pages, Invalidate(x, p) PROVE StalePagesDoomed'
  BY <1>24 DEF Invalidate
<1> QED BY <1>1, <1>2, <1>3, <1>4, <1>5, <1>6, <1>7, <1>8, <1>9, <1>10, <1>11, <1>12, <1>13,
           <1>14, <1>15, <1>16, <1>17, <1>18, <1>19, <1>20, <1>21, <1>22, <1>23, <1>24 DEF Next, FdNext

(* The validators only grow while the inode is known. *)
LEMMA FloorsStep == TypeOK /\ Control /\ Floors /\ [Next]_vars => Floors'
<1> SUFFICES ASSUME TypeOK /\ Control /\ Floors, [Next]_vars PROVE Floors'
  OBVIOUS
<1> USE DEF TypeOK, Versions, Initiators, Control, Floors
<1>1. CASE UNCHANGED vars
  BY <1>1 DEF vars
<1>2. CASE Modify
  BY <1>2 DEF Modify
<1>3. CASE Settle
  BY <1>3 DEF Settle
<1>4. CASE Lookup
  BY <1>4 DEF Lookup, Replies
<1>5. CASE Forget
  BY <1>5 DEF Forget
<1>6. CASE ScanGetattr
  BY <1>6 DEF ScanGetattr, Replies
<1>7. CASE ScanSame
  BY <1>7 DEF ScanSame
<1>8. CASE ScanNewer
  BY <1>8 DEF ScanNewer, notify_inval_inode
<1>9. CASE ScanFails
  BY <1>9 DEF ScanFails, notify_inval_inode
<1>10. CASE ScanEnds
  BY <1>10 DEF ScanEnds
<1>11. ASSUME NEW f \in Fds, OpenGetattr(f) PROVE Floors'
  BY <1>11 DEF OpenGetattr, Goto, Replies
<1>12. ASSUME NEW f \in Fds, OpenUpdate(f) PROVE Floors'
  BY <1>12 DEF OpenUpdate, Goto
<1>13. ASSUME NEW f \in Fds, OpenRetry(f) PROVE Floors'
  BY <1>13 DEF OpenRetry, Replies
<1>14. ASSUME NEW f \in Fds, OpenEstale(f) PROVE Floors'
  BY <1>14 DEF OpenEstale, Close, Goto
<1>15. ASSUME NEW f \in Fds, OpenReply(f) PROVE Floors'
  BY <1>15 DEF OpenReply, Goto
<1>16. ASSUME NEW f \in Fds, OpenReturn(f) PROVE Floors'
  BY <1>16 DEF OpenReturn, Goto
<1>17. ASSUME NEW f \in Fds, Release(f) PROVE Floors'
  BY <1>17 DEF Release, Close, Goto
<1>18. ASSUME NEW f \in Fds, ReadFails(f) PROVE Floors'
  BY <1>18 DEF ReadFails, ReadEnds
<1>19. ASSUME NEW f \in Fds, ReadReply(f) PROVE Floors'
  BY <1>19 DEF ReadReply, ReadEnds
<1>20. ASSUME NEW f \in Fds, NEW p \in Pages, ReadHit(f, p) PROVE Floors'
  BY <1>20 DEF ReadHit
<1>21. ASSUME NEW f \in Fds, NEW p \in Pages, ReadChunk(f, p) PROVE Floors'
  BY <1>21 DEF ReadChunk, Replies
<1>22. ASSUME NEW f \in Fds, NEW ps \in SUBSET Pages, ReadStart(f, ps) PROVE Floors'
  BY <1>22 DEF ReadStart
<1>23. ASSUME NEW p \in Pages, Reclaim(p) PROVE Floors'
  BY <1>23 DEF Reclaim
<1>24. ASSUME NEW x \in Initiators, NEW p \in Pages, Invalidate(x, p) PROVE Floors'
  BY <1>24 DEF Invalidate
<1> QED BY <1>1, <1>2, <1>3, <1>4, <1>5, <1>6, <1>7, <1>8, <1>9, <1>10, <1>11, <1>12, <1>13,
           <1>14, <1>15, <1>16, <1>17, <1>18, <1>19, <1>20, <1>21, <1>22, <1>23, <1>24 DEF Next, FdNext

(* When open returns and nothing is doomed, no page and no request is older
   than the validator, hence than the floor; later ones are newer still. *)
LEMMA CleanStep ==
    TypeOK /\ Control /\ Accepted /\ InFlightDoomed /\ StalePagesDoomed /\ Floors /\ Clean /\ [Next]_vars
    => Clean'
<1> SUFFICES ASSUME TypeOK /\ Control /\ Accepted /\ InFlightDoomed /\ StalePagesDoomed /\ Floors /\ Clean,
                    [Next]_vars
             PROVE  Clean'
  OBVIOUS
<1> USE DEF TypeOK, Versions, Initiators, Control, Accepted, InFlightDoomed, Doomed,
            StalePagesDoomed, Stale, Floors, Clean
<1>1. CASE UNCHANGED vars
  BY <1>1 DEF vars
<1>2. CASE Modify
  BY <1>2 DEF Modify
<1>3. CASE Settle
  BY <1>3 DEF Settle
<1>4. CASE Lookup
  BY <1>4 DEF Lookup, Replies
<1>5. CASE Forget
  BY <1>5 DEF Forget
<1>6. CASE ScanGetattr
  BY <1>6 DEF ScanGetattr, Replies
<1>7. CASE ScanSame
  BY <1>7 DEF ScanSame
<1>8. CASE ScanNewer
  BY <1>8 DEF ScanNewer, notify_inval_inode
<1>9. CASE ScanFails
  BY <1>9 DEF ScanFails, notify_inval_inode
<1>10. CASE ScanEnds
  BY <1>10 DEF ScanEnds
<1>11. ASSUME NEW f \in Fds, OpenGetattr(f) PROVE Clean'
  BY <1>11 DEF OpenGetattr, Goto, Replies
<1>12. ASSUME NEW f \in Fds, OpenUpdate(f) PROVE Clean'
  BY <1>12 DEF OpenUpdate, Goto
<1>13. ASSUME NEW f \in Fds, OpenRetry(f) PROVE Clean'
  BY <1>13 DEF OpenRetry, Replies
<1>14. ASSUME NEW f \in Fds, OpenEstale(f) PROVE Clean'
  BY <1>14 DEF OpenEstale, Close, Goto
<1>15. ASSUME NEW f \in Fds, OpenReply(f) PROVE Clean'
  BY <1>15 DEF OpenReply, Goto
<1>16. ASSUME NEW f \in Fds, OpenReturn(f) PROVE Clean'
  <2>1. \A g \in Fds \ {f} : pc'[g] = pc[g] /\ (g \in raced' <=> g \in raced)
    BY <1>16 DEF OpenReturn, Goto
  <2>2. ASSUME f \notin raced'
        PROVE  /\ \A p \in cached : floor[f] <= version[p]
               /\ \A g \in Fds \ direct_io : asked[g] # {} => floor[f] <= ino_validator[g]
    <3>1. ~ \E p \in Pages : Doomed(p)
      BY <2>2, <1>16 DEF OpenReturn
    <3>2. floor[f] <= validator /\ floor[f] \in Nat /\ validator \in Nat
      BY <1>16 DEF OpenReturn
    <3>3. \A p \in cached : ~(version[p] < validator)
      BY <3>1 DEF StalePagesDoomed, Stale
    <3>4. \A g \in Fds \ direct_io : asked[g] # {} => ~(ino_validator[g] < validator)
      <4> SUFFICES ASSUME NEW g \in Fds \ direct_io, NEW p \in asked[g],
                          ino_validator[g] < validator
                   PROVE  FALSE
        OBVIOUS
      <4> QED BY <3>1 DEF InFlightDoomed
    <3>5. \A p \in cached : version[p] \in Nat
      OBVIOUS
    <3>6. \A g \in Fds : ino_validator[g] \in Nat
      OBVIOUS
    <3>7. \A p \in cached : floor[f] <= version[p]
      BY <3>2, <3>3, <3>5
    <3>8. \A g \in Fds \ direct_io : asked[g] # {} => floor[f] <= ino_validator[g]
      BY <3>2, <3>4, <3>6
    <3> QED BY <3>7, <3>8
  <2>3. UNCHANGED <<floor, version, cached, direct_io, asked, ino_validator>>
    BY <1>16 DEF OpenReturn
  <2> QED BY <2>1, <2>2, <2>3
<1>17. ASSUME NEW f \in Fds, Release(f) PROVE Clean'
  BY <1>17 DEF Release, Close, Goto
<1>18. ASSUME NEW f \in Fds, ReadFails(f) PROVE Clean'
  BY <1>18 DEF ReadFails, ReadEnds
<1>19. ASSUME NEW f \in Fds, ReadReply(f) PROVE Clean'
  <2>1. /\ UNCHANGED <<pc, raced, floor, direct_io>>
        /\ \A g \in Fds \ {f} : asked'[g] = asked[g] /\ ino_validator'[g] = ino_validator[g]
        /\ asked'[f] = {}
    BY <1>19 DEF ReadReply, ReadEnds
  <2> SUFFICES ASSUME NEW g \in Fds, pc[g] = "open", g \notin raced
               PROVE  \A p \in cached' : floor[g] <= version'[p]
    BY <2>1
  <2>2. CASE f \in direct_io
    BY <2>2, <1>19 DEF ReadReply
  <2>3. CASE f \notin direct_io
    <3>1. /\ cached' = cached \cup asked[f]
          /\ \A p \in Pages : version'[p] = IF p \in asked[f] THEN got[f][p] ELSE version[p]
      BY <2>3, <1>19 DEF ReadReply
    <3>2. floor[g] <= ino_validator[f] /\ floor[g] \in Nat /\ ino_validator[f] \in Nat
      BY <2>3, <1>19 DEF ReadReply
    <3>3. \A p \in asked[f] : got[f][p] >= ino_validator[f] /\ got[f][p] \in Nat
      BY <1>19 DEF ReadReply
    <3>4. \A p \in asked[f] : floor[g] <= got[f][p]
      BY <3>2, <3>3
    <3> QED BY <3>1, <3>4
  <2> QED BY <2>2, <2>3
<1>20. ASSUME NEW f \in Fds, NEW p \in Pages, ReadHit(f, p) PROVE Clean'
  BY <1>20 DEF ReadHit
<1>21. ASSUME NEW f \in Fds, NEW p \in Pages, ReadChunk(f, p) PROVE Clean'
  BY <1>21 DEF ReadChunk, Replies
<1>22. ASSUME NEW f \in Fds, NEW ps \in SUBSET Pages, ReadStart(f, ps) PROVE Clean'
  BY <1>22 DEF ReadStart
<1>23. ASSUME NEW p \in Pages, Reclaim(p) PROVE Clean'
  BY <1>23 DEF Reclaim
<1>24. ASSUME NEW x \in Initiators, NEW p \in Pages, Invalidate(x, p) PROVE Clean'
  BY <1>24 DEF Invalidate
<1> QED BY <1>1, <1>2, <1>3, <1>4, <1>5, <1>6, <1>7, <1>8, <1>9, <1>10, <1>11, <1>12, <1>13,
           <1>14, <1>15, <1>16, <1>17, <1>18, <1>19, <1>20, <1>21, <1>22, <1>23, <1>24 DEF Next, FdNext

(* So neither a hit nor a request of such a descriptor is too old. *)
LEMMA SettledStep ==
    TypeOK /\ Control /\ Accepted /\ Floors /\ Clean /\ SettledReads /\ [Next]_vars
    => SettledReads'
<1> SUFFICES ASSUME TypeOK /\ Control /\ Accepted /\ Floors /\ Clean /\ SettledReads,
                    [Next]_vars
             PROVE  SettledReads'
  OBVIOUS
<1> USE DEF TypeOK, Versions, Initiators, Control, Accepted, Floors, Clean, SettledReads
<1>1. CASE UNCHANGED vars
  BY <1>1 DEF vars
<1>2. CASE Modify
  BY <1>2 DEF Modify
<1>3. CASE Settle
  BY <1>3 DEF Settle
<1>4. CASE Lookup
  BY <1>4 DEF Lookup, Replies
<1>5. CASE Forget
  BY <1>5 DEF Forget
<1>6. CASE ScanGetattr
  BY <1>6 DEF ScanGetattr, Replies
<1>7. CASE ScanSame
  BY <1>7 DEF ScanSame
<1>8. CASE ScanNewer
  BY <1>8 DEF ScanNewer, notify_inval_inode
<1>9. CASE ScanFails
  BY <1>9 DEF ScanFails, notify_inval_inode
<1>10. CASE ScanEnds
  BY <1>10 DEF ScanEnds
<1>11. ASSUME NEW f \in Fds, OpenGetattr(f) PROVE SettledReads'
  BY <1>11 DEF OpenGetattr, Goto, Replies
<1>12. ASSUME NEW f \in Fds, OpenUpdate(f) PROVE SettledReads'
  BY <1>12 DEF OpenUpdate, Goto
<1>13. ASSUME NEW f \in Fds, OpenRetry(f) PROVE SettledReads'
  BY <1>13 DEF OpenRetry, Replies
<1>14. ASSUME NEW f \in Fds, OpenEstale(f) PROVE SettledReads'
  BY <1>14 DEF OpenEstale, Close, Goto
<1>15. ASSUME NEW f \in Fds, OpenReply(f) PROVE SettledReads'
  BY <1>15 DEF OpenReply, Goto
<1>16. ASSUME NEW f \in Fds, OpenReturn(f) PROVE SettledReads'
  BY <1>16 DEF OpenReturn, Goto
<1>17. ASSUME NEW f \in Fds, Release(f) PROVE SettledReads'
  BY <1>17 DEF Release, Close, Goto
<1>18. ASSUME NEW f \in Fds, ReadFails(f) PROVE SettledReads'
  BY <1>18 DEF ReadFails, ReadEnds
<1>19. ASSUME NEW f \in Fds, ReadReply(f) PROVE SettledReads'
  <2>1. asked[f] # {} /\ want[f] = {} /\ UNCHANGED <<pc, raced>>
    BY <1>19 DEF ReadReply
  <2>2. floor[f] <= ino_validator[f] /\ floor[f] \in Nat /\ ino_validator[f] \in Nat
    BY <2>1
  <2>3. \A p \in asked[f] : got[f][p] >= ino_validator[f] /\ got[f][p] \in Nat
    BY <2>1
  <2>4. ~ \E p \in asked[f] : got[f][p] < floor[f]
    BY <2>2, <2>3
  <2>5. old' = old
    BY <2>4, <1>19 DEF ReadReply
  <2> QED BY <2>1, <2>5
<1>20. ASSUME NEW f \in Fds, NEW p \in Pages, ReadHit(f, p) PROVE SettledReads'
  BY <1>20 DEF ReadHit
<1>21. ASSUME NEW f \in Fds, NEW p \in Pages, ReadChunk(f, p) PROVE SettledReads'
  BY <1>21 DEF ReadChunk, Replies
<1>22. ASSUME NEW f \in Fds, NEW ps \in SUBSET Pages, ReadStart(f, ps) PROVE SettledReads'
  BY <1>22 DEF ReadStart
<1>23. ASSUME NEW p \in Pages, Reclaim(p) PROVE SettledReads'
  BY <1>23 DEF Reclaim
<1>24. ASSUME NEW x \in Initiators, NEW p \in Pages, Invalidate(x, p) PROVE SettledReads'
  BY <1>24 DEF Invalidate
<1> QED BY <1>1, <1>2, <1>3, <1>4, <1>5, <1>6, <1>7, <1>8, <1>9, <1>10, <1>11, <1>12, <1>13,
           <1>14, <1>15, <1>16, <1>17, <1>18, <1>19, <1>20, <1>21, <1>22, <1>23, <1>24 DEF Next, FdNext

(* No page is cached, no descriptor is open and nothing is asked for at first. *)
LEMMA CoherentInit == Init => Coherent
<1> SUFFICES ASSUME Init PROVE Coherent
  OBVIOUS
<1> USE DEF Init, Versions, Initiators
<1>1. TypeOK
  <2>1. [p \in Pages |-> 0] \in [Pages -> Versions]
    OBVIOUS
  <2>2. got \in [Fds -> [Pages -> Versions]] /\ version \in [Pages -> Versions]
    BY <2>1
  <2>3. /\ inval \in [Initiators -> SUBSET Pages]
        /\ asked \in [Fds -> SUBSET Pages] /\ want \in [Fds -> SUBSET Pages]
    OBVIOUS
  <2>4. /\ pc \in [Fds -> {"closed", "update", "reply", "inval", "open"}]
        /\ reply \in [Fds -> Versions] /\ floor \in [Fds -> Versions]
        /\ ino_validator \in [Fds -> Versions]
    OBVIOUS
  <2>5. /\ server \in Versions /\ settled \in Versions
        /\ validator \in Versions /\ cached \subseteq Pages /\ locked \subseteq Pages
        /\ no_cache \subseteq Fds /\ drop \subseteq Fds /\ direct_io \subseteq Fds
        /\ raced \subseteq Fds /\ old \subseteq Fds
        /\ scanpc \in {"idle", "update", "inval"} /\ scanreply \in Versions
    OBVIOUS
  <2>6. known \in BOOLEAN
    BY Zenon
  <2> HIDE DEF Init, Versions, Initiators
  <2> QED BY <2>2, <2>3, <2>4, <2>5, <2>6 DEF TypeOK
<1>2. Control
  BY DEF Control
<1>3. Locks /\ Accepted /\ Floors
  BY DEF Locks, Accepted, Floors
<1>4. InFlightDoomed /\ StalePagesDoomed /\ Clean /\ SettledReads
  BY DEF InFlightDoomed, StalePagesDoomed, Stale, Clean, SettledReads
<1> QED BY <1>1, <1>2, <1>3, <1>4 DEF Coherent

(* Coherent holds in every state. *)
LEMMA CoherentAlways == Spec => []Coherent
<1>1. Coherent /\ [Next]_vars => Coherent'
  BY TypeStep, ControlStep, LocksStep, AcceptedStep, InFlightStep, StaleStep,
     FloorsStep, CleanStep, SettledStep DEF Coherent
<1> QED BY <1>1, CoherentInit, PTL DEF Spec

(* The variables of fs123_open, fs123_read, the scan and the kernel keep
   their types in every behaviour. *)
THEOREM TypeCorrect == Spec => []TypeOK
<1>1. Coherent => TypeOK
  BY DEF Coherent
<1> QED BY <1>1, CoherentAlways, PTL

(* However the handlers of fs123_open and fs123_read, the scan and the
   kernel's invalidations interleave, a cached page that is older than the
   inomap's validator is one that keep_cache=0 or notify_inval_inode is
   still going to drop. *)
THEOREM StaleIsDoomed == Spec => []StalePagesDoomed
<1>1. Coherent => StalePagesDoomed
  BY DEF Coherent
<1> QED BY <1>1, CoherentAlways, PTL

(* A descriptor whose fs123_open returned while no invalidation was pending
   never reads what is older than the settled version at its open: the
   consistency the documentation promises, outside the race. *)
THEOREM ReadsAreSettled == Spec => []SettledReads
<1>1. Coherent => SettledReads
  BY DEF Coherent
<1> QED BY <1>1, CoherentAlways, PTL
=============================================================================
