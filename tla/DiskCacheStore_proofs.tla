----------------------- MODULE DiskCacheStore_proofs -----------------------
(***************************************************************************)
(* Proofs about DiskCacheStore for any number of threads, urls, replies    *)
(* and inodes: what holds whatever the eviction thread does, and the two   *)
(* invariants that hold until it first unlinks a <k>.new.                  *)
(***************************************************************************)
EXTENDS DiskCacheStore, TLAPS

USE NoneAssumption

\* An inode that readers of k may be given: not ours, or written for k.
WrittenFor(i, k) == inode[i].written = "alien" \/ inode[i].data \in offered[k]

Named == \A k \in Keys : /\ path[k] # None => WrittenFor(path[k], k)
                         /\ new[k] # None => WrittenFor(new[k], k)

Busy == \A t \in Threads : thread[t].pc # "idle" => thread[t].key \in Keys

\* Descriptors: a writer's file holds its own reply, and is never alien, so
\* the bytes it adds after its name was re-bound are right for every key.
Readers == \A t \in Threads : thread[t].pc = "read" =>
             /\ thread[t].ino \in Inodes
             /\ WrittenFor(thread[t].ino, thread[t].key)

Writers == \A t \in Threads : thread[t].pc \in Writing =>
             /\ thread[t].ino \in Inodes
             /\ inode[thread[t].ino].written # "alien"
             /\ inode[thread[t].ino].data \in offered[thread[t].key]

\* The inductive invariant behind TypeOK and GenuineReads.
Genuine == TypeOK /\ Busy /\ Named /\ Readers /\ Writers /\ GenuineReads

(* The initial states have only genuine data. *)
LEMMA GenuineInit == Init => Genuine
<1> SUFFICES ASSUME Init PROVE Genuine
  OBVIOUS
<1>1. TypeOK
  BY DEF Init, TypeOK, File, ThreadState, IdleThread, PCs, Writing, NoAnswer
<1>2. Busy /\ Readers /\ Writers
  BY DEF Init, Busy, Readers, Writers, Writing, IdleThread
<1>3. Named
  BY DEF Init, Named, WrittenFor
<1>4. GenuineReads
  BY DEF Init, GenuineReads
<1> QED BY <1>1, <1>2, <1>3, <1>4 DEF Genuine

\* Steps that only move names and program counters.
LEMMA RebindStep ==
    ASSUME Genuine, NEW t \in Threads,
           UNCHANGED <<inode, offered, answer>>,
           path' \in {path, [path EXCEPT ![thread[t].key] = None],
                      [path EXCEPT ![thread[t].key] = new[thread[t].key]]},
           new' \in {new, [new EXCEPT ![thread[t].key] = None]},
           thread[t].pc # "idle",
           \/ thread' = [thread EXCEPT ![t] = IdleThread]
           \/ /\ thread' = [thread EXCEPT ![t].pc = "unlinknew"]
           \/ /\ thread' = [thread EXCEPT ![t].pc = "unlinkpath"]
           \/ /\ thread' = [thread EXCEPT ![t].pc = "quarantine"],
           litter' \in BOOLEAN, evicted' \in BOOLEAN
    PROVE  Genuine'
<1> DEFINE k == thread[t].key
<1>1. k \in Keys
  BY DEF Genuine, Busy
<1>2. TypeOK'
  <2>1. /\ path' \in [Keys -> Inodes \cup {None}]
        /\ new' \in [Keys -> Inodes \cup {None}]
    BY <1>1 DEF Genuine, TypeOK
  <2>2. thread' \in [Threads -> ThreadState]
    BY DEF Genuine, TypeOK, ThreadState, IdleThread, PCs, Writing
  <2>3. \A u \in Threads : thread'[u].pc = "idle" => thread'[u] = IdleThread
    BY DEF Genuine, TypeOK, ThreadState, IdleThread
  <2>4. litter' \in BOOLEAN /\ evicted' \in BOOLEAN
    BY Zenon DEF Genuine, TypeOK
  <2>5. inode \in [Inodes -> File] /\ offered \in [Keys -> SUBSET Replies]
        /\ answer \in [key : Keys, reply : Replies \cup {None}] \cup {NoAnswer}
    BY Zenon DEF Genuine, TypeOK
  <2> QED BY <2>1, <2>2, <2>3, <2>4, <2>5 DEF TypeOK
<1>3. Busy'
  BY <1>1 DEF Genuine, TypeOK, ThreadState, IdleThread, Busy
<1>4. Named'
  BY <1>1 DEF Genuine, TypeOK, Named, WrittenFor
<1>5. Readers'
  BY DEF Genuine, TypeOK, ThreadState, IdleThread, Readers, WrittenFor
<1>6. Writers'
  BY DEF Genuine, TypeOK, ThreadState, IdleThread, Writers, Writing
<1>7. GenuineReads'
  BY DEF Genuine, GenuineReads
<1> QED BY <1>2, <1>3, <1>4, <1>5, <1>6, <1>7 DEF Genuine

\* Steps of a writer that leave all names alone and extend its file.
LEMMA WriteStep ==
    ASSUME Genuine, NEW t \in Threads, thread[t].pc \in Writing,
           NEW w \in {"part", "all"}, NEW l \in Writing,
           inode' = [inode EXCEPT ![thread[t].ino].written = w],
           thread' = [thread EXCEPT ![t].pc = l],
           UNCHANGED <<path, new, offered, answer, litter, evicted>>
    PROVE  Genuine'
<1> DEFINE i == thread[t].ino
<1>1. /\ i \in Inodes
      /\ inode[i] \in File
      /\ inode[i].written # "alien"
      /\ inode[i].data \in offered[thread[t].key]
  BY DEF Genuine, Writers, TypeOK
<1>2. /\ DOMAIN inode' = Inodes
      /\ inode'[i] = [data |-> inode[i].data, written |-> w]
      /\ \A j \in Inodes : j # i => inode'[j] = inode[j]
  BY <1>1 DEF Genuine, TypeOK, File
<1>3. \A j \in Inodes : \A k \in Keys : WrittenFor(j, k) => WrittenFor(j, k)'
  BY <1>1, <1>2 DEF WrittenFor
<1>4. TypeOK'
  <2>1. inode' \in [Inodes -> File]
    BY <1>1, <1>2 DEF Genuine, TypeOK, File
  <2>2. thread' \in [Threads -> ThreadState]
    BY DEF Genuine, TypeOK, ThreadState, PCs
  <2>3. \A u \in Threads : thread'[u].pc = "idle" => thread'[u] = IdleThread
    BY DEF Genuine, TypeOK, ThreadState, Writing
  <2> QED BY <2>1, <2>2, <2>3 DEF Genuine, TypeOK
<1>5. Busy'
  BY DEF Genuine, TypeOK, ThreadState, Busy, Writing
<1>6. Named'
  BY <1>3 DEF Genuine, TypeOK, Named
<1>7. Readers'
  <2> SUFFICES ASSUME NEW u \in Threads, thread'[u].pc = "read"
               PROVE  thread'[u].ino \in Inodes /\ WrittenFor(thread[u].ino, thread[u].key)'
                      /\ thread'[u] = thread[u]
    BY DEF Readers, WrittenFor
  <2>1. u # t /\ thread'[u] = thread[u]
    BY DEF Genuine, TypeOK, ThreadState, Writing
  <2> QED BY <2>1, <1>3 DEF Genuine, Readers, Busy, WrittenFor
<1>8. Writers'
  <2> SUFFICES ASSUME NEW u \in Threads, thread'[u].pc \in Writing
               PROVE  /\ thread'[u].ino \in Inodes
                      /\ inode'[thread'[u].ino].written # "alien"
                      /\ inode'[thread'[u].ino].data \in offered[thread'[u].key]
    BY DEF Writers
  <2>1. thread'[u].ino = thread[u].ino /\ thread'[u].key = thread[u].key
        /\ thread[u].pc \in Writing
    BY DEF Genuine, TypeOK, ThreadState
  <2> QED BY <2>1, <1>1, <1>2 DEF Genuine, Writers
<1>9. GenuineReads'
  BY DEF Genuine, GenuineReads
<1> QED BY <1>4, <1>5, <1>6, <1>7, <1>8, <1>9 DEF Genuine

\* A new <k>.new: its inode is free, so no other name or descriptor sees it.
LEMMA OpenStep ==
    ASSUME Genuine, NEW t \in Threads, NEW k \in Keys, NEW r \in Replies,
           SerializeOpen(t, k, r)
    PROVE  Genuine'
<1> PICK i \in Inodes :
      /\ Free(i)
      /\ inode' = [inode EXCEPT ![i] = [data |-> r, written |-> "nothing"]]
      /\ new' = [new EXCEPT ![k] = i]
      /\ thread' = [thread EXCEPT ![t] = [pc |-> "write", key |-> k, ino |-> i]]
  BY DEF SerializeOpen
<1>1. offered' = [offered EXCEPT ![k] = @ \cup {r}] /\ UNCHANGED <<path, answer, litter, evicted>>
  BY DEF SerializeOpen
<1>2. r \in offered'[k] /\ \A j \in Keys : offered[j] \subseteq offered'[j]
  BY <1>1 DEF Genuine, TypeOK
<1>3. \A j \in Inodes \ {i} : inode'[j] = inode[j]
  BY DEF Genuine, TypeOK
<1>4. inode'[i].data = r /\ inode'[i].written = "nothing"
  BY DEF Genuine, TypeOK
<1>5. \A j \in Inodes \ {i} : \A l \in Keys : WrittenFor(j, l) => WrittenFor(j, l)'
  BY <1>2, <1>3 DEF WrittenFor
<1>6. TypeOK'
  <2>1. inode' \in [Inodes -> File]
    BY DEF Genuine, TypeOK, File
  <2>2. thread' \in [Threads -> ThreadState]
    BY DEF Genuine, TypeOK, ThreadState, PCs, Writing
  <2>3. offered' \in [Keys -> SUBSET Replies]
    BY <1>1 DEF Genuine, TypeOK
  <2> QED BY <2>1, <2>2, <2>3, <1>1 DEF Genuine, TypeOK
<1>7. Busy'
  BY DEF Genuine, TypeOK, Busy
<1>8. Named'
  <2>1. WrittenFor(i, k)'
    BY <1>2, <1>4 DEF WrittenFor
  <2> QED BY <1>1, <1>5, <2>1 DEF Genuine, TypeOK, Named, Free
<1>9. \A u \in Threads \ {t} : thread'[u] = thread[u] /\ thread[u].ino # i
  BY DEF Genuine, TypeOK, Free
<1>10. thread'[t] = [pc |-> "write", key |-> k, ino |-> i]
  BY DEF Genuine, TypeOK
<1>11. Readers'
  <2> SUFFICES ASSUME NEW u \in Threads, thread'[u].pc = "read"
               PROVE  /\ thread'[u].ino \in Inodes
                      /\ WrittenFor(thread[u].ino, thread[u].key)'
    BY DEF Readers
  <2>1. u # t
    BY <1>10
  <2> QED BY <2>1, <1>5, <1>9 DEF Genuine, Readers, Busy, WrittenFor
<1>12. Writers'
  <2> SUFFICES ASSUME NEW u \in Threads, thread'[u].pc \in Writing
               PROVE  /\ thread'[u].ino \in Inodes
                      /\ inode'[thread'[u].ino].written # "alien"
                      /\ inode'[thread'[u].ino].data \in offered'[thread'[u].key]
    BY DEF Writers
  <2>1. CASE u = t
    BY <2>1, <1>2, <1>4, <1>10
  <2>2. CASE u # t
    BY <2>2, <1>2, <1>3, <1>9 DEF Genuine, Writers, Busy, Writing
  <2> QED BY <2>1, <2>2
<1>13. GenuineReads'
  BY <1>1, <1>2 DEF Genuine, GenuineReads, TypeOK, NoAnswer
<1> QED BY <1>6, <1>7, <1>8, <1>11, <1>12, <1>13 DEF Genuine

LEMMA GenuineStep == Genuine /\ [Next]_vars => Genuine'
<1> SUFFICES ASSUME Genuine, [Next]_vars PROVE Genuine'
  OBVIOUS
<1>0. TypeOK
  BY DEF Genuine
<1>1. CASE UNCHANGED vars
  BY <1>1 DEF vars, Genuine, TypeOK, Busy, Named, WrittenFor, Readers, Writers, GenuineReads
<1>2. ASSUME NEW t \in Threads, Call(t) PROVE Genuine'
  <2>1. CASE SerializeRefused(t) BY <2>1, <1>1 DEF SerializeRefused
  <2>2. ASSUME NEW k \in Keys, NEW r \in Replies, SerializeOpen(t, k, r) PROVE Genuine'
    BY <2>2, OpenStep
  <2>3. ASSUME NEW k \in Keys, DeserializeMiss(t, k) PROVE Genuine'
    BY <2>3, <1>1 DEF DeserializeMiss
  <2>4. ASSUME NEW k \in Keys, DeserializeOpen(t, k) PROVE Genuine'
    <3> USE <2>4 DEF DeserializeOpen, Genuine
    <3>1. path[k] \in Inodes /\ WrittenFor(path[k], k)
      BY DEF TypeOK, Named
    <3>2. TypeOK'
      BY <3>1 DEF TypeOK, ThreadState, PCs
    <3>3. Busy'
      BY DEF TypeOK, Busy
    <3>4. Named'
      BY DEF Named, WrittenFor
    <3>5. Readers'
      BY <3>1 DEF TypeOK, Readers, WrittenFor
    <3>6. Writers'
      BY DEF TypeOK, Writers, Writing
    <3>7. GenuineReads'
      BY DEF GenuineReads
    <3> QED BY <3>2, <3>3, <3>4, <3>5, <3>6, <3>7
  <2> QED BY <1>2, <2>1, <2>2, <2>3, <2>4 DEF Call
<1>3. ASSUME NEW t \in Threads, Step(t) PROVE Genuine'
  <2>1. CASE WriteSome(t) BY <2>1, WriteStep DEF WriteSome, Goto, Writing
  <2>2. CASE WriteRest(t) BY <2>2, WriteStep DEF WriteRest, Goto, Writing
  <2>3. CASE WriteFails(t) BY <2>3, <1>0, RebindStep DEF WriteFails, Goto, TypeOK
  <2>4. CASE Rename(t) BY <2>4, <1>0, RebindStep DEF Rename, Return, TypeOK
  <2>5. CASE RenameFails(t) BY <2>5, <1>0, RebindStep DEF RenameFails, Goto, TypeOK
  <2>6. CASE UnlinkNew(t) BY <2>6, <1>0, RebindStep DEF UnlinkNew, Goto, TypeOK
  <2>7. CASE UnlinkPath(t) BY <2>7, <1>0, RebindStep DEF UnlinkPath, Return, TypeOK
  <2>8. CASE ReadFile(t)
    <3> USE <2>8 DEF ReadFile, Return, Genuine
    <3>1. thread[t].key \in Keys
      BY DEF Busy
    <3>2. PICK r \in Readable(inode[thread[t].ino]) :
                 answer' = [key |-> thread[t].key, reply |-> r]
      OBVIOUS
    <3>3. r \in offered[thread[t].key]
      BY <3>2 DEF Readable, Readers, WrittenFor
    <3>4. TypeOK'
      BY <3>1, <3>2, <3>3 DEF TypeOK, ThreadState, IdleThread, PCs
    <3>5. Busy' /\ Named'
      BY DEF TypeOK, Busy, Named, WrittenFor, IdleThread
    <3>6. Readers' /\ Writers'
      BY DEF TypeOK, Readers, Writers, WrittenFor, IdleThread, Writing
    <3>7. GenuineReads'
      BY <3>2, <3>3 DEF GenuineReads
    <3> QED BY <3>4, <3>5, <3>6, <3>7
  <2>9. CASE ReadAlien(t) BY <2>9, <1>0, RebindStep DEF ReadAlien, Return, TypeOK
  <2>10. CASE ReadThrows(t) BY <2>10, <1>0, RebindStep DEF ReadThrows, Goto, TypeOK
  <2>11. CASE Quarantine(t) BY <2>11, <1>0, RebindStep DEF Quarantine, Return, TypeOK
  <2> QED BY <1>3, <2>1, <2>2, <2>3, <2>4, <2>5, <2>6, <2>7, <2>8, <2>9, <2>10, <2>11 DEF Step
<1>4. ASSUME NEW t \in Threads, Crash(t) PROVE Genuine'
  BY <1>4, <1>0, RebindStep DEF Crash, Return, TypeOK
<1>5. ASSUME NEW k \in Keys, EvictFile(k) PROVE Genuine'
  <2> USE <1>5 DEF EvictFile, Genuine
  <2>1. TypeOK' /\ Named'
    BY DEF TypeOK, Named, WrittenFor
  <2>2. Busy' /\ Readers' /\ Writers' /\ GenuineReads'
    BY DEF Busy, Readers, Writers, GenuineReads, WrittenFor
  <2> QED BY <2>1, <2>2
<1> QED BY <1>1, <1>2, <1>3, <1>4, <1>5 DEF Next

(* The directory entries, inodes and thread states stay well-formed. *)
THEOREM TypeCorrect == Spec => []TypeOK
<1>1. Genuine => TypeOK
  BY DEF Genuine
<1> QED BY <1>1, GenuineInit, GenuineStep, PTL DEF Spec

(* diskcache::deserialize never returns a torn, alien or foreign reply,
   for any number of threads and processes, with eviction and crashes. *)
THEOREM ReadsAreGenuine == Spec => []GenuineReads
<1>1. Genuine => GenuineReads
  BY DEF Genuine
<1> QED BY <1>1, GenuineInit, GenuineStep, PTL DEF Spec

----------------------------------------------------------------------------
\* Owners of <k>.new: threads that will still rename or unlink it.
Owning == Writing \cup {"unlinknew"}

\* A step of t that clears the name it owns, or keeps owning it, orphans none.
LEMMA OwnedStep ==
    ASSUME TypeOK, NoOrphanNew, litter' = litter, NEW t \in Threads,
           \A u \in Threads \ {t} : thread'[u] = thread[u],
           \A k \in Keys : new'[k] \in {new[k], None}
                            \/ (thread'[t].key = k /\ thread'[t].pc \in Owning),
           \/ thread[t].pc \notin Owning
           \/ thread[t].key \in Keys /\ new'[thread[t].key] = None
           \/ thread'[t].key = thread[t].key /\ thread'[t].pc \in Owning
    PROVE  NoOrphanNew'
<1> SUFFICES ASSUME ~litter, NEW k \in Keys, new'[k] # None
             PROVE  \E u \in Threads : thread'[u].key = k /\ thread'[u].pc \in Owning
  BY DEF NoOrphanNew, Owning
<1>1. CASE thread'[t].key = k /\ thread'[t].pc \in Owning
  BY <1>1
<1>2. CASE ~(thread'[t].key = k /\ thread'[t].pc \in Owning)
  <2>1. new[k] # None
    BY <1>2
  <2>2. PICK u \in Threads : thread[u].key = k /\ thread[u].pc \in Owning
    BY <2>1 DEF NoOrphanNew, Owning
  <2>3. u # t
    BY <2>2, <1>2
  <2> QED BY <2>2, <2>3
<1> QED BY <1>1, <1>2

(* Unless a thread was killed or an unlink failed, every <k>.new still has
   a thread in serialize that will rename or unlink it; with eviction too. *)
THEOREM NewFilesHaveWriters == Spec => []NoOrphanNew
<1>1. Init => NoOrphanNew
  BY DEF Init, NoOrphanNew
<1>2. Genuine /\ NoOrphanNew /\ [Next]_vars => NoOrphanNew'
  <2> SUFFICES ASSUME Genuine, NoOrphanNew, [Next]_vars PROVE NoOrphanNew'
    OBVIOUS
  <2>0. TypeOK /\ Busy
    BY DEF Genuine
  <2> USE DEF TypeOK, ThreadState, IdleThread, Owning, Writing
  <2>1. CASE UNCHANGED vars
    BY <2>1 DEF vars, NoOrphanNew
  <2>2. ASSUME NEW t \in Threads, Call(t) PROVE NoOrphanNew'
    <3>1. CASE SerializeRefused(t) BY <3>1, <2>1 DEF SerializeRefused
    <3>2. ASSUME NEW k \in Keys, NEW r \in Replies, SerializeOpen(t, k, r) PROVE NoOrphanNew'
      BY <3>2, <2>0, OwnedStep DEF SerializeOpen
    <3>3. ASSUME NEW k \in Keys, DeserializeMiss(t, k) PROVE NoOrphanNew'
      BY <3>3, <2>1 DEF DeserializeMiss
    <3>4. ASSUME NEW k \in Keys, DeserializeOpen(t, k) PROVE NoOrphanNew'
      BY <3>4, <2>0, OwnedStep DEF DeserializeOpen
    <3> QED BY <2>2, <3>1, <3>2, <3>3, <3>4 DEF Call
  <2>3. ASSUME NEW t \in Threads, Step(t) PROVE NoOrphanNew'
    <3>1. CASE WriteSome(t) BY <3>1, <2>0, OwnedStep DEF WriteSome, Goto
    <3>2. CASE WriteRest(t) BY <3>2, <2>0, OwnedStep DEF WriteRest, Goto
    <3>3. CASE WriteFails(t) BY <3>3, <2>0, OwnedStep DEF WriteFails, Goto
    <3>4. CASE Rename(t) BY <3>4, <2>0, OwnedStep DEF Rename, Return, Busy
    <3>5. CASE RenameFails(t) BY <3>5, <2>0, OwnedStep DEF RenameFails, Goto
    <3>6. CASE UnlinkNew(t)
      <4>1. CASE litter' = TRUE
        BY <4>1 DEF NoOrphanNew
      <4>2. CASE litter' # TRUE
        BY <3>6, <4>2, <2>0, OwnedStep DEF UnlinkNew, Goto, Busy
      <4> QED BY <4>1, <4>2
    <3>7. CASE UnlinkPath(t) BY <3>7, <2>0, OwnedStep DEF UnlinkPath, Return
    <3>8. CASE ReadFile(t) BY <3>8, <2>0, OwnedStep DEF ReadFile, Return
    <3>9. CASE ReadAlien(t) BY <3>9, <2>0, OwnedStep DEF ReadAlien, Return
    <3>10. CASE ReadThrows(t) BY <3>10, <2>0, OwnedStep DEF ReadThrows, Goto
    <3>11. CASE Quarantine(t) BY <3>11, <2>0, OwnedStep DEF Quarantine, Return
    <3> QED BY <2>3, <3>1, <3>2, <3>3, <3>4, <3>5, <3>6, <3>7, <3>8, <3>9, <3>10, <3>11 DEF Step
  <2>4. ASSUME NEW t \in Threads, Crash(t) PROVE NoOrphanNew'
    BY <2>4 DEF Crash, NoOrphanNew
  <2>5. ASSUME NEW k \in Keys, EvictFile(k) PROVE NoOrphanNew'
    BY <2>5, <2>0 DEF EvictFile, NoOrphanNew
  <2> QED BY <2>1, <2>2, <2>3, <2>4, <2>5 DEF Next
<1> QED BY <1>1, <1>2, GenuineInit, GenuineStep, PTL DEF Spec

----------------------------------------------------------------------------
\* What O_EXCL buys until a <k>.new is evicted.  Every owner's name still
\* refers to its own file, and has no other owner ...
OneOwner == \A t \in Threads : thread[t].pc \in Owning =>
              /\ thread[t].ino \in Inodes
              /\ new[thread[t].key] = thread[t].ino
              /\ \A u \in Threads :
                   thread[u].pc \in Owning /\ thread[u].key = thread[t].key => u = t

\* ... a <k>.new file has no second name ...
OneName == \A k \in Keys : new[k] # None =>
             \A j \in Keys : path[j] # new[k] /\ (j # k => new[j] # new[k])

\* ... and a writer only gets to the rename once everything is written.
WrittenOut == \A t \in Threads :
                thread[t].pc = "rename" => inode[thread[t].ino].written = "all"

\* What PublishedComplete then says.
Complete == \A k \in Keys : path[k] # None => inode[path[k]].written \in {"all", "alien"}

Quiet == OneOwner /\ OneName /\ WrittenOut /\ Complete

LEMMA QuietInit == Init => Quiet
BY DEF Init, Quiet, OneOwner, OneName, WrittenOut, Complete, Owning,
       Writing, IdleThread

\* t stops owning, or begins to own its file; the other owners keep theirs.
LEMMA OneOwnerStep ==
    ASSUME OneOwner, NEW t \in Threads,
           \A u \in Threads \ {t} : thread'[u] = thread[u],
           \A u \in Threads \ {t} : thread[u].pc \in Owning =>
               new'[thread[u].key] = new[thread[u].key],
           thread'[t].pc \in Owning =>
               /\ thread'[t].ino \in Inodes
               /\ new'[thread'[t].key] = thread'[t].ino
               /\ \A u \in Threads \ {t} :
                    thread[u].pc \in Owning => thread[u].key # thread'[t].key
    PROVE  OneOwner'
<1> SUFFICES ASSUME NEW u \in Threads, thread'[u].pc \in Owning
             PROVE  /\ thread'[u].ino \in Inodes
                    /\ new'[thread'[u].key] = thread'[u].ino
                    /\ \A v \in Threads :
                         thread'[v].pc \in Owning /\ thread'[v].key = thread'[u].key => v = u
  BY DEF OneOwner, Owning, Writing
<1>1. thread'[u].ino \in Inodes /\ new'[thread'[u].key] = thread'[u].ino
  BY DEF OneOwner
<1>2. ASSUME NEW v \in Threads, thread'[v].pc \in Owning, thread'[v].key = thread'[u].key
      PROVE  v = u
  BY <1>2 DEF OneOwner
<1> QED BY <1>1, <1>2

LEMMA QuietStep == Genuine /\ Quiet /\ [Next]_vars => (evicted \/ Quiet)'
<1> SUFFICES ASSUME Genuine, Quiet, [Next]_vars PROVE evicted' \/ Quiet'
  OBVIOUS
<1>0. TypeOK /\ Busy
  BY DEF Genuine
<1> USE DEF Quiet, TypeOK, ThreadState, IdleThread, Owning, Writing
<1>1. ASSUME UNCHANGED vars PROVE Quiet'
  BY <1>1 DEF vars, OneOwner, OneName, WrittenOut, Complete
<1>2. ASSUME NEW t \in Threads, NEW k \in Keys, NEW r \in Replies, SerializeOpen(t, k, r)
      PROVE  Quiet'
  <2> PICK i \in Inodes :
        /\ Free(i)
        /\ inode' = [inode EXCEPT ![i] = [data |-> r, written |-> "nothing"]]
        /\ new' = [new EXCEPT ![k] = i]
        /\ thread' = [thread EXCEPT ![t] = [pc |-> "write", key |-> k, ino |-> i]]
    BY <1>2 DEF SerializeOpen
  <2>1. new[k] = None /\ path' = path
    BY <1>2 DEF SerializeOpen
  <2>2. \A u \in Threads : thread[u].pc \in Owning => thread[u].key # k
    BY <2>1 DEF OneOwner
  <2>3. OneOwner'
    BY <1>0, <2>2, OneOwnerStep DEF Busy
  <2>4. OneName'
    BY <1>0, <2>1 DEF OneName, Free
  <2>5. WrittenOut'
    BY <1>0 DEF WrittenOut, Free, OneOwner
  <2>6. Complete'
    BY <1>0, <2>1 DEF Complete, Free
  <2> QED BY <2>3, <2>4, <2>5, <2>6
<1>3. ASSUME NEW t \in Threads, NEW k \in Keys, DeserializeOpen(t, k) PROVE Quiet'
  BY <1>0, <1>3 DEF DeserializeOpen, OneOwner, OneName, WrittenOut, Complete
<1>4. ASSUME NEW t \in Threads, WriteSome(t) \/ WriteRest(t) PROVE Quiet'
  <2> DEFINE i == thread[t].ino
  <2>1. i \in Inodes /\ new[thread[t].key] = i /\ thread[t].key \in Keys
    BY <1>0, <1>4 DEF OneOwner, Busy, WriteSome, WriteRest
  <2>2. \A j \in Keys : path[j] # i
    BY <2>1 DEF OneName
  <2>3. /\ \A j \in Inodes \ {i} : inode'[j] = inode[j]
        /\ thread'[t].pc = "rename" => inode'[i].written = "all"
        /\ UNCHANGED <<path, new>>
        /\ \A u \in Threads : /\ thread'[u].ino = thread[u].ino
                              /\ thread'[u].key = thread[u].key
                              /\ thread'[u].pc \in Owning <=> thread[u].pc \in Owning
                              /\ u # t => thread'[u].pc = thread[u].pc
    BY <1>0, <1>4, <2>1 DEF WriteSome, WriteRest, Goto, File
  <2>4. OneOwner' /\ OneName'
    BY <2>3 DEF OneOwner, OneName
  <2>5. \A u \in Threads \ {t} : thread[u].pc = "rename" => thread[u].ino # i
    BY <2>1, <1>0, <1>4 DEF OneOwner, OneName, Busy, WriteSome, WriteRest
  <2>6. WrittenOut'
    BY <2>3, <2>5 DEF WrittenOut, OneOwner
  <2>7. Complete'
    BY <1>0, <2>2, <2>3 DEF Complete
  <2> QED BY <2>4, <2>6, <2>7
<1>5. ASSUME NEW t \in Threads, WriteFails(t) \/ RenameFails(t) PROVE Quiet'
  <2>1. /\ UNCHANGED <<path, new, inode>>
        /\ \A u \in Threads : /\ thread'[u].ino = thread[u].ino
                              /\ thread'[u].key = thread[u].key
                              /\ thread'[u].pc \in Owning <=> thread[u].pc \in Owning
                              /\ thread'[u].pc = "rename" => thread[u].pc = "rename"
    BY <1>0, <1>5 DEF WriteFails, RenameFails, Goto
  <2> QED BY <2>1 DEF OneOwner, OneName, WrittenOut, Complete
<1>6. ASSUME NEW t \in Threads, Rename(t) PROVE Quiet'
  <2> DEFINE k == thread[t].key
  <2>1. /\ k \in Keys
        /\ new[k] = thread[t].ino
        /\ new[k] \in Inodes
        /\ inode[new[k]].written = "all"
    BY <1>0, <1>6 DEF Rename, Busy, OneOwner, WrittenOut
  <2>2. \A u \in Threads \ {t} : thread[u].pc \in Owning => thread[u].key # k
    BY <1>6 DEF OneOwner, Rename
  <2>3. /\ \A u \in Threads \ {t} : thread'[u] = thread[u]
        /\ thread'[t].pc = "idle"
        /\ inode' = inode
    BY <1>0, <1>6 DEF Rename, Return
  <2>4. OneOwner'
    BY <1>0, <1>6, <2>2, <2>3, OneOwnerStep DEF Busy, Rename
  <2>5. OneName'
    BY <1>0, <1>6, <2>1 DEF OneName, Rename
  <2>6. WrittenOut'
    BY <2>3 DEF WrittenOut
  <2>7. Complete'
    BY <1>0, <1>6, <2>1 DEF Complete, Rename
  <2> QED BY <2>4, <2>5, <2>6, <2>7
<1>7. ASSUME NEW t \in Threads, UnlinkNew(t) PROVE Quiet'
  <2>1. \A u \in Threads \ {t} : thread[u].pc \in Owning => thread[u].key # thread[t].key
    BY <1>7 DEF OneOwner, UnlinkNew
  <2>2. /\ \A u \in Threads \ {t} : thread'[u] = thread[u]
        /\ thread'[t].pc = "unlinkpath"
        /\ UNCHANGED <<inode, path>>
    BY <1>0, <1>7 DEF UnlinkNew, Goto
  <2>3. OneOwner'
    BY <1>0, <1>7, <2>1, <2>2, OneOwnerStep DEF Busy, UnlinkNew
  <2>4. OneName'
    BY <1>0, <1>7 DEF OneName, UnlinkNew
  <2>5. WrittenOut' /\ Complete'
    BY <2>2 DEF WrittenOut, Complete
  <2> QED BY <2>3, <2>4, <2>5
<1>8. ASSUME NEW t \in Threads,
             \/ UnlinkPath(t) \/ ReadFile(t) \/ ReadAlien(t)
             \/ ReadThrows(t) \/ Quarantine(t) \/ Crash(t)
      PROVE  Quiet'
  <2>1. /\ \A k \in Keys : path'[k] \in {path[k], None}
        /\ UNCHANGED <<new, inode>>
        /\ \A u \in Threads \ {t} : thread'[u] = thread[u]
        /\ thread'[t].pc \notin Owning
    BY <1>0, <1>8 DEF UnlinkPath, ReadFile, ReadAlien, ReadThrows, Quarantine,
                      Crash, Return, Goto
  <2>2. OneOwner'
    BY <2>1, OneOwnerStep
  <2>3. WrittenOut'
    BY <2>1 DEF WrittenOut
  <2>4. OneName' /\ Complete'
    BY <1>0, <2>1 DEF OneName, Complete
  <2> QED BY <2>2, <2>3, <2>4
<1>9. ASSUME NEW k \in Keys, EvictFile(k), ~evicted' PROVE Quiet'
  <2>1. /\ \A j \in Keys : path'[j] \in {path[j], None}
        /\ UNCHANGED <<new, inode, thread>>
    BY <1>0, <1>9 DEF EvictFile
  <2> QED BY <1>0, <2>1 DEF OneOwner, OneName, WrittenOut, Complete
<1> QED BY <1>1, <1>2, <1>3, <1>4, <1>5, <1>6, <1>7, <1>8, <1>9
        DEF Next, Call, Step, SerializeRefused, DeserializeMiss

\* Nothing is proved about what follows the first eviction of a <k>.new.
LEMMA QuietAlways == Spec => [](Genuine /\ (evicted \/ Quiet))
<1>1. Init => evicted \/ Quiet
  BY QuietInit
<1>2. evicted /\ [Next]_vars => evicted'
  BY DEF Next, vars, Call, Step, SerializeRefused, SerializeOpen, WriteSome, WriteRest,
         WriteFails, Rename, RenameFails, UnlinkNew, UnlinkPath, DeserializeMiss,
         DeserializeOpen, ReadFile, ReadAlien, ReadThrows, Quarantine, EvictFile, Crash
<1>3. Genuine /\ (evicted \/ Quiet) /\ [Next]_vars => (evicted \/ Quiet)'
  BY <1>2, QuietStep
<1> QED BY <1>1, <1>3, GenuineInit, GenuineStep, PTL DEF Spec

(* Until a <k>.new is evicted, <k> only ever names completely written files. *)
THEOREM PublishedIsComplete == Spec => []PublishedComplete
<1>1. evicted \/ Quiet => PublishedComplete
  BY DEF Quiet, Complete, PublishedComplete
<1> QED BY <1>1, QuietAlways, PTL

(* serialize's claim to exclusive access to <k>.new until the rename is true
   until eviction takes such a file: O_EXCL is enough between threads,
   processes, failures and crashes, and evicting <k> does no harm. *)
THEOREM ExclusiveUntilEvicted == Spec => [](evicted \/ ExclusiveUntilRename)
<1>1. evicted \/ Quiet => evicted \/ ExclusiveUntilRename
  BY DEF Quiet, OneOwner, Owning, ExclusiveUntilRename
<1> QED BY <1>1, QuietAlways, PTL

----------------------------------------------------------------------------
\* A <k>.new, whoever wrote it and whether it is still being written, was
\* created by serialize for k: what a rename publishes was offered for k.
Ours == \A k \in Keys : new[k] # None => inode[new[k]].data \in offered[k]

\* Steps that create no <k>.new and change no file's reply.
LEMMA OursKept ==
    ASSUME TypeOK, Ours, UNCHANGED offered,
           \A k \in Keys : new'[k] \in {new[k], None},
           \A i \in Inodes : inode'[i].data = inode[i].data
    PROVE  Ours'
BY DEF TypeOK, Ours

\* What writev adds to a file is not another reply.
LEMMA SameReply ==
    ASSUME Genuine, NEW t \in Threads, WriteSome(t) \/ WriteRest(t)
    PROVE  \A i \in Inodes : inode'[i].data = inode[i].data
BY DEF Genuine, TypeOK, File, WriteSome, WriteRest, Writers, Writing

LEMMA OursStep == Genuine /\ Ours /\ [Next]_vars => Ours'
<1> SUFFICES ASSUME Genuine, Ours, [Next]_vars PROVE Ours'
  OBVIOUS
<1>0. TypeOK /\ Busy
  BY DEF Genuine
<1>1. CASE UNCHANGED vars
  BY <1>0, <1>1, OursKept DEF vars, TypeOK
<1>2. ASSUME NEW t \in Threads, NEW k \in Keys, NEW r \in Replies, SerializeOpen(t, k, r)
      PROVE  Ours'
  <2>1. PICK i \in Inodes : /\ Free(i)
                            /\ inode' = [inode EXCEPT ![i] = [data |-> r, written |-> "nothing"]]
                            /\ new' = [new EXCEPT ![k] = i]
    BY <1>2 DEF SerializeOpen
  <2>2. r \in offered'[k] /\ \A j \in Keys : offered[j] \subseteq offered'[j]
    BY <1>0, <1>2 DEF SerializeOpen, TypeOK
  <2>3. inode'[i].data = r /\ \A j \in Inodes : j # i => inode'[j] = inode[j]
    BY <1>0, <2>1 DEF TypeOK
  <2> SUFFICES ASSUME NEW j \in Keys, new'[j] # None PROVE inode'[new'[j]].data \in offered'[j]
    BY DEF Ours
  <2>4. CASE j = k
    BY <1>0, <2>1, <2>2, <2>3, <2>4 DEF TypeOK
  <2>5. CASE j # k
    <3>1. new'[j] = new[j] /\ new[j] \in Inodes /\ new[j] # i
      BY <1>0, <2>1, <2>5 DEF TypeOK, Free
    <3> QED BY <3>1, <2>2, <2>3 DEF Ours
  <2> QED BY <2>4, <2>5
<1>3. ASSUME NEW t \in Threads, WriteSome(t) \/ WriteRest(t) PROVE Ours'
  BY <1>0, <1>3, SameReply, OursKept DEF WriteSome, WriteRest
<1>4. ASSUME NEW t \in Threads,
             \/ WriteFails(t) \/ Rename(t) \/ RenameFails(t) \/ UnlinkNew(t) \/ UnlinkPath(t)
             \/ ReadFile(t) \/ ReadAlien(t) \/ ReadThrows(t) \/ Quarantine(t) \/ Crash(t)
             \/ \E k \in Keys : DeserializeOpen(t, k)
      PROVE  Ours'
  <2>1. UNCHANGED <<inode, offered>> /\ \A k \in Keys : new'[k] \in {new[k], None}
    BY <1>0, <1>4 DEF WriteFails, Rename, RenameFails, UnlinkNew, UnlinkPath, ReadFile,
         ReadAlien, ReadThrows, Quarantine, Crash, DeserializeOpen, TypeOK
  <2> QED BY <1>0, <2>1, OursKept
<1>5. ASSUME NEW k \in Keys, EvictFile(k) PROVE Ours'
  <2>1. UNCHANGED <<inode, offered>> /\ \A j \in Keys : new'[j] \in {new[j], None}
    BY <1>0, <1>5 DEF EvictFile, TypeOK
  <2> QED BY <1>0, <2>1, OursKept
<1> QED BY <1>1, <1>2, <1>3, <1>4, <1>5
        DEF Next, Call, Step, SerializeRefused, DeserializeMiss

\* A step that re-binds names or changes a thread, but no file's reply, keeps
\* the abstract state wherever names and reading threads stay the same.
LEMMA SameShelf ==
    ASSUME TypeOK, UNCHANGED path, \A i \in Inodes : inode'[i].data = inode[i].data
    PROVE  Shelf' = Shelf
BY DEF Shelf, TypeOK

LEMMA SameReading ==
    ASSUME Genuine, NEW t \in Threads, thread[t].pc # "read", thread'[t].pc # "read",
           thread' \in [Threads -> ThreadState],
           \A u \in Threads \ {t} : thread'[u] = thread[u],
           \A u \in Threads : thread[u].pc = "read" =>
               inode'[thread[u].ino].data = inode[thread[u].ino].data
    PROVE  Reading' = Reading
BY DEF Reading, NoAnswer

\* The abstract step of a concrete step that only changes the shelf of k.
LEMMA ShelfStep ==
    ASSUME TypeOK, Ours, NEW k \in Keys, UNCHANGED <<inode, offered, answer>>,
           path' \in {path, [path EXCEPT ![k] = None]}
              \/ (new[k] # None /\ path' = [path EXCEPT ![k] = new[k]]),
           Reading' = Reading
    PROVE  [Cache!Next]_(Cache!vars)
<1> USE DEF TypeOK
<1>1. CASE path' = path
  BY <1>1, SameShelf DEF Cache!vars
<1>2. CASE path' = [path EXCEPT ![k] = None]
  <2>1. Shelf' = [Shelf EXCEPT ![k] = None]
    BY <1>2 DEF Shelf
  <2> QED BY <2>1 DEF Cache!Next, Cache!Drop
<1>3. CASE new[k] # None /\ path' = [path EXCEPT ![k] = new[k]]
  <2> DEFINE r == inode[new[k]].data
  <2>1. r \in offered[k] /\ r \in Replies
    BY <1>3 DEF Ours
  <2>2. Shelf' = [Shelf EXCEPT ![k] = r]
    BY <1>3 DEF Shelf
  <2>3. Cache!Put(k, r)
    BY <2>1, <2>2 DEF Cache!Put
  <2> QED BY <2>1, <2>3 DEF Cache!Next
<1> QED BY <1>1, <1>2, <1>3

\* The abstract step of a thread that stops reading without an answer.
LEMMA MissStep ==
    ASSUME TypeOK, NEW t \in Threads, UNCHANGED <<path, inode, offered, answer>>,
           thread'[t].pc # "read", thread' \in [Threads -> ThreadState],
           \A u \in Threads \ {t} : thread'[u] = thread[u]
    PROVE  [Cache!Next]_(Cache!vars)
<1>1. Shelf' = Shelf
  BY SameShelf
<1>2. Reading' = [Reading EXCEPT ![t] = NoAnswer]
  BY DEF Reading
<1>3. Cache!Miss(t)
  BY <1>1, <1>2 DEF Cache!Miss, Cache!NoRead, NoAnswer
<1> QED BY <1>3 DEF Cache!Next

LEMMA CacheInit == Init => Cache!Init
<1> SUFFICES ASSUME Init PROVE Cache!Init
  OBVIOUS
<1>1. Shelf = [k \in Keys |-> None]
  BY DEF Init, Shelf
<1>2. Reading = [t \in Threads |-> NoAnswer]
  BY DEF Init, Reading, IdleThread
<1> QED BY <1>1, <1>2 DEF Init, Cache!Init, Cache!NoRead, NoAnswer

LEMMA CacheStep == Genuine /\ Genuine' /\ Ours /\ [Next]_vars => [Cache!Next]_(Cache!vars)
<1> SUFFICES ASSUME Genuine, Genuine', Ours, [Next]_vars PROVE [Cache!Next]_(Cache!vars)
  OBVIOUS
<1>0. TypeOK /\ Busy /\ thread' \in [Threads -> ThreadState]
  BY DEF Genuine, TypeOK
<1>1. CASE UNCHANGED vars
  BY <1>1 DEF vars, Cache!vars, Shelf, Reading
<1>2. ASSUME NEW t \in Threads, NEW k \in Keys, NEW r \in Replies, SerializeOpen(t, k, r)
      PROVE  [Cache!Next]_(Cache!vars)
  <2>1. PICK i \in Inodes : /\ Free(i)
                            /\ inode' = [inode EXCEPT ![i] = [data |-> r, written |-> "nothing"]]
                            /\ thread' = [thread EXCEPT ![t] = [pc |-> "write", key |-> k, ino |-> i]]
    BY <1>2 DEF SerializeOpen
  <2>2. \A j \in Inodes : j # i => inode'[j] = inode[j]
    BY <1>0, <2>1 DEF TypeOK
  <2>3. Shelf' = Shelf
    BY <1>0, <1>2, <2>1, <2>2 DEF SerializeOpen, Shelf, TypeOK, Free
  <2>4. \A u \in Threads : thread[u].pc = "read" =>
               inode'[thread[u].ino].data = inode[thread[u].ino].data
    BY <2>1, <2>2 DEF Free, Genuine, Readers
  <2>5. Reading' = Reading
    BY <1>0, <1>2, <2>1, <2>4, SameReading DEF SerializeOpen, TypeOK
  <2>6. Cache!Offer(k, r)
    BY <1>2, <2>3, <2>5 DEF SerializeOpen, Cache!Offer
  <2> QED BY <2>6 DEF Cache!Next
<1>3. ASSUME NEW t \in Threads, WriteSome(t) \/ WriteRest(t) PROVE [Cache!Next]_(Cache!vars)
  <2>1. \A i \in Inodes : inode'[i].data = inode[i].data
    BY <1>3, SameReply
  <2>2. Shelf' = Shelf
    BY <1>0, <1>3, <2>1, SameShelf DEF WriteSome, WriteRest
  <2>3. Reading' = Reading
    BY <1>0, <1>3, <2>1, SameReading DEF WriteSome, WriteRest, Goto, Genuine, Readers,
         TypeOK, ThreadState
  <2> QED BY <1>3, <2>2, <2>3 DEF WriteSome, WriteRest, Cache!vars
<1>4. ASSUME NEW t \in Threads,
             \/ WriteFails(t) \/ Rename(t) \/ RenameFails(t)
             \/ UnlinkNew(t) \/ UnlinkPath(t) \/ Quarantine(t)
      PROVE  [Cache!Next]_(Cache!vars)
  <2>1. /\ thread[t].pc \notin {"idle", "read"} /\ thread'[t].pc # "read"
        /\ \A u \in Threads \ {t} : thread'[u] = thread[u]
        /\ UNCHANGED <<inode, offered, answer>>
    BY <1>0, <1>4 DEF WriteFails, Rename, RenameFails, UnlinkNew, UnlinkPath, Quarantine,
         Goto, Return, IdleThread, TypeOK, ThreadState
  <2>2. Reading' = Reading
    BY <1>0, <2>1, SameReading
  <2>3. thread[t].key \in Keys
    BY <1>0, <2>1 DEF Busy
  <2>4. \/ path' \in {path, [path EXCEPT ![thread[t].key] = None]}
        \/ new[thread[t].key] # None /\ path' = [path EXCEPT ![thread[t].key] = new[thread[t].key]]
    BY <1>4 DEF WriteFails, Rename, RenameFails, UnlinkNew, UnlinkPath, Quarantine
  <2> QED BY <1>0, <2>1, <2>2, <2>3, <2>4, ShelfStep
<1>5. ASSUME NEW t \in Threads, ReadAlien(t) \/ ReadThrows(t) \/ Crash(t)
      PROVE  [Cache!Next]_(Cache!vars)
  <2>1. /\ thread'[t].pc # "read"
        /\ \A u \in Threads \ {t} : thread'[u] = thread[u]
        /\ UNCHANGED <<path, inode, offered, answer>>
    BY <1>0, <1>5 DEF ReadAlien, ReadThrows, Crash, Goto, Return, IdleThread, TypeOK, ThreadState
  <2> QED BY <1>0, <2>1, MissStep
<1>6. ASSUME NEW t \in Threads, ReadFile(t) PROVE [Cache!Next]_(Cache!vars)
  <2> DEFINE i == thread[t].ino
  <2>1. i \in Inodes /\ inode[i].written \in {"part", "all"}
    BY <1>6 DEF ReadFile, Readable, Genuine, Readers
  <2>2. inode[i].data # None
    BY <1>0, <1>6, <2>1 DEF ReadFile, Genuine, Readers, WrittenFor, Busy, TypeOK
  <2>3. Reading[t] = [key |-> thread[t].key, reply |-> inode[i].data]
    BY <1>6 DEF ReadFile, Reading
  <2>4. answer' = Reading[t]
    BY <1>6, <2>3 DEF ReadFile, Readable
  <2>5. Reading' = [Reading EXCEPT ![t] = NoAnswer]
    BY <1>0, <1>6 DEF ReadFile, Return, Reading, IdleThread, TypeOK, ThreadState
  <2>6. Shelf' = Shelf
    BY <1>0, <1>6, SameShelf DEF ReadFile
  <2>7. Cache!Hit(t)
    BY <1>6, <2>2, <2>3, <2>4, <2>5, <2>6 DEF ReadFile, Cache!Hit, Cache!NoRead, NoAnswer
  <2> QED BY <2>7 DEF Cache!Next
<1>7. ASSUME NEW t \in Threads, NEW k \in Keys, DeserializeOpen(t, k)
      PROVE  [Cache!Next]_(Cache!vars)
  <2>1. Reading[t] = NoAnswer
    BY <1>7 DEF DeserializeOpen, Reading
  <2>2. Shelf' = Shelf
    BY <1>0, <1>7, SameShelf DEF DeserializeOpen
  <2>3. Reading' = [Reading EXCEPT ![t] = [key |-> k, reply |-> Shelf[k]]]
    BY <1>0, <1>7 DEF DeserializeOpen, Reading, Shelf, TypeOK
  <2>4. Cache!BeginRead(t, k)
    BY <1>7, <2>1, <2>2, <2>3 DEF DeserializeOpen, Cache!BeginRead, Cache!NoRead, NoAnswer
  <2> QED BY <2>4 DEF Cache!Next
<1>8. ASSUME NEW k \in Keys, EvictFile(k) PROVE [Cache!Next]_(Cache!vars)
  <2>1. Reading' = Reading
    BY <1>8 DEF EvictFile, Reading
  <2>2. path' \in {path, [path EXCEPT ![k] = None]} /\ UNCHANGED <<inode, offered, answer>>
    BY <1>8 DEF EvictFile
  <2> QED BY <1>0, <2>1, <2>2, ShelfStep
<1> QED BY <1>1, <1>2, <1>3, <1>4, <1>5, <1>6, <1>7, <1>8
        DEF Next, Call, Step, SerializeRefused, DeserializeMiss

(* The names, descriptors, crashes and evictions of diskcache.cpp implement a
   register per url: a read returns what was in the cache when deserialize
   opened the file, or misses. *)
THEOREM FilesImplementCache == Spec => ImplementsDiskCache
<1>1. Init => Ours
  BY DEF Init, Ours
<1> QED BY <1>1, GenuineInit, GenuineStep, OursStep, CacheInit, CacheStep, PTL
        DEF Spec, ImplementsDiskCache, Cache!Spec
============================================================================
