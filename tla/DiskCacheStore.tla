--------------------------- MODULE DiskCacheStore ---------------------------
(***************************************************************************)
(* The on-disk files of the client's disk cache (exe/fs123p7/diskcache.cpp)*)
(*                                                                         *)
(* Every cached object lives in a file called <path>.  diskcache::serialize*)
(* replaces it with the open(O_EXCL, <path>.new) / writev / rename idiom,  *)
(* diskcache::deserialize reads it, and the eviction thread unlinks names  *)
(* it found in a directory scan, <path>.new files included.  Any number of *)
(* threads, in any number of mount processes, do this concurrently on one  *)
(* cache directory, with no lock, and any of them may be killed.           *)
(*                                                                         *)
(* The file system is modelled down to inodes, because the hazards come    *)
(* from a name being re-bound while another thread holds a descriptor.     *)
(* What a reply contains is abstracted to a member of Replies; how much of *)
(* a file has been written is kept.                                        *)
(***************************************************************************)
EXTENDS Naturals

CONSTANTS
    Threads,    \* worker and callback threads of every process using the cache
    Keys,       \* hashed urls; a key k stands for the names <k> and <k>.new
    Replies,    \* contents that upstream may hand to serialize
    Inodes,     \* inode numbers of the file system
    None        \* no inode, no key, no reply

ASSUME NoneAssumption == None \notin Inodes /\ None \notin Keys /\ None \notin Replies

VARIABLES
    path,       \* path[k]: the inode named <k>, or None
    new,        \* new[k]: the inode named <k>.new, or None
    inode,      \* inode[i]: what was written to inode i, and how much of it
    thread,     \* thread[t]: where thread t is in serialize or deserialize
    offered,    \* history: the replies serialize began to write, per key
    answer,     \* history: the last reply deserialize returned, with its key
    litter,     \* history: a thread was killed, or an unlink failed
    evicted     \* history: a <k>.new was evicted

vars == <<path, new, inode, thread, offered, answer, litter, evicted>>

\* "alien" is a file whose magic number is not reply123::MAGIC.
File == [data : Replies \cup {None}, written : {"nothing", "part", "all", "alien"}]

Writing == {"write", "finish", "rename"}
PCs == Writing \cup {"idle", "unlinknew", "unlinkpath", "read", "quarantine"}

ThreadState == [pc : PCs, key : Keys \cup {None}, ino : Inodes \cup {None}]

IdleThread == [pc |-> "idle", key |-> None, ino |-> None]
NoAnswer == [key |-> None, reply |-> None]

\* An inode that no name and no open descriptor refers to.
Free(i) == /\ \A k \in Keys : path[k] # i /\ new[k] # i
           /\ \A t \in Threads : thread[t].ino # i

Goto(t, l) == thread' = [thread EXCEPT ![t].pc = l]

Return(t) == thread' = [thread EXCEPT ![t] = IdleThread]

\* A cache directory left by an earlier run, possibly of an older version.
Init == /\ new = [k \in Keys |-> None]
        /\ inode = [i \in Inodes |-> [data |-> None, written |-> "alien"]]
        /\ path \in [Keys -> Inodes \cup {None}]
        /\ \A j, k \in Keys : path[j] = path[k] /\ j # k => path[j] = None
        /\ thread = [t \in Threads |-> IdleThread]
        /\ offered = [k \in Keys |-> {}]
        /\ answer = NoAnswer
        /\ litter = FALSE
        /\ evicted = FALSE

----------------------------------------------------------------------------
\* diskcache::serialize

\* rofs_defer_till, injection_probability_, or openat failing: EEXIST when
\* <k>.new is there, EROFS and other errors at any time.  Nothing is written.
SerializeRefused(t) ==
    /\ thread[t].pc = "idle"
    /\ UNCHANGED vars

\* Mutant: O_TRUNC in place of O_EXCL.
SerializeOpenShared(t, k, r) ==
    /\ thread[t].pc = "idle"
    /\ offered' = [offered EXCEPT ![k] = @ \cup {r}]
    /\ \E i \in Inodes :
         /\ IF new[k] = None THEN Free(i) ELSE i = new[k]
         /\ inode' = [inode EXCEPT ![i] = [data |-> r, written |-> "nothing"]]
         /\ new' = [new EXCEPT ![k] = i]
         /\ thread' = [thread EXCEPT ![t] =
                         [pc |-> "write", key |-> k, ino |-> i]]
    /\ UNCHANGED <<path, answer, litter, evicted>>

\* openat(O_WRONLY|O_CREAT|O_EXCL) creates <k>.new.
SerializeOpen(t, k, r) ==
    /\ thread[t].pc = "idle"
    /\ new[k] = None
    /\ offered' = [offered EXCEPT ![k] = @ \cup {r}]
    /\ \E i \in Inodes :
         /\ Free(i)
         /\ inode' = [inode EXCEPT ![i] = [data |-> r, written |-> "nothing"]]
         /\ new' = [new EXCEPT ![k] = i]
         /\ thread' = [thread EXCEPT ![t] =
                         [pc |-> "write", key |-> k, ino |-> i]]
    /\ UNCHANGED <<path, answer, litter, evicted>>

\* writev is not atomic with respect to readers: it starts ...
WriteSome(t) ==
    /\ thread[t].pc = "write"
    /\ inode' = [inode EXCEPT ![thread[t].ino].written = "part"]
    /\ Goto(t, "finish")
    /\ UNCHANGED <<path, new, offered, answer, litter, evicted>>

\* ... and completes, after which the descriptor is closed.
WriteRest(t) ==
    /\ thread[t].pc = "finish"
    /\ inode' = [inode EXCEPT ![thread[t].ino].written = "all"]
    /\ Goto(t, "rename")
    /\ UNCHANGED <<path, new, offered, answer, litter, evicted>>

\* A failed checksum of the reply, a short write or an I/O error throws.
WriteFails(t) ==
    /\ thread[t].pc \in {"write", "finish"}
    /\ Goto(t, "unlinknew")
    /\ UNCHANGED <<path, new, inode, offered, answer, litter, evicted>>

\* renameat acts on the name <k>.new, whatever it names now.
Rename(t) ==
    LET k == thread[t].key IN
    /\ thread[t].pc = "rename"
    /\ new[k] # None
    /\ path' = [path EXCEPT ![k] = new[k]]
    /\ new' = [new EXCEPT ![k] = None]
    /\ Return(t)
    /\ UNCHANGED <<inode, offered, answer, litter, evicted>>

\* Mutant: a failed rename is not cleaned up after.
RenameFailsKeepsNew(t) ==
    /\ thread[t].pc = "rename"
    /\ Return(t)
    /\ UNCHANGED <<path, new, inode, offered, answer, litter, evicted>>

\* renameat fails: with ENOENT when <k>.new is gone, or for another reason.
RenameFails(t) ==
    /\ thread[t].pc = "rename"
    /\ Goto(t, "unlinknew")
    /\ UNCHANGED <<path, new, inode, offered, answer, litter, evicted>>

\* The catch block: unlink <k>.new; a failing unlink is only complained about.
UnlinkNew(t) ==
    LET k == thread[t].key IN
    /\ thread[t].pc = "unlinknew"
    /\ \/ new' = [new EXCEPT ![k] = None] /\ UNCHANGED litter
       \/ UNCHANGED new /\ litter' = TRUE
    /\ Goto(t, "unlinkpath")
    /\ UNCHANGED <<path, inode, offered, answer, evicted>>

\* ... then unlink <k>, and rethrow.
UnlinkPath(t) ==
    LET k == thread[t].key IN
    /\ thread[t].pc = "unlinkpath"
    /\ path' \in {path, [path EXCEPT ![k] = None]}
    /\ Return(t)
    /\ UNCHANGED <<new, inode, offered, answer, litter, evicted>>

----------------------------------------------------------------------------
\* diskcache::deserialize

\* openat fails: a miss.
DeserializeMiss(t, k) ==
    /\ thread[t].pc = "idle"
    /\ path[k] = None
    /\ UNCHANGED vars

DeserializeOpen(t, k) ==
    /\ thread[t].pc = "idle"
    /\ path[k] # None
    /\ thread' = [thread EXCEPT ![t] =
                    [pc |-> "read", key |-> k, ino |-> path[k]]]
    /\ UNCHANGED <<path, new, inode, offered, answer, litter, evicted>>

\* Mutant: neither magic number nor lengths nor checksum are looked at.
ReadableUnchecked(f) == {IF f.written = "all" THEN f.data ELSE None}

\* What deserialize_no_unlink may return for a file.  A partial file passes
\* the length checks and the checksum only if header and content are intact.
Readable(f) == IF f.written \in {"part", "all"} THEN {f.data} ELSE {}

\* Mutant: the file is opened a second time to be read.
ReadFileByName(t) ==
    LET k == thread[t].key IN
    /\ thread[t].pc = "read"
    /\ path[k] # None
    /\ \E r \in Readable(inode[path[k]]) : answer' = [key |-> k, reply |-> r]
    /\ Return(t)
    /\ UNCHANGED <<path, new, inode, offered, litter, evicted>>

ReadFile(t) ==
    /\ thread[t].pc = "read"
    /\ \E r \in Readable(inode[thread[t].ino]) :
         answer' = [key |-> thread[t].key, reply |-> r]
    /\ Return(t)
    /\ UNCHANGED <<path, new, inode, offered, litter, evicted>>

\* A file with a wrong magic number is left in place and counts as a miss.
ReadAlien(t) ==
    /\ thread[t].pc = "read"
    /\ inode[thread[t].ino].written = "alien"
    /\ Return(t)
    /\ UNCHANGED <<path, new, inode, offered, answer, litter, evicted>>

\* Too short, garbled, or an I/O error: deserialize_no_unlink throws.
ReadThrows(t) ==
    /\ thread[t].pc = "read"
    /\ Goto(t, "quarantine")
    /\ UNCHANGED <<path, new, inode, offered, answer, litter, evicted>>

\* The catch block renames whatever <k> names now to <k>.<time>: a miss.
Quarantine(t) ==
    LET k == thread[t].key IN
    /\ thread[t].pc = "quarantine"
    /\ path' = [path EXCEPT ![k] = None]
    /\ Return(t)
    /\ UNCHANGED <<new, inode, offered, answer, litter, evicted>>

----------------------------------------------------------------------------
\* One unlinkat of diskcache::evict: do_scan collects every regular file of
\* a directory, so the victim may be <k> or <k>.new.
EvictFile(k) ==
    /\ \/ /\ path[k] # None
          /\ path' = [path EXCEPT ![k] = None]
          /\ UNCHANGED <<new, evicted>>
       \/ /\ new[k] # None
          /\ new' = [new EXCEPT ![k] = None]
          /\ evicted' = TRUE
          /\ UNCHANGED path
    /\ UNCHANGED <<inode, thread, offered, answer, litter>>

\* kill -9 or a system crash: the files stay, the thread is gone.
Crash(t) ==
    /\ thread[t].pc # "idle"
    /\ Return(t)
    /\ litter' = TRUE
    /\ UNCHANGED <<path, new, inode, offered, answer, evicted>>

\* The steps of a thread that is inside serialize or deserialize.
Step(t) == \/ WriteSome(t) \/ WriteRest(t) \/ WriteFails(t)
           \/ Rename(t) \/ RenameFails(t) \/ UnlinkNew(t) \/ UnlinkPath(t)
           \/ ReadFile(t) \/ ReadAlien(t) \/ ReadThrows(t) \/ Quarantine(t)

Call(t) == \/ SerializeRefused(t)
           \/ \E k \in Keys, r \in Replies : SerializeOpen(t, k, r)
           \/ \E k \in Keys : DeserializeMiss(t, k) \/ DeserializeOpen(t, k)

Next == \/ \E t \in Threads : Call(t) \/ Step(t) \/ Crash(t)
        \/ \E k \in Keys : EvictFile(k)

Spec == Init /\ [][Next]_vars

\* A running thread keeps executing.
FairSpec == Spec /\ \A t \in Threads : WF_vars(Step(t))

----------------------------------------------------------------------------
(* A thread outside serialize and deserialize holds no descriptor. *)
TypeOK == /\ path \in [Keys -> Inodes \cup {None}]
          /\ new \in [Keys -> Inodes \cup {None}]
          /\ inode \in [Inodes -> File]
          /\ thread \in [Threads -> ThreadState]
          /\ \A t \in Threads : thread[t].pc = "idle" => thread[t] = IdleThread
          /\ offered \in [Keys -> SUBSET Replies]
          /\ answer \in [key : Keys, reply : Replies \cup {None}] \cup {NoAnswer}
          /\ litter \in BOOLEAN
          /\ evicted \in BOOLEAN

(* Whatever deserialize returns for a url was handed to serialize for that
   url, intact: never a torn file, another object, or an alien one, even
   though evicted names are re-created while earlier writers still hold them. *)
GenuineReads == answer # NoAnswer => answer.reply \in offered[answer.key]

(* Unless a thread was killed or an unlink failed, a <k>.new file has a
   writer that will still rename or unlink it: "it's critical that we unlink
   pathnew.  Otherwise, we'll never successfully open it again". *)
NoOrphanNew == litter \/ \A k \in Keys : new[k] # None =>
                 \E t \in Threads : /\ thread[t].key = k
                                    /\ thread[t].pc \in Writing \cup {"unlinknew"}

(* Until eviction takes a <k>.new from under its writer, the name <k> never
   refers to a file that is still being written: readers see complete files
   only, whatever other threads fail, are killed, or run in another process. *)
PublishedComplete == evicted \/ \A k \in Keys : path[k] # None =>
                                   inode[path[k]].written \in {"all", "alien"}

(* The comment in serialize: "We have exclusive access to the file known as
   pathnew until it has been rename-ed". *)
ExclusiveUntilRename == \A t \in Threads : thread[t].pc \in Writing =>
                          new[thread[t].key] = thread[t].ino

\* The refinement mapping: a url's reply is the one its name refers to, and a
\* reader's is the one in the file its descriptor refers to.
Shelf == [k \in Keys |-> IF path[k] = None THEN None ELSE inode[path[k]].data]
Reading == [t \in Threads |->
              IF thread[t].pc = "read"
              THEN [key |-> thread[t].key, reply |-> inode[thread[t].ino].data]
              ELSE NoAnswer]

Cache == INSTANCE DiskCache WITH shelf <- Shelf, reading <- Reading

(* The files implement the register of module DiskCache: a hit of deserialize
   is what the url's name held when deserialize opened it, whatever is renamed,
   evicted, quarantined, rewritten or left behind by a crash until it returns. *)
ImplementsDiskCache == Cache!Spec

(* A url whose <k>.new exists becomes cacheable again. *)
CacheableAgain == \A k \in Keys : new[k] # None ~> (new[k] = None \/ litter)
=============================================================================
