----------------------------- MODULE PageCache -----------------------------
(***************************************************************************)
(* How one file's pages in the kernel's page cache are kept in step with   *)
(* the server: fs123_open, fs123_read and fs123_release                    *)
(* (exe/fs123p7/app_mount.cpp), the validator in the inomap                *)
(* (exe/fs123p7/inomap.cpp) and the scan of open files                     *)
(* (exe/fs123p7/openfilemap.cpp), run by any number of fuse threads.       *)
(*                                                                         *)
(* "Kernel caches are forever": a page stays until the open of a changed   *)
(* file replies keep_cache=0, or a notify_inval_inode.  Both are preceded  *)
(* by an update of the inomap's validator, under another lock, and they    *)
(* wait for the pages that are being read, page by page.                   *)
(*                                                                         *)
(* The caches between the client and the server are abstracted to what     *)
(* docs/Fs123Consistency calls settling: a reply carries some version      *)
(* between `settled' and `server'.  A version is the monotonic validator   *)
(* that the server sends with it.  When the queue of open files decides to *)
(* scan this one is the subject of module OpenFileMap.                     *)
(***************************************************************************)
EXTENDS Naturals, FiniteSets

CONSTANTS
    Fds,        \* client file descriptors on the file
    Pages,      \* its pages, numbered; each in a chunk of its own
    MaxVersion, \* bound: modifications of the file on the server
    Scanner,    \* the scan thread and ...
    Detached    \* ... the invaltp thread, as initiators of invalidations

ASSUME PagesAssumption == Pages \subseteq Nat
ASSUME MaxVersionAssumption == MaxVersion \in Nat
ASSUME InitiatorsAssumption == Scanner \notin Fds /\ Detached \notin Fds /\ Scanner # Detached

Versions == 0 .. MaxVersion
Initiators == Fds \cup {Scanner, Detached}

VARIABLES
    server,     \* the version of the file on the server
    settled,    \* the oldest version that a reply may still carry
    known,      \* the kernel holds the inode, the inomap has an inorecord
    validator,  \* inorecord::validator
    cached,     \* kernel: the pages in the page cache ...
    version,    \* ... and their versions
    locked,     \* kernel: the pages locked while they are read
    inval,      \* kernel: inval[x], pages x's invalidation has yet to drop
    pc,         \* pc[f]: where the open of f is
    reply,      \* reply[f]: the validator that its getattr returned
    no_cache,   \* the descriptors whose getattr was tried again with no_cache
    drop,       \* the descriptors whose reply says keep_cache=0
    direct_io,  \* the descriptors that bypass the page cache
    floor,      \* history: what had settled when the open of f began
    raced,      \* history: open returned during another's invalidation
    old,        \* history: a read returned data older than the floor
    asked,      \* asked[f]: the pages that the fs123_read on f is about
    want,       \* want[f]: those of them that upstream has not answered yet
    got,        \* got[f]: the versions of the answers
    ino_validator,  \* ino_validator[f]: local variable of fs123_read
    scanpc,     \* the scan of the open file: "idle", "update" or "inval"
    scanreply   \* the validator that its getattr returned

serverVars == <<server, settled>>
inodeVars == <<known, validator>>
openVars == <<pc, reply, no_cache, drop, direct_io, floor, raced>>
readVars == <<asked, want, got, ino_validator>>
scanVars == <<scanpc, scanreply>>
vars == <<serverVars, inodeVars, cached, version, locked, inval, openVars, old,
          readVars, scanVars>>

Replies == settled .. server

Init == /\ server = 0 /\ settled = 0
        /\ known = FALSE
        /\ validator = 0
        /\ cached = {} /\ locked = {}
        /\ version = [p \in Pages |-> 0]
        /\ inval = [x \in Initiators |-> {}]
        /\ pc = [f \in Fds |-> "closed"]
        /\ reply = [f \in Fds |-> 0]
        /\ floor = [f \in Fds |-> 0]
        /\ no_cache = {} /\ drop = {} /\ direct_io = {} /\ raced = {} /\ old = {}
        /\ asked = [f \in Fds |-> {}]
        /\ want = [f \in Fds |-> {}]
        /\ got = [f \in Fds |-> [p \in Pages |-> 0]]
        /\ ino_validator = [f \in Fds |-> 0]
        /\ scanpc = "idle" /\ scanreply = 0

Goto(f, l) == pc' = [pc EXCEPT ![f] = l]

----------------------------------------------------------------------------
\* The server and the caches on the way.

Modify == /\ server < MaxVersion
          /\ server' = server + 1
          /\ UNCHANGED <<settled, inodeVars, cached, version, locked, inval,
                         openVars, old, readVars, scanVars>>

\* max-age plus stale-while-revalidate have passed since the last change.
Settle == /\ settled < server
          /\ settled' = server
          /\ UNCHANGED <<server, inodeVars, cached, version, locked, inval,
                         openVars, old, readVars, scanVars>>

----------------------------------------------------------------------------
\* The kernel's inode.

\* fs123_lookup calls ino_remember with the validator of its reply.
Lookup == /\ ~known
          /\ known' = TRUE
          /\ validator' \in Replies
          /\ UNCHANGED <<serverVars, cached, version, locked, inval,
                         openVars, old, readVars, scanVars>>

\* The kernel evicts an unused inode with its pages: ino_forget.
Forget == /\ known
          /\ \A f \in Fds : pc[f] = "closed"
          /\ known' = FALSE
          /\ cached' = {}
          /\ UNCHANGED <<serverVars, validator, version, locked, inval,
                         openVars, old, readVars, scanVars>>

\* Memory pressure.
Reclaim(p) == /\ p \in cached
              /\ cached' = cached \ {p}
              /\ UNCHANGED <<serverVars, inodeVars, version, locked, inval,
                             openVars, old, readVars, scanVars>>

\* An invalidation passes over the pages in order, and waits for one that is
\* being read before it goes on.
Invalidate(x, p) ==
    /\ p \in inval[x] /\ \A q \in inval[x] : p <= q
    /\ p \notin locked
    /\ cached' = cached \ {p}
    /\ inval' = [inval EXCEPT ![x] = @ \ {p}]
    /\ UNCHANGED <<serverVars, inodeVars, version, locked, openVars, old,
                   readVars, scanVars>>

----------------------------------------------------------------------------
\* fs123_open

OpenGetattr(f) ==
    /\ known
    /\ pc[f] = "closed"
    /\ Goto(f, "update")
    /\ \E r \in Replies : reply' = [reply EXCEPT ![f] = r]
    /\ floor' = [floor EXCEPT ![f] = settled]
    /\ UNCHANGED <<serverVars, inodeVars, cached, version, locked, inval, no_cache,
                   drop, direct_io, raced, old, readVars, scanVars>>

\* ino_update_validator, then openfile_register unless direct_io (O_DIRECT,
\* or a reply with max-age 0).
OpenUpdate(f) ==
    /\ pc[f] = "update"
    /\ reply[f] >= validator
    /\ validator' = reply[f]
    /\ drop' = IF reply[f] = validator THEN drop ELSE drop \cup {f}
    /\ direct_io' \in {direct_io, direct_io \cup {f}}
    /\ Goto(f, "reply")
    /\ UNCHANGED <<serverVars, known, cached, version, locked, inval, reply, no_cache,
                   floor, raced, old, readVars, scanVars>>

\* ino_out_of_order_validator, the first time: try again with no_cache.
OpenRetry(f) ==
    /\ pc[f] = "update"
    /\ reply[f] < validator
    /\ f \notin no_cache
    /\ no_cache' = no_cache \cup {f}
    /\ \E r \in Replies : reply' = [reply EXCEPT ![f] = r]
    /\ UNCHANGED <<serverVars, inodeVars, cached, version, locked, inval, pc, drop,
                   direct_io, floor, raced, old, readVars, scanVars>>

\* The descriptor, or the failed attempt to open one, is gone.
Close(f) == /\ Goto(f, "closed")
            /\ reply' = [reply EXCEPT ![f] = 0]
            /\ floor' = [floor EXCEPT ![f] = 0]
            /\ no_cache' = no_cache \ {f}
            /\ drop' = drop \ {f}
            /\ direct_io' = direct_io \ {f}
            /\ raced' = raced \ {f}
            /\ old' = old \ {f}

\* ... and the second time: have the pages dropped, and fail with ESTALE.
OpenEstale(f) ==
    /\ pc[f] = "update"
    /\ reply[f] < validator
    /\ f \in no_cache
    /\ inval' = [inval EXCEPT ![Detached] = Pages]
    /\ Close(f)
    /\ UNCHANGED <<serverVars, inodeVars, cached, version, locked, readVars, scanVars>>

\* Mutant: keep_cache=1 whatever the validator did.
OpenReplyKeep(f) ==
    /\ pc[f] = "reply"
    /\ Goto(f, "inval")
    /\ drop' = drop \ {f}
    /\ reply' = [reply EXCEPT ![f] = 0]
    /\ no_cache' = no_cache \ {f}
    /\ UNCHANGED <<serverVars, inodeVars, cached, version, locked, inval, direct_io, floor,
                   raced, old, readVars, scanVars>>

\* reply_open: the kernel drops the pages before open returns, if told to.
OpenReply(f) ==
    /\ pc[f] = "reply"
    /\ Goto(f, "inval")
    /\ inval' = [inval EXCEPT ![f] = IF f \in drop THEN Pages ELSE {}]
    /\ drop' = drop \ {f}
    /\ reply' = [reply EXCEPT ![f] = 0]
    /\ no_cache' = no_cache \ {f}
    /\ UNCHANGED <<serverVars, inodeVars, cached, version, locked, direct_io, floor,
                   raced, old, readVars, scanVars>>

\* Some invalidation is under way, or decided on, that will drop p.
Doomed(p) == drop # {} \/ \E x \in Initiators : p \in inval[x]

OpenReturn(f) ==
    /\ pc[f] = "inval"
    /\ inval[f] = {}
    /\ Goto(f, "open")
    /\ raced' = IF \E p \in Pages : Doomed(p) THEN raced \cup {f} ELSE raced
    /\ UNCHANGED <<serverVars, inodeVars, cached, version, locked, inval, reply, no_cache,
                   drop, direct_io, floor, old, readVars, scanVars>>

\* fs123_release
Release(f) ==
    /\ pc[f] = "open"
    /\ asked[f] = {}
    /\ Close(f)
    /\ UNCHANGED <<serverVars, inodeVars, cached, version, locked, inval, readVars, scanVars>>

----------------------------------------------------------------------------
\* fs123_read

\* read(2) finds the page in the cache: fs123_read is not called.
ReadHit(f, p) ==
    /\ pc[f] = "open" /\ asked[f] = {} /\ f \notin direct_io
    /\ p \in cached
    /\ old' = IF version[p] < floor[f] THEN old \cup {f} ELSE old
    /\ UNCHANGED <<serverVars, inodeVars, cached, version, locked, inval, openVars,
                   readVars, scanVars>>

\* The kernel locks the pages of one request, which may take two chunks;
\* the handler begins with the current validator.
ReadStart(f, ps) ==
    /\ pc[f] = "open" /\ asked[f] = {}
    /\ ps # {} /\ Cardinality(ps) <= 2
    /\ IF f \in direct_io THEN UNCHANGED locked
       ELSE ps \cap (cached \cup locked) = {} /\ locked' = locked \cup ps
    /\ asked' = [asked EXCEPT ![f] = ps]
    /\ want' = [want EXCEPT ![f] = ps]
    /\ ino_validator' = [ino_validator EXCEPT ![f] = validator]
    /\ UNCHANGED <<serverVars, inodeVars, cached, version, inval, openVars, old, got, scanVars>>

\* Mutant: a reply older than ino_validator is accepted.
ReadChunkAny(f, p) ==
    /\ p \in want[f] /\ \A q \in want[f] : p <= q
    /\ \E r \in Replies, ps \in {{p}, want[f]} :
         /\ want' = [want EXCEPT ![f] = @ \ ps]
         /\ got' = [got EXCEPT ![f] = [q \in Pages |-> IF q \in ps THEN r ELSE got[f][q]]]
    /\ UNCHANGED <<serverVars, inodeVars, cached, version, locked, inval, openVars, old,
                   asked, ino_validator, scanVars>>

\* begetchunk_file, again with no_cache if the first reply is older than
\* ino_validator: a reply at least that new.  A short read answers for the
\* rest of the request too.  A reply newer than ino_validator also makes the
\* open file expire now, so that it is scanned early.
ReadChunk(f, p) ==
    /\ p \in want[f] /\ \A q \in want[f] : p <= q
    /\ \E r \in Replies, ps \in {{p}, want[f]} :
         /\ r >= ino_validator[f]
         /\ want' = [want EXCEPT ![f] = @ \ ps]
         /\ got' = [got EXCEPT ![f] = [q \in Pages |-> IF q \in ps THEN r ELSE got[f][q]]]
    /\ UNCHANGED <<serverVars, inodeVars, cached, version, locked, inval, openVars, old,
                   asked, ino_validator, scanVars>>

\* The handler has returned.
ReadEnds(f) == /\ asked' = [asked EXCEPT ![f] = {}]
               /\ want' = [want EXCEPT ![f] = {}]
               /\ got' = [got EXCEPT ![f] = [p \in Pages |-> 0]]
               /\ ino_validator' = [ino_validator EXCEPT ![f] = 0]
               /\ locked' = IF f \in direct_io THEN locked ELSE locked \ asked[f]

\* Both replies are too old, ESTALE, or there is none: the pages stay empty.
ReadFails(f) ==
    /\ want[f] # {}
    /\ ReadEnds(f)
    /\ UNCHANGED <<serverVars, inodeVars, cached, version, inval, openVars, old, scanVars>>

\* reply_iov: the kernel fills and unlocks the pages.
ReadReply(f) ==
    /\ asked[f] # {} /\ want[f] = {}
    /\ IF f \in direct_io THEN UNCHANGED <<cached, version>>
       ELSE /\ cached' = cached \cup asked[f]
            /\ version' = [p \in Pages |-> IF p \in asked[f] THEN got[f][p] ELSE version[p]]
    /\ old' = IF \E p \in asked[f] : got[f][p] < floor[f] THEN old \cup {f} ELSE old
    /\ ReadEnds(f)
    /\ UNCHANGED <<serverVars, inodeVars, inval, openVars, scanVars>>

----------------------------------------------------------------------------
\* openfilemap's scan, while it does not hold the lock.

Registered(f) == pc[f] \in {"reply", "inval", "open"} /\ f \notin direct_io

ScanGetattr ==
    /\ scanpc = "idle"
    /\ \E f \in Fds : Registered(f)
    /\ scanpc' = "update"
    /\ scanreply' \in Replies
    /\ UNCHANGED <<serverVars, inodeVars, cached, version, locked, inval, openVars, old, readVars>>

\* ino_update_validator: unchanged.
ScanSame ==
    /\ scanpc = "update"
    /\ known /\ scanreply = validator
    /\ scanpc' = "idle"
    /\ scanreply' = 0
    /\ UNCHANGED <<serverVars, inodeVars, cached, version, locked, inval, openVars, old, readVars>>

notify_inval_inode == /\ scanpc' = "inval"
                      /\ scanreply' = 0
                      /\ inval' = [inval EXCEPT ![Scanner] = Pages]

\* Mutant: the kernel is not notified.
ScanNewerSilently ==
    /\ scanpc = "update"
    /\ known /\ scanreply > validator
    /\ validator' = scanreply
    /\ scanpc' = "idle"
    /\ scanreply' = 0
    /\ UNCHANGED <<serverVars, known, cached, version, locked, inval, openVars, old, readVars>>

\* ... or a newer validator: the kernel must be notified.
ScanNewer ==
    /\ scanpc = "update"
    /\ known /\ scanreply > validator
    /\ validator' = scanreply
    /\ notify_inval_inode
    /\ UNCHANGED <<serverVars, known, cached, version, locked, openVars, old, readVars>>

\* ... or an error: no reply, ino_out_of_order_validator, a forgotten inode.
ScanFails ==
    /\ scanpc = "update"
    /\ notify_inval_inode
    /\ UNCHANGED <<serverVars, inodeVars, cached, version, locked, openVars, old, readVars>>

ScanEnds ==
    /\ scanpc = "inval"
    /\ inval[Scanner] = {}
    /\ scanpc' = "idle"
    /\ UNCHANGED <<serverVars, inodeVars, cached, version, locked, inval, openVars, old,
                   readVars, scanreply>>

----------------------------------------------------------------------------
FdNext(f) ==
    \/ OpenGetattr(f) \/ OpenUpdate(f) \/ OpenRetry(f) \/ OpenEstale(f)
    \/ OpenReply(f) \/ OpenReturn(f) \/ Release(f)
    \/ \E p \in Pages : ReadHit(f, p) \/ ReadChunk(f, p)
    \/ \E ps \in SUBSET Pages : ReadStart(f, ps)
    \/ ReadFails(f) \/ ReadReply(f)

Next == \/ Modify \/ Settle \/ Lookup \/ Forget
        \/ \E f \in Fds : FdNext(f)
        \/ \E p \in Pages : Reclaim(p) \/ \E x \in Initiators : Invalidate(x, p)
        \/ ScanGetattr \/ ScanSame \/ ScanNewer \/ ScanFails \/ ScanEnds

Spec == Init /\ [][Next]_vars

\* A thread that has decided on an invalidation gets to carry it out.  That is
\* enough for one page, which is not locked while it is stale; with several, the
\* reads that lock the pages before it have to end too.
FairSpec == /\ Spec
            /\ \A f \in Fds : WF_vars(OpenReply(f))
            /\ \A x \in Initiators : WF_vars(\E p \in Pages : Invalidate(x, p))

----------------------------------------------------------------------------
(* Versions, pages and the program counters of the threads stay in range. *)
TypeOK == /\ server \in Versions /\ settled \in Versions
          /\ known \in BOOLEAN /\ validator \in Versions
          /\ cached \subseteq Pages /\ locked \subseteq Pages
          /\ version \in [Pages -> Versions]
          /\ inval \in [Initiators -> SUBSET Pages]
          /\ pc \in [Fds -> {"closed", "update", "reply", "inval", "open"}]
          /\ reply \in [Fds -> Versions]
          /\ floor \in [Fds -> Versions]
          /\ no_cache \subseteq Fds /\ drop \subseteq Fds /\ direct_io \subseteq Fds
          /\ raced \subseteq Fds /\ old \subseteq Fds
          /\ asked \in [Fds -> SUBSET Pages]
          /\ want \in [Fds -> SUBSET Pages]
          /\ got \in [Fds -> [Pages -> Versions]]
          /\ ino_validator \in [Fds -> Versions]
          /\ scanpc \in {"idle", "update", "inval"} /\ scanreply \in Versions

Stale(p) == p \in cached /\ version[p] < validator

(* No page is stale for ever: a cached page older than the inode's validator
   is about to be dropped by an invalidation that has been decided on. *)
StalePagesDoomed == \A p \in Pages : Stale(p) => Doomed(p)

(* A descriptor whose open did not race with an unfinished invalidation
   never returns data older than what had settled when it was opened. *)
SettledReads == \A f \in Fds : pc[f] = "open" /\ f \in old => f \in raced

(* ... and it does get dropped: keep_cache=0 and notify_inval_inode wait only
   for reads that wait for nobody. *)
StalePagesDropped == \A p \in Pages : Stale(p) ~> ~Stale(p)
=============================================================================
