------------------------------- MODULE Estale -------------------------------
(***************************************************************************)
(* The ESTALE protocol of a mount (exe/fs123p7/app_mount): one name whose  *)
(* file is replaced, removed, created and renamed back on the server while *)
(* threads look the name up and use the inodes they were given.            *)
(*                                                                         *)
(* The server marks each file with a cookie that no other file has.  An    *)
(* inode is the hash of its parent, its name and the cookie, here the      *)
(* cookie itself, so a cookie mismatch is an inequality.  Between a thread *)
(* and the server are the attrcache, which is the mount's own, and the     *)
(* disk cache and proxies, here one entry for each url, "a" for attributes *)
(* and "f" for contents.  The kernel keeps a directory entry.  Whatever is *)
(* cached may be forgotten at any time, since it expires or is evicted,    *)
(* but need not be: the properties do not rest on expiration.              *)
(* ignore_estale_mismatch is off.  A thread takes its inode from the       *)
(* entry and may be late with it, as a reader of an open file is.  The     *)
(* root and the special inodes, and the calls that do not check cookies    *)
(* (readlink, getxattr, statfs) are left out.                              *)
(***************************************************************************)
EXTENDS Naturals

CONSTANTS
    Threads,    \* threads that serve callbacks
    MaxCookie,  \* bound: how many files are made
    None,       \* nothing is cached
    Enoent      \* the reply for a name that does not exist

ASSUME CookieAssumption == MaxCookie \in Nat \ {0}
ASSUME ReplyAssumption == None # Enoent /\ None \notin Nat /\ Enoent \notin Nat

Cookies == 1 .. MaxCookie
Replies == Cookies \cup {Enoent}
Urls == {"a", "f"}

VARIABLES
    born,       \* the cookies used so far are 1 .. born
    server,     \* the origin's answer: the cookie of the present file, or Enoent
    web,        \* web[u]: the reply for url u in the disk cache and the proxies
    attrcache,
    entry,      \* the kernel's directory entry: an inode, or Enoent
    inval,      \* an invalidation of the entry is queued in the thread pool
    thread

originVars == <<born, server>>
vars == <<originVars, web, attrcache, entry, inval, thread>>

PCs == {"idle", "mismatch", "ask", "receive", "insert", "return",
        "inval", "flush", "flush ask", "flush receive", "throw"}

\* ino is 0 in lookup.
Thread == [pc : PCs, ino : 0 .. MaxCookie, url : Urls, reply : Replies \cup {None},
           no_cache : BOOLEAN,  \* of the request under way
           second : BOOLEAN,    \* the request is the retry in beget
           away : BOOLEAN]      \* history: see Elsewhere

Mismatch(ino, cookie) == ino # 0 /\ ino # cookie

\* The name has another file on the server than the inode's.  A thread's away says that it
\* has had one, at some time since beget's retry began.
Elsewhere(ino, s) == s # Enoent /\ Mismatch(ino, s)
Noted(s) == [t \in Threads |->
               [thread[t] EXCEPT !.away = @ \/ (thread[t].second /\ Elsewhere(thread[t].ino, s))]]

Call(ino, nc) == [pc |-> "ask", ino |-> ino, url |-> "a", reply |-> None,
                  no_cache |-> nc, second |-> FALSE, away |-> FALSE]
Idle == [Call(0, FALSE) EXCEPT !.pc = "idle"]

Init == /\ born = 1
        /\ server = 1
        /\ web = [u \in Urls |-> None]
        /\ attrcache = None
        /\ entry = None
        /\ inval = FALSE
        /\ thread = [t \in Threads |-> Idle]

----------------------------------------------------------------------------
\* The server and what forgets.

\* creat, or rename to this name.
NewFile == /\ born < MaxCookie
           /\ born' = born + 1
           /\ server' = born + 1
           /\ thread' = Noted(born + 1)
           /\ UNCHANGED <<web, attrcache, entry, inval>>

\* A file that had this name before, and kept its cookie, gets it again.
RenameBack == \E c \in 1 .. born :
    /\ c # server
    /\ server' = c
    /\ thread' = Noted(c)
    /\ UNCHANGED <<born, web, attrcache, entry, inval>>

Unlink == /\ server # Enoent
          /\ server' = Enoent
          /\ UNCHANGED <<born, web, attrcache, entry, inval, thread>>

Forget == /\ \/ /\ \E u \in Urls : web[u] # None /\ web' = [web EXCEPT ![u] = None]
                /\ UNCHANGED <<attrcache, entry>>
             \/ attrcache # None /\ attrcache' = None /\ UNCHANGED <<web, entry>>
             \/ entry # None /\ entry' = None /\ UNCHANGED <<web, attrcache>>
          /\ UNCHANGED <<originVars, inval, thread>>

\* lowlevel_notify_inval_entry, in a thread of the pool.
InvalEntry == /\ inval
              /\ inval' = FALSE
              /\ entry' = None
              /\ UNCHANGED <<originVars, web, attrcache, thread>>

----------------------------------------------------------------------------
\* The callbacks, up to their first request.

\* Mutant: an unexpired reply is good enough.
BegetattrTrusts(t, th) ==
    /\ thread' = [thread EXCEPT ![t] =
                    IF th.no_cache \/ attrcache = None THEN th
                    ELSE [th EXCEPT !.pc = "return", !.reply = attrcache]]
    /\ attrcache' = IF th.no_cache THEN None ELSE attrcache

Begetattr(t, th) ==
    /\ thread' = [thread EXCEPT ![t] =
                    IF th.no_cache \/ attrcache = None THEN th
                    ELSE IF Mismatch(th.ino, attrcache) THEN [th EXCEPT !.pc = "mismatch"]
                    ELSE [th EXCEPT !.pc = "return", !.reply = attrcache]]
    /\ attrcache' = IF th.no_cache THEN None ELSE attrcache

\* "attrcache erased: cookie mismatch"
EraseMismatch(t) ==
    /\ thread[t].pc = "mismatch"
    /\ attrcache' = None
    /\ thread' = [thread EXCEPT ![t].pc = "ask"]
    /\ UNCHANGED <<originVars, web, entry, inval>>

Lookup(t) ==
    /\ thread[t].pc = "idle"
    /\ entry = None
    /\ Begetattr(t, Call(0, FALSE))
    /\ UNCHANGED <<originVars, web, entry, inval>>

\* getattr, and open's, which may be no_cache, of the inode of the entry.
Getattr(t, nc) ==
    /\ thread[t].pc = "idle"
    /\ entry \in Cookies
    /\ Begetattr(t, Call(entry, nc))
    /\ UNCHANGED <<originVars, web, entry, inval>>

\* begetchunk_file; begetchunk_dir is the same for another url.
Read(t, nc) ==
    /\ thread[t].pc = "idle"
    /\ entry \in Cookies
    /\ thread' = [thread EXCEPT ![t] = [Call(entry, nc) EXCEPT !.url = "f"]]
    /\ UNCHANGED <<originVars, web, attrcache, entry, inval>>

----------------------------------------------------------------------------
\* beget

Again(th) == [th EXCEPT !.pc = "ask", !.second = TRUE, !.reply = None,
                        !.away = Elsewhere(th.ino, server)]

\* Mutant: the retry may be answered by a cache.
RetryCached(th) == Again(th)

Retry(th) == [Again(th) EXCEPT !.no_cache = TRUE]

\* The request is over, and what it was is of no further use.
Over(th, pc, reply) == [Call(th.ino, FALSE) EXCEPT !.pc = pc, !.reply = reply]

\* What a thread does with a reply.
Check(th, reply) ==
    IF reply # Enoent /\ Mismatch(th.ino, reply)
    THEN IF th.second THEN [Over(th, "inval", None) EXCEPT !.away = th.away] ELSE Retry(th)
    ELSE Over(th, IF th.url = "a" /\ reply # Enoent THEN "insert" ELSE "return", reply)

\* be->refresh is answered by a cache, ...
AskCache(t) ==
    LET th == thread[t] IN
    /\ th.pc = "ask" /\ ~th.no_cache /\ web[th.url] # None
    /\ thread' = [thread EXCEPT ![t] = Check(th, web[th.url])]
    /\ UNCHANGED <<originVars, web, attrcache, entry, inval>>

\* ... or else by the server ...
AskServer(t) ==
    LET th == thread[t] IN
    /\ th.pc = "ask" /\ (th.no_cache \/ web[th.url] = None)
    /\ thread' = [thread EXCEPT ![t].pc = "receive", ![t].reply = server]
    /\ UNCHANGED <<originVars, web, attrcache, entry, inval>>

\* ... whose answer reaches the caches on its way, perhaps after a later one.
Receive(t) ==
    LET th == thread[t] IN
    /\ th.pc = "receive"
    /\ web' = [web EXCEPT ![th.url] = th.reply]
    /\ thread' = [thread EXCEPT ![t] = Check(th, th.reply)]
    /\ UNCHANGED <<originVars, attrcache, entry, inval>>

\* Refresh, or decoding, throws, and a cache may have stored the reply; a
\* retry in retrying_berefresh is another request.
Fail(t) ==
    LET th == thread[t] IN
    /\ \/ th.pc \in {"ask", "flush ask"} /\ UNCHANGED web
       \/ th.pc = "receive" /\ web' \in {web, [web EXCEPT ![th.url] = th.reply]}
       \/ th.pc = "flush receive" /\ web' \in {web, [web EXCEPT !["a"] = th.reply]}
    /\ thread' = [thread EXCEPT ![t] = Idle]
    /\ UNCHANGED <<originVars, attrcache, entry, inval>>

\* expiring_cache::insert does not replace.
Insert(t) ==
    /\ thread[t].pc = "insert"
    /\ attrcache' = IF attrcache = None THEN thread[t].reply ELSE attrcache
    /\ thread' = [thread EXCEPT ![t].pc = "return"]
    /\ UNCHANGED <<originVars, web, entry, inval>>

\* lookup replies with an entry, negative or not.
Return(t) ==
    /\ thread[t].pc = "return"
    /\ entry' = IF thread[t].ino = 0 THEN thread[t].reply ELSE entry
    /\ thread' = [thread EXCEPT ![t] = Idle]
    /\ UNCHANGED <<originVars, web, attrcache, inval>>

----------------------------------------------------------------------------
\* The second mismatch in beget, and beflush.

\* Mutant: the kernel is not told.
SubmitNothing(t) ==
    /\ thread[t].pc = "inval"
    /\ thread' = [thread EXCEPT ![t].pc = "flush"]
    /\ UNCHANGED <<originVars, web, attrcache, entry, inval>>

SubmitInval(t) ==
    /\ thread[t].pc = "inval"
    /\ inval' = TRUE
    /\ thread' = [thread EXCEPT ![t].pc = "flush"]
    /\ UNCHANGED <<originVars, web, attrcache, entry>>

FlushErase(t) ==
    /\ thread[t].pc = "flush"
    /\ attrcache' = None
    /\ thread' = [thread EXCEPT ![t].pc = "flush ask"]
    /\ UNCHANGED <<originVars, web, entry, inval>>

FlushAsk(t) ==
    /\ thread[t].pc = "flush ask"
    /\ thread' = [thread EXCEPT ![t].pc = "flush receive", ![t].reply = server]
    /\ UNCHANGED <<originVars, web, attrcache, entry, inval>>

FlushReceive(t) ==
    /\ thread[t].pc = "flush receive"
    /\ web' = [web EXCEPT !["a"] = thread[t].reply]
    /\ thread' = [thread EXCEPT ![t].pc = "throw"]
    /\ UNCHANGED <<originVars, attrcache, entry, inval>>

ThrowEstale(t) ==
    /\ thread[t].pc = "throw"
    /\ thread' = [thread EXCEPT ![t] = Idle]
    /\ UNCHANGED <<originVars, web, attrcache, entry, inval>>

----------------------------------------------------------------------------
Step(t) == \/ EraseMismatch(t) \/ AskCache(t) \/ AskServer(t) \/ Receive(t) \/ Fail(t)
           \/ Insert(t) \/ Return(t)
           \/ SubmitInval(t) \/ FlushErase(t) \/ FlushAsk(t) \/ FlushReceive(t) \/ ThrowEstale(t)

Next == \/ NewFile \/ RenameBack \/ Unlink \/ Forget \/ InvalEntry
        \/ \E t \in Threads :
             \/ Lookup(t) \/ Step(t)
             \/ \E nc \in BOOLEAN : Getattr(t, nc) \/ Read(t, nc)

Spec == Init /\ [][Next]_vars

\* Threads and the pool run, and requests are answered or time out: every callback and every
\* task of the pool comes to its end.  A callback has no loop and a step of it is always
\* enabled, so that this is weak fairness of Step(t), and of InvalEntry.
Fairness == []<>~inval /\ \A t \in Threads : []<>(thread[t].pc = "idle")
FairSpec == Spec /\ Fairness

----------------------------------------------------------------------------
(* The type invariant. *)
TypeOK == /\ born \in Cookies
          /\ server \in 1 .. born \cup {Enoent}
          /\ web \in [Urls -> Replies \cup {None}]
          /\ attrcache \in Cookies \cup {None}
          /\ entry \in Replies \cup {None}
          /\ inval \in BOOLEAN
          /\ thread \in [Threads -> Thread]

(* "They will never successfully return inconsistent data": a callback for an
   inode succeeds only with the attributes or contents of the file that the
   inode was made for, wherever the reply came from. *)
OneFile == \A t \in Threads :
    thread[t].pc = "return" /\ thread[t].ino # 0 => thread[t].reply \in {thread[t].ino, Enoent}

(* ESTALE is not raised because a cache is behind: at some time during the
   retry the name had another file on the server than the inode's. *)
EstaleIsTrue == \A t \in Threads :
    thread[t].pc \in {"inval", "flush", "flush ask", "flush receive", "throw"}
        => thread[t].away

(* Once the server's changes are over, whoever walks the path gets ESTALE
   finitely often, even if nothing that is cached ever expires: the flush
   reaches the entry, the attrcache and the caches, although threads bring
   back replies and entries they got before. *)
EstaleEnds == \/ []<><<TRUE>>_originVars
              \/ <>[](\A t \in Threads : thread[t].pc # "throw")
=============================================================================
