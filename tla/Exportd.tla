------------------------------- MODULE Exportd -------------------------------
(***************************************************************************)
(* The handlers a and f of exportd (exportd_handler.cpp), system call by    *)
(* system call, while others write, replace and remove the file that their  *)
(* path names.  Each reply vouches for something with two numbers: the      *)
(* estale cookie says which inode the answer is from, the validator says    *)
(* that nothing has changed as long as it does not grow.  Both are taken    *)
(* from system calls other than the one that fetches the answer, and the    *)
(* validator from an mtime with a coarser clock than the one that writers   *)
(* live by.                                                                 *)
(***************************************************************************)
EXTENDS Integers, FiniteSets

CONSTANTS
  Threads,      \* the threads and processes that run handlers
  NoThread,     \* none of them
  NoCookie,     \* the estale cookie 0
  Files,        \* inodes
  NoFile,       \* none of them
  Granularity,  \* --mtim-granularity-ns
  Period,       \* the longest time for which the kernel stamps the same mtime
  MaxNow        \* bound: the last value of the clock

ASSUME ThreadsAssumption == NoThread \notin Threads
ASSUME FilesAssumption == NoFile \notin Files
ASSUME ClockAssumption == /\ Granularity \in Nat \ {0}
                          /\ Period \in Nat \ {0}
                          /\ MaxNow \in Nat

VARIABLES
  now,     \* CLOCK_REALTIME
  tick,    \* the kernel's coarse clock, which stamps mtimes
  path,    \* the inode that the path of all requests leads to, or NoFile
  inode,   \* for each inode the number of writes, st_mtim, and the cookie
  thread,  \* the activation of a handler in each thread
  client,  \* the thread that works for one client, the observed one (NoThread: none)
  held,    \* a reply that this client has got, and keeps until its next one
  last     \* the reply to the client if the latest step sent one, with what it held

vars == <<now, tick, path, inode, thread, client, held, last>>

\* A cookie is the time of day at which a thread set it, or what the file was created with
\* (its generation number, or an attribute that somebody else has set).
Cookies == Files \X (Threads \cup {NoThread})

ASSUME CookiesAssumption == NoCookie \notin Cookies

\* What a reply says, and what it is really from: file is the inode that was stat'ed
\* and stat the number of its writes at that time, owner the inode whose cookie the
\* reply carries, and version is what pread found.  "304" is not_modified_reply.
Replies == [kind : {"none", "a", "f", "304"}, file : Files \cup {NoFile},
            owner : Files \cup {NoFile}, stat : Nat, version : Nat, esc : Cookies \cup {NoCookie},
            etag : Nat \X (Cookies \cup {NoCookie}), validator : Nat]
NoReply == [kind |-> "none", file |-> NoFile, owner |-> NoFile, stat |-> 0, version |-> 0,
            esc |-> NoCookie, etag |-> <<0, NoCookie>>, validator |-> 0]

\* The local variables of a handler.
PCs == {"idle", "lstat", "open", "fstat", "cookie", "getxattr", "setxattr", "etag",
        "validator", "pread"}
Activations == [pc : PCs, fd : Files \cup {NoFile}, reply : Replies, mtim : Nat]
Idle == [pc |-> "idle", fd |-> NoFile, reply |-> NoReply, mtim |-> 0]

\* The latest step sent the client nothing.
Nothing == [reply |-> NoReply, base |-> NoReply]

Start == 2 * Granularity

Init == /\ now = Start /\ tick = Start
        /\ path \in Files
        /\ \E set \in BOOLEAN : inode = [f \in Files |->
             [version |-> 0, mtim |-> 0, cookie |-> IF set THEN <<f, NoThread>> ELSE NoCookie]]
        /\ thread = [t \in Threads |-> Idle]
        /\ client = NoThread /\ held = NoReply
        /\ last = Nothing

-----------------------------------------------------------------------------
(* The exported file system and its clocks.  A nanosecond is shorter than   *)
(* any system call: those that modify something take time.                  *)

Advance == /\ now < MaxNow /\ now' = now + 1
           /\ tick' \in {tick, now'}
           /\ now' - tick' < Period

Tick == /\ Advance
        /\ UNCHANGED <<path, inode, thread, client, held>> /\ last' = Nothing

\* A write, which may leave the size as it was.
Write(f) == /\ Advance
            /\ inode' = [inode EXCEPT ![f] = [@ EXCEPT !.version = inode[f].version + 1, !.mtim = tick]]
            /\ UNCHANGED <<path, thread, client, held>> /\ last' = Nothing

\* Another file, perhaps with an older mtime, is renamed to the path; or it is removed.
Relink(f) == /\ path # f /\ path' = f
             /\ UNCHANGED <<now, tick, inode, thread, client, held>> /\ last' = Nothing

-----------------------------------------------------------------------------
(* What the handlers compute.                                               *)

Smaller(x, y) == IF x <= y THEN x ELSE y

\* Mutant: the granularity subtracted once, as the comment has it.
ValidatorOnce(mtim) == Smaller(mtim, now - Granularity)

\* Mutant: a file in flux is given the time itself, which never matches either.
ValidatorNow(mtim) == IF mtim <= now - 2 * Granularity THEN mtim ELSE now

monotonic_validator(mtim) == Smaller(mtim, now - 2 * Granularity)

\* The hash of validator and cookie; the size, which is hashed too, may stay the same.
compute_etag(mtim, esc) == <<monotonic_validator(mtim), esc>>

\* The handler in t goes on at pc after assigning to its variables.
At(t, pc) == thread[t].pc = pc
Goto(t, th, pc) == thread' = [thread EXCEPT ![t] = [th EXCEPT !.pc = pc]]

\* The reply r is sent and the handler's descriptors are closed.  The client may keep it.
Send(t, r) ==
  /\ thread' = [thread EXCEPT ![t] = Idle]
  /\ client' = NoThread
  /\ last' = [reply |-> r, base |-> held]
  /\ held' \in {held, IF r.kind \in {"a", "f"} THEN r ELSE held}

-----------------------------------------------------------------------------
(* The handlers up to the cookie: a stats the path, f opens it.             *)

Request(t) == /\ At(t, "idle") /\ client = NoThread
              /\ client' = t
              /\ \E pc \in {"lstat", "open"} : Goto(t, Idle, pc)
              /\ UNCHANGED <<now, tick, path, inode, held>> /\ last' = Nothing

\* A request of another client: what it does to the file is up to its estale_cookie.
Other(t) == /\ At(t, "idle") /\ path # NoFile
            /\ Goto(t, [Idle EXCEPT !.fd = path], "getxattr")
            /\ UNCHANGED <<now, tick, path, inode, client, held>> /\ last' = Nothing

\* The variables of a handler of the given kind after a stat of file f.
Stat(th, kind, f) ==
  [th EXCEPT !.reply = [@ EXCEPT !.kind = kind, !.file = f, !.stat = inode[f].version],
             !.mtim = inode[f].mtim]

Missing(t) == /\ thread[t].pc \in {"lstat", "open"} /\ path = NoFile
              /\ Send(t, NoReply)
              /\ UNCHANGED <<now, tick, path, inode>>

Lstat(t) == /\ At(t, "lstat") /\ path # NoFile
            /\ Goto(t, Stat(thread[t], "a", path), "cookie")
            /\ UNCHANGED <<now, tick, path, inode, client, held>> /\ last' = Nothing

Open(t) == /\ At(t, "open") /\ path # NoFile
           /\ Goto(t, [thread[t] EXCEPT !.fd = path], "fstat")
           /\ UNCHANGED <<now, tick, path, inode, client, held>> /\ last' = Nothing

Fstat(t) == /\ At(t, "fstat")
            /\ Goto(t, Stat(thread[t], "f", thread[t].fd), "cookie")
            /\ UNCHANGED <<now, tick, path, inode, client, held>> /\ last' = Nothing

-----------------------------------------------------------------------------
(* estale_cookie.                                                           *)

\* The cookie is known to be c, that of file f: on to the etag (f) or the validator (a).
\* The rest of another client's request changes nothing.
Cookie(t, f, c) ==
  IF client = t
  THEN Goto(t, [thread[t] EXCEPT !.reply = [@ EXCEPT !.owner = f, !.esc = c]],
            IF thread[t].reply.kind = "f" THEN "etag" ELSE "validator")
  ELSE thread' = [thread EXCEPT ![t] = Idle]

\* estale_cookie_catch: any failing system call makes the cookie 0.
CookieFails(t) == /\ thread[t].pc \in {"cookie", "getxattr", "setxattr"}
                  /\ Cookie(t, thread[t].reply.file, NoCookie)
                  /\ UNCHANGED <<now, tick, path, inode, client, held>> /\ last' = Nothing

\* Handler f passes its descriptor; a has none, and opens the path once more.
CookieOpen(t) ==
  LET f == IF thread[t].fd # NoFile THEN thread[t].fd ELSE path IN
  /\ At(t, "cookie") /\ f # NoFile
  /\ Goto(t, [thread[t] EXCEPT !.fd = f], "getxattr")
  /\ UNCHANGED <<now, tick, path, inode, client, held>> /\ last' = Nothing

\* FS_IOC_GETVERSION, or fgetxattr of an attribute that is set.
fgetxattr(t) == /\ At(t, "getxattr") /\ inode[thread[t].fd].cookie # NoCookie
                /\ Cookie(t, thread[t].fd, inode[thread[t].fd].cookie)
                /\ UNCHANGED <<now, tick, path, inode, client, held>> /\ last' = Nothing

\* ENODATA, under ESC_SETXATTR: the time of day becomes the cookie.
NoData(t) == /\ At(t, "getxattr") /\ inode[thread[t].fd].cookie = NoCookie
             /\ Goto(t, thread[t], "setxattr")
             /\ UNCHANGED <<now, tick, path, inode, client, held>> /\ last' = Nothing

\* Mutant: without XATTR_CREATE.
SetxattrReplaces(t) ==
  LET th == thread[t] IN
  /\ At(t, "setxattr")
  /\ inode' = [inode EXCEPT ![th.fd].cookie = <<th.fd, t>>]
  /\ Cookie(t, th.fd, <<th.fd, t>>)
  /\ UNCHANGED <<now, tick, path, client, held>> /\ last' = Nothing

\* XATTR_CREATE fails with EEXIST if another thread was faster: tryagain, and nobody removes it.
fsetxattr(t) ==
  LET th == thread[t] IN
  /\ At(t, "setxattr")
  /\ IF inode[th.fd].cookie = NoCookie
     THEN /\ inode' = [inode EXCEPT ![th.fd].cookie = <<th.fd, t>>]
          /\ Cookie(t, th.fd, <<th.fd, t>>)
     ELSE /\ Goto(t, th, "getxattr")
          /\ UNCHANGED inode
  /\ UNCHANGED <<now, tick, path, client, held>> /\ last' = Nothing

-----------------------------------------------------------------------------
(* The rest of the handlers.  The clock is read again for each validator.   *)

\* The request's If-None-Match: the etag of the client's copy, if it has one.
Matches(etag) == held.kind = "f" /\ held.etag = etag

\* f: the etag, and not_modified_reply if it is the client's.
Etag(t) ==
  LET th == thread[t]
      etag == compute_etag(th.mtim, th.reply.esc) IN
  /\ At(t, "etag")
  /\ \/ Matches(etag) /\ Send(t, [th.reply EXCEPT !.kind = "304", !.etag = etag])
     \/ /\ ~Matches(etag)
        /\ Goto(t, [th EXCEPT !.reply = [@ EXCEPT !.etag = etag]], "validator")
        /\ UNCHANGED <<client, held>> /\ last' = Nothing
  /\ UNCHANGED <<now, tick, path, inode>>

\* f: the validator, before the file is read.
Validate(t) ==
  LET th == thread[t] IN
  /\ At(t, "validator") /\ th.reply.kind = "f"
  /\ Goto(t, [th EXCEPT !.reply = [@ EXCEPT !.validator = monotonic_validator(th.mtim)]], "pread")
  /\ UNCHANGED <<now, tick, path, inode, client, held>> /\ last' = Nothing

\* f: pread and f_reply.
Pread(t) == /\ At(t, "pread")
            /\ Send(t, [thread[t].reply EXCEPT !.version = inode[thread[t].fd].version])
            /\ UNCHANGED <<now, tick, path, inode>>

\* f: pread throws.
PreadFails(t) == /\ At(t, "pread")
                 /\ Send(t, NoReply)
                 /\ UNCHANGED <<now, tick, path, inode>>

\* a: the validator and a_reply.
AReply(t) ==
  LET th == thread[t] IN
  /\ At(t, "validator") /\ th.reply.kind = "a"
  /\ Send(t, [th.reply EXCEPT !.validator = monotonic_validator(th.mtim)])
  /\ UNCHANGED <<now, tick, path, inode>>

Step(t) == \/ Missing(t) \/ Lstat(t) \/ Open(t) \/ Fstat(t)
           \/ CookieFails(t) \/ CookieOpen(t)
           \/ fgetxattr(t) \/ NoData(t) \/ fsetxattr(t)
           \/ Etag(t) \/ Validate(t) \/ Pread(t) \/ PreadFails(t) \/ AReply(t)

Next == \/ Tick
        \/ \E f \in Files : Write(f)
        \/ \E f \in Files \cup {NoFile} : Relink(f)
        \/ \E t \in Threads : Request(t) \/ Other(t) \/ Step(t)

Spec == Init /\ [][Next]_vars

-----------------------------------------------------------------------------
(* Properties.                                                              *)

\* Types; a thread that handles nothing has no descriptor, and one past the open of f has
\* the descriptor of the file that it stats.
TypeOK ==
  /\ now \in Nat /\ tick \in Nat /\ path \in Files \cup {NoFile}
  /\ inode \in [Files -> [version : Nat, mtim : Nat, cookie : Cookies \cup {NoCookie}]]
  /\ thread \in [Threads -> Activations]
  /\ client \in Threads \cup {NoThread}
  /\ held \in Replies /\ last \in [reply : Replies, base : Replies]
  /\ \A t \in Threads :
       /\ thread[t].pc \in {"idle", "lstat", "open"} => thread[t].fd = NoFile
       /\ thread[t].pc \in {"fstat", "getxattr", "setxattr", "etag", "pread"} => thread[t].fd # NoFile

\* No modification is hidden (docs/Fs123Protocol:348, the validator "must have the property
\* that it changes whenever the file's content changes").  A client that holds content of a
\* file, and whose later request is answered with a validator that has not grown, or with
\* "304 Not Modified", has missed no write that came before the answer's stat; and 304 is
\* not about another inode, unless the cookie was not to be had.  That takes the
\* subtraction of the granularity and the order of fstat, clock and pread.
NothingHidden ==
  LET r == last.reply
      b == last.base IN
  r.kind # "none" /\ b.kind = "f" =>
    /\ r.kind = "304" /\ r.esc # NoCookie => r.file = b.file
    /\ r.file = b.file => \/ r.kind # "304" /\ r.validator > b.validator
                          \/ r.stat <= b.version

\* A cookie is that of the inode whose descriptor it was read from, for good: threads that
\* set the attribute at the same time agree on the one that stays.  Handler f takes it from
\* the file that it reads.  (Handler a opens the path again, and may find another file.)
OneCookie ==
  \A r \in {held, last.reply} :
    /\ r.esc # NoCookie => r.esc = inode[r.owner].cookie
    /\ r.kind = "f" => r.owner = r.file

\* "Validators created by an fs123 server must be monotonically increasing in time."
\* (docs/Fs123Protocol:448), for the replies of one inode: a client takes one that is smaller
\* than what it has for stale, and ends with ESTALE if the server repeats it.
Monotonic ==
  LET r == last.reply
      b == last.base IN
  r.kind \in {"a", "f"} /\ b.kind \in {"a", "f"} /\ r.file = b.file => r.validator >= b.validator
=============================================================================
