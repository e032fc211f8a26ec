---------------------------- MODULE Exportd_proofs ----------------------------
(***************************************************************************)
(* The properties of module Exportd, for any number of threads and files,   *)
(* any clock and any granularity: TypeOK, OneCookie, Monotonic, and, if the *)
(* granularity is right (Fine), NothingHidden.                              *)
(*                                                                          *)
(* None of them is inductive, since they speak of the moment of a reply     *)
(* only.  Cookied and Vouched say what every reply has to do with the inode *)
(* as it is now: its cookie is the inode's, its validator is neither above  *)
(* the inode's mtime nor in the last two granules.  Noticed is the reason   *)
(* why no write is hidden: a write that came after the pread of what the    *)
(* client holds has an mtime beyond its validator.  Underway, NotBack and   *)
(* Saw carry this over to the client's next request, from its stat on.      *)
(* All but the environment's steps change one thread: Move and Sends reduce *)
(* them to what the invariant says of that thread.                          *)
(*                                                                          *)
(* Then the properties of module Server, in whose threads the handlers run, *)
(* for any configuration: ServerTypeOK, OneReply and ValidUntilShutdown.    *)
(* OnceInv and Held are what makes them inductive.                          *)
(***************************************************************************)
EXTENDS Exportd, Server, Sequences, TLAPS

-----------------------------------------------------------------------------
(* The inductive invariant.                                                 *)

\* The kernel stamps at least one time in every Period, and mtimes do not run ahead.
Clocks == /\ now >= Start /\ tick <= now /\ now - tick < Period
          /\ \A f \in Files : inode[f].mtim <= tick

\* A cookie tells its inode.
Tagged == \A f \in Files : inode[f].cookie # NoCookie => inode[f].cookie[1] = f

\* The places of the client's request, apart from those it shares with others.
ClientPCs == {"lstat", "open", "fstat", "cookie", "etag", "validator", "pread"}
PastStat == {"cookie", "getxattr", "setxattr", "etag", "validator", "pread"}
PastCookie == {"etag", "validator", "pread"}

\* What thread t is doing: where its handler has got to, and with which file.
Place(t) ==
  LET th == thread[t] IN
  /\ th.pc \in ClientPCs => client = t
  /\ client = t => th.pc # "idle"
  /\ client = t /\ th.pc \in PastStat =>
       th.reply.kind \in {"a", "f"} /\ th.reply.file \in Files
  /\ th.reply.kind = "f" => th.fd = th.reply.file
  /\ th.pc \in PastCookie /\ th.reply.kind = "f" => th.reply.owner = th.reply.file
  /\ th.pc \in {"etag", "pread"} => th.reply.kind = "f"
  /\ th.pc \notin PastStat => th.reply = NoReply

\* The cookie of a reply is its owner's.
CookieOf(r) == r.esc # NoCookie => r.owner \in Files /\ r.esc = inode[r.owner].cookie

Cookied == /\ CookieOf(held)
           /\ CookieOf(last.reply)
           /\ last.reply.kind = "f" => last.reply.owner = last.reply.file

\* What a reply vouches for, against its inode: its validator is not ahead of the inode,
\* and that of its etag, which was taken before, is not ahead of the reply's.
Vouches(r) ==
  /\ r.file \in Files
  /\ r.validator <= now - 2 * Granularity
  /\ r.validator <= inode[r.file].mtim
  /\ r.kind = "f" => /\ r.owner = r.file
                     /\ r.etag[1] <= r.validator /\ r.etag[2] = r.esc

Vouched == held.kind \in {"a", "f"} => Vouches(held)

\* The validators under way in t.
Underway(t) ==
  LET th == thread[t] IN
  client = t /\ th.pc \in PastStat =>
    /\ th.mtim <= inode[th.reply.file].mtim
    /\ th.pc \in {"validator", "pread"} /\ th.reply.kind = "f" =>
         /\ th.reply.etag[1] <= th.mtim /\ th.reply.etag[1] <= now - 2 * Granularity
         /\ th.reply.etag[2] = th.reply.esc
    /\ th.pc = "pread" => /\ th.reply.validator <= th.mtim
                          /\ th.reply.validator <= now - 2 * Granularity
                          /\ th.reply.etag[1] <= th.reply.validator

\* The client's request against what it holds: validators of one file do not go back.
NotBack(t) ==
  LET th == thread[t] IN
  client = t /\ th.pc \in PastStat /\ held.kind \in {"a", "f"} /\ th.reply.file = held.file =>
    /\ held.validator <= th.mtim
    /\ th.pc = "pread" => held.validator <= th.reply.validator

\* A granularity that is long enough for the kernel's clock.
Fine == Period <= 2 * Granularity

\* Later than the validator of what the client holds.
Beyond(m) == held.validator < m /\ held.validator < now - 2 * Granularity

\* The client's next request, if it saw a write that came after the client's content.
Saw(t) ==
  LET th == thread[t] IN
  /\ client = t /\ th.pc \in PastStat
  /\ held.kind = "f" /\ th.reply.file = held.file /\ th.reply.stat > held.version
  => /\ Beyond(th.mtim)
     /\ th.pc = "pread" => held.validator < th.reply.validator

\* A write after the client's content has an mtime beyond its validator.
Noticed ==
  /\ held.kind = "f" /\ inode[held.file].version > held.version => Beyond(inode[held.file].mtim)
  /\ \A t \in Threads : Saw(t)

\* All that the invariant says of the handler in t.
Handler(t) == Place(t) /\ CookieOf(thread[t].reply) /\ Underway(t) /\ NotBack(t)

IInv == /\ TypeOK /\ Clocks /\ Tagged /\ Cookied /\ Vouched
        /\ \A t \in Threads : Handler(t)

-----------------------------------------------------------------------------
(* Records: what an update of a reply or of a handler's variables leaves.   *)

LEMMA NoReplyType == NoReply \in Replies /\ Idle \in Activations
BY DEF NoReply, Replies, Idle, Activations, PCs

LEMMA EtagReply ==
  ASSUME NEW r \in Replies, NEW e \in Nat \X (Cookies \cup {NoCookie})
  PROVE  LET q == [r EXCEPT !.etag = e] IN
         /\ q \in Replies
         /\ q.kind = r.kind /\ q.file = r.file /\ q.stat = r.stat
         /\ q.owner = r.owner /\ q.version = r.version /\ q.esc = r.esc
         /\ q.etag = e /\ q.validator = r.validator
BY DEF Replies

LEMMA ValidatorReply ==
  ASSUME NEW r \in Replies, NEW v \in Nat
  PROVE  LET q == [r EXCEPT !.validator = v] IN
         /\ q \in Replies
         /\ q.kind = r.kind /\ q.file = r.file /\ q.stat = r.stat
         /\ q.owner = r.owner /\ q.version = r.version /\ q.esc = r.esc
         /\ q.etag = r.etag /\ q.validator = v
BY DEF Replies

LEMMA ContentReply ==
  ASSUME NEW r \in Replies, NEW v \in Nat
  PROVE  LET q == [r EXCEPT !.version = v] IN
         /\ q \in Replies
         /\ q.kind = r.kind /\ q.file = r.file /\ q.stat = r.stat
         /\ q.owner = r.owner /\ q.version = v /\ q.esc = r.esc
         /\ q.etag = r.etag /\ q.validator = r.validator
BY DEF Replies

\* A step of thread t to pc, after its variables have become those of th.
LEMMA Moves ==
  ASSUME TypeOK, NEW t \in Threads, NEW th \in Activations, NEW pc \in PCs, Goto(t, th, pc)
  PROVE  /\ thread' \in [Threads -> Activations]
         /\ thread'[t].pc = pc /\ thread'[t].fd = th.fd
         /\ thread'[t].reply = th.reply /\ thread'[t].mtim = th.mtim
         /\ \A u \in Threads : u # t => thread'[u] = thread[u]
<1>1. [th EXCEPT !.pc = pc] \in Activations
  BY DEF Activations
<1> QED
  BY <1>1 DEF TypeOK, Goto, Activations

\* A thread that ends its handler.
LEMMA Ends ==
  ASSUME TypeOK, NEW t \in Threads, thread' = [thread EXCEPT ![t] = Idle]
  PROVE  /\ thread' \in [Threads -> Activations]
         /\ thread'[t].pc = "idle" /\ thread'[t].fd = NoFile
         /\ thread'[t].reply = NoReply /\ thread'[t].mtim = 0
         /\ \A u \in Threads : u # t => thread'[u] = thread[u]
BY NoReplyType DEF TypeOK, Idle, Activations

-----------------------------------------------------------------------------
(* What the steps do to the thread that takes them.                         *)

LEMMA Stats ==
  ASSUME TypeOK, NEW t \in Threads, NEW kind \in {"a", "f"}, NEW f \in Files,
         Goto(t, Stat(thread[t], kind, f), "cookie")
  PROVE  /\ thread' \in [Threads -> Activations]
         /\ thread'[t].pc = "cookie" /\ thread'[t].fd = thread[t].fd
         /\ thread'[t].mtim = inode[f].mtim
         /\ thread'[t].reply.kind = kind /\ thread'[t].reply.file = f
         /\ thread'[t].reply.stat = inode[f].version
         /\ thread'[t].reply.owner = thread[t].reply.owner
         /\ thread'[t].reply.esc = thread[t].reply.esc
         /\ thread'[t].reply.etag = thread[t].reply.etag
         /\ \A u \in Threads : u # t => thread'[u] = thread[u]
<1> DEFINE q == [thread[t].reply EXCEPT !.kind = kind, !.file = f, !.stat = inode[f].version]
           n == Stat(thread[t], kind, f)
<1>1. thread[t] \in Activations /\ thread[t].reply \in Replies
      /\ inode[f].version \in Nat /\ inode[f].mtim \in Nat
  BY DEF TypeOK, Activations
<1>2. q \in Replies /\ q.kind = kind /\ q.file = f /\ q.stat = inode[f].version
      /\ q.owner = thread[t].reply.owner /\ q.esc = thread[t].reply.esc
      /\ q.etag = thread[t].reply.etag
  BY <1>1 DEF Replies
<1>3. n \in Activations /\ n.fd = thread[t].fd /\ n.reply = q /\ n.mtim = inode[f].mtim
  <2>1. n = [thread[t] EXCEPT !.reply = q, !.mtim = inode[f].mtim]
    BY DEF Stat
  <2> QED
    BY <1>1, <1>2, <2>1 DEF Activations
<1>4. "cookie" \in PCs
  BY DEF PCs
<1> HIDE DEF q, n
<1>5. Goto(t, n, "cookie")
  BY DEF n
<1> QED
  BY <1>2, <1>3, <1>4, <1>5, Moves

LEMMA GetsFd ==
  ASSUME TypeOK, NEW t \in Threads, NEW f \in Files, NEW pc \in PCs,
         Goto(t, [thread[t] EXCEPT !.fd = f], pc)
  PROVE  /\ thread' \in [Threads -> Activations]
         /\ thread'[t].pc = pc /\ thread'[t].fd = f
         /\ thread'[t].reply = thread[t].reply /\ thread'[t].mtim = thread[t].mtim
         /\ \A u \in Threads : u # t => thread'[u] = thread[u]
<1> DEFINE n == [thread[t] EXCEPT !.fd = f]
<1>1. n \in Activations /\ n.fd = f /\ n.reply = thread[t].reply /\ n.mtim = thread[t].mtim
  BY DEF TypeOK, Activations
<1> QED
  BY <1>1, Moves

LEMMA GetsCookie ==
  ASSUME TypeOK, NEW t \in Threads, NEW f \in Files \cup {NoFile},
         NEW c \in Cookies \cup {NoCookie}, Cookie(t, f, c), client = t
  PROVE  /\ thread' \in [Threads -> Activations]
         /\ thread'[t].pc = IF thread[t].reply.kind = "f" THEN "etag" ELSE "validator"
         /\ thread'[t].fd = thread[t].fd /\ thread'[t].mtim = thread[t].mtim
         /\ thread'[t].reply.kind = thread[t].reply.kind
         /\ thread'[t].reply.file = thread[t].reply.file
         /\ thread'[t].reply.stat = thread[t].reply.stat
         /\ thread'[t].reply.owner = f /\ thread'[t].reply.esc = c
         /\ thread'[t].reply.etag = thread[t].reply.etag
         /\ \A u \in Threads : u # t => thread'[u] = thread[u]
<1> DEFINE q == [thread[t].reply EXCEPT !.owner = f, !.esc = c]
           n == [thread[t] EXCEPT !.reply = q]
           pc == IF thread[t].reply.kind = "f" THEN "etag" ELSE "validator"
<1>1. thread[t] \in Activations /\ thread[t].reply \in Replies
  BY DEF TypeOK, Activations
<1>2. q \in Replies /\ q.kind = thread[t].reply.kind /\ q.file = thread[t].reply.file
      /\ q.stat = thread[t].reply.stat /\ q.owner = f /\ q.esc = c
      /\ q.etag = thread[t].reply.etag
  BY <1>1 DEF Replies
<1>3. n \in Activations /\ n.fd = thread[t].fd /\ n.reply = q /\ n.mtim = thread[t].mtim
  BY <1>1, <1>2 DEF Activations
<1>4. pc \in PCs
  BY DEF PCs
<1>5. Goto(t, n, pc)
  BY DEF Cookie
<1> HIDE DEF q, n, pc
<1>6. /\ thread' \in [Threads -> Activations]
      /\ thread'[t].pc = pc /\ thread'[t].fd = n.fd
      /\ thread'[t].reply = n.reply /\ thread'[t].mtim = n.mtim
      /\ \A u \in Threads : u # t => thread'[u] = thread[u]
  BY <1>3, <1>4, <1>5, Moves
<1> QED
  BY <1>2, <1>3, <1>6 DEF pc

\* A validator is neither above the mtime nor within the last two granules.
LEMMA ValidatorIs ==
  ASSUME TypeOK, Clocks, NEW m \in Nat
  PROVE  /\ monotonic_validator(m) \in Nat
         /\ monotonic_validator(m) <= m
         /\ monotonic_validator(m) <= now - 2 * Granularity
         /\ \A v \in Nat : /\ v <= m /\ v <= now - 2 * Granularity => v <= monotonic_validator(m)
                           /\ v < m /\ v < now - 2 * Granularity => v < monotonic_validator(m)
BY ClockAssumption DEF TypeOK, Clocks, Start, monotonic_validator, Smaller

LEMMA GetsEtag ==
  ASSUME TypeOK, Clocks, NEW t \in Threads,
         Goto(t, [thread[t] EXCEPT !.reply = [@ EXCEPT !.etag =
                    compute_etag(thread[t].mtim, thread[t].reply.esc)]], "validator")
  PROVE  /\ thread' \in [Threads -> Activations]
         /\ thread'[t].pc = "validator"
         /\ thread'[t].fd = thread[t].fd /\ thread'[t].mtim = thread[t].mtim
         /\ thread'[t].reply.kind = thread[t].reply.kind
         /\ thread'[t].reply.file = thread[t].reply.file
         /\ thread'[t].reply.stat = thread[t].reply.stat
         /\ thread'[t].reply.owner = thread[t].reply.owner
         /\ thread'[t].reply.esc = thread[t].reply.esc
         /\ thread'[t].reply.etag[1] = monotonic_validator(thread[t].mtim)
         /\ thread'[t].reply.etag[2] = thread[t].reply.esc
         /\ \A u \in Threads : u # t => thread'[u] = thread[u]
<1> DEFINE e == compute_etag(thread[t].mtim, thread[t].reply.esc)
           q == [thread[t].reply EXCEPT !.etag = e]
           n == [thread[t] EXCEPT !.reply = q]
<1>1. thread[t] \in Activations /\ thread[t].reply \in Replies /\ thread[t].mtim \in Nat
      /\ thread[t].reply.esc \in Cookies \cup {NoCookie}
  BY DEF TypeOK, Activations, Replies
<1>2. e \in Nat \X (Cookies \cup {NoCookie}) /\ e[1] = monotonic_validator(thread[t].mtim)
      /\ e[2] = thread[t].reply.esc
  BY <1>1, ValidatorIs DEF compute_etag
<1> HIDE DEF e
<1>3. q \in Replies /\ q.kind = thread[t].reply.kind /\ q.file = thread[t].reply.file
      /\ q.stat = thread[t].reply.stat /\ q.owner = thread[t].reply.owner
      /\ q.esc = thread[t].reply.esc /\ q.etag = e
  BY <1>1, <1>2, EtagReply
<1>4. n \in Activations /\ n.fd = thread[t].fd /\ n.reply = q /\ n.mtim = thread[t].mtim
  BY <1>1, <1>3 DEF Activations
<1>5. "validator" \in PCs
  BY DEF PCs
<1>6. Goto(t, n, "validator")
  BY DEF e
<1> HIDE DEF q, n
<1> QED
  BY <1>2, <1>3, <1>4, <1>5, <1>6, Moves

LEMMA GetsValidator ==
  ASSUME TypeOK, Clocks, NEW t \in Threads, Validate(t)
  PROVE  /\ thread' \in [Threads -> Activations]
         /\ thread'[t].pc = "pread"
         /\ thread'[t].fd = thread[t].fd /\ thread'[t].mtim = thread[t].mtim
         /\ thread'[t].reply.kind = thread[t].reply.kind
         /\ thread'[t].reply.file = thread[t].reply.file
         /\ thread'[t].reply.stat = thread[t].reply.stat
         /\ thread'[t].reply.owner = thread[t].reply.owner
         /\ thread'[t].reply.esc = thread[t].reply.esc
         /\ thread'[t].reply.etag = thread[t].reply.etag
         /\ thread'[t].reply.validator = monotonic_validator(thread[t].mtim)
         /\ \A u \in Threads : u # t => thread'[u] = thread[u]
<1> DEFINE v == monotonic_validator(thread[t].mtim)
           q == [thread[t].reply EXCEPT !.validator = v]
           n == [thread[t] EXCEPT !.reply = q]
<1>1. thread[t] \in Activations /\ thread[t].reply \in Replies /\ thread[t].mtim \in Nat
  BY DEF TypeOK, Activations
<1>2. v \in Nat
  BY <1>1, ValidatorIs
<1> HIDE DEF v
<1>3. q \in Replies /\ q.kind = thread[t].reply.kind /\ q.file = thread[t].reply.file
      /\ q.stat = thread[t].reply.stat /\ q.owner = thread[t].reply.owner
      /\ q.esc = thread[t].reply.esc /\ q.etag = thread[t].reply.etag /\ q.validator = v
  BY <1>1, <1>2, ValidatorReply
<1>4. n \in Activations /\ n.fd = thread[t].fd /\ n.reply = q /\ n.mtim = thread[t].mtim
  BY <1>1, <1>3 DEF Activations
<1>5. "pread" \in PCs
  BY DEF PCs
<1>6. Goto(t, n, "pread")
  BY DEF v, Validate
<1> HIDE DEF q, n
<1> QED
  BY <1>3, <1>4, <1>5, <1>6, Moves DEF v
-----------------------------------------------------------------------------
(* Steps that change the variables of one thread, and perhaps a cookie.     *)

\* The cookie that an inode has stays, and no attribute of it changes otherwise.
SameInodes ==
  /\ inode' \in [Files -> [version : Nat, mtim : Nat, cookie : Cookies \cup {NoCookie}]]
  /\ \A f \in Files : /\ inode'[f].version = inode[f].version
                      /\ inode'[f].mtim = inode[f].mtim
                      /\ inode[f].cookie # NoCookie => inode'[f].cookie = inode[f].cookie
                      /\ inode'[f].cookie # NoCookie => inode'[f].cookie[1] = f

\* The descriptor of a handler, as in TypeOK.
Descriptor(t) ==
  /\ thread[t].pc \in {"idle", "lstat", "open"} => thread[t].fd = NoFile
  /\ thread[t].pc \in {"fstat", "getxattr", "setxattr", "etag", "pread"} => thread[t].fd # NoFile

\* A step of thread t in which it does not reply.
Moved(t) ==
  /\ UNCHANGED <<now, tick, path, held>> /\ last' = Nothing
  /\ SameInodes
  /\ client' = client \/ (client = NoThread /\ client' = t)
  /\ thread' \in [Threads -> Activations]
  /\ \A u \in Threads : u # t => thread'[u] = thread[u]

LEMMA NothingIs ==
  /\ Nothing \in [reply : Replies, base : Replies]
  /\ Nothing.reply = NoReply /\ NoReply.kind = "none" /\ NoReply.esc = NoCookie
BY NoReplyType DEF Nothing, NoReply

\* Cookies that are there do not change.
LEMMA CookiesStay ==
  ASSUME SameInodes, NEW r, CookieOf(r)
  PROVE  r.esc # NoCookie => r.owner \in Files /\ r.esc = inode'[r.owner].cookie
BY DEF SameInodes, CookieOf

LEMMA Others ==
  ASSUME IInv, NEW t \in Threads, Moved(t), NEW u \in Threads, u # t
  PROVE  Handler(u)' /\ Descriptor(u)' /\ (Saw(u) => Saw(u)')
<1>1. /\ thread'[u] = thread[u] /\ (client' = u <=> client = u)
      /\ now' = now /\ held' = held
  BY ThreadsAssumption DEF Moved
<1>2. Handler(u) /\ Descriptor(u) /\ thread[u].reply \in Replies /\ thread[u].mtim \in Nat
  BY DEF IInv, TypeOK, Descriptor, Activations
<1>3. Place(u)' /\ Descriptor(u)'
  BY <1>1, <1>2 DEF Handler, Place, Descriptor
<1>4. CookieOf(thread[u].reply)'
  BY <1>1, <1>2, CookiesStay DEF Moved, Handler, CookieOf
<1>5. client = u /\ thread[u].pc \in PastStat => thread[u].reply.file \in Files
  BY <1>2 DEF Handler, Place
<1>6. Underway(u)'
  BY <1>1, <1>2, <1>5 DEF Moved, SameInodes, Handler, Underway
<1>7. NotBack(u)'
  BY <1>1, <1>2 DEF Handler, NotBack
<1>8. Saw(u) => Saw(u)'
  BY <1>1 DEF Saw, Beyond
<1> QED
  BY <1>3, <1>4, <1>6, <1>7, <1>8 DEF Handler

\* It is enough to look at the thread itself.
LEMMA Move ==
  ASSUME IInv, NEW t \in Threads, Moved(t), Handler(t)', Descriptor(t)'
  PROVE  IInv'
<1>1. \A u \in Threads : Handler(u)' /\ Descriptor(u)'
  BY Others, Zenon
<1>2. TypeOK'
  <2>1. /\ now' \in Nat /\ tick' \in Nat /\ path' \in Files \cup {NoFile} /\ held' \in Replies
        /\ client' \in Threads \cup {NoThread}
    BY DEF IInv, TypeOK, Moved
  <2>2. last' \in [reply : Replies, base : Replies]
    BY NothingIs DEF Moved
  <2>3. /\ inode' \in [Files -> [version : Nat, mtim : Nat, cookie : Cookies \cup {NoCookie}]]
        /\ thread' \in [Threads -> Activations]
    BY DEF Moved, SameInodes
  <2> QED
    BY <1>1, <2>1, <2>2, <2>3 DEF TypeOK, Descriptor
<1>3. Clocks'
  BY DEF IInv, Clocks, Moved, SameInodes
<1>4. Tagged'
  BY DEF Tagged, Moved, SameInodes
<1>5. Cookied'
  <2>1. CookieOf(held)'
    BY CookiesStay DEF IInv, Cookied, Moved, CookieOf
  <2> QED
    BY <2>1, NothingIs DEF Cookied, CookieOf, Moved
<1>6. Vouched'
  BY DEF IInv, Vouched, Vouches, Moved, SameInodes
<1> QED
  BY <1>1, <1>2, <1>3, <1>4, <1>5, <1>6 DEF IInv

LEMMA MoveNoticed ==
  ASSUME IInv, Noticed, NEW t \in Threads, Moved(t), Saw(t)'
  PROVE  Noticed'
<1>1. \A u \in Threads : Saw(u)'
  BY Others DEF Noticed
<1>2. held.kind = "f" => held.file \in Files
  BY DEF IInv, Vouched, Vouches
<1>3. (held.kind = "f" /\ inode[held.file].version > held.version => Beyond(inode[held.file].mtim))'
  BY <1>2 DEF Noticed, Beyond, Moved, SameInodes
<1> QED
  BY <1>1, <1>3 DEF Noticed

\* An inode that does not change at all.
LEMMA InodesSame ==
  ASSUME TypeOK, Tagged, UNCHANGED inode
  PROVE  SameInodes
BY DEF TypeOK, Tagged, SameInodes

\* The two in one, for the handler's steps.
LEMMA MoveBoth ==
  ASSUME IInv, NEW t \in Threads, Moved(t), Handler(t)', Descriptor(t)', Noticed => Saw(t)'
  PROVE  IInv' /\ (Noticed => Noticed')
BY Move, MoveNoticed

\* What the invariant says of one thread, and its types.
LEMMA OfThread ==
  ASSUME IInv, NEW t \in Threads
  PROVE  /\ TypeOK /\ Clocks /\ Tagged
         /\ thread[t] \in Activations /\ thread[t].reply \in Replies /\ thread[t].mtim \in Nat
         /\ thread[t].fd \in Files \cup {NoFile} /\ thread[t].reply.file \in Files \cup {NoFile}
         /\ Place(t) /\ CookieOf(thread[t].reply) /\ Underway(t) /\ NotBack(t)
<1>1. /\ TypeOK /\ Clocks /\ Tagged
      /\ Place(t) /\ CookieOf(thread[t].reply) /\ Underway(t) /\ NotBack(t)
  BY DEF IInv, Handler
<1>2. thread[t] \in Activations
  BY <1>1 DEF TypeOK
<1>3. /\ thread[t].reply \in Replies /\ thread[t].mtim \in Nat /\ thread[t].fd \in Files \cup {NoFile}
  BY <1>2 DEF Activations
<1>4. thread[t].reply.file \in Files \cup {NoFile}
  BY <1>3 DEF Replies
<1> QED
  BY <1>1, <1>2, <1>3, <1>4

LEMMA RequestKeeps ==
  ASSUME IInv, NEW t \in Threads, Request(t)
  PROVE  IInv' /\ (Noticed => Noticed')
<1> USE OfThread
<1>0. PICK pc \in {"lstat", "open"} : Goto(t, Idle, pc)
  BY DEF Request
<1>1. Idle \in Activations /\ pc \in PCs /\ Idle.fd = NoFile /\ Idle.reply = NoReply
  BY NoReplyType DEF PCs, Idle
<1>2. /\ thread' \in [Threads -> Activations]
      /\ thread'[t].pc = pc /\ thread'[t].fd = NoFile /\ thread'[t].reply = NoReply
      /\ \A u \in Threads : u # t => thread'[u] = thread[u]
  BY <1>0, <1>1, Moves, Zenon
<1>3. Moved(t) /\ client' = t
  BY <1>2, InodesSame DEF Moved, Request
<1>4. Handler(t)'
  <2>1. Place(t)'
    BY <1>2, <1>3, NothingIs DEF Place, ClientPCs, PastStat, PastCookie
  <2>2. CookieOf(thread[t].reply)'
    BY <1>2, NothingIs DEF CookieOf
  <2>3. Underway(t)' /\ NotBack(t)'
    BY <1>2 DEF Underway, NotBack, PastStat
  <2> QED
    BY <2>1, <2>2, <2>3 DEF Handler
<1>5. Descriptor(t)' /\ Saw(t)'
  BY <1>2 DEF Descriptor, Saw, PastStat
<1> QED
  BY <1>3, <1>4, <1>5, MoveBoth

LEMMA OtherKeeps ==
  ASSUME IInv, NEW t \in Threads, Other(t)
  PROVE  IInv' /\ (Noticed => Noticed')
<1> USE OfThread
<1> DEFINE n == [Idle EXCEPT !.fd = path]
<1>1. n \in Activations /\ "getxattr" \in PCs /\ n.fd = path /\ n.reply = NoReply
      /\ path \in Files
  BY NoReplyType DEF PCs, Idle, Activations, TypeOK, Other
<1>2. Goto(t, n, "getxattr") /\ thread[t].pc = "idle"
  BY DEF Other, At
<1> HIDE DEF n
<1>3. /\ thread' \in [Threads -> Activations]
      /\ thread'[t].pc = "getxattr" /\ thread'[t].fd = path /\ thread'[t].reply = NoReply
      /\ \A u \in Threads : u # t => thread'[u] = thread[u]
  BY <1>1, <1>2, Moves
<1>4. Moved(t) /\ client' = client
  BY <1>3, InodesSame DEF Moved, Other
<1>5. client # t
  BY <1>2 DEF Place
<1>6. Handler(t)'
  <2>1. Place(t)'
    BY <1>3, <1>4, <1>5, NothingIs DEF Place, ClientPCs, PastStat, PastCookie
  <2>2. CookieOf(thread[t].reply)'
    BY <1>3, NothingIs DEF CookieOf
  <2>3. Underway(t)' /\ NotBack(t)'
    BY <1>4, <1>5 DEF Underway, NotBack
  <2> QED
    BY <2>1, <2>2, <2>3 DEF Handler
<1>7. Descriptor(t)' /\ Saw(t)'
  BY <1>1, <1>3, <1>4, <1>5, FilesAssumption DEF Descriptor, Saw
<1> QED
  BY <1>4, <1>6, <1>7, MoveBoth

\* lstat and fstat.
LEMMA StatKeeps ==
  ASSUME IInv, NEW t \in Threads, NEW kind \in {"a", "f"}, NEW f \in Files,
         kind = "f" => thread[t].fd = f,
         thread[t].pc \in {"lstat", "fstat"}, Goto(t, Stat(thread[t], kind, f), "cookie"),
         UNCHANGED <<now, tick, path, inode, client, held>>, last' = Nothing
  PROVE  IInv' /\ (Noticed => Noticed')
<1> USE OfThread
<1>1. /\ thread' \in [Threads -> Activations]
      /\ thread'[t].pc = "cookie" /\ thread'[t].fd = thread[t].fd
      /\ thread'[t].mtim = inode[f].mtim
      /\ thread'[t].reply.kind = kind /\ thread'[t].reply.file = f
      /\ thread'[t].reply.stat = inode[f].version
      /\ thread'[t].reply.esc = thread[t].reply.esc
      /\ \A u \in Threads : u # t => thread'[u] = thread[u]
  BY Stats
<1>2. Moved(t)
  BY <1>1, InodesSame DEF Moved
<1>3. client = t /\ thread[t].reply = NoReply
  BY DEF Place, ClientPCs, PastStat
<1>4. Handler(t)'
  <2>1. Place(t)'
    BY <1>1, <1>3 DEF Place, ClientPCs, PastStat, PastCookie
  <2>2. CookieOf(thread[t].reply)'
    BY <1>1, <1>3, NothingIs DEF CookieOf
  <2>3. Underway(t)'
    BY <1>1 DEF Underway, TypeOK
  <2>4. NotBack(t)'
    <3>1. held.kind \in {"a", "f"} /\ f = held.file => held.validator <= inode[f].mtim
      BY DEF IInv, Vouched, Vouches
    <3> QED
      BY <1>1, <3>1 DEF NotBack
  <2> QED
    BY <2>1, <2>2, <2>3, <2>4 DEF Handler
<1>5. Descriptor(t)'
  BY <1>1 DEF Descriptor
<1>6. Noticed => Saw(t)'
  BY <1>1 DEF Noticed, Saw, Beyond
<1> QED
  BY <1>2, <1>4, <1>5, <1>6, MoveBoth

LEMMA OpenKeeps ==
  ASSUME IInv, NEW t \in Threads, Open(t)
  PROVE  IInv' /\ (Noticed => Noticed')
<1> USE OfThread
<1>1. path \in Files /\ "fstat" \in PCs /\ thread[t].pc = "open"
  BY DEF TypeOK, Open, PCs, At
<1>2. /\ thread' \in [Threads -> Activations]
      /\ thread'[t].pc = "fstat" /\ thread'[t].fd = path
      /\ thread'[t].reply = thread[t].reply
      /\ \A u \in Threads : u # t => thread'[u] = thread[u]
  BY <1>1, GetsFd DEF Open
<1>3. Moved(t) /\ client' = client
  BY <1>2, InodesSame DEF Moved, Open
<1>4. client = t /\ thread[t].reply = NoReply
  BY <1>1 DEF Place, ClientPCs, PastStat
<1>5. Handler(t)'
  <2>1. Place(t)'
    BY <1>2, <1>3, <1>4, NothingIs DEF Place, ClientPCs, PastStat, PastCookie
  <2>2. CookieOf(thread[t].reply)'
    BY <1>2, <1>4, NothingIs DEF CookieOf
  <2>3. Underway(t)' /\ NotBack(t)'
    BY <1>2 DEF Underway, NotBack, PastStat
  <2> QED
    BY <2>1, <2>2, <2>3 DEF Handler
<1>6. Descriptor(t)' /\ Saw(t)'
  BY <1>1, <1>2, FilesAssumption DEF Descriptor, Saw, PastStat
<1> QED
  BY <1>3, <1>5, <1>6, MoveBoth

-----------------------------------------------------------------------------
(* estale_cookie.                                                           *)

\* The cookie is known, and is that of f, or was not to be had.
LEMMA CookieKeeps ==
  ASSUME IInv, NEW t \in Threads, thread[t].pc \in {"cookie", "getxattr", "setxattr"},
         NEW f \in Files \cup {NoFile}, NEW c \in Cookies \cup {NoCookie}, Cookie(t, f, c),
         thread[t].reply.kind = "f" => f = thread[t].reply.file,
         c # NoCookie => f \in Files /\ c = inode'[f].cookie,
         SameInodes, UNCHANGED <<now, tick, path, client, held>>, last' = Nothing
  PROVE  IInv' /\ (Noticed => Noticed')
<1> USE OfThread
<1>1. CASE client = t
  <2>1. /\ thread' \in [Threads -> Activations]
        /\ thread'[t].pc = IF thread[t].reply.kind = "f" THEN "etag" ELSE "validator"
        /\ thread'[t].fd = thread[t].fd /\ thread'[t].mtim = thread[t].mtim
        /\ thread'[t].reply.kind = thread[t].reply.kind
        /\ thread'[t].reply.file = thread[t].reply.file
        /\ thread'[t].reply.stat = thread[t].reply.stat
        /\ thread'[t].reply.owner = f /\ thread'[t].reply.esc = c
        /\ \A u \in Threads : u # t => thread'[u] = thread[u]
    BY <1>1, GetsCookie
  <2>2. Moved(t)
    BY <2>1 DEF Moved
  <2>3. thread[t].pc \in PastStat /\ thread[t].reply.kind \in {"a", "f"} /\ thread[t].reply.file \in Files
    BY <1>1 DEF Place, PastStat
  <2>4. Handler(t)'
    <3>1. Place(t)'
      BY <1>1, <2>1, <2>3 DEF Place, ClientPCs, PastStat, PastCookie
    <3>2. CookieOf(thread[t].reply)'
      BY <2>1 DEF CookieOf
    <3>3. Underway(t)'
      BY <1>1, <2>1, <2>3 DEF Underway, SameInodes
    <3>4. NotBack(t)'
      BY <1>1, <2>1, <2>3 DEF NotBack
    <3> QED
      BY <3>1, <3>2, <3>3, <3>4 DEF Handler
  <2>5. Descriptor(t)'
    BY <2>1, <2>3, FilesAssumption DEF Descriptor, Place
  <2>6. Noticed => Saw(t)'
    BY <1>1, <2>1, <2>3 DEF Noticed, Saw, Beyond
  <2> QED
    BY <2>2, <2>4, <2>5, <2>6, MoveBoth
<1>2. CASE client # t
  <2>1. thread' = [thread EXCEPT ![t] = Idle]
    BY <1>2 DEF Cookie
  <2>2. /\ thread' \in [Threads -> Activations]
        /\ thread'[t].pc = "idle" /\ thread'[t].fd = NoFile /\ thread'[t].reply = NoReply
        /\ \A u \in Threads : u # t => thread'[u] = thread[u]
    BY <2>1, Ends
  <2>3. Moved(t)
    BY <2>2 DEF Moved
  <2>4. Handler(t)'
    <3>1. Place(t)'
      BY <1>2, <2>2, NothingIs DEF Place, ClientPCs, PastStat, PastCookie
    <3>2. CookieOf(thread[t].reply)'
      BY <2>2, NothingIs DEF CookieOf
    <3>3. Underway(t)' /\ NotBack(t)'
      BY <1>2 DEF Underway, NotBack
    <3> QED
      BY <3>1, <3>2, <3>3 DEF Handler
  <2>5. Descriptor(t)' /\ Saw(t)'
    BY <1>2, <2>2 DEF Descriptor, Saw
  <2> QED
    BY <2>3, <2>4, <2>5, MoveBoth
<1> QED
  BY <1>1, <1>2

LEMMA CookieFailsKeeps ==
  ASSUME IInv, NEW t \in Threads, CookieFails(t)
  PROVE  IInv' /\ (Noticed => Noticed')
BY OfThread, InodesSame, CookieKeeps DEF CookieFails

LEMMA CookieOpenKeeps ==
  ASSUME IInv, NEW t \in Threads, CookieOpen(t)
  PROVE  IInv' /\ (Noticed => Noticed')
<1> USE OfThread
<1> DEFINE f == IF thread[t].fd # NoFile THEN thread[t].fd ELSE path
<1>1. f \in Files /\ "getxattr" \in PCs /\ thread[t].pc = "cookie"
      /\ Goto(t, [thread[t] EXCEPT !.fd = f], "getxattr")
  BY DEF TypeOK, CookieOpen, PCs, At
<1>2. thread[t].fd # NoFile => f = thread[t].fd
  OBVIOUS
<1> HIDE DEF f
<1>3. /\ thread' \in [Threads -> Activations]
      /\ thread'[t].pc = "getxattr" /\ thread'[t].fd = f
      /\ thread'[t].reply = thread[t].reply /\ thread'[t].mtim = thread[t].mtim
      /\ \A u \in Threads : u # t => thread'[u] = thread[u]
  BY <1>1, GetsFd
<1>4. Moved(t) /\ UNCHANGED <<now, inode, client, held>>
  BY <1>3, InodesSame DEF Moved, CookieOpen
<1>5. client = t /\ thread[t].pc \in PastStat /\ thread[t].reply.file \in Files
      /\ (thread[t].reply.kind = "f" => thread[t].fd = thread[t].reply.file)
  BY <1>1 DEF Place, ClientPCs, PastStat
<1>6. Handler(t)'
  <2>1. Place(t)'
    BY <1>1, <1>2, <1>3, <1>4, <1>5, FilesAssumption DEF Place, ClientPCs, PastStat, PastCookie
  <2>2. CookieOf(thread[t].reply)'
    BY <1>3, <1>4 DEF CookieOf
  <2>3. Underway(t)' /\ NotBack(t)'
    BY <1>1, <1>3, <1>4, <1>5 DEF Underway, NotBack
  <2> QED
    BY <2>1, <2>2, <2>3 DEF Handler
<1>7. Descriptor(t)'
  BY <1>1, <1>3, FilesAssumption DEF Descriptor
<1>8. Noticed => Saw(t)'
  BY <1>3, <1>4, <1>5 DEF Noticed, Saw, Beyond
<1> QED
  BY <1>4, <1>6, <1>7, <1>8, MoveBoth

LEMMA GetxattrKeeps ==
  ASSUME IInv, NEW t \in Threads, fgetxattr(t)
  PROVE  IInv' /\ (Noticed => Noticed')
<1> USE OfThread
<1>1. thread[t].pc = "getxattr" /\ thread[t].fd \in Files
  BY DEF fgetxattr, At, TypeOK
<1>2. inode[thread[t].fd].cookie \in Cookies \cup {NoCookie}
  BY <1>1 DEF TypeOK
<1>3. thread[t].reply.kind = "f" => thread[t].fd = thread[t].reply.file
  BY DEF Place
<1> QED
  BY <1>1, <1>2, <1>3, InodesSame, CookieKeeps DEF fgetxattr

\* Between fgetxattr and fsetxattr.
LEMMA AgainKeeps ==
  ASSUME IInv, NEW t \in Threads, NEW pc \in {"getxattr", "setxattr"},
         thread[t].pc \in {"getxattr", "setxattr"}, Goto(t, thread[t], pc),
         UNCHANGED <<now, tick, path, inode, client, held>>, last' = Nothing
  PROVE  IInv' /\ (Noticed => Noticed')
<1> USE OfThread
<1>1. /\ thread' \in [Threads -> Activations]
      /\ thread'[t].pc = pc /\ thread'[t].fd = thread[t].fd
      /\ thread'[t].reply = thread[t].reply /\ thread'[t].mtim = thread[t].mtim
      /\ \A u \in Threads : u # t => thread'[u] = thread[u]
  <2>1. pc \in PCs
    BY DEF PCs
  <2> QED
    BY <2>1, Moves
<1>2. Moved(t)
  BY <1>1, InodesSame DEF Moved
<1>3. thread[t].pc \in PastStat /\ thread[t].fd # NoFile
  BY DEF PastStat, TypeOK
<1>4. Handler(t)'
  <2>1. Place(t)'
    BY <1>1, <1>3 DEF Place, ClientPCs, PastStat, PastCookie
  <2>2. CookieOf(thread[t].reply)'
    BY <1>1 DEF CookieOf
  <2>3. Underway(t)' /\ NotBack(t)'
    BY <1>1, <1>3 DEF Underway, NotBack
  <2> QED
    BY <2>1, <2>2, <2>3 DEF Handler
<1>5. Descriptor(t)'
  BY <1>1, <1>3 DEF Descriptor
<1>6. Noticed => Saw(t)'
  BY <1>1, <1>3 DEF Noticed, Saw, Beyond
<1> QED
  BY <1>2, <1>4, <1>5, <1>6, MoveBoth

LEMMA SetxattrKeeps ==
  ASSUME IInv, NEW t \in Threads, fsetxattr(t)
  PROVE  IInv' /\ (Noticed => Noticed')
<1> USE OfThread
<1>1. thread[t].pc = "setxattr" /\ thread[t].fd \in Files
  BY DEF fsetxattr, At, TypeOK
<1>2. CASE inode[thread[t].fd].cookie # NoCookie
  <2>1. Goto(t, thread[t], "getxattr") /\ UNCHANGED inode
    BY <1>2 DEF fsetxattr
  <2> QED
    BY <1>1, <2>1, AgainKeeps DEF fsetxattr
<1>3. CASE inode[thread[t].fd].cookie = NoCookie
  <2> DEFINE f == thread[t].fd
             c == <<f, t>>
  <2>1. inode' = [inode EXCEPT ![f].cookie = c] /\ Cookie(t, f, c)
    BY <1>3 DEF fsetxattr
  <2>2. c \in Cookies /\ c[1] = f
    BY <1>1 DEF Cookies
  <2> HIDE DEF c
  <2>3. SameInodes /\ c = inode'[f].cookie
    BY <1>1, <1>3, <2>1, <2>2 DEF SameInodes, TypeOK, Tagged
  <2>4. thread[t].reply.kind = "f" => f = thread[t].reply.file
    BY DEF Place
  <2> QED
    BY <1>1, <2>1, <2>2, <2>3, <2>4, CookieKeeps DEF fsetxattr
<1> QED
  BY <1>2, <1>3

-----------------------------------------------------------------------------
(* Validators and replies.                                                  *)

LEMMA NewEtagKeeps ==
  ASSUME IInv, NEW t \in Threads, Etag(t), ~Matches(compute_etag(thread[t].mtim, thread[t].reply.esc))
  PROVE  IInv' /\ (Noticed => Noticed')
<1> USE OfThread
<1>1. /\ thread[t].pc = "etag"
      /\ Goto(t, [thread[t] EXCEPT !.reply = [@ EXCEPT !.etag =
                    compute_etag(thread[t].mtim, thread[t].reply.esc)]], "validator")
      /\ UNCHANGED <<now, tick, path, inode, client, held>> /\ last' = Nothing
  BY DEF Etag, At
<1>2. /\ thread' \in [Threads -> Activations]
      /\ thread'[t].pc = "validator"
      /\ thread'[t].fd = thread[t].fd /\ thread'[t].mtim = thread[t].mtim
      /\ thread'[t].reply.kind = thread[t].reply.kind
      /\ thread'[t].reply.file = thread[t].reply.file
      /\ thread'[t].reply.stat = thread[t].reply.stat
      /\ thread'[t].reply.owner = thread[t].reply.owner
      /\ thread'[t].reply.esc = thread[t].reply.esc
      /\ thread'[t].reply.etag[1] = monotonic_validator(thread[t].mtim)
      /\ thread'[t].reply.etag[2] = thread[t].reply.esc
      /\ \A u \in Threads : u # t => thread'[u] = thread[u]
  BY <1>1, GetsEtag
<1>3. Moved(t)
  BY <1>1, <1>2, InodesSame DEF Moved
<1>4. thread[t].pc \in PastStat /\ thread[t].pc \in PastCookie /\ client = t
      /\ thread[t].reply.kind = "f" /\ thread[t].reply.file \in Files
  BY <1>1 DEF Place, ClientPCs, PastStat, PastCookie
<1>5. Handler(t)'
  <2>1. Place(t)'
    BY <1>1, <1>2, <1>4 DEF Place, ClientPCs, PastStat, PastCookie
  <2>2. CookieOf(thread[t].reply)'
    BY <1>1, <1>2 DEF CookieOf
  <2>3. Underway(t)'
    BY <1>1, <1>2, <1>4, ValidatorIs DEF Underway
  <2>4. NotBack(t)'
    BY <1>1, <1>2, <1>4 DEF NotBack
  <2> QED
    BY <2>1, <2>2, <2>3, <2>4 DEF Handler
<1>6. Descriptor(t)'
  BY <1>2 DEF Descriptor
<1>7. Noticed => Saw(t)'
  BY <1>1, <1>2, <1>4 DEF Noticed, Saw, Beyond
<1> QED
  BY <1>3, <1>5, <1>6, <1>7, MoveBoth

LEMMA ValidateKeeps ==
  ASSUME IInv, NEW t \in Threads, Validate(t)
  PROVE  IInv' /\ (Noticed => Noticed')
<1> USE OfThread
<1> DEFINE v == monotonic_validator(thread[t].mtim)
<1>1. /\ thread[t].pc = "validator" /\ thread[t].reply.kind = "f"
      /\ UNCHANGED <<now, tick, path, inode, client, held>> /\ last' = Nothing
  BY DEF Validate, At
<1>2. /\ thread' \in [Threads -> Activations]
      /\ thread'[t].pc = "pread"
      /\ thread'[t].fd = thread[t].fd /\ thread'[t].mtim = thread[t].mtim
      /\ thread'[t].reply.kind = thread[t].reply.kind
      /\ thread'[t].reply.file = thread[t].reply.file
      /\ thread'[t].reply.stat = thread[t].reply.stat
      /\ thread'[t].reply.owner = thread[t].reply.owner
      /\ thread'[t].reply.esc = thread[t].reply.esc
      /\ thread'[t].reply.etag = thread[t].reply.etag
      /\ thread'[t].reply.validator = v
      /\ \A u \in Threads : u # t => thread'[u] = thread[u]
  BY GetsValidator
<1>3. /\ v \in Nat /\ v <= thread[t].mtim /\ v <= now - 2 * Granularity
      /\ \A w \in Nat : /\ w <= thread[t].mtim /\ w <= now - 2 * Granularity => w <= v
                        /\ w < thread[t].mtim /\ w < now - 2 * Granularity => w < v
  BY ValidatorIs
<1> HIDE DEF v
<1>4. Moved(t)
  BY <1>1, <1>2, InodesSame DEF Moved
<1>5. /\ thread[t].pc \in PastStat /\ thread[t].pc \in PastCookie /\ client = t
      /\ thread[t].reply.file \in Files /\ thread[t].fd = thread[t].reply.file
      /\ thread[t].reply.owner = thread[t].reply.file
  BY <1>1 DEF Place, ClientPCs, PastStat, PastCookie
<1>6. held.validator \in Nat /\ thread[t].reply.etag[1] \in Nat
  BY DEF TypeOK, Replies
<1>7. Handler(t)'
  <2>1. Place(t)'
    BY <1>1, <1>2, <1>5 DEF Place, ClientPCs, PastStat, PastCookie
  <2>2. CookieOf(thread[t].reply)'
    BY <1>1, <1>2 DEF CookieOf
  <2>3. Underway(t)'
    BY <1>1, <1>2, <1>3, <1>5, <1>6 DEF Underway
  <2>4. NotBack(t)'
    BY <1>1, <1>2, <1>3, <1>5, <1>6 DEF NotBack, IInv, Vouched, Vouches
  <2> QED
    BY <2>1, <2>2, <2>3, <2>4 DEF Handler
<1>8. Descriptor(t)'
  BY <1>2, <1>5, FilesAssumption DEF Descriptor
<1>9. Noticed => Saw(t)'
  BY <1>1, <1>2, <1>3, <1>5, <1>6 DEF Noticed, Saw, Beyond
<1> QED
  BY <1>4, <1>7, <1>8, <1>9, MoveBoth

\* A reply of the client's thread ends its handler; the client may keep it.
LEMMA SendKeeps ==
  ASSUME IInv, NEW t \in Threads, client = t, NEW r \in Replies, Send(t, r),
         UNCHANGED <<now, tick, path, inode>>, CookieOf(r), r.kind \in {"a", "f"} => Vouches(r)
  PROVE  /\ IInv'
         /\ Noticed /\ (r.kind = "f" => inode[r.file].version <= r.version) => Noticed'
<1> USE OfThread
<1>1. /\ thread' \in [Threads -> Activations]
      /\ thread'[t].pc = "idle" /\ thread'[t].fd = NoFile /\ thread'[t].reply = NoReply
      /\ \A u \in Threads : u # t => thread'[u] = thread[u]
  BY Ends DEF Send
<1>2. /\ client' = NoThread /\ last' = [reply |-> r, base |-> held]
      /\ held' = held \/ (r.kind \in {"a", "f"} /\ held' = r)
  BY DEF Send
<1>3. /\ held \in Replies
  BY DEF TypeOK
<1>4. \A u \in Threads : Handler(u)' /\ Descriptor(u)'
  <2> SUFFICES ASSUME NEW u \in Threads
               PROVE  Handler(u)' /\ Descriptor(u)'
    OBVIOUS
  <2>1. client' # u
    BY <1>2, ThreadsAssumption
  <2>2. Place(u) /\ Descriptor(u) /\ CookieOf(thread[u].reply)
    BY DEF IInv, Handler, TypeOK, Descriptor
  <2>3. Place(u)' /\ Descriptor(u)'
    <3>1. CASE u = t
      BY <1>1, <2>1, <3>1, NothingIs DEF Place, Descriptor, ClientPCs, PastStat, PastCookie
    <3>2. CASE u # t
      BY <1>1, <2>1, <2>2, <3>2 DEF Place, Descriptor
    <3> QED
      BY <3>1, <3>2
  <2>4. CookieOf(thread[u].reply)'
    BY <1>1, <2>2, NothingIs DEF CookieOf
  <2> QED
    BY <2>1, <2>3, <2>4 DEF Handler, Underway, NotBack
<1>5. TypeOK'
  BY <1>1, <1>2, <1>3, <1>4 DEF TypeOK, Descriptor
<1>6. Clocks' /\ Tagged'
  BY DEF Clocks, Tagged
<1>7. Cookied'
  <2>1. CookieOf(held)'
    BY <1>2 DEF IInv, Cookied, CookieOf
  <2>2. last'.reply = r
    BY <1>2
  <2> QED
    BY <2>1, <2>2 DEF Cookied, CookieOf, Vouches
<1>8. Vouched'
  BY <1>2 DEF IInv, Vouched, Vouches
<1>9. IInv'
  BY <1>4, <1>5, <1>6, <1>7, <1>8 DEF IInv
<1>10. ASSUME Noticed, r.kind = "f" => inode[r.file].version <= r.version
       PROVE  Noticed'
  <2>1. \A u \in Threads : Saw(u)'
    BY <1>2, ThreadsAssumption DEF Saw
  <2>2. CASE held' = held
    BY <1>10, <2>1, <2>2 DEF Noticed, Beyond
  <2>3. CASE r.kind \in {"a", "f"} /\ held' = r
    <3>1. r.kind = "f" => r.file \in Files /\ inode[r.file].version \in Nat /\ r.version \in Nat
      BY DEF Vouches, TypeOK, Replies
    <3> QED
      BY <1>10, <2>1, <2>3, <3>1 DEF Noticed
  <2> QED
    BY <1>2, <2>2, <2>3
<1> QED
  BY <1>9, <1>10

\* What a reply of thread t would be, and what it vouches for.
LEMMA NoReplyKeeps ==
  ASSUME IInv, NEW t \in Threads, Missing(t) \/ PreadFails(t)
  PROVE  /\ IInv' /\ (Noticed => Noticed') /\ last'.reply.kind = "none"
<1>1. Send(t, NoReply) /\ UNCHANGED <<now, tick, path, inode>>
  BY DEF Missing, PreadFails
<1>2. client = t
  BY OfThread DEF Missing, PreadFails, At, Place, ClientPCs
<1>3. CookieOf(NoReply) /\ NoReply \in Replies /\ NoReply.kind = "none"
  BY NothingIs, NoReplyType DEF CookieOf
<1>4. last'.reply = NoReply
  BY <1>1 DEF Send
<1> QED
  BY <1>1, <1>2, <1>3, <1>4, SendKeeps

\* not_modified_reply: neither of another file, nor after a write that the client missed.
LEMMA NotModified ==
  ASSUME IInv, NEW t \in Threads, Etag(t), Matches(compute_etag(thread[t].mtim, thread[t].reply.esc))
  PROVE  /\ IInv' /\ (Noticed => Noticed')
         /\ last'.reply.kind = "304"
         /\ Noticed => NothingHidden'
<1> USE OfThread
<1> DEFINE e == compute_etag(thread[t].mtim, thread[t].reply.esc)
           q == thread[t].reply
           r == [q EXCEPT !.kind = "304", !.etag = e]
<1>1. thread[t].pc = "etag" /\ Send(t, r) /\ UNCHANGED <<now, tick, path, inode>>
  BY DEF Etag, At
<1>2. q.esc \in Cookies \cup {NoCookie}
  BY DEF Replies
<1>3. e \in Nat \X (Cookies \cup {NoCookie}) /\ e[1] = monotonic_validator(thread[t].mtim)
      /\ e[2] = q.esc
  BY <1>2, ValidatorIs DEF compute_etag
<1>4. held.kind = "f" /\ held.etag = e
  BY DEF Matches
<1> HIDE DEF e
<1>5. /\ r \in Replies /\ r.kind = "304" /\ r.file = q.file /\ r.stat = q.stat
      /\ r.owner = q.owner /\ r.esc = q.esc
  BY <1>3 DEF Replies
<1> HIDE DEF r
<1>6. /\ client = t /\ thread[t].pc \in PastStat /\ q.file \in Files /\ q.owner = q.file
  BY <1>1 DEF Place, ClientPCs, PastStat, PastCookie
<1>7. CookieOf(r)
  BY <1>5 DEF CookieOf
<1>8. IInv' /\ (Noticed => Noticed')
  BY <1>1, <1>5, <1>6, <1>7, SendKeeps
<1>9. last'.reply = r /\ last'.base = held
  BY <1>1 DEF Send
<1>10. q.esc # NoCookie => q.file = held.file
  <2>1. Vouches(held) /\ CookieOf(held)
    BY <1>4 DEF IInv, Vouched, Cookied
  <2>2. held.owner = held.file /\ held.file \in Files /\ held.esc = q.esc
    BY <1>3, <1>4, <2>1 DEF Vouches
  <2> QED
    BY <1>6, <2>1, <2>2 DEF CookieOf, Tagged
<1>11. ASSUME Noticed, q.file = held.file
       PROVE  q.stat <= held.version
  <2>1. held.etag[1] <= held.validator
    BY <1>4 DEF IInv, Vouched, Vouches
  <2>2. held.validator \in Nat /\ held.version \in Nat /\ q.stat \in Nat /\ held.etag[1] \in Nat
    BY DEF TypeOK, Replies
  <2>3. ASSUME q.stat > held.version PROVE FALSE
    <3>1. held.validator < thread[t].mtim /\ held.validator < now - 2 * Granularity
      BY <1>4, <1>6, <1>11, <2>3 DEF Noticed, Saw, Beyond
    <3>2. held.validator < monotonic_validator(thread[t].mtim)
      BY <2>2, <3>1, ValidatorIs
    <3>3. monotonic_validator(thread[t].mtim) \in Nat
      BY ValidatorIs
    <3> QED
      BY <1>3, <1>4, <2>1, <2>2, <3>2, <3>3
  <2> QED
    BY <2>2, <2>3
<1>12. Noticed => NothingHidden'
  BY <1>5, <1>9, <1>10, <1>11 DEF NothingHidden
<1> QED
  BY <1>5, <1>8, <1>9, <1>12

\* f_reply.
LEMMA PreadKeeps ==
  ASSUME IInv, NEW t \in Threads, Pread(t)
  PROVE  /\ IInv' /\ (Noticed => Noticed')
         /\ Monotonic' /\ (Noticed => NothingHidden')
<1> USE OfThread
<1> DEFINE q == thread[t].reply
           v == inode[thread[t].fd].version
           r == [q EXCEPT !.version = v]
<1>1. thread[t].pc = "pread" /\ Send(t, r) /\ UNCHANGED <<now, tick, path, inode>>
  BY DEF Pread, At
<1>2. /\ client = t /\ thread[t].pc \in PastStat /\ q.file \in Files /\ q.owner = q.file
      /\ q.kind = "f" /\ thread[t].fd = q.file
  BY <1>1 DEF Place, ClientPCs, PastStat, PastCookie
<1>3. v \in Nat /\ v = inode[q.file].version
  BY <1>2 DEF TypeOK
<1> HIDE DEF v
<1>4. /\ r \in Replies /\ r.kind = "f" /\ r.file = q.file /\ r.stat = q.stat
      /\ r.owner = q.owner /\ r.esc = q.esc /\ r.version = v
      /\ r.etag = q.etag /\ r.validator = q.validator
  BY <1>2, <1>3, ContentReply
<1> HIDE DEF r
<1>5. CookieOf(r)
  BY <1>4 DEF CookieOf
<1>6. Vouches(r)
  <2>1. /\ thread[t].mtim <= inode[q.file].mtim /\ q.validator <= thread[t].mtim
        /\ q.validator <= now - 2 * Granularity /\ q.etag[1] <= q.validator
        /\ q.etag[2] = q.esc
    BY <1>1, <1>2 DEF Underway
  <2>2. inode[q.file].mtim \in Nat /\ q.validator \in Nat
    BY <1>2 DEF TypeOK, Replies
  <2> QED
    BY <1>2, <1>4, <2>1, <2>2 DEF Vouches
<1>7. inode[r.file].version <= r.version
  BY <1>3, <1>4
<1>8. IInv' /\ (Noticed => Noticed')
  BY <1>1, <1>2, <1>4, <1>5, <1>6, <1>7, SendKeeps
<1>9. last'.reply = r /\ last'.base = held
  BY <1>1 DEF Send
<1>10. /\ held.validator \in Nat /\ q.validator \in Nat
       /\ held.version \in Nat /\ q.stat \in Nat
  BY DEF TypeOK, Replies
<1>11. Monotonic'
  BY <1>1, <1>2, <1>4, <1>9, <1>10 DEF Monotonic, NotBack
<1>12. Noticed => NothingHidden'
  BY <1>1, <1>2, <1>4, <1>9, <1>10 DEF NothingHidden, Noticed, Saw
<1> QED
  BY <1>8, <1>11, <1>12

\* a_reply.
LEMMA AReplyKeeps ==
  ASSUME IInv, NEW t \in Threads, AReply(t)
  PROVE  /\ IInv' /\ (Noticed => Noticed')
         /\ Monotonic' /\ (Noticed => NothingHidden')
<1> USE OfThread
<1> DEFINE q == thread[t].reply
           v == monotonic_validator(thread[t].mtim)
           r == [q EXCEPT !.validator = v]
<1>1. /\ thread[t].pc = "validator" /\ q.kind = "a" /\ Send(t, r)
      /\ UNCHANGED <<now, tick, path, inode>>
  BY DEF AReply, At
<1>2. client = t /\ thread[t].pc \in PastStat /\ q.file \in Files
  BY <1>1 DEF Place, ClientPCs, PastStat
<1>3. /\ v \in Nat /\ v <= thread[t].mtim /\ v <= now - 2 * Granularity
      /\ \A w \in Nat : /\ w <= thread[t].mtim /\ w <= now - 2 * Granularity => w <= v
                        /\ w < thread[t].mtim /\ w < now - 2 * Granularity => w < v
  BY ValidatorIs
<1> HIDE DEF v
<1>4. /\ r \in Replies /\ r.kind = "a" /\ r.file = q.file /\ r.stat = q.stat
      /\ r.owner = q.owner /\ r.esc = q.esc /\ r.validator = v
  BY <1>1, <1>3, ValidatorReply
<1> HIDE DEF r
<1>5. CookieOf(r)
  BY <1>4 DEF CookieOf
<1>6. Vouches(r)
  <2>1. thread[t].mtim <= inode[q.file].mtim /\ inode[q.file].mtim \in Nat
    BY <1>1, <1>2 DEF Underway, TypeOK
  <2> QED
    BY <1>2, <1>3, <1>4, <2>1 DEF Vouches
<1>7. IInv' /\ (Noticed => Noticed')
  BY <1>1, <1>2, <1>4, <1>5, <1>6, SendKeeps
<1>8. last'.reply = r /\ last'.base = held
  BY <1>1 DEF Send
<1>9. held.validator \in Nat /\ held.version \in Nat /\ q.stat \in Nat
  BY DEF TypeOK, Replies
<1>10. Monotonic'
  BY <1>1, <1>2, <1>3, <1>4, <1>8, <1>9 DEF Monotonic, NotBack, IInv, Vouched, Vouches
<1>11. Noticed => NothingHidden'
  BY <1>1, <1>2, <1>3, <1>4, <1>8, <1>9 DEF NothingHidden, Noticed, Saw, Beyond
<1> QED
  BY <1>7, <1>10, <1>11

-----------------------------------------------------------------------------
(* The exported file system and its clocks.                                 *)

\* No handler takes a step; time passes, or an inode is written and gets a later mtime.
World ==
  /\ UNCHANGED <<thread, client, held>> /\ last' = Nothing
  /\ now' \in Nat /\ tick' \in Nat /\ path' \in Files \cup {NoFile} /\ now <= now'
  /\ inode' \in [Files -> [version : Nat, mtim : Nat, cookie : Cookies \cup {NoCookie}]]
  /\ \A f \in Files : /\ inode'[f].cookie = inode[f].cookie
                      /\ inode[f].mtim <= inode'[f].mtim
  /\ Clocks'

LEMMA WorldKeeps ==
  ASSUME IInv, World
  PROVE  IInv'
<1>1. TypeOK'
  BY NothingIs DEF IInv, TypeOK, World
<1>2. Tagged' /\ Clocks'
  BY DEF IInv, Tagged, World
<1>3. Cookied'
  BY NothingIs DEF IInv, Cookied, CookieOf, World
<1>4. Vouched'
  <2>1. TypeOK /\ Vouched
    BY DEF IInv
  <2>2. held.validator \in Nat /\ now \in Nat /\ now' \in Nat /\ 2 * Granularity \in Nat
    BY <2>1, ClockAssumption DEF TypeOK, World, Replies
  <2>3. \A f \in Files : inode[f].mtim \in Nat /\ inode'[f].mtim \in Nat
    BY <2>1 DEF TypeOK, World
  <2> QED
    BY <2>1, <2>2, <2>3 DEF Vouched, Vouches, World
<1>5. ASSUME NEW t \in Threads PROVE Handler(t)'
  <2>1. Place(t)' /\ CookieOf(thread[t].reply)' /\ NotBack(t)'
    BY <1>5, OfThread DEF Place, CookieOf, NotBack, World
  <2>2. client = t /\ thread[t].pc \in PastStat => thread[t].reply.file \in Files
    BY <1>5, OfThread DEF Place
  <2>3. Underway(t)'
    <3>1. /\ thread[t].mtim \in Nat /\ now \in Nat /\ now' \in Nat /\ 2 * Granularity \in Nat
          /\ thread[t].reply.validator \in Nat /\ thread[t].reply.etag[1] \in Nat
      BY <1>5, OfThread, ClockAssumption DEF TypeOK, World, Replies
    <3>2. \A f \in Files : inode[f].mtim \in Nat /\ inode'[f].mtim \in Nat
      BY <1>5, OfThread DEF TypeOK, World
    <3> QED
      BY <1>5, <2>2, <3>1, <3>2, OfThread DEF Underway, World
  <2> QED
    BY <2>1, <2>3 DEF Handler
<1> QED
  BY <1>1, <1>2, <1>3, <1>4, <1>5 DEF IInv

\* What is beyond the client's validator stays so.
LEMMA WorldSaw ==
  ASSUME IInv, World, NEW t \in Threads, Saw(t)
  PROVE  Saw(t)'
<1>1. now \in Nat /\ now' \in Nat /\ held.validator \in Nat /\ 2 * Granularity \in Nat
  BY ClockAssumption DEF IInv, TypeOK, World, Replies
<1> QED
  BY <1>1 DEF Saw, Beyond, World

\* Time goes on, and no mtime has become later than the kernel's clock was.
LEMMA ClocksGo ==
  ASSUME TypeOK, Clocks, Advance,
         inode' \in [Files -> [version : Nat, mtim : Nat, cookie : Cookies \cup {NoCookie}]],
         \A f \in Files : inode'[f].mtim <= tick
  PROVE  /\ now' \in Nat /\ tick' \in Nat /\ now <= now'
         /\ Clocks'
<1>1. /\ now \in Nat /\ tick \in Nat /\ now >= Start /\ tick <= now /\ now' = now + 1
      /\ tick' \in {tick, now'}
  BY DEF TypeOK, Clocks, Advance
<1>2. Start \in Nat
  BY ClockAssumption DEF Start
<1>3. now' \in Nat /\ tick' \in Nat /\ now <= now' /\ tick <= tick' /\ tick' <= now' /\ now' >= Start
  BY <1>1, <1>2
<1>4. now' - tick' < Period
  BY DEF Advance
<1>5. ASSUME NEW f \in Files PROVE inode'[f].mtim <= tick'
  <2>1. inode'[f].mtim \in Nat /\ inode'[f].mtim <= tick
    BY <1>5
  <2> QED
    BY <1>1, <1>3, <2>1
<1>6. Start' = Start
  BY DEF Start
<1> QED
  BY <1>3, <1>4, <1>5, <1>6 DEF Clocks

LEMMA TickKeeps ==
  ASSUME IInv, Tick
  PROVE  IInv' /\ (Noticed => Noticed')
<1>1. TypeOK /\ Clocks
  BY DEF IInv
<1>2. World
  <2>1. \A f \in Files : inode'[f].mtim <= tick
    BY <1>1 DEF Tick, Clocks
  <2>2. now' \in Nat /\ tick' \in Nat /\ now <= now' /\ Clocks'
    BY <1>1, <2>1, ClocksGo DEF TypeOK, Tick
  <2> QED
    BY <1>1, <2>2 DEF World, Tick, TypeOK
<1>3. ASSUME Noticed PROVE Noticed'
  <2>1. \A t \in Threads : Saw(t)'
    BY <1>2, <1>3, WorldSaw DEF Noticed
  <2>2. now \in Nat /\ now' = now + 1 /\ held.validator \in Nat /\ 2 * Granularity \in Nat
    BY <1>1, ClockAssumption DEF TypeOK, Replies, Tick, Advance
  <2> QED
    BY <1>3, <2>1, <2>2 DEF Noticed, Beyond, Tick
<1> QED
  BY <1>2, <1>3, WorldKeeps

LEMMA RelinkKeeps ==
  ASSUME IInv, NEW f \in Files \cup {NoFile}, Relink(f)
  PROVE  IInv' /\ (Noticed => Noticed')
<1>1. TypeOK /\ Clocks
  BY DEF IInv
<1>2. World
  BY <1>1 DEF World, Relink, TypeOK, Clocks
<1>3. ASSUME Noticed PROVE Noticed'
  <2>1. \A t \in Threads : Saw(t)'
    BY <1>2, <1>3, WorldSaw DEF Noticed
  <2> QED
    BY <1>3, <2>1 DEF Noticed, Beyond, Relink
<1> QED
  BY <1>2, <1>3, WorldKeeps

\* The mtime of a write is less than a period old, and the client's validator older.
LEMMA WriteKeeps ==
  ASSUME IInv, NEW f \in Files, Write(f)
  PROVE  IInv' /\ (Fine /\ Noticed => Noticed')
<1>1. TypeOK /\ Clocks
  BY DEF IInv
<1>2. tick \in Nat /\ \A g \in Files : inode[g].mtim \in Nat /\ inode[g].mtim <= tick
  BY <1>1 DEF TypeOK, Clocks
<1>3. /\ inode' \in [Files -> [version : Nat, mtim : Nat, cookie : Cookies \cup {NoCookie}]]
      /\ inode'[f].mtim = tick /\ inode'[f].cookie = inode[f].cookie
      /\ \A g \in Files : g # f => inode'[g] = inode[g]
  <2> DEFINE i == [inode[f] EXCEPT !.version = inode[f].version + 1, !.mtim = tick]
  <2>1. inode[f] \in [version : Nat, mtim : Nat, cookie : Cookies \cup {NoCookie}]
    BY <1>1 DEF TypeOK
  <2>2. /\ i \in [version : Nat, mtim : Nat, cookie : Cookies \cup {NoCookie}]
        /\ i.mtim = tick /\ i.cookie = inode[f].cookie
    <3>1. inode[f].version + 1 \in Nat
      BY <2>1
    <3> QED
      BY <1>2, <2>1, <3>1
  <2>3. inode' = [inode EXCEPT ![f] = i]
    BY DEF Write
  <2> HIDE DEF i
  <2> QED
    BY <1>1, <2>2, <2>3 DEF TypeOK
<1>4. World
  <2>1. \A g \in Files : /\ inode[g].mtim <= inode'[g].mtim /\ inode'[g].mtim <= tick
                         /\ inode'[g].cookie = inode[g].cookie
    BY <1>2, <1>3
  <2>2. now' \in Nat /\ tick' \in Nat /\ now <= now' /\ Clocks'
    BY <1>1, <1>3, <2>1, ClocksGo DEF Write
  <2> QED
    BY <1>1, <1>3, <2>1, <2>2 DEF World, Write, TypeOK
<1>5. ASSUME Fine, Noticed PROVE Noticed'
  <2>1. \A t \in Threads : Saw(t)'
    BY <1>4, <1>5, WorldSaw DEF Noticed
  <2>2. /\ now \in Nat /\ now' = now + 1 /\ tick \in Nat /\ held.validator \in Nat
        /\ 2 * Granularity \in Nat /\ Period \in Nat
    BY <1>1, ClockAssumption DEF TypeOK, Replies, Write, Advance
  <2>3. UNCHANGED held
    BY DEF Write
  <2>4. CASE held.kind = "f" /\ held.file = f
    <3>1. held.validator <= now - 2 * Granularity
      BY <2>4 DEF IInv, Vouched, Vouches
    <3>2. held.validator < tick /\ held.validator < now' - 2 * Granularity
      BY <1>1, <1>5, <2>2, <3>1 DEF Fine, Clocks
    <3> QED
      BY <1>3, <2>1, <2>3, <2>4, <3>2 DEF Noticed, Beyond
  <2>5. CASE held.kind = "f" /\ held.file # f
    <3>1. held.file \in Files
      BY <2>5 DEF IInv, Vouched, Vouches
    <3> QED
      BY <1>3, <1>5, <2>1, <2>2, <2>3, <2>5, <3>1 DEF Noticed, Beyond
  <2>6. CASE held.kind # "f"
    BY <2>1, <2>3, <2>6 DEF Noticed
  <2> QED
    BY <2>4, <2>5, <2>6
<1> QED
  BY <1>4, <1>5, WorldKeeps

-----------------------------------------------------------------------------
(* The theorems.                                                            *)

\* A step that sends the client nothing says nothing.
LEMMA Silence ==
  ASSUME last'.reply.kind = "none"
  PROVE  Monotonic' /\ NothingHidden'
BY DEF Monotonic, NothingHidden

LEMMA Initially == Init => IInv /\ Noticed /\ Monotonic /\ NothingHidden
<1> SUFFICES ASSUME Init PROVE IInv /\ Noticed /\ Monotonic /\ NothingHidden
  OBVIOUS
<1>1. PICK set \in BOOLEAN : inode = [f \in Files |->
             [version |-> 0, mtim |-> 0, cookie |-> IF set THEN <<f, NoThread>> ELSE NoCookie]]
  BY DEF Init
<1>2. \A f \in Files : <<f, NoThread>> \in Cookies /\ <<f, NoThread>> # NoCookie
  BY CookiesAssumption DEF Cookies
<1>3. inode \in [Files -> [version : Nat, mtim : Nat, cookie : Cookies \cup {NoCookie}]]
  BY <1>1, <1>2
<1>4. Tagged
  BY <1>1, <1>2 DEF Tagged
<1>5. /\ held = NoReply /\ last = Nothing /\ client = NoThread
      /\ thread \in [Threads -> Activations]
      /\ \A t \in Threads : thread[t].pc = "idle" /\ thread[t].fd = NoFile /\ thread[t].reply = NoReply
  BY NoReplyType DEF Init, Idle
<1>6. TypeOK
  BY <1>3, <1>5, NoReplyType, NothingIs, ClockAssumption DEF Init, TypeOK, Start
<1>7. Clocks
  BY <1>1, ClockAssumption DEF Init, Clocks, Start
<1>8. Cookied /\ Vouched
  BY <1>5, NothingIs DEF Cookied, CookieOf, Vouched
<1>9. ASSUME NEW t \in Threads PROVE Handler(t) /\ Saw(t)
  <2>1. client # t /\ thread[t].pc = "idle"
    BY <1>5, <1>9, ThreadsAssumption
  <2>2. Place(t) /\ CookieOf(thread[t].reply)
    BY <1>5, <1>9, <2>1, NothingIs DEF Place, CookieOf, ClientPCs, PastStat, PastCookie
  <2> QED
    BY <2>1, <2>2 DEF Handler, Underway, NotBack, Saw
<1>10. Noticed
  BY <1>5, <1>9, NothingIs DEF Noticed
<1>11. Monotonic /\ NothingHidden
  BY <1>5, NothingIs DEF Monotonic, NothingHidden
<1> QED
  BY <1>4, <1>6, <1>7, <1>8, <1>9, <1>10, <1>11 DEF IInv

\* Every step.
LEMMA Inductive ==
  ASSUME IInv, [Next]_vars
  PROVE  /\ IInv' /\ (Fine /\ Noticed => Noticed')
         /\ Monotonic => Monotonic'
         /\ Noticed /\ NothingHidden => NothingHidden'
<1> DEFINE Goal == /\ IInv' /\ (Fine /\ Noticed => Noticed')
                   /\ Monotonic => Monotonic'
                   /\ Noticed /\ NothingHidden => NothingHidden'
<1>1. ASSUME last' = Nothing, IInv', Fine /\ Noticed => Noticed' PROVE Goal
  BY <1>1, Silence, NothingIs
<1>2. CASE UNCHANGED vars
  <2>1. UNCHANGED <<now, tick, path, inode, thread, client, held, last>>
    BY <1>2 DEF vars
  <2>2. TypeOK' /\ Clocks' /\ Tagged' /\ Cookied' /\ Vouched'
    BY <2>1 DEF IInv, TypeOK, Clocks, Tagged, Cookied, CookieOf, Vouched, Vouches
  <2>3. ASSUME NEW t \in Threads PROVE Handler(t)' /\ (Saw(t) => Saw(t)')
    BY <2>1, <2>3 DEF IInv, Handler, Place, CookieOf, Underway, NotBack, Saw, Beyond
  <2>4. IInv'
    BY <2>2, <2>3 DEF IInv
  <2>5. Noticed => Noticed'
    BY <2>1, <2>3 DEF Noticed, Beyond
  <2> QED
    BY <2>1, <2>4, <2>5 DEF Monotonic, NothingHidden
<1>3. CASE Tick
  BY <1>1, <1>3, TickKeeps DEF Tick
<1>4. ASSUME NEW f \in Files, Write(f) PROVE Goal
  BY <1>1, <1>4, WriteKeeps DEF Write
<1>5. ASSUME NEW f \in Files \cup {NoFile}, Relink(f) PROVE Goal
  BY <1>1, <1>5, RelinkKeeps DEF Relink
<1>6. ASSUME NEW t \in Threads, Request(t) \/ Other(t) PROVE Goal
  BY <1>1, <1>6, RequestKeeps, OtherKeeps DEF Request, Other
<1>7. ASSUME NEW t \in Threads, Step(t) PROVE Goal
  <2>1. CASE Missing(t) \/ PreadFails(t)
    BY <1>7, <2>1, NoReplyKeeps, Silence
  <2>2. CASE Lstat(t)
    <3>1. thread[t].pc = "lstat" /\ path \in Files /\ Goto(t, Stat(thread[t], "a", path), "cookie")
      BY <1>7, <2>2 DEF Lstat, At, IInv, TypeOK
    <3>2. IInv' /\ (Noticed => Noticed')
      BY <1>7, <2>2, <3>1, StatKeeps DEF Lstat
    <3> QED
      BY <1>1, <2>2, <3>2 DEF Lstat
  <2>3. CASE Open(t)
    BY <1>1, <1>7, <2>3, OpenKeeps DEF Open
  <2>4. CASE Fstat(t)
    <3>1. /\ thread[t].pc = "fstat" /\ thread[t].fd \in Files
          /\ Goto(t, Stat(thread[t], "f", thread[t].fd), "cookie")
      BY <1>7, <2>4, OfThread DEF Fstat, At, TypeOK
    <3>2. IInv' /\ (Noticed => Noticed')
      BY <1>7, <2>4, <3>1, StatKeeps DEF Fstat
    <3> QED
      BY <1>1, <2>4, <3>2 DEF Fstat
  <2>5. CASE CookieFails(t)
    BY <1>1, <1>7, <2>5, CookieFailsKeeps DEF CookieFails
  <2>6. CASE CookieOpen(t)
    BY <1>1, <1>7, <2>6, CookieOpenKeeps DEF CookieOpen
  <2>7. CASE fgetxattr(t)
    BY <1>1, <1>7, <2>7, GetxattrKeeps DEF fgetxattr
  <2>8. CASE NoData(t)
    BY <1>1, <1>7, <2>8, AgainKeeps DEF NoData, At
  <2>9. CASE fsetxattr(t)
    BY <1>1, <1>7, <2>9, SetxattrKeeps DEF fsetxattr
  <2>10. CASE Etag(t)
    <3>1. CASE Matches(compute_etag(thread[t].mtim, thread[t].reply.esc))
      <4>1. IInv' /\ (Noticed => Noticed') /\ last'.reply.kind = "304" /\ (Noticed => NothingHidden')
        BY <1>7, <2>10, <3>1, NotModified
      <4>2. Monotonic'
        BY <4>1 DEF Monotonic
      <4> QED
        BY <4>1, <4>2
    <3>2. CASE ~Matches(compute_etag(thread[t].mtim, thread[t].reply.esc))
      BY <1>1, <1>7, <2>10, <3>2, NewEtagKeeps DEF Etag
    <3> QED
      BY <3>1, <3>2
  <2>11. CASE Validate(t)
    BY <1>1, <1>7, <2>11, ValidateKeeps DEF Validate
  <2>12. CASE Pread(t)
    BY <1>7, <2>12, PreadKeeps
  <2>13. CASE AReply(t)
    BY <1>7, <2>13, AReplyKeeps
  <2> QED
    BY <1>7, <2>1, <2>2, <2>3, <2>4, <2>5, <2>6, <2>7, <2>8, <2>9, <2>10, <2>11, <2>12, <2>13 DEF Step
<1> QED
  BY <1>2, <1>3, <1>4, <1>5, <1>6, <1>7 DEF Next

\* Types, and which handlers have a descriptor: no system call is made with the result of
\* an open that failed.
THEOREM TypeCorrect == Spec => []TypeOK
<1>1. Init => IInv
  BY Initially
<1>2. IInv /\ [Next]_vars => IInv'
  BY Inductive
<1>3. IInv => TypeOK
  BY DEF IInv
<1> QED
  BY <1>1, <1>2, <1>3, PTL DEF Spec

\* Handler f's replies carry the cookie of the inode that they are from, and all threads
\* agree on it whoever set the attribute (estale_cookie).
THEOREM CookiesAgree == Spec => []OneCookie
<1>1. Init => IInv
  BY Initially
<1>2. IInv /\ [Next]_vars => IInv'
  BY Inductive
<1>3. IInv => OneCookie
  BY DEF IInv, Cookied, CookieOf, Vouched, Vouches, OneCookie
<1> QED
  BY <1>1, <1>2, <1>3, PTL DEF Spec

\* The validators that a client gets for one inode never decrease, with any granularity
\* (monotonic_validator).
THEOREM ValidatorsGrow == Spec => []Monotonic
<1>1. Init => IInv /\ Monotonic
  BY Initially
<1>2. IInv /\ Monotonic /\ [Next]_vars => IInv' /\ Monotonic'
  BY Inductive
<1> QED
  BY <1>1, <1>2, PTL DEF Spec

\* With a kernel that stamps a new mtime at least every 2 * mtim_granularity, no write is
\* hidden behind a validator that stays or a 304 (monotonic_validator, compute_etag).
THEOREM NoWriteHidden == ASSUME Fine PROVE Spec => []NothingHidden
<1>1. Init => IInv /\ Noticed /\ NothingHidden
  BY Initially
<1>2. IInv /\ Noticed /\ NothingHidden /\ [Next]_vars => IInv' /\ Noticed' /\ NothingHidden'
  BY Inductive
<1> QED
  BY <1>1, <1>2, PTL DEF Spec

-----------------------------------------------------------------------------
(* Module Server: the library in which the handlers run.  Its properties    *)
(* hold for any number of listeners, requests and places in a pipe.         *)

\* The records of requests.
Cards == [at : {"none", "loop", "queue", "worker", "gone"}, listener : Listeners,
          replied : BOOLEAN, dropped : BOOLEAN, sends : Nat]

\* The main thread's listener is one of them.
LEMMA PrimaryListens ==
  ASSUME Configurations, mode \in Modes
  PROVE  Primary \in Listeners
<1>1. mode.nlisteners \in Nat \ {0}
  BY DEF Configurations
<1>2. 1 \in 1 .. mode.nlisteners
  BY <1>1
<1> QED BY <1>2 DEF Listeners, Primary

\* The server starts with values of the right types.
LEMMA ServerTypeInit ==
  ASSUME Configurations, PipeCap \in Nat, ServerInit
  PROVE  ServerTypeOK
<1>1. Listeners \subseteq Nat
  BY DEF Listeners, Configurations
<1>2. Primary \in Listeners
  BY PrimaryListens DEF ServerTypeOK, ServerInit
<1>3. Absent \in [at : {"none", "loop", "queue", "worker", "gone"},
                  listener : Listeners, replied : BOOLEAN, dropped : BOOLEAN, sends : Nat]
  BY <1>2 DEF Absent
<1>4. /\ pipe \in [Listeners -> Seq(Requests)]
      /\ \A l \in Listeners : pipe[l] = <<>> /\ Len(pipe[l]) = 0
  BY DEF ServerInit
<1>5. \A l \in Listeners : Len(pipe[l]) <= PipeCap /\ (pipe[l] # <<>> => UsesPipe)
  BY <1>4
<1>6. req \in [Requests -> Cards]
  BY <1>3 DEF ServerInit, Cards
<1>7. loop \in [Listeners -> {"none", "setup", "running", "broken", "freed"}]
  BY DEF ServerInit
<1> QED BY <1>4, <1>5, <1>6, <1>7 DEF ServerInit, ServerTypeOK, Cards

\* What a send, and a move of a request, leave of its record.
LEMMA CardSteps ==
  ASSUME NEW c \in Cards
  PROVE  /\ Sent(c) \in Cards
         /\ Sent(c).sends = c.sends + 1 /\ Sent(c).replied = c.replied /\ Sent(c).at = c.at
         /\ Sent(c).listener = c.listener
         /\ \A a \in {"none", "loop", "queue", "worker", "gone"} : [c EXCEPT !.at = a] \in Cards
BY DEF Cards, Sent

\* What a reply makes of a request's record.
LEMMA RepliedCard ==
  ASSUME NEW c \in Cards, NEW lost \in BOOLEAN, ServerTypeOK
  PROVE  /\ Replied(c, lost) \in Cards
         /\ Replied(c, lost).replied = TRUE /\ Replied(c, lost).at = c.at
         /\ Replied(c, lost).listener = c.listener
         /\ Replied(c, lost).sends = IF lost \/ UsesPipe THEN c.sends ELSE c.sends + 1
<1>1. (lost \/ ~Takes(c.listener)) \in BOOLEAN
  BY DEF Takes, Full
<1> DEFINE d == [c EXCEPT !.replied = TRUE]
           b == lost \/ ~Takes(c.listener)
<1>2. d \in Cards /\ d.replied = TRUE /\ d.at = c.at /\ d.listener = c.listener /\ d.sends = c.sends
  BY DEF Cards
<1>3. Replied(c, lost) = IF lost \/ UsesPipe THEN [d EXCEPT !.dropped = b] ELSE Sent(d)
  BY DEF Replied
<1>6. b \in BOOLEAN
  BY <1>1
<1> HIDE DEF d, b
<1>4. CASE lost \/ UsesPipe
  <2>1. Replied(c, lost) = [d EXCEPT !.dropped = b]
    BY <1>3, <1>4
  <2> QED BY <2>1, <1>6, <1>2, <1>4 DEF Cards
<1>5. CASE ~(lost \/ UsesPipe)
  <2>1. Replied(c, lost) = Sent(d)
    BY <1>3, <1>5
  <2>2. Sent(d) \in Cards /\ Sent(d).sends = d.sends + 1 /\ Sent(d).replied = d.replied
        /\ Sent(d).at = d.at /\ Sent(d).listener = d.listener
    BY <1>2, CardSteps
  <2> QED BY <2>1, <2>2, <1>2, <1>5
<1> QED BY <1>4, <1>5

\* A reply puts its request behind the others of one pipe, or leaves all pipes alone.
LEMMA PipeStep ==
  ASSUME PipeCap \in Nat, ServerTypeOK, NEW r \in Requests, NEW lost \in BOOLEAN
  PROVE  /\ PipeAfter(r, lost) \in [Listeners -> Seq(Requests)]
         /\ \A l \in Listeners : /\ Len(PipeAfter(r, lost)[l]) <= PipeCap
                                 /\ PipeAfter(r, lost)[l] # <<>> => UsesPipe
         /\ \A l \in Listeners, i \in Nat :
              i \in DOMAIN PipeAfter(r, lost)[l] =>
                \/ i \in DOMAIN pipe[l] /\ PipeAfter(r, lost)[l][i] = pipe[l][i]
                \/ /\ PipeAfter(r, lost)[l][i] = r /\ l = req[r].listener /\ i = Len(pipe[l]) + 1
                   /\ UsesPipe /\ ~lost
<1> DEFINE k == req[r].listener
<1>1. k \in Listeners
  BY DEF ServerTypeOK
<1>2. CASE ~lost /\ UsesPipe /\ Takes(k)
  <2>1. PipeAfter(r, lost) = [pipe EXCEPT ![k] = Append(@, r)]
    BY <1>2 DEF PipeAfter
  <2>3. pipe[k] \in Seq(Requests) /\ Len(pipe[k]) <= PipeCap
    BY <1>1 DEF ServerTypeOK
  <2>2. Len(pipe[k]) \in Nat /\ Len(pipe[k]) < PipeCap
    BY <2>3, <1>2 DEF Takes, Full
  <2>4. /\ Append(pipe[k], r) \in Seq(Requests)
        /\ Len(Append(pipe[k], r)) = Len(pipe[k]) + 1
        /\ \A i \in 1 .. Len(pipe[k]) : Append(pipe[k], r)[i] = pipe[k][i]
        /\ Append(pipe[k], r)[Len(pipe[k]) + 1] = r
    BY <2>3
  <2>5. DOMAIN Append(pipe[k], r) = 1 .. Len(pipe[k]) + 1 /\ DOMAIN pipe[k] = 1 .. Len(pipe[k])
    BY <2>3, <2>4
  <2>6. \A l \in Listeners : IF l = k THEN PipeAfter(r, lost)[l] = Append(pipe[k], r)
                                      ELSE PipeAfter(r, lost)[l] = pipe[l]
    BY <2>1, <1>1 DEF ServerTypeOK
  <2>7. PipeAfter(r, lost) \in [Listeners -> Seq(Requests)]
    BY <2>1, <2>4, <1>1 DEF ServerTypeOK
  <2>8. \A l \in Listeners : Len(PipeAfter(r, lost)[l]) <= PipeCap
    <3> SUFFICES ASSUME NEW l \in Listeners PROVE Len(PipeAfter(r, lost)[l]) <= PipeCap
      OBVIOUS
    <3>1. CASE l = k
      BY <3>1, <2>6, <2>4, <2>2
    <3>2. CASE l # k
      BY <3>2, <2>6 DEF ServerTypeOK
    <3> QED BY <3>1, <3>2
  <2>9. ASSUME NEW l \in Listeners, NEW i \in Nat, i \in DOMAIN PipeAfter(r, lost)[l]
        PROVE  \/ i \in DOMAIN pipe[l] /\ PipeAfter(r, lost)[l][i] = pipe[l][i]
               \/ /\ PipeAfter(r, lost)[l][i] = r /\ l = req[r].listener /\ i = Len(pipe[l]) + 1
                  /\ UsesPipe /\ ~lost
    <3>1. CASE l = k
      <4>1. PipeAfter(r, lost)[l] = Append(pipe[k], r)
        BY <3>1, <2>6
      <4>2. i \in 1 .. Len(pipe[k]) \/ i = Len(pipe[k]) + 1
        BY <4>1, <2>9, <2>5, <2>2
      <4> QED BY <4>1, <4>2, <3>1, <2>4, <2>5, <1>2
    <3>2. CASE l # k
      BY <3>2, <2>6, <2>9
    <3> QED BY <3>1, <3>2
  <2> QED BY <2>7, <2>8, <2>9, <1>2
<1>3. CASE ~(~lost /\ UsesPipe /\ Takes(k))
  BY <1>3 DEF PipeAfter, ServerTypeOK
<1> QED BY <1>2, <1>3

\* asynccb takes the first request of a pipe; the others move up by one place.
LEMMA PipeTail ==
  ASSUME PipeCap \in Nat, ServerTypeOK, NEW l \in Listeners, pipe[l] # <<>>
  PROVE  /\ Head(pipe[l]) \in Requests /\ 1 \in DOMAIN pipe[l] /\ pipe[l][1] = Head(pipe[l])
         /\ Tail(pipe[l]) \in Seq(Requests)
         /\ Len(Tail(pipe[l])) <= PipeCap
         /\ \A i \in DOMAIN Tail(pipe[l]) : /\ i \in Nat /\ i # 0
                                            /\ i + 1 \in DOMAIN pipe[l]
                                            /\ Tail(pipe[l])[i] = pipe[l][i + 1]
<1>1. pipe[l] \in Seq(Requests) /\ Len(pipe[l]) <= PipeCap
  BY DEF ServerTypeOK
<1>2. Len(pipe[l]) \in Nat \ {0} /\ DOMAIN pipe[l] = 1 .. Len(pipe[l])
  BY <1>1
<1>3. Tail(pipe[l]) \in Seq(Requests) /\ Len(Tail(pipe[l])) = Len(pipe[l]) - 1
  BY <1>1, <1>2
<1>4. DOMAIN Tail(pipe[l]) = 1 .. Len(pipe[l]) - 1
  BY <1>3
<1>5. \A i \in 1 .. Len(pipe[l]) - 1 : Tail(pipe[l])[i] = pipe[l][i + 1]
  BY <1>1, <1>2
<1>6. Head(pipe[l]) = pipe[l][1] /\ pipe[l][1] \in Requests
  BY <1>1, <1>2
<1> QED BY <1>1, <1>2, <1>3, <1>4, <1>5, <1>6

\* Every step of the server keeps the types, and the pipes within their capacity.
LEMMA ServerTypeStep ==
  ASSUME Configurations, PipeCap \in Nat, ServerTypeOK, [ServerNext]_serverVars
  PROVE  ServerTypeOK'
<1>0. /\ mode \in Modes /\ done \in BOOLEAN
      /\ main \in {"starting", "looping", "joining", "returned", "pool_gone", "gone"}
      /\ loop \in [Listeners -> {"none", "setup", "running", "broken", "freed"}]
      /\ req \in [Requests -> Cards]
      /\ pipe \in [Listeners -> Seq(Requests)]
      /\ \A l \in Listeners : Len(pipe[l]) <= PipeCap /\ (pipe[l] # <<>> => UsesPipe)
  BY DEF ServerTypeOK, Cards
<1> SUFFICES
      /\ mode' \in Modes /\ done' \in BOOLEAN
      /\ main' \in {"starting", "looping", "joining", "returned", "pool_gone", "gone"}
      /\ loop' \in [Listeners -> {"none", "setup", "running", "broken", "freed"}]
      /\ req' \in [Requests -> Cards]
      /\ pipe' \in [Listeners -> Seq(Requests)]
      /\ \A l \in Listeners : Len(pipe'[l]) <= PipeCap /\ (pipe'[l] # <<>> => UsesPipe')
  BY DEF ServerTypeOK, Cards
<1>1. ASSUME NEW l \in Listeners, Freed(l), UNCHANGED mode
      PROVE  /\ loop' \in [Listeners -> {"none", "setup", "running", "broken", "freed"}]
             /\ pipe' \in [Listeners -> Seq(Requests)]
             /\ \A k \in Listeners : Len(pipe'[k]) <= PipeCap /\ (pipe'[k] # <<>> => UsesPipe')
  <2>1. \A k \in Listeners : pipe'[k] = IF k = l THEN <<>> ELSE pipe[k]
    BY <1>0, <1>1 DEF Freed
  <2>2. UsesPipe' = UsesPipe
    BY <1>1 DEF UsesPipe
  <2>3. Len(<<>>) = 0 /\ <<>> \in Seq(Requests)
    OBVIOUS
  <2>4. pipe' \in [Listeners -> Seq(Requests)]
    BY <1>0, <1>1, <2>3 DEF Freed
  <2>5. \A k \in Listeners : Len(pipe'[k]) <= PipeCap /\ (pipe'[k] # <<>> => UsesPipe')
    <3> SUFFICES ASSUME NEW k \in Listeners
                 PROVE  Len(pipe'[k]) <= PipeCap /\ (pipe'[k] # <<>> => UsesPipe')
      OBVIOUS
    <3>1. CASE k = l
      BY <3>1, <2>1, <2>3
    <3>2. CASE k # l
      BY <3>2, <2>1, <2>2, <1>0
    <3> QED BY <3>1, <3>2
  <2> QED BY <1>0, <1>1, <2>4, <2>5 DEF Freed
<1>2. Primary \in Listeners
  BY PrimaryListens DEF ServerTypeOK, ServerInit
<1>3. CASE EnterLoop \/ LeaveLoop \/ Joined \/ DestroyPool \/ Signal \/ Stop
  BY <1>0, <1>3, <1>2
  DEF EnterLoop, LeaveLoop, Joined, DestroyPool, Signal, Stop, UsesPipe
<1>4. CASE DestroyServer
  BY <1>0, <1>4, <1>1, <1>2 DEF DestroyServer
<1>5. ASSUME NEW l \in Listeners, StartListener(l) \/ SetUp(l) \/ DonecheckCb(l)
      PROVE  ServerTypeOK'
  BY <1>0, <1>5 DEF StartListener, SetUp, DonecheckCb, UsesPipe, ServerTypeOK, Cards
<1>6. ASSUME NEW l \in Listeners, ListenerEnds(l)
      PROVE  ServerTypeOK'
  BY <1>0, <1>1, <1>6 DEF ListenerEnds, ServerTypeOK, Cards
<1>7. ASSUME NEW l \in Listeners, Asynccb(l)
      PROVE  ServerTypeOK'
  <2>1. pipe[l] # <<>>
    BY <1>7 DEF Asynccb
  <2>2. req' \in [Requests -> Cards]
    BY <1>7, <2>1, PipeTail, CardSteps, <1>0 DEF Asynccb
  <2>3. \A k \in Listeners : pipe'[k] = IF k = l THEN Tail(pipe[l]) ELSE pipe[k]
    BY <1>7, <1>0 DEF Asynccb
  <2>4. pipe' \in [Listeners -> Seq(Requests)]
    BY <1>7, <1>0, <2>1, PipeTail DEF Asynccb
  <2>5. \A k \in Listeners : Len(pipe'[k]) <= PipeCap /\ (pipe'[k] # <<>> => UsesPipe')
    BY <2>3, <2>1, <1>7, <1>0, PipeTail DEF Asynccb, UsesPipe
  <2> QED BY <2>2, <2>4, <2>5, <1>0, <1>7 DEF ServerTypeOK, Cards, Asynccb
<1>8. ASSUME NEW l \in Listeners, NEW r \in Requests, Accept(l, r)
      PROVE  ServerTypeOK'
  <2>1. [Absent EXCEPT !.at = "loop", !.listener = l] \in Cards
    BY DEF Absent, Cards
  <2> QED BY <2>1, <1>8, <1>0 DEF Accept, ServerTypeOK, Cards, UsesPipe
<1>9. ASSUME NEW r \in Requests, Reply(r) \/ Destroy(r)
      PROVE  ServerTypeOK'
  <2>1. req[r] \in Cards
    BY <1>0
  <2>4. PICK lost \in BOOLEAN :
          /\ \/ req' = [req EXCEPT ![r] = Replied(req[r], lost)]
             \/ req' = [req EXCEPT ![r] = [Replied(req[r], lost) EXCEPT !.at = "gone"]]
             \/ req' = [req EXCEPT ![r] = [req[r] EXCEPT !.at = "gone"]]
          /\ pipe' = pipe \/ pipe' = PipeAfter(r, lost)
    BY <1>9, <1>0 DEF Reply, Destroy
  <2>2. [Replied(req[r], lost) EXCEPT !.at = "gone"] \in Cards
    BY <2>1, RepliedCard, CardSteps
  <2>3. req' \in [Requests -> Cards]
    <3>1. Replied(req[r], lost) \in Cards /\ [req[r] EXCEPT !.at = "gone"] \in Cards
      BY <2>1, RepliedCard, CardSteps
    <3> QED BY <3>1, <2>4, <2>2, <1>0
  <2>5. UsesPipe' = UsesPipe
    BY <1>9 DEF Reply, Destroy, UsesPipe
  <2>6. /\ pipe' \in [Listeners -> Seq(Requests)]
        /\ \A l \in Listeners : Len(pipe'[l]) <= PipeCap /\ (pipe'[l] # <<>> => UsesPipe')
    <3>1. /\ PipeAfter(r, lost) \in [Listeners -> Seq(Requests)]
          /\ \A l \in Listeners : /\ Len(PipeAfter(r, lost)[l]) <= PipeCap
                                  /\ PipeAfter(r, lost)[l] # <<>> => UsesPipe
      BY PipeStep
    <3>2. CASE pipe' = pipe
      BY <3>2, <2>5, <1>0
    <3>3. CASE pipe' = PipeAfter(r, lost)
      BY <3>3, <2>5, <3>1
    <3> QED BY <3>2, <3>3, <2>4
  <2> QED BY <2>3, <2>6, <1>0, <1>9 DEF ServerTypeOK, Cards, Reply, Destroy
<1>10. ASSUME NEW r \in Requests, Submit(r) \/ Take(r) \/ Finish(r)
       PROVE  ServerTypeOK'
  <2>1. Absent \in Cards
    BY <1>2 DEF Absent, Cards
  <2>2. \A a \in {"queue", "worker"} : [req[r] EXCEPT !.at = a] \in Cards
    BY <1>0, CardSteps
  <2>3. \/ req' = [req EXCEPT ![r] = [req[r] EXCEPT !.at = "queue"]]
        \/ req' = [req EXCEPT ![r] = [req[r] EXCEPT !.at = "worker"]]
        \/ req' = [req EXCEPT ![r] = Absent]
    BY <1>10, <1>0 DEF Submit, Take, Finish
  <2>4. req' \in [Requests -> Cards]
    BY <1>0, <2>1, <2>2, <2>3
  <2> QED BY <2>4, <1>10, <1>0 DEF Submit, Take, Finish, ServerTypeOK, Cards, UsesPipe
<1>11. CASE UNCHANGED serverVars
  BY <1>0, <1>11 DEF serverVars, UsesPipe
<1> QED BY <1>3, <1>4, <1>5, <1>6, <1>7, <1>8, <1>9, <1>10, <1>11
        DEF ServerNext, MainStep, ServerTypeOK, Cards

\* The server's variables keep their types, no eventfd pipe holds more than it has room for,
\* and only an asynchronous server with the async_reply_mechanism has anything in one.
THEOREM ServerTypeCorrect == ServerSpec => []ServerTypeOK
<1>1. ServerInit => ServerTypeOK
  BY ModeAssumption, ServerTypeInit
<1>2. ServerTypeOK /\ [ServerNext]_serverVars => ServerTypeOK'
  BY ModeAssumption, ServerTypeStep
<1> QED BY <1>1, <1>2, PTL DEF ServerSpec

-----------------------------------------------------------------------------
\* Request r is the i-th in the pipe of listener l.
InPipe(l, i, r) == i \in DOMAIN pipe[l] /\ pipe[l][i] = r

\* What keeps a reply from being sent twice: a request is in one place of one pipe at most, and
\* only between its reply and the send; none that has not replied was ever sent.
Once(r) ==
  /\ req[r].sends <= 1
  /\ ~req[r].replied => req[r].sends = 0
  /\ req[r].at = "none" => ~req[r].replied
  /\ \A l \in Listeners, i \in Nat : InPipe(l, i, r) => req[r].replied /\ req[r].sends = 0
  /\ \A l, k \in Listeners, i, j \in Nat : InPipe(l, i, r) /\ InPipe(k, j, r) => l = k /\ i = j

OnceInv == \A r \in Requests : Once(r)

\* OnceInv is strong enough.
LEMMA OnceImplies == ServerTypeOK /\ OnceInv => OneReply
<1> SUFFICES ASSUME ServerTypeOK, OnceInv, NEW r \in Requests,
                    NEW l \in Listeners, NEW k \in Listeners,
                    NEW i \in DOMAIN pipe[l], NEW j \in DOMAIN pipe[k]
             PROVE  /\ req[r].sends <= 1
                    /\ pipe[l][i] = r /\ pipe[k][j] = r => req[r].sends = 0 /\ l = k /\ i = j
  BY DEF OneReply, OnceInv, Once
<1>1. i \in Nat /\ j \in Nat
  <2>1. pipe[l] \in Seq(Requests) /\ pipe[k] \in Seq(Requests)
    BY DEF ServerTypeOK
  <2>2. DOMAIN pipe[l] = 1 .. Len(pipe[l]) /\ DOMAIN pipe[k] = 1 .. Len(pipe[k])
    BY <2>1
  <2> QED BY <2>2
<1> QED BY <1>1 DEF OnceInv, Once, InPipe

\* At first there is no request at all.
LEMMA OnceInit == ServerInit => OnceInv
BY DEF ServerInit, OnceInv, Once, InPipe, Absent

\* A request whose record does not change keeps its part of OnceInv if its places in the
\* pipes do not become more.
LEMMA OnceKept ==
  ASSUME ServerTypeOK, OnceInv, NEW r \in Requests, req'[r] = req[r],
         \A l \in Listeners, i \in Nat : InPipe(l, i, r)' => InPipe(l, i, r)
  PROVE  Once(r)'
BY DEF OnceInv, Once

\* Every step keeps OnceInv: replies append to a pipe, asynccb sends what it takes out of one.
LEMMA OnceStep ==
  ASSUME Configurations, PipeCap \in Nat, ServerTypeOK, OnceInv, [ServerNext]_serverVars
  PROVE  OnceInv'
<1>1. ASSUME UNCHANGED <<req, pipe>> PROVE OnceInv'
  BY <1>1 DEF OnceInv, Once, InPipe
<1>2. ASSUME NEW l \in Listeners, Freed(l), UNCHANGED req PROVE OnceInv'
  <2>1. \A k \in Listeners : pipe'[k] = IF k = l THEN <<>> ELSE pipe[k]
    BY <1>2 DEF Freed, ServerTypeOK
  <2>2. \A r \in Requests, k \in Listeners, i \in Nat : InPipe(k, i, r)' => InPipe(k, i, r)
    BY <2>1 DEF InPipe
  <2> QED BY <1>2, <2>2, OnceKept DEF OnceInv
<1>3. ASSUME NEW l \in Listeners, Asynccb(l) PROVE OnceInv'
  <2> DEFINE h == Head(pipe[l])
  <2>1. pipe[l] # <<>>
    BY <1>3 DEF Asynccb
  <2>2. h \in Requests /\ InPipe(l, 1, h)
    BY <2>1, PipeTail DEF InPipe
  <2>3. \A k \in Listeners : pipe'[k] = IF k = l THEN Tail(pipe[l]) ELSE pipe[k]
    BY <1>3 DEF Asynccb, ServerTypeOK
  <2>4. \A r \in Requests, k \in Listeners, i \in Nat :
          InPipe(k, i, r)' => IF k = l THEN i # 0 /\ InPipe(l, i + 1, r) ELSE InPipe(k, i, r)
    <3> SUFFICES ASSUME NEW r \in Requests, NEW k \in Listeners, NEW i \in Nat, InPipe(k, i, r)'
                 PROVE  IF k = l THEN i # 0 /\ InPipe(l, i + 1, r) ELSE InPipe(k, i, r)
      OBVIOUS
    <3>1. CASE k = l
      <4>1. i \in DOMAIN Tail(pipe[l]) /\ Tail(pipe[l])[i] = r
        BY <3>1, <2>3 DEF InPipe
      <4>2. i # 0 /\ i + 1 \in DOMAIN pipe[l] /\ pipe[l][i + 1] = r
        BY <4>1, <2>1, PipeTail
      <4> QED BY <4>2, <3>1 DEF InPipe
    <3>2. CASE k # l
      BY <3>2, <2>3 DEF InPipe
    <3> QED BY <3>1, <3>2
  <2>5. ASSUME NEW r \in Requests PROVE Once(r)'
    <3>1. \A k, m \in Listeners, i, j \in Nat :
            InPipe(k, i, r)' /\ InPipe(m, j, r)' => k = m /\ i = j
      <4> SUFFICES ASSUME NEW k \in Listeners, NEW m \in Listeners,
                          NEW i \in Nat, NEW j \in Nat,
                          InPipe(k, i, r)', InPipe(m, j, r)'
                   PROVE  k = m /\ i = j
        OBVIOUS
      <4> DEFINE a == IF k = l THEN i + 1 ELSE i
                 b == IF m = l THEN j + 1 ELSE j
      <4>1. a \in Nat /\ b \in Nat
        OBVIOUS
      <4>2. InPipe(k, a, r) /\ InPipe(m, b, r)
        BY <2>4
      <4>3. k = m /\ a = b
        BY <4>1, <4>2 DEF OnceInv, Once
      <4> QED BY <4>3
    <3>2. CASE r = h
      <4>1. req[r].replied /\ req[r].sends = 0
        BY <3>2, <2>2 DEF OnceInv, Once
      <4>2. req[r] \in Cards
        BY DEF ServerTypeOK, Cards
      <4>3. req'[r] = Sent(req[r])
        BY <1>3, <3>2 DEF Asynccb, ServerTypeOK
      <4>4. Sent(req[r]).sends = req[r].sends + 1 /\ Sent(req[r]).replied = req[r].replied
            /\ Sent(req[r]).at = req[r].at
        BY <4>2, CardSteps
      <4>5. req'[r].sends = 1 /\ req'[r].replied /\ req'[r].at = req[r].at
        BY <4>1, <4>3, <4>4
      <4>6. \A k \in Listeners, i \in Nat : ~InPipe(k, i, r)'
        <5> SUFFICES ASSUME NEW k \in Listeners, NEW i \in Nat, InPipe(k, i, r)' PROVE FALSE
          OBVIOUS
        <5>1. InPipe(l, 1, r)
          BY <3>2, <2>2
        <5>2. CASE k = l
          <6>1. InPipe(l, i + 1, r) /\ i # 0 /\ i + 1 \in Nat
            BY <5>2, <2>4
          <6>2. i + 1 = 1
            BY <6>1, <5>1 DEF OnceInv, Once
          <6> QED BY <6>1, <6>2
        <5>3. CASE k # l
          BY <5>3, <5>1, <2>4 DEF OnceInv, Once
        <5> QED BY <5>2, <5>3
      <4>7. req[r].at # "none"
        BY <4>1 DEF OnceInv, Once
      <4> QED BY <4>5, <4>6, <4>7 DEF Once
    <3>3. CASE r # h
      <4>1. req'[r] = req[r]
        BY <3>3, <1>3, <2>2 DEF Asynccb, ServerTypeOK
      <4>2. \A k \in Listeners, i \in Nat : InPipe(k, i, r)' => \E j \in Nat : InPipe(k, j, r)
        BY <2>4
      <4> QED BY <4>1, <4>2, <3>1 DEF Once, OnceInv
    <3> QED BY <3>2, <3>3
  <2> QED BY <2>5 DEF OnceInv
<1>4. ASSUME NEW l \in Listeners, NEW r \in Requests, Accept(l, r) PROVE OnceInv'
  <2>1. \A s \in Requests :
          req'[s] = IF s = r THEN [Absent EXCEPT !.at = "loop", !.listener = l] ELSE req[s]
    BY <1>4 DEF Accept, ServerTypeOK
  <2>2. \A s \in Requests, k \in Listeners, i \in Nat : InPipe(k, i, s)' <=> InPipe(k, i, s)
    BY <1>4 DEF Accept, InPipe
  <2>3. req[r].at = "none"
    BY <1>4 DEF Accept
  <2>4. \A k \in Listeners, i \in Nat : ~InPipe(k, i, r)
    BY <2>3 DEF OnceInv, Once
  <2>5. /\ req'[r].sends = 0 /\ req'[r].replied = FALSE /\ req'[r].at = "loop"
    BY <2>1 DEF Absent
  <2>6. Once(r)'
    BY <2>2, <2>4, <2>5 DEF Once
  <2>7. \A s \in Requests : s # r => Once(s)'
    BY <2>1, <2>2, OnceKept
  <2> QED BY <2>6, <2>7 DEF OnceInv
<1>5. ASSUME NEW r \in Requests, Reply(r) \/ (Destroy(r) /\ ~req[r].replied) PROVE OnceInv'
  <2>1. ~req[r].replied /\ req[r].at # "none"
    BY <1>5 DEF Reply, Destroy
  <2>3. \A s \in Requests : s # r => req'[s] = req[s]
    BY <1>5 DEF Reply, Destroy, ServerTypeOK
  <2>4. PICK lost \in BOOLEAN :
          /\ \/ req'[r] = Replied(req[r], lost)
             \/ req'[r] = [Replied(req[r], lost) EXCEPT !.at = "gone"]
          /\ pipe' = PipeAfter(r, lost)
    BY <1>5 DEF Reply, Destroy, ServerTypeOK
  <2>2. req[r] \in Cards /\ Replied(req[r], lost) \in Cards
    BY RepliedCard DEF ServerTypeOK, Cards
  <2>5. req[r].sends = 0 /\ \A l \in Listeners, i \in Nat : ~InPipe(l, i, r)
    BY <2>1 DEF OnceInv, Once
  <2>6. /\ Replied(req[r], lost).replied = TRUE /\ Replied(req[r], lost).at = req[r].at
        /\ Replied(req[r], lost).sends =
             IF lost \/ UsesPipe THEN req[r].sends ELSE req[r].sends + 1
    BY <2>2, RepliedCard
  <2>7. /\ req'[r].replied = TRUE /\ req'[r].at # "none"
        /\ req'[r].sends = IF lost \/ UsesPipe THEN 0 ELSE 1
    BY <2>1, <2>2, <2>4, <2>5, <2>6 DEF Cards
  <2>8. \A s \in Requests, l \in Listeners, i \in Nat :
          InPipe(l, i, s)' => \/ InPipe(l, i, s)
                              \/ s = r /\ l = req[r].listener /\ i = Len(pipe[l]) + 1 /\ UsesPipe
    <3>1. \A l \in Listeners, i \in Nat :
            i \in DOMAIN PipeAfter(r, lost)[l] =>
              \/ i \in DOMAIN pipe[l] /\ PipeAfter(r, lost)[l][i] = pipe[l][i]
              \/ /\ PipeAfter(r, lost)[l][i] = r /\ l = req[r].listener /\ i = Len(pipe[l]) + 1
                 /\ UsesPipe
      BY PipeStep
    <3>2. \A s \in Requests, l \in Listeners, i \in Nat :
            InPipe(l, i, s)' => i \in DOMAIN PipeAfter(r, lost)[l] /\ PipeAfter(r, lost)[l][i] = s
      BY <2>4 DEF InPipe
    <3> QED BY <3>1, <3>2 DEF InPipe
  <2>9. Once(r)'
    BY <2>5, <2>7, <2>8 DEF Once
  <2>10. \A s \in Requests : s # r => Once(s)'
    BY <2>3, <2>8, OnceKept
  <2> QED BY <2>9, <2>10 DEF OnceInv
<1>6. ASSUME NEW r \in Requests, Submit(r) \/ Take(r) \/ (Destroy(r) /\ req[r].replied)
      PROVE  OnceInv'
  <2>1. \A s \in Requests : s # r => req'[s] = req[s]
    BY <1>6 DEF Submit, Take, Destroy, ServerTypeOK
  <2>2. pipe' = pipe
    BY <1>6 DEF Submit, Take, Destroy
  <2>3. \E a \in {"queue", "worker", "gone"} : req'[r] = [req[r] EXCEPT !.at = a]
    BY <1>6 DEF Submit, Take, Destroy, ServerTypeOK
  <2>4. req'[r].sends = req[r].sends /\ req'[r].replied = req[r].replied /\ req'[r].at # "none"
    BY <2>3 DEF ServerTypeOK
  <2> QED BY <2>1, <2>2, <2>4 DEF OnceInv, Once, InPipe
<1>7. ASSUME NEW r \in Requests, Finish(r) PROVE OnceInv'
  <2>1. \A s \in Requests : s # r => req'[s] = req[s]
    BY <1>7 DEF Finish, ServerTypeOK
  <2>2. req'[r] = Absent /\ pipe' = pipe
    BY <1>7 DEF Finish, ServerTypeOK
  <2>3. \A l \in Listeners, i \in Nat : ~InPipe(l, i, r)
    BY <1>7 DEF Finish, InPipe
  <2>4. Once(r)'
    BY <2>2, <2>3 DEF Once, InPipe, Absent
  <2> QED BY <2>1, <2>2, <2>4 DEF OnceInv, Once, InPipe
<1>8. Primary \in Listeners
  BY PrimaryListens DEF ServerTypeOK, ServerInit
<1> QED
  BY <1>1, <1>2, <1>3, <1>4, <1>5, <1>6, <1>7, <1>8
  DEF ServerNext, MainStep, EnterLoop, LeaveLoop, Joined, DestroyPool, DestroyServer,
      Signal, Stop,
      StartListener, SetUp, DonecheckCb, ListenerEnds, serverVars

\* evhttp_send_reply is called at most once for a request, whichever thread replies and however
\* the reply travels; a request in a pipe has not been sent, and is in one place only.
THEOREM RepliesOnce == ServerSpec => []OneReply
<1>1. ServerInit => ServerTypeOK /\ OnceInv
  BY ModeAssumption, ServerTypeInit, OnceInit
<1>2. ServerTypeOK /\ OnceInv /\ [ServerNext]_serverVars => (ServerTypeOK /\ OnceInv)'
  BY ModeAssumption, ServerTypeStep, OnceStep
<1> QED BY <1>1, <1>2, OnceImplies, PTL DEF ServerSpec

-----------------------------------------------------------------------------
\* What keeps the memory of a request: its listener's loop runs while it is there; the main
\* thread's event base outlives the pool; another listener ends only when the server is done, or
\* was idle for long enough.
HeldRequest(r) ==
  /\ InLoop(r) => loop[req[r].listener] = "running"
  /\ req[r].at \in {"queue", "worker"} => mode.async /\ main \notin {"pool_gone", "gone"}
  /\ Owned(r) =>
       /\ loop[req[r].listener] \in {"running", "broken", "freed"}
       /\ req[r].listener # Primary /\ loop[req[r].listener] # "running" => done \/ mode.idle

Held ==
  /\ loop[Primary] # "none"
  /\ loop[Primary] = "freed" => main = "gone"
  /\ main \in {"joining", "returned", "pool_gone", "gone"} =>
       loop[Primary] \in {"broken", "freed"}
  /\ main \in {"returned", "pool_gone", "gone"} =>
       \A l \in Listeners : l # Primary => loop[l] \in {"none", "freed"}
  /\ \A l \in Listeners : loop[l] # "none" => l <= mode.nlisteners
  /\ \A r \in Requests : HeldRequest(r)

\* Held is strong enough.
LEMMA HeldImplies == Configurations /\ ServerTypeOK /\ Held => ValidUntilShutdown
<1> SUFFICES ASSUME Configurations, ServerTypeOK, Held, NEW r \in Requests, Dangling(r)
             PROVE  /\ ~InLoop(r) /\ req[r].listener # Primary
                    /\ mode.async /\ mode.nlisteners > 1
                    /\ done \/ mode.idle
  BY DEF ValidUntilShutdown
<1>1. HeldRequest(r) /\ Owned(r) /\ loop[req[r].listener] = "freed"
  BY DEF Held, Dangling
<1>2. req[r].at \in {"queue", "worker"} /\ ~InLoop(r)
  BY <1>1 DEF HeldRequest, Owned, InLoop
<1>3. req[r].listener # Primary /\ mode.async /\ (done \/ mode.idle)
  BY <1>1, <1>2 DEF HeldRequest, Held
<1>4. req[r].listener \in Listeners /\ mode.nlisteners \in Nat /\ Listeners \subseteq Nat \ {0}
  BY DEF ServerTypeOK, Configurations, Listeners
<1>5. req[r].listener <= mode.nlisteners
  BY <1>1, <1>4 DEF Held
<1>6. mode.nlisteners > 1
  <2>1. req[r].listener # 1
    BY <1>3 DEF Primary
  <2>2. req[r].listener \in Nat /\ req[r].listener # 0
    BY <1>4
  <2> QED BY <2>1, <2>2, <1>4, <1>5
<1> QED BY <1>2, <1>3, <1>6, Zenon

\* At first no loop has ended.
LEMMA HeldInit ==
  ASSUME Configurations, ServerTypeOK, ServerInit
  PROVE  Held
<1>8. Primary \in Listeners
  BY PrimaryListens DEF ServerTypeOK, ServerInit
<1>9. mode.nlisteners >= 1
  BY DEF Configurations, ServerTypeOK
<1>10. \A r \in Requests : HeldRequest(r)
  BY DEF HeldRequest, ServerInit, InLoop, Owned, Absent
<1> QED BY <1>8, <1>9, <1>10 DEF Held, ServerInit, Primary

\* A step that changes requests only, and none but r, keeps Held if it keeps r's part.
LEMMA HeldKept ==
  ASSUME Held, UNCHANGED <<mode, main, done, loop>>, NEW r \in Requests, HeldRequest(r)',
         \A s \in Requests : s # r => /\ req'[s].at = req[s].at
                                      /\ req'[s].listener = req[s].listener
  PROVE  Held'
<1>1. \A s \in Requests : s # r => HeldRequest(s)'
  BY DEF Held, HeldRequest, InLoop, Owned
<1> QED BY <1>1 DEF Held

\* Every step keeps Held: a loop ends only without requests in it, and the pool before the
\* server.
LEMMA HeldStep ==
  ASSUME Configurations, PipeCap \in Nat, ServerTypeOK, Held, [ServerNext]_serverVars
  PROVE  Held'
<1>8. Primary \in Listeners
  BY PrimaryListens DEF ServerTypeOK, ServerInit
<1>0. \A r \in Requests : HeldRequest(r) /\ req[r].listener \in Listeners
  BY DEF Held, ServerTypeOK
<1>1. CASE EnterLoop
  <2>1. \A r \in Requests : HeldRequest(r)'
    BY <1>0, <1>1, <1>8 DEF EnterLoop, HeldRequest, InLoop, Owned, ServerTypeOK
  <2> QED BY <2>1, <1>1, <1>8 DEF EnterLoop, Held, ServerTypeOK
<1>2. CASE LeaveLoop \/ Joined
  <2>1. \A r \in Requests : HeldRequest(r)'
    BY <1>0, <1>2 DEF LeaveLoop, Joined, HeldRequest, InLoop, Owned
  <2> QED BY <2>1, <1>2 DEF LeaveLoop, Joined, Held
<1>3. CASE DestroyPool \/ Stop
  <2>1. \A r \in Requests : HeldRequest(r)'
    BY <1>0, <1>3 DEF DestroyPool, Stop, HeldRequest, InLoop, Owned
  <2> QED BY <2>1, <1>3 DEF DestroyPool, Stop, Held
<1>4. CASE DestroyServer
  <2>1. loop[Primary] \in {"broken", "freed"} /\ main = "pool_gone" /\ main' = "gone"
    BY <1>4 DEF DestroyServer, Held
  <2>2. loop' = [loop EXCEPT ![Primary] = "freed"] /\ UNCHANGED <<mode, done, req>>
    BY <1>4 DEF DestroyServer, Freed
  <2>4. \A r \in Requests : ~Owned(r)
    BY <1>0, <1>4, <2>1 DEF Held, HeldRequest, Owned, InLoop
  <2>3. \A r \in Requests : HeldRequest(r)'
    BY <2>2, <2>4 DEF HeldRequest, InLoop, Owned
  <2> QED BY <2>1, <2>2, <2>3, <1>8 DEF Held, ServerTypeOK
<1>5. CASE Signal
  <2>1. \A r \in Requests : HeldRequest(r)'
    BY <1>0, <1>5, <1>8 DEF Signal, Ready, HeldRequest, InLoop, Owned, ServerTypeOK
  <2> QED BY <2>1, <1>5, <1>8 DEF Signal, Ready, Held, ServerTypeOK
<1>6. ASSUME NEW l \in Listeners, StartListener(l) PROVE Held'
  <2>1. loop[l] = "none" /\ l # Primary /\ l <= mode.nlisteners /\ main = "starting"
    BY <1>6 DEF StartListener, Held
  <2>2. \A r \in Requests : HeldRequest(r)'
    BY <1>0, <1>6, <2>1 DEF StartListener, HeldRequest, InLoop, Owned, ServerTypeOK
  <2> QED BY <1>6, <2>1, <2>2, <1>8 DEF StartListener, Held, ServerTypeOK
<1>7. ASSUME NEW l \in Listeners, SetUp(l) \/ ListenerEnds(l) PROVE Held'
  <2>1. l # Primary /\ UNCHANGED <<mode, main, done, req>>
    BY <1>7 DEF SetUp, ListenerEnds
  <2>2. \/ loop[l] = "setup" /\ \E x \in {"running", "freed"} : loop' = [loop EXCEPT ![l] = x]
        \/ loop[l] = "broken" /\ loop' = [loop EXCEPT ![l] = "freed"]
    BY <1>7 DEF SetUp, ListenerEnds, Freed
  <2>3. /\ \A k \in Listeners : k # l => loop'[k] = loop[k]
        /\ loop'[l] \in {"running", "freed"} /\ loop[l] \in {"setup", "broken"}
        /\ loop[l] = "broken" => loop'[l] = "freed"
    BY <2>2 DEF ServerTypeOK
  <2>4. ASSUME NEW r \in Requests PROVE HeldRequest(r)'
    BY <1>0, <2>1, <2>3 DEF HeldRequest, InLoop, Owned
  <2> QED BY <2>1, <2>3, <2>4, <1>8 DEF Held
<1>9. ASSUME NEW l \in Listeners, DonecheckCb(l) PROVE Held'
  <2>1. \A r \in Requests : HeldRequest(r)'
    BY <1>0, <1>9, <1>8 DEF DonecheckCb, Ready, HeldRequest, InLoop, Owned, ServerTypeOK
  <2> QED BY <2>1, <1>9, <1>8 DEF DonecheckCb, Ready, Held, ServerTypeOK
<1>10. ASSUME NEW l \in Listeners, Asynccb(l) PROVE Held'
  <2> DEFINE h == Head(pipe[l])
  <2>1. h \in Requests
    BY <1>10, PipeTail DEF Asynccb
  <2>2. req'[h].at = req[h].at /\ req'[h].listener = req[h].listener
    <3>1. req'[h] = Sent(req[h]) /\ req[h] \in Cards
      BY <1>10, <2>1 DEF Asynccb, ServerTypeOK, Cards
    <3> QED BY <3>1, CardSteps
  <2>3. \A r \in Requests : r # h => req'[r] = req[r]
    BY <1>10, <2>1 DEF Asynccb, ServerTypeOK
  <2>4. UNCHANGED <<mode, main, done, loop>>
    BY <1>10 DEF Asynccb
  <2>5. \A r \in Requests : req'[r].at = req[r].at /\ req'[r].listener = req[r].listener
    BY <2>2, <2>3
  <2>6. \A r \in Requests : HeldRequest(r)'
    BY <1>0, <2>4, <2>5 DEF HeldRequest, InLoop, Owned
  <2> QED BY <2>1, <2>4, <2>5, <2>6, HeldKept
<1>11. ASSUME NEW l \in Listeners, NEW r \in Requests, Accept(l, r) PROVE Held'
  <2>1. \A s \in Requests : s # r => req'[s] = req[s]
    BY <1>11 DEF Accept, ServerTypeOK
  <2>2. req'[r].at = "loop" /\ req'[r].listener = l
    BY <1>11 DEF Accept, ServerTypeOK, Absent
  <2>3. loop[l] = "running" /\ UNCHANGED <<mode, main, done, loop>>
    BY <1>11 DEF Accept, Ready
  <2>4. HeldRequest(r)'
    BY <2>2, <2>3 DEF HeldRequest, InLoop, Owned
  <2> QED BY <2>1, <2>3, <2>4, HeldKept
<1>12. ASSUME NEW r \in Requests, Reply(r) \/ Destroy(r) PROVE Held'
  <2>1. \A s \in Requests : s # r => req'[s] = req[s]
    BY <1>12 DEF Reply, Destroy, ServerTypeOK
  <2>4. PICK lost \in BOOLEAN : \/ req'[r] = Replied(req[r], lost)
                                \/ req'[r] = [Replied(req[r], lost) EXCEPT !.at = "gone"]
                                \/ req'[r] = [req[r] EXCEPT !.at = "gone"]
    BY <1>12 DEF Reply, Destroy, ServerTypeOK
  <2>2. req[r] \in Cards /\ Replied(req[r], lost) \in Cards
    BY RepliedCard DEF ServerTypeOK, Cards
  <2>3. /\ Replied(req[r], lost).at = req[r].at
        /\ Replied(req[r], lost).listener = req[r].listener
    BY <2>2, RepliedCard
  <2>5. (req'[r].at = req[r].at \/ req'[r].at = "gone") /\ req'[r].listener = req[r].listener
    BY <2>2, <2>3, <2>4 DEF Cards
  <2>6. UNCHANGED <<mode, main, done, loop>>
    BY <1>12 DEF Reply, Destroy
  <2>7. HeldRequest(r)'
    BY <1>0, <2>5, <2>6 DEF HeldRequest, InLoop, Owned
  <2> QED BY <2>1, <2>6, <2>7, HeldKept
<1>13. ASSUME NEW r \in Requests, Submit(r) PROVE Held'
  <2>1. \A s \in Requests : s # r => req'[s] = req[s]
    BY <1>13 DEF Submit, ServerTypeOK
  <2>2. req'[r].at = "queue" /\ req'[r].listener = req[r].listener
    BY <1>13 DEF Submit, ServerTypeOK
  <2>3. mode.async /\ loop[req[r].listener] = "running" /\ UNCHANGED <<mode, main, done, loop>>
    BY <1>13, <1>0 DEF Submit, HeldRequest, InLoop
  <2>4. main \notin {"pool_gone", "gone"}
    BY <2>3, <1>0 DEF Held
  <2>5. HeldRequest(r)'
    BY <2>2, <2>3, <2>4 DEF HeldRequest, InLoop, Owned
  <2> QED BY <2>1, <2>3, <2>5, HeldKept
<1>14. ASSUME NEW r \in Requests, Take(r) \/ Finish(r) PROVE Held'
  <2>1. \A s \in Requests : s # r => req'[s] = req[s]
    BY <1>14 DEF Take, Finish, ServerTypeOK
  <2>2. \/ req[r].at = "queue" /\ req'[r].at = "worker" /\ req'[r].listener = req[r].listener
        \/ req'[r].at = "none"
    <3>1. CASE Take(r)
      BY <3>1 DEF Take, ServerTypeOK
    <3>2. CASE Finish(r)
      BY <3>2 DEF Finish, Absent, ServerTypeOK
    <3> QED BY <3>1, <3>2, <1>14
  <2>3. UNCHANGED <<mode, main, done, loop>>
    BY <1>14 DEF Take, Finish
  <2>4. HeldRequest(r)'
    BY <1>0, <2>2, <2>3 DEF HeldRequest, InLoop, Owned
  <2> QED BY <2>1, <2>3, <2>4, HeldKept
<1>15. CASE UNCHANGED serverVars
  BY <1>15 DEF serverVars, Held, HeldRequest, InLoop, Owned
<1> QED BY <1>1, <1>2, <1>3, <1>4, <1>5, <1>6, <1>7, <1>9, <1>10, <1>11, <1>12, <1>13, <1>14, <1>15
        DEF ServerNext, MainStep

\* Whatever the configuration, no event base is freed under a request of the main thread's
\* listener, nor under one that is handled in its loop, in a shutdown too; and none is freed
\* under any request while the server serves.  What is left is a request that the pool has for
\* another listener at the time that the server ends.
THEOREM RequestsStayValid == ServerSpec => []ValidUntilShutdown
<1>1. ServerInit => ServerTypeOK /\ Held
  BY ModeAssumption, ServerTypeInit, HeldInit
<1>2. ServerTypeOK /\ Held /\ [ServerNext]_serverVars => (ServerTypeOK /\ Held)'
  BY ModeAssumption, ServerTypeStep, HeldStep
<1>3. ServerTypeOK /\ Held => ValidUntilShutdown
  BY ModeAssumption, HeldImplies
<1> QED BY <1>1, <1>2, <1>3, PTL DEF ServerSpec
=============================================================================
