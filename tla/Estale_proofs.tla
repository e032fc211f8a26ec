--------------------------- MODULE Estale_proofs ---------------------------
(***************************************************************************)
(* Safety of the ESTALE protocol, for any number of threads and of files.  *)
(*                                                                         *)
(* OneFile and EstaleIsTrue are not inductive.  The invariant below adds   *)
(* that no cache may answer the retry, and that its history tells of every *)
(* file that the server might answer it with.  A second mismatch is then   *)
(* with a file that the name had since the retry began.                    *)
(*                                                                         *)
(* Then the properties of module Readdir, whose chunks come through the    *)
(* same protocol, for any directory: Shape, Forward and Still below make   *)
(* ReaddirTypeOK, StableOnce and OffsetsMeanOnePlace inductive.            *)
(***************************************************************************)
EXTENDS Estale, Readdir, Integers, Sequences, TLAPS

Doomed == {"inval", "flush", "flush ask", "flush receive", "throw"}

\* What holds of each thread when the server's answer is s.
GoodThread(th, s) ==
    /\ th.pc \in {"receive", "return", "flush receive"} => th.reply \in Replies
    /\ th.pc = "insert" => th.reply \in Cookies
    /\ th.pc \in {"ask", "mismatch"} /\ th.second =>
         th.no_cache /\ (Elsewhere(th.ino, s) => th.away)
    /\ th.pc = "receive" /\ th.second /\ Elsewhere(th.ino, th.reply) => th.away
    /\ th.pc \in Doomed => th.away
    /\ th.pc \in {"insert", "return"} /\ th.ino # 0 => th.reply \in {th.ino, Enoent}

SharedOK == /\ born \in Cookies
            /\ server \in 1 .. born \cup {Enoent}
            /\ web \in [Urls -> Replies \cup {None}]
            /\ attrcache \in Cookies \cup {None}
            /\ entry \in Replies \cup {None}
            /\ inval \in BOOLEAN

ThreadsOK == /\ thread \in [Threads -> Thread]
             /\ \A t \in Threads : GoodThread(thread[t], server)

IInv == SharedOK /\ ThreadsOK

\* What a step leaves alone.
Rest == <<originVars, web, attrcache, entry, inval>>

\* Replacing one thread's record by a good one keeps all of them good.
LEMMA ThreadReplaced ==
    ASSUME ThreadsOK, NEW t \in Threads, NEW th \in Thread,
           GoodThread(th, server), server' = server,
           thread' = [thread EXCEPT ![t] = th]
    PROVE  ThreadsOK'
<1> USE DEF ThreadsOK
<1>1. thread' \in [Threads -> Thread]
  OBVIOUS
<1>2. ASSUME NEW s \in Threads
      PROVE  GoodThread(thread'[s], server')
  <2>1. CASE s = t
    <3>1. thread'[s] = th
      BY <2>1
    <3> QED
      BY <3>1
  <2>2. CASE s # t
    <3>1. thread'[s] = thread[s]
      BY <2>2
    <3> QED
      BY <3>1
  <2> QED
    BY <2>1, <2>2
<1> QED
  BY <1>1, <1>2

\* A record of a call that begins.
LEMMA CallIsGood ==
    ASSUME NEW ino \in 0 .. MaxCookie, NEW nc \in BOOLEAN, NEW s
    PROVE  /\ Call(ino, nc) \in Thread
           /\ GoodThread(Call(ino, nc), s)
           /\ [Call(ino, nc) EXCEPT !.url = "f"] \in Thread
           /\ GoodThread([Call(ino, nc) EXCEPT !.url = "f"], s)
BY DEF Call, Thread, GoodThread, PCs, Urls, Doomed, Replies

LEMMA IdleIsGood ==
    ASSUME NEW s
    PROVE  Idle \in Thread /\ GoodThread(Idle, s)
<1> 0 \in 0 .. MaxCookie
  BY CookieAssumption
<1> QED
  BY DEF Idle, Call, Thread, GoodThread, PCs, Urls, Doomed, Replies

LEMMA SharedKept == SharedOK /\ UNCHANGED Rest => SharedOK' /\ server' = server
<1> SUFFICES ASSUME SharedOK, UNCHANGED Rest
             PROVE  SharedOK' /\ server' = server
  OBVIOUS
<1>1. /\ born' = born /\ server' = server /\ web' = web
      /\ attrcache' = attrcache /\ entry' = entry /\ inval' = inval
  BY DEF Rest, originVars
<1> QED
  BY <1>1, Zenon DEF SharedOK

\* The server answers with a cookie that is in use, or with ENOENT.
LEMMA ServerReplies ==
    ASSUME SharedOK
    PROVE  server \in Replies
<1>1. born \in Nat /\ born <= MaxCookie
  BY CookieAssumption DEF SharedOK, Cookies
<1>2. 1 .. born \subseteq 1 .. MaxCookie
  BY <1>1, CookieAssumption
<1> QED
  BY <1>2 DEF SharedOK, Replies, Cookies

\* What a thread becomes with a reply; that to a retry is from the server.
LEMMA CheckIsGood ==
    ASSUME SharedOK, NEW th \in Thread, GoodThread(th, server),
           NEW reply \in Replies,
           th.pc \in {"ask", "receive"},
           th.second /\ Elsewhere(th.ino, reply) => th.away
    PROVE  Check(th, reply) \in Thread /\ GoodThread(Check(th, reply), server)
<1>0. /\ None \notin Cookies /\ Enoent \notin Cookies /\ None # Enoent
      /\ reply # Enoent => reply \in Cookies
  BY CookieAssumption, ReplyAssumption DEF Cookies, Replies
<1> DEFINE pc == IF th.url = "a" /\ reply # Enoent THEN "insert" ELSE "return"
           fail == [Over(th, "inval", None) EXCEPT !.away = th.away]
<1>4. Elsewhere(th.ino, server) \in BOOLEAN
  BY DEF Elsewhere, Mismatch
<1>1. CASE (reply # Enoent /\ Mismatch(th.ino, reply)) /\ th.second
  <2>1. Check(th, reply) = fail
    BY <1>1 DEF Check
  <2>2. th.away
    BY <1>1 DEF Elsewhere
  <2>3. fail \in Thread /\ fail.pc = "inval" /\ fail.away = th.away
    BY DEF Over, Call, Thread, PCs, Urls
  <2> HIDE DEF fail
  <2>4. GoodThread(fail, server)
    BY <2>2, <2>3 DEF GoodThread, Doomed
  <2> QED
    BY <2>1, <2>3, <2>4
<1>2. CASE (reply # Enoent /\ Mismatch(th.ino, reply)) /\ ~th.second
  <2>1. Check(th, reply) = Retry(th)
    BY <1>2 DEF Check
  <2>2. /\ Retry(th) \in Thread
        /\ Retry(th).pc = "ask" /\ Retry(th).no_cache = TRUE /\ Retry(th).ino = th.ino
        /\ Retry(th).away = Elsewhere(th.ino, server)
    BY <1>4 DEF Retry, Again, Thread, PCs
  <2>3. GoodThread(Retry(th), server)
    BY <2>2 DEF GoodThread, Doomed
  <2> QED
    BY <2>1, <2>2, <2>3
<1>3. CASE ~(reply # Enoent /\ Mismatch(th.ino, reply))
  <2>1. Check(th, reply) = Over(th, pc, reply)
    BY <1>3 DEF Check
  <2>2. /\ Over(th, pc, reply) \in Thread
        /\ Over(th, pc, reply).pc = pc /\ Over(th, pc, reply).reply = reply
        /\ Over(th, pc, reply).ino = th.ino
    BY DEF Over, Call, Thread, PCs, Urls
  <2>3. GoodThread(Over(th, pc, reply), server)
    BY <1>0, <1>3, <2>2 DEF GoodThread, Doomed, Mismatch
  <2> QED
    BY <2>1, <2>2, <2>3
<1> QED
  BY <1>1, <1>2, <1>3

----------------------------------------------------------------------------
\* The inductive invariant.

LEMMA InitIsGood == Init => IInv
<1> SUFFICES ASSUME Init PROVE IInv
  OBVIOUS
<1>1. 1 \in Cookies /\ None \notin Cookies
  BY CookieAssumption, ReplyAssumption DEF Cookies
<1>2. SharedOK
  <2>1. 1 \in 1 .. 1
    OBVIOUS
  <2>2. web \in [Urls -> Replies \cup {None}]
    BY DEF Init
  <2>3. born = 1 /\ server = 1 /\ attrcache = None /\ entry = None /\ inval = FALSE
    BY DEF Init
  <2>4. server \in 1 .. born \cup {Enoent}
    BY <2>1, <2>3
  <2> QED
    BY <1>1, <2>2, <2>3, <2>4, Zenon DEF SharedOK
<1>3. Idle \in Thread /\ GoodThread(Idle, server)
  BY IdleIsGood
<1>4. thread \in [Threads -> Thread] /\ \A t \in Threads : GoodThread(thread[t], server)
  BY <1>3 DEF Init
<1> QED
  BY <1>2, <1>4 DEF IInv, ThreadsOK

\* The history of the threads keeps up with the server.
LEMMA NotedIsGood ==
    ASSUME ThreadsOK, NEW s, thread' = Noted(s), server' = s
    PROVE  ThreadsOK'
<1>1. ASSUME NEW t \in Threads
      PROVE  thread'[t] \in Thread /\ GoodThread(thread'[t], s)
  <2> DEFINE b == thread[t].away \/ (thread[t].second /\ Elsewhere(thread[t].ino, s))
  <2>1. thread[t] \in Thread /\ GoodThread(thread[t], server)
    BY DEF ThreadsOK
  <2>2. b \in BOOLEAN
    BY <2>1 DEF Thread
  <2>3. thread'[t] = [thread[t] EXCEPT !.away = b]
    BY DEF Noted
  <2>4. /\ b <=> thread[t].away \/ (thread[t].second /\ Elsewhere(thread[t].ino, s))
    OBVIOUS
  <2> HIDE DEF b
  <2>5. /\ thread'[t] \in Thread /\ thread'[t].away = b
        /\ thread'[t].pc = thread[t].pc /\ thread'[t].ino = thread[t].ino
        /\ thread'[t].reply = thread[t].reply /\ thread'[t].second = thread[t].second
        /\ thread'[t].no_cache = thread[t].no_cache
    BY <2>1, <2>2, <2>3 DEF Thread
  <2>6. GoodThread(thread'[t], s)
    BY <2>1, <2>4, <2>5, Zenon DEF GoodThread
  <2> QED
    BY <2>5, <2>6
<1>2. thread' = [t \in Threads |-> thread'[t]]
  BY DEF Noted
<1> QED
  BY <1>1, <1>2 DEF ThreadsOK

LEMMA NewFileStep == IInv /\ (NewFile \/ RenameBack) => IInv'
<1> SUFFICES ASSUME IInv, NewFile \/ RenameBack PROVE IInv'
  OBVIOUS
<1>1. SharedOK /\ ThreadsOK
  BY DEF IInv
<1>2. /\ born' \in Cookies /\ server' \in 1 .. born' \cup {Enoent}
      /\ thread' = Noted(server')
      /\ web' = web /\ attrcache' = attrcache /\ entry' = entry /\ inval' = inval
  <2>1. CASE NewFile
    BY <1>1, <2>1, CookieAssumption DEF NewFile, SharedOK, Cookies
  <2>2. CASE RenameBack
    BY <1>1, <2>2 DEF RenameBack, SharedOK
  <2> QED
    BY <2>1, <2>2
<1>3. SharedOK'
  BY <1>1, <1>2, Zenon DEF SharedOK
<1>4. ThreadsOK'
  BY <1>1, <1>2, NotedIsGood
<1> QED
  BY <1>3, <1>4 DEF IInv

\* To remove a file is nothing that a thread must know of; the caches do not touch them.
LEMMA EnvironmentStep == IInv /\ (Unlink \/ Forget \/ InvalEntry) => IInv'
<1> SUFFICES ASSUME IInv, Unlink \/ Forget \/ InvalEntry PROVE IInv'
  OBVIOUS
<1>1. SharedOK /\ ThreadsOK
  BY DEF IInv
<1>2. thread' = thread /\ born' = born /\ server' \in {server, Enoent}
  BY DEF Unlink, Forget, InvalEntry, originVars
<1>3. SharedOK'
  <2>1. CASE Unlink
    BY <1>1, <2>1, Zenon DEF Unlink, SharedOK
  <2>2. CASE InvalEntry
    BY <1>1, <2>2, Zenon DEF InvalEntry, SharedOK, originVars
  <2>3. CASE Forget
    <3>1. /\ server' = server /\ inval' = inval
          /\ attrcache' \in {attrcache, None} /\ entry' \in {entry, None}
          /\ web' \in [Urls -> Replies \cup {None}]
      BY <1>1, <2>3 DEF Forget, SharedOK, originVars
    <3> QED
      BY <1>1, <1>2, <3>1, Zenon DEF SharedOK
  <2> QED
    BY <2>1, <2>2, <2>3
<1>4. ASSUME NEW t \in Threads PROVE GoodThread(thread'[t], server')
  <2>1. GoodThread(thread[t], server)
    BY <1>1 DEF ThreadsOK
  <2>2. Elsewhere(thread[t].ino, server') => Elsewhere(thread[t].ino, server)
    BY <1>2 DEF Elsewhere
  <2> QED
    BY <1>2, <2>1, <2>2, Zenon DEF GoodThread
<1> QED
  BY <1>1, <1>2, <1>3, <1>4 DEF IInv, ThreadsOK

\* One step for each action of a thread.
LEMMA ThreadStep ==
    ASSUME IInv, NEW t \in Threads,
           \/ Lookup(t) \/ Step(t)
           \/ \E nc \in BOOLEAN : Getattr(t, nc) \/ Read(t, nc)
    PROVE  IInv'
<1>1. SharedOK /\ ThreadsOK
  BY DEF IInv
<1>2. thread[t] \in Thread /\ GoodThread(thread[t], server)
  BY <1>1 DEF ThreadsOK
<1>4. Cookies \subseteq Nat /\ None \notin Cookies /\ Enoent \notin Cookies /\ 0 \in 0 .. MaxCookie
  BY ReplyAssumption, CookieAssumption DEF Cookies
\* A step that keeps the shared state right and gives t a good record.
<1>7. ASSUME NEW th \in Thread, GoodThread(th, server), SharedOK', server' = server,
             thread' = [thread EXCEPT ![t] = th]
      PROVE  IInv'
  BY <1>1, <1>7, ThreadReplaced DEF IInv
<1>8. ASSUME NEW th \in Thread, GoodThread(th, server), th.pc = "ask",
             Begetattr(t, th), UNCHANGED <<originVars, web, entry, inval>>
      PROVE  IInv'
  <2>1. server' = server
    BY <1>8 DEF originVars
  <2>2. attrcache' \in {attrcache, None}
    BY <1>8 DEF Begetattr
  <2>3. SharedOK'
    BY <1>1, <1>8, <2>2, Zenon DEF SharedOK, originVars
  <2>4. PICK nt : /\ thread' = [thread EXCEPT ![t] = nt]
                  /\ \/ nt = th
                     \/ nt = [th EXCEPT !.pc = "mismatch"]
                     \/ /\ attrcache # None /\ ~Mismatch(th.ino, attrcache)
                        /\ nt = [th EXCEPT !.pc = "return", !.reply = attrcache]
    BY <1>8 DEF Begetattr
  <2>5. attrcache # None => attrcache \in Cookies
    BY <1>1 DEF SharedOK
  <2>6. nt \in Thread
    BY <2>4, <2>5 DEF Thread, PCs, Replies
  <2>7. GoodThread(nt, server)
    <3>1. CASE nt = th
      BY <3>1, <1>8
    <3>2. CASE nt = [th EXCEPT !.pc = "mismatch"]
      BY <3>2, <1>8, <1>4 DEF GoodThread, Thread, Doomed
    <3>3. CASE /\ attrcache # None /\ ~Mismatch(th.ino, attrcache)
               /\ nt = [th EXCEPT !.pc = "return", !.reply = attrcache]
      BY <3>3, <1>8, <1>4, <2>5 DEF GoodThread, Thread, Doomed, Mismatch, Replies
    <3> QED
      BY <2>4, <3>1, <3>2, <3>3
  <2> QED
    BY <2>1, <2>3, <2>4, <2>6, <2>7, <1>7
<1>9. CASE Lookup(t)
  <2>1. Call(0, FALSE) \in Thread /\ GoodThread(Call(0, FALSE), server) /\ Call(0, FALSE).pc = "ask"
    <3>1. Call(0, FALSE).pc = "ask"
      BY DEF Call
    <3> QED
      BY <3>1, <1>4, CallIsGood
  <2> QED
    BY <2>1, <1>8, <1>9 DEF Lookup
<1>10. ASSUME entry \in Cookies
       PROVE  entry \in 0 .. MaxCookie
  BY <1>10, CookieAssumption DEF Cookies
<1>11. ASSUME NEW nc \in BOOLEAN, Getattr(t, nc)
       PROVE  IInv'
  <2>1. /\ Call(entry, nc) \in Thread /\ GoodThread(Call(entry, nc), server)
    BY <1>10, <1>11, CallIsGood DEF Getattr
  <2>2. Call(entry, nc).pc = "ask"
    BY DEF Call
  <2> QED
    BY <2>1, <2>2, <1>8, <1>11 DEF Getattr
<1>12. ASSUME NEW nc \in BOOLEAN, Read(t, nc)
       PROVE  IInv'
  <2> DEFINE th == [Call(entry, nc) EXCEPT !.url = "f"]
  <2>1. th \in Thread /\ GoodThread(th, server)
    BY <1>10, <1>12, CallIsGood DEF Read
  <2>2. SharedOK' /\ server' = server
    BY <1>1, <1>12, SharedKept DEF Read, Rest
  <2>3. thread' = [thread EXCEPT ![t] = th]
    BY <1>12 DEF Read
  <2> HIDE DEF th
  <2> QED
    BY <2>1, <2>2, <2>3, <1>7
<1>13. CASE EraseMismatch(t)
  <2> DEFINE th == [thread[t] EXCEPT !.pc = "ask"]
  <2>1. th \in Thread
    BY <1>2 DEF Thread, PCs
  <2>2. GoodThread(th, server)
    BY <1>2, <1>4, <1>13 DEF EraseMismatch, GoodThread, Thread, Doomed
  <2>3. SharedOK' /\ server' = server
    BY <1>1, <1>13, Zenon DEF EraseMismatch, SharedOK, originVars
  <2>4. thread' = [thread EXCEPT ![t] = th]
    BY <1>13 DEF EraseMismatch
  <2> HIDE DEF th
  <2> QED
    BY <2>1, <2>2, <2>3, <2>4, <1>7
<1>14. CASE AskCache(t)
  <2> DEFINE x == web[thread[t].url]
             th == Check(thread[t], x)
  <2>1. thread[t].url \in Urls
    BY <1>2 DEF Thread
  <2>2. x \in Replies
    BY <1>1, <1>14, <2>1 DEF AskCache, SharedOK
  <2>3. thread[t].pc = "ask" /\ ~thread[t].second
    BY <1>2, <1>14 DEF AskCache, GoodThread
  <2>4. th \in Thread /\ GoodThread(th, server)
    BY <1>1, <1>2, <2>2, <2>3, CheckIsGood
  <2>5. SharedOK' /\ server' = server
    BY <1>1, <1>14, SharedKept DEF AskCache, Rest
  <2>6. thread' = [thread EXCEPT ![t] = th]
    BY <1>14 DEF AskCache
  <2> HIDE DEF th
  <2> QED
    BY <2>4, <2>5, <2>6, <1>7
<1>15. CASE AskServer(t)
  <2> DEFINE th == [thread[t] EXCEPT !.pc = "receive", !.reply = server]
  <2>1. server \in Replies
    BY <1>1, ServerReplies
  <2>2. th \in Thread
    BY <1>2, <2>1 DEF Thread, PCs
  <2>3. GoodThread(th, server)
    BY <1>2, <1>15, <2>1 DEF AskServer, GoodThread, Thread, Doomed
  <2>4. SharedOK' /\ server' = server
    BY <1>1, <1>15, SharedKept DEF AskServer, Rest
  <2>5. thread' = [thread EXCEPT ![t] = th]
    BY <1>15 DEF AskServer
  <2> HIDE DEF th
  <2> QED
    BY <2>2, <2>3, <2>4, <2>5, <1>7
\* A reply that is stored by the caches.
<1>16. ASSUME NEW u \in Urls, thread[t].pc \in {"receive", "flush receive"},
              web' \in {web, [web EXCEPT ![u] = thread[t].reply]},
              UNCHANGED <<originVars, attrcache, entry, inval>>
       PROVE  SharedOK' /\ server' = server
  <2>1. thread[t].reply \in Replies
    BY <1>2, <1>16 DEF GoodThread
  <2>2. web' \in [Urls -> Replies \cup {None}]
    BY <1>1, <1>16, <2>1 DEF SharedOK
  <2> QED
    BY <1>1, <1>16, <2>2, Zenon DEF SharedOK, originVars
<1>17. CASE Receive(t)
  <2> DEFINE th == Check(thread[t], thread[t].reply)
  <2>1. thread[t].pc = "receive" /\ thread[t].url \in Urls
    BY <1>2, <1>17 DEF Receive, Thread
  <2>2. /\ thread[t].reply \in Replies
        /\ thread[t].second /\ Elsewhere(thread[t].ino, thread[t].reply) => thread[t].away
    BY <1>2, <2>1 DEF GoodThread
  <2>3. th \in Thread /\ GoodThread(th, server)
    BY <1>1, <1>2, <2>1, <2>2, CheckIsGood
  <2>4. SharedOK' /\ server' = server
    BY <1>16, <1>17, <2>1 DEF Receive
  <2>5. thread' = [thread EXCEPT ![t] = th]
    BY <1>17 DEF Receive
  <2> HIDE DEF th
  <2> QED
    BY <2>3, <2>4, <2>5, <1>7
<1>18. Idle \in Thread /\ GoodThread(Idle, server)
  BY IdleIsGood
<1>19. CASE Fail(t)
  <2>1. thread' = [thread EXCEPT ![t] = Idle]
    BY <1>19 DEF Fail
  <2>2. thread[t].url \in Urls /\ "a" \in Urls
    BY <1>2 DEF Thread, Urls
  <2>3. CASE thread[t].pc \in {"ask", "flush ask"} /\ UNCHANGED web
    <3>1. SharedOK' /\ server' = server
      BY <1>1, <1>19, <2>3, SharedKept DEF Fail, Rest
    <3> QED
      BY <3>1, <2>1, <1>18, <1>7
  <2>4. CASE \/ /\ thread[t].pc = "receive"
                /\ web' \in {web, [web EXCEPT ![thread[t].url] = thread[t].reply]}
             \/ /\ thread[t].pc = "flush receive"
                /\ web' \in {web, [web EXCEPT !["a"] = thread[t].reply]}
    <3>1. SharedOK' /\ server' = server
      BY <1>16, <1>19, <2>2, <2>4 DEF Fail
    <3> QED
      BY <3>1, <2>1, <1>18, <1>7
  <2> QED
    BY <1>19, <2>3, <2>4 DEF Fail
<1>20. CASE Insert(t)
  <2> DEFINE th == [thread[t] EXCEPT !.pc = "return"]
  <2>1. th \in Thread
    BY <1>2 DEF Thread, PCs
  <2>2. GoodThread(th, server)
    BY <1>2, <1>4, <1>20 DEF Insert, GoodThread, Thread, Doomed, Replies
  <2>3. attrcache' \in {attrcache, thread[t].reply} /\ thread[t].reply \in Cookies
    BY <1>2, <1>20 DEF Insert, GoodThread
  <2>4. SharedOK' /\ server' = server
    BY <1>1, <1>20, <2>3, Zenon DEF Insert, SharedOK, originVars
  <2>5. thread' = [thread EXCEPT ![t] = th]
    BY <1>20 DEF Insert
  <2> HIDE DEF th
  <2> QED
    BY <2>1, <2>2, <2>4, <2>5, <1>7
<1>21. CASE Return(t)
  <2>1. thread' = [thread EXCEPT ![t] = Idle]
    BY <1>21 DEF Return
  <2>2. entry' \in {entry, thread[t].reply} /\ thread[t].reply \in Replies
    BY <1>2, <1>21 DEF Return, GoodThread
  <2>3. SharedOK' /\ server' = server
    BY <1>1, <1>21, <2>2, Zenon DEF Return, SharedOK, originVars
  <2> QED
    BY <2>1, <2>3, <1>18, <1>7
<1>22. CASE SubmitInval(t)
  <2> DEFINE th == [thread[t] EXCEPT !.pc = "flush"]
  <2>1. th \in Thread
    BY <1>2 DEF Thread, PCs
  <2>2. GoodThread(th, server)
    BY <1>2, <1>4, <1>22 DEF SubmitInval, GoodThread, Thread, Doomed
  <2>3. SharedOK' /\ server' = server
    BY <1>1, <1>22, Zenon DEF SubmitInval, SharedOK, originVars
  <2>4. thread' = [thread EXCEPT ![t] = th]
    BY <1>22 DEF SubmitInval
  <2> HIDE DEF th
  <2> QED
    BY <2>1, <2>2, <2>3, <2>4, <1>7
<1>23. CASE FlushErase(t)
  <2> DEFINE th == [thread[t] EXCEPT !.pc = "flush ask"]
  <2>1. th \in Thread
    BY <1>2 DEF Thread, PCs
  <2>2. GoodThread(th, server)
    BY <1>2, <1>4, <1>23 DEF FlushErase, GoodThread, Thread, Doomed
  <2>3. SharedOK' /\ server' = server
    BY <1>1, <1>23, Zenon DEF FlushErase, SharedOK, originVars
  <2>4. thread' = [thread EXCEPT ![t] = th]
    BY <1>23 DEF FlushErase
  <2> HIDE DEF th
  <2> QED
    BY <2>1, <2>2, <2>3, <2>4, <1>7
<1>24. CASE FlushAsk(t)
  <2> DEFINE th == [thread[t] EXCEPT !.pc = "flush receive", !.reply = server]
  <2>1. server \in Replies
    BY <1>1, ServerReplies
  <2>2. th \in Thread
    BY <1>2, <2>1 DEF Thread, PCs
  <2>3. GoodThread(th, server)
    BY <1>2, <1>4, <1>24, <2>1 DEF FlushAsk, GoodThread, Thread, Doomed
  <2>4. SharedOK' /\ server' = server
    BY <1>1, <1>24, SharedKept DEF FlushAsk, Rest
  <2>5. thread' = [thread EXCEPT ![t] = th]
    BY <1>24 DEF FlushAsk
  <2> HIDE DEF th
  <2> QED
    BY <2>2, <2>3, <2>4, <2>5, <1>7
<1>25. CASE FlushReceive(t)
  <2> DEFINE th == [thread[t] EXCEPT !.pc = "throw"]
  <2>1. th \in Thread
    BY <1>2 DEF Thread, PCs
  <2>2. GoodThread(th, server)
    BY <1>2, <1>4, <1>25 DEF FlushReceive, GoodThread, Thread, Doomed
  <2>3. "a" \in Urls
    BY DEF Urls
  <2>4. SharedOK' /\ server' = server
    BY <1>16, <1>25, <2>3 DEF FlushReceive
  <2>5. thread' = [thread EXCEPT ![t] = th]
    BY <1>25 DEF FlushReceive
  <2> HIDE DEF th
  <2> QED
    BY <2>1, <2>2, <2>4, <2>5, <1>7
<1>26. CASE ThrowEstale(t)
  <2>1. thread' = [thread EXCEPT ![t] = Idle]
    BY <1>26 DEF ThrowEstale
  <2>2. SharedOK' /\ server' = server
    BY <1>1, <1>26, SharedKept DEF ThrowEstale, Rest
  <2> QED
    BY <2>1, <2>2, <1>18, <1>7
<1> QED
  BY <1>9, <1>11, <1>12, <1>13, <1>14, <1>15, <1>17, <1>19, <1>20, <1>21, <1>22, <1>23,
     <1>24, <1>25, <1>26
  DEF Step

LEMMA Inductive == IInv /\ [Next]_vars => IInv'
<1> SUFFICES ASSUME IInv, [Next]_vars PROVE IInv'
  OBVIOUS
<1>1. CASE NewFile \/ RenameBack
  BY <1>1, NewFileStep
<1>2. CASE Unlink \/ Forget \/ InvalEntry
  BY <1>2, EnvironmentStep
<1>3. ASSUME NEW t \in Threads,
             \/ Lookup(t) \/ Step(t)
             \/ \E nc \in BOOLEAN : Getattr(t, nc) \/ Read(t, nc)
      PROVE  IInv'
  BY <1>3, ThreadStep
<1>4. CASE UNCHANGED vars
  <2>1. SharedOK'
    BY <1>4, SharedKept DEF IInv, vars, Rest, originVars
  <2>2. ThreadsOK'
    BY <1>4 DEF IInv, vars, originVars, ThreadsOK
  <2> QED
    BY <2>1, <2>2 DEF IInv
<1> QED
  BY <1>1, <1>2, <1>3, <1>4 DEF Next

\* The inductive invariant holds always.
LEMMA AlwaysIInv == Spec => []IInv
BY InitIsGood, Inductive, PTL DEF Spec

----------------------------------------------------------------------------
(* The state of the mount and of what is cached for it keeps its type: an error
   is never kept in the attrcache, whatever order threads run in. *)
THEOREM TypeCorrect == Spec => []TypeOK
<1>1. IInv => TypeOK
  BY Zenon DEF IInv, TypeOK, SharedOK, ThreadsOK
<1> QED
  BY <1>1, AlwaysIInv, PTL

(* A callback for an inode succeeds only with data of the inode's own file
   (begetattr and beget), for any number of threads and replacements. *)
THEOREM RepliesAreOfOneFile == Spec => []OneFile
<1>1. IInv => OneFile
  BY DEF IInv, ThreadsOK, GoodThread, OneFile
<1> QED
  BY <1>1, AlwaysIInv, PTL

(* beget raises ESTALE only when the name had another file on the server
   during its retry, never because a cache is behind. *)
THEOREM EstaleIsNeverFalse == Spec => []EstaleIsTrue
<1>1. IInv => EstaleIsTrue
  BY DEF IInv, ThreadsOK, GoodThread, EstaleIsTrue, Doomed
<1> QED
  BY <1>1, AlwaysIInv, PTL

-----------------------------------------------------------------------------
(***************************************************************************)
(* Directory streams (Readdir), for any directory, any sizes of entries,   *)
(* of chunks and of the kernel's buffer, any number of special entries and *)
(* of modifications.                                                       *)
(*                                                                         *)
(* Shape says that every reply was kept in its place in the handle.        *)
(* StableOnce needs Forward: a reader that only reads on is always in the  *)
(* last chunk that was loaded, all that it was given lies at or before the *)
(* start of that chunk or is a line of it, and what is always there was    *)
(* given up to where it is.  OffsetsMeanOnePlace needs Still: every mark   *)
(* in the handle, and so every line of what is loaded, is where the text   *)
(* of the whole directory has it.                                          *)
(***************************************************************************)
W == INSTANCE WellFoundedInduction

\* What Readdir assumes of its parameters.
Streams == Directories /\ Text /\ Limits

\* The module's assumptions, in one fact.
LEMMA Allowed == Streams
  BY EntriesAssumption, TextAssumption, LimitsAssumption DEF Streams

-----------------------------------------------------------------------------
(* Numbers and texts.                                                       *)

\* A set of natural numbers has a smallest one.
LEMMA Smallest ==
  ASSUME NEW T, T \subseteq Nat, T # {}
  PROVE  \E x \in T : \A y \in T : x <= y
<1> DEFINE Less == {p \in Nat \X Nat : p[1] < p[2]}
<1>1. W!IsWellFoundedOn(Less, Nat)
  BY W!NatLessThanWellFounded DEF W!OpToRel
<1>2. PICK x \in T : \A y \in T : <<y, x>> \notin Less
  BY <1>1, W!WFMin
<1>3. \A y \in T : ~(y < x)
  BY <1>2
<1>4. \A y \in T : x <= y
  BY <1>3
<1> QED BY <1>4

\* A set of natural numbers with an upper bound has a largest one, which Max finds.
LEMMA Largest ==
  ASSUME NEW T, T \subseteq Nat, T # {}, NEW b \in Nat, \A x \in T : x <= b
  PROVE  Max(T) \in T /\ \A y \in T : y <= Max(T)
<1> DEFINE U == {b - x : x \in T}
<1>0. U # {}
  OBVIOUS
<1>1. U \subseteq Nat
  OBVIOUS
<1>2. PICK u \in U : \A v \in U : u <= v
  BY <1>0, <1>1, Smallest
<1>3. PICK m \in T : u = b - m
  BY <1>2
<1>4. ASSUME NEW y \in T PROVE m >= y
  <2>1. b - y \in U
    OBVIOUS
  <2>2. b - m <= b - y
    BY <2>1, <1>2, <1>3
  <2> QED BY <2>2
<1>5. \E x \in T : \A y \in T : x >= y
  BY <1>4
<1>6. Max(T) \in T /\ \A y \in T : Max(T) >= y
  BY <1>5 DEF Max
<1> QED BY <1>6

\* The larger one of two numbers.
LEMMA LargerOfTwo ==
  ASSUME NEW a \in Nat, NEW b \in Nat
  PROVE  Max({a, b}) = IF a >= b THEN a ELSE b
<1> DEFINE m == IF a >= b THEN a ELSE b
<1>1. m \in {a, b} /\ \A y \in {a, b} : m >= y
  OBVIOUS
<1>2. \A x \in {a, b} : (\A y \in {a, b} : x >= y) => x = m
  OBVIOUS
<1> HIDE DEF m
<1>3. Max({a, b}) = m
  BY <1>1, <1>2 DEF Max
<1> QED BY <1>3 DEF m

\* The first n entries of a set have a text of a certain length.
LEMMA ByteSum ==
  ASSUME Text, NEW a \in SUBSET Entries, NEW b \in SUBSET Entries
  PROVE  /\ Bytes[a] \in Nat /\ Bytes[{}] = 0
         /\ a \cap b = {} => Bytes[a \cup b] = Bytes[a] + Bytes[b]
         /\ a \subseteq b => Bytes[a] <= Bytes[b]
<1>1. \A s \in SUBSET Entries : Bytes[s] \in Nat
  BY DEF Text
<1>2. ASSUME NEW s \in SUBSET Entries, NEW t \in SUBSET Entries, s \cap t = {}
      PROVE  Bytes[s \cup t] = Bytes[s] + Bytes[t]
  BY <1>2 DEF Text
<1>3. Bytes[{}] = 0
  <2>1. {} \cap {} = {} /\ {} \cup {} = {} /\ {} \in SUBSET Entries
    OBVIOUS
  <2>2. Bytes[{}] = Bytes[{}] + Bytes[{}] /\ Bytes[{}] \in Nat
    BY <2>1, <1>1, <1>2
  <2>3. \A k \in Nat : k = k + k => k = 0
    OBVIOUS
  <2> HIDE DEF Text
  <2> QED BY <2>2, <2>3, Zenon
<1>4. ASSUME a \subseteq b PROVE Bytes[a] <= Bytes[b]
  <2>1. b \ a \in SUBSET Entries /\ a \cap (b \ a) = {} /\ a \cup (b \ a) = b
    BY <1>4
  <2>2. Bytes[b] = Bytes[a] + Bytes[b \ a] /\ Bytes[a] \in Nat /\ Bytes[b \ a] \in Nat
    BY <2>1, <1>1, <1>2
  <2> QED BY <2>2
<1> QED BY <1>1, <1>2, <1>3, <1>4

\* The entries of s before e, and those up to e.
Before(s, e) == {x \in s : x < e}
UpTo(s, e) == {x \in s : x <= e}

\* The lines of a text: each is behind those before it, and is not empty.
LEMMA LineBytes ==
  ASSUME Directories, Text, NEW s \in SUBSET Entries, NEW e \in s
  PROVE  /\ Bytes[Before(s, e)] \in Nat /\ Bytes[UpTo(s, e)] \in Nat /\ Bytes[s] \in Nat
         /\ Bytes[Before(s, e)] < Bytes[UpTo(s, e)]
         /\ Bytes[UpTo(s, e)] <= Bytes[s]
         /\ \A f \in s : e < f => Bytes[UpTo(s, e)] <= Bytes[Before(s, f)]
<1>1. e \in Nat /\ s \subseteq Nat /\ {e} \in SUBSET Entries
  BY DEF Directories
<1>2. Before(s, e) \in SUBSET Entries /\ UpTo(s, e) \in SUBSET Entries
  BY DEF Before, UpTo
<1>3. Before(s, e) \cap {e} = {} /\ Before(s, e) \cup {e} = UpTo(s, e)
  <2>1. \A x \in s : x \in Nat /\ (x < e <=> x <= e /\ x # e) /\ (x = e => x <= e)
    BY <1>1
  <2> QED BY <2>1 DEF Before, UpTo
<1>4. Bytes[UpTo(s, e)] = Bytes[Before(s, e)] + Bytes[{e}]
  BY <1>1, <1>2, <1>3, ByteSum
<1>5. Bytes[{e}] \in Nat /\ Bytes[{e}] > 0
  BY <1>1, ByteSum DEF Text
<1>6. Bytes[Before(s, e)] \in Nat /\ Bytes[UpTo(s, e)] \in Nat /\ Bytes[s] \in Nat
  BY <1>2, ByteSum
<1>7. Bytes[UpTo(s, e)] <= Bytes[s]
  <2>1. UpTo(s, e) \subseteq s
    BY DEF UpTo
  <2> QED BY <2>1, <1>2, ByteSum
<1>8. ASSUME NEW f \in s, e < f PROVE Bytes[UpTo(s, e)] <= Bytes[Before(s, f)]
  <2>1. UpTo(s, e) \subseteq Before(s, f) /\ Before(s, f) \in SUBSET Entries
    <3>1. f \in Nat /\ \A x \in s : x <= e => x < f
      BY <1>1, <1>8
    <3> QED BY <3>1 DEF Before, UpTo
  <2> QED BY <2>1, <1>2, ByteSum
<1> QED BY <1>4, <1>5, <1>6, <1>7, <1>8

-----------------------------------------------------------------------------
(* Handler d.                                                               *)

After(d, start) == {e \in d : e > start}

\* A chunk has the first entries of the rest, and all of it or as many as its next start says.
LEMMA ChunkIs ==
  ASSUME Directories, Text, NEW d \in SUBSET Entries, NEW start \in Entries \cup {0},
         NEW c, c = Chunk(d, start)
  PROVE  /\ c.content \subseteq After(d, start) /\ c.content \in SUBSET Entries
         /\ \A e \in c.content : \A x \in d : start < x /\ x <= e => x \in c.content
         /\ After(d, start) # {} => c.content # {}
         /\ c.next = 0 => c.content = After(d, start)
         /\ c.next # 0 => /\ c.next \in c.content
                          /\ \A e \in c.content : e <= c.next
                          /\ \E x \in d : x > c.next
         /\ c.next \in Entries \cup {0}
<1> DEFINE rest == After(d, start)
           content == {e \in rest : Bytes[UpTo(rest, e)] <= ChunkSize}
<1>1. c = [content |-> content, next |-> IF content = rest THEN 0 ELSE Max(content)]
  BY DEF Chunk, Empty, After, UpTo
<1>2. /\ rest \in SUBSET Entries /\ Entries \subseteq Nat \ {0} /\ start \in Nat /\ d \subseteq Nat
      /\ ChunkSize \in Nat
  <2>1. Entries \subseteq Nat \ {0} /\ ChunkSize \in Nat
    BY DEF Directories, Text
  <2>2. After(d, start) \in SUBSET Entries
    BY DEF After
  <2> QED BY <2>1, <2>2
<1>3. content \in SUBSET Entries /\ content \subseteq rest
  BY <1>2
<1>4. ASSUME NEW e \in content, NEW x \in d, start < x, x <= e PROVE x \in content
  <2>1. x \in rest /\ e \in rest
    BY <1>3, <1>4 DEF After
  <2>2. UpTo(rest, x) \subseteq UpTo(rest, e)
    <3>1. \A y \in rest : y <= x => y <= e
      BY <1>2, <1>4, <2>1
    <3> HIDE DEF rest
    <3> QED BY <3>1 DEF UpTo
  <2>3. UpTo(rest, x) \in SUBSET Entries /\ UpTo(rest, e) \in SUBSET Entries
    BY <1>2 DEF UpTo
  <2>4. Bytes[UpTo(rest, x)] <= Bytes[UpTo(rest, e)] /\ Bytes[UpTo(rest, e)] \in Nat
        /\ Bytes[UpTo(rest, x)] \in Nat
    BY <2>2, <2>3, ByteSum
  <2>5. Bytes[UpTo(rest, e)] <= ChunkSize
    OBVIOUS
  <2> QED BY <2>1, <2>4, <2>5, <1>2
<1>5. ASSUME rest # {} PROVE content # {}
  <2>1. PICK e \in rest : \A y \in rest : e <= y
    BY <1>2, <1>5, Smallest
  <2>2. UpTo(rest, e) = {e}
    <3>1. ASSUME NEW y \in rest PROVE y <= e <=> y = e
      <4>1. y \in Nat /\ e \in Nat /\ e <= y
        BY <1>2, <2>1
      <4> QED BY <4>1
    <3> HIDE DEF rest
    <3> QED BY <3>1 DEF UpTo
  <2>3. Bytes[{e}] <= ChunkSize
    BY <1>2, <2>1 DEF Text
  <2> QED BY <2>1, <2>2, <2>3
<1> HIDE DEF content
<1>6. ASSUME content # rest
      PROVE  /\ Max(content) \in content /\ \A e \in content : e <= Max(content)
             /\ \E x \in d : x > Max(content)
  <2>1. content # {}
    BY <1>3, <1>5, <1>6
  <2>2. PICK b \in Entries : \A e \in Entries : e <= b
    BY DEF Directories
  <2>3. Max(content) \in content /\ \A e \in content : e <= Max(content)
    BY <2>1, <2>2, <1>2, <1>3, Largest
  <2>4. PICK x \in rest : x \notin content
    BY <1>3, <1>6
  <2>5. x \in d /\ start < x
    BY <2>4 DEF After
  <2>6. ~(x <= Max(content))
    BY <2>3, <2>4, <2>5, <1>4
  <2>7. x \in Nat /\ Max(content) \in Nat
    BY <2>3, <2>5, <1>2, <1>3
  <2>8. x > Max(content)
    BY <2>6, <2>7
  <2> QED BY <2>3, <2>5, <2>8
<1>7. c.content = content /\ c.next = IF content = rest THEN 0 ELSE Max(content)
  BY <1>1
<1>8. c.next = 0 <=> content = rest
  BY <1>2, <1>3, <1>6, <1>7
<1>9. c.next # 0 => c.next = Max(content) /\ content # rest
  BY <1>7, <1>8
<1>10. c.next \in Entries \cup {0}
  BY <1>3, <1>6, <1>9
<1> HIDE DEF rest
<1>11. /\ c.content \subseteq rest /\ c.content \in SUBSET Entries
       /\ \A e \in c.content : \A x \in d : start < x /\ x <= e => x \in c.content
       /\ rest # {} => c.content # {}
       /\ c.next = 0 => c.content = rest
       /\ c.next # 0 => /\ c.next \in c.content
                        /\ \A e \in c.content : e <= c.next
                        /\ \E x \in d : x > c.next
  BY <1>3, <1>4, <1>5, <1>6, <1>7, <1>8, <1>9
<1> QED BY <1>10, <1>11 DEF rest

-----------------------------------------------------------------------------
(* The handle.                                                              *)

Marks == [off : Nat, start : Entries \cup {0}]

\* The chunks that a handle knows of.
Count(h) == Len(h.offsets)

\* What a sequence has, and one that is longer by an element.
LEMMA Appended ==
  ASSUME NEW S, NEW s \in Seq(S), NEW m \in S
  PROVE  /\ Append(s, m) \in Seq(S) /\ Len(Append(s, m)) = Len(s) + 1
         /\ \A i \in 1 .. Len(s) : Append(s, m)[i] = s[i]
         /\ Append(s, m)[Len(s) + 1] = m
  OBVIOUS

\* Replacing the first element of a sequence.
LEMMA FirstReplaced ==
  ASSUME NEW S, NEW s \in Seq(S), Len(s) >= 1, NEW m \in S
  PROVE  LET t == [s EXCEPT ![1] = m]
         IN  t \in Seq(S) /\ Len(t) = Len(s) /\ t[1] = m /\ (s[1] = m => t = s)
  OBVIOUS

\* The elements of a sequence.
LEMMA ElementsAre ==
  ASSUME NEW S, NEW s \in Seq(S)
  PROVE  Len(s) \in Nat /\ DOMAIN s = 1 .. Len(s) /\ \A i \in 1 .. Len(s) : s[i] \in S
  OBVIOUS

\* A handle on which every reply has been kept in its place.
HandleOK(h) ==
  LET n == Count(h)
  IN  /\ h = [contents |-> h.contents, first |-> h.first, offsets |-> h.offsets, eof |-> h.eof]
      /\ h.contents \in SUBSET Entries /\ h.first \in Nat /\ h.eof \in BOOLEAN
      /\ h.offsets \in Seq(Marks) /\ n >= 1
      /\ h.offsets[1].start = 0
      /\ n = 1 => h.contents = {} /\ h.offsets[1].off \in {0, Specials}
      /\ n > 1 => \A i \in 1 .. n : h.offsets[i].off >= h.offsets[1].off
      /\ n > 1 => h.offsets[1].off = Specials
      /\ \A i \in 1 .. n - 1 : h.offsets[i].off <= h.offsets[i + 1].off
      /\ h.eof <=> n > 1 /\ h.offsets[n].start = 0

\* The offsets of a handle are numbers.
LEMMA OffsetsAre ==
  ASSUME NEW h, HandleOK(h), NEW i \in 1 .. Count(h)
  PROVE  /\ Count(h) \in Nat /\ Count(h) >= 1
         /\ h.offsets[i] \in Marks
         /\ h.offsets[i] = [off |-> h.offsets[i].off, start |-> h.offsets[i].start]
         /\ h.offsets[i].off \in Nat /\ h.offsets[i].start \in Entries \cup {0}
<1>1. h.offsets \in Seq(Marks) /\ Count(h) >= 1
  BY DEF HandleOK
<1>2. Count(h) \in Nat /\ h.offsets[i] \in Marks
  BY <1>1, ElementsAre DEF Count
<1> QED BY <1>1, <1>2 DEF Marks

\* Setting the offset of the first chunk to that behind the special entries changes nothing
\* once a chunk is known.
LEMMA RootedIs ==
  ASSUME Limits, HandleOK(fh)
  PROVE  /\ HandleOK(Rooted) /\ Rooted.offsets[1].off = Specials
         /\ Count(Rooted) = Count(fh)
         /\ Count(fh) > 1 => Rooted = fh
         /\ Count(fh) = 1 => Rooted.contents = {}
<1>1. Specials \in Nat
  BY DEF Limits
<1>2. Count(fh) \in Nat /\ Count(fh) >= 1
  <2>1. fh.offsets \in Seq(Marks) /\ Count(fh) >= 1
    BY DEF HandleOK
  <2> QED BY <2>1, ElementsAre DEF Count
<1>3. Count(fh) = 1 => fh.contents = {}
  BY DEF HandleOK
<1>4. CASE Specials = 0
  <2>1. Rooted = fh
    BY <1>4 DEF Rooted
  <2>2. fh.offsets[1].off = Specials
    <3>1. CASE Count(fh) = 1
      BY <1>4, <3>1 DEF HandleOK
    <3>2. CASE Count(fh) > 1
      BY <3>2 DEF HandleOK
    <3> QED BY <3>1, <3>2, <1>2
  <2> QED BY <2>1, <2>2, <1>3
<1>5. CASE Specials # 0
  <2> DEFINE r == Rooted
             mark == [off |-> Specials, start |-> 0]
             s == [fh.offsets EXCEPT ![1] = mark]
  <2>1. fh.offsets \in Seq(Marks) /\ 1 \in 1 .. Count(fh) /\ Count(fh) \in Nat
        /\ fh.offsets[1] = [off |-> fh.offsets[1].off, start |-> 0]
    <3>1. 1 \in 1 .. Count(fh) /\ fh.offsets \in Seq(Marks) /\ fh.offsets[1].start = 0
      BY <1>2 DEF HandleOK
    <3> QED BY <3>1, <1>2, OffsetsAre
  <2>2. mark \in Marks
    BY <1>1 DEF Marks
  <2>3. [fh.offsets[1] EXCEPT !.off = Specials] = mark
    BY <2>1
  <2>4. r = [fh EXCEPT !.offsets = s]
    BY <1>5, <2>3 DEF Rooted
  <2>5. s \in Seq(Marks) /\ Len(s) = Count(fh) /\ s[1] = mark
        /\ (fh.offsets[1] = mark => s = fh.offsets)
    BY <1>2, <2>1, <2>2, FirstReplaced DEF Count
  <2> HIDE DEF s
  <2>6. r = [contents |-> fh.contents, first |-> fh.first, offsets |-> s, eof |-> fh.eof]
    BY <2>4 DEF HandleOK
  <2>7. CASE Count(fh) = 1
    <3>1. /\ r.contents = fh.contents /\ r.first = fh.first /\ r.offsets = s /\ r.eof = fh.eof
          /\ r = [contents |-> r.contents, first |-> r.first, offsets |-> r.offsets,
                  eof |-> r.eof]
      BY <2>6
    <3> HIDE DEF r
    <3>2. s[1].start = 0 /\ s[1].off = Specials /\ s \in Seq(Marks)
      BY <2>5, <2>7
    <3>3. fh.contents = {} /\ fh.first \in Nat /\ fh.eof \in BOOLEAN /\ ~fh.eof
      BY <2>7 DEF HandleOK
    <3>4. Count(r) = 1
      BY <2>5, <2>7, <3>1 DEF Count
    <3>5. HandleOK(r)
      BY <3>1, <3>2, <3>3, <3>4 DEF HandleOK
    <3> QED BY <3>1, <3>2, <3>3, <3>4, <3>5, <2>7 DEF r
  <2>8. CASE Count(fh) > 1
    <3>1. fh.offsets[1] = mark
      BY <2>1, <2>8 DEF HandleOK
    <3>2. s = fh.offsets
      BY <3>1, <2>5
    <3>3. r = fh
      BY <3>2, <2>6 DEF HandleOK
    <3>4. fh.offsets[1].off = Specials
      BY <3>1
    <3> QED BY <3>3, <3>4, <2>8
  <2> QED BY <1>2, <2>7, <2>8
<1> QED BY <1>4, <1>5

\* upper_bound finds the last of the chunks that start at an offset or before it.
LEMMA ChunkAtIs ==
  ASSUME NEW h, HandleOK(h), NEW off \in Nat, h.offsets[1].off <= off
  PROVE  LET i == ChunkAt(h, off)
         IN  /\ i \in 1 .. Count(h) /\ h.offsets[i].off <= off
             /\ \A j \in 1 .. Count(h) : h.offsets[j].off <= off => j <= i
<1> DEFINE T == {i \in DOMAIN h.offsets : h.offsets[i].off <= off}
<1>1. DOMAIN h.offsets = 1 .. Count(h) /\ Count(h) \in Nat /\ Count(h) >= 1
  <2>1. h.offsets \in Seq(Marks) /\ Count(h) >= 1
    BY DEF HandleOK
  <2> QED BY <2>1, ElementsAre DEF Count
<1>2. T \subseteq Nat /\ \A x \in T : x <= Count(h)
  BY <1>1
<1>3. 1 \in T
  BY <1>1
<1>4. Max(T) \in T /\ \A y \in T : y <= Max(T)
  BY <1>1, <1>2, <1>3, Largest
<1>5. ChunkAt(h, off) = Max(T)
  BY DEF ChunkAt
<1> QED BY <1>1, <1>4, <1>5

\* The offset behind the special entries.
LEMMA BehindIs ==
  ASSUME Limits, NEW p \in Nat
  PROVE  /\ Behind(p) \in Nat /\ Behind(p) >= Specials /\ Behind(p) >= p
         /\ p >= Specials => Behind(p) = p
         /\ p <= Specials => Behind(p) = Specials
<1>1. Specials \in Nat
  BY DEF Limits
<1>2. Behind(p) = IF p >= Specials THEN p ELSE Specials
  BY <1>1, LargerOfTwo DEF Behind
<1> QED BY <1>1, <1>2


\* The handle after a chunk was loaded: if it is the last one, the next one is known.
LEMMA Fetched ==
  ASSUME Streams, NEW h, HandleOK(h), h.offsets[1].off = Specials,
         NEW off \in Nat, Specials <= off, NEW d \in SUBSET Entries,
         NEW i, i = ChunkAt(h, off), NEW c, c = Chunk(d, h.offsets[i].start),
         NEW g, g = Fetch(h, off, d)
  PROVE  /\ HandleOK(g) /\ g.offsets[1].off = Specials /\ Count(g) > 1
         /\ g.contents = c.content /\ g.first = h.offsets[i].off
         /\ i = Count(h) => /\ Count(g) = Count(h) + 1
                            /\ \A j \in 1 .. Count(h) : g.offsets[j] = h.offsets[j]
                            /\ g.offsets[Count(g)] =
                                 [off |-> h.offsets[i].off + Bytes[c.content], start |-> c.next]
         /\ i # Count(h) => g.offsets = h.offsets /\ Count(g) = Count(h)
<1> DEFINE m == [off |-> h.offsets[i].off + Bytes[c.content], start |-> c.next]
           n == Count(h)
<1>1. i \in 1 .. n /\ h.offsets[i].off <= off
  BY ChunkAtIs
<1>2. /\ n \in Nat /\ n >= 1
      /\ \A j \in 1 .. n : h.offsets[j].off \in Nat /\ h.offsets[j].start \in Entries \cup {0}
  BY <1>1, OffsetsAre
<1>3. c.content \in SUBSET Entries /\ c.next \in Entries \cup {0}
  <2>1. h.offsets[i].start \in Entries \cup {0} /\ Directories /\ Text
    BY <1>1, <1>2 DEF Streams
  <2>2. ASSUME NEW start \in Entries \cup {0}, c = Chunk(d, start)
        PROVE  c.content \in SUBSET Entries /\ c.next \in Entries \cup {0}
    BY <2>1, <2>2, ChunkIs
  <2> QED BY <2>1, <2>2
<1>4. Bytes[c.content] \in Nat
  BY <1>3, ByteSum DEF Streams
<1>5. m \in Marks /\ m.off = h.offsets[i].off + Bytes[c.content] /\ m.start = c.next
  BY <1>1, <1>2, <1>3, <1>4 DEF Marks
<1> HIDE DEF m
<1>6. g = [contents |-> c.content, first |-> h.offsets[i].off,
           offsets |-> IF i = n THEN Append(h.offsets, m) ELSE h.offsets,
           eof |-> IF i = n THEN c.next = 0 ELSE h.eof]
  BY DEF Fetch, Keep, Empty, m, Count
<1>7. /\ g = [contents |-> g.contents, first |-> g.first, offsets |-> g.offsets, eof |-> g.eof]
      /\ g.contents = c.content /\ g.first = h.offsets[i].off
      /\ g.offsets = IF i = n THEN Append(h.offsets, m) ELSE h.offsets
      /\ g.eof = IF i = n THEN c.next = 0 ELSE h.eof
  BY <1>6
<1>8. h.offsets \in Seq(Marks)
  BY DEF HandleOK
<1>9. CASE i = n
  <2>1. /\ g.offsets \in Seq(Marks) /\ Count(g) = n + 1
        /\ \A j \in 1 .. n : g.offsets[j] = h.offsets[j]
        /\ g.offsets[n + 1] = m
    BY <1>5, <1>7, <1>8, <1>9, Appended DEF Count
  <2>2. /\ h.offsets[1].start = 0
        /\ \A j \in 1 .. n - 1 : h.offsets[j].off <= h.offsets[j + 1].off
        /\ \A j \in 1 .. n : h.offsets[j].off >= Specials
    <3>1. CASE n = 1
      BY <3>1 DEF HandleOK, Streams, Limits
    <3>2. CASE n > 1
      BY <3>2 DEF HandleOK
    <3> QED BY <3>1, <3>2, <1>2
  <2>3. m.off \in Nat /\ m.off >= h.offsets[n].off
    BY <1>1, <1>2, <1>4, <1>5, <1>9
  <2>4. g.eof <=> m.start = 0
    BY <1>5, <1>7, <1>9
  <2>5. g.eof \in BOOLEAN
    BY <1>7, <1>9
  <2>6. \A j \in 1 .. n + 1 : g.offsets[j].off >= Specials
    <3>1. m.off >= Specials
      BY <2>2, <2>3, <1>1, <1>2, <1>9 DEF Streams, Limits
    <3>2. ASSUME NEW j \in 1 .. n + 1 PROVE g.offsets[j].off >= Specials
      <4>1. CASE j = n + 1
        BY <4>1, <3>1, <2>1
      <4>2. CASE j \in 1 .. n
        BY <4>2, <2>1, <2>2
      <4> QED BY <4>1, <4>2, <1>2
    <3> QED BY <3>2
  <2>7. \A j \in 1 .. n : g.offsets[j].off <= g.offsets[j + 1].off
    <3> SUFFICES ASSUME NEW j \in 1 .. n PROVE g.offsets[j].off <= g.offsets[j + 1].off
      OBVIOUS
    <3>1. CASE j = n
      BY <3>1, <2>1, <2>3, <1>2
    <3>2. CASE j \in 1 .. n - 1
      <4>1. j \in 1 .. n /\ j + 1 \in 1 .. n
        BY <3>2, <1>2
      <4>2. g.offsets[j] = h.offsets[j] /\ g.offsets[j + 1] = h.offsets[j + 1]
        BY <4>1, <2>1
      <4> QED BY <4>2, <3>2, <2>2
    <3> QED BY <3>1, <3>2, <1>2
  <2>8. g.offsets[1].off = Specials /\ g.offsets[1].start = 0
    BY <2>1, <2>2, <1>2
  <2>9. g.first \in Nat
    BY <1>1, <1>2, <1>7
  <2> HIDE DEF n
  <2>10. Count(g) > 1 /\ Count(g) >= 1 /\ Count(g) # 1 /\ Count(g) - 1 = n
    BY <1>2, <2>1
  <2>11. /\ \A j \in 1 .. Count(g) - 1 : g.offsets[j].off <= g.offsets[j + 1].off
         /\ \A j \in 1 .. Count(g) : g.offsets[j].off >= g.offsets[1].off
         /\ g.eof <=> g.offsets[Count(g)].start = 0
    BY <2>1, <2>4, <2>6, <2>7, <2>8, <2>10
  <2>12. HandleOK(g)
    BY <1>3, <1>7, <2>1, <2>5, <2>8, <2>9, <2>10, <2>11, Zenon DEF HandleOK
  <2>13. g.offsets[Count(g)] = m
    BY <2>1
  <2> QED BY <2>1, <2>8, <2>10, <2>12, <2>13, <1>7, <1>9, Zenon DEF m, n
<1>10. CASE i # n
  <2>1. g.offsets = h.offsets /\ Count(g) = n /\ g.eof = h.eof /\ n > 1
    BY <1>1, <1>2, <1>7, <1>10 DEF Count
  <2>2. g.first \in Nat
    BY <1>1, <1>2, <1>7
  <2>3. HandleOK(g)
    BY <1>3, <1>7, <2>1, <2>2 DEF HandleOK
  <2> QED BY <1>7, <2>1, <2>3, <1>10
<1> QED BY <1>9, <1>10

\* A listing that the server may send has the entries that are always there.
LEMMA ListingIs ==
  ASSUME Streams, answers \in SUBSET SUBSET Entries, dir \in answers,
         \A a \in answers : Dots \subseteq a /\ stable \subseteq a, NEW d \in Listings
  PROVE  /\ d \in SUBSET Entries /\ Dots \subseteq d /\ stable \subseteq d
         /\ answers = {dir} => d = dir
<1>1. d \subseteq UNION answers /\ Always \subseteq d
  BY DEF Listings
<1>2. Dots \subseteq Entries /\ stable \subseteq Entries
  BY DEF Streams, Directories
<1>3. Dots \subseteq Always /\ stable \subseteq Always
  BY <1>2 DEF Always
<1>4. answers = {dir} => UNION answers = dir /\ Always = dir
  BY DEF Always
<1> QED BY <1>1, <1>3, <1>4

-----------------------------------------------------------------------------
(* Replies.                                                                 *)

Line(h, e) == <<h.first + Bytes[Before(h.contents, e)], e, h.first + Bytes[UpTo(h.contents, e)]>>

\* The entries of a reply: special ones, and lines of the chunk.
LEMMA ReplyIs ==
  ASSUME Limits, NEW h, NEW p \in Nat, NEW off
  PROVE  /\ \A l \in SpecialsAt(p) : \E k \in p + 1 .. Specials : l = <<k - 1, -k, k>>
         /\ Lines(h) = {Line(h, e) : e \in h.contents}
         /\ p < Specials <=> SpecialsAt(p) # {}
<1>1. Specials \in Nat
  BY DEF Limits
<1>2. p < Specials => p + 1 \in p + 1 .. Specials
  BY <1>1
<1>3. ~(p < Specials) => p + 1 .. Specials = {}
  BY <1>1
<1> QED BY <1>2, <1>3 DEF SpecialsAt, Lines, Line, Before, UpTo

\* The offsets of the lines of a chunk follow one another.
LEMMA LinesFollow ==
  ASSUME Streams, NEW h, h.contents \in SUBSET Entries, h.first \in Nat, NEW e \in h.contents
  PROVE  /\ e \in Nat /\ e > 0
         /\ Line(h, e)[1] \in Nat /\ Line(h, e)[2] = e /\ Line(h, e)[3] \in Nat
         /\ h.first <= Line(h, e)[1] /\ Line(h, e)[1] < Line(h, e)[3]
         /\ Line(h, e)[3] <= h.first + Bytes[h.contents]
         /\ \A f \in h.contents : e < f => Line(h, e)[3] <= Line(h, f)[1]
<1> DEFINE s == h.contents
<1>1. Directories /\ Text
  BY DEF Streams
<1>2. /\ Bytes[Before(s, e)] \in Nat /\ Bytes[UpTo(s, e)] \in Nat /\ Bytes[s] \in Nat
      /\ Bytes[Before(s, e)] < Bytes[UpTo(s, e)]
      /\ Bytes[UpTo(s, e)] <= Bytes[s]
      /\ \A f \in s : e < f => Bytes[UpTo(s, e)] <= Bytes[Before(s, f)]
  BY <1>1, LineBytes
<1>3. \A f \in s : Bytes[Before(s, f)] \in Nat
  BY <1>1, LineBytes
<1>4. e \in Nat /\ e > 0
  <2>1. e \in Entries /\ Entries \subseteq Nat \ {0}
    BY <1>1 DEF Directories
  <2> QED BY <2>1
<1>5. \A f \in s : /\ Line(h, f)[1] = h.first + Bytes[Before(s, f)] /\ Line(h, f)[2] = f
                   /\ Line(h, f)[3] = h.first + Bytes[UpTo(s, f)]
  BY DEF Line
<1> HIDE DEF s
<1>6. /\ Line(h, e)[1] = h.first + Bytes[Before(s, e)] /\ Line(h, e)[2] = e
      /\ Line(h, e)[3] = h.first + Bytes[UpTo(s, e)]
  BY <1>5 DEF s
<1>7. ASSUME NEW f \in s, e < f PROVE Line(h, e)[3] <= Line(h, f)[1]
  BY <1>2, <1>3, <1>5, <1>6, <1>7
<1>8. /\ Line(h, e)[1] \in Nat /\ Line(h, e)[3] \in Nat
      /\ h.first <= Line(h, e)[1] /\ Line(h, e)[1] < Line(h, e)[3]
      /\ Line(h, e)[3] <= h.first + Bytes[s]
  BY <1>2, <1>6
<1> QED BY <1>4, <1>6, <1>7, <1>8 DEF s

\* What the reader takes from a reply.
Takes(reply, last) ==
  LET given == {l \in reply : l[1] <= last[1]}
  IN  /\ pos' = last[3] /\ status' = status
      /\ got' = got \cup {l[2] : l \in given} /\ seen' = seen \cup given

\* It takes some lines of a reply, or finds that there are none.
LEMMA GiveIs ==
  ASSUME NEW reply, Give(reply)
  PROVE  \/ /\ reply = {} /\ status' = "ended" /\ pos' = pos /\ got' = got
            /\ seen' = seen \cup {<<pos, 0, pos>>}
         \/ \E last \in reply : Takes(reply, last)
  BY DEF Give, Takes

\* What a reply is made of, when chunk g is loaded.
Reply(g, off) == SpecialsAt(pos) \cup {l \in Lines(g) : l[1] >= off}

\* What fs123_readdir does with the chunk that it has loaded.
Parsed(g, off) ==
  /\ fh' = g
  /\ \/ ReaddirFails
     \/ /\ Give(Reply(g, off))
        /\ off < g.first + Bytes[g.contents] => \E l \in Lines(g) : l[1] = off

\* The ways through fs123_readdir.
ReaddirStep(h, off) ==
  \/ Specials - pos > Room /\ Give(SpecialsAt(pos)) /\ fh' = fh
  \/ fh' = h /\ ReaddirFails
  \/ fh' = h /\ AtEnd(h, off) /\ Give({})
  \/ Loaded(h, off) /\ ~AtEnd(h, off) /\ Parsed(h, off)
  \/ /\ off <= Latest(h).off /\ ~AtEnd(h, off) /\ ~Loaded(h, off)
     /\ \E d \in Listings : Parsed(Fetch(h, off, d), off)

\* These are all of them.
LEMMA ReaddirSteps ==
  ASSUME Readdir
  PROVE  /\ ReaddirStep(Rooted, Behind(pos)) /\ status = "open"
         /\ UNCHANGED <<dir, answers, changes, stable, changed, sought>>
<1> DEFINE h == Rooted
           off == Behind(pos)
<1>1. \A g, o : Parse(g, o, SpecialsAt(pos)) => Parsed(g, o)
  BY DEF Parse, Parsed, Reply
<1>2. ReaddirSpecials => ReaddirStep(h, off)
  BY DEF ReaddirSpecials, ReaddirStep
<1>3. ReaddirEnd(h, off) => ReaddirStep(h, off)
  BY DEF ReaddirEnd, ReaddirStep
<1>4. ReaddirLoaded(h, off) => ReaddirStep(h, off)
  BY <1>1 DEF ReaddirLoaded, ReaddirStep
<1>5. ReaddirChunk(h, off) => ReaddirStep(h, off)
  BY <1>1 DEF ReaddirChunk, ReaddirStep
<1> QED BY <1>2, <1>3, <1>4, <1>5 DEF Readdir

-----------------------------------------------------------------------------
(* The shape of the state.                                                  *)

Shape ==
  /\ dir \in answers /\ answers \in SUBSET SUBSET Entries
  /\ \A a \in answers : Dots \subseteq a /\ stable \subseteq a
  /\ changes \in 0 .. MaxChanges
  /\ HandleOK(fh)
  /\ pos \in Nat /\ status \in {"closed", "open", "ended", "failed"}
  /\ \A l \in seen : l[3] \in Nat
  /\ stable \subseteq Entries /\ changed \in BOOLEAN
  /\ sought \in {"no", "rewound", "elsewhere"}
  /\ status = "closed" => seen = {}

\* A new handle knows the first chunk only.
LEMMA NewIs == HandleOK(NewHandle) /\ Count(NewHandle) = 1 /\ NewHandle.contents = {}
<1> DEFINE m == [off |-> 0, start |-> 0]
<1>1. m \in Marks
  BY DEF Marks
<1> HIDE DEF m
<1>2. <<m>> \in Seq(Marks) /\ Len(<<m>>) = 1 /\ <<m>>[1] = m
  BY <1>1
<1>3. NewHandle = [contents |-> {}, first |-> 0, offsets |-> <<m>>, eof |-> FALSE]
  BY DEF NewHandle, Empty, m
<1>4. Count(NewHandle) = 1
  BY <1>2, <1>3 DEF Count
<1>5. m.off = 0 /\ m.start = 0
  BY DEF m
<1>6. HandleOK(NewHandle)
  <2> DEFINE h == NewHandle
  <2>1. /\ h.contents = {} /\ h.first = 0 /\ h.offsets = <<m>> /\ h.eof = FALSE
        /\ h = [contents |-> h.contents, first |-> h.first, offsets |-> h.offsets, eof |-> h.eof]
    BY <1>3
  <2> HIDE DEF h
  <2>2. Count(h) = 1
    BY <1>4 DEF h
  <2>3. h.offsets \in Seq(Marks) /\ h.offsets[1].start = 0 /\ h.offsets[1].off = 0
    BY <2>1, <1>2, <1>5
  <2>4. h.first \in Nat
    BY <2>1
  <2>5. h.eof \in BOOLEAN /\ ~h.eof
    BY <2>1, Zenon
  <2>6. HandleOK(h)
    BY <2>1, <2>2, <2>3, <2>4, <2>5 DEF HandleOK
  <2> QED BY <2>6 DEF h
<1> QED BY <1>3, <1>4, <1>6

\* What is given to the reader are offsets.
LEMMA GivenShape ==
  ASSUME Streams, Shape, NEW h, HandleOK(h), NEW off, status = "open",
         Give(Reply(h, off)) \/ Give(SpecialsAt(pos)) \/ Give({}) \/ ReaddirFails
  PROVE  /\ pos' \in Nat /\ status' \in {"open", "ended", "failed"}
         /\ \A l \in seen' : l[3] \in Nat
<1>1. pos \in Nat /\ \A l \in seen : l[3] \in Nat
  BY DEF Shape
<1>2. \A l \in SpecialsAt(pos) : l[3] \in Nat
  <2>1. \A k \in pos + 1 .. Specials : k \in Nat /\ <<k - 1, -k, k>>[3] = k
    BY <1>1 DEF Streams, Limits
  <2> QED BY <2>1, <1>1, ReplyIs DEF Streams
<1>3. \A l \in Lines(h) : l[3] \in Nat
  <2>1. h.contents \in SUBSET Entries /\ h.first \in Nat
    BY DEF HandleOK
  <2>2. \A e \in h.contents : Line(h, e)[3] \in Nat
    BY <2>1, LinesFollow
  <2>3. Lines(h) = {Line(h, e) : e \in h.contents}
    BY <1>1, ReplyIs DEF Streams
  <2>4. TAKE l \in Lines(h)
  <2>5. PICK e \in h.contents : l = Line(h, e)
    BY <2>3, <2>4, Zenon
  <2> QED BY <2>2, <2>5, Zenon
<1>4. \A l \in Reply(h, off) : l[3] \in Nat
  BY <1>2, <1>3 DEF Reply
<1>5. ASSUME NEW reply, Give(reply), \A l \in reply : l[3] \in Nat
      PROVE  /\ pos' \in Nat /\ status' \in {"open", "ended", "failed"}
             /\ \A l \in seen' : l[3] \in Nat
  <2>1. CASE /\ status' = "ended" /\ pos' = pos
             /\ seen' = seen \cup {<<pos, 0, pos>>}
    <3>1. <<pos, 0, pos>>[3] = pos
      OBVIOUS
    <3> QED BY <2>1, <3>1, <1>1
  <2>2. CASE \E last \in reply : Takes(reply, last)
    BY <2>2, <1>1, <1>5 DEF Takes
  <2> QED BY <2>1, <2>2, <1>5, GiveIs
<1>6. CASE ReaddirFails
  BY <1>1, <1>6 DEF ReaddirFails
<1>7. CASE Give({})
  BY <1>5, <1>7
<1> QED BY <1>2, <1>4, <1>5, <1>6, <1>7

\* fs123_readdir keeps the handle in shape.
LEMMA ReaddirShape ==
  ASSUME Streams, Shape, Readdir
  PROVE  Shape'
<1> DEFINE h == Rooted
           off == Behind(pos)
<1>1. /\ ReaddirStep(h, off) /\ status = "open"
      /\ UNCHANGED <<dir, answers, changes, stable, changed, sought>>
  BY ReaddirSteps
<1>2. HandleOK(fh) /\ pos \in Nat
  BY DEF Shape
<1>3. HandleOK(h) /\ h.offsets[1].off = Specials
  BY <1>2, RootedIs DEF Streams
<1>4. off \in Nat /\ off >= Specials
  BY <1>2, BehindIs DEF Streams
<1> HIDE DEF h, off
<1>5. ASSUME NEW d \in Listings
      PROVE  HandleOK(Fetch(h, off, d))
  <2>1. d \in SUBSET Entries
    BY ListingIs DEF Shape
  <2>2. Specials <= off
    BY <1>4 DEF Streams, Limits
  <2> QED BY <2>1, <2>2, <1>3, <1>4, Fetched
<1>6. /\ HandleOK(fh')
      /\ pos' \in Nat /\ status' \in {"open", "ended", "failed"}
      /\ \A l \in seen' : l[3] \in Nat
  <2>1. CASE Give(SpecialsAt(pos)) /\ fh' = fh
    BY <2>1, <1>1, <1>2, GivenShape
  <2>2. CASE fh' = h /\ ReaddirFails
    BY <2>2, <1>1, <1>3, GivenShape
  <2>3. CASE fh' = h /\ Give({})
    BY <2>3, <1>1, <1>3, GivenShape
  <2>4. ASSUME NEW g, HandleOK(g), Parsed(g, off)
        PROVE  /\ HandleOK(fh')
               /\ pos' \in Nat /\ status' \in {"open", "ended", "failed"}
               /\ \A l \in seen' : l[3] \in Nat
    <3>1. fh' = g /\ (ReaddirFails \/ Give(Reply(g, off)))
      BY <2>4 DEF Parsed
    <3> QED BY <3>1, <2>4, <1>1, GivenShape
  <2> QED BY <2>1, <2>2, <2>3, <2>4, <1>1, <1>3, <1>5 DEF ReaddirStep
<1> QED BY <1>1, <1>6 DEF Shape

\* Every step keeps the state in shape.
LEMMA ShapeStep ==
  ASSUME Streams, Shape, [ReaddirNext]_readdirVars
  PROVE  Shape'
<1>1. ASSUME NEW d \in SUBSET Entries, Modify(d) PROVE Shape'
  <2>1. changes' \in 0 .. MaxChanges
    BY <1>1 DEF Shape, Modify, Streams, Limits
  <2> QED BY <1>1, <2>1 DEF Shape, Modify
<1>2. ASSUME NEW d \in answers, Settle(d) PROVE Shape'
  BY <1>2 DEF Shape, Settle
<1>3. CASE Opendir
  <2>1. Always \subseteq Entries /\ \A a \in answers : Always \subseteq a
    BY DEF Always
  <2>2. changed' \in BOOLEAN
    BY <1>3 DEF Opendir
  <2> QED BY <1>3, <2>1, <2>2, NewIs DEF Shape, Opendir
<1>4. CASE Readdir
  BY <1>4, ReaddirShape
<1>5. CASE Releasedir
  BY <1>5, NewIs DEF Shape, Releasedir
<1>6. ASSUME NEW off \in Told \cup {0}, Seek(off) PROVE Shape'
  <2>1. off \in Nat
    BY DEF Shape, Told
  <2>2. sought' \in {"no", "rewound", "elsewhere"}
    BY <1>6 DEF Seek
  <2> QED BY <1>6, <2>1, <2>2 DEF Shape, Seek
<1>7. CASE UNCHANGED readdirVars
  BY <1>7 DEF Shape, readdirVars
<1> QED BY <1>1, <1>2, <1>3, <1>4, <1>5, <1>6, <1>7 DEF ReaddirNext

\* The shape holds at first.
LEMMA ShapeInit ==
  ASSUME Streams, ReaddirInit
  PROVE  Shape
<1>1. 0 \in 0 .. MaxChanges
  BY DEF Streams, Limits
<1> QED BY <1>1, NewIs DEF ReaddirInit, Shape

\* The shape includes the types that Readdir states.
LEMMA ShapeTypes == ASSUME Shape PROVE ReaddirTypeOK
<1>1. HandleOK(fh)
  BY DEF Shape
<1>2. fh \in Handles
  BY <1>1 DEF HandleOK, Handles, Marks, Empty
<1>3. Count(fh) \in Nat
  <2>1. fh.offsets \in Seq(Marks)
    BY <1>1 DEF HandleOK
  <2> QED BY <2>1, ElementsAre DEF Count
<1>4. ASSUME NEW i \in 2 .. Count(fh) PROVE fh.offsets[i - 1].off <= fh.offsets[i].off
  <2>1. i - 1 \in 1 .. Count(fh) - 1 /\ (i - 1) + 1 = i
    BY <1>3
  <2>2. \A j \in 1 .. Count(fh) - 1 : fh.offsets[j].off <= fh.offsets[j + 1].off
    BY <1>1 DEF HandleOK
  <2>3. fh.offsets[i - 1].off <= fh.offsets[(i - 1) + 1].off
    BY <2>1, <2>2
  <2> QED BY <2>1, <2>3
<1>5. \A i \in 2 .. Len(fh.offsets) : fh.offsets[i - 1].off <= fh.offsets[i].off
  BY <1>4, Zenon DEF Count
<1> QED BY <1>2, <1>5 DEF Shape, ReaddirTypeOK

\* The types of a directory stream, and that the chunks its handle knows of follow one
\* another, whatever the sizes of entries, chunks and of the kernel's buffer.
THEOREM ReaddirTypeCorrect == ReaddirSpec => []ReaddirTypeOK
<1>1. ReaddirInit => Shape
  BY Allowed, ShapeInit
<1>2. Shape /\ [ReaddirNext]_readdirVars => Shape'
  BY Allowed, ShapeStep
<1>3. Shape => ReaddirTypeOK
  BY Allowed, ShapeTypes
<1> QED BY <1>1, <1>2, <1>3, PTL DEF ReaddirSpec

-----------------------------------------------------------------------------
(* A reader that only reads on.                                             *)

Special(x) == x = <<-x[2] - 1, x[2], -x[2]>>

\* The reader was given nothing twice; and the special entries as they are.
SeenOK(sn) == /\ \A x \in sn : x[2] \in Int /\ (x[2] < 0 => Special(x))
              /\ \A x, y \in sn : x[2] = y[2] => x = y

\* The reader is at off, in the chunk that is loaded, which is the last one and lies between
\* the marks p and q: sn are the lines that it has seen and gt the entries, and st those that
\* are in every listing.
Ahead(h, p, q, off, sn, gt, st) ==
  /\ h.first = p.off /\ q.off = h.first + Bytes[h.contents]
  /\ h.first <= off /\ off <= q.off
  /\ \A e \in h.contents : p.start < e /\ (q.start # 0 => e <= q.start)
  /\ q.start # 0 => q.start \in h.contents
  /\ \A e \in h.contents : Line(h, e)[3] <= off \/ Line(h, e)[1] >= off
  /\ \A e \in h.contents : Line(h, e)[3] <= off => e \in gt
  /\ \A x \in sn : x[2] > p.start => x[2] \in h.contents /\ x = Line(h, x[2])
  /\ \A e \in st : e <= p.start => e \in gt
  /\ \A e \in st : e > p.start /\ (q.start = 0 \/ e <= q.start) => e \in h.contents

Forward ==
  sought = "no" =>
    /\ SeenOK(seen)
    /\ \A x \in seen : x[2] = 0 => status = "ended"
    /\ status = "ended" => stable \subseteq got
    /\ Count(fh) = 1 => pos <= Specials /\ \A x \in seen : x[2] < 0
    /\ Count(fh) > 1 => Ahead(fh, fh.offsets[Count(fh) - 1], fh.offsets[Count(fh)],
                              Behind(pos), seen, got, stable)

\* Lines that are new, or the same as before.
LEMMA SeenGrows ==
  ASSUME NEW sn, SeenOK(sn), NEW new,
         \A l \in new : l[2] \in Int /\ l[2] # 0 /\ (l[2] < 0 => Special(l)),
         \A l \in new : \A x \in sn \cup new : l[2] > 0 /\ x[2] = l[2] => x = l
  PROVE  SeenOK(sn \cup new) /\ \A x \in sn \cup new : x[2] = 0 => x \in sn
<1>1. \A x \in sn \cup new : x[2] \in Int /\ (x[2] < 0 => Special(x)) /\ (x[2] = 0 => x \in sn)
  BY DEF SeenOK
<1>2. ASSUME NEW x \in sn \cup new, NEW y \in sn \cup new, x[2] = y[2] PROVE x = y
  <2>1. CASE x[2] < 0
    <3>1. x = <<-x[2] - 1, x[2], -x[2]>> /\ y = <<-y[2] - 1, y[2], -y[2]>>
      BY <2>1, <1>1, <1>2 DEF Special
    <3> QED BY <3>1, <1>2, Zenon
  <2>2. CASE x[2] = 0
    <3>1. x \in sn /\ y \in sn
      BY <2>2, <1>1, <1>2
    <3> QED BY <3>1, <1>2 DEF SeenOK
  <2>3. CASE x[2] > 0
    <3>1. CASE x \in new
      BY <3>1, <2>3, <1>2
    <3>2. CASE y \in new
      <4>1. y[2] > 0
        BY <2>3, <1>2
      <4> QED BY <3>2, <4>1, <1>2
    <3>3. CASE x \in sn /\ y \in sn
      BY <3>3, <1>2 DEF SeenOK
    <3> QED BY <3>1, <3>2, <3>3
  <2>4. x[2] \in Int
    BY <1>1
  <2> QED BY <2>1, <2>2, <2>3, <2>4
<1> QED BY <1>1, <1>2 DEF SeenOK

\* The special entries that a reply has.
LEMMA SpecialsAre ==
  ASSUME Streams, NEW p \in Nat, NEW l \in SpecialsAt(p)
  PROVE  /\ l[1] \in Nat /\ l[2] \in Int /\ l[3] \in Nat /\ l[2] < 0 /\ Special(l)
         /\ l[1] < Specials /\ l[3] <= Specials /\ p < Specials
<1>1. Specials \in Nat
  BY DEF Streams, Limits
<1>2. PICK k \in p + 1 .. Specials : l = <<k - 1, -k, k>>
  BY ReplyIs DEF Streams
<1>3. k \in Nat /\ k > 0 /\ k > p /\ k <= Specials
  BY <1>1
<1>4. l[1] = k - 1 /\ l[2] = -k /\ l[3] = k
  BY <1>2
<1>5. Special(l)
  <2>1. -l[2] - 1 = k - 1 /\ -l[2] = k
    BY <1>3, <1>4
  <2> QED BY <2>1, <1>2, <1>4 DEF Special
<1> QED BY <1>1, <1>3, <1>4, <1>5

\* The lines taken from a reply, up to the last of them: special entries alone, or lines of the
\* chunk as well.
LEMMA TakenIs ==
  ASSUME Streams, pos \in Nat, NEW g, HandleOK(g), NEW off, off = Behind(pos),
         NEW last \in Reply(g, off), NEW new, new = {l \in Reply(g, off) : l[1] <= last[1]}
  PROVE  /\ \A l \in new : \/ l \in SpecialsAt(pos)
                           \/ l[2] \in g.contents /\ l = Line(g, l[2]) /\ l[1] >= off
         /\ \/ /\ last \in SpecialsAt(pos) /\ new \subseteq SpecialsAt(pos)
               /\ Behind(last[3]) = off
            \/ /\ last[2] \in g.contents /\ last = Line(g, last[2]) /\ last[1] >= off
               /\ Behind(last[3]) = last[3] /\ last[3] > off
<1>1. Specials \in Nat /\ Limits
  BY DEF Streams, Limits
<1>2. /\ off \in Nat /\ off >= Specials
      /\ pos <= Specials => off = Specials
  BY <1>1, BehindIs
<1>3. g.contents \in SUBSET Entries /\ g.first \in Nat
  BY DEF HandleOK
<1>4. ASSUME NEW l \in Reply(g, off)
      PROVE  \/ l \in SpecialsAt(pos)
             \/ l[2] \in g.contents /\ l = Line(g, l[2]) /\ l[1] >= off
  <2>1. CASE l \in Lines(g) /\ l[1] >= off
    <3>1. PICK e \in g.contents : l = Line(g, e)
      BY <2>1, <1>1, ReplyIs
    <3>2. l[2] = e
      BY <3>1, <1>3, LinesFollow
    <3> QED BY <2>1, <3>1, <3>2
  <2> QED BY <2>1 DEF Reply
<1>5. \A e \in g.contents : Line(g, e)[1] \in Nat /\ Line(g, e)[3] \in Nat
                            /\ Line(g, e)[1] < Line(g, e)[3]
  BY <1>3, LinesFollow
<1>6. CASE last \in SpecialsAt(pos)
  <2>1. last[1] < Specials /\ last[1] \in Nat /\ last[3] \in Nat /\ last[3] <= Specials
        /\ pos < Specials
    BY <1>6, SpecialsAre
  <2>2. Behind(last[3]) = Specials /\ off = Specials
    BY <2>1, <1>1, <1>2, BehindIs
  <2>3. ASSUME NEW l \in new PROVE l \in SpecialsAt(pos)
    <3>1. l \in Reply(g, off) /\ l[1] <= last[1]
      OBVIOUS
    <3>2. CASE l[2] \in g.contents /\ l = Line(g, l[2]) /\ l[1] >= off
      <4>1. l[1] \in Nat
        BY <3>2, <1>5
      <4> QED BY <4>1, <3>1, <3>2, <2>1, <2>2, <1>1
    <3> QED BY <3>1, <3>2, <1>4
  <2> QED BY <1>6, <2>2, <2>3
<1>7. CASE last[2] \in g.contents /\ last = Line(g, last[2]) /\ last[1] >= off
  <2>1. last[1] \in Nat /\ last[3] \in Nat /\ last[1] < last[3]
    BY <1>5, <1>7
  <2>2. last[3] > off /\ last[3] >= Specials
    BY <2>1, <1>1, <1>2, <1>7
  <2> QED BY <2>1, <2>2, <1>1, <1>4, <1>7, BehindIs
<1>8. \A l \in new : \/ l \in SpecialsAt(pos)
                     \/ l[2] \in g.contents /\ l = Line(g, l[2]) /\ l[1] >= off
  BY <1>4
<1> QED BY <1>4, <1>6, <1>7, <1>8

\* Taking lines from a reply moves the reader on, and gives it nothing again.
LEMMA TakeForward ==
  ASSUME Streams, pos \in Nat, NEW g, HandleOK(g), NEW off, off = Behind(pos), NEW p, NEW q,
         p.start \in Nat, SeenOK(seen), Ahead(g, p, q, off, seen, got, stable),
         NEW last \in Reply(g, off), Takes(Reply(g, off), last)
  PROVE  /\ SeenOK(seen') /\ \A x \in seen' : x[2] = 0 => x \in seen
         /\ Ahead(g, p, q, Behind(pos'), seen', got', stable)
<1> DEFINE new == {l \in Reply(g, off) : l[1] <= last[1]}
<1>1. /\ pos' = last[3] /\ seen' = seen \cup new /\ got' = got \cup {l[2] : l \in new}
  BY DEF Takes
<1>2. /\ \A l \in new : \/ l \in SpecialsAt(pos)
                        \/ l[2] \in g.contents /\ l = Line(g, l[2]) /\ l[1] >= off
      /\ \/ /\ last \in SpecialsAt(pos) /\ new \subseteq SpecialsAt(pos)
            /\ Behind(last[3]) = off
         \/ /\ last[2] \in g.contents /\ last = Line(g, last[2]) /\ last[1] >= off
            /\ Behind(last[3]) = last[3] /\ last[3] > off
  BY TakenIs
<1>3. \A l \in new : l \in Reply(g, off) /\ l[1] <= last[1]
  OBVIOUS
<1>13. \A l \in Reply(g, off) : l[1] <= last[1] => l \in new
  OBVIOUS
<1> HIDE DEF new
<1>4. off \in Nat
  BY BehindIs DEF Streams
<1>5. g.contents \in SUBSET Entries /\ g.first \in Nat
  BY DEF HandleOK
<1>6. \A e \in g.contents :
        /\ e \in Nat /\ e > 0 /\ Line(g, e)[1] \in Nat /\ Line(g, e)[2] = e
        /\ Line(g, e)[3] \in Nat /\ Line(g, e)[1] < Line(g, e)[3]
        /\ Line(g, e)[3] <= g.first + Bytes[g.contents]
        /\ \A f \in g.contents : e < f => Line(g, e)[3] <= Line(g, f)[1]
  BY <1>5, LinesFollow
<1>7. \A l \in new : l[2] \in Int /\ l[2] # 0 /\ (l[2] < 0 => Special(l))
  <2> SUFFICES ASSUME NEW l \in new PROVE l[2] \in Int /\ l[2] # 0 /\ (l[2] < 0 => Special(l))
    OBVIOUS
  <2>1. CASE l \in SpecialsAt(pos)
    BY <2>1, SpecialsAre
  <2>2. CASE l[2] \in g.contents
    BY <2>2, <1>6
  <2> QED BY <2>1, <2>2, <1>2
<1>8. \A x \in seen : x[2] > p.start => x[2] \in g.contents /\ x = Line(g, x[2])
  BY DEF Ahead
<1>9. \A l \in new : l[2] > 0 => l[2] \in g.contents /\ l = Line(g, l[2]) /\ l[1] >= off
  <2> SUFFICES ASSUME NEW l \in new, l[2] > 0
               PROVE  l[2] \in g.contents /\ l = Line(g, l[2]) /\ l[1] >= off
    OBVIOUS
  <2>1. CASE l \in SpecialsAt(pos)
    <3>1. l[2] < 0 /\ l[2] \in Int
      BY <2>1, SpecialsAre
    <3> QED BY <3>1
  <2> QED BY <2>1, <1>2
<1>10. \A l \in new : \A x \in seen \cup new : l[2] > 0 /\ x[2] = l[2] => x = l
  <2> SUFFICES ASSUME NEW l \in new, NEW x \in seen \cup new, l[2] > 0, x[2] = l[2]
               PROVE  x = l
    OBVIOUS
  <2>1. l[2] \in g.contents /\ l = Line(g, l[2])
    BY <1>9
  <2>2. CASE x \in new
    BY <2>1, <2>2, <1>9
  <2>3. CASE x \in seen
    <3>1. l[2] > p.start
      BY <2>1, <1>6 DEF Ahead
    <3> QED BY <3>1, <2>1, <2>3, <1>8
  <2> QED BY <2>2, <2>3
<1>11. SeenOK(seen') /\ \A x \in seen' : x[2] = 0 => x \in seen
  BY <1>1, <1>7, <1>10, SeenGrows
<1>12. \A x \in seen' : x[2] > p.start => x[2] \in g.contents /\ x = Line(g, x[2])
  <2>1. \A x \in new : x[2] > p.start => x[2] > 0
    BY <1>7
  <2> QED BY <2>1, <1>1, <1>8, <1>9
<1>14. got \subseteq got'
  BY <1>1
<1>15. CASE Behind(last[3]) = off
  BY <1>1, <1>11, <1>12, <1>14, <1>15 DEF Ahead
<1>16. CASE /\ last[2] \in g.contents /\ last = Line(g, last[2]) /\ last[1] >= off
            /\ Behind(last[3]) = last[3] /\ last[3] > off
  <2> DEFINE e == last[2]
  <2>1. e \in g.contents /\ last[3] = Line(g, e)[3] /\ last[1] = Line(g, e)[1]
    BY <1>16
  <2> HIDE DEF e
  <2>2. g.first <= off /\ off <= q.off /\ q.off = g.first + Bytes[g.contents]
    BY DEF Ahead
  <2>3. g.first <= last[3] /\ last[3] <= q.off
    BY <2>1, <2>2, <1>4, <1>5, <1>6, <1>16
  <2>4. ASSUME NEW f \in g.contents
        PROVE  /\ Line(g, f)[3] <= last[3] \/ Line(g, f)[1] >= last[3]
               /\ Line(g, f)[3] <= last[3] => f \in got'
    <3>1. /\ Line(g, f)[1] \in Nat /\ Line(g, f)[3] \in Nat /\ Line(g, f)[1] < Line(g, f)[3]
          /\ f \in Nat /\ e \in Nat /\ last[1] \in Nat /\ last[3] \in Nat /\ last[1] < last[3]
      BY <2>1, <1>6
    <3>2. CASE f > e
      <4>1. last[3] <= Line(g, f)[1]
        BY <3>2, <3>1, <2>1, <1>6
      <4> QED BY <4>1, <3>1
    <3>3. CASE f <= e
      <4>1. Line(g, f)[3] <= last[3] /\ Line(g, f)[1] <= last[1]
        <5>1. CASE f = e
          BY <5>1, <3>1, <2>1
        <5>2. CASE f < e
          <6>1. Line(g, f)[3] <= last[1]
            BY <5>2, <2>1, <1>6
          <6> QED BY <6>1, <3>1
        <5> QED BY <5>1, <5>2, <3>1, <3>3
      <4>2. CASE Line(g, f)[3] <= off
        <5>1. f \in got
          BY <4>2 DEF Ahead
        <5> QED BY <5>1, <4>1, <1>14
      <4>3. CASE Line(g, f)[1] >= off
        <5>1. Line(g, f) \in Reply(g, off)
          BY <4>3, ReplyIs DEF Reply, Streams
        <5>2. Line(g, f) \in new
          BY <5>1, <4>1, <1>13
        <5>3. Line(g, f)[2] = f
          BY <1>6
        <5>4. f \in got'
          BY <5>2, <5>3, <1>1
        <5> QED BY <5>4, <4>1
      <4> QED BY <4>2, <4>3 DEF Ahead
    <3> QED BY <3>1, <3>2, <3>3
  <2>5. Behind(pos') = last[3]
    BY <1>1, <1>16
  <2>6. Ahead(g, p, q, last[3], seen', got', stable)
    BY <2>3, <2>4, <1>12, <1>14 DEF Ahead
  <2> QED BY <2>5, <2>6, <1>11
<1> QED BY <1>2, <1>15, <1>16

\* A reader that only reads on comes to the end of what is loaded, and behind all that it
\* has been given, when it needs the next chunk.
LEMMA NeedsNext ==
  ASSUME Streams, Shape, Forward, sought = "no", status = "open",
         NEW h, h = Rooted, NEW off, off = Behind(pos), NEW n, n = Count(h),
         off <= h.offsets[n].off, ~(off = h.offsets[n].off /\ h.eof), ~Loaded(h, off)
  PROVE  /\ off = h.offsets[n].off /\ ChunkAt(h, off) = n
         /\ \A x \in seen : ~(x[2] > h.offsets[n].start)
         /\ \A e \in stable : e <= h.offsets[n].start => e \in got
         /\ n > 1 => h.offsets[n].start # 0
<1>1. HandleOK(fh) /\ pos \in Nat /\ Specials \in Nat /\ Limits
  BY DEF Shape, Streams, Limits
<1>2. HandleOK(h) /\ h.offsets[1].off = Specials /\ n = Count(fh) /\ (n > 1 => h = fh)
  BY <1>1, RootedIs
<1>3. n \in Nat /\ n >= 1
  <2>1. h.offsets \in Seq(Marks) /\ n >= 1
    BY <1>2 DEF HandleOK
  <2> QED BY <2>1, ElementsAre DEF Count
<1>4. \A j \in 1 .. n : h.offsets[j].off \in Nat /\ h.offsets[j].start \in Entries \cup {0}
  BY <1>2, OffsetsAre
<1>5. off \in Nat /\ off >= Specials /\ (pos <= Specials => off = Specials)
  BY <1>1, BehindIs
<1>6. Entries \subseteq Nat \ {0} /\ stable \subseteq Entries
  BY DEF Streams, Directories, Shape
<1>7. ASSUME off = h.offsets[n].off PROVE ChunkAt(h, off) = n
  <2> DEFINE i == ChunkAt(h, off)
  <2>1. /\ i \in 1 .. n
        /\ \A j \in 1 .. n : h.offsets[j].off <= off => j <= i
    <3>1. h.offsets[1].off <= off
      BY <1>1, <1>2, <1>5
    <3> QED BY <3>1, <1>2, <1>5, ChunkAtIs
  <2> HIDE DEF i
  <2>2. n \in 1 .. n /\ h.offsets[n].off <= off
    BY <1>3, <1>5, <1>7
  <2>3. n <= i
    BY <2>1, <2>2
  <2>4. i = n
    BY <2>1, <2>3, <1>3
  <2> QED BY <2>4 DEF i
<1>8. CASE n = 1
  <2>1. pos <= Specials /\ \A x \in seen : x[2] < 0
    BY <1>2, <1>8 DEF Forward
  <2>2. off = h.offsets[n].off
    BY <2>1, <1>2, <1>5, <1>8
  <2>3. h.offsets[n].start = 0
    BY <1>2, <1>8 DEF HandleOK
  <2>4. \A x \in seen : x[2] \in Int
    BY DEF Forward, SeenOK
  <2>5. \A x \in seen : ~(x[2] > 0)
    BY <2>1, <2>4
  <2>6. ASSUME NEW e \in stable PROVE ~(e <= 0)
    <3>1. e \in Nat /\ e # 0
      BY <1>6
    <3> QED BY <3>1
  <2> QED BY <2>2, <2>3, <2>5, <2>6, <1>7, <1>8
<1>9. CASE n > 1
  <2> DEFINE p == fh.offsets[n - 1]
             q == fh.offsets[n]
  <2>1. Ahead(fh, p, q, off, seen, got, stable)
    BY <1>2, <1>9 DEF Forward
  <2>2. h = fh
    BY <1>2, <1>9
  <2>3. n - 1 \in 1 .. n /\ n \in 1 .. n
    BY <1>3, <1>9
  <2>4. /\ p.off \in Nat /\ p.start \in Nat /\ q.off \in Nat
        /\ q.start \in Nat /\ q.start \in Entries \cup {0}
    <3>1. \A j \in 1 .. n : fh.offsets[j].start \in Nat
      <4>1. Entries \cup {0} \subseteq Nat
        BY <1>6
      <4> QED BY <4>1, <2>2, <1>4
    <3> QED BY <3>1, <2>2, <2>3, <1>4
  <2> HIDE DEF p, q
  <2>5. fh.contents \in SUBSET Entries /\ fh.first \in Nat
    BY <1>1 DEF HandleOK
  <2>6. off = q.off
    <3>1. fh.first <= off /\ off <= q.off /\ q.off = fh.first + Bytes[fh.contents]
      BY <2>1 DEF Ahead
    <3>2. ~(fh.first <= off /\ off < q.off)
      BY <3>1, <2>2 DEF Loaded
    <3> QED BY <3>1, <3>2, <2>4, <1>5
  <2>7. q.start # 0
    <3>1. h.eof <=> n > 1 /\ h.offsets[n].start = 0
      BY <1>2 DEF HandleOK
    <3> QED BY <3>1, <2>2, <2>6, <1>9 DEF q
  <2>8. q.start \in fh.contents /\ p.start < q.start
    BY <2>1, <2>7 DEF Ahead
  <2>9. ASSUME NEW x \in seen, x[2] > q.start PROVE FALSE
    <3>1. x[2] \in Int
      BY DEF Forward, SeenOK
    <3>2. x[2] > p.start
      BY <3>1, <2>4, <2>8, <2>9
    <3>3. x[2] <= q.start
      BY <3>2, <2>1, <2>7 DEF Ahead
    <3> QED BY <3>1, <3>3, <2>4, <2>9
  <2>10. ASSUME NEW e \in stable, e <= q.start PROVE e \in got
    <3>1. e \in Nat
      BY <1>6
    <3>2. CASE e <= p.start
      BY <3>2, <2>1 DEF Ahead
    <3>3. CASE e > p.start
      <4>1. e \in fh.contents
        BY <3>3, <2>1, <2>10 DEF Ahead
      <4>2. Line(fh, e)[3] <= fh.first + Bytes[fh.contents]
        BY <4>1, <2>5, LinesFollow
      <4>3. Line(fh, e)[3] <= off
        BY <4>2, <2>1, <2>6 DEF Ahead
      <4> QED BY <4>1, <4>3, <2>1 DEF Ahead
    <3> QED BY <3>1, <3>2, <3>3, <2>4
  <2> QED BY <2>2, <2>6, <2>7, <2>9, <2>10, <1>7 DEF q
<1> QED BY <1>3, <1>8, <1>9

\* The next chunk, from any listing, goes on where the reader is.
LEMMA NextChunk ==
  ASSUME Streams, Shape, Forward, sought = "no", status = "open",
         NEW h, h = Rooted, NEW off, off = Behind(pos),
         off <= Latest(h).off, ~AtEnd(h, off), ~Loaded(h, off),
         NEW d \in Listings, NEW g, g = Fetch(h, off, d), NEW p, p = g.offsets[Count(g) - 1],
         NEW q, q = g.offsets[Count(g)]
  PROVE  /\ HandleOK(g) /\ Count(g) > 1 /\ p.start \in Nat /\ g.first = off
         /\ Ahead(g, p, q, off, seen, got, stable)
<1> DEFINE n == Count(h)
           c == Chunk(d, h.offsets[n].start)
<1>1. /\ off = h.offsets[n].off /\ ChunkAt(h, off) = n
      /\ \A x \in seen : ~(x[2] > h.offsets[n].start)
      /\ \A e \in stable : e <= h.offsets[n].start => e \in got
  <2>1. off <= h.offsets[n].off /\ ~(off = h.offsets[n].off /\ h.eof)
    BY DEF Latest, AtEnd, Count
  <2> HIDE DEF n, c
  <2>2. n = Count(h)
    BY DEF n
  <2> QED BY <2>1, <2>2, NeedsNext
<1>2. HandleOK(h) /\ h.offsets[1].off = Specials
  BY RootedIs DEF Streams, Shape
<1>3. off \in Nat /\ Specials <= off
  <2>1. off \in Nat /\ off >= Specials
    BY BehindIs DEF Streams, Shape
  <2> QED BY <2>1 DEF Streams, Limits
<1>4. d \in SUBSET Entries /\ stable \subseteq d
  BY ListingIs DEF Shape
<1>5. /\ HandleOK(g) /\ Count(g) > 1
      /\ g.contents = c.content /\ g.first = h.offsets[n].off
      /\ Count(g) = n + 1
      /\ \A j \in 1 .. n : g.offsets[j] = h.offsets[j]
      /\ g.offsets[Count(g)] = [off |-> h.offsets[n].off + Bytes[c.content], start |-> c.next]
  BY <1>1, <1>2, <1>3, <1>4, Fetched
<1>6. n \in Nat /\ n >= 1 /\ n \in 1 .. n
  <2>1. h.offsets \in Seq(Marks) /\ n >= 1
    BY <1>2 DEF HandleOK
  <2>2. n \in Nat
    BY <2>1, ElementsAre DEF Count
  <2> QED BY <2>1, <2>2
<1>7. p = h.offsets[n] /\ p.start \in Entries \cup {0} /\ p.off = off
  <2>1. h.offsets[n].start \in Entries \cup {0}
    BY <1>2, <1>6, OffsetsAre
  <2>2. Count(g) - 1 = n
    BY <1>5, <1>6
  <2> QED BY <2>1, <2>2, <1>1, <1>5, <1>6
<1>8. q.off = off + Bytes[g.contents] /\ q.start = c.next
  BY <1>1, <1>5
<1>9. Entries \subseteq Nat \ {0} /\ Directories /\ Text
  BY DEF Streams, Directories
<1>10. p.start \in Nat
  <2>1. Entries \cup {0} \subseteq Nat
    BY <1>9
  <2> QED BY <2>1, <1>7
<1>11. c = Chunk(d, p.start)
  BY <1>7
<1> HIDE DEF c, n
<1>12. /\ c.content \subseteq After(d, p.start) /\ c.content \in SUBSET Entries
       /\ \A e \in c.content : \A x \in d : p.start < x /\ x <= e => x \in c.content
       /\ c.next = 0 => c.content = After(d, p.start)
       /\ c.next # 0 => /\ c.next \in c.content
                        /\ \A e \in c.content : e <= c.next
  <2>1. ASSUME NEW start \in Entries \cup {0}, start = p.start
        PROVE  /\ c.content \subseteq After(d, start) /\ c.content \in SUBSET Entries
               /\ \A e \in c.content : \A x \in d : start < x /\ x <= e => x \in c.content
               /\ c.next = 0 => c.content = After(d, start)
               /\ c.next # 0 => /\ c.next \in c.content
                                /\ \A e \in c.content : e <= c.next
    <3>1. c = Chunk(d, start)
      BY <2>1, <1>11
    <3> QED BY <3>1, <1>4, <1>9, ChunkIs
  <2> QED BY <2>1, <1>7
<1>13. g.contents \in SUBSET Entries /\ g.first \in Nat /\ g.first = off
  BY <1>1, <1>3, <1>5, <1>12
<1>14. Bytes[g.contents] \in Nat
  BY <1>9, <1>13, ByteSum
<1>15. \A e \in g.contents : Line(g, e)[1] >= off /\ ~(Line(g, e)[3] <= off)
  <2>1. \A e \in g.contents : /\ Line(g, e)[1] \in Nat /\ Line(g, e)[3] \in Nat
                              /\ g.first <= Line(g, e)[1] /\ Line(g, e)[1] < Line(g, e)[3]
    BY <1>13, LinesFollow
  <2> QED BY <2>1, <1>3, <1>13
<1>16. \A e \in g.contents : p.start < e
  <2>1. \A e \in g.contents : e > p.start /\ e \in Nat
    BY <1>5, <1>12, <1>9 DEF After
  <2> QED BY <2>1, <1>10
<1>17. ASSUME NEW e \in stable, e > p.start, q.start = 0 \/ e <= q.start
       PROVE  e \in g.contents
  <2>1. e \in d /\ e \in Nat
    BY <1>4, <1>9
  <2>2. p.start < e
    BY <2>1, <1>10, <1>17
  <2>3. CASE q.start = 0
    BY <2>1, <2>3, <1>5, <1>8, <1>12, <1>17 DEF After
  <2>4. CASE q.start # 0
    <3>1. q.start \in c.content /\ e <= q.start
      BY <2>4, <1>8, <1>12, <1>17
    <3> QED BY <3>1, <2>1, <2>2, <1>5, <1>12
  <2> QED BY <2>3, <2>4
<1>18. g.first = p.off /\ q.off = g.first + Bytes[g.contents] /\ g.first <= off /\ off <= q.off
  BY <1>3, <1>7, <1>8, <1>13, <1>14
<1>19. Ahead(g, p, q, off, seen, got, stable)
  BY <1>1, <1>5, <1>7, <1>8, <1>12, <1>15, <1>16, <1>17, <1>18 DEF Ahead
<1> QED BY <1>5, <1>10, <1>13, <1>19

\* The end of the directory is seen once.
LEMMA EndSeen ==
  ASSUME NEW sn, SeenOK(sn), \A x \in sn : x[2] # 0, NEW p
  PROVE  /\ SeenOK(sn \cup {<<p, 0, p>>})
         /\ \A x \in sn \cup {<<p, 0, p>>} : x \in sn \/ x[2] = 0
<1>1. <<p, 0, p>>[2] = 0
  OBVIOUS
<1> QED BY <1>1 DEF SeenOK

\* A reader that goes on in the chunk that is loaded, or that finds it empty.
LEMMA ParsedForward ==
  ASSUME Streams, pos \in Nat, status = "open", NEW g, HandleOK(g), Count(g) > 1,
         NEW p, p = g.offsets[Count(g) - 1], NEW q, q = g.offsets[Count(g)],
         p.start \in Nat, NEW off, off = Behind(pos),
         SeenOK(seen), \A x \in seen : x[2] # 0,
         Ahead(g, p, q, off, seen, got, stable),
         off < g.first + Bytes[g.contents] \/ g.first = off,
         Parsed(g, off), stable \subseteq Nat, stable' = stable
  PROVE  Forward'
<1>1. fh' = g
  BY DEF Parsed
<1>2. Count(g) # 1
  OBVIOUS
<1>3. ASSUME SeenOK(seen'), \A x \in seen' : x[2] = 0 => status' = "ended",
             status' = "ended" => stable \subseteq got',
             Ahead(g, p, q, Behind(pos'), seen', got', stable)
      PROVE  Forward'
  BY <1>1, <1>2, <1>3 DEF Forward
<1>4. CASE ReaddirFails
  <2>1. pos' = pos /\ got' = got /\ seen' = seen /\ status' = "failed"
    BY <1>4 DEF ReaddirFails
  <2> QED BY <2>1, <1>3
<1>5. CASE \E last \in Reply(g, off) : Takes(Reply(g, off), last)
  <2>1. PICK last \in Reply(g, off) : Takes(Reply(g, off), last)
    BY <1>5
  <2>2. /\ SeenOK(seen') /\ \A x \in seen' : x[2] = 0 => x \in seen
        /\ Ahead(g, p, q, Behind(pos'), seen', got', stable)
    BY <2>1, TakeForward
  <2>3. status' = "open"
    BY <2>1 DEF Takes
  <2> QED BY <2>2, <2>3, <1>3
<1>6. CASE /\ Reply(g, off) = {} /\ status' = "ended" /\ pos' = pos /\ got' = got
           /\ seen' = seen \cup {<<pos, 0, pos>>}
           /\ off < g.first + Bytes[g.contents] => \E l \in Lines(g) : l[1] = off
  <2>1. off \in Nat
    BY BehindIs DEF Streams
  <2>2. ASSUME NEW l \in Lines(g), l[1] = off PROVE FALSE
    <3>1. l \in Reply(g, off)
      BY <2>1, <2>2 DEF Reply
    <3> QED BY <3>1, <1>6
  <2>3. g.first = off /\ ~(off < g.first + Bytes[g.contents])
    BY <2>2, <1>6
  <2>4. g.contents \in SUBSET Entries /\ g.first \in Nat
    BY DEF HandleOK
  <2>5. ASSUME NEW e \in g.contents PROVE FALSE
    <3>1. /\ Line(g, e)[1] \in Nat /\ Line(g, e)[3] \in Nat /\ g.first <= Line(g, e)[1]
          /\ Line(g, e)[1] < Line(g, e)[3] /\ Line(g, e)[3] <= g.first + Bytes[g.contents]
      BY <2>4, LinesFollow
    <3>2. Bytes[g.contents] \in Nat
      BY <2>4, ByteSum DEF Streams
    <3> QED BY <3>1, <3>2, <2>1, <2>3
  <2>6. q.start = 0
    BY <2>5 DEF Ahead
  <2>7. stable \subseteq got
    <3> SUFFICES ASSUME NEW e \in stable PROVE e \in got
      OBVIOUS
    <3>1. ~(e > p.start)
      BY <2>5, <2>6 DEF Ahead
    <3>2. e <= p.start
      BY <3>1
    <3> QED BY <3>2 DEF Ahead
  <2>8. /\ SeenOK(seen') /\ \A x \in seen' : x \in seen \/ x[2] = 0
    BY <1>6, EndSeen
  <2>9. Ahead(g, p, q, off, seen', got', stable)
    <3>1. \A x \in seen' : x[2] > p.start => x \in seen
      BY <2>8
    <3> QED BY <3>1, <1>6 DEF Ahead
  <2> QED BY <2>7, <2>8, <2>9, <1>3, <1>6
<1> QED BY <1>4, <1>5, <1>6, GiveIs DEF Parsed

\* What is said of a reader when a chunk is known.
LEMMA ForwardAhead ==
  ASSUME Streams, Shape, Forward, sought = "no", Count(fh) > 1
  PROVE  /\ Ahead(fh, fh.offsets[Count(fh) - 1], fh.offsets[Count(fh)], Behind(pos),
                  seen, got, stable)
         /\ fh.offsets[Count(fh) - 1].start \in Nat
<1>1. HandleOK(fh)
  BY DEF Shape
<1>2. Count(fh) \in Nat
  <2>1. fh.offsets \in Seq(Marks)
    BY <1>1 DEF HandleOK
  <2> QED BY <2>1, ElementsAre DEF Count
<1>3. Count(fh) - 1 \in 1 .. Count(fh)
  BY <1>2
<1>4. fh.offsets[Count(fh) - 1].start \in Entries \cup {0}
  BY <1>1, <1>3, OffsetsAre
<1>5. Entries \cup {0} \subseteq Nat
  BY DEF Streams, Directories
<1> QED BY <1>4, <1>5 DEF Forward

\* fs123_readdir, for a reader that only reads on.
LEMMA ReaddirForward ==
  ASSUME Streams, Shape, Forward, Readdir
  PROVE  Forward'
<1> DEFINE h == Rooted
           off == Behind(pos)
<1>1. /\ ReaddirStep(h, off) /\ status = "open" /\ stable' = stable /\ sought' = sought
  BY ReaddirSteps
<1>2. CASE sought # "no"
  BY <1>1, <1>2 DEF Forward
<1>3. CASE sought = "no"
  <2>1. /\ HandleOK(fh) /\ pos \in Nat /\ Specials \in Nat /\ Limits
        /\ stable \subseteq Entries
    BY DEF Shape, Streams, Limits
  <2>2. stable \subseteq Nat
    BY <2>1 DEF Streams, Directories
  <2>3. /\ HandleOK(h) /\ Count(h) = Count(fh) /\ (Count(fh) > 1 => h = fh)
        /\ (Count(fh) = 1 => h.contents = {})
    BY <2>1, RootedIs
  <2>4. off \in Nat /\ off >= Specials /\ (pos <= Specials => off = Specials)
    BY <2>1, BehindIs
  <2>5. SeenOK(seen) /\ \A x \in seen : x[2] # 0
    BY <1>1, <1>3 DEF Forward
  <2>6. Count(fh) > 1 => /\ Ahead(fh, fh.offsets[Count(fh) - 1], fh.offsets[Count(fh)], off,
                                  seen, got, stable)
                         /\ fh.offsets[Count(fh) - 1].start \in Nat
    BY <1>3, ForwardAhead
  <2>7. Count(fh) \in Nat /\ Count(fh) >= 1
    <3>1. fh.offsets \in Seq(Marks) /\ Count(fh) >= 1
      BY <2>1 DEF HandleOK
    <3> QED BY <3>1, ElementsAre DEF Count
  <2> HIDE DEF h, off
  <2>8. CASE Specials - pos > Room /\ Give(SpecialsAt(pos)) /\ fh' = fh
    <3>1. pos < Specials
      BY <2>1, <2>8 DEF Streams, Limits
    <3>2. SpecialsAt(pos) # {}
      BY <3>1, <2>1, ReplyIs
    <3>3. PICK last \in SpecialsAt(pos) : Takes(SpecialsAt(pos), last)
      BY <3>2, <2>8, GiveIs
    <3> DEFINE new == {l \in SpecialsAt(pos) : l[1] <= last[1]}
    <3>4. /\ pos' = last[3] /\ seen' = seen \cup new /\ got' = got \cup {l[2] : l \in new}
          /\ status' = status
      BY <3>3 DEF Takes
    <3>5. \A l \in new : l[2] \in Int /\ l[2] < 0 /\ Special(l)
      BY <2>1, SpecialsAre
    <3> HIDE DEF new
    <3>6. SeenOK(seen') /\ \A x \in seen' : x[2] = 0 => x \in seen
      <4>1. \A l \in new : l[2] \in Int /\ l[2] # 0 /\ ~(l[2] > 0)
        BY <3>5
      <4> QED BY <4>1, <3>4, <3>5, <2>5, SeenGrows
    <3>7. pos' \in Nat /\ pos' <= Specials
      BY <3>3, <3>4, <2>1, SpecialsAre
    <3>8. Behind(pos') = off
      BY <3>1, <3>7, <2>1, <2>4, BehindIs
    <3>9. CASE Count(fh) = 1
      <4>1. \A x \in seen' : x[2] < 0
        BY <3>4, <3>5, <3>9, <1>3 DEF Forward
      <4> QED BY <4>1, <3>4, <3>6, <3>7, <3>9, <2>5, <2>8, <1>1 DEF Forward
    <3>10. CASE Count(fh) > 1
      <4> DEFINE p == fh.offsets[Count(fh) - 1]
                 q == fh.offsets[Count(fh)]
      <4>1. Ahead(fh, p, q, off, seen, got, stable) /\ p.start \in Nat
        BY <3>10, <2>6
      <4> HIDE DEF p, q
      <4>2. got \subseteq got' /\ \A x \in seen' : x[2] > p.start => x \in seen
        BY <4>1, <3>4, <3>5
      <4>3. Ahead(fh, p, q, off, seen', got', stable)
        BY <4>1, <4>2 DEF Ahead
      <4>4. Ahead(fh', fh'.offsets[Count(fh') - 1], fh'.offsets[Count(fh')], Behind(pos'),
                  seen', got', stable')
        BY <4>3, <3>8, <2>8, <1>1 DEF p, q
      <4>5. Count(fh') # 1
        BY <3>10, <2>8
      <4> QED BY <4>4, <4>5, <3>4, <3>6, <2>5, <1>1 DEF Forward
    <3> QED BY <3>9, <3>10, <2>7
  <2>9. CASE fh' = h /\ ReaddirFails
    <3>1. pos' = pos /\ got' = got /\ seen' = seen /\ status' = "failed"
      BY <2>9 DEF ReaddirFails
    <3>2. Count(fh') = Count(fh)
      BY <2>3, <2>9
    <3>3. CASE Count(fh) = 1
      <4>1. pos <= Specials /\ \A x \in seen : x[2] < 0
        BY <3>3, <1>3 DEF Forward
      <4> QED BY <4>1, <3>1, <3>2, <3>3, <2>5 DEF Forward
    <3>4. CASE Count(fh) > 1
      <4>1. fh' = fh
        BY <3>4, <2>3, <2>9
      <4> QED BY <4>1, <3>1, <3>4, <2>5, <1>1, <1>3 DEF Forward
    <3> QED BY <3>3, <3>4, <2>7
  <2>10. CASE fh' = h /\ AtEnd(h, off) /\ Give({})
    <3>1. Count(fh) > 1 /\ h = fh /\ fh.offsets[Count(fh)].start = 0
      <4>1. h.eof
        BY <2>10 DEF AtEnd
      <4>2. Count(h) > 1 /\ h.offsets[Count(h)].start = 0
        BY <4>1, <2>3 DEF HandleOK
      <4> QED BY <4>2, <2>3
    <3>2. off = fh.offsets[Count(fh)].off
      BY <3>1, <2>10 DEF AtEnd, Latest, Count
    <3>3. /\ status' = "ended" /\ pos' = pos /\ got' = got
          /\ seen' = seen \cup {<<pos, 0, pos>>}
      <4>1. ~\E last \in {} : Takes({}, last)
        OBVIOUS
      <4> QED BY <4>1, <2>10, GiveIs
    <3> DEFINE p == fh.offsets[Count(fh) - 1]
               q == fh.offsets[Count(fh)]
    <3>4. Ahead(fh, p, q, off, seen, got, stable) /\ p.start \in Nat /\ q.start = 0 /\ off = q.off
      BY <3>1, <3>2, <2>6
    <3> HIDE DEF p, q
    <3>5. SeenOK(seen') /\ \A x \in seen' : x \in seen \/ x[2] = 0
      BY <3>3, <2>5, EndSeen
    <3>6. Ahead(fh, p, q, off, seen', got', stable)
      <4>1. \A x \in seen' : x[2] > p.start => x \in seen
        BY <3>4, <3>5
      <4> QED BY <4>1, <3>3, <3>4 DEF Ahead
    <3>7. ASSUME NEW e \in stable PROVE e \in got
      <4>1. e \in Nat
        BY <2>2
      <4>2. CASE e <= p.start
        BY <4>2, <3>4 DEF Ahead
      <4>3. CASE e > p.start
        <5>1. e \in fh.contents
          BY <4>3, <3>4 DEF Ahead
        <5>2. fh.contents \in SUBSET Entries /\ fh.first \in Nat
          BY <2>1 DEF HandleOK
        <5>3. Line(fh, e)[3] <= fh.first + Bytes[fh.contents]
          BY <5>1, <5>2, LinesFollow
        <5>4. Line(fh, e)[3] <= off
          BY <5>3, <3>4 DEF Ahead
        <5> QED BY <5>1, <5>4, <3>4 DEF Ahead
      <4> QED BY <4>1, <4>2, <4>3, <3>4
    <3>8. Ahead(fh', fh'.offsets[Count(fh') - 1], fh'.offsets[Count(fh')], Behind(pos'),
                seen', got', stable')
      BY <3>1, <3>3, <3>6, <2>10, <1>1 DEF p, q, off
    <3>9. Count(fh') # 1
      BY <3>1, <2>10
    <3> QED BY <3>3, <3>5, <3>7, <3>8, <3>9, <1>1 DEF Forward
  <2>11. CASE Loaded(h, off) /\ Parsed(h, off)
    <3>1. h.first <= off /\ off < h.first + Bytes[h.contents]
      BY <2>11 DEF Loaded
    <3>2. Count(fh) > 1 /\ h = fh
      <4>1. CASE Count(fh) = 1
        <5>1. Bytes[h.contents] = 0 /\ h.first \in Nat
          <6>1. h.contents = {} /\ h.first \in Nat
            BY <4>1, <2>3 DEF HandleOK
          <6>2. Bytes[{}] = 0
            BY ByteSum DEF Streams
          <6> QED BY <6>1, <6>2
        <5> QED BY <5>1, <3>1, <2>4
      <4> QED BY <4>1, <2>3, <2>7
    <3> QED BY <3>1, <3>2, <2>1, <2>2, <2>3, <2>5, <2>6, <2>11, <1>1, ParsedForward DEF off
  <2>12. CASE /\ off <= Latest(h).off /\ ~AtEnd(h, off) /\ ~Loaded(h, off)
              /\ \E d \in Listings : Parsed(Fetch(h, off, d), off)
    <3>1. PICK d \in Listings : Parsed(Fetch(h, off, d), off)
      BY <2>12
    <3> DEFINE g == Fetch(h, off, d)
               p == g.offsets[Count(g) - 1]
               q == g.offsets[Count(g)]
    <3>2. /\ HandleOK(g) /\ Count(g) > 1 /\ p.start \in Nat /\ g.first = off
          /\ Ahead(g, p, q, off, seen, got, stable)
      BY <2>12, <1>1, <1>3, NextChunk DEF h, off
    <3>3. Parsed(g, off)
      BY <3>1
    <3> HIDE DEF g
    <3> QED BY <3>2, <3>3, <2>1, <2>2, <2>5, <1>1, ParsedForward DEF off
  <2> QED BY <2>8, <2>9, <2>10, <2>11, <2>12, <1>1 DEF ReaddirStep
<1> QED BY <1>2, <1>3

\* With a new handle, and nothing given, the reader is where it should be.
LEMMA ForwardAnew ==
  ASSUME Streams, fh' = NewHandle, pos' = 0, seen' = {}, status' # "ended"
  PROVE  Forward'
<1>1. Count(fh') = 1 /\ ~(Count(fh') > 1)
  BY NewIs
<1>2. 0 <= Specials
  BY DEF Streams, Limits
<1> QED BY <1>1, <1>2 DEF Forward, SeenOK

\* Every step keeps a reader that only reads on where it should be.
LEMMA ForwardStep ==
  ASSUME Streams, Shape, Forward, [ReaddirNext]_readdirVars
  PROVE  Forward'
<1>1. ASSUME NEW d \in SUBSET Entries, Modify(d) PROVE Forward'
  <2>1. stable' \subseteq stable /\ UNCHANGED <<fh, pos, status, got, seen, sought>>
    BY <1>1 DEF Modify
  <2>2. \A h, p, q, off : Ahead(h, p, q, off, seen, got, stable)
                          => Ahead(h, p, q, off, seen, got, stable')
    BY <2>1 DEF Ahead
  <2> QED BY <2>1, <2>2 DEF Forward
<1>2. ASSUME NEW d \in answers, Settle(d) PROVE Forward'
  BY <1>2 DEF Forward, Settle
<1>3. CASE Opendir
  BY <1>3, ForwardAnew DEF Opendir
<1>4. CASE Readdir
  BY <1>4, ReaddirForward
<1>5. CASE Releasedir
  BY <1>5, ForwardAnew DEF Releasedir
<1>6. ASSUME NEW off \in Told \cup {0}, Seek(off) PROVE Forward'
  <2>1. sought' # "no"
    BY <1>6 DEF Seek
  <2> QED BY <2>1 DEF Forward
<1>7. CASE UNCHANGED readdirVars
  BY <1>7 DEF Forward, readdirVars
<1> QED BY <1>1, <1>2, <1>3, <1>4, <1>5, <1>6, <1>7 DEF ReaddirNext

\* A reader that only reads on is given every entry that is there all the time exactly once,
\* and no other twice, although each chunk may come from another version of the directory:
\* for any directory, any sizes, and any number of modifications.
THEOREM ListedOnce == ReaddirSpec => []StableOnce
<1>1. ReaddirInit => Shape /\ Forward
  <2> SUFFICES ASSUME ReaddirInit PROVE Shape /\ Forward
    OBVIOUS
  <2>1. Count(fh) = 1 /\ ~(Count(fh) > 1)
    BY NewIs DEF ReaddirInit
  <2>2. 0 <= Specials
    BY Allowed DEF Streams, Limits
  <2>3. Forward
    BY <2>1, <2>2 DEF ReaddirInit, Forward, SeenOK
  <2> QED BY <2>3, Allowed, ShapeInit
<1>2. Shape /\ Forward /\ [ReaddirNext]_readdirVars => Shape' /\ Forward'
  BY Allowed, ShapeStep, ForwardStep
<1>3. Forward => StableOnce
  BY DEF Forward, SeenOK, StableOnce
<1> QED BY <1>1, <1>2, <1>3, PTL DEF ReaddirSpec

-----------------------------------------------------------------------------
(* A directory that does not change.                                        *)

\* Where directory d has entry e in the text that the kernel reads.
Place(d, e) == <<Specials + Bytes[Before(d, e)], e, Specials + Bytes[UpTo(d, e)]>>

\* What the reader may be given where: a special entry, an entry of d, or the end.
AsSpecial(x) == x[2] \in Int /\ x[2] < 0 /\ Special(x) /\ x[3] <= Specials
AsLine(d, x) == x[2] \in d /\ x = Place(d, x[2])
AsEnd(d, x) == x = <<Specials + Bytes[d], 0, Specials + Bytes[d]>>
Layout(d, x) == AsSpecial(x) \/ AsLine(d, x) \/ AsEnd(d, x)

\* Mark m is in its place in d, and there is more behind it.
InPlace(d, m) == m.off = Specials + Bytes[UpTo(d, m.start)] /\ \E x \in d : x > m.start

\* Every chunk that the handle knows of is one of d, in its place.
Marked(h, d) ==
  LET n == Count(h)
  IN  /\ \A i \in 1 .. n - 1 :
           h.offsets[i + 1].off = h.offsets[i].off
                                  + Bytes[Chunk(d, h.offsets[i].start).content]
      /\ \A i \in 2 .. n : h.offsets[i].start = 0 => i = n /\ h.offsets[i].off = Specials + Bytes[d]
      /\ \A i \in 1 .. n : i = 1 \/ h.offsets[i].start # 0 => InPlace(d, h.offsets[i])
      /\ \/ h.contents = {}
         \/ \E i \in 1 .. n - 1 : /\ h.first = h.offsets[i].off
                                  /\ h.contents = Chunk(d, h.offsets[i].start).content

Still ==
  ~changed /\ status # "closed" =>
    /\ answers = {dir}
    /\ Count(fh) > 1 => Marked(fh, dir)
    /\ \A x \in seen : Layout(dir, x)

\* A text in two parts.
LEMMA TwoParts ==
  ASSUME Streams, NEW a \in SUBSET Entries, NEW b \in SUBSET Entries, NEW c, a \cap b = {},
         a \cup b = c
  PROVE  /\ Bytes[a] \in Nat /\ Bytes[b] \in Nat /\ Bytes[c] \in Nat
         /\ Bytes[c] = Bytes[a] + Bytes[b]
<1>1. Text
  BY DEF Streams
<1>2. Bytes[a \cup b] = Bytes[a] + Bytes[b]
  BY <1>1, ByteSum
<1>3. c \in SUBSET Entries
  OBVIOUS
<1> QED BY <1>1, <1>2, <1>3, ByteSum

\* The lines of a chunk that is in its place are in theirs.
LEMMA LinesPlaced ==
  ASSUME Streams, NEW d \in SUBSET Entries, NEW m \in Marks, InPlace(d, m), NEW h,
         h.first = m.off, h.contents = Chunk(d, m.start).content, NEW e \in h.contents
  PROVE  e \in d /\ Line(h, e) = Place(d, e)
<1> DEFINE s == h.contents
           st == m.start
<1>1. Directories /\ Text /\ Entries \subseteq Nat \ {0} /\ Specials \in Nat
  BY DEF Streams, Directories, Limits
<1>2. st \in Entries \cup {0} /\ st \in Nat
  <2>1. st \in Entries \cup {0}
    BY DEF Marks
  <2>2. Entries \cup {0} \subseteq Nat
    BY <1>1
  <2> QED BY <2>1, <2>2
<1>3. /\ s \subseteq After(d, st) /\ s \in SUBSET Entries
      /\ \A f \in s : \A x \in d : st < x /\ x <= f => x \in s
  <2>1. ASSUME NEW start \in Entries \cup {0}, start = st
        PROVE  /\ s \subseteq After(d, start) /\ s \in SUBSET Entries
               /\ \A f \in s : \A x \in d : start < x /\ x <= f => x \in s
    <3> DEFINE c == Chunk(d, start)
    <3>1. s = c.content
      BY <2>1
    <3> HIDE DEF s, st
    <3>2. /\ c.content \subseteq After(d, start) /\ c.content \in SUBSET Entries
          /\ \A f \in c.content : \A x \in d : start < x /\ x <= f => x \in c.content
      BY <1>1, ChunkIs
    <3> QED BY <3>1, <3>2
  <2> QED BY <2>1, <1>2
<1>4. h.first = Specials + Bytes[UpTo(d, st)]
  BY DEF InPlace
<1> HIDE DEF s, st
<1>5. \A x \in s : x \in d /\ x > st
  BY <1>3 DEF After
<1>6. e \in s /\ e \in d /\ e \in Nat /\ d \subseteq Nat /\ s \subseteq Nat
  <2>1. e \in s
    BY DEF s
  <2> QED BY <2>1, <1>1, <1>5
<1>7. UpTo(d, st) \in SUBSET Entries /\ Before(s, e) \in SUBSET Entries
      /\ UpTo(s, e) \in SUBSET Entries
  BY <1>3 DEF UpTo, Before
<1>8. \A x \in d : x \in Nat /\ (x <= e => x <= st \/ x \in s)
  BY <1>2, <1>3, <1>6
<1>9. ASSUME NEW x \in d, x <= st PROVE x < e /\ x <= e /\ x \notin s
  <2>1. x \in Nat /\ e > st
    BY <1>5, <1>6
  <2>2. ~(x > st)
    BY <2>1, <1>2, <1>9
  <2> QED BY <2>1, <2>2, <1>2, <1>5, <1>6, <1>9
<1>10. UpTo(d, st) \cap Before(s, e) = {} /\ UpTo(d, st) \cup Before(s, e) = Before(d, e)
  <2>1. \A x \in d : x < e => x <= e
    BY <1>6
  <2> QED BY <2>1, <1>5, <1>8, <1>9 DEF UpTo, Before
<1>11. UpTo(d, st) \cap UpTo(s, e) = {} /\ UpTo(d, st) \cup UpTo(s, e) = UpTo(d, e)
  BY <1>5, <1>8, <1>9 DEF UpTo
<1>12. /\ Bytes[UpTo(d, st)] \in Nat /\ Bytes[Before(s, e)] \in Nat
       /\ Bytes[Before(d, e)] = Bytes[UpTo(d, st)] + Bytes[Before(s, e)]
  BY <1>7, <1>10, TwoParts
<1>13. /\ Bytes[UpTo(s, e)] \in Nat
       /\ Bytes[UpTo(d, e)] = Bytes[UpTo(d, st)] + Bytes[UpTo(s, e)]
  BY <1>7, <1>11, TwoParts
<1>14. /\ h.first + Bytes[Before(s, e)] = Specials + Bytes[Before(d, e)]
       /\ h.first + Bytes[UpTo(s, e)] = Specials + Bytes[UpTo(d, e)]
  BY <1>1, <1>4, <1>12, <1>13
<1> QED BY <1>6, <1>14 DEF Line, Place, s

\* All lines of what is loaded are in their places.
LEMMA LoadedPlaced ==
  ASSUME Streams, NEW d \in SUBSET Entries, NEW h, HandleOK(h), Marked(h, d),
         NEW e \in h.contents
  PROVE  e \in d /\ Line(h, e) = Place(d, e)
<1> DEFINE n == Count(h)
<1>1. n \in Nat
  <2>1. h.offsets \in Seq(Marks)
    BY DEF HandleOK
  <2> QED BY <2>1, ElementsAre DEF Count
<1>2. PICK i \in 1 .. n - 1 : /\ h.first = h.offsets[i].off
                              /\ h.contents = Chunk(d, h.offsets[i].start).content
  BY DEF Marked
<1>3. i \in 1 .. n /\ i # n /\ (i = 1 \/ i \in 2 .. n)
  BY <1>1
<1>4. i = 1 \/ h.offsets[i].start # 0
  BY <1>3 DEF Marked
<1>5. InPlace(d, h.offsets[i])
  BY <1>3, <1>4 DEF Marked
<1>6. h.offsets[i] \in Marks
  BY <1>3, OffsetsAre
<1> QED BY <1>2, <1>5, <1>6, LinesPlaced

\* Behind a chunk that is in its place, the next one is in its own; or d ends.
LEMMA NextPlaced ==
  ASSUME Streams, NEW d \in SUBSET Entries, NEW m \in Marks, InPlace(d, m),
         NEW c, c = Chunk(d, m.start), NEW next, next.start = c.next,
         next.off = m.off + Bytes[c.content]
  PROVE  /\ next.start = 0 => next.off = Specials + Bytes[d]
         /\ next.start # 0 => InPlace(d, next)
         /\ Bytes[c.content] \in Nat /\ Bytes[c.content] > 0
<1> DEFINE st == m.start
           s == c.content
<1>1. Directories /\ Text /\ Entries \subseteq Nat \ {0} /\ Specials \in Nat
  BY DEF Streams, Directories, Limits
<1>2. st \in Entries \cup {0} /\ st \in Nat
  <2>1. st \in Entries \cup {0}
    BY DEF Marks
  <2>2. Entries \cup {0} \subseteq Nat
    BY <1>1
  <2> QED BY <2>1, <2>2
<1>3. /\ s \subseteq After(d, st) /\ s \in SUBSET Entries
      /\ \A e \in s : \A x \in d : st < x /\ x <= e => x \in s
      /\ After(d, st) # {} => s # {}
      /\ c.next = 0 => s = After(d, st)
      /\ c.next # 0 => c.next \in s /\ (\A e \in s : e <= c.next) /\ \E x \in d : x > c.next
  <2>1. ASSUME NEW start \in Entries \cup {0}, start = st
        PROVE  /\ s \subseteq After(d, start) /\ s \in SUBSET Entries
               /\ \A e \in s : \A x \in d : start < x /\ x <= e => x \in s
               /\ After(d, start) # {} => s # {}
               /\ c.next = 0 => s = After(d, start)
               /\ c.next # 0 => /\ c.next \in s /\ (\A e \in s : e <= c.next)
                                /\ \E x \in d : x > c.next
    <3>1. c = Chunk(d, start)
      BY <2>1
    <3> QED BY <3>1, <1>1, ChunkIs
  <2> QED BY <2>1, <1>2
<1>4. m.off = Specials + Bytes[UpTo(d, st)] /\ \E x \in d : x > st
  BY DEF InPlace
<1>5. UpTo(d, st) \in SUBSET Entries
  BY DEF UpTo
<1> HIDE DEF s, st
<1>6. d \subseteq Nat /\ s \subseteq Nat /\ \A x \in s : x \in d /\ x > st
  BY <1>1, <1>3 DEF After
<1>7. UpTo(d, st) \cap s = {}
  <2>1. \A x \in s : ~(x <= st)
    BY <1>2, <1>6
  <2> QED BY <2>1 DEF UpTo
<1>8. Bytes[s] \in Nat /\ Bytes[s] > 0
  <2>1. PICK e \in s : TRUE
    BY <1>3, <1>4 DEF After
  <2>2. /\ Bytes[Before(s, e)] \in Nat /\ Bytes[UpTo(s, e)] \in Nat /\ Bytes[s] \in Nat
        /\ Bytes[Before(s, e)] < Bytes[UpTo(s, e)]
        /\ Bytes[UpTo(s, e)] <= Bytes[s]
    BY <1>1, <1>3, LineBytes
  <2> QED BY <2>2
<1>9. CASE c.next = 0
  <2>1. \A x \in d : x <= st \/ x > st
    BY <1>2, <1>6
  <2>2. UpTo(d, st) \cup s = d
    BY <2>1, <1>3, <1>9 DEF UpTo, After
  <2>3. /\ Bytes[UpTo(d, st)] \in Nat /\ Bytes[s] \in Nat
        /\ Bytes[d] = Bytes[UpTo(d, st)] + Bytes[s]
    BY <2>2, <1>3, <1>5, <1>7, TwoParts
  <2>4. next.off = Specials + Bytes[d]
    BY <2>3, <1>1, <1>4 DEF s
  <2> QED BY <2>4, <1>8, <1>9 DEF s
<1>10. CASE c.next # 0
  <2>1. c.next \in s /\ c.next \in Nat
    BY <1>3, <1>6, <1>10
  <2>2. ASSUME NEW x \in d PROVE x <= c.next <=> x <= st \/ x \in s
    <3>1. x \in Nat /\ c.next > st
      BY <2>1, <1>6
    <3>2. x \in s => x <= c.next
      BY <1>3, <1>10
    <3>3. st < x /\ x <= c.next => x \in s
      BY <2>1, <1>3
    <3> QED BY <3>1, <3>2, <3>3, <2>1, <1>2
  <2>3. UpTo(d, st) \cup s = UpTo(d, c.next)
    BY <2>2, <1>6 DEF UpTo
  <2>4. /\ Bytes[UpTo(d, st)] \in Nat /\ Bytes[s] \in Nat
        /\ Bytes[UpTo(d, c.next)] = Bytes[UpTo(d, st)] + Bytes[s]
    BY <2>3, <1>3, <1>5, <1>7, TwoParts
  <2>5. next.off = Specials + Bytes[UpTo(d, c.next)]
    BY <2>4, <1>1, <1>4 DEF s
  <2> QED BY <2>5, <1>3, <1>8, <1>10 DEF InPlace, s
<1> QED BY <1>9, <1>10

\* The handle of the root is in its place also when it is new.
LEMMA RootedMarked ==
  ASSUME Streams, Shape, Count(fh) > 1 => Marked(fh, dir), NEW h, h = Rooted
  PROVE  Marked(h, dir)
<1>1. HandleOK(fh) /\ Limits /\ Specials \in Nat /\ dir \in SUBSET Entries /\ Dots \subseteq dir
  BY DEF Shape, Streams, Limits
<1>2. /\ HandleOK(h) /\ h.offsets[1].off = Specials /\ Count(h) = Count(fh)
      /\ Count(fh) > 1 => h = fh
      /\ Count(fh) = 1 => h.contents = {}
  BY <1>1, RootedIs
<1>3. Count(h) \in Nat /\ Count(h) >= 1
  <2>1. h.offsets \in Seq(Marks) /\ Count(h) >= 1
    BY <1>2 DEF HandleOK
  <2> QED BY <2>1, ElementsAre DEF Count
<1>4. CASE Count(h) > 1
  BY <1>2, <1>4
<1>5. CASE Count(h) = 1
  <2>1. h.offsets[1].start = 0 /\ h.contents = {}
    BY <1>2, <1>5 DEF HandleOK
  <2>2. Entries \subseteq Nat \ {0} /\ Dots # {}
    BY DEF Streams, Directories
  <2>3. UpTo(dir, 0) = {}
    <3>1. \A x \in dir : ~(x <= 0)
      BY <2>2, <1>1
    <3> QED BY <3>1 DEF UpTo
  <2>4. Bytes[UpTo(dir, 0)] = 0
    BY <2>3, ByteSum DEF Streams
  <2>5. \E x \in dir : x > 0
    <3>1. PICK x \in Dots : TRUE
      BY <2>2
    <3>2. x \in dir /\ x \in Nat \ {0}
      BY <2>2, <1>1
    <3>3. x > 0
      BY <3>2
    <3> QED BY <3>2, <3>3
  <2>6. InPlace(dir, h.offsets[1])
    BY <2>1, <2>4, <2>5, <1>1, <1>2 DEF InPlace
  <2>7. 1 .. Count(h) - 1 = {} /\ 2 .. Count(h) = {} /\ \A i \in 1 .. Count(h) : i = 1
    BY <1>5
  <2> QED BY <2>1, <2>6, <2>7 DEF Marked
<1> QED BY <1>3, <1>4, <1>5

\* Loading a chunk of a directory that does not change finds it in its place, and never empty.
LEMMA FetchMarked ==
  ASSUME Streams, NEW d \in SUBSET Entries, NEW h, HandleOK(h), h.offsets[1].off = Specials,
         Marked(h, d), NEW off \in Nat, Specials <= off, NEW n, n = Count(h),
         off <= h.offsets[n].off, ~(off = h.offsets[n].off /\ h.eof),
         NEW g, g = Fetch(h, off, d)
  PROVE  HandleOK(g) /\ Marked(g, d) /\ off < g.first + Bytes[g.contents]
<1> DEFINE i == ChunkAt(h, off)
           c == Chunk(d, h.offsets[i].start)
<1>1. /\ HandleOK(g) /\ g.contents = c.content /\ g.first = h.offsets[i].off
      /\ i = n => /\ Count(g) = n + 1
                  /\ \A j \in 1 .. n : g.offsets[j] = h.offsets[j]
                  /\ g.offsets[Count(g)] =
                       [off |-> h.offsets[i].off + Bytes[c.content], start |-> c.next]
      /\ i # n => g.offsets = h.offsets /\ Count(g) = n
  BY Fetched
<1>2. /\ i \in 1 .. n /\ h.offsets[i].off <= off
      /\ \A j \in 1 .. n : h.offsets[j].off <= off => j <= i
  <2>1. h.offsets[1].off <= off
    OBVIOUS
  <2> QED BY <2>1, ChunkAtIs
<1>3. n \in Nat /\ n >= 1
  <2>1. h.offsets \in Seq(Marks) /\ n >= 1
    BY DEF HandleOK
  <2> QED BY <2>1, ElementsAre DEF Count
<1>4. \A j \in 1 .. n : h.offsets[j] \in Marks /\ h.offsets[j].off \in Nat
  BY OffsetsAre
<1>5. /\ \A j \in 1 .. n - 1 :
           h.offsets[j + 1].off = h.offsets[j].off + Bytes[Chunk(d, h.offsets[j].start).content]
      /\ \A j \in 2 .. n : h.offsets[j].start = 0 => j = n /\ h.offsets[j].off = Specials + Bytes[d]
      /\ \A j \in 1 .. n : j = 1 \/ h.offsets[j].start # 0 => InPlace(d, h.offsets[j])
  BY DEF Marked
<1> HIDE DEF i
<1>6. CASE i = n
  <2>1. off = h.offsets[n].off /\ n \in 1 .. n
    BY <1>2, <1>3, <1>4, <1>6
  <2>2. n = 1 \/ h.offsets[n].start # 0
    <3>1. h.eof <=> n > 1 /\ h.offsets[n].start = 0
      BY DEF HandleOK
    <3> QED BY <3>1, <2>1, <1>3
  <2>3. InPlace(d, h.offsets[n])
    BY <2>1, <2>2, <1>5
  <2> DEFINE next == g.offsets[Count(g)]
  <2>4. /\ c = Chunk(d, h.offsets[n].start)
        /\ next.start = c.next /\ next.off = h.offsets[n].off + Bytes[c.content]
    BY <1>1, <1>6
  <2>5. h.offsets[n] \in Marks
    BY <2>1, <1>4
  <2> HIDE DEF c
  <2>6. Count(g) = n + 1 /\ next = g.offsets[n + 1]
        /\ (\A j \in 1 .. n : g.offsets[j] = h.offsets[j])
    BY <1>1, <1>6
  <2> HIDE DEF next
  <2>7. /\ next.start = 0 => next.off = Specials + Bytes[d]
        /\ next.start # 0 => InPlace(d, next)
        /\ Bytes[c.content] \in Nat /\ Bytes[c.content] > 0
    BY <2>3, <2>4, <2>5, NextPlaced
  <2>8. off < g.first + Bytes[g.contents]
    BY <2>1, <2>7, <1>1, <1>6
  <2>9. ASSUME NEW j \in 1 .. n
        PROVE  g.offsets[j + 1].off = g.offsets[j].off
                                      + Bytes[Chunk(d, g.offsets[j].start).content]
    <3>1. g.offsets[j] = h.offsets[j]
      BY <2>6
    <3>2. CASE j = n
      BY <3>1, <3>2, <2>4, <2>6
    <3>3. CASE j # n
      <4>1. j \in 1 .. n - 1 /\ j + 1 \in 1 .. n
        BY <3>3, <1>3
      <4>2. g.offsets[j + 1] = h.offsets[j + 1]
        BY <4>1, <2>6
      <4> QED BY <4>1, <4>2, <3>1, <1>5
    <3> QED BY <3>2, <3>3
  <2>10. ASSUME NEW j \in 2 .. n + 1, g.offsets[j].start = 0
         PROVE  j = n + 1 /\ g.offsets[j].off = Specials + Bytes[d]
    <3>1. CASE j = n + 1
      BY <3>1, <2>6, <2>7, <2>10
    <3>2. CASE j # n + 1
      <4>1. j \in 2 .. n /\ j \in 1 .. n /\ n # 1
        BY <3>2, <1>3
      <4>2. h.offsets[j].start = 0
        BY <4>1, <2>6, <2>10
      <4> QED BY <4>1, <4>2, <2>2, <1>5
    <3> QED BY <3>1, <3>2
  <2>11. ASSUME NEW j \in 1 .. n + 1, j = 1 \/ g.offsets[j].start # 0
         PROVE  InPlace(d, g.offsets[j])
    <3>1. CASE j = n + 1
      BY <3>1, <2>6, <2>7, <2>11, <1>3
    <3>2. CASE j # n + 1
      <4>1. j \in 1 .. n
        BY <3>2, <1>3
      <4>2. g.offsets[j] = h.offsets[j]
        BY <4>1, <2>6
      <4> QED BY <4>1, <4>2, <2>11, <1>5
    <3> QED BY <3>1, <3>2
  <2>12. /\ g.first = g.offsets[n].off
         /\ g.contents = Chunk(d, g.offsets[n].start).content
    BY <2>1, <2>4, <2>6, <1>1, <1>6
  <2>13. Count(g) - 1 = n
    BY <2>6, <1>3
  <2>14. Marked(g, d)
    BY <2>1, <2>6, <2>9, <2>10, <2>11, <2>12, <2>13 DEF Marked
  <2> QED BY <2>8, <2>14, <1>1
<1>7. CASE i # n
  <2>1. i \in 1 .. n - 1 /\ i + 1 \in 1 .. n /\ ~(i + 1 <= i)
    BY <1>2, <1>3, <1>7
  <2>2. ~(h.offsets[i + 1].off <= off)
    BY <2>1, <1>2
  <2>3. off < h.offsets[i + 1].off
    BY <2>1, <2>2, <1>4
  <2>4. h.offsets[i + 1].off = h.offsets[i].off + Bytes[c.content]
    BY <2>1, <1>5
  <2>5. off < g.first + Bytes[g.contents]
    BY <2>3, <2>4, <1>1
  <2>6. Marked(g, d)
    <3>1. g.offsets = h.offsets /\ Count(g) = n
      BY <1>1, <1>7
    <3>2. \E j \in 1 .. n - 1 : /\ g.first = h.offsets[j].off
                                /\ g.contents = Chunk(d, h.offsets[j].start).content
      BY <2>1, <1>1
    <3> QED BY <3>1, <3>2, <1>5 DEF Marked
  <2> QED BY <2>5, <2>6, <1>1
<1> QED BY <1>6, <1>7

\* What is taken from what is loaded is in its place; and it is never nothing.
LEMMA ParsedStill ==
  ASSUME Streams, Shape, \A x \in seen : Layout(dir, x), NEW g, HandleOK(g), Marked(g, dir),
         NEW off, off = Behind(pos), off < g.first + Bytes[g.contents], Parsed(g, off)
  PROVE  fh' = g /\ \A x \in seen' : Layout(dir, x)
<1>1. fh' = g
  BY DEF Parsed
<1>2. pos \in Nat /\ off \in Nat /\ dir \in SUBSET Entries
  BY BehindIs DEF Shape, Streams
<1>3. CASE ReaddirFails
  BY <1>1, <1>3 DEF ReaddirFails
<1>4. CASE /\ Give(Reply(g, off))
           /\ off < g.first + Bytes[g.contents] => \E l \in Lines(g) : l[1] = off
  <2>1. PICK l \in Lines(g) : l[1] = off
    BY <1>4
  <2>2. l \in Reply(g, off)
    BY <2>1, <1>2 DEF Reply
  <2>3. PICK last \in Reply(g, off) : Takes(Reply(g, off), last)
    BY <2>2, <1>4, GiveIs
  <2> DEFINE new == {k \in Reply(g, off) : k[1] <= last[1]}
  <2>4. seen' = seen \cup new
    BY <2>3 DEF Takes
  <2>5. \A k \in new : \/ k \in SpecialsAt(pos)
                       \/ k[2] \in g.contents /\ k = Line(g, k[2]) /\ k[1] >= off
    BY <1>2, TakenIs
  <2> HIDE DEF new
  <2>6. ASSUME NEW k \in new PROVE Layout(dir, k)
    <3>1. CASE k \in SpecialsAt(pos)
      BY <3>1, <1>2, SpecialsAre DEF Layout, AsSpecial
    <3>2. CASE k[2] \in g.contents /\ k = Line(g, k[2])
      <4>1. k[2] \in dir /\ Line(g, k[2]) = Place(dir, k[2])
        BY <3>2, <1>2, LoadedPlaced
      <4> QED BY <4>1, <3>2 DEF Layout, AsLine
    <3> QED BY <3>1, <3>2, <2>5
  <2> QED BY <2>4, <2>6, <1>1
<1> QED BY <1>3, <1>4 DEF Parsed

\* fs123_readdir, in a directory that does not change.
LEMMA ReaddirStill ==
  ASSUME Streams, Shape, Still, Readdir
  PROVE  Still'
<1> DEFINE h == Rooted
           off == Behind(pos)
<1>1. /\ ReaddirStep(h, off) /\ status = "open"
      /\ dir' = dir /\ answers' = answers /\ changed' = changed
  BY ReaddirSteps
<1>2. CASE changed
  BY <1>1, <1>2 DEF Still
<1>3. CASE ~changed
  <2>1. /\ answers = {dir} /\ (Count(fh) > 1 => Marked(fh, dir))
        /\ \A x \in seen : Layout(dir, x)
    BY <1>1, <1>3 DEF Still
  <2>2. HandleOK(fh) /\ pos \in Nat /\ Limits /\ Specials \in Nat /\ dir \in SUBSET Entries
    BY DEF Shape, Streams, Limits
  <2>3. HandleOK(h) /\ h.offsets[1].off = Specials
    BY <2>2, RootedIs
  <2>4. Marked(h, dir)
    BY <2>1, RootedMarked
  <2>5. /\ off \in Nat /\ off >= Specials /\ Specials <= off
        /\ (pos <= Specials => off = Specials) /\ (pos >= Specials => off = pos)
    BY <2>2, BehindIs
  <2> HIDE DEF h, off
  <2>6. ASSUME Count(fh') > 1 => Marked(fh', dir), \A x \in seen' : Layout(dir, x)
        PROVE  Still'
    BY <2>1, <2>6, <1>1 DEF Still
  <2>7. CASE Specials - pos > Room /\ Give(SpecialsAt(pos)) /\ fh' = fh
    <3>1. pos < Specials
      BY <2>2, <2>7 DEF Streams, Limits
    <3>2. SpecialsAt(pos) # {}
      BY <3>1, <2>2, ReplyIs
    <3>3. PICK last \in SpecialsAt(pos) : Takes(SpecialsAt(pos), last)
      BY <3>2, <2>7, GiveIs
    <3>4. \A x \in seen' : x \in seen \/ x \in SpecialsAt(pos)
      BY <3>3 DEF Takes
    <3>5. \A x \in SpecialsAt(pos) : Layout(dir, x)
      BY <2>2, SpecialsAre DEF Layout, AsSpecial
    <3> QED BY <3>4, <3>5, <2>1, <2>6, <2>7
  <2>8. CASE fh' = h /\ ReaddirFails
    <3>1. seen' = seen
      BY <2>8 DEF ReaddirFails
    <3> QED BY <3>1, <2>1, <2>4, <2>6, <2>8
  <2>9. CASE fh' = h /\ AtEnd(h, off) /\ Give({})
    <3> DEFINE n == Count(h)
    <3>1. h.eof /\ off = h.offsets[n].off
      BY <2>9 DEF AtEnd, Latest, Count
    <3>2. n > 1 /\ h.offsets[n].start = 0
      BY <3>1, <2>3 DEF HandleOK
    <3>3. n \in Nat
      <4>1. h.offsets \in Seq(Marks)
        BY <2>3 DEF HandleOK
      <4> QED BY <4>1, ElementsAre DEF Count
    <3>4. n \in 2 .. n
      BY <3>2, <3>3
    <3>5. off = Specials + Bytes[dir]
      BY <3>1, <3>2, <3>4, <2>4 DEF Marked
    <3>6. pos = off
      <4>1. PICK e \in dir : TRUE
        BY DEF Shape, Streams, Directories
      <4>2. /\ Bytes[Before(dir, e)] \in Nat /\ Bytes[UpTo(dir, e)] \in Nat /\ Bytes[dir] \in Nat
            /\ Bytes[Before(dir, e)] < Bytes[UpTo(dir, e)]
            /\ Bytes[UpTo(dir, e)] <= Bytes[dir]
        BY <4>1, <2>2, LineBytes DEF Streams
      <4>3. Bytes[dir] > 0
        BY <4>2
      <4>4. off > Specials
        BY <4>2, <4>3, <3>5, <2>2
      <4> QED BY <4>4, <2>2, <2>5
    <3>7. seen' = seen \cup {<<pos, 0, pos>>}
      <4>1. ~\E last \in {} : Takes({}, last)
        OBVIOUS
      <4> QED BY <4>1, <2>9, GiveIs
    <3>8. Layout(dir, <<pos, 0, pos>>)
      BY <3>5, <3>6 DEF Layout, AsEnd
    <3> QED BY <3>7, <3>8, <2>1, <2>4, <2>6, <2>9
  <2>10. CASE Loaded(h, off) /\ Parsed(h, off)
    <3>1. off < h.first + Bytes[h.contents]
      BY <2>10 DEF Loaded
    <3>2. fh' = h /\ \A x \in seen' : Layout(dir, x)
      BY <3>1, <2>1, <2>3, <2>4, <2>10, ParsedStill DEF off
    <3> QED BY <3>2, <2>4, <2>6
  <2>11. CASE /\ off <= Latest(h).off /\ ~AtEnd(h, off)
              /\ \E d \in Listings : Parsed(Fetch(h, off, d), off)
    <3>1. PICK d \in Listings : Parsed(Fetch(h, off, d), off)
      BY <2>11
    <3>2. d = dir
      BY <2>1, ListingIs DEF Shape
    <3> DEFINE g == Fetch(h, off, dir)
    <3>3. Parsed(g, off)
      BY <3>1, <3>2
    <3>4. off <= h.offsets[Count(h)].off /\ ~(off = h.offsets[Count(h)].off /\ h.eof)
      BY <2>11 DEF Latest, AtEnd, Count
    <3>5. HandleOK(g) /\ Marked(g, dir) /\ off < g.first + Bytes[g.contents]
      BY <3>4, <2>2, <2>3, <2>4, <2>5, FetchMarked
    <3> HIDE DEF g
    <3>6. fh' = g /\ \A x \in seen' : Layout(dir, x)
      BY <3>3, <3>5, <2>1, ParsedStill DEF off
    <3> QED BY <3>5, <3>6, <2>6
  <2> QED BY <2>7, <2>8, <2>9, <2>10, <2>11, <1>1 DEF ReaddirStep
<1> QED BY <1>2, <1>3

\* Every step keeps what is said of a directory that does not change.
LEMMA StillStep ==
  ASSUME Streams, Shape, Still, [ReaddirNext]_readdirVars
  PROVE  Still'
<1>1. ASSUME NEW d \in SUBSET Entries, Modify(d) PROVE Still'
  BY <1>1 DEF Modify, Still
<1>2. ASSUME NEW d \in answers, Settle(d) PROVE Still'
  <2>1. answers # {dir} /\ changed' = changed /\ status' = status
    BY <1>2 DEF Settle
  <2> QED BY <2>1 DEF Still
<1>3. CASE Opendir
  <2>1. /\ changed' = (answers # {dir}) /\ answers' = answers /\ dir' = dir /\ seen' = {}
        /\ fh' = NewHandle
    BY <1>3 DEF Opendir
  <2>2. ~(Count(fh') > 1)
    BY <2>1, NewIs
  <2> QED BY <2>1, <2>2 DEF Still
<1>4. CASE Readdir
  BY <1>4, ReaddirStill
<1>5. CASE Releasedir
  BY <1>5 DEF Releasedir, Still
<1>6. ASSUME NEW off \in Told \cup {0}, Seek(off) PROVE Still'
  <2>1. status # "closed" /\ UNCHANGED <<dir, answers, fh, seen, changed>>
    BY <1>6 DEF Seek
  <2> QED BY <2>1 DEF Still
<1>7. CASE UNCHANGED readdirVars
  BY <1>7 DEF Still, readdirVars
<1> QED BY <1>1, <1>2, <1>3, <1>4, <1>5, <1>6, <1>7 DEF ReaddirNext

\* In the text of one directory, an offset belongs to one entry, and an entry to one offset.
LEMMA LayoutOnce ==
  ASSUME Streams, NEW d \in SUBSET Entries, NEW x, NEW y, Layout(d, x), Layout(d, y),
         x[1] = y[1] \/ x[2] = y[2]
  PROVE  x = y
<1>1. /\ AsSpecial(x) \/ AsLine(d, x) \/ AsEnd(d, x)
      /\ AsSpecial(y) \/ AsLine(d, y) \/ AsEnd(d, y)
  BY DEF Layout
<1>2. /\ Specials \in Nat /\ Directories /\ Text /\ d \subseteq Nat \ {0}
      /\ Bytes[d] \in Nat
  <2>1. Specials \in Nat /\ Directories /\ Text /\ d \subseteq Nat \ {0}
    BY DEF Streams, Limits, Directories
  <2> QED BY <2>1, ByteSum
<1>3. ASSUME NEW z, AsSpecial(z)
      PROVE  /\ z[1] \in Int /\ z[1] = -z[2] - 1 /\ z[1] < Specials /\ z[2] < 0 /\ z[2] \in Int
  <2>1. z[1] = -z[2] - 1 /\ z[3] = -z[2]
    BY <1>3 DEF AsSpecial, Special
  <2>2. z[2] \in Int /\ z[2] < 0 /\ z[3] <= Specials
    BY <1>3 DEF AsSpecial
  <2> QED BY <2>1, <2>2, <1>2
<1>4. ASSUME NEW z, AsLine(d, z)
      PROVE  /\ z[2] \in d /\ z[2] \in Nat /\ z[2] > 0 /\ z[1] \in Nat
             /\ z[1] = Specials + Bytes[Before(d, z[2])]
             /\ z[1] >= Specials /\ z[1] < Specials + Bytes[d]
             /\ Bytes[Before(d, z[2])] \in Nat
             /\ \A f \in d : z[2] < f => Bytes[Before(d, z[2])] < Bytes[Before(d, f)]
  <2> DEFINE e == z[2]
  <2>1. z[1] = Specials + Bytes[Before(d, e)] /\ e \in d
    BY <1>4 DEF AsLine, Place
  <2> HIDE DEF e
  <2>2. e \in Nat /\ e > 0
    BY <2>1, <1>2
  <2>3. /\ Bytes[Before(d, e)] \in Nat /\ Bytes[UpTo(d, e)] \in Nat
        /\ Bytes[Before(d, e)] < Bytes[UpTo(d, e)] /\ Bytes[UpTo(d, e)] <= Bytes[d]
        /\ \A f \in d : e < f => Bytes[UpTo(d, e)] <= Bytes[Before(d, f)]
    BY <2>1, <1>2, LineBytes
  <2>4. \A f \in d : Bytes[Before(d, f)] \in Nat
    BY <1>2, LineBytes
  <2>5. \A f \in d : e < f => Bytes[Before(d, e)] < Bytes[Before(d, f)]
    BY <2>3, <2>4
  <2>6. z[1] \in Nat /\ z[1] >= Specials /\ z[1] < Specials + Bytes[d]
    BY <2>1, <2>3, <1>2
  <2> QED BY <2>1, <2>2, <2>3, <2>5, <2>6 DEF e
<1>5. ASSUME NEW z, AsEnd(d, z) PROVE z[1] = Specials + Bytes[d] /\ z[2] = 0
  BY <1>5 DEF AsEnd
<1>6. CASE AsSpecial(x) /\ AsSpecial(y)
  <2>1. x[2] = y[2]
    BY <1>3, <1>6
  <2>2. x = <<-x[2] - 1, x[2], -x[2]>> /\ y = <<-y[2] - 1, y[2], -y[2]>>
    BY <1>6 DEF AsSpecial, Special
  <2> QED BY <2>1, <2>2, Zenon
<1>7. CASE AsLine(d, x) /\ AsLine(d, y)
  <2>1. x[2] \in Nat /\ y[2] \in Nat
    BY <1>4, <1>7
  <2>2. ~(x[2] < y[2])
    BY <1>2, <1>4, <1>7
  <2>3. ~(y[2] < x[2])
    BY <1>2, <1>4, <1>7
  <2>4. x[2] = y[2]
    BY <2>1, <2>2, <2>3
  <2> QED BY <2>4, <1>7, Zenon DEF AsLine
<1>8. CASE AsEnd(d, x) /\ AsEnd(d, y)
  BY <1>8, Zenon DEF AsEnd
<1>9. CASE (AsSpecial(x) /\ AsLine(d, y)) \/ (AsLine(d, x) /\ AsSpecial(y))
  BY <1>2, <1>3, <1>4, <1>9
<1>10. CASE (AsSpecial(x) /\ AsEnd(d, y)) \/ (AsEnd(d, x) /\ AsSpecial(y))
  BY <1>2, <1>3, <1>5, <1>10
<1>11. CASE (AsLine(d, x) /\ AsEnd(d, y)) \/ (AsEnd(d, x) /\ AsLine(d, y))
  BY <1>2, <1>4, <1>5, <1>11
<1> QED BY <1>1, <1>6, <1>7, <1>8, <1>9, <1>10, <1>11

\* In a directory that does not change, an offset that the reader was told means the same
\* place for as long as the stream is open, whichever chunks were loaded in between.
THEOREM OffsetsKeepTheirMeaning == ReaddirSpec => []OffsetsMeanOnePlace
<1>1. ReaddirInit => Shape /\ Still
  BY Allowed, ShapeInit DEF ReaddirInit, Still
<1>2. Shape /\ Still /\ [ReaddirNext]_readdirVars => Shape' /\ Still'
  BY Allowed, ShapeStep, StillStep
<1>3. Shape /\ Still => OffsetsMeanOnePlace
  <2> SUFFICES ASSUME Shape, Still, ~changed, NEW x \in seen, NEW y \in seen,
                      x[1] = y[1] \/ x[2] = y[2]
               PROVE  x = y
    BY DEF OffsetsMeanOnePlace
  <2>1. status # "closed" /\ dir \in SUBSET Entries
    BY DEF Shape
  <2>2. Layout(dir, x) /\ Layout(dir, y)
    BY <2>1 DEF Still
  <2> QED BY <2>1, <2>2, Allowed, LayoutOnce
<1> QED BY <1>1, <1>2, <1>3, PTL DEF ReaddirSpec
============================================================================
