--------------------------- MODULE Refresh_proofs ---------------------------
(* Proofs about Refresh: how late an answer of diskcache::refresh can be, for
   any lifetimes, timeouts and numbers of threads; and about Fallback: how long the
   threads wait for upstream, and that they find a healthy server. *)
EXTENDS Refresh, Fallback, TLAPS

(* The constants are natural numbers, and callers are not tasks. *)
LEMMA Constants ==
    /\ MaxAge \in Nat /\ Swr \in Nat /\ PastSwr \in Nat /\ StaleIfError \in Nat
    /\ MaxDelay \in Nat /\ Start \in Nat /\ MaxNow \in Nat /\ MaxVersion \in Nat
    /\ Callers \cap Tasks = {} /\ Callers \subseteq Threads /\ Tasks \subseteq Threads
  BY TimesAssumption, ThreadsAssumption DEF Threads

(* The records that the actions build are threads and replies. *)
LEMMA IdleType == Idle \in Thread /\ Invalid \in Reply123
  BY Constants DEF Idle, Thread, PCs, Reply123, Versions, Invalid

(* An answer that is received is a reply. *)
LEMMA ReceivedType ==
    ASSUME TypeOK, NEW x \in Threads
    PROVE  Received(x) \in Reply123
  <1>1. th[x] \in Thread /\ now \in Int /\ MaxAge \in Int
    BY Constants DEF TypeOK
  <1>2. Expires(x) \in Int
    BY <1>1 DEF Expires, Thread
  <1> QED
    BY <1>1, <1>2 DEF Received, Thread, Reply123

(* A step of Next is a step of one of these actions. *)
LEMMA NextCases ==
    ASSUME Next
    PROVE  \/ Modify \/ Tick \/ Disconnect \/ Evict
           \/ \E x \in Threads : Respond(x) \/ Send(x)
           \/ \E c \in Callers :
                \/ RefreshHit(c) \/ CallerReceives(c) \/ CallerFallsBack(c) \/ CallerThrows(c)
                \/ \E nc, m \in BOOLEAN : \/ RefreshStale(c, m)
                                          \/ RefreshDisconnected(c, nc, m)
                                          \/ RefreshUpstream(c, nc, m)
                \/ \E t \in Tasks : Submit(c, t)
           \/ \E t \in Tasks : TaskReceives(t) \/ Serialize(t) \/ TaskFails(t)
  BY DEF Next, CallerNext, TaskNext

----------------------------------------------------------------------------
(* What holds of one thread in a state with the right types. *)
ThreadOK(x, s) == /\ s \in Thread
                  /\ x \in Callers => s.pc # "serialize"
                  /\ x \in Tasks => /\ s.pc \notin {"submit", "submitbg"}
                                    /\ ~s.no_cache /\ ~s.usable_if_error

(* The part of TypeOK about the threads, thread by thread. *)
LEMMA ThreadsOK ==
    TypeOK => /\ th \in [Threads -> Thread]
              /\ \A x \in Threads : ThreadOK(x, th[x])
  BY DEF TypeOK, ThreadOK

(* A step that gives one thread a well-typed record keeps them all so. *)
LEMMA OneThread ==
    ASSUME TypeOK, NEW x \in Threads, NEW s, ThreadOK(x, s), th' = [th EXCEPT ![x] = s]
    PROVE  /\ th' \in [Threads -> Thread]
           /\ \A c \in Callers : th'[c].pc # "serialize"
           /\ \A t \in Tasks : /\ th'[t].pc \notin {"submit", "submitbg"}
                               /\ ~th'[t].no_cache /\ ~th'[t].usable_if_error
  <1>1. th' \in [Threads -> Thread]
    BY DEF TypeOK, ThreadOK
  <1>2. \A y \in Threads : th'[y] = IF y = x THEN s ELSE th[y]
    BY DEF TypeOK
  <1> QED
    BY <1>1, <1>2, Constants DEF TypeOK, ThreadOK

(* A step that answers with a reply of the right type. *)
LEMMA AnswerType ==
    ASSUME TypeOK, NEW rep \in Reply123, NEW kind \in {"cache", "upstream", "error"},
           NEW v0 \in Versions, NEW w \in Int, Answer(rep, kind, v0, w)
    PROVE  answer' \in [how : {"none", "cache", "upstream", "error"}, v : Versions,
                        late : Int, need : Versions, waited : Int]
  <1>1. rep.v \in Versions
    BY DEF Reply123
  <1>2. now \in Int /\ superseded[rep.v] \in Int
    BY <1>1 DEF TypeOK
  <1>3. Late(rep.v) \in Int
    BY <1>2 DEF Late
  <1> QED
    BY <1>1, <1>3 DEF Answer

(* Every step preserves the type invariant. *)
LEMMA TypeStep == TypeOK /\ [Next]_vars => TypeOK'
  <1> SUFFICES ASSUME TypeOK, [Next]_vars PROVE TypeOK'
    OBVIOUS
  <1>0. /\ \A x \in Threads : ThreadOK(x, th[x])
        /\ ThreadOK(<<>>, Idle)
        /\ 0 \in Versions
    BY ThreadsOK, IdleType, Constants DEF ThreadOK, Idle, Versions
  <1> DEFINE ThOK == /\ th' \in [Threads -> Thread]
                     /\ \A c \in Callers : th'[c].pc # "serialize"
                     /\ \A t \in Tasks : /\ th'[t].pc \notin {"submit", "submitbg"}
                                         /\ ~th'[t].no_cache /\ ~th'[t].usable_if_error
  <1>id. \A x \in Threads : ThreadOK(x, Idle)
    BY IdleType DEF ThreadOK, Idle
  <1>one. ASSUME NEW x \in Threads, NEW s, ThreadOK(x, s), th' = [th EXCEPT ![x] = s]
          PROVE  ThOK
    BY <1>one, OneThread
  <1>same. th' = th => ThOK
    BY DEF TypeOK
  <1>rest. ASSUME ThOK, UNCHANGED timeVars, UNCHANGED disconnected, recently' \in BOOLEAN,
                  disk' \in Reply123,
                  answer' = answer \/ answer' \in [how : {"none", "cache", "upstream", "error"},
                                                v : Versions, late : Int, need : Versions, waited : Int]
           PROVE  TypeOK'
    BY <1>rest DEF TypeOK, timeVars
  <1>1. CASE Modify
    <2>1. server' \in Versions /\ superseded' \in [Versions -> Nat]
      BY <1>1, Constants DEF Modify, TypeOK, Versions
    <2> QED
      BY <1>1, <1>same, <2>1 DEF Modify, TypeOK
  <1>2. CASE Tick
    <2>1. now' \in Nat
      BY <1>2 DEF Tick, TypeOK
    <2>2. recently' \in BOOLEAN
      BY <1>2 DEF Tick
    <2> QED
      BY <1>2, <1>same, <2>1, <2>2 DEF Tick, TypeOK
  <1>3. CASE Disconnect
    BY <1>3, <1>same DEF Disconnect, TypeOK, timeVars
  <1>4. CASE Evict
    BY <1>4, <1>same, <1>rest, IdleType DEF Evict, TypeOK, timeVars
  <1>5. ASSUME NEW x \in Threads, Respond(x) PROVE TypeOK'
    <2>1. PICK b \in now - MaxAge - Swr .. now, v \in 0 .. server :
            th' = [th EXCEPT ![x].pc = "answered", ![x].ver = v, ![x].born = b, ![x].at = now]
      BY <1>5 DEF Respond
    <2> DEFINE s == [th[x] EXCEPT !.pc = "answered", !.ver = v, !.born = b, !.at = now]
    <2>2. th' = [th EXCEPT ![x] = s]
      BY <2>1
    <2>3. v \in Versions /\ b \in Int /\ now \in Int
      BY Constants DEF TypeOK, Versions
    <2>4. ThreadOK(x, s)
      BY <1>0, <2>3 DEF ThreadOK, Thread, PCs
    <2>5. ThOK
      BY <1>one, <2>2, <2>4
    <2> QED
      BY <1>5, <1>rest, <2>5 DEF Respond, TypeOK
  <1>6. ASSUME NEW x \in Threads, Send(x) PROVE TypeOK'
    <2> DEFINE s == [th[x] EXCEPT !.pc = "sent"]
    <2>1. th' = [th EXCEPT ![x] = s]
      BY <1>6 DEF Send
    <2>2. ThreadOK(x, s)
      BY <1>0 DEF ThreadOK, Thread, PCs
    <2>3. ThOK
      BY <1>one, <2>1, <2>2
    <2> QED
      BY <1>6, <1>rest, <2>3 DEF Send, TypeOK
  <1>7. ASSUME NEW c \in Callers, RefreshHit(c) PROVE TypeOK'
    <2>1. answer' \in [how : {"none", "cache", "upstream", "error"}, v : Versions,
                       late : Int, need : Versions, waited : Int]
      BY <1>7, <1>0, AnswerType DEF RefreshHit, TypeOK
    <2> QED
      BY <1>7, <1>rest, <1>same, <2>1 DEF RefreshHit, TypeOK
  <1>8. ASSUME NEW c \in Callers, NEW m \in BOOLEAN, RefreshStale(c, m) PROVE TypeOK'
    <2> DEFINE s == [Idle EXCEPT !.pc = "submitbg", !.r = disk, !.at = now]
    <2>1. \/ answer' = answer
          \/ answer' \in [how : {"none", "cache", "upstream", "error"}, v : Versions,
                          late : Int, need : Versions, waited : Int]
      BY <1>8, <1>0, AnswerType DEF RefreshStale, MaybeBgRefresh, TypeOK
    <2>2. c \in Threads /\ c \notin Tasks
      BY Constants
    <2>6. disk \in Reply123 /\ now \in Int
      BY DEF TypeOK
    <2>3. ThreadOK(c, s)
      BY <1>0, <2>2, <2>6 DEF ThreadOK, Thread, PCs, Idle
    <2>4. recently' \in BOOLEAN /\ (th' = th \/ th' = [th EXCEPT ![c] = s])
      BY <1>8 DEF RefreshStale, MaybeBgRefresh
    <2>5. ThOK
      BY <1>one, <1>same, <2>2, <2>3, <2>4
    <2> QED
      BY <1>8, <1>rest, <2>1, <2>4, <2>5 DEF RefreshStale, TypeOK
  <1>9. ASSUME NEW c \in Callers, NEW nc \in BOOLEAN, NEW m \in BOOLEAN,
               RefreshDisconnected(c, nc, m)
        PROVE  TypeOK'
    <2>1. answer' \in [how : {"none", "cache", "upstream", "error"}, v : Versions,
                       late : Int, need : Versions, waited : Int]
      BY <1>9, <1>0, AnswerType DEF RefreshDisconnected, TypeOK
    <2> QED
      BY <1>9, <1>rest, <1>same, <2>1 DEF RefreshDisconnected, TypeOK
  <1>10. ASSUME NEW c \in Callers, NEW nc \in BOOLEAN, NEW m \in BOOLEAN,
                RefreshUpstream(c, nc, m)
         PROVE  TypeOK'
    <2> DEFINE s == [Idle EXCEPT !.pc = "upstream", !.r = disk, !.no_cache = nc,
                                 !.usable_if_error = Usable(disk),
                                 !.floor = IF nc THEN server ELSE 0]
    <2>1. th' = [th EXCEPT ![c] = s]
      BY <1>10 DEF RefreshUpstream
    <2>2. c \in Threads /\ c \notin Tasks
      BY Constants
    <2>3. Usable(disk) \in BOOLEAN /\ disk \in Reply123
      BY DEF Usable, TypeOK, Reply123
    <2>4. ThreadOK(c, s)
      BY <1>0, <2>2, <2>3 DEF ThreadOK, Thread, PCs, TypeOK, Idle
    <2>5. ThOK
      BY <1>one, <2>1, <2>2, <2>4
    <2> QED
      BY <1>10, <1>rest, <2>5 DEF RefreshUpstream, TypeOK
  <1>11. ASSUME NEW c \in Callers, CallerReceives(c) PROVE TypeOK'
    <2> DEFINE s == [Idle EXCEPT !.pc = "submit", !.r = Received(c),
                                 !.floor = th[c].floor, !.at = now]
    <2>1. c \in Threads /\ c \notin Tasks
      BY Constants
    <2>2. Received(c) \in Reply123 /\ th[c].floor \in Versions /\ now \in Int
      BY <1>0, <2>1, ReceivedType DEF ThreadOK, Thread, TypeOK
    <2>4. th' = [th EXCEPT ![c] = s]
      BY <1>11 DEF CallerReceives
    <2>5. ThreadOK(c, s)
      BY <1>0, <2>1, <2>2 DEF ThreadOK, Thread, PCs, Idle
    <2>6. ThOK
      BY <1>one, <2>1, <2>4, <2>5
    <2> QED
      BY <1>11, <1>rest, <2>6 DEF CallerReceives, TypeOK
  <1>12. ASSUME NEW c \in Callers, NEW t \in Tasks, Submit(c, t) PROVE TypeOK'
    <2> DEFINE s == [Idle EXCEPT !.pc = IF th[c].pc = "submit" THEN "serialize"
                                                               ELSE "upstream",
                                 !.r = th[c].r]
    <2>1. c \in Threads /\ t \in Threads /\ c # t /\ t \notin Callers
      BY Constants
    <2>2. \A y \in Threads : th'[y] = IF y = t THEN s ELSE IF y = c THEN Idle ELSE th[y]
      BY <1>12, <2>1 DEF Submit, TypeOK
    <2>3. ThreadOK(t, s)
      BY <1>0, <2>1 DEF ThreadOK, Thread, PCs, Idle
    <2>4. th' \in [Threads -> Thread]
      BY <1>12, <1>id, <2>1, <2>3 DEF Submit, TypeOK, ThreadOK
    <2>5. \A y \in Threads : ThreadOK(y, th'[y])
      BY <1>0, <1>id, <2>2, <2>3
    <2>6. ThOK
      BY <2>4, <2>5, Constants DEF ThreadOK
    <2>9. th[c].r \in Reply123 /\ th[c].floor \in Versions /\ th[c].at \in Int
      BY <1>0, <2>1 DEF ThreadOK, Thread
    <2>7. now - th[c].at \in Int
      BY <2>9 DEF TypeOK
    <2>8. answer' \in [how : {"none", "cache", "upstream", "error"}, v : Versions,
                       late : Int, need : Versions, waited : Int]
      BY <1>12, <2>7, <2>9, AnswerType DEF Submit
    <2> QED
      BY <1>12, <1>rest, <2>6, <2>8 DEF Submit, TypeOK
  <1>13. ASSUME NEW t \in Tasks, TaskReceives(t) PROVE TypeOK'
    <2> DEFINE s == [Idle EXCEPT !.pc = "serialize", !.r = Received(t)]
    <2>1. t \in Threads /\ t \notin Callers
      BY Constants
    <2>2. Received(t) \in Reply123
      BY <2>1, ReceivedType
    <2>3. th' = [th EXCEPT ![t] = s]
      BY <1>13 DEF TaskReceives
    <2>4. ThreadOK(t, s)
      BY <1>0, <2>1, <2>2 DEF ThreadOK, Thread, PCs, Idle
    <2>5. ThOK
      BY <1>one, <2>1, <2>3, <2>4
    <2> QED
      BY <1>13, <1>rest, <2>5 DEF TaskReceives, TypeOK
  <1>14. ASSUME NEW t \in Tasks, Serialize(t) PROVE TypeOK'
    <2>1. t \in Threads /\ th[t].r \in Reply123
      BY <1>0, Constants DEF ThreadOK, Thread
    <2>2. ThOK
      BY <1>14, <1>one, <1>id, <2>1 DEF Serialize
    <2>3. disk' \in Reply123
      BY <1>14, <2>1, IdleType DEF Serialize, TypeOK
    <2> QED
      BY <1>14, <1>rest, <2>2, <2>3 DEF Serialize, TypeOK
  <1>15. ASSUME NEW c \in Callers, CallerFallsBack(c) PROVE TypeOK'
    <2>1. answer' \in [how : {"none", "cache", "upstream", "error"}, v : Versions,
                       late : Int, need : Versions, waited : Int]
      BY <1>15, <1>0, AnswerType DEF CallerFallsBack, TypeOK
    <2>2. ThOK
      BY <1>15, <1>one, <1>id, Constants DEF CallerFallsBack
    <2> QED
      BY <1>15, <1>rest, <2>1, <2>2 DEF CallerFallsBack, TypeOK
  <1>16. ASSUME NEW x \in Threads, CallerThrows(x) \/ TaskFails(x) PROVE TypeOK'
    <2>1. ThOK
      BY <1>16, <1>one, <1>id DEF CallerThrows, TaskFails
    <2> QED
      BY <1>16, <1>rest, <2>1 DEF CallerThrows, TaskFails, TypeOK
  <1>17. CASE UNCHANGED vars
    BY <1>17 DEF vars, timeVars, TypeOK
  <1> QED
    BY <1>1, <1>2, <1>3, <1>4, <1>5, <1>6, <1>7, <1>8, <1>9, <1>10, <1>11, <1>12, <1>13,
       <1>14, <1>15, <1>16, <1>17, NextCases, Constants

(* The initial states have the right types. *)
LEMMA InitType == Init => TypeOK
  <1> SUFFICES ASSUME Init PROVE TypeOK
    OBVIOUS
  <1>1. 0 \in Versions /\ Start \in Nat
    BY Constants DEF Versions
  <1>2. th \in [Threads -> Thread] /\ \A x \in Threads : th[x] = Idle
    BY IdleType DEF Init
  <1>3. \A x \in Threads : th[x].pc = "idle" /\ ~th[x].no_cache /\ ~th[x].usable_if_error
    BY <1>2 DEF Idle
  <1>4. superseded \in [Versions -> Nat] /\ server \in Versions
    BY <1>1 DEF Init
  <1>5. answer \in [how : {"none", "cache", "upstream", "error"}, v : Versions,
                    late : Int, need : Versions, waited : Int]
    BY <1>1 DEF Init
  <1> QED
    BY <1>1, <1>2, <1>3, <1>4, <1>5, IdleType, Constants DEF Init, TypeOK

(* Refresh keeps its types: in particular a task of the pool never submits to
   the pool, which would throw or deadlock. *)
THEOREM TypeCorrect == Spec => []TypeOK
  BY InitType, TypeStep, PTL DEF Spec

----------------------------------------------------------------------------
\* The inductive invariant.  Its predicates take the clock n and the history
\* of the server, srv and sup, as parameters.

(* A reply does not claim to be younger than it is: if its version has been
   replaced, then not before its lifetime, and one transfer, ends. *)
Honest(rep, n, srv, sup) ==
    IF rep.valid THEN /\ rep.expires <= n + MaxAge
                      /\ rep.v <= srv
                      /\ rep.v = srv \/ sup[rep.v] >= rep.expires - MaxAge - MaxDelay
    ELSE rep.expires = 0

(* An answer under way was the server's when it was made, and one to a no_cache
   request is not older than the request. *)
InFlight(s, n, srv, sup) ==
    s.pc = "answered" => /\ s.ver <= srv
                         /\ s.born <= s.at /\ s.at <= n
                         /\ s.at <= s.born + MaxAge + Swr
                         /\ s.ver = srv \/ sup[s.ver] >= s.born
                         /\ s.no_cache => s.ver >= s.floor

(* A caller that waits in submit has been settled: its reply was fresh, or not
   too stale, when it began to wait, and is what it has asked for. *)
Waiting(s, n) ==
    s.pc \in {"submit", "submitbg"} => /\ s.at <= n
                                       /\ s.r.valid
                                       /\ s.r.expires >= s.at - (Swr + PastSwr)
                                       /\ s.r.v >= s.floor

(* A request asks for a version that exists, if it asks for any. *)
FloorOK(s, srv) == s.floor <= srv /\ (s.pc # "submit" /\ ~s.no_cache => s.floor = 0)

Good(s, n, srv, sup) == /\ Honest(s.r, n, srv, sup)
                        /\ InFlight(s, n, srv, sup)
                        /\ Waiting(s, n)
                        /\ FloorOK(s, srv)

Timely == /\ TypeOK
          /\ now >= Start
          /\ Honest(disk, now, server, superseded)
          /\ \A x \in Threads : Good(th[x], now, server, superseded)
          /\ SettledAnswers /\ BoundedOnError /\ NoCacheIsCurrent

(* Time passing and modifications on the server make no reply dishonest. *)
LEMMA WorldStep ==
    ASSUME TypeOK, TypeOK',
           \/ now' >= now /\ server' = server /\ superseded' = superseded
           \/ now' = now /\ server' = server + 1
              /\ superseded' = [superseded EXCEPT ![server] = now]
    PROVE  /\ \A rep \in Reply123 : Honest(rep, now, server, superseded)
                                      => Honest(rep, now', server', superseded')
           /\ \A s \in Thread : Good(s, now, server, superseded)
                                  => Good(s, now', server', superseded')
  <1> USE Constants
  <1>1. /\ now \in Nat /\ now' \in Nat /\ server \in Nat /\ server' \in Nat
        /\ superseded \in [Versions -> Nat] /\ server \in Versions
    <2>1. now \in Nat /\ server \in Versions /\ superseded \in [Versions -> Nat]
      BY DEF TypeOK
    <2>2. now' \in Nat /\ server' \in Versions
      BY DEF TypeOK
    <2>3. \A v \in Versions : v \in Nat
      BY DEF Versions
    <2> QED
      BY <2>1, <2>2, <2>3
  <1>2. ASSUME NEW v \in Versions, NEW e \in Int, e <= now,
               v <= server, v = server \/ superseded[v] >= e
        PROVE  v <= server' /\ (v = server' \/ superseded'[v] >= e)
    <2>1. CASE now' >= now /\ server' = server /\ superseded' = superseded
      BY <1>2, <2>1
    <2>2. CASE /\ now' = now /\ server' = server + 1
               /\ superseded' = [superseded EXCEPT ![server] = now]
      <3>1. superseded'[v] = IF v = server THEN now ELSE superseded[v]
        BY <1>1, <2>2
      <3>2. v \in Nat /\ superseded[v] \in Nat
        BY <1>1 DEF Versions
      <3> QED
        BY <1>1, <1>2, <2>2, <3>1, <3>2
    <2> QED
      BY <2>1, <2>2
  <1>3. ASSUME NEW rep \in Reply123, Honest(rep, now, server, superseded)
        PROVE  Honest(rep, now', server', superseded')
    <2>1. CASE rep.valid
      <3>1. rep.v \in Versions /\ rep.expires \in Int
        BY DEF Reply123
      <3>2. rep.expires - MaxAge - MaxDelay \in Int /\ rep.expires - MaxAge - MaxDelay <= now
        BY <1>1, <1>3, <2>1, <3>1 DEF Honest
      <3>3. rep.v <= server /\ (rep.v = server
                                \/ superseded[rep.v] >= rep.expires - MaxAge - MaxDelay)
        BY <1>3, <2>1 DEF Honest
      <3>4. rep.v <= server' /\ (rep.v = server'
                                 \/ superseded'[rep.v] >= rep.expires - MaxAge - MaxDelay)
        BY <1>2, <3>1, <3>2, <3>3
      <3>5. rep.expires <= now' + MaxAge
        BY <1>1, <1>3, <2>1, <3>1 DEF Honest
      <3> QED
        BY <2>1, <3>4, <3>5 DEF Honest
    <2>2. CASE ~rep.valid
      BY <1>3, <2>2 DEF Honest
    <2> QED
      BY <2>1, <2>2
  <1>4. ASSUME NEW s \in Thread, Good(s, now, server, superseded)
        PROVE  Good(s, now', server', superseded')
    <2>1. s.r \in Reply123 /\ s.ver \in Versions /\ s.born \in Int /\ s.at \in Int
          /\ s.floor \in Nat
      BY DEF Thread, Versions
    <2>2. Honest(s.r, now', server', superseded')
      BY <1>3, <1>4, <2>1 DEF Good
    <2>3. ASSUME s.pc = "answered" PROVE InFlight(s, now', server', superseded')
      <3>1. /\ s.ver <= server /\ s.born <= s.at /\ s.at <= now
            /\ s.at <= s.born + MaxAge + Swr
            /\ s.ver = server \/ superseded[s.ver] >= s.born
            /\ s.no_cache => s.ver >= s.floor
        BY <1>4, <2>3 DEF Good, InFlight
      <3>2. s.born <= now /\ s.at <= now'
        BY <1>1, <2>1, <3>1
      <3>3. s.ver <= server' /\ (s.ver = server' \/ superseded'[s.ver] >= s.born)
        BY <1>2, <2>1, <3>1, <3>2
      <3> QED
        BY <3>1, <3>2, <3>3 DEF InFlight
    <2>4. s.pc # "answered" => InFlight(s, now', server', superseded')
      BY DEF InFlight
    <2>5. FloorOK(s, server')
      BY <1>1, <1>4, <2>1 DEF Good, FloorOK
    <2>6. Waiting(s, now')
      BY <1>1, <1>4, <2>1 DEF Good, Waiting
    <2> QED
      BY <2>2, <2>3, <2>4, <2>5, <2>6 DEF Good
  <1> QED
    BY <1>3, <1>4

(* How late an honest reply is, k past its lifetime. *)
LEMMA LateBound ==
    ASSUME TypeOK, NEW rep \in Reply123, Honest(rep, now, server, superseded),
           rep.valid, NEW k \in Nat, rep.expires >= now - k
    PROVE  Late(rep.v) <= MaxAge + MaxDelay + k
  <1> USE Constants
  <1>1. /\ now \in Nat /\ server \in Versions /\ rep.v \in Versions /\ rep.expires \in Int
        /\ superseded[rep.v] \in Nat
    BY DEF TypeOK, Reply123
  <1>2. CASE rep.v = server
    BY <1>2 DEF Late
  <1>3. CASE rep.v # server
    <2>1. Late(rep.v) = now - superseded[rep.v]
      BY <1>3 DEF Late
    <2>2. superseded[rep.v] >= rep.expires - MaxAge - MaxDelay
      BY <1>3 DEF Honest
    <2> QED
      BY <1>1, <2>1, <2>2
  <1> QED
    BY <1>2, <1>3

(* What is received is honest, and no later than the answer and its transfer. *)
LEMMA ReceivedHonest ==
    ASSUME TypeOK, NEW x \in Threads, Good(th[x], now, server, superseded), Arrived(x)
    PROVE  /\ Received(x).valid /\ Received(x).v = th[x].ver
           /\ Received(x).expires >= now - Swr
           /\ Honest(Received(x), now, server, superseded)
  <1> USE Constants
  <1>1. /\ now \in Nat /\ th[x] \in Thread
        /\ th[x].r \in Reply123 /\ th[x].ver \in Versions
        /\ th[x].born \in Int /\ th[x].at \in Int
    BY DEF TypeOK, Thread
  <1>2. /\ th[x].ver <= server
        /\ th[x].born <= th[x].at /\ th[x].at <= now
        /\ th[x].at <= th[x].born + MaxAge + Swr
        /\ th[x].ver = server \/ superseded[th[x].ver] >= th[x].born
        /\ now - th[x].at <= MaxDelay
    BY DEF Good, InFlight, Arrived
  <1>3. /\ Received(x).valid /\ Received(x).v = th[x].ver /\ Received(x).expires = Expires(x)
    <2>1. CASE NotModified(x)
      BY <1>1, <2>1 DEF Received, NotModified, Reply123
    <2>2. CASE ~NotModified(x)
      BY <2>2 DEF Received
    <2> QED
      BY <2>1, <2>2
  <1>4. /\ Expires(x) \in Int /\ Expires(x) <= now + MaxAge
        /\ Expires(x) - MaxAge - MaxDelay <= th[x].born
        /\ Expires(x) >= now - Swr
    BY <1>1, <1>2 DEF Expires
  <1>5. th[x].ver = server \/ superseded[th[x].ver] >= Expires(x) - MaxAge - MaxDelay
    <2>1. superseded[th[x].ver] \in Nat
      BY <1>1 DEF TypeOK
    <2> QED
      BY <1>1, <1>2, <1>4, <2>1
  <1> QED
    BY <1>2, <1>3, <1>4, <1>5 DEF Honest

(* A cached reply that is answered, at most k past its lifetime, is valid. *)
LEMMA ValidWithin ==
    ASSUME TypeOK, now >= Start, NEW rep \in Reply123, Honest(rep, now, server, superseded),
           NEW k \in Nat, k <= Swr + PastSwr, rep.expires >= now - k
    PROVE  rep.valid
  <1>1. now \in Nat /\ rep.expires \in Int
    BY DEF TypeOK, Reply123
  <1>2. rep.expires > 0
    BY <1>1, EpochAssumption, Constants
  <1> QED
    BY <1>2 DEF Honest

(* What an answer has to satisfy. *)
AnswerOK == SettledAnswers /\ BoundedOnError /\ NoCacheIsCurrent

(* An answer from the cache, at most k past its lifetime. *)
LEMMA CacheAnswer ==
    ASSUME Timely, NEW k \in Nat, k <= Swr + PastSwr, disk.expires >= now - k,
           Answer(disk, "cache", 0, 0)
    PROVE  AnswerOK'
  <1> USE Constants
  <1>1. TypeOK /\ disk \in Reply123 /\ Honest(disk, now, server, superseded) /\ now >= Start
    BY DEF Timely, TypeOK
  <1>2. disk.valid
    BY <1>1, ValidWithin
  <1>3. Late(disk.v) <= MaxAge + MaxDelay + k
    BY <1>1, <1>2, LateBound
  <1>4. Late(disk.v) \in Int /\ disk.v >= 0
    BY <1>1 DEF Late, TypeOK, Reply123, Versions
  <1>5. Late(disk.v) <= MaxAge + Swr + PastSwr + MaxDelay
    BY <1>3, <1>4
  <1>6. answer' = [how |-> "cache", v |-> disk.v, late |-> Late(disk.v), need |-> 0,
                   waited |-> 0]
    BY DEF Answer
  <1> QED
    BY <1>4, <1>5, <1>6 DEF AnswerOK, SettledAnswers, BoundedOnError, NoCacheIsCurrent

(* An answer because of an error. *)
LEMMA ErrorAnswer ==
    ASSUME Timely, Usable(disk), Answer(disk, "error", 0, 0)
    PROVE  AnswerOK'
  <1> USE Constants
  <1>1. TypeOK /\ disk \in Reply123 /\ Honest(disk, now, server, superseded) /\ now \in Nat
    BY DEF Timely, TypeOK
  <1>2. disk.valid /\ disk.expires >= now - StaleIfError
    BY <1>1 DEF Usable, ttl, Reply123
  <1>3. Late(disk.v) <= MaxAge + MaxDelay + StaleIfError
    BY <1>1, <1>2, LateBound
  <1>4. answer' = [how |-> "error", v |-> disk.v, late |-> Late(disk.v), need |-> 0,
                   waited |-> 0]
    BY DEF Answer
  <1>5. Late(disk.v) \in Int
    BY <1>1 DEF Late, TypeOK, Reply123, Versions
  <1> QED
    BY <1>3, <1>4, <1>5 DEF AnswerOK, SettledAnswers, BoundedOnError, NoCacheIsCurrent

(* A caller that has its answer from upstream waits to submit it. *)
LEMMA UpstreamAnswer ==
    ASSUME Timely, NEW c \in Callers, CallerReceives(c), NEW s,
           s = [Idle EXCEPT !.pc = "submit", !.r = Received(c), !.floor = th[c].floor, !.at = now]
    PROVE  Good(s, now, server, superseded)
  <1> USE Constants
  <1>1. /\ c \in Threads /\ TypeOK /\ Arrived(c) /\ Good(th[c], now, server, superseded)
        /\ th[c] \in Thread /\ Received(c) \in Reply123 /\ now \in Nat
    BY ReceivedType DEF Timely, CallerReceives, TypeOK
  <1>2. /\ Received(c).valid /\ Received(c).v = th[c].ver
        /\ Received(c).expires >= now - Swr
        /\ Honest(Received(c), now, server, superseded)
    BY <1>1, ReceivedHonest
  <1>3. Received(c).expires \in Int
    BY <1>1 DEF Reply123
  <1>4. Received(c).expires >= now - (Swr + PastSwr)
    BY <1>1, <1>2, <1>3
  <1>5. Received(c).v >= th[c].floor
    <2>1. th[c].no_cache => th[c].ver >= th[c].floor
      BY <1>1 DEF Good, InFlight, Arrived
    <2>2. ~th[c].no_cache => th[c].floor = 0
      BY <1>1 DEF Good, FloorOK, Arrived
    <2>3. th[c].ver \in Nat
      BY <1>1 DEF Thread, Versions
    <2> QED
      BY <1>2, <2>1, <2>2, <2>3
  <1>6. th[c].floor <= server
    BY <1>1 DEF Good, FloorOK
  <1>7. s.pc = "submit" /\ s.r = Received(c) /\ s.floor = th[c].floor /\ s.at = now
    BY DEF Idle
  <1> QED
    BY <1>1, <1>2, <1>4, <1>5, <1>6, <1>7 DEF Good, InFlight, Waiting, FloorOK

(* The answer of a caller that has submitted its task. *)
LEMMA SubmitAnswer ==
    ASSUME Timely, NEW c \in Callers, NEW t \in Tasks, Submit(c, t)
    PROVE  AnswerOK'
  <1> USE Constants
  <1> DEFINE rep == th[c].r
             w == now - th[c].at
  <1>1. /\ c \in Threads /\ TypeOK /\ Good(th[c], now, server, superseded)
        /\ th[c].pc \in {"submit", "submitbg"} /\ now \in Nat
        /\ rep \in Reply123 /\ th[c].at \in Int /\ rep.expires \in Int /\ rep.v \in Versions
    BY DEF Timely, Submit, TypeOK, Thread, Reply123
  <1>2. /\ th[c].at <= now /\ rep.valid /\ rep.v >= th[c].floor
        /\ rep.expires >= th[c].at - (Swr + PastSwr)
        /\ Honest(rep, now, server, superseded)
    BY <1>1 DEF Good, Waiting
  <1>3. Swr + PastSwr + w \in Nat /\ rep.expires >= now - (Swr + PastSwr + w)
    BY <1>1, <1>2
  <1>4. Late(rep.v) <= MaxAge + MaxDelay + (Swr + PastSwr + w)
    BY <1>1, <1>2, <1>3, LateBound
  <1>5. Late(rep.v) \in Int /\ w \in Int
    BY <1>1 DEF Late, TypeOK
  <1>6. Late(rep.v) <= MaxAge + Swr + PastSwr + MaxDelay + w
    BY <1>4, <1>5
  <1>7. /\ answer'.how \in {"upstream", "cache"} /\ answer'.v = rep.v
        /\ answer'.late = Late(rep.v) /\ answer'.need = th[c].floor /\ answer'.waited = w
    BY DEF Answer, Submit
  <1> QED
    BY <1>2, <1>6, <1>7 DEF AnswerOK, SettledAnswers, BoundedOnError, NoCacheIsCurrent

(* A thread that waits for nobody's answer, and has an honest reply, is good. *)
LEMMA QuietGood ==
    ASSUME NEW s, NEW n, NEW srv \in Nat, NEW sup,
           s.pc \notin {"answered", "submit", "submitbg"},
           Honest(s.r, n, srv, sup), s.floor = 0
    PROVE  Good(s, n, srv, sup)
  BY DEF Good, InFlight, Waiting, FloorOK

(* The invariant is inductive. *)
LEMMA TimelyStep == Timely /\ [Next]_vars => Timely'
  <1> SUFFICES ASSUME Timely, [Next]_vars PROVE Timely'
    OBVIOUS
  <1> DEFINE G(s) == Good(s, now, server, superseded)
             H(rep) == Honest(rep, now, server, superseded)
             ThGood == \A x \in Threads : Good(th'[x], now', server', superseded')
             DiskHonest == Honest(disk', now', server', superseded')
  <1> USE Constants
  <1>0. /\ TypeOK /\ TypeOK' /\ now \in Nat /\ now >= Start /\ H(disk) /\ server \in Nat
        /\ th \in [Threads -> Thread] /\ disk \in Reply123
        /\ (\A x \in Threads : th[x] \in Thread /\ G(th[x])) /\ AnswerOK
    <2>1. TypeOK /\ TypeOK'
      BY TypeStep DEF Timely
    <2>2. now \in Nat /\ server \in Nat /\ th \in [Threads -> Thread] /\ disk \in Reply123
      BY <2>1 DEF TypeOK, Versions
    <2> QED
      BY <2>1, <2>2 DEF Timely, AnswerOK
  <1>id. H(Invalid) /\ G(Idle)
    <2>1. H(Invalid)
      BY DEF Honest, Invalid
    <2> QED
      BY <1>0, <2>1 DEF Good, InFlight, Waiting, FloorOK, Idle
  <1>rest. ASSUME ThGood, DiskHonest, AnswerOK', now' >= Start PROVE Timely'
    BY <1>rest, <1>0 DEF Timely, AnswerOK
  <1>sameA. answer' = answer => AnswerOK'
    BY <1>0 DEF AnswerOK, SettledAnswers, BoundedOnError, NoCacheIsCurrent
  <1>sameT. UNCHANGED timeVars /\ th' = th => ThGood
    BY <1>0 DEF timeVars
  <1>sameD. UNCHANGED timeVars /\ disk' = disk => DiskHonest
    BY <1>0 DEF timeVars
  <1>one. ASSUME NEW x \in Threads, NEW s, G(s), UNCHANGED timeVars, th' = [th EXCEPT ![x] = s]
          PROVE  ThGood
    <2>1. \A y \in Threads : th'[y] = IF y = x THEN s ELSE th[y]
      BY <1>one, <1>0
    <2> QED
      BY <1>one, <1>0, <2>1 DEF timeVars
  <1>start. UNCHANGED timeVars => now' >= Start
    BY <1>0 DEF timeVars
  <1> HIDE DEF ThGood, DiskHonest, G, H
  <1>1. CASE Modify \/ Tick
    <2>1. /\ th' = th /\ disk' = disk /\ answer' = answer /\ now' >= Start
          /\ \/ now' >= now /\ server' = server /\ superseded' = superseded
             \/ now' = now /\ server' = server + 1
                /\ superseded' = [superseded EXCEPT ![server] = now]
      BY <1>1, <1>0 DEF Modify, Tick
    <2>2. ThGood /\ DiskHonest
      BY <1>0, <2>1, WorldStep DEF ThGood, DiskHonest, G, H
    <2> QED
      BY <1>rest, <1>sameA, <2>1, <2>2
  <1>2. CASE Disconnect
    BY <1>2, <1>rest, <1>sameA, <1>sameT, <1>sameD, <1>start DEF Disconnect
  <1>3. CASE Evict
    <2>1. DiskHonest
      BY <1>3, <1>id DEF Evict, timeVars, DiskHonest, H
    <2> QED
      BY <1>3, <1>rest, <1>sameA, <1>sameT, <1>start, <2>1 DEF Evict
  <1>4. ASSUME NEW x \in Threads, Respond(x) PROVE Timely'
    <2>1. PICK b \in now - MaxAge - Swr .. now, v \in 0 .. server :
            /\ Current(v, b)
            /\ ToOrigin(x) => b = now /\ v = server
            /\ th' = [th EXCEPT ![x].pc = "answered", ![x].ver = v, ![x].born = b, ![x].at = now]
      BY <1>4 DEF Respond
    <2> DEFINE s == [th[x] EXCEPT !.pc = "answered", !.ver = v, !.born = b, !.at = now]
    <2>2. th' = [th EXCEPT ![x] = s]
      BY <2>1
    <2>3. /\ s.pc = "answered" /\ s.ver = v /\ s.born = b /\ s.at = now /\ s.r = th[x].r
          /\ s.no_cache = th[x].no_cache /\ s.floor = th[x].floor
      BY <1>0 DEF Thread
    <2>4. th[x].no_cache \in BOOLEAN /\ th[x].floor \in Nat
      BY <1>0 DEF Thread, Versions
    <2>5. H(th[x].r) /\ FloorOK(th[x], server)
      BY <1>0 DEF Good, G, H
    <2>6. v <= server /\ b <= now /\ now <= b + MaxAge + Swr
      BY <1>0
    <2>7. v = server \/ superseded[v] >= b
      BY <2>1 DEF Current
    <2>8. th[x].no_cache => v >= th[x].floor
      BY <1>0, <2>1, <2>4, <2>5 DEF ToOrigin, FloorOK
    <2> HIDE DEF s
    <2>9. InFlight(s, now, server, superseded) /\ FloorOK(s, server)
      BY <1>4, <1>0, <2>3, <2>5, <2>6, <2>7, <2>8 DEF InFlight, FloorOK, Respond
    <2>10. G(s)
      BY <2>3, <2>5, <2>9 DEF Good, G, H, Waiting
    <2>11. ThGood
      BY <1>4, <1>one, <2>2, <2>10 DEF Respond
    <2> QED
      BY <1>4, <1>rest, <1>sameA, <1>sameD, <1>start, <2>11 DEF Respond
  <1>5. ASSUME NEW x \in Threads, Send(x) PROVE Timely'
    <2> DEFINE s == [th[x] EXCEPT !.pc = "sent"]
    <2>1. th' = [th EXCEPT ![x] = s]
      BY <1>5 DEF Send
    <2>2. G(s)
      BY <1>5, <1>0 DEF Good, G, InFlight, Waiting, FloorOK, Thread, Send
    <2>3. ThGood
      BY <1>5, <1>one, <2>1, <2>2 DEF Send
    <2> QED
      BY <1>5, <1>rest, <1>sameA, <1>sameD, <1>start, <2>3 DEF Send
  <1>6. ASSUME NEW c \in Callers, RefreshHit(c) PROVE Timely'
    <2>1. disk.expires >= now - 0
      BY <1>6, <1>0 DEF RefreshHit, ttl, Reply123
    <2>2. AnswerOK'
      BY <1>6, <2>1, CacheAnswer DEF RefreshHit
    <2> QED
      BY <1>6, <1>rest, <1>sameT, <1>sameD, <1>start, <2>2 DEF RefreshHit
  <1>7. ASSUME NEW c \in Callers, NEW m \in BOOLEAN, RefreshStale(c, m) PROVE Timely'
    <2> DEFINE s == [Idle EXCEPT !.pc = "submitbg", !.r = disk, !.at = now]
    <2>1. disk.expires >= now - (Swr + PastSwr)
      BY <1>7, <1>0 DEF RefreshStale, ttl, Reply123, NetSwr
    <2>2. Swr + PastSwr \in Nat /\ Swr + PastSwr <= Swr + PastSwr
      OBVIOUS
    <2>3. CASE recently \/ disconnected
      <3>1. th' = th /\ Answer(disk, "cache", 0, 0)
        BY <1>7, <2>3 DEF RefreshStale, MaybeBgRefresh
      <3>2. AnswerOK'
        BY <2>1, <2>2, <3>1, CacheAnswer
      <3> QED
        BY <1>7, <1>rest, <1>sameT, <1>sameD, <1>start, <3>1, <3>2 DEF RefreshStale
    <2>4. CASE ~(recently \/ disconnected)
      <3>1. th' = [th EXCEPT ![c] = s] /\ answer' = answer
        BY <1>7, <2>4 DEF RefreshStale, MaybeBgRefresh
      <3>2. s.pc = "submitbg" /\ s.r = disk /\ s.at = now /\ s.floor = 0
        BY DEF Idle
      <3>3. disk.valid /\ disk.v >= 0
        BY <1>0, <2>1, <2>2, ValidWithin DEF H, Reply123, Versions
      <3> HIDE DEF s
      <3>4. G(s)
        BY <1>0, <2>1, <3>2, <3>3 DEF Good, G, H, InFlight, Waiting, FloorOK
      <3>5. ThGood
        BY <1>7, <1>one, <3>1, <3>4 DEF RefreshStale
      <3> QED
        BY <1>7, <1>rest, <1>sameA, <1>sameD, <1>start, <3>1, <3>5 DEF RefreshStale
    <2> QED
      BY <2>3, <2>4
  <1>8. ASSUME NEW c \in Callers, NEW nc \in BOOLEAN, NEW m \in BOOLEAN,
               RefreshDisconnected(c, nc, m)
        PROVE  Timely'
    <2>1. AnswerOK'
      BY <1>8, ErrorAnswer DEF RefreshDisconnected
    <2> QED
      BY <1>8, <1>rest, <1>sameT, <1>sameD, <1>start, <2>1 DEF RefreshDisconnected
  <1>9. ASSUME NEW c \in Callers, NEW nc \in BOOLEAN, NEW m \in BOOLEAN,
               RefreshUpstream(c, nc, m)
        PROVE  Timely'
    <2> DEFINE s == [Idle EXCEPT !.pc = "upstream", !.r = disk, !.no_cache = nc,
                                 !.usable_if_error = Usable(disk),
                                 !.floor = IF nc THEN server ELSE 0]
    <2>1. th' = [th EXCEPT ![c] = s] /\ c \in Threads
      BY <1>9 DEF RefreshUpstream
    <2>2. s.pc = "upstream" /\ s.r = disk /\ s.no_cache = nc
          /\ s.floor = IF nc THEN server ELSE 0
      BY DEF Idle
    <2> HIDE DEF s
    <2>3. G(s)
      BY <1>0, <2>2 DEF Good, G, H, InFlight, Waiting, FloorOK
    <2>4. ThGood
      BY <1>9, <1>one, <2>1, <2>3 DEF RefreshUpstream
    <2> QED
      BY <1>9, <1>rest, <1>sameA, <1>sameD, <1>start, <2>4 DEF RefreshUpstream
  <1>11. ASSUME NEW c \in Callers, CallerReceives(c) PROVE Timely'
    <2> DEFINE s == [Idle EXCEPT !.pc = "submit", !.r = Received(c),
                                 !.floor = th[c].floor, !.at = now]
    <2>1. th' = [th EXCEPT ![c] = s] /\ c \in Threads
      BY <1>11 DEF CallerReceives
    <2>2. G(s)
      BY <1>11, UpstreamAnswer DEF G
    <2> HIDE DEF s
    <2>3. ThGood
      BY <1>11, <1>one, <2>1, <2>2 DEF CallerReceives
    <2> QED
      BY <1>11, <1>rest, <1>sameA, <1>sameD, <1>start, <2>3 DEF CallerReceives
  <1>12. ASSUME NEW t \in Tasks, TaskReceives(t) PROVE Timely'
    <2> DEFINE s == [Idle EXCEPT !.pc = "serialize", !.r = Received(t)]
    <2>1. H(Received(t)) /\ t \in Threads
      BY <1>0, <1>12, ReceivedHonest DEF G, H, TaskReceives
    <2>2. s.pc = "serialize" /\ s.r = Received(t) /\ s.floor = 0
      BY DEF Idle
    <2>3. th' = [th EXCEPT ![t] = s]
      BY <1>12 DEF TaskReceives
    <2> HIDE DEF s
    <2>4. G(s)
      BY <1>0, <2>1, <2>2, QuietGood DEF G, H
    <2>5. ThGood
      BY <1>12, <1>one, <2>1, <2>3, <2>4 DEF TaskReceives
    <2> QED
      BY <1>12, <1>rest, <1>sameA, <1>sameD, <1>start, <2>5 DEF TaskReceives
  <1>13. ASSUME NEW c \in Callers, NEW t \in Tasks, Submit(c, t) PROVE Timely'
    <2> DEFINE s == [Idle EXCEPT !.pc = IF th[c].pc = "submit" THEN "serialize"
                                                               ELSE "upstream",
                                 !.r = th[c].r]
    <2>1. c \in Threads /\ t \in Threads /\ c # t
      OBVIOUS
    <2>2. \A y \in Threads : th'[y] = IF y = t THEN s ELSE IF y = c THEN Idle ELSE th[y]
      BY <1>13, <1>0, <2>1 DEF Submit
    <2>3. s.pc \in {"serialize", "upstream"} /\ s.r = th[c].r /\ s.floor = 0
      BY DEF Idle
    <2> HIDE DEF s
    <2>4. H(th[c].r)
      BY <1>0, <2>1 DEF Good, G, H
    <2>5. G(s)
      BY <1>0, <2>3, <2>4, QuietGood DEF G, H
    <2>6. \A y \in Threads : G(th'[y])
      BY <1>0, <1>id, <2>2, <2>5
    <2>7. ThGood
      BY <1>13, <2>6 DEF Submit, timeVars, ThGood, G
    <2>8. AnswerOK'
      BY <1>13, SubmitAnswer
    <2> QED
      BY <1>13, <1>rest, <1>sameD, <1>start, <2>7, <2>8 DEF Submit
  <1>14. ASSUME NEW t \in Tasks, Serialize(t) PROVE Timely'
    <2>1. H(th[t].r)
      BY <1>0 DEF Good, G, H
    <2>2. DiskHonest
      BY <1>14, <1>0, <1>id, <2>1 DEF Serialize, timeVars, DiskHonest, H
    <2>3. ThGood
      BY <1>14, <1>one, <1>id DEF Serialize
    <2> QED
      BY <1>14, <1>rest, <1>sameA, <1>start, <2>2, <2>3 DEF Serialize
  <1>15. ASSUME NEW c \in Callers, CallerFallsBack(c) PROVE Timely'
    <2>1. AnswerOK'
      BY <1>15, ErrorAnswer DEF CallerFallsBack
    <2>2. ThGood
      BY <1>15, <1>one, <1>id DEF CallerFallsBack
    <2> QED
      BY <1>15, <1>rest, <1>sameD, <1>start, <2>1, <2>2 DEF CallerFallsBack
  <1>16. ASSUME NEW x \in Threads, CallerThrows(x) \/ TaskFails(x) PROVE Timely'
    <2>1. ThGood
      BY <1>16, <1>one, <1>id DEF CallerThrows, TaskFails
    <2> QED
      BY <1>16, <1>rest, <1>sameA, <1>sameD, <1>start, <2>1 DEF CallerThrows, TaskFails
  <1>17. CASE UNCHANGED vars
    BY <1>17, <1>rest, <1>sameA, <1>sameT, <1>sameD, <1>start DEF vars
  <1> QED
    BY <1>1, <1>2, <1>3, <1>4, <1>5, <1>6, <1>7, <1>8, <1>9, <1>11, <1>12, <1>13,
       <1>14, <1>15, <1>16, <1>17, NextCases

(* It holds initially, so it is an invariant. *)
LEMMA TimelyInvariant == Spec => []Timely
  <1>1. Init => Timely
    <2> SUFFICES ASSUME Init PROVE Timely
      OBVIOUS
    <2>1. TypeOK
      BY InitType
    <2>2. now >= Start /\ disk = Invalid /\ \A x \in Threads : th[x] = Idle
      BY Constants DEF Init
    <2>3. Honest(Invalid, now, server, superseded)
      BY DEF Honest, Invalid
    <2>4. Good(Idle, now, server, superseded)
      BY <2>3 DEF Good, InFlight, Waiting, FloorOK, Idle, Init
    <2>5. SettledAnswers /\ BoundedOnError /\ NoCacheIsCurrent
      BY DEF Init, SettledAnswers, BoundedOnError, NoCacheIsCurrent
    <2> QED
      BY <2>1, <2>2, <2>3, <2>4, <2>5 DEF Timely
  <1> QED
    BY <1>1, TimelyStep, PTL DEF Spec

(* Whatever background refreshes, late replies, proxies and serializations out
   of order do, diskcache::refresh answers, unless upstream fails, with data
   that was replaced on the server at most max-age, stale-while-revalidate,
   PastStaleWhileRevalidate, one transfer and its wait in tp->submit ago. *)
THEOREM LifetimesDoNotAdd == Spec => []SettledAnswers
  <1>1. Timely => SettledAnswers
    BY DEF Timely
  <1> QED
    BY <1>1, TimelyInvariant, PTL

(* When upstream fails the answer is at most max-age, stale-if-error and one
   transfer behind the server. *)
THEOREM ErrorsAreBounded == Spec => []BoundedOnError
  <1>1. Timely => BoundedOnError
    BY DEF Timely
  <1> QED
    BY <1>1, TimelyInvariant, PTL

(* A no_cache request that upstream answers gets what the server had at the
   time of the request, or something newer. *)
THEOREM NoCacheReachesOrigin == Spec => []NoCacheIsCurrent
  <1>1. Timely => NoCacheIsCurrent
    BY DEF Timely
  <1> QED
    BY <1>1, TimelyInvariant, PTL

-----------------------------------------------------------------------------
(* Module Fallback: what retrying_berefresh and perform_with_fallback do    *)
(* when upstream fails, in the threads that make these calls.  Its          *)
(* properties hold for any number of them and any times.                    *)

-----------------------------------------------------------------------------
(* The operators of Fallback.                                               *)

\* The larger and the smaller one of two numbers.
LEMMA OfTwo ==
  ASSUME NEW a \in Int, NEW b \in Int
  PROVE  /\ Max({a, b}) = IF a >= b THEN a ELSE b
         /\ Min({a, b}) = IF a <= b THEN a ELSE b
<1>1. Max({a, b}) = IF a >= b THEN a ELSE b
  <2> DEFINE m == IF a >= b THEN a ELSE b
  <2>1. m \in {a, b} /\ \A y \in {a, b} : m >= y
    OBVIOUS
  <2>2. \A x \in {a, b} : (\A y \in {a, b} : x >= y) => x = m
    OBVIOUS
  <2> HIDE DEF m
  <2>3. Max({a, b}) = m
    BY <2>1, <2>2 DEF Max
  <2> QED BY <2>3 DEF m
<1>2. Min({a, b}) = IF a <= b THEN a ELSE b
  <2> DEFINE m == IF a <= b THEN a ELSE b
  <2>1. m \in {a, b} /\ \A y \in {a, b} : m <= y
    OBVIOUS
  <2>2. \A x \in {a, b} : (\A y \in {a, b} : x <= y) => x = m
    OBVIOUS
  <2> HIDE DEF m
  <2>3. Min({a, b}) = m
    BY <2>1, <2>2 DEF Min
  <2> QED BY <2>3 DEF m
<1> QED BY <1>1, <1>2

\* delay_manager never sleeps for longer than the longer one of its two parameters.
LEMMA Longest ==
  ASSUME Parameters
  PROVE  /\ LongestDelay \in Nat
         /\ Initial \in 0 .. LongestDelay /\ Saturate \in 0 .. LongestDelay
         /\ ShortDelays => LongestDelay < MinDefer
<1>1. Initial \in Nat /\ Saturate \in Nat /\ Initial \in Int /\ Saturate \in Int
  BY DEF Parameters
<1>2. LongestDelay = IF Initial >= Saturate THEN Initial ELSE Saturate
  BY <1>1, OfTwo DEF LongestDelay
<1> QED BY <1>1, <1>2 DEF ShortDelays

\* A deferral is never shorter than five seconds, never longer than ten minutes.
LEMMA Deferral ==
  ASSUME Parameters, NEW n \in Nat
  PROVE  /\ DeferFor(n) \in -1 .. MaxDefer
         /\ DeferFor(n) >= MinDefer
<1>1. MinDefer \in Nat /\ MaxDefer \in Nat /\ MinDefer <= MaxDefer
  BY DEF Parameters
<1> DEFINE m == IF MinDefer >= n THEN MinDefer ELSE n
<1>2. Max({MinDefer, n}) = m /\ m \in Int
  BY <1>1, OfTwo
<1> HIDE DEF m
<1>3. DeferFor(n) = IF m <= MaxDefer THEN m ELSE MaxDefer
  BY <1>1, <1>2, OfTwo DEF DeferFor
<1> QED BY <1>1, <1>2, <1>3 DEF m

\* The records of idle calls.
LEMMA IdleCall ==
  ASSUME Parameters, NEW o \in {"none", "reply", "hopeless", "timed_out"}, nurls \in UrlCounts
  PROVE  NoCall(o) \in Calls /\ NoCall(o).pc = "idle" /\ NoCall(o).outcome = o
<1>1. LongestDelay \in Nat /\ nurls \in Nat /\ MaxDefer \in Nat /\ Timeout \in Nat
  BY Longest DEF Parameters
<1>2. /\ 0 \in 0 .. LongestDelay /\ 0 \in 0 .. nurls /\ 0 \in 0 .. MaxDefer + 1
      /\ 0 \in 0 .. Timeout
  BY <1>1
<1> QED BY <1>2 DEF NoCall, Calls

\* The record of a call whose search begins.
LEMMA LookingCall ==
  ASSUME Parameters, nurls \in UrlCounts, NEW c \in Calls
  PROVE  /\ Looking(c) \in Calls
         /\ Looking(c).pc = "look" /\ Looking(c).url = 1 /\ Looking(c).least = 1
         /\ Looking(c).left = c.left /\ Looking(c).ttl = c.ttl
         /\ Looking(c).good = c.good /\ Looking(c).spoiled = c.spoiled
         /\ Looking(c).outcome = c.outcome
<1>1. 1 \in 0 .. nurls /\ MaxDefer + 1 \in 0 .. MaxDefer + 1 /\ 0 \in 0 .. Timeout
  BY DEF Parameters
<1> QED BY <1>1 DEF Looking, Calls

\* The record of a call that asks baseurl u.
LEMMA PerformingCall ==
  ASSUME Parameters, NEW c \in Calls, NEW u \in 0 .. nurls, nurls \in UrlCounts
  PROVE  /\ Performing(c, u) \in Calls
         /\ Performing(c, u).pc = "perform" /\ Performing(c, u).url = u
         /\ Performing(c, u).left = c.left /\ Performing(c, u).ttl = c.ttl
         /\ Performing(c, u).good = c.good /\ Performing(c, u).spoiled = c.spoiled
         /\ Performing(c, u).elapsed = c.elapsed /\ Performing(c, u).outcome = c.outcome
<1>1. 0 \in 0 .. nurls /\ 0 \in 0 .. MaxDefer + 1
  BY DEF Parameters
<1> QED BY <1>1 DEF Performing, Calls

\* What becomes of a call when its transfer fails: it is given up, or sleeps.
LEMMA FailedCall ==
  ASSUME Parameters, nurls \in UrlCounts, NEW c \in Calls, NEW retryable \in BOOLEAN
  PROVE  LET n == AfterFailure(c, retryable) IN
         /\ n \in Calls
         /\ \/ n.pc = "idle" /\ n.outcome = "hopeless"
            \/ /\ TimeExceeded(c) /\ n.pc = "idle" /\ n.outcome = "timed_out"
               /\ n.good = c.good /\ n.ttl = c.ttl /\ n.spoiled = c.spoiled
            \/ /\ ~TimeExceeded(c) /\ n.pc = "sleep" /\ n.outcome = c.outcome
               /\ n.sleep = c.delay /\ n.left = c.left
               /\ n.good = c.good /\ n.ttl = c.ttl /\ n.spoiled = c.spoiled
<1> DEFINE n == AfterFailure(c, retryable)
<1>1. CASE ~retryable
  <2>1. n = NoCall("hopeless")
    BY <1>1 DEF AfterFailure
  <2> QED BY <2>1, IdleCall
<1>2. CASE retryable /\ TimeExceeded(c)
  <2> DEFINE i == NoCall("timed_out")
  <2>1. n = [i EXCEPT !.good = c.good, !.ttl = c.ttl, !.spoiled = c.spoiled]
    BY <1>2 DEF AfterFailure
  <2>2. i \in Calls /\ i.pc = "idle" /\ i.outcome = "timed_out"
    BY IdleCall
  <2> HIDE DEF i, n
  <2>3. n \in Calls /\ n.pc = "idle" /\ n.outcome = "timed_out"
    BY <2>1, <2>2 DEF Calls
  <2>4. n.good = c.good /\ n.ttl = c.ttl /\ n.spoiled = c.spoiled
    BY <2>1, <2>2 DEF Calls
  <2> QED BY <1>2, <2>3, <2>4 DEF n
<1>3. CASE retryable /\ ~TimeExceeded(c)
  <2>1. n = [c EXCEPT !.pc = "sleep", !.url = 0, !.elapsed = 0, !.sleep = c.delay,
                      !.delay = Min({2 * c.delay, Saturate})]
    BY <1>3 DEF AfterFailure, Calls
  <2>2. Min({2 * c.delay, Saturate}) \in 0 .. LongestDelay
    <3>1. c.delay \in 0 .. LongestDelay /\ LongestDelay \in Nat
      BY Longest DEF Calls
    <3>2. 2 * c.delay \in Nat /\ 2 * c.delay \in Int /\ Saturate \in Int
      BY <3>1, Longest
    <3>3. Min({2 * c.delay, Saturate}) = IF 2 * c.delay <= Saturate THEN 2 * c.delay ELSE Saturate
      BY <3>2, OfTwo
    <3> QED BY <3>1, <3>2, <3>3, Longest
  <2>3. 0 \in 0 .. nurls /\ 0 \in 0 .. Timeout
    BY DEF Parameters
  <2> HIDE DEF n
  <2>4. n \in Calls /\ n.pc = "sleep" /\ n.outcome = c.outcome /\ n.sleep = c.delay
    BY <2>1, <2>2, <2>3 DEF Calls
  <2>5. n.left = c.left /\ n.good = c.good /\ n.ttl = c.ttl /\ n.spoiled = c.spoiled
    BY <2>1 DEF Calls
  <2> QED BY <1>3, <2>4, <2>5 DEF n
<1> QED BY <1>1, <1>2, <1>3

\* A deferral of another thread's leaves a call as it is, but for the record of it.
Same(c, d) == /\ d \in Calls
              /\ d.pc = c.pc /\ d.good = c.good /\ d.ttl = c.ttl /\ d.left = c.left
              /\ d.sleep = c.sleep /\ d.url = c.url /\ d.least = c.least
              /\ d.elapsed = c.elapsed /\ d.outcome = c.outcome

\* Spoil is such a step.
LEMMA SpoiltCall ==
  ASSUME NEW c \in Calls, NEW u
  PROVE  /\ Same(c, Spoil(c, u))
         /\ Spoil(c, u).spoiled = (c.spoiled \/ (u \in healthy /\ c.pc # "idle"))
BY DEF Spoil, Calls, Same
\* What a failure changes: the baseurl that failed is deferred, the call goes on or ends, and
\* the other calls note it if the baseurl was healthy.
LEMMA FailEffect ==
  ASSUME Parameters, FallbackTypeOK, NEW t \in Callbacks, NEW retryable \in BOOLEAN,
         Fail(t, retryable)
  PROVE  LET c == call[t]
             after(s) == IF s = t THEN AfterFailure(c, retryable) ELSE call[s]
         IN  /\ nurls' = nurls /\ healthy' = healthy
             /\ c.pc = "perform" /\ c.url \in Urls /\ ~(c.good /\ c.url \in healthy)
             /\ deferred' \in [Urls -> -1 .. MaxDefer]
             /\ \A v \in Urls : \/ deferred'[v] = deferred[v]
                                \/ v = c.url /\ deferred'[v] >= MinDefer
             /\ nurls # 1 => deferred'[c.url] >= MinDefer
             /\ call' \in [Callbacks -> Calls]
             /\ \A s \in Callbacks :
                  /\ Same(after(s), call'[s])
                  /\ after(s).pc = "idle" => call'[s].spoiled = after(s).spoiled
                  /\ ~call'[s].spoiled =>
                       /\ ~after(s).spoiled
                       /\ after(s).pc # "idle" =>
                            \A v \in healthy : deferred'[v] = deferred[v]
<1> DEFINE c == call[t]
           u == c.url
           after(s) == IF s = t THEN AfterFailure(c, retryable) ELSE call[s]
<1>1. /\ c \in Calls /\ nurls \in UrlCounts /\ deferred \in [Urls -> -1 .. MaxDefer]
      /\ healthy \subseteq Urls /\ call \in [Callbacks -> Calls]
  BY DEF FallbackTypeOK
<1>2. /\ nurls' = nurls /\ healthy' = healthy
      /\ c.pc = "perform" /\ ~(c.good /\ u \in healthy)
  BY DEF Fail
<1>3. u \in Urls
  <2>1. u \in 0 .. nurls /\ u # 0 /\ nurls \in Nat
    BY <1>1, <1>2 DEF Calls, FallbackTypeOK, Parameters
  <2> QED BY <2>1 DEF Urls
<1>4. \A s \in Callbacks : after(s) \in Calls
  BY <1>1, FailedCall
<1>5. c.elapsed \in Nat
  BY <1>1 DEF Calls, Parameters
<1>6. CASE nurls = 1
  <2>1. call' = [call EXCEPT ![t] = AfterFailure(c, retryable)] /\ deferred' = deferred
    BY <1>6 DEF Fail
  <2>2. \A s \in Callbacks : call'[s] = after(s)
    BY <2>1, <1>1
  <2>3. call' \in [Callbacks -> Calls]
    BY <2>1, <1>1, <1>4
  <2>4. \A s \in Callbacks : Same(after(s), call'[s])
    BY <2>2, <1>4 DEF Same
  <2> HIDE DEF after
  <2>5. \A s \in Callbacks : /\ after(s).pc = "idle" => call'[s].spoiled = after(s).spoiled
                             /\ ~call'[s].spoiled =>
                                  /\ ~after(s).spoiled
                                  /\ after(s).pc # "idle" =>
                                       \A v \in healthy : deferred'[v] = deferred[v]
    BY <2>1, <2>2
  <2> QED BY <1>1, <1>2, <1>3, <1>6, <2>1, <2>3, <2>4, <2>5 DEF after
<1>7. CASE nurls # 1
  <2>1. /\ deferred' = [deferred EXCEPT ![u] = DeferFor(c.elapsed)]
        /\ call' = [s \in Callbacks |-> Spoil(after(s), u)]
    BY <1>7 DEF Fail
  <2>2. DeferFor(c.elapsed) \in -1 .. MaxDefer /\ DeferFor(c.elapsed) >= MinDefer
    BY <1>5, Deferral
  <2>3. /\ deferred' \in [Urls -> -1 .. MaxDefer]
        /\ deferred'[u] >= MinDefer
        /\ \A v \in Urls : v # u => deferred'[v] = deferred[v]
    BY <2>1, <2>2, <1>1, <1>3
  <2> HIDE DEF after
  <2>4. \A s \in Callbacks : call'[s] = Spoil(after(s), u)
    BY <2>1
  <2>5. \A s \in Callbacks : /\ Same(after(s), call'[s])
                             /\ call'[s].spoiled =
                                  (after(s).spoiled \/ (u \in healthy /\ after(s).pc # "idle"))
    BY <2>4, <1>4, SpoiltCall
  <2>6. call' \in [Callbacks -> Calls]
    <3>1. \A s \in Callbacks : Spoil(after(s), u) \in Calls
      BY <2>4, <2>5 DEF Same
    <3> QED BY <2>1, <3>1
  <2>7. \A s \in Callbacks : after(s).spoiled \in BOOLEAN
    BY <1>4 DEF Calls
  <2>8. \A s \in Callbacks : after(s).pc = "idle" => call'[s].spoiled = after(s).spoiled
    BY <2>5, <2>7
  <2>9. ASSUME NEW s \in Callbacks, ~call'[s].spoiled
        PROVE  /\ ~after(s).spoiled
               /\ after(s).pc # "idle" => \A v \in healthy : deferred'[v] = deferred[v]
    <3>1. ~after(s).spoiled /\ (after(s).pc # "idle" => u \notin healthy)
      BY <2>5, <2>9
    <3> QED BY <3>1, <2>3, <1>1
  <2>10. \A v \in Urls : \/ deferred'[v] = deferred[v]
                         \/ v = u /\ deferred'[v] >= MinDefer
    BY <2>3
  <2>11. \A s \in Callbacks : Same(after(s), call'[s])
    BY <2>5
  <2> QED BY <1>2, <1>3, <2>3, <2>6, <2>8, <2>9, <2>10, <2>11 DEF after
<1> QED BY <1>6, <1>7

\* A step that changes one call, and not the deferrals.
LEMMA OneCall ==
  ASSUME FallbackTypeOK, NEW t \in Callbacks, NEW c \in Calls,
         call' = [call EXCEPT ![t] = c], UNCHANGED <<nurls, healthy, deferred>>,
         c.pc \in {"look", "perform"} => c.url # 0, c.pc = "look" => c.least # 0
  PROVE  FallbackTypeOK' /\ \A s \in Callbacks : call'[s] = IF s = t THEN c ELSE call[s]
<1>1. Calls' = Calls /\ Urls' = Urls
  BY DEF Calls, Urls
<1>2. \A s \in Callbacks : call'[s] = IF s = t THEN c ELSE call[s]
  BY DEF FallbackTypeOK
<1>3. call' \in [Callbacks -> Calls]
  BY DEF FallbackTypeOK
<1> QED BY <1>1, <1>2, <1>3 DEF FallbackTypeOK

\* The search: what one load of a deferred_until makes of a call.
LEMMA LookEffect ==
  ASSUME Parameters, FallbackTypeOK, NEW t \in Callbacks, Look(t)
  PROVE  LET c == call[t]
         IN  /\ c.pc = "look" /\ c.url \in Urls
             /\ UNCHANGED <<nurls, healthy, deferred>>
             /\ \E d \in Calls :
                  /\ call' = [call EXCEPT ![t] = d]
                  /\ d.good = c.good /\ d.ttl = c.ttl /\ d.left = c.left
                  /\ d.spoiled = c.spoiled /\ d.outcome = c.outcome /\ d.elapsed = c.elapsed
                  /\ d.url # 0
                  /\ \/ /\ nurls = 1 \/ deferred[c.url] < 0
                        /\ d.pc = "perform" /\ d.url = c.url
                     \/ /\ nurls # 1 /\ ~(deferred[c.url] < 0)
                        /\ \/ c.url = nurls /\ d.pc = "perform"
                           \/ /\ c.url # nurls /\ d.pc = "look" /\ d.url = c.url + 1
                              /\ d.least # 0
<1> DEFINE c == call[t]
           dui == deferred[c.url]
           least == IF dui < c.min THEN c.url ELSE c.least
<1>1. /\ c \in Calls /\ nurls \in UrlCounts /\ deferred \in [Urls -> -1 .. MaxDefer]
  BY DEF FallbackTypeOK
<1>2. c.pc = "look" /\ UNCHANGED <<nurls, healthy, deferred>>
  BY DEF Look
<1>3. /\ nurls \in Nat \ {0} /\ MaxDefer \in Nat
      /\ c.url \in 0 .. nurls /\ c.url # 0 /\ c.least \in 0 .. nurls /\ c.least # 0
      /\ c.min \in 0 .. MaxDefer + 1
  BY <1>1, <1>2 DEF Calls, FallbackTypeOK, Parameters
<1>4. c.url \in Urls
  BY <1>3 DEF Urls
<1>5. dui \in -1 .. MaxDefer /\ least \in 0 .. nurls /\ least # 0
  BY <1>1, <1>3, <1>4
<1>6. call' = [call EXCEPT ![t] =
         IF nurls = 1 \/ dui < 0 THEN Performing(c, c.url)
         ELSE IF c.url = nurls THEN Performing(c, least)
         ELSE [c EXCEPT !.url = @ + 1, !.least = least, !.min = Min({dui, @})]]
  BY DEF Look
<1> HIDE DEF least, dui
<1>7. CASE nurls = 1 \/ dui < 0
  <2> DEFINE d == Performing(c, c.url)
  <2>1. call' = [call EXCEPT ![t] = d]
    BY <1>6, <1>7
  <2>2. /\ d \in Calls /\ d.pc = "perform" /\ d.url = c.url
        /\ d.good = c.good /\ d.ttl = c.ttl /\ d.left = c.left
        /\ d.spoiled = c.spoiled /\ d.outcome = c.outcome /\ d.elapsed = c.elapsed
    BY <1>1, <1>3, PerformingCall
  <2> QED BY <1>2, <1>3, <1>4, <1>7, <2>1, <2>2 DEF dui
<1>8. CASE ~(nurls = 1 \/ dui < 0) /\ c.url = nurls
  <2> DEFINE d == Performing(c, least)
  <2>1. call' = [call EXCEPT ![t] = d]
    BY <1>6, <1>8
  <2>2. /\ d \in Calls /\ d.pc = "perform" /\ d.url = least
        /\ d.good = c.good /\ d.ttl = c.ttl /\ d.left = c.left
        /\ d.spoiled = c.spoiled /\ d.outcome = c.outcome /\ d.elapsed = c.elapsed
    BY <1>1, <1>5, PerformingCall
  <2> HIDE DEF d
  <2> QED BY <1>2, <1>4, <1>5, <1>8, <2>1, <2>2 DEF dui
<1>9. CASE ~(nurls = 1 \/ dui < 0) /\ c.url # nurls
  <2> DEFINE d == [c EXCEPT !.url = @ + 1, !.least = least, !.min = Min({dui, @})]
  <2>1. call' = [call EXCEPT ![t] = d]
    BY <1>6, <1>9
  <2>2. Min({dui, c.min}) \in 0 .. MaxDefer + 1
    <3>1. dui \in Int /\ c.min \in Int /\ dui >= 0
      BY <1>3, <1>5, <1>9
    <3>2. Min({dui, c.min}) = IF dui <= c.min THEN dui ELSE c.min
      BY <3>1, OfTwo
    <3> QED BY <3>1, <3>2, <1>3, <1>5
  <2>3. c.url + 1 \in 0 .. nurls /\ c.url + 1 # 0
    BY <1>3, <1>9
  <2>4. /\ d \in Calls /\ d.pc = "look" /\ d.url = c.url + 1 /\ d.least = least
        /\ d.good = c.good /\ d.ttl = c.ttl /\ d.left = c.left
        /\ d.spoiled = c.spoiled /\ d.outcome = c.outcome /\ d.elapsed = c.elapsed
    BY <1>1, <1>2, <1>5, <2>2, <2>3 DEF Calls
  <2> HIDE DEF d
  <2> QED BY <1>2, <1>4, <1>5, <1>9, <2>1, <2>3, <2>4 DEF dui
<1> QED BY <1>7, <1>8, <1>9
\* A new call.
LEMMA RefreshEffect ==
  ASSUME Parameters, FallbackTypeOK, NEW t \in Callbacks, NEW ttl0 \in RetryTimeouts,
         NEW good \in BOOLEAN, Refresh(t, ttl0, good)
  PROVE  /\ UNCHANGED <<nurls, healthy, deferred>>
         /\ \E d \in Calls :
              /\ call' = [call EXCEPT ![t] = d]
              /\ d.pc = "look" /\ d.url = 1 /\ d.least = 1 /\ d.outcome = "none"
              /\ d.ttl = ttl0 /\ d.left = ttl0 /\ d.good = good
              /\ ~d.spoiled => \A u \in healthy : ~(deferred[u] >= 0)
<1> DEFINE i == NoCall("none")
           b == \E u \in healthy : deferred[u] >= 0
           e == [i EXCEPT !.good = good, !.ttl = ttl0, !.left = ttl0, !.delay = Initial,
                          !.spoiled = b]
<1>1. UNCHANGED <<nurls, healthy, deferred>> /\ call' = [call EXCEPT ![t] = Looking(e)]
  BY DEF Refresh
<1>2. i \in Calls /\ i.outcome = "none" /\ nurls \in UrlCounts
  BY IdleCall DEF FallbackTypeOK
<1>3. ttl0 \in Nat /\ ttl0 \in Int /\ Initial \in 0 .. LongestDelay /\ b \in BOOLEAN
  BY Longest DEF Parameters
<1> HIDE DEF i, b
<1>4. e \in Calls /\ e.outcome = "none" /\ e.ttl = ttl0 /\ e.left = ttl0 /\ e.good = good
      /\ e.spoiled = b
  BY <1>2, <1>3 DEF Calls
<1> HIDE DEF e
<1> DEFINE d == Looking(e)
<1>5. /\ d \in Calls /\ d.pc = "look" /\ d.url = 1 /\ d.least = 1 /\ d.outcome = "none"
      /\ d.ttl = ttl0 /\ d.left = ttl0 /\ d.good = good /\ d.spoiled = b
  BY <1>2, <1>4, LookingCall
<1> HIDE DEF d
<1>6. ~d.spoiled => \A u \in healthy : ~(deferred[u] >= 0)
  BY <1>5 DEF b
<1>7. call' = [call EXCEPT ![t] = d]
  BY <1>1 DEF d
<1> QED BY <1>1, <1>5, <1>6, <1>7

\* The end of a sleep.
LEMMA WakeEffect ==
  ASSUME Parameters, FallbackTypeOK, NEW t \in Callbacks, Wake(t)
  PROVE  LET c == call[t]
         IN  /\ c.pc = "sleep" /\ c.sleep = 0 /\ UNCHANGED <<nurls, healthy, deferred>>
             /\ \E d \in Calls :
                  /\ call' = [call EXCEPT ![t] = d]
                  /\ d.pc = "look" /\ d.url = 1 /\ d.least = 1 /\ d.outcome = c.outcome
                  /\ d.ttl = c.ttl /\ d.left = c.left /\ d.good = c.good
                  /\ d.spoiled = c.spoiled
<1>1. call[t] \in Calls /\ nurls \in UrlCounts
  BY DEF FallbackTypeOK
<1>2. /\ call[t].pc = "sleep" /\ call[t].sleep = 0 /\ UNCHANGED <<nurls, healthy, deferred>>
      /\ call' = [call EXCEPT ![t] = Looking(call[t])]
  BY DEF Wake
<1> QED BY <1>1, <1>2, LookingCall

\* What time does to one call.
LEMMA OlderCall ==
  ASSUME Parameters, nurls \in UrlCounts, NEW c \in Calls,
         c.pc = "perform" => c.elapsed < Timeout, c.pc = "sleep" => c.sleep > 0
  PROVE  LET d == Older(c)
         IN  /\ d \in Calls
             /\ d.pc = c.pc /\ d.good = c.good /\ d.ttl = c.ttl /\ d.url = c.url
             /\ d.spoiled = c.spoiled /\ d.outcome = c.outcome /\ d.least = c.least
             /\ c.pc = "perform" => d.elapsed = c.elapsed + 1 /\ d.left = c.left - 1
             /\ c.pc = "sleep" => d.sleep = c.sleep - 1 /\ d.left = c.left - 1
             /\ c.pc \in {"idle", "look"} => d = c
<1> DEFINE d == Older(c)
<1>1. /\ c.left \in Int /\ c.elapsed \in 0 .. Timeout /\ c.sleep \in 0 .. LongestDelay
      /\ Timeout \in Nat /\ LongestDelay \in Nat
      /\ c.pc \in {"idle", "look", "perform", "sleep"}
  BY Longest DEF Calls, Parameters
<1>2. CASE c.pc = "perform"
  <2>1. d = [c EXCEPT !.elapsed = c.elapsed + 1, !.left = c.left - 1]
    BY <1>2 DEF Older, Calls
  <2>2. c.elapsed + 1 \in 0 .. Timeout /\ c.left - 1 \in Int
    BY <1>1, <1>2
  <2> HIDE DEF d
  <2>3. /\ d \in Calls
        /\ d.pc = c.pc /\ d.good = c.good /\ d.ttl = c.ttl /\ d.url = c.url
        /\ d.spoiled = c.spoiled /\ d.outcome = c.outcome /\ d.least = c.least
        /\ d.elapsed = c.elapsed + 1 /\ d.left = c.left - 1
    BY <2>1, <2>2 DEF Calls
  <2> QED BY <1>2, <2>3 DEF d
<1>3. CASE c.pc = "sleep"
  <2>1. d = [c EXCEPT !.sleep = c.sleep - 1, !.left = c.left - 1]
    BY <1>3 DEF Older, Calls
  <2>2. c.sleep - 1 \in 0 .. LongestDelay /\ c.left - 1 \in Int
    BY <1>1, <1>3
  <2> HIDE DEF d
  <2>3. /\ d \in Calls
        /\ d.pc = c.pc /\ d.good = c.good /\ d.ttl = c.ttl /\ d.url = c.url
        /\ d.spoiled = c.spoiled /\ d.outcome = c.outcome /\ d.least = c.least
        /\ d.sleep = c.sleep - 1 /\ d.left = c.left - 1
    BY <2>1, <2>2 DEF Calls
  <2> QED BY <1>3, <2>3 DEF d
<1>4. CASE c.pc \in {"idle", "look"}
  <2>1. d = c
    BY <1>4 DEF Older
  <2> QED BY <1>4, <2>1
<1> QED BY <1>1, <1>2, <1>3, <1>4

\* Time passes for all deferrals and calls at once, while no call is looking.
LEMMA TickEffect ==
  ASSUME Parameters, FallbackTypeOK, TimePasses
  PROVE  /\ nurls' = nurls /\ healthy' = healthy
         /\ deferred' \in [Urls -> -1 .. MaxDefer]
         /\ \A u \in Urls : deferred'[u] = IF deferred[u] >= 0 THEN deferred[u] - 1 ELSE -1
         /\ call' \in [Callbacks -> Calls]
         /\ \A t \in Callbacks :
              /\ call'[t] = Older(call[t]) /\ call[t].pc # "look"
              /\ call[t].pc = "perform" => call[t].elapsed < Timeout
              /\ call[t].pc = "sleep" => call[t].sleep > 0
<1>1. /\ nurls \in UrlCounts /\ deferred \in [Urls -> -1 .. MaxDefer] /\ MaxDefer \in Nat
      /\ call \in [Callbacks -> Calls]
  BY DEF FallbackTypeOK, Parameters
<1>2. /\ nurls' = nurls /\ healthy' = healthy
      /\ deferred' = [u \in Urls |-> Max({deferred[u] - 1, -1})]
      /\ call' = [t \in Callbacks |-> Older(call[t])]
      /\ \A t \in Callbacks : /\ call[t].pc # "look"
                              /\ call[t].pc = "perform" => call[t].elapsed < Timeout
                              /\ call[t].pc = "sleep" => call[t].sleep > 0
  BY DEF TimePasses
<1>3. ASSUME NEW u \in Urls
      PROVE  /\ Max({deferred[u] - 1, -1}) = IF deferred[u] >= 0 THEN deferred[u] - 1 ELSE -1
             /\ Max({deferred[u] - 1, -1}) \in -1 .. MaxDefer
  <2>1. deferred[u] \in -1 .. MaxDefer
    BY <1>1
  <2>2. deferred[u] - 1 \in Int /\ -1 \in Int
    BY <2>1, <1>1
  <2>3. Max({deferred[u] - 1, -1}) = IF deferred[u] - 1 >= -1 THEN deferred[u] - 1 ELSE -1
    BY <2>2, OfTwo
  <2> QED BY <2>1, <2>3, <1>1
<1>4. deferred' \in [Urls -> -1 .. MaxDefer]
  BY <1>2, <1>3
<1>5. \A t \in Callbacks : Older(call[t]) \in Calls
  BY <1>1, <1>2, OlderCall
<1> QED BY <1>2, <1>3, <1>4, <1>5
-----------------------------------------------------------------------------
(* Types, and how long a call may last.                                     *)

\* All is well typed at first.
LEMMA FallbackTypeInit ==
  ASSUME Parameters, FallbackInit
  PROVE  FallbackTypeOK
<1>1. nurls \in UrlCounts /\ healthy \subseteq Urls
  BY DEF FallbackInit
<1>2. -1 \in -1 .. MaxDefer
  BY DEF Parameters
<1>3. deferred \in [Urls -> -1 .. MaxDefer]
  BY <1>2 DEF FallbackInit
<1>4. \A t \in Callbacks : call[t] = NoCall("none") /\ call[t].pc = "idle"
  BY <1>1, IdleCall DEF FallbackInit
<1>5. call \in [Callbacks -> Calls]
  BY <1>1, IdleCall DEF FallbackInit
<1> QED BY <1>1, <1>3, <1>4, <1>5 DEF FallbackTypeOK

\* Every step keeps the types, and every deferral within ten minutes.
LEMMA FallbackTypeStep ==
  ASSUME Parameters, FallbackTypeOK, [FallbackNext]_fallbackVars
  PROVE  FallbackTypeOK'
<1>1. CASE TimePasses
  <2>1. Calls' = Calls /\ Urls' = Urls
    BY <1>1, TickEffect DEF Calls, Urls
  <2>2. \A t \in Callbacks : /\ call'[t].pc = call[t].pc /\ call'[t].url = call[t].url
                             /\ call[t].pc # "look"
    <3> TAKE t \in Callbacks
    <3>1. call[t] \in Calls /\ nurls \in UrlCounts
      BY DEF FallbackTypeOK
    <3> QED BY <3>1, <1>1, TickEffect, OlderCall
  <2> QED BY <1>1, <2>1, <2>2, TickEffect DEF FallbackTypeOK
<1>2. ASSUME NEW t \in Callbacks, NEW ttl0 \in RetryTimeouts, NEW good \in BOOLEAN,
             Refresh(t, ttl0, good)
      PROVE  FallbackTypeOK'
  <2>1. PICK d \in Calls : call' = [call EXCEPT ![t] = d] /\ d.url = 1 /\ d.least = 1
    BY <1>2, RefreshEffect
  <2>2. d.url # 0 /\ d.least # 0 /\ UNCHANGED <<nurls, healthy, deferred>>
    BY <2>1, <1>2, RefreshEffect
  <2> QED BY <2>1, <2>2, OneCall
<1>3. ASSUME NEW t \in Callbacks, Look(t) PROVE FallbackTypeOK'
  <2>1. PICK d \in Calls : /\ call' = [call EXCEPT ![t] = d] /\ d.url # 0
                           /\ d.pc = "look" => d.least # 0
    BY <1>3, LookEffect
  <2> QED BY <2>1, <1>3, LookEffect, OneCall
<1>4. ASSUME NEW t \in Callbacks, Succeed(t) PROVE FallbackTypeOK'
  <2>1. NoCall("reply") \in Calls /\ NoCall("reply").pc = "idle"
    BY IdleCall DEF FallbackTypeOK
  <2> QED BY <2>1, <1>4, OneCall DEF Succeed
<1>5. ASSUME NEW t \in Callbacks, Wake(t) PROVE FallbackTypeOK'
  <2>1. PICK d \in Calls : call' = [call EXCEPT ![t] = d] /\ d.url = 1 /\ d.least = 1
    BY <1>5, WakeEffect
  <2>2. d.url # 0 /\ d.least # 0 /\ UNCHANGED <<nurls, healthy, deferred>>
    BY <2>1, <1>5, WakeEffect
  <2> QED BY <2>1, <2>2, OneCall
<1>6. ASSUME NEW t \in Callbacks, NEW retryable \in BOOLEAN, Fail(t, retryable) PROVE FallbackTypeOK'
  <2>1. Calls' = Calls /\ Urls' = Urls
    BY <1>6, FailEffect DEF Calls, Urls
  <2>2. AfterFailure(call[t], retryable).pc \in {"idle", "sleep"}
    BY FailedCall DEF FallbackTypeOK
  <2>3. \A s \in Callbacks : \/ call'[s].pc \in {"idle", "sleep"}
                             \/ /\ call'[s].pc = call[s].pc /\ call'[s].url = call[s].url
                                /\ call'[s].least = call[s].least
    BY <1>6, <2>2, FailEffect DEF Same
  <2> QED BY <1>6, <2>1, <2>3, FailEffect DEF FallbackTypeOK
<1>7. CASE UNCHANGED fallbackVars
  BY <1>7 DEF fallbackVars, FallbackTypeOK, Calls, Urls
<1> QED BY <1>1, <1>2, <1>3, <1>4, <1>5, <1>6, <1>7 DEF FallbackNext

\* The calls, the search and the deferrals keep their types: a search is always at a baseurl
\* that exists, and none is deferred for more than ten minutes.
THEOREM FallbackTypeCorrect == FallbackSpec => []FallbackTypeOK
<1>1. FallbackInit => FallbackTypeOK
  BY ParametersAssumption, FallbackTypeInit
<1>2. FallbackTypeOK /\ [FallbackNext]_fallbackVars => FallbackTypeOK'
  BY ParametersAssumption, FallbackTypeStep
<1> QED BY <1>1, <1>2, PTL DEF FallbackSpec

\* What is left of the time when a call looks, performs or sleeps: delay_manager lets it
\* sleep only while there is some left.
Paced(c) ==
  /\ c.pc = "look" => c.left >= -LongestDelay
  /\ c.pc = "perform" => c.left >= -(LongestDelay + c.elapsed)
  /\ c.pc = "sleep" => c.left >= c.sleep - LongestDelay

PacedInv == \A t \in Callbacks : Paced(call[t])

\* PacedInv is strong enough.
LEMMA PacedImplies ==
  ASSUME Parameters, FallbackTypeOK, PacedInv
  PROVE  BoundedWait
<1> SUFFICES ASSUME NEW t \in Callbacks, call[t].pc # "idle"
             PROVE  call[t].left >= -(LongestDelay + Timeout)
  BY DEF BoundedWait
<1>1. /\ call[t].pc \in {"look", "perform", "sleep"} /\ call[t].left \in Int
      /\ call[t].elapsed \in 0 .. Timeout /\ call[t].sleep \in 0 .. LongestDelay
      /\ Timeout \in Nat /\ LongestDelay \in Nat
  BY Longest DEF FallbackTypeOK, Calls, Parameters
<1>2. Paced(call[t])
  BY DEF PacedInv
<1> QED BY <1>1, <1>2 DEF Paced

\* Every step keeps PacedInv.
LEMMA PacedStep ==
  ASSUME Parameters, FallbackTypeOK, PacedInv, [FallbackNext]_fallbackVars
  PROVE  PacedInv'
<1>0. /\ nurls \in UrlCounts /\ LongestDelay \in Nat /\ Timeout \in Nat
      /\ \A t \in Callbacks : /\ call[t] \in Calls /\ Paced(call[t])
                              /\ call[t].left \in Int /\ call[t].elapsed \in 0 .. Timeout
                              /\ call[t].sleep \in 0 .. LongestDelay
                              /\ call[t].delay \in 0 .. LongestDelay
  BY Longest DEF FallbackTypeOK, PacedInv, Calls, Parameters
<1>1. ASSUME NEW t \in Callbacks, NEW d, Paced(d), call' = [call EXCEPT ![t] = d] PROVE PacedInv'
  <2>1. \A s \in Callbacks : call'[s] = IF s = t THEN d ELSE call[s]
    BY <1>1 DEF FallbackTypeOK
  <2> QED BY <2>1, <1>1, <1>0 DEF PacedInv, Paced
<1>2. CASE TimePasses
  <2> SUFFICES ASSUME NEW t \in Callbacks PROVE Paced(call'[t])
    BY DEF PacedInv, Paced
  <2>1. /\ call[t].pc # "look"
        /\ call[t].pc = "perform" => call[t].elapsed < Timeout
        /\ call[t].pc = "sleep" => call[t].sleep > 0
        /\ call'[t] = Older(call[t])
    BY <1>2, TickEffect
  <2>2. LET c == call[t]  d == call'[t]
        IN  /\ d.pc = c.pc
            /\ c.pc = "perform" => d.elapsed = c.elapsed + 1 /\ d.left = c.left - 1
            /\ c.pc = "sleep" => d.sleep = c.sleep - 1 /\ d.left = c.left - 1
    BY <2>1, <1>0, OlderCall
  <2> QED BY <2>1, <2>2, <1>0 DEF Paced
<1>3. ASSUME NEW t \in Callbacks, NEW ttl0 \in RetryTimeouts, NEW good \in BOOLEAN,
             Refresh(t, ttl0, good)
      PROVE  PacedInv'
  <2>1. PICK d \in Calls : call' = [call EXCEPT ![t] = d] /\ d.pc = "look" /\ d.left = ttl0
    BY <1>3, RefreshEffect
  <2>2. ttl0 \in Nat
    BY DEF Parameters
  <2>3. Paced(d)
    BY <2>1, <2>2, <1>0 DEF Paced
  <2> QED BY <2>1, <2>3, <1>1
<1>4. ASSUME NEW t \in Callbacks, Look(t) PROVE PacedInv'
  <2>1. PICK d \in Calls : /\ call' = [call EXCEPT ![t] = d]
                           /\ d.left = call[t].left /\ d.elapsed = call[t].elapsed
                           /\ d.pc \in {"look", "perform"}
    BY <1>4, LookEffect
  <2>2. call[t].pc = "look"
    BY <1>4, LookEffect
  <2>3. Paced(d)
    BY <2>1, <2>2, <1>0 DEF Paced
  <2> QED BY <2>1, <2>3, <1>1
<1>5. ASSUME NEW t \in Callbacks, Succeed(t) PROVE PacedInv'
  <2>1. Paced(NoCall("reply"))
    BY <1>0, IdleCall DEF Paced
  <2> QED BY <2>1, <1>1, <1>5 DEF Succeed
<1>6. ASSUME NEW t \in Callbacks, Wake(t) PROVE PacedInv'
  <2>1. PICK d \in Calls : /\ call' = [call EXCEPT ![t] = d]
                           /\ d.pc = "look" /\ d.left = call[t].left
    BY <1>6, WakeEffect
  <2>2. call[t].pc = "sleep" /\ call[t].sleep = 0
    BY <1>6, WakeEffect
  <2>3. Paced(d)
    BY <2>1, <2>2, <1>0 DEF Paced
  <2> QED BY <2>1, <2>3, <1>1
<1>7. ASSUME NEW t \in Callbacks, NEW retryable \in BOOLEAN, Fail(t, retryable) PROVE PacedInv'
  <2> DEFINE n == AfterFailure(call[t], retryable)
  <2>1. \/ n.pc = "idle"
        \/ /\ ~TimeExceeded(call[t]) /\ n.pc = "sleep"
           /\ n.sleep = call[t].delay /\ n.left = call[t].left
    BY <1>0, FailedCall
  <2>2. Paced(n)
    BY <2>1, <1>0 DEF Paced, TimeExceeded
  <2>3. \A s \in Callbacks : Same(IF s = t THEN n ELSE call[s], call'[s])
    BY <1>7, FailEffect
  <2> HIDE DEF n
  <2> QED BY <2>2, <2>3, <1>0 DEF Same, Paced, PacedInv
<1>8. CASE UNCHANGED fallbackVars
  BY <1>8 DEF fallbackVars, PacedInv, Paced
<1> QED BY <1>2, <1>3, <1>4, <1>5, <1>6, <1>7, <1>8 DEF FallbackNext

\* A callback never hangs for longer than its retry_timeout, one delay and one transfer,
\* whatever its baseurls do and however many there are.
THEOREM WaitsAreBounded == FallbackSpec => []BoundedWait
<1>1. FallbackInit => FallbackTypeOK /\ PacedInv
  BY ParametersAssumption, FallbackTypeInit, IdleCall DEF FallbackInit, PacedInv, Paced
<1>2. FallbackTypeOK /\ PacedInv /\ [FallbackNext]_fallbackVars => (FallbackTypeOK /\ PacedInv)'
  BY ParametersAssumption, FallbackTypeStep, PacedStep
<1>3. FallbackTypeOK /\ PacedInv => BoundedWait
  BY ParametersAssumption, PacedImplies
<1> QED BY <1>1, <1>2, <1>3, PTL DEF FallbackSpec
-----------------------------------------------------------------------------
(* Fallback.  If one of the first two baseurls has a healthy server, a call *)
(* that nobody spoils finds it with its second transfer at the latest: the  *)
(* failure of the first one defers it for longer than the call will sleep.  *)

NearHealthy == 1 \in healthy \/ 2 \in healthy
FirstHealthy == IF 1 \in healthy THEN 1 ELSE 2

\* A call that NeverAbandoned speaks of.
Patient(c) == c.good /\ ~c.spoiled /\ EnoughTime(c.ttl)

\* A search that starts goes no further than to the healthy baseurl.  What comes before it
\* is tried once, and then deferred until the next search.
OnTheWay(c) ==
  /\ c.pc \in {"look", "perform"} => c.url <= FirstHealthy
  /\ c.pc = "look" /\ c.url < FirstHealthy => c.left >= Timeout \/ deferred[1] >= 0
  /\ c.pc = "perform" /\ c.url < FirstHealthy => c.left >= Timeout - c.elapsed
  /\ c.pc = "sleep" => FirstHealthy = 2 /\ deferred[1] >= c.sleep

\* What holds of every call: no healthy baseurl is deferred while it is not spoiled, a
\* patient one is on the way, and it has never timed out.
Sound(c) ==
  /\ c.pc # "idle" => c.outcome = "none"
  /\ c.pc # "idle" /\ ~c.spoiled => \A u \in healthy : deferred[u] < 0
  /\ NearHealthy /\ Patient(c) => /\ c.outcome # "timed_out"
                                  /\ c.pc # "idle" => OnTheWay(c)

SoundInv == \A t \in Callbacks : Sound(call[t])

\* Where the first healthy baseurl is, and what time a patient call has if it is the second.
LEMMA Nearness ==
  ASSUME Parameters, FallbackTypeOK, NearHealthy
  PROVE  /\ FirstHealthy \in healthy /\ FirstHealthy \in {1, 2}
         /\ FirstHealthy = 2 =>
              /\ nurls # 1
              /\ \A c \in Calls : Patient(c) => c.ttl >= Timeout + LongestDelay /\ c.ttl > 0
<1>1. FirstHealthy \in healthy /\ FirstHealthy \in {1, 2}
  BY DEF NearHealthy, FirstHealthy
<1>2. nurls \in Nat /\ Timeout \in Nat \ {0} /\ LongestDelay \in Nat
  BY Longest DEF FallbackTypeOK, Parameters
<1>3. ASSUME FirstHealthy = 2 PROVE nurls >= 2
  BY <1>1, <1>2, <1>3 DEF FallbackTypeOK, Urls
<1>4. ASSUME FirstHealthy = 2, NEW c \in Calls, Patient(c)
      PROVE  c.ttl >= Timeout + LongestDelay /\ c.ttl > 0
  <2> DEFINE k == nurls - 2
             x == Timeout + LongestDelay
  <2>1. k \in Nat /\ x \in Nat /\ x >= Timeout /\ nurls - 1 = k + 1
    BY <1>2, <1>3, <1>4
  <2>2. c.ttl >= (nurls - 1) * x /\ c.ttl \in Nat
    BY <1>4 DEF Patient, EnoughTime, Calls
  <2> HIDE DEF k, x
  <2>3. (k + 1) * x = k * x + x /\ k * x >= 0 /\ k * x \in Nat
    BY <2>1
  <2>4. c.ttl >= k * x + x
    BY <2>1, <2>2, <2>3
  <2>5. c.ttl >= x
    BY <2>1, <2>2, <2>3, <2>4
  <2> QED BY <2>1, <2>2, <2>5, <1>2 DEF x
<1> QED BY <1>1, <1>2, <1>3, <1>4

\* SoundInv is strong enough.
LEMMA SoundImplies ==
  ASSUME SoundInv, NearHealthy
  PROVE  NeverAbandoned
BY DEF SoundInv, Sound, Patient, NeverAbandoned

\* With at most two baseurls, a healthy one is among the first two.
LEMMA AmongTwo ==
  ASSUME FallbackTypeOK, UrlCounts \subseteq {1, 2}, healthy # {}
  PROVE  NearHealthy
<1>1. nurls \in {1, 2} /\ healthy \subseteq 1 .. nurls
  BY DEF FallbackTypeOK, Urls
<1>2. \A u \in 1 .. nurls : u = 1 \/ u = 2
  BY <1>1
<1> QED BY <1>1, <1>2 DEF NearHealthy

\* A step that changes one call, and not the deferrals.
LEMMA OneSound ==
  ASSUME FallbackTypeOK, SoundInv, NEW t \in Callbacks, NEW d, Sound(d),
         call' = [call EXCEPT ![t] = d], UNCHANGED <<nurls, healthy, deferred>>
  PROVE  SoundInv'
<1>1. \A s \in Callbacks : call'[s] = IF s = t THEN d ELSE call[s]
  BY DEF FallbackTypeOK
<1>2. \A s \in Callbacks : Sound(call'[s])
  BY <1>1 DEF SoundInv
<1> QED BY <1>2 DEF SoundInv, Sound, NearHealthy, Patient, EnoughTime, OnTheWay, FirstHealthy,
                    LongestDelay

\* A search that sees the deferrals as they are takes the call to the healthy baseurl.
LEMMA LookSound ==
  ASSUME Parameters, FallbackTypeOK, SoundInv, NEW t \in Callbacks, Look(t)
  PROVE  SoundInv'
<1> DEFINE c == call[t]
<1>1. /\ c \in Calls /\ Sound(c) /\ c.pc = "look" /\ c.url \in Urls
      /\ UNCHANGED <<nurls, healthy, deferred>>
      /\ deferred \in [Urls -> -1 .. MaxDefer] /\ MaxDefer \in Nat /\ nurls \in Nat
  BY LookEffect DEF FallbackTypeOK, SoundInv, Parameters
<1>2. PICK d \in Calls :
        /\ call' = [call EXCEPT ![t] = d]
        /\ d.good = c.good /\ d.ttl = c.ttl /\ d.left = c.left
        /\ d.spoiled = c.spoiled /\ d.outcome = c.outcome /\ d.elapsed = c.elapsed
        /\ \/ /\ nurls = 1 \/ deferred[c.url] < 0
              /\ d.pc = "perform" /\ d.url = c.url
           \/ /\ nurls # 1 /\ ~(deferred[c.url] < 0)
              /\ \/ c.url = nurls /\ d.pc = "perform"
                 \/ c.url # nurls /\ d.pc = "look" /\ d.url = c.url + 1
  BY LookEffect
<1>3. ASSUME NearHealthy, Patient(d) PROVE d.outcome # "timed_out" /\ OnTheWay(d)
  <2>1. Patient(c)
    BY <1>2, <1>3 DEF Patient
  <2>2. /\ c.outcome # "timed_out" /\ OnTheWay(c)
        /\ \A u \in healthy : deferred[u] < 0
    BY <1>1, <1>3, <2>1 DEF Sound, Patient
  <2>3. FirstHealthy \in healthy /\ FirstHealthy \in {1, 2} /\ (FirstHealthy = 2 => nurls # 1)
    BY <1>3, Nearness
  <2>4. c.url <= FirstHealthy /\ c.url \in Nat \ {0} /\ c.url <= nurls
    BY <1>1, <2>2 DEF OnTheWay, Urls
  <2>5. /\ c.left \in Int /\ c.elapsed \in Nat /\ Timeout \in Nat
        /\ deferred[1] \in Int
    <3>1. 1 \in Urls
      BY <1>1, <2>4 DEF Urls
    <3> QED BY <1>1, <3>1 DEF Calls, Parameters
  <2>6. CASE (nurls = 1 \/ deferred[c.url] < 0) /\ d.pc = "perform" /\ d.url = c.url
    <3>1. ASSUME c.url < FirstHealthy PROVE c.left >= Timeout
      <4>1. c.url = 1 /\ FirstHealthy = 2
        BY <3>1, <2>3, <2>4
      <4>2. deferred[1] < 0
        BY <4>1, <2>3, <2>6
      <4> QED BY <3>1, <4>2, <2>2, <2>5, <1>1 DEF OnTheWay
    <3> QED BY <3>1, <2>2, <2>4, <2>5, <2>6, <1>2 DEF OnTheWay
  <2>7. CASE nurls # 1 /\ ~(deferred[c.url] < 0)
    <3>1. c.url # FirstHealthy
      BY <2>2, <2>3, <2>7
    <3>2. c.url = 1 /\ FirstHealthy = 2
      BY <3>1, <2>3, <2>4
    <3>3. d.pc = "look" /\ d.url = 2
      BY <3>2, <2>7, <1>2
    <3> QED BY <3>2, <3>3, <2>2, <1>2 DEF OnTheWay
  <2> QED BY <2>6, <2>7, <1>2
<1>4. Sound(d)
  BY <1>1, <1>2, <1>3 DEF Sound
<1> QED BY <1>1, <1>2, <1>4, OneSound

\* A failure: a patient call has not exceeded its time when the first baseurl fails, and no
\* other fails for it.
LEMMA FailSound ==
  ASSUME Parameters, ShortDelays, FallbackTypeOK, SoundInv,
         NEW t \in Callbacks, NEW retryable \in BOOLEAN, Fail(t, retryable)
  PROVE  SoundInv'
<1> DEFINE c == call[t]
           n == AfterFailure(c, retryable)
           after(s) == IF s = t THEN n ELSE call[s]
<1>1. /\ nurls' = nurls /\ healthy' = healthy
      /\ c.pc = "perform" /\ c.url \in Urls /\ ~(c.good /\ c.url \in healthy)
      /\ \A v \in Urls : \/ deferred'[v] = deferred[v]
                         \/ v = c.url /\ deferred'[v] >= MinDefer
      /\ nurls # 1 => deferred'[c.url] >= MinDefer
      /\ \A s \in Callbacks :
           /\ Same(after(s), call'[s])
           /\ after(s).pc = "idle" => call'[s].spoiled = after(s).spoiled
           /\ ~call'[s].spoiled =>
                /\ ~after(s).spoiled
                /\ after(s).pc # "idle" => \A v \in healthy : deferred'[v] = deferred[v]
  BY FailEffect
<1>2. /\ \A s \in Callbacks : call[s] \in Calls /\ Sound(call[s])
      /\ nurls \in UrlCounts /\ nurls \in Nat \ {0} /\ healthy \subseteq Urls
      /\ deferred \in [Urls -> -1 .. MaxDefer] /\ MaxDefer \in Nat
      /\ Timeout \in Nat /\ LongestDelay \in Nat /\ LongestDelay < MinDefer /\ MinDefer \in Nat
  BY Longest DEF FallbackTypeOK, SoundInv, Parameters
<1>3. n \in Calls /\ (\/ n.pc = "idle" /\ n.outcome = "hopeless"
                      \/ /\ TimeExceeded(c) /\ n.pc = "idle" /\ n.outcome = "timed_out"
                         /\ n.good = c.good /\ n.ttl = c.ttl /\ n.spoiled = c.spoiled
                      \/ /\ ~TimeExceeded(c) /\ n.pc = "sleep" /\ n.outcome = c.outcome
                         /\ n.sleep = c.delay /\ n.left = c.left
                         /\ n.good = c.good /\ n.ttl = c.ttl /\ n.spoiled = c.spoiled)
  BY <1>2, FailedCall
<1>4. 1 \in Urls /\ deferred[1] \in Int
  BY <1>2 DEF Urls
\* What a patient call has found, if it is this one that fails.
<1>5. ASSUME NearHealthy, Patient(c)
      PROVE  ~TimeExceeded(c) /\ c.url = 1 /\ FirstHealthy = 2 /\ nurls # 1
  <2>1. OnTheWay(c)
    BY <1>1, <1>2, <1>5 DEF Sound
  <2>2. FirstHealthy \in healthy /\ FirstHealthy \in {1, 2}
    BY <1>5, Nearness
  <2>3. c.url # FirstHealthy
    BY <1>1, <1>5, <2>2 DEF Patient
  <2>4. c.url = 1 /\ FirstHealthy = 2
    BY <1>1, <1>2, <2>1, <2>2, <2>3 DEF OnTheWay, Urls
  <2>5. nurls # 1 /\ c.ttl > 0
    BY <1>2, <1>5, <2>4, Nearness
  <2>6. c.left >= Timeout - c.elapsed /\ c.left \in Int /\ c.elapsed \in 0 .. Timeout
    BY <1>1, <1>2, <2>1, <2>4 DEF OnTheWay, Calls
  <2>7. c.left >= 0
    BY <2>6, <1>2
  <2>8. c.ttl \in Nat
    BY <1>2 DEF Calls
  <2>9. ~TimeExceeded(c)
    BY <2>5, <2>6, <2>7, <2>8 DEF TimeExceeded
  <2> QED BY <2>4, <2>5, <2>9
<1> HIDE DEF n
<1>6. ASSUME NEW s \in Callbacks PROVE Sound(call[s])'
  <2> DEFINE a == after(s)
             d == call'[s]
  <2>1. /\ Same(a, d) /\ a \in Calls
        /\ a.pc = "idle" => d.spoiled = a.spoiled
        /\ ~d.spoiled => /\ ~a.spoiled
                         /\ a.pc # "idle" => \A v \in healthy : deferred'[v] = deferred[v]
    BY <1>1, <1>2, <1>3
  <2>2. /\ a.pc # "idle" => a.outcome = "none"
        /\ a.pc # "idle" /\ ~a.spoiled => \A u \in healthy : deferred[u] < 0
        /\ NearHealthy /\ Patient(a) => a.outcome # "timed_out"
    <3>1. CASE s = t
      <4>3. Sound(c) /\ c.pc # "idle" /\ c.outcome = "none"
        BY <1>1, <1>2 DEF Sound
      <4>1. Patient(n) /\ n.outcome = "timed_out" => Patient(c) /\ TimeExceeded(c)
        BY <1>3, <4>3 DEF Patient
      <4>2. n.pc # "idle" => n.outcome = c.outcome /\ n.spoiled = c.spoiled
        BY <1>3
      <4> QED BY <3>1, <4>1, <4>2, <4>3, <1>5 DEF Sound
    <3>2. CASE s # t
      BY <3>2, <1>2 DEF Sound
    <3> QED BY <3>1, <3>2
  <2>3. ASSUME NearHealthy, Patient(a), a.pc # "idle"
        PROVE  /\ a.pc \in {"look", "perform"} => a.url <= FirstHealthy
               /\ a.pc = "look" /\ a.url < FirstHealthy => a.left >= Timeout \/ deferred'[1] >= 0
               /\ a.pc = "perform" /\ a.url < FirstHealthy => a.left >= Timeout - a.elapsed
               /\ a.pc = "sleep" => FirstHealthy = 2 /\ deferred'[1] >= a.sleep
    <3>1. CASE s = t
      <4>1. /\ n.pc = "sleep" /\ n.good = c.good /\ n.ttl = c.ttl /\ n.spoiled = c.spoiled
            /\ n.sleep = c.delay
        BY <3>1, <2>3, <1>3
      <4>2. Patient(c)
        BY <4>1, <3>1, <2>3 DEF Patient
      <4>3. c.url = 1 /\ FirstHealthy = 2 /\ deferred'[1] >= MinDefer
        BY <4>2, <2>3, <1>5, <1>1
      <4>4. c.delay \in 0 .. LongestDelay
        BY <1>2 DEF Calls
      <4>5. deferred'[1] \in Int
        BY FailEffect, <1>4, <1>2
      <4>6. deferred'[1] >= n.sleep
        BY <4>1, <4>3, <4>4, <4>5, <1>2
      <4> QED BY <4>1, <4>3, <4>6, <3>1
    <3>2. CASE s # t
      <4>1. a = call[s] /\ OnTheWay(a)
        BY <3>2, <2>3, <1>2 DEF Sound
      <4>2. deferred'[1] = deferred[1] \/ deferred'[1] >= MinDefer
        BY <1>1, <1>4
      <4>3. a.sleep \in 0 .. LongestDelay
        BY <2>1 DEF Calls
      <4>4. deferred'[1] \in Int
        BY FailEffect, <1>4, <1>2
      <4>5. \/ deferred'[1] = deferred[1]
            \/ deferred'[1] >= 0 /\ deferred'[1] >= a.sleep
        BY <4>2, <4>3, <4>4, <1>2
      <4> QED BY <4>1, <4>5 DEF OnTheWay
    <3> QED BY <3>1, <3>2
  <2> HIDE DEF a
  <2>4. /\ d.pc = a.pc /\ d.good = a.good /\ d.ttl = a.ttl /\ d.left = a.left
        /\ d.sleep = a.sleep /\ d.url = a.url /\ d.elapsed = a.elapsed /\ d.outcome = a.outcome
        /\ ~d.spoiled => ~a.spoiled
    BY <2>1 DEF Same
  <2>5. NearHealthy' = NearHealthy /\ FirstHealthy' = FirstHealthy
    BY <1>1 DEF NearHealthy, FirstHealthy
  <2>6. Patient(call[s])' => Patient(a)
    BY <2>4, <1>1 DEF Patient, EnoughTime, LongestDelay
  <2>7. NearHealthy /\ Patient(a) /\ a.pc # "idle" => OnTheWay(call[s])'
    BY <2>3, <2>4, <2>5 DEF OnTheWay
  <2>8. d.pc # "idle" /\ ~d.spoiled => \A u \in healthy' : deferred'[u] < 0
    BY <2>1, <2>2, <2>4, <1>1
  <2> QED BY <2>2, <2>4, <2>5, <2>6, <2>7, <2>8 DEF Sound
<1> QED BY <1>6 DEF SoundInv
\* Time: a deferral and a sleep grow shorter together.
LEMMA TickSound ==
  ASSUME Parameters, FallbackTypeOK, SoundInv, TimePasses
  PROVE  SoundInv'
<1>1. /\ nurls' = nurls /\ healthy' = healthy
      /\ \A u \in Urls : deferred'[u] = IF deferred[u] >= 0 THEN deferred[u] - 1 ELSE -1
      /\ \A t \in Callbacks : /\ call'[t] = Older(call[t]) /\ call[t].pc # "look"
                              /\ call[t].pc = "perform" => call[t].elapsed < Timeout
                              /\ call[t].pc = "sleep" => call[t].sleep > 0
  BY TickEffect
<1>2. /\ \A s \in Callbacks : call[s] \in Calls /\ Sound(call[s])
      /\ nurls \in UrlCounts /\ nurls \in Nat \ {0} /\ healthy \subseteq Urls
      /\ deferred \in [Urls -> -1 .. MaxDefer] /\ MaxDefer \in Nat
      /\ Timeout \in Nat /\ LongestDelay \in Nat
  BY Longest DEF FallbackTypeOK, SoundInv, Parameters
<1>3. 1 \in Urls /\ deferred[1] \in Int
  BY <1>2 DEF Urls
<1>4. NearHealthy' = NearHealthy /\ FirstHealthy' = FirstHealthy
  BY <1>1 DEF NearHealthy, FirstHealthy
<1>5. ASSUME NEW t \in Callbacks PROVE Sound(call[t])'
  <2> DEFINE c == call[t]
             d == call'[t]
  <2>1. /\ d.pc = c.pc /\ d.good = c.good /\ d.ttl = c.ttl /\ d.url = c.url
        /\ d.spoiled = c.spoiled /\ d.outcome = c.outcome
        /\ c.pc = "perform" => d.elapsed = c.elapsed + 1 /\ d.left = c.left - 1
        /\ c.pc = "sleep" => d.sleep = c.sleep - 1 /\ c.sleep > 0
        /\ c.pc # "look" /\ Sound(c) /\ c \in Calls
    BY <1>1, <1>2, OlderCall
  <2>2. c.elapsed \in Nat /\ c.left \in Int /\ c.sleep \in Nat
    BY <2>1, <1>2 DEF Calls
  <2>3. \A u \in healthy : deferred[u] < 0 => deferred'[u] < 0
    <3> TAKE u \in healthy
    <3>1. deferred[u] \in Int /\ u \in Urls
      BY <1>2
    <3> QED BY <3>1, <1>1
  <2>4. Patient(call[t])' => Patient(c)
    BY <2>1, <1>1 DEF Patient, EnoughTime, LongestDelay
  <2>5. ASSUME NearHealthy, Patient(c), c.pc # "idle" PROVE OnTheWay(call[t])'
    <3>1. OnTheWay(c)
      BY <2>1, <2>5 DEF Sound
    <3>2. c.pc = "sleep" => deferred'[1] >= d.sleep
      <4>1. c.pc = "sleep" => deferred[1] >= c.sleep /\ c.sleep > 0 /\ d.sleep = c.sleep - 1
        BY <3>1, <2>1 DEF OnTheWay
      <4>2. deferred'[1] = IF deferred[1] >= 0 THEN deferred[1] - 1 ELSE -1
        BY <1>1, <1>3
      <4> QED BY <4>1, <4>2, <1>3, <2>2
    <3>3. c.pc = "perform" /\ c.url < FirstHealthy => d.left >= Timeout - d.elapsed
      <4>1. c.pc = "perform" /\ c.url < FirstHealthy => c.left >= Timeout - c.elapsed
        BY <3>1 DEF OnTheWay
      <4> QED BY <4>1, <2>1, <2>2, <1>2
    <3> QED BY <3>1, <3>2, <3>3, <2>1, <1>4 DEF OnTheWay
  <2>6. d.pc # "idle" => d.outcome = "none"
    BY <2>1 DEF Sound
  <2>7. d.pc # "idle" /\ ~d.spoiled => \A u \in healthy' : deferred'[u] < 0
    BY <2>1, <2>3, <1>1 DEF Sound
  <2>8. NearHealthy /\ Patient(c) => d.outcome # "timed_out"
    BY <2>1 DEF Sound
  <2> QED BY <2>1, <2>4, <2>5, <2>6, <2>7, <2>8, <1>4 DEF Sound
<1> QED BY <1>5 DEF SoundInv

\* Every step keeps SoundInv.
LEMMA SoundStep ==
  ASSUME Parameters, ShortDelays, FallbackTypeOK, SoundInv, [FallbackNext]_fallbackVars
  PROVE  SoundInv'
<1>0. /\ \A s \in Callbacks : call[s] \in Calls /\ Sound(call[s])
      /\ nurls \in UrlCounts /\ nurls \in Nat \ {0} /\ healthy \subseteq Urls
      /\ deferred \in [Urls -> -1 .. MaxDefer] /\ MaxDefer \in Nat
      /\ Timeout \in Nat /\ LongestDelay \in Nat
  BY Longest DEF FallbackTypeOK, SoundInv, Parameters
<1>1. \A u \in healthy : deferred[u] \in Int
  BY <1>0
<1>2. ASSUME NEW t \in Callbacks, NEW ttl0 \in RetryTimeouts, NEW good \in BOOLEAN,
             Refresh(t, ttl0, good)
      PROVE  SoundInv'
  <2>1. PICK d \in Calls :
          /\ call' = [call EXCEPT ![t] = d]
          /\ d.pc = "look" /\ d.url = 1 /\ d.outcome = "none"
          /\ d.ttl = ttl0 /\ d.left = ttl0
          /\ ~d.spoiled => \A u \in healthy : ~(deferred[u] >= 0)
    BY <1>2, RefreshEffect
  <2>2. ~d.spoiled => \A u \in healthy : deferred[u] < 0
    BY <2>1, <1>1
  <2>3. ASSUME NearHealthy, Patient(d) PROVE OnTheWay(d)
    <3>1. /\ FirstHealthy \in {1, 2}
          /\ FirstHealthy = 2 => d.ttl >= Timeout + LongestDelay
      BY <2>3, Nearness
    <3>2. FirstHealthy = 2 => d.left >= Timeout
      BY <3>1, <2>1, <1>0 DEF Calls
    <3> QED BY <3>1, <3>2, <2>1 DEF OnTheWay
  <2>4. Sound(d)
    BY <2>1, <2>2, <2>3 DEF Sound
  <2>5. UNCHANGED <<nurls, healthy, deferred>>
    BY <1>2, RefreshEffect
  <2> QED BY <2>1, <2>4, <2>5, OneSound
<1>3. ASSUME NEW t \in Callbacks, Succeed(t) PROVE SoundInv'
  <2>1. Sound(NoCall("reply"))
    BY <1>0, IdleCall DEF Sound
  <2> QED BY <2>1, <1>3, OneSound DEF Succeed
<1>4. ASSUME NEW t \in Callbacks, Wake(t) PROVE SoundInv'
  <2> DEFINE c == call[t]
  <2>1. c.pc = "sleep" /\ c.sleep = 0 /\ UNCHANGED <<nurls, healthy, deferred>>
    BY <1>4, WakeEffect
  <2>2. PICK d \in Calls :
          /\ call' = [call EXCEPT ![t] = d]
          /\ d.pc = "look" /\ d.url = 1 /\ d.outcome = c.outcome
          /\ d.ttl = c.ttl /\ d.left = c.left /\ d.good = c.good
          /\ d.spoiled = c.spoiled
    BY <1>4, WakeEffect
  <2>3. ASSUME NearHealthy, Patient(d) PROVE OnTheWay(d) /\ d.outcome # "timed_out"
    <3>1. Patient(c) /\ Sound(c)
      BY <2>2, <2>3, <1>0 DEF Patient
    <3>2. FirstHealthy = 2 /\ deferred[1] >= 0
      BY <3>1, <2>1, <2>3 DEF Sound, OnTheWay
    <3> QED BY <3>1, <3>2, <2>1, <2>2, <2>3 DEF OnTheWay, Sound
  <2>4. Sound(d)
    BY <2>1, <2>2, <2>3, <1>0 DEF Sound
  <2> QED BY <2>1, <2>2, <2>4, OneSound
<1>5. CASE UNCHANGED fallbackVars
  BY <1>5 DEF fallbackVars, SoundInv, Sound, NearHealthy, Patient, EnoughTime, OnTheWay, FirstHealthy,
              LongestDelay
<1> QED BY <1>2, <1>3, <1>4, <1>5, TickSound, LookSound, FailSound DEF FallbackNext

\* Any number of baseurls and threads: a good request is never given up for its time while
\* the first or the second baseurl has a healthy server, unless another thread's error has
\* deferred a healthy one.  The retry comes before the first one's deferral is over.
THEOREM FallbackFinds == FallbackSpec => [](NearHealthy => NeverAbandoned)
<1>1. FallbackInit => FallbackTypeOK /\ SoundInv
  BY ParametersAssumption, FallbackTypeInit, IdleCall DEF FallbackInit, SoundInv, Sound
<1>2. FallbackTypeOK /\ SoundInv /\ [FallbackNext]_fallbackVars => (FallbackTypeOK /\ SoundInv)'
  BY ParametersAssumption, DelayAssumption, FallbackTypeStep, SoundStep
<1>3. FallbackTypeOK /\ SoundInv => (NearHealthy => NeverAbandoned)
  BY SoundImplies
<1> QED BY <1>1, <1>2, <1>3, PTL DEF FallbackSpec

\* With a baseurl and one fallback that is all there is to it.
THEOREM TwoAreEnough ==
  ASSUME UrlCounts \subseteq {1, 2}
  PROVE  FallbackSpec => []NeverAbandoned
<1>1. FallbackTypeOK /\ (NearHealthy => NeverAbandoned) => NeverAbandoned
  BY AmongTwo DEF NeverAbandoned
<1> QED BY <1>1, FallbackTypeCorrect, FallbackFinds, PTL
=============================================================================
