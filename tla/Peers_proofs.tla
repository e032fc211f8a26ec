---------------------------- MODULE Peers_proofs ----------------------------
(***************************************************************************)
(* Safety of the distributed cache's peer map, for any number of peers,    *)
(* urls and callers.                                                       *)
(*                                                                         *)
(* OneToOne is not inductive: insert_peer relies on its url being unknown, *)
(* which the listener found out before it talked to the peer.  It is still *)
(* unknown when the listener inserts because nobody else inserts and the   *)
(* others only remove (Unclaimed).                                         *)
(***************************************************************************)
EXTENDS Peers, TLAPS

NetOK == /\ serving \in [Urls -> Others \cup {None}]
         /\ msgs \subseteq {"P", "A"} \X AllUrls

MapOK == /\ ring \in [Uuids -> AllUrls \cup {None}]
         /\ url_to_uuid \in [AllUrls -> Uuids \cup {None}]
         /\ OneToOne
         /\ SelfRouted

ReportOK == uuid_to_peer \in [Uuids -> AllUrls \cup {None}]

GoodListener(l) ==
    /\ l \in Listener
    /\ l.pc \in {"asking", "insert"} => l.url \in Urls
    /\ l.pc = "insert" => l.uuid \in Others
    /\ l.pc \in {"roster", "unroster"} => l.uuid \in Uuids

GoodCaller(r) ==
    /\ r \in Caller
    /\ r.pc = "peer" => r.url \in Urls
    /\ r.pc = "unroster" => r.uuid \in Uuids
    /\ r.pc \in {"idle", "upstream"} => r.uuid = None

CallersOK == /\ caller \in [Callers -> Caller]
             /\ \A c \in Callers : GoodCaller(caller[c])

LifeOK == life \in {"up", "closing", "stopping", "joining", "dead"}

\* The url that the listener is about to insert is nobody's.
Unclaimed == listener.pc \in {"asking", "insert"} => url_to_uuid[listener.url] = None

IInv == /\ NetOK
        /\ MapOK
        /\ ReportOK
        /\ GoodListener(listener)
        /\ CallersOK
        /\ LifeOK
        /\ Unclaimed

LEMMA IInvImpliesTypeOK == IInv => TypeOK
BY Zenon DEF IInv, TypeOK, NetOK, MapOK, ReportOK, GoodListener, CallersOK, GoodCaller, LifeOK

LEMMA Names == /\ None \notin Uuids /\ None \notin AllUrls /\ None \notin Urls
               /\ Self \in Uuids /\ SelfUrl \in AllUrls /\ SelfUrl \notin Urls
               /\ Others \subseteq Uuids /\ Urls \subseteq AllUrls /\ Self \notin Others
BY UuidAssumption, UrlAssumption DEF Uuids, AllUrls

----------------------------------------------------------------------------
\* The critical sections of peer_map_t.

\* remove_url of somebody else's url.
LEMMA RemoveKeepsMap ==
    ASSUME MapOK, NEW u \in Urls, Known(u), RemoveUrl(u)
    PROVE  /\ MapOK'
           /\ url_to_uuid[u] \in Uuids
           /\ \A w \in AllUrls : url_to_uuid'[w] \in {url_to_uuid[w], None}
           /\ \A x \in Uuids : ring[x] # None /\ ring'[x] = None => ring[x] = u
<1> DEFINE x == url_to_uuid[u]
<1>1. u \in AllUrls /\ x \in Uuids /\ x # None
  BY Names DEF MapOK, Known
<1>2. ring[x] = u
  BY <1>1 DEF MapOK, OneToOne, Known
<1>3. x # Self
  BY <1>2, Names DEF MapOK, SelfRouted
<1>4. /\ ring' = [ring EXCEPT ![x] = None]
      /\ url_to_uuid' = [url_to_uuid EXCEPT ![u] = None]
  BY DEF RemoveUrl
<1>5. /\ ring' \in [Uuids -> AllUrls \cup {None}]
      /\ url_to_uuid' \in [AllUrls -> Uuids \cup {None}]
  BY <1>4 DEF MapOK
<1>6. \A y \in Uuids : ring'[y] = IF y = x THEN None ELSE ring[y]
  BY <1>4 DEF MapOK
<1>7. \A w \in AllUrls : url_to_uuid'[w] = IF w = u THEN None ELSE url_to_uuid[w]
  BY <1>4 DEF MapOK
<1> HIDE DEF x
<1>8. OneToOne'
  <2>1. ASSUME NEW y \in Uuids, ring'[y] # None
        PROVE  url_to_uuid'[ring'[y]] = y
    <3>1. y # x /\ ring'[y] = ring[y] /\ ring[y] \in AllUrls
      BY <1>6, <2>1 DEF MapOK
    <3>2. url_to_uuid[ring[y]] = y
      BY <2>1, <3>1 DEF MapOK, OneToOne
    <3>3. ring[y] # u
      BY <3>1, <3>2 DEF x
    <3> QED
      BY <1>7, <3>1, <3>2, <3>3
  <2>2. ASSUME NEW w \in AllUrls, url_to_uuid'[w] # None
        PROVE  ring'[url_to_uuid'[w]] = w
    <3>1. w # u /\ url_to_uuid'[w] = url_to_uuid[w] /\ url_to_uuid[w] \in Uuids
      BY <1>7, <2>2 DEF MapOK
    <3>2. ring[url_to_uuid[w]] = w
      BY <2>2, <3>1 DEF MapOK, OneToOne
    <3>3. url_to_uuid[w] # x
      BY <1>2, <3>1, <3>2
    <3> QED
      BY <1>6, <3>1, <3>2, <3>3
  <2> QED
    BY <2>1, <2>2 DEF OneToOne
<1>9. SelfRouted'
  BY <1>3, <1>6, Names DEF MapOK, SelfRouted
<1>10. \A y \in Uuids : ring[y] # None /\ ring'[y] = None => ring[y] = u
  BY <1>2, <1>6
<1> QED
  BY <1>1, <1>5, <1>7, <1>8, <1>9, <1>10 DEF MapOK, x

\* insert_peer of another peer at a url that is nobody's.
LEMMA InsertKeepsMap ==
    ASSUME MapOK, NEW x \in Others, NEW u \in Urls, url_to_uuid[u] = None, InsertPeer(x, u)
    PROVE  /\ MapOK'
           /\ \A y \in Uuids : ring[y] # None => ring'[y] # None
<1>1. x \in Uuids /\ u \in AllUrls /\ x # None /\ u # None /\ x # Self /\ u # SelfUrl
  BY Names
<1>2. /\ ring' = [ring EXCEPT ![x] = u]
      /\ url_to_uuid' = [w \in AllUrls |-> IF w = u THEN x
                                           ELSE IF w = ring[x] THEN None
                                           ELSE url_to_uuid[w]]
  BY DEF InsertPeer
<1>3. /\ ring' \in [Uuids -> AllUrls \cup {None}]
      /\ url_to_uuid' \in [AllUrls -> Uuids \cup {None}]
  BY <1>1, <1>2 DEF MapOK
<1>4. \A y \in Uuids : ring'[y] = IF y = x THEN u ELSE ring[y]
  BY <1>2 DEF MapOK
<1>5. \A w \in AllUrls : url_to_uuid'[w] = IF w = u THEN x
                                           ELSE IF w = ring[x] THEN None
                                           ELSE url_to_uuid[w]
  BY <1>2
<1>6. OneToOne'
  <2>1. ASSUME NEW y \in Uuids, ring'[y] # None
        PROVE  url_to_uuid'[ring'[y]] = y
    <3>1. CASE y = x
      BY <1>1, <1>4, <1>5, <3>1
    <3>2. CASE y # x
      <4>1. ring'[y] = ring[y] /\ ring[y] \in AllUrls
        BY <1>4, <2>1, <3>2 DEF MapOK
      <4>2. url_to_uuid[ring[y]] = y
        BY <2>1, <4>1 DEF MapOK, OneToOne
      <4>3. ring[y] # u
        BY <4>2, Names
      <4>4. ring[y] # ring[x]
        <5>1. ring[x] # None => url_to_uuid[ring[x]] = x
          BY <1>1 DEF MapOK, OneToOne
        <5> QED
          BY <2>1, <3>2, <4>1, <4>2, <5>1
      <4> QED
        BY <1>5, <4>1, <4>2, <4>3, <4>4
    <3> QED
      BY <3>1, <3>2
  <2>2. ASSUME NEW w \in AllUrls, url_to_uuid'[w] # None
        PROVE  ring'[url_to_uuid'[w]] = w
    <3>1. CASE w = u
      BY <1>1, <1>4, <1>5, <3>1
    <3>2. CASE w # u
      <4>1. w # ring[x] /\ url_to_uuid'[w] = url_to_uuid[w] /\ url_to_uuid[w] \in Uuids
        BY <1>5, <2>2, <3>2 DEF MapOK
      <4>2. ring[url_to_uuid[w]] = w
        BY <2>2, <4>1 DEF MapOK, OneToOne
      <4>3. url_to_uuid[w] # x
        BY <4>1, <4>2
      <4> QED
        BY <1>4, <4>1, <4>2, <4>3
    <3> QED
      BY <3>1, <3>2
  <2> QED
    BY <2>1, <2>2 DEF OneToOne
<1>7. SelfRouted'
  BY <1>1, <1>4, Names DEF MapOK, SelfRouted
<1> QED
  BY <1>1, <1>3, <1>4, <1>6, <1>7 DEF MapOK

----------------------------------------------------------------------------
\* The inductive invariant.

LEMMA MapKept == MapOK /\ UNCHANGED <<ring, url_to_uuid>> => MapOK'
BY DEF MapOK, OneToOne, SelfRouted

\* The others' urls that are in the ring are not ours.
LEMMA OthersUrls ==
    ASSUME MapOK, NEW x \in Uuids, x # Self, ring[x] # None
    PROVE  ring[x] \in Urls
<1>1. ring[x] \in AllUrls /\ url_to_uuid[ring[x]] = x
  BY DEF MapOK, OneToOne
<1>2. url_to_uuid[SelfUrl] = Self
  BY Names DEF MapOK, OneToOne, SelfRouted
<1> QED
  BY <1>1, <1>2 DEF AllUrls

LEMMA IdleIsGood == GoodCaller(Idle)
BY DEF GoodCaller, Idle, Caller, CallerPCs

LEMMA AtIsGood == ASSUME NEW l \in {"top", "poll", "exited"} PROVE GoodListener(At(l))
BY DEF GoodListener, At, Listener, ListenerPCs

\* Replacing one caller's record by a good one keeps all of them good.
LEMMA CallerReplaced ==
    ASSUME CallersOK, NEW c \in Callers, NEW r, GoodCaller(r),
           caller' = [caller EXCEPT ![c] = r]
    PROVE  CallersOK'
<1>1. r \in Caller
  BY DEF GoodCaller
<1>2. caller' \in [Callers -> Caller]
  BY <1>1 DEF CallersOK
<1>3. \A d \in Callers : caller'[d] = IF d = c THEN r ELSE caller[d]
  BY DEF CallersOK
<1>4. \A d \in Callers : GoodCaller(caller'[d])
  BY <1>3, Zenon DEF CallersOK
<1> QED
  BY <1>2, <1>4, Zenon DEF CallersOK

LEMMA InitIsGood == Init => IInv
<1> SUFFICES ASSUME Init PROVE IInv
  OBVIOUS
<1>1. NetOK
  BY DEF Init, NetOK
<1>2. MapOK
  <2>1. /\ ring \in [Uuids -> AllUrls \cup {None}]
        /\ url_to_uuid \in [AllUrls -> Uuids \cup {None}]
    BY Names DEF Init
  <2>2. SelfRouted
    BY Names DEF Init, SelfRouted
  <2>3. OneToOne
    BY Names DEF Init, OneToOne
  <2> QED
    BY <2>1, <2>2, <2>3 DEF MapOK
<1>3. ReportOK
  BY <1>2 DEF Init, ReportOK, MapOK
<1>4. GoodListener(listener) /\ Unclaimed
  BY AtIsGood DEF Init, Unclaimed, At
<1>5. CallersOK
  <2>1. Idle \in Caller
    BY IdleIsGood DEF GoodCaller
  <2> QED
    BY <2>1, IdleIsGood DEF Init, CallersOK
<1>6. LifeOK
  BY DEF Init, LifeOK
<1> QED
  BY <1>1, <1>2, <1>3, <1>4, <1>5, <1>6 DEF IInv

\* Other mounts and the destructor touch the network and life only.
LEMMA OutsideStep ==
    ASSUME IInv,
           \/ \E u \in Urls : (\E x \in Others : StartPeer(x, u)) \/ SendPresent(u) \/ StopPeer(u)
           \/ Destroy
           \/ UNCHANGED vars
    PROVE  IInv' /\ ring' = ring
<1>1. UNCHANGED <<ring, url_to_uuid, uuid_to_peer, listener, caller>>
  BY DEF StartPeer, SendPresent, StopPeer, Destroy, SendAbsent, StopServer, ServerStopped,
         Destroyed, vars, mapVars
<1>2. NetOK'
  <2>1. NetOK
    BY DEF IInv
  <2>2. ASSUME NEW u \in Urls, NEW x \in Others, StartPeer(x, u) PROVE NetOK'
    BY <2>1, <2>2 DEF StartPeer, NetOK
  <2>3. ASSUME NEW u \in Urls, SendPresent(u) PROVE NetOK'
    BY <2>1, <2>3, Names DEF SendPresent, NetOK
  <2>4. ASSUME NEW u \in Urls, StopPeer(u) PROVE NetOK'
    BY <2>1, <2>4, Names DEF StopPeer, NetOK
  <2>5. CASE Destroy
    BY <2>1, <2>5, Names DEF Destroy, SendAbsent, StopServer, ServerStopped, Destroyed, netVars, NetOK
  <2>6. CASE UNCHANGED vars
    BY <2>1, <2>6 DEF vars, netVars, NetOK
  <2> QED
    BY <2>2, <2>3, <2>4, <2>5, <2>6
<1>3. LifeOK'
  BY DEF IInv, LifeOK, StartPeer, SendPresent, StopPeer, Destroy, SendAbsent, StopServer,
         ServerStopped, Destroyed, vars
<1>4. MapOK'
  BY <1>1, MapKept DEF IInv
<1>5. ReportOK' /\ GoodListener(listener') /\ Unclaimed' /\ CallersOK'
  BY <1>1, Zenon DEF IInv, ReportOK, Unclaimed, CallersOK
<1> QED
  BY <1>1, <1>2, <1>3, <1>4, <1>5, Zenon DEF IInv

\* The network, the callers and life, which the listener leaves alone.
LEMMA ListenerLeaves ==
    ASSUME IInv, UNCHANGED <<netVars, caller, life>>
    PROVE  NetOK' /\ CallersOK' /\ LifeOK'
<1>1. serving' = serving /\ msgs' = msgs /\ caller' = caller /\ life' = life
  BY DEF netVars
<1> QED
  BY <1>1, Zenon DEF IInv, NetOK, CallersOK, LifeOK

LEMMA ListenerKeeps ==
    ASSUME IInv,
           \/ ListenerStep
           \/ \E u \in Urls : HandlePresent(u)
           \/ \E u \in AllUrls : HandleAbsent(u)
    PROVE  IInv' /\ \A x \in Uuids : ring[x] # None /\ ring'[x] = None => Blamed(ring[x])
<1>1. MapOK /\ GoodListener(listener) /\ Unclaimed /\ ReportOK
  BY DEF IInv
<1>2. UNCHANGED <<netVars, caller, life>>
  BY DEF ListenerStep, ListenerTop, ListenerQuiet, PeerDoesNotTell, PeerTellsUuid, ListenerInserts,
         ListenerReports, HandlePresent, HandleAbsent
<1>3. NetOK' /\ CallersOK' /\ LifeOK'
  BY <1>2, ListenerLeaves
\* A step that does not touch the maps.
<1>4. ASSUME UNCHANGED mapVars, GoodListener(listener'),
             listener'.pc \in {"asking", "insert"} => url_to_uuid[listener'.url] = None
      PROVE  IInv' /\ \A x \in Uuids : ring[x] # None /\ ring'[x] = None => Blamed(ring[x])
  <2>1. ring' = ring /\ url_to_uuid' = url_to_uuid /\ uuid_to_peer' = uuid_to_peer
    BY <1>4 DEF mapVars
  <2>2. MapOK'
    BY <1>1, <2>1, MapKept
  <2>3. ReportOK' /\ Unclaimed'
    BY <1>1, <1>4, <2>1 DEF ReportOK, Unclaimed
  <2> QED
    BY <1>3, <1>4, <2>1, <2>2, <2>3, Zenon DEF IInv
<1>5. CASE ListenerTop \/ ListenerQuiet \/ PeerDoesNotTell
  <2>1. UNCHANGED mapVars /\ \E l \in {"top", "poll", "exited"} : listener' = At(l)
    <3>1. \/ listener' = At("top")
          \/ listener' = At(IF life = "joining" THEN "exited" ELSE "poll")
      BY <1>5 DEF ListenerTop, ListenerQuiet, PeerDoesNotTell
    <3>2. UNCHANGED mapVars
      BY <1>5 DEF ListenerTop, ListenerQuiet, PeerDoesNotTell
    <3> QED
      BY <3>1, <3>2
  <2>2. PICK l \in {"top", "poll", "exited"} : listener' = At(l)
    BY <2>1
  <2>3. GoodListener(listener')
    BY <2>2, AtIsGood
  <2>4. listener'.pc \notin {"asking", "insert"}
    BY <2>2 DEF At
  <2> QED
    BY <1>4, <2>1, <2>3, <2>4
<1>6. ASSUME NEW u \in Urls, PeerTellsUuid(u)
      PROVE  IInv' /\ \A x \in Uuids : ring[x] # None /\ ring'[x] = None => Blamed(ring[x])
  <2>1. serving[u] \in Others
    BY <1>6 DEF PeerTellsUuid, IInv, NetOK
  <2>2. /\ UNCHANGED mapVars /\ listener.pc = "asking" /\ listener.url = u
        /\ listener' = [listener EXCEPT !.pc = "insert", !.uuid = serving[u]]
    BY <1>6 DEF PeerTellsUuid
  <2>3. GoodListener(listener')
    BY <1>1, <2>1, <2>2, Names DEF GoodListener, Listener, ListenerPCs
  <2>4. listener'.url = u /\ url_to_uuid[u] = None
    BY <1>1, <2>2 DEF Unclaimed, GoodListener, Listener
  <2> QED
    BY <1>4, <2>2, <2>3, <2>4
<1>7. ASSUME NEW u \in Urls, HandlePresent(u)
      PROVE  IInv' /\ \A x \in Uuids : ring[x] # None /\ ring'[x] = None => Blamed(ring[x])
  <2>0. UNCHANGED mapVars
    BY <1>7 DEF HandlePresent, mapVars
  <2>1. \/ listener' = At("top")
        \/ ~Known(u) /\ listener' = [At("asking") EXCEPT !.url = u]
    BY <1>7 DEF HandlePresent, check_url
  <2>2. GoodListener(listener')
    BY <2>1, AtIsGood, Names DEF At, GoodListener, Listener, ListenerPCs
  <2>3. listener'.pc \in {"asking", "insert"} => url_to_uuid[listener'.url] = None
    BY <2>1 DEF At, Known
  <2> QED
    BY <1>4, <2>0, <2>2, <2>3
<1>8. CASE ListenerInserts
  <2>1. /\ listener.uuid \in Others /\ listener.url \in Urls /\ url_to_uuid[listener.url] = None
        /\ InsertPeer(listener.uuid, listener.url)
        /\ listener' = [listener EXCEPT !.pc = "roster"]
        /\ uuid_to_peer' = uuid_to_peer
    BY <1>1, <1>8 DEF ListenerInserts, GoodListener, Unclaimed
  <2>2. MapOK' /\ \A y \in Uuids : ring[y] # None => ring'[y] # None
    BY <1>1, <2>1, InsertKeepsMap
  <2>3. GoodListener(listener') /\ Unclaimed'
    BY <1>1, <2>1, Names DEF GoodListener, Listener, ListenerPCs, Unclaimed
  <2>4. ReportOK'
    BY <1>1, <2>1 DEF ReportOK
  <2> QED
    BY <1>3, <2>2, <2>3, <2>4, Zenon DEF IInv
<1>9. CASE ListenerReports
  <2>1. /\ ring' = ring /\ url_to_uuid' = url_to_uuid /\ listener' = At("top")
        /\ uuid_to_peer' = [uuid_to_peer EXCEPT ![listener.uuid] = listener.url]
        /\ listener.url \in AllUrls \cup {None}
    BY <1>1, <1>9 DEF ListenerReports, GoodListener, Listener
  <2>2. ReportOK'
    BY <1>1, <2>1 DEF ReportOK
  <2>3. MapOK'
    BY <1>1, <2>1, MapKept
  <2>4. GoodListener(listener') /\ Unclaimed'
    BY <2>1, AtIsGood DEF Unclaimed, At
  <2> QED
    BY <1>3, <2>1, <2>2, <2>3, <2>4, Zenon DEF IInv
<1>10. ASSUME NEW u \in AllUrls, HandleAbsent(u)
       PROVE  IInv' /\ \A x \in Uuids : ring[x] # None /\ ring'[x] = None => Blamed(ring[x])
  <2>1. CASE u # SelfUrl /\ Known(u)
    <3>1. /\ u \in Urls /\ RemoveUrl(u) /\ <<"A", u>> \in msgs
          /\ listener' = [At("unroster") EXCEPT !.uuid = url_to_uuid[u]]
          /\ uuid_to_peer' = uuid_to_peer
      BY <1>10, <2>1 DEF HandleAbsent, AllUrls
    <3>2. /\ MapOK' /\ url_to_uuid[u] \in Uuids
          /\ \A x \in Uuids : ring[x] # None /\ ring'[x] = None => ring[x] = u
      BY <1>1, <2>1, <3>1, RemoveKeepsMap
    <3>3. GoodListener(listener') /\ Unclaimed'
      BY <3>1, <3>2 DEF At, GoodListener, Listener, ListenerPCs, Unclaimed
    <3>4. ReportOK'
      BY <1>1, <3>1 DEF ReportOK
    <3>5. Blamed(u)
      BY <3>1 DEF Blamed
    <3> QED
      BY <1>3, <3>2, <3>3, <3>4, <3>5, Zenon DEF IInv
  <2>2. CASE ~(u # SelfUrl /\ Known(u))
    <3>1. UNCHANGED mapVars /\ listener' = At("top")
      BY <1>10, <2>2 DEF HandleAbsent, mapVars
    <3>2. GoodListener(listener') /\ listener'.pc \notin {"asking", "insert"}
      BY <3>1, AtIsGood DEF At
    <3> QED
      BY <1>4, <3>1, <3>2
  <2> QED
    BY <2>1, <2>2
<1> QED
  BY <1>5, <1>6, <1>7, <1>8, <1>9, <1>10 DEF ListenerStep
LEMMA CallerKeeps ==
    ASSUME IInv, NEW c \in Callers,
           \/ \E np \in BOOLEAN : Refresh(c, np)
           \/ CallerStep(c)
    PROVE  IInv' /\ \A x \in Uuids : ring[x] # None /\ ring'[x] = None => Blamed(ring[x])
<1>1. MapOK /\ GoodListener(listener) /\ Unclaimed /\ ReportOK /\ CallersOK
  BY DEF IInv
<1>2. GoodCaller(caller[c]) /\ caller[c] \in Caller
  BY <1>1 DEF CallersOK
<1>3. serving' = serving /\ msgs' = msgs /\ listener' = listener /\ life' = life
  BY DEF Refresh, CallerStep, PeerAnswers, PeerFails, CallerReports, UpstreamReturns, netVars
<1>4. NetOK' /\ LifeOK' /\ GoodListener(listener')
  BY <1>3, Zenon DEF IInv, NetOK, LifeOK
\* A step that does not touch the ring.
<1>5. ASSUME NEW r, GoodCaller(r), caller' = [caller EXCEPT ![c] = r],
             ring' = ring, url_to_uuid' = url_to_uuid, ReportOK'
      PROVE  IInv' /\ \A x \in Uuids : ring[x] # None /\ ring'[x] = None => Blamed(ring[x])
  <2>1. CallersOK'
    BY <1>1, <1>5, CallerReplaced
  <2>2. MapOK'
    BY <1>1, <1>5, MapKept
  <2>3. Unclaimed'
    BY <1>1, <1>3, <1>5 DEF Unclaimed
  <2> QED
    BY <1>4, <1>5, <2>1, <2>2, <2>3, Zenon DEF IInv
<1>6. uuid_to_peer' = uuid_to_peer => ReportOK'
  BY <1>1 DEF ReportOK
<1>7. ASSUME NEW np \in BOOLEAN, Refresh(c, np)
      PROVE  IInv' /\ \A x \in Uuids : ring[x] # None /\ ring'[x] = None => Blamed(ring[x])
  <2> DEFINE fwd(x) == [Idle EXCEPT !.pc = "peer", !.uuid = x, !.url = ring[x]]
             up == [Idle EXCEPT !.pc = "upstream"]
  <2>1. PICK x \in Uuids : /\ ring[x] # None
                           /\ caller' = [caller EXCEPT ![c] = IF np \/ x = Self THEN up ELSE fwd(x)]
    BY <1>7 DEF Refresh
  <2>2. /\ ring' = ring /\ url_to_uuid' = url_to_uuid /\ uuid_to_peer' = uuid_to_peer
    BY <1>7 DEF Refresh, mapVars
  <2>3. GoodCaller(up)
    BY DEF GoodCaller, Idle, Caller, CallerPCs
  <2>4. CASE np \/ x = Self
    <3>1. caller' = [caller EXCEPT ![c] = up]
      BY <2>1, <2>4
    <3> HIDE DEF up
    <3> QED
      BY <1>5, <1>6, <2>2, <2>3, <3>1
  <2>5. CASE ~np /\ x # Self
    <3>1. caller' = [caller EXCEPT ![c] = fwd(x)]
      BY <2>1, <2>5
    <3>2. ring[x] \in Urls /\ ring[x] \in AllUrls
      BY <1>1, <2>1, <2>5, OthersUrls, Names
    <3>3. GoodCaller(fwd(x))
      BY <3>2 DEF GoodCaller, Idle, Caller, CallerPCs
    <3> HIDE DEF fwd
    <3> QED
      BY <1>5, <1>6, <2>2, <3>1, <3>3
  <2> QED
    BY <2>4, <2>5
<1>8. CASE PeerAnswers(c) \/ UpstreamReturns(c)
  <2>1. /\ ring' = ring /\ url_to_uuid' = url_to_uuid /\ uuid_to_peer' = uuid_to_peer
        /\ caller' = [caller EXCEPT ![c] = Idle]
    BY <1>8 DEF PeerAnswers, UpstreamReturns, mapVars
  <2> QED
    BY <1>5, <1>6, <2>1, IdleIsGood
<1>9. CASE CallerReports(c)
  <2> DEFINE r == [caller[c] EXCEPT !.pc = "upstream", !.uuid = None]
  <2>1. /\ ring' = ring /\ url_to_uuid' = url_to_uuid /\ caller' = [caller EXCEPT ![c] = r]
        /\ uuid_to_peer' = [uuid_to_peer EXCEPT ![caller[c].uuid] = None]
    BY <1>9 DEF CallerReports
  <2>2. ReportOK'
    BY <1>1, <2>1 DEF ReportOK
  <2>3. GoodCaller(r)
    BY <1>2 DEF GoodCaller, Caller, CallerPCs
  <2> HIDE DEF r
  <2> QED
    BY <1>5, <2>1, <2>2, <2>3
<1>10. CASE PeerFails(c)
  <2> DEFINE u == caller[c].url
             r == [caller[c] EXCEPT !.pc = "unroster", !.url = None, !.uuid = url_to_uuid[u]]
             q == [caller[c] EXCEPT !.pc = "upstream", !.url = None, !.uuid = None]
  <2>1. caller[c].pc = "peer" /\ u \in Urls /\ uuid_to_peer' = uuid_to_peer
    BY <1>2, <1>10 DEF PeerFails, GoodCaller
  <2>2. CASE Known(u)
    <3>1. RemoveUrl(u) /\ caller' = [caller EXCEPT ![c] = r]
      BY <1>10, <2>2 DEF PeerFails
    <3>2. /\ MapOK' /\ url_to_uuid[u] \in Uuids
          /\ \A w \in AllUrls : url_to_uuid'[w] \in {url_to_uuid[w], None}
          /\ \A x \in Uuids : ring[x] # None /\ ring'[x] = None => ring[x] = u
      BY <1>1, <2>1, <2>2, <3>1, RemoveKeepsMap
    <3>3. GoodCaller(r)
      BY <1>2, <3>2 DEF GoodCaller, Caller, CallerPCs
    <3>4. CallersOK'
      <4> HIDE DEF r
      <4> QED
        BY <1>1, <3>1, <3>3, CallerReplaced
    <3>5. Unclaimed'
      BY <1>1, <1>3, <3>2, Names DEF Unclaimed, GoodListener
    <3>6. Blamed(u)
      BY <2>1 DEF Blamed
    <3> QED
      BY <1>4, <1>6, <2>1, <3>2, <3>4, <3>5, <3>6, Zenon DEF IInv
  <2>3. CASE ~Known(u)
    <3>1. ring' = ring /\ url_to_uuid' = url_to_uuid /\ caller' = [caller EXCEPT ![c] = q]
      BY <1>10, <2>3 DEF PeerFails
    <3>2. GoodCaller(q)
      BY <1>2 DEF GoodCaller, Caller, CallerPCs
    <3> HIDE DEF q
    <3> QED
      BY <1>5, <1>6, <2>1, <3>1, <3>2
  <2> QED
    BY <2>2, <2>3
<1> QED
  BY <1>7, <1>8, <1>9, <1>10 DEF CallerStep

\* Every step keeps the invariant and removes only a peer that is blamed.
LEMMA Inductive ==
    ASSUME IInv, [Next]_vars
    PROVE  IInv' /\ \A x \in Uuids : ring[x] # None /\ ring'[x] = None => Blamed(ring[x])
<1>1. CASE \/ \E u \in Urls : (\E x \in Others : StartPeer(x, u)) \/ SendPresent(u) \/ StopPeer(u)
           \/ Destroy
           \/ UNCHANGED vars
  BY <1>1, OutsideStep
<1>2. CASE \/ ListenerStep
           \/ \E u \in Urls : HandlePresent(u)
           \/ \E u \in AllUrls : HandleAbsent(u)
  BY <1>2, ListenerKeeps
<1>3. ASSUME NEW c \in Callers,
             (\E np \in BOOLEAN : Refresh(c, np)) \/ CallerStep(c)
      PROVE  IInv' /\ \A x \in Uuids : ring[x] # None /\ ring'[x] = None => Blamed(ring[x])
  BY <1>3, CallerKeeps
<1> QED
  BY <1>1, <1>2, <1>3, Zenon DEF Next

\* The inductive invariant holds always.
LEMMA AlwaysIInv == Spec => []IInv
<1>1. IInv /\ [Next]_vars => IInv'
  BY Inductive
<1> QED
  BY <1>1, InitIsGood, PTL DEF Spec

----------------------------------------------------------------------------
(* The maps, the listener and the callers keep their types, and a caller keeps
   no peer when it goes upstream, for any number of peers and callers. *)
THEOREM TypeCorrect == Spec => []TypeOK
BY IInvImpliesTypeOK, AlwaysIInv, PTL

(* peer_map_t's consistent hash and url_to_uuid are inverse to each other
   whenever its mutex is free. *)
THEOREM MapsAreInverse == Spec => []OneToOne
<1>1. IInv => OneToOne
  BY DEF IInv, MapOK
<1> QED
  BY <1>1, AlwaysIInv, PTL

(* This mount stays in its own ring under its own url, so that lookup always
   finds a peer. *)
THEOREM SelfStays == Spec => []SelfRouted
<1>1. IInv => SelfRouted
  BY DEF IInv, MapOK
<1> QED
  BY <1>1, AlwaysIInv, PTL

(* handle_absent and handle_peer_error remove the peer that they mean, and not
   the one that has come to the same url or uuid since. *)
THEOREM OnlyBlamedLeave == Spec => RemovedWasBlamed
<1>1. IInv /\ [Next]_vars
      => [\A x \in Uuids : ring[x] # None /\ ring'[x] = None => Blamed(ring[x])]_vars
  BY Inductive
<1> QED
  BY <1>1, AlwaysIInv, PTL DEF Spec, RemovedWasBlamed
============================================================================
