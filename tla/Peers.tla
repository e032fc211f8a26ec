------------------------------- MODULE Peers -------------------------------
(***************************************************************************)
(* The distributed cache of one mount (exe/fs123p7/distrib_cache_backend): *)
(* how it learns of peers and forgets them, where it sends a request, and  *)
(* how it is shut down.                                                    *)
(*                                                                         *)
(* Three kinds of thread meet in the peer_map: the udp listener, which     *)
(* alone inserts peers, the callers of refresh, which remove a peer that   *)
(* fails them, and the thread that destroys the object.  Peers start, stop *)
(* and crash; they come back under another url with the same uuid, and a   *)
(* url may come back with another uuid.  The datagrams that announce this  *)
(* are lost, delayed, duplicated and reordered: a message that was sent    *)
(* once may be received at any later time, any number of times, or never.  *)
(* (The window of accepted timestamps bounds the delay; no property uses   *)
(* it.)  What a reply contains is abstracted to where it came from.        *)
(***************************************************************************)
CONSTANTS
    Self,       \* the uuid of this mount's disk cache
    Others,     \* the uuids of the other peers
    SelfUrl,    \* where this mount's own server listens
    Urls,       \* where the others' servers may listen
    Callers,    \* threads that call refresh
    Pool,       \* those of them that are in the disk cache's thread pool
    None        \* no uuid, no url

Uuids == Others \cup {Self}
AllUrls == Urls \cup {SelfUrl}

\* Mounts that share a disk cache, hence a uuid, "MUST NOT share the same
\* multicast reflector".
ASSUME UuidAssumption == Self \notin Others /\ None \notin Uuids
ASSUME UrlAssumption == SelfUrl \notin Urls /\ None \notin AllUrls
ASSUME PoolAssumption == Pool \subseteq Callers

VARIABLES
    serving,    \* serving[u]: the uuid of the peer whose server listens at u
    msgs,       \* the datagrams sent so far, as pairs of kind and url
    ring,       \* ring[x]: the url of the peer in the consistent hash
    url_to_uuid,
    uuid_to_peer,   \* for reports only: the url of the peer
    listener,   \* where the udp listener is
    caller,     \* caller[c]: where a thread is in refresh
    life        \* how far the destructor is

mapVars == <<ring, url_to_uuid, uuid_to_peer>>
netVars == <<serving, msgs>>
vars == <<netVars, mapVars, listener, caller, life>>

ListenerPCs == {"top", "poll", "asking", "insert", "roster", "unroster", "exited"}
Listener == [pc : ListenerPCs, url : AllUrls \cup {None}, uuid : Uuids \cup {None}]
At(l) == [pc |-> l, url |-> None, uuid |-> None]

CallerPCs == {"idle", "peer", "unroster", "upstream"}
Caller == [pc : CallerPCs, url : AllUrls \cup {None}, uuid : Uuids \cup {None}]
Idle == [pc |-> "idle", url |-> None, uuid |-> None]

\* The constructor inserts this mount itself.
Init == /\ serving = [u \in Urls |-> None]
        /\ msgs = {}
        /\ ring = [x \in Uuids |-> IF x = Self THEN SelfUrl ELSE None]
        /\ url_to_uuid = [u \in AllUrls |-> IF u = SelfUrl THEN Self ELSE None]
        /\ uuid_to_peer = ring
        /\ listener = At("top")
        /\ caller = [c \in Callers |-> Idle]
        /\ life = "up"

----------------------------------------------------------------------------
\* The other mounts, seen from outside.

StartPeer(x, u) ==
    /\ serving[u] = None
    /\ \A w \in Urls : serving[w] # x
    /\ serving' = [serving EXCEPT ![u] = x]
    /\ UNCHANGED <<msgs, mapVars, listener, caller, life>>

\* regular_maintenance of a peer.
SendPresent(u) ==
    /\ serving[u] # None
    /\ msgs' = msgs \cup {<<"P", u>>}
    /\ UNCHANGED <<serving, mapVars, listener, caller, life>>

\* A peer's destructor says ABSENT; a crash says nothing.
StopPeer(u) ==
    /\ serving[u] # None
    /\ serving' = [serving EXCEPT ![u] = None]
    /\ msgs' \in {msgs, msgs \cup {<<"A", u>>}}
    /\ UNCHANGED <<mapVars, listener, caller, life>>

----------------------------------------------------------------------------
\* peer_map_t: the two critical sections under mtx.

\* Mutant: the url of the peer that is replaced stays in url_to_uuid.
InsertPeerKeepsOld(x, u) ==
    /\ url_to_uuid' = [url_to_uuid EXCEPT ![u] = x]
    /\ ring' = [ring EXCEPT ![x] = u]

Known(u) == url_to_uuid[u] # None

\* insert_peer replaces a peer with the same uuid.
InsertPeer(x, u) ==
    /\ url_to_uuid' = [w \in AllUrls |-> IF w = u THEN x
                                         ELSE IF w = ring[x] THEN None
                                         ELSE url_to_uuid[w]]
    /\ ring' = [ring EXCEPT ![x] = u]

\* remove_url of a url that is Known.
RemoveUrl(u) ==
    /\ ring' = [ring EXCEPT ![url_to_uuid[u]] = None]
    /\ url_to_uuid' = [url_to_uuid EXCEPT ![u] = None]

----------------------------------------------------------------------------
\* The udp listener.

\* while(!udp_done)
ListenerTop ==
    /\ listener.pc = "top"
    /\ listener' = At(IF life = "joining" THEN "exited" ELSE "poll")
    /\ UNCHANGED <<netVars, mapVars, caller, life>>

\* Mutant: a recv that blocks.
ListenerBlocks == FALSE /\ UNCHANGED vars

\* No message for 100 msec; one that is refused; or a 'D'iscourage, which
\* handle_discourage_peer ignores.
ListenerQuiet ==
    /\ listener.pc = "poll"
    /\ listener' = At("top")
    /\ UNCHANGED <<netVars, mapVars, caller, life>>

\* Mutant: the report's map is asked whether a peer is known.
CheckReport(u) == \E x \in Uuids : uuid_to_peer[x] = u

check_url(u) == Known(u)

\* handle_present: a peer that is not known is asked for its uuid, unlocked.
HandlePresent(u) ==
    /\ listener.pc = "poll"
    /\ <<"P", u>> \in msgs
    /\ listener' = IF check_url(u) THEN At("top") ELSE [At("asking") EXCEPT !.url = u]
    /\ UNCHANGED <<netVars, mapVars, caller, life>>

PeerTellsUuid(u) ==
    /\ listener.pc = "asking" /\ listener.url = u
    /\ serving[u] # None
    /\ listener' = [listener EXCEPT !.pc = "insert", !.uuid = serving[u]]
    /\ UNCHANGED <<netVars, mapVars, caller, life>>

PeerDoesNotTell ==
    /\ listener.pc = "asking"
    /\ listener' = At("top")
    /\ UNCHANGED <<netVars, mapVars, caller, life>>

ListenerInserts ==
    /\ listener.pc = "insert"
    /\ InsertPeer(listener.uuid, listener.url)
    /\ listener' = [listener EXCEPT !.pc = "roster"]
    /\ UNCHANGED <<netVars, uuid_to_peer, caller, life>>

HandleAbsent(u) ==
    /\ listener.pc = "poll"
    /\ <<"A", u>> \in msgs
    /\ IF u # SelfUrl /\ Known(u)
       THEN /\ RemoveUrl(u)
            /\ listener' = [At("unroster") EXCEPT !.uuid = url_to_uuid[u]]
       ELSE /\ listener' = At("top")
            /\ UNCHANGED <<ring, url_to_uuid>>
    /\ UNCHANGED <<netVars, uuid_to_peer, caller, life>>

\* The ends of insert_peer and remove_url, under the other mutex.
ListenerReports ==
    /\ listener.pc \in {"roster", "unroster"}
    /\ uuid_to_peer' = [uuid_to_peer EXCEPT ![listener.uuid] = listener.url]
    /\ listener' = At("top")
    /\ UNCHANGED <<netVars, ring, url_to_uuid, caller, life>>

----------------------------------------------------------------------------
\* distrib_cache_backend::refresh

\* Fuse callbacks end before the destructor begins, requests of peers come
\* until our server is told to stop, tasks of the disk cache's pool when they like.
MayCall(c, np) ==
    \/ life = "up"
    \/ life = "closing" /\ np
    \/ c \in Pool /\ life # "dead"

\* The hash of a url may lead to any peer of the ring.  A request that comes
\* from a peer has no_peer_cache, np, as has a refresh in its background.
Refresh(c, np) ==
    /\ caller[c].pc = "idle"
    /\ MayCall(c, np)
    /\ \E x \in Uuids :
         /\ ring[x] # None
         /\ caller' = [caller EXCEPT ![c] =
              IF np \/ x = Self THEN [Idle EXCEPT !.pc = "upstream"]
              ELSE [Idle EXCEPT !.pc = "peer", !.uuid = x, !.url = ring[x]]]
    /\ UNCHANGED <<netVars, mapVars, listener, life>>

\* peer_handler_t::p of the peer makes a request of its own to its disk cache.
PeerAnswers(c) ==
    /\ caller[c].pc = "peer"
    /\ serving[caller[c].url] # None
    /\ caller' = [caller EXCEPT ![c] = Idle]
    /\ UNCHANGED <<netVars, mapVars, listener, life>>

\* Mutant: the failed peer is removed by its uuid.
PeerFailsByUuid(c) ==
    /\ caller[c].pc = "peer"
    /\ IF ring[caller[c].uuid] # None
       THEN /\ RemoveUrl(ring[caller[c].uuid])
            /\ caller' = [caller EXCEPT ![c].pc = "unroster", ![c].url = None]
       ELSE /\ caller' = [caller EXCEPT ![c].pc = "upstream", ![c].url = None, ![c].uuid = None]
            /\ UNCHANGED <<ring, url_to_uuid>>
    /\ UNCHANGED <<netVars, uuid_to_peer, listener, life>>

\* handle_peer_error; the 'D' that it sends is ignored by all.
PeerFails(c) ==
    LET u == caller[c].url IN
    /\ caller[c].pc = "peer"
    /\ IF Known(u)
       THEN /\ RemoveUrl(u)
            /\ caller' = [caller EXCEPT ![c].pc = "unroster", ![c].url = None,
                                        ![c].uuid = url_to_uuid[u]]
       ELSE /\ caller' = [caller EXCEPT ![c].pc = "upstream", ![c].url = None, ![c].uuid = None]
            /\ UNCHANGED <<ring, url_to_uuid>>
    /\ UNCHANGED <<netVars, uuid_to_peer, listener, life>>

CallerReports(c) ==
    /\ caller[c].pc = "unroster"
    /\ uuid_to_peer' = [uuid_to_peer EXCEPT ![caller[c].uuid] = None]
    /\ caller' = [caller EXCEPT ![c].pc = "upstream", ![c].uuid = None]
    /\ UNCHANGED <<netVars, ring, url_to_uuid, listener, life>>

\* A reply or an exception.
UpstreamReturns(c) ==
    /\ caller[c].pc = "upstream"
    /\ caller' = [caller EXCEPT ![c] = Idle]
    /\ UNCHANGED <<netVars, mapVars, listener, life>>

----------------------------------------------------------------------------
\* fs123_destroy and ~distrib_cache_backend

\* (A peer's request under way might as well have come a moment later.)
SendAbsent ==
    /\ life = "up"
    /\ \A c \in Callers \ Pool : caller[c].pc = "idle"
    /\ life' = "closing"
    /\ msgs' = msgs \cup {<<"A", SelfUrl>>}
    /\ UNCHANGED <<serving, mapVars, listener, caller>>

\* myserver->stop(): no new request of a peer is taken.
StopServer ==
    /\ life = "closing"
    /\ life' = "stopping"
    /\ UNCHANGED <<netVars, mapVars, listener, caller>>

\* server_future.wait(), udp_done = true
ServerStopped ==
    /\ life = "stopping"
    /\ \A c \in Callers \ Pool : caller[c].pc = "idle"
    /\ life' = "joining"
    /\ UNCHANGED <<netVars, mapVars, listener, caller>>

\* udp_future.wait_for; then the memory is freed.
Destroyed ==
    /\ life = "joining"
    /\ listener.pc = "exited"
    /\ life' = "dead"
    /\ UNCHANGED <<netVars, mapVars, listener, caller>>

----------------------------------------------------------------------------
ListenerStep == \/ ListenerTop \/ ListenerQuiet \/ PeerDoesNotTell
                \/ \E u \in Urls : PeerTellsUuid(u)
                \/ ListenerInserts \/ ListenerReports

CallerStep(c) == \/ PeerAnswers(c) \/ PeerFails(c) \/ CallerReports(c)
                 \/ UpstreamReturns(c)

Destroy == SendAbsent \/ StopServer \/ ServerStopped \/ Destroyed

Next == \/ \E u \in Urls : \/ \E x \in Others : StartPeer(x, u)
                           \/ SendPresent(u) \/ StopPeer(u) \/ HandlePresent(u)
        \/ \E u \in AllUrls : HandleAbsent(u)
        \/ ListenerStep
        \/ \E c \in Callers : \/ \E np \in BOOLEAN : Refresh(c, np)
                              \/ CallerStep(c)
        \/ Destroy

Spec == Init /\ [][Next]_vars

\* Threads run and requests time out.  A peer that is up announces itself
\* again and again, and neither the network nor the peer refuses for ever.
Fairness == /\ WF_vars(ListenerStep)
            /\ \A c \in Callers : WF_vars(CallerStep(c))
            /\ WF_vars(StopServer) /\ WF_vars(ServerStopped) /\ WF_vars(Destroyed)
            /\ \A u \in Urls : /\ WF_vars(SendPresent(u))
                               /\ SF_vars(HandlePresent(u))
                               /\ SF_vars(PeerTellsUuid(u))
FairSpec == Spec /\ Fairness

----------------------------------------------------------------------------
(* The type invariant; a caller holds a peer only while it talks to it, and
   everybody else's server is somebody else's. *)
TypeOK == /\ serving \in [Urls -> Others \cup {None}]
          /\ msgs \subseteq {"P", "A"} \X AllUrls
          /\ ring \in [Uuids -> AllUrls \cup {None}]
          /\ url_to_uuid \in [AllUrls -> Uuids \cup {None}]
          /\ uuid_to_peer \in [Uuids -> AllUrls \cup {None}]
          /\ listener \in Listener
          /\ listener.pc \in {"asking", "insert"} => listener.url \in Urls
          /\ listener.pc = "insert" => listener.uuid \in Others
          /\ listener.pc \in {"roster", "unroster"} => listener.uuid \in Uuids
          /\ caller \in [Callers -> Caller]
          /\ \A c \in Callers : /\ caller[c].pc = "peer" => caller[c].url \in Urls
                                /\ caller[c].pc = "unroster" => caller[c].uuid \in Uuids
                                /\ caller[c].pc \in {"idle", "upstream"} => caller[c].uuid = None
          /\ life \in {"up", "closing", "stopping", "joining", "dead"}

(* "It's practical to enforce a one-to-one mapping from url to uuid": ring and
   url_to_uuid are inverse to each other whenever mtx is free, although the
   listener looks up a url, forgets the lock, talks to the peer, and only
   then inserts, while callers remove peers and peers move to other urls. *)
OneToOne == /\ \A x \in Uuids : ring[x] # None => url_to_uuid[ring[x]] = x
            /\ \A u \in AllUrls : url_to_uuid[u] # None => ring[url_to_uuid[u]] = u

(* This mount is always in its own ring, under its own url: lookup finds a
   peer ("empty cache?  That shouldn't happen"), and a request whose hash
   leads to us goes upstream and never to our own server. *)
SelfRouted == ring[Self] = SelfUrl

\* Somebody has a reason to drop u: it said ABSENT, or fails a request now.
Blamed(u) == \/ <<"A", u>> \in msgs
             \/ \E c \in Callers : caller[c].pc = "peer" /\ caller[c].url = u

(* A peer leaves the ring only if its present url said ABSENT or fails a
   request: a late ABSENT or error of an earlier incarnation never removes
   the one that took its place. *)
RemovedWasBlamed ==
    [][\A x \in Uuids : ring[x] # None /\ ring'[x] = None => Blamed(ring[x])]_vars

(* A peer that stays up is used again and again, whatever was lost, and
   although callers and late messages may remove it. *)
EventuallyRouted ==
    \A u \in Urls : <>[](serving[u] # None /\ life = "up") => []<>(\E x \in Uuids : ring[x] = u)

(* The destructor returns. *)
ShutdownReturns == life # "up" ~> life = "dead"
=============================================================================
