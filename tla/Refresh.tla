------------------------------ MODULE Refresh ------------------------------
(***************************************************************************)
(* How old the data of one url may be when diskcache::refresh              *)
(* (exe/fs123p7/diskcache.cpp) hands it to the mount: the decision between *)
(* the cached file, stale-while-revalidate with a background refresh,      *)
(* upstream and stale-if-error, and the times that                         *)
(* backend123_http::refresh (exe/fs123p7/backend123_http.cpp) and reply123 *)
(* (exe/fs123p7/backend123.hpp) give to a reply.                           *)
(*                                                                         *)
(* The file on disk is read and replaced atomically, or lost: that is what *)
(* module DiskCacheStore is about.  A task of the thread pool runs as soon *)
(* or as late as it likes, which covers any number of pool threads.        *)
(***************************************************************************)
EXTENDS Integers

CONSTANTS
    Callers,        \* fuse callback threads
    Tasks,          \* places in the thread pool and its backlog
    MaxAge,         \* max-age of the server's replies
    Swr,            \* stale-while-revalidate of the server's replies
    PastSwr,        \* Fs123PastStaleWhileRevalidate
    StaleIfError,   \* Fs123StaleIfError
    MaxDelay,       \* Fs123TransferTimeout
    Start,          \* the time when the model starts; reply123{} expires at 0
    MaxNow,         \* bound: the last point in time
    MaxVersion      \* bound: modifications on the server

ASSUME ThreadsAssumption == Callers \cap Tasks = {}
ASSUME TimesAssumption ==
    {MaxAge, Swr, PastSwr, StaleIfError, MaxDelay, Start, MaxNow, MaxVersion} \subseteq Nat
\* The Unix epoch is too long ago for any staleness to reach back to it.
ASSUME EpochAssumption == Start > MaxAge + Swr + PastSwr + StaleIfError

Threads == Callers \cup Tasks
Versions == 0 .. MaxVersion
Reply123 == [valid : BOOLEAN, v : Versions, expires : Int]
Invalid == [valid |-> FALSE, v |-> 0, expires |-> 0]

VARIABLES
    now,            \* the clock
    server,         \* the version of the object on the server
    superseded,     \* superseded[v]: when version v was replaced by v + 1
    disconnected,   \* volatiles_t::disconnected, set by an ioctl
    recently,       \* the url is in the list of recently_refreshed
    disk,           \* what deserialize returns
    th,             \* th[x]: the activation of refresh in thread or task x
    answer          \* history: the last answer of refresh

timeVars == <<now, server, superseded>>
vars == <<timeVars, disconnected, recently, disk, th, answer>>

PCs == {"idle", "upstream", "sent", "answered", "submit", "submitbg", "serialize"}
Thread ==
    [pc : PCs,                  \* what it waits for
     r : Reply123,              \* its reply123
     no_cache : BOOLEAN, usable_if_error : BOOLEAN,
     floor : Versions,          \* history: for no_cache, the server's version at the call
     ver : Versions,            \* the answer under way: its version, ...
     born : Int,                \* ... a time when that was the server's,
     at : Int]                  \* when it was sent; when a wait in submit began
Idle == [pc |-> "idle", r |-> Invalid, no_cache |-> FALSE, usable_if_error |-> FALSE,
         floor |-> 0, ver |-> 0, born |-> 0, at |-> 0]

Init == /\ now = Start
        /\ server = 0
        /\ superseded = [v \in Versions |-> 0]
        /\ disconnected = FALSE
        /\ recently = FALSE
        /\ disk = Invalid
        /\ th = [x \in Threads |-> Idle]
        /\ answer = [how |-> "none", v |-> 0, late |-> 0, need |-> 0, waited |-> 0]

----------------------------------------------------------------------------
\* The world around.

Modify == /\ server < MaxVersion
          /\ server' = server + 1
          /\ superseded' = [superseded EXCEPT ![server] = now]
          /\ UNCHANGED <<now, disconnected, recently, disk, th, answer>>

\* A tick is longer than the window of recently_refreshed, 500 msec.
Tick == /\ now < MaxNow
        /\ now' = now + 1
        /\ recently' = FALSE
        /\ UNCHANGED <<server, superseded, disconnected, disk, th, answer>>

Disconnect == /\ disconnected' = ~disconnected
              /\ UNCHANGED <<timeVars, recently, disk, th, answer>>

Evict == /\ disk.valid
         /\ disk' = Invalid
         /\ UNCHANGED <<timeVars, disconnected, recently, th, answer>>

\* Version v was the server's at some point of tick b.
Current(v, b) == /\ v = server \/ superseded[v] >= b
                 /\ v > 0 => superseded[v - 1] <= b

\* Mutant: the no-cache header is forgotten.
ToOriginNever(x) == FALSE

\* The request says Cache-control: no-cache.
ToOrigin(x) == th[x].no_cache

\* The origin server, or a proxy on its behalf, answers.  A proxy's copy is
\* at most stale-while-revalidate past max-age; no-cache goes to the origin.
Respond(x) ==
    /\ th[x].pc = "sent"
    /\ \E b \in now - MaxAge - Swr .. now, v \in 0 .. server :
         /\ Current(v, b)
         /\ ToOrigin(x) => b = now /\ v = server
         /\ th' = [th EXCEPT ![x].pc = "answered", ![x].ver = v, ![x].born = b, ![x].at = now]
    /\ UNCHANGED <<timeVars, disconnected, recently, disk, answer>>

----------------------------------------------------------------------------
\* diskcache::refresh up to the point where it returns or asks upstream.

ttl(rep) == rep.expires - now
NetSwr(max_stale0) == IF max_stale0 THEN 0 ELSE Swr + PastSwr
Usable(rep) == rep.valid /\ StaleIfError >= -ttl(rep)

\* How long ago v was replaced on the server.
Late(v) == IF v = server THEN 0 ELSE now - superseded[v]

\* refresh returns, w after it has settled what to return.
Answer(rep, kind, v0, w) ==
    answer' = [how |-> kind, v |-> rep.v, late |-> Late(rep.v), need |-> v0, waited |-> w]

RefreshHit(c) ==
    /\ th[c].pc = "idle"
    /\ ttl(disk) > 0
    /\ Answer(disk, "cache", 0, 0)
    /\ UNCHANGED <<timeVars, disconnected, recently, disk, th>>

\* maybe_bg_upstream_refresh: the url is noted before disconnected is tested.
\* The caller gets its stale reply after the refresh has been submitted.
MaybeBgRefresh(c) ==
    /\ recently' = TRUE
    /\ IF recently \/ disconnected THEN Answer(disk, "cache", 0, 0) /\ UNCHANGED th
       ELSE /\ th' = [th EXCEPT ![c] = [Idle EXCEPT !.pc = "submitbg", !.r = disk, !.at = now]]
            /\ UNCHANGED answer

RefreshStale(c, max_stale0) ==
    /\ th[c].pc = "idle"
    /\ ttl(disk) <= 0 /\ ttl(disk) > -NetSwr(max_stale0)
    /\ MaybeBgRefresh(c)
    /\ UNCHANGED <<timeVars, disconnected, disk>>

MustRefresh(nc, max_stale0) == nc \/ ttl(disk) <= -NetSwr(max_stale0)

\* The first lines of upstream_refresh.
RefreshDisconnected(c, nc, max_stale0) ==
    /\ th[c].pc = "idle"
    /\ MustRefresh(nc, max_stale0)
    /\ disconnected /\ Usable(disk)
    /\ Answer(disk, "error", 0, 0)
    /\ UNCHANGED <<timeVars, disconnected, recently, disk, th>>

RefreshUpstream(c, nc, max_stale0) ==
    /\ th[c].pc = "idle"
    /\ MustRefresh(nc, max_stale0)
    /\ ~(disconnected /\ Usable(disk))
    /\ th' = [th EXCEPT ![c] = [Idle EXCEPT !.pc = "upstream", !.r = disk, !.no_cache = nc,
                                            !.usable_if_error = Usable(disk),
                                            !.floor = IF nc THEN server ELSE 0]]
    /\ UNCHANGED <<timeVars, disconnected, recently, disk, answer>>

----------------------------------------------------------------------------
\* backend123_http::refresh, and what diskcache does with its result.

Send(x) == /\ th[x].pc = "upstream"
           /\ ~disconnected
           /\ th' = [th EXCEPT ![x].pc = "sent"]
           /\ UNCHANGED <<timeVars, disconnected, recently, disk, answer>>

\* If-None-Match was sent, and the etag is still the server's.
NotModified(x) == ~th[x].no_cache /\ th[x].r.valid /\ th[x].r.v = th[x].ver

\* Mutant: the Age header is ignored.
ExpiresFromNow(x) == now + MaxAge

\* The age of the answer when it was sent is its Age header.
Expires(x) == now - (th[x].at - th[x].born) + MaxAge

\* 304 renews the reply that was read from disk, 200 replaces it.
Received(x) == IF NotModified(x) THEN [th[x].r EXCEPT !.expires = Expires(x)]
               ELSE [valid |-> TRUE, v |-> th[x].ver, expires |-> Expires(x)]

Arrived(x) == th[x].pc = "answered" /\ now - th[x].at <= MaxDelay

\* do_serialize: a caller submits a task ...
CallerReceives(c) ==
    /\ Arrived(c)
    /\ th' = [th EXCEPT ![c] = [Idle EXCEPT !.pc = "submit", !.r = Received(c),
                                            !.floor = th[c].floor, !.at = now]]
    /\ UNCHANGED <<timeVars, disconnected, recently, disk, answer>>

\* ... and a task, which is already detached, does it itself.
TaskReceives(t) ==
    /\ Arrived(t)
    /\ th' = [th EXCEPT ![t] = [Idle EXCEPT !.pc = "serialize", !.r = Received(t)]]
    /\ UNCHANGED <<timeVars, disconnected, recently, disk, answer>>

\* threadpool::submit blocks while the backlog is full; then refresh returns.
Submit(c, t) ==
    /\ th[c].pc \in {"submit", "submitbg"}
    /\ th[t].pc = "idle"
    /\ th' = [th EXCEPT
         ![c] = Idle,
         ![t] = [Idle EXCEPT !.pc = IF th[c].pc = "submit" THEN "serialize" ELSE "upstream",
                             !.r = th[c].r]]
    /\ Answer(th[c].r, IF th[c].pc = "submit" THEN "upstream" ELSE "cache",
              th[c].floor, now - th[c].at)
    /\ UNCHANGED <<timeVars, disconnected, recently, disk>>

\* Written; or refused or an .new file in the way; or failed and unlinked.
Serialize(t) ==
    /\ th[t].pc = "serialize"
    /\ disk' \in {th[t].r, disk, Invalid}
    /\ th' = [th EXCEPT ![t] = Idle]
    /\ UNCHANGED <<timeVars, disconnected, recently, answer>>

\* An exception: disconnected, a failed or timed out transfer, a bad reply.
Throws(x) == \/ th[x].pc = "upstream" /\ disconnected
             \/ th[x].pc \in {"sent", "answered"}

\* Mutant: the catch block does not look at the time again.
CallerFallsBackUnchecked(c) ==
    /\ Throws(c)
    /\ th[c].usable_if_error /\ disk.valid
    /\ th' = [th EXCEPT ![c] = Idle]
    /\ Answer(disk, "error", 0, 0)
    /\ UNCHANGED <<timeVars, disconnected, recently, disk>>

\* The catch block reads the file, which may have changed, once more.
CallerFallsBack(c) ==
    /\ Throws(c)
    /\ th[c].usable_if_error /\ Usable(disk)
    /\ th' = [th EXCEPT ![c] = Idle]
    /\ Answer(disk, "error", 0, 0)
    /\ UNCHANGED <<timeVars, disconnected, recently, disk>>

CallerThrows(c) ==
    /\ Throws(c)
    /\ ~(th[c].usable_if_error /\ Usable(disk))
    /\ th' = [th EXCEPT ![c] = Idle]
    /\ UNCHANGED <<timeVars, disconnected, recently, disk, answer>>

TaskFails(t) ==
    /\ Throws(t)
    /\ th' = [th EXCEPT ![t] = Idle]
    /\ UNCHANGED <<timeVars, disconnected, recently, disk, answer>>

----------------------------------------------------------------------------
CallerNext(c) ==
    \/ RefreshHit(c)
    \/ \E m \in BOOLEAN : RefreshStale(c, m)
    \/ \E nc, m \in BOOLEAN : RefreshDisconnected(c, nc, m) \/ RefreshUpstream(c, nc, m)
    \/ CallerReceives(c)
    \/ \E t \in Tasks : Submit(c, t)
    \/ CallerFallsBack(c) \/ CallerThrows(c)

TaskNext(t) == TaskReceives(t) \/ Serialize(t) \/ TaskFails(t)

Next == \/ Modify \/ Tick \/ Disconnect \/ Evict
        \/ \E x \in Threads : Respond(x) \/ Send(x)
        \/ \E c \in Callers : CallerNext(c)
        \/ \E t \in Tasks : TaskNext(t)

Spec == Init /\ [][Next]_vars

----------------------------------------------------------------------------
(* The type invariant; only tasks serialize and only callers wait to submit,
   ask for no_cache or fall back. *)
TypeOK == /\ now \in Nat
          /\ server \in Versions
          /\ superseded \in [Versions -> Nat]
          /\ disconnected \in BOOLEAN /\ recently \in BOOLEAN
          /\ disk \in Reply123
          /\ th \in [Threads -> Thread]
          /\ \A c \in Callers : th[c].pc # "serialize"
          /\ \A t \in Tasks : /\ th[t].pc \notin {"submit", "submitbg"}
                              /\ ~th[t].no_cache /\ ~th[t].usable_if_error
          /\ answer \in [how : {"none", "cache", "upstream", "error"}, v : Versions,
                         late : Int, need : Versions, waited : Int]

(* Unless upstream failed, what refresh returns was replaced on the server no
   longer ago than the settled time allows, plus one transfer, plus the time
   that the caller has waited for a place in the backlog: whatever background
   refreshes, late replies, proxies and serializations out of order do, the
   lifetimes do not add up. *)
SettledAnswers == answer.how \in {"cache", "upstream"} =>
                    answer.late <= MaxAge + Swr + PastSwr + MaxDelay + answer.waited

(* If upstream failed, it is bounded by stale-if-error. *)
BoundedOnError == answer.how = "error" => answer.late <= MaxAge + StaleIfError + MaxDelay

(* A no_cache request that upstream answers gets what the server had when the
   request was made, or newer. *)
NoCacheIsCurrent == answer.how # "error" => answer.v >= answer.need
=============================================================================
