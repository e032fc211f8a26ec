------------------------------- MODULE Fallback -------------------------------
(***************************************************************************)
(* Retries and fallback urls: retrying_berefresh, delay_manager and         *)
(* rethrow_to_abandon_retry (app_mount.cpp) above                           *)
(* curl_handler::perform_with_fallback (backend123_http.cpp).               *)
(*                                                                          *)
(* A thread asks the first baseurl that is not deferred, or the least       *)
(* deferred one.  A failure defers the baseurl for all threads; the thread  *)
(* sleeps and tries again, for a total time.  Points in time are kept as    *)
(* what is left until them: only differences matter.                        *)
(***************************************************************************)
EXTENDS Integers, FiniteSetsExt

CONSTANTS
  Callbacks,      \* threads that serve a callback
  UrlCounts,      \* how many baseurls there may be: the first and its fallbacks
  RetryTimeouts,  \* values of retry_timeout, which an ioctl may set at any time
  Initial,        \* retry_initial_millis
  Saturate,       \* retry_saturate
  MinDefer,       \* five seconds
  MaxDefer,       \* ten minutes
  Timeout         \* the longest time that perform_without_fallback takes

Parameters == /\ UrlCounts \subseteq Nat \ {0} /\ RetryTimeouts \subseteq Nat
              /\ Initial \in Nat /\ Saturate \in Nat
              /\ MinDefer \in Nat /\ MaxDefer \in Nat /\ MinDefer <= MaxDefer
              /\ Timeout \in Nat \ {0}
ASSUME ParametersAssumption == Parameters

\* "Defer for at least 5 seconds, to give the high-level retry logic a chance": with the
\* default delays (100 ms, 1 s) the retry comes before that.
ShortDelays == Initial < MinDefer /\ Saturate < MinDefer
ASSUME DelayAssumption == ShortDelays

VARIABLES
  nurls,     \* baseurls.size()
  healthy,   \* the baseurls whose servers answer every request
  deferred,  \* per baseurl, the time left until deferred_until; -1 if that has passed
  call       \* per thread, its retrying_berefresh

fallbackVars == <<nurls, healthy, deferred, call>>

Urls == 1 .. nurls
LongestDelay == Max({Initial, Saturate})

NoCall(outcome) == [pc |-> "idle", good |-> TRUE, ttl |-> 0, left |-> 0, delay |-> 0, sleep |-> 0,
                    url |-> 0, least |-> 0, min |-> 0, elapsed |-> 0, spoiled |-> FALSE,
                    outcome |-> outcome]

Calls == [pc : {"idle", "look", "perform", "sleep"}, good : BOOLEAN, ttl : Nat, left : Int,
          delay : 0 .. LongestDelay, sleep : 0 .. LongestDelay, url : 0 .. nurls,
          least : 0 .. nurls, min : 0 .. MaxDefer + 1, elapsed : 0 .. Timeout,
          spoiled : BOOLEAN, outcome : {"none", "reply", "hopeless", "timed_out"}]

FallbackInit == /\ nurls \in UrlCounts
                /\ healthy \in SUBSET Urls
                /\ deferred = [u \in Urls |-> -1]
                /\ call = [t \in Callbacks |-> NoCall("none")]

-----------------------------------------------------------------------------
(* perform_with_fallback.                                                   *)

\* started_at is read; the search begins at the first baseurl.
Looking(c) == [c EXCEPT !.pc = "look", !.url = 1, !.least = 1, !.min = MaxDefer + 1, !.elapsed = 0]
Performing(c, u) == [c EXCEPT !.pc = "perform", !.url = u, !.least = 0, !.min = 0]

\* The load of one deferred_until, and what follows from it.
Look(t) ==
  LET c == call[t]
      dui == deferred[c.url]
      least == IF dui < c.min THEN c.url ELSE c.least
  IN  /\ c.pc = "look"
      /\ call' = [call EXCEPT ![t] =
           IF nurls = 1 \/ dui < 0 THEN Performing(c, c.url)
           ELSE IF c.url = nurls THEN Performing(c, least)
           ELSE [c EXCEPT !.url = @ + 1, !.least = least, !.min = Min({dui, @})]]
      /\ UNCHANGED <<nurls, healthy, deferred>>

\* Mutant: the time that the failure took, and no less.
DeferAsLong(howlong) == Min({howlong, MaxDefer})

\* Mutant: no upper end.
DeferLonger(howlong) == Max({MinDefer, howlong})

DeferFor(howlong) == Min({Max({MinDefer, howlong}), MaxDefer})

\* A call's record of a healthy baseurl that it may find deferred.
Spoil(c, u) == IF u \in healthy /\ c.pc # "idle" THEN [c EXCEPT !.spoiled = TRUE] ELSE c

-----------------------------------------------------------------------------
(* retrying_berefresh.                                                      *)

\* A request is good if a healthy server answers it; others fail everywhere (a path that
\* does not exist, or that the server cannot read).
Refresh(t, ttl, good) ==
  /\ call[t].pc = "idle"
  /\ call' = [call EXCEPT ![t] = Looking([NoCall("none") EXCEPT
       !.good = good, !.ttl = ttl, !.left = ttl, !.delay = Initial,
       !.spoiled = \E u \in healthy : deferred[u] >= 0])]
  /\ UNCHANGED <<nurls, healthy, deferred>>

Succeed(t) ==
  /\ call[t].pc = "perform" /\ call[t].good /\ call[t].url \in healthy
  /\ call' = [call EXCEPT ![t] = NoCall("reply")]
  /\ UNCHANGED <<nurls, healthy, deferred>>

\* Mutant: the total time is not looked at.
NeverExceeded(c) == c.ttl = 0

\* delay_manager::delay returns false.
TimeExceeded(c) == c.ttl = 0 \/ c.left < 0

\* What rethrow_to_abandon_retry, which rethrows what is not worth a retry, and dm.delay()
\* make of a failure.
AfterFailure(c, retryable) ==
  CASE ~retryable -> NoCall("hopeless")
    [] retryable /\ TimeExceeded(c) ->
         [NoCall("timed_out") EXCEPT !.good = c.good, !.ttl = c.ttl, !.spoiled = c.spoiled]
    [] OTHER -> [c EXCEPT !.pc = "sleep", !.url = 0, !.elapsed = 0, !.sleep = c.delay,
                          !.delay = Min({2 * @, Saturate})]

\* perform_without_fallback throws: the catch block of perform_with_fallback, and what
\* follows in retrying_berefresh.
Fail(t, retryable) ==
  LET c == call[t]
      u == c.url
      next == AfterFailure(c, retryable)
  IN  /\ c.pc = "perform" /\ ~(c.good /\ u \in healthy)
      /\ IF nurls = 1
         THEN /\ call' = [call EXCEPT ![t] = next]
              /\ UNCHANGED deferred
         ELSE /\ deferred' = [deferred EXCEPT ![u] = DeferFor(c.elapsed)]
              /\ call' = [s \in Callbacks |-> Spoil(IF s = t THEN next ELSE call[s], u)]
      /\ UNCHANGED <<nurls, healthy>>

Wake(t) ==
  /\ call[t].pc = "sleep" /\ call[t].sleep = 0
  /\ call' = [call EXCEPT ![t] = Looking(@)]
  /\ UNCHANGED <<nurls, healthy, deferred>>

-----------------------------------------------------------------------------
(* Time.  Only transfers and sleeps take any; both end in time.             *)

Older(c) == CASE c.pc = "perform" -> [c EXCEPT !.elapsed = @ + 1, !.left = @ - 1]
              [] c.pc = "sleep"   -> [c EXCEPT !.sleep = @ - 1, !.left = @ - 1]
              [] OTHER            -> c

TimePasses ==
  /\ \A t \in Callbacks : /\ call[t].pc # "look"
                          /\ call[t].pc = "perform" => call[t].elapsed < Timeout
                          /\ call[t].pc = "sleep" => call[t].sleep > 0
  /\ deferred' = [u \in Urls |-> Max({deferred[u] - 1, -1})]
  /\ call' = [t \in Callbacks |-> Older(call[t])]
  /\ UNCHANGED <<nurls, healthy>>

FallbackNext == \/ TimePasses
                \/ \E t \in Callbacks : \/ \E ttl \in RetryTimeouts, good \in BOOLEAN :
                                             Refresh(t, ttl, good)
                                        \/ Look(t) \/ Succeed(t) \/ Wake(t)
                                        \/ \E retryable \in BOOLEAN : Fail(t, retryable)

FallbackSpec == FallbackInit /\ [][FallbackNext]_fallbackVars

-----------------------------------------------------------------------------
(* Properties.                                                              *)

\* Types; a baseurl is never deferred for more than ten minutes.
FallbackTypeOK ==
  /\ nurls \in UrlCounts /\ healthy \subseteq Urls
  /\ deferred \in [Urls -> -1 .. MaxDefer]
  /\ call \in [Callbacks -> Calls]
  /\ \A t \in Callbacks : /\ call[t].pc \in {"look", "perform"} => call[t].url # 0
                          /\ call[t].pc = "look" => call[t].least # 0

\* What delay_manager promises: "the total elapsed time reaches ttl_seconds".  A callback
\* does not hang for longer than retry_timeout, one delay and one last transfer.
BoundedWait ==
  \A t \in Callbacks : call[t].pc # "idle" => call[t].left >= -(LongestDelay + Timeout)

\* Time to try every baseurl once.
EnoughTime(ttl) == ttl >= (nurls - 1) * (Timeout + LongestDelay)

\* Fallback and retry together: while the server of some baseurl is healthy, a good request
\* does not fail with its retry_timeout, if that leaves the time to try every baseurl;
\* whatever the other threads do, unless one of them has had that baseurl deferred for an
\* error of its own path (the case that the comment in perform_with_fallback mentions).
\* With three baseurls it does not hold: two that fail may take the search in turn, each as
\* soon as its deferral is over, and the third is never tried.
NeverAbandoned ==
  \A t \in Callbacks :
    call[t].outcome = "timed_out" /\ call[t].good /\ EnoughTime(call[t].ttl)
      => healthy = {} \/ call[t].spoiled

=============================================================================
