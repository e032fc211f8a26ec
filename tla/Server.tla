-------------------------------- MODULE Server --------------------------------
(***************************************************************************)
(* The server library (lib/fs123server.cpp, fs123server.hpp): the life of a *)
(* request from http_cb to evhttp_send_reply, and that of the server from   *)
(* run() to its destruction as app_exportd does it.                         *)
(*                                                                          *)
(* Every listener is a thread with an event loop, and serves the requests   *)
(* that it accepts.  A synchronous handler replies before it returns; a     *)
(* tp_handler hands the request to a pool (module Pool), and the reply may  *)
(* have to go back to the loop through a pipe, the async_reply_mechanism.   *)
(* A secondary listener's loop, connections and pipe die with its thread;   *)
(* those of the primary with the server.                                    *)
(***************************************************************************)
EXTENDS Integers, Sequences

CONSTANTS
  Modes,     \* how the server may be configured: see ServerInit
  Requests,  \* requests that are there at the same time
  PipeCap    \* replies that fit in a pipe

Configurations == Modes \subseteq [async : BOOLEAN, arm : BOOLEAN, idle : BOOLEAN,
                                   nlisteners : Nat \ {0}]
ASSUME ModeAssumption == Configurations /\ PipeCap \in Nat

VARIABLES
  mode,  \* async: not strictly_synchronous; arm: async_reply_mechanism; idle: exit_after_idle
  main,  \* the primary thread: "starting", "looping", "joining", "returned", "pool_gone", "gone"
  done,  \* the atomic
  loop,  \* per listener: "none", "setup", "running", "broken", "freed"; 1 is the primary
  req,   \* per request: who has it, its listener, req::replied, calls of evhttp_send_reply
  pipe   \* per listener, the replies in its pipe

serverVars == <<mode, main, done, loop, req, pipe>>

Listeners == UNION {1 .. m.nlisteners : m \in Modes}
Primary == 1

Absent == [at |-> "none", listener |-> Primary,
           replied |-> FALSE, dropped |-> FALSE, sends |-> 0]

ServerInit == /\ mode \in Modes
              /\ main = "starting" /\ done = FALSE
              /\ loop = [l \in Listeners |-> IF l = Primary THEN "setup" ELSE "none"]
              /\ req = [r \in Requests |-> Absent]
              /\ pipe = [l \in Listeners |-> <<>>]

-----------------------------------------------------------------------------
(* Replies.                                                                 *)

UsesPipe == mode.async /\ mode.arm

\* Who has the req: the callback in its listener's loop, the pool's queue, or a pool thread.
InLoop(r) == req[r].at = "loop"
Owned(r) == req[r].at \in {"loop", "queue", "worker"}

\* Mutant: a write to the pipe never fails.
NeverFull(l) == FALSE

\* A write to the pipe fails, with EAGAIN, when that is full: the reply is never sent.
Full(l) == Len(pipe[l]) = PipeCap

\* Nor is it when the listener has gone and has closed its pipe.
Takes(l) == ~Full(l) /\ loop[l] # "freed"

Sent(c) == [c EXCEPT !.sends = @ + 1]

\* log_and_send_destructively, to which every reply comes: the request and the pipe after it.
\* The reply is lost when maybe_call_logger throws, and replied is set by then.
Replied(c, lost) ==
  LET tried == [c EXCEPT !.replied = TRUE]
  IN  IF lost \/ UsesPipe THEN [tried EXCEPT !.dropped = lost \/ ~Takes(c.listener)]
                          ELSE Sent(tried)
PipeAfter(r, lost) == IF ~lost /\ UsesPipe /\ Takes(req[r].listener)
                      THEN [pipe EXCEPT ![req[r].listener] = Append(@, r)] ELSE pipe

\* A parser's or a handler's reply: one of the xxx_reply functions or exception_reply.
\* Through a listener that has gone its effect is undefined, and one of these at best.
Reply(r) == /\ req[r].at \in {"loop", "worker"} /\ ~req[r].replied
            /\ \E lost \in BOOLEAN : /\ req' = [req EXCEPT ![r] = Replied(@, lost)]
                                     /\ pipe' = PipeAfter(r, lost)
            /\ UNCHANGED <<mode, main, done, loop>>

\* Mutant: ~req replies whether or not somebody has replied.
DestroyReplies(r) == /\ req[r].at \in {"loop", "worker"}
                     /\ req' = [req EXCEPT ![r] = [Replied(@, FALSE) EXCEPT !.at = "gone"]]
                     /\ pipe' = PipeAfter(r, FALSE)
                     /\ UNCHANGED <<mode, main, done, loop>>

\* Mutant: ~req does not reply.
DestroySilently(r) == /\ req[r].at \in {"loop", "worker"}
                      /\ req' = [req EXCEPT ![r].at = "gone"]
                      /\ UNCHANGED <<mode, main, done, loop, pipe>>

\* The callback or the pool's task ends, perhaps with an exception: ~req, which replies
\* if nobody has.
Destroy(r) == /\ req[r].at \in {"loop", "worker"}
              /\ IF req[r].replied
                 THEN req' = [req EXCEPT ![r].at = "gone"] /\ UNCHANGED pipe
                 ELSE \E lost \in BOOLEAN :
                        /\ req' = [req EXCEPT ![r] = [Replied(@, lost) EXCEPT !.at = "gone"]]
                        /\ pipe' = PipeAfter(r, lost)
              /\ UNCHANGED <<mode, main, done, loop>>

-----------------------------------------------------------------------------
(* A listener's event loop.                                                 *)

Ready(l) == loop[l] = "running" /\ \A r \in Requests : InLoop(r) => req[r].listener # l

\* http_cb: the request is parsed in the loop's thread.
Accept(l, r) ==
  /\ Ready(l) /\ req[r].at = "none"
  /\ req' = [req EXCEPT ![r] = [Absent EXCEPT !.at = "loop", !.listener = l]]
  /\ UNCHANGED <<mode, main, done, loop, pipe>>

\* tp_handler: req.release() and submit.
Submit(r) ==
  /\ InLoop(r) /\ ~req[r].replied /\ mode.async
  /\ req' = [req EXCEPT ![r].at = "queue"]
  /\ UNCHANGED <<mode, main, done, loop, pipe>>

\* asynccb: one reply is read from the pipe.
Asynccb(l) ==
  /\ Ready(l) /\ pipe[l] # <<>>
  /\ req' = [req EXCEPT ![Head(pipe[l])] = Sent(@)]
  /\ pipe' = [pipe EXCEPT ![l] = Tail(@)]
  /\ UNCHANGED <<mode, main, done, loop>>

\* donecheck_cb, which each loop calls from time to time.
DonecheckCb(l) ==
  /\ Ready(l) /\ (done \/ mode.idle)
  /\ loop' = [loop EXCEPT ![l] = "broken"]
  /\ UNCHANGED <<mode, main, done, req, pipe>>

\* libevent frees an evhttp_request some time after its reply was sent.
Finish(r) ==
  /\ req[r].at = "gone" /\ (req[r].sends > 0 \/ loop[req[r].listener] = "freed")
  /\ \A l \in Listeners : \A i \in DOMAIN pipe[l] : pipe[l][i] # r
  /\ req' = [req EXCEPT ![r] = Absent]
  /\ UNCHANGED <<mode, main, done, loop, pipe>>

-----------------------------------------------------------------------------
(* The pool's threads.                                                      *)

Take(r) ==
  /\ req[r].at = "queue"
  /\ req' = [req EXCEPT ![r].at = "worker"]
  /\ UNCHANGED <<mode, main, done, loop, pipe>>

-----------------------------------------------------------------------------
(* run(), stop() and the destructors.                                       *)

StartListener(l) ==
  /\ main = "starting" /\ ~done /\ l <= mode.nlisteners
  /\ loop[l] = "none" /\ \A k \in 1 .. l - 1 : loop[k] # "none"
  /\ loop' = [loop EXCEPT ![l] = "setup"]
  /\ UNCHANGED <<mode, main, done, req, pipe>>

\* A secondary listener's thread: its setup, which may throw, and its end.
SetUp(l) ==
  /\ l # Primary /\ loop[l] = "setup"
  /\ \E s \in {"running", "freed"} : loop' = [loop EXCEPT ![l] = s]
  /\ UNCHANGED <<mode, main, done, req, pipe>>

Freed(l) == /\ loop' = [loop EXCEPT ![l] = "freed"]
            /\ pipe' = [pipe EXCEPT ![l] = <<>>]

ListenerEnds(l) ==
  /\ l # Primary /\ loop[l] = "broken" /\ Freed(l)
  /\ UNCHANGED <<mode, main, done, req>>

EnterLoop ==
  /\ main = "starting" /\ (done \/ \A l \in 1 .. mode.nlisteners : loop[l] # "none")
  /\ main' = "looping" /\ loop' = [loop EXCEPT ![Primary] = "running"]
  /\ UNCHANGED <<mode, done, req, pipe>>

\* SIGINT, SIGTERM, SIGHUP or SIGQUIT: event_base_loopbreak of the primary.
Signal ==
  /\ Ready(Primary) /\ loop' = [loop EXCEPT ![Primary] = "broken"]
  /\ UNCHANGED <<mode, main, done, req, pipe>>

Stop ==
  /\ ~done /\ main # "gone" /\ done' = TRUE
  /\ UNCHANGED <<mode, main, loop, req, pipe>>

\* Mutant: the primary does not tell the others.
LeaveLoopQuietly ==
  /\ main = "looping" /\ loop[Primary] = "broken"
  /\ main' = "joining"
  /\ UNCHANGED <<mode, done, loop, req, pipe>>

LeaveLoop ==
  /\ main = "looping" /\ loop[Primary] = "broken"
  /\ main' = "joining" /\ done' = TRUE
  /\ UNCHANGED <<mode, loop, req, pipe>>

Joined ==
  /\ main = "joining" /\ \A l \in Listeners \ {Primary} : loop[l] \in {"none", "freed"}
  /\ main' = "returned"
  /\ UNCHANGED <<mode, done, loop, req, pipe>>

\* Mutant: the server is destroyed before the pool, as it is when it is declared last.
ServerFirst ==
  /\ main = "returned"
  /\ main' = "pool_gone" /\ Freed(Primary)
  /\ UNCHANGED <<mode, done, req>>

\* ~tp_handler: the pool's destructor waits for its tasks.  The server is declared before
\* the tp_handler and goes after it.
DestroyPool ==
  /\ main = "returned"
  /\ \A r \in Requests : req[r].at \notin {"queue", "worker"}
  /\ main' = "pool_gone"
  /\ UNCHANGED <<mode, done, loop, req, pipe>>

DestroyServer ==
  /\ main = "pool_gone" /\ main' = "gone" /\ Freed(Primary)
  /\ UNCHANGED <<mode, done, req>>

MainStep == EnterLoop \/ LeaveLoop \/ Joined \/ DestroyPool \/ DestroyServer

-----------------------------------------------------------------------------
ServerNext == \/ MainStep \/ Signal \/ Stop
              \/ \E l \in Listeners : \/ StartListener(l) \/ SetUp(l) \/ ListenerEnds(l)
                                      \/ Asynccb(l) \/ DonecheckCb(l)
                                      \/ \E r \in Requests : Accept(l, r)
              \/ \E r \in Requests : Reply(r) \/ Destroy(r) \/ Submit(r) \/ Take(r) \/ Finish(r)

\* Every thread goes on, and every handler comes to its end.  A loop serves all its
\* events in turn, however many requests there are.
Fairness == /\ WF_serverVars(MainStep)
            /\ \A l \in Listeners : /\ WF_serverVars(StartListener(l)) /\ WF_serverVars(SetUp(l))
                                 /\ WF_serverVars(ListenerEnds(l))
                                 /\ SF_serverVars(Asynccb(l)) /\ SF_serverVars(DonecheckCb(l))
            /\ \A r \in Requests : WF_serverVars(Take(r)) /\ WF_serverVars(Destroy(r))

ServerSpec == ServerInit /\ [][ServerNext]_serverVars /\ Fairness

-----------------------------------------------------------------------------
(* Properties.                                                              *)

\* Types; a pipe belongs to an asynchronous server and never holds more than it can.
ServerTypeOK ==
  /\ mode \in Modes /\ done \in BOOLEAN
  /\ main \in {"starting", "looping", "joining", "returned", "pool_gone", "gone"}
  /\ loop \in [Listeners -> {"none", "setup", "running", "broken", "freed"}]
  /\ req \in [Requests -> [at : {"none", "loop", "queue", "worker", "gone"},
                           listener : Listeners, replied : BOOLEAN, dropped : BOOLEAN,
                           sends : Nat]]
  /\ pipe \in [Listeners -> Seq(Requests)]
  /\ \A l \in Listeners : Len(pipe[l]) <= PipeCap /\ (pipe[l] # <<>> => UsesPipe)

\* A request is replied to at most once, by whatever thread and on whatever path: to
\* libevent a second reply is a use of freed memory.
OneReply ==
  \A r \in Requests :
    /\ req[r].sends <= 1
    /\ \A l, k \in Listeners : \A i \in DOMAIN pipe[l], j \in DOMAIN pipe[k] :
         pipe[l][i] = r /\ pipe[k][j] = r => req[r].sends = 0 /\ l = k /\ i = j

\* A reply that finds the memory of its request gone.
Dangling(r) == Owned(r) /\ ~req[r].replied /\ loop[req[r].listener] = "freed"

\* "They are guaranteed to remain valid until the one of the XXX_reply functions is
\* called" (fs123server.hpp): what a req points to, its evhttp_request and its pipe, is
\* there for as long as somebody may reply.
ValidUntilReply == \A r \in Requests : ~Dangling(r)

\* What the code does guarantee, however it is configured.  Handlers that run in the loop,
\* and all requests of the primary, have their memory until they have replied, to the end of
\* the server.  Those that a pool handles for another listener have it while the server
\* serves: that listener's thread ends at stop(), or at the idle time, and waits for no one.
ValidUntilShutdown ==
  \A r \in Requests :
    Dangling(r) => /\ ~InLoop(r) /\ req[r].listener # Primary
                   /\ mode.async /\ mode.nlisteners > 1
                   /\ done \/ mode.idle

\* An accepted request is answered, unless the logger threw, the pipe was full or its loop
\* has ended.
Answered ==
  \A r \in Requests :
    req[r].at = "loop" ~> \/ req[r].sends > 0
                          \/ req[r].dropped
                          \/ loop[req[r].listener] # "running"

\* After stop(), a signal or exit_after_idle's time run() returns, whatever is under way,
\* and pool and server can be destroyed.
ShutdownEnds == (done \/ loop[Primary] = "broken") ~> main = "gone"

=============================================================================
