--------------------------- MODULE CoordinatorShutdown ---------------------------
(***************************************************************************)
(* How the coordinator's threads start and end (src/src/coordinator.cpp):  *)
(* run()'s accept loop, one thread per connection, and stop(), which any   *)
(* of those threads or the owner of the Coordinator may call.              *)
(*                                                                         *)
(* What a frame does to leases is the Coordinator module's; here a frame   *)
(* is a request that is answered, or one of the two that stop the          *)
(* coordinator.  sessions_mutex_ is never held across a blocking call, so  *)
(* each of its critical sections is one action.                            *)
(***************************************************************************)
EXTENDS FiniteSets

CONSTANTS
    Clients,   \* connections of workers and control clients
    Sends,     \* the kinds of frames that each of them sends
    Wake,      \* the throwaway connection that stop() makes
    Owner,     \* the thread outside run() that may call stop()
    Faults     \* whether accept() may fail

ASSUME NamesAssumption == Wake \notin Clients /\ Owner \notin Clients \cup {Wake}
ASSUME SendsAssumption ==
    Sends \in [Clients -> SUBSET {"request", "control", "shutdown"}]
ASSUME FaultsAssumption == Faults \subseteq {"AcceptFailure"}

Connections == Clients \cup {Wake}

VARIABLES
    stopping,   \* Coordinator::stopping_
    listening,  \* the listener's socket is open
    backlog,    \* connections the kernel holds for accept()
    run,        \* where run() is
    current,    \* run()'s local: the connection in hand; Wake when there is none
    sessions,   \* Coordinator::sessions_
    thread,     \* where the thread of each connection is
    shut,       \* the connections shutdown() was called on
    stop,       \* where the one stop() that does the work is
    stopper,    \* the thread that called it
    targets,    \* its local: the sessions it has still to shut down
    client,     \* the far end of each connection
    frame       \* what it has sent and the coordinator has not received

runVars == <<run, current>>
stopVars == <<stop, stopper, targets>>
clientVars == <<client, frame>>
vars == <<stopping, listening, backlog, runVars, sessions, thread, shut, stopVars,
          clientVars>>

-----------------------------------------------------------------------------
Init ==
    /\ stopping = FALSE
    /\ listening = TRUE
    /\ backlog = {}
    /\ run = "check"
    /\ current = Wake
    /\ sessions = {}
    /\ thread = [c \in Connections |-> "none"]
    /\ shut = {}
    /\ stop = "none"
    /\ stopper = Owner
    /\ targets = {}
    /\ client = [c \in Connections |-> "idle"]
    /\ frame = [c \in Connections |-> "none"]

-----------------------------------------------------------------------------
(* run() *)

CheckStopping ==
    /\ run = "check"
    /\ run' = IF stopping THEN "close" ELSE "accept"
    /\ UNCHANGED <<stopping, listening, backlog, current, sessions, thread, shut,
                   stopVars, clientVars>>

Accept ==
    /\ run = "accept"
    /\ \E c \in backlog :
         /\ backlog' = backlog \ {c}
         /\ current' = c
    /\ run' = "register"
    /\ UNCHANGED <<stopping, listening, sessions, thread, shut, stopVars, clientVars>>

(* An error ends the loop; unless stop() was called, run() returns at once. *)
AcceptFails ==
    /\ "AcceptFailure" \in Faults
    /\ run = "accept"
    /\ run' = IF stopping THEN "close" ELSE "failed"
    /\ UNCHANGED <<stopping, listening, backlog, current, sessions, thread, shut,
                   stopVars, clientVars>>

Register ==
    /\ run = "register"
    /\ sessions' = sessions \cup {current}
    /\ run' = "spawn"
    /\ UNCHANGED <<stopping, listening, backlog, current, thread, shut, stopVars,
                   clientVars>>

Spawn ==
    /\ run = "spawn"
    /\ thread' = [thread EXCEPT ![current] = "check"]
    /\ current' = Wake
    /\ run' = "check"
    /\ UNCHANGED <<stopping, listening, backlog, sessions, shut, stopVars, clientVars>>

(* Connections that were never accepted are reset. *)
CloseListener ==
    /\ run = "close"
    /\ listening' = FALSE
    /\ client' = [c \in Connections |-> IF c \in backlog THEN "closed" ELSE client[c]]
    /\ frame' = [c \in Connections |-> IF c \in backlog THEN "none" ELSE frame[c]]
    /\ backlog' = {}
    /\ run' = "sweep"
    /\ UNCHANGED <<stopping, current, sessions, thread, shut, stopVars>>

(* Mutant: the sessions accepted since stop() looked are left alone. *)
NoSweep ==
    /\ run = "sweep"
    /\ run' = "join"
    /\ UNCHANGED <<stopping, listening, backlog, current, sessions, thread, shut,
                   stopVars, clientVars>>

Sweep ==
    /\ run = "sweep"
    /\ shut' = shut \cup sessions
    /\ run' = "join"
    /\ UNCHANGED <<stopping, listening, backlog, current, sessions, thread, stopVars,
                   clientVars>>

(* The threads are joined one after another: run() goes on when all are    *)
(* over.                                                                   *)
Join ==
    /\ run = "join"
    /\ \A c \in Connections : thread[c] \in {"none", "ended"}
    /\ sessions' = {}
    /\ run' = "returned"
    /\ UNCHANGED <<stopping, listening, backlog, current, thread, shut, stopVars,
                   clientVars>>

RunStep ==
    CheckStopping \/ Accept \/ Register \/ Spawn \/ CloseListener \/ Sweep \/ Join

-----------------------------------------------------------------------------
(* handle_connection(), on the thread of connection c, and what the thread *)
(* does after it.                                                          *)

Goes(c, where) ==
    /\ thread' = [thread EXCEPT ![c] = where]
    /\ UNCHANGED <<listening, backlog, runVars>>

CheckInThread(c) ==
    /\ thread[c] = "check"
    /\ Goes(c, IF stopping THEN "unregister" ELSE "receive")
    /\ UNCHANGED <<stopping, sessions, shut, stopVars, clientVars>>

(* A control request ends its connection once it is answered, and so does  *)
(* a damaged frame; a Shutdown frame is not answered.                      *)
AfterReceiving(kind) ==
    CASE kind = "request" -> "reply"
      [] kind = "control" -> "lastReply"
      [] kind = "shutdown" -> "stop"

(* A frame the kernel holds is read even after shutdown(). *)
Receive(c) ==
    /\ thread[c] = "receive"
    /\ frame[c] # "none"
    /\ Goes(c, AfterReceiving(frame[c]))
    /\ frame' = [frame EXCEPT ![c] = "none"]
    /\ UNCHANGED <<stopping, sessions, shut, stopVars, client>>

Broken(c) == c \in shut \/ client[c] = "closed"

ReceiveNothing(c) ==
    /\ thread[c] = "receive"
    /\ Broken(c)
    /\ Goes(c, "unregister")
    /\ UNCHANGED <<stopping, sessions, shut, stopVars, clientVars>>

(* A reply goes out when the far end has room for it.  After the last one  *)
(* the thread stops the coordinator if the request was to.                 *)
Reply(c) ==
    /\ c \notin shut
    /\ \/ thread[c] = "reply" /\ Goes(c, "check")
       \/ thread[c] = "lastReply" /\ \E where \in {"stop", "unregister"} : Goes(c, where)
    /\ UNCHANGED <<stopping, sessions, shut, stopVars, clientVars>>

ReplyFails(c) ==
    /\ thread[c] \in {"reply", "lastReply"}
    /\ Broken(c)
    /\ Goes(c, "unregister")
    /\ UNCHANGED <<stopping, sessions, shut, stopVars, clientVars>>

(* stopping_.exchange(true): the first caller does the work, the others    *)
(* return.                                                                 *)
BecomesStopper(who) ==
    /\ ~stopping
    /\ stopping' = TRUE
    /\ stop' = "wake"
    /\ stopper' = who
    /\ UNCHANGED targets

StopInThread(c) ==
    /\ thread[c] = "stop"
    /\ \/ BecomesStopper(c) /\ Goes(c, "stopping")
       \/ stopping /\ Goes(c, "unregister") /\ UNCHANGED <<stopping, stopVars>>
    /\ UNCHANGED <<sessions, shut, clientVars>>

(* The connection closes with its thread. *)
Unregister(c) ==
    /\ thread[c] = "unregister"
    /\ sessions' = sessions \ {c}
    /\ Goes(c, "ended")
    /\ client' = [client EXCEPT ![c] = "closed"]
    /\ frame' = [frame EXCEPT ![c] = "none"]
    /\ UNCHANGED <<stopping, shut, stopVars>>

ThreadStep(c) ==
    \/ CheckInThread(c)
    \/ Receive(c)
    \/ ReceiveNothing(c)
    \/ ReplyFails(c)
    \/ StopInThread(c)
    \/ Unregister(c)

-----------------------------------------------------------------------------
(* stop(), on the thread of the stopper. *)

StopByOwner ==
    /\ BecomesStopper(Owner)
    /\ UNCHANGED <<listening, backlog, runVars, sessions, thread, shut, clientVars>>

(* Mutant: nothing wakes the accept loop. *)
StopWithoutWaking ==
    /\ stop = "wake"
    /\ stop' = "snapshot"
    /\ UNCHANGED <<stopping, listening, backlog, runVars, sessions, thread, shut,
                   stopper, targets, clientVars>>

(* The throwaway connection is refused when the listener is closed. *)
StopWakes ==
    /\ stop = "wake"
    /\ backlog' = IF listening THEN backlog \cup {Wake} ELSE backlog
    /\ client' = [client EXCEPT ![Wake] = "closed"]
    /\ stop' = "snapshot"
    /\ UNCHANGED <<stopping, listening, runVars, sessions, thread, shut, stopper,
                   targets, frame>>

StopSnapshots ==
    /\ stop = "snapshot"
    /\ targets' = sessions
    /\ stop' = "sweep"
    /\ UNCHANGED <<stopping, listening, backlog, runVars, sessions, thread, shut,
                   stopper, clientVars>>

StopShutsDown(c) ==
    /\ stop = "sweep"
    /\ c \in targets
    /\ shut' = shut \cup {c}
    /\ targets' = targets \ {c}
    /\ UNCHANGED <<stopping, listening, backlog, runVars, sessions, thread, stop,
                   stopper, clientVars>>

(* Mutant: whoever called stop() is taken for the thread of a session. *)
StopReturnsToSession ==
    /\ stop = "sweep"
    /\ targets = {}
    /\ stop' = "done"
    /\ thread' = [c \in Connections \cup {stopper} |->
                    IF c = stopper THEN "unregister" ELSE thread[c]]
    /\ UNCHANGED <<stopping, listening, backlog, runVars, sessions, shut, stopper,
                   targets, clientVars>>

StopReturns ==
    /\ stop = "sweep"
    /\ targets = {}
    /\ stop' = "done"
    /\ thread' = [c \in Connections |->
                    IF c = stopper THEN "unregister" ELSE thread[c]]
    /\ UNCHANGED <<stopping, listening, backlog, runVars, sessions, shut, stopper,
                   targets, clientVars>>

StopStep ==
    StopWakes \/ StopSnapshots \/ (\E c \in Connections : StopShutsDown(c)) \/ StopReturns

-----------------------------------------------------------------------------
(* The far ends. *)

Connect(c) ==
    /\ client[c] = "idle"
    /\ listening
    /\ client' = [client EXCEPT ![c] = "open"]
    /\ backlog' = backlog \cup {c}
    /\ UNCHANGED <<stopping, listening, runVars, sessions, thread, shut, stopVars, frame>>

SendFrame(c) ==
    /\ client[c] = "open"
    /\ frame[c] = "none"
    /\ \E kind \in Sends[c] : frame' = [frame EXCEPT ![c] = kind]
    /\ UNCHANGED <<stopping, listening, backlog, runVars, sessions, thread, shut,
                   stopVars, client>>

CloseClient(c) ==
    /\ client[c] = "open"
    /\ client' = [client EXCEPT ![c] = "closed"]
    /\ UNCHANGED <<stopping, listening, backlog, runVars, sessions, thread, shut,
                   stopVars, frame>>

-----------------------------------------------------------------------------
Next ==
    \/ RunStep
    \/ AcceptFails
    \/ \E c \in Connections : ThreadStep(c) \/ Reply(c)
    \/ StopByOwner
    \/ StopStep
    \/ \E c \in Clients : Connect(c) \/ SendFrame(c) \/ CloseClient(c)

(* Every thread runs.  Nothing is assumed of clients: they may never send, *)
(* never read a reply and never close, and nobody has to call stop().      *)
Spec ==
    /\ Init
    /\ [][Next]_vars
    /\ WF_vars(RunStep)
    /\ WF_vars(StopStep)
    /\ \A c \in Connections : WF_vars(ThreadStep(c))

-----------------------------------------------------------------------------
(* Type correctness of run(), stop(), the session list and the threads. *)
TypeOK ==
    /\ stopping \in BOOLEAN
    /\ listening \in BOOLEAN
    /\ backlog \subseteq Connections
    /\ run \in {"check", "accept", "register", "spawn", "close", "sweep", "join",
                "returned", "failed"}
    /\ current \in Connections
    /\ sessions \subseteq Connections
    /\ thread \in [Connections ->
         {"none", "check", "receive", "reply", "lastReply", "stop", "stopping",
          "unregister", "ended"}]
    /\ shut \subseteq Connections
    /\ stop \in {"none", "wake", "snapshot", "sweep", "done"}
    /\ stopper \in Connections \cup {Owner}
    /\ targets \subseteq Connections
    /\ client \in [Connections -> {"idle", "open", "closed"}]
    /\ frame \in [Connections -> {"none", "request", "control", "shutdown"}]

(* run() joins with no session left that only its client could end: each   *)
(* connection whose thread may still block was shut down by stop() or, if  *)
(* it was accepted too late for that, by run().                            *)
NoSessionEscapesTheSweeps ==
    run \in {"join", "returned"} =>
        \A c \in Connections :
            thread[c] \in {"check", "receive", "reply", "lastReply"} => c \in shut

(* Once stop() has been called run() returns, with every thread over,      *)
(* whichever thread called it and whatever the clients do or fail to do.   *)
StopEndsRun ==
    stopping ~> \/ run = "returned" /\ \A c \in Connections : thread[c] \in {"none", "ended"}
                \/ run = "failed"
================================================================================
