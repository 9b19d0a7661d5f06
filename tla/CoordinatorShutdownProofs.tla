----------------------- MODULE CoordinatorShutdownProofs -----------------------
(***************************************************************************)
(* Theorems about CoordinatorShutdown, for any set of clients.             *)
(***************************************************************************)
EXTENDS CoordinatorShutdown, TLAPS

-----------------------------------------------------------------------------
(* Type correctness. *)

LEMMA InitType == Init => TypeOK
BY DEF Init, TypeOK, Connections

LEMMA RunType ==
    ASSUME TypeOK, RunStep \/ AcceptFails
    PROVE  TypeOK'
<1> USE DEF TypeOK, runVars, stopVars, clientVars
<1>1. CASE CheckStopping
  BY <1>1 DEF CheckStopping
<1>2. CASE Accept
  BY <1>2 DEF Accept
<1>3. CASE AcceptFails
  BY <1>3 DEF AcceptFails
<1>4. CASE Register
  BY <1>4 DEF Register
<1>5. CASE Spawn
  BY <1>5 DEF Spawn, Connections
<1>6. CASE CloseListener
  BY <1>6 DEF CloseListener
<1>7. CASE Sweep
  BY <1>7 DEF Sweep
<1>8. CASE Join
  BY <1>8 DEF Join
<1>9. QED
  BY <1>1, <1>2, <1>3, <1>4, <1>5, <1>6, <1>7, <1>8 DEF RunStep

LEMMA ThreadType ==
    ASSUME TypeOK, NEW c \in Connections, ThreadStep(c) \/ Reply(c)
    PROVE  TypeOK'
<1> USE DEF TypeOK, Goes, runVars, stopVars, clientVars
<1>1. CASE CheckInThread(c)
  BY <1>1 DEF CheckInThread
<1>2. CASE Receive(c)
  BY <1>2 DEF Receive, AfterReceiving
<1>3. CASE ReceiveNothing(c)
  BY <1>3 DEF ReceiveNothing
<1>4. CASE Reply(c)
  BY <1>4 DEF Reply
<1>5. CASE ReplyFails(c)
  BY <1>5 DEF ReplyFails
<1>6. CASE StopInThread(c)
  BY <1>6 DEF StopInThread, BecomesStopper
<1>7. CASE Unregister(c)
  BY <1>7 DEF Unregister
<1>8. QED
  BY <1>1, <1>2, <1>3, <1>4, <1>5, <1>6, <1>7 DEF ThreadStep

LEMMA StopType ==
    ASSUME TypeOK, StopByOwner \/ StopStep
    PROVE  TypeOK'
<1> USE DEF TypeOK, runVars, stopVars, clientVars
<1>1. CASE StopByOwner
  BY <1>1 DEF StopByOwner, BecomesStopper
<1>2. CASE StopWakes
  BY <1>2 DEF StopWakes, Connections
<1>3. CASE StopSnapshots
  BY <1>3 DEF StopSnapshots
<1>4. ASSUME NEW c \in Connections, StopShutsDown(c) PROVE TypeOK'
  BY <1>4 DEF StopShutsDown
<1>5. CASE StopReturns
  BY <1>5 DEF StopReturns
<1>6. QED
  BY <1>1, <1>2, <1>3, <1>4, <1>5 DEF StopStep

LEMMA ClientType ==
    ASSUME TypeOK, NEW c \in Clients, Connect(c) \/ SendFrame(c) \/ CloseClient(c)
    PROVE  TypeOK'
<1> USE DEF TypeOK, Connections, runVars, stopVars, clientVars
<1>1. CASE Connect(c)
  BY <1>1 DEF Connect
<1>2. CASE SendFrame(c)
  BY <1>2, SendsAssumption DEF SendFrame
<1>3. CASE CloseClient(c)
  BY <1>3 DEF CloseClient
<1>4. QED
  BY <1>1, <1>2, <1>3

LEMMA TypeStep == TypeOK /\ [Next]_vars => TypeOK'
<1> SUFFICES ASSUME TypeOK, [Next]_vars PROVE TypeOK'
  OBVIOUS
<1>1. CASE UNCHANGED vars
  BY <1>1 DEF TypeOK, vars, runVars, stopVars, clientVars
<1>2. CASE Next
  BY <1>2, RunType, ThreadType, StopType, ClientType DEF Next
<1>3. QED
  BY <1>1, <1>2

(* Every variable of the threads, the session list and the sockets keeps   *)
(* its type, whatever the clients do.                                      *)
THEOREM TypeCorrect == Spec => []TypeOK
BY InitType, TypeStep, PTL DEF Spec

-----------------------------------------------------------------------------
(* No session escapes.  The invariant follows a connection from its client *)
(* to its thread: it is in one place at a time, so that a thread is never  *)
(* started twice and a session never removed before it has one.            *)

Started(c) == thread[c] \notin {"none", "ended"}
InHand(c) == run \in {"register", "spawn"} /\ current = c

OnePlace ==
    \A c \in Connections :
        /\ client[c] = "idle" => c \notin backlog /\ ~InHand(c) /\ thread[c] = "none"
        /\ c \in backlog => ~InHand(c) /\ thread[c] = "none"
        /\ InHand(c) => thread[c] = "none"

Listed ==
    /\ \A c \in Connections : Started(c) => c \in sessions
    /\ run = "spawn" => current \in sessions

StopOnce ==
    /\ stopping = (stop # "none")
    /\ stop \in {"none", "wake"} => client[Wake] = "idle"
    /\ stop \in {"wake", "snapshot", "sweep"} /\ stopper # Owner =>
           thread[stopper] = "stopping"

SweepInv == TypeOK /\ OnePlace /\ Listed /\ StopOnce /\ NoSessionEscapesTheSweeps

LEMMA SweepInit == Init => OnePlace /\ Listed /\ StopOnce /\ NoSessionEscapesTheSweeps
BY NamesAssumption DEF Init, OnePlace, Listed, StopOnce, NoSessionEscapesTheSweeps,
    Started, InHand, Connections

LEMMA RunSweeps ==
    ASSUME SweepInv, RunStep \/ AcceptFails
    PROVE  OnePlace' /\ Listed' /\ StopOnce' /\ NoSessionEscapesTheSweeps'
<1> USE DEF SweepInv, TypeOK, OnePlace, Listed, StopOnce, NoSessionEscapesTheSweeps,
            Started, InHand, runVars, stopVars, clientVars
<1>1. CASE CheckStopping
  BY <1>1 DEF CheckStopping
<1>2. CASE Accept
  BY <1>2 DEF Accept
<1>3. CASE AcceptFails
  BY <1>3 DEF AcceptFails
<1>4. CASE Register
  BY <1>4 DEF Register
<1>5. CASE Spawn
  BY <1>5, NamesAssumption DEF Spawn, Connections
<1>6. CASE CloseListener
  BY <1>6 DEF CloseListener, Connections
<1>7. CASE Sweep
  BY <1>7 DEF Sweep
<1>8. CASE Join
  BY <1>8 DEF Join
<1>9. QED
  BY <1>1, <1>2, <1>3, <1>4, <1>5, <1>6, <1>7, <1>8 DEF RunStep

LEMMA ThreadSweeps ==
    ASSUME SweepInv, NEW c \in Connections, ThreadStep(c) \/ Reply(c)
    PROVE  OnePlace' /\ Listed' /\ StopOnce' /\ NoSessionEscapesTheSweeps'
<1> USE DEF SweepInv, TypeOK, OnePlace, Listed, StopOnce, NoSessionEscapesTheSweeps,
            Started, InHand, Goes, runVars, stopVars, clientVars
<1>1. CASE CheckInThread(c)
  BY <1>1 DEF CheckInThread
<1>2. CASE Receive(c)
  BY <1>2 DEF Receive, AfterReceiving
<1>3. CASE ReceiveNothing(c)
  BY <1>3 DEF ReceiveNothing
<1>4. CASE Reply(c)
  BY <1>4 DEF Reply
<1>5. CASE ReplyFails(c)
  BY <1>5 DEF ReplyFails
<1>6. CASE StopInThread(c)
  <2>1. CASE BecomesStopper(c) /\ Goes(c, "stopping")
    <3>1. stop = "none" /\ client[Wake] = "idle"
      BY <2>1 DEF BecomesStopper
    <3>2. StopOnce'
      BY <1>6, <2>1, <3>1 DEF StopInThread, BecomesStopper
    <3>3. OnePlace' /\ Listed' /\ NoSessionEscapesTheSweeps'
      BY <1>6, <2>1 DEF StopInThread
    <3>4. QED
      BY <3>2, <3>3
  <2>2. CASE stopping /\ Goes(c, "unregister") /\ UNCHANGED <<stopping, stopVars>>
    BY <1>6, <2>2, NamesAssumption DEF StopInThread, Connections
  <2>3. QED
    BY <1>6, <2>1, <2>2 DEF StopInThread
<1>7. CASE Unregister(c)
  BY <1>7, NamesAssumption DEF Unregister, Connections
<1>8. QED
  BY <1>1, <1>2, <1>3, <1>4, <1>5, <1>6, <1>7 DEF ThreadStep

LEMMA StopSweeps ==
    ASSUME SweepInv, StopByOwner \/ StopStep
    PROVE  OnePlace' /\ Listed' /\ StopOnce' /\ NoSessionEscapesTheSweeps'
<1> USE NamesAssumption
    DEF SweepInv, TypeOK, OnePlace, Listed, StopOnce, NoSessionEscapesTheSweeps,
        Started, InHand, Connections, runVars, stopVars, clientVars
<1>1. CASE StopByOwner
  BY <1>1 DEF StopByOwner, BecomesStopper
<1>2. CASE StopWakes
  BY <1>2 DEF StopWakes
<1>3. CASE StopSnapshots
  BY <1>3 DEF StopSnapshots
<1>4. ASSUME NEW c \in Connections, StopShutsDown(c)
      PROVE  OnePlace' /\ Listed' /\ StopOnce' /\ NoSessionEscapesTheSweeps'
  BY <1>4 DEF StopShutsDown
<1>5. CASE StopReturns
  BY <1>5 DEF StopReturns
<1>6. QED
  BY <1>1, <1>2, <1>3, <1>4, <1>5 DEF StopStep

LEMMA ClientSweeps ==
    ASSUME SweepInv, NEW c \in Clients, Connect(c) \/ SendFrame(c) \/ CloseClient(c)
    PROVE  OnePlace' /\ Listed' /\ StopOnce' /\ NoSessionEscapesTheSweeps'
<1> USE NamesAssumption
    DEF SweepInv, TypeOK, OnePlace, Listed, StopOnce, NoSessionEscapesTheSweeps,
        Started, InHand, Connections, runVars, stopVars, clientVars
<1>1. CASE Connect(c)
  BY <1>1 DEF Connect
<1>2. CASE SendFrame(c)
  BY <1>2 DEF SendFrame
<1>3. CASE CloseClient(c)
  BY <1>3 DEF CloseClient
<1>4. QED
  BY <1>1, <1>2, <1>3

(* While run() joins its threads, every thread that could still wait for   *)
(* its client has had its connection shut down, wherever stop() was called *)
(* from and however late a connection was accepted.                        *)
THEOREM NoThreadLeftBlocked == Spec => []NoSessionEscapesTheSweeps
<1>1. Init => SweepInv
  BY InitType, SweepInit DEF SweepInv
<1>2. SweepInv /\ [Next]_vars => SweepInv'
  <2> SUFFICES ASSUME SweepInv, [Next]_vars PROVE SweepInv'
    OBVIOUS
  <2>1. TypeOK'
    BY TypeStep DEF SweepInv
  <2>2. OnePlace' /\ Listed' /\ StopOnce' /\ NoSessionEscapesTheSweeps'
    <3>1. CASE UNCHANGED vars
      BY <3>1 DEF SweepInv, OnePlace, Listed, StopOnce, NoSessionEscapesTheSweeps,
                  Started, InHand, vars, runVars, stopVars, clientVars
    <3>2. CASE Next
      BY <3>2, RunSweeps, ThreadSweeps, StopSweeps, ClientSweeps DEF Next
    <3>3. QED
      BY <3>1, <3>2
  <2>3. QED
    BY <2>1, <2>2 DEF SweepInv
<1>3. SweepInv => NoSessionEscapesTheSweeps
  BY DEF SweepInv
<1>4. QED
  BY <1>1, <1>2, <1>3, PTL DEF Spec
================================================================================
