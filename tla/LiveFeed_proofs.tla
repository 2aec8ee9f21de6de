-------------------------- MODULE LiveFeed_proofs --------------------------
(***************************************************************************)
(* Proofs about LiveFeed: for whatever modes the adapter may be built in,  *)
(* its threads are joined before they are replaced, and in PAPER mode a    *)
(* dead feed has trading halted.                                           *)
(***************************************************************************)
EXTENDS LiveFeed, TLAPS

(* The stages in which the owner is inside disconnect.                     *)
Leaving == {"shutting", "stopping", "stopped", "closing"}

(* simulateDisconnect goes past its first test only while the adapter is   *)
(* not shut down, which nobody but the owner changes; so a shut down       *)
(* adapter whose disconnect has joined the worker gets no new one.         *)
WorkerJoined ==
  /\ pc["owner"] \in {"rechecking", "joining"} => ~shutdown
  /\ pc["owner"] \in Leaving => shutdown
  /\ shutdown /\ pc["owner"] \notin Leaving => pc["worker"] = "none"

(* In PAPER mode the network thread has nothing to do, no call dials, and  *)
(* only the owner stores FALSE: what it restored is up until it says so.   *)
PaperStages ==
  mode = "PAPER" =>
    /\ pc["network"] = "idle"
    /\ pc["worker"] # "dialing"
    /\ pc["owner"] \notin {"connecting", "opening", "refused", "regretting",
                           "dialing", "pumping", "pumped"}
    /\ pc["owner"] \in {"announcing", "restored"} => connected

(* A loss that is not reported yet has its reporter at work, and one whose *)
(* report was overtaken by that of an earlier reconnection has the worker, *)
(* which will find the flag down when it returns to its loop.              *)
LossPending ==
  mode = "PAPER" /\ ~connected /\ ~shutdown =>
    \/ halted
    \/ pc["owner"] \in {"opened", "lost"}
    \/ pc["worker"] \notin Stopped

(* Before main has set the callback it is inside its first connect, which  *)
(* in PAPER mode succeeds, or just after it.                               *)
FirstConnect ==
  callback = "unset" =>
    /\ pc["owner"] \in {"connecting", "opening", "opened", "announcing", "refused",
                        "regretting", "idle"}
    /\ pc["worker"] = "none"
    /\ mode = "PAPER" => connected \/ pc["owner"] = "opened"

Threaded == TypeOK /\ WorkerJoined /\ PaperStages /\ LossPending

IInv == Threaded /\ FirstConnect

-----------------------------------------------------------------------------
LEMMA InitEstablishes == Init => IInv
  BY ModeAssumption
  DEF Init, IInv, Threaded, TypeOK, WorkerJoined, PaperStages, LossPending, FirstConnect, Threads,
      OwnerStages, WorkerStages, NetworkStages, ReconnectStages, Leaving, Stopped

LEMMA SettingKeeps == Threaded /\ SetIntegrityCallback => Threaded'
  BY DEF Threaded, TypeOK, WorkerJoined, PaperStages, LossPending,
         SetIntegrityCallback, network

(* A step of the owner, or of the worker, keeps the invariant if it keeps  *)
(* the types and what the invariant says of the stage it goes to.          *)
LEMMA OwnerSteps ==
  ASSUME Threaded, NEW from, NEW to \in OwnerStages, Move("owner", from, to),
         {connected', shutdown', halted', running', wsConnected', redial'} \subseteq BOOLEAN,
         callback' \in {"unset", "set", "called"}, UNCHANGED mode,
         mode = "PAPER" => ~running' /\ ~wsConnected',
         to \in {"rechecking", "joining"} => ~shutdown',
         to \in Leaving => shutdown',
         shutdown' /\ to \notin Leaving => pc["worker"] = "none",
         mode = "PAPER" => to \notin {"connecting", "opening", "refused", "regretting",
                                      "dialing", "pumping", "pumped"},
         mode = "PAPER" /\ to \in {"announcing", "restored"} => connected',
         mode = "PAPER" /\ ~connected' /\ ~shutdown' =>
           halted' \/ to \in {"opened", "lost"} \/ pc["worker"] \notin Stopped
  PROVE  Threaded'
  <1> DEFINE stages == OwnerStages \cup WorkerStages \cup NetworkStages
  <1>1. "owner" \in Threads /\ "worker" \in Threads /\ "network" \in Threads
    BY DEF Threads
  <1>2. to \in stages /\ pc \in [Threads -> stages]
    BY DEF Threaded, TypeOK
  <1> HIDE DEF stages
  <1>3. pc' \in [Threads -> stages]
    BY <1>1, <1>2 DEF Move
  <1>4. /\ pc'["owner"] = to
        /\ pc'["worker"] = pc["worker"] /\ pc'["network"] = pc["network"]
    BY <1>1, <1>2 DEF Move
  <1>5. TypeOK'
    BY <1>3, <1>4 DEF Threaded, TypeOK, stages
  <1>6. WorkerJoined'
    BY <1>4 DEF Threaded, WorkerJoined
  <1>7. PaperStages'
    BY <1>4 DEF Threaded, PaperStages
  <1>8. LossPending'
    BY <1>4 DEF Threaded, LossPending
  <1> QED
    BY <1>5, <1>6, <1>7, <1>8 DEF Threaded

LEMMA WorkerSteps ==
  ASSUME Threaded, NEW from, NEW to \in WorkerStages, Move("worker", from, to),
         {connected', shutdown', halted', running', wsConnected', redial'} \subseteq BOOLEAN,
         callback' \in {"unset", "set", "called"}, UNCHANGED mode,
         mode = "PAPER" => ~running' /\ ~wsConnected',
         UNCHANGED shutdown, connected => connected',
         shutdown /\ pc["owner"] \notin Leaving => to = "none", mode = "PAPER" => to # "dialing",
         mode = "PAPER" /\ ~connected' /\ ~shutdown =>
           halted' \/ to \notin Stopped
  PROVE  Threaded'
  <1> DEFINE stages == OwnerStages \cup WorkerStages \cup NetworkStages
  <1>1. "owner" \in Threads /\ "worker" \in Threads /\ "network" \in Threads
    BY DEF Threads
  <1>2. to \in stages /\ pc \in [Threads -> stages]
    BY DEF Threaded, TypeOK
  <1> HIDE DEF stages
  <1>3. pc' \in [Threads -> stages]
    BY <1>1, <1>2 DEF Move
  <1>4. /\ pc'["worker"] = to
        /\ pc'["owner"] = pc["owner"] /\ pc'["network"] = pc["network"]
    BY <1>1, <1>2 DEF Move
  <1>5. TypeOK'
    BY <1>3, <1>4 DEF Threaded, TypeOK, stages
  <1>6. WorkerJoined'
    BY <1>4 DEF Threaded, WorkerJoined, Leaving
  <1>7. PaperStages'
    BY <1>4 DEF Threaded, PaperStages
  <1>8. LossPending'
    BY <1>4 DEF Threaded, LossPending
  <1> QED
    BY <1>5, <1>6, <1>7, <1>8 DEF Threaded

(* What the steps need of the state they start in.                         *)
LEMMA Before ==
  ASSUME Threaded
  PROVE  /\ {connected, shutdown, halted, running, wsConnected, redial} \subseteq BOOLEAN
         /\ callback \in {"unset", "set", "called"}
         /\ mode \in {"PAPER", "LIVE"} /\ mode = "PAPER" => ~running /\ ~wsConnected
         /\ pc["worker"] \in WorkerStages
  BY DEF Threaded, TypeOK

LEMMA CallKeeps == Threaded /\ Call => Threaded'
  <1> SUFFICES ASSUME Threaded, Call PROVE Threaded'
    OBVIOUS
  <1>0. callback # "unset"
    BY DEF Call
  <1>a. WorkerJoined /\ PaperStages /\ LossPending
    BY DEF Threaded
  <1> USE <1>a, Before, OwnerSteps
      DEF WorkerJoined, PaperStages, LossPending, Leaving, Stopped,
          OwnerStages, ReconnectStages, network
  <1>1. CASE Connect
    <2>1. pc["owner"] = "idle"
      BY <1>1 DEF Connect, Move
    <2> QED
      BY <1>1, <2>1 DEF Connect
  <1>2. CASE SimulateReconnect
    <2>1. pc["owner"] = "idle"
      BY <1>2 DEF SimulateReconnect, Check, Move
    <2> QED
      BY <1>0, <1>2, <2>1 DEF SimulateReconnect, Check
  <1>3. CASE SimulateDisconnect
    <2>1. CASE Store("owner", "idle", FALSE, "lost")
      <3>1. pc["owner"] = "idle"
        BY <2>1 DEF Store, Move
      <3> QED
        BY <2>1, <3>1 DEF Store
    <2>2. CASE Tell("owner", "lost", FALSE, "spawning")
      <3>1. pc["owner"] = "lost"
        BY <2>2 DEF Tell, Move
      <3> QED
        BY <1>0, <2>2, <3>1 DEF Tell
    <2> QED
      BY <1>3, <2>1, <2>2 DEF SimulateDisconnect
  <1>4. CASE Disconnect
    <2>1. pc["owner"] = "idle"
      BY <1>4 DEF Disconnect, Move
    <2> QED
      BY <1>4, <2>1 DEF Disconnect
  <1>5. CASE Pump
    <2>1. CASE ~connected /\ wsConnected /\ Check("owner", "idle", "pumping")
      <3>1. pc["owner"] = "idle"
        BY <2>1 DEF Check, Move
      <3> QED
        BY <2>1, <3>1 DEF Check
    <2>2. CASE Store("owner", "pumping", TRUE, "pumped")
      <3>1. pc["owner"] = "pumping"
        BY <2>2 DEF Store, Move
      <3> QED
        BY <2>2, <3>1 DEF Store
    <2>3. CASE Tell("owner", "pumped", TRUE, "idle")
      <3>1. pc["owner"] = "pumped"
        BY <2>3 DEF Tell, Move
      <3> QED
        BY <2>3, <3>1 DEF Tell
    <2> QED
      BY <1>5, <2>1, <2>2, <2>3 DEF Pump
  <1> QED
    BY <1>1, <1>2, <1>3, <1>4, <1>5 DEF Call

LEMMA OwnerRedials == Threaded /\ Reconnect("owner") => Threaded'
  <1> SUFFICES ASSUME Threaded, Reconnect("owner") PROVE Threaded'
    OBVIOUS
  <1>a. WorkerJoined /\ PaperStages /\ LossPending
    BY DEF Threaded
  <1> USE <1>a, Before, OwnerSteps
      DEF WorkerJoined, PaperStages, LossPending, Leaving, Stopped,
          OwnerStages, ReconnectStages, network
  <1>1. CASE mode = "PAPER" /\ Check("owner", "reconnecting", "reached")
    <2>1. pc["owner"] = "reconnecting"
      BY <1>1 DEF Check, Move
    <2> QED
      BY <1>1, <2>1 DEF Check
  <1>2. CASE Dial("owner", "reconnecting", "dialing")
    <2>1. pc["owner"] = "reconnecting"
      BY <1>2 DEF Dial, Move
    <2> QED
      BY <1>2, <2>1 DEF Dial
  <1>3. CASE NotStarted("owner", "reconnecting", "idle")
    <2>1. pc["owner"] = "reconnecting"
      BY <1>3 DEF NotStarted, Check, Move
    <2> QED
      BY <1>3, <2>1 DEF NotStarted, Check
  <1>4. CASE Accepted("owner", "dialing", "reached")
    <2>1. pc["owner"] = "dialing"
      BY <1>4 DEF Accepted, Move
    <2> QED
      BY <1>4, <2>1 DEF Accepted
  <1>5. CASE Check("owner", "dialing", "idle")
    <2>1. pc["owner"] = "dialing"
      BY <1>5 DEF Check, Move
    <2> QED
      BY <1>5, <2>1 DEF Check
  <1>6. CASE Store("owner", "reached", TRUE, "restored")
    <2>1. pc["owner"] = "reached"
      BY <1>6 DEF Store, Move
    <2> QED
      BY <1>6, <2>1 DEF Store
  <1>7. CASE Tell("owner", "restored", TRUE, "idle")
    <2>1. pc["owner"] = "restored"
      BY <1>7 DEF Tell, Move
    <2>2. CASE callback = "unset"
      BY <1>7, <2>1, <2>2 DEF Tell
    <2>3. CASE callback # "unset"
      BY <1>7, <2>1, <2>3 DEF Tell
    <2> QED
      BY <2>2, <2>3
  <1> QED
    BY <1>1, <1>2, <1>3, <1>4, <1>5, <1>6, <1>7 DEF Reconnect, Return, Answered

LEMMA WorkerRedials == Threaded /\ Reconnect("worker") => Threaded'
  <1> SUFFICES ASSUME Threaded, Reconnect("worker") PROVE Threaded'
    OBVIOUS
  <1>a. WorkerJoined /\ PaperStages /\ LossPending
    BY DEF Threaded
  <1> USE <1>a, Before, WorkerSteps
      DEF WorkerJoined, PaperStages, LossPending, Leaving, Stopped,
          WorkerStages, ReconnectStages, network
  <1>1. CASE mode = "PAPER" /\ Check("worker", "reconnecting", "reached")
    <2>1. pc["worker"] = "reconnecting"
      BY <1>1 DEF Check, Move
    <2> QED
      BY <1>1, <2>1 DEF Check
  <1>2. CASE Dial("worker", "reconnecting", "dialing")
    <2>1. pc["worker"] = "reconnecting"
      BY <1>2 DEF Dial, Move
    <2> QED
      BY <1>2, <2>1 DEF Dial
  <1>3. CASE NotStarted("worker", "reconnecting", "looping")
    <2>1. pc["worker"] = "reconnecting"
      BY <1>3 DEF NotStarted, Check, Move
    <2> QED
      BY <1>3, <2>1 DEF NotStarted, Check
  <1>4. CASE Accepted("worker", "dialing", "reached")
    <2>1. pc["worker"] = "dialing"
      BY <1>4 DEF Accepted, Move
    <2> QED
      BY <1>4, <2>1 DEF Accepted
  <1>5. CASE Check("worker", "dialing", "looping")
    <2>1. pc["worker"] = "dialing"
      BY <1>5 DEF Check, Move
    <2> QED
      BY <1>5, <2>1 DEF Check
  <1>6. CASE Store("worker", "reached", TRUE, "restored")
    <2>1. pc["worker"] = "reached"
      BY <1>6 DEF Store, Move
    <2> QED
      BY <1>6, <2>1 DEF Store
  <1>7. CASE Tell("worker", "restored", TRUE, "looping")
    <2>1. pc["worker"] = "restored"
      BY <1>7 DEF Tell, Move
    <2>2. CASE callback = "unset"
      BY <1>7, <2>1, <2>2 DEF Tell
    <2>3. CASE callback # "unset"
      BY <1>7, <2>1, <2>3 DEF Tell
    <2> QED
      BY <2>2, <2>3
  <1> QED
    BY <1>1, <1>2, <1>3, <1>4, <1>5, <1>6, <1>7 DEF Reconnect, Return, Answered

(* The two steps of the owner that move the worker as well.                *)
LEMMA LaunchKeeps == Threaded /\ StartReconnectWorker => Threaded'
  BY DEF Threaded, TypeOK, WorkerJoined, PaperStages, LossPending, Threads,
         OwnerStages, WorkerStages, NetworkStages, ReconnectStages, Leaving, Stopped,
         Move, network, StartReconnectWorker, Launch, Check

LEMMA JoinKeeps == Threaded /\ StopReconnectWorker => Threaded'
  BY DEF Threaded, TypeOK, WorkerJoined, PaperStages, LossPending, Threads,
         OwnerStages, WorkerStages, NetworkStages, ReconnectStages, Leaving, Stopped,
         Move, network, StopReconnectWorker

LEMMA OwnerKeeps == Threaded /\ OwnerStep => Threaded'
  <1> SUFFICES ASSUME Threaded, OwnerStep PROVE Threaded'
    OBVIOUS
  <1>a. WorkerJoined /\ PaperStages /\ LossPending
    BY DEF Threaded
  <1> USE <1>a, Before, OwnerSteps
      DEF WorkerJoined, PaperStages, LossPending, Leaving, Stopped,
          OwnerStages, ReconnectStages, network
  <1>1. CASE Open
    <2>1. CASE Dial("owner", "connecting", "opening")
      <3>1. pc["owner"] = "connecting"
        BY <2>1 DEF Dial, Move
      <3> QED
        BY <2>1, <3>1 DEF Dial
    <2>2. CASE NotStarted("owner", "connecting", "refused")
      <3>1. pc["owner"] = "connecting"
        BY <2>2 DEF NotStarted, Check, Move
      <3> QED
        BY <2>2, <3>1 DEF NotStarted, Check
    <2>3. CASE Accepted("owner", "opening", "opened")
      <3>1. pc["owner"] = "opening"
        BY <2>3 DEF Accepted, Move
      <3> QED
        BY <2>3, <3>1 DEF Accepted
    <2>4. CASE Check("owner", "opening", "refused")
      <3>1. pc["owner"] = "opening"
        BY <2>4 DEF Check, Move
      <3> QED
        BY <2>4, <3>1 DEF Check
    <2>5. CASE Store("owner", "opened", TRUE, "announcing")
      <3>1. pc["owner"] = "opened"
        BY <2>5 DEF Store, Move
      <3> QED
        BY <2>5, <3>1 DEF Store
    <2>6. CASE Tell("owner", "announcing", TRUE, "idle")
      <3>1. pc["owner"] = "announcing"
        BY <2>6 DEF Tell, Move
      <3>2. CASE callback = "unset"
        BY <2>6, <3>1, <3>2 DEF Tell
      <3>3. CASE callback # "unset"
        BY <2>6, <3>1, <3>3 DEF Tell
      <3> QED
        BY <3>2, <3>3
    <2>7. CASE Store("owner", "refused", FALSE, "regretting")
      <3>1. pc["owner"] = "refused"
        BY <2>7 DEF Store, Move
      <3> QED
        BY <2>7, <3>1 DEF Store
    <2>8. CASE Tell("owner", "regretting", FALSE, "idle")
      <3>1. pc["owner"] = "regretting"
        BY <2>8 DEF Tell, Move
      <3> QED
        BY <2>8, <3>1 DEF Tell
    <2> QED
      BY <1>1, <2>1, <2>2, <2>3, <2>4, <2>5, <2>6, <2>7, <2>8 DEF Open, Answered
  <1>2. CASE Reconnect("owner")
    BY <1>2, OwnerRedials
  <1>3. CASE StartReconnectWorker
    BY <1>3, LaunchKeeps
  <1>4. CASE Stop
    <2>1. CASE RequestStop
      <3>1. pc["owner"] = "shutting"
        BY <2>1 DEF RequestStop, Check, Move
      <3> QED
        BY <2>1, <3>1 DEF RequestStop, Check
    <2>2. CASE JoinNetwork
      <3>1. pc["owner"] = "stopping"
        BY <2>2 DEF JoinNetwork, Move
      <3> QED
        BY <2>2, <3>1 DEF JoinNetwork
    <2> QED
      BY <1>4, <2>1, <2>2 DEF Stop
  <1>5. CASE Close
    <2>1. pc["owner"] = "stopped"
      BY <1>5 DEF Close, Store, Move
    <2> QED
      BY <1>5, <2>1 DEF Close, Store
  <1>6. CASE StopReconnectWorker
    BY <1>6, JoinKeeps
  <1> QED
    BY <1>1, <1>2, <1>3, <1>4, <1>5, <1>6 DEF OwnerStep

LEMMA WorkerKeeps == Threaded /\ WorkerStep => Threaded'
  <1> SUFFICES ASSUME Threaded, WorkerStep PROVE Threaded'
    OBVIOUS
  <1>1. CASE Loop
    BY <1>1 DEF Threaded, TypeOK, WorkerJoined, PaperStages, LossPending, Threads,
      OwnerStages, WorkerStages, NetworkStages, ReconnectStages, Leaving, Stopped,
      Move, network, Loop, Check
  <1>2. CASE Reconnect("worker")
    BY <1>2, WorkerRedials
  <1> QED
    BY <1>1, <1>2 DEF WorkerStep

(* Outside PAPER mode the network thread disturbs nothing but types.       *)
LEMMA NetworkMoves ==
  ASSUME Threaded, mode # "PAPER", NEW from, NEW to \in NetworkStages,
         Move("network", from, to),
         connected' \in BOOLEAN, halted' \in BOOLEAN,
         redial' \in BOOLEAN, wsConnected' \in BOOLEAN,
         callback' \in {callback, "called"},
         UNCHANGED <<mode, shutdown, running>>
  PROVE  Threaded'
  <1>1. TypeOK
    BY DEF Threaded
  <1>2. /\ pc'["owner"] = pc["owner"] /\ pc'["worker"] = pc["worker"]
        /\ pc'["network"] = to
    BY <1>1 DEF Move, TypeOK, Threads
  <1>3. pc' \in [Threads -> OwnerStages \cup WorkerStages \cup NetworkStages]
    <2> DEFINE stages == OwnerStages \cup WorkerStages \cup NetworkStages
    <2>1. to \in stages
      OBVIOUS
    <2>2. pc \in [Threads -> stages]
      BY <1>1 DEF TypeOK
    <2> HIDE DEF stages
    <2>3. pc' \in [Threads -> stages]
      BY <2>1, <2>2 DEF Move
    <2> QED
      BY <2>3 DEF stages
  <1>4. TypeOK'
    BY <1>1, <1>2, <1>3 DEF TypeOK
  <1>5. WorkerJoined'
    BY <1>2 DEF Threaded, WorkerJoined
  <1>6. PaperStages' /\ LossPending'
    BY DEF PaperStages, LossPending
  <1> QED
    BY <1>4, <1>5, <1>6 DEF Threaded

LEMMA NetworkKeeps == Threaded /\ NetworkStep => Threaded'
  <1> SUFFICES ASSUME Threaded, NetworkStep PROVE Threaded'
    OBVIOUS
  <1>1. /\ connected \in BOOLEAN /\ halted \in BOOLEAN
        /\ redial \in BOOLEAN /\ wsConnected \in BOOLEAN
    BY DEF Threaded, TypeOK
  <1>2. ASSUME pc["network"] # "idle" PROVE mode # "PAPER"
    BY <1>2 DEF Threaded, PaperStages
  <1>3. ASSUME Serving PROVE mode # "PAPER"
    BY <1>3 DEF Threaded, TypeOK, Serving
  <1>4. CASE HandleDisconnect
    <2>1. CASE Serving /\ Check("network", "idle", "closing")
      BY <1>1, <1>3, <2>1, NetworkMoves DEF Check, network, NetworkStages
    <2>2. CASE CloseSocket("closing", "idle")
      <3>1. mode # "PAPER"
        BY <1>2, <2>2 DEF CloseSocket, Move
      <3> QED
        BY <1>1, <2>2, <3>1, NetworkMoves DEF CloseSocket, NetworkStages
    <2>3. CASE Serving /\ CloseSocket("idle", "dropping")
      BY <1>1, <1>3, <2>3, NetworkMoves DEF CloseSocket, NetworkStages
    <2>4. CASE CloseSocket("dropping", "dropped")
      <3>1. mode # "PAPER"
        BY <1>2, <2>4 DEF CloseSocket, Move
      <3> QED
        BY <1>1, <2>4, <3>1, NetworkMoves DEF CloseSocket, NetworkStages
    <2>5. CASE Store("network", "dropped", FALSE, "degraded")
      <3>1. mode # "PAPER"
        BY <1>2, <2>5 DEF Store, Move
      <3> QED
        BY <1>1, <2>5, <3>1, NetworkMoves DEF Store, network, NetworkStages
    <2>6. CASE Tell("network", "degraded", FALSE, "scheduling")
      <3>1. mode # "PAPER"
        BY <1>2, <2>6 DEF Tell, Move
      <3> QED
        BY <1>1, <2>6, <3>1, NetworkMoves DEF Tell, network, NetworkStages
    <2> QED
      BY <1>4, <2>1, <2>2, <2>3, <2>4, <2>5, <2>6 DEF HandleDisconnect
  <1>5. ASSUME NEW from \in {"scheduling", "redialing"}, ScheduleReconnect(from)
        PROVE  Threaded'
    <2>1. mode # "PAPER"
      BY <1>2, <1>5 DEF ScheduleReconnect, Move
    <2>2. redial' \in BOOLEAN
      BY <1>1, <1>5 DEF ScheduleReconnect
    <2> QED
      BY <1>1, <1>5, <2>1, <2>2, NetworkMoves DEF ScheduleReconnect, NetworkStages
  <1>6. CASE UpdateHeartbeat
    BY <1>1, <1>3, <1>6, NetworkMoves DEF UpdateHeartbeat, NetworkStages
  <1>7. CASE Redial
    <2>1. mode # "PAPER"
      BY <1>2, <1>7 DEF Redial, Accepted, Move
    <2> QED
      BY <1>1, <1>7, <2>1, NetworkMoves DEF Redial, Accepted, NetworkStages
  <1> QED
    BY <1>4, <1>5, <1>6, <1>7 DEF NetworkStep

(* Until the callback is set nothing but the first connect and the network *)
(* thread moves, and in PAPER mode the latter does not.                    *)
LEMMA FirstConnectKeeps == IInv /\ Next => FirstConnect'
  <1> SUFFICES ASSUME Threaded, FirstConnect, Next, callback' = "unset"
               PROVE  FirstConnect'
    BY DEF IInv, FirstConnect
  <1>1. callback = "unset"
    BY DEF Next, SetIntegrityCallback, Call, Connect, SimulateReconnect,
           SimulateDisconnect, Disconnect, Pump, OwnerStep, Open, Reconnect,
           StartReconnectWorker, Launch, Stop, RequestStop, JoinNetwork, Close,
           StopReconnectWorker, WorkerStep, Loop, NetworkStep, HandleDisconnect,
           ScheduleReconnect, UpdateHeartbeat, Redial, CloseSocket, Dial, NotStarted,
           Answered, Accepted, Check, Store, Tell
  <1>2. /\ pc["owner"] \in {"connecting", "opening", "opened", "announcing", "refused",
                            "regretting", "idle"}
        /\ pc["worker"] = "none"
        /\ mode = "PAPER" => connected \/ pc["owner"] = "opened"
    BY <1>1 DEF FirstConnect
  <1>3. pc \in [Threads -> OwnerStages \cup WorkerStages \cup NetworkStages]
    BY DEF Threaded, TypeOK
  <1>4. /\ ~Call /\ ~SetIntegrityCallback
    BY <1>1 DEF Call, SetIntegrityCallback
  <1>5. ASSUME WorkerStep PROVE FALSE
    BY <1>2, <1>5 DEF WorkerStep, Loop, Reconnect, Dial, NotStarted, Answered, Accepted,
                      Check, Store, Tell, Move
  <1>6. CASE OwnerStep
    <2>1. CASE Open
      <3> USE DEF FirstConnect, Move, Threads
      <3>1. CASE Dial("owner", "connecting", "opening")
        BY <1>2, <1>3, <3>1 DEF Dial
      <3>2. CASE Check("owner", "connecting", "refused") /\ mode = "LIVE"
        BY <1>2, <1>3, <3>2 DEF Check
      <3>3. CASE Accepted("owner", "opening", "opened")
        BY <1>2, <1>3, <3>3 DEF Accepted
      <3>4. CASE Check("owner", "opening", "refused")
        BY <1>2, <1>3, <3>4 DEF Check, Threaded, PaperStages
      <3>5. CASE Store("owner", "opened", TRUE, "announcing")
        BY <1>2, <1>3, <3>5 DEF Store
      <3>6. CASE Tell("owner", "announcing", TRUE, "idle")
        BY <1>2, <1>3, <3>6 DEF Tell
      <3>7. CASE Store("owner", "refused", FALSE, "regretting")
        BY <1>2, <1>3, <3>7 DEF Store, Threaded, PaperStages
      <3>8. CASE Tell("owner", "regretting", FALSE, "idle")
        BY <1>2, <1>3, <3>8 DEF Tell
      <3> QED
        BY <2>1, <3>1, <3>2, <3>3, <3>4, <3>5, <3>6, <3>7, <3>8
           DEF Open, NotStarted, Answered
    <2>2. ~Reconnect("owner")
      BY <1>2 DEF Reconnect, Dial, NotStarted, Answered, Accepted, Check, Store, Tell, Move
    <2>3. ~StartReconnectWorker
      BY <1>2 DEF StartReconnectWorker, Launch, Check, Move
    <2>4. ~Stop /\ ~Close /\ ~StopReconnectWorker
      BY <1>2 DEF Stop, RequestStop, JoinNetwork, Close, StopReconnectWorker, Store,
                  Check, Move
    <2> QED
      BY <1>6, <2>1, <2>2, <2>3, <2>4 DEF OwnerStep
  <1>7. CASE NetworkStep
    <2>1. mode # "PAPER"
      BY <1>7 DEF Threaded, TypeOK, PaperStages, NetworkStep, HandleDisconnect,
                  ScheduleReconnect, UpdateHeartbeat, Redial, Serving, CloseSocket, Accepted,
                  Check, Store, Tell, Move
    <2>2. /\ \E from, to : Move("network", from, to)
          /\ UNCHANGED mode
      BY <1>7 DEF NetworkStep, HandleDisconnect, ScheduleReconnect, UpdateHeartbeat, Redial,
                  CloseSocket, Accepted, Check, Store, Tell
    <2>3. pc'["owner"] = pc["owner"] /\ pc'["worker"] = pc["worker"]
      BY <1>3, <2>2 DEF Move, Threads
    <2> QED
      BY <1>2, <2>1, <2>2, <2>3 DEF FirstConnect
  <1> QED
    BY <1>4, <1>5, <1>6, <1>7 DEF Next

THEOREM Invariance == Spec => []IInv
  <1>1. IInv /\ UNCHANGED vars => IInv'
    BY DEF IInv, Threaded, TypeOK, WorkerJoined, PaperStages, LossPending, FirstConnect, vars, network
  <1>2. IInv /\ [Next]_vars => IInv'
    BY <1>1, SettingKeeps, CallKeeps, OwnerKeeps, WorkerKeeps, NetworkKeeps,
       FirstConnectKeeps DEF Next, IInv
  <1> QED
    BY InitEstablishes, <1>2, PTL DEF Spec

-----------------------------------------------------------------------------
(* Every thread is always at a stage of its own program, and no socket is  *)
(* opened in PAPER mode.                                                   *)
THEOREM TypeCorrect == Spec => []TypeOK
  BY Invariance, PTL DEF IInv, Threaded

(* disconnect joins the worker for good: none is left, and none is started *)
(* before the next connect.                                                *)
THEOREM ShutdownIsComplete == Spec => []ShutdownLeavesNoWorker
  <1>1. IInv => ShutdownLeavesNoWorker
    BY DEF IInv, Threaded, WorkerJoined, ShutdownLeavesNoWorker, Leaving
  <1> QED
    BY Invariance, <1>1, PTL

(* In PAPER mode a feed that is down with nobody left to restore it has    *)
(* trading halted, in whatever order losses and reconnections report.      *)
THEOREM DeadFeed == Spec => []DeadFeedHaltsInPaper
  <1>1. IInv => DeadFeedHaltsInPaper
    BY DEF IInv, Threaded, LossPending, DeadFeedHaltsInPaper, FeedIsDead, Quiet
  <1> QED
    BY Invariance, <1>1, PTL

(* The owner never replaces or joins a worker that still runs.             *)
THEOREM ThreadsAreJoined == Spec => NoThreadAbandoned
  <1> DEFINE Joined ==
        pc'["owner"] # pc["owner"] /\ pc'["worker"] # pc["worker"]
          => pc["worker"] \in Stopped
  <1>1. TypeOK /\ [Next]_vars => [Joined]_vars
    <2> SUFFICES ASSUME TypeOK, Next PROVE Joined
      OBVIOUS
    <2> USE DEF TypeOK, Threads, Move, Stopped
    <2>0. CASE SetIntegrityCallback
      BY <2>0 DEF SetIntegrityCallback
    <2>1. CASE Call
      BY <2>1 DEF Call, Connect, SimulateReconnect, SimulateDisconnect, Disconnect,
                  Pump, Check, Store, Tell
    <2>2. CASE OwnerStep
      <3>1. CASE Open \/ Reconnect("owner") \/ Stop \/ Close
        BY <3>1 DEF Open, Reconnect, Stop, RequestStop, JoinNetwork, Close,
                    Dial, NotStarted, Answered, Accepted,
                    Check, Store, Tell
      <3>2. CASE StartReconnectWorker
        BY <3>2 DEF StartReconnectWorker, Launch, Check
      <3>3. CASE StopReconnectWorker
        BY <3>3 DEF StopReconnectWorker
      <3> QED
        BY <2>2, <3>1, <3>2, <3>3 DEF OwnerStep
    <2>3. CASE WorkerStep
      BY <2>3 DEF WorkerStep, Loop, Reconnect, Dial, NotStarted, Answered, Accepted,
                  Check, Store, Tell
    <2>4. CASE NetworkStep
      BY <2>4 DEF NetworkStep, HandleDisconnect, ScheduleReconnect, UpdateHeartbeat,
                  Redial, Accepted,
                  CloseSocket, Check, Store, Tell
    <2> QED
      BY <2>0, <2>1, <2>2, <2>3, <2>4 DEF Next
  <1> QED
    BY TypeCorrect, <1>1, PTL DEF Spec, NoThreadAbandoned

=============================================================================
