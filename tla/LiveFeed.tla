------------------------------ MODULE LiveFeed ------------------------------
(***************************************************************************)
(* The connection of LiveDataAdapter: connect, disconnect, the simulated   *)
(* loss and reconnection, the worker thread that retries, and the          *)
(* integrity callback through which main halts RiskEngine.                 *)
(*                                                                         *)
(* Three threads: the owner, which makes the calls, the reconnect worker,  *)
(* and in LIVE mode the thread of AsyncNetworkClient.  m_connected is an   *)
(* atomic that each of them stores and then reports through the callback,  *)
(* with no lock around the pair, so every store, every report and every    *)
(* test of the flag is a step of its own.                                  *)
(*                                                                         *)
(* Back-off delays, attempt counts and the content of candles are left     *)
(* out: a thread stays in "sleeping" as long as the scheduler likes.       *)
(* X_Y is X with one plausible mistake Y, which no action uses.            *)
(***************************************************************************)
CONSTANT Modes  \* modes the adapter is built in; BACKTEST makes it a no-op

ASSUME ModeAssumption == Modes \subseteq {"PAPER", "LIVE"}

VARIABLES
  mode,         \* m_cfg.mode, LIVE with both containment gates open
  connected,    \* m_connected
  shutdown,     \* m_shutdown
  halted,       \* RiskEngine::m_halted, as this feed sets it
  callback,     \* m_integrityCallback: not set, set, or (history) called
  running,      \* AsyncNetworkClient::m_running
  wsConnected,  \* AsyncNetworkClient::m_wsConnected
  redial,       \* m_nextReconnectNs # 0
  pc            \* where each thread is

network == <<running, wsConnected, redial>>
vars == <<mode, callback, connected, shutdown, halted, network, pc>>

Threads == {"owner", "worker", "network"}

ReconnectStages == {"reconnecting", "dialing", "reached", "restored"}

OwnerStages ==
  {"idle", "connecting", "opening", "opened", "announcing", "refused", "regretting", "lost",
   "spawning", "rechecking", "joining", "pumping", "pumped",
   "shutting", "stopping", "stopped", "closing"} \cup ReconnectStages

WorkerStages == {"none", "looping", "sleeping", "finished"} \cup ReconnectStages

NetworkStages == {"idle", "dropping", "dropped", "degraded", "scheduling",
                  "closing", "redialing"}

(* "none" is a worker that is not joinable, "finished" one that has left   *)
(* its loop and was not joined.                                            *)
Stopped == {"none", "finished"}

Move(t, from, to) == pc[t] = from /\ pc' = [pc EXCEPT ![t] = to]

(* The integrity callback: main passes its negation to setHaltTrading.     *)
(* Until main has set it a report reaches nobody.                          *)
Tell(t, from, ok, to) ==
  /\ Move(t, from, to)
  /\ IF callback = "unset" THEN UNCHANGED <<callback, halted>>
     ELSE callback' = "called" /\ halted' = ~ok
  /\ UNCHANGED <<mode, connected, shutdown, network>>

Store(t, from, up, to) ==
  /\ Move(t, from, to)
  /\ connected' = up
  /\ UNCHANGED <<mode, callback, shutdown, halted, network>>

Check(t, from, to) ==
  /\ Move(t, from, to)
  /\ UNCHANGED <<mode, callback, connected, shutdown, halted, network>>

Dial_AnyMode(t, from, to) ==
  /\ Move(t, from, to)
  /\ running' = TRUE /\ wsConnected' = FALSE
  /\ UNCHANGED <<mode, callback, connected, shutdown, halted, redial>>

(* connectWebSocket starts the client if need be and closes the old socket *)
(* before it opens the new one.                                            *)
Dial(t, from, to) ==
  /\ mode = "LIVE"
  /\ Move(t, from, to)
  /\ running' = TRUE /\ wsConnected' = FALSE
  /\ UNCHANGED <<mode, callback, connected, shutdown, halted, redial>>

NotStarted(t, from, to) ==
  /\ mode = "LIVE" /\ ~running
  /\ Check(t, from, to)

Accepted(t, from, to) ==
  /\ Move(t, from, to)
  /\ wsConnected' = TRUE /\ redial' = FALSE
  /\ UNCHANGED <<mode, callback, connected, shutdown, halted, running>>

Answered(t, from, up, down) == Accepted(t, from, up) \/ Check(t, from, down)

(***************************************************************************)
(* connect.                                                                *)
(***************************************************************************)
Connect ==
  /\ ~connected
  /\ Move("owner", "idle", IF mode = "PAPER" THEN "opened" ELSE "connecting")
  /\ shutdown' = FALSE
  /\ UNCHANGED <<mode, callback, connected, halted, network>>

Open ==
  \/ Dial("owner", "connecting", "opening")
  \/ NotStarted("owner", "connecting", "refused")
  \/ Answered("owner", "opening", "opened", "refused")
  \/ Store("owner", "opened", TRUE, "announcing")
  \/ Tell("owner", "announcing", TRUE, "idle")
  \/ Store("owner", "refused", FALSE, "regretting")
  \/ Tell("owner", "regretting", FALSE, "idle")

(***************************************************************************)
(* simulateReconnect, by the owner or by the worker.  The flag is stored   *)
(* under m_mutex, which orders it against no other store.                  *)
(***************************************************************************)
Return(t) == IF t = "owner" THEN "idle" ELSE "looping"

SimulateReconnect == Check("owner", "idle", "reconnecting")

Reconnect_LossUnnoticed(t) ==
  \/ mode = "PAPER" /\ Check(t, "reconnecting", "reached")
  \/ Dial(t, "reconnecting", "dialing")
  \/ NotStarted(t, "reconnecting", Return(t))
  \/ Answered(t, "dialing", "reached", Return(t))
  \/ Store(t, "reached", TRUE, "restored")
  \/ Tell(t, "restored", TRUE, IF t = "owner" THEN "idle" ELSE "finished")

Reconnect(t) ==
  \/ mode = "PAPER" /\ Check(t, "reconnecting", "reached")
  \/ Dial(t, "reconnecting", "dialing")
  \/ NotStarted(t, "reconnecting", Return(t))
  \/ Answered(t, "dialing", "reached", Return(t))
  \/ Store(t, "reached", TRUE, "restored")
  \/ Tell(t, "restored", TRUE, Return(t))

(***************************************************************************)
(* The worker's loop: the flags are tested before and after it sleeps.     *)
(***************************************************************************)
Loop_ShutdownUnchecked ==
  \/ Check("worker", "looping", IF ~connected THEN "sleeping" ELSE "finished")
  \/ Check("worker", "sleeping", "reconnecting")

Loop_GivesUp ==
  \/ Check("worker", "looping",
           IF ~shutdown /\ connected THEN "sleeping" ELSE "finished")
  \/ Check("worker", "sleeping", IF shutdown THEN "finished" ELSE "reconnecting")

Loop ==
  \/ Check("worker", "looping",
           IF ~shutdown /\ ~connected THEN "sleeping" ELSE "finished")
  \/ Check("worker", "sleeping", IF shutdown THEN "finished" ELSE "reconnecting")

(***************************************************************************)
(* simulateDisconnect and startReconnectWorker.                            *)
(***************************************************************************)
SimulateDisconnect ==
  \/ Store("owner", "idle", FALSE, "lost")
  \/ Tell("owner", "lost", FALSE, "spawning")

(* The thread object is assigned a new thread; one that still runs in it   *)
(* would end the process.                                                  *)
Launch(from) ==
  /\ pc["owner"] = from
  /\ pc' = [pc EXCEPT !["owner"] = "idle", !["worker"] = "looping"]
  /\ UNCHANGED <<mode, callback, connected, shutdown, halted, network>>

StartReconnectWorker_Unjoined ==
  \/ IF shutdown \/ connected THEN Check("owner", "spawning", "idle")
     ELSE Launch("spawning")
  \/ Check("owner", "rechecking", "joining")
  \/ Launch("joining")

StartReconnectWorker ==
  \/ IF shutdown \/ connected THEN Check("owner", "spawning", "idle")
     ELSE IF pc["worker"] = "none" THEN Launch("spawning")
     ELSE Check("owner", "spawning", "rechecking")
  \/ Check("owner", "rechecking",
           IF ~connected /\ ~shutdown THEN "idle" ELSE "joining")
  \/ pc["worker"] = "finished" /\ Launch("joining")

(***************************************************************************)
(* disconnect.                                                             *)
(***************************************************************************)
Disconnect ==
  /\ Move("owner", "idle", "shutting")
  /\ shutdown' = TRUE
  /\ UNCHANGED <<mode, callback, connected, halted, network>>

(* AsyncNetworkClient::stop: asked to, the thread finishes what it is in   *)
(* and begins nothing more, and stop joins it.                             *)
RequestStop == Check("owner", "shutting", IF running THEN "stopping" ELSE "stopped")

JoinNetwork ==
  /\ pc["network"] = "idle"
  /\ Move("owner", "stopping", "stopped")
  /\ running' = FALSE /\ wsConnected' = FALSE
  /\ UNCHANGED <<mode, callback, connected, shutdown, halted, redial>>

Stop == RequestStop \/ JoinNetwork

StopReconnectWorker_Unjoined ==
  Check("owner", "closing", "idle")

StopReconnectWorker ==
  /\ pc["owner"] = "closing" /\ pc["worker"] \in Stopped
  /\ pc' = [pc EXCEPT !["owner"] = "idle", !["worker"] = "none"]
  /\ UNCHANGED <<mode, callback, connected, shutdown, halted, network>>

Close == Store("owner", "stopped", FALSE, "closing")

(***************************************************************************)
(* pumpNetworkIngress, which getNextCandle calls: a socket that the client *)
(* reconnected by itself restores the feed.                                *)
(***************************************************************************)
Pump ==
  \/ ~connected /\ wsConnected /\ Check("owner", "idle", "pumping")
  \/ Store("owner", "pumping", TRUE, "pumped")
  \/ Tell("owner", "pumped", TRUE, "idle")

(***************************************************************************)
(* The network thread: handleDisconnect, with the callback that connect    *)
(* gave it in LIVE mode, and the redial of updateHeartbeat.                *)
(***************************************************************************)
Serving == running /\ pc["owner"] # "stopping"

CloseSocket(from, to) ==
  /\ Move("network", from, to)
  /\ wsConnected' = FALSE
  /\ UNCHANGED <<mode, callback, connected, shutdown, halted, running, redial>>

Redialed == \E t \in {"owner", "worker"} : pc[t] \in {"opening", "dialing"}

(* A socket that fails while another thread still opens it is closed       *)
(* without a word to anyone.                                               *)
HandleDisconnect ==
  \/ Serving /\ ~wsConnected /\ Redialed /\ Check("network", "idle", "closing")
  \/ CloseSocket("closing", "idle")
  \/ Serving /\ wsConnected /\ CloseSocket("idle", "dropping")
  \/ CloseSocket("dropping", "dropped")
  \/ Store("network", "dropped", FALSE, "degraded")
  \/ Tell("network", "degraded", FALSE, "scheduling")

ScheduleReconnect(from) ==
  /\ Move("network", from, "idle")
  /\ redial' = IF pc["owner"] = "stopping" THEN redial ELSE TRUE
  /\ UNCHANGED <<mode, callback, connected, shutdown, halted, running, wsConnected>>

UpdateHeartbeat ==
  /\ Serving /\ ~wsConnected /\ redial
  /\ Move("network", "idle", "redialing")
  /\ redial' = FALSE /\ wsConnected' = FALSE
  /\ UNCHANGED <<mode, callback, connected, shutdown, halted, running>>

Redial == Accepted("network", "redialing", "idle")

(***************************************************************************)
(* The specification.  As in main the owner connects first, then sets the  *)
(* callback, and makes its other calls after that.                         *)
(***************************************************************************)
Init ==
  /\ mode \in Modes
  /\ connected = FALSE /\ shutdown = FALSE /\ halted = FALSE /\ callback = "unset"
  /\ running = FALSE /\ wsConnected = FALSE /\ redial = FALSE
  /\ pc = [t \in Threads |->
             CASE t = "owner"   -> IF mode = "PAPER" THEN "opened" ELSE "connecting"
               [] t = "worker"  -> "none"
               [] t = "network" -> "idle"]

SetIntegrityCallback ==
  /\ callback = "unset" /\ pc["owner"] = "idle"
  /\ callback' = "set"
  /\ UNCHANGED <<mode, connected, shutdown, halted, network, pc>>

Call ==
  /\ callback # "unset"
  /\ Connect \/ SimulateReconnect \/ SimulateDisconnect \/ Disconnect \/ Pump

OwnerStep ==
  \/ Open \/ Reconnect("owner") \/ StartReconnectWorker
  \/ Stop \/ Close \/ StopReconnectWorker

WorkerStep == Loop \/ Reconnect("worker")

NetworkStep ==
  \/ HandleDisconnect \/ ScheduleReconnect("scheduling")
  \/ UpdateHeartbeat \/ Redial \/ ScheduleReconnect("redialing")

Next == SetIntegrityCallback \/ Call \/ OwnerStep \/ WorkerStep \/ NetworkStep

(* A thread inside a call goes on: the scheduler runs every thread, and a  *)
(* dial gets an answer of some kind.  Nobody has to make a call, the       *)
(* network has to lose or to regain nothing.                               *)
Fairness ==
  /\ WF_vars(pc["owner"] # "idle" /\ (Call \/ OwnerStep))
  /\ WF_vars(WorkerStep)
  /\ WF_vars(pc["network"] # "idle" /\ NetworkStep)

Spec == Init /\ [][Next]_vars /\ Fairness

-----------------------------------------------------------------------------
(***************************************************************************)
(* Properties.                                                             *)
(***************************************************************************)

(* Every variable has its type, and in PAPER mode no socket is touched.    *)
TypeOK ==
  /\ mode \in {"PAPER", "LIVE"}
  /\ connected \in BOOLEAN /\ shutdown \in BOOLEAN /\ halted \in BOOLEAN
  /\ callback \in {"unset", "set", "called"}
  /\ running \in BOOLEAN /\ wsConnected \in BOOLEAN /\ redial \in BOOLEAN
  /\ pc \in [Threads -> OwnerStages \cup WorkerStages \cup NetworkStages]
  /\ pc["owner"] \in OwnerStages
  /\ pc["worker"] \in WorkerStages
  /\ pc["network"] \in NetworkStages
  /\ mode = "PAPER" => ~running /\ ~wsConnected

(* The worker's thread object is replaced or joined by the owner only when *)
(* the thread it held has ended.                                           *)
NoThreadAbandoned ==
  [][ pc'["owner"] # pc["owner"] /\ pc'["worker"] # pc["worker"]
      => pc["worker"] \in Stopped ]_vars

(* Once disconnect has returned no worker is left behind.                  *)
ShutdownLeavesNoWorker == shutdown /\ pc["owner"] = "idle" => pc["worker"] = "none"

(* No thread is inside a call or about to retry.                           *)
Quiet ==
  /\ pc["owner"] = "idle" /\ pc["network"] = "idle"
  /\ pc["worker"] \in Stopped

FeedIsDead == Quiet /\ ~connected /\ ~shutdown

(* LiveDataAdapter.hpp: the callback tells of every transition of the      *)
(* feed's integrity.  Once it has been called, a feed that is down, with   *)
(* nobody left who would restore it, must have trading halted, whatever    *)
(* the order in which a loss and a reconnection reported themselves.       *)
DeadFeedHalts == FeedIsDead /\ callback = "called" => halted

(* In PAPER mode a dead feed has trading halted from the start: there the  *)
(* first connect, which nobody hears of, cannot fail.                      *)
DeadFeedHaltsInPaper == mode = "PAPER" /\ FeedIsDead => halted

(* disconnect returns: the client and the worker can always be joined.     *)
DisconnectReturns ==
  pc["owner"] \in {"shutting", "stopping", "stopped", "closing"} ~> pc["owner"] = "idle"

(* A worker that runs in PAPER mode brings the feed back.                  *)
WorkerReconnects ==
  mode = "PAPER" /\ pc["worker"] \notin Stopped ~> connected \/ shutdown

(* LiveDataAdapter.hpp: "On disconnection, applies exponential back-off    *)
(* reconnection."  Every loss in PAPER mode, not the first alone.          *)
LossIsHealed == mode = "PAPER" /\ ~connected ~> connected \/ shutdown

=============================================================================
