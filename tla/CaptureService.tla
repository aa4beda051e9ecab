--------------------------- MODULE CaptureService ---------------------------
(***************************************************************************)
(* Capture sessions (services/capture_service.py, packet_capture/          *)
(* capture.py) composed with the flow table they share.                    *)
(*                                                                         *)
(* Every POST /capture/start makes a PacketCapture with a capture thread   *)
(* of its own, but all of them feed the one FlowManager of the service,    *)
(* whose start() and stop() they call.  The handlers run on the event      *)
(* loop, one at a time; capture threads and the timeout thread run beside  *)
(* them.  A capture thread is a Sniffer of FlowManager.                    *)
(***************************************************************************)
EXTENDS FlowManager

CONSTANT NoSession

ASSUME NoSessionIsNone == NoSession \notin Sniffers

VARIABLES
    capture,     \* CaptureService.capture
    running,     \* its _running flag (FALSE when there is none)
    backend,     \* the capture thread of every session
    handler      \* where the event loop is in start_capture or stop_capture

sessionVars == <<capture, running, backend, handler>>
flowVars    == vars
allVars     == <<sessionVars, flowVars>>

\* "left": stop() gave up on the thread: join timed out (Scapy), or there was
\* no join at all (PyShark).  Such a thread may still deliver packets.
ThreadStates == {"unborn", "sniffing", "stopping", "left", "ended"}

Delivers(s) == backend[s] \in {"sniffing", "stopping", "left"}

ServiceInit ==
    /\ Init
    /\ capture = NoSession
    /\ running = FALSE
    /\ backend = [s \in Sniffers |-> "unborn"]
    /\ handler = "idle"

-----------------------------------------------------------------------------
(* start_capture                                                           *)

FaultyMayStart == handler = "idle"
MayStart == handler = "idle" /\ capture = NoSession

\* FlowManager.start(), a no-op while a timeout thread is alive.
FaultyStartFlows ==
    /\ stopEvent' = FALSE
    /\ reaper' = IF Alive THEN reaper ELSE "waiting"
    /\ UNCHANGED <<table, heap, nextId, stamp, holding, expired, chosen, ctl,
                   remaining, closes>>
StartFlows == (~Alive /\ Start) \/ (Alive /\ UNCHANGED flowVars)

\* The service keeps the new PacketCapture before it starts it, and
\* PacketCapture.start() starts the flow manager before the backend.
StartCapture(s) ==
    /\ MayStart
    /\ backend[s] = "unborn"
    /\ capture' = s
    /\ handler' = "opening"
    /\ StartFlows
    /\ UNCHANGED <<running, backend>>

BackendStarts ==
    /\ handler = "opening"
    /\ backend' = [backend EXCEPT ![capture] = "sniffing"]
    /\ running' = TRUE
    /\ handler' = "idle"
    /\ UNCHANGED <<capture, flowVars>>

\* The backend raises (no pyshark, no such interface, no permission): the
\* request fails, and the service keeps a capture that never ran.
BackendFails ==
    /\ handler = "opening"
    /\ handler' = "idle"
    /\ UNCHANGED <<capture, running, backend, flowVars>>

-----------------------------------------------------------------------------
(* stop_capture                                                            *)

\* PacketCapture.stop() of a capture that never ran returns at once: the flow
\* manager, which start() did start, is left as it is.
StopNeverRan ==
    /\ handler = "idle"
    /\ capture # NoSession
    /\ ~running
    /\ capture' = NoSession
    /\ UNCHANGED <<running, backend, handler, flowVars>>

FaultyAsked == backend
Asked == [backend EXCEPT ![capture] = IF @ = "sniffing" THEN "stopping" ELSE @]

\* _backend.stop() asks the capture thread to end.
StopBackend ==
    /\ handler = "idle"
    /\ running
    /\ backend' = Asked
    /\ handler' = "stopping"
    /\ UNCHANGED <<capture, running, flowVars>>

\* _backend.stop() has returned or raised, with its thread ended or not.  The
\* finally clause enters FlowManager.stop() in either case.
FaultyStopFlows ==
    /\ handler = "stopping"
    /\ IF backend[capture] = "ended" THEN Stop ELSE UNCHANGED flowVars
    /\ backend' = [backend EXCEPT ![capture] = IF @ = "stopping" THEN "left" ELSE @]
    /\ handler' = "draining"
    /\ UNCHANGED <<capture, running>>
StopFlows ==
    /\ handler = "stopping"
    /\ Stop
    /\ backend' = [backend EXCEPT ![capture] = IF @ = "stopping" THEN "left" ELSE @]
    /\ handler' = "draining"
    /\ UNCHANGED <<capture, running>>

\* FlowManager.stop() has returned: _running is cleared, the capture detached.
FaultyFinishStop ==
    /\ handler = "draining"
    /\ ctl = "idle"
    /\ capture' = NoSession
    /\ handler' = "idle"
    /\ UNCHANGED <<running, backend, flowVars>>
FinishStop ==
    /\ handler = "draining"
    /\ ctl = "idle"
    /\ running' = FALSE
    /\ capture' = NoSession
    /\ handler' = "idle"
    /\ UNCHANGED <<backend, flowVars>>

-----------------------------------------------------------------------------
(* The threads                                                             *)

\* _handle_raw_packet of session s, on its capture thread.
Capturing(s) ==
    /\ Delivers(s)
    /\ Sniffer(s)
    /\ UNCHANGED sessionVars

\* A capture thread ends between two packets: because it was asked to, or by
\* itself (the interface went away, tshark exited).
ThreadEnds(s) ==
    /\ backend[s] \in {"sniffing", "stopping"}
    /\ holding[s] = NoFlow
    /\ backend' = [backend EXCEPT ![s] = "ended"]
    /\ UNCHANGED <<capture, running, handler, flowVars>>

FlowManagerRuns ==
    /\ Reaper \/ CloseAll \/ CloseRemaining \/ Tick
    /\ UNCHANGED sessionVars

EventLoop ==
    \/ \E s \in Sniffers : StartCapture(s)
    \/ BackendStarts
    \/ BackendFails
    \/ StopNeverRan
    \/ StopBackend
    \/ StopFlows
    \/ FinishStop

ServiceNext ==
    \/ EventLoop
    \/ \E s \in Sniffers : Capturing(s) \/ ThreadEnds(s)
    \/ FlowManagerRuns

ServiceSpec == ServiceInit /\ [][ServiceNext]_allVars

\* A stop_capture that was begun is carried through, and every thread inside
\* the flow manager goes on.  No thread is obliged to notice that it was asked
\* to end, and nobody is obliged to start or stop a session.
ServiceFairness ==
    /\ WF_allVars(StopFlows \/ FinishStop)
    /\ WF_allVars(Reaper /\ UNCHANGED sessionVars)
    /\ WF_allVars((CloseAll \/ CloseRemaining) /\ UNCHANGED sessionVars)
    /\ \A s \in Sniffers : WF_allVars(CloseTerminated(s) /\ UNCHANGED sessionVars)

FairServiceSpec == ServiceSpec /\ ServiceFairness

-----------------------------------------------------------------------------
(* Properties                                                              *)

ServiceTypeOK ==
    /\ capture \in Sniffers \cup {NoSession}
    /\ running \in BOOLEAN
    /\ backend \in [Sniffers -> ThreadStates]
    /\ handler \in {"idle", "opening", "stopping", "draining"}
    /\ running => capture # NoSession
    /\ handler # "idle" => capture # NoSession
    /\ handler \in {"stopping", "draining"} => running

\* The sessions use the flow manager as its own specification allows: whatever
\* the order of starts, failures and stops, everything FlowManager promises
\* (one owner per flow, one callback per flow) holds with sessions on top.
FlowTableSpec == Spec

\* A capture thread nobody asked to end belongs to the session the service
\* holds, so POST /capture/stop can always reach it: starting, failing and
\* stopping never leave a thread that captures on behalf of no session.
NoOrphanCapture ==
    \A s \in Sniffers : backend[s] \in {"sniffing", "stopping"} => capture = s

\* When stop_capture has returned and every capture thread ended in time, each
\* flow ever captured has been handed to detection, or is about to be by a
\* sweep of the timeout thread that outlasted the join: "close every remaining
\* open flow" (FlowManager.stop) covers packets in flight during the stop.
NothingLeftBehind ==
    (capture = NoSession /\ \A s \in Sniffers : backend[s] # "left")
       => \A i \in FlowIds : i < nextId => closes[i] = 1 \/ i \in expired

\* Every flow that exists when a stop is under way reaches detection in the
\* end, also when the backend's stop raises or its thread does not end: the
\* finally clause of PacketCapture.stop tears the flow manager down always.
StopHandsOverEveryFlow ==
    \A i \in FlowIds : handler = "stopping" /\ i < nextId ~> closes[i] > 0

=============================================================================
