--------------------------- MODULE RoomConnection ---------------------------
(***************************************************************************)
(* The client's WebSocket transport of one room: dialling, the timer of    *)
(* ten seconds on a dialled socket, heartbeats, back-off and disposal      *)
(* (client/src/multiplayer/RoomConnection.ts).  `conn' is the object and   *)
(* `wire' what the network does with each socket it made.                  *)
(***************************************************************************)
EXTENDS Naturals, FiniteSets

CONSTANTS
    Urls,           \* rooms' addresses, each with the token of a session
    Sockets,        \* identities of sockets; one is used again once it is gone
    NoSocket,
    MaxAttempts,    \* attempts that are told apart: later ones wait the same eight seconds
    MaxOutages,     \* how often the network goes down
    Lingering       \* whether a socket that was closed may still deliver something

ASSUME SocketAssumption == NoSocket \notin Sockets /\ IsFiniteSet(Sockets)
ASSUME AttemptsAssumption == MaxAttempts \in Nat \ {0} /\ MaxOutages \in Nat /\ Lingering \in BOOLEAN

VARIABLES conn, wire, online, outages
connectionVars == <<conn, wire, online, outages>>

Statuses == {"connecting", "connected", "reconnecting", "disconnected"}
Timers == {"none", "retry", "open", "beat", "ack"}
Wires == {"free", "opening", "open", "closing"}

Fresh(url, status) == [url |-> url, stopped |-> TRUE, socket |-> NoSocket, ready |-> FALSE, timer |-> "none",
                       attempts |-> 0, status |-> status, heard |-> {}]

\* Mutant of Dispose: the handlers of the old socket stay.
DisposeHeard(c) == [c EXCEPT !.ready = FALSE, !.timer = "none", !.socket = NoSocket]
\* disposeSocket: nothing the old socket says is heard any more.
Dispose(c) == [c EXCEPT !.ready = FALSE, !.timer = "none", !.socket = NoSocket,
                        !.heard = @ \ {c.socket}]
Hung(w, s) == [w EXCEPT ![s] = IF Lingering THEN "closing" ELSE "free"]
Hangup(c) == IF c.socket = NoSocket THEN wire ELSE Hung(wire, c.socket)

Halt(c) == [Dispose(c) EXCEPT !.stopped = TRUE]

Reconnect(c) == [Dispose(c) EXCEPT !.status = "reconnecting", !.timer = "retry",
                 !.attempts = IF @ < MaxAttempts THEN @ + 1 ELSE @]

\* connect: makeSocket gives a socket, or throws and the connection backs off.
Dial(c, w) ==
    \/ \E s \in Sockets :
        /\ w[s] = "free"
        /\ conn' = [c EXCEPT !.status = IF c.attempts = 0 THEN "connecting" ELSE "reconnecting",
                             !.socket = s, !.heard = @ \cup {s}, !.timer = "open"]
        /\ wire' = [w EXCEPT ![s] = "opening"]
    \/ /\ ~online
       /\ conn' = Reconnect(c)
       /\ wire' = w

Start ==
    /\ conn.stopped /\ conn.socket = NoSocket
    /\ Dial([conn EXCEPT !.stopped = FALSE], wire)
    /\ UNCHANGED <<online, outages>>

Stop ==
    /\ conn' = Halt(conn)
    /\ wire' = Hangup(conn)
    /\ UNCHANGED <<online, outages>>

RetryNow ==
    /\ ~conn.stopped
    /\ Dial(Dispose(conn), Hangup(conn))
    /\ UNCHANGED <<online, outages>>

RetryTimer ==
    /\ conn.timer = "retry"
    /\ Dial([conn EXCEPT !.timer = "none"], wire)
    /\ UNCHANGED <<online, outages>>

\* Ten seconds without CONNECTED, or without an answer to a heartbeat.
Unanswered ==
    /\ conn.timer \in {"open", "ack"}
    /\ conn' = Reconnect(conn)
    /\ wire' = Hangup(conn)
    /\ UNCHANGED <<online, outages>>

\* Five seconds after the last answer: a heartbeat, or an error of send.
Heartbeat ==
    /\ conn.timer = "beat"
    /\ \/ conn' = [conn EXCEPT !.timer = "ack"] /\ UNCHANGED wire
       \/ conn' = Reconnect(conn) /\ wire' = Hangup(conn)
    /\ UNCHANGED <<online, outages>>

\* A handler acts only on behalf of the socket in use.
Listens(c, s) == s \in c.heard /\ c.socket = s /\ ~c.stopped

Welcomed(c) == [c EXCEPT !.ready = TRUE, !.attempts = 0, !.status = "connected", !.timer = "beat"]

\* CONNECTED may still be on its way when its socket has been replaced.
Welcome(s) ==
    /\ \/ wire[s] = "opening" /\ online
       \/ wire[s] = "closing"
    /\ wire' = [wire EXCEPT ![s] = IF @ = "opening" THEN "open" ELSE @]
    /\ conn' = IF Listens(conn, s) THEN Welcomed(conn) ELSE conn
    /\ UNCHANGED <<online, outages>>

HeartbeatAck(s) ==
    /\ wire[s] \in {"open", "closing"} /\ (wire[s] = "open" => online)
    /\ conn' = IF Listens(conn, s) THEN [conn EXCEPT !.timer = "beat"] ELSE conn
    /\ UNCHANGED <<wire, online, outages>>

\* The room was left elsewhere, or resumed without a membership: the connection stops for good.
RoomLeft(s) ==
    /\ wire[s] \in {"opening", "open"} /\ online /\ Listens(conn, s)
    /\ conn' = [Halt(conn) EXCEPT !.status = "disconnected"]
    /\ wire' = Hangup(conn)
    /\ UNCHANGED <<online, outages>>

\* onclose or onerror of a socket, whoever closed it.
Closed(s) ==
    /\ wire[s] # "free"
    /\ wire' = [wire EXCEPT ![s] = "free"]
    /\ conn' = IF Listens(conn, s) THEN Reconnect(conn) ELSE conn
    /\ UNCHANGED <<online, outages>>

Outage ==
    /\ online /\ outages < MaxOutages
    /\ online' = FALSE /\ outages' = outages + 1
    /\ UNCHANGED <<conn, wire>>

Restored ==
    /\ ~online
    /\ online' = TRUE
    /\ UNCHANGED <<conn, wire, outages>>

ConnectionInit ==
    /\ \E url \in Urls : conn = Fresh(url, "disconnected")
    /\ wire = [s \in Sockets |-> "free"]
    /\ online = TRUE /\ outages = 0

Timed == RetryTimer \/ Unanswered \/ Heartbeat
Network == Outage \/ Restored \/ \E s \in Sockets : Welcome(s) \/ HeartbeatAck(s) \/ Closed(s)
ConnectionNext == Start \/ Stop \/ RetryNow \/ Timed \/ Network \/ \E s \in Sockets : RoomLeft(s)

ConnectionSpec == ConnectionInit /\ [][ConnectionNext]_connectionVars

(***************************************************************************)
(* Timers run out, closed sockets go, a network that is down comes back.   *)
(* A server that is asked again and again answers once within ten seconds. *)
(***************************************************************************)
ConnectionFairness ==
    /\ WF_connectionVars(Timed)
    /\ WF_connectionVars(Restored)
    /\ \A s \in Sockets : WF_connectionVars(wire[s] = "closing" /\ Closed(s))
    /\ SF_connectionVars(\E s \in Sockets : Listens(conn, s) /\ Welcome(s))

----------------------------------------------------------------------------
ConnectionTypeOK ==
    /\ conn \in [url : Urls, stopped : BOOLEAN, socket : Sockets \cup {NoSocket}, ready : BOOLEAN,
                 timer : Timers, attempts : 0 .. MaxAttempts, status : Statuses, heard : SUBSET Sockets]
    /\ wire \in [Sockets -> Wires]
    /\ online \in BOOLEAN /\ outages \in 0 .. MaxOutages

\* While it runs, exactly one thing will wake the connection up, only the socket in
\* use is heard, and what it shows as connected is the socket that was welcomed.
OneSocketOneTimer ==
    /\ conn.heard = IF conn.socket = NoSocket THEN {} ELSE {conn.socket}
    /\ conn.stopped => conn.timer = "none" /\ conn.socket = NoSocket
    /\ ~conn.stopped => /\ conn.timer # "none"
                        /\ conn.timer = "retry" <=> conn.socket = NoSocket
                        /\ conn.ready <=> conn.timer \in {"beat", "ack"}
                        /\ conn.status = "connected" => conn.ready

\* A connection that is not stopped is in the end connected, or stopped.
Reconnects == ~conn.stopped ~> (conn.ready \/ conn.stopped)
=============================================================================
