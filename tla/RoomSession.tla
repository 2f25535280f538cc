----------------------------- MODULE RoomSession -----------------------------
(***************************************************************************)
(* The client's identity, room and saved record (useRoomSession.ts,        *)
(* session.ts, App.tsx and the room operations of SharedRoomsScreen.tsx),  *)
(* composed with the transport of the room.  A request captures session    *)
(* and room when it is made; its answer is handled with those values.      *)
(* `srv' is the server as this user's client meets it.                     *)
(***************************************************************************)
EXTENDS RoomConnection

CONSTANTS
    Sessions,       \* tokens the server may issue to the user
    Rooms,
    None,
    MaxCalls,       \* requests under way at once, signing out apart
    MaxMounts       \* how often the lobby screen is opened

ASSUME SessionAssumption == None \notin Sessions \cup Rooms /\ MaxCalls \in Nat /\ MaxMounts \in Nat

ASSUME UrlAssumption == Urls = (Sessions \cup {None}) \X (Rooms \cup {None})

VARIABLES app, stored, calls, srv
sessionVars == <<app, stored, calls, srv>>
vars == <<connectionVars, sessionVars>>

Record(session, room) == [session |-> session, room |-> room]
NoRecord == Record(None, None)
Kinds == {"login", "enter", "create", "leave", "delete", "leaveGame", "signout"}
Phases == {"sent", "ok", "refused", "denied", "lost"}

Places == {"gone", "outside", "member", "seated"}   \* what a room is to the user
Member(r) == srv.place[r] \in {"member", "seated"}
Shown == app.screen = "rooms"
SignedIn(a) == a.screen = "rooms" /\ a.session # None /\ ~a.expired
InRoom(a) == SignedIn(a) /\ a.room # None
Url(a) == <<a.session, a.room>>

\* What a commit of `a' runs: the effect that saves the record and, when session, room or
\* expiry changed, the one that replaces the transport of the room.
Committed(a, c, w, rec, touched) ==
    LET changed == <<a.mount, a.screen, a.session, a.room, a.expired>>
                     # <<app.mount, app.screen, app.session, app.room, app.expired>>
    IN /\ app' = a
       /\ stored' = IF SignedIn(a) /\ (changed \/ touched) THEN Record(a.session, a.room) ELSE rec
       /\ IF ~changed THEN conn' = c /\ wire' = w
          ELSE LET hung == IF c.socket = NoSocket THEN w ELSE Hung(w, c.socket)
               IN IF InRoom(a) THEN Dial([Fresh(Url(a), c.status) EXCEPT !.stopped = FALSE], hung)
                  ELSE conn' = Fresh(Url(a), "disconnected") /\ wire' = hung
       /\ UNCHANGED <<online, outages>>

Stays(a) == Committed(a, conn, wire, stored, FALSE)

\* A request is made with the session and room of this render.
Call(kind, room) == [kind |-> kind, mount |-> app.mount, session |-> app.session, room |-> room,
                     phase |-> "sent", served |-> FALSE]
Busy == \E c \in calls : c.mount = app.mount /\ c.kind \in {"enter", "create", "leaveGame"}
LoggingIn == \E c \in calls : c.mount = app.mount /\ c.kind = "login"
Under == {c \in calls : c.kind # "signout"}
Send(c) ==
    /\ c.kind = "signout" \/ Cardinality(Under) < MaxCalls
    /\ c \notin calls /\ calls' = calls \cup {c}

\* Opening the lobby reads the record; expiry and dialogs are state of the screen.
OpenLobby ==
    /\ app.screen = "welcome" /\ app.mount < MaxMounts
    /\ Committed([app EXCEPT !.screen = "rooms", !.mount = @ + 1, !.expired = FALSE, !.leave = FALSE,
                             !.session = stored.session, !.room = stored.room], conn, wire, stored, FALSE)
    /\ UNCHANGED <<calls, srv>>

\* A page that is loaded again knows the record only; requests under way go on without it.
Reload ==
    /\ app.mount < MaxMounts /\ Shown
    /\ Committed([app EXCEPT !.screen = IF stored.session = None THEN "welcome" ELSE "rooms",
                             !.mount = @ + 1, !.expired = FALSE, !.leave = FALSE,
                             !.session = stored.session, !.room = stored.room], conn, wire, stored, FALSE)
    /\ calls' = {[c EXCEPT !.mount = 0] : c \in calls}
    /\ UNCHANGED srv

LogIn ==
    /\ Shown /\ app.session = None /\ ~LoggingIn
    /\ Send(Call("login", None))
    /\ UNCHANGED <<connectionVars, app, stored, srv>>

\* Mutant of Poll: the record outlives the session.
PollRemembered ==
    /\ SignedIn(app) /\ online
    /\ IF app.session \in srv.ended
       THEN Committed([app EXCEPT !.expired = TRUE], conn, wire, stored, FALSE)
       ELSE UNCHANGED <<connectionVars, app, stored>>
    /\ UNCHANGED <<calls, srv>>

\* /rooms and /memberships every two seconds.  The lists shown may always be out of date, so
\* only the end of the session matters here.
Poll ==
    /\ SignedIn(app) /\ online
    /\ IF app.session \in srv.ended
       THEN Committed([app EXCEPT !.expired = TRUE], conn, wire, NoRecord, FALSE)
       ELSE UNCHANGED <<connectionVars, app, stored>>
    /\ UNCHANGED <<calls, srv>>

\* joinRoom: by code, by a card, from a list of tables or from an invitation.
JoinRoom(r) ==
    /\ SignedIn(app) /\ app.room = None /\ ~Busy
    /\ Send(Call("enter", r))
    /\ UNCHANGED <<connectionVars, app, stored, srv>>

CreateRoom(r) ==
    /\ SignedIn(app) /\ app.room = None /\ ~Busy
    /\ Send(Call("create", r))
    /\ UNCHANGED <<connectionVars, app, stored, srv>>

\* enterRoom: from the card of a room joined at some time or, in any room, from an
\* invitation just accepted.
EnterRoom(r) ==
    /\ SignedIn(app)
    /\ Member(r) \/ app.room = None
    /\ Committed([app EXCEPT !.room = r, !.leave = FALSE], [conn EXCEPT !.status = "connecting"],
                 wire, stored, TRUE)
    /\ UNCHANGED <<calls, srv>>

ExitRoom ==
    /\ InRoom(app)
    /\ Committed([app EXCEPT !.room = None, !.leave = FALSE], conn, wire,
                 Record(app.session, None), FALSE)
    /\ UNCHANGED <<calls, srv>>

Ask(kind) ==
    /\ InRoom(app)
    /\ Send(Call(kind, app.room))
    /\ UNCHANGED <<connectionVars, app, stored, srv>>

LeaveRoom == Ask("leave")
DeleteRoom == Ask("delete")
LeaveGameAndRoom == app.leave /\ ~Busy /\ Ask("leaveGame")

CancelLeave ==
    /\ InRoom(app) /\ app.leave
    /\ Stays([app EXCEPT !.leave = FALSE])
    /\ UNCHANGED <<calls, srv>>

\* The record is erased and the screen closed before the server is told.
SignOut ==
    /\ Shown /\ app.session # None
    /\ Send([Call("signout", None) EXCEPT !.mount = 0])
    /\ Committed([app EXCEPT !.screen = "welcome", !.session = None, !.room = None, !.leave = FALSE],
                 conn, wire, NoRecord, FALSE)
    /\ UNCHANGED srv

\* ---- The server, as far as this client's requests reach it.
Answered(c, phase, session) ==
    calls' = (calls \ {c}) \cup
             (IF c.mount = 0 THEN {} ELSE {[c EXCEPT !.phase = IF @ = "sent" THEN phase ELSE @,
                                                     !.served = TRUE, !.session = session]})
Moved(r, place) == [srv EXCEPT !.place[r] = place]
Granted(c) ==
    CASE c.kind \in {"enter", "create"} -> IF Member(c.room) THEN srv ELSE Moved(c.room, "member")
      [] c.kind = "leave"     -> Moved(c.room, "outside")
      [] c.kind = "leaveGame" -> IF srv.place[c.room] = "seated" THEN Moved(c.room, "member") ELSE srv
      [] c.kind = "delete"    -> Moved(c.room, "gone")
      [] c.kind = "signout"   -> [srv EXCEPT !.ended = @ \cup {c.session}]
Misses(c) == c.kind \in {"leave", "leaveGame", "delete"} /\ srv.place[c.room] = "gone"
Refuses(c) ==
    \/ c.kind = "enter" /\ srv.place[c.room] = "gone"
    \/ c.kind = "create" /\ srv.place[c.room] # "gone"
    \/ c.kind \in {"leave", "delete"} /\ srv.place[c.room] = "seated"

Serve(c) ==
    /\ online /\ ~c.served
    /\ \/ /\ c.kind = "login"
          /\ \E t \in Sessions \ (srv.issued \cup srv.ended) :
               Answered(c, "ok", t) /\ srv' = [srv EXCEPT !.issued = @ \cup {t}]
       \/ /\ c.kind = "login" \/ Refuses(c)
          /\ Answered(c, "refused", c.session) /\ UNCHANGED srv
       \/ /\ c.session \in srv.ended \/ Misses(c)
          /\ Answered(c, "denied", c.session) /\ UNCHANGED srv
       \/ /\ c.kind # "login" /\ c.session \notin srv.ended /\ ~Misses(c) /\ ~Refuses(c)
          /\ Answered(c, "ok", c.session) /\ srv' = Granted(c)
    /\ UNCHANGED <<connectionVars, app, stored>>

\* Ten seconds without an answer: whether it was carried out is not known.
TimeOut(c) ==
    /\ c.phase # "lost" /\ c.mount > 0
    /\ calls' = (calls \ {c}) \cup {[c EXCEPT !.phase = "lost"]}
    /\ UNCHANGED <<connectionVars, app, stored, srv>>

\* Other players and this user's other windows.
Elsewhere ==
    /\ online
    /\ \/ \E r \in Rooms : srv.place[r] = "member" /\ \E p \in Places : srv' = Moved(r, p)
       \/ \E t \in srv.issued : srv' = [srv EXCEPT !.ended = @ \cup {t}]
    /\ srv' # srv
    /\ UNCHANGED <<connectionVars, app, stored, calls>>

\* ---- Answers, in any order and to whatever screen is left.
Mounted(c) == Shown /\ c.mount = app.mount
Done(c) == calls' = IF c.served THEN calls \ {c} ELSE (calls \ {c}) \cup {[c EXCEPT !.phase = "lost", !.mount = 0]}
LoggedIn(c) ==
    /\ c.kind = "login" /\ c.phase = "ok"
    /\ IF Mounted(c) THEN Stays([app EXCEPT !.session = c.session, !.expired = FALSE])
                     ELSE UNCHANGED <<connectionVars, app, stored>>

\* A room joined or made is entered, whatever room has been entered in the meantime.
Entered(c) ==
    /\ c.kind \in {"enter", "create"} /\ c.phase = "ok"
    /\ IF Mounted(c)
       THEN Committed([app EXCEPT !.room = c.room, !.leave = FALSE], [conn EXCEPT !.status = "connecting"],
                      wire, stored, TRUE)
       ELSE UNCHANGED <<connectionVars, app, stored>>

\* leaveRoomMembership: a lost answer counts as a departure once the membership is gone.
HasLeft(c) ==
    \/ c.phase = "ok"
    \/ c.kind = "leave" /\ c.phase = "lost" /\ online /\ c.session \notin srv.ended
                        /\ ~Member(c.room)

\* The room now shown is closed, and the record of the departure written even by a screen
\* that is gone: with the session this request was made with.
Departed(c) ==
    /\ c.kind \in {"leave", "delete"} /\ c.mount > 0 /\ HasLeft(c)
    /\ IF Mounted(c)
       THEN Committed([app EXCEPT !.room = None, !.leave = IF c.kind = "leave" THEN FALSE ELSE @], conn, wire,
                      Record(c.session, None), FALSE)
       ELSE stored' = Record(c.session, None) /\ UNCHANGED <<connectionVars, app>>

\* A departure refused because of a seat asks whether to leave the game as well.
SeatFirst(c) ==
    /\ c.kind = "leave" /\ c.phase = "refused"
    /\ IF Mounted(c) THEN Stays([app EXCEPT !.leave = TRUE]) ELSE UNCHANGED <<connectionVars, app, stored>>

\* leaveGameAndRoom goes on to leave the room it was asked for.
GameLeft(c) ==
    /\ c.kind = "leaveGame" /\ c.phase = "ok"
    /\ calls' = (calls \ {c}) \cup {[c EXCEPT !.kind = "leave", !.phase = "sent", !.served = FALSE]}
    /\ UNCHANGED <<connectionVars, app, stored, srv>>

\* Everything else ends in a message on the screen.
Failed(c) ==
    /\ c.mount > 0
    /\ \/ c.phase = "denied"
       \/ c.phase = "refused" /\ c.kind # "leave"
       \/ c.phase = "lost" /\ ~HasLeft(c)
    /\ UNCHANGED <<connectionVars, app, stored>>

\* A request nobody waits for any more may still be carried out.
Forgotten(c) == c.mount = 0 /\ calls' = calls \ {c} /\ UNCHANGED <<connectionVars, app, stored, srv>>

Reply(c) ==
    \/ /\ LoggedIn(c) \/ Entered(c) \/ Departed(c) \/ SeatFirst(c) \/ Failed(c)
       /\ Done(c) /\ UNCHANGED srv
    \/ GameLeft(c) \/ Forgotten(c)

\* ---- The transport at work.
Transport ==
    /\ \/ RetryTimer \/ Unanswered \/ Heartbeat \/ Outage \/ Restored
       \/ InRoom(app) /\ RetryNow
       \/ \E s \in Sockets :
            \/ Closed(s) \/ HeartbeatAck(s)
            \/ (wire[s] = "opening" => Member(app.room) /\ app.session \notin srv.ended) /\ Welcome(s)
    /\ UNCHANGED sessionVars

\* ROOM_LEFT and ROOM_DELETED close the room for the screen.
RoomGone(s) ==
    /\ wire[s] \in {"opening", "open"} /\ online /\ Listens(conn, s)
    /\ InRoom(app) /\ ~Member(app.room) /\ app.session \notin srv.ended
    /\ Committed([app EXCEPT !.room = None, !.leave = FALSE],
                 IF srv.place[app.room] = "outside" THEN [Halt(conn) EXCEPT !.status = "disconnected"] ELSE conn,
                 IF srv.place[app.room] = "outside" THEN Hangup(conn) ELSE wire, stored, FALSE)
    /\ UNCHANGED <<calls, srv>>

\* The page is opened; `mount' and `used' spend the bounds of a model beforehand.
InitFrom(mount, used) ==
    /\ conn = Fresh(<<None, None>>, "disconnected")
    /\ wire = [s \in Sockets |-> "free"] /\ online = TRUE /\ outages = used
    /\ stored = NoRecord /\ calls = {}
    /\ app = [screen |-> "welcome", mount |-> mount, session |-> None, expired |-> FALSE, room |-> None,
              leave |-> FALSE]
    /\ srv \in [issued : {{}}, ended : {{}}, place : [Rooms -> {"outside", "member"}]]
Init == InitFrom(0, 0)

Next ==
    \/ OpenLobby \/ Reload \/ LogIn \/ Poll \/ ExitRoom \/ LeaveRoom \/ DeleteRoom \/ LeaveGameAndRoom
    \/ CancelLeave \/ SignOut \/ Elsewhere \/ Transport
    \/ \E r \in Rooms : JoinRoom(r) \/ CreateRoom(r) \/ EnterRoom(r)
    \/ \E c \in calls : Serve(c) \/ TimeOut(c) \/ Reply(c)
    \/ \E s \in Sockets : RoomGone(s)

Spec == Init /\ [][Next]_vars

(***************************************************************************)
(* The lobby is polled, timers run out, a network that is down comes back, *)
(* and a server that is asked again and again answers once in time.        *)
(***************************************************************************)
Answering == \E s \in Sockets : RoomGone(s) \/ (Listens(conn, s) /\ Transport /\ conn'.ready /\ ~conn.ready)
Fairness ==
    /\ WF_vars(Poll)
    /\ WF_vars(Timed /\ UNCHANGED sessionVars)
    /\ WF_vars(Restored /\ UNCHANGED sessionVars)
    /\ \A s \in Sockets : WF_vars(wire[s] = "closing" /\ Closed(s) /\ UNCHANGED sessionVars)
    /\ SF_vars(Answering)
FairSpec == Spec /\ Fairness

----------------------------------------------------------------------------
TypeOK ==
    /\ ConnectionTypeOK
    /\ app.screen \in {"welcome", "rooms"} /\ app.mount \in 0 .. MaxMounts
    /\ app.session \in Sessions \cup {None} /\ app.room \in Rooms \cup {None}
    /\ stored \in [session : Sessions \cup {None}, room : Rooms \cup {None}]
    /\ \A c \in calls : c.kind \in Kinds /\ c.phase \in Phases

\* A transport runs exactly while a room is shown to somebody who is signed in; it has one
\* timer and one socket, and what is shown as connected has been welcomed.
TransportServesRoom ==
    /\ ~conn.stopped <=> InRoom(app)
    /\ InRoom(app) => conn.url = Url(app)
    /\ OneSocketOneTimer

\* The room that a reload would return to is the room now on the screen, of the session
\* now signed in: no answer that comes late, and no expiry, leaves another one behind.
SavedRoomShown == stored.room # None => SignedIn(app) /\ stored = Record(app.session, app.room)

\* client/README.md:192: "signing out clears both" the saved guest and the saved room.
SignedOutForgotten == app.screen = "welcome" => stored = NoRecord

\* Whoever is in a room is in the end connected to it, or learns that it is gone or that
\* the session has ended.
RoomSettles == InRoom(app) ~> (conn.ready \/ ~InRoom(app))
=============================================================================
