------------------------------ MODULE ClientProofs ------------------------------
(***************************************************************************)
(* What is proved of the session and of the talk of the client, for any values *)
(* of their constants: the connection and the saved record (for any sessions, *)
(* rooms, sockets and requests under way, whether or not a closed socket may *)
(* still deliver something), messages and reactions at a table, the chat of a *)
(* room, the player's phrases and private messages.                        *)
(***************************************************************************)
EXTENDS RoomSession, TableSocial, PhraseList, RoomChat, Friends, DataLemmas

-------------------------------------------------------------------------------
(* The connection, the session and its record: the inductive invariant *)

Connections == [url : Urls, stopped : BOOLEAN, socket : Sockets \cup {NoSocket}, ready : BOOLEAN,
                timer : Timers, attempts : 0 .. MaxAttempts, status : Statuses, heard : SUBSET Sockets]
Networks == [Sockets -> Wires]
Apps == [screen : {"welcome", "rooms"}, mount : 0 .. MaxMounts, session : Sessions \cup {None},
         expired : BOOLEAN, room : Rooms \cup {None}, leave : BOOLEAN]
Records == [session : Sessions \cup {None}, room : Rooms \cup {None}]
Calls == [kind : Kinds, mount : 0 .. MaxMounts, session : Sessions \cup {None}, room : Rooms \cup {None},
          phase : Phases, served : BOOLEAN]

\* One socket and one timer, and the socket is as far as the connection believes.
Tidy(c, w) ==
    /\ c.heard = IF c.socket = NoSocket THEN {} ELSE {c.socket}
    /\ c.stopped => c.timer = "none" /\ c.socket = NoSocket
    /\ ~c.stopped => /\ c.timer # "none"
                     /\ c.timer = "retry" <=> c.socket = NoSocket
                     /\ c.ready <=> c.timer \in {"beat", "ack"}
                     /\ c.status = "connected" => c.ready
    /\ c.socket # NoSocket => w[c.socket] = IF c.ready THEN "open" ELSE "opening"

Served(c, a) == (~c.stopped <=> InRoom(a)) /\ (InRoom(a) => c.url = Url(a))
Shows(rec, a) == rec.room # None => SignedIn(a) /\ rec = Record(a.session, a.room)
LoginGives == \A c \in calls : c.kind = "login" /\ c.phase = "ok" => c.session # None

Typed ==
    /\ conn \in Connections /\ wire \in Networks /\ online \in BOOLEAN /\ outages \in 0 .. MaxOutages
    /\ app \in Apps /\ stored \in Records /\ calls \subseteq Calls

IInv == Typed /\ Tidy(conn, wire) /\ Served(conn, app) /\ Shows(stored, app) /\ LoginGives

-------------------------------------------------------------------------------
(* What the connection becomes *)

LEMMA FreshFacts ==
    ASSUME NEW url \in Urls, NEW status \in Statuses
    PROVE  /\ Fresh(url, status) \in Connections
           /\ Fresh(url, status).stopped = TRUE /\ Fresh(url, status).socket = NoSocket
           /\ Fresh(url, status).ready = FALSE /\ Fresh(url, status).heard = {}
           /\ Fresh(url, status).url = url /\ Fresh(url, status).timer = "none"
BY AttemptsAssumption DEF Fresh, Connections, Timers

LEMMA HungFacts ==
    ASSUME NEW w \in Networks, NEW s \in Sockets
    PROVE  Hung(w, s) \in Networks
BY DEF Hung, Networks, Wires

LEMMA DisposeFacts ==
    ASSUME NEW c \in Connections, NEW w, Tidy(c, w)
    PROVE  /\ Dispose(c) \in Connections
           /\ Dispose(c).ready = FALSE /\ Dispose(c).timer = "none" /\ Dispose(c).socket = NoSocket
           /\ Dispose(c).heard = {}
           /\ Dispose(c).stopped = c.stopped /\ Dispose(c).url = c.url
BY DEF Dispose, Connections, Tidy, Timers

LEMMA ReconnectFacts ==
    ASSUME NEW c \in Connections, NEW w, Tidy(c, w), ~c.stopped
    PROVE  /\ Reconnect(c) \in Connections /\ \A v : Tidy(Reconnect(c), v)
           /\ Reconnect(c).stopped = c.stopped /\ Reconnect(c).url = c.url
<1> DEFINE d == Dispose(c)
           n == IF d.attempts < MaxAttempts THEN d.attempts + 1 ELSE d.attempts
           r == [d EXCEPT !.status = "reconnecting", !.timer = "retry", !.attempts = n]
<1>1. /\ d \in Connections /\ d.ready = FALSE /\ d.socket = NoSocket /\ d.heard = {}
      /\ d.stopped = c.stopped /\ d.url = c.url
  BY DisposeFacts
<1> HIDE DEF d
<1>2. n \in 0 .. MaxAttempts
  BY <1>1, AttemptsAssumption DEF Connections
<1> HIDE DEF n
<1>3. /\ r \in Connections /\ r.ready = FALSE /\ r.socket = NoSocket /\ r.heard = {}
      /\ r.stopped = c.stopped /\ r.url = c.url /\ r.timer = "retry" /\ r.status = "reconnecting"
  BY <1>1, <1>2 DEF Connections, Timers, Statuses
<1>4. Reconnect(c) = r
  BY DEF Reconnect, d, n
<1> HIDE DEF r
<1>5. \A v : Tidy(r, v)
  BY <1>3 DEF Tidy
<1> QED BY <1>3, <1>4, <1>5

LEMMA DialFacts ==
    ASSUME NEW c \in Connections, NEW w \in Networks, Dial(c, w),
           ~c.stopped, c.socket = NoSocket, c.heard = {}, c.ready = FALSE
    PROVE  /\ conn' \in Connections /\ wire' \in Networks /\ Tidy(conn', wire')
           /\ ~conn'.stopped /\ conn'.url = c.url
<1>1. CASE ~online /\ conn' = Reconnect(c) /\ wire' = w
  <2> DEFINE d == Dispose(c)
             n == IF d.attempts < MaxAttempts THEN d.attempts + 1 ELSE d.attempts
             r == [d EXCEPT !.status = "reconnecting", !.timer = "retry", !.attempts = n]
  <2>1. /\ d \in Connections /\ d.ready = FALSE /\ d.socket = NoSocket /\ d.heard = {}
        /\ d.stopped = FALSE /\ d.url = c.url
    BY DEF Dispose, Connections, Timers
  <2> HIDE DEF d
  <2>2. n \in 0 .. MaxAttempts
    BY <2>1, AttemptsAssumption DEF Connections
  <2> HIDE DEF n
  <2>3. /\ r \in Connections /\ r.ready = FALSE /\ r.socket = NoSocket /\ r.heard = {}
        /\ r.stopped = FALSE /\ r.url = c.url /\ r.timer = "retry" /\ r.status = "reconnecting"
    BY <2>1, <2>2 DEF Connections, Timers, Statuses
  <2>4. conn' = r
    BY <1>1 DEF Reconnect, d, n
  <2> HIDE DEF r
  <2> QED BY <1>1, <2>3, <2>4 DEF Tidy
<1>2. ASSUME NEW s \in Sockets, w[s] = "free",
             conn' = [c EXCEPT !.status = IF c.attempts = 0 THEN "connecting" ELSE "reconnecting",
                               !.socket = s, !.heard = @ \cup {s}, !.timer = "open"],
             wire' = [w EXCEPT ![s] = "opening"]
      PROVE  /\ conn' \in Connections /\ wire' \in Networks /\ Tidy(conn', wire')
             /\ ~conn'.stopped /\ conn'.url = c.url
  <2>1. s # NoSocket
    BY SocketAssumption
  <2>2. wire' \in Networks /\ wire'[s] = "opening"
    BY <1>2 DEF Networks, Wires
  <2>3. /\ conn' \in Connections /\ conn'.socket = s /\ conn'.heard = {s} /\ conn'.timer = "open"
        /\ conn'.stopped = FALSE /\ conn'.ready = FALSE /\ conn'.url = c.url
        /\ conn'.status \in {"connecting", "reconnecting"}
    BY <1>2 DEF Connections, Timers, Statuses
  <2> QED BY <2>1, <2>2, <2>3 DEF Tidy
<1> QED BY <1>1, <1>2 DEF Dial

-------------------------------------------------------------------------------
(* What a commit leaves *)

SameScreen(a) == /\ a.mount = app.mount /\ a.screen = app.screen /\ a.session = app.session
                 /\ a.room = app.room /\ a.expired = app.expired

LEMMA UrlTyped == ASSUME NEW a \in Apps PROVE Url(a) \in Urls
BY UrlAssumption DEF Url, Apps

LEMMA RecordTyped == ASSUME NEW a \in Apps PROVE Record(a.session, a.room) \in Records /\ Record(a.session, None) \in Records
BY DEF Apps, Record, Records

\* The transport follows the screen, and the record is the one given or what is now shown.
LEMMA CommittedFacts ==
    ASSUME IInv, NEW a \in Apps, NEW c \in Connections, NEW w \in Networks, NEW rec \in Records,
           NEW touched \in BOOLEAN, Committed(a, c, w, rec, touched),
           SameScreen(a) => Tidy(c, w) /\ Served(c, app),
           rec.room # None => rec = stored /\ SignedIn(a)
    PROVE  /\ conn' \in Connections /\ wire' \in Networks /\ Tidy(conn', wire') /\ Served(conn', app')
           /\ app' = a /\ stored' \in Records /\ Shows(stored', app')
           /\ online' = online /\ outages' = outages
<1> DEFINE altered == <<a.mount, a.screen, a.session, a.room, a.expired>>
                         # <<app.mount, app.screen, app.session, app.room, app.expired>>
           hung == IF c.socket = NoSocket THEN w ELSE Hung(w, c.socket)
           fresh == Fresh(Url(a), c.status)
           started == [fresh EXCEPT !.stopped = FALSE]
<1>1. altered <=> ~SameScreen(a)
  BY DEF SameScreen
<1>2. /\ app' = a
      /\ stored' = IF SignedIn(a) /\ (altered \/ touched) THEN Record(a.session, a.room) ELSE rec
      /\ IF ~altered THEN conn' = c /\ wire' = w
         ELSE IF InRoom(a) THEN Dial(started, hung) ELSE conn' = Fresh(Url(a), "disconnected") /\ wire' = hung
      /\ online' = online /\ outages' = outages
  BY DEF Committed
<1> HIDE DEF altered
<1>3. Url(a) \in Urls /\ hung \in Networks /\ c.status \in Statuses
  BY UrlTyped, HungFacts DEF Connections
<1>4. stored' \in Records
  BY <1>2, RecordTyped
<1>5. Shows(stored', app')
  <2>1. CASE SignedIn(a) /\ (altered \/ touched)
    BY <1>2, <2>1 DEF Shows, Record
  <2>2. CASE ~(SignedIn(a) /\ (altered \/ touched))
    <3> SUFFICES ASSUME rec.room # None PROVE SignedIn(a) /\ rec = Record(a.session, a.room)
      BY <1>2, <2>2 DEF Shows
    <3>1. rec = stored /\ SignedIn(a) /\ SameScreen(a)
      BY <1>1, <2>2
    <3> QED BY <3>1 DEF IInv, Shows, SameScreen, Record
  <2> QED BY <2>1, <2>2
<1>6. CASE ~altered
  <2>1. conn' = c /\ wire' = w /\ Tidy(c, w) /\ Served(c, app) /\ SameScreen(a)
    BY <1>1, <1>2, <1>6
  <2>2. Served(c, a)
    BY <2>1 DEF Served, SameScreen, InRoom, SignedIn, Url
  <2> QED BY <1>2, <1>4, <1>5, <2>1, <2>2
<1>7. CASE altered /\ ~InRoom(a)
  <2>1. conn' = Fresh(Url(a), "disconnected") /\ wire' = hung
    BY <1>2, <1>7
  <2>2. conn' \in Connections /\ conn'.stopped = TRUE /\ conn'.socket = NoSocket /\ conn'.heard = {} /\ conn'.timer = "none"
    BY <1>3, <2>1, FreshFacts DEF Statuses
  <2>3. Tidy(conn', wire') /\ Served(conn', a)
    BY <1>7, <2>2 DEF Tidy, Served
  <2> QED BY <1>2, <1>3, <1>4, <1>5, <2>1, <2>2, <2>3
<1>8. CASE altered /\ InRoom(a)
  <2>1. Dial(started, hung)
    BY <1>2, <1>8
  <2>2. /\ fresh \in Connections /\ fresh.socket = NoSocket /\ fresh.heard = {} /\ fresh.ready = FALSE
        /\ fresh.url = Url(a)
    BY <1>3, FreshFacts
  <2> HIDE DEF fresh
  <2>3. /\ started \in Connections /\ ~started.stopped /\ started.socket = NoSocket /\ started.heard = {}
        /\ started.ready = FALSE /\ started.url = Url(a)
    BY <2>2 DEF Connections
  <2> HIDE DEF started, hung
  <2>4. /\ conn' \in Connections /\ wire' \in Networks /\ Tidy(conn', wire')
        /\ ~conn'.stopped /\ conn'.url = Url(a)
    BY <1>3, <2>1, <2>3, DialFacts
  <2>5. Served(conn', a)
    BY <1>8, <2>4 DEF Served
  <2> QED BY <1>2, <1>4, <1>5, <2>4, <2>5
<1> QED BY <1>6, <1>7, <1>8

\* A commit that keeps the transport, or sets its status to connecting, as long as the screen
\* stays as it is.
LEMMA Commits ==
    ASSUME IInv, NEW a \in Apps, NEW rec \in Records, NEW touched \in BOOLEAN, NEW c \in {conn, [conn EXCEPT !.status = "connecting"]},
           Committed(a, c, wire, rec, touched),
           rec.room # None => rec = stored /\ SignedIn(a),
           calls' \subseteq Calls, LoginGives'
    PROVE  IInv'
<1>1. conn \in Connections /\ wire \in Networks /\ Tidy(conn, wire) /\ Served(conn, app)
  BY DEF IInv, Typed
<1>2. c \in Connections /\ Tidy(c, wire) /\ Served(c, app)
  <2>1. CASE c = conn
    BY <1>1, <2>1
  <2>2. CASE c = [conn EXCEPT !.status = "connecting"]
    <3>1. /\ c \in Connections /\ c.heard = conn.heard /\ c.socket = conn.socket /\ c.stopped = conn.stopped
          /\ c.timer = conn.timer /\ c.ready = conn.ready /\ c.url = conn.url /\ c.status = "connecting"
      BY <1>1, <2>2 DEF Connections, Statuses
    <3> QED BY <1>1, <3>1 DEF Tidy, Served
  <2> QED BY <2>1, <2>2
<1>3. /\ conn' \in Connections /\ wire' \in Networks /\ Tidy(conn', wire') /\ Served(conn', app')
      /\ app' = a /\ stored' \in Records /\ Shows(stored', app')
      /\ online' = online /\ outages' = outages
  BY <1>1, <1>2, CommittedFacts
<1> QED BY <1>3 DEF IInv, Typed

\* Nothing of the screen or of the transport changes.
LEMMA Rests ==
    ASSUME IInv, UNCHANGED <<connectionVars, app>>, calls' \subseteq Calls, LoginGives',
           stored' \in Records, stored' = stored \/ stored'.room = None
    PROVE  IInv'
BY DEF IInv, Typed, connectionVars, Shows

\* A new request, and requests that go on unchanged.
LEMMA SendTyped ==
    ASSUME IInv, NEW kind \in Kinds, NEW room \in Rooms \cup {None}, NEW c \in {Call(kind, room), [Call(kind, room) EXCEPT !.mount = 0]},
           calls' = calls \cup {c}
    PROVE  calls' \subseteq Calls /\ LoginGives'
<1>1. 0 \in 0 .. MaxMounts
  BY SessionAssumption
<1> DEFINE d == Call(kind, room)
<1>2. app.mount \in 0 .. MaxMounts /\ app.session \in Sessions \cup {None}
  BY DEF IInv, Typed, Apps
<1>3. d \in Calls /\ d.phase = "sent"
  BY <1>2 DEF Call, Calls, Phases
<1> HIDE DEF d
<1>4. [d EXCEPT !.mount = 0] \in Calls /\ [d EXCEPT !.mount = 0].phase = "sent"
  BY <1>1, <1>3 DEF Calls
<1>5. c \in Calls /\ c.phase = "sent"
  BY <1>3, <1>4 DEF d
<1> QED BY <1>5 DEF IInv, Typed, LoginGives

LEMMA SameCalls == ASSUME IInv, UNCHANGED calls PROVE calls' \subseteq Calls /\ LoginGives'
BY DEF IInv, Typed, LoginGives

-------------------------------------------------------------------------------
(* The operations of the screen *)

LEMMA AppFields ==
    ASSUME IInv
    PROVE  /\ app.screen \in {"welcome", "rooms"} /\ app.mount \in 0 .. MaxMounts
           /\ app.session \in Sessions \cup {None} /\ app.room \in Rooms \cup {None}
           /\ app.expired \in BOOLEAN /\ app.leave \in BOOLEAN
           /\ app \in Apps /\ stored \in Records /\ conn \in Connections /\ calls \subseteq Calls
           /\ stored.session \in Sessions \cup {None} /\ stored.room \in Rooms \cup {None}
BY DEF IInv, Typed, Apps, Records

\* The screen that is opened shows the record, which names a room for a session only.
LEMMA RecordShown ==
    ASSUME IInv, NEW screen \in {"welcome", "rooms"}, NEW mount \in 0 .. MaxMounts,
           stored.session # None => screen = "rooms", calls' \subseteq Calls, LoginGives',
           Committed([app EXCEPT !.screen = screen, !.mount = mount, !.expired = FALSE, !.leave = FALSE,
                                 !.session = stored.session, !.room = stored.room], conn, wire, stored, FALSE)
    PROVE  IInv'
<1> DEFINE a == [app EXCEPT !.screen = screen, !.mount = mount, !.expired = FALSE, !.leave = FALSE,
                            !.session = stored.session, !.room = stored.room]
<1>1. /\ a \in Apps /\ a.screen = screen /\ a.expired = FALSE
      /\ a.session = stored.session
  BY AppFields DEF Apps
<1>2. Committed(a, conn, wire, stored, FALSE)
  OBVIOUS
<1> HIDE DEF a
<1>3. ASSUME stored.room # None PROVE SignedIn(a)
  <2>1. SignedIn(app) /\ stored = Record(app.session, app.room)
    BY <1>3 DEF IInv, Shows
  <2>2. stored.session # None
    BY <2>1 DEF Record, SignedIn
  <2> QED BY <1>1, <2>2 DEF SignedIn
<1> QED BY <1>1, <1>2, <1>3, AppFields, Commits

LEMMA OpenLobbyKeeps == ASSUME IInv, OpenLobby PROVE IInv'
<1>1. app.mount + 1 \in 0 .. MaxMounts
  BY AppFields, SessionAssumption DEF OpenLobby
<1>2. Committed([app EXCEPT !.screen = "rooms", !.mount = app.mount + 1, !.expired = FALSE, !.leave = FALSE,
                            !.session = stored.session, !.room = stored.room], conn, wire, stored, FALSE)
  BY DEF OpenLobby
<1>3. calls' \subseteq Calls /\ LoginGives'
  BY SameCalls DEF OpenLobby
<1> QED BY <1>1, <1>2, <1>3, RecordShown

LEMMA ReloadKeeps == ASSUME IInv, Reload PROVE IInv'
<1> DEFINE screen == IF stored.session = None THEN "welcome" ELSE "rooms"
<1>1. app.mount + 1 \in 0 .. MaxMounts /\ 0 \in 0 .. MaxMounts
  BY AppFields, SessionAssumption DEF Reload
<1>2. screen \in {"welcome", "rooms"} /\ (stored.session # None => screen = "rooms")
  OBVIOUS
<1>3. Committed([app EXCEPT !.screen = screen, !.mount = app.mount + 1, !.expired = FALSE, !.leave = FALSE,
                            !.session = stored.session, !.room = stored.room], conn, wire, stored, FALSE)
  BY DEF Reload
<1>4. calls' = {[c EXCEPT !.mount = 0] : c \in calls}
  BY DEF Reload
<1>5. ASSUME NEW c \in calls
      PROVE  /\ [c EXCEPT !.mount = 0] \in Calls
             /\ [c EXCEPT !.mount = 0].kind = c.kind /\ [c EXCEPT !.mount = 0].phase = c.phase
             /\ [c EXCEPT !.mount = 0].session = c.session
  BY <1>1, AppFields DEF Calls
<1>6. calls' \subseteq Calls
  BY <1>4, <1>5
<1>7. LoginGives'
  <2> SUFFICES ASSUME NEW d \in calls', d.kind = "login", d.phase = "ok" PROVE d.session # None
    BY DEF LoginGives
  <2>1. PICK c \in calls : d = [c EXCEPT !.mount = 0]
    BY <1>4
  <2>2. c.kind = "login" /\ c.phase = "ok" /\ d.session = c.session
    BY <1>5, <2>1
  <2> QED BY <2>2 DEF IInv, LoginGives
<1> HIDE DEF screen
<1> QED BY <1>1, <1>2, <1>3, <1>6, <1>7, RecordShown

\* A request is made and nothing else happens.
LEMMA AskKeeps ==
    ASSUME IInv, (\E r \in Rooms : JoinRoom(r) \/ CreateRoom(r)) \/ LogIn \/ LeaveRoom \/ DeleteRoom \/ LeaveGameAndRoom
    PROVE  IInv'
<1>1. \E kind \in Kinds, room \in Rooms \cup {None} : calls' = calls \cup {Call(kind, room)}
  <2>1. ASSUME NEW r \in Rooms, JoinRoom(r) \/ CreateRoom(r) PROVE <1>1
    BY <2>1 DEF JoinRoom, CreateRoom, Send, Kinds
  <2>2. CASE LogIn
    BY <2>2 DEF LogIn, Send, Kinds
  <2>3. CASE LeaveRoom \/ DeleteRoom \/ LeaveGameAndRoom
    <3>1. app.room \in Rooms \cup {None}
      BY AppFields
    <3> QED BY <2>3, <3>1 DEF LeaveRoom, DeleteRoom, LeaveGameAndRoom, Ask, Send, Kinds
  <2> QED BY <2>1, <2>2, <2>3
<1>2. calls' \subseteq Calls /\ LoginGives'
  BY <1>1, SendTyped
<1>3. UNCHANGED <<connectionVars, app, stored>>
  BY DEF JoinRoom, CreateRoom, LogIn, LeaveRoom, DeleteRoom, LeaveGameAndRoom, Ask
<1> QED BY <1>2, <1>3, AppFields, Rests

LEMMA NoRecordTyped == NoRecord \in Records /\ NoRecord.room = None
BY DEF NoRecord, Record, Records

LEMMA PollKeeps == ASSUME IInv, Poll PROVE IInv'
<1>1. calls' \subseteq Calls /\ LoginGives'
  BY SameCalls DEF Poll
<1>2. CASE UNCHANGED <<connectionVars, app, stored>>
  BY <1>1, <1>2, AppFields, Rests
<1>3. CASE Committed([app EXCEPT !.expired = TRUE], conn, wire, NoRecord, FALSE)
  <2>1. [app EXCEPT !.expired = TRUE] \in Apps
    BY AppFields DEF Apps
  <2> QED BY <1>1, <1>3, <2>1, NoRecordTyped, Commits
<1> QED BY <1>2, <1>3 DEF Poll

LEMMA EnterRoomKeeps == ASSUME IInv, NEW r \in Rooms, EnterRoom(r) PROVE IInv'
<1> DEFINE a == [app EXCEPT !.room = r, !.leave = FALSE]
<1>1. a \in Apps /\ a.screen = app.screen /\ a.session = app.session /\ a.expired = app.expired
  BY AppFields DEF Apps
<1>2. SignedIn(a)
  BY <1>1 DEF EnterRoom, SignedIn
<1>3. Committed(a, [conn EXCEPT !.status = "connecting"], wire, stored, TRUE)
  BY DEF EnterRoom
<1>4. calls' \subseteq Calls /\ LoginGives'
  BY SameCalls DEF EnterRoom
<1> HIDE DEF a
<1> QED BY <1>1, <1>2, <1>3, <1>4, AppFields, Commits

LEMMA ExitRoomKeeps == ASSUME IInv, ExitRoom PROVE IInv'
<1>1. [app EXCEPT !.room = None, !.leave = FALSE] \in Apps
  BY AppFields DEF Apps
<1>2. Record(app.session, None) \in Records /\ Record(app.session, None).room = None
  BY AppFields, RecordTyped DEF Record
<1>3. calls' \subseteq Calls /\ LoginGives'
  BY SameCalls DEF ExitRoom
<1> QED BY <1>1, <1>2, <1>3, Commits DEF ExitRoom

\* Only a dialog opens or closes.
LEMMA DialogKeeps ==
    ASSUME IInv, NEW open \in BOOLEAN, Stays([app EXCEPT !.leave = open]), calls' \subseteq Calls, LoginGives'
    PROVE  IInv'
<1> DEFINE a == [app EXCEPT !.leave = open]
<1>1. a \in Apps /\ a.screen = app.screen /\ a.session = app.session /\ a.expired = app.expired
  BY AppFields DEF Apps
<1>2. stored.room # None => SignedIn(a)
  BY <1>1 DEF IInv, Shows, SignedIn
<1>3. Committed(a, conn, wire, stored, FALSE)
  BY DEF Stays
<1> HIDE DEF a
<1> QED BY <1>1, <1>2, <1>3, AppFields, Commits

LEMMA CancelLeaveKeeps == ASSUME IInv, CancelLeave PROVE IInv'
BY SameCalls, DialogKeeps DEF CancelLeave

LEMMA SignOutKeeps == ASSUME IInv, SignOut PROVE IInv'
<1>1. [app EXCEPT !.screen = "welcome", !.session = None, !.room = None, !.leave = FALSE] \in Apps
  BY AppFields DEF Apps
<1>2. calls' = calls \cup {[Call("signout", None) EXCEPT !.mount = 0]}
  BY DEF SignOut, Send
<1>3. calls' \subseteq Calls /\ LoginGives'
  BY <1>2, SendTyped DEF Kinds
<1> QED BY <1>1, <1>3, NoRecordTyped, Commits DEF SignOut

-------------------------------------------------------------------------------
(* The server and its answers *)

\* A request changes as it goes on; all others stay.
LEMMA ReplacedTyped ==
    ASSUME IInv, NEW c \in calls, NEW d \in Calls, d.kind = "login" /\ d.phase = "ok" => d.session # None,
           calls' \subseteq calls \cup {d}
    PROVE  calls' \subseteq Calls /\ LoginGives'
BY DEF IInv, Typed, LoginGives

LEMMA SessionServeKeeps == ASSUME IInv, NEW c \in calls, Serve(c) PROVE IInv'
<1>1. c \in Calls /\ c.phase \in Phases
  BY DEF IInv, Typed, Calls
<1>2. ASSUME NEW phase \in {"ok", "refused", "denied"}, NEW session \in Sessions \cup {None},
             Answered(c, phase, session), c.kind = "login" => session # None \/ (phase # "ok" /\ session = c.session)
      PROVE  calls' \subseteq Calls /\ LoginGives'
  <2> DEFINE d == [c EXCEPT !.phase = IF c.phase = "sent" THEN phase ELSE c.phase, !.served = TRUE, !.session = session]
  <2>1. /\ d \in Calls /\ d.kind = c.kind /\ d.session = session
        /\ d.phase = IF c.phase = "sent" THEN phase ELSE c.phase
    BY <1>1 DEF Calls, Phases
  <2>2. calls' \subseteq calls \cup {d}
    BY <1>2 DEF Answered
  <2>3. d.kind = "login" /\ d.phase = "ok" => d.session # None
    BY <1>2, <2>1 DEF IInv, LoginGives
  <2> HIDE DEF d
  <2> QED BY <2>1, <2>2, <2>3, ReplacedTyped
<1>3. c.session \in Sessions \cup {None}
  BY <1>1 DEF Calls
<1>4. calls' \subseteq Calls /\ LoginGives'
  <2>1. ASSUME NEW t \in Sessions, Answered(c, "ok", t) PROVE <1>4
    BY <1>2, <2>1, SessionAssumption
  <2>2. ASSUME NEW phase \in {"refused", "denied"}, Answered(c, phase, c.session) PROVE <1>4
    BY <1>2, <1>3, <2>2
  <2>3. CASE c.kind # "login" /\ Answered(c, "ok", c.session)
    BY <1>2, <1>3, <2>3
  <2> QED BY <2>1, <2>2, <2>3 DEF Serve
<1>5. UNCHANGED <<connectionVars, app, stored>>
  BY DEF Serve
<1> QED BY <1>4, <1>5, AppFields, Rests

LEMMA TimeOutKeeps == ASSUME IInv, NEW c \in calls, TimeOut(c) PROVE IInv'
<1>1. [c EXCEPT !.phase = "lost"] \in Calls /\ [c EXCEPT !.phase = "lost"].phase = "lost"
  BY DEF IInv, Typed, Calls, Phases
<1>2. calls' \subseteq calls \cup {[c EXCEPT !.phase = "lost"]} /\ UNCHANGED <<connectionVars, app, stored>>
  BY DEF TimeOut
<1>3. calls' \subseteq Calls /\ LoginGives'
  BY <1>1, <1>2, ReplacedTyped
<1> QED BY <1>2, <1>3, AppFields, Rests

LEMMA DoneTyped == ASSUME IInv, NEW c \in calls, Done(c) PROVE calls' \subseteq Calls /\ LoginGives'
<1> DEFINE d == [c EXCEPT !.phase = "lost", !.mount = 0]
<1>1. 0 \in 0 .. MaxMounts
  BY SessionAssumption
<1>2. d \in Calls /\ d.phase = "lost"
  BY <1>1 DEF IInv, Typed, Calls, Phases
<1>3. calls' \subseteq calls \cup {d}
  BY DEF Done
<1> HIDE DEF d
<1> QED BY <1>2, <1>3, ReplacedTyped

\* An answer changes the screen it was asked from, or none; the record of a departure, even
\* one of a screen that is gone, names no room.
LEMMA ReplyKeeps == ASSUME IInv, NEW c \in calls, Reply(c) PROVE IInv'
<1>1. /\ c \in Calls /\ c.session \in Sessions \cup {None} /\ c.room \in Rooms \cup {None}
  BY DEF IInv, Typed, Calls
<1>2. CASE GameLeft(c)
  <2> DEFINE d == [c EXCEPT !.kind = "leave", !.phase = "sent", !.served = FALSE]
  <2>1. d \in Calls /\ d.kind = "leave"
    BY <1>1 DEF Calls, Kinds, Phases
  <2>2. calls' \subseteq calls \cup {d}
    BY <1>2 DEF GameLeft
  <2> HIDE DEF d
  <2>3. calls' \subseteq Calls /\ LoginGives'
    BY <2>1, <2>2, ReplacedTyped
  <2> QED BY <1>2, <2>3, AppFields, Rests DEF GameLeft
<1>3. CASE Forgotten(c)
  <2>1. calls' \subseteq Calls /\ LoginGives'
    BY <1>1, <1>3, ReplacedTyped DEF Forgotten, IInv, LoginGives
  <2> QED BY <1>3, <2>1, AppFields, Rests DEF Forgotten
<1>4. ASSUME Done(c), UNCHANGED <<connectionVars, app, stored>> PROVE IInv'
  BY <1>4, AppFields, DoneTyped, Rests
<1>5. CASE LoggedIn(c) /\ Done(c)
  <2>1. CASE Mounted(c)
    <3> DEFINE a == [app EXCEPT !.session = c.session, !.expired = FALSE]
    <3>1. a \in Apps /\ a.session = c.session /\ a.expired = FALSE /\ a.screen = app.screen
      BY <1>1, AppFields DEF Apps
    <3>2. SignedIn(a)
      BY <1>5, <2>1, <3>1 DEF LoggedIn, Mounted, Shown, SignedIn, IInv, LoginGives
    <3>3. Committed(a, conn, wire, stored, FALSE)
      BY <1>5, <2>1 DEF LoggedIn, Stays
    <3> HIDE DEF a
    <3> QED BY <1>5, <3>1, <3>2, <3>3, AppFields, DoneTyped, Commits
  <2>2. CASE ~Mounted(c)
    BY <1>4, <1>5, <2>2 DEF LoggedIn
  <2> QED BY <2>1, <2>2
<1>6. CASE Entered(c) /\ Done(c)
  <2>1. CASE Mounted(c)
    <3> DEFINE a == [app EXCEPT !.room = c.room, !.leave = FALSE]
    <3>1. a \in Apps /\ a.session = app.session /\ a.expired = app.expired /\ a.screen = app.screen
      BY <1>1, AppFields DEF Apps
    <3>2. stored.room # None => SignedIn(a)
      BY <3>1 DEF SignedIn, IInv, Shows
    <3>3. Committed(a, [conn EXCEPT !.status = "connecting"], wire, stored, TRUE)
      BY <1>6, <2>1 DEF Entered
    <3> HIDE DEF a
    <3> QED BY <1>6, <3>1, <3>2, <3>3, AppFields, DoneTyped, Commits
  <2>2. CASE ~Mounted(c)
    BY <1>4, <1>6, <2>2 DEF Entered
  <2> QED BY <2>1, <2>2
<1>7. CASE Departed(c) /\ Done(c)
  <2>1. Record(c.session, None) \in Records /\ Record(c.session, None).room = None
    BY <1>1 DEF Record, Records
  <2>2. CASE Mounted(c)
    <3> DEFINE leave == IF c.kind = "leave" THEN FALSE ELSE app.leave
               a == [app EXCEPT !.room = None, !.leave = leave]
    <3>1. a \in Apps
      BY AppFields DEF Apps
    <3>2. Committed(a, conn, wire, Record(c.session, None), FALSE)
      BY <1>7, <2>2 DEF Departed
    <3> HIDE DEF a
    <3> QED BY <1>7, <2>1, <3>1, <3>2, DoneTyped, Commits
  <2>3. CASE ~Mounted(c)
    <3>1. stored' = Record(c.session, None) /\ UNCHANGED <<connectionVars, app>>
      BY <1>7, <2>3 DEF Departed
    <3> QED BY <1>7, <2>1, <3>1, DoneTyped, Rests
  <2> QED BY <2>2, <2>3
<1>8. CASE SeatFirst(c) /\ Done(c)
  <2>1. CASE Mounted(c)
    BY <1>8, <2>1, DoneTyped, DialogKeeps DEF SeatFirst
  <2>2. CASE ~Mounted(c)
    BY <1>4, <1>8, <2>2 DEF SeatFirst
  <2> QED BY <2>1, <2>2
<1>9. CASE Failed(c) /\ Done(c)
  BY <1>4, <1>9 DEF Failed
<1> QED BY <1>2, <1>3, <1>5, <1>6, <1>7, <1>8, <1>9 DEF Reply

-------------------------------------------------------------------------------
(* The transport at work *)

LEMMA TransportStep ==
    ASSUME IInv, UNCHANGED sessionVars, conn' \in Connections, wire' \in Networks, Tidy(conn', wire'),
           conn'.stopped = conn.stopped, conn'.url = conn.url, online' \in BOOLEAN, outages' \in 0 .. MaxOutages
    PROVE  IInv'
BY DEF IInv, Typed, Served, Shows, LoginGives, sessionVars

LEMMA ConnectionFacts ==
    ASSUME IInv
    PROVE  /\ conn \in Connections /\ wire \in Networks /\ Tidy(conn, wire)
           /\ online \in BOOLEAN /\ outages \in 0 .. MaxOutages /\ Hangup(conn) \in Networks
BY HungFacts DEF IInv, Typed, Hangup, Connections

\* Whoever listens is the socket in use, which was dialled and not hung up.
LEMMA ListensFacts ==
    ASSUME IInv, NEW s \in Sockets
    PROVE  /\ Listens(conn, s) <=> conn.socket = s
           /\ Listens(conn, s) => ~conn.stopped /\ s # NoSocket /\ wire[s] = IF conn.ready THEN "open" ELSE "opening"
BY ConnectionFacts, SocketAssumption DEF Listens, Tidy

\* A timer runs out.
LEMMA TimedKeeps == ASSUME IInv, Timed, UNCHANGED sessionVars PROVE IInv'
<1>1. ~conn.stopped /\ UNCHANGED <<online, outages>>
  BY ConnectionFacts DEF Timed, RetryTimer, Unanswered, Heartbeat, Tidy
<1>2. CASE RetryTimer
  <2> DEFINE c == [conn EXCEPT !.timer = "none"]
  <2>1. conn.socket = NoSocket /\ conn.heard = {} /\ conn.ready = FALSE
    BY <1>1, <1>2, ConnectionFacts DEF RetryTimer, Tidy, Connections
  <2>2. /\ c \in Connections /\ c.stopped = conn.stopped /\ c.socket = NoSocket /\ c.heard = {} /\ c.ready = FALSE
        /\ c.url = conn.url
    BY <2>1, ConnectionFacts DEF Connections, Timers
  <2>3. Dial(c, wire)
    BY <1>2 DEF RetryTimer
  <2> HIDE DEF c
  <2>4. /\ conn' \in Connections /\ wire' \in Networks /\ Tidy(conn', wire')
        /\ ~conn'.stopped /\ conn'.url = c.url
    BY <1>1, <2>2, <2>3, ConnectionFacts, DialFacts
  <2> QED BY <1>1, <2>2, <2>4, ConnectionFacts, TransportStep DEF Connections
<1>3. CASE conn' = Reconnect(conn) /\ wire' = Hangup(conn)
  BY <1>1, <1>3, ConnectionFacts, ReconnectFacts, TransportStep
<1>4. CASE conn.timer = "beat" /\ conn' = [conn EXCEPT !.timer = "ack"] /\ UNCHANGED wire
  <2>1. /\ conn' \in Connections /\ conn'.timer = "ack" /\ conn'.heard = conn.heard /\ conn'.socket = conn.socket
        /\ conn'.stopped = conn.stopped /\ conn'.url = conn.url /\ conn'.ready = conn.ready
        /\ conn'.status = conn.status
    BY <1>4, ConnectionFacts DEF Connections, Timers
  <2>2. Tidy(conn', wire')
    BY <1>1, <1>4, <2>1, ConnectionFacts DEF Tidy
  <2> QED BY <1>1, <1>4, <2>1, <2>2, ConnectionFacts, TransportStep
<1> QED BY <1>2, <1>3, <1>4 DEF Timed, Unanswered, Heartbeat

LEMMA RetryNowKeeps == ASSUME IInv, InRoom(app), RetryNow, UNCHANGED sessionVars PROVE IInv'
<1> DEFINE c == Dispose(conn)
<1>1. ~conn.stopped /\ UNCHANGED <<online, outages>> /\ Dial(c, Hangup(conn))
  BY DEF RetryNow
<1>2. /\ c \in Connections /\ c.ready = FALSE /\ c.socket = NoSocket /\ c.heard = {}
      /\ c.stopped = conn.stopped /\ c.url = conn.url
  BY ConnectionFacts, DisposeFacts
<1> HIDE DEF c
<1>3. /\ conn' \in Connections /\ wire' \in Networks /\ Tidy(conn', wire')
      /\ ~conn'.stopped /\ conn'.url = c.url
  BY <1>1, <1>2, ConnectionFacts, DialFacts
<1> QED BY <1>1, <1>2, <1>3, ConnectionFacts, TransportStep DEF Connections

LEMMA ClosedKeeps == ASSUME IInv, NEW s \in Sockets, Closed(s), UNCHANGED sessionVars PROVE IInv'
<1>1. wire' = [wire EXCEPT ![s] = "free"] /\ wire' \in Networks /\ UNCHANGED <<online, outages>>
  BY ConnectionFacts DEF Closed, Networks, Wires
<1>2. CASE Listens(conn, s)
  <2>1. conn' = Reconnect(conn) /\ ~conn.stopped
    BY <1>2, ListensFacts DEF Closed
  <2> QED BY <1>1, <2>1, ConnectionFacts, ReconnectFacts, TransportStep
<1>3. CASE ~Listens(conn, s)
  <2>1. conn' = conn /\ conn.socket # s
    BY <1>3, ListensFacts DEF Closed
  <2>2. Tidy(conn', wire')
    <3>1. conn.socket # NoSocket => wire'[conn.socket] = wire[conn.socket]
      BY <1>1, <2>1, ConnectionFacts DEF Networks, Connections
    <3> QED BY <2>1, <3>1, ConnectionFacts DEF Tidy
  <2> QED BY <1>1, <2>1, <2>2, ConnectionFacts, TransportStep
<1> QED BY <1>2, <1>3

LEMMA AckKeeps == ASSUME IInv, NEW s \in Sockets, HeartbeatAck(s), UNCHANGED sessionVars PROVE IInv'
<1>1. UNCHANGED <<wire, online, outages>> /\ wire[s] \in {"open", "closing"}
  BY DEF HeartbeatAck
<1>2. CASE Listens(conn, s)
  <2>1. conn' = [conn EXCEPT !.timer = "beat"] /\ ~conn.stopped /\ conn.ready
    BY <1>1, <1>2, ListensFacts DEF HeartbeatAck
  <2>2. /\ conn' \in Connections /\ conn'.timer = "beat" /\ conn'.heard = conn.heard /\ conn'.socket = conn.socket
        /\ conn'.stopped = conn.stopped /\ conn'.url = conn.url /\ conn'.ready = conn.ready
        /\ conn'.status = conn.status
    BY <2>1, ConnectionFacts DEF Connections, Timers
  <2>3. conn.socket = s /\ s # NoSocket
    BY <1>2, ListensFacts
  <2>4. Tidy(conn', wire')
    BY <1>1, <2>1, <2>2, <2>3, ConnectionFacts DEF Tidy
  <2> QED BY <1>1, <2>2, <2>4, ConnectionFacts, TransportStep
<1>3. CASE ~Listens(conn, s)
  <2>1. conn' = conn
    BY <1>3 DEF HeartbeatAck
  <2> QED BY <1>1, <2>1, ConnectionFacts, TransportStep
<1> QED BY <1>2, <1>3

\* CONNECTED of the socket in use; of another one it changes nothing.
LEMMA WelcomeKeeps == ASSUME IInv, NEW s \in Sockets, Welcome(s), UNCHANGED sessionVars PROVE IInv'
<1>1. /\ wire' = [wire EXCEPT ![s] = IF wire[s] = "opening" THEN "open" ELSE wire[s]]
      /\ wire[s] \in {"opening", "closing"} /\ UNCHANGED <<online, outages>>
  BY DEF Welcome
<1>2. wire' \in Networks
  BY <1>1, ConnectionFacts DEF Networks, Wires
<1>3. CASE Listens(conn, s)
  <2>1. conn' = Welcomed(conn) /\ ~conn.stopped /\ wire[s] = "opening" /\ conn.socket = s /\ s # NoSocket
    BY <1>1, <1>3, ListensFacts DEF Welcome
  <2>2. 0 \in 0 .. MaxAttempts
    BY AttemptsAssumption
  <2>3. /\ conn' \in Connections /\ conn'.timer = "beat" /\ conn'.heard = conn.heard /\ conn'.socket = conn.socket
        /\ conn'.stopped = conn.stopped /\ conn'.url = conn.url /\ conn'.ready = TRUE
        /\ conn'.status = "connected"
    BY <2>1, <2>2, ConnectionFacts DEF Welcomed, Connections, Timers, Statuses
  <2>4. wire'[s] = "open"
    BY <1>1, <2>1, ConnectionFacts DEF Networks
  <2>5. Tidy(conn', wire')
    BY <2>1, <2>3, <2>4, ConnectionFacts DEF Tidy
  <2> QED BY <1>1, <1>2, <2>3, <2>5, ConnectionFacts, TransportStep
<1>4. CASE ~Listens(conn, s)
  <2>1. conn' = conn /\ conn.socket # s
    BY <1>4, ListensFacts DEF Welcome
  <2>2. conn.socket # NoSocket => wire'[conn.socket] = wire[conn.socket]
    BY <1>1, <2>1, ConnectionFacts DEF Networks, Connections
  <2>3. Tidy(conn', wire')
    BY <2>1, <2>2, ConnectionFacts DEF Tidy
  <2> QED BY <1>1, <1>2, <2>1, <2>3, ConnectionFacts, TransportStep
<1> QED BY <1>3, <1>4

LEMMA TransportKeeps == ASSUME IInv, Transport PROVE IInv'
<1>1. UNCHANGED sessionVars
  BY DEF Transport
<1>2. CASE RetryTimer \/ Unanswered \/ Heartbeat
  BY <1>1, <1>2, TimedKeeps DEF Timed
<1>3. CASE Outage \/ Restored
  <2>1. UNCHANGED <<conn, wire>> /\ online' \in BOOLEAN
    BY <1>3 DEF Outage, Restored
  <2>2. outages' \in 0 .. MaxOutages
    BY <1>3, ConnectionFacts, AttemptsAssumption DEF Outage, Restored
  <2> QED BY <1>1, <2>1, <2>2, ConnectionFacts, TransportStep
<1>4. CASE InRoom(app) /\ RetryNow
  BY <1>1, <1>4, RetryNowKeeps
<1>5. ASSUME NEW s \in Sockets, Closed(s) \/ HeartbeatAck(s) \/ Welcome(s) PROVE IInv'
  BY <1>1, <1>5, ClosedKeeps, AckKeeps, WelcomeKeeps
<1> QED BY <1>2, <1>3, <1>4, <1>5 DEF Transport

\* The transport of a room that is gone is replaced by that of no room.
LEMMA RoomGoneKeeps == ASSUME IInv, NEW s \in Sockets, RoomGone(s) PROVE IInv'
<1> DEFINE a == [app EXCEPT !.room = None, !.leave = FALSE]
           out == srv.place[app.room] = "outside"
           c == IF out THEN [Halt(conn) EXCEPT !.status = "disconnected"] ELSE conn
           w == IF out THEN Hangup(conn) ELSE wire
<1>1. SignedIn(app) /\ app.room # None /\ Committed(a, c, w, stored, FALSE)
  BY DEF RoomGone, InRoom
<1>2. a \in Apps /\ a.room = None /\ a.screen = app.screen /\ a.session = app.session /\ a.expired = app.expired
  BY AppFields DEF Apps
<1>3. SignedIn(a) /\ ~SameScreen(a)
  BY <1>1, <1>2 DEF SignedIn, SameScreen
<1>4. c \in Connections /\ w \in Networks
  <2> DEFINE d == Dispose(conn)
  <2>1. d \in Connections
    BY ConnectionFacts, DisposeFacts
  <2>2. Halt(conn) = [d EXCEPT !.stopped = TRUE]
    BY DEF Halt
  <2> HIDE DEF d
  <2>3. [Halt(conn) EXCEPT !.status = "disconnected"] \in Connections
    BY <2>1, <2>2 DEF Connections, Statuses
  <2> QED BY <2>3, ConnectionFacts
<1> HIDE DEF a, c, w
<1>5. /\ conn' \in Connections /\ wire' \in Networks /\ Tidy(conn', wire') /\ Served(conn', app')
      /\ app' = a /\ stored' \in Records /\ Shows(stored', app')
      /\ online' = online /\ outages' = outages
  BY <1>1, <1>2, <1>3, <1>4, AppFields, CommittedFacts
<1>6. calls' \subseteq Calls /\ LoginGives'
  BY SameCalls DEF RoomGone
<1> QED BY <1>2, <1>5, <1>6 DEF IInv, Typed

-------------------------------------------------------------------------------
(* The results *)

LEMMA Initially == Init => IInv
<1> SUFFICES ASSUME Init PROVE IInv
  OBVIOUS
<1>1. /\ conn = Fresh(<<None, None>>, "disconnected")
      /\ wire = [s \in Sockets |-> "free"] /\ online = TRUE /\ outages = 0
      /\ stored = NoRecord /\ calls = {}
      /\ app = [screen |-> "welcome", mount |-> 0, session |-> None, expired |-> FALSE, room |-> None, leave |-> FALSE]
  BY DEF Init, InitFrom
<1>2. <<None, None>> \in Urls /\ "disconnected" \in Statuses
  BY UrlAssumption DEF Statuses
<1>3. /\ conn \in Connections /\ conn.stopped = TRUE /\ conn.socket = NoSocket /\ conn.ready = FALSE
      /\ conn.heard = {} /\ conn.timer = "none"
  BY <1>1, <1>2, FreshFacts
<1>4. wire \in Networks /\ 0 \in 0 .. MaxOutages /\ 0 \in 0 .. MaxMounts
  BY <1>1, AttemptsAssumption, SessionAssumption DEF Networks, Wires
<1>5. app \in Apps /\ ~SignedIn(app) /\ ~InRoom(app)
  BY <1>1, <1>4 DEF Apps, SignedIn, InRoom
<1>6. stored \in Records /\ stored.room = None
  BY <1>1, NoRecordTyped
<1>7. Tidy(conn, wire) /\ Served(conn, app) /\ Shows(stored, app)
  BY <1>3, <1>5, <1>6 DEF Tidy, Served, Shows
<1> QED BY <1>1, <1>3, <1>4, <1>5, <1>6, <1>7 DEF IInv, Typed, LoginGives

LEMMA StutterKeeps == ASSUME IInv, UNCHANGED vars PROVE IInv'
BY DEF IInv, Typed, Tidy, Served, Shows, SignedIn, InRoom, Url, Record, LoginGives, vars, connectionVars, sessionVars

LEMMA StepKeeps == ASSUME IInv, [Next]_vars PROVE IInv'
<1>1. CASE UNCHANGED vars
  BY <1>1, StutterKeeps
<1>2. CASE OpenLobby \/ Reload \/ Poll \/ ExitRoom \/ CancelLeave \/ SignOut \/ Transport
  BY <1>2, OpenLobbyKeeps, ReloadKeeps, PollKeeps, ExitRoomKeeps, CancelLeaveKeeps, SignOutKeeps, TransportKeeps
<1>3. CASE Elsewhere
  <2>1. calls' \subseteq Calls /\ LoginGives'
    BY <1>3, SameCalls DEF Elsewhere
  <2> QED BY <1>3, <2>1, AppFields, Rests DEF Elsewhere
<1>4. CASE LogIn \/ LeaveRoom \/ DeleteRoom \/ LeaveGameAndRoom
  BY <1>4, AskKeeps
<1>5. ASSUME NEW r \in Rooms, JoinRoom(r) \/ CreateRoom(r) \/ EnterRoom(r) PROVE IInv'
  BY <1>5, AskKeeps, EnterRoomKeeps
<1>6. ASSUME NEW c \in calls, Serve(c) \/ TimeOut(c) \/ Reply(c) PROVE IInv'
  BY <1>6, SessionServeKeeps, TimeOutKeeps, ReplyKeeps
<1>7. ASSUME NEW s \in Sockets, RoomGone(s) PROVE IInv'
  BY <1>7, RoomGoneKeeps
<1> QED BY <1>1, <1>2, <1>3, <1>4, <1>5, <1>6, <1>7 DEF Next

\* Whatever is answered, in any order and to whatever screen: transport, screen and record agree.
THEOREM Invariance == Spec => []IInv
<1>1. IInv /\ [Next]_vars => IInv'
  BY StepKeeps
<1> QED BY Initially, <1>1, PTL DEF Spec

\* The session, its transport, its record and its requests keep their types.
THEOREM SessionTyped == Spec => []TypeOK
<1>1. ASSUME IInv PROVE TypeOK
  BY <1>1 DEF IInv, Typed, Connections, Networks, Apps, Records, Calls, TypeOK, ConnectionTypeOK
<1> QED BY Invariance, <1>1, PTL

\* A transport runs exactly while a room is shown to somebody signed in, for that room and
\* session, with one timer and one socket (useRoomSession's effect, RoomConnection).
THEOREM RoomServed == Spec => []TransportServesRoom
<1>1. ASSUME IInv PROVE TransportServesRoom
  BY <1>1 DEF IInv, Tidy, Served, TransportServesRoom, OneSocketOneTimer
<1> QED BY Invariance, <1>1, PTL

\* A reload leads to the room on the screen or to none, whichever answers come late
\* (session.ts, leaveRoomMembership).
THEOREM ReloadReturns == Spec => []SavedRoomShown
<1>1. ASSUME IInv PROVE SavedRoomShown
  BY <1>1 DEF IInv, Shows, SavedRoomShown
<1> QED BY Invariance, <1>1, PTL

-------------------------------------------------------------------------------
(* Messages and reactions at a table *)

\* Commands that the client has numbered: those of the history have numbers of their own.
SocialOrders == [kind : CommandKinds, cmd : Nat, left : Nat]
Packets == [kind : CommandKinds, cmd : Nat, heard : BOOLEAN]
TalkEntries == [by : {"me", "other"}, cmd : Nat]
Numbered(c, sends) == c.kind # "history" => c.cmd \in 1 .. (sends - 1)
Orderly(s, sends) ==
    CommandKinds \subseteq DOMAIN s /\ \A k \in CommandKinds : s[k] # NoCommand => s[k] \in SocialOrders /\ Numbered(s[k], sends)
OwnTalk(spoken) == {i \in 1 .. Len(spoken) : spoken[i].by = "me"}

NetTypes(n) ==
    /\ n = [up |-> n.up, down |-> n.down, sends |-> n.sends, reads |-> n.reads]
    /\ n.sends \in Nat \ {0} /\ n.reads \in Nat
    /\ n.up \subseteq Packets /\ \A c \in n.up : Numbered(c, n.sends)
TableTypes(t) ==
    /\ t = [talk |-> t.talk, pokes |-> t.pokes, receipts |-> t.receipts, role |-> t.role, over |-> t.over]
    /\ t.talk \in Seq(TalkEntries) /\ t.pokes \in Seq(Nat)
\* One receipt for each message and each reaction of the player's.
OneReceiptEach(t, sends) ==
    /\ t.receipts \subseteq 1 .. (sends - 1)
    /\ Cardinality(OwnTalk(t.talk)) + Len(t.pokes) = Cardinality(t.receipts)

SocialInv == NetTypes(net) /\ TableTypes(table) /\ Orderly(social, net.sends) /\ OneReceiptEach(table, net.sends)

LEMMA SocialInitially == SocialInit => SocialInv
<1> SUFFICES ASSUME SocialInit PROVE SocialInv
  OBVIOUS
<1>1. NetTypes(net) /\ net.sends = 1
  BY DEF SocialInit, NetTypes
<1>2. TableTypes(table)
  BY DEF SocialInit, TableTypes
<1>3. Orderly(social, net.sends)
  BY DEF SocialInit, Orderly, Unmounted, CommandKinds
<1>4. OwnTalk(table.talk) = {} /\ table.receipts = {} /\ Len(table.pokes) = 0
  BY DEF SocialInit, OwnTalk
<1>5. OneReceiptEach(table, net.sends)
  BY <1>1, <1>4, FS_EmptySet DEF OneReceiptEach
<1>6. QED BY <1>1, <1>2, <1>3, <1>5 DEF SocialInv

\* What changes the commands of the client only for the better.
LEMMA OrderlyExcept ==
    ASSUME NEW s, NEW n, Orderly(s, n), NEW t, DOMAIN t = DOMAIN s,
           \A k \in CommandKinds : t[k] = s[k] \/ t[k] = NoCommand \/ (t[k] \in SocialOrders /\ Numbered(t[k], n))
    PROVE  Orderly(t, n)
BY DEF Orderly

LEMMA HistoryRequested ==
    ASSUME SocialInv
    PROVE  Request("history") \in SocialOrders /\ Request("history").kind = "history"
BY SocialAssumption DEF SocialInv, NetTypes, Request, SocialOrders, CommandKinds

LEMMA AttemptedFacts ==
    ASSUME NEW up \in SUBSET Packets, NEW c \in SocialOrders, NEW n, NEW connected,
           Numbered(c, n), \A d \in up : Numbered(d, n)
    PROVE  Attempted(up, c, connected) \subseteq Packets /\ \A d \in Attempted(up, c, connected) : Numbered(d, n)
<1> DEFINE d == [kind |-> c.kind, cmd |-> c.cmd, heard |-> TRUE]
<1>1. d \in Packets /\ Numbered(d, n)
  BY DEF SocialOrders, Packets, Numbered
<1> HIDE DEF d
<1>2. Attempted(up, c, connected) \in {up, up \cup {d}}
  BY DEF Attempted, d
<1>3. QED BY <1>1, <1>2

LEMMA EffectsKeep ==
    ASSUME SocialInv, NEW s, Orderly(s, net.sends), Effects(s), UNCHANGED table
    PROVE  SocialInv'
<1> DEFINE n == net.sends
           closed == IF s.connected /\ CanRead(s) THEN s ELSE [s EXCEPT !.open = FALSE, !.aiming = FALSE]
           barred == IF Enabled(s) THEN closed ELSE [closed EXCEPT !.aiming = FALSE]
           emptied == IF CanRead(s) THEN barred ELSE [barred EXCEPT !.messages = {}, !.unread = 0, !.read = s.seen]
           grounded == IF s.connected /\ ~s.over THEN emptied ELSE [emptied EXCEPT !.flights = {}]
           starts == Reading(s) /\ ~Reading(social)
           stops == Reading(social) /\ ~Reading(s)
<1>1. /\ social' = IF starts THEN [grounded EXCEPT !.history = Request("history"), !.whole = FALSE]
                    ELSE IF stops THEN [grounded EXCEPT !.history = NoCommand, !.whole = FALSE] ELSE grounded
      /\ net' = [net EXCEPT !.reads = IF starts THEN @ + 1 ELSE @,
                             !.up = IF starts THEN Attempted(@, Request("history"), TRUE)
                                    ELSE IF s.connected THEN @ ELSE {[c EXCEPT !.heard = FALSE] : c \in @},
                             !.down = IF s.connected THEN @ ELSE <<>>]
  BY DEF Effects
<1>2. Orderly(closed, n)
  BY DEF Orderly, CommandKinds
<1> HIDE DEF closed
<1>3. Orderly(barred, n)
  BY <1>2 DEF Orderly, CommandKinds
<1> HIDE DEF barred
<1>4. Orderly(emptied, n)
  BY <1>3 DEF Orderly, CommandKinds
<1> HIDE DEF emptied
<1>5. Orderly(grounded, n)
  BY <1>4 DEF Orderly, CommandKinds
<1> HIDE DEF grounded
<1>6. Request("history") \in SocialOrders /\ Numbered(Request("history"), n)
  BY HistoryRequested DEF Numbered
<1>7. starts \in BOOLEAN /\ stops \in BOOLEAN
  OBVIOUS
<1> HIDE DEF starts, stops
<1>8. Orderly(social', n)
  <2> DEFINE first == [grounded EXCEPT !.history = Request("history"), !.whole = FALSE]
             second == [grounded EXCEPT !.history = NoCommand, !.whole = FALSE]
  <2>1. Orderly(first, n)
    BY <1>5, <1>6, OrderlyExcept DEF CommandKinds, Orderly
  <2>2. Orderly(second, n)
    BY <1>5, OrderlyExcept DEF CommandKinds, Orderly
  <2> HIDE DEF first, second
  <2>3. social' \in {first, second, grounded}
    BY <1>1 DEF first, second
  <2>4. QED BY <1>5, <2>1, <2>2, <2>3
<1> DEFINE silent == {[c EXCEPT !.heard = FALSE] : c \in net.up}
           loading == Attempted(net.up, Request("history"), TRUE)
<1>9. silent \subseteq Packets /\ \A c \in silent : Numbered(c, n)
  BY DEF SocialInv, NetTypes, Packets, Numbered
<1>10. loading \subseteq Packets /\ \A c \in loading : Numbered(c, n)
  BY <1>6, AttemptedFacts DEF SocialInv, NetTypes
<1> HIDE DEF silent, loading
<1>11. NetTypes(net') /\ net'.sends = n
  <2>1. /\ net' = [up |-> net'.up, down |-> net'.down, sends |-> n, reads |-> net'.reads]
        /\ net'.reads \in {net.reads, net.reads + 1} /\ net'.up \in {net.up, silent, loading}
    BY <1>1 DEF SocialInv, NetTypes, silent, loading
  <2>2. QED BY <1>9, <1>10, <2>1 DEF SocialInv, NetTypes
<1>12. QED BY <1>8, <1>11 DEF SocialInv

LEMMA ReadingKeeps ==
    ASSUME SocialInv, Show \/ Collapse \/ Drop \/ Resume \/ SnapshotRead
    PROVE  SocialInv'
<1>1. Orderly(Unmounted(social.role, social.over, social.connected), net.sends)
  BY DEF Orderly, Unmounted, CommandKinds
<1>2. PICK s : Effects(s) /\ UNCHANGED table /\ Orderly(s, net.sends)
  <2>1. Orderly(social, net.sends)
    BY DEF SocialInv
  <2>2. CASE Show
    BY <2>1, <2>2, OrderlyExcept DEF Orderly, Show, CommandKinds
  <2>3. CASE Collapse
    BY <1>1, <2>3 DEF Collapse
  <2>4. CASE Drop
    BY <2>1, <2>4, OrderlyExcept DEF Orderly, Drop, CommandKinds
  <2>5. CASE Resume
    BY <2>1, <2>5, OrderlyExcept DEF Orderly, Resume, CommandKinds
  <2>6. CASE SnapshotRead
    <3> DEFINE s == [social EXCEPT !.role = table.role, !.over = table.over]
    <3>1. Orderly(s, net.sends)
      BY <2>1 DEF Orderly, CommandKinds
    <3> HIDE DEF s
    <3>2. Effects(s) /\ UNCHANGED table
      BY <2>6 DEF SnapshotRead, s
    <3>3. QED BY <3>1, <3>2
  <2>7. QED BY <2>2, <2>3, <2>4, <2>5, <2>6
<1>3. QED BY <1>2, EffectsKeep

LEMMA ShowsKeep ==
    ASSUME SocialInv, NEW s, ShowsSocial(s), DOMAIN s = DOMAIN social, \A k \in CommandKinds : s[k] = social[k]
    PROVE  SocialInv'
<1>1. Orderly(s, net.sends)
  BY OrderlyExcept DEF SocialInv
<1>2. QED BY <1>1 DEF SocialInv, ShowsSocial

LEMMA PanelKeeps ==
    ASSUME SocialInv, OpenChat \/ CloseChat \/ Aim \/ ClosePokes \/ \E r \in social.flights : ReactionLanded(r)
    PROVE  SocialInv'
<1>0. CommandKinds \subseteq DOMAIN social
  BY DEF SocialInv, Orderly
<1>1. PICK s : ShowsSocial(s) /\ DOMAIN s = DOMAIN social /\ \A k \in CommandKinds : s[k] = social[k]
  <2>1. CASE OpenChat
    BY <1>0, <2>1 DEF OpenChat, CommandKinds
  <2>2. CASE CloseChat
    BY <1>0, <2>2 DEF CloseChat, CommandKinds
  <2>3. CASE Aim
    BY <1>0, <2>3 DEF Aim, CommandKinds
  <2>4. CASE ClosePokes
    BY <1>0, <2>4 DEF ClosePokes, CommandKinds
  <2>5. CASE \E r \in social.flights : ReactionLanded(r)
    BY <1>0, <2>5 DEF ReactionLanded, CommandKinds
  <2>6. QED BY <2>1, <2>2, <2>3, <2>4, <2>5
<1>2. QED BY <1>1, ShowsKeep

LEMMA IssueKeeps == ASSUME SocialInv, NEW kind \in {"chat", "poke"}, Issue(kind) PROVE SocialInv'
<1> DEFINE n == net.sends
           c == Request(kind)
<1>1. /\ social' = [social EXCEPT ![kind] = c]
      /\ net' = [net EXCEPT !.sends = n + 1, !.up = Attempted(net.up, c, social.connected)]
      /\ table' = table
  BY DEF Issue
<1>2. c \in SocialOrders /\ Numbered(c, n + 1) /\ n \in Nat \ {0}
  BY SocialAssumption DEF SocialInv, NetTypes, Request, SocialOrders, CommandKinds, Numbered
<1> HIDE DEF c
<1>3. \A d : Numbered(d, n) => Numbered(d, n + 1)
  BY <1>2 DEF Numbered
<1>4. Orderly(social', n + 1)
  BY <1>1, <1>2, <1>3 DEF SocialInv, Orderly, CommandKinds
<1>5. Attempted(net.up, c, social.connected) \subseteq Packets /\ \A d \in Attempted(net.up, c, social.connected) : Numbered(d, n + 1)
  BY <1>2, <1>3, AttemptedFacts DEF SocialInv, NetTypes
<1>6. NetTypes(net') /\ net'.sends = n + 1
  <2>1. /\ net' = [up |-> net'.up, down |-> net'.down, sends |-> n + 1, reads |-> net'.reads] /\ net'.reads = net.reads
        /\ net'.up = Attempted(net.up, c, social.connected) /\ net'.sends = n + 1
    BY <1>1 DEF SocialInv, NetTypes
  <2>2. n + 1 \in Nat \ {0} /\ net.reads \in Nat
    BY <1>2 DEF SocialInv, NetTypes
  <2>3. QED BY <1>5, <2>1, <2>2 DEF NetTypes
<1>7. OneReceiptEach(table, n + 1)
  BY <1>2 DEF SocialInv, OneReceiptEach
<1>8. QED BY <1>1, <1>4, <1>6, <1>7 DEF SocialInv

LEMMA ResendKeeps == ASSUME SocialInv, NEW kind \in CommandKinds, Resend(kind) PROVE SocialInv'
<1> DEFINE n == net.sends
           c == social[kind]
<1>1. c # NoCommand /\ c \in SocialOrders /\ Numbered(c, n) /\ table' = table
  BY DEF Resend, SocialInv, Orderly
<1>2. CASE social' = [social EXCEPT ![kind] = NoCommand] /\ UNCHANGED net
  BY <1>1, <1>2 DEF SocialInv, Orderly
<1>3. CASE /\ c.left > 0 /\ social' = [social EXCEPT ![kind].left = @ - 1]
           /\ net' = [net EXCEPT !.up = Attempted(@, c, social.connected)]
  <2>1. [c EXCEPT !.left = @ - 1] \in SocialOrders /\ Numbered([c EXCEPT !.left = @ - 1], n)
    BY <1>1, <1>3 DEF SocialOrders, Numbered
  <2>2. Orderly(social', n)
    BY <1>3, <2>1 DEF SocialInv, Orderly
  <2>3. Attempted(net.up, c, social.connected) \subseteq Packets /\ \A d \in Attempted(net.up, c, social.connected) : Numbered(d, n)
    BY <1>1, AttemptedFacts DEF SocialInv, NetTypes
  <2>4. NetTypes(net') /\ net'.sends = n
    BY <1>3, <2>3 DEF SocialInv, NetTypes
  <2>5. QED BY <1>1, <2>2, <2>4 DEF SocialInv
<1>4. QED BY <1>2, <1>3 DEF Resend

LEMMA AddMessagesFacts ==
    ASSUME NEW s, NEW ids, NEW historical, CommandKinds \subseteq DOMAIN s
    PROVE  DOMAIN AddMessages(s, ids, historical) = DOMAIN s /\ \A k \in CommandKinds : AddMessages(s, ids, historical)[k] = s[k]
BY DEF AddMessages, CommandKinds

LEMMA AckedFacts ==
    ASSUME NEW s, NEW e, NEW n, Orderly(s, n)
    PROVE  Orderly(Acked(s, e), n)
<1>1. CommandKinds \subseteq DOMAIN s
  BY DEF Orderly
<1> DEFINE staying(t) == DOMAIN t = DOMAIN s /\ \A k \in CommandKinds : t[k] \in {s[k], NoCommand}
           historical == ~s.loaded
           first == AddMessages(s, e.ids, historical)
           second == AddMessages(s, e.ids, FALSE)
           loaded == [first EXCEPT !.history = NoCommand, !.loaded = TRUE, !.whole = e.whole]
           answered == [second EXCEPT !.chat = NoCommand]
           poked == [s EXCEPT !.poke = NoCommand, !.aiming = FALSE]
           refused(k) == [s EXCEPT ![k] = NoCommand]
<1> HIDE DEF historical, first, second
<1>2. staying(first) /\ staying(second)
  <2>1. DOMAIN first = DOMAIN s /\ \A k \in CommandKinds : first[k] = s[k]
    BY <1>1, AddMessagesFacts DEF first
  <2>2. DOMAIN second = DOMAIN s /\ \A k \in CommandKinds : second[k] = s[k]
    BY <1>1, AddMessagesFacts DEF second
  <2>3. QED BY <2>1, <2>2
<1>3. staying(loaded) /\ staying(answered)
  BY <1>1, <1>2 DEF CommandKinds
<1>4. staying(poked) /\ staying(s) /\ staying(refused("history")) /\ staying(refused("chat")) /\ staying(refused("poke"))
  BY <1>1 DEF CommandKinds
<1> HIDE DEF loaded, answered, poked
<1>5. \/ Acked(s, e) = (IF e.ok THEN loaded ELSE refused("history"))
      \/ Acked(s, e) = (IF e.ok THEN answered ELSE refused("chat"))
      \/ Acked(s, e) = (IF e.ok THEN poked ELSE refused("poke"))
      \/ Acked(s, e) = s
  BY DEF Acked, first, second, historical, loaded, answered, poked
<1>6. staying(Acked(s, e))
  BY <1>3, <1>4, <1>5
<1>7. QED BY <1>6, OrderlyExcept

LEMMA ReceiveKeeps == ASSUME SocialInv, Receive PROVE SocialInv'
<1> DEFINE e == Head(net.down)
<1>1. Orderly(social, net.sends) /\ CommandKinds \subseteq DOMAIN social
  BY DEF SocialInv, Orderly
<1>2. Orderly(social', net.sends)
  <2>1. Orderly(Acked(social, e), net.sends)
    BY <1>1, AckedFacts
  <2>2. Orderly(AddMessages(social, {e.id}, FALSE), net.sends)
    <3> DEFINE t == AddMessages(social, {e.id}, FALSE)
    <3>1. DOMAIN t = DOMAIN social /\ \A k \in CommandKinds : t[k] = social[k]
      BY <1>1, AddMessagesFacts
    <3> HIDE DEF t
    <3>2. Orderly(t, net.sends)
      BY <1>1, <3>1, OrderlyExcept
    <3>3. QED BY <3>2 DEF t
  <2>3. Orderly(Flown(social, e.id), net.sends)
    BY <1>1 DEF Flown, Orderly, CommandKinds
  <2>4. social' \in {Acked(social, e), AddMessages(social, {e.id}, FALSE), social, Flown(social, e.id)}
    BY DEF Receive
  <2>5. QED BY <1>1, <2>1, <2>2, <2>3, <2>4
<1>3. NetTypes(net') /\ net'.sends = net.sends /\ table' = table
  BY DEF Receive, SocialInv, NetTypes
<1>4. QED BY <1>2, <1>3 DEF SocialInv

\* ---- The server
LEMMA OwnTalkFacts ==
    ASSUME NEW spoken \in Seq(TalkEntries), NEW e \in TalkEntries
    PROVE  /\ Append(spoken, e) \in Seq(TalkEntries)
           /\ OwnTalk(Append(spoken, e)) = IF e.by = "me" THEN OwnTalk(spoken) \cup {Len(spoken) + 1} ELSE OwnTalk(spoken)
           /\ IsFiniteSet(OwnTalk(spoken)) /\ Len(spoken) + 1 \notin OwnTalk(spoken)
<1>1. Len(spoken) \in Nat /\ Len(Append(spoken, e)) = Len(spoken) + 1
  OBVIOUS
<1>2. \A i \in 1 .. (Len(spoken) + 1) : Append(spoken, e)[i] = IF i = Len(spoken) + 1 THEN e ELSE spoken[i]
  OBVIOUS
<1>3. IsFiniteSet(1 .. Len(spoken)) /\ OwnTalk(spoken) \subseteq 1 .. Len(spoken)
  BY <1>1, FS_Interval DEF OwnTalk
<1>4. IsFiniteSet(OwnTalk(spoken))
  BY <1>3, FS_Subset
<1>5. ASSUME NEW i
      PROVE  i \in OwnTalk(Append(spoken, e)) <=> i \in IF e.by = "me" THEN OwnTalk(spoken) \cup {Len(spoken) + 1} ELSE OwnTalk(spoken)
  BY <1>1, <1>2 DEF OwnTalk
<1>6. OwnTalk(Append(spoken, e)) = IF e.by = "me" THEN OwnTalk(spoken) \cup {Len(spoken) + 1} ELSE OwnTalk(spoken)
  BY <1>5
<1>7. Append(spoken, e) \in Seq(TalkEntries) /\ Len(spoken) + 1 \notin OwnTalk(spoken)
  BY <1>1, <1>3
<1>8. QED BY <1>4, <1>6, <1>7

\* What is not in the receipts yet is put there with a message or a reaction.
LEMMA ReceiptAdded ==
    ASSUME NEW t, NEW n \in Nat \ {0}, TableTypes(t), OneReceiptEach(t, n), NEW cmd \in 1 .. (n - 1), cmd \notin t.receipts
    PROVE  /\ Cardinality(t.receipts \cup {cmd}) = Cardinality(t.receipts) + 1
           /\ Cardinality(t.receipts) \in Nat /\ Cardinality(OwnTalk(t.talk)) \in Nat /\ Len(t.pokes) \in Nat
<1>1. IsFiniteSet(t.receipts)
  <2>1. 1 \in Int /\ n - 1 \in Int /\ t.receipts \subseteq 1 .. (n - 1)
    BY DEF OneReceiptEach
  <2>2. IsFiniteSet(1 .. (n - 1))
    BY <2>1, FS_Interval
  <2>3. QED BY <2>1, <2>2, FS_Subset
<1>2. IsFiniteSet(OwnTalk(t.talk))
  <2>1. OwnTalk(t.talk) \subseteq 1 .. Len(t.talk) /\ Len(t.talk) \in Nat
    BY DEF OwnTalk, TableTypes
  <2>2. 1 \in Int /\ Len(t.talk) \in Int
    BY <2>1
  <2>3. IsFiniteSet(1 .. Len(t.talk))
    BY <2>2, FS_Interval
  <2>4. QED BY <2>1, <2>3, FS_Subset
<1>3. Cardinality(t.receipts \cup {cmd}) = Cardinality(t.receipts) + 1
  BY <1>1, FS_AddElement
<1>4. Cardinality(t.receipts) \in Nat /\ Cardinality(OwnTalk(t.talk)) \in Nat
  BY <1>1, <1>2, FS_CardinalityType
<1>5. Len(t.pokes) \in Nat
  BY DEF TableTypes
<1>6. QED BY <1>3, <1>4, <1>5

LEMMA TableShape ==
    ASSUME NEW t, NEW spoken \in Seq(TalkEntries), NEW pokes \in Seq(Nat), NEW receipts, NEW role, NEW over,
           t = [talk |-> spoken, pokes |-> pokes, receipts |-> receipts, role |-> role, over |-> over]
    PROVE  TableTypes(t) /\ t.talk = spoken /\ t.pokes = pokes /\ t.receipts = receipts
BY DEF TableTypes

LEMMA MessageAdded ==
    ASSUME SocialInv, NEW by \in {"me", "other"}, NEW cmd \in Nat, NEW receipts,
           table' = [table EXCEPT !.talk = Append(@, [by |-> by, cmd |-> cmd]), !.receipts = receipts],
           \/ by = "other" /\ receipts = table.receipts
           \/ by = "me" /\ cmd \in 1 .. (net.sends - 1) /\ cmd \notin table.receipts /\ receipts = table.receipts \cup {cmd}
    PROVE  TableTypes(table') /\ OneReceiptEach(table', net.sends)
<1> DEFINE e == [by |-> by, cmd |-> cmd]
           own == OwnTalk(table.talk)
<1>1. e \in TalkEntries /\ e.by = by /\ table.talk \in Seq(TalkEntries) /\ net.sends \in Nat \ {0}
  BY DEF TalkEntries, SocialInv, TableTypes, NetTypes
<1>2. /\ table' = [talk |-> Append(table.talk, e), pokes |-> table.pokes, receipts |-> receipts,
                   role |-> table.role, over |-> table.over]
      /\ table.pokes \in Seq(Nat)
  BY DEF SocialInv, TableTypes
<1> HIDE DEF e
<1>3. /\ Append(table.talk, e) \in Seq(TalkEntries) /\ IsFiniteSet(own) /\ Len(table.talk) + 1 \notin own
      /\ OwnTalk(Append(table.talk, e)) = IF by = "me" THEN own \cup {Len(table.talk) + 1} ELSE own
  BY <1>1, OwnTalkFacts
<1> DEFINE more == Append(table.talk, e)
<1> HIDE DEF more
<1>4. TableTypes(table') /\ table'.talk = Append(table.talk, e) /\ table'.pokes = table.pokes /\ table'.receipts = receipts
  <2>1. more \in Seq(TalkEntries) /\ table' = [talk |-> more, pokes |-> table.pokes, receipts |-> receipts,
                                          role |-> table.role, over |-> table.over]
    BY <1>2, <1>3 DEF more
  <2>2. TableTypes(table') /\ table'.talk = more /\ table'.pokes = table.pokes /\ table'.receipts = receipts
    <3> DEFINE t == table'
    <3>1. t = [talk |-> more, pokes |-> table.pokes, receipts |-> receipts, role |-> table.role, over |-> table.over]
      BY <2>1
    <3> HIDE DEF t
    <3>2. more \in Seq(TalkEntries) /\ table.pokes \in Seq(Nat)
      BY <1>2, <2>1
    <3>3. TableTypes(t) /\ t.talk = more /\ t.pokes = table.pokes /\ t.receipts = receipts
      BY <3>1, <3>2, TableShape
    <3>4. QED BY <3>3 DEF t
  <2>3. QED BY <2>2 DEF more
<1>5. CASE by = "other" /\ receipts = table.receipts
  BY <1>3, <1>4, <1>5 DEF SocialInv, OneReceiptEach
<1>6. CASE by = "me" /\ cmd \in 1 .. (net.sends - 1) /\ cmd \notin table.receipts /\ receipts = table.receipts \cup {cmd}
  <2>1. /\ Cardinality(receipts) = Cardinality(table.receipts) + 1
        /\ Cardinality(table.receipts) \in Nat /\ Cardinality(own) \in Nat /\ Len(table.pokes) \in Nat
    BY <1>1, <1>6, ReceiptAdded DEF SocialInv
  <2>2. Cardinality(OwnTalk(table'.talk)) = Cardinality(own) + 1
    BY <1>3, <1>4, <1>6, FS_AddElement
  <2>3. receipts \subseteq 1 .. (net.sends - 1)
    BY <1>6 DEF SocialInv, OneReceiptEach
  <2>4. Cardinality(own) + Len(table.pokes) = Cardinality(table.receipts)
    BY DEF SocialInv, OneReceiptEach
  <2> DEFINE owns == Cardinality(own)
             pokes == Len(table.pokes)
             before == Cardinality(table.receipts)
  <2>5. owns \in Nat /\ pokes \in Nat /\ before \in Nat /\ owns + pokes = before
    BY <2>1, <2>4
  <2> HIDE DEF owns, pokes, before
  <2>6. (owns + 1) + pokes = before + 1
    BY <2>5
  <2>7. Cardinality(OwnTalk(table'.talk)) + Len(table'.pokes) = Cardinality(table'.receipts)
    <3>1. Cardinality(OwnTalk(table'.talk)) = owns + 1 /\ Len(table'.pokes) = pokes /\ Cardinality(table'.receipts) = before + 1
      BY <1>4, <2>1, <2>2 DEF owns, pokes, before
    <3>2. QED BY <2>6, <3>1
  <2>8. QED BY <1>4, <2>3, <2>7 DEF OneReceiptEach
<1>7. QED BY <1>4, <1>5, <1>6

LEMMA ReactionAdded ==
    ASSUME SocialInv, NEW cmd \in 1 .. (net.sends - 1), cmd \notin table.receipts,
           table' = [table EXCEPT !.pokes = Append(@, cmd), !.receipts = @ \cup {cmd}]
    PROVE  TableTypes(table') /\ OneReceiptEach(table', net.sends)
<1>1. net.sends \in Nat \ {0} /\ cmd \in Nat /\ table.pokes \in Seq(Nat)
  BY DEF SocialInv, NetTypes, TableTypes
<1>2. /\ table' = [talk |-> table.talk, pokes |-> Append(table.pokes, cmd), receipts |-> table.receipts \cup {cmd},
                   role |-> table.role, over |-> table.over]
      /\ table.talk \in Seq(TalkEntries)
  BY DEF SocialInv, TableTypes
<1>3. Append(table.pokes, cmd) \in Seq(Nat) /\ Len(Append(table.pokes, cmd)) = Len(table.pokes) + 1
  BY <1>1
<1>4. TableTypes(table')
  BY <1>2, <1>3 DEF TableTypes
<1>5. /\ Cardinality(table.receipts \cup {cmd}) = Cardinality(table.receipts) + 1
      /\ Cardinality(table.receipts) \in Nat /\ Cardinality(OwnTalk(table.talk)) \in Nat /\ Len(table.pokes) \in Nat
  BY <1>1, ReceiptAdded DEF SocialInv
<1>6. table'.receipts \subseteq 1 .. (net.sends - 1)
  BY <1>2 DEF SocialInv, OneReceiptEach
<1>7. Cardinality(OwnTalk(table.talk)) + Len(table.pokes) = Cardinality(table.receipts)
  BY DEF SocialInv, OneReceiptEach
<1>8. QED BY <1>2, <1>3, <1>4, <1>5, <1>6, <1>7 DEF OneReceiptEach

LEMMA OtherSaysKeeps == ASSUME SocialInv, OtherSays PROVE SocialInv'
<1>1. table' = [table EXCEPT !.talk = Append(@, [by |-> "other", cmd |-> 0]), !.receipts = table.receipts]
  BY DEF OtherSays, SocialInv, TableTypes
<1>2. TableTypes(table') /\ OneReceiptEach(table', net.sends)
  BY <1>1, MessageAdded
<1>3. NetTypes(net') /\ net'.sends = net.sends /\ social' = social
  BY DEF OtherSays, SocialInv, NetTypes
<1>4. QED BY <1>2, <1>3 DEF SocialInv

LEMMA SocialServeKeeps == ASSUME SocialInv, NEW c \in net.up, ServeCommand(c) PROVE SocialInv'
<1>1. social' = social
  BY DEF ServeCommand
<1>2. \E down : net' = [net EXCEPT !.up = @ \ {c}, !.down = down]
  BY DEF ServeCommand
<1>3. NetTypes(net') /\ net'.sends = net.sends
  BY <1>2 DEF SocialInv, NetTypes
<1>4. c.cmd \in Nat /\ (c.kind # "history" => c.cmd \in 1 .. (net.sends - 1))
  BY DEF SocialInv, NetTypes, Packets, Numbered
<1>5. \/ table' = table
      \/ /\ c.kind = "chat" /\ c.cmd \notin table.receipts
         /\ table' = [table EXCEPT !.talk = Append(@, [by |-> "me", cmd |-> c.cmd]), !.receipts = @ \cup {c.cmd}]
      \/ /\ c.kind = "poke" /\ c.cmd \notin table.receipts
         /\ table' = [table EXCEPT !.pokes = Append(@, c.cmd), !.receipts = @ \cup {c.cmd}]
  BY DEF ServeCommand
<1>6. TableTypes(table') /\ OneReceiptEach(table', net.sends)
  <2>1. CASE table' = table
    BY <2>1 DEF SocialInv
  <2>2. CASE /\ c.kind = "chat" /\ c.cmd \notin table.receipts
             /\ table' = [table EXCEPT !.talk = Append(@, [by |-> "me", cmd |-> c.cmd]), !.receipts = @ \cup {c.cmd}]
    BY <1>4, <2>2, MessageAdded
  <2>3. CASE /\ c.kind = "poke" /\ c.cmd \notin table.receipts
             /\ table' = [table EXCEPT !.pokes = Append(@, c.cmd), !.receipts = @ \cup {c.cmd}]
    BY <1>4, <2>3, ReactionAdded
  <2>4. QED BY <1>5, <2>1, <2>2, <2>3
<1>7. QED BY <1>1, <1>3, <1>6 DEF SocialInv

LEMMA SeatKeeps == ASSUME SocialInv, SeatChanges PROVE SocialInv'
<1>1. Orderly(social, net.sends) /\ \E whole : social' = [social EXCEPT !.whole = whole]
  BY DEF SeatChanges, SocialInv
<1>2. Orderly(social', net.sends)
  BY <1>1 DEF Orderly, CommandKinds
<1>3. \E down : net' = [net EXCEPT !.down = down]
  BY DEF SeatChanges
<1>4. NetTypes(net') /\ net'.sends = net.sends
  BY <1>3 DEF SocialInv, NetTypes
<1>5. TableTypes(table') /\ OneReceiptEach(table', net.sends)
  BY DEF SeatChanges, SocialInv, TableTypes, OneReceiptEach
<1>6. QED BY <1>2, <1>4, <1>5 DEF SocialInv

LEMMA SocialStep == SocialInv /\ [SocialNext]_socialVars => SocialInv'
<1> SUFFICES ASSUME SocialInv, [SocialNext]_socialVars PROVE SocialInv'
  OBVIOUS
<1>1. CASE UNCHANGED socialVars
  BY <1>1 DEF socialVars, SocialInv
<1>2. CASE Show \/ Collapse \/ Drop \/ Resume \/ SnapshotRead
  BY <1>2, ReadingKeeps
<1>3. CASE OpenChat \/ CloseChat \/ Aim \/ ClosePokes \/ \E r \in social.flights : ReactionLanded(r)
  BY <1>3, PanelKeeps
<1>4. CASE SendMessage \/ SendReaction
  BY <1>4, IssueKeeps DEF SendMessage, SendReaction
<1>5. ASSUME NEW kind \in CommandKinds, Resend(kind) PROVE SocialInv'
  BY <1>5, ResendKeeps
<1>6. ASSUME NEW c \in net.up, ServeCommand(c) PROVE SocialInv'
  BY <1>6, SocialServeKeeps
<1>7. CASE Receive \/ OtherSays \/ SeatChanges
  BY <1>7, ReceiveKeeps, OtherSaysKeeps, SeatKeeps
<1>8. QED BY <1>1, <1>2, <1>3, <1>4, <1>5, <1>6, <1>7 DEF SocialNext

\* However often a command is repeated, and whatever is lost, cancelled or reconnected, each message
\* and each reaction that the player sends is delivered at most once.
THEOREM DeliveredOnce == SocialSpec => []SentOnce
<1>1. SocialInv => SentOnce
  <2> SUFFICES ASSUME SocialInv PROVE SentOnce
    OBVIOUS
  <2>1. net.sends \in Nat \ {0} /\ table.receipts \subseteq 1 .. (net.sends - 1)
    BY DEF SocialInv, NetTypes, OneReceiptEach
  <2>2. IsFiniteSet(1 .. (net.sends - 1)) /\ Cardinality(1 .. (net.sends - 1)) = net.sends - 1
    <3>1. 1 \in Int /\ net.sends - 1 \in Int /\ (1 > net.sends - 1 => net.sends - 1 = 0)
          /\ (net.sends - 1) - 1 + 1 = net.sends - 1
      BY <2>1
    <3>2. /\ IsFiniteSet(1 .. (net.sends - 1))
          /\ Cardinality(1 .. (net.sends - 1)) = IF 1 > net.sends - 1 THEN 0 ELSE (net.sends - 1) - 1 + 1
      BY <3>1, FS_Interval
    <3>3. QED BY <3>1, <3>2
  <2>3. Cardinality(table.receipts) \in Nat /\ Cardinality(table.receipts) <= net.sends - 1
    BY <2>1, <2>2, FS_Subset, FS_CardinalityType
  <2>4. Cardinality({i \in Talk : table.talk[i].by = "me"}) + Len(table.pokes) = Cardinality(table.receipts)
    BY DEF SocialInv, OneReceiptEach, OwnTalk, Talk
  <2>5. QED BY <2>1, <2>3, <2>4 DEF SentOnce
<1>2. QED BY <1>1, SocialInitially, SocialStep, PTL DEF SocialSpec

\* What is on its way to the client: acknowledgments, messages and reactions.
Signals(ids) ==
    [kind : {"ack"}, cmd : Nat, ok : BOOLEAN, ids : SUBSET ids, whole : BOOLEAN]
    \cup [kind : {"message"}, id : ids] \cup [kind : {"reaction"}, id : Nat]
\* The messages that come after the first n signals.
After(down, n) == {down[j].id : j \in {j \in DOMAIN down : n < j /\ down[j].kind = "message"}}
\* The history and what comes after it is all that was said.
WholeAcks(down, ids) ==
    \A i \in DOMAIN down : down[i].kind = "ack" /\ down[i].whole => ids = down[i].ids \cup After(down, i)
PromisesWhole(down) == \E i \in DOMAIN down : down[i].kind = "ack" /\ down[i].whole

SocialFields ==
    {"role", "over", "connected", "shown", "open", "messages", "unread", "seen", "loaded", "aiming", "flights", "flown",
     "history", "chat", "poke", "read", "whole"}
Shape(s) == SocialFields \subseteq DOMAIN s
\* A whole conversation, and the answer that makes one, are of a player who may read; a history is asked for,
\* and a conversation is whole, only while it is read.
Reader(s) ==
    /\ Shape(s) /\ s.connected \in BOOLEAN /\ s.whole \in BOOLEAN
    /\ s.history # NoCommand => Reading(s)
    /\ s.whole => Reading(s)
\* What was seen was said, and the badge counts those of the others that were not read.
BadgeCounts(s) == s.seen \subseteq Talk /\ s.read \subseteq s.seen /\ s.messages \subseteq Talk
             /\ s.unread = Cardinality(Theirs(s.seen \ s.read))
TalkInv ==
    /\ net.down \in Seq(Signals(Talk)) /\ (~social.connected => net.down = <<>>)
    /\ Reader(social) /\ BadgeCounts(social)
    /\ social.whole \/ PromisesWhole(net.down) => Reads(table)
    /\ WholeAcks(net.down, Talk)
    /\ social.whole => Talk = social.messages \cup After(net.down, 0)

\* The signals after the first, and after those that were there before.
LEMMA AfterTail ==
    ASSUME NEW S, NEW down \in Seq(S), down # <<>>, NEW n \in Nat
    PROVE  After(Tail(down), n) = After(down, n + 1)
<1>1. Len(Tail(down)) = Len(down) - 1 /\ Len(down) \in Nat \ {0} /\ Tail(down) \in Seq(S)
  BY DEF After
<1>2. \A j \in 1 .. Len(Tail(down)) : Tail(down)[j] = down[j + 1]
  BY <1>1
<1>3. ASSUME NEW j \in DOMAIN Tail(down), n < j, Tail(down)[j].kind = "message"
      PROVE  Tail(down)[j].id \in After(down, n + 1)
  <2>1. j + 1 \in DOMAIN down /\ n + 1 < j + 1 /\ down[j + 1] = Tail(down)[j]
    BY <1>1, <1>2, <1>3
  <2>2. QED BY <1>3, <2>1 DEF After
<1>4. ASSUME NEW j \in DOMAIN down, n + 1 < j, down[j].kind = "message"
      PROVE  down[j].id \in After(Tail(down), n)
  <2>1. j - 1 \in DOMAIN Tail(down) /\ n < j - 1 /\ (j - 1) + 1 = j
    BY <1>1, <1>4
  <2>2. Tail(down)[j - 1] = down[j]
    BY <1>1, <1>2, <2>1
  <2>3. QED BY <1>4, <2>1, <2>2 DEF After
<1>5. QED BY <1>3, <1>4 DEF After

LEMMA AfterHead ==
    ASSUME NEW S, NEW down \in Seq(S), down # <<>>
    PROVE  After(down, 0) = After(down, 1) \cup IF Head(down).kind = "message" THEN {Head(down).id} ELSE {}
<1>1. Len(down) \in Nat \ {0} /\ Head(down) = down[1] /\ 1 \in DOMAIN down
  OBVIOUS
<1>2. \A j \in DOMAIN down : 0 < j <=> j = 1 \/ 1 < j
  BY <1>1
<1>3. QED BY <1>1, <1>2 DEF After

LEMMA AfterJoined ==
    ASSUME NEW S, NEW down \in Seq(S), NEW events \in Seq(S)
    PROVE  /\ \A n \in 0 .. Len(down) : After(down \o events, n) = After(down, n) \cup After(events, 0)
           /\ \A n \in Nat : After(down \o events, Len(down) + n) = After(events, n)
<1> DEFINE both == down \o events
<1>1. both \in Seq(S) /\ Len(both) = Len(down) + Len(events) /\ Len(down) \in Nat /\ Len(events) \in Nat
  OBVIOUS
<1>2. \A j \in 1 .. Len(down) : both[j] = down[j]
  OBVIOUS
<1>3. \A j \in 1 .. Len(events) : both[Len(down) + j] = events[j]
  OBVIOUS
<1> HIDE DEF both
<1>4. ASSUME NEW j \in DOMAIN both PROVE \/ j \in DOMAIN down /\ both[j] = down[j]
                                         \/ j - Len(down) \in DOMAIN events /\ both[j] = events[j - Len(down)]
  <2>1. j \in 1 .. (Len(down) + Len(events))
    BY <1>1
  <2>2. CASE j <= Len(down)
    BY <1>1, <1>2, <2>1, <2>2
  <2>3. CASE j > Len(down)
    <3>1. j - Len(down) \in 1 .. Len(events) /\ Len(down) + (j - Len(down)) = j
      BY <1>1, <2>1, <2>3
    <3>2. QED BY <1>1, <1>3, <3>1
  <2>4. QED BY <1>1, <2>1, <2>2, <2>3
<1>5. ASSUME NEW j \in DOMAIN down PROVE j \in DOMAIN both /\ both[j] = down[j] /\ j <= Len(down) /\ j \in Nat
  BY <1>1, <1>2
<1>6. ASSUME NEW j \in DOMAIN events
      PROVE  Len(down) + j \in DOMAIN both /\ both[Len(down) + j] = events[j] /\ j \in Nat /\ 0 < j
  BY <1>1, <1>3
<1>7. ASSUME NEW n \in 0 .. Len(down) PROVE After(both, n) = After(down, n) \cup After(events, 0)
  <2>1. ASSUME NEW j \in DOMAIN both, n < j, both[j].kind = "message"
        PROVE  both[j].id \in After(down, n) \cup After(events, 0)
    <3>1. CASE j \in DOMAIN down /\ both[j] = down[j]
      BY <2>1, <3>1 DEF After
    <3>2. CASE j - Len(down) \in DOMAIN events /\ both[j] = events[j - Len(down)]
      <4>1. 0 < j - Len(down)
        BY <1>6, <3>2
      <4>2. QED BY <2>1, <3>2, <4>1 DEF After
    <3>3. QED BY <1>4, <3>1, <3>2
  <2>2. ASSUME NEW j \in DOMAIN down, n < j, down[j].kind = "message" PROVE down[j].id \in After(both, n)
    BY <1>5, <2>2 DEF After
  <2>3. ASSUME NEW j \in DOMAIN events, 0 < j, events[j].kind = "message" PROVE events[j].id \in After(both, n)
    <3>1. n < Len(down) + j
      BY <1>1, <1>6, <2>3
    <3>2. QED BY <1>6, <2>3, <3>1 DEF After
  <2>4. QED BY <2>1, <2>2, <2>3 DEF After
<1>8. ASSUME NEW n \in Nat PROVE After(both, Len(down) + n) = After(events, n)
  <2>1. ASSUME NEW j \in DOMAIN both, Len(down) + n < j, both[j].kind = "message" PROVE both[j].id \in After(events, n)
    <3>1. ~(j \in DOMAIN down)
      BY <1>1, <1>5, <2>1
    <3>2. j - Len(down) \in DOMAIN events /\ both[j] = events[j - Len(down)]
      BY <1>4, <3>1
    <3>3. n < j - Len(down)
      BY <1>1, <2>1
    <3>4. QED BY <2>1, <3>2, <3>3 DEF After
  <2>2. ASSUME NEW j \in DOMAIN events, n < j, events[j].kind = "message" PROVE events[j].id \in After(both, Len(down) + n)
    <3>1. Len(down) + n < Len(down) + j
      BY <1>1, <1>6, <2>2
    <3>2. QED BY <1>6, <2>2, <3>1 DEF After
  <2>3. QED BY <2>1, <2>2 DEF After
<1>9. QED BY <1>7, <1>8 DEF both

\* What is said later adds to the talk.
TalkLater ==
    /\ TableTypes(table') /\ Talk \subseteq Talk'
    /\ \A i \in Talk : table'.talk[i] = table.talk[i]

LEMMA CountsLater == ASSUME TalkLater, NEW s, BadgeCounts(s) PROVE /\ s.seen \subseteq Talk' /\ s.messages \subseteq Talk'
                                                              /\ s.unread = Cardinality(Theirs(s.seen \ s.read)')
<1>1. Theirs(s.seen \ s.read)' = Theirs(s.seen \ s.read)
  BY DEF TalkLater, BadgeCounts, Theirs
<1>2. QED BY <1>1 DEF TalkLater, BadgeCounts

LEMMA SignalsLater == ASSUME NEW ids, NEW more, ids \subseteq more PROVE Signals(ids) \subseteq Signals(more)
BY DEF Signals

LEMMA SocialTypes ==
    ASSUME SocialInv
    PROVE  /\ net = [up |-> net.up, down |-> net.down, sends |-> net.sends, reads |-> net.reads]
           /\ table = [talk |-> table.talk, pokes |-> table.pokes, receipts |-> table.receipts, role |-> table.role, over |-> table.over]
           /\ table.talk \in Seq(TalkEntries) /\ Len(table.talk) \in Nat /\ table.pokes \in Seq(Nat) /\ IsFiniteSet(Talk)
<1>1. /\ net = [up |-> net.up, down |-> net.down, sends |-> net.sends, reads |-> net.reads]
      /\ table = [talk |-> table.talk, pokes |-> table.pokes, receipts |-> table.receipts, role |-> table.role, over |-> table.over]
      /\ table.talk \in Seq(TalkEntries) /\ table.pokes \in Seq(Nat)
  BY DEF SocialInv, NetTypes, TableTypes
<1>2. Len(table.talk) \in Int /\ Len(table.talk) \in Nat
  BY <1>1
<1>3. IsFiniteSet(1 .. Len(table.talk))
  <2>1. 1 \in Int /\ Len(table.talk) \in Int
    BY <1>2
  <2>2. QED BY <2>1, FS_Interval
<1>4. QED BY <1>1, <1>2, <1>3 DEF Talk

\* The server pushes to a client that is connected, and whoever may read is told of all that is said.
LEMMA PushKeeps ==
    ASSUME TalkInv, TalkLater, NEW events \in Seq(Signals(Talk')), UNCHANGED social, Reads(table') <=> Reads(table),
           net'.down = Push(net.down, events),
           Reads(table) /\ social.connected => Talk' = Talk \cup After(events, 0),
           WholeAcks(events, Talk'), PromisesWhole(events) => Reads(table)
    PROVE  TalkInv'
<1> DEFINE down == net.down
<1>1. down \in Seq(Signals(Talk'))
  <2>1. Signals(Talk) \subseteq Signals(Talk')
    BY SignalsLater DEF TalkLater
  <2>2. QED BY <2>1 DEF TalkInv
<1>2. net'.down = IF social.connected THEN down \o events ELSE down
  BY DEF Push
<1>3. Reader(social)' /\ BadgeCounts(social)'
  <2>1. Reader(social)'
    BY DEF TalkInv, Reader, Shape, SocialFields, Reading, CanRead
  <2>2. QED BY <2>1, CountsLater DEF TalkInv, BadgeCounts
<1>4. CASE ~social.connected
  <2>1. net'.down = <<>> /\ ~social.whole
    BY <1>2, <1>4 DEF TalkInv, Reader, Reading
  <2>2. DOMAIN net'.down = {}
    BY <2>1
  <2>3. QED BY <1>1, <1>2, <1>3, <1>4, <2>1, <2>2 DEF TalkInv, WholeAcks, PromisesWhole
<1>5. CASE social.connected
  <2> DEFINE both == down \o events
  <2>1. net'.down = both /\ both \in Seq(Signals(Talk'))
    BY <1>1, <1>2, <1>5
  <2>2. /\ \A n \in 0 .. Len(down) : After(both, n) = After(down, n) \cup After(events, 0)
        /\ \A n \in Nat : After(both, Len(down) + n) = After(events, n)
    <3> DEFINE all == Signals(Talk')
    <3>1. down \in Seq(all) /\ events \in Seq(all)
      BY <1>1
    <3> HIDE DEF all
    <3>2. \A d, e \in Seq(all) : /\ \A n \in 0 .. Len(d) : After(d \o e, n) = After(d, n) \cup After(e, 0)
                                 /\ \A n \in Nat : After(d \o e, Len(d) + n) = After(e, n)
      BY AfterJoined
    <3>3. QED BY <3>1, <3>2, Zenon
  <2>3. /\ Len(down) \in Nat /\ Len(events) \in Nat /\ DOMAIN both = 1 .. (Len(down) + Len(events))
        /\ DOMAIN down = 1 .. Len(down) /\ DOMAIN events = 1 .. Len(events)
    BY <1>1
  <2>4. ASSUME NEW i \in DOMAIN both PROVE \/ i \in DOMAIN down /\ both[i] = down[i]
                                           \/ \E k \in DOMAIN events : i = Len(down) + k /\ both[i] = events[k]
    <3>1. CASE i <= Len(down)
      BY <1>1, <2>3, <3>1
    <3>2. CASE i > Len(down)
      <4>1. i - Len(down) \in DOMAIN events /\ i = Len(down) + (i - Len(down))
        BY <2>3, <3>2
      <4>2. both[i] = events[i - Len(down)]
        BY <1>1, <2>3, <3>2, <4>1
      <4>3. QED BY <4>1, <4>2
    <3>3. QED BY <2>3, <3>1, <3>2
  <2> HIDE DEF both
  <2>5. social.whole \/ PromisesWhole(both) => Reads(table)
    BY <2>4 DEF TalkInv, PromisesWhole
  <2>6. WholeAcks(both, Talk')
    <3> SUFFICES ASSUME NEW i \in DOMAIN both, both[i].kind = "ack", both[i].whole
                 PROVE  Talk' = both[i].ids \cup After(both, i)
      BY DEF WholeAcks
    <3>1. CASE i \in DOMAIN down /\ both[i] = down[i]
      <4>1. Talk = down[i].ids \cup After(down, i) /\ Reads(table)
        BY <3>1 DEF TalkInv, WholeAcks, PromisesWhole
      <4>2. After(both, i) = After(down, i) \cup After(events, 0)
        <5>1. i \in 0 .. Len(down)
          BY <2>3, <3>1
        <5>2. QED BY <2>2, <5>1, Zenon
      <4>3. QED BY <1>5, <3>1, <4>1, <4>2
    <3>2. ASSUME NEW k \in DOMAIN events, i = Len(down) + k, both[i] = events[k]
          PROVE  Talk' = both[i].ids \cup After(both, i)
      <4>1. k \in Nat /\ After(both, i) = After(events, k)
        <5>1. k \in Nat
          BY <2>3
        <5>2. After(both, Len(down) + k) = After(events, k)
          BY <2>2, <5>1
        <5>3. QED BY <3>2, <5>1, <5>2
      <4>2. QED BY <3>2, <4>1 DEF WholeAcks
    <3>3. QED BY <2>4, <3>1, <3>2
  <2>7. social.whole => Talk' = social.messages \cup After(both, 0)
    <3>1. After(both, 0) = After(down, 0) \cup After(events, 0)
      <4>1. 0 \in 0 .. Len(down)
        BY <2>3
      <4>2. QED BY <2>2, <4>1, Zenon
    <3>2. QED BY <1>5, <3>1 DEF TalkInv
  <2>8. QED BY <1>3, <1>5, <2>1, <2>5, <2>6, <2>7 DEF TalkInv
<1>6. QED BY <1>4, <1>5 DEF TalkInv, Reader

\* What the client does leaves the server and what is on its way; a conversation stays as whole as it was.
LEMMA ClientKeeps ==
    ASSUME TalkInv, UNCHANGED table, net'.down = net.down, Reader(social'), BadgeCounts(social'),
           social'.connected = social.connected,
           social'.whole => social.whole /\ social.messages \subseteq social'.messages
    PROVE  TalkInv'
<1>1. Talk' = Talk /\ (Reads(table)' <=> Reads(table)) /\ BadgeCounts(social)'
  BY DEF Talk, Reads, BadgeCounts, Theirs
<1>2. Reader(social)'
  BY DEF Reader, Shape, SocialFields, Reading, CanRead
<1>3. social'.whole => Talk = social'.messages \cup After(net.down, 0)
  BY DEF TalkInv, BadgeCounts
<1>4. QED BY <1>1, <1>2, <1>3 DEF TalkInv

\* Two states of the client that show the same conversation.
Like(t, s) ==
    /\ Shape(t) /\ t.role = s.role /\ t.over = s.over /\ t.connected = s.connected /\ t.shown = s.shown
    /\ t.seen = s.seen /\ t.messages = s.messages /\ t.unread = s.unread /\ t.read = s.read
    /\ t.history = s.history /\ t.whole = s.whole

LEMMA LikeCounts == ASSUME NEW s, NEW t, Like(t, s), BadgeCounts(s) PROVE BadgeCounts(t)
BY DEF Like, BadgeCounts, Theirs

LEMMA LikeReader == ASSUME NEW s, NEW t, Like(t, s), Reader(s) PROVE Reader(t)
BY DEF Like, Reader, Reading, CanRead

\* The panel and the tools for pokes.
LEMMA ShowsLike == ASSUME NEW s, Shape(s)
                   PROVE  /\ \A open : Like([s EXCEPT !.open = open], s)
                          /\ \A aiming : Like([s EXCEPT !.aiming = aiming], s)
                          /\ \A flights : Like([s EXCEPT !.flights = flights], s)
                          /\ \A flown : Like([s EXCEPT !.flown = flown], s)
                          /\ \A order : Like([s EXCEPT !.chat = order], s)
                          /\ \A poke : Like([s EXCEPT !.poke = poke], s)
<1>1. \A open : Like([s EXCEPT !.open = open], s)
  BY DEF Like, Shape, SocialFields
<1>2. \A aiming : Like([s EXCEPT !.aiming = aiming], s)
  BY DEF Like, Shape, SocialFields
<1>3. \A flights : Like([s EXCEPT !.flights = flights], s)
  BY DEF Like, Shape, SocialFields
<1>4. \A flown : Like([s EXCEPT !.flown = flown], s)
  BY DEF Like, Shape, SocialFields
<1>5. \A order : Like([s EXCEPT !.chat = order], s)
  BY DEF Like, Shape, SocialFields
<1>6. \A poke : Like([s EXCEPT !.poke = poke], s)
  BY DEF Like, Shape, SocialFields
<1>7. QED BY <1>1, <1>2, <1>3, <1>4, <1>5, <1>6

LEMMA LikeTwice == ASSUME NEW s, NEW t, NEW u, Like(t, s), Like(u, t) PROVE Like(u, s)
BY DEF Like

LEMMA ShowsBoth == ASSUME NEW s, Shape(s)
                   PROVE  /\ \A open, aiming : Like([s EXCEPT !.open = open, !.aiming = aiming], s)
                          /\ \A flights, flown : Like([s EXCEPT !.flights = flights, !.flown = flown], s)
                          /\ \A poke, aiming : Like([s EXCEPT !.poke = poke, !.aiming = aiming], s)
<1>1. ASSUME NEW open, NEW aiming PROVE Like([s EXCEPT !.open = open, !.aiming = aiming], s)
  <2> DEFINE t == [s EXCEPT !.open = open]
  <2>1. Like(t, s) /\ Shape(t)
    BY ShowsLike DEF Like
  <2>2. Like([t EXCEPT !.aiming = aiming], t)
    <3> HIDE DEF t
    <3>1. QED BY <2>1, ShowsLike
  <2>3. QED BY <2>1, <2>2, LikeTwice
<1>2. ASSUME NEW flights, NEW flown PROVE Like([s EXCEPT !.flights = flights, !.flown = flown], s)
  <2> DEFINE t == [s EXCEPT !.flights = flights]
  <2>1. Like(t, s) /\ Shape(t)
    BY ShowsLike DEF Like
  <2>2. Like([t EXCEPT !.flown = flown], t)
    <3> HIDE DEF t
    <3>1. QED BY <2>1, ShowsLike
  <2>3. QED BY <2>1, <2>2, LikeTwice
<1>3. ASSUME NEW poke, NEW aiming PROVE Like([s EXCEPT !.poke = poke, !.aiming = aiming], s)
  <2> DEFINE t == [s EXCEPT !.poke = poke]
  <2>1. Like(t, s) /\ Shape(t)
    BY ShowsLike DEF Like
  <2>2. Like([t EXCEPT !.aiming = aiming], t)
    <3> HIDE DEF t
    <3>1. QED BY <2>1, ShowsLike
  <2>3. QED BY <2>1, <2>2, LikeTwice
<1>4. QED BY <1>1, <1>2, <1>3

LEMMA NothingUnread == ASSUME NEW S PROVE Cardinality(Theirs(S \ S)) = 0
<1>1. Theirs(S \ S) = {}
  BY DEF Theirs
<1>2. QED BY <1>1, FS_EmptySet

LEMMA EffectsWhole ==
    ASSUME SocialInv, TalkInv, NEW s, Effects(s), UNCHANGED table, Shape(s), s.connected \in BOOLEAN, s.whole \in BOOLEAN, BadgeCounts(s),
           \/ s.history = social.history /\ s.whole = social.whole /\ s.messages = social.messages
           \/ s.history = NoCommand /\ ~s.whole
    PROVE  TalkInv'
<1> DEFINE closed == IF s.connected /\ CanRead(s) THEN s ELSE [s EXCEPT !.open = FALSE, !.aiming = FALSE]
           barred == IF Enabled(s) THEN closed ELSE [closed EXCEPT !.aiming = FALSE]
           emptied == IF CanRead(s) THEN barred ELSE [barred EXCEPT !.messages = {}, !.unread = 0, !.read = s.seen]
           grounded == IF s.connected /\ ~s.over THEN emptied ELSE [emptied EXCEPT !.flights = {}]
           starts == Reading(s) /\ ~Reading(social)
           stops == Reading(social) /\ ~Reading(s)
<1>1. /\ social' = IF starts THEN [grounded EXCEPT !.history = Request("history"), !.whole = FALSE]
                   ELSE IF stops THEN [grounded EXCEPT !.history = NoCommand, !.whole = FALSE] ELSE grounded
      /\ net'.down = IF s.connected THEN net.down ELSE <<>>
  <2>1. net = [up |-> net.up, down |-> net.down, sends |-> net.sends, reads |-> net.reads]
    BY SocialTypes
  <2>2. QED BY <2>1 DEF Effects
<1>2. Like(closed, s)
  <2>1. Like(s, s)
    BY DEF Like
  <2>2. QED BY <2>1, ShowsBoth
<1> HIDE DEF closed
<1>3. Like(barred, s)
  <2>1. Shape(closed)
    BY <1>2 DEF Like
  <2>2. Like([closed EXCEPT !.aiming = FALSE], closed)
    BY <2>1, ShowsLike
  <2>3. QED BY <1>2, <2>2 DEF Like
<1> HIDE DEF barred
<1>4. /\ Shape(emptied) /\ emptied.role = s.role /\ emptied.over = s.over /\ emptied.connected = s.connected
      /\ emptied.shown = s.shown /\ emptied.history = s.history /\ emptied.whole = s.whole /\ BadgeCounts(emptied)
      /\ CanRead(s) => emptied.messages = s.messages
  <2>1. CASE CanRead(s)
    BY <1>3, <2>1, LikeCounts DEF Like
  <2>2. CASE ~CanRead(s)
    <3>1. emptied = [barred EXCEPT !.messages = {}, !.unread = 0, !.read = s.seen] /\ Like(barred, s)
      BY <1>3, <2>2
    <3>2. /\ Shape(emptied) /\ emptied.role = s.role /\ emptied.over = s.over /\ emptied.connected = s.connected
          /\ emptied.shown = s.shown /\ emptied.history = s.history /\ emptied.whole = s.whole
          /\ emptied.messages = {} /\ emptied.unread = 0 /\ emptied.read = s.seen /\ emptied.seen = s.seen
      BY <3>1 DEF Like, Shape, SocialFields
    <3>3. BadgeCounts(emptied)
      BY <3>2, NothingUnread DEF BadgeCounts
    <3>4. QED BY <2>2, <3>2, <3>3
  <2>3. QED BY <2>1, <2>2
<1> HIDE DEF emptied
<1>5. Like(grounded, emptied)
  <2>1. Like(emptied, emptied)
    BY <1>4 DEF Like
  <2>2. QED BY <1>4, <2>1, ShowsLike
<1>6. BadgeCounts(grounded)
  BY <1>4, <1>5, LikeCounts
<1> HIDE DEF grounded
<1> DEFINE t == social'
<1>7. /\ Shape(t) /\ t.role = s.role /\ t.over = s.over /\ t.connected = s.connected /\ t.shown = s.shown
      /\ t.messages = grounded.messages /\ t.seen = grounded.seen /\ t.read = grounded.read /\ t.unread = grounded.unread
      /\ t.whole = (~starts /\ ~stops /\ s.whole)
      /\ t.history = IF starts THEN Request("history") ELSE IF stops THEN NoCommand ELSE s.history
  <2>1. /\ Shape(grounded) /\ grounded.role = s.role /\ grounded.over = s.over /\ grounded.connected = s.connected
        /\ grounded.shown = s.shown /\ grounded.history = s.history /\ grounded.whole = s.whole
    BY <1>4, <1>5 DEF Like
  <2> HIDE DEF starts, stops
  <2>2. CASE starts
    <3>1. t = [grounded EXCEPT !.history = Request("history"), !.whole = FALSE]
      BY <1>1, <2>2
    <3> HIDE DEF t
    <3>2. QED BY <2>1, <2>2, <3>1 DEF Shape, SocialFields
  <2>3. CASE ~starts /\ stops
    <3>1. t = [grounded EXCEPT !.history = NoCommand, !.whole = FALSE]
      BY <1>1, <2>3
    <3> HIDE DEF t
    <3>2. QED BY <2>1, <2>3, <3>1 DEF Shape, SocialFields
  <2>4. CASE ~starts /\ ~stops
    <3>1. t = grounded
      BY <1>1, <2>4
    <3> HIDE DEF t
    <3>2. QED BY <2>1, <2>4, <3>1
  <2>5. QED BY <2>2, <2>3, <2>4
<1>8. Reading(t) <=> Reading(s)
  BY <1>7 DEF Reading, CanRead
<1>9. BadgeCounts(t)
  BY <1>6, <1>7 DEF BadgeCounts
<1> HIDE DEF t
<1>10. Reader(t)
  <2>1. t.history # NoCommand => Reading(s)
    BY <1>7 DEF TalkInv, Reader
  <2>2. t.whole => Reading(s)
    BY <1>7 DEF TalkInv, Reader
  <2>3. QED BY <1>7, <1>8, <2>1, <2>2 DEF Reader
<1>11. t.whole => social.whole /\ t.messages = social.messages /\ s.connected
  <2>1. t.whole => s.whole /\ Reading(s) /\ social.whole /\ s.messages = social.messages
    BY <1>7, <1>8, <1>10 DEF Reader
  <2>2. Reading(s) => CanRead(s) /\ s.connected
    BY DEF Reading
  <2>3. t.messages = emptied.messages
    BY <1>5, <1>7 DEF Like
  <2>4. QED BY <1>4, <2>1, <2>2, <2>3
<1>12. Talk' = Talk /\ (Reads(table)' <=> Reads(table))
  BY DEF Talk, Reads
<1>13. BadgeCounts(social)' /\ Reader(social)'
  <2>1. BadgeCounts(social)'
    BY <1>9, <1>12 DEF BadgeCounts, Theirs, t
  <2>2. Reader(social)'
    BY <1>10 DEF Reader, Shape, SocialFields, Reading, CanRead, t
  <2>3. QED BY <2>1, <2>2
<1>14. CASE s.connected
  <2>1. net'.down = net.down /\ social'.connected
    BY <1>1, <1>7, <1>14 DEF t
  <2>2. social'.whole => social.whole /\ social'.messages = social.messages
    BY <1>11 DEF t
  <2>3. QED BY <1>12, <1>13, <2>1, <2>2 DEF TalkInv
<1>15. CASE ~s.connected
  <2>1. net'.down = <<>> /\ ~social'.whole
    BY <1>1, <1>11, <1>15 DEF t
  <2>2. WholeAcks(net'.down, Talk) /\ ~PromisesWhole(net'.down) /\ net'.down \in Seq(Signals(Talk))
    BY <2>1 DEF WholeAcks, PromisesWhole
  <2>3. QED BY <1>12, <1>13, <2>1, <2>2 DEF TalkInv
<1>16. QED BY <1>14, <1>15

LEMMA ReadingWhole ==
    ASSUME SocialInv, TalkInv, Show \/ Collapse \/ Drop \/ Resume \/ SnapshotRead
    PROVE  TalkInv'
<1>1. Shape(social) /\ Reader(social) /\ BadgeCounts(social)
  BY DEF TalkInv, Reader
<1>2. ASSUME NEW s, s \in {[social EXCEPT !.shown = TRUE], [social EXCEPT !.connected = FALSE], [social EXCEPT !.connected = TRUE],
                          [social EXCEPT !.role = table.role, !.over = table.over]},
             Effects(s), UNCHANGED table
      PROVE  TalkInv'
  <2>1. /\ Shape(s) /\ s.connected \in BOOLEAN /\ s.whole = social.whole /\ s.history = social.history
        /\ s.messages = social.messages /\ s.seen = social.seen /\ s.read = social.read /\ s.unread = social.unread
    BY <1>1, <1>2 DEF Shape, SocialFields, Reader
  <2>2. BadgeCounts(s) /\ s.whole \in BOOLEAN
    BY <1>1, <2>1 DEF BadgeCounts, Reader
  <2>3. QED BY <1>2, <2>1, <2>2, EffectsWhole
<1>3. CASE Collapse
  <2> DEFINE s == Unmounted(social.role, social.over, social.connected)
  <2>1. Effects(s) /\ UNCHANGED table
    BY <1>3 DEF Collapse
  <2>2. /\ Shape(s) /\ s.connected = social.connected /\ ~s.whole /\ s.whole \in BOOLEAN /\ s.history = NoCommand
        /\ s.messages = {} /\ s.seen = {} /\ s.read = {} /\ s.unread = 0
    BY DEF Unmounted, Shape, SocialFields
  <2> HIDE DEF s
  <2>3. BadgeCounts(s)
    BY <2>2, NothingUnread DEF BadgeCounts
  <2>4. QED BY <1>1, <2>1, <2>2, <2>3, EffectsWhole DEF Reader
<1>4. CASE Show
  BY <1>2, <1>4 DEF Show
<1>5. CASE Drop
  BY <1>2, <1>5 DEF Drop
<1>6. CASE Resume
  BY <1>2, <1>6 DEF Resume
<1>7. CASE SnapshotRead
  BY <1>2, <1>7 DEF SnapshotRead
<1>8. QED BY <1>3, <1>4, <1>5, <1>6, <1>7

LEMMA LikeWhole ==
    ASSUME TalkInv, UNCHANGED table, net'.down = net.down, Like(social', social)
    PROVE  TalkInv'
<1>1. Reader(social') /\ BadgeCounts(social')
  BY LikeReader, LikeCounts DEF TalkInv
<1>2. QED BY <1>1, ClientKeeps DEF Like

LEMMA PanelWhole ==
    ASSUME TalkInv, OpenChat \/ CloseChat \/ Aim \/ ClosePokes \/ \E r \in social.flights : ReactionLanded(r)
    PROVE  TalkInv'
<1>1. Shape(social) /\ Reader(social) /\ BadgeCounts(social)
  BY DEF TalkInv, Reader
<1>2. CASE CloseChat \/ Aim \/ ClosePokes \/ \E r \in social.flights : ReactionLanded(r)
  <2>1. Like(social', social)
    <3>1. /\ Like([social EXCEPT !.open = FALSE], social) /\ Like([social EXCEPT !.aiming = FALSE], social)
          /\ \A flights : Like([social EXCEPT !.flights = flights], social)
      BY <1>1, ShowsLike
    <3>2. Like([social EXCEPT !.open = FALSE, !.aiming = TRUE], social)
      BY <1>1, ShowsBoth
    <3>3. \/ social' \in {[social EXCEPT !.open = FALSE], [social EXCEPT !.aiming = FALSE],
                          [social EXCEPT !.open = FALSE, !.aiming = TRUE]}
          \/ \E r : social' = [social EXCEPT !.flights = social.flights \ {r}]
      BY <1>2 DEF CloseChat, Aim, ClosePokes, ReactionLanded, ShowsSocial
    <3>4. QED BY <3>1, <3>2, <3>3
  <2>2. QED BY <1>2, <2>1, LikeWhole DEF CloseChat, Aim, ClosePokes, ReactionLanded, ShowsSocial
<1>3. CASE OpenChat
  <2>1. UNCHANGED <<table, net>> /\ social' = [social EXCEPT !.open = TRUE, !.aiming = FALSE, !.unread = 0, !.read = social.seen]
    BY <1>3 DEF OpenChat, ShowsSocial
  <2>2. /\ Shape(social') /\ social'.role = social.role /\ social'.over = social.over /\ social'.connected = social.connected
        /\ social'.shown = social.shown /\ social'.history = social.history /\ social'.whole = social.whole
        /\ social'.messages = social.messages /\ social'.unread = 0 /\ social'.read = social.seen /\ social'.seen = social.seen
    BY <1>1, <2>1 DEF Shape, SocialFields
  <2>3. BadgeCounts(social')
    BY <1>1, <2>2, NothingUnread DEF BadgeCounts
  <2>4. Reader(social')
    BY <1>1, <2>2 DEF Reader, Reading, CanRead
  <2>5. QED BY <2>1, <2>2, <2>3, <2>4, ClientKeeps
<1>4. QED BY <1>2, <1>3

\* A command under way, or no more.
LEMMA CommandLike ==
    ASSUME NEW s, Reader(s), NEW kind \in CommandKinds, NEW t, DOMAIN t = DOMAIN s,
           \A k \in SocialFields : k # kind => t[k] = s[k],
           t[kind] # NoCommand => s[kind] # NoCommand \/ kind # "history"
    PROVE  /\ Reader(t) /\ t.connected = s.connected /\ t.whole = s.whole /\ t.messages = s.messages
           /\ (BadgeCounts(s) => BadgeCounts(t))
<1>1. Shape(s)
  BY DEF Reader
<1>2. CASE kind = "history"
  <2>1. /\ Shape(t) /\ t.role = s.role /\ t.over = s.over /\ t.connected = s.connected /\ t.shown = s.shown
        /\ t.whole = s.whole /\ t.messages = s.messages /\ t.seen = s.seen /\ t.read = s.read /\ t.unread = s.unread
    BY <1>1, <1>2 DEF Shape, SocialFields
  <2>2. s["history"] = s.history /\ t["history"] = t.history
    OBVIOUS
  <2>3. QED BY <1>2, <2>1, <2>2 DEF Reader, Reading, CanRead, BadgeCounts
<1>3. CASE kind = "chat"
  <2>1. Like(t, s)
    BY <1>1, <1>3 DEF Like, Shape, SocialFields
  <2>2. QED BY <2>1, LikeReader, LikeCounts DEF Like
<1>4. CASE kind = "poke"
  <2>1. Like(t, s)
    BY <1>1, <1>4 DEF Like, Shape, SocialFields
  <2>2. QED BY <2>1, LikeReader, LikeCounts DEF Like
<1>5. QED BY <1>2, <1>3, <1>4 DEF CommandKinds

LEMMA CommandsWhole ==
    ASSUME SocialInv, TalkInv, SendMessage \/ SendReaction \/ \E kind \in CommandKinds : Resend(kind)
    PROVE  TalkInv'
<1>1. net'.down = net.down /\ UNCHANGED table
  <2>1. net = [up |-> net.up, down |-> net.down, sends |-> net.sends, reads |-> net.reads]
    BY SocialTypes
  <2>2. QED BY <2>1 DEF SendMessage, SendReaction, Issue, Resend
<1>2. PICK kind \in CommandKinds : \E c :
        social' = [social EXCEPT ![kind] = c] /\ (c # NoCommand => social[kind] # NoCommand \/ kind # "history")
  <2>1. CASE SendMessage \/ SendReaction
    BY <2>1 DEF SendMessage, SendReaction, Issue, CommandKinds
  <2>2. ASSUME NEW kind \in CommandKinds, Resend(kind)
        PROVE  \E c : social' = [social EXCEPT ![kind] = c] /\ (c # NoCommand => social[kind] # NoCommand)
    <3>1. social[kind] # NoCommand
      BY <2>2 DEF Resend
    <3>2. CASE social[kind].left > 0
      <4>1. social' = [social EXCEPT ![kind] = [social[kind] EXCEPT !.left = @ - 1]]
        BY <2>2, <3>2 DEF Resend
      <4>2. QED BY <3>1, <4>1
    <3>3. CASE ~(social[kind].left > 0)
      <4>1. social' = [social EXCEPT ![kind] = NoCommand]
        BY <2>2, <3>3 DEF Resend
      <4>2. QED BY <3>1, <4>1
    <3>4. QED BY <3>2, <3>3
  <2>3. QED BY <2>1, <2>2
<1>3. /\ Reader(social') /\ social'.connected = social.connected /\ social'.whole = social.whole
      /\ social'.messages = social.messages /\ BadgeCounts(social')
  <2>1. Reader(social) /\ BadgeCounts(social)
    BY DEF TalkInv
  <2>2. /\ DOMAIN social' = DOMAIN social /\ \A k \in SocialFields : k # kind => social'[k] = social[k]
        /\ social'[kind] # NoCommand => social[kind] # NoCommand \/ kind # "history"
    BY <1>2, <2>1 DEF Reader, Shape, SocialFields, CommandKinds
  <2>3. QED BY <2>1, <2>2, CommandLike
<1>4. QED BY <1>1, <1>3, ClientKeeps

-------------------------------------------------------------------------------
(* Messages that come *)

LEMMA AddMessagesCounts ==
    ASSUME SocialInv, NEW s, Reader(s), BadgeCounts(s), NEW ids, ids \subseteq Talk, NEW historical
    PROVE  LET t == AddMessages(s, ids, historical) IN
           /\ Reader(t) /\ BadgeCounts(t) /\ t.messages = s.messages \cup ids
           /\ t.connected = s.connected /\ t.whole = s.whole /\ t.history = s.history
<1> DEFINE t == AddMessages(s, ids, historical)
           fresh == Theirs(ids \ s.seen)
           counted == ~(historical \/ s.open)
<1> HIDE DEF t, fresh, counted
<1>1. t = [s EXCEPT !.messages = @ \cup ids, !.seen = @ \cup ids,
                    !.unread = IF counted THEN s.unread + Cardinality(fresh) ELSE s.unread,
                    !.read = IF counted THEN s.read ELSE s.read \cup (ids \ s.seen)]
  <2>1. t = [s EXCEPT !.messages = @ \cup ids, !.seen = @ \cup ids,
                      !.unread = IF historical \/ s.open THEN @ ELSE @ + Cardinality(fresh),
                      !.read = IF historical \/ s.open THEN @ \cup (ids \ s.seen) ELSE @]
    BY DEF AddMessages, fresh, t
  <2>2. QED BY <2>1 DEF Reader, Shape, SocialFields, counted
<1>2. /\ Shape(t) /\ t.role = s.role /\ t.over = s.over /\ t.connected = s.connected /\ t.shown = s.shown
      /\ t.whole = s.whole /\ t.history = s.history /\ t.messages = s.messages \cup ids /\ t.seen = s.seen \cup ids
      /\ t.unread = (IF counted THEN s.unread + Cardinality(fresh) ELSE s.unread)
      /\ t.read = (IF counted THEN s.read ELSE s.read \cup (ids \ s.seen))
  BY <1>1 DEF Reader, Shape, SocialFields
<1>3. Reader(t)
  BY <1>2 DEF Reader, Reading, CanRead
<1>4. BadgeCounts(t)
  <2> DEFINE before == Theirs(s.seen \ s.read)
  <2>1. before \subseteq Talk /\ fresh \subseteq Talk
    BY DEF BadgeCounts, Theirs, fresh
  <2>2. IsFiniteSet(before) /\ IsFiniteSet(fresh)
    BY <2>1, SocialTypes, FS_Subset
  <2>3. s.unread = Cardinality(before)
    BY DEF BadgeCounts
  <2>4. CASE counted
    <3>1. before \cap fresh = {} /\ Theirs(t.seen \ t.read) = before \cup fresh
      BY <1>2, <2>4 DEF BadgeCounts, Theirs, fresh
    <3> HIDE DEF before
    <3>2. t.unread = Cardinality(before \cup fresh)
      BY <1>2, <2>2, <2>3, <2>4, <3>1, CountedApart
    <3>3. QED BY <1>2, <2>4, <3>1, <3>2 DEF BadgeCounts
  <2>5. CASE ~counted
    <3>1. t.seen \ t.read = s.seen \ s.read
      BY <1>2, <2>5 DEF BadgeCounts
    <3>2. QED BY <1>2, <2>3, <2>5, <3>1 DEF BadgeCounts
  <2>6. QED BY <2>4, <2>5
<1>5. QED BY <1>2, <1>3, <1>4 DEF t

\* An acknowledgment makes the conversation whole when it answers the request for the history.
LEMMA AckedWhole ==
    ASSUME SocialInv, NEW s, Reader(s), BadgeCounts(s),
           NEW e \in [kind : {"ack"}, cmd : Nat, ok : BOOLEAN, ids : SUBSET Talk, whole : BOOLEAN],
           NEW t, t = Acked(s, e)
    PROVE  /\ Reader(t) /\ BadgeCounts(t) /\ t.connected = s.connected
           /\ \/ t.whole = s.whole /\ s.messages \subseteq t.messages
              \/ t.whole = e.whole /\ t.messages = s.messages \cup e.ids
<1> DEFINE first == AddMessages(s, e.ids, ~s.loaded)
           second == AddMessages(s, e.ids, FALSE)
<1>0. ASSUME NEW h
      PROVE  LET u == AddMessages(s, e.ids, h) IN
             /\ Reader(u) /\ BadgeCounts(u) /\ u.messages = s.messages \cup e.ids
             /\ u.connected = s.connected /\ u.whole = s.whole /\ u.history = s.history
  <2> DEFINE ids == e.ids
  <2>1. ids \subseteq Talk
    OBVIOUS
  <2> HIDE DEF ids
  <2>2. QED BY <2>1, AddMessagesCounts DEF ids
<1>1. /\ Reader(first) /\ BadgeCounts(first) /\ first.messages = s.messages \cup e.ids
      /\ first.connected = s.connected /\ first.whole = s.whole /\ first.history = s.history
  BY <1>0
<1>2. /\ Reader(second) /\ BadgeCounts(second) /\ second.messages = s.messages \cup e.ids
      /\ second.connected = s.connected /\ second.whole = s.whole
  BY <1>0
<1> HIDE DEF first, second
<1>3. CASE s.history # NoCommand /\ s.history.cmd = e.cmd /\ e.ok
  <2>1. t = [first EXCEPT !.history = NoCommand, !.loaded = TRUE, !.whole = e.whole]
    BY <1>3 DEF Acked, first
  <2>2. Reading(first)
    BY <1>1, <1>3 DEF Reader
  <2>3. /\ Shape(t) /\ t.role = first.role /\ t.over = first.over /\ t.connected = first.connected /\ t.shown = first.shown
        /\ t.whole = e.whole /\ t.history = NoCommand /\ t.messages = first.messages
        /\ t.seen = first.seen /\ t.read = first.read /\ t.unread = first.unread
    BY <1>1, <2>1 DEF Reader, Shape, SocialFields
  <2>4. Reader(t) /\ BadgeCounts(t)
    BY <1>1, <2>2, <2>3 DEF Reader, Reading, CanRead, BadgeCounts
  <2>5. QED BY <1>1, <2>3, <2>4
<1>4. ASSUME NEW kind \in CommandKinds, t = [s EXCEPT ![kind] = NoCommand] PROVE Reader(t) /\ BadgeCounts(t) /\ t.connected = s.connected /\ t.whole = s.whole /\ t.messages = s.messages
  <2>1. DOMAIN t = DOMAIN s /\ (\A k \in SocialFields : k # kind => t[k] = s[k]) /\ t[kind] = NoCommand
    BY <1>4 DEF Reader, Shape, SocialFields, CommandKinds
  <2>2. QED BY <2>1, CommandLike
<1>5. CASE t = [second EXCEPT !.chat = NoCommand]
  <2>1. Like(t, second)
    BY <1>2, <1>5, ShowsLike DEF Reader
  <2>2. QED BY <1>2, <2>1, LikeReader, LikeCounts DEF Like
<1>6. CASE t = [s EXCEPT !.poke = NoCommand, !.aiming = FALSE]
  <2>1. Like(t, s)
    <3>1. Shape(s)
      BY DEF Reader
    <3>2. Like([s EXCEPT !.poke = NoCommand, !.aiming = FALSE], s)
      BY <3>1, ShowsBoth
    <3>3. QED BY <1>6, <3>2
  <2>2. QED BY <2>1, LikeReader, LikeCounts DEF Like
<1>7. CASE t = s
  BY <1>7
<1>8. \/ s.history # NoCommand /\ s.history.cmd = e.cmd /\ e.ok
      \/ t = [s EXCEPT !["history"] = NoCommand] \/ t = [s EXCEPT !["chat"] = NoCommand] \/ t = [s EXCEPT !["poke"] = NoCommand]
      \/ t = [second EXCEPT !.chat = NoCommand] \/ t = [s EXCEPT !.poke = NoCommand, !.aiming = FALSE] \/ t = s
  BY DEF Acked, second
<1>9. "history" \in CommandKinds /\ "chat" \in CommandKinds /\ "poke" \in CommandKinds
  BY DEF CommandKinds
<1>10. QED BY <1>3, <1>4, <1>5, <1>6, <1>7, <1>8, <1>9

LEMMA TailKeeps ==
    ASSUME NEW S, NEW down \in Seq(S), down # <<>>, NEW ids, WholeAcks(down, ids)
    PROVE  /\ WholeAcks(Tail(down), ids) /\ Tail(down) \in Seq(S)
           /\ PromisesWhole(Tail(down)) => PromisesWhole(down)
<1>1. Len(Tail(down)) = Len(down) - 1 /\ Len(down) \in Nat \ {0} /\ Tail(down) \in Seq(S)
  OBVIOUS
<1>2. ASSUME NEW j \in DOMAIN Tail(down) PROVE j + 1 \in DOMAIN down /\ Tail(down)[j] = down[j + 1] /\ j \in Nat
  BY <1>1
<1>3. ASSUME NEW j \in DOMAIN Tail(down) PROVE After(Tail(down), j) = After(down, j + 1)
  BY <1>2, <1>3, AfterTail
<1>4. QED BY <1>1, <1>2, <1>3 DEF WholeAcks, PromisesWhole

\* The next signal is taken in: what it brings is in the conversation, if that is whole.
LEMMA TakenIn ==
    ASSUME TalkInv, UNCHANGED table, net.down # <<>>, net'.down = Tail(net.down),
           Reader(social'), BadgeCounts(social'), social'.connected = social.connected,
           social'.whole => Reads(table) /\ Talk = social'.messages \cup After(net.down, 1)
    PROVE  TalkInv'
<1> DEFINE all == Signals(Talk)
<1>1. net.down \in Seq(all) /\ WholeAcks(net.down, Talk) /\ social.connected
  BY DEF TalkInv, Reader
<1> HIDE DEF all
<1>2. /\ WholeAcks(Tail(net.down), Talk) /\ Tail(net.down) \in Seq(all)
      /\ PromisesWhole(Tail(net.down)) => PromisesWhole(net.down)
  BY <1>1, TailKeeps
<1>3. After(Tail(net.down), 0) = After(net.down, 1)
  <2>1. 0 \in Nat /\ 0 + 1 = 1
    OBVIOUS
  <2>2. After(Tail(net.down), 0) = After(net.down, 0 + 1)
    BY <1>1, <2>1, AfterTail
  <2>3. QED BY <2>1, <2>2
<1>4. Talk' = Talk /\ (Reads(table)' <=> Reads(table)) /\ BadgeCounts(social)'
  BY DEF Talk, Reads, BadgeCounts, Theirs
<1>5. Reader(social)'
  BY DEF Reader, Shape, SocialFields, Reading, CanRead
<1>6. QED BY <1>1, <1>2, <1>3, <1>4, <1>5 DEF TalkInv, all

LEMMA ReceiveWhole == ASSUME SocialInv, TalkInv, Receive PROVE TalkInv'
<1> DEFINE e == Head(net.down)
           down == net.down
           all == Signals(Talk)
<1>1. /\ down # <<>> /\ UNCHANGED table /\ net'.down = Tail(down)
  <2>1. net = [up |-> net.up, down |-> net.down, sends |-> net.sends, reads |-> net.reads]
    BY SocialTypes
  <2>2. QED BY <2>1 DEF Receive
<1>2. down \in Seq(all) /\ Reader(social) /\ BadgeCounts(social) /\ WholeAcks(down, Talk)
  BY DEF TalkInv
<1>3. e \in all /\ e = down[1] /\ 1 \in DOMAIN down
  <2> HIDE DEF all
  <2>1. QED BY <1>1, <1>2
<1>4. After(down, 0) = After(down, 1) \cup IF e.kind = "message" THEN {e.id} ELSE {}
  <2> HIDE DEF all
  <2>1. QED BY <1>1, <1>2, AfterHead
<1>5. social.whole => Reads(table) /\ Talk = social.messages \cup After(down, 0)
  BY DEF TalkInv
<1> HIDE DEF down
<1>6. CASE e.kind = "ack"
  <2>1. e \in [kind : {"ack"}, cmd : Nat, ok : BOOLEAN, ids : SUBSET Talk, whole : BOOLEAN]
    BY <1>3, <1>6 DEF Signals
  <2>2. social' = Acked(social, e)
    BY <1>6 DEF Receive, down
  <2> DEFINE t == social'
  <2>3. t = Acked(social, e)
    BY <2>2
  <2> HIDE DEF t, e
  <2>4. /\ Reader(t) /\ BadgeCounts(t) /\ t.connected = social.connected
        /\ \/ t.whole = social.whole /\ social.messages \subseteq t.messages
           \/ t.whole = e.whole /\ t.messages = social.messages \cup e.ids
    BY <1>2, <2>1, <2>3, AckedWhole
  <2>5. t.whole => Reads(table) /\ Talk = t.messages \cup After(down, 1)
    <3>1. t.messages \subseteq Talk
      BY <2>4 DEF BadgeCounts
    <3>2. CASE t.whole = social.whole /\ social.messages \subseteq t.messages
      <4>1. social.whole => Talk = social.messages \cup After(down, 1)
        BY <1>4, <1>5, <1>6
      <4>2. QED BY <1>5, <3>1, <3>2, <4>1
    <3>3. CASE t.whole = e.whole /\ t.messages = social.messages \cup e.ids
      <4>1. e.whole => Talk = e.ids \cup After(down, 1) /\ PromisesWhole(down)
        BY <1>2, <1>3, <1>6 DEF WholeAcks, PromisesWhole
      <4>2. e.whole => Reads(table)
        BY <4>1 DEF TalkInv, down
      <4>3. QED BY <3>1, <3>3, <4>1, <4>2
    <3>4. QED BY <2>4, <3>2, <3>3
  <2>6. QED BY <1>1, <2>4, <2>5, TakenIn DEF t, down
<1>7. CASE e.kind = "reaction"
  <2>1. social' = Flown(social, e.id)
    BY <1>7 DEF Receive, down
  <2>2. Like(social', social)
    <3>1. Shape(social) /\ Like(social, social)
      BY <1>2 DEF Reader, Like
    <3>2. \A flights, flown : Like([social EXCEPT !.flights = flights, !.flown = flown], social)
      BY <3>1, ShowsBoth
    <3>3. QED BY <2>1, <3>1, <3>2 DEF Flown
  <2>3. Reader(social') /\ BadgeCounts(social')
    BY <1>2, <2>2, LikeReader, LikeCounts
  <2>4. QED BY <1>1, <1>4, <1>5, <1>7, <2>2, <2>3, TakenIn DEF Like, down
<1>8. CASE e.kind = "message"
  <2>1. e.id \in Talk
    BY <1>3, <1>8 DEF Signals
  <2>2. CASE Reading(social)
    <3> DEFINE t == social'
               ids == {e.id}
    <3>1. t = AddMessages(social, ids, FALSE)
      BY <1>8, <2>2 DEF Receive, down
    <3>2. ids \subseteq Talk
      BY <2>1
    <3> HIDE DEF t, ids
    <3>3. Reader(social) /\ BadgeCounts(social)
      BY <1>2
    <3>4. Reader(t) /\ BadgeCounts(t) /\ t.messages = social.messages \cup ids /\ t.connected = social.connected /\ t.whole = social.whole
      <4>1. PICK h : t = AddMessages(social, ids, h)
        BY <3>1, Zenon
      <4>2. LET u == AddMessages(social, ids, h) IN
              /\ Reader(u) /\ BadgeCounts(u) /\ u.messages = social.messages \cup ids
              /\ u.connected = social.connected /\ u.whole = social.whole
        BY <3>2, <3>3, AddMessagesCounts
      <4>3. QED BY <4>1, <4>2
    <3>5. t.whole => Reads(table) /\ Talk = t.messages \cup After(down, 1)
      BY <1>4, <1>5, <1>8, <3>4 DEF ids
    <3>6. QED BY <1>1, <3>4, <3>5, TakenIn DEF t, down
  <2>3. CASE ~Reading(social)
    <3>1. social' = social
      BY <1>8, <2>3 DEF Receive, down
    <3>2. ~social.whole
      BY <1>2, <2>3 DEF Reader
    <3>3. QED BY <1>1, <1>2, <3>1, <3>2, TakenIn DEF down
  <2>4. QED BY <2>2, <2>3
<1>9. QED BY <1>3, <1>6, <1>7, <1>8 DEF Signals

LEMMA AfterOne ==
    ASSUME NEW signal
    PROVE  /\ After(<<signal>>, 0) = IF signal.kind = "message" THEN {signal.id} ELSE {}
           /\ After(<<signal>>, 1) = {} /\ After(<<>>, 0) = {}
<1>1. DOMAIN <<signal>> = {1} /\ <<signal>>[1] = signal /\ DOMAIN <<>> = {}
  OBVIOUS
<1>2. 0 < 1 /\ ~(1 < 1)
  OBVIOUS
<1>3. QED BY <1>1, <1>2 DEF After

\* The server pushes what is said, and answers whoever asked.
LEMMA HistoryAnswered ==
    ASSUME TalkInv, TalkLater, UNCHANGED social, Reads(table') <=> Reads(table),
           NEW spoken \in Seq(Signals(Talk')), \A i \in DOMAIN spoken : spoken[i].kind # "ack",
           NEW ack \in [kind : {"ack"}, cmd : Nat, ok : BOOLEAN, ids : SUBSET Talk', whole : BOOLEAN], NEW heard,
           net'.down = Push(net.down, spoken \o (IF heard THEN <<ack>> ELSE <<>>)),
           ack.whole => Reads(table) /\ ack.ids = Talk',
           Reads(table) /\ social.connected => Talk' = Talk \cup After(spoken, 0)
    PROVE  TalkInv'
<1> DEFINE all == Signals(Talk')
           answer == IF heard THEN <<ack>> ELSE <<>>
           both == spoken \o answer
<1>1. ack \in all /\ ack.kind = "ack"
  BY DEF Signals
<1>2. spoken \in Seq(all) /\ answer \in Seq(all) /\ answer \in {<<ack>>, <<>>}
  BY <1>1
<1>3. net'.down = Push(net.down, both)
  OBVIOUS
<1>4. After(answer, 0) = {} /\ (answer = <<ack>> => After(answer, 1) = {})
  BY <1>1, AfterOne
<1> HIDE DEF all, answer
<1>5. both \in Seq(all) /\ Len(spoken) \in Nat /\ DOMAIN spoken = 1 .. Len(spoken)
  BY <1>2
<1>6. /\ \A n \in 0 .. Len(spoken) : After(both, n) = After(spoken, n) \cup After(answer, 0)
      /\ \A n \in Nat : After(both, Len(spoken) + n) = After(answer, n)
  <2>1. \A d, e \in Seq(all) : /\ \A n \in 0 .. Len(d) : After(d \o e, n) = After(d, n) \cup After(e, 0)
                               /\ \A n \in Nat : After(d \o e, Len(d) + n) = After(e, n)
    BY AfterJoined
  <2>2. QED BY <1>2, <2>1, Zenon
<1>7. After(both, 0) = After(spoken, 0)
  <2> HIDE DEF both
  <2>1. 0 \in 0 .. Len(spoken)
    BY <1>5
  <2>2. After(both, 0) = After(spoken, 0) \cup After(answer, 0)
    BY <1>6, <2>1
  <2>3. QED BY <1>4, <2>2
<1>8. ASSUME NEW i \in DOMAIN both, both[i].kind = "ack" PROVE both[i] = ack /\ After(both, i) = {}
  <2>1. CASE answer = <<>>
    BY <1>2, <1>8, <2>1
  <2>2. CASE answer = <<ack>>
    <3>1. DOMAIN both = 1 .. (Len(spoken) + 1)
      BY <1>2, <2>2
    <3>2. CASE i = Len(spoken) + 1
      <4>1. both[Len(spoken) + 1] = ack
        BY <1>2, <2>2
      <4>2. After(both, Len(spoken) + 1) = After(answer, 1)
        BY <1>6
      <4>3. QED BY <1>4, <2>2, <3>2, <4>1, <4>2
    <3>3. CASE i # Len(spoken) + 1
      <4>1. i \in DOMAIN spoken
        BY <1>5, <3>1, <3>3
      <4>2. both[i] = spoken[i]
        BY <1>2, <2>2, <4>1
      <4>3. QED BY <1>8, <4>1, <4>2
    <3>4. QED BY <3>2, <3>3
  <2>3. QED BY <1>2, <2>1, <2>2
<1> HIDE DEF both
<1>9. WholeAcks(both, Talk') /\ (PromisesWhole(both) => Reads(table))
  BY <1>8 DEF WholeAcks, PromisesWhole
<1>10. both \in Seq(Signals(Talk'))
  BY <1>5 DEF all
<1>11. Reads(table) /\ social.connected => Talk' = Talk \cup After(both, 0)
  BY <1>7
<1>12. QED BY <1>3, <1>9, <1>10, <1>11, PushKeeps

\* One more message.
LEMMA SaidMore ==
    ASSUME SocialInv, TableTypes(table'), NEW e, table'.talk = Append(table.talk, e)
    PROVE  /\ TalkLater /\ Len(table'.talk) \in Talk' /\ Talk' = Talk \cup {Len(table'.talk)}
           /\ <<Message(table')>> \in Seq(Signals(Talk'))
           /\ After(<<Message(table')>>, 0) = {Len(table'.talk)} /\ Message(table').kind = "message"
<1>1. table.talk \in Seq(TalkEntries) /\ Len(table.talk) \in Nat
  BY SocialTypes
<1>2. /\ Len(table'.talk) = Len(table.talk) + 1
      /\ \A i \in 1 .. Len(table.talk) : table'.talk[i] = table.talk[i]
  BY <1>1
<1>3. Talk' = 1 .. (Len(table.talk) + 1)
  BY <1>2 DEF Talk
<1>4. Len(table'.talk) \in Talk' /\ Talk' = Talk \cup {Len(table'.talk)} /\ Talk \subseteq Talk'
  BY <1>1, <1>2, <1>3 DEF Talk
<1>5. TalkLater
  BY <1>2, <1>4 DEF TalkLater, Talk
<1>6. /\ Message(table').kind = "message" /\ Message(table').id = Len(table'.talk)
      /\ Message(table') \in Signals(Talk')
  BY <1>4 DEF Message, Signals
<1>7. After(<<Message(table')>>, 0) = {Len(table'.talk)}
  BY <1>6, AfterOne
<1>8. <<Message(table')>> \in Seq(Signals(Talk'))
  BY <1>6
<1>9. QED BY <1>4, <1>5, <1>6, <1>7, <1>8

LEMMA OtherSaysWhole == ASSUME SocialInv, TalkInv, OtherSays PROVE TalkInv'
<1>1. TableTypes(table')
  <2>1. SocialInv'
    BY OtherSaysKeeps
  <2>2. QED BY <2>1 DEF SocialInv
<1>2. table'.talk = Append(table.talk, [by |-> "other", cmd |-> 0]) /\ (Reads(table') <=> Reads(table)) /\ UNCHANGED social
  <2>1. table = [talk |-> table.talk, pokes |-> table.pokes, receipts |-> table.receipts, role |-> table.role, over |-> table.over]
    BY SocialTypes
  <2>2. QED BY <2>1 DEF OtherSays, Reads
<1> DEFINE events == IF Reads(table) THEN <<Message(table')>> ELSE <<>>
<1>3. net'.down = Push(net.down, events)
  <2>1. net = [up |-> net.up, down |-> net.down, sends |-> net.sends, reads |-> net.reads] /\ net.down \in Seq(Signals(Talk))
    BY SocialTypes DEF TalkInv
  <2>2. net'.down = IF Reads(table) THEN Push(net.down, <<Message(table')>>) ELSE net.down
    BY <2>1 DEF OtherSays
  <2>3. net.down \o <<>> = net.down
    BY <2>1
  <2>4. QED BY <2>2, <2>3 DEF Push
<1>4. /\ TalkLater /\ Talk' = Talk \cup {Len(table'.talk)} /\ <<Message(table')>> \in Seq(Signals(Talk'))
      /\ After(<<Message(table')>>, 0) = {Len(table'.talk)} /\ Message(table').kind = "message"
  BY <1>1, <1>2, SaidMore
<1>5. events \in Seq(Signals(Talk'))
  <2> DEFINE signals == Signals(Talk')
             one == <<Message(table')>>
  <2>1. one \in Seq(signals)
    BY <1>4
  <2>2. <<>> \in Seq(signals)
    OBVIOUS
  <2> HIDE DEF signals, one
  <2>3. (IF Reads(table) THEN one ELSE <<>>) \in Seq(signals)
    BY <2>1, <2>2
  <2>4. QED BY <2>3 DEF signals, one
<1>6. \A i \in DOMAIN events : events[i].kind # "ack"
  BY <1>4
<1>7. WholeAcks(events, Talk') /\ ~PromisesWhole(events)
  <2> HIDE DEF events
  <2>1. QED BY <1>6 DEF WholeAcks, PromisesWhole
<1>8. Reads(table) /\ social.connected => Talk' = Talk \cup After(events, 0)
  BY <1>4
<1> HIDE DEF events
<1>9. QED BY <1>2, <1>3, <1>4, <1>5, <1>7, <1>8, PushKeeps

LEMMA ServeWhole == ASSUME SocialInv, TalkInv, NEW c \in net.up, ServeCommand(c) PROVE TalkInv'
<1>1. TableTypes(table') /\ c.cmd \in Nat
  <2>1. SocialInv'
    BY SocialServeKeeps
  <2>2. QED BY <2>1 DEF SocialInv, NetTypes, Packets
<1>2. /\ table = [talk |-> table.talk, pokes |-> table.pokes, receipts |-> table.receipts, role |-> table.role, over |-> table.over]
      /\ net = [up |-> net.up, down |-> net.down, sends |-> net.sends, reads |-> net.reads]
      /\ table.pokes \in Seq(Nat)
  BY SocialTypes
<1>3. UNCHANGED social
  BY DEF ServeCommand
<1>4. /\ <<>> \in Seq(Signals(Talk')) /\ After(<<>>, 0) = {} /\ (\A i \in DOMAIN <<>> : <<>>[i].kind # "ack")
      /\ (table' = table => TalkLater /\ Talk' = Talk /\ (Reads(table') <=> Reads(table)))
  <2>1. <<>> \in Seq(Signals(Talk')) /\ (\A i \in DOMAIN <<>> : <<>>[i].kind # "ack")
    OBVIOUS
  <2>2. After(<<>>, 0) = {}
    BY AfterOne
  <2>3. table' = table => TalkLater /\ Talk' = Talk /\ (Reads(table') <=> Reads(table))
    BY <1>1 DEF TalkLater, Talk
  <2>4. QED BY <2>1, <2>2, <2>3
<1>5. ASSUME NEW ok \in BOOLEAN, NEW ids, ids \subseteq Talk, table' = table, NEW whole \in BOOLEAN, whole => Reads(table) /\ ids = Talk,
             net'.down = Push(net.down, <<>> \o (IF c.heard THEN <<Ack(c, ok, ids, whole)>> ELSE <<>>))
      PROVE  TalkInv'
  <2> DEFINE ack == Ack(c, ok, ids, whole)
             heard == c.heard
  <2>1. /\ ack \in [kind : {"ack"}, cmd : Nat, ok : BOOLEAN, ids : SUBSET Talk', whole : BOOLEAN]
        /\ ack.whole = whole /\ ack.ids = ids
    BY <1>1, <1>4, <1>5 DEF Ack
  <2>2. net'.down = Push(net.down, <<>> \o (IF heard THEN <<ack>> ELSE <<>>))
    BY <1>5
  <2> HIDE DEF ack, heard
  <2>3. QED BY <1>3, <1>4, <1>5, <2>1, <2>2, HistoryAnswered
<1>6. CASE c.kind = "history" /\ Reads(table)
           /\ net'.down = Push(net.down, <<>> \o (IF c.heard THEN <<Ack(c, TRUE, Talk, TRUE)>> ELSE <<>>)) /\ UNCHANGED table
  BY <1>5, <1>6
<1>7. CASE net'.down = Push(net.down, <<>> \o (IF c.heard THEN <<Ack(c, TRUE, Receipt(c), FALSE)>> ELSE <<>>)) /\ UNCHANGED table
  <2>1. Receipt(c) \subseteq Talk
    BY DEF Receipt
  <2>2. QED BY <1>5, <1>7, <2>1
<1>8. CASE /\ table' = [table EXCEPT !.talk = Append(@, [by |-> "me", cmd |-> c.cmd]), !.receipts = @ \cup {c.cmd}]
           /\ net'.down = Push(net.down, <<Message(table')>> \o (IF c.heard THEN <<Ack(c, TRUE, {Len(table'.talk)}, FALSE)>> ELSE <<>>))
  <2>1. table'.talk = Append(table.talk, [by |-> "me", cmd |-> c.cmd]) /\ (Reads(table') <=> Reads(table))
    BY <1>2, <1>8 DEF Reads
  <2>2. /\ TalkLater /\ Talk' = Talk \cup {Len(table'.talk)} /\ <<Message(table')>> \in Seq(Signals(Talk'))
        /\ After(<<Message(table')>>, 0) = {Len(table'.talk)} /\ Message(table').kind = "message" /\ Len(table'.talk) \in Talk'
    BY <1>1, <2>1, SaidMore
  <2> DEFINE spoken == <<Message(table')>>
             ack == Ack(c, TRUE, {Len(table'.talk)}, FALSE)
             heard == c.heard
  <2>3. /\ spoken \in Seq(Signals(Talk')) /\ (\A i \in DOMAIN spoken : spoken[i].kind # "ack")
        /\ Talk' = Talk \cup After(spoken, 0)
    BY <2>2
  <2>4. ack \in [kind : {"ack"}, cmd : Nat, ok : BOOLEAN, ids : SUBSET Talk', whole : BOOLEAN] /\ ~ack.whole
    BY <1>1, <2>2 DEF Ack
  <2>5. net'.down = Push(net.down, spoken \o (IF heard THEN <<ack>> ELSE <<>>))
    BY <1>8
  <2> HIDE DEF spoken, ack, heard
  <2>6. QED BY <1>3, <2>1, <2>2, <2>3, <2>4, <2>5, HistoryAnswered
<1>9. CASE /\ table' = [table EXCEPT !.pokes = Append(@, c.cmd), !.receipts = @ \cup {c.cmd}]
           /\ net'.down = Push(net.down, <<[kind |-> "reaction", id |-> Len(table'.pokes)]>>
                                         \o (IF c.heard THEN <<Ack(c, TRUE, {}, FALSE)>> ELSE <<>>))
  <2>1. table'.talk = table.talk /\ (Reads(table') <=> Reads(table)) /\ Len(table'.pokes) \in Nat
    BY <1>1, <1>2, <1>9 DEF Reads
  <2>2. TalkLater /\ Talk' = Talk
    BY <1>1, <2>1 DEF TalkLater, Talk
  <2> DEFINE spoken == <<[kind |-> "reaction", id |-> Len(table'.pokes)]>>
             ack == Ack(c, TRUE, {}, FALSE)
             heard == c.heard
  <2>3. spoken \in Seq(Signals(Talk')) /\ (\A i \in DOMAIN spoken : spoken[i].kind # "ack")
    BY <2>1 DEF Signals
  <2>4. After(spoken, 0) = {}
    BY AfterOne
  <2>5. ack \in [kind : {"ack"}, cmd : Nat, ok : BOOLEAN, ids : SUBSET Talk', whole : BOOLEAN] /\ ~ack.whole
    BY <1>1 DEF Ack
  <2>6. net'.down = Push(net.down, spoken \o (IF heard THEN <<ack>> ELSE <<>>))
    BY <1>9
  <2> HIDE DEF spoken, ack, heard
  <2>7. QED BY <1>3, <2>1, <2>2, <2>3, <2>4, <2>5, <2>6, HistoryAnswered
<1>10. CASE net'.down = Push(net.down, <<>> \o (IF c.heard THEN <<Ack(c, FALSE, {}, FALSE)>> ELSE <<>>)) /\ UNCHANGED table
  BY <1>5, <1>10
<1> DEFINE Sent(signals) == net' = [net EXCEPT !.up = @ \ {c}, !.down = Push(@, signals)]
           Answer(ack) == IF c.heard THEN <<ack>> ELSE <<>>
<1>11. ASSUME NEW signals, Sent(signals) PROVE net'.down = Push(net.down, signals)
  BY <1>2, <1>11
<1>12. \/ c.kind = "history" /\ Reads(table) /\ Sent(<<>> \o Answer(Ack(c, TRUE, Talk, TRUE))) /\ UNCHANGED table
       \/ Sent(<<>> \o Answer(Ack(c, TRUE, Receipt(c), FALSE))) /\ UNCHANGED table
       \/ /\ table' = [table EXCEPT !.talk = Append(@, [by |-> "me", cmd |-> c.cmd]), !.receipts = @ \cup {c.cmd}]
          /\ Sent(<<Message(table')>> \o Answer(Ack(c, TRUE, {Len(table'.talk)}, FALSE)))
       \/ /\ table' = [table EXCEPT !.pokes = Append(@, c.cmd), !.receipts = @ \cup {c.cmd}]
          /\ Sent(<<[kind |-> "reaction", id |-> Len(table'.pokes)]>> \o Answer(Ack(c, TRUE, {}, FALSE)))
       \/ Sent(<<>> \o Answer(Ack(c, FALSE, {}, FALSE))) /\ UNCHANGED table
  BY Zenon DEF ServeCommand
<1>13. QED
  <2> HIDE DEF Sent
  <2>1. QED BY <1>6, <1>7, <1>8, <1>9, <1>10, <1>11, <1>12

\* Without a seat, a queue or a game nobody reads on: whatever was whole may not be any more.
LEMMA SeatWhole == ASSUME SocialInv, TalkInv, SeatChanges PROVE TalkInv'
<1> DEFINE reads == Reads(table')
           down == net.down
           downNew == [i \in DOMAIN down |->
                         IF down[i].kind = "ack" THEN [down[i] EXCEPT !.whole = down[i].whole /\ reads] ELSE down[i]]
<1>1. /\ table'.talk = table.talk /\ net'.down = downNew /\ reads \in BOOLEAN
      /\ social' = [social EXCEPT !.whole = @ /\ reads]
  <2>1. table'.talk = table.talk
    BY SocialTypes DEF SeatChanges
  <2>2. net' = [net EXCEPT !.down = downNew] /\ social' = [social EXCEPT !.whole = @ /\ reads]
    BY Zenon DEF SeatChanges
  <2>3. net'.down = downNew
    <3> HIDE DEF downNew
    <3>1. QED BY <2>2, SocialTypes
  <2>4. QED BY <2>1, <2>2, <2>3 DEF Reads
<1>2. /\ down \in Seq(Signals(Talk)) /\ DOMAIN down = 1 .. Len(down) /\ Len(down) \in Nat /\ WholeAcks(down, Talk)
      /\ Reader(social) /\ BadgeCounts(social)
  BY DEF TalkInv
<1>3. Talk' = Talk
  BY <1>1 DEF Talk
<1> HIDE DEF reads
<1>4. ASSUME NEW i \in DOMAIN down
      PROVE  /\ downNew[i] \in Signals(Talk) /\ downNew[i].kind = down[i].kind
             /\ down[i].kind = "ack" => downNew[i].ids = down[i].ids /\ downNew[i].whole = (down[i].whole /\ reads)
             /\ down[i].kind # "ack" => downNew[i] = down[i]
  <2>1. down[i] \in Signals(Talk)
    BY <1>2
  <2>2. CASE down[i].kind = "ack"
    <3> DEFINE d == down[i]
               whole == d.whole /\ reads
    <3>1. d \in [kind : {"ack"}, cmd : Nat, ok : BOOLEAN, ids : SUBSET Talk, whole : BOOLEAN]
      BY <2>1, <2>2 DEF Signals
    <3>2. whole \in BOOLEAN /\ downNew[i] = [d EXCEPT !.whole = whole]
      BY <1>1, <2>2, <3>1
    <3> HIDE DEF d, whole, downNew
    <3>3. downNew[i] \in [kind : {"ack"}, cmd : Nat, ok : BOOLEAN, ids : SUBSET Talk, whole : BOOLEAN]
          /\ downNew[i].ids = d.ids /\ downNew[i].whole = whole
      BY <3>1, <3>2
    <3>4. QED BY <2>2, <3>3 DEF Signals, d, whole
  <2>3. CASE down[i].kind # "ack"
    BY <2>1, <2>3
  <2>4. QED BY <2>2, <2>3
<1>5. DOMAIN downNew = DOMAIN down
  OBVIOUS
<1>6. downNew \in Seq(Signals(Talk))
  <2>1. downNew \in [1 .. Len(down) -> Signals(Talk)]
    BY <1>2, <1>4
  <2> HIDE DEF downNew
  <2>2. QED BY <1>2, <2>1
<1>7. downNew = <<>> <=> down = <<>>
  <2> HIDE DEF downNew
  <2>1. QED BY <1>2, <1>5, <1>6
<1> HIDE DEF downNew
<1>8. \A n : After(downNew, n) = After(down, n)
  BY <1>4, <1>5 DEF After
<1>9. WholeAcks(downNew, Talk) /\ (PromisesWhole(downNew) => reads)
  BY <1>2, <1>4, <1>5, <1>8 DEF WholeAcks, PromisesWhole
<1> DEFINE whole == social.whole /\ reads
<1>10. social' = [social EXCEPT !.whole = whole] /\ whole \in BOOLEAN
  BY <1>1, <1>2 DEF Reader
<1> HIDE DEF whole
<1> DEFINE t == social'
<1>11. t = [social EXCEPT !.whole = whole]
  BY <1>10
<1> HIDE DEF t
<1>12. /\ Shape(t) /\ t.role = social.role /\ t.over = social.over /\ t.connected = social.connected
       /\ t.shown = social.shown /\ t.history = social.history /\ t.whole = whole
       /\ t.messages = social.messages /\ t.seen = social.seen /\ t.read = social.read /\ t.unread = social.unread
  BY <1>2, <1>11 DEF Reader, Shape, SocialFields
<1>13. Reader(t)
  BY <1>2, <1>10, <1>12 DEF Reader, Reading, CanRead, whole
<1>14. Reader(social)' /\ BadgeCounts(social)'
  <2>1. Reader(social)'
    BY <1>13 DEF t, Reader, Shape, SocialFields, Reading, CanRead
  <2>2. BadgeCounts(social)'
    BY <1>1, <1>2, <1>3, <1>12 DEF t, BadgeCounts, Theirs
  <2>3. QED BY <2>1, <2>2
<1>15. /\ social'.connected = social.connected /\ social'.messages = social.messages
       /\ social'.whole => social.whole /\ reads
  BY <1>12 DEF t, whole
<1>16. net'.down \in Seq(Signals(Talk')) /\ (~social'.connected => net'.down = <<>>)
  BY <1>1, <1>3, <1>6, <1>7, <1>15 DEF TalkInv
<1>17. social'.whole \/ PromisesWhole(net'.down) => Reads(table')
  BY <1>1, <1>9, <1>15 DEF reads
<1>18. WholeAcks(net'.down, Talk') /\ (social'.whole => Talk' = social'.messages \cup After(net'.down, 0))
  BY <1>1, <1>3, <1>8, <1>9, <1>15 DEF TalkInv
<1>19. QED BY <1>14, <1>16, <1>17, <1>18 DEF TalkInv

LEMMA TalkInitially == SocialInit => TalkInv
<1> SUFFICES ASSUME SocialInit PROVE TalkInv
  OBVIOUS
<1>1. net.down = <<>> /\ Talk = {} /\ social = Unmounted("seated", FALSE, TRUE)
  BY DEF SocialInit, Talk
<1>2. /\ Shape(social) /\ social.connected = TRUE /\ social.whole = FALSE /\ social.history = NoCommand /\ social.messages = {}
      /\ social.seen = {} /\ social.read = {} /\ social.unread = 0
  BY <1>1 DEF Unmounted, Shape, SocialFields
<1>3. Reader(social)
  BY <1>2 DEF Reader
<1>4. BadgeCounts(social)
  BY <1>2, NothingUnread DEF BadgeCounts
<1>5. net.down \in Seq(Signals(Talk)) /\ WholeAcks(net.down, Talk) /\ ~PromisesWhole(net.down)
  BY <1>1 DEF WholeAcks, PromisesWhole
<1>6. QED BY <1>2, <1>3, <1>4, <1>5 DEF TalkInv

LEMMA WholeStep == SocialInv /\ TalkInv /\ [SocialNext]_socialVars => TalkInv'
<1> SUFFICES ASSUME SocialInv, TalkInv, [SocialNext]_socialVars PROVE TalkInv'
  OBVIOUS
<1>1. CASE UNCHANGED socialVars
  <2>1. Like(social', social)
    BY <1>1 DEF TalkInv, Reader, Like, Shape, socialVars
  <2>2. QED BY <1>1, <2>1, LikeWhole DEF socialVars
<1>2. CASE Show \/ Collapse \/ Drop \/ Resume \/ SnapshotRead
  BY <1>2, ReadingWhole
<1>3. CASE OpenChat \/ CloseChat \/ Aim \/ ClosePokes \/ \E r \in social.flights : ReactionLanded(r)
  BY <1>3, PanelWhole
<1>4. CASE SendMessage \/ SendReaction \/ \E kind \in CommandKinds : Resend(kind)
  BY <1>4, CommandsWhole
<1>5. ASSUME NEW c \in net.up, ServeCommand(c) PROVE TalkInv'
  BY <1>5, ServeWhole
<1>6. CASE Receive \/ OtherSays \/ SeatChanges
  BY <1>6, ReceiveWhole, OtherSaysWhole, SeatWhole
<1>7. QED BY <1>1, <1>2, <1>3, <1>4, <1>5, <1>6 DEF SocialNext

\* Once the history has come, and until reading is interrupted, no message is missing from the conversation
\* but those still on their way, however the pushes and the answers cross.
THEOREM ConversationWhole == SocialSpec => []TalkComplete
<1>1. TalkInv => TalkComplete
  <2> SUFFICES ASSUME TalkInv, social.whole
               PROVE  Talk = social.messages \cup {e.id : e \in {net.down[i] : i \in DOMAIN net.down} \cap [kind : {"message"}, id : Talk]}
    BY DEF TalkComplete
  <2> DEFINE down == net.down
             coming == {e.id : e \in {down[i] : i \in DOMAIN down} \cap [kind : {"message"}, id : Talk]}
  <2>1. Talk = social.messages \cup After(down, 0) /\ down \in Seq(Signals(Talk))
    BY DEF TalkInv
  <2>2. DOMAIN down = 1 .. Len(down) /\ Len(down) \in Nat /\ \A i \in DOMAIN down : down[i] \in Signals(Talk)
    BY <2>1
  <2> HIDE DEF down
  <2>3. \A i \in DOMAIN down : down[i].kind = "message" <=> down[i] \in [kind : {"message"}, id : Talk]
    BY <2>2 DEF Signals
  <2>4. After(down, 0) = coming
    BY <2>2, <2>3 DEF After
  <2>5. QED BY <2>1, <2>4 DEF down
<1>2. QED BY <1>1, SocialInitially, SocialStep, TalkInitially, WholeStep, PTL DEF SocialSpec

\* The badge of the chat counts every message of somebody else that came while the chat was closed, once.
THEOREM BadgeCountsUnread == SocialSpec => []UnreadIsMissed
<1>1. TalkInv => UnreadIsMissed
  BY DEF TalkInv, BadgeCounts, UnreadIsMissed
<1>2. QED BY <1>1, SocialInitially, SocialStep, TalkInitially, WholeStep, PTL DEF SocialSpec

-------------------------------------------------------------------------------
(* The chat of a room *)

\* What is on the screen is the history that was taken last, all of it was said, and what was read is
\* part of it; a history under way holds no less; and an open chat has nothing unread.
ChatInv ==
    /\ talk = [by |-> talk.by, paused |-> talk.paused] /\ talk.by \in Seq({"me", "other"})
    /\ chat = [open |-> chat.open, blocked |-> chat.blocked, unread |-> chat.unread, messages |-> chat.messages,
               previous |-> chat.previous, draft |-> chat.draft, connected |-> chat.connected]
    /\ chat.previous = <<>> \/ chat.previous = <<chat.messages>>
    /\ chat.previous = <<>> => chat.messages = {}
    /\ chat.messages \subseteq TalkIds /\ read \subseteq chat.messages
    /\ poll # NoRequest /\ poll.phase = "told" => chat.messages \subseteq poll.ids /\ poll.ids \subseteq TalkIds
    /\ chat.open => read = chat.messages
    /\ RoomUnreadIsMissed

\* The messages of others that came between a history and a later one.
LEMMA OthersCounted ==
    ASSUME ChatInv, NEW ids, chat.messages \subseteq ids, ids \subseteq TalkIds
    PROVE  Cardinality(OthersIn(ids \ read)) = chat.unread + Cardinality(OthersIn(ids \ chat.messages))
<1>1. IsFiniteSet(TalkIds)
  <2>1. Len(talk.by) \in Int
    BY DEF ChatInv
  <2>2. IsFiniteSet(1 .. Len(talk.by))
    BY <2>1, FS_Interval
  <2>3. QED BY <2>2 DEF TalkIds
<1> DEFINE before == OthersIn(chat.messages \ read)
           since == OthersIn(ids \ chat.messages)
<1>2. before \subseteq TalkIds /\ since \subseteq TalkIds
  BY DEF OthersIn, ChatInv
<1>3. IsFiniteSet(before) /\ IsFiniteSet(since)
  BY <1>1, <1>2, FS_Subset
<1>4. before \cap since = {} /\ OthersIn(ids \ read) = before \cup since
  BY DEF OthersIn, ChatInv
<1>5. Cardinality(before) = chat.unread
  BY DEF ChatInv, RoomUnreadIsMissed
<1> HIDE DEF before, since
<1>6. QED BY <1>3, <1>4, <1>5, CountedApart DEF since

\* What is said later does not change who said the rest.
LEMMA SaidLater ==
    ASSUME ChatInv, NEW who \in {"me", "other"}, talk' = [talk EXCEPT !.by = Append(@, who)]
    PROVE  /\ talk' = [by |-> talk'.by, paused |-> talk'.paused] /\ talk'.by \in Seq({"me", "other"})
           /\ TalkIds \subseteq TalkIds'
           /\ \A i \in TalkIds : talk'.by[i] = talk.by[i]
<1>1. talk'.by = Append(talk.by, who) /\ talk' = [by |-> talk'.by, paused |-> talk'.paused]
  BY DEF ChatInv
<1>2. talk.by \in Seq({"me", "other"})
  BY DEF ChatInv
<1>3. QED BY <1>1, <1>2 DEF TalkIds

LEMMA TalkGrows ==
    ASSUME ChatInv, talk' = [by |-> talk'.by, paused |-> talk'.paused], talk'.by \in Seq({"me", "other"}),
           TalkIds \subseteq TalkIds', \A i \in TalkIds : talk'.by[i] = talk.by[i],
           UNCHANGED <<chat, poll, read>>
    PROVE  ChatInv'
<1>1. \A ids : ids \subseteq TalkIds => OthersIn(ids)' = OthersIn(ids)
  BY DEF OthersIn
<1>2. OthersIn(chat.messages \ read)' = OthersIn(chat.messages \ read)
  BY <1>1 DEF ChatInv, OthersIn
<1>3. RoomUnreadIsMissed'
  BY <1>2 DEF ChatInv, RoomUnreadIsMissed
<1>4. QED BY <1>3 DEF ChatInv

LEMMA ChatStep == ASSUME ChatInv, [ChatNext]_chatVars PROVE ChatInv'
<1>1. CASE UNCHANGED chatVars
  BY <1>1 DEF chatVars, ChatInv, TalkIds, OthersIn, RoomUnreadIsMissed
<1>2. CASE HistoryTaken
  <2>1. UNCHANGED talk /\ poll' = NoRequest /\ poll # NoRequest
    BY <1>2 DEF HistoryTaken, NoRequest
  <2>2. chat.messages \subseteq poll.ids /\ poll.ids \subseteq TalkIds
    BY <1>2, <2>1 DEF HistoryTaken, ChatInv
  <2>3. chat'.messages = poll.ids /\ chat'.previous = <<poll.ids>> /\ chat'.open = chat.open
        /\ chat' = [open |-> chat'.open, blocked |-> chat'.blocked, unread |-> chat'.unread, messages |-> chat'.messages,
                    previous |-> chat'.previous, draft |-> chat'.draft, connected |-> chat'.connected]
    BY <1>2 DEF HistoryTaken, ChatInv
  <2>4. Cardinality({}) = 0
    BY FS_EmptySet
  <2>5. chat.unread = Cardinality(OthersIn(chat.messages \ read)) /\ read \subseteq chat.messages
    BY DEF ChatInv, RoomUnreadIsMissed
  <2>6. CASE chat.open
    <3>1. read' = poll.ids /\ chat'.unread = chat.unread
      BY <1>2, <2>6 DEF HistoryTaken, ChatInv
    <3>2. chat.messages \ read = {} /\ OthersIn({}) = {}
      BY <2>6 DEF ChatInv, OthersIn
    <3>3. chat'.messages \ read' = {} /\ chat'.unread = 0
      BY <2>3, <2>4, <2>5, <3>1, <3>2
    <3>4. RoomUnreadIsMissed'
      BY <2>4, <3>3 DEF RoomUnreadIsMissed, OthersIn
    <3>5. QED BY <2>1, <2>2, <2>3, <3>1, <3>4 DEF ChatInv, TalkIds
  <2>7. CASE ~chat.open /\ chat.previous = <<>>
    <3>1. read' = poll.ids /\ chat'.unread = chat.unread + Cardinality({})
      BY <1>2, <2>7 DEF HistoryTaken, ChatInv
    <3>2. chat.messages \ read = {} /\ OthersIn({}) = {}
      BY <2>7 DEF ChatInv, OthersIn
    <3>3. chat'.messages \ read' = {} /\ chat'.unread = 0
      BY <2>3, <2>4, <2>5, <3>1, <3>2
    <3>4. RoomUnreadIsMissed'
      BY <2>4, <3>3 DEF RoomUnreadIsMissed, OthersIn
    <3>5. QED BY <2>1, <2>2, <2>3, <2>7, <3>1, <3>4 DEF ChatInv, TalkIds
  <2>8. CASE ~chat.open /\ chat.previous # <<>>
    <3>1. Previous = chat.messages
      BY <2>8 DEF ChatInv, Previous
    <3>2. read' = read /\ chat'.unread = chat.unread + Cardinality(OthersIn(poll.ids \ chat.messages))
      BY <1>2, <2>8, <3>1 DEF HistoryTaken, ChatInv
    <3>3. chat'.unread = Cardinality(OthersIn(poll.ids \ read))
      BY <2>2, <3>2, OthersCounted
    <3>4. RoomUnreadIsMissed'
      BY <2>1, <2>3, <3>2, <3>3 DEF RoomUnreadIsMissed, OthersIn
    <3>5. QED BY <2>1, <2>2, <2>3, <2>5, <2>8, <3>2, <3>4 DEF ChatInv, TalkIds
  <2>9. QED BY <2>6, <2>7, <2>8
<1>3. CASE Paused
  <2>1. Cardinality(OthersIn({} \ {})) = 0
    BY FS_EmptySet DEF OthersIn
  <2>2. RoomUnreadIsMissed'
    BY <1>3, <2>1 DEF Paused, ChatInv, RoomUnreadIsMissed, OthersIn
  <2>3. QED BY <1>3, <2>2 DEF Paused, ChatInv, NoRequest, TalkIds
<1>4. CASE ToggleChat
  <2>1. Cardinality(OthersIn({})) = 0
    BY FS_EmptySet DEF OthersIn
  <2>2. read' = chat.messages /\ chat'.messages = chat.messages /\ UNCHANGED <<talk, poll>>
    BY <1>4 DEF ToggleChat, ChatInv
  <2>3. chat.open => chat.unread = 0
    <3>1. chat.open => chat.messages \ read = {}
      BY DEF ChatInv
    <3>2. QED BY <2>1, <3>1 DEF ChatInv, RoomUnreadIsMissed
  <2>4. chat'.unread = 0
    BY <1>4, <2>3 DEF ToggleChat, ChatInv
  <2>5. chat'.messages \ read' = {}
    BY <2>2
  <2>6. RoomUnreadIsMissed'
    BY <2>1, <2>4, <2>5 DEF RoomUnreadIsMissed, OthersIn
  <2>7. QED BY <1>4, <2>2, <2>6 DEF ToggleChat, ChatInv, TalkIds
<1>5. CASE Posted
  BY <1>5, SaidLater, TalkGrows DEF Posted
<1>6. CASE ChatElsewhere
  <2>1. CASE talk' = [talk EXCEPT !.by = Append(@, "other")]
    BY <1>6, <2>1, SaidLater, TalkGrows DEF ChatElsewhere
  <2>2. CASE talk' = [talk EXCEPT !.paused = ~@]
    <3>1. talk' = [by |-> talk'.by, paused |-> talk'.paused] /\ talk'.by = talk.by
      BY <2>2 DEF ChatInv
    <3>2. TalkIds' = TalkIds /\ talk'.by \in Seq({"me", "other"})
      BY <3>1 DEF ChatInv, TalkIds
    <3>3. QED BY <1>6, <3>1, <3>2, TalkGrows DEF ChatElsewhere
  <2>3. QED BY <1>6, <2>1, <2>2 DEF ChatElsewhere
<1>7. CASE Refresh \/ History \/ RefreshFails \/ SendLine \/ PostAnswered
           \/ (\E on \in BOOLEAN : Connection(on)) \/ (\E text \in Drafts \cup {Empty} : TypeLine(text))
  <2>1. /\ UNCHANGED <<talk, read>>
        /\ chat' = [open |-> chat'.open, blocked |-> chat'.blocked, unread |-> chat'.unread, messages |-> chat'.messages,
                    previous |-> chat'.previous, draft |-> chat'.draft, connected |-> chat'.connected]
        /\ chat'.open = chat.open /\ chat'.unread = chat.unread /\ chat'.messages = chat.messages
        /\ chat'.previous = chat.previous
    BY <1>7 DEF Refresh, History, RefreshFails, SendLine, PostAnswered, Connection, TypeLine, ChatInv
  <2>2. poll' # NoRequest /\ poll'.phase = "told" => poll' = poll \/ poll'.ids = TalkIds
    BY <1>7 DEF Refresh, History, RefreshFails, SendLine, PostAnswered, Connection, TypeLine, NoRequest
  <2>3. RoomUnreadIsMissed'
    BY <2>1 DEF ChatInv, RoomUnreadIsMissed, OthersIn
  <2>4. QED BY <2>1, <2>2, <2>3 DEF ChatInv, TalkIds
<1>8. QED BY <1>1, <1>2, <1>3, <1>4, <1>5, <1>6, <1>7 DEF ChatNext

\* The badge of a room's chat counts each message that somebody else wrote while it was closed, once,
\* whichever answers are lost, however often the connection is interrupted and the chat paused.
THEOREM BadgeCountsMissed == ChatSpec => []RoomUnreadIsMissed
<1>1. ChatInit => ChatInv
  <2>1. ChatInit => chat.messages \ read = {}
    BY DEF ChatInit
  <2>2. ChatInit => RoomUnreadIsMissed
    BY <2>1, FS_EmptySet DEF ChatInit, RoomUnreadIsMissed, OthersIn
  <2>3. ChatInit => talk = [by |-> talk.by, paused |-> talk.paused] /\ talk.by \in Seq({"me", "other"})
    <3>1. <<>> \in Seq({"me", "other"}) /\ <<"other">> \in Seq({"me", "other"})
      OBVIOUS
    <3>2. ChatInit => talk = [by |-> talk.by, paused |-> talk.paused] /\ talk.by \in {<<>>, <<"other">>}
      BY DEF ChatInit
    <3>3. QED BY <3>1, <3>2
  <2>4. QED BY <2>2, <2>3 DEF ChatInit, ChatInv, NoRequest
<1>2. ChatInv /\ [ChatNext]_chatVars => ChatInv'
  BY ChatStep
<1>3. ChatInv => RoomUnreadIsMissed
  BY DEF ChatInv
<1>4. QED BY <1>1, <1>2, <1>3, PTL DEF ChatSpec

-------------------------------------------------------------------------------
(* Phrases *)

PhraseRows == [id : Nat, text : Phrases]
PhraseKinds == {"save", "remove", "update"}
PhraseChanges == [kind : PhraseKinds, id : Nat, text : Phrases, phase : {"sent", "ok", "refused"}]
FetchStates ==
    {Idle} \cup [phase : {"sent"}, valid : BOOLEAN] \cup [phase : {"told"}, valid : BOOLEAN, rows : SUBSET PhraseRows]
Usable == fetch.phase = "told" /\ fetch.valid
Has(rows, id) == \E p \in rows : p.id = id

\* What the player must go on seeing while the server keeps it: what was saved, and what he is changing.
Owed(id) == id \in told.saved \/ \E c \in changes : c.kind = "update" /\ c.id = id
Covers(list) == \A id \in Nat : Owed(id) /\ Has(kept.rows, id) => Has(list, id)
Spares(list) == \A p \in list : p.id \notin told.gone

PhraseTypes ==
    /\ kept \in [rows : SUBSET PhraseRows, next : Nat \ {0}]
    /\ shown \subseteq PhraseRows /\ fetch \in FetchStates /\ changes \subseteq PhraseChanges
    /\ told \in [saved : SUBSET Nat, gone : SUBSET Nat]

\* Identities are given out in turn, so one that is gone never comes back.
Issued ==
    /\ \A p \in kept.rows \cup shown : p.id \in 1 .. (kept.next - 1)
    /\ \A c \in changes : c.id < kept.next /\ (c.kind # "save" \/ c.phase = "ok" => c.id # 0)
    /\ \A id \in told.saved \cup told.gone : id \in 1 .. (kept.next - 1)
    /\ Usable => \A p \in fetch.rows : p.id \in 1 .. (kept.next - 1)
\* A removal that has been carried out, and one that the player was told of.
Removed == \A c \in changes : c.kind = "remove" /\ c.phase = "ok" => ~Has(kept.rows, c.id)
Gone ==
    /\ Spares(kept.rows) /\ Spares(shown) /\ (Usable => Spares(fetch.rows))
    /\ \A c \in changes : c.id \notin told.gone
StillKept == Covers(shown) /\ (Usable => Covers(fetch.rows))

PhraseInv == PhraseTypes /\ Issued /\ Removed /\ Gone /\ StillKept

LEMMA ByIdHas == ASSUME NEW rows, NEW id PROVE ById(rows, id) # {} <=> Has(rows, id)
BY DEF ById, Has

LEMMA FetchShapes ==
    ASSUME NEW f \in FetchStates
    PROVE  /\ f.phase \in {"idle", "sent", "told"}
           /\ f.phase = "idle" => f = Idle
           /\ f.phase # "idle" => f # Idle /\ f.valid \in BOOLEAN
           /\ f.phase = "told" => f \in [phase : {"told"}, valid : BOOLEAN, rows : SUBSET PhraseRows]
<1>1. CASE f = Idle
  BY <1>1 DEF Idle
<1>2. CASE f \in [phase : {"sent"}, valid : BOOLEAN]
  BY <1>2 DEF Idle
<1>3. CASE f \in [phase : {"told"}, valid : BOOLEAN, rows : SUBSET PhraseRows]
  BY <1>3 DEF Idle
<1>4. QED BY <1>1, <1>2, <1>3 DEF FetchStates

LEMMA PhraseInitially == PhraseInit => PhraseInv
<1> SUFFICES ASSUME PhraseInit PROVE PhraseInv
  OBVIOUS
<1>1. fetch \in FetchStates /\ ~Usable
  BY DEF PhraseInit, FetchStates, Idle, Usable
<1>2. PhraseTypes /\ Issued /\ Removed /\ Gone
  BY <1>1 DEF PhraseInit, PhraseTypes, Issued, Removed, Gone, Spares
<1>3. StillKept
  BY <1>1 DEF PhraseInit, StillKept, Covers, Has
<1>4. QED BY <1>2, <1>3 DEF PhraseInv

\* A new generation: the refresh under way, if any, is of no use any more.
LEMMA GenerationMoves ==
    ASSUME fetch \in FetchStates, NextGeneration
    PROVE  fetch' \in FetchStates /\ ~Usable'
<1>1. CASE fetch = Idle
  BY <1>1 DEF NextGeneration, FetchStates, Usable, Idle
<1>2. CASE fetch \in [phase : {"sent"}, valid : BOOLEAN]
  BY <1>2, FetchShapes DEF NextGeneration, FetchStates, Usable
<1>3. CASE fetch \in [phase : {"told"}, valid : BOOLEAN, rows : SUBSET PhraseRows]
  BY <1>3, FetchShapes DEF NextGeneration, FetchStates, Usable
<1>4. QED BY <1>1, <1>2, <1>3 DEF FetchStates

LEMMA BeginKeeps ==
    ASSUME PhraseInv, NEW c \in PhraseChanges, Begin(c), c.phase = "sent", c.id \notin told.gone, c.id < kept.next,
           c.kind # "save" => c.id # 0, c.kind = "update" => Has(shown, c.id)
    PROVE  PhraseInv'
<1>1. PhraseTypes' /\ ~Usable'
  BY GenerationMoves DEF PhraseInv, PhraseTypes, Begin
<1>2. Issued' /\ Removed'
  BY <1>1 DEF PhraseInv, Begin, Issued, Removed
<1>3. Gone'
  BY <1>1 DEF PhraseInv, Begin, Gone, Spares
<1>4. \A id \in Nat : Owed(id)' => Owed(id) \/ Has(shown, id)
  BY DEF Begin, Owed
<1>5. StillKept'
  BY <1>1, <1>4 DEF PhraseInv, Begin, StillKept, Covers, Has
<1>6. QED BY <1>1, <1>2, <1>3, <1>5 DEF PhraseInv

LEMMA PlayerKeeps ==
    ASSUME PhraseInv
    PROVE  /\ \A text \in Phrases : SavePhrase(text) => PhraseInv'
           /\ \A p \in shown : RemovePhrase(p) => PhraseInv'
           /\ \A p \in shown, text \in Phrases : UpdatePhrase(p, text) => PhraseInv'
<1>1. ASSUME NEW text \in Phrases, SavePhrase(text) PROVE PhraseInv'
  <2>1. Change("save", 0, text) \in PhraseChanges /\ 0 \notin told.gone /\ 0 < kept.next
    BY DEF PhraseInv, PhraseTypes, Issued, Change, PhraseChanges, PhraseKinds
  <2>2. QED BY <1>1, <2>1, BeginKeeps DEF SavePhrase, Change
<1>2. ASSUME NEW p \in shown PROVE p.id \in Nat /\ p.text \in Phrases /\ p.id \notin told.gone /\ p.id < kept.next /\ p.id # 0
                                   /\ Has(shown, p.id)
  BY DEF PhraseInv, PhraseTypes, Issued, Gone, Spares, PhraseRows, Has
<1>3. ASSUME NEW p \in shown, RemovePhrase(p) PROVE PhraseInv'
  <2>1. Change("remove", p.id, p.text) \in PhraseChanges
    BY <1>2 DEF Change, PhraseChanges, PhraseKinds
  <2>2. QED BY <1>2, <1>3, <2>1, BeginKeeps DEF RemovePhrase, Change
<1>4. ASSUME NEW p \in shown, NEW text \in Phrases, UpdatePhrase(p, text) PROVE PhraseInv'
  <2>1. Change("update", p.id, text) \in PhraseChanges
    BY <1>2 DEF Change, PhraseChanges, PhraseKinds
  <2>2. QED BY <1>2, <1>4, <2>1, BeginKeeps DEF UpdatePhrase, Change
<1>5. QED BY <1>1, <1>3, <1>4

\* The refresh.
LEMMA FetchKeeps ==
    ASSUME PhraseInv, Fetch \/ Listed \/ Fetched \/ FetchFails
    PROVE  PhraseInv'
<1>1. CASE Fetch \/ FetchFails
  <2>1. fetch' \in FetchStates /\ ~Usable'
    <3>1. fetch' = Idle \/ fetch' = [phase |-> "sent", valid |-> TRUE]
      BY <1>1 DEF Fetch, FetchFails
    <3>2. CASE fetch' = Idle
      BY <3>2 DEF FetchStates, Usable, Idle
    <3>3. CASE fetch' = [phase |-> "sent", valid |-> TRUE]
      BY <3>3 DEF FetchStates, Usable
    <3>4. QED BY <3>1, <3>2, <3>3
  <2>2. QED BY <1>1, <2>1 DEF Fetch, FetchFails, PhraseInv, PhraseTypes, Issued, Removed, Gone, StillKept, Covers, Spares, Has, Owed
<1>2. CASE Listed
  <2>1. fetch' \in FetchStates /\ fetch'.rows = kept.rows
    <3>1. fetch.valid \in BOOLEAN /\ kept.rows \subseteq PhraseRows
      BY <1>2, FetchShapes DEF Listed, PhraseInv, PhraseTypes
    <3>2. QED BY <1>2, <3>1 DEF Listed, FetchStates
  <2>2. PhraseTypes' /\ Issued' /\ Removed' /\ Gone'
    BY <1>2, <2>1 DEF Listed, PhraseInv, PhraseTypes, Issued, Removed, Gone, Spares, Has
  <2>3. StillKept'
    BY <1>2, <2>1 DEF Listed, PhraseInv, StillKept, Covers, Owed, Has
  <2>4. QED BY <2>2, <2>3 DEF PhraseInv
<1>3. CASE Fetched
  <2>1. fetch' \in FetchStates /\ ~Usable'
    BY <1>3 DEF Fetched, FetchStates, Usable, Idle
  <2>2. shown' = shown \/ (Usable /\ shown' = fetch.rows)
    BY <1>3 DEF Fetched, Usable
  <2>3. Usable => fetch.rows \subseteq PhraseRows
    BY FetchShapes DEF Usable, PhraseInv, PhraseTypes
  <2>4. PhraseTypes' /\ Issued' /\ Removed' /\ Gone'
    BY <1>3, <2>1, <2>2, <2>3 DEF Fetched, PhraseInv, PhraseTypes, Issued, Removed, Gone, Spares, Has
  <2>5. StillKept'
    BY <1>3, <2>1, <2>2 DEF Fetched, PhraseInv, StillKept, Covers, Owed, Has
  <2>6. QED BY <2>4, <2>5 DEF PhraseInv
<1>4. QED BY <1>1, <1>2, <1>3

\* The server: what becomes of a change, and of the rows.
LEMMA OutcomeKeeps ==
    ASSUME PhraseInv, NEW c \in changes, NEW phase \in {"ok", "refused"}, NEW id \in Nat, Outcome(c, phase, id),
           kept' \in [rows : SUBSET PhraseRows, next : Nat \ {0}],
           kept.next <= kept'.next, kept'.next <= kept.next + 1,
           \A p \in kept'.rows : Has(kept.rows, p.id) \/ (p.id = kept.next /\ kept'.next = kept.next + 1),
           id < kept'.next, id \notin told.gone, c.kind # "save" => id = c.id, phase = "ok" => id # 0,
           c.kind = "remove" /\ phase = "ok" => ~Has(kept'.rows, id),
           UNCHANGED <<shown, fetch, told>>
    PROVE  PhraseInv'
<1>0. DEFINE d == [c EXCEPT !.phase = phase, !.id = id]
<1>1. /\ d \in PhraseChanges /\ d.kind = c.kind /\ d.id = id /\ d.phase = phase
      /\ changes' = (changes \ {c}) \cup {d}
  BY DEF PhraseInv, PhraseTypes, PhraseChanges, Outcome
<1> HIDE DEF d
<1>2. PhraseTypes'
  BY <1>1 DEF PhraseInv, PhraseTypes
<1>3. \A p \in kept.rows : p.id \in 1 .. (kept.next - 1) /\ p.id \notin told.gone
  BY DEF PhraseInv, Issued, Gone, Spares
<1>4. \A p \in kept'.rows : p.id \in Nat /\ p.id \in 1 .. (kept'.next - 1) /\ p.id \notin told.gone
  <2> SUFFICES ASSUME NEW p \in kept'.rows PROVE p.id \in Nat /\ p.id \in 1 .. (kept'.next - 1) /\ p.id \notin told.gone
    OBVIOUS
  <2>1. CASE Has(kept.rows, p.id)
    BY <2>1, <1>3 DEF Has, PhraseInv, PhraseTypes
  <2>2. CASE p.id = kept.next /\ kept'.next = kept.next + 1
    BY <2>2 DEF PhraseInv, PhraseTypes, Issued
  <2>3. QED BY <2>1, <2>2
<1>5. Issued'
  <2>1. \A e \in changes' : e.id < kept'.next /\ (e.kind # "save" \/ e.phase = "ok" => e.id # 0)
    BY <1>1 DEF PhraseInv, PhraseTypes, Issued, PhraseChanges
  <2>2. (Usable' <=> Usable) /\ fetch'.rows = fetch.rows
    BY DEF Usable
  <2>3. \A k : k \in 1 .. (kept.next - 1) => k \in 1 .. (kept'.next - 1)
    BY DEF PhraseInv, PhraseTypes
  <2>4. QED BY <1>4, <2>1, <2>2, <2>3 DEF PhraseInv, Issued
<1>6. Removed'
  <2> SUFFICES ASSUME NEW e \in changes', e.kind = "remove", e.phase = "ok" PROVE ~Has(kept'.rows, e.id)
    BY DEF Removed, Has
  <2>1. CASE e = d
    BY <2>1, <1>1 DEF Has
  <2>2. CASE e \in changes
    <3>1. ~Has(kept.rows, e.id) /\ e.id < kept.next /\ e.id \in Nat
      BY <2>2 DEF PhraseInv, Removed, Issued, PhraseTypes, PhraseChanges
    <3>2. QED BY <3>1 DEF Has, PhraseInv, PhraseTypes
  <2>3. QED BY <1>1, <2>1, <2>2
<1>7. Gone'
  BY <1>1, <1>4 DEF PhraseInv, Gone, Spares, Usable
<1>8. \A k \in Nat : Owed(k)' => Owed(k) /\ k < kept.next
  <2>1. \A k \in Nat : Owed(k)' => Owed(k)
    BY <1>1 DEF Owed, PhraseInv, PhraseTypes, PhraseChanges
  <2>2. \A k \in Nat : Owed(k) => k < kept.next
    BY DEF Owed, PhraseInv, PhraseTypes, Issued
  <2>3. QED BY <2>1, <2>2
<1>9. \A k \in Nat : k < kept.next /\ Has(kept'.rows, k) => Has(kept.rows, k)
  BY DEF Has, PhraseInv, PhraseTypes
<1>10. StillKept'
  BY <1>8, <1>9 DEF PhraseInv, StillKept, Covers, Usable, Has
<1>11. QED BY <1>2, <1>5, <1>6, <1>7, <1>10 DEF PhraseInv

LEMMA CarryKeeps == ASSUME PhraseInv, NEW c \in changes, Carry(c) PROVE PhraseInv'
<1>1. /\ c \in PhraseChanges /\ c.id \in Nat /\ c.id < kept.next /\ c.id \notin told.gone /\ kept.next \in Nat \ {0}
      /\ kept.rows \subseteq PhraseRows /\ c.text \in Phrases /\ kept \in [rows : SUBSET PhraseRows, next : Nat \ {0}]
  BY DEF PhraseInv, PhraseTypes, PhraseChanges, Issued, Gone
<1>2. UNCHANGED <<shown, fetch, told>>
  BY DEF Carry
<1>3. \A p \in kept.rows : Has(kept.rows, p.id) /\ p.id \in Nat /\ p.id < kept.next /\ p.id \notin told.gone
  BY DEF Has, PhraseInv, PhraseTypes, PhraseRows, Issued, Gone, Spares
<1>4. ASSUME Refuse(c) PROVE PhraseInv'
  BY <1>1, <1>2, <1>3, <1>4, OutcomeKeeps DEF Refuse
<1>5. CASE c.kind = "save"
  <2>1. CASE Rows(c.text) # {}
    <3>1. PICK p \in kept.rows : Outcome(c, "ok", p.id) /\ UNCHANGED kept
      BY <1>5, <2>1 DEF Carry, Rows
    <3>2. /\ kept' \in [rows : SUBSET PhraseRows, next : Nat \ {0}] /\ kept'.next = kept.next /\ kept'.rows = kept.rows
          /\ p.id \in Nat /\ p.id < kept.next /\ p.id \notin told.gone /\ p.id # 0
      BY <1>1, <1>3, <3>1 DEF PhraseInv, Issued
    <3>3. QED BY <1>1, <1>2, <1>3, <1>5, <3>1, <3>2, OutcomeKeeps
  <2>2. CASE Outcome(c, "ok", kept.next)
             /\ kept' = [rows |-> kept.rows \cup {[id |-> kept.next, text |-> c.text]}, next |-> kept.next + 1]
    <3>1. [id |-> kept.next, text |-> c.text] \in PhraseRows
      BY <1>1 DEF PhraseRows
    <3>2. kept.next \notin told.gone
      BY <1>1 DEF PhraseInv, Issued
    <3>3. QED BY <1>1, <1>2, <1>3, <1>5, <2>2, <3>1, <3>2, OutcomeKeeps
  <2>3. QED BY <1>4, <1>5, <2>1, <2>2 DEF Carry
<1>6. CASE c.kind = "remove"
  <2>1. CASE Outcome(c, "ok", c.id) /\ kept' = [kept EXCEPT !.rows = @ \ ById(@, c.id)]
    <3>1. kept' \in [rows : SUBSET PhraseRows, next : Nat \ {0}] /\ kept'.next = kept.next
      BY <1>1, <2>1
    <3>2. kept'.rows \subseteq kept.rows /\ ~Has(kept'.rows, c.id)
      BY <1>1, <2>1 DEF ById, Has
    <3>3. c.id # 0 /\ \A p \in kept'.rows : Has(kept.rows, p.id)
      BY <1>6, <3>2 DEF PhraseInv, Issued, Has
    <3>4. Outcome(c, "ok", c.id) /\ kept.next <= kept'.next /\ kept'.next <= kept.next + 1 /\ c.id < kept'.next
      BY <1>1, <2>1, <3>1
    <3>5. QED BY <1>1, <1>2, <3>1, <3>2, <3>3, <3>4, OutcomeKeeps
  <2>2. QED BY <1>4, <1>6, <2>1 DEF Carry
<1>7. CASE c.kind = "update"
  <2>1. CASE /\ ById(kept.rows, c.id) # {} /\ Outcome(c, "ok", c.id)
             /\ kept' = [kept EXCEPT !.rows = (@ \ ById(@, c.id)) \cup {[id |-> c.id, text |-> c.text]}]
    <3>1. [id |-> c.id, text |-> c.text] \in PhraseRows
      BY <1>1 DEF PhraseRows
    <3>2. kept' \in [rows : SUBSET PhraseRows, next : Nat \ {0}] /\ kept'.next = kept.next
      BY <1>1, <2>1, <3>1
    <3>3. \A p \in kept'.rows : Has(kept.rows, p.id)
      BY <1>1, <2>1 DEF ById, Has
    <3>4. c.id # 0
      BY <1>7 DEF PhraseInv, Issued
    <3>5. QED BY <1>1, <1>2, <1>7, <2>1, <3>2, <3>3, <3>4, OutcomeKeeps
  <2>2. QED BY <1>4, <1>7, <2>1 DEF Carry
<1>8. QED BY <1>1, <1>5, <1>6, <1>7 DEF PhraseChanges, PhraseKinds

\* Answers: what is applied to the list loses nothing but what was removed.
LEMMA AppliedFacts ==
    ASSUME NEW list \in SUBSET PhraseRows, NEW c \in PhraseChanges
    PROVE  /\ Applied(list, c) \subseteq PhraseRows
           /\ \A p \in Applied(list, c) : p.id = c.id \/ Has(list, p.id)
           /\ \A p \in Applied(list, c) : p.id = c.id => c.kind = "save" \/ (c.kind = "update" /\ Has(list, p.id))
           /\ \A id \in Nat : Has(list, id) => Has(Applied(list, c), id) \/ (c.kind = "remove" /\ id = c.id)
           /\ c.kind = "save" => Has(Applied(list, c), c.id)
<1>1. [id |-> c.id, text |-> c.text] \in PhraseRows /\ c.kind \in PhraseKinds
  BY DEF PhraseRows, PhraseChanges
<1>2. CASE c.kind = "save"
  BY <1>1, <1>2, ByIdHas DEF Applied, Has
<1>3. CASE c.kind = "remove"
  BY <1>3 DEF Applied, Has, ById
<1>4. CASE c.kind = "update"
  <2>1. Applied(list, c) = {IF p.id = c.id THEN [id |-> c.id, text |-> c.text] ELSE p : p \in list}
    BY <1>4 DEF Applied
  <2>2. QED BY <1>1, <1>4, <2>1 DEF Has
<1>5. QED BY <1>1, <1>2, <1>3, <1>4 DEF PhraseKinds

LEMMA ConfirmedKeeps == ASSUME PhraseInv, NEW c \in changes, Confirmed(c) PROVE PhraseInv'
<1>1. /\ c \in PhraseChanges /\ c.kind \in PhraseKinds /\ c.id \in Nat /\ c.id < kept.next /\ c.id \notin told.gone
      /\ c.phase = "ok" /\ c.id # 0
  BY DEF PhraseInv, PhraseTypes, PhraseChanges, Issued, Gone, Confirmed
<1>2. fetch' \in FetchStates /\ ~Usable'
  BY GenerationMoves DEF PhraseInv, PhraseTypes, Confirmed
<1> DEFINE list == Applied(shown, c)
<1>3. shown' = list /\ changes' = changes \ {c} /\ kept' = kept
  BY DEF Confirmed
<1>4. /\ list \subseteq PhraseRows
      /\ \A p \in list : p.id = c.id \/ Has(shown, p.id)
      /\ \A p \in list : p.id = c.id => c.kind = "save" \/ (c.kind = "update" /\ Has(shown, p.id))
      /\ \A id \in Nat : Has(shown, id) => Has(list, id) \/ (c.kind = "remove" /\ id = c.id)
      /\ c.kind = "save" => Has(list, c.id)
  BY <1>1, AppliedFacts DEF PhraseInv, PhraseTypes
<1> HIDE DEF list
<1>5. PICK noted \in {"saved", "gone", "neither"} :
         /\ noted = "saved" <=> c.kind # "remove"
         /\ noted = "gone" => c.kind = "remove" /\ \A e \in changes \ {c} : e.id # c.id
         /\ told' = [saved |-> IF noted = "saved" THEN told.saved \cup {c.id} ELSE told.saved,
                     gone |-> IF noted = "gone" THEN told.gone \cup {c.id} ELSE told.gone]
  BY <1>1 DEF Confirmed, PhraseInv, PhraseTypes
<1>6. PhraseTypes'
  BY <1>1, <1>2, <1>3, <1>4, <1>5 DEF PhraseInv, PhraseTypes
<1>7. Issued'
  <2>1. \A p \in list : p.id \in 1 .. (kept.next - 1)
    <3>1. \A p \in shown : p.id \in 1 .. (kept.next - 1)
      BY DEF PhraseInv, Issued
    <3>2. QED BY <1>1, <1>4, <3>1 DEF Has, PhraseInv, PhraseTypes
  <2>2. \A id \in told'.saved \cup told'.gone : id \in 1 .. (kept.next - 1)
    BY <1>1, <1>5 DEF PhraseInv, PhraseTypes, Issued
  <2>3. QED BY <1>2, <1>3, <2>1, <2>2 DEF PhraseInv, Issued
<1>8. Removed'
  BY <1>3 DEF PhraseInv, Removed, Has
<1>9. noted = "gone" => ~Has(kept.rows, c.id) /\ ~Has(list, c.id)
  <2> SUFFICES ASSUME noted = "gone" PROVE ~Has(kept.rows, c.id) /\ ~Has(list, c.id)
    OBVIOUS
  <2>1. c.kind = "remove"
    BY <1>5
  <2>2. QED BY <1>1, <1>4, <2>1 DEF PhraseInv, Removed, Has
<1>10. Spares(list)
  <2>1. \A p \in shown : p.id \notin told.gone
    BY DEF PhraseInv, Gone, Spares
  <2>2. QED BY <1>1, <1>4, <2>1 DEF Spares, Has
<1>11. Gone'
  <2>1. Spares(kept.rows)' /\ Spares(shown)'
    BY <1>3, <1>5, <1>9, <1>10 DEF PhraseInv, Gone, Spares, Has
  <2>2. \A e \in changes' : e.id \notin told'.gone
    BY <1>3, <1>5 DEF PhraseInv, Gone
  <2>3. QED BY <1>2, <2>1, <2>2 DEF Gone
<1>12. ASSUME NEW id \in Nat, Owed(id)', Has(kept.rows, id) PROVE Has(list, id)
  <2>1. CASE id \in told'.saved \ told.saved
    <3>1. id = c.id /\ c.kind # "remove"
      BY <1>5, <2>1
    <3>2. CASE c.kind = "save"
      BY <1>4, <3>1, <3>2
    <3>3. CASE c.kind = "update"
      <4>1. Owed(id) /\ Has(shown, id)
        BY <1>12, <3>1, <3>3 DEF Owed, PhraseInv, StillKept, Covers
      <4>2. QED BY <1>4, <3>3, <4>1
    <3>4. QED BY <1>1, <3>1, <3>2, <3>3 DEF PhraseKinds
  <2>2. CASE id \notin told'.saved \ told.saved
    <3>1. Owed(id)
      BY <1>3, <1>12, <2>2 DEF Owed
    <3>2. Has(shown, id)
      BY <1>12, <3>1 DEF PhraseInv, StillKept, Covers
    <3>3. ~(c.kind = "remove" /\ id = c.id)
      BY <1>1, <1>12 DEF PhraseInv, Removed
    <3>4. QED BY <1>4, <3>2, <3>3
  <2>3. QED BY <2>1, <2>2
<1>13. StillKept'
  BY <1>2, <1>3, <1>12 DEF StillKept, Covers, Has
<1>14. QED BY <1>2, <1>6, <1>7, <1>8, <1>11, <1>13 DEF PhraseInv

LEMMA OthersKeep ==
    ASSUME PhraseInv, OtherWindow \/ \E c \in changes : Rejected(c)
    PROVE  PhraseInv'
<1>1. ASSUME NEW c \in changes, Rejected(c) PROVE PhraseInv'
  BY <1>1 DEF Rejected, PhraseInv, PhraseTypes, Issued, Removed, Gone, StillKept, Covers, Spares, Owed, Has, Usable
<1>2. CASE OtherWindow
  <2>1. UNCHANGED <<shown, fetch, changes, told>> /\ kept \in [rows : SUBSET PhraseRows, next : Nat \ {0}]
    BY <1>2 DEF OtherWindow, PhraseInv, PhraseTypes
  <2>2. CASE \E p \in kept.rows : kept' = [kept EXCEPT !.rows = @ \ {p}]
    <3>1. kept'.rows \subseteq kept.rows /\ kept'.next = kept.next /\ kept' \in [rows : SUBSET PhraseRows, next : Nat \ {0}]
      BY <2>1, <2>2
    <3>2. PhraseTypes' /\ Issued' /\ Removed' /\ Gone'
      BY <2>1, <3>1 DEF PhraseInv, PhraseTypes, Issued, Removed, Gone, Spares, Has, Usable
    <3>3. StillKept'
      BY <2>1, <3>1 DEF PhraseInv, StillKept, Covers, Owed, Has, Usable
    <3>4. QED BY <3>2, <3>3 DEF PhraseInv
  <2>3. ASSUME NEW text \in Phrases,
               kept' = [rows |-> kept.rows \cup {[id |-> kept.next, text |-> text]}, next |-> kept.next + 1]
        PROVE  PhraseInv'
    <3>1. [id |-> kept.next, text |-> text] \in PhraseRows
      BY <2>1 DEF PhraseRows
    <3>2. /\ kept' \in [rows : SUBSET PhraseRows, next : Nat \ {0}] /\ kept'.next = kept.next + 1
          /\ \A p \in kept'.rows : p \in kept.rows \/ p.id = kept.next
      BY <2>1, <2>3, <3>1
    <3>3. PhraseTypes'
      BY <2>1, <3>2 DEF PhraseInv, PhraseTypes
    <3>4. \A id : id \in 1 .. (kept.next - 1) => id \in 1 .. (kept'.next - 1)
      BY <2>1, <3>2
    <3>5. kept.next \in 1 .. (kept'.next - 1)
      BY <2>1, <3>2
    <3>6. \A c \in changes : c.id \in Nat
      BY DEF PhraseInv, PhraseTypes, PhraseChanges
    <3>7. Issued'
      BY <2>1, <3>2, <3>4, <3>5, <3>6 DEF PhraseInv, Issued, Usable
    <3>8. Removed'
      BY <2>1, <3>2, <3>6 DEF PhraseInv, Issued, Removed, Has
    <3>9. Gone'
      <4>1. kept.next \notin told.gone
        BY <2>1 DEF PhraseInv, Issued
      <4>2. QED BY <2>1, <3>2, <4>1 DEF PhraseInv, Gone, Spares, Usable
    <3>10. \A id \in Nat : Owed(id) => id < kept.next
      BY <2>1 DEF PhraseInv, PhraseTypes, Issued, Owed
    <3>11. StillKept'
      <4>1. ASSUME NEW id \in Nat, Owed(id), Has(kept'.rows, id) PROVE Has(kept.rows, id)
        <5>1. id < kept.next /\ kept.next \in Nat
          BY <2>1, <3>10, <4>1 DEF PhraseInv, PhraseTypes
        <5>2. PICK p \in kept'.rows : p.id = id
          BY <4>1 DEF Has
        <5>3. QED BY <3>2, <5>1, <5>2 DEF Has
      <4>2. Usable' <=> Usable
        BY <2>1 DEF Usable
      <4>3. \A id : Owed(id)' <=> Owed(id)
        BY <2>1 DEF Owed
      <4>4. QED BY <2>1, <4>1, <4>2, <4>3 DEF PhraseInv, StillKept, Covers
    <3>12. QED BY <3>3, <3>7, <3>8, <3>9, <3>11 DEF PhraseInv
  <2>4. QED BY <1>2, <2>2, <2>3 DEF OtherWindow
<1>3. QED BY <1>1, <1>2

LEMMA PhraseStep == PhraseInv /\ [PhraseNext]_phraseVars => PhraseInv'
<1> SUFFICES ASSUME PhraseInv, [PhraseNext]_phraseVars PROVE PhraseInv'
  OBVIOUS
<1>1. CASE UNCHANGED phraseVars
  BY <1>1 DEF phraseVars, PhraseInv, PhraseTypes, Issued, Removed, Gone, StillKept, Covers, Spares, Owed, Has, Usable
<1>2. CASE Fetch \/ Listed \/ Fetched \/ FetchFails
  BY <1>2, FetchKeeps
<1>3. CASE OtherWindow \/ \E c \in changes : Rejected(c)
  BY <1>3, OthersKeep
<1>4. ASSUME NEW c \in changes, Carry(c) \/ Confirmed(c) PROVE PhraseInv'
  BY <1>4, CarryKeeps, ConfirmedKeeps
<1>5. ASSUME NEW text \in Phrases, SavePhrase(text) \/ \E p \in shown : UpdatePhrase(p, text) PROVE PhraseInv'
  BY <1>5, PlayerKeeps
<1>6. ASSUME NEW p \in shown, RemovePhrase(p) PROVE PhraseInv'
  BY <1>6, PlayerKeeps
<1>7. QED BY <1>1, <1>2, <1>3, <1>4, <1>5, <1>6 DEF PhraseNext

\* A phrase that was removed is not shown again, and one that was saved is shown as long as the
\* server keeps it, in whatever order the answers of the refreshes and of the changes come.
THEOREM RemovedPhrasesStayRemoved == PhraseSpec => []PhrasesStay
<1>1. PhraseInv => PhrasesStay
  <2> SUFFICES ASSUME PhraseInv PROVE PhrasesStay
    OBVIOUS
  <2>1. \A p \in shown : p.id \notin told.gone
    BY DEF PhraseInv, Gone, Spares
  <2>2. ASSUME NEW id \in told.saved, ById(kept.rows, id) # {} PROVE ById(shown, id) # {}
    <3>1. id \in Nat /\ Owed(id) /\ Has(kept.rows, id)
      BY <2>2, ByIdHas DEF PhraseInv, PhraseTypes, Owed
    <3>2. QED BY <3>1, ByIdHas DEF PhraseInv, StillKept, Covers
  <2>3. QED BY <2>1, <2>2 DEF PhrasesStay
<1>2. QED BY <1>1, PhraseInitially, PhraseStep, PTL DEF PhraseSpec

-------------------------------------------------------------------------------
(* Private messages *)

\* A chain that reads a chat is that of the chat which is open, and what it was told is that chat's.
ReadsFit(rs, selected) ==
    LET r == rs["reads"] IN
    r # Nothing => r.player = selected /\ (r.phase = "told" => \A m \in r.lines : m[1] = selected)
\* A message that has been accepted is one to the friend it was written to.
SaysFit(rs) == LET r == rs["says"] IN r # Nothing /\ r.phase = "told" => r.added[1] = r.player
Messenger == messenger = [relations |-> messenger.relations, selected |-> messenger.selected,
                          messages |-> messenger.messages, drafts |-> messenger.drafts]
FriendInv ==
    /\ DOMAIN requests = RequestKinds /\ requests = [k \in RequestKinds |-> requests[k]] /\ Messenger
    /\ ReadsFit(requests, messenger.selected) /\ SaysFit(requests) /\ PrivateToFriend

LEMMA FriendInitially == FriendInit => FriendInv
BY DEF FriendInit, FriendInv, Messenger, ReadsFit, SaysFit, PrivateToFriend, RequestKinds, Nothing

\* A step that leaves the chats alone.
LEMMA OtherRequests ==
    ASSUME FriendInv, DOMAIN requests' = RequestKinds, requests' = [k \in RequestKinds |-> requests'[k]],
           messenger' = messenger,
           requests'["reads"] \in {requests["reads"], Nothing}, requests'["says"] \in {requests["says"], Nothing}
    PROVE  FriendInv'
BY DEF FriendInv, Messenger, ReadsFit, SaysFit, PrivateToFriend

LEMMA EndedFacts ==
    ASSUME FriendInv, NEW kind \in RequestKinds
    PROVE  /\ DOMAIN Ended(kind) = RequestKinds /\ Ended(kind) = [k \in RequestKinds |-> Ended(kind)[k]]
           /\ Ended(kind)[kind] = Nothing /\ \A k \in RequestKinds \ {kind} : Ended(kind)[k] = requests[k]
BY DEF FriendInv, Ended

LEMMA SetFacts ==
    ASSUME FriendInv, NEW kind \in RequestKinds, NEW r, requests' = [requests EXCEPT ![kind] = r]
    PROVE  /\ DOMAIN requests' = RequestKinds /\ requests' = [k \in RequestKinds |-> requests'[k]]
           /\ requests'[kind] = r /\ \A k \in RequestKinds \ {kind} : requests'[k] = requests[k]
BY DEF FriendInv

LEMMA ListsKeep ==
    ASSUME FriendInv,
           \/ ReadFriends \/ MutateServed \/ \E kind \in {"friends", "mutate"} : ListServed(kind)
           \/ \E p \in Players, relation \in Relations : Mutate(p, relation)
    PROVE  FriendInv'
<1>1. messenger' = messenger /\ \E kind \in {"friends", "mutate"} : \E r : requests' = [requests EXCEPT ![kind] = r]
  BY DEF ReadFriends, MutateServed, ListServed, Mutate, AskFor, Told
<1>2. PICK kind \in {"friends", "mutate"} : \E r : requests' = [requests EXCEPT ![kind] = r]
  BY <1>1
<1>3. PICK r : requests' = [requests EXCEPT ![kind] = r]
  BY <1>2
<1>4. kind \in RequestKinds /\ "reads" \in RequestKinds \ {kind} /\ "says" \in RequestKinds \ {kind}
  BY DEF RequestKinds
<1>5. QED BY <1>1, <1>3, <1>4, SetFacts, OtherRequests

LEMMA ListTakenKeeps == ASSUME FriendInv, NEW kind \in {"friends", "mutate"}, ListTaken(kind) PROVE FriendInv'
<1> DEFINE r == requests[kind]
           closes == r.chat # Nobody /\ r.relations[r.chat] # "friend"
           kinds == RequestKinds
<1>1. /\ messenger' = Selected([messenger EXCEPT !.relations = r.relations], IF closes THEN Nobody ELSE messenger.selected)
      /\ requests' = [Ended(kind) EXCEPT !["reads"] = IF closes THEN Nothing ELSE @]
  BY DEF ListTaken
<1>2. closes \in BOOLEAN
  OBVIOUS
<1> HIDE DEF closes
<1>3. kind \in RequestKinds /\ "reads" \in RequestKinds \ {kind} /\ "says" \in RequestKinds \ {kind} /\ "reads" # "says"
  BY DEF RequestKinds
<1>4. /\ DOMAIN requests' = RequestKinds /\ requests' = [k \in RequestKinds |-> requests'[k]]
      /\ requests'["says"] = requests["says"]
      /\ requests'["reads"] = IF closes THEN Nothing ELSE requests["reads"]
  BY <1>1, <1>3, EndedFacts
<1>5. /\ Messenger'
      /\ ~closes => messenger'.selected = messenger.selected
      /\ \/ messenger'.messages = {}
         \/ messenger'.messages = messenger.messages /\ messenger'.selected = messenger.selected
  BY <1>1 DEF FriendInv, Messenger, Selected
<1>6. ReadsFit(requests', messenger'.selected)
  BY <1>4, <1>5 DEF FriendInv, ReadsFit
<1>7. QED BY <1>4, <1>5, <1>6 DEF FriendInv, SaysFit, PrivateToFriend

LEMMA ChatsKeep ==
    ASSUME FriendInv, ClosePrivate \/ \E p \in Players : OpenPrivate(p)
    PROVE  FriendInv'
<1>1. PICK p : messenger' = Selected(messenger, p) /\ requests' = Ended("reads")
  BY DEF ClosePrivate, OpenPrivate
<1>2. "reads" \in RequestKinds /\ "says" \in RequestKinds \ {"reads"}
  BY DEF RequestKinds
<1>3. /\ DOMAIN requests' = RequestKinds /\ requests' = [k \in RequestKinds |-> requests'[k]]
      /\ requests'["reads"] = Nothing /\ requests'["says"] = requests["says"]
  BY <1>1, <1>2, EndedFacts
<1>4. /\ Messenger'
      /\ \/ messenger'.messages = {}
         \/ messenger'.messages = messenger.messages /\ messenger'.selected = messenger.selected
  BY <1>1 DEF FriendInv, Messenger, Selected
<1>5. QED BY <1>3, <1>4 DEF FriendInv, ReadsFit, SaysFit, PrivateToFriend

LEMMA ReadsKeep == ASSUME FriendInv, ReadPrivate \/ ReadServed PROVE FriendInv'
<1>1. "reads" \in RequestKinds /\ "says" \in RequestKinds \ {"reads"}
  BY DEF RequestKinds
<1>2. CASE ReadPrivate
  <2>1. /\ requests' = [requests EXCEPT !["reads"] = [phase |-> "sent", player |-> messenger.selected]]
        /\ messenger' = messenger
    BY <1>2 DEF ReadPrivate, AskFor
  <2>2. QED BY <1>1, <2>1, SetFacts DEF FriendInv, Messenger, ReadsFit, SaysFit, PrivateToFriend
<1>3. CASE ReadServed
  <2> DEFINE answer == [phase |-> "told", player |-> requests["reads"].player, lines |-> SaidBy(requests["reads"].player)]
  <2>1. CASE requests' = Ended("reads") /\ messenger' = messenger
    BY <1>1, <2>1, EndedFacts DEF FriendInv, Messenger, ReadsFit, SaysFit, PrivateToFriend
  <2>2. CASE requests' = [requests EXCEPT !["reads"] = answer] /\ messenger' = messenger
    <3>1. requests["reads"] # Nothing
      BY <1>3 DEF ReadServed, Nothing
    <3>2. requests["reads"].player = messenger.selected
      BY <3>1 DEF FriendInv, ReadsFit
    <3>3. answer.player = messenger.selected /\ \A m \in answer.lines : m[1] = messenger.selected
      BY <3>2 DEF SaidBy
    <3> HIDE DEF answer
    <3>4. QED BY <1>1, <2>2, <3>3, SetFacts DEF FriendInv, Messenger, ReadsFit, SaysFit, PrivateToFriend
  <2>3. QED BY <1>3, <2>1, <2>2 DEF ReadServed, Told
<1>4. QED BY <1>2, <1>3

LEMMA ReadTakenKeeps == ASSUME FriendInv, ReadTaken PROVE FriendInv'
<1>1. "reads" \in RequestKinds /\ "says" \in RequestKinds \ {"reads"}
  BY DEF RequestKinds
<1>2. requests["reads"].phase = "told" /\ requests["reads"] # Nothing /\ requests' = Ended("reads")
  BY DEF ReadTaken, Nothing
<1>3. \A m \in requests["reads"].lines : m[1] = messenger.selected
  BY <1>2 DEF FriendInv, ReadsFit
<1>4. Messenger' /\ messenger'.messages = requests["reads"].lines /\ messenger'.selected = messenger.selected
  BY DEF ReadTaken, FriendInv, Messenger
<1>5. QED BY <1>1, <1>2, <1>3, <1>4, EndedFacts DEF FriendInv, ReadsFit, SaysFit, PrivateToFriend

LEMMA SaysKeep == ASSUME FriendInv, SayPrivately \/ SayServed PROVE FriendInv'
<1>1. "says" \in RequestKinds /\ "reads" \in RequestKinds \ {"says"}
  BY DEF RequestKinds
<1>2. PICK request : /\ requests' = [requests EXCEPT !["says"] = request] /\ messenger' = messenger
                     /\ request.phase = "told" => request.added[1] = request.player
  <2>1. CASE SayPrivately
    <3>1. [phase |-> "sent", player |-> messenger.selected, line |-> messenger.drafts[messenger.selected]].phase # "told"
      OBVIOUS
    <3>2. QED BY <2>1, <3>1 DEF SayPrivately, AskFor
  <2>2. CASE SayServed
    <3> DEFINE r == requests["says"]
               answer == [phase |-> "told", player |-> r.player, line |-> r.line, added |-> <<r.player, people'.lines[r.player]>>]
    <3>1. answer.added[1] = answer.player
      OBVIOUS
    <3>2. requests' = [requests EXCEPT !["says"] = answer] /\ messenger' = messenger
      BY <2>2 DEF SayServed, Told
    <3> HIDE DEF answer
    <3>3. QED BY <3>1, <3>2
  <2>3. QED BY <2>1, <2>2
<1>3. QED BY <1>1, <1>2, SetFacts DEF FriendInv, Messenger, ReadsFit, SaysFit, PrivateToFriend

LEMMA SayTakenKeeps == ASSUME FriendInv, SayTaken PROVE FriendInv'
<1> DEFINE r == requests["says"]
<1>1. "says" \in RequestKinds /\ "reads" \in RequestKinds \ {"says"}
  BY DEF RequestKinds
<1>2. r.phase = "told" /\ r # Nothing /\ requests' = Ended("says")
  BY DEF SayTaken, Nothing
<1>3. r.added[1] = r.player
  BY <1>2 DEF FriendInv, SaysFit
<1>4. /\ Messenger' /\ messenger'.selected = messenger.selected
      /\ messenger'.messages = IF messenger.selected = r.player THEN messenger.messages \cup {r.added} ELSE messenger.messages
  BY DEF SayTaken, FriendInv, Messenger
<1>5. PrivateToFriend'
  BY <1>3, <1>4 DEF FriendInv, PrivateToFriend
<1>6. QED BY <1>1, <1>2, <1>4, <1>5, EndedFacts DEF FriendInv, ReadsFit, SaysFit

LEMMA RestKeeps ==
    ASSUME FriendInv, OtherPlayers \/ UNCHANGED friendVars \/ (\E kind \in RequestKinds : Lost(kind))
                      \/ \E line \in Lines \cup {NoLine} : Write(line)
    PROVE  FriendInv'
<1>1. CASE OtherPlayers \/ UNCHANGED friendVars
  BY <1>1 DEF OtherPlayers, friendVars, FriendInv, Messenger, ReadsFit, SaysFit, PrivateToFriend
<1>2. ASSUME NEW kind \in RequestKinds, Lost(kind) PROVE FriendInv'
  <2>1. requests' = Ended(kind) /\ messenger' = messenger
    BY <1>2 DEF Lost
  <2>2. "reads" \in RequestKinds /\ "says" \in RequestKinds
    BY DEF RequestKinds
  <2>3. QED BY <2>1, <2>2, EndedFacts, OtherRequests
<1>3. ASSUME NEW line \in Lines \cup {NoLine}, Write(line) PROVE FriendInv'
  <2>1. Messenger' /\ messenger'.selected = messenger.selected /\ messenger'.messages = messenger.messages
    BY <1>3 DEF Write, FriendInv, Messenger
  <2>2. QED BY <1>3, <2>1 DEF Write, FriendInv, ReadsFit, SaysFit, PrivateToFriend
<1>4. QED BY <1>1, <1>2, <1>3

LEMMA FriendStep == FriendInv /\ [FriendNext]_friendVars => FriendInv'
<1> SUFFICES ASSUME FriendInv, [FriendNext]_friendVars PROVE FriendInv'
  OBVIOUS
<1>1. CASE \/ ReadFriends \/ MutateServed \/ \E kind \in {"friends", "mutate"} : ListServed(kind)
           \/ \E p \in Players, relation \in Relations : Mutate(p, relation)
  BY <1>1, ListsKeep
<1>2. ASSUME NEW kind \in {"friends", "mutate"}, ListTaken(kind) PROVE FriendInv'
  BY <1>2, ListTakenKeeps
<1>3. CASE ClosePrivate \/ \E p \in Players : OpenPrivate(p)
  BY <1>3, ChatsKeep
<1>4. CASE ReadPrivate \/ ReadServed \/ ReadTaken
  BY <1>4, ReadsKeep, ReadTakenKeeps
<1>5. CASE SayPrivately \/ SayServed \/ SayTaken
  BY <1>5, SaysKeep, SayTakenKeeps
<1>6. CASE OtherPlayers \/ UNCHANGED friendVars \/ (\E kind \in RequestKinds : Lost(kind))
           \/ \E line \in Lines \cup {NoLine} : Write(line)
  BY <1>6, RestKeeps
<1>7. QED BY <1>1, <1>2, <1>3, <1>4, <1>5, <1>6 DEF FriendNext

\* Nothing of one private conversation is shown in another, whichever answer comes when and
\* whichever is lost: for any players and any lines.
THEOREM ConversationsStayPrivate == FriendSpec => []PrivateToFriend
<1>1. FriendInv => PrivateToFriend
  BY DEF FriendInv
<1>2. QED BY <1>1, FriendInitially, FriendStep, PTL DEF FriendSpec

===============================================================================
