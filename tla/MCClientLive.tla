----------------------------- MODULE MCClientLive -----------------------------
(***************************************************************************)
(* Three parts of the client in one run: the session with its room and     *)
(* transport, the tables of a room, and the notices.  They share nothing,  *)
(* so that `part' says which of them runs; the others stay as they began.  *)
(***************************************************************************)
EXTENDS RoomSession, RoomGameControl, Notices

VARIABLE part
liveVars == <<vars, tableVars, noticeVars, part>>

MCUrls == (Sessions \cup {None}) \X (Rooms \cup {None})

SessionRests == InitFrom(0, 0) /\ srv.place = [r \in Rooms |-> "outside"]
TablesRest == TableInit /\ lobby.tables = <<>>
NoticesRest == NoticeInit /\ waiting = {}

\* The session either meets an outage, or is opened a second time.
LiveInit ==
    \/ /\ part = "session" /\ TablesRest /\ NoticesRest
       /\ InitFrom(0, MaxOutages) \/ InitFrom(MaxMounts - 1, 0)
    \/ part = "tables" /\ TableInit /\ SessionRests /\ NoticesRest
    \/ part = "notices" /\ NoticeInit /\ SessionRests /\ TablesRest
LiveNext ==
    \/ part = "session" /\ Next /\ UNCHANGED <<tableVars, noticeVars, part>>
    \/ part = "tables" /\ TableNext /\ UNCHANGED <<vars, noticeVars, part>>
    \/ part = "notices" /\ NoticeNext /\ UNCHANGED <<vars, tableVars, part>>

\* The fairness of each module, for the part that runs.  As the part never changes, one
\* condition on the union of an action of each part is a condition on each of them.
Session(A) == part = "session" /\ A /\ UNCHANGED <<tableVars, noticeVars, part>>
Tables(A) == part = "tables" /\ A /\ UNCHANGED <<vars, noticeVars, part>>
Bell(A) == part = "notices" /\ A /\ UNCHANGED <<vars, tableVars, part>>
LiveSpec ==
    /\ LiveInit /\ [][LiveNext]_liveVars
    /\ WF_liveVars(Session(Poll) \/ Tables(OpServed \/ OpAnswered \/ OpLost) \/ Bell(ReadNotices))
    /\ WF_liveVars(Session(Timed /\ UNCHANGED sessionVars))
    /\ WF_liveVars(Session(Restored /\ UNCHANGED sessionVars))
    /\ SF_liveVars(Session(Answering) \/ Tables(PollRead) \/ Bell(ListServed))
    /\ SF_liveVars(Tables(PollTold) \/ Bell(ListServed /\ reading'.left = {}))
    /\ SF_liveVars(Tables(ActServed) \/ Bell(NoticesTaken))
    /\ SF_liveVars(Tables(ActTaken))

\* What is on the screen and has still to be settled, in each part: the negations of what
\* RoomSettles, ControlsReturn and NoticesSettle lead to.
Unsettled ==
    \/ InRoom(app) /\ ~conn.ready
    \/ ctl.busy /\ ctl.active
    \/ \E i \in Items : i \in bell.items \ waiting

\* A room that is shown is connected in the end, or gone; controls that wait for an answer
\* come back; a notice that was dealt with goes, whatever older list brought it back.
ScreensSettle == Unsettled ~> ~Unsettled
=============================================================================
