------------------------------ MODULE RoomsLobby ------------------------------
(***************************************************************************)
(* How a player comes into rooms and to tables                             *)
(* (client/src/screens/SharedRoomsScreen.tsx, InvitationPreview.tsx and    *)
(* invitations.ts): cards, codes, the list of active tables, links, and    *)
(* the bell.  Beside the room the screen keeps a table to show in it       *)
(* (linkedMatch) and, from the list of active tables, a seat to take there *)
(* (linkedEntry), which RoomGameControl asks for by itself.                *)
(***************************************************************************)
EXTENDS Naturals, FiniteSets

CONSTANTS
    LobbyRooms, LobbyTables, HomeOf,    \* the room of each table
    Absent,
    MaxAsked        \* bound of the model: things the player does outside the rooms

ASSUME RoomsLobbyAssumption ==
    /\ HomeOf \in [LobbyTables -> LobbyRooms] /\ Absent \notin LobbyRooms \cup LobbyTables /\ MaxAsked \in Nat

VARIABLES lobby, joins, preview, control, asked
lobbyVars == <<lobby, joins, preview, control, asked>>

Target(room, table) == [room |-> room, table |-> table]
Targets == {Target(room, Absent) : room \in LobbyRooms} \cup {Target(HomeOf[t], t) : t \in LobbyTables}
Invited(l) == IF l.code # Absent THEN l.code ELSE l.outer
RoomShown(l) == l.room # Absent /\ Invited(l) = Absent
InLobby == lobby.room = Absent /\ Invited(lobby) = Absent

\* roomOperationPending and busy
Operating == \E c \in joins : c.by # "preview"
Join(by, target) ==
    [by |-> by, room |-> target.room, table |-> target.table, run |-> IF by = "preview" THEN preview.run ELSE 0]

\* The preview on its run-th attempt, since it was mounted; "error" shows that one has failed.
Loading(run, since, phase) == [run |-> run, since |-> since, phase |-> phase, error |-> FALSE]
\* A new state of the screen: a preview begins to load when its invitation is another one, and the
\* room's tables are mounted when the room is shown anew.
Becomes(l, how) ==
    /\ lobby' = l
    /\ preview' = IF Invited(l) = Invited(lobby) THEN preview
                  ELSE Loading(preview.run + 1, preview.run + 1, IF Invited(l) = Absent THEN "none" ELSE "loading")
    /\ control' = IF RoomShown(l) /\ RoomShown(lobby) /\ l.room = lobby.room THEN control
                  ELSE [how |-> IF RoomShown(l) THEN how ELSE "none", key |-> Absent, live |-> Absent, sent |-> {}]
Counts == asked.count < MaxAsked /\ asked' = [asked EXCEPT !.count = @ + 1]

-------------------------------------------------------------------------------
(* What the player does *)

\* A card leads into a room that was joined before, and asks for the others.
EnterByCard(r) ==
    /\ InLobby /\ ~Operating /\ Counts /\ UNCHANGED joins
    /\ Becomes([lobby EXCEPT !.link = Absent, !.room = r], "card")
JoinListed(r, from) ==
    /\ InLobby /\ ~Operating /\ Counts
    /\ joins' = joins \cup {Join(from, Target(r, Absent))}
    /\ Becomes([lobby EXCEPT !.link = Absent], from)
\* A code or link typed in: a table is previewed, a room joined.
JoinByCode(target) ==
    IF target.table = Absent THEN JoinListed(target.room, "code")
    ELSE /\ InLobby /\ ~Operating /\ Counts /\ UNCHANGED joins
         /\ Becomes([lobby EXCEPT !.code = target], "code")
CreateFromLobby(r) ==
    /\ InLobby /\ ~Operating /\ Counts
    /\ joins' = joins \cup {Join("create", Target(r, Absent))}
    /\ UNCHANGED <<lobby, preview, control>>
EnterActiveTable(t, action) ==
    /\ InLobby /\ ~Operating /\ asked.count < MaxAsked
    /\ asked' = [asked EXCEPT !.count = @ + 1, !.entries = @ \cup {<<t, action>>}]
    /\ joins' = joins \cup {Join("active", Target(HomeOf[t], t))}
    /\ Becomes([lobby EXCEPT !.entry = <<t, action>>, !.link = t], "active")
ResumeTable(t) ==
    InLobby /\ Counts /\ Becomes([lobby EXCEPT !.link = t, !.room = HomeOf[t]], "resume") /\ UNCHANGED joins
\* The bell is at hand everywhere; an invitation to a room leaves the table as it was.
OpenFromBell(target) ==
    /\ Counts /\ UNCHANGED joins
    /\ Becomes([lobby EXCEPT !.room = target.room, !.link = IF target.table = Absent THEN @ ELSE target.table],
               "bell")
BackToLobby ==
    /\ RoomShown(lobby) /\ UNCHANGED <<joins, asked>>
    /\ Becomes([lobby EXCEPT !.room = Absent, !.link = Absent], "exit")
\* The room is left for good, or was deleted.
RoomIsLeft == lobby.room # Absent /\ Becomes([lobby EXCEPT !.room = Absent], "left") /\ UNCHANGED <<joins, asked>>

-------------------------------------------------------------------------------
(* Invitations by link *)

LinkOpened(target) == Counts /\ Becomes([lobby EXCEPT !.outer = target], "link") /\ UNCHANGED joins
Cleared(l) == [l EXCEPT !.code = Absent, !.outer = Absent]
DismissInvitation == Invited(lobby) # Absent /\ Becomes(Cleared(lobby), "link") /\ UNCHANGED <<joins, asked>>
Previewed(phase) == preview' = [preview EXCEPT !.phase = phase] /\ UNCHANGED <<lobby, control, asked>>
\* A room waits for the player to join it; the room of a table is entered at once.
PreviewLoaded ==
    /\ preview.phase = "loading"
    /\ IF Invited(lobby).table = Absent THEN Previewed("ready") /\ UNCHANGED joins
       ELSE Previewed("joining") /\ joins' = joins \cup {Join("preview", Invited(lobby))}
PreviewFailed ==
    /\ preview.phase = "loading" /\ preview' = [preview EXCEPT !.phase = "failed", !.error = TRUE]
    /\ UNCHANGED <<lobby, joins, control, asked>>
JoinPreviewed ==
    /\ preview.phase = "ready"
    /\ Previewed("joining") /\ joins' = joins \cup {Join("preview", Invited(lobby))}
\* An error stays in view while a room is joined a second time, and the retry beside it.
RetryPreview ==
    /\ preview.error /\ Counts
    /\ preview' = Loading(preview.run + 1, preview.since, "loading")
    /\ UNCHANGED <<lobby, joins, control>>

-------------------------------------------------------------------------------
(* Answers *)

\* Who was let in is in the room, wherever he has gone since.  A preview, dismissed or not, clears
\* the seat to take and every invitation.
JoinAnswered(c) ==
    /\ joins' = joins \ {c} /\ UNCHANGED asked
    /\ Becomes(IF c.by = "preview" THEN [Cleared(lobby) EXCEPT !.room = c.room, !.entry = Absent, !.link = c.table]
             ELSE [lobby EXCEPT !.room = c.room], c.by)
\* A preview hears of a table's join while it loads, of a room's as long as it is mounted.
JoinRefused(c) ==
    /\ joins' = joins \ {c} /\ UNCHANGED <<lobby, control, asked>>
    /\ preview' = IF c.by # "preview" \/ c.run < IF c.table = Absent THEN preview.since ELSE preview.run THEN preview
                  ELSE [preview EXCEPT !.error = TRUE, !.phase = IF @ # "joining" THEN @
                                                                 ELSE IF c.table = Absent THEN "ready" ELSE "failed"]

-------------------------------------------------------------------------------
(* The tables of the room *)

RequestedEntry == IF lobby.entry # Absent /\ lobby.entry[1] = lobby.link THEN lobby.entry[2] ELSE "none"
TableKnown == RoomShown(lobby) /\ lobby.link # Absent /\ HomeOf[lobby.link] = lobby.room
OpenLinked ==
    /\ TableKnown /\ RequestedEntry \in {"none", "watch"} /\ control.live # lobby.link
    /\ control' = [control EXCEPT !.live = lobby.link]
    /\ UNCHANGED <<lobby, joins, preview, asked>>
TakeRequested ==
    /\ TableKnown /\ RequestedEntry \in {"seat", "queue"} /\ control.key # <<lobby.link, RequestedEntry>>
    /\ LET key == <<lobby.link, RequestedEntry>> IN control' = [control EXCEPT !.key = key, !.sent = @ \cup {key}]
    /\ UNCHANGED <<lobby, joins, preview, asked>>

LobbyInit ==
    /\ lobby = [room |-> Absent, link |-> Absent, entry |-> Absent, code |-> Absent, outer |-> Absent]
    /\ joins = {} /\ preview = Loading(0, 0, "none")
    /\ control = [how |-> "none", key |-> Absent, live |-> Absent, sent |-> {}]
    /\ asked = [count |-> 0, entries |-> {}]
LobbyNext ==
    \/ \E r \in LobbyRooms : EnterByCard(r) \/ JoinListed(r, "card") \/ CreateFromLobby(r)
    \/ \E target \in Targets : JoinByCode(target) \/ OpenFromBell(target) \/ LinkOpened(target)
    \/ \E t \in LobbyTables : ResumeTable(t) \/ \E action \in {"watch", "seat", "queue"} : EnterActiveTable(t, action)
    \/ BackToLobby \/ RoomIsLeft
    \/ DismissInvitation \/ PreviewLoaded \/ PreviewFailed \/ JoinPreviewed \/ RetryPreview
    \/ \E c \in joins : JoinAnswered(c) \/ JoinRefused(c)
    \/ OpenLinked \/ TakeRequested

\* A seat, or a place in the queue, is asked for only at a table for which the player asked for it in
\* the list of active tables, and never in a room that a link has opened, whatever was asked before
\* and however late the answers came; the operations of the lobby exclude each other.
SeatsAsAsked ==
    /\ control.sent \subseteq asked.entries
    /\ control.how = "preview" => control.sent = {}
    /\ Cardinality({c \in joins : c.by # "preview"}) <= 1
===============================================================================
