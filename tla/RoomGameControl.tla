--------------------------- MODULE RoomGameControl ---------------------------
(***************************************************************************)
(* The tables of a room as one client shows them                           *)
(* (client/src/components/RoomGameControl.tsx with GameCommandClient.ts,   *)
(* TableCard.tsx, TableControls.tsx, EndGameControl.tsx, RuleProposal.tsx, *)
(* GameMenu.tsx): a poll every second, at most one operation of the lobby  *)
(* and at most one action of a game under way, and the window in which a   *)
(* table is open.  A table is its position among the tables of the room.   *)
(*                                                                         *)
(* `generation' of the code is compared for equality only: a request is    *)
(* `valid' while it has not moved on.  Aborted and lost requests may still *)
(* be carried out, as `TablesElsewhere' is.                                *)
(***************************************************************************)
EXTENDS Naturals, Sequences, FiniteSetsExt

CONSTANTS
    MaxTables,      \* bound of the model: tables of the room
    MaxVersion,     \* bound of the model: changes of the room that are told apart
    MaxRenewals     \* bound of the model: changes of language or of the session

ASSUME RoomAssumption == MaxTables \in Nat \ {0} /\ MaxVersion \in Nat /\ MaxRenewals \in Nat

VARIABLES
    lobby,        \* the tables of the room, and how often anything about them has changed
    ctl,        \* state and refs of the component
    poll,       \* the chain of refreshes
    op,         \* what `pending' stands for
    renewals
tableVars == <<lobby, ctl, poll, op, renewals>>

Ids == 1 .. MaxTables
NoId == 0
Stages == {"open", "started", "finished", "ended"}      \* open or locked are one
Entries == {"watch", "seat", "queue"}       \* TableEntry
Operations == {"return", "join", "create", "lobby", "leave", "end", "leavePrevious"} \cup Entries

-------------------------------------------------------------------------------
(* The server, as this client meets it. *)

Known == 1 .. Len(lobby.tables)
Open(s) == {t \in 1 .. Len(s.tables) : s.tables[t].stage # "ended"}
Own(s) == {t \in Open(s) : s.tables[t].mine}
Default(s) == IF Own(s) # {} THEN Min(Own(s)) ELSE IF Open(s) # {} THEN Max(Open(s)) ELSE NoId

NoSnapshot == [match |-> NoId, stage |-> "loading", mine |-> FALSE, tables |-> {}, version |-> 0]

\* The snapshot for whoever asks for table t, or for none.
Snapshot(s, t) ==
    LET shown == IF t \in 1 .. Len(s.tables) THEN t ELSE Default(s)
    IN [match |-> shown, stage |-> IF shown = NoId THEN "empty" ELSE s.tables[shown].stage,
        mine |-> shown \in Own(s), tables |-> Open(s), version |-> s.version]

Changed(tables) == [tables |-> tables, version |-> lobby.version + 1]
Stage(t, stage) == Changed([lobby.tables EXCEPT ![t].stage = stage])
Seat(t, mine) == Changed([lobby.tables EXCEPT ![t].mine = mine])
Added(mine) == Changed(Append(lobby.tables, [stage |-> "open", mine |-> mine]))
Room == lobby.version < MaxVersion

\* What others do, and what is carried out for requests nobody waits for.
TablesElsewhere ==
    /\ Room
    /\ \/ \E t \in Open(lobby), stage \in {"started", "finished", "ended"} : lobby' = Stage(t, stage)
       \/ \E t \in Open(lobby) : lobby' = Seat(t, ~lobby.tables[t].mine)
       \/ Len(lobby.tables) < MaxTables /\ lobby' = Added(FALSE)
    /\ UNCHANGED <<ctl, poll, op, renewals>>

-------------------------------------------------------------------------------
(* The component *)

NoOp == [kind |-> "none"]
Due == [phase |-> "due"]
UiBusy == ctl.busy \/ ~ctl.active \/ ~ctl.synced
CanSend == ctl.active /\ ctl.synced /\ ctl.command = NoId /\ op = NoOp
Visible == ctl.open /\ ctl.live /\ ctl.snap.match # NoId
Quiet == ctl.conflict = NoId      \* the dialog about another seat covers the rest

\* The effects that follow a new snapshot: a conflict with a table that is over, an
\* invitation that opens its table, and a table that has ended and is closed.
Rendered(c, snap) ==
    LET cleared == IF c.conflict \in Ids \ snap.tables THEN [c EXCEPT !.conflict = NoId] ELSE c
        opens == /\ c.asked.entry = "watch" /\ c.asked.match = snap.match /\ snap.match # NoId
                 /\ snap.stage # "ended" /\ c.invited # c.asked.match
        opened == IF opens THEN [cleared EXCEPT !.invited = snap.match, !.live = TRUE, !.open = TRUE] ELSE cleared
        ends == snap.stage = "ended" /\ <<c.snap.match, c.snap.stage>> # <<snap.match, snap.stage>>
    IN [opened EXCEPT !.snap = snap, !.selected = IF ends THEN NoId ELSE @,
                      !.live = @ /\ ~ends, !.open = @ /\ ~ends]

\* The effect of refreshing runs again: it aborts the refresh and the operation under way,
\* which ends without a result, and nothing is in step until the next snapshot.
Aborts == op.kind # "leavePrevious"
\* Mutant of Ticked: an operation that is aborted leaves the controls disabled.
TickedBusy(c) ==
    /\ ctl' = [c EXCEPT !.synced = FALSE]
    /\ op' = IF Aborts THEN NoOp ELSE op
    /\ poll' = Due
Ticked(c) ==
    /\ ctl' = [c EXCEPT !.synced = FALSE, !.busy = @ /\ (op = NoOp \/ ~Aborts)]
    /\ op' = IF Aborts THEN NoOp ELSE op
    /\ poll' = Due

\* ---- Refreshing
PollRead ==
    /\ ctl.active /\ poll = Due /\ op = NoOp
    /\ poll' = [phase |-> "told", valid |-> TRUE, had |-> ctl.command # NoId,
                snap |-> Snapshot(lobby, ctl.selected)]
    /\ UNCHANGED <<lobby, ctl, op, renewals>>

Settled(c, snap) ==
    ctl' = IF poll.valid
           THEN Rendered([c EXCEPT !.synced = TRUE, !.failed = FALSE, !.busy = @ /\ ~poll.had], snap)
           ELSE c

\* reconcile: nothing is pending, or it belongs to another match and is given up, or it is sent.
PollTold ==
    /\ poll.phase = "told"
    /\ IF poll.had /\ poll.valid /\ poll.snap.match = ctl.command
       THEN poll' = [poll EXCEPT !.phase = "acting"] /\ UNCHANGED ctl
       ELSE poll' = Due /\ Settled(IF poll.had /\ poll.valid THEN [ctl EXCEPT !.command = NoId] ELSE ctl, poll.snap)
    /\ UNCHANGED <<lobby, op, renewals>>

\* The action is carried out, or was before; or it is rejected or refused for good, and the
\* earlier snapshot stands.
ActServed ==
    /\ poll.phase = "acting"
    /\ \/ /\ ctl.command \in Own(lobby) /\ lobby.tables[ctl.command].stage = "started"
          /\ \/ Room /\ \E stage \in {"started", "finished"} : lobby' = Stage(ctl.command, stage)
             \/ UNCHANGED lobby
          /\ poll' = [poll EXCEPT !.phase = "acted", !.snap = Snapshot(lobby', ctl.command)]
       \/ UNCHANGED lobby /\ poll' = [poll EXCEPT !.phase = "acted"]
    /\ UNCHANGED <<ctl, op, renewals>>

ActTaken ==
    /\ poll.phase = "acted"
    /\ Settled([ctl EXCEPT !.command = NoId], poll.snap)
    /\ poll' = Due
    /\ UNCHANGED <<lobby, op, renewals>>

\* An answer that is lost, late, or says nothing of the action.
PollFails ==
    /\ poll # Due
    /\ ctl' = IF poll.valid THEN [ctl EXCEPT !.synced = FALSE, !.failed = TRUE] ELSE ctl
    /\ poll' = Due
    /\ UNCHANGED <<lobby, op, renewals>>

\* ---- An action of the game, from the open table of a player.
GameAction ==
    /\ CanSend /\ Visible /\ Quiet /\ ~UiBusy /\ ctl.snap.stage = "started" /\ ctl.snap.mine
    /\ Ticked([ctl EXCEPT !.command = ctl.snap.match, !.busy = TRUE])
    /\ UNCHANGED <<lobby, renewals>>

\* ---- Operations of the lobby, one at a time.
\* Mutant of Began: the generation does not move on.
BeganUnnoticed(kind, t) ==
    /\ op = NoOp
    /\ op' = [kind |-> kind, table |-> t, valid |-> TRUE, phase |-> "sent"]
    /\ ctl' = [ctl EXCEPT !.busy = TRUE]
    /\ UNCHANGED <<lobby, poll, renewals>>
Began(kind, t) ==
    /\ op = NoOp
    /\ op' = [kind |-> kind, table |-> t, valid |-> TRUE, phase |-> "sent"]
    /\ ctl' = [ctl EXCEPT !.busy = TRUE]
    /\ poll' = IF poll = Due \/ kind = "leavePrevious" THEN poll ELSE [poll EXCEPT !.valid = FALSE]
    /\ UNCHANGED <<lobby, renewals>>

\* returnToGame: the notice about a table that was collapsed.
ReturnToGame ==
    /\ ~UiBusy /\ Quiet /\ ~ctl.open /\ ctl.live /\ ctl.snap.match # NoId
    /\ Began("return", ctl.selected)
\* act(true): the invitation under an open table.
Join == CanSend /\ Quiet /\ Visible /\ ctl.snap.stage = "open" /\ ~ctl.snap.mine /\ ~UiBusy /\ Began("join", ctl.snap.match)
\* act(false): the dialog, with a name typed in.
CreateTable == CanSend /\ Quiet /\ ctl.open /\ ~ctl.live /\ ~UiBusy /\ Began("create", NoId)
\* lobbyAction: the controls of the table, and votes on its rules.
LobbyAction ==
    /\ CanSend /\ Quiet /\ ctl.snap.match # NoId /\ ~UiBusy
    /\ \/ (Visible \/ ~ctl.open) /\ Began("lobby", ctl.snap.match)
       \/ Visible /\ ctl.snap.mine /\ \E kind \in {"leave", "end"} : Began(kind, ctl.snap.match)
\* tableEntry: what the card of a table offers.
CardEntries(t) == {"watch"} \cup (IF t \in Known /\ lobby.tables[t].stage = "open" THEN {"seat", "queue"} ELSE {"queue"})
EnterTable(t, entry) == ~UiBusy /\ Quiet /\ ~ctl.open /\ t \in ctl.snap.tables /\ Began(entry, t)
\* A link or an invitation that asks for a seat takes it once, as soon as its table is shown.
AutoEnter ==
    /\ ctl.asked.entry # "watch" /\ ctl.asked.match = ctl.snap.match /\ ~UiBusy
    /\ ctl.entered # ctl.asked
    /\ op = NoOp
    /\ op' = [kind |-> ctl.asked.entry, table |-> ctl.asked.match, valid |-> TRUE, phase |-> "sent"]
    /\ ctl' = [ctl EXCEPT !.busy = TRUE, !.entered = ctl.asked]
    /\ poll' = IF poll = Due THEN poll ELSE [poll EXCEPT !.valid = FALSE]
    /\ UNCHANGED <<lobby, renewals>>
LeavePrevious == ctl.conflict # NoId /\ ~ctl.busy /\ Began("leavePrevious", ctl.conflict)

\* The table that stands in the way of a seat at t.
InTheWay(t) == Own(lobby) \ {t}
Replied(s, t) == op' = [kind |-> op.kind, table |-> op.table, valid |-> op.valid, phase |-> "ok", snap |-> Snapshot(s, t)]
Refused(t) == op' = [kind |-> op.kind, table |-> op.table, valid |-> op.valid, phase |-> "refused", conflict |-> t]

OpServed ==
    /\ op # NoOp /\ op.phase = "sent"
    /\ LET t == op.table IN
       \/ /\ op.kind \in {"return", "watch"}
          /\ UNCHANGED lobby /\ Replied(lobby, t)
       \/ /\ op.kind \in {"join", "seat"} /\ t \in Open(lobby) /\ InTheWay(t) = {}
          /\ \/ t \in Own(lobby) /\ UNCHANGED lobby
             \/ Room /\ lobby.tables[t].stage = "open" /\ lobby' = Seat(t, TRUE)
          /\ Replied(lobby', t)
       \/ /\ op.kind = "create" /\ Own(lobby) = {} /\ Room /\ Len(lobby.tables) < MaxTables
          /\ lobby' = Added(TRUE) /\ Replied(lobby', Len(lobby'.tables))
       \/ /\ op.kind \in {"lobby", "queue"} /\ t \in Open(lobby) /\ Room
          /\ \E stage \in {"open", "started"} : lobby' = Stage(t, stage)
          /\ Replied(lobby', t)
       \/ /\ op.kind \in {"leave", "leavePrevious"} /\ t \in Open(lobby) /\ Room
          /\ lobby' = (IF lobby.tables[t].stage = "started" THEN Stage(t, "ended") ELSE Seat(t, FALSE))
          /\ Replied(lobby', t)
       \/ /\ op.kind = "end" /\ t \in Open(lobby) /\ Room
          /\ lobby' = Stage(t, "ended") /\ Replied(lobby', t)
       \/ /\ UNCHANGED lobby
          /\ Refused(IF op.kind \in {"join", "seat", "create"} /\ InTheWay(t) # {} THEN Min(InTheWay(t)) ELSE NoId)
    /\ UNCHANGED <<ctl, poll, renewals>>

\* The result is shown only if nothing has moved on.
Succeeded(c) ==
    CASE op.kind = "return" -> Rendered([c EXCEPT !.live = op.snap.match # NoId, !.open = TRUE], op.snap)
      [] op.kind \in {"join", "create"} \cup Entries ->
           Rendered([c EXCEPT !.selected = op.snap.match, !.live = TRUE, !.open = TRUE], op.snap)
      [] op.kind = "leave" ->
           Rendered([c EXCEPT !.selected = op.snap.match, !.live = FALSE, !.open = FALSE], op.snap)
      [] op.kind \in {"lobby", "end"} -> Rendered([c EXCEPT !.selected = op.snap.match], op.snap)
      [] op.kind = "leavePrevious" -> [c EXCEPT !.conflict = NoId]
Declined(c) ==
    IF op.kind \in {"join", "seat", "queue", "create"} /\ op.conflict # NoId
    THEN [c EXCEPT !.conflict = op.conflict, !.open = @ /\ op.kind \in Entries]
    ELSE c

OpAnswered ==
    /\ op # NoOp /\ op.phase \in {"ok", "refused"}
    /\ LET c == [ctl EXCEPT !.busy = FALSE]
           shown == IF ~op.valid THEN c ELSE IF op.phase = "ok" THEN Succeeded(c) ELSE Declined(c)
       IN IF op.kind \in Entries
          THEN ctl' = [shown EXCEPT !.synced = FALSE] /\ poll' = Due
          ELSE ctl' = shown /\ UNCHANGED poll
    /\ op' = NoOp
    /\ UNCHANGED <<lobby, renewals>>

\* Mutant of OpLost: an error leaves the controls disabled.
OpLostBusy ==
    /\ op # NoOp /\ op' = NoOp
    /\ UNCHANGED <<lobby, ctl, poll, renewals>>

\* Ten seconds, or no network: an error on the screen.
OpLost ==
    /\ op # NoOp
    /\ IF op.kind \in Entries THEN ctl' = [ctl EXCEPT !.busy = FALSE, !.synced = FALSE] /\ poll' = Due
                              ELSE ctl' = [ctl EXCEPT !.busy = FALSE] /\ UNCHANGED poll
    /\ op' = NoOp
    /\ UNCHANGED <<lobby, renewals>>

\* ---- Windows
Window(c) == ctl' = c /\ UNCHANGED <<lobby, poll, op, renewals>>
CollapseGame == ctl.open /\ Quiet /\ Window([ctl EXCEPT !.open = FALSE])
OpenDialog ==
    /\ Quiet
    /\ (~ctl.open /\ ~ctl.busy /\ ctl.active) \/ (Visible /\ ctl.snap.stage \in {"finished", "ended"})
    /\ Window([ctl EXCEPT !.live = FALSE, !.open = TRUE])
StayAsObserver == ctl.conflict # NoId /\ Window([ctl EXCEPT !.conflict = NoId])

\* Retry in the room, and in the dialog, where an operation may be under way.
RetryShown ==
    /\ ctl.failed /\ ctl.active
    /\ (~ctl.open /\ ~ctl.busy) \/ (ctl.open /\ ~ctl.live)
    /\ Ticked(ctl)
    /\ UNCHANGED <<lobby, renewals>>

\* An invitation to another table, accepted while the room is shown.  What was asked for in
\* the lobby still goes with the table it was asked for.
Invited(t) ==
    /\ t \in Known /\ ctl.asked.match # t
    /\ LET asked == IF ctl.linked.match = t THEN ctl.linked ELSE [match |-> t, entry |-> "watch"]
       IN Ticked(Rendered([ctl EXCEPT !.asked = asked, !.selected = t], ctl.snap))
    /\ UNCHANGED <<lobby, renewals>>

Expire ==
    /\ ctl.active /\ Ticked([ctl EXCEPT !.active = FALSE])
    /\ UNCHANGED <<lobby, renewals>>

\* Another language, chosen in the menu of the table, or a new session: a new transport and
\* a new commandClient, which knows nothing of the action of the old one.
Renew ==
    /\ renewals < MaxRenewals /\ renewals' = renewals + 1
    /\ Ticked([ctl EXCEPT !.active = TRUE, !.command = NoId])
    /\ UNCHANGED lobby

TableInit ==
    /\ lobby \in [tables : UNION {[1 .. n -> [stage : {"open", "started"}, mine : {FALSE}]] : n \in 0 .. 1}
                         \cup {<<[stage |-> stage, mine |-> TRUE]>> : stage \in {"open", "started"}},
                version : {0}]
    /\ \E asked \in {[match |-> NoId, entry |-> "watch"]} \cup [match : Known, entry : Entries] :
         ctl = [snap |-> NoSnapshot, live |-> FALSE, open |-> FALSE, selected |-> asked.match, busy |-> FALSE,
                synced |-> FALSE, failed |-> FALSE, command |-> NoId, conflict |-> NoId, active |-> TRUE,
                linked |-> asked, asked |-> asked, invited |-> NoId, entered |-> [match |-> NoId, entry |-> "watch"]]
    /\ poll = Due /\ op = NoOp /\ renewals = 0

Refreshing == PollRead \/ PollTold \/ ActServed \/ ActTaken \/ PollFails
Operating ==
    \/ ReturnToGame \/ Join \/ CreateTable \/ LobbyAction \/ AutoEnter \/ LeavePrevious
    \/ OpServed \/ OpAnswered \/ OpLost
    \/ \E t \in Ids : \E entry \in CardEntries(t) : EnterTable(t, entry)
TableNext ==
    \/ TablesElsewhere \/ Refreshing \/ GameAction \/ Operating
    \/ CollapseGame \/ OpenDialog \/ StayAsObserver \/ RetryShown \/ Expire \/ Renew
    \/ \E t \in Ids : Invited(t)

TableSpec == TableInit /\ [][TableNext]_tableVars

(***************************************************************************)
(* A request ends within ten seconds; and however often answers are lost   *)
(* or given up, one of many attempts comes through.                        *)
(***************************************************************************)
TableFairness ==
    /\ WF_tableVars(OpServed \/ OpAnswered \/ OpLost)
    /\ SF_tableVars(PollRead) /\ SF_tableVars(PollTold)
    /\ SF_tableVars(ActServed) /\ SF_tableVars(ActTaken)
FairTableSpec == TableSpec /\ TableFairness

-------------------------------------------------------------------------------
\* What is shown of the room never goes back, whatever order answers come in.
\* (docs/reliable-game-actions.md: effect cancellation ignores late responses)
ShownNeverStale == [][ctl'.snap.version >= ctl.snap.version]_tableVars

\* An open table that can be acted on is the one that was chosen, by a card, a link, an
\* invitation or by creating it, and never one that the server fell back on.
ShowsSelected == ctl.live /\ ctl.synced /\ op = NoOp => ctl.selected = ctl.snap.match

\* The controls are disabled exactly while something is unresolved.
\* (docs/reliable-game-actions.md: controls are disabled while the action is unresolved)
DisabledWhileUnresolved == ctl.busy <=> op # NoOp \/ ctl.command # NoId

\* Controls that are disabled by a request come back, or the session has ended.
ControlsReturn == ctl.busy ~> ~ctl.busy \/ ~ctl.active

\* An action is given up only for an answer to it, or when its match is no longer shown.
\* (docs/reliable-game-actions.md: keeps one unresolved action and retries that exact request
\* until the server confirms acceptance or rejection)
KeptUntilResolved ==
    [][ctl.command # NoId /\ ctl'.command # ctl.command =>
         poll.phase = "acted" \/ (poll.phase = "told" /\ poll.snap.match # ctl.command)]_tableVars
===============================================================================
