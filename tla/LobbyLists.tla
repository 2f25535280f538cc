------------------------------ MODULE LobbyLists ------------------------------
(***************************************************************************)
(* The lists of the lobby: the active tables, which are loaded again and   *)
(* again (client/src/components/ActiveGames.tsx), the rooms visited last,  *)
(* which the device keeps (client/src/multiplayer/useRecentRooms.ts), and  *)
(* the cards of rooms, from which a player may leave a room                *)
(* (client/src/components/RoomCard.tsx).                                   *)
(***************************************************************************)
EXTENDS InOrder

CONSTANTS
    Visitors, ListedRooms, NoVisitor,  \* those who sign in on this device, and rooms
    Kept,                           \* rooms that the device keeps, 30 in the code
    TablesAttempts,                 \* attempts of one load, 3 in the code
    MaxLists                        \* bound of the model: turns of each list

ASSUME LobbyListsAssumption ==
    NoVisitor \notin Visitors \cup ListedRooms /\ {Kept, TablesAttempts} \subseteq Nat \ {0} /\ MaxLists \in Nat

VARIABLES tables, recent, cards     \* three lists that share nothing: each has its own initial and next states

-------------------------------------------------------------------------------
(* Active tables.  `requests' are those under way, those of former effects,   *)
(* which have been aborted, among them; `now' numbers the lists that the      *)
(* server has had, and `newest' is the newest of them that was ever shown.    *)

Lists(t) == tables' = t
Spend(x) == [x EXCEPT !.turns = @ + 1]
AsksForTables(t) == [t EXCEPT !.turns = @ + 1, !.requests = @ \cup {[effect |-> t.effect, id |-> t.turns, read |-> 0]}]

\* Mutant of Load: a load begins while another is under way.
LoadAnyway(t) ==
    IF t.hidden THEN Spend(t) ELSE AsksForTables([t EXCEPT !.pending = TRUE, !.attempt = 1, !.refreshing = TRUE])

\* load, called by a new effect, by the timer, and when the app becomes active.
Load(t) ==
    IF t.pending \/ t.hidden THEN Spend(t)
    ELSE AsksForTables([t EXCEPT !.pending = TRUE, !.attempt = 1, !.refreshing = TRUE])
\* A new effect aborts what the former one has under way.
NewEffect(t) == Load([t EXCEPT !.effect = @ + 1, !.pending = FALSE])
More == tables.turns < MaxLists

\* The button rests while a load is shown; "retry", beside an error, does not.
RefreshTables == More /\ ~tables.hidden /\ (~tables.refreshing \/ tables.error) /\ Lists(NewEffect(tables))
RenewTables == More /\ Lists(NewEffect(tables))
TablesTimer == More /\ Lists(Load(tables))
AppHidden == ~tables.hidden /\ Lists([tables EXCEPT !.hidden = TRUE])
AppActive == tables.hidden /\ More /\ Lists(Load([tables EXCEPT !.hidden = FALSE]))
TablesChange == More /\ Lists([Spend(tables) EXCEPT !.now = @ + 1])
TablesRead(r) == r.read = 0 /\ Lists([tables EXCEPT !.requests = (@ \ {r}) \cup {[r EXCEPT !.read = tables.now]}])
LoadEnds(t) == [t EXCEPT !.pending = FALSE, !.refreshing = FALSE]
TablesAnswer(r, ok) ==
    LET rest == [tables EXCEPT !.requests = @ \ {r}] IN
    Lists(IF r.effect # tables.effect THEN rest
          ELSE IF ok THEN [LoadEnds(rest) EXCEPT !.error = FALSE, !.shown = r.read,
                                                 !.newest = IF r.read > @ THEN r.read ELSE @]
          ELSE IF tables.attempt = TablesAttempts THEN [LoadEnds(rest) EXCEPT !.error = TRUE]
          ELSE [rest EXCEPT !.attempt = @ + 1])
\* After a failed attempt the load waits, and asks again.
TablesAgain ==
    /\ More /\ tables.pending /\ \A r \in tables.requests : r.effect # tables.effect
    /\ Lists(AsksForTables(tables))

-------------------------------------------------------------------------------
(* Rooms visited last.  The storage of the device does in turn what it is     *)
(* asked; `visited' is what it should hold for each visitor.                  *)

Recalls(r) == recent' = r
InFront(room, ids) ==
    LET row == <<room>> \o Without(ids, {room}) IN IF Len(row) > Kept THEN SubSeq(row, 1, Kept) ELSE row
RecentIds == IF recent.saved.user = recent.user THEN recent.saved.ids ELSE <<>>
\* An effect for the player and the room that are now there; the former one is no longer active.
Visiting(user, room) ==
    [Spend(recent) EXCEPT
        !.user = user, !.room = room, !.effect = @ + 1,
        !.queue = IF user = NoVisitor THEN @
                  ELSE Append(@, [do |-> "read", user |-> user, room |-> room, effect |-> recent.effect + 1])]
Visits == recent.turns < MaxLists
VisitorIn(user) == Visits /\ recent.user = NoVisitor /\ Recalls(Visiting(user, NoVisitor))
VisitorOut == Visits /\ recent.user # NoVisitor /\ Recalls(Visiting(NoVisitor, NoVisitor))
VisitRoom(room) == Visits /\ recent.user # NoVisitor /\ recent.room # room /\ Recalls(Visiting(recent.user, room))
\* What follows the read of an effect: the rooms are shown, and a visit is written down.
Recalled(o, ids) ==
    LET rest == [recent EXCEPT !.queue = Tail(@)]
        now == IF o.room = NoVisitor THEN ids ELSE InFront(o.room, ids)
        shows == [rest EXCEPT !.saved = [user |-> o.user, ids |-> now]]
    IN IF o.effect # recent.effect THEN rest
       ELSE IF o.room = NoVisitor THEN shows
       ELSE [shows EXCEPT !.visited[o.user] = InFront(o.room, @),
                          !.queue = Append(@, [do |-> "write", user |-> o.user, ids |-> now])]
StorageServes ==
    /\ recent.queue # <<>>
    /\ LET o == Head(recent.queue) IN
       Recalls(IF o.do = "read" THEN Recalled(o, recent.stored[o.user])
               ELSE [recent EXCEPT !.queue = Tail(@), !.stored[o.user] = o.ids])
\* What cannot be read counts as nothing; what cannot be written is forgotten.
StorageFails ==
    /\ recent.queue # <<>> /\ ~recent.failed
    /\ LET o == Head(recent.queue)
           next == IF o.do = "read" THEN Recalled(o, <<>>) ELSE [recent EXCEPT !.queue = Tail(@)]
       IN Recalls([next EXCEPT !.failed = TRUE])

-------------------------------------------------------------------------------
(* The card of a room.  `ended' says that the membership has ended since the  *)
(* card was mounted, or before; `ask' is the request as the card sees it, and *)
(* `late' a request of which the card no longer knows.                        *)

CardTurns(c) == cards' = c
NewCard == [confirming |-> FALSE, removing |-> FALSE, removed |-> FALSE, error |-> FALSE]
ConfirmRemove == ~cards.card.removed /\ ~cards.card.confirming /\ CardTurns([cards EXCEPT !.card.confirming = TRUE])
CancelRemove == cards.card.confirming /\ ~cards.card.removing /\ CardTurns([cards EXCEPT !.card.confirming = FALSE])
RemoveRoom ==
    /\ cards.turns < MaxLists /\ cards.card.confirming /\ ~cards.card.removing
    /\ CardTurns([Spend(cards) EXCEPT !.card.removing = TRUE, !.card.error = FALSE, !.ask = "sent", !.served = "no"])
\* The server ends the membership, or refuses while a game goes on.
RemoveServed ==
    /\ cards.ask # "none" /\ cards.served = "no"
    /\ \/ CardTurns([cards EXCEPT !.served = "ok", !.member = FALSE, !.ended = TRUE])
       \/ CardTurns([cards EXCEPT !.served = "refused"])
LateServed == cards.late /\ CardTurns([cards EXCEPT !.late = FALSE, !.member = FALSE, !.ended = TRUE])
RemoveLost == cards.ask = "sent" /\ CardTurns([cards EXCEPT !.ask = "lost"])
Unwatched(c) == [c EXCEPT !.ask = "none", !.late = @ \/ (c.ask # "none" /\ c.served = "no")]
RemoveEnds(ok) ==
    CardTurns([Unwatched(cards) EXCEPT !.card = [confirming |-> ~ok, removing |-> FALSE, removed |-> ok, error |-> ~ok]])
RemoveAnswered == cards.ask = "sent" /\ cards.served # "no" /\ RemoveEnds(cards.served = "ok")
\* After a lost answer the card looks whether the membership is gone; the deletion of a room does not look.
RemoveChecked == cards.ask = "lost" /\ (RemoveEnds(~cards.owner /\ ~cards.member) \/ RemoveEnds(FALSE))
\* The lobby is left, and shows a new card later; or the player is let in again.
RemountCard ==
    /\ cards.turns < MaxLists
    /\ CardTurns([Spend(Unwatched(cards)) EXCEPT !.card = NewCard, !.ended = ~cards.member])
MemberAgain == cards.turns < MaxLists /\ ~cards.member /\ CardTurns([Spend(cards) EXCEPT !.member = TRUE])

-------------------------------------------------------------------------------
TablesInit ==
    tables = Load([pending |-> FALSE, attempt |-> 0, refreshing |-> FALSE, error |-> FALSE, shown |-> 0, newest |-> 0,
                   requests |-> {}, effect |-> 0, hidden |-> FALSE, now |-> 1, turns |-> 0])
RecentInit ==
    recent = [user |-> NoVisitor, room |-> NoVisitor, saved |-> [user |-> NoVisitor, ids |-> <<>>], effect |-> 0,
              queue |-> <<>>, stored |-> [u \in Visitors |-> <<>>], visited |-> [u \in Visitors |-> <<>>],
              failed |-> FALSE, turns |-> 0]
CardInit ==
    \E owner \in BOOLEAN :
        cards = [card |-> NewCard, ask |-> "none", served |-> "no", late |-> FALSE, member |-> TRUE, ended |-> FALSE,
                 owner |-> owner, turns |-> 0]
TablesNext ==
    \/ RefreshTables \/ RenewTables \/ TablesTimer \/ AppHidden \/ AppActive \/ TablesChange \/ TablesAgain
    \/ \E r \in tables.requests : TablesRead(r) \/ TablesAnswer(r, FALSE) \/ (r.read > 0 /\ TablesAnswer(r, TRUE))
RecentNext ==
    \/ \E user \in Visitors : VisitorIn(user)
    \/ VisitorOut \/ \E room \in ListedRooms \cup {NoVisitor} : VisitRoom(room)
    \/ StorageServes \/ StorageFails
CardNext ==
    \/ ConfirmRemove \/ CancelRemove \/ RemoveRoom \/ RemoveServed \/ LateServed \/ RemoveLost \/ RemoveAnswered \/ RemoveChecked
    \/ RemountCard \/ MemberAgain

-------------------------------------------------------------------------------
(* Properties *)

\* The tables shown never go back to an older list, and a player who is told that they are being
\* loaded waits for a load that is under way.
TablesCurrent ==
    /\ tables.shown = tables.newest
    /\ tables.refreshing /\ ~tables.hidden => tables.pending
\* When the storage has nothing more to do, the room that is visited comes first, and unless the storage
\* has failed, every room that was recorded for a visitor is kept for him and shown to him, however
\* quickly rooms and visitors followed each other.
RecentKept ==
    recent.queue = <<>> =>
        /\ recent.user # NoVisitor /\ recent.room # NoVisitor => RecentIds # <<>> /\ RecentIds[1] = recent.room
        /\ ~recent.failed => /\ recent.stored = recent.visited
                             /\ recent.user # NoVisitor => RecentIds = recent.visited[recent.user]
\* A card disappears only when the membership has ended, whichever answers were lost.
RemovedWhenLeft == cards.card.removed => cards.ended
===============================================================================
