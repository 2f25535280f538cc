----------------------------- MODULE TableSeating -----------------------------
(***************************************************************************)
(* The tables of a room: who sits, waits and is offered a seat, how a      *)
(* roster is locked, played, completed and turned into the next match, and *)
(* the reservations kept for it in the durable store.                      *)
(*                                                                         *)
(* A handler runs under its match's lock, most of them under the catalog's *)
(* too, and is one action here, except where it waits for the store while  *)
(* the engine already holds a state that may be taken back: the commit of  *)
(* a match's last move and the start of a match. Meanwhile other tasks run *)
(* that take no match's lock: views of this table inside other tables'     *)
(* snapshots, requests to leave, and the creation of a table.              *)
(***************************************************************************)
EXTENDS Integers, InOrder, SequencesExt

CONSTANTS
    Users,
    Visitors,       \* users who may leave the room and enter it again
    Openers,        \* users who create tables
    Kinds,          \* the game types played
    Capacity,
    MaxTables,      \* bound of the model: tables created in the room
    MaxGames,       \* bound of the model: matches, next matches included
    MaxStarts,      \* bound of the model: starts of one match (Flush rounds)
    MaxWaiting,     \* bound of the model: users waiting at one table
    MaxFailures,    \* bound of the model: failing calls of the store
    RepliesLost,    \* may a failing call have been carried out
    Nobody, NoTable

ASSUME SeatingAssumption ==
    /\ Kinds \subseteq {"callbreak", "marriage", "flush"}
    /\ Capacity \in Nat \ {0, 1} /\ MaxGames \in Nat /\ MaxTables \in Nat
    /\ MaxStarts \in Nat /\ MaxWaiting \in Nat /\ MaxFailures \in Nat
    /\ RepliesLost \in BOOLEAN
    /\ Nobody \notin Users /\ Visitors \cup Openers \subseteq Users

Games == 1..MaxGames    \* in the order of their creation

\* GameTablePolicy.for_game
RequiresLock(t) == t.kind # "callbreak"
RequiresReplacement(t) == t.kind = "callbreak"
MinPlayers(t) == IF t.kind = "callbreak" THEN Capacity ELSE 2

VARIABLES
    members,    \* users in the room
    tables,     \* the hosted matches
    lock,       \* what a match's lock is held for across a call of the store
    leaving,    \* requests to leave an active match that wait for its lock
    ticking,    \* matches with an _expire_offers task
    tableRows,  \* active_table_players: each user's table
    gameRows,   \* active_game_players: each user's started match
    stored,     \* started matches in the store
    failures    \* failed store calls so far

db == <<tableRows, gameRows, stored>>
vars == <<members, tables, lock, leaving, ticking, db, failures>>

Seat == Users \cup {Nobody}
Table == [kind : Kinds, users : Seq(Users), departed : SUBSET Users, folded : SUBSET Users,
          phase : {"OPEN", "LOCKED", "STARTED", "COMPLETED", "ENDED"},
          engine : {"none", "playing", "finished"}, ended : BOOLEAN,
          next : Seq(Seat), releases : Seq([seat : 1..Capacity, by : Users]),
          offers : SUBSET [seat : 1..Capacity, to : Users], queue : Seq(Users),
          id : Games, previous : Games \cup {0},
          reserved : BOOLEAN, round : 0..MaxStarts, starts : 0..MaxStarts]
Match == Games \X (1..MaxStarts)    \* a durable game ID
Idle == [stage |-> "free", reservedHere |-> FALSE, engine |-> "none"]

ASSUME NoTableAssumption == NoTable \notin Table

TypeOK ==
    /\ members \subseteq Users
    /\ tables \in [Games -> Table \cup {NoTable}]
    /\ \A g \in Games : tables[g] # NoTable => Len(tables[g].users) <= Capacity
    /\ lock \in [Games -> [stage : {"free", "reserve", "start", "commit"},
                           reservedHere : BOOLEAN, engine : {"none", "finished"}]]
    /\ leaving \subseteq Users \X Games
    /\ ticking \subseteq Games
    /\ tableRows \in [Users -> Games \cup {0}]
    /\ gameRows \in [Users -> Match \cup {<<>>}]
    /\ stored \subseteq Match
    /\ failures \in 0..MaxFailures

-------------------------------------------------------------------------------
(* A table *)

Hosted == {g \in Games : tables[g] # NoTable}
NextGame == 1 + Cardinality(Hosted)

Finished(t) == t.kind # "flush" /\ t.engine = "finished"
FlushOpen(t) == t.kind = "flush" /\ t.engine # "playing"
Replaceable(t) ==
    t.phase # "LOCKED" /\ (t.ended \/ Finished(t) \/ (t.engine # "none" /\ FlushOpen(t)))

Seats(t) ==
    CASE t.next # << >> -> t.next
      [] t.next = << >> /\ t.kind = "marriage" /\ t.engine # "none" ->
           [i \in 1..Len(t.users) |-> IF t.users[i] \in t.departed THEN Nobody ELSE t.users[i]]
      [] OTHER -> Without(t.users, t.departed)

Seated(t) ==
    IF t.next # << >> THEN ToSet(t.next) \ {Nobody} ELSE ToSet(t.users) \ t.departed
Host(t) == LET taken == Without(Seats(t), {Nobody})
           IN IF taken = << >> THEN Nobody ELSE taken[1]
Creator(t) == IF t.users = << >> THEN Nobody ELSE t.users[1]
Offered(t) == {o.to : o \in t.offers}
\* Mutant of SeatOf: vacant seats are not counted.
SeatOfTaken(t, u) == SelectInSeq(Without(Seats(t), {Nobody}), LAMBDA v : v = u)
SeatOf(t, u) == SelectInSeq(Seats(t), LAMBDA v : v = u)

NewTable(u, g, kind) ==
    [kind |-> kind, users |-> <<u>>, departed |-> {}, folded |-> {}, phase |-> "OPEN",
     engine |-> "none", ended |-> FALSE, next |-> << >>, releases |-> << >>, offers |-> {},
     queue |-> << >>, id |-> g, previous |-> 0, reserved |-> FALSE, round |-> 0, starts |-> 0]

\* TableState.sync
Synced(t) ==
    CASE t.ended -> [t EXCEPT !.phase = "ENDED"]
      [] ~t.ended /\ Finished(t) /\ t.phase # "COMPLETED" ->
           [t EXCEPT !.phase = "COMPLETED",
                     !.next = [i \in 1..Len(t.users) |->
                                 IF t.users[i] \in t.departed THEN Nobody ELSE t.users[i]]]
      [] ~t.ended /\ t.phase = "STARTED" /\ FlushOpen(t) -> [t EXCEPT !.phase = "OPEN"]
      [] OTHER -> t

\* Players who left a round lose their seats when it is over.
FoldersGo(t) == t.folded # {} /\ (FlushOpen(t) \/ t.ended)
WithoutFolders(t) ==
    IF FoldersGo(t) THEN [t EXCEPT !.users = Without(@, t.folded),
                                   !.folded = {}]
                    ELSE t

\* Mutant of Offering: every vacancy is offered to the first in the queue.
OfferingToFirst(t) ==
    LET vacant == SelectSeq(t.releases, LAMBDA r : \A o \in t.offers : o.seat # r.seat)
        waiting == Without(t.queue, Offered(t))
    IN IF waiting = << >> THEN t
       ELSE [t EXCEPT !.offers = @ \cup {[seat |-> vacant[i].seat, to |-> waiting[1]] :
                                           i \in 1..Len(vacant)}]

\* Released seats are offered in the order of their release, to waiters in theirs.
Offering(t) ==
    IF t.phase # "COMPLETED" THEN t ELSE
    LET open == {n \in 1..Len(t.releases) :
                   /\ t.next[t.releases[n].seat] = Nobody
                   /\ \A o \in t.offers : o.seat # t.releases[n].seat}
        vacant == AtPositions(t.releases, open)
        waiting == Without(t.queue, Offered(t))
    IN [t EXCEPT !.offers = @ \cup
          {[seat |-> vacant[i].seat, to |-> waiting[i]] :
             i \in {n \in 1..Len(vacant) : n <= Len(waiting)}}]

\* Offers that are dead, and waiters who cannot take one: gone, seated or past their offer.
Dead(t, m, expired) == {o \in t.offers : t.phase # "COMPLETED" \/ o.to \notin m \/ o \in expired}
Pruned(t, m, expired) ==
    LET dead == Dead(t, m, expired) IN
    [t EXCEPT !.offers = @ \ dead,
              !.queue = Without(@, (Users \ m) \cup Seated(t) \cup {o.to : o \in dead})]

\* _advance_table on a table, for these room members and expired offers.
AdvancedFor(t, m, expired) == Offering(Pruned(Synced(WithoutFolders(t)), m, expired))

\* Does _advance_table release the reservations.
Releases(t) ==
    \/ FoldersGo(t)
    \/ t.phase = "STARTED" /\ Synced(WithoutFolders(t)).phase \in {"OPEN", "COMPLETED", "ENDED"}

Advanced(t) ==
    [AdvancedFor(t, members, {}) EXCEPT !.reserved = @ /\ ~Releases(t)]

\* _promote: the queue fills the free seats of an open table.
Promoted(t) ==
    LET free == Capacity - Len(t.users)
        n == IF Len(t.queue) < free THEN Len(t.queue) ELSE IF free > 0 THEN free ELSE 0
    IN [t EXCEPT !.users = @ \o SubSeq(t.queue, 1, n), !.queue = SubSeq(@, n + 1, Len(@))]

\* _release_seat, where it is allowed. An unstarted table that nobody is left at ends.
SeatReleased(t, u) ==
    IF t.phase = "COMPLETED" /\ RequiresReplacement(t)
    THEN [t EXCEPT !.next[SeatOf(t, u)] = Nobody,
                   !.releases = Append(@, [seat |-> SeatOf(t, u), by |-> u]),
                   !.departed = @ \cup {u}]
    ELSE IF t.engine # "none" /\ ~FlushOpen(t)
    THEN [t EXCEPT !.departed = @ \cup {u},
                   !.next = IF @ = << >> THEN @ ELSE [@ EXCEPT ![SeatOf(t, u)] = Nobody]]
    ELSE LET left == Promoted([t EXCEPT !.users = Without(@, {u}), !.phase = "OPEN"])
         IN IF left.users = << >> THEN [left EXCEPT !.ended = TRUE, !.phase = "ENDED"] ELSE left

SeatReleasable(t) == t.phase \notin {"STARTED", "LOCKED"}

\* _remove_from_queue
Dequeued(t, u) == [t EXCEPT !.queue = Without(@, {u}), !.offers = {o \in @ : o.to # u}]

\* _ensure_available: the user sits at no other table that has not ended.
Occupied(u) == {g \in Hosted : ~tables[g].ended /\ u \in Seated(tables[g])}
Available(u, g) == Occupied(u) \subseteq {g}

-------------------------------------------------------------------------------
(* The store's reservations (DurableStore) *)

\* _release_durable_players, for each of these matches: the rows of its last start, and
\* those of its table if it has reserved them.
Free(G) ==
    /\ gameRows' = [u \in Users |-> IF \E g \in G : gameRows[u] = <<g, tables[g].round>>
                                    THEN << >> ELSE gameRows[u]]
    /\ tableRows' = [u \in Users |->
         IF \E g \in G : tables[g].reserved /\ tableRows[u] = tables[g].id THEN 0
         ELSE tableRows[u]]
    /\ UNCHANGED stored

\* reserve_table
CanReserve(t) ==
    LET roster == ToSet(t.users) IN
    /\ \A u \in roster : gameRows[u] = <<>> /\ tableRows[u] \in {0, t.id}
    /\ \A u \in Users : tableRows[u] = t.id => u \in roster
RowsReserved(t) == [u \in Users |-> IF u \in ToSet(t.users) THEN t.id ELSE tableRows[u]]

Fails == failures < MaxFailures /\ failures' = failures + 1

-------------------------------------------------------------------------------

Init ==
    /\ members = Users
    /\ tables = [g \in Games |-> NoTable]
    /\ lock = [g \in Games |-> Idle]
    /\ leaving = {} /\ ticking = {}
    /\ tableRows = [u \in Users |-> 0] /\ gameRows = [u \in Users |-> <<>>] /\ stored = {}
    /\ failures = 0

Unlocked(g) == tables[g] # NoTable /\ lock[g] = Idle

\* Mutant of Settle: the reservations are released whatever the phase has become.
SettleFreeing(g, s, freed) ==
    LET a == Advanced(s) IN
    /\ tables' = [tables EXCEPT ![g] = [a EXCEPT !.reserved = FALSE]]
    /\ ticking' = IF a.offers # {} THEN ticking \cup {g} ELSE ticking
    /\ Free({g})

\* How a handler ends that leaves match g's table as s: another _advance_table. The
\* reservations may be released by the first one, by the command itself or by this one.
Settle(g, s, freed) ==
    LET free == freed \/ Releases(tables[g]) \/ Releases(s)
        a == Advanced(s)
    IN
    /\ tables' = [tables EXCEPT ![g] = [a EXCEPT !.reserved = @ /\ ~free]]
    /\ ticking' = IF a.offers # {} THEN ticking \cup {g} ELSE ticking
    /\ IF free THEN Free({g}) ELSE UNCHANGED db

\* A table as a command finds it, after the _advance_table it begins with.
Now(g) == Advanced(tables[g])

\* A command of user u that leaves the table of match g as s.
Command(u, g, s, freed) ==
    /\ u \in members
    /\ Settle(g, s, freed)
    /\ UNCHANGED <<members, lock, leaving, failures>>

-------------------------------------------------------------------------------
(* Seats and waiting *)

\* A creator who sits at a table that may be replaced ends that one: with the catalog's
\* lock, without the match's. Only the first table the creator sits at is looked at.
Create(u, kind) ==
    /\ u \in members
    /\ NextGame \in Games /\ Cardinality({g \in Hosted : tables[g].previous = 0}) < MaxTables
    /\ LET g == NextGame
           first == {h \in Occupied(u) : \A k \in Occupied(u) : h <= k}
       IN /\ \A h \in first : Replaceable(tables[h])
          /\ tables' = [n \in Games |->
               CASE n = g -> NewTable(u, g, kind)
                 [] n \in first -> [tables[n] EXCEPT !.ended = TRUE, !.phase = "ENDED",
                                                     !.reserved = FALSE]
                 [] OTHER -> tables[n]]
          /\ Free(first)
    /\ UNCHANGED <<members, lock, leaving, ticking, failures>>

Join(u, g, t) ==
    /\ t.phase = "OPEN"
    /\ u \notin Seated(t)
    /\ Len(t.users) < Capacity
    /\ Available(u, g)
    /\ Command(u, g, [t EXCEPT !.users = Append(@, u), !.queue = Without(@, {u})], FALSE)

JoinQueue(u, g, t) ==
    /\ Available(u, g)
    /\ t.phase # "ENDED"
    /\ u \notin Seated(t) \cup ToSet(t.queue)
    /\ Len(t.queue) < MaxWaiting
    /\ Command(u, g, [t EXCEPT !.queue = Append(@, u)], FALSE)

LeaveQueue(u, g, t) ==
    /\ u \in ToSet(t.queue) \cup Offered(t)
    /\ Command(u, g, Dequeued(t, u), FALSE)

\* leave-seat, and an abandonment that comes after the end.
LeaveSeat(u, g, t) ==
    /\ u \in Seated(t) /\ SeatReleasable(t)
    /\ Command(u, g, SeatReleased(t, u), FALSE)

\* The host, or the player who gave up the seat, offers it when nobody waits.
Invite(u, g, t, to) ==
    /\ t.phase = "COMPLETED" /\ t.queue = << >>
    /\ \E i \in 1..Len(t.releases) :
         LET r == t.releases[i] IN
         /\ u = Host(t) \/ u = r.by
         /\ \A o \in t.offers : o.seat # r.seat
         /\ to \in members \ (Seated(t) \cup Offered(t))
         /\ Command(u, g, [t EXCEPT !.offers = @ \cup {[seat |-> r.seat, to |-> to]}], FALSE)

AcceptSeat(u, g, t) ==
    \E o \in t.offers :
        /\ o.to = u /\ t.phase = "COMPLETED"
        /\ Available(u, g)
        /\ u \notin Seated(t) /\ t.next[o.seat] = Nobody
        /\ Command(u, g, [t EXCEPT !.next[o.seat] = u,
                                   !.releases = AtPositions(@, {n \in 1..Len(@) : @[n].seat # o.seat}),
                                   !.offers = @ \ {o},
                                   !.queue = Without(@, {u})], FALSE)

DeclineSeat(u, g, t) ==
    \E o \in t.offers :
        /\ o.to = u /\ t.phase = "COMPLETED"
        /\ Command(u, g, [t EXCEPT !.offers = @ \ {o}, !.queue = Without(@, {u})], FALSE)

-------------------------------------------------------------------------------
(* Locking, starting and playing a match *)

\* A table that has just reopened is advanced, and its rows freed, by a Refresh before.
Lock(u, g, t) ==
    /\ ~Releases(tables[g])
    /\ RequiresLock(t)
    /\ u = Host(t) /\ t.phase = "OPEN"
    /\ Len(t.users) \in MinPlayers(t)..Capacity
    /\ ToSet(t.users) \subseteq members
    /\ t.reserved \/ CanReserve(t)
    /\ tableRows' = IF t.reserved THEN tableRows ELSE RowsReserved(t)
    /\ tables' = [tables EXCEPT ![g] = [t EXCEPT !.phase = "LOCKED", !.reserved = TRUE]]
    /\ u \in members
    /\ UNCHANGED <<members, lock, leaving, ticking, gameRows, stored, failures>>

\* start, up to the store: the engine holds the new match and the table is started.
Start(u, g, t) ==
    /\ ~Releases(tables[g])
    /\ u \in members
    /\ ~t.ended /\ t.phase # "STARTED" /\ u = Creator(t)
    /\ t.engine = "none" \/ FlushOpen(t)
    /\ RequiresLock(t) => t.phase = "LOCKED"
    /\ Len(t.users) \in MinPlayers(t)..Capacity
    /\ ToSet(t.users) \subseteq members
    /\ t.offers = {} /\ t.releases = << >>
    /\ t.starts < MaxStarts
    /\ tables' = [tables EXCEPT ![g] = [t EXCEPT !.engine = "playing", !.phase = "STARTED"]]
    /\ lock' = [lock EXCEPT ![g] =
         [stage |-> IF t.reserved THEN "start" ELSE "reserve",
          reservedHere |-> FALSE, engine |-> t.engine]]
    /\ UNCHANGED <<members, leaving, ticking, db, failures>>

\* Mutant of Restored: a failed start is not taken back.
RestoredNot(g) == tables[g]

\* The table as a failed start finds it in its checkpoint.
Restored(g) ==
    [tables[g] EXCEPT !.phase = IF RequiresLock(tables[g]) THEN "LOCKED" ELSE "OPEN",
                      !.engine = lock[g].engine,
                      !.reserved = @ /\ ~lock[g].reservedHere]

\* _start_durable_state: the table's reservation.
ReserveForStart(g) ==
    /\ lock[g].stage = "reserve"
    /\ LET t == tables[g] IN
       \/ /\ CanReserve(t)
          /\ tableRows' = RowsReserved(t)
          /\ tables' = [tables EXCEPT ![g].reserved = TRUE]
          /\ lock' = [lock EXCEPT ![g] = [@ EXCEPT !.stage = "start", !.reservedHere = TRUE]]
          /\ UNCHANGED failures
       \/ /\ \/ ~CanReserve(t) /\ UNCHANGED <<tableRows, failures>>
             \/ Fails /\ UNCHANGED tableRows
             \/ Fails /\ RepliesLost /\ CanReserve(t) /\ tableRows' = RowsReserved(t)
          /\ tables' = [tables EXCEPT ![g] = Restored(g)]
          /\ lock' = [lock EXCEPT ![g] = Idle]
    /\ UNCHANGED <<members, leaving, ticking, gameRows, stored>>

\* start_owned refuses players of another match, and a match it already has: the retry of
\* a start presents another deal.
CanStart(g, m) ==
    /\ m \notin stored
    /\ \A u \in ToSet(tables[g].users) : gameRows[u] \in {<< >>, <<g, tables[g].round>>}

\* reserve_players, after a failed start: the last round's rows are taken back for the
\* players of the new one, and for none of them if one is in another match now.
Retaken(g, rows) ==
    LET t == tables[g]
        roster == ToSet(t.users)
    IN IF t.round # 0 /\ \A u \in roster : rows[u] = << >>
       THEN [u \in Users |-> IF u \in roster THEN <<g, t.round>> ELSE rows[u]]
       ELSE rows

\* Flush starts a match of its own each round, and releases the last one's players before;
\* the others start the hosted one.
StartOwned(g) ==
    /\ lock[g].stage = "start"
    /\ LET t == tables[g]
           n == t.starts + 1
           m == <<g, IF t.kind = "flush" THEN n ELSE 1>>
           released == [u \in Users |-> IF gameRows[u] = <<g, t.round>> THEN << >> ELSE gameRows[u]]
           started == /\ gameRows' = [u \in Users |-> IF u \in ToSet(t.users) THEN m ELSE released[u]]
                      /\ stored' = stored \cup {m}
       IN \/ /\ CanStart(g, m)
             /\ started
             /\ tables' = [tables EXCEPT ![g] =
                  Advanced([t EXCEPT !.round = m[2], !.starts = n])]
             /\ UNCHANGED <<tableRows, failures>>
          \/ /\ \/ /\ IF CanStart(g, m) THEN Fails ELSE UNCHANGED failures
                   /\ gameRows' = Retaken(g, released) /\ UNCHANGED stored
                \/ Fails /\ RepliesLost /\ CanStart(g, m) /\ started   \* nothing can be taken back
                \/ /\ t.round # 0 /\ Fails    \* of release_players
                   /\ gameRows' = gameRows \/ (RepliesLost /\ gameRows' = released)
                   /\ UNCHANGED stored
             /\ tables' = [tables EXCEPT ![g] =
                  [Restored(g) EXCEPT !.starts = IF t.kind = "flush" THEN n ELSE @]]
             /\ tableRows' = IF lock[g].reservedHere
                             THEN [u \in Users |-> IF tableRows[u] = t.id THEN 0 ELSE tableRows[u]]
                             ELSE tableRows
    /\ lock' = [lock EXCEPT ![g] = Idle]
    /\ UNCHANGED <<members, leaving, ticking>>

\* The match's last move, applied to the engine; what comes before it changes no seat.
LastMove(g) ==
    /\ Unlocked(g)
    /\ ~tables[g].ended /\ tables[g].engine = "playing"
    /\ tables' = [tables EXCEPT ![g].engine = "finished"]
    /\ lock' = [lock EXCEPT ![g] = [@ EXCEPT !.stage = "commit"]]
    /\ UNCHANGED <<members, leaving, ticking, db, failures>>

\* Committed and published, or taken back. An action whose commit failed publishes nothing.
Committed(g) ==
    /\ lock[g].stage = "commit"
    /\ lock' = [lock EXCEPT ![g] = Idle]
    /\ \/ Settle(g, tables[g], FALSE) /\ UNCHANGED failures
       \/ /\ Fails
          /\ tables' = [tables EXCEPT ![g].engine = "playing"]
          /\ UNCHANGED <<ticking, db>>
    /\ UNCHANGED <<members, leaving>>

-------------------------------------------------------------------------------
(* Leaving a match, ending it, and the next one *)

Abandon(u, g, t) ==
    /\ t.kind = "callbreak"
    /\ t.phase = "STARTED" /\ u \in Seated(t)
    /\ Command(u, g, [t EXCEPT !.departed = @ \cup {u}, !.ended = TRUE,
                               !.phase = "ENDED", !.queue = << >>], TRUE)

\* leave, before it takes a lock: a finished match is released, the table synced, and
\* a Marriage or Flush match that is being played is left by folding.
RequestLeave(u, g) ==
    /\ u \in members
    /\ tables[g] # NoTable
    /\ LET t == tables[g] IN
         /\ tables' = [tables EXCEPT ![g] = Synced([t EXCEPT !.reserved = @ /\ ~Finished(t)])]
         /\ IF Finished(t) THEN Free({g}) ELSE UNCHANGED db
         /\ leaving' = IF RequiresLock(t) /\ Synced(t).phase = "STARTED"
                       THEN leaving \cup {<<u, g>>} ELSE leaving
    /\ UNCHANGED <<members, lock, ticking, failures>>

\* The fold and its commit in one step. A fold that leaves one player ends the round.
FoldAndLeave(u, g) ==
    /\ Unlocked(g)
    /\ <<u, g>> \in leaving
    /\ leaving' = leaving \ {<<u, g>>}
    /\ u \in members
    /\ LET t == tables[g]
           gone == t.departed \cup t.folded \cup {u}
           after == IF t.engine # "playing" THEN {t.engine}
                    ELSE {"finished"} \cup
                         IF Len(Without(t.users, gone)) > 1
                         THEN {"playing"} ELSE {}
       IN \/ /\ u \notin ToSet(t.users) \/ u \in t.departed \cup t.folded
             /\ UNCHANGED <<tables, ticking, db>>
          \/ /\ u \in ToSet(t.users) \ (t.departed \cup t.folded)
             /\ t.kind = "flush" /\ t.engine # "none"
             /\ \E e \in after :
                  Settle(g, [t EXCEPT !.engine = e, !.folded = @ \cup {u}], FALSE)
          \/ /\ u \in ToSet(t.users) \ (t.departed \cup t.folded)
             /\ t.kind = "marriage" /\ t.engine # "none"
             /\ \E e \in after :
                  LET s == [t EXCEPT !.engine = e, !.departed = @ \cup {u},
                                     !.ended = @ \/ ToSet(t.users) \subseteq gone]
                      a == Advanced(s)
                      free == s.ended \/ Releases(s)
                  IN /\ tables' = [tables EXCEPT ![g] = [a EXCEPT !.reserved = @ /\ ~free]]
                     /\ gameRows' = [v \in Users |->
                          IF (v = u \/ free) /\ gameRows[v] = <<g, t.round>> THEN << >>
                          ELSE gameRows[v]]
                     /\ tableRows' = [v \in Users |->
                          IF (v = u \/ (free /\ t.reserved)) /\ tableRows[v] = t.id THEN 0
                          ELSE tableRows[v]]
                     /\ UNCHANGED <<ticking, stored>>
          \/ /\ u \in ToSet(t.users) /\ t.engine = "none"    \* the start failed meanwhile
             /\ LET s == [t EXCEPT !.users = Without(@, {u}),
                                   !.ended = @ \/ t.users = <<u>>]
                IN Settle(g, s, s.ended)
    /\ UNCHANGED <<members, lock, failures>>

End(u, g) ==
    /\ Unlocked(g)
    /\ u = Creator(tables[g]) \/ members = {u}
    /\ ~tables[g].ended /\ ~Finished(tables[g])
    /\ Command(u, g, [tables[g] EXCEPT !.ended = TRUE, !.queue = << >>], TRUE)

\* Mutant of NextMatch: the next match begins with vacant seats.
NextMatchUnfilled(u, g, t) ==
    /\ u \in members
    /\ \A h \in Hosted : tables[h].previous # g
    /\ NextGame \in Games
    /\ LET roster == Without(Seats(t), {Nobody})
           new == [NewTable(u, NextGame, t.kind) EXCEPT !.users = roster, !.queue = t.queue,
                                                !.id = t.id, !.previous = g]
       IN /\ ~t.ended
          /\ u = Host(t) /\ t.phase = "COMPLETED"
          /\ roster # << >>
          /\ ToSet(roster) \subseteq members
          /\ tables' = [tables EXCEPT ![g] = [t EXCEPT !.ended = TRUE, !.reserved = FALSE],
                                      ![NextGame] = Advanced(new)]
          /\ Free({g})
    /\ UNCHANGED <<members, lock, leaving, ticking, failures>>

\* The next match takes the seats, the table and its queue; the old one is over.
NextMatch(u, g, t) ==
    /\ u \in members
    /\ \A h \in Hosted : tables[h].previous # g
    /\ NextGame \in Games
    /\ LET roster == Without(Seats(t), {Nobody})
           new == [NewTable(u, NextGame, t.kind) EXCEPT !.users = roster, !.queue = t.queue,
                                                !.id = t.id, !.previous = g]
       IN /\ ~t.ended
          /\ u = Host(t) /\ t.phase = "COMPLETED"
          /\ Len(roster) >= (IF RequiresReplacement(t) THEN Capacity ELSE 1)
          /\ t.releases = << >>
          /\ ToSet(roster) \subseteq members
          /\ tables' = [tables EXCEPT ![g] = [t EXCEPT !.ended = TRUE, !.reserved = FALSE],
                                      ![NextGame] = Advanced(new)]
          /\ Free({g})
    /\ UNCHANGED <<members, lock, leaving, ticking, failures>>

-------------------------------------------------------------------------------
(* The room, and what happens without anybody's command *)

\* All tables are advanced for new members; the rows of the completed ones are released.
AdvanceAll(m, s) ==
    LET done == {g \in Hosted : Releases(tables[g]) \/ Releases(s[g])} IN
    /\ tables' = [g \in Games |->
         IF g \in Hosted THEN [AdvancedFor(s[g], m, {}) EXCEPT !.reserved = @ /\ g \notin done]
                         ELSE NoTable]
    /\ ticking' = ticking \cup {g \in Hosted : tables'[g].offers # {}}
    /\ Free(done)

EnterRoom(u) ==
    /\ u \notin members
    /\ \A g \in Hosted : lock[g] = Idle
    /\ members' = members \cup {u}
    /\ AdvanceAll(members', tables)
    /\ UNCHANGED <<lock, leaving, failures>>

\* room_departure at one table.
Departed(g, u) ==
    LET t == Dequeued(Now(g), u) IN
    Advanced(IF u \in Seated(t) /\ SeatReleasable(t) THEN SeatReleased(t, u) ELSE t)

\* The user goes table by table. One that cannot be left stops the departure; what it did
\* at the tables before stays done.
LeaveRoom(u) ==
    /\ u \in members
    /\ \A g \in Hosted : lock[g] = Idle
    /\ LET stops == {g \in Hosted : u \in Seated(Now(g)) /\ ~SeatReleasable(Now(g))}
           upTo(g) == \A h \in stops : g < h
       IN /\ members' = IF stops = {} THEN members \ {u} ELSE members
          /\ AdvanceAll(members', [g \in Games |->
               IF g \in Hosted /\ upTo(g) THEN Departed(g, u) ELSE tables[g]])
    /\ UNCHANGED <<lock, leaving, failures>>

\* A view of the table in an answer about another one syncs it without its lock.
View(g) ==
    /\ tables[g] # NoTable
    /\ Synced(tables[g]) # tables[g]
    /\ tables' = [tables EXCEPT ![g] = Synced(@)]
    /\ UNCHANGED <<members, lock, leaving, ticking, db, failures>>

\* A snapshot of the table, or a command it rejects.
Refresh(g) ==
    /\ Unlocked(g)
    /\ Now(g) # tables[g] \/ Releases(tables[g])
    /\ Settle(g, tables[g], FALSE)
    /\ UNCHANGED <<members, lock, leaving, failures>>

\* Mutant of Tick: expired offers stay.
TickWithoutExpiry(g, expired) ==
    /\ g \in ticking /\ Unlocked(g)
    /\ tables' = [tables EXCEPT ![g] = AdvancedFor(@, members, {})]
    /\ ticking' = IF tables'[g].offers = {} THEN ticking \ {g} ELSE ticking
    /\ UNCHANGED <<members, lock, leaving, db, failures>>

\* _expire_offers wakes up and finds these offers expired.
Tick(g, expired) ==
    /\ g \in ticking /\ Unlocked(g)
    /\ UNCHANGED <<members, lock, leaving, db, failures>>
    /\ \E s \in {Synced(WithoutFolders(tables[g]))} : \E t \in {Pruned(s, members, expired)} :
            tables' = [tables EXCEPT ![g] = Offering(t)]
    /\ ticking' = IF tables'[g].offers = {} THEN ticking \ {g} ELSE ticking

\* The commands that find table g as t: after the _advance_table that each begins with.
Ask(u, g, t) ==
    \/ Join(u, g, t) \/ JoinQueue(u, g, t) \/ LeaveQueue(u, g, t) \/ LeaveSeat(u, g, t)
    \/ AcceptSeat(u, g, t) \/ DeclineSeat(u, g, t)
    \/ \E to \in Users : Invite(u, g, t, to)
    \/ Lock(u, g, t) \/ Start(u, g, t) \/ Abandon(u, g, t) \/ NextMatch(u, g, t)

Next ==
    \/ \E u \in Openers, kind \in Kinds : Create(u, kind)
    \/ \E u \in Visitors : EnterRoom(u) \/ LeaveRoom(u)
    \/ \E g \in Games :
         \/ Unlocked(g) /\ \E t \in {Now(g)} : \E u \in Users : Ask(u, g, t)
         \/ \E u \in Users : End(u, g) \/ RequestLeave(u, g) \/ FoldAndLeave(u, g)
         \/ ReserveForStart(g) \/ StartOwned(g) \/ LastMove(g) \/ Committed(g)
         \/ View(g) \/ Refresh(g)
         \/ g \in ticking /\ \E expired \in SUBSET tables[g].offers : Tick(g, expired)

Spec == Init /\ [][Next]_vars

\* The task of a table with offers wakes up every second, and an offer expires after
\* thirty. A commit ends.
FairSpec ==
    /\ Spec
    /\ \A g \in Games : /\ WF_vars(tables[g] # NoTable /\ tables[g].offers # {} /\ Tick(g, tables[g].offers))
                        /\ WF_vars(Committed(g))

-------------------------------------------------------------------------------
(* Properties *)

Playing(g) ==
    Unlocked(g) /\ tables[g].phase = "STARTED" /\ tables[g].engine = "playing" /\ ~tables[g].ended

\* Nobody plays two matches at once, wherever they sit. (docs/game-state-persistence.md:
\* a player cannot start two games concurrently)
OneMatchPerPlayer ==
    \A g, h \in Games : Playing(g) /\ Playing(h) /\ g # h =>
        Seated(tables[g]) \cap Seated(tables[h]) = {}

\* The players of a match in progress stay reserved for it, whatever happens at the
\* other tables. (active_game_players)
PlayersReserved ==
    \A g \in Games : Playing(g) =>
        \A u \in ToSet(tables[g].users) \ tables[g].departed :
            gameRows[u] = <<g, tables[g].round>>

\* The process knows whether the store holds match t's players: a reply that is lost tells it
\* nothing, until the start is answered.
Known(t) == RepliesLost => t.round # 0

\* A Call Break or Marriage match that was ended holds no player, and its table none unless
\* it goes on with the next match. (tests/test_hosted_game_durability.py: ending releases
\* reservations)
EndedReservesNothing ==
    \A g \in Games : Unlocked(g) /\ tables[g].ended /\ tables[g].kind # "flush" /\ Known(tables[g]) =>
        /\ \A u \in Users : gameRows[u] = << >> \/ gameRows[u][1] # g
        /\ (\A h \in Hosted : tables[h].id = tables[g].id => tables[h].ended /\ Known(tables[h])) =>
              \A u \in Users : tableRows[u] # tables[g].id

\* Nobody plays two matches, whoever plays one is held for it, and a Call Break or Marriage
\* match that has ended holds nobody. (active_game_players, active_table_players)
ReservationsTrue == OneMatchPerPlayer /\ PlayersReserved /\ EndedReservesNothing

\* Pending offers concern distinct vacant seats and distinct users who do not sit.
OffersConsistent ==
    \A g \in Hosted : tables[g].phase = "COMPLETED" =>
      \A o \in tables[g].offers :
        /\ tables[g].next[o.seat] = Nobody
        /\ o.to \notin Seated(tables[g])
        /\ \A p \in tables[g].offers : p # o => p.seat # o.seat /\ p.to # o.to

\* Every vacant seat of a completed Call Break table is one that somebody released, once:
\* it can be offered, and a next match waits for it.
SeatsAccounted ==
    \A g \in Hosted :
      tables[g].kind = "callbreak" /\ tables[g].phase = "COMPLETED" /\ ~tables[g].ended =>
      \A i \in 1..Capacity :
        Cardinality({n \in 1..Len(tables[g].releases) : tables[g].releases[n].seat = i}) =
          IF tables[g].next[i] = Nobody THEN 1 ELSE 0

\* Call Break players who go on keep their seats in the next match, and those who left
\* are not in it unless they were offered a seat again. (docs/table-seating.md, 7)
ContinuingKeepSeats ==
    [][\A g, n \in Games :
         tables[n] = NoTable /\ tables'[n] # NoTable /\ tables'[n].previous = g =>
           \A i \in 1..Len(tables[g].users) :
             tables[g].kind = "callbreak" /\ tables[g].users[i] \notin tables[g].departed =>
               i <= Len(tables'[n].users) /\ tables'[n].users[i] = tables[g].users[i]]_vars

\* Nobody's seat stays offered for ever: an offer is answered, cancelled or expires.
OffersResolve ==
    \A g \in Games, u \in Users :
        (tables[g] # NoTable /\ u \in Offered(tables[g])) ~>
            (tables[g] # NoTable /\ u \notin Offered(tables[g]))
================================================================================
