----------------------------- MODULE DurableStore -----------------------------
(***************************************************************************)
(* The durable game store (app/durable_games): the command journal of each *)
(* game, the receipts that make commands idempotent, the lease with its    *)
(* fencing epoch, and the reservations that keep a player at one table and *)
(* in one game. Several server processes share one store; any of them may  *)
(* crash, and any caller may repeat any request.                           *)
(*                                                                         *)
(* A store operation is one transaction. execute is split where it can     *)
(* wait for the row lock: a call is begun, then committed, then its events *)
(* are delivered and its answer sent.                                      *)
(***************************************************************************)
EXTENDS Naturals, Sequences, FiniteSets

CONSTANTS
    Games, Tables, Players,
    Instances,          \* server processes
    Actors, CommandIds, \* a command is identified by (actor, command ID) in its game
    Bodies,             \* what else a request says; part of its fingerprint
    Slots,              \* concurrent calls of DurableCommandRuntime
    Store,              \* "memory" or "postgres"
    LeaseTicks,         \* lease_seconds, in ticks of the clock
    InitialRevision,
    MaxSequence, MaxRevision, MaxEpoch,   \* bounds of the model
    NoGame, NoTable, NoInstance

ASSUME StoreAssumption ==
    /\ Store \in {"memory", "postgres"}
    /\ LeaseTicks \in Nat \ {0}
    /\ InitialRevision \in Nat
    /\ MaxSequence \in Nat /\ MaxRevision \in Nat /\ MaxEpoch \in Nat
    /\ NoGame \notin Games /\ NoTable \notin Tables /\ NoInstance \notin Instances

VARIABLES
    exists,         \* games with a row
    epoch,          \* ownership_epoch
    owner,          \* owner_instance_id
    lease,          \* ticks until lease_expires_at, 0 when expired or null
    journal,        \* game_events, each with the epoch it was committed under
    sequence,       \* current_sequence
    revision,       \* current_revision
    receipts,       \* game_commands
    activePlayers,  \* active_game_players: the game a player is reserved in
    tablePlayers,   \* active_table_players: the table a player is reserved at
    held,           \* held[i][g]: epoch of the ownership token process i keeps, or 0
    begun,          \* execute calls whose transaction has started
    committed,      \* execute calls committed, not yet delivered and answered
    delivered,      \* delivered[g]: sequences handed to the clients
    acks,           \* answers that reached a client
    reading         \* PostgresGameStore.load calls between their two SELECTs

rows == <<exists, epoch, owner, lease>>
journals == <<journal, sequence, revision, receipts>>
reservations == <<activePlayers, tablePlayers>>
replies == <<delivered, acks>>
vars == <<rows, journals, reservations, held, begun, committed, replies, reading>>

Keys == Actors \X CommandIds
Entry == [actor : Actors, id : CommandIds, revision : Nat, epoch : Nat]
Receipt == [actor : Actors, id : CommandIds, expected : Nat, body : Bodies,
            status : {"accepted", "rejected"}, revision : Nat, first : Nat, last : Nat]
Request == [actor : Actors, id : CommandIds, expected : Nat, body : Bodies]

Begun == [slot : Slots, instance : Instances, game : Games, request : Request,
          epoch : Nat, live : BOOLEAN]
Committed == [slot : Slots, instance : Instances, game : Games,
              receipt : Receipt, duplicate : BOOLEAN]
Ack == [game : Games, actor : Actors, id : CommandIds,
        status : {"accepted", "rejected"}, revision : Nat]
Reading == [slot : Slots, game : Games, sequence : Nat, revision : Nat]

TypeOK ==
    /\ exists \subseteq Games
    /\ epoch \in [Games -> Nat]
    /\ owner \in [Games -> Instances \cup {NoInstance}]
    /\ lease \in [Games -> Nat]
    /\ journal \in [Games -> Seq(Entry)]
    /\ sequence \in [Games -> Nat]
    /\ revision \in [Games -> Nat]
    /\ receipts \in [Games -> SUBSET Receipt]
    /\ activePlayers \in [Players -> Games \cup {NoGame}]
    /\ tablePlayers \in [Players -> Tables \cup {NoTable}]
    /\ held \in [Instances -> [Games -> Nat]]
    /\ begun \subseteq Begun
    /\ committed \subseteq Committed
    /\ delivered \in [Games -> SUBSET Nat]
    /\ acks \subseteq Ack
    /\ reading \subseteq Reading

Init ==
    /\ exists = {}
    /\ epoch = [g \in Games |-> 0]
    /\ owner = [g \in Games |-> NoInstance]
    /\ lease = [g \in Games |-> 0]
    /\ journal = [g \in Games |-> << >>]
    /\ sequence = [g \in Games |-> 0]
    /\ revision = [g \in Games |-> InitialRevision]
    /\ receipts = [g \in Games |-> {}]
    /\ activePlayers = [p \in Players |-> NoGame]
    /\ tablePlayers = [p \in Players |-> NoTable]
    /\ held = [i \in Instances |-> [g \in Games |-> 0]]
    /\ begun = {}
    /\ committed = {}
    /\ delivered = [g \in Games |-> {}]
    /\ acks = {}
    /\ reading = {}

-------------------------------------------------------------------------------
(* Helpers *)

\* A slot serves one call at a time.
Free(s) ==
    /\ \A b \in begun : b.slot # s
    /\ \A c \in committed : c.slot # s
    /\ \A r \in reading : r.slot # s

\* Mutant of Prior: only a receipt of the very same request is found.
PriorOfSameRequest(g, q) ==
    {r \in receipts[g] : r.actor = q.actor /\ r.id = q.id /\ r.expected = q.expected}

Prior(g, q) == {r \in receipts[g] : r.actor = q.actor /\ r.id = q.id}

\* The request fingerprint covers the expected revision, command and payload.
SameRequest(r, q) == r.expected = q.expected /\ r.body = q.body

InGame(g) == {p \in Players : activePlayers[p] = g}
AtTable(t) == {p \in Players : tablePlayers[p] = t}

\* _validate_owner: PostgreSQL's now() is the start of the transaction, so there the
\* lease is judged as of then; the in-memory store reads the clock under its lock.
ValidOwner(i, g, e, wasLive) ==
    /\ owner[g] = i
    /\ epoch[g] = e
    /\ e # 0
    /\ IF Store = "postgres" THEN wasLive ELSE lease[g] > 0

\* Mutant of Decisions: the expected revision is not compared.
DecisionsOnStale(g, q) ==
    {[status |-> "rejected", revision |-> revision[g], events |-> 0]} \cup
    [status : {"accepted"}, revision : (revision[g] + 1)..MaxRevision,
     events : 1..(MaxSequence - sequence[g])]

\* What _decide may record for a request that is new to the game: how many events it
\* appends and the revision it leaves. A stale request is a recorded rejection.
Decisions(g, q) ==
    {[status |-> "rejected", revision |-> revision[g], events |-> 0]} \cup
    (IF q.expected # revision[g] THEN {}
     ELSE {[status |-> "accepted", revision |-> revision[g], events |-> 0]} \cup
          [status : {"accepted"}, revision : (revision[g] + 1)..MaxRevision,
           events : 1..(MaxSequence - sequence[g])])

-------------------------------------------------------------------------------
(* Starting a game and moving its ownership *)

\* create: a game without owner or roster.
Create(g) ==
    /\ g \notin exists
    /\ exists' = exists \cup {g}
    /\ UNCHANGED <<epoch, owner, lease, journals, reservations, held, begun, committed,
                   replies, reading>>

\* start: row, roster and first ownership in one transaction. A retry of the start
\* finds the row and changes nothing.
Start(i, g, roster) ==
    /\ g \notin exists
    /\ roster # {}
    /\ \A p \in roster : activePlayers[p] = NoGame
    /\ exists' = exists \cup {g}
    /\ epoch' = [epoch EXCEPT ![g] = 1]
    /\ owner' = [owner EXCEPT ![g] = i]
    /\ lease' = [lease EXCEPT ![g] = LeaseTicks]
    /\ activePlayers' = [p \in Players |-> IF p \in roster THEN g ELSE activePlayers[p]]
    /\ held' = [held EXCEPT ![i] = [@ EXCEPT ![g] = 1]]
    /\ UNCHANGED <<journals, tablePlayers, begun, committed, replies, reading>>

\* Mutant of Acquire: a takeover keeps the epoch.
AcquireSameEpoch(i, g) ==
    /\ g \in exists
    /\ lease[g] = 0
    /\ epoch' = [epoch EXCEPT ![g] = IF @ = 0 THEN 1 ELSE @]
    /\ owner' = [owner EXCEPT ![g] = i]
    /\ lease' = [lease EXCEPT ![g] = LeaseTicks]
    /\ held' = [held EXCEPT ![i] = [@ EXCEPT ![g] = epoch'[g]]]
    /\ UNCHANGED <<exists, journals, reservations, begun, committed, replies, reading>>

Acquire(i, g) ==
    /\ g \in exists
    /\ lease[g] = 0
    /\ epoch[g] < MaxEpoch
    /\ epoch' = [epoch EXCEPT ![g] = @ + 1]
    /\ owner' = [owner EXCEPT ![g] = i]
    /\ lease' = [lease EXCEPT ![g] = LeaseTicks]
    /\ held' = [held EXCEPT ![i] = [@ EXCEPT ![g] = epoch[g] + 1]]
    /\ UNCHANGED <<exists, journals, reservations, begun, committed, replies, reading>>

Renew(i, g) ==
    /\ g \in exists
    /\ ValidOwner(i, g, held[i][g], lease[g] > 0)
    /\ lease' = [lease EXCEPT ![g] = LeaseTicks]
    /\ UNCHANGED <<exists, epoch, owner, journals, reservations, held, begun, committed,
                   replies, reading>>

\* One tick of the database clock.
Tick ==
    /\ \E g \in Games : lease[g] > 0
    /\ lease' = [g \in Games |-> IF lease[g] > 0 THEN lease[g] - 1 ELSE 0]
    /\ UNCHANGED <<exists, epoch, owner, journals, reservations, held, begun, committed,
                   replies, reading>>

\* A process dies with its ownership tokens and everything it had not finished.
Crash(i) ==
    /\ held' = [held EXCEPT ![i] = [g \in Games |-> 0]]
    /\ begun' = {b \in begun : b.instance # i}
    /\ committed' = {c \in committed : c.instance # i}
    /\ UNCHANGED <<rows, journals, reservations, replies, reading>>

-------------------------------------------------------------------------------
(* Commands *)

\* DurableCommandRuntime.execute, up to the lock on the game row. The caller passes
\* the ownership it holds now.
Begin(s, i, g, q) ==
    /\ Free(s)
    /\ g \in exists
    /\ held[i][g] # 0
    /\ begun' = begun \cup {[slot |-> s, instance |-> i, game |-> g, request |-> q,
                             epoch |-> held[i][g], live |-> lease[g] > 0]}
    /\ UNCHANGED <<rows, journals, reservations, held, committed, replies, reading>>

\* The transaction has the row: it is fenced, answered from the receipt, or decided.
Fenced(b) ==
    /\ ~ValidOwner(b.instance, b.game, b.epoch, b.live)
    /\ begun' = begun \ {b}
    /\ UNCHANGED <<rows, journals, reservations, held, committed, replies, reading>>

\* Mutant of Repeat: the answer from a receipt is taken for a first execution.
RepeatAsNew(b) ==
    /\ ValidOwner(b.instance, b.game, b.epoch, b.live)
    /\ \E r \in Prior(b.game, b.request) :
         /\ SameRequest(r, b.request)
         /\ committed' = committed \cup {[slot |-> b.slot, instance |-> b.instance,
                             game |-> b.game, receipt |-> r, duplicate |-> FALSE]}
    /\ begun' = begun \ {b}
    /\ UNCHANGED <<rows, journals, reservations, held, replies, reading>>

Repeat(b) ==
    /\ ValidOwner(b.instance, b.game, b.epoch, b.live)
    /\ \E r \in Prior(b.game, b.request) :
         committed' = IF SameRequest(r, b.request)
                      THEN committed \cup {[slot |-> b.slot, instance |-> b.instance,
                             game |-> b.game, receipt |-> r, duplicate |-> TRUE]}
                      ELSE committed     \* a conflict: nothing is stored
    /\ begun' = begun \ {b}
    /\ UNCHANGED <<rows, journals, reservations, held, replies, reading>>

NewReceipt(g, q, d) ==
    [actor |-> q.actor, id |-> q.id, expected |-> q.expected, body |-> q.body,
     status |-> d.status, revision |-> d.revision,
     first |-> IF d.events = 0 THEN 0 ELSE sequence[g] + 1,
     last |-> IF d.events = 0 THEN 0 ELSE sequence[g] + d.events]

\* An event's epoch is that of the ownership its call presented.
NewEntries(b, d) ==
    [n \in 1..d.events |-> [actor |-> b.request.actor, id |-> b.request.id,
                            revision |-> d.revision, epoch |-> b.epoch]]

\* Mutants of Decide: the row's revision stays behind; a rejection is not remembered.
DecideKeepsRevision(b, d) ==
    /\ ValidOwner(b.instance, b.game, b.epoch, b.live)
    /\ Prior(b.game, b.request) = {}
    /\ receipts' = [receipts EXCEPT ![b.game] = @ \cup {NewReceipt(b.game, b.request, d)}]
    /\ journal' = [journal EXCEPT ![b.game] = @ \o NewEntries(b, d)]
    /\ sequence' = [sequence EXCEPT ![b.game] = @ + d.events]
    /\ begun' = begun \ {b}
    /\ UNCHANGED <<rows, revision, reservations, held, committed, replies, reading>>

DecideForgetsRejection(b, d) ==
    /\ ValidOwner(b.instance, b.game, b.epoch, b.live)
    /\ Prior(b.game, b.request) = {}
    /\ d.status = "rejected"
    /\ committed' = committed \cup {[slot |-> b.slot, instance |-> b.instance, game |-> b.game,
                         receipt |-> NewReceipt(b.game, b.request, d), duplicate |-> FALSE]}
    /\ begun' = begun \ {b}
    /\ UNCHANGED <<rows, journals, reservations, held, replies, reading>>

Decide(b, d) ==
    /\ ValidOwner(b.instance, b.game, b.epoch, b.live)
    /\ Prior(b.game, b.request) = {}
    /\ LET receipt == NewReceipt(b.game, b.request, d) IN
         /\ receipts' = [receipts EXCEPT ![b.game] = @ \cup {receipt}]
         /\ committed' = committed \cup {[slot |-> b.slot, instance |-> b.instance,
                             game |-> b.game, receipt |-> receipt, duplicate |-> FALSE]}
    /\ journal' = [journal EXCEPT ![b.game] = @ \o NewEntries(b, d)]
    /\ sequence' = [sequence EXCEPT ![b.game] = @ + d.events]
    /\ revision' = [revision EXCEPT ![b.game] = d.revision]
    /\ begun' = begun \ {b}
    /\ UNCHANGED <<rows, reservations, held, replies, reading>>

\* After the commit: deliver the new events, then answer. Both may be lost.
Deliver(c) ==
    /\ delivered' = IF c.duplicate THEN delivered
                    ELSE [delivered EXCEPT ![c.game] =
                            @ \cup (c.receipt.first..c.receipt.last \ {0})]
    /\ acks' = acks \cup {[game |-> c.game, actor |-> c.receipt.actor, id |-> c.receipt.id,
                           status |-> c.receipt.status, revision |-> c.receipt.revision]}
    /\ committed' = committed \ {c}
    /\ UNCHANGED <<rows, journals, reservations, held, begun, reading>>

\* PostgresGameStore.load reads the row and the events in two statements, each with
\* its own snapshot; the in-memory store reads both under the game's lock.
LoadRow(s, g) ==
    /\ Store = "postgres"
    /\ Free(s)
    /\ g \in exists
    /\ reading' = reading \cup {[slot |-> s, game |-> g, sequence |-> sequence[g],
                                 revision |-> revision[g]]}
    /\ UNCHANGED <<rows, journals, reservations, held, begun, committed, replies>>

LoadEvents(r) ==
    /\ reading' = reading \ {r}
    /\ UNCHANGED <<rows, journals, reservations, held, begun, committed, replies>>

-------------------------------------------------------------------------------
(* Reservations *)

\* What a table already holds must agree with the roster: the in-memory store wants
\* it equal, PostgreSQL lets a partial one be completed.
MayHold(stored, roster) ==
    IF Store = "postgres" THEN stored \subseteq roster ELSE stored \in {{}, roster}

ReserveTable(t, roster) ==
    /\ roster # {}
    /\ \A p \in roster : tablePlayers[p] \in {t, NoTable} /\ activePlayers[p] = NoGame
    /\ MayHold(AtTable(t), roster)
    /\ tablePlayers' = [p \in Players |-> IF p \in roster THEN t ELSE tablePlayers[p]]
    /\ UNCHANGED <<rows, journals, activePlayers, held, begun, committed, replies, reading>>

ReleaseTable(t) ==
    /\ tablePlayers' = [p \in Players |-> IF tablePlayers[p] = t THEN NoTable
                                          ELSE tablePlayers[p]]
    /\ UNCHANGED <<rows, journals, activePlayers, held, begun, committed, replies, reading>>

\* Mutant of ReservePlayers: the conflict check is missing.
ReservePlayersSteals(g, roster) ==
    /\ g \in exists
    /\ roster # {}
    /\ activePlayers' = [p \in Players |-> IF p \in roster THEN g ELSE activePlayers[p]]
    /\ UNCHANGED <<rows, journals, tablePlayers, held, begun, committed, replies, reading>>

ReservePlayers(g, roster) ==
    /\ g \in exists
    /\ roster # {}
    /\ \A p \in roster : activePlayers[p] \in {g, NoGame}
    /\ Store = "postgres" => InGame(g) \subseteq roster
    /\ activePlayers' = [p \in Players |-> IF p \in roster THEN g ELSE activePlayers[p]]
    /\ UNCHANGED <<rows, journals, tablePlayers, held, begun, committed, replies, reading>>

ReleasePlayers(g) ==
    /\ activePlayers' = [p \in Players |-> IF activePlayers[p] = g THEN NoGame
                                           ELSE activePlayers[p]]
    /\ UNCHANGED <<rows, journals, tablePlayers, held, begun, committed, replies, reading>>

ReleaseDepartedPlayer(g, t, p) ==
    /\ activePlayers' = [activePlayers EXCEPT ![p] = IF @ = g THEN NoGame ELSE @]
    /\ tablePlayers' = [tablePlayers EXCEPT ![p] = IF @ = t THEN NoTable ELSE @]
    /\ UNCHANGED <<rows, journals, held, begun, committed, replies, reading>>

-------------------------------------------------------------------------------

Ownership ==
    \/ \E g \in Games : Create(g)
    \/ \E i \in Instances, g \in Games :
         \/ \E roster \in SUBSET Players : Start(i, g, roster)
         \/ Acquire(i, g)
         \/ Renew(i, g)
    \/ Tick
    \/ \E i \in Instances : Crash(i)

Commands ==
    \/ \E s \in Slots, i \in Instances, g \in Games, a \in Actors, id \in CommandIds,
          e \in InitialRevision..MaxRevision, body \in Bodies :
         Begin(s, i, g, [actor |-> a, id |-> id, expected |-> e, body |-> body])
    \/ \E b \in begun :
         \/ Fenced(b)
         \/ Repeat(b)
         \/ \E d \in Decisions(b.game, b.request) : Decide(b, d)
    \/ \E c \in committed : Deliver(c)
    \/ \E s \in Slots, g \in Games : LoadRow(s, g)
    \/ \E r \in reading : LoadEvents(r)

Reservations ==
    \/ \E t \in Tables, roster \in SUBSET Players : ReserveTable(t, roster)
    \/ \E t \in Tables : ReleaseTable(t)
    \/ \E g \in Games, roster \in SUBSET Players : ReservePlayers(g, roster)
    \/ \E g \in Games : ReleasePlayers(g)
    \/ \E g \in Games \cup {NoGame}, t \in Tables, p \in Players :
         ReleaseDepartedPlayer(g, t, p)

Next == Ownership \/ Commands \/ Reservations

Spec == Init /\ [][Next]_vars

-------------------------------------------------------------------------------
(* Safety *)

\* Replaying a game always reproduces its row: as many events as current_sequence and
\* current_revision as the revision reached, and revisions only grow along the journal.
\* _load_locked and _loaded refuse a game of which this is not true.
ReplayMatchesRow ==
    \A g \in Games :
      /\ Len(journal[g]) = sequence[g]
      /\ revision[g] = IF sequence[g] = 0 THEN InitialRevision
                       ELSE journal[g][sequence[g]].revision
      /\ \A m, n \in 1..Len(journal[g]) : m <= n => journal[g][m].revision <= journal[g][n].revision

\* The events a receipt claims: first..last, or none.
Claimed(r) == (r.first..r.last) \ {0}

\* However often a command is sent, and whichever process runs it, it has one receipt,
\* and the journal is divided among the accepted receipts: each event belongs to one
\* command, and a command's events are its own. (game_commands, execute)
OneReceiptPerCommand ==
    \A g \in Games :
      /\ \A r, t \in receipts[g] : r.actor = t.actor /\ r.id = t.id => r = t
      /\ \A n \in 1..Len(journal[g]) : \E r \in receipts[g] :
            /\ r.status = "accepted" /\ n \in Claimed(r)
            /\ journal[g][n].actor = r.actor /\ journal[g][n].id = r.id
      /\ \A r, t \in receipts[g] : r # t => Claimed(r) \cap Claimed(t) = {}
      /\ \A r \in receipts[g] : Claimed(r) \subseteq 1..Len(journal[g])

\* No lost update: a command that changed a game was decided against exactly the
\* revision its client had seen, the one the previous event left. (_decide)
NoLostUpdate ==
    \A g \in Games : \A r \in receipts[g] :
      r.first # 0 =>
        r.expected = IF r.first = 1 THEN InitialRevision
                     ELSE journal[g][r.first - 1].revision

\* Once a process has taken a game over, nothing an earlier owner sends can follow in
\* the journal: epochs never decrease along it. (fencing tokens, _validate_owner)
EpochsNeverRegress ==
    \A g \in Games :
      /\ \A m, n \in 1..Len(journal[g]) : m <= n => journal[g][m].epoch <= journal[g][n].epoch
      /\ \A n \in 1..Len(journal[g]) : journal[g][n].epoch <= epoch[g]

\* Two processes never hold the same game's current ownership. (acquire, start)
OneOwner ==
    \A g \in Games : \A i, j \in Instances :
      held[i][g] = epoch[g] /\ held[j][g] = epoch[g] /\ epoch[g] # 0 => i = j

\* What a client was told is what the store remembers, so two answers to the same
\* command agree: accepted or rejected, at the same revision. (receipts)
AnswersAgree ==
    \A a \in acks : \E r \in receipts[a.game] :
      /\ r.actor = a.actor /\ r.id = a.id
      /\ r.status = a.status /\ r.revision = a.revision

\* A call about to deliver holds committed events nobody has delivered, and no two such
\* calls hold the same ones: a retry never delivers again. (DurableCommandRuntime)
DeliverOnce ==
    /\ \A g \in Games : delivered[g] \subseteq 1..Len(journal[g])
    /\ \A c \in committed : ~c.duplicate =>
         /\ Claimed(c.receipt) \subseteq 1..Len(journal[c.game])
         /\ Claimed(c.receipt) \cap delivered[c.game] = {}
    /\ \A c, d \in committed :
         c # d /\ ~c.duplicate /\ ~d.duplicate /\ c.game = d.game =>
           Claimed(c.receipt) \cap Claimed(d.receipt) = {}

\* What load takes for granted: the row and the events that it read belong together, or the
\* game is refused as corrupted. Not an invariant: a command may be committed between the two
\* reads (README, known divergences). ReplayMatchesRow says what holds. (load, _loaded)
LoadsSucceed ==
    \A r \in reading :
      /\ Len(journal[r.game]) = r.sequence
      /\ revision[r.game] = r.revision

\* A player's reservation never moves straight from one game to another, or from one
\* table to another: it is released first. (reserve_players, start, reserve_table)
NoReservationStolen ==
    [][\A p \in Players :
         /\ activePlayers[p] # NoGame => activePlayers'[p] \in {activePlayers[p], NoGame}
         /\ tablePlayers[p] # NoTable => tablePlayers'[p] \in {tablePlayers[p], NoTable}]_vars

\* Receipts and events are permanent: no step removes or changes one.
JournalAppendOnly ==
    [][\A g \in Games :
         /\ receipts[g] \subseteq receipts'[g]
         /\ Len(journal[g]) <= Len(journal'[g])
         /\ \A n \in 1..Len(journal[g]) : journal'[g][n] = journal[g][n]]_vars

-------------------------------------------------------------------------------
(* The abstract specification *)

Effects(g) == [n \in 1..Len(journal[g]) |-> <<journal[g][n].actor, journal[g][n].id>>]

Log == INSTANCE CommandLog WITH
    log <- [g \in Games |-> Effects(g)],
    decided <- UNION {{[game |-> g, key |-> <<r.actor, r.id>>, status |-> r.status] :
                          r \in receipts[g]} : g \in Games},
    told <- {[game |-> a.game, key |-> <<a.actor, a.id>>, status |-> a.status] : a \in acks}

\* The store, with its leases, tokens and transactions, decides every command at most
\* once and appends its effects in one step: it implements CommandLog.
ImplementsCommandLog == Log!Spec
================================================================================
