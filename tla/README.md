# Verification of bhidne-ho

TLA+ models, model-checking runs and machine-checked proofs for the server and the client of
bhidne-ho: a FastAPI platform on which rooms of players play Call Break, Marriage and Flush at
tables, with commands that survive lost messages, a durable journal per match, a ledger in which
the results are settled, and a React client. Paths are relative to the repository's root (`src/`
here).

Contents: [components](#components) · [interactions](#how-the-parts-interact) ·
[what is hard](#what-is-hard) · [modules](#the-modules) · [runs](#the-runs) ·
[fairness](#fairness) · [bounds](#bounds-symmetry-and-views) · [proofs](#the-proofs) ·
[disagreements](#disagreements-between-the-code-and-its-documents) ·
[left out](#what-is-not-modelled)

## Components

| Component | State | Operations | What makes it correct |
|---|---|---|---|
| Durable game store (`app/durable_games/store.py`, `runtime.py`) | row, journal and receipts of each game; lease and fencing epoch; reservations of players | create, start, load, execute, acquire, renew, release; reserve and release tables and players | one decision per command; nothing after a takeover by the old owner; journal, row and receipts agree; a player's reservation is never moved |
| Command runtime and durable commit (`app/runtime/command_runtime.py`, `app/test_games/service.py:935-951`) | engine state, receipts and lock of a match; its ownership token | execute (authorize, receipt, revision, apply, commit, deliver, roll back), next_deal, end | what players see is durable; an answer never changes; a failed commit leaves nothing behind |
| Client command queue (`client/src/multiplayer/PendingGameAction.ts`, `GameCommandClient.ts`) | one unresolved request, the last snapshot | submit, reconcile, refresh | every action is resolved; what the player was told is true |
| Tables, seats and match lifecycle (`app/multiplayer/table.py`, `table_lifecycle.py`, `lifecycle.py`, `app/test_games/service.py`) | roster, phase, queue, releases, offers, next seats; reservations held | create, join, queue, leave seat, invite, accept, decline, lock, start, complete, leave, abandon, end, next match, room entry and departure | nobody plays twice; players of a match stay reserved; offers concern vacant seats; seats are accounted for; offers resolve |
| Rule proposals (`app/multiplayer/rule_proposals.py`) | rules, revision, the proposal with its voters | propose, vote, cancel, take effect, lock, start | rules change only by everybody seated; never during a match; a round starts with the rules shown |
| Room ledger (`app/ledger/`) | games with signed entries, batches, transfers, action keys | record, read, create a settlement, mark paid, confirm | results are immutable and not lost; a game is settled once; payments take both sides; a plan settles exactly |
| Flush engine (`flush/`) | one round: roster, turn, stakes, pot, hands, pending show and side-show, settlement | deal, cut, bet, see, fold, show, side-show, departures, next round | the audit never fails; stakes never fall; the best hand wins a round nobody left |
| Call Break engine (`callbreak/`) | deals, bids, tricks, scores | shuffle, cut, bid, play | not modelled |
| Marriage engine (`marriage/`) | hands, pile, melds, maal | draw, discard, show, finish | what may be shown and what finishes is what the client says it is |
| Client session and transport (`useRoomSession.ts`, `RoomConnection.ts`, `App.tsx`) | signed-in user, room shown, saved record, socket with timers and back-off | sign in and out, open, leave and delete a room, dial, hear, close, dispose | a transport serves exactly the room shown; a reload leads back to it |
| Client screens (`client/src/screens/`, `client/src/components/`) | tables, controls, dialogs, hands, panels, badges, lists | polls, operations and actions with answers in any order; what refreshes do to open dialogs | nothing older than what is shown; controls disabled while unresolved; what is offered and sent belongs to the match shown |
| Chat, phrases and friends (`TableSocial.tsx`, `RoomChat.tsx`, `usePlayerPhrases.ts`, `FriendsPanel.tsx`) | messages, receipts, drafts, unread counts, private conversations | send, repeat, read again, remove, open a conversation | a message is carried out once; a conversation shows nothing of another; what is removed stays removed |
| Rooms, connections and invitations on the server, authentication, transport, scripts | see `PROJECT.json` | | |

## How the parts interact

A client keeps one request at a time and sends it until it is answered. The command runtime
takes the match's lock, looks for a receipt, compares the revision, lets the engine apply the
action to its in-memory state, and calls the store to commit the new state under the lease that
the server holds, before it delivers the events and answers. If the commit raises, the
checkpoint is restored. The store keeps its own receipts, which the host's retries meet again.

The table lifecycle changes the roster between matches. It reserves the players of a table in the
store when its roster is locked (Marriage and Flush) or as its match starts (Call Break), and those of
a match as the match is started; it releases them when the match is complete, mostly as a side effect of the next request that looks at the table. Rule
proposals belong to a table and are synchronised with its roster before each use. When a match
or a Flush round is over the host projects the result into the ledger, at once and again from
later snapshots if that fails. Locks: one for the catalog of matches and one per match; both are
asyncio locks, so that interleavings happen only where a handler awaits something else.

On the client every screen reads by itself: tables and room chat once a second, phrases every
two, notices every five, active tables again and again, while a socket pushes presence and the
talk of a table. Requests capture the session, the room and a generation when they are made and
their answers are compared with them, or not, when they come.

## What is hard

- **Waiting with the new state visible.** The engine has already moved while the commit is
  awaited (`service.py:935`); views of the table taken by other requests in between change the
  table's phase and are not undone by a rollback.
- **Two layers of receipts.** A reply of the store may be lost after a commit: the host forgets
  the action, the store remembers it, and the client's retry meets both.
- **Ownership.** Leases expire under a live owner; a fencing epoch must keep it out.
- **Advancing lazily.** Releases, offers, promotions and completed phases are brought forward by
  whichever request comes first, or by a task that wakes every second.
- **Reads before a transaction.** A settlement reads batches and games and creates a batch later.
- **Long sequences.** Seats released, queued for, offered, declined, promoted and filled for the
  next match; side-shows and departures that change whose turn it is.
- **Answers out of order on the client.** A poll sent before an action may answer after it; an
  aborted request may still be carried out; a list read before a change may be shown after it.
- **Rules kept twice.** The client advises which cards to show and how to finish by its own copy
  of the Marriage rules.

`PROJECT.json` lists each hazard at its line with the properties that would catch it, or says why none does.

## The modules

### Server

| Module | Models | State and actions |
|---|---|---|
| `CommandLog` | what a command store promises, without leases, revisions or processes | a log of effects per game, the decisions taken, the decisions told |
| `DurableStore` | both stores and `DurableCommandRuntime` | variables are the columns of the tables; an operation of the store is one transaction, `execute` is split into `Begin`, `Fenced`/`Repeat`/`Decide` and `Deliver`; `Crash`, `Tick` (the clock of the leases), `LoadRow` and `LoadEvents` |
| `HostedCommands` | client queue, command runtime and commit of one match | `mem` against `stored`, two sets of receipts, `call` for the action that holds the lock; `Submit`, `Send`, `Take`, `Receive`, `Own`, `Execute`, `Deliver`, `NextDeal`, `End`; messages may be lost, store calls may fail before or after they were carried out |
| `TableSeating` | tables of one room, their matches and reservations | a record per match; a handler is one action, except the commit of a last move (`LastMove`, `Committed`) and a start (`Start`, `ReserveForStart`, `StartOwned`), which others interleave with |
| `RuleProposals` | rules, proposals and votes of a table | `Propose`, `Vote`, `Reseat`, `Lock`, `Start`, `RoundOver`, `NextMatch`, `End`, and `Show`, by which a client sees the current rules |
| `TransferPlan` | `transfer_plan` | a function of the balances, one step per pass of the loop |
| `Ledger` | projection of results and settlements | `Over`, `Retry`, `NextRound`, `Crash`; `Ask`, `Freeze`, `Create` as the three steps of a settlement; `MarkPaid`, `ConfirmPaid` |
| `FlushRound` | the Flush engine and its audit | like the code, one immutable `state` that each command replaces by a candidate; `Settled`, `Finished` and the queries are operators on candidates |
| `InOrder` | the elements of a list that satisfy something, in their order | `Within(s, S)`: what the code writes as a comprehension. It stands where `SelectSeq` would, whose recursion is opaque to the provers |

`DurableStore` and `HostedCommands` each implement `CommandLog`: the first maps journals,
receipts and acknowledgments to it; the second maps the stored state, both layers of receipts
and what its clients were told. In `HostedCommands` the store is the one-game, one-process use
that the host makes of it.

### Client

| Module | Models |
|---|---|
| `RoomConnection` | the socket of one room: dialling, the timer of ten seconds, heartbeats, back-off, disposal; what the network does with each socket |
| `RoomSession` | identity, room and saved record, composed with `RoomConnection`; requests capture session and room, answers come late |
| `RoomGameControl` | the tables of a room: the poll, one operation of the lobby and one action at a time, the window of a table, renewal by a change of language or session |
| `Notices` | the bell: four lists read together, answers to invitations, news |
| `TableSocial` | chat and reactions of a table: three attempts under one identity, receipts of the server, history after each interruption, unread badge |
| `RoomChat` | the chat of a room, paused while the player sits at a game |
| `PhraseList` | the player's phrases: a list refreshed every two seconds and changed by answers that overtake one another |
| `Friends` | friends and private conversations, read by chains of requests of which none waits for another |
| `CallBreakScreen`, `FlushScreen`, `MarriageScreen` | one player's view of each game: drawers, drafts, sheets, panels and animations against snapshots that may skip moves |
| `MarriageFinish` | the client's advice about showing and finishing beside the server's rules of melds and completion |
| `RoomsLobby` | cards, codes, links, the bell and the list of active tables as ways to a room, a table and a seat |
| `LobbyLists` | active tables, recent rooms on the device, room cards |
| `PlayerSearch` | the search for players to invite, in both forms that have it |

In each the server is what one client meets of it, as a variable of the module with its own steps.

### Instances and proofs

| Module | Purpose |
|---|---|
| `MCDurableStore`, `MCHostedCommands`, `MCTableSeating`, `MCLedger` | constants, symmetry, constraints and views for TLC. `MCLedger` also compares `Plan` with a reference definition on every zero-sum balance of five players up to three points, as an assumption that TLC evaluates |
| `ClientScreens`, `MCRoomGames`, `MCClientLive` | several modules that share no state in one run: `part` is chosen at the start and says which of them moves. `MCClientScreens` gives `ClientScreens` its constants |
| `DurableStoreProofs`, `HostedCommandsProofs`, `TableSeatingProofs`, `RoomProofs`, `FlushRoundProofs`, `ClientProofs`, `ClientScreensProofs` | theorems and proofs |
| `DataLemmas` | lemmas about lists in order and about sums over finite sets |

Operators such as `RespondSideShowReversed`, each introduced by a comment that begins with "Mutant
of", are deliberate mistakes: they take the place of the definition they are written before to show
that a property notices (`PROJECT.json`, `mutants`).

### Abstractions, by module

- `DurableStore`: a roster is a set of players. The memory and PostgreSQL stores differ where
  their guards do (`Store`). Fields that nothing compares (payloads, timestamps) are left out; a
  request's fingerprint is its revision and body.
- `HostedCommands`: an engine state is the sequence of what happened in the match, so its length
  is the revision. Whose turn it is, when a deal ends and when a match ends follow Call Break;
  a deal's first action shuffles, with one of `Shuffles` as its outcome.
- `TableSeating`: one room. Seat numbers of Flush, names, invitees and the moves that do not end
  a match are left out; a fold that leaves commits in one step; rule proposals are left to `RuleProposals`. `Lock` and `Start` require that nothing is to be
  released first, which a preceding `Refresh` does as the handler's prologue would. Offers expire
  only in `Tick`; a request that comes first would expire them the same way. The release of the last
  round, the start of the next and, if it fails, what is taken back are one step (`StartOwned`). Of
  the releases only that of the last round may fail; the others, and the store's answer to what is
  taken back, are taken to succeed.
- `RuleProposals`: rosters change at will (`Reseat`), which over-approximates seating.
  COMPLETED is merged with OPEN, a start that fails is a step that does not happen.
- `Ledger`: tied Call Break matches post nothing and are left out; a transaction of the ledger's
  store is one step; at a restart hosted tables are lost, as they are kept in memory only.
- `FlushRound`: a hand is its strength; the deck, event history, revisions and views are left
  out, and with them those parts of the audit. The rule `maximum_active_players_for_blind_show`
  is at least 2 and a show needs exactly 2, so it decides nothing. `START_NEXT_ROUND` is refused by
  the host (`app/test_games/flush.py:44`), so that only the host prepares rounds. The roster of a
  next round is arbitrary, which over-approximates `TableSeating`.
- Client modules: texts, layout, themes and durations are left out; a timer is a step that may
  happen whenever it is set. A generation counter that is compared for equality only is a mark on
  the request that is cleared when the generation moves on. A table is its position among the
  tables of the room, a message its place in the talk. `MarriageFinish` has a deck of two suits
  and melds of groups whose sizes are constants.

## The runs

| Run | Question | Properties |
|---|---|---|
| `store_commands` | two processes, two calls at once, repeated and stale commands, expiry, takeover, crashes; beside it two games and two tables that compete for players | `ReplayMatchesRow`, `NoLostUpdate`, `OneOwner`, `AnswersAgree`, `DeliverOnce`, `ImplementsCommandLog`, `NoReservationStolen` |
| `hosted_actions` | two deals that the creator starts, losses, one failing store call | `AnswersHold`, `ImplementsCommandLog` |
| `hosted_retries` | deals the server prepares, under fairness | `MemoryIsDurable`, `ActionsResolve` |
| `hosted_next_deal` | *violated*: a deal that the creator starts | `MemoryIsDurable` |
| `seats_onetable` | one table of any game through two matches or rounds; two Flush tables that compete for three users | `OffersConsistent`, `SeatsAccounted`, `ReservationsTrue`, `ContinuingKeepSeats` |
| `seats_offers` | a Call Break or Flush table through up to three starts, one store call of which fails or loses its reply, under fairness | `PlayersReserved`, `OffersResolve` |
| `room_games` | two proposals, changing rosters, stale votes and clients; rounds of Flush under two sets of rules with departures at any time | `PendingForRoster`, `AgreedByAll`, `StartsAsShown`, `AuditPasses`, `BestHandWins`, `StakesNeverFall` |
| `settlements` | two settlements at once while results are still recorded, a failure, a restart | `GameInOneBatch`, `RequestOnce`, `TwoPartyConfirmed`, `BatchSettles`, `NoResultLost` |
| `lost_round` | *violated*: a Flush round whose recording failed | `NoResultLost` |
| `client_screens` | session, chats, phrases, friends, screens, advice, lobby, lists and search, each with answers in every order | `TransportServesRoom`, `SavedRoomShown`, `SentOnce`, `ChatsTrue`, `PhrasesStay`, `PrivateToFriend`, `GameScreensTrue`, `AdviceTrue`, `LobbyTrue` |
| `client_live` | session, tables and notices, under fairness | `DisabledWhileUnresolved`, `ShownNeverStale`, `ScreensSettle` |
| `client_language` | *violated*: a change of the language while an action is unresolved | `KeptUntilResolved` |

`ChatsTrue`, `GameScreensTrue`, `LobbyTrue` and `ScreensSettle` are conjunctions, each part a
property of one module that is stated and explained there.

**Deadlock** is not checked: every one of these systems comes to rest when its bound of commands,
rounds, calls or mounts is used up, and tables and matches also rest where nobody is obliged to
act. That something must go on is stated as liveness instead: `ActionsResolve`, `OffersResolve`,
`ScreensSettle`.

## Fairness

- `HostedCommands!FairSpec`. A client's timer sends its unresolved request again
  (`PendingGameAction.reconcile`): weak fairness. A message sent for ever is received in the end:
  strong fairness of `Receive` and `Take`, since loss and the busy lock disable them again and
  again; the asyncio lock serves waiters in order of arrival. A handler goes on once the store
  answers: weak fairness of `Own`, `Execute` and `Deliver`. The store's clock runs: a lease whose
  token was lost expires. No player is obliged to submit, and nobody to end a deal or a match.
- `TableSeating!FairSpec`. `_expire_offers` wakes every second and an offer expires after
  thirty; a commit returns. No user is obliged to do anything.
- `MCClientLive!LiveSpec`. Polls come again because intervals and timers do (weak fairness of
  `Poll`, `ReadNotices`, `Timed`, `Restored`, and of a request of a table, which ends by its answer
  or its time-out). A request repeated for ever is answered in the end, and not only by answers that
  come too late (strong fairness of `Answering`, `PollRead`, `PollTold`, `ActServed`, `ActTaken`,
  `ListServed`, `NoticesTaken`). The modules state these conditions for themselves (`Fairness`,
  `TableFairness`, `NoticeFairness`). Because `part` never changes, one condition on a union of
  actions of different parts is a condition on each; this keeps the tableau small. The user is
  obliged to nothing.

## Bounds, symmetry and views

Every bound is a constant whose comment says so. They were chosen so that the cases that matter
occur: two processes are enough for a takeover and two calls for a race; two actions of a
player reach the second deal and its shuffle; two tables and three users make every conflict of
seats; capacity 2 with three users fills a table and its queue; two matches make one next match
and its continuing players; two rounds lose a result; three players are the fewest for a
side-show, and two strengths make both ties and wins. Two bets of at most one point above the
minimum are enough to raise the seen stake past a multiple of the blind one and bet blind after.

Constraints, each at its definition: `ThreeActions` (no more than three actions of both players),
`OneOrTwoTables` (what is asked of a second table while one is played), `NoOfferAfterFailure` (what
follows an offer made after the one failure is left out). In `seats_offers` only `Openers` create a table.

In the client's runs there is one account, one socket and one request of the session at a time
(`MaxCalls`); a connection is dialled again after an outage (`MaxOutages`) or a second mount
(`MaxMounts`). `client_live` has no late word of a closed socket (`Lingering = FALSE`) and no change of
the language (`MaxRenewals = 0`, which `client_language` is about). Two commands of each kind show an order and a
repetition: hence `MaxTalk`, `MaxMessages`, `MaxDeals`, `MaxTables`, `MaxLists`, `MaxAsked`, `MaxTyped` and the like. The advice to a
Marriage player is checked on every hand of twelve out of thirteen cards (`MCDeck`: tunnela, pairs,
runs, neighbours of the indicator and a Man), with groups of three of which two must be shown, or three pairs;
larger groups repeat the same search.

Symmetry is used for users, players and processes where no formula names one and only safety
is checked (`store_commands`, `seats_onetable`, `room_games`); the runs with liveness use none.
`MCTableSeating!PresentState` hides who sat or waited at a table that has ended: no action's guard and
no property reads it there. `MCClientScreens!Running` hides the parts that do not run: they stay as
they began, and each began in one way.

In `hosted_retries` a shuffle has one outcome: see the divergence on shuffled retries below.

## The proofs

TLAPS proves the following for all values of the constants, from the named assumptions of the
modules (`StoreAssumption`, `ProposalAssumption`, `RulesAssumption`, `BoundsAssumption` and the like).
TLC evaluates each of them in a run.

**`DurableStoreProofs`**: `TypeCorrect`, `OwnerUnique`, `Fencing`, `ExactlyOnce`, `Serialised`,
`Replayable`, `Answers`, `Deliveries`, `Permanent`, `ReservationsHeld`, and the refinement `ImplementsLog`.
There are two inductive invariants. `OwnershipInv` bounds every held token by the epoch of its
game, a game not yet stored having epoch zero: without the bound a second owner could be granted
an epoch already in use. `JournalInv` adds to the properties that a receipt claims nothing or a
non-empty stretch inside the journal, and that what a committed call is about to return is among
the receipts of its game. Without them neither `DeliverOnce` nor `NoLostUpdate` is inductive: a
state in which a receipt claims events past the end of the journal satisfies both and steps to
one that does not. `ImplementsLog` follows each action to a step of `CommandLog` or a stutter.

**`HostedCommandsProofs`**: `HostTyped`, `AnswersStand`, `SeenIsDurable`, `EveryActionDurable`,
`HostImplementsLog`. What the
players see (`Base`) is what is stored, or what is stored is one action ahead of it (`Ahead`: a commit whose
reply was lost, and which the same request will make again), or the host is ahead by deals it
prepared itself (`Beyond`, only with a round summary). `SeenIsDurable` therefore assumes
`~RoundSummary`; `EveryActionDurable` says what remains with one, where `hosted_next_deal` refutes the rest.
`HostImplementsLog`: every step maps to a step of `CommandLog` or a stutter. An action enters the log when
the store commits it (`StoredIsBase`: only on top of the server's checkpoint), whether or not the server
hears of it; the receipt the server records then, on a retry or not, repeats that decision, and a
rejection repeats a rejection, since an action the server rejects is not in the store (`RejectedIsNowhere`).

**`TableSeatingProofs`**: `SeatingTypeOK`, `PlayersStayReserved`, `OneMatchAtATime`, `ReservationsStayTrue`,
`OffersStayConsistent`, `SeatsStayAccounted`, `SeatsContinue`. The invariant `Inv` says of every
table which phases, engines and rounds go together (`Phases`, `OneStart`), which offers and released
seats are possible (`OffersFit`, `ReleasesFit`), how Call Break seats fill (`CallBreakSeats`); of a lock
that is held across a call of the store what the table under it may look like (`LockFits`); and of
the rows that a match being played holds its players (`Held`) and that a table has none before its
lock (`Unreserved`). `GameRowsKnown` and `TableRowsKnown` say that the store has no rows but those that tables know of; where
replies may be lost they say so of matches that start once and whose start was answered (`Sure`), since a
lost reply of a start really leaves rows behind. `ReservationsStayTrue` assumes nothing of the store: nobody
plays two matches, whoever plays is held, and a Call Break or Marriage match that has ended holds nobody,
where replies may be lost if its start was answered. It says nothing of the rows that a completed match or
a Flush table may keep.

**`RoomProofs`**, of three modules about one room. Of `Ledger`, `SettledOnce`, `AskedOnce`, `TwoParties`, `HistoryFixed`, `ResultsSafe`,
`PlanSettles` and `PlansSettle`. The invariant of the first four adds the shape of the
batches and that marks concern batches that exist; `ResultsSafe` assumes that the game is not
Flush, for which `lost_round` refutes it. `PlanSettles` is about `Plan` alone, for any zero-sum
balances of finitely many players. The loop invariant `PlanFits` says that the rows hold exactly what
the transfers so far leave of the balances, that the rows before the two positions are empty and
the others are not, and that what is left adds up to nothing: so when one list is
used up, the other is too. `Counted` adds that every pass finished a debtor or a creditor, and the last one both,
which bounds the number of transfers and shows that as many passes as players are enough.
`PlansSettle` carries this to the batches: results are zero-sum (`GameLedgerResult.balanced`,
`app/ledger/models.py:23`, an assumption on `Points`), a frozen set of games leaves somebody with a
balance (`FrozenIn`), and what was frozen no longer changes (`HistoryFixed`).

Of `RuleProposals`, `Unanimous`, `Fixed`, `NoneOpen`, `Decidable`, `Final`, `Shown`,
`TypeCorrect`. The strengthening counts votes: nobody has voted on a proposal not yet made, a pending proposal's
accepted voters have said yes to it and nobody no, and a client whose revision is current shows
the current rules.

Of `RoomGameControl`, `ControlsDisabled` and `NothingShownIsOlder`, from `ControlInv`: at most
one operation or action is unresolved (`OneUnresolved`), a poll knows whether one was pending when it was sent
and counts only while no operation began since (`PollFits`), and every answer under way that still counts is as
new as the screen (`Fresher`). `ControlsDisabled` is stated for any number of renewals: until the first the
controls are disabled exactly while something is unresolved, afterwards at least then.

**`FlushRoundProofs`**: `StakesOnlyRise`, for any number of players, every first bet and multiplier
that `FlushRulesConfig` accepts and bets of any size; `TheBestHandWins`; and `AuditNeverFails`. By
itself `StakesNeverFall` is not inductive: whether a blind bet keeps the seen minimum depends on how
the two are related. `StakesInv` adds that the blind minimum is the seen one divided by the
multiplier and rounded up; what makes it inductive are the facts about rounded division at the head
of the module. `HandsInv` carries `BestHandWins` through the round: every hand that lost a side-show
is matched by one still played that it does not beat, so that when nobody else left, the best of the
remaining hands is the best of all. The audit is inductive together with these two (`Audited`): the
amount of a bet is a number only because the minima are, and somebody wins only because the hands
have a greatest strength. One lemma per command shows that its candidate passes (`Going` is what the
audit asks of a round that goes on, `Ready` of one whose turn is to pass, `Settling` of one about to
be settled). The arithmetic is in `FinishedMoney`: the shares of the pot, the first few of them
greater by the odd points, add up to it (`SharesAddUp`), every winner stands once in the list that
is paid (`PayoutsAddUp`), and so the net changes add up to nothing. A departure during a show leaves
one player, so it settles; one during a side-show ends it, or concerns neither of its players and
leaves three (`FoldForLeaveAudit`).

**`ClientProofs`** and **`ClientScreensProofs`**, part by part:

- `SessionTyped`, `RoomServed` and `ReloadReturns` rest on `IInv`: the transport has one live socket and one
  timer at a time and every other socket is on its way out (`Tidy`), it serves the room and session on the
  screen (`Served`), and whatever answers are under way, the saved record leads there or nowhere (`Shows`,
  `LoginGives`).
- `DeliveredOnce` counts receipts against what was said (`OneReceiptEach`). `ConversationWhole` and
  `BadgeCountsUnread` rest on `TalkInv`: all that was said is in a history on its way or among the messages
  that follow it on the same connection (`WholeAcks`), a conversation shown as whole lacks only what is still on
  its way, both only for those who may read (`Reader`), and the badge counts what others said among what was
  seen and not read (`BadgeCounts`). `BadgeCountsMissed` is the same for a room (`ChatInv`): what was read is part of
  what is shown, and a history on its way holds no less than that.
- `RemovedPhrasesStayRemoved` needs that identities are given out in turn and that a list under way which
  will be shown already lacks what the player was told is gone (`Issued`, `Gone`, `Kept`).
- `ConversationsStayPrivate` needs that a chain reading a conversation is that of the one which is open
  (`ReadsFit`) and that an accepted line is one to the friend it was written for (`SaysFit`).
- The lobby: `LobbyInv` says that besides previews one way into a room is under way at a time (`OneAtATime`) and that whatever it leads to
  was asked for on that way, `TablesInv` that the present effect has at most one request under way, for a list no
  older than the one shown (`Fetches`), `RecentInv` that what the storage holds once it has written what it was asked
  to is what was visited (`QueueOrdered`, `KeptWhole`), and `CardInv` and `SearchInv` what an
  answer that comes late may still change.
- The games: `CallBreakInv` relates the drawer to the prompt it was opened for, which a later snapshot may
  have passed (`Past`, `DrawerFits`); `FlushInv` orders the snapshots of a match (`Later`) and says that a start under
  way carries the rules that were on the screen when it was pressed (`AskFits`, `ByThis`); `MarriageInv` says that
  what a panel holds is of the hand in its key (`PanelFits`), that the moves waiting to fly ascend up to the last
  that was taken in (`FlightFits`), and that an announcement waits only among those it has offered (`NewsFits`).

`ChatsShown`, `LobbyShown` and `GameScreensHold` carry these to `ClientScreens`: a step of the client is, for each
of its parts, a step of it or none (`PartsBegin`, `PartsStep`).

**`DataLemmas`** holds the lemmas about data that the host, seating, Flush and ledger proofs share. About
`InOrder`: what remains of a list keeps its order, repeats nothing that was not repeated, and holds
exactly the chosen elements. About `SumFunctionOnSet` of the community modules: how a sum changes
with one of its terms, that sums of equal terms are products, that a sum of differences is the
difference of the sums, that terms of zero do not count, and that a sum is the same under another
naming of its places. They are proved by induction over finite sets, in the form in which the
library's induction can be used: as a fact about a set of counterexamples, which has a least
element.

Some theorems state properties no run lists, because they follow from the others' invariant for
every instance: `Fencing`, `ExactlyOnce`, `Permanent`, `EveryActionDurable`, `OneMatchAtATime`
(part of `ReservationsTrue`), `Fixed`, `NoneOpen`, `Final`, `HistoryFixed`.

Only model-checked: `AdviceTrue`, whose reference definitions of melds are recursive functions and folds
over hands, so that what they compute for every hand is an induction over data. Out of the prover's reach: liveness
under fairness (`ActionsResolve`, `OffersResolve`, `ScreensSettle`).

## Disagreements between the code and its documents

With a run:

- `next_deal` (`service.py:568`) changes the match without a durable commit, against
  `docs/game-state-persistence.md:56-64`; the store then refuses every further action as stale
  (`hosted_next_deal`). With round summaries an action submitted then is not resolved either.
- A Flush round whose projection failed is forgotten when the next round begins before the retry
  (`lost_round`), against `docs/ledger.md:3`.
- A change of the language or the session renews the command client and forgets the unresolved
  action while the controls stay disabled for it (`RoomGameControl.tsx:73`, `client_language`), against
  `docs/reliable-game-actions.md:3`.

Met while modelling, and not among the runs. On the server:

- `load` (`store.py:521`) reads row and events in two statements; a commit in between makes it report
  a corrupted game (`LoadsSucceed` in `DurableStore` is not an invariant).
- A retried command that shuffles is decided with another random state, hence another payload,
  and conflicts with its own receipt in the store (`service.py:947`).
- A waiter is promoted without a look at whether he has sat down elsewhere (`table_lifecycle.py:50`);
  he then sits twice, though he cannot play twice (`OneMatchPerPlayer`).
- A view of the table during the commit of the last move marks it COMPLETED (`table.py:65`), also if
  that commit is rolled back; for Flush it makes the next request miss the release of
  reservations (`table_lifecycle.py:27`), which is why `ReservationsTrue` says nothing of Flush tables that have ended.
- A start whose reply is lost leaves its reservations (`service.py:904`), which is why
  `ReservationsTrue` speaks, where replies may be lost, of tables whose start was answered.
- A departure let in while a start is being stored, or from a locked Flush table, can leave a
  LOCKED roster that is too short to start (`service.py:680`).
- `docs/flush.md:95` has seen players pay the blind stake times the multiplier; the engine keeps
  the seen minimum, which is lower when a seen bet was no multiple (`engine.py:158`).
  `docs/flush.md:97` counts only bets in `turn_bet_count`; a side-show request counts as well
  (`engine.py:253`), and `docs/flush.md:75` has a threshold for seeing that the code has not.

On the client:

- `linkedEntry` stays set after its room was left, so that the bell or a resumption of the same
  table later asks for the seat again (`SharedRoomsScreen.tsx`; `InvitationPreview` clears it).
- A preview that is dismissed while its join is under way still moves the player when the answer
  comes, and clears an invitation opened meanwhile (`InvitationPreview.tsx`).
- A failed read of the recent rooms overwrites the stored history (`useRecentRooms.ts`).
- A room card that was removed stays hidden until its list is mounted again (`RoomCard.tsx`).
- A search of the directory is not aborted by a newer query, so that its result may replace
  that of the newer one; `FoundAsTyped` says what still holds.
- The comment "Removing one physical card first guarantees a legal final discard slot"
  (`marriageFinishProgress.ts`) passes over initial tunnelas, whose cards the server protects.
- `MaalReady`, `MaalProgress`, `MarriageFinishTool` and the suggestions of `marriageSuggestions` are
  mounted by no screen at this commit; `MarriageFinish` models the functions they present.

## What is not modelled

The Call Break engine, the rest of the Marriage engine (draws, turns, scores) and the server's
rooms, presence and invitations hold state of their own and are not modelled; the client's modules
meet the server through steps that may answer in any of its ways. Authentication is mostly
external protocols. Transport, texts, scripts and packaging hold no protocol of their own. Cards
and shuffles are the standard library's random numbers. The Flush evaluator, deck and visibility,
database pools and real durations of leases are abstracted. Profiles, the themes and the panel of the
ledger on the client are left out.
