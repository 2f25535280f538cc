-------------------------------- MODULE Ledger --------------------------------
(***************************************************************************)
(* The ledger of a room: results of completed games, projected from the    *)
(* hosted matches after the fact, and the batches in which players settle  *)
(* them outside the program.                                               *)
(*                                                                         *)
(* A settlement reads batches, then games, and creates its batch in a      *)
(* transaction of its own; other requests come in between. Transactions    *)
(* of the ledger's store are one step.                                     *)
(***************************************************************************)
EXTENDS TransferPlan

CONSTANTS
    Players, Tables,
    Kind,           \* game_type of the tables
    Points,         \* what a game can end with: zero-sum functions of the players
    Keys,           \* idempotency keys
    MaxRounds,      \* bound of the model: games or rounds at a table
    MaxRequests,    \* bound of the model: settlements being created at once
    MaxFailures,    \* bound of the model: failing calls of the ledger's store
    MaxCrashes      \* bound of the model: restarts of the server

ASSUME LedgerAssumption ==
    /\ IsFiniteSet(Players) /\ Players \subseteq Nat \ {0}
    /\ \A x \in Points : x \in [Players -> Int] /\ SumFunction(x) = 0
    /\ Kind \in {"flush", "marriage", "callbreak"}
    /\ MaxRounds \in Nat /\ MaxRequests \in Nat /\ MaxFailures \in Nat /\ MaxCrashes \in Nat

VARIABLES
    rounds,     \* games begun at each table, and whether the last one is over
    gone,       \* tables lost by a restart
    atHand,     \* the results that the hosted matches still hold
    known,      \* ledgered_games
    waiting,    \* matches whose ledger_retry_at has not come
    games,      \* ledger_games with their entries
    batches,    \* settlement_batches, with their games and transfers
    marked, resolved,   \* settlement_transfers.status, by batch and number; OPEN if in neither
    acted,      \* settlement_actions
    requests,   \* settlements that have been read for and not yet created
    failures, crashes

hosted == <<rounds, gone, atHand, known, waiting, crashes>>
settled == <<batches, marked, resolved, acted, requests>>
vars == <<hosted, games, settled, failures>>

Game == Tables \X (1..MaxRounds)    \* game_id: a match, or a round of a Flush match
MatchOf(g) == IF Kind = "flush" THEN <<g[1], 1>> ELSE g
Mark == "mark-paid"
Confirm == "confirm"

TypeOK ==
    /\ rounds \in [Tables -> [begun : 0..MaxRounds, over : BOOLEAN]]
    /\ gone \subseteq Tables
    /\ DOMAIN atHand \subseteq Game /\ \A g \in DOMAIN atHand : atHand[g] \in Points
    /\ DOMAIN games \subseteq Game /\ \A g \in DOMAIN games : games[g] \in Points
    /\ known \subseteq Game /\ waiting \subseteq Game
    /\ \A b \in 1..Len(batches) :
         /\ batches[b].table \in Tables /\ batches[b].games \subseteq DOMAIN games
         /\ batches[b].games # {}
         /\ batches[b].by \in Players /\ batches[b].key \in Keys
         /\ batches[b].status \in {"OPEN", "PARTIALLY_RESOLVED", "RESOLVED"}
    /\ marked \cup resolved \subseteq (1..Len(batches)) \X Nat
    /\ acted \subseteq [actor : Players, action : {Mark, Confirm}, key : Keys,
                        transfer : (1..Len(batches)) \X Nat]
    /\ failures \in 0..MaxFailures /\ crashes \in 0..MaxCrashes

Init ==
    /\ rounds = [t \in Tables |-> [begun |-> 0, over |-> TRUE]]
    /\ gone = {} /\ atHand = << >> /\ known = {} /\ waiting = {}
    /\ games = << >>
    /\ batches = << >> /\ marked = {} /\ resolved = {} /\ acted = {} /\ requests = {}
    /\ failures = 0 /\ crashes = 0

-------------------------------------------------------------------------------
(* Results *)

With(f, g, v) == [x \in DOMAIN f \cup {g} |-> IF x = g THEN v ELSE f[x]]

\* record_game: a result that is there already stays as it is.
Recorded(g, points) == games' = IF g \in DOMAIN games THEN games ELSE With(games, g, points)

\* _try_record_completed_ledger for a match that holds this result. A failing call may have
\* been carried out; it is not tried again before ledger_retry_at.
Try(g, points, wait) ==
    IF MatchOf(g) \in wait \/ g \in known
    THEN waiting' = wait /\ UNCHANGED <<games, known, failures>>
    ELSE \/ /\ Recorded(g, points)
            /\ known' = known \cup {g} /\ waiting' = wait
            /\ UNCHANGED failures
         \/ /\ failures < MaxFailures /\ failures' = failures + 1
            /\ Recorded(g, points) \/ UNCHANGED games
            /\ waiting' = wait \cup {MatchOf(g)}
            /\ UNCHANGED known

\* Mutant of NextRound: no match keeps the result of its table's last game.
NextRoundForgetting(t) ==
    /\ t \notin gone /\ rounds[t].over /\ rounds[t].begun < MaxRounds
    /\ rounds' = [rounds EXCEPT ![t] = [begun |-> @.begun + 1, over |-> FALSE]]
    /\ atHand' = [g \in {x \in DOMAIN atHand : x[1] # t} |-> atHand[g]]
    /\ UNCHANGED <<gone, known, waiting, crashes, games, settled, failures>>

\* A game or a round begins. A Flush match holds the result of its last round only.
NextRound(t) ==
    /\ t \notin gone /\ rounds[t].over /\ rounds[t].begun < MaxRounds
    /\ rounds' = [rounds EXCEPT ![t] = [begun |-> @.begun + 1, over |-> FALSE]]
    /\ atHand' = IF Kind # "flush" THEN atHand
                 ELSE [g \in {x \in DOMAIN atHand : x[1] # t} |-> atHand[g]]
    /\ UNCHANGED <<gone, known, waiting, crashes, games, settled, failures>>

\* The last action of a game, which tries to record it right away.
Over(t) ==
    /\ t \notin gone /\ ~rounds[t].over
    /\ rounds' = [rounds EXCEPT ![t].over = TRUE]
    /\ LET g == <<t, rounds[t].begun>> IN
       \E points \in Points :
         /\ atHand' = With(atHand, g, points)
         /\ Try(g, points, waiting)
    /\ UNCHANGED <<gone, crashes, settled>>

\* A snapshot of the match or of the ledger, or the end of the table, which does not wait.
Retry(g, ending) ==
    /\ g \in DOMAIN atHand
    /\ Try(g, atHand[g], IF ending THEN waiting \ {MatchOf(g)} ELSE waiting)
    /\ UNCHANGED <<rounds, gone, atHand, crashes, settled>>

RetryAgain(m) ==
    /\ m \in waiting /\ waiting' = waiting \ {m}
    /\ UNCHANGED <<rounds, gone, atHand, known, crashes, games, settled, failures>>

\* The server's memory is lost: the tables that have begun, and pending requests.
Crash ==
    /\ crashes < MaxCrashes /\ crashes' = crashes + 1
    /\ gone' = gone \cup {t \in Tables : rounds[t].begun > 0}
    /\ atHand' = << >> /\ known' = {} /\ waiting' = {} /\ requests' = {}
    /\ UNCHANGED <<rounds, games, batches, marked, resolved, acted, failures>>

-------------------------------------------------------------------------------
(* Settlements *)

\* The balances of a set of games.
Total(found) == [p \in Players |-> SumFunctionOnSet([g \in found |-> games[g][p]], found)]

Claimed == UNION {batches[b].games : b \in 1..Len(batches)}
Existing(u, k) == {b \in 1..Len(batches) : batches[b].by = u /\ batches[b].key = k}

\* create_settlement reads the batches: u settles this game, or table t if it is none.
Ask(u, t, scope, k) ==
    /\ Cardinality(requests) < MaxRequests
    /\ Existing(u, k) = {}
    /\ requests' = requests \cup
         {[by |-> u, table |-> t, scope |-> scope, key |-> k, claimed |-> Claimed, games |-> {}]}
    /\ UNCHANGED <<hosted, games, batches, marked, resolved, acted, failures>>

\* It reads the games and freezes those of its scope that it believes unsettled.
Freeze(r) ==
    /\ r.games = {}
    /\ LET found == {g \in DOMAIN games \ r.claimed : g[1] = r.table /\ r.scope \in {0, g[2]}}
           balances == Total(found)
       IN requests' = IF found # {} /\ balances[r.by] # 0
                      THEN (requests \ {r}) \cup {[r EXCEPT !.games = found]}
                      ELSE requests \ {r}
    /\ UNCHANGED <<hosted, games, batches, marked, resolved, acted, failures>>

\* Mutant of NewBatch: it settles what has been won by now.
NewBatchRecomputed(r) ==
    [table |-> r.table, games |-> r.games, by |-> r.by, key |-> r.key, status |-> "OPEN",
     transfers |-> Plan(Total({g \in DOMAIN games : g[1] = r.table}))]

\* The batch that r asks for, with the transfers that were planned for what it froze.
NewBatch(r) ==
    [table |-> r.table, games |-> r.games, by |-> r.by, key |-> r.key, status |-> "OPEN",
     transfers |-> Plan(Total(r.games))]

\* Mutants of Create: games that were settled meanwhile are not looked for, or the key is not.
CreateUnchecked(r) ==
    /\ r.games # {}
    /\ requests' = requests \ {r}
    /\ batches' = IF Existing(r.by, r.key) # {} THEN batches ELSE Append(batches, NewBatch(r))
    /\ UNCHANGED <<hosted, games, marked, resolved, acted, failures>>
CreateAgain(r) ==
    /\ r.games # {}
    /\ requests' = requests \ {r}
    /\ batches' = IF r.games \cap Claimed # {} THEN batches ELSE Append(batches, NewBatch(r))
    /\ UNCHANGED <<hosted, games, marked, resolved, acted, failures>>

\* create_batch: one batch per key, and per game.
Create(r) ==
    /\ r.games # {}
    /\ requests' = requests \ {r}
    /\ batches' = IF Existing(r.by, r.key) # {} \/ r.games \cap Claimed # {}
                  THEN batches ELSE Append(batches, NewBatch(r))
    /\ UNCHANGED <<hosted, games, marked, resolved, acted, failures>>

\* The status that act gives batch b, when these of its transfers are resolved.
StatusOf(b, done) ==
    LET own == {i \in 1..Len(batches[b].transfers) : <<b, i>> \in done}
    IN CASE own = 1..Len(batches[b].transfers) -> "RESOLVED"
         [] own = {} -> "OPEN"
         [] OTHER -> "PARTIALLY_RESOLVED"

\* act. A key of this user and action that was used before changes nothing.
MarkPaid(u, b, i, k) ==
    /\ \A a \in acted : <<a.actor, a.action, a.key>> # <<u, Mark, k>>
    /\ batches[b].transfers[i].payer = u
    /\ <<b, i>> \notin marked \cup resolved
    /\ marked' = marked \cup {<<b, i>>}
    /\ batches' = [batches EXCEPT ![b].status = StatusOf(b, resolved)]
    /\ acted' = acted \cup {[actor |-> u, action |-> Mark, key |-> k, transfer |-> <<b, i>>]}
    /\ UNCHANGED <<hosted, games, resolved, requests, failures>>

\* Mutant of ConfirmPaid: of a transfer that nobody has marked.
ConfirmUnpaid(u, b, i, k) ==
    /\ \A a \in acted : <<a.actor, a.action, a.key>> # <<u, Confirm, k>>
    /\ batches[b].transfers[i].payee = u
    /\ <<b, i>> \notin resolved
    /\ marked' = marked \ {<<b, i>>} /\ resolved' = resolved \cup {<<b, i>>}
    /\ batches' = [batches EXCEPT ![b].status = StatusOf(b, resolved')]
    /\ acted' = acted \cup {[actor |-> u, action |-> Confirm, key |-> k, transfer |-> <<b, i>>]}
    /\ UNCHANGED <<hosted, games, requests, failures>>

ConfirmPaid(u, b, i, k) ==
    /\ \A a \in acted : <<a.actor, a.action, a.key>> # <<u, Confirm, k>>
    /\ batches[b].transfers[i].payee = u
    /\ <<b, i>> \in marked
    /\ marked' = marked \ {<<b, i>>} /\ resolved' = resolved \cup {<<b, i>>}
    /\ batches' = [batches EXCEPT ![b].status = StatusOf(b, resolved')]
    /\ acted' = acted \cup {[actor |-> u, action |-> Confirm, key |-> k, transfer |-> <<b, i>>]}
    /\ UNCHANGED <<hosted, games, requests, failures>>

Next ==
    \/ \E t \in Tables : NextRound(t) \/ Over(t)
    \/ \E g \in DOMAIN atHand, ending \in BOOLEAN : Retry(g, ending)
    \/ \E m \in waiting : RetryAgain(m)
    \/ Crash
    \/ \E u \in Players, k \in Keys :
         \/ \E t \in Tables, scope \in 0..MaxRounds : Ask(u, t, scope, k)
         \/ \E b \in 1..Len(batches) : \E i \in 1..Len(batches[b].transfers) :
              MarkPaid(u, b, i, k) \/ ConfirmPaid(u, b, i, k)
    \/ \E r \in requests : Freeze(r) \/ Create(r)

Spec == Init /\ [][Next]_vars

-------------------------------------------------------------------------------
(* Properties *)

\* A game is settled at most once, whoever settles it or its table at the same time.
\* (docs/ledger.md: a game can belong to only one settlement batch)
GameInOneBatch ==
    \A b, c \in 1..Len(batches) : b # c => batches[b].games \cap batches[c].games = {}

\* A request that is sent again makes no second batch. (docs/ledger.md: every command
\* carries an idempotency key)
RequestOnce ==
    \A b, c \in 1..Len(batches) :
        batches[b].by = batches[c].by /\ batches[b].key = batches[c].key => b = c

\* A transfer is marked by its payer and then confirmed by its payee.
\* (docs/ledger.md: OPEN -> MARKED_PAID -> RESOLVED, only the payer ... only the payee)
TwoPartyConfirmed ==
    \A x \in marked \cup resolved :
        /\ \E a \in acted : a.transfer = x /\ a.action = Mark
                            /\ a.actor = batches[x[1]].transfers[x[2]].payer
        /\ x \in resolved =>
             \E a \in acted : a.transfer = x /\ a.action = Confirm
                              /\ a.actor = batches[x[1]].transfers[x[2]].payee

\* The transfers of a batch bring the balances of its games to zero, also when there are new
\* results by the time that it is created, with fewer transfers than players. (docs/ledger.md:
\* turns the frozen signed balances into deterministic payer-to-payee transfers)
BatchSettles ==
    \A b \in 1..Len(batches) :
        /\ \A p \in Players : Receives(batches[b].transfers, p) = Total(batches[b].games)[p]
        /\ Len(batches[b].transfers) <
             Cardinality({p \in Players : Total(batches[b].games)[p] # 0})

\* Results, and what was frozen of them, never change. (docs/ledger.md: immutable results;
\* confirming an external payment never changes game history)
HistoryStays ==
    [][/\ \A g \in DOMAIN games : g \in DOMAIN games' /\ games'[g] = games[g]
       /\ \A b \in 1..Len(batches) :
            /\ b <= Len(batches')
            /\ batches'[b].games = batches[b].games
            /\ batches'[b].transfers = batches[b].transfers]_vars

\* The result of every game that was played to its end is in the ledger or can still be
\* recorded, except at tables a restart has lost. (docs/ledger.md: completed games publish
\* one immutable result)
NoResultLost ==
    \A t \in Tables \ gone : \A n \in 1..rounds[t].begun :
        (n < rounds[t].begun \/ rounds[t].over) => <<t, n>> \in DOMAIN games \cup DOMAIN atHand
================================================================================
